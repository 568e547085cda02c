------------------------ MODULE CircularBufferLemmas ------------------------
(***************************************************************************)
(* What the operators of CircularBuffer compute, for every capacity that   *)
(* fits in a uint8_t: which slot a virtual offset names, and what an       *)
(* addition does to the contents.  Before them, what recursive definitions *)
(* compute: induction is stated with sets and primitive recursion with     *)
(* functions, which the first-order provers can use; running totals and    *)
(* FlattenSeq follow.                                                      *)
(***************************************************************************)
EXTENDS CircularBuffer, SequencesExt, SequenceTheorems, WellFoundedInduction,
        TLAPS

(* A set of naturals that is not empty has a least element. *)
LEMMA LeastNatural ==
  ASSUME NEW S \in SUBSET Nat, S # {}
  PROVE  \E m \in S : \A k \in S : m <= k
  <1>1. IsWellFoundedOn(OpToRel(<, Nat), Nat)
    BY NatLessThanWellFounded
  <1> DEFINE R == {ss \in Nat \X Nat : ss[1] < ss[2]}
  <1>2. IsWellFoundedOn(R, Nat)
    BY <1>1 DEF OpToRel
  <1> HIDE DEF R
  <1>3. \E x \in S : \A y \in S : <<y, x>> \notin R
    BY <1>2, WFMin
  <1>4. PICK x \in S : \A y \in S : <<y, x>> \notin R
    BY <1>3
  <1>5. \A y \in S : ~(y < x)
    BY <1>4 DEF R
  <1> QED
    BY <1>5

(* The same of Min. *)
LEMMA MinValue ==
  ASSUME NEW S \in SUBSET Nat, S # {}
  PROVE  Min(S) \in S /\ \A k \in S : Min(S) <= k
  BY LeastNatural DEF Min

(* A set with 0 in it and with n + 1 whenever n is in it has every number. *)
LEMMA Induction ==
  ASSUME NEW S, 0 \in S, \A n \in Nat : n \in S => n + 1 \in S
  PROVE  Nat \subseteq S
  <1> SUFFICES ASSUME Nat \ S # {} PROVE FALSE
    OBVIOUS
  <1>1. PICK m \in Nat \ S : \A k \in Nat \ S : m <= k
    BY LeastNatural
  <1>2. m - 1 \in Nat /\ m - 1 \in S
    BY <1>1
  <1> QED
    BY <1>1, <1>2

-----------------------------------------------------------------------------
(* g starts from v and follows the steps F up to n. *)
Follows(g, n, v, F) ==
  /\ g[0] = v
  /\ \A k \in 0 .. n - 1 : g[k + 1] = F[k][g[k]]

StepsOf(F, V) == F \in [Nat -> [V -> V]]

Solves(g, V, v, F) ==
  /\ g \in [Nat -> V]
  /\ g[0] = v
  /\ \A k \in Nat : g[k + 1] = F[k][g[k]]

(* A function that starts from v and follows the steps F exists. *)
LEMMA Recursion ==
  ASSUME NEW V, NEW v \in V, NEW F, StepsOf(F, V)
  PROVE  \E g : Solves(g, V, v, F)
  <1> USE DEF StepsOf
  <1> DEFINE Upto(n) == {g \in [0 .. n -> V] : Follows(g, n, v, F)}
             A == {n \in Nat : Upto(n) # {}}
             B == {n \in Nat : \A m \in Nat : \A g \in Upto(n), h \in Upto(m) : n <= m => g[n] = h[n]}
  <1>1. Nat \subseteq A
    <2>1. 0 \in A
      <3> DEFINE g == [k \in 0 .. 0 |-> v]
      <3>1. g \in Upto(0)
        BY DEF Follows
      <3> QED BY <3>1
    <2>2. ASSUME NEW n \in Nat, n \in A PROVE n + 1 \in A
      <3>1. PICK g \in [0 .. n -> V] : Follows(g, n, v, F)
        BY <2>2
      <3> DEFINE h == [k \in 0 .. n + 1 |-> IF k <= n THEN g[k] ELSE F[n][g[n]]]
      <3>2. F[n][g[n]] \in V
        OBVIOUS
      <3>3. h \in [0 .. n + 1 -> V]
        BY <3>2
      <3>4. Follows(h, n + 1, v, F)
        <4>1. h[0] = v
          BY <3>1 DEF Follows
        <4>2. ASSUME NEW k \in 0 .. n PROVE h[k + 1] = F[k][h[k]]
          <5>1. CASE k < n
            BY <3>1, <5>1 DEF Follows
          <5>2. CASE k = n
            BY <5>2
          <5> QED BY <5>1, <5>2
        <4> HIDE DEF h
        <4> QED BY <4>1, <4>2 DEF Follows
      <3> QED BY <3>3, <3>4
    <2> HIDE DEF A
    <2> QED BY <2>1, <2>2, Induction
  <1>2. Nat \subseteq B
    <2>1. 0 \in B
      BY DEF Follows
    <2>2. ASSUME NEW n \in Nat, n \in B PROVE n + 1 \in B
      <3> SUFFICES ASSUME NEW m \in Nat, NEW g \in Upto(n + 1), NEW h \in Upto(m), n + 1 <= m
                   PROVE  g[n + 1] = h[n + 1]
        OBVIOUS
      <3> DEFINE f == [k \in 0 .. n |-> g[k]]
      <3>1. f \in Upto(n) /\ f[n] = g[n]
        BY DEF Follows
      <3>2. n <= m
        OBVIOUS
      <3>4. \A mm \in Nat : \A gg \in Upto(n), hh \in Upto(mm) : n <= mm => gg[n] = hh[n]
        BY <2>2
      <3>5. h \in Upto(m)
        OBVIOUS
      <3>6. f[n] = h[n]
        <4> HIDE DEF Upto, f
        <4> QED BY <3>1, <3>2, <3>4, <3>5
      <3>7. g[n] = h[n]
        BY <3>1, <3>6
      <3>3. g[n + 1] = F[n][g[n]] /\ h[n + 1] = F[n][h[n]]
        BY DEF Follows
      <3> QED BY <3>7, <3>3
    <2> HIDE DEF B
    <2> QED BY <2>1, <2>2, Induction
  <1> DEFINE pick == [n \in Nat |-> CHOOSE g : g \in Upto(n)]
             all == [n \in Nat |-> pick[n][n]]
  <1>3. \A n \in Nat : pick[n] \in Upto(n)
    BY <1>1
  <1> HIDE DEF pick
  <1>4. all \in [Nat -> V]
    BY <1>3
  <1>5. all[0] = v
    BY <1>3 DEF Follows
  <1>6. ASSUME NEW k \in Nat PROVE all[k + 1] = F[k][all[k]]
    <2>1. pick[k + 1][k + 1] = F[k][pick[k + 1][k]]
      BY <1>3 DEF Follows
    <2>2. pick[k] \in Upto(k) /\ pick[k + 1] \in Upto(k + 1)
      BY <1>3
    <2>3. pick[k][k] = pick[k + 1][k]
      <3> HIDE DEF Upto
      <3> QED BY <1>2, <2>2
    <2> QED BY <2>1, <2>3
  <1> QED BY <1>4, <1>5, <1>6 DEF Solves

(* The same as a formula, which the provers instantiate. *)
LEMMA Solution ==
  \A V : \A v \in V : \A F : StepsOf(F, V) => \E g : Solves(g, V, v, F)
  BY Recursion

-----------------------------------------------------------------------------
(* t[n] is the sum of the first n of the sizes z. *)
Totals(t, z) ==
  /\ t \in [Nat -> Nat]
  /\ t[0] = 0
  /\ \A k \in Nat : t[k + 1] = t[k] + z[k]

LEMMA TotalsExist ==
  ASSUME NEW z \in [Nat -> Nat]
  PROVE  \E t : Totals(t, z)
  <1> DEFINE F == [k \in Nat |-> [n \in Nat |-> n + z[k]]]
  <1>1. StepsOf(F, Nat)
    BY DEF StepsOf
  <1>2. \A k \in Nat, n \in Nat : F[k][n] = n + z[k]
    OBVIOUS
  <1> HIDE DEF F
  <1>3. 0 \in Nat
    OBVIOUS
  <1>4. \E g : Solves(g, Nat, 0, F)
    BY <1>1, <1>3, Solution
  <1>5. PICK g : Solves(g, Nat, 0, F)
    BY <1>4
  <1>6. ASSUME NEW k \in Nat PROVE g[k + 1] = g[k] + z[k]
    BY <1>2, <1>5 DEF Solves
  <1>7. g \in [Nat -> Nat] /\ g[0] = 0
    BY <1>5 DEF Solves
  <1> QED BY <1>6, <1>7 DEF Totals

(* A definition that adds one size after the other is the running total. *)
LEMMA TotalsOf ==
  ASSUME NEW z \in [Nat -> Nat], NEW t,
         t = [k \in Nat |-> t[k]], t[0] = 0, \A k \in Nat : t[k + 1] = t[k] + z[k]
  PROVE  Totals(t, z)
  <1> DEFINE A == {k \in Nat : t[k] \in Nat}
  <1>1. 0 \in A
    OBVIOUS
  <1>2. ASSUME NEW k \in Nat, k \in A PROVE k + 1 \in A
    <2>1. t[k] \in Nat /\ z[k] \in Nat
      BY <1>2
    <2>2. t[k + 1] = t[k] + z[k]
      OBVIOUS
    <2> QED BY <2>1, <2>2
  <1>3. Nat \subseteq A
    <2> HIDE DEF A
    <2> QED BY <1>1, <1>2, Induction
  <1>4. t \in [Nat -> Nat]
    BY <1>3
  <1> QED BY <1>4 DEF Totals

(* A running total never falls. *)
LEMMA TotalsGrow ==
  ASSUME NEW z \in [Nat -> Nat], NEW t, Totals(t, z),
         NEW m \in Nat, NEW n \in Nat, m <= n
  PROVE  t[m] <= t[n]
  <1> DEFINE A == {d \in Nat : t[m] <= t[m + d]}
  <1>1. 0 \in A
    BY DEF Totals
  <1>2. ASSUME NEW d \in Nat, d \in A PROVE d + 1 \in A
    <2>1. m + d \in Nat /\ m + (d + 1) = (m + d) + 1
      OBVIOUS
    <2>2. t[m + d] \in Nat /\ z[m + d] \in Nat /\ t[m] \in Nat
      BY <2>1 DEF Totals
    <2>3. t[(m + d) + 1] = t[m + d] + z[m + d]
      BY <2>1 DEF Totals
    <2>4. t[m] <= t[m + d]
      BY <1>2
    <2>5. t[m] <= t[m + (d + 1)]
      BY <2>1, <2>2, <2>3, <2>4
    <2> QED BY <2>5
  <1>3. Nat \subseteq A
    <2> HIDE DEF A
    <2> QED BY <1>1, <1>2, Induction
  <1>4. n - m \in Nat /\ m + (n - m) = n
    OBVIOUS
  <1>5. t[m] <= t[m + (n - m)]
    BY <1>3, <1>4
  <1> QED BY <1>4, <1>5

(* It stays where it is over sizes that are zero. *)
LEMMA TotalsRest ==
  ASSUME NEW z \in [Nat -> Nat], NEW t, Totals(t, z), NEW m \in Nat, NEW n \in Nat,
         m <= n, \A k \in m .. n - 1 : z[k] = 0
  PROVE  t[n] = t[m]
  <1> DEFINE A == {d \in Nat : m + d <= n => t[m + d] = t[m]}
  <1>1. 0 \in A
    BY DEF Totals
  <1>2. ASSUME NEW d \in Nat, d \in A PROVE d + 1 \in A
    <2> SUFFICES ASSUME m + (d + 1) <= n PROVE t[m + (d + 1)] = t[m]
      OBVIOUS
    <2>1. m + d \in Nat /\ m + (d + 1) = (m + d) + 1 /\ m + d \in m .. n - 1
      OBVIOUS
    <2>2. t[m + d] = t[m] /\ t[m] \in Nat
      BY <1>2, <2>1 DEF Totals
    <2>3. t[(m + d) + 1] = t[m + d] + z[m + d]
      BY <2>1 DEF Totals
    <2>4. z[m + d] = 0
      BY <2>1
    <2> QED BY <2>1, <2>2, <2>3, <2>4
  <1>3. Nat \subseteq A
    <2> HIDE DEF A
    <2> QED BY <1>1, <1>2, Induction
  <1>4. n - m \in Nat /\ m + (n - m) = n
    OBVIOUS
  <1>5. t[m + (n - m)] = t[m]
    BY <1>3, <1>4
  <1> QED BY <1>4, <1>5

-----------------------------------------------------------------------------
(* Where the elements of a concatenation come from. *)
LEMMA ConcatElements ==
  ASSUME NEW S, NEW x \in Seq(S), NEW y \in Seq(S)
  PROVE  /\ x \o y \in Seq(S)
         /\ Len(x \o y) = Len(x) + Len(y)
         /\ \A i \in 1 .. Len(x) : (x \o y)[i] = x[i]
         /\ \A j \in 1 .. Len(y) : (x \o y)[Len(x) + j] = y[j]
  OBVIOUS

(* The elements of a sequence that is not empty. *)
LEMMA SequenceElements ==
  ASSUME NEW V, NEW s \in Seq(V), s # <<>>
  PROVE  Len(s) \in Nat /\ Len(s) # 0 /\ \A k \in 1 .. Len(s) : s[k] \in V
  OBVIOUS

(* The sequence that holds the first n of the sequences s, end to end. *)
Joins(f, s) ==
  /\ f[1] = s[1]
  /\ \A n \in 1 .. Len(s) - 1 : f[n + 1] = f[n] \o s[n + 1]

LEMMA JoinExists ==
  ASSUME NEW S, NEW s \in Seq(Seq(S)), s # <<>>
  PROVE  \E f : Joins(f, s) /\ FlattenSeq(s) = f[Len(s)]
  <1> DEFINE V == Seq(S)
             F == [k \in Nat |-> [x \in V |-> IF k < Len(s) THEN x \o s[k + 1] ELSE x]]
  <1>1. Len(s) \in Nat /\ Len(s) # 0 /\ \A k \in 1 .. Len(s) : s[k] \in V
    OBVIOUS
  <1> HIDE DEF V
  <1>2. \A k \in Nat, x \in V : k < Len(s) => x \o s[k + 1] \in V
    <2> SUFFICES ASSUME NEW k \in Nat, NEW x \in V, k < Len(s) PROVE x \o s[k + 1] \in V
      OBVIOUS
    <2>1. s[k + 1] \in V
      BY <1>1
    <2> QED BY <2>1 DEF V
  <1>3. StepsOf(F, V)
    BY <1>2 DEF StepsOf
  <1>4. <<>> \in V
    BY DEF V
  <1>5. PICK g : Solves(g, V, <<>>, F)
    <2> HIDE DEF F
    <2> QED BY <1>3, <1>4, Solution
  <1>6. \A k \in 0 .. Len(s) - 1 : g[k + 1] = g[k] \o s[k + 1]
    <2> SUFFICES ASSUME NEW k \in 0 .. Len(s) - 1 PROVE g[k + 1] = g[k] \o s[k + 1]
      OBVIOUS
    <2>1. k \in Nat /\ k < Len(s) /\ g[k] \in V
      BY <1>1, <1>5 DEF Solves
    <2>2. g[k + 1] = F[k][g[k]]
      BY <1>5, <2>1 DEF Solves
    <2> QED BY <2>1, <2>2
  <1>7. g[1] = s[1]
    <2>3. 0 \in 0 .. Len(s) - 1 /\ 0 + 1 = 1
      BY <1>1
    <2>4. g[0] = <<>>
      BY <1>5 DEF Solves
    <2>1. g[0] = <<>> /\ g[1] = g[0] \o s[1]
      BY <1>6, <2>3, <2>4
    <2>2. s[1] \in Seq(S)
      BY <1>1 DEF V
    <2> QED BY <2>1, <2>2
  <1> HIDE DEF F
  <1> DEFINE h == [i \in 1 .. Len(s) |-> g[i]]
             f == CHOOSE ff : ff = [i \in 1 .. Len(s) |->
                                      IF i = 1 THEN s[i] ELSE ff[i - 1] \o s[i]]
  <1>8. h = [i \in 1 .. Len(s) |-> IF i = 1 THEN s[i] ELSE h[i - 1] \o s[i]]
    <2> SUFFICES ASSUME NEW i \in 1 .. Len(s)
                 PROVE  g[i] = IF i = 1 THEN s[i] ELSE h[i - 1] \o s[i]
      OBVIOUS
    <2>1. CASE i = 1
      BY <1>7, <2>1
    <2>2. CASE i # 1
      <3>1. i - 1 \in 1 .. Len(s) /\ i - 1 \in 0 .. Len(s) - 1 /\ (i - 1) + 1 = i
        BY <1>1, <2>2
      <3>2. g[(i - 1) + 1] = g[i - 1] \o s[(i - 1) + 1]
        BY <1>6, <3>1
      <3>3. h[i - 1] = g[i - 1]
        BY <3>1
      <3>4. g[i] = h[i - 1] \o s[i]
        BY <3>1, <3>2, <3>3
      <3> QED BY <2>2, <3>4
    <2> QED BY <2>1, <2>2
  <1> HIDE DEF h
  <1>9. f = [i \in 1 .. Len(s) |-> IF i = 1 THEN s[i] ELSE f[i - 1] \o s[i]]
    BY <1>8, Zenon
  <1>10. FlattenSeq(s) = f[Len(s)]
    BY <1>1 DEF FlattenSeq
  <1> HIDE DEF f
  <1>11. f[1] = s[1]
    BY <1>1, <1>9
  <1>12. ASSUME NEW n \in 1 .. Len(s) - 1
         PROVE  f[n + 1] = f[n] \o s[n + 1]
    <2>1. n + 1 \in 1 .. Len(s) /\ n + 1 # 1 /\ (n + 1) - 1 = n
      BY <1>1
    <2>2. f[n + 1] = IF n + 1 = 1 THEN s[n + 1] ELSE f[(n + 1) - 1] \o s[n + 1]
      BY <1>9, <2>1, Zenon
    <2> QED BY <2>1, <2>2
  <1> QED BY <1>10, <1>11, <1>12 DEF Joins

(* The sequences s have the lengths z, which add up to t. *)
Layout(s, S, z, t) ==
  /\ s \in Seq(Seq(S))
  /\ z \in [Nat -> Nat]
  /\ Totals(t, z)
  /\ \A k \in 1 .. Len(s) : z[k - 1] = Len(s[k])

(* FlattenSeq lays sequences end to end: sequence k starts where the       *)
(* lengths of the earlier ones add up to.                                  *)
LEMMA FlattenValue ==
  ASSUME NEW s, NEW S, NEW z, NEW t, Layout(s, S, z, t)
  PROVE  /\ FlattenSeq(s) \in Seq(S)
         /\ Len(FlattenSeq(s)) = t[Len(s)]
         /\ \A k \in 1 .. Len(s) : \A j \in 1 .. Len(s[k]) :
              FlattenSeq(s)[t[k - 1] + j] = s[k][j]
  <1> SUFFICES ASSUME s \in Seq(Seq(S)), z \in [Nat -> Nat], Totals(t, z),
                      \A k \in 1 .. Len(s) : z[k - 1] = Len(s[k])
               PROVE  /\ FlattenSeq(s) \in Seq(S)
                      /\ Len(FlattenSeq(s)) = t[Len(s)]
                      /\ \A k \in 1 .. Len(s) : \A j \in 1 .. Len(s[k]) :
                           FlattenSeq(s)[t[k - 1] + j] = s[k][j]
    BY DEF Layout
  <1>1. CASE s = <<>>
    BY <1>1 DEF FlattenSeq, Totals
  <1>2. CASE s # <<>>
    <2>1. Len(s) \in Nat /\ Len(s) # 0 /\ \A k \in 1 .. Len(s) : s[k] \in Seq(S)
      BY <1>2, SequenceElements
    <2>2. PICK f : Joins(f, s) /\ FlattenSeq(s) = f[Len(s)]
      BY <1>2, JoinExists
    <2> DEFINE Good(n) ==
                 /\ f[n] \in Seq(S)
                 /\ Len(f[n]) = t[n]
                 /\ \A k \in 1 .. n : \A j \in 1 .. Len(s[k]) : f[n][t[k - 1] + j] = s[k][j]
               A == {d \in Nat : d + 1 <= Len(s) => Good(d + 1)}
    <2>3. Good(1)
      <3>1. 0 \in Nat /\ 0 + 1 = 1 /\ 1 - 1 = 0 /\ 1 \in 1 .. Len(s)
        BY <2>1
      <3>2. t[0] = 0 /\ t[0 + 1] = t[0] + z[0] /\ z[0] \in Nat
        BY <3>1 DEF Totals
      <3>3. f[1] = s[1] /\ s[1] \in Seq(S) /\ Len(s[1]) = z[1 - 1]
        BY <2>1, <2>2, <3>1 DEF Joins
      <3>7. t[1] = t[0] + z[0]
        BY <3>1, <3>2
      <3>4. t[1] = z[0]
        BY <3>2, <3>7
      <3>5. \A k \in 1 .. 1 : \A j \in 1 .. Len(s[k]) : f[1][t[k - 1] + j] = s[k][j]
        <4> SUFFICES ASSUME NEW j \in 1 .. Len(s[1]) PROVE f[1][t[1 - 1] + j] = s[1][j]
          OBVIOUS
        <4>1. Len(s[1]) \in Nat
          BY <3>3
        <4>2. t[1 - 1] = 0
          BY <3>1, <3>2
        <4>3. t[1 - 1] + j = j
          BY <4>1, <4>2
        <4> QED BY <3>3, <4>3
      <3>6. f[1] \in Seq(S) /\ Len(f[1]) = t[1]
        BY <3>1, <3>3, <3>4
      <3> QED BY <3>5, <3>6
    <2>4. ASSUME NEW n \in 1 .. Len(s) - 1, Good(n)
          PROVE  Good(n + 1)
      <3>1. /\ n \in Nat /\ n + 1 \in 1 .. Len(s) /\ (n + 1) - 1 = n
            /\ s[n + 1] \in Seq(S)
        BY <2>1
      <3>2. t[n + 1] = t[n] + Len(s[n + 1])
        BY <3>1 DEF Totals
      <3>3. f[n + 1] = f[n] \o s[n + 1]
        BY <2>2 DEF Joins
      <3>8. PICK x, y : x = f[n] /\ y = s[n + 1]
        OBVIOUS
      <3>4. x \in Seq(S) /\ Len(x) = t[n] /\ y \in Seq(S) /\ t[n] \in Nat
        BY <2>4, <3>1, <3>8 DEF Totals
      <3>5. /\ x \o y \in Seq(S) /\ Len(x \o y) = t[n] + Len(y)
            /\ \A i \in 1 .. t[n] : (x \o y)[i] = x[i]
            /\ \A j \in 1 .. Len(y) : (x \o y)[t[n] + j] = y[j]
        <4>1. x \in Seq(S) /\ y \in Seq(S)
          BY <3>4
        <4>3. Len(x) = t[n]
          BY <3>4
        <4>2. /\ x \o y \in Seq(S)
              /\ Len(x \o y) = Len(x) + Len(y)
              /\ \A i \in 1 .. Len(x) : (x \o y)[i] = x[i]
              /\ \A j \in 1 .. Len(y) : (x \o y)[Len(x) + j] = y[j]
          BY <4>1, ConcatElements
        <4> QED BY <4>2, <4>3, Zenon
      <3>6. ASSUME NEW k \in 1 .. n + 1, NEW j \in 1 .. Len(s[k])
            PROVE  f[n + 1][t[k - 1] + j] = s[k][j]
        <4>1. CASE k = n + 1
          BY <3>1, <3>3, <3>5, <3>8, <4>1
        <4>2. CASE k # n + 1
          <5>1. k \in 1 .. n /\ k - 1 \in Nat /\ (k - 1) + 1 = k /\ k \in 1 .. Len(s)
                /\ k \in Nat
            BY <3>1, <4>2
          <5>2. t[k] = t[k - 1] + Len(s[k]) /\ t[k - 1] \in Nat
            BY <5>1 DEF Totals
          <5>3. t[k] <= t[n]
            <6>1. k \in Nat /\ n \in Nat /\ k <= n
              BY <3>1, <5>1
            <6> QED BY <6>1, TotalsGrow
          <5>4. Len(s[k]) \in Nat
            BY <2>1, <5>1
          <5>5. t[k - 1] + j \in 1 .. t[n]
            <6>1. j \in Nat /\ 1 <= j /\ j <= Len(s[k])
              BY <5>4
            <6>2. PICK a \in Nat, c \in Nat, l \in Nat, d \in Nat :
                    a = t[k - 1] /\ c = t[k] /\ l = Len(s[k]) /\ d = t[n]
              BY <3>4, <5>1, <5>2, <5>4 DEF Totals
            <6>3. c = a + l /\ c <= d /\ j <= l
              BY <5>2, <5>3, <6>1, <6>2
            <6>4. a + j \in 1 .. d
              BY <6>1, <6>3
            <6> QED BY <6>2, <6>4
          <5>6. x[t[k - 1] + j] = s[k][j]
            BY <2>4, <3>8, <5>1
          <5> QED BY <3>3, <3>5, <3>8, <5>5, <5>6
        <4> QED BY <4>1, <4>2
      <3>7. f[n + 1] \in Seq(S) /\ Len(f[n + 1]) = t[n + 1]
        BY <3>2, <3>3, <3>5, <3>8
      <3> QED BY <3>6, <3>7
    <2>5. Nat \subseteq A
      <3>1. 0 \in A
        <4> HIDE DEF Good
        <4> QED BY <2>3
      <3>2. ASSUME NEW d \in Nat, d \in A PROVE d + 1 \in A
        <4> HIDE DEF Good
        <4> SUFFICES ASSUME (d + 1) + 1 <= Len(s) PROVE Good((d + 1) + 1)
          OBVIOUS
        <4>1. d + 1 \in 1 .. Len(s) - 1 /\ Good(d + 1)
          BY <2>1, <3>2
        <4> QED BY <2>4, <4>1
      <3> HIDE DEF A
      <3> QED BY <3>1, <3>2, Induction
    <2>6. Good(Len(s))
      <3> HIDE DEF Good
      <3>1. Len(s) - 1 \in Nat /\ (Len(s) - 1) + 1 = Len(s)
        BY <2>1
      <3>2. Len(s) - 1 \in A
        BY <2>5, <3>1
      <3> QED BY <2>1, <3>1, <3>2
    <2> QED BY <2>2, <2>6
  <1> QED BY <1>1, <1>2

(* One more sequence at the end. *)
LEMMA FlattenAppend ==
  ASSUME NEW S, NEW s \in Seq(Seq(S)), NEW x \in Seq(S)
  PROVE  FlattenSeq(Append(s, x)) = FlattenSeq(s) \o x
  <1> DEFINE V == Seq(S)
             n == Len(s)
             w == Append(s, x)
  <1>1. s \in Seq(V) /\ x \in V /\ n \in Nat
    OBVIOUS
  <1> HIDE DEF V
  <1>2. /\ w \in Seq(V) /\ Len(w) = n + 1 /\ w[n + 1] = x
        /\ \A k \in 1 .. n : w[k] = s[k]
    BY <1>1
  <1> HIDE DEF w, n
  <1>3. w # <<>>
    BY <1>1, <1>2
  <1>4. PICK g : Joins(g, w) /\ FlattenSeq(w) = g[n + 1]
    BY <1>2, <1>3, JoinExists DEF V
  <1>5. CASE n = 0
    <2>1. FlattenSeq(w) = x
      BY <1>2, <1>4, <1>5 DEF Joins
    <2>2. s = <<>> /\ FlattenSeq(s) = s
      BY <1>1, <1>5 DEF FlattenSeq, n
    <2>3. <<>> \o x = x
      BY ConcatEmptySeq
    <2> QED BY <2>1, <2>2, <2>3 DEF w
  <1>6. CASE n # 0
    <2>1. s # <<>>
      BY <1>6 DEF n
    <2>2. PICK f : Joins(f, s) /\ FlattenSeq(s) = f[n]
      BY <2>1, JoinExists DEF n
    <2> DEFINE A == {k \in Nat : k < n => f[k + 1] = g[k + 1]}
    <2>3. 0 \in A
      BY <1>1, <1>2, <1>4, <2>2 DEF Joins
    <2>4. ASSUME NEW k \in Nat, k \in A PROVE k + 1 \in A
      <3> SUFFICES ASSUME k + 1 < n PROVE f[(k + 1) + 1] = g[(k + 1) + 1]
        OBVIOUS
      <3>1. /\ k + 1 \in 1 .. n - 1 /\ k + 1 \in 1 .. (n + 1) - 1
            /\ (k + 1) + 1 \in 1 .. n /\ k < n
        BY <1>1
      <3>2. f[(k + 1) + 1] = f[k + 1] \o s[(k + 1) + 1]
        BY <2>2, <3>1 DEF Joins, n
      <3>3. g[(k + 1) + 1] = g[k + 1] \o w[(k + 1) + 1]
        BY <1>2, <1>4, <3>1 DEF Joins
      <3>4. f[k + 1] = g[k + 1] /\ w[(k + 1) + 1] = s[(k + 1) + 1]
        BY <1>2, <2>4, <3>1
      <3> QED BY <3>2, <3>3, <3>4
    <2>5. Nat \subseteq A
      <3> HIDE DEF A
      <3> QED BY <2>3, <2>4, Induction
    <2>6. n - 1 \in Nat /\ n - 1 < n /\ (n - 1) + 1 = n /\ n \in 1 .. (n + 1) - 1
      BY <1>1, <1>6
    <2>7. f[n] = g[n]
      BY <2>5, <2>6
    <2>8. g[n + 1] = g[n] \o x
      BY <1>2, <1>4, <2>6 DEF Joins
    <2> QED BY <1>4, <2>2, <2>7, <2>8 DEF w
  <1> QED BY <1>5, <1>6

-----------------------------------------------------------------------------
(* The ring. *)

(* A position less than twice the capacity wraps by one subtraction. *)
LEMMA WrapOnce ==
  \A n \in 0 .. 2 * Capacity - 1 :
    /\ n < Capacity => n % Capacity = n
    /\ ~(n < Capacity) => n % Capacity = n - Capacity
BY CapacityAssumption, Z3 DEF Capacity

(* get_entry_at_virtual_offset for the offsets its callers pass: the       *)
(* truncation to uint8_t is harmless.                                      *)
LEMMA VirtualIndexValue ==
  ASSUME NEW b, b.out_offs \in Slots, NEW v \in Slots
  PROVE  VirtualIndex(b, v) = IF b.out_offs + v < Capacity
                              THEN b.out_offs + v
                              ELSE (b.out_offs + v) - Capacity
<1>1. Capacity \in 1 .. 255 /\ v % 256 = v
  BY CapacityAssumption DEF Capacity, Slots
<1>2. b.out_offs + v \in 0 .. 2 * Capacity - 1
  BY <1>1 DEF Slots
<1> QED BY <1>1, <1>2, WrapOnce DEF VirtualIndex

(* The two shapes a history can have: the slots in array order until the   *)
(* buffer is full, then the array read from out_offs on.                   *)
LEMMA ContentsValue ==
  ASSUME NEW E, NEW b \in BufferType(E), IndexInv(b)
  PROVE  /\ numEntries(b) \in 0 .. Capacity
         /\ Contents(b) \in Seq(E \cup {EmptyEntry})
         /\ Len(Contents(b)) = numEntries(b)
         /\ \A i \in 1 .. numEntries(b) :
              Contents(b)[i] = b.entry[IF b.out_offs + (i - 1) < Capacity
                                       THEN b.out_offs + (i - 1)
                                       ELSE (b.out_offs + (i - 1)) - Capacity]
<1>1. Capacity \in 1 .. 255
  BY CapacityAssumption DEF Capacity
<1>2. numEntries(b) \in 0 .. Capacity
  BY <1>1 DEF numEntries, BufferType, Slots
<1>3. ASSUME NEW i \in 1 .. numEntries(b)
      PROVE  /\ Contents(b)[i] = b.entry[VirtualIndex(b, i - 1)]
             /\ VirtualIndex(b, i - 1) = IF b.out_offs + (i - 1) < Capacity
                                         THEN b.out_offs + (i - 1)
                                         ELSE (b.out_offs + (i - 1)) - Capacity
             /\ VirtualIndex(b, i - 1) \in Slots
  <2>1. i - 1 \in Slots /\ b.out_offs \in Slots
    BY <1>1, <1>2 DEF Slots, BufferType
  <2>2. VirtualIndex(b, i - 1) = IF b.out_offs + (i - 1) < Capacity
                                 THEN b.out_offs + (i - 1)
                                 ELSE (b.out_offs + (i - 1)) - Capacity
    BY <2>1, VirtualIndexValue
  <2>3. VirtualIndex(b, i - 1) \in Slots
    BY <1>1, <2>1, <2>2 DEF Slots
  <2> QED BY <2>2, <2>3 DEF Contents, get_entry_at_virtual_offset
<1>4. Contents(b) \in [1 .. numEntries(b) -> E \cup {EmptyEntry}]
  BY <1>3 DEF Contents, get_entry_at_virtual_offset, BufferType
<1>5. Contents(b) \in Seq(E \cup {EmptyEntry}) /\ Len(Contents(b)) = numEntries(b)
  BY <1>2, <1>4
<1> QED BY <1>2, <1>3, <1>5

(* One addition to a well-formed buffer: the buffer stays well formed, its *)
(* contents gain the entry and lose the oldest one exactly when the buffer *)
(* was full, and the pointer replaced is that oldest entry's.              *)
LEMMA AddEntryContents ==
  ASSUME NEW E, NEW b \in BufferType(E), IndexInv(b), NEW e \in E
  PROVE  LET b2 == aesd_circular_buffer_add_entry(b, e)
         IN  /\ b2 \in BufferType(E)
             /\ IndexInv(b2)
             /\ ~b.full => /\ Len(Contents(b)) < Capacity
                           /\ Contents(b2) = Append(Contents(b), e)
                           /\ ReplacedPtr(b) = NULL
             /\ b.full => /\ Len(Contents(b)) = Capacity
                          /\ Contents(b2) = Append(Tail(Contents(b)), e)
                          /\ ReplacedPtr(b) = Head(Contents(b)).buffptr
<1> DEFINE b2 == aesd_circular_buffer_add_entry(b, e)
           in == b.in_offs
           next == NextIn(b)
<1>1. Capacity \in 1 .. 255
  BY CapacityAssumption DEF Capacity
<1>2. /\ b.entry \in [Slots -> E \cup {EmptyEntry}]
      /\ in \in Slots /\ b.out_offs \in Slots /\ b.full \in BOOLEAN
  BY DEF BufferType
<1>3. /\ next \in Slots
      /\ in + 1 = Capacity => next = 0
      /\ in + 1 # Capacity => next = in + 1
  <2>1. next = IF in + 1 = Capacity THEN 0 ELSE in + 1
    BY DEF NextIn
  <2>2. in \in 0 .. Capacity - 1
    BY <1>2 DEF Slots
  <2> HIDE DEF next, in
  <2>3. next \in 0 .. Capacity - 1
    BY <1>1, <2>1, <2>2
  <2> QED BY <2>1, <2>3 DEF Slots
<1>4. /\ b2.entry = [b.entry EXCEPT ![in] = e]
      /\ b2.in_offs = next
      /\ b2.out_offs = IF b.full THEN next ELSE b.out_offs
      /\ b2.full <=> (b.full \/ next = b.out_offs)
  <2>1. b2 = [entry    |-> [b.entry EXCEPT ![in] = e],
              in_offs  |-> next,
              out_offs |-> IF b.full THEN next ELSE b.out_offs,
              full     |-> b.full \/ next = b.out_offs]
    BY DEF aesd_circular_buffer_add_entry
  <2> HIDE DEF b2
  <2>2. b2.full = (b.full \/ next = b.out_offs)
    BY <2>1, Zenon
  <2> QED BY <2>1, <2>2
<1>5. b2 \in BufferType(E)
  BY <1>2, <1>3 DEF aesd_circular_buffer_add_entry, BufferType
<1> HIDE DEF b2, in, next
<1>6. CASE ~b.full
  <2>1. /\ b.out_offs = 0
        /\ \A i \in Slots : i >= in => b.entry[i] = EmptyEntry
        /\ numEntries(b) = in
    BY <1>6 DEF IndexInv, numEntries, in
  <2>2. b2.out_offs = 0 /\ numEntries(b2) = in + 1
    <3>1. CASE in + 1 = Capacity
      BY <1>3, <1>4, <1>6, <2>1, <3>1 DEF numEntries
    <3>2. CASE in + 1 # Capacity
      <4>1. next # 0 /\ ~b2.full /\ b2.in_offs = in + 1 /\ b2.out_offs = 0
        BY <1>2, <1>3, <1>4, <1>6, <2>1, <3>2 DEF Slots
      <4> QED BY <4>1 DEF numEntries
    <3> QED BY <3>1, <3>2
  <2>3. IndexInv(b2)
    <3>1. b2.full => b2.out_offs = b2.in_offs
      BY <1>4, <1>6, <2>1
    <3>2. ASSUME ~b2.full, NEW i \in Slots, i >= b2.in_offs
          PROVE  b2.entry[i] = EmptyEntry
      <4>1. next = in + 1
        BY <1>3, <1>4, <2>1, <3>2
      <4>2. i # in /\ i >= in
        BY <1>2, <1>4, <3>2, <4>1 DEF Slots
      <4> QED BY <1>2, <1>4, <2>1, <4>2
    <3> QED BY <2>2, <3>1, <3>2 DEF IndexInv
  <2>4. /\ Contents(b) \in Seq(E \cup {EmptyEntry})
        /\ Len(Contents(b)) = in
        /\ \A i \in 1 .. in :
              Contents(b)[i] = b.entry[IF 0 + (i - 1) < Capacity
                                       THEN 0 + (i - 1)
                                       ELSE (0 + (i - 1)) - Capacity]
    BY <2>1, ContentsValue
  <2>5. /\ Contents(b2) \in Seq(E \cup {EmptyEntry})
        /\ Len(Contents(b2)) = in + 1
        /\ \A i \in 1 .. in + 1 :
              Contents(b2)[i] = b2.entry[IF 0 + (i - 1) < Capacity
                                         THEN 0 + (i - 1)
                                         ELSE (0 + (i - 1)) - Capacity]
    BY <1>5, <2>2, <2>3, ContentsValue
  <2>6. Len(Contents(b)) < Capacity
    BY <1>1, <1>2, <2>4 DEF Slots
  <2>7. ReplacedPtr(b) = NULL
    BY <1>2, <2>1 DEF ReplacedPtr, Slots, EmptyEntry, in
  <2>8. ASSUME NEW i \in 1 .. in + 1
        PROVE  Contents(b2)[i] = Append(Contents(b), e)[i]
    <3>1. i - 1 \in Slots /\ Contents(b2)[i] = b2.entry[i - 1]
      BY <1>1, <1>2, <2>5 DEF Slots
    <3>2. CASE i = in + 1
      <4>1. i - 1 = in /\ i = Len(Contents(b)) + 1
        BY <1>2, <2>4, <3>2 DEF Slots
      <4>2. Append(Contents(b), e)[i] = e
        BY <2>4, <4>1
      <4> QED BY <1>2, <1>4, <3>1, <4>1, <4>2
    <3>3. CASE i # in + 1
      <4>1. i \in 1 .. in /\ i - 1 # in /\ Contents(b)[i] = b.entry[i - 1]
        BY <1>1, <1>2, <2>4, <3>1, <3>3 DEF Slots
      <4> QED BY <1>2, <1>4, <2>4, <3>1, <4>1
    <3> QED BY <3>2, <3>3
  <2>9. Contents(b2) = Append(Contents(b), e)
    BY <1>2, <2>4, <2>5, <2>8 DEF Slots
  <2> QED BY <1>5, <1>6, <2>3, <2>6, <2>7, <2>9 DEF b2
<1>7. CASE b.full
  <2>1. /\ b.out_offs = in
        /\ numEntries(b) = Capacity
    BY <1>7 DEF IndexInv, numEntries, in
  <2>2. b2.full /\ b2.out_offs = next /\ numEntries(b2) = Capacity
    BY <1>4, <1>7 DEF numEntries
  <2>3. IndexInv(b2)
    BY <1>4, <2>2 DEF IndexInv
  <2>4. /\ Contents(b) \in Seq(E \cup {EmptyEntry})
        /\ Len(Contents(b)) = Capacity
        /\ \A i \in 1 .. Capacity :
              Contents(b)[i] = b.entry[IF in + (i - 1) < Capacity
                                       THEN in + (i - 1)
                                       ELSE (in + (i - 1)) - Capacity]
    BY <2>1, ContentsValue
  <2>5. /\ Contents(b2) \in Seq(E \cup {EmptyEntry})
        /\ Len(Contents(b2)) = Capacity
        /\ \A i \in 1 .. Capacity :
              Contents(b2)[i] = b2.entry[IF next + (i - 1) < Capacity
                                         THEN next + (i - 1)
                                         ELSE (next + (i - 1)) - Capacity]
    BY <1>5, <2>2, <2>3, ContentsValue
  <2>6. Head(Contents(b)) = b.entry[in]
    BY <1>1, <1>2, <2>4 DEF Slots
  <2>7. ASSUME NEW i \in 1 .. Capacity
        PROVE  Contents(b2)[i] = Append(Tail(Contents(b)), e)[i]
    <3> DEFINE k == IF next + (i - 1) < Capacity
                    THEN next + (i - 1)
                    ELSE (next + (i - 1)) - Capacity
    <3>1. k \in Slots /\ Contents(b2)[i] = b2.entry[k]
      BY <1>1, <1>3, <2>5 DEF Slots
    <3>2. CASE i = Capacity
      <4>1. k = in
        BY <1>1, <1>2, <1>3, <3>2 DEF Slots
      <4>2. Append(Tail(Contents(b)), e)[i] = e
        BY <1>1, <2>4, <3>2
      <4> QED BY <1>2, <1>4, <3>1, <4>1, <4>2
    <3>3. CASE i # Capacity
      <4>1. i + 1 \in 1 .. Capacity /\ i \in 1 .. Capacity - 1
        BY <1>1, <3>3
      <4>2. k # in /\ Contents(b)[i + 1] = b.entry[k]
        <5>1. Contents(b)[i + 1] = b.entry[IF in + ((i + 1) - 1) < Capacity
                                       THEN in + ((i + 1) - 1)
                                       ELSE (in + ((i + 1) - 1)) - Capacity]
          BY <2>4, <4>1
        <5>2. k = IF in + ((i + 1) - 1) < Capacity
                  THEN in + ((i + 1) - 1)
                  ELSE (in + ((i + 1) - 1)) - Capacity
          BY <1>1, <1>2, <1>3, <4>1 DEF Slots
        <5>3. k # in
          BY <1>1, <1>2, <4>1, <5>2 DEF Slots
        <5> QED BY <5>1, <5>2, <5>3
      <4>3. Append(Tail(Contents(b)), e)[i] = Contents(b)[i + 1]
        BY <1>1, <2>4, <4>1
      <4> QED BY <1>2, <1>4, <3>1, <4>2, <4>3
    <3> QED BY <3>2, <3>3
  <2>8. Contents(b2) = Append(Tail(Contents(b)), e)
    BY <1>1, <2>4, <2>5, <2>7
  <2> QED BY <1>5, <1>7, <2>3, <2>4, <2>6, <2>8 DEF b2, ReplacedPtr, in
<1> QED BY <1>6, <1>7
-----------------------------------------------------------------------------
(* Every virtual offset names a slot. *)
LEMMA VirtualIndexInSlots ==
  ASSUME NEW b, b.out_offs \in Slots, NEW v \in Nat
  PROVE  VirtualIndex(b, v) \in Slots
<1>1. Capacity \in 1 .. 255 /\ v % 256 \in 0 .. 255
  BY CapacityAssumption, Z3 DEF Capacity
<1>2. b.out_offs + (v % 256) \in Nat
  BY <1>1 DEF Slots
<1>3. \A n \in Nat : n % Capacity \in 0 .. Capacity - 1
  BY <1>1, Z3
<1> QED BY <1>2, <1>3 DEF VirtualIndex, Slots

(* SizeOfFirst is the running total of the sizes in virtual order. *)
LEMMA SizeTotals ==
  ASSUME NEW E, \A e \in E : e.size \in Nat, NEW b \in BufferType(E), NEW z,
         z = [k \in Nat |-> get_entry_at_virtual_offset(b, k).size]
  PROVE  /\ z \in [Nat -> Nat]
         /\ \E t : Totals(t, z) /\ \A n : SizeOfFirst(b, n) = t[n]
<1>1. \A k \in Nat : get_entry_at_virtual_offset(b, k).size \in Nat
  <2> SUFFICES ASSUME NEW k \in Nat PROVE b.entry[VirtualIndex(b, k)].size \in Nat
    BY DEF get_entry_at_virtual_offset
  <2>1. VirtualIndex(b, k) \in Slots
    BY VirtualIndexInSlots DEF BufferType
  <2>2. b.entry[VirtualIndex(b, k)] \in E \cup {EmptyEntry}
    BY <2>1 DEF BufferType
  <2> QED BY <2>2 DEF EmptyEntry
<1>2. z \in [Nat -> Nat]
  BY <1>1
<1> DEFINE t == CHOOSE g : g = [k \in Nat |-> IF k = 0 THEN 0
                 ELSE g[k - 1] + get_entry_at_virtual_offset(b, k - 1).size]
<1>3. \A n : SizeOfFirst(b, n) = t[n]
  BY DEF SizeOfFirst
<1>4. PICK g : Totals(g, z)
  BY <1>2, TotalsExist
<1>5. g = [k \in Nat |-> IF k = 0 THEN 0
                        ELSE g[k - 1] + get_entry_at_virtual_offset(b, k - 1).size]
  <2>1. ASSUME NEW k \in Nat, k # 0
        PROVE  g[k] = g[k - 1] + get_entry_at_virtual_offset(b, k - 1).size
    <3>1. k - 1 \in Nat /\ (k - 1) + 1 = k
      BY <2>1
    <3>2. g[(k - 1) + 1] = g[k - 1] + z[k - 1]
      BY <1>4, <3>1 DEF Totals
    <3> QED BY <3>1, <3>2
  <2> QED BY <1>4, <2>1 DEF Totals
<1>6. t = [k \in Nat |-> IF k = 0 THEN 0
                        ELSE t[k - 1] + get_entry_at_virtual_offset(b, k - 1).size]
  BY <1>5, Zenon
<1> HIDE DEF t
<1>7. t[0] = 0
  BY <1>6
<1>8. ASSUME NEW k \in Nat PROVE t[k + 1] = t[k] + z[k]
  <2>1. k + 1 \in Nat /\ k + 1 # 0 /\ (k + 1) - 1 = k
    OBVIOUS
  <2>2. t[k + 1] = IF k + 1 = 0 THEN 0
                   ELSE t[(k + 1) - 1]
                          + get_entry_at_virtual_offset(b, (k + 1) - 1).size
    BY <1>6, <2>1, Zenon
  <2> QED BY <2>1, <2>2
<1>9. t = [k \in Nat |-> t[k]]
  BY <1>6
<1>10. Totals(t, z)
  BY <1>2, <1>7, <1>8, <1>9, TotalsOf
<1> QED BY <1>2, <1>3, <1>10

(* The lookups scan the slots behind the last entry too: they are empty. *)
LEMMA EmptyBehind ==
  ASSUME NEW E, NEW b \in BufferType(E), IndexInv(b),
         NEW k \in numEntries(b) .. Capacity - 1
  PROVE  get_entry_at_virtual_offset(b, k).size = 0
<1>1. Capacity \in 1 .. 255
  BY CapacityAssumption DEF Capacity
<1>2. /\ ~b.full /\ b.out_offs = 0 /\ k \in Slots /\ k >= b.in_offs
      /\ b.entry[k] = EmptyEntry
  BY <1>1 DEF IndexInv, numEntries, BufferType, Slots
<1>3. VirtualIndex(b, k) = k
  BY <1>1, <1>2, VirtualIndexValue DEF Slots
<1> QED BY <1>2, <1>3 DEF get_entry_at_virtual_offset, EmptyEntry

(* aesd_circular_buffer_find_entry_offset_for_fpos: the entry whose bytes  *)
(* span the position, and NULL from the total size on.                     *)
LEMMA LookupValue ==
  ASSUME NEW E, \A e \in E : e.size \in Nat, NEW b \in BufferType(E), IndexInv(b),
         NEW z, z = [k \in Nat |-> get_entry_at_virtual_offset(b, k).size],
         NEW t, Totals(t, z), \A n : SizeOfFirst(b, n) = t[n],
         NEW o \in Nat
  PROVE  LET find == aesd_circular_buffer_find_entry_offset_for_fpos(b, o)
         IN  /\ o >= t[numEntries(b)] => find = NULL
             /\ o < t[numEntries(b)] =>
                  \E k \in 0 .. numEntries(b) - 1 :
                    /\ t[k] <= o /\ o < t[k + 1]
                    /\ find = [slot |-> VirtualIndex(b, k), offset |-> o - t[k]]
<1> DEFINE find == aesd_circular_buffer_find_entry_offset_for_fpos(b, o)
           N == numEntries(b)
           passing == {n \in 1 .. Capacity : SizeOfFirst(b, n) > o}
           m == Min(passing)
<1>1. Capacity \in 1 .. 255
  BY CapacityAssumption DEF Capacity
<1>2. N \in 0 .. Capacity
  BY <1>1 DEF numEntries, BufferType, Slots
<1>3. z \in [Nat -> Nat]
  BY SizeTotals
<1>4. \A n \in N .. Capacity : t[n] = t[N]
  <2> SUFFICES ASSUME NEW n \in N .. Capacity PROVE t[n] = t[N]
    OBVIOUS
  <2>1. N \in Nat /\ n \in Nat /\ N <= n
    BY <1>2
  <2>2. \A k \in N .. n - 1 : z[k] = 0
    <3> SUFFICES ASSUME NEW k \in N .. n - 1 PROVE z[k] = 0
      OBVIOUS
    <3>1. k \in N .. Capacity - 1 /\ k \in Nat
      BY <1>1, <1>2
    <3> QED BY <3>1, EmptyBehind
  <2> HIDE DEF N
  <2> QED BY ONLY <1>3, <2>1, <2>2, Totals(t, z), TotalsRest
<1>5. find = IF (b.in_offs = b.out_offs /\ ~b.full) \/ passing = {}
             THEN NULL
             ELSE [slot   |-> VirtualIndex(b, m - 1),
                   offset |-> o - SizeOfFirst(b, m - 1)]
  BY DEF aesd_circular_buffer_find_entry_offset_for_fpos
<1>6. passing = {n \in 1 .. Capacity : t[n] > o}
  OBVIOUS
<1>7. \A n \in Nat : t[n] \in Nat
  BY DEF Totals
<1>8. ASSUME o >= t[N] PROVE find = NULL
  <2>1. ASSUME NEW n \in 1 .. Capacity PROVE ~(t[n] > o)
    <3>1. n \in Nat /\ N \in Nat /\ t[n] \in Nat /\ t[N] \in Nat
      BY <1>1, <1>2, <1>7
    <3>2. t[n] <= t[N]
      <4>1. CASE n <= N
        <5> HIDE DEF N
        <5> QED BY <1>3, <3>1, <4>1, TotalsGrow
      <4>2. CASE ~(n <= N)
        BY <1>1, <1>2, <1>4, <3>1, <4>2
      <4> QED BY <4>1, <4>2
    <3> HIDE DEF N
    <3> QED BY <1>8, <3>1, <3>2
  <2>2. passing = {}
    BY <1>6, <2>1
  <2> HIDE DEF passing, find
  <2> QED BY <1>5, <2>2
<1>9. ASSUME o < t[N]
      PROVE  \E k \in 0 .. N - 1 :
               /\ t[k] <= o /\ o < t[k + 1]
               /\ find = [slot |-> VirtualIndex(b, k), offset |-> o - t[k]]
  <2>1. t[0] = 0 /\ N # 0
    BY <1>9 DEF Totals
  <2>2. ~(b.in_offs = b.out_offs /\ ~b.full)
    BY <2>1 DEF IndexInv, numEntries
  <2>3. N \in passing
    BY <1>1, <1>2, <1>6, <1>7, <1>9, <2>1
  <2>4. passing \in SUBSET Nat /\ passing # {}
    BY <2>3
  <2>5. m \in passing /\ \A k \in passing : m <= k
    <3> HIDE DEF passing
    <3> QED BY <2>4, MinValue
  <2>6. m \in 1 .. Capacity /\ t[m] > o /\ m <= N
    BY <1>6, <2>3, <2>5
  <2> HIDE DEF m, passing, find
  <2>7. m - 1 \in 0 .. N - 1 /\ (m - 1) + 1 = m
    BY <1>1, <1>2, <2>6
  <2>8. t[m - 1] <= o
    <3>1. CASE m = 1
      BY <2>1, <3>1
    <3>2. CASE m # 1
      <4>1. m - 1 \in 1 .. Capacity /\ m - 1 \in Nat /\ ~(m <= m - 1)
        BY <1>1, <2>6, <3>2
      <4>2. m - 1 \notin passing
        BY <2>5, <4>1
      <4> QED BY <1>6, <1>7, <4>1, <4>2
    <3> QED BY <3>1, <3>2
  <2>9. find = [slot |-> VirtualIndex(b, m - 1), offset |-> o - t[m - 1]]
    BY <1>5, <2>2, <2>4
  <2> QED BY <2>6, <2>7, <2>8, <2>9
<1> QED BY <1>8, <1>9

=============================================================================
