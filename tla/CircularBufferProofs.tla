------------------------ MODULE CircularBufferProofs ------------------------
(***************************************************************************)
(* The circular buffer implements the history of the most recent writes,   *)
(* and its lookups find the stored bytes, for every capacity that fits in  *)
(* a uint8_t and entries of any size.  The inductive invariant is IndexInv *)
(* with the types.                                                         *)
(***************************************************************************)
EXTENDS MCCircularBuffer, CircularBufferLemmas

(* The offsets, sizes and flags keep their types and agree on the slots in *)
(* use: aesd_circular_buffer_add_entry leaves a buffer its lookups may     *)
(* scan.                                                                   *)
THEOREM BufferCorrect == Spec => []BufferInv
<1>1. Init => BufferInv
  <2> SUFFICES ASSUME Init PROVE BufferInv
    OBVIOUS
  <2>1. Capacity \in 1 .. 255
    BY CapacityAssumption DEF Capacity
  <2>2. TypeOK
    BY <2>1 DEF Init, TypeOK, BufferType, aesd_circular_buffer_init, Slots
  <2>3. IndexInv(buf)
    BY DEF Init, IndexInv, aesd_circular_buffer_init
  <2> QED BY <2>2, <2>3 DEF BufferInv
<1>2. BufferInv /\ [Next]_vars => BufferInv'
  <2> SUFFICES ASSUME BufferInv, [Next]_vars PROVE BufferInv'
    OBVIOUS
  <2>1. ASSUME NEW e \in Entries, Add(e)
        PROVE  BufferInv'
    <3>1. buf' \in BufferType(Entries) /\ IndexInv(buf')
      BY <2>1, AddEntryContents DEF Add, TypeOK, BufferInv
    <3>2. freed' \in Ptrs \cup {NULL}
      BY <2>1 DEF Add, ReplacedPtr, TypeOK, BufferInv, BufferType, Entries, EmptyEntry
    <3> QED BY <3>1, <3>2 DEF TypeOK, BufferInv
  <2>2. CASE UNCHANGED vars
    BY <2>2 DEF vars, TypeOK, BufferInv
  <2> QED BY <2>1, <2>2 DEF Next
<1> QED BY <1>1, <1>2, PTL DEF Spec

(* aesd-circular-buffer.c implements the history of the most recent writes *)
(* with the pointer it hands back, for every capacity: this is             *)
(* RefinesHistory.                                                         *)
THEOREM ImplementsHistory == Spec => RefinesHistory
<1>1. Init => History!Init
  <2> SUFFICES ASSUME Init PROVE History!Init
    OBVIOUS
  <2>1. numEntries(buf) = 0
    BY DEF Init, numEntries, aesd_circular_buffer_init
  <2>2. Contents(buf) = <<>>
    BY <2>1 DEF Contents
  <2> QED BY <2>2 DEF Init, History!Init
<1>2. BufferInv /\ [Next]_vars
        => [History!Next]_<<Contents(buf), freed>>
  <2> SUFFICES ASSUME BufferInv, [Next]_vars
               PROVE  [History!Next]_<<Contents(buf), freed>>
    OBVIOUS
  <2>1. ASSUME NEW e \in Entries, Add(e)
        PROVE  History!Add(e)
    <3>1. /\ ~buf.full => /\ Len(Contents(buf)) < Capacity
                          /\ Contents(buf') = Append(Contents(buf), e)
                          /\ ReplacedPtr(buf) = NULL
          /\ buf.full => /\ Len(Contents(buf)) = Capacity
                         /\ Contents(buf') = Append(Tail(Contents(buf)), e)
                         /\ ReplacedPtr(buf) = Head(Contents(buf)).buffptr
      BY <2>1, AddEntryContents DEF Add, TypeOK, BufferInv
    <3> QED BY <2>1, <3>1 DEF Add, History!Add
  <2>2. CASE UNCHANGED vars
    BY <2>2 DEF vars
  <2> QED BY <2>1, <2>2 DEF Next, History!Next
<1> QED BY <1>1, <1>2, BufferCorrect, PTL DEF Spec, RefinesHistory, History!Spec

-----------------------------------------------------------------------------
(* The slots in use hold entries the caller added, never zeroes.           *)
HeldInv == Contents(buf) \in Seq(Entries)

LEMMA ContentsHeld == Spec => []HeldInv
<1>1. Init => HeldInv
  <2> SUFFICES ASSUME Init PROVE HeldInv
    OBVIOUS
  <2>1. numEntries(buf) = 0
    BY DEF Init, numEntries, aesd_circular_buffer_init
  <2> QED BY <2>1 DEF Contents, HeldInv
<1>2. BufferInv /\ HeldInv /\ [Next]_vars => HeldInv'
  <2> SUFFICES ASSUME BufferInv, HeldInv, [Next]_vars PROVE HeldInv'
    OBVIOUS
  <2>1. ASSUME NEW e \in Entries, Add(e)
        PROVE  HeldInv'
    <3>1. /\ ~buf.full => Contents(buf') = Append(Contents(buf), e)
          /\ buf.full => /\ Len(Contents(buf)) = Capacity
                         /\ Contents(buf') = Append(Tail(Contents(buf)), e)
      BY <2>1, AddEntryContents DEF Add, TypeOK, BufferInv
    <3>2. Capacity # 0
      BY CapacityAssumption DEF Capacity
    <3> QED BY <3>1, <3>2 DEF HeldInv
  <2>2. CASE UNCHANGED vars
    BY <2>2 DEF vars, HeldInv
  <2> QED BY <2>1, <2>2 DEF Next
<1> QED BY <1>1, <1>2, BufferCorrect, PTL DEF Spec

LEMMA HeldLength ==
  ASSUME BufferInv
  PROVE  numEntries(buf) \in Nat /\ Len(Contents(buf)) = numEntries(buf)
<1>1. buf \in BufferType(Entries) /\ IndexInv(buf)
  BY DEF BufferInv, TypeOK
<1>2. numEntries(buf) \in 0 .. Capacity /\ Len(Contents(buf)) = numEntries(buf)
  BY <1>1, ContentsValue
<1> QED BY <1>2, CapacityAssumption DEF Capacity

(* The stored bytes laid end to end: entry k starts where the sizes of the *)
(* entries before it add up to.                                            *)
LEMMA BytesValue ==
  ASSUME BufferInv,
         NEW z, z = [k \in Nat |-> get_entry_at_virtual_offset(buf, k).size],
         NEW t, Totals(t, z)
  PROVE  /\ Len(Bytes(Contents(buf))) = t[numEntries(buf)]
         /\ \A k \in 0 .. numEntries(buf) - 1 : \A o \in Nat :
              t[k] <= o /\ o < t[k + 1] =>
                Bytes(Contents(buf))[o + 1]
                  = <<buf.entry[VirtualIndex(buf, k)].buffptr, o - t[k]>>
<1> DEFINE C == Contents(buf)
           N == numEntries(buf)
           S == (Ptrs \cup {NULL}) \X Int
           s == [i \in 1 .. Len(C) |-> BytesOf(C[i])]
<1>1. N \in Nat /\ C \in Seq(Entries \cup {EmptyEntry}) /\ Len(C) = N
  BY ContentsValue, CapacityAssumption DEF BufferInv, TypeOK, Capacity
<1>2. \A e \in Entries \cup {EmptyEntry} : e.size \in Nat /\ e.buffptr \in Ptrs \cup {NULL}
  <2>1. \A e \in Entries : e.size \in Nat /\ e.buffptr \in Ptrs
    BY EntryAssumption DEF Entries
  <2>2. EmptyEntry.size = 0 /\ EmptyEntry.buffptr = NULL
    BY DEF EmptyEntry
  <2> QED BY <2>1, <2>2
<1>3. z \in [Nat -> Nat]
  BY <1>2, SizeTotals DEF BufferInv, TypeOK
<1>4. \A k \in 0 .. N - 1 :
        /\ C[k + 1] = buf.entry[VirtualIndex(buf, k)]
        /\ C[k + 1].size = z[k]
        /\ z[k] \in Nat
  <2> SUFFICES ASSUME NEW k \in 0 .. N - 1
               PROVE  C[k + 1] = get_entry_at_virtual_offset(buf, k)
    BY <1>1, <1>3 DEF get_entry_at_virtual_offset
  <2>1. k + 1 \in 1 .. N /\ (k + 1) - 1 = k
    BY <1>1
  <2>2. C = [i \in 1 .. N |-> get_entry_at_virtual_offset(buf, i - 1)]
    BY DEF Contents
  <2> HIDE DEF C, N
  <2> QED BY <2>1, <2>2
<1> HIDE DEF C, N
<1>5. \A i \in 1 .. N : C[i] \in Entries \cup {EmptyEntry}
  BY <1>1
<1>6. \A e \in Entries \cup {EmptyEntry} :
        /\ BytesOf(e) \in Seq(S)
        /\ Len(BytesOf(e)) = e.size
        /\ \A j \in 1 .. e.size : BytesOf(e)[j] = <<e.buffptr, j - 1>>
  <2> SUFFICES ASSUME NEW e \in Entries \cup {EmptyEntry}
               PROVE  /\ BytesOf(e) \in Seq(S)
                      /\ Len(BytesOf(e)) = e.size
                      /\ \A j \in 1 .. e.size : BytesOf(e)[j] = <<e.buffptr, j - 1>>
    OBVIOUS
  <2>1. PICK n \in Nat, p \in Ptrs \cup {NULL} : n = e.size /\ p = e.buffptr
    BY <1>2
  <2>2. BytesOf(e) = [j \in 1 .. n |-> <<p, j - 1>>]
    BY <2>1 DEF BytesOf
  <2>3. \A j \in 1 .. n : <<p, j - 1>> \in S
    OBVIOUS
  <2> HIDE DEF S
  <2>4. [j \in 1 .. n |-> <<p, j - 1>>] \in Seq(S)
    BY <2>3
  <2>5. Len([j \in 1 .. n |-> <<p, j - 1>>]) = n
    OBVIOUS
  <2> QED BY <2>1, <2>2, <2>4, <2>5
<1> HIDE DEF S
<1>7. s \in Seq(Seq(S)) /\ Len(s) = N /\ \A i \in 1 .. N : s[i] = BytesOf(C[i])
  <2> DEFINE V == Seq(S)
  <2>1. \A i \in 1 .. N : BytesOf(C[i]) \in V
    BY <1>5, <1>6
  <2> HIDE DEF V
  <2>2. s \in Seq(V) /\ Len(s) = N
    BY <1>1, <2>1
  <2> QED BY <1>1, <2>2 DEF V
<1>8. Bytes(C) = FlattenSeq(s)
  BY DEF Bytes
<1> HIDE DEF s
<1>9. \A k \in 1 .. Len(s) : z[k - 1] = Len(s[k])
  <2> SUFFICES ASSUME NEW k \in 1 .. N PROVE z[k - 1] = Len(s[k])
    BY <1>7
  <2>1. k - 1 \in 0 .. N - 1 /\ (k - 1) + 1 = k
    BY <1>1
  <2>2. C[k].size = z[k - 1]
    BY <1>4, <2>1
  <2>3. Len(s[k]) = C[k].size
    BY <1>5, <1>6, <1>7
  <2> QED BY <2>2, <2>3
<1>10. /\ Len(FlattenSeq(s)) = t[Len(s)]
       /\ \A k \in 1 .. Len(s) : \A j \in 1 .. Len(s[k]) :
            FlattenSeq(s)[t[k - 1] + j] = s[k][j]
  <2>1. Layout(s, S, z, t)
    BY <1>3, <1>7, <1>9 DEF Layout
  <2> QED BY <2>1, FlattenValue
<1>11. ASSUME NEW k \in 0 .. N - 1, NEW o \in Nat, t[k] <= o, o < t[k + 1]
       PROVE  Bytes(C)[o + 1] = <<buf.entry[VirtualIndex(buf, k)].buffptr, o - t[k]>>
  <2>1. k + 1 \in 1 .. N /\ (k + 1) - 1 = k /\ k \in Nat
    BY <1>1
  <2>2. t[k] \in Nat /\ z[k] \in Nat /\ t[k + 1] = t[k] + z[k]
    BY <1>3, <2>1 DEF Totals
  <2> DEFINE j == (o - t[k]) + 1
  <2>3. j \in 1 .. z[k] /\ t[k] + j = o + 1 /\ j - 1 = o - t[k]
    BY <1>11, <2>2
  <2> HIDE DEF j
  <2>4. s[k + 1] = BytesOf(C[k + 1]) /\ Len(s[k + 1]) = z[k]
    BY <1>7, <1>9, <2>1
  <2>5. FlattenSeq(s)[t[k] + j] = s[k + 1][j]
    BY ONLY <1>7, <1>10, <2>1, <2>3, <2>4
  <2>6. s[k + 1][j] = <<C[k + 1].buffptr, j - 1>>
    BY <1>4, <1>5, <1>6, <2>1, <2>3, <2>4
  <2> QED BY <1>4, <1>8, <2>3, <2>5, <2>6
<1>12. Len(Bytes(C)) = t[N]
  BY <1>7, <1>8, <1>10
<1> QED BY <1>11, <1>12 DEF C, N

(* aesd_circular_buffer_find_entry_offset_for_fpos, whose loop runs over   *)
(* all the slots, finds every byte of the writes laid end to end and NULL  *)
(* behind the last, whatever was added and replaced before: this is        *)
(* LookupFindsByte.                                                        *)
THEOREM LookupCorrect == Spec => []LookupFindsByte
<1>1. BufferInv => LookupFindsByte
  <2> SUFFICES ASSUME BufferInv, NEW o \in 0 .. Len(Bytes(Contents(buf))) + 1
               PROVE  LET all == Bytes(Contents(buf))
                          find == aesd_circular_buffer_find_entry_offset_for_fpos(buf, o)
                      IN IF o < Len(all)
                         THEN /\ find # NULL
                              /\ <<buf.entry[find.slot].buffptr, find.offset>> = all[o + 1]
                         ELSE find = NULL
    BY DEF LookupFindsByte
  <2> DEFINE all == Bytes(Contents(buf))
             find == aesd_circular_buffer_find_entry_offset_for_fpos(buf, o)
             N == numEntries(buf)
             z == [k \in Nat |-> get_entry_at_virtual_offset(buf, k).size]
  <2>1. buf \in BufferType(Entries) /\ IndexInv(buf) /\ \A e \in Entries : e.size \in Nat
    BY EntryAssumption DEF BufferInv, TypeOK, Entries
  <2>2. PICK t : Totals(t, z) /\ \A n : SizeOfFirst(buf, n) = t[n]
    BY <2>1, SizeTotals
  <2>9. N \in Nat
    BY HeldLength
  <2>3. N \in Nat /\ \A n \in Nat : t[n] \in Nat
    BY <2>2, <2>9 DEF Totals
  <2>4. /\ Len(all) = t[N]
        /\ \A k \in 0 .. N - 1 : \A oo \in Nat :
             t[k] <= oo /\ oo < t[k + 1] =>
               all[oo + 1] = <<buf.entry[VirtualIndex(buf, k)].buffptr, oo - t[k]>>
    BY <2>2, BytesValue
  <2>5. o \in Nat
    BY <2>3, <2>4
  <2>6. /\ o >= t[N] => find = NULL
        /\ o < t[N] => \E k \in 0 .. N - 1 :
             /\ t[k] <= o /\ o < t[k + 1]
             /\ find = [slot |-> VirtualIndex(buf, k), offset |-> o - t[k]]
    BY <2>1, <2>2, <2>5, LookupValue
  <2> HIDE DEF all, find, N, z
  <2>7. CASE o < Len(all)
    <3>1. PICK k \in 0 .. N - 1 :
             /\ t[k] <= o /\ o < t[k + 1]
             /\ find = [slot |-> VirtualIndex(buf, k), offset |-> o - t[k]]
      BY <2>4, <2>6, <2>7
    <3>2. k \in Nat /\ t[k] \in Nat
      BY <2>3
    <3>3. o - t[k] \in Nat /\ VirtualIndex(buf, k) \in Slots
      BY <2>1, <2>5, <3>1, <3>2, VirtualIndexInSlots DEF BufferType
    <3>4. find # NULL
      BY <3>1, <3>3, NullAssumption
    <3>5. all[o + 1] = <<buf.entry[VirtualIndex(buf, k)].buffptr, o - t[k]>>
      BY <2>4, <2>5, <3>1
    <3> QED BY <2>7, <3>1, <3>4, <3>5 DEF all, find
  <2>8. CASE ~(o < Len(all))
    <3>1. find = NULL
      BY <2>3, <2>4, <2>5, <2>6, <2>8
    <3> QED BY <2>8, <3>1 DEF all, find
  <2> QED BY <2>7, <2>8
<1> QED BY <1>1, BufferCorrect, PTL

(* aesd_circular_buffer_find_fpos_for_virtual_entry_offset and the lookup  *)
(* are inverse on the first bytes of the entries, as the ioctl needs them  *)
(* to be, when no entry is empty (the driver adds none: each of its        *)
(* entries ends in a newline): this is SeekFindsEntry.                     *)
THEOREM SeekCorrect ==
  ASSUME 0 \notin Sizes
  PROVE  Spec => []SeekFindsEntry
<1>1. BufferInv /\ HeldInv => SeekFindsEntry
  <2> SUFFICES ASSUME BufferInv, HeldInv PROVE SeekFindsEntry
    OBVIOUS
  <2> DEFINE all == Bytes(Contents(buf))
             N == numEntries(buf)
             z == [k \in Nat |-> get_entry_at_virtual_offset(buf, k).size]
             find(o) == aesd_circular_buffer_find_entry_offset_for_fpos(buf, o)
             fpos(k) == aesd_circular_buffer_find_fpos_for_virtual_entry_offset(buf, k)
  <2>1. buf \in BufferType(Entries) /\ IndexInv(buf) /\ \A e \in Entries : e.size \in Nat
    BY EntryAssumption DEF BufferInv, TypeOK, Entries
  <2>2. PICK t : Totals(t, z) /\ \A n : SizeOfFirst(buf, n) = t[n]
    BY <2>1, SizeTotals
  <2>6. z \in [Nat -> Nat]
    BY <2>1, SizeTotals
  <2>7. N \in Nat
    BY HeldLength
  <2>3. z \in [Nat -> Nat] /\ N \in Nat /\ \A n \in Nat : t[n] \in Nat
    BY <2>2, <2>6, <2>7 DEF Totals
  <2>4. aesd_circular_buffer_get_size(buf) = Len(all)
    BY <2>2, BytesValue DEF aesd_circular_buffer_get_size
  <2>5. ASSUME NEW k \in 0 .. N - 1
        PROVE  find(fpos(k)) = [slot |-> VirtualIndex(buf, k), offset |-> 0]
    <3>1. k \in Nat /\ k + 1 \in Nat /\ k + 1 <= N /\ ~(k > N)
      BY <2>3
    <3>2. fpos(k) = t[k]
      BY <2>2, <3>1 DEF aesd_circular_buffer_find_fpos_for_virtual_entry_offset
    <3>3. t[k] < t[k + 1]
      <4>1. z[k] # 0
        <5>1. k + 1 \in 1 .. N /\ (k + 1) - 1 = k /\ Len(Contents(buf)) = N
          BY <2>3, HeldLength
        <5>2. Contents(buf)[k + 1] \in Entries
          BY <5>1 DEF HeldInv
        <5>3. Contents(buf)[k + 1] = get_entry_at_virtual_offset(buf, k)
          BY <5>1 DEF Contents
        <5>4. get_entry_at_virtual_offset(buf, k).size # 0
          BY <5>2, <5>3 DEF Entries
        <5> QED BY <3>1, <5>4
      <4>2. t[k + 1] = t[k] + z[k] /\ z[k] \in Nat /\ t[k] \in Nat
        BY <2>2, <2>3, <3>1 DEF Totals
      <4> QED BY <4>1, <4>2
    <3>4. t[k + 1] <= t[N]
      <4> HIDE DEF N, z
      <4> QED BY <2>2, <2>3, <3>1, TotalsGrow
    <3>5. t[k] \in Nat /\ t[k + 1] \in Nat /\ t[N] \in Nat
      BY <2>3, <3>1
    <3>6. t[k] < t[N]
      BY <3>3, <3>4, <3>5
    <3>7. PICK i \in 0 .. N - 1 :
             /\ t[i] <= t[k] /\ t[k] < t[i + 1]
             /\ find(t[k]) = [slot |-> VirtualIndex(buf, i), offset |-> t[k] - t[i]]
      BY ONLY <2>1, <2>2, <3>5, <3>6, LookupValue
    <3> HIDE DEF find, fpos, z, N
    <3>8. i \in Nat /\ i + 1 \in Nat /\ t[i] \in Nat /\ t[i + 1] \in Nat
      BY <2>3
    <3>9. ~(i < k)
      <4> SUFFICES ASSUME i + 1 <= k PROVE FALSE
        BY <3>1, <3>8
      <4>1. t[i + 1] <= t[k]
        BY <2>2, <2>3, <3>1, <3>8, TotalsGrow
      <4> QED BY <3>5, <3>7, <3>8, <4>1
    <3>10. ~(k < i)
      <4> SUFFICES ASSUME k + 1 <= i PROVE FALSE
        BY <3>1, <3>8
      <4>1. t[k + 1] <= t[i]
        BY <2>2, <2>3, <3>1, <3>8, TotalsGrow
      <4> QED BY <3>3, <3>5, <3>7, <3>8, <4>1
    <3>11. i = k
      BY <3>1, <3>8, <3>9, <3>10
    <3>12. t[k] - t[k] = 0
      BY <3>5
    <3> QED BY <3>2, <3>7, <3>11, <3>12
  <2> QED BY <2>4, <2>5 DEF SeekFindsEntry
<1> QED BY <1>1, BufferCorrect, ContentsHeld, PTL
=============================================================================
