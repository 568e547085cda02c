--------------------------- MODULE PlainFileProofs ---------------------------
(***************************************************************************)
(* The build without the device, for any number of connections and other   *)
(* threads and lines of any length: FileMutex has one holder although a    *)
(* time stamp and the handler it interrupts are one thread, and a reply    *)
(* has the line it answers.                                                *)
(***************************************************************************)
EXTENDS PlainFile, SequenceTheorems, TLAPS

InFile(c) == pc[c] \in {"line", "stat", "send", "blocked"}

Stamping(t) == stamper[t] \in {"write", "hung"}

(* Who holds FileMutex: never the handler and the time stamp of one thread *)
(* at once.                                                                *)
MutexInv ==
  ~exited =>
    /\ \A t \in Threads :
         fileMutex = t <=> Stamping(t) \/ (t \in Conns /\ InFile(t))
    /\ \A c \in Conns : Stamping(c) => ~InFile(c)

Types ==
  /\ file \in Seq(Byte)
  /\ exited \in BOOLEAN /\ pending \in BOOLEAN
  /\ fileMutex \in Threads \cup {NoThread}
  /\ pc \in [Conns -> {"recv", "scan", "line", "stat", "send", "blocked", "done"}]
  /\ todo \in [Conns -> Seq(Nat)]
  /\ \A c \in Conns : InFile(c) => todo[c] # <<>>
  /\ offset \in [Conns -> Nat \cup {NoThread}]
  /\ size \in [Conns -> Nat]
  /\ DOMAIN truncated = Conns
  /\ stamper \in [Threads -> {"out", "lock", "write", "hung"}]

-----------------------------------------------------------------------------
(* A line that is written stands where it was written. *)
LEMMA MaxOfTwo ==
  ASSUME NEW m \in Nat, NEW n \in Nat
  PROVE  Max({m, n}) \in Nat /\ Max({m, n}) >= m /\ Max({m, n}) >= n
<1>1. \E x \in {m, n} : \A y \in {m, n} : x >= y
  OBVIOUS
<1>2. Max({m, n}) \in {m, n} /\ \A y \in {m, n} : Max({m, n}) >= y
  BY <1>1 DEF Max
<1> QED BY <1>2

LEMMA WrittenValue ==
  ASSUME NEW pos \in Nat, NEW line \in Seq(Byte), file \in Seq(Byte)
  PROVE  /\ Written(pos, line) \in Seq(Byte)
         /\ Len(Written(pos, line)) \in Nat
         /\ Len(Written(pos, line)) >= pos + Len(line)
         /\ \A i \in pos + 1 .. pos + Len(line) :
              Written(pos, line)[i] = line[i - pos]
<1> DEFINE n == Max({Len(file), pos + Len(line)})
<1>1. Len(file) \in Nat /\ Len(line) \in Nat /\ pos + Len(line) \in Nat
  OBVIOUS
<1>2. n \in Nat /\ n >= Len(file) /\ n >= pos + Len(line)
  BY <1>1, MaxOfTwo
<1> DEFINE value(i) == IF i > pos /\ i <= pos + Len(line) THEN line[i - pos]
                       ELSE IF i <= Len(file) THEN file[i] ELSE Zero
<1>3. Written(pos, line) = [i \in 1 .. n |-> value(i)]
  BY DEF Written
<1>4. \A i \in 1 .. n : value(i) \in Byte
  <2> SUFFICES ASSUME NEW i \in 1 .. n PROVE value(i) \in Byte
    OBVIOUS
  <2>1. CASE i > pos /\ i <= pos + Len(line)
    <3>1. i - pos \in 1 .. Len(line)
      BY <1>1, <1>2, <2>1
    <3>2. line[i - pos] \in Byte
      BY <3>1
    <3> QED BY <2>1, <3>2
  <2>2. CASE ~(i > pos /\ i <= pos + Len(line)) /\ i <= Len(file)
    <3>1. i \in 1 .. Len(file)
      BY <1>1, <1>2, <2>2
    <3>2. file[i] \in Byte
      BY <3>1
    <3> QED BY <2>2, <3>2
  <2>3. CASE ~(i > pos /\ i <= pos + Len(line)) /\ ~(i <= Len(file))
    BY <2>3 DEF Byte
  <2> QED BY <2>1, <2>2, <2>3
<1> HIDE DEF n
<1>5. \A i \in pos + 1 .. pos + Len(line) : i \in 1 .. n /\ value(i) = line[i - pos]
  BY <1>1, <1>2
<1> HIDE DEF value
<1>6. Written(pos, line) \in Seq(Byte) /\ Len(Written(pos, line)) = n
  BY <1>2, <1>3, <1>4
<1>7. \A i \in pos + 1 .. pos + Len(line) : Written(pos, line)[i] = line[i - pos]
  BY <1>3, <1>5
<1> QED BY <1>2, <1>6, <1>7

LEMMA LineValue ==
  ASSUME Types, NEW c \in Conns, InFile(c)
  PROVE  /\ Head(todo[c]) \in Nat /\ Tail(todo[c]) \in Seq(Nat)
         /\ Line(c) \in Seq(Byte) /\ Len(Line(c)) = Head(todo[c])
         /\ \A i \in 1 .. Head(todo[c]) : Line(c)[i] = c
<1>1. todo[c] \in Seq(Nat) /\ todo[c] # <<>>
  BY DEF Types
<1>2. Head(todo[c]) \in Nat /\ Tail(todo[c]) \in Seq(Nat)
  BY <1>1
<1>3. c \in Byte
  BY DEF Byte
<1> DEFINE n == Head(todo[c])
<1>4. Line(c) = [i \in 1 .. n |-> c]
  BY DEF Line
<1> HIDE DEF n
<1>5. n \in Nat => /\ Line(c) \in Seq(Byte) /\ Len(Line(c)) = n
                  /\ \A i \in 1 .. n : Line(c)[i] = c
  BY <1>3, <1>4
<1> QED BY <1>2, <1>5 DEF n

-----------------------------------------------------------------------------
(* FileMutex and the types. *)

(* One thread moves on in its own code or in TimeStamper and neither takes *)
(* nor gives back FileMutex.                                               *)
LEMMA QuietMutex ==
  ASSUME MutexInv, exited' \in {exited, TRUE}, UNCHANGED fileMutex,
         \A t \in Threads : Stamping(t)' <=> Stamping(t),
         \A c \in Conns : InFile(c)' <=> InFile(c)
  PROVE  MutexInv'
<1>1. ~exited' => ~exited
  OBVIOUS
<1> QED BY <1>1 DEF MutexInv, Threads

LEMMA Moved ==
  ASSUME Types, NEW c \in Conns, NEW from, NEW to, Goto(c, from, to)
  PROVE  /\ ~exited /\ stamper[c] = "out" /\ pc[c] = from /\ pc'[c] = to
         /\ DOMAIN pc' = Conns
         /\ \A d \in Conns : d # c => pc'[d] = pc[d]
         /\ \A d \in Conns : d # c => (InFile(d)' <=> InFile(d))
BY DEF Goto, Types, InFile

LEMMA NextMutex ==
  ASSUME Types, MutexInv, [Next]_vars
  PROVE  MutexInv'
<1>1. ASSUME NEW c \in Conns,
             \/ Recv(c) \/ RecvEnds(c) \/ ProcessLine(c) \/ Stat(c) \/ SendBlocks(c)
             \/ Close(c)
      PROVE  MutexInv'
  <2>1. UNCHANGED <<fileMutex, stamper, exited>>
    BY <1>1 DEF Recv, RecvEnds, ProcessLine, Stat, SendBlocks, Close
  <2>2. PICK from, to : /\ Goto(c, from, to)
                        /\ from \in {"line", "stat", "send", "blocked"}
                             <=> to \in {"line", "stat", "send", "blocked"}
    BY <1>1 DEF Recv, RecvEnds, ProcessLine, Stat, SendBlocks, Close
  <2>3. \A d \in Conns : InFile(d)' <=> InFile(d)
    BY <2>2, Moved DEF InFile
  <2>4. \A t \in Threads : Stamping(t)' <=> Stamping(t)
    BY <2>1 DEF Stamping
  <2> QED BY <2>1, <2>3, <2>4, QuietMutex
<1>2. ASSUME NEW c \in Conns, WriteFails(c) \/ SendKills(c) PROVE MutexInv'
  BY <1>2 DEF WriteFails, SendKills, MutexInv
<1>3. ASSUME NEW c \in Conns, NextLine(c) PROVE MutexInv'
  <2>1. /\ Goto(c, "scan", "line") /\ fileMutex = NoThread /\ fileMutex' = c
        /\ UNCHANGED <<exited, stamper>>
    BY <1>3 DEF NextLine, LockFileMutex
  <2>2. /\ ~exited /\ stamper[c] = "out" /\ ~InFile(c) /\ InFile(c)'
        /\ \A d \in Conns : d # c => (InFile(d)' <=> InFile(d))
    BY <2>1, Moved DEF InFile
  <2>3. \A t \in Threads : ~Stamping(t) /\ ~(t \in Conns /\ InFile(t))
    <3>1. \A t \in Threads : fileMutex # t
      BY <2>1, PlainFileAssumption
    <3> QED BY <2>2, <3>1 DEF MutexInv
  <2>4. ASSUME NEW t \in Threads
        PROVE  fileMutex' = t <=> Stamping(t)' \/ (t \in Conns /\ InFile(t)')
    <3>1. CASE t = c
      BY <2>1, <2>2, <3>1
    <3>2. CASE t # c
      BY <2>1, <2>2, <2>3, <3>2 DEF Stamping
    <3> QED BY <3>1, <3>2
  <2>5. \A d \in Conns : ~Stamping(d)'
    BY <2>1, <2>3 DEF Threads, Stamping
  <2> QED BY <2>4, <2>5 DEF MutexInv
<1>4. ASSUME NEW c \in Conns, Send(c) \/ SendReturns(c) PROVE MutexInv'
  <2>1. /\ Goto(c, "send", "scan") \/ Goto(c, "blocked", "scan")
        /\ fileMutex' = NoThread /\ UNCHANGED <<exited, stamper>>
    BY <1>4 DEF Send, SendReturns, SendEnds, UnlockFileMutex
  <2>2. /\ ~exited /\ stamper[c] = "out" /\ InFile(c) /\ ~InFile(c)'
        /\ \A d \in Conns : d # c => (InFile(d)' <=> InFile(d))
    BY <2>1, Moved DEF InFile
  <2>3. fileMutex = c
    BY <2>2 DEF MutexInv, Threads
  <2>4. \A t \in Threads : t # c => ~Stamping(t) /\ ~(t \in Conns /\ InFile(t))
    BY <2>2, <2>3 DEF MutexInv
  <2>5. ASSUME NEW t \in Threads
        PROVE  fileMutex' # t /\ ~Stamping(t)' /\ ~(t \in Conns /\ InFile(t)')
    BY <2>1, <2>2, <2>4, PlainFileAssumption DEF Stamping
  <2> QED BY <2>5 DEF MutexInv, Threads
<1>5. ASSUME NEW t \in Threads, Deliver(t) PROVE MutexInv'
  <2>1. /\ UNCHANGED <<exited, fileMutex>> /\ stamper[t] = "out"
        /\ stamper' = [stamper EXCEPT ![t] = "lock"]
        /\ \/ UNCHANGED pc
           \/ t \in Conns /\ pc[t] = "recv" /\ pc' = [pc EXCEPT ![t] = "done"]
    BY <1>5 DEF Deliver
  <2>2. \A u \in Threads : Stamping(u)' <=> Stamping(u)
    BY <2>1 DEF Types, Stamping
  <2>3. \A c \in Conns : InFile(c)' <=> InFile(c)
    BY <2>1 DEF Types, InFile
  <2> QED BY <2>1, <2>2, <2>3, QuietMutex
<1>6. ASSUME NEW t \in Threads, StampLock(t) PROVE MutexInv'
  <2>1. /\ ~exited /\ fileMutex = NoThread /\ fileMutex' = t
        /\ \E s \in {"write", "hung"} : stamper' = [stamper EXCEPT ![t] = s]
        /\ UNCHANGED <<exited, pc>>
    BY <1>6 DEF StampLock, LockFileMutex, handlerVars
  <2>2. \A u \in Threads : ~Stamping(u) /\ ~(u \in Conns /\ InFile(u))
    <3>1. \A u \in Threads : fileMutex # u
      BY <2>1, PlainFileAssumption
    <3> QED BY <2>1, <3>1 DEF MutexInv
  <2>3. \A u \in Threads : Stamping(u)' <=> u = t
    BY <2>1, <2>2 DEF Types, Stamping
  <2>4. \A c \in Conns : ~InFile(c)'
    BY <2>1, <2>2 DEF InFile, Threads
  <2> QED BY <2>1, <2>3, <2>4 DEF MutexInv
<1>7. ASSUME NEW t \in Threads, StampWrite(t) PROVE MutexInv'
  <2>1. /\ ~exited /\ stamper[t] = "write" /\ fileMutex' = NoThread
        /\ stamper' = [stamper EXCEPT ![t] = "out"]
        /\ UNCHANGED <<exited, pc>>
    BY <1>7 DEF StampWrite, UnlockFileMutex, handlerVars
  <2>2. fileMutex = t
    BY <2>1 DEF MutexInv, Stamping
  <2>3. \A u \in Threads : ~Stamping(u)' /\ ~(u \in Conns /\ InFile(u)')
    BY <2>1, <2>2 DEF Types, MutexInv, InFile, Stamping
  <2>4. \A u \in Threads : fileMutex' # u
    BY <2>1, PlainFileAssumption
  <2> QED BY <2>3, <2>4 DEF MutexInv, Threads
<1>8. CASE TimerExpires \/ UNCHANGED vars
  <2>1. UNCHANGED <<exited, fileMutex, stamper, pc>>
    BY <1>8 DEF TimerExpires, vars, handlerVars
  <2> QED BY <2>1 DEF MutexInv, InFile, Stamping
<1> QED BY <1>1, <1>2, <1>3, <1>4, <1>5, <1>6, <1>7, <1>8
        DEF Next, ThreadStep, HandlerStep

LEMMA NextTypes ==
  ASSUME Types, [Next]_vars
  PROVE  Types'
<1>1. ASSUME NEW c \in Conns, Recv(c) PROVE Types'
  <2>1. /\ Goto(c, "recv", "scan")
        /\ UNCHANGED <<fileMutex, exited, size, pending, stamper>>
    BY <1>1 DEF Recv
  <2>2. PICK s \in Packets : todo' = [todo EXCEPT ![c] = s]
    BY <1>1 DEF Recv
  <2>3. todo' \in [Conns -> Seq(Nat)]
    <3>1. s \in Seq(Nat)
      BY <2>2, PlainFileAssumption
    <3>2. todo \in [Conns -> Seq(Nat)]
      BY DEF Types
    <3> QED BY <2>2, <3>1, <3>2
  <2>4. /\ file' \in {file, <<>>} /\ <<>> \in Seq(Byte)
        /\ offset' \in [Conns -> Nat \cup {NoThread}] /\ DOMAIN truncated' = Conns
    <3>1. /\ file' \in {file, <<>>}
          /\ offset' \in {offset, [offset EXCEPT ![c] = 0]}
          /\ \/ truncated' = truncated
             \/ DOMAIN truncated' = Conns
      BY <1>1 DEF Recv
    <3>2. offset \in [Conns -> Nat \cup {NoThread}] /\ DOMAIN truncated = Conns
      BY DEF Types
    <3> QED BY <3>1, <3>2
  <2>5. file' \in Seq(Byte)
    BY <2>4 DEF Types
  <2>6. pc' \in [Conns -> {"recv", "scan", "line", "stat", "send", "blocked", "done"}]
    BY <2>1 DEF Goto, Types
  <2>7. \A d \in Conns : InFile(d)' => todo'[d] # <<>>
    <3> SUFFICES ASSUME NEW d \in Conns, InFile(d)' PROVE todo'[d] # <<>>
      OBVIOUS
    <3>1. d # c /\ InFile(d)
      BY <2>1, Moved DEF InFile
    <3> QED BY <2>2, <3>1 DEF Types
  <2> QED BY <2>1, <2>3, <2>4, <2>5, <2>6, <2>7 DEF Types
<1>2. ASSUME NEW c \in Conns,
             \/ RecvEnds(c) \/ WriteFails(c) \/ Stat(c) \/ SendBlocks(c)
             \/ SendKills(c) \/ Close(c) \/ NextLine(c)
      PROVE  Types'
  <2>1. PICK from, to : /\ Goto(c, from, to)
                        /\ to \in {"recv", "scan", "line", "stat", "send", "blocked", "done"}
                        /\ to = "line" => todo[c] # <<>>
                        /\ to \in {"stat", "send", "blocked"} =>
                             from \in {"line", "stat", "send"}
    BY <1>2 DEF RecvEnds, WriteFails, Stat, SendBlocks, SendKills, Close, NextLine
  <2>2. pc' \in [Conns -> {"recv", "scan", "line", "stat", "send", "blocked", "done"}]
    BY <2>1 DEF Goto, Types
  <2>3. \A d \in Conns : InFile(d)' => todo[d] # <<>>
    <3> SUFFICES ASSUME NEW d \in Conns, InFile(d)' PROVE todo[d] # <<>>
      OBVIOUS
    <3>1. CASE d = c
      BY <2>1, <3>1, Moved DEF InFile, Types
    <3>2. CASE d # c
      BY <2>1, <3>2, Moved DEF Types
    <3> QED BY <3>1, <3>2
  <2>4. Len(file) \in Nat
    BY DEF Types
  <2>5. /\ UNCHANGED <<file, pending, stamper, todo, truncated>>
        /\ fileMutex' \in {fileMutex, c} /\ exited' \in {exited, TRUE}
        /\ offset' \in {offset, [offset EXCEPT ![c] = NoThread]}
        /\ size' \in {size, [size EXCEPT ![c] = Len(file)]}
    BY <1>2 DEF RecvEnds, WriteFails, Stat, SendBlocks, SendKills, Close, NextLine, LockFileMutex
  <2>6. offset' \in [Conns -> Nat \cup {NoThread}] /\ size' \in [Conns -> Nat]
    <3>1. offset' \in [Conns -> Nat \cup {NoThread}]
      BY <2>5 DEF Types
    <3>2. size' \in [Conns -> Nat]
      BY <2>4, <2>5 DEF Types
    <3> QED BY <3>1, <3>2
  <2>7. exited' \in BOOLEAN
    BY <2>5, Zenon DEF Types
  <2>8. fileMutex' \in Threads \cup {NoThread}
    BY <2>5 DEF Types, Threads
  <2> QED BY <2>2, <2>3, <2>5, <2>6, <2>7, <2>8 DEF Types
<1>3. ASSUME NEW c \in Conns, ProcessLine(c) PROVE Types'
  <2>1. /\ Goto(c, "line", "stat")
        /\ UNCHANGED <<fileMutex, exited, todo, size, truncated, pending, stamper>>
    BY <1>3 DEF ProcessLine
  <2>2. InFile(c) /\ pc[c] = "line"
    BY <2>1, Moved DEF InFile
  <2>3. file' \in Seq(Byte) /\ offset' \in [Conns -> Nat \cup {NoThread}]
    <3>1. CASE UNCHANGED <<file, offset>>
      BY <3>1 DEF Types
    <3>2. CASE /\ offset[c] # NoThread /\ file' = Written(offset[c], Line(c))
               /\ offset' = [offset EXCEPT ![c] = @ + Len(Line(c))]
      <4>1. offset[c] \in Nat /\ Line(c) \in Seq(Byte) /\ Len(Line(c)) \in Nat
        BY <2>2, <3>2, LineValue DEF Types
      <4>2. Written(offset[c], Line(c)) \in Seq(Byte)
        BY <4>1, WrittenValue DEF Types
      <4> QED BY <3>2, <4>1, <4>2 DEF Types
    <3> QED BY <1>3, <3>1, <3>2 DEF ProcessLine
  <2>4. pc' \in [Conns -> {"recv", "scan", "line", "stat", "send", "blocked", "done"}]
    BY <2>1 DEF Goto, Types
  <2>5. \A d \in Conns : InFile(d)' => todo[d] # <<>>
    BY <2>1, <2>2, Moved DEF Types
  <2> QED BY <2>1, <2>3, <2>4, <2>5 DEF Types
<1>4. ASSUME NEW c \in Conns, Send(c) \/ SendReturns(c) PROVE Types'
  <2>1. /\ Goto(c, "send", "scan") \/ Goto(c, "blocked", "scan")
        /\ todo' = [todo EXCEPT ![c] = Tail(@)]
        /\ size' = [size EXCEPT ![c] = 0] /\ truncated' = [truncated EXCEPT ![c] = FALSE]
        /\ fileMutex' = NoThread /\ UNCHANGED <<file, exited, offset, pending, stamper>>
    BY <1>4 DEF Send, SendReturns, SendEnds, UnlockFileMutex
  <2>2. InFile(c) /\ ~InFile(c)' /\ \A d \in Conns : d # c => (InFile(d)' <=> InFile(d))
    BY <2>1, Moved DEF InFile
  <2>3. Tail(todo[c]) \in Seq(Nat)
    BY <2>2, LineValue
  <2>4. todo' \in [Conns -> Seq(Nat)] /\ size' \in [Conns -> Nat] /\ DOMAIN truncated' = Conns
    BY <2>1, <2>3 DEF Types
  <2>5. pc' \in [Conns -> {"recv", "scan", "line", "stat", "send", "blocked", "done"}]
    BY <2>1 DEF Goto, Types
  <2>6. \A d \in Conns : InFile(d)' => todo'[d] # <<>>
    BY <2>1, <2>2 DEF Types
  <2> QED BY <2>1, <2>4, <2>5, <2>6 DEF Types
<1>5. ASSUME NEW t \in Threads, Deliver(t) PROVE Types'
  <2>1. /\ UNCHANGED <<file, fileMutex, exited, todo, offset, size, truncated>>
        /\ pending' = FALSE /\ stamper' = [stamper EXCEPT ![t] = "lock"]
        /\ \/ UNCHANGED pc
           \/ t \in Conns /\ pc[t] = "recv" /\ pc' = [pc EXCEPT ![t] = "done"]
    BY <1>5 DEF Deliver
  <2>2. /\ pc' \in [Conns -> {"recv", "scan", "line", "stat", "send", "blocked", "done"}]
        /\ \A d \in Conns : InFile(d)' => InFile(d)
    BY <2>1 DEF Types, InFile
  <2>3. pending' \in BOOLEAN
    BY <2>1, Zenon
  <2> QED BY <2>1, <2>2, <2>3 DEF Types
<1>6. ASSUME NEW t \in Threads, StampLock(t) PROVE Types'
  <2>1. /\ UNCHANGED <<file, exited, pc, todo, offset, size, truncated, pending>>
        /\ fileMutex' = t
        /\ \E s \in {"write", "hung"} : stamper' = [stamper EXCEPT ![t] = s]
    BY <1>6 DEF StampLock, LockFileMutex, handlerVars
  <2> QED BY <2>1 DEF Types, InFile
<1>7. ASSUME NEW t \in Threads, StampWrite(t) PROVE Types'
  <2>1. /\ UNCHANGED <<exited, pc, todo, offset, size, truncated, pending>>
        /\ fileMutex' = NoThread /\ stamper' = [stamper EXCEPT ![t] = "out"]
        /\ file' \in {<<Stamp>>, <<>>, file}
    BY <1>7 DEF StampWrite, UnlockFileMutex, handlerVars
  <2>2. Stamp \in Byte
    BY DEF Byte
  <2>3. <<Stamp>> \in Seq(Byte) /\ <<>> \in Seq(Byte)
    BY <2>2
  <2>4. file' \in Seq(Byte)
    BY <2>1, <2>3 DEF Types
  <2> QED BY <2>1, <2>4 DEF Types, InFile
<1>8. CASE TimerExpires \/ UNCHANGED vars
  <2>1. /\ UNCHANGED <<file, fileMutex, exited, pc, todo, offset, size, truncated, stamper>>
        /\ pending' \in {TRUE, pending}
    BY <1>8 DEF TimerExpires, vars, handlerVars
  <2>2. pending' \in BOOLEAN
    BY <2>1, Zenon DEF Types
  <2> QED BY <2>1, <2>2 DEF Types, InFile
<1> QED BY <1>1, <1>2, <1>3, <1>4, <1>5, <1>6, <1>7, <1>8
        DEF Next, ThreadStep, HandlerStep

LEMMA InitHolds == Init => Types /\ MutexInv
<1> SUFFICES ASSUME Init PROVE Types /\ MutexInv
  OBVIOUS
<1>1. \A c \in Conns : ~InFile(c)
  BY DEF Init, InFile
<1>2. Types
  <2>1. exited \in BOOLEAN /\ pending \in BOOLEAN
    BY Zenon DEF Init
  <2>2. <<>> \in Seq(Byte) /\ <<>> \in Seq(Nat)
    OBVIOUS
  <2> QED BY <1>1, <2>1, <2>2 DEF Init, Types
<1>3. MutexInv
  BY <1>1, PlainFileAssumption DEF Init, MutexInv, Threads, Stamping
<1> QED BY <1>2, <1>3

(* Every variable keeps its type, and FileMutex has one holder: a handler  *)
(* between its lock and its unlock (connectionHandlerThread.c), or a time  *)
(* stamp (timestamper.c), even where the stamp interrupts that handler.    *)
THEOREM FileMutexCorrect == Spec => []TypeOK
<1>1. Types /\ MutexInv /\ [Next]_vars => Types' /\ MutexInv'
  BY NextTypes, NextMutex
<1>2. Types /\ MutexInv => TypeOK
  BY DEF Types, MutexInv, InFile, Stamping, TypeOK
<1> QED BY <1>1, <1>2, InitHolds, PTL DEF Spec

-----------------------------------------------------------------------------
(* The line a reply answers. *)

(* The handler's line is in the file, right before its offset, and in what *)
(* it has looked up of the file's size.                                    *)
Stands(c) ==
  /\ offset[c] \in Nat /\ Len(file) >= offset[c] /\ offset[c] >= Head(todo[c])
  /\ \A i \in (offset[c] - Head(todo[c])) + 1 .. offset[c] : file[i] = c
  /\ pc[c] \in {"send", "blocked"} => size[c] >= offset[c]

(* Nobody has truncated the file since the handler wrote its line.         *)
Undisturbed(c) ==
  pc[c] \in {"stat", "send", "blocked"} /\ ~truncated[c] /\ ~exited /\ Head(todo[c]) > 0

LineInv == \A c \in Conns : Undisturbed(c) => Stands(c)

(* A step of somebody else that leaves the file alone. *)
LEMMA StillStands ==
  ASSUME LineInv, NEW c \in Conns, Undisturbed(c), pc'[c] = pc[c],
         UNCHANGED file, offset'[c] = offset[c], todo'[c] = todo[c], size'[c] = size[c]
  PROVE  Stands(c)'
BY DEF LineInv, Stands

(* Writing the line puts it there. *)
LEMMA ProcessLineStands ==
  ASSUME Types, NEW c \in Conns, ProcessLine(c), Undisturbed(c)'
  PROVE  Stands(c)'
<1> DEFINE n == Head(todo[c])
           pos == offset[c]
<1>1. Goto(c, "line", "stat") /\ todo' = todo
  BY DEF ProcessLine
<1>2. InFile(c) /\ pc'[c] = "stat"
  BY <1>1, Moved DEF InFile
<1>3. /\ n \in Nat /\ Line(c) \in Seq(Byte) /\ Len(Line(c)) = n
      /\ \A i \in 1 .. n : Line(c)[i] = c
  BY <1>2, LineValue
<1>4. n > 0
  BY <1>1 DEF Undisturbed
<1>5. Line(c) # <<>>
  BY <1>3, <1>4
<1>6. /\ pos # NoThread /\ file' = Written(pos, Line(c))
      /\ offset' = [offset EXCEPT ![c] = pos + Len(Line(c))]
  BY <1>5 DEF ProcessLine
<1>7. pos \in Nat
  BY <1>6 DEF Types
<1>8. offset'[c] = pos + n
  BY <1>3, <1>6 DEF Types
<1>9. /\ Len(file') \in Nat /\ Len(file') >= pos + n
      /\ \A i \in pos + 1 .. pos + n : file'[i] = Line(c)[i - pos]
  <2> HIDE DEF n, pos
  <2>1. file \in Seq(Byte)
    BY DEF Types
  <2>2. /\ Len(Written(pos, Line(c))) \in Nat
        /\ Len(Written(pos, Line(c))) >= pos + Len(Line(c))
        /\ \A i \in pos + 1 .. pos + Len(Line(c)) :
             Written(pos, Line(c))[i] = Line(c)[i - pos]
    BY <1>3, <1>7, <2>1, WrittenValue
  <2> QED BY <1>3, <1>6, <2>2
<1> HIDE DEF n, pos
<1>10. \A i \in pos + 1 .. pos + n : file'[i] = c
  <2> SUFFICES ASSUME NEW i \in pos + 1 .. pos + n PROVE file'[i] = c
    OBVIOUS
  <2>1. i - pos \in 1 .. n
    BY <1>3, <1>7
  <2> QED BY <1>3, <1>9, <2>1
<1>11. /\ pos + n \in Nat /\ pos + n >= n /\ (pos + n) - n = pos
  BY <1>3, <1>7
<1>12. Head(todo'[c]) = n
  BY <1>1 DEF n
<1> QED BY <1>2, <1>8, <1>9, <1>10, <1>11, <1>12 DEF Stands

LEMMA NextLines ==
  ASSUME Types, MutexInv, LineInv, [Next]_vars
  PROVE  LineInv'
<1> SUFFICES ASSUME NEW c \in Conns, Undisturbed(c)' PROVE Stands(c)'
  BY DEF LineInv
<1>1. ASSUME ~exited, InFile(c) PROVE fileMutex = c /\ ~Stamping(c) /\ c \in Threads
  BY <1>1 DEF MutexInv, Threads
<1>2. ASSUME NEW d \in Conns, Recv(d) PROVE Stands(c)'
  <2>1. Goto(d, "recv", "scan") /\ UNCHANGED <<exited, size>>
    BY <1>2 DEF Recv
  <2>2. c # d /\ pc'[c] = pc[c]
    BY <2>1, Moved DEF Undisturbed
  <2>3. pc[c] \in {"stat", "send", "blocked"} /\ ~truncated'[c]
    BY <2>2 DEF Undisturbed
  <2>4. UNCHANGED <<file, offset, truncated>>
    BY <1>2, <2>3 DEF Recv
  <2>5. todo'[c] = todo[c]
    BY <1>2, <2>2 DEF Recv, Types
  <2>6. Undisturbed(c)
    BY <2>1, <2>2, <2>4, <2>5 DEF Undisturbed
  <2> QED BY <2>1, <2>2, <2>4, <2>5, <2>6, StillStands
<1>3. ASSUME NEW d \in Conns, \/ RecvEnds(d) \/ WriteFails(d) \/ SendKills(d) \/ Close(d)
             \/ NextLine(d)
      PROVE  Stands(c)'
  <2>1. /\ UNCHANGED <<file, todo, size, truncated>>
        /\ exited' = exited
        /\ offset' \in {offset, [offset EXCEPT ![d] = NoThread]}
        /\ \E from, to : Goto(d, from, to) /\ to \notin {"stat", "send", "blocked"}
    BY <1>3 DEF RecvEnds, WriteFails, SendKills, Close, NextLine, Undisturbed
  <2>2. c # d /\ pc'[c] = pc[c]
    BY <2>1, Moved DEF Undisturbed
  <2>3. offset'[c] = offset[c]
    BY <2>1, <2>2 DEF Types
  <2>4. Undisturbed(c)
    BY <2>1, <2>2 DEF Undisturbed
  <2> QED BY <2>1, <2>2, <2>3, <2>4, StillStands
<1>4. ASSUME NEW d \in Conns, ProcessLine(d) PROVE Stands(c)'
  <2>1. CASE c = d
    BY <1>4, <2>1, ProcessLineStands
  <2>2. CASE c # d
    <3>1. Goto(d, "line", "stat")
      BY <1>4 DEF ProcessLine
    <3>2. ~exited /\ InFile(d) /\ pc'[c] = pc[c]
      BY <2>2, <3>1, Moved DEF InFile
    <3>3. InFile(c)
      BY <3>2 DEF Undisturbed, InFile
    <3>4. fileMutex = c /\ fileMutex = d
      BY <3>2, <3>3 DEF MutexInv, Threads
    <3> QED BY <2>2, <3>4
  <2> QED BY <2>1, <2>2
<1>5. ASSUME NEW d \in Conns, Stat(d) PROVE Stands(c)'
  <2>1. /\ Goto(d, "stat", "send") /\ size' = [size EXCEPT ![d] = Len(file)]
        /\ UNCHANGED <<file, exited, todo, offset, truncated>>
    BY <1>5 DEF Stat
  <2>2. CASE c # d
    <3>1. pc'[c] = pc[c] /\ size'[c] = size[c]
      BY <2>1, <2>2, Moved DEF Types
    <3>2. Undisturbed(c)
      BY <2>1, <3>1 DEF Undisturbed
    <3> QED BY <2>1, <3>1, <3>2, StillStands
  <2>3. CASE c = d
    <3>1. pc[c] = "stat" /\ size'[c] = Len(file)
      BY <2>1, <2>3, Moved DEF Types
    <3>2. Undisturbed(c)
      BY <2>1, <3>1 DEF Undisturbed
    <3>3. Stands(c)
      BY <3>2 DEF LineInv
    <3> QED BY <2>1, <3>1, <3>3 DEF Stands
  <2> QED BY <2>2, <2>3
<1>6. ASSUME NEW d \in Conns, Send(d) \/ SendReturns(d) PROVE Stands(c)'
  <2>1. /\ Goto(d, "send", "scan") \/ Goto(d, "blocked", "scan")
        /\ size' = [size EXCEPT ![d] = 0]
        /\ todo' = [todo EXCEPT ![d] = Tail(@)]
        /\ truncated' = [truncated EXCEPT ![d] = FALSE]
        /\ UNCHANGED <<file, exited, offset>>
    BY <1>6 DEF Send, SendReturns, SendEnds
  <2>2. c # d /\ pc'[c] = pc[c]
    BY <2>1, Moved DEF Undisturbed
  <2>3. size'[c] = size[c] /\ todo'[c] = todo[c] /\ truncated'[c] = truncated[c]
    BY <2>1, <2>2 DEF Types
  <2>4. Undisturbed(c)
    BY <2>1, <2>2, <2>3 DEF Undisturbed
  <2> QED BY <2>1, <2>2, <2>3, <2>4, StillStands
<1>7. ASSUME NEW t \in Threads, Deliver(t) PROVE Stands(c)'
  <2>1. /\ UNCHANGED <<file, exited, todo, offset, size, truncated>>
        /\ \/ UNCHANGED pc
           \/ t \in Conns /\ pc[t] = "recv" /\ pc' = [pc EXCEPT ![t] = "done"]
    BY <1>7 DEF Deliver
  <2>2. pc'[c] = pc[c]
    BY <2>1 DEF Types, Undisturbed
  <2>3. Undisturbed(c)
    BY <2>1, <2>2 DEF Undisturbed
  <2> QED BY <2>1, <2>2, <2>3, StillStands
<1>8. ASSUME NEW t \in Threads, StampWrite(t) PROVE Stands(c)'
  <2>1. /\ ~exited /\ stamper[t] = "write" /\ UNCHANGED pc
    BY <1>8 DEF StampWrite, handlerVars
  <2>2. InFile(c)
    BY <2>1 DEF Undisturbed, InFile
  <2>3. fileMutex = c /\ ~Stamping(c)
    BY <1>1, <2>1, <2>2
  <2>4. fileMutex = t
    BY <2>1 DEF MutexInv, Stamping
  <2> QED BY <2>1, <2>3, <2>4 DEF Stamping
<1>9. ASSUME NEW d \in Conns, SendBlocks(d) PROVE Stands(c)'
  <2>1. /\ Goto(d, "send", "blocked")
        /\ UNCHANGED <<file, exited, todo, offset, size, truncated>>
    BY <1>9 DEF SendBlocks
  <2>2. CASE c # d
    <3>1. pc'[c] = pc[c]
      BY <2>1, <2>2, Moved
    <3>2. Undisturbed(c)
      BY <2>1, <3>1 DEF Undisturbed
    <3> QED BY <2>1, <3>1, <3>2, StillStands
  <2>3. CASE c = d
    <3>1. pc[c] = "send"
      BY <2>1, <2>3, Moved
    <3>2. Undisturbed(c)
      BY <2>1, <3>1 DEF Undisturbed
    <3>3. Stands(c)
      BY <3>2 DEF LineInv
    <3> QED BY <2>1, <3>1, <3>3 DEF Stands
  <2> QED BY <2>2, <2>3
<1>10. CASE TimerExpires \/ (\E t \in Threads : StampLock(t)) \/ UNCHANGED vars
  <2>1. UNCHANGED <<file, exited, pc, todo, offset, size, truncated>>
    BY <1>10 DEF TimerExpires, StampLock, vars, handlerVars
  <2>2. Undisturbed(c)
    BY <2>1 DEF Undisturbed
  <2> QED BY <2>1, <2>2, StillStands
<1> QED BY <1>2, <1>3, <1>4, <1>5, <1>6, <1>7, <1>8, <1>9, <1>10
        DEF Next, ThreadStep, HandlerStep

(* What stands in the file is what is sent. *)
LEMMA SentLine ==
  ASSUME Types, NEW c \in Conns, Undisturbed(c), Stands(c),
         pc[c] \in {"send", "blocked"}
  PROVE  /\ Len(Mapped(c)) >= offset[c]
         /\ SubSeq(Mapped(c), (offset[c] - Head(todo[c])) + 1, offset[c]) = Line(c)
<1> DEFINE n == Head(todo[c])
           pos == offset[c] - n
           m == Mapped(c)
<1>1. InFile(c)
  BY DEF InFile
<1>2. /\ n \in Nat /\ n > 0 /\ Line(c) \in Seq(Byte) /\ Len(Line(c)) = n
      /\ \A i \in 1 .. n : Line(c)[i] = c
  BY <1>1, LineValue DEF Undisturbed
<1>3. /\ offset[c] \in Nat /\ offset[c] >= n /\ Len(file) >= offset[c] /\ size[c] >= offset[c]
      /\ \A i \in pos + 1 .. offset[c] : file[i] = c
  BY DEF Stands
<1>4. file \in Seq(Byte) /\ Len(file) \in Nat /\ size[c] \in Nat /\ c \in Byte
  BY DEF Types, Byte
<1>5. file # <<>> /\ offset[c] # NoThread
  BY <1>2, <1>3, <1>4, PlainFileAssumption
<1>6. m = [i \in 1 .. size[c] |-> IF i <= Len(file) THEN file[i] ELSE Zero]
  BY <1>5 DEF Mapped
<1>7. \A i \in pos + 1 .. offset[c] : m[i] = c /\ m[i] \in Byte
  <2> SUFFICES ASSUME NEW i \in pos + 1 .. offset[c] PROVE m[i] = c
    BY <1>4
  <2>1. i \in 1 .. size[c] /\ i <= Len(file) /\ file[i] = c
    BY ONLY <1>2, <1>3, <1>4
  <2> HIDE DEF m
  <2> QED BY <1>6, <2>1
<1>8. Len(m) = size[c]
  <2> HIDE DEF m
  <2> QED BY <1>4, <1>6
<1> HIDE DEF m, n
<1>9. /\ pos + 1 \in Int /\ offset[c] \in Int /\ pos + 1 <= offset[c]
      /\ (offset[c] - (pos + 1)) + 1 = n
      /\ \A i \in 1 .. n : (pos + 1) + i - 1 \in pos + 1 .. offset[c]
  BY ONLY <1>2, <1>3
<1> HIDE DEF pos
<1>10. /\ SubSeq(m, pos + 1, offset[c]) \in Seq(Byte)
       /\ Len(SubSeq(m, pos + 1, offset[c])) = n
       /\ \A i \in 1 .. n : SubSeq(m, pos + 1, offset[c])[i] = m[(pos + 1) + i - 1]
  BY <1>7, <1>9, SubSeqProperties
<1>11. SubSeq(m, pos + 1, offset[c]) = Line(c)
  BY <1>2, <1>7, <1>9, <1>10, SeqEqual
<1> QED BY <1>3, <1>8, <1>11 DEF m, n, pos

(* Unless somebody has truncated the file by opening it, which             *)
(* ProcessBuffer does without FileMutex, a reply has the line it answers   *)
(* where the handler wrote it, whatever handlers and time stamps wrote.    *)
THEOREM RepliesHaveLine == Spec => OwnLineInReply
<1>1. Init => LineInv
  BY DEF Init, LineInv, Undisturbed
<1>2. Types /\ MutexInv /\ LineInv /\ [Next]_vars => Types' /\ MutexInv' /\ LineInv'
  BY NextTypes, NextMutex, NextLines
<1>3. Types /\ LineInv /\ [Next]_vars =>
        [\A c \in Conns :
           (/\ pc[c] \in {"send", "blocked"} /\ pc'[c] = "scan"
            /\ ~truncated[c] /\ Head(todo[c]) > 0) =>
             /\ Len(Mapped(c)) >= offset[c]
             /\ SubSeq(Mapped(c), (offset[c] - Head(todo[c])) + 1, offset[c]) = Line(c)]_vars
  <2> SUFFICES ASSUME Types, LineInv, Next, NEW c \in Conns,
                      pc[c] \in {"send", "blocked"}, pc'[c] = "scan", ~truncated[c], Head(todo[c]) > 0
               PROVE  /\ Len(Mapped(c)) >= offset[c]
                      /\ SubSeq(Mapped(c), (offset[c] - Head(todo[c])) + 1, offset[c]) = Line(c)
    OBVIOUS
  <2>1. ~exited
    BY DEF Next, ThreadStep, HandlerStep, Recv, RecvEnds, NextLine, ProcessLine, WriteFails,
           Stat, Send, SendReturns, SendEnds, SendBlocks, SendKills, Close, Goto, TimerExpires, Deliver, StampLock, StampWrite, handlerVars
  <2>2. Undisturbed(c)
    BY <2>1 DEF Undisturbed
  <2> QED BY <2>2, SentLine DEF LineInv
<1> QED BY <1>1, <1>2, <1>3, InitHolds, PTL DEF Spec, OwnLineInReply

=============================================================================
