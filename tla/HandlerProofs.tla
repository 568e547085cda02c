---------------------------- MODULE HandlerProofs ----------------------------
(***************************************************************************)
(* For any number of connections, any size of the buffer and whatever the  *)
(* clients send: ProcessBuffer stays inside its buffer, hands on whole     *)
(* lines only and answers each with all that was stored, and the handlers  *)
(* are what the rest of the server takes them for (HandlerThreads).        *)
(***************************************************************************)
EXTENDS ConnectionHandler, CircularBufferLemmas, SequenceTheorems

-----------------------------------------------------------------------------
Fields ==
  {"buffer", "bufferLen", "start", "segmentLen", "residualSize", "lastCall",
   "fileOpen", "f_pos", "offered"}

(* The lengths a handler keeps fit its buffer, and the line it deals with  *)
(* lies within what is left to process.                                    *)
LengthsFit(c) ==
  LET l == local[c] IN
  /\ DOMAIN l = Fields
  /\ l.bufferLen \in 0 .. BufSize
  /\ l.residualSize \in 0 .. BufSize
  /\ l.start \in 1 .. l.bufferLen + 1
  /\ pc[c] \in {"line", "reply", "blocked"} =>
       l.segmentLen \in 1 .. (l.bufferLen - l.start) + 1

(* While the process lives, FileMutex is held by the handler that is       *)
(* between taking and giving it back.                                      *)
MutexMatches ==
  ~exited => \A c \in Conns : fileMutex = c <=> pc[c] \in {"line", "reply", "blocked"}

HandlerTypes ==
  /\ pc \in [Conns -> PCs]
  /\ exited \in BOOLEAN
  /\ inbox \in [Conns -> Seq(Byte)]
  /\ DOMAIN local = Conns

HandlerInv ==
  /\ HandlerTypes
  /\ \A c \in Conns : LengthsFit(c)
  /\ MutexMatches

LEMMA InitInv == Init => HandlerInv
<1> SUFFICES ASSUME Init PROVE HandlerInv
  OBVIOUS
<1>1. HandlerTypes
  <2>1. <<>> \in Seq(Byte)
    OBVIOUS
  <2>2. DOMAIN local = Conns
    BY DEF Init
  <2> QED BY <2>1, <2>2 DEF Init, HandlerTypes, PCs
<1>2. ASSUME NEW c \in Conns PROVE LengthsFit(c)
  BY <1>2, HandlerAssumption DEF Init, LengthsFit, Locals, Fields
<1>3. MutexMatches
  BY HandlerAssumption DEF Init, MutexMatches
<1> QED BY <1>1, <1>2, <1>3 DEF HandlerInv

(* A step that keeps the lengths of every handler where they are, and      *)
(* leaves FileMutex alone, in and out of it.                               *)
LEMMA QuietStep ==
  ASSUME HandlerInv, NEW c \in Conns, NEW from \in PCs, NEW to \in PCs,
         Goto(c, from, to), UNCHANGED <<fileMutex, exited, local>>,
         inbox' \in [Conns -> Seq(Byte)],
         from \in {"line", "reply", "blocked"} <=> to \in {"line", "reply", "blocked"}
  PROVE  HandlerInv'
<1>1. HandlerTypes'
  BY DEF HandlerInv, HandlerTypes, Goto
<1>2. ASSUME NEW d \in Conns PROVE LengthsFit(d)'
  BY <1>2 DEF HandlerInv, HandlerTypes, Goto, LengthsFit
<1>3. MutexMatches'
  BY DEF HandlerInv, HandlerTypes, Goto, MutexMatches
<1> QED BY <1>1, <1>2, <1>3 DEF HandlerInv

(* fail() and signals leave the lengths alone, and nobody to hold a mutex. *)
LEMMA ExitStep ==
  ASSUME HandlerInv, NEW c \in Conns, NEW from \in PCs, Exit(c, from)
  PROVE  HandlerInv'
<1>1. HandlerTypes'
  BY DEF HandlerInv, HandlerTypes, Exit, Goto, clientVars, PCs
<1>2. ASSUME NEW d \in Conns PROVE LengthsFit(d)'
  BY <1>2 DEF HandlerInv, HandlerTypes, Exit, Goto, LengthsFit
<1>3. MutexMatches'
  BY DEF Exit, MutexMatches
<1> QED BY <1>1, <1>2, <1>3 DEF HandlerInv

(* A step that changes one handler's locals, but only its own.             *)
LEMMA LocalStep ==
  ASSUME HandlerInv, NEW c \in Conns, NEW from \in PCs, NEW to \in PCs,
         Goto(c, from, to), NEW l, local' = [local EXCEPT ![c] = l],
         inbox' \in [Conns -> Seq(Byte)], UNCHANGED exited,
         LengthsFit(c)', MutexMatches'
  PROVE  HandlerInv'
<1>1. HandlerTypes'
  BY DEF HandlerInv, HandlerTypes, Goto
<1>2. ASSUME NEW d \in Conns PROVE LengthsFit(d)'
  BY <1>2 DEF HandlerInv, HandlerTypes, Goto, LengthsFit
<1> QED BY <1>1, <1>2 DEF HandlerInv

(* Clients and the signal do not touch the handlers.                       *)
LEMMA OutsideStep ==
  ASSUME HandlerInv, sigHandler \/ \E c \in Conns : ClientSend(c) \/ ClientClose(c)
  PROVE  HandlerInv'
<1>1. UNCHANGED <<fileMutex, exited, pc, local>>
  BY DEF sigHandler, ClientSend, ClientClose, serverVars
<1>2. inbox' \in [Conns -> Seq(Byte)]
  <2>1. CASE sigHandler
    BY <2>1 DEF sigHandler, clientVars, HandlerInv, HandlerTypes
  <2>2. ASSUME NEW c \in Conns, ClientSend(c)
        PROVE  inbox' \in [Conns -> Seq(Byte)]
    <3>1. PICK s \in Packets[c] : inbox' = [inbox EXCEPT ![c] = @ \o s]
      BY <2>2 DEF ClientSend
    <3>2. s \in Seq(Byte)
      BY HandlerAssumption
    <3> HIDE DEF Byte
    <3>3. inbox[c] \o s \in Seq(Byte)
      BY <3>2 DEF HandlerInv, HandlerTypes
    <3> QED BY <3>1, <3>3 DEF HandlerInv, HandlerTypes
  <2>3. ASSUME NEW c \in Conns, ClientClose(c)
        PROVE  inbox' \in [Conns -> Seq(Byte)]
    BY <2>3 DEF ClientClose, HandlerInv, HandlerTypes
  <2> QED BY <2>1, <2>2, <2>3
<1>3. HandlerTypes' /\ MutexMatches'
  BY <1>1, <1>2 DEF HandlerInv, HandlerTypes, MutexMatches
<1>4. ASSUME NEW d \in Conns PROVE LengthsFit(d)'
  BY <1>1, <1>4 DEF HandlerInv, LengthsFit
<1> QED BY <1>3, <1>4 DEF HandlerInv

(* recv delivers n bytes: no more than wait, and no more than the room     *)
(* behind the residue.                                                     *)
Receives(c, n, ok) ==
  LET l == local[c] IN
  /\ n \in 1 .. Len(inbox[c])
  /\ n \in 1 .. BufSize - l.residualSize
  /\ inbox' = [inbox EXCEPT ![c] = SubSeq(inbox[c], n + 1, Len(inbox[c]))]
  /\ local' = [local EXCEPT ![c] =
       [l EXCEPT !.buffer = [i \in 1 .. BufSize |->
                               IF i <= n THEN inbox[c][i] ELSE l.buffer[i]],
                 !.bufferLen = n + l.residualSize,
                 !.start = 1,
                 !.fileOpen = ok,
                 !.f_pos = 0,
                 !.offered = <<>>]]
  /\ trace' = [trace EXCEPT ![c].received = @ \o SubSeq(inbox[c], 1, n)]

LEMMA RecvValue ==
  ASSUME HandlerInv, NEW c \in Conns, Recv(c)
  PROVE  \E n \in Nat, ok \in BOOLEAN : Receives(c, n, ok)
<1> DEFINE l == local[c]
<1>1. /\ l.residualSize \in 0 .. BufSize /\ Room(c) \in Nat
      /\ Room(c) = BufSize - l.residualSize
  BY HandlerAssumption DEF HandlerInv, LengthsFit, Room
<1>2. inbox[c] \in Seq(Byte) /\ Len(inbox[c]) \in Nat
  BY DEF HandlerInv, HandlerTypes
<1>3. PICK n \in 1 .. Min({Len(inbox[c]), Room(c)}), ok \in BOOLEAN :
        /\ inbox' = [inbox EXCEPT ![c] = SubSeq(@, n + 1, Len(@))]
        /\ local' = [local EXCEPT ![c] =
             [l EXCEPT !.buffer = [i \in 1 .. BufSize |-> IF i <= n THEN inbox[c][i] ELSE @[i]],
                       !.bufferLen = n + l.residualSize,
                       !.start = 1,
                       !.fileOpen = ok,
                       !.f_pos = 0,
                       !.offered = <<>>]]
        /\ trace' = [trace EXCEPT ![c].received = @ \o SubSeq(inbox[c], 1, n)]
  BY DEF Recv
<1>4. n \in 1 .. Len(inbox[c]) /\ n \in 1 .. Room(c)
  <2>1. /\ Min({Len(inbox[c]), Room(c)}) \in Nat
        /\ Min({Len(inbox[c]), Room(c)}) <= Len(inbox[c])
        /\ Min({Len(inbox[c]), Room(c)}) <= Room(c)
    BY <1>1, <1>2, MinValue
  <2> QED BY <1>1, <1>2, <2>1
<1>5. Receives(c, n, ok) /\ n \in Nat
  BY <1>1, <1>2, <1>3, <1>4 DEF Receives
<1> QED BY <1>5

(* recv asks for no more than the room behind the residue, so what it has  *)
(* counted fits buffer.                                                    *)
LEMMA RecvStep ==
  ASSUME HandlerInv, NEW c \in Conns, Recv(c)
  PROVE  HandlerInv'
<1> DEFINE l == local[c]
<1>1. l.residualSize \in 0 .. BufSize /\ DOMAIN l = Fields
  BY DEF HandlerInv, LengthsFit
<1>2. inbox[c] \in Seq(Byte) /\ Len(inbox[c]) \in Nat
  BY DEF HandlerInv, HandlerTypes
<1>3. PICK n \in Nat, ok \in BOOLEAN : Receives(c, n, ok)
  BY RecvValue
<1>4. /\ n \in 1 .. Len(inbox[c])
      /\ n \in 1 .. BufSize - l.residualSize
      /\ inbox' = [inbox EXCEPT ![c] = SubSeq(inbox[c], n + 1, Len(inbox[c]))]
  BY <1>3 DEF Receives
<1>5. inbox' \in [Conns -> Seq(Byte)]
  <2> HIDE DEF Byte
  <2>1. SubSeq(inbox[c], n + 1, Len(inbox[c])) \in Seq(Byte)
    BY <1>2, <1>4
  <2> QED BY <1>4, <2>1 DEF HandlerInv, HandlerTypes
<1>6. Goto(c, "recv", "scan") /\ UNCHANGED <<fileMutex, exited>>
  BY DEF Recv, serverVars
<1>7. LengthsFit(c)'
  <2>1. /\ DOMAIN local'[c] = Fields
        /\ local'[c].bufferLen = n + l.residualSize
        /\ local'[c].start = 1
        /\ local'[c].residualSize = l.residualSize
    BY <1>1, <1>3 DEF Receives, HandlerInv, HandlerTypes, Fields
  <2>2. pc'[c] = "scan"
    BY <1>6 DEF Goto, HandlerInv, HandlerTypes
  <2> QED BY <1>1, <1>4, <2>1, <2>2, HandlerAssumption DEF LengthsFit
<1>8. MutexMatches'
  BY <1>6 DEF HandlerInv, HandlerTypes, MutexMatches, Goto
<1>9. PICK x : local' = [local EXCEPT ![c] = x]
  BY <1>3 DEF Receives
<1> QED BY <1>5, <1>6, <1>7, <1>8, <1>9, LocalStep DEF PCs

LEMMA RecvTimeoutStep ==
  ASSUME HandlerInv, NEW c \in Conns, RecvTimeout(c)
  PROVE  HandlerInv'
<1>1. /\ Goto(c, "recv", "recv") /\ UNCHANGED <<fileMutex, exited, inbox>>
      /\ local' = [local EXCEPT ![c] = [local[c] EXCEPT !.lastCall = TRUE]]
  BY DEF RecvTimeout, serverVars, clientVars
<1>2. LengthsFit(c)'
  <2>1. /\ DOMAIN local'[c] = Fields
        /\ local'[c].bufferLen = local[c].bufferLen
        /\ local'[c].start = local[c].start
        /\ local'[c].residualSize = local[c].residualSize
    BY <1>1 DEF HandlerInv, HandlerTypes, LengthsFit, Fields
  <2>2. pc'[c] = "recv"
    BY <1>1 DEF Goto, HandlerInv, HandlerTypes
  <2> QED BY <2>1, <2>2 DEF HandlerInv, LengthsFit
<1>3. MutexMatches'
  BY <1>1 DEF HandlerInv, HandlerTypes, MutexMatches, Goto
<1>4. inbox' \in [Conns -> Seq(Byte)]
  BY <1>1 DEF HandlerInv, HandlerTypes
<1> QED BY <1>1, <1>2, <1>3, <1>4, LocalStep DEF PCs

(* The line that is found ends within what has been received.              *)
LEMMA NextLineStep ==
  ASSUME HandlerInv, NEW c \in Conns, NextLine(c)
  PROVE  HandlerInv'
<1> DEFINE l == local[c]
           k == Min(LineEnds(c))
<1>1. /\ Goto(c, "scan", "line") /\ UNCHANGED <<exited, inbox>>
      /\ fileMutex = NoConn /\ fileMutex' = c
      /\ local' = [local EXCEPT ![c] = [l EXCEPT !.segmentLen = (k - l.start) + 1]]
  BY DEF NextLine, clientVars
<1>2. /\ l.bufferLen \in 0 .. BufSize
      /\ l.start \in 1 .. l.bufferLen + 1
      /\ l.residualSize \in 0 .. BufSize
      /\ DOMAIN l = Fields
  BY DEF HandlerInv, LengthsFit
<1>3. k \in l.start .. l.bufferLen
  <2>1. LineEnds(c) \subseteq l.start .. l.bufferLen
    BY DEF LineEnds
  <2>2. LineEnds(c) \subseteq Nat
    BY <1>2, <2>1, HandlerAssumption
  <2>3. LineEnds(c) # {}
    BY DEF NextLine
  <2> QED BY <2>1, <2>2, <2>3, MinValue
<1>4. LengthsFit(c)'
  <2>1. /\ DOMAIN local'[c] = Fields
        /\ local'[c].bufferLen = l.bufferLen
        /\ local'[c].start = l.start
        /\ local'[c].residualSize = l.residualSize
        /\ local'[c].segmentLen = (k - l.start) + 1
    BY <1>1, <1>2 DEF HandlerInv, HandlerTypes, Fields
  <2> HIDE DEF k, l
  <2>2. (k - l.start) + 1 \in 1 .. (l.bufferLen - l.start) + 1
    BY <1>2, <1>3, HandlerAssumption
  <2> QED BY <1>2, <2>1, <2>2 DEF LengthsFit
<1>5. MutexMatches'
  BY <1>1, HandlerAssumption DEF HandlerInv, HandlerTypes, MutexMatches, Goto
<1>6. inbox' \in [Conns -> Seq(Byte)]
  BY <1>1 DEF HandlerInv, HandlerTypes
<1> QED BY <1>1, <1>4, <1>5, <1>6, LocalStep DEF PCs

LEMMA ReplyStep ==
  ASSUME HandlerInv, NEW c \in Conns, Reply(c)
  PROVE  HandlerInv'
<1>1. PICK x, y :
        local' = [local EXCEPT ![c] = [local[c] EXCEPT !.f_pos = x, !.offered = y]]
  BY DEF Reply
<1>2. PICK to \in {"reply", "blocked"} :
        Goto(c, "reply", to) /\ UNCHANGED <<fileMutex, exited, inbox>>
  BY DEF Reply, serverVars, clientVars
<1>3. LengthsFit(c)'
  <2>1. /\ DOMAIN local'[c] = Fields
        /\ local'[c].bufferLen = local[c].bufferLen
        /\ local'[c].start = local[c].start
        /\ local'[c].residualSize = local[c].residualSize
        /\ local'[c].segmentLen = local[c].segmentLen
    BY <1>1 DEF HandlerInv, HandlerTypes, LengthsFit, Fields
  <2>2. pc[c] = "reply"
    BY <1>2 DEF Goto
  <2> QED BY <2>1, <2>2 DEF HandlerInv, LengthsFit
<1>4. MutexMatches'
  BY <1>2 DEF HandlerInv, HandlerTypes, MutexMatches, Goto
<1>5. inbox' \in [Conns -> Seq(Byte)]
  BY <1>2 DEF HandlerInv, HandlerTypes
<1> QED BY <1>1, <1>2, <1>3, <1>4, <1>5, LocalStep DEF PCs

(* The lines of a buffer of size bytes, as numbers. *)
LEMMA SegmentFits ==
  ASSUME NEW size \in Nat, NEW len \in 0 .. size, NEW start \in 1 .. len + 1
  PROVE  /\ start \in Nat \ {0}
         /\ (len - start) + 1 \in 0 .. size
         /\ \A n \in 1 .. (len - start) + 1 :
              /\ n \in Nat
              /\ start + n \in 1 .. len + 1
              /\ start + n \in Nat \ {0}
              /\ start + n - 1 \in 0 .. size
  OBVIOUS

(* What a handler has left to process is no longer than its buffer, and    *)
(* the line it deals with ends before the end of it.                       *)
LEMMA LineInside ==
  ASSUME NEW c \in Conns, LengthsFit(c)
  PROVE  LET l == local[c] IN
         /\ l.start \in Nat \ {0}
         /\ (l.bufferLen - l.start) + 1 \in 0 .. BufSize
         /\ pc[c] \in {"line", "reply", "blocked"} =>
              /\ l.start + l.segmentLen \in 1 .. l.bufferLen + 1
              /\ l.start + l.segmentLen \in Nat \ {0}
              /\ l.start + l.segmentLen - 1 \in 0 .. BufSize
<1>1. BufSize \in Nat
  BY HandlerAssumption
<1>2. PICK len, start, n : len = local[c].bufferLen /\ start = local[c].start /\ n = local[c].segmentLen
  BY Zenon
<1>3. /\ len \in 0 .. BufSize /\ start \in 1 .. len + 1
      /\ pc[c] \in {"line", "reply", "blocked"} => n \in 1 .. (len - start) + 1
  BY <1>2 DEF LengthsFit
<1>4. /\ start \in Nat \ {0}
      /\ (len - start) + 1 \in 0 .. BufSize
      /\ \A m \in 1 .. (len - start) + 1 :
           /\ start + m \in 1 .. len + 1
           /\ start + m \in Nat \ {0}
           /\ start + m - 1 \in 0 .. BufSize
  BY ONLY <1>1, <1>3, SegmentFits
<1>5. pc[c] \in {"line", "reply", "blocked"} =>
        /\ start + n \in 1 .. len + 1
        /\ start + n \in Nat \ {0}
        /\ start + n - 1 \in 0 .. BufSize
  BY ONLY <1>3, <1>4
<1> QED BY ONLY <1>2, <1>4, <1>5

(* The line that has been replied to is left behind.                       *)
LEMMA ReplyDoneStep ==
  ASSUME HandlerInv, NEW c \in Conns, ReplyDone(c)
  PROVE  HandlerInv'
<1> DEFINE l == local[c]
<1>1. /\ Goto(c, "reply", "scan") /\ UNCHANGED <<exited, inbox>>
      /\ fileMutex' = NoConn
      /\ local' = [local EXCEPT ![c] = [l EXCEPT !.start = l.start + l.segmentLen]]
  BY DEF ReplyDone, clientVars
<1>2. LengthsFit(c) /\ pc[c] = "reply"
  BY <1>1 DEF HandlerInv, Goto
<1>3. LengthsFit(c)'
  <2>1. /\ DOMAIN local'[c] = Fields
        /\ local'[c].bufferLen = l.bufferLen
        /\ local'[c].start = l.start + l.segmentLen
        /\ local'[c].residualSize = l.residualSize
    BY <1>1, <1>2 DEF HandlerInv, HandlerTypes, LengthsFit, Fields
  <2>2. pc'[c] = "scan"
    BY <1>1 DEF Goto, HandlerInv, HandlerTypes
  <2>3. l.start + l.segmentLen \in 1 .. l.bufferLen + 1
    BY <1>2, LineInside
  <2> QED BY <1>2, <2>1, <2>2, <2>3 DEF LengthsFit
<1>4. MutexMatches'
  BY <1>1, <1>2, HandlerAssumption DEF HandlerInv, HandlerTypes, MutexMatches, Goto
<1>5. inbox' \in [Conns -> Seq(Byte)]
  BY <1>1 DEF HandlerInv, HandlerTypes
<1> QED BY <1>1, <1>3, <1>4, <1>5, LocalStep DEF PCs

(* The residue is what is left of the buffer, so no more than it holds.    *)
LEMMA CloseFileStep ==
  ASSUME HandlerInv, NEW c \in Conns, CloseFile(c)
  PROVE  HandlerInv'
<1> DEFINE l    == local[c]
           rest == (l.bufferLen - l.start) + 1
           to   == IF l.lastCall THEN "close" ELSE "recv"
<1>1. /\ Goto(c, "scan", to) /\ UNCHANGED <<fileMutex, exited, inbox>>
      /\ local' = [local EXCEPT ![c] =
                     [l EXCEPT !.residualSize = rest, !.fileOpen = FALSE]]
  BY DEF CloseFile, serverVars, clientVars
<1>2. LengthsFit(c)
  BY DEF HandlerInv
<1>3. LengthsFit(c)'
  <2>1. /\ DOMAIN local'[c] = Fields
        /\ local'[c].bufferLen = l.bufferLen
        /\ local'[c].start = l.start
        /\ local'[c].residualSize = rest
    BY <1>1, <1>2 DEF HandlerInv, HandlerTypes, LengthsFit, Fields
  <2>2. pc'[c] \in {"close", "recv"}
    BY <1>1 DEF Goto, HandlerInv, HandlerTypes
  <2>3. rest \in 0 .. BufSize
    BY <1>2, LineInside
  <2> QED BY <1>2, <2>1, <2>2, <2>3 DEF LengthsFit
<1>4. MutexMatches'
  BY <1>1 DEF HandlerInv, HandlerTypes, MutexMatches, Goto
<1>5. inbox' \in [Conns -> Seq(Byte)]
  BY <1>1 DEF HandlerInv, HandlerTypes
<1>6. to \in PCs
  BY DEF PCs
<1> QED BY <1>1, <1>3, <1>4, <1>5, <1>6, LocalStep DEF PCs

-----------------------------------------------------------------------------
LEMMA HandlerStepInv ==
  ASSUME HandlerInv, NEW c \in Conns, HandlerStep(c) \/ SendReturns(c)
  PROVE  HandlerInv'
<1> USE DEF PCs
<1>0. inbox \in [Conns -> Seq(Byte)]
  BY DEF HandlerInv, HandlerTypes
<1>1. CASE Start(c)
  BY <1>0, <1>1, QuietStep DEF Start, serverVars, clientVars
<1>2. CASE StartFails(c)
  BY <1>2, ExitStep DEF StartFails
<1>3. CASE Recv(c)
  BY <1>3, RecvStep
<1>4. CASE RecvEnds(c)
  BY <1>0, <1>4, QuietStep DEF RecvEnds, serverVars, clientVars
<1>5. CASE RecvTimeout(c)
  BY <1>5, RecvTimeoutStep
<1>6. CASE NextLine(c)
  BY <1>6, NextLineStep
<1>7. CASE ProcessSeek(c)
  BY <1>0, <1>7, QuietStep DEF ProcessSeek, Handled, serverVars, clientVars
<1>8. CASE ProcessWrite(c)
  BY <1>0, <1>8, QuietStep DEF ProcessWrite, Handled, serverVars, clientVars
<1>9. CASE ProcessWriteFails(c)
  BY <1>9, ExitStep DEF ProcessWriteFails
<1>10. CASE Reply(c)
  BY <1>10, ReplyStep
<1>11. CASE ReplyKills(c) \/ StringRunsOn(c)
  BY <1>11, ExitStep DEF ReplyKills, StringRunsOn
<1>12. CASE ReplyDone(c)
  BY <1>12, ReplyDoneStep
<1>13. CASE CloseFile(c)
  BY <1>13, CloseFileStep
<1>14. CASE CloseConnectionFD(c)
  BY <1>0, <1>14, QuietStep DEF CloseConnectionFD, serverVars, clientVars
<1>15. CASE SendFails(c) \/ SendReturns(c)
  BY <1>0, <1>15, QuietStep DEF SendFails, SendReturns, serverVars, clientVars
<1> QED
  BY <1>1, <1>2, <1>3, <1>4, <1>5, <1>6, <1>7, <1>8, <1>9, <1>10, <1>11, <1>12,
     <1>13, <1>14, <1>15 DEF HandlerStep

LEMMA NextInv == HandlerInv /\ [Next]_vars => HandlerInv'
<1> SUFFICES ASSUME HandlerInv, [Next]_vars PROVE HandlerInv'
  OBVIOUS
<1>1. CASE sigHandler \/ \E c \in Conns : ClientSend(c) \/ ClientClose(c)
  BY <1>1, OutsideStep
<1>2. ASSUME NEW c \in Conns, HandlerStep(c) \/ SendReturns(c) PROVE HandlerInv'
  BY <1>2, HandlerStepInv
<1>3. CASE UNCHANGED vars
  <2>1. HandlerTypes' /\ MutexMatches'
    BY <1>3 DEF vars, serverVars, clientVars, HandlerInv, HandlerTypes, MutexMatches
  <2>2. ASSUME NEW d \in Conns PROVE LengthsFit(d)'
    BY <1>3, <2>2 DEF vars, HandlerInv, LengthsFit
  <2> QED BY <2>1, <2>2 DEF HandlerInv
<1> QED BY <1>1, <1>2, <1>3 DEF Next

(* What ProcessBuffer counts never leaves its buffer, whatever arrives in  *)
(* whatever pieces, although a residue is counted on top of what recv      *)
(* delivers.                                                               *)
THEOREM HandlersInsideBuffer == Spec => []CountsInsideBuffer
<1>1. HandlerInv => CountsInsideBuffer
  BY DEF HandlerInv, LengthsFit, CountsInsideBuffer
<1> QED BY <1>1, InitInv, NextInv, PTL DEF Spec

-----------------------------------------------------------------------------
(* A move of one handler is the same move, or none, as HandlerThreads sees *)
(* it.                                                                     *)
Stages == [c \in Conns |-> Stage(pc[c])]

LEMMA MoveMaps ==
  ASSUME HandlerInv, NEW c \in Conns, NEW from \in PCs, NEW to \in PCs,
         Goto(c, from, to)
  PROVE  HT!Move(c, Stage(from), Stage(to))
<1>1. ~exited /\ pc[c] = from /\ pc' = [pc EXCEPT ![c] = to]
  BY DEF Goto
<1>2. pc \in [Conns -> PCs]
  BY DEF HandlerInv, HandlerTypes
<1>3. Stages[c] = Stage(from)
  BY <1>1 DEF Stages
<1>4. Stages' = [Stages EXCEPT ![c] = Stage(to)]
  <2>1. \A d \in Conns : pc'[d] = IF d = c THEN to ELSE pc[d]
    BY <1>1, <1>2
  <2> QED BY <2>1 DEF Stages
<1> QED BY <1>1, <1>3, <1>4 DEF HT!Move, Stages

(* A move inside one stage is none.                                        *)
LEMMA StageKept ==
  ASSUME HandlerInv, NEW c \in Conns, NEW from \in PCs, NEW to \in PCs,
         Goto(c, from, to), Stage(from) = Stage(to), UNCHANGED <<fileMutex, exited>>
  PROVE  UNCHANGED HT!vars
<1>1. Stages' = [Stages EXCEPT ![c] = Stage(to)] /\ Stages[c] = Stage(from)
  BY MoveMaps DEF HT!Move, Stages
<1>2. Stages' = Stages
  BY <1>1 DEF Stages
<1> QED BY <1>2 DEF HT!vars, Stages

LEMMA ExitMaps ==
  ASSUME HandlerInv, NEW c \in Conns, NEW from \in {"start", "line", "reply", "blocked"},
         Exit(c, from)
  PROVE  HT!Next
<1>1. Goto(c, from, "done") /\ exited' = TRUE /\ UNCHANGED fileMutex
  BY DEF Exit
<1>2. HT!Move(c, Stage(from), Stage("done"))
  BY <1>1, MoveMaps DEF PCs
<1>3. Stage(from) \in {"start", "file"} /\ Stage("done") = "done"
  BY DEF Stage
<1>4. HT!Die(c)
  BY <1>1, <1>2, <1>3 DEF HT!Die
<1> QED BY <1>4 DEF HT!Next

LEMMA HandlerStepMaps ==
  ASSUME HandlerInv, NEW c \in Conns, HandlerStep(c) \/ SendReturns(c)
  PROVE  [HT!Next]_HT!vars
<1> USE DEF PCs
<1>0. /\ Stage("start") = "start" /\ Stage("done") = "done"
      /\ \A place \in {"recv", "scan", "close"} : Stage(place) = "run"
      /\ \A place \in {"line", "reply", "blocked"} : Stage(place) = "file"
  BY DEF Stage
<1>1. CASE Start(c)
  <2>1. HT!Begin(c)
    BY <1>0, <1>1, MoveMaps DEF Start, serverVars, HT!Begin
  <2> QED BY <2>1 DEF HT!Next
<1>2. CASE StartFails(c)
  BY <1>2, ExitMaps DEF StartFails
<1>3. CASE Recv(c)
  BY <1>0, <1>3, StageKept DEF Recv, serverVars
<1>4. CASE RecvEnds(c)
  BY <1>0, <1>4, StageKept DEF RecvEnds, serverVars
<1>5. CASE RecvTimeout(c)
  BY <1>0, <1>5, StageKept DEF RecvTimeout, serverVars
<1>6. CASE NextLine(c)
  <2>1. HT!Lock(c)
    BY <1>0, <1>6, MoveMaps DEF NextLine, HT!Lock
  <2> QED BY <2>1 DEF HT!Next
<1>7. CASE ProcessSeek(c)
  BY <1>0, <1>7, StageKept DEF ProcessSeek, Handled, serverVars
<1>8. CASE ProcessWrite(c)
  BY <1>0, <1>8, StageKept DEF ProcessWrite, Handled, serverVars
<1>9. CASE ProcessWriteFails(c)
  BY <1>9, ExitMaps DEF ProcessWriteFails
<1>10. CASE Reply(c)
  BY <1>0, <1>10, StageKept DEF Reply, serverVars
<1>11. CASE ReplyKills(c) \/ StringRunsOn(c)
  BY <1>11, ExitMaps DEF ReplyKills, StringRunsOn
<1>12. CASE ReplyDone(c)
  <2>1. fileMutex = c
    BY <1>12 DEF ReplyDone, Goto, HandlerInv, MutexMatches
  <2>2. HT!Unlock(c)
    BY <1>0, <1>12, <2>1, MoveMaps DEF ReplyDone, HT!Unlock
  <2> QED BY <2>2 DEF HT!Next
<1>13. CASE CloseFile(c)
  BY <1>0, <1>13, StageKept DEF CloseFile, serverVars
<1>14. CASE CloseConnectionFD(c)
  <2>1. HT!End(c)
    BY <1>0, <1>14, MoveMaps DEF CloseConnectionFD, serverVars, HT!End
  <2> QED BY <2>1 DEF HT!Next
<1>15. CASE SendFails(c) \/ SendReturns(c)
  BY <1>0, <1>15, StageKept DEF SendFails, SendReturns, serverVars
<1> QED
  BY <1>1, <1>2, <1>3, <1>4, <1>5, <1>6, <1>7, <1>8, <1>9, <1>10, <1>11, <1>12,
     <1>13, <1>14, <1>15 DEF HandlerStep

LEMMA InitMaps == Init => HT!Init
<1> SUFFICES ASSUME Init PROVE HT!Init
  OBVIOUS
<1>1. \A c \in Conns : Stage(pc[c]) = "start"
  BY DEF Init, Stage
<1>2. Stages \in [Conns -> {"none", "start"}]
  BY <1>1 DEF Stages
<1> QED BY <1>2 DEF Init, HT!Init, Stages

LEMMA NextMaps == HandlerInv /\ [Next]_vars => [HT!Next]_HT!vars
<1> SUFFICES ASSUME HandlerInv, [Next]_vars PROVE [HT!Next]_HT!vars
  OBVIOUS
<1>1. CASE sigHandler \/ \E c \in Conns : ClientSend(c) \/ ClientClose(c)
  <2>1. UNCHANGED <<fileMutex, exited, pc>>
    BY <1>1 DEF sigHandler, ClientSend, ClientClose, serverVars
  <2> QED BY <2>1 DEF HT!vars
<1>2. ASSUME NEW c \in Conns, HandlerStep(c) \/ SendReturns(c) PROVE [HT!Next]_HT!vars
  BY <1>2, HandlerStepMaps
<1>3. CASE UNCHANGED vars
  BY <1>3 DEF vars, serverVars, HT!vars
<1> QED BY <1>1, <1>2, <1>3 DEF Next

(* The handlers keep what the rest of the server relies on: FileMutex has  *)
(* one holder, every way through ProcessBuffer gives it back, and a        *)
(* handler ends outside it unless the process ends.                        *)
THEOREM ImplementsHandlerThreads == Spec => RefinesHandlerThreads
<1> QED BY InitMaps, NextMaps, InitInv, NextInv, PTL
        DEF Spec, RefinesHandlerThreads, HT!Spec

-----------------------------------------------------------------------------
(* What has been received and not been dealt with. *)

Trace == [received : Seq(Byte), handled : Seq(Byte), cut : BOOLEAN]

BufferTypes ==
  /\ \A c \in Conns : local[c].buffer \in [1 .. BufSize -> Byte]
  /\ trace \in [Conns -> Trace]

(* A part of an array of bytes. *)
LEMMA PartOfArray ==
  ASSUME NEW S, NEW n \in Nat, NEW a \in [1 .. n -> S], NEW i \in Nat \ {0}, NEW j \in 0 .. n
  PROVE  /\ SubSeq(a, i, j) \in Seq(S)
         /\ Len(SubSeq(a, i, j)) = IF i <= j THEN (j - i) + 1 ELSE 0
         /\ \A k \in 1 .. (j - i) + 1 : SubSeq(a, i, j)[k] = a[i + (k - 1)]
<1>1. \A k \in i .. j : a[k] \in S
  OBVIOUS
<1>2. i \in Int /\ j \in Int
  OBVIOUS
<1>3. /\ SubSeq(a, i, j) \in Seq(S)
      /\ Len(SubSeq(a, i, j)) = IF i <= j THEN j - i + 1 ELSE 0
      /\ \A k \in 1 .. j - i + 1 : SubSeq(a, i, j)[k] = a[i + k - 1]
  BY <1>1, <1>2, SubSeqProperties
<1>4. \A k \in 1 .. (j - i) + 1 : i + k - 1 = i + (k - 1)
  BY <1>2
<1> QED BY <1>3, <1>4

(* Sequences are joined in either order. *)
Associates(x, y, z) == (x \o y) \o z = x \o (y \o z)

LEMMA JoinsAssociate ==
  ASSUME NEW S, NEW x \in Seq(S), NEW y \in Seq(S), NEW z \in Seq(S)
  PROVE  Associates(x, y, z)
  BY ConcatAssociative DEF Associates

(* Two adjacent parts of an array. *)
LEMMA AdjacentParts ==
  ASSUME NEW S, NEW n \in Nat, NEW a \in [1 .. n -> S],
         NEW i \in Nat \ {0}, NEW j \in 0 .. n, NEW m \in 1 .. (j - i) + 1
  PROVE  SubSeq(a, i, j) = SubSeq(a, i, i + m - 1) \o SubSeq(a, i + m, j)
<1> DEFINE x == SubSeq(a, i, i + m - 1)
           y == SubSeq(a, i + m, j)
           w == SubSeq(a, i, j)
<1>0. i + m - 1 \in 0 .. n /\ i + m \in Nat \ {0} /\ i <= j
  OBVIOUS
<1>1. x \in Seq(S) /\ Len(x) = m /\ \A k \in 1 .. m : x[k] = a[i + (k - 1)]
  <2>1. ((i + m - 1) - i) + 1 = m /\ i <= i + m - 1
    BY <1>0
  <2> QED BY <1>0, <2>1, PartOfArray
<1>2. /\ y \in Seq(S) /\ Len(y) = (j - (i + m)) + 1
      /\ \A k \in 1 .. (j - (i + m)) + 1 : y[k] = a[(i + m) + (k - 1)]
  BY <1>0, PartOfArray
<1>3. /\ w \in Seq(S) /\ Len(w) = (j - i) + 1
      /\ \A k \in 1 .. (j - i) + 1 : w[k] = a[i + (k - 1)]
  BY <1>0, PartOfArray
<1> HIDE DEF x, y, w
<1>4. /\ x \o y \in Seq(S) /\ Len(x \o y) = Len(x) + Len(y)
      /\ \A k \in 1 .. Len(x) : (x \o y)[k] = x[k]
      /\ \A k \in 1 .. Len(y) : (x \o y)[Len(x) + k] = y[k]
  <2>1. x \in Seq(S) /\ y \in Seq(S)
    BY <1>1, <1>2
  <2> QED BY <2>1, ConcatElements
<1>5. Len(x \o y) = Len(w)
  BY <1>0, <1>1, <1>2, <1>3, <1>4
<1>6. ASSUME NEW k \in 1 .. Len(w) PROVE w[k] = (x \o y)[k]
  <2>1. k \in 1 .. (j - i) + 1 /\ w[k] = a[i + (k - 1)]
    BY <1>3
  <2>2. CASE k <= m
    <3>1. k \in 1 .. m /\ k \in 1 .. Len(x)
      BY <1>1, <2>1, <2>2
    <3> QED BY <3>1, <1>1, <1>4, <2>1, <2>2
  <2>3. CASE k > m
    <3>1. k - m \in 1 .. (j - (i + m)) + 1 /\ m + (k - m) = k
          /\ (i + m) + ((k - m) - 1) = i + (k - 1)
      BY <2>1, <2>3
    <3>2. y[k - m] = a[i + (k - 1)]
      BY <1>2, <3>1
    <3>3. k - m \in 1 .. Len(y)
      BY <1>2, <3>1
    <3>4. (x \o y)[m + (k - m)] = y[k - m]
      BY <1>1, <1>4, <3>3
    <3> QED BY <2>1, <3>1, <3>2, <3>4
  <2>4. k <= m \/ k > m
    OBVIOUS
  <2> QED BY <2>2, <2>3, <2>4, Zenon
<1>7. w = x \o y
  BY <1>3, <1>4, <1>5, <1>6, SeqEqual
<1> QED BY <1>7 DEF x, y, w

LEMMA BufferTypesHold ==
  ASSUME HandlerInv, BufferTypes, [Next]_vars
  PROVE  BufferTypes'
<1> USE DEF BufferTypes
<1> HIDE DEF Byte
<1>1. CASE sigHandler \/ \E c \in Conns : ClientSend(c) \/ ClientClose(c)
  BY <1>1 DEF sigHandler, ClientSend, ClientClose
<1>2. ASSUME NEW c \in Conns, Recv(c) PROVE BufferTypes'
  <2> DEFINE l == local[c]
  <2>2. DOMAIN l = Fields
    BY DEF HandlerInv, LengthsFit
  <2>3. PICK n \in Nat, ok \in BOOLEAN : Receives(c, n, ok)
    BY <1>2, RecvValue
  <2>4. inbox[c] \in Seq(Byte) /\ n \in 1 .. Len(inbox[c])
    BY <2>3 DEF Receives, HandlerInv, HandlerTypes
  <2>5. /\ \A i \in 1 .. n : inbox[c][i] \in Byte
        /\ SubSeq(inbox[c], 1, n) \in Seq(Byte)
    BY <2>4
  <2>6. local'[c].buffer = [i \in 1 .. BufSize |-> IF i <= n THEN inbox[c][i] ELSE l.buffer[i]]
        /\ \A d \in Conns \ {c} : local'[d] = local[d]
    BY <2>2, <2>3 DEF Receives, HandlerInv, HandlerTypes, Fields
  <2>7. local'[c].buffer \in [1 .. BufSize -> Byte]
    <3>1. \A i \in 1 .. BufSize : i <= n => inbox[c][i] \in Byte
      BY <2>5
    <3> QED BY <2>6, <3>1
  <2>8. trace' \in [Conns -> Trace]
    <3>1. trace[c].received \o SubSeq(inbox[c], 1, n) \in Seq(Byte)
      BY <2>5, ConcatProperties DEF Trace
    <3> QED BY <2>3, <3>1 DEF Receives, Trace
  <2> QED BY <2>6, <2>7, <2>8
<1>3. ASSUME NEW c \in Conns, ProcessSeek(c) \/ ProcessWrite(c) PROVE BufferTypes'
  <2>1. trace' = [trace EXCEPT ![c].handled = @ \o Segment(c)] /\ local' = local
        /\ pc[c] = "line"
    BY <1>3 DEF ProcessSeek, ProcessWrite, Handled, Goto
  <2>2. Segment(c) \in Seq(Byte)
    <3> DEFINE l == local[c]
    <3>1. l.start \in Nat \ {0} /\ l.start + l.segmentLen - 1 \in 0 .. BufSize
      BY <2>1, LineInside DEF HandlerInv
    <3>2. local[c].buffer \in [1 .. BufSize -> Byte] /\ BufSize \in Nat
      BY HandlerAssumption
    <3> QED BY <3>1, <3>2, PartOfArray, HandlerAssumption DEF Segment
  <2>3. trace[c].handled \o Segment(c) \in Seq(Byte)
    BY <2>2, ConcatProperties DEF Trace
  <2> QED BY <2>1, <2>3 DEF Trace
<1>4. ASSUME NEW c \in Conns, CloseFile(c) PROVE BufferTypes'
  <2>1. PICK r : /\ local' = [local EXCEPT ![c] =
                       [local[c] EXCEPT !.residualSize = r, !.fileOpen = FALSE]]
                 /\ trace' = [trace EXCEPT ![c].cut = @ \/ r # 0]
    BY <1>4 DEF CloseFile
  <2>2. local'[c].buffer = local[c].buffer /\ \A d \in Conns \ {c} : local'[d] = local[d]
    BY <2>1 DEF HandlerInv, HandlerTypes, LengthsFit, Fields
  <2> QED BY <2>1, <2>2 DEF Trace
<1>5. ASSUME NEW c \in Conns, RecvTimeout(c) \/ NextLine(c) \/ Reply(c) \/ ReplyDone(c)
      PROVE  BufferTypes'
  <2>1. DOMAIN local[c] = Fields /\ DOMAIN local = Conns
    BY DEF HandlerInv, HandlerTypes, LengthsFit
  <2>2. local'[c].buffer = local[c].buffer /\ \A d \in Conns \ {c} : local'[d] = local[d]
    <3>1. CASE RecvTimeout(c)
      BY <2>1, <3>1 DEF RecvTimeout, Fields
    <3>2. CASE NextLine(c)
      BY <2>1, <3>2 DEF NextLine, Fields
    <3>3. CASE Reply(c)
      BY <2>1, <3>3 DEF Reply, Fields
    <3>4. CASE ReplyDone(c)
      BY ONLY <2>1, <3>4 DEF ReplyDone, Fields
    <3> QED BY <1>5, <3>1, <3>2, <3>3, <3>4
  <2>3. trace' = trace
    BY <1>5 DEF RecvTimeout, NextLine, Reply, ReplyDone
  <2> QED BY <2>2, <2>3
<1>6. ASSUME NEW c \in Conns,
             \/ Start(c) \/ StartFails(c) \/ RecvEnds(c) \/ StringRunsOn(c) \/ ProcessWriteFails(c)
             \/ ReplyKills(c) \/ CloseConnectionFD(c) \/ SendFails(c) \/ SendReturns(c)
      PROVE  BufferTypes'
  BY <1>6 DEF Start, StartFails, RecvEnds, StringRunsOn, ProcessWriteFails, ReplyKills,
              CloseConnectionFD, SendFails, SendReturns, Exit
<1>7. CASE UNCHANGED vars
  BY <1>7 DEF vars
<1> QED BY <1>1, <1>2, <1>3, <1>4, <1>5, <1>6, <1>7 DEF Next, HandlerStep

(* The part of the buffer that is still to be dealt with, with the handler *)
(* at a place and its locals l.                                            *)
Pending(place, l) ==
  CASE place \in {"scan", "line"} -> SubSeq(l.buffer, l.start, l.bufferLen)
    [] place \in {"reply", "blocked"} -> SubSeq(l.buffer, l.start + l.segmentLen, l.bufferLen)
    [] OTHER -> <<>>

(* Unless a recv has ended in the middle of a line there is no residue,    *)
(* and what has been received is what was dealt with and what is pending.  *)
Accounted(place, l, tr) ==
  place # "done" /\ ~tr.cut =>
    /\ l.residualSize = 0
    /\ tr.received = tr.handled \o Pending(place, l)

AllAccounted == \A c \in Conns : Accounted(pc[c], local[c], trace[c])

(* A step of handler c leaves the others' accounts alone.                  *)
LEMMA AccountStep ==
  ASSUME AllAccounted, NEW c \in Conns,
         \A d \in Conns \ {c} : /\ pc'[d] = pc[d] /\ local'[d] = local[d]
                                /\ trace'[d] = trace[d],
         Accounted(pc'[c], local'[c], trace'[c])
  PROVE  AllAccounted'
<1> SUFFICES ASSUME NEW d \in Conns PROVE Accounted(pc'[d], local'[d], trace'[d])
  BY DEF AllAccounted
<1>1. CASE d = c
  BY <1>1
<1>2. CASE d # c
  BY <1>2 DEF AllAccounted
<1> QED BY <1>1, <1>2

LEMMA RecvAccounted ==
  ASSUME HandlerInv, BufferTypes, AllAccounted, NEW c \in Conns, Recv(c)
  PROVE  AllAccounted'
<1> DEFINE l == local[c]
           tr == trace[c]
<1>1. PICK n \in Nat, ok \in BOOLEAN : Receives(c, n, ok)
  BY RecvValue
<1>2. pc[c] = "recv" /\ pc' = [pc EXCEPT ![c] = "scan"]
  BY DEF Recv, Goto
<1>3. /\ n \in 1 .. Len(inbox[c]) /\ n \in 1 .. BufSize - l.residualSize
      /\ inbox[c] \in Seq(Byte)
      /\ trace' = [trace EXCEPT ![c].received = @ \o SubSeq(inbox[c], 1, n)]
  BY <1>1 DEF Receives, HandlerInv, HandlerTypes
<1>4. /\ local'[c].buffer = [i \in 1 .. BufSize |-> IF i <= n THEN inbox[c][i] ELSE l.buffer[i]]
      /\ local'[c].bufferLen = n + l.residualSize
      /\ local'[c].residualSize = l.residualSize
      /\ local'[c].start = 1
      /\ \A d \in Conns \ {c} : local'[d] = local[d]
  BY <1>1 DEF Receives, HandlerInv, HandlerTypes, LengthsFit, Fields
<1>5. /\ pc'[c] = "scan" /\ \A d \in Conns \ {c} : pc'[d] = pc[d]
      /\ \A d \in Conns \ {c} : trace'[d] = trace[d]
      /\ trace'[c].cut = tr.cut /\ trace'[c].handled = tr.handled
      /\ trace'[c].received = tr.received \o SubSeq(inbox[c], 1, n)
      /\ tr.handled \in Seq(Byte)
  BY <1>2, <1>3 DEF HandlerInv, HandlerTypes, BufferTypes, Trace
<1>6. ASSUME ~tr.cut
      PROVE  /\ l.residualSize = 0
             /\ trace'[c].received = tr.handled \o SubSeq(local'[c].buffer, 1, n)
  <2>1. l.residualSize = 0 /\ tr.received = tr.handled \o <<>>
    BY <1>2, <1>6 DEF AllAccounted, Accounted, Pending
  <2>2. tr.received = tr.handled
    BY <1>5, <2>1, ConcatEmptySeq
  <2>3. SubSeq(local'[c].buffer, 1, n) = SubSeq(inbox[c], 1, n)
    <3> DEFINE a == local'[c].buffer
               x == inbox[c]
    <3>1. \A i \in 1 .. n : i \in 1 .. BufSize /\ x[i] \in Byte
      BY <1>3, <2>1, HandlerAssumption
    <3>2. \A i \in 1 .. n : a[i] = x[i] /\ a[i] \in Byte
      BY <1>4, <3>1
    <3> HIDE DEF a, x
    <3>3. /\ SubSeq(a, 1, n) \in Seq(Byte) /\ Len(SubSeq(a, 1, n)) = n
          /\ \A i \in 1 .. n : SubSeq(a, 1, n)[i] = a[i]
      <4>1. 1 \in Int /\ n \in Int /\ n - 1 + 1 = n /\ \A i \in 1 .. n : 1 + i - 1 = i
        BY <1>3
      <4> QED BY <1>3, <3>2, <4>1, SubSeqProperties
    <3>4. /\ SubSeq(x, 1, n) \in Seq(Byte) /\ Len(SubSeq(x, 1, n)) = n
          /\ \A i \in 1 .. n : SubSeq(x, 1, n)[i] = x[i]
      <4>1. 1 \in Int /\ n \in Int /\ n - 1 + 1 = n /\ \A i \in 1 .. n : 1 + i - 1 = i
        BY <1>3
      <4> QED BY <1>3, <3>1, <4>1, SubSeqProperties
    <3>5. SubSeq(a, 1, n) = SubSeq(x, 1, n)
      BY <3>2, <3>3, <3>4, SeqEqual
    <3> QED BY <3>5 DEF a, x
  <2> QED BY <1>5, <2>1, <2>2, <2>3
<1> HIDE DEF l, tr
<1>7. Accounted(pc'[c], local'[c], trace'[c])
  <2> SUFFICES ASSUME ~trace'[c].cut
               PROVE  /\ local'[c].residualSize = 0
                      /\ trace'[c].received =
                           trace'[c].handled \o SubSeq(local'[c].buffer, 1, local'[c].bufferLen)
    BY <1>4, <1>5 DEF Accounted, Pending
  <2>1. ~tr.cut
    BY <1>5
  <2>2. n + l.residualSize = n
    <3>1. l.residualSize = 0
      BY <1>6, <2>1
    <3> QED BY <1>1, <3>1
  <2> QED BY <1>4, <1>5, <1>6, <2>1, <2>2
<1> QED BY <1>4, <1>5, <1>7, AccountStep

(* The line moves from what is pending to what has been handled.           *)
LEMMA LineAccounted ==
  ASSUME HandlerInv, BufferTypes, AllAccounted, NEW c \in Conns,
         ProcessSeek(c) \/ ProcessWrite(c)
  PROVE  AllAccounted'
<1> DEFINE l == local[c]
           tr == trace[c]
           seg == Segment(c)
           rest == SubSeq(l.buffer, l.start + l.segmentLen, l.bufferLen)
<1>1. /\ pc[c] = "line" /\ pc' = [pc EXCEPT ![c] = "reply"]
      /\ local' = local
      /\ trace' = [trace EXCEPT ![c].handled = @ \o seg]
  BY DEF ProcessSeek, ProcessWrite, Handled, Goto
<1>2. /\ pc'[c] = "reply" /\ \A d \in Conns \ {c} : pc'[d] = pc[d]
      /\ \A d \in Conns \ {c} : trace'[d] = trace[d]
      /\ trace'[c].cut = tr.cut /\ trace'[c].received = tr.received
      /\ trace'[c].handled = tr.handled \o seg
      /\ tr.handled \in Seq(Byte)
  BY <1>1 DEF HandlerInv, HandlerTypes, BufferTypes, Trace
<1>3. /\ l.buffer \in [1 .. BufSize -> Byte] /\ BufSize \in Nat
      /\ l.start \in Nat \ {0} /\ l.bufferLen \in 0 .. BufSize
      /\ l.segmentLen \in 1 .. (l.bufferLen - l.start) + 1
  BY <1>1, HandlerAssumption DEF BufferTypes, HandlerInv, LengthsFit
<1>4. SubSeq(l.buffer, l.start, l.bufferLen) = seg \o rest
  <2> DEFINE S == Byte
             n == BufSize
             a == l.buffer
             i == l.start
             j == l.bufferLen
             m == l.segmentLen
  <2>1. n \in Nat /\ a \in [1 .. n -> S] /\ i \in Nat \ {0} /\ j \in 0 .. n
        /\ m \in 1 .. (j - i) + 1
    BY <1>3
  <2>2. seg = SubSeq(a, i, i + m - 1) /\ rest = SubSeq(a, i + m, j)
    BY DEF Segment
  <2> HIDE DEF S, n, a, i, j, m, seg, rest
  <2>3. SubSeq(a, i, j) = SubSeq(a, i, i + m - 1) \o SubSeq(a, i + m, j)
    BY <2>1, AdjacentParts
  <2> QED BY <2>2, <2>3 DEF a, i, j
<1>5. seg \in Seq(Byte) /\ rest \in Seq(Byte)
  <2>1. /\ l.start + l.segmentLen - 1 \in 0 .. BufSize
        /\ l.start + l.segmentLen \in Nat \ {0}
    BY <1>1, LineInside DEF HandlerInv
  <2> QED BY <1>3, <2>1, PartOfArray DEF Segment
<1>6. ASSUME ~tr.cut
      PROVE  /\ l.residualSize = 0
             /\ tr.received = (tr.handled \o seg) \o rest
  <2>1. /\ l.residualSize = 0
        /\ tr.received = tr.handled \o SubSeq(l.buffer, l.start, l.bufferLen)
    BY <1>1, <1>6 DEF AllAccounted, Accounted, Pending
  <2> HIDE DEF l, tr, seg, rest
  <2>2. PICK h \in Seq(Byte), x \in Seq(Byte), y \in Seq(Byte) :
             h = tr.handled /\ x = seg /\ y = rest
    BY <1>2, <1>5
  <2>3. Associates(h, x, y)
    BY JoinsAssociate
  <2> QED BY <1>4, <2>1, <2>2, <2>3 DEF l, seg, rest, Associates
<1>7. Accounted(pc'[c], local'[c], trace'[c])
  <2>1. local'[c] = l /\ Pending("reply", l) = rest
    BY <1>1 DEF Pending
  <2> QED BY <1>2, <1>6, <2>1 DEF Accounted
<1> QED BY <1>1, <1>2, <1>7, AccountStep

(* The line that has been replied to is no longer pending; it never was in *)
(* what is left behind it.                                                 *)
LEMMA RoundAccounted ==
  ASSUME HandlerInv, BufferTypes, AllAccounted, NEW c \in Conns,
         \/ RecvTimeout(c) \/ NextLine(c) \/ Reply(c) \/ ReplyDone(c)
         \/ SendFails(c) \/ SendReturns(c)
  PROVE  AllAccounted'
<1>0. DOMAIN local[c] = Fields /\ DOMAIN local = Conns /\ pc \in [Conns -> PCs]
  BY DEF HandlerInv, HandlerTypes, LengthsFit
<1>1. /\ Pending(pc'[c], local'[c]) = Pending(pc[c], local[c])
      /\ local'[c].residualSize = local[c].residualSize
      /\ pc[c] # "done"
      /\ \A d \in Conns \ {c} : pc'[d] = pc[d] /\ local'[d] = local[d]
      /\ trace' = trace
  <2>1. CASE RecvTimeout(c)
    BY <1>0, <2>1 DEF RecvTimeout, Goto, Pending, Fields
  <2>2. CASE NextLine(c)
    BY <1>0, <2>2 DEF NextLine, Goto, Pending, Fields
  <2>3. CASE Reply(c)
    BY <1>0, <2>3 DEF Reply, Goto, Pending, Fields
  <2>4. CASE ReplyDone(c)
    BY <1>0, <2>4 DEF ReplyDone, Goto, Pending, Fields
  <2>5. CASE SendFails(c) \/ SendReturns(c)
    BY <1>0, <2>5 DEF SendFails, SendReturns, Goto, Pending
  <2> QED BY <2>1, <2>2, <2>3, <2>4, <2>5
<1>2. Accounted(pc'[c], local'[c], trace'[c])
  BY <1>1 DEF AllAccounted, Accounted
<1> QED BY <1>1, <1>2, AccountStep

(* Nothing is left when the buffer has been processed, or a residue is,    *)
(* and a line has been cut.                                                *)
LEMMA CloseAccounted ==
  ASSUME HandlerInv, BufferTypes, AllAccounted, NEW c \in Conns, CloseFile(c)
  PROVE  AllAccounted'
<1> DEFINE l == local[c]
           tr == trace[c]
           rest == (l.bufferLen - l.start) + 1
<1>1. /\ pc[c] = "scan" /\ pc' = [pc EXCEPT ![c] = IF l.lastCall THEN "close" ELSE "recv"]
      /\ local' = [local EXCEPT ![c] = [l EXCEPT !.residualSize = rest, !.fileOpen = FALSE]]
      /\ trace' = [trace EXCEPT ![c].cut = @ \/ rest # 0]
  BY DEF CloseFile, Goto
<1>2. /\ pc'[c] \in {"close", "recv"} /\ \A d \in Conns \ {c} : pc'[d] = pc[d]
      /\ \A d \in Conns \ {c} : local'[d] = local[d] /\ trace'[d] = trace[d]
      /\ local'[c].residualSize = rest
      /\ trace'[c].handled = tr.handled /\ trace'[c].received = tr.received
      /\ ~trace'[c].cut => ~tr.cut /\ rest = 0
  BY <1>1 DEF HandlerInv, HandlerTypes, BufferTypes, Trace, LengthsFit, Fields
<1>3. ASSUME ~tr.cut, rest = 0 PROVE tr.received = tr.handled \o <<>>
  <2>1. tr.received = tr.handled \o SubSeq(l.buffer, l.start, l.bufferLen)
    BY <1>1, <1>3 DEF AllAccounted, Accounted, Pending
  <2>2. l.start \in Int /\ l.bufferLen \in Int /\ l.bufferLen < l.start
    BY <1>3, HandlerAssumption DEF HandlerInv, LengthsFit
  <2> QED BY <2>1, <2>2, SubSeqEmpty
<1>4. Pending(pc'[c], local'[c]) = <<>>
  BY <1>2 DEF Pending
<1> HIDE DEF rest, l, tr
<1>5. Accounted(pc'[c], local'[c], trace'[c])
  BY <1>2, <1>3, <1>4 DEF Accounted
<1> QED BY <1>2, <1>5, AccountStep

(* Between two buffers nothing is pending.                                 *)
LEMMA RestAccounted ==
  ASSUME HandlerInv, AllAccounted, NEW c \in Conns,
         \/ Start(c) \/ StartFails(c) \/ RecvEnds(c) \/ StringRunsOn(c) \/ ProcessWriteFails(c)
         \/ ReplyKills(c) \/ CloseConnectionFD(c)
  PROVE  AllAccounted'
<1>1. /\ local' = local /\ trace' = trace
      /\ \A d \in Conns \ {c} : pc'[d] = pc[d]
      /\ pc'[c] = "done" \/ (pc[c] \in {"start", "recv"} /\ pc'[c] \in {"recv", "close"})
  BY DEF Start, StartFails, RecvEnds, StringRunsOn, ProcessWriteFails, ReplyKills,
         CloseConnectionFD, Exit, Goto, HandlerInv, HandlerTypes
<1>2. Accounted(pc'[c], local'[c], trace'[c])
  BY <1>1 DEF AllAccounted, Accounted, Pending
<1> QED BY <1>1, <1>2, AccountStep

LEMMA NextAccounted ==
  ASSUME HandlerInv, BufferTypes, AllAccounted, [Next]_vars
  PROVE  AllAccounted'
<1>1. CASE sigHandler \/ \E c \in Conns : ClientSend(c) \/ ClientClose(c)
  <2>1. UNCHANGED <<pc, local, trace>>
    BY <1>1 DEF sigHandler, ClientSend, ClientClose
  <2> QED BY <2>1 DEF AllAccounted
<1>2. CASE UNCHANGED vars
  BY <1>2 DEF vars, AllAccounted
<1>3. ASSUME NEW c \in Conns, HandlerStep(c) \/ SendReturns(c) PROVE AllAccounted'
  BY <1>3, RecvAccounted, LineAccounted, RoundAccounted, CloseAccounted, RestAccounted
  DEF HandlerStep
<1> QED BY <1>1, <1>2, <1>3 DEF Next

LEMMA InitBuffers == Init => BufferTypes /\ AllAccounted
<1> SUFFICES ASSUME Init PROVE BufferTypes /\ AllAccounted
  OBVIOUS
<1>1. <<>> \in Seq(Byte) /\ <<>> \o <<>> = <<>>
  BY ConcatEmptySeq
<1>2. ASSUME NEW c \in Conns
      PROVE  /\ local[c].buffer \in [1 .. BufSize -> Byte]
             /\ local[c].residualSize = 0
             /\ trace[c] = [received |-> <<>>, handled |-> <<>>, cut |-> FALSE]
             /\ pc[c] = "start"
  BY HandlerAssumption DEF Init, Locals
<1>3. BufferTypes
  BY <1>1, <1>2 DEF Init, BufferTypes, Trace
<1>4. AllAccounted
  <2> SUFFICES ASSUME NEW c \in Conns PROVE Accounted(pc[c], local[c], trace[c])
    BY DEF AllAccounted
  <2>1. /\ pc[c] = "start" /\ local[c].residualSize = 0
        /\ trace[c].received = <<>> /\ trace[c].handled = <<>>
    BY <1>2
  <2>2. Pending(pc[c], local[c]) = <<>>
    BY <2>1 DEF Pending
  <2> QED BY <1>1, <2>1, <2>2 DEF Accounted
<1> QED BY <1>3, <1>4

(* Whatever arrives in whatever pieces, as long as no recv has ended in    *)
(* the middle of a line ProcessBuffer deals with every line that was       *)
(* received, once and in order, before it receives more or ends.           *)
THEOREM LinesHandled == Spec => []WholeLinesHandled
<1>1. HandlerInv /\ BufferTypes /\ AllAccounted /\ [Next]_vars
        => BufferTypes' /\ AllAccounted'
  BY BufferTypesHold, NextAccounted
<1>2. BufferTypes /\ AllAccounted => WholeLinesHandled
  <2> SUFFICES ASSUME BufferTypes, AllAccounted, NEW c \in Conns,
                      pc[c] \in {"recv", "close"}, ~trace[c].cut
               PROVE  trace[c].handled = trace[c].received
    BY DEF WholeLinesHandled
  <2>1. trace[c].received = trace[c].handled \o <<>>
    BY DEF AllAccounted, Accounted, Pending
  <2>2. trace[c].handled \in Seq(Byte)
    BY DEF BufferTypes, Trace
  <2> QED BY <2>1, <2>2, ConcatEmptySeq
<1> QED BY <1>1, <1>2, InitInv, InitBuffers, NextInv, PTL DEF Spec

-----------------------------------------------------------------------------
(* The types of the rest: what the ring holds, and what a lookup finds.    *)

LineEntries == {e \in [buffptr : Seq(Byte), size : Nat] : e.size = Len(e.buffptr)}

RingTypes ==
  /\ buff \in BufferType(LineEntries) /\ IndexInv(buff)
  /\ Contents(buff) \in Seq(LineEntries)

ReplyTypes ==
  \A c \in Conns : local[c].f_pos \in Nat /\ local[c].offered \in Seq(Byte)

FlagTypes ==
  /\ lseekPos \in Nat
  /\ fileMutex \in Conns \cup {NoConn}
  /\ closeRequested \in BOOLEAN /\ hung \subseteq Conns
  /\ peerOpen \in [Conns -> BOOLEAN]

LEMMA RingShape ==
  ASSUME RingTypes
  PROVE  numEntries(buff) \in Nat /\ buff.full \in BOOLEAN /\ buff.out_offs \in Slots
<1>1. Capacity \in Nat
  BY CapacityAssumption DEF Capacity
<1>2. buff.in_offs \in Slots /\ buff.full \in BOOLEAN /\ buff.out_offs \in Slots
  BY DEF RingTypes, BufferType
<1> QED BY <1>1, <1>2 DEF numEntries, Slots

(* z has the sizes of the listed entries, t adds them up. *)
RingSums(z, t) ==
  /\ z = [k \in Nat |-> get_entry_at_virtual_offset(buff, k).size]
  /\ z \in [Nat -> Nat]
  /\ Totals(t, z)
  /\ \A n : SizeOfFirst(buff, n) = t[n]

LEMMA RingSumsExist ==
  ASSUME RingTypes
  PROVE  \E z, t : RingSums(z, t)
<1> DEFINE z == [k \in Nat |-> get_entry_at_virtual_offset(buff, k).size]
<1>1. \A e \in LineEntries : e.size \in Nat
  BY DEF LineEntries
<1>2. z \in [Nat -> Nat] /\ \E t : Totals(t, z) /\ \A n : SizeOfFirst(buff, n) = t[n]
  BY <1>1, SizeTotals DEF RingTypes
<1> QED BY <1>2 DEF RingSums

(* What the next read finds is the rest of a line. *)
LEMMA NextReadValue ==
  ASSUME RingTypes, NEW c \in Conns, local[c].f_pos + lseekPos \in Nat,
         NEW z, NEW t, RingSums(z, t)
  PROVE  LET o == local[c].f_pos + lseekPos
         IN  /\ o >= t[numEntries(buff)] => NextRead(c) = NULL
             /\ o < t[numEntries(buff)] =>
                  \E k \in 0 .. numEntries(buff) - 1 :
                    /\ t[k] <= o /\ o < t[k + 1]
                    /\ NextRead(c) = [slot |-> VirtualIndex(buff, k), offset |-> o - t[k]]
                    /\ buff.entry[VirtualIndex(buff, k)].buffptr \in Seq(Byte)
                    /\ Len(buff.entry[VirtualIndex(buff, k)].buffptr) = t[k + 1] - t[k]
<1> DEFINE o == local[c].f_pos + lseekPos
           N == numEntries(buff)
<1>1. \A e \in LineEntries : e.size \in Nat
  BY DEF LineEntries
<1>2. o >= t[N] => NextRead(c) = NULL
  BY <1>1, LookupValue DEF RingTypes, RingSums, NextRead
<1>3. ASSUME o < t[N]
      PROVE  \E k \in 0 .. N - 1 :
               /\ t[k] <= o /\ o < t[k + 1]
               /\ NextRead(c) = [slot |-> VirtualIndex(buff, k), offset |-> o - t[k]]
  BY <1>1, <1>3, LookupValue DEF RingTypes, RingSums, NextRead
<1>4. ASSUME NEW k \in Nat, t[k] # t[k + 1]
      PROVE  /\ buff.entry[VirtualIndex(buff, k)].buffptr \in Seq(Byte)
             /\ Len(buff.entry[VirtualIndex(buff, k)].buffptr) = t[k + 1] - t[k]
  <2> DEFINE e == buff.entry[VirtualIndex(buff, k)]
  <2>1. VirtualIndex(buff, k) \in Slots
    BY VirtualIndexInSlots DEF RingTypes, BufferType
  <2>2. e \in LineEntries \cup {EmptyEntry}
    BY <2>1 DEF RingTypes, BufferType
  <2>3. /\ z[k] = e.size /\ t[k + 1] = t[k] + z[k] /\ t[k] \in Nat
    BY DEF RingSums, Totals, get_entry_at_virtual_offset
  <2>4. e.size # 0
    <3>1. e.size \in Nat
      BY <2>2 DEF LineEntries, EmptyEntry
    <3> QED BY <1>4, <2>3, <3>1
  <2>5. e \in LineEntries
    BY <2>2, <2>4 DEF EmptyEntry
  <2>6. e.buffptr \in Seq(Byte) /\ e.size = Len(e.buffptr) /\ e.size \in Nat
    BY <2>5 DEF LineEntries
  <2> QED BY <2>3, <2>6
<1>5. N \in Nat
  BY RingShape
<1>6. ASSUME o < t[N]
      PROVE  \E k \in 0 .. N - 1 :
               /\ t[k] <= o /\ o < t[k + 1]
               /\ NextRead(c) = [slot |-> VirtualIndex(buff, k), offset |-> o - t[k]]
               /\ buff.entry[VirtualIndex(buff, k)].buffptr \in Seq(Byte)
               /\ Len(buff.entry[VirtualIndex(buff, k)].buffptr) = t[k + 1] - t[k]
  <2>1. PICK k \in 0 .. N - 1 :
               /\ t[k] <= o /\ o < t[k + 1]
               /\ NextRead(c) = [slot |-> VirtualIndex(buff, k), offset |-> o - t[k]]
    BY <1>3, <1>6
  <2>2. k \in Nat /\ t[k] \in Nat /\ t[k + 1] \in Nat
    <3>1. k \in Nat
      BY <1>5
    <3> QED BY <3>1 DEF RingSums, Totals
  <2>3. t[k] # t[k + 1]
    BY <2>1, <2>2
  <2> QED BY <1>4, <2>1, <2>2, <2>3
<1> QED BY <1>2, <1>6

(* The line a handler deals with is a part of its buffer.                  *)
LEMMA SegmentValue ==
  ASSUME HandlerInv, BufferTypes, NEW c \in Conns, pc[c] \in {"line", "reply", "blocked"}
  PROVE  /\ Segment(c) \in Seq(Byte)
         /\ Len(Segment(c)) = local[c].segmentLen
         /\ local[c].segmentLen \in Nat \ {0}
<1> DEFINE l == local[c]
<1>0. /\ l.bufferLen \in 0 .. BufSize /\ l.start \in 1 .. l.bufferLen + 1
      /\ l.segmentLen \in 1 .. (l.bufferLen - l.start) + 1
  BY DEF HandlerInv, LengthsFit
<1>1. /\ l.start \in Nat \ {0} /\ l.start + l.segmentLen - 1 \in 0 .. BufSize
      /\ l.segmentLen \in Nat \ {0}
      /\ ((l.start + l.segmentLen - 1) - l.start) + 1 = l.segmentLen
      /\ l.start <= l.start + l.segmentLen - 1
  <2>1. PICK size \in Nat, n \in Nat, i \in Nat, m \in Nat :
             size = BufSize /\ n = l.bufferLen /\ i = l.start /\ m = l.segmentLen
    <3>1. BufSize \in Nat
      BY HandlerAssumption
    <3> QED BY <1>0, <3>1
  <2>2. n <= size /\ 1 <= i /\ i <= n + 1 /\ 1 <= m /\ m <= (n - i) + 1
    BY <1>0, <2>1
  <2> HIDE DEF l
  <2>3. /\ i \in Nat \ {0} /\ i + m - 1 \in 0 .. size /\ m \in Nat \ {0}
        /\ ((i + m - 1) - i) + 1 = m /\ i <= i + m - 1
    BY <2>2
  <2> QED BY <2>1, <2>3
<1>2. l.buffer \in [1 .. BufSize -> Byte] /\ BufSize \in Nat
  BY HandlerAssumption DEF BufferTypes
<1>3. /\ Segment(c) \in Seq(Byte)
      /\ Len(Segment(c)) = ((l.start + l.segmentLen - 1) - l.start) + 1
  BY <1>1, <1>2, PartOfArray DEF Segment
<1> QED BY <1>1, <1>3

(* The end of a sequence. *)
LEMMA RestOfSeq ==
  ASSUME NEW S, NEW x \in Seq(S), NEW p \in Nat, p < Len(x)
  PROVE  /\ SubSeq(x, p + 1, Len(x)) \in Seq(S)
         /\ Len(SubSeq(x, p + 1, Len(x))) = Len(x) - p
         /\ \A j \in 1 .. Len(x) - p : SubSeq(x, p + 1, Len(x))[j] = x[p + j]
<1>1. /\ Len(x) \in Nat /\ p + 1 \in Int /\ Len(x) \in Int
      /\ \A i \in p + 1 .. Len(x) : x[i] \in S
  OBVIOUS
<1>2. /\ SubSeq(x, p + 1, Len(x)) \in Seq(S)
      /\ Len(SubSeq(x, p + 1, Len(x)))
           = IF p + 1 <= Len(x) THEN Len(x) - (p + 1) + 1 ELSE 0
      /\ \A i \in 1 .. Len(x) - (p + 1) + 1 : SubSeq(x, p + 1, Len(x))[i] = x[p + 1 + i - 1]
  BY <1>1, SubSeqProperties
<1>3. /\ p + 1 <= Len(x) /\ Len(x) - (p + 1) + 1 = Len(x) - p
  BY <1>1
<1>4. ASSUME NEW j \in 1 .. Len(x) - p PROVE SubSeq(x, p + 1, Len(x))[j] = x[p + j]
  <2>1. j \in 1 .. Len(x) - (p + 1) + 1 /\ p + 1 + j - 1 = p + j
    BY <1>1, <1>3
  <2> QED BY <1>2, <2>1
<1> QED BY <1>2, <1>3, <1>4

(* The part of an entry that a round of the read loop sends.               *)
ReplyData(c) ==
  LET line == buff.entry[NextRead(c).slot].buffptr
  IN  SubSeq(line, NextRead(c).offset + 1, Len(line))

(* data is the end, from position o on, of a line that lies at a .. b.     *)
RestOfLine(data, line, o, a, b) ==
  /\ data \in Seq(Byte) /\ line \in Seq(Byte)
  /\ o \in Nat /\ a \in Nat /\ b \in Nat
  /\ a <= o /\ o < b
  /\ Len(line) = b - a
  /\ Len(data) = b - o
  /\ \A j \in 1 .. b - o : data[j] = line[(o - a) + j]

(* One round of the read loop.                                             *)
LEMMA ReplyValue ==
  ASSUME RingTypes, ReplyTypes, lseekPos \in Nat,
         NEW c \in Conns, NextRead(c) # NULL,
         NEW z, NEW t, RingSums(z, t)
  PROVE  \E k \in 0 .. numEntries(buff) - 1 :
           RestOfLine(ReplyData(c), buff.entry[VirtualIndex(buff, k)].buffptr,
                      local[c].f_pos + lseekPos, t[k], t[k + 1])
<1> DEFINE o == local[c].f_pos + lseekPos
           N == numEntries(buff)
<1>1. o \in Nat /\ N \in Nat
  BY RingShape DEF ReplyTypes
<1>2. t[N] \in Nat
  BY <1>1 DEF RingSums, Totals
<1>3. PICK k \in 0 .. N - 1 :
               /\ t[k] <= o /\ o < t[k + 1]
               /\ NextRead(c) = [slot |-> VirtualIndex(buff, k), offset |-> o - t[k]]
               /\ buff.entry[VirtualIndex(buff, k)].buffptr \in Seq(Byte)
               /\ Len(buff.entry[VirtualIndex(buff, k)].buffptr) = t[k + 1] - t[k]
  <2>1. ~(o >= t[N])
    BY <1>1, NextReadValue
  <2>2. o < t[N]
    BY <1>1, <1>2, <2>1
  <2> QED BY <1>1, <2>2, NextReadValue
<1> DEFINE line == buff.entry[VirtualIndex(buff, k)].buffptr
           p == o - t[k]
<1>4. t[k] \in Nat /\ t[k + 1] \in Nat /\ k \in Nat
  BY <1>1 DEF RingSums, Totals
<1>5. ReplyData(c) = SubSeq(line, p + 1, Len(line))
  <2>1. NextRead(c).slot = VirtualIndex(buff, k) /\ NextRead(c).offset = p
    BY <1>3
  <2> QED BY <2>1 DEF ReplyData
<1>6. p \in Nat /\ line \in Seq(Byte) /\ Len(line) = t[k + 1] - t[k]
  BY <1>1, <1>3, <1>4
<1> HIDE DEF line, o
<1>7. p < Len(line) /\ Len(line) - p = t[k + 1] - o
  <2>1. t[k] <= o /\ o < t[k + 1] /\ o \in Nat
    BY <1>1, <1>3
  <2> QED BY ONLY <1>4, <1>6, <2>1
<1> HIDE DEF line, p
<1>8. /\ ReplyData(c) \in Seq(Byte)
      /\ Len(ReplyData(c)) = Len(line) - p
      /\ \A j \in 1 .. Len(line) - p : ReplyData(c)[j] = line[p + j]
  BY ONLY <1>5, <1>6, <1>7, RestOfSeq
<1>9. RestOfLine(ReplyData(c), line, o, t[k], t[k + 1])
  BY <1>1, <1>3, <1>4, <1>6, <1>7, <1>8 DEF RestOfLine, line, p
<1> HIDE DEF o, N
<1> QED BY <1>9 DEF o, N, line

DataTypes == RingTypes /\ ReplyTypes /\ FlagTypes

LEMMA InitData == Init => DataTypes
<1> SUFFICES ASSUME Init PROVE DataTypes
  OBVIOUS
<1>1. Capacity \in 1 .. 255
  BY CapacityAssumption DEF Capacity
<1>2. RingTypes
  <2>1. buff \in BufferType(LineEntries) /\ IndexInv(buff) /\ numEntries(buff) = 0
    BY <1>1 DEF Init, BufferType, IndexInv, numEntries, aesd_circular_buffer_init, Slots
  <2>2. Contents(buff) = <<>> /\ <<>> \in Seq(LineEntries)
    BY <2>1 DEF Contents
  <2>3. Contents(buff) \in Seq(LineEntries)
    BY <2>2, Zenon
  <2> QED BY <2>1, <2>3 DEF RingTypes
<1>3. ASSUME NEW c \in Conns PROVE local[c].f_pos = 0 /\ local[c].offered = <<>>
  BY <1>3 DEF Init, Locals
<1>4. FlagTypes
  BY DEF Init, FlagTypes
<1>5. <<>> \in Seq(Byte)
  OBVIOUS
<1> HIDE DEF Byte
<1>6. ASSUME NEW c \in Conns PROVE local[c].f_pos \in Nat /\ local[c].offered \in Seq(Byte)
  <2>1. local[c].f_pos \in Nat
    BY <1>3
  <2>2. local[c].offered \in Seq(Byte)
    BY <1>3, <1>5, Zenon
  <2> QED BY <2>1, <2>2
<1> QED BY <1>2, <1>4, <1>6 DEF DataTypes, ReplyTypes

(* Only ProcessWrite changes the ring: it adds a line. *)
LEMMA WriteData ==
  ASSUME HandlerInv, BufferTypes, RingTypes, NEW c \in Conns, ProcessWrite(c)
  PROVE  LET e == [buffptr |-> Segment(c), size |-> local[c].segmentLen]
         IN  /\ e \in LineEntries
             /\ RingTypes'
             /\ ~buff.full => Contents(buff') = Append(Contents(buff), e)
             /\ buff.full => /\ Contents(buff) # <<>>
                             /\ Contents(buff') = Append(Tail(Contents(buff)), e)
<1> DEFINE e == [buffptr |-> Segment(c), size |-> local[c].segmentLen]
<1>1. pc[c] = "line" /\ buff' = aesd_circular_buffer_add_entry(buff, e)
  BY DEF ProcessWrite, Handled, Goto
<1>2. e \in LineEntries
  BY <1>1, SegmentValue DEF LineEntries
<1> HIDE DEF e
<1>0. buff \in BufferType(LineEntries) /\ IndexInv(buff)
  BY DEF RingTypes
<1>3. /\ buff' \in BufferType(LineEntries) /\ IndexInv(buff')
      /\ ~buff.full => Contents(buff') = Append(Contents(buff), e)
      /\ buff.full => /\ Len(Contents(buff)) = Capacity
                      /\ Contents(buff') = Append(Tail(Contents(buff)), e)
  BY <1>0, <1>1, <1>2, AddEntryContents
<1>4. Contents(buff') \in Seq(LineEntries)
  <2> DEFINE V == LineEntries
             x == Contents(buff)
  <2>1. x \in Seq(V) /\ e \in V
    BY <1>2 DEF RingTypes
  <2> HIDE DEF V, x
  <2>2. Append(x, e) \in Seq(V)
    BY <2>1
  <2>3. CASE ~buff.full
    BY <1>3, <2>2, <2>3 DEF V, x
  <2>4. CASE buff.full
    <3>1. x # <<>>
      BY <1>3, <2>4, CapacityAssumption DEF x, Capacity
    <3>2. Append(Tail(x), e) \in Seq(V)
      BY <2>1, <3>1
    <3> QED BY <1>3, <2>4, <3>2 DEF V, x
  <2> QED BY <2>3, <2>4
<1>5. RingTypes'
  BY <1>3, <1>4 DEF RingTypes
<1>6. buff.full => Contents(buff) # <<>>
  BY <1>3, CapacityAssumption DEF Capacity
<1> QED BY <1>2, <1>3, <1>5, <1>6 DEF e

(* What is read from a buffer is a command, and the line begins like one.  *)
LEMMA FindSeekValue ==
  ASSUME HandlerInv, BufferTypes, NEW c \in Conns, pc[c] = "line"
  PROVE  /\ FindSeek(c) \subseteq Seeks \cup {NULL}
         /\ FindSeek(c) # {NULL} => Segment(c)[1] \in Seeks \cup OpenSeeks
<1> DEFINE l == local[c]
           first == l.buffer[l.start]
           solid == {k \in l.start + 1 .. BufSize : l.buffer[k] # Newline}
<1>1. /\ l.bufferLen \in 0 .. BufSize /\ l.start \in 1 .. l.bufferLen + 1
      /\ l.segmentLen \in 1 .. (l.bufferLen - l.start) + 1
      /\ BufSize \in Nat /\ l.buffer \in [1 .. BufSize -> Byte]
  BY HandlerAssumption DEF HandlerInv, LengthsFit, BufferTypes
<1>2. Segment(c)[1] = first
  <2>1. /\ l.start \in Nat \ {0} /\ l.start + l.segmentLen - 1 \in 0 .. BufSize
    BY LineInside DEF HandlerInv
  <2> DEFINE n == BufSize
             a == l.buffer
             i == l.start
             j == l.start + l.segmentLen - 1
  <2>2. /\ n \in Nat /\ a \in [1 .. n -> Byte] /\ i \in Nat \ {0} /\ j \in 0 .. n
        /\ 1 \in 1 .. (j - i) + 1 /\ i + (1 - 1) = i
    BY <1>1, <2>1
  <2>3. Segment(c) = SubSeq(a, i, j) /\ first = a[i]
    BY DEF Segment
  <2> HIDE DEF n, a, i, j
  <2>4. \A k \in 1 .. (j - i) + 1 : SubSeq(a, i, j)[k] = a[i + (k - 1)]
    BY ONLY <2>2, PartOfArray
  <2> QED BY ONLY <2>2, <2>3, <2>4
<1>3. ASSUME first \in OpenSeeks, solid # {}
      PROVE  Completed[first, l.buffer[Min(solid)]] \in Seeks \cup {NULL}
  <2>1. solid \subseteq Nat
    BY <1>1
  <2>2. Min(solid) \in solid
    BY <1>3, <2>1, MinValue
  <2>3. l.buffer[Min(solid)] \in Byte
    <3>1. solid \subseteq 1 .. BufSize
      BY <1>1
    <3> HIDE DEF solid, Byte
    <3> QED BY <1>1, <2>2, <3>1
  <2> DEFINE b == l.buffer[Min(solid)]
  <2>4. \A p \in OpenSeeks \X Byte : Completed[p] \in Seeks \cup {NULL}
    BY HandlerAssumption, Zenon
  <2>5. <<first, b>> \in OpenSeeks \X Byte
    BY <1>3, <2>3
  <2> HIDE DEF first, b, Byte
  <2>6. PICK p : p = <<first, b>>
    OBVIOUS
  <2>7. Completed[p] \in Seeks \cup {NULL}
    BY ONLY <2>4, <2>5, <2>6
  <2> QED BY <2>6, <2>7, Zenon DEF b
<1> HIDE DEF first, solid
<1>4. /\ first \in Seeks => FindSeek(c) = {first}
      /\ first \notin Seeks /\ first \notin OpenSeeks => FindSeek(c) = {NULL}
      /\ first \notin Seeks /\ first \in OpenSeeks /\ solid = {} => FindSeek(c) = Seeks \cup {NULL}
      /\ first \notin Seeks /\ first \in OpenSeeks /\ solid # {} =>
           FindSeek(c) = {Completed[first, l.buffer[Min(solid)]]}
  BY DEF FindSeek, first, solid
<1> QED BY <1>2, <1>3, <1>4

(* Where a seek command leads to. *)
LEMMA SeekData ==
  ASSUME HandlerInv, BufferTypes, RingTypes, lseekPos \in Nat, NEW c \in Conns, ProcessSeek(c)
  PROVE  lseekPos' \in Nat
<1>1. PICK a \in Seeks :
        lseekPos' = IF ~local[c].fileOpen \/ SeekRefused(a) THEN lseekPos
                    ELSE aesd_circular_buffer_find_fpos_for_virtual_entry_offset(
                           buff, a.write_cmd) + a.write_cmd_offset
  <2>1. pc[c] = "line"
    BY DEF ProcessSeek, Handled, Goto
  <2>2. FindSeek(c) \ {NULL} \subseteq Seeks
    BY <2>1, FindSeekValue
  <2> QED BY <2>2 DEF ProcessSeek
<1> DEFINE pos == aesd_circular_buffer_find_fpos_for_virtual_entry_offset(buff, a.write_cmd)
<1>2. a.write_cmd \in Nat /\ a.write_cmd_offset \in Nat
  BY <1>1, HandlerAssumption
<1>3. PICK z, t : RingSums(z, t)
  BY RingSumsExist
<1>4. t[a.write_cmd] \in Nat
  BY <1>2, <1>3 DEF RingSums, Totals
<1>5. pos = -1 \/ pos \in Nat
  BY <1>3, <1>4 DEF aesd_circular_buffer_find_fpos_for_virtual_entry_offset, RingSums
<1>6. SeekRefused(a) \/ pos \in Nat
  BY <1>5 DEF SeekRefused
<1>7. lseekPos' = IF ~local[c].fileOpen \/ SeekRefused(a) THEN lseekPos
                  ELSE pos + a.write_cmd_offset
  BY <1>1
<1> HIDE DEF pos
<1> QED BY <1>2, <1>6, <1>7

LEMMA DataKept ==
  ASSUME HandlerInv, BufferTypes, DataTypes, [Next]_vars
  PROVE  DataTypes'
<1> USE DEF DataTypes
<1> HIDE DEF Byte
<1>0. /\ DOMAIN local = Conns
      /\ \A c \in Conns : DOMAIN local[c] = Fields
  BY DEF HandlerInv, HandlerTypes, LengthsFit
<1>1. ASSUME NEW c \in Conns, ProcessWrite(c) PROVE DataTypes'
  <2>1. RingTypes'
    BY <1>1, WriteData
  <2> QED BY <1>1, <2>1 DEF ProcessWrite, Handled, ReplyTypes, FlagTypes, serverVars, clientVars
<1>2. ASSUME NEW c \in Conns, ProcessSeek(c) PROVE DataTypes'
  <2>1. lseekPos' \in Nat
    BY <1>2, SeekData DEF FlagTypes
  <2> QED BY <1>2, <2>1 DEF ProcessSeek, Handled, RingTypes, ReplyTypes, FlagTypes,
                            serverVars, clientVars
<1>3. ASSUME NEW c \in Conns, Recv(c) PROVE DataTypes'
  <2>1. PICK n \in Nat, ok \in BOOLEAN : Receives(c, n, ok)
    BY <1>3, RecvValue
  <2>2. /\ local'[c].f_pos = 0 /\ local'[c].offered = <<>>
        /\ \A d \in Conns \ {c} : local'[d] = local[d]
    BY <1>0, <2>1 DEF Receives, Fields
  <2>3. <<>> \in Seq(Byte)
    OBVIOUS
  <2>4. ASSUME NEW d \in Conns PROVE local'[d].f_pos \in Nat /\ local'[d].offered \in Seq(Byte)
    <3>1. CASE d = c
      <4>1. local'[d].f_pos \in Nat
        BY <2>2, <3>1
      <4>2. local'[d].offered \in Seq(Byte)
        BY <2>2, <2>3, <3>1, Zenon
      <4> QED BY <4>1, <4>2
    <3>2. CASE d # c
      BY <2>2, <3>2 DEF ReplyTypes
    <3> QED BY <3>1, <3>2
  <2>5. ReplyTypes'
    BY <2>4 DEF ReplyTypes
  <2> QED BY <1>3, <2>5 DEF Recv, RingTypes, FlagTypes, deviceVars, serverVars
<1>4. ASSUME NEW c \in Conns, Reply(c) PROVE DataTypes'
  <2>1. /\ NextRead(c) # NULL
        /\ local' = [local EXCEPT ![c].f_pos = @ + Len(ReplyData(c)),
                                  ![c].offered = @ \o ReplyData(c)]
    BY <1>4 DEF Reply, ReplyData
  <2>2. PICK z, t : RingSums(z, t)
    BY RingSumsExist
  <2>3. lseekPos \in Nat
    BY DEF FlagTypes
  <2>4. ReplyData(c) \in Seq(Byte)
    BY <2>1, <2>2, <2>3, ReplyValue DEF RestOfLine
  <2>5. /\ local'[c].f_pos = local[c].f_pos + Len(ReplyData(c))
        /\ local'[c].offered = local[c].offered \o ReplyData(c)
        /\ \A d \in Conns \ {c} : local'[d] = local[d]
    BY <1>0, <2>1 DEF Fields
  <2>6. local'[c].f_pos \in Nat /\ local'[c].offered \in Seq(Byte)
    BY <2>4, <2>5, ConcatProperties DEF ReplyTypes
  <2>7. ReplyTypes'
    BY <2>5, <2>6 DEF ReplyTypes
  <2> QED BY <1>4, <2>7 DEF Reply, RingTypes, FlagTypes, deviceVars, serverVars, clientVars
<1>5. ASSUME NEW c \in Conns, RecvTimeout(c) \/ NextLine(c) \/ ReplyDone(c) \/ CloseFile(c)
      PROVE  DataTypes'
  <2>1. \A d \in Conns : local'[d].f_pos = local[d].f_pos /\ local'[d].offered = local[d].offered
    <3>1. CASE RecvTimeout(c)
      BY <1>0, <3>1 DEF RecvTimeout, Fields
    <3>2. CASE NextLine(c)
      BY <1>0, <3>2 DEF NextLine, Fields
    <3>3. CASE ReplyDone(c)
      BY <1>0, <3>3 DEF ReplyDone, Fields
    <3>4. CASE CloseFile(c)
      BY <1>0, <3>4 DEF CloseFile, Fields
    <3> QED BY <1>5, <3>1, <3>2, <3>3, <3>4
  <2>2. ReplyTypes'
    BY <2>1 DEF ReplyTypes
  <2>3. RingTypes' /\ FlagTypes'
    BY <1>5 DEF RecvTimeout, NextLine, ReplyDone, CloseFile, RingTypes, FlagTypes,
                deviceVars, serverVars, clientVars
  <2> QED BY <2>2, <2>3
<1>6. ASSUME NEW c \in Conns,
             \/ Start(c) \/ StartFails(c) \/ RecvEnds(c) \/ StringRunsOn(c) \/ ProcessWriteFails(c)
             \/ ReplyKills(c) \/ CloseConnectionFD(c) \/ SendFails(c) \/ SendReturns(c)
      PROVE  DataTypes'
  BY <1>6 DEF Start, StartFails, RecvEnds, StringRunsOn, ProcessWriteFails, ReplyKills,
              CloseConnectionFD, SendFails, SendReturns, Exit, RingTypes, ReplyTypes, FlagTypes, deviceVars, serverVars, clientVars
<1>7. ASSUME NEW c \in Conns, ClientSend(c) \/ ClientClose(c) PROVE DataTypes'
  BY <1>7 DEF ClientSend, ClientClose, RingTypes, ReplyTypes, FlagTypes, deviceVars, serverVars
<1>8. CASE sigHandler
  BY <1>8 DEF sigHandler, RingTypes, ReplyTypes, FlagTypes, deviceVars, clientVars
<1>9. CASE UNCHANGED vars
  BY <1>9 DEF vars, RingTypes, ReplyTypes, FlagTypes, deviceVars, serverVars, clientVars
<1> QED BY <1>1, <1>2, <1>3, <1>4, <1>5, <1>6, <1>7, <1>8, <1>9 DEF Next, HandlerStep

(* Every variable keeps its type, and a reply sends only bytes of lines:   *)
(* no lookup of the read loop leads to a slot that holds none.             *)
THEOREM HandlersTyped == Spec => []TypeOK
<1>1. HandlerInv /\ BufferTypes /\ DataTypes => TypeOK
  BY DEF HandlerInv, HandlerTypes, BufferTypes, DataTypes, ReplyTypes, FlagTypes, TypeOK
<1>2. HandlerInv /\ BufferTypes /\ DataTypes /\ [Next]_vars => BufferTypes' /\ DataTypes'
  BY BufferTypesHold, DataKept
<1> QED BY <1>1, <1>2, InitInv, NextInv, InitBuffers, InitData, PTL DEF Spec

-----------------------------------------------------------------------------
(* What a handler has handed to send is a prefix of what is stored. *)

StoredLines == [i \in 1 .. Len(Contents(buff)) |-> Contents(buff)[i].buffptr]

LEMMA StoredLinesValue ==
  ASSUME RingTypes
  PROVE  /\ StoredLines \in Seq(Seq(Byte))
         /\ Len(StoredLines) = numEntries(buff)
         /\ \A k \in 0 .. numEntries(buff) - 1 :
              /\ StoredLines[k + 1] = buff.entry[VirtualIndex(buff, k)].buffptr
              /\ Len(StoredLines[k + 1]) = get_entry_at_virtual_offset(buff, k).size
<1> DEFINE C == Contents(buff)
           N == numEntries(buff)
           V == Seq(Byte)
<1>1. N \in Nat /\ Len(C) = N /\ C \in Seq(LineEntries)
  BY RingShape, ContentsValue DEF RingTypes
<1>2. C = [i \in 1 .. N |-> get_entry_at_virtual_offset(buff, i - 1)]
  BY DEF Contents
<1>3. StoredLines = [i \in 1 .. N |-> C[i].buffptr]
  BY <1>1 DEF StoredLines
<1> HIDE DEF C, N
<1>4. ASSUME NEW i \in 1 .. N
      PROVE  C[i].buffptr \in V /\ C[i].size = Len(C[i].buffptr)
  <2>1. C[i] \in LineEntries
    BY <1>1
  <2> QED BY <2>1 DEF LineEntries
<1>5. \A i \in 1 .. N : C[i].buffptr \in V
  BY <1>4
<1> HIDE DEF V
<1>6. StoredLines \in Seq(V) /\ Len(StoredLines) = N
  BY <1>1, <1>3, <1>5
<1>7. ASSUME NEW k \in 0 .. N - 1
      PROVE  /\ StoredLines[k + 1] = buff.entry[VirtualIndex(buff, k)].buffptr
             /\ Len(StoredLines[k + 1]) = get_entry_at_virtual_offset(buff, k).size
  <2>1. k + 1 \in 1 .. N /\ (k + 1) - 1 = k
    BY <1>1
  <2>2. C[k + 1] = get_entry_at_virtual_offset(buff, k) /\ StoredLines[k + 1] = C[k + 1].buffptr
    BY <1>2, <1>3, <2>1
  <2>3. C[k + 1].size = Len(C[k + 1].buffptr)
    BY <1>4, <2>1
  <2> QED BY <2>2, <2>3 DEF get_entry_at_virtual_offset
<1> QED BY <1>6, <1>7 DEF N, V

(* Where the bytes of an entry are in the stream. *)
LEMMA StreamValue ==
  ASSUME RingTypes, NEW z, NEW t, RingSums(z, t)
  PROVE  /\ Stream \in Seq(Byte)
         /\ Len(Stream) = t[numEntries(buff)]
         /\ \A k \in 0 .. numEntries(buff) - 1 :
              LET line == buff.entry[VirtualIndex(buff, k)].buffptr
              IN  \A j \in 1 .. Len(line) : Stream[t[k] + j] = line[j]
<1> DEFINE N == numEntries(buff)
           s == StoredLines
<1>1. N \in Nat /\ s \in Seq(Seq(Byte)) /\ Len(s) = N
  BY StoredLinesValue, RingShape
<1>2. ASSUME NEW k \in 0 .. N - 1
      PROVE  /\ s[k + 1] = buff.entry[VirtualIndex(buff, k)].buffptr
             /\ z[k] = Len(s[k + 1])
  BY <1>1, StoredLinesValue DEF RingSums
<1> HIDE DEF N, s
<1>3. ASSUME NEW k \in 1 .. Len(s) PROVE z[k - 1] = Len(s[k])
  <2>1. k - 1 \in 0 .. N - 1 /\ (k - 1) + 1 = k
    BY <1>1
  <2> QED BY <1>2, <2>1
<1>4. Layout(s, Byte, z, t)
  BY <1>1, <1>3 DEF Layout, RingSums
<1> HIDE DEF Byte
<1>5. /\ FlattenSeq(s) \in Seq(Byte)
      /\ Len(FlattenSeq(s)) = t[Len(s)]
      /\ \A k \in 1 .. Len(s) : \A j \in 1 .. Len(s[k]) : FlattenSeq(s)[t[k - 1] + j] = s[k][j]
  <2>1. FlattenSeq(s) \in Seq(Byte)
    BY <1>4, FlattenValue
  <2>2. Len(FlattenSeq(s)) = t[Len(s)]
    BY <1>4, FlattenValue
  <2>3. ASSUME NEW k \in 1 .. Len(s), NEW j \in 1 .. Len(s[k])
        PROVE  FlattenSeq(s)[t[k - 1] + j] = s[k][j]
    BY <1>4, FlattenValue
  <2> QED BY <2>1, <2>2, <2>3
<1>6. Stream = FlattenSeq(s)
  BY DEF Stream, StoredLines, s
<1>7. ASSUME NEW k \in 0 .. N - 1, NEW j \in 1 .. Len(s[k + 1])
      PROVE  Stream[t[k] + j] = s[k + 1][j]
  <2>1. k + 1 \in 1 .. Len(s) /\ (k + 1) - 1 = k
    BY <1>1
  <2> QED BY <1>5, <1>6, <2>1
<1>8. Stream \in Seq(Byte) /\ Len(Stream) = t[N]
  BY <1>1, <1>5, <1>6
<1> QED BY <1>2, <1>7, <1>8 DEF N

LEMMA FlattenType ==
  ASSUME NEW S, NEW s \in Seq(Seq(S))
  PROVE  FlattenSeq(s) \in Seq(S)
<1> DEFINE V == Seq(S)
           n == Len(s)
           z == [k \in Nat |-> IF k + 1 \in 1 .. n THEN Len(s[k + 1]) ELSE 0]
<1>1. n \in Nat /\ \A k \in 1 .. n : s[k] \in V
  <2> HIDE DEF V
  <2> QED BY DEF V
<1>2. \A x \in V : Len(x) \in Nat
  OBVIOUS
<1> HIDE DEF V, n
<1>3. z \in [Nat -> Nat]
  BY <1>1, <1>2
<1>4. ASSUME NEW k \in 1 .. n PROVE z[k - 1] = Len(s[k])
  <2>1. k - 1 \in Nat /\ (k - 1) + 1 = k
    BY <1>1
  <2> QED BY <2>1
<1> HIDE DEF z
<1>5. PICK t : Totals(t, z)
  BY <1>3, TotalsExist
<1>6. Layout(s, S, z, t)
  BY <1>3, <1>4, <1>5 DEF Layout, n
<1> QED BY <1>6, FlattenValue

LinesOf(C) == [i \in 1 .. Len(C) |-> C[i].buffptr]

(* One more line at the end. *)
LEMMA LinesAppend ==
  ASSUME NEW C \in Seq(LineEntries), NEW e \in LineEntries
  PROVE  /\ FlattenSeq(LinesOf(C)) \in Seq(Byte)
         /\ FlattenSeq(LinesOf(Append(C, e))) = FlattenSeq(LinesOf(C)) \o e.buffptr
<1> DEFINE V == Seq(Byte)
           n == Len(C)
           w == Append(C, e)
           s == LinesOf(C)
           seg == e.buffptr
<1>1. n \in Nat /\ Len(w) = n + 1 /\ w[n + 1] = e /\ \A i \in 1 .. n : w[i] = C[i]
  OBVIOUS
<1>2. /\ s = [i \in 1 .. n |-> C[i].buffptr]
      /\ LinesOf(w) = [i \in 1 .. Len(w) |-> w[i].buffptr]
  BY DEF LinesOf
<1>3. seg \in V /\ \A i \in 1 .. n : C[i].buffptr \in V
  <2>1. \A d \in LineEntries : d.buffptr \in V
    BY DEF LineEntries
  <2>2. \A i \in 1 .. n : C[i] \in LineEntries
    OBVIOUS
  <2> QED BY <2>1, <2>2
<1> HIDE DEF V, n, w, s, seg
<1>4. s \in Seq(V) /\ Len(s) = n /\ \A i \in 1 .. n : s[i] = C[i].buffptr
  BY <1>1, <1>2, <1>3
<1>5. LinesOf(w) = Append(s, seg)
  <2> DEFINE x == Append(s, seg)
  <2>1. /\ x \in Seq(V) /\ Len(x) = n + 1 /\ x[n + 1] = seg
        /\ \A i \in 1 .. n : x[i] = s[i]
    BY <1>1, <1>3, <1>4
  <2> HIDE DEF x
  <2>2. x = [i \in 1 .. n + 1 |-> x[i]]
    BY <1>1, <2>1
  <2>3. ASSUME NEW i \in 1 .. n + 1 PROVE w[i].buffptr = x[i]
    BY <1>1, <1>4, <2>1 DEF seg
  <2>4. [i \in 1 .. n + 1 |-> w[i].buffptr] = [i \in 1 .. n + 1 |-> x[i]]
    BY <2>3
  <2> QED BY <1>1, <1>2, <2>2, <2>4 DEF x
<1>6. FlattenSeq(Append(s, seg)) = FlattenSeq(s) \o seg
  BY <1>3, <1>4, FlattenAppend DEF V
<1>7. FlattenSeq(s) \in V
  BY <1>4, FlattenType DEF V
<1> QED BY <1>5, <1>6, <1>7 DEF s, seg, w, V

BeginsWith(s, x) == \E y \in Seq(Byte) : s = x \o y

EndsWith(s, x) == \E y \in Seq(Byte) : s = y \o x

(* ProcessWrite adds the line at the end; a full ring drops its oldest.    *)
LEMMA WriteGrowsStream ==
  ASSUME HandlerInv, BufferTypes, RingTypes, NEW c \in Conns, ProcessWrite(c)
  PROVE  /\ EndsWith(Stream', Segment(c))
         /\ ~buff.full => Stream' = Stream \o Segment(c)
<1> DEFINE e == [buffptr |-> Segment(c), size |-> local[c].segmentLen]
           C == Contents(buff)
<1>1. /\ RingTypes' /\ e \in LineEntries
      /\ ~buff.full => Contents(buff') = Append(C, e)
      /\ buff.full => C # <<>> /\ Contents(buff') = Append(Tail(C), e)
  BY WriteData
<1>2. C \in Seq(LineEntries) /\ e.buffptr = Segment(c)
  BY DEF RingTypes
<1>3. Stream = FlattenSeq(LinesOf(C)) /\ Stream' = FlattenSeq(LinesOf(Contents(buff')))
  BY DEF Stream, LinesOf
<1> HIDE DEF e, C
<1>5. CASE ~buff.full
  BY <1>1, <1>2, <1>3, <1>5, LinesAppend DEF EndsWith
<1>6. CASE buff.full
  <2>1. Tail(C) \in Seq(LineEntries)
    <3> DEFINE V == LineEntries
    <3> HIDE DEF V
    <3>1. C \in Seq(V) /\ C # <<>>
      BY <1>1, <1>2, <1>6 DEF V
    <3>2. Tail(C) \in Seq(V)
      BY <3>1
    <3> QED BY <3>2 DEF V
  <2> QED BY <1>1, <1>2, <1>3, <1>6, <2>1, LinesAppend DEF EndsWith
<1> QED BY <1>5, <1>6

(* Nothing like a seek command has been dealt with. *)
NoSeekYet ==
  \A d \in Conns : Range(trace[d].handled) \cap (Seeks \cup OpenSeeks) = {}

Replying == {"reply", "blocked"}

Offered(c) ==
  /\ local[c].f_pos = Len(local[c].offered)
  /\ BeginsWith(Stream, local[c].offered)

(* The line that is answered is the last that is stored: FileMutex keeps   *)
(* the others from writing.                                                *)
Answered(c) ==
  pc[c] \in Replying /\ local[c].fileOpen => EndsWith(Stream, Segment(c))

(* Nothing has been read yet when the first line of a buffer is met. *)
Fresh(c) ==
  pc[c] \in {"scan", "line"} /\ local[c].start = 1 =>
    local[c].f_pos = 0 /\ local[c].offered = <<>>

(* f_pos still counts from the beginning of the stream: no line has been   *)
(* dropped since the file was opened, or since it was first read from.     *)
Counts(c) == ~buff.full \/ (pc[c] \in Replying /\ local[c].start = 1)

ReplyInv ==
  NoSeekYet =>
    /\ lseekPos = 0
    /\ \A c \in Conns : Fresh(c) /\ (Counts(c) => Offered(c) /\ Answered(c))

LEMMA RangeOfConcat ==
  ASSUME NEW S, NEW x \in Seq(S), NEW y \in Seq(S)
  PROVE  Range(x) \subseteq Range(x \o y) /\ Range(y) \subseteq Range(x \o y)
<1>1. /\ Len(x) \in Nat /\ Len(y) \in Nat
      /\ DOMAIN x = 1 .. Len(x) /\ DOMAIN y = 1 .. Len(y)
      /\ DOMAIN (x \o y) = 1 .. Len(x) + Len(y)
      /\ \A i \in 1 .. Len(x) : (x \o y)[i] = x[i]
      /\ \A j \in 1 .. Len(y) : (x \o y)[Len(x) + j] = y[j]
  OBVIOUS
<1>2. ASSUME NEW i \in DOMAIN x PROVE x[i] \in Range(x \o y)
  <2>1. i \in DOMAIN (x \o y) /\ (x \o y)[i] = x[i]
    BY <1>1
  <2> QED BY <2>1 DEF Range
<1>3. ASSUME NEW j \in DOMAIN y PROVE y[j] \in Range(x \o y)
  <2>1. Len(x) + j \in DOMAIN (x \o y) /\ (x \o y)[Len(x) + j] = y[j]
    BY <1>1
  <2> QED BY <2>1 DEF Range
<1> QED BY <1>2, <1>3 DEF Range

(* What has been dealt with stays so, and its lines count.                 *)
LEMMA HandledKept ==
  ASSUME HandlerInv, BufferTypes, [Next]_vars, NEW d \in Conns
  PROVE  Range(trace[d].handled) \subseteq Range(trace'[d].handled)
<1>1. trace \in [Conns -> Trace]
  BY DEF BufferTypes
<1>2. ASSUME NEW c \in Conns, ProcessSeek(c) \/ ProcessWrite(c)
      PROVE  Range(trace[d].handled) \subseteq Range(trace'[d].handled)
  <2>1. trace' = [trace EXCEPT ![c].handled = @ \o Segment(c)] /\ pc[c] = "line"
    BY <1>2 DEF ProcessSeek, ProcessWrite, Handled, Goto
  <2>2. CASE d = c
    <3>1. trace'[d].handled = trace[d].handled \o Segment(d)
      BY <1>1, <2>1, <2>2 DEF Trace
    <3>2. trace[d].handled \in Seq(Byte) /\ Segment(d) \in Seq(Byte)
      BY <1>1, <2>1, <2>2, SegmentValue DEF Trace
    <3> QED BY <3>1, <3>2, RangeOfConcat
  <2>3. CASE d # c
    BY <1>1, <2>1, <2>3
  <2> QED BY <2>2, <2>3
<1>3. ASSUME NEW c \in Conns, Recv(c) PROVE trace'[d].handled = trace[d].handled
  <2>1. PICK n \in Nat, ok \in BOOLEAN : Receives(c, n, ok)
    BY <1>3, RecvValue
  <2> QED BY <1>1, <2>1 DEF Receives, Trace
<1>4. ASSUME NEW c \in Conns, CloseFile(c) PROVE trace'[d].handled = trace[d].handled
  BY <1>1, <1>4 DEF CloseFile, Trace
<1>5. CASE \/ UNCHANGED vars \/ sigHandler
           \/ \E c \in Conns : ClientSend(c) \/ ClientClose(c)
           \/ \E c \in Conns :
                \/ Start(c) \/ StartFails(c) \/ RecvEnds(c) \/ StringRunsOn(c) \/ ProcessWriteFails(c)
                \/ ReplyKills(c) \/ CloseConnectionFD(c) \/ RecvTimeout(c)
                \/ NextLine(c) \/ Reply(c) \/ SendFails(c) \/ SendReturns(c) \/ ReplyDone(c)
  <2>1. trace' = trace
    BY <1>5 DEF vars, sigHandler, ClientSend, ClientClose, Start, StartFails, RecvEnds,
                StringRunsOn, ProcessWriteFails, ReplyKills, CloseConnectionFD, Exit,
                RecvTimeout, NextLine, Reply, SendFails, SendReturns, ReplyDone
  <2> QED BY <2>1
<1> QED BY <1>2, <1>3, <1>4, <1>5 DEF Next, HandlerStep

LEMMA SeekNoted ==
  ASSUME HandlerInv, BufferTypes, NEW c \in Conns, ProcessSeek(c)
  PROVE  ~NoSeekYet'
<1>1. /\ trace' = [trace EXCEPT ![c].handled = @ \o Segment(c)] /\ pc[c] = "line"
      /\ Segment(c)[1] \in Seeks \cup OpenSeeks
  <2>1. pc[c] = "line" /\ FindSeek(c) # {NULL}
    BY DEF ProcessSeek, Handled, Goto
  <2> QED BY <2>1, FindSeekValue DEF ProcessSeek, Handled
<1>2. /\ Segment(c) \in Seq(Byte) /\ Len(Segment(c)) \in Nat \ {0}
  BY <1>1, SegmentValue
<1>3. trace'[c].handled = trace[c].handled \o Segment(c) /\ trace[c].handled \in Seq(Byte)
  BY <1>1 DEF BufferTypes, Trace
<1>4. Range(Segment(c)) \subseteq Range(trace'[c].handled)
  BY <1>2, <1>3, RangeOfConcat
<1>5. Segment(c)[1] \in Range(Segment(c))
  <2>1. 1 \in DOMAIN Segment(c)
    BY <1>2
  <2> QED BY <2>1 DEF Range
<1> QED BY <1>1, <1>4, <1>5 DEF NoSeekYet

(* A step that neither writes nor sends.                                   *)
LEMMA QuietReplies ==
  ASSUME ReplyInv, NoSeekYet' => NoSeekYet,
         buff' = buff, lseekPos = 0 => lseekPos' = 0,
         \A d \in Conns : local'[d].f_pos = local[d].f_pos /\ local'[d].offered = local[d].offered,
         \A d \in Conns : Fresh(d) => Fresh(d)',
         \A d \in Conns : pc'[d] \in Replying =>
           /\ pc[d] \in Replying /\ local'[d].fileOpen = local[d].fileOpen
           /\ Segment(d)' = Segment(d) /\ local'[d].start = local[d].start
  PROVE  ReplyInv'
<1>1. Stream' = Stream
  BY DEF Stream
<1>2. ASSUME NoSeekYet', NEW c \in Conns, Counts(c)' PROVE Offered(c)' /\ Answered(c)'
  <2>1. Counts(c)
    BY <1>2 DEF Counts
  <2>2. Offered(c) /\ Answered(c)
    BY <1>2, <2>1 DEF ReplyInv
  <2>3. Offered(c)'
    BY <1>1, <2>2 DEF Offered
  <2>4. Answered(c)'
    BY <1>1, <2>2 DEF Answered
  <2> QED BY <2>3, <2>4
<1> QED BY <1>2 DEF ReplyInv

(* A handler that has received more starts with nothing.                   *)
LEMMA RecvReplies ==
  ASSUME HandlerInv, RingTypes, ReplyInv, NoSeekYet' => NoSeekYet, NEW c \in Conns, Recv(c)
  PROVE  ReplyInv'
<1>1. PICK n \in Nat, ok \in BOOLEAN : Receives(c, n, ok)
  BY RecvValue
<1>2. /\ local'[c].f_pos = 0 /\ local'[c].offered = <<>>
      /\ \A d \in Conns \ {c} : local'[d] = local[d]
  BY <1>1 DEF Receives, HandlerInv, HandlerTypes, LengthsFit, Fields
<1>3. /\ pc'[c] = "scan" /\ \A d \in Conns \ {c} : pc'[d] = pc[d]
      /\ buff' = buff /\ lseekPos' = lseekPos
  BY DEF Recv, Goto, HandlerInv, HandlerTypes, deviceVars
<1>4. Stream' = Stream
  BY <1>3 DEF Stream
<1> SUFFICES ASSUME NoSeekYet', NEW d \in Conns
             PROVE  Fresh(d)' /\ (Counts(d)' => Offered(d)' /\ Answered(d)')
  BY <1>3 DEF ReplyInv
<1>5. CASE d = c
  <2>1. PICK z, t : RingSums(z, t)
    BY RingSumsExist
  <2>2. Stream \in Seq(Byte)
    BY <2>1, StreamValue
  <2>3. Stream = <<>> \o Stream /\ Len(<<>>) = 0
    BY <2>2, ConcatEmptySeq
  <2>4. Offered(c)'
    BY <1>2, <1>4, <2>2, <2>3 DEF Offered, BeginsWith
  <2> QED BY <1>2, <1>3, <1>5, <2>4 DEF Answered, Replying, Fresh
<1>6. CASE d # c
  <2>1. Fresh(d) /\ (Counts(d) => Offered(d) /\ Answered(d))
    BY <1>3 DEF ReplyInv
  <2>2. local'[d] = local[d] /\ pc'[d] = pc[d] /\ Segment(d)' = Segment(d)
    BY <1>2, <1>3, <1>6 DEF Segment
  <2> QED BY <1>3, <1>4, <2>1, <2>2 DEF Offered, Answered, Fresh, Counts
<1> QED BY <1>5, <1>6

(* r begins with d. *)
Begins(r, d, S) ==
  /\ r \in Seq(S) /\ d \in Seq(S)
  /\ Len(d) <= Len(r)
  /\ \A j \in 1 .. Len(d) : r[j] = d[j]

LEMMA SplitAt ==
  ASSUME NEW S, NEW r, NEW d, Begins(r, d, S)
  PROVE  \E y \in Seq(S) : r = d \o y
<1> USE DEF Begins
<1>1. Len(d) \in Nat /\ Len(r) \in Nat
  OBVIOUS
<1>2. CASE Len(d) = Len(r)
  <2>1. r = d
    BY <1>2, SeqEqual
  <2>2. d = d \o <<>> /\ <<>> \in Seq(S)
    BY ConcatEmptySeq
  <2> QED BY <2>1, <2>2
<1>3. CASE Len(d) # Len(r)
  <2> DEFINE p == Len(d)
             y == SubSeq(r, p + 1, Len(r))
  <2>1. p \in Nat /\ p < Len(r)
    BY <1>1, <1>3
  <2>2. y \in Seq(S) /\ Len(y) = Len(r) - p /\ \A j \in 1 .. Len(r) - p : y[j] = r[p + j]
    <3> HIDE DEF p
    <3> QED BY <2>1, RestOfSeq
  <2> HIDE DEF y
  <2>3. /\ d \o y \in Seq(S) /\ Len(d \o y) = Len(d) + Len(y)
        /\ \A i \in 1 .. Len(d) : (d \o y)[i] = d[i]
        /\ \A i \in 1 .. Len(y) : (d \o y)[Len(d) + i] = y[i]
    BY <2>2, ConcatElements
  <2>4. Len(d \o y) = Len(r)
    BY <1>1, <2>2, <2>3
  <2>5. ASSUME NEW i \in 1 .. Len(r) PROVE r[i] = (d \o y)[i]
    <3>1. CASE i <= p
      <4>1. i \in 1 .. Len(d)
        BY <1>1, <3>1
      <4> QED BY <2>3, <4>1
    <3>2. CASE i > p
      <4>1. i - p \in 1 .. Len(y) /\ i - p \in 1 .. Len(r) - p /\ p + (i - p) = i
        BY <1>1, <2>2, <3>2
      <4> QED BY <2>2, <2>3, <4>1
    <3>3. i <= p \/ i > p
      BY <1>1
    <3> QED BY <3>1, <3>2, <3>3
  <2>6. r = d \o y
    BY <2>3, <2>4, <2>5, SeqEqual
  <2> QED BY <2>2, <2>6
<1> QED BY <1>2, <1>3

(* A stream that begins with x, and has a line at a .. b whose end behind  *)
(* x is data.                                                              *)
GoesOn(x, r, data, line, a, b) ==
  /\ x \in Seq(Byte) /\ r \in Seq(Byte)
  /\ b <= Len(x \o r)
  /\ \A j \in 1 .. Len(line) : (x \o r)[a + j] = line[j]
  /\ RestOfLine(data, line, Len(x), a, b)

LEMMA StreamGoesOn ==
  ASSUME NEW x, NEW r, NEW data, NEW line, NEW a, NEW b,
         GoesOn(x, r, data, line, a, b)
  PROVE  BeginsWith(x \o r, x \o data)
<1>1. /\ x \in Seq(Byte) /\ r \in Seq(Byte) /\ data \in Seq(Byte)
      /\ a \in Nat /\ b \in Nat /\ Len(x) \in Nat /\ Len(r) \in Nat
      /\ a <= Len(x) /\ Len(x) < b /\ b <= Len(x \o r)
      /\ Len(line) = b - a /\ Len(data) = b - Len(x)
  BY DEF GoesOn, RestOfLine
<1>2. /\ Len(x \o r) = Len(x) + Len(r)
      /\ \A j \in 1 .. Len(r) : (x \o r)[Len(x) + j] = r[j]
  BY ONLY <1>1, ConcatElements
<1>3. ASSUME NEW j \in 1 .. Len(data) PROVE r[j] = data[j]
  <2> DEFINE o == Len(x)
             m == Len(r)
  <2>1. o \in Nat /\ m \in Nat /\ j \in 1 .. b - o /\ b <= o + m
    BY <1>1, <1>2
  <2> HIDE DEF o, m
  <2>2. /\ j \in 1 .. m /\ (o - a) + j \in 1 .. b - a
        /\ a + ((o - a) + j) = o + j
    BY <1>1, <2>1 DEF o
  <2>3. data[j] = line[(o - a) + j]
    BY <2>1 DEF GoesOn, RestOfLine, o
  <2>4. (x \o r)[a + ((o - a) + j)] = line[(o - a) + j]
    BY <1>1, <2>2 DEF GoesOn
  <2>5. (x \o r)[o + j] = r[j]
    BY <1>2, <2>2 DEF o, m
  <2> QED BY <2>2, <2>3, <2>4, <2>5
<1>4. Begins(r, data, Byte)
  <2>1. Len(data) <= Len(r)
    BY <1>1, <1>2
  <2> QED BY <1>1, <1>3, <2>1 DEF Begins
<1>5. PICK y \in Seq(Byte) : r = data \o y
  BY <1>4, SplitAt
<1>6. Associates(x, data, y)
  <2>1. x \in Seq(Byte) /\ data \in Seq(Byte) /\ y \in Seq(Byte)
    BY <1>1, <1>5
  <2> QED BY <2>1, JoinsAssociate
<1> QED BY <1>5, <1>6 DEF BeginsWith, Associates

(* What the read loop sends next continues what it has handed to send.     *)
LEMMA SendReplies ==
  ASSUME HandlerInv, DataTypes, ReplyInv, NoSeekYet' => NoSeekYet, NEW c \in Conns, Reply(c)
  PROVE  ReplyInv'
<1>1. /\ NextRead(c) # NULL
      /\ local' = [local EXCEPT ![c].f_pos = @ + Len(ReplyData(c)),
                                ![c].offered = @ \o ReplyData(c)]
      /\ pc[c] \in Replying /\ pc'[c] \in Replying /\ \A d \in Conns \ {c} : pc'[d] = pc[d]
      /\ buff' = buff /\ lseekPos' = lseekPos
  BY DEF Reply, ReplyData, Goto, deviceVars, HandlerInv, HandlerTypes, Replying
<1>2. /\ local'[c].f_pos = local[c].f_pos + Len(ReplyData(c))
      /\ local'[c].offered = local[c].offered \o ReplyData(c)
      /\ \A d \in Conns \ {c} : local'[d] = local[d]
      /\ \A d \in Conns : /\ local'[d].fileOpen = local[d].fileOpen
                          /\ local'[d].buffer = local[d].buffer
                          /\ local'[d].start = local[d].start
                          /\ local'[d].segmentLen = local[d].segmentLen
  BY <1>1 DEF HandlerInv, HandlerTypes, LengthsFit, Fields
<1>3. Stream' = Stream
  BY <1>1 DEF Stream
<1>4. \A d \in Conns : Segment(d)' = Segment(d)
  BY <1>2 DEF Segment
<1>0. ASSUME NEW d \in Conns PROVE (Fresh(d) => Fresh(d)') /\ (Counts(d)' => Counts(d))
  <2>1. CASE d = c
    BY <1>1, <1>2, <2>1 DEF Fresh, Counts, Replying
  <2>2. CASE d # c
    BY <1>1, <1>2, <2>2 DEF Fresh, Counts
  <2> QED BY <2>1, <2>2
<1> SUFFICES ASSUME NoSeekYet', NEW d \in Conns, Counts(d)
             PROVE  Offered(d)' /\ Answered(d)'
  BY <1>0, <1>1 DEF ReplyInv
<1>5. Offered(d) /\ Answered(d) /\ lseekPos = 0
  BY <1>1 DEF ReplyInv
<1>6. Answered(d)'
  BY <1>1, <1>2, <1>3, <1>4, <1>5 DEF Answered
<1>7. CASE d # c
  BY <1>2, <1>3, <1>5, <1>6, <1>7 DEF Offered
<1>8. CASE d = c
  <2>1. PICK z, t : RingSums(z, t)
    BY RingSumsExist DEF DataTypes
  <2> DEFINE N == numEntries(buff)
             x == local[c].offered
             data == ReplyData(c)
  <2>2. PICK k \in 0 .. N - 1 :
          RestOfLine(data, buff.entry[VirtualIndex(buff, k)].buffptr,
                     local[c].f_pos + lseekPos, t[k], t[k + 1])
    BY <1>1, <2>1, ReplyValue DEF DataTypes, FlagTypes
  <2> DEFINE line == buff.entry[VirtualIndex(buff, k)].buffptr
  <2>3. /\ local[c].f_pos \in Nat /\ x \in Seq(Byte) /\ N \in Nat
        /\ local[c].f_pos = Len(x)
        /\ local[c].f_pos + lseekPos = Len(x)
    BY <1>5, <1>8, RingShape DEF DataTypes, ReplyTypes, Offered
  <2>4. RestOfLine(data, line, Len(x), t[k], t[k + 1])
    BY <2>2, <2>3
  <2>5. t[k + 1] <= t[N]
    <3>1. k \in Nat /\ k + 1 \in Nat /\ k + 1 <= N /\ z \in [Nat -> Nat] /\ Totals(t, z)
      BY <2>1, <2>3 DEF RingSums
    <3> HIDE DEF N
    <3> QED BY <2>3, <3>1, TotalsGrow
  <2>6. Len(Stream) = t[N] /\ \A j \in 1 .. Len(line) : Stream[t[k] + j] = line[j]
    BY <2>1, StreamValue DEF DataTypes
  <2>7. PICK r \in Seq(Byte) : Stream = x \o r
    BY <1>5, <1>8 DEF Offered, BeginsWith
  <2> HIDE DEF N, line, x, data
  <2>8. GoesOn(x, r, data, line, t[k], t[k + 1])
    BY <2>3, <2>4, <2>5, <2>6, <2>7 DEF GoesOn
  <2>9. BeginsWith(x \o r, x \o data)
    BY <2>8, StreamGoesOn
  <2>10. Len(x \o data) = Len(x) + Len(data)
    BY <2>3, <2>4, ConcatElements DEF RestOfLine
  <2>11. Offered(c)'
    BY <1>2, <1>3, <2>3, <2>7, <2>9, <2>10 DEF Offered, x, data
  <2> QED BY <1>6, <1>8, <2>11
<1> QED BY <1>7, <1>8

(* A line that is written comes behind all that has been handed to send.   *)
LEMMA WriteReplies ==
  ASSUME HandlerInv, BufferTypes, DataTypes, ReplyInv, NoSeekYet' => NoSeekYet,
         NEW c \in Conns, ProcessWrite(c)
  PROVE  ReplyInv'
<1>1. /\ pc[c] = "line" /\ pc'[c] = "reply" /\ \A d \in Conns \ {c} : pc'[d] = pc[d]
      /\ lseekPos' = lseekPos /\ local' = local /\ ~exited
  BY DEF ProcessWrite, Handled, Goto, HandlerInv, HandlerTypes
<1>2. ~buff'.full => ~buff.full
  BY DEF ProcessWrite, aesd_circular_buffer_add_entry
<1>3. ASSUME NEW d \in Conns, d # c PROVE pc[d] \notin Replying
  <2>1. fileMutex = c
    BY <1>1 DEF HandlerInv, MutexMatches
  <2> QED BY <1>1, <1>3, <2>1 DEF HandlerInv, MutexMatches, Replying
<1>4. Stream \in Seq(Byte) /\ Segment(c) \in Seq(Byte)
  <2>1. PICK z, t : RingSums(z, t)
    BY RingSumsExist DEF DataTypes
  <2> QED BY <1>1, <2>1, StreamValue, SegmentValue DEF DataTypes
<1>5. /\ EndsWith(Stream', Segment(c))
      /\ ~buff.full => Stream' = Stream \o Segment(c)
  BY WriteGrowsStream DEF DataTypes
<1> SUFFICES ASSUME NoSeekYet', NEW d \in Conns
             PROVE  Fresh(d)' /\ (Counts(d)' => Offered(d)' /\ Answered(d)')
  BY <1>1 DEF ReplyInv
<1>6. Fresh(d) /\ (Counts(d) => Offered(d) /\ Answered(d))
  BY DEF ReplyInv
<1>7. Fresh(d)'
  <2>1. CASE d = c
    BY <1>1, <2>1 DEF Fresh
  <2>2. CASE d # c
    BY <1>1, <1>6, <2>2 DEF Fresh
  <2> QED BY <2>1, <2>2
<1>8. Answered(d)'
  <2>1. CASE d = c
    <3>1. Segment(c)' = Segment(c)
      BY <1>1 DEF Segment
    <3> QED BY <1>5, <2>1, <3>1 DEF Answered
  <2>2. CASE d # c
    BY <1>1, <1>3, <2>2 DEF Answered
  <2> QED BY <2>1, <2>2
<1>9. ASSUME ~buff.full PROVE Offered(d)'
  <2>1. Offered(d) /\ Stream' = Stream \o Segment(c)
    BY <1>5, <1>6, <1>9 DEF Counts
  <2>2. PICK r \in Seq(Byte) : Stream = local[d].offered \o r
    BY <2>1 DEF Offered, BeginsWith
  <2>3. PICK x \in Seq(Byte), seg \in Seq(Byte) : x = local[d].offered /\ seg = Segment(c)
    BY <1>4 DEF DataTypes, ReplyTypes
  <2>4. Associates(x, r, seg)
    BY <2>2, JoinsAssociate
  <2>5. r \o seg \in Seq(Byte)
    BY <2>2, <2>3, ConcatElements
  <2>6. BeginsWith(Stream', local[d].offered)
    BY <2>1, <2>2, <2>3, <2>4, <2>5 DEF BeginsWith, Associates
  <2> QED BY <1>1, <2>1, <2>6 DEF Offered
<1>10. ASSUME buff.full, Counts(d)' PROVE Offered(d)'
  <2>1. d = c /\ local[c].start = 1
    <3>1. pc'[d] \in Replying /\ local[d].start = 1
      BY <1>1, <1>2, <1>10 DEF Counts
    <3> QED BY <1>1, <1>3, <3>1
  <2>2. local[c].f_pos = 0 /\ local[c].offered = <<>>
    BY <1>1, <1>6, <2>1 DEF Fresh
  <2>3. PICK y \in Seq(Byte), seg \in Seq(Byte) : Stream' = y \o seg /\ seg = Segment(c)
    BY <1>4, <1>5 DEF EndsWith
  <2>4. Stream' \in Seq(Byte)
    BY <2>3, ConcatElements
  <2>5. Stream' = <<>> \o Stream' /\ Len(<<>>) = 0
    BY <2>4, ConcatEmptySeq
  <2> QED BY <1>1, <2>1, <2>2, <2>4, <2>5 DEF Offered, BeginsWith
<1> QED BY <1>7, <1>8, <1>9, <1>10

LEMMA NextReplies ==
  ASSUME HandlerInv, BufferTypes, DataTypes, ReplyInv, [Next]_vars
  PROVE  ReplyInv'
<1>1. NoSeekYet' => NoSeekYet
  BY HandledKept DEF NoSeekYet
<1>0. /\ DOMAIN local = Conns /\ \A c \in Conns : DOMAIN local[c] = Fields
      /\ pc \in [Conns -> PCs]
  BY DEF HandlerInv, HandlerTypes, LengthsFit
<1>2. ASSUME NEW c \in Conns, ProcessSeek(c) PROVE ReplyInv'
  BY <1>2, SeekNoted DEF ReplyInv
<1>3. ASSUME NEW c \in Conns, ProcessWrite(c) PROVE ReplyInv'
  BY <1>1, <1>3, WriteReplies
<1>4. ASSUME NEW c \in Conns, Recv(c) PROVE ReplyInv'
  BY <1>1, <1>4, RecvReplies DEF DataTypes
<1>5. ASSUME NEW c \in Conns, Reply(c) PROVE ReplyInv'
  BY <1>1, <1>5, SendReplies
<1>6. ASSUME NEW c \in Conns, RecvTimeout(c) \/ NextLine(c) \/ ReplyDone(c) \/ CloseFile(c)
      PROVE  ReplyInv'
  <2>1. /\ \A d \in Conns : local'[d].f_pos = local[d].f_pos /\ local'[d].offered = local[d].offered
        /\ pc'[c] \notin Replying /\ \A d \in Conns \ {c} : pc'[d] = pc[d] /\ local'[d] = local[d]
        /\ buff' = buff /\ (lseekPos = 0 => lseekPos' = 0)
        /\ Fresh(c) => Fresh(c)'
    <3>1. CASE RecvTimeout(c)
      BY <1>0, <3>1 DEF RecvTimeout, Goto, Fields, deviceVars, Replying, Fresh
    <3>2. CASE NextLine(c)
      BY <1>0, <3>2 DEF NextLine, Goto, Fields, deviceVars, Replying, Fresh
    <3>3. CASE ReplyDone(c)
      <4>1. local'[c].start = local[c].start + local[c].segmentLen
        BY <1>0, <3>3 DEF ReplyDone, Fields
      <4>2. local[c].start \in Nat \ {0} /\ local[c].segmentLen \in Nat \ {0}
        <5>1. LengthsFit(c) /\ pc[c] \in {"line", "reply", "blocked"}
          BY <3>3 DEF ReplyDone, Goto, HandlerInv
        <5> QED BY <5>1, SegmentValue, LineInside
      <4>3. local'[c].start # 1
        BY <4>1, <4>2
      <4> QED BY <1>0, <3>3, <4>3 DEF ReplyDone, Goto, Fields, deviceVars, Replying, Fresh
    <3>4. CASE CloseFile(c)
      BY <1>0, <3>4 DEF CloseFile, Goto, Fields, Replying, Fresh
    <3> QED BY <1>6, <3>1, <3>2, <3>3, <3>4
  <2>2. ASSUME NEW d \in Conns
        PROVE  /\ Fresh(d) => Fresh(d)'
               /\ pc'[d] \in Replying =>
                    /\ pc[d] \in Replying /\ local'[d].fileOpen = local[d].fileOpen
                    /\ Segment(d)' = Segment(d) /\ local'[d].start = local[d].start
    <3>1. CASE d = c
      BY <2>1, <3>1
    <3>2. CASE d # c
      BY <2>1, <3>2 DEF Segment, Fresh
    <3> QED BY <3>1, <3>2
  <2> QED BY <1>1, <2>1, <2>2, QuietReplies
<1>7. CASE \/ UNCHANGED vars \/ sigHandler
           \/ \E c \in Conns : ClientSend(c) \/ ClientClose(c)
           \/ \E c \in Conns :
                \/ Start(c) \/ StartFails(c) \/ RecvEnds(c) \/ StringRunsOn(c) \/ ProcessWriteFails(c)
                \/ ReplyKills(c) \/ CloseConnectionFD(c) \/ SendFails(c) \/ SendReturns(c)
  <2>1. /\ local' = local /\ buff' = buff /\ lseekPos' = lseekPos
        /\ \A d \in Conns : pc'[d] \in Replying => pc[d] \in Replying
        /\ \A d \in Conns : pc'[d] \in {"scan", "line"} => pc'[d] = pc[d]
    BY <1>0, <1>7 DEF vars, deviceVars, sigHandler, ClientSend, ClientClose, Start, StartFails,
                      RecvEnds, StringRunsOn, ProcessWriteFails, ReplyKills, CloseConnectionFD,
                      SendFails, SendReturns, Exit, Goto, Replying
  <2>2. \A d \in Conns : Segment(d)' = Segment(d) /\ (Fresh(d) => Fresh(d)')
    BY <2>1 DEF Segment, Fresh
  <2> QED BY <1>1, <2>1, <2>2, QuietReplies
<1> QED BY <1>2, <1>3, <1>4, <1>5, <1>6, <1>7 DEF Next, HandlerStep

LEMMA SuffixOfConcat ==
  ASSUME NEW S, NEW h \in Seq(S), NEW x \in Seq(S)
  PROVE  IsSuffix(x, h \o x)
<1> DEFINE m == Len(h)
           n == Len(x)
           u == Reverse(x)
           v == Reverse(h \o x)
<1>1. /\ m \in Nat /\ n \in Nat
      /\ h \o x \in Seq(S) /\ Len(h \o x) = m + n
      /\ \A i \in 1 .. n : (h \o x)[m + i] = x[i]
  BY ConcatElements
<1>2. u = [i \in 1 .. n |-> x[(n - i) + 1]]
      /\ v = [i \in 1 .. m + n |-> (h \o x)[((m + n) - i) + 1]]
  BY <1>1 DEF Reverse
<1>3. Len(u) = n /\ Len(v) = m + n
  BY <1>1, <1>2
<1> HIDE DEF m, n, u, v
<1>4. ASSUME NEW i \in 1 .. n PROVE u[i] = x[(n - i) + 1] /\ v[i] = u[i] /\ u[i] \in S
  <2>1. /\ (n - i) + 1 \in 1 .. n /\ i \in 1 .. m + n
        /\ ((m + n) - i) + 1 = m + ((n - i) + 1)
    BY <1>1
  <2>2. x[(n - i) + 1] \in S
    BY <2>1 DEF n
  <2> QED BY <1>1, <1>2, <2>1, <2>2
<1>5. SubSeq(u, 1, n) = SubSeq(v, 1, n)
  <2>1. 1 \in Int /\ n \in Int /\ n - 1 + 1 = n /\ (n >= 1 <=> 1 <= n)
        /\ \A i \in Int : 1 + i - 1 = i
    BY <1>1
  <2>2. \A i \in 1 .. n : u[i] \in S /\ v[i] \in S /\ u[i] = v[i]
    BY <1>4
  <2>3. /\ SubSeq(u, 1, n) \in Seq(S) /\ Len(SubSeq(u, 1, n)) = n
        /\ \A i \in 1 .. n : SubSeq(u, 1, n)[i] = u[i]
    BY <1>1, <2>1, <2>2, SubSeqProperties
  <2>4. /\ SubSeq(v, 1, n) \in Seq(S) /\ Len(SubSeq(v, 1, n)) = n
        /\ \A i \in 1 .. n : SubSeq(v, 1, n)[i] = v[i]
    BY <1>1, <2>1, <2>2, SubSeqProperties
  <2> QED BY <2>2, <2>3, <2>4, SeqEqual
<1>6. IsPrefix(u, v)
  BY <1>1, <1>3, <1>5 DEF IsPrefix
<1> QED BY <1>6 DEF IsSuffix, u, v

(* When a read finds nothing more, all that is stored has been handed on.  *)
LEMMA ReplyComplete ==
  ASSUME HandlerInv, BufferTypes, DataTypes, ReplyInv, [Next]_vars,
         NEW c \in Conns, ReplyEnds(c)
  PROVE  local[c].offered = Stream /\ IsSuffix(Segment(c), local[c].offered)
<1>1. ReplyDone(c)
  <2>1. pc \in [Conns -> PCs] /\ pc[c] = "reply" /\ pc'[c] = "scan"
    BY DEF ReplyEnds, HandlerInv, HandlerTypes
  <2>2. ASSUME NEW d \in Conns, HandlerStep(d) \/ SendReturns(d), d # c PROVE FALSE
    <3>1. \E from, to : Goto(d, from, to)
      BY <2>2 DEF HandlerStep, Start, StartFails, Recv, RecvEnds, RecvTimeout, NextLine,
                  StringRunsOn, ProcessSeek, ProcessWrite, Handled, ProcessWriteFails, Reply,
                  SendFails, SendReturns, ReplyKills, ReplyDone, CloseFile, CloseConnectionFD,
                  Exit
    <3> QED BY <2>1, <2>2, <3>1 DEF Goto
  <2>3. CASE UNCHANGED vars \/ sigHandler \/ \E d \in Conns : ClientSend(d) \/ ClientClose(d)
    BY <2>1, <2>3 DEF vars, sigHandler, ClientSend, ClientClose
  <2>4. CASE HandlerStep(c) \/ SendReturns(c)
    BY <2>1, <2>4 DEF HandlerStep, Start, StartFails, Recv, RecvEnds, RecvTimeout, NextLine,
                  StringRunsOn, ProcessSeek, ProcessWrite, Handled, ProcessWriteFails, Reply,
                  SendFails, SendReturns, ReplyKills, CloseFile, CloseConnectionFD, Exit, Goto
  <2> QED BY <2>2, <2>3, <2>4 DEF Next
<1>2. NextRead(c) = NULL
  BY <1>1 DEF ReplyDone, ReplyEnds
<1>3. /\ lseekPos = 0 /\ Offered(c) /\ EndsWith(Stream, Segment(c))
  <2>1. NoSeekYet /\ Counts(c) /\ pc[c] \in Replying /\ local[c].fileOpen
    BY DEF ReplyEnds, NoSeekYet, Counts, Replying
  <2> QED BY <2>1 DEF ReplyInv, Answered
<1>4. PICK z, t : RingSums(z, t)
  BY RingSumsExist DEF DataTypes
<1> DEFINE x == local[c].offered
           N == numEntries(buff)
<1>5. /\ local[c].f_pos + lseekPos = Len(x) /\ Len(x) \in Nat
      /\ x \in Seq(Byte) /\ N \in Nat /\ buff.out_offs \in Slots
  BY <1>3, RingShape DEF Offered, DataTypes, ReplyTypes
<1>6. ~(Len(x) < t[N])
  <2> SUFFICES ASSUME Len(x) < t[N] PROVE FALSE
    OBVIOUS
  <2>1. PICK k \in 0 .. N - 1 :
          /\ t[k] <= Len(x)
          /\ NextRead(c) = [slot |-> VirtualIndex(buff, k), offset |-> Len(x) - t[k]]
    BY <1>4, <1>5, NextReadValue DEF DataTypes
  <2>2. k \in Nat /\ t[k] \in Nat /\ VirtualIndex(buff, k) \in Slots
    <3>1. k \in Nat
      BY <1>5, <2>1
    <3>2. t[k] \in Nat
      BY <1>4, <3>1 DEF RingSums, Totals
    <3>3. VirtualIndex(buff, k) \in Slots
      BY <1>5, <3>1, VirtualIndexInSlots
    <3> QED BY <3>1, <3>2, <3>3
  <2>3. Len(x) - t[k] \in Nat
    BY <1>5, <2>1, <2>2
  <2>4. NextRead(c) \in [slot : Slots, offset : Nat]
    BY <2>1, <2>2, <2>3
  <2> QED BY <1>2, <2>4, NullAssumption
<1>7. Len(Stream) = t[N]
  BY <1>4, StreamValue DEF DataTypes
<1>8. PICK r \in Seq(Byte) : Stream = x \o r
  BY <1>3 DEF Offered, BeginsWith
<1> HIDE DEF x, N
<1>9. r = <<>>
  <2>1. Len(x \o r) = Len(x) + Len(r) /\ Len(r) \in Nat
    BY <1>5, <1>8, ConcatElements
  <2> QED BY <1>5, <1>6, <1>7, <1>8, <2>1
<1>10. x = Stream
  BY <1>5, <1>8, <1>9, ConcatEmptySeq
<1>11. IsSuffix(Segment(c), Stream)
  <2>1. PICK h \in Seq(Byte) : Stream = h \o Segment(c)
    BY <1>3 DEF EndsWith
  <2>2. Segment(c) \in Seq(Byte)
    BY SegmentValue DEF ReplyEnds
  <2> QED BY <2>1, <2>2, SuffixOfConcat
<1> QED BY <1>10, <1>11 DEF x

(* When a handler ends a reply that no signal has interrupted, nobody has  *)
(* sent anything like a seek command, and the line is the first of its     *)
(* buffer or the ring has not wrapped: since it opened the file it has     *)
(* handed to send all that is stored, once and in order, whatever the      *)
(* others wrote meanwhile, and the line it answers last.                   *)
THEOREM RepliesComplete == Spec => RepliesWithStream
<1>1. Init => ReplyInv
  <2> SUFFICES ASSUME Init, NEW c \in Conns
               PROVE  lseekPos = 0 /\ Fresh(c) /\ Offered(c) /\ Answered(c)
    BY DEF Init, ReplyInv
  <2>1. lseekPos = 0 /\ pc[c] = "start" /\ local[c].f_pos = 0 /\ local[c].offered = <<>>
    BY DEF Init, Locals
  <2>2. PICK z, t : RingSums(z, t)
    BY InitData, RingSumsExist DEF DataTypes
  <2>3. Stream \in Seq(Byte)
    BY <2>2, InitData, StreamValue DEF DataTypes
  <2>4. Stream = <<>> \o Stream /\ Len(<<>>) = 0
    BY <2>3, ConcatEmptySeq
  <2>5. Offered(c)
    BY <2>1, <2>3, <2>4 DEF Offered, BeginsWith
  <2> QED BY <2>1, <2>5 DEF Answered, Fresh, Replying
<1>2. HandlerInv /\ BufferTypes /\ DataTypes /\ ReplyInv /\ [Next]_vars
        => BufferTypes' /\ DataTypes' /\ ReplyInv'
  BY BufferTypesHold, DataKept, NextReplies
<1>3. HandlerInv /\ BufferTypes /\ DataTypes /\ ReplyInv /\ [Next]_vars
        => [\A c \in Conns :
              ReplyEnds(c) => local[c].offered = Stream /\ IsSuffix(Segment(c), local[c].offered)]_vars
  BY ReplyComplete
<1> QED BY <1>1, <1>2, <1>3, InitInv, NextInv, InitBuffers, InitData, PTL
        DEF Spec, RepliesWithStream
=============================================================================
