---------------------------- MODULE DeviceProofs ----------------------------
(***************************************************************************)
(* The server on its device, for any number of handlers, lines and seek    *)
(* commands, with the server killed and started again at any moment: to    *)
(* the driver it is one of the callers of CharDriver, so all that is       *)
(* proved of the driver holds, its handlers never meet inside it, what     *)
(* they store are lines as the clients sent them, and what they hand to    *)
(* send is all that is stored from where the reply starts.                 *)
(***************************************************************************)
EXTENDS HandlersOnDevice, CharDriverProofs

(* While nobody has the device open its position is 0: main's own open and *)
(* close of the device, before there are handlers, changes nothing.        *)
PositionReset == (\A p \in Procs : pc[p] = "closed") => lseekPos = 0

(* Only the holder of FileMutex calls the driver; a call that outlives its *)
(* server is the only one until the device is closed.                      *)
OneCaller ==
  /\ handler \in [Procs -> Stages]
  /\ \A c \in Procs : fileMutex = c <=> handler[c] \in {"called", "reply", "reading"}
  /\ \A c \in Procs :
       running /\ pc[c] \notin InUserSpace => handler[c] \in {"called", "reading"}
  /\ \A c, d \in Procs :
       pc[c] \notin InUserSpace /\ pc[d] \notin InUserSpace => c = d

SystemInv == DriverInv /\ PositionReset /\ OneCaller

-----------------------------------------------------------------------------
(* Every step of the server is a step of the driver's, or leaves the       *)
(* device alone.                                                           *)
LEMMA StepIsDriverStep ==
  ASSUME PositionReset, [SystemNext]_allVars
  PROVE  [Next]_vars
<1> USE DEF Next, UserStep
<1>1. CASE Load
  BY <1>1 DEF Load
<1>2. CASE StartServer
  BY <1>2 DEF StartServer, PositionReset, vars, devVars, lockVars, heapVars
<1>3. CASE Killed
  BY <1>3 DEF Killed, deviceVars
<1>4. ASSUME NEW c \in Procs, Receive(c) PROVE [Next]_vars
  BY <1>4 DEF Receive
<1>5. ASSUME NEW c \in Procs, CallDevice(c) PROVE [Next]_vars
  BY <1>5 DEF CallDevice
<1>6. ASSUME NEW c \in Procs, Called(c) \/ ReplySend(c) \/ ReplyEnd(c)
      PROVE  [Next]_vars
  BY <1>6 DEF Called, ReplySend, ReplyEnd, deviceVars
<1>7. ASSUME NEW c \in Procs, ReplyRead(c) PROVE [Next]_vars
  BY <1>7 DEF ReplyRead
<1>8. ASSUME NEW c \in Procs, Close(c) \/ CloseDead(c) PROVE [Next]_vars
  BY <1>8 DEF Close, CloseDead
<1>9. ASSUME NEW c \in Procs, InDriver(c) PROVE [Next]_vars
  BY <1>9 DEF InDriver
<1>10. CASE UNCHANGED allVars
  BY <1>10 DEF allVars
<1> QED
  BY <1>1, <1>2, <1>3, <1>4, <1>5, <1>6, <1>7, <1>8, <1>9, <1>10 DEF SystemNext

(* A step inside the driver is taken by somebody who is in it.             *)
LEMMA InsideMoves ==
  ASSUME NEW c \in Procs, InDriver(c)
  PROVE  /\ pc[c] \notin InUserSpace
         /\ \E to : to # "closed" /\ pc' = [pc EXCEPT ![c] = to]
<1> USE DEF Goto, Return, InUserSpace
<1>1. CASE EntryLockStep(c)
  BY <1>1 DEF EntryLockStep, WriteLock, WriteTooLarge
<1>2. CASE FlushLock(c)
  BY <1>2 DEF FlushLock
<1>3. CASE ReadLock(c) \/ SeekLock(c) \/ IoctlLock(c)
  BY <1>3 DEF ReadLock, SeekLock, IoctlLock, BuffLock
<1>4. CASE WriteInterrupted(c) \/ FlushInterrupted(c)
  BY <1>4 DEF WriteInterrupted, FlushInterrupted
<1>5. CASE BuffLockInterrupted(c)
  BY <1>5 DEF BuffLockInterrupted
<1>6. CASE WriteLine(c) \/ WriteLineFails(c) \/ WriteLeftover(c) \/ WriteDone(c)
  BY <1>6 DEF WriteLine, WriteLineFails, WriteLeftover, WriteDone
<1>7. CASE FlushAdd(c) \/ FlushFree(c)
  BY <1>7 DEF FlushAdd, FlushFree
<1>8. CASE ReadFind(c) \/ ReadEnd(c) \/ ReadCopy(c)
  BY <1>8 DEF ReadFind, ReadEnd, ReadCopy
<1>9. CASE SeekLoad(c) \/ SeekStore(c) \/ SeekReturn(c)
  BY <1>9 DEF SeekLoad, SeekStore, SeekReturn
<1>10. CASE IoctlSeekTo(c) \/ IoctlInvalid(c)
  BY <1>10 DEF IoctlSeekTo, IoctlInvalid
<1> QED
  BY <1>1, <1>2, <1>3, <1>4, <1>5, <1>6, <1>7, <1>8, <1>9, <1>10
  DEF InDriver, BuffLockStep, SignalStep, DriverStep

LEMMA InitSystemInv == SystemInit => SystemInv
<1> SUFFICES ASSUME SystemInit PROVE SystemInv
  OBVIOUS
<1>1. DriverInv
  BY InitEmpty DEF SystemInit
<1>2. PositionReset
  BY DEF SystemInit, Init, PositionReset
<1>3. OneCaller
  <2>1. \A c \in Procs : pc[c] = "closed" /\ handler[c] = "recv" /\ fileMutex # c
    BY DriverAssumption DEF SystemInit, Init
  <2>2. handler \in [Procs -> Stages]
    BY DEF SystemInit, Stages
  <2> QED BY <2>1, <2>2 DEF OneCaller, InUserSpace
<1> QED BY <1>1, <1>2, <1>3 DEF SystemInv

(* What a step does to the places of the handlers in the driver.           *)
LEMMA SystemStepInv ==
  ASSUME SystemInv, [SystemNext]_allVars
  PROVE  PositionReset' /\ OneCaller'
<1> USE DriverAssumption DEF SystemInv, InUserSpace, Stages
<1>0. pc \in [Procs -> PCs]
  BY DEF DriverInv, MemoryTypes
<1>1. CASE Load
  BY <1>1 DEF Load, aesd_init_module, handlerVars, PositionReset, OneCaller
<1>2. CASE StartServer
  BY <1>2 DEF StartServer, PositionReset, OneCaller
<1>3. CASE Killed
  <2>1. /\ ~running' /\ fileMutex' = NoProc
        /\ handler' = [c \in Procs |-> "recv"] /\ UNCHANGED <<pc, lseekPos>>
    BY <1>3 DEF Killed, deviceVars, vars, devVars
  <2>2. PositionReset'
    BY <2>1 DEF PositionReset
  <2> QED BY <2>1, <2>2 DEF OneCaller
<1>4. ASSUME NEW c \in Procs, Receive(c) PROVE PositionReset' /\ OneCaller'
  <2>1. /\ running /\ handler[c] = "recv" /\ pc[c] = "closed"
        /\ handler' = [handler EXCEPT ![c] = "scan"]
        /\ pc' = [pc EXCEPT ![c] = "idle"]
        /\ UNCHANGED <<fileMutex, running>>
    BY <1>4 DEF Receive, HandlerGoto, aesd_open, Goto
  <2> QED BY <1>0, <2>1 DEF PositionReset, OneCaller
<1>5. ASSUME NEW c \in Procs, CallDevice(c) PROVE PositionReset' /\ OneCaller'
  <2>1. /\ running /\ handler[c] = "scan" /\ fileMutex = NoProc /\ fileMutex' = c
        /\ handler' = [handler EXCEPT ![c] = "called"]
        /\ UNCHANGED running
    BY <1>5 DEF CallDevice, HandlerGoto, LockFileMutex
  <2>2. pc[c] = "idle" /\ \E to : to # "closed" /\ pc' = [pc EXCEPT ![c] = to]
    BY <1>5 DEF CallDevice, WriteCall, IoctlCall, Enter, Goto
  <2>3. \A d \in Procs : pc[d] \in InUserSpace
    BY <2>1 DEF OneCaller
  <2> QED BY <1>0, <2>1, <2>2, <2>3 DEF PositionReset, OneCaller
<1>6. ASSUME NEW c \in Procs, Called(c) \/ ReplySend(c)
      PROVE  PositionReset' /\ OneCaller'
  <2>1. /\ running /\ handler[c] \in {"called", "reading"} /\ pc[c] = "idle"
        /\ handler' = [handler EXCEPT ![c] = "reply"]
        /\ UNCHANGED <<running, fileMutex, pc, lseekPos>>
    BY <1>6 DEF Called, ReplySend, HandlerGoto, deviceVars, vars, devVars
  <2> QED BY <2>1 DEF PositionReset, OneCaller
<1>7. ASSUME NEW c \in Procs, ReplyEnd(c) PROVE PositionReset' /\ OneCaller'
  <2>1. /\ running /\ handler[c] = "reading" /\ pc[c] = "idle" /\ fileMutex' = NoProc
        /\ handler' = [handler EXCEPT ![c] = "scan"]
        /\ UNCHANGED <<running, pc, lseekPos>>
    BY <1>7 DEF ReplyEnd, HandlerGoto, deviceVars, vars, devVars
  <2> QED BY <2>1 DEF PositionReset, OneCaller
<1>8. ASSUME NEW c \in Procs, ReplyRead(c) PROVE PositionReset' /\ OneCaller'
  <2>1. /\ running /\ handler[c] = "reply"
        /\ handler' = [handler EXCEPT ![c] = "reading"]
        /\ UNCHANGED <<running, fileMutex>>
    BY <1>8 DEF ReplyRead, HandlerGoto
  <2>2. pc[c] = "idle" /\ \E to : to # "closed" /\ pc' = [pc EXCEPT ![c] = to]
    BY <1>8 DEF ReplyRead, ReadCall, Enter, Goto
  <2>3. \A d \in Procs \ {c} : pc[d] \in InUserSpace
    BY <2>1 DEF OneCaller
  <2> QED BY <1>0, <2>1, <2>2, <2>3 DEF PositionReset, OneCaller
<1>9. ASSUME NEW c \in Procs, Close(c) PROVE PositionReset' /\ OneCaller'
  <2>1. /\ running /\ handler[c] = "scan" /\ pc[c] = "idle"
        /\ handler' = [handler EXCEPT ![c] = "recv"]
        /\ pc' = [pc EXCEPT ![c] = "closed"] /\ lseekPos' = 0
        /\ UNCHANGED <<running, fileMutex>>
    BY <1>9 DEF Close, HandlerGoto, aesd_release, CloseFile, Goto
  <2> QED BY <1>0, <2>1 DEF PositionReset, OneCaller
<1>10. ASSUME NEW c \in Procs, CloseDead(c) PROVE PositionReset' /\ OneCaller'
  <2>1. /\ ~running /\ pc[c] = "idle"
        /\ pc' = [pc EXCEPT ![c] = "closed"] /\ lseekPos' = 0
        /\ UNCHANGED <<running, fileMutex, handler>>
    BY <1>10 DEF CloseDead, handlerVars, aesd_release, CloseFile, Goto
  <2> QED BY <1>0, <2>1 DEF PositionReset, OneCaller
<1>11. ASSUME NEW c \in Procs, InDriver(c) PROVE PositionReset' /\ OneCaller'
  <2>1. PICK to : to # "closed" /\ pc' = [pc EXCEPT ![c] = to]
    BY <1>11, InsideMoves
  <2>2. pc[c] \notin InUserSpace /\ UNCHANGED <<running, fileMutex, handler>>
    BY <1>11, InsideMoves DEF InDriver, handlerVars
  <2> QED BY <1>0, <2>1, <2>2 DEF PositionReset, OneCaller
<1>12. CASE UNCHANGED allVars
  BY <1>12 DEF allVars, vars, devVars, handlerVars, PositionReset, OneCaller
<1> QED
  BY <1>1, <1>2, <1>3, <1>4, <1>5, <1>6, <1>7, <1>8, <1>9, <1>10, <1>11, <1>12
  DEF SystemNext

LEMMA NextSystemInv == SystemInv /\ [SystemNext]_allVars => SystemInv'
<1> SUFFICES ASSUME SystemInv, [SystemNext]_allVars PROVE SystemInv'
  OBVIOUS
<1>1. [Next]_vars
  BY StepIsDriverStep DEF SystemInv
<1>2. DriverInv'
  BY <1>1, NextKeeps DEF SystemInv
<1> QED BY <1>2, SystemStepInv DEF SystemInv

LEMMA SystemCorrect == System => []SystemInv
  BY InitSystemInv, NextSystemInv, PTL DEF System

(* The server, killed and started again as it may be, is one of the users  *)
(* that CharDriver allows for: whatever is proved of the driver holds when *)
(* the server runs on it.                                                  *)
THEOREM ServerUsesDriver == System => Spec
<1>1. SystemInit => Init
  BY DEF SystemInit
<1>2. SystemInv /\ [SystemNext]_allVars => [Next]_vars
  BY StepIsDriverStep DEF SystemInv
<1> QED BY <1>1, <1>2, SystemCorrect, PTL DEF System, Spec

(* So all that the server, its deaths and restarts do to the device are    *)
(* steps of the log of lines.                                              *)
THEOREM ServerUsesLog == System => RefinesLineLog
  BY ServerUsesDriver, ImplementsLineLog

(* FileMutex keeps the handlers apart inside the driver: none of them ever *)
(* waits for one of the driver's mutexes, nor does it after a server that  *)
(* was killed in the middle of a call.                                     *)
THEOREM HandlersApart == System => []Uncontended
<1>1. SystemInv => Uncontended
  <2> SUFFICES ASSUME SystemInv, NEW c \in Procs
               PROVE  /\ pc[c] = "w_lock" => entryMutex = NoProc
                      /\ pc[c] \in {"f_lock", "r_lock", "i_lock"} => buffMutex = NoProc
    BY DEF Uncontended
  <2>1. /\ entryMutex \in Procs \cup {NoProc}
        /\ buffMutex \in Procs \cup {NoProc}
        /\ \A p \in Procs : /\ entryMutex = p => pc[p] \in HoldsEntryMutex
                            /\ buffMutex = p => pc[p] \in HoldsBuffMutex
    BY DEF SystemInv, DriverInv, MemoryTypes, LocksMatchCalls
  <2>2. \A p \in Procs :
          pc[p] \in HoldsEntryMutex \cup HoldsBuffMutex /\ pc[c] \notin InUserSpace => p = c
    BY DEF SystemInv, OneCaller, HoldsEntryMutex, HoldsBuffMutex, InUserSpace
  <2> QED BY <2>1, <2>2 DEF HoldsEntryMutex, HoldsBuffMutex, InUserSpace
<1> QED BY <1>1, SystemCorrect, PTL

-----------------------------------------------------------------------------
(* One write, one line. *)

(* What is left of the input at each step of a write: a line of the        *)
(* handler's until it is staged, nothing afterwards.                       *)
RestFor(at, rest) ==
  /\ at = "w_lock" => rest \in Payloads
  /\ at = "w_scan" => rest \in Payloads \cup {<<>>}
  /\ at \in {"f_lock", "f_add", "f_free"} => rest = <<>>

RestInv == \A p \in Procs : RestFor(pc[p], call[p].rest)

Flushing(p) == pc[p] \in {"f_lock", "f_add"}

(* Nothing is staged but a line whose writer is handing it over.           *)
StagedLine == Partial = <<>> \/ (Partial \in Payloads /\ \E p \in Procs : Flushing(p))

WriteInv == RestInv /\ StagedLine /\ Lines \in Seq(Payloads)

(* StorePartial takes a line as a whole or not at all.                     *)
LEMMA WholeLine ==
  ASSUME NEW d \in Payloads, NEW k \in DOMAIN d, d[k] = Newline
  PROVE  /\ d \in Seq(Byte) /\ k = Len(d)
         /\ SubSeq(d, 1, k) = d
         /\ SubSeq(d, k + 1, Len(d)) = <<>>
<1>1. d \in Seq(Byte)
  BY DriverAssumption
<1>2. EndsLine(d, Len(d))
  BY LinesAssumption
<1>3. Len(d) \in Nat /\ k \in 1 .. Len(d) /\ \A j \in 1 .. Len(d) - 1 : d[j] # Newline
  BY <1>1, <1>2 DEF EndsLine
<1>4. k = Len(d)
  BY <1>3
<1>5. SubSeq(d, 1, Len(d)) = d
  BY <1>1, SubSeqFull
<1>6. SubSeq(d, Len(d) + 1, Len(d)) = <<>>
  BY <1>1, <1>3, SubSeqEmpty
<1> QED BY <1>1, <1>4, <1>5, <1>6

(* Only one process moves, and what is left of its input fits its step.    *)
LEMMA RestMoves ==
  ASSUME DriverInv, DriverInv', RestInv, NEW p \in Procs,
         \A q \in Procs \ {p} : pc'[q] = pc[q] /\ call'[q].rest = call[q].rest,
         RestFor(pc'[p], call'[p].rest)
  PROVE  RestInv'
<1> SUFFICES ASSUME NEW q \in Procs PROVE RestFor(pc'[q], call'[q].rest)
  BY DEF RestInv
<1>1. CASE q = p
  BY <1>1
<1>2. CASE q # p
  BY <1>2 DEF RestInv
<1> QED BY <1>1, <1>2

LEMMA QuietRest ==
  ASSUME DriverInv, DriverInv', RestInv, NEW p \in Procs, Quiet(p), ~FlushInterrupted(p)
  PROVE  RestInv'
<1>1. PICK to : QuietMove(p, to)
  BY QuietSteps
<1>2. /\ \A q \in Procs \ {p} : pc'[q] = pc[q] /\ call'[q] = call[q]
      /\ pc \in [Procs -> PCs]
  BY <1>1 DEF QuietMove, LockMove, FrameFit, DriverInv, MemoryTypes
<1>3. CASE WriteLock(p)
  <2>1. pc[p] = "w_lock" /\ pc'[p] = "w_scan" /\ call' = call
    BY <1>2, <1>3 DEF WriteLock, Goto
  <2>2. RestFor(pc'[p], call'[p].rest)
    BY <2>1 DEF RestInv, RestFor
  <2> QED BY <1>2, <2>2, RestMoves
<1>4. CASE FlushLock(p)
  <2>1. pc[p] = "f_lock" /\ call' = call
    BY <1>4 DEF FlushLock, Goto
  <2>2. pc'[p] = "f_add"
    BY <2>1, FlushGoesOn
  <2>3. RestFor(pc'[p], call'[p].rest)
    BY <2>1, <2>2 DEF RestInv, RestFor
  <2> QED BY <1>2, <2>3, RestMoves
<1>5. CASE ~WriteLock(p) /\ ~FlushLock(p)
  <2>1. pc'[p] \notin {"w_lock", "w_scan", "f_lock", "f_add", "f_free"}
    BY <1>2, <1>5
    DEF Quiet, aesd_open, aesd_release, CloseFile, WriteTooLarge,
        WriteInterrupted, WriteDone, ReadCall, ReadLock, ReadFind,
        ReadEnd, ReadCopy, SeekCall, SeekLock, SeekLoad, SeekStore, SeekReturn,
        IoctlRejected, IoctlCall, IoctlLock, IoctlSeekTo, IoctlInvalid,
        BuffLockInterrupted, BuffLock, Return, Enter, Goto
  <2>2. RestFor(pc'[p], call'[p].rest)
    BY <2>1 DEF RestFor
  <2> QED BY <1>2, <2>2, RestMoves
<1> QED BY <1>3, <1>4, <1>5

LEMMA WriteRest ==
  ASSUME DriverInv, DriverInv', RestInv, NEW p \in Procs,
         WriteCall(p) \/ FlushAdd(p) \/ FlushFree(p)
  PROVE  RestInv'
<1>1. /\ pc \in [Procs -> PCs] /\ DOMAIN call = Procs
      /\ DOMAIN call[p] = DOMAIN NoCall
  BY DEF DriverInv, MemoryTypes, FrameInv
<1>2. CASE WriteCall(p)
  <2>1. PICK d \in Payloads :
          /\ pc' = [pc EXCEPT ![p] = "w_lock"]
          /\ call' = [call EXCEPT ![p] = [NoCall EXCEPT !.rest = d, !.count = Len(d)]]
    BY <1>2 DEF WriteCall, Enter, Goto
  <2>2. pc'[p] = "w_lock" /\ call'[p].rest = d
    BY <1>1, <2>1 DEF NoCall
  <2>3. RestFor(pc'[p], call'[p].rest)
    BY <2>2 DEF RestFor
  <2> QED BY <1>1, <2>1, <2>3, RestMoves
<1>3. CASE FlushAdd(p) \/ FlushFree(p)
  <2>1. PICK ptr, to :
          /\ pc[p] \in {"f_add", "f_free"} /\ to \in {"f_free", "w_scan"}
          /\ pc' = [pc EXCEPT ![p] = to]
          /\ call' = [call EXCEPT ![p].freePtr = ptr]
    BY <1>3 DEF FlushAdd, FlushFree, Goto
  <2>2. call[p].rest = <<>>
    BY <2>1 DEF RestInv, RestFor
  <2>3. pc'[p] = to /\ call'[p].rest = <<>>
    BY <1>1, <2>1, <2>2 DEF NoCall
  <2>4. RestFor(pc'[p], call'[p].rest)
    BY <2>1, <2>3 DEF RestFor
  <2> QED BY <1>1, <2>1, <2>4, RestMoves
<1> QED BY <1>2, <1>3

LEMMA StoreRest ==
  ASSUME DriverInv, DriverInv', RestInv, NEW p \in Procs,
         WriteLine(p) \/ WriteLineFails(p) \/ WriteLeftover(p)
  PROVE  RestInv'
<1>1. /\ pc \in [Procs -> PCs] /\ DOMAIN call = Procs
      /\ DOMAIN call[p] = DOMAIN NoCall
  BY DEF DriverInv, MemoryTypes, FrameInv
<1>2. CASE WriteLine(p)
  <2> DEFINE s == call[p].rest
  <2>1. pc[p] = "w_scan" /\ pc' = [pc EXCEPT ![p] = "f_lock"]
    BY <1>2 DEF WriteLine, Goto
  <2>2. PICK k \in DOMAIN s :
          /\ EndsLine(s, k)
          /\ call' = [call EXCEPT ![p].rest = SubSeq(s, k + 1, Len(s))]
    BY <1>2 DEF WriteLine
  <2>3. s \in Payloads
    BY <2>1, <2>2 DEF RestInv, RestFor
  <2>4. SubSeq(s, k + 1, Len(s)) = <<>>
    BY <2>2, <2>3, WholeLine DEF EndsLine
  <2>5. pc'[p] = "f_lock" /\ call'[p].rest = <<>>
    BY <1>1, <2>1, <2>2, <2>4 DEF NoCall
  <2>6. RestFor(pc'[p], call'[p].rest)
    BY <2>5 DEF RestFor
  <2> QED BY <1>1, <2>1, <2>2, <2>6, RestMoves
<1>3. CASE WriteLineFails(p) \/ WriteLeftover(p)
  <2>1. PICK fr : pc' = [pc EXCEPT ![p] = "idle"] /\ call' = [call EXCEPT ![p] = fr]
    BY <1>3 DEF WriteLineFails, WriteLeftover, Return, Goto
  <2>2. RestFor(pc'[p], call'[p].rest)
    BY <1>1, <2>1 DEF RestFor
  <2> QED BY <1>1, <2>1, <2>2, RestMoves
<1> QED BY <1>2, <1>3

(* Without interrupted flushes a write of the handler's line goes its way. *)
LEMMA RestKept ==
  ASSUME DriverInv, DriverInv', RestInv, Uncontended, [Next]_vars
  PROVE  RestInv'
<1>1. CASE aesd_init_module \/ aesd_cleanup_module
  BY <1>1 DEF aesd_init_module, aesd_cleanup_module, RestInv
<1>2. CASE \E p \in Procs : Quiet(p)
  <2> PICK p \in Procs : Quiet(p)
    BY <1>2
  <2>1. ~FlushInterrupted(p)
    BY DEF FlushInterrupted, Goto, Uncontended
  <2> QED BY <2>1, QuietRest
<1>3. CASE \E p \in Procs : WriteCall(p) \/ FlushAdd(p) \/ FlushFree(p)
  BY <1>3, WriteRest
<1>4. CASE \E p \in Procs : WriteLine(p) \/ WriteLineFails(p) \/ WriteLeftover(p)
  BY <1>4, StoreRest
<1>5. CASE UNCHANGED vars
  BY <1>5 DEF vars, RestInv
<1> QED BY <1>1, <1>2, <1>3, <1>4, <1>5, NextCases

(* What is stored when StorePartial has room: the whole line.              *)
LEMMA StoredLine ==
  ASSUME DriverInv, RestInv, Partial = <<>>,
         NEW p \in Procs, NEW to, NEW b, NEW chunk,
         StoreMove(p, to, b, chunk), StoreFits(b, Len(chunk))
  PROVE  to = "f_lock" /\ Partial' = call[p].rest /\ Partial' \in Payloads
<1> DEFINE s == call[p].rest
<1>1. /\ pc[p] = "w_scan" /\ to \in {"idle", "f_lock"}
      /\ chunk \in Seq(Byte) /\ Len(chunk) > 0
      /\ chunk = IF to = "f_lock" THEN SubSeq(s, 1, Len(chunk)) ELSE s
      /\ \A j \in DOMAIN chunk : chunk[j] = Newline => to = "f_lock"
  BY DEF StoreMove
<1>2. to = "f_lock" =>
        chunk[Len(chunk)] = Newline /\ Len(call'[p].rest) = Len(s) - Len(chunk)
  BY DEF StoreMove
<1>3. s \in Seq(Byte) /\ call'[p].rest \in Seq(Byte)
  BY DEF StoreMove, FrameFit, DriverInv, FrameInv
<1>4. Len(s) \in Nat /\ Len(chunk) \in Nat /\ Len(call'[p].rest) \in Nat
  BY <1>1, <1>3
<1>5. s \in Payloads \cup {<<>>}
  BY <1>1 DEF RestInv, RestFor
<1> HIDE DEF s
<1>6. s # <<>>
  <2>1. SUFFICES ASSUME s = <<>> PROVE FALSE
    OBVIOUS
  <2>2. Len(s) = 0
    BY <2>1
  <2> QED BY <1>1, <1>2, <1>4, <2>2
<1>7. s \in Payloads
  BY <1>5, <1>6
<1>8. Len(s) \in DOMAIN s /\ s[Len(s)] = Newline
  BY <1>7, LinesAssumption DEF EndsLine
<1>9. to = "f_lock"
  BY <1>1, <1>8
<1>10. Len(chunk) \in 1 .. Len(s)
  BY <1>1, <1>2, <1>4, <1>9
<1>11. SubSeq(s, 1, Len(chunk))[Len(chunk)] = s[Len(chunk)]
  BY <1>3, <1>10, SplitInput DEF s
<1>12. Len(chunk) \in DOMAIN s /\ s[Len(chunk)] = Newline
  BY <1>1, <1>2, <1>3, <1>9, <1>10, <1>11 DEF s
<1>13. SubSeq(s, 1, Len(chunk)) = s
  BY <1>7, <1>12, WholeLine
<1>14. chunk = s
  BY <1>1, <1>9, <1>13
<1>15. Partial' = Partial \o chunk
  BY StoreStages
<1>16. <<>> \o s = s
  BY <1>3, ConcatEmptySeq DEF s
<1> QED BY <1>7, <1>9, <1>14, <1>15, <1>16 DEF s

LEMMA StagedKept ==
  ASSUME DriverInv, RestInv, StagedLine, Uncontended, [Next]_vars
  PROVE  StagedLine'
<1>1. ASSUME Partial' = Partial, \A p \in Procs : Flushing(p) => Flushing(p)'
      PROVE  StagedLine'
  BY <1>1 DEF StagedLine
<1>2. CASE aesd_init_module \/ aesd_cleanup_module
  <2>1. entry'.buffPtr = NULL
    BY <1>2 DEF aesd_init_module, aesd_cleanup_module, ZeroEntry, StaticEntry
  <2> QED BY <2>1 DEF Partial, StagedLine
<1>3. CASE \E p \in Procs : Quiet(p)
  <2> PICK p \in Procs : Quiet(p)
    BY <1>3
  <2>1. PICK to : QuietMove(p, to)
    BY QuietSteps
  <2>2. /\ pc' = [pc EXCEPT ![p] = to]
        /\ to # "f_free" /\ pc[p] # "f_free"
        /\ UNCHANGED <<mem, entry>>
    BY <2>1 DEF QuietMove, LockMove
  <2>3. Partial' = Partial
    BY <2>2, QuietPartial
  <2>4. ~FlushInterrupted(p)
    BY DEF FlushInterrupted, Goto, Uncontended
  <2>5. \A q \in Procs : Flushing(q) => Flushing(q)'
    BY <2>2, <2>4, FlushGoesOn DEF Flushing, DriverInv, MemoryTypes
  <2> QED BY <1>1, <2>3, <2>5
<1>4. CASE \E p \in Procs : WriteCall(p)
  <2> PICK p \in Procs : WriteCall(p)
    BY <1>4
  <2>1. /\ pc[p] = "idle"
        /\ pc' = [pc EXCEPT ![p] = "w_lock"]
        /\ UNCHANGED mem
        /\ entry' = [entry EXCEPT !.size = KMALLOC_MAX_SIZE]
    BY DEF WriteCall, Enter, Goto, heapVars
  <2>2. entry'.buffPtr = entry.buffPtr /\ entry'.endIdx = entry.endIdx
    BY <2>1 DEF DriverInv, MemoryTypes
  <2>3. Partial' = Partial
    BY <2>1, <2>2, QuietPartial
  <2>4. \A q \in Procs : Flushing(q) => Flushing(q)'
    BY <2>1 DEF Flushing, DriverInv, MemoryTypes
  <2> QED BY <1>1, <2>3, <2>4
<1>5. CASE \E p \in Procs : FlushAdd(p)
  <2>1. Handover'
    BY <1>5 DEF FlushAdd, Goto, Handover, DriverInv, MemoryTypes
  <2> QED BY <2>1 DEF Partial, StagedLine
<1>6. CASE \E p \in Procs : FlushFree(p)
  <2>1. entry'.buffPtr = NULL
    BY <1>6 DEF FlushFree, EmptiedStage, DriverInv, MemoryTypes
  <2> QED BY <2>1 DEF Partial, StagedLine
<1>7. CASE \E p \in Procs : WriteLine(p) \/ WriteLineFails(p) \/ WriteLeftover(p)
  <2> PICK p \in Procs : \E to, b, chunk : StoreMove(p, to, b, chunk)
    BY <1>7, WriteStoreSteps
  <2> PICK to, b, chunk : StoreMove(p, to, b, chunk)
    OBVIOUS
  <2>1. pc[p] = "w_scan" /\ pc'[p] = to
    BY DEF StoreMove, LockMove, DriverInv, MemoryTypes
  <2>2. \A q \in Procs : ~Flushing(q)
    BY <2>1, OneWriter DEF Flushing, HoldsEntryMutex
  <2>3. Partial = <<>>
    BY <2>2 DEF StagedLine
  <2>4. CASE StoreFits(b, Len(chunk))
    <3>1. to = "f_lock" /\ Partial' \in Payloads
      BY <2>3, <2>4, StoredLine
    <3> QED BY <2>1, <3>1 DEF StagedLine, Flushing
  <2>5. CASE ~StoreFits(b, Len(chunk))
    BY <1>1, <2>2, <2>5, StoreStages
  <2> QED BY <2>4, <2>5
<1>8. CASE UNCHANGED vars
  BY <1>8 DEF vars, devVars, heapVars, StagedLine, Flushing, Partial, Handover
<1> QED BY <1>2, <1>3, <1>4, <1>5, <1>6, <1>7, <1>8, NextCases

(* What is committed was staged as a line.                                 *)
LEMMA LinesKept ==
  ASSUME DriverInv, RingInv, StagedLine, Lines \in Seq(Payloads), [Next]_vars
  PROVE  Lines' \in Seq(Payloads)
<1>1. LogStep
  BY NextSimulates
<1>2. CASE Log!Commit
  <2> DEFINE kept == IF Len(Lines) = Capacity THEN Tail(Lines) ELSE Lines
  <2>1. Partial \in Payloads /\ Lines' = Append(kept, Partial)
    BY <1>2 DEF Log!Commit, StagedLine
  <2>2. kept \in Seq(Payloads)
    <3>1. CASE Len(Lines) = Capacity
      <4>1. Len(Lines) # 0
        BY <3>1, CapacityAssumption DEF Capacity
      <4>2. Lines # <<>>
        BY <4>1
      <4>3. Tail(Lines) \in Seq(Payloads)
        BY <4>2, HeadTailProperties
      <4> QED BY <3>1, <4>3
    <3>2. CASE Len(Lines) # Capacity
      BY <3>2
    <3> QED BY <3>1, <3>2
  <2> HIDE DEF kept
  <2>3. Append(kept, Partial) \in Seq(Payloads)
    BY <2>1, <2>2, AppendProperties
  <2> QED BY <2>1, <2>3
<1>3. CASE Log!Forget
  BY <1>3 DEF Log!Forget
<1>4. CASE Log!Store \/ UNCHANGED <<Lines, Partial>>
  BY <1>4 DEF Log!Store
<1> QED BY <1>1, <1>2, <1>3, <1>4 DEF LogStep, Log!Next

LEMMA WriteCorrect == System => []WriteInv
<1>1. SystemInit => WriteInv
  <2> SUFFICES ASSUME SystemInit PROVE WriteInv
    OBVIOUS
  <2>1. Lines = <<>> /\ Partial = <<>>
    BY EmptyLog DEF SystemInit, Init, StaticEntry
  <2>2. \A p \in Procs : pc[p] = "closed"
    BY DEF SystemInit, Init
  <2>3. RestInv
    BY <2>2 DEF RestInv, RestFor
  <2> QED BY <2>1, <2>3 DEF WriteInv, StagedLine
<1>2. /\ DriverInv /\ DriverInv' /\ RingInv /\ WriteInv /\ Uncontended
      /\ SystemInv /\ [SystemNext]_allVars
      => WriteInv'
  <2> SUFFICES ASSUME DriverInv, DriverInv', RingInv, WriteInv, Uncontended,
                      SystemInv, [SystemNext]_allVars
               PROVE  WriteInv'
    OBVIOUS
  <2>1. [Next]_vars
    BY StepIsDriverStep DEF SystemInv
  <2> QED BY <2>1, RestKept, StagedKept, LinesKept DEF WriteInv
<1> QED
  BY <1>1, <1>2, ServerUsesDriver, DriverCorrect, RingCorrect, HandlersApart,
     SystemCorrect, PTL DEF System

(* Whatever the clients send and whatever becomes of the server, the       *)
(* device stores the lines it was sent, each as one entry, and nothing is  *)
(* left half stored: a line that was staged is handed over, as nothing     *)
(* can interrupt FlushPartial when FileMutex keeps its callers apart.      *)
THEOREM LinesStayIntact == System => []LinesIntact
<1>1. DriverInv /\ WriteInv => LinesIntact
  <2> SUFFICES ASSUME DriverInv, WriteInv PROVE LinesIntact
    OBVIOUS
  <2>1. \A i \in DOMAIN Lines : Lines[i] \in Payloads
    BY DEF WriteInv
  <2>2. ASSUME entryMutex = NoProc PROVE Partial = <<>>
    <3>1. \A p \in Procs : pc[p] \notin HoldsEntryMutex
      BY <2>2, DriverAssumption DEF DriverInv, LocksMatchCalls
    <3> QED BY <3>1 DEF WriteInv, StagedLine, Flushing, HoldsEntryMutex
  <2> QED BY <2>1, <2>2 DEF LinesIntact
<1> QED BY <1>1, WriteCorrect, ServerUsesDriver, DriverCorrect, PTL

-----------------------------------------------------------------------------
(* The variables of the server. *)

(* A handler that is at work on a command still has it in its buffer.      *)
CommandKept ==
  \A c \in Procs : handler[c] \in {"called", "reply", "reading"} => todo[c] # <<>>

ServerTypes ==
  /\ running \in BOOLEAN
  /\ fileMutex \in Procs \cup {NoProc}
  /\ handler \in [Procs -> Stages]
  /\ todo \in [Procs -> Seq(Commands)]
  /\ offered \in [Procs -> Seq(Byte)]
  /\ CommandKept

LEMMA ServerTypesKept ==
  ASSUME ServerTypes, CallInv, [SystemNext]_allVars
  PROVE  ServerTypes'
<1> USE DEF ServerTypes, CommandKept, HandlerGoto, Stages
<1>1. CASE Load
  BY <1>1 DEF Load, handlerVars
<1>2. CASE StartServer
  BY <1>2 DEF StartServer
<1>3. CASE Killed
  BY <1>3, EmptySeq DEF Killed
<1>4. ASSUME NEW c \in Procs, Receive(c) PROVE ServerTypes'
  <2>1. PICK s \in Packets : todo' = [todo EXCEPT ![c] = s]
    BY <1>4 DEF Receive
  <2>2. s \in Seq(Commands)
    BY PacketsAssumption
  <2>3. /\ handler' = [handler EXCEPT ![c] = "scan"]
        /\ UNCHANGED <<running, fileMutex, offered>>
    BY <1>4 DEF Receive
  <2> QED BY <2>1, <2>2, <2>3
<1>5. ASSUME NEW c \in Procs, CallDevice(c) PROVE ServerTypes'
  BY <1>5 DEF CallDevice, LockFileMutex
<1>6. ASSUME NEW c \in Procs, Called(c) PROVE ServerTypes'
  <2>1. /\ handler[c] = "called" /\ handler' = [handler EXCEPT ![c] = "reply"]
        /\ offered' = [offered EXCEPT ![c] = <<>>]
        /\ UNCHANGED <<running, fileMutex, todo>>
    BY <1>6 DEF Called
  <2> QED BY <2>1, EmptySeq
<1>7. ASSUME NEW c \in Procs, ReplyRead(c) PROVE ServerTypes'
  BY <1>7 DEF ReplyRead
<1>8. ASSUME NEW c \in Procs, ReplySend(c) PROVE ServerTypes'
  <2>1. /\ handler[c] = "reading" /\ handler' = [handler EXCEPT ![c] = "reply"]
        /\ offered' = [offered EXCEPT ![c] = @ \o call[c].out]
        /\ UNCHANGED <<running, fileMutex, todo>>
    BY <1>8 DEF ReplySend
  <2>2. call[c].out \in Seq(Byte)
    BY DEF CallInv, Frame
  <2>3. offered[c] \o call[c].out \in Seq(Byte)
    BY <2>2, ConcatProperties
  <2> QED BY <2>1, <2>3
<1>9. ASSUME NEW c \in Procs, ReplyEnd(c) PROVE ServerTypes'
  <2>1. /\ handler[c] = "reading" /\ handler' = [handler EXCEPT ![c] = "scan"]
        /\ todo' = [todo EXCEPT ![c] = Tail(@)]
        /\ fileMutex' = NoProc
        /\ UNCHANGED <<running, offered>>
    BY <1>9 DEF ReplyEnd
  <2>2. Tail(todo[c]) \in Seq(Commands)
    BY <2>1, HeadTailProperties
  <2> QED BY <2>1, <2>2
<1>10. ASSUME NEW c \in Procs, Close(c) PROVE ServerTypes'
  BY <1>10 DEF Close
<1>11. ASSUME NEW c \in Procs, CloseDead(c) \/ InDriver(c) PROVE ServerTypes'
  BY <1>11 DEF CloseDead, InDriver, handlerVars
<1>12. CASE UNCHANGED allVars
  BY <1>12 DEF allVars, handlerVars
<1> QED
  BY <1>1, <1>2, <1>3, <1>4, <1>5, <1>6, <1>7, <1>8, <1>9, <1>10, <1>11, <1>12
  DEF SystemNext

LEMMA ServerTypesCorrect == System => []ServerTypes
<1>1. SystemInit => ServerTypes
  <2> SUFFICES ASSUME SystemInit PROVE ServerTypes
    OBVIOUS
  <2>1. <<>> \in Seq(Commands) /\ <<>> \in Seq(Byte)
    BY EmptySeq
  <2>2. todo \in [Procs -> Seq(Commands)] /\ offered \in [Procs -> Seq(Byte)]
    BY <2>1 DEF SystemInit
  <2>3. \A c \in Procs : handler[c] = "recv"
    BY DEF SystemInit
  <2>4. running \in BOOLEAN /\ fileMutex = NoProc /\ handler \in [Procs -> Stages]
    BY DEF SystemInit, Stages
  <2> QED BY <2>2, <2>3, <2>4 DEF ServerTypes, CommandKept
<1>2. ServerTypes /\ CallInv /\ [SystemNext]_allVars => ServerTypes'
  BY ServerTypesKept
<1> QED
  BY <1>1, <1>2, ServerUsesDriver, CallCorrect, PTL DEF System

(* A handler never takes a command from an empty buffer, what it sends are *)
(* bytes, and it holds FileMutex from its call to the end of its reply.    *)
THEOREM ServerKeepsTypes == System => []HandlersTypeOK
<1>1. ServerTypes /\ SystemInv => HandlersTypeOK
  BY DEF ServerTypes, SystemInv, OneCaller, HandlersTypeOK
<1> QED BY <1>1, ServerTypesCorrect, SystemCorrect, PTL
-----------------------------------------------------------------------------
(* Replies. *)

(* The positions are those of bytes that are or were stored, so that sums  *)
(* of them do not wrap around; the server does not call llseek.            *)
PositionsInv ==
  /\ lseekPos \in 0 .. MaxPosition
  /\ \A p \in Procs :
       /\ f_pos[p] \in 0 .. MaxPosition
       /\ pc[p] \notin {"s_lock", "s_load", "s_store", "s_ret"}
       /\ pc[p] = "r_copy" => f_pos[p] <= call[p].actualPos

AtWrite == {"w_lock", "w_scan", "f_lock", "f_add", "f_free"}
AtRead  == {"r_lock", "r_find", "r_copy"}

(* Where a handler is in the driver, and with which command.               *)
PlaceFor(h, at, fr, cmds) ==
  /\ h # "recv" => at # "closed"
  /\ h \in {"scan", "reply"} => at = "idle"
  /\ h = "called" => /\ at \in {"idle", "i_lock", "i_seek"} \cup AtWrite
                     /\ at \in {"i_lock", "i_seek"} => Head(cmds) = <<"seek", fr.arg>>
                     /\ at \in AtWrite => Head(cmds)[1] = "write"
  /\ h = "reading" => /\ at \in {"idle"} \cup AtRead
                      /\ at \in AtRead => fr.count > 0

PlaceInv ==
  \A c \in Procs : /\ handler[c] # "recv" => running
                   /\ PlaceFor(handler[c], pc[c], call[c], todo[c])

(* The position of the next byte of the reply.                             *)
NextByte(c) == replyFrom[c] + Len(offered[c])

(* A seek that has been performed and not been taken back.                 *)
SeekDone(c) ==
  handler[c] = "called" /\ pc[c] = "idle" /\ Head(todo[c])[1] = "seek" /\ call[c].ret = 0
    => lseekPos = SeekPoint(Head(todo[c])[2])

(* What has been handed to send is what is stored from where it started.   *)
SentSoFar(c) ==
  /\ replyFrom[c] \in Nat
  /\ offered[c] = SubSeq(Stream, replyFrom[c] + 1, NextByte(c))
  /\ offered[c] # <<>> => NextByte(c) <= Len(Stream)

(* The driver will read on from there.                                     *)
ReadsOn(c) ==
  /\ f_pos[c] + lseekPos = NextByte(c)
  /\ pc[c] = "r_copy" => call[c].actualPos = NextByte(c)

(* What it has read goes on from there.                                    *)
HasRead(c) ==
  LET n == call[c].ret IN
  /\ n \in Nat
  /\ f_pos[c] + lseekPos = NextByte(c) + n
  /\ call[c].out = SubSeq(Stream, NextByte(c) + 1, NextByte(c) + n)
  /\ IF n = 0 THEN NextByte(c) >= Len(Stream) ELSE NextByte(c) + n <= Len(Stream)

Replying(c) ==
  /\ SentSoFar(c)
  /\ IF handler[c] = "reading" /\ pc[c] = "idle" THEN HasRead(c) ELSE ReadsOn(c)

ReplyFor(c) ==
  SeekDone(c) /\ (handler[c] \in {"reply", "reading"} => Replying(c))

ReplyInv == \A c \in Procs : ~disturbed[c] => ReplyFor(c)

-----------------------------------------------------------------------------
(* What the ring holds is short enough for every position. *)

(* A sum of n sizes, none above m. *)
LEMMA TotalsBound ==
  ASSUME NEW z \in [Nat -> Nat], NEW t, Totals(t, z), NEW m \in Nat,
         \A k \in Nat : z[k] <= m, NEW n \in Nat
  PROVE  t[n] <= n * m
<1> DEFINE A == {k \in Nat : t[k] <= k * m}
<1>1. 0 \in A
  BY DEF Totals
<1>2. ASSUME NEW k \in Nat, k \in A PROVE k + 1 \in A
  <2>1. t[k] \in Nat /\ z[k] \in Nat /\ z[k] <= m /\ t[k + 1] = t[k] + z[k]
    BY DEF Totals
  <2>2. k * m \in Nat /\ (k + 1) * m = k * m + m
    OBVIOUS
  <2> QED BY <1>2, <2>1, <2>2
<1>3. Nat \subseteq A
  <2> HIDE DEF A
  <2> QED BY <1>1, <1>2, Induction
<1> QED BY <1>3

LEMMA SlotSizes ==
  ASSUME DriverInv, NEW k \in Nat
  PROVE  get_entry_at_virtual_offset(buff, k).size \in 0 .. KMALLOC_MAX_SIZE
<1>1. buff \in BufferType(Entries)
  BY DEF DriverInv, MemoryTypes
<1>2. buff.out_offs \in Slots /\ buff.entry \in [Slots -> Entries \cup {EmptyEntry}]
  BY <1>1 DEF BufferType
<1>3. VirtualIndex(buff, k) \in Slots
  BY <1>2, CapacityAssumption DEF VirtualIndex, Slots, Capacity
<1>4. buff.entry[VirtualIndex(buff, k)] \in Entries \cup {EmptyEntry}
  BY <1>2, <1>3
<1> QED BY <1>4, DriverAssumption DEF get_entry_at_virtual_offset, Entries, EmptyEntry

LEMMA SumsBound ==
  ASSUME DriverInv, NEW z, NEW t, RingSums(z, t), NEW n \in 0 .. Capacity
  PROVE  /\ t[n] \in Nat /\ z[n] \in 0 .. KMALLOC_MAX_SIZE
         /\ t[n] + z[n] <= MaxPosition
<1>1. z \in [Nat -> Nat] /\ Totals(t, z)
  BY RingTotals DEF RingSums
<1>2. Capacity \in Nat /\ KMALLOC_MAX_SIZE \in Nat /\ n \in Nat /\ n + 1 \in Nat
  BY CapacityAssumption, DriverAssumption DEF Capacity
<1>3. ASSUME NEW k \in Nat PROVE z[k] \in 0 .. KMALLOC_MAX_SIZE
  BY SlotSizes DEF RingSums
<1>4. \A k \in Nat : z[k] <= KMALLOC_MAX_SIZE
  BY <1>2, <1>3
<1>5. t[n + 1] <= (n + 1) * KMALLOC_MAX_SIZE
  BY <1>1, <1>2, <1>4, TotalsBound
<1>6. t[n + 1] = t[n] + z[n] /\ t[n] \in Nat /\ t[n + 1] \in Nat
  BY <1>1, <1>2 DEF Totals
<1>7. (n + 1) * KMALLOC_MAX_SIZE <= (Capacity + 1) * KMALLOC_MAX_SIZE
  <2>1. PICK d \in Nat : Capacity = n + d
    <3>1. Capacity - n \in Nat /\ Capacity = n + (Capacity - n)
      BY <1>2
    <3> QED BY <3>1
  <2>2. PICK m \in Nat : m = KMALLOC_MAX_SIZE
    BY <1>2
  <2>3. (Capacity + 1) * m = (n + 1) * m + d * m
    BY <1>2, <2>1
  <2>4. d * m \in Nat /\ (n + 1) * m \in Nat
    BY <1>2
  <2> QED BY <2>2, <2>3, <2>4
<1>8. (n + 1) * KMALLOC_MAX_SIZE \in Nat /\ (Capacity + 1) * KMALLOC_MAX_SIZE \in Nat
  BY <1>2
<1>9. t[n + 1] <= (Capacity + 1) * KMALLOC_MAX_SIZE
  BY <1>5, <1>6, <1>7, <1>8
<1> QED BY <1>1, <1>2, <1>3, <1>6, <1>9 DEF MaxPosition

LEMMA StreamFits ==
  ASSUME DriverInv, RingInv
  PROVE  Stream \in Seq(Byte) /\ Len(Stream) \in 0 .. MaxPosition
<1>1. PICK z, t : RingSums(z, t)
  BY RingSumsExist
<1> DEFINE N == numEntries(buff)
<1>2. N \in 0 .. Capacity
  BY RingSizes
<1>3. t[N] \in Nat /\ z[N] \in 0 .. KMALLOC_MAX_SIZE /\ t[N] + z[N] <= MaxPosition
  BY <1>1, <1>2, SumsBound
<1>4. Stream \in Seq(Byte) /\ Len(Stream) = t[N]
  BY <1>1, StreamValue
<1>5. MaxPosition \in Int /\ KMALLOC_MAX_SIZE \in Nat
  BY CapacityAssumption, DriverAssumption DEF MaxPosition, Capacity
<1> QED BY <1>3, <1>4, <1>5

(* Sums of two positions do not wrap around.                               *)
LEMMA NoWrap ==
  /\ MaxPosition \in Nat
  /\ \A i, j \in 0 .. MaxPosition : (i + j) % WordMod = i + j
  /\ \A i \in 0 .. MaxPosition : ToLoff(i) = i
<1>1. MaxPosition \in Nat
  BY CapacityAssumption, DriverAssumption DEF MaxPosition, Capacity
<1>2. WordMod \in Nat \ {0} /\ MaxPosition < WordMod \div 2
  BY DriverAssumption, PositionAssumption
<1>3. PICK w \in Nat : w = WordMod \div 2
  BY <1>2
<1>4. MaxPosition < w /\ 2 * w <= WordMod
  BY <1>2, <1>3
<1>5. ASSUME NEW i \in 0 .. MaxPosition, NEW j \in 0 .. MaxPosition
      PROVE  (i + j) % WordMod = i + j
  BY <1>1, <1>2, <1>4
<1>6. ASSUME NEW i \in 0 .. MaxPosition PROVE ToLoff(i) = i
  <2>1. i % WordMod = i
    BY <1>1, <1>2, <1>4
  <2> QED BY <1>1, <1>2, <2>1 DEF ToLoff
<1> QED BY <1>1, <1>5, <1>6

-----------------------------------------------------------------------------
(* The steps of a call into the driver that nothing contends with.         *)
LEMMA StepAt ==
  ASSUME NEW c \in Procs, InDriver(c), Uncontended, pc[c] # "f_lock"
  PROVE  /\ pc[c] = "r_lock" => ReadLock(c)
         /\ pc[c] = "r_find" => ReadFind(c) \/ ReadEnd(c)
         /\ pc[c] = "r_copy" => ReadCopy(c) /\ call'[c].ret = SizeToRead(c)
         /\ pc[c] = "i_lock" => IoctlLock(c)
         /\ pc[c] = "i_seek" => IoctlSeekTo(c) \/ IoctlInvalid(c)
<1>1. CASE EntryLockStep(c) \/ WriteInterrupted(c) \/ FlushInterrupted(c)
  BY <1>1 DEF EntryLockStep, WriteLock, WriteTooLarge, WriteInterrupted,
              FlushInterrupted, Goto, Return
<1>2. CASE BuffLockStep(c)
  BY <1>2 DEF BuffLockStep, FlushLock, ReadLock, SeekLock, IoctlLock, BuffLock, Goto
<1>3. CASE BuffLockInterrupted(c)
  BY <1>3 DEF BuffLockInterrupted, Uncontended, Return, Goto
<1>4. CASE DriverStep(c)
  BY <1>4 DEF DriverStep, InDriver, WriteLine, WriteLineFails, WriteLeftover, WriteDone,
              FlushAdd, FlushFree, ReadFind, ReadEnd, ReadCopy, SeekLoad, SeekStore,
              SeekReturn, IoctlSeekTo, IoctlInvalid, Goto, Return
<1> QED BY <1>1, <1>2, <1>3, <1>4 DEF InDriver, SignalStep

(* The steps of a write stay among themselves and leave positions alone.   *)
LEMMA WriteStaysWrite ==
  ASSUME NEW c \in Procs, InDriver(c), pc[c] \in AtWrite
  PROVE  /\ \E to \in {"idle"} \cup AtWrite : pc' = [pc EXCEPT ![c] = to]
         /\ UNCHANGED <<lseekPos, f_pos>>
<1> USE DEF AtWrite, Goto, Return
<1>1. CASE EntryLockStep(c)
  BY <1>1 DEF EntryLockStep, WriteLock, WriteTooLarge, devVars
<1>2. CASE BuffLockStep(c)
  <2>1. FlushLock(c)
    BY <1>2 DEF BuffLockStep, ReadLock, SeekLock, IoctlLock, BuffLock
  <2> QED BY <2>1 DEF FlushLock, devVars
<1>3. CASE SignalStep(c)
  <2>1. WriteInterrupted(c) \/ FlushInterrupted(c)
    BY <1>3 DEF SignalStep, BuffLockInterrupted
  <2> QED BY <2>1 DEF WriteInterrupted, FlushInterrupted, devVars
<1>4. CASE WriteLine(c) \/ WriteLineFails(c) \/ WriteLeftover(c) \/ WriteDone(c)
  BY <1>4 DEF WriteLine, WriteLineFails, WriteLeftover, WriteDone, devVars
<1>5. CASE FlushAdd(c) \/ FlushFree(c)
  BY <1>5 DEF FlushAdd, FlushFree
<1>6. CASE ReadFind(c) \/ ReadEnd(c) \/ ReadCopy(c) \/ SeekLoad(c) \/ SeekStore(c)
           \/ SeekReturn(c) \/ IoctlSeekTo(c) \/ IoctlInvalid(c)
  BY <1>6 DEF ReadFind, ReadEnd, ReadCopy, SeekLoad, SeekStore, SeekReturn,
              IoctlSeekTo, IoctlInvalid
<1> QED BY <1>1, <1>2, <1>3, <1>4, <1>5, <1>6 DEF InDriver, DriverStep

(* A step of c in the driver is nobody else's. *)
LEMMA OthersStay ==
  ASSUME DriverInv, CallInv, NEW c \in Procs, InDriver(c), NEW d \in Procs \ {c}
  PROVE  pc'[d] = pc[d] /\ call'[d] = call[d] /\ f_pos'[d] = f_pos[d]
<1> USE DEF Goto, Return
<1>0. pc \in [Procs -> PCs] /\ call \in [Procs -> Frame] /\ f_pos \in [Procs -> Int]
  BY DEF DriverInv, MemoryTypes, CallInv
<1>1. CASE EntryLockStep(c) \/ BuffLockStep(c)
  BY <1>0, <1>1 DEF EntryLockStep, WriteLock, WriteTooLarge,
     BuffLockStep, FlushLock, ReadLock, SeekLock, IoctlLock, BuffLock
<1>2. CASE SignalStep(c)
  BY <1>0, <1>2 DEF SignalStep, WriteInterrupted, FlushInterrupted, BuffLockInterrupted
<1>3. CASE WriteLine(c) \/ WriteLineFails(c) \/ WriteLeftover(c) \/ WriteDone(c)
  BY <1>0, <1>3 DEF WriteLine, WriteLineFails, WriteLeftover, WriteDone
<1>4. CASE FlushAdd(c) \/ FlushFree(c) \/ ReadFind(c) \/ ReadEnd(c) \/ ReadCopy(c)
  BY <1>0, <1>4 DEF FlushAdd, FlushFree, ReadFind, ReadEnd, ReadCopy
<1>5. CASE SeekLoad(c) \/ SeekStore(c) \/ SeekReturn(c)
           \/ IoctlSeekTo(c) \/ IoctlInvalid(c)
  BY <1>0, <1>5 DEF SeekLoad, SeekStore, SeekReturn, IoctlSeekTo, IoctlInvalid
<1> QED BY <1>1, <1>2, <1>3, <1>4, <1>5 DEF InDriver, DriverStep

(* A seek that is accepted leads to the point it names, stored or not.     *)
LEMMA SeekLands ==
  ASSUME DriverInv, RingInv, CallInv, NEW c \in Procs, IoctlSeekTo(c)
  PROVE  lseekPos' = SeekPoint(call[c].arg) /\ lseekPos' \in 0 .. MaxPosition
<1> DEFINE a == call[c].arg
           cmd == a.write_cmd
           off == a.write_cmd_offset
           N == numEntries(buff)
<1>1. PICK z, t : RingSums(z, t)
  BY RingSumsExist
<1>2. a \in IoctlArgs
  BY FrameOf DEF FrameFor, IoctlSeekTo, Return, Goto
<1>3. cmd \in Nat /\ off \in Nat
  BY <1>2, DriverAssumption
<1>4. N \in 0 .. Capacity /\ Capacity \in Nat
  BY RingSizes, CapacityAssumption DEF Capacity
<1>5. lseekPos' = SeekBase(a) + off /\ ~SeekToRefused(a)
  BY DEF IoctlSeekTo
<1>6. cmd <= N
  BY <1>3, <1>4, <1>5
  DEF SeekToRefused, SeekBase, aesd_circular_buffer_find_fpos_for_virtual_entry_offset
<1>7. cmd \in 0 .. N /\ cmd \in 0 .. Capacity
  BY <1>3, <1>4, <1>6
<1>8. SeekBase(a) = t[cmd]
  BY <1>1, <1>3, <1>4, <1>6
  DEF SeekBase, aesd_circular_buffer_find_fpos_for_virtual_entry_offset, RingSums
<1>9. get_entry_at_virtual_offset(buff, cmd).size = z[cmd]
  BY <1>1, <1>3 DEF RingSums
<1>10. t[cmd] \in Nat /\ z[cmd] \in 0 .. KMALLOC_MAX_SIZE /\ t[cmd] + z[cmd] <= MaxPosition
  BY <1>1, <1>7, SumsBound
<1>11. ~(z[cmd] < off)
  BY <1>5, <1>9 DEF SeekToRefused, aesd_circular_buffer_find_entry_at_position
<1>12. Len(FlattenSeq(SubSeq(Lines, 1, cmd))) = t[cmd]
  BY <1>1, <1>7, StreamValue
<1>13. SeekPoint(a) = t[cmd] + off
  BY <1>12 DEF SeekPoint
<1>14. lseekPos' = t[cmd] + off
  BY <1>5, <1>8
<1>15. t[cmd] + off \in 0 .. MaxPosition
  <2> HIDE DEF cmd, off
  <2>1. KMALLOC_MAX_SIZE \in Nat /\ MaxPosition \in Nat
    BY DriverAssumption, NoWrap
  <2> QED BY <1>3, <1>10, <1>11, <2>1
<1> QED BY <1>13, <1>14, <1>15

(* A read starts at the sum of the two positions.                          *)
LEMMA ReadsAt ==
  ASSUME PositionsInv, NEW c \in Procs
  PROVE  /\ ReadPosition(c) = f_pos[c] + lseekPos
         /\ f_pos[c] \in Nat /\ lseekPos \in Nat
  BY NoWrap DEF PositionsInv, ReadPosition

(* What a read delivers is behind its position, which it moves along.      *)
LEMMA CopyMoves ==
  ASSUME DriverInv, RingInv, CallInv, PositionsInv, NEW c \in Procs,
         ReadCopy(c), call'[c].ret = SizeToRead(c)
  PROVE  /\ f_pos'[c] = f_pos[c] + call'[c].ret /\ f_pos'[c] \in 0 .. MaxPosition
         /\ \A d \in Procs \ {c} : f_pos'[d] = f_pos[d]
         /\ call[c].count > 0 => call'[c].ret > 0
<1>1. PICK n \in 0 .. SizeToRead(c) :
        /\ f_pos' = [f_pos EXCEPT ![c] = ToLoff(@ + n)]
        /\ \E o : call' = [call EXCEPT ![c] = [NoCall EXCEPT !.out = o, !.ret = n]]
  BY DEF ReadCopy
<1>2. /\ call'[c].ret = n
      /\ f_pos'[c] = ToLoff(f_pos[c] + n)
      /\ \A d \in Procs \ {c} : f_pos'[d] = f_pos[d]
  BY <1>1 DEF CallInv, NoCall
<1>3. pc[c] = "r_copy"
  BY DEF ReadCopy, Goto
<1>4. f_pos[c] \in 0 .. MaxPosition /\ f_pos[c] <= call[c].actualPos
  BY <1>3 DEF PositionsInv
<1>5. /\ call[c].actualPos \in Nat /\ n \in Nat /\ Len(Stream) \in Nat
      /\ call[c].actualPos + n <= Len(Stream)
  BY <1>2, CopyDelivers
<1>6. Len(Stream) <= MaxPosition /\ MaxPosition \in Nat
  BY StreamFits, NoWrap
<1>7. f_pos[c] + n \in 0 .. MaxPosition
  BY <1>4, <1>5, <1>6
<1>8. ToLoff(f_pos[c] + n) = f_pos[c] + n
  BY <1>7, NoWrap
<1>9. call[c].count > 0 => SizeToRead(c) > 0
  BY <1>3, RingSumsExist, CopyWithin DEF RingSums
<1> QED BY <1>2, <1>7, <1>8, <1>9

-----------------------------------------------------------------------------
(* Handlers keep to their places, and positions to their bounds.           *)

(* c moves, the others stay.                                               *)
LEMMA PlaceMoves ==
  ASSUME PlaceInv, NEW c \in Procs,
         PlaceFor(handler'[c], pc'[c], call'[c], todo'[c]),
         \A d \in Procs \ {c} : /\ handler'[d] = handler[d] /\ pc'[d] = pc[d]
                                /\ call'[d] = call[d] /\ todo'[d] = todo[d],
         running \/ handler'[c] = "recv", UNCHANGED running
  PROVE  PlaceInv'
<1> SUFFICES ASSUME NEW d \in Procs
             PROVE  /\ handler'[d] # "recv" => running'
                    /\ PlaceFor(handler'[d], pc'[d], call'[d], todo'[d])
  BY DEF PlaceInv
<1>1. CASE d = c
  BY <1>1
<1>2. CASE d # c
  BY <1>2 DEF PlaceInv
<1> QED BY <1>1, <1>2

LEMMA PlaceInDriver ==
  ASSUME DriverInv, CallInv, PositionsInv, Uncontended, PlaceInv,
         NEW c \in Procs, InDriver(c)
  PROVE  PlaceInv'
<1> DEFINE h == handler[c]
<1>1. /\ UNCHANGED <<running, handler, todo>>
      /\ \A d \in Procs \ {c} : pc'[d] = pc[d] /\ call'[d] = call[d]
  BY OthersStay DEF InDriver, handlerVars
<1>2. PlaceFor(h, pc[c], call[c], todo[c]) /\ (h # "recv" => running)
  BY DEF PlaceInv
<1>3. /\ pc \in [Procs -> PCs] /\ call \in [Procs -> Frame]
  BY DEF DriverInv, MemoryTypes, CallInv
<1>4. pc[c] \notin InUserSpace /\ pc'[c] # "closed"
  BY <1>3, InsideMoves
<1>5. PlaceFor(h, pc'[c], call'[c], todo[c])
  <2>1. CASE h = "called"
    <3>1. CASE pc[c] \in AtWrite
      <4>1. pc'[c] \in {"idle"} \cup AtWrite
        BY <1>3, <3>1, WriteStaysWrite
      <4>2. Head(todo[c])[1] = "write"
        BY <1>2, <2>1, <3>1 DEF PlaceFor
      <4> QED BY <2>1, <4>1, <4>2 DEF PlaceFor, AtWrite
    <3>2. CASE pc[c] = "i_lock"
      <4>1. pc'[c] = "i_seek" /\ call' = call
        BY <1>3, <3>2, StepAt DEF IoctlLock, BuffLock, Goto
      <4>2. Head(todo[c]) = <<"seek", call[c].arg>>
        BY <1>2, <2>1, <3>2 DEF PlaceFor
      <4> QED BY <2>1, <4>1, <4>2 DEF PlaceFor, AtWrite
    <3>3. CASE pc[c] = "i_seek"
      <4>1. pc'[c] = "idle"
        BY <1>3, <3>3, StepAt DEF IoctlSeekTo, IoctlInvalid, Return, Goto
      <4> QED BY <2>1, <4>1 DEF PlaceFor, AtWrite
    <3> QED BY <1>2, <1>4, <2>1, <3>1, <3>2, <3>3 DEF PlaceFor, InUserSpace
  <2>2. CASE h = "reading"
    <3>0. pc[c] \in AtRead /\ call[c].count > 0
      BY <1>2, <1>4, <2>2 DEF PlaceFor, InUserSpace
    <3>1. CASE pc[c] = "r_lock"
      <4>1. pc'[c] = "r_find" /\ call' = call
        BY <1>3, <3>1, StepAt DEF ReadLock, BuffLock, Goto
      <4> QED BY <2>2, <3>0, <4>1 DEF PlaceFor, AtRead
    <3>2. CASE pc[c] = "r_find"
      <4>1. CASE ReadFind(c)
        <5>1. pc'[c] = "r_copy"
          BY <1>3, <4>1 DEF ReadFind, Goto
        <5>2. call'[c].count = call[c].count
          BY <1>3, <4>1 DEF ReadFind, Frame
        <5> QED BY <2>2, <3>0, <5>1, <5>2 DEF PlaceFor, AtRead
      <4>2. CASE ReadEnd(c)
        <5>1. pc'[c] = "idle"
          BY <1>3, <4>2 DEF ReadEnd, Return, Goto
        <5> QED BY <2>2, <5>1 DEF PlaceFor, AtRead
      <4> QED BY <3>2, <4>1, <4>2, StepAt
    <3>3. CASE pc[c] = "r_copy"
      <4>1. pc'[c] = "idle"
        BY <1>3, <3>3, StepAt DEF ReadCopy, Goto
      <4> QED BY ONLY <2>2, <4>1 DEF PlaceFor, AtRead
    <3> QED BY <3>0, <3>1, <3>2, <3>3 DEF AtRead
  <2>3. CASE h \in {"scan", "reply"}
    BY <1>2, <1>4, <2>3 DEF PlaceFor, InUserSpace
  <2>4. CASE h \notin {"called", "reading", "scan", "reply"}
    BY <1>4, <2>4 DEF PlaceFor
  <2> QED BY <2>1, <2>2, <2>3, <2>4
<1> QED BY <1>1, <1>2, <1>5, PlaceMoves

LEMMA PlaceKept ==
  ASSUME SystemInv, CallInv, PositionsInv, Uncontended, ServerTypes, PlaceInv,
         [SystemNext]_allVars
  PROVE  PlaceInv'
<1> USE DEF HandlerGoto
<1>0. /\ pc \in [Procs -> PCs] /\ call \in [Procs -> Frame]
      /\ handler \in [Procs -> Stages] /\ todo \in [Procs -> Seq(Commands)]
      /\ DriverInv
  BY DEF SystemInv, DriverInv, MemoryTypes, CallInv, ServerTypes
<1>1. CASE Load
  BY <1>1 DEF Load, aesd_init_module, handlerVars, PlaceInv
<1>2. CASE StartServer
  BY <1>2 DEF StartServer, PlaceInv
<1>3. CASE Killed
  <2>1. \A c \in Procs : handler'[c] = "recv"
    BY <1>3 DEF Killed
  <2> QED BY <2>1 DEF PlaceInv, PlaceFor
<1>4. ASSUME NEW c \in Procs, Receive(c) PROVE PlaceInv'
  <2>1. /\ running /\ UNCHANGED <<running, call>>
        /\ handler' = [handler EXCEPT ![c] = "scan"]
        /\ pc' = [pc EXCEPT ![c] = "idle"]
        /\ \E s : todo' = [todo EXCEPT ![c] = s]
    BY <1>4 DEF Receive, aesd_open, Goto
  <2>2. PlaceFor(handler'[c], pc'[c], call'[c], todo'[c])
    BY <1>0, <2>1 DEF PlaceFor
  <2> QED BY <1>0, <2>1, <2>2, PlaceMoves
<1>5. ASSUME NEW c \in Procs, CallDevice(c) PROVE PlaceInv'
  <2>1. /\ running /\ UNCHANGED <<running, todo>>
        /\ handler' = [handler EXCEPT ![c] = "called"]
    BY ONLY <1>5 DEF CallDevice
  <2>2. PICK to, fr : /\ pc' = [pc EXCEPT ![c] = to]
                      /\ call' = [call EXCEPT ![c] = fr]
                      /\ \/ to = "w_lock" /\ Head(todo[c]) = <<"write", call'[c].rest>>
                         \/ to = "i_lock" /\ Head(todo[c]) = <<"seek", call'[c].arg>>
    BY <1>5 DEF CallDevice, WriteCall, IoctlCall, Enter, Goto
  <2>3. PlaceFor(handler'[c], pc'[c], call'[c], todo'[c])
    BY <1>0, <2>1, <2>2 DEF PlaceFor, AtWrite
  <2> QED BY <1>0, <2>1, <2>2, <2>3, PlaceMoves
<1>6. ASSUME NEW c \in Procs, Called(c) \/ ReplySend(c) PROVE PlaceInv'
  <2>1. /\ running /\ pc[c] = "idle" /\ UNCHANGED <<running, pc, call, todo>>
        /\ handler' = [handler EXCEPT ![c] = "reply"]
    BY <1>6 DEF Called, ReplySend, deviceVars, vars
  <2>2. PlaceFor(handler'[c], pc'[c], call'[c], todo'[c])
    BY <1>0, <2>1 DEF PlaceFor
  <2> QED BY <1>0, <2>1, <2>2, PlaceMoves
<1>7. ASSUME NEW c \in Procs, ReplyRead(c) PROVE PlaceInv'
  <2>1. /\ running /\ UNCHANGED <<running, todo>>
        /\ handler' = [handler EXCEPT ![c] = "reading"]
    BY <1>7 DEF ReplyRead
  <2>2. PICK n \in ReadCounts :
          /\ pc' = [pc EXCEPT ![c] = "r_lock"]
          /\ call' = [call EXCEPT ![c] = [NoCall EXCEPT !.count = n]]
    BY <1>7 DEF ReplyRead, ReadCall, Enter, Goto
  <2>3. call'[c].count = n /\ n > 0
    BY <1>0, <2>2, BufferAssumption, DriverAssumption DEF NoCall
  <2>4. PlaceFor(handler'[c], pc'[c], call'[c], todo'[c])
    BY <1>0, <2>1, <2>2, <2>3 DEF PlaceFor, AtRead
  <2> QED BY <1>0, <2>1, <2>2, <2>4, PlaceMoves
<1>8. ASSUME NEW c \in Procs, ReplyEnd(c) PROVE PlaceInv'
  <2>1. /\ running /\ pc[c] = "idle" /\ UNCHANGED <<running, pc, call>>
        /\ handler' = [handler EXCEPT ![c] = "scan"]
        /\ todo' = [todo EXCEPT ![c] = Tail(@)]
    BY <1>8 DEF ReplyEnd, deviceVars, vars
  <2>2. PlaceFor(handler'[c], pc'[c], call'[c], todo'[c])
    BY <1>0, <2>1 DEF PlaceFor
  <2> QED BY <1>0, <2>1, <2>2, PlaceMoves
<1>9. ASSUME NEW c \in Procs, Close(c) PROVE PlaceInv'
  <2>1. /\ running /\ UNCHANGED <<running, todo>>
        /\ handler' = [handler EXCEPT ![c] = "recv"]
        /\ pc' = [pc EXCEPT ![c] = "closed"]
        /\ \E fr : call' = [call EXCEPT ![c] = fr]
    BY <1>9 DEF Close, aesd_release, CloseFile, Goto
  <2>2. PlaceFor(handler'[c], pc'[c], call'[c], todo'[c])
    BY <1>0, <2>1 DEF PlaceFor
  <2> QED BY <1>0, <2>1, <2>2, PlaceMoves
<1>10. ASSUME NEW c \in Procs, CloseDead(c) PROVE PlaceInv'
  <2>1. ~running /\ UNCHANGED <<running, handler>>
    BY <1>10 DEF CloseDead, handlerVars
  <2> QED BY <2>1 DEF PlaceInv, PlaceFor
<1>11. ASSUME NEW c \in Procs, InDriver(c) PROVE PlaceInv'
  BY <1>0, <1>11, PlaceInDriver
<1>12. CASE UNCHANGED allVars
  BY <1>12 DEF allVars, vars, handlerVars, PlaceInv
<1> QED
  BY <1>1, <1>2, <1>3, <1>4, <1>5, <1>6, <1>7, <1>8, <1>9, <1>10, <1>11, <1>12
  DEF SystemNext

(* Where a call stands and the position it has found fit its file's.       *)
PositionFor(at, fr, pos) ==
  /\ pos \in 0 .. MaxPosition
  /\ at \notin {"s_lock", "s_load", "s_store", "s_ret"}
  /\ at = "r_copy" => pos <= fr.actualPos

LEMMA PositionMoves ==
  ASSUME PositionsInv, NEW c \in Procs, lseekPos' \in 0 .. MaxPosition,
         PositionFor(pc'[c], call'[c], f_pos'[c]),
         \A d \in Procs \ {c} : /\ pc'[d] = pc[d] /\ call'[d] = call[d]
                                /\ f_pos'[d] = f_pos[d]
  PROVE  PositionsInv'
<1>1. ASSUME NEW d \in Procs PROVE PositionFor(pc'[d], call'[d], f_pos'[d])
  <2>1. CASE d = c
    BY <2>1
  <2>2. CASE d # c
    <3>1. PositionFor(pc[d], call[d], f_pos[d])
      BY DEF PositionsInv, PositionFor
    <3> QED BY <2>2, <3>1
  <2> QED BY <2>1, <2>2
<1> QED BY <1>1 DEF PositionsInv, PositionFor

LEMMA PositionsInDriver ==
  ASSUME DriverInv, RingInv, CallInv, PositionsInv, Uncontended,
         NEW c \in Procs, InDriver(c)
  PROVE  PositionsInv'
<1>1. \A d \in Procs \ {c} : /\ pc'[d] = pc[d] /\ call'[d] = call[d]
                             /\ f_pos'[d] = f_pos[d]
  BY OthersStay
<1>2. /\ pc \in [Procs -> PCs] /\ call \in [Procs -> Frame] /\ f_pos \in [Procs -> Int]
  BY DEF DriverInv, MemoryTypes, CallInv
<1>3. /\ pc[c] \notin {"s_lock", "s_load", "s_store", "s_ret"}
      /\ f_pos[c] \in 0 .. MaxPosition /\ lseekPos \in 0 .. MaxPosition
  BY DEF PositionsInv
<1>4. CASE pc[c] \in AtWrite
  <2>1. pc'[c] \in {"idle"} \cup AtWrite /\ UNCHANGED <<lseekPos, f_pos>>
    BY <1>2, <1>4, WriteStaysWrite
  <2>2. PositionFor(pc'[c], call'[c], f_pos'[c])
    BY <1>3, <2>1 DEF PositionFor, AtWrite
  <2> QED BY <1>1, <1>3, <2>1, <2>2, PositionMoves
<1>5. CASE pc[c] \in {"r_lock", "i_lock"}
  <2>1. /\ pc'[c] \in {"r_find", "i_seek"} /\ UNCHANGED <<lseekPos, f_pos>>
    BY <1>2, <1>5, StepAt DEF ReadLock, IoctlLock, BuffLock, Goto, devVars
  <2>2. PositionFor(pc'[c], call'[c], f_pos'[c])
    BY <1>3, <2>1 DEF PositionFor
  <2> QED BY <1>1, <1>3, <2>1, <2>2, PositionMoves
<1>6. CASE pc[c] = "r_find"
  <2>1. UNCHANGED <<lseekPos, f_pos>>
    BY <1>6, StepAt DEF ReadFind, ReadEnd, devVars
  <2>2. CASE ReadFind(c)
    <3>1. call'[c].actualPos = ReadPosition(c) /\ pc'[c] = "r_copy"
      BY <1>2, <2>2 DEF ReadFind, Goto, Frame
    <3>2. f_pos[c] <= ReadPosition(c)
      BY ReadsAt
    <3>3. PositionFor(pc'[c], call'[c], f_pos'[c])
      BY <1>3, <2>1, <3>1, <3>2 DEF PositionFor
    <3> QED BY <1>1, <1>3, <2>1, <3>3, PositionMoves
  <2>3. CASE ReadEnd(c)
    <3>1. pc'[c] = "idle"
      BY <1>2, <2>3 DEF ReadEnd, Return, Goto
    <3>2. PositionFor(pc'[c], call'[c], f_pos'[c])
      BY <1>3, <2>1, <3>1 DEF PositionFor
    <3> QED BY <1>1, <1>3, <2>1, <3>2, PositionMoves
  <2> QED BY <1>6, <2>2, <2>3, StepAt
<1>7. CASE pc[c] = "r_copy"
  <2>1. ReadCopy(c) /\ call'[c].ret = SizeToRead(c)
    BY <1>7, StepAt
  <2>2. pc'[c] = "idle" /\ UNCHANGED lseekPos
    BY <1>2, <2>1 DEF ReadCopy, Goto, devVars
  <2>3. f_pos'[c] \in 0 .. MaxPosition
    BY <2>1, CopyMoves
  <2>4. PositionFor(pc'[c], call'[c], f_pos'[c])
    BY <2>2, <2>3 DEF PositionFor
  <2> QED BY <1>1, <1>3, <2>2, <2>4, PositionMoves
<1>8. CASE pc[c] = "i_seek"
  <2>1. IoctlSeekTo(c) \/ IoctlInvalid(c)
    BY <1>8, StepAt
  <2>2. pc'[c] = "idle" /\ UNCHANGED f_pos
    BY <1>2, <2>1 DEF IoctlSeekTo, IoctlInvalid, Return, Goto
  <2>3. lseekPos' \in 0 .. MaxPosition
    BY <1>3, <2>1, SeekLands DEF IoctlInvalid, devVars
  <2>4. PositionFor(pc'[c], call'[c], f_pos'[c])
    BY <1>3, <2>2 DEF PositionFor
  <2> QED BY <1>1, <2>3, <2>4, PositionMoves
<1>9. pc[c] \notin InUserSpace
  BY InsideMoves
<1> QED
  BY <1>2, <1>3, <1>4, <1>5, <1>6, <1>7, <1>8, <1>9
  DEF PCs, InUserSpace, AtWrite, HoldsEntryMutex, HoldsBuffMutex, Waiting

LEMMA PositionsKept ==
  ASSUME SystemInv, RingInv, CallInv, PositionsInv, Uncontended, [SystemNext]_allVars
  PROVE  PositionsInv'
<1> USE DEF HandlerGoto
<1>0. /\ pc \in [Procs -> PCs] /\ call \in [Procs -> Frame] /\ f_pos \in [Procs -> Int]
      /\ DriverInv /\ 0 \in 0 .. MaxPosition
  BY NoWrap DEF SystemInv, DriverInv, MemoryTypes, CallInv
<1>1. CASE Load \/ StartServer
  <2>1. lseekPos' = 0 /\ UNCHANGED <<pc, call, f_pos>>
    BY <1>1 DEF Load, aesd_init_module, StartServer
  <2> QED BY <1>0, <2>1 DEF PositionsInv
<1>2. CASE UNCHANGED vars
  BY <1>2 DEF vars, devVars, PositionsInv
<1>3. ASSUME NEW c \in Procs, Receive(c) \/ CallDevice(c) \/ ReplyRead(c)
      PROVE  PositionsInv'
  <2>1. UNCHANGED <<lseekPos, f_pos>>
    BY <1>3 DEF Receive, aesd_open, CallDevice, WriteCall, IoctlCall, ReplyRead,
                ReadCall, devVars
  <2>2. /\ pc'[c] \in {"idle", "w_lock", "i_lock", "r_lock"}
        /\ \A d \in Procs \ {c} : pc'[d] = pc[d] /\ call'[d] = call[d]
    <3>1. CASE Receive(c)
      BY <1>0, <3>1 DEF Receive, aesd_open, Goto
    <3>2. CASE CallDevice(c)
      <4>1. \E fr : \E to \in {"w_lock", "i_lock"} : Enter(c, to, fr)
        BY <3>2 DEF CallDevice, WriteCall, IoctlCall
      <4> QED BY <1>0, <4>1 DEF Enter, Goto
    <3>3. CASE ReplyRead(c)
      <4>1. \E fr : Enter(c, "r_lock", fr)
        BY <3>3 DEF ReplyRead, ReadCall
      <4> QED BY <1>0, <4>1 DEF Enter, Goto
    <3> QED BY <1>3, <3>1, <3>2, <3>3
  <2>3. PositionFor(pc'[c], call'[c], f_pos'[c]) /\ lseekPos' \in 0 .. MaxPosition
    BY <1>0, <2>1, <2>2 DEF PositionFor, PositionsInv
  <2> QED BY <1>0, <2>1, <2>2, <2>3, PositionMoves
<1>4. ASSUME NEW c \in Procs, Close(c) \/ CloseDead(c) PROVE PositionsInv'
  <2>1. /\ lseekPos' = 0 /\ pc' = [pc EXCEPT ![c] = "closed"]
        /\ f_pos' = [f_pos EXCEPT ![c] = 0]
        /\ call' = [call EXCEPT ![c] = NoCall]
    BY <1>4 DEF Close, CloseDead, aesd_release, CloseFile, Goto
  <2>2. PositionFor(pc'[c], call'[c], f_pos'[c])
    BY <1>0, <2>1 DEF PositionFor
  <2> QED BY <1>0, <2>1, <2>2, PositionMoves
<1>5. ASSUME NEW c \in Procs, InDriver(c) PROVE PositionsInv'
  BY <1>0, <1>5, PositionsInDriver
<1>6. ASSUME NEW c \in Procs, Called(c) \/ ReplySend(c) \/ ReplyEnd(c)
      PROVE  UNCHANGED vars
  BY <1>6 DEF Called, ReplySend, ReplyEnd, deviceVars
<1> QED
  BY <1>1, <1>2, <1>3, <1>4, <1>5, <1>6 DEF SystemNext, Killed, deviceVars, allVars

-----------------------------------------------------------------------------
(* The reply of one handler. *)

LEMMA StreamSame ==
  ASSUME UNCHANGED <<buff, mem>>
  PROVE  Lines' = Lines /\ Stream' = Stream
<1>1. Lines' = Lines
  BY DEF Lines, LineOf
<1> QED BY <1>1 DEF Stream

(* Only the handler with FileMutex is in the middle of a reply.            *)
Busy(c) == handler[c] \in {"called", "reply", "reading"}

LEMMA OneBusy ==
  ASSUME SystemInv, PlaceInv, NEW c \in Procs, NEW d \in Procs, Busy(d)
  PROVE  /\ running /\ fileMutex = d /\ pc[d] # "closed"
         /\ c # d => ~Busy(c) /\ pc[c] \in InUserSpace
<1>1. running /\ pc[d] # "closed"
  BY DEF Busy, PlaceInv, PlaceFor
<1>2. fileMutex = d /\ (Busy(c) => fileMutex = c)
  BY DEF Busy, SystemInv, OneCaller
<1>3. pc[c] \notin InUserSpace => Busy(c)
  BY <1>1 DEF SystemInv, OneCaller, Busy
<1> QED BY <1>1, <1>2, <1>3

(* A handler is not concerned by what happens elsewhere.                   *)
LEMMA ReplyStays ==
  ASSUME NEW d \in Procs, ReplyFor(d), UNCHANGED <<buff, mem, lseekPos>>,
         handler'[d] = handler[d], pc'[d] = pc[d], call'[d] = call[d],
         todo'[d] = todo[d], f_pos'[d] = f_pos[d],
         replyFrom'[d] = replyFrom[d], offered'[d] = offered[d]
  PROVE  ReplyFor(d)'
<1>1. Lines' = Lines /\ Stream' = Stream
  BY StreamSame
<1>2. SeekDone(d)'
  BY <1>1 DEF ReplyFor, SeekDone, SeekPoint
<1>3. NextByte(d)' = NextByte(d)
  BY DEF NextByte
<1>4. ASSUME Replying(d) PROVE Replying(d)'
  <2>1. SentSoFar(d) => SentSoFar(d)'
    BY <1>1, <1>3 DEF SentSoFar
  <2>2. ReadsOn(d) => ReadsOn(d)'
    BY <1>3 DEF ReadsOn
  <2>3. HasRead(d) => HasRead(d)'
    BY <1>1, <1>3 DEF HasRead
  <2> QED BY <1>4, <2>1, <2>2, <2>3 DEF Replying
<1> QED BY <1>2, <1>4 DEF ReplyFor

(* The reply begins where the driver is going to read.                     *)
LEMMA ReplyBegins ==
  ASSUME SystemInv, RingInv, ServerTypes, PositionsInv, NEW d \in Procs, SeekDone(d),
         DOMAIN replyFrom = Procs, Called(d)
  PROVE  ReplyFor(d)'
<1>1. /\ handler[d] = "called" /\ pc[d] = "idle"
      /\ handler' = [handler EXCEPT ![d] = "reply"]
      /\ UNCHANGED <<buff, mem, lseekPos, pc, f_pos>>
  BY DEF Called, HandlerGoto, deviceVars, vars, devVars, heapVars
<1>2. replyFrom'[d] = f_pos[d] + lseekPos
  BY <1>1 DEF Called, SeekDone
<1>3. f_pos[d] \in Nat /\ lseekPos \in Nat
  BY ReadsAt
<1>4. offered'[d] = <<>> /\ handler'[d] = "reply"
  BY <1>1 DEF Called, ServerTypes
<1>5. PICK r \in Nat : r = replyFrom'[d]
  BY <1>2, <1>3
<1>6. Stream' = Stream /\ Stream \in Seq(Byte)
  BY <1>1, StreamSame, StreamFits DEF SystemInv
<1>7. SubSeq(Stream, r + 1, r) = <<>>
  BY <1>6, SubSeqEmpty
<1>8. NextByte(d)' = r
  BY <1>4, <1>5 DEF NextByte
<1>9. SentSoFar(d)'
  BY <1>4, <1>5, <1>6, <1>7, <1>8 DEF SentSoFar
<1>10. ReadsOn(d)'
  BY <1>1, <1>2, <1>5, <1>8 DEF ReadsOn
<1> QED BY <1>4, <1>9, <1>10 DEF ReplyFor, SeekDone, Replying

(* Two runs of a sequence, one behind the other.                           *)
LEMMA RunsJoin ==
  ASSUME NEW S, NEW s \in Seq(S), NEW r \in Nat, NEW x \in Nat, NEW n \in Nat,
         r <= x, x + n <= Len(s)
  PROVE  /\ SubSeq(s, r + 1, x) \o SubSeq(s, x + 1, x + n) = SubSeq(s, r + 1, x + n)
         /\ Len(SubSeq(s, r + 1, x + n)) = (x + n) - r
<1>1. PICK l \in Nat : l = Len(s)
  OBVIOUS
<1>2. /\ r + 1 \in 1 .. l + 1 /\ x \in (r + 1) - 1 .. l
      /\ x + n \in x .. l
  BY <1>1
<1>3. \A i \in r + 1 .. x + n : i \in 1 .. l
  BY <1>1
<1>4. \A i \in r + 1 .. x + n : s[i] \in S
  BY <1>1, <1>3
<1>5. Len(SubSeq(s, r + 1, x + n)) =
        IF r + 1 <= x + n THEN (x + n) - (r + 1) + 1 ELSE 0
  BY <1>4, SubSeqProperties
<1> QED BY <1>1, <1>2, <1>5, ConcatAdjacentSubSeq

(* What a read has brought is appended.                                    *)
LEMMA ReplyGrows ==
  ASSUME SystemInv, RingInv, ServerTypes, NEW d \in Procs, Replying(d), ReplySend(d)
  PROVE  ReplyFor(d)'
<1>1. /\ handler[d] = "reading" /\ pc[d] = "idle" /\ call[d].ret > 0
      /\ handler' = [handler EXCEPT ![d] = "reply"]
      /\ offered' = [offered EXCEPT ![d] = @ \o call[d].out]
      /\ UNCHANGED <<buff, mem, lseekPos, pc, f_pos, replyFrom>>
  BY DEF ReplySend, HandlerGoto, deviceVars, vars, devVars, heapVars
<1>2. SentSoFar(d) /\ HasRead(d)
  BY <1>1 DEF Replying
<1>3. /\ Stream' = Stream /\ Stream \in Seq(Byte) /\ Len(Stream) \in Nat
      /\ Len(offered[d]) \in Nat
      /\ handler'[d] = "reply" /\ offered'[d] = offered[d] \o call[d].out
  BY <1>1, StreamSame, StreamFits DEF SystemInv, ServerTypes
<1>4. PICK r \in Nat, l \in Nat, n \in Nat :
        r = replyFrom[d] /\ l = Len(offered[d]) /\ n = call[d].ret
  BY <1>2, <1>3 DEF SentSoFar, HasRead
<1>5. PICK x \in Nat : x = r + l
  BY <1>4
<1>6. NextByte(d) = x
  BY <1>4, <1>5 DEF NextByte
<1>7. offered[d] = SubSeq(Stream, r + 1, x)
  BY <1>2, <1>4, <1>6 DEF SentSoFar
<1>8. /\ call[d].out = SubSeq(Stream, x + 1, x + n)
      /\ f_pos[d] + lseekPos = x + n
      /\ n # 0 /\ x + n <= Len(Stream)
  BY <1>1, <1>2, <1>4, <1>6 DEF HasRead
<1>9. r <= x
  BY <1>5
<1>10. /\ offered'[d] = SubSeq(Stream, r + 1, x + n)
       /\ Len(offered'[d]) = (x + n) - r
  <2>1. PICK S : S = Stream
    OBVIOUS
  <2>2. S \in Seq(Byte) /\ x + n <= Len(S)
    BY ONLY <1>3, <1>8, <2>1
  <2>3. /\ SubSeq(S, r + 1, x) \o SubSeq(S, x + 1, x + n) = SubSeq(S, r + 1, x + n)
        /\ Len(SubSeq(S, r + 1, x + n)) = (x + n) - r
    BY ONLY <1>9, <2>2, RunsJoin
  <2>4. offered'[d] = SubSeq(S, r + 1, x) \o SubSeq(S, x + 1, x + n)
    BY ONLY <1>3, <1>7, <1>8, <2>1
  <2> QED BY ONLY <2>1, <2>3, <2>4
<1>11. replyFrom'[d] = r /\ f_pos'[d] + lseekPos' = x + n /\ pc'[d] = "idle"
  BY <1>1, <1>4, <1>8
<1>12. NextByte(d)' = x + n
  <2>1. r + ((x + n) - r) = x + n
    OBVIOUS
  <2> QED BY <1>10, <1>11, <2>1 DEF NextByte
<1>13. SentSoFar(d)'
  BY <1>3, <1>8, <1>10, <1>11, <1>12 DEF SentSoFar
<1>14. ReadsOn(d)'
  BY <1>11, <1>12 DEF ReadsOn
<1> QED BY <1>3, <1>13, <1>14 DEF ReplyFor, SeekDone, Replying

-----------------------------------------------------------------------------
(* A reply through the steps of the driver. *)

LEMMA ReplySeek ==
  ASSUME SystemInv, RingInv, CallInv, ServerTypes, Uncontended, PlaceInv, NEW d \in Procs,
         handler[d] = "called", InDriver(d)
  PROVE  ReplyFor(d)'
<1>0. pc \in [Procs -> PCs] /\ call \in [Procs -> Frame] /\ DriverInv
  BY DEF SystemInv, DriverInv, MemoryTypes, CallInv
<1>1. handler'[d] = "called" /\ todo'[d] = todo[d]
  BY DEF InDriver, handlerVars
<1>2. /\ pc[d] \in {"i_lock", "i_seek"} \cup AtWrite
      /\ pc[d] \in {"i_lock", "i_seek"} => Head(todo[d]) = <<"seek", call[d].arg>>
      /\ pc[d] \in AtWrite => Head(todo[d])[1] = "write"
  BY InsideMoves DEF PlaceInv, PlaceFor, InUserSpace
<1>3. CASE pc[d] \in AtWrite
  BY <1>1, <1>2, <1>3 DEF ReplyFor, SeekDone
<1>4. CASE pc[d] = "i_lock"
  <2>1. pc'[d] = "i_seek"
    BY <1>0, <1>4, StepAt DEF IoctlLock, BuffLock, Goto
  <2> QED BY <1>1, <2>1 DEF ReplyFor, SeekDone
<1>5. CASE pc[d] = "i_seek"
  <2>1. CASE IoctlSeekTo(d)
    <3>1. lseekPos' = SeekPoint(call[d].arg)
      BY <1>0, <2>1, SeekLands
    <3>2. Lines' = Lines
      BY <2>1, StreamSame DEF IoctlSeekTo, heapVars
    <3>3. Head(todo[d])[2] = call[d].arg
      BY <1>2, <1>5
    <3>4. lseekPos' = SeekPoint(Head(todo[d])[2])'
      BY <1>1, <3>1, <3>2, <3>3 DEF SeekPoint
    <3> QED BY <1>1, <3>4 DEF ReplyFor, SeekDone
  <2>2. CASE IoctlInvalid(d)
    <3>1. call'[d].ret = -EINVAL
      BY <1>0, <2>2 DEF IoctlInvalid, Return, NoCall
    <3>2. call'[d].ret # 0
      BY <3>1 DEF EINVAL
    <3> QED BY <1>1, <3>2 DEF ReplyFor, SeekDone
  <2> QED BY <1>5, <2>1, <2>2, StepAt
<1> QED BY <1>2, <1>3, <1>4, <1>5

LEMMA ReplyReads ==
  ASSUME SystemInv, RingInv, CallInv, ServerTypes, PositionsInv, Uncontended, PlaceInv,
         NEW d \in Procs, handler[d] = "reading", Replying(d), InDriver(d)
  PROVE  ReplyFor(d)'
<1>0. /\ pc \in [Procs -> PCs] /\ call \in [Procs -> Frame] /\ DriverInv
      /\ f_pos \in [Procs -> Int]
  BY DEF SystemInv, DriverInv, MemoryTypes, CallInv
<1>1. /\ handler'[d] = "reading" /\ todo'[d] = todo[d]
      /\ replyFrom'[d] = replyFrom[d] /\ offered'[d] = offered[d]
  BY DEF InDriver, handlerVars
<1>2. pc[d] \in AtRead /\ call[d].count > 0
  BY InsideMoves DEF PlaceInv, PlaceFor, InUserSpace
<1>3. SentSoFar(d) /\ ReadsOn(d)
  BY <1>2 DEF Replying, AtRead
<1>4. f_pos[d] + lseekPos = NextByte(d)
  BY <1>3 DEF ReadsOn
<1>5. NextByte(d)' = NextByte(d)
  BY <1>1 DEF NextByte
<1>6. Stream \in Seq(Byte) /\ Len(Stream) \in Nat
  BY <1>0, StreamFits
<1>7. PICK x \in Nat : x = NextByte(d)
  <2>1. f_pos[d] \in Nat /\ lseekPos \in Nat
    BY ReadsAt
  <2> QED BY <1>4, <2>1
<1>8. ReadPosition(d) = x
  BY <1>4, <1>7, ReadsAt
<1>9. ASSUME UNCHANGED <<buff, mem>>
      PROVE  Stream' = Stream /\ SentSoFar(d)'
  <2>1. Stream' = Stream
    BY <1>9, StreamSame
  <2> QED BY <1>1, <1>3, <1>5, <2>1 DEF SentSoFar
<1>10. CASE pc[d] = "r_lock"
  <2>1. /\ pc'[d] = "r_find" /\ UNCHANGED <<buff, mem, lseekPos, f_pos>>
    BY <1>0, <1>10, StepAt DEF ReadLock, BuffLock, Goto, devVars, heapVars
  <2>2. ReadsOn(d)'
    BY <1>4, <1>5, <2>1 DEF ReadsOn
  <2> QED BY <1>1, <1>9, <2>1, <2>2 DEF ReplyFor, SeekDone, Replying
<1>11. CASE pc[d] = "r_find"
  <2>1. CASE ReadFind(d)
    <3>1. /\ pc'[d] = "r_copy" /\ UNCHANGED <<buff, mem, lseekPos, f_pos>>
      BY <1>0, <2>1 DEF ReadFind, Goto, devVars, heapVars
    <3>2. call'[d].actualPos = x
      BY <1>0, <1>8, <2>1 DEF ReadFind, Frame
    <3>3. ReadsOn(d)'
      BY <1>4, <1>5, <1>7, <3>1, <3>2 DEF ReadsOn
    <3> QED BY <1>1, <1>9, <3>1, <3>3 DEF ReplyFor, SeekDone, Replying
  <2>2. CASE ReadEnd(d)
    <3>1. /\ pc'[d] = "idle" /\ UNCHANGED <<buff, mem, lseekPos, f_pos>>
      BY <1>0, <2>2 DEF ReadEnd, Return, Goto, devVars, heapVars
    <3>2. call'[d].ret = 0 /\ call'[d].out = <<>>
      BY <1>0, <2>2 DEF ReadEnd, Return, NoCall
    <3>3. x >= Len(Stream)
      BY <1>0, <1>8, <2>2, EndIsEnd
    <3>4. SubSeq(Stream, x + 1, x + 0) = <<>>
      BY SubSeqEmpty
    <3>5. f_pos'[d] + lseekPos' = x + 0
      BY <1>4, <1>7, <3>1
    <3>6. NextByte(d)' = x /\ Stream' = Stream
      BY <1>5, <1>7, <1>9, <3>1
    <3>7. HasRead(d)'
      BY <3>2, <3>3, <3>4, <3>5, <3>6 DEF HasRead
    <3> QED BY <1>1, <1>9, <3>1, <3>7 DEF ReplyFor, SeekDone, Replying
  <2> QED BY <1>11, <2>1, <2>2, StepAt
<1>12. CASE pc[d] = "r_copy"
  <2>1. ReadCopy(d) /\ call'[d].ret = SizeToRead(d)
    BY <1>12, StepAt
  <2>2. /\ pc'[d] = "idle" /\ UNCHANGED <<buff, mem, lseekPos>>
    BY <1>0, <2>1 DEF ReadCopy, Goto, devVars, heapVars
  <2>3. call[d].actualPos = x
    BY <1>3, <1>7, <1>12 DEF ReadsOn
  <2>4. PICK n \in Nat : n = call'[d].ret
    BY <1>0, <2>1, CopyDelivers
  <2>5. call'[d].out = SubSeq(Stream, x + 1, x + n) /\ x + n <= Len(Stream)
    BY <1>0, <2>1, <2>3, <2>4, CopyDelivers
  <2>6. f_pos'[d] = f_pos[d] + n /\ n > 0
    BY <1>0, <1>2, <2>1, <2>4, CopyMoves
  <2>7. f_pos'[d] + lseekPos' = x + n
    <3>1. f_pos[d] \in Int /\ lseekPos \in Int
      BY <1>0, FrameOf
    <3> QED BY <1>4, <1>7, <2>2, <2>6, <3>1
  <2>8. NextByte(d)' = x /\ Stream' = Stream
    BY <1>5, <1>7, <1>9, <2>2
  <2>9. HasRead(d)'
    BY <2>4, <2>5, <2>6, <2>7, <2>8 DEF HasRead
  <2> QED BY <1>1, <1>9, <2>2, <2>9 DEF ReplyFor, SeekDone, Replying
<1> QED BY <1>2, <1>10, <1>11, <1>12 DEF AtRead

(* The types of what concerns a reply alone.                               *)
ReplyTypes ==
  /\ DOMAIN replyFrom = Procs
  /\ disturbed \in [Procs -> BOOLEAN]

ServerInv == /\ SystemInv /\ RingInv /\ CallInv /\ ServerTypes /\ Uncontended
             /\ PositionsInv /\ PlaceInv /\ ReplyTypes

LEMMA ReplyTypesKept == ReplyTypes /\ [SystemNext]_allVars => ReplyTypes'
<1> SUFFICES ASSUME ReplyTypes, [SystemNext]_allVars PROVE ReplyTypes'
  OBVIOUS
<1>1. DOMAIN replyFrom' = Procs
  BY DEF ReplyTypes, SystemNext, Load, StartServer, Killed, Receive, CallDevice, Called,
         ReplyRead, ReplySend, ReplyEnd, Close, CloseDead, InDriver, handlerVars, allVars
<1>2. CASE \E c \in Procs : CallDevice(c)
  BY <1>1, <1>2 DEF CallDevice, ReplyTypes
<1>3. CASE \E c \in Procs : Close(c)
  <2>1. PICK c \in Procs :
          disturbed' = [d \in Procs |-> disturbed[d] \/ (d # c /\ fileMutex = d)]
    BY <1>3 DEF Close
  <2>2. \A d \in Procs : disturbed'[d] \in BOOLEAN
    BY <2>1, Zenon
  <2>3. disturbed' \in [Procs -> BOOLEAN]
    BY <2>1, <2>2
  <2> QED BY <1>1, <2>3 DEF ReplyTypes
<1>4. CASE UNCHANGED disturbed
  BY <1>1, <1>4 DEF ReplyTypes
<1> QED
  BY <1>2, <1>3, <1>4
  DEF SystemNext, Load, StartServer, Killed, Receive, Called,
      ReplyRead, ReplySend, ReplyEnd, CloseDead, InDriver, handlerVars, allVars

(* A step of c, seen by another handler d.                                 *)
LEMMA ReplyElsewhere ==
  ASSUME ServerInv, NEW c \in Procs, NEW d \in Procs, c # d, Busy(d),
         ReplyFor(d), ~disturbed'[d],
         \/ Receive(c) \/ CallDevice(c) \/ Called(c) \/ ReplyRead(c) \/ ReplySend(c)
         \/ ReplyEnd(c) \/ Close(c) \/ CloseDead(c) \/ InDriver(c)
  PROVE  ReplyFor(d)'
<1>1. running /\ fileMutex = d /\ ~Busy(c) /\ pc[c] \in InUserSpace
  BY OneBusy DEF ServerInv
<1>2. Receive(c)
  <2>1. ~CallDevice(c)
    BY <1>1, DriverAssumption DEF CallDevice, LockFileMutex
  <2>2. ~(Called(c) \/ ReplyRead(c) \/ ReplySend(c) \/ ReplyEnd(c))
    BY <1>1 DEF Called, ReplyRead, ReplySend, ReplyEnd, HandlerGoto, Busy
  <2>3. ~CloseDead(c) /\ ~InDriver(c)
    BY <1>1, InsideMoves DEF CloseDead
  <2>4. ~Close(c)
    BY <1>1 DEF Close
  <2> QED BY <2>1, <2>2, <2>3, <2>4
<1>3. /\ UNCHANGED <<buff, mem, lseekPos, call, f_pos, replyFrom, offered>>
      /\ pc'[d] = pc[d] /\ handler'[d] = handler[d] /\ todo'[d] = todo[d]
  <2>1. /\ pc \in [Procs -> PCs] /\ handler \in [Procs -> Stages]
        /\ todo \in [Procs -> Seq(Commands)]
    BY DEF ServerInv, SystemInv, DriverInv, MemoryTypes, ServerTypes
  <2> QED BY <1>2, <2>1 DEF Receive, HandlerGoto, aesd_open, Goto, devVars, heapVars
<1> QED BY <1>3, ReplyStays

(* A step of the handler itself.                                           *)
LEMMA ReplyOwn ==
  ASSUME ServerInv, NEW d \in Procs, Busy(d)', ~disturbed'[d],
         ~disturbed[d] => ReplyFor(d),
         \/ Receive(d) \/ CallDevice(d) \/ Called(d) \/ ReplyRead(d) \/ ReplySend(d)
         \/ ReplyEnd(d) \/ Close(d) \/ CloseDead(d) \/ InDriver(d)
  PROVE  ReplyFor(d)'
<1> USE DEF HandlerGoto
<1>0. /\ pc \in [Procs -> PCs] /\ call \in [Procs -> Frame]
      /\ handler \in [Procs -> Stages]
  BY DEF ServerInv, SystemInv, DriverInv, MemoryTypes, CallInv, ServerTypes
<1>1. CASE Receive(d) \/ ReplyEnd(d) \/ Close(d)
  BY <1>0, <1>1 DEF Receive, ReplyEnd, Close, Busy
<1>2. CASE CloseDead(d)
  <2>1. Busy(d) /\ ~running
    BY <1>2 DEF CloseDead, handlerVars, Busy
  <2> QED BY <2>1, OneBusy DEF ServerInv
<1>3. CASE CallDevice(d)
  <2>1. handler'[d] = "called" /\ pc'[d] # "idle"
    BY <1>0, <1>3 DEF CallDevice, WriteCall, IoctlCall, Enter, Goto
  <2> QED BY ONLY <2>1 DEF ReplyFor, SeekDone
<1>4. ASSUME Called(d) \/ ReplyRead(d) \/ ReplySend(d) \/ InDriver(d)
      PROVE  ReplyFor(d)
  BY <1>4 DEF Called, ReplyRead, ReplySend, InDriver, handlerVars
<1>5. CASE Called(d)
  <2>1. SeekDone(d)
    BY <1>4, <1>5 DEF ReplyFor
  <2> QED BY <1>5, <2>1, ReplyBegins DEF ServerInv, ReplyTypes
<1>6. CASE ReplyRead(d)
  <2>1. /\ handler[d] = "reply" /\ handler'[d] = "reading"
        /\ pc'[d] = "r_lock"
        /\ UNCHANGED <<buff, mem, lseekPos, f_pos, replyFrom, offered>>
    BY <1>0, <1>6 DEF ReplyRead, ReadCall, Enter, Goto, devVars, heapVars
  <2>2. SentSoFar(d) /\ ReadsOn(d)
    BY <1>4, <1>6, <2>1 DEF ReplyFor, Replying
  <2>3. Stream' = Stream /\ NextByte(d)' = NextByte(d)
    BY <2>1, StreamSame DEF NextByte
  <2>4. SentSoFar(d)' /\ ReadsOn(d)'
    BY <2>1, <2>2, <2>3 DEF SentSoFar, ReadsOn
  <2> QED BY <2>1, <2>4 DEF ReplyFor, SeekDone, Replying
<1>7. CASE ReplySend(d)
  <2>1. Replying(d)
    BY <1>4, <1>7 DEF ReplyFor, ReplySend
  <2> QED BY <1>7, <2>1, ReplyGrows DEF ServerInv
<1>8. CASE InDriver(d)
  <2>1. handler'[d] = handler[d] /\ pc[d] \notin InUserSpace
    BY <1>8, InsideMoves DEF InDriver, handlerVars
  <2>2. CASE handler[d] = "called"
    BY <1>8, <2>2, ReplySeek DEF ServerInv
  <2>3. CASE handler[d] = "reading"
    <3>1. Replying(d)
      BY <1>4, <1>8, <2>3 DEF ReplyFor
    <3> QED BY <1>8, <2>3, <3>1, ReplyReads DEF ServerInv
  <2>4. handler[d] # "reply"
    BY <2>1 DEF ServerInv, PlaceInv, PlaceFor, InUserSpace
  <2> QED BY <2>1, <2>2, <2>3, <2>4 DEF Busy
<1> QED BY <1>1, <1>2, <1>3, <1>5, <1>6, <1>7, <1>8

LEMMA ReplyKept ==
  ASSUME ServerInv, ReplyInv, [SystemNext]_allVars
  PROVE  ReplyInv'
<1> SUFFICES ASSUME NEW d \in Procs, ~disturbed'[d] PROVE ReplyFor(d)'
  BY DEF ReplyInv
<1>1. CASE ~Busy(d)'
  BY <1>1 DEF Busy, ReplyFor, SeekDone
<1>2. CASE Busy(d)'
  <2>0. ~disturbed[d] => ReplyFor(d)
    BY DEF ReplyInv
  <2>1. CASE Load
    <3>1. \A c \in Procs : pc[c] = "closed"
      BY <2>1 DEF Load, aesd_init_module, ServerInv, SystemInv, DriverInv
    <3>2. Busy(d)
      BY <1>2, <2>1 DEF Load, handlerVars, Busy
    <3> QED BY <3>1, <3>2, OneBusy DEF ServerInv
  <2>2. CASE StartServer
    <3>1. ~running /\ Busy(d)
      BY <1>2, <2>2 DEF StartServer, Busy
    <3> QED BY <3>1, OneBusy DEF ServerInv
  <2>3. CASE Killed
    BY <1>2, <2>3 DEF Killed, Busy
  <2>4. ASSUME NEW c \in Procs,
               \/ Receive(c) \/ CallDevice(c) \/ Called(c) \/ ReplyRead(c) \/ ReplySend(c)
               \/ ReplyEnd(c) \/ Close(c) \/ CloseDead(c) \/ InDriver(c)
        PROVE  ReplyFor(d)'
    <3>1. CASE c = d
      BY <1>2, <2>0, <2>4, <3>1, ReplyOwn
    <3>2. CASE c # d
      <4>1. handler'[d] = handler[d]
        BY <2>4, <3>2
        DEF Receive, CallDevice, Called, ReplyRead, ReplySend, ReplyEnd, Close, CloseDead,
            InDriver, handlerVars, HandlerGoto, ServerInv, ServerTypes
      <4>2. Busy(d)
        BY <1>2, <4>1 DEF Busy
      <4>3. ~disturbed[d]
        <5>1. CASE CallDevice(c)
          <6>1. fileMutex = NoProc
            BY <5>1 DEF CallDevice, LockFileMutex
          <6> QED BY <4>2, <6>1, OneBusy, DriverAssumption DEF ServerInv
        <5>2. CASE Close(c)
          <6>1. disturbed'[d] = (disturbed[d] \/ (d # c /\ fileMutex = d))
            BY <5>2 DEF Close
          <6> QED BY <6>1, Zenon
        <5>3. CASE UNCHANGED disturbed
          BY <5>3
        <5> QED
          BY <2>4, <5>1, <5>2, <5>3
          DEF Receive, Called, ReplyRead, ReplySend, ReplyEnd, CloseDead, InDriver,
              handlerVars
      <4> QED BY <2>0, <2>4, <3>2, <4>2, <4>3, ReplyElsewhere
    <3> QED BY <3>1, <3>2
  <2>5. CASE UNCHANGED allVars
    <3>1. /\ UNCHANGED <<buff, mem, lseekPos, handler, pc, call, todo, f_pos,
                         replyFrom, offered, disturbed>>
      BY <2>5 DEF allVars, vars, devVars, heapVars, handlerVars
    <3> QED BY <2>0, <3>1, ReplyStays
  <2> QED BY <2>1, <2>2, <2>3, <2>4, <2>5 DEF SystemNext
<1> QED BY <1>1, <1>2

(* The last step of a reply.                                               *)
LEMMA ReplyComplete ==
  ASSUME ServerInv, ReplyInv, [SystemNext]_allVars, NEW c \in Procs,
         handler[c] = "reading", handler'[c] = "scan", ~disturbed[c]
  PROVE  offered[c] = SubSeq(Stream, replyFrom[c] + 1, Len(Stream))
<1>1. ReplyEnd(c)
  <2>1. handler \in [Procs -> Stages]
    BY DEF ServerInv, ServerTypes
  <2> QED
    BY <2>1 DEF SystemNext, Load, StartServer, Killed, Receive, CallDevice, Called,
                ReplyRead, ReplySend, ReplyEnd, Close, CloseDead, InDriver, HandlerGoto,
                handlerVars, allVars
<1>2. pc[c] = "idle" /\ call[c].ret <= 0
  BY <1>1 DEF ReplyEnd
<1>3. SentSoFar(c) /\ HasRead(c)
  BY <1>2 DEF ReplyInv, ReplyFor, Replying
<1>4. PICK r \in Nat : r = replyFrom[c]
  BY <1>3 DEF SentSoFar
<1>5. PICK l \in Nat : l = Len(Stream)
  BY StreamFits DEF ServerInv, SystemInv
<1>6. NextByte(c) >= l
  BY <1>2, <1>3, <1>5 DEF HasRead
<1>7. CASE offered[c] = <<>>
  <2>1. NextByte(c) = r
    BY <1>4, <1>7 DEF NextByte
  <2>2. SubSeq(Stream, r + 1, l) = <<>>
    BY <1>6, <2>1, SubSeqEmpty
  <2> QED BY <1>4, <1>5, <1>7, <2>2
<1>8. CASE offered[c] # <<>>
  <2>1. NextByte(c) <= l
    BY <1>3, <1>5, <1>8 DEF SentSoFar
  <2>2. NextByte(c) \in Nat
    BY <1>4 DEF NextByte, ServerInv, ServerTypes
  <2>3. NextByte(c) = l
    BY <1>6, <2>1, <2>2
  <2> QED BY <1>3, <1>5, <2>3 DEF SentSoFar
<1> QED BY <1>7, <1>8

LEMMA ServerCorrect == System => [](ServerInv /\ ReplyInv)
<1>1. SystemInit => PositionsInv /\ PlaceInv /\ ReplyTypes /\ ReplyInv
  <2> SUFFICES ASSUME SystemInit
               PROVE  PositionsInv /\ PlaceInv /\ ReplyTypes /\ ReplyInv
    OBVIOUS
  <2>1. \A c \in Procs : pc[c] = "closed" /\ f_pos[c] = 0 /\ handler[c] = "recv"
    BY DEF SystemInit, Init
  <2>2. lseekPos = 0 /\ 0 \in 0 .. MaxPosition
    BY NoWrap DEF SystemInit, Init
  <2>3. PositionsInv
    BY <2>1, <2>2 DEF PositionsInv
  <2>4. PlaceInv
    BY <2>1 DEF PlaceInv, PlaceFor
  <2>5. ReplyTypes
    BY DEF SystemInit, ReplyTypes
  <2>6. ReplyInv
    BY <2>1 DEF ReplyInv, ReplyFor, SeekDone
  <2> QED BY <2>3, <2>4, <2>5, <2>6
<1>2. System => []ServerTypes
  BY ServerTypesCorrect
<1>3. /\ SystemInv /\ RingInv /\ CallInv /\ ServerTypes /\ Uncontended
      /\ PositionsInv /\ PlaceInv /\ ReplyTypes /\ ReplyInv /\ [SystemNext]_allVars
      => PositionsInv' /\ PlaceInv' /\ ReplyTypes' /\ ReplyInv'
  BY PositionsKept, PlaceKept, ReplyTypesKept, ReplyKept DEF ServerInv
<1>4. /\ SystemInv /\ RingInv /\ CallInv /\ ServerTypes /\ Uncontended
      /\ PositionsInv /\ PlaceInv /\ ReplyTypes /\ ReplyInv
      => ServerInv /\ ReplyInv
  BY DEF ServerInv
<1> QED
  BY <1>1, <1>2, <1>3, <1>4, SystemCorrect, HandlersApart, ServerUsesDriver, RingCorrect,
     CallCorrect, PTL
  DEF System

(* A reply is everything that is stored from where the handler's file and  *)
(* the shared position pointed to when it began, though it takes many      *)
(* reads of an entry at most: no other handler is in the driver until it   *)
(* ends, and only the closing of the device by one of them, without        *)
(* FileMutex, can take back its seek.                                      *)
THEOREM RepliesAreRest == System => ReplyIsRest
<1>1. ServerInv /\ ReplyInv /\ [SystemNext]_allVars
      => [\A c \in Procs :
            handler[c] = "reading" /\ handler'[c] = "scan" /\ ~disturbed[c] =>
              offered[c] = SubSeq(Stream, replyFrom[c] + 1, Len(Stream))]_allVars
  BY ReplyComplete
<1> QED BY <1>1, ServerCorrect, PTL DEF System, ReplyIsRest

-----------------------------------------------------------------------------
(* A client's own line. *)

(* The newest entry of the device is d. *)
Newest(d) == Lines # <<>> /\ Lines[Len(Lines)] = d

(* Where the line d is while c's write of it runs, and after it succeeded. *)
LineAt(c, d) ==
  /\ pc[c] = "w_lock" => call[c].rest = d
  /\ pc[c] \in HoldsEntryMutex => call[c].count = Len(d)
  /\ pc[c] = "w_scan" => call[c].rest = d \/ (call[c].rest = <<>> /\ Newest(d))
  /\ pc[c] \in {"f_lock", "f_add"} => Partial = d
  /\ pc[c] = "f_free" => Newest(d)
  /\ pc[c] = "idle" /\ call[c].ret = Len(d) => Newest(d)

Writes(c) == Busy(c) /\ Head(todo[c])[1] = "write"

OwnFor(c) ==
  Writes(c) =>
    LET d == Head(todo[c])[2] IN
    IF handler[c] = "called" THEN LineAt(c, d) ELSE Newest(d)

OwnInv == \A c \in Procs : OwnFor(c)

(* What a handler writes is a line.                                        *)
LEMMA OwnLine ==
  ASSUME ServerTypes, NEW c \in Procs, Writes(c)
  PROVE  LET d == Head(todo[c])[2]
         IN  /\ d \in Payloads /\ d \in Seq(Byte)
             /\ Len(d) \in Nat \ {0}
             /\ HasLine(d)
<1>1. todo[c] \in Seq(Commands) /\ todo[c] # <<>>
  BY DEF ServerTypes, CommandKept, Writes, Busy
<1>2. Head(todo[c]) \in Commands
  BY <1>1, HeadTailProperties
<1>3. Head(todo[c])[2] \in Payloads
  BY <1>2 DEF Commands, Writes
<1> PICK d : d = Head(todo[c])[2]
  OBVIOUS
<1>4. d \in Seq(Byte) /\ EndsLine(d, Len(d))
  BY <1>3, DriverAssumption, LinesAssumption
<1>5. Len(d) \in DOMAIN d /\ d[Len(d)] = Newline
  BY <1>4 DEF EndsLine
<1>6. Len(d) \in Nat \ {0} /\ HasLine(d)
  BY <1>4, <1>5 DEF HasLine
<1> QED BY <1>3, <1>4, <1>6

(* A handler's line is not concerned by what leaves the device alone.      *)
LEMMA OwnStays ==
  ASSUME NEW d \in Procs, OwnFor(d), UNCHANGED <<buff, mem>>, Partial' = Partial,
         handler'[d] = handler[d], pc'[d] = pc[d], call'[d] = call[d],
         todo'[d] = todo[d]
  PROVE  OwnFor(d)'
<1>1. Lines' = Lines
  BY StreamSame
<1>2. \A x : Newest(x) = Newest(x)'
  BY <1>1 DEF Newest
<1>3. \A x : LineAt(d, x) => LineAt(d, x)'
  BY <1>2 DEF LineAt
<1> QED BY <1>2, <1>3 DEF OwnFor, Writes, Busy

(* The write waits for the entry mutex, or has given it back.              *)
LEMMA OwnLock ==
  ASSUME ServerInv, NEW c \in Procs, NEW d \in Payloads, Len(d) \in Nat, LineAt(c, d),
         WriteLock(c) \/ WriteTooLarge(c) \/ WriteInterrupted(c)
  PROVE  LineAt(c, d)'
<1>0. /\ pc \in [Procs -> PCs] /\ call \in [Procs -> Frame] /\ FrameInv
  BY DEF ServerInv, SystemInv, DriverInv, MemoryTypes, CallInv
<1>1. CASE WriteLock(c)
  <2>1. pc[c] = "w_lock" /\ pc'[c] = "w_scan" /\ call'[c] = call[c]
    BY <1>0, <1>1 DEF WriteLock, Goto
  <2>2. call[c].rest = d /\ call[c].count = Len(d)
    BY <1>0, <2>1 DEF LineAt, FrameInv
  <2> QED BY <2>1, <2>2 DEF LineAt
<1>2. CASE WriteTooLarge(c) \/ WriteInterrupted(c)
  <2>1. PICK n \in {ENOMEM, ERESTARTSYS} :
          /\ pc' = [pc EXCEPT ![c] = "idle"]
          /\ call' = [call EXCEPT ![c] = [NoCall EXCEPT !.ret = -n]]
    BY <1>2 DEF WriteTooLarge, WriteInterrupted, Return, Goto
  <2>2. pc'[c] = "idle" /\ call'[c].ret = -n
    BY <1>0, <2>1 DEF NoCall
  <2>3. call'[c].ret # Len(d)
    BY <2>2 DEF ENOMEM, ERESTARTSYS
  <2> QED BY <2>2, <2>3 DEF LineAt, HoldsEntryMutex
<1> QED BY <1>1, <1>2

(* The write stages its line, cannot, or is at its end.                    *)
LEMMA OwnScan ==
  ASSUME ServerInv, WriteInv, NEW c \in Procs, NEW d \in Payloads, d \in Seq(Byte),
         Len(d) \in Nat \ {0}, HasLine(d), LineAt(c, d),
         WriteLine(c) \/ WriteLineFails(c) \/ WriteLeftover(c) \/ WriteDone(c)
  PROVE  LineAt(c, d)'
<1>0. /\ pc \in [Procs -> PCs] /\ call \in [Procs -> Frame] /\ DriverInv /\ RestInv
  BY DEF ServerInv, SystemInv, DriverInv, MemoryTypes, CallInv, WriteInv
<1>1. pc[c] = "w_scan"
  BY DEF WriteLine, WriteLineFails, WriteLeftover, WriteDone, Goto, Return
<1>2. /\ call[c].count = Len(d)
      /\ call[c].rest = d \/ (call[c].rest = <<>> /\ Newest(d))
  BY <1>1 DEF LineAt, HoldsEntryMutex
<1>3. CASE WriteLine(c)
  <2>1. PICK to, b, chunk : StoreMove(c, to, b, chunk)
    BY <1>0, <1>3, WriteStoreSteps
  <2>2. /\ pc'[c] = "f_lock"
        /\ \E r : call' = [call EXCEPT ![c].rest = r]
        /\ DOMAIN call[c].rest # {}
    BY <1>0, <1>3 DEF WriteLine, Goto
  <2>3. call[c].rest = d
    BY <1>2, <2>2
  <2>4. to = "f_lock" /\ StoreFits(b, Len(chunk))
    BY <1>0, <2>1, <2>2 DEF StoreMove, LockMove
  <2>5. Partial = <<>>
    <3>1. \A p \in Procs : ~Flushing(p)
      BY <1>0, <1>1, OneWriter DEF Flushing, HoldsEntryMutex
    <3> QED BY <3>1 DEF WriteInv, StagedLine
  <2>6. Partial' = d
    BY <1>0, <2>1, <2>3, <2>4, <2>5, StoredLine
  <2>7. call'[c].count = Len(d)
    BY <1>0, <1>2, <2>2 DEF Frame
  <2> QED BY <2>2, <2>6, <2>7 DEF LineAt
<1>4. CASE WriteLineFails(c)
  <2>1. pc'[c] = "idle" /\ call'[c].ret = -ENOMEM
    BY <1>0, <1>4 DEF WriteLineFails, Return, Goto, NoCall
  <2>2. call'[c].ret # Len(d)
    BY <2>1 DEF ENOMEM
  <2> QED BY <2>1, <2>2 DEF LineAt, HoldsEntryMutex
<1>5. CASE WriteLeftover(c)
  <2>1. call[c].rest # <<>> /\ ~HasLine(call[c].rest)
    BY <1>5 DEF WriteLeftover
  <2> QED BY <1>2, <2>1
<1>6. CASE WriteDone(c)
  <2>1. call[c].rest = <<>> /\ pc'[c] = "idle" /\ UNCHANGED <<buff, mem>>
    BY <1>0, <1>6 DEF WriteDone, Return, Goto, devVars, heapVars
  <2>2. Newest(d)
    BY <1>2, <2>1
  <2>3. Newest(d)'
    BY <2>1, <2>2, StreamSame DEF Newest
  <2> QED BY <2>1, <2>3 DEF LineAt, HoldsEntryMutex
<1> QED BY <1>3, <1>4, <1>5, <1>6

(* The line is handed over: it becomes the newest entry, and stays it when *)
(* the one it displaces is freed.                                          *)
LEMMA OwnFlush ==
  ASSUME ServerInv, WriteInv, NEW c \in Procs, NEW d \in Payloads, LineAt(c, d),
         FlushLock(c) \/ FlushAdd(c) \/ FlushFree(c)
  PROVE  LineAt(c, d)'
<1>0. /\ pc \in [Procs -> PCs] /\ call \in [Procs -> Frame] /\ DriverInv /\ RingInv
      /\ RestInv
  BY DEF ServerInv, SystemInv, DriverInv, MemoryTypes, CallInv, WriteInv
<1>1. CASE FlushLock(c)
  <2>1. pc[c] = "f_lock" /\ call'[c] = call[c] /\ UNCHANGED <<mem, entry>>
    BY <1>0, <1>1 DEF FlushLock, Goto, devVars, heapVars
  <2>2. Partial = d /\ call[c].count = Len(d)
    BY <2>1 DEF LineAt, HoldsEntryMutex
  <2>3. PICK to : pc' = [pc EXCEPT ![c] = to] /\ to \in {"f_add", "w_scan"}
    BY <1>1 DEF FlushLock, Goto
  <2>4. pc'[c] = "f_add"
    <3>1. ~FlushInterrupted(c)
      BY <2>1 DEF ServerInv, Uncontended, FlushInterrupted
    <3>2. Quiet(c)
      BY <1>1 DEF Quiet
    <3> QED BY <1>0, <2>1, <3>1, <3>2, FlushGoesOn
  <2>5. Partial' = Partial
    BY <1>0, <2>1, <2>3, QuietPartial
  <2> QED BY <2>1, <2>2, <2>4, <2>5 DEF LineAt
<1>2. CASE FlushAdd(c)
  <2>1. pc[c] = "f_add" /\ pc'[c] = "f_free" /\ call'[c].count = call[c].count
    BY <1>0, <1>2 DEF FlushAdd, Goto, Frame
  <2>2. Partial = d /\ call[c].count = Len(d)
    BY <2>1 DEF LineAt, HoldsEntryMutex
  <2>3. PICK kept : kept \in Seq(Payloads) /\ Lines' = Append(kept, d)
    <3>1. Lines' = Append(IF Len(Lines) = Capacity THEN Tail(Lines) ELSE Lines, d)
      BY <1>0, <1>2, <2>2, FlushAddSimulates DEF Log!Commit
    <3>2. Len(Lines) = Capacity => Lines # <<>>
      BY CapacityAssumption DEF Capacity
    <3>3. Len(Lines) = Capacity => Tail(Lines) \in Seq(Payloads)
      BY <3>2, HeadTailProperties DEF WriteInv
    <3> QED BY <3>1, <3>3 DEF WriteInv
  <2>4. Lines' # <<>> /\ Lines'[Len(Lines')] = d
    BY <2>3, AppendProperties
  <2> QED BY <2>1, <2>2, <2>4 DEF LineAt, Newest
<1>3. CASE FlushFree(c)
  <2>1. /\ pc[c] = "f_free" /\ pc'[c] = "w_scan"
        /\ call'[c].count = call[c].count /\ call'[c].rest = call[c].rest
    BY <1>0, <1>3 DEF FlushFree, Goto, Frame
  <2>2. Newest(d) /\ call[c].count = Len(d)
    BY <2>1 DEF LineAt, HoldsEntryMutex
  <2>3. call[c].rest = <<>>
    BY <1>0, <2>1 DEF RestInv, RestFor
  <2>4. Newest(d)'
    BY <1>0, <1>3, <2>2, FlushFreeSimulates DEF Newest
  <2> QED BY <2>1, <2>2, <2>3, <2>4 DEF LineAt
<1> QED BY <1>1, <1>2, <1>3

(* The driver takes a step of the handler's call.                          *)
LEMMA OwnInDriver ==
  ASSUME ServerInv, WriteInv, NEW c \in Procs, OwnFor(c), Writes(c), InDriver(c)
  PROVE  OwnFor(c)'
<1>0. /\ handler'[c] = handler[c] /\ todo'[c] = todo[c] /\ pc[c] \notin InUserSpace
  BY InsideMoves DEF InDriver, handlerVars
<1> PICK d : d = Head(todo[c])[2]
  OBVIOUS
<1>1. d \in Payloads /\ d \in Seq(Byte) /\ Len(d) \in Nat \ {0} /\ HasLine(d)
  BY OwnLine DEF ServerInv
<1>2. PlaceFor(handler[c], pc[c], call[c], todo[c])
  BY DEF ServerInv, PlaceInv
<1>3. CASE handler[c] = "called"
  <2>1. LineAt(c, d)
    BY <1>3 DEF OwnFor
  <2>2. pc[c] \in AtWrite
    BY <1>0, <1>2, <1>3 DEF PlaceFor, InUserSpace, Writes
  <2>3. \/ WriteLock(c) \/ WriteTooLarge(c) \/ WriteInterrupted(c)
        \/ WriteLine(c) \/ WriteLineFails(c) \/ WriteLeftover(c) \/ WriteDone(c)
        \/ FlushLock(c) \/ FlushAdd(c) \/ FlushFree(c)
    <3> USE <2>2 DEF AtWrite, Goto, Return
    <3>1. ~(ReadLock(c) \/ SeekLock(c) \/ IoctlLock(c))
      BY DEF ReadLock, SeekLock, IoctlLock, BuffLock
    <3>2. ~(FlushInterrupted(c) \/ BuffLockInterrupted(c))
      BY DEF FlushInterrupted, BuffLockInterrupted, ServerInv, Uncontended
    <3>3. ~(ReadFind(c) \/ ReadEnd(c) \/ ReadCopy(c) \/ SeekLoad(c) \/ SeekStore(c)
            \/ SeekReturn(c) \/ IoctlSeekTo(c) \/ IoctlInvalid(c))
      BY DEF ReadFind, ReadEnd, ReadCopy, SeekLoad, SeekStore, SeekReturn,
             IoctlSeekTo, IoctlInvalid
    <3> QED BY ONLY <3>1, <3>2, <3>3, InDriver(c)
            DEF InDriver, EntryLockStep, BuffLockStep, SignalStep, DriverStep
  <2>4. LineAt(c, d)'
    BY <1>1, <2>1, <2>3, OwnLock, OwnScan, OwnFlush
  <2> QED BY <1>0, <1>3, <2>4 DEF OwnFor
<1>4. CASE handler[c] # "called"
  <2>1. pc[c] \in AtRead
    BY <1>0, <1>2, <1>4 DEF PlaceFor, InUserSpace, Writes, Busy
  <2>2. UNCHANGED <<buff, mem>>
    BY <2>1, StepAt
    DEF ServerInv, AtRead, ReadLock, BuffLock, ReadFind, ReadEnd, ReadCopy, devVars,
        heapVars
  <2>3. Lines' = Lines
    BY <2>2, StreamSame
  <2> QED BY <1>0, <1>4, <2>3 DEF OwnFor, Newest, Writes, Busy
<1> QED BY <1>3, <1>4

(* A step of the handler itself.                                           *)
LEMMA OwnOwn ==
  ASSUME ServerInv, WriteInv, NEW c \in Procs, OwnFor(c), Writes(c)',
         \/ Receive(c) \/ CallDevice(c) \/ Called(c) \/ ReplyRead(c) \/ ReplySend(c)
         \/ ReplyEnd(c) \/ Close(c) \/ CloseDead(c) \/ InDriver(c)
  PROVE  OwnFor(c)'
<1> USE DEF HandlerGoto
<1>0. /\ pc \in [Procs -> PCs] /\ call \in [Procs -> Frame]
      /\ handler \in [Procs -> Stages]
  BY DEF ServerInv, SystemInv, DriverInv, MemoryTypes, CallInv, ServerTypes
<1>1. CASE Receive(c) \/ ReplyEnd(c) \/ Close(c)
  BY <1>0, <1>1 DEF Receive, ReplyEnd, Close, Writes, Busy
<1>2. CASE CloseDead(c)
  <2>1. Busy(c) /\ ~running
    BY <1>2 DEF CloseDead, handlerVars, Writes, Busy
  <2> QED BY <2>1, OneBusy DEF ServerInv
<1>3. CASE CallDevice(c)
  <2>1. handler'[c] = "called" /\ todo' = todo /\ Head(todo[c])[1] = "write"
    BY <1>0, <1>3 DEF CallDevice, Writes
  <2>2. WriteCall(c) /\ Head(todo[c]) = <<"write", call'[c].rest>>
    BY <1>3, <2>1 DEF CallDevice
  <2>3. pc'[c] = "w_lock"
    BY <1>0, <2>2 DEF WriteCall, Enter, Goto
  <2>4. call'[c].rest = Head(todo[c])[2]
    BY <2>2
  <2> QED BY <2>1, <2>3, <2>4 DEF OwnFor, LineAt, HoldsEntryMutex
<1>4. CASE Called(c)
  <2>1. /\ handler[c] = "called" /\ pc[c] = "idle" /\ handler'[c] = "reply"
        /\ todo' = todo /\ ~WriteFailed(c) /\ UNCHANGED <<buff, mem>>
    BY <1>0, <1>4 DEF Called, deviceVars, vars, devVars, heapVars
  <2>2. Writes(c)
    BY <2>1 DEF Writes, Busy
  <2>3. call[c].ret = Len(Head(todo[c])[2])
    BY <2>1, <2>2 DEF WriteFailed, Writes
  <2>4. Newest(Head(todo[c])[2])
    BY <2>1, <2>2, <2>3 DEF OwnFor, LineAt
  <2>5. Lines' = Lines
    BY <2>1, StreamSame
  <2> QED BY <2>1, <2>4, <2>5 DEF OwnFor, Newest
<1>5. CASE ReplyRead(c) \/ ReplySend(c)
  <2>1. /\ handler[c] \in {"reply", "reading"} /\ handler'[c] \in {"reply", "reading"}
        /\ todo' = todo /\ UNCHANGED <<buff, mem>>
    BY <1>0, <1>5
    DEF ReplyRead, ReadCall, ReplySend, deviceVars, vars, devVars, heapVars
  <2>2. Newest(Head(todo[c])[2])
    BY <2>1 DEF OwnFor, Writes, Busy
  <2>3. Lines' = Lines
    BY <2>1, StreamSame
  <2> QED BY <2>1, <2>2, <2>3 DEF OwnFor, Newest
<1>6. CASE InDriver(c)
  <2>1. Writes(c)
    BY <1>6 DEF InDriver, handlerVars, Writes, Busy
  <2> QED BY <1>6, <2>1, OwnInDriver
<1> QED BY <1>1, <1>2, <1>3, <1>4, <1>5, <1>6

(* While a handler writes and replies, another one can only receive or     *)
(* close.                                                                  *)
LEMMA OwnElsewhere ==
  ASSUME ServerInv, NEW c \in Procs, NEW d \in Procs, c # d, Busy(d), OwnFor(d),
         \/ Receive(c) \/ CallDevice(c) \/ Called(c) \/ ReplyRead(c) \/ ReplySend(c)
         \/ ReplyEnd(c) \/ Close(c) \/ CloseDead(c) \/ InDriver(c)
  PROVE  OwnFor(d)'
<1>1. running /\ fileMutex = d /\ ~Busy(c) /\ pc[c] \in InUserSpace
  BY OneBusy DEF ServerInv
<1>2. Receive(c) \/ Close(c)
  <2>1. ~CallDevice(c)
    BY <1>1, DriverAssumption DEF CallDevice, LockFileMutex
  <2>2. ~(Called(c) \/ ReplyRead(c) \/ ReplySend(c) \/ ReplyEnd(c))
    BY <1>1 DEF Called, ReplyRead, ReplySend, ReplyEnd, HandlerGoto, Busy
  <2>3. ~CloseDead(c) /\ ~InDriver(c)
    BY <1>1, InsideMoves DEF CloseDead
  <2> QED BY <2>1, <2>2, <2>3
<1>3. PICK from, to, to1, fr, cmds :
        /\ pc[c] = from /\ from # "f_free" /\ to # "f_free"
        /\ pc' = [pc EXCEPT ![c] = to]
        /\ call' = [call EXCEPT ![c] = fr] \/ call' = call
        /\ handler' = [handler EXCEPT ![c] = to1]
        /\ todo' = [todo EXCEPT ![c] = cmds] \/ todo' = todo
        /\ UNCHANGED <<buff, mem, entry>>
  <2>1. CASE Receive(c)
    BY ONLY <2>1 DEF Receive, HandlerGoto, aesd_open, Goto, devVars, heapVars
  <2>2. CASE Close(c)
    BY ONLY <2>2 DEF Close, HandlerGoto, aesd_release, CloseFile, Goto, heapVars
  <2> QED BY <1>2, <2>1, <2>2
<1>4. /\ pc \in [Procs -> PCs] /\ call \in [Procs -> Frame] /\ DriverInv
      /\ handler \in [Procs -> Stages] /\ todo \in [Procs -> Seq(Commands)]
  BY DEF ServerInv, SystemInv, DriverInv, MemoryTypes, CallInv, ServerTypes
<1>5. Partial' = Partial
  BY <1>3, <1>4, QuietPartial
<1>6. /\ handler'[d] = handler[d] /\ pc'[d] = pc[d] /\ call'[d] = call[d]
      /\ todo'[d] = todo[d]
  BY <1>3, <1>4
<1> QED BY <1>3, <1>5, <1>6, OwnStays

LEMMA OwnKept ==
  ASSUME ServerInv, WriteInv, OwnInv, [SystemNext]_allVars
  PROVE  OwnInv'
<1> SUFFICES ASSUME NEW d \in Procs PROVE OwnFor(d)'
  BY DEF OwnInv
<1>1. CASE ~Writes(d)'
  BY <1>1 DEF OwnFor
<1>2. CASE Writes(d)'
  <2>0. OwnFor(d) /\ Busy(d)'
    BY <1>2 DEF OwnInv, Writes
  <2>1. CASE Load
    <3>1. \A c \in Procs : pc[c] = "closed"
      BY <2>1 DEF Load, aesd_init_module, ServerInv, SystemInv, DriverInv
    <3>2. Busy(d)
      BY <2>0, <2>1 DEF Load, handlerVars, Busy
    <3> QED BY <3>1, <3>2, OneBusy DEF ServerInv
  <2>2. CASE StartServer
    <3>1. ~running /\ Busy(d)
      BY <2>0, <2>2 DEF StartServer, Busy
    <3> QED BY <3>1, OneBusy DEF ServerInv
  <2>3. CASE Killed
    BY <2>0, <2>3 DEF Killed, Busy
  <2>4. ASSUME NEW c \in Procs,
               \/ Receive(c) \/ CallDevice(c) \/ Called(c) \/ ReplyRead(c) \/ ReplySend(c)
               \/ ReplyEnd(c) \/ Close(c) \/ CloseDead(c) \/ InDriver(c)
        PROVE  OwnFor(d)'
    <3>1. CASE c = d
      BY <1>2, <2>0, <2>4, <3>1, OwnOwn
    <3>2. CASE c # d
      <4>1. handler'[d] = handler[d]
        BY <2>4, <3>2
        DEF Receive, CallDevice, Called, ReplyRead, ReplySend, ReplyEnd, Close, CloseDead,
            InDriver, handlerVars, HandlerGoto, ServerInv, ServerTypes
      <4>2. Busy(d)
        BY <2>0, <4>1 DEF Busy
      <4> QED BY <2>0, <2>4, <3>2, <4>2, OwnElsewhere
    <3> QED BY <3>1, <3>2
  <2>5. CASE UNCHANGED allVars
    <3>1. UNCHANGED <<buff, mem, entry, handler, pc, call, todo>>
      BY <2>5 DEF allVars, vars, devVars, heapVars, handlerVars
    <3>2. Partial' = Partial
      BY <3>1 DEF Partial, Handover
    <3> QED BY <2>0, <3>1, <3>2, OwnStays
  <2> QED BY <2>1, <2>2, <2>3, <2>4, <2>5 DEF SystemNext
<1> QED BY <1>1, <1>2

LEMMA OwnCorrect == System => []OwnInv
<1>1. SystemInit => OwnInv
  BY DEF SystemInit, OwnInv, OwnFor, Writes, Busy
<1>2. ServerInv /\ WriteInv /\ OwnInv /\ [SystemNext]_allVars => OwnInv'
  BY OwnKept
<1> QED BY <1>1, <1>2, ServerCorrect, WriteCorrect, PTL DEF System

(* A sequence that is found behind k elements of another one, at its end.  *)
LEMMA EndOf ==
  ASSUME NEW S, NEW s \in Seq(S), NEW d \in Seq(S), NEW k \in Nat,
         Len(s) = k + Len(d), \A j \in 1 .. Len(d) : s[k + j] = d[j]
  PROVE  SubSeq(s, k + 1, Len(s)) = d
<1> DEFINE e == SubSeq(s, k + 1, Len(s))
<1>1. Len(s) \in Int /\ Len(d) \in Nat /\ k + 1 \in Int
  OBVIOUS
<1>2. \A i \in k + 1 .. Len(s) : s[i] \in S
  OBVIOUS
<1>3. /\ e \in Seq(S)
      /\ Len(e) = IF k + 1 <= Len(s) THEN Len(s) - (k + 1) + 1 ELSE 0
      /\ \A j \in 1 .. Len(s) - (k + 1) + 1 : e[j] = s[(k + 1) + j - 1]
  BY ONLY <1>1, <1>2, SubSeqProperties
<1> HIDE DEF e
<1>4. Len(e) = Len(d)
  BY <1>1, <1>3
<1>5. ASSUME NEW j \in 1 .. Len(d) PROVE e[j] = d[j]
  <2>1. j \in 1 .. Len(s) - (k + 1) + 1 /\ (k + 1) + j - 1 = k + j
    BY <1>1
  <2> QED BY <1>3, <2>1
<1>6. e = d
  BY ONLY <1>3, <1>4, <1>5, d \in Seq(S), SeqEqual
<1> QED BY <1>6 DEF e

(* The newest line is the end of what is stored.                           *)
LEMMA StreamEnds ==
  ASSUME DriverInv, RingInv, NEW d \in Seq(Byte), Newest(d)
  PROVE  \E k \in Nat : /\ Len(Stream) = k + Len(d)
                        /\ SubSeq(Stream, k + 1, Len(Stream)) = d
<1>1. PICK z, t : RingSums(z, t)
  BY RingSumsExist
<1>2. PICK i \in Nat : i + 1 = Len(Lines) /\ i + 1 \in 1 .. Len(Lines)
  <2>1. Lines \in Seq(Seq(Byte)) /\ Lines # <<>>
    BY <1>1, LinesValue DEF Newest
  <2>2. PICK n \in Nat \ {0} : n = Len(Lines)
    BY <2>1
  <2>3. n - 1 \in Nat /\ (n - 1) + 1 = n /\ n \in 1 .. n
    OBVIOUS
  <2> QED BY ONLY <2>2, <2>3
<1>3. Layout(Lines, Byte, z, t)
  <2>1. 0 \in 0 .. Len(Lines)
    BY <1>2
  <2> QED BY <1>1, <2>1, LinesLaidOut
<1>4. Lines[i + 1] = d /\ (i + 1) - 1 = i
  BY <1>2 DEF Newest
<1>5. Len(Stream) = t[i + 1] /\ \A j \in 1 .. Len(d) : Stream[t[i] + j] = d[j]
  BY <1>2, <1>3, <1>4, FlattenValue DEF Stream
<1>6. z[i] = Len(d)
  BY <1>2, <1>3, <1>4 DEF Layout
<1>7. PICK k \in Nat : k = t[i] /\ t[i + 1] = k + z[i]
  BY <1>3 DEF Layout, Totals
<1>8. Stream \in Seq(Byte)
  BY StreamFits
<1>9. Len(Stream) = k + Len(d) /\ \A j \in 1 .. Len(d) : Stream[k + j] = d[j]
  BY <1>5, <1>6, <1>7
<1>10. SubSeq(Stream, k + 1, Len(Stream)) = d
  BY <1>8, <1>9, EndOf
<1> QED BY <1>9, <1>10

(* The newest line of the device is the one being replied to.              *)
OwnLineNewest ==
  \A c \in Procs :
    handler[c] \in {"reply", "reading"} /\ Head(todo[c])[1] = "write" =>
      Newest(Head(todo[c])[2])

(* A reply to a line ends with this line, if it starts in front of it.     *)
OwnLineLast ==
  [][\A c \in Procs :
       /\ handler[c] = "reading" /\ handler'[c] = "scan" /\ ~disturbed[c]
       /\ Head(todo[c])[1] = "write"
       /\ replyFrom[c] + Len(Head(todo[c])[2]) <= Len(Stream)
       => \E before \in Seq(Byte) : offered[c] = before \o Head(todo[c])[2]]_allVars

(* What c sends in reply to a line, in the last step of the reply.         *)
LEMMA OwnComplete ==
  ASSUME ServerInv, ReplyInv, OwnInv, [SystemNext]_allVars, NEW c \in Procs,
         handler[c] = "reading", handler'[c] = "scan", ~disturbed[c],
         Head(todo[c])[1] = "write",
         replyFrom[c] + Len(Head(todo[c])[2]) <= Len(Stream)
  PROVE  \E before \in Seq(Byte) : offered[c] = before \o Head(todo[c])[2]
<1> PICK d : d = Head(todo[c])[2]
  OBVIOUS
<1>1. Writes(c)
  BY DEF Writes, Busy
<1>2. d \in Seq(Byte) /\ Len(d) \in Nat
  BY <1>1, OwnLine DEF ServerInv
<1>3. Newest(d)
  BY <1>1 DEF OwnInv, OwnFor
<1>4. PICK k \in Nat : /\ Len(Stream) = k + Len(d)
                      /\ SubSeq(Stream, k + 1, Len(Stream)) = d
  BY <1>2, <1>3, StreamEnds DEF ServerInv, SystemInv
<1>5. PICK r \in Nat : r = replyFrom[c]
  BY DEF ReplyInv, ReplyFor, Replying, SentSoFar
<1>6. offered[c] = SubSeq(Stream, r + 1, k + Len(d))
  BY <1>4, <1>5, ReplyComplete
<1>7. r <= k
  <2>1. r + Len(d) <= k + Len(d)
    BY <1>4, <1>5
  <2> QED BY ONLY <1>2, <2>1
<1>8. Stream \in Seq(Byte) /\ k + Len(d) <= Len(Stream)
  BY <1>2, <1>4, StreamFits DEF ServerInv, SystemInv
<1>9. SubSeq(Stream, r + 1, k) \o SubSeq(Stream, k + 1, k + Len(d))
        = SubSeq(Stream, r + 1, k + Len(d))
  <2> PICK n \in Nat : n = Len(d)
    BY <1>2
  <2>1. Stream \in Seq(Byte) /\ r <= k /\ k + n <= Len(Stream)
    BY <1>7, <1>8
  <2>2. SubSeq(Stream, r + 1, k) \o SubSeq(Stream, k + 1, k + n)
          = SubSeq(Stream, r + 1, k + n)
    BY ONLY <2>1, RunsJoin
  <2> QED BY ONLY <2>2, n = Len(d)
<1>10. offered[c] = SubSeq(Stream, r + 1, k) \o d
  BY <1>4, <1>6, <1>9
<1>11. SubSeq(Stream, r + 1, k) \in Seq(Byte)
  <2>1. \A i \in r + 1 .. k : Stream[i] \in Byte
    BY ONLY <1>2, <1>8
  <2> QED BY <2>1, SubSeqProperties
<1> QED BY <1>10, <1>11

(* When a handler replies to a line it has written, this line is complete  *)
(* and the newest one the device stores: aesd_write reports success only   *)
(* when the line has gone through StorePartial and FlushPartial, and no    *)
(* other handler writes before the reply has ended.                        *)
THEOREM OwnLineStored == System => []OwnLineNewest
<1>1. ServerInv /\ OwnInv => OwnLineNewest
  BY DEF OwnInv, OwnFor, Writes, Busy, OwnLineNewest
<1> QED BY <1>1, ServerCorrect, OwnCorrect, PTL

(* So a client that sends a line gets it back as the end of the reply, as  *)
(* long as the reply starts in front of it (behind a seek that is still in *)
(* effect, or when the ring has dropped lines that were sent, it need not) *)
(* and nobody closes the device meanwhile.                                 *)
THEOREM OwnLineReturned == System => OwnLineLast
<1>1. /\ ServerInv /\ ReplyInv /\ OwnInv /\ [SystemNext]_allVars
      => [\A c \in Procs :
            /\ handler[c] = "reading" /\ handler'[c] = "scan" /\ ~disturbed[c]
            /\ Head(todo[c])[1] = "write"
            /\ replyFrom[c] + Len(Head(todo[c])[2]) <= Len(Stream)
            => \E before \in Seq(Byte) : offered[c] = before \o Head(todo[c])[2]]_allVars
  BY OwnComplete
<1> QED BY <1>1, ServerCorrect, OwnCorrect, PTL DEF System, OwnLineLast
=============================================================================
