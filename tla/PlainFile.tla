------------------------------- MODULE PlainFile -------------------------------
(***************************************************************************)
(* The server built without the character device (USE_AESD_CHAR_DEVICE 0): *)
(* the handlers of connectionHandlerThread.c write to a regular file, and  *)
(* a timer interrupts some thread every ten seconds to run TimeStamper     *)
(* (timestamper.c) on top of whatever it was doing.                        *)
(*                                                                         *)
(* A byte of a line is its writer's name.  The file is shorter than a      *)
(* page.                                                                   *)
(***************************************************************************)
EXTENDS Integers, Sequences, FiniteSetsExt

CONSTANTS
  Conns,    \* connections, one handler thread each
  Others,   \* the other threads of the server
  NoThread, \* the holder of a free FileMutex; the offset in a file not open
  Stamp,    \* a byte of a time stamp
  Zero,     \* a byte that nobody has written
  Packets   \* what one recv brings: the lengths of lines, 0 for a seek command

Threads == Conns \cup Others
Byte    == Conns \cup {Stamp, Zero}

ASSUME PlainFileAssumption ==
  /\ NoThread \notin Threads /\ NoThread \notin Nat
  /\ \A s \in Packets : s \in Seq(Nat)

VARIABLES
  file,       \* what the file holds
  fileMutex,  \* holder of FileMutex
  exited,
  pc,         \* where each handler stands
  todo,       \* the lines that are left in its buffer
  offset,     \* the offset of its file descriptor
  size,       \* sb.st_size
  truncated,  \* another handler has truncated the file since it wrote its line
  pending,    \* the timer's signal has not been delivered yet
  stamper     \* where each thread stands in TimeStamper

handlerVars == <<pc, todo, offset, size, truncated>>
vars == <<file, fileMutex, exited, handlerVars, pending, stamper>>

(* main has created the file and started the timer (LaunchTimestamper). *)
Init ==
  /\ file = <<>>
  /\ fileMutex = NoThread
  /\ exited = FALSE
  /\ pc = [c \in Conns |-> "recv"]
  /\ todo = [c \in Conns |-> <<>>]
  /\ offset = [c \in Conns |-> NoThread]
  /\ size = [c \in Conns |-> 0]
  /\ truncated = [c \in Conns |-> FALSE]
  /\ pending = FALSE
  /\ stamper = [t \in Threads |-> "out"]

(* A step of the handler's own code. *)
Goto(c, from, to) ==
  /\ ~exited
  /\ stamper[c] = "out"
  /\ pc[c] = from
  /\ pc' = [pc EXCEPT ![c] = to]

-----------------------------------------------------------------------------
(* ConnectionHandlerThread and ProcessBuffer. *)

(* recv has brought something; the file is opened with O_TRUNC, without    *)
(* FileMutex.                                                              *)
Recv(c) ==
  /\ Goto(c, "recv", "scan")
  /\ \E s \in Packets : todo' = [todo EXCEPT ![c] = s]
  /\ \/ /\ file' = <<>>
        /\ offset' = [offset EXCEPT ![c] = 0]
        /\ truncated' = [d \in Conns |-> truncated[d] \/ pc[d] \in {"stat", "send", "blocked"}]
     \/ UNCHANGED <<file, offset, truncated>>   \* open fails
  /\ UNCHANGED <<fileMutex, exited, size, pending, stamper>>

(* The client has closed. *)
RecvEnds(c) ==
  /\ Goto(c, "recv", "done")
  /\ UNCHANGED <<file, fileMutex, exited, todo, offset, size, truncated,
                 pending, stamper>>

(* Mutant: FileMutex is not taken. *)
LockNothing(t) == UNCHANGED fileMutex

LockFileMutex(t) == fileMutex = NoThread /\ fileMutex' = t

NextLine(c) ==
  /\ Goto(c, "scan", "line")
  /\ todo[c] # <<>>
  /\ LockFileMutex(c)
  /\ UNCHANGED <<file, exited, todo, offset, size, truncated, pending, stamper>>

(* The file after line has been written to it at position pos; a gap       *)
(* before pos reads as zeros.                                              *)
Written(pos, line) ==
  [i \in 1 .. Max({Len(file), pos + Len(line)}) |->
     IF i > pos /\ i <= pos + Len(line) THEN line[i - pos]
     ELSE IF i <= Len(file) THEN file[i] ELSE Zero]

Line(c) == [i \in 1 .. Head(todo[c]) |-> c]

(* The line goes to the handler's own offset; the ioctl of a seek command  *)
(* is refused by a regular file.                                           *)
ProcessLine(c) ==
  /\ Goto(c, "line", "stat")
  /\ IF Line(c) = <<>> \/ offset[c] = NoThread
     THEN Line(c) = <<>> /\ UNCHANGED <<file, offset>>
     ELSE /\ file' = Written(offset[c], Line(c))
          /\ offset' = [offset EXCEPT ![c] = @ + Len(Line(c))]
  /\ UNCHANGED <<fileMutex, exited, todo, size, truncated, pending, stamper>>

(* "Error writing to file." *)
WriteFails(c) ==
  /\ Goto(c, "line", "done")
  /\ Line(c) # <<>>
  /\ exited' = TRUE
  /\ UNCHANGED <<file, fileMutex, todo, offset, size, truncated, pending, stamper>>

(* fstat; without an open file it fails and sb is not initialised, but     *)
(* neither can anything be mapped then.                                    *)
Stat(c) ==
  /\ Goto(c, "stat", "send")
  /\ size' = [size EXCEPT ![c] = Len(file)]
  /\ UNCHANGED <<file, fileMutex, exited, todo, offset, truncated, pending, stamper>>

(* What send finds in the mapping: the file as it is now, zeros up to the  *)
(* size it had, and nothing that can be read if it has become empty.       *)
Mapped(c) ==
  IF offset[c] = NoThread \/ file = <<>> THEN <<>>
  ELSE [i \in 1 .. size[c] |-> IF i <= Len(file) THEN file[i] ELSE Zero]


UnlockFileMutex == fileMutex' = NoThread

(* send is over, whatever of the mapping it has taken, and FileMutex is    *)
(* given back.                                                             *)
SendEnds(c, from) ==
  /\ Goto(c, from, "scan")
  /\ todo' = [todo EXCEPT ![c] = Tail(@)]
  /\ size' = [size EXCEPT ![c] = 0]
  /\ truncated' = [truncated EXCEPT ![c] = FALSE]
  /\ UnlockFileMutex
  /\ UNCHANGED <<file, exited, offset, pending, stamper>>

(* It takes all that is mapped, a part of it, or fails: nobody looks. *)
Send(c) == SendEnds(c, "send")

(* The client does not read, and send waits until it does. *)
SendBlocks(c) ==
  /\ Goto(c, "send", "blocked")
  /\ UNCHANGED <<file, fileMutex, exited, todo, offset, size, truncated, pending, stamper>>

(* The client reads in the end, or is gone, neither of which need happen. *)
SendReturns(c) == SendEnds(c, "blocked")

(* SIGPIPE: the client is gone, and so is the server. *)
SendKills(c) ==
  /\ Goto(c, "send", "done") \/ Goto(c, "blocked", "done")
  /\ exited' = TRUE
  /\ UNCHANGED <<file, fileMutex, todo, offset, size, truncated, pending, stamper>>

Close(c) ==
  /\ Goto(c, "scan", "recv")
  /\ todo[c] = <<>>
  /\ offset' = [offset EXCEPT ![c] = NoThread]
  /\ UNCHANGED <<file, fileMutex, exited, todo, size, truncated, pending, stamper>>

HandlerStep(c) ==
  \/ Recv(c) \/ RecvEnds(c) \/ NextLine(c) \/ ProcessLine(c) \/ WriteFails(c)
  \/ Stat(c) \/ Send(c) \/ SendBlocks(c) \/ Close(c)

-----------------------------------------------------------------------------
(* The timer and TimeStamper. *)

TimerExpires ==
  /\ ~exited /\ ~pending
  /\ pending' = TRUE
  /\ UNCHANGED <<file, fileMutex, exited, handlerVars, stamper>>

(* The signal reaches any thread that is not in TimeStamper already.  A    *)
(* recv that was waiting fails with EINTR, which ends the connection.      *)
Deliver(t) ==
  /\ ~exited /\ pending
  /\ stamper[t] = "out"
  /\ t \in Conns => pc[t] # "done"
  /\ pending' = FALSE
  /\ stamper' = [stamper EXCEPT ![t] = "lock"]
  /\ \/ UNCHANGED pc
     \/ t \in Conns /\ pc[t] = "recv" /\ pc' = [pc EXCEPT ![t] = "done"]
  /\ UNCHANGED <<file, fileMutex, exited, todo, offset, size, truncated>>

(* gmtime takes a lock of the C library, and may wait for ever for one     *)
(* that the interrupted thread has taken: syslog needs the same.           *)
InLibrary(t) == t \in Conns => pc[t] = "recv"

StampLock(t) ==
  /\ ~exited
  /\ stamper[t] = "lock"
  /\ \/ stamper' = [stamper EXCEPT ![t] = "write"]
     \/ stamper' = [stamper EXCEPT ![t] = "hung"] /\ InLibrary(t)
  /\ LockFileMutex(t)
  /\ UNCHANGED <<file, exited, handlerVars, pending>>

(* The file is truncated and holds the stamp; or open or write fails, and  *)
(* nobody looks.                                                           *)
StampWrite(t) ==
  /\ ~exited
  /\ stamper[t] = "write" /\ stamper' = [stamper EXCEPT ![t] = "out"]
  /\ file' \in {<<Stamp>>, <<>>, file}
  /\ UnlockFileMutex
  /\ UNCHANGED <<exited, handlerVars, pending>>

ThreadStep(t) ==
  (t \in Conns /\ HandlerStep(t)) \/ StampLock(t) \/ StampWrite(t)

Next ==
  \/ TimerExpires
  \/ \E t \in Threads : Deliver(t) \/ ThreadStep(t)
  \/ \E c \in Conns : SendReturns(c) \/ SendKills(c)

(* Threads keep running, but for one that waits in send: its client need   *)
(* not read.                                                               *)
Spec == Init /\ [][Next]_vars /\ \A t \in Threads : WF_vars(ThreadStep(t))

-----------------------------------------------------------------------------
(* Every variable has its type, and FileMutex is held by the thread that   *)
(* is between locking and unlocking, although a handler and the            *)
(* TimeStamper that interrupts it are the same thread.                     *)
TypeOK ==
  /\ file \in Seq(Byte)
  /\ exited \in BOOLEAN /\ pending \in BOOLEAN
  /\ stamper \in [Threads -> {"out", "lock", "write", "hung"}]
  /\ offset \in [Conns -> Nat \cup {NoThread}]
  /\ fileMutex \in Threads \cup {NoThread}
  /\ ~exited => \A t \in Threads :
       fileMutex = t <=> \/ stamper[t] \in {"write", "hung"}
                         \/ t \in Conns /\ pc[t] \in {"line", "stat", "send", "blocked"}

(* What send takes from until it ends has the line it answers, at the      *)
(* position where it was written, although handlers write at offsets of    *)
(* their own and time stamps replace the file; only an open by another     *)
(* handler, which truncates the file without FileMutex, can take it away.  *)
OwnLineInReply ==
  [][\A c \in Conns :
       (/\ pc[c] \in {"send", "blocked"} /\ pc'[c] = "scan"
        /\ ~truncated[c] /\ Head(todo[c]) > 0) =>
            /\ Len(Mapped(c)) >= offset[c]
            /\ SubSeq(Mapped(c), (offset[c] - Head(todo[c])) + 1, offset[c]) = Line(c)]_vars

(* The holder of FileMutex waits in send for a client that does not read,  *)
(* or in TimeStamper for the lock of the very thread that it interrupts:   *)
(* FileMutex itself or one of the C library.                               *)
Stuck(t) ==
  /\ fileMutex = t
  /\ stamper[t] \in {"lock", "hung"} \/ (t \in Conns /\ pc[t] = "blocked")

=============================================================================
