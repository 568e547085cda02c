--------------------------- MODULE HandlersOnDevice ---------------------------
(***************************************************************************)
(* The server on its device: the handler threads of                        *)
(* connectionHandlerThread.c (without the splitting of the input, which is *)
(* ConnectionHandler's) making their calls into the driver of CharDriver,  *)
(* step by step.  FileMutex is in the server, the driver's mutexes are in  *)
(* the kernel; the server can be killed at any moment and started again,   *)
(* the device stays.                                                       *)
(***************************************************************************)
EXTENDS CharDriver

CONSTANT Packets  \* what one recv brings: a sequence of lines and seek commands

(* A line to write, or a seek command. *)
Commands == ({"write"} \X Payloads) \cup ({"seek"} \X IoctlArgs)

ASSUME PacketsAssumption == \A s \in Packets : s \in Seq(Commands)

(* The handler writes up to the newline it has found, and from there on.   *)
ASSUME LinesAssumption == \A d \in Payloads : EndsLine(d, Len(d))

(* The handler reads into a buffer that is not empty. *)
ASSUME BufferAssumption == 0 \notin ReadCounts

(* No position exceeds that: a ring full of the longest lines, and behind  *)
(* it an offset within another one.                                        *)
MaxPosition == (Capacity + 1) * KMALLOC_MAX_SIZE

(* 44 MB fit in the 64 bits of a loff_t. *)
ASSUME PositionAssumption == MaxPosition < WordMod \div 2

VARIABLES
  running,    \* the server process exists
  fileMutex,  \* holder of FileMutex
  handler,    \* where each handler stands
  todo,       \* what is left in its buffer
  replyFrom,  \* the position its reply should start at
  offered,    \* the bytes of its reply, as they are handed to send
  disturbed   \* another handler has closed the device since it got FileMutex

deviceVars  == vars
handlerVars == <<running, fileMutex, handler, todo, replyFrom, offered, disturbed>>
allVars == <<vars, handlerVars>>

(* The module is loaded before the server starts. *)
SystemInit ==
  /\ Init
  /\ running = FALSE
  /\ fileMutex = NoProc
  /\ handler = [c \in Procs |-> "recv"]
  /\ todo = [c \in Procs |-> <<>>]
  /\ replyFrom = [c \in Procs |-> 0]
  /\ offered = [c \in Procs |-> <<>>]
  /\ disturbed = [c \in Procs |-> FALSE]

HandlerGoto(c, from, to) ==
  /\ running
  /\ handler[c] = from
  /\ handler' = [handler EXCEPT ![c] = to]

Load == aesd_init_module /\ UNCHANGED handlerVars

(* main has opened and closed the device; all is set for handlers. *)
StartServer ==
  /\ ~running /\ loaded
  /\ \A c \in Procs : pc[c] = "closed"
  /\ running' = TRUE
  /\ lseekPos' = 0
  /\ UNCHANGED <<loaded, buff, entry, lockVars, heapVars, pc, f_pos, call,
                 fileMutex, handler, todo, replyFrom, offered, disturbed>>

(* recv has brought something, the device is opened. *)
Receive(c) ==
  /\ HandlerGoto(c, "recv", "scan")
  /\ aesd_open(c)
  /\ \E s \in Packets : todo' = [todo EXCEPT ![c] = s]
  /\ UNCHANGED <<running, fileMutex, replyFrom, offered, disturbed>>

(* Mutant: FileMutex is not taken. *)
NoFileMutex(c) == UNCHANGED fileMutex

LockFileMutex(c) == fileMutex = NoProc /\ fileMutex' = c

(* FileMutex is taken, and the line written or the seek performed. *)
CallDevice(c) ==
  /\ HandlerGoto(c, "scan", "called")
  /\ todo[c] # <<>>
  /\ LockFileMutex(c)
  /\ \/ WriteCall(c) /\ Head(todo[c]) = <<"write", call'[c].rest>>
     \/ IoctlCall(c) /\ Head(todo[c]) = <<"seek", call'[c].arg>>
  /\ disturbed' = [disturbed EXCEPT ![c] = FALSE]
  /\ UNCHANGED <<running, todo, replyFrom, offered>>

(* "Error writing to file." ends the server; a refused seek does not. *)
WriteFailed(c) ==
  Head(todo[c])[1] = "write" /\ call[c].ret # Len(Head(todo[c])[2])

(* Where a seek points to in the bytes of the device. *)
SeekPoint(a) == Len(FlattenSeq(SubSeq(Lines, 1, a.write_cmd))) + a.write_cmd_offset

(* The reply begins: behind what this file has been read so far, from the  *)
(* point of an accepted seek, or of one that is still in effect.           *)
Called(c) ==
  /\ HandlerGoto(c, "called", "reply")
  /\ pc[c] = "idle"
  /\ ~WriteFailed(c)
  /\ replyFrom' = [replyFrom EXCEPT ![c] =
       f_pos[c] + IF Head(todo[c])[1] = "seek" /\ call[c].ret = 0
                  THEN SeekPoint(Head(todo[c])[2]) ELSE lseekPos]
  /\ offered' = [offered EXCEPT ![c] = <<>>]
  /\ UNCHANGED <<deviceVars, running, fileMutex, todo, disturbed>>

(* The process ends, here or for any other reason, at any moment. *)
Killed ==
  /\ running
  /\ running' = FALSE
  /\ fileMutex' = NoProc
  /\ handler' = [c \in Procs |-> "recv"]
  /\ todo' = [c \in Procs |-> <<>>]
  /\ UNCHANGED <<deviceVars, replyFrom, offered, disturbed>>

ReplyRead(c) ==
  /\ HandlerGoto(c, "reply", "reading")
  /\ ReadCall(c)
  /\ UNCHANGED <<running, fileMutex, todo, replyFrom, offered, disturbed>>

(* What a read has brought is handed to send, whose result nobody looks    *)
(* at: it takes all, a part or nothing.  It may not return for as long as  *)
(* the client does not read (then this step is not taken), or may kill the *)
(* server (Killed).                                                        *)
ReplySend(c) ==
  /\ HandlerGoto(c, "reading", "reply")
  /\ pc[c] = "idle" /\ call[c].ret > 0
  /\ offered' = [offered EXCEPT ![c] = @ \o call[c].out]
  /\ UNCHANGED <<deviceVars, running, fileMutex, todo, replyFrom, disturbed>>

ReplyEnd(c) ==
  /\ HandlerGoto(c, "reading", "scan")
  /\ pc[c] = "idle" /\ call[c].ret <= 0
  /\ fileMutex' = NoProc
  /\ todo' = [todo EXCEPT ![c] = Tail(@)]
  /\ UNCHANGED <<deviceVars, running, replyFrom, offered, disturbed>>

(* The device is closed, without FileMutex. *)
Close(c) ==
  /\ HandlerGoto(c, "scan", "recv")
  /\ todo[c] = <<>>
  /\ aesd_release(c)
  /\ disturbed' = [d \in Procs |-> disturbed[d] \/ (d # c /\ fileMutex = d)]
  /\ UNCHANGED <<running, fileMutex, todo, replyFrom, offered>>

(* The kernel closes the files of the dead server, once their calls are    *)
(* over.                                                                   *)
CloseDead(c) ==
  /\ ~running
  /\ aesd_release(c)
  /\ UNCHANGED handlerVars

(* The driver runs.  buf is on the handler's stack: copies are complete. *)
InDriver(c) ==
  /\ EntryLockStep(c) \/ BuffLockStep(c) \/ SignalStep(c) \/ DriverStep(c)
  /\ pc[c] = "r_copy" => call'[c].ret = SizeToRead(c)
  /\ UNCHANGED handlerVars

SystemNext ==
  \/ Load \/ StartServer \/ Killed
  \/ \E c \in Procs :
       \/ Receive(c) \/ CallDevice(c) \/ Called(c)
       \/ ReplyRead(c) \/ ReplySend(c) \/ ReplyEnd(c)
       \/ Close(c) \/ CloseDead(c) \/ InDriver(c)

System == SystemInit /\ [][SystemNext]_allVars

-----------------------------------------------------------------------------
Stages == {"recv", "scan", "called", "reply", "reading"}

(* Every variable of the server has its type, and FileMutex is held by the *)
(* handler that is between writing and the end of its reply, by no other.  *)
HandlersTypeOK ==
  /\ running \in BOOLEAN
  /\ fileMutex \in Procs \cup {NoProc}
  /\ handler \in [Procs -> Stages]
  /\ \A c \in Procs :
       /\ todo[c] \in Seq(Commands) /\ offered[c] \in Seq(Byte)
       /\ fileMutex = c <=> handler[c] \in {"called", "reply", "reading"}

(* FileMutex keeps the handlers apart inside the driver as well, also when *)
(* the server has been killed in the middle of a call: a handler finds     *)
(* every mutex of the driver free.  So no signal can interrupt its calls   *)
(* ("Error writing to file." means that memory has run out).               *)
Uncontended ==
  \A c \in Procs :
    /\ pc[c] = "w_lock" => entryMutex = NoProc
    /\ pc[c] \in {"f_lock", "r_lock", "i_lock"} => buffMutex = NoProc

(* Whatever signals, failed allocations, deaths and restarts of the server *)
(* there are, what the device stores are the lines that clients have sent, *)
(* one entry each, never two in one, and none is left half stored.         *)
LinesIntact ==
  /\ \A i \in DOMAIN Lines : Lines[i] \in Payloads
  /\ entryMutex = NoProc => Partial = <<>>

(* A reply, as it is handed to send, is all that is stored from where it   *)
(* should start (that is where the file and the position that all files    *)
(* share pointed to when it began), although it is read in many calls, the *)
(* ring drops lines and other handlers are at work; unless one of these    *)
(* has closed the device meanwhile, which takes back the seek.             *)
ReplyIsRest ==
  [][\A c \in Procs :
       handler[c] = "reading" /\ handler'[c] = "scan" /\ ~disturbed[c] =>
         offered[c] = SubSeq(Stream, replyFrom[c] + 1, Len(Stream))]_allVars
=============================================================================
