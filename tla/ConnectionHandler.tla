-------------------------- MODULE ConnectionHandler --------------------------
(***************************************************************************)
(* The handler threads of server/connectionHandlerThread.c, one for each   *)
(* connection, built for the character device.  The device is what the     *)
(* handlers see of it: a ring whose entries are lines (a line stands for   *)
(* the address of the block that holds it) and the position lseekPos that  *)
(* all open files share; its calls are atomic (CharDriver has their        *)
(* steps).  A seek command is one symbol, or two when its numbers are torn *)
(* apart: what is left of the first, and what may complete it.             *)
(***************************************************************************)
EXTENDS CircularBuffer, SequencesExt

CONSTANTS
  Conns,     \* connections, one handler thread each
  NoConn,    \* the holder of a free FileMutex
  Text,      \* bytes that mean nothing to the handler by themselves
  Newline,   \* '\n'
  Seeks,     \* seek commands, [write_cmd, write_cmd_offset]
  OpenSeeks, \* seek commands cut off in front of a number
  Completed, \* Completed[o, b]: the command sscanf reads when o goes on with b, or NULL
  BufSize,   \* sizeof(buffer)
  Junk,      \* bytes an array on the stack may hold at first
  Packets,   \* what each client may send at once
  MaxSent    \* bound: bytes each client sends in all

Byte == Text \cup {Newline} \cup Seeks \cup OpenSeeks

ASSUME HandlerAssumption ==
  /\ NoConn \notin Conns
  /\ BufSize \in Nat \ {0}
  /\ Junk \subseteq Byte
  /\ MaxSent \in [Conns -> Nat]
  /\ \A c \in Conns : \A s \in Packets[c] : s \in Seq(Byte)
  /\ \A a \in Seeks : a.write_cmd \in Nat /\ a.write_cmd_offset \in Nat
  /\ Completed \in [OpenSeeks \X Byte -> Seeks \cup {NULL}]

VARIABLES
  buff, lseekPos,  \* the device
  fileMutex,       \* holder of FileMutex
  closeRequested,  \* a signal has asked the server to end
  exited,          \* the process is gone: fail() or a fatal signal
  hung,            \* handlers that a signal has caught inside syslog
  peerOpen,        \* the client has not closed its end
  inbox,           \* bytes that wait to be received
  pc,              \* where each handler stands
  local,           \* its local variables
  trace            \* what it has received and dealt with (for the properties)

deviceVars == <<buff, lseekPos>>
serverVars == <<fileMutex, closeRequested, exited, hung>>
clientVars == <<peerOpen, inbox>>
vars == <<deviceVars, serverVars, clientVars, pc, local, trace>>

(* The locals of ConnectionHandlerThread and ProcessBuffer.  What buffer   *)
(* holds at first is whatever was on the stack.  The array residual is     *)
(* written twice and never read, so only residualSize is kept.             *)
Locals(junk) ==
  [buffer       |-> junk,
   bufferLen    |-> 0,      \* bytes of buffer to process
   start        |-> 1,      \* segmentPtr
   segmentLen   |-> 0,
   residualSize |-> 0,
   lastCall     |-> FALSE,
   fileOpen     |-> FALSE,  \* open succeeded
   f_pos        |-> 0,
   offered      |-> <<>>]   \* handed to send since the file was opened

Init ==
  /\ buff = aesd_circular_buffer_init
  /\ lseekPos = 0
  /\ fileMutex = NoConn
  /\ closeRequested = FALSE
  /\ exited = FALSE
  /\ hung = {}
  /\ peerOpen = [c \in Conns |-> TRUE]
  /\ inbox = [c \in Conns |-> <<>>]
  /\ pc = [c \in Conns |-> "start"]
  /\ local \in [Conns -> {Locals(junk) : junk \in [1 .. BufSize -> Junk]}]
  /\ trace = [c \in Conns |-> [received |-> <<>>, handled |-> <<>>, cut |-> FALSE]]

Goto(c, from, to) ==
  /\ ~exited /\ c \notin hung
  /\ pc[c] = from
  /\ pc' = [pc EXCEPT ![c] = to]

(* fail(), and a signal nobody handles: the process ends with all threads. *)
Exit(c, from) ==
  /\ Goto(c, from, "done")
  /\ exited' = TRUE
  /\ UNCHANGED <<deviceVars, fileMutex, closeRequested, hung, clientVars, local, trace>>

-----------------------------------------------------------------------------
(* The clients, as long as the server has the connection, and the signal. *)

ClientSend(c) ==
  /\ ~exited
  /\ peerOpen[c] /\ pc[c] # "done"
  /\ \E s \in Packets[c] :
       /\ Len(inbox[c]) + Len(trace[c].received) + Len(s) <= MaxSent[c]
       /\ inbox' = [inbox EXCEPT ![c] = @ \o s]
  /\ UNCHANGED <<deviceVars, serverVars, peerOpen, pc, local, trace>>

ClientClose(c) ==
  /\ ~exited
  /\ peerOpen[c] /\ pc[c] # "done"
  /\ peerOpen' = [peerOpen EXCEPT ![c] = FALSE]
  /\ UNCHANGED <<deviceVars, serverVars, inbox, pc, local, trace>>

(* One signal.  Its handler calls syslog first, which never returns in a   *)
(* thread that was interrupted inside its own syslog.                      *)
sigHandler ==
  /\ ~exited
  /\ ~closeRequested /\ hung = {}
  /\ \/ closeRequested' = TRUE /\ UNCHANGED hung
     \/ \E c \in Conns : /\ pc[c] \in {"start", "recv", "line"}
                         /\ hung' = {c}
                         /\ UNCHANGED closeRequested
  /\ UNCHANGED <<deviceVars, fileMutex, exited, clientVars, pc, local, trace>>

-----------------------------------------------------------------------------
(* ConnectionHandlerThread. *)

Start(c) ==
  /\ Goto(c, "start", "recv")
  /\ UNCHANGED <<deviceVars, serverVars, clientVars, local, trace>>

(* getpeername fails when the client has already reset the connection. *)
StartFails(c) == Exit(c, "start") /\ ~peerOpen[c]

(* Mutant: the residue is forgotten when the next bytes are asked for. *)
WholeBuffer(c) == BufSize

(* What recv may deliver at most. *)
Room(c) == BufSize - local[c].residualSize

(* recv puts n bytes at the start of buffer, whatever residue is there;    *)
(* the residue is still counted.  The device is opened.                    *)
Recv(c) ==
  LET l == local[c] IN
  /\ Goto(c, "recv", "scan")
  /\ \E n \in 1 .. Min({Len(inbox[c]), Room(c)}), ok \in BOOLEAN :
       /\ inbox' = [inbox EXCEPT ![c] = SubSeq(@, n + 1, Len(@))]
       /\ local' = [local EXCEPT ![c] =
            [l EXCEPT !.buffer = [i \in 1 .. BufSize |-> IF i <= n THEN inbox[c][i] ELSE @[i]],
                      !.bufferLen = n + l.residualSize,
                      !.start = 1,
                      !.fileOpen = ok,
                      !.f_pos = 0,
                      !.offered = <<>>]]
       /\ trace' = [trace EXCEPT ![c].received = @ \o SubSeq(inbox[c], 1, n)]
  /\ UNCHANGED <<deviceVars, serverVars, peerOpen>>

(* recv returns 0: the client has closed, or no room was offered. *)
EndOfInput(c) ==
  \/ inbox[c] = <<>> /\ ~peerOpen[c]
  \/ inbox[c] # <<>> /\ Room(c) = 0

(* The connection ends: end of input, a reset by the client that has       *)
(* closed, or EINTR from the signal.                                       *)
RecvEnds(c) ==
  /\ Goto(c, "recv", "close")
  /\ EndOfInput(c) \/ ~peerOpen[c] \/ closeRequested
  /\ UNCHANGED <<deviceVars, serverVars, clientVars, local, trace>>

(* Three seconds without data: only now closeRequested is looked at, and   *)
(* the loop goes on until data comes after all.                            *)
RecvTimeout(c) ==
  /\ Goto(c, "recv", "recv")
  /\ inbox[c] = <<>> /\ peerOpen[c]
  /\ closeRequested /\ ~local[c].lastCall
  /\ local' = [local EXCEPT ![c].lastCall = TRUE]
  /\ UNCHANGED <<deviceVars, serverVars, clientVars, trace>>

(* Where the lines that are left in the buffer end. *)
LineEnds(c) ==
  {k \in local[c].start .. local[c].bufferLen : local[c].buffer[k] = Newline}

Segment(c) ==
  SubSeq(local[c].buffer, local[c].start, local[c].start + local[c].segmentLen - 1)

(* Mutant: FileMutex is not taken. *)
NextLineNoLock(c) ==
  /\ Goto(c, "scan", "line")
  /\ LineEnds(c) # {}
  /\ local' = [local EXCEPT ![c].segmentLen = (Min(LineEnds(c)) - local[c].start) + 1]
  /\ UNCHANGED <<deviceVars, serverVars, clientVars, trace>>

(* ProcessBuffer has found the end of a line and gets FileMutex. *)
NextLine(c) ==
  /\ Goto(c, "scan", "line")
  /\ LineEnds(c) # {}
  /\ fileMutex = NoConn
  /\ fileMutex' = c
  /\ local' = [local EXCEPT ![c].segmentLen = (Min(LineEnds(c)) - local[c].start) + 1]
  /\ UNCHANGED <<deviceVars, closeRequested, exited, hung, clientVars, trace>>

(* What sscanf may make of the line: a command, or NULL.  It looks at the  *)
(* beginning only, but it does not know where the line ends: to find a     *)
(* number it skips newlines and reads on in buffer, through the next line  *)
(* or bytes of earlier ones, and behind it through whatever is there.      *)
FindSeek(c) ==
  LET l     == local[c]
      first == l.buffer[l.start]
      solid == {k \in l.start + 1 .. BufSize : l.buffer[k] # Newline}
  IN
  IF first \in Seeks THEN {first}
  ELSE IF first \notin OpenSeeks THEN {NULL}
  ELSE IF solid = {} THEN Seeks \cup {NULL}
  ELSE {Completed[first, l.buffer[Min(solid)]]}

(* Neither syslog ("%s") nor sscanf is told where the array ends: without  *)
(* a zero byte in it they read on behind it, which may fault.              *)
StringRunsOn(c) == Exit(c, "line")

(* The line has been dealt with; the reply is next. *)
Handled(c) ==
  /\ Goto(c, "line", "reply")
  /\ trace' = [trace EXCEPT ![c].handled = @ \o Segment(c)]
  /\ UNCHANGED <<serverVars, clientVars, local>>

(* Mutant: a position of -1 is not recognised. *)
SeekRefusedBySize(a) ==
  aesd_circular_buffer_find_entry_at_position(buff, a.write_cmd).size < a.write_cmd_offset

(* AESDCHAR_IOCSEEKTO, whose result is not looked at. *)
SeekRefused(a) ==
  \/ aesd_circular_buffer_find_fpos_for_virtual_entry_offset(buff, a.write_cmd) < 0
  \/ aesd_circular_buffer_find_entry_at_position(buff, a.write_cmd).size
       < a.write_cmd_offset

ProcessSeek(c) ==
  /\ Handled(c)
  /\ \E a \in FindSeek(c) \ {NULL} :
       lseekPos' = IF ~local[c].fileOpen \/ SeekRefused(a) THEN lseekPos
                   ELSE aesd_circular_buffer_find_fpos_for_virtual_entry_offset(buff, a.write_cmd)
                          + a.write_cmd_offset
  /\ UNCHANGED buff

ProcessWrite(c) ==
  /\ Handled(c)
  /\ NULL \in FindSeek(c)
  /\ local[c].fileOpen
  /\ buff' = aesd_circular_buffer_add_entry(
               buff, [buffptr |-> Segment(c), size |-> local[c].segmentLen])
  /\ UNCHANGED lseekPos

(* "Error writing to file.": the device had no memory, was interrupted, or *)
(* could not be opened.                                                    *)
ProcessWriteFails(c) == Exit(c, "line") /\ NULL \in FindSeek(c)

(* What the next read finds: the rest of one entry, or nothing. *)
NextRead(c) ==
  aesd_circular_buffer_find_entry_offset_for_fpos(buff, local[c].f_pos + lseekPos)

(* One round of the read loop: what was read is handed to send.  Nobody    *)
(* looks whether send takes all of it, a part or fails; and as long as the *)
(* client does not read what was sent before, it may not return at all.    *)
Reply(c) ==
  LET src  == NextRead(c)
      line == buff.entry[src.slot].buffptr
      data == SubSeq(line, src.offset + 1, Len(line))
  IN
  /\ \/ Goto(c, "reply", "reply")
     \/ Goto(c, "reply", "blocked") /\ peerOpen[c]
  /\ local[c].fileOpen
  /\ src # NULL
  /\ local' = [local EXCEPT ![c].f_pos = @ + Len(data), ![c].offered = @ \o data]
  /\ UNCHANGED <<deviceVars, serverVars, clientVars, trace>>

(* The client has read, or the signal has interrupted send.  Neither need  *)
(* ever happen.                                                            *)
SendReturns(c) ==
  /\ Goto(c, "blocked", "reply")
  /\ peerOpen[c] \/ closeRequested
  /\ UNCHANGED <<deviceVars, serverVars, clientVars, local, trace>>

(* The client has closed: send fails, and the next read follows. *)
SendFails(c) ==
  /\ Goto(c, "blocked", "reply")
  /\ ~peerOpen[c]
  /\ UNCHANGED <<deviceVars, serverVars, clientVars, local, trace>>

(* send to a client that is gone raises SIGPIPE. *)
ReplyKills(c) ==
  /\ \/ Exit(c, "reply") /\ local[c].fileOpen /\ NextRead(c) # NULL
     \/ Exit(c, "blocked")
  /\ ~peerOpen[c]

(* Mutant: FileMutex is kept. *)
ReplyKeepsMutex(c) ==
  /\ Goto(c, "reply", "scan")
  /\ ~local[c].fileOpen \/ NextRead(c) = NULL \/ closeRequested
  /\ local' = [local EXCEPT ![c].start = @ + local[c].segmentLen]
  /\ UNCHANGED <<deviceVars, serverVars, clientVars, trace>>

(* Mutant: only the first line of the buffer is processed. *)
ReplySkipsRest(c) ==
  /\ Goto(c, "reply", "scan")
  /\ ~local[c].fileOpen \/ NextRead(c) = NULL \/ closeRequested
  /\ fileMutex' = NoConn
  /\ local' = [local EXCEPT ![c].start = local[c].bufferLen + 1]
  /\ UNCHANGED <<deviceVars, closeRequested, exited, hung, clientVars, trace>>

(* read returns 0, or -1 when the signal interrupts it or there is no file. *)
ReplyDone(c) ==
  /\ Goto(c, "reply", "scan")
  /\ ~local[c].fileOpen \/ NextRead(c) = NULL \/ closeRequested
  /\ fileMutex' = NoConn
  /\ local' = [local EXCEPT ![c].start = @ + local[c].segmentLen]
  /\ UNCHANGED <<deviceVars, closeRequested, exited, hung, clientVars, trace>>

(* ProcessBuffer returns and the file is closed, which resets the position *)
(* that all files share, outside FileMutex.                                *)
CloseFile(c) ==
  LET rest == (local[c].bufferLen - local[c].start) + 1 IN
  /\ Goto(c, "scan", IF local[c].lastCall THEN "close" ELSE "recv")
  /\ LineEnds(c) = {}
  /\ lseekPos' = IF local[c].fileOpen THEN 0 ELSE lseekPos
  /\ local' = [local EXCEPT ![c].residualSize = rest, ![c].fileOpen = FALSE]
  /\ trace' = [trace EXCEPT ![c].cut = @ \/ rest # 0]
  /\ UNCHANGED <<buff, serverVars, clientVars>>

(* close(connectionFD); the thread ends. *)
CloseConnectionFD(c) ==
  /\ Goto(c, "close", "done")
  /\ UNCHANGED <<deviceVars, serverVars, clientVars, local, trace>>

-----------------------------------------------------------------------------
HandlerStep(c) ==
  \/ Start(c) \/ StartFails(c)
  \/ Recv(c) \/ RecvEnds(c) \/ RecvTimeout(c)
  \/ NextLine(c) \/ StringRunsOn(c)
  \/ ProcessSeek(c) \/ ProcessWrite(c) \/ ProcessWriteFails(c)
  \/ Reply(c) \/ SendFails(c) \/ ReplyKills(c) \/ ReplyDone(c)
  \/ CloseFile(c) \/ CloseConnectionFD(c)

Next ==
  \/ sigHandler
  \/ \E c \in Conns : \/ ClientSend(c) \/ ClientClose(c) \/ SendReturns(c)
                      \/ HandlerStep(c)

Spec == Init /\ [][Next]_vars

(* Threads keep running, but for one that is blocked in send: clients need *)
(* not read.  (A hung one has no step.)  They send a bounded number of     *)
(* bytes, so FileMutex is free in the end, unless its holder is stuck.     *)
FairSpec == Spec /\ \A c \in Conns : WF_vars(HandlerStep(c))

-----------------------------------------------------------------------------
(* Every byte the device holds, oldest first. *)
Stream ==
  FlattenSeq([i \in 1 .. Len(Contents(buff)) |-> Contents(buff)[i].buffptr])

PCs == {"start", "recv", "scan", "line", "reply", "blocked", "close", "done"}

(* Every variable has its C type. *)
TypeOK ==
  /\ lseekPos \in Nat
  /\ fileMutex \in Conns \cup {NoConn}
  /\ closeRequested \in BOOLEAN /\ exited \in BOOLEAN
  /\ hung \subseteq Conns
  /\ peerOpen \in [Conns -> BOOLEAN]
  /\ inbox \in [Conns -> Seq(Byte)]
  /\ pc \in [Conns -> PCs]
  /\ \A c \in Conns : /\ local[c].buffer \in [1 .. BufSize -> Byte]
                      /\ local[c].f_pos \in Nat
                      /\ local[c].offered \in Seq(Byte)

(* What ProcessBuffer takes for the received bytes lies inside buffer,     *)
(* although recv and the residue of earlier calls are added up: a residue  *)
(* that fills buffer leaves no room to receive.  (What syslog and sscanf   *)
(* read of it is another matter: StringRunsOn.)                            *)
CountsInsideBuffer ==
  \A c \in Conns :
    /\ local[c].bufferLen \in 0 .. BufSize
    /\ local[c].residualSize \in 0 .. BufSize
    /\ local[c].start \in 1 .. local[c].bufferLen + 1

(* As long as no recv has ended in the middle of a line, every line that   *)
(* was received is dealt with exactly once and in order by the time more   *)
(* is received or the connection ends.                                     *)
WholeLinesHandled ==
  \A c \in Conns :
    pc[c] \in {"recv", "close"} /\ ~trace[c].cut =>
      trace[c].handled = trace[c].received

(* The end of the reply to a line, when no signal has interrupted the read *)
(* loop and nobody has sent anything like a seek command; and when it is   *)
(* the first line since the file was opened or the ring has not wrapped    *)
(* (f_pos counts from the oldest line, which a full ring drops).           *)
ReplyEnds(c) ==
  /\ pc[c] = "reply" /\ pc'[c] = "scan"
  /\ local[c].fileOpen /\ ~closeRequested
  /\ \A d \in Conns : Range(trace[d].handled) \cap (Seeks \cup OpenSeeks) = {}
  /\ local[c].start = 1 \/ ~buff.full

(* Since it opened the file, a handler has handed to send all that is      *)
(* stored, whatever the other handlers wrote in the meantime, nothing of   *)
(* it twice, and the line it answers last.                                 *)
RepliesWithStream ==
  [][\A c \in Conns :
       ReplyEnds(c) => local[c].offered = Stream /\ IsSuffix(Segment(c), local[c].offered)]_vars

(* A handler ends once its client has closed, unless the whole server has, *)
(* or a client that does not read keeps its handler in send for ever, with *)
(* FileMutex locked, or the signal has caught a handler inside syslog.     *)
HandlerEnds ==
  \/ <>[](\A c \in Conns : peerOpen[c] \/ pc[c] = "done" \/ exited)
  \/ \E c \in Conns : <>[](pc[c] = "blocked" /\ peerOpen[c])
  \/ <>(hung # {})

(* The handlers are those the rest of the server is built on. *)
Stage(place) ==
  CASE place \in {"recv", "scan", "close"}    -> "run"
    [] place \in {"line", "reply", "blocked"} -> "file"
    [] OTHER -> place

HT == INSTANCE HandlerThreads WITH stage <- [c \in Conns |-> Stage(pc[c])]

RefinesHandlerThreads == HT!Spec

(* connectionReceiverThread.c, where the handler is started: "Receives     *)
(* data over the connection and appends to the target file".  What is      *)
(* appended is what was received.                                          *)
AppendsReceivedData ==
  \A c \in Conns : IsPrefix(trace[c].handled, trace[c].received)
=============================================================================
