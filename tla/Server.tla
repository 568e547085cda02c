-------------------------------- MODULE Server --------------------------------
(***************************************************************************)
(* The life of the server: main and the signal handler (aesdsocket.c), the *)
(* in-process socket (localsocket.c), the thread that accepts connections  *)
(* (connectionReceiverThread.c) and its list of connections.  Handler      *)
(* threads are those of HandlerThreads; a connection's item in the list    *)
(* has the name of the connection.                                         *)
(***************************************************************************)
EXTENDS ConnectionList, Sequences

CONSTANTS
  Conns,         \* clients, one connection each
  NoConn,        \* the holder of a free FileMutex
  ConnFDs,       \* descriptors accept can hand out
  SignalThreads, \* threads that SIGINT and SIGTERM can reach
  StdinReadable, \* descriptor 0 can be polled and is at its end
  Failures       \* which calls may fail or hang unnoticed: "lock", "join", "epoll"

(* Descriptors that are not connections. *)
STDIN  == "0"
SOCKET == "socketFD"
ITS    == "its"

ASSUME ServerAssumption ==
  /\ NULL \notin Conns /\ NoConn \notin Conns
  /\ ConnFDs \subseteq Nat /\ NULL \notin ConnFDs
  /\ SignalThreads \subseteq {"main", "receiver", "handler"}
  /\ StdinReadable \in BOOLEAN
  /\ Failures \subseteq {"lock", "join", "epoll"}

VARIABLES
  stage, fileMutex, exited,  \* the handlers (HandlerThreads)
  closeRequested,
  hung,                 \* those of main and receiver that wait for ever
  syslogLocked,         \* syslog waits for ever, in every thread
  main,                 \* where main stands
  receiver,             \* where the receiver thread stands
  interthreadSocketFD,  \* 0 until InitITS has run
  epoll,                \* the descriptors it watches; NULL: there is no epoll
  closingEvent,         \* closingEvent.data.fd
  event,                \* events[0].data.fd
  connections,          \* the list
  m_mutex,              \* the list's mutex is held
  next,                 \* DestroyConnectionList: the item to close next
  backlog,              \* connections waiting for accept
  connectionFD,         \* each handler's descriptor
  openFDs               \* those of ConnFDs that are open

handlerVars == <<stage, fileMutex, exited>>
signalVars == <<closeRequested, hung, syslogLocked>>
mainVars == <<signalVars, main, interthreadSocketFD>>
listVars == <<connections, m_mutex, next>>
receiverVars == <<receiver, epoll, closingEvent, event, listVars>>
clientVars == <<backlog, connectionFD, openFDs>>
vars == <<handlerVars, mainVars, receiverVars, clientVars>>

H == INSTANCE HandlerThreads

(* events is an uninitialised array of the receiver's stack. *)
Init ==
  /\ H!Init /\ stage = [c \in Conns |-> "none"]
  /\ closeRequested = FALSE /\ hung = {} /\ syslogLocked = FALSE
  /\ main = "start"
  /\ receiver = "off"
  /\ interthreadSocketFD = STDIN
  /\ epoll = NULL /\ closingEvent = NULL
  /\ event \in {NULL, STDIN, SOCKET, ITS}
  /\ connections = InitConnectionList
  /\ m_mutex = FALSE
  /\ next = NULL
  /\ backlog = <<>>
  /\ connectionFD = [c \in Conns |-> NULL]
  /\ openFDs = {}

MainGoto(from, to) ==
  /\ ~exited /\ "main" \notin hung
  /\ main = from /\ main' = to

ReceiverGoto(from, to) ==
  /\ ~exited /\ "receiver" \notin hung
  /\ receiver = from /\ receiver' = to

(* The process ends with all its threads. *)
Exit ==
  /\ ~exited
  /\ exited' = TRUE
  /\ UNCHANGED <<stage, fileMutex, mainVars, receiverVars, clientVars>>

-----------------------------------------------------------------------------
(* main *)

(* The socket is created and bound, the process becomes a daemon (its      *)
(* child goes on), the signals are subscribed to.                          *)
Subscribe ==
  /\ MainGoto("start", "listen")
  /\ UNCHANGED <<handlerVars, signalVars, interthreadSocketFD, receiverVars, clientVars>>

(* The socket listens, the target file can be opened, FileMutex is made. *)
Listen ==
  /\ MainGoto("listen", "launch")
  /\ UNCHANGED <<handlerVars, signalVars, interthreadSocketFD, receiverVars, clientVars>>

(* fail(): socket, bind or fork; listen or open; the in-process socket. *)
StartFails == main \in {"start", "listen", "its"} /\ Exit

(* The receiver thread is created (pthread_create's result is not looked   *)
(* at, so it may also be missing), before the socket it will watch.        *)
LaunchReceiver ==
  /\ MainGoto("launch", "its")
  /\ receiver' \in {"off", "init"}
  /\ UNCHANGED <<handlerVars, signalVars, interthreadSocketFD, epoll, closingEvent,
                 event, listVars, clientVars>>

InitITS ==
  /\ MainGoto("its", "test")
  /\ interthreadSocketFD' = ITS
  /\ UNCHANGED <<handlerVars, signalVars, receiverVars, clientVars>>

(* while(!closeRequested): the test, and then the wait.  SendOnITS has no  *)
(* effect: the socket is not connected, so its send fails.                 *)
TestClosing ==
  /\ MainGoto("test", IF closeRequested THEN "join" ELSE "enter_wait")
  /\ UNCHANGED <<handlerVars, signalVars, interthreadSocketFD, receiverVars, clientVars>>

EnterWait ==
  /\ MainGoto("enter_wait", "wait")
  /\ UNCHANGED <<handlerVars, signalVars, interthreadSocketFD, receiverVars, clientVars>>

(* Mutant: main does not wait for the receiver. *)
JoinNoOne ==
  /\ MainGoto("join", "cleanup")
  /\ UNCHANGED <<handlerVars, signalVars, interthreadSocketFD, receiverVars, clientVars>>

(* pthread_join of the receiver, or of whatever the variable held if it    *)
(* was never created.  SendOnITS calls syslog first.                       *)
JoinReceiver ==
  /\ MainGoto("join", "cleanup")
  /\ receiver \in {"done", "off"}
  /\ ~syslogLocked
  /\ UNCHANGED <<handlerVars, signalVars, interthreadSocketFD, receiverVars, clientVars>>

(* Or it faults, or never returns. *)
JoinNoThread ==
  /\ main = "join" /\ "main" \notin hung
  /\ receiver = "off"
  /\ \/ Exit
     \/ /\ ~exited /\ "join" \in Failures
        /\ hung' = hung \cup {"main"}
        /\ UNCHANGED <<handlerVars, closeRequested, syslogLocked, main,
                       interthreadSocketFD, receiverVars, clientVars>>

(* The sockets are closed, FileMutex is destroyed, main returns. *)
Cleanup ==
  /\ MainGoto("cleanup", "done")
  /\ ~syslogLocked
  /\ interthreadSocketFD' = STDIN
  /\ exited' = TRUE
  /\ UNCHANGED <<stage, fileMutex, signalVars, receiverVars, clientVars>>

(* pthread_cond_broadcast moves main only if it already waits. *)
Broadcast == IF main = "wait" THEN "test" ELSE main

(* Where the receiver goes on when a signal has interrupted it: epoll_wait *)
(* returns -1, which is taken for events, and accept returns -1.           *)
Interrupted ==
  CASE receiver = "epoll"  -> "dispatch"
    [] receiver = "accept" -> "loop"
    [] OTHER               -> receiver

(* The threads that SIGINT or SIGTERM can reach; before subscribeToSignals *)
(* the signal kills.  It is blocked in a thread that runs sigHandler.      *)
CanReach(t) ==
  /\ ~exited
  /\ main # "start"
  /\ t \notin hung
  /\ t = "receiver" => receiver \notin {"off", "done"}
  /\ t = "handler" => \E c \in Conns : stage[c] \in {"start", "run", "file"}

sigHandler(t) ==
  /\ CanReach(t)
  /\ ~syslogLocked
  /\ closeRequested' = TRUE
  /\ main' = Broadcast
  /\ receiver' = IF t = "receiver" THEN Interrupted ELSE receiver
  /\ UNCHANGED <<handlerVars, hung, syslogLocked, interthreadSocketFD, epoll,
                 closingEvent, event, listVars, clientVars>>

(* A thread that calls syslog, or malloc (pthread_create, AddConnection),  *)
(* may hold a lock that the syslog of sigHandler waits for.                *)
InLibrary(t) ==
  \/ t = "main" /\ main \in {"launch", "join", "cleanup"}
  \/ t = "receiver" /\ \/ receiver = "accept" /\ backlog # <<>>
                       \/ receiver = "dispatch" /\ event = interthreadSocketFD
                       \/ receiver = "destroy"
  \/ t = "handler"

(* sigHandler does not get as far as closeRequested; the lock is one that  *)
(* every syslog needs, or not.                                             *)
SignalHangs(t) ==
  /\ "lock" \in Failures
  /\ CanReach(t)
  /\ InLibrary(t) \/ syslogLocked
  /\ hung' = hung \cup ({t} \ {"handler"})
  /\ syslogLocked' \in {syslogLocked, TRUE}
  /\ UNCHANGED <<handlerVars, closeRequested, main, interthreadSocketFD, receiverVars,
                 clientVars>>

(* Or it interrupts main in the midst of pthread_cond_wait, and the        *)
(* broadcast waits for the lock of the condition variable.                 *)
BroadcastHangs ==
  /\ "lock" \in Failures
  /\ "main" \in SignalThreads /\ CanReach("main")
  /\ main \in {"enter_wait", "wait"}
  /\ ~syslogLocked
  /\ closeRequested' = TRUE
  /\ hung' = hung \cup {"main"}
  /\ UNCHANGED <<handlerVars, syslogLocked, main, interthreadSocketFD, receiverVars,
                 clientVars>>

-----------------------------------------------------------------------------
(* ConnectionReceiverThread *)

(* epoll_create1, whose failure is not noticed.  interthreadSocketFD is    *)
(* read twice: for the data and for epoll_ctl.                             *)
ClosingData ==
  /\ ReceiverGoto("init", "register")
  /\ epoll' \in {{}} \cup (IF "epoll" \in Failures THEN {NULL} ELSE {})
  /\ closingEvent' = interthreadSocketFD
  /\ UNCHANGED <<handlerVars, mainVars, event, listVars, clientVars>>

(* Nor is it when an epoll_ctl fails, and it fails if there is no epoll. *)
Register ==
  /\ ReceiverGoto("register", "loop")
  /\ \/ epoll # NULL /\ epoll' = {SOCKET, interthreadSocketFD}
     \/ epoll # NULL /\ "epoll" \in Failures /\ epoll' \in SUBSET {SOCKET, interthreadSocketFD}
     \/ epoll = NULL /\ UNCHANGED epoll
  /\ UNCHANGED <<handlerVars, mainVars, closingEvent, event, listVars, clientVars>>

(* Mutant: the flag is not looked at. *)
LoopForever ==
  /\ ReceiverGoto("loop", "epoll")
  /\ UNCHANGED <<handlerVars, mainVars, epoll, closingEvent, event, listVars, clientVars>>

LoopTest ==
  /\ ReceiverGoto("loop", IF closeRequested THEN "destroy" ELSE "epoll")
  /\ next' = IF closeRequested THEN connections.m_head ELSE next
  /\ UNCHANGED <<handlerVars, mainVars, epoll, closingEvent, event, connections, m_mutex, clientVars>>

(* The data of the events that are ready.  No message ever arrives at ITS. *)
Ready ==
  IF epoll = NULL THEN {}
  ELSE (IF SOCKET \in epoll /\ backlog # <<>> THEN {SOCKET} ELSE {})
         \cup (IF STDIN \in epoll /\ StdinReadable THEN {closingEvent} ELSE {})

EpollWait ==
  /\ \/ /\ ReceiverGoto("epoll", "dispatch")
        /\ event' \in Ready
     \/ /\ ReceiverGoto("epoll", "dispatch")   \* -1 at once
        /\ epoll = NULL
        /\ UNCHANGED event
     \/ /\ ReceiverGoto("epoll", "loop")   \* one millisecond has passed
        /\ epoll # NULL /\ Ready = {}
        /\ UNCHANGED event
  /\ UNCHANGED <<handlerVars, mainVars, epoll, closingEvent, listVars, clientVars>>

(* Mutant: what is ready on the listening socket is not recognised. *)
DispatchMissesSocket ==
  /\ ReceiverGoto("dispatch", IF event = interthreadSocketFD THEN "its" ELSE "loop")
  /\ UNCHANGED <<handlerVars, mainVars, epoll, closingEvent, event, listVars, clientVars>>

(* Only the first event is looked at, also when epoll_wait has failed and  *)
(* left the one of an earlier round.  In "its", behind a syslog, every     *)
(* recv fails and adds 1 to the number of bytes still needed: there is no  *)
(* way out.                                                                *)
Dispatch ==
  /\ ReceiverGoto("dispatch", IF event = interthreadSocketFD THEN "its"
                              ELSE IF event = SOCKET THEN "accept" ELSE "loop")
  /\ ~(syslogLocked /\ event = interthreadSocketFD)
  /\ UNCHANGED <<handlerVars, mainVars, epoll, closingEvent, event, listVars, clientVars>>

EAGAIN == 11

(* Mutant: the handler is given the head of the list. *)
HeadItem(c) == IF connections.m_head = NULL THEN c ELSE connections.m_head

(* The parameter of the new thread. *)
ThreadParam(c) == c

(* accept blocks while the backlog is empty.  It returns the lowest free   *)
(* descriptor, which can be any of ConnFDs, as the files that handlers     *)
(* open use the same numbers.  What is stored as the thread is the result  *)
(* of pthread_create: 0, or an error and there is no thread.               *)
Accept ==
  LET c == Head(backlog) IN
  /\ ReceiverGoto("accept", "loop")
  /\ backlog # <<>>
  /\ ~m_mutex
  /\ \E fd \in ConnFDs \ openFDs, code \in {0, EAGAIN} :
       /\ connections' = [AddConnection(connections, c, fd, 0) EXCEPT !.item[c].m_thread = code]
       /\ openFDs' = openFDs \cup {fd}
       /\ IF code = 0 THEN H!Create(c) ELSE UNCHANGED handlerVars
  /\ backlog' = Tail(backlog)
  /\ UNCHANGED <<mainVars, epoll, closingEvent, event, m_mutex, next, connectionFD>>

(* The handlers' threads that are running. *)
AtWork == {c \in Conns : stage[c] \in {"run", "file"}}

(* Each of them may have the target file open, so that connections and     *)
(* files together can take all descriptors.                                *)
DescriptorsRunOut ==
  Cardinality(openFDs) + Cardinality(AtWork) >= Cardinality(ConnFDs)

(* Mutant: the result of accept is not looked at. *)
AcceptsMinusOne ==
  /\ ReceiverGoto("accept", "loop")
  /\ backlog # <<>> /\ DescriptorsRunOut
  /\ connections' = AddConnection(connections, Head(backlog), -1, 0)
  /\ backlog' = Tail(backlog)
  /\ UNCHANGED <<handlerVars, mainVars, epoll, closingEvent, event, m_mutex, next,
                 connectionFD, openFDs>>

(* No descriptor is left: the loop goes round. *)
AcceptFails ==
  /\ ReceiverGoto("accept", "loop")
  /\ backlog # <<>> /\ DescriptorsRunOut
  /\ UNCHANGED <<handlerVars, mainVars, epoll, closingEvent, event, listVars, clientVars>>

(* malloc fails in AddConnection, which uses what it returned. *)
AddFaults ==
  /\ receiver = "accept" /\ "receiver" \notin hung
  /\ backlog # <<>> /\ ConnFDs # openFDs
  /\ Exit

(* One round of DestroyConnectionList.  pthread_join of m_thread, which is *)
(* no thread, does not wait.                                               *)
DestroyConnectionList ==
  LET closed == CloseConnection(connections, connections.item[next].m_connectionFD) IN
  /\ ReceiverGoto("destroy", "destroy")
  /\ next # NULL
  /\ ~m_mutex /\ ~syslogLocked
  /\ next' = connections.item[next].m_nextConnectionPtr
  /\ connections' = closed.list
  /\ m_mutex' = closed.locked
  /\ UNCHANGED <<handlerVars, mainVars, epoll, closingEvent, event, clientVars>>

(* Or it faults, as some C libraries do for a thread that is none. *)
JoinFaults ==
  /\ receiver = "destroy" /\ "receiver" \notin hung
  /\ next # NULL
  /\ Exit

ReceiverEnds ==
  /\ ReceiverGoto("destroy", "done")
  /\ next = NULL
  /\ ~syslogLocked
  /\ UNCHANGED <<handlerVars, mainVars, epoll, closingEvent, event, listVars, clientVars>>

-----------------------------------------------------------------------------
(* Handlers and clients *)

(* The handler reads its parameter, an item of the list. *)
HandlerBegin(c) ==
  /\ H!Begin(c)
  /\ ThreadParam(c) \in DOMAIN connections.item
  /\ connectionFD' = [connectionFD EXCEPT ![c] = connections.item[ThreadParam(c)].m_connectionFD]
  /\ UNCHANGED <<mainVars, receiverVars, backlog, openFDs>>

(* The item has been freed: it reads some number, and works on if this is  *)
(* a connection, whosever it is; if not, getpeername fails and fail() ends *)
(* the process.                                                            *)
HandlerBeginFreed(c) ==
  /\ ThreadParam(c) \notin DOMAIN connections.item
  /\ \/ /\ H!Begin(c)
        /\ \E fd \in openFDs : connectionFD' = [connectionFD EXCEPT ![c] = fd]
     \/ /\ stage[c] = "start" /\ H!Die(c)
        /\ UNCHANGED connectionFD
  /\ UNCHANGED <<mainVars, receiverVars, backlog, openFDs>>

HandlerStep(c) ==
  /\ H!Lock(c) \/ H!Unlock(c) \/ H!Die(c)
  /\ UNCHANGED <<mainVars, receiverVars, clientVars>>

(* close(connectionFD) *)
HandlerEnd(c) ==
  /\ H!End(c)
  /\ openFDs' = openFDs \ {connectionFD[c]}
  /\ UNCHANGED <<mainVars, receiverVars, backlog, connectionFD>>

ClientConnect(c) ==
  /\ ~exited
  /\ main \notin {"start", "listen"}
  /\ stage[c] = "none" /\ c \notin DOMAIN connections.item
  /\ \A i \in DOMAIN backlog : backlog[i] # c
  /\ backlog' = Append(backlog, c)
  /\ UNCHANGED <<handlerVars, mainVars, receiverVars, connectionFD, openFDs>>

-----------------------------------------------------------------------------
MainStep ==
  \/ Subscribe \/ Listen \/ LaunchReceiver \/ InitITS
  \/ TestClosing \/ EnterWait \/ JoinReceiver \/ JoinNoThread \/ Cleanup

ReceiverStep ==
  \/ ClosingData \/ Register \/ LoopTest \/ EpollWait \/ Dispatch
  \/ Accept \/ AcceptFails \/ AddFaults
  \/ DestroyConnectionList \/ JoinFaults \/ ReceiverEnds

Next ==
  \/ MainStep \/ StartFails
  \/ ReceiverStep
  \/ \E t \in SignalThreads : sigHandler(t) \/ SignalHangs(t)
  \/ BroadcastHangs
  \/ \E c \in Conns :
       \/ ClientConnect(c) \/ HandlerBegin(c) \/ HandlerBeginFreed(c)
       \/ HandlerStep(c) \/ HandlerEnd(c)

Spec == Init /\ [][Next]_vars

(* The two threads keep running; nothing obliges clients to connect or to  *)
(* leave, or a signal to come or to be repeated.                           *)
FairSpec == Spec /\ WF_vars(MainStep) /\ WF_vars(ReceiverStep)

-----------------------------------------------------------------------------
(* Every variable has its C type. *)
TypeOK ==
  /\ stage \in [Conns -> {"none", "start", "run", "file", "done"}]
  /\ fileMutex \in Conns \cup {NoConn}
  /\ {closeRequested, exited, m_mutex, syslogLocked} \subseteq BOOLEAN
  /\ hung \subseteq {"main", "receiver"}
  /\ interthreadSocketFD \in {STDIN, ITS}
  /\ epoll = NULL \/ epoll \subseteq {STDIN, SOCKET, ITS}
  /\ event \in {NULL, STDIN, SOCKET, ITS}
  /\ DOMAIN connections.item \subseteq Conns
  /\ \A c \in DOMAIN connections.item : connections.item[c].m_connectionFD \in ConnFDs
  /\ backlog \in Seq(Conns)
  /\ connectionFD \in [Conns -> ConnFDs \cup {NULL}]
  /\ openFDs \subseteq ConnFDs

(* The list and its memory agree, although handlers close and accept       *)
(* reuses descriptors behind the list's back, so that several items carry  *)
(* the same one: the items allocated are those the list reaches, the       *)
(* destroy loop, which closes by descriptor, always stands at the head and *)
(* never at freed memory, and no call leaves m_mutex locked.               *)
ListMatchesMemory ==
  /\ Range(Walk(connections)) = DOMAIN connections.item \cup {NULL}
  /\ next \in DOMAIN connections.item \cup {NULL}
  /\ receiver = "destroy" => next = connections.m_head
  /\ ~m_mutex

(* Handlers at work have open descriptors of their own, although each      *)
(* closes its own behind the back of the list and accept uses the numbers  *)
(* again.  From the shutdown on, which frees items that handlers have not  *)
(* read yet, this is no longer so.                                         *)
OwnDescriptor ==
  receiver \notin {"destroy", "done"} => \A c \in AtWork :
    /\ connectionFD[c] \in openFDs
    /\ \A d \in AtWork : connectionFD[c] = connectionFD[d] => c = d

(* When main returns, the receiver has ended and has freed every item. *)
CleanExit ==
  main = "done" => receiver \in {"done", "off"} /\ DOMAIN connections.item = {}

(* The ways in which the server can hang. *)
LostSignal    == main = "wait" /\ closeRequested
StuckInAccept == receiver = "accept" /\ backlog = <<>>
StuckInRecv   == receiver = "its"
Hung          == hung # {} \/ syslogLocked

(* A signal that sets closeRequested ends the server, although the message *)
(* meant to tell the receiver is never delivered, except if it came        *)
(* between main's test and its wait; if a failed epoll_wait or the race    *)
(* for the in-process socket has sent the receiver into a call that does   *)
(* not return; if this or another signal has caught a thread in a call     *)
(* whose lock sigHandler needs; or if main waits for a receiver that it    *)
(* has not been able to create.                                            *)
ShutdownOrHang ==
  <>[](closeRequested =>
         exited \/ LostSignal \/ StuckInAccept \/ StuckInRecv \/ Hung)

(* The receiver watches standard input in the place of a socket that did   *)
(* not exist yet.                                                          *)
WatchesStdin  == epoll # NULL /\ STDIN \in epoll /\ StdinReadable
WatchesSocket == epoll # NULL /\ SOCKET \in epoll

(* Clients that have connected are accepted, again and again until none is *)
(* waiting (each connects once), unless descriptors run out, the server    *)
(* ends, a signal has caught the receiver in a call whose lock sigHandler  *)
(* needs, the listening socket could not be registered, or events of       *)
(* standard input keep coming first.                                       *)
AcceptsClients ==
  []<>(\/ backlog = <<>>
       \/ closeRequested \/ exited \/ receiver = "off" \/ "receiver" \in hung
       \/ WatchesStdin \/ ~WatchesSocket \/ DescriptorsRunOut)

(* "Caught signal, exiting" (aesdsocket.c:16): a signal that has been      *)
(* caught ends the server.                                                 *)
SignalStopsServer == closeRequested ~> exited
=============================================================================
