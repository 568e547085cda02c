---------------------------- MODULE ServerProofs ----------------------------
(***************************************************************************)
(* For any number of clients and descriptors: accept reuses the            *)
(* descriptors that handlers close, behind the back of the list, and still *)
(* no two handlers at work share one and each finds its own.  The linked   *)
(* list walks over exactly the items it owns (ListCorrect), and every      *)
(* variable keeps its type (ServerTypes).                                  *)
(***************************************************************************)
EXTENDS Server, FiniteSetTheorems, NaturalsInduction, WellFoundedInduction, TLAPS

(* Min is a minimum: of a set of naturals that is not empty. *)
LEMMA MinIsIn ==
  ASSUME NEW S, S \subseteq Nat, S # {}
  PROVE  Min(S) \in S /\ \A k \in S : Min(S) <= k
<1> DEFINE R == {ss \in Nat \X Nat : ss[1] < ss[2]}
<1>1. IsWellFoundedOn(R, Nat)
  BY NatLessThanWellFounded DEF OpToRel
<1>2. PICK m \in S : \A n \in S : ~(<<n, m>> \in R)
  <2> HIDE DEF R
  <2> QED BY <1>1, WFMin
<1>3. ASSUME NEW n \in S PROVE m <= n
  <2>1. ~(n < m)
    <3> SUFFICES ASSUME n < m PROVE <<n, m>> \in R
      BY <1>2
    <3> QED OBVIOUS
  <2> QED BY <2>1
<1> QED BY <1>3 DEF Min

-----------------------------------------------------------------------------
(* The list operations, as far as they concern descriptors.                *)

ItemFields == {"m_connectionFD", "m_thread", "m_nextConnectionPtr"}

(* A list whose items are records that carry a descriptor of a connection. *)
GoodList(list) ==
  /\ DOMAIN list = {"m_head", "item"}
  /\ \A x \in DOMAIN list.item : /\ DOMAIN list.item[x] = ItemFields
                                 /\ list.item[x].m_connectionFD \in ConnFDs

(* Closing frees items and changes the descriptor of none.                 *)
LEMMA CloseKeepsDescriptors ==
  ASSUME NEW list, GoodList(list), NEW fd
  PROVE  LET after == CloseConnection(list, fd).list IN
         /\ GoodList(after)
         /\ DOMAIN after.item \subseteq DOMAIN list.item
         /\ \A x \in DOMAIN after.item :
              after.item[x].m_connectionFD = list.item[x].m_connectionFD
<1> DEFINE found == FindConnection_nolock(list, fd)
           to    == list.item[found.item].m_nextConnectionPtr
           cut   == IF found.before = NULL THEN [list EXCEPT !.m_head = to]
                    ELSE [list EXCEPT !.item[found.before].m_nextConnectionPtr = to]
<1>1. /\ DOMAIN cut = {"m_head", "item"}
      /\ DOMAIN cut.item = DOMAIN list.item
      /\ \A x \in DOMAIN list.item :
           /\ DOMAIN cut.item[x] = ItemFields
           /\ cut.item[x].m_connectionFD = list.item[x].m_connectionFD
  <2> HIDE DEF found, to
  <2>1. CASE found.before = NULL
    BY <2>1 DEF GoodList
  <2>2. CASE found.before # NULL
    BY <2>2 DEF GoodList, ItemFields
  <2> QED BY <2>1, <2>2
<1>2. Unlink(list, found) =
        [cut EXCEPT !.item = Restrict(@, DOMAIN @ \ {found.item})]
  BY DEF Unlink
<1> HIDE DEF cut, found
<1>3. /\ GoodList(Unlink(list, found))
      /\ DOMAIN Unlink(list, found).item \subseteq DOMAIN list.item
      /\ \A x \in DOMAIN Unlink(list, found).item :
           Unlink(list, found).item[x].m_connectionFD = list.item[x].m_connectionFD
  BY <1>1, <1>2 DEF Restrict, GoodList
<1>4. CloseConnection(list, fd).list \in {list, Unlink(list, found)}
  BY DEF CloseConnection, found
<1> QED BY <1>3, <1>4

(* Adding changes the descriptor of no other item.                         *)
LEMMA AddKeepsDescriptors ==
  ASSUME NEW list, GoodList(list), NEW c, c \notin DOMAIN list.item,
         NEW fd \in ConnFDs, NEW thread
  PROVE  LET after == AddConnection(list, c, fd, thread) IN
         /\ GoodList(after)
         /\ DOMAIN after.item = DOMAIN list.item \cup {c}
         /\ after.item[c].m_connectionFD = fd
         /\ \A x \in DOMAIN list.item :
              after.item[x].m_connectionFD = list.item[x].m_connectionFD
<1> DEFINE end   == FindEnd_nolock(list)
           new   == [m_connectionFD |-> fd, m_thread |-> thread,
                     m_nextConnectionPtr |-> NULL]
           added == [x \in DOMAIN list.item \cup {c} |->
                       IF x = c THEN new ELSE list.item[x]]
           grown == AddConnection(list, c, fd, thread)
<1>1. /\ DOMAIN added = DOMAIN list.item \cup {c}
      /\ \A x \in DOMAIN added : DOMAIN added[x] = ItemFields
      /\ added[c].m_connectionFD = fd
      /\ \A x \in DOMAIN list.item : added[x] = list.item[x]
  BY DEF GoodList, ItemFields
<1>2. grown = IF end = NULL THEN [m_head |-> c, item |-> added]
              ELSE [list EXCEPT !.item = [added EXCEPT ![end].m_nextConnectionPtr = c]]
  BY DEF AddConnection
<1> HIDE DEF end, new, added, grown
<1>3. /\ DOMAIN grown = {"m_head", "item"}
      /\ DOMAIN grown.item = DOMAIN list.item \cup {c}
      /\ \A x \in DOMAIN grown.item :
           /\ DOMAIN grown.item[x] = ItemFields
           /\ grown.item[x].m_connectionFD = added[x].m_connectionFD
  <2>1. CASE end = NULL
    BY <1>1, <1>2, <2>1
  <2>2. CASE end # NULL
    BY <1>1, <1>2, <2>2 DEF GoodList, ItemFields
  <2> QED BY <2>1, <2>2
<1> QED BY <1>1, <1>3 DEF GoodList, grown

-----------------------------------------------------------------------------
(* Those who have a descriptor to call their own: handlers at work, and    *)
(* those who are about to read it from their item.                         *)
Owners ==
  AtWork \cup {c \in Conns : stage[c] = "start" /\ c \in DOMAIN connections.item}

FD(c) ==
  IF stage[c] = "start" THEN connections.item[c].m_connectionFD ELSE connectionFD[c]

ShuttingDown == receiver \in {"destroy", "done"}

Apart ==
  ~ShuttingDown => \A c \in Owners :
    /\ FD(c) \in openFDs
    /\ \A d \in Owners : FD(c) = FD(d) => c = d

(* Only the shutdown frees items, so that a handler that has not read its  *)
(* own yet still finds it before.                                          *)
ItemsStay ==
  \A c \in Conns :
    stage[c] = "start" /\ ~ShuttingDown => ThreadParam(c) \in DOMAIN connections.item

(* A client waits once, and neither has an item nor a handler yet.         *)
BacklogInv ==
  /\ backlog \in Seq(Conns)
  /\ \A i \in DOMAIN backlog :
       /\ stage[backlog[i]] = "none"
       /\ backlog[i] \notin DOMAIN connections.item
       /\ \A j \in DOMAIN backlog : backlog[i] = backlog[j] => i = j

DescriptorTypes ==
  /\ stage \in [Conns -> {"none", "start", "run", "file", "done"}]
  /\ connectionFD \in [Conns -> ConnFDs \cup {NULL}]
  /\ openFDs \subseteq ConnFDs
  /\ GoodList(connections)

(* Until main has created the receiver, there is none. *)
NotYetLaunched == main \in {"start", "listen", "launch"} => receiver = "off"

ServerInv ==
  /\ DescriptorTypes
  /\ BacklogInv
  /\ Apart
  /\ NotYetLaunched
  /\ ItemsStay

LEMMA InitInv == Init => ServerInv
<1> SUFFICES ASSUME Init PROVE ServerInv
  OBVIOUS
<1>1. DescriptorTypes
  BY DEF Init, DescriptorTypes, GoodList, InitConnectionList
<1>2. BacklogInv
  <2>1. <<>> \in Seq(Conns) /\ DOMAIN <<>> = {}
    OBVIOUS
  <2> QED BY <2>1 DEF Init, BacklogInv
<1>3. Owners = {}
  BY DEF Init, Owners, AtWork
<1>4. NotYetLaunched /\ ItemsStay
  BY DEF Init, NotYetLaunched, ItemsStay, ShuttingDown
<1> QED BY <1>1, <1>2, <1>3, <1>4 DEF ServerInv, Apart

(* Whoever keeps an open descriptor keeps it for itself.                   *)
LEMMA StillApart ==
  ASSUME Apart, ShuttingDown => ShuttingDown',
         ~ShuttingDown' => /\ Owners' \subseteq Owners
                           /\ \A c \in Owners' : FD(c)' = FD(c) /\ FD(c) \in openFDs'
  PROVE  Apart'
BY DEF Apart

(* A step of main, of the receiver or of a signal that concerns neither    *)
(* the list nor the handlers.                                              *)
LEMMA QuietStep ==
  ASSUME ServerInv, UNCHANGED <<stage, connectionFD, openFDs, backlog, connections>>,
         NotYetLaunched',
         ShuttingDown => ShuttingDown'
  PROVE  ServerInv'
<1>1. DescriptorTypes' /\ BacklogInv'
  BY DEF ServerInv, DescriptorTypes, BacklogInv, GoodList
<1>2. Owners' = Owners /\ \A c \in Owners : FD(c)' = FD(c)
  BY DEF Owners, AtWork, FD
<1>3. Apart'
  BY <1>2 DEF ServerInv, Apart
<1>4. ItemsStay'
  BY DEF ServerInv, ItemsStay, ThreadParam
<1> QED BY <1>1, <1>3, <1>4 DEF ServerInv

LEMMA MainKeeps ==
  ASSUME ServerInv, MainStep \/ Exit
  PROVE  ServerInv'
<1>1. UNCHANGED <<stage, connectionFD, openFDs, backlog, connections>>
  BY DEF MainStep, Exit, Subscribe, Listen, LaunchReceiver, InitITS, TestClosing,
         EnterWait, JoinReceiver, JoinNoThread, Cleanup, handlerVars, receiverVars, listVars, clientVars
<1>2. /\ NotYetLaunched'
      /\ ShuttingDown => ShuttingDown'
  <2>1. CASE LaunchReceiver
    BY <2>1 DEF ServerInv, NotYetLaunched, LaunchReceiver, MainGoto, ShuttingDown
  <2>2. CASE ~LaunchReceiver
    <3>1. receiver' = receiver
      BY <2>2 DEF MainStep, Exit, Subscribe, Listen, InitITS, TestClosing,
                  EnterWait, JoinReceiver, JoinNoThread, Cleanup, receiverVars, listVars
    <3>2. main' \in {"start", "listen", "launch"} => main \in {"start", "listen", "launch"}
      BY <2>2 DEF MainStep, Exit, Subscribe, Listen, InitITS, TestClosing,
                  EnterWait, JoinReceiver, JoinNoThread, Cleanup, MainGoto, mainVars, signalVars
    <3> QED BY <3>1, <3>2 DEF ServerInv, NotYetLaunched, ShuttingDown
  <2> QED BY <2>1, <2>2
<1> QED BY <1>1, <1>2, QuietStep

LEMMA SignalKeeps ==
  ASSUME ServerInv, NEW t \in SignalThreads,
         sigHandler(t) \/ SignalHangs(t) \/ BroadcastHangs
  PROVE  ServerInv'
<1>1. UNCHANGED <<stage, connectionFD, openFDs, backlog, connections>>
  BY DEF sigHandler, SignalHangs, BroadcastHangs, handlerVars, receiverVars, listVars, clientVars
<1>2. /\ receiver \in {"destroy", "done", "off"} => receiver' = receiver
      /\ main' \in {"start", "listen", "launch"} => main' = main
  BY DEF sigHandler, SignalHangs, BroadcastHangs, Interrupted, Broadcast, receiverVars, listVars
<1>3. NotYetLaunched'
  BY <1>2 DEF ServerInv, NotYetLaunched
<1>4. ShuttingDown => ShuttingDown'
  BY <1>2 DEF ShuttingDown
<1> QED BY <1>1, <1>3, <1>4, QuietStep

-----------------------------------------------------------------------------
(* The receiver's steps that leave the list alone.                         *)
QuietReceiver ==
  ClosingData \/ Register \/ LoopTest \/ EpollWait \/ Dispatch \/ AcceptFails \/ ReceiverEnds

LEMMA QuietReceiverKeeps ==
  ASSUME ServerInv, QuietReceiver
  PROVE  ServerInv'
<1>1. UNCHANGED <<stage, connectionFD, openFDs, backlog, connections, main>>
  BY DEF QuietReceiver, ClosingData, Register, LoopTest, EpollWait, Dispatch,
         AcceptFails, ReceiverEnds, handlerVars, clientVars, mainVars, signalVars, listVars
<1>2. receiver \in {"init", "register", "loop", "epoll", "dispatch", "accept", "destroy"}
  BY DEF QuietReceiver, ClosingData, Register, LoopTest, EpollWait, Dispatch,
         AcceptFails, ReceiverEnds, ReceiverGoto
<1>3. receiver = "destroy" => receiver' = "done"
  BY DEF QuietReceiver, ClosingData, Register, LoopTest, EpollWait, Dispatch,
         AcceptFails, ReceiverEnds, ReceiverGoto
<1>4. NotYetLaunched'
  BY <1>1, <1>2 DEF ServerInv, NotYetLaunched
<1>5. ShuttingDown => ShuttingDown'
  BY <1>2, <1>3 DEF ShuttingDown
<1> QED BY <1>1, <1>4, <1>5, QuietStep

(* The descriptor accept returns is new, and so is the owner.              *)
LEMMA AcceptKeeps ==
  ASSUME ServerInv, Accept
  PROVE  ServerInv'
<1>0. PICK c : c = Head(backlog)
  OBVIOUS
<1>1. PICK fd \in ConnFDs \ openFDs, code \in {0, EAGAIN} :
        /\ connections' = [AddConnection(connections, c, fd, 0) EXCEPT !.item[c].m_thread = code]
        /\ openFDs' = openFDs \cup {fd}
        /\ IF code = 0 THEN H!Create(c) ELSE UNCHANGED handlerVars
  BY <1>0 DEF Accept
<1>2. /\ receiver = "accept" /\ receiver' = "loop"
      /\ backlog # <<>> /\ backlog' = Tail(backlog)
      /\ openFDs' = openFDs \cup {fd}
      /\ UNCHANGED <<connectionFD, main>>
  BY <1>0, <1>1 DEF Accept, ReceiverGoto, mainVars, signalVars
<1>3. fd \in ConnFDs /\ fd \notin openFDs
  BY <1>1
<1>4. /\ backlog \in Seq(Conns) /\ c = backlog[1] /\ 1 \in DOMAIN backlog
      /\ c \in Conns /\ stage[c] = "none" /\ c \notin DOMAIN connections.item
      /\ \A i \in DOMAIN backlog : backlog[i] = c => i = 1
  BY <1>0, <1>2 DEF ServerInv, BacklogInv
<1>5. GoodList(connections)
  BY DEF ServerInv, DescriptorTypes
<1>6. /\ GoodList(connections')
      /\ DOMAIN connections'.item = DOMAIN connections.item \cup {c}
      /\ connections'.item[c].m_connectionFD = fd
      /\ \A x \in DOMAIN connections.item :
           connections'.item[x].m_connectionFD = connections.item[x].m_connectionFD
  <2>1. PICK grown : grown = AddConnection(connections, c, fd, 0)
    OBVIOUS
  <2>2. /\ GoodList(grown)
        /\ DOMAIN grown.item = DOMAIN connections.item \cup {c}
        /\ grown.item[c].m_connectionFD = fd
        /\ \A x \in DOMAIN connections.item :
             grown.item[x].m_connectionFD = connections.item[x].m_connectionFD
    BY <1>3, <1>4, <1>5, <2>1, AddKeepsDescriptors
  <2>3. connections' = [grown EXCEPT !.item[c].m_thread = code]
    BY <1>1, <2>1
  <2> QED BY <2>2, <2>3 DEF GoodList, ItemFields
<1>7. /\ stage' \in [Conns -> {"none", "start", "run", "file", "done"}]
      /\ stage'[c] \in {"none", "start"}
      /\ \A d \in Conns : d # c => stage'[d] = stage[d]
  BY <1>1, <1>4 DEF H!Create, H!Move, handlerVars, ServerInv, DescriptorTypes
<1>8. DescriptorTypes'
  BY <1>2, <1>3, <1>4, <1>6, <1>7 DEF ServerInv, DescriptorTypes
<1>9. BacklogInv'
  <2>1. /\ backlog' \in Seq(Conns)
        /\ \A i \in DOMAIN backlog' : i + 1 \in DOMAIN backlog /\ backlog'[i] = backlog[i + 1]
        /\ DOMAIN backlog' \subseteq Nat \ {0}
    BY <1>2, <1>4
  <2>2. ASSUME NEW i \in DOMAIN backlog'
        PROVE  /\ backlog'[i] # c /\ backlog'[i] \in Conns
               /\ stage[backlog'[i]] = "none"
               /\ backlog'[i] \notin DOMAIN connections.item
    BY <1>4, <2>1 DEF ServerInv, BacklogInv
  <2>3. ASSUME NEW i \in DOMAIN backlog', NEW j \in DOMAIN backlog',
               backlog'[i] = backlog'[j]
        PROVE  i = j
    <3>1. i + 1 = j + 1
      BY <2>1, <2>3 DEF ServerInv, BacklogInv
    <3> QED BY <2>1, <3>1
  <2> QED BY <1>6, <1>7, <2>1, <2>2, <2>3 DEF BacklogInv
<1>10. Apart'
  <2>1. ~ShuttingDown /\ c \notin Owners
    BY <1>2, <1>4 DEF ShuttingDown, Owners, AtWork
  <2>2. ASSUME NEW d \in Owners', d # c PROVE d \in Owners
    <3>1. d \in Conns /\ stage'[d] = stage[d]
      BY <1>7, <2>2 DEF Owners, AtWork
    <3> QED BY <1>2, <1>6, <2>2, <3>1 DEF Owners, AtWork
  <2>3. ASSUME NEW d \in Owners PROVE FD(d)' = FD(d) /\ FD(d) \in openFDs
    <3>1. d \in Conns /\ d # c /\ stage'[d] = stage[d] /\ FD(d) \in openFDs
      BY <1>7, <2>1 DEF ServerInv, Apart, Owners, AtWork
    <3>2. stage[d] = "start" => d \in DOMAIN connections.item
      BY DEF Owners, AtWork
    <3> QED BY <1>2, <1>6, <3>1, <3>2 DEF FD
  <2>4. c \in Owners' => FD(c)' = fd
    BY <1>2, <1>6, <1>7, <2>1 DEF Owners, AtWork, FD
  <2>5. ASSUME NEW d \in Owners', NEW e \in Owners', FD(d)' = FD(e)' PROVE d = e
    <3>1. CASE d = c /\ e = c
      BY <3>1
    <3>2. CASE d # c /\ e # c
      BY <2>1, <2>2, <2>3, <2>5, <3>2 DEF ServerInv, Apart
    <3>3. CASE d = c /\ e # c
      BY <1>3, <2>2, <2>3, <2>4, <2>5, <3>3
    <3>4. CASE d # c /\ e = c
      BY <1>3, <2>2, <2>3, <2>4, <2>5, <3>4
    <3> QED BY <3>1, <3>2, <3>3, <3>4
  <2>6. ASSUME NEW d \in Owners' PROVE FD(d)' \in openFDs'
    BY <1>2, <2>2, <2>3, <2>4
  <2> HIDE DEF FD
  <2> QED BY <2>5, <2>6 DEF Apart
<1>11. NotYetLaunched' /\ ItemsStay'
  <2>1. NotYetLaunched'
    BY <1>2 DEF ServerInv, NotYetLaunched
  <2>2. ASSUME NEW d \in Conns, stage'[d] = "start"
        PROVE  d \in DOMAIN connections'.item
    BY <1>2, <1>6, <1>7, <2>2 DEF ServerInv, ItemsStay, ShuttingDown, ThreadParam
  <2> QED BY <2>1, <2>2 DEF ItemsStay, ThreadParam
<1> QED BY <1>8, <1>9, <1>10, <1>11 DEF ServerInv

(* The shutdown frees items.                                               *)
LEMMA DestroyKeeps ==
  ASSUME ServerInv, DestroyConnectionList
  PROVE  ServerInv'
<1>1. PICK fd : connections' = CloseConnection(connections, fd).list
  BY DEF DestroyConnectionList
<1>2. /\ UNCHANGED <<stage, connectionFD, openFDs, backlog, main>>
      /\ receiver = "destroy" /\ receiver' = "destroy"
  BY DEF DestroyConnectionList, ReceiverGoto, handlerVars, clientVars, mainVars, signalVars
<1>3. /\ GoodList(connections')
      /\ DOMAIN connections'.item \subseteq DOMAIN connections.item
      /\ \A x \in DOMAIN connections'.item :
           connections'.item[x].m_connectionFD = connections.item[x].m_connectionFD
  BY <1>1, CloseKeepsDescriptors DEF ServerInv, DescriptorTypes
<1>4. DescriptorTypes' /\ BacklogInv'
  BY <1>2, <1>3 DEF ServerInv, DescriptorTypes, BacklogInv
<1>5. Apart' /\ NotYetLaunched' /\ ItemsStay'
  BY <1>2 DEF ServerInv, ShuttingDown, Apart, NotYetLaunched, ItemsStay
<1> QED BY <1>4, <1>5 DEF ServerInv

-----------------------------------------------------------------------------
(* A handler moves on, and takes with it the descriptor it has.            *)
LEMMA HandlerKeeps ==
  ASSUME ServerInv, NEW c \in Conns, NEW from, NEW to \in {"run", "file", "done"},
         from # "none", H!Move(c, from, to),
         UNCHANGED <<main, receiver, connections, backlog>>,
         connectionFD' \in [Conns -> ConnFDs \cup {NULL}],
         \A d \in Conns : d # c => connectionFD'[d] = connectionFD[d],
         openFDs' \subseteq openFDs,
         ~ShuttingDown => /\ Owners' \subseteq Owners
                          /\ \A d \in Owners' : FD(d)' = FD(d) /\ FD(d) \in openFDs'
  PROVE  ServerInv'
<1>1. /\ stage' \in [Conns -> {"none", "start", "run", "file", "done"}]
      /\ stage[c] # "none" /\ stage'[c] = to
      /\ \A d \in Conns : d # c => stage'[d] = stage[d]
  BY DEF H!Move, ServerInv, DescriptorTypes
<1>2. DescriptorTypes'
  BY <1>1 DEF ServerInv, DescriptorTypes, GoodList
<1>3. BacklogInv'
  <2>1. \A i \in DOMAIN backlog : backlog[i] \in Conns
    BY DEF ServerInv, BacklogInv
  <2> QED BY <1>1, <2>1 DEF ServerInv, BacklogInv
<1>4. Apart'
  <2>1. ShuttingDown' = ShuttingDown
    BY DEF ShuttingDown
  <2> QED BY <2>1, StillApart DEF ServerInv
<1>5. NotYetLaunched' /\ ItemsStay'
  BY <1>1 DEF ServerInv, NotYetLaunched, ItemsStay, ShuttingDown, ThreadParam
<1> QED BY <1>2, <1>3, <1>4, <1>5 DEF ServerInv

(* A move with all descriptors staying what and where they are.            *)
LEMMA MoveKeeps ==
  ASSUME ServerInv, NEW c \in Conns, NEW from, NEW to \in {"run", "file", "done"},
         from # "none", H!Move(c, from, to),
         to = "done" \/ from \in {"run", "file"},
         UNCHANGED <<main, receiver, connections, backlog, connectionFD, openFDs>>
  PROVE  ServerInv'
<1>1. /\ stage[c] = from /\ stage'[c] = to
      /\ \A d \in Conns : d # c => stage'[d] = stage[d]
  BY DEF H!Move, ServerInv, DescriptorTypes
<1>2. Owners' \subseteq Owners
  BY <1>1 DEF Owners, AtWork
<1>3. ASSUME ~ShuttingDown, NEW d \in Owners' PROVE FD(d)' = FD(d) /\ FD(d) \in openFDs'
  <2>1. d \in Conns /\ FD(d) \in openFDs
    BY <1>2, <1>3 DEF Owners, AtWork, ServerInv, Apart
  <2>2. d = c => from # "start" /\ to # "start"
    BY <1>1 DEF Owners, AtWork
  <2> QED BY <1>1, <2>1, <2>2 DEF FD
<1>4. connectionFD' \in [Conns -> ConnFDs \cup {NULL}]
  BY DEF ServerInv, DescriptorTypes
<1> QED BY <1>2, <1>3, <1>4, HandlerKeeps

LEMMA BeginKeeps ==
  ASSUME ServerInv, NEW c \in Conns, HandlerBegin(c)
  PROVE  ServerInv'
<1> DEFINE fd == connections.item[c].m_connectionFD
<1>1. /\ H!Move(c, "start", "run")
      /\ c \in DOMAIN connections.item
      /\ connectionFD' = [connectionFD EXCEPT ![c] = fd]
      /\ UNCHANGED <<main, receiver, connections, backlog, openFDs>>
  BY DEF HandlerBegin, H!Begin, ThreadParam, mainVars, signalVars, receiverVars, listVars
<1>2. /\ stage[c] = "start" /\ stage'[c] = "run"
      /\ \A d \in Conns : d # c => stage'[d] = stage[d]
  BY <1>1 DEF H!Move, ServerInv, DescriptorTypes
<1>3. /\ fd \in ConnFDs
      /\ connectionFD' \in [Conns -> ConnFDs \cup {NULL}]
      /\ connectionFD'[c] = fd
      /\ \A d \in Conns : d # c => connectionFD'[d] = connectionFD[d]
  BY <1>1 DEF ServerInv, DescriptorTypes, GoodList
<1>4. c \in Owners /\ FD(c)' = FD(c)
  <2>1. FD(c) = fd
    BY <1>2 DEF FD
  <2>2. FD(c)' = connectionFD'[c]
    BY <1>2 DEF FD
  <2> QED BY <1>1, <1>2, <1>3, <2>1, <2>2 DEF Owners
<1>5. Owners' \subseteq Owners
  <2>1. ASSUME NEW d \in Owners', d # c PROVE d \in Owners
    BY <1>1, <1>2, <1>3, <2>1 DEF Owners, AtWork
  <2> QED BY <1>4, <2>1
<1>6. ASSUME ~ShuttingDown, NEW d \in Owners' PROVE FD(d)' = FD(d) /\ FD(d) \in openFDs'
  <2>1. d \in Conns /\ FD(d) \in openFDs
    BY <1>5, <1>6 DEF Owners, AtWork, ServerInv, Apart
  <2>2. d # c => FD(d)' = FD(d)
    BY <1>1, <1>2, <1>3, <2>1 DEF FD
  <2> QED BY <1>1, <1>4, <2>1, <2>2
<1>7. openFDs' \subseteq openFDs
  BY <1>1
<1> QED BY <1>1, <1>3, <1>5, <1>6, <1>7, HandlerKeeps

(* A handler whose item is gone may read anybody's descriptor, but items   *)
(* are gone only during the shutdown.                                      *)
LEMMA BeginFreedKeeps ==
  ASSUME ServerInv, NEW c \in Conns, HandlerBeginFreed(c)
  PROVE  ServerInv'
<1>1. /\ UNCHANGED <<main, receiver, connections, backlog, openFDs>>
      /\ ThreadParam(c) \notin DOMAIN connections.item
  BY DEF HandlerBeginFreed, mainVars, signalVars, receiverVars, listVars
<1>2. PICK to \in {"run", "done"} : H!Move(c, "start", to)
  BY DEF HandlerBeginFreed, H!Begin, H!Die, H!Move
<1>3. ShuttingDown
  BY <1>1, <1>2 DEF H!Move, ServerInv, ItemsStay
<1>4. PICK fd \in openFDs \cup {connectionFD[c]} : connectionFD' = [connectionFD EXCEPT ![c] = fd]
  BY DEF HandlerBeginFreed, ServerInv, DescriptorTypes
<1>5. /\ connectionFD' \in [Conns -> ConnFDs \cup {NULL}]
      /\ \A d \in Conns : d # c => connectionFD'[d] = connectionFD[d]
  BY <1>4 DEF ServerInv, DescriptorTypes
<1> QED BY <1>1, <1>2, <1>3, <1>5, HandlerKeeps

(* What a handler closes is its own, before the shutdown.                  *)
LEMMA EndKeeps ==
  ASSUME ServerInv, NEW c \in Conns, HandlerEnd(c)
  PROVE  ServerInv'
<1>1. /\ H!Move(c, "run", "done")
      /\ openFDs' = openFDs \ {connectionFD[c]}
      /\ UNCHANGED <<main, receiver, connections, backlog, connectionFD>>
  BY DEF HandlerEnd, H!End, mainVars, signalVars, receiverVars, listVars
<1>2. /\ stage[c] = "run" /\ stage'[c] = "done"
      /\ \A d \in Conns : d # c => stage'[d] = stage[d]
  BY <1>1 DEF H!Move, ServerInv, DescriptorTypes
<1>3. c \notin Owners' /\ Owners' \subseteq Owners
  BY <1>1, <1>2 DEF Owners, AtWork
<1>4. ASSUME ~ShuttingDown, NEW d \in Owners' PROVE FD(d)' = FD(d) /\ FD(d) \in openFDs'
  <2>1. d \in Conns /\ d # c /\ d \in Owners /\ FD(d) \in openFDs
    BY <1>3, <1>4 DEF Owners, AtWork, ServerInv, Apart
  <2>2. FD(d) # connectionFD[c]
    <3>1. c \in Owners /\ FD(c) = connectionFD[c]
      BY <1>2 DEF Owners, AtWork, FD
    <3> QED BY <1>4, <2>1, <3>1 DEF ServerInv, Apart
  <2> QED BY <1>1, <1>2, <2>1, <2>2 DEF FD
<1>5. connectionFD' \in [Conns -> ConnFDs \cup {NULL}]
  BY <1>1 DEF ServerInv, DescriptorTypes
<1> QED BY <1>1, <1>3, <1>4, <1>5, HandlerKeeps

LEMMA StepKeeps ==
  ASSUME ServerInv, NEW c \in Conns, HandlerStep(c)
  PROVE  ServerInv'
<1>1. UNCHANGED <<main, receiver, connections, backlog, connectionFD, openFDs>>
  BY DEF HandlerStep, mainVars, signalVars, receiverVars, listVars, clientVars
<1>2. \/ H!Move(c, "run", "file") \/ H!Move(c, "file", "run")
      \/ H!Move(c, "start", "done") \/ H!Move(c, "file", "done")
  BY DEF HandlerStep, H!Lock, H!Unlock, H!Die
<1> QED BY <1>1, <1>2, MoveKeeps

LEMMA ConnectKeeps ==
  ASSUME ServerInv, NEW c \in Conns, ClientConnect(c)
  PROVE  ServerInv'
<1>1. /\ backlog' = Append(backlog, c)
      /\ stage[c] = "none" /\ c \notin DOMAIN connections.item
      /\ \A i \in DOMAIN backlog : backlog[i] # c
      /\ UNCHANGED <<stage, main, receiver, connections, connectionFD, openFDs>>
  BY DEF ClientConnect, handlerVars, mainVars, signalVars, receiverVars, listVars
<1>2. BacklogInv'
  <2>1. backlog \in Seq(Conns)
    BY DEF ServerInv, BacklogInv
  <2>2. /\ backlog' \in Seq(Conns)
        /\ DOMAIN backlog' = DOMAIN backlog \cup {Len(backlog) + 1}
        /\ backlog'[Len(backlog) + 1] = c
        /\ \A i \in DOMAIN backlog : backlog'[i] = backlog[i]
    BY <1>1, <2>1
  <2> QED BY <1>1, <2>2 DEF ServerInv, BacklogInv
<1>3. DescriptorTypes' /\ NotYetLaunched' /\ ItemsStay'
  BY <1>1 DEF ServerInv, DescriptorTypes, GoodList, NotYetLaunched, ItemsStay, ShuttingDown, ThreadParam
<1>4. Owners' = Owners /\ \A d \in Owners : FD(d)' = FD(d)
  BY <1>1 DEF Owners, AtWork, FD
<1>5. Apart'
  BY <1>1, <1>4 DEF ServerInv, Apart, ShuttingDown
<1> QED BY <1>2, <1>3, <1>5 DEF ServerInv

LEMMA StutterKeeps == ServerInv /\ UNCHANGED vars => ServerInv'
<1> SUFFICES ASSUME ServerInv, UNCHANGED vars PROVE ServerInv'
  OBVIOUS
<1>1. /\ UNCHANGED <<stage, connectionFD, openFDs, backlog, connections>>
      /\ UNCHANGED <<main, receiver>>
  BY DEF vars, handlerVars, mainVars, signalVars, receiverVars, listVars, clientVars
<1>2. NotYetLaunched'
  BY <1>1 DEF ServerInv, NotYetLaunched
<1>3. ShuttingDown => ShuttingDown'
  BY <1>1 DEF ShuttingDown
<1> QED BY <1>1, <1>2, <1>3, QuietStep

LEMMA NextKeeps == ServerInv /\ Next => ServerInv'
<1> SUFFICES ASSUME ServerInv, Next PROVE ServerInv'
  OBVIOUS
<1>1. CASE MainStep
  BY <1>1, MainKeeps
<1>2. CASE StartFails \/ AddFaults \/ JoinFaults
  BY <1>2, MainKeeps DEF StartFails, AddFaults, JoinFaults
<1>3. CASE QuietReceiver
  BY <1>3, QuietReceiverKeeps
<1>4. CASE Accept
  BY <1>4, AcceptKeeps
<1>5. CASE DestroyConnectionList
  BY <1>5, DestroyKeeps
<1>6. ASSUME NEW t \in SignalThreads, sigHandler(t) \/ SignalHangs(t) \/ BroadcastHangs
      PROVE  ServerInv'
  BY <1>6, SignalKeeps
<1>7. ASSUME NEW c \in Conns,
             \/ ClientConnect(c) \/ HandlerBegin(c) \/ HandlerBeginFreed(c)
             \/ HandlerStep(c) \/ HandlerEnd(c)
      PROVE  ServerInv'
  BY <1>7, ConnectKeeps, BeginKeeps, BeginFreedKeeps, StepKeeps, EndKeeps
<1>8. BroadcastHangs => "main" \in SignalThreads
  BY DEF BroadcastHangs
<1> QED BY <1>1, <1>2, <1>3, <1>4, <1>5, <1>6, <1>7, <1>8 DEF Next, ReceiverStep, QuietReceiver

LEMMA ServerInvImplies == ServerInv => OwnDescriptor
<1> SUFFICES ASSUME ServerInv PROVE OwnDescriptor
  OBVIOUS
<1>1. \A c \in AtWork : c \in Owners /\ FD(c) = connectionFD[c]
  BY DEF Owners, AtWork, FD
<1> QED BY <1>1 DEF ServerInv, Apart, ShuttingDown, OwnDescriptor

(* Until the shutdown begins, handlers at work have open descriptors of    *)
(* their own (connectionReceiverThread.c:52, connectionHandlerThread.c:89),*)
(* although finished handlers give theirs back without telling the list.   *)
THEOREM DescriptorsCorrect == Spec => []OwnDescriptor
<1>1. Init => ServerInv
  BY InitInv
<1>2. ServerInv /\ [Next]_vars => ServerInv'
  BY NextKeeps, StutterKeeps
<1>3. ServerInv => OwnDescriptor
  BY ServerInvImplies
<1> QED BY <1>1, <1>2, <1>3, PTL DEF Spec

-----------------------------------------------------------------------------
(* The list itself: its items, in order, are at[0], ..., at[n - 1].        *)

Linked(list, n, at) ==
  /\ GoodList(list) /\ NULL \notin DOMAIN list.item
  /\ IsFiniteSet(DOMAIN list.item) /\ n = Cardinality(DOMAIN list.item) /\ n \in Nat
  /\ at = [k \in 0 .. n |-> at[k]]
  /\ at[0] = list.m_head /\ at[n] = NULL
  /\ \A k \in 0 .. n - 1 :
       at[k] \in DOMAIN list.item /\ at[k + 1] = list.item[at[k]].m_nextConnectionPtr
  /\ \A j, k \in 0 .. n - 1 : at[j] = at[k] => j = k
  /\ \A x \in DOMAIN list.item : \E k \in 0 .. n - 1 : at[k] = x

(* Of numbers with a property up to n there is a first.                    *)
LEMMA FirstBad ==
  ASSUME NEW n \in Nat, NEW S \in SUBSET (0 .. n), S # {}
  PROVE  \E m \in S : \A k \in 0 .. m - 1 : k \notin S
<1>1. S \subseteq Nat
  OBVIOUS
<1>2. Min(S) \in S /\ \A k \in S : Min(S) <= k
  BY <1>1, MinIsIn
<1>3. \A k \in 0 .. Min(S) - 1 : k \notin S
  <2> SUFFICES ASSUME NEW k \in 0 .. Min(S) - 1, k \in S PROVE FALSE
    OBVIOUS
  <2>1. Min(S) <= k /\ Min(S) \in Nat
    BY <1>1, <1>2
  <2> QED BY <2>1
<1> QED BY <1>2, <1>3

(* Walking from the head meets the items in order.                         *)
LEMMA WalkValue ==
  ASSUME NEW list, NEW n, NEW at, Linked(list, n, at)
  PROVE  Walk(list) = at
<1> DEFINE Step(g, k) == IF k = 0 THEN list.m_head
                         ELSE IF g[k - 1] \in DOMAIN list.item
                              THEN list.item[g[k - 1]].m_nextConnectionPtr ELSE NULL
           w == CHOOSE g : g = [k \in 0 .. n |-> Step(g, k)]
<1>1. Walk(list) = w
  BY DEF Walk, Linked
<1>2. n \in Nat
  BY DEF Linked
<1>3. \A k \in 0 .. n : at[k] = Step(at, k)
  <2> SUFFICES ASSUME NEW k \in 0 .. n PROVE at[k] = Step(at, k)
    OBVIOUS
  <2>1. CASE k = 0
    BY <2>1 DEF Linked
  <2>2. CASE k # 0
    <3>1. k - 1 \in 0 .. n - 1 /\ (k - 1) + 1 = k
      BY <1>2, <2>2
    <3>2. /\ at[k - 1] \in DOMAIN list.item
          /\ at[(k - 1) + 1] = list.item[at[k - 1]].m_nextConnectionPtr
      BY <3>1 DEF Linked
    <3> QED BY <2>2, <3>1, <3>2
  <2> QED BY <2>1, <2>2
<1>4. at = [k \in 0 .. n |-> at[k]]
  BY DEF Linked
<1>5. at = [k \in 0 .. n |-> Step(at, k)]
  <2> HIDE DEF Step
  <2>1. [k \in 0 .. n |-> at[k]] = [k \in 0 .. n |-> Step(at, k)]
    BY <1>3
  <2> QED BY <1>4, <2>1
<1>6. w = [k \in 0 .. n |-> Step(w, k)]
  <2>1. \E g : g = [k \in 0 .. n |-> Step(g, k)]
    BY <1>5
  <2> HIDE DEF Step
  <2> QED BY <2>1
<1>7. \A k \in 0 .. n : w[k] = Step(w, k)
  <2> HIDE DEF Step, w
  <2> QED BY <1>6
<1>8. w = [k \in 0 .. n |-> w[k]]
  <2> HIDE DEF Step, w
  <2> QED BY <1>6
<1>9. \A k \in 0 .. n : w[k] = at[k]
  <2> DEFINE Bad == {k \in 0 .. n : w[k] # at[k]}
  <2> SUFFICES ASSUME Bad # {} PROVE FALSE
    OBVIOUS
  <2>1. PICK m \in Bad : \A k \in 0 .. m - 1 : k \notin Bad
    <3>1. Bad \in SUBSET (0 .. n)
      OBVIOUS
    <3> HIDE DEF Bad
    <3> QED BY <1>2, <3>1, FirstBad
  <2>2. m \in 0 .. n /\ w[m] # at[m]
    <3> HIDE DEF w
    <3> QED OBVIOUS
  <2>3. m # 0
    BY <1>3, <1>7, <2>2
  <2>4. m - 1 \in 0 .. n /\ m - 1 \in 0 .. m - 1
    BY <1>2, <2>2, <2>3
  <2>5. w[m - 1] = at[m - 1]
    BY <2>1, <2>4
  <2> HIDE DEF w
  <2> QED BY <1>3, <1>7, <2>2, <2>3, <2>5
<1> HIDE DEF w
<1>10. w = at
  BY <1>4, <1>8, <1>9
<1> QED BY <1>1, <1>10

LEMMA EmptyListLinked ==
  ASSUME NEW list, GoodList(list), list.m_head = NULL, DOMAIN list.item = {}
  PROVE  \E n, at : Linked(list, n, at)
<1>1. IsFiniteSet(DOMAIN list.item) /\ Cardinality(DOMAIN list.item) = 0
  BY FS_EmptySet
<1> DEFINE at == [k \in 0 .. 0 |-> NULL]
<1>2. at[0] = NULL /\ 0 \in Nat /\ at = [k \in 0 .. 0 |-> at[k]]
  OBVIOUS
<1> HIDE DEF at
<1>3. Linked(list, 0, at)
  BY <1>1, <1>2 DEF Linked
<1> QED BY <1>3

(* An item that is added comes last (FindEnd_nolock).                      *)
LEMMA AddLinks ==
  ASSUME NEW list, NEW n, NEW at, Linked(list, n, at),
         NEW c, c \notin DOMAIN list.item, c # NULL, NEW fd \in ConnFDs, NEW thread
  PROVE  \E m, to : Linked(AddConnection(list, c, fd, thread), m, to)
<1> DEFINE end   == FindEnd_nolock(list)
           new   == [m_connectionFD |-> fd, m_thread |-> thread,
                     m_nextConnectionPtr |-> NULL]
           added == [x \in DOMAIN list.item \cup {c} |->
                       IF x = c THEN new ELSE list.item[x]]
           grown == AddConnection(list, c, fd, thread)
           to    == [k \in 0 .. n + 1 |-> IF k < n THEN at[k] ELSE IF k = n THEN c ELSE NULL]
<1>1. /\ n \in Nat /\ at[0] = list.m_head /\ at[n] = NULL
      /\ at = [k \in 0 .. n |-> at[k]]
      /\ \A k \in 0 .. n - 1 :
           at[k] \in DOMAIN list.item /\ at[k + 1] = list.item[at[k]].m_nextConnectionPtr
      /\ \A j, k \in 0 .. n - 1 : at[j] = at[k] => j = k
      /\ \A x \in DOMAIN list.item : \E k \in 0 .. n - 1 : at[k] = x
      /\ NULL \notin DOMAIN list.item
  BY DEF Linked
<1>1a. ASSUME NEW k \in 0 .. n - 1
       PROVE  at[k] \in DOMAIN list.item /\ at[k] # c /\ at[k] # NULL
  <2>1. at[k] \in DOMAIN list.item
    BY <1>1
  <2> QED BY <1>1, <2>1
<1>2. IsFiniteSet(DOMAIN list.item) /\ n = Cardinality(DOMAIN list.item)
  BY DEF Linked
<1>3. GoodList(list)
  BY DEF Linked
<1>4. /\ GoodList(grown) /\ DOMAIN grown.item = DOMAIN list.item \cup {c}
  BY <1>3, AddKeepsDescriptors
<1>5. IsFiniteSet(DOMAIN grown.item) /\ Cardinality(DOMAIN grown.item) = n + 1
  BY <1>2, <1>4, FS_AddElement
<1>6. IF n = 0 THEN end = NULL ELSE end = at[n - 1]
  <2>1. CASE n = 0
    BY <1>1, <2>1 DEF FindEnd_nolock
  <2>2. CASE n # 0
    <3>1. n - 1 \in 0 .. n - 1 /\ 0 \in 0 .. n - 1
      BY <1>1, <2>2
    <3>2. list.m_head # NULL
      BY <1>1, <3>1
    <3>3. DOMAIN at = 0 .. n
      BY <1>1
    <3>4. {k \in DOMAIN at : at[k] # NULL} = 0 .. n - 1
      <4>1. \A k \in 0 .. n : at[k] # NULL <=> k \in 0 .. n - 1
        <5> SUFFICES ASSUME NEW k \in 0 .. n PROVE at[k] # NULL <=> k \in 0 .. n - 1
          OBVIOUS
        <5>1. k = n \/ k \in 0 .. n - 1
          BY <1>1
        <5>2. n \notin 0 .. n - 1
          BY <1>1
        <5> QED BY <1>1, <5>1, <5>2
      <4>2. 0 .. n - 1 \subseteq 0 .. n
        BY <1>1
      <4> QED BY <3>3, <4>1, <4>2
    <3>5. Max(0 .. n - 1) = n - 1
      <4>1. \E x \in 0 .. n - 1 : \A y \in 0 .. n - 1 : x >= y
        <5>1. \A y \in 0 .. n - 1 : n - 1 >= y
          BY <1>1
        <5> QED BY <3>1, <5>1
      <4>2. Max(0 .. n - 1) \in 0 .. n - 1 /\ \A y \in 0 .. n - 1 : Max(0 .. n - 1) >= y
        BY <4>1 DEF Max
      <4>3. Max(0 .. n - 1) >= n - 1
        BY <3>1, <4>2
      <4> QED BY <1>1, <4>2, <4>3
    <3>6. Walk(list) = at
      BY WalkValue
    <3> QED BY <2>2, <3>2, <3>4, <3>5, <3>6 DEF FindEnd_nolock
  <2> QED BY <2>1, <2>2
<1>7. /\ DOMAIN added = DOMAIN list.item \cup {c}
      /\ added[c].m_nextConnectionPtr = NULL
      /\ \A x \in DOMAIN list.item : added[x] = list.item[x] /\ DOMAIN added[x] = ItemFields
  BY <1>3 DEF GoodList
<1>8. grown = IF end = NULL THEN [m_head |-> c, item |-> added]
              ELSE [list EXCEPT !.item = [added EXCEPT ![end].m_nextConnectionPtr = c]]
  BY DEF AddConnection
<1> HIDE DEF end, new, added, grown
<1>9. /\ grown.m_head = to[0]
      /\ grown.item[c].m_nextConnectionPtr = NULL
      /\ n > 0 => grown.item[at[n - 1]].m_nextConnectionPtr = c
      /\ \A k \in 0 .. n - 2 :
           grown.item[at[k]].m_nextConnectionPtr = list.item[at[k]].m_nextConnectionPtr
  <2>1. CASE n = 0
    <3>1. grown = [m_head |-> c, item |-> added] /\ to[0] = c
      BY <1>6, <1>8, <2>1
    <3>2. 0 .. n - 2 = {}
      BY <2>1
    <3> QED BY <1>7, <2>1, <3>1, <3>2
  <2>2. CASE n # 0
    <3>1. n - 1 \in 0 .. n - 1 /\ 0 < n /\ 0 \in 0 .. n + 1
      BY <1>1, <2>2
    <3>2. end = at[n - 1] /\ end \in DOMAIN list.item /\ end # NULL /\ end # c
      BY <1>1a, <1>6, <2>2, <3>1
    <3>3. grown = [list EXCEPT !.item = [added EXCEPT ![end].m_nextConnectionPtr = c]]
      BY <1>8, <3>2
    <3>4. grown.m_head = list.m_head /\ to[0] = at[0]
      BY <1>3, <3>1, <3>3 DEF GoodList
    <3>5. grown.item = [added EXCEPT ![end].m_nextConnectionPtr = c]
      BY <1>3, <3>3 DEF GoodList
    <3>6. grown.item[end].m_nextConnectionPtr = c
      BY <1>7, <3>2, <3>5 DEF ItemFields
    <3>7. grown.item[c] = added[c]
      BY <1>7, <3>2, <3>5
    <3>8. ASSUME NEW k \in 0 .. n - 2
          PROVE  grown.item[at[k]].m_nextConnectionPtr = list.item[at[k]].m_nextConnectionPtr
      <4>1. k \in 0 .. n - 1 /\ k # n - 1
        BY <1>1
      <4>2. at[k] \in DOMAIN list.item /\ at[k] # end
        BY <1>1, <3>1, <3>2, <4>1
      <4> QED BY <1>7, <3>5, <4>2
    <3> QED BY <1>1, <1>7, <3>2, <3>4, <3>6, <3>7, <3>8
  <2> QED BY <2>1, <2>2
<1>10. /\ n + 1 \in Nat /\ to[n + 1] = NULL /\ to[n] = c
       /\ \A k \in 0 .. n - 1 : to[k] = at[k]
       /\ to = [k \in 0 .. n + 1 |-> to[k]]
  BY <1>1
<1> HIDE DEF to
<1>11. ASSUME NEW k \in 0 .. (n + 1) - 1
       PROVE  /\ to[k] \in DOMAIN grown.item
              /\ to[k + 1] = grown.item[to[k]].m_nextConnectionPtr
  <2>1. CASE k = n
    BY <1>4, <1>9, <1>10, <2>1
  <2>2. CASE k # n
    <3>1. k \in 0 .. n - 1 /\ (k = n - 1 \/ k \in 0 .. n - 2)
      BY <1>1, <2>2
    <3>2. to[k] = at[k] /\ to[k] \in DOMAIN grown.item
      BY <1>1, <1>4, <1>10, <3>1
    <3>3. CASE k = n - 1
      <4>1. k + 1 = n /\ n > 0
        BY <1>1, <3>1, <3>3
      <4> QED BY <1>9, <1>10, <3>2, <3>3, <4>1
    <3>4. CASE k \in 0 .. n - 2
      <4>1. k + 1 \in 0 .. n - 1
        BY <1>1, <3>4
      <4>2. to[k + 1] = at[k + 1]
        BY <1>10, <4>1
      <4>3. at[k + 1] = list.item[at[k]].m_nextConnectionPtr
        BY <1>1, <3>1
      <4> QED BY <1>9, <3>2, <3>4, <4>2, <4>3
    <3> QED BY <3>1, <3>2, <3>3, <3>4
  <2> QED BY <2>1, <2>2
<1>12. ASSUME NEW j \in 0 .. (n + 1) - 1, NEW k \in 0 .. (n + 1) - 1, to[j] = to[k]
       PROVE  j = k
  <2>1. /\ j = n \/ j \in 0 .. n - 1
        /\ k = n \/ k \in 0 .. n - 1
    BY <1>1
  <2>2. \A i \in 0 .. n - 1 : to[i] = at[i] /\ at[i] # c
    BY <1>1a, <1>10
  <2>3. CASE j = n /\ k = n
    BY <2>3
  <2>4. CASE j \in 0 .. n - 1 /\ k \in 0 .. n - 1
    <3>1. at[j] = at[k]
      BY <1>12, <2>2, <2>4
    <3> QED BY <1>1, <2>4, <3>1
  <2>5. CASE j = n /\ k \in 0 .. n - 1
    BY <1>10, <1>12, <2>2, <2>5
  <2>6. CASE k = n /\ j \in 0 .. n - 1
    BY <1>10, <1>12, <2>2, <2>6
  <2> QED BY <2>1, <2>3, <2>4, <2>5, <2>6
<1>13. ASSUME NEW x \in DOMAIN grown.item PROVE \E k \in 0 .. (n + 1) - 1 : to[k] = x
  <2>1. n \in 0 .. (n + 1) - 1 /\ 0 .. n - 1 \subseteq 0 .. (n + 1) - 1
    BY <1>1
  <2>2. CASE x = c
    BY <1>10, <2>1, <2>2
  <2>3. CASE x \in DOMAIN list.item
    <3>1. PICK k \in 0 .. n - 1 : at[k] = x
      BY <1>1, <2>3
    <3> QED BY <1>10, <2>1, <3>1
  <2> QED BY <1>4, <2>2, <2>3
<1>14. Linked(grown, n + 1, to)
  BY <1>1, <1>4, <1>5, <1>9, <1>10, <1>11, <1>12, <1>13 DEF Linked
<1> QED BY <1>14 DEF grown

(* CloseConnection by the descriptor of the first item takes out that item *)
(* and no other, although later items may carry the same descriptor.       *)
LEMMA CloseFirst ==
  ASSUME NEW list, NEW n, NEW at, Linked(list, n, at), list.m_head # NULL
  PROVE  LET head   == list.m_head
             closed == CloseConnection(list, list.item[head].m_connectionFD) IN
         /\ head \in DOMAIN list.item
         /\ closed.locked = FALSE
         /\ closed.list.m_head = list.item[head].m_nextConnectionPtr
         /\ DOMAIN closed.list.item = DOMAIN list.item \ {head}
         /\ \E m, to : Linked(closed.list, m, to)
<1> DEFINE head  == list.m_head
           fd    == list.item[head].m_connectionFD
           found == FindConnection_nolock(list, fd)
           left  == Unlink(list, found)
           to    == [k \in 0 .. n - 1 |-> at[k + 1]]
<1>1. /\ n \in Nat /\ at[0] = head /\ at[n] = NULL
      /\ at = [k \in 0 .. n |-> at[k]]
      /\ \A k \in 0 .. n - 1 :
           at[k] \in DOMAIN list.item /\ at[k + 1] = list.item[at[k]].m_nextConnectionPtr
      /\ \A j, k \in 0 .. n - 1 : at[j] = at[k] => j = k
      /\ \A x \in DOMAIN list.item : \E k \in 0 .. n - 1 : at[k] = x
      /\ NULL \notin DOMAIN list.item
      /\ GoodList(list)
      /\ IsFiniteSet(DOMAIN list.item) /\ n = Cardinality(DOMAIN list.item)
  BY DEF Linked
<1>2. n # 0 /\ n - 1 \in Nat /\ 0 \in 0 .. n - 1 /\ 0 \in 0 .. n
  BY <1>1
<1>3. head \in DOMAIN list.item /\ DOMAIN at = 0 .. n /\ head # NULL
  BY <1>1, <1>2
<1>4. Walk(list) = at
  BY WalkValue
<1>5. 0 \in Matches(list, fd)
  BY <1>1, <1>2, <1>3, <1>4 DEF Matches
<1>6. Min(Matches(list, fd)) = 0
  <2>1. Matches(list, fd) \subseteq 0 .. n
    BY <1>3, <1>4 DEF Matches
  <2>2. Matches(list, fd) \subseteq Nat
    BY <1>1, <2>1
  <2>3. /\ Min(Matches(list, fd)) \in Matches(list, fd)
        /\ Min(Matches(list, fd)) <= 0
    <3>1. Matches(list, fd) # {}
      BY <1>5
    <3> QED BY <1>5, <2>2, <3>1, MinIsIn
  <2> QED BY <2>2, <2>3
<1>7. found.item = head /\ found.before = NULL
  BY <1>1, <1>4, <1>6 DEF FindConnection_nolock
<1>8. CloseConnection(list, fd) = [status |-> 0, locked |-> FALSE, list |-> left]
  <2>1. Matches(list, fd) # {} /\ list.m_head # NULL
    BY <1>5
  <2> QED BY <2>1 DEF CloseConnection
<1> HIDE DEF found
<1>9. left = [[list EXCEPT !.m_head = list.item[head].m_nextConnectionPtr]
                EXCEPT !.item = Restrict(@, DOMAIN @ \ {head})]
  BY <1>7 DEF Unlink
<1>10. /\ DOMAIN left = {"m_head", "item"}
       /\ left.m_head = list.item[head].m_nextConnectionPtr
       /\ left.item = [x \in DOMAIN list.item \ {head} |-> list.item[x]]
  BY <1>1, <1>9 DEF GoodList, Restrict
<1> HIDE DEF left, head, fd
<1>11. GoodList(left)
  BY <1>1, <1>10 DEF GoodList
<1>12. IsFiniteSet(DOMAIN left.item) /\ Cardinality(DOMAIN left.item) = n - 1
  <2>1. DOMAIN left.item = DOMAIN list.item \ {head}
    BY <1>10
  <2> QED BY <1>1, <1>3, <2>1, FS_RemoveElement
<1>13. /\ to = [k \in 0 .. n - 1 |-> to[k]]
       /\ \A k \in 0 .. n - 1 : to[k] = at[k + 1]
  OBVIOUS
<1> HIDE DEF to
<1>14. to[0] = left.m_head /\ to[n - 1] = NULL
  <2>1. at[0 + 1] = list.item[at[0]].m_nextConnectionPtr
    BY <1>1, <1>2
  <2>2. n - 1 \in 0 .. n - 1 /\ (n - 1) + 1 = n
    BY <1>1, <1>2
  <2>3. to[0] = at[0 + 1] /\ to[n - 1] = at[(n - 1) + 1]
    BY <1>1, <1>2, <1>13, <2>2
  <2> QED BY <1>1, <1>2, <1>10, <2>1, <2>2, <2>3
<1>15. ASSUME NEW k \in 0 .. (n - 1) - 1
       PROVE  /\ to[k] \in DOMAIN left.item
              /\ to[k + 1] = left.item[to[k]].m_nextConnectionPtr
  <2>1. k \in 0 .. n - 1 /\ k + 1 \in 0 .. n - 1 /\ k + 1 # 0
    BY <1>1
  <2>2. at[k + 1] \in DOMAIN list.item
    BY <1>1, <2>1
  <2>3. at[k + 1] # head
    BY <1>1, <1>2, <2>1
  <2>4. at[(k + 1) + 1] = list.item[at[k + 1]].m_nextConnectionPtr
    BY <1>1, <2>1
  <2> QED BY <1>10, <1>13, <2>1, <2>2, <2>3, <2>4
<1>16. ASSUME NEW j \in 0 .. (n - 1) - 1, NEW k \in 0 .. (n - 1) - 1, to[j] = to[k]
       PROVE  j = k
  <2>1. /\ j \in 0 .. n - 1 /\ j + 1 \in 0 .. n - 1
        /\ k \in 0 .. n - 1 /\ k + 1 \in 0 .. n - 1
    BY <1>1
  <2>2. at[j + 1] = at[k + 1]
    BY <1>13, <1>16, <2>1
  <2>3. j + 1 = k + 1
    BY <1>1, <2>1, <2>2
  <2> QED BY <2>3
<1>17. ASSUME NEW x \in DOMAIN left.item PROVE \E k \in 0 .. (n - 1) - 1 : to[k] = x
  <2>1. x \in DOMAIN list.item /\ x # head
    BY <1>10
  <2>2. PICK k \in 0 .. n - 1 : at[k] = x
    BY <1>1, <2>1
  <2>3. k # 0
    BY <1>1, <2>1, <2>2
  <2>4. k - 1 \in 0 .. (n - 1) - 1 /\ k - 1 \in 0 .. n - 1 /\ (k - 1) + 1 = k
    BY <1>1, <2>3
  <2>5. to[k - 1] = x
    BY <1>13, <2>2, <2>4
  <2> QED BY <2>4, <2>5
<1>18. NULL \notin DOMAIN left.item
  BY <1>1, <1>10
<1>19. Linked(left, n - 1, to)
  BY <1>2, <1>11, <1>12, <1>13, <1>14, <1>15, <1>16, <1>17, <1>18 DEF Linked
<1> QED BY <1>3, <1>8, <1>10, <1>19 DEF head, fd

(* What pthread_create returns is noted in an item and moves none.         *)
LEMMA ThreadNoted ==
  ASSUME NEW list, NEW n, NEW at, Linked(list, n, at), NEW c \in DOMAIN list.item, NEW code
  PROVE  Linked([list EXCEPT !.item[c].m_thread = code], n, at)
<1> DEFINE noted == [list EXCEPT !.item[c].m_thread = code]
<1>1. GoodList(list)
  BY DEF Linked
<1>2. /\ GoodList(noted) /\ DOMAIN noted.item = DOMAIN list.item
      /\ noted.m_head = list.m_head
      /\ \A x \in DOMAIN list.item :
           noted.item[x].m_nextConnectionPtr = list.item[x].m_nextConnectionPtr
  BY <1>1 DEF GoodList, ItemFields
<1> HIDE DEF noted
<1>3. Linked(noted, n, at)
  BY <1>2 DEF Linked
<1> QED BY <1>3 DEF noted

(* The list holds all items there are; the destroy loop stands at its      *)
(* head; there are none before the receiver begins and after it has ended, *)
(* and main waits for that end.                                            *)
ListInv ==
  /\ \E n, at : Linked(connections, n, at)
  /\ DOMAIN connections.item \subseteq Conns
  /\ m_mutex = FALSE
  /\ next = IF receiver = "destroy" THEN connections.m_head ELSE NULL
  /\ receiver \in {"off", "done"} => DOMAIN connections.item = {}
  /\ main \in {"cleanup", "done"} => receiver \in {"off", "done"}

LEMMA InitList == Init => ListInv
<1> SUFFICES ASSUME Init PROVE ListInv
  OBVIOUS
<1>1. /\ GoodList(connections) /\ connections.m_head = NULL
      /\ DOMAIN connections.item = {}
  BY DEF Init, GoodList, InitConnectionList
<1>2. \E n, at : Linked(connections, n, at)
  BY <1>1, EmptyListLinked
<1> QED BY <1>1, <1>2 DEF Init, ListInv

(* The head of a list is its first item, or NULL if it has none.           *)
LEMMA HeadValue ==
  ASSUME NEW list, NEW n, NEW at, Linked(list, n, at)
  PROVE  /\ list.m_head \in DOMAIN list.item \cup {NULL}
         /\ list.m_head = NULL => DOMAIN list.item = {}
<1>1. n \in Nat /\ at[0] = list.m_head /\ at[n] = NULL
  BY DEF Linked
<1>2. CASE n = 0
  <2>1. \A x \in DOMAIN list.item : \E k \in 0 .. n - 1 : at[k] = x
    BY DEF Linked
  <2>2. 0 .. n - 1 = {}
    BY <1>2
  <2> QED BY <1>1, <1>2, <2>1, <2>2
<1>3. CASE n # 0
  <2>1. 0 \in 0 .. n - 1
    BY <1>1, <1>3
  <2>2. at[0] \in DOMAIN list.item /\ NULL \notin DOMAIN list.item
    BY <2>1 DEF Linked
  <2> QED BY <1>1, <2>2
<1> QED BY <1>2, <1>3

LEMMA AcceptKeepsList ==
  ASSUME ServerInv, ListInv, Accept
  PROVE  ListInv'
<1>0. PICK c : c = Head(backlog)
  OBVIOUS
<1>1. PICK fd \in ConnFDs, code \in {0, EAGAIN} :
        connections' = [AddConnection(connections, c, fd, 0) EXCEPT !.item[c].m_thread = code]
  BY <1>0 DEF Accept
<1>2. /\ receiver = "accept" /\ receiver' = "loop" /\ backlog # <<>>
      /\ UNCHANGED <<m_mutex, next, main>>
  BY DEF Accept, ReceiverGoto, mainVars, signalVars
<1>3. fd \in ConnFDs
  BY <1>1
<1>4. c \in Conns /\ c \notin DOMAIN connections.item /\ c # NULL
  <2>1. backlog \in Seq(Conns) /\ c = backlog[1] /\ 1 \in DOMAIN backlog
    BY <1>0, <1>2 DEF ServerInv, BacklogInv
  <2> QED BY <2>1, ServerAssumption DEF ServerInv, BacklogInv
<1>5. PICK n, at : Linked(connections, n, at)
  BY DEF ListInv
<1>6. PICK grown : grown = AddConnection(connections, c, fd, 0)
  OBVIOUS
<1>7. PICK m, to : Linked(grown, m, to)
  BY <1>3, <1>4, <1>5, <1>6, AddLinks
<1>8. DOMAIN grown.item = DOMAIN connections.item \cup {c}
  BY <1>3, <1>4, <1>6, AddKeepsDescriptors DEF ServerInv, DescriptorTypes
<1>9. connections' = [grown EXCEPT !.item[c].m_thread = code]
  BY <1>1, <1>6
<1>10. Linked(connections', m, to)
  BY <1>7, <1>8, <1>9, ThreadNoted
<1>11. DOMAIN connections'.item = DOMAIN grown.item
  BY <1>7, <1>9 DEF Linked, GoodList
<1> QED BY <1>2, <1>4, <1>8, <1>10, <1>11 DEF ListInv

LEMMA DestroyKeepsList ==
  ASSUME ServerInv, ListInv, DestroyConnectionList
  PROVE  ListInv'
<1>1. /\ receiver = "destroy" /\ receiver' = "destroy" /\ next # NULL
      /\ main' = main /\ next = connections.m_head
  BY DEF DestroyConnectionList, ReceiverGoto, mainVars, signalVars, ListInv
<1>2. PICK n, at : Linked(connections, n, at)
  BY DEF ListInv
<1>3. PICK closed : closed = CloseConnection(connections, connections.item[next].m_connectionFD)
  OBVIOUS
<1>4. /\ next' = connections.item[next].m_nextConnectionPtr
      /\ connections' = closed.list
      /\ m_mutex' = closed.locked
  BY <1>3 DEF DestroyConnectionList
<1>5. /\ closed.locked = FALSE
      /\ closed.list.m_head = connections.item[next].m_nextConnectionPtr
      /\ DOMAIN closed.list.item = DOMAIN connections.item \ {next}
      /\ \E m, to : Linked(closed.list, m, to)
  BY <1>1, <1>2, <1>3, CloseFirst
<1>6. main \notin {"cleanup", "done"}
  BY <1>1 DEF ListInv
<1> QED BY <1>1, <1>4, <1>5, <1>6 DEF ListInv

LEMMA NextKeepsList ==
  ASSUME ServerInv, ListInv, [Next]_vars
  PROVE  ListInv'
<1>1. CASE Accept
  BY <1>1, AcceptKeepsList
<1>2. CASE DestroyConnectionList
  BY <1>2, DestroyKeepsList
<1>3. CASE LaunchReceiver
  <2>1. /\ UNCHANGED <<connections, m_mutex, next>>
        /\ receiver = "off" /\ receiver' \in {"off", "init"} /\ main' = "its"
    BY <1>3 DEF LaunchReceiver, MainGoto, listVars, ServerInv, NotYetLaunched
  <2> QED BY <2>1 DEF ListInv
<1>4. CASE LoopTest \/ ReceiverEnds
  <2>1. /\ UNCHANGED <<connections, m_mutex, main>>
        /\ receiver \in {"loop", "destroy"} /\ receiver' \in {"epoll", "destroy", "done"}
        /\ receiver = "loop" => receiver' # "done"
        /\ receiver' = "destroy" => next' = connections.m_head
        /\ receiver' # "destroy" => next' = next
        /\ receiver = "destroy" => next = NULL /\ next' = NULL /\ receiver' = "done"
    BY <1>4 DEF LoopTest, ReceiverEnds, ReceiverGoto, mainVars, signalVars, listVars
  <2>2. receiver' = "done" => DOMAIN connections.item = {}
    BY <2>1, HeadValue DEF ListInv
  <2> QED BY <2>1, <2>2 DEF ListInv
<1>5. CASE MainStep /\ ~LaunchReceiver
  <2>1. UNCHANGED <<connections, m_mutex, next, receiver>>
    BY <1>5 DEF MainStep, Subscribe, Listen, InitITS, TestClosing, EnterWait,
                JoinReceiver, JoinNoThread, Exit, Cleanup, receiverVars, listVars
  <2>2. main' \in {"cleanup", "done"} => main = "cleanup" \/ receiver \in {"off", "done"}
    BY <1>5 DEF MainStep, Subscribe, Listen, InitITS, TestClosing, EnterWait,
                JoinReceiver, JoinNoThread, Exit, Cleanup, MainGoto
  <2> QED BY <2>1, <2>2 DEF ListInv
<1>6. CASE ClosingData \/ Register \/ EpollWait \/ Dispatch \/ AcceptFails
  <2>1. /\ UNCHANGED <<connections, m_mutex, next, main>>
        /\ receiver \notin {"off", "done", "destroy"}
        /\ receiver' \notin {"off", "done", "destroy"}
    BY <1>6 DEF ClosingData, Register, EpollWait, Dispatch, AcceptFails, ReceiverGoto,
                mainVars, signalVars, listVars
  <2> QED BY <2>1 DEF ListInv
<1>7. ASSUME NEW t \in SignalThreads, sigHandler(t) \/ SignalHangs(t) \/ BroadcastHangs
      PROVE  ListInv'
  <2>1. /\ UNCHANGED <<connections, m_mutex, next>>
        /\ receiver \in {"off", "done", "destroy"} => receiver' = receiver
        /\ receiver' \in {"off", "done", "destroy"} => receiver' = receiver
        /\ main' \in {"cleanup", "done"} => main' = main
    BY <1>7 DEF sigHandler, SignalHangs, BroadcastHangs, Interrupted, Broadcast, receiverVars, listVars
  <2> QED BY <2>1 DEF ListInv
<1>8. CASE StartFails \/ AddFaults \/ JoinFaults \/ UNCHANGED vars
  <2>1. UNCHANGED <<connections, m_mutex, next, main, receiver>>
    BY <1>8 DEF StartFails, AddFaults, JoinFaults, Exit, vars, mainVars, signalVars, receiverVars, listVars
  <2> QED BY <2>1 DEF ListInv
<1>9. ASSUME NEW c \in Conns,
             \/ ClientConnect(c) \/ HandlerBegin(c) \/ HandlerBeginFreed(c)
             \/ HandlerStep(c) \/ HandlerEnd(c)
      PROVE  ListInv'
  <2>1. UNCHANGED <<connections, m_mutex, next, main, receiver>>
    BY <1>9 DEF ClientConnect, HandlerBegin, HandlerBeginFreed, HandlerStep, HandlerEnd,
                mainVars, signalVars, receiverVars, listVars
  <2> QED BY <2>1 DEF ListInv
<1>10. BroadcastHangs => "main" \in SignalThreads
  BY DEF BroadcastHangs
<1> QED BY <1>1, <1>2, <1>3, <1>4, <1>5, <1>6, <1>7, <1>8, <1>9, <1>10 DEF Next, ReceiverStep

LEMMA ListInvImplies == ListInv => ListMatchesMemory /\ CleanExit
<1> SUFFICES ASSUME ListInv PROVE ListMatchesMemory /\ CleanExit
  OBVIOUS
<1>1. PICK n, at : Linked(connections, n, at)
  BY DEF ListInv
<1>2. Walk(connections) = at
  BY <1>1, WalkValue
<1>3. /\ n \in Nat /\ DOMAIN at = 0 .. n /\ at[n] = NULL
      /\ \A k \in 0 .. n - 1 : at[k] \in DOMAIN connections.item
      /\ \A x \in DOMAIN connections.item : \E k \in 0 .. n - 1 : at[k] = x
  BY <1>1 DEF Linked
<1>4. Range(at) = DOMAIN connections.item \cup {NULL}
  <2>1. n \in 0 .. n /\ 0 .. n - 1 \subseteq 0 .. n /\ \A k \in 0 .. n : k = n \/ k \in 0 .. n - 1
    BY <1>3
  <2> QED BY <1>3, <2>1 DEF Range
<1>5. connections.m_head \in DOMAIN connections.item \cup {NULL}
  BY <1>1, HeadValue
<1> QED BY <1>2, <1>4, <1>5 DEF ListInv, ListMatchesMemory, CleanExit

(* The list reaches exactly the items that are allocated, although the     *)
(* same descriptor may stand in several of them, the shutdown never        *)
(* touches freed memory nor keeps m_mutex, and when main returns the       *)
(* receiver has ended and has freed every item.                            *)
THEOREM ListCorrect == Spec => [](ListMatchesMemory /\ CleanExit)
<1>1. ServerInv /\ ListInv /\ [Next]_vars => ServerInv' /\ ListInv'
  BY NextKeeps, StutterKeeps, NextKeepsList
<1>2. ListInv => ListMatchesMemory /\ CleanExit
  BY ListInvImplies
<1> QED BY <1>1, <1>2, InitInv, InitList, PTL DEF Spec

-----------------------------------------------------------------------------
(* What epoll hands back of an event is what was in interthreadSocketFD    *)
(* when the receiver filled in the event.                                  *)
EventTypes ==
  /\ fileMutex \in Conns \cup {NoConn}
  /\ {closeRequested, exited, syslogLocked} \subseteq BOOLEAN
  /\ hung \subseteq {"main", "receiver"}
  /\ interthreadSocketFD \in {STDIN, ITS}
  /\ epoll = NULL \/ epoll \subseteq {STDIN, SOCKET, ITS}
  /\ closingEvent \in {NULL, STDIN, ITS}
  /\ event \in {NULL, STDIN, SOCKET, ITS}

LEMMA NextKeepsEvents ==
  ASSUME ServerInv, EventTypes, [Next]_vars
  PROVE  EventTypes'
<1>1. CASE MainStep \/ StartFails \/ AddFaults \/ JoinFaults
  BY <1>1 DEF MainStep, Subscribe, Listen, LaunchReceiver, InitITS, TestClosing,
              EnterWait, JoinReceiver, JoinNoThread, Cleanup, StartFails, AddFaults, JoinFaults, Exit,
              handlerVars, mainVars, signalVars, receiverVars, listVars, EventTypes, MainGoto
<1>2. CASE ClosingData \/ Register
  BY <1>2 DEF ClosingData, Register, handlerVars, mainVars, signalVars, EventTypes
<1>3. CASE EpollWait
  <2>1. UNCHANGED <<handlerVars, mainVars, epoll, closingEvent>>
    BY <1>3 DEF EpollWait
  <2>2. event' \in Ready \/ event' = event
    BY <1>3 DEF EpollWait
  <2>3. event' \in {NULL, STDIN, SOCKET, ITS}
    BY <2>2 DEF Ready, EventTypes
  <2> QED BY <2>1, <2>3 DEF handlerVars, mainVars, signalVars, EventTypes
<1>4. CASE LoopTest \/ Dispatch \/ AcceptFails \/ DestroyConnectionList \/ ReceiverEnds
  BY <1>4 DEF LoopTest, Dispatch, AcceptFails, DestroyConnectionList, ReceiverEnds,
              handlerVars, mainVars, signalVars, EventTypes
<1>5. CASE Accept
  <2>1. UNCHANGED <<fileMutex, exited, mainVars, epoll, closingEvent, event>>
    BY <1>5 DEF Accept, handlerVars, H!Create
  <2> QED BY <2>1 DEF mainVars, signalVars, EventTypes
<1>6. ASSUME NEW t \in SignalThreads, sigHandler(t) PROVE EventTypes'
  BY <1>6 DEF sigHandler, handlerVars, EventTypes
<1>10. ASSUME NEW t \in SignalThreads, SignalHangs(t) \/ BroadcastHangs PROVE EventTypes'
  <2>1. /\ UNCHANGED <<fileMutex, exited, interthreadSocketFD, epoll, closingEvent, event>>
        /\ closeRequested' \in {closeRequested, TRUE} /\ syslogLocked' \in {syslogLocked, TRUE}
    BY <1>10 DEF SignalHangs, BroadcastHangs, handlerVars, receiverVars
  <2>2. hung' \subseteq {"main", "receiver"}
    <3>1. hung' \subseteq hung \cup ({t, "main"} \ {"handler"})
      BY <1>10 DEF SignalHangs, BroadcastHangs
    <3>2. hung \subseteq {"main", "receiver"} /\ t \in {"main", "receiver", "handler"}
      BY ServerAssumption DEF EventTypes
    <3> QED BY <3>1, <3>2
  <2>3. {closeRequested', exited', syslogLocked'} \subseteq BOOLEAN
    BY <2>1, Zenon DEF EventTypes
  <2> QED BY <2>1, <2>2, <2>3 DEF EventTypes
<1>11. BroadcastHangs => "main" \in SignalThreads
  BY DEF BroadcastHangs
<1>7. ASSUME NEW c \in Conns, ClientConnect(c) PROVE EventTypes'
  BY <1>7 DEF ClientConnect, handlerVars, mainVars, signalVars, receiverVars, listVars, EventTypes
<1>8. ASSUME NEW c \in Conns,
             HandlerBegin(c) \/ HandlerBeginFreed(c) \/ HandlerStep(c) \/ HandlerEnd(c)
      PROVE  EventTypes'
  <2>1. UNCHANGED <<mainVars, receiverVars>>
    BY <1>8 DEF HandlerBegin, HandlerBeginFreed, HandlerStep, HandlerEnd
  <2>2. fileMutex' \in {fileMutex, c, NoConn} /\ exited' \in {exited, TRUE}
    BY <1>8 DEF HandlerBegin, HandlerBeginFreed, HandlerStep, HandlerEnd,
                H!Begin, H!Lock, H!Unlock, H!Die, H!End
  <2> QED BY <2>1, <2>2 DEF mainVars, signalVars, receiverVars, listVars, EventTypes
<1>9. CASE UNCHANGED vars
  BY <1>9 DEF vars, handlerVars, mainVars, signalVars, receiverVars, listVars, EventTypes
<1> QED BY <1>1, <1>2, <1>3, <1>4, <1>5, <1>6, <1>7, <1>8, <1>9, <1>10, <1>11
        DEF Next, ReceiverStep

(* Every variable keeps its type: what the list passes on and closes are   *)
(* descriptors, and an event carries nothing but what was put into it,     *)
(* even if it is of an earlier round.                                      *)
THEOREM ServerTypes == Spec => []TypeOK
<1>1. Init => EventTypes
  <2> SUFFICES ASSUME Init PROVE EventTypes
    OBVIOUS
  <2>1. exited = FALSE /\ closeRequested = FALSE
    BY DEF Init, H!Init
  <2>2. {closeRequested, exited} \subseteq BOOLEAN
    BY <2>1, Zenon
  <2> QED BY <2>2 DEF Init, H!Init, EventTypes
<1>2. ServerInv /\ ListInv /\ EventTypes /\ [Next]_vars
        => ServerInv' /\ ListInv' /\ EventTypes'
  BY NextKeeps, StutterKeeps, NextKeepsList, NextKeepsEvents
<1>3. ServerInv /\ ListInv /\ EventTypes => TypeOK
  <2> SUFFICES ASSUME ServerInv, ListInv, EventTypes PROVE TypeOK
    OBVIOUS
  <2>1. m_mutex = FALSE /\ {closeRequested, exited} \subseteq BOOLEAN
    BY DEF ListInv, EventTypes
  <2>2. {closeRequested, exited, m_mutex} \subseteq BOOLEAN
    BY <2>1, Zenon
  <2> QED BY <2>2 DEF ServerInv, DescriptorTypes, GoodList, BacklogInv, ListInv, EventTypes, TypeOK
<1> QED BY <1>1, <1>2, <1>3, InitInv, InitList, PTL DEF Spec

=============================================================================
