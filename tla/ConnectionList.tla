---------------------------- MODULE ConnectionList ----------------------------
(***************************************************************************)
(* server/connectionlist.c: the singly linked list of connections, as      *)
(* operators on one record.  item maps the list items that are allocated   *)
(* to their fields; an address outside its domain is freed memory.         *)
(***************************************************************************)
EXTENDS Integers, FiniteSets, FiniteSetsExt, Functions

CONSTANT NULL

InitConnectionList == [m_head |-> NULL, item |-> <<>>]

(* The pointers met on the way through the list, and NULL behind its end. *)
Walk(list) ==
  LET at[k \in 0 .. Cardinality(DOMAIN list.item)] ==
        IF k = 0 THEN list.m_head
        ELSE IF at[k - 1] \in DOMAIN list.item
             THEN list.item[at[k - 1]].m_nextConnectionPtr ELSE NULL
  IN at

(* Where in the list an item with the descriptor stands. *)
Matches(list, connectionFD) ==
  {k \in DOMAIN Walk(list) :
     /\ Walk(list)[k] # NULL
     /\ list.item[Walk(list)[k]].m_connectionFD = connectionFD}

(* Mutant: the search runs on and finds the last match. *)
FindLastConnection(list, connectionFD) ==
  LET k == Max(Matches(list, connectionFD)) IN
  [item   |-> Walk(list)[k],
   before |-> IF k = 0 THEN NULL ELSE Walk(list)[k - 1]]

(* The first item with the descriptor and the one before it. *)
FindConnection_nolock(list, connectionFD) ==
  LET k == Min(Matches(list, connectionFD)) IN
  [item   |-> Walk(list)[k],
   before |-> IF k = 0 THEN NULL ELSE Walk(list)[k - 1]]

FindEnd_nolock(list) ==
  IF list.m_head = NULL THEN NULL
  ELSE Walk(list)[Max({k \in DOMAIN Walk(list) : Walk(list)[k] # NULL})]

(* newItemPtr is what malloc has returned. *)
AddConnection(list, newItemPtr, connectionFD, thread) ==
  LET end   == FindEnd_nolock(list)
      new   == [m_connectionFD |-> connectionFD, m_thread |-> thread,
                m_nextConnectionPtr |-> NULL]
      added == [x \in DOMAIN list.item \cup {newItemPtr} |->
                  IF x = newItemPtr THEN new ELSE list.item[x]]
  IN IF end = NULL THEN [m_head |-> newItemPtr, item |-> added]
     ELSE [list EXCEPT !.item = [added EXCEPT ![end].m_nextConnectionPtr = newItemPtr]]

(* The item is taken out of the list and freed. *)
Unlink(list, found) ==
  LET next == list.item[found.item].m_nextConnectionPtr
      cut  == IF found.before = NULL THEN [list EXCEPT !.m_head = next]
              ELSE [list EXCEPT !.item[found.before].m_nextConnectionPtr = next]
  IN [cut EXCEPT !.item = Restrict(@, DOMAIN @ \ {found.item})]

(* The three ways out of CloseConnection: status, the list afterwards, and *)
(* whether m_mutex is still held.  An empty list is left without unlocking. *)
CloseConnection(list, connectionFD) ==
  IF list.m_head = NULL THEN [status |-> 1, list |-> list, locked |-> TRUE]
  ELSE IF Matches(list, connectionFD) = {}
  THEN [status |-> -1, list |-> list, locked |-> FALSE]
  ELSE [status |-> 0, locked |-> FALSE,
        list |-> Unlink(list, FindConnection_nolock(list, connectionFD))]
=============================================================================
