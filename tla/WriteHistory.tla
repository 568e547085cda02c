---------------------------- MODULE WriteHistory ----------------------------
(***************************************************************************)
(* What aesd-circular-buffer.h promises: "memory allocated for the most    *)
(* recent write operations".  The state is the sequence of the latest      *)
(* Limit entries, oldest first, and the pointer the last addition handed   *)
(* back to its caller to be freed (NULL when nothing was displaced).       *)
(***************************************************************************)
EXTENDS Naturals, Sequences

CONSTANTS Limit, Entry, NoPtr

VARIABLES log, handedBack

Init == log = <<>> /\ handedBack = NoPtr

(* A full history forgets its oldest entry and hands its memory back. *)
Add(e) ==
  \/ /\ Len(log) < Limit
     /\ log' = Append(log, e)
     /\ handedBack' = NoPtr
  \/ /\ Len(log) = Limit
     /\ log' = Append(Tail(log), e)
     /\ handedBack' = Head(log).buffptr

Next == \E e \in Entry : Add(e)

Spec == Init /\ [][Next]_<<log, handedBack>>
=============================================================================
