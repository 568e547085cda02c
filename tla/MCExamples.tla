------------------------------ MODULE MCExamples ------------------------------
(***************************************************************************)
(* The two examples, side by side, for TLC.                                *)
(***************************************************************************)
EXTENDS Threading, SystemCalls

SomeWaits == {-1, 0, 2}

Init == ThreadInit /\ CallInit

Next ==
  \/ ThreadNext /\ UNCHANGED callVars
  \/ CallNext /\ UNCHANGED threadVars

Spec == Init /\ [][Next]_<<threadVars, callVars>> /\ ThreadFairness
=============================================================================
