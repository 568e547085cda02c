------------------------- MODULE MCHandlersOnDevice -------------------------
(***************************************************************************)
(* An instance of HandlersOnDevice for TLC.                                *)
(***************************************************************************)
EXTENDS HandlersOnDevice, TLC

ch == 1
nl == 0
TwoBytes   == {ch, nl}
Short      == <<nl>>
Long       == <<ch, nl>>
SeekSecond == [write_cmd |-> 1, write_cmd_offset |-> 0]
SeekTenth  == [write_cmd |-> 10, write_cmd_offset |-> 0]

SomeLines   == {Short, Long}
SomeSeeks   == {SeekSecond, SeekTenth}
SomePackets ==
  {<< <<"write", Long>>, <<"write", Short>> >>,
   << <<"seek", SeekSecond>> >>, << <<"seek", SeekTenth>>, <<"write", Short>> >>}
NoArgs      == {}

Symmetry == Permutations(Procs) \cup Permutations(Blocks)
=============================================================================
