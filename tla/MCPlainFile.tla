------------------------------ MODULE MCPlainFile ------------------------------
(***************************************************************************)
(* An instance of PlainFile for TLC: nothing but a part of a line, a line  *)
(* and a longer one, a seek command and a line.                            *)
(***************************************************************************)
EXTENDS PlainFile

SomePackets == {<<>>, <<1, 2>>, <<0, 1>>}
=============================================================================
