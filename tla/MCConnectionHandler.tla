------------------------ MODULE MCConnectionHandler ------------------------
(***************************************************************************)
(* Instances of ConnectionHandler for TLC.                                 *)
(***************************************************************************)
EXTENDS ConnectionHandler

CONSTANTS ch, num, open, nl, c1

(* A line, a seek to the second line, which does not exist at first, then  *)
(* is just behind the last one, then there, and such a seek without its    *)
(* last number.                                                            *)
SeekSecond == [write_cmd |-> 1, write_cmd_offset |-> 0]
SomeSeeks  == {SeekSecond}

(* "AESDCHAR_IOCSEEKTO:1," is completed by a number, 0. *)
WithNumber == [p \in OpenSeeks \X Byte |-> IF p[2] = num THEN SeekSecond ELSE NULL]
NeverDone  == [p \in OpenSeeks \X Byte |-> NULL]
Mixed      == {<<num, nl>>, <<SeekSecond, nl>>, <<open, nl>>}

(* No seek commands; parts of lines and lines. *)
NoSeeks == {}
Parts   == {<<ch>>, <<nl>>, <<ch, nl>>}

(* The first client sends all this, the other one an empty line. *)
MixedPackets == [c \in Conns |-> IF c = c1 THEN Mixed ELSE {<<nl>>}]
PartPackets  == [c \in Conns |-> Parts]
Unequal      == [c \in Conns |-> IF c = c1 THEN 4 ELSE 1]
=============================================================================
