---------------------------- MODULE MCCharDriver ----------------------------
(***************************************************************************)
(* Model-checking instances of the character device, and what aesd_ioctl.h *)
(* says of a seek.                                                         *)
(***************************************************************************)
EXTENDS CharDriver, TLC

(* Processes and blocks are interchangeable. *)
Symmetry == Permutations(Procs) \cup Permutations(Blocks)

ch == 1
nl == 0
TwoBytes == {ch, nl}

(* A part of a line, a whole line, several lines, lines and a part. *)
MixedPayloads == {<<ch>>, <<nl>>, <<nl, ch>>, <<ch, nl, nl>>}
ShortPayloads == {<<nl>>, <<ch, nl>>}
LineAndPart == {<<nl>>, <<nl, ch>>}
DoubleLine == {<<nl, nl>>}

NoArgs == {}

Seek(whence, off) == [whence |-> whence, off |-> off]
SomeSeeks ==
  {Seek("SEEK_SET", -1), Seek("SEEK_CUR", 0), Seek("SEEK_END", 0), Seek("SEEK_DATA", 0)}

SeekTo(cmd, off) == [write_cmd |-> cmd, write_cmd_offset |-> off]
MixedSeekTos == {SeekTo(0, 2), SeekTo(1, 1), SeekTo(2, 0)}

(* One of each is enough for the question whether calls return. *)
OneSeekTo == {SeekTo(0, 1)}

(* "The zero referenced offset within the write" (aesd_ioctl.h:31): an     *)
(* AESDCHAR_IOCSEEKTO that succeeds leaves the position on a byte of the   *)
(* write command it names.                                                 *)
SeekToLandsInWrite ==
  [][\A p \in Procs :
       pc[p] = "i_seek" /\ pc'[p] = "idle" /\ call'[p].ret = 0 =>
         /\ call[p].arg.write_cmd < Len(Lines)
         /\ call[p].arg.write_cmd_offset < Len(Lines[call[p].arg.write_cmd + 1])]_vars
=============================================================================
