------------------------------ MODULE LineLog -------------------------------
(***************************************************************************)
(* What the character device promises its writers, whatever the number of  *)
(* processes: bytes are staged in arrival order; a staged run of bytes     *)
(* that ends in a newline is committed as one entry; the device remembers  *)
(* the latest Limit entries and forgets the oldest first; nothing else     *)
(* ever changes what is stored, except unloading the module.               *)
(***************************************************************************)
EXTENDS Naturals, Sequences

CONSTANTS Limit, MaxBytes, Byte, Newline

VARIABLES lines, partial

Init == lines = <<>> /\ partial = <<>>

(* Some bytes are appended to the staged ones. *)
Store ==
  \E n \in 1 .. MaxBytes : \E chunk \in [1 .. n -> Byte] :
    /\ Len(partial) + n <= MaxBytes
    /\ partial' = partial \o chunk
    /\ UNCHANGED lines

(* The staged bytes, which end in a newline, become the newest entry. *)
Commit ==
  /\ partial # <<>>
  /\ partial[Len(partial)] = Newline
  /\ lines' = Append(IF Len(lines) = Limit THEN Tail(lines) ELSE lines, partial)
  /\ partial' = <<>>

(* The module is unloaded. *)
Forget == lines' = <<>> /\ partial' = <<>>

Next == Store \/ Commit \/ Forget

Spec == Init /\ [][Next]_<<lines, partial>>
=============================================================================
