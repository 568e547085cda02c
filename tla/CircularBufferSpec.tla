------------------------- MODULE CircularBufferSpec -------------------------
(***************************************************************************)
(* The circular buffer run by one caller that only ever adds entries whose *)
(* memory it owns, as the driver does: a pointer is either free in the     *)
(* caller's hands or in the buffer.                                        *)
(***************************************************************************)
EXTENDS CircularBuffer, Sequences

CONSTANTS
  Ptrs,     \* addresses the caller can hand over
  Sizes     \* sizes of the entries it adds

ASSUME EntryAssumption ==
  /\ NULL \notin Ptrs
  /\ Sizes \subseteq Nat

VARIABLES
  buf,      \* struct aesd_circular_buffer
  freed     \* what the last aesd_circular_buffer_add_entry returned

vars == <<buf, freed>>

Entries == [buffptr : Ptrs, size : Sizes]

Init == buf = aesd_circular_buffer_init /\ freed = NULL

Add(e) ==
  /\ e.buffptr \notin Pointers(buf)
  /\ buf' = aesd_circular_buffer_add_entry(buf, e)
  /\ freed' = ReplacedPtr(buf)

Next == \E e \in Entries : Add(e)

Spec == Init /\ [][Next]_vars

-----------------------------------------------------------------------------
(* The buffer has its C type: offsets inside the array, slots holding an   *)
(* entry the caller added or zeroes.                                       *)
TypeOK ==
  /\ buf \in BufferType(Entries)
  /\ freed \in Ptrs \cup {NULL}

(* With these types, the three index fields of the structure always agree  *)
(* on which slots are in use, through filling, the first overwrite and     *)
(* every later one (aesd_circular_buffer_add_entry updates full, in_offs   *)
(* and out_offs one by one).                                               *)
BufferInv == TypeOK /\ IndexInv(buf)

(* The ring with its three index fields implements the history of the most *)
(* recent writes, including the pointer handed back.                       *)
History == INSTANCE WriteHistory
             WITH Limit <- Capacity, Entry <- Entries, NoPtr <- NULL,
                  log <- Contents(buf), handedBack <- freed

RefinesHistory == History!Spec
=============================================================================
