-------------------------- MODULE MCCircularBuffer --------------------------
(***************************************************************************)
(* Model-checking instance of the circular buffer, with the reference      *)
(* definitions its lookups are compared with: the stored bytes laid end to *)
(* end, as the comment of find_entry_offset_for_fpos describes them.       *)
(***************************************************************************)
EXTENDS CircularBufferSpec, SequencesExt

(* Byte j of the memory at ptr. *)
BytesOf(e) == [j \in 1 .. e.size |-> <<e.buffptr, j - 1>>]

Bytes(entries) ==
  FlattenSeq([i \in 1 .. Len(entries) |-> BytesOf(entries[i])])

(* aesd_circular_buffer_find_entry_offset_for_fpos finds byte char_offset  *)
(* of "all buffer strings ... concatenated end to end", and NULL exactly   *)
(* when there is no such byte.                                             *)
LookupFindsByte ==
  LET all == Bytes(Contents(buf))
      find(o) == aesd_circular_buffer_find_entry_offset_for_fpos(buf, o)
  IN \A o \in 0 .. Len(all) + 1 :
       IF o < Len(all)
       THEN /\ find(o) # NULL
            /\ <<buf.entry[find(o).slot].buffptr, find(o).offset>> = all[o + 1]
       ELSE find(o) = NULL

(* For every entry the buffer holds, find_fpos_for_virtual_entry_offset    *)
(* returns the position of its first byte, and that position looked up     *)
(* again is offset 0 of the same entry: a seek to a write lands on it.     *)
SeekFindsEntry ==
  LET all == Bytes(Contents(buf))
      fpos(k) == aesd_circular_buffer_find_fpos_for_virtual_entry_offset(buf, k)
  IN /\ aesd_circular_buffer_get_size(buf) = Len(all)
     /\ \A k \in 0 .. numEntries(buf) - 1 :
          aesd_circular_buffer_find_entry_offset_for_fpos(buf, fpos(k))
            = [slot |-> VirtualIndex(buf, k), offset |-> 0]
=============================================================================
