--------------------------- MODULE CircularBuffer ---------------------------
(***************************************************************************)
(* The circular buffer of aesd-char-driver/aesd-circular-buffer.c as       *)
(* operators on one record: b.entry is the array of slots, b.in_offs,      *)
(* b.out_offs and b.full the fields of struct aesd_circular_buffer.  A     *)
(* slot is [buffptr, size]; buffptr is an opaque address or NULL.  Locking *)
(* is the caller's, so the module has no variables: CircularBufferSpec     *)
(* runs it on its own and CharDriver runs it under the driver's mutexes.   *)
(***************************************************************************)
EXTENDS Integers, FiniteSetsExt

CONSTANTS
  AESDCHAR_MAX_WRITE_OPERATIONS_SUPPORTED,  \* number of slots (10 in the code)
  NULL                                      \* the null pointer

(* The offsets are uint8_t and in_offs reaches the capacity before it is   *)
(* wrapped to 0, so the capacity itself must fit in a uint8_t.             *)
ASSUME CapacityAssumption ==
  AESDCHAR_MAX_WRITE_OPERATIONS_SUPPORTED \in 1 .. 255

Capacity == AESDCHAR_MAX_WRITE_OPERATIONS_SUPPORTED

Slots == 0 .. Capacity - 1

(* NULL is not the address of a slot, with whatever offset in its entry.   *)
ASSUME NullAssumption == NULL \notin [slot : Slots, offset : Nat]

(* What memset(0) leaves in a slot. *)
EmptyEntry == [buffptr |-> NULL, size |-> 0]

(* aesd_circular_buffer_init: the whole structure is zeroed. *)
aesd_circular_buffer_init ==
  [entry |-> [i \in Slots |-> EmptyEntry],
   in_offs |-> 0, out_offs |-> 0, full |-> FALSE]

(* The slot that get_entry_at_virtual_offset points at: voffset is         *)
(* truncated to uint8_t and counted from out_offs around the array.        *)
VirtualIndex(b, voffset) == (b.out_offs + (voffset % 256)) % Capacity

get_entry_at_virtual_offset(b, voffset) == b.entry[VirtualIndex(b, voffset)]

numEntries(b) == IF b.full THEN Capacity ELSE b.in_offs

(* Bytes held by the n oldest entries: the running total of every loop.    *)
SizeOfFirst(b, n) ==
  LET total[k \in Nat] ==
        IF k = 0 THEN 0
        ELSE total[k - 1] + get_entry_at_virtual_offset(b, k - 1).size
  IN total[n]

aesd_circular_buffer_get_size(b) == SizeOfFirst(b, numEntries(b))

(* Mutant: the entry itself is counted too. *)
FposCountsItself(b, entryOffset) ==
  IF entryOffset > numEntries(b) THEN -1 ELSE SizeOfFirst(b, entryOffset + 1)

(* Byte position of virtual entry entryOffset, or -1.  The test is '>', as *)
(* in the code: entryOffset = numEntries(b) is let through.                *)
aesd_circular_buffer_find_fpos_for_virtual_entry_offset(b, entryOffset) ==
  IF entryOffset > numEntries(b) THEN -1 ELSE SizeOfFirst(b, entryOffset)

aesd_circular_buffer_find_entry_at_position(b, pos) ==
  get_entry_at_virtual_offset(b, pos)

(* Mutant: the scan also stops where the total just reaches char_offset. *)
LookupStopsEarly(b, char_offset) ==
  LET passing == {n \in 1 .. Capacity : SizeOfFirst(b, n) >= char_offset}
      n == Min(passing)
  IN IF (b.in_offs = b.out_offs /\ ~b.full) \/ passing = {}
     THEN NULL
     ELSE [slot   |-> VirtualIndex(b, n - 1),
           offset |-> char_offset - SizeOfFirst(b, n - 1)]

(* The slot that holds byte char_offset and the offset in it, or NULL.     *)
(* The loop scans all the slots, used or not, and stops at the first where *)
(* the running total passes char_offset.                                   *)
aesd_circular_buffer_find_entry_offset_for_fpos(b, char_offset) ==
  LET passing == {n \in 1 .. Capacity : SizeOfFirst(b, n) > char_offset}
      n == Min(passing)
  IN IF (b.in_offs = b.out_offs /\ ~b.full) \/ passing = {}
     THEN NULL
     ELSE [slot   |-> VirtualIndex(b, n - 1),
           offset |-> char_offset - SizeOfFirst(b, n - 1)]

(* Mutant: in_offs runs past the end of the array. *)
NextInNoWrap(b) == b.in_offs + 1

(* in_offs after one more entry. *)
NextIn(b) == IF b.in_offs + 1 = Capacity THEN 0 ELSE b.in_offs + 1

(* The pointer add_entry returns: whatever the slot held before. *)
ReplacedPtr(b) == b.entry[b.in_offs].buffptr

(* Mutant: out_offs is not moved when the buffer was already full. *)
AddEntryKeepsOut(b, e) ==
  [entry    |-> [b.entry EXCEPT ![b.in_offs] = e],
   in_offs  |-> NextIn(b),
   out_offs |-> b.out_offs,
   full     |-> b.full \/ NextIn(b) = b.out_offs]

(* Mutant: full is recomputed on every call. *)
AddEntryForgetsFull(b, e) ==
  [entry    |-> [b.entry EXCEPT ![b.in_offs] = e],
   in_offs  |-> NextIn(b),
   out_offs |-> IF b.full THEN NextIn(b) ELSE b.out_offs,
   full     |-> ~b.full /\ NextIn(b) = b.out_offs]

(* The buffer after aesd_circular_buffer_add_entry. *)
aesd_circular_buffer_add_entry(b, e) ==
  [entry    |-> [b.entry EXCEPT ![b.in_offs] = e],
   in_offs  |-> NextIn(b),
   out_offs |-> IF b.full THEN NextIn(b) ELSE b.out_offs,
   full     |-> b.full \/ NextIn(b) = b.out_offs]

-----------------------------------------------------------------------------
(* The abstract value of the buffer: its entries, oldest first. *)
Contents(b) ==
  [i \in 1 .. numEntries(b) |-> get_entry_at_virtual_offset(b, i - 1)]

(* Every pointer the buffer holds. *)
Pointers(b) == {b.entry[i].buffptr : i \in Slots} \ {NULL}

(* Buffers whose slots hold entries of E or are empty. *)
BufferType(E) ==
  [entry : [Slots -> E \cup {EmptyEntry}],
   in_offs : Slots, out_offs : Slots, full : BOOLEAN]

(* What the lookups rely on: until the buffer is full the entries are the  *)
(* slots below in_offs and every other slot is empty (the lookups scan     *)
(* those too); once full, the oldest entry is the next to be replaced.     *)
IndexInv(b) ==
  /\ b.full => b.out_offs = b.in_offs
  /\ ~b.full => /\ b.out_offs = 0
                /\ \A i \in Slots : i >= b.in_offs => b.entry[i] = EmptyEntry
=============================================================================
