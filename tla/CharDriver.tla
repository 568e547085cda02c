----------------------------- MODULE CharDriver -----------------------------
(***************************************************************************)
(* The character device of aesd-char-driver/main.c, called by several      *)
(* processes at once.  Each process has one open file at a time; pc[p] is  *)
(* where its call into the driver stands ("idle": open and in user space). *)
(* A call is split into steps wherever another process can get in between: *)
(* at each mutex, at each access to lseekPos (aesd_release writes it       *)
(* without a mutex), and, so that the mutexes have something to protect,   *)
(* between the lookup and the copy of a read and between the insertion and *)
(* the release of memory in FlushPartial.                                  *)
(***************************************************************************)
EXTENDS CircularBuffer, SequencesExt

CONSTANTS
  Procs,             \* processes, one open file each
  NoProc,            \* the holder of a free mutex
  Blocks,            \* addresses kmalloc can return
  Byte, Newline,     \* byte values, and '\n'
  KMALLOC_MAX_SIZE,  \* size of a staging buffer
  WordMod,           \* 2^w: size_t counts modulo WordMod, loff_t is its signed twin
  Payloads,          \* what user space writes
  ReadCounts,        \* sizes of the buffers it reads into
  SeekArgs,          \* [whence, off] it passes to llseek
  IoctlArgs,         \* [write_cmd, write_cmd_offset] it passes to ioctl
  Signals            \* whether signals reach a process waiting for a mutex

Whences == {"SEEK_SET", "SEEK_CUR", "SEEK_END", "SEEK_DATA"}

ASSUME DriverAssumption ==
  /\ NoProc \notin Procs
  /\ NULL \notin Blocks
  /\ Newline \in Byte
  /\ KMALLOC_MAX_SIZE \in Nat \ {0}
  /\ WordMod \in Nat \ {0}
  /\ \A data \in Payloads : data \in Seq(Byte)
  /\ ReadCounts \subseteq Nat
  /\ \A a \in SeekArgs : a.whence \in Whences /\ a.off \in Int
  /\ \A a \in IoctlArgs : a.write_cmd \in Nat /\ a.write_cmd_offset \in Nat
  /\ Signals \in BOOLEAN

ENOMEM      == 12
EFAULT      == 14
EINVAL      == 22
ENOTTY      == 25
ERESTARTSYS == 512

VARIABLES
  loaded,      \* the module is loaded
  buff,        \* dev->buff
  entry,       \* dev->entry, the staged partial entry
  lseekPos,    \* dev->lseekPos
  entryMutex,  \* holder of dev->entryMutex
  buffMutex,   \* holder of dev->buffMutex
  allocated,   \* blocks kmalloc handed out and kfree has not taken back
  mem,         \* the bytes written into each allocated block
  pc,          \* where each process stands
  f_pos,       \* filp->f_pos of its open file
  call         \* arguments and locals of its call, result of its last one

devVars  == <<loaded, buff, entry, lseekPos>>
lockVars == <<entryMutex, buffMutex>>
heapVars == <<allocated, mem>>
vars == <<devVars, lockVars, heapVars, pc, f_pos, call>>

(* The fields of call[p]. *)
NoCall ==
  [count     |-> 0,     \* count argument of a read or a write
   rest      |-> <<>>,  \* aesd_write: input not stored yet (buf + inputBaseIdx)
   arg       |-> NULL,  \* argument of an llseek or an ioctl
   freePtr   |-> NULL,  \* FlushPartial: memory displaced from the buffer
   actualPos |-> 0,     \* aesd_read: position in the stored bytes
   found     |-> NULL,  \* aesd_read: entryPtr and entryOffset
   seekPos   |-> 0,     \* aesd_llseek: lseekPos as SEEK_CUR read it
   ret       |-> 0,     \* the result
   out       |-> <<>>]  \* aesd_read: what copy_to_user delivered

(* The value of an integer stored in a loff_t. *)
ToLoff(n) ==
  IF n % WordMod >= WordMod \div 2 THEN (n % WordMod) - WordMod ELSE n % WordMod

(* dev->entry as initialised statically, and after the memset of the init. *)
StaticEntry == [buffPtr |-> NULL, size |-> KMALLOC_MAX_SIZE, endIdx |-> 0]
ZeroEntry   == [buffPtr |-> NULL, size |-> 0, endIdx |-> 0]

Init ==
  /\ loaded = FALSE
  /\ buff = aesd_circular_buffer_init
  /\ entry = StaticEntry
  /\ lseekPos = 0
  /\ entryMutex = NoProc /\ buffMutex = NoProc
  /\ allocated = {}
  /\ mem = [b \in Blocks |-> <<>>]
  /\ pc = [p \in Procs |-> "closed"]
  /\ f_pos = [p \in Procs |-> 0]
  /\ call = [p \in Procs |-> NoCall]

Goto(p, from, to) ==
  /\ pc[p] = from
  /\ pc' = [pc EXCEPT ![p] = to]

(* User space enters the driver with a fresh frame. *)
Enter(p, to, frame) ==
  /\ Goto(p, "idle", to)
  /\ call' = [call EXCEPT ![p] = frame]

(* The call returns ret; its frame is gone. *)
Return(p, from, ret) ==
  /\ Goto(p, from, "idle")
  /\ call' = [call EXCEPT ![p] = [NoCall EXCEPT !.ret = ret]]

(* kfree, which ignores NULL. *)
kfree(blocks) ==
  /\ allocated' = allocated \ blocks
  /\ mem' = [b \in Blocks |-> IF b \in blocks THEN <<>> ELSE mem[b]]

-----------------------------------------------------------------------------
(* Loading, opening, closing, unloading. *)

(* The successful path; a failed one leaves nothing of the device. *)
aesd_init_module ==
  /\ ~loaded
  /\ loaded' = TRUE
  /\ buff' = aesd_circular_buffer_init
  /\ entry' = ZeroEntry
  /\ lseekPos' = 0
  /\ entryMutex' = NoProc /\ buffMutex' = NoProc
  /\ UNCHANGED <<heapVars, pc, f_pos, call>>

(* Mutant: the staging buffer is not freed. *)
CleanupFreesEntries == Pointers(buff)

(* What aesd_cleanup_module frees. *)
CleanupFrees == Pointers(buff) \cup {entry.buffPtr}

(* The module cannot be unloaded while a file is open.  Its data goes with *)
(* it: the next load starts from the static initializer.                   *)
aesd_cleanup_module ==
  /\ loaded
  /\ \A p \in Procs : pc[p] = "closed"
  /\ loaded' = FALSE
  /\ kfree(CleanupFrees)
  /\ buff' = aesd_circular_buffer_init
  /\ entry' = StaticEntry
  /\ UNCHANGED <<lseekPos, lockVars, pc, f_pos, call>>

aesd_open(p) ==
  /\ loaded
  /\ Goto(p, "closed", "idle")
  /\ UNCHANGED <<devVars, lockVars, heapVars, f_pos, call>>

(* The struct file goes away: the next one starts with f_pos = 0. *)
CloseFile(p) ==
  /\ Goto(p, "idle", "closed")
  /\ f_pos' = [f_pos EXCEPT ![p] = 0]
  /\ call' = [call EXCEPT ![p] = NoCall]

(* Closing any file resets the position all files share, with no mutex. *)
aesd_release(p) ==
  /\ CloseFile(p)
  /\ lseekPos' = 0
  /\ UNCHANGED <<loaded, buff, entry, lockVars, heapVars>>

-----------------------------------------------------------------------------
(* aesd_write, StorePartial and FlushPartial. *)

(* User space calls write: entry.size is set before the mutex is taken. *)
WriteCall(p) ==
  /\ \E data \in Payloads :
       Enter(p, "w_lock", [NoCall EXCEPT !.rest = data, !.count = Len(data)])
  /\ entry' = [entry EXCEPT !.size = KMALLOC_MAX_SIZE]
  /\ UNCHANGED <<loaded, buff, lseekPos, lockVars, heapVars, f_pos>>

(* Mutant: the bytes already staged are not counted. *)
RequestFitsAlone(n) == n <= entry.size

(* "Verify that the request is possible." *)
RequestPossible(n) == n <= entry.size /\ entry.endIdx + n <= entry.size

(* The entry mutex is taken and the request fits. *)
WriteLock(p) ==
  /\ Goto(p, "w_lock", "w_scan")
  /\ entryMutex = NoProc
  /\ RequestPossible(call[p].count)
  /\ entryMutex' = p
  /\ UNCHANGED <<devVars, buffMutex, heapVars, f_pos, call>>

(* The entry mutex is taken, the request does not fit, it is released. *)
WriteTooLarge(p) ==
  /\ Return(p, "w_lock", -ENOMEM)
  /\ entryMutex = NoProc
  /\ ~RequestPossible(call[p].count)
  /\ UNCHANGED <<devVars, lockVars, heapVars, f_pos>>

(* A signal ends the wait for a mutex that somebody holds (a free mutex is *)
(* taken without looking at signals).                                      *)
WriteInterrupted(p) ==
  /\ Signals
  /\ Return(p, "w_lock", -ERESTARTSYS)
  /\ entryMutex # NoProc
  /\ UNCHANGED <<devVars, lockVars, heapVars, f_pos>>

(* k is the length of the first line of s, its newline included. *)
EndsLine(s, k) ==
  /\ k \in DOMAIN s
  /\ s[k] = Newline
  /\ \A j \in 1 .. k - 1 : s[j] # Newline

(* Mutant: the last byte of the input is not searched. *)
HasLineButLast(s) == \E k \in 1 .. Len(s) - 1 : s[k] = Newline

HasLine(s) == \E k \in DOMAIN s : s[k] = Newline

(* The staging buffer after "Allocate the buffer if needed": the one in    *)
(* place, or what kmalloc returns.                                         *)
StagePtrs ==
  IF entry.buffPtr = NULL THEN (Blocks \ allocated) \cup {NULL}
                          ELSE {entry.buffPtr}

(* StorePartial returns 0 for n bytes with the staging buffer b. *)
StoreFits(b, n) == b # NULL /\ entry.endIdx + n <= entry.size

(* Mutant: the copy starts at the beginning of the staging buffer. *)
StagedFromStart(b, chunk) == chunk

(* The staging buffer once chunk is copied to endIdx. *)
Staged(b, chunk) == SubSeq(mem[b], 1, entry.endIdx) \o chunk

(* What StorePartial leaves behind, whether it returns 0 or -ENOMEM. *)
StorePartial(b, chunk) ==
  LET fits == StoreFits(b, Len(chunk)) IN
  /\ allocated' = allocated \cup ({b} \ {NULL})
  /\ mem' = IF fits THEN [mem EXCEPT ![b] = Staged(b, chunk)] ELSE mem
  /\ entry' = [entry EXCEPT !.buffPtr = b,
                            !.endIdx = IF fits THEN @ + Len(chunk) ELSE @]

(* The next line of the input is staged; FlushPartial is called. *)
WriteLine(p) ==
  LET s == call[p].rest IN
  /\ Goto(p, "w_scan", "f_lock")
  /\ \E k \in DOMAIN s, b \in StagePtrs :
       /\ EndsLine(s, k)
       /\ StoreFits(b, k)
       /\ StorePartial(b, SubSeq(s, 1, k))
       /\ call' = [call EXCEPT ![p].rest = SubSeq(s, k + 1, Len(s))]
  /\ UNCHANGED <<loaded, buff, lseekPos, lockVars, f_pos>>

(* The next line cannot be staged: the write gives up where it stands. *)
WriteLineFails(p) ==
  LET s == call[p].rest IN
  /\ Return(p, "w_scan", -ENOMEM)
  /\ \E k \in DOMAIN s, b \in StagePtrs :
       /\ EndsLine(s, k)
       /\ ~StoreFits(b, k)
       /\ StorePartial(b, SubSeq(s, 1, k))
  /\ entryMutex' = NoProc
  /\ UNCHANGED <<loaded, buff, lseekPos, buffMutex, f_pos>>

(* "Some left over": the result of StorePartial is not looked at. *)
WriteLeftover(p) ==
  LET s == call[p].rest IN
  /\ Return(p, "w_scan", call[p].count)
  /\ s # <<>>
  /\ ~HasLine(s)
  /\ \E b \in StagePtrs : StorePartial(b, s)
  /\ entryMutex' = NoProc
  /\ UNCHANGED <<loaded, buff, lseekPos, buffMutex, f_pos>>

(* The input is used up. *)
WriteDone(p) ==
  /\ Return(p, "w_scan", call[p].count)
  /\ call[p].rest = <<>>
  /\ entryMutex' = NoProc
  /\ UNCHANGED <<devVars, buffMutex, heapVars, f_pos>>

(* Mutant: FlushPartial does not wait for the buffer mutex. *)
FlushNoLock(p) ==
  /\ Goto(p, "f_lock", "f_add")
  /\ UNCHANGED <<devVars, lockVars, heapVars, f_pos, call>>

(* FlushPartial takes the buffer mutex.  With nothing staged it returns at *)
(* once and keeps the mutex.                                               *)
FlushLock(p) ==
  /\ Goto(p, "f_lock", IF entry.buffPtr = NULL THEN "w_scan" ELSE "f_add")
  /\ buffMutex = NoProc
  /\ buffMutex' = p
  /\ UNCHANGED <<devVars, entryMutex, heapVars, f_pos, call>>

(* FlushPartial is interrupted: the line stays staged, aesd_write goes on. *)
FlushInterrupted(p) ==
  /\ Signals
  /\ Goto(p, "f_lock", "w_scan")
  /\ buffMutex # NoProc
  /\ UNCHANGED <<devVars, lockVars, heapVars, f_pos, call>>

(* The staged bytes become the newest entry of the circular buffer. *)
FlushAdd(p) ==
  /\ Goto(p, "f_add", "f_free")
  /\ call' = [call EXCEPT ![p].freePtr = ReplacedPtr(buff)]
  /\ buff' = aesd_circular_buffer_add_entry(
               buff, [buffptr |-> entry.buffPtr, size |-> entry.endIdx])
  /\ UNCHANGED <<loaded, entry, lseekPos, lockVars, heapVars, f_pos>>

(* Mutant: the staging pointer survives the transfer of ownership. *)
StageKeepsPtr == [entry EXCEPT !.endIdx = 0]

(* dev->entry after its buffer has moved to the circular buffer. *)
EmptiedStage == [entry EXCEPT !.buffPtr = NULL, !.endIdx = 0]

(* Mutant: the displaced memory is not freed. *)
FlushFreesNothing(p) == {}

FlushFrees(p) == {call[p].freePtr}

(* Mutant: the buffer mutex is not released. *)
FlushKeepsMutex(p) ==
  /\ Goto(p, "f_free", "w_scan")
  /\ kfree(FlushFrees(p))
  /\ entry' = EmptiedStage
  /\ call' = [call EXCEPT ![p].freePtr = NULL]
  /\ UNCHANGED <<loaded, buff, lseekPos, lockVars, f_pos>>

(* The displaced memory is freed, the stage emptied, the mutex released. *)
FlushFree(p) ==
  /\ Goto(p, "f_free", "w_scan")
  /\ kfree(FlushFrees(p))
  /\ entry' = EmptiedStage
  /\ call' = [call EXCEPT ![p].freePtr = NULL]
  /\ buffMutex' = NoProc
  /\ UNCHANGED <<loaded, buff, lseekPos, entryMutex, f_pos>>

-----------------------------------------------------------------------------
(* aesd_read. *)

ReadCall(p) ==
  /\ \E n \in ReadCounts : Enter(p, "r_lock", [NoCall EXCEPT !.count = n])
  /\ UNCHANGED <<devVars, lockVars, heapVars, f_pos>>

(* Taking the buffer mutex and going on to step to. *)
BuffLock(p, from, to) ==
  /\ Goto(p, from, to)
  /\ buffMutex = NoProc
  /\ buffMutex' = p
  /\ UNCHANGED <<devVars, entryMutex, heapVars, f_pos, call>>

ReadLock(p) == BuffLock(p, "r_lock", "r_find")

(* Both terms become size_t before they are added. *)
ReadPosition(p) == (f_pos[p] + lseekPos) % WordMod

Lookup(pos) == aesd_circular_buffer_find_entry_offset_for_fpos(buff, pos)

(* The entry with the byte to start from is found. *)
ReadFind(p) ==
  /\ Goto(p, "r_find", "r_copy")
  /\ Lookup(ReadPosition(p)) # NULL
  /\ call' = [call EXCEPT ![p].actualPos = ReadPosition(p),
                          ![p].found = Lookup(ReadPosition(p))]
  /\ UNCHANGED <<devVars, lockVars, heapVars, f_pos>>

(* "The specified character does not exist in the buffer." *)
ReadEnd(p) ==
  /\ Return(p, "r_find", 0)
  /\ Lookup(ReadPosition(p)) = NULL
  /\ buffMutex' = NoProc
  /\ UNCHANGED <<devVars, entryMutex, heapVars, f_pos>>

(* Bytes a read hands to copy_to_user: the rest of one entry at most. *)
SizeToRead(p) ==
  Min({buff.entry[call[p].found.slot].size - call[p].found.offset, call[p].count})

(* copy_to_user may stop early; f_pos moves by what it delivered. *)
ReadCopy(p) ==
  LET src == call[p].found IN
  /\ Goto(p, "r_copy", "idle")
  /\ \E n \in 0 .. SizeToRead(p) :
       /\ call' = [call EXCEPT
                     ![p] = [NoCall EXCEPT
                               !.out = SubSeq(mem[buff.entry[src.slot].buffptr],
                                              src.offset + 1, src.offset + n),
                               !.ret = n]]
       /\ f_pos' = [f_pos EXCEPT ![p] = ToLoff(@ + n)]
  /\ buffMutex' = NoProc
  /\ UNCHANGED <<devVars, entryMutex, heapVars>>

-----------------------------------------------------------------------------
(* aesd_llseek: it moves lseekPos, never f_pos. *)

SeekCall(p) ==
  /\ \E a \in SeekArgs : Enter(p, "s_lock", [NoCall EXCEPT !.arg = a])
  /\ UNCHANGED <<devVars, lockVars, heapVars, f_pos>>

(* The switch on whence: only SEEK_CUR reads lseekPos first, and a whence  *)
(* it does not know changes nothing.                                       *)
SeekLock(p) ==
  LET whence == call[p].arg.whence IN
  BuffLock(p, "s_lock",
           IF whence = "SEEK_CUR" THEN "s_load"
           ELSE IF whence = "SEEK_DATA" THEN "s_ret" ELSE "s_store")

SeekLoad(p) ==
  /\ Goto(p, "s_load", "s_store")
  /\ call' = [call EXCEPT ![p].seekPos = lseekPos]
  /\ UNCHANGED <<devVars, lockVars, heapVars, f_pos>>

SeekTarget(p) ==
  LET a == call[p].arg IN
  CASE a.whence = "SEEK_SET" -> a.off
    [] a.whence = "SEEK_CUR" -> ToLoff(call[p].seekPos + a.off)
    [] a.whence = "SEEK_END" -> aesd_circular_buffer_get_size(buff)

SeekStore(p) ==
  /\ Goto(p, "s_store", "s_ret")
  /\ lseekPos' = SeekTarget(p)
  /\ UNCHANGED <<loaded, buff, entry, lockVars, heapVars, f_pos, call>>

(* lseekPos is read again for the result. *)
SeekReturn(p) ==
  /\ Return(p, "s_ret", lseekPos)
  /\ buffMutex' = NoProc
  /\ UNCHANGED <<devVars, entryMutex, heapVars, f_pos>>

-----------------------------------------------------------------------------
(* aesd_ioctl. *)

(* A command that is not AESDCHAR_IOCSEEKTO, or an argument that cannot be *)
(* copied from user space.                                                 *)
IoctlRejected(p) ==
  /\ IoctlArgs # {}
  /\ \E e \in {ENOTTY, EFAULT} : Return(p, "idle", -e)
  /\ UNCHANGED <<devVars, lockVars, heapVars, f_pos>>

IoctlCall(p) ==
  /\ \E a \in IoctlArgs : Enter(p, "i_lock", [NoCall EXCEPT !.arg = a])
  /\ UNCHANGED <<devVars, lockVars, heapVars, f_pos>>

IoctlLock(p) == BuffLock(p, "i_lock", "i_seek")

SeekBase(a) ==
  aesd_circular_buffer_find_fpos_for_virtual_entry_offset(buff, a.write_cmd)

(* The two tests of AESDCHAR_IOCSEEKTO.  The second one is '<' in the      *)
(* code: an offset equal to the size of the entry is let through.          *)
SeekToRefused(a) ==
  \/ SeekBase(a) < 0
  \/ aesd_circular_buffer_find_entry_at_position(buff, a.write_cmd).size
       < a.write_cmd_offset

IoctlSeekTo(p) ==
  LET a == call[p].arg IN
  /\ Return(p, "i_seek", 0)
  /\ ~SeekToRefused(a)
  /\ lseekPos' = SeekBase(a) + a.write_cmd_offset
  /\ buffMutex' = NoProc
  /\ UNCHANGED <<loaded, buff, entry, entryMutex, heapVars, f_pos>>

IoctlInvalid(p) ==
  /\ Return(p, "i_seek", -EINVAL)
  /\ SeekToRefused(call[p].arg)
  /\ buffMutex' = NoProc
  /\ UNCHANGED <<devVars, entryMutex, heapVars, f_pos>>

(* A read, llseek or ioctl is interrupted while it waits for the buffer    *)
(* mutex.                                                                  *)
BuffLockInterrupted(p) ==
  /\ Signals
  /\ pc[p] \in {"r_lock", "s_lock", "i_lock"}
  /\ Return(p, pc[p], -ERESTARTSYS)
  /\ buffMutex # NoProc
  /\ UNCHANGED <<devVars, lockVars, heapVars, f_pos>>

-----------------------------------------------------------------------------
(* What a process does when user space decides so. *)
UserStep(p) ==
  \/ aesd_open(p) \/ aesd_release(p)
  \/ WriteCall(p) \/ ReadCall(p) \/ SeekCall(p) \/ IoctlCall(p) \/ IoctlRejected(p)

(* Waiting for a mutex and getting it. *)
EntryLockStep(p) == WriteLock(p) \/ WriteTooLarge(p)
BuffLockStep(p)  == FlushLock(p) \/ ReadLock(p) \/ SeekLock(p) \/ IoctlLock(p)

(* A signal while waiting. *)
SignalStep(p) ==
  WriteInterrupted(p) \/ FlushInterrupted(p) \/ BuffLockInterrupted(p)

(* Running inside the driver. *)
DriverStep(p) ==
  \/ WriteLine(p) \/ WriteLineFails(p) \/ WriteLeftover(p) \/ WriteDone(p)
  \/ FlushAdd(p) \/ FlushFree(p)
  \/ ReadFind(p) \/ ReadEnd(p) \/ ReadCopy(p)
  \/ SeekLoad(p) \/ SeekStore(p) \/ SeekReturn(p)
  \/ IoctlSeekTo(p) \/ IoctlInvalid(p)

Next ==
  \/ aesd_init_module
  \/ aesd_cleanup_module
  \/ \E p \in Procs :
       UserStep(p) \/ EntryLockStep(p) \/ BuffLockStep(p) \/ SignalStep(p) \/ DriverStep(p)

Spec == Init /\ [][Next]_vars

(* A process inside the driver keeps running, and a kernel mutex is handed *)
(* to its longest waiter, so a waiter that finds it free again and again   *)
(* gets it.  Nothing obliges user space to act or a signal to arrive.      *)
Fairness ==
  \A p \in Procs : /\ WF_vars(DriverStep(p))
                   /\ SF_vars(EntryLockStep(p))
                   /\ SF_vars(BuffLockStep(p))

FairSpec == Spec /\ Fairness

-----------------------------------------------------------------------------
(* What the device holds. *)

(* The bytes of an entry of the circular buffer. *)
LineOf(e) == SubSeq(mem[e.buffptr], 1, e.size)

Lines ==
  LET entries == Contents(buff) IN [i \in 1 .. Len(entries) |-> LineOf(entries[i])]

(* All the stored bytes, oldest first. *)
Stream == FlattenSeq(Lines)

(* FlushPartial has handed the staging buffer over and not cleared it yet. *)
Handover == \E p \in Procs : pc[p] = "f_free"

Partial ==
  IF entry.buffPtr = NULL \/ Handover THEN <<>>
  ELSE SubSeq(mem[entry.buffPtr], 1, entry.endIdx)

HoldsEntryMutex == {"w_scan", "f_lock", "f_add", "f_free"}
HoldsBuffMutex ==
  {"f_add", "f_free", "r_find", "r_copy", "s_load", "s_store", "s_ret", "i_seek"}
Waiting == {"w_lock", "r_lock", "s_lock", "i_lock"}
InUserSpace == {"closed", "idle"}

PCs == HoldsEntryMutex \cup HoldsBuffMutex \cup Waiting \cup InUserSpace

Pointer == Blocks \cup {NULL}

(* An entry made by FlushPartial. *)
Entries == [buffptr : Blocks, size : 1 .. KMALLOC_MAX_SIZE]

(* The part of the type invariant that has to do with memory and locks: no *)
(* block holds more than KMALLOC_MAX_SIZE bytes, so StorePartial never     *)
(* writes past the end of a staging buffer.                                *)
MemoryTypes ==
  /\ loaded \in BOOLEAN
  /\ buff \in BufferType(Entries)
  /\ entry \in [buffPtr : Pointer, size : {0, KMALLOC_MAX_SIZE},
                endIdx : 0 .. KMALLOC_MAX_SIZE]
  /\ entryMutex \in Procs \cup {NoProc}
  /\ buffMutex \in Procs \cup {NoProc}
  /\ allocated \subseteq Blocks
  /\ mem \in [Blocks -> Seq(Byte)]
  /\ \A b \in Blocks : Len(mem[b]) <= KMALLOC_MAX_SIZE
  /\ pc \in [Procs -> PCs]

Frame ==
  [count : Nat, rest : Seq(Byte), arg : SeekArgs \cup IoctlArgs \cup {NULL},
   freePtr : Pointer, actualPos : 0 .. WordMod - 1,
   found : [slot : Slots, offset : Nat] \cup {NULL},
   seekPos : Int, ret : Int, out : Seq(Byte)]

(* Every variable of the driver has its C type. *)
TypeOK ==
  /\ MemoryTypes
  /\ lseekPos \in Int
  /\ f_pos \in [Procs -> Int]
  /\ call \in [Procs -> Frame]

(* A mutex is held by exactly the process that is inside its critical      *)
(* section: two processes are never in one together, no way out of a call  *)
(* leaves a mutex held (the early return of FlushPartial would), and none  *)
(* is released twice.                                                      *)
LocksMatchCalls ==
  \A p \in Procs : /\ entryMutex = p <=> pc[p] \in HoldsEntryMutex
                   /\ buffMutex = p <=> pc[p] \in HoldsBuffMutex

(* No two owners share a block and nobody owns freed memory: the entries   *)
(* of the buffer are distinct blocks, the staging buffer is none of them   *)
(* except while FlushPartial hands it over, and what FlushPartial is about *)
(* to free is no longer reachable.                                         *)
OneOwner ==
  /\ \A i, j \in Slots :
       i # j /\ buff.entry[i].buffptr # NULL =>
         buff.entry[i].buffptr # buff.entry[j].buffptr
  /\ entry.buffPtr \in Pointers(buff) => Handover
  /\ \A p \in Procs :
       call[p].freePtr # NULL =>
         call[p].freePtr \notin Pointers(buff) \cup {entry.buffPtr}

(* The blocks the driver can still reach, and so will free. *)
Owned ==
  (Pointers(buff) \cup {entry.buffPtr} \cup {call[p].freePtr : p \in Procs}) \ {NULL}

(* Nothing leaks and nothing is freed twice, through any order of writes,  *)
(* failed allocations, interrupted flushes and unloading: the blocks that  *)
(* kmalloc handed out are exactly those the driver can reach.              *)
NoLeak ==
  /\ allocated = Owned
  /\ ~loaded => allocated = {}

(* The test at the top of aesd_write is still good when the input is       *)
(* stored, although FlushPartial and other calls run in between: what is   *)
(* left of the input fits behind what is staged, so a write that has       *)
(* started fails only if kmalloc does.                                     *)
RequestStaysPossible ==
  \A p \in Procs :
    pc[p] \in HoldsEntryMutex => entry.endIdx + Len(call[p].rest) <= entry.size

(* An entry of the circular buffer is never empty and ends in a newline,   *)
(* even when it was put together by several processes and several calls.   *)
(* It may have lost a piece (main.c does not look at the result of staging *)
(* a tail) or hold several lines (nor at that of an interrupted flush).    *)
EntriesEndLines ==
  \A i \in Slots :
    LET e == buff.entry[i] IN
    e.buffptr # NULL =>
      /\ e.size \in 1 .. Len(mem[e.buffptr])
      /\ mem[e.buffptr][e.size] = Newline

(* What a frame holds at each step of a write. *)
FrameInv ==
  /\ DOMAIN call = Procs
  /\ \A p \in Procs :
       /\ DOMAIN call[p] = DOMAIN NoCall
       /\ call[p].rest \in Seq(Byte)
       /\ call[p].count = Len(call[p].rest) \/ pc[p] # "w_lock"
       /\ call[p].freePtr \in Pointer
       /\ pc[p] # "f_free" => call[p].freePtr = NULL

(* What is staged, and that it is a line when FlushPartial runs. *)
StageInv ==
  /\ entry.buffPtr = NULL => entry.endIdx = 0
  /\ entry.buffPtr # NULL => entry.endIdx <= Len(mem[entry.buffPtr])
  /\ \A p \in Procs :
       /\ pc[p] \in HoldsEntryMutex \cup {"w_lock"} => entry.size = KMALLOC_MAX_SIZE
       /\ pc[p] \in {"f_lock", "f_add", "f_free"} =>
            /\ entry.buffPtr # NULL
            /\ entry.endIdx > 0
            /\ mem[entry.buffPtr][entry.endIdx] = Newline
       /\ pc[p] = "f_free" => entry.buffPtr \in Pointers(buff)

(* The inductive invariant behind the memory and locking properties above: *)
(* together with them, what the driver relies on between two steps of a    *)
(* call, and that an unloaded module has no users.                         *)
DriverInv ==
  /\ MemoryTypes
  /\ FrameInv
  /\ LocksMatchCalls
  /\ StageInv
  /\ OneOwner
  /\ NoLeak
  /\ RequestStaysPossible
  /\ EntriesEndLines
  /\ ~loaded => /\ \A p \in Procs : pc[p] = "closed"
                /\ buff = aesd_circular_buffer_init
                /\ entry.buffPtr = NULL

(* As long as no flush is interrupted ("this is wrong, but ok"), a line    *)
(* never stays in the staging buffer: a staged newline is the last byte    *)
(* there is, and its writer is about to hand the line over.                *)
NoStrandedLine ==
  ~Signals =>
    \A k \in DOMAIN Partial :
      Partial[k] = Newline =>
        k = Len(Partial) /\ \E p \in Procs : pc[p] \in {"f_lock", "f_add"}

(* A read delivers a run of the stored bytes that starts exactly at its    *)
(* position, and reports the end only when no byte is stored there,        *)
(* although writers may be replacing entries all the while.                *)
ReadDeliversStream ==
  [][\A p \in Procs :
       /\ pc[p] = "r_copy" /\ pc'[p] = "idle" =>
            call'[p].out = SubSeq(Stream, call[p].actualPos + 1,
                                  call[p].actualPos + call'[p].ret)
       /\ pc[p] = "r_find" /\ pc'[p] = "idle" =>
            ReadPosition(p) >= Len(Stream)]_vars

(* s has one newline, its last byte. *)
IsLine(s) == s # <<>> /\ \A k \in DOMAIN s : s[k] = Newline <=> k = Len(s)

(* As long as no flush is interrupted, every entry is exactly one line,    *)
(* even when kmalloc fails in the middle of a write of several lines or    *)
(* processes write the parts of a line in turn: lines are never merged and *)
(* never stored without their end.                                         *)
EntriesAreLines == ~Signals => \A i \in DOMAIN Lines : IsLine(Lines[i])

(* AESDCHAR_IOCSEEKTO for a byte that is stored always succeeds and leaves *)
(* the position on exactly that byte; a call that is refused moves nothing *)
(* and has named no stored byte.  (Some arguments that name no byte are    *)
(* accepted and move the position: SeekToLandsInWrite of MCCharDriver.)    *)
SeekToFindsByte ==
  [][\A p \in Procs :
       pc[p] = "i_seek" /\ pc'[p] = "idle" =>
         LET a == call[p].arg IN
         IF call'[p].ret = 0
         THEN a.write_cmd < Len(Lines) =>
                lseekPos' = Len(FlattenSeq(SubSeq(Lines, 1, a.write_cmd)))
                              + a.write_cmd_offset
         ELSE /\ lseekPos' = lseekPos
              /\ a.write_cmd < Len(Lines) =>
                   a.write_cmd_offset >= Len(Lines[a.write_cmd + 1])]_vars

(* The device, with its two mutexes, its staging buffer and its ring, is   *)
(* an atomic log of the latest lines.                                      *)
Log == INSTANCE LineLog
         WITH Limit <- Capacity, MaxBytes <- KMALLOC_MAX_SIZE,
              lines <- Lines, partial <- Partial

RefinesLineLog == Log!Spec

(* Every call returns: no order of the two mutexes, no signal and no       *)
(* failed allocation leaves a process inside the driver.                   *)
CallReturns ==
  \A p \in Procs : pc[p] \notin InUserSpace ~> pc[p] = "idle"
=============================================================================
