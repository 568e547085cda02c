-------------------------- MODULE CharDriverProofs --------------------------
(***************************************************************************)
(* The character device, for any number of processes, blocks and slots and *)
(* any payloads.  DriverInv, its memory and locking, is inductive: steps   *)
(* that only move a process and its locks are handled by one lemma,        *)
(* QuietStep; those that touch the staging buffer, the ring or the heap    *)
(* each have their own.  From it follow, in this order: the device         *)
(* implements the log of LineLog; no line is left in the stage; the        *)
(* variables keep their types; what reads deliver and where seeks land.    *)
(***************************************************************************)
EXTENDS CharDriver, CircularBufferLemmas, SequenceTheorems

-----------------------------------------------------------------------------
(* Sequences. *)

(* The first k bytes of an input and the rest of it. *)
LEMMA SplitInput ==
  ASSUME NEW S, NEW s \in Seq(S), NEW k \in DOMAIN s
  PROVE  /\ SubSeq(s, 1, k) \in Seq(S)
         /\ Len(SubSeq(s, 1, k)) = k
         /\ Len(SubSeq(s, 1, k)) > 0
         /\ \A j \in 1 .. k : SubSeq(s, 1, k)[j] = s[j]
         /\ SubSeq(s, k + 1, Len(s)) \in Seq(S)
         /\ Len(SubSeq(s, k + 1, Len(s))) = Len(s) - k
         /\ k \in 1 .. Len(s)
  <1>1. k \in 1 .. Len(s) /\ Len(s) \in Nat
    OBVIOUS
  <1>2. \A i \in 1 .. k : s[i] \in S
    BY <1>1
  <1>3. \A i \in k + 1 .. Len(s) : s[i] \in S
    BY <1>1
  <1>4. SubSeq(s, 1, k) \in Seq(S) /\ Len(SubSeq(s, 1, k)) = k
        /\ \A j \in 1 .. k : SubSeq(s, 1, k)[j] = s[j]
    BY <1>1, <1>2, SubSeqProperties
  <1>5. SubSeq(s, k + 1, Len(s)) \in Seq(S)
        /\ Len(SubSeq(s, k + 1, Len(s))) = Len(s) - k
    BY <1>1, <1>3, SubSeqProperties
  <1> QED
    BY <1>1, <1>4, <1>5

(* What Staged puts in the staging buffer: chunk behind the first n bytes. *)
LEMMA StageChunk ==
  ASSUME NEW S, NEW s \in Seq(S), NEW n \in 0 .. Len(s), NEW chunk \in Seq(S)
  PROVE  LET t == SubSeq(s, 1, n) \o chunk IN
         /\ t \in Seq(S)
         /\ Len(t) = n + Len(chunk)
         /\ Len(chunk) > 0 => t[Len(t)] = chunk[Len(chunk)]
  <1> DEFINE h == SubSeq(s, 1, n)
  <1>1. n \in Nat /\ Len(s) \in Nat /\ Len(chunk) \in Nat
    OBVIOUS
  <1>2. h \in Seq(S) /\ Len(h) = n
    BY <1>1, SubSeqProperties
  <1> HIDE DEF h
  <1>3. /\ h \o chunk \in Seq(S)
        /\ Len(h \o chunk) = n + Len(chunk)
        /\ \A i \in 1 .. Len(h) + Len(chunk) :
             (h \o chunk)[i] = IF i <= Len(h) THEN h[i] ELSE chunk[i - Len(h)]
    BY <1>2, ConcatProperties
  <1>4. Len(chunk) > 0 => (h \o chunk)[n + Len(chunk)] = chunk[Len(chunk)]
    BY ONLY <1>1, <1>2, <1>3
  <1> QED
    BY <1>3, <1>4 DEF h

-----------------------------------------------------------------------------
(* Locks. *)

(* A mutex passes through the hands of p: its holder is p if p is to be in *)
(* its critical section, nobody if p leaves it, and otherwise unchanged;   *)
(* p enters only when it is free.                                          *)
Passes(mutex, section, p, to) ==
  /\ mutex' = IF to \in section THEN p ELSE IF pc[p] \in section THEN NoProc ELSE mutex
  /\ to \in section /\ pc[p] \notin section => mutex = NoProc

LockMove(p, to) ==
  /\ pc' = [pc EXCEPT ![p] = to]
  /\ to \in PCs
  /\ Passes(entryMutex, HoldsEntryMutex, p, to)
  /\ Passes(buffMutex, HoldsBuffMutex, p, to)

(* Such moves keep mutexes and critical sections in step. *)
LEMMA LocksFollow ==
  ASSUME DriverInv, NEW p \in Procs, NEW to, LockMove(p, to)
  PROVE  /\ LocksMatchCalls'
         /\ entryMutex' \in Procs \cup {NoProc}
         /\ buffMutex' \in Procs \cup {NoProc}
         /\ pc' \in [Procs -> PCs]
         /\ pc'[p] = to
         /\ \A q \in Procs \ {p} : pc'[q] = pc[q]
  <1>1. /\ pc' \in [Procs -> PCs]
        /\ pc'[p] = to
        /\ \A q \in Procs \ {p} : pc'[q] = pc[q]
    BY DEF LockMove, DriverInv, MemoryTypes
  <1>2. entryMutex' \in Procs \cup {NoProc} /\ buffMutex' \in Procs \cup {NoProc}
    BY DEF LockMove, Passes, DriverInv, MemoryTypes
  <1>3. \A q \in Procs : entryMutex' = q <=> pc'[q] \in HoldsEntryMutex
    BY <1>1, DriverAssumption DEF LockMove, Passes, DriverInv, LocksMatchCalls
  <1>4. \A q \in Procs : buffMutex' = q <=> pc'[q] \in HoldsBuffMutex
    BY <1>1, DriverAssumption DEF LockMove, Passes, DriverInv, LocksMatchCalls
  <1> QED
    BY <1>1, <1>2, <1>3, <1>4 DEF LocksMatchCalls

-----------------------------------------------------------------------------
(* Steps that leave the ring, the staging buffer and the heap alone. *)

(* Only the frame of p changes; it keeps its shape and frees nothing. *)
FrameFit(p) ==
  /\ DOMAIN call' = Procs
  /\ \A q \in Procs \ {p} : call'[q] = call[q]
  /\ DOMAIN call'[p] = DOMAIN NoCall
  /\ call'[p].rest \in Seq(Byte)
  /\ call'[p].freePtr = NULL

(* Process p moves to step to of its call, with a frame fit for it. *)
QuietMove(p, to) ==
  /\ LockMove(p, to)
  /\ to \notin {"w_lock", "f_free"}
  /\ pc[p] # "f_free"
  /\ loaded
  /\ UNCHANGED <<loaded, buff, entry, allocated, mem>>
  /\ FrameFit(p)
  /\ to \in HoldsEntryMutex =>
       entry.size = KMALLOC_MAX_SIZE /\ entry.endIdx + Len(call'[p].rest) <= entry.size
  /\ to \in {"f_lock", "f_add"} => pc[p] \in {"f_lock", "f_add"}

(* A quiet move that hands the mutexes over properly keeps the invariant. *)
LEMMA QuietStep ==
  ASSUME DriverInv, NEW p \in Procs, NEW to, QuietMove(p, to)
  PROVE  DriverInv'
  <1>0. /\ LocksMatchCalls'
        /\ entryMutex' \in Procs \cup {NoProc}
        /\ buffMutex' \in Procs \cup {NoProc}
        /\ pc' \in [Procs -> PCs]
        /\ pc'[p] = to
        /\ \A q \in Procs \ {p} : pc'[q] = pc[q]
    BY LocksFollow DEF QuietMove, FrameFit
  <1>1. \A q \in Procs \ {p} : pc'[q] = pc[q] /\ call'[q] = call[q]
    BY <1>0 DEF QuietMove, FrameFit
  <1> USE DEF DriverInv
  <1>2. MemoryTypes'
    BY <1>0 DEF QuietMove, FrameFit, MemoryTypes
  <1>3. FrameInv'
    BY <1>0, <1>1 DEF QuietMove, FrameFit, FrameInv, Pointer
  <1>4. StageInv'
    BY <1>0, <1>1 DEF QuietMove, FrameFit, StageInv
  <1>5. Handover' = Handover
    BY <1>0, <1>1 DEF QuietMove, FrameFit, Handover
  <1>6. \A q \in Procs : call'[q].freePtr = call[q].freePtr
    BY <1>1 DEF QuietMove, FrameFit, FrameInv
  <1>7. OneOwner'
    BY <1>5, <1>6 DEF QuietMove, FrameFit, OneOwner
  <1>8. NoLeak'
    BY <1>6 DEF QuietMove, FrameFit, NoLeak, Owned
  <1>9. RequestStaysPossible'
    BY <1>0, <1>1 DEF QuietMove, FrameFit, RequestStaysPossible
  <1>10. EntriesEndLines'
    BY DEF QuietMove, FrameFit, EntriesEndLines
  <1> QED
    BY <1>0, <1>2, <1>3, <1>4, <1>7, <1>8, <1>9, <1>10 DEF QuietMove, FrameFit

(* A returning call leaves an empty frame. *)
LEMMA ReturnFits ==
  ASSUME DriverInv, NEW p \in Procs, NEW from, NEW r, Return(p, from, r)
  PROVE  FrameFit(p) /\ call'[p].rest = <<>>
  BY DEF Return, FrameFit, DriverInv, FrameInv, NoCall

(* A call that stays inside the driver without touching its frame. *)
LEMMA SameFrameFits ==
  ASSUME DriverInv, NEW p \in Procs, pc[p] # "f_free", UNCHANGED call
  PROVE  FrameFit(p) /\ call'[p] = call[p]
  BY DEF FrameFit, DriverInv, FrameInv

(* Only processes of a loaded module are inside the driver. *)
LEMMA InsideMeansLoaded ==
  ASSUME DriverInv, NEW p \in Procs, pc[p] # "closed"
  PROVE  loaded
  BY DEF DriverInv

(* Opening and closing a file. *)
LEMMA OpenCloseSteps ==
  ASSUME DriverInv, NEW p \in Procs,
         aesd_open(p) \/ aesd_release(p)
  PROVE  \E to : QuietMove(p, to)
  <1> USE DEF PCs, HoldsEntryMutex, HoldsBuffMutex, Waiting, InUserSpace
  <1>1. CASE aesd_open(p)
    <2>1. FrameFit(p) /\ call'[p] = call[p]
      BY <1>1, SameFrameFits DEF aesd_open, Goto
    <2>2. LockMove(p, "idle")
      BY <1>1, InsideMeansLoaded
        DEF aesd_open, Goto, devVars, lockVars, heapVars, LockMove, Passes,
            DriverInv, LocksMatchCalls
    <2>3. QuietMove(p, "idle")
      BY <1>1, <2>1, <2>2, InsideMeansLoaded
        DEF aesd_open, Goto, devVars, lockVars, heapVars, QuietMove,
            DriverInv, LocksMatchCalls
    <2> QED
      BY <2>3
  <1>2. CASE aesd_release(p)
    <2>1. FrameFit(p)
      BY <1>2
        DEF aesd_release, CloseFile, FrameFit, DriverInv, FrameInv, NoCall
    <2>2. LockMove(p, "closed")
      BY <1>2, InsideMeansLoaded
        DEF aesd_release, CloseFile, Goto, devVars, lockVars, heapVars,
            LockMove, Passes, DriverInv, LocksMatchCalls
    <2>3. QuietMove(p, "closed")
      BY <1>2, <2>1, <2>2, InsideMeansLoaded
        DEF aesd_release, CloseFile, Goto, devVars, lockVars, heapVars,
            QuietMove, DriverInv, LocksMatchCalls
    <2> QED
      BY <2>3
  <1> QED
    BY <1>1, <1>2

(* The steps of a write that only wait for, take or release a mutex.       *)
(* FlushLock never returns early: whoever flushes has staged a line.       *)
LEMMA WriteLockSteps ==
  ASSUME DriverInv, NEW p \in Procs,
         \/ WriteLock(p) \/ WriteTooLarge(p) \/ WriteInterrupted(p)
         \/ WriteDone(p) \/ FlushLock(p) \/ FlushInterrupted(p)
  PROVE  \E to : QuietMove(p, to)
  <1> USE DEF PCs, HoldsEntryMutex, HoldsBuffMutex, Waiting, InUserSpace
  <1>1. CASE WriteLock(p)
    <2>1. FrameFit(p) /\ call'[p] = call[p]
      BY <1>1, SameFrameFits DEF WriteLock, RequestPossible, Goto
    <2>2. LockMove(p, "w_scan")
      BY <1>1, InsideMeansLoaded
        DEF WriteLock, RequestPossible, Goto, devVars, lockVars, heapVars,
            LockMove, Passes, DriverInv, LocksMatchCalls, StageInv,
            RequestStaysPossible, FrameInv
    <2>3. QuietMove(p, "w_scan")
      BY <1>1, <2>1, <2>2, InsideMeansLoaded
        DEF WriteLock, RequestPossible, Goto, devVars, lockVars, heapVars,
            QuietMove, DriverInv, LocksMatchCalls, StageInv,
            RequestStaysPossible, FrameInv
    <2> QED
      BY <2>3
  <1>2. CASE WriteTooLarge(p)
    <2>1. FrameFit(p)
      BY <1>2, ReturnFits DEF WriteTooLarge
    <2>2. LockMove(p, "idle")
      BY <1>2, InsideMeansLoaded
        DEF WriteTooLarge, Return, Goto, devVars, lockVars, heapVars,
            LockMove, Passes, DriverInv, LocksMatchCalls
    <2>3. QuietMove(p, "idle")
      BY <1>2, <2>1, <2>2, InsideMeansLoaded
        DEF WriteTooLarge, Return, Goto, devVars, lockVars, heapVars,
            QuietMove, DriverInv, LocksMatchCalls
    <2> QED
      BY <2>3
  <1>3. CASE WriteInterrupted(p)
    <2>1. FrameFit(p)
      BY <1>3, ReturnFits DEF WriteInterrupted
    <2>2. LockMove(p, "idle")
      BY <1>3, InsideMeansLoaded
        DEF WriteInterrupted, Return, Goto, devVars, lockVars, heapVars,
            LockMove, Passes, DriverInv, LocksMatchCalls
    <2>3. QuietMove(p, "idle")
      BY <1>3, <2>1, <2>2, InsideMeansLoaded
        DEF WriteInterrupted, Return, Goto, devVars, lockVars, heapVars,
            QuietMove, DriverInv, LocksMatchCalls
    <2> QED
      BY <2>3
  <1>4. CASE WriteDone(p)
    <2>1. FrameFit(p)
      BY <1>4, ReturnFits DEF WriteDone
    <2>2. LockMove(p, "idle")
      BY <1>4, InsideMeansLoaded
        DEF WriteDone, Return, Goto, devVars, lockVars, heapVars, LockMove,
            Passes, DriverInv, LocksMatchCalls
    <2>3. QuietMove(p, "idle")
      BY <1>4, <2>1, <2>2, InsideMeansLoaded
        DEF WriteDone, Return, Goto, devVars, lockVars, heapVars, QuietMove,
            DriverInv, LocksMatchCalls
    <2> QED
      BY <2>3
  <1>5. CASE FlushLock(p)
    <2>1. FrameFit(p) /\ call'[p] = call[p]
      BY <1>5, SameFrameFits DEF FlushLock, Goto
    <2>2. LockMove(p, "f_add")
      BY <1>5, InsideMeansLoaded
        DEF FlushLock, Goto, devVars, lockVars, heapVars, LockMove, Passes,
            DriverInv, LocksMatchCalls, StageInv, RequestStaysPossible
    <2>3. QuietMove(p, "f_add")
      BY <1>5, <2>1, <2>2, InsideMeansLoaded
        DEF FlushLock, Goto, devVars, lockVars, heapVars, QuietMove,
            DriverInv, LocksMatchCalls, StageInv, RequestStaysPossible
    <2> QED
      BY <2>3
  <1>6. CASE FlushInterrupted(p)
    <2>1. FrameFit(p) /\ call'[p] = call[p]
      BY <1>6, SameFrameFits DEF FlushInterrupted, Goto
    <2>2. LockMove(p, "w_scan")
      BY <1>6, InsideMeansLoaded
        DEF FlushInterrupted, Goto, devVars, lockVars, heapVars, LockMove,
            Passes, DriverInv, LocksMatchCalls, StageInv, RequestStaysPossible
    <2>3. QuietMove(p, "w_scan")
      BY <1>6, <2>1, <2>2, InsideMeansLoaded
        DEF FlushInterrupted, Goto, devVars, lockVars, heapVars, QuietMove,
            DriverInv, LocksMatchCalls, StageInv, RequestStaysPossible
    <2> QED
      BY <2>3
  <1> QED
    BY <1>1, <1>2, <1>3, <1>4, <1>5, <1>6

(* The steps of a read. *)
LEMMA ReadSteps ==
  ASSUME DriverInv, NEW p \in Procs,
         ReadCall(p) \/ ReadLock(p) \/ ReadFind(p) \/ ReadEnd(p) \/ ReadCopy(p)
  PROVE  \E to : QuietMove(p, to)
  <1> USE DEF PCs, HoldsEntryMutex, HoldsBuffMutex, Waiting, InUserSpace
  <1>1. CASE ReadCall(p)
    <2>1. FrameFit(p)
      BY <1>1 DEF ReadCall, Enter, FrameFit, DriverInv, FrameInv, NoCall
    <2>2. LockMove(p, "r_lock")
      BY <1>1, InsideMeansLoaded
        DEF ReadCall, Enter, Goto, devVars, lockVars, heapVars, LockMove,
            Passes, DriverInv, LocksMatchCalls
    <2>3. QuietMove(p, "r_lock")
      BY <1>1, <2>1, <2>2, InsideMeansLoaded
        DEF ReadCall, Enter, Goto, devVars, lockVars, heapVars, QuietMove,
            DriverInv, LocksMatchCalls
    <2> QED
      BY <2>3
  <1>2. CASE ReadLock(p)
    <2>1. FrameFit(p) /\ call'[p] = call[p]
      BY <1>2, SameFrameFits DEF ReadLock, BuffLock, Goto
    <2>2. LockMove(p, "r_find")
      BY <1>2, InsideMeansLoaded
        DEF ReadLock, BuffLock, Goto, devVars, lockVars, heapVars, LockMove,
            Passes, DriverInv, LocksMatchCalls
    <2>3. QuietMove(p, "r_find")
      BY <1>2, <2>1, <2>2, InsideMeansLoaded
        DEF ReadLock, BuffLock, Goto, devVars, lockVars, heapVars, QuietMove,
            DriverInv, LocksMatchCalls
    <2> QED
      BY <2>3
  <1>3. CASE ReadFind(p)
    <2>1. FrameFit(p)
      BY <1>3 DEF ReadFind, Goto, FrameFit, DriverInv, FrameInv, NoCall
    <2>2. LockMove(p, "r_copy")
      BY <1>3, InsideMeansLoaded
        DEF ReadFind, Goto, devVars, lockVars, heapVars, LockMove, Passes,
            DriverInv, LocksMatchCalls
    <2>3. QuietMove(p, "r_copy")
      BY <1>3, <2>1, <2>2, InsideMeansLoaded
        DEF ReadFind, Goto, devVars, lockVars, heapVars, QuietMove,
            DriverInv, LocksMatchCalls
    <2> QED
      BY <2>3
  <1>4. CASE ReadEnd(p)
    <2>1. FrameFit(p)
      BY <1>4, ReturnFits DEF ReadEnd
    <2>2. LockMove(p, "idle")
      BY <1>4, InsideMeansLoaded
        DEF ReadEnd, Return, Goto, devVars, lockVars, heapVars, LockMove,
            Passes, DriverInv, LocksMatchCalls
    <2>3. QuietMove(p, "idle")
      BY <1>4, <2>1, <2>2, InsideMeansLoaded
        DEF ReadEnd, Return, Goto, devVars, lockVars, heapVars, QuietMove,
            DriverInv, LocksMatchCalls
    <2> QED
      BY <2>3
  <1>5. CASE ReadCopy(p)
    <2>0. PICK bytes, n :
            call' = [call EXCEPT ![p] = [NoCall EXCEPT !.out = bytes, !.ret = n]]
      BY <1>5 DEF ReadCopy
    <2>1. FrameFit(p)
      BY <2>0 DEF FrameFit, DriverInv, FrameInv, NoCall
    <2>2. LockMove(p, "idle")
      BY <1>5, InsideMeansLoaded
        DEF ReadCopy, Goto, devVars, lockVars, heapVars, LockMove, Passes,
            DriverInv, LocksMatchCalls
    <2>3. QuietMove(p, "idle")
      BY <1>5, <2>1, <2>2, InsideMeansLoaded
        DEF ReadCopy, Goto, devVars, lockVars, heapVars, QuietMove,
            DriverInv, LocksMatchCalls
    <2> QED
      BY <2>3
  <1> QED
    BY <1>1, <1>2, <1>3, <1>4, <1>5

(* The steps of an llseek. *)
LEMMA SeekSteps ==
  ASSUME DriverInv, NEW p \in Procs,
         SeekCall(p) \/ SeekLock(p) \/ SeekLoad(p) \/ SeekStore(p) \/ SeekReturn(p)
  PROVE  \E to : QuietMove(p, to)
  <1> USE DEF PCs, HoldsEntryMutex, HoldsBuffMutex, Waiting, InUserSpace
  <1>1. CASE SeekCall(p)
    <2>1. FrameFit(p)
      BY <1>1 DEF SeekCall, Enter, FrameFit, DriverInv, FrameInv, NoCall
    <2>2. LockMove(p, "s_lock")
      BY <1>1, InsideMeansLoaded
        DEF SeekCall, Enter, Goto, devVars, lockVars, heapVars, LockMove,
            Passes, DriverInv, LocksMatchCalls
    <2>3. QuietMove(p, "s_lock")
      BY <1>1, <2>1, <2>2, InsideMeansLoaded
        DEF SeekCall, Enter, Goto, devVars, lockVars, heapVars, QuietMove,
            DriverInv, LocksMatchCalls
    <2> QED
      BY <2>3
  <1>2. CASE SeekLock(p)
    <2> PICK to \in {"s_load", "s_ret", "s_store"} : BuffLock(p, "s_lock", to)
      BY <1>2 DEF SeekLock
    <2>1. FrameFit(p) /\ call'[p] = call[p]
      BY SameFrameFits DEF BuffLock, Goto
    <2>2. LockMove(p, to)
      BY InsideMeansLoaded
        DEF BuffLock, Goto, devVars, heapVars, LockMove, Passes, DriverInv,
            LocksMatchCalls
    <2>3. QuietMove(p, to)
      BY <2>1, <2>2, InsideMeansLoaded
        DEF BuffLock, Goto, devVars, heapVars, QuietMove, DriverInv,
            LocksMatchCalls
    <2> QED
      BY <2>3
  <1>3. CASE SeekLoad(p)
    <2>1. FrameFit(p)
      BY <1>3 DEF SeekLoad, Goto, FrameFit, DriverInv, FrameInv, NoCall
    <2>2. LockMove(p, "s_store")
      BY <1>3, InsideMeansLoaded
        DEF SeekLoad, Goto, devVars, lockVars, heapVars, LockMove, Passes,
            DriverInv, LocksMatchCalls
    <2>3. QuietMove(p, "s_store")
      BY <1>3, <2>1, <2>2, InsideMeansLoaded
        DEF SeekLoad, Goto, devVars, lockVars, heapVars, QuietMove,
            DriverInv, LocksMatchCalls
    <2> QED
      BY <2>3
  <1>4. CASE SeekStore(p)
    <2>1. FrameFit(p) /\ call'[p] = call[p]
      BY <1>4, SameFrameFits DEF SeekStore, Goto
    <2>2. LockMove(p, "s_ret")
      BY <1>4, InsideMeansLoaded
        DEF SeekStore, Goto, devVars, lockVars, heapVars, LockMove, Passes,
            DriverInv, LocksMatchCalls
    <2>3. QuietMove(p, "s_ret")
      BY <1>4, <2>1, <2>2, InsideMeansLoaded
        DEF SeekStore, Goto, devVars, lockVars, heapVars, QuietMove,
            DriverInv, LocksMatchCalls
    <2> QED
      BY <2>3
  <1>5. CASE SeekReturn(p)
    <2>1. FrameFit(p)
      BY <1>5, ReturnFits DEF SeekReturn
    <2>2. LockMove(p, "idle")
      BY <1>5, InsideMeansLoaded
        DEF SeekReturn, Return, Goto, devVars, lockVars, heapVars, LockMove,
            Passes, DriverInv, LocksMatchCalls
    <2>3. QuietMove(p, "idle")
      BY <1>5, <2>1, <2>2, InsideMeansLoaded
        DEF SeekReturn, Return, Goto, devVars, lockVars, heapVars, QuietMove,
            DriverInv, LocksMatchCalls
    <2> QED
      BY <2>3
  <1> QED
    BY <1>1, <1>2, <1>3, <1>4, <1>5

(* The steps of an ioctl, and interrupted waits for the buffer mutex. *)
LEMMA IoctlSteps ==
  ASSUME DriverInv, NEW p \in Procs,
         \/ IoctlRejected(p) \/ IoctlCall(p) \/ IoctlLock(p)
         \/ IoctlSeekTo(p) \/ IoctlInvalid(p) \/ BuffLockInterrupted(p)
  PROVE  \E to : QuietMove(p, to)
  <1> USE DEF PCs, HoldsEntryMutex, HoldsBuffMutex, Waiting, InUserSpace
  <1>1. CASE IoctlRejected(p)
    <2>1. FrameFit(p)
      BY <1>1, ReturnFits DEF IoctlRejected
    <2>2. LockMove(p, "idle")
      BY <1>1, InsideMeansLoaded
        DEF IoctlRejected, Return, Goto, devVars, lockVars, heapVars,
            LockMove, Passes, DriverInv, LocksMatchCalls
    <2>3. QuietMove(p, "idle")
      BY <1>1, <2>1, <2>2, InsideMeansLoaded
        DEF IoctlRejected, Return, Goto, devVars, lockVars, heapVars,
            QuietMove, DriverInv, LocksMatchCalls
    <2> QED
      BY <2>3
  <1>2. CASE IoctlCall(p)
    <2>1. FrameFit(p)
      BY <1>2 DEF IoctlCall, Enter, FrameFit, DriverInv, FrameInv, NoCall
    <2>2. LockMove(p, "i_lock")
      BY <1>2, InsideMeansLoaded
        DEF IoctlCall, Enter, Goto, devVars, lockVars, heapVars, LockMove,
            Passes, DriverInv, LocksMatchCalls
    <2>3. QuietMove(p, "i_lock")
      BY <1>2, <2>1, <2>2, InsideMeansLoaded
        DEF IoctlCall, Enter, Goto, devVars, lockVars, heapVars, QuietMove,
            DriverInv, LocksMatchCalls
    <2> QED
      BY <2>3
  <1>3. CASE IoctlLock(p)
    <2>1. FrameFit(p) /\ call'[p] = call[p]
      BY <1>3, SameFrameFits DEF IoctlLock, BuffLock, Goto
    <2>2. LockMove(p, "i_seek")
      BY <1>3, InsideMeansLoaded
        DEF IoctlLock, BuffLock, Goto, devVars, lockVars, heapVars, LockMove,
            Passes, DriverInv, LocksMatchCalls
    <2>3. QuietMove(p, "i_seek")
      BY <1>3, <2>1, <2>2, InsideMeansLoaded
        DEF IoctlLock, BuffLock, Goto, devVars, lockVars, heapVars,
            QuietMove, DriverInv, LocksMatchCalls
    <2> QED
      BY <2>3
  <1>4. CASE IoctlSeekTo(p)
    <2>1. FrameFit(p)
      BY <1>4, ReturnFits DEF IoctlSeekTo
    <2>2. LockMove(p, "idle")
      BY <1>4, InsideMeansLoaded
        DEF IoctlSeekTo, Return, Goto, devVars, lockVars, heapVars, LockMove,
            Passes, DriverInv, LocksMatchCalls
    <2>3. QuietMove(p, "idle")
      BY <1>4, <2>1, <2>2, InsideMeansLoaded
        DEF IoctlSeekTo, Return, Goto, devVars, lockVars, heapVars,
            QuietMove, DriverInv, LocksMatchCalls
    <2> QED
      BY <2>3
  <1>5. CASE IoctlInvalid(p)
    <2>1. FrameFit(p)
      BY <1>5, ReturnFits DEF IoctlInvalid
    <2>2. LockMove(p, "idle")
      BY <1>5, InsideMeansLoaded
        DEF IoctlInvalid, Return, Goto, devVars, lockVars, heapVars,
            LockMove, Passes, DriverInv, LocksMatchCalls
    <2>3. QuietMove(p, "idle")
      BY <1>5, <2>1, <2>2, InsideMeansLoaded
        DEF IoctlInvalid, Return, Goto, devVars, lockVars, heapVars,
            QuietMove, DriverInv, LocksMatchCalls
    <2> QED
      BY <2>3
  <1>6. CASE BuffLockInterrupted(p)
    <2>1. FrameFit(p)
      BY <1>6, ReturnFits DEF BuffLockInterrupted
    <2>2. LockMove(p, "idle")
      BY <1>6, InsideMeansLoaded
        DEF BuffLockInterrupted, Return, Goto, devVars, lockVars, heapVars,
            LockMove, Passes, DriverInv, LocksMatchCalls
    <2>3. QuietMove(p, "idle")
      BY <1>6, <2>1, <2>2, InsideMeansLoaded
        DEF BuffLockInterrupted, Return, Goto, devVars, lockVars, heapVars,
            QuietMove, DriverInv, LocksMatchCalls
    <2> QED
      BY <2>3
  <1> QED
    BY <1>1, <1>2, <1>3, <1>4, <1>5, <1>6

(* All the quiet steps. *)
Quiet(p) ==
  \/ aesd_open(p) \/ aesd_release(p)
  \/ WriteLock(p) \/ WriteTooLarge(p) \/ WriteInterrupted(p)
  \/ WriteDone(p) \/ FlushLock(p) \/ FlushInterrupted(p)
  \/ ReadCall(p) \/ ReadLock(p) \/ ReadFind(p) \/ ReadEnd(p) \/ ReadCopy(p)
  \/ SeekCall(p) \/ SeekLock(p) \/ SeekLoad(p) \/ SeekStore(p) \/ SeekReturn(p)
  \/ IoctlRejected(p) \/ IoctlCall(p) \/ IoctlLock(p)
  \/ IoctlSeekTo(p) \/ IoctlInvalid(p) \/ BuffLockInterrupted(p)

LEMMA QuietSteps ==
  ASSUME DriverInv, NEW p \in Procs, Quiet(p)
  PROVE  \E to : QuietMove(p, to)
  BY OpenCloseSteps, WriteLockSteps, ReadSteps, SeekSteps, IoctlSteps DEF Quiet

-----------------------------------------------------------------------------
(* Steps that change the staging buffer, the ring or the heap. *)

(* Whoever holds the entry mutex is the only one between the locking and   *)
(* the unlocking of it.                                                    *)
LEMMA OneWriter ==
  ASSUME DriverInv, NEW p \in Procs, pc[p] \in HoldsEntryMutex
  PROVE  \A q \in Procs \ {p} : pc[q] \notin HoldsEntryMutex
  BY DEF DriverInv, LocksMatchCalls

(* A write enters: entry.size is set although another process may be in    *)
(* the middle of a write, for which it already has that value.             *)
LEMMA WriteCallStep ==
  ASSUME DriverInv, NEW p \in Procs, WriteCall(p)
  PROVE  DriverInv'
  <1> USE DEF PCs, HoldsEntryMutex, HoldsBuffMutex, Waiting, InUserSpace
  <1>1. PICK data \in Payloads :
          Enter(p, "w_lock", [NoCall EXCEPT !.rest = data, !.count = Len(data)])
    BY DEF WriteCall
  <1>2. data \in Seq(Byte)
    BY DriverAssumption
  <1>3. FrameFit(p) /\ call'[p].rest = data /\ call'[p].count = Len(data)
    BY <1>1, <1>2 DEF Enter, FrameFit, DriverInv, FrameInv, NoCall
  <1>4. LockMove(p, "w_lock")
    BY <1>1 DEF WriteCall, Enter, Goto, lockVars, LockMove, Passes
  <1>5. /\ LocksMatchCalls'
        /\ entryMutex' \in Procs \cup {NoProc}
        /\ buffMutex' \in Procs \cup {NoProc}
        /\ pc' \in [Procs -> PCs]
        /\ pc'[p] = "w_lock"
        /\ \A q \in Procs \ {p} : pc'[q] = pc[q]
    BY <1>4, LocksFollow
  <1>6. pc[p] = "idle" /\ loaded
    BY <1>1, InsideMeansLoaded DEF Enter, Goto
  <1>7. /\ UNCHANGED <<loaded, buff, allocated, mem>>
        /\ entry' = [entry EXCEPT !.size = KMALLOC_MAX_SIZE]
    BY DEF WriteCall, heapVars
  <1>8. entry'.buffPtr = entry.buffPtr /\ entry'.endIdx = entry.endIdx
        /\ entry'.size = KMALLOC_MAX_SIZE
    BY <1>7 DEF DriverInv, MemoryTypes
  <1> HIDE DEF PCs, HoldsEntryMutex, HoldsBuffMutex, Waiting, InUserSpace
  <1>9. MemoryTypes'
    BY <1>5, <1>7 DEF DriverInv, MemoryTypes
  <1>10. FrameInv'
    BY <1>3, <1>5 DEF DriverInv, FrameInv, FrameFit, Pointer
  <1>11. StageInv'
    BY <1>5, <1>7, <1>8 DEF DriverInv, StageInv, HoldsEntryMutex
  <1>12. Handover' = Handover
    BY <1>5, <1>6 DEF Handover
  <1>13. \A q \in Procs : call'[q].freePtr = call[q].freePtr
    BY <1>3, <1>6 DEF FrameFit, DriverInv, FrameInv
  <1>14. OneOwner'
    BY <1>7, <1>8, <1>12, <1>13 DEF DriverInv, OneOwner
  <1>15. NoLeak'
    BY <1>7, <1>8, <1>13 DEF DriverInv, NoLeak, Owned
  <1>16. RequestStaysPossible'
    BY <1>3, <1>5, <1>8
    DEF DriverInv, RequestStaysPossible, StageInv, FrameFit, HoldsEntryMutex
  <1>17. EntriesEndLines'
    BY <1>7 DEF DriverInv, EntriesEndLines
  <1> QED
    BY <1>5, <1>6, <1>7, <1>9, <1>10, <1>11, <1>14, <1>15, <1>16, <1>17 DEF DriverInv

(* StorePartial called by p, which goes on to flush or to return.  What it *)
(* copies has no newline except at the end of a line about to be flushed.  *)
StoreMove(p, to, b, chunk) ==
  /\ pc[p] = "w_scan"
  /\ to \in {"idle", "f_lock"}
  /\ LockMove(p, to)
  /\ FrameFit(p)
  /\ UNCHANGED <<loaded, buff>>
  /\ b \in StagePtrs
  /\ chunk \in Seq(Byte)
  /\ Len(chunk) > 0
  /\ StorePartial(b, chunk)
  /\ to = "f_lock" =>
       /\ StoreFits(b, Len(chunk))
       /\ chunk[Len(chunk)] = Newline
       /\ Len(call'[p].rest) = Len(call[p].rest) - Len(chunk)
  /\ StoreFits(b, Len(chunk)) =>
       \A j \in DOMAIN chunk :
         chunk[j] = Newline => j = Len(chunk) /\ to = "f_lock"
  /\ StoreFits(b, Len(chunk)) =>
       chunk = IF to = "f_lock" THEN SubSeq(call[p].rest, 1, Len(chunk))
                                ELSE call[p].rest

(* StorePartial keeps the invariant whether it succeeds, finds no memory   *)
(* or finds no room.                                                       *)
LEMMA StoreStep ==
  ASSUME DriverInv, NEW p \in Procs, NEW to, NEW b, NEW chunk,
         StoreMove(p, to, b, chunk)
  PROVE  DriverInv'
  <1> DEFINE fits == StoreFits(b, Len(chunk))
             t == Staged(b, chunk)
  <1>0. /\ LocksMatchCalls'
        /\ entryMutex' \in Procs \cup {NoProc}
        /\ buffMutex' \in Procs \cup {NoProc}
        /\ pc' \in [Procs -> PCs]
        /\ pc'[p] = to
        /\ \A q \in Procs \ {p} : pc'[q] = pc[q]
    BY LocksFollow DEF StoreMove
  <1>1. \A q \in Procs \ {p} : pc[q] \notin HoldsEntryMutex /\ pc'[q] = pc[q]
    BY <1>0, OneWriter DEF StoreMove, HoldsEntryMutex
  <1>2. ~Handover /\ ~Handover'
    BY <1>0, <1>1 DEF StoreMove, Handover, HoldsEntryMutex
  <1>3. \A q \in Procs : call'[q].freePtr = NULL /\ call[q].freePtr = NULL
    BY <1>2 DEF StoreMove, FrameFit, DriverInv, FrameInv, Handover
  <1>4. loaded /\ loaded' /\ buff' = buff
    BY InsideMeansLoaded DEF StoreMove
  <1>5. /\ entry.endIdx \in Nat
        /\ entry.size = KMALLOC_MAX_SIZE
        /\ KMALLOC_MAX_SIZE \in Nat
        /\ Len(chunk) \in Nat
        /\ b \in Blocks \cup {NULL}
        /\ entry.buffPtr \in Blocks \cup {NULL}
        /\ NULL \notin Blocks
    BY DriverAssumption
    DEF StoreMove, DriverInv, MemoryTypes, StageInv, HoldsEntryMutex, StagePtrs,
        Pointer
  <1>6. b # NULL => b \in Blocks /\ mem[b] \in Seq(Byte) /\ entry.endIdx \in 0 .. Len(mem[b])
    BY <1>5 DEF StoreMove, StagePtrs, DriverInv, MemoryTypes, StageInv
  <1>7. b # NULL => /\ t \in Seq(Byte)
                    /\ Len(t) = entry.endIdx + Len(chunk)
                    /\ t[Len(t)] = chunk[Len(chunk)]
    BY <1>6, StageChunk DEF StoreMove, Staged
  <1>8. fits => b # NULL /\ entry.endIdx + Len(chunk) <= KMALLOC_MAX_SIZE
    BY <1>5 DEF StoreFits
  <1>9. /\ allocated' = allocated \cup ({b} \ {NULL})
        /\ mem' = IF fits THEN [mem EXCEPT ![b] = t] ELSE mem
        /\ entry'.buffPtr = b
        /\ entry'.endIdx = IF fits THEN entry.endIdx + Len(chunk) ELSE entry.endIdx
        /\ entry'.size = KMALLOC_MAX_SIZE
        /\ entry' \in [buffPtr : Pointer, size : {0, KMALLOC_MAX_SIZE},
                       endIdx : 0 .. KMALLOC_MAX_SIZE]
    <2> DEFINE end == IF fits THEN entry.endIdx + Len(chunk) ELSE entry.endIdx
    <2>1. entry.endIdx \in 0 .. KMALLOC_MAX_SIZE
      BY DEF DriverInv, MemoryTypes
    <2>2. end \in 0 .. KMALLOC_MAX_SIZE
      BY <1>5, <1>8, <2>1
    <2>3. /\ allocated' = allocated \cup ({b} \ {NULL})
          /\ mem' = IF fits THEN [mem EXCEPT ![b] = t] ELSE mem
          /\ entry' = [entry EXCEPT !.buffPtr = b, !.endIdx = end]
      BY DEF StoreMove, StorePartial
    <2> HIDE DEF end
    <2>4. /\ entry'.buffPtr = b /\ entry'.endIdx = end
          /\ entry'.size = KMALLOC_MAX_SIZE
          /\ entry' \in [buffPtr : Pointer, size : {0, KMALLOC_MAX_SIZE},
                         endIdx : 0 .. KMALLOC_MAX_SIZE]
      BY <1>5, <2>2, <2>3 DEF DriverInv, MemoryTypes, Pointer
    <2> QED
      BY <2>3, <2>4 DEF end
  <1> HIDE DEF fits, t
  <1>10. b \notin Pointers(buff)
    BY <1>2, <1>5 DEF StoreMove, StagePtrs, DriverInv, OneOwner, NoLeak, Owned, Pointers
  <1>11. \A c \in Blocks \ {b} : mem'[c] = mem[c]
    BY <1>9 DEF DriverInv, MemoryTypes
  <1>12. fits => mem'[b] = t
    BY <1>6, <1>8, <1>9 DEF DriverInv, MemoryTypes
  <1>13. MemoryTypes'
    <2>1. mem' \in [Blocks -> Seq(Byte)]
      BY <1>7, <1>8, <1>9 DEF DriverInv, MemoryTypes
    <2>2. \A c \in Blocks : Len(mem'[c]) <= KMALLOC_MAX_SIZE
      BY <1>7, <1>8, <1>9, <1>11, <1>12 DEF DriverInv, MemoryTypes
    <2> QED
      BY <1>0, <1>4, <1>5, <1>9, <2>1, <2>2 DEF DriverInv, MemoryTypes
  <1>14. FrameInv'
    BY <1>0, <1>1 DEF StoreMove, FrameFit, DriverInv, FrameInv, Pointer
  <1>15. StageInv'
    <2>1. entry'.buffPtr = NULL => entry'.endIdx = 0
      BY <1>8, <1>9 DEF StoreMove, StagePtrs, DriverInv, StageInv
    <2>2. entry'.buffPtr # NULL => entry'.endIdx <= Len(mem'[entry'.buffPtr])
      BY <1>5, <1>6, <1>7, <1>8, <1>9, <1>12
    <2>3. to = "f_lock" => /\ entry'.buffPtr # NULL
                           /\ entry'.endIdx > 0
                           /\ mem'[entry'.buffPtr][entry'.endIdx] = Newline
      BY <1>5, <1>6, <1>7, <1>8, <1>9, <1>12 DEF StoreMove, fits
    <2> QED
      BY <1>0, <1>1, <1>9, <2>1, <2>2, <2>3 DEF StoreMove, StageInv, HoldsEntryMutex
  <1>16. OneOwner'
    BY <1>3, <1>4, <1>9, <1>10 DEF DriverInv, OneOwner
  <1>17. NoLeak'
    <2>1. allocated = (Pointers(buff) \cup {entry.buffPtr}) \ {NULL}
      BY <1>3 DEF DriverInv, NoLeak, Owned
    <2>2. entry.buffPtr = NULL \/ entry.buffPtr = b
      BY DEF StoreMove, StagePtrs
    <2>3. NULL \notin Pointers(buff)
      BY DEF Pointers
    <2>4. allocated' = (Pointers(buff) \cup {b}) \ {NULL}
      BY <1>9, <2>1, <2>2, <2>3
    <2>5. Owned' = (Pointers(buff) \cup {b}) \ {NULL}
      BY <1>3, <1>4, <1>9 DEF Owned
    <2> QED
      BY <1>4, <2>4, <2>5 DEF NoLeak
  <1>18. RequestStaysPossible'
    <2>1. entry.endIdx + Len(call[p].rest) <= KMALLOC_MAX_SIZE
      BY <1>5 DEF StoreMove, DriverInv, RequestStaysPossible, HoldsEntryMutex
    <2>2. Len(call[p].rest) \in Nat /\ Len(call'[p].rest) \in Nat
      BY DEF StoreMove, FrameFit, DriverInv, FrameInv
    <2>3. to = "f_lock" => entry'.endIdx + Len(call'[p].rest) <= entry'.size
      BY <1>5, <1>9, <2>1, <2>2 DEF StoreMove, fits
    <2> QED
      BY <1>0, <1>1, <2>3 DEF StoreMove, RequestStaysPossible, HoldsEntryMutex
  <1>19. EntriesEndLines'
    <2>1. \A i \in Slots : buff.entry[i].buffptr # NULL =>
            buff.entry[i].buffptr \in Blocks \ {b}
      BY <1>5, <1>10 DEF DriverInv, MemoryTypes, BufferType, Entries, EmptyEntry, Pointers
    <2> QED
      BY <1>4, <1>11, <2>1 DEF DriverInv, EntriesEndLines
  <1> QED
    BY <1>0, <1>4, <1>13, <1>14, <1>15, <1>16, <1>17, <1>18, <1>19 DEF DriverInv

(* The three places where aesd_write calls StorePartial. *)
LEMMA WriteStoreSteps ==
  ASSUME DriverInv, NEW p \in Procs,
         WriteLine(p) \/ WriteLineFails(p) \/ WriteLeftover(p)
  PROVE  \E to, b, chunk : StoreMove(p, to, b, chunk)
  <1> DEFINE s == call[p].rest
  <1>1. s \in Seq(Byte) /\ Len(s) \in Nat
    BY DEF DriverInv, FrameInv
  <1>2. CASE WriteLine(p)
    <2>1. PICK k \in DOMAIN s, b \in StagePtrs :
            /\ EndsLine(s, k)
            /\ StoreFits(b, k)
            /\ StorePartial(b, SubSeq(s, 1, k))
            /\ call' = [call EXCEPT ![p].rest = SubSeq(s, k + 1, Len(s))]
      BY <1>2 DEF WriteLine
    <2>2. /\ SubSeq(s, 1, k) \in Seq(Byte)
          /\ Len(SubSeq(s, 1, k)) = k
          /\ k > 0
          /\ SubSeq(s, 1, k)[k] = Newline
          /\ \A j \in 1 .. k : SubSeq(s, 1, k)[j] = Newline => j = k
          /\ SubSeq(s, k + 1, Len(s)) \in Seq(Byte)
          /\ Len(SubSeq(s, k + 1, Len(s))) = Len(s) - k
      <3>1. /\ SubSeq(s, 1, k) \in Seq(Byte)
            /\ Len(SubSeq(s, 1, k)) = k
            /\ \A j \in 1 .. k : SubSeq(s, 1, k)[j] = s[j]
            /\ SubSeq(s, k + 1, Len(s)) \in Seq(Byte)
            /\ Len(SubSeq(s, k + 1, Len(s))) = Len(s) - k
            /\ k \in 1 .. Len(s)
        <4> HIDE DEF s
        <4> QED BY ONLY <1>1, SplitInput
      <3>2. s[k] = Newline /\ \A j \in 1 .. k - 1 : s[j] # Newline
        BY <2>1 DEF EndsLine
      <3> DEFINE t == SubSeq(s, 1, k)
      <3> HIDE DEF t, s
      <3>3. k > 0 /\ t[k] = Newline
        BY <1>1, <3>1, <3>2 DEF t
      <3>4. \A j \in 1 .. k : t[j] = Newline => j = k
        BY <1>1, <3>1, <3>2 DEF t
      <3> QED
        BY <3>1, <3>3, <3>4 DEF t
    <2>3. pc[p] = "w_scan" /\ UNCHANGED <<loaded, buff>>
      BY <1>2 DEF WriteLine, Goto
    <2>4. FrameFit(p) /\ call'[p].rest = SubSeq(s, k + 1, Len(s))
      BY <2>1, <2>2, <2>3 DEF FrameFit, DriverInv, FrameInv, NoCall
    <2>5. LockMove(p, "f_lock")
      BY <1>2
      DEF WriteLine, Goto, lockVars, LockMove, Passes, DriverInv, LocksMatchCalls,
          PCs, HoldsEntryMutex, HoldsBuffMutex
    <2>6. StoreMove(p, "f_lock", b, SubSeq(s, 1, k))
      <3> DEFINE t == SubSeq(s, 1, k)
                 u == SubSeq(s, k + 1, Len(s))
      <3>1. /\ t \in Seq(Byte) /\ Len(t) = k /\ k > 0
            /\ t[k] = Newline
            /\ \A j \in 1 .. k : t[j] = Newline => j = k
        BY <2>2
      <3>2. StoreFits(b, k) /\ StorePartial(b, t) /\ b \in StagePtrs
        BY <2>1
      <3>3. Len(call'[p].rest) = Len(s) - k
        BY <2>2, <2>4
      <3> HIDE DEF t
      <3>4. DOMAIN t = 1 .. k
        BY <3>1
      <3> QED
        BY <2>3, <2>4, <2>5, <3>1, <3>2, <3>3, <3>4 DEF StoreMove, t
    <2> QED
      BY <2>6
  <1>3. CASE WriteLineFails(p)
    <2>1. PICK k \in DOMAIN s, b \in StagePtrs :
            ~StoreFits(b, k) /\ StorePartial(b, SubSeq(s, 1, k))
      BY <1>3 DEF WriteLineFails
    <2>2. /\ SubSeq(s, 1, k) \in Seq(Byte)
          /\ Len(SubSeq(s, 1, k)) > 0
          /\ Len(SubSeq(s, 1, k)) = k
      <3> HIDE DEF s
      <3> QED BY ONLY <1>1, SplitInput
    <2>3. pc[p] = "w_scan" /\ UNCHANGED <<loaded, buff>>
      BY <1>3 DEF WriteLineFails, Return, Goto
    <2>4. FrameFit(p)
      BY <1>3, ReturnFits DEF WriteLineFails
    <2>5. LockMove(p, "idle")
      BY <1>3
      DEF WriteLineFails, Return, Goto, LockMove, Passes, DriverInv, LocksMatchCalls,
          PCs, HoldsEntryMutex, HoldsBuffMutex, InUserSpace
    <2>6. StoreMove(p, "idle", b, SubSeq(s, 1, k))
      BY <2>1, <2>2, <2>3, <2>4, <2>5 DEF StoreMove
    <2> QED
      BY <2>6
  <1>4. CASE WriteLeftover(p)
    <2>1. PICK b \in StagePtrs : StorePartial(b, s)
      BY <1>4 DEF WriteLeftover
    <2>2. Len(s) > 0 /\ \A j \in DOMAIN s : s[j] # Newline
      BY <1>1, <1>4, EmptySeq DEF WriteLeftover, HasLine
    <2>3. pc[p] = "w_scan" /\ UNCHANGED <<loaded, buff>>
      BY <1>4 DEF WriteLeftover, Return, Goto
    <2>4. FrameFit(p)
      BY <1>4, ReturnFits DEF WriteLeftover
    <2>5. LockMove(p, "idle")
      BY <1>4
      DEF WriteLeftover, Return, Goto, LockMove, Passes, DriverInv, LocksMatchCalls,
          PCs, HoldsEntryMutex, HoldsBuffMutex, InUserSpace
    <2>6. StoreMove(p, "idle", b, s)
      BY <1>1, <2>1, <2>2, <2>3, <2>4, <2>5 DEF StoreMove
    <2> QED
      BY <2>6
  <1> QED
    BY <1>2, <1>3, <1>4

(* The staged line becomes an entry; its block now has two names until     *)
(* FlushPartial clears the stage, and the displaced block only one.        *)
LEMMA FlushAddStep ==
  ASSUME DriverInv, NEW p \in Procs, FlushAdd(p)
  PROVE  DriverInv'
  <1> DEFINE e == [buffptr |-> entry.buffPtr, size |-> entry.endIdx]
             in == buff.in_offs
  <1>1. /\ pc[p] = "f_add"
        /\ UNCHANGED <<loaded, entry, allocated, mem, entryMutex, buffMutex>>
        /\ call' = [call EXCEPT ![p].freePtr = ReplacedPtr(buff)]
        /\ buff' = aesd_circular_buffer_add_entry(buff, e)
    BY DEF FlushAdd, Goto, lockVars, heapVars
  <1>2. LockMove(p, "f_free")
    BY DEF FlushAdd, Goto, lockVars, LockMove, Passes, DriverInv, LocksMatchCalls,
           PCs, HoldsEntryMutex, HoldsBuffMutex
  <1>3. /\ LocksMatchCalls'
        /\ entryMutex' \in Procs \cup {NoProc}
        /\ buffMutex' \in Procs \cup {NoProc}
        /\ pc' \in [Procs -> PCs]
        /\ pc'[p] = "f_free"
        /\ \A q \in Procs \ {p} : pc'[q] = pc[q]
    BY <1>2, LocksFollow
  <1>4. \A q \in Procs \ {p} : pc[q] \notin HoldsEntryMutex
    BY <1>1, OneWriter DEF HoldsEntryMutex
  <1>5. ~Handover /\ Handover'
    BY <1>1, <1>3, <1>4 DEF Handover, HoldsEntryMutex
  <1>6. /\ loaded
        /\ entry.buffPtr \in Blocks
        /\ entry.endIdx \in 1 .. KMALLOC_MAX_SIZE
        /\ entry.endIdx <= Len(mem[entry.buffPtr])
        /\ mem[entry.buffPtr][entry.endIdx] = Newline
        /\ NULL \notin Blocks
    BY <1>1, InsideMeansLoaded, DriverAssumption
    DEF DriverInv, StageInv, MemoryTypes, Pointer
  <1>7. entry.buffPtr \notin Pointers(buff)
    BY <1>5 DEF DriverInv, OneOwner
  <1>8. /\ in \in Slots
        /\ buff.entry \in [Slots -> Entries \cup {EmptyEntry}]
        /\ buff.out_offs \in Slots
    BY DEF DriverInv, MemoryTypes, BufferType
  <1>9. e \in Entries /\ e.buffptr = entry.buffPtr /\ e.size = entry.endIdx
    BY <1>6 DEF Entries
  <1> HIDE DEF e, in
  <1>10. /\ buff'.entry = [buff.entry EXCEPT ![in] = e]
         /\ buff'.entry[in] = e
         /\ \A i \in Slots \ {in} : buff'.entry[i] = buff.entry[i]
    BY <1>1, <1>8 DEF aesd_circular_buffer_add_entry, in
  <1>11. buff' \in BufferType(Entries)
    <2>1. NextIn(buff) \in Slots
      BY <1>8, CapacityAssumption DEF NextIn, Slots, Capacity, in
    <2>2. [buff.entry EXCEPT ![in] = e] \in [Slots -> Entries \cup {EmptyEntry}]
      BY <1>8, <1>9
    <2>3. (IF buff.full THEN NextIn(buff) ELSE buff.out_offs) \in Slots
      BY <1>8, <2>1
    <2> QED
      BY <1>1, <2>1, <2>2, <2>3 DEF aesd_circular_buffer_add_entry, BufferType, in
  <1>12. /\ \A q \in Procs \ {p} : call'[q] = call[q]
         /\ DOMAIN call' = Procs
         /\ DOMAIN call'[p] = DOMAIN NoCall
         /\ call'[p].rest = call[p].rest
         /\ call'[p].freePtr = buff.entry[in].buffptr
    BY <1>1 DEF DriverInv, FrameInv, NoCall, ReplacedPtr, in
  <1>13. \A q \in Procs : call[q].freePtr = NULL /\ (q # p => call'[q].freePtr = NULL)
    BY <1>5, <1>12 DEF DriverInv, FrameInv, Handover
  <1>14. MemoryTypes'
    BY <1>1, <1>3, <1>11 DEF DriverInv, MemoryTypes
  <1>15. FrameInv'
    <2>1. buff.entry[in].buffptr \in Pointer
      BY <1>8 DEF Entries, EmptyEntry, Pointer
    <2>2. \A q \in Procs : DOMAIN call[q] = DOMAIN NoCall /\ call[q].rest \in Seq(Byte)
      BY DEF DriverInv, FrameInv
    <2>3. \A q \in Procs : call'[q].freePtr \in Pointer
      BY <1>12, <1>13, <2>1 DEF Pointer
    <2>4. \A q \in Procs : call'[q].count = Len(call'[q].rest) \/ pc'[q] # "w_lock"
      BY <1>3, <1>12 DEF DriverInv, FrameInv
    <2> QED
      BY <1>3, <1>12, <1>13, <2>2, <2>3, <2>4 DEF FrameInv
  <1>16. entry.buffPtr \in Pointers(buff')
    BY <1>6, <1>8, <1>9, <1>10 DEF Pointers
  <1>17. StageInv'
    BY <1>1, <1>3, <1>4, <1>6, <1>16
    DEF DriverInv, StageInv, HoldsEntryMutex
  <1>18. OneOwner'
    <2>1. \A i \in Slots : buff.entry[i].buffptr # entry.buffPtr
      BY <1>6, <1>7 DEF Pointers
    <2>2. \A i, j \in Slots : i # j /\ buff'.entry[i].buffptr # NULL =>
            buff'.entry[i].buffptr # buff'.entry[j].buffptr
      BY <1>8, <1>9, <1>10, <2>1 DEF DriverInv, OneOwner
    <2>3. buff.entry[in].buffptr # NULL =>
            buff.entry[in].buffptr \notin Pointers(buff') \cup {entry.buffPtr}
      BY <1>8, <1>9, <1>10, <2>1 DEF DriverInv, OneOwner, Pointers
    <2> QED
      BY <1>1, <1>5, <1>12, <1>13, <2>2, <2>3 DEF OneOwner
  <1>19. NoLeak'
    <2>1. allocated = (Pointers(buff) \cup {entry.buffPtr}) \ {NULL}
      BY <1>13 DEF DriverInv, NoLeak, Owned
    <2>2. Owned' = (Pointers(buff') \cup {entry.buffPtr, buff.entry[in].buffptr}) \ {NULL}
      BY <1>1, <1>12, <1>13 DEF Owned
    <2>3. \A c : c \in Pointers(buff) =>
            c \in Pointers(buff') \/ c = buff.entry[in].buffptr
      BY <1>8, <1>10 DEF Pointers
    <2>4. \A c : c \in Pointers(buff') => c \in Pointers(buff) \/ c = entry.buffPtr
      BY <1>8, <1>9, <1>10 DEF Pointers
    <2>5. buff.entry[in].buffptr # NULL => buff.entry[in].buffptr \in Pointers(buff)
      BY <1>8 DEF Pointers
    <2>6. allocated = Owned'
      BY <2>1, <2>2, <2>3, <2>4, <2>5
    <2> QED
      BY <1>1, <1>6, <2>6 DEF NoLeak
  <1>20. RequestStaysPossible'
    BY <1>1, <1>3, <1>4, <1>12
    DEF DriverInv, RequestStaysPossible, HoldsEntryMutex
  <1>21. EntriesEndLines'
    BY <1>1, <1>6, <1>8, <1>9, <1>10 DEF DriverInv, EntriesEndLines
  <1> QED
    BY <1>1, <1>3, <1>6, <1>14, <1>15, <1>17, <1>18, <1>19, <1>20, <1>21
    DEF DriverInv

(* The displaced block is freed and the stage forgets the one it gave up. *)
LEMMA FlushFreeStep ==
  ASSUME DriverInv, NEW p \in Procs, FlushFree(p)
  PROVE  DriverInv'
  <1> DEFINE d == call[p].freePtr
  <1>1. /\ pc[p] = "f_free"
        /\ UNCHANGED <<loaded, buff>>
        /\ allocated' = allocated \ {d}
        /\ mem' = [b \in Blocks |-> IF b \in {d} THEN <<>> ELSE mem[b]]
        /\ entry' = [entry EXCEPT !.buffPtr = NULL, !.endIdx = 0]
        /\ call' = [call EXCEPT ![p].freePtr = NULL]
    BY DEF FlushFree, Goto, kfree, FlushFrees, EmptiedStage
  <1>2. LockMove(p, "w_scan")
    BY DEF FlushFree, Goto, LockMove, Passes, DriverInv, LocksMatchCalls,
           PCs, HoldsEntryMutex, HoldsBuffMutex
  <1>3. /\ LocksMatchCalls'
        /\ entryMutex' \in Procs \cup {NoProc}
        /\ buffMutex' \in Procs \cup {NoProc}
        /\ pc' \in [Procs -> PCs]
        /\ pc'[p] = "w_scan"
        /\ \A q \in Procs \ {p} : pc'[q] = pc[q]
    BY <1>2, LocksFollow
  <1>4. \A q \in Procs \ {p} : pc[q] \notin HoldsEntryMutex
    BY <1>1, OneWriter DEF HoldsEntryMutex
  <1>5. ~Handover'
    BY <1>3, <1>4 DEF Handover, HoldsEntryMutex
  <1>6. /\ loaded
        /\ entry.size = KMALLOC_MAX_SIZE
        /\ entry.endIdx \in Nat
        /\ entry.buffPtr \in Pointers(buff)
        /\ entry.endIdx + Len(call[p].rest) <= entry.size
        /\ KMALLOC_MAX_SIZE \in Nat
    BY <1>1, InsideMeansLoaded, DriverAssumption
    DEF DriverInv, StageInv, MemoryTypes, RequestStaysPossible, HoldsEntryMutex
  <1>7. d # NULL => d \notin Pointers(buff)
    BY DEF DriverInv, OneOwner
  <1> HIDE DEF d
  <1>8. /\ entry'.buffPtr = NULL
        /\ entry'.endIdx = 0
        /\ entry'.size = KMALLOC_MAX_SIZE
        /\ entry' \in [buffPtr : Pointer, size : {0, KMALLOC_MAX_SIZE},
                       endIdx : 0 .. KMALLOC_MAX_SIZE]
    <2>1. entry \in [buffPtr : Pointer, size : {0, KMALLOC_MAX_SIZE},
                     endIdx : 0 .. KMALLOC_MAX_SIZE]
      BY DEF DriverInv, MemoryTypes
    <2>2. NULL \in Pointer /\ 0 \in 0 .. KMALLOC_MAX_SIZE
      BY <1>6 DEF Pointer
    <2> QED
      BY <1>1, <1>6, <2>1, <2>2
  <1>9. /\ \A q \in Procs \ {p} : call'[q] = call[q]
        /\ DOMAIN call' = Procs
        /\ DOMAIN call'[p] = DOMAIN NoCall
        /\ call'[p].rest = call[p].rest
        /\ call'[p].freePtr = NULL
    BY <1>1 DEF DriverInv, FrameInv, NoCall
  <1>10. \A q \in Procs : /\ call'[q].freePtr = NULL
                          /\ q # p => call[q].freePtr = NULL
    BY <1>4, <1>9 DEF DriverInv, FrameInv, HoldsEntryMutex
  <1>11. Len(call[p].rest) \in Nat /\ call[p].rest \in Seq(Byte)
    BY DEF DriverInv, FrameInv
  <1>12. MemoryTypes'
    <2>1. <<>> \in Seq(Byte) /\ Len(<<>>) = 0
      OBVIOUS
    <2>2. mem' \in [Blocks -> Seq(Byte)]
      BY <1>1, <2>1 DEF DriverInv, MemoryTypes
    <2>3. \A b \in Blocks : Len(mem'[b]) <= KMALLOC_MAX_SIZE
      BY <1>1, <1>6, <2>1 DEF DriverInv, MemoryTypes
    <2> QED
      BY <1>1, <1>3, <1>8, <2>2, <2>3 DEF DriverInv, MemoryTypes
  <1>13. FrameInv'
    BY <1>3, <1>9, <1>10 DEF DriverInv, FrameInv, Pointer
  <1>14. StageInv'
    BY <1>3, <1>4, <1>8 DEF StageInv, HoldsEntryMutex
  <1>15. OneOwner'
    <2>1. NULL \notin Pointers(buff)
      BY DEF Pointers
    <2> QED
      BY <1>1, <1>8, <1>10, <2>1 DEF DriverInv, OneOwner
  <1>16. NoLeak'
    <2>1. allocated = (Pointers(buff) \cup {entry.buffPtr} \cup {d}) \ {NULL}
      BY <1>10 DEF DriverInv, NoLeak, Owned, d
    <2>2. allocated' = Pointers(buff)
      BY <1>1, <1>6, <1>7, <2>1 DEF Pointers
    <2>3. Owned' = Pointers(buff)
      BY <1>1, <1>8, <1>10 DEF Owned, Pointers
    <2> QED
      BY <1>1, <1>6, <2>2, <2>3 DEF NoLeak
  <1>17. RequestStaysPossible'
    BY <1>3, <1>4, <1>6, <1>8, <1>9, <1>11
    DEF RequestStaysPossible, HoldsEntryMutex
  <1>18. EntriesEndLines'
    <2>1. \A i \in Slots : buff.entry[i].buffptr # NULL =>
            buff.entry[i].buffptr \in Blocks \ {d}
      BY <1>7, DriverAssumption
      DEF DriverInv, MemoryTypes, BufferType, Entries, EmptyEntry, Pointers
    <2>2. \A b \in Blocks \ {d} : mem'[b] = mem[b]
      BY <1>1
    <2> QED
      BY <1>1, <2>1, <2>2 DEF DriverInv, EntriesEndLines
  <1> QED
    BY <1>1, <1>3, <1>6, <1>12, <1>13, <1>14, <1>15, <1>16, <1>17, <1>18
    DEF DriverInv

-----------------------------------------------------------------------------
(* Loading and unloading. *)

(* Nobody has the device open and it holds nothing. *)
EmptyState ==
  /\ loaded \in BOOLEAN
  /\ buff = aesd_circular_buffer_init
  /\ entry \in {ZeroEntry, StaticEntry}
  /\ entryMutex = NoProc
  /\ buffMutex = NoProc
  /\ allocated = {}
  /\ mem \in [Blocks -> Seq(Byte)]
  /\ \A b \in Blocks : Len(mem[b]) <= KMALLOC_MAX_SIZE
  /\ pc = [p \in Procs |-> "closed"]
  /\ FrameInv
  /\ \A p \in Procs : call[p].freePtr = NULL

LEMMA EmptyDevice == EmptyState => DriverInv
  <1> SUFFICES ASSUME EmptyState PROVE DriverInv
    OBVIOUS
  <1> USE DEF EmptyState
  <1>1. \A p \in Procs : pc[p] = "closed"
    OBVIOUS
  <1>2. /\ \A i \in Slots : buff.entry[i] = EmptyEntry /\ buff.entry[i].buffptr = NULL
        /\ Pointers(buff) = {}
    BY DEF aesd_circular_buffer_init, EmptyEntry, Pointers
  <1>3. entry.buffPtr = NULL /\ entry.endIdx = 0
    BY DEF ZeroEntry, StaticEntry
  <1>4. MemoryTypes
    <2>1. buff \in BufferType(Entries)
      BY CapacityAssumption
      DEF aesd_circular_buffer_init, BufferType, Slots, Capacity
    <2>2. entry \in [buffPtr : Pointer, size : {0, KMALLOC_MAX_SIZE},
                     endIdx : 0 .. KMALLOC_MAX_SIZE]
      BY DriverAssumption DEF ZeroEntry, StaticEntry, Pointer
    <2>3. pc \in [Procs -> PCs]
      BY DEF PCs, InUserSpace
    <2> QED
      BY <2>1, <2>2, <2>3 DEF MemoryTypes
  <1>5. LocksMatchCalls
    BY <1>1, DriverAssumption DEF LocksMatchCalls, HoldsEntryMutex, HoldsBuffMutex
  <1>6. StageInv
    BY <1>1, <1>3 DEF StageInv, HoldsEntryMutex
  <1>7. OneOwner
    BY <1>2, <1>3 DEF OneOwner
  <1>8. NoLeak
    BY <1>2, <1>3 DEF NoLeak, Owned
  <1>9. RequestStaysPossible
    BY <1>1 DEF RequestStaysPossible, HoldsEntryMutex
  <1>10. EntriesEndLines
    BY <1>2 DEF EntriesEndLines
  <1> QED
    BY <1>1, <1>3, <1>4, <1>5, <1>6, <1>7, <1>8, <1>9, <1>10 DEF DriverInv

LEMMA LoadSteps ==
  ASSUME DriverInv, aesd_init_module \/ aesd_cleanup_module
  PROVE  DriverInv'
  <1>1. \A p \in Procs : pc[p] = "closed"
    BY DEF DriverInv, aesd_init_module, aesd_cleanup_module
  <1>2. /\ UNCHANGED <<pc, call>>
        /\ loaded' \in BOOLEAN
        /\ buff' = aesd_circular_buffer_init
        /\ entry' \in {ZeroEntry, StaticEntry}
    BY DEF aesd_init_module, aesd_cleanup_module
  <1>3. pc' = [p \in Procs |-> "closed"]
    BY <1>1, <1>2 DEF DriverInv, MemoryTypes
  <1>4. entryMutex' = NoProc /\ buffMutex' = NoProc
    BY <1>1
    DEF DriverInv, MemoryTypes, LocksMatchCalls, HoldsEntryMutex, HoldsBuffMutex,
        aesd_init_module, aesd_cleanup_module, lockVars
  <1>5. FrameInv' /\ \A p \in Procs : call'[p].freePtr = NULL /\ call[p].freePtr = NULL
    BY <1>1, <1>2 DEF DriverInv, FrameInv
  <1>6. /\ allocated' = {}
        /\ mem' \in [Blocks -> Seq(Byte)]
        /\ \A b \in Blocks : Len(mem'[b]) <= KMALLOC_MAX_SIZE
    <2>1. CASE aesd_init_module
      BY <2>1 DEF aesd_init_module, heapVars, DriverInv, MemoryTypes, NoLeak
    <2>2. CASE aesd_cleanup_module
      <3>1. /\ allocated' = allocated \ CleanupFrees
            /\ mem' = [b \in Blocks |-> IF b \in CleanupFrees THEN <<>> ELSE mem[b]]
        BY <2>2 DEF aesd_cleanup_module, kfree
      <3>2. allocated = (Pointers(buff) \cup {entry.buffPtr}) \ {NULL}
        BY <1>5 DEF DriverInv, NoLeak, Owned
      <3>3. <<>> \in Seq(Byte) /\ Len(<<>>) = 0 /\ KMALLOC_MAX_SIZE \in Nat
        BY DriverAssumption
      <3> HIDE DEF CleanupFrees
      <3>4. mem' \in [Blocks -> Seq(Byte)] /\ \A b \in Blocks : Len(mem'[b]) <= KMALLOC_MAX_SIZE
        BY <3>1, <3>3 DEF DriverInv, MemoryTypes
      <3> QED
        BY <3>1, <3>2, <3>4 DEF CleanupFrees
    <2> QED
      BY <2>1, <2>2
  <1>7. EmptyState'
    BY <1>2, <1>3, <1>4, <1>5, <1>6 DEF EmptyState
  <1>8. (EmptyState => DriverInv)'
    BY EmptyDevice, PTL
  <1> QED
    BY <1>7, <1>8

-----------------------------------------------------------------------------
(* The theorems. *)

LEMMA InitEmpty == Init => DriverInv
  <1> SUFFICES ASSUME Init PROVE EmptyState
    BY EmptyDevice
  <1>1. mem \in [Blocks -> Seq(Byte)] /\ \A b \in Blocks : Len(mem[b]) <= KMALLOC_MAX_SIZE
    <2>1. <<>> \in Seq(Byte) /\ Len(<<>>) = 0 /\ KMALLOC_MAX_SIZE \in Nat
      BY DriverAssumption
    <2> QED
      BY <2>1 DEF Init
  <1>2. FrameInv /\ \A p \in Procs : call[p].freePtr = NULL
    <2>1. DOMAIN call = Procs /\ \A p \in Procs : call[p] = NoCall /\ pc[p] = "closed"
      BY DEF Init
    <2>2. NoCall.rest = <<>> /\ NoCall.freePtr = NULL
      BY DEF NoCall
    <2>3. <<>> \in Seq(Byte) /\ NULL \in Pointer
      BY DEF Pointer
    <2> QED
      BY <2>1, <2>2, <2>3 DEF FrameInv
  <1> QED
    BY <1>1, <1>2 DEF Init, EmptyState

(* The steps of the specification, sorted by what they touch. *)
LEMMA NextCases ==
  ASSUME [Next]_vars
  PROVE  \/ aesd_init_module \/ aesd_cleanup_module
         \/ \E p \in Procs : Quiet(p)
         \/ \E p \in Procs : WriteCall(p) \/ FlushAdd(p) \/ FlushFree(p)
         \/ \E p \in Procs : WriteLine(p) \/ WriteLineFails(p) \/ WriteLeftover(p)
         \/ UNCHANGED vars
  BY DEF Next, UserStep, EntryLockStep, BuffLockStep, SignalStep, DriverStep, Quiet

LEMMA NextKeeps == DriverInv /\ [Next]_vars => DriverInv'
  <1> SUFFICES ASSUME DriverInv, [Next]_vars
               PROVE  DriverInv'
    OBVIOUS
  <1>1. CASE aesd_init_module \/ aesd_cleanup_module
    BY <1>1, LoadSteps
  <1>2. CASE \E p \in Procs : Quiet(p)
    BY <1>2, QuietSteps, QuietStep
  <1>3. CASE \E p \in Procs : WriteCall(p) \/ FlushAdd(p) \/ FlushFree(p)
    BY <1>3, WriteCallStep, FlushAddStep, FlushFreeStep
  <1>4. CASE \E p \in Procs : WriteLine(p) \/ WriteLineFails(p) \/ WriteLeftover(p)
    BY <1>4, WriteStoreSteps, StoreStep
  <1>5. CASE UNCHANGED vars
    BY <1>5
    DEF vars, devVars, lockVars, heapVars, DriverInv, MemoryTypes, FrameInv,
        LocksMatchCalls, StageInv, Handover, OneOwner, Owned, NoLeak,
        RequestStaysPossible, EntriesEndLines
  <1> QED
    BY <1>1, <1>2, <1>3, <1>4, <1>5, NextCases

(* The invariant of aesd-char-driver/main.c holds in every reachable state *)
(* of any number of processes: init, every file operation and cleanup keep *)
(* it.                                                                     *)
THEOREM DriverCorrect == Spec => []DriverInv
  BY InitEmpty, NextKeeps, PTL DEF Spec

(* The mutexes of aesd_read, aesd_write, aesd_llseek, aesd_ioctl and       *)
(* FlushPartial exclude each other as meant and none is ever left held.    *)
THEOREM LocksCorrect == Spec => []LocksMatchCalls
  <1>1. DriverInv => LocksMatchCalls
    BY DEF DriverInv
  <1> QED
    BY <1>1, DriverCorrect, PTL

(* The blocks of StorePartial, FlushPartial and aesd_cleanup_module always *)
(* have one owner, and none is leaked or freed twice.                      *)
THEOREM HeapCorrect == Spec => [](OneOwner /\ NoLeak)
  <1>1. DriverInv => OneOwner /\ NoLeak
    BY DEF DriverInv
  <1> QED
    BY <1>1, DriverCorrect, PTL

(* The check of aesd_write stays valid to its end, the staging buffer is   *)
(* never overrun and what it commits is not empty and ends in a newline.   *)
THEOREM WritesCorrect ==
  Spec => [](MemoryTypes /\ RequestStaysPossible /\ EntriesEndLines)
  <1>1. DriverInv => MemoryTypes /\ RequestStaysPossible /\ EntriesEndLines
    BY DEF DriverInv
  <1> QED
    BY <1>1, DriverCorrect, PTL

(* A call that waits for a mutex somebody holds.                           *)
Blocked(p) ==
  \/ pc[p] = "w_lock" /\ entryMutex # NoProc
  \/ pc[p] \in {"f_lock", "r_lock", "s_lock", "i_lock"} /\ buffMutex # NoProc

(* While calls are inside the driver, one of them is not waiting.          *)
SomeCallRuns ==
  (\E p \in Procs : pc[p] \notin InUserSpace) =>
     \E p \in Procs : pc[p] \notin InUserSpace /\ ~Blocked(p)

(* No number of processes can lock each other up in the driver: who waits  *)
(* for entryMutex waits for a write, which waits at most for buffMutex in  *)
(* FlushPartial, and nobody who has buffMutex waits for anything.          *)
THEOREM NoCircularWait == Spec => []SomeCallRuns
  <1>1. DriverInv => SomeCallRuns
    <2> SUFFICES ASSUME DriverInv, NEW p \in Procs, pc[p] \notin InUserSpace, Blocked(p)
                 PROVE  \E q \in Procs : pc[q] \notin InUserSpace /\ ~Blocked(q)
      BY DEF SomeCallRuns
    <2>1. /\ entryMutex \in Procs \cup {NoProc} /\ buffMutex \in Procs \cup {NoProc}
          /\ \A q \in Procs : /\ entryMutex = q => pc[q] \in HoldsEntryMutex
                              /\ buffMutex = q => pc[q] \in HoldsBuffMutex
      BY DEF DriverInv, MemoryTypes, LocksMatchCalls
    <2>2. CASE buffMutex # NoProc
      <3>1. buffMutex \in Procs /\ pc[buffMutex] \in HoldsBuffMutex
        BY <2>1, <2>2
      <3> QED BY <3>1 DEF HoldsBuffMutex, Blocked, InUserSpace
    <2>3. CASE buffMutex = NoProc
      <3>1. entryMutex \in Procs /\ pc[entryMutex] \in HoldsEntryMutex
        BY <2>1, <2>3 DEF Blocked
      <3> QED BY <2>3, <3>1 DEF HoldsEntryMutex, Blocked, InUserSpace
    <2> QED BY <2>2, <2>3
  <1> QED
    BY <1>1, DriverCorrect, PTL
-----------------------------------------------------------------------------
(* The device implements LineLog: a step of the driver is a Store when     *)
(* StorePartial copies bytes, a Commit when FlushPartial adds the entry, a *)
(* Forget when the module is unloaded, and leaves the log alone otherwise. *)

(* The ring is well formed and what it lists are entries of FlushPartial.  *)
RingInv == IndexInv(buff) /\ Contents(buff) \in Seq(Entries)

(* A ring that aesd_circular_buffer_init has zeroed. *)
LEMMA EmptyRing ==
  LET b == aesd_circular_buffer_init
  IN  IndexInv(b) /\ Contents(b) = <<>>
  <1> DEFINE b == aesd_circular_buffer_init
  <1>1. b.full = FALSE /\ b.in_offs = 0 /\ b.out_offs = 0
        /\ \A i \in Slots : b.entry[i] = EmptyEntry
    BY DEF aesd_circular_buffer_init
  <1> HIDE DEF b
  <1>2. IndexInv(b)
    BY <1>1 DEF IndexInv
  <1>3. numEntries(b) = 0
    BY <1>1 DEF numEntries
  <1>4. Contents(b) = <<>>
    BY <1>3 DEF Contents
  <1> QED
    BY <1>2, <1>4 DEF b

(* What FlushAdd does to the ring. *)
LEMMA FlushAddRing ==
  ASSUME DriverInv, RingInv, NEW p \in Procs, FlushAdd(p)
  PROVE  LET e == [buffptr |-> entry.buffPtr, size |-> entry.endIdx]
             c == Contents(buff)
         IN  /\ e \in Entries
             /\ IndexInv(buff')
             /\ Contents(buff') = Append(IF Len(c) = Capacity THEN Tail(c) ELSE c, e)
  <1> DEFINE e == [buffptr |-> entry.buffPtr, size |-> entry.endIdx]
             c == Contents(buff)
  <1>1. pc[p] = "f_add" /\ buff' = aesd_circular_buffer_add_entry(buff, e)
    BY DEF FlushAdd, Goto
  <1>2. entry.buffPtr \in Blocks /\ entry.endIdx \in 1 .. KMALLOC_MAX_SIZE
    BY <1>1, DriverAssumption DEF DriverInv, StageInv, MemoryTypes, Pointer
  <1>3. e \in Entries
    BY <1>2 DEF Entries
  <1>4. buff \in BufferType(Entries) /\ IndexInv(buff) /\ buff.full \in BOOLEAN
    BY DEF DriverInv, MemoryTypes, BufferType, RingInv
  <1> HIDE DEF e
  <1> DEFINE b2 == aesd_circular_buffer_add_entry(buff, e)
  <1>5. /\ IndexInv(b2)
        /\ ~buff.full => Len(c) < Capacity /\ Contents(b2) = Append(c, e)
        /\ buff.full => Len(c) = Capacity /\ Contents(b2) = Append(Tail(c), e)
    BY <1>3, <1>4, AddEntryContents
  <1> HIDE DEF b2, c
  <1>6. buff' = b2
    BY <1>1 DEF b2
  <1>7. Contents(b2) = Append(IF Len(c) = Capacity THEN Tail(c) ELSE c, e)
    BY <1>4, <1>5, CapacityAssumption DEF Capacity
  <1> QED
    BY <1>3, <1>5, <1>6, <1>7 DEF e, c

(* The ring is only touched by loading, unloading and FlushAdd. *)
LEMMA RingChanges ==
  ASSUME DriverInv, [Next]_vars
  PROVE  \/ buff' = buff
         \/ buff' = aesd_circular_buffer_init
         \/ \E p \in Procs : FlushAdd(p)
  <1>1. CASE aesd_init_module \/ aesd_cleanup_module
    BY <1>1 DEF aesd_init_module, aesd_cleanup_module
  <1>2. CASE \E p \in Procs : Quiet(p)
    BY <1>2, QuietSteps DEF QuietMove
  <1>3. CASE \E p \in Procs : WriteCall(p) \/ FlushAdd(p) \/ FlushFree(p)
    BY <1>3 DEF WriteCall, FlushFree
  <1>4. CASE \E p \in Procs : WriteLine(p) \/ WriteLineFails(p) \/ WriteLeftover(p)
    BY <1>4, WriteStoreSteps DEF StoreMove
  <1>5. CASE UNCHANGED vars
    BY <1>5 DEF vars, devVars
  <1> QED
    BY <1>1, <1>2, <1>3, <1>4, <1>5, NextCases

LEMMA RingKept == DriverInv /\ RingInv /\ [Next]_vars => RingInv'
  <1> SUFFICES ASSUME DriverInv, RingInv, [Next]_vars
               PROVE  RingInv'
    OBVIOUS
  <1>1. CASE buff' = buff
    BY <1>1 DEF RingInv
  <1>2. CASE buff' = aesd_circular_buffer_init
    BY <1>2, EmptyRing DEF RingInv
  <1>3. CASE \E p \in Procs : FlushAdd(p)
    <2> PICK p \in Procs : FlushAdd(p)
      BY <1>3
    <2> DEFINE e == [buffptr |-> entry.buffPtr, size |-> entry.endIdx]
               c == Contents(buff)
    <2>1. /\ e \in Entries
          /\ IndexInv(buff')
          /\ Contents(buff') = Append(IF Len(c) = Capacity THEN Tail(c) ELSE c, e)
      BY FlushAddRing
    <2>2. c \in Seq(Entries) /\ Capacity > 0
      BY CapacityAssumption DEF RingInv, Capacity
    <2> HIDE DEF e, c
    <2>3. Len(c) = Capacity => c # <<>>
      BY <2>2
    <2>4. (IF Len(c) = Capacity THEN Tail(c) ELSE c) \in Seq(Entries)
      BY <2>2, <2>3
    <2>5. Contents(buff') \in Seq(Entries)
      BY <2>1, <2>4
    <2> QED
      BY <2>1, <2>5 DEF RingInv
  <1> QED
    BY <1>1, <1>2, <1>3, RingChanges

(* The entries the ring lists, and the blocks they own. *)
LEMMA ListedEntries ==
  ASSUME DriverInv, RingInv, NEW i \in 1 .. Len(Contents(buff))
  PROVE  /\ Contents(buff)[i] \in Entries
         /\ Contents(buff)[i].buffptr \in Pointers(buff)
         /\ Contents(buff)[i].buffptr \in Blocks
  <1>1. Contents(buff)[i] \in Entries
    BY DEF RingInv
  <1>2. buff \in BufferType(Entries) /\ IndexInv(buff)
    BY DEF DriverInv, MemoryTypes, RingInv
  <1> DEFINE v == IF buff.out_offs + (i - 1) < Capacity
                  THEN buff.out_offs + (i - 1)
                  ELSE (buff.out_offs + (i - 1)) - Capacity
  <1>3. i \in 1 .. Capacity /\ Contents(buff)[i] = buff.entry[v]
    <2>1. /\ numEntries(buff) \in 0 .. Capacity
          /\ Len(Contents(buff)) = numEntries(buff)
          /\ \A j \in 1 .. numEntries(buff) :
               Contents(buff)[j] = buff.entry[IF buff.out_offs + (j - 1) < Capacity
                                              THEN buff.out_offs + (j - 1)
                                              ELSE (buff.out_offs + (j - 1)) - Capacity]
      BY <1>2, ContentsValue
    <2>2. i \in 1 .. Capacity
      BY <2>1, CapacityAssumption DEF Capacity
    <2> QED
      BY <2>1, <2>2
  <1>4. v \in Slots
    BY <1>2, <1>3, CapacityAssumption DEF BufferType, Slots, Capacity
  <1> HIDE DEF v
  <1>5. Contents(buff)[i].buffptr \in Blocks
    BY <1>1 DEF Entries
  <1> QED
    BY <1>1, <1>3, <1>4, <1>5, DriverAssumption DEF Pointers

(* Lines does not change as long as the ring stands and nobody writes into *)
(* or frees a block it owns.                                               *)
LEMMA SameLines ==
  ASSUME DriverInv, RingInv, buff' = buff,
         \A b \in Pointers(buff) : mem'[b] = mem[b]
  PROVE  Lines' = Lines
  <1> DEFINE c == Contents(buff)
  <1>1. \A i \in 1 .. Len(c) : LineOf(c[i])' = LineOf(c[i])
    <2> SUFFICES ASSUME NEW i \in 1 .. Len(c)
                 PROVE  LineOf(c[i])' = LineOf(c[i])
      OBVIOUS
    <2>1. c[i].buffptr \in Pointers(buff)
      BY ListedEntries
    <2>2. mem'[c[i].buffptr] = mem[c[i].buffptr]
      BY <2>1
    <2>3. c' = c
      OBVIOUS
    <2> HIDE DEF c
    <2> QED
      BY <2>2, <2>3 DEF LineOf
  <1>2. c' = c
    OBVIOUS
  <1> HIDE DEF c
  <1>3. Lines = [i \in 1 .. Len(c) |-> LineOf(c[i])]
    BY DEF Lines, c
  <1>4. Lines' = [i \in 1 .. Len(c') |-> LineOf(c[i])']
    BY DEF Lines, c
  <1> QED
    BY <1>1, <1>2, <1>3, <1>4

(* Lines of a sequence to which an entry is added, the oldest one dropped  *)
(* if there are already Capacity of them.                                  *)
LEMMA LinesOfAppend ==
  ASSUME NEW c \in Seq(Entries), NEW e, Capacity \in Nat \ {0}
  PROVE  LET k == IF Len(c) = Capacity THEN Tail(c) ELSE c
             l == [i \in 1 .. Len(c) |-> LineOf(c[i])]
         IN  [i \in 1 .. Len(Append(k, e)) |-> LineOf(Append(k, e)[i])]
               = Append(IF Len(l) = Capacity THEN Tail(l) ELSE l, LineOf(e))
  <1> DEFINE Val == {LineOf(c[i]) : i \in 1 .. Len(c)} \cup {LineOf(e)}
             Ent == Entries \cup {e}
             k == IF Len(c) = Capacity THEN Tail(c) ELSE c
             l == [i \in 1 .. Len(c) |-> LineOf(c[i])]
             m == IF Len(l) = Capacity THEN Tail(l) ELSE l
  <1>1. Len(c) \in Nat /\ l \in Seq(Val) /\ Len(l) = Len(c)
        /\ \A i \in 1 .. Len(c) : l[i] = LineOf(c[i])
    OBVIOUS
  <1>2. c \in Seq(Ent) /\ e \in Ent /\ LineOf(e) \in Val
    OBVIOUS
  <1> HIDE DEF Val, Ent, l
  <1>3. /\ k \in Seq(Ent) /\ m \in Seq(Val)
        /\ Len(k) = Len(m) /\ Len(k) \in Nat
        /\ \A i \in 1 .. Len(k) : m[i] = LineOf(k[i])
    <2>1. CASE Len(c) = Capacity
      <3>1. c # <<>> /\ l # <<>>
        BY <1>1, <2>1
      <3>2. /\ Tail(c) \in Seq(Ent) /\ Tail(l) \in Seq(Val)
            /\ Len(Tail(c)) = Len(c) - 1 /\ Len(Tail(l)) = Len(c) - 1
            /\ \A i \in 1 .. Len(c) - 1 : Tail(c)[i] = c[i + 1] /\ Tail(l)[i] = l[i + 1]
        BY <1>1, <1>2, <3>1
      <3>3. \A i \in 1 .. Len(c) - 1 : Tail(l)[i] = LineOf(Tail(c)[i])
        BY <1>1, <3>2
      <3>4. k = Tail(c) /\ m = Tail(l)
        BY <1>1, <2>1
      <3> QED
        BY <1>1, <2>1, <3>2, <3>3, <3>4
    <2>2. CASE Len(c) # Capacity
      <3>1. k = c /\ m = l
        BY <1>1, <2>2
      <3> QED
        BY <1>1, <1>2, <3>1
    <2> QED
      BY <2>1, <2>2
  <1> HIDE DEF k, m
  <1>4. /\ Append(k, e) \in Seq(Ent) /\ Len(Append(k, e)) = Len(k) + 1
        /\ Append(m, LineOf(e)) \in Seq(Val) /\ Len(Append(m, LineOf(e))) = Len(k) + 1
        /\ \A i \in 1 .. Len(k) :
             Append(k, e)[i] = k[i] /\ Append(m, LineOf(e))[i] = m[i]
        /\ Append(k, e)[Len(k) + 1] = e
        /\ Append(m, LineOf(e))[Len(k) + 1] = LineOf(e)
    BY <1>2, <1>3
  <1> DEFINE a == Append(k, e)
             z == Append(m, LineOf(e))
  <1> HIDE DEF a, z
  <1>5. \A i \in 1 .. Len(a) : z[i] = LineOf(a[i])
    BY <1>3, <1>4 DEF a, z
  <1>6. z = [i \in 1 .. Len(a) |-> z[i]]
    <2>1. z \in Seq(Val) /\ Len(z) = Len(a)
      BY <1>4 DEF a, z
    <2>2. z = [i \in 1 .. Len(z) |-> z[i]]
      BY <2>1
    <2> QED
      BY <2>1, <2>2
  <1>7. z = [i \in 1 .. Len(a) |-> LineOf(a[i])]
    BY <1>5, <1>6
  <1> QED
    BY <1>7 DEF a, z, k, l, m

-----------------------------------------------------------------------------
(* The steps of the driver as steps of the log. *)

LogStep == [Log!Next]_<<Lines, Partial>>

(* Steps that change neither the ring, the stage nor the heap, and neither *)
(* begin nor end the handover.                                             *)
LEMMA QuietSimulates ==
  ASSUME DriverInv, RingInv, NEW p \in Procs, NEW to,
         /\ pc' = [pc EXCEPT ![p] = to]
         /\ to # "f_free" /\ pc[p] # "f_free"
         /\ UNCHANGED <<buff, mem>>
         /\ entry'.buffPtr = entry.buffPtr /\ entry'.endIdx = entry.endIdx
  PROVE  LogStep
  <1>1. Lines' = Lines
    BY SameLines
  <1>2. Handover' = Handover
    BY DEF Handover, DriverInv, MemoryTypes
  <1>3. Partial' = Partial
    BY <1>2 DEF Partial
  <1> QED
    BY <1>1, <1>3 DEF LogStep

(* What StorePartial does to the staged bytes: chunk is put behind them if *)
(* there is a buffer with room for it, and no entry of the ring changes.   *)
LEMMA StoreStages ==
  ASSUME DriverInv, NEW p \in Procs, NEW to, NEW b, NEW chunk,
         StoreMove(p, to, b, chunk)
  PROVE  /\ \A c \in Pointers(buff) : mem'[c] = mem[c]
         /\ ~StoreFits(b, Len(chunk)) => Partial' = Partial
         /\ StoreFits(b, Len(chunk)) =>
              /\ Partial \in Seq(Byte)
              /\ Partial' = Partial \o chunk
              /\ Len(Partial) + Len(chunk) <= KMALLOC_MAX_SIZE
  <1> DEFINE fits == StoreFits(b, Len(chunk))
             n == entry.endIdx
             t == Staged(b, chunk)
             end == IF fits THEN n + Len(chunk) ELSE n
  <1>1. /\ n \in Nat /\ Len(chunk) \in Nat /\ KMALLOC_MAX_SIZE \in Nat
        /\ entry.size = KMALLOC_MAX_SIZE
        /\ b \in Blocks \cup {NULL}
        /\ NULL \notin Blocks
    BY DriverAssumption
    DEF StoreMove, DriverInv, MemoryTypes, StageInv, HoldsEntryMutex, StagePtrs,
        Pointer
  <1>2. /\ mem' = IF fits THEN [mem EXCEPT ![b] = t] ELSE mem
        /\ entry' = [entry EXCEPT !.buffPtr = b, !.endIdx = end]
        /\ buff' = buff
        /\ b = entry.buffPtr \/ (entry.buffPtr = NULL /\ n = 0)
    <2>1. StorePartial(b, chunk) /\ buff' = buff /\ b \in StagePtrs
      BY DEF StoreMove
    <2>2. b = entry.buffPtr \/ (entry.buffPtr = NULL /\ n = 0)
      <3>1. entry.buffPtr = NULL => n = 0
        BY DEF DriverInv, StageInv
      <3>2. entry.buffPtr # NULL => b = entry.buffPtr
        BY <2>1 DEF StagePtrs
      <3> QED
        BY <3>1, <3>2
    <2>3. /\ mem' = IF fits THEN [mem EXCEPT ![b] = t] ELSE mem
          /\ entry' = [entry EXCEPT !.buffPtr = b, !.endIdx = end]
      BY <2>1 DEF StorePartial
    <2> QED
      BY <2>1, <2>2, <2>3
  <1>3. /\ entry'.buffPtr = b
        /\ entry'.endIdx = IF fits THEN n + Len(chunk) ELSE n
    <2> HIDE DEF end
    <2>1. entry'.buffPtr = b /\ entry'.endIdx = end
      BY <1>2 DEF DriverInv, MemoryTypes
    <2> QED
      BY <2>1 DEF end
  <1>4. \A q \in Procs \ {p} : pc[q] \notin HoldsEntryMutex
    BY OneWriter DEF StoreMove, HoldsEntryMutex
  <1>5. ~Handover /\ ~Handover'
    BY <1>4 DEF StoreMove, LockMove, Handover, HoldsEntryMutex, DriverInv, MemoryTypes
  <1>6. b \notin Pointers(buff)
    BY <1>1, <1>5 DEF StoreMove, StagePtrs, DriverInv, OneOwner, NoLeak, Owned, Pointers
  <1>7. \A c \in Pointers(buff) : mem'[c] = mem[c]
    <2>1. \A c \in Pointers(buff) : c \in Blocks \ {b}
      <3>1. Pointers(buff) \subseteq allocated /\ allocated \subseteq Blocks
        BY DEF DriverInv, NoLeak, Owned, MemoryTypes, Pointers
      <3> QED
        BY <1>6, <3>1
    <2> QED
      BY <1>2, <2>1 DEF DriverInv, MemoryTypes
  <1>9. CASE fits
    <2>1. b \in Blocks /\ n + Len(chunk) <= KMALLOC_MAX_SIZE
      BY <1>1, <1>9 DEF StoreFits
    <2>2. mem[b] \in Seq(Byte) /\ n \in 0 .. Len(mem[b])
      BY <1>1, <1>2, <2>1 DEF DriverInv, MemoryTypes, StageInv
    <2>3. chunk \in Seq(Byte) /\ Len(chunk) > 0
      BY DEF StoreMove
    <2>4. t \in Seq(Byte) /\ Len(t) = n + Len(chunk)
      BY <2>2, <2>3, StageChunk DEF Staged
    <2>5. mem'[b] = t
      BY <1>2, <1>9, <2>1 DEF DriverInv, MemoryTypes
    <2> HIDE DEF fits
    <2>6. Partial = SubSeq(mem[b], 1, n)
      <3>1. CASE entry.buffPtr = b
        BY <1>1, <1>5, <2>1, <3>1 DEF Partial
      <3>2. CASE entry.buffPtr = NULL /\ n = 0
        <4>1. Partial = <<>>
          BY <3>2 DEF Partial
        <4>2. SubSeq(mem[b], 1, 0) = <<>>
          BY <2>2, SubSeqEmpty
        <4> QED
          BY <3>2, <4>1, <4>2
      <3> QED
        BY <1>2, <3>1, <3>2
    <2>7. Partial' = t
      <3>1. Partial' = SubSeq(t, 1, n + Len(chunk))
        BY <1>1, <1>3, <1>5, <1>9, <2>1, <2>5 DEF Partial
      <3> HIDE DEF t, n
      <3>2. SubSeq(t, 1, Len(t)) = t
        BY <2>4, SubSeqFull
      <3> QED
        BY <2>4, <3>1, <3>2
    <2>8. Partial' = Partial \o chunk
      BY <2>6, <2>7 DEF Staged
    <2>9. Len(Partial) = n
      BY <2>2, <2>6, SubSeqProperties
    <2>10. Partial \in Seq(Byte)
      BY <2>2, <2>6, SubSeqProperties
    <2> QED
      BY <1>7, <1>9, <2>1, <2>8, <2>9, <2>10 DEF fits
  <1>10. CASE ~fits
    <2>1. mem' = mem /\ entry'.endIdx = n
      BY <1>2, <1>3, <1>10
    <2>2. Partial' = Partial
      <3>1. CASE entry.buffPtr = b
        BY <1>3, <1>5, <2>1, <3>1 DEF Partial
      <3>2. CASE entry.buffPtr = NULL /\ n = 0 /\ b # NULL
        <4>1. Partial = <<>>
          BY <3>2 DEF Partial
        <4>2. Partial' = SubSeq(mem[b], 1, 0)
          BY <1>3, <1>5, <2>1, <3>2 DEF Partial
        <4>3. mem[b] \in Seq(Byte)
          BY <1>1, <3>2 DEF DriverInv, MemoryTypes
        <4>4. SubSeq(mem[b], 1, 0) = <<>>
          BY <4>3, SubSeqEmpty
        <4> QED
          BY <4>1, <4>2, <4>4
      <3> QED
        BY <1>2, <3>1, <3>2
    <2> QED
      BY <1>7, <1>10, <2>2 DEF fits
  <1> QED
    BY <1>9, <1>10

(* StorePartial: a Store if it copies the bytes, nothing otherwise. *)
LEMMA StoreSimulates ==
  ASSUME DriverInv, RingInv, NEW p \in Procs, NEW to, NEW b, NEW chunk,
         StoreMove(p, to, b, chunk)
  PROVE  LogStep
  <1>1. Lines' = Lines
    BY StoreStages, SameLines DEF StoreMove
  <1>2. CASE StoreFits(b, Len(chunk))
    <2>1. /\ Partial \in Seq(Byte)
          /\ Partial' = Partial \o chunk
          /\ Len(Partial) + Len(chunk) <= KMALLOC_MAX_SIZE
      BY <1>2, StoreStages
    <2>2. chunk \in Seq(Byte) /\ Len(chunk) > 0
      BY DEF StoreMove
    <2>3. /\ Len(chunk) \in 1 .. KMALLOC_MAX_SIZE
          /\ chunk \in [1 .. Len(chunk) -> Byte]
      BY <2>1, <2>2, DriverAssumption
    <2>4. Log!Store
      BY <1>1, <2>1, <2>3 DEF Log!Store
    <2> QED
      BY <2>4 DEF LogStep, Log!Next
  <1>3. CASE ~StoreFits(b, Len(chunk))
    BY <1>1, <1>3, StoreStages DEF LogStep
  <1> QED
    BY <1>2, <1>3

(* FlushAdd commits the staged line. *)
LEMMA FlushAddSimulates ==
  ASSUME DriverInv, RingInv, NEW p \in Procs, FlushAdd(p)
  PROVE  Log!Commit
  <1> DEFINE e == [buffptr |-> entry.buffPtr, size |-> entry.endIdx]
             c == Contents(buff)
             k == IF Len(c) = Capacity THEN Tail(c) ELSE c
  <1>1. /\ e \in Entries
        /\ Contents(buff') = Append(k, e)
    BY FlushAddRing
  <1>2. c \in Seq(Entries) /\ Capacity \in Nat \ {0}
    BY CapacityAssumption DEF RingInv, Capacity
  <1>3. /\ pc[p] = "f_add"
        /\ pc' = [pc EXCEPT ![p] = "f_free"]
        /\ mem' = mem /\ entry' = entry
    BY DEF FlushAdd, Goto, heapVars
  <1>4. ~Handover /\ Handover'
    <2>1. \A q \in Procs \ {p} : pc[q] \notin HoldsEntryMutex
      BY <1>3, OneWriter DEF HoldsEntryMutex
    <2> QED
      BY <1>3, <2>1 DEF Handover, HoldsEntryMutex, DriverInv, MemoryTypes
  <1>5. /\ entry.buffPtr \in Blocks
        /\ entry.endIdx \in Nat /\ entry.endIdx > 0
        /\ mem[entry.buffPtr] \in Seq(Byte)
        /\ entry.endIdx <= Len(mem[entry.buffPtr])
        /\ mem[entry.buffPtr][entry.endIdx] = Newline
        /\ entry.buffPtr # NULL
    BY <1>3, DriverAssumption DEF DriverInv, StageInv, MemoryTypes, Pointer
  <1>6. Partial = SubSeq(mem[entry.buffPtr], 1, entry.endIdx) /\ Partial' = <<>>
    BY <1>4, <1>5 DEF Partial
  <1>7. LineOf(e) = Partial
    BY <1>6 DEF LineOf
  <1>8. Partial # <<>> /\ Partial[Len(Partial)] = Newline
    <2>1. /\ Len(Partial) = entry.endIdx
          /\ Partial[entry.endIdx] = Newline
          /\ Partial \in Seq(Byte)
      BY <1>5, <1>6, SubSeqProperties
    <2> QED
      BY <1>5, <2>1
  <1> HIDE DEF e, c
  <1>9. Lines = [i \in 1 .. Len(c) |-> LineOf(c[i])]
    BY DEF Lines, c
  <1>10. Lines' = [i \in 1 .. Len(Append(k, e)) |-> LineOf(Append(k, e)[i])]
    <2> HIDE DEF k
    <2> QED
      BY <1>1, <1>3 DEF Lines, LineOf
  <1>11. Lines' = Append(IF Len(Lines) = Capacity THEN Tail(Lines) ELSE Lines, Partial)
    BY <1>2, <1>7, <1>9, <1>10, LinesOfAppend
  <1> QED
    BY <1>6, <1>8, <1>11 DEF Log!Commit

(* FlushFree clears what the log has already committed. *)
LEMMA FlushFreeSimulates ==
  ASSUME DriverInv, RingInv, NEW p \in Procs, FlushFree(p)
  PROVE  Lines' = Lines /\ Partial' = Partial
  <1> DEFINE d == call[p].freePtr
  <1>1. /\ pc[p] = "f_free"
        /\ buff' = buff
        /\ mem' = [b \in Blocks |-> IF b \in {d} THEN <<>> ELSE mem[b]]
        /\ entry' = [entry EXCEPT !.buffPtr = NULL, !.endIdx = 0]
    BY DEF FlushFree, Goto, kfree, FlushFrees, EmptiedStage
  <1>2. entry'.buffPtr = NULL
    BY <1>1 DEF DriverInv, MemoryTypes
  <1>3. Partial = <<>> /\ Partial' = <<>>
    BY <1>1, <1>2 DEF Partial, Handover
  <1>4. \A c \in Pointers(buff) : c # d /\ c \in Blocks
    <2>1. Pointers(buff) \subseteq allocated /\ allocated \subseteq Blocks
      BY DEF DriverInv, NoLeak, Owned, MemoryTypes, Pointers
    <2>2. d # NULL => d \notin Pointers(buff)
      BY DEF DriverInv, OneOwner
    <2>3. NULL \notin Pointers(buff)
      BY DEF Pointers
    <2> HIDE DEF d
    <2> QED
      BY <2>1, <2>2, <2>3
  <1> HIDE DEF d
  <1>5. \A c \in Pointers(buff) : mem'[c] = mem[c]
    BY <1>1, <1>4
  <1>6. Lines' = Lines
    BY <1>1, <1>5, SameLines
  <1> QED
    BY <1>3, <1>6

(* A device that holds nothing is an empty log. *)
LEMMA EmptyLog ==
  buff = aesd_circular_buffer_init /\ entry.buffPtr = NULL
    => Lines = <<>> /\ Partial = <<>>
  <1> SUFFICES ASSUME buff = aesd_circular_buffer_init, entry.buffPtr = NULL
               PROVE  Lines = <<>> /\ Partial = <<>>
    OBVIOUS
  <1>1. Contents(buff) = <<>>
    BY EmptyRing
  <1>2. Lines = <<>>
    BY <1>1 DEF Lines
  <1>3. Partial = <<>>
    BY DEF Partial
  <1> QED
    BY <1>2, <1>3

(* Loading and unloading leave an empty log. *)
LEMMA LoadSimulates ==
  ASSUME DriverInv, RingInv, aesd_init_module \/ aesd_cleanup_module
  PROVE  LogStep
  <1>1. buff' = aesd_circular_buffer_init /\ entry'.buffPtr = NULL
    BY DEF aesd_init_module, aesd_cleanup_module, ZeroEntry, StaticEntry
  <1>2. (buff = aesd_circular_buffer_init /\ entry.buffPtr = NULL
           => Lines = <<>> /\ Partial = <<>>)'
    BY EmptyLog, PTL
  <1>3. Lines' = <<>> /\ Partial' = <<>>
    BY <1>1, <1>2
  <1> QED
    BY <1>3 DEF LogStep, Log!Next, Log!Forget

LEMMA NextSimulates == DriverInv /\ RingInv /\ [Next]_vars => LogStep
  <1> SUFFICES ASSUME DriverInv, RingInv, [Next]_vars
               PROVE  LogStep
    OBVIOUS
  <1>1. CASE aesd_init_module \/ aesd_cleanup_module
    BY <1>1, LoadSimulates
  <1>2. CASE \E p \in Procs : Quiet(p)
    <2> PICK p \in Procs : \E to : QuietMove(p, to)
      BY <1>2, QuietSteps
    <2> PICK to : QuietMove(p, to)
      OBVIOUS
    <2> QED
      BY QuietSimulates DEF QuietMove, LockMove
  <1>3. CASE \E p \in Procs : WriteCall(p)
    <2> PICK p \in Procs : WriteCall(p)
      BY <1>3
    <2>1. /\ pc[p] = "idle"
          /\ pc' = [pc EXCEPT ![p] = "w_lock"]
          /\ UNCHANGED <<buff, mem>>
          /\ entry' = [entry EXCEPT !.size = KMALLOC_MAX_SIZE]
      BY DEF WriteCall, Enter, Goto, heapVars
    <2>2. entry'.buffPtr = entry.buffPtr /\ entry'.endIdx = entry.endIdx
      BY <2>1 DEF DriverInv, MemoryTypes
    <2> QED
      BY <2>1, <2>2, QuietSimulates
  <1>4. CASE \E p \in Procs : FlushAdd(p) \/ FlushFree(p)
    BY <1>4, FlushAddSimulates, FlushFreeSimulates DEF LogStep, Log!Next
  <1>5. CASE \E p \in Procs : WriteLine(p) \/ WriteLineFails(p) \/ WriteLeftover(p)
    BY <1>5, WriteStoreSteps, StoreSimulates
  <1>6. CASE UNCHANGED vars
    BY <1>6
    DEF vars, devVars, heapVars, LogStep, Lines, LineOf, Partial, Handover
  <1> QED
    BY <1>1, <1>2, <1>3, <1>4, <1>5, <1>6, NextCases

-----------------------------------------------------------------------------
(* Lines and the stage. *)

(* What is not in s is found in the part behind it. *)
LEMMA FoundBehind ==
  ASSUME NEW S, NEW s \in Seq(S), NEW t \in Seq(S), NEW x,
         \A i \in 1 .. Len(s) : s[i] # x,
         NEW k \in DOMAIN (s \o t), (s \o t)[k] = x
  PROVE  /\ Len(s \o t) = Len(s) + Len(t)
         /\ k - Len(s) \in 1 .. Len(t)
         /\ t[k - Len(s)] = x
  <1>1. /\ Len(s) \in Nat /\ Len(t) \in Nat
        /\ Len(s \o t) = Len(s) + Len(t)
        /\ k \in 1 .. Len(s) + Len(t)
    OBVIOUS
  <1>2. CASE k <= Len(s)
    BY <1>1, <1>2
  <1>3. CASE k > Len(s)
    BY <1>1, <1>3
  <1> QED
    BY <1>1, <1>2, <1>3

(* Steps that stage and commit nothing leave the staged bytes as they are. *)
LEMMA QuietPartial ==
  ASSUME DriverInv, NEW p \in Procs, NEW to,
         /\ pc' = [pc EXCEPT ![p] = to]
         /\ to # "f_free" /\ pc[p] # "f_free"
         /\ UNCHANGED mem
         /\ entry'.buffPtr = entry.buffPtr /\ entry'.endIdx = entry.endIdx
  PROVE  Partial' = Partial
  <1>1. Handover' = Handover
    BY DEF Handover, DriverInv, MemoryTypes
  <1> QED
    BY <1>1 DEF Partial

(* A flush that has begun and is not interrupted goes on: there is always  *)
(* something staged when the mutex is taken.                               *)
LEMMA FlushGoesOn ==
  ASSUME DriverInv, NEW p \in Procs, Quiet(p), ~FlushInterrupted(p),
         pc[p] \in {"f_lock", "f_add"}
  PROVE  pc'[p] = "f_add"
  <1>1. FlushLock(p)
    BY DEF Quiet, aesd_open, aesd_release, CloseFile, WriteLock, WriteTooLarge,
           WriteInterrupted, WriteDone, ReadCall, ReadLock, ReadFind,
           ReadEnd, ReadCopy, SeekCall, SeekLock, SeekLoad, SeekStore, SeekReturn,
           IoctlRejected, IoctlCall, IoctlLock, IoctlSeekTo, IoctlInvalid,
           BuffLockInterrupted, BuffLock, Return, Enter, Goto
  <1>2. entry.buffPtr # NULL
    BY DEF DriverInv, StageInv
  <1> QED
    BY <1>1, <1>2 DEF FlushLock, Goto, DriverInv, MemoryTypes

LEMMA StrandedKept == DriverInv /\ NoStrandedLine /\ [Next]_vars => NoStrandedLine'
  <1> SUFFICES ASSUME DriverInv, NoStrandedLine, [Next]_vars, ~Signals
               PROVE  NoStrandedLine'
    BY DEF NoStrandedLine
  <1> DEFINE Flushing(p) == pc[p] \in {"f_lock", "f_add"}
  <1>1. ASSUME Partial' = <<>> PROVE NoStrandedLine'
    <2>1. DOMAIN Partial' = {}
      BY <1>1
    <2> QED
      BY <2>1 DEF NoStrandedLine
  <1>2. ASSUME Partial' = Partial, \A p \in Procs : Flushing(p) => Flushing(p)'
        PROVE  NoStrandedLine'
    BY <1>2 DEF NoStrandedLine
  <1>3. CASE aesd_init_module \/ aesd_cleanup_module
    <2>1. entry'.buffPtr = NULL
      BY <1>3 DEF aesd_init_module, aesd_cleanup_module, ZeroEntry, StaticEntry
    <2> QED
      BY <1>1, <2>1 DEF Partial
  <1>4. CASE \E p \in Procs : Quiet(p)
    <2> PICK p \in Procs : Quiet(p)
      BY <1>4
    <2>1. PICK to : QuietMove(p, to)
      BY QuietSteps
    <2>2. /\ pc' = [pc EXCEPT ![p] = to]
          /\ to # "f_free" /\ pc[p] # "f_free"
          /\ UNCHANGED <<mem, entry>>
      BY <2>1 DEF QuietMove, LockMove
    <2>3. Partial' = Partial
      BY <2>2, QuietPartial
    <2>4. \A q \in Procs : Flushing(q) => Flushing(q)'
      BY <2>2, FlushGoesOn DEF FlushInterrupted, DriverInv, MemoryTypes
    <2> QED
      BY <1>2, <2>3, <2>4
  <1>5. CASE \E p \in Procs : WriteCall(p)
    <2> PICK p \in Procs : WriteCall(p)
      BY <1>5
    <2>1. /\ pc[p] = "idle"
          /\ pc' = [pc EXCEPT ![p] = "w_lock"]
          /\ UNCHANGED mem
          /\ entry' = [entry EXCEPT !.size = KMALLOC_MAX_SIZE]
      BY DEF WriteCall, Enter, Goto, heapVars
    <2>2. entry'.buffPtr = entry.buffPtr /\ entry'.endIdx = entry.endIdx
      BY <2>1 DEF DriverInv, MemoryTypes
    <2>3. Partial' = Partial
      BY <2>1, <2>2, QuietPartial
    <2>4. \A q \in Procs : Flushing(q) => Flushing(q)'
      BY <2>1 DEF DriverInv, MemoryTypes
    <2> QED
      BY <1>2, <2>3, <2>4
  <1>6. CASE \E p \in Procs : FlushAdd(p)
    <2>1. Handover'
      BY <1>6 DEF FlushAdd, Goto, Handover, DriverInv, MemoryTypes
    <2> QED
      BY <1>1, <2>1 DEF Partial
  <1>7. CASE \E p \in Procs : FlushFree(p)
    <2>1. entry'.buffPtr = NULL
      BY <1>7 DEF FlushFree, EmptiedStage, DriverInv, MemoryTypes
    <2> QED
      BY <1>1, <2>1 DEF Partial
  <1>8. CASE \E p \in Procs : WriteLine(p) \/ WriteLineFails(p) \/ WriteLeftover(p)
    <2> PICK p \in Procs : \E to, b, chunk : StoreMove(p, to, b, chunk)
      BY <1>8, WriteStoreSteps
    <2> PICK to, b, chunk : StoreMove(p, to, b, chunk)
      OBVIOUS
    <2>1. /\ pc[p] = "w_scan"
          /\ pc' = [pc EXCEPT ![p] = to] /\ pc'[p] = to
          /\ chunk \in Seq(Byte)
      BY DEF StoreMove, LockMove, DriverInv, MemoryTypes
    <2>2. \A q \in Procs : ~Flushing(q)
      BY <2>1, OneWriter DEF HoldsEntryMutex
    <2>3. CASE ~StoreFits(b, Len(chunk))
      BY <1>2, <2>2, <2>3, StoreStages
    <2>4. CASE StoreFits(b, Len(chunk))
      <3>1. Partial \in Seq(Byte) /\ Partial' = Partial \o chunk
        BY <2>4, StoreStages
      <3>2. \A k \in 1 .. Len(Partial) : Partial[k] # Newline
        BY <2>2, <3>1 DEF NoStrandedLine
      <3>3. \A j \in 1 .. Len(chunk) :
              chunk[j] = Newline => j = Len(chunk) /\ to = "f_lock"
        BY <2>1, <2>4 DEF StoreMove
      <3>4. ASSUME NEW k \in DOMAIN Partial', Partial'[k] = Newline
            PROVE  k = Len(Partial') /\ to = "f_lock"
        <4> DEFINE s == Partial
        <4>1. s \in Seq(Byte) /\ k \in DOMAIN (s \o chunk) /\ (s \o chunk)[k] = Newline
          BY <3>1, <3>4
        <4>2. \A i \in 1 .. Len(s) : s[i] # Newline
          BY <3>2
        <4> HIDE DEF s
        <4>3. /\ Len(s \o chunk) = Len(s) + Len(chunk)
              /\ k - Len(s) \in 1 .. Len(chunk)
              /\ chunk[k - Len(s)] = Newline
          BY <2>1, <4>1, <4>2, FoundBehind
        <4>4. Len(s) \in Nat /\ Len(chunk) \in Nat /\ k \in Int
          BY <2>1, <4>1
        <4>5. k - Len(s) = Len(chunk) /\ to = "f_lock"
          BY <3>3, <4>3
        <4>6. k = Len(s \o chunk)
          BY <4>3, <4>4, <4>5
        <4> QED
          BY <3>1, <4>5, <4>6 DEF s
      <3> QED
        BY <2>1, <3>4 DEF NoStrandedLine
    <2> QED
      BY <2>3, <2>4
  <1>9. CASE UNCHANGED vars
    BY <1>9 DEF vars, devVars, heapVars, NoStrandedLine, Partial, Handover
  <1> QED
    BY <1>3, <1>4, <1>5, <1>6, <1>7, <1>8, <1>9, NextCases

(* Where no signal interrupts FlushPartial, whose result aesd_write does   *)
(* not look at, no complete line is left in the staging buffer.            *)
THEOREM NoLineStranded == Spec => []NoStrandedLine
  <1>1. Init => NoStrandedLine
    BY EmptyLog DEF Init, StaticEntry, NoStrandedLine
  <1> QED
    BY <1>1, DriverCorrect, StrandedKept, PTL DEF Spec

-----------------------------------------------------------------------------
(* What a lookup in the ring relies on holds whenever aesd_read,           *)
(* aesd_llseek or aesd_ioctl can look.                                     *)
THEOREM RingCorrect == Spec => []RingInv
  <1>1. Init => RingInv
    BY EmptyRing DEF Init, RingInv
  <1> QED
    BY <1>1, DriverCorrect, RingKept, PTL DEF Spec

(* The device, with its two mutexes, its staging buffer and its ring,      *)
(* implements the log: whatever processes write, in whatever order and     *)
(* with whatever failures, the ring holds the latest committed lines.      *)
THEOREM ImplementsLineLog == Spec => RefinesLineLog
  <1>1. Init => Log!Init
    <2>1. Init => buff = aesd_circular_buffer_init /\ entry.buffPtr = NULL
      BY DEF Init, StaticEntry
    <2> QED
      BY <2>1, EmptyLog DEF Log!Init
  <1> QED
    BY <1>1, DriverCorrect, RingCorrect, NextSimulates, PTL
    DEF Spec, RefinesLineLog, Log!Spec, LogStep

-----------------------------------------------------------------------------
(* What the log commits are lines: a commit takes what is staged, and      *)
(* nothing of it is in front of its newline.                               *)
LEMMA EntriesAreLinesKept ==
  ASSUME DriverInv, NoStrandedLine, EntriesAreLines, LogStep
  PROVE  EntriesAreLines'
  <1> SUFFICES ASSUME ~Signals, NEW i \in DOMAIN Lines'
               PROVE  IsLine(Lines'[i])
    BY DEF EntriesAreLines, IsLine
  <1>1. \A j \in DOMAIN Lines : IsLine(Lines[j])
    BY DEF EntriesAreLines
  <1>2. CASE Log!Commit
    <2> DEFINE kept == IF Len(Lines) = Capacity THEN Tail(Lines) ELSE Lines
    <2>1. Lines' = Append(kept, Partial)
      BY <1>2 DEF Log!Commit
    <2>2. IsLine(Partial)
      <3>1. Partial # <<>> /\ Partial[Len(Partial)] = Newline
        BY <1>2 DEF Log!Commit
      <3>2. \A k \in DOMAIN Partial : Partial[k] = Newline => k = Len(Partial)
        BY DEF NoStrandedLine
      <3> QED
        BY <3>1, <3>2 DEF IsLine
    <2>3. \A j \in DOMAIN kept : IsLine(kept[j])
      <3>1. Lines \in Seq(Range(Lines))
        BY DEF Lines, Range
      <3>2. Lines = <<>> => Len(Lines) # Capacity
        BY CapacityAssumption DEF Capacity
      <3> QED
        BY <1>1, <3>1, <3>2
    <2> QED
      BY <2>1, <2>2, <2>3
  <1>3. CASE Lines' = Lines
    BY <1>1, <1>3
  <1>4. CASE Log!Forget
    BY <1>4 DEF Log!Forget
  <1> QED
    BY <1>2, <1>3, <1>4 DEF LogStep, Log!Next, Log!Store

(* Where no signal interrupts FlushPartial, an entry of the ring is        *)
(* exactly one line, whatever calls its parts came in and whatever fails.  *)
THEOREM LinesAreWhole == Spec => []EntriesAreLines
  <1>1. Init => EntriesAreLines
    BY EmptyLog DEF Init, StaticEntry, EntriesAreLines
  <1>2. DriverInv /\ RingInv /\ NoStrandedLine /\ EntriesAreLines /\ [Next]_vars
          => EntriesAreLines'
    BY NextSimulates, EntriesAreLinesKept
  <1> QED
    BY <1>1, <1>2, DriverCorrect, RingCorrect, NoLineStranded, PTL DEF Spec

-----------------------------------------------------------------------------
(* The frames of the calls, and what a read finds. *)

(* What a call at step at may rely on in its frame: the argument it came   *)
(* with is one of its kind, and what aesd_read has looked up is still what *)
(* a lookup in the ring b finds.                                           *)
FrameFor(at, fr, b) ==
  /\ fr \in Frame
  /\ at \in {"s_lock", "s_load", "s_store", "s_ret"} => fr.arg \in SeekArgs
  /\ at \in {"s_load", "s_store"} => fr.arg.whence # "SEEK_DATA"
  /\ at \in {"i_lock", "i_seek"} => fr.arg \in IoctlArgs
  /\ at = "r_copy" =>
       /\ fr.found = aesd_circular_buffer_find_entry_offset_for_fpos(b, fr.actualPos)
       /\ fr.found # NULL

(* The part of the type invariant DriverInv does not have, with the above. *)
CallInv ==
  /\ lseekPos \in Int
  /\ f_pos \in [Procs -> Int]
  /\ call \in [Procs -> Frame]
  /\ \A p \in Procs : FrameFor(pc[p], call[p], buff)

(* Process p moves to step to with the frame fr. *)
LEMMA CallMove ==
  ASSUME DriverInv, CallInv, NEW p \in Procs, NEW to, NEW fr,
         pc' = [pc EXCEPT ![p] = to], call' = [call EXCEPT ![p] = fr],
         FrameFor(to, fr, buff'), lseekPos' \in Int, f_pos' \in [Procs -> Int],
         buff' = buff \/ \A q \in Procs \ {p} : pc[q] # "r_copy"
  PROVE  CallInv'
  <1>1. pc \in [Procs -> PCs] /\ call \in [Procs -> Frame]
    BY DEF DriverInv, MemoryTypes, CallInv
  <1>2. fr \in Frame
    BY DEF FrameFor
  <1>3. call' \in [Procs -> Frame]
    BY <1>1, <1>2
  <1>4. pc'[p] = to /\ call'[p] = fr
    BY <1>1
  <1>5. ASSUME NEW q \in Procs PROVE FrameFor(pc'[q], call'[q], buff')
    <2>1. CASE q = p
      BY <1>4, <2>1
    <2>2. CASE q # p
      <3>1. pc'[q] = pc[q] /\ call'[q] = call[q] /\ FrameFor(pc[q], call[q], buff)
        BY <1>1, <2>2 DEF CallInv
      <3>2. CASE buff' = buff
        BY <3>1, <3>2
      <3>3. CASE pc[q] # "r_copy"
        BY <3>1, <3>3 DEF FrameFor
      <3> QED BY <2>2, <3>2, <3>3
    <2> QED BY <2>1, <2>2
  <1> QED BY <1>3, <1>5 DEF CallInv

(* A call that stays inside the driver without touching its frame. *)
LEMMA CallStays ==
  ASSUME DriverInv, CallInv, NEW p \in Procs, NEW to,
         pc' = [pc EXCEPT ![p] = to], FrameFor(to, call[p], buff),
         lseekPos' \in Int, UNCHANGED <<buff, f_pos, call>>
  PROVE  CallInv'
  <1>1. call' = [call EXCEPT ![p] = call[p]]
    BY DEF CallInv
  <1>2. FrameFor(to, call[p], buff') /\ f_pos' \in [Procs -> Int] /\ buff' = buff
    BY DEF CallInv
  <1> QED BY <1>1, <1>2, CallMove

(* The frame of a call that has returned, and the one a call starts with. *)
LEMMA EmptyFrame ==
  /\ NoCall \in Frame
  /\ \A n \in Int : [NoCall EXCEPT !.ret = n] \in Frame
  <1>1. 0 \in 0 .. WordMod - 1 /\ <<>> \in Seq(Byte)
    BY DriverAssumption
  <1> DEFINE Arg == SeekArgs \cup IoctlArgs \cup {NULL}
             Found == [slot : Slots, offset : Nat] \cup {NULL}
  <1>2. NULL \in Arg /\ NULL \in Found /\ NULL \in Pointer /\ 0 \in Nat /\ 0 \in Int
    BY DEF Pointer
  <1>3. Frame = [count : Nat, rest : Seq(Byte), arg : Arg, freePtr : Pointer,
                 actualPos : 0 .. WordMod - 1, found : Found, seekPos : Int,
                 ret : Int, out : Seq(Byte)]
    BY DEF Frame
  <1> HIDE DEF Arg, Found
  <1>4. NoCall \in Frame
    BY <1>1, <1>2, <1>3 DEF NoCall
  <1> QED BY <1>3, <1>4

LEMMA CallReturned ==
  ASSUME DriverInv, CallInv, NEW p \in Procs, NEW from, NEW r \in Int,
         Return(p, from, r), lseekPos' \in Int, UNCHANGED <<buff, f_pos>>
  PROVE  CallInv'
  <1> DEFINE fr == [NoCall EXCEPT !.ret = r]
  <1>1. pc' = [pc EXCEPT ![p] = "idle"] /\ call' = [call EXCEPT ![p] = fr]
    BY DEF Return, Goto
  <1>2. fr \in Frame
    BY EmptyFrame
  <1> HIDE DEF fr
  <1>3. FrameFor("idle", fr, buff') /\ f_pos' \in [Procs -> Int] /\ buff' = buff
    BY <1>2 DEF CallInv, FrameFor
  <1> QED BY <1>1, <1>3, CallMove

LEMMA CallEntered ==
  ASSUME DriverInv, CallInv, NEW p \in Procs, NEW to, NEW fr,
         Enter(p, to, fr), FrameFor(to, fr, buff), UNCHANGED <<buff, f_pos, lseekPos>>
  PROVE  CallInv'
  <1>1. pc' = [pc EXCEPT ![p] = to] /\ call' = [call EXCEPT ![p] = fr]
    BY DEF Enter, Goto
  <1>2. FrameFor(to, fr, buff') /\ f_pos' \in [Procs -> Int] /\ buff' = buff /\ lseekPos' \in Int
    BY DEF CallInv
  <1> QED BY <1>1, <1>2, CallMove

(* What holds of the frame of any process. *)
LEMMA FrameOf ==
  ASSUME DriverInv, CallInv, NEW p \in Procs
  PROVE  /\ call[p] \in Frame
         /\ FrameFor(pc[p], call[p], buff)
         /\ lseekPos \in Int /\ f_pos[p] \in Int
  BY DEF CallInv

(* Opening, closing and waiting. *)
LEMMA StayingSteps ==
  ASSUME DriverInv, CallInv, NEW p \in Procs,
         \/ aesd_open(p) \/ WriteLock(p) \/ FlushLock(p) \/ FlushInterrupted(p)
         \/ ReadLock(p) \/ SeekLock(p) \/ IoctlLock(p)
  PROVE  CallInv'
  <1>1. call[p] \in Frame /\ FrameFor(pc[p], call[p], buff) /\ lseekPos \in Int
    BY FrameOf
  <1>2. ASSUME NEW from, NEW to, Goto(p, from, to), UNCHANGED <<lseekPos, buff, f_pos, call>>,
               to \in {"idle", "w_scan", "f_add", "r_find"}
        PROVE  CallInv'
    <2>1. FrameFor(to, call[p], buff)
      BY <1>1, <1>2 DEF FrameFor
    <2>2. lseekPos' \in Int /\ pc' = [pc EXCEPT ![p] = to]
      BY <1>1, <1>2 DEF Goto
    <2> QED BY <1>2, <2>1, <2>2, CallStays
  <1>3. CASE aesd_open(p)
    BY <1>2, <1>3 DEF aesd_open, devVars
  <1>4. CASE WriteLock(p)
    BY <1>2, <1>4 DEF WriteLock, devVars
  <1>5. CASE FlushLock(p)
    BY <1>2, <1>5 DEF FlushLock, devVars
  <1>6. CASE FlushInterrupted(p)
    BY <1>2, <1>6 DEF FlushInterrupted, devVars
  <1>7. CASE ReadLock(p)
    BY <1>2, <1>7 DEF ReadLock, BuffLock, devVars
  <1>8. CASE SeekLock(p)
    <2> DEFINE w == call[p].arg.whence
               to == IF w = "SEEK_CUR" THEN "s_load"
                     ELSE IF w = "SEEK_DATA" THEN "s_ret" ELSE "s_store"
    <2>1. pc[p] = "s_lock" /\ Goto(p, "s_lock", to) /\ UNCHANGED <<lseekPos, buff, f_pos, call>>
      BY <1>8 DEF SeekLock, BuffLock, Goto, devVars
    <2>2. call[p].arg \in SeekArgs
      BY <1>1, <2>1 DEF FrameFor
    <2>3. FrameFor(to, call[p], buff)
      BY <1>1, <2>2 DEF FrameFor
    <2> HIDE DEF to
    <2>4. lseekPos' \in Int /\ pc' = [pc EXCEPT ![p] = to]
      BY <1>1, <2>1 DEF Goto
    <2> QED BY <2>1, <2>3, <2>4, CallStays
  <1>9. CASE IoctlLock(p)
    <2>1. pc[p] = "i_lock" /\ Goto(p, "i_lock", "i_seek") /\ UNCHANGED <<lseekPos, buff, f_pos, call>>
      BY <1>9 DEF IoctlLock, BuffLock, Goto, devVars
    <2>2. FrameFor("i_seek", call[p], buff)
      BY <1>1, <2>1 DEF FrameFor
    <2>3. lseekPos' \in Int /\ pc' = [pc EXCEPT ![p] = "i_seek"]
      BY <1>1, <2>1 DEF Goto
    <2> QED BY <2>1, <2>2, <2>3, CallStays
  <1> QED BY <1>3, <1>4, <1>5, <1>6, <1>7, <1>8, <1>9

(* Calls that begin. *)
LEMMA EnteringSteps ==
  ASSUME DriverInv, CallInv, NEW p \in Procs,
         WriteCall(p) \/ ReadCall(p) \/ SeekCall(p) \/ IoctlCall(p)
  PROVE  CallInv'
  <1>1. NoCall \in Frame
    BY EmptyFrame
  <1>2. CASE WriteCall(p)
    <2>1. PICK data \in Payloads :
            Enter(p, "w_lock", [NoCall EXCEPT !.rest = data, !.count = Len(data)])
      BY <1>2 DEF WriteCall
    <2> DEFINE fr == [NoCall EXCEPT !.rest = data, !.count = Len(data)]
    <2>2. data \in Seq(Byte) /\ Len(data) \in Nat
      BY DriverAssumption
    <2>3. fr \in Frame
      BY <1>1, <2>2 DEF Frame
    <2> HIDE DEF fr
    <2>4. FrameFor("w_lock", fr, buff)
      BY <2>3 DEF FrameFor
    <2>5. Enter(p, "w_lock", fr) /\ UNCHANGED <<buff, f_pos, lseekPos>>
      BY <1>2, <2>1 DEF WriteCall, fr
    <2> QED BY <2>4, <2>5, CallEntered
  <1>3. CASE ReadCall(p)
    <2>1. PICK n \in ReadCounts : Enter(p, "r_lock", [NoCall EXCEPT !.count = n])
      BY <1>3 DEF ReadCall
    <2> DEFINE fr == [NoCall EXCEPT !.count = n]
    <2>2. n \in Nat
      BY DriverAssumption
    <2>3. fr \in Frame
      BY <1>1, <2>2 DEF Frame
    <2> HIDE DEF fr
    <2>4. FrameFor("r_lock", fr, buff)
      BY <2>3 DEF FrameFor
    <2>5. Enter(p, "r_lock", fr) /\ UNCHANGED <<buff, f_pos, lseekPos>>
      BY <1>3, <2>1 DEF ReadCall, devVars, fr
    <2> QED BY <2>4, <2>5, CallEntered
  <1>4. CASE SeekCall(p)
    <2>1. PICK a \in SeekArgs : Enter(p, "s_lock", [NoCall EXCEPT !.arg = a])
      BY <1>4 DEF SeekCall
    <2> DEFINE fr == [NoCall EXCEPT !.arg = a]
    <2>3. fr \in Frame /\ fr.arg = a
      BY <1>1 DEF Frame, NoCall
    <2> HIDE DEF fr
    <2>4. FrameFor("s_lock", fr, buff)
      BY <2>3 DEF FrameFor
    <2>5. Enter(p, "s_lock", fr) /\ UNCHANGED <<buff, f_pos, lseekPos>>
      BY <1>4, <2>1 DEF SeekCall, devVars, fr
    <2> QED BY <2>4, <2>5, CallEntered
  <1>5. CASE IoctlCall(p)
    <2>1. PICK a \in IoctlArgs : Enter(p, "i_lock", [NoCall EXCEPT !.arg = a])
      BY <1>5 DEF IoctlCall
    <2> DEFINE fr == [NoCall EXCEPT !.arg = a]
    <2>3. fr \in Frame /\ fr.arg = a
      BY <1>1 DEF Frame, NoCall
    <2> HIDE DEF fr
    <2>4. FrameFor("i_lock", fr, buff)
      BY <2>3 DEF FrameFor
    <2>5. Enter(p, "i_lock", fr) /\ UNCHANGED <<buff, f_pos, lseekPos>>
      BY <1>5, <2>1 DEF IoctlCall, devVars, fr
    <2> QED BY <2>4, <2>5, CallEntered
  <1> QED BY <1>2, <1>3, <1>4, <1>5

-----------------------------------------------------------------------------
(* The sizes of the ring are numbers, so its positions are. *)
LEMMA RingTotals ==
  ASSUME DriverInv, NEW z,
         z = [k \in Nat |-> get_entry_at_virtual_offset(buff, k).size]
  PROVE  /\ z \in [Nat -> Nat]
         /\ \E t : Totals(t, z) /\ \A n : SizeOfFirst(buff, n) = t[n]
  <1>1. buff \in BufferType(Entries) /\ \A e \in Entries : e.size \in Nat
    BY DriverAssumption DEF DriverInv, MemoryTypes, Entries
  <1> QED BY <1>1, SizeTotals

LEMMA RingSizes ==
  ASSUME DriverInv
  PROVE  /\ numEntries(buff) \in 0 .. Capacity
         /\ \A n \in Nat : SizeOfFirst(buff, n) \in Nat
         /\ aesd_circular_buffer_get_size(buff) \in Nat
         /\ \A a \in IoctlArgs : SeekBase(a) \in Int
  <1>1. buff \in BufferType(Entries) /\ Capacity \in Nat
    BY CapacityAssumption DEF DriverInv, MemoryTypes, Capacity
  <1>2. numEntries(buff) \in 0 .. Capacity
    BY <1>1 DEF BufferType, numEntries, Slots
  <1>3. \A n \in Nat : SizeOfFirst(buff, n) \in Nat
    <2> DEFINE z == [k \in Nat |-> get_entry_at_virtual_offset(buff, k).size]
    <2>1. PICK t : Totals(t, z) /\ \A n : SizeOfFirst(buff, n) = t[n]
      BY RingTotals
    <2> QED BY <2>1 DEF Totals
  <1>4. \A a \in IoctlArgs : SeekBase(a) \in Int
    BY <1>3, DriverAssumption
    DEF SeekBase, aesd_circular_buffer_find_fpos_for_virtual_entry_offset
  <1>5. aesd_circular_buffer_get_size(buff) \in Nat
    BY <1>1, <1>2, <1>3 DEF aesd_circular_buffer_get_size
  <1> QED BY <1>2, <1>3, <1>4, <1>5

(* Calls that return. *)
LEMMA ReturningSteps ==
  ASSUME DriverInv, CallInv, NEW p \in Procs,
         \/ WriteTooLarge(p) \/ WriteInterrupted(p) \/ WriteDone(p)
         \/ WriteLineFails(p) \/ WriteLeftover(p) \/ ReadEnd(p) \/ SeekReturn(p)
         \/ IoctlRejected(p) \/ IoctlSeekTo(p) \/ IoctlInvalid(p)
         \/ BuffLockInterrupted(p)
  PROVE  CallInv'
  <1>1. lseekPos \in Int /\ call[p].count \in Int
    BY FrameOf DEF Frame
  <1>2. /\ -ENOMEM \in Int /\ -ERESTARTSYS \in Int /\ -EINVAL \in Int /\ 0 \in Int
        /\ \A e \in {ENOTTY, EFAULT} : -e \in Int
    BY DEF ENOMEM, ERESTARTSYS, EINVAL, ENOTTY, EFAULT
  <1>3. ASSUME NEW from, NEW r \in Int, Return(p, from, r), UNCHANGED <<lseekPos, buff, f_pos>>
        PROVE  CallInv'
    <2>1. lseekPos' \in Int /\ UNCHANGED <<buff, f_pos>>
      BY <1>1, <1>3
    <2> QED BY <1>3, <2>1, CallReturned
  <1>4. CASE WriteTooLarge(p)
    BY <1>2, <1>3, <1>4 DEF WriteTooLarge, devVars
  <1>5. CASE WriteInterrupted(p)
    BY <1>2, <1>3, <1>5 DEF WriteInterrupted, devVars
  <1>6. CASE WriteDone(p)
    BY <1>1, <1>3, <1>6 DEF WriteDone, devVars
  <1>7. CASE WriteLineFails(p)
    BY <1>2, <1>3, <1>7 DEF WriteLineFails
  <1>8. CASE WriteLeftover(p)
    BY <1>1, <1>3, <1>8 DEF WriteLeftover
  <1>9. CASE ReadEnd(p)
    BY <1>2, <1>3, <1>9 DEF ReadEnd, devVars
  <1>10. CASE SeekReturn(p)
    BY <1>1, <1>3, <1>10 DEF SeekReturn, devVars
  <1>11. CASE IoctlRejected(p)
    BY <1>2, <1>3, <1>11 DEF IoctlRejected, devVars
  <1>12. CASE IoctlSeekTo(p)
    <2> DEFINE a == call[p].arg
    <2>1. pc[p] = "i_seek" /\ Return(p, "i_seek", 0) /\ UNCHANGED <<buff, f_pos>>
          /\ lseekPos' = SeekBase(a) + a.write_cmd_offset
      BY <1>12 DEF IoctlSeekTo, Return, Goto
    <2>2. a \in IoctlArgs
      BY <2>1, FrameOf DEF FrameFor
    <2>3. SeekBase(a) \in Int /\ a.write_cmd_offset \in Int
      <3>1. SeekBase(a) \in Int
        BY <2>2, RingSizes
      <3>2. a.write_cmd_offset \in Int
        BY <2>2, DriverAssumption
      <3> QED BY <3>1, <3>2
    <2>4. lseekPos' \in Int
      BY <2>1, <2>3
    <2> QED BY <1>2, <2>1, <2>4, CallReturned
  <1>13. CASE IoctlInvalid(p)
    BY <1>2, <1>3, <1>13 DEF IoctlInvalid, devVars
  <1>14. CASE BuffLockInterrupted(p)
    BY <1>2, <1>3, <1>14 DEF BuffLockInterrupted, devVars
  <1> QED BY <1>4, <1>5, <1>6, <1>7, <1>8, <1>9, <1>10, <1>11, <1>12, <1>13, <1>14

(* A loff_t is a number. *)
LEMMA LoffIsInt ==
  /\ \A n \in Int : ToLoff(n) \in Int
  /\ \A n \in Int : n % WordMod \in 0 .. WordMod - 1
  <1>1. WordMod \in Nat \ {0}
    BY DriverAssumption
  <1>2. \A n \in Int : n % WordMod \in 0 .. WordMod - 1
    BY <1>1, Z3
  <1>3. \A n \in Int : ToLoff(n) = n % WordMod \/ ToLoff(n) = (n % WordMod) - WordMod
    BY DEF ToLoff
  <1> QED BY <1>1, <1>2, <1>3

(* Closing a file and seeking. *)
LEMMA PositionSteps ==
  ASSUME DriverInv, CallInv, NEW p \in Procs,
         aesd_release(p) \/ SeekLoad(p) \/ SeekStore(p)
  PROVE  CallInv'
  <1>1. /\ call[p] \in Frame /\ FrameFor(pc[p], call[p], buff)
        /\ lseekPos \in Int /\ f_pos \in [Procs -> Int]
    BY FrameOf DEF CallInv
  <1>2. CASE aesd_release(p)
    <2>1. /\ pc' = [pc EXCEPT ![p] = "closed"] /\ call' = [call EXCEPT ![p] = NoCall]
          /\ f_pos' = [f_pos EXCEPT ![p] = 0] /\ lseekPos' = 0 /\ buff' = buff
      BY <1>2 DEF aesd_release, CloseFile, Goto
    <2>2. FrameFor("closed", NoCall, buff')
      BY EmptyFrame DEF FrameFor
    <2>3. lseekPos' \in Int /\ f_pos' \in [Procs -> Int]
      BY <1>1, <2>1
    <2> QED BY <2>1, <2>2, <2>3, CallMove
  <1>3. CASE SeekLoad(p)
    <2> DEFINE fr == [call[p] EXCEPT !.seekPos = lseekPos]
    <2>1. /\ pc[p] = "s_load" /\ pc' = [pc EXCEPT ![p] = "s_store"]
          /\ call' = [call EXCEPT ![p] = fr]
          /\ lseekPos' = lseekPos /\ f_pos' = f_pos /\ buff' = buff
      BY <1>3 DEF SeekLoad, Goto, devVars
    <2>2. fr \in Frame /\ fr.arg = call[p].arg
      BY <1>1 DEF Frame
    <2> HIDE DEF fr
    <2>6. call[p].arg \in SeekArgs /\ call[p].arg.whence # "SEEK_DATA"
      BY <1>1, <2>1 DEF FrameFor
    <2>3. fr.arg \in SeekArgs /\ fr.arg.whence # "SEEK_DATA"
      BY <2>2, <2>6
    <2>4. FrameFor("s_store", fr, buff')
      BY <2>2, <2>3 DEF FrameFor
    <2>5. lseekPos' \in Int /\ f_pos' \in [Procs -> Int]
      BY <1>1, <2>1
    <2> QED BY <2>1, <2>4, <2>5, CallMove
  <1>4. CASE SeekStore(p)
    <2> DEFINE a == call[p].arg
    <2>1. /\ pc[p] = "s_store" /\ pc' = [pc EXCEPT ![p] = "s_ret"]
          /\ lseekPos' = SeekTarget(p) /\ UNCHANGED <<buff, f_pos, call>>
      BY <1>4 DEF SeekStore, Goto
    <2>2. a \in SeekArgs /\ a.whence # "SEEK_DATA"
      BY <1>1, <2>1 DEF FrameFor
    <2>3. /\ a.whence \in {"SEEK_SET", "SEEK_CUR", "SEEK_END"} /\ a.off \in Int
          /\ call[p].seekPos \in Int
      BY <1>1, <2>2, DriverAssumption DEF Whences, Frame
    <2>4. SeekTarget(p) \in Int
      <3>1. call[p].seekPos + a.off \in Int
        BY <2>3
      <3>2. ToLoff(call[p].seekPos + a.off) \in Int
        BY <3>1, LoffIsInt
      <3>3. aesd_circular_buffer_get_size(buff) \in Int
        BY RingSizes
      <3>4. CASE a.whence = "SEEK_SET"
        BY <2>3, <3>4 DEF SeekTarget
      <3>5. CASE a.whence = "SEEK_CUR"
        BY <3>2, <3>5 DEF SeekTarget
      <3>6. CASE a.whence = "SEEK_END"
        BY <3>3, <3>6 DEF SeekTarget
      <3> QED BY <2>3, <3>4, <3>5, <3>6
    <2>5. FrameFor("s_ret", call[p], buff) /\ lseekPos' \in Int
      BY <1>1, <2>1, <2>2, <2>4 DEF FrameFor
    <2> QED BY <2>1, <2>5, CallStays
  <1> QED BY <1>2, <1>3, <1>4

(* An entry the ring lists: a line in a block of its own. *)
LEMMA ListedEntry ==
  ASSUME DriverInv, RingInv, NEW k \in 0 .. numEntries(buff) - 1
  PROVE  LET e == buff.entry[VirtualIndex(buff, k)]
         IN  /\ VirtualIndex(buff, k) \in Slots
             /\ Contents(buff)[k + 1] = e
             /\ get_entry_at_virtual_offset(buff, k) = e
             /\ e \in Entries
             /\ e.buffptr \in Blocks
             /\ mem[e.buffptr] \in Seq(Byte)
             /\ e.size \in 1 .. Len(mem[e.buffptr])
  <1>1. buff \in BufferType(Entries) /\ IndexInv(buff) /\ numEntries(buff) \in Nat
    <2>1. numEntries(buff) \in 0 .. Capacity /\ Capacity \in Nat
      BY RingSizes, CapacityAssumption DEF Capacity
    <2> QED BY <2>1 DEF DriverInv, MemoryTypes, RingInv
  <1>2. k \in Nat /\ k + 1 \in 1 .. numEntries(buff) /\ (k + 1) - 1 = k
    BY <1>1
  <1>3. VirtualIndex(buff, k) \in Slots
    BY <1>1, <1>2, VirtualIndexInSlots DEF BufferType
  <1>4. Len(Contents(buff)) = numEntries(buff)
    BY <1>1, ContentsValue
  <1> DEFINE e == buff.entry[VirtualIndex(buff, k)]
  <1>5. Contents(buff)[k + 1] = e /\ get_entry_at_virtual_offset(buff, k) = e
    BY <1>2 DEF Contents, get_entry_at_virtual_offset
  <1>6. e \in Entries /\ e.buffptr \in Blocks
    BY <1>2, <1>4, <1>5, ListedEntries
  <1>7. e.buffptr # NULL
    BY <1>6, DriverAssumption
  <1>8. e.size \in 1 .. Len(mem[e.buffptr])
    BY <1>3, <1>7 DEF DriverInv, EntriesEndLines
  <1>9. mem[e.buffptr] \in Seq(Byte)
    BY <1>6 DEF DriverInv, MemoryTypes
  <1> QED BY <1>3, <1>5, <1>6, <1>8, <1>9

(* What a lookup finds: an offset in the line whose bytes span the         *)
(* position.                                                               *)
LEMMA FoundEntry ==
  ASSUME DriverInv, RingInv, NEW o \in Nat,
         NEW z, z = [k \in Nat |-> get_entry_at_virtual_offset(buff, k).size],
         NEW t, Totals(t, z), \A n : SizeOfFirst(buff, n) = t[n]
  PROVE  /\ Lookup(o) = NULL => o >= t[numEntries(buff)]
         /\ Lookup(o) # NULL =>
              \E k \in 0 .. numEntries(buff) - 1 :
                /\ Lookup(o) = [slot |-> VirtualIndex(buff, k), offset |-> o - t[k]]
                /\ o - t[k] \in 0 .. z[k] - 1
  <1> DEFINE N == numEntries(buff)
  <1>1. /\ buff \in BufferType(Entries) /\ IndexInv(buff)
        /\ \A e \in Entries : e.size \in Nat
    BY DriverAssumption DEF DriverInv, MemoryTypes, RingInv, Entries
  <1>2. /\ o >= t[N] => Lookup(o) = NULL
        /\ o < t[N] =>
             \E k \in 0 .. N - 1 :
               /\ t[k] <= o /\ o < t[k + 1]
               /\ Lookup(o) = [slot |-> VirtualIndex(buff, k), offset |-> o - t[k]]
    BY <1>1, LookupValue DEF Lookup
  <1>3. N \in Nat
    BY RingSizes, CapacityAssumption DEF Capacity
  <1> HIDE DEF N
  <1>4. z \in [Nat -> Nat] /\ t[N] \in Nat
    BY <1>3, RingTotals DEF Totals
  <1>5. CASE o < t[N]
    <2>1. PICK k \in 0 .. N - 1 :
             /\ t[k] <= o /\ o < t[k + 1]
             /\ Lookup(o) = [slot |-> VirtualIndex(buff, k), offset |-> o - t[k]]
      BY <1>2, <1>5
    <2>2. k \in Nat /\ t[k] \in Nat /\ z[k] \in Nat /\ t[k + 1] = t[k] + z[k]
      BY <1>3, <1>4 DEF Totals
    <2>3. o - t[k] \in 0 .. z[k] - 1
      BY <2>1, <2>2
    <2>4. Lookup(o) # NULL
      <3>1. VirtualIndex(buff, k) \in Slots /\ o - t[k] \in Nat
        BY <2>3, ListedEntry DEF N
      <3> QED BY <2>1, <3>1, NullAssumption
    <2> QED BY <2>1, <2>3, <2>4 DEF N
  <1>6. CASE o >= t[N]
    BY <1>2, <1>6 DEF N
  <1> QED BY <1>4, <1>5, <1>6

(* Between aesd_read's lookup and its copy the ring stays as it is, so the *)
(* copy stays inside the line that was found.                              *)
LEMMA CopyWithin ==
  ASSUME DriverInv, RingInv, CallInv, NEW p \in Procs, pc[p] = "r_copy",
         NEW z, z = [k \in Nat |-> get_entry_at_virtual_offset(buff, k).size],
         NEW t, Totals(t, z), \A n : SizeOfFirst(buff, n) = t[n]
  PROVE  \E k \in 0 .. numEntries(buff) - 1 :
           LET src == call[p].found
           IN  /\ src.slot = VirtualIndex(buff, k)
               /\ src.offset = call[p].actualPos - t[k]
               /\ src.offset \in 0 .. z[k] - 1
               /\ SizeToRead(p) \in Nat
               /\ src.offset + SizeToRead(p) <= z[k]
               /\ call[p].count > 0 => SizeToRead(p) > 0
  <1> DEFINE src == call[p].found
             o == call[p].actualPos
  <1>1. call[p] \in Frame /\ src = Lookup(o) /\ src # NULL
    BY FrameOf DEF FrameFor, Lookup
  <1>2. o \in Nat /\ call[p].count \in Nat
    BY <1>1, DriverAssumption DEF Frame
  <1>3. PICK k \in 0 .. numEntries(buff) - 1 :
          /\ Lookup(o) = [slot |-> VirtualIndex(buff, k), offset |-> o - t[k]]
          /\ o - t[k] \in 0 .. z[k] - 1
    BY <1>1, <1>2, FoundEntry
  <1> HIDE DEF o
  <1>4. src.slot = VirtualIndex(buff, k) /\ src.offset = o - t[k]
    BY <1>1, <1>3
  <1>5. z \in [Nat -> Nat] /\ numEntries(buff) \in Nat
    BY RingTotals, RingSizes, CapacityAssumption DEF Capacity
  <1>6. buff.entry[src.slot].size = z[k] /\ z[k] \in Nat
    <2>1. k \in Nat
      BY <1>5
    <2> QED BY <1>4, <1>5, <2>1, ListedEntry
  <1> DEFINE left == buff.entry[src.slot].size - src.offset
             most == SizeToRead(p)
  <1>7. left \in Nat /\ left > 0 /\ left = z[k] - src.offset /\ src.offset \in Nat
    BY <1>3, <1>4, <1>6
  <1>8. most = Min({left, call[p].count})
    BY DEF SizeToRead
  <1> HIDE DEF left, src, most
  <1>9. most \in {left, call[p].count} /\ most <= left
    <2>1. {left, call[p].count} \in SUBSET Nat /\ {left, call[p].count} # {}
      BY <1>2, <1>7
    <2> QED BY <1>8, <2>1, MinValue
  <1>10. most \in Nat /\ src.offset + most <= z[k] /\ (call[p].count > 0 => most > 0)
    BY <1>2, <1>6, <1>7, <1>9
  <1> QED BY <1>3, <1>4, <1>10 DEF src, o, most

(* A run of the elements of a sequence. *)
LEMMA RunOf ==
  ASSUME NEW S, NEW s \in Seq(S), NEW from \in 1 .. Len(s) + 1, NEW to \in 0 .. Len(s)
  PROVE  SubSeq(s, from, to) \in Seq(S)
  <1>1. \A i \in from .. to : i \in 1 .. Len(s)
    OBVIOUS
  <1>2. \A i \in from .. to : s[i] \in S
    BY <1>1
  <1> QED BY <1>2, SubSeqProperties

(* A read finds its entry, and delivers bytes of it. *)
LEMMA ReadingSteps ==
  ASSUME DriverInv, RingInv, CallInv, NEW p \in Procs, ReadFind(p) \/ ReadCopy(p)
  PROVE  CallInv'
  <1>1. /\ call[p] \in Frame /\ FrameFor(pc[p], call[p], buff)
        /\ lseekPos \in Int /\ f_pos \in [Procs -> Int]
    BY FrameOf DEF CallInv
  <1> DEFINE z == [k \in Nat |-> get_entry_at_virtual_offset(buff, k).size]
  <1>2. PICK t : Totals(t, z) /\ \A n : SizeOfFirst(buff, n) = t[n]
    BY RingTotals
  <1>3. CASE ReadFind(p)
    <2> DEFINE o == ReadPosition(p)
               at == Lookup(o)
               fr == [call[p] EXCEPT !.actualPos = o, !.found = at]
    <2>1. /\ pc' = [pc EXCEPT ![p] = "r_copy"]
          /\ call' = [call EXCEPT ![p].actualPos = o, ![p].found = at]
          /\ at # NULL
          /\ lseekPos' = lseekPos /\ f_pos' = f_pos /\ buff' = buff
      BY <1>3 DEF ReadFind, Goto, devVars
    <2>2. o \in 0 .. WordMod - 1 /\ o \in Nat
      <3>1. f_pos[p] + lseekPos \in Int
        BY <1>1
      <3>2. o \in 0 .. WordMod - 1
        BY <3>1, LoffIsInt DEF ReadPosition
      <3> HIDE DEF o
      <3> QED BY <3>2, DriverAssumption
    <2>3. at \in [slot : Slots, offset : Nat]
      <3>1. PICK k \in 0 .. numEntries(buff) - 1 :
              /\ at = [slot |-> VirtualIndex(buff, k), offset |-> o - t[k]]
              /\ o - t[k] \in 0 .. z[k] - 1
        BY <1>2, <2>1, <2>2, FoundEntry
      <3>2. VirtualIndex(buff, k) \in Slots
        BY ListedEntry
      <3> HIDE DEF at, o
      <3> QED BY <3>1, <3>2
    <2>4. at = aesd_circular_buffer_find_entry_offset_for_fpos(buff, o)
      BY DEF Lookup
    <2> HIDE DEF o, at
    <2>5. call' = [call EXCEPT ![p] = fr]
      BY <1>1, <2>1 DEF CallInv
    <2>6. fr \in Frame /\ fr.actualPos = o /\ fr.found = at
      BY <1>1, <2>2, <2>3 DEF Frame
    <2> HIDE DEF fr
    <2>7. FrameFor("r_copy", fr, buff')
      BY <2>1, <2>4, <2>6 DEF FrameFor
    <2>8. lseekPos' \in Int /\ f_pos' \in [Procs -> Int]
      BY <1>1, <2>1
    <2> QED BY <2>1, <2>5, <2>7, <2>8, CallMove
  <1>4. CASE ReadCopy(p)
    <2> DEFINE src == call[p].found
               m == mem[buff.entry[src.slot].buffptr]
    <2>1. PICK n \in 0 .. SizeToRead(p) :
            /\ call' = [call EXCEPT
                          ![p] = [NoCall EXCEPT
                                    !.out = SubSeq(m, src.offset + 1, src.offset + n),
                                    !.ret = n]]
            /\ f_pos' = [f_pos EXCEPT ![p] = ToLoff(@ + n)]
      BY <1>4 DEF ReadCopy
    <2>2. /\ pc[p] = "r_copy" /\ pc' = [pc EXCEPT ![p] = "idle"]
          /\ lseekPos' = lseekPos /\ buff' = buff
      BY <1>4 DEF ReadCopy, Goto, devVars
    <2>3. PICK k \in 0 .. numEntries(buff) - 1 :
               /\ src.slot = VirtualIndex(buff, k)
               /\ src.offset \in 0 .. z[k] - 1
               /\ SizeToRead(p) \in Nat
               /\ src.offset + SizeToRead(p) <= z[k]
      BY <1>2, <2>2, CopyWithin
    <2>4. m \in Seq(Byte) /\ z[k] \in 1 .. Len(m)
      <3>1. k \in Nat
        BY RingSizes, CapacityAssumption DEF Capacity
      <3> QED BY <2>3, <3>1, ListedEntry
    <2>5. n \in Int /\ src.offset + 1 \in 1 .. Len(m) + 1 /\ src.offset + n \in 0 .. Len(m)
      <3>1. PICK l : l = Len(m)
        OBVIOUS
      <3>2. l \in Nat
        <4>1. m \in Seq(Byte)
          BY <2>4
        <4> HIDE DEF m
        <4> QED BY <3>1, <4>1
      <3>3. PICK a \in Int, q \in Int, size \in Int :
                  a = src.offset /\ q = z[k] /\ size = SizeToRead(p)
        BY <2>3, <2>4
      <3> HIDE DEF m, src, z
      <3>4. a >= 0 /\ a < q /\ q <= l /\ a + size <= q
        BY <2>3, <2>4, <3>1, <3>2, <3>3
      <3>5. n \in Int /\ 0 <= n /\ n <= size
        BY <2>3, <3>3
      <3>6. n \in Int /\ a + 1 \in 1 .. l + 1 /\ a + n \in 0 .. l
        BY ONLY <3>2, <3>4, <3>5
      <3> QED BY <3>1, <3>3, <3>6
    <2> DEFINE run == SubSeq(m, src.offset + 1, src.offset + n)
               fr == [NoCall EXCEPT !.out = run, !.ret = n]
    <2>6. run \in Seq(Byte)
      <3>1. m \in Seq(Byte)
        BY <2>4
      <3> HIDE DEF m, src
      <3> QED BY <2>5, <3>1, RunOf
    <2>7. fr \in Frame
      <3> HIDE DEF run
      <3> QED BY <2>5, <2>6, EmptyFrame DEF Frame
    <2>8. f_pos' \in [Procs -> Int] /\ lseekPos' \in Int
      <3>1. f_pos[p] + n \in Int
        BY <1>1, <2>5
      <3>2. ToLoff(f_pos[p] + n) \in Int
        BY <3>1, LoffIsInt
      <3> QED BY <1>1, <2>1, <2>2, <3>2
    <2>9. call' = [call EXCEPT ![p] = fr]
      BY <2>1
    <2> HIDE DEF fr
    <2>10. FrameFor("idle", fr, buff')
      BY <2>7 DEF FrameFor
    <2> QED BY <2>2, <2>8, <2>9, <2>10, CallMove
  <1> QED BY <1>3, <1>4

(* The steps of aesd_write that change its frame.  FlushPartial changes    *)
(* the ring while it holds the buffer mutex: no read is between its lookup *)
(* and its copy.                                                           *)
LEMMA WritingSteps ==
  ASSUME DriverInv, CallInv, DriverInv', NEW p \in Procs,
         WriteLine(p) \/ FlushAdd(p) \/ FlushFree(p)
  PROVE  CallInv'
  <1>1. /\ call[p] \in Frame /\ call \in [Procs -> Frame]
        /\ lseekPos \in Int /\ f_pos \in [Procs -> Int]
    BY FrameOf DEF CallInv
  <1>2. call'[p].rest \in Seq(Byte) /\ call'[p].freePtr \in Pointer
    BY DEF DriverInv, FrameInv
  <1>3. CASE WriteLine(p)
    <2>1. PICK k : call' = [call EXCEPT ![p].rest = SubSeq(call[p].rest, k + 1, Len(call[p].rest))]
      BY <1>3 DEF WriteLine
    <2>2. PICK r : r = SubSeq(call[p].rest, k + 1, Len(call[p].rest))
      OBVIOUS
    <2> DEFINE fr == [call[p] EXCEPT !.rest = r]
    <2>3. call' = [call EXCEPT ![p] = fr]
      BY <1>1, <2>1, <2>2
    <2>4. fr.rest = r /\ call'[p] = fr
      BY <1>1, <2>3 DEF Frame
    <2>5. fr \in Frame
      BY <1>1, <1>2, <2>4 DEF Frame
    <2> HIDE DEF fr
    <2>6. /\ pc' = [pc EXCEPT ![p] = "f_lock"]
          /\ lseekPos' = lseekPos /\ f_pos' = f_pos /\ buff' = buff
      BY <1>3 DEF WriteLine, Goto
    <2>7. FrameFor("f_lock", fr, buff') /\ lseekPos' \in Int /\ f_pos' \in [Procs -> Int]
      BY <1>1, <2>5, <2>6 DEF FrameFor
    <2> QED BY <2>3, <2>6, <2>7, CallMove
  <1>4. CASE FlushAdd(p) \/ FlushFree(p)
    <2>1. PICK ptr, to :
            /\ to \in {"f_free", "w_scan"}
            /\ pc' = [pc EXCEPT ![p] = to]
            /\ call' = [call EXCEPT ![p].freePtr = ptr]
            /\ lseekPos' = lseekPos /\ f_pos' = f_pos
            /\ pc[p] \in {"f_add", "f_free"}
      BY <1>4 DEF FlushAdd, FlushFree, Goto
    <2> DEFINE fr == [call[p] EXCEPT !.freePtr = ptr]
    <2>3. call' = [call EXCEPT ![p] = fr]
      BY <1>1, <2>1
    <2>4. fr.freePtr = ptr /\ call'[p] = fr
      BY <1>1, <2>3 DEF Frame
    <2>5. fr \in Frame
      BY <1>1, <1>2, <2>4 DEF Frame
    <2> HIDE DEF fr
    <2>6. \A q \in Procs \ {p} : pc[q] # "r_copy"
      BY <2>1 DEF DriverInv, LocksMatchCalls, HoldsBuffMutex
    <2>7. FrameFor(to, fr, buff') /\ lseekPos' \in Int /\ f_pos' \in [Procs -> Int]
      BY <1>1, <2>1, <2>5 DEF FrameFor
    <2> QED BY <2>1, <2>3, <2>6, <2>7, CallMove
  <1> QED BY <1>3, <1>4

(* Loading and unloading the module: no call is under way. *)
LEMMA LoadingSteps ==
  ASSUME DriverInv, CallInv, aesd_init_module \/ aesd_cleanup_module
  PROVE  CallInv'
  <1>1. /\ \A p \in Procs : pc[p] = "closed"
        /\ lseekPos' \in Int
        /\ UNCHANGED <<pc, f_pos, call>>
    BY DEF aesd_init_module, aesd_cleanup_module, DriverInv, CallInv
  <1>2. \A p \in Procs : FrameFor(pc[p], call[p], buff')
    BY <1>1 DEF CallInv, FrameFor
  <1> QED BY <1>1, <1>2 DEF CallInv

LEMMA CallKept == DriverInv /\ DriverInv' /\ RingInv /\ CallInv /\ [Next]_vars => CallInv'
  <1> SUFFICES ASSUME DriverInv, DriverInv', RingInv, CallInv, [Next]_vars
               PROVE  CallInv'
    OBVIOUS
  <1>1. CASE aesd_init_module \/ aesd_cleanup_module
    BY <1>1, LoadingSteps
  <1>2. CASE \E p \in Procs : Quiet(p)
    BY <1>2, StayingSteps, EnteringSteps, ReturningSteps, PositionSteps, ReadingSteps DEF Quiet
  <1>3. CASE \E p \in Procs : WriteCall(p) \/ FlushAdd(p) \/ FlushFree(p)
    BY <1>3, EnteringSteps, WritingSteps
  <1>4. CASE \E p \in Procs : WriteLine(p) \/ WriteLineFails(p) \/ WriteLeftover(p)
    BY <1>4, WritingSteps, ReturningSteps
  <1>5. CASE UNCHANGED vars
    BY <1>5 DEF vars, devVars, CallInv, FrameFor
  <1> QED BY <1>1, <1>2, <1>3, <1>4, <1>5, NextCases

(* Whatever is called in whatever order, aesd_read copies from the entry   *)
(* its own lookup found.                                                   *)
THEOREM CallCorrect == Spec => []CallInv
  <1>1. Init => CallInv
    <2> SUFFICES ASSUME Init PROVE CallInv
      OBVIOUS
    <2>1. \A p \in Procs : pc[p] = "closed" /\ call[p] = NoCall
      BY DEF Init
    <2>2. \A p \in Procs : FrameFor(pc[p], call[p], buff)
      BY <2>1, EmptyFrame DEF FrameFor
    <2>3. call \in [Procs -> Frame]
      BY EmptyFrame DEF Init
    <2>4. lseekPos \in Int /\ f_pos \in [Procs -> Int]
      BY DEF Init
    <2> QED BY <2>2, <2>3, <2>4 DEF CallInv
  <1> QED BY <1>1, DriverCorrect, RingCorrect, CallKept, PTL DEF Spec

(* Every variable of the driver keeps its type: no lookup finds a slot or  *)
(* an offset that is none, and no order of calls hands a frame on to one   *)
(* of another kind.                                                        *)
THEOREM DriverTypes == Spec => []TypeOK
  <1>1. DriverInv /\ CallInv => TypeOK
    BY DEF DriverInv, CallInv, TypeOK
  <1> QED BY <1>1, DriverCorrect, CallCorrect, PTL

-----------------------------------------------------------------------------
(* What a read delivers and where a seek lands. *)

(* z has the sizes of the listed entries, t adds them up. *)
RingSums(z, t) ==
  /\ z = [k \in Nat |-> get_entry_at_virtual_offset(buff, k).size]
  /\ Totals(t, z)
  /\ \A n : SizeOfFirst(buff, n) = t[n]

LEMMA RingSumsExist == DriverInv => \E z, t : RingSums(z, t)
  <1> SUFFICES ASSUME DriverInv PROVE \E z, t : RingSums(z, t)
    OBVIOUS
  <1> DEFINE z == [k \in Nat |-> get_entry_at_virtual_offset(buff, k).size]
  <1>1. PICK t : Totals(t, z) /\ \A n : SizeOfFirst(buff, n) = t[n]
    BY RingTotals
  <1>2. RingSums(z, t)
    BY <1>1 DEF RingSums
  <1> QED BY <1>2

(* The lines the ring holds: each the bytes of its entry. *)
LEMMA LinesValue ==
  ASSUME DriverInv, RingInv, NEW z, NEW t, RingSums(z, t)
  PROVE  /\ numEntries(buff) \in Nat
         /\ Lines \in Seq(Seq(Byte))
         /\ Len(Lines) = numEntries(buff)
         /\ \A k \in 0 .. numEntries(buff) - 1 :
              LET m == mem[buff.entry[VirtualIndex(buff, k)].buffptr]
              IN  /\ m \in Seq(Byte)
                  /\ z[k] \in 1 .. Len(m)
                  /\ Len(Lines[k + 1]) = z[k]
                  /\ \A j \in 1 .. z[k] : Lines[k + 1][j] = m[j]
  <1> DEFINE N == numEntries(buff)
             c == Contents(buff)
  <1>1. N \in Nat
    BY RingSizes, CapacityAssumption DEF Capacity
  <1>2. Len(c) = N
    BY ContentsValue DEF DriverInv, MemoryTypes, RingInv
  <1>3. Lines = [i \in 1 .. N |-> LineOf(c[i])]
    BY <1>2 DEF Lines
  <1>4. ASSUME NEW k \in 0 .. N - 1
        PROVE  LET m == mem[buff.entry[VirtualIndex(buff, k)].buffptr]
               IN  /\ m \in Seq(Byte)
                   /\ z[k] \in 1 .. Len(m)
                   /\ Lines[k + 1] \in Seq(Byte)
                   /\ Len(Lines[k + 1]) = z[k]
                   /\ \A j \in 1 .. z[k] : Lines[k + 1][j] = m[j]
    <2> DEFINE e == buff.entry[VirtualIndex(buff, k)]
               m == mem[e.buffptr]
    <2>1. /\ c[k + 1] = e /\ get_entry_at_virtual_offset(buff, k) = e
          /\ m \in Seq(Byte) /\ e.size \in 1 .. Len(m)
      BY ListedEntry
    <2>2. k \in Nat /\ k + 1 \in 1 .. N
      BY <1>1
    <2>3. z[k] = e.size
      BY <2>1, <2>2 DEF RingSums
    <2>4. Lines[k + 1] = SubSeq(m, 1, e.size)
      BY <1>3, <2>1, <2>2 DEF LineOf
    <2>5. m \in Seq(Byte) /\ e.size \in DOMAIN m
      BY <2>1
    <2> HIDE DEF m, e
    <2>6. /\ SubSeq(m, 1, e.size) \in Seq(Byte) /\ Len(SubSeq(m, 1, e.size)) = e.size
          /\ \A j \in 1 .. e.size : SubSeq(m, 1, e.size)[j] = m[j]
      BY <2>5, SplitInput
    <2> QED BY <2>1, <2>3, <2>4, <2>6 DEF m, e
  <1> HIDE DEF N
  <1>5. \A i \in 1 .. N : LineOf(c[i]) \in Seq(Byte)
    <2> SUFFICES ASSUME NEW i \in 1 .. N PROVE LineOf(c[i]) \in Seq(Byte)
      OBVIOUS
    <2>1. i - 1 \in 0 .. N - 1 /\ (i - 1) + 1 = i
      BY <1>1
    <2>2. Lines[(i - 1) + 1] \in Seq(Byte)
      BY <1>4, <2>1
    <2> QED BY <1>3, <2>1, <2>2
  <1>6. Lines \in Seq(Seq(Byte)) /\ Len(Lines) = N
    <2> DEFINE V == Seq(Byte)
    <2>1. \A i \in 1 .. N : LineOf(c[i]) \in V
      BY <1>5
    <2> HIDE DEF V
    <2>2. Lines \in Seq(V) /\ Len(Lines) = N
      BY <1>1, <1>3, <2>1
    <2> QED BY <2>2 DEF V
  <1> QED BY <1>1, <1>4, <1>6 DEF N

LEMMA LinesLaidOut ==
  ASSUME DriverInv, RingInv, NEW z, NEW t, RingSums(z, t), NEW n \in 0 .. Len(Lines)
  PROVE  /\ Layout(Lines, Byte, z, t)
         /\ Layout(SubSeq(Lines, 1, n), Byte, z, t)
         /\ Len(SubSeq(Lines, 1, n)) = n
  <1>1. /\ Len(Lines) \in Nat /\ Lines \in Seq(Seq(Byte))
        /\ \A k \in 0 .. Len(Lines) - 1 : Len(Lines[k + 1]) = z[k]
    BY LinesValue
  <1>2. z \in [Nat -> Nat] /\ Totals(t, z)
    BY RingTotals DEF RingSums
  <1> DEFINE V == Seq(Byte)
             s == SubSeq(Lines, 1, n)
  <1>3. \A k \in 1 .. Len(Lines) : z[k - 1] = Len(Lines[k])
    <2> SUFFICES ASSUME NEW k \in 1 .. Len(Lines) PROVE z[k - 1] = Len(Lines[k])
      OBVIOUS
    <2>1. k - 1 \in 0 .. Len(Lines) - 1 /\ (k - 1) + 1 = k
      BY <1>1
    <2> QED BY <1>1, <2>1
  <1>4. s \in Seq(V) /\ Len(s) = n /\ \A i \in 1 .. n : s[i] = Lines[i]
    <2> HIDE DEF V, s
    <2>1. Lines \in Seq(V)
      BY <1>1 DEF V
    <2>2. \A i \in 1 .. n : i \in 1 .. Len(Lines)
      BY <1>1
    <2>3. \A i \in 1 .. n : Lines[i] \in V
      BY <2>1, <2>2
    <2>4. n \in Int
      OBVIOUS
    <2> QED BY <2>3, <2>4, SubSeqProperties DEF s
  <1> HIDE DEF s
  <1>5. \A k \in 1 .. Len(s) : z[k - 1] = Len(s[k])
    <2> SUFFICES ASSUME NEW k \in 1 .. n PROVE z[k - 1] = Len(s[k])
      BY <1>4
    <2>1. s[k] = Lines[k] /\ k \in 1 .. Len(Lines)
      BY <1>1, <1>4
    <2> QED BY <1>3, <2>1
  <1> QED BY <1>1, <1>2, <1>3, <1>4, <1>5 DEF Layout, s, V

(* The stored bytes: those of line k start where the earlier ones end. *)
LEMMA StreamValue ==
  ASSUME DriverInv, RingInv, NEW z, NEW t, RingSums(z, t)
  PROVE  /\ Stream \in Seq(Byte)
         /\ Len(Stream) = t[numEntries(buff)]
         /\ \A k \in 0 .. numEntries(buff) - 1 : \A j \in 1 .. z[k] :
              Stream[t[k] + j] = mem[buff.entry[VirtualIndex(buff, k)].buffptr][j]
         /\ \A n \in 0 .. numEntries(buff) :
              Len(FlattenSeq(SubSeq(Lines, 1, n))) = t[n]
  <1> DEFINE N == numEntries(buff)
  <1>1. N \in Nat /\ Len(Lines) = N
    BY LinesValue
  <1>2. 0 \in 0 .. Len(Lines)
    BY <1>1
  <1>3. Layout(Lines, Byte, z, t)
    BY <1>2, LinesLaidOut
  <1>4. /\ Stream \in Seq(Byte)
        /\ Len(Stream) = t[N]
        /\ \A k \in 1 .. N : \A j \in 1 .. Len(Lines[k]) :
             Stream[t[k - 1] + j] = Lines[k][j]
    BY <1>1, <1>3, FlattenValue DEF Stream
  <1>5. ASSUME NEW k \in 0 .. N - 1, NEW j \in 1 .. z[k]
        PROVE  Stream[t[k] + j] = mem[buff.entry[VirtualIndex(buff, k)].buffptr][j]
    <2>1. Len(Lines[k + 1]) = z[k]
          /\ Lines[k + 1][j] = mem[buff.entry[VirtualIndex(buff, k)].buffptr][j]
      BY LinesValue
    <2>2. k + 1 \in 1 .. N /\ (k + 1) - 1 = k
      BY <1>1
    <2>3. Stream[t[(k + 1) - 1] + j] = Lines[k + 1][j]
      BY <1>4, <2>1, <2>2
    <2> QED BY <2>1, <2>2, <2>3
  <1>6. ASSUME NEW n \in 0 .. N
        PROVE  Len(FlattenSeq(SubSeq(Lines, 1, n))) = t[n]
    <2>1. n \in 0 .. Len(Lines)
      BY <1>1
    <2>2. Layout(SubSeq(Lines, 1, n), Byte, z, t) /\ Len(SubSeq(Lines, 1, n)) = n
      BY <2>1, LinesLaidOut
    <2> PICK s : s = SubSeq(Lines, 1, n)
      OBVIOUS
    <2>3. Len(FlattenSeq(s)) = t[Len(s)]
      <3>1. Layout(s, Byte, z, t)
        BY <2>2
      <3> QED BY ONLY <3>1, FlattenValue
    <2> QED BY <2>2, <2>3
  <1> QED BY <1>4, <1>5, <1>6

(* The steps of the process that moves. *)
LEMMA MovedBy ==
  ASSUME DriverInv, [Next]_vars, NEW p \in Procs, pc'[p] # pc[p], pc'[p] = "idle"
  PROVE  Quiet(p) \/ WriteLineFails(p) \/ WriteLeftover(p)
  <1> DEFINE Moves(q) == \E to : pc' = [pc EXCEPT ![q] = to]
  <1>1. \A q \in Procs : Moves(q) => q = p
    BY DEF DriverInv, MemoryTypes
  <1>2. loaded
    <2>1. CASE aesd_init_module \/ aesd_cleanup_module
      BY <2>1 DEF aesd_init_module, aesd_cleanup_module
    <2>2. CASE \E q \in Procs : Quiet(q)
      BY <2>2, QuietSteps DEF QuietMove
    <2>3. CASE \E q \in Procs : WriteCall(q) \/ FlushAdd(q) \/ FlushFree(q)
      BY <2>3, InsideMeansLoaded DEF WriteCall, Enter, FlushAdd, FlushFree, Goto
    <2>4. CASE \E q \in Procs : WriteLine(q) \/ WriteLineFails(q) \/ WriteLeftover(q)
      BY <2>4, InsideMeansLoaded DEF WriteLine, WriteLineFails, WriteLeftover, Return, Goto
    <2>5. CASE UNCHANGED vars
      BY <2>5 DEF vars
    <2> QED BY <2>1, <2>2, <2>3, <2>4, <2>5, NextCases
  <1>3. CASE aesd_init_module \/ aesd_cleanup_module
    BY <1>3 DEF aesd_init_module, aesd_cleanup_module
  <1>4. CASE \E q \in Procs : Quiet(q)
    <2>1. PICK q \in Procs : Quiet(q)
      BY <1>4
    <2>2. Moves(q)
      BY <2>1, QuietSteps DEF QuietMove, LockMove
    <2> QED BY <1>1, <2>1, <2>2
  <1>5. CASE \E q \in Procs : WriteCall(q) \/ FlushAdd(q) \/ FlushFree(q)
    BY <1>1, <1>5 DEF WriteCall, Enter, FlushAdd, FlushFree, Goto, DriverInv, MemoryTypes
  <1>6. CASE \E q \in Procs : WriteLine(q) \/ WriteLineFails(q) \/ WriteLeftover(q)
    BY <1>1, <1>6
    DEF WriteLine, WriteLineFails, WriteLeftover, Return, Goto, DriverInv, MemoryTypes
  <1>7. CASE UNCHANGED vars
    BY <1>7 DEF vars
  <1> QED BY <1>3, <1>4, <1>5, <1>6, <1>7, NextCases

(* A call leaves its last step only through that step. *)
LEMMA LastSteps ==
  ASSUME DriverInv, [Next]_vars, NEW p \in Procs, pc'[p] = "idle"
  PROVE  /\ pc[p] = "r_copy" => ReadCopy(p)
         /\ pc[p] = "r_find" => ReadEnd(p)
         /\ pc[p] = "i_seek" => IoctlSeekTo(p) \/ IoctlInvalid(p)
  <1> SUFFICES ASSUME pc[p] \in {"r_copy", "r_find", "i_seek"}
               PROVE  /\ pc[p] = "r_copy" => ReadCopy(p)
                      /\ pc[p] = "r_find" => ReadEnd(p)
                      /\ pc[p] = "i_seek" => IoctlSeekTo(p) \/ IoctlInvalid(p)
    OBVIOUS
  <1>1. Quiet(p) \/ WriteLineFails(p) \/ WriteLeftover(p)
    BY MovedBy
  <1>2. ReadCopy(p) \/ ReadEnd(p) \/ ReadFind(p) \/ IoctlSeekTo(p) \/ IoctlInvalid(p)
    BY <1>1
    DEF Quiet, aesd_open, aesd_release, CloseFile, WriteLock, WriteTooLarge,
        WriteInterrupted, WriteDone, FlushLock, FlushInterrupted, ReadCall, ReadLock,
        SeekCall, SeekLock, SeekLoad, SeekStore, SeekReturn,
        IoctlRejected, IoctlCall, IoctlLock, WriteLineFails, WriteLeftover,
        BuffLockInterrupted, BuffLock, Return, Enter, Goto
  <1>3. ~ReadFind(p)
    BY DEF ReadFind, Goto, DriverInv, MemoryTypes
  <1> QED
    BY <1>2, <1>3 DEF ReadCopy, ReadEnd, IoctlSeekTo, IoctlInvalid, Return, Goto

(* The n elements of s behind the first a are those of u behind b. *)
Agree(s, a, u, b, n) ==
  /\ a + n <= Len(s) /\ b + n <= Len(u)
  /\ \A j \in 1 .. n : s[a + j] = u[b + j]

(* Runs of two sequences that agree element by element. *)
LEMMA SameRun ==
  ASSUME NEW S, NEW s \in Seq(S), NEW u \in Seq(S),
         NEW a \in Nat, NEW b \in Nat, NEW n \in Nat,
         Agree(s, a, u, b, n)
  PROVE  SubSeq(s, a + 1, a + n) = SubSeq(u, b + 1, b + n)
  <1> USE DEF Agree
  <1> DEFINE x == SubSeq(s, a + 1, a + n)
             y == SubSeq(u, b + 1, b + n)
  <1>1. /\ a + 1 \in Int /\ a + n \in Int /\ b + 1 \in Int /\ b + n \in Int
        /\ \A i \in a + 1 .. a + n : i \in 1 .. Len(s)
        /\ \A i \in b + 1 .. b + n : i \in 1 .. Len(u)
    OBVIOUS
  <1>2. /\ \A i \in a + 1 .. a + n : s[i] \in S
        /\ \A i \in b + 1 .. b + n : u[i] \in S
    BY <1>1
  <1>3. /\ x \in Seq(S)
        /\ Len(x) = IF a + 1 <= a + n THEN (a + n) - (a + 1) + 1 ELSE 0
        /\ \A i \in 1 .. (a + n) - (a + 1) + 1 : x[i] = s[(a + 1) + i - 1]
    BY <1>1, <1>2, SubSeqProperties
  <1>4. /\ y \in Seq(S)
        /\ Len(y) = IF b + 1 <= b + n THEN (b + n) - (b + 1) + 1 ELSE 0
        /\ \A i \in 1 .. (b + n) - (b + 1) + 1 : y[i] = u[(b + 1) + i - 1]
    BY <1>1, <1>2, SubSeqProperties
  <1> HIDE DEF x, y
  <1>5. Len(x) = n /\ Len(y) = n
    BY <1>3, <1>4
  <1>6. \A i \in 1 .. n : x[i] = y[i]
    <2> SUFFICES ASSUME NEW i \in 1 .. n PROVE x[i] = y[i]
      OBVIOUS
    <2>1. /\ i \in 1 .. (a + n) - (a + 1) + 1 /\ i \in 1 .. (b + n) - (b + 1) + 1
          /\ (a + 1) + i - 1 = a + i /\ (b + 1) + i - 1 = b + i
      OBVIOUS
    <2> QED BY <1>3, <1>4, <2>1
  <1>7. x = y
    BY <1>3, <1>4, <1>5, <1>6, SeqEqual
  <1> QED BY <1>7 DEF x, y

(* What ReadDeliversStream says of one process in one step. *)
ReadDelivers(p) ==
  /\ pc[p] = "r_copy" /\ pc'[p] = "idle" =>
       call'[p].out = SubSeq(Stream, call[p].actualPos + 1,
                             call[p].actualPos + call'[p].ret)
  /\ pc[p] = "r_find" /\ pc'[p] = "idle" =>
       ReadPosition(p) >= Len(Stream)

LEMMA CopyDelivers ==
  ASSUME DriverInv, RingInv, CallInv, NEW p \in Procs, ReadCopy(p)
  PROVE  /\ call'[p].out = SubSeq(Stream, call[p].actualPos + 1,
                                  call[p].actualPos + call'[p].ret)
         /\ call[p].actualPos \in Nat /\ call'[p].ret \in Nat /\ Len(Stream) \in Nat
         /\ call[p].actualPos + call'[p].ret <= Len(Stream)
  <1> DEFINE src == call[p].found
             m == mem[buff.entry[src.slot].buffptr]
             o == call[p].actualPos
  <1>1. PICK z, t : RingSums(z, t)
    BY RingSumsExist
  <1>2. PICK n \in 0 .. SizeToRead(p) :
          call' = [call EXCEPT
                     ![p] = [NoCall EXCEPT
                               !.out = SubSeq(m, src.offset + 1, src.offset + n),
                               !.ret = n]]
    BY DEF ReadCopy
  <1>3. /\ call'[p].out = SubSeq(m, src.offset + 1, src.offset + n)
        /\ call'[p].ret = n
    BY <1>2 DEF CallInv, NoCall
  <1>4. PICK k \in 0 .. numEntries(buff) - 1 :
          /\ src.slot = VirtualIndex(buff, k)
          /\ src.offset = o - t[k]
          /\ src.offset \in 0 .. z[k] - 1
          /\ SizeToRead(p) \in Nat
          /\ src.offset + SizeToRead(p) <= z[k]
    <2>1. pc[p] = "r_copy"
      BY DEF ReadCopy, Goto
    <2> QED BY <1>1, <2>1, CopyWithin DEF RingSums
  <1>5. /\ numEntries(buff) \in Nat /\ m \in Seq(Byte) /\ z[k] \in 1 .. Len(m)
    BY <1>1, <1>4, LinesValue
  <1>6. /\ Stream \in Seq(Byte) /\ Len(Stream) = t[numEntries(buff)]
        /\ \A j \in 1 .. z[k] : Stream[t[k] + j] = m[j]
    BY <1>1, <1>4, StreamValue
  <1>7. /\ k \in Nat /\ t[k] \in Nat /\ z[k] \in Nat
        /\ t[k] + z[k] <= t[numEntries(buff)] /\ t[numEntries(buff)] \in Nat
    <2>1. k \in Nat /\ k + 1 \in Nat /\ k + 1 <= numEntries(buff)
      BY <1>5
    <2>2. z \in [Nat -> Nat] /\ Totals(t, z)
      BY <1>1, RingTotals DEF RingSums
    <2>3. t[k + 1] <= t[numEntries(buff)]
      BY <1>5, <2>1, <2>2, TotalsGrow
    <2>4. t[k + 1] = t[k] + z[k] /\ t[k] \in Nat /\ z[k] \in Nat /\ t[numEntries(buff)] \in Nat
      BY <1>5, <2>1, <2>2 DEF Totals
    <2> QED BY <2>1, <2>3, <2>4
  <1>8. /\ o \in Nat /\ src.offset \in Nat /\ Len(m) \in Nat /\ SizeToRead(p) \in Nat
    <2>1. m \in Seq(Byte)
      BY <1>5
    <2>2. o \in Nat
      BY FrameOf, DriverAssumption DEF Frame
    <2>3. src.offset \in Nat
      BY <1>4, <1>7
    <2> HIDE DEF m, o, src
    <2> QED BY <1>4, <2>1, <2>2, <2>3
  <1> HIDE DEF src, m, o
  <1>9. PICK a \in Nat, b \in Nat, l \in Nat, w \in Nat, zk \in Nat, tk \in Nat, size \in Nat :
          /\ a = src.offset /\ b = o /\ l = Len(m) /\ w = Len(Stream)
          /\ zk = z[k] /\ tk = t[k] /\ size = SizeToRead(p)
    BY <1>6, <1>7, <1>8
  <1>12. /\ n \in Nat /\ n <= size /\ b = tk + a /\ a + size <= zk /\ zk <= l /\ tk + zk <= w
    <2>1. n \in 0 .. size
      BY <1>9
    <2>2. a = b - tk
      BY <1>4, <1>9
    <2>3. a + size <= zk
      BY <1>4, <1>9
    <2>4. zk <= l
      BY <1>5, <1>9
    <2>5. tk + zk <= w
      BY <1>6, <1>7, <1>9
    <2> QED BY <2>1, <2>2, <2>3, <2>4, <2>5
  <1>13. a + n <= l /\ b + n <= w
    BY <1>12
  <1>10. \A j \in 1 .. n : m[a + j] = Stream[b + j]
    <2> SUFFICES ASSUME NEW j \in 1 .. n PROVE m[a + j] = Stream[b + j]
      OBVIOUS
    <2>1. a + j \in 1 .. zk /\ tk + (a + j) = b + j
      BY <1>12
    <2>2. Stream[tk + (a + j)] = m[a + j]
      BY <1>6, <1>9, <2>1
    <2> QED BY <2>1, <2>2
  <1>14. m \in Seq(Byte) /\ Stream \in Seq(Byte) /\ a + n <= Len(m) /\ b + n <= Len(Stream)
    BY <1>5, <1>6, <1>9, <1>13
  <1>11. SubSeq(m, a + 1, a + n) = SubSeq(Stream, b + 1, b + n)
    <2>1. Agree(m, a, Stream, b, n)
      BY <1>10, <1>14, Zenon DEF Agree
    <2> QED BY <1>12, <1>14, <2>1, SameRun
  <1> QED BY <1>3, <1>9, <1>11, <1>12, <1>13 DEF o

LEMMA EndIsEnd ==
  ASSUME DriverInv, RingInv, CallInv, NEW p \in Procs, ReadEnd(p)
  PROVE  ReadPosition(p) >= Len(Stream)
  <1>1. PICK z, t : RingSums(z, t)
    BY RingSumsExist
  <1>2. f_pos[p] + lseekPos \in Int
    BY FrameOf
  <1>3. ReadPosition(p) \in 0 .. WordMod - 1
    BY <1>2, LoffIsInt DEF ReadPosition
  <1>4. PICK o \in Nat : o = ReadPosition(p)
    BY <1>3, DriverAssumption
  <1>5. Lookup(o) = NULL
    BY <1>4 DEF ReadEnd
  <1>6. o >= t[numEntries(buff)]
    BY <1>1, <1>5, FoundEntry DEF RingSums
  <1> QED BY <1>1, <1>4, <1>6, StreamValue

(* What aesd_read delivers is a run of the stored bytes from its position  *)
(* on, and it reports the end only there, although it takes one entry at a *)
(* time and writers replace entries between its calls.                     *)
THEOREM ReadsCorrect == Spec => ReadDeliversStream
  <1>1. DriverInv /\ RingInv /\ CallInv /\ [Next]_vars => [\A p \in Procs : ReadDelivers(p)]_vars
    BY LastSteps, CopyDelivers, EndIsEnd DEF ReadDelivers
  <1> QED
    BY <1>1, DriverCorrect, RingCorrect, CallCorrect, PTL
    DEF Spec, ReadDeliversStream, ReadDelivers

(* What SeekToFindsByte says of one process in one step. *)
SeekToFinds(p) ==
  pc[p] = "i_seek" /\ pc'[p] = "idle" =>
    LET a == call[p].arg IN
    IF call'[p].ret = 0
    THEN a.write_cmd < Len(Lines) =>
           lseekPos' = Len(FlattenSeq(SubSeq(Lines, 1, a.write_cmd)))
                         + a.write_cmd_offset
    ELSE /\ lseekPos' = lseekPos
         /\ a.write_cmd < Len(Lines) =>
              a.write_cmd_offset >= Len(Lines[a.write_cmd + 1])

LEMMA SeekToLands ==
  ASSUME DriverInv, RingInv, CallInv, [Next]_vars, NEW p \in Procs
  PROVE  SeekToFinds(p)
  <1> SUFFICES ASSUME pc[p] = "i_seek", pc'[p] = "idle" PROVE SeekToFinds(p)
    BY DEF SeekToFinds
  <1> DEFINE a == call[p].arg
             cmd == a.write_cmd
             N == numEntries(buff)
  <1>1. PICK z, t : RingSums(z, t)
    BY RingSumsExist
  <1>2. a \in IoctlArgs
    BY FrameOf DEF FrameFor
  <1>3. cmd \in Nat /\ a.write_cmd_offset \in Nat
    BY <1>2, DriverAssumption
  <1>4. /\ N \in Nat /\ Len(Lines) = N
        /\ \A k \in 0 .. N - 1 : Len(Lines[k + 1]) = z[k]
    BY <1>1, LinesValue
  <1>5. \A n \in 0 .. N : Len(FlattenSeq(SubSeq(Lines, 1, n))) = t[n]
    BY <1>1, StreamValue
  <1>6. ASSUME cmd < N
        PROVE  /\ cmd \in 0 .. N - 1
               /\ SeekBase(a) = t[cmd]
               /\ t[cmd] \in Nat /\ z[cmd] \in Nat
               /\ get_entry_at_virtual_offset(buff, cmd).size = z[cmd]
    <2>1. z \in [Nat -> Nat] /\ Totals(t, z)
      BY <1>1, RingTotals DEF RingSums
    <2>2. SeekBase(a) = SizeOfFirst(buff, cmd)
      BY <1>3, <1>4, <1>6 DEF SeekBase, aesd_circular_buffer_find_fpos_for_virtual_entry_offset
    <2>3. t[cmd] \in Nat /\ z[cmd] \in Nat
      BY <1>3, <2>1 DEF Totals
    <2>4. SizeOfFirst(buff, cmd) = t[cmd]
          /\ get_entry_at_virtual_offset(buff, cmd).size = z[cmd]
      BY <1>1, <1>3 DEF RingSums
    <2> QED BY <1>3, <1>4, <1>6, <2>2, <2>3, <2>4
  <1>7. CASE IoctlSeekTo(p)
    <2>1. call'[p].ret = 0 /\ lseekPos' = SeekBase(a) + a.write_cmd_offset
      BY <1>7 DEF IoctlSeekTo, Return, CallInv, NoCall
    <2>2. ASSUME cmd < N
          PROVE  lseekPos' = Len(FlattenSeq(SubSeq(Lines, 1, cmd))) + a.write_cmd_offset
      <3>1. cmd \in 0 .. N /\ SeekBase(a) = t[cmd]
        BY <1>4, <1>6, <2>2
      <3> QED BY <1>5, <2>1, <3>1
    <2> QED BY <1>4, <2>1, <2>2 DEF SeekToFinds
  <1>8. CASE IoctlInvalid(p)
    <2>1. /\ call'[p].ret = -EINVAL /\ lseekPos' = lseekPos /\ SeekToRefused(a)
      BY <1>8 DEF IoctlInvalid, Return, CallInv, NoCall, devVars
    <2>2. call'[p].ret # 0
      BY <2>1 DEF EINVAL
    <2>3. ASSUME cmd < N PROVE a.write_cmd_offset >= Len(Lines[cmd + 1])
      <3>1. z[cmd] < a.write_cmd_offset
        BY <1>6, <2>1, <2>3 DEF SeekToRefused, aesd_circular_buffer_find_entry_at_position
      <3>2. Len(Lines[cmd + 1]) = z[cmd]
        BY <1>4, <1>6, <2>3
      <3> QED BY <1>3, <1>6, <2>3, <3>1, <3>2
    <2> QED BY <1>4, <2>1, <2>2, <2>3 DEF SeekToFinds
  <1> QED BY <1>7, <1>8, LastSteps

(* AESDCHAR_IOCSEEKTO finds the byte it is asked for whenever that byte is *)
(* stored; a call that is refused has named no stored byte and leaves the  *)
(* position alone.                                                         *)
THEOREM SeekToCorrect == Spec => SeekToFindsByte
  <1>1. DriverInv /\ RingInv /\ CallInv /\ [Next]_vars => [\A p \in Procs : SeekToFinds(p)]_vars
    BY SeekToLands
  <1> QED
    BY <1>1, DriverCorrect, RingCorrect, CallCorrect, PTL
    DEF Spec, SeekToFindsByte, SeekToFinds

(* A write past its check returns an error only if kmalloc has failed.     *)
FailsForMemory(p) ==
  pc[p] = "w_scan" /\ pc'[p] = "idle" /\ call'[p].ret # call[p].count =>
    /\ call'[p].ret = -ENOMEM
    /\ entry.buffPtr = NULL /\ entry'.buffPtr = NULL

OnlyMemoryFails == [][\A p \in Procs : FailsForMemory(p)]_vars

LEMMA WriteOutcome ==
  ASSUME DriverInv, CallInv, [Next]_vars, NEW p \in Procs
  PROVE  FailsForMemory(p)
  <1> SUFFICES ASSUME pc[p] = "w_scan", pc'[p] = "idle", call'[p].ret # call[p].count
               PROVE  call'[p].ret = -ENOMEM /\ entry.buffPtr = NULL /\ entry'.buffPtr = NULL
    BY DEF FailsForMemory
  <1>0. pc \in [Procs -> PCs] /\ call \in [Procs -> Frame]
    BY DEF DriverInv, MemoryTypes, CallInv
  <1>1. Quiet(p) \/ WriteLineFails(p) \/ WriteLeftover(p)
    BY MovedBy
  <1>2. WriteDone(p) \/ WriteLineFails(p) \/ WriteLeftover(p)
    BY <1>1
    DEF Quiet, aesd_open, aesd_release, CloseFile, WriteLock, WriteTooLarge,
        WriteInterrupted, FlushLock, FlushInterrupted, ReadCall, ReadLock, ReadFind,
        ReadEnd, ReadCopy, SeekCall, SeekLock, SeekLoad, SeekStore, SeekReturn,
        IoctlRejected, IoctlCall, IoctlLock, IoctlSeekTo, IoctlInvalid,
        BuffLockInterrupted, BuffLock, Return, Enter, Goto
  <1>3. ~WriteDone(p) /\ ~WriteLeftover(p)
    BY <1>0 DEF WriteDone, WriteLeftover, Return, NoCall
  <1>4. WriteLineFails(p)
    BY <1>2, <1>3
  <1>5. call'[p].ret = -ENOMEM
    BY <1>0, <1>4 DEF WriteLineFails, Return, NoCall
  <1>6. PICK k \in DOMAIN call[p].rest, b \in StagePtrs :
          ~StoreFits(b, k) /\ entry'.buffPtr = b
    <2>1. PICK k \in DOMAIN call[p].rest, b \in StagePtrs :
            ~StoreFits(b, k) /\ StorePartial(b, SubSeq(call[p].rest, 1, k))
      BY <1>4 DEF WriteLineFails
    <2>2. entry'.buffPtr = b
      BY <2>1 DEF StorePartial, DriverInv, MemoryTypes
    <2> QED BY <2>1, <2>2
  <1>7. entry.endIdx + k <= entry.size
    <2>1. entry.endIdx + Len(call[p].rest) <= entry.size
      BY DEF DriverInv, RequestStaysPossible, HoldsEntryMutex
    <2>2. call[p].rest \in Seq(Byte)
      BY DEF DriverInv, FrameInv
    <2>3. /\ k \in Nat /\ Len(call[p].rest) \in Nat /\ k <= Len(call[p].rest)
          /\ entry.endIdx \in Nat
      BY <2>2 DEF DriverInv, MemoryTypes
    <2>4. entry.size \in Nat
      BY DriverAssumption DEF DriverInv, MemoryTypes
    <2> QED BY ONLY <2>1, <2>3, <2>4
  <1>8. b = NULL
    BY <1>6, <1>7 DEF StoreFits
  <1>9. entry.buffPtr = NULL
    BY <1>8 DEF StagePtrs
  <1> QED BY <1>5, <1>6, <1>8, <1>9

(* aesd_write checks once, before it has stored anything, that all of its  *)
(* input has room; whatever is flushed and read meanwhile, a write that    *)
(* has passed this check reports every byte as written, or -ENOMEM because *)
(* kmalloc had no staging buffer for it.                                   *)
THEOREM StartedWritesSucceed == Spec => OnlyMemoryFails
  <1>1. DriverInv /\ CallInv /\ [Next]_vars => [\A p \in Procs : FailsForMemory(p)]_vars
    BY WriteOutcome
  <1> QED
    BY <1>1, DriverCorrect, CallCorrect, PTL DEF Spec, OnlyMemoryFails
=============================================================================
