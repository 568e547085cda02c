------------------------------- MODULE Threading -------------------------------
(***************************************************************************)
(* examples/threading/threading.c: threads that wait, take a mutex of the  *)
(* caller's, wait, and give it back.  Time passes in units; a thread is    *)
(* named like the call of start_thread_obtaining_mutex that starts it.     *)
(***************************************************************************)
EXTENDS Integers

CONSTANTS
  Threads,
  NoThread,  \* the holder of a free mutex
  Waits      \* what the caller asks for, in units of time; may be negative

ASSUME ThreadAssumption == NoThread \notin Threads /\ Waits \subseteq Int

VARIABLES
  at,       \* where each thread stands
  data,     \* its thread_data: the two waits
  success,  \* thread_complete_success
  left,     \* ts: what is left of its sleep
  asleep,   \* in nanosleep; otherwise a signal has ended that with EINTR
  slept,    \* for how long it has slept before and after locking
  holder,   \* who has the mutex
  crashed   \* the process has followed a null pointer

threadVars == <<at, data, success, left, asleep, slept, holder, crashed>>

ThreadInit ==
  /\ at = [t \in Threads |-> "none"]
  /\ data = [t \in Threads |-> [obtain |-> 0, release |-> 0]]
  /\ success = [t \in Threads |-> FALSE]
  /\ left = [t \in Threads |-> 0]
  /\ asleep = [t \in Threads |-> FALSE]
  /\ slept = [t \in Threads |-> [obtain |-> 0, release |-> 0]]
  /\ holder = NoThread
  /\ crashed = FALSE

Move(t, from, to) ==
  /\ ~crashed
  /\ at[t] = from
  /\ at' = [at EXCEPT ![t] = to]

(* nanosleep refuses a negative time, and nobody looks at the result. *)
Duration(w) == IF w < 0 THEN 0 ELSE w

(* millisleep begins. *)
FallAsleep(t, w) ==
  /\ left' = [left EXCEPT ![t] = Duration(w)]
  /\ asleep' = [asleep EXCEPT ![t] = TRUE]

(* start_thread_obtaining_mutex returns true. *)
StartThread(t) ==
  /\ Move(t, "none", "obtain")
  /\ \E o, r \in Waits :
       /\ data' = [data EXCEPT ![t] = [obtain |-> o, release |-> r]]
       /\ FallAsleep(t, o)
  /\ UNCHANGED <<success, slept, holder, crashed>>

(* pthread_create fails: false is returned and the thread_data is lost. *)
StartThreadFails(t) ==
  /\ Move(t, "none", "failed")
  /\ UNCHANGED <<data, success, left, asleep, slept, holder, crashed>>

(* The result of malloc is used without a look. *)
MallocFails(t) ==
  /\ Move(t, "none", "none")
  /\ crashed' = TRUE
  /\ UNCHANGED <<data, success, left, asleep, slept, holder>>

Elapse(t) ==
  /\ ~crashed
  /\ asleep[t] /\ left[t] > 0
  /\ left' = [left EXCEPT ![t] = @ - 1]
  /\ slept' = [slept EXCEPT ![t][at[t]] = @ + 1]
  /\ UNCHANGED <<at, data, success, asleep, holder, crashed>>

(* nanosleep fails with EINTR and has put what is left of the time in ts. *)
Interrupt(t) ==
  /\ ~crashed
  /\ asleep[t] /\ left[t] > 0
  /\ asleep' = [asleep EXCEPT ![t] = FALSE]
  /\ UNCHANGED <<at, data, success, left, slept, holder, crashed>>

(* Mutant: the sleep ends with the first signal. *)
GiveUp(t) == asleep' = [asleep EXCEPT ![t] = TRUE] /\ left' = [left EXCEPT ![t] = 0]

(* The loop goes on with what ts says. *)
SleepOn(t) == asleep' = [asleep EXCEPT ![t] = TRUE] /\ UNCHANGED left

Retry(t) ==
  /\ ~crashed
  /\ at[t] \in {"obtain", "release"} /\ ~asleep[t]
  /\ SleepOn(t)
  /\ UNCHANGED <<at, data, success, slept, holder, crashed>>

SleptOut(t) == asleep[t] /\ left[t] = 0 /\ asleep' = [asleep EXCEPT ![t] = FALSE]

WaitedToObtain(t) ==
  /\ Move(t, "obtain", "lock")
  /\ SleptOut(t)
  /\ UNCHANGED <<data, success, left, slept, holder, crashed>>

(* Mutant: the mutex is not taken. *)
TakeNothing(t) == UNCHANGED holder

TakeMutex(t) == holder = NoThread /\ holder' = t

LockMutex(t) ==
  /\ Move(t, "lock", "release")
  /\ TakeMutex(t)
  /\ FallAsleep(t, data[t].release)
  /\ UNCHANGED <<data, success, slept, crashed>>

(* Mutant: the mutex is kept. *)
KeepMutex == UNCHANGED holder

GiveMutex == holder' = NoThread

UnlockMutex(t) ==
  /\ Move(t, "release", "unlocked")
  /\ SleptOut(t)
  /\ GiveMutex
  /\ UNCHANGED <<data, success, left, slept, crashed>>

(* Success is reported whatever millisleep has returned. *)
Complete(t) ==
  /\ Move(t, "unlocked", "returned")
  /\ success' = [success EXCEPT ![t] = TRUE]
  /\ UNCHANGED <<data, left, asleep, slept, holder, crashed>>

ThreadStep(t) ==
  \/ Retry(t) \/ WaitedToObtain(t) \/ LockMutex(t) \/ UnlockMutex(t) \/ Complete(t)

ThreadNext ==
  \E t \in Threads :
    \/ StartThread(t) \/ StartThreadFails(t) \/ MallocFails(t)
    \/ Elapse(t) \/ Interrupt(t) \/ ThreadStep(t)

(* Threads keep running, and time passes for a sleeper however often a     *)
(* signal wakes it.  Each thread takes the mutex once, so it is in the end *)
(* free for whoever waits.                                                 *)
ThreadFairness ==
  \A t \in Threads : WF_threadVars(ThreadStep(t)) /\ SF_threadVars(Elapse(t))

-----------------------------------------------------------------------------
(* Every variable has its type, and the mutex is held by the thread that   *)
(* is between taking it and giving it back, by no other.                   *)
ThreadTypeOK ==
  /\ at \in [Threads -> {"none", "failed", "obtain", "lock", "release", "unlocked", "returned"}]
  /\ left \in [Threads -> Nat]
  /\ asleep \in [Threads -> BOOLEAN] /\ success \in [Threads -> BOOLEAN]
  /\ \A t \in Threads : holder = t <=> at[t] = "release"

(* A thread does not take the mutex before it has waited for the whole     *)
(* time it was given, nor give it back before it has held it for the whole *)
(* time, however many signals interrupt its sleep.                         *)
WaitsInFull ==
  \A t \in Threads :
    /\ at[t] \in {"lock", "release", "unlocked", "returned"} =>
         slept[t].obtain = Duration(data[t].obtain)
    /\ at[t] \in {"unlocked", "returned"} =>
         slept[t].release = Duration(data[t].release)

(* Every thread that was started returns, whatever the others wait for and *)
(* however often signals interrupt it, unless the process has crashed.     *)
(* What it says of itself then is not part of this: the flag is set even   *)
(* if nanosleep has refused to wait.                                       *)
ThreadsFinish ==
  <>[](\A t \in Threads : crashed \/ at[t] \in {"none", "failed", "returned"})
=============================================================================
