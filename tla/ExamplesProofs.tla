---------------------------- MODULE ExamplesProofs ----------------------------
(***************************************************************************)
(* The two examples, for any number of threads and any waits.              *)
(***************************************************************************)
EXTENDS MCExamples, TLAPS

-----------------------------------------------------------------------------
(* threading.c *)

Places == {"none", "failed", "obtain", "lock", "release", "unlocked", "returned"}

ThreadTypes ==
  /\ at \in [Threads -> Places]
  /\ data \in [Threads -> [obtain : Int, release : Int]]
  /\ success \in [Threads -> BOOLEAN]
  /\ left \in [Threads -> Nat]
  /\ asleep \in [Threads -> BOOLEAN]
  /\ slept \in [Threads -> [obtain : Nat, release : Nat]]

(* What a thread has slept and what is left of its sleep add up to what it *)
(* was asked for.                                                          *)
SleepAddsUp(t) ==
  LET obtain  == Duration(data[t].obtain)
      release == Duration(data[t].release)
  IN
  /\ asleep[t] => at[t] \in {"obtain", "release"}
  /\ at[t] = "none" => slept[t].obtain = 0
  /\ at[t] \in {"none", "failed", "obtain", "lock"} => slept[t].release = 0
  /\ at[t] = "obtain" => slept[t].obtain + left[t] = obtain
  /\ at[t] \in {"lock", "release", "unlocked", "returned"} => slept[t].obtain = obtain
  /\ at[t] = "release" => slept[t].release + left[t] = release
  /\ at[t] \in {"unlocked", "returned"} => slept[t].release = release

OneHolder == \A t \in Threads : holder = t <=> at[t] = "release"

ThreadInv == ThreadTypes /\ OneHolder /\ \A t \in Threads : SleepAddsUp(t)

LEMMA DurationType == \A w \in Int : Duration(w) \in Nat
  BY DEF Duration

LEMMA ThreadInitInv == ThreadInit => ThreadInv
<1> SUFFICES ASSUME ThreadInit PROVE ThreadInv
  OBVIOUS
<1>1. ThreadTypes
  BY DEF ThreadInit, ThreadTypes, Places
<1>2. OneHolder
  BY ThreadAssumption DEF ThreadInit, OneHolder
<1>3. ASSUME NEW t \in Threads PROVE SleepAddsUp(t)
  BY <1>3 DEF ThreadInit, SleepAddsUp
<1> QED BY <1>1, <1>2, <1>3 DEF ThreadInv

(* Nothing of the other threads changes in a step of thread t.             *)
OthersKept(t) ==
  \A u \in Threads \ {t} :
    /\ at'[u] = at[u] /\ data'[u] = data[u] /\ left'[u] = left[u]
    /\ asleep'[u] = asleep[u] /\ slept'[u] = slept[u]

LEMMA OneThreadMoves ==
  ASSUME ThreadInv, NEW t \in Threads, OthersKept(t), ThreadTypes',
         SleepAddsUp(t)', OneHolder'
  PROVE  ThreadInv'
<1>1. ASSUME NEW u \in Threads \ {t} PROVE SleepAddsUp(u)'
  BY <1>1 DEF ThreadInv, OthersKept, SleepAddsUp
<1> QED BY <1>1 DEF ThreadInv

LEMMA ThreadStepInv ==
  ASSUME ThreadInv, NEW t \in Threads,
         \/ StartThread(t) \/ StartThreadFails(t) \/ MallocFails(t)
         \/ Elapse(t) \/ Interrupt(t) \/ ThreadStep(t)
  PROVE  ThreadInv'
<1> USE ThreadAssumption, OneThreadMoves DEF ThreadInv
<1>1. CASE StartThread(t)
  <2> USE DEF StartThread, Move, FallAsleep
  <2>1. PICK o \in Waits, r \in Waits :
          /\ data' = [data EXCEPT ![t] = [obtain |-> o, release |-> r]]
          /\ left' = [left EXCEPT ![t] = Duration(o)]
          /\ asleep' = [asleep EXCEPT ![t] = TRUE]
    BY <1>1
  <2>2. ThreadTypes'
    BY <1>1, <2>1, DurationType DEF ThreadTypes, Places
  <2>3. OneHolder'
    BY <1>1 DEF ThreadTypes, OneHolder
  <2>4. SleepAddsUp(t)'
    BY <1>1, <2>1, DurationType DEF ThreadTypes, SleepAddsUp
  <2>5. OthersKept(t)
    BY <1>1, <2>1 DEF ThreadTypes, OthersKept
  <2> QED BY <2>2, <2>3, <2>4, <2>5
<1>2. CASE StartThreadFails(t) \/ MallocFails(t)
  <2> USE DEF StartThreadFails, MallocFails, Move
  <2>2. ThreadTypes'
    BY <1>2 DEF ThreadTypes, Places
  <2>3. OneHolder'
    BY <1>2 DEF ThreadTypes, OneHolder
  <2>4. SleepAddsUp(t)'
    BY <1>2 DEF ThreadTypes, SleepAddsUp
  <2>5. OthersKept(t)
    BY <1>2 DEF ThreadTypes, OthersKept
  <2> QED BY <2>2, <2>3, <2>4, <2>5
<1>3. CASE Elapse(t)
  <2> USE DEF Elapse
  <2>1. at[t] \in {"obtain", "release"} /\ left[t] - 1 \in Nat
    BY <1>3 DEF ThreadTypes, SleepAddsUp
  <2>2. ThreadTypes'
    BY <1>3, <2>1 DEF ThreadTypes
  <2>3. OneHolder'
    BY <1>3 DEF OneHolder
  <2>4. /\ left'[t] = left[t] - 1
        /\ slept'[t].obtain = IF at[t] = "obtain" THEN slept[t].obtain + 1
                                                  ELSE slept[t].obtain
        /\ slept'[t].release = IF at[t] = "release" THEN slept[t].release + 1
                                                    ELSE slept[t].release
    BY <1>3, <2>1 DEF ThreadTypes
  <2>5. SleepAddsUp(t)'
    <3>1. CASE at[t] = "obtain"
      BY <1>3, <2>4, <3>1, DurationType DEF ThreadTypes, SleepAddsUp
    <3>2. CASE at[t] = "release"
      BY <1>3, <2>4, <3>2, DurationType DEF ThreadTypes, SleepAddsUp
    <3> QED BY <2>1, <3>1, <3>2
  <2>6. OthersKept(t)
    BY <1>3 DEF ThreadTypes, OthersKept
  <2> QED BY <2>2, <2>3, <2>5, <2>6
<1>4. CASE Interrupt(t) \/ Retry(t)
  <2> USE DEF Interrupt, Retry, SleepOn
  <2>2. ThreadTypes'
    BY <1>4 DEF ThreadTypes
  <2>3. OneHolder'
    BY <1>4 DEF OneHolder
  <2>4. SleepAddsUp(t)'
    BY <1>4 DEF ThreadTypes, SleepAddsUp
  <2>5. OthersKept(t)
    BY <1>4 DEF ThreadTypes, OthersKept
  <2> QED BY <2>2, <2>3, <2>4, <2>5
<1>5. CASE WaitedToObtain(t)
  <2> USE DEF WaitedToObtain, Move, SleptOut
  <2>2. ThreadTypes'
    BY <1>5 DEF ThreadTypes, Places
  <2>3. OneHolder'
    BY <1>5 DEF ThreadTypes, OneHolder
  <2>4. SleepAddsUp(t)'
    BY <1>5, DurationType DEF ThreadTypes, SleepAddsUp
  <2>5. OthersKept(t)
    BY <1>5 DEF ThreadTypes, OthersKept
  <2> QED BY <2>2, <2>3, <2>4, <2>5
<1>6. CASE LockMutex(t)
  <2> USE DEF LockMutex, Move, TakeMutex, FallAsleep
  <2>2. ThreadTypes'
    BY <1>6, DurationType DEF ThreadTypes, Places
  <2>3. OneHolder'
    BY <1>6 DEF ThreadTypes, OneHolder
  <2>4. SleepAddsUp(t)'
    BY <1>6, DurationType DEF ThreadTypes, SleepAddsUp
  <2>5. OthersKept(t)
    BY <1>6 DEF ThreadTypes, OthersKept
  <2> QED BY <2>2, <2>3, <2>4, <2>5
<1>7. CASE UnlockMutex(t)
  <2> USE DEF UnlockMutex, Move, GiveMutex, SleptOut
  <2>2. ThreadTypes'
    BY <1>7 DEF ThreadTypes, Places
  <2>3. OneHolder'
    BY <1>7 DEF ThreadTypes, OneHolder
  <2>4. SleepAddsUp(t)'
    BY <1>7, DurationType DEF ThreadTypes, SleepAddsUp
  <2>5. OthersKept(t)
    BY <1>7 DEF ThreadTypes, OthersKept
  <2> QED BY <2>2, <2>3, <2>4, <2>5
<1>8. CASE Complete(t)
  <2> USE DEF Complete, Move
  <2>2. ThreadTypes'
    BY <1>8 DEF ThreadTypes, Places
  <2>3. OneHolder'
    BY <1>8 DEF ThreadTypes, OneHolder
  <2>4. SleepAddsUp(t)'
    BY <1>8 DEF ThreadTypes, SleepAddsUp
  <2>5. OthersKept(t)
    BY <1>8 DEF ThreadTypes, OthersKept
  <2> QED BY <2>2, <2>3, <2>4, <2>5
<1> QED
  BY <1>1, <1>2, <1>3, <1>4, <1>5, <1>6, <1>7, <1>8 DEF ThreadStep

LEMMA ThreadStutter ==
  ASSUME ThreadInv, UNCHANGED threadVars
  PROVE  ThreadInv'
<1>1. ThreadTypes' /\ OneHolder'
  BY DEF threadVars, ThreadInv, ThreadTypes, OneHolder
<1>2. ASSUME NEW t \in Threads PROVE SleepAddsUp(t)'
  BY <1>2 DEF threadVars, ThreadInv, SleepAddsUp
<1> QED BY <1>1, <1>2 DEF ThreadInv

-----------------------------------------------------------------------------
(* systemcalls.c *)

(* What is known of the child at each moment: which of its ends can have   *)
(* status 0, and that waitpid's result is from it or from nobody.          *)
CallInv ==
  /\ DOMAIN returned = {"caller", "child"}
  /\ caller \in {"start", "fork"} => child = "none"
  /\ caller = "wait" => child \notin {"none", "reaped"}
  /\ caller # "done" => returned.caller = NoValue /\ childStatus = -1
  /\ "caller" \in fileOpen => child = "none"
  /\ child = "command" => ran
  /\ child = "second" => dup2Failed
  /\ child \in {"ended", "reaped"} /\ exitStatus = 0 /\ ~dup2Failed => ran
  /\ child \notin {"none", "reaped"} => childStatus = -1 /\ returned.caller # TRUE
  /\ returned.child # NoValue => dup2Failed
  /\ TrueMeansRan

LEMMA NoValueIsNone == NoValue # TRUE /\ NoValue # FALSE
  BY CallAssumption

LEMMA CallInitInv == CallInit => CallInv
<1> SUFFICES ASSUME CallInit PROVE CallInv
  OBVIOUS
<1>1. /\ DOMAIN returned = {"caller", "child"}
      /\ returned.caller = NoValue /\ returned.child = NoValue
  BY DEF CallInit
<1>2. caller = "start" /\ child = "none" /\ fileOpen = {} /\ childStatus = -1
  BY DEF CallInit
<1>3. TrueMeansRan
  BY <1>1, NoValueIsNone DEF TrueMeansRan
<1> QED BY <1>1, <1>2, <1>3 DEF CallInv

LEMMA CallNextInv ==
  ASSUME CallInv, CallNext
  PROVE  CallInv'
<1> USE NoValueIsNone DEF CallInv, TrueMeansRan, CallerGoto, ChildGoto, Return, Succeeded
<1>1. CASE System
  BY <1>1 DEF System
<1>2. CASE OpenOutput \/ OpenFails
  BY <1>2 DEF OpenOutput, OpenFails
<1>3. CASE Fork
  BY <1>3 DEF Fork
<1>4. CASE ForkFails
  BY <1>4 DEF ForkFails
<1>5. CASE Redirect
  BY <1>5 DEF Redirect
<1>6. CASE Dup2Fails
  BY <1>6 DEF Dup2Fails
<1>7. CASE Exec
  BY <1>7 DEF Exec
<1>11. CASE ExecFails
  <2>1. exitStatus' # 0
    BY <1>11 DEF ExecFails
  <2>2. returned'.caller # TRUE
    BY <1>11 DEF ExecFails
  <2>3. /\ child = "exec" /\ child' = "ended"
        /\ UNCHANGED <<caller, returned, childStatus, fileOpen, dup2Failed>>
    BY <1>11 DEF ExecFails
  <2> QED BY <2>1, <2>2, <2>3
<1>8. CASE ChildEnds
  BY <1>8 DEF ChildEnds
<1>9. CASE Wait
  BY <1>9 DEF Wait
<1>10. CASE WaitFails
  <2>1. childStatus = -1
    BY <1>10 DEF WaitFails
  <2>2. Succeeded(childStatus) = FALSE
    BY <2>1
  <2>3. /\ returned'.caller # TRUE /\ returned'.child = returned.child
        /\ DOMAIN returned' = {"caller", "child"}
    BY <1>10, <2>2 DEF WaitFails
  <2> QED BY <1>10, <2>3 DEF WaitFails
<1> QED
  BY <1>1, <1>2, <1>3, <1>4, <1>5, <1>6, <1>7, <1>8, <1>9, <1>10,
     <1>11 DEF CallNext

LEMMA CallStutter ==
  ASSUME CallInv, UNCHANGED callVars
  PROVE  CallInv'
BY DEF callVars, CallInv, TrueMeansRan

-----------------------------------------------------------------------------
LEMMA InitInv == Init => ThreadInv /\ CallInv
  BY ThreadInitInv, CallInitInv DEF Init

LEMMA NextInv ==
  ThreadInv /\ CallInv /\ [Next]_<<threadVars, callVars>> => (ThreadInv /\ CallInv)'
<1> SUFFICES ASSUME ThreadInv, CallInv, [Next]_<<threadVars, callVars>>
             PROVE  ThreadInv' /\ CallInv'
  OBVIOUS
<1>1. CASE ThreadNext /\ UNCHANGED callVars
  <2>1. ThreadInv'
    BY <1>1, ThreadStepInv DEF ThreadNext
  <2> QED BY <1>1, <2>1, CallStutter
<1>2. CASE CallNext /\ UNCHANGED threadVars
  BY <1>2, CallNextInv, ThreadStutter
<1>3. CASE UNCHANGED <<threadVars, callVars>>
  BY <1>3, CallStutter, ThreadStutter
<1> QED BY <1>1, <1>2, <1>3 DEF Next

(* A thread sleeps for the whole of both its waits, however often a signal *)
(* interrupts it, and holds the mutex alone for the whole of the second.   *)
THEOREM WaitsCorrect == Spec => [](WaitsInFull /\ ThreadTypeOK)
<1>1. ThreadInv => WaitsInFull
  BY DEF ThreadInv, SleepAddsUp, WaitsInFull
<1>2. ThreadInv => ThreadTypeOK
  BY DEF ThreadInv, ThreadTypes, Places, OneHolder, ThreadTypeOK
<1> QED BY <1>1, <1>2, InitInv, NextInv, PTL DEF Spec

(* A function of systemcalls.c that returns true has run the command,      *)
(* unless dup2 has failed in the child; and it returns with nothing left   *)
(* open or running and in one process, but for the failures of fork,       *)
(* waitpid and dup2.                                                       *)
THEOREM CallsCorrect == Spec => [](TrueMeansRan /\ CleanReturn)
<1>1. CallInv => TrueMeansRan /\ CleanReturn
  BY DEF CallInv, CleanReturn
<1> QED BY <1>1, InitInv, NextInv, PTL DEF Spec
=============================================================================
