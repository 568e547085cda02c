------------------------------ MODULE SystemCalls ------------------------------
(***************************************************************************)
(* examples/systemcalls/systemcalls.c: one call of do_system, do_exec or   *)
(* do_exec_redirect, the child process it makes, and everything of it that *)
(* can fail.  Command and output are left out, but for the exit status.    *)
(***************************************************************************)
EXTENDS Integers

CONSTANT NoValue  \* not returned; not ended

ASSUME CallAssumption == NoValue \notin BOOLEAN

VARIABLES
  function,    \* which of the three
  caller,      \* where the caller stands
  child,       \* where the child stands
  fileOpen,    \* who has the output file open by its descriptor
  exitStatus,  \* of the child
  childStatus, \* what waitpid has stored
  ran,         \* the command was started
  returned,    \* what the function has returned, to the caller and in the child
  dup2Failed

callVars == <<function, caller, child, fileOpen, exitStatus, childStatus, ran,
              returned, dup2Failed>>

CallInit ==
  /\ function \in {"do_system", "do_exec", "do_exec_redirect"}
  /\ caller = "start"
  /\ child = "none"
  /\ fileOpen = {}
  /\ exitStatus = NoValue
  /\ childStatus = -1
  /\ ran = FALSE
  /\ returned = [caller |-> NoValue, child |-> NoValue]
  /\ dup2Failed = FALSE

CallerGoto(from, to) == caller = from /\ caller' = to
ChildGoto(from, to)  == child = from /\ child' = to

Return(value) == returned' = [returned EXCEPT !.caller = value]

(* system runs the command and waits for it, or fails to. *)
System ==
  /\ function = "do_system"
  /\ CallerGoto("start", "done")
  /\ \/ \E status \in {0, 1} :
          ran' = TRUE /\ exitStatus' = status /\ Return(status = 0)
     \/ Return(FALSE) /\ UNCHANGED <<ran, exitStatus>>
  /\ UNCHANGED <<function, child, fileOpen, childStatus, dup2Failed>>

OpenOutput ==
  /\ function # "do_system"
  /\ CallerGoto("start", "fork")
  /\ fileOpen' = IF function = "do_exec_redirect" THEN {"caller"} ELSE {}
  /\ UNCHANGED <<function, child, exitStatus, childStatus, ran, returned, dup2Failed>>

OpenFails ==
  /\ function = "do_exec_redirect"
  /\ CallerGoto("start", "done")
  /\ Return(FALSE)
  /\ UNCHANGED <<function, child, fileOpen, exitStatus, childStatus, ran, dup2Failed>>

(* Mutant: only the child closes the file. *)
ForkKeepsFile ==
  /\ CallerGoto("fork", "wait")
  /\ ChildGoto("none", "forked")
  /\ fileOpen' = IF fileOpen = {} THEN {} ELSE {"caller", "child"}
  /\ UNCHANGED <<function, exitStatus, childStatus, ran, returned, dup2Failed>>

(* The child has the file as well; the caller closes it and waits. *)
Fork ==
  /\ CallerGoto("fork", "wait")
  /\ ChildGoto("none", "forked")
  /\ fileOpen' = IF fileOpen = {} THEN {} ELSE {"child"}
  /\ UNCHANGED <<function, exitStatus, childStatus, ran, returned, dup2Failed>>

ForkFails ==
  /\ CallerGoto("fork", "done")
  /\ Return(FALSE)
  /\ UNCHANGED <<function, child, fileOpen, exitStatus, childStatus, ran, dup2Failed>>

(* Standard output becomes the file, if there is one. *)
Redirect ==
  /\ ChildGoto("forked", "exec")
  /\ fileOpen' = fileOpen \ {"child"}
  /\ UNCHANGED <<function, caller, exitStatus, childStatus, ran, returned, dup2Failed>>

(* The function returns in the child, which is now a second caller. *)
Dup2Fails ==
  /\ fileOpen # {}
  /\ ChildGoto("forked", "second")
  /\ returned' = [returned EXCEPT !.child = FALSE]
  /\ dup2Failed' = TRUE
  /\ UNCHANGED <<function, caller, fileOpen, exitStatus, childStatus, ran>>

Exec ==
  /\ ChildGoto("exec", "command")
  /\ ran' = TRUE
  /\ UNCHANGED <<function, caller, fileOpen, exitStatus, childStatus, returned, dup2Failed>>

(* exit(-1) *)
ExecFails ==
  /\ ChildGoto("exec", "ended")
  /\ exitStatus' = 255
  /\ UNCHANGED <<function, caller, fileOpen, childStatus, ran, returned, dup2Failed>>

(* The command, or the second caller, ends in some way. *)
ChildEnds ==
  /\ child \in {"command", "second"} /\ child' = "ended"
  /\ fileOpen' = fileOpen \ {"child"}
  /\ exitStatus' \in {0, 1}
  /\ UNCHANGED <<function, caller, childStatus, ran, returned, dup2Failed>>

(* Mutant: how the command has ended is not looked at. *)
AnyStatus(status) == status # -1

(* childStatus == 0; execFailed is set in the child only. *)
Succeeded(status) == status = 0

Wait ==
  /\ CallerGoto("wait", "done")
  /\ ChildGoto("ended", "reaped")
  /\ childStatus' = exitStatus
  /\ Return(Succeeded(exitStatus))
  /\ UNCHANGED <<function, fileOpen, exitStatus, ran, dup2Failed>>

(* waitpid fails, as when a signal of the caller's interrupts it. *)
WaitFails ==
  /\ CallerGoto("wait", "done")
  /\ Return(Succeeded(childStatus))
  /\ UNCHANGED <<function, child, fileOpen, exitStatus, childStatus, ran, dup2Failed>>

CallNext ==
  \/ System
  \/ OpenOutput \/ OpenFails \/ Fork \/ ForkFails \/ Wait \/ WaitFails
  \/ Redirect \/ Dup2Fails \/ Exec \/ ExecFails \/ ChildEnds

-----------------------------------------------------------------------------
(* "true if the command ... were executed successfully" (systemcalls.c:35):*)
(* the function returns true only if the command has run and ended with    *)
(* status 0, whatever else fails; but for dup2, after which the status is  *)
(* that of a second caller.                                                *)
TrueMeansRan ==
  returned.caller = TRUE /\ ~dup2Failed => ran /\ exitStatus = 0

(* "This file will be closed at completion of the function call"           *)
(* (systemcalls.c:84), unless fork has failed; and no child is left behind *)
(* when the function returns, unless waitpid has failed; and no second     *)
(* copy of the caller returns, unless dup2 has failed.                     *)
CleanReturn ==
  /\ returned.caller # NoValue =>
       /\ "caller" \in fileOpen => child = "none"
       /\ child \notin {"none", "reaped"} => childStatus = -1
  /\ returned.child # NoValue => dup2Failed
=============================================================================
