---------------------------- MODULE HandlerThreads ----------------------------
(***************************************************************************)
(* What the rest of the server may rely on of a handler thread: it begins  *)
(* by reading its parameter, goes in and out of FileMutex, and ends; or it *)
(* takes the whole process with it.  ConnectionHandler implements this,    *)
(* Server is built on it.                                                  *)
(***************************************************************************)
CONSTANTS Conns, NoConn

VARIABLES
  stage,      \* where each handler is: "none", "start", "run", "file", "done"
  fileMutex,  \* holder of FileMutex
  exited      \* the process is gone

vars == <<stage, fileMutex, exited>>

Init ==
  /\ stage \in [Conns -> {"none", "start"}]
  /\ fileMutex = NoConn
  /\ exited = FALSE

Move(c, from, to) ==
  /\ ~exited
  /\ stage[c] = from
  /\ stage' = [stage EXCEPT ![c] = to]

Create(c) == Move(c, "none", "start") /\ UNCHANGED <<fileMutex, exited>>

Begin(c) == Move(c, "start", "run") /\ UNCHANGED <<fileMutex, exited>>

Lock(c) ==
  /\ Move(c, "run", "file")
  /\ fileMutex = NoConn /\ fileMutex' = c
  /\ UNCHANGED exited

Unlock(c) ==
  /\ Move(c, "file", "run")
  /\ fileMutex = c /\ fileMutex' = NoConn
  /\ UNCHANGED exited

End(c) == Move(c, "run", "done") /\ UNCHANGED <<fileMutex, exited>>

(* fail() or a fatal signal. *)
Die(c) ==
  /\ \E from \in {"start", "file"} : Move(c, from, "done")
  /\ exited' = TRUE
  /\ UNCHANGED fileMutex

Next ==
  \E c \in Conns :
    Create(c) \/ Begin(c) \/ Lock(c) \/ Unlock(c) \/ End(c) \/ Die(c)

Spec == Init /\ [][Next]_vars
=============================================================================
