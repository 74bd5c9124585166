--------------------------- MODULE ServiceStates ---------------------------
(***************************************************************************)
(* The vocabulary of a service's life: the states and transitions of       *)
(* service_states.go, the update a service manager sends for each of them, *)
(* and the two manager policies of service_manager.go with the table that  *)
(* picks the next state when a runner method returns.                      *)
(***************************************************************************)

\* The lifecycle methods of a ServiceRunner; each is also a State.
Methods == {"init", "idle", "run", "stop"}

States == Methods \cup {"unknown", "exit"}

Transitions == {"entering", "exited"}

\* StateUpdate: what the states map holds for one service.
StateUpdates == [state : States, transition : Transitions]

Entering(st) == [state |-> st, transition |-> "entering"]
Exited(st)   == [state |-> st, transition |-> "exited"]

\* What the states watcher records for a service nobody reported on yet.
InitialUpdate == Entering("unknown")

\* RunContinuousManager and RunUntilSuccessManager.
Policies == {"continuous", "untilSuccess"}

\* A defect: any error ends the service.
NextStateGivesUp(policy, m, ok) ==
    CASE ~ok        -> "exit"
      [] m = "init" -> "idle"
      [] m = "idle" -> "run"
      [] m = "run"  -> "stop"
      [] m = "stop" -> "init"

(***************************************************************************)
(* The state a manager moves to when method m of the runner returns; ok    *)
(* says that it returned a nil error.                                      *)
(*   - a failing Init or Idle skips ahead to Stop;                         *)
(*   - RunContinuous always follows Run by Stop and Stop by Init;          *)
(*   - RunUntilSuccess exits on a successful Run, and repeats a failed Stop.*)
(***************************************************************************)
NextState(policy, m, ok) ==
    CASE m = "init" -> IF ok THEN "idle" ELSE "stop"
      [] m = "idle" -> IF ok THEN "run"  ELSE "stop"
      [] m = "run"  -> IF ok /\ policy = "untilSuccess" THEN "exit" ELSE "stop"
      [] m = "stop" -> IF ok \/ policy = "continuous" THEN "init" ELSE "stop"
=============================================================================
