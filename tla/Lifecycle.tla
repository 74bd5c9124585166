----------------------------- MODULE Lifecycle -----------------------------
(***************************************************************************)
(* What the daemon promises to everyone who watches service states: the    *)
(* state shown for a service only ever moves along the edges below.  A     *)
(* watcher that sees "run" being entered may conclude that Init and Idle    *)
(* have returned, a lifecycle is never shown as exited before it was shown  *)
(* as entered, and nothing follows "entering exit".                        *)
(***************************************************************************)
EXTENDS ServiceStates

CONSTANT Services           \* names of the services

VARIABLE view               \* the last state update visible for each service

Init == view = [s \in Services |-> InitialUpdate]

\* The updates that may directly follow update u of the same service.
Successors(u) ==
    IF u.transition = "entering"
    THEN CASE u.state = "unknown"  -> {Entering("init"), Entering("exit")}
           [] u.state = "exit"     -> {}
           [] u.state \in Methods  -> {Exited(u.state), Entering("stop"), Entering("exit")}
    ELSE CASE u.state = "init"     -> {Entering("idle"), Entering("stop")}
           [] u.state = "idle"     -> {Entering("run"), Entering("stop")}
           [] u.state = "run"      -> {Entering("stop")}
           [] OTHER                -> {Entering("init"), Entering("stop"), Entering("exit")}

Move(s) == \E u \in Successors(view[s]) : view' = [view EXCEPT ![s] = u]

Next == \E s \in Services : Move(s)

Spec == Init /\ [][Next]_view
=============================================================================
