--------------------------- MODULE ServiceManager ---------------------------
(***************************************************************************)
(* The goroutines that run one service each: the goroutine body of         *)
(* daemon.Start around ServiceManager.Manage, for both managers the        *)
(* library ships.  A manager walks its service through Init, Idle, Run and *)
(* Stop, announces every step on the update channel, looks at the context  *)
(* only in the select before each method call, and runs Stop once more on  *)
(* the way out when it believes that something ran since the last Stop.    *)
(*                                                                         *)
(* A blocking operation (a channel send, the select, a call into the       *)
(* user's runner) is one step; what the code does between two of them is   *)
(* part of the step before.                                                *)
(***************************************************************************)
EXTENDS ServiceStates, Naturals, Sequences

CONSTANTS
    Services,       \* names under which services can be added
    ZeroStartup,    \* services whose RunUntilSuccess may have a StartupDelay of zero or less
    ZeroDefault     \* services whose RunUntilSuccess may have a DefaultDelay of zero or less

ASSUME DelayAssumption == ZeroStartup \subseteq Services /\ ZeroDefault \subseteq Services

VARIABLES
    policy,         \* policy[s]: the manager launched for s, "none" before
    pc,             \* pc[s]: where the goroutine of s is
    state,          \* state[s]: the manager's next state
    method,         \* method[s]: the runner method called last, "none" before
    hasStopped,     \* hasStopped[s]: the manager's flag of that name
    updates,        \* the buffered content of stateUpdateC
    capacity,       \* cap(stateUpdateC), 0 before it is made
    cancelled       \* the daemon context is done

managerVars == <<policy, pc, state, method, hasStopped>>

PCs == {"off",       \* not launched
        "begin",     \* RunUntilSuccess: first select
        "first",     \* RunUntilSuccess: announcing the first Init
        "entering",  \* announcing state[s]
        "select",    \* waiting for the timer or the context
        "calling",   \* inside runner method method[s]
        "exited",    \* announcing the end of method[s]
        "cleanup",   \* announcing the final Stop
        "stopping",  \* inside the final Stop
        "stopped",   \* announcing the end of the final Stop
        "finish",    \* announcing exit
        "panicked",  \* recovered by Start's goroutine, announcing exit
        "done"}      \* the goroutine has released the wait group

Goto(s, label) == pc' = [pc EXCEPT ![s] = label]

\* A defect: a send that does not wait for room.
SendUnbounded(s, u) == updates' = Append(updates, [name |-> s, update |-> u])

\* A send on stateUpdateC: blocks while the channel is full.
Send(s, u) ==
    /\ Len(updates) < capacity
    /\ updates' = Append(updates, [name |-> s, update |-> u])

\* Where a manager goes once its loop ends.
AfterLoop(s) == IF hasStopped[s] THEN "finish" ELSE "cleanup"

\* RunUntilSuccess is in the Init it calls before its loop.
InFirstInit(s) == policy[s] = "untilSuccess" /\ method[s] = "init" /\ hasStopped[s]

ManagerInit ==
    /\ policy = [s \in Services |-> "none"]
    /\ pc = [s \in Services |-> "off"]
    /\ state = [s \in Services |-> "init"]
    /\ method = [s \in Services |-> "none"]
    /\ hasStopped = [s \in Services |-> FALSE]

-----------------------------------------------------------------------------
(* RunUntilSuccess before its loop *)

\* time.NewTicker panics on a delay that is not positive; Manage recovers.
BeginPanic(s) ==
    /\ pc[s] = "begin" /\ s \in ZeroStartup
    /\ Goto(s, "done")
    /\ UNCHANGED <<policy, state, method, hasStopped, updates, capacity, cancelled>>

BeginCancelled(s) ==
    /\ pc[s] = "begin"
    /\ cancelled
    /\ state' = [state EXCEPT ![s] = "exit"]
    /\ Goto(s, AfterLoop(s))
    /\ UNCHANGED <<policy, method, hasStopped, updates, capacity, cancelled>>

BeginTick(s) ==
    /\ pc[s] = "begin"
    /\ Goto(s, "first")
    /\ UNCHANGED <<policy, state, method, hasStopped, updates, capacity, cancelled>>

\* The first Init does not touch hasStopped.
FirstInit(s) ==
    /\ pc[s] = "first"
    /\ Send(s, Entering("init"))
    /\ method' = [method EXCEPT ![s] = "init"]
    /\ Goto(s, "calling")
    /\ UNCHANGED <<policy, state, hasStopped, capacity, cancelled>>

-----------------------------------------------------------------------------
(* The loop of both managers *)

Enter(s) ==
    /\ pc[s] = "entering"
    /\ Send(s, Entering(state[s]))
    /\ Goto(s, "select")
    /\ UNCHANGED <<policy, state, method, hasStopped, capacity, cancelled>>

\* A defect: the context case continues the loop without setting StateExit.
SelectCancelledContinues(s) ==
    /\ pc[s] = "select"
    /\ cancelled
    /\ Goto(s, "entering")
    /\ UNCHANGED <<policy, state, method, hasStopped, updates, capacity, cancelled>>

SelectCancelled(s) ==
    /\ pc[s] = "select"
    /\ cancelled
    /\ state' = [state EXCEPT ![s] = "exit"]
    /\ Goto(s, AfterLoop(s))
    /\ UNCHANGED <<policy, method, hasStopped, updates, capacity, cancelled>>

\* A defect: hasStopped is not reset when a method is called after a Stop.
SelectTickKeepsFlag(s) ==
    /\ pc[s] = "select"
    /\ method' = [method EXCEPT ![s] = state[s]]
    /\ Goto(s, "calling")
    /\ UNCHANGED <<policy, state, hasStopped, updates, capacity, cancelled>>

\* The timer fires: the method of the announced state is called.
SelectTick(s) ==
    /\ pc[s] = "select"
    /\ hasStopped' = [hasStopped EXCEPT ![s] = FALSE]
    /\ method' = [method EXCEPT ![s] = state[s]]
    /\ Goto(s, "calling")
    /\ UNCHANGED <<policy, state, updates, capacity, cancelled>>

\* A defect: a Stop is not noted in hasStopped.
ReturnForgetsStop(s, ok) ==
    /\ pc[s] = "calling"
    /\ state' = [state EXCEPT ![s] = NextState(policy[s], method[s], ok)]
    /\ Goto(s, "exited")
    /\ UNCHANGED <<policy, method, hasStopped, updates, capacity, cancelled>>

\* The runner method returns, with a nil error if ok.
Return(s, ok) ==
    /\ pc[s] = "calling"
    /\ state' = [state EXCEPT ![s] = NextState(policy[s], method[s], ok)]
    /\ hasStopped' = [hasStopped EXCEPT ![s] = (method[s] = "stop") \/ @]
    /\ Goto(s, "exited")
    /\ UNCHANGED <<policy, method, updates, capacity, cancelled>>

\* A defect: the update names the next state instead of the one that was left.
ReportNextState(s) ==
    /\ pc[s] = "exited"
    /\ Send(s, Exited(state[s]))
    /\ Goto(s, IF state[s] = "exit" THEN AfterLoop(s) ELSE "entering")
    /\ UNCHANGED <<policy, state, method, hasStopped, capacity, cancelled>>

\* Announce the end of the method, rearm the timer and test the loop condition;
\* the first ticker.Reset of RunUntilSuccess panics on a delay that is not positive.
Report(s) ==
    /\ pc[s] = "exited"
    /\ Send(s, Exited(method[s]))
    /\ \/ InFirstInit(s) /\ s \in ZeroDefault /\ Goto(s, "done")
       \/ Goto(s, IF state[s] = "exit" THEN AfterLoop(s) ELSE "entering")
    /\ UNCHANGED <<policy, state, method, hasStopped, capacity, cancelled>>

-----------------------------------------------------------------------------
(* Leaving the loop *)

Cleanup(s) ==
    /\ pc[s] = "cleanup"
    /\ Send(s, Entering("stop"))
    /\ method' = [method EXCEPT ![s] = "stop"]
    /\ Goto(s, "stopping")
    /\ UNCHANGED <<policy, state, hasStopped, capacity, cancelled>>

CleanupReturn(s) ==
    /\ pc[s] = "stopping"
    /\ Goto(s, "stopped")
    /\ UNCHANGED <<policy, state, method, hasStopped, updates, capacity, cancelled>>

CleanupReport(s) ==
    /\ pc[s] = "stopped"
    /\ Send(s, Exited("stop"))
    /\ Goto(s, "finish")
    /\ UNCHANGED <<policy, state, method, hasStopped, capacity, cancelled>>

\* A defect: Manage returns without its last update.
FinishQuietly(s) ==
    /\ pc[s] = "finish"
    /\ Goto(s, "done")
    /\ UNCHANGED <<policy, state, method, hasStopped, updates, capacity, cancelled>>

\* The last update of Manage; the goroutine then releases the wait group.
Finish(s) ==
    /\ pc[s] = "finish"
    /\ Send(s, Entering("exit"))
    /\ Goto(s, "done")
    /\ UNCHANGED <<policy, state, method, hasStopped, capacity, cancelled>>

\* The runner panics.  RunUntilSuccess recovers and returns from Manage without
\* a word; the panic of a RunContinuous service reaches Start's goroutine.
Panic(s) ==
    /\ pc[s] \in {"calling", "stopping"}
    /\ Goto(s, IF policy[s] = "untilSuccess" THEN "done" ELSE "panicked")
    /\ UNCHANGED <<policy, state, method, hasStopped, updates, capacity, cancelled>>

\* A defect: the recovered goroutine reports the wrong transition.
RecoverExited(s) ==
    /\ pc[s] = "panicked"
    /\ Send(s, Exited("exit"))
    /\ Goto(s, "done")
    /\ UNCHANGED <<policy, state, method, hasStopped, capacity, cancelled>>

Recover(s) ==
    /\ pc[s] = "panicked"
    /\ Send(s, Entering("exit"))
    /\ Goto(s, "done")
    /\ UNCHANGED <<policy, state, method, hasStopped, capacity, cancelled>>

\* A step the goroutine takes without the user's runner.
ManagerStep(s) ==
    \/ BeginPanic(s) \/ BeginCancelled(s) \/ BeginTick(s) \/ FirstInit(s)
    \/ Enter(s) \/ SelectCancelled(s) \/ SelectTick(s) \/ Report(s)
    \/ Cleanup(s) \/ CleanupReport(s) \/ Finish(s) \/ Recover(s)

\* A step that is the user's runner returning or failing.
RunnerStep(s) == (\E ok \in BOOLEAN : Return(s, ok)) \/ CleanupReturn(s) \/ Panic(s)

-----------------------------------------------------------------------------

ManagerTypeOK ==
    /\ policy \in [Services -> Policies \cup {"none"}]
    /\ pc \in [Services -> PCs]
    /\ state \in [Services -> Methods \cup {"exit"}]
    /\ method \in [Services -> Methods \cup {"none"}]
    /\ hasStopped \in [Services -> BOOLEAN]
    /\ updates \in Seq([name : Services, update : StateUpdates])
    /\ capacity \in Nat
    /\ cancelled \in BOOLEAN
=============================================================================
