------------------------------- MODULE Daemon -------------------------------
(***************************************************************************)
(* daemon.go: services are added while the daemon is idle; Start runs the  *)
(* prestart pipeline, makes the update channel and the states watcher,     *)
(* launches one manager goroutine per service (module ServiceManager),     *)
(* waits for all of them and then takes everything down in order: RPC      *)
(* server, update channel, states watcher, intracom.  The states watcher   *)
(* folds the updates into a map and publishes a copy of it after each one. *)
(***************************************************************************)
EXTENDS ServiceManager, FiniteSets

CONSTANTS
    Additions,          \* what the program passes to AddService: names with managers
    ConcurrentAdd,      \* the program may call Start while an AddService is under way
    SlotsPerService,    \* stateUpdateC gets this many slots per service (4 in the code)
    RPCEnabled          \* the daemon was made with the RPC option

ASSUME DaemonAssumption ==
    /\ IsFiniteSet(Services)
    /\ Additions \subseteq [name : Services, policy : Policies]
    /\ SlotsPerService \in Nat \ {0}
    /\ ConcurrentAdd \in BOOLEAN /\ RPCEnabled \in BOOLEAN

VARIABLES
    registered,     \* registered[s]: the manager added under name s, or "none"
    adding,         \* the additions that passed the started check but are not stored yet
    phase,          \* how far Start has come
    closed,         \* stateUpdateC is closed
    states,         \* the states watcher's map
    watcher,        \* where the states watcher goroutine is
    published       \* the last map received by the states topic

daemonVars == <<registered, adding, phase, closed, states, watcher, published>>
vars == <<managerVars, updates, capacity, cancelled, daemonVars>>

Phases == {"idle", "prestart", "launch", "running", "rpcShutdown", "closing",
           "draining", "failed", "rpcError", "returned"}

\* Start has returned.
Final == {"failed", "rpcError", "returned"}

Launched == {s \in Services : policy[s] # "none"}

Init ==
    /\ ManagerInit
    /\ updates = <<>>
    /\ capacity = 0
    /\ cancelled = FALSE
    /\ registered = [s \in Services |-> "none"]
    /\ adding = {}
    /\ phase = "idle"
    /\ closed = FALSE
    /\ states = [s \in Services |-> InitialUpdate]
    /\ watcher = "off"
    /\ published = [s \in Services |-> InitialUpdate]

-----------------------------------------------------------------------------
(* Adding services.  The started flag is read first and the maps are written *)
(* later; one other goroutine at a time is adding.                           *)

AddServiceCheck(a) ==
    /\ phase = "idle"
    /\ adding = {}
    /\ adding' = {a}
    /\ UNCHANGED <<managerVars, updates, capacity, cancelled,
                   registered, phase, closed, states, watcher, published>>

\* A name that is taken already is overwritten.
AddServiceStore(a) ==
    /\ a \in adding
    /\ registered' = [registered EXCEPT ![a.name] = a.policy]
    /\ adding' = {}
    /\ UNCHANGED <<managerVars, updates, capacity, cancelled,
                   phase, closed, states, watcher, published>>

-----------------------------------------------------------------------------
(* Start *)

\* The first call of Start; every later one fails on the started flag.
Start ==
    /\ phase = "idle"
    /\ ConcurrentAdd \/ adding = {}
    /\ phase' = IF \A s \in Services : registered[s] = "none" THEN "failed" ELSE "prestart"
    /\ UNCHANGED <<managerVars, updates, capacity, cancelled,
                   registered, adding, closed, states, watcher, published>>

\* An OS signal, or the parent context is cancelled.
Cancel ==
    /\ phase \notin Final \cup {"idle"}
    /\ ~cancelled
    /\ cancelled' = TRUE
    /\ UNCHANGED <<managerVars, updates, capacity, daemonVars>>

\* The prestart pipeline has closed its channel: make the states topic, the
\* update channel and the states watcher.
OpenStates ==
    /\ phase = "prestart"
    /\ phase' = "launch"
    /\ capacity' = SlotsPerService * Cardinality({s \in Services : registered[s] # "none"})
    /\ watcher' = "recv"
    /\ UNCHANGED <<managerVars, updates, cancelled,
                   registered, adding, closed, states, published>>

\* One goroutine for every service that is registered by now.
Launch ==
    /\ phase = "launch"
    /\ phase' = "running"
    /\ policy' = registered
    /\ pc' = [s \in Services |-> CASE registered[s] = "continuous"   -> "entering"
                                   [] registered[s] = "untilSuccess" -> "begin"
                                   [] OTHER                          -> "off"]
    /\ hasStopped' = [s \in Services |-> registered[s] = "untilSuccess"]
    /\ UNCHANGED <<state, method, updates, capacity, cancelled,
                   registered, adding, closed, states, watcher, published>>

\* A defect: Start does not wait for the goroutines, only for the context.
ServicesExitedOnCancel ==
    /\ phase = "running"
    /\ cancelled
    /\ phase' = IF RPCEnabled THEN "rpcShutdown" ELSE "closing"
    /\ UNCHANGED <<managerVars, updates, capacity, cancelled,
                   registered, adding, closed, states, watcher, published>>

\* dwg.Wait returns.
ServicesExited ==
    /\ phase = "running"
    /\ \A s \in Services : pc[s] \in {"off", "done"}
    /\ phase' = IF RPCEnabled THEN "rpcShutdown" ELSE "closing"
    /\ UNCHANGED <<managerVars, updates, capacity, cancelled,
                   registered, adding, closed, states, watcher, published>>

RPCShutdown ==
    /\ phase = "rpcShutdown"
    /\ phase' = "closing"
    /\ UNCHANGED <<managerVars, updates, capacity, cancelled,
                   registered, adding, closed, states, watcher, published>>

\* The server does not shut down within 5 seconds: Start returns the error at
\* once, and its deferred dcancel runs.
RPCShutdownError ==
    /\ phase = "rpcShutdown"
    /\ phase' = "rpcError"
    /\ cancelled' = TRUE
    /\ UNCHANGED <<managerVars, updates, capacity,
                   registered, adding, closed, states, watcher, published>>

CloseUpdates ==
    /\ phase = "closing"
    /\ phase' = "draining"
    /\ closed' = TRUE
    /\ UNCHANGED <<managerVars, updates, capacity, cancelled,
                   registered, adding, states, watcher, published>>

\* A defect: Start does not wait for statesDoneC.
CloseIntracomEarly ==
    /\ phase = "draining"
    /\ phase' = "returned"
    /\ cancelled' = TRUE
    /\ UNCHANGED <<managerVars, updates, capacity,
                   registered, adding, closed, states, watcher, published>>

\* statesDoneC is closed: Start closes intracom, returns nil and cancels.
CloseIntracom ==
    /\ phase = "draining"
    /\ watcher = "done"
    /\ phase' = "returned"
    /\ cancelled' = TRUE
    /\ UNCHANGED <<managerVars, updates, capacity,
                   registered, adding, closed, states, watcher, published>>

-----------------------------------------------------------------------------
(* The states watcher *)

WatcherReceive ==
    /\ watcher = "recv"
    /\ updates # <<>>
    /\ states' = [states EXCEPT ![Head(updates).name] = Head(updates).update]
    /\ updates' = Tail(updates)
    /\ watcher' = "publish"
    /\ UNCHANGED <<managerVars, capacity, cancelled,
                   registered, adding, phase, closed, published>>

\* The send on the topic's unbuffered publish channel.
WatcherPublish ==
    /\ watcher = "publish"
    /\ published' = states
    /\ watcher' = "recv"
    /\ UNCHANGED <<managerVars, updates, capacity, cancelled,
                   registered, adding, phase, closed, states>>

WatcherDone ==
    /\ watcher = "recv"
    /\ closed
    /\ updates = <<>>
    /\ watcher' = "done"
    /\ UNCHANGED <<managerVars, updates, capacity, cancelled,
                   registered, adding, phase, closed, states, published>>

-----------------------------------------------------------------------------

AddService ==
    \/ \E a \in Additions : AddServiceCheck(a)
    \/ \E a \in adding : AddServiceStore(a)

StartStep ==
    \/ OpenStates \/ Launch \/ ServicesExited
    \/ RPCShutdown \/ RPCShutdownError \/ CloseUpdates \/ CloseIntracom

WatcherStep == WatcherReceive \/ WatcherPublish \/ WatcherDone

ServiceStep(s) == (ManagerStep(s) \/ RunnerStep(s)) /\ UNCHANGED daemonVars

Terminated == phase \in Final /\ UNCHANGED vars

Next ==
    \/ AddService
    \/ Start
    \/ Cancel
    \/ StartStep
    \/ WatcherStep
    \/ \E s \in Services : ServiceStep(s)
    \/ Terminated

Spec == Init /\ [][Next]_vars

(***************************************************************************)
(* Fairness.  Goroutines that can run do run, so every step that does not  *)
(* wait for the user is weakly fair.  Senders blocked on a full channel    *)
(* are served in the order they came, so a manager cannot be overtaken for *)
(* ever by another one: its steps are strongly fair.  A select with two    *)
(* ready cases picks one at random, so a manager that finds the context    *)
(* done at select after select cannot take the timer for ever: strong      *)
(* fairness of that case.  Runner methods must be context-aware            *)
(* (daemon.go:8): once the context is done they return.  Nothing is        *)
(* assumed of a runner before that, nor of AddService, Start and Cancel.   *)
(***************************************************************************)
Fairness ==
    /\ WF_vars(StartStep)
    /\ WF_vars(WatcherStep)
    /\ \A s \in Services :
        /\ SF_vars(ManagerStep(s) /\ UNCHANGED daemonVars)
        /\ SF_vars(SelectCancelled(s) /\ UNCHANGED daemonVars)
        /\ WF_vars(cancelled /\ RunnerStep(s) /\ UNCHANGED daemonVars)

FairSpec == Spec /\ Fairness

-----------------------------------------------------------------------------
(* Safety *)

\* Every variable has its type, and the channel never holds more than its capacity.
TypeOK ==
    /\ ManagerTypeOK
    /\ Len(updates) <= capacity
    /\ registered \in [Services -> Policies \cup {"none"}]
    /\ adding \subseteq Additions
    /\ phase \in Phases
    /\ closed \in BOOLEAN
    /\ states \in [Services -> StateUpdates]
    /\ watcher \in {"off", "recv", "publish", "done"}
    /\ published \in [Services -> StateUpdates]

\* Start closes stateUpdateC only when no manager can send on it any more: a send
\* on the closed channel would panic in a goroutine nobody recovers
\* (daemon.go:251 against every updateC <- of service_manager.go and daemon.go:184).
NoSendAfterClose == closed => \A s \in Services : pc[s] \in {"off", "done"}

\* However Start returns, an RPC server that does not shut down included, no service is
\* running any more, nor is one started afterwards (daemon.go:236, 244-246, 271).
ServicesExitedBeforeReturn ==
    phase \in Final => \A s \in Services : pc[s] \in {"off", "done"}

\* A RunContinuous service never announces its exit with a lifecycle method
\* uncleaned: the method called last is Stop, even when the context is done before
\* the first Init or between a Stop and the next Init (service_manager.go:147-160).
StopBeforeExit ==
    \A s \in Services :
        pc[s] = "finish" /\ policy[s] = "continuous" => method[s] = "stop"

\* Neither manager calls the final Stop when the method called last is Stop
\* already (service_manager.go:144-145, 303).
StopNotRepeated == \A s \in Services : pc[s] = "cleanup" => method[s] # "stop"

\* When Start returns nil every RunContinuous service, panicked ones included, is
\* published as entering exit: no update is lost between the last send of a
\* manager, the close of the channel and the end of the states watcher.
FinalStatePublished ==
    phase = "returned" =>
        \A s \in Launched :
            policy[s] = "continuous" => published[s] = Entering("exit")

\* What the states topic shows of each service follows the life of a service.
L == INSTANCE Lifecycle WITH view <- published
PublishedLifecycle == L!Spec

\* A manager that was not told to stop gives up on its service only after a
\* successful Run of RunUntilSuccess (or a panic, which does not reach "finish").
ExitsForAReason ==
    \A s \in Services :
        pc[s] \in {"cleanup", "stopping", "stopped", "finish"} =>
            cancelled \/ (policy[s] = "untilSuccess" /\ method[s] \in {"run", "stop"})

-----------------------------------------------------------------------------
(* Liveness *)

\* Once the context is done Start returns, whatever the managers were doing and
\* however full the update channel was.
ShutdownCompletes == cancelled ~> phase \in Final

\* The exit of a RunContinuous service reaches the states topic.
ExitPublished ==
    \A s \in Services :
        (pc[s] = "done" /\ policy[s] = "continuous") ~> (published[s] = Entering("exit"))

\* A service whose Stop has returned is given another method call, unless the
\* context is done first: the restart never stalls on the update channel.
RestartedAfterStop ==
    \A s \in Services :
        (pc[s] = "exited" /\ method[s] = "stop") ~> (pc[s] = "calling" \/ cancelled)

-----------------------------------------------------------------------------
(* What comments of the code say, and the code does not do *)

\* "ensure that if any lifecycle ran after stop, we run stop again (for cleanup)"
\* (service_manager.go:305), of both managers.
CleanupAfterAnyLifecycle ==
    \A s \in Services : pc[s] = "finish" => method[s] \in {"none", "stop"}
=============================================================================
