----------------------------- MODULE DaemonInv -----------------------------
(***************************************************************************)
(* The inductive invariant of module Daemon: what has to be known of every *)
(* reachable state for one step of the daemon to keep NoSendAfterClose,    *)
(* StopBeforeExit, StopNotRepeated, ExitsForAReason, FinalStatePublished,  *)
(* and to show a legal step of module Lifecycle on the states topic.       *)
(***************************************************************************)
EXTENDS Daemon

\* The goroutines exist from Launch on, with the policy they were launched with.
LaunchInv ==
    /\ phase \in {"idle", "prestart", "launch", "failed"} => \A s \in Services : pc[s] = "off"
    /\ phase \in {"idle", "prestart"} => capacity = 0 /\ watcher = "off"
    /\ \A s \in Services : pc[s] = "off" <=> policy[s] = "none"
    /\ \A s \in Services :
         pc[s] = "off" => method[s] = "none" /\ state[s] = "init"

\* Start takes things down in order.
ShutdownInv ==
    /\ phase \in {"rpcShutdown", "rpcError", "closing", "draining", "returned"} =>
         \A s \in Services : pc[s] \in {"off", "done"}
    /\ closed <=> phase \in {"draining", "returned"}
    /\ phase = "returned" => watcher = "done"
    /\ watcher = "done" => closed /\ updates = <<>>

\* What each place of the code implies for the manager's local variables.
ManagerLocal(s) ==
    /\ pc[s] \in {"begin", "first"} =>
         policy[s] = "untilSuccess" /\ hasStopped[s] /\ method[s] = "none" /\ state[s] = "init"
    /\ pc[s] \in {"entering", "select"} => state[s] \in Methods
    /\ pc[s] = "calling" => method[s] \in Methods /\ (hasStopped[s] => method[s] = "init")
    /\ pc[s] = "exited" =>
         /\ method[s] \in Methods
         /\ \E ok \in BOOLEAN : state[s] = NextState(policy[s], method[s], ok)
         /\ hasStopped[s] => method[s] \in {"init", "stop"}
    /\ pc[s] \in {"entering", "select", "exited"} /\ method[s] = "stop" => hasStopped[s]
    /\ /\ pc[s] \in {"calling", "entering", "select", "exited"}
       /\ policy[s] = "continuous" /\ hasStopped[s]
       => method[s] = "stop" /\ pc[s] # "calling"
    /\ pc[s] = "cleanup" => method[s] # "stop" /\ ~hasStopped[s]
    /\ pc[s] \in {"stopping", "stopped"} => method[s] = "stop"
    /\ pc[s] = "finish" /\ policy[s] = "continuous" => method[s] = "stop"
    /\ pc[s] = "panicked" => method[s] \in Methods
    /\ pc[s] \in {"finish", "panicked"} => policy[s] # "none"

ManagerInv == \A s \in Services : ManagerLocal(s)

-----------------------------------------------------------------------------
(* The way of an update from a manager to the states topic *)

\* Update v of a service may follow, or repeat, update u.
Follows(u, v) == v = u \/ v \in L!Successors(u)

\* No update of service s is between places i and j of queue q.
Silent(q, s, i, j) == \A k \in i .. j : q[k].name # s

\* u is the last update service s has sent: the newest one of s that is waiting,
\* or what the states watcher holds when none is.
LastSent(s, u) ==
    \/ states[s] = u /\ Silent(updates, s, 1, Len(updates))
    \/ \E i \in 1 .. Len(updates) :
         updates[i] = [name |-> s, update |-> u] /\ Silent(updates, s, i + 1, Len(updates))

\* What a manager can have sent last, by the place it is at.
CanHaveSent(s, u) ==
    /\ pc[s] \in {"off", "begin", "first"} => u = InitialUpdate
    /\ pc[s] = "entering"                  => Follows(u, Entering(state[s]))
    /\ pc[s] = "select"                    => u = Entering(state[s])
    /\ pc[s] \in {"calling", "exited"}     => u = Entering(method[s])
    /\ pc[s] = "cleanup"                   => Follows(u, Entering("stop"))
    /\ pc[s] \in {"stopping", "stopped"}   => u = Entering("stop")
    /\ pc[s] \in {"finish", "panicked"}    => Follows(u, Entering("exit"))
    /\ pc[s] = "done" /\ policy[s] = "continuous" => u = Entering("exit")

\* The first waiting update of a service continues what the states watcher holds.
HeadInv ==
    \A i \in 1 .. Len(updates) :
        Silent(updates, updates[i].name, 1, i - 1) =>
            Follows(states[updates[i].name], updates[i].update)

\* Each waiting update of a service continues the one of that service before it.
ChainInv ==
    \A i, j \in 1 .. Len(updates) :
        /\ i < j /\ updates[j].name = updates[i].name
        /\ Silent(updates, updates[i].name, i + 1, j - 1)
        => Follows(updates[i].update, updates[j].update)

\* The update sent last is one the manager can have sent at the place it is at.
SentInv ==
    \A s \in Services, u \in StateUpdates : LastSent(s, u) => CanHaveSent(s, u)

\* The topic is at most one update behind the states watcher.
TopicInv ==
    /\ watcher # "publish" => published = states
    /\ watcher = "publish" =>
         \E s \in Services :
            /\ states = [published EXCEPT ![s] = states[s]]
            /\ Follows(published[s], states[s])

IInv == TypeOK /\ LaunchInv /\ ShutdownInv /\ ManagerInv /\ ExitsForAReason
        /\ HeadInv /\ ChainInv /\ SentInv /\ TopicInv
=============================================================================
