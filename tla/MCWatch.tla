------------------------------ MODULE MCWatch ------------------------------
(***************************************************************************)
(* Instances of Watch for TLC: the watches that the service "x" places on   *)
(* two others.                                                             *)
(***************************************************************************)
EXTENDS Watch, TLC

CONSTANTS s1, s2, w1, w2, w3

WatchCall(f, a, t, names) ==
    [function |-> f, action |-> a, target |-> t, names |-> names, fqcn |-> "x"]

\* A service that watches everything in two places, and waits for another one.
ThreeWatches ==
    w1 :> [function |-> "states", fqcn |-> "x"] @@
    w2 :> [function |-> "states", fqcn |-> "x"] @@
    w3 :> WatchCall("all", "exited", "init", <<s1>>)

\* The same watch placed twice, as by a service whose Idle runs again after a restart.
SameWatchTwice ==
    w1 :> WatchCall("all", "entering", "init", <<s1, s2>>) @@
    w2 :> WatchCall("all", "entering", "init", <<s1, s2>>)
=============================================================================
