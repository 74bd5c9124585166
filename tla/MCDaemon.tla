------------------------------ MODULE MCDaemon ------------------------------
(***************************************************************************)
(* Instances of Daemon for TLC: services as model values, the delays and   *)
(* the size of the update channel set in the configurations.               *)
(***************************************************************************)
EXTENDS DaemonInv, TLC

CONSTANTS s1, s2

OneService == {s1}
TwoServices == {s1, s2}
Nobody == {}

\* Any manager under any name, so that names can be added twice.
AnyAddition == [name : Services, policy : Policies]

\* One service of each kind.
OneOfEach == {[name |-> s1, policy |-> "continuous"],
              [name |-> s2, policy |-> "untilSuccess"]}

SymServices == Permutations(Services)
=============================================================================
