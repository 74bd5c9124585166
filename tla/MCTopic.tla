------------------------------ MODULE MCTopic ------------------------------
(***************************************************************************)
(* Instances of Topic for TLC: one or two clients, in one consumer group    *)
(* or in several, with the buffer policies of package intracom.             *)
(***************************************************************************)
EXTENDS Topic, TLC

CONSTANTS c1, c2, g1, g2

Subscriber(g, p, n, e) == [group |-> g, policy |-> p, size |-> n, errIfExists |-> e]

\* One group with a buffer of one: a client that subscribes as the watches of rxd do,
\* and one that drops the newest and insists on being the first.
SharedGroup ==
    c1 :> Subscriber(g1, "dropOldest", 1, FALSE) @@ c2 :> Subscriber(g1, "dropNewest", 1, TRUE)

\* Two groups with a deeper buffer, one of which never drops.
MixedPolicies ==
    c1 :> Subscriber(g1, "dropNone", 2, TRUE) @@ c2 :> Subscriber(g2, "dropOldest", 2, TRUE)
=============================================================================
