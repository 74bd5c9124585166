------------------------------- MODULE PubSub -------------------------------
(***************************************************************************)
(* What a topic promises to the consumer groups that subscribe to it,      *)
(* without channels, buffers, requests and goroutines.  Messages are       *)
(* numbered in the order they are published.  A group is offered messages, *)
(* the newest one that was published before it came included, and takes    *)
(* what it is offered in that order.                                       *)
(***************************************************************************)
EXTENDS Naturals

CONSTANTS
    Groups,         \* consumer groups
    Reliable,       \* the groups that are offered every message
    Lossless        \* the groups that may take every message they are offered

VARIABLES
    published,      \* the number of messages published
    members,        \* the groups that are subscribed
    offered,        \* offered[g]: the newest message g was offered, 0 without one
    taken           \* taken[g]: the message g took last, 0 before the first

vars == <<published, members, offered, taken>>

Init ==
    /\ published = 0 /\ members = {}
    /\ offered = [g \in Groups |-> 0] /\ taken = [g \in Groups |-> 0]

\* A broadcast is over; only then groups come and go and the next message follows.
Settled == \A g \in members \cap Reliable : offered[g] = published

Publish ==
    /\ Settled
    /\ published' = published + 1
    /\ UNCHANGED <<members, offered, taken>>

Offer(g) ==
    /\ g \in members /\ offered[g] < published
    /\ offered' = [offered EXCEPT ![g] = published]
    /\ UNCHANGED <<published, members, taken>>

Take(g) ==
    /\ g \in members
    /\ \E m \in taken[g] + 1 .. offered[g] :
        /\ g \in Lossless /\ taken[g] > 0 => m = taken[g] + 1
        /\ taken' = [taken EXCEPT ![g] = m]
    /\ UNCHANGED <<published, members, offered>>

Join(g) ==
    /\ Settled /\ g \notin members
    /\ members' = members \cup {g}
    /\ offered' = [offered EXCEPT ![g] = published]
    /\ UNCHANGED <<published, taken>>

\* One group leaves, or the topic is closed.
Leave(G) ==
    /\ Settled
    /\ members' = members \ G
    /\ offered' = [g \in Groups |-> IF g \in G THEN 0 ELSE offered[g]]
    /\ taken' = [g \in Groups |-> IF g \in G THEN 0 ELSE taken[g]]
    /\ UNCHANGED published

Next ==
    \/ Publish
    \/ \E g \in members : Offer(g) \/ Take(g) \/ Leave({g})
    \/ \E g \in Groups : Join(g)
    \/ Leave(members)

Spec == Init /\ [][Next]_vars
=============================================================================
