---------------------------- MODULE PubSubProofs ----------------------------
(***************************************************************************)
(* What follows from PubSub alone, for any groups: that nothing is taken   *)
(* or offered before it is published, that a reliable group is offered the *)
(* messages one by one, and that a group that is lossless as well takes    *)
(* them one by one.                                                        *)
(***************************************************************************)
EXTENDS PubSub, TLAPS

\* A group has nothing that was not published, nothing after it left, and a reliable one
\* is at most one message behind.
PInv ==
    /\ published \in Nat /\ members \subseteq Groups
    /\ offered \in [Groups -> Nat] /\ taken \in [Groups -> Nat]
    /\ \A g \in Groups : taken[g] <= offered[g] /\ offered[g] <= published
    /\ \A g \in Groups \ members : offered[g] = 0
    /\ \A g \in members \cap Reliable : published <= offered[g] + 1

\* As long as a group stays, what it is offered and what it takes only grows: by one
\* message at a time if it is reliable, and lossless.
OneByOne ==
    \A g \in members \cap members' :
        /\ offered[g] <= offered'[g] /\ taken[g] <= taken'[g]
        /\ g \in Reliable => offered'[g] <= offered[g] + 1
        /\ g \in Lossless /\ taken[g] > 0 => taken'[g] <= taken[g] + 1

-----------------------------------------------------------------------------

LEMMA PubSubBegins == Init => PInv
BY DEF Init, PInv

LEMMA PubSubKept ==
  ASSUME PInv, [Next]_vars
  PROVE  PInv' /\ OneByOne
<1>. USE DEF PInv
<1>1. CASE Publish
  <2>1. \A g \in members \cap Reliable : offered[g] = published
    BY <1>1 DEF Publish, Settled
  <2>. QED  BY <1>1, <2>1 DEF Publish, OneByOne
<1>2. ASSUME NEW g \in members, Offer(g) PROVE PInv' /\ OneByOne
  BY <1>2 DEF Offer, OneByOne
<1>3. ASSUME NEW g \in members, Take(g) PROVE PInv' /\ OneByOne
  <2>1. PICK m \in taken[g] + 1 .. offered[g] :
          /\ g \in Lossless /\ taken[g] > 0 => m = taken[g] + 1
          /\ taken' = [taken EXCEPT ![g] = m]
    BY <1>3 DEF Take
  <2>2. g \in Groups /\ m \in Nat /\ taken[g] < m /\ m <= offered[g]
    BY <2>1
  <2>3. UNCHANGED <<published, members, offered>>
    BY <1>3 DEF Take
  <2>. QED  BY <2>1, <2>2, <2>3 DEF OneByOne
<1>4. ASSUME NEW g \in Groups, Join(g) PROVE PInv' /\ OneByOne
  <2>1. taken[g] = 0
    BY <1>4 DEF Join
  <2>. QED  BY <1>4, <2>1 DEF Join, OneByOne
<1>5. ASSUME NEW G, Leave(G) PROVE PInv' /\ OneByOne
  BY <1>5 DEF Leave, OneByOne
<1>6. CASE UNCHANGED vars
  BY <1>6 DEF vars, OneByOne
<1>. QED  BY <1>1, <1>2, <1>3, <1>4, <1>5, <1>6 DEF Next

\* Nothing is taken that was not offered, and nothing offered that was not published; a
\* reliable group has everything but the message that is being broadcast
\* (intracom/broadcast_sync.go:40-50).
THEOREM NothingFromNowhere == Spec => []PInv
BY PubSubBegins, PubSubKept, PTL DEF Spec

\* A reliable group is offered every message after its first, and takes every one if it is
\* lossless too: what DropNone promises, once a topic is known to implement PubSub
\* (intracom/buffer_policy.go:22-29).
THEOREM GroupsMissNothing == Spec => [][OneByOne]_vars
<1>1. PInv /\ [Next]_vars => [OneByOne]_vars
  BY PubSubKept
<1>. QED  BY <1>1, NothingFromNowhere, PTL DEF Spec
=============================================================================
