-------------------------- MODULE TopicRefinement ---------------------------
(***************************************************************************)
(* Proof that a topic implements PubSub, for any clients, groups, policies *)
(* and buffer sizes: a publication is PubSub's, the delivery that reaches  *)
(* a channel offers the message to its group, a client that receives from  *)
(* the channel in the map takes for its group, and a handled request makes *)
(* a group come or go, or changes nothing a group could see.               *)
(***************************************************************************)
EXTENDS TopicProofs

\* The refinement mapping, without OfChannel's parameter.
Offered == [g \in Groups |-> IF g \in Subscribed THEN Newest(channel[subscribers[g]]) ELSE 0]
LeftLasts == [g \in Groups |-> IF g \in Subscribed THEN channel[subscribers[g]].left ELSE 0]

-----------------------------------------------------------------------------
(* The steps of PubSub, under the mapping *)

LEMMA NothingSeen ==
  ASSUME UNCHANGED <<message, Subscribed, Offered, LeftLasts>>
  PROVE  UNCHANGED PubSub!vars
BY DEF PubSub!vars, Offered, LeftLasts, OfChannel, LeftLast

LEMMA AllSettled ==
  ASSUME \A g \in Subscribed \cap GroupsUsing(KeepsNewest) : Offered[g] = message
  PROVE  PubSub!Settled
BY DEF PubSub!Settled, Offered, OfChannel, GroupsUsing

LEMMA OneMore ==
  ASSUME PubSub!Settled, message' = message + 1, UNCHANGED <<Subscribed, Offered, LeftLasts>>
  PROVE  PubSub!Publish
BY DEF PubSub!Publish, Offered, LeftLasts, OfChannel, LeftLast

LEMMA OfferedOne ==
  ASSUME NEW g \in Subscribed, g \in Groups, Offered[g] < message,
         UNCHANGED <<message, Subscribed, LeftLasts>>,
         Offered' = [Offered EXCEPT ![g] = message]
  PROVE  PubSub!Offer(g)
BY DEF PubSub!Offer, Offered, LeftLasts, OfChannel, LeftLast

LEMMA TakenOne ==
  ASSUME NEW g \in Subscribed, g \in Groups, UNCHANGED <<message, Subscribed, Offered>>,
         NEW m \in LeftLasts[g] + 1 .. Offered[g],
         g \in GroupsUsing({"dropNone"}) /\ LeftLasts[g] > 0 => m = LeftLasts[g] + 1,
         LeftLasts' = [LeftLasts EXCEPT ![g] = m]
  PROVE  PubSub!Take(g)
BY DEF PubSub!Take, Offered, LeftLasts, OfChannel, LeftLast

LEMMA JoinedOne ==
  ASSUME PubSub!Settled, NEW g \in Groups, g \notin Subscribed,
         UNCHANGED <<message, LeftLasts>>, Subscribed' = Subscribed \cup {g},
         Offered' = [Offered EXCEPT ![g] = message]
  PROVE  PubSub!Join(g)
BY DEF PubSub!Join, Offered, LeftLasts, OfChannel, LeftLast

LEMMA LeftSome ==
  ASSUME PubSub!Settled, NEW G, UNCHANGED message, Subscribed' = Subscribed \ G,
         Offered' = [g \in Groups |-> IF g \in G THEN 0 ELSE Offered[g]],
         LeftLasts' = [g \in Groups |-> IF g \in G THEN 0 ELSE LeftLasts[g]]
  PROVE  PubSub!Leave(G)
BY DEF PubSub!Leave, Offered, LeftLasts, OfChannel, LeftLast

-----------------------------------------------------------------------------
(* What the steps of the topic change under the mapping *)

\* The channel of a group has the policy of one of its subscribers.
LEMMA UsesPolicy ==
  ASSUME TInv, NEW P, NEW g \in Subscribed \cap GroupsUsing(P)
  PROVE  channel[subscribers[g]].config.policy \in P
<1>1. channel[subscribers[g]].config \in SubscriberConfigs /\ channel[subscribers[g]].config.group = g
  BY DEF TInv, MapInv
<1>2. PICK c \in Clients : channel[subscribers[g]].config = Config[c]
  BY <1>1 DEF SubscriberConfigs
<1>. QED  BY <1>1, <1>2 DEF GroupsUsing

\* Between broadcasts every group that is promised the newest message has it.
LEMMA SettledBetween ==
  ASSUME TInv, bpc = "select"
  PROVE  PubSub!Settled
<1>1. ASSUME NEW g \in Subscribed \cap GroupsUsing(KeepsNewest)
      PROVE  Offered[g] = message
  <2>1. channel[subscribers[g]].config.policy \in KeepsNewest
    BY UsesPolicy
  <2>2. g \in Groups /\ pending = {}
    BY DEF TInv, BroadcastInv, Subscribed
  <2>3. Newest(channel[subscribers[g]]) = message
    BY <2>1, <2>2 DEF TInv, GivenInv
  <2>. QED  BY <2>2, <2>3 DEF Offered
<1>. QED  BY <1>1, AllSettled

\* One channel gets other content, and it is the channel of group g.
LEMMA OneGroupSees ==
  ASSUME TInv, UNCHANGED subscribers, NEW g \in Subscribed, NEW new,
         channel' = [channel EXCEPT ![subscribers[g]] = new]
  PROVE  /\ Subscribed' = Subscribed
         /\ Offered' = [Offered EXCEPT ![g] = Newest(new)]
         /\ LeftLasts' = [LeftLasts EXCEPT ![g] = new.left]
<1>1. TypeOK /\ MapInv
  BY DEF TInv
<1>2. /\ g \in Groups /\ subscribers[g] \in Channels
      /\ \A h \in Subscribed : subscribers[h] = subscribers[g] => h = g
  BY <1>1, MapTells
<1>3. channel'[subscribers[g]] = new
  BY <1>1, <1>2 DEF TypeOK
<1>4. \A h \in Subscribed \ {g} : channel'[subscribers[h]] = channel[subscribers[h]]
  BY <1>1, <1>2, MapTells DEF TypeOK
<1>5. Subscribed' = Subscribed
  BY DEF Subscribed
<1>6. Offered' = [Offered EXCEPT ![g] = Newest(new)]
  <2>1. Offered' = [h \in Groups |-> IF h \in Subscribed THEN Newest(channel'[subscribers[h]])
                                                        ELSE 0]
    BY <1>5 DEF Offered, Newest
  <2>2. Offered' = [h \in Groups |-> IF h = g THEN Newest(new) ELSE Offered[h]]
    BY <1>3, <1>4, <2>1 DEF Offered
  <2>. QED  BY <1>2, <2>2 DEF Offered
<1>7. LeftLasts' = [LeftLasts EXCEPT ![g] = new.left]
  <2>1. LeftLasts' = [h \in Groups |-> IF h \in Subscribed THEN channel'[subscribers[h]].left
                                                          ELSE 0]
    BY <1>5 DEF LeftLasts
  <2>2. LeftLasts' = [h \in Groups |-> IF h = g THEN new.left ELSE LeftLasts[h]]
    BY <1>3, <1>4, <2>1 DEF LeftLasts
  <2>. QED  BY <1>2, <2>2 DEF LeftLasts
<1>. QED  BY <1>5, <1>6, <1>7

\* Neither the map nor a channel in it changes.
LEMMA NoGroupSees ==
  ASSUME UNCHANGED <<message, subscribers>>,
         \A g \in Subscribed : channel'[subscribers[g]] = channel[subscribers[g]]
  PROVE  UNCHANGED PubSub!vars
<1>1. Subscribed' = Subscribed
  BY DEF Subscribed
<1>2. Offered' = Offered /\ LeftLasts' = LeftLasts
  BY <1>1 DEF Offered, LeftLasts, Newest
<1>. QED  BY <1>1, <1>2, NothingSeen

-----------------------------------------------------------------------------
(* The steps of the topic *)

\* A publication begins a broadcast when the one before is over.
LEMMA PublishPublishes ==
  ASSUME TInv, Publish
  PROVE  PubSub!Publish
<1>1. message' = message + 1 /\ UNCHANGED <<subscribers, channel>> /\ bpc = "select"
  BY DEF Publish, TInv, BroadcastInv, broadcastVars
<1>2. Subscribed' = Subscribed /\ Offered' = Offered /\ LeftLasts' = LeftLasts
  BY <1>1 DEF Subscribed, Offered, LeftLasts, Newest
<1>. QED  BY <1>1, <1>2, SettledBetween, OneMore

\* A message that finds no room, or that a panic loses, is not offered.
LEMMA DeliverOffers ==
  ASSUME TInv, NEW g \in Groups, Deliver(g)
  PROVE  PubSub!Offer(g) \/ UNCHANGED PubSub!vars
<1>. DEFINE ch == channel[subscribers[g]]
            new == [ch EXCEPT !.buffer = Handled(ch, message)]
<1>1. /\ g \in Subscribed /\ Newest(ch) <= last /\ message = last + 1
      /\ UNCHANGED <<subscribers, message>>
      /\ \/ ch.config.policy = "dropOldestAfterTimeout" /\ channel' = channel
         \/ /\ ch.config.policy # "dropOldestAfterTimeout"
            /\ channel' = [channel EXCEPT ![subscribers[g]] = new]
  BY Delivered
<1>2. last \in Nat /\ Newest(ch) \in Nat
  <2>1. ch \in ChannelStates
    BY Delivered
  <2>. QED  BY <2>1, NewestIs, TopicAssumption DEF TInv, TypeOK
<1>3. Offered[g] = Newest(ch) /\ LeftLasts[g] = ch.left
  BY <1>1 DEF Offered, LeftLasts
<1>4. CASE channel' = channel
  BY <1>1, <1>4, NoGroupSees
<1>5. CASE /\ ch.config.policy # "dropOldestAfterTimeout"
           /\ channel' = [channel EXCEPT ![subscribers[g]] = new]
  <2>1. new.left = ch.left /\ Newest(new) \in {Newest(ch), message}
    BY <1>5, DeliverGives
  <2>2. /\ Subscribed' = Subscribed /\ Offered' = [Offered EXCEPT ![g] = Newest(new)]
        /\ LeftLasts' = [LeftLasts EXCEPT ![g] = new.left]
    BY <1>1, <1>5, OneGroupSees
  <2>. HIDE DEF new, ch
  <2>3. LeftLasts' = LeftLasts
    BY <1>3, <2>1, <2>2 DEF LeftLasts
  <2>4. CASE Newest(new) = message
    <3>1. Offered[g] < message
      BY <1>1, <1>2, <1>3
    <3>. QED  BY <1>1, <2>2, <2>3, <2>4, <3>1, OfferedOne
  <2>5. CASE Newest(new) = Newest(ch)
    <3>1. Offered' = Offered
      BY <1>3, <2>2, <2>5 DEF Offered
    <3>. QED  BY <1>1, <2>2, <2>3, <3>1, NothingSeen
  <2>. QED  BY <2>1, <2>4, <2>5
<1>. QED  BY <1>1, <1>4, <1>5

\* A client takes for its group, or drains a channel that left the map.
LEMMA ReceiveTakes ==
  ASSUME TInv, NEW c \in Clients, Receive(c), NEW g, g = Config[c].group
  PROVE  (g \in Subscribed /\ PubSub!Take(g)) \/ UNCHANGED PubSub!vars
<1>. DEFINE i == mine[c]
            new == [channel[i] EXCEPT !.buffer = Tail(channel[i].buffer),
                                      !.left = Head(channel[i].buffer)]
<1>1. /\ i \in Channels /\ channel[i] \in ChannelStates /\ channel[i].buffer # <<>>
      /\ Queue(channel[i]) /\ Serves(i, g) /\ channel' = [channel EXCEPT ![i] = new]
  BY Received
<1>2. /\ Newest(new) = Newest(channel[i]) /\ channel[i].left < new.left
      /\ new.left <= Newest(channel[i]) /\ new \in ChannelStates
      /\ channel[i].config \in SubscriberConfigs /\ channel[i].config.policy = "dropNone"
           /\ channel[i].left > 0 => new.left = channel[i].left + 1
  BY <1>1, ReceiveKeeps
<1>3. UNCHANGED <<message, subscribers>>
  BY DEF Receive, broadcastVars
<1>4. /\ g \in Groups /\ channel[i].left \in Nat /\ new.left \in Nat /\ Newest(new) \in Nat
      /\ new.left \in Nat /\ Newest(channel[i]) \in Nat
  BY <1>1, <1>2, ChannelParts, NewestIs, ConfigTypes, TopicAssumption DEF SubscriberConfigs
<1>. HIDE DEF new
<1>5. CASE subscribers[g] = i
  <2>1. g \in Subscribed
    BY <1>1, <1>4, <1>5, TopicAssumption DEF Subscribed
  <2>2. /\ Subscribed' = Subscribed /\ Offered' = [Offered EXCEPT ![g] = Newest(new)]
        /\ LeftLasts' = [LeftLasts EXCEPT ![g] = new.left]
    BY <1>1, <1>3, <1>5, <2>1, OneGroupSees
  <2>3. Offered[g] = Newest(channel[i]) /\ LeftLasts[g] = channel[i].left
    BY <1>4, <1>5, <2>1 DEF Offered, LeftLasts
  <2>4. Offered' = Offered
    BY <1>2, <2>2, <2>3 DEF Offered
  <2>5. new.left \in LeftLasts[g] + 1 .. Offered[g]
    BY <1>2, <1>4, <2>3
  <2>6. g \in GroupsUsing({"dropNone"}) /\ LeftLasts[g] > 0 => new.left = LeftLasts[g] + 1
    <3>1. g \in GroupsUsing({"dropNone"}) => channel[i].config.policy = "dropNone"
      BY <1>5, <2>1, UsesPolicy
    <3>. QED  BY <1>1, <1>2, <2>3, <3>1 DEF Serves
  <2>. QED  BY <1>3, <1>4, <2>1, <2>2, <2>4, <2>5, <2>6, TakenOne
<1>6. CASE subscribers[g] # i
  <2>1. \A h \in Subscribed : subscribers[h] # i
    BY <1>1, <1>6 DEF TInv, MapInv, Serves
  <2>2. \A h \in Subscribed : subscribers[h] \in Channels
    BY MapTells DEF TInv
  <2>3. \A h \in Subscribed : channel'[subscribers[h]] = channel[subscribers[h]]
    BY <1>1, <2>1, <2>2 DEF TInv, TypeOK
  <2>. QED  BY <1>3, <2>3, NoGroupSees
<1>. QED  BY <1>5, <1>6

\* A new group is offered the last message at once; who joins a group changes nothing.
LEMMA SubscribeJoins ==
  ASSUME TInv, NEW k \in DOMAIN requests, HandleSubscribe(requests[k]),
         NEW r, r = requests[k], NEW g, g = r.config.group
  PROVE  (g \in Groups /\ PubSub!Join(g)) \/ UNCHANGED PubSub!vars
<1>0. TypeOK /\ bpc = "select" /\ UNCHANGED message
  BY Taken DEF TInv, HandleSubscribe
<1>1. g \in Groups /\ r.config \in SubscriberConfigs
  BY SubscribeHandled
<1>2. CASE subscribers[g] # None
  <2>1. subscribers' = [subscribers EXCEPT ![g] = subscribers[g]] /\ channel' = channel
    BY <1>2 DEF HandleSubscribe
  <2>2. subscribers' = subscribers
    BY <1>0, <1>1, <2>1 DEF TypeOK
  <2>. QED  BY <1>0, <2>1, <2>2, NoGroupSees
<1>3. ASSUME NEW i \in Unused, NEW new,
             new = [config |-> r.config, open |-> TRUE, buffer |-> Replay, left |-> 0],
             subscribers[g] = None, subscribers' = [subscribers EXCEPT ![g] = i],
             channel' = [channel EXCEPT ![i] = new]
      PROVE  PubSub!Join(g)
  <2>1. Newest(new) = message /\ new.left = 0
    <3>1. Newest(new) = last /\ new.left = 0
      BY <1>0, <1>1, <1>3, NewChannel
    <3>. QED  BY <3>1, BetweenBroadcasts DEF HandleSubscribe
  <2>2. i \in Channels /\ i # None /\ \A h \in Groups : subscribers[h] # i
    BY TopicAssumption DEF Unused
  <2>3. subscribers'[g] = i /\ \A h \in Groups \ {g} : subscribers'[h] = subscribers[h]
    BY <1>0, <1>1, <1>3 DEF TypeOK
  <2>4. channel'[i] = new /\ \A h \in Subscribed : channel'[subscribers[h]] = channel[subscribers[h]]
    BY <1>0, <1>3, <2>2, MapTells DEF TInv, TypeOK
  <2>5. g \notin Subscribed /\ Subscribed' = Subscribed \cup {g}
    BY <1>1, <1>3, <2>2, <2>3 DEF Subscribed
  <2>6. Offered' = [Offered EXCEPT ![g] = message]
    <3>1. Offered' = [h \in Groups |-> IF h \in Subscribed \cup {g}
                                       THEN Newest(channel'[subscribers'[h]]) ELSE 0]
      BY <2>5 DEF Offered, Newest
    <3>2. Offered' = [h \in Groups |-> IF h = g THEN message ELSE Offered[h]]
      BY <2>1, <2>3, <2>4, <2>5, <3>1 DEF Offered
    <3>. QED  BY <1>1, <3>2 DEF Offered
  <2>7. LeftLasts' = LeftLasts
    <3>1. LeftLasts' = [h \in Groups |-> IF h \in Subscribed \cup {g}
                                         THEN channel'[subscribers'[h]].left ELSE 0]
      BY <2>5 DEF LeftLasts
    <3>. QED  BY <2>1, <2>3, <2>4, <2>5, <3>1 DEF LeftLasts
  <2>. QED  BY <1>0, <1>1, <2>5, <2>6, <2>7, SettledBetween, JoinedOne
<1>4. CASE subscribers[g] = None
  <2>. DEFINE i == CHOOSE j \in Unused : TRUE
  <2>1. i \in Unused
    BY ChannelLeft
  <2>2. /\ subscribers' = [subscribers EXCEPT ![g] = i]
        /\ channel' = [channel EXCEPT ![i] = [config |-> r.config, open |-> TRUE,
                                              buffer |-> Replay, left |-> 0]]
    BY <1>4 DEF HandleSubscribe
  <2>. HIDE DEF i
  <2>. QED  BY <1>1, <1>3, <1>4, <2>1, <2>2
<1>. QED  BY <1>2, <1>4

\* The map loses the groups of G, and the channels that stay in it are as before.
LEMMA GroupsLeave ==
  ASSUME TInv, bpc = "select", NEW G \in SUBSET Groups, UNCHANGED message,
         \A g \in G : subscribers'[g] = None,
         \A g \in Groups \ G : subscribers'[g] = subscribers[g],
         \A g \in Subscribed \ G : channel'[subscribers[g]].buffer = channel[subscribers[g]].buffer
                                   /\ channel'[subscribers[g]].left = channel[subscribers[g]].left
  PROVE  PubSub!Leave(G)
<1>1. Subscribed' = Subscribed \ G
  BY DEF Subscribed
<1>2. Offered' = [g \in Groups |-> IF g \in G THEN 0 ELSE Offered[g]]
  <2>1. Offered' = [g \in Groups |-> IF g \in Subscribed \ G
                                     THEN Newest(channel'[subscribers[g]]) ELSE 0]
    BY <1>1 DEF Offered, Newest
  <2>2. \A g \in Subscribed \ G : Newest(channel'[subscribers[g]]) = Newest(channel[subscribers[g]])
    BY DEF Newest
  <2>. QED  BY <2>1, <2>2 DEF Offered
<1>3. LeftLasts' = [g \in Groups |-> IF g \in G THEN 0 ELSE LeftLasts[g]]
  BY <1>1 DEF LeftLasts
<1>. QED  BY <1>1, <1>2, <1>3, SettledBetween, LeftSome

\* Only the channel in the map takes its group along.
LEMMA UnsubscribeLeaves ==
  ASSUME TInv, NEW k \in DOMAIN requests, HandleUnsubscribe(requests[k])
  PROVE  (\E g \in Subscribed : PubSub!Leave({g})) \/ UNCHANGED PubSub!vars
<1>1. PICK r \in Requests : r = requests[k]
  BY Taken DEF TInv, HandleUnsubscribe
<1>2. /\ TypeOK /\ MapInv /\ bpc = "select" /\ UNCHANGED message /\ r.kind = "unsubscribe"
      /\ subscribers' = IF Matches(r) THEN Remaining(r) ELSE subscribers
      /\ channel' = IF Matches(r) THEN [channel EXCEPT ![r.channel].open = FALSE] ELSE channel
  BY <1>1 DEF TInv, HandleUnsubscribe, Handle
<1>3. r.group \in Groups /\ r.channel \in Channels /\ r.channel # None
  BY <1>2, RequestParts, TopicAssumption
<1>4. CASE Matches(r)
  <2>1. r.group \in Subscribed
    BY <1>3, <1>4 DEF Matches, Subscribed
  <2>2. /\ subscribers'[r.group] = None
        /\ \A g \in Groups \ {r.group} : subscribers'[g] = subscribers[g]
    BY <1>2, <1>3, <1>4 DEF Remaining, TypeOK
  <2>3. \A j \in Channels \ {r.channel} : channel'[j] = channel[j]
    BY <1>2, <1>3, <1>4 DEF TypeOK
  <2>4. \A g \in Subscribed \ {r.group} : subscribers[g] \in Channels \ {r.channel}
    BY <1>2, <1>4, <2>1, MapTells DEF Matches
  <2>5. PubSub!Leave({r.group})
    BY <1>2, <1>3, <2>2, <2>3, <2>4, GroupsLeave
  <2>. QED  BY <2>1, <2>5
<1>5. CASE ~Matches(r)
  BY <1>2, <1>5, NoGroupSees
<1>. QED  BY <1>4, <1>5

\* Closing the topic makes every group leave.
LEMMA HandleCloseLeaves ==
  ASSUME TInv, NEW k \in DOMAIN requests, HandleClose(requests[k])
  PROVE  PubSub!Leave(Subscribed)
<1>1. /\ bpc = "select" /\ UNCHANGED message /\ Subscribed \subseteq Groups
      /\ subscribers' = [g \in Groups |-> None]
  BY DEF HandleClose, Handle, Subscribed
<1>2. \A g \in Groups \ Subscribed : subscribers[g] = None
  BY DEF Subscribed
<1>. QED  BY <1>1, <1>2, GroupsLeave

\* The other steps of clients, closer and broadcaster are not seen by any group.
LEMMA OthersSeeNothing ==
  ASSUME \/ CloserStep \/ EndBroadcast \/ BroadcasterStops \/ UNCHANGED vars
         \/ \E c \in Clients : \/ Subscribe(c) \/ SendRequest(c) \/ TakeReply(c) \/ GiveUp(c)
                               \/ ReceiveClosed(c) \/ Unsubscribe(c)
  PROVE  UNCHANGED PubSub!vars
<1>1. UNCHANGED <<message, subscribers, channel>>
  BY DEF CloserStep, Close, SendClose, CloseChannels, EndBroadcast, BroadcasterStops, Subscribe,
         SendRequest, TakeReply, GiveUp, ReceiveClosed, Unsubscribe, vars, broadcastVars
<1>. QED  BY <1>1, NoGroupSees

-----------------------------------------------------------------------------
(* The refinement *)

LEMMA StepImplements ==
  ASSUME TInv, [Next]_vars
  PROVE  [PubSub!Next]_PubSub!vars
<1>1. CASE Publish
  BY <1>1, PublishPublishes DEF PubSub!Next
<1>2. ASSUME NEW g \in Groups, Deliver(g) PROVE [PubSub!Next]_PubSub!vars
  <2>1. g \in Subscribed
    BY <1>2, Delivered
  <2>. QED  BY <1>2, <2>1, DeliverOffers DEF PubSub!Next
<1>3. ASSUME NEW c \in Clients, Receive(c) PROVE [PubSub!Next]_PubSub!vars
  BY <1>3, ReceiveTakes DEF PubSub!Next
<1>4. ASSUME NEW k \in DOMAIN requests, HandleSubscribe(requests[k])
      PROVE  [PubSub!Next]_PubSub!vars
  BY <1>4, SubscribeJoins DEF PubSub!Next
<1>5. ASSUME NEW k \in DOMAIN requests, HandleUnsubscribe(requests[k])
      PROVE  [PubSub!Next]_PubSub!vars
  BY <1>5, UnsubscribeLeaves DEF PubSub!Next
<1>6. ASSUME NEW k \in DOMAIN requests, HandleClose(requests[k])
      PROVE  [PubSub!Next]_PubSub!vars
  BY <1>6, HandleCloseLeaves DEF PubSub!Next
<1>7. CASE \/ CloserStep \/ EndBroadcast \/ BroadcasterStops \/ UNCHANGED vars
           \/ \E c \in Clients : \/ Subscribe(c) \/ SendRequest(c) \/ TakeReply(c) \/ GiveUp(c)
                                 \/ ReceiveClosed(c) \/ Unsubscribe(c)
  BY <1>7, OthersSeeNothing
<1>. QED  BY <1>1, <1>2, <1>3, <1>4, <1>5, <1>6, <1>7
          DEF Next, BroadcasterStep, ClientStep, Terminated

LEMMA BeginsAsPubSub ==
  ASSUME Init
  PROVE  PubSub!Init
<1>1. message = 0 /\ Subscribed = {}
  BY DEF Init, Subscribed
<1>. QED  BY <1>1 DEF PubSub!Init, OfChannel

\* Every behaviour of a topic is one of PubSub: each group is given a growing part of what is
\* published, beginning with the last message from before it came, ending with the newest
\* unless it drops that, and whole with DropNone (broadcast_sync.go:17-137, buffer_policy.go).
THEOREM ImplementsPubSub == Spec => DeliversPublished
BY TopicInvariant, BeginsAsPubSub, StepImplements, PTL DEF Spec, DeliversPublished, PubSub!Spec
=============================================================================
