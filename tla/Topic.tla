------------------------------- MODULE Topic -------------------------------
(***************************************************************************)
(* One topic of package intracom: the clients that subscribe and           *)
(* unsubscribe, the publisher, the broadcaster goroutine that owns the      *)
(* subscriber map, and the goroutine that closes the topic.                *)
(*                                                                         *)
(* The request channel holds one request; the publish channel is           *)
(* unbuffered, so a publication is one step of publisher and broadcaster   *)
(* together; each subscriber has a buffered channel of its own, which the  *)
(* clients of one consumer group share.  A step ends where the goroutine   *)
(* blocks next.  Messages are numbered in the order they are published.    *)
(*                                                                         *)
(* Subscriber channels have a buffer of at least one.  A context that is    *)
(* done and the 2 second timer of Unsubscribe are the client giving up at  *)
(* any time.                                                               *)
(***************************************************************************)
EXTENDS Naturals, Sequences, FiniteSets

CONSTANTS
    Clients,            \* goroutines that use the topic
    Groups,             \* names of consumer groups
    Channels,           \* identities of subscriber channels
    Config,             \* Config[c]: the SubscriberConfig client c passes to Subscribe
    SubscriberAware,    \* TopicConfig.SubscriberAware
    MayClose,           \* the program closes the topic
    MaxMessages,        \* bound on the number of messages published
    None                \* no channel, no client, no reply

BufferPolicies == {"dropNone", "dropOldest", "dropNewest", "dropOldestAfterTimeout"}

ASSUME TopicAssumption ==
    /\ IsFiniteSet(Clients) /\ IsFiniteSet(Groups)
    /\ Config \in [Clients -> [group : Groups, policy : BufferPolicies,
                               size : Nat \ {0}, errIfExists : BOOLEAN]]
    /\ IsFiniteSet(Channels)
    /\ Cardinality(Channels) > Cardinality(Groups) + Cardinality(Clients) + 1
    /\ SubscriberAware \in BOOLEAN /\ MayClose \in BOOLEAN
    /\ MaxMessages \in Nat
    /\ None \notin Channels \cup Clients

VARIABLES
    pc,             \* pc[c]: where client c is
    mine,           \* mine[c]: the channel client c receives from, or None
    reply,          \* reply[c]: the content of the response channel c waits on
    requests,       \* the buffered content of requestC
    requestsOpen,   \* requestC is not closed
    publishOpen,    \* publishC is not closed
    closed,         \* topic.closed
    closer,         \* where the goroutine in Close is
    bpc,            \* where the broadcaster is
    receiving,      \* the broadcaster selects on publishC (recv # nil)
    subscribers,    \* the broadcaster's map: a channel for each group, or None
    channel,        \* channel[i]: who it was made for, its content, what left it last
    last,           \* lastMessage, 0 while haveReceived is false
    message,        \* the message being broadcast
    pending,        \* the groups it still has to be sent to
    crashed         \* a goroutine has panicked

clientVars == <<pc, mine, reply>>
closeVars == <<requestsOpen, publishOpen, closed, closer>>
broadcastVars == <<bpc, receiving, subscribers, last, message, pending>>
vars == <<clientVars, requests, closeVars, broadcastVars, channel, crashed>>

\* Requests carry the client that waits for the response, None if it gave up.
SubscribeRequest(c) == [kind |-> "subscribe", from |-> c, config |-> Config[c]]
UnsubscribeRequest(c) ==
    [kind |-> "unsubscribe", from |-> c, group |-> Config[c].group, channel |-> mine[c]]
CloseRequest == [kind |-> "close", from |-> None]

\* What a response channel holds.
Reply(ok, i) == [ok |-> ok, channel |-> i]

UnusedChannel == [config |-> None, open |-> FALSE, buffer |-> <<>>, left |-> 0]

Goto(c, label) == pc' = [pc EXCEPT ![c] = label]

Init ==
    /\ pc = [c \in Clients |-> "idle"]
    /\ mine = [c \in Clients |-> None]
    /\ reply = [c \in Clients |-> None]
    /\ requests = <<>>
    /\ requestsOpen = TRUE /\ publishOpen = TRUE
    /\ closed = FALSE /\ closer = "idle"
    /\ bpc = "select"
    /\ receiving = ~SubscriberAware
    /\ subscribers = [g \in Groups |-> None]
    /\ channel = [i \in Channels |-> UnusedChannel]
    /\ last = 0 /\ message = 0 /\ pending = {}
    /\ crashed = FALSE

-----------------------------------------------------------------------------
(* Clients: topic.Subscribe, topic.Unsubscribe and receiving *)

\* The closed flag is read first; the request is sent later.
Subscribe(c) ==
    /\ pc[c] = "idle" /\ ~closed
    /\ Goto(c, "subscribing")
    /\ UNCHANGED <<mine, reply, requests, closeVars, broadcastVars, channel, crashed>>

\* A request can be sent when requestC has room; on a closed channel the send panics.
SendRequest(c) ==
    /\ pc[c] \in {"subscribing", "unsubscribing"}
    /\ IF requestsOpen
       THEN /\ requests = <<>>
            /\ requests' = <<IF pc[c] = "subscribing" THEN SubscribeRequest(c)
                                                      ELSE UnsubscribeRequest(c)>>
            /\ Goto(c, IF pc[c] = "subscribing" THEN "subscribeSent" ELSE "unsubscribeSent")
            /\ UNCHANGED crashed
       ELSE crashed' = TRUE /\ UNCHANGED <<pc, requests>>
    /\ UNCHANGED <<mine, reply, closeVars, broadcastVars, channel>>

\* The response of the broadcaster; an error leaves the client without a channel.
TakeReply(c) ==
    /\ pc[c] \in {"subscribeSent", "unsubscribeSent"}
    /\ reply[c] # None
    /\ IF pc[c] = "subscribeSent" /\ reply[c].ok
       THEN mine' = [mine EXCEPT ![c] = reply[c].channel] /\ Goto(c, "subscribed")
       ELSE mine' = [mine EXCEPT ![c] = None] /\ Goto(c, "idle")
    /\ reply' = [reply EXCEPT ![c] = None]
    /\ UNCHANGED <<requests, closeVars, broadcastVars, channel, crashed>>

\* The context is done or the 2 seconds are over: the client goes on with an error.
\* What it requested may still happen, and nobody will read the response.
GiveUp(c) ==
    /\ pc[c] \in {"subscribing", "subscribeSent", "unsubscribing", "unsubscribeSent"}
    /\ Goto(c, "idle")
    /\ mine' = [mine EXCEPT ![c] = None]
    /\ reply' = [reply EXCEPT ![c] = None]
    /\ requests' = [k \in DOMAIN requests |->
                      IF requests[k].from = c THEN [requests[k] EXCEPT !.from = None]
                                              ELSE requests[k]]
    /\ UNCHANGED <<closeVars, broadcastVars, channel, crashed>>

Receive(c) ==
    /\ pc[c] = "subscribed"
    /\ channel[mine[c]].buffer # <<>>
    /\ channel' = [channel EXCEPT ![mine[c]].buffer = Tail(@),
                                  ![mine[c]].left = Head(channel[mine[c]].buffer)]
    /\ UNCHANGED <<clientVars, requests, closeVars, broadcastVars, crashed>>

\* The client finds its channel closed and drained.
ReceiveClosed(c) ==
    /\ pc[c] = "subscribed"
    /\ channel[mine[c]].buffer = <<>> /\ ~channel[mine[c]].open
    /\ Goto(c, "idle")
    /\ mine' = [mine EXCEPT ![c] = None]
    /\ UNCHANGED <<reply, requests, closeVars, broadcastVars, channel, crashed>>

\* On a closed topic Unsubscribe only returns an error.
Unsubscribe(c) ==
    /\ pc[c] = "subscribed"
    /\ Goto(c, IF closed THEN "idle" ELSE "unsubscribing")
    /\ mine' = IF closed THEN [mine EXCEPT ![c] = None] ELSE mine
    /\ UNCHANGED <<reply, requests, closeVars, broadcastVars, channel, crashed>>

-----------------------------------------------------------------------------
(* topic.Close *)

Close ==
    /\ MayClose /\ ~closed
    /\ closed' = TRUE
    /\ closer' = "sending"
    /\ UNCHANGED <<clientVars, requests, requestsOpen, publishOpen, broadcastVars,
                 channel, crashed>>

\* A defect: requestC has room for more than one request.
SendCloseQueued ==
    /\ closer = "sending"
    /\ requests' = Append(requests, CloseRequest)
    /\ closer' = "sent"
    /\ UNCHANGED <<clientVars, requestsOpen, publishOpen, closed, broadcastVars,
                 channel, crashed>>

SendClose ==
    /\ closer = "sending"
    /\ requests = <<>>
    /\ requests' = <<CloseRequest>>
    /\ closer' = "sent"
    /\ UNCHANGED <<clientVars, requestsOpen, publishOpen, closed, broadcastVars,
                 channel, crashed>>

CloseChannels ==
    /\ closer = "replied"
    /\ requestsOpen' = FALSE /\ publishOpen' = FALSE
    /\ closer' = "done"
    /\ UNCHANGED <<clientVars, requests, closed, broadcastVars, channel, crashed>>

-----------------------------------------------------------------------------
(* The broadcaster *)

Subscribed == {g \in Groups : subscribers[g] # None}

\* A message passes through publishC.  Publishers stop before the topic is closed.
Publish ==
    /\ bpc = "select" /\ receiving
    /\ ~closed
    /\ last < MaxMessages
    /\ message' = last + 1
    /\ pending' = Subscribed
    /\ bpc' = "sending"
    /\ UNCHANGED <<clientVars, requests, closeVars, receiving, subscribers, last,
                 channel, crashed>>

\* What DropOldest leaves in a channel before it sends: it takes one out, full or not.
Drained(ch) ==
    IF ch.config.policy = "dropOldest" /\ ch.buffer # <<>> THEN Tail(ch.buffer) ELSE ch.buffer

\* The buffer of a subscriber after BufferPolicy.Handle with message m, which is dropped
\* when there is no room.  dropNewest stands for DropNewestAfterTimeout as well: how
\* long Deliver waits before it drops is not told apart.
Handled(ch, m) ==
    IF Len(Drained(ch)) < ch.config.size THEN Append(Drained(ch), m) ELSE Drained(ch)

\* A send that has to wait for the subscriber to receive.
Blocked(ch) == ch.config.policy = "dropNone" /\ Len(ch.buffer) = ch.config.size

\* subscriber.Send for one group.  newSubscriber stores no policy at all when it is
\* given DropOldestAfterTimeout, so the call through it panics.
Deliver(g) ==
    LET i == subscribers[g] IN
    /\ bpc = "sending" /\ g \in pending
    /\ ~Blocked(channel[i])
    /\ pending' = pending \ {g}
    /\ IF channel[i].config.policy = "dropOldestAfterTimeout"
       THEN crashed' = TRUE /\ UNCHANGED channel
       ELSE /\ channel' = [channel EXCEPT ![i].buffer = Handled(channel[i], message)]
            /\ UNCHANGED crashed
    /\ UNCHANGED <<clientVars, requests, closeVars, bpc, receiving, subscribers, last, message>>

\* Every subscriber has been served: remember the message and select again.
EndBroadcast ==
    /\ bpc = "sending" /\ pending = {}
    /\ last' = message
    /\ bpc' = "select"
    /\ UNCHANGED <<clientVars, requests, closeVars, receiving, subscribers, message,
                 pending, channel, crashed>>

\* A defect: an error is not sent back.
RespondSuccess(r, ok, i) ==
    reply' = IF r.from = None \/ ~ok THEN reply ELSE [reply EXCEPT ![r.from] = Reply(ok, i)]

\* The response goes to the client that waits for it, if it still does.
Respond(r, ok, i) ==
    reply' = IF r.from = None THEN reply ELSE [reply EXCEPT ![r.from] = Reply(ok, i)]

\* A channel that nobody holds stands for the one newSubscriber makes.
Unused == {i \in Channels :
             /\ \A g \in Groups : subscribers[g] # i
             /\ \A c \in Clients : mine[c] # i /\ (reply[c] # None => reply[c].channel # i)
             /\ \A k \in DOMAIN requests :
                  requests[k].kind = "unsubscribe" => requests[k].channel # i}

\* A defect: requests are handled by a goroutine of their own, during a broadcast too.
HandleAnyTime(r) ==
    bpc # "stopped" /\ requests # <<>> /\ r = Head(requests) /\ requests' = Tail(requests)

Handle(r) ==
    bpc = "select" /\ requests # <<>> /\ r = Head(requests) /\ requests' = Tail(requests)

\* A defect: a new subscriber does not get the last message.
NoReplay == <<>>

\* What a new subscriber finds in its channel.
Replay == IF last > 0 THEN <<last>> ELSE <<>>

HandleSubscribe(r) ==
    LET g == r.config.group
        exists == subscribers[g] # None
        i == IF exists THEN subscribers[g] ELSE CHOOSE j \in Unused : TRUE
        refused == exists /\ r.config.errIfExists
    IN
    /\ Handle(r) /\ r.kind = "subscribe"
    /\ subscribers' = [subscribers EXCEPT ![g] = i]
    /\ channel' = IF exists THEN channel
                  ELSE [channel EXCEPT ![i] = [config |-> r.config, open |-> TRUE,
                                               buffer |-> Replay, left |-> 0]]
    /\ Respond(r, ~refused, i)
    /\ receiving' = (receiving \/ (SubscriberAware /\ ~refused))
    /\ UNCHANGED <<pc, mine, closeVars, bpc, last, message, pending, crashed>>

\* Three defects: any channel unsubscribes its group, the entry stays in the map, a
\* SubscriberAware topic does not pause.
MatchesAny(r) == subscribers[r.group] # None
RemainingAll(r) == subscribers
NeverLastGroup(r) == FALSE

\* Only the channel that is in the map can be unsubscribed.
Matches(r) == subscribers[r.group] = r.channel

\* The map without the group that unsubscribes.
Remaining(r) == [subscribers EXCEPT ![r.group] = None]

\* No other group is left.
LastGroup(r) == Subscribed \subseteq {r.group}

\* A group that does not exist is unsubscribed without an error.
HandleUnsubscribe(r) ==
    LET answered == subscribers[r.group] = None \/ Matches(r) IN
    /\ Handle(r) /\ r.kind = "unsubscribe"
    /\ subscribers' = IF Matches(r) THEN Remaining(r) ELSE subscribers
    /\ channel' = IF Matches(r) THEN [channel EXCEPT ![r.channel].open = FALSE] ELSE channel
    /\ Respond(r, answered, None)
    /\ receiving' = (receiving /\ ~(SubscriberAware /\ answered /\ LastGroup(r)))
    /\ UNCHANGED <<pc, mine, closeVars, bpc, last, message, pending, crashed>>

\* A defect: Close waits for the subscribers to leave.
HandleCloseWaits(r) ==
    /\ bpc = "select" /\ r.kind = "close"
    /\ requests' = IF Subscribed = {} THEN <<>> ELSE requests
    /\ closer' = IF Subscribed = {} THEN "replied" ELSE closer
    /\ UNCHANGED <<clientVars, requestsOpen, publishOpen, closed, broadcastVars,
                 channel, crashed>>

HandleClose(r) ==
    /\ Handle(r) /\ r.kind = "close"
    /\ receiving' = FALSE
    /\ subscribers' = [g \in Groups |-> None]
    /\ channel' = [i \in Channels |->
                     [channel[i] EXCEPT !.open = @ /\ \A g \in Groups : subscribers[g] # i]]
    /\ closer' = "replied"
    /\ UNCHANGED <<clientVars, requestsOpen, publishOpen, closed, bpc, last, message,
                 pending, crashed>>

\* The broadcaster finds one of its channels closed (and requestC drained).
BroadcasterStops ==
    /\ bpc = "select"
    /\ (~requestsOpen /\ requests = <<>>) \/ (receiving /\ ~publishOpen)
    /\ bpc' = "stopped"
    /\ UNCHANGED <<clientVars, requests, closeVars, receiving, subscribers, last,
                 message, pending,
                   channel, crashed>>

-----------------------------------------------------------------------------

ClientStep(c) ==
    \/ Subscribe(c) \/ SendRequest(c) \/ TakeReply(c) \/ GiveUp(c)
    \/ Receive(c) \/ ReceiveClosed(c) \/ Unsubscribe(c)

CloserStep == Close \/ SendClose \/ CloseChannels

BroadcasterStep ==
    \/ Publish \/ EndBroadcast \/ BroadcasterStops
    \/ \E g \in Groups : Deliver(g)
    \/ \E k \in DOMAIN requests :
         HandleSubscribe(requests[k]) \/ HandleUnsubscribe(requests[k]) \/ HandleClose(requests[k])

\* The topic is closed, or a panic has ended the process.
Terminated == (crashed \/ closer = "done") /\ UNCHANGED vars

Next ==
    \/ ~crashed /\ (CloserStep \/ BroadcasterStep \/ \E c \in Clients : ClientStep(c))
    \/ Terminated

Spec == Init /\ [][Next]_vars

(***************************************************************************)
(* Fairness: the broadcaster, the closer and a client with something to    *)
(* send or to take are goroutines that run; senders blocked on requestC    *)
(* are served in turn, hence strong fairness for sending.  A subscriber    *)
(* keeps receiving (FairReceivers) only where a property says so.  Nothing *)
(* makes a client subscribe, give up or unsubscribe, or a program close.   *)
(***************************************************************************)
Fairness ==
    /\ WF_vars(~crashed /\ BroadcasterStep)
    /\ SF_vars(~crashed /\ SendClose) /\ WF_vars(~crashed /\ CloseChannels)
    /\ \A c \in Clients : /\ SF_vars(~crashed /\ SendRequest(c))
                          /\ WF_vars(~crashed /\ TakeReply(c))

FairReceivers ==
    \A c \in Clients : WF_vars(~crashed /\ (Receive(c) \/ ReceiveClosed(c)))

FairSpec == Spec /\ Fairness
FairReceiversSpec == FairSpec /\ FairReceivers

-----------------------------------------------------------------------------
(* Safety *)

SubscriberConfigs == {Config[c] : c \in Clients}

Requests ==
    [kind : {"subscribe"}, from : Clients \cup {None}, config : SubscriberConfigs]
    \cup [kind : {"unsubscribe"}, from : Clients \cup {None}, group : Groups, channel : Channels]
    \cup {CloseRequest}

TypeOK ==
    /\ pc \in [Clients -> {"idle", "subscribing", "subscribeSent", "subscribed",
                           "unsubscribing", "unsubscribeSent"}]
    /\ mine \in [Clients -> Channels \cup {None}]
    /\ reply \in [Clients -> [ok : BOOLEAN, channel : Channels \cup {None}] \cup {None}]
    /\ requests \in Seq(Requests) /\ Len(requests) <= 1
    /\ requestsOpen \in BOOLEAN /\ publishOpen \in BOOLEAN /\ closed \in BOOLEAN
    /\ closer \in {"idle", "sending", "sent", "replied", "done"}
    /\ bpc \in {"select", "sending", "stopped"}
    /\ receiving \in BOOLEAN
    /\ subscribers \in [Groups -> Channels \cup {None}]
    /\ channel \in [Channels -> [config : SubscriberConfigs \cup {None}, open : BOOLEAN,
                                 buffer : Seq(1 .. MaxMessages), left : 0 .. MaxMessages]]
    /\ last \in 0 .. MaxMessages /\ message \in 0 .. MaxMessages
    /\ pending \subseteq Groups
    /\ crashed \in BOOLEAN

\* The broadcaster's map holds exactly the open channels, one per group, and each
\* was made for its group: no send meets a closed channel, none is leaked open.
MapHoldsOpenChannels ==
    /\ \A g \in Subscribed : /\ channel[subscribers[g]].open
                             /\ channel[subscribers[g]].config.group = g
    /\ \A g, h \in Subscribed : subscribers[g] = subscribers[h] => g = h
    /\ \A i \in Channels : channel[i].open => \E g \in Groups : subscribers[g] = i

\* A client that believes it is subscribed receives from a channel of its own group,
\* and that channel is the group's or is closed: a client is never left receiving
\* from a channel that is open but gets no messages.
ReceiversAreServed ==
    \A c \in Clients :
        pc[c] = "subscribed" =>
            /\ channel[mine[c]].config.group = Config[c].group
            /\ channel[mine[c]].open => subscribers[Config[c].group] = mine[c]

\* A SubscriberAware broadcaster takes messages exactly while it has subscribers, and
\* goes on when one comes back after the last one left (topic.go:46).
PausedWithoutSubscribers == SubscriberAware => (receiving <=> Subscribed # {})

\* The policies under which a message is never refused.
KeepsNewest == {"dropNone", "dropOldest"}

\* The newest number a channel has been given.
Newest(ch) == IF ch.buffer = <<>> THEN ch.left ELSE ch.buffer[Len(ch.buffer)]

\* Between two broadcasts every DropNone and DropOldest subscriber, late ones
\* included, has been given the last message: dropping never costs the newest state.
\* The watchers of rxd count on it (service_context.go:170-175).
LatestHeld ==
    bpc # "sending" /\ last > 0 =>
        \A g \in Subscribed :
            LET ch == channel[subscribers[g]] IN
            ch.config.policy \in KeepsNewest => Newest(ch) = last

-----------------------------------------------------------------------------
(* The abstract specification *)

\* The groups whose subscribers all use one of the policies given.
GroupsUsing(policies) ==
    {g \in Groups : \A c \in Clients : Config[c].group = g => Config[c].policy \in policies}

\* What is under way in the channel of group g, 0 without one.
OfChannel(g, Value(_)) == IF g \in Subscribed THEN Value(channel[subscribers[g]]) ELSE 0
LeftLast(ch) == ch.left

PubSub == INSTANCE PubSub WITH
        Reliable <- GroupsUsing(KeepsNewest),
        Lossless <- GroupsUsing({"dropNone"}),
        published <- message,
        members <- Subscribed,
        offered <- [g \in Groups |-> OfChannel(g, Newest)],
        taken <- [g \in Groups |-> OfChannel(g, LeftLast)]

\* A topic is a PubSub: its channels, requests, buffers and policies show each group a
\* growing part of what is published, beginning with the last message from before,
\* ending with the newest, and whole for DropNone (broadcast_sync.go:17-137).
DeliversPublished == PubSub!Spec

-----------------------------------------------------------------------------
(* Liveness *)

\* Subscribe and Unsubscribe are answered as long as subscribers receive.
RequestsAnswered ==
    \A c \in Clients :
        pc[c] \in {"subscribeSent", "unsubscribeSent"} ~>
            pc[c] \notin {"subscribeSent", "unsubscribeSent"} \/ crashed

\* A subscriber that keeps receiving gets the last message, or leaves, or loses its
\* channel: also one that came late, or that shares its channel.
CatchesUp ==
    \A c \in Clients :
        (/\ pc[c] = "subscribed" /\ last = MaxMessages
         /\ channel[mine[c]].open /\ channel[mine[c]].config.policy \in KeepsNewest) ~>
            \/ pc[c] # "subscribed"
            \/ channel[mine[c]].left = MaxMessages
            \/ crashed

\* Close returns, while clients still request and receive.
CloseCompletes == (closer = "sending") ~> (closer = "done" \/ crashed)

-----------------------------------------------------------------------------
(* What comments of the code say, and the code does not do *)

\* "The intracom registry, topic, subscriptions are thread-safe and can be used
\* concurrently." (intracom.go:4): no use of a topic by several goroutines panics.
NoPanic == ~crashed
=============================================================================
