---------------------------- MODULE TopicProofs -----------------------------
(***************************************************************************)
(* Proofs about Topic, for any clients, groups, policies, buffer sizes and *)
(* any number of messages: types, that the broadcaster's map holds the     *)
(* open channels, that no client is left on a channel that gets nothing,   *)
(* that the newest message reaches every subscriber that does not drop it, *)
(* and when a topic pauses.                                                *)
(***************************************************************************)
EXTENDS Topic, FiniteSetTheorems, SequenceTheorems, TLAPS

(***************************************************************************)
(* The inductive invariant                                                 *)
(***************************************************************************)

ChannelStates == [config : SubscriberConfigs \cup {None}, open : BOOLEAN,
                  buffer : Seq(1 .. MaxMessages), left : 0 .. MaxMessages]

\* A channel holds messages newer than the one that left it last, oldest first.
Ordered(ch) ==
    /\ \A k \in DOMAIN ch.buffer : ch.left < ch.buffer[k]
    /\ \A j, k \in DOMAIN ch.buffer : j < k => ch.buffer[j] < ch.buffer[k]

\* With DropNone no number is missing.
Whole(ch) ==
    ch.config \in SubscriberConfigs /\ ch.config.policy = "dropNone" =>
        /\ \A k \in DOMAIN ch.buffer : k > 1 => ch.buffer[k] = ch.buffer[k - 1] + 1
        /\ ch.left > 0 /\ ch.buffer # <<>> => ch.buffer[1] = ch.left + 1

Fits(ch) == ch.config \in SubscriberConfigs => Len(ch.buffer) <= ch.config.size

Queue(ch) == Ordered(ch) /\ Whole(ch) /\ Fits(ch)

\* A client has a channel from the answer it takes to the end of its Unsubscribe, and
\* waits for one response at a time.
ClientInv(c) ==
    /\ mine[c] # None <=> pc[c] \in {"subscribed", "unsubscribing", "unsubscribeSent"}
    /\ reply[c] # None =>
         /\ pc[c] \in {"subscribeSent", "unsubscribeSent"}
         /\ pc[c] = "unsubscribeSent" => reply[c].channel = None

\* The request in requestC is from a client that waits for the response to it.
RequestInv ==
    \A k \in DOMAIN requests :
        LET r == requests[k] IN
        r.from # None => /\ reply[r.from] = None
                         /\ pc[r.from] = (IF r.kind = "subscribe" THEN "subscribeSent"
                                                                  ELSE "unsubscribeSent")
                         /\ r.kind = "subscribe" => r.config = Config[r.from]

\* Channel i was made for group g, and while it is open the map has it under g.
Serves(i, g) ==
    /\ channel[i].config \in SubscriberConfigs /\ channel[i].config.group = g
    /\ channel[i].open => subscribers[g] = i

\* The channels clients receive from, and those they are about to be given.
Served(c) ==
    /\ mine[c] # None => Serves(mine[c], Config[c].group)
    /\ pc[c] = "subscribeSent" /\ reply[c] # None /\ reply[c].ok =>
         reply[c].channel \in Channels /\ Serves(reply[c].channel, Config[c].group)

MapInv ==
    /\ \A g \in Subscribed : /\ channel[subscribers[g]].open
                             /\ channel[subscribers[g]].config \in SubscriberConfigs
                             /\ channel[subscribers[g]].config.group = g
    /\ \A i \in Channels : channel[i].open => \E g \in Groups : subscribers[g] = i

\* A message is on its way from the publication to the end of the broadcast.
BroadcastInv ==
    /\ message = (IF bpc = "sending" THEN last + 1 ELSE last)
    /\ pending \subseteq Subscribed
    /\ bpc # "sending" => pending = {}

\* What a group has been given: all of it before its turn in a broadcast and after.
GivenInv ==
    \A g \in Subscribed :
        LET ch == channel[subscribers[g]]
            current == IF g \in pending THEN last ELSE message
        IN /\ Newest(ch) <= current
           /\ ch.config.policy \in KeepsNewest => Newest(ch) = current

TInv ==
    /\ TypeOK /\ RequestInv /\ MapInv /\ PausedWithoutSubscribers /\ BroadcastInv /\ GivenInv
    /\ \A c \in Clients : ClientInv(c) /\ Served(c)
    /\ \A i \in Channels : Queue(channel[i])

-----------------------------------------------------------------------------
(* Channels *)

LEMMA ConfigTypes ==
  ASSUME NEW cfg \in SubscriberConfigs
  PROVE  /\ cfg \in [group : Groups, policy : BufferPolicies, size : Nat \ {0},
                     errIfExists : BOOLEAN]
         /\ cfg.group \in Groups /\ cfg.policy \in BufferPolicies
         /\ cfg.size \in Nat /\ cfg.size > 0
<1>1. PICK c \in Clients : cfg = Config[c]
  BY DEF SubscriberConfigs
<1>. QED  BY <1>1, TopicAssumption

LEMMA ChannelParts ==
  ASSUME NEW ch \in ChannelStates
  PROVE  /\ ch.config \in SubscriberConfigs \cup {None} /\ ch.open \in BOOLEAN
         /\ ch.buffer \in Seq(1 .. MaxMessages) /\ ch.left \in 0 .. MaxMessages
BY DEF ChannelStates

LEMMA TailOf ==
  ASSUME NEW S, NEW q \in Seq(S), q # <<>>
  PROVE  /\ Len(q) \in Nat /\ Len(q) > 0 /\ DOMAIN q = 1 .. Len(q)
         /\ \A k \in 1 .. Len(q) : q[k] \in S
         /\ Head(q) = q[1] /\ Tail(q) \in Seq(S) /\ Len(Tail(q)) = Len(q) - 1
         /\ DOMAIN Tail(q) = 1 .. Len(q) - 1
         /\ \A k \in 1 .. Len(q) - 1 : Tail(q)[k] = q[k + 1]
BY HeadTailProperties, EmptySeq

LEMMA NewestIs ==
  ASSUME NEW ch \in ChannelStates
  PROVE  Newest(ch) \in 0 .. MaxMessages
BY TopicAssumption DEF Newest, ChannelStates

\* The newest message of a channel is at least every other one and the last one taken.
LEMMA NewestIsGreatest ==
  ASSUME NEW ch \in ChannelStates, Ordered(ch)
  PROVE  /\ ch.left <= Newest(ch)
         /\ \A k \in DOMAIN ch.buffer : ch.buffer[k] <= Newest(ch)
<1>. DEFINE n == Len(ch.buffer)
<1>1. ch.buffer \in Seq(Nat) /\ ch.left \in Nat /\ n \in Nat /\ DOMAIN ch.buffer = 1 .. n
  BY TopicAssumption DEF ChannelStates
<1>2. CASE n = 0
  BY <1>1, <1>2, EmptySeq DEF Newest
<1>3. CASE n > 0
  <2>1. Newest(ch) = ch.buffer[n] /\ n \in DOMAIN ch.buffer
    BY <1>1, <1>3, EmptySeq DEF Newest
  <2>2. ASSUME NEW k \in DOMAIN ch.buffer PROVE ch.buffer[k] <= ch.buffer[n]
    <3>1. k = n \/ k < n
      BY <1>1
    <3>2. ch.buffer[k] \in Nat /\ ch.buffer[n] \in Nat
      BY <1>1, <2>1
    <3>. QED  BY <3>1, <3>2, <2>1 DEF Ordered
  <2>3. ch.left < ch.buffer[n] /\ ch.buffer[n] \in Nat
    BY <1>1, <2>1 DEF Ordered
  <2>. QED  BY <1>1, <2>1, <2>2, <2>3
<1>. QED  BY <1>1, <1>2, <1>3

\* Receiving takes the oldest message and keeps the newest.
LEMMA ReceiveKeeps ==
  ASSUME NEW ch \in ChannelStates, ch.buffer # <<>>, Queue(ch),
         NEW new, new = [ch EXCEPT !.buffer = Tail(ch.buffer), !.left = Head(ch.buffer)]
  PROVE  /\ new \in ChannelStates /\ Queue(new) /\ Newest(new) = Newest(ch)
         /\ new.config = ch.config /\ new.open = ch.open
         /\ ch.left < new.left /\ new.left <= Newest(ch)
         /\ ch.config \in SubscriberConfigs /\ ch.config.policy = "dropNone" /\ ch.left > 0 =>
              new.left = ch.left + 1
<1>. DEFINE n == Len(ch.buffer)
<1>1. /\ ch.buffer \in Seq(1 .. MaxMessages) /\ n \in Nat /\ n > 0 /\ DOMAIN ch.buffer = 1 .. n
      /\ \A k \in 1 .. n : ch.buffer[k] \in 1 .. MaxMessages
  BY TailOf, ChannelParts
<1>2. /\ Head(ch.buffer) = ch.buffer[1]
      /\ Tail(ch.buffer) \in Seq(1 .. MaxMessages) /\ Len(Tail(ch.buffer)) = n - 1
      /\ DOMAIN Tail(ch.buffer) = 1 .. n - 1
      /\ \A k \in 1 .. n - 1 : Tail(ch.buffer)[k] = ch.buffer[k + 1]
  BY TailOf, ChannelParts
<1>3. /\ new \in ChannelStates /\ new.config = ch.config /\ new.open = ch.open
      /\ new.buffer = Tail(ch.buffer) /\ new.left = ch.buffer[1]
  <2>1. Tail(ch.buffer) \in Seq(1 .. MaxMessages) /\ Head(ch.buffer) \in 0 .. MaxMessages
    BY <1>1, <1>2, TopicAssumption
  <2>. HIDE <1>1, <1>2
  <2>. QED  BY <2>1, <1>2 DEF ChannelStates
<1>shift. DOMAIN new.buffer = 1 .. n - 1 /\ \A k \in 1 .. n - 1 : new.buffer[k] = ch.buffer[k + 1]
  BY <1>2, <1>3
<1>4. Ordered(new)
  <2>1. \A j, k \in 1 .. n : j < k => ch.buffer[j] < ch.buffer[k]
    BY <1>1 DEF Queue, Ordered
  <2>2. \A k \in 1 .. n - 1 : 1 < k + 1 /\ k + 1 \in 1 .. n /\ 1 \in 1 .. n
    BY <1>1
  <2>3. \A k \in DOMAIN new.buffer : new.left < new.buffer[k]
    BY <2>1, <2>2, <1>3, <1>shift
  <2>4. \A j, k \in 1 .. n - 1 : j < k => j + 1 < k + 1
    BY <1>1
  <2>5. \A j, k \in DOMAIN new.buffer : j < k => new.buffer[j] < new.buffer[k]
    BY <2>1, <2>2, <2>4, <1>shift
  <2>. QED  BY <2>3, <2>5 DEF Ordered
<1>5. Whole(new)
  <2>. SUFFICES ASSUME new.config \in SubscriberConfigs, new.config.policy = "dropNone"
                PROVE  /\ \A k \in DOMAIN new.buffer :
                            k > 1 => new.buffer[k] = new.buffer[k - 1] + 1
                       /\ new.buffer # <<>> => new.buffer[1] = new.left + 1
    BY DEF Whole
  <2>1. \A k \in DOMAIN ch.buffer : k > 1 => ch.buffer[k] = ch.buffer[k - 1] + 1
    BY <1>3 DEF Queue, Whole
  <2>2. ASSUME NEW k \in DOMAIN new.buffer, k > 1
        PROVE  new.buffer[k] = new.buffer[k - 1] + 1
    <3>1. k - 1 \in 1 .. n - 1 /\ k \in 1 .. n - 1 /\ k + 1 \in DOMAIN ch.buffer /\ k + 1 - 1 = k
      BY <2>2, <1>1, <1>shift
    <3>2. new.buffer[k] = ch.buffer[k + 1] /\ new.buffer[k - 1] = ch.buffer[k]
      BY <3>1, <1>shift
    <3>3. k + 1 > 1
      BY <3>1, <1>1
    <3>4. ch.buffer[k + 1] = ch.buffer[k + 1 - 1] + 1
      BY <2>1, <3>1, <3>3
    <3>. QED  BY <3>1, <3>2, <3>4
  <2>3. new.buffer # <<>> => 2 \in 1 .. n
    BY <1>1, <1>2, <1>3, EmptySeq
  <2>4. new.buffer # <<>> => new.buffer[1] = ch.buffer[2]
    BY <2>3, <1>1, <1>2, <1>3
  <2>. QED  BY <2>1, <2>2, <2>3, <2>4, <1>1, <1>3
<1>6. Fits(new)
  <2>1. SUFFICES ASSUME ch.config \in SubscriberConfigs PROVE n - 1 <= ch.config.size
    BY <1>2, <1>3 DEF Fits
  <2>2. n <= ch.config.size /\ ch.config.size \in Nat
    BY <2>1, ConfigTypes DEF Queue, Fits
  <2>. QED  BY <1>1, <2>2
<1>7. Newest(new) = Newest(ch)
  <2>1. CASE n = 1
    <3>1. new.buffer = <<>>
      BY <2>1, <1>2, <1>3, EmptySeq
    <3>. QED  BY <2>1, <3>1, <1>3 DEF Newest
  <2>2. CASE n > 1
    <3>1. /\ new.buffer # <<>> /\ n - 1 \in 1 .. n - 1 /\ n - 1 + 1 = n
          /\ Len(new.buffer) = n - 1
      BY <2>2, <1>1, <1>2, <1>3, EmptySeq
    <3>2. new.buffer[n - 1] = ch.buffer[n]
      BY <3>1, <1>shift
    <3>. QED  BY <3>1, <3>2 DEF Newest
  <2>3. n = 1 \/ n > 1
    <3>1. n \in Nat /\ n > 0
      BY <1>1
    <3>. HIDE DEF n
    <3>. QED  BY <3>1
  <2>. QED  BY <2>1, <2>2, <2>3
<1>8. ch.left < new.left /\ new.left <= Newest(ch)
  <2>1. Ordered(ch) /\ 1 \in DOMAIN ch.buffer
    BY <1>1 DEF Queue
  <2>2. ch.left < ch.buffer[1]
    BY <2>1 DEF Ordered
  <2>3. ch.buffer[1] <= Newest(ch)
    BY <2>1, NewestIsGreatest
  <2>. QED  BY <1>3, <2>2, <2>3
<1>9. ch.config \in SubscriberConfigs /\ ch.config.policy = "dropNone" /\ ch.left > 0 =>
        new.left = ch.left + 1
  BY <1>3 DEF Queue, Whole
<1>. QED  BY <1>3, <1>4, <1>5, <1>6, <1>7, <1>8, <1>9 DEF Queue

\* What a full or draining channel can take: every policy that never refuses has room.
LEMMA Room ==
  ASSUME NEW ch \in ChannelStates, Queue(ch), ch.config \in SubscriberConfigs
  PROVE  /\ Drained(ch) \in Seq(1 .. MaxMessages)
         /\ \A k \in 1 .. Len(Drained(ch)) :
              ch.left < Drained(ch)[k] /\ Drained(ch)[k] <= Newest(ch)
         /\ \A j, k \in 1 .. Len(Drained(ch)) : j < k => Drained(ch)[j] < Drained(ch)[k]
         /\ ch.config.policy # "dropOldest" => Drained(ch) = ch.buffer
         /\ ch.config.policy \in KeepsNewest /\ ~Blocked(ch) =>
              Len(Drained(ch)) < ch.config.size
         /\ Len(ch.buffer) <= ch.config.size
<1>. DEFINE n == Len(ch.buffer)
<1>1. /\ ch.buffer \in Seq(1 .. MaxMessages) /\ n \in Nat /\ DOMAIN ch.buffer = 1 .. n
      /\ ch.left \in Nat
  BY ChannelParts, TopicAssumption
<1>2. n <= ch.config.size /\ ch.config.size \in Nat /\ ch.config.size > 0
  BY ConfigTypes DEF Queue, Fits
<1>3. /\ \A k \in 1 .. n : ch.left < ch.buffer[k] /\ ch.buffer[k] <= Newest(ch)
      /\ \A j, k \in 1 .. n : j < k => ch.buffer[j] < ch.buffer[k]
  BY <1>1, NewestIsGreatest DEF Queue, Ordered
<1>4. CASE ch.config.policy = "dropOldest" /\ ch.buffer # <<>>
  <2>1. Drained(ch) = Tail(ch.buffer)
    BY <1>4 DEF Drained
  <2>2. /\ Tail(ch.buffer) \in Seq(1 .. MaxMessages) /\ Len(Tail(ch.buffer)) = n - 1
        /\ n > 0 /\ \A k \in 1 .. n - 1 : Tail(ch.buffer)[k] = ch.buffer[k + 1]
    BY <1>1, <1>4, TailOf
  <2>3. \A k \in 1 .. n - 1 : k + 1 \in 1 .. n
    BY <1>1
  <2>4. \A j, k \in 1 .. n - 1 : j < k => j + 1 < k + 1
    BY <1>1
  <2>5. n - 1 < ch.config.size
    BY <1>1, <1>2
  <2>6. \A k \in 1 .. n - 1 : ch.left < Tail(ch.buffer)[k] /\ Tail(ch.buffer)[k] <= Newest(ch)
    BY <1>3, <2>2, <2>3
  <2>7. \A j, k \in 1 .. n - 1 : j < k => Tail(ch.buffer)[j] < Tail(ch.buffer)[k]
    BY <1>3, <2>2, <2>3, <2>4
  <2>. QED  BY <1>2, <1>4, <2>1, <2>2, <2>5, <2>6, <2>7
<1>5. CASE ~(ch.config.policy = "dropOldest" /\ ch.buffer # <<>>)
  <2>1. Drained(ch) = ch.buffer
    BY <1>5 DEF Drained
  <2>2. ch.config.policy \in KeepsNewest /\ ~Blocked(ch) => n # ch.config.size
    <3>1. ch.buffer = <<>> => n = 0
      OBVIOUS
    <3>. QED  BY <1>2, <1>5, <3>1 DEF KeepsNewest, Blocked
  <2>. QED  BY <1>1, <1>2, <1>3, <2>1, <2>2
<1>. QED  BY <1>4, <1>5

LEMMA AppendTo ==
  ASSUME NEW S, NEW q \in Seq(S), NEW m \in S
  PROVE  /\ Append(q, m) \in Seq(S) /\ Len(q) \in Nat /\ Len(Append(q, m)) = Len(q) + 1
         /\ DOMAIN Append(q, m) = 1 .. Len(q) + 1 /\ Append(q, m) # <<>>
         /\ \A k \in 1 .. Len(q) : Append(q, m)[k] = q[k]
         /\ Append(q, m)[Len(q) + 1] = m
BY AppendProperties, EmptySeq

\* A newer message goes to the end, or is refused by a policy that drops the newest.
LEMMA DeliverKeeps ==
  ASSUME NEW ch \in ChannelStates, Queue(ch), ch.config \in SubscriberConfigs,
         ch.config.policy # "dropOldestAfterTimeout", ~Blocked(ch),
         NEW m \in 1 .. MaxMessages, Newest(ch) < m,
         ch.config.policy = "dropNone" => Newest(ch) = m - 1,
         NEW new, new = [ch EXCEPT !.buffer = Handled(ch, m)]
  PROVE  /\ new \in ChannelStates /\ Queue(new)
         /\ new.config = ch.config /\ new.open = ch.open /\ new.left = ch.left
         /\ Newest(new) \in {Newest(ch), m}
         /\ ch.config.policy \in KeepsNewest => Newest(new) = m
<1>. DEFINE d == Drained(ch)
            n == Len(d)
<1>1. /\ d \in Seq(1 .. MaxMessages) /\ n \in Nat
      /\ \A k \in 1 .. n : ch.left < d[k] /\ d[k] <= Newest(ch)
      /\ \A j, k \in 1 .. n : j < k => d[j] < d[k]
      /\ ch.config.policy # "dropOldest" => d = ch.buffer
      /\ ch.config.policy \in KeepsNewest => n < ch.config.size
      /\ Len(ch.buffer) <= ch.config.size
  BY Room
<1>2. /\ Newest(ch) \in Nat /\ m \in Nat /\ ch.left \in Nat /\ ch.left <= Newest(ch)
      /\ ch.config.size \in Nat
  BY NewestIs, NewestIsGreatest, ConfigTypes, ChannelParts, TopicAssumption DEF Queue
<1>3. CASE n < ch.config.size
  <2>1. Handled(ch, m) = Append(d, m)
    BY <1>3 DEF Handled
  <2>2. /\ Append(d, m) \in Seq(1 .. MaxMessages) /\ Len(Append(d, m)) = n + 1
        /\ DOMAIN Append(d, m) = 1 .. n + 1 /\ Append(d, m) # <<>>
        /\ \A k \in 1 .. n : Append(d, m)[k] = d[k]
        /\ Append(d, m)[n + 1] = m
    BY <1>1, AppendTo
  <2>3. /\ new \in ChannelStates /\ new.buffer = Append(d, m)
        /\ new.config = ch.config /\ new.open = ch.open /\ new.left = ch.left
    <3>1. Append(d, m) \in Seq(1 .. MaxMessages)
      BY <2>2
    <3>. HIDE DEF d
    <3>. QED  BY <2>1, <3>1 DEF ChannelStates
  <2>4. \A k \in 1 .. n + 1 : k \in 1 .. n \/ k = n + 1
    BY <1>1
  <2>5. \A k \in 1 .. n : d[k] \in Nat
    BY <1>1, TopicAssumption
  <2>. HIDE DEF d, n
  <2>6. Ordered(new)
    <3>1. ASSUME NEW k \in 1 .. n + 1 PROVE new.left < new.buffer[k]
      BY <1>1, <1>2, <2>2, <2>3, <2>4, <2>5
    <3>2. ASSUME NEW j \in 1 .. n + 1, NEW k \in 1 .. n + 1, j < k
          PROVE  new.buffer[j] < new.buffer[k]
      <4>1. j \in 1 .. n
        BY <3>2, <1>1
      <4>. QED  BY <3>2, <4>1, <1>1, <1>2, <2>2, <2>3, <2>4, <2>5
    <3>. QED  BY <3>1, <3>2, <2>2, <2>3 DEF Ordered
  <2>7. Whole(new)
    <3>. SUFFICES ASSUME new.config.policy = "dropNone"
                  PROVE  /\ \A k \in DOMAIN new.buffer :
                              k > 1 => new.buffer[k] = new.buffer[k - 1] + 1
                         /\ new.left > 0 => new.buffer[1] = new.left + 1
      BY DEF Whole
    <3>1. d = ch.buffer /\ ch.config.policy = "dropNone" /\ Newest(ch) + 1 = m
      BY <1>1, <1>2, <2>3
    <3>2. /\ \A k \in 1 .. n : k > 1 => d[k] = d[k - 1] + 1
          /\ ch.left > 0 /\ n > 0 => d[1] = ch.left + 1
      <4>1. DOMAIN d = 1 .. n /\ (n > 0 => d # <<>>)
        BY <1>1 DEF n
      <4>. QED  BY <3>1, <4>1 DEF Queue, Whole
    <3>3. (n > 0 => d[n] = Newest(ch)) /\ (n = 0 => ch.left = Newest(ch))
      BY <1>1, <3>1, EmptySeq DEF Newest, n
    <3>4. ASSUME NEW k \in 1 .. n + 1, k > 1
          PROVE  new.buffer[k] = new.buffer[k - 1] + 1
      <4>1. CASE k \in 1 .. n
        <5>1. k - 1 \in 1 .. n
          BY <3>4, <4>1, <1>1
        <5>. QED  BY <3>2, <3>4, <4>1, <5>1, <2>2, <2>3
      <4>2. CASE k = n + 1
        <5>1. k - 1 = n /\ n \in 1 .. n /\ n > 0
          BY <3>4, <4>2, <1>1
        <5>. QED  BY <3>1, <3>3, <4>2, <5>1, <2>2, <2>3
      <4>. QED  BY <2>4, <4>1, <4>2
    <3>5. new.left > 0 => new.buffer[1] = new.left + 1
      <4>1. CASE n > 0
        <5>1. 1 \in 1 .. n
          BY <4>1, <1>1
        <5>. QED  BY <3>2, <4>1, <5>1, <2>2, <2>3
      <4>2. CASE n = 0
        BY <3>1, <3>3, <4>2, <2>2, <2>3
      <4>. QED  BY <4>1, <4>2, <1>1
    <3>. QED  BY <3>4, <3>5, <2>2, <2>3
  <2>8. Fits(new)
    BY <1>1, <1>2, <1>3, <2>2, <2>3 DEF Fits
  <2>9. Newest(new) = m
    BY <2>2, <2>3 DEF Newest
  <2>. QED  BY <2>3, <2>6, <2>7, <2>8, <2>9 DEF Queue
<1>4. CASE ~(n < ch.config.size)
  <2>1. ch.config.policy \notin KeepsNewest /\ d = ch.buffer
    BY <1>1, <1>4 DEF KeepsNewest
  <2>2. new = ch
    BY <1>4, <2>1 DEF Handled, ChannelStates
  <2>. QED  BY <2>1, <2>2
<1>. QED  BY <1>3, <1>4

-----------------------------------------------------------------------------
(* Requests *)

LEMMA RequestParts ==
  ASSUME NEW r \in Requests
  PROVE  /\ r.kind \in {"subscribe", "unsubscribe", "close"}
         /\ r.from \in Clients \cup {None}
         /\ r.kind = "subscribe" => r.config \in SubscriberConfigs /\ r.config.group \in Groups
         /\ r.kind = "unsubscribe" => r.group \in Groups /\ r.channel \in Channels
         /\ r.kind = "close" => r = CloseRequest /\ r.from = None
<1>1. CASE r \in [kind : {"subscribe"}, from : Clients \cup {None}, config : SubscriberConfigs]
  <2>1. r.kind = "subscribe" /\ r.from \in Clients \cup {None} /\ r.config \in SubscriberConfigs
    BY <1>1
  <2>. QED  BY <2>1, ConfigTypes
<1>2. CASE r \in [kind : {"unsubscribe"}, from : Clients \cup {None}, group : Groups,
                  channel : Channels]
  BY <1>2
<1>3. CASE r = CloseRequest
  BY <1>3 DEF CloseRequest
<1>. QED  BY <1>1, <1>2, <1>3 DEF Requests

LEMMA RequestTypes ==
  ASSUME NEW c \in Clients
  PROVE  /\ SubscribeRequest(c) \in Requests
         /\ mine[c] \in Channels => UnsubscribeRequest(c) \in Requests
         /\ CloseRequest \in Requests
<1>1. Config[c] \in SubscriberConfigs /\ Config[c].group \in Groups
  BY ConfigTypes DEF SubscriberConfigs
<1>. QED  BY <1>1 DEF SubscribeRequest, UnsubscribeRequest, Requests

LEMMA OneRequest ==
  ASSUME NEW r \in Requests
  PROVE  /\ <<r>> \in Seq(Requests) /\ Len(<<r>>) = 1
         /\ DOMAIN <<r>> = {1} /\ <<r>>[1] = r
OBVIOUS

\* The broadcaster handles the one request in requestC, which then has room again.
LEMMA Taken ==
  ASSUME TypeOK, NEW k \in DOMAIN requests, Handle(requests[k])
  PROVE  /\ k = 1 /\ DOMAIN requests = {1} /\ requests[k] \in Requests
         /\ requests' = <<>> /\ requests' \in Seq(Requests) /\ Len(requests') = 0
         /\ DOMAIN requests' = {} /\ bpc = "select"
<1>1. requests \in Seq(Requests) /\ Len(requests) <= 1 /\ requests # <<>>
  BY DEF TypeOK, Handle
<1>2. Len(requests) = 1 /\ DOMAIN requests = {1}
  BY <1>1, EmptySeq
<1>3. Tail(requests) \in Seq(Requests) /\ Len(Tail(requests)) = 0
  BY <1>1, <1>2, TailOf
<1>4. requests' = <<>>
  BY <1>3, EmptySeq DEF Handle
<1>5. DOMAIN requests' = {}
  BY <1>4
<1>. QED  BY <1>1, <1>2, <1>3, <1>4, <1>5 DEF Handle

\* A client that gives up leaves its request behind, without its name.
LEMMA Abandoned ==
  ASSUME TypeOK, NEW c \in Clients, GiveUp(c)
  PROVE  /\ requests' \in Seq(Requests) /\ Len(requests') <= 1
         /\ DOMAIN requests' = DOMAIN requests
         /\ \A k \in DOMAIN requests :
              /\ requests'[k].kind = requests[k].kind /\ requests'[k].from # c
              /\ requests'[k].from # None => requests'[k] = requests[k]
<1>1. requests \in Seq(Requests) /\ Len(requests) \in Nat /\ Len(requests) <= 1
  BY DEF TypeOK
<1>2. DOMAIN requests' = DOMAIN requests /\ DOMAIN requests = 1 .. Len(requests)
  BY <1>1 DEF GiveUp
<1>3. ASSUME NEW k \in DOMAIN requests
      PROVE  /\ requests'[k] \in Requests
             /\ requests'[k].kind = requests[k].kind /\ requests'[k].from # c
             /\ requests'[k].from # None => requests'[k] = requests[k]
  <2>. DEFINE r == requests[k]
  <2>1. requests'[k] = IF r.from = c THEN [r EXCEPT !.from = None] ELSE r
    BY DEF GiveUp
  <2>2. r \in Requests
    BY <1>1
  <2>3. CASE r.from = c
    <3>1. r # CloseRequest
      BY <2>3, TopicAssumption DEF CloseRequest
    <3>2. /\ [r EXCEPT !.from = None] \in Requests /\ [r EXCEPT !.from = None].kind = r.kind
          /\ [r EXCEPT !.from = None].from = None
      <4>. HIDE DEF r
      <4>. QED  BY <2>2, <3>1 DEF Requests
    <3>. QED  BY <2>1, <2>3, <3>2, TopicAssumption
  <2>4. CASE r.from # c
    BY <2>1, <2>2, <2>4
  <2>. QED  BY <2>3, <2>4
<1>4. requests' = [k \in 1 .. Len(requests) |-> requests'[k]]
  BY <1>2 DEF GiveUp
<1>5. requests' \in Seq(Requests) /\ Len(requests') = Len(requests)
  BY <1>1, <1>2, <1>3, <1>4
<1>. QED  BY <1>1, <1>2, <1>3, <1>5

-----------------------------------------------------------------------------
(* A new subscriber finds a channel that nobody holds *)

LEMMA ImageBound ==
  ASSUME NEW S, IsFiniteSet(S), NEW f
  PROVE  /\ IsFiniteSet({f[x] : x \in S})
         /\ Cardinality({f[x] : x \in S}) \in Nat /\ Cardinality(S) \in Nat
         /\ Cardinality({f[x] : x \in S}) <= Cardinality(S)
<1>. DEFINE T == {f[x] : x \in S}
            h == [x \in S |-> f[x]]
<1>1. h \in Surjection(S, T)
  BY DEF Surjection
<1>2. IsFiniteSet(T) /\ Cardinality(T) <= Cardinality(S)
  BY <1>1, FS_Surjection
<1>. QED  BY <1>2, FS_CardinalityType

LEMMA ChannelLeft ==
  ASSUME TInv, NEW k \in DOMAIN requests, HandleSubscribe(requests[k])
  PROVE  \E j \in Channels : j \in Unused
<1>1. TypeOK /\ \A c \in Clients : ClientInv(c)
  BY DEF TInv
<1>2. \A m \in DOMAIN requests : requests[m].kind # "unsubscribe"
  BY <1>1, Taken DEF HandleSubscribe
<1>. DEFINE held == [c \in Clients |-> IF mine[c] # None THEN mine[c]
                                       ELSE IF reply[c] # None THEN reply[c].channel ELSE None]
            Mapped == {subscribers[g] : g \in Groups}
            Held == {held[c] : c \in Clients}
<1>3. ASSUME NEW i \in Channels, i \notin Mapped, i \notin Held
      PROVE  i \in Unused
  <2>1. ASSUME NEW c \in Clients
        PROVE  mine[c] # i /\ (reply[c] # None => reply[c].channel # i)
    <3>1. held[c] # i /\ i # None
      BY <1>3, TopicAssumption
    <3>2. reply[c] # None /\ mine[c] # None => reply[c].channel = None
      BY <1>1 DEF ClientInv
    <3>3. CASE mine[c] # None
      BY <3>1, <3>2, <3>3
    <3>4. CASE mine[c] = None
      BY <3>1, <3>4
    <3>. QED  BY <3>3, <3>4
  <2>. QED  BY <1>2, <1>3, <2>1 DEF Unused
<1>4. ~(Channels \subseteq Mapped \cup Held)
  <2>1. /\ IsFiniteSet(Mapped) /\ IsFiniteSet(Held)
        /\ Cardinality(Mapped) \in Nat /\ Cardinality(Held) \in Nat
        /\ Cardinality(Groups) \in Nat /\ Cardinality(Clients) \in Nat
        /\ Cardinality(Mapped) <= Cardinality(Groups)
        /\ Cardinality(Held) <= Cardinality(Clients)
    <3>. HIDE DEF held
    <3>. QED  BY ImageBound, TopicAssumption
  <2>. HIDE DEF held, Mapped, Held
  <2>2. /\ IsFiniteSet(Mapped \cup Held)
        /\ Cardinality(Mapped \cap Held) \in Nat
        /\ Cardinality(Mapped \cup Held) =
             Cardinality(Mapped) + Cardinality(Held) - Cardinality(Mapped \cap Held)
    <3>1. IsFiniteSet(Mapped \cap Held)
      BY <2>1, FS_Intersection
    <3>. QED  BY <2>1, <3>1, FS_Union, FS_CardinalityType
  <2>3. Cardinality(Channels) \in Nat
    BY TopicAssumption, FS_CardinalityType
  <2>4. Channels \subseteq Mapped \cup Held => Cardinality(Channels) <= Cardinality(Mapped \cup Held)
    BY <2>2, FS_Subset
  <2>. QED  BY <2>1, <2>2, <2>3, <2>4, TopicAssumption
<1>. QED  BY <1>3, <1>4

\* What HandleSubscribe does, with the channel it makes in the place of the choice.
LEMMA SubscribeHandled ==
  ASSUME TInv, NEW k \in DOMAIN requests, HandleSubscribe(requests[k]),
         NEW r, r = requests[k], NEW g, g = r.config.group
  PROVE  /\ g \in Groups /\ r \in Requests /\ r.kind = "subscribe"
         /\ r.config \in SubscriberConfigs
         /\ \/ /\ subscribers[g] # None /\ subscribers' = subscribers /\ channel' = channel
               /\ reply' = IF r.from = None THEN reply
                           ELSE [reply EXCEPT ![r.from] = Reply(~r.config.errIfExists,
                                                                subscribers[g])]
               /\ receiving' = (receiving \/ (SubscriberAware /\ ~r.config.errIfExists))
            \/ \E i \in Unused :
                 /\ subscribers[g] = None /\ subscribers' = [subscribers EXCEPT ![g] = i]
                 /\ channel' = [channel EXCEPT ![i] = [config |-> r.config, open |-> TRUE,
                                                       buffer |-> Replay, left |-> 0]]
                 /\ reply' = IF r.from = None THEN reply
                             ELSE [reply EXCEPT ![r.from] = Reply(TRUE, i)]
                 /\ receiving' = (receiving \/ SubscriberAware)
<1>1. TypeOK /\ r \in Requests /\ r.kind = "subscribe"
  BY Taken DEF TInv, HandleSubscribe
<1>2. g \in Groups /\ r.config \in SubscriberConfigs
  BY <1>1, RequestParts
<1>3. CASE subscribers[g] # None
  <2>1. subscribers' = [subscribers EXCEPT ![g] = subscribers[g]] /\ channel' = channel
    BY <1>3 DEF HandleSubscribe
  <2>2. subscribers' = subscribers
    BY <1>1, <1>2, <2>1 DEF TypeOK
  <2>3. /\ Respond(r, ~r.config.errIfExists, subscribers[g])
        /\ receiving' = (receiving \/ (SubscriberAware /\ ~r.config.errIfExists))
    BY <1>3 DEF HandleSubscribe
  <2>. QED  BY <1>1, <1>2, <1>3, <2>1, <2>2, <2>3 DEF Respond
<1>4. CASE subscribers[g] = None
  <2>. DEFINE i == CHOOSE j \in Unused : TRUE
  <2>1. i \in Unused
    BY ChannelLeft
  <2>2. /\ subscribers' = [subscribers EXCEPT ![g] = i]
        /\ channel' = [channel EXCEPT ![i] = [config |-> r.config, open |-> TRUE,
                                              buffer |-> Replay, left |-> 0]]
        /\ Respond(r, TRUE, i) /\ receiving' = (receiving \/ SubscriberAware)
    BY <1>4 DEF HandleSubscribe
  <2>. HIDE DEF i
  <2>. QED  BY <1>1, <1>2, <1>4, <2>1, <2>2 DEF Respond
<1>. QED  BY <1>3, <1>4

-----------------------------------------------------------------------------
(* Clients *)

ClientPart == RequestInv /\ \A c \in Clients : ClientInv(c) /\ Served(c)

BroadcasterPart ==
    /\ MapInv /\ PausedWithoutSubscribers /\ BroadcastInv /\ GivenInv
    /\ \A i \in Channels : Queue(channel[i])

LEMMA TInvParts == TInv <=> TypeOK /\ ClientPart /\ BroadcasterPart
BY DEF TInv, ClientPart, BroadcasterPart

LEMMA ChannelTypes ==
  ASSUME TypeOK
  PROVE  channel \in [Channels -> ChannelStates]
BY DEF TypeOK, ChannelStates

\* Delivering and receiving change nothing about who holds which channel.
LEMMA StillServed ==
  ASSUME TInv, UNCHANGED <<pc, mine, reply, requests, subscribers>>,
         \A i \in Channels : channel'[i].config = channel[i].config
                             /\ channel'[i].open = channel[i].open
  PROVE  ClientPart'
<1>1. TypeOK /\ RequestInv /\ \A c \in Clients : ClientInv(c) /\ Served(c)
  BY DEF TInv
<1>2. RequestInv'
  BY <1>1 DEF RequestInv
<1>3. ASSUME NEW c \in Clients PROVE ClientInv(c)' /\ Served(c)'
  <2>1. ClientInv(c)'
    BY <1>1 DEF ClientInv
  <2>2. \A i \in Channels : Serves(i, Config[c].group) => Serves(i, Config[c].group)'
    BY DEF Serves
  <2>3. mine[c] # None => mine[c] \in Channels
    BY <1>1 DEF TypeOK
  <2>4. mine[c] # None => Serves(mine[c], Config[c].group)'
    BY <1>1, <2>2, <2>3 DEF Served
  <2>5. pc[c] = "subscribeSent" /\ reply[c] # None /\ reply[c].ok =>
          reply[c].channel \in Channels /\ Serves(reply[c].channel, Config[c].group)'
    BY <1>1, <2>2 DEF Served
  <2>. QED  BY <2>1, <2>4, <2>5 DEF Served, Serves
<1>. QED  BY <1>2, <1>3 DEF ClientPart

LEMMA BroadcasterRests ==
  ASSUME TInv, UNCHANGED <<receiving, subscribers, channel, last, message, pending>>,
         bpc' = bpc \/ (bpc = "select" /\ bpc' = "stopped")
  PROVE  BroadcasterPart'
<1>1. MapInv /\ PausedWithoutSubscribers /\ BroadcastInv /\ GivenInv
      /\ \A i \in Channels : Queue(channel[i])
  BY DEF TInv
<1>2. Subscribed' = Subscribed
  BY DEF Subscribed
<1>3. MapInv'
  BY <1>1, <1>2 DEF MapInv
<1>4. PausedWithoutSubscribers' /\ BroadcastInv'
  BY <1>1, <1>2 DEF PausedWithoutSubscribers, BroadcastInv
<1>5. GivenInv'
  BY <1>1, <1>2 DEF GivenInv, Newest
<1>6. \A i \in Channels : Queue(channel[i])'
  BY <1>1
<1>. QED  BY <1>3, <1>4, <1>5, <1>6 DEF BroadcasterPart

\* A client's own steps, apart from receiving, touch its place, its channel and its request.
LEMMA ClientTypes ==
  ASSUME TInv, NEW c \in Clients,
         \/ Subscribe(c) \/ SendRequest(c) \/ TakeReply(c) \/ GiveUp(c)
         \/ ReceiveClosed(c) \/ Unsubscribe(c)
  PROVE  TypeOK'
<1>. USE DEF TypeOK, Goto, clientVars, closeVars, broadcastVars
<1>0. TypeOK /\ ClientInv(c)
  BY DEF TInv
<1>1. CASE Subscribe(c)
  BY <1>0, <1>1 DEF Subscribe
<1>2. CASE SendRequest(c)
  <2>1. pc[c] = "unsubscribing" => mine[c] \in Channels
    BY <1>0 DEF ClientInv
  <2>2. requests' \in Seq(Requests) /\ Len(requests') <= 1
    <3>. DEFINE r == IF pc[c] = "subscribing" THEN SubscribeRequest(c) ELSE UnsubscribeRequest(c)
    <3>1. r \in Requests
      BY <1>2, <2>1, RequestTypes DEF SendRequest
    <3>2. requests' = requests \/ requests' = <<r>>
      BY <1>2 DEF SendRequest
    <3>. HIDE DEF r, TypeOK
    <3>3. <<r>> \in Seq(Requests) /\ Len(<<r>>) <= 1
      BY <3>1, OneRequest
    <3>4. requests \in Seq(Requests) /\ Len(requests) <= 1
      BY <1>0 DEF TypeOK
    <3>. QED  BY <3>2, <3>3, <3>4
  <2>. QED  BY <1>0, <1>2, <2>2 DEF SendRequest
<1>3. CASE TakeReply(c)
  <2>1. reply[c].channel \in Channels \cup {None}
    BY <1>0, <1>3 DEF TakeReply
  <2>. QED  BY <1>0, <1>3, <2>1 DEF TakeReply
<1>4. CASE GiveUp(c)
  <2>1. requests' \in Seq(Requests) /\ Len(requests') <= 1
    BY <1>0, <1>4, Abandoned
  <2>. QED  BY <1>0, <1>4, <2>1 DEF GiveUp
<1>5. CASE ReceiveClosed(c)
  BY <1>0, <1>5 DEF ReceiveClosed
<1>6. CASE Unsubscribe(c)
  BY <1>0, <1>6 DEF Unsubscribe
<1>. QED  BY <1>1, <1>2, <1>3, <1>4, <1>5, <1>6

LEMMA ClientKept ==
  ASSUME TInv, NEW c \in Clients,
         \/ Subscribe(c) \/ SendRequest(c) \/ TakeReply(c) \/ GiveUp(c)
         \/ ReceiveClosed(c) \/ Unsubscribe(c)
  PROVE  ClientPart'
<1>. USE DEF Goto, clientVars, closeVars, broadcastVars
<1>0. TypeOK /\ RequestInv /\ \A d \in Clients : ClientInv(d) /\ Served(d)
  BY DEF TInv
<1>1. /\ UNCHANGED <<subscribers, channel>>
      /\ \A d \in Clients \ {c} : pc'[d] = pc[d] /\ mine'[d] = mine[d] /\ reply'[d] = reply[d]
  BY <1>0 DEF TypeOK, Subscribe, SendRequest, TakeReply, GiveUp, ReceiveClosed, Unsubscribe
<1>2. ASSUME NEW d \in Clients \ {c} PROVE ClientInv(d)' /\ Served(d)'
  BY <1>0, <1>1 DEF ClientInv, Served, Serves
<1>3. ClientInv(c)'
  <2>1. ClientInv(c) /\ TypeOK
    BY <1>0
  <2>2. CASE Subscribe(c)
    BY <2>1, <2>2 DEF Subscribe, TypeOK, ClientInv
  <2>3. CASE SendRequest(c)
    BY <2>1, <2>3 DEF SendRequest, TypeOK, ClientInv
  <2>4. CASE TakeReply(c)
    <3>1. pc[c] = "subscribeSent" /\ reply[c].ok => reply[c].channel # None
      BY <1>0, <2>4, TopicAssumption DEF TakeReply, Served
    <3>. QED  BY <2>1, <2>4, <3>1 DEF TakeReply, TypeOK, ClientInv
  <2>5. CASE GiveUp(c)
    BY <2>1, <2>5 DEF GiveUp, TypeOK, ClientInv
  <2>6. CASE ReceiveClosed(c)
    BY <2>1, <2>6 DEF ReceiveClosed, TypeOK, ClientInv
  <2>7. CASE Unsubscribe(c)
    BY <2>1, <2>7 DEF Unsubscribe, TypeOK, ClientInv
  <2>. QED  BY <2>2, <2>3, <2>4, <2>5, <2>6, <2>7
<1>4. Served(c)'
  <2>1. Served(c) /\ ClientInv(c) /\ TypeOK
    BY <1>0
  <2>2. CASE Subscribe(c)
    BY <1>1, <2>1, <2>2 DEF Subscribe, TypeOK, Served, Serves
  <2>3. CASE SendRequest(c)
    BY <1>1, <2>1, <2>3 DEF SendRequest, TypeOK, Served, Serves, ClientInv
  <2>4. CASE TakeReply(c)
    BY <1>1, <2>1, <2>4 DEF TakeReply, TypeOK, Served, Serves
  <2>5. CASE GiveUp(c)
    BY <1>1, <2>1, <2>5 DEF GiveUp, TypeOK, Served, Serves
  <2>6. CASE ReceiveClosed(c)
    BY <1>1, <2>1, <2>6 DEF ReceiveClosed, TypeOK, Served, Serves
  <2>7. CASE Unsubscribe(c)
    BY <1>1, <2>1, <2>7 DEF Unsubscribe, TypeOK, Served, Serves
  <2>. QED  BY <2>2, <2>3, <2>4, <2>5, <2>6, <2>7
<1>5. RequestInv'
  <2>1. TypeOK /\ RequestInv /\ ClientInv(c)
    BY <1>0
  <2>2. CASE SendRequest(c)
    <3>1. CASE requestsOpen
      <4>. DEFINE r == IF pc[c] = "subscribing" THEN SubscribeRequest(c)
                                                ELSE UnsubscribeRequest(c)
      <4>1. requests' = <<r>> /\ reply' = reply
            /\ pc' = [pc EXCEPT ![c] = IF pc[c] = "subscribing" THEN "subscribeSent"
                                                                ELSE "unsubscribeSent"]
        BY <2>2, <3>1 DEF SendRequest
      <4>2. /\ r.from = c /\ reply[c] = None
            /\ r.kind = "subscribe" <=> pc[c] = "subscribing"
            /\ r.kind = "subscribe" => r.config = Config[c]
        BY <2>1, <2>2 DEF SubscribeRequest, UnsubscribeRequest, ClientInv, SendRequest
      <4>3. pc'[c] = IF r.kind = "subscribe" THEN "subscribeSent" ELSE "unsubscribeSent"
        BY <2>1, <4>1, <4>2 DEF TypeOK
      <4>. HIDE DEF r
      <4>4. DOMAIN requests' = {1} /\ requests'[1] = r
        BY <4>1
      <4>. QED  BY <4>1, <4>2, <4>3, <4>4 DEF RequestInv
    <3>2. CASE ~requestsOpen
      BY <2>1, <2>2, <3>2 DEF SendRequest, RequestInv
    <3>. QED  BY <3>1, <3>2
  <2>3. CASE GiveUp(c)
    <3>. SUFFICES ASSUME NEW k \in DOMAIN requests', requests'[k].from # None
                  PROVE  /\ reply'[requests'[k].from] = None
                         /\ pc'[requests'[k].from] =
                              (IF requests'[k].kind = "subscribe" THEN "subscribeSent"
                                                                  ELSE "unsubscribeSent")
                         /\ requests'[k].kind = "subscribe" =>
                              requests'[k].config = Config[requests'[k].from]
      BY DEF RequestInv
    <3>1. /\ k \in DOMAIN requests /\ requests'[k].from # c /\ requests'[k] = requests[k]
          /\ requests' \in Seq(Requests)
      BY <2>1, <2>3, Abandoned
    <3>2. requests'[k] \in Requests
      BY <3>1
    <3>3. requests'[k].from \in Clients \ {c}
      BY <3>1, <3>2, RequestParts
    <3>. QED  BY <2>1, <3>1, <3>3, <1>1 DEF RequestInv
  <2>4. CASE ~SendRequest(c) /\ ~GiveUp(c)
    <3>1. requests' = requests /\ \/ pc[c] \notin {"subscribeSent", "unsubscribeSent"}
                                  \/ reply[c] # None
      BY <2>4 DEF Subscribe, TakeReply, ReceiveClosed, Unsubscribe
    <3>. SUFFICES ASSUME NEW k \in DOMAIN requests, requests[k].from # None
                  PROVE  /\ reply'[requests[k].from] = None
                         /\ pc'[requests[k].from] =
                              (IF requests[k].kind = "subscribe" THEN "subscribeSent"
                                                                 ELSE "unsubscribeSent")
                         /\ requests[k].kind = "subscribe" =>
                              requests[k].config = Config[requests[k].from]
      BY <3>1 DEF RequestInv
    <3>2. requests[k].from \in Clients
      BY <2>1, RequestParts DEF TypeOK
    <3>3. requests[k].from # c
      BY <2>1, <3>1 DEF RequestInv
    <3>. QED  BY <2>1, <3>2, <3>3, <1>1 DEF RequestInv
  <2>. QED  BY <2>2, <2>3, <2>4
<1>. QED  BY <1>2, <1>3, <1>4, <1>5 DEF ClientPart

-----------------------------------------------------------------------------
(* Messages: receiving, publishing, delivering *)

LEMMA MapTells ==
  ASSUME TypeOK, MapInv, NEW g \in Subscribed
  PROVE  /\ g \in Groups /\ subscribers[g] \in Channels
         /\ channel[subscribers[g]] \in ChannelStates
         /\ \A h \in Subscribed : subscribers[h] = subscribers[g] => h = g
<1>1. g \in Groups /\ subscribers[g] \in Channels
  BY DEF TypeOK, Subscribed
<1>. QED  BY <1>1, ChannelTypes DEF MapInv

\* A channel that gets other messages stays where it is, with whom it was made for.
LEMMA ContentChanges ==
  ASSUME TInv, UNCHANGED <<pc, mine, reply, requests, subscribers, receiving>>,
         NEW i \in Channels, NEW new \in ChannelStates, Queue(new),
         new.config = channel[i].config, new.open = channel[i].open,
         channel' = [channel EXCEPT ![i] = new]
  PROVE  /\ channel' \in [Channels -> ChannelStates] /\ channel'[i] = new
         /\ \A j \in Channels \ {i} : channel'[j] = channel[j]
         /\ ClientPart' /\ MapInv' /\ PausedWithoutSubscribers'
         /\ \A j \in Channels : Queue(channel[j])'
         /\ Subscribed' = Subscribed
<1>1. /\ TypeOK /\ MapInv /\ PausedWithoutSubscribers /\ \A j \in Channels : Queue(channel[j])
      /\ channel \in [Channels -> ChannelStates]
  BY ChannelTypes DEF TInv
<1>2. /\ channel' \in [Channels -> ChannelStates] /\ channel'[i] = new
      /\ \A j \in Channels \ {i} : channel'[j] = channel[j]
  BY <1>1
<1>3. \A j \in Channels : channel'[j].config = channel[j].config
                          /\ channel'[j].open = channel[j].open
  BY <1>2
<1>4. ClientPart'
  BY <1>3, StillServed
<1>5. Subscribed' = Subscribed
  BY DEF Subscribed
<1>6. MapInv'
  <2>1. \A g \in Subscribed : subscribers[g] \in Channels
    BY <1>1, MapTells
  <2>. QED  BY <1>1, <1>3, <1>5, <2>1 DEF MapInv
<1>7. PausedWithoutSubscribers'
  BY <1>1, <1>5 DEF PausedWithoutSubscribers
<1>8. \A j \in Channels : Queue(channel[j])'
  <2>1. \A j \in Channels : Queue(channel'[j])
    BY <1>1, <1>2
  <2>. QED  BY <2>1 DEF Queue, Ordered, Whole, Fits
<1>. QED  BY <1>2, <1>4, <1>5, <1>6, <1>7, <1>8

LEMMA Received ==
  ASSUME TInv, NEW c \in Clients, Receive(c)
  PROVE  LET i == mine[c]
             new == [channel[i] EXCEPT !.buffer = Tail(channel[i].buffer),
                                       !.left = Head(channel[i].buffer)]
         IN  /\ i \in Channels /\ channel[i] \in ChannelStates /\ channel[i].buffer # <<>>
             /\ Queue(channel[i]) /\ Serves(i, Config[c].group)
             /\ channel' = [channel EXCEPT ![i] = new]
<1>1. TypeOK /\ ClientInv(c) /\ Served(c) /\ \A i \in Channels : Queue(channel[i])
  BY DEF TInv
<1>2. mine[c] \in Channels /\ mine[c] # None
  BY <1>1 DEF TypeOK, ClientInv, Receive
<1>3. channel \in [Channels -> ChannelStates]
  BY <1>1, ChannelTypes
<1>. QED  BY <1>1, <1>2, <1>3 DEF Receive, ChannelStates, Served

LEMMA ReceiveStays ==
  ASSUME TInv, NEW c \in Clients, Receive(c)
  PROVE  TInv'
<1>. DEFINE i == mine[c]
            new == [channel[i] EXCEPT !.buffer = Tail(channel[i].buffer),
                                      !.left = Head(channel[i].buffer)]
<1>0. TypeOK /\ MapInv /\ BroadcastInv /\ GivenInv
  BY DEF TInv
<1>1. /\ i \in Channels /\ channel[i] \in ChannelStates /\ channel[i].buffer # <<>>
      /\ Queue(channel[i]) /\ channel' = [channel EXCEPT ![i] = new]
  BY Received
<1>2. /\ new \in ChannelStates /\ Queue(new) /\ Newest(new) = Newest(channel[i])
      /\ new.config = channel[i].config /\ new.open = channel[i].open
  BY <1>1, ReceiveKeeps
<1>. HIDE DEF new, i
<1>3. UNCHANGED <<clientVars, requests, closeVars, broadcastVars, crashed>>
  BY DEF Receive
<1>4. /\ channel' \in [Channels -> ChannelStates] /\ channel'[i] = new
      /\ \A j \in Channels \ {i} : channel'[j] = channel[j]
      /\ ClientPart' /\ MapInv' /\ PausedWithoutSubscribers'
      /\ \A j \in Channels : Queue(channel[j])'
      /\ Subscribed' = Subscribed
  BY <1>1, <1>2, <1>3, ContentChanges DEF clientVars, broadcastVars
<1>5. TypeOK'
  BY <1>0, <1>3, <1>4 DEF TypeOK, ChannelStates, clientVars, closeVars, broadcastVars
<1>6. BroadcastInv'
  BY <1>0, <1>3, <1>4 DEF BroadcastInv, broadcastVars
<1>7. \A g \in Subscribed :
        /\ Newest(channel'[subscribers[g]]) = Newest(channel[subscribers[g]])
        /\ channel'[subscribers[g]].config = channel[subscribers[g]].config
  BY <1>0, <1>2, <1>4, MapTells
<1>8. GivenInv'
  BY <1>0, <1>3, <1>4, <1>7 DEF GivenInv, Newest, broadcastVars
<1>. QED  BY <1>4, <1>5, <1>6, <1>8, TInvParts DEF ClientPart, TInv

LEMMA PublishStays ==
  ASSUME TInv, Publish
  PROVE  TInv'
<1>0. TypeOK /\ MapInv /\ BroadcastInv /\ GivenInv /\ PausedWithoutSubscribers
      /\ \A i \in Channels : Queue(channel[i])
  BY DEF TInv
<1>1. /\ bpc = "select" /\ last < MaxMessages /\ message' = last + 1 /\ pending' = Subscribed
      /\ bpc' = "sending" /\ message = last
      /\ UNCHANGED <<clientVars, requests, closeVars, receiving, subscribers, last,
                     channel, crashed>>
  BY <1>0 DEF Publish, BroadcastInv
<1>2. Subscribed' = Subscribed /\ Subscribed \subseteq Groups
  BY <1>1 DEF Subscribed
<1>3. TypeOK'
  BY <1>0, <1>1, <1>2, TopicAssumption DEF TypeOK, clientVars, closeVars
<1>4. ClientPart'
  BY <1>1, StillServed DEF clientVars
<1>5. MapInv'
  BY <1>0, <1>1, <1>2 DEF MapInv
<1>6. BroadcastInv' /\ PausedWithoutSubscribers'
  BY <1>0, <1>1, <1>2 DEF BroadcastInv, PausedWithoutSubscribers
<1>7. GivenInv'
  BY <1>0, <1>1, <1>2 DEF GivenInv, Newest
<1>8. \A i \in Channels : Queue(channel[i])'
  BY <1>0, <1>1
<1>. QED  BY <1>3, <1>4, <1>5, <1>6, <1>7, <1>8, TInvParts DEF ClientPart, TInv

LEMMA EndBroadcastStays ==
  ASSUME TInv, EndBroadcast
  PROVE  TInv'
<1>0. TypeOK /\ MapInv /\ BroadcastInv /\ GivenInv /\ PausedWithoutSubscribers
      /\ \A i \in Channels : Queue(channel[i])
  BY DEF TInv
<1>1. /\ bpc = "sending" /\ pending = {} /\ last' = message /\ bpc' = "select"
      /\ UNCHANGED <<clientVars, requests, closeVars, receiving, subscribers, message,
                     pending, channel, crashed>>
  BY DEF EndBroadcast
<1>2. Subscribed' = Subscribed
  BY <1>1 DEF Subscribed
<1>3. TypeOK'
  BY <1>0, <1>1 DEF TypeOK, clientVars, closeVars
<1>4. ClientPart'
  BY <1>1, StillServed DEF clientVars
<1>5. MapInv'
  BY <1>0, <1>1, <1>2 DEF MapInv
<1>6. BroadcastInv' /\ PausedWithoutSubscribers'
  BY <1>0, <1>1, <1>2 DEF BroadcastInv, PausedWithoutSubscribers
<1>7. GivenInv'
  BY <1>0, <1>1, <1>2 DEF GivenInv, Newest
<1>8. \A i \in Channels : Queue(channel[i])'
  BY <1>0, <1>1
<1>. QED  BY <1>3, <1>4, <1>5, <1>6, <1>7, <1>8, TInvParts DEF ClientPart, TInv

\* What a delivery finds and leaves.
LEMMA Delivered ==
  ASSUME TInv, NEW g \in Groups, Deliver(g)
  PROVE  LET i == subscribers[g] IN
         /\ bpc = "sending" /\ g \in pending /\ g \in Subscribed /\ i \in Channels
         /\ channel[i] \in ChannelStates /\ Queue(channel[i])
         /\ channel[i].config \in SubscriberConfigs /\ channel[i].config.group = g
         /\ message \in 1 .. MaxMessages /\ message = last + 1
         /\ Newest(channel[i]) <= last
         /\ channel[i].config.policy \in KeepsNewest => Newest(channel[i]) = last
         /\ ~Blocked(channel[i])
         /\ pending' = pending \ {g}
         /\ UNCHANGED <<clientVars, requests, closeVars, bpc, receiving, subscribers, last,
                        message>>
         /\ crashed' \in BOOLEAN
         /\ \/ channel[i].config.policy = "dropOldestAfterTimeout" /\ channel' = channel
            \/ /\ channel[i].config.policy # "dropOldestAfterTimeout"
               /\ channel' = [channel EXCEPT
                                ![i] = [channel[i] EXCEPT !.buffer = Handled(channel[i], message)]]
<1>. DEFINE i == subscribers[g]
<1>1. TypeOK /\ MapInv /\ BroadcastInv /\ GivenInv /\ \A j \in Channels : Queue(channel[j])
  BY DEF TInv
<1>2. /\ bpc = "sending" /\ g \in pending /\ ~Blocked(channel[i]) /\ pending' = pending \ {g}
      /\ UNCHANGED <<clientVars, requests, closeVars, bpc, receiving, subscribers, last, message>>
  BY DEF Deliver
<1>3. g \in Subscribed /\ i \in Channels /\ channel[i] \in ChannelStates /\ Queue(channel[i])
  BY <1>1, <1>2, MapTells DEF BroadcastInv
<1>4. channel[i].config \in SubscriberConfigs /\ channel[i].config.group = g
  BY <1>1, <1>3 DEF MapInv
<1>5. message \in 1 .. MaxMessages /\ message = last + 1
  BY <1>1, <1>2, TopicAssumption DEF TypeOK, BroadcastInv
<1>6. /\ Newest(channel[i]) <= last
      /\ channel[i].config.policy \in KeepsNewest => Newest(channel[i]) = last
  BY <1>1, <1>2, <1>3 DEF GivenInv
<1>7. /\ crashed' \in BOOLEAN
      /\ \/ channel[i].config.policy = "dropOldestAfterTimeout" /\ channel' = channel
         \/ /\ channel[i].config.policy # "dropOldestAfterTimeout"
            /\ channel' = [channel EXCEPT
                             ![i] = [channel[i] EXCEPT !.buffer = Handled(channel[i], message)]]
  BY <1>1, <1>3 DEF Deliver, TypeOK, ChannelStates
<1>. QED  BY <1>2, <1>3, <1>4, <1>5, <1>6, <1>7

LEMMA DeliverGives ==
  ASSUME TInv, NEW g \in Groups, Deliver(g),
         channel[subscribers[g]].config.policy # "dropOldestAfterTimeout",
         NEW new, new = [channel[subscribers[g]] EXCEPT
                           !.buffer = Handled(channel[subscribers[g]], message)]
  PROVE  LET ch == channel[subscribers[g]] IN
         /\ new \in ChannelStates /\ Queue(new)
         /\ new.config = ch.config /\ new.open = ch.open /\ new.left = ch.left
         /\ Newest(new) \in {Newest(ch), message}
         /\ ch.config.policy \in KeepsNewest => Newest(new) = message
<1>. DEFINE ch == channel[subscribers[g]]
<1>1. /\ ch \in ChannelStates /\ Queue(ch) /\ ch.config \in SubscriberConfigs /\ ~Blocked(ch)
      /\ message \in 1 .. MaxMessages /\ message = last + 1 /\ Newest(ch) <= last
      /\ ch.config.policy \in KeepsNewest => Newest(ch) = last
  BY Delivered
<1>2. last \in Nat /\ Newest(ch) \in Nat
  BY <1>1, NewestIs, TopicAssumption DEF TInv, TypeOK
<1>3. Newest(ch) < message /\ (ch.config.policy = "dropNone" => Newest(ch) = message - 1)
  BY <1>1, <1>2 DEF KeepsNewest
<1>. HIDE DEF ch
<1>. QED  BY <1>1, <1>3, DeliverKeeps DEF ch

LEMMA DeliverStays ==
  ASSUME TInv, NEW g \in Groups, Deliver(g)
  PROVE  TInv'
<1>. DEFINE i == subscribers[g]
<1>0. TypeOK /\ MapInv /\ BroadcastInv /\ GivenInv /\ PausedWithoutSubscribers
      /\ \A j \in Channels : Queue(channel[j])
  BY DEF TInv
<1>1. /\ bpc = "sending" /\ g \in pending /\ g \in Subscribed /\ i \in Channels
      /\ channel[i] \in ChannelStates /\ message = last + 1 /\ Newest(channel[i]) <= last
      /\ pending' = pending \ {g}
      /\ UNCHANGED <<clientVars, requests, closeVars, bpc, receiving, subscribers, last, message>>
      /\ crashed' \in BOOLEAN
  BY Delivered
<1>2. last \in Nat /\ Newest(channel[i]) \in Nat
  BY <1>0, <1>1, NewestIs, TopicAssumption DEF TypeOK
<1>3. /\ channel' \in [Channels -> ChannelStates]
      /\ \A j \in Channels \ {i} : channel'[j] = channel[j]
      /\ channel'[i].config = channel[i].config
      /\ Newest(channel'[i]) \in {Newest(channel[i]), message}
      /\ channel[i].config.policy \in KeepsNewest => Newest(channel'[i]) = message
      /\ ClientPart' /\ MapInv' /\ PausedWithoutSubscribers'
      /\ \A j \in Channels : Queue(channel[j])'
      /\ Subscribed' = Subscribed
  <2>1. CASE channel[i].config.policy = "dropOldestAfterTimeout"
    <3>1. channel' = channel /\ channel[i].config.policy \notin KeepsNewest
      BY <2>1, Delivered DEF KeepsNewest
    <3>2. ClientPart'
      BY <1>1, <3>1, StillServed DEF clientVars
    <3>3. Subscribed' = Subscribed
      BY <1>1 DEF Subscribed
    <3>. QED  BY <1>0, <1>1, <3>1, <3>2, <3>3, ChannelTypes DEF MapInv, PausedWithoutSubscribers
  <2>2. CASE channel[i].config.policy # "dropOldestAfterTimeout"
    <3>. DEFINE new == [channel[i] EXCEPT !.buffer = Handled(channel[i], message)]
    <3>1. channel' = [channel EXCEPT ![i] = new]
      BY <2>2, Delivered
    <3>2. /\ new \in ChannelStates /\ Queue(new)
          /\ new.config = channel[i].config /\ new.open = channel[i].open
          /\ Newest(new) \in {Newest(channel[i]), message}
          /\ channel[i].config.policy \in KeepsNewest => Newest(new) = message
      BY <2>2, DeliverGives
    <3>. HIDE DEF new, i
    <3>3. /\ channel' \in [Channels -> ChannelStates] /\ channel'[i] = new
          /\ \A j \in Channels \ {i} : channel'[j] = channel[j]
          /\ ClientPart' /\ MapInv' /\ PausedWithoutSubscribers'
          /\ \A j \in Channels : Queue(channel[j])'
          /\ Subscribed' = Subscribed
      BY <1>1, <3>1, <3>2, ContentChanges DEF clientVars
    <3>. QED  BY <3>2, <3>3
  <2>. QED  BY <2>1, <2>2
<1>4. TypeOK'
  BY <1>0, <1>1, <1>3 DEF TypeOK, ChannelStates, clientVars, closeVars
<1>5. BroadcastInv'
  BY <1>0, <1>1, <1>3 DEF BroadcastInv
<1>6. GivenInv'
  <2>1. ASSUME NEW h \in Subscribed
        PROVE  LET ch == channel'[subscribers[h]]
                   current == IF h \in pending' THEN last ELSE message
               IN /\ Newest(ch) <= current
                  /\ ch.config.policy \in KeepsNewest => Newest(ch) = current
    <3>1. CASE h = g
      <4>1. h \notin pending'
        BY <1>1, <3>1
      <4>2. Newest(channel'[i]) <= message
        BY <1>1, <1>2, <1>3
      <4>. QED  BY <1>3, <3>1, <4>1, <4>2
    <3>2. CASE h # g
      <4>1. channel'[subscribers[h]] = channel[subscribers[h]]
        BY <1>0, <1>1, <1>3, <3>2, MapTells
      <4>2. h \in pending' <=> h \in pending
        BY <1>1, <3>2
      <4>. QED  BY <1>0, <4>1, <4>2 DEF GivenInv
    <3>. QED  BY <3>1, <3>2
  <2>. QED  BY <2>1, <1>1, <1>3 DEF GivenInv, Newest
<1>. QED  BY <1>3, <1>4, <1>5, <1>6, TInvParts DEF ClientPart, TInv

-----------------------------------------------------------------------------
(* Closing, and the end of the broadcaster *)

LEMMA CloseStays ==
  ASSUME TInv, CloserStep
  PROVE  TInv'
<1>. USE DEF clientVars, closeVars, broadcastVars
<1>0. TypeOK /\ RequestInv /\ \A c \in Clients : ClientInv(c) /\ Served(c)
  BY DEF TInv
<1>1. UNCHANGED <<clientVars, broadcastVars, channel, crashed>>
      /\ (requests' = requests \/ requests' = <<CloseRequest>>)
  BY DEF CloserStep, Close, SendClose, CloseChannels
<1>2. requests' \in Seq(Requests) /\ Len(requests') <= 1
  <2>1. CloseRequest \in Requests
    BY DEF Requests
  <2>2. <<CloseRequest>> \in Seq(Requests) /\ Len(<<CloseRequest>>) <= 1
    BY <2>1, OneRequest
  <2>. QED  BY <1>0, <1>1, <2>2 DEF TypeOK
<1>3. TypeOK'
  BY <1>0, <1>1, <1>2 DEF TypeOK, CloserStep, Close, SendClose, CloseChannels
<1>4. RequestInv'
  <2>1. CASE requests' = requests
    BY <1>0, <1>1, <2>1 DEF RequestInv
  <2>2. CASE requests' = <<CloseRequest>>
    <3>1. DOMAIN requests' = {1} /\ requests'[1].from = None
      BY <2>2 DEF CloseRequest
    <3>. QED  BY <3>1 DEF RequestInv
  <2>. QED  BY <1>1, <2>1, <2>2
<1>5. \A c \in Clients : ClientInv(c)' /\ Served(c)'
  BY <1>0, <1>1 DEF ClientInv, Served, Serves
<1>6. BroadcasterPart'
  BY <1>1, BroadcasterRests
<1>. QED  BY <1>3, <1>4, <1>5, <1>6 DEF TInv, BroadcasterPart

LEMMA StopStays ==
  ASSUME TInv, BroadcasterStops
  PROVE  TInv'
<1>. USE DEF clientVars, closeVars, broadcastVars
<1>1. /\ UNCHANGED <<clientVars, requests, closeVars, receiving, subscribers, last, message,
                     pending, channel, crashed>>
      /\ bpc = "select" /\ bpc' = "stopped"
  BY DEF BroadcasterStops
<1>2. TypeOK'
  BY <1>1 DEF TInv, TypeOK
<1>3. ClientPart'
  BY <1>1, StillServed
<1>4. BroadcasterPart'
  BY <1>1, BroadcasterRests
<1>. QED  BY <1>2, <1>3, <1>4 DEF TInv, ClientPart, BroadcasterPart

-----------------------------------------------------------------------------
(* Handling requests *)

HandlerRests == UNCHANGED <<pc, mine, bpc, last, message, pending, crashed>>

\* Between broadcasts the last message is the one published last and nothing is pending.
LEMMA BetweenBroadcasts ==
  ASSUME TInv, NEW k \in DOMAIN requests, Handle(requests[k])
  PROVE  /\ pending = {} /\ message = last /\ requests' = <<>> /\ DOMAIN requests' = {}
         /\ \A g \in Subscribed : Newest(channel[subscribers[g]]) <= last
         /\ \A g \in Subscribed : channel[subscribers[g]].config.policy \in KeepsNewest =>
                                    Newest(channel[subscribers[g]]) = last
<1>1. TypeOK /\ BroadcastInv /\ GivenInv
  BY DEF TInv
<1>2. pending = {} /\ message = last
  BY <1>1, Taken DEF BroadcastInv
<1>. QED  BY <1>1, <1>2, Taken DEF GivenInv

\* What is made for a new subscriber holds the last message, if there is one.
LEMMA NewChannel ==
  ASSUME TypeOK, NEW cfg \in SubscriberConfigs,
         NEW new, new = [config |-> cfg, open |-> TRUE, buffer |-> Replay, left |-> 0]
  PROVE  /\ new \in ChannelStates /\ Queue(new) /\ Newest(new) = last
         /\ new.config = cfg /\ new.open = TRUE /\ new.left = 0
<1>1. last \in Nat /\ last \in 0 .. MaxMessages /\ MaxMessages \in Nat
  BY TopicAssumption DEF TypeOK
<1>2. cfg.size \in Nat /\ cfg.size > 0
  BY ConfigTypes
<1>3. CASE last > 0
  <2>1. /\ Replay = <<last>> /\ Replay \in Seq(1 .. MaxMessages) /\ Len(Replay) = 1
        /\ DOMAIN Replay = {1} /\ Replay[1] = last /\ Replay # <<>>
    BY <1>1, <1>3 DEF Replay
  <2>2. new \in ChannelStates /\ new.buffer = Replay /\ new.left = 0 /\ new.config = cfg
    BY <1>1, <2>1 DEF ChannelStates
  <2>3. Ordered(new) /\ Whole(new) /\ Fits(new)
    BY <1>1, <1>2, <1>3, <2>1, <2>2 DEF Ordered, Whole, Fits
  <2>4. Newest(new) = last
    BY <2>1, <2>2 DEF Newest
  <2>. QED  BY <2>2, <2>3, <2>4 DEF Queue
<1>4. CASE ~(last > 0)
  <2>1. /\ Replay = <<>> /\ Replay \in Seq(1 .. MaxMessages) /\ Len(Replay) = 0
        /\ DOMAIN Replay = {} /\ last = 0
    BY <1>1, <1>4 DEF Replay
  <2>2. new \in ChannelStates /\ new.buffer = <<>> /\ new.left = 0 /\ new.config = cfg
    BY <1>1, <2>1 DEF ChannelStates
  <2>3. DOMAIN new.buffer = {} /\ Len(new.buffer) = 0
    BY <2>1, <2>2
  <2>4. Ordered(new) /\ Whole(new) /\ Fits(new)
    BY <1>2, <2>2, <2>3 DEF Ordered, Whole, Fits
  <2>5. Newest(new) = last
    BY <2>1, <2>2 DEF Newest
  <2>. QED  BY <2>2, <2>4, <2>5 DEF Queue
<1>. QED  BY <1>3, <1>4

\* A response goes to the client that waits for it, and to no other.
LEMMA Responded ==
  ASSUME TInv, NEW k \in DOMAIN requests, NEW r, r = requests[k],
         NEW ok \in BOOLEAN, NEW i \in Channels \cup {None}, UNCHANGED <<pc, mine>>,
         reply' = IF r.from = None THEN reply ELSE [reply EXCEPT ![r.from] = Reply(ok, i)],
         r.kind # "subscribe" => i = None
  PROVE  /\ reply' \in [Clients -> [ok : BOOLEAN, channel : Channels \cup {None}] \cup {None}]
         /\ \A c \in Clients : ClientInv(c)'
         /\ \A c \in Clients : reply'[c] = reply[c]
                               \/ (reply'[c].channel = i /\ c = r.from)
<1>1. TypeOK /\ RequestInv /\ \A c \in Clients : ClientInv(c)
  BY DEF TInv
<1>2. r \in Requests
  BY <1>1 DEF TypeOK
<1>3. /\ Reply(ok, i) \in [ok : BOOLEAN, channel : Channels \cup {None}]
      /\ Reply(ok, i).channel = i /\ Reply(ok, i).ok = ok
  BY DEF Reply
<1>4. CASE r.from = None
  <2>1. reply' = reply
    BY <1>4
  <2>. QED  BY <1>1, <2>1 DEF TypeOK, ClientInv
<1>5. CASE r.from # None
  <2>1. /\ r.from \in Clients /\ reply' = [reply EXCEPT ![r.from] = Reply(ok, i)]
        /\ pc[r.from] = IF r.kind = "subscribe" THEN "subscribeSent" ELSE "unsubscribeSent"
    BY <1>1, <1>2, <1>5, RequestParts DEF RequestInv
  <2>2. /\ reply'[r.from] = Reply(ok, i) /\ \A c \in Clients \ {r.from} : reply'[c] = reply[c]
        /\ reply' \in [Clients -> [ok : BOOLEAN, channel : Channels \cup {None}] \cup {None}]
    BY <1>1, <1>3, <2>1 DEF TypeOK
  <2>3. ASSUME NEW c \in Clients PROVE ClientInv(c)'
    <3>1. CASE c = r.from
      BY <1>1, <1>3, <2>1, <2>2, <3>1 DEF ClientInv
    <3>2. CASE c # r.from
      BY <1>1, <2>2, <3>2 DEF ClientInv
    <3>. QED  BY <3>1, <3>2
  <2>. QED  BY <1>3, <2>2, <2>3
<1>. QED  BY <1>4, <1>5

\* A client is served on as long as the channels it has or is about to get are.
LEMMA ServedOn ==
  ASSUME TypeOK, NEW c \in Clients, Served(c), UNCHANGED <<pc, mine>>, reply'[c] = reply[c],
         \A j \in Channels :
            /\ mine[c] = j \/ (reply[c] # None /\ reply[c].channel = j)
            /\ Serves(j, Config[c].group)
            => Serves(j, Config[c].group)'
  PROVE  Served(c)'
<1>1. mine[c] # None => mine[c] \in Channels
  BY DEF TypeOK
<1>. QED  BY <1>1 DEF Served, Serves

LEMMA HandlerLeaves ==
  ASSUME TInv, NEW k \in DOMAIN requests, NEW r, r = requests[k], Handle(r)
  PROVE  /\ TypeOK /\ ClientPart /\ BroadcasterPart /\ channel \in [Channels -> ChannelStates]
         /\ r \in Requests /\ pending = {} /\ message = last
         /\ requests' \in Seq(Requests) /\ Len(requests') <= 1 /\ RequestInv'
         /\ \A c \in Clients : Served(c) /\ ClientInv(c)
<1>1. TypeOK /\ ClientPart /\ BroadcasterPart /\ channel \in [Channels -> ChannelStates]
  BY TInvParts, ChannelTypes
<1>2. /\ r \in Requests /\ pending = {} /\ message = last /\ DOMAIN requests' = {}
      /\ requests' \in Seq(Requests) /\ Len(requests') <= 1
  BY <1>1, Taken, BetweenBroadcasts
<1>. QED  BY <1>1, <1>2 DEF RequestInv, ClientPart

\* A client that joins its group gets the channel of the group, unless it insists on the first.
LEMMA JoinsGroup ==
  ASSUME TInv, HandlerRests, UNCHANGED <<closeVars, subscribers, channel>>,
         NEW k \in DOMAIN requests, NEW r, r = requests[k], Handle(r), r.kind = "subscribe",
         NEW g \in Groups, g = r.config.group, subscribers[g] # None,
         NEW ok \in BOOLEAN,
         reply' = IF r.from = None THEN reply
                  ELSE [reply EXCEPT ![r.from] = Reply(ok, subscribers[g])],
         receiving' = (receiving \/ (SubscriberAware /\ ok))
  PROVE  TInv'
<1>0. /\ TypeOK /\ ClientPart /\ BroadcasterPart /\ channel \in [Channels -> ChannelStates]
      /\ r \in Requests /\ pending = {} /\ message = last
      /\ requests' \in Seq(Requests) /\ Len(requests') <= 1 /\ RequestInv'
      /\ \A c \in Clients : Served(c)
  BY HandlerLeaves
<1>1. PICK i \in Channels : i = subscribers[g]
  BY <1>0 DEF TypeOK
<1>2. g \in Subscribed /\ Subscribed' = Subscribed
  BY DEF Subscribed
<1>3. /\ reply' \in [Clients -> [ok : BOOLEAN, channel : Channels \cup {None}] \cup {None}]
      /\ \A c \in Clients : ClientInv(c)'
      /\ \A c \in Clients : reply'[c] = reply[c] \/ (reply'[c].channel = i /\ c = r.from)
  BY <1>1, Responded DEF HandlerRests
<1>4. receiving' \in BOOLEAN /\ (SubscriberAware => (receiving <=> receiving'))
  BY <1>0, <1>2, TopicAssumption DEF TypeOK, BroadcasterPart, PausedWithoutSubscribers
<1>5. TypeOK'
  BY <1>0, <1>3, <1>4 DEF TypeOK, HandlerRests, closeVars
<1>6. Serves(i, g)'
  BY <1>0, <1>1, <1>2 DEF Serves, BroadcasterPart, MapInv
<1>7. ASSUME NEW c \in Clients PROVE Served(c)'
  <2>1. CASE reply'[c] = reply[c]
    BY <1>0, <2>1, ServedOn DEF Serves, HandlerRests
  <2>2. CASE reply'[c].channel = i /\ c = r.from
    <3>1. Config[c].group = g
      BY <1>0, <2>2, TopicAssumption DEF ClientPart, RequestInv
    <3>. QED  BY <1>0, <1>6, <2>2, <3>1 DEF Served, Serves, HandlerRests
  <2>. QED  BY <1>3, <2>1, <2>2
<1>8. MapInv' /\ \A j \in Channels : Queue(channel[j])'
  BY <1>0, <1>2 DEF BroadcasterPart, MapInv
<1>9. PausedWithoutSubscribers' /\ BroadcastInv'
  BY <1>0, <1>2, <1>4
     DEF BroadcasterPart, PausedWithoutSubscribers, BroadcastInv, HandlerRests
<1>10. GivenInv'
  BY <1>0, <1>2 DEF BroadcasterPart, GivenInv, HandlerRests, Newest
<1>. QED  BY <1>0, <1>3, <1>5, <1>7, <1>8, <1>9, <1>10 DEF TInv

\* The first client of a group gets a channel that is made for it.
LEMMA StartsGroup ==
  ASSUME TInv, HandlerRests, UNCHANGED closeVars,
         NEW k \in DOMAIN requests, NEW r, r = requests[k], Handle(r), r.kind = "subscribe",
         NEW g \in Groups, g = r.config.group, subscribers[g] = None,
         NEW i \in Unused, subscribers' = [subscribers EXCEPT ![g] = i],
         channel' = [channel EXCEPT ![i] = [config |-> r.config, open |-> TRUE,
                                            buffer |-> Replay, left |-> 0]],
         reply' \in [Clients -> [ok : BOOLEAN, channel : Channels \cup {None}] \cup {None}],
         \A c \in Clients : ClientInv(c)',
         \A c \in Clients : reply'[c] = reply[c] \/ (reply'[c].channel = i /\ c = r.from),
         receiving' = (receiving \/ SubscriberAware)
  PROVE  TInv'
<1>. DEFINE new == [config |-> r.config, open |-> TRUE, buffer |-> Replay, left |-> 0]
<1>0. /\ TypeOK /\ ClientPart /\ BroadcasterPart /\ channel \in [Channels -> ChannelStates]
      /\ r \in Requests /\ pending = {} /\ message = last
      /\ requests' \in Seq(Requests) /\ Len(requests') <= 1 /\ RequestInv'
      /\ \A c \in Clients : Served(c)
  BY HandlerLeaves
<1>1. /\ i \in Channels /\ \A h \in Groups : subscribers[h] # i
      /\ \A c \in Clients : mine[c] # i /\ (reply[c] # None => reply[c].channel # i)
  BY DEF Unused
<1>2. r.config \in SubscriberConfigs
  BY <1>0, RequestParts
<1>3. /\ new \in ChannelStates /\ Queue(new) /\ Newest(new) = last
      /\ new.config = r.config /\ new.open = TRUE
  BY <1>0, <1>2, NewChannel
<1>. HIDE DEF new
<1>4. /\ channel' \in [Channels -> ChannelStates] /\ channel'[i] = new
      /\ \A j \in Channels \ {i} : channel'[j] = channel[j]
  BY <1>0, <1>1, <1>3 DEF new
<1>5. /\ subscribers' \in [Groups -> Channels \cup {None}] /\ subscribers'[g] = i /\ i # None
      /\ \A h \in Groups \ {g} : subscribers'[h] = subscribers[h]
  BY <1>0, <1>1, TopicAssumption DEF TypeOK
<1>6. Subscribed' = Subscribed \cup {g} /\ g \notin Subscribed
  BY <1>5 DEF Subscribed
<1>7. /\ reply' \in [Clients -> [ok : BOOLEAN, channel : Channels \cup {None}] \cup {None}]
      /\ \A c \in Clients : ClientInv(c)'
      /\ \A c \in Clients : reply'[c] = reply[c] \/ (reply'[c].channel = i /\ c = r.from)
  OBVIOUS
<1>8. TypeOK'
  BY <1>0, <1>4, <1>5, <1>7, TopicAssumption
     DEF TypeOK, HandlerRests, closeVars, ChannelStates
<1>9. Serves(i, g)'
  BY <1>2, <1>3, <1>4, <1>5 DEF Serves
<1>10. ASSUME NEW j \in Channels \ {i}, NEW h \in Groups, Serves(j, h) PROVE Serves(j, h)'
  <2>1. channel'[j] = channel[j]
    BY <1>4
  <2>2. channel[j].open => h # g
    BY <1>10, TopicAssumption DEF Serves
  <2>. QED  BY <1>5, <1>10, <2>1, <2>2 DEF Serves
<1>11. ASSUME NEW c \in Clients PROVE Served(c)'
  <2>1. Config[c].group \in Groups
    BY TopicAssumption
  <2>2. CASE reply'[c] = reply[c]
    BY <1>0, <1>1, <1>10, <2>1, <2>2, ServedOn DEF HandlerRests
  <2>3. CASE reply'[c].channel = i /\ c = r.from
    <3>1. Config[c].group = g
      BY <1>0, <2>3, TopicAssumption DEF ClientPart, RequestInv
    <3>2. mine[c] = None
      BY <1>0, <2>3, TopicAssumption DEF ClientPart, RequestInv, ClientInv
    <3>. QED  BY <1>1, <1>9, <2>3, <3>1, <3>2 DEF Served, Serves, HandlerRests
  <2>. QED  BY <1>7, <2>2, <2>3
<1>12. MapInv'
  <2>1. \A h \in Subscribed : subscribers'[h] = subscribers[h] /\ subscribers[h] \in Channels \ {i}
    BY <1>0, <1>1, <1>5, <1>6, MapTells DEF BroadcasterPart, Subscribed
  <2>2. \A h \in Subscribed' : /\ channel'[subscribers'[h]].open
                               /\ channel'[subscribers'[h]].config \in SubscriberConfigs
                               /\ channel'[subscribers'[h]].config.group = h
    BY <1>0, <1>2, <1>3, <1>4, <1>5, <1>6, <2>1 DEF BroadcasterPart, MapInv
  <2>3. ASSUME NEW j \in Channels, channel'[j].open PROVE \E h \in Groups : subscribers'[h] = j
    <3>1. CASE j = i
      BY <1>5, <3>1
    <3>2. CASE j # i
      <4>1. PICK h \in Groups : subscribers[h] = j
        BY <1>0, <1>4, <2>3, <3>2 DEF BroadcasterPart, MapInv
      <4>2. h # g
        BY <4>1, TopicAssumption
      <4>. QED  BY <1>5, <4>1, <4>2
    <3>. QED  BY <3>1, <3>2
  <2>. QED  BY <2>2, <2>3 DEF MapInv
<1>13. PausedWithoutSubscribers' /\ BroadcastInv'
  BY <1>0, <1>6 DEF BroadcasterPart, PausedWithoutSubscribers, BroadcastInv, HandlerRests
<1>14. GivenInv'
  <2>1. \A h \in Subscribed : channel'[subscribers'[h]] = channel[subscribers[h]]
    BY <1>0, <1>1, <1>4, <1>5, <1>6, MapTells DEF BroadcasterPart
  <2>2. /\ \A h \in Subscribed : Newest(channel[subscribers[h]]) <= last
        /\ \A h \in Subscribed : channel[subscribers[h]].config.policy \in KeepsNewest =>
                                   Newest(channel[subscribers[h]]) = last
    BY BetweenBroadcasts
  <2>3. last \in Nat
    BY <1>0, TopicAssumption DEF TypeOK
  <2>4. ASSUME NEW h \in Subscribed'
        PROVE  LET ch == channel'[subscribers'[h]] IN
               /\ Newest(ch) <= last
               /\ ch.config.policy \in KeepsNewest => Newest(ch) = last
    <3>1. CASE h = g
      <4>1. channel'[subscribers'[h]] = new
        BY <1>4, <1>5, <3>1
      <4>2. Newest(channel'[subscribers'[h]]) = last
        BY <1>3, <4>1
      <4>. QED  BY <2>3, <4>2
    <3>2. CASE h # g
      <4>1. h \in Subscribed
        BY <1>6, <3>2
      <4>. QED  BY <2>1, <2>2, <4>1
    <3>. QED  BY <3>1, <3>2
  <2>. QED  BY <1>0, <2>4 DEF GivenInv, HandlerRests, Newest
<1>15. \A j \in Channels : Queue(channel[j])'
  <2>1. \A j \in Channels : Queue(channel'[j])
    BY <1>0, <1>3, <1>4 DEF BroadcasterPart
  <2>. QED  BY <2>1 DEF Queue, Ordered, Whole, Fits
<1>. QED  BY <1>0, <1>7, <1>8, <1>11, <1>12, <1>13, <1>14, <1>15 DEF TInv

LEMMA SubscribeStays ==
  ASSUME TInv, NEW k \in DOMAIN requests, HandleSubscribe(requests[k])
  PROVE  TInv'
<1>. DEFINE r == requests[k]
            g == r.config.group
<1>1. HandlerRests /\ UNCHANGED closeVars /\ Handle(r) /\ r.kind = "subscribe"
  BY DEF HandleSubscribe, HandlerRests
<1>2. g \in Groups /\ r.config \in SubscriberConfigs
  BY SubscribeHandled
<1>3. CASE /\ subscribers[g] # None /\ subscribers' = subscribers /\ channel' = channel
           /\ reply' = IF r.from = None THEN reply
                       ELSE [reply EXCEPT ![r.from] = Reply(~r.config.errIfExists,
                                                            subscribers[g])]
           /\ receiving' = (receiving \/ (SubscriberAware /\ ~r.config.errIfExists))
  <2>1. (~r.config.errIfExists) \in BOOLEAN
    OBVIOUS
  <2>. HIDE DEF r, g
  <2>. QED  BY <1>1, <1>2, <1>3, <2>1, JoinsGroup DEF r, g
<1>4. ASSUME NEW i \in Unused,
             subscribers[g] = None, subscribers' = [subscribers EXCEPT ![g] = i],
             channel' = [channel EXCEPT ![i] = [config |-> r.config, open |-> TRUE,
                                                buffer |-> Replay, left |-> 0]],
             reply' = IF r.from = None THEN reply
                      ELSE [reply EXCEPT ![r.from] = Reply(TRUE, i)],
             receiving' = (receiving \/ SubscriberAware)
      PROVE  TInv'
  <2>1. i \in Channels \cup {None} /\ UNCHANGED <<pc, mine>> /\ TRUE \in BOOLEAN
    BY <1>1 DEF HandlerRests, Unused
  <2>. HIDE DEF r, g
  <2>2. /\ reply' \in [Clients -> [ok : BOOLEAN, channel : Channels \cup {None}] \cup {None}]
        /\ \A c \in Clients : ClientInv(c)'
        /\ \A c \in Clients : reply'[c] = reply[c] \/ (reply'[c].channel = i /\ c = r.from)
    BY <1>1, <1>4, <2>1, Responded DEF r
  <2>. QED  BY <1>1, <1>2, <1>4, <2>2, StartsGroup DEF r, g
<1>. HIDE DEF r, g
<1>5. \/ /\ subscribers[g] # None /\ subscribers' = subscribers /\ channel' = channel
         /\ reply' = IF r.from = None THEN reply
                     ELSE [reply EXCEPT ![r.from] = Reply(~r.config.errIfExists,
                                                          subscribers[g])]
         /\ receiving' = (receiving \/ (SubscriberAware /\ ~r.config.errIfExists))
      \/ \E i \in Unused :
           /\ subscribers[g] = None /\ subscribers' = [subscribers EXCEPT ![g] = i]
           /\ channel' = [channel EXCEPT ![i] = [config |-> r.config, open |-> TRUE,
                                                 buffer |-> Replay, left |-> 0]]
           /\ reply' = IF r.from = None THEN reply
                       ELSE [reply EXCEPT ![r.from] = Reply(TRUE, i)]
           /\ receiving' = (receiving \/ SubscriberAware)
  BY SubscribeHandled DEF r, g
<1>. QED  BY <1>3, <1>4, <1>5

\* A response without a channel serves nobody, and takes nobody's channel away.
LEMMA ServedWithout ==
  ASSUME TInv, NEW k \in DOMAIN requests, NEW r, r = requests[k], r.kind = "unsubscribe",
         UNCHANGED <<pc, mine>>, NEW c \in Clients,
         reply'[c] = reply[c] \/ c = r.from,
         \A j \in Channels, h \in Groups : Serves(j, h) => Serves(j, h)'
  PROVE  Served(c)'
<1>1. TypeOK /\ RequestInv /\ Served(c) /\ Config[c].group \in Groups
  BY TopicAssumption DEF TInv
<1>2. CASE reply'[c] = reply[c]
  BY <1>1, <1>2, ServedOn
<1>3. CASE c = r.from
  <2>1. pc'[c] # "subscribeSent"
    BY <1>1, <1>3, TopicAssumption DEF RequestInv
  <2>2. mine[c] # None => mine[c] \in Channels
    BY <1>1 DEF TypeOK
  <2>. QED  BY <1>1, <2>1, <2>2 DEF Served, Serves
<1>. QED  BY <1>2, <1>3

\* The group of the request leaves the map, and its channel is closed.
LEMMA GroupLeaves ==
  ASSUME TInv, HandlerRests, UNCHANGED closeVars,
         NEW k \in DOMAIN requests, NEW r, r = requests[k], Handle(r), r.kind = "unsubscribe",
         NEW g \in Groups, NEW i \in Channels, subscribers[g] = i,
         subscribers' = [subscribers EXCEPT ![g] = None],
         channel' = [channel EXCEPT ![i].open = FALSE],
         reply' \in [Clients -> [ok : BOOLEAN, channel : Channels \cup {None}] \cup {None}],
         \A c \in Clients : ClientInv(c)',
         \A c \in Clients : reply'[c] = reply[c] \/ c = r.from,
         receiving' = (receiving /\ ~(SubscriberAware /\ Subscribed \subseteq {g}))
  PROVE  TInv'
<1>. DEFINE new == [channel[i] EXCEPT !.open = FALSE]
<1>0. /\ TypeOK /\ ClientPart /\ BroadcasterPart /\ channel \in [Channels -> ChannelStates]
      /\ r \in Requests /\ pending = {} /\ message = last
      /\ requests' \in Seq(Requests) /\ Len(requests') <= 1 /\ RequestInv'
  BY HandlerLeaves
<1>1. /\ new \in ChannelStates /\ new.open = FALSE /\ new.config = channel[i].config
      /\ new.buffer = channel[i].buffer /\ new.left = channel[i].left
  BY <1>0 DEF ChannelStates
<1>2. channel' = [channel EXCEPT ![i] = new]
  BY <1>0
<1>. HIDE DEF new
<1>3. /\ channel' \in [Channels -> ChannelStates] /\ channel'[i] = new
      /\ \A j \in Channels \ {i} : channel'[j] = channel[j]
  BY <1>0, <1>1, <1>2
<1>4. /\ subscribers' \in [Groups -> Channels \cup {None}] /\ subscribers'[g] = None
      /\ \A h \in Groups \ {g} : subscribers'[h] = subscribers[h]
  BY <1>0 DEF TypeOK
<1>5. Subscribed' = Subscribed \ {g} /\ g \in Subscribed /\ Subscribed \subseteq Groups
  BY <1>4, TopicAssumption DEF Subscribed
<1>6. \A h \in Subscribed \ {g} : /\ subscribers'[h] = subscribers[h]
                                  /\ channel'[subscribers'[h]] = channel[subscribers[h]]
  BY <1>0, <1>3, <1>4, <1>5, MapTells DEF BroadcasterPart
<1>7. TypeOK'
  BY <1>0, <1>3, <1>4 DEF TypeOK, HandlerRests, closeVars, ChannelStates
<1>8. ASSUME NEW j \in Channels, NEW h \in Groups, Serves(j, h) PROVE Serves(j, h)'
  <2>1. CASE j = i
    BY <1>1, <1>3, <1>8, <2>1 DEF Serves
  <2>2. CASE j # i
    BY <1>3, <1>4, <1>8, <2>2 DEF Serves
  <2>. QED  BY <2>1, <2>2
<1>9. \A c \in Clients : Served(c)'
  BY <1>8, ServedWithout DEF HandlerRests
<1>10. MapInv'
  <2>1. \A h \in Subscribed' : /\ channel'[subscribers'[h]].open
                               /\ channel'[subscribers'[h]].config \in SubscriberConfigs
                               /\ channel'[subscribers'[h]].config.group = h
    BY <1>0, <1>5, <1>6 DEF BroadcasterPart, MapInv
  <2>2. ASSUME NEW j \in Channels, channel'[j].open PROVE \E h \in Groups : subscribers'[h] = j
    <3>1. j # i
      BY <1>1, <1>3, <2>2
    <3>2. PICK h \in Groups : subscribers[h] = j
      BY <1>0, <1>3, <2>2, <3>1 DEF BroadcasterPart, MapInv
    <3>. QED  BY <1>4, <3>1, <3>2
  <2>. QED  BY <2>1, <2>2 DEF MapInv
<1>11. PausedWithoutSubscribers' /\ BroadcastInv'
  BY <1>0, <1>5 DEF BroadcasterPart, PausedWithoutSubscribers, BroadcastInv, HandlerRests
<1>12. GivenInv'
  BY <1>0, <1>5, <1>6 DEF BroadcasterPart, GivenInv, HandlerRests, Newest
<1>13. \A j \in Channels : Queue(channel[j])'
  <2>1. Queue(new)
    BY <1>0, <1>1 DEF BroadcasterPart, Queue, Ordered, Whole, Fits
  <2>2. \A j \in Channels : Queue(channel'[j])
    BY <1>0, <1>3, <2>1 DEF BroadcasterPart
  <2>. QED  BY <2>2 DEF Queue, Ordered, Whole, Fits
<1>. QED  BY <1>0, <1>7, <1>9, <1>10, <1>11, <1>12, <1>13 DEF TInv

\* A channel that is no longer in the map changes nothing.
LEMMA NobodyLeaves ==
  ASSUME TInv, HandlerRests, UNCHANGED <<closeVars, subscribers, channel>>,
         NEW k \in DOMAIN requests, NEW r, r = requests[k], Handle(r), r.kind = "unsubscribe",
         NEW g \in Groups,
         reply' \in [Clients -> [ok : BOOLEAN, channel : Channels \cup {None}] \cup {None}],
         \A c \in Clients : ClientInv(c)',
         \A c \in Clients : reply'[c] = reply[c] \/ c = r.from,
         receiving' = (receiving /\ ~(SubscriberAware /\ subscribers[g] = None
                                                      /\ Subscribed \subseteq {g}))
  PROVE  TInv'
<1>0. /\ TypeOK /\ ClientPart /\ BroadcasterPart /\ channel \in [Channels -> ChannelStates]
      /\ r \in Requests /\ pending = {} /\ message = last
      /\ requests' \in Seq(Requests) /\ Len(requests') <= 1 /\ RequestInv'
  BY HandlerLeaves
<1>1. Subscribed' = Subscribed
  BY DEF Subscribed
<1>2. receiving' \in BOOLEAN /\ (SubscriberAware => (receiving <=> receiving'))
  <2>1. subscribers[g] = None /\ Subscribed \subseteq {g} => Subscribed = {}
    BY DEF Subscribed
  <2>. QED  BY <1>0, <2>1 DEF TypeOK, BroadcasterPart, PausedWithoutSubscribers
<1>3. TypeOK'
  BY <1>0, <1>2 DEF TypeOK, HandlerRests, closeVars
<1>4. \A j \in Channels, h \in Groups : Serves(j, h) => Serves(j, h)'
  BY DEF Serves
<1>5. \A c \in Clients : Served(c)'
  BY <1>4, ServedWithout DEF HandlerRests
<1>6. MapInv' /\ \A j \in Channels : Queue(channel[j])'
  BY <1>0, <1>1 DEF BroadcasterPart, MapInv
<1>7. PausedWithoutSubscribers' /\ BroadcastInv'
  BY <1>0, <1>1, <1>2
     DEF BroadcasterPart, PausedWithoutSubscribers, BroadcastInv, HandlerRests
<1>8. GivenInv'
  BY <1>0, <1>1 DEF BroadcasterPart, GivenInv, HandlerRests, Newest
<1>. QED  BY <1>0, <1>3, <1>5, <1>6, <1>7, <1>8 DEF TInv

LEMMA UnsubscribeStays ==
  ASSUME TInv, NEW k \in DOMAIN requests, HandleUnsubscribe(requests[k])
  PROVE  TInv'
<1>. DEFINE r == requests[k]
            answered == subscribers[r.group] = None \/ Matches(r)
<1>1. HandlerRests /\ UNCHANGED closeVars /\ Handle(r) /\ r.kind = "unsubscribe"
  BY DEF HandleUnsubscribe, HandlerRests
<1>2. r \in Requests /\ r.group \in Groups /\ r.channel \in Channels
  BY <1>1, HandlerLeaves, RequestParts
<1>3. /\ Respond(r, answered, None)
      /\ receiving' = (receiving /\ ~(SubscriberAware /\ answered /\ LastGroup(r)))
      /\ subscribers' = IF Matches(r) THEN Remaining(r) ELSE subscribers
      /\ channel' = IF Matches(r) THEN [channel EXCEPT ![r.channel].open = FALSE] ELSE channel
  BY DEF HandleUnsubscribe
<1>4. /\ reply' \in [Clients -> [ok : BOOLEAN, channel : Channels \cup {None}] \cup {None}]
      /\ \A c \in Clients : ClientInv(c)'
      /\ \A c \in Clients : reply'[c] = reply[c] \/ c = r.from
  <2>1. answered \in BOOLEAN /\ None \in Channels \cup {None} /\ UNCHANGED <<pc, mine>>
    BY <1>1 DEF HandlerRests
  <2>. HIDE DEF answered, r
  <2>2. reply' = IF r.from = None THEN reply ELSE [reply EXCEPT ![r.from] = Reply(answered, None)]
    BY <1>3 DEF Respond
  <2>. QED  BY <2>1, <2>2, Responded DEF r
<1>5. CASE Matches(r)
  <2>1. /\ subscribers[r.group] = r.channel /\ subscribers' = [subscribers EXCEPT ![r.group] = None]
        /\ channel' = [channel EXCEPT ![r.channel].open = FALSE]
        /\ receiving' = (receiving /\ ~(SubscriberAware /\ Subscribed \subseteq {r.group}))
    BY <1>3, <1>5 DEF Matches, Remaining, LastGroup
  <2>. HIDE DEF r
  <2>. QED  BY <1>1, <1>2, <1>4, <2>1, GroupLeaves DEF r
<1>6. CASE ~Matches(r)
  <2>1. /\ UNCHANGED <<subscribers, channel>>
        /\ receiving' = (receiving /\ ~(SubscriberAware /\ subscribers[r.group] = None
                                                        /\ Subscribed \subseteq {r.group}))
    BY <1>3, <1>6 DEF LastGroup
  <2>. HIDE DEF r
  <2>. QED  BY <1>1, <1>2, <1>4, <2>1, NobodyLeaves DEF r
<1>. QED  BY <1>5, <1>6

\* Closing empties the map and closes the channels that were in it.
LEMMA HandleCloseStays ==
  ASSUME TInv, NEW k \in DOMAIN requests, HandleClose(requests[k])
  PROVE  TInv'
<1>0. /\ TypeOK /\ ClientPart /\ BroadcasterPart /\ channel \in [Channels -> ChannelStates]
      /\ pending = {} /\ message = last
      /\ requests' \in Seq(Requests) /\ Len(requests') <= 1 /\ RequestInv'
      /\ \A c \in Clients : Served(c) /\ ClientInv(c)
  BY HandlerLeaves DEF HandleClose
<1>1. /\ UNCHANGED <<clientVars, requestsOpen, publishOpen, closed, bpc, last, message, pending,
                     crashed>>
      /\ receiving' = FALSE /\ closer' = "replied"
      /\ subscribers' = [g \in Groups |-> None]
      /\ channel' = [i \in Channels |->
                       [channel[i] EXCEPT !.open = @ /\ \A g \in Groups : subscribers[g] # i]]
  BY DEF HandleClose
<1>2. channel \in [Channels -> ChannelStates] /\ channel' \in [Channels -> ChannelStates]
      /\ \A i \in Channels : /\ channel'[i].config = channel[i].config
                             /\ channel'[i].buffer = channel[i].buffer
                             /\ channel'[i].left = channel[i].left
  <2>1. ASSUME NEW i \in Channels
        PROVE  LET new == [channel[i] EXCEPT !.open = @ /\ \A g \in Groups : subscribers[g] # i]
               IN  /\ new \in ChannelStates /\ new.config = channel[i].config
                   /\ new.buffer = channel[i].buffer /\ new.left = channel[i].left
    <3>1. PICK ch \in ChannelStates : ch = channel[i]
      BY <1>0
    <3>2. ASSUME NEW o \in BOOLEAN
          PROVE  LET new == [ch EXCEPT !.open = o]
                 IN  /\ new \in ChannelStates /\ new.config = ch.config
                     /\ new.buffer = ch.buffer /\ new.left = ch.left
      BY DEF ChannelStates
    <3>3. (ch.open /\ \A g \in Groups : subscribers[g] # i) \in BOOLEAN
      OBVIOUS
    <3>. QED  BY <3>1, <3>2, <3>3
  <2>. QED  BY <1>0, <1>1, <2>1
<1>3. \A i \in Channels : ~channel'[i].open
  <2>1. ASSUME NEW i \in Channels
        PROVE  channel'[i].open <=> channel[i].open /\ \A g \in Groups : subscribers[g] # i
    BY <1>0, <1>1, <2>1 DEF ChannelStates
  <2>. QED  BY <1>0, <2>1 DEF BroadcasterPart, MapInv
<1>4. TypeOK'
  BY <1>0, <1>1, <1>2 DEF TypeOK, ChannelStates, clientVars
<1>5. \A c \in Clients : ClientInv(c)'
  BY <1>0, <1>1 DEF ClientInv, clientVars
<1>6. ASSUME NEW c \in Clients PROVE Served(c)'
  <2>1. \A j \in Channels : Serves(j, Config[c].group) => Serves(j, Config[c].group)'
    BY <1>2, <1>3 DEF Serves
  <2>. QED  BY <1>0, <1>1, <2>1, ServedOn DEF clientVars
<1>7. Subscribed' = {}
  BY <1>1 DEF Subscribed
<1>8. MapInv' /\ GivenInv'
  BY <1>3, <1>7 DEF MapInv, GivenInv
<1>9. PausedWithoutSubscribers' /\ BroadcastInv'
  BY <1>0, <1>1, <1>7 DEF PausedWithoutSubscribers, BroadcastInv, BroadcasterPart
<1>10. \A i \in Channels : Queue(channel[i])'
  BY <1>0, <1>2 DEF BroadcasterPart, Queue, Ordered, Whole, Fits
<1>. QED  BY <1>0, <1>4, <1>5, <1>6, <1>8, <1>9, <1>10 DEF TInv

-----------------------------------------------------------------------------
(* The invariant *)

LEMMA TopicBegins == Init => TInv
<1>. SUFFICES ASSUME Init PROVE TInv
  OBVIOUS
<1>. USE DEF Init
<1>1. UnusedChannel \in ChannelStates /\ UnusedChannel.buffer = <<>> /\ ~UnusedChannel.open
  BY TopicAssumption DEF UnusedChannel, ChannelStates
<1>2. channel \in [Channels -> ChannelStates] /\ \A i \in Channels : channel[i] = UnusedChannel
  BY <1>1
<1>3. requests \in Seq(Requests) /\ Len(requests) = 0 /\ DOMAIN requests = {}
  OBVIOUS
<1>4. TypeOK
  <2>1. receiving \in BOOLEAN
    OBVIOUS
  <2>2. subscribers \in [Groups -> Channels \cup {None}] /\ pending \subseteq Groups
    OBVIOUS
  <2>3. /\ pc \in [Clients -> {"idle", "subscribing", "subscribeSent", "subscribed",
                             "unsubscribing", "unsubscribeSent"}]
        /\ mine \in [Clients -> Channels \cup {None}]
        /\ reply \in [Clients -> [ok : BOOLEAN, channel : Channels \cup {None}] \cup {None}]
    OBVIOUS
  <2>4. last \in 0 .. MaxMessages /\ message \in 0 .. MaxMessages
    BY TopicAssumption
  <2>5. requests \in Seq(Requests) /\ Len(requests) <= 1
    BY <1>3
  <2>6. /\ requestsOpen \in BOOLEAN /\ publishOpen \in BOOLEAN /\ closed \in BOOLEAN
        /\ crashed \in BOOLEAN
        /\ closer \in {"idle", "sending", "sent", "replied", "done"}
        /\ bpc \in {"select", "sending", "stopped"}
    OBVIOUS
  <2>. HIDE DEF Init
  <2>. QED  BY <1>2, <2>1, <2>2, <2>3, <2>4, <2>5, <2>6 DEF TypeOK, ChannelStates
<1>5. Subscribed = {}
  BY DEF Subscribed
<1>6. RequestInv /\ GivenInv /\ BroadcastInv /\ PausedWithoutSubscribers
  <2>1. RequestInv
    BY <1>3 DEF RequestInv
  <2>2. GivenInv
    BY <1>5 DEF GivenInv
  <2>3. BroadcastInv
    BY <1>5 DEF BroadcastInv
  <2>4. receiving <=> ~SubscriberAware
    OBVIOUS
  <2>5. PausedWithoutSubscribers
    BY <1>5, <2>4 DEF PausedWithoutSubscribers
  <2>. QED  BY <2>1, <2>2, <2>3, <2>5
<1>7. MapInv
  BY <1>1, <1>2, <1>5 DEF MapInv
<1>8. \A c \in Clients : ClientInv(c) /\ Served(c)
  BY DEF ClientInv, Served
<1>9. Queue(UnusedChannel)
  <2>1. DOMAIN UnusedChannel.buffer = {} /\ Len(UnusedChannel.buffer) = 0
    BY <1>1
  <2>2. \A cfg \in SubscriberConfigs : 0 <= cfg.size
    BY ConfigTypes
  <2>. QED  BY <1>1, <2>1, <2>2 DEF Queue, Ordered, Whole, Fits
<1>. QED  BY <1>2, <1>4, <1>6, <1>7, <1>8, <1>9 DEF TInv

LEMMA TopicKept == TInv /\ [Next]_vars => TInv'
<1>. SUFFICES ASSUME TInv, [Next]_vars PROVE TInv'
  OBVIOUS
<1>1. CASE CloserStep
  BY <1>1, CloseStays
<1>2. CASE BroadcasterStep
  BY <1>2, PublishStays, EndBroadcastStays, StopStays, DeliverStays, SubscribeStays,
     UnsubscribeStays, HandleCloseStays DEF BroadcasterStep
<1>3. ASSUME NEW c \in Clients, ClientStep(c) PROVE TInv'
  <2>1. CASE Receive(c)
    BY <2>1, ReceiveStays
  <2>2. CASE \/ Subscribe(c) \/ SendRequest(c) \/ TakeReply(c) \/ GiveUp(c)
             \/ ReceiveClosed(c) \/ Unsubscribe(c)
    <3>1. TypeOK' /\ ClientPart'
      BY <2>2, ClientTypes, ClientKept
    <3>2. UNCHANGED <<receiving, subscribers, channel, last, message, pending, bpc>>
      BY <2>2 DEF Subscribe, SendRequest, TakeReply, GiveUp, ReceiveClosed, Unsubscribe,
                  broadcastVars
    <3>3. BroadcasterPart'
      BY <3>2, BroadcasterRests
    <3>. QED  BY <3>1, <3>3 DEF TInv, ClientPart, BroadcasterPart
  <2>. QED  BY <1>3, <2>1, <2>2 DEF ClientStep
<1>4. CASE UNCHANGED vars
  <2>1. UNCHANGED <<pc, mine, reply, requests, requestsOpen, publishOpen, closed, closer, bpc,
                    receiving, subscribers, last, message, pending, channel, crashed>>
    BY <1>4 DEF vars, clientVars, closeVars, broadcastVars
  <2>2. TypeOK'
    BY <2>1 DEF TInv, TypeOK
  <2>3. ClientPart' /\ BroadcasterPart'
    BY <2>1, StillServed, BroadcasterRests
  <2>. QED  BY <2>2, <2>3 DEF TInv, ClientPart, BroadcasterPart
<1>. QED  BY <1>1, <1>2, <1>3, <1>4 DEF Next, Terminated

\* The inductive invariant holds in every reachable state of the specification.
THEOREM TopicInvariant == Spec => []TInv
BY TopicBegins, TopicKept, PTL DEF Spec

-----------------------------------------------------------------------------
(* What follows *)

\* Types, with at most one request in the request channel (intracom/topic.go:53).
THEOREM TopicTypes == Spec => []TypeOK
<1>1. TInv => TypeOK
  BY DEF TInv
<1>. QED  BY <1>1, TopicInvariant, PTL

\* The broadcaster sends to open channels only, each in the map under the group it was made
\* for, and leaves no open channel behind (broadcast_sync.go:17-137).
THEOREM MapIsExact == Spec => []MapHoldsOpenChannels
<1>1. TInv => MapHoldsOpenChannels
  <2>. SUFFICES ASSUME TInv PROVE MapHoldsOpenChannels
    OBVIOUS
  <2>1. TypeOK /\ MapInv
    BY DEF TInv
  <2>2. \A g, h \in Subscribed : subscribers[g] = subscribers[h] => g = h
    BY <2>1, MapTells
  <2>. QED  BY <2>1, <2>2 DEF MapInv, MapHoldsOpenChannels
<1>. QED  BY <1>1, TopicInvariant, PTL

\* No client is left receiving from an open channel that the broadcaster does not serve,
\* however subscribing, unsubscribing and giving up interleave (broadcast_sync.go:59-115).
THEOREM NobodyForgotten == Spec => []ReceiversAreServed
<1>1. TInv => ReceiversAreServed
  BY DEF TInv, ClientInv, Served, Serves, ReceiversAreServed
<1>. QED  BY <1>1, TopicInvariant, PTL

\* A SubscriberAware broadcaster takes messages exactly while it has subscribers
\* (broadcast_sync.go:84-88 and 111-115).
THEOREM PausesExactly == Spec => []PausedWithoutSubscribers
<1>1. TInv => PausedWithoutSubscribers
  BY DEF TInv
<1>. QED  BY <1>1, TopicInvariant, PTL

\* Between broadcasts the newest message was given to every subscriber that drops older ones
\* or none, late ones included (broadcast_sync.go:40-46 and 72-78, buffer_policy.go).
THEOREM NewestReachesAll == Spec => []LatestHeld
<1>1. TInv => LatestHeld
  BY DEF TInv, BroadcastInv, GivenInv, LatestHeld
<1>. QED  BY <1>1, TopicInvariant, PTL
=============================================================================
