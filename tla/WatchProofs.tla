---------------------------- MODULE WatchProofs -----------------------------
(***************************************************************************)
(* Proofs about Watch, for any services, any watches and any number of     *)
(* updates: types, that a watch which shares its consumer group with no    *)
(* other stays open until it is cancelled, and that states reach a caller  *)
(* in the order they were published, also when watches share a group.      *)
(***************************************************************************)
EXTENDS Watch, SequenceTheorems, TLAPS

(***************************************************************************)
(* The inductive invariant                                                 *)
(***************************************************************************)

Begun(w) == pc[w] \notin {"off", "subscribing"}
Receiving(w) == pc[w] \in {"select", "sending"}

\* A group has an open channel, which a watch of that group made when it began.
GroupChannels ==
    \A g \in Groups : subscribers[g] # None =>
        /\ Group(subscribers[g]) = g /\ open[subscribers[g]]
        /\ Begun(subscribers[g])

\* What is in a channel has been published.
BuffersPublished == \A c \in Watches : buffer[c] # <<>> => buffer[c][1].n <= count

\* A watch that has not begun has received nothing, and its channel is not made.
Fresh(w) ==
    ~Begun(w) => /\ sub[w] = None /\ out[w] = <<>> /\ seen[w] = 0
                 /\ buffer[w] = <<>> /\ ~open[w]

\* A watch that has begun receives from a channel of its group.
OwnGroup(w) ==
    /\ sub[w] # None => Group(sub[w]) = Group(w) /\ Begun(sub[w])
    /\ pc[w] \in {"select", "sending", "leaving"} => sub[w] # None

\* A watch that is alone has the channel of its group to itself.
AloneKeeps(w) ==
    Alone(w) => /\ ~Begun(w) => subscribers[Group(w)] = None
                /\ Receiving(w) => sub[w] = w /\ subscribers[Group(w)] = w
                /\ pc[w] \in {"leaving", "ended"} => done[w]

\* The messages between a topic and a caller, and the updates published, are in order.
Ordered(w) ==
    /\ seen[w] <= count
    /\ out[w] # <<>> => seen[w] < out[w][1].n /\ out[w][1].n <= count
    /\ held[w] # None => pc[w] = "sending"
    /\ pc[w] = "sending" =>
         /\ held[w] \in Messages
         /\ seen[w] < held[w].n /\ held[w].n <= count
         /\ out[w] # <<>> => out[w][1].n < held[w].n
    /\ Receiving(w) /\ buffer[sub[w]] # <<>> =>
         LET b == buffer[sub[w]][1].n IN
         /\ seen[w] < b
         /\ out[w] # <<>> => out[w][1].n < b
         /\ pc[w] = "sending" => held[w].n < b

WInv ==
    /\ TypeOK /\ GroupChannels /\ BuffersPublished
    /\ \A w \in Watches : Fresh(w) /\ OwnGroup(w) /\ AloneKeeps(w) /\ Ordered(w)

-----------------------------------------------------------------------------
(* Groups and buffers *)

\* The name of a group tells what the watch is about and for whom, and nothing else.
LEMMA GroupTells ==
  ASSUME NEW v \in Watches, NEW w \in Watches, Group(v) = Group(w)
  PROVE  About(v) = About(w)
<1>1. Call[v].function = "states" <=> Call[w].function = "states"
  BY DEF Group
<1>2. CASE Call[v].function = "states"
  BY <1>1, <1>2 DEF Group, About
<1>3. CASE Call[v].function # "states"
  BY <1>1, <1>3 DEF Group, About
<1>. QED  BY <1>2, <1>3

LEMMA AloneInGroup ==
  ASSUME NEW w \in Watches, Alone(w), NEW v \in Watches, Group(v) = Group(w)
  PROVE  v = w
BY GroupTells DEF Alone

\* A buffer of one.
LEMMA BufferOfOne ==
  ASSUME NEW q \in Seq(Messages), Len(q) <= 1, q # <<>>
  PROVE  /\ Head(q) = q[1] /\ Head(q) \in Messages /\ q[1] \in Messages
         /\ Tail(q) = <<>> /\ Len(q) = 1
<1>1. Len(q) = 1
  BY EmptySeq
<1>2. q[1] \in Messages /\ Head(q) = q[1]
  BY <1>1
<1>3. Tail(q) \in Seq(Messages) /\ Len(Tail(q)) = 0
  BY <1>1
<1>. QED  BY <1>1, <1>2, <1>3, EmptySeq

LEMMA OneMessage ==
  ASSUME NEW m \in Messages
  PROVE  /\ <<m>> \in Seq(Messages) /\ Len(<<m>>) = 1 /\ <<m>>[1] = m /\ <<m>> # <<>>
OBVIOUS

LEMMA NoMessage == <<>> \in Seq(Messages) /\ Len(<<>>) = 0
  OBVIOUS

LEMMA NumbersOfMessages == \A m \in Messages : m.n \in Nat /\ m.n > 0
  BY WatchAssumption DEF Messages

LEMMA GroupOf == \A w \in Watches : Group(w) \in Groups
  BY DEF Groups

LEMMA LatestIsMessage ==
  ASSUME TypeOK, count > 0
  PROVE  Latest \in Messages
BY WatchAssumption DEF TypeOK, Latest, Messages

-----------------------------------------------------------------------------
(* Types *)

LEMMA MoveTypes ==
  ASSUME view \in [Services -> StateUpdates], NEW s \in Services, L!Move(s)
  PROVE  view' \in [Services -> StateUpdates]
<1>1. PICK u \in L!Successors(view[s]) : view' = [view EXCEPT ![s] = u]
  BY DEF L!Move
<1>2. u \in StateUpdates
  <2>. USE DEF L!Successors, L!Entering, L!Exited, L!Methods, StateUpdates, States, Methods,
           Transitions
  <2>1. view[s].state \in States /\ view[s].transition \in Transitions
    OBVIOUS
  <2>2. CASE view[s].transition = "entering"
    <3>1. CASE view[s].state = "unknown"
      BY <1>1, <2>2, <3>1
    <3>2. CASE view[s].state = "exit"
      BY <1>1, <2>2, <3>2
    <3>3. CASE view[s].state \in Methods
      BY <1>1, <2>2, <3>3
    <3>. QED  BY <2>1, <3>1, <3>2, <3>3
  <2>3. CASE view[s].transition # "entering"
    <3>1. CASE view[s].state = "init"
      BY <1>1, <2>3, <3>1
    <3>2. CASE view[s].state = "idle"
      BY <1>1, <2>3, <3>2
    <3>3. CASE view[s].state = "run"
      BY <1>1, <2>3, <3>3
    <3>4. CASE view[s].state \notin {"init", "idle", "run"}
      BY <1>1, <2>3, <3>4
    <3>. QED  BY <3>1, <3>2, <3>3, <3>4
  <2>. QED  BY <2>2, <2>3
<1>. QED  BY <1>1, <1>2

LEMMA PublishTypes ==
  ASSUME TypeOK, NEW s \in Services, Publish(s)
  PROVE  TypeOK' /\ Latest' \in Messages
<1>1. view' \in [Services -> StateUpdates] /\ count' \in 1 .. MaxUpdates
  BY MoveTypes, WatchAssumption DEF Publish, TypeOK
<1>2. Latest' \in Messages
  BY <1>1 DEF Latest, Messages
<1>. DEFINE m == Latest'
<1>. HIDE DEF m
<1>3. buffer' = [c \in Watches |-> IF open[c] THEN <<m>> ELSE buffer[c]]
  BY DEF Publish, Delivered, m
<1>4. buffer' \in [Watches -> Seq(Messages)] /\ \A c \in Watches : Len(buffer'[c]) <= 1
  BY <1>2, <1>3, OneMessage DEF TypeOK, m
<1>5. count' \in 0 .. MaxUpdates
  BY <1>1, WatchAssumption
<1>. QED  BY <1>1, <1>2, <1>4, <1>5 DEF Publish, TypeOK, watchVars

LEMMA SubscribeTypes ==
  ASSUME TypeOK, NEW w \in Watches, SubscribeGroup(w)
  PROVE  /\ subscribers' \in [Groups -> Watches \cup {None}]
         /\ buffer' \in [Watches -> Seq(Messages)] /\ \A c \in Watches : Len(buffer'[c]) <= 1
         /\ open' \in [Watches -> BOOLEAN]
<1>1. CASE subscribers[Group(w)] # None
  BY <1>1 DEF SubscribeGroup, TypeOK
<1>2. CASE subscribers[Group(w)] = None
  <2>. DEFINE b == IF count > 0 THEN <<Latest>> ELSE <<>>
  <2>1. b \in Seq(Messages) /\ Len(b) <= 1
    BY LatestIsMessage, OneMessage, NoMessage
  <2>. HIDE DEF b
  <2>2. buffer' = [buffer EXCEPT ![w] = b]
    BY <1>2 DEF SubscribeGroup, b
  <2>3. buffer' \in [Watches -> Seq(Messages)] /\ \A c \in Watches : Len(buffer'[c]) <= 1
    BY <2>1, <2>2 DEF TypeOK
  <2>. QED  BY <1>2, <2>3, GroupOf DEF SubscribeGroup, TypeOK
<1>. QED  BY <1>1, <1>2

LEMMA TypesKept ==
  ASSUME WInv, [Next]_vars
  PROVE  TypeOK'
<1>0. TypeOK
  BY DEF WInv
<1>1. CASE \E s \in Services : Publish(s)
  BY <1>0, <1>1, PublishTypes
<1>2. CASE \E w \in Watches : Start(w) \/ Cancel(w) \/ ContextDone(w) \/ ChannelClosed(w)
  BY <1>0, <1>2 DEF TypeOK, Start, Cancel, ContextDone, ChannelClosed, Goto, topicVars
<1>3. CASE \E w \in Watches : CallerReceive(w)
  <2>1. PICK w \in Watches : CallerReceive(w)
    BY <1>3
  <2>2. /\ out[w] \in Seq(Messages) /\ Len(out[w]) <= 1 /\ out[w] # <<>>
    BY <1>0, <2>1 DEF CallerReceive, TypeOK
  <2>3. Tail(out[w]) = <<>> /\ Head(out[w]) \in Messages
    BY <2>2, BufferOfOne
  <2>4. Head(out[w]).n \in 0 .. MaxUpdates
    BY <2>3, WatchAssumption DEF Messages
  <2>5. out' = [out EXCEPT ![w] = <<>>] /\ seen' = [seen EXCEPT ![w] = Head(out[w]).n]
    BY <2>1, <2>3 DEF CallerReceive
  <2>6. out' \in [Watches -> Seq(Messages)] /\ \A v \in Watches : Len(out'[v]) <= 1
    BY <1>0, <2>5 DEF TypeOK
  <2>. QED  BY <1>0, <2>1, <2>4, <2>5, <2>6 DEF CallerReceive, TypeOK, topicVars
<1>4. CASE \E w \in Watches : Subscribe(w)
  <2>1. PICK w \in Watches : Subscribe(w)
    BY <1>4
  <2>2. /\ subscribers' \in [Groups -> Watches \cup {None}]
        /\ buffer' \in [Watches -> Seq(Messages)] /\ \A c \in Watches : Len(buffer'[c]) <= 1
        /\ open' \in [Watches -> BOOLEAN]
    BY <1>0, <2>1, SubscribeTypes DEF Subscribe
  <2>3. sub' \in [Watches -> Watches \cup {None}]
    BY <1>0, <2>1, <2>2, GroupOf DEF Subscribe, TypeOK
  <2>. QED  BY <1>0, <2>1, <2>2, <2>3 DEF Subscribe, Goto, TypeOK
<1>5. CASE \E w \in Watches : SubscribeAbandoned(w)
  <2>1. PICK w \in Watches : SubscribeAbandoned(w)
    BY <1>5
  <2>2. /\ subscribers' \in [Groups -> Watches \cup {None}]
        /\ buffer' \in [Watches -> Seq(Messages)] /\ \A c \in Watches : Len(buffer'[c]) <= 1
        /\ open' \in [Watches -> BOOLEAN]
    BY <1>0, <2>1, SubscribeTypes DEF SubscribeAbandoned, TypeOK
  <2>. QED  BY <1>0, <2>1, <2>2 DEF SubscribeAbandoned, Goto, TypeOK
<1>6. CASE \E w \in Watches : Take(w)
  <2>1. PICK w \in Watches : Take(w)
    BY <1>6
  <2>2. sub[w] \in Watches
    BY <1>0, <2>1 DEF Take, WInv, OwnGroup, TypeOK
  <2>3. buffer[sub[w]] \in Seq(Messages) /\ Len(buffer[sub[w]]) <= 1 /\ buffer[sub[w]] # <<>>
    BY <1>0, <2>1, <2>2 DEF Take, TypeOK
  <2>4. Tail(buffer[sub[w]]) = <<>> /\ Head(buffer[sub[w]]) \in Messages
    BY <2>3, BufferOfOne
  <2>5. buffer' = [buffer EXCEPT ![sub[w]] = <<>>]
    BY <2>1, <2>4 DEF Take
  <2>6. buffer' \in [Watches -> Seq(Messages)] /\ \A c \in Watches : Len(buffer'[c]) <= 1
    BY <1>0, <2>2, <2>5, NoMessage DEF TypeOK
  <2>7. held' \in [Watches -> Messages \cup {None}]
    BY <1>0, <2>1, <2>4 DEF Take, TypeOK
  <2>8. pc' \in [Watches -> {"off", "subscribing", "select", "sending", "leaving", "ended"}]
    BY <1>0, <2>1 DEF Take, Goto, TypeOK
  <2>. QED  BY <1>0, <2>1, <2>6, <2>7, <2>8 DEF Take, TypeOK
<1>7. CASE \E w \in Watches : Send(w)
  <2>1. PICK w \in Watches : Send(w)
    BY <1>7
  <2>2. held[w] \in Messages
    BY <2>1 DEF Send, WInv, Ordered
  <2>. DEFINE q == <<held[w]>>
  <2>3. q \in Seq(Messages) /\ Len(q) <= 1
    BY <2>2, OneMessage
  <2>. HIDE DEF q
  <2>4. out' = [out EXCEPT ![w] = q]
    BY <2>1 DEF Send, q
  <2>5. out' \in [Watches -> Seq(Messages)] /\ \A v \in Watches : Len(out'[v]) <= 1
    BY <1>0, <2>3, <2>4 DEF TypeOK
  <2>. QED  BY <1>0, <2>1, <2>5 DEF Send, Goto, TypeOK, topicVars
<1>8. CASE \E w \in Watches : Leave(w)
  <2>1. PICK w \in Watches : Leave(w)
    BY <1>8
  <2>2. subscribers' \in [Groups -> Watches \cup {None}] /\ open' \in [Watches -> BOOLEAN]
    BY <1>0, <2>1 DEF Leave, TypeOK
  <2>. QED  BY <1>0, <2>1, <2>2 DEF Leave, Goto, TypeOK
<1>9. CASE Terminated \/ UNCHANGED vars
  BY <1>0, <1>9 DEF Terminated, TypeOK, vars, topicVars, watchVars
<1>. QED  BY <1>1, <1>2, <1>3, <1>4, <1>5, <1>6, <1>7, <1>8, <1>9
          DEF Next, CallerStep, WatchStep

-----------------------------------------------------------------------------
(* Steps of one watch and its caller *)

WRest ==
    /\ GroupChannels /\ BuffersPublished
    /\ \A w \in Watches : Fresh(w) /\ OwnGroup(w) /\ AloneKeeps(w) /\ Ordered(w)

\* A step that changes only what belongs to watch w, other than its subscription.
LEMMA LocalRest ==
  ASSUME WInv, NEW w \in Watches, UNCHANGED <<topicVars, sub>>,
         \A v \in Watches \ {w} : /\ pc'[v] = pc[v] /\ held'[v] = held[v]
                                  /\ out'[v] = out[v] /\ seen'[v] = seen[v]
                                  /\ done'[v] = done[v],
         Begun(w) => Begun(w)',
         pc'[w] \in {"select", "sending", "leaving"} => sub[w] # None,
         Fresh(w)', AloneKeeps(w)', Ordered(w)'
  PROVE  WRest'
<1>0. UNCHANGED <<view, count, subscribers, buffer, open, sub>>
  BY DEF topicVars
<1>1. \A v \in Watches : Begun(v) => Begun(v)'
  BY DEF Begun
<1>2. TypeOK /\ GroupChannels /\ BuffersPublished
      /\ \A v \in Watches : Fresh(v) /\ OwnGroup(v) /\ AloneKeeps(v) /\ Ordered(v)
  BY DEF WInv
<1>3. GroupChannels'
  BY <1>0, <1>1, <1>2, WatchAssumption DEF GroupChannels, TypeOK
<1>4. BuffersPublished'
  BY <1>0, <1>2 DEF BuffersPublished
<1>5. ASSUME NEW v \in Watches PROVE OwnGroup(v)'
  <2>1. sub[v] # None => sub[v] \in Watches
    BY <1>2 DEF TypeOK
  <2>. QED  BY <1>0, <1>1, <1>2, <2>1 DEF OwnGroup
<1>6. ASSUME NEW v \in Watches \ {w} PROVE Fresh(v)' /\ AloneKeeps(v)' /\ Ordered(v)'
  <2>1. Fresh(v)' /\ AloneKeeps(v)'
    BY <1>0, <1>2 DEF Fresh, AloneKeeps, Begun, Receiving
  <2>2. Ordered(v)'
    BY <1>0, <1>2 DEF Ordered, Receiving
  <2>. QED  BY <2>1, <2>2
<1>. QED  BY <1>3, <1>4, <1>5, <1>6 DEF WRest

LEMMA CallerRest ==
  ASSUME WInv, NEW w \in Watches, CallerStep(w)
  PROVE  WRest'
<1>0. TypeOK /\ Fresh(w) /\ OwnGroup(w) /\ AloneKeeps(w) /\ Ordered(w)
  BY DEF WInv
<1>1. CASE Start(w)
  <2>1. /\ pc[w] = "off" /\ pc'[w] = "subscribing"
        /\ UNCHANGED <<topicVars, sub, held, out, seen, done>>
        /\ \A v \in Watches \ {w} : pc'[v] = pc[v]
    BY <1>0, <1>1 DEF Start, Goto, TypeOK
  <2>2. Fresh(w)' /\ AloneKeeps(w)' /\ Ordered(w)'
    BY <1>0, <2>1 DEF Fresh, AloneKeeps, Ordered, Begun, Receiving, topicVars
  <2>3. Begun(w) => Begun(w)'
    BY <2>1 DEF Begun
  <2>. QED  BY <2>1, <2>2, <2>3, LocalRest
<1>2. CASE Cancel(w)
  <2>1. /\ UNCHANGED <<topicVars, pc, sub, held, out, seen>> /\ done'[w] = TRUE
        /\ \A v \in Watches \ {w} : done'[v] = done[v]
    BY <1>0, <1>2 DEF Cancel, TypeOK
  <2>2. Fresh(w)' /\ AloneKeeps(w)' /\ Ordered(w)'
    BY <1>0, <2>1 DEF Fresh, AloneKeeps, Ordered, Begun, Receiving, topicVars
  <2>3. Begun(w) => Begun(w)'
    BY <2>1 DEF Begun
  <2>4. pc'[w] \in {"select", "sending", "leaving"} => sub[w] # None
    BY <1>0, <2>1 DEF OwnGroup
  <2>. QED  BY <2>1, <2>2, <2>3, <2>4, LocalRest
<1>3. CASE CallerReceive(w)
  <2>1. out[w] \in Seq(Messages) /\ Len(out[w]) <= 1 /\ out[w] # <<>>
    BY <1>0, <1>3 DEF CallerReceive, TypeOK
  <2>2. /\ UNCHANGED <<topicVars, pc, sub, held, done>>
        /\ out'[w] = <<>> /\ seen'[w] = out[w][1].n
        /\ \A v \in Watches \ {w} : out'[v] = out[v] /\ seen'[v] = seen[v]
    BY <1>0, <1>3, <2>1, BufferOfOne DEF CallerReceive, TypeOK
  <2>3. Begun(w)
    BY <1>0, <2>1 DEF Fresh
  <2>4. Fresh(w)' /\ AloneKeeps(w)' /\ Begun(w)'
    BY <1>0, <2>2, <2>3 DEF Fresh, AloneKeeps, Begun, Receiving, topicVars
  <2>5. Ordered(w)'
    BY <1>0, <2>1, <2>2 DEF Ordered, Receiving, topicVars
  <2>6. pc'[w] \in {"select", "sending", "leaving"} => sub[w] # None
    BY <1>0, <2>2 DEF OwnGroup
  <2>. QED  BY <2>2, <2>4, <2>5, <2>6, LocalRest
<1>. QED  BY <1>1, <1>2, <1>3 DEF CallerStep

LEMMA SendRest ==
  ASSUME WInv, NEW w \in Watches, Send(w)
  PROVE  WRest'
<1>0. TypeOK /\ Fresh(w) /\ OwnGroup(w) /\ AloneKeeps(w) /\ Ordered(w)
  BY DEF WInv
<1>1. /\ pc[w] = "sending" /\ pc'[w] = "select" /\ out[w] = <<>>
      /\ out'[w] = <<held[w]>> /\ held'[w] = None
      /\ UNCHANGED <<topicVars, sub, seen, done>>
      /\ \A v \in Watches \ {w} : pc'[v] = pc[v] /\ out'[v] = out[v] /\ held'[v] = held[v]
  BY <1>0 DEF Send, Goto, TypeOK
<1>2. held[w] \in Messages /\ out'[w][1] = held[w]
  BY <1>0, <1>1 DEF Ordered
<1>3. Fresh(w)' /\ AloneKeeps(w)' /\ Begun(w)'
  BY <1>0, <1>1 DEF Fresh, AloneKeeps, Begun, Receiving, topicVars
<1>4. Ordered(w)'
  BY <1>0, <1>1, <1>2 DEF Ordered, Receiving, topicVars
<1>5. sub[w] # None
  BY <1>0, <1>1 DEF OwnGroup
<1>. QED  BY <1>1, <1>3, <1>4, <1>5, LocalRest

\* The channel of a watch that is alone is open, so only its context ends it.
LEMMA EndRest ==
  ASSUME WInv, NEW w \in Watches, ContextDone(w) \/ ChannelClosed(w)
  PROVE  WRest'
<1>0. TypeOK /\ Fresh(w) /\ OwnGroup(w) /\ AloneKeeps(w) /\ Ordered(w) /\ GroupChannels
  BY DEF WInv
<1>1. /\ Receiving(w) /\ pc'[w] = "leaving" /\ held'[w] = None
      /\ UNCHANGED <<topicVars, sub, out, seen, done>>
      /\ \A v \in Watches \ {w} : pc'[v] = pc[v] /\ held'[v] = held[v]
  BY <1>0 DEF ContextDone, ChannelClosed, Goto, TypeOK, Receiving, Ordered
<1>2. Alone(w) => done[w]
  <2>1. CASE ContextDone(w)
    BY <2>1 DEF ContextDone
  <2>2. CASE ChannelClosed(w)
    <3>1. ~open[sub[w]]
      BY <2>2 DEF ChannelClosed
    <3>2. Alone(w) => sub[w] = w /\ subscribers[Group(w)] = w
      BY <1>0, <1>1 DEF AloneKeeps
    <3>3. Alone(w) => open[w]
      BY <1>0, <3>2, GroupOf, WatchAssumption DEF GroupChannels
    <3>. QED  BY <3>1, <3>2, <3>3
  <2>. QED  BY <2>1, <2>2
<1>3. Fresh(w)' /\ AloneKeeps(w)' /\ Begun(w)'
  BY <1>0, <1>1, <1>2 DEF Fresh, AloneKeeps, Begun, Receiving, topicVars
<1>4. Ordered(w)'
  BY <1>0, <1>1 DEF Ordered, Receiving, topicVars
<1>5. sub[w] # None
  BY <1>0, <1>1 DEF OwnGroup, Receiving
<1>. QED  BY <1>1, <1>3, <1>4, <1>5, LocalRest

-----------------------------------------------------------------------------
(* Steps of the topic *)

\* What is broadcast is newer than whatever is on its way.
LEMMA PublishRest ==
  ASSUME WInv, NEW s \in Services, Publish(s)
  PROVE  WRest'
<1>0. TypeOK /\ GroupChannels /\ BuffersPublished
      /\ \A v \in Watches : Fresh(v) /\ OwnGroup(v) /\ AloneKeeps(v) /\ Ordered(v)
  BY DEF WInv
<1>1. /\ count \in Nat /\ count' = count + 1
      /\ UNCHANGED <<subscribers, open, pc, sub, held, out, seen, done>>
  BY <1>0, WatchAssumption DEF Publish, TypeOK, watchVars
<1>2. \A c \in Watches : /\ open[c] => buffer'[c] = <<Latest'>>
                         /\ ~open[c] => buffer'[c] = buffer[c]
  BY DEF Publish, Delivered
<1>3. Latest' \in Messages /\ Latest'.n = count + 1
  BY <1>0, <1>1, PublishTypes DEF Latest
<1>4. \A c \in Watches : /\ open[c] => buffer'[c] # <<>> /\ buffer'[c][1].n = count + 1
                         /\ ~open[c] => buffer'[c] = buffer[c]
  BY <1>2, <1>3
<1>5. \A c \in Watches : /\ buffer[c] # <<>> => buffer[c][1] \in Messages
                         /\ out[c] # <<>> => out[c][1] \in Messages
  BY <1>0, BufferOfOne DEF TypeOK
<1>6. BuffersPublished'
  BY <1>0, <1>1, <1>4, <1>5, NumbersOfMessages DEF BuffersPublished
<1>7. GroupChannels'
  BY <1>0, <1>1 DEF GroupChannels, Begun
<1>8. ASSUME NEW v \in Watches PROVE Fresh(v)' /\ OwnGroup(v)' /\ AloneKeeps(v)'
  BY <1>0, <1>1, <1>4 DEF Fresh, OwnGroup, AloneKeeps, Begun, Receiving
<1>9. ASSUME NEW v \in Watches PROVE Ordered(v)'
  <2>1. Receiving(v) => sub[v] \in Watches
    BY <1>0 DEF Receiving, OwnGroup, TypeOK
  <2>2. seen[v] \in Nat /\ (out[v] # <<>> => out[v][1].n \in Nat)
        /\ (pc[v] = "sending" => held[v].n \in Nat)
    BY <1>0, <1>5, NumbersOfMessages, WatchAssumption DEF TypeOK, Ordered
  <2>3. /\ seen[v] <= count /\ (out[v] # <<>> => out[v][1].n <= count)
        /\ (pc[v] = "sending" => held[v].n <= count)
    BY <1>0 DEF Ordered
  <2>4. seen[v] <= count + 1 /\ (out[v] # <<>> => out[v][1].n <= count + 1)
        /\ (pc[v] = "sending" => held[v].n <= count + 1)
    BY <1>1, <2>2, <2>3
  <2>5. Receiving(v) /\ buffer'[sub[v]] # <<>> =>
          LET b == buffer'[sub[v]][1].n IN
          /\ seen[v] < b /\ (out[v] # <<>> => out[v][1].n < b)
          /\ (pc[v] = "sending" => held[v].n < b)
    <3>1. CASE ~open[sub[v]]
      BY <3>1, <2>1, <1>0, <1>4 DEF Ordered
    <3>2. CASE open[sub[v]]
      BY <3>2, <1>1, <2>1, <2>2, <2>3, <1>4
    <3>. QED  BY <3>1, <3>2
  <2>. QED  BY <1>0, <1>1, <2>4, <2>5 DEF Ordered, Receiving
<1>. QED  BY <1>6, <1>7, <1>8, <1>9 DEF WRest

\* What is taken leaves the channel empty, for whoever shares it.
LEMMA TakeRest ==
  ASSUME WInv, NEW w \in Watches, Take(w)
  PROVE  WRest'
<1>0. TypeOK /\ GroupChannels /\ BuffersPublished
      /\ \A v \in Watches : Fresh(v) /\ OwnGroup(v) /\ AloneKeeps(v) /\ Ordered(v)
  BY DEF WInv
<1>1. pc[w] = "select" /\ sub[w] \in Watches /\ buffer[sub[w]] # <<>>
  BY <1>0 DEF Take, OwnGroup, TypeOK
<1>2. PICK m \in Messages : m = Head(buffer[sub[w]]) /\ m = buffer[sub[w]][1]
                            /\ Tail(buffer[sub[w]]) = <<>>
  BY <1>0, <1>1, BufferOfOne DEF TypeOK
<1>3. buffer'[sub[w]] = <<>> /\ \A c \in Watches \ {sub[w]} : buffer'[c] = buffer[c]
  BY <1>0, <1>1, <1>2 DEF Take, TypeOK
<1>4. /\ UNCHANGED <<view, count, subscribers, open, sub, out, seen, done>>
      /\ \A v \in Watches \ {w} : pc'[v] = pc[v] /\ held'[v] = held[v]
      /\ \/ pc'[w] = "sending" /\ held'[w] = m
         \/ pc'[w] = "select" /\ held'[w] = held[w]
  BY <1>0, <1>1, <1>2 DEF Take, Goto, TypeOK
<1>5. \A v \in Watches : Begun(v) <=> Begun(v)'
  BY <1>1, <1>4 DEF Begun
<1>6. \A v \in Watches : Receiving(v) <=> Receiving(v)'
  BY <1>1, <1>4 DEF Receiving
<1>7. GroupChannels' /\ BuffersPublished'
  BY <1>0, <1>3, <1>4, <1>5, WatchAssumption DEF GroupChannels, BuffersPublished, TypeOK
<1>8. ASSUME NEW v \in Watches PROVE Fresh(v)' /\ OwnGroup(v)' /\ AloneKeeps(v)'
  <2>1. Fresh(v)'
    BY <1>0, <1>3, <1>4, <1>5 DEF Fresh
  <2>2. sub[v] # None => sub[v] \in Watches
    BY <1>0 DEF TypeOK
  <2>3. OwnGroup(v)'
    BY <1>0, <1>1, <1>4, <1>5, <2>2 DEF OwnGroup
  <2>4. pc'[v] \in {"leaving", "ended"} => pc[v] = pc'[v]
    BY <1>4
  <2>5. AloneKeeps(v)'
    BY <1>0, <1>4, <1>5, <1>6, <2>4 DEF AloneKeeps
  <2>. QED  BY <2>1, <2>3, <2>5
<1>9. ASSUME NEW v \in Watches \ {w} PROVE Ordered(v)'
  <2>1. Receiving(v) => sub[v] \in Watches
    BY <1>0 DEF Receiving, OwnGroup, TypeOK
  <2>. QED  BY <1>0, <1>3, <1>4, <1>6, <2>1 DEF Ordered
<1>10. Ordered(w)'
  <2>1. /\ seen[w] < m.n /\ (out[w] # <<>> => out[w][1].n < m.n) /\ m.n <= count
        /\ held[w] = None
    BY <1>0, <1>1, <1>2 DEF Ordered, Receiving, BuffersPublished
  <2>2. seen[w] <= count /\ (out[w] # <<>> => seen[w] < out[w][1].n /\ out[w][1].n <= count)
    BY <1>0 DEF Ordered
  <2>. QED  BY <1>3, <1>4, <2>1, <2>2 DEF Ordered
<1>. QED  BY <1>7, <1>8, <1>9, <1>10 DEF WRest

\* What a subscription does to the topic: nothing if the group has a channel, and otherwise
\* it makes the channel of this watch.
LEMMA ChannelMade ==
  ASSUME WInv, NEW w \in Watches, ~Begun(w), SubscribeGroup(w)
  PROVE  /\ subscribers'[Group(w)] # None
         /\ subscribers[Group(w)] = None =>
              subscribers'[Group(w)] = w /\ open'[w] = TRUE
         /\ subscribers[Group(w)] # None => UNCHANGED <<subscribers, buffer, open>>
         /\ \A g \in Groups \ {Group(w)} : subscribers'[g] = subscribers[g]
         /\ \A c \in Watches \ {w} : buffer'[c] = buffer[c] /\ open'[c] = open[c]
         /\ buffer'[w] # <<>> => buffer'[w][1].n = count /\ count > 0
<1>0. TypeOK /\ Fresh(w) /\ Group(w) \in Groups
  BY GroupOf DEF WInv
<1>1. CASE subscribers[Group(w)] # None
  <2>1. UNCHANGED <<subscribers, buffer, open>>
    BY <1>1 DEF SubscribeGroup
  <2>. QED  BY <1>0, <1>1, <2>1 DEF Fresh
<1>2. CASE subscribers[Group(w)] = None
  <2>. DEFINE b == IF count > 0 THEN <<Latest>> ELSE <<>>
  <2>1. b # <<>> => b[1].n = count /\ count > 0
    BY DEF Latest
  <2>. HIDE DEF b
  <2>2. /\ subscribers' = [subscribers EXCEPT ![Group(w)] = w]
        /\ buffer' = [buffer EXCEPT ![w] = b]
        /\ open' = [open EXCEPT ![w] = TRUE]
    BY <1>2 DEF SubscribeGroup, b
  <2>3. w # None
    BY WatchAssumption
  <2>. QED  BY <1>0, <1>2, <2>1, <2>2, <2>3 DEF TypeOK
<1>. QED  BY <1>1, <1>2

\* A subscription that was asked for, and taken or abandoned.
LEMMA SubscribeRest ==
  ASSUME WInv, NEW w \in Watches, pc[w] = "subscribing",
         SubscribeGroup(w) \/ UNCHANGED <<subscribers, buffer, open>>,
         NEW label \in {"select", "ended"}, pc' = [pc EXCEPT ![w] = label],
         label = "select" =>
            SubscribeGroup(w) /\ sub' = [sub EXCEPT ![w] = subscribers'[Group(w)]],
         label = "ended" => sub' = sub /\ done[w],
         UNCHANGED <<view, count, held, out, seen, done>>
  PROVE  WRest'
<1>0. TypeOK /\ GroupChannels /\ BuffersPublished /\ Group(w) \in Groups
      /\ \A v \in Watches : Fresh(v) /\ OwnGroup(v) /\ AloneKeeps(v) /\ Ordered(v)
  BY GroupOf DEF WInv
<1>1. /\ pc'[w] = label /\ \A v \in Watches \ {w} : pc'[v] = pc[v]
      /\ \A v \in Watches \ {w} : sub'[v] = sub[v]
  BY <1>0 DEF TypeOK
<1>2. ~Begun(w) /\ Begun(w)' /\ (\A v \in Watches \ {w} : Begun(v) <=> Begun(v)')
  BY <1>1 DEF Begun
<1>3. sub[w] = None /\ out[w] = <<>> /\ seen[w] = 0 /\ buffer[w] = <<>> /\ ~open[w]
      /\ held[w] = None
  BY <1>0, <1>2 DEF Fresh, Ordered
<1>4. /\ \A g \in Groups \ {Group(w)} : subscribers'[g] = subscribers[g]
      /\ \A c \in Watches \ {w} : buffer'[c] = buffer[c] /\ open'[c] = open[c]
      /\ buffer'[w] # <<>> => buffer'[w][1].n = count /\ count > 0
      /\ \/ subscribers'[Group(w)] = subscribers[Group(w)]
         \/ subscribers'[Group(w)] = w /\ open'[w] = TRUE
  BY <1>2, <1>3, ChannelMade
<1>5. label = "select" => /\ subscribers'[Group(w)] # None
                          /\ sub'[w] = subscribers'[Group(w)]
                          /\ subscribers[Group(w)] = None => subscribers'[Group(w)] = w
  BY <1>0, <1>2, ChannelMade DEF TypeOK
<1>6. GroupChannels'
  <2>. SUFFICES ASSUME NEW g \in Groups, subscribers'[g] # None
                PROVE  /\ Group(subscribers'[g]) = g /\ open'[subscribers'[g]]
                       /\ Begun(subscribers[g])'
    BY DEF GroupChannels
  <2>1. CASE subscribers'[g] = subscribers[g]
    <3>1. PICK c \in Watches : c = subscribers[g]
      BY <1>0, <2>1 DEF TypeOK
    <3>2. Group(c) = g /\ open[c] /\ Begun(c)
      BY <1>0, <2>1, <3>1 DEF GroupChannels
    <3>3. c # w /\ Begun(c)'
      BY <1>2, <3>2
    <3>. QED  BY <1>4, <2>1, <3>1, <3>2, <3>3 DEF Begun
  <2>2. CASE subscribers'[g] # subscribers[g]
    <3>1. g = Group(w) /\ subscribers'[g] = w /\ open'[w] = TRUE
      BY <2>2, <1>4
    <3>. QED  BY <3>1, <1>2 DEF Begun
  <2>. QED  BY <2>1, <2>2
<1>7. BuffersPublished'
  <2>1. count \in Nat
    BY <1>0, WatchAssumption DEF TypeOK
  <2>. QED  BY <2>1, <1>0, <1>4 DEF BuffersPublished
<1>8. ASSUME NEW v \in Watches \ {w}
      PROVE  Fresh(v)' /\ OwnGroup(v)' /\ AloneKeeps(v)' /\ Ordered(v)'
  <2>0. sub[v] # None => sub[v] \in Watches \ {w}
    BY <1>0, <1>2 DEF OwnGroup, TypeOK
  <2>1. Fresh(v)'
    BY <1>0, <1>1, <1>2, <1>4 DEF Fresh
  <2>2. OwnGroup(v)'
    BY <1>0, <1>1, <1>2, <2>0 DEF OwnGroup
  <2>3. Alone(v) => subscribers'[Group(v)] = subscribers[Group(v)]
    BY <1>4, AloneInGroup, GroupOf
  <2>4. AloneKeeps(v)'
    BY <1>0, <1>1, <1>2, <2>3 DEF AloneKeeps, Receiving
  <2>5. Receiving(v) => sub[v] \in Watches \ {w}
    BY <1>0, <2>0 DEF Receiving, OwnGroup
  <2>6. Ordered(v)'
    BY <1>0, <1>1, <1>4, <2>5 DEF Ordered, Receiving
  <2>. QED  BY <2>1, <2>2, <2>4, <2>6
<1>9. Fresh(w)' /\ OwnGroup(w)'
  <2>1. label = "select" => Group(sub'[w]) = Group(w) /\ Begun(subscribers[Group(w)])'
    BY <1>0, <1>5, <1>6 DEF GroupChannels
  <2>. QED  BY <1>1, <1>2, <1>3, <1>5, <2>1 DEF Fresh, OwnGroup, Begun
<1>10. AloneKeeps(w)'
  <2>1. Alone(w) => subscribers[Group(w)] = None
    BY <1>0, <1>2 DEF AloneKeeps
  <2>. QED  BY <2>1, <1>1, <1>2, <1>5 DEF AloneKeeps, Receiving
<1>11. Ordered(w)'
  <2>1. count \in Nat
    BY <1>0, WatchAssumption DEF TypeOK
  <2>2. label = "select" /\ buffer'[sub'[w]] # <<>> => buffer'[sub'[w]][1].n > 0
    <3>1. SUFFICES ASSUME label = "select", buffer'[sub'[w]] # <<>>
                   PROVE  buffer'[sub'[w]][1] \in Messages
      BY NumbersOfMessages
    <3>2. SubscribeGroup(w)
      BY <3>1
    <3>3. buffer' \in [Watches -> Seq(Messages)] /\ \A c \in Watches : Len(buffer'[c]) <= 1
      BY <1>0, <3>2, SubscribeTypes
    <3>4. sub'[w] \in Watches
      BY <1>0, <1>5, <3>1, <3>2, SubscribeTypes
    <3>. QED  BY <3>1, <3>3, <3>4, BufferOfOne
  <2>. QED  BY <1>1, <1>3, <2>1, <2>2 DEF Ordered, Receiving
<1>. QED  BY <1>6, <1>7, <1>8, <1>9, <1>10, <1>11 DEF WRest

\* A watch removes the channel of its own group, or none.
LEMMA LeaveRest ==
  ASSUME WInv, NEW w \in Watches, Leave(w)
  PROVE  WRest'
<1>0. TypeOK /\ GroupChannels /\ BuffersPublished /\ Group(w) \in Groups
      /\ \A v \in Watches : Fresh(v) /\ OwnGroup(v) /\ AloneKeeps(v) /\ Ordered(v)
  BY GroupOf DEF WInv
<1>1. /\ pc[w] = "leaving" /\ pc'[w] = "ended" /\ \A v \in Watches \ {w} : pc'[v] = pc[v]
      /\ UNCHANGED <<view, count, buffer, sub, held, out, seen, done>>
  BY <1>0 DEF Leave, Goto, TypeOK
<1>2. PICK c \in Watches : c = sub[w] /\ Group(c) = Group(w)
  BY <1>0, <1>1 DEF OwnGroup, TypeOK
<1>3. \A v \in Watches : Begun(v) <=> Begun(v)'
  BY <1>1 DEF Begun
<1>4. /\ \A g \in Groups \ {Group(w)} : subscribers'[g] = subscribers[g]
      /\ subscribers'[Group(w)] \in {subscribers[Group(w)], None}
      /\ subscribers'[Group(w)] # None => open' = open
      /\ \A v \in Watches \ {c} : open'[v] = open[v]
      /\ open'[c] => open[c]
  BY <1>0, <1>2 DEF Leave, TypeOK
<1>5. GroupChannels'
  <2>. SUFFICES ASSUME NEW g \in Groups, subscribers'[g] # None
                PROVE  /\ Group(subscribers'[g]) = g /\ open'[subscribers'[g]]
                       /\ Begun(subscribers[g])'
    BY DEF GroupChannels
  <2>1. PICK d \in Watches : d = subscribers[g] /\ d = subscribers'[g] /\ d # None
    BY <1>0, <1>4 DEF TypeOK
  <2>2. Group(d) = g /\ open[d] /\ Begun(d)'
    BY <1>0, <2>1, <1>3 DEF GroupChannels
  <2>3. open'[d]
    BY <1>2, <1>4, <2>1, <2>2
  <2>. QED  BY <2>1, <2>2, <2>3 DEF Begun
<1>6. BuffersPublished'
  BY <1>0, <1>1 DEF BuffersPublished
<1>7. ASSUME NEW v \in Watches PROVE Fresh(v)' /\ OwnGroup(v)' /\ AloneKeeps(v)' /\ Ordered(v)'
  <2>0. sub[v] # None => sub[v] \in Watches
    BY <1>0 DEF TypeOK
  <2>1. Fresh(v)' /\ OwnGroup(v)'
    BY <1>0, <1>1, <1>3, <1>4, <2>0 DEF Fresh, OwnGroup
  <2>2. AloneKeeps(v)'
    <3>1. CASE v = w
      BY <3>1, <1>0, <1>1 DEF AloneKeeps, Begun, Receiving, Leave
    <3>2. CASE v # w
      <4>1. Alone(v) => subscribers'[Group(v)] = subscribers[Group(v)]
        BY <3>2, <1>4, AloneInGroup, GroupOf
      <4>. QED  BY <3>2, <4>1, <1>0, <1>1 DEF AloneKeeps, Begun, Receiving
    <3>. QED  BY <3>1, <3>2
  <2>4. Ordered(v)'
    BY <1>0, <1>1 DEF Ordered, Receiving
  <2>. QED  BY <2>1, <2>2, <2>4
<1>. QED  BY <1>5, <1>6, <1>7 DEF WRest

-----------------------------------------------------------------------------
(* The invariant *)

LEMMA WatchBegins == Init => WInv
<1>. SUFFICES ASSUME Init PROVE WInv
  OBVIOUS
<1>1. TypeOK
  <2>1. view \in [Services -> StateUpdates]
    BY DEF Init, L!Init, L!InitialUpdate, L!Entering, StateUpdates, States, Methods,
       Transitions
  <2>2. count \in 0 .. MaxUpdates
    BY WatchAssumption DEF Init
  <2>3. /\ buffer \in [Watches -> Seq(Messages)] /\ \A c \in Watches : Len(buffer[c]) <= 1
        /\ out \in [Watches -> Seq(Messages)] /\ \A c \in Watches : Len(out[c]) <= 1
    BY NoMessage DEF Init
  <2>4. seen \in [Watches -> 0 .. MaxUpdates]
    BY WatchAssumption DEF Init
  <2>. QED  BY <2>1, <2>2, <2>3, <2>4 DEF Init, TypeOK
<1>2. GroupChannels /\ BuffersPublished
  BY DEF Init, GroupChannels, BuffersPublished
<1>3. ASSUME NEW w \in Watches PROVE Fresh(w) /\ OwnGroup(w) /\ AloneKeeps(w) /\ Ordered(w)
  BY GroupOf DEF Init, Fresh, OwnGroup, AloneKeeps, Ordered, Begun, Receiving
<1>. QED  BY <1>1, <1>2, <1>3 DEF WInv

LEMMA WatchKept == WInv /\ [Next]_vars => WInv'
<1>. SUFFICES ASSUME WInv, [Next]_vars PROVE WInv'
  OBVIOUS
<1>0. TypeOK' /\ (WRest' => WInv')
  BY TypesKept DEF WInv, WRest
<1>1. CASE \E s \in Services : Publish(s)
  BY <1>0, <1>1, PublishRest
<1>2. CASE \E w \in Watches : CallerStep(w)
  BY <1>0, <1>2, CallerRest
<1>3. CASE \E w \in Watches : Subscribe(w)
  BY <1>0, <1>3, SubscribeRest DEF Subscribe, Goto
<1>4. CASE \E w \in Watches : SubscribeAbandoned(w)
  BY <1>0, <1>4, SubscribeRest DEF SubscribeAbandoned, Goto
<1>5. CASE \E w \in Watches : Take(w)
  BY <1>0, <1>5, TakeRest
<1>6. CASE \E w \in Watches : Send(w)
  BY <1>0, <1>6, SendRest
<1>7. CASE \E w \in Watches : ContextDone(w) \/ ChannelClosed(w)
  BY <1>0, <1>7, EndRest
<1>8. CASE \E w \in Watches : Leave(w)
  BY <1>0, <1>8, LeaveRest
<1>9. CASE Terminated \/ UNCHANGED vars
  <2>1. UNCHANGED vars
    BY <1>9 DEF Terminated
  <2>. QED  BY <2>1, <1>0 DEF WInv, WRest, GroupChannels, BuffersPublished, Fresh, OwnGroup,
            AloneKeeps, Ordered, Begun, Receiving, vars, topicVars, watchVars
<1>. QED  BY <1>1, <1>2, <1>3, <1>4, <1>5, <1>6, <1>7, <1>8, <1>9 DEF Next, WatchStep

\* The inductive invariant holds in every reachable state of the specification.
THEOREM WatchInvariant == Spec => []WInv
BY WatchBegins, WatchKept, PTL DEF Spec

-----------------------------------------------------------------------------
(* What follows *)

\* Types, and no buffer holds more than one message.
THEOREM WatchTypes == Spec => []TypeOK
<1>1. WInv => TypeOK
  BY DEF WInv
<1>. QED  BY <1>1, WatchInvariant, PTL

\* A watch that is about what no other watch of its service is about stays open until it is
\* cancelled (service_context.go:30, 168), however many watches share other groups.
THEOREM AloneStaysOpen == Spec => []AloneOpenUntilCancelled
<1>1. WInv => AloneOpenUntilCancelled
  BY DEF WInv, AloneKeeps, AloneOpenUntilCancelled
<1>. QED  BY <1>1, WatchInvariant, PTL

(* Order of arrival *)

Increasing(s) == \A j, k \in DOMAIN s : j < k => s[j] < s[k]
Below(s, t) == \A j \in DOMAIN s, k \in DOMAIN t : s[j] < t[k]

\* An increasing sequence followed by a greater one is increasing, and is below what both
\* are below.
LEMMA JoinedInOrder ==
  ASSUME NEW s \in Seq(Nat), NEW t \in Seq(Nat), Increasing(s), Increasing(t), Below(s, t)
  PROVE  /\ s \o t \in Seq(Nat) /\ Increasing(s \o t)
         /\ \A u \in Seq(Nat) : Below(s, u) /\ Below(t, u) => Below(s \o t, u)
<1>0. /\ s \o t \in Seq(Nat) /\ Len(s \o t) = Len(s) + Len(t)
      /\ Len(s) \in Nat /\ Len(t) \in Nat
      /\ DOMAIN s = 1 .. Len(s) /\ DOMAIN t = 1 .. Len(t)
      /\ DOMAIN (s \o t) = 1 .. Len(s) + Len(t)
  BY ConcatProperties
<1>1. ASSUME NEW j \in DOMAIN (s \o t)
      PROVE  \/ j \in DOMAIN s /\ (s \o t)[j] = s[j]
             \/ j > Len(s) /\ j - Len(s) \in DOMAIN t /\ (s \o t)[j] = t[j - Len(s)]
  BY <1>0, ConcatProperties
<1>2. Increasing(s \o t)
  <2>. SUFFICES ASSUME NEW j \in DOMAIN (s \o t), NEW k \in DOMAIN (s \o t), j < k
                PROVE  (s \o t)[j] < (s \o t)[k]
    BY DEF Increasing
  <2>1. CASE k <= Len(s)
    <3>1. /\ j \in DOMAIN s /\ (s \o t)[j] = s[j]
          /\ k \in DOMAIN s /\ (s \o t)[k] = s[k]
      BY <2>1, <1>0, <1>1
    <3>. QED  BY <3>1 DEF Increasing
  <2>2. CASE j <= Len(s) /\ k > Len(s)
    <3>1. /\ j \in DOMAIN s /\ (s \o t)[j] = s[j]
          /\ k - Len(s) \in DOMAIN t /\ (s \o t)[k] = t[k - Len(s)]
      BY <2>2, <1>0, <1>1
    <3>. QED  BY <3>1 DEF Below
  <2>3. CASE j > Len(s)
    <3>1. /\ j - Len(s) \in DOMAIN t /\ (s \o t)[j] = t[j - Len(s)]
          /\ k - Len(s) \in DOMAIN t /\ (s \o t)[k] = t[k - Len(s)]
          /\ j - Len(s) < k - Len(s)
      BY <2>3, <1>0, <1>1
    <3>. QED  BY <3>1 DEF Increasing
  <2>. QED  BY <1>0, <2>1, <2>2, <2>3
<1>3. ASSUME NEW u \in Seq(Nat), Below(s, u), Below(t, u), NEW j \in DOMAIN (s \o t),
             NEW k \in DOMAIN u
      PROVE  (s \o t)[j] < u[k]
  BY <1>1, <1>3 DEF Below
<1>. QED  BY <1>0, <1>2, <1>3 DEF Below

\* A sequence of at most one number.
Short(s) == s \in Seq(Nat) /\ Len(s) <= 1

LEMMA ShortInOrder ==
  ASSUME NEW s, Short(s)
  PROVE  Increasing(s) /\ s \in Seq(Nat) /\ \A j \in DOMAIN s : j = 1 /\ s # <<>>
<1>1. \A j \in DOMAIN s : j = 1
  BY DEF Short
<1>. QED  BY <1>1, EmptySeq DEF Short, Increasing

LEMMA NumbersShort ==
  ASSUME NEW q \in Seq(Messages), Len(q) <= 1
  PROVE  /\ Short([k \in DOMAIN q |-> q[k].n])
         /\ \A j \in DOMAIN [k \in DOMAIN q |-> q[k].n] :
              q # <<>> /\ [k \in DOMAIN q |-> q[k].n][j] = q[1].n
<1>1. /\ DOMAIN q = 1 .. Len(q) /\ Len(q) \in Nat
      /\ \A k \in DOMAIN q : q[k] \in Messages /\ k = 1 /\ q # <<>>
  BY EmptySeq
<1>2. \A k \in DOMAIN q : q[k].n \in Nat
  BY <1>1, NumbersOfMessages
<1>3. [k \in DOMAIN q |-> q[k].n] \in Seq(Nat) /\ Len([k \in DOMAIN q |-> q[k].n]) = Len(q)
  BY <1>1, <1>2
<1>. QED  BY <1>1, <1>3 DEF Short

LEMMA OrderOnTheWay ==
  ASSUME WInv, NEW w \in Watches
  PROVE  Increasing(OnTheWay(w))
<1>. DEFINE A == <<seen[w]>>
            B == [k \in DOMAIN out[w] |-> out[w][k].n]
            C == IF held[w] = None THEN <<>> ELSE <<held[w].n>>
            D == IF pc[w] \in {"select", "sending"}
                 THEN [k \in DOMAIN buffer[sub[w]] |-> buffer[sub[w]][k].n] ELSE <<>>
<1>0. TypeOK /\ Ordered(w) /\ OwnGroup(w)
  BY DEF WInv
<1>1. Short(A) /\ A[1] = seen[w]
  BY <1>0 DEF TypeOK, Short
<1>2. Short(B) /\ \A j \in DOMAIN B : out[w] # <<>> /\ B[j] = out[w][1].n
  BY <1>0, NumbersShort DEF TypeOK
<1>3. Short(C) /\ \A j \in DOMAIN C : held[w] # None /\ C[j] = held[w].n
  <2>1. CASE held[w] = None
    BY <2>1 DEF Short
  <2>2. CASE held[w] # None
    <3>1. held[w].n \in Nat
      BY <2>2, <1>0, NumbersOfMessages DEF Ordered
    <3>. QED  BY <2>2, <3>1 DEF Short
  <2>. QED  BY <2>1, <2>2
<1>4. Short(D) /\ \A j \in DOMAIN D :
                    Receiving(w) /\ buffer[sub[w]] # <<>> /\ D[j] = buffer[sub[w]][1].n
  <2>1. CASE Receiving(w)
    <3>1. PICK c \in Watches : c = sub[w]
      BY <1>0, <2>1 DEF TypeOK, OwnGroup, Receiving
    <3>. QED  BY <1>0, <2>1, <3>1, NumbersShort DEF TypeOK, Receiving
  <2>2. CASE ~Receiving(w)
    BY <2>2 DEF Receiving, Short
  <2>. QED  BY <2>1, <2>2
<1>5. /\ \A j \in DOMAIN A : A[j] = seen[w]
      /\ A \in Seq(Nat) /\ B \in Seq(Nat) /\ C \in Seq(Nat) /\ D \in Seq(Nat)
      /\ Increasing(A) /\ Increasing(B) /\ Increasing(C) /\ Increasing(D)
  <2>. HIDE DEF A, B, C, D
  <2>. QED  BY <1>1, <1>2, <1>3, <1>4, ShortInOrder
<1>6. Below(A, B) /\ Below(A, C) /\ Below(A, D) /\ Below(B, C) /\ Below(B, D) /\ Below(C, D)
  <2>. HIDE DEF A, B, C, D
  <2>. QED  BY <1>0, <1>2, <1>3, <1>4, <1>5 DEF Below, Ordered
<1>7. OnTheWay(w) = A \o B \o C \o D
  BY DEF OnTheWay
<1>. HIDE DEF A, B, C, D
<1>8. /\ A \o B \in Seq(Nat) /\ Increasing(A \o B)
      /\ Below(A \o B, C) /\ Below(A \o B, D)
  BY <1>5, <1>6, JoinedInOrder
<1>9. /\ A \o B \o C \in Seq(Nat) /\ Increasing(A \o B \o C) /\ Below(A \o B \o C, D)
  BY <1>5, <1>6, <1>8, JoinedInOrder
<1>10. Increasing(A \o B \o C \o D)
  BY <1>5, <1>9, JoinedInOrder
<1>. QED  BY <1>7, <1>10

\* States reach a caller in the order they were published and none twice
\* (service_context.go:195-231), also where watches share one channel and take from it in turns.
THEOREM StatesInOrder == Spec => []NeverGoesBack
<1>1. WInv => NeverGoesBack
  BY OrderOnTheWay DEF Increasing, NeverGoesBack
<1>. QED  BY <1>1, WatchInvariant, PTL
=============================================================================
