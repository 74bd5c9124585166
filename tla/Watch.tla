------------------------------- MODULE Watch -------------------------------
(***************************************************************************)
(* service_context.go: the goroutine behind each WatchAllServices,         *)
(* WatchAnyServices and WatchAllStates of a service, between the states    *)
(* topic and the caller.                                                   *)
(*                                                                         *)
(* The states on the topic move as module Lifecycle says, which Daemon     *)
(* implements.  The topic is module Topic with what the watches use of it: *)
(* buffers of one with DropOldest, so that a broadcast never waits and is  *)
(* one step, and requests that are answered.  A watch makes at most one    *)
(* channel in its life, which is named by the watch it was made for.       *)
(*                                                                         *)
(* What a filter of WatchAllStates leaves out of a message is abstracted:  *)
(* the message is sent whatever is left of it.                             *)
(***************************************************************************)
EXTENDS ServiceStates, Naturals, Sequences, FiniteSets

CONSTANTS
    Services,       \* names of the services of the daemon
    Watches,        \* calls of the watch functions, each with its goroutine
    Call,           \* Call[w]: the function, action, target and names, and the caller's fqcn
    MaxUpdates,     \* bound on the updates published on the states topic
    None            \* no channel, no message

Functions == {"all", "any", "states"}
Actions == {"entering", "exited", "changing", "notIn"}

ASSUME WatchAssumption ==
    /\ \A w \in Watches : /\ Call[w].function \in Functions
                          /\ Call[w].function # "states" => /\ Call[w].action \in Actions
                                                            /\ Call[w].target \in States
    /\ MaxUpdates \in Nat
    /\ None \notin Watches

VARIABLES
    view,           \* the states published last
    count,          \* how many updates have been published
    subscribers,    \* the topic's map: the channel of each consumer group, or None
    buffer,         \* buffer[c]: what is in channel c
    open,           \* channel c is made and not closed
    pc,             \* pc[w]: where the goroutine of w is
    sub,            \* sub[w]: the channel w receives from
    held,           \* held[w]: the message w is sending to its caller
    out,            \* out[w]: what is in the channel the caller receives from
    seen,           \* seen[w]: the number of the message the caller received last
    done            \* done[w]: the context of w is done

topicVars == <<view, count, subscribers, buffer, open>>
watchVars == <<pc, sub, held, out, seen, done>>
vars == <<topicVars, watchVars>>

L == INSTANCE Lifecycle

Goto(w, label) == pc' = [pc EXCEPT ![w] = label]

\* A defect: all watches of a service use one consumer group.
GroupOfCaller(w) == <<Call[w].fqcn>>

\* The consumer group of a watch.
Group(w) ==
    IF Call[w].function = "states" THEN <<"all", Call[w].fqcn>>
    ELSE <<Call[w].action, Call[w].target, Call[w].fqcn>>

Groups == {Group(w) : w \in Watches}

\* The newest message.
Latest == [n |-> count, states |-> view]

\* The state update u of a service is what the caller of w waits for.
Matches(w, u) ==
    CASE Call[w].action = "entering" -> u = Entering(Call[w].target)
      [] Call[w].action = "exited"   -> u = Exited(Call[w].target)
      [] Call[w].action = "changing" -> u.state = Call[w].target
      [] Call[w].action = "notIn"    -> u.state # Call[w].target

\* The interested services; a name that is not in the states is skipped.
Interested(w, states) ==
    LET names == {Call[w].names[k] : k \in DOMAIN Call[w].names}
    IN  {s \in DOMAIN states \cap names : Matches(w, states[s])}

\* The caller is signalled; for WatchAllServices the code compares the sizes.
Wanted(w, states) ==
    CASE Call[w].function = "all"    -> Cardinality(Interested(w, states)) = Len(Call[w].names)
      [] Call[w].function = "any"    -> Interested(w, states) # {}
      [] Call[w].function = "states" -> TRUE

Init ==
    /\ L!Init /\ count = 0
    /\ subscribers = [g \in Groups |-> None]
    /\ buffer = [c \in Watches |-> <<>>]
    /\ open = [c \in Watches |-> FALSE]
    /\ pc = [w \in Watches |-> "off"]
    /\ sub = [w \in Watches |-> None]
    /\ held = [w \in Watches |-> None]
    /\ out = [w \in Watches |-> <<>>]
    /\ seen = [w \in Watches |-> 0]
    /\ done = [w \in Watches |-> FALSE]

-----------------------------------------------------------------------------
(* The states topic *)

\* A defect: a full channel keeps its message.
DeliveredKeepsOldest(b, m) == IF b = <<>> THEN <<m>> ELSE b

\* A buffer of one under DropOldest.
Delivered(b, m) == <<m>>

\* The state of one service changes and is broadcast to every subscriber.
Publish(s) ==
    /\ count < MaxUpdates
    /\ L!Move(s)
    /\ count' = count + 1
    /\ buffer' = [c \in Watches |->
                    IF open[c] THEN Delivered(buffer[c], Latest') ELSE buffer[c]]
    /\ UNCHANGED <<subscribers, open, watchVars>>

\* The topic serves the subscription of w: a new channel starts with the last message.
SubscribeGroup(w) ==
    LET g == Group(w) IN
    IF subscribers[g] # None THEN UNCHANGED <<subscribers, buffer, open>>
    ELSE /\ subscribers' = [subscribers EXCEPT ![g] = w]
         /\ buffer' = [buffer EXCEPT ![w] = IF count > 0 THEN <<Latest>> ELSE <<>>]
         /\ open' = [open EXCEPT ![w] = TRUE]

-----------------------------------------------------------------------------
(* The caller *)

Start(w) ==
    /\ pc[w] = "off"
    /\ Goto(w, "subscribing")
    /\ UNCHANGED <<topicVars, sub, held, out, seen, done>>

\* The caller cancels, or the context of its service is done.
Cancel(w) ==
    /\ pc[w] # "off" /\ ~done[w]
    /\ done' = [done EXCEPT ![w] = TRUE]
    /\ UNCHANGED <<topicVars, pc, sub, held, out, seen>>

CallerReceive(w) ==
    /\ out[w] # <<>>
    /\ seen' = [seen EXCEPT ![w] = Head(out[w]).n]
    /\ out' = [out EXCEPT ![w] = Tail(@)]
    /\ UNCHANGED <<topicVars, pc, sub, held, done>>

-----------------------------------------------------------------------------
(* The goroutine of a watch *)

\* CreateSubscription returns the channel of the group.
Subscribe(w) ==
    /\ pc[w] = "subscribing"
    /\ SubscribeGroup(w)
    /\ sub' = [sub EXCEPT ![w] = subscribers'[Group(w)]]
    /\ Goto(w, "select")
    /\ UNCHANGED <<view, count, held, out, seen, done>>

\* The context is done first: the goroutine ends, whether the request was sent or not.
SubscribeAbandoned(w) ==
    /\ pc[w] = "subscribing" /\ done[w]
    /\ SubscribeGroup(w) \/ UNCHANGED <<subscribers, buffer, open>>
    /\ Goto(w, "ended")
    /\ UNCHANGED <<view, count, sub, held, out, seen, done>>

Take(w) ==
    /\ pc[w] = "select"
    /\ buffer[sub[w]] # <<>>
    /\ buffer' = [buffer EXCEPT ![sub[w]] = Tail(@)]
    /\ LET m == Head(buffer[sub[w]]) IN
         IF Wanted(w, m.states)
         THEN held' = [held EXCEPT ![w] = m] /\ Goto(w, "sending")
         ELSE UNCHANGED <<held, pc>>
    /\ UNCHANGED <<view, count, subscribers, open, sub, out, seen, done>>

\* A defect: the caller's channel has no bound.
SendWithoutRoom(w) ==
    /\ pc[w] = "sending"
    /\ out' = [out EXCEPT ![w] = Append(@, held[w])]
    /\ held' = [held EXCEPT ![w] = None]
    /\ Goto(w, "select")
    /\ UNCHANGED <<topicVars, sub, seen, done>>

\* A defect: the goroutine sends the same states until it is cancelled.
SendAgain(w) ==
    /\ pc[w] = "sending"
    /\ out[w] = <<>>
    /\ out' = [out EXCEPT ![w] = <<held[w]>>]
    /\ UNCHANGED <<topicVars, pc, sub, held, seen, done>>

\* The caller's channel has room for one.
Send(w) ==
    /\ pc[w] = "sending"
    /\ out[w] = <<>>
    /\ out' = [out EXCEPT ![w] = <<held[w]>>]
    /\ held' = [held EXCEPT ![w] = None]
    /\ Goto(w, "select")
    /\ UNCHANGED <<topicVars, sub, seen, done>>

\* A defect: the context is not looked at while the caller does not receive.
ContextDoneInSelect(w) ==
    /\ pc[w] = "select" /\ done[w]
    /\ Goto(w, "leaving")
    /\ UNCHANGED <<topicVars, sub, held, out, seen, done>>

ContextDone(w) ==
    /\ pc[w] \in {"select", "sending"} /\ done[w]
    /\ Goto(w, "leaving")
    /\ held' = [held EXCEPT ![w] = None]
    /\ UNCHANGED <<topicVars, sub, out, seen, done>>

ChannelClosed(w) ==
    /\ pc[w] = "select"
    /\ buffer[sub[w]] = <<>> /\ ~open[sub[w]]
    /\ Goto(w, "leaving")
    /\ UNCHANGED <<topicVars, sub, held, out, seen, done>>

\* RemoveSubscription, which closes the channel if it is still the one of the group;
\* then the caller's channel is closed.
Leave(w) ==
    LET removed == subscribers[Group(w)] = sub[w] IN
    /\ pc[w] = "leaving"
    /\ subscribers' = IF removed THEN [subscribers EXCEPT ![Group(w)] = None] ELSE subscribers
    /\ open' = IF removed THEN [open EXCEPT ![sub[w]] = FALSE] ELSE open
    /\ Goto(w, "ended")
    /\ UNCHANGED <<view, count, buffer, sub, held, out, seen, done>>

-----------------------------------------------------------------------------

WatchStep(w) ==
    \/ Subscribe(w) \/ SubscribeAbandoned(w) \/ Take(w) \/ Send(w)
    \/ ContextDone(w) \/ ChannelClosed(w) \/ Leave(w)

CallerStep(w) == Start(w) \/ Cancel(w) \/ CallerReceive(w)

\* Every watch has come to its end.
Terminated == (\A w \in Watches : pc[w] = "ended") /\ UNCHANGED vars

Next ==
    \/ \E s \in Services : Publish(s)
    \/ \E w \in Watches : CallerStep(w) \/ WatchStep(w)
    \/ Terminated

Spec == Init /\ [][Next]_vars

(***************************************************************************)
(* Fairness: goroutines run, and a caller receives as long as it has not   *)
(* cancelled.  Nothing makes a caller start or cancel a watch, nor a       *)
(* service change its state.                                               *)
(***************************************************************************)
Fairness ==
    \A w \in Watches : WF_vars(WatchStep(w)) /\ WF_vars(~done[w] /\ CallerReceive(w))

FairSpec == Spec /\ Fairness

-----------------------------------------------------------------------------
(* Safety *)

Messages == [n : 1 .. MaxUpdates, states : [Services -> StateUpdates]]

TypeOK ==
    /\ view \in [Services -> StateUpdates] /\ count \in 0 .. MaxUpdates
    /\ subscribers \in [Groups -> Watches \cup {None}]
    /\ buffer \in [Watches -> Seq(Messages)] /\ \A c \in Watches : Len(buffer[c]) <= 1
    /\ open \in [Watches -> BOOLEAN]
    /\ pc \in [Watches -> {"off", "subscribing", "select", "sending", "leaving", "ended"}]
    /\ sub \in [Watches -> Watches \cup {None}]
    /\ held \in [Watches -> Messages \cup {None}]
    /\ out \in [Watches -> Seq(Messages)] /\ \A w \in Watches : Len(out[w]) <= 1
    /\ seen \in [Watches -> 0 .. MaxUpdates]
    /\ done \in [Watches -> BOOLEAN]

\* What a watch is about: all states, or an action and a target, and for whom.
About(w) ==
    [fqcn |-> Call[w].fqcn,
     what |-> IF Call[w].function = "states" THEN <<>> ELSE <<Call[w].action, Call[w].target>>]

\* No other watch of the service is about the same.
Alone(w) == \A v \in Watches : About(v) = About(w) => v = w

\* The channel of a watch that is alone in what it is about stays open until it is
\* cancelled.  Callers take a closed channel for a signal
\* (examples/multi_service/polling_service.go:49).
AloneOpenUntilCancelled ==
    \A w \in Watches : Alone(w) /\ pc[w] \in {"leaving", "ended"} => done[w]

\* The numbers of the messages on their way to the caller of w, oldest first.
OnTheWay(w) ==
    <<seen[w]>> \o [k \in DOMAIN out[w] |-> out[w][k].n]
    \o (IF held[w] = None THEN <<>> ELSE <<held[w].n>>)
    \o (IF pc[w] \in {"select", "sending"}
        THEN [k \in DOMAIN buffer[sub[w]] |-> buffer[sub[w]][k].n] ELSE <<>>)

\* States reach a caller in the order they were published and none twice, through
\* the three buffers between the broadcaster and the caller.
NeverGoesBack ==
    \A w \in Watches : \A j, k \in DOMAIN OnTheWay(w) : j < k => OnTheWay(w)[j] < OnTheWay(w)[k]

-----------------------------------------------------------------------------
(* Liveness *)

Watching(w) == pc[w] \in {"select", "sending"} /\ ~done[w]

\* A caller that keeps receiving is signalled the states a watch waits for, once
\* they last: conflation loses only what is outdated.  A watch that shares its group
\* has no such promise: the other one may take the message.
LastingStatesShown ==
    \A w \in Watches :
        (Alone(w) /\ Watching(w) /\ count = MaxUpdates /\ Wanted(w, view)) ~>
            (seen[w] = MaxUpdates \/ ~Watching(w))

\* The goroutine of a cancelled watch ends and closes the caller's channel, also when
\* the caller does not receive any more.
EndsWhenCancelled == \A w \in Watches : done[w] ~> (pc[w] = "ended")

-----------------------------------------------------------------------------
(* What comments of the code say, and the code does not do *)

\* The channel of a watch "will stay open until this cancel function is called or the
\* parent context is done" (service_context.go:30, 41, 52).
OpenUntilCancelled == \A w \in Watches : pc[w] \in {"leaving", "ended"} => done[w]
=============================================================================
