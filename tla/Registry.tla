------------------------------ MODULE Registry ------------------------------
(***************************************************************************)
(* The registry of package intracom (intracom.go): topics are created,     *)
(* found, removed and closed by name, by any goroutine at any time.        *)
(*                                                                         *)
(* The closed flag is atomic and the map is behind a lock, but no          *)
(* operation holds the lock from its lookup to what it does with the       *)
(* result: each access of the flag, of the map or of a topic is a step of  *)
(* its own.  Topics are numbered in the order they are made, so a number   *)
(* tells a topic from a later one of the same name.  What happens inside a *)
(* topic is module Topic; here a topic is open until its Close.            *)
(***************************************************************************)
EXTENDS Naturals, Sequences, FiniteSets

CONSTANTS
    Tasks,              \* goroutines that use the registry
    Names,              \* names of topics
    TypeOf,             \* TypeOf[t]: the type parameter T task t calls the functions with
    ErrIfExists,        \* the tasks that create topics with TopicConfig.ErrIfExists
    Creators,           \* the tasks that create topics
    Removers,           \* the tasks that remove topics
    Owners,             \* the tasks that call Close of the topic they were given
    Subscribers,        \* the tasks that subscribe
    Closers,            \* the tasks that close the registry
    MaxTopics           \* bound on the number of topics made

Types == {"any", "typed"}

ASSUME RegistryAssumption ==
    /\ IsFiniteSet(Tasks) /\ Names # {}
    /\ TypeOf \in [Tasks -> Types]
    /\ ErrIfExists \cup Creators \cup Removers \cup Owners \cup Subscribers \cup Closers
         \subseteq Tasks
    /\ MaxTopics \in Nat

VARIABLES
    topics,         \* the topics made so far: name, type, and who closed it
    registry,       \* ic.topics: the number of the topic under each name, or 0
    closed,         \* ic.closed
    pc,             \* pc[t]: where task t is
    name,           \* name[t]: the topic name of its call
    found,          \* found[t]: the topic its lookup found
    held,           \* held[t]: the topic CreateTopic gave it, or 0
    joined,         \* joined[t]: the topic it is subscribed to, or 0
    replaced,       \* the topics that were overwritten in the map
    abandoned       \* the open topics with a subscriber that nobody will remove

taskVars == <<pc, name, found, held, joined>>
vars == <<topics, registry, closed, taskVars, replaced, abandoned>>

Made == DOMAIN topics
Open(i) == topics[i].closedBy = "nobody"
MarkClosed(i, who) == topics' = [topics EXCEPT ![i].closedBy = who]

\* What the type assertion topicAny.(Topic[T]) of task t says.
Matches(t, i) == topics[i].type = TypeOf[t]

Goto(t, label) == pc' = [pc EXCEPT ![t] = label]

\* The call of task t about name n begins.
Call(t, n, label) ==
    /\ pc[t] = "idle"
    /\ Goto(t, label)
    /\ name' = [name EXCEPT ![t] = n]

Init ==
    /\ topics = <<>>
    /\ registry = [n \in Names |-> 0]
    /\ closed = FALSE
    /\ pc = [t \in Tasks |-> "idle"]
    /\ name = [t \in Tasks |-> CHOOSE n \in Names : TRUE]
    /\ found = [t \in Tasks |-> 0]
    /\ held = [t \in Tasks |-> 0]
    /\ joined = [t \in Tasks |-> 0]
    /\ replaced = {} /\ abandoned = {}

-----------------------------------------------------------------------------
(* CreateTopic *)

\* Tasks that may still make a topic; together with those made, at most MaxTopics.
Creating == {t \in Tasks : pc[t] \in {"create", "store"}}

CreateTopic(t, n) ==
    /\ t \in Creators /\ ~closed
    /\ Len(topics) + Cardinality(Creating) < MaxTopics
    /\ Call(t, n, "create")
    /\ UNCHANGED <<topics, registry, closed, found, held, joined, replaced, abandoned>>

\* A defect: the type of an existing topic is not looked at.
CreateLookupAnyType(t) ==
    LET i == registry[name[t]] IN
    /\ pc[t] = "create"
    /\ Goto(t, IF i = 0 THEN "store" ELSE "idle")
    /\ held' = IF i # 0 /\ t \notin ErrIfExists THEN [held EXCEPT ![t] = i] ELSE held
    /\ UNCHANGED <<topics, registry, closed, name, found, joined, replaced, abandoned>>

\* The lookup.  An existing topic of the right type is returned, unless the caller
\* insists on being the first; an error leaves the caller with what it had.
CreateLookup(t) ==
    LET i == registry[name[t]] IN
    /\ pc[t] = "create"
    /\ Goto(t, IF i = 0 THEN "store" ELSE "idle")
    /\ held' = IF i # 0 /\ Matches(t, i) /\ t \notin ErrIfExists
               THEN [held EXCEPT ![t] = i] ELSE held
    /\ UNCHANGED <<topics, registry, closed, name, found, joined, replaced, abandoned>>

\* NewTopic, and the store under the lock: what is there by now is overwritten.
CreateStore(t) ==
    LET n == name[t]
        i == Len(topics) + 1
    IN
    /\ pc[t] = "store"
    /\ topics' = Append(topics, [name |-> n, type |-> TypeOf[t], closedBy |-> "nobody"])
    /\ registry' = [registry EXCEPT ![n] = i]
    /\ replaced' = IF registry[n] = 0 THEN replaced ELSE replaced \cup {registry[n]}
    /\ held' = [held EXCEPT ![t] = i]
    /\ Goto(t, "idle")
    /\ UNCHANGED <<closed, name, found, joined, abandoned>>

-----------------------------------------------------------------------------
(* RemoveTopic, and Close of the topic itself *)

\* A defect: the name is deleted before the topic is closed.
RemoveTopicAtOnce(t, n) ==
    /\ t \in Removers
    /\ registry[n] # 0 /\ Matches(t, registry[n])
    /\ Call(t, n, "remove")
    /\ found' = [found EXCEPT ![t] = registry[n]]
    /\ registry' = [registry EXCEPT ![n] = 0]
    /\ UNCHANGED <<topics, closed, held, joined, replaced, abandoned>>

\* The lookup; a name that is unknown or has another type is an error.
RemoveTopic(t, n) ==
    /\ t \in Removers
    /\ registry[n] # 0 /\ Matches(t, registry[n])
    /\ Call(t, n, "remove")
    /\ found' = [found EXCEPT ![t] = registry[n]]
    /\ UNCHANGED <<topics, registry, closed, held, joined, replaced, abandoned>>

\* A defect: the name is deleted even if the topic was closed by somebody else.
RemoveCloseAndDelete(t) ==
    LET i == found[t] IN
    /\ pc[t] = "remove"
    /\ IF Open(i) THEN MarkClosed(i, "remover") ELSE UNCHANGED topics
    /\ Goto(t, "delete")
    /\ abandoned' = abandoned \ {i}
    /\ UNCHANGED <<registry, closed, name, found, held, joined, replaced>>

\* topic.Close; on a topic that is closed already it fails, and so does RemoveTopic.
RemoveClose(t) ==
    LET i == found[t] IN
    /\ pc[t] = "remove"
    /\ IF Open(i) THEN MarkClosed(i, "remover") /\ Goto(t, "delete")
                  ELSE Goto(t, "idle") /\ UNCHANGED topics
    /\ abandoned' = abandoned \ {i}
    /\ UNCHANGED <<registry, closed, name, found, held, joined, replaced>>

\* A defect: the topic is closed and stays in the map.
RemoveKeepsName(t) ==
    /\ pc[t] = "delete"
    /\ Goto(t, "idle")
    /\ UNCHANGED <<topics, registry, closed, name, found, held, joined, replaced, abandoned>>

\* The name is deleted, whatever it stands for by now.
RemoveDelete(t) ==
    /\ pc[t] = "delete"
    /\ registry' = [registry EXCEPT ![name[t]] = 0]
    /\ Goto(t, "idle")
    /\ UNCHANGED <<topics, closed, name, found, held, joined, replaced, abandoned>>

\* A task that was given a topic may close it without the registry.
OwnerClose(t) ==
    /\ t \in Owners /\ pc[t] = "idle"
    /\ held[t] # 0 /\ Open(held[t])
    /\ MarkClosed(held[t], "owner")
    /\ abandoned' = abandoned \ {held[t]}
    /\ UNCHANGED <<registry, closed, taskVars, replaced>>

-----------------------------------------------------------------------------
(* CreateSubscription and RemoveSubscription *)

CreateSubscription(t, n) ==
    /\ t \in Subscribers /\ joined[t] = 0 /\ ~closed
    /\ Call(t, n, "poll")
    /\ UNCHANGED <<topics, registry, closed, found, held, joined, replaced, abandoned>>

\* A defect: only the first look at the flag, before the loop, counts.
PollForever(t) ==
    /\ pc[t] = "poll"
    /\ Goto(t, "lookup")
    /\ UNCHANGED <<topics, registry, closed, name, found, held, joined,
                   replaced, abandoned>>

\* A tick of the retry timer, which looks at the closed flag first.
Poll(t) ==
    /\ pc[t] = "poll"
    /\ Goto(t, IF closed THEN "idle" ELSE "lookup")
    /\ UNCHANGED <<topics, registry, closed, name, found, held, joined,
                   replaced, abandoned>>

SubscribeLookup(t) ==
    LET i == registry[name[t]] IN
    /\ pc[t] = "lookup"
    /\ Goto(t, IF i = 0 THEN "poll" ELSE IF Matches(t, i) THEN "join" ELSE "idle")
    /\ found' = [found EXCEPT ![t] = i]
    /\ UNCHANGED <<topics, registry, closed, name, held, joined, replaced, abandoned>>

\* topic.Subscribe, which fails on a closed topic.
Join(t) ==
    /\ pc[t] = "join"
    /\ joined' = IF Open(found[t]) THEN [joined EXCEPT ![t] = found[t]] ELSE joined
    /\ Goto(t, "idle")
    /\ UNCHANGED <<topics, registry, closed, name, found, held, replaced, abandoned>>

\* The context is done, or maxWait is over.
SubscribeTimeout(t) ==
    /\ pc[t] \in {"poll", "join"}
    /\ Goto(t, "idle")
    /\ UNCHANGED <<topics, registry, closed, name, found, held, joined,
                   replaced, abandoned>>

\* A subscription to topic i is given up, and the topic does not know it.
Abandon(i) == abandoned' = IF Open(i) THEN abandoned \cup {i} ELSE abandoned

\* The lookup of RemoveSubscription, by the name: without a topic there, or with one
\* of another type, it fails and the subscription stays where it is.
RemoveSubscription(t) ==
    LET n == topics[joined[t]].name
        i == registry[n]
    IN
    /\ joined[t] # 0
    /\ Call(t, n, IF i # 0 /\ Matches(t, i) THEN "leave" ELSE "idle")
    /\ found' = [found EXCEPT ![t] = i]
    /\ IF i # 0 /\ Matches(t, i)
       THEN UNCHANGED <<joined, abandoned>>
       ELSE joined' = [joined EXCEPT ![t] = 0] /\ Abandon(joined[t])
    /\ UNCHANGED <<topics, registry, closed, held, replaced>>

\* topic.Unsubscribe of the topic that was found: another topic than the one the
\* channel came from does not know the channel.
Unsubscribe(t) ==
    /\ pc[t] = "leave"
    /\ Goto(t, "idle")
    /\ joined' = [joined EXCEPT ![t] = 0]
    /\ IF found[t] = joined[t] THEN UNCHANGED abandoned ELSE Abandon(joined[t])
    /\ UNCHANGED <<topics, registry, closed, name, found, held, replaced>>

-----------------------------------------------------------------------------
(* Close of the registry *)

\* The flag is swapped first.
Close(t) ==
    /\ t \in Closers /\ ~closed
    /\ closed' = TRUE
    /\ pc[t] = "idle" /\ Goto(t, "close")
    /\ UNCHANGED <<topics, registry, name, found, held, joined, replaced, abandoned>>

\* Under the lock: every topic whose type is Topic[any] is closed, and all are dropped.
ClosedWithRegistry == {i \in Made : topics[i].type = "any" /\ Open(i) /\ registry[topics[i].name] = i}

CloseTopics(t) ==
    /\ pc[t] = "close"
    /\ topics' = [i \in Made |-> IF i \in ClosedWithRegistry
                                 THEN [topics[i] EXCEPT !.closedBy = "registry"] ELSE topics[i]]
    /\ registry' = [n \in Names |-> 0]
    /\ abandoned' = abandoned \ ClosedWithRegistry
    /\ Goto(t, "idle")
    /\ UNCHANGED <<closed, name, found, held, joined, replaced>>

-----------------------------------------------------------------------------

CreateStep(t) == CreateLookup(t) \/ CreateStore(t)
RemoveStep(t) == RemoveClose(t) \/ RemoveDelete(t)
SubscribeStep(t) == Poll(t) \/ SubscribeLookup(t) \/ Join(t) \/ Unsubscribe(t)

\* The registry is closed and every call has returned.
Terminated == closed /\ (\A t \in Tasks : pc[t] = "idle") /\ UNCHANGED vars

Next ==
    \/ \E t \in Tasks :
        \/ \E n \in Names : CreateTopic(t, n) \/ RemoveTopic(t, n) \/ CreateSubscription(t, n)
        \/ CreateStep(t) \/ RemoveStep(t) \/ SubscribeStep(t) \/ CloseTopics(t)
        \/ OwnerClose(t) \/ SubscribeTimeout(t) \/ RemoveSubscription(t) \/ Close(t)
    \/ Terminated

Spec == Init /\ [][Next]_vars

\* Calls that have begun go on: the timer of CreateSubscription fires, locks are granted.
\* Nothing makes a program create, remove, subscribe or close.
Fairness ==
    \A t \in Tasks : /\ WF_vars(CreateStep(t)) /\ WF_vars(RemoveStep(t))
                     /\ WF_vars(SubscribeStep(t)) /\ WF_vars(CloseTopics(t))

FairSpec == Spec /\ Fairness

-----------------------------------------------------------------------------
(* Safety *)

\* Types; and nobody holds or has joined a topic of another type than its own, which
\* the type assertions of intracom.go are there for.
TypeOK ==
    /\ topics \in Seq([name : Names, type : Types,
                       closedBy : {"nobody", "remover", "owner", "registry"}])
    /\ Len(topics) <= MaxTopics
    /\ registry \in [Names -> 0 .. Len(topics)]
    /\ closed \in BOOLEAN
    /\ pc \in [Tasks -> {"idle", "create", "store", "remove", "delete", "poll", "lookup",
                         "join", "leave", "close"}]
    /\ name \in [Tasks -> Names]
    /\ found \in [Tasks -> 0 .. Len(topics)]
    /\ held \in [Tasks -> 0 .. Len(topics)]
    /\ joined \in [Tasks -> 0 .. Len(topics)]
    /\ replaced \subseteq Made /\ abandoned \subseteq Made
    /\ \A t \in Tasks : \A i \in {held[t], joined[t]} \ {0} : Matches(t, i)

\* Two creators of topic i's name overlapped, or the registry was closed under a call
\* that had read the flag before.
Raced(i) == closed \/ \E j \in replaced : topics[j].name = topics[i].name

\* A topic that is open can be found by its name; only the races of CreateTopic, with
\* itself or with Close, lose one (intracom.go:68-80), whatever removers, owners and
\* stale lookups do.
OpenTopicsAreFound ==
    \A i \in Made : Open(i) => registry[topics[i].name] = i \/ Raced(i)

\* A topic that is found by its name is open, unless it is being removed or its owner
\* closed it without the registry (intracom.go:130-137).
FoundTopicsAreOpen ==
    \A n \in Names :
        registry[n] # 0 /\ topics[registry[n]].closedBy # "owner" =>
            \/ Open(registry[n])
            \/ \E t \in Tasks : pc[t] = "delete" /\ found[t] = registry[n] /\ name[t] = n

\* RemoveSubscription, which goes by the name, never leaves a subscription behind on
\* a topic that is still open, but for the same races (intracom.go:222-243).
SubscriptionsAreRemoved == \A i \in abandoned : Raced(i)

-----------------------------------------------------------------------------
(* Liveness *)

\* A CreateSubscription without a limit ends when the registry is closed, however late
\* (intracom.go:193-196).
WaitingEndsWithClose ==
    \A t \in Tasks : (pc[t] \in {"poll", "lookup"} /\ closed) ~> pc[t] \notin {"poll", "lookup"}

-----------------------------------------------------------------------------
(* What comments of the code say, and the code does not do *)

\* "It will close all topics and remove them from the registry." (intracom.go:246)
CloseClosesTopics ==
    closed /\ (\A t \in Tasks : pc[t] # "close") => \A i \in Made : ~Open(i)
=============================================================================
