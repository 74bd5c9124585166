--------------------------- MODULE RegistryProofs ---------------------------
(***************************************************************************)
(* Proofs about Registry, for any tasks in any roles, any names and any    *)
(* number of topics: types, and the three invariants that relate the map   *)
(* of names to the topics and the subscriptions.                           *)
(***************************************************************************)
EXTENDS Registry, FiniteSetTheorems, TLAPS

(***************************************************************************)
(* The inductive invariant.  Each part says what a task may still rely on  *)
(* of the lookup it made some steps ago.                                   *)
(***************************************************************************)

TopicRecord == [name : Names, type : Types,
                closedBy : {"nobody", "remover", "owner", "registry"}]

\* The bound on topics counts those that are still to be made.
BoundKept == Len(topics) + Cardinality(Creating) <= MaxTopics

\* A name stands for a topic that was created under it.
NamesStand == \A n \in Names : registry[n] # 0 => topics[registry[n]].name = n

\* What a task found exists, and has the name it was looked for by; what it is about to
\* join has the type it was looked for by.
FoundFits(t) ==
    /\ pc[t] \in {"remove", "delete"} => found[t] # 0 /\ topics[found[t]].name = name[t]
    /\ pc[t] = "join" => found[t] # 0 /\ Matches(t, found[t])
    /\ pc[t] = "leave" => found[t] # 0 /\ joined[t] # 0

\* A topic that is being removed is closed, by that task alone, and still has its name
\* unless there was a race.
RemoverAlone(t) ==
    pc[t] = "delete" =>
        /\ ~Open(found[t])
        /\ registry[name[t]] = found[t] \/ Raced(found[t])
        /\ \A u \in Tasks : pc[u] = "delete" /\ found[u] = found[t] => u = t

\* A task that leaves another topic than it joined lost the latter in a race.
LeavesItsOwn(t) ==
    pc[t] = "leave" /\ found[t] # joined[t] /\ Open(joined[t]) => Raced(joined[t])

ClosingTask == \A t \in Tasks : pc[t] = "close" => closed

TaskInv == \A t \in Tasks : FoundFits(t) /\ RemoverAlone(t) /\ LeavesItsOwn(t)

RInv ==
    /\ TypeOK /\ BoundKept /\ NamesStand /\ TaskInv /\ ClosingTask
    /\ OpenTopicsAreFound /\ FoundTopicsAreOpen /\ SubscriptionsAreRemoved

-----------------------------------------------------------------------------
(* Topics and what a step does to them *)

LEMMA MadeTopics ==
  ASSUME TypeOK
  PROVE  /\ Len(topics) \in Nat /\ Made = 1 .. Len(topics)
         /\ \A i \in Made : /\ topics[i] \in TopicRecord
                            /\ topics[i].name \in Names /\ topics[i].type \in Types
<1>1. topics \in Seq(TopicRecord)
  BY DEF TypeOK, TopicRecord
<1>2. Len(topics) \in Nat /\ Made = 1 .. Len(topics)
      /\ \A i \in Made : topics[i] \in TopicRecord
  BY <1>1 DEF Made
<1>. QED  BY <1>2 DEF TopicRecord

\* Topics are only added, and keep their names and types; a closed one stays as it is.
Grows ==
    /\ topics' \in Seq(TopicRecord) /\ Made \subseteq Made'
    /\ Len(topics') \in Nat /\ Made' = 1 .. Len(topics') /\ Len(topics) <= Len(topics')
    /\ \A i \in Made : /\ topics'[i].name = topics[i].name
                       /\ topics'[i].type = topics[i].type
                       /\ ~Open(i) => topics'[i].closedBy = topics[i].closedBy

LEMMA SameTopics ==
  ASSUME TypeOK, UNCHANGED topics
  PROVE  Grows
BY MadeTopics DEF Grows, TypeOK, TopicRecord, Made

LEMMA MarkedTopic ==
  ASSUME TypeOK, NEW i \in Made, NEW who \in {"remover", "owner"}, Open(i),
         MarkClosed(i, who)
  PROVE  /\ Grows /\ Made' = Made /\ Len(topics') = Len(topics)
         /\ topics'[i].closedBy = who
         /\ \A j \in Made \ {i} : topics'[j] = topics[j]
<1>1. /\ Len(topics) \in Nat /\ Made = 1 .. Len(topics) /\ topics \in Seq(TopicRecord)
      /\ \A j \in Made : topics[j] \in TopicRecord
  BY MadeTopics DEF TypeOK, TopicRecord
<1>2. topics' = [topics EXCEPT ![i] = [topics[i] EXCEPT !.closedBy = who]]
  BY DEF MarkClosed
<1>3. [topics[i] EXCEPT !.closedBy = who] \in TopicRecord
  BY <1>1 DEF TopicRecord
<1>4. topics' \in Seq(TopicRecord) /\ Len(topics') = Len(topics)
  BY <1>1, <1>2, <1>3
<1>5. Made' = Made
  BY <1>1, <1>4 DEF Made
<1>6. topics'[i] = [topics[i] EXCEPT !.closedBy = who]
      /\ \A j \in Made \ {i} : topics'[j] = topics[j]
  BY <1>1, <1>2
<1>7. topics'[i].name = topics[i].name /\ topics'[i].type = topics[i].type
      /\ topics'[i].closedBy = who
  BY <1>1, <1>6 DEF TopicRecord
<1>8. \A j \in Made : /\ topics'[j].name = topics[j].name
                      /\ topics'[j].type = topics[j].type
                      /\ ~Open(j) => topics'[j].closedBy = topics[j].closedBy
  BY <1>6, <1>7 DEF Open
<1>9. Grows
  BY <1>1, <1>4, <1>5, <1>8 DEF Grows
<1>. QED  BY <1>4, <1>5, <1>6, <1>7, <1>9

LEMMA AddedTopic ==
  ASSUME TypeOK, NEW n \in Names, NEW ty \in Types,
         topics' = Append(topics, [name |-> n, type |-> ty, closedBy |-> "nobody"])
  PROVE  /\ Grows /\ Len(topics') = Len(topics) + 1 /\ Len(topics') \notin Made
         /\ Made' = Made \cup {Len(topics')}
         /\ topics'[Len(topics')] = [name |-> n, type |-> ty, closedBy |-> "nobody"]
         /\ \A j \in Made : topics'[j] = topics[j]
<1>. DEFINE r == [name |-> n, type |-> ty, closedBy |-> "nobody"]
<1>1. /\ Len(topics) \in Nat /\ Made = 1 .. Len(topics) /\ topics \in Seq(TopicRecord)
  BY MadeTopics DEF TypeOK, TopicRecord
<1>2. r \in TopicRecord
  BY DEF TopicRecord
<1>. HIDE DEF r
<1>3. topics' = Append(topics, r)
  BY DEF r
<1>4. /\ topics' \in Seq(TopicRecord) /\ Len(topics') = Len(topics) + 1
      /\ topics'[Len(topics')] = r
      /\ \A j \in 1 .. Len(topics) : topics'[j] = topics[j]
  BY <1>1, <1>2, <1>3
<1>5. Made' = 1 .. Len(topics')
  BY <1>4 DEF Made
<1>. QED  BY <1>1, <1>4, <1>5 DEF Grows, r

\* CloseTopics replaces the sequence by one of the same length.
LEMMA ClosedTopics ==
  ASSUME TypeOK, NEW t \in Tasks, CloseTopics(t)
  PROVE  Grows /\ Made' = Made /\ Len(topics') = Len(topics)
<1>1. /\ Len(topics) \in Nat /\ Made = 1 .. Len(topics)
      /\ \A j \in Made : topics[j] \in TopicRecord
  BY MadeTopics
<1>. DEFINE new(i) == IF i \in ClosedWithRegistry
                      THEN [topics[i] EXCEPT !.closedBy = "registry"] ELSE topics[i]
<1>2. topics' = [i \in 1 .. Len(topics) |-> new(i)]
  BY <1>1 DEF CloseTopics
<1>3. \A i \in Made : /\ new(i) \in TopicRecord
                      /\ new(i).name = topics[i].name /\ new(i).type = topics[i].type
                      /\ ~Open(i) => new(i) = topics[i]
  BY <1>1 DEF TopicRecord, ClosedWithRegistry
<1>. HIDE DEF new
<1>4. topics' \in [1 .. Len(topics) -> TopicRecord]
  BY <1>1, <1>2, <1>3
<1>5. topics' \in Seq(TopicRecord) /\ Len(topics') = Len(topics)
  BY <1>1, <1>4
<1>6. Made' = Made
  BY <1>1, <1>5 DEF Made
<1>7. \A i \in Made : topics'[i] = new(i)
  BY <1>1, <1>2
<1>. QED  BY <1>1, <1>3, <1>5, <1>6, <1>7 DEF Grows

-----------------------------------------------------------------------------
(* Types *)

\* The steps that leave topics and map alone.
Quiet ==
    \E t \in Tasks :
        \/ \E n \in Names : CreateTopic(t, n) \/ RemoveTopic(t, n) \/ CreateSubscription(t, n)
        \/ CreateLookup(t) \/ SubscribeStep(t) \/ SubscribeTimeout(t)
        \/ RemoveSubscription(t) \/ Close(t)

LEMMA QuietTypes ==
  ASSUME RInv, Quiet
  PROVE  TypeOK'
<1>. USE DEF RInv, TypeOK, Matches, Goto, Call, Made
<1>1. CASE \E t \in Tasks : \E n \in Names : CreateTopic(t, n)
  BY <1>1 DEF CreateTopic
<1>2. CASE \E t \in Tasks : \E n \in Names : RemoveTopic(t, n)
  BY <1>2 DEF RemoveTopic
<1>3. CASE \E t \in Tasks : \E n \in Names : CreateSubscription(t, n)
  BY <1>3 DEF CreateSubscription
<1>4. CASE \E t \in Tasks : CreateLookup(t)
  BY <1>4 DEF CreateLookup
<1>5. CASE \E t \in Tasks : Poll(t)
  BY <1>5 DEF Poll
<1>6. CASE \E t \in Tasks : SubscribeLookup(t)
  BY <1>6 DEF SubscribeLookup
<1>7. CASE \E t \in Tasks : Join(t)
  BY <1>7 DEF Join, TaskInv, FoundFits
<1>8. CASE \E t \in Tasks : Unsubscribe(t)
  <2>1. PICK t \in Tasks : Unsubscribe(t)
    BY <1>8
  <2>2. joined[t] # 0 /\ joined[t] \in 0 .. Len(topics)
    BY <2>1 DEF Unsubscribe, TaskInv, FoundFits
  <2>3. joined[t] \in Made
    BY <2>2, MadeTopics
  <2>4. abandoned' \subseteq Made'
    BY <2>1, <2>3 DEF Unsubscribe, Abandon
  <2>5. UNCHANGED <<topics, registry, closed, name, found, held, replaced>>
    BY <2>1 DEF Unsubscribe
  <2>6. /\ pc' = [pc EXCEPT ![t] = "idle"]
        /\ joined' = [joined EXCEPT ![t] = 0]
    BY <2>1 DEF Unsubscribe
  <2>. QED  BY <2>4, <2>5, <2>6
<1>9. CASE \E t \in Tasks : SubscribeTimeout(t)
  BY <1>9 DEF SubscribeTimeout
<1>10. CASE \E t \in Tasks : RemoveSubscription(t)
  <2>1. PICK t \in Tasks : RemoveSubscription(t)
    BY <1>10
  <2>2. joined[t] # 0 /\ joined[t] \in 0 .. Len(topics)
    BY <2>1 DEF RemoveSubscription
  <2>3. joined[t] \in Made /\ topics[joined[t]].name \in Names
    BY <2>2, MadeTopics
  <2>4. abandoned' \subseteq Made'
    BY <2>1, <2>3 DEF RemoveSubscription, Abandon
  <2>5. UNCHANGED <<topics, registry, closed, held, replaced>>
    BY <2>1 DEF RemoveSubscription
  <2>6. PICK label \in {"leave", "idle"} : pc' = [pc EXCEPT ![t] = label]
    BY <2>1 DEF RemoveSubscription
  <2>7. /\ name' = [name EXCEPT ![t] = topics[joined[t]].name]
        /\ found' = [found EXCEPT ![t] = registry[topics[joined[t]].name]]
        /\ joined' = joined \/ joined' = [joined EXCEPT ![t] = 0]
    BY <2>1 DEF RemoveSubscription
  <2>8. /\ name' \in [Tasks -> Names]
        /\ found' \in [Tasks -> 0 .. Len(topics)]
    BY <2>3, <2>7
  <2>9. /\ joined' \in [Tasks -> 0 .. Len(topics)]
        /\ \A u \in Tasks : joined'[u] \in {joined[u], 0}
    BY <2>7, MadeTopics
  <2>10. \A u \in Tasks : \A i \in {held'[u], joined'[u]} \ {0} : Matches(u, i)'
    BY <2>5, <2>9
  <2>. QED  BY <2>4, <2>5, <2>6, <2>8, <2>9, <2>10
<1>11. CASE \E t \in Tasks : Close(t)
  BY <1>11 DEF Close
<1>. QED  BY <1>1, <1>2, <1>3, <1>4, <1>5, <1>6, <1>7, <1>8, <1>9, <1>10, <1>11
          DEF Quiet, SubscribeStep

\* The other steps change a topic, or what a name stands for.
LEMMA StoreTypes ==
  ASSUME RInv, NEW t \in Tasks, BoundKept', CreateStore(t)
  PROVE  TypeOK'
<1>. DEFINE k == Len(topics)
<1>0. /\ k \in Nat /\ Made = 1 .. k /\ name[t] \in Names /\ TypeOf[t] \in Types
  BY MadeTopics, RegistryAssumption DEF RInv, TypeOK
<1>1. /\ Grows /\ Len(topics') = k + 1 /\ Made' = Made \cup {k + 1}
      /\ topics'[k + 1].type = TypeOf[t]
  BY <1>0, AddedTopic DEF CreateStore, RInv
<1>2. Len(topics') <= MaxTopics
  <2>1. Creating' \subseteq Tasks /\ IsFiniteSet(Creating')
    BY RegistryAssumption, FS_Subset DEF Creating
  <2>2. Cardinality(Creating') \in Nat
    BY <2>1, FS_CardinalityType
  <2>. QED  BY <2>2, <1>1, <1>0, RegistryAssumption DEF BoundKept
<1>3. registry' \in [Names -> 0 .. Len(topics')] /\ pc' \in [Tasks -> {"idle", "create",
        "store", "remove", "delete", "poll", "lookup", "join", "leave", "close"}]
  BY <1>0, <1>1 DEF CreateStore, Goto, RInv, TypeOK
<1>4. held' = [held EXCEPT ![t] = k + 1] /\ UNCHANGED <<closed, name, found, joined, abandoned>>
  BY DEF CreateStore
<1>5. /\ found' \in [Tasks -> 0 .. Len(topics')] /\ held' \in [Tasks -> 0 .. Len(topics')]
      /\ joined' \in [Tasks -> 0 .. Len(topics')]
  BY <1>0, <1>1, <1>4 DEF RInv, TypeOK
<1>6. replaced' \subseteq Made' /\ abandoned' \subseteq Made'
  <2>1. registry[name[t]] \in 0 .. k /\ replaced \subseteq Made /\ abandoned \subseteq Made
    BY <1>0 DEF RInv, TypeOK
  <2>2. registry[name[t]] = 0 \/ registry[name[t]] \in Made
    BY <1>0, <2>1
  <2>3. replaced' \subseteq replaced \cup {registry[name[t]]}
        /\ (registry[name[t]] = 0 => UNCHANGED replaced)
    BY DEF CreateStore
  <2>. QED  BY <1>1, <1>4, <2>1, <2>2, <2>3
<1>7. \A u \in Tasks : \A i \in {held'[u], joined'[u]} \ {0} : Matches(u, i)'
  <2>1. \A u \in Tasks : \A i \in {held[u], joined[u]} \ {0} :
          i \in Made /\ topics[i].type = TypeOf[u]
    BY <1>0 DEF RInv, TypeOK, Matches
  <2>2. \A i \in Made : topics'[i].type = topics[i].type
    BY <1>1 DEF Grows
  <2>3. \A u \in Tasks : \A i \in {held'[u], joined'[u]} \ {0} :
          \/ i \in {held[u], joined[u]} \ {0}
          \/ u = t /\ i = k + 1
    BY <1>4 DEF RInv, TypeOK
  <2>. QED  BY <2>1, <2>2, <2>3, <1>1 DEF Matches
<1>. QED  BY <1>1, <1>2, <1>3, <1>4, <1>5, <1>6, <1>7 DEF TypeOK, RInv, Grows, TopicRecord

LEMMA MarkTypes ==
  ASSUME RInv, Grows, Len(topics') = Len(topics),
         NEW t \in Tasks, NEW label \in {"idle", "delete"},
         pc' = pc \/ pc' = [pc EXCEPT ![t] = label],
         registry' \in [Names -> 0 .. Len(topics)],
         abandoned' \subseteq abandoned,
         UNCHANGED <<closed, name, found, held, joined, replaced>>
  PROVE  TypeOK'
<1>1. Made' = Made /\ Made = 1 .. Len(topics)
  BY MadeTopics DEF RInv, Grows
<1>2. pc' \in [Tasks -> {"idle", "create", "store", "remove", "delete", "poll", "lookup",
                         "join", "leave", "close"}]
  BY DEF RInv, TypeOK
<1>3. \A u \in Tasks : \A i \in {held'[u], joined'[u]} \ {0} : Matches(u, i)'
  <2>1. \A u \in Tasks : \A i \in {held[u], joined[u]} \ {0} :
          i \in Made /\ topics[i].type = TypeOf[u]
    <3>1. \A u \in Tasks : \A i \in {held[u], joined[u]} : i \in 0 .. Len(topics)
      BY DEF RInv, TypeOK
    <3>2. \A u \in Tasks : \A i \in {held[u], joined[u]} \ {0} : topics[i].type = TypeOf[u]
      BY DEF RInv, TypeOK, Matches
    <3>. QED  BY <1>1, <3>1, <3>2, MadeTopics DEF RInv
  <2>2. \A i \in Made : topics'[i].type = topics[i].type
    BY DEF Grows
  <2>. QED  BY <2>1, <2>2 DEF Matches
<1>. QED  BY <1>1, <1>2, <1>3 DEF RInv, TypeOK, Grows, TopicRecord

LEMMA RemoveTypes ==
  ASSUME RInv, NEW t \in Tasks, RemoveStep(t) \/ OwnerClose(t) \/ CloseTopics(t)
  PROVE  TypeOK' /\ Grows /\ Len(topics') = Len(topics)
<1>0. /\ Len(topics) \in Nat /\ Made = 1 .. Len(topics) /\ name[t] \in Names
      /\ found[t] \in 0 .. Len(topics) /\ held[t] \in 0 .. Len(topics)
      /\ registry \in [Names -> 0 .. Len(topics)]
  BY MadeTopics DEF RInv, TypeOK
<1>1. CASE RemoveClose(t)
  <2>1. found[t] \in Made
    BY <1>0, <1>1 DEF RemoveClose, RInv, TaskInv, FoundFits
  <2>2. Grows /\ Len(topics') = Len(topics)
    BY <1>1, <2>1, MarkedTopic, SameTopics DEF RemoveClose, RInv
  <2>. QED  BY <1>0, <1>1, <2>2, MarkTypes DEF RemoveClose, Goto
<1>2. CASE RemoveDelete(t)
  <2>1. Grows /\ Len(topics') = Len(topics)
    BY <1>2, SameTopics DEF RemoveDelete, RInv
  <2>2. registry' \in [Names -> 0 .. Len(topics)]
    BY <1>0, <1>2 DEF RemoveDelete
  <2>. QED  BY <1>2, <2>1, <2>2, MarkTypes DEF RemoveDelete, Goto
<1>3. CASE OwnerClose(t)
  <2>1. Grows /\ Len(topics') = Len(topics)
    BY <1>0, <1>3, MarkedTopic DEF OwnerClose, RInv
  <2>. QED  BY <1>0, <1>3, <2>1, MarkTypes DEF OwnerClose, taskVars
<1>4. CASE CloseTopics(t)
  <2>1. Grows /\ Len(topics') = Len(topics)
    BY <1>4, ClosedTopics DEF RInv
  <2>2. registry' \in [Names -> 0 .. Len(topics)]
    BY <1>0, <1>4 DEF CloseTopics
  <2>. QED  BY <1>4, <2>1, <2>2, MarkTypes DEF CloseTopics, Goto
<1>. QED  BY <1>1, <1>2, <1>3, <1>4 DEF RemoveStep

-----------------------------------------------------------------------------
(* The bound *)

\* A step that neither begins nor ends the making of a topic.
LEMMA SameCreating ==
  ASSUME TypeOK, NEW t \in Tasks,
         NEW label \in {"idle", "remove", "delete", "poll", "lookup", "join", "leave", "close"},
         pc[t] \notin {"create", "store"}, pc' = [pc EXCEPT ![t] = label]
  PROVE  Creating' = Creating
<1>1. \A u \in Tasks : pc'[u] = (IF u = t THEN label ELSE pc[u])
  BY DEF TypeOK
<1>2. \A u \in Tasks : pc'[u] \in {"create", "store"} <=> pc[u] \in {"create", "store"}
  BY <1>1
<1>. QED  BY <1>2 DEF Creating

LEMMA BoundIsKept ==
  ASSUME RInv, Next
  PROVE  BoundKept'
<1>0. /\ IsFiniteSet(Creating) /\ Cardinality(Creating) \in Nat /\ Len(topics) \in Nat
      /\ TypeOK /\ BoundKept /\ MaxTopics \in Nat
  <2>1. Creating \subseteq Tasks
    BY DEF Creating
  <2>2. IsFiniteSet(Creating)
    BY <2>1, FS_Subset, RegistryAssumption
  <2>. QED  BY <2>2, FS_CardinalityType, MadeTopics, RegistryAssumption DEF RInv
<1>1. CASE \E t \in Tasks : \E n \in Names : CreateTopic(t, n)
  <2>1. PICK t \in Tasks, n \in Names : CreateTopic(t, n)
    BY <1>1
  <2>2. Creating' = Creating \cup {t} /\ t \notin Creating
    <3>1. pc[t] = "idle" /\ pc' = [pc EXCEPT ![t] = "create"]
      BY <2>1 DEF CreateTopic, Call, Goto
    <3>2. \A u \in Tasks : pc'[u] = (IF u = t THEN "create" ELSE pc[u])
      BY <1>0, <3>1 DEF TypeOK
    <3>. QED  BY <3>1, <3>2 DEF Creating
  <2>3. Cardinality(Creating') = Cardinality(Creating) + 1
    BY <1>0, <2>2, FS_AddElement
  <2>4. Len(topics) + Cardinality(Creating) < MaxTopics /\ UNCHANGED topics
    BY <2>1 DEF CreateTopic
  <2>. QED  BY <1>0, <2>3, <2>4 DEF BoundKept
<1>2. CASE \E t \in Tasks : CreateLookup(t)
  <2>1. PICK t \in Tasks : CreateLookup(t)
    BY <1>2
  <2>2. Creating' \subseteq Creating
    <3>1. pc[t] = "create" /\ \A u \in Tasks : u # t => pc'[u] = pc[u]
      BY <1>0, <2>1 DEF CreateLookup, Goto, TypeOK
    <3>. QED  BY <3>1 DEF Creating
  <2>3. Cardinality(Creating') \in Nat /\ Cardinality(Creating') <= Cardinality(Creating)
    BY <1>0, <2>2, FS_Subset, FS_CardinalityType
  <2>4. UNCHANGED topics
    BY <2>1 DEF CreateLookup
  <2>. QED  BY <1>0, <2>3, <2>4 DEF BoundKept
<1>3. CASE \E t \in Tasks : CreateStore(t)
  <2>1. PICK t \in Tasks : CreateStore(t)
    BY <1>3
  <2>2. Creating' = Creating \ {t} /\ t \in Creating
    <3>1. pc[t] = "store" /\ pc' = [pc EXCEPT ![t] = "idle"]
      BY <2>1 DEF CreateStore, Goto
    <3>2. \A u \in Tasks : pc'[u] = (IF u = t THEN "idle" ELSE pc[u])
      BY <1>0, <3>1 DEF TypeOK
    <3>. QED  BY <3>1, <3>2 DEF Creating
  <2>3. Cardinality(Creating') = Cardinality(Creating) - 1
    BY <1>0, <2>2, FS_RemoveElement
  <2>4. Len(topics') = Len(topics) + 1
    BY <1>0, <2>1, AddedTopic, RegistryAssumption DEF CreateStore, TypeOK
  <2>. QED  BY <1>0, <2>3, <2>4 DEF BoundKept
<1>4. ASSUME Creating' = Creating, Len(topics') = Len(topics)
      PROVE  BoundKept'
  BY <1>4, <1>0 DEF BoundKept
<1>5. CASE \E t \in Tasks : RemoveStep(t) \/ OwnerClose(t) \/ CloseTopics(t)
  <2>1. PICK t \in Tasks : RemoveStep(t) \/ OwnerClose(t) \/ CloseTopics(t)
    BY <1>5
  <2>2. Len(topics') = Len(topics)
    BY <2>1, RemoveTypes
  <2>3. CASE OwnerClose(t)
    BY <2>2, <2>3, <1>4 DEF OwnerClose, taskVars, Creating
  <2>4. CASE RemoveStep(t) \/ CloseTopics(t)
    <3>1. PICK label \in {"idle", "delete"} : pc' = [pc EXCEPT ![t] = label]
      BY <2>4 DEF RemoveStep, RemoveClose, RemoveDelete, CloseTopics, Goto
    <3>2. pc[t] \notin {"create", "store"}
      BY <2>4 DEF RemoveStep, RemoveClose, RemoveDelete, CloseTopics
    <3>. QED  BY <1>0, <2>2, <3>1, <3>2, <1>4, SameCreating
  <2>. QED  BY <2>1, <2>3, <2>4
<1>6. CASE \E t \in Tasks : \/ \E n \in Names : RemoveTopic(t, n) \/ CreateSubscription(t, n)
                            \/ SubscribeStep(t) \/ SubscribeTimeout(t)
                            \/ RemoveSubscription(t) \/ Close(t)
  <2>1. PICK t \in Tasks : \/ \E n \in Names : RemoveTopic(t, n) \/ CreateSubscription(t, n)
                           \/ SubscribeStep(t) \/ SubscribeTimeout(t)
                           \/ RemoveSubscription(t) \/ Close(t)
    BY <1>6
  <2>2. PICK label \in {"idle", "remove", "poll", "lookup", "join", "leave", "close"} :
          pc' = [pc EXCEPT ![t] = label]
    BY <2>1 DEF RemoveTopic, CreateSubscription, SubscribeStep, SubscribeTimeout,
       RemoveSubscription, Close, Poll, SubscribeLookup, Join, Unsubscribe, Call, Goto
  <2>3. pc[t] \notin {"create", "store"} /\ UNCHANGED topics
    BY <2>1 DEF RemoveTopic, CreateSubscription, SubscribeStep, SubscribeTimeout,
       RemoveSubscription, Close, Poll, SubscribeLookup, Join, Unsubscribe, Call
  <2>. QED  BY <1>0, <2>2, <2>3, <1>4, SameCreating
<1>7. CASE Terminated
  BY <1>7, <1>4 DEF Terminated, vars, taskVars, Creating
<1>. QED  BY <1>1, <1>2, <1>3, <1>5, <1>6, <1>7 DEF Next, CreateStep

-----------------------------------------------------------------------------
(* What every step leaves as it is *)

Later ==
    /\ Grows /\ (closed => closed') /\ replaced \subseteq replaced'

\* A race that happened stays in the books.
LEMMA RacesStay ==
  ASSUME RInv, Later, NEW i \in Made, Raced(i)
  PROVE  Raced(i)'
<1>1. CASE closed
  BY <1>1 DEF Later, Raced
<1>2. CASE \E j \in replaced : topics[j].name = topics[i].name
  <2>1. PICK j \in replaced : topics[j].name = topics[i].name
    BY <1>2
  <2>2. j \in Made
    BY DEF RInv, TypeOK
  <2>3. topics'[j].name = topics'[i].name /\ j \in replaced'
    BY <2>1, <2>2 DEF Later, Grows
  <2>. QED  BY <2>3 DEF Raced
<1>. QED  BY <1>1, <1>2 DEF Raced

LEMMA OpenBefore ==
  ASSUME Later, NEW i \in Made, Open(i)'
  PROVE  Open(i)
BY DEF Later, Grows, Open

\* What was found or joined exists.
LEMMA FoundExists ==
  ASSUME RInv, NEW t \in Tasks
  PROVE  /\ Made = 1 .. Len(topics) /\ Len(topics) \in Nat
         /\ found[t] # 0 => found[t] \in Made
         /\ joined[t] # 0 => joined[t] \in Made
         /\ held[t] # 0 => held[t] \in Made
         /\ \A n \in Names : registry[n] # 0 => registry[n] \in Made
         /\ name[t] \in Names
<1>1. Made = 1 .. Len(topics) /\ Len(topics) \in Nat
  BY MadeTopics DEF RInv
<1>2. /\ found[t] \in 0 .. Len(topics) /\ joined[t] \in 0 .. Len(topics)
      /\ held[t] \in 0 .. Len(topics) /\ name[t] \in Names
      /\ \A n \in Names : registry[n] \in 0 .. Len(topics)
  BY DEF RInv, TypeOK
<1>. QED  BY <1>1, <1>2

\* The task that does not move can rely on what it could rely on.
LEMMA BystanderKept ==
  ASSUME RInv, Later, NEW u \in Tasks,
         pc'[u] = pc[u], name'[u] = name[u], found'[u] = found[u], joined'[u] = joined[u]
  PROVE  FoundFits(u)' /\ LeavesItsOwn(u)'
<1>0. FoundFits(u) /\ LeavesItsOwn(u)
  BY DEF RInv, TaskInv
<1>1. FoundFits(u)'
  <2>1. found[u] # 0 => /\ topics'[found[u]].name = topics[found[u]].name
                        /\ topics'[found[u]].type = topics[found[u]].type
    BY FoundExists DEF Later, Grows
  <2>. QED  BY <1>0, <2>1 DEF FoundFits, Matches
<1>2. LeavesItsOwn(u)'
  <2>1. SUFFICES ASSUME pc[u] = "leave", found[u] # joined[u], Open(joined[u])'
                 PROVE  Raced(joined[u])'
    BY DEF LeavesItsOwn
  <2>2. joined[u] \in Made
    BY <1>0, <2>1, FoundExists DEF FoundFits
  <2>3. Raced(joined[u])
    BY <1>0, <2>1, <2>2, OpenBefore DEF LeavesItsOwn
  <2>. QED  BY <2>2, <2>3, RacesStay
<1>. QED  BY <1>1, <1>2

\* The map, the topics and the removers are as before.
SameMap ==
    /\ UNCHANGED <<topics, registry, replaced>> /\ (closed => closed')
    /\ \A u \in Tasks : /\ pc'[u] = "delete" <=> pc[u] = "delete"
                        /\ pc[u] = "delete" => found'[u] = found[u] /\ name'[u] = name[u]

LEMMA MapKept ==
  ASSUME RInv, SameMap
  PROVE  /\ Later /\ NamesStand' /\ OpenTopicsAreFound' /\ FoundTopicsAreOpen'
         /\ \A u \in Tasks : RemoverAlone(u)'
<1>1. Later
  BY SameTopics DEF RInv, Later, SameMap
<1>2. NamesStand' /\ Made' = Made
  BY DEF RInv, NamesStand, SameMap, Made
<1>3. OpenTopicsAreFound'
  <2>. SUFFICES ASSUME NEW i \in Made, Open(i)'
                PROVE  registry'[(topics[i].name)'] = i \/ Raced(i)'
    BY <1>2 DEF OpenTopicsAreFound
  <2>1. Open(i)
    BY <1>1, OpenBefore
  <2>2. registry[topics[i].name] = i \/ Raced(i)
    BY <2>1 DEF RInv, OpenTopicsAreFound
  <2>. QED  BY <2>2, <1>1, RacesStay DEF SameMap
<1>4. FoundTopicsAreOpen'
  <2>. SUFFICES ASSUME NEW n \in Names, registry[n] # 0, topics[registry[n]].closedBy # "owner"
                PROVE  \/ Open(registry[n])
                       \/ \E t \in Tasks : /\ pc'[t] = "delete" /\ found'[t] = registry[n]
                                           /\ name'[t] = n
    BY DEF FoundTopicsAreOpen, SameMap, Open
  <2>. QED  BY DEF RInv, FoundTopicsAreOpen, SameMap
<1>5. ASSUME NEW u \in Tasks PROVE RemoverAlone(u)'
  <2>1. SUFFICES ASSUME pc[u] = "delete" PROVE RemoverAlone(u)'
    BY DEF RemoverAlone, SameMap
  <2>2. PICK i \in Made : i = found[u]
    BY <2>1, FoundExists DEF RInv, TaskInv, FoundFits
  <2>3. /\ ~Open(i) /\ (registry[name[u]] = i \/ Raced(i))
        /\ \A v \in Tasks : pc[v] = "delete" /\ found[v] = i => v = u
    BY <2>1, <2>2 DEF RInv, TaskInv, RemoverAlone
  <2>4. ~Open(i)' /\ (registry'[name[u]] = i \/ Raced(i)')
    BY <1>1, <2>3, OpenBefore, RacesStay DEF SameMap
  <2>5. \A v \in Tasks : pc'[v] = "delete" /\ found'[v] = i => v = u
    BY <2>3 DEF SameMap
  <2>6. found'[u] = i /\ name'[u] = name[u]
    BY <2>1, <2>2 DEF SameMap
  <2>. QED  BY <2>4, <2>5, <2>6 DEF RemoverAlone
<1>. QED  BY <1>1, <1>2, <1>3, <1>4, <1>5

\* Only task t moves.
Moves(t) ==
    \A u \in Tasks \ {t} : /\ pc'[u] = pc[u] /\ name'[u] = name[u]
                           /\ found'[u] = found[u] /\ joined'[u] = joined[u]

\* The subscriptions that are left behind are those of before, and of topics in a race.
LEMMA AbandonedKept ==
  ASSUME RInv, Later, NEW S \in SUBSET Made, abandoned' \subseteq abandoned \cup S,
         \A i \in S : Raced(i)
  PROVE  SubscriptionsAreRemoved'
<1>1. \A i \in abandoned \cup S : i \in Made /\ Raced(i)
  BY DEF RInv, SubscriptionsAreRemoved, TypeOK
<1>. QED  BY <1>1, RacesStay DEF SubscriptionsAreRemoved

LEMMA ClosingKept ==
  ASSUME RInv, Later, NEW t \in Tasks, Moves(t), pc'[t] = "close" => closed'
  PROVE  ClosingTask'
BY DEF RInv, ClosingTask, Later, Moves

RestInv ==
    /\ NamesStand /\ TaskInv /\ ClosingTask
    /\ OpenTopicsAreFound /\ FoundTopicsAreOpen /\ SubscriptionsAreRemoved

LEMMA QuietRest ==
  ASSUME RInv, SameMap, NEW t \in Tasks, Moves(t), pc'[t] = "close" => closed',
         NEW S \in SUBSET Made, abandoned' \subseteq abandoned \cup S, \A i \in S : Raced(i),
         FoundFits(t)', LeavesItsOwn(t)'
  PROVE  RestInv'
<1>1. /\ Later /\ NamesStand' /\ OpenTopicsAreFound' /\ FoundTopicsAreOpen'
      /\ \A u \in Tasks : RemoverAlone(u)'
  BY MapKept
<1>2. \A u \in Tasks \ {t} : FoundFits(u)' /\ LeavesItsOwn(u)'
  BY <1>1, BystanderKept DEF Moves
<1>3. TaskInv'
  BY <1>1, <1>2 DEF TaskInv
<1>4. SubscriptionsAreRemoved' /\ ClosingTask'
  BY <1>1, AbandonedKept, ClosingKept
<1>. QED  BY <1>1, <1>3, <1>4 DEF RestInv

-----------------------------------------------------------------------------
(* Steps that leave topics and map alone *)

\* A task that goes on to a place where it relies on nothing.
LEMMA CarefreeRest ==
  ASSUME RInv, NEW t \in Tasks, NEW label \in {"idle", "create", "store", "poll", "lookup",
                                               "close"},
         pc[t] # "delete", pc' = [pc EXCEPT ![t] = label], label = "close" => closed',
         UNCHANGED <<topics, registry, replaced, abandoned>>, closed => closed',
         name' = name \/ \E n \in Names : name' = [name EXCEPT ![t] = n],
         \A u \in Tasks \ {t} : found'[u] = found[u] /\ joined'[u] = joined[u]
  PROVE  RestInv'
<1>1. pc'[t] = label /\ \A u \in Tasks \ {t} : pc'[u] = pc[u]
  BY DEF RInv, TypeOK
<1>2. \A u \in Tasks \ {t} : name'[u] = name[u]
  BY DEF RInv, TypeOK
<1>3. SameMap /\ Moves(t)
  BY <1>1, <1>2 DEF SameMap, Moves
<1>4. FoundFits(t)' /\ LeavesItsOwn(t)'
  BY <1>1 DEF FoundFits, LeavesItsOwn
<1>5. {} \in SUBSET Made /\ abandoned' \subseteq abandoned \cup {} /\ \A i \in {} : Raced(i)
  OBVIOUS
<1>6. pc'[t] = "close" => closed'
  BY <1>1
<1>. QED  BY <1>3, <1>4, <1>5, <1>6, QuietRest

LEMMA QuietKept ==
  ASSUME RInv, Quiet
  PROVE  RestInv'
<1>. DEFINE none == {}
<1>0. none \in SUBSET Made /\ \A i \in none : Raced(i)
  OBVIOUS
<1>1. CASE \E t \in Tasks : \E n \in Names : CreateTopic(t, n) \/ CreateSubscription(t, n)
  BY <1>1, CarefreeRest DEF CreateTopic, CreateSubscription, Call, Goto
<1>2. CASE \E t \in Tasks : CreateLookup(t) \/ Poll(t) \/ SubscribeTimeout(t) \/ Close(t)
  <2>1. PICK t \in Tasks : CreateLookup(t) \/ Poll(t) \/ SubscribeTimeout(t) \/ Close(t)
    BY <1>2
  <2>2. PICK label \in {"idle", "store", "lookup", "close"} :
          pc' = [pc EXCEPT ![t] = label] /\ (label = "close" => closed')
    BY <2>1 DEF CreateLookup, Poll, SubscribeTimeout, Close, Goto
  <2>3. pc[t] # "delete" /\ (closed => closed')
        /\ UNCHANGED <<topics, registry, replaced, abandoned, name, found, joined>>
    BY <2>1 DEF CreateLookup, Poll, SubscribeTimeout, Close
  <2>. QED  BY <2>2, <2>3, CarefreeRest
<1>3. CASE \E t \in Tasks : Join(t)
  <2>1. PICK t \in Tasks : Join(t)
    BY <1>3
  <2>2. \A u \in Tasks \ {t} : joined'[u] = joined[u]
    BY <2>1 DEF Join, RInv, TypeOK
  <2>. QED  BY <2>1, <2>2, CarefreeRest DEF Join, Goto
<1>4. CASE \E t \in Tasks : \E n \in Names : RemoveTopic(t, n)
  <2>1. PICK t \in Tasks, n \in Names : RemoveTopic(t, n)
    BY <1>4
  <2>2. /\ pc[t] = "idle" /\ pc'[t] = "remove" /\ name'[t] = n /\ found'[t] = registry[n]
        /\ Moves(t)
    BY <2>1 DEF RemoveTopic, Call, Goto, RInv, TypeOK, Moves
  <2>3. UNCHANGED <<topics, registry, closed, replaced, abandoned>> /\ registry[n] # 0
    BY <2>1 DEF RemoveTopic
  <2>4. SameMap
    BY <2>2, <2>3 DEF SameMap, Moves
  <2>5. FoundFits(t)' /\ LeavesItsOwn(t)'
    BY <2>2, <2>3 DEF FoundFits, LeavesItsOwn, RInv, NamesStand
  <2>. QED  BY <1>0, <2>2, <2>3, <2>4, <2>5, QuietRest
<1>5. CASE \E t \in Tasks : SubscribeLookup(t)
  <2>1. PICK t \in Tasks : SubscribeLookup(t)
    BY <1>5
  <2>. DEFINE i == registry[name[t]]
  <2>2. /\ pc[t] = "lookup" /\ pc'[t] \in {"poll", "join", "idle"} /\ found'[t] = i
        /\ pc'[t] = "join" => i # 0 /\ Matches(t, i)
        /\ Moves(t)
    BY <2>1 DEF SubscribeLookup, Goto, RInv, TypeOK, Moves
  <2>3. UNCHANGED <<topics, registry, closed, replaced, abandoned>>
    BY <2>1 DEF SubscribeLookup
  <2>4. SameMap
    BY <2>2, <2>3 DEF SameMap, Moves
  <2>5. FoundFits(t)' /\ LeavesItsOwn(t)'
    BY <2>2, <2>3 DEF FoundFits, LeavesItsOwn, Matches
  <2>. QED  BY <1>0, <2>2, <2>3, <2>4, <2>5, QuietRest
<1>6. CASE \E t \in Tasks : RemoveSubscription(t)
  <2>1. PICK t \in Tasks : RemoveSubscription(t)
    BY <1>6
  <2>2. PICK j \in Made : j = joined[t] /\ j # 0
    BY <2>1, FoundExists DEF RemoveSubscription
  <2>3. PICK n \in Names : n = topics[j].name
    BY MadeTopics DEF RInv
  <2>. DEFINE i == registry[n]
              left == i = 0 \/ ~Matches(t, i)
  <2>4. /\ pc[t] = "idle" /\ pc'[t] \in {"leave", "idle"} /\ found'[t] = i
        /\ pc'[t] = "leave" => ~left /\ joined'[t] = j
        /\ Moves(t)
    BY <2>1, <2>2, <2>3 DEF RemoveSubscription, Call, Goto, RInv, TypeOK, Moves
  <2>5. UNCHANGED <<topics, registry, closed, replaced>>
    BY <2>1 DEF RemoveSubscription
  <2>6. abandoned' \subseteq abandoned \cup (IF left /\ Open(j) THEN {j} ELSE {})
    BY <2>1, <2>2, <2>3 DEF RemoveSubscription, Abandon
  <2>7. Matches(t, j)
    BY <2>2 DEF RInv, TypeOK
  <2>8. i # j /\ Open(j) => Raced(j)
    BY <2>3 DEF RInv, OpenTopicsAreFound
  <2>9. left /\ Open(j) => Raced(j)
    BY <2>2, <2>7, <2>8
  <2>10. SameMap
    BY <2>4, <2>5 DEF SameMap, Moves
  <2>11. FoundFits(t)' /\ LeavesItsOwn(t)'
    <3>1. Later
      BY <2>10, MapKept
    <3>2. i # j /\ Open(j)' => Raced(j)'
      BY <2>8, <3>1, OpenBefore, RacesStay
    <3>. QED  BY <2>2, <2>4, <3>2 DEF FoundFits, LeavesItsOwn
  <2>. DEFINE S == IF left /\ Open(j) THEN {j} ELSE {}
  <2>12. S \in SUBSET Made /\ \A k \in S : Raced(k)
    BY <2>9
  <2>13. pc'[t] # "close"
    BY <2>4
  <2>. HIDE DEF S
  <2>. QED  BY <2>4, <2>6, <2>10, <2>11, <2>12, <2>13, QuietRest DEF S
<1>7. CASE \E t \in Tasks : Unsubscribe(t)
  <2>1. PICK t \in Tasks : Unsubscribe(t)
    BY <1>7
  <2>2. PICK j \in Made : j = joined[t]
    BY <2>1, FoundExists DEF Unsubscribe, RInv, TaskInv, FoundFits
  <2>. DEFINE S == IF found[t] # j /\ Open(j) THEN {j} ELSE {}
  <2>3. pc[t] = "leave" /\ pc'[t] = "idle" /\ Moves(t)
    BY <2>1 DEF Unsubscribe, Goto, RInv, TypeOK, Moves
  <2>4. UNCHANGED <<topics, registry, closed, replaced>> /\ abandoned' \subseteq abandoned \cup S
    BY <2>1, <2>2 DEF Unsubscribe, Abandon
  <2>5. S \in SUBSET Made /\ \A k \in S : Raced(k)
    BY <2>2, <2>3 DEF RInv, TaskInv, LeavesItsOwn
  <2>6. SameMap
    BY <2>3, <2>4 DEF SameMap, Moves
  <2>7. FoundFits(t)' /\ LeavesItsOwn(t)'
    BY <2>3 DEF FoundFits, LeavesItsOwn
  <2>. HIDE DEF S
  <2>. QED  BY <2>3, <2>4, <2>5, <2>6, <2>7, QuietRest
<1>. QED  BY <1>1, <1>2, <1>3, <1>4, <1>5, <1>6, <1>7 DEF Quiet, SubscribeStep

-----------------------------------------------------------------------------
(* Steps that change a topic, or what a name stands for *)

LEMMA LoudRest ==
  ASSUME RInv, Later, NEW t \in Tasks, Moves(t), pc'[t] # "close", abandoned' \subseteq abandoned,
         NamesStand', OpenTopicsAreFound', FoundTopicsAreOpen',
         FoundFits(t)', LeavesItsOwn(t)', \A u \in Tasks : RemoverAlone(u)'
  PROVE  RestInv'
<1>1. \A u \in Tasks \ {t} : FoundFits(u)' /\ LeavesItsOwn(u)'
  BY BystanderKept DEF Moves
<1>2. TaskInv'
  BY <1>1 DEF TaskInv
<1>3. {} \in SUBSET Made /\ abandoned' \subseteq abandoned \cup {} /\ \A i \in {} : Raced(i)
  OBVIOUS
<1>4. SubscriptionsAreRemoved' /\ ClosingTask'
  BY <1>3, AbandonedKept, ClosingKept
<1>. QED  BY <1>2, <1>4 DEF RestInv

\* What a remover can rely on, spelled out for the topic it found.
LEMMA RemoverKnows ==
  ASSUME RInv, NEW u \in Tasks, pc[u] = "delete"
  PROVE  \E i \in Made : /\ i = found[u] /\ topics[i].name = name[u] /\ name[u] \in Names
                         /\ ~Open(i)
                         /\ registry[name[u]] = i \/ Raced(i)
                         /\ \A v \in Tasks : pc[v] = "delete" /\ found[v] = i => v = u
BY FoundExists DEF RInv, TaskInv, FoundFits, RemoverAlone

\* A new topic takes its name; the topic that had it before was in a race.
LEMMA StoreRest ==
  ASSUME RInv, NEW t \in Tasks, CreateStore(t)
  PROVE  RestInv'
<1>. DEFINE k == Len(topics)
<1>1. PICK n \in Names : n = name[t]
  BY FoundExists
<1>2. /\ Grows /\ k + 1 \notin Made /\ Made' = Made \cup {k + 1} /\ k + 1 # 0
      /\ topics'[k + 1].name = n /\ topics'[k + 1].closedBy = "nobody"
      /\ \A j \in Made : topics'[j] = topics[j]
  <2>1. TypeOf[t] \in Types /\ k \in Nat
    BY RegistryAssumption, MadeTopics DEF RInv
  <2>2. topics' = Append(topics, [name |-> n, type |-> TypeOf[t], closedBy |-> "nobody"])
    BY <1>1 DEF CreateStore
  <2>3. /\ Grows /\ Len(topics') = k + 1 /\ Len(topics') \notin Made
        /\ Made' = Made \cup {Len(topics')}
        /\ topics'[Len(topics')] = [name |-> n, type |-> TypeOf[t], closedBy |-> "nobody"]
        /\ \A j \in Made : topics'[j] = topics[j]
    BY <2>1, <2>2, AddedTopic DEF RInv
  <2>. QED  BY <2>1, <2>3
<1>3. /\ registry' = [registry EXCEPT ![n] = k + 1]
      /\ registry[n] # 0 => registry[n] \in replaced'
      /\ UNCHANGED <<closed, name, found, joined, abandoned>>
      /\ pc[t] = "store" /\ replaced \subseteq replaced'
  BY <1>1 DEF CreateStore
<1>4. /\ registry'[n] = k + 1
      /\ \A m \in Names \ {n} : registry'[m] = registry[m]
      /\ \A m \in Names : registry[m] # 0 => registry[m] \in Made
  BY <1>3, FoundExists DEF RInv, TypeOK
<1>5. pc'[t] = "idle" /\ \A u \in Tasks \ {t} : pc'[u] = pc[u]
  BY DEF CreateStore, Goto, RInv, TypeOK
<1>6. Later /\ Moves(t)
  BY <1>2, <1>3, <1>5 DEF Later, Moves
<1>7. ASSUME NEW i \in Made, topics[i].name = n, registry[n] = i
      PROVE  Raced(i)'
  <2>1. i # 0 /\ i \in replaced'
    BY <1>3, <1>7, FoundExists
  <2>. QED  BY <2>1 DEF Raced
<1>8. ASSUME NEW i \in Made, registry[topics[i].name] = i \/ Raced(i)
      PROVE  registry'[topics[i].name] = i \/ Raced(i)'
  <2>1. CASE Raced(i)
    BY <2>1, <1>6, RacesStay
  <2>2. CASE registry[topics[i].name] = i /\ topics[i].name # n
    BY <2>2, <1>4, MadeTopics DEF RInv
  <2>3. CASE registry[topics[i].name] = i /\ topics[i].name = n
    BY <2>3, <1>7
  <2>. QED  BY <1>8, <2>1, <2>2, <2>3
<1>9. NamesStand'
  BY <1>2, <1>4 DEF NamesStand, RInv
<1>10. OpenTopicsAreFound'
  <2>. SUFFICES ASSUME NEW i \in Made', Open(i)'
                PROVE  registry'[topics'[i].name] = i \/ Raced(i)'
    BY DEF OpenTopicsAreFound
  <2>1. CASE i = k + 1
    BY <2>1, <1>2, <1>4
  <2>2. CASE i \in Made
    <3>1. registry[topics[i].name] = i \/ Raced(i)
      BY <2>2, <1>6, OpenBefore DEF RInv, OpenTopicsAreFound
    <3>. QED  BY <2>2, <3>1, <1>2, <1>8
  <2>. QED  BY <2>1, <2>2, <1>2
<1>11. FoundTopicsAreOpen'
  <2>. SUFFICES ASSUME NEW m \in Names, registry'[m] # 0,
                       topics'[registry'[m]].closedBy # "owner"
                PROVE  \/ topics'[registry'[m]].closedBy = "nobody"
                       \/ \E u \in Tasks : /\ pc'[u] = "delete" /\ found'[u] = registry'[m]
                                           /\ name'[u] = m
    BY DEF FoundTopicsAreOpen, Open
  <2>1. CASE m = n
    BY <2>1, <1>2, <1>4
  <2>2. CASE m # n
    <3>1. registry'[m] = registry[m] /\ topics'[registry[m]] = topics[registry[m]]
      BY <2>2, <1>2, <1>4
    <3>2. \/ Open(registry[m])
          \/ \E u \in Tasks : pc[u] = "delete" /\ found[u] = registry[m] /\ name[u] = m
      BY <3>1 DEF RInv, FoundTopicsAreOpen
    <3>. QED  BY <3>1, <3>2, <1>3, <1>5 DEF Open
  <2>. QED  BY <2>1, <2>2
<1>12. ASSUME NEW u \in Tasks PROVE RemoverAlone(u)'
  <2>. SUFFICES ASSUME pc'[u] = "delete" PROVE RemoverAlone(u)'
    BY DEF RemoverAlone
  <2>1. u # t /\ pc[u] = "delete"
    BY <1>5
  <2>2. PICK i \in Made : /\ i = found[u] /\ topics[i].name = name[u]
                          /\ ~Open(i)
                          /\ registry[name[u]] = i \/ Raced(i)
                          /\ \A v \in Tasks : pc[v] = "delete" /\ found[v] = i => v = u
    BY <2>1, RemoverKnows
  <2>3. registry'[name[u]] = i \/ Raced(i)'
    BY <2>2, <1>8
  <2>4. ~Open(i)' /\ \A v \in Tasks : pc'[v] = "delete" /\ found'[v] = i => v = u
    BY <2>2, <1>2, <1>3, <1>5 DEF Open
  <2>. QED  BY <2>2, <2>3, <2>4, <1>3 DEF RemoverAlone
<1>13. FoundFits(t)' /\ LeavesItsOwn(t)'
  BY <1>5 DEF FoundFits, LeavesItsOwn
<1>14. pc'[t] # "close" /\ abandoned' \subseteq abandoned
  BY <1>3, <1>5
<1>. QED  BY <1>6, <1>9, <1>10, <1>11, <1>12, <1>13, <1>14, LoudRest

\* A topic is closed, by its remover or its owner, and keeps its name.
LEMMA MarkedRest ==
  ASSUME RInv, NEW t \in Tasks, NEW i \in Made, Open(i), NEW who \in {"remover", "owner"},
         MarkClosed(i, who), abandoned' \subseteq abandoned,
         UNCHANGED <<registry, closed, name, found, joined, replaced>>,
         who = "remover" => /\ pc[t] = "remove" /\ pc' = [pc EXCEPT ![t] = "delete"]
                            /\ found[t] = i,
         who = "owner" => pc[t] = "idle" /\ pc' = pc
  PROVE  RestInv'
<1>1. /\ Grows /\ Made' = Made /\ ~Open(i)' /\ topics'[i].closedBy = who
      /\ \A j \in Made \ {i} : topics'[j] = topics[j]
  BY MarkedTopic DEF RInv, Open
<1>2. /\ \A u \in Tasks \ {t} : pc'[u] = pc[u]
      /\ who = "remover" => pc'[t] = "delete"
      /\ who = "owner" => pc'[t] = "idle"
      /\ pc[t] # "delete"
  BY DEF RInv, TypeOK
<1>3. Later /\ Moves(t)
  BY <1>1, <1>2 DEF Later, Moves
<1>4. \A j \in Made : /\ topics'[j].name = topics[j].name
                      /\ Open(j)' => Open(j)
                      /\ Raced(j) => Raced(j)'
  BY <1>3, RacesStay, OpenBefore DEF Later, Grows
<1>5. NamesStand'
  BY <1>4, FoundExists DEF RInv, NamesStand
<1>6. OpenTopicsAreFound'
  BY <1>1, <1>4 DEF RInv, OpenTopicsAreFound
<1>7. who = "remover" => topics[i].name = name[t] /\ name[t] \in Names
  BY FoundExists DEF RInv, TaskInv, FoundFits
<1>8. FoundTopicsAreOpen'
  <2>. SUFFICES ASSUME NEW m \in Names, registry[m] # 0,
                       topics'[registry[m]].closedBy # "owner"
                PROVE  \/ topics'[registry[m]].closedBy = "nobody"
                       \/ \E u \in Tasks : /\ pc'[u] = "delete" /\ found[u] = registry[m]
                                           /\ name[u] = m
    BY DEF FoundTopicsAreOpen, Open
  <2>1. registry[m] \in Made
    BY FoundExists
  <2>2. CASE registry[m] = i
    <3>1. who = "remover" /\ topics[i].name = m
      BY <2>2, <1>1 DEF RInv, NamesStand
    <3>. QED  BY <2>2, <3>1, <1>2, <1>7
  <2>3. CASE registry[m] # i
    BY <2>1, <2>3, <1>1, <1>2 DEF RInv, FoundTopicsAreOpen, Open
  <2>. QED  BY <2>2, <2>3
<1>9. ASSUME NEW u \in Tasks PROVE RemoverAlone(u)'
  <2>. SUFFICES ASSUME pc'[u] = "delete" PROVE RemoverAlone(u)'
    BY DEF RemoverAlone
  <2>1. CASE pc[u] = "delete"
    <3>1. PICK j \in Made : /\ j = found[u] /\ topics[j].name = name[u]
                            /\ ~Open(j)
                            /\ registry[name[u]] = j \/ Raced(j)
                            /\ \A v \in Tasks : pc[v] = "delete" /\ found[v] = j => v = u
      BY <2>1, RemoverKnows
    <3>2. j # i /\ ~Open(j)' /\ (registry[name[u]] = j \/ Raced(j)')
      BY <3>1, <1>4
    <3>3. \A v \in Tasks : pc'[v] = "delete" /\ found[v] = j => v = u
      BY <3>1, <3>2, <1>2
    <3>. QED  BY <3>1, <3>2, <3>3 DEF RemoverAlone
  <2>2. CASE pc[u] # "delete"
    <3>1. u = t /\ who = "remover"
      BY <2>2, <1>2
    <3>2. registry[name[t]] = i \/ Raced(i)
      BY <3>1, <1>7 DEF RInv, OpenTopicsAreFound
    <3>3. \A v \in Tasks : pc[v] = "delete" => found[v] # i
      BY DEF RInv, TaskInv, RemoverAlone
    <3>4. \A v \in Tasks : pc'[v] = "delete" /\ found[v] = i => v = t
      BY <3>3, <1>2
    <3>. QED  BY <3>1, <3>2, <3>4, <1>1, <1>4 DEF RemoverAlone
  <2>. QED  BY <2>1, <2>2
<1>10. FoundFits(t)' /\ LeavesItsOwn(t)'
  BY <1>1, <1>2, <1>4, <1>7, FoundExists DEF FoundFits, LeavesItsOwn
<1>11. pc'[t] # "close"
  BY <1>2
<1>. QED  BY <1>3, <1>5, <1>6, <1>8, <1>9, <1>10, <1>11, LoudRest

\* A remover deletes the name of the topic it closed, or of a later one in a race.
LEMMA DeleteRest ==
  ASSUME RInv, NEW t \in Tasks, RemoveDelete(t)
  PROVE  RestInv'
<1>1. PICK n \in Names : n = name[t]
  BY FoundExists
<1>2. /\ registry' = [registry EXCEPT ![n] = 0] /\ pc[t] = "delete"
      /\ UNCHANGED <<topics, closed, name, found, joined, replaced, abandoned>>
  BY <1>1 DEF RemoveDelete
<1>3. registry'[n] = 0 /\ \A m \in Names \ {n} : registry'[m] = registry[m]
  BY <1>2 DEF RInv, TypeOK
<1>4. pc'[t] = "idle" /\ \A u \in Tasks \ {t} : pc'[u] = pc[u]
  BY DEF RemoveDelete, Goto, RInv, TypeOK
<1>5. Later /\ Moves(t) /\ Made' = Made
  BY <1>2, <1>4, SameTopics DEF RInv, Later, Moves, Made
<1>6. PICK f \in Made : /\ f = found[t] /\ topics[f].name = n
                        /\ ~Open(f) /\ (registry[n] = f \/ Raced(f))
                        /\ \A v \in Tasks : pc[v] = "delete" /\ found[v] = f => v = t
  BY <1>1, <1>2, RemoverKnows
<1>7. ASSUME NEW i \in Made, topics[i].name = n, i # f \/ Raced(f),
             registry[n] = i \/ Raced(i)
      PROVE  Raced(i)'
  <2>1. Raced(i) \/ Raced(f)
    BY <1>6, <1>7
  <2>2. Raced(i)
    BY <2>1, <1>6, <1>7 DEF Raced
  <2>. QED  BY <2>2, <1>5, RacesStay
<1>8. NamesStand'
  BY <1>2, <1>3 DEF NamesStand, RInv
<1>9. OpenTopicsAreFound'
  <2>. SUFFICES ASSUME NEW i \in Made, Open(i)
                PROVE  registry'[topics[i].name] = i \/ Raced(i)'
    BY <1>2, <1>5 DEF OpenTopicsAreFound, Open
  <2>1. (registry[topics[i].name] = i \/ Raced(i)) /\ topics[i].name \in Names
    BY MadeTopics DEF RInv, OpenTopicsAreFound
  <2>2. CASE topics[i].name = n
    BY <2>1, <2>2, <1>6, <1>7
  <2>3. CASE topics[i].name # n
    BY <2>1, <2>3, <1>3, <1>5, RacesStay
  <2>. QED  BY <2>2, <2>3
<1>10. FoundTopicsAreOpen'
  <2>. SUFFICES ASSUME NEW m \in Names, registry'[m] # 0,
                       topics[registry'[m]].closedBy # "owner"
                PROVE  \/ topics[registry'[m]].closedBy = "nobody"
                       \/ \E u \in Tasks : /\ pc'[u] = "delete" /\ found[u] = registry'[m]
                                           /\ name[u] = m
    BY <1>2 DEF FoundTopicsAreOpen, Open
  <2>1. m # n /\ registry'[m] = registry[m]
    BY <1>3
  <2>2. \/ Open(registry[m])
        \/ \E u \in Tasks : pc[u] = "delete" /\ found[u] = registry[m] /\ name[u] = m
    BY <2>1 DEF RInv, FoundTopicsAreOpen
  <2>. QED  BY <2>1, <2>2, <1>1, <1>4 DEF Open
<1>11. ASSUME NEW u \in Tasks PROVE RemoverAlone(u)'
  <2>. SUFFICES ASSUME pc'[u] = "delete" PROVE RemoverAlone(u)'
    BY DEF RemoverAlone
  <2>1. u # t /\ pc[u] = "delete"
    BY <1>4
  <2>2. PICK i \in Made : /\ i = found[u] /\ topics[i].name = name[u] /\ name[u] \in Names
                          /\ ~Open(i)
                          /\ registry[name[u]] = i \/ Raced(i)
                          /\ \A v \in Tasks : pc[v] = "delete" /\ found[v] = i => v = u
    BY <2>1, RemoverKnows
  <2>3. i # f
    BY <2>1, <2>2, <1>2, <1>6
  <2>4. registry'[name[u]] = i \/ Raced(i)'
    <3>1. CASE name[u] = n
      BY <3>1, <2>2, <2>3, <1>7
    <3>2. CASE name[u] # n
      BY <3>2, <2>2, <1>3, <1>5, RacesStay
    <3>. QED  BY <3>1, <3>2
  <2>5. ~Open(i)' /\ \A v \in Tasks : pc'[v] = "delete" /\ found'[v] = i => v = u
    BY <2>2, <1>2, <1>4 DEF Open
  <2>. QED  BY <2>2, <2>4, <2>5, <1>2 DEF RemoverAlone
<1>12. FoundFits(t)' /\ LeavesItsOwn(t)'
  BY <1>4 DEF FoundFits, LeavesItsOwn
<1>13. pc'[t] # "close" /\ abandoned' \subseteq abandoned
  BY <1>2, <1>4
<1>. QED  BY <1>5, <1>8, <1>9, <1>10, <1>11, <1>12, <1>13, LoudRest

\* Once the registry is closed every topic is in a race.
LEMMA CloseRest ==
  ASSUME RInv, NEW t \in Tasks, CloseTopics(t)
  PROVE  RestInv'
<1>1. closed /\ closed'
  BY DEF CloseTopics, RInv, ClosingTask
<1>2. pc[t] = "close" /\ pc'[t] = "idle" /\ \A u \in Tasks \ {t} : pc'[u] = pc[u]
  BY DEF CloseTopics, Goto, RInv, TypeOK
<1>3. /\ UNCHANGED <<name, found, joined, replaced>> /\ abandoned' \subseteq abandoned
      /\ \A m \in Names : registry'[m] = 0
  BY DEF CloseTopics
<1>4. Later /\ Moves(t)
  BY <1>1, <1>2, <1>3, ClosedTopics DEF RInv, Later, Moves
<1>5. \A i : Raced(i)'
  BY <1>1 DEF Raced
<1>6. NamesStand' /\ OpenTopicsAreFound' /\ FoundTopicsAreOpen'
  BY <1>3, <1>5 DEF NamesStand, OpenTopicsAreFound, FoundTopicsAreOpen
<1>7. ASSUME NEW u \in Tasks PROVE RemoverAlone(u)'
  <2>. SUFFICES ASSUME pc'[u] = "delete" PROVE RemoverAlone(u)'
    BY DEF RemoverAlone
  <2>1. u # t /\ pc[u] = "delete"
    BY <1>2
  <2>2. PICK i \in Made : /\ i = found[u] /\ ~Open(i)
                          /\ \A v \in Tasks : pc[v] = "delete" /\ found[v] = i => v = u
    BY <2>1, RemoverKnows
  <2>3. ~Open(i)' /\ \A v \in Tasks : pc'[v] = "delete" /\ found'[v] = i => v = u
    BY <2>2, <1>2, <1>3, <1>4, OpenBefore
  <2>. QED  BY <2>2, <2>3, <1>3, <1>5 DEF RemoverAlone
<1>8. FoundFits(t)' /\ LeavesItsOwn(t)'
  BY <1>2 DEF FoundFits, LeavesItsOwn
<1>9. pc'[t] # "close"
  BY <1>2
<1>. QED  BY <1>3, <1>4, <1>6, <1>7, <1>8, <1>9, LoudRest

-----------------------------------------------------------------------------
(* The invariant *)

LEMMA RegistryBegins == Init => RInv
<1>. SUFFICES ASSUME Init PROVE RInv
  OBVIOUS
<1>1. Len(topics) = 0 /\ Made = {} /\ topics \in Seq(TopicRecord)
  BY DEF Init, Made
<1>2. (CHOOSE n \in Names : TRUE) \in Names
  BY RegistryAssumption
<1>3. \A t \in Tasks : pc[t] = "idle" /\ held[t] = 0 /\ joined[t] = 0
  BY DEF Init
<1>4. TypeOK
  <2>1. /\ pc \in [Tasks -> {"idle", "create", "store", "remove", "delete", "poll",
                             "lookup", "join", "leave", "close"}]
        /\ name \in [Tasks -> Names]
    BY <1>2 DEF Init
  <2>2. /\ registry \in [Names -> 0 .. 0] /\ found \in [Tasks -> 0 .. 0]
        /\ held \in [Tasks -> 0 .. 0] /\ joined \in [Tasks -> 0 .. 0]
    BY DEF Init
  <2>3. closed \in BOOLEAN /\ replaced \subseteq Made /\ abandoned \subseteq Made
    BY DEF Init
  <2>4. \A t \in Tasks : \A i \in {held[t], joined[t]} \ {0} : Matches(t, i)
    BY <1>3
  <2>. QED  BY <1>1, <2>1, <2>2, <2>3, <2>4, RegistryAssumption DEF TypeOK, TopicRecord
<1>5. BoundKept
  <2>1. Creating = {}
    BY <1>3 DEF Creating
  <2>. QED  BY <2>1, <1>1, FS_EmptySet, RegistryAssumption DEF BoundKept
<1>6. TaskInv /\ ClosingTask
  BY <1>3 DEF TaskInv, FoundFits, RemoverAlone, LeavesItsOwn, ClosingTask
<1>7. NamesStand /\ OpenTopicsAreFound /\ FoundTopicsAreOpen /\ SubscriptionsAreRemoved
  BY <1>1 DEF Init, NamesStand, OpenTopicsAreFound, FoundTopicsAreOpen,
     SubscriptionsAreRemoved
<1>. QED  BY <1>4, <1>5, <1>6, <1>7 DEF RInv

LEMMA StutterKept ==
  ASSUME RInv, UNCHANGED vars
  PROVE  RInv'
BY DEF RInv, vars, taskVars, TypeOK, BoundKept, Creating, NamesStand, TaskInv, ClosingTask,
   FoundFits, RemoverAlone, LeavesItsOwn, OpenTopicsAreFound, FoundTopicsAreOpen,
   SubscriptionsAreRemoved, Raced, Open, Matches, Made

LEMMA RegistryKept == RInv /\ [Next]_vars => RInv'
<1>. SUFFICES ASSUME RInv, [Next]_vars PROVE RInv'
  OBVIOUS
<1>0. TypeOK' /\ BoundKept' /\ RestInv' => RInv'
  BY DEF RInv, RestInv
<1>1. CASE Next /\ Quiet
  BY <1>0, <1>1, QuietTypes, BoundIsKept, QuietKept
<1>2. CASE Next /\ \E t \in Tasks : CreateStore(t)
  BY <1>0, <1>2, StoreTypes, BoundIsKept, StoreRest
<1>3. CASE Next /\ \E t \in Tasks : RemoveClose(t)
  <2>1. PICK t \in Tasks : RemoveClose(t)
    BY <1>3
  <2>2. PICK i \in Made : i = found[t]
    BY <2>1, FoundExists DEF RemoveClose, RInv, TaskInv, FoundFits
  <2>3. CASE Open(i)
    <3>1. /\ MarkClosed(i, "remover") /\ abandoned' \subseteq abandoned
          /\ UNCHANGED <<registry, closed, name, found, joined, replaced>>
          /\ pc[t] = "remove" /\ pc' = [pc EXCEPT ![t] = "delete"] /\ found[t] = i
      BY <2>1, <2>2, <2>3 DEF RemoveClose, Goto
    <3>2. RestInv'
      BY <2>3, <3>1, MarkedRest
    <3>. QED  BY <3>2, <1>0, <1>3, <2>1, RemoveTypes, BoundIsKept DEF RemoveStep
  <2>4. CASE ~Open(i)
    <3>1. /\ pc[t] = "remove" /\ pc'[t] = "idle" /\ abandoned' \subseteq abandoned \cup {}
          /\ UNCHANGED <<topics, registry, closed, replaced>> /\ Moves(t)
      BY <2>1, <2>2, <2>4 DEF RemoveClose, Goto, Moves, RInv, TypeOK
    <3>2. SameMap
      BY <3>1 DEF SameMap, Moves
    <3>3. FoundFits(t)' /\ LeavesItsOwn(t)'
      BY <3>1 DEF FoundFits, LeavesItsOwn
    <3>4. {} \in SUBSET Made /\ \A j \in {} : Raced(j)
      OBVIOUS
    <3>5. pc'[t] = "close" => closed'
      BY <3>1
    <3>6. RestInv'
      BY <3>1, <3>2, <3>3, <3>4, <3>5, QuietRest
    <3>. QED  BY <3>6, <1>0, <1>3, <2>1, RemoveTypes, BoundIsKept DEF RemoveStep
  <2>. QED  BY <2>3, <2>4
<1>4. CASE Next /\ \E t \in Tasks : RemoveDelete(t)
  BY <1>0, <1>4, RemoveTypes, BoundIsKept, DeleteRest DEF RemoveStep
<1>5. CASE Next /\ \E t \in Tasks : OwnerClose(t)
  <2>1. PICK t \in Tasks : OwnerClose(t)
    BY <1>5
  <2>2. PICK i \in Made : i = held[t]
    BY <2>1, FoundExists DEF OwnerClose
  <2>3. RestInv'
    BY <2>1, <2>2, MarkedRest DEF OwnerClose, taskVars
  <2>. QED  BY <1>0, <1>5, <2>1, <2>3, RemoveTypes, BoundIsKept
<1>6. CASE Next /\ \E t \in Tasks : CloseTopics(t)
  BY <1>0, <1>6, RemoveTypes, BoundIsKept, CloseRest
<1>7. CASE Terminated \/ UNCHANGED vars
  BY <1>7, StutterKept DEF Terminated
<1>. QED  BY <1>1, <1>2, <1>3, <1>4, <1>5, <1>6, <1>7 DEF Next, Quiet, CreateStep, RemoveStep

\* The inductive invariant holds in every reachable state of the specification.
THEOREM RegistryInvariant == Spec => []RInv
BY RegistryBegins, RegistryKept, PTL DEF Spec

-----------------------------------------------------------------------------
(* What follows *)

\* Types, and no task is given a topic of another type than it asked for
\* (intracom.go:73-76, 211-214).
THEOREM RegistryTypes == Spec => []TypeOK
<1>1. RInv => TypeOK
  BY DEF RInv
<1>. QED  BY <1>1, RegistryInvariant, PTL

\* Only a race of CreateTopic loses an open topic, whoever uses the registry
\* (intracom.go:68-80).
THEOREM OpenMeansFound == Spec => []OpenTopicsAreFound
<1>1. RInv => OpenTopicsAreFound
  BY DEF RInv
<1>. QED  BY <1>1, RegistryInvariant, PTL

\* A name never stands for a topic that a remover has closed and left
\* (intracom.go:130-137).
THEOREM FoundMeansOpen == Spec => []FoundTopicsAreOpen
<1>1. RInv => FoundTopicsAreOpen
  BY DEF RInv
<1>. QED  BY <1>1, RegistryInvariant, PTL

\* RemoveSubscription leaves a subscription behind only on a topic in a race
\* (intracom.go:222-243).
THEOREM NoneLeftBehind == Spec => []SubscriptionsAreRemoved
<1>1. RInv => SubscriptionsAreRemoved
  BY DEF RInv
<1>. QED  BY <1>1, RegistryInvariant, PTL
=============================================================================
