--------------------------- MODULE AuditChainProofs ---------------------------
(***************************************************************************)
(* Proofs about AuditChain, for any number of callers and of events, any   *)
(* times, and every resolution of the stored ones.                         *)
(***************************************************************************)
EXTENDS AuditChain, FiniteSetTheorems, SequenceTheorems, TLAPS

-----------------------------------------------------------------------------
(* What is always true of the trail, as a set of events.                   *)

\* An event is stored once, and one that was not disturbed keeps its time.
RowsInv ==
    /\ \A e, f \in log : e.id = f.id => e = f
    /\ \A e \in log : e.id \notin disturbed => e.time = e.stamp

\* Calls in progress together know of each other.
CrowdInv ==
    \A c, d \in Callers : (c # d /\ ~At(c, "idle") /\ ~At(d, "idle")) => crowded[c]

\* A call that is alone inserts after the event that is the last one then.
LastInv ==
    \A c \in Callers :
        (At(c, "insert") /\ ~crowded[c]) => \A e \in LastEvent : event[c].prev = e.id

\* f is the event that comes after e.
Follows(e, f) ==
    /\ Before(e, f)
    /\ \A g \in log : ~(Before(e, g) /\ Before(g, f))

\* An event that was not disturbed names the one before it.
LinkInv ==
    \A e, f \in log : (Follows(e, f) /\ {e.id, f.id} \cap disturbed = {}) => f.prev = e.id

ChainInv == RowsInv /\ CrowdInv /\ LastInv /\ LinkInv /\ IsFiniteSet(log)

-----------------------------------------------------------------------------
(* Type correctness.                                                       *)

\* The time that is stored is not later than the stamp.
LEMMA StoredTyped ==
    ASSUME NEW stamp \in 1 .. MaxTime
    PROVE  Stored(stamp) \in 0 .. MaxTime
<1>1. stamp % Resolution \in 0 .. stamp
  BY BoundsAssumption
<1> QED BY <1>1, BoundsAssumption DEF Stored

\* The order of the trail is total on events whose ids differ.
LEMMA BeforeOrders ==
    ASSUME NEW e \in Event, NEW f \in Event, NEW g \in Event
    PROVE  /\ ~Before(e, e)
           /\ Before(e, f) => ~Before(f, e)
           /\ Before(e, f) /\ Before(f, g) => Before(e, g)
           /\ e.id # f.id => Before(e, f) \/ Before(f, e)
<1>1. /\ e.id \in Int /\ f.id \in Int /\ g.id \in Int
      /\ e.time \in Int /\ f.time \in Int /\ g.time \in Int
  BY BoundsAssumption DEF Event, Ids
<1> QED BY <1>1 DEF Before

\* A call that starts is crowded if another is in progress, and crowds those that are.
LEMMA CrowdEffect ==
    ASSUME TypeOK, NEW c \in Callers, Crowd(c)
    PROVE  /\ crowded' \in [Callers -> BOOLEAN]
           /\ Others(c) # {} => crowded'[c]
           /\ \A o \in Callers \ {c} : /\ crowded[o] => crowded'[o]
                                       /\ ~At(o, "idle") => crowded'[o]
<1>1. crowded' \in [Callers -> BOOLEAN]
  BY DEF TypeOK, Crowd
<1>2. Others(c) # {} => crowded'[c]
  BY DEF Crowd
<1>3. \A o \in Callers \ {c} : crowded'[o] = (crowded[o] \/ o \in Others(c))
  BY DEF Crowd
<1> QED BY <1>1, <1>2, <1>3 DEF Others

\* A call that returns holds nothing of what it read.
LEMMA ReturnEffect ==
    ASSUME TypeOK, NEW c \in Callers, Return(c)
    PROVE  /\ pc' \in [Callers -> {"idle", "purged", "last", "insert"}]
           /\ event' \in [Callers -> [stamp : 1 .. MaxTime, prev : Ids \cup {NoHash},
                                      kind : {"event", "purged"}]]
           /\ crowded' \in [Callers -> BOOLEAN]
           /\ pc'[c] = "idle" /\ crowded'[c] = FALSE
<1>1. Unset \in [stamp : 1 .. MaxTime, prev : Ids \cup {NoHash}, kind : {"event", "purged"}]
  BY BoundsAssumption DEF Unset
<1> QED BY <1>1 DEF Return, Goto, TypeOK

\* A step of one call leaves what the others hold, and crowds them or not.
LEMMA OthersStay ==
    ASSUME TypeOK, NEW c \in Callers, Step(c), NEW d \in Callers, d # c
    PROVE  pc'[d] = pc[d] /\ event'[d] = event[d] /\ (crowded[d] => crowded'[d])
<1>1. ASSUME NEW stamp \in 1 .. now, StoreAppend(c, stamp)
      PROVE  pc'[d] = pc[d] /\ event'[d] = event[d] /\ (crowded[d] => crowded'[d])
  BY <1>1, CrowdEffect DEF StoreAppend, Goto, TypeOK
<1>2. ASSUME NEW cutoff \in 1 .. now - 1, Purge(c, cutoff)
      PROVE  pc'[d] = pc[d] /\ event'[d] = event[d] /\ (crowded[d] => crowded'[d])
  BY <1>2, CrowdEffect DEF Purge, Goto, TypeOK
<1>3. CASE AppendPurge(c) \/ ReadLast(c)
  BY <1>3 DEF AppendPurge, ReadLast, Goto, TypeOK, history
<1>4. ASSUME Return(c)
      PROVE  pc'[d] = pc[d] /\ event'[d] = event[d] /\ (crowded[d] => crowded'[d])
  <2>1. pc'[d] = pc[d] /\ event'[d] = event[d]
    BY <1>4 DEF Return, Goto, TypeOK
  <2>2. crowded'[d] = crowded[d]
    BY <1>4 DEF Return, TypeOK
  <2> QED BY <2>1, <2>2
<1>5. ASSUME NEW id \in Ids, Insert(c, id) PROVE Return(c)
  BY <1>5 DEF Insert
<1>6. CASE AppendFails(c)
  BY <1>4, <1>6 DEF AppendFails
<1> QED BY <1>1, <1>2, <1>3, <1>4, <1>5, <1>6 DEF Step

\* The variables start with their types.
LEMMA TypeInit == Init => TypeOK
<1> SUFFICES ASSUME Init PROVE TypeOK
  OBVIOUS
<1>1. Unset \in [stamp : 1 .. MaxTime, prev : Ids \cup {NoHash}, kind : {"event", "purged"}]
  BY BoundsAssumption DEF Unset
<1>2. /\ event \in [Callers -> [stamp : 1 .. MaxTime, prev : Ids \cup {NoHash},
                              kind : {"event", "purged"}]]
      /\ pc \in [Callers -> {"idle", "purged", "last", "insert"}]
      /\ crowded \in [Callers -> BOOLEAN]
  BY <1>1 DEF Init
<1>3. /\ log \subseteq Event /\ now \in 1 .. MaxTime /\ removed \subseteq Ids
      /\ disturbed \subseteq Ids
  BY BoundsAssumption DEF Init
<1>4. unrecorded \in BOOLEAN
  BY DEF Init
<1> QED BY <1>2, <1>3, <1>4 DEF TypeOK

\* The event an Insert stores.
New(c, id) == [id |-> id, time |-> Stored(event[c].stamp), stamp |-> event[c].stamp,
               prev |-> event[c].prev, kind |-> event[c].kind]

\* What an insert leaves: one entry more, chained to the one the call had read.
LEMMA InsertEffect ==
    ASSUME TypeOK, NEW c \in Callers, NEW id \in Ids, Insert(c, id)
    PROVE  /\ New(c, id) \in Event /\ log' = log \cup {New(c, id)}
           /\ New(c, id).id = id /\ New(c, id).prev = event[c].prev
           /\ New(c, id).stamp = event[c].stamp /\ New(c, id).kind = event[c].kind
           /\ \A f \in log : f.id # id
           /\ pc[c] = "insert" /\ Return(c)
           /\ disturbed \subseteq disturbed' /\ disturbed' \subseteq disturbed \cup {id}
           /\ id \notin disturbed' => /\ ~crowded[c]
                                      /\ New(c, id).time = New(c, id).stamp
                                      /\ \A f \in log : f.time < New(c, id).time
<1>1. event[c] \in [stamp : 1 .. MaxTime, prev : Ids \cup {NoHash}, kind : {"event", "purged"}]
  BY DEF TypeOK
<1>2. event[c].stamp \in 1 .. MaxTime
  BY <1>1
<1>3. Stored(event[c].stamp) \in 0 .. MaxTime
  BY <1>2, StoredTyped
<1> DEFINE new == New(c, id)
<1>4. /\ new \in Event /\ new.id = id /\ new.time = Stored(event[c].stamp)
      /\ new.stamp = event[c].stamp /\ new.prev = event[c].prev /\ new.kind = event[c].kind
  BY <1>1, <1>3 DEF New, Event
<1>5. /\ log' = log \cup {new} /\ \A f \in log : f.id # id
      /\ pc[c] = "insert" /\ Return(c)
      /\ disturbed' = IF \/ crowded[c] \/ new.time # event[c].stamp
                         \/ \E f \in log : new.time <= f.time
                      THEN disturbed \cup {id} ELSE disturbed
  BY <1>4 DEF Insert, New, At
<1> HIDE DEF new
<1>6. disturbed \subseteq disturbed' /\ disturbed' \subseteq disturbed \cup {id}
  BY <1>5
<1>7. ASSUME id \notin disturbed'
      PROVE  ~crowded[c] /\ new.time = new.stamp /\ \A f \in log : f.time < new.time
  <2>1. ~crowded[c] /\ new.time = event[c].stamp /\ \A f \in log : ~(new.time <= f.time)
    BY <1>5, <1>7
  <2>2. \A f \in log : f.time \in Int
    BY DEF TypeOK, Event
  <2>3. new.time \in Int
    BY <1>4, <1>3
  <2> QED BY <1>4, <2>1, <2>2, <2>3
<1> QED BY <1>4, <1>5, <1>6, <1>7 DEF new

\* Every step keeps the types.
LEMMA TypeStep == TypeOK /\ [Next]_vars => TypeOK'
<1> SUFFICES ASSUME TypeOK, [Next]_vars PROVE TypeOK'
  OBVIOUS
<1>1. CASE UNCHANGED vars
  BY <1>1 DEF TypeOK, vars, history
<1>2. CASE Tick
  BY <1>2, BoundsAssumption DEF Tick, TypeOK, history
<1>3. ASSUME NEW c \in Callers, Step(c) PROVE TypeOK'
  <2>1. ASSUME NEW stamp \in 1 .. now, StoreAppend(c, stamp) PROVE TypeOK'
    <3>1. stamp \in 1 .. MaxTime
      BY <2>1, BoundsAssumption DEF TypeOK
    <3>2. event' \in [Callers -> [stamp : 1 .. MaxTime, prev : Ids \cup {NoHash},
                                  kind : {"event", "purged"}]]
      BY <2>1, <3>1 DEF StoreAppend, TypeOK
    <3> QED BY <2>1, <3>2, CrowdEffect DEF StoreAppend, Goto, TypeOK
  <2>2. CASE AppendPurge(c)
    <3>1. event' \in [Callers -> [stamp : 1 .. MaxTime, prev : Ids \cup {NoHash},
                                  kind : {"event", "purged"}]]
      BY <2>2 DEF AppendPurge, TypeOK
    <3> QED BY <2>2, <3>1 DEF AppendPurge, Goto, TypeOK, history
  <2>3. CASE ReadLast(c)
    <3> DEFINE prev == IF LastEvent = {} THEN NoHash ELSE (CHOOSE e \in LastEvent : TRUE).id
    <3>1. prev \in Ids \cup {NoHash}
      <4>1. LastEvent # {} => (CHOOSE e \in LastEvent : TRUE) \in log
        BY DEF LastEvent
      <4> QED BY <4>1 DEF TypeOK, Event
    <3>2. event' = [event EXCEPT ![c].prev = prev]
      BY <2>3 DEF ReadLast
    <3> HIDE DEF prev
    <3>3. event' \in [Callers -> [stamp : 1 .. MaxTime, prev : Ids \cup {NoHash},
                                  kind : {"event", "purged"}]]
      BY <3>1, <3>2 DEF TypeOK
    <3> QED BY <2>3, <3>3 DEF ReadLast, Goto, TypeOK, history
  <2>4. ASSUME NEW id \in Ids, Insert(c, id) PROVE TypeOK'
    <3>1. log' \subseteq Event /\ disturbed' \subseteq Ids
      BY <2>4, InsertEffect DEF TypeOK
    <3> QED BY <2>4, <3>1, ReturnEffect DEF Insert, TypeOK
  <2>5. CASE AppendFails(c)
    <3>1. unrecorded' \in BOOLEAN
      BY <2>5 DEF AppendFails
    <3> QED BY <2>5, <3>1, ReturnEffect DEF AppendFails, TypeOK
  <2>6. ASSUME NEW cutoff \in 1 .. now - 1, Purge(c, cutoff) PROVE TypeOK'
    <3>1. event' \in [Callers -> [stamp : 1 .. MaxTime, prev : Ids \cup {NoHash},
                                  kind : {"event", "purged"}]]
      BY <2>6 DEF Purge, TypeOK
    <3>2. removed' \subseteq Ids /\ log' \subseteq Event
      BY <2>6 DEF Purge, Purgeable, TypeOK, Event
    <3> QED BY <2>6, <3>1, <3>2, CrowdEffect DEF Purge, Goto, TypeOK
  <2> QED BY <1>3, <2>1, <2>2, <2>3, <2>4, <2>5, <2>6 DEF Step
<1> QED BY <1>1, <1>2, <1>3 DEF Next

\* The trail, the clock and every call in progress are well formed, however appends and
\* purges overlap and fail (Store.Append, Store.Purge, PostgresRepository).
THEOREM TypeCorrect == Spec => []TypeOK
  BY TypeInit, TypeStep, PTL DEF Spec

-----------------------------------------------------------------------------
(* Purges.                                                                 *)

\* A purge is recorded, or is about to be by the call that did it, or that call failed.
LEMMA RecordedStep == TypeOK /\ PurgeIsRecorded /\ [Next]_vars => PurgeIsRecorded'
<1> SUFFICES ASSUME TypeOK, PurgeIsRecorded, [Next]_vars PROVE PurgeIsRecorded'
  OBVIOUS
<1>1. CASE UNCHANGED vars \/ Tick
  BY <1>1 DEF PurgeIsRecorded, vars, Tick, history
<1>2. ASSUME NEW c \in Callers, Step(c) PROVE PurgeIsRecorded'
  <2>1. ASSUME NEW stamp \in 1 .. now, StoreAppend(c, stamp) PROVE PurgeIsRecorded'
    <3>1. \A d \in Callers : event'[d].kind = event[d].kind
      BY <2>1 DEF StoreAppend, TypeOK
    <3> QED BY <2>1, <3>1 DEF StoreAppend, PurgeIsRecorded
  <2>2. CASE AppendPurge(c) \/ ReadLast(c)
    <3>1. \A d \in Callers : event'[d].kind = event[d].kind
      BY <2>2 DEF AppendPurge, ReadLast, TypeOK
    <3> QED BY <2>2, <3>1 DEF AppendPurge, ReadLast, PurgeIsRecorded, history
  <2>3. ASSUME NEW id \in Ids, Insert(c, id) PROVE PurgeIsRecorded'
    <3>1. event[c].kind = "purged" => \E e \in log' : e.kind = "purged"
      BY <2>3, InsertEffect
    <3>2. log \subseteq log' /\ removed' = removed /\ unrecorded' = unrecorded
      BY <2>3 DEF Insert
    <3>3. \A d \in Callers \ {c} : event'[d] = event[d]
      BY <1>2, OthersStay
    <3> QED BY <3>1, <3>2, <3>3 DEF PurgeIsRecorded
  <2>4. CASE AppendFails(c)
    <3>1. /\ event[c].kind = "purged" => unrecorded'
          /\ unrecorded => unrecorded'
          /\ removed' = removed /\ log' = log
      BY <2>4 DEF AppendFails
    <3>2. \A d \in Callers \ {c} : event'[d] = event[d]
      BY <1>2, OthersStay
    <3> QED BY <3>1, <3>2 DEF PurgeIsRecorded
  <2>5. ASSUME NEW cutoff \in 1 .. now - 1, Purge(c, cutoff) PROVE PurgeIsRecorded'
    <3>1. event'[c].kind = "purged"
      BY <2>5 DEF Purge, TypeOK
    <3> QED BY <3>1 DEF PurgeIsRecorded
  <2> QED BY <1>2, <2>1, <2>2, <2>3, <2>4, <2>5 DEF Step
<1> QED BY <1>1, <1>2 DEF Next

\* However appends and purges overlap, a trail that has lost events says so, unless the
\* call that removed them failed or has yet to append (Store.Purge).
THEOREM PurgesAreRecorded == Spec => []PurgeIsRecorded
<1>1. Init => PurgeIsRecorded
  BY DEF Init, PurgeIsRecorded
<1> QED BY <1>1, TypeInit, TypeStep, RecordedStep, PTL DEF Spec

-----------------------------------------------------------------------------
(* The links.                                                              *)

\* The trail, its disturbed events and its other history change in two steps only.
LEMMA TrailChange ==
    ASSUME [Next]_vars, ~UNCHANGED <<log, disturbed>>
    PROVE  \E c \in Callers : /\ Step(c)
                              /\ \/ \E id \in Ids : Insert(c, id)
                                 \/ \E cutoff \in 1 .. now - 1 : Purge(c, cutoff)
  BY DEF Next, Tick, vars, Step, StoreAppend, AppendPurge, ReadLast, AppendFails, history

\* A Purge deletes every event that comes before one it deletes.
LEMMA PurgeEffect ==
    ASSUME TypeOK, NEW c \in Callers, NEW cutoff \in 1 .. now - 1, Purge(c, cutoff)
    PROVE  /\ log' \subseteq log /\ disturbed' = disturbed
           /\ \A e \in log', f \in log : Before(e, f) => f \in log'
           /\ pc[c] = "idle" /\ pc'[c] = "purged" /\ Crowd(c)
<1>1. /\ log' = log \ Purgeable(cutoff) /\ disturbed' = disturbed
      /\ pc[c] = "idle" /\ pc'[c] = "purged" /\ Crowd(c)
  BY DEF Purge, At, Goto, TypeOK
<1>2. cutoff \in 1 .. MaxTime
  BY BoundsAssumption DEF TypeOK
<1>3. Stored(cutoff) \in Int
  BY <1>2, StoredTyped
<1>4. ASSUME NEW e \in log', NEW f \in log, Before(e, f) PROVE f \in log'
  <2>1. e \in log /\ e \notin Purgeable(cutoff)
    BY <1>1
  <2>2. e.time \in Int /\ f.time \in Int
    BY <2>1 DEF TypeOK, Event
  <2>3. ~(e.time < Stored(cutoff)) /\ e.time <= f.time
    BY <1>4, <2>1, <2>2 DEF Purgeable, Before
  <2>4. ~(f.time < Stored(cutoff))
    BY <1>3, <2>2, <2>3
  <2> QED BY <1>1, <2>4 DEF Purgeable
<1> QED BY <1>1, <1>4

\* An event is stored once, and one that was not disturbed keeps its time.
LEMMA RowsStep == TypeOK /\ RowsInv /\ [Next]_vars => RowsInv'
<1> SUFFICES ASSUME TypeOK, RowsInv, [Next]_vars PROVE RowsInv'
  OBVIOUS
<1>1. CASE UNCHANGED <<log, disturbed>>
  BY <1>1 DEF RowsInv
<1>2. ASSUME NEW c \in Callers, NEW id \in Ids, Insert(c, id) PROVE RowsInv'
  <2>1. /\ log' = log \cup {New(c, id)} /\ New(c, id).id = id
        /\ \A f \in log : f.id # id
        /\ disturbed \subseteq disturbed'
        /\ id \notin disturbed' => New(c, id).time = New(c, id).stamp
    BY <1>2, InsertEffect
  <2> QED BY <2>1 DEF RowsInv
<1>3. ASSUME NEW c \in Callers, NEW cutoff \in 1 .. now - 1, Purge(c, cutoff) PROVE RowsInv'
  <2>1. log' \subseteq log /\ disturbed' = disturbed
    BY <1>3, PurgeEffect
  <2> QED BY <2>1 DEF RowsInv
<1> QED BY <1>1, <1>2, <1>3, TrailChange

\* The log gains one entry at a time or loses some: it stays finite.
LEMMA FiniteStep == TypeOK /\ IsFiniteSet(log) /\ [Next]_vars => IsFiniteSet(log)'
<1> SUFFICES ASSUME TypeOK, IsFiniteSet(log), [Next]_vars PROVE IsFiniteSet(log')
  OBVIOUS
<1>1. ASSUME NEW c \in Callers, NEW id \in Ids, Insert(c, id) PROVE IsFiniteSet(log')
  <2>1. log' = log \cup {New(c, id)}
    BY <1>1, InsertEffect
  <2> QED BY <2>1, FS_AddElement
<1>2. ASSUME NEW c \in Callers, NEW cutoff \in 1 .. now - 1, Purge(c, cutoff)
      PROVE  IsFiniteSet(log')
  <2>1. log' \subseteq log
    BY <1>2, PurgeEffect
  <2> QED BY <2>1, FS_Subset
<1> QED BY <1>1, <1>2, TrailChange

\* Calls in progress together know of each other.
LEMMA CrowdStep == TypeOK /\ CrowdInv /\ [Next]_vars => CrowdInv'
<1> SUFFICES ASSUME TypeOK, CrowdInv, [Next]_vars,
                    NEW c \in Callers, NEW d \in Callers, c # d, pc'[c] # "idle", pc'[d] # "idle"
             PROVE  crowded'[c]
  BY DEF CrowdInv, At
<1>1. CASE UNCHANGED <<pc, crowded>>
  BY <1>1 DEF CrowdInv, At
<1>2. ASSUME NEW x \in Callers, Step(x) PROVE crowded'[c]
  <2>1. ASSUME Crowd(x), pc[x] = "idle" PROVE crowded'[c]
    <3>1. CASE x = c
      <4>1. d \in Others(c)
        BY <1>2, <3>1, OthersStay DEF Others, At
      <4> QED BY <2>1, <3>1, <4>1, CrowdEffect
    <3>2. CASE x # c
      <4>1. pc[c] # "idle"
        BY <1>2, <3>2, OthersStay
      <4> QED BY <2>1, <3>2, <4>1, CrowdEffect DEF At
    <3> QED BY <3>1, <3>2
  <2>2. ASSUME pc[x] # "idle", pc'[x] # "idle", crowded' = crowded PROVE crowded'[c]
    <3>1. pc[c] # "idle" /\ pc[d] # "idle"
      BY <1>2, <2>2, OthersStay
    <3> QED BY <2>2, <3>1 DEF CrowdInv, At
  <2>3. ASSUME Return(x) PROVE crowded'[c]
    <3>1. x # c /\ x # d
      BY <2>3, ReturnEffect
    <3>2. pc[c] # "idle" /\ pc[d] # "idle"
      BY <1>2, <3>1, OthersStay
    <3>3. crowded[c]
      BY <3>2 DEF CrowdInv, At
    <3> QED BY <1>2, <3>1, <3>3, OthersStay
  <2>4. ASSUME NEW stamp \in 1 .. now, StoreAppend(x, stamp) PROVE Crowd(x) /\ pc[x] = "idle"
    BY <2>4 DEF StoreAppend, At
  <2>5. ASSUME NEW cutoff \in 1 .. now - 1, Purge(x, cutoff) PROVE Crowd(x) /\ pc[x] = "idle"
    BY <2>5 DEF Purge, At
  <2>6. CASE AppendPurge(x) \/ ReadLast(x)
    <3>1. pc[x] # "idle" /\ pc'[x] # "idle" /\ crowded' = crowded
      BY <2>6 DEF AppendPurge, ReadLast, At, Goto, TypeOK, history
    <3> QED BY <2>2, <3>1
  <2>7. ASSUME NEW id \in Ids, Insert(x, id) PROVE Return(x)
    BY <2>7 DEF Insert
  <2>8. CASE AppendFails(x)
    BY <2>3, <2>8 DEF AppendFails
  <2> QED BY <1>2, <2>1, <2>3, <2>4, <2>5, <2>6, <2>7, <2>8 DEF Step
<1> QED BY <1>1, <1>2 DEF Next, Tick, vars, history

\* There is one last event at most.
LEMMA LastIsOne ==
    ASSUME TypeOK, NEW e \in LastEvent, NEW f \in LastEvent
    PROVE  e = f
<1> SUFFICES ASSUME e # f PROVE FALSE
  OBVIOUS
<1>1. e \in log /\ f \in log /\ Before(e, f) /\ Before(f, e)
  BY DEF LastEvent
<1>2. e \in Event /\ f \in Event
  BY <1>1 DEF TypeOK
<1> QED BY <1>1, <1>2, BeforeOrders

\* A call that is alone inserts after the event that is the last one then.
LEMMA LastStep == TypeOK /\ CrowdInv /\ LastInv /\ [Next]_vars => LastInv'
<1> SUFFICES ASSUME TypeOK, CrowdInv, LastInv, [Next]_vars,
                    NEW c \in Callers, pc'[c] = "insert", ~crowded'[c],
                    NEW e \in LastEvent'
             PROVE  event'[c].prev = e.id
  BY DEF LastInv, At
<1>1. CASE UNCHANGED <<log, event, pc, crowded>>
  BY <1>1 DEF LastInv, LastEvent, At
<1>2. ASSUME NEW x \in Callers, Step(x), x # c PROVE event'[c].prev = e.id
  <2>1. pc[c] = "insert" /\ event'[c] = event[c] /\ ~crowded[c]
    BY <1>2, OthersStay
  <2>2. pc[x] = "idle"
    BY <1>2, <2>1 DEF CrowdInv, At
  <2>3. ASSUME Crowd(x) PROVE FALSE
    BY <1>2, <2>1, <2>3, CrowdEffect DEF At
  <2>4. log' = log
    BY <1>2, <2>2, <2>3 DEF Step, StoreAppend, AppendPurge, ReadLast, Insert, AppendFails,
                            Purge, At
  <2> QED BY <2>1, <2>4 DEF LastInv, LastEvent, At
<1>3. ASSUME Step(c) PROVE event'[c].prev = e.id
  <2>1. CASE ReadLast(c)
    <3> DEFINE prev == IF LastEvent = {} THEN NoHash ELSE (CHOOSE f \in LastEvent : TRUE).id
    <3>1. log' = log /\ event' = [event EXCEPT ![c].prev = prev]
      BY <2>1 DEF ReadLast
    <3>2. e \in LastEvent
      BY <3>1 DEF LastEvent
    <3>3. (CHOOSE f \in LastEvent : TRUE) \in LastEvent
      BY <3>2
    <3>4. prev = e.id
      BY <3>2, <3>3, LastIsOne
    <3> HIDE DEF prev
    <3>5. event'[c].prev = prev
      BY <3>1 DEF TypeOK
    <3> QED BY <3>4, <3>5
  <2>2. CASE ~ReadLast(c)
    <3>1. ~Return(c)
      BY ReturnEffect
    <3>2. ASSUME NEW stamp \in 1 .. now, StoreAppend(c, stamp) PROVE pc'[c] = "last"
      BY <3>2 DEF StoreAppend, Goto, TypeOK
    <3>3. ASSUME NEW cutoff \in 1 .. now - 1, Purge(c, cutoff) PROVE pc'[c] = "purged"
      BY <3>3, PurgeEffect
    <3>4. AppendPurge(c) => pc'[c] = "last"
      BY DEF AppendPurge, Goto, TypeOK
    <3> QED BY <1>3, <2>2, <3>1, <3>2, <3>3, <3>4 DEF Step, Insert, AppendFails
  <2> QED BY <2>1, <2>2
<1> QED BY <1>1, <1>2, <1>3 DEF Next, Tick, vars, history

\* An event that was not disturbed names the one before it.
LEMMA LinkStep == TypeOK /\ ChainInv /\ [Next]_vars => LinkInv'
<1> SUFFICES ASSUME TypeOK, ChainInv, [Next]_vars,
                    NEW e \in log', NEW f \in log', Before(e, f),
                    \A g \in log' : ~(Before(e, g) /\ Before(g, f)),
                    e.id \notin disturbed', f.id \notin disturbed'
             PROVE  f.prev = e.id
  BY DEF LinkInv, Follows, Before
<1>0. \A p, q \in log : Follows(p, q) /\ p.id \notin disturbed /\ q.id \notin disturbed
                          => q.prev = p.id
  BY DEF ChainInv, LinkInv
<1>1. CASE UNCHANGED <<log, disturbed>>
  BY <1>0, <1>1 DEF Follows
<1>2. ASSUME NEW c \in Callers, NEW id \in Ids, Insert(c, id) PROVE f.prev = e.id
  <2> DEFINE new == New(c, id)
  <2>1. /\ new \in Event /\ log' = log \cup {new} /\ new.id = id /\ new.prev = event[c].prev
        /\ \A g \in log : g.id # id
        /\ pc[c] = "insert" /\ disturbed \subseteq disturbed'
        /\ id \notin disturbed' => ~crowded[c] /\ \A g \in log : g.time < new.time
    BY <1>2, InsertEffect
  <2> HIDE DEF new
  <2>2. CASE e \in log /\ f \in log
    BY <1>0, <2>1, <2>2 DEF Follows
  <2>3. CASE e = new
    <3>1. ASSUME NEW g \in log PROVE ~Before(new, g)
      <4>1. g.time < new.time
        BY <2>1, <2>3
      <4>2. g.time \in Int /\ new.time \in Int
        BY <2>1 DEF TypeOK, Event
      <4> QED BY <4>1, <4>2 DEF Before
    <3>2. ~Before(new, new)
      BY <2>1, BeforeOrders
    <3> QED BY <2>1, <2>3, <3>1, <3>2
  <2>4. CASE e \in log /\ f = new
    <3>1. ~crowded[c] /\ \A g \in log : g.time < new.time
      BY <2>1, <2>4
    <3>2. ASSUME NEW g \in log \ {e} PROVE Before(g, e)
      <4>1. Before(g, new)
        BY <3>1 DEF Before
      <4>2. ~Before(e, g)
        BY <2>1, <2>4, <4>1
      <4>3. g.id # e.id
        BY <2>4 DEF ChainInv, RowsInv
      <4> QED BY <2>4, <4>2, <4>3, BeforeOrders DEF TypeOK
    <3>3. e \in LastEvent
      BY <2>4, <3>2 DEF LastEvent
    <3> QED BY <2>1, <2>4, <3>1, <3>3 DEF ChainInv, LastInv, At
  <2> QED BY <2>1, <2>2, <2>3, <2>4
<1>3. ASSUME NEW c \in Callers, NEW cutoff \in 1 .. now - 1, Purge(c, cutoff)
      PROVE  f.prev = e.id
  <2>1. /\ log' \subseteq log /\ disturbed' = disturbed
        /\ \A p \in log', q \in log : Before(p, q) => q \in log'
    BY <1>3, PurgeEffect
  <2>2. Follows(e, f)
    BY <2>1 DEF Follows
  <2> QED BY <1>0, <2>1, <2>2
<1> QED BY <1>1, <1>2, <1>3, TrailChange

\* ChainInv holds in every reachable state.
LEMMA ChainAlways == Spec => [](TypeOK /\ ChainInv)
<1>1. Init => TypeOK /\ ChainInv
  <2> SUFFICES ASSUME Init PROVE TypeOK /\ ChainInv
    OBVIOUS
  <2>1. RowsInv /\ CrowdInv /\ LastInv /\ LinkInv
    BY DEF Init, RowsInv, CrowdInv, LastInv, LinkInv, LastEvent, At
  <2>2. IsFiniteSet(log)
    BY FS_EmptySet DEF Init
  <2> QED BY <2>1, <2>2, TypeInit DEF ChainInv
<1>2. TypeOK /\ ChainInv /\ [Next]_vars => (TypeOK /\ ChainInv)'
  BY TypeStep, RowsStep, CrowdStep, LastStep, LinkStep, FiniteStep DEF ChainInv
<1> QED BY <1>1, <1>2, PTL DEF Spec

-----------------------------------------------------------------------------
(* The trail as a sequence.                                                *)

\* The events that come before one.
Earlier(e) == {f \in log : Before(f, e)}

\* Before every entry there are finitely many.
LEMMA EarlierFinite ==
    ASSUME IsFiniteSet(log), NEW e \in log
    PROVE  IsFiniteSet(Earlier(e)) /\ Rank(e) = Cardinality(Earlier(e)) /\ Rank(e) \in Nat
<1>1. IsFiniteSet(Earlier(e))
  BY FS_Subset DEF Earlier
<1>2. Rank(e) = Cardinality(Earlier(e))
  BY DEF Rank, Earlier
<1> QED BY <1>1, <1>2, FS_CardinalityType

\* A later event has a greater rank.
LEMMA RankGrows ==
    ASSUME TypeOK, IsFiniteSet(log), NEW e \in log, NEW f \in log, Before(e, f)
    PROVE  Rank(e) < Rank(f)
<1>1. \A g \in log : Before(g, e) => Before(g, f)
  BY BeforeOrders DEF TypeOK
<1>2. Earlier(e) \cup {e} \subseteq Earlier(f) /\ e \notin Earlier(e)
  BY <1>1, BeforeOrders DEF Earlier, TypeOK
<1>3. IsFiniteSet(Earlier(e)) /\ IsFiniteSet(Earlier(f))
  BY EarlierFinite
<1>4. Cardinality(Earlier(e) \cup {e}) = Cardinality(Earlier(e)) + 1
  BY <1>2, <1>3, FS_AddElement
<1>5. Cardinality(Earlier(e) \cup {e}) <= Cardinality(Earlier(f))
  BY <1>2, <1>3, FS_Subset
<1> QED BY <1>4, <1>5, EarlierFinite

\* An entry's rank is smaller than the number of entries.
LEMMA RankBounded ==
    ASSUME TypeOK, IsFiniteSet(log), NEW e \in log
    PROVE  Rank(e) \in 0 .. Cardinality(log) - 1
<1>1. Earlier(e) \subseteq log \ {e}
  BY BeforeOrders DEF Earlier, TypeOK
<1>2. IsFiniteSet(log \ {e}) /\ Cardinality(log \ {e}) = Cardinality(log) - 1
  BY FS_RemoveElement
<1>3. Cardinality(Earlier(e)) <= Cardinality(log) - 1
  BY <1>1, <1>2, FS_Subset
<1>4. Cardinality(log) \in Nat
  BY FS_CardinalityType
<1> QED BY <1>3, <1>4, EarlierFinite

\* Every rank is that of an event: the ranks of n events are n numbers below n.
LEMMA RanksAreTaken ==
    ASSUME TypeOK, RowsInv, IsFiniteSet(log), NEW k \in 0 .. Cardinality(log) - 1
    PROVE  \E e \in log : Rank(e) = k
<1> DEFINE n == Cardinality(log)
           ranks == [e \in log |-> Rank(e)]
<1>1. n \in Nat
  BY FS_CardinalityType
<1>2. IsFiniteSet(0 .. n - 1) /\ Cardinality(0 .. n - 1) = n
  BY <1>1, FS_Interval
<1>3. ranks \in [log -> 0 .. n - 1]
  BY RankBounded
<1>4. ASSUME NEW e \in log, NEW f \in log, Rank(e) = Rank(f) PROVE e = f
  <2>1. Rank(e) \in Int /\ Rank(f) \in Int
    BY EarlierFinite
  <2>2. ~Before(e, f) /\ ~Before(f, e)
    BY <1>4, <2>1, RankGrows
  <2>3. e.id = f.id
    BY <2>2, BeforeOrders DEF TypeOK
  <2> QED BY <2>3 DEF RowsInv
<1>5. \A e, f \in log : ranks[e] = ranks[f] => e = f
  BY <1>4
<1> HIDE DEF n, ranks
<1>6. ranks \in Injection(log, 0 .. n - 1)
  BY <1>3, <1>5 DEF Injection, IsInjective
<1>7. Cardinality(log) = n
  BY DEF n
<1>8. ranks \in Surjection(log, 0 .. n - 1)
  BY <1>2, <1>6, <1>7, FS_Injection
<1>9. PICK e \in log : ranks[e] = k
  BY <1>7, <1>8 DEF Surjection
<1> QED BY <1>9 DEF ranks

\* The listing holds at each place the event of that rank.
LEMMA ListedByRank ==
    ASSUME TypeOK, RowsInv, IsFiniteSet(log), NEW i \in 1 .. Cardinality(log)
    PROVE  ListAll[i] \in log /\ Rank(ListAll[i]) = i - 1
<1>1. Cardinality(log) \in Nat
  BY FS_CardinalityType
<1>2. \E e \in log : Rank(e) = i - 1
  BY <1>1, RanksAreTaken
<1>3. ListAll[i] = CHOOSE e \in log : Rank(e) = i - 1
  BY DEF ListAll
<1> QED BY <1>2, <1>3

\* Neighbours in the listing come one after the other.
LEMMA NeighboursFollow ==
    ASSUME TypeOK, RowsInv, IsFiniteSet(log), NEW i \in 1 .. Cardinality(log) - 1
    PROVE  Follows(ListAll[i], ListAll[i + 1])
<1> DEFINE e == ListAll[i]
           f == ListAll[i + 1]
<1>1. Cardinality(log) \in Nat
  BY FS_CardinalityType
<1>2. i \in 1 .. Cardinality(log) /\ i + 1 \in 1 .. Cardinality(log)
  BY <1>1
<1>3. e \in log /\ f \in log /\ Rank(e) = i - 1 /\ Rank(f) = (i + 1) - 1
  BY <1>2, ListedByRank
<1> HIDE DEF e, f
<1>4. Rank(f) = Rank(e) + 1 /\ Rank(e) \in Nat /\ Rank(f) \in Nat
  BY <1>3, EarlierFinite
<1>5. Before(e, f)
  <2>1. e.id # f.id
    BY <1>3, <1>4 DEF RowsInv
  <2>2. ~Before(f, e)
    BY <1>3, <1>4, RankGrows
  <2> QED BY <1>3, <2>1, <2>2, BeforeOrders DEF TypeOK
<1>6. ASSUME NEW g \in log, Before(e, g), Before(g, f) PROVE FALSE
  <2>1. Rank(e) < Rank(g) /\ Rank(g) < Rank(f) /\ Rank(g) \in Nat
    BY <1>3, <1>6, RankGrows, EarlierFinite
  <2> QED BY <1>4, <2>1
<1> QED BY <1>5, <1>6 DEF Follows, e, f

\* Two events verify if the second names the first and both keep their times.
LEMMA PairVerifies ==
    ASSUME TypeOK, NEW events, NEW i \in Int, events[i] \in log, events[i + 1] \in log,
           events[i].time = events[i].stamp, events[i + 1].time = events[i + 1].stamp,
           events[i + 1].prev = events[i].id
    PROVE  VerifyChain(SubSeq(events, i, i + 1))
<1> DEFINE pair == SubSeq(events, i, i + 1)
<1>1. \A j \in i .. i + 1 : j = i \/ j = i + 1
  OBVIOUS
<1>2. \A j \in i .. i + 1 : events[j] \in log
  BY <1>1
<1>3. /\ Len(pair) = IF i <= i + 1 THEN (i + 1) - i + 1 ELSE 0
      /\ \A k \in 1 .. (i + 1) - i + 1 : pair[k] = events[i + k - 1]
  BY <1>2, SubSeqProperties
<1> HIDE DEF pair
<1>4. Len(pair) = 2
  BY <1>3
<1>5. pair[1] = events[i + 1 - 1] /\ pair[2] = events[i + 2 - 1]
  BY <1>3
<1>6. i + 1 - 1 = i /\ i + 2 - 1 = i + 1
  OBVIOUS
<1>7. pair[1] = events[i] /\ pair[2] = events[i + 1]
  BY <1>5, <1>6
<1>8. \A k \in 1 .. 2 : k = 1 \/ k = 2
  OBVIOUS
<1>9. pair[2 - 1] = pair[1]
  OBVIOUS
<1>10. VerifyChain(pair)
  BY <1>4, <1>7, <1>8, <1>9 DEF VerifyChain
<1> QED BY <1>10 DEF pair

\* Neighbours of the trail verify, whatever was purged, unless one of them was disturbed:
\* appended by a call that overlapped another, with a time that does not sort it after
\* the older events, or with one that loses digits in the database (Store.Append,
\* ChainBuilder.VerifyChain, Store.Purge).
THEOREM ChainBreaksAreLocal == Spec => []BreaksAreLocal
<1>1. ASSUME TypeOK, ChainInv PROVE BreaksAreLocal
  <2>1. RowsInv /\ LinkInv /\ IsFiniteSet(log) /\ Cardinality(log) \in Nat
    BY <1>1, FS_CardinalityType DEF ChainInv
  <2>2. Len(ListAll) = Cardinality(log)
    BY <2>1 DEF ListAll
  <2>3. ASSUME NEW i \in 1 .. Cardinality(log) - 1,
               {ListAll[i].id, ListAll[i + 1].id} \cap disturbed = {}
        PROVE  VerifyChain(SubSeq(ListAll, i, i + 1))
    <3>1. i \in 1 .. Cardinality(log) /\ i + 1 \in 1 .. Cardinality(log) /\ i \in Int
      BY <2>1
    <3>2. ListAll[i] \in log /\ ListAll[i + 1] \in log
      BY <1>1, <2>1, <3>1, ListedByRank
    <3>3. Follows(ListAll[i], ListAll[i + 1])
      BY <1>1, <2>1, <2>3, NeighboursFollow
    <3>4. ListAll[i + 1].prev = ListAll[i].id
      BY <2>1, <2>3, <3>2, <3>3 DEF LinkInv
    <3>5. /\ ListAll[i].time = ListAll[i].stamp
          /\ ListAll[i + 1].time = ListAll[i + 1].stamp
      BY <2>1, <2>3, <3>2 DEF RowsInv
    <3> QED BY <1>1, <3>1, <3>2, <3>4, <3>5, PairVerifies
  <2> QED BY <2>2, <2>3 DEF BreaksAreLocal
<1> QED BY <1>1, ChainAlways, PTL

=============================================================================
