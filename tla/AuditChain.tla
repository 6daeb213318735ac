------------------------------ MODULE AuditChain ------------------------------
(***************************************************************************)
(* packages/auditlog: the chained audit trail of a tenant.                 *)
(*                                                                         *)
(* Store.Append stamps an event, reads the last event of the trail and     *)
(* inserts the new one with that event's hash, in separate calls.          *)
(* VerifyChain walks the trail in the order of the stored times.  Purge    *)
(* deletes what is older than its cutoff, then appends an event of its     *)
(* own.  The rows are those of Postgres: the last event is the one with    *)
(* the latest time, a time is stored in microseconds although the hash     *)
(* covers its nanoseconds (chain.go:20), and the delete trigger refuses    *)
(* rows that are too recent (000020_create_auditlog.up.sql:88).            *)
(*                                                                         *)
(* The hash of an event stands for its predecessor, its id and its stamp,  *)
(* and is named by its id: two events never have the same one.             *)
(***************************************************************************)
EXTENDS Integers, Sequences, FiniteSets

CONSTANTS
    Callers,
    NumEvents,  \* bound on the events ever stored
    MaxTime,    \* bound on the clock, in the unit of a stamp
    Resolution, \* the unit of a stored time, in the unit of a stamp
    Floor,      \* how old a row must be to be deleted
    NoHash

ASSUME BoundsAssumption ==
    /\ NumEvents \in Nat /\ MaxTime \in Nat \ {0} /\ Floor \in Nat
    /\ Resolution \in Nat \ {0}

VARIABLES
    log,       \* the stored events
    now,       \* the clock
    pc,        \* where a call is
    event,     \* the event it is appending
    removed,   \* history: the ids of the purged events
    crowded,   \* history: another call was in progress during this one
    disturbed, \* history: the ids of the events appended by a crowded call, with a
               \* time that is not later than those stored, or with one that cannot
               \* be stored
    unrecorded \* history: a Purge failed after it deleted

history == <<removed, crowded, disturbed, unrecorded>>
vars == <<log, now, pc, event, history>>

-----------------------------------------------------------------------------

Ids == 1 .. NumEvents

\* chain_hash is not kept: it is the hash of the row's prev, id and stamp.
Event == [id : Ids, time : 0 .. MaxTime, stamp : 1 .. MaxTime,
          prev : Ids \cup {NoHash}, kind : {"event", "purged"}]

Unset == [stamp |-> 1, prev |-> NoHash, kind |-> "event"]

\* The driver sends a time in whole microseconds and drops the rest, so that Postgres
\* has nothing left to round (persistence/go.mod: pgx/v5).
Stored(stamp) == stamp - (stamp % Resolution)

\* ORDER BY occurred_at, id.
Before(e, f) == e.time < f.time \/ (e.time = f.time /\ e.id < f.id)

\* A defect: the order of the times is not the order of the ids.
LastEvent_ById == {e \in log : \A f \in log : f.id <= e.id}

\* The last event, if there is one.
LastEvent == {e \in log : \A f \in log \ {e} : Before(f, e)}

\* How many events the order puts before an event.
Rank(e) == Cardinality({f \in log : Before(f, e)})

ListAll == [i \in 1 .. Cardinality(log) |-> CHOOSE e \in log : Rank(e) = i - 1]

\* The first event is taken at its word.  A hash is the stored one if the time it was
\* computed from is the stored time.
VerifyChain(events) ==
    \A i \in 1 .. Len(events) :
        /\ events[i].time = events[i].stamp
        /\ i > 1 => events[i].prev = events[i - 1].id

At(c, where) == pc[c] = where
Goto(c, where) == pc' = [pc EXCEPT ![c] = where]
Others(c) == {o \in Callers \ {c} : ~At(o, "idle")}

\* A call starts while the others in progress are at work.
Crowd(c) == crowded' = [o \in Callers |-> IF o = c THEN Others(c) # {}
                                          ELSE crowded[o] \/ o \in Others(c)]

Return(c) ==
    /\ Goto(c, "idle")
    /\ event' = [event EXCEPT ![c] = Unset]
    /\ crowded' = [crowded EXCEPT ![c] = FALSE]

Init ==
    /\ log = {} /\ now = 1
    /\ pc = [c \in Callers |-> "idle"]
    /\ event = [c \in Callers |-> Unset]
    /\ removed = {} /\ disturbed = {} /\ unrecorded = FALSE
    /\ crowded = [c \in Callers |-> FALSE]

-----------------------------------------------------------------------------

\* The caller may have set the time (FromSignoffEntry does); if not it is the clock's.
StoreAppend(c, stamp) ==
    /\ At(c, "idle")
    /\ event' = [event EXCEPT ![c].stamp = stamp]
    /\ Goto(c, "last")
    /\ Crowd(c)
    /\ UNCHANGED <<log, now, removed, disturbed, unrecorded>>

\* The Append of a Purge that has deleted.
AppendPurge(c) ==
    /\ At(c, "purged")
    /\ event' = [event EXCEPT ![c].stamp = now]
    /\ Goto(c, "last")
    /\ UNCHANGED <<log, now, history>>

ReadLast(c) ==
    /\ At(c, "last")
    /\ event' = [event EXCEPT ![c].prev = IF LastEvent = {} THEN NoHash
                                          ELSE (CHOOSE e \in LastEvent : TRUE).id]
    /\ Goto(c, "insert")
    /\ UNCHANGED <<log, now, history>>

\* The id is a random one, and the hash is computed over what is inserted.
Insert(c, id) ==
    LET time == Stored(event[c].stamp)
        e == [id |-> id, time |-> time, stamp |-> event[c].stamp,
              prev |-> event[c].prev, kind |-> event[c].kind]
    IN
    /\ At(c, "insert")
    /\ \A f \in log : f.id # id
    /\ id \notin removed
    /\ log' = log \cup {e}
    /\ disturbed' = IF \/ crowded[c] \/ time # event[c].stamp
                       \/ \E f \in log : time <= f.time
                    THEN disturbed \cup {id} ELSE disturbed
    /\ Return(c)
    /\ UNCHANGED <<now, removed, unrecorded>>

\* Reading or inserting fails, or the caller dies.
AppendFails(c) ==
    /\ ~At(c, "idle")
    /\ unrecorded' = (unrecorded \/ event[c].kind = "purged")
    /\ Return(c)
    /\ UNCHANGED <<log, now, removed, disturbed>>

-----------------------------------------------------------------------------

Purgeable(cutoff) == {e \in log : e.time < Stored(cutoff)}

\* A defect: a purge of one event is not recorded.
Purge_OffByOne(c, cutoff) ==
    LET old == Purgeable(cutoff) IN
    /\ At(c, "idle")
    /\ old # {}
    /\ \A e \in old : e.time <= now - Floor
    /\ log' = log \ old
    /\ removed' = removed \cup {e.id : e \in old}
    /\ IF \E e, f \in old : e # f
       THEN /\ event' = [event EXCEPT ![c].kind = "purged"]
            /\ Goto(c, "purged")
            /\ Crowd(c)
       ELSE UNCHANGED <<event, pc, crowded>>
    /\ UNCHANGED <<now, disturbed, unrecorded>>

\* The delete.  A purge that removes nothing changes nothing.
Purge(c, cutoff) ==
    LET old == Purgeable(cutoff) IN
    /\ At(c, "idle")
    /\ old # {}
    /\ \A e \in old : e.time <= now - Floor
    /\ log' = log \ old
    /\ removed' = removed \cup {e.id : e \in old}
    /\ event' = [event EXCEPT ![c].kind = "purged"]
    /\ Goto(c, "purged")
    /\ Crowd(c)
    /\ UNCHANGED <<now, disturbed, unrecorded>>

Tick ==
    /\ now < MaxTime
    /\ now' = now + 1
    /\ UNCHANGED <<log, pc, event, history>>

Step(c) ==
    \/ \E stamp \in 1 .. now : StoreAppend(c, stamp)
    \/ AppendPurge(c) \/ ReadLast(c)
    \/ \E id \in Ids : Insert(c, id)
    \/ AppendFails(c)
    \/ \E cutoff \in 1 .. now - 1 : Purge(c, cutoff)

Next == Tick \/ \E c \in Callers : Step(c)

Spec == Init /\ [][Next]_vars

-----------------------------------------------------------------------------
(* Properties.                                                             *)

TypeOK ==
    /\ log \subseteq Event
    /\ now \in 1 .. MaxTime
    /\ pc \in [Callers -> {"idle", "purged", "last", "insert"}]
    /\ event \in [Callers -> [stamp : 1 .. MaxTime, prev : Ids \cup {NoHash},
                              kind : {"event", "purged"}]]
    /\ removed \subseteq Ids /\ disturbed \subseteq Ids
    /\ crowded \in [Callers -> BOOLEAN] /\ unrecorded \in BOOLEAN

\* Neighbours of the trail verify, whatever was purged, unless one of them was
\* disturbed: appended by a call that overlapped another (two Appends that read the
\* same last event), with a time that sorts it before or beside an older event, or
\* with a time that loses digits in the database (Append, VerifyChain, Purge).
BreaksAreLocal ==
    LET events == ListAll IN
    \A i \in 1 .. Len(events) - 1 :
        \/ {events[i].id, events[i + 1].id} \cap disturbed # {}
        \/ VerifyChain(SubSeq(events, i, i + 1))

\* However appends and purges overlap, a trail that has lost events says so, unless
\* the call that removed them failed or has yet to append (Purge).
PurgeIsRecorded ==
    removed # {} =>
        \/ unrecorded
        \/ \E e \in log : e.kind = "purged"
        \/ \E c \in Callers : event[c].kind = "purged"

=============================================================================
