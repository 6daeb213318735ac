--------------------------- MODULE CaseLifecycle ---------------------------
(***************************************************************************)
(* packages/caselifecycle: one case row, its transition log, and the       *)
(* request handlers that change them.                                      *)
(*                                                                         *)
(* Every handler is a read-modify-write: Repository.Get returns a clone,   *)
(* the handler checks and edits the clone, Repository.Update writes the    *)
(* whole row back, and Transition, Reopen and Archive then append a        *)
(* TransitionRecord with a separate call.  No lock, transaction or version *)
(* test spans these calls, so handlers of different requests interleave    *)
(* between any two of them, and a request may fail or its process may die  *)
(* at each of them.                                                        *)
(***************************************************************************)
EXTENDS Naturals

CONSTANTS
    Workers,    \* request handlers that may run at the same time
    Keys,       \* metadata keys
    MaxOps,     \* bound: number of requests that get past their checks
    NoRecord,   \* what a metadata update appends to the log
    NoCase      \* what an idle handler holds for a copy of the row

ASSUME MaxOpsAssumption == MaxOps \in Nat

VARIABLES
    store,      \* the case row held by the Repository
    log,        \* the TransitionRecords held by the Repository
    clock,      \* source of OccurredAt; also counts the requests admitted
    pc,         \* where each handler stands: idle, update, append
    clone,      \* the handler's edited copy of the row
    entry,      \* the TransitionRecord the handler will append
    stale,      \* history: the row was written since this handler read it
    contended,  \* history: some handler wrote from a stale copy
    lost,       \* history: some record was never appended
    seen        \* history: every State the row has held

repoVars == <<store, log>>
localVars == <<pc, clone, entry>>
historyVars == <<stale, contended, lost, seen>>
vars == <<store, log, clock, localVars, historyVars>>

-----------------------------------------------------------------------------
(* The state machine.                                                      *)

State == {"draft", "active", "under_review", "closed", "archived"}

allowedTransitions ==
    [ draft        |-> {"active"},
      active       |-> {"under_review"},
      under_review |-> {"closed", "active"},
      closed       |-> {},
      archived     |-> {} ]

\* A defect: the table is not consulted.
CanTransition_Unchecked(from, to) == from # "archived"

CanTransition(from, to) == to \in allowedTransitions[from]

\* The edges of the documented diagram, Reopen's and Archive's included.
LifecycleEdge(from, to) ==
    \/ to \in allowedTransitions[from]
    \/ from = "closed" /\ to \in {"active", "archived"}

Reasons == {"blank", "given"}

\* A row.  Identity, tenant and descriptive fields never change here, and of
\* the metadata map only the set of its keys is kept.
Case == [ state : State, metadata : SUBSET Keys,
          metadataVersion : Nat, archivedAt : BOOLEAN ]

TransitionRecord == [ from : State, to : State, reason : Reasons, at : Nat ]

ASSUME NoRecordAssumption == NoRecord \notin TransitionRecord

ASSUME NoCaseAssumption == NoCase \notin Case

-----------------------------------------------------------------------------
(* Requests.  A handler's checks read the row and nothing else, so they    *)
(* are one step with its Get; a request that fails a check changes         *)
(* nothing and is not a step.                                              *)

NewCase(metadata) ==
    [ state |-> "draft", metadata |-> metadata,
      metadataVersion |-> 1, archivedAt |-> FALSE ]

Init ==
    /\ \E keys \in SUBSET Keys : store = NewCase(keys)
    /\ log = {}
    /\ clock = 0
    /\ pc = [w \in Workers |-> "idle"]
    /\ clone = [w \in Workers |-> NoCase]
    /\ entry = [w \in Workers |-> NoRecord]
    /\ stale = [w \in Workers |-> FALSE]
    /\ contended = FALSE
    /\ lost = FALSE
    /\ seen = {"draft"}

\* Handler w has passed its checks: it holds the edited copy c and will log r.
Admit(w, c, r) ==
    /\ pc[w] = "idle"
    /\ clock < MaxOps
    /\ clock' = clock + 1
    /\ pc' = [pc EXCEPT ![w] = "update"]
    /\ clone' = [clone EXCEPT ![w] = c]
    /\ entry' = [entry EXCEPT ![w] = r]
    /\ stale' = [stale EXCEPT ![w] = FALSE]
    /\ UNCHANGED <<repoVars, contended, lost, seen>>

\* The record a handler builds; OccurredAt is read just after the Get.
Record(from, to, reason) ==
    [from |-> from, to |-> to, reason |-> reason, at |-> clock + 1]

\* A defect: FromState is taken after c.State has been assigned.
Transition_FromAfterAssign(w, to, reason) ==
    /\ CanTransition(store.state, to)
    /\ Admit(w, [store EXCEPT !.state = to], Record(to, to, reason))

Transition(w, to, reason) ==
    /\ CanTransition(store.state, to)
    /\ Admit(w, [store EXCEPT !.state = to],
             Record(store.state, to, reason))

\* A defect: the justification is not required.
Reopen_Silent(w, reason) ==
    /\ store.state = "closed"
    /\ Admit(w, [store EXCEPT !.state = "active"],
             Record("closed", "active", reason))

Reopen(w, justification) ==
    /\ justification # "blank"
    /\ store.state = "closed"
    /\ Admit(w, [store EXCEPT !.state = "active"],
             Record("closed", "active", justification))

\* A defect: ArchivedAt is not stamped.
Archive_NoStamp(w, reason) ==
    /\ store.state = "closed"
    /\ Admit(w, [store EXCEPT !.state = "archived"],
             Record("closed", "archived", reason))

Archive(w, reason) ==
    /\ store.state = "closed"
    /\ Admit(w, [store EXCEPT !.state = "archived", !.archivedAt = TRUE],
             Record("closed", "archived", reason))

\* MergeMetadata overlays the keys, SetMetadata replaces the map.
NewMetadata(metadata, keys, merge) ==
    IF merge THEN metadata \cup keys ELSE keys

\* A defect: the version is not bumped.
updateMetadata_NoBump(w, keys, merge, version) ==
    /\ version # 0 => version = store.metadataVersion
    /\ Admit(w, [store EXCEPT !.metadata = NewMetadata(@, keys, merge)],
             NoRecord)

\* A defect: the new version counts from ExpectedVersion, not from the row.
updateMetadata_FromExpected(w, keys, merge, version) ==
    /\ version # 0 => version = store.metadataVersion
    /\ Admit(w, [store EXCEPT !.metadata = NewMetadata(@, keys, merge),
                             !.metadataVersion = version + 1],
             NoRecord)

\* SetMetadata (merge = FALSE) and MergeMetadata (merge = TRUE).  No state is
\* refused here: consulting CanPerform first is left to the callers.
updateMetadata(w, keys, merge, version) ==
    /\ version # 0 => version = store.metadataVersion
    /\ Admit(w, [store EXCEPT !.metadata = NewMetadata(@, keys, merge),
                             !.metadataVersion = @ + 1],
             NoRecord)

-----------------------------------------------------------------------------
(* The repository calls that follow, and the ways they fail.               *)

Finish(w) ==
    /\ pc' = [pc EXCEPT ![w] = "idle"]
    /\ entry' = [entry EXCEPT ![w] = NoRecord]

\* A defect: a metadata update goes on to append a record as well.
Update_AlwaysAppends(w) ==
    /\ pc[w] = "update"
    /\ store' = clone[w]
    /\ pc' = [pc EXCEPT ![w] = "append"]
    /\ clone' = [clone EXCEPT ![w] = NoCase]
    /\ stale' = [v \in Workers |-> v # w /\ pc[v] = "update"]
    /\ contended' = (contended \/ stale[w])
    /\ seen' = seen \cup {clone[w].state}
    /\ UNCHANGED <<log, clock, entry, lost>>

\* Repository.Update overwrites the row with the copy, whatever it holds now.
Update(w) ==
    /\ pc[w] = "update"
    /\ store' = clone[w]
    /\ IF entry[w] = NoRecord
         THEN Finish(w)
         ELSE pc' = [pc EXCEPT ![w] = "append"] /\ UNCHANGED entry
    /\ clone' = [clone EXCEPT ![w] = NoCase]
    /\ stale' = [v \in Workers |-> v # w /\ pc[v] = "update"]
    /\ contended' = (contended \/ stale[w])
    /\ seen' = seen \cup {clone[w].state}
    /\ UNCHANGED <<log, clock, lost>>

AppendTransition(w) ==
    /\ pc[w] = "append"
    /\ log' = log \cup {entry[w]}
    /\ Finish(w)
    /\ UNCHANGED <<store, clock, clone, historyVars>>

\* A defect: an Update that failed is logged all the same.
Fail_LogsAnyway(w) ==
    /\ pc[w] = "update"
    /\ entry[w] # NoRecord
    /\ pc' = [pc EXCEPT ![w] = "append"]
    /\ clone' = [clone EXCEPT ![w] = NoCase]
    /\ UNCHANGED <<repoVars, clock, entry, historyVars>>

\* The pending call returns an error, its context ends, or the process dies:
\* the handler gives up and nothing of what it did is undone.
Fail(w) ==
    /\ pc[w] # "idle"
    /\ Finish(w)
    /\ clone' = [clone EXCEPT ![w] = NoCase]
    /\ stale' = [stale EXCEPT ![w] = FALSE]
    /\ lost' = (lost \/ pc[w] = "append")
    /\ UNCHANGED <<repoVars, clock, contended, seen>>

Step(w) ==
    \/ \E to \in State, reason \in Reasons : Transition(w, to, reason)
    \/ \E reason \in Reasons : Reopen(w, reason)
    \/ \E reason \in Reasons : Archive(w, reason)
    \/ \E keys \in SUBSET Keys, merge \in BOOLEAN, version \in 0 .. MaxOps + 1 :
          updateMetadata(w, keys, merge, version)
    \/ Update(w)
    \/ AppendTransition(w)
    \/ Fail(w)

Next == \E w \in Workers : Step(w)

Spec == Init /\ [][Next]_vars

-----------------------------------------------------------------------------
(* Invariants.                                                             *)

HandlerHolds(w) ==
    /\ pc[w] = "update" => clone[w] \in Case
    /\ pc[w] = "append" => entry[w] \in TransitionRecord

\* Every variable has its type, and a handler holds at each point what its next
\* call needs: the edited copy before Update, the record before AppendTransition.
TypeOK ==
    /\ store \in Case
    /\ log \subseteq TransitionRecord
    /\ clock \in 0 .. MaxOps
    /\ pc \in [Workers -> {"idle", "update", "append"}]
    /\ clone \in [Workers -> Case \cup {NoCase}]
    /\ entry \in [Workers -> TransitionRecord \cup {NoRecord}]
    /\ stale \in [Workers -> BOOLEAN]
    /\ contended \in BOOLEAN
    /\ lost \in BOOLEAN
    /\ seen \subseteq State
    /\ \A w \in Workers : HandlerHolds(w)

\* However handlers overlap, the row carries an archival date exactly when it
\* is archived: Update writes the whole row, never State without ArchivedAt.
ArchivedStamped == (store.state = "archived") <=> store.archivedAt

\* However handlers overlap or fail, no case reaches a state without having
\* held the states the diagram puts before it: none is closed that was never
\* under review, none archived that was never closed.
NoStageSkipped ==
    /\ "under_review" \in seen => "active" \in seen
    /\ "closed" \in seen => "under_review" \in seen
    /\ "archived" \in seen => "closed" \in seen

\* The transition log never claims what did not happen: each record is an edge
\* of the diagram between two states the row held, and a record of a reopening
\* carries its justification.
LogIsTruthful ==
    \A r \in log :
        /\ LifecycleEdge(r.from, r.to)
        /\ {r.from, r.to} \subseteq seen
        /\ r.from = "closed" /\ r.to = "active" => r.reason # "blank"

\* q is the record that History lists just before r.
Precedes(q, r, records) ==
    /\ q \in records /\ q.at < r.at
    /\ ~ \E x \in records : q.at < x.at /\ x.at < r.at

\* records, in the order of OccurredAt, lead from draft to state.
LeadsTo(records, state) ==
    /\ \A r \in records :
          \/ r.from = "draft" /\ \A q \in records : q.at >= r.at
          \/ \E q \in records : Precedes(q, r, records) /\ q.to = r.from
    /\ \/ records = {} /\ state = "draft"
       \/ \E r \in records : r.to = state /\ \A q \in records : q.at <= r.at

\* As long as no handler wrote from a stale copy and no append failed, History
\* (the log ordered by OccurredAt) replays to the state of the row, even though
\* records are appended in another order than the rows were written.
HistoryReplaysState ==
    ~contended /\ ~lost /\ (\A w \in Workers : pc[w] # "append")
        => LeadsTo(log, store.state)

-----------------------------------------------------------------------------
(* Action properties.                                                      *)

\* What one accepted request may do to a row.
LegalWrite(c, d) ==
    \/ /\ LifecycleEdge(c.state, d.state)
       /\ d = [c EXCEPT !.state = d.state, !.archivedAt = d.archivedAt]
    \/ /\ d.metadataVersion = c.metadataVersion + 1
       /\ d = [c EXCEPT !.metadata = d.metadata,
                        !.metadataVersion = d.metadataVersion]

\* A handler whose copy is not stale changes the row along one edge of the
\* diagram, or changes the metadata and bumps its version, and nothing else:
\* every departure from the diagram is due to a write from a stale copy.
UncontendedWritesAreLegal ==
    [][ \A w \in Workers :
          pc[w] = "update" /\ ~stale[w] /\ Update(w)
              => LegalWrite(store, store') ]_vars

-----------------------------------------------------------------------------
(* Refinement.                                                             *)

Atomic == INSTANCE CaseMachine WITH
    state <- store.state,
    metadata <- store.metadata,
    metadataVersion <- store.metadataVersion

\* Up to the first write from a stale copy, the row behaves as the atomic machine
\* of the documented diagram, however handlers overlap otherwise and fail.
ImplementsCaseMachine ==
    Atomic!Init /\ [][contended' \/ Atomic!Next]_(Atomic!caseVars)

-----------------------------------------------------------------------------
(* The inductive invariant behind the properties above.                    *)

\* Records written or about to be: the row already holds their ToState.
Records == log \cup {entry[w] : w \in {v \in Workers : pc[v] = "append"}}

TruthfulRecord(r) ==
    /\ LifecycleEdge(r.from, r.to)
    /\ r.from \in seen
    /\ r.from = "closed" /\ r.to = "active" => r.reason # "blank"

\* How the copy and the record of handler w relate to the row, stale or not.
CopyDerived(w) ==
    /\ pc[w] = "update" =>
          /\ (clone[w].state = "archived") <=> clone[w].archivedAt
          /\ entry[w] = NoRecord => clone[w].state \in seen
          /\ entry[w] # NoRecord => clone[w].state = entry[w].to
    /\ pc[w] = "append" => entry[w] # NoRecord /\ entry[w].to \in seen
    /\ pc[w] # "idle" /\ entry[w] # NoRecord =>
          TruthfulRecord(entry[w]) /\ entry[w].at <= clock

\* What a handler may still do to the row if nobody wrote it in between.
CopyFresh(w) ==
    pc[w] = "update" /\ ~stale[w] =>
        /\ LegalWrite(store, clone[w])
        /\ entry[w] = NoRecord => clone[w].state = store.state
        /\ entry[w] # NoRecord =>
              /\ entry[w].from = store.state
              /\ \A r \in Records : r.at < entry[w].at

HistoryInv ==
    /\ \A r \in Records : r.at <= clock
    /\ ~contended /\ ~lost => LeadsTo(Records, store.state)

IInv ==
    /\ TypeOK
    /\ store.state \in seen
    /\ ArchivedStamped
    /\ NoStageSkipped
    /\ LogIsTruthful
    /\ \A w \in Workers : CopyDerived(w) /\ CopyFresh(w)
    /\ HistoryInv

=============================================================================
