------------------------ MODULE CaseLifecycleProofs ------------------------
(***************************************************************************)
(* Proofs about CaseLifecycle, for every set of handlers and of metadata   *)
(* keys and every bound on the requests.                                   *)
(***************************************************************************)
EXTENDS CaseLifecycle, TLAPS

-----------------------------------------------------------------------------
(* Type correctness.                                                       *)

\* The steps that are not repository calls all go through Admit.
LEMMA AdmitTyped ==
    ASSUME TypeOK, NEW w \in Workers, NEW c \in Case,
           NEW r \in TransitionRecord \cup {NoRecord},
           Admit(w, c, r)
    PROVE  TypeOK'
  BY MaxOpsAssumption DEF Admit, TypeOK, repoVars, HandlerHolds

\* The record a handler builds from the state of the row is a TransitionRecord.
LEMMA RecordTyped ==
    ASSUME TypeOK, NEW from \in State, NEW to \in State,
           NEW reason \in Reasons
    PROVE  Record(from, to, reason) \in TransitionRecord
  BY DEF TypeOK, Record, TransitionRecord

\* A new case and idle handlers are well typed.
LEMMA TypeInit == Init => TypeOK
<1> SUFFICES ASSUME Init PROVE TypeOK
  OBVIOUS
<1>1. store \in Case
  BY DEF Init, NewCase, Case, State
<1>2. log = {} /\ "draft" \in State /\ seen = {"draft"}
  BY DEF Init, State
<1>3. clock \in 0 .. MaxOps
  BY MaxOpsAssumption DEF Init
<1> QED BY <1>1, <1>2, <1>3 DEF Init, TypeOK, HandlerHolds

\* Every step of every handler keeps the variables well typed.
LEMMA TypeStep == TypeOK /\ [Next]_vars => TypeOK'
<1> SUFFICES ASSUME TypeOK, [Next]_vars PROVE TypeOK'
  OBVIOUS
<1>1. CASE UNCHANGED vars
  BY <1>1 DEF TypeOK, HandlerHolds, vars, repoVars, localVars,
            historyVars
<1>2. ASSUME NEW w \in Workers, Step(w) PROVE TypeOK'
  <2>1. ASSUME NEW to \in State, NEW reason \in Reasons,
               Transition(w, to, reason)
        PROVE  TypeOK'
    <3>1. [store EXCEPT !.state = to] \in Case
      BY DEF TypeOK, Case
    <3>2. Record(store.state, to, reason) \in TransitionRecord
      BY RecordTyped DEF TypeOK, Case
    <3> QED BY <1>2, <2>1, <3>1, <3>2, AdmitTyped, MaxOpsAssumption DEF Transition
  <2>2. ASSUME NEW reason \in Reasons, Reopen(w, reason) PROVE TypeOK'
    <3>1. [store EXCEPT !.state = "active"] \in Case
      BY DEF TypeOK, Case, State
    <3>2. Record("closed", "active", reason) \in TransitionRecord
      BY RecordTyped DEF State
    <3> QED BY <1>2, <2>2, <3>1, <3>2, AdmitTyped, MaxOpsAssumption DEF Reopen
  <2>3. ASSUME NEW reason \in Reasons, Archive(w, reason) PROVE TypeOK'
    <3>1. [store EXCEPT !.state = "archived", !.archivedAt = TRUE] \in Case
      BY DEF TypeOK, Case, State
    <3>2. Record("closed", "archived", reason) \in TransitionRecord
      BY RecordTyped DEF State
    <3> QED BY <1>2, <2>3, <3>1, <3>2, AdmitTyped, MaxOpsAssumption DEF Archive
  <2>4. ASSUME NEW keys \in SUBSET Keys, NEW merge \in BOOLEAN,
               NEW version \in 0 .. MaxOps + 1,
               updateMetadata(w, keys, merge, version)
        PROVE  TypeOK'
    <3>1. NewMetadata(store.metadata, keys, merge) \in SUBSET Keys
      BY <2>4 DEF TypeOK, Case, NewMetadata
    <3>2. [store EXCEPT !.metadata = NewMetadata(@, keys, merge),
                        !.metadataVersion = @ + 1] \in Case
      <4>1. [store EXCEPT !.metadata = NewMetadata(@, keys, merge)] \in Case
        BY <3>1 DEF TypeOK, Case
      <4>2. ASSUME NEW c \in Case
            PROVE  [c EXCEPT !.metadataVersion = @ + 1] \in Case
        BY DEF Case
      <4> QED BY <4>1, <4>2, Zenon
    <3> QED BY <1>2, <2>4, <3>2, AdmitTyped, MaxOpsAssumption DEF updateMetadata
  <2>5. CASE Update(w)
    <3>3. store' \in Case /\ seen' \subseteq State
      <4>0. pc[w] = "update"
        BY <2>5 DEF Update
      <4>1. clone[w] \in Case
        BY <1>2, <4>0 DEF TypeOK, HandlerHolds
      <4>2. clone[w].state \in State
        BY <4>1 DEF Case
      <4> QED BY <2>5, <4>1, <4>2 DEF Update, TypeOK
    <3>4. /\ pc' \in [Workers -> {"idle", "update", "append"}]
          /\ entry' \in [Workers -> TransitionRecord \cup {NoRecord}]
      BY <1>2, <2>5 DEF Update, Finish, TypeOK
    <3>7. \A v \in Workers : HandlerHolds(v)'
      BY <1>2, <2>5 DEF Update, Finish, TypeOK, HandlerHolds
    <3>5. clone' \in [Workers -> Case \cup {NoCase}]
      BY <1>2, <2>5 DEF Update, TypeOK
    <3>6. /\ stale' \in [Workers -> BOOLEAN]
          /\ contended' \in BOOLEAN /\ lost' \in BOOLEAN
          /\ log' \subseteq TransitionRecord /\ clock' \in 0 .. MaxOps
      BY <1>2, <2>5 DEF Update, TypeOK
    <3> QED BY <3>3, <3>4, <3>5, <3>6, <3>7 DEF TypeOK
  <2>6. CASE AppendTransition(w)
    BY <1>2, <2>6, MaxOpsAssumption DEF AppendTransition, Finish, TypeOK, historyVars, HandlerHolds
  <2>7. CASE Fail(w)
    BY <1>2, <2>7, MaxOpsAssumption DEF Fail, Finish, TypeOK, repoVars,
                                            HandlerHolds
  <2> QED BY <1>2, <2>1, <2>2, <2>3, <2>4, <2>5, <2>6, <2>7 DEF Step
<1> QED BY <1>1, <1>2 DEF Next

\* Every reachable state is well typed: the row is a Case, the log holds
\* TransitionRecords, and each handler holds a copy of the kind it needs.
THEOREM TypeCorrect == Spec => []TypeOK
BY TypeInit, TypeStep, PTL DEF Spec

-----------------------------------------------------------------------------
(* The transition log replayed in the order of OccurredAt.                 *)

\* One more record, later than all others and starting where they lead,
\* leads on to its own ToState.
LEMMA LeadsToExtends ==
    ASSUME NEW records \in SUBSET TransitionRecord,
           NEW e \in TransitionRecord,
           LeadsTo(records, e.from),
           \A r \in records : r.at < e.at
    PROVE  LeadsTo(records \cup {e}, e.to)
<1>1. ASSUME NEW r \in records
      PROVE  \/ r.from = "draft" /\ \A q \in records \cup {e} : q.at >= r.at
             \/ \E q \in records \cup {e} :
                   Precedes(q, r, records \cup {e}) /\ q.to = r.from
  <2>1. r.at \in Nat /\ e.at \in Nat /\ r.at < e.at
    BY <1>1 DEF TransitionRecord
  <2>2. CASE r.from = "draft" /\ \A q \in records : q.at >= r.at
    BY <2>1, <2>2
  <2>3. CASE \E q \in records : Precedes(q, r, records) /\ q.to = r.from
    BY <2>1, <2>3 DEF Precedes
  <2> QED BY <1>1, <2>2, <2>3 DEF LeadsTo
<1>2. \/ e.from = "draft" /\ \A q \in records \cup {e} : q.at >= e.at
      \/ \E q \in records \cup {e} :
            Precedes(q, e, records \cup {e}) /\ q.to = e.from
  <2>1. CASE records = {} /\ e.from = "draft"
    BY <2>1 DEF TransitionRecord
  <2>2. CASE \E r \in records : r.to = e.from /\ \A q \in records : q.at <= r.at
    <3>1. PICK r \in records : r.to = e.from /\ \A q \in records : q.at <= r.at
      BY <2>2
    <3>2. Precedes(r, e, records \cup {e})
      BY <3>1 DEF Precedes, TransitionRecord
    <3> QED BY <3>1, <3>2
  <2> QED BY <2>1, <2>2 DEF LeadsTo
<1>3. \A q \in records \cup {e} : q.at <= e.at
  BY DEF TransitionRecord
<1> QED BY <1>1, <1>2, <1>3 DEF LeadsTo

-----------------------------------------------------------------------------
(* Preservation of the inductive invariant, one lemma per kind of step.    *)

\* What the four handlers establish before they go through Admit.
Admissible(c, r) ==
    /\ (c.state = "archived") <=> c.archivedAt
    /\ LegalWrite(store, c)
    /\ r = NoRecord => c.state = store.state
    /\ r # NoRecord => /\ r \in TransitionRecord
                       /\ LifecycleEdge(r.from, r.to)
                       /\ r.from = "closed" /\ r.to = "active"
                              => r.reason # "blank"
                       /\ r.from = store.state
                       /\ r.to = c.state
                       /\ r.at = clock + 1

\* A handler that passes its checks with a copy derived from the row, and with a
\* record that is none or leads on from it, keeps the invariant.
LEMMA AdmitPreserves ==
    ASSUME IInv, TypeOK', NEW w \in Workers, NEW c \in Case, NEW r,
           Admissible(c, r), Admit(w, c, r)
    PROVE  IInv'
<1>1. /\ store' = store /\ log' = log /\ seen' = seen
      /\ contended' = contended /\ lost' = lost
      /\ clock \in Nat /\ clock' = clock + 1
  BY DEF Admit, repoVars, IInv, TypeOK
<1>2. Records' = Records
  <2>1. \A v \in Workers : pc'[v] = "append" <=> pc[v] = "append"
    BY DEF Admit, IInv, TypeOK
  <2>2. \A v \in Workers : pc[v] = "append" => entry'[v] = entry[v]
    BY DEF Admit, IInv, TypeOK
  <2> QED BY <1>1, <2>1, <2>2 DEF Records
<1>3. /\ (store.state \in seen)' /\ ArchivedStamped' /\ NoStageSkipped'
      /\ LogIsTruthful'
  BY <1>1 DEF IInv, ArchivedStamped, NoStageSkipped, LogIsTruthful
<1>4. HistoryInv'
  <2>1. \A x \in Records : x.at \in Nat
    BY DEF Records, IInv, TypeOK, HandlerHolds, TransitionRecord
  <2>2. \A x \in Records : x.at <= clock'
    BY <1>1, <2>1 DEF IInv, HistoryInv
  <2> QED BY <1>1, <1>2, <2>2 DEF IInv, HistoryInv
<1>5. ASSUME NEW v \in Workers PROVE CopyDerived(v)' /\ CopyFresh(v)'
  <2>1. CASE v = w
    <3>1. /\ pc'[v] = "update" /\ clone'[v] = c /\ entry'[v] = r
          /\ stale'[v] = FALSE
      BY <2>1 DEF Admit, IInv, TypeOK
    <3>2. CopyDerived(v)'
      BY <1>1, <3>1 DEF CopyDerived, TruthfulRecord, Admissible, IInv
    <3>3. r # NoRecord => \A x \in Records : x.at < r.at
      <4>1. \A x \in Records : x.at \in Nat /\ x.at <= clock
        BY DEF Records, IInv, TypeOK, HandlerHolds, TransitionRecord,
               HistoryInv
      <4> QED BY <1>1, <4>1 DEF Admissible
    <3> QED BY <1>1, <1>2, <3>1, <3>2, <3>3 DEF CopyFresh, Admissible
  <2>2. CASE v # w
    <3>1. /\ pc'[v] = pc[v] /\ clone'[v] = clone[v]
          /\ entry'[v] = entry[v] /\ stale'[v] = stale[v]
      BY <2>2 DEF Admit, IInv, TypeOK
    <3>2. CopyDerived(v) /\ CopyFresh(v)
      BY DEF IInv
    <3>3. pc[v] # "idle" /\ entry[v] # NoRecord => entry[v].at \in Nat
      BY DEF IInv, TypeOK, TransitionRecord
    <3>4. CopyDerived(v)'
      BY <1>1, <3>1, <3>2, <3>3 DEF CopyDerived, TruthfulRecord
    <3> QED BY <1>1, <1>2, <3>1, <3>2, <3>4 DEF CopyFresh
  <2> QED BY <2>1, <2>2
<1> QED BY <1>3, <1>4, <1>5 DEF IInv

\* Writing the row back keeps the invariant: a fresh copy extends the history by
\* one step, and a stale one sets contended.
LEMMA UpdatePreserves ==
    ASSUME IInv, TypeOK', NEW w \in Workers, Update(w)
    PROVE  IInv'
<1>1. /\ pc[w] = "update" /\ store' = clone[w] /\ log' = log
      /\ seen' = seen \cup {clone[w].state} /\ clock' = clock
      /\ lost' = lost /\ (contended' <=> contended \/ stale[w])
  BY DEF Update, IInv, TypeOK
<1>2. CopyDerived(w) /\ CopyFresh(w)
  BY DEF IInv
<1>3. (store.state \in seen)' /\ ArchivedStamped'
  BY <1>1, <1>2 DEF CopyDerived, ArchivedStamped
<1>4. NoStageSkipped'
  <2>1. CASE entry[w] = NoRecord
    BY <1>1, <1>2, <2>1 DEF CopyDerived, NoStageSkipped, IInv
  <2>2. CASE entry[w] # NoRecord
    <3>1. /\ clone[w].state = entry[w].to /\ entry[w].from \in seen
          /\ LifecycleEdge(entry[w].from, entry[w].to)
      BY <1>1, <1>2, <2>2 DEF CopyDerived, TruthfulRecord
    <3>2. entry[w].from \in State /\ entry[w].to \in State
      BY <2>2 DEF IInv, TypeOK, TransitionRecord
    <3>3. /\ entry[w].to = "under_review" => entry[w].from = "active"
          /\ entry[w].to = "closed" => entry[w].from = "under_review"
          /\ entry[w].to = "archived" => entry[w].from = "closed"
      BY <3>1, <3>2 DEF LifecycleEdge, allowedTransitions, State
    <3> QED BY <1>1, <3>1, <3>3 DEF NoStageSkipped, IInv
  <2> QED BY <2>1, <2>2
<1>5. LogIsTruthful'
  BY <1>1 DEF LogIsTruthful, IInv
<1>6. /\ \A v \in Workers : v # w => /\ pc'[v] = pc[v] /\ clone'[v] = clone[v]
                                     /\ entry'[v] = entry[v]
                                     /\ pc[v] = "update" => stale'[v] = TRUE
      /\ entry[w] = NoRecord => pc'[w] = "idle"
      /\ entry[w] # NoRecord => pc'[w] = "append" /\ entry'[w] = entry[w]
  <2>1. /\ clone' = [clone EXCEPT ![w] = NoCase]
        /\ stale' = [v \in Workers |-> v # w /\ pc[v] = "update"]
        /\ entry[w] = NoRecord => Finish(w)
        /\ entry[w] # NoRecord => pc' = [pc EXCEPT ![w] = "append"] /\ entry' = entry
    BY DEF Update
  <2>2. \A v \in Workers : v # w => /\ clone'[v] = clone[v]
                                    /\ pc[v] = "update" => stale'[v] = TRUE
    BY <2>1 DEF IInv, TypeOK
  <2>3. CASE entry[w] = NoRecord
    <3>1. /\ pc' = [pc EXCEPT ![w] = "idle"]
          /\ entry' = [entry EXCEPT ![w] = NoRecord]
      BY <2>1, <2>3 DEF Finish
    <3> QED BY <2>2, <2>3, <3>1 DEF IInv, TypeOK
  <2>4. CASE entry[w] # NoRecord
    BY <2>1, <2>2, <2>4 DEF IInv, TypeOK
  <2> QED BY <2>3, <2>4
<1>7. Records' = IF entry[w] = NoRecord THEN Records
                                        ELSE Records \cup {entry[w]}
  <2>1. CASE entry[w] = NoRecord
    <3>1. \A v \in Workers : pc'[v] = "append" <=> pc[v] = "append"
      BY <1>1, <1>6, <2>1
    <3>2. \A v \in Workers : pc[v] = "append" => entry'[v] = entry[v]
      BY <1>1, <1>6
    <3> QED BY <1>1, <2>1, <3>1, <3>2 DEF Records
  <2>2. CASE entry[w] # NoRecord
    <3>1. \A v \in Workers : pc'[v] = "append" <=> pc[v] = "append" \/ v = w
      BY <1>1, <1>6, <2>2
    <3>2. \A v \in Workers : pc'[v] = "append" => entry'[v] = entry[v]
      BY <1>1, <1>6, <2>2
    <3> QED BY <1>1, <2>2, <3>1, <3>2 DEF Records
  <2> QED BY <2>1, <2>2
<1>8. Records \subseteq TransitionRecord
  BY DEF Records, IInv, TypeOK, HandlerHolds
<1>9. HistoryInv'
  <2>1. entry[w] # NoRecord =>
          entry[w] \in TransitionRecord /\ entry[w].at <= clock
    BY <1>1, <1>2 DEF CopyDerived, IInv, TypeOK
  <2>2. \A r \in Records' : r.at <= clock'
    BY <1>1, <1>7, <2>1 DEF IInv, HistoryInv
  <2>3. ASSUME ~contended', ~lost' PROVE LeadsTo(Records, store.state)'
    <3>1. ~contended /\ ~stale[w] /\ LeadsTo(Records, store.state)
      BY <1>1, <2>3 DEF IInv, HistoryInv
    <3>2. CASE entry[w] = NoRecord
      BY <1>1, <1>2, <1>7, <3>1, <3>2 DEF CopyFresh, LeadsTo, Precedes
    <3>3. CASE entry[w] # NoRecord
      <4>1. /\ LeadsTo(Records, entry[w].from)
            /\ \A r \in Records : r.at < entry[w].at
            /\ store'.state = entry[w].to
        BY <1>1, <1>2, <3>1, <3>3 DEF CopyFresh, CopyDerived
      <4>2. LeadsTo(Records \cup {entry[w]}, entry[w].to)
        BY <1>8, <2>1, <3>3, <4>1, LeadsToExtends
      <4> QED BY <1>7, <3>3, <4>1, <4>2 DEF LeadsTo, Precedes
    <3> QED BY <3>2, <3>3
  <2> QED BY <2>2, <2>3 DEF HistoryInv
<1>10. ASSUME NEW v \in Workers PROVE CopyDerived(v)' /\ CopyFresh(v)'
  <2>1. CASE v = w
    <3>1. pc'[w] # "update"
      BY <1>6
    <3>2. CopyDerived(w)'
      BY <1>1, <1>2, <1>6, <3>1 DEF CopyDerived, TruthfulRecord
    <3> QED BY <2>1, <3>1, <3>2 DEF CopyFresh
  <2>2. CASE v # w
    <3>1. CopyDerived(v)
      BY DEF IInv
    <3>2. CopyDerived(v)'
      BY <1>1, <1>6, <2>2, <3>1 DEF CopyDerived, TruthfulRecord
    <3> QED BY <1>6, <2>2, <3>2 DEF CopyFresh
  <2> QED BY <2>1, <2>2
<1> QED BY <1>3, <1>4, <1>5, <1>9, <1>10 DEF IInv

\* Appending a record moves it from the handler into the log and changes nothing
\* in what Records holds.
LEMMA AppendPreserves ==
    ASSUME IInv, TypeOK', NEW w \in Workers, AppendTransition(w)
    PROVE  IInv'
<1>1. /\ pc[w] = "append" /\ log' = log \cup {entry[w]} /\ store' = store
      /\ clock' = clock /\ seen' = seen /\ stale' = stale /\ lost' = lost
      /\ contended' = contended /\ clone' = clone
  BY DEF AppendTransition, historyVars
<1>2. /\ pc'[w] = "idle"
      /\ \A v \in Workers : v # w => pc'[v] = pc[v] /\ entry'[v] = entry[v]
  BY DEF AppendTransition, Finish, IInv, TypeOK
<1>3. Records' = Records
  <2>1. \A v \in Workers : pc'[v] = "append" <=> pc[v] = "append" /\ v # w
    BY <1>1, <1>2
  <2> QED BY <1>1, <1>2, <2>1 DEF Records
<1>4. /\ (store.state \in seen)' /\ ArchivedStamped' /\ NoStageSkipped'
      /\ HistoryInv'
  BY <1>1, <1>3 DEF IInv, ArchivedStamped, NoStageSkipped, HistoryInv,
                    LeadsTo, Precedes
<1>5. LogIsTruthful'
  <2>1. entry[w] # NoRecord /\ TruthfulRecord(entry[w]) /\ entry[w].to \in seen
    BY <1>1 DEF IInv, CopyDerived
  <2> QED BY <1>1, <2>1 DEF IInv, LogIsTruthful, TruthfulRecord
<1>6. ASSUME NEW v \in Workers PROVE CopyDerived(v)' /\ CopyFresh(v)'
  <2>1. CASE v = w
    BY <1>2, <2>1 DEF CopyDerived, CopyFresh
  <2>2. CASE v # w
    <3>1. CopyDerived(v) /\ CopyFresh(v)
      BY DEF IInv
    <3> QED BY <1>1, <1>2, <1>3, <2>2, <3>1 DEF CopyDerived, CopyFresh,
                                                TruthfulRecord
  <2> QED BY <2>1, <2>2
<1> QED BY <1>4, <1>5, <1>6 DEF IInv

\* A handler that gives up keeps the invariant: before Update nothing was
\* written, and after it the loss of the record is noted.
LEMMA FailPreserves ==
    ASSUME IInv, TypeOK', NEW w \in Workers, Fail(w)
    PROVE  IInv'
<1>1. /\ log' = log /\ store' = store /\ clock' = clock /\ seen' = seen
      /\ contended' = contended /\ (lost' <=> lost \/ pc[w] = "append")
  BY DEF Fail, repoVars, IInv, TypeOK
<1>2. /\ pc'[w] = "idle"
      /\ \A v \in Workers : v # w => /\ pc'[v] = pc[v] /\ entry'[v] = entry[v]
                                     /\ clone'[v] = clone[v]
                                     /\ stale'[v] = stale[v]
  BY DEF Fail, Finish, IInv, TypeOK
<1>3. Records' \subseteq Records
  BY <1>1, <1>2 DEF Records
<1>4. ~lost' => Records' = Records
  BY <1>1, <1>2 DEF Records
<1>5. /\ (store.state \in seen)' /\ ArchivedStamped' /\ NoStageSkipped'
      /\ LogIsTruthful' 
  BY <1>1 DEF IInv, ArchivedStamped, NoStageSkipped, LogIsTruthful
<1>6. HistoryInv'
  BY <1>1, <1>3, <1>4 DEF IInv, HistoryInv, LeadsTo, Precedes
<1>7. ASSUME NEW v \in Workers PROVE CopyDerived(v)' /\ CopyFresh(v)'
  <2>1. CASE v = w
    BY <1>2, <2>1 DEF CopyDerived, CopyFresh
  <2>2. CASE v # w
    <3>1. CopyDerived(v) /\ CopyFresh(v)
      BY DEF IInv
    <3> QED BY <1>1, <1>2, <1>3, <2>2, <3>1 DEF CopyDerived, CopyFresh,
                                                TruthfulRecord
  <2> QED BY <2>1, <2>2
<1> QED BY <1>5, <1>6, <1>7 DEF IInv

-----------------------------------------------------------------------------
(* The theorems.                                                           *)

\* A new case satisfies the invariant.
LEMMA InvInit == Init => IInv
<1> SUFFICES ASSUME Init PROVE IInv
  OBVIOUS
<1>1. TypeOK
  BY TypeInit
<1>2. /\ store.state = "draft" /\ store.archivedAt = FALSE
      /\ seen = {"draft"} /\ log = {}
  BY DEF Init, NewCase
<1>3. \A w \in Workers : pc[w] = "idle"
  BY DEF Init
<1>4. Records = {}
  BY <1>2, <1>3 DEF Records
<1>5. \A w \in Workers : CopyDerived(w) /\ CopyFresh(w)
  BY <1>3 DEF CopyDerived, CopyFresh
<1>6. store.state \in seen /\ ArchivedStamped /\ NoStageSkipped
  BY <1>2 DEF ArchivedStamped, NoStageSkipped
<1>7. LogIsTruthful /\ HistoryInv
  BY <1>2, <1>4 DEF LogIsTruthful, HistoryInv, LeadsTo
<1> QED BY <1>1, <1>5, <1>6, <1>7 DEF IInv

\* Every step of every handler keeps the invariant.
LEMMA InvStep == IInv /\ [Next]_vars => IInv'
<1> SUFFICES ASSUME IInv, [Next]_vars PROVE IInv'
  OBVIOUS
<1>1. TypeOK'
  BY TypeStep DEF IInv
<1>2. CASE UNCHANGED vars
  <2>1. /\ store' = store /\ log' = log /\ clock' = clock /\ pc' = pc
        /\ clone' = clone /\ entry' = entry /\ stale' = stale
        /\ contended' = contended /\ lost' = lost /\ seen' = seen
    BY <1>2 DEF vars, repoVars, localVars, historyVars
  <2>2. Records' = Records
    BY <2>1 DEF Records
  <2>3. /\ (store.state \in seen)' /\ ArchivedStamped' /\ NoStageSkipped'
        /\ LogIsTruthful'
    BY <2>1 DEF IInv, ArchivedStamped, NoStageSkipped, LogIsTruthful
  <2>4. HistoryInv'
    BY <2>1, <2>2 DEF IInv, HistoryInv, LeadsTo, Precedes
  <2>5. ASSUME NEW w \in Workers PROVE CopyDerived(w)' /\ CopyFresh(w)'
    BY <2>1, <2>2 DEF IInv, CopyDerived, CopyFresh, TruthfulRecord
  <2> QED BY <1>1, <2>3, <2>4, <2>5 DEF IInv
<1>3. ASSUME NEW w \in Workers, Step(w) PROVE IInv'
  <2>0. store \in Case /\ clock \in Nat
    BY DEF IInv, TypeOK
  <2>1. ASSUME NEW to \in State, NEW reason \in Reasons,
               Transition(w, to, reason)
        PROVE  IInv'
    <3> DEFINE c == [store EXCEPT !.state = to]
               r == Record(store.state, to, reason)
    <3>1. c \in Case
      BY <2>0 DEF Case
    <3>2. to # "archived" /\ store.state # "archived" /\ store.state # "closed"
          /\ LifecycleEdge(store.state, to)
      BY <2>0, <2>1 DEF Transition, CanTransition, LifecycleEdge,
                        allowedTransitions, Case, State
    <3>3. r \in TransitionRecord
      BY <2>0, RecordTyped DEF IInv, Case
    <3>4. Admissible(c, r)
      BY <2>0, <3>2, <3>3, NoRecordAssumption
         DEF Admissible, LegalWrite, Record, IInv, ArchivedStamped, Case
    <3> QED BY <1>1, <2>1, <3>1, <3>4, AdmitPreserves DEF Transition
  <2>2. ASSUME NEW reason \in Reasons, Reopen(w, reason) PROVE IInv'
    <3> DEFINE c == [store EXCEPT !.state = "active"]
               r == Record("closed", "active", reason)
    <3>1. c \in Case
      BY <2>0 DEF Case, State
    <3>2. r \in TransitionRecord
      BY RecordTyped DEF IInv, State
    <3>3. Admissible(c, r)
      BY <2>0, <2>2, <3>2, NoRecordAssumption
         DEF Admissible, LegalWrite, LifecycleEdge, Record, Reopen, IInv,
             ArchivedStamped, Case
    <3> QED BY <1>1, <2>2, <3>1, <3>3, AdmitPreserves DEF Reopen
  <2>3. ASSUME NEW reason \in Reasons, Archive(w, reason) PROVE IInv'
    <3> DEFINE c == [store EXCEPT !.state = "archived", !.archivedAt = TRUE]
               r == Record("closed", "archived", reason)
    <3>1. c \in Case
      BY <2>0 DEF Case, State
    <3>2. r \in TransitionRecord
      BY RecordTyped DEF IInv, State
    <3>3. Admissible(c, r)
      BY <2>0, <2>3, <3>2, NoRecordAssumption
         DEF Admissible, LegalWrite, LifecycleEdge, Record, Archive, Case
    <3> QED BY <1>1, <2>3, <3>1, <3>3, AdmitPreserves DEF Archive
  <2>4. ASSUME NEW keys \in SUBSET Keys, NEW merge \in BOOLEAN,
               NEW version \in 0 .. MaxOps + 1,
               updateMetadata(w, keys, merge, version)
        PROVE  IInv'
    <3> DEFINE m == NewMetadata(store.metadata, keys, merge)
               c == [store EXCEPT !.metadata = NewMetadata(@, keys, merge),
                                  !.metadataVersion = @ + 1]
    <3>1. m \in SUBSET Keys
      BY <2>0, <2>4 DEF Case, NewMetadata
    <3>2. c \in Case
      <4>1. [store EXCEPT !.metadata = NewMetadata(@, keys, merge)] \in Case
        BY <2>0, <3>1 DEF Case
      <4>2. ASSUME NEW d \in Case
            PROVE  [d EXCEPT !.metadataVersion = @ + 1] \in Case
        BY DEF Case
      <4> QED BY <4>1, <4>2, Zenon
    <3>3. /\ c.state = store.state /\ c.archivedAt = store.archivedAt
          /\ c.metadataVersion = store.metadataVersion + 1
          /\ c.metadata = m
          /\ c = [store EXCEPT !.metadata = c.metadata,
                               !.metadataVersion = c.metadataVersion]
      BY <2>0 DEF Case
    <3>4. LegalWrite(store, c)
      BY <3>3 DEF LegalWrite
    <3>5. Admissible(c, NoRecord)
      BY <3>3, <3>4 DEF Admissible, IInv, ArchivedStamped
    <3> HIDE DEF c, m
    <3> QED BY <1>1, <2>4, <3>2, <3>5, AdmitPreserves DEF updateMetadata, c
  <2> QED BY <1>1, <1>3, <2>1, <2>2, <2>3, <2>4, UpdatePreserves,
             AppendPreserves, FailPreserves DEF Step
<1> QED BY <1>2, <1>3 DEF Next

\* The invariant holds in every reachable state.
LEMMA InvHolds == Spec => []IInv
BY InvInit, InvStep, PTL DEF Spec

\* A row is stamped with an archival date exactly when it is archived, however
\* many handlers overlap and wherever they fail.
THEOREM ArchivedStampedHolds == Spec => []ArchivedStamped
BY InvHolds, PTL DEF IInv

\* No case reaches a state before the states that the diagram puts before it,
\* however many handlers write from stale copies.
THEOREM NoStageSkippedHolds == Spec => []NoStageSkipped
BY InvHolds, PTL DEF IInv

\* The transition log records only edges that were taken, and no reopening
\* without its justification.
THEOREM LogIsTruthfulHolds == Spec => []LogIsTruthful
BY InvHolds, PTL DEF IInv

\* Without stale writes and lost records, History replays to the row's state.
THEOREM HistoryReplaysStateHolds == Spec => []HistoryReplaysState
<1>1. IInv => HistoryReplaysState
  <2> SUFFICES ASSUME IInv, ~contended, ~lost,
                      \A w \in Workers : pc[w] # "append"
               PROVE  LeadsTo(log, store.state)
    BY DEF HistoryReplaysState
  <2>1. Records = log
    BY DEF Records
  <2> QED BY <2>1 DEF IInv, HistoryInv
<1> QED BY <1>1, InvHolds, PTL

\* A handler whose copy is fresh changes the row as one accepted request may:
\* only a write from a stale copy departs from the diagram.
THEOREM UncontendedWritesLegal == Spec => UncontendedWritesAreLegal
<1>1. IInv => \A w \in Workers : pc[w] = "update" /\ ~stale[w] /\ Update(w)
                  => LegalWrite(store, store')
  BY DEF IInv, CopyFresh, Update
<1> QED BY <1>1, InvHolds, PTL DEF UncontendedWritesAreLegal

-----------------------------------------------------------------------------
(* Refinement of the atomic machine by handlers that do not overlap.       *)

\* No copy is or was stale: what a single handler is always like.
NoneStale == ~contended /\ \A w \in Workers : ~stale[w]

\* A row changed as one accepted request may change it is a step of CaseMachine.
LEMMA LegalWriteIsAtomic ==
    ASSUME store \in Case, store' \in Case, LegalWrite(store, store')
    PROVE  Atomic!Next
<1>1. CASE /\ LifecycleEdge(store.state, store'.state)
           /\ store' = [store EXCEPT !.state = store'.state,
                                     !.archivedAt = store'.archivedAt]
  <2>1. /\ store'.metadata = store.metadata
        /\ store'.metadataVersion = store.metadataVersion
    BY <1>1 DEF Case
  <2>2. store.state \in State
    BY DEF Case
  <2> QED
    BY <1>1, <2>1, <2>2
       DEF LifecycleEdge, allowedTransitions, State, Atomic!Next,
           Atomic!Activate, Atomic!Submit, Atomic!Close, Atomic!Reopen,
           Atomic!Archive, Atomic!Move
<1>2. CASE /\ store'.metadataVersion = store.metadataVersion + 1
           /\ store' = [store EXCEPT
                          !.metadata = store'.metadata,
                          !.metadataVersion = store'.metadataVersion]
  <2>1. store'.metadata \in SUBSET Keys /\ store'.state = store.state
    BY <1>2 DEF Case
  <2> QED BY <1>2, <2>1 DEF Atomic!Next, Atomic!WriteMetadata
<1> QED BY <1>1, <1>2 DEF LegalWrite

\* Up to the first write from a stale copy, the row behaves as the atomic
\* machine, however many handlers overlap and wherever they fail.
THEOREM ImplementsCaseMachineHolds == Spec => ImplementsCaseMachine
<1>1. Init => Atomic!Init
  BY DEF Init, NewCase, Atomic!Init
<1>2. IInv /\ IInv' /\ [Next]_vars
          => [contended' \/ Atomic!Next]_(Atomic!caseVars)
  <2> SUFFICES ASSUME IInv, IInv', [Next]_vars
               PROVE  [contended' \/ Atomic!Next]_(Atomic!caseVars)
    OBVIOUS
  <2>1. CASE UNCHANGED vars
    BY <2>1 DEF vars, repoVars, Atomic!caseVars
  <2>2. ASSUME NEW w \in Workers, Update(w)
        PROVE  contended' \/ Atomic!Next
    <3>1. CASE stale[w]
      BY <2>2, <3>1 DEF Update
    <3>2. CASE ~stale[w]
      <4>1. LegalWrite(store, store')
        BY <2>2, <3>2 DEF IInv, CopyFresh, Update
      <4>2. store \in Case /\ store' \in Case
        BY DEF IInv, TypeOK
      <4> QED BY <4>1, <4>2, LegalWriteIsAtomic
    <3> QED BY <3>1, <3>2
  <2>3. ASSUME NEW w \in Workers, Step(w), ~Update(w)
        PROVE  UNCHANGED Atomic!caseVars
    <3>1. store' = store
      BY <2>3 DEF Step, Transition, Reopen, Archive, updateMetadata, Admit,
                  AppendTransition, Fail, repoVars
    <3> QED BY <3>1 DEF Atomic!caseVars
  <2> QED BY <2>1, <2>2, <2>3 DEF Next
<1> QED
  BY <1>1, <1>2, InvHolds, PTL DEF Spec, ImplementsCaseMachine

\* A single handler never finds its copy stale.
LEMMA NoneStaleStep ==
    ASSUME \A v, w \in Workers : v = w,
           TypeOK, NoneStale, [Next]_vars
    PROVE  NoneStale'
<1>1. CASE UNCHANGED vars
  BY <1>1 DEF vars, historyVars, NoneStale
<1>2. ASSUME NEW w \in Workers, Update(w)
      PROVE  NoneStale'
  BY <1>2 DEF Update, NoneStale
<1>3. ASSUME NEW w \in Workers, Step(w), ~Update(w)
      PROVE  NoneStale'
  <2>1. stale \in [Workers -> BOOLEAN]
    BY DEF TypeOK
  <2>2. contended' = contended
    BY <1>3 DEF Step, Transition, Reopen, Archive, updateMetadata, Admit,
                AppendTransition, Fail, historyVars
  <2>3. stale' = stale \/ stale' = [stale EXCEPT ![w] = FALSE]
    BY <1>3 DEF Step, Transition, Reopen, Archive, updateMetadata, Admit,
                AppendTransition, Fail, historyVars
  <2>4. \A v \in Workers : ~stale'[v]
    BY <2>1, <2>3 DEF NoneStale
  <2> QED BY <2>2, <2>4 DEF NoneStale
<1> QED BY <1>1, <1>2, <1>3 DEF Next

\* If at most one handler runs at a time no copy is ever stale, so that the row
\* behaves as the atomic machine for good.
THEOREM SerialImplementsCaseMachine ==
    ASSUME \A v, w \in Workers : v = w
    PROVE  Spec => Atomic!Spec
<1>1. Init => NoneStale
  BY DEF Init, NoneStale
<1>2. TypeOK /\ NoneStale /\ [Next]_vars => NoneStale'
  BY NoneStaleStep
<1>3. NoneStale' /\ [contended' \/ Atomic!Next]_(Atomic!caseVars)
          => [Atomic!Next]_(Atomic!caseVars)
  BY DEF NoneStale
<1>4. Spec => []NoneStale
  BY <1>1, <1>2, TypeCorrect, PTL DEF Spec
<1>5. Spec => Atomic!Init
  BY ImplementsCaseMachineHolds, PTL DEF ImplementsCaseMachine
<1>6. Spec => [][Atomic!Next]_(Atomic!caseVars)
  BY <1>3, <1>4, ImplementsCaseMachineHolds, PTL DEF ImplementsCaseMachine
<1> QED BY <1>5, <1>6, PTL DEF Atomic!Spec

=============================================================================
