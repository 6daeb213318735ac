-------------------------- MODULE CaseReviewProofs --------------------------
(***************************************************************************)
(* Proofs about Signoff, for every set of requests and every bound on the  *)
(* versions, the decisions and the failures; then about CaseReview, for    *)
(* any number of case handlers and keys as well.                           *)
(***************************************************************************)
EXTENDS CaseReview, TLAPS

-----------------------------------------------------------------------------
(* The steps of a request.                                                 *)

\* However a request starts, it holds a known kind and the live version.
Started(q) ==
    \E kind \in Kind : Begin(q, kind, caseVersion) /\ ops' \in 0 .. MaxOps

\* The entry points differ only in what they start with.
LEMMA RequestStepCases ==
    ASSUME TypeOK, NEW q \in Requests, RequestStep(q)
    PROVE  Started(q) \/ Continue(q) \/ Fail(q)
<1>0. /\ ops \in 0 .. MaxOps
      /\ ops < MaxOps => ops + 1 \in 0 .. MaxOps
  BY BoundsAssumption DEF TypeOK
<1>1. ASSUME NEW kind \in Decisions, NEW version \in Versions,
             Decide(q, kind, version)
      PROVE  Started(q)
  BY <1>0, <1>1 DEF Decide, Started, Kind, Decisions
<1>2. CASE MarkAwaitingSignoff(q)
  BY <1>0, <1>2 DEF MarkAwaitingSignoff, Started, Kind
<1>3. CASE ReReviewOnCaseUpdate(q)
  BY <1>0, <1>3 DEF ReReviewOnCaseUpdate, Started, Kind
<1> QED BY <1>1, <1>2, <1>3 DEF RequestStep

-----------------------------------------------------------------------------
(* Type correctness.                                                       *)

\* What a request holds is enough to write a record and an entry.
LEMMA WritesTyped ==
    ASSUME NEW j \in Job
    PROVE  NewRecord(j) \in SignoffRecord /\ EntryOf(j) \in AuditEntry
<1>1. Outcome(j.kind) \in Status /\ SourceOf(j.kind) \in DecisionSource
  BY DEF Outcome, SourceOf, Status, DecisionSource
<1> QED BY <1>1 DEF NewRecord, EntryOf, SignoffRecord, AuditEntry, Job

\* The status a request reads is a Status.
LEMMA StatusTyped == TypeOK => StatusNow \in Status
  BY DEF TypeOK, StatusNow, SignoffRecord, Status

\* A request that has read the record goes on with a job.
LEMMA ProceedTyped ==
    ASSUME TypeOK, NEW q \in Requests, NEW next \in {"upsert", "notify"},
           NEW j \in Job, Proceed(q, next, j), UNCHANGED ops
    PROVE  TypeOK'
<1>1. /\ caseVersion' \in Versions /\ record' \in SignoffRecord \cup {NoSignoff}
      /\ audit' \subseteq AuditEntry /\ ops' \in 0 .. MaxOps
      /\ fails' \in 0 .. MaxFails
      /\ lost' \in BOOLEAN /\ late' \in BOOLEAN
      /\ reviewed' \in BOOLEAN /\ notices' \subseteq Versions
      /\ overtaken' \in [Requests -> BOOLEAN]
  BY DEF TypeOK, Proceed, repoVars
<1>2. /\ pc' \in [Requests -> {"idle", "get", "upsert", "audit", "notify"}]
      /\ job' \in [Requests -> Job \cup {NoJob}]
      /\ stale' \in [Requests -> BOOLEAN]
  BY DEF TypeOK, Proceed
<1>3. \A p \in Requests : pc'[p] # "idle" => job'[p] \in Job
  BY DEF TypeOK, Proceed
<1> QED BY <1>1, <1>2, <1>3 DEF TypeOK

\* Changing the from status of a job leaves it a job.
LEMMA JobTyped ==
    ASSUME NEW j \in Job, NEW from \in Status
    PROVE  [j EXCEPT !.from = from] \in Job
  BY DEF Job

\* The case has no record and no request runs: the types hold.
LEMMA TypeInit == Init => TypeOK
<1> SUFFICES ASSUME Init PROVE TypeOK
  OBVIOUS
<1>1. 1 \in Versions /\ 0 \in 0 .. MaxFails /\ 0 \in 0 .. MaxOps
  BY BoundsAssumption DEF Versions
<1> QED BY <1>1 DEF Init, TypeOK

\* Every step keeps the variables well typed.
LEMMA TypeStep == TypeOK /\ [Next]_vars => TypeOK'
<1> SUFFICES ASSUME TypeOK, [Next]_vars PROVE TypeOK'
  OBVIOUS
<1>1. CASE UNCHANGED vars
  BY <1>1 DEF TypeOK, vars, repoVars, historyVars
<1>2. CASE EditCase
  <2>1. caseVersion' \in Versions
    BY <1>2, BoundsAssumption DEF EditCase, Versions, TypeOK
  <2>2. overtaken' \in [Requests -> BOOLEAN] /\ reviewed' \in BOOLEAN
    BY <1>2 DEF EditCase, TypeOK
  <2> QED BY <1>2, <2>1, <2>2 DEF EditCase, TypeOK, repoVars
<1>3. ASSUME NEW q \in Requests, RequestStep(q) PROVE TypeOK'
  <2>1. CASE Started(q)
    <3> PICK kind \in Kind :
                Begin(q, kind, caseVersion) /\ ops' \in 0 .. MaxOps
      BY <2>1 DEF Started
    <3>1. [kind |-> kind, version |-> caseVersion, from |-> "pending"]
             \in Job
      BY DEF Job, TypeOK, Status
    <3>2. /\ pc' \in [Requests -> {"idle", "get", "upsert", "audit", "notify"}]
          /\ job' \in [Requests -> Job \cup {NoJob}]
          /\ overtaken' \in [Requests -> BOOLEAN]
      BY <3>1 DEF TypeOK, Begin
    <3>3. \A p \in Requests : pc'[p] # "idle" => job'[p] \in Job
      BY <3>1 DEF TypeOK, Begin
    <3> QED BY <3>2, <3>3 DEF Begin, TypeOK, repoVars
  <2>2. CASE ReadForDecision(q)
    <3>1. job[q] \in Job
      BY <2>2 DEF ReadForDecision, TypeOK
    <3>2. [job[q] EXCEPT !.from = StatusNow] \in Job
      BY <3>1, StatusTyped, JobTyped
    <3> QED BY <2>2, <3>2, ProceedTyped DEF ReadForDecision
  <2>3. CASE ReadForReReview(q)
    <3>1. job[q] \in Job
      BY <2>3 DEF ReadForReReview, TypeOK
    <3>2. CASE Outdated(job[q].version)
      <4>1. record.status \in Status
        BY <3>2 DEF Outdated, TypeOK, SignoffRecord
      <4>2. [job[q] EXCEPT !.from = record.status] \in Job
        BY <3>1, <4>1, JobTyped
      <4> QED BY <2>3, <3>2, <4>2, ProceedTyped DEF ReadForReReview
    <3>3. CASE ~ Outdated(job[q].version)
      BY <2>3, <3>3 DEF ReadForReReview, Finish, TypeOK, repoVars
    <3> QED BY <3>2, <3>3
  <2>4. CASE ReadForAwaiting(q)
    <3>1. job[q] \in Job
      BY <2>4 DEF ReadForAwaiting, TypeOK
    <3> QED BY <2>4, <3>1, ProceedTyped DEF ReadForAwaiting
  <2>5. CASE Upsert(q)
    <3>1. job[q] \in Job
      BY <2>5 DEF Upsert, TypeOK
    <3>2. record' \in SignoffRecord
      BY <2>5, <3>1, WritesTyped DEF Upsert
    <3>3. /\ pc' \in [Requests -> {"idle", "get", "upsert", "audit", "notify"}]
          /\ stale' \in [Requests -> BOOLEAN]
          /\ late' \in BOOLEAN
      BY <2>5 DEF Upsert, TypeOK
    <3>4. \A p \in Requests : pc'[p] # "idle" => job'[p] \in Job
      BY <2>5, <3>1 DEF Upsert, TypeOK
    <3> QED BY <2>5, <3>2, <3>3, <3>4 DEF Upsert, TypeOK
  <2>6. CASE AppendAudit(q)
    <3>1. job[q] \in Job
      BY <2>6 DEF AppendAudit, TypeOK
    <3>2. audit' \subseteq AuditEntry
      BY <2>6, <3>1, WritesTyped DEF AppendAudit, TypeOK
    <3>3. /\ pc' \in [Requests -> {"idle", "get", "upsert", "audit", "notify"}]
          /\ job' \in [Requests -> Job \cup {NoJob}]
          /\ overtaken' \in [Requests -> BOOLEAN]
          /\ \A p \in Requests : pc'[p] # "idle" => job'[p] \in Job
      BY <2>6, <3>1 DEF AppendAudit, Finish, TypeOK
    <3> QED BY <2>6, <3>2, <3>3 DEF AppendAudit, TypeOK, historyVars
  <2>7. CASE Notify(q)
    <3>1. job[q] \in Job
      BY <2>7 DEF Notify, TypeOK
    <3>2. reviewed' \in BOOLEAN /\ notices' \subseteq Versions
      BY <2>7, <3>1 DEF Notify, TypeOK, Job
    <3>3. /\ pc' \in [Requests -> {"idle", "get", "upsert", "audit", "notify"}]
          /\ job' \in [Requests -> Job \cup {NoJob}]
          /\ overtaken' \in [Requests -> BOOLEAN]
          /\ \A p \in Requests : pc'[p] # "idle" => job'[p] \in Job
      BY <2>7 DEF Notify, Finish, TypeOK
    <3> QED BY <2>7, <3>2, <3>3 DEF Notify, TypeOK, repoVars
  <2>8. CASE Fail(q)
    <3>1. fails' \in 0 .. MaxFails
      BY <2>8, BoundsAssumption DEF Fail, TypeOK
    <3>2. /\ pc' \in [Requests -> {"idle", "get", "upsert", "audit", "notify"}]
          /\ job' \in [Requests -> Job \cup {NoJob}]
          /\ stale' \in [Requests -> BOOLEAN] /\ lost' \in BOOLEAN
          /\ overtaken' \in [Requests -> BOOLEAN]
          /\ \A p \in Requests : pc'[p] # "idle" => job'[p] \in Job
      BY <2>8 DEF Fail, Finish, TypeOK
    <3> QED BY <2>8, <3>1, <3>2 DEF Fail, TypeOK, repoVars
  <2> QED BY <1>3, <2>1, <2>2, <2>3, <2>4, <2>5, <2>6, <2>7, <2>8,
             RequestStepCases DEF Continue
<1> QED BY <1>1, <1>2, <1>3 DEF Next

\* Every reachable state is well typed: the record, the trail and the notices
\* hold well-formed values, and a request in progress holds its arguments.
THEOREM TypeCorrect == Spec => []TypeOK
BY TypeInit, TypeStep, PTL DEF Spec

-----------------------------------------------------------------------------
(* What each request knows.                                                *)

\* Init, read off.
LEMMA InitFacts ==
    Init => /\ record = NoSignoff /\ ~reviewed
            /\ \A q \in Requests : pc[q] = "idle"
  BY DEF Init

\* The version and the kind of a request are those it began with, until it ends.
LEMMA JobKept ==
    ASSUME TypeOK, NEW q \in Requests, NEW p \in Requests,
           Continue(q) \/ Fail(q), pc'[p] # "idle"
    PROVE  /\ pc[p] # "idle"
           /\ job'[p].version = job[p].version /\ job'[p].kind = job[p].kind
           /\ overtaken'[p] = overtaken[p] /\ caseVersion' = caseVersion
<1>1. CASE q # p
  BY <1>1 DEF Continue, ReadForDecision, ReadForReReview, ReadForAwaiting,
              Upsert, AppendAudit, Notify, Fail, Proceed, Finish, historyVars,
              TypeOK
<1>2. CASE q = p
  <2>1. CASE ReadForDecision(q)
    BY <1>2, <2>1 DEF ReadForDecision, Proceed, TypeOK, Job
  <2>2. CASE ReadForReReview(q)
    <3>1. job[q] \in Job
      BY <2>2 DEF ReadForReReview, TypeOK
    <3>2. pc'[q] # "idle" /\ pc[q] = "get"
      BY <1>2, <2>2 DEF ReadForReReview
    <3>3. Proceed(q, "upsert", [job[q] EXCEPT !.from = record.status])
      BY <2>2, <3>2 DEF ReadForReReview, Finish, TypeOK
    <3>4. job'[q] = [job[q] EXCEPT !.from = record.status]
      BY <3>3 DEF Proceed, TypeOK
    <3> QED BY <1>2, <3>1, <3>2, <3>3, <3>4 DEF Proceed, Job
  <2>3. CASE ReadForAwaiting(q)
    BY <1>2, <2>3 DEF ReadForAwaiting, Proceed, TypeOK
  <2>4. CASE Upsert(q)
    BY <1>2, <2>4 DEF Upsert
  <2>5. CASE AppendAudit(q)
    BY <1>2, <2>5 DEF AppendAudit, Finish, historyVars, TypeOK
  <2>6. CASE Notify(q)
    BY <1>2, <2>6 DEF Notify, Finish, TypeOK
  <2>7. CASE Fail(q)
    BY <1>2, <2>7 DEF Fail, Finish, TypeOK
  <2> QED BY <2>1, <2>2, <2>3, <2>4, <2>5, <2>6, <2>7 DEF Continue
<1> QED BY <1>1, <1>2

\* Requests keep working on the version that was live when they began.
LEMMA OnItsVersionStep ==
    ASSUME TypeOK, \A q \in Requests : OnItsVersion(q), [Next]_vars,
           NEW p \in Requests
    PROVE  OnItsVersion(p)'
<1>0. OnItsVersion(p) /\ caseVersion \in Nat
  BY DEF TypeOK, Versions
<1>1. CASE UNCHANGED vars
  BY <1>0, <1>1 DEF OnItsVersion, vars, historyVars
<1>2. CASE EditCase
  <2>1. pc' = pc /\ job' = job /\ caseVersion' = caseVersion + 1
    BY <1>2 DEF EditCase
  <2>4. pc[p] # "idle" => overtaken'[p]
    BY <1>2 DEF EditCase
  <2>2. pc[p] # "idle" => job[p] \in Job
    BY DEF TypeOK
  <2>3. pc[p] # "idle" => job[p].version \in Nat
    BY <2>2 DEF Job, Versions
  <2>5. pc[p] # "idle" => job[p].version <= caseVersion + 1
    BY <1>0, <2>3 DEF OnItsVersion
  <2> QED BY <2>1, <2>4, <2>5 DEF OnItsVersion
<1>3. ASSUME NEW q \in Requests, Started(q) PROVE OnItsVersion(p)'
  <2> PICK kind \in Kind : Begin(q, kind, caseVersion)
    BY <1>3 DEF Started
  <2>1. CASE q = p
    <3>1. job'[p].version = caseVersion /\ caseVersion' = caseVersion
      BY <2>1 DEF Begin, TypeOK
    <3> QED BY <1>0, <3>1 DEF OnItsVersion
  <2>2. CASE q # p
    BY <1>0, <2>2 DEF Begin, OnItsVersion, TypeOK
  <2> QED BY <2>1, <2>2
<1>4. ASSUME NEW q \in Requests, Continue(q) \/ Fail(q)
      PROVE  OnItsVersion(p)'
  BY <1>0, <1>4, JobKept DEF OnItsVersion
<1> QED BY <1>1, <1>2, <1>3, <1>4, RequestStepCases DEF Next

\* A request that has not read the record still holds the initial status.
LEMMA NothingReadStep ==
    ASSUME TypeOK, [Next]_vars, NEW p \in Requests, NothingRead(p)
    PROVE  NothingRead(p)'
<1>1. CASE UNCHANGED vars \/ EditCase
  <2>1. pc' = pc /\ job' = job
    BY <1>1 DEF vars, EditCase
  <2> QED BY <2>1 DEF NothingRead
<1>2. ASSUME NEW q \in Requests, Started(q) PROVE NothingRead(p)'
  BY <1>2 DEF NothingRead, Started, Begin, TypeOK
<1>3. ASSUME NEW q \in Requests, Continue(q) \/ Fail(q) PROVE NothingRead(p)'
  <2>1. pc'[p] = "get" => pc[p] = "get" /\ job'[p] = job[p]
    <3>1. CASE ReadForDecision(q)
      BY <3>1 DEF ReadForDecision, Proceed, TypeOK
    <3>2. CASE ReadForReReview(q)
      BY <3>2 DEF ReadForReReview, Proceed, Finish, TypeOK
    <3>3. CASE ReadForAwaiting(q)
      BY <3>3 DEF ReadForAwaiting, Proceed, TypeOK
    <3>4. CASE Upsert(q)
      BY <3>4 DEF Upsert, TypeOK
    <3>5. CASE AppendAudit(q)
      BY <3>5 DEF AppendAudit, Finish, TypeOK
    <3>6. CASE Notify(q) \/ Fail(q)
      BY <3>6 DEF Notify, Fail, Finish, TypeOK
    <3> QED BY <1>3, <3>1, <3>2, <3>3, <3>4, <3>5, <3>6 DEF Continue
  <2> QED BY <2>1 DEF NothingRead
<1> QED BY <1>1, <1>2, <1>3, RequestStepCases DEF Next

\* What a request read still holds until somebody writes.
LEMMA FreshReadStep ==
    ASSUME TypeOK, [Next]_vars, NEW p \in Requests, NothingRead(p),
           FreshRead(p)
    PROVE  FreshRead(p)'
<1>1. CASE UNCHANGED vars \/ EditCase
  <2>1. pc' = pc /\ job' = job /\ stale' = stale /\ record' = record
    BY <1>1 DEF vars, EditCase, repoVars, historyVars
  <2> QED BY <2>1 DEF FreshRead, StatusNow, Outdated
<1>2. ASSUME NEW q \in Requests, Started(q) PROVE FreshRead(p)'
  <2>1. record' = record /\ stale' = stale
    BY <1>2 DEF Started, Begin, repoVars
  <2>2. pc'[p] = "upsert" => pc[p] = "upsert" /\ job'[p] = job[p]
    BY <1>2 DEF Started, Begin, TypeOK
  <2> QED BY <2>1, <2>2 DEF FreshRead, StatusNow, Outdated
<1>3. ASSUME NEW q \in Requests, Upsert(q) PROVE FreshRead(p)'
  <2>1. pc'[p] = "upsert" => stale'[p]
    BY <1>3 DEF Upsert, TypeOK
  <2> QED BY <2>1 DEF FreshRead
<1>4. ASSUME NEW q \in Requests, Continue(q) \/ Fail(q), ~Upsert(q), q # p
      PROVE  FreshRead(p)'
  <2>1. record' = record /\ stale'[p] = stale[p]
    BY <1>4 DEF Continue, ReadForDecision, ReadForReReview, ReadForAwaiting,
                AppendAudit, Notify, Fail, Proceed, Finish, repoVars,
                historyVars, TypeOK
  <2>2. pc'[p] = pc[p] /\ job'[p] = job[p]
    BY <1>4 DEF Continue, ReadForDecision, ReadForReReview, ReadForAwaiting,
                AppendAudit, Notify, Fail, Proceed, Finish, TypeOK
  <2> QED BY <2>1, <2>2 DEF FreshRead, StatusNow, Outdated
<1>5. ASSUME ReadForDecision(p) PROVE FreshRead(p)'
  <2>1. job[p] \in Job /\ job[p].kind \in Decisions /\ record' = record
    BY <1>5 DEF ReadForDecision, Proceed, TypeOK, repoVars
  <2>2. job'[p] = [job[p] EXCEPT !.from = StatusNow]
    BY <1>5 DEF ReadForDecision, Proceed, TypeOK
  <2>3. job'[p].from = StatusNow /\ job'[p].kind \in Decisions
    BY <2>1, <2>2 DEF Job
  <2> QED BY <2>1, <2>3 DEF FreshRead, StatusNow, Decisions
<1>6. ASSUME ReadForReReview(p) PROVE FreshRead(p)'
  <2>1. job[p] \in Job /\ job[p].kind = "rereview" /\ record' = record
    BY <1>6 DEF ReadForReReview, Proceed, TypeOK, repoVars
  <2>2. CASE Outdated(job[p].version)
    <3>1. job'[p] = [job[p] EXCEPT !.from = record.status]
      BY <1>6, <2>2 DEF ReadForReReview, Proceed, TypeOK
    <3>2. /\ job'[p].from = record.status /\ job'[p].kind = "rereview"
          /\ job'[p].version = job[p].version
      BY <2>1, <3>1 DEF Job
    <3> QED BY <2>1, <2>2, <3>2 DEF FreshRead, StatusNow, Outdated
  <2>3. CASE ~ Outdated(job[p].version)
    BY <1>6, <2>3 DEF ReadForReReview, Finish, FreshRead, TypeOK
  <2> QED BY <2>2, <2>3
<1>7. ASSUME ReadForAwaiting(p) PROVE FreshRead(p)'
  <2>1. /\ job[p].kind = "awaiting" /\ job[p].from = "pending"
        /\ record' = record /\ job'[p] = job[p]
    BY <1>7 DEF ReadForAwaiting, Proceed, TypeOK, repoVars, NothingRead
  <2>2. pc'[p] = "upsert" => record = NoSignoff
    BY <1>7 DEF ReadForAwaiting, Proceed, TypeOK
  <2> QED BY <2>1, <2>2 DEF FreshRead, StatusNow
<1>8. ASSUME AppendAudit(p) \/ Notify(p) \/ Fail(p) PROVE FreshRead(p)'
  BY <1>8 DEF AppendAudit, Notify, Fail, Finish, FreshRead, TypeOK
<1> QED BY <1>1, <1>2, <1>3, <1>4, <1>5, <1>6, <1>7, <1>8,
           RequestStepCases DEF Next, Continue

-----------------------------------------------------------------------------
(* No stale approval after a re-review.                                    *)

\* Only an approval written after the case changed under its request brings a
\* stale approval about while the case itself does not change.
LEMMA NoStaleApprovalStep ==
    ASSUME TypeOK, NEW q \in Requests, OnItsVersion(q), RequestStep(q),
           ~StaleApproval, ~late'
    PROVE  ~StaleApproval' /\ caseVersion' = caseVersion /\ ~late
<1>1. CASE Upsert(q)
  <2>1. record' = NewRecord(job[q]) /\ caseVersion' = caseVersion /\ ~late
    BY <1>1 DEF Upsert
  <2>2. job[q] \in Job /\ NewRecord(job[q]) \in SignoffRecord
    BY <1>1, WritesTyped DEF Upsert, TypeOK
  <2>3. record' # NoSignoff
    BY <2>1, <2>2, NoSignoffAssumption
  <2>4. CASE job[q].kind = "approve"
    <3>1. ~overtaken[q]
      BY <1>1, <2>4 DEF Upsert
    <3>2. job[q].version = caseVersion
      BY <1>1, <3>1 DEF Upsert, OnItsVersion
    <3> QED BY <2>1, <3>2 DEF NewRecord, StaleApproval
  <2>5. CASE job[q].kind # "approve"
    <3>1. record'.status # "approved"
      BY <2>1, <2>5 DEF NewRecord, Outcome
    <3> QED BY <2>1, <2>3, <3>1 DEF StaleApproval, CanFinalize, StatusNow
  <2> QED BY <2>4, <2>5
<1>2. CASE ~Upsert(q)
  <2>1. record' = record /\ caseVersion' = caseVersion /\ late' = late
    <3>1. CASE Started(q)
      BY <3>1 DEF Started, Begin, repoVars
    <3>2. CASE Continue(q) \/ Fail(q)
      BY <1>2, <3>2 DEF Continue, ReadForDecision, ReadForReReview,
            ReadForAwaiting, AppendAudit, Notify, Fail, Proceed, repoVars,
            historyVars
    <3> QED BY <3>1, <3>2, RequestStepCases
  <2> QED BY <2>1 DEF StaleApproval, CanFinalize, StatusNow
<1> QED BY <1>1, <1>2

\* A re-review that has written what it found leaves no stale approval, and no
\* other request brings one back.
LEMMA SettledStep ==
    ASSUME TypeOK, \A q \in Requests : OnItsVersion(q), [Next]_vars,
           NEW p \in Requests, Settled(p)
    PROVE  Settled(p)'
<1>1. CASE UNCHANGED vars
  BY <1>1 DEF Settled, vars, repoVars, historyVars, StaleApproval, CanFinalize,
              StatusNow
<1>2. CASE EditCase
  <2>1. pc' = pc /\ job' = job /\ caseVersion' = caseVersion + 1
    BY <1>2 DEF EditCase
  <2>2. pc[p] # "idle" => job[p] \in Job
    BY DEF TypeOK
  <2>3. pc[p] # "idle" => job[p].version \in Nat /\ caseVersion \in Nat
    BY <2>2 DEF Job, Versions, TypeOK
  <2>4. pc[p] # "idle" => job[p].version # caseVersion + 1
    BY <2>3 DEF OnItsVersion
  <2> QED BY <2>1, <2>4 DEF Settled
<1>3. ASSUME NEW q \in Requests, RequestStep(q) PROVE Settled(p)'
  <2> SUFFICES ASSUME pc'[p] \in {"audit", "notify"},
                      job'[p].kind = "rereview",
                      job'[p].version = caseVersion', ~late'
               PROVE  ~StaleApproval'
    BY DEF Settled
  <2>1. CASE Started(q)
    <3>1. /\ pc'[p] = pc[p] /\ job'[p] = job[p] /\ caseVersion' = caseVersion
          /\ late' = late
      BY <2>1 DEF Started, Begin, TypeOK
    <3>2. ~StaleApproval
      BY <3>1 DEF Settled
    <3> QED BY <1>3, <3>2, NoStaleApprovalStep
  <2>2. CASE Continue(q) \/ Fail(q)
    <3>1. /\ job[p].version = caseVersion /\ job[p].kind = "rereview"
          /\ caseVersion' = caseVersion
      BY <2>2, JobKept
    <3>2. CASE pc[p] \in {"audit", "notify"}
      <4>1. ~late
        BY <2>2 DEF Continue, ReadForDecision, ReadForReReview, Upsert,
              ReadForAwaiting, AppendAudit, Notify, Fail, Proceed, historyVars
      <4>2. ~StaleApproval
        BY <3>1, <3>2, <4>1 DEF Settled
      <4> QED BY <1>3, <4>2, NoStaleApprovalStep
    <3>3. CASE pc[p] \notin {"audit", "notify"}
      <4>1. q = p /\ Upsert(p)
        <5>1. q = p
          BY <2>2, <3>3 DEF Continue, ReadForDecision, ReadForReReview, Upsert,
                ReadForAwaiting, AppendAudit, Notify, Fail, Proceed, Finish,
                historyVars, TypeOK
        <5>2. ~ReadForDecision(p) /\ ~ReadForAwaiting(p)
          BY <3>1 DEF ReadForDecision, ReadForAwaiting, Decisions
        <5>3. ~ReadForReReview(p)
          BY DEF ReadForReReview, Proceed, Finish, TypeOK
        <5>4. ~AppendAudit(p) /\ ~Notify(p) /\ ~Fail(p)
          BY <3>3 DEF AppendAudit, Notify, Fail, Finish, TypeOK
        <5> QED BY <2>2, <5>1, <5>2, <5>3, <5>4 DEF Continue
      <4>2. job[p] \in Job /\ NewRecord(job[p]) \in SignoffRecord
        BY <4>1, WritesTyped DEF Upsert, TypeOK
      <4>3. record' # NoSignoff /\ record'.status = "pending"
        BY <3>1, <4>1, <4>2, NoSignoffAssumption DEF Upsert, NewRecord, Outcome
      <4> QED BY <4>3 DEF StaleApproval, CanFinalize, StatusNow
    <3> QED BY <3>2, <3>3
  <2> QED BY <1>3, <2>1, <2>2, RequestStepCases
<1> QED BY <1>1, <1>2, <1>3 DEF Next

\* A re-review ends with no stale approval, and none appears until the next
\* edit.
LEMMA ReReviewSettlesStep ==
    ASSUME TypeOK, \A q \in Requests : OnItsVersion(q) /\ Settled(q),
           [Next]_vars, ReReviewSettles
    PROVE  ReReviewSettles'
<1>1. CASE UNCHANGED vars
  BY <1>1 DEF ReReviewSettles, vars, repoVars, historyVars, StaleApproval,
              CanFinalize, StatusNow
<1>2. CASE EditCase
  BY <1>2 DEF EditCase, ReReviewSettles
<1>3. ASSUME NEW q \in Requests, RequestStep(q), reviewed', ~late'
      PROVE  ~StaleApproval'
  <2>1. ~late
    BY <1>3, RequestStepCases
       DEF Started, Begin, Continue, ReadForDecision, ReadForReReview, Upsert,
           ReadForAwaiting, AppendAudit, Notify, Fail, Proceed, historyVars
  <2>2. CASE reviewed
    <3>1. ~StaleApproval
      BY <2>1, <2>2 DEF ReReviewSettles
    <3> QED BY <1>3, <3>1, NoStaleApprovalStep
  <2>3. CASE ~reviewed
    <3>1. \/ ReadForReReview(q) /\ ~Outdated(job[q].version)
          \/ Notify(q)
      BY <1>3, <2>3, RequestStepCases
         DEF Started, Begin, Continue, ReadForDecision, ReadForReReview, Upsert,
             ReadForAwaiting, AppendAudit, Notify, Fail, Proceed, historyVars
    <3>2. ASSUME ReadForReReview(q), ~Outdated(job[q].version)
          PROVE  ~StaleApproval
      <4>1. job[q].version = caseVersion
        BY <1>3, <2>3, <3>2 DEF ReadForReReview
      <4> QED BY <3>2, <4>1 DEF Outdated, StaleApproval, CanFinalize, StatusNow
    <3>3. ASSUME Notify(q) PROVE ~StaleApproval
      <4>1. job[q].version = caseVersion /\ job[q].kind = "rereview"
        BY <1>3, <2>3, <3>3 DEF Notify
      <4> QED BY <2>1, <3>3, <4>1 DEF Notify, Settled
    <3> QED BY <1>3, <3>1, <3>2, <3>3, NoStaleApprovalStep
  <2> QED BY <2>2, <2>3
<1> QED BY <1>1, <1>2, <1>3 DEF Next, ReReviewSettles

-----------------------------------------------------------------------------
(* The trail and the announcements.                                        *)

\* Nothing but an Upsert writes the record, and nothing but the step of a
\* request that waits for its append or its announcement disturbs it there.
LEMMA BystanderStep ==
    ASSUME TypeOK, NEW q \in Requests, RequestStep(q)
    PROVE  /\ ~Upsert(q) => record' = record
           /\ lost => lost'
           /\ audit \subseteq audit' /\ notices \subseteq notices'
           /\ \A p \in Requests :
                 pc[p] \in {"audit", "notify"} /\ p # q
                    => pc'[p] = pc[p] /\ job'[p] = job[p]
<1>1. CASE Started(q)
  <2>1. record' = record /\ lost' = lost /\ audit' = audit /\ notices' = notices
    BY <1>1 DEF Started, Begin, repoVars
  <2>2. ASSUME NEW p \in Requests, p # q
        PROVE  pc'[p] = pc[p] /\ job'[p] = job[p]
    BY <1>1, <2>2 DEF Started, Begin, TypeOK
  <2> QED BY <2>1, <2>2
<1>2. CASE Continue(q) \/ Fail(q)
  <2>1. ~Upsert(q) => record' = record
    BY <1>2 DEF Continue, ReadForDecision, ReadForReReview,
          ReadForAwaiting, AppendAudit, Notify, Fail, Proceed, repoVars
  <2>4. lost => lost'
    BY <1>2 DEF Continue, ReadForDecision, ReadForReReview, Upsert,
          ReadForAwaiting, AppendAudit, Notify, Fail, Proceed, historyVars
  <2>2. audit \subseteq audit' /\ notices \subseteq notices'
    BY <1>2 DEF Continue, ReadForDecision, ReadForReReview, Upsert,
          ReadForAwaiting, AppendAudit, Notify, Fail, Proceed, repoVars,
          historyVars
  <2>3. ASSUME NEW p \in Requests, p # q
        PROVE  pc'[p] = pc[p] /\ job'[p] = job[p]
    BY <1>2, <2>3 DEF Continue, ReadForDecision, ReadForReReview, Upsert,
          ReadForAwaiting, AppendAudit, Notify, Fail, Proceed, Finish, TypeOK
  <2> QED BY <2>1, <2>2, <2>3, <2>4
<1> QED BY <1>1, <1>2, RequestStepCases

\* The request that waits at its append either stays there or appends.
LEMMA ExplainedStep ==
    ASSUME TypeOK, [Next]_vars, Explained
    PROVE  Explained'
<1>1. CASE UNCHANGED vars \/ EditCase
  <2>1. /\ record' = record /\ lost' = lost /\ audit' = audit /\ pc' = pc
        /\ job' = job
    BY <1>1 DEF vars, repoVars, historyVars, EditCase
  <2> QED BY <2>1 DEF Explained, Explains
<1>2. ASSUME NEW q \in Requests, RequestStep(q), Upsert(q) PROVE Explained'
  <2>1. record' = NewRecord(job[q]) /\ pc'[q] = "audit" /\ job'[q] = job[q]
    BY <1>2 DEF Upsert, TypeOK
  <2>2. Explains(EntryOf(job[q]))'
    BY <2>1 DEF Explains, EntryOf, NewRecord
  <2> QED BY <2>1, <2>2 DEF Explained
<1>3. ASSUME NEW q \in Requests, RequestStep(q), ~Upsert(q)
      PROVE  Explained'
  <2> SUFFICES ASSUME record' # NoSignoff, ~lost'
               PROVE  \/ \E e \in audit' : Explains(e)'
                      \/ \E p \in Requests : /\ pc'[p] = "audit"
                                             /\ Explains(EntryOf(job[p]))'
    BY DEF Explained
  <2>1. record' = record /\ ~lost /\ audit \subseteq audit'
    BY <1>3, BystanderStep
  <2>2. CASE \E e \in audit : Explains(e)
    BY <2>1, <2>2 DEF Explains
  <2>3. ASSUME NEW p \in Requests, pc[p] = "audit", Explains(EntryOf(job[p]))
        PROVE  \/ \E e \in audit' : Explains(e)'
               \/ \E r \in Requests : /\ pc'[r] = "audit"
                                      /\ Explains(EntryOf(job[r]))'
    <3>1. CASE p # q
      <4>1. pc'[p] = "audit" /\ job'[p] = job[p]
        BY <1>3, <2>3, <3>1, BystanderStep
      <4> QED BY <2>1, <2>3, <4>1 DEF Explains, EntryOf
    <3>2. CASE p = q
      <4>1. AppendAudit(q) \/ Fail(q)
        BY <1>3, <2>3, <3>2, RequestStepCases
           DEF Started, Begin, Continue, ReadForDecision, ReadForReReview,
               ReadForAwaiting, Notify
      <4>2. ~Fail(q)
        BY <2>3, <3>2 DEF Fail
      <4>3. EntryOf(job[p]) \in audit'
        BY <3>2, <4>1, <4>2 DEF AppendAudit
      <4> QED BY <2>1, <2>3, <4>3 DEF Explains
    <3> QED BY <3>1, <3>2
  <2> QED BY <2>1, <2>2, <2>3 DEF Explained
<1> QED BY <1>1, <1>2, <1>3 DEF Next

\* The re-review that wrote the record announces its version or fails.
LEMMA AnnouncedStep ==
    ASSUME TypeOK, [Next]_vars, Announced
    PROVE  Announced'
<1>1. CASE UNCHANGED vars \/ EditCase
  <2>1. /\ record' = record /\ lost' = lost /\ notices' = notices /\ pc' = pc
        /\ job' = job
    BY <1>1 DEF vars, repoVars, historyVars, EditCase
  <2> QED BY <2>1 DEF Announced
<1>2. ASSUME NEW q \in Requests, RequestStep(q), Upsert(q) PROVE Announced'
  <2>1. record' = NewRecord(job[q]) /\ pc'[q] = "audit" /\ job'[q] = job[q]
    BY <1>2 DEF Upsert, TypeOK
  <2>2. record'.source = "re_review" => job[q].kind = "rereview"
    BY <2>1 DEF NewRecord, SourceOf, Decisions
  <2>3. record'.version = job[q].version
    BY <2>1 DEF NewRecord
  <2> QED BY <2>1, <2>2, <2>3 DEF Announced
<1>3. ASSUME NEW q \in Requests, RequestStep(q), ~Upsert(q)
      PROVE  Announced'
  <2> SUFFICES ASSUME record' # NoSignoff, ~lost',
                      record'.source = "re_review"
               PROVE  \/ record'.version \in notices'
                      \/ \E p \in Requests : /\ pc'[p] \in {"audit", "notify"}
                                             /\ job'[p].kind = "rereview"
                                             /\ job'[p].version = record'.version
    BY DEF Announced
  <2>1. record' = record /\ ~lost /\ notices \subseteq notices'
    BY <1>3, BystanderStep
  <2>2. CASE record.version \in notices
    BY <2>1, <2>2
  <2>3. ASSUME NEW p \in Requests, pc[p] \in {"audit", "notify"},
               job[p].kind = "rereview", job[p].version = record.version
        PROVE  \/ record'.version \in notices'
               \/ \E r \in Requests : /\ pc'[r] \in {"audit", "notify"}
                                      /\ job'[r].kind = "rereview"
                                      /\ job'[r].version = record'.version
    <3>1. CASE p # q
      <4>1. pc'[p] = pc[p] /\ job'[p] = job[p]
        BY <1>3, <2>3, <3>1, BystanderStep
      <4> QED BY <2>1, <2>3, <4>1
    <3>2. CASE p = q
      <4>1. AppendAudit(q) \/ Notify(q) \/ Fail(q)
        BY <1>3, <2>3, <3>2, RequestStepCases
           DEF Started, Begin, Continue, ReadForDecision, ReadForReReview,
               ReadForAwaiting
      <4>2. ~Fail(q)
        BY <2>3, <3>2 DEF Fail
      <4>3. CASE AppendAudit(q)
        BY <2>1, <2>3, <3>2, <4>3 DEF AppendAudit, Decisions, TypeOK
      <4>4. CASE Notify(q)
        BY <2>1, <2>3, <3>2, <4>4 DEF Notify
      <4> QED BY <4>1, <4>2, <4>3, <4>4
    <3> QED BY <3>1, <3>2
  <2> QED BY <2>1, <2>2, <2>3 DEF Announced
<1> QED BY <1>1, <1>2, <1>3 DEF Next

-----------------------------------------------------------------------------
(* The inductive invariant and what follows from it.                       *)

\* Before anything happens there is nothing to explain or to announce.
LEMMA IInvInit == Init => IInv
<1> SUFFICES ASSUME Init PROVE IInv
  OBVIOUS
<1>1. /\ record = NoSignoff /\ ~reviewed
      /\ \A q \in Requests : pc[q] = "idle"
  BY InitFacts
<1>2. TypeOK
  BY TypeInit
<1> QED BY <1>1, <1>2
        DEF IInv, OnItsVersion, NothingRead, Settled, FreshRead,
            ReReviewSettles, Explained, Announced

\* Every step keeps the invariant.
LEMMA IInvStep == IInv /\ [Next]_vars => IInv'
<1> SUFFICES ASSUME IInv, [Next]_vars PROVE IInv'
  OBVIOUS
<1> USE DEF IInv
<1>1. TypeOK'
  BY TypeStep
<1>2. ASSUME NEW q \in Requests
      PROVE  OnItsVersion(q)' /\ NothingRead(q)' /\ Settled(q)' /\ FreshRead(q)'
  BY OnItsVersionStep, NothingReadStep, SettledStep, FreshReadStep
<1>3. ReReviewSettles'
  BY ReReviewSettlesStep
<1>4. Explained' /\ Announced'
  BY ExplainedStep, AnnouncedStep
<1> QED BY <1>1, <1>2, <1>3, <1>4

\* The inductive invariant holds in every reachable state.
THEOREM InductiveInvariant == Spec => []IInv
BY IInvInit, IInvStep, PTL DEF Spec

\* Whatever the interleaving, once a re-review of the live version has run to
\* its end no stale approval is left, unless one was written by a request that
\* the case overtook.
THEOREM ReReviewSettlesHolds == Spec => []ReReviewSettles
<1>1. IInv => ReReviewSettles
  BY DEF IInv
<1> QED BY <1>1, InductiveInvariant, PTL

\* When no append is pending and none failed, some entry of the trail leads to
\* the record's status, version and source.
THEOREM RecordIsExplainedHolds == Spec => []RecordIsExplained
<1>1. IInv => RecordIsExplained
  BY DEF IInv, Explained, Explains, RecordIsExplained
<1> QED BY <1>1, InductiveInvariant, PTL

\* When no re-review is under way and none failed, a reverted record's version
\* has been announced.
THEOREM ReversionIsAnnouncedHolds == Spec => []ReversionIsAnnounced
<1>1. IInv => ReversionIsAnnounced
  BY DEF IInv, Announced, ReversionIsAnnounced
<1> QED BY <1>1, InductiveInvariant, PTL

\* Between a request's read and its write, as long as nobody else writes, what
\* it read is what it overwrites: a re-review reverts only an approval of
\* another version, and an announcement only fills an empty record.
THEOREM UncontendedWritesRespectDecisionsHolds ==
    Spec => UncontendedWritesRespectDecisions
<1> DEFINE Respects ==
             \A q \in Requests :
                Upsert(q) /\ ~stale[q] =>
                   /\ job[q].from = StatusNow
                   /\ job[q].kind = "rereview" =>
                         StatusNow = "approved" /\ record.version # job[q].version
                   /\ job[q].kind = "awaiting" => record = NoSignoff
<1>1. IInv /\ [Next]_vars => [Respects]_vars
  BY DEF IInv, Upsert, FreshRead, Outdated, StatusNow
<1>2. Spec => [][Respects]_vars
  <2> HIDE DEF Respects
  <2> QED BY <1>1, InductiveInvariant, PTL DEF Spec
<1> QED BY <1>2 DEF UncontendedWritesRespectDecisions

-----------------------------------------------------------------------------
(* CaseReview.  What the theorems about the case say of the row.           *)

Proved == INSTANCE CaseLifecycleProofs WITH
    MaxOps <- MaxCaseOps, clock <- caseClock, pc <- casePc,
    stale <- caseStale, contended <- caseContended, lost <- caseLost

\* Each request gets one version further at most.
VersionBound ==
    /\ store.metadataVersion \in 1 .. caseClock + 1
    /\ \A w \in Workers :
          casePc[w] = "update" => clone[w].metadataVersion \in 1 .. caseClock + 1

\* What holds of the case in every state, whatever was written from stale copies.
CaseInv ==
    /\ Proved!IInv
    /\ VersionBound
    /\ caseVersion = store.metadataVersion

\* Only a handler decides.
DecidesAsHandler(q) ==
    pc[q] # "idle" /\ job[q].kind = "approve" => q \in Handlers

\* What holds of the review in every state.
ReviewTyped ==
    /\ TypeOK
    /\ viewed \in [Handlers -> View \cup {NoView}]
    /\ approvedOn \in View \cup {NoView}
    /\ \A q \in Requests : DecidesAsHandler(q)

\* A view is of an earlier version, or of what the row holds.
Faithful(v) ==
    /\ v \in View
    /\ v.version <= store.metadataVersion
    /\ v.version = store.metadataVersion => v = Shown(store)

\* A request that approves names the version that its reviewer saw.
NamesView(q) ==
    pc[q] # "idle" /\ job[q].kind = "approve" =>
        /\ viewed[q] # NoView
        /\ viewed[q].version = job[q].version

\* What stands approved is the version that the reviewer of the last approval saw.
ApprovedAsViewed ==
    CanFinalize => /\ approvedOn # NoView
                   /\ approvedOn.version = record.version

ViewsInv ==
    /\ \A h \in Handlers : viewed[h] # NoView => Faithful(viewed[h])
    /\ approvedOn # NoView => Faithful(approvedOn)
    /\ \A q \in Requests : NamesView(q)
    /\ ApprovedAsViewed

\* Up to the first stale write of the case the sign-off keeps its own invariant.
ReviewInv ==
    /\ CaseInv
    /\ ReviewTyped
    /\ ~caseContended => IInv /\ ViewsInv

\* A step of a handler is the same step for the theorems.
LEMMA SameStep ==
    ASSUME NEW w \in Workers, Lifecycle!Step(w)
    PROVE  Proved!Step(w)
<1>0. /\ Lifecycle!State = Proved!State /\ Lifecycle!Reasons = Proved!Reasons
      /\ Lifecycle!allowedTransitions = Proved!allowedTransitions
  BY DEF Lifecycle!State, Lifecycle!Reasons, Lifecycle!allowedTransitions,
         Proved!State, Proved!Reasons, Proved!allowedTransitions
<1>1. ASSUME NEW c, NEW r, Lifecycle!Admit(w, c, r)
      PROVE  Proved!Admit(w, c, r)
  BY <1>1 DEF Lifecycle!Admit, Lifecycle!repoVars, Proved!Admit, Proved!repoVars
<1>2. ASSUME NEW from, NEW to, NEW reason
      PROVE  Lifecycle!Record(from, to, reason) = Proved!Record(from, to, reason)
  BY DEF Lifecycle!Record, Proved!Record
<1>3. ASSUME NEW to, NEW reason, Lifecycle!Transition(w, to, reason)
      PROVE  Proved!Transition(w, to, reason)
  BY <1>0, <1>1, <1>2, <1>3
     DEF Lifecycle!Transition, Lifecycle!CanTransition,
         Proved!Transition, Proved!CanTransition
<1>4. ASSUME NEW reason, Lifecycle!Reopen(w, reason)
      PROVE  Proved!Reopen(w, reason)
  BY <1>1, <1>2, <1>4 DEF Lifecycle!Reopen, Proved!Reopen
<1>5. ASSUME NEW reason, Lifecycle!Archive(w, reason)
      PROVE  Proved!Archive(w, reason)
  BY <1>1, <1>2, <1>5 DEF Lifecycle!Archive, Proved!Archive
<1>6. ASSUME NEW keys, NEW merge, NEW version,
             Lifecycle!updateMetadata(w, keys, merge, version)
      PROVE  Proved!updateMetadata(w, keys, merge, version)
  BY <1>1, <1>6
     DEF Lifecycle!updateMetadata, Lifecycle!NewMetadata,
         Proved!updateMetadata, Proved!NewMetadata
<1>7. Lifecycle!Update(w) => Proved!Update(w)
  BY DEF Lifecycle!Update, Lifecycle!Finish, Proved!Update, Proved!Finish
<1>8. Lifecycle!AppendTransition(w) => Proved!AppendTransition(w)
  BY DEF Lifecycle!AppendTransition, Lifecycle!Finish, Lifecycle!historyVars,
         Proved!AppendTransition, Proved!Finish, Proved!historyVars
<1>9. Lifecycle!Fail(w) => Proved!Fail(w)
  BY DEF Lifecycle!Fail, Lifecycle!Finish, Lifecycle!repoVars,
         Proved!Fail, Proved!Finish, Proved!repoVars
<1> QED
  BY <1>0, <1>3, <1>4, <1>5, <1>6, <1>7, <1>8, <1>9
     DEF Lifecycle!Step, Proved!Step

\* The definitions of the case are those of its theorems.
LEMMA SameCase ==
    /\ Lifecycle!TypeOK <=> Proved!TypeOK
    /\ Lifecycle!Init => Proved!Init
    /\ Lifecycle!Next => Proved!Next
    /\ UNCHANGED caseVars => UNCHANGED Proved!vars
<1>1. Lifecycle!TypeOK <=> Proved!TypeOK
  BY DEF Lifecycle!TypeOK, Lifecycle!Case, Lifecycle!State,
         Lifecycle!TransitionRecord, Lifecycle!Reasons, Lifecycle!HandlerHolds,
         Proved!TypeOK, Proved!Case, Proved!State, Proved!TransitionRecord,
         Proved!Reasons, Proved!HandlerHolds
<1>2. Lifecycle!Init => Proved!Init
  BY DEF Lifecycle!Init, Lifecycle!NewCase, Proved!Init, Proved!NewCase
<1>3. Lifecycle!Next => Proved!Next
  BY SameStep DEF Lifecycle!Next, Proved!Next
<1>4. UNCHANGED caseVars => UNCHANGED Proved!vars
  BY DEF Proved!vars, Proved!localVars, Proved!historyVars, caseVars
<1> QED BY <1>1, <1>2, <1>3, <1>4

\* What the constants of the case are assumed to be.
LEMMA CaseConstants ==
    /\ MaxCaseOps \in Nat
    /\ NoRecord \notin Proved!TransitionRecord
    /\ NoCase \notin Proved!Case
<1>1. /\ Lifecycle!TransitionRecord = Proved!TransitionRecord
      /\ Lifecycle!Case = Proved!Case
  BY DEF Lifecycle!TransitionRecord, Lifecycle!Case, Lifecycle!State,
     Lifecycle!Reasons, Proved!TransitionRecord, Proved!Case, Proved!State,
     Proved!Reasons
<1> QED BY <1>1, CaseAssumption

-----------------------------------------------------------------------------
(* CaseReview.  The steps of the case.                                     *)

\* A request that passes its checks holds a copy one version further at most.
LEMMA CaseStepCases ==
    ASSUME Proved!TypeOK, NEW w \in Workers, Proved!Step(w)
    PROVE  \/ \E c \in Proved!Case, r \in Proved!TransitionRecord \cup {NoRecord} :
                 /\ Proved!Admit(w, c, r)
                 /\ c.metadataVersion \in {store.metadataVersion,
                                           store.metadataVersion + 1}
           \/ Proved!Update(w)
           \/ Proved!AppendTransition(w)
           \/ Proved!Fail(w)
<1> DEFINE Admitted(c, r) == /\ Proved!Admit(w, c, r)
                             /\ c.metadataVersion \in {store.metadataVersion,
                                                       store.metadataVersion + 1}
<1>0. /\ store \in Proved!Case /\ store.state \in Proved!State
      /\ caseClock + 1 \in Nat
  BY CaseConstants DEF Proved!TypeOK, Proved!Case
<1>1. ASSUME NEW from \in Proved!State, NEW to \in Proved!State,
             NEW reason \in Proved!Reasons
      PROVE  Proved!Record(from, to, reason) \in Proved!TransitionRecord
  BY <1>0 DEF Proved!Record, Proved!TransitionRecord
<1>2. ASSUME NEW to \in Proved!State, NEW reason \in Proved!Reasons,
             Proved!Transition(w, to, reason)
      PROVE  \E c \in Proved!Case, r \in Proved!TransitionRecord \cup {NoRecord} :
                Admitted(c, r)
  <2> DEFINE c == [store EXCEPT !.state = to]
  <2>1. c \in Proved!Case /\ c.metadataVersion = store.metadataVersion
    BY <1>0 DEF Proved!Case
  <2>2. Proved!Admit(w, c, Proved!Record(store.state, to, reason))
    BY <1>2 DEF Proved!Transition
  <2> HIDE DEF c
  <2> QED BY <1>0, <1>1, <2>1, <2>2
<1>3. ASSUME NEW reason \in Proved!Reasons, Proved!Reopen(w, reason)
      PROVE  \E c \in Proved!Case, r \in Proved!TransitionRecord \cup {NoRecord} :
                Admitted(c, r)
  <2> DEFINE c == [store EXCEPT !.state = "active"]
  <2>1. c \in Proved!Case /\ c.metadataVersion = store.metadataVersion
    BY <1>0 DEF Proved!Case, Proved!State
  <2>2. Proved!Admit(w, c, Proved!Record("closed", "active", reason))
    BY <1>3 DEF Proved!Reopen
  <2>3. "closed" \in Proved!State /\ "active" \in Proved!State
    BY DEF Proved!State
  <2> HIDE DEF c
  <2> QED BY <1>1, <2>1, <2>2, <2>3
<1>4. ASSUME NEW reason \in Proved!Reasons, Proved!Archive(w, reason)
      PROVE  \E c \in Proved!Case, r \in Proved!TransitionRecord \cup {NoRecord} :
                Admitted(c, r)
  <2> DEFINE c == [store EXCEPT !.state = "archived", !.archivedAt = TRUE]
  <2>1. c \in Proved!Case /\ c.metadataVersion = store.metadataVersion
    BY <1>0 DEF Proved!Case, Proved!State
  <2>2. Proved!Admit(w, c, Proved!Record("closed", "archived", reason))
    BY <1>4 DEF Proved!Archive
  <2>3. "closed" \in Proved!State /\ "archived" \in Proved!State
    BY DEF Proved!State
  <2> HIDE DEF c
  <2> QED BY <1>1, <2>1, <2>2, <2>3
<1>5. ASSUME NEW keys \in SUBSET Keys, NEW merge \in BOOLEAN, NEW version,
             Proved!updateMetadata(w, keys, merge, version)
      PROVE  \E c \in Proved!Case, r \in Proved!TransitionRecord \cup {NoRecord} :
                Admitted(c, r)
  <2> DEFINE c == [store EXCEPT !.metadata = Proved!NewMetadata(@, keys, merge),
                                !.metadataVersion = @ + 1]
  <2>1. Proved!NewMetadata(store.metadata, keys, merge) \in SUBSET Keys
    BY <1>0 DEF Proved!Case, Proved!NewMetadata
  <2>2. c \in Proved!Case
    <3>1. [store EXCEPT !.metadata = Proved!NewMetadata(@, keys, merge)]
             \in Proved!Case
      BY <1>0, <2>1 DEF Proved!Case
    <3>2. ASSUME NEW d \in Proved!Case
          PROVE  [d EXCEPT !.metadataVersion = @ + 1] \in Proved!Case
      BY DEF Proved!Case
    <3> QED BY <3>1, <3>2, Zenon
  <2>3. c.metadataVersion = store.metadataVersion + 1
    BY <1>0 DEF Proved!Case
  <2>4. Proved!Admit(w, c, NoRecord)
    BY <1>5 DEF Proved!updateMetadata
  <2> HIDE DEF c
  <2> QED BY <2>2, <2>3, <2>4
<1> QED BY <1>2, <1>3, <1>4, <1>5 DEF Proved!Step

\* The version of the row and of the copies stays within the requests.
LEMMA VersionBoundStep ==
    ASSUME Proved!TypeOK, VersionBound, NEW w \in Workers, Proved!Step(w)
    PROVE  VersionBound'
<1>0. caseClock \in Nat
  BY CaseConstants DEF Proved!TypeOK
<1>1. ASSUME NEW c \in Proved!Case, NEW r, Proved!Admit(w, c, r),
             c.metadataVersion \in {store.metadataVersion,
                                    store.metadataVersion + 1}
      PROVE  VersionBound'
  <2>1. store' = store /\ caseClock' = caseClock + 1
    BY <1>1 DEF Proved!Admit, Proved!repoVars
  <2>2. /\ casePc'[w] = "update" /\ clone'[w] = c
        /\ \A v \in Workers :
              v # w => casePc'[v] = casePc[v] /\ clone'[v] = clone[v]
    BY <1>1 DEF Proved!Admit, Proved!TypeOK
  <2> QED BY <1>0, <1>1, <2>1, <2>2 DEF VersionBound
<1>2. CASE Proved!Update(w)
  <2>1. /\ store' = clone[w] /\ casePc[w] = "update" /\ caseClock' = caseClock
    BY <1>2 DEF Proved!Update
  <2>2. /\ casePc'[w] # "update"
        /\ \A v \in Workers :
              v # w => casePc'[v] = casePc[v] /\ clone'[v] = clone[v]
    BY <1>2 DEF Proved!Update, Proved!Finish, Proved!TypeOK
  <2> QED BY <1>0, <2>1, <2>2 DEF VersionBound
<1>3. CASE Proved!AppendTransition(w) \/ Proved!Fail(w)
  <2>1. store' = store /\ caseClock' = caseClock
    BY <1>3 DEF Proved!AppendTransition, Proved!Fail, Proved!repoVars
  <2>2. /\ casePc'[w] # "update"
        /\ \A v \in Workers :
              v # w => casePc'[v] = casePc[v] /\ clone'[v] = clone[v]
    BY <1>3 DEF Proved!AppendTransition, Proved!Fail, Proved!Finish, Proved!TypeOK
  <2> QED BY <1>0, <2>1, <2>2 DEF VersionBound
<1> QED BY <1>1, <1>2, <1>3, CaseStepCases

\* As long as nobody writes from a stale copy the row changes as one accepted
\* request may change it.
LEMMA LegalStep ==
    ASSUME Proved!IInv, NEW w \in Workers, Proved!Step(w), ~caseContended'
    PROVE  /\ ~caseContended
           /\ store' = store \/ Proved!LegalWrite(store, store')
<1>0. Proved!TypeOK
  BY DEF Proved!IInv
<1>1. CASE Proved!Update(w)
  <2>1. /\ casePc[w] = "update" /\ ~caseStale[w] /\ ~caseContended
        /\ store' = clone[w]
    BY <1>1 DEF Proved!Update
  <2>2. Proved!LegalWrite(store, clone[w])
    BY <2>1 DEF Proved!IInv, Proved!CopyFresh
  <2> QED BY <2>1, <2>2
<1>2. CASE ~Proved!Update(w)
  <2>1. store' = store /\ caseContended' = caseContended
    BY <1>0, <1>2, CaseStepCases
       DEF Proved!Admit, Proved!AppendTransition, Proved!Fail,
           Proved!repoVars, Proved!historyVars
  <2> QED BY <2>1
<1> QED BY <1>1, <1>2

\* A new case starts at version 1, which is what the sign-off is told.
LEMMA CaseInvInit == ReviewInit => CaseInv
<1> SUFFICES ASSUME ReviewInit PROVE CaseInv
  OBVIOUS
<1>1. Proved!Init
  BY SameCase DEF ReviewInit
<1>2. Proved!IInv
  BY <1>1, CaseConstants, Proved!InvInit
<1>3. store.metadataVersion = 1 /\ caseClock = 0
  BY <1>1 DEF Proved!Init, Proved!NewCase
<1>4. \A w \in Workers : casePc[w] # "update"
  BY <1>1 DEF Proved!Init
<1>5. caseVersion = 1
  BY DEF ReviewInit, Init
<1> QED BY <1>2, <1>3, <1>4, <1>5 DEF CaseInv, VersionBound

\* A step of the review leaves the case and its version alone.
LEMMA ReviewLeavesCase ==
    ASSUME ReviewTyped, [ReviewNext]_reviewVars, ~CaseStep
    PROVE  UNCHANGED caseVars /\ caseVersion' = caseVersion
<1>0. TypeOK
  BY DEF ReviewTyped
<1>1. CASE UNCHANGED reviewVars
  BY <1>1 DEF reviewVars, vars
<1>2. ASSUME NEW h \in Handlers, ViewCase(h)
      PROVE  UNCHANGED caseVars /\ caseVersion' = caseVersion
  BY <1>2 DEF ViewCase, vars
<1>3. ASSUME NEW h \in Handlers, NEW kind \in Decisions, DecideOnViewed(h, kind)
      PROVE  UNCHANGED caseVars /\ caseVersion' = caseVersion
  BY <1>3 DEF DecideOnViewed, Decide, Begin
<1>4. ASSUME NEW q \in Requests, ReviewStep(q)
      PROVE  UNCHANGED caseVars /\ caseVersion' = caseVersion
  <2>1. RequestStep(q)
    BY <1>4 DEF ReviewStep, RequestStep
  <2>2. caseVersion' = caseVersion
    BY <1>0, <2>1, RequestStepCases
       DEF Started, Begin, Continue, ReadForDecision, ReadForReReview, Upsert,
           ReadForAwaiting, AppendAudit, Notify, Fail, Proceed
  <2> QED BY <1>4, <2>2 DEF ReviewStep
<1> QED BY <1>1, <1>2, <1>3, <1>4 DEF ReviewNext

\* The theorems about the case hold beside the review.
LEMMA CaseInvStep ==
    ASSUME CaseInv, ReviewTyped, [ReviewNext]_reviewVars
    PROVE  CaseInv'
<1>0. Proved!IInv /\ Proved!TypeOK /\ VersionBound
  BY DEF CaseInv, Proved!IInv
<1>1. CASE CaseStep
  <2>1. Proved!Next
    BY <1>1, SameCase DEF CaseStep
  <2>2. Proved!IInv'
    BY <1>0, <2>1, CaseConstants, Proved!InvStep
  <2>3. VersionBound'
    BY <1>0, <2>1, VersionBoundStep DEF Proved!Next
  <2> QED BY <1>1, <2>2, <2>3 DEF CaseInv, CaseStep
<1>2. CASE ~CaseStep
  <2>1. UNCHANGED caseVars /\ caseVersion' = caseVersion
    BY <1>2, ReviewLeavesCase
  <2>2. UNCHANGED Proved!vars
    BY <2>1, SameCase
  <2>3. Proved!IInv'
    BY <1>0, <2>2, CaseConstants, Proved!InvStep
  <2>4. VersionBound'
    BY <1>0, <2>1 DEF VersionBound, caseVars
  <2>5. store' = store
    BY <2>1 DEF caseVars
  <2> QED BY <2>1, <2>3, <2>4, <2>5 DEF CaseInv
<1> QED BY <1>1, <1>2

\* The version the sign-off is told is one of its versions.
LEMMA VersionTyped == CaseInv => caseVersion \in Versions
<1> SUFFICES ASSUME CaseInv PROVE caseVersion \in Versions
  OBVIOUS
<1>1. caseClock \in 0 .. MaxCaseOps
  BY DEF CaseInv, Proved!IInv, Proved!TypeOK
<1>2. caseVersion \in 1 .. caseClock + 1
  BY DEF CaseInv, VersionBound
<1> QED BY <1>1, <1>2, CaseAssumption, BoundsAssumption DEF Versions

-----------------------------------------------------------------------------
(* CaseReview.  Types.                                                     *)

\* Nothing has been viewed or approved.
LEMMA ReviewTypedInit == ReviewInit => ReviewTyped
<1> SUFFICES ASSUME ReviewInit PROVE ReviewTyped
  OBVIOUS
<1>1. Init /\ viewed = [h \in Handlers |-> NoView] /\ approvedOn = NoView
  BY DEF ReviewInit
<1>2. TypeOK /\ \A q \in Requests : pc[q] = "idle"
  BY <1>1, TypeInit, InitFacts
<1> QED BY <1>1, <1>2 DEF ReviewTyped, DecidesAsHandler

\* The steps of the review are steps of requests, or reads of the case.
LEMMA ReviewStepCases ==
    ASSUME CaseInv, [ReviewNext]_reviewVars
    PROVE  \/ UNCHANGED reviewVars
           \/ CaseStep
           \/ \E h \in Handlers : ViewCase(h)
           \/ \E h \in Handlers, kind \in Decisions :
                 DecideOnViewed(h, kind) /\ RequestStep(h)
           \/ \E q \in Requests : ReviewStep(q) /\ RequestStep(q)
<1>1. ASSUME NEW h \in Handlers, NEW kind \in Decisions, DecideOnViewed(h, kind)
      PROVE  RequestStep(h)
  <2>1. Decide(h, kind, caseVersion)
    BY <1>1 DEF DecideOnViewed, Decide
  <2> QED BY <2>1, VersionTyped DEF RequestStep
<1>2. ASSUME NEW q \in Requests, ReviewStep(q)
      PROVE  RequestStep(q)
  BY <1>2 DEF ReviewStep, RequestStep
<1> QED BY <1>1, <1>2 DEF ReviewNext

\* Only a handler begins with a decision, and it ends as it began.
LEMMA DecidesAsHandlerStep ==
    ASSUME TypeOK, NEW q \in Requests, RequestStep(q),
           NEW p \in Requests, DecidesAsHandler(p)
    PROVE  DecidesAsHandler(p)'
<1>1. ASSUME NEW kind \in Decisions, NEW version \in Versions,
             q \in Handlers, Decide(q, kind, version)
      PROVE  DecidesAsHandler(p)'
  BY <1>1 DEF Decide, Begin, DecidesAsHandler, TypeOK
<1>2. CASE MarkAwaitingSignoff(q) \/ ReReviewOnCaseUpdate(q)
  <2>1. PICK kind \in {"awaiting", "rereview"} :
               Begin(q, kind, caseVersion)
    BY <1>2 DEF MarkAwaitingSignoff, ReReviewOnCaseUpdate, TypeOK
  <2>2. CASE p = q
    <3>1. job'[p].kind = kind
      BY <2>1, <2>2 DEF Begin, TypeOK
    <3> QED BY <3>1 DEF DecidesAsHandler
  <2>3. CASE p # q
    BY <2>1, <2>3 DEF Begin, DecidesAsHandler, TypeOK
  <2> QED BY <2>2, <2>3
<1>3. CASE Continue(q) \/ Fail(q)
  BY <1>3, JobKept DEF DecidesAsHandler
<1> QED BY <1>1, <1>2, <1>3 DEF RequestStep

\* What a reviewer is shown is a view.
LEMMA ShownTyped == CaseInv => Shown(store) \in View
  BY DEF CaseInv, Proved!IInv, Proved!TypeOK, Proved!Case, Shown, View

\* Every step keeps the review well typed.
LEMMA ReviewTypedStep ==
    ASSUME CaseInv, CaseInv', ReviewTyped, [ReviewNext]_reviewVars
    PROVE  ReviewTyped'
<1>0. /\ TypeOK
      /\ viewed \in [Handlers -> View \cup {NoView}]
      /\ approvedOn \in View \cup {NoView}
      /\ \A q \in Requests : DecidesAsHandler(q)
  BY DEF ReviewTyped
<1>6. (caseVersion \in Versions)'
  BY VersionTyped, PTL
<1>1. CASE UNCHANGED reviewVars
  <2>1. UNCHANGED vars /\ viewed' = viewed /\ approvedOn' = approvedOn
    BY <1>1 DEF reviewVars
  <2>2. TypeOK'
    BY <1>0, <2>1, TypeStep
  <2>3. pc' = pc /\ job' = job
    BY <2>1 DEF vars
  <2> QED BY <1>0, <2>1, <2>2, <2>3 DEF ReviewTyped, DecidesAsHandler
<1>2. CASE CaseStep
  <2>1. UNCHANGED <<signoffVars, viewed, approvedOn>>
    BY <1>2 DEF CaseStep
  <2>2. overtaken' \in [Requests -> BOOLEAN] /\ reviewed' \in BOOLEAN
    BY <1>0, <1>2 DEF CaseStep, TypeOK
  <2>3. TypeOK'
    BY <1>0, <1>6, <2>1, <2>2 DEF TypeOK, signoffVars, repoVars
  <2> QED BY <1>0, <2>1, <2>3 DEF ReviewTyped, DecidesAsHandler, signoffVars
<1>3. ASSUME NEW h \in Handlers, ViewCase(h) PROVE ReviewTyped'
  <2>1. UNCHANGED vars /\ approvedOn' = approvedOn
    BY <1>3 DEF ViewCase
  <2>2. viewed' \in [Handlers -> View \cup {NoView}]
    BY <1>0, <1>3, ShownTyped DEF ViewCase
  <2>3. TypeOK'
    BY <1>0, <2>1, TypeStep
  <2>4. pc' = pc /\ job' = job
    BY <2>1 DEF vars
  <2> QED BY <1>0, <2>1, <2>2, <2>3, <2>4 DEF ReviewTyped, DecidesAsHandler
<1>4. ASSUME NEW h \in Handlers, NEW kind \in Decisions,
             DecideOnViewed(h, kind), RequestStep(h)
      PROVE  ReviewTyped'
  <2>0. h \in Requests
    BY DEF Requests
  <2>1. TypeOK' /\ \A q \in Requests : DecidesAsHandler(q)'
    BY <1>0, <1>4, <2>0, TypeStep, DecidesAsHandlerStep DEF Next
  <2> QED BY <1>0, <1>4, <2>1 DEF ReviewTyped, DecideOnViewed
<1>5. ASSUME NEW q \in Requests, ReviewStep(q), RequestStep(q)
      PROVE  ReviewTyped'
  <2>1. TypeOK' /\ \A p \in Requests : DecidesAsHandler(p)'
    BY <1>0, <1>5, TypeStep, DecidesAsHandlerStep DEF Next
  <2>2. viewed' = viewed
    BY <1>5 DEF ReviewStep
  <2>3. approvedOn' \in View \cup {NoView}
    <3>1. CASE Upsert(q) /\ job[q].kind = "approve"
      <4>1. q \in Handlers
        BY <1>0, <3>1 DEF DecidesAsHandler, Upsert
      <4> QED BY <1>0, <1>5, <3>1, <4>1 DEF ReviewStep
    <3>2. CASE ~(Upsert(q) /\ job[q].kind = "approve")
      BY <1>0, <1>5, <3>2 DEF ReviewStep
    <3> QED BY <3>1, <3>2
  <2> QED BY <1>0, <2>1, <2>2, <2>3 DEF ReviewTyped
<1> QED BY <1>1, <1>2, <1>3, <1>4, <1>5, ReviewStepCases

-----------------------------------------------------------------------------
(* CaseReview.  The implementation of Signoff up to the first stale write. *)

\* A step of the case that writes from no stale copy is an edit, or nothing, to
\* the sign-off.
LEMMA CaseStepIsEdit ==
    ASSUME CaseInv, CaseInv', ReviewTyped, CaseStep, ~caseContended'
    PROVE  EditCase \/ UNCHANGED vars
<1>0. /\ Proved!IInv /\ store \in Proved!Case
      /\ caseVersion = store.metadataVersion
      /\ caseVersion' = store'.metadataVersion
  BY DEF CaseInv, Proved!IInv, Proved!TypeOK
<1>1. PICK w \in Workers : Proved!Step(w)
  BY SameCase DEF CaseStep, Proved!Next
<1>2. \/ store' = store
      \/ Proved!LegalWrite(store, store')
  BY <1>0, <1>1, LegalStep
<1>3. caseVersion' \in {caseVersion, caseVersion + 1}
  <2>1. CASE store' = store
    BY <1>0, <2>1
  <2>2. CASE Proved!LegalWrite(store, store')
    BY <1>0, <2>2 DEF Proved!LegalWrite, Proved!Case
  <2> QED BY <1>2, <2>1, <2>2
<1>4. UNCHANGED signoffVars
  BY DEF CaseStep
<1>5. CASE caseVersion' = caseVersion
  BY <1>4, <1>5 DEF CaseStep, vars, signoffVars, historyVars
<1>6. CASE caseVersion' = caseVersion + 1
  <2>1. (caseVersion \in Versions)'
    BY VersionTyped, PTL
  <2>2. caseVersion < MaxVersion /\ caseVersion' # caseVersion
    BY <1>6, <2>1, VersionTyped, BoundsAssumption DEF Versions
  <2> QED BY <1>4, <1>6, <2>2 DEF CaseStep, EditCase, signoffVars
<1> QED BY <1>3, <1>5, <1>6

\* Until a case handler writes from a stale copy, every step of the two
\* components is a step of Signoff or none.
LEMMA SignoffStep ==
    ASSUME CaseInv, CaseInv', ReviewTyped, [ReviewNext]_reviewVars,
           ~caseContended'
    PROVE  [Next]_vars
<1>1. CASE CaseStep
  BY <1>1, CaseStepIsEdit DEF Next
<1>2. CASE UNCHANGED reviewVars
  BY <1>2 DEF reviewVars
<1>3. ASSUME NEW h \in Handlers, ViewCase(h) PROVE UNCHANGED vars
  BY <1>3 DEF ViewCase
<1>4. ASSUME NEW h \in Handlers, RequestStep(h) PROVE Next
  BY <1>4 DEF Next, Requests
<1> QED BY <1>1, <1>2, <1>3, <1>4, ReviewStepCases DEF Next

\* A write from a stale copy is never forgotten.
LEMMA ContendedStays ==
    ASSUME CaseInv, ReviewTyped, [ReviewNext]_reviewVars, ~caseContended'
    PROVE  ~caseContended
<1>1. CASE CaseStep
  <2>1. PICK w \in Workers : Proved!Step(w)
    BY <1>1, SameCase DEF CaseStep, Proved!Next
  <2> QED BY <2>1, LegalStep DEF CaseInv
<1>2. CASE ~CaseStep
  BY <1>2, ReviewLeavesCase DEF caseVars
<1> QED BY <1>1, <1>2

-----------------------------------------------------------------------------
(* CaseReview.  What has been viewed and approved.                         *)

\* An edit leaves what was read an earlier version; any other step of the case
\* leaves the content alone.
LEMMA FaithfulStep ==
    ASSUME CaseInv, CaseStep, ~caseContended', NEW CONSTANT v, Faithful(v)
    PROVE  Faithful(v)'
<1>0. /\ Proved!IInv /\ store \in Proved!Case
  BY DEF CaseInv, Proved!IInv, Proved!TypeOK
<1>1. PICK w \in Workers : Proved!Step(w)
  BY SameCase DEF CaseStep, Proved!Next
<1>2. \/ store' = store
      \/ Proved!LegalWrite(store, store')
  BY <1>0, <1>1, LegalStep
<1>3. v.version \in Nat /\ store.metadataVersion \in Nat
  BY <1>0 DEF Faithful, View, Proved!Case
<1>4. CASE store'.metadataVersion = store.metadataVersion + 1
  BY <1>3, <1>4 DEF Faithful
<1>5. CASE /\ store'.metadataVersion = store.metadataVersion
           /\ store'.metadata = store.metadata
  BY <1>3, <1>5 DEF Faithful, Shown
<1>6. \/ store'.metadataVersion = store.metadataVersion + 1
      \/ /\ store'.metadataVersion = store.metadataVersion
         /\ store'.metadata = store.metadata
  BY <1>0, <1>2 DEF Proved!LegalWrite, Proved!Case
<1> QED BY <1>4, <1>5, <1>6

\* A step of a request that writes no approval leaves what stands approved, and
\* a write of one makes it what the request names.
LEMMA ApprovalStep ==
    ASSUME TypeOK, NEW q \in Requests, RequestStep(q)
    PROVE  /\ ~Upsert(q) => record' = record
           /\ Upsert(q) /\ job[q].kind # "approve" => ~CanFinalize'
           /\ Upsert(q) => record'.version = job[q].version
<1>1. ~Upsert(q) => record' = record
  BY BystanderStep
<1>2. ASSUME Upsert(q), job[q].kind # "approve" PROVE ~CanFinalize'
  <2>1. record' = NewRecord(job[q]) /\ job[q] \in Job
    BY <1>2 DEF Upsert, TypeOK
  <2>2. record'.status # "approved"
    BY <1>2, <2>1 DEF NewRecord, Outcome
  <2> QED BY <2>2 DEF CanFinalize, StatusNow
<1>3. Upsert(q) => record'.version = job[q].version
  BY DEF Upsert, NewRecord
<1> QED BY <1>1, <1>2, <1>3

\* A request that is not at its start names the view it began with.
LEMMA NamesViewStep ==
    ASSUME TypeOK, NEW q \in Requests, RequestStep(q), viewed' = viewed,
           \/ ReviewStep(q)
           \/ \E kind \in Decisions : DecideOnViewed(q, kind),
           NEW p \in Requests, NamesView(p)
    PROVE  NamesView(p)'
<1>1. ASSUME NEW kind \in Decisions, DecideOnViewed(q, kind)
      PROVE  NamesView(p)'
  <2>1. viewed[q] # NoView /\ Begin(q, kind, viewed[q].version)
    BY <1>1 DEF DecideOnViewed, Decide
  <2>2. CASE p = q
    <3>1. job'[p].version = viewed[q].version
      BY <2>1, <2>2 DEF Begin, TypeOK
    <3> QED BY <2>1, <2>2, <3>1 DEF NamesView
  <2>3. CASE p # q
    BY <2>1, <2>3 DEF Begin, NamesView, TypeOK
  <2> QED BY <2>2, <2>3
<1>2. CASE MarkAwaitingSignoff(q) \/ ReReviewOnCaseUpdate(q)
  <2>1. PICK kind \in {"awaiting", "rereview"} :
               Begin(q, kind, caseVersion)
    BY <1>2 DEF MarkAwaitingSignoff, ReReviewOnCaseUpdate, TypeOK
  <2>2. CASE p = q
    <3>1. job'[p].kind = kind
      BY <2>1, <2>2 DEF Begin, TypeOK
    <3> QED BY <3>1 DEF NamesView
  <2>3. CASE p # q
    BY <2>1, <2>3 DEF Begin, NamesView, TypeOK
  <2> QED BY <2>2, <2>3
<1>3. CASE Continue(q) \/ Fail(q)
  <2>1. pc'[p] # "idle" => /\ pc[p] # "idle" /\ job'[p].version = job[p].version
                           /\ job'[p].kind = job[p].kind
    BY <1>3, JobKept
  <2> QED BY <2>1 DEF NamesView
<1> QED BY <1>1, <1>2, <1>3 DEF ReviewStep

\* Views stay faithful and approvals stay named by them.
LEMMA ViewsInvStep ==
    ASSUME CaseInv, ReviewTyped, ViewsInv, [ReviewNext]_reviewVars,
           ~caseContended'
    PROVE  ViewsInv'
<1>0. /\ TypeOK /\ Shown(store) \in View /\ store.metadataVersion \in Nat
      /\ viewed \in [Handlers -> View \cup {NoView}]
  BY ShownTyped DEF ReviewTyped, CaseInv, Proved!IInv, Proved!TypeOK, Proved!Case
<1>1. ASSUME UNCHANGED caseVars, NEW CONSTANT v, Faithful(v)
      PROVE  Faithful(v)'
  <2>1. store' = store
    BY <1>1 DEF caseVars
  <2> QED BY <1>1, <2>1 DEF Faithful, Shown
<1>2. CASE UNCHANGED reviewVars
  <2>1. /\ UNCHANGED caseVars /\ viewed' = viewed /\ approvedOn' = approvedOn
        /\ pc' = pc /\ job' = job /\ record' = record
    BY <1>2 DEF reviewVars, vars, repoVars
  <2> QED BY <1>1, <2>1 DEF ViewsInv, NamesView, ApprovedAsViewed, CanFinalize,
                            StatusNow
<1>3. CASE CaseStep
  <2>1. /\ viewed' = viewed /\ approvedOn' = approvedOn
        /\ pc' = pc /\ job' = job /\ record' = record
    BY <1>3 DEF CaseStep, signoffVars, repoVars
  <2>2. ASSUME NEW CONSTANT v, Faithful(v) PROVE Faithful(v)'
    BY <1>3, <2>2, FaithfulStep
  <2> QED BY <2>1, <2>2 DEF ViewsInv, NamesView, ApprovedAsViewed, CanFinalize,
                            StatusNow
<1>4. ASSUME NEW h \in Handlers, ViewCase(h) PROVE ViewsInv'
  <2>1. /\ UNCHANGED caseVars /\ approvedOn' = approvedOn
        /\ pc' = pc /\ job' = job /\ record' = record
    BY <1>4 DEF ViewCase, vars, repoVars
  <2>2. \A g \in Handlers : g # h => viewed'[g] = viewed[g]
    BY <1>0, <1>4 DEF ViewCase
  <2>3. Faithful(viewed[h])'
    <3>1. viewed'[h] = Shown(store) /\ store' = store
      BY <1>0, <1>4, <2>1 DEF ViewCase, caseVars
    <3>2. Shown(store).version = store.metadataVersion
      BY DEF Shown
    <3> QED BY <1>0, <3>1, <3>2 DEF Faithful, Shown
  <2>4. ASSUME NEW g \in Handlers, viewed'[g] # NoView
        PROVE  Faithful(viewed[g])'
    <3>1. CASE g = h
      BY <2>3, <3>1
    <3>2. CASE g # h
      <4>1. Faithful(viewed[g]) /\ viewed'[g] = viewed[g]
        BY <2>2, <2>4, <3>2 DEF ViewsInv
      <4> QED BY <1>1, <2>1, <4>1
    <3> QED BY <3>1, <3>2
  <2>5. ASSUME NEW q \in Requests PROVE NamesView(q)'
    <3> SUFFICES ASSUME pc'[q] # "idle", job'[q].kind = "approve"
                 PROVE  /\ viewed'[q] # NoView
                        /\ viewed'[q].version = job'[q].version
      BY DEF NamesView
    <3>1. q # h
      BY <1>4, <2>1 DEF ViewCase
    <3>2. q \in Handlers
      BY <2>1 DEF ReviewTyped, DecidesAsHandler
    <3> QED BY <2>1, <2>2, <3>1, <3>2 DEF ViewsInv, NamesView
  <2>6. approvedOn' # NoView => Faithful(approvedOn)'
    BY <1>1, <2>1 DEF ViewsInv
  <2>7. ApprovedAsViewed'
    BY <2>1 DEF ViewsInv, ApprovedAsViewed, CanFinalize, StatusNow
  <2> QED BY <2>4, <2>5, <2>6, <2>7 DEF ViewsInv
<1>5. ASSUME NEW q \in Requests, RequestStep(q), UNCHANGED caseVars,
             viewed' = viewed, ~Upsert(q), approvedOn' = approvedOn,
             \/ ReviewStep(q)
             \/ \E kind \in Decisions : DecideOnViewed(q, kind)
      PROVE  ViewsInv'
  <2>1. \A p \in Requests : NamesView(p)'
    BY <1>0, <1>5, NamesViewStep DEF ViewsInv
  <2>2. record' = record
    BY <1>0, <1>5, ApprovalStep
  <2>3. ApprovedAsViewed'
    BY <1>5, <2>2 DEF ViewsInv, ApprovedAsViewed, CanFinalize, StatusNow
  <2> QED BY <1>1, <1>5, <2>1, <2>3 DEF ViewsInv
<1>6. ASSUME NEW q \in Requests, ReviewStep(q), RequestStep(q), Upsert(q)
      PROVE  ViewsInv'
  <2>0. UNCHANGED caseVars /\ viewed' = viewed
    BY <1>6 DEF ReviewStep
  <2>1. \A p \in Requests : NamesView(p)'
    BY <1>0, <1>6, <2>0, NamesViewStep DEF ViewsInv
  <2>2. CASE job[q].kind = "approve"
    <3>1. approvedOn' = viewed[q] /\ record'.version = job[q].version
      BY <1>0, <1>6, <2>2, ApprovalStep DEF ReviewStep
    <3>2. q \in Handlers /\ viewed[q] # NoView /\ viewed[q].version = job[q].version
      BY <1>6, <2>2 DEF ViewsInv, NamesView, ReviewTyped, DecidesAsHandler, Upsert
    <3>3. Faithful(viewed[q])
      BY <3>2 DEF ViewsInv
    <3>4. Faithful(approvedOn)'
      BY <1>1, <2>0, <3>1, <3>3
    <3> QED BY <1>1, <2>0, <2>1, <3>1, <3>2, <3>4 DEF ViewsInv, ApprovedAsViewed
  <2>3. CASE job[q].kind # "approve"
    <3>1. approvedOn' = approvedOn /\ ~CanFinalize'
      BY <1>0, <1>6, <2>3, ApprovalStep DEF ReviewStep
    <3> QED BY <1>1, <2>0, <2>1, <3>1 DEF ViewsInv, ApprovedAsViewed
  <2> QED BY <2>2, <2>3
<1>7. ASSUME NEW h \in Handlers, NEW kind \in Decisions,
             DecideOnViewed(h, kind), RequestStep(h)
      PROVE  ViewsInv'
  <2>1. /\ UNCHANGED caseVars /\ viewed' = viewed /\ approvedOn' = approvedOn
        /\ pc[h] = "idle"
    BY <1>7 DEF DecideOnViewed, Decide, Begin
  <2>2. ~Upsert(h)
    BY <2>1 DEF Upsert
  <2> QED BY <1>5, <1>7, <2>1, <2>2 DEF Requests
<1>8. ASSUME NEW q \in Requests, ReviewStep(q), RequestStep(q), ~Upsert(q)
      PROVE  ViewsInv'
  <2>1. UNCHANGED caseVars /\ viewed' = viewed /\ approvedOn' = approvedOn
    BY <1>8 DEF ReviewStep
  <2> QED BY <1>5, <1>8, <2>1
<1> QED BY <1>2, <1>3, <1>4, <1>6, <1>7, <1>8, ReviewStepCases

-----------------------------------------------------------------------------
(* CaseReview.  The theorems.                                              *)

\* Nothing has been viewed, decided or written.
LEMMA ReviewInvInit == ReviewInit => ReviewInv
<1> SUFFICES ASSUME ReviewInit PROVE ReviewInv
  OBVIOUS
<1>1. Init /\ viewed = [h \in Handlers |-> NoView] /\ approvedOn = NoView
  BY DEF ReviewInit
<1>2. record = NoSignoff /\ \A q \in Requests : pc[q] = "idle"
  BY <1>1, InitFacts
<1>3. ViewsInv
  BY <1>1, <1>2 DEF ViewsInv, NamesView, ApprovedAsViewed, CanFinalize, StatusNow
<1> QED BY <1>1, <1>3, CaseInvInit, ReviewTypedInit, IInvInit DEF ReviewInv

\* Every step keeps the invariant of the two components.
LEMMA ReviewInvStep == ReviewInv /\ [ReviewNext]_reviewVars => ReviewInv'
<1> SUFFICES ASSUME ReviewInv, [ReviewNext]_reviewVars PROVE ReviewInv'
  OBVIOUS
<1>0. CaseInv /\ ReviewTyped
  BY DEF ReviewInv
<1>1. CaseInv'
  BY <1>0, CaseInvStep
<1>2. ReviewTyped'
  BY <1>0, <1>1, ReviewTypedStep
<1>3. ASSUME ~caseContended' PROVE IInv' /\ ViewsInv'
  <2>1. IInv /\ ViewsInv
    BY <1>0, <1>3, ContendedStays DEF ReviewInv
  <2>2. [Next]_vars
    BY <1>0, <1>1, <1>3, SignoffStep
  <2> QED BY <1>0, <1>3, <2>1, <2>2, IInvStep, ViewsInvStep
<1> QED BY <1>1, <1>2, <1>3 DEF ReviewInv

\* The invariant of the two components holds in every reachable state.
LEMMA ReviewInvHolds == ReviewSpec => []ReviewInv
BY ReviewInvInit, ReviewInvStep, PTL DEF ReviewSpec

\* Both components stay well typed together, and the sign-off is always told the
\* version that the row carries, however many handlers write from stale copies.
THEOREM ReviewTypeCorrect == ReviewSpec => []ReviewTypeOK
<1>1. ReviewInv => ReviewTypeOK
  BY SameCase DEF ReviewInv, CaseInv, ReviewTyped, Proved!IInv, ReviewTypeOK
<1> QED BY <1>1, ReviewInvHolds, PTL

\* Up to the first case handler that writes from a stale copy, the case handlers
\* and the requests of the sign-off together behave as Signoff says that the
\* requests behave beside a case whose version only grows.
THEOREM ImplementsSignoffHolds == ReviewSpec => ImplementsSignoff
<1>1. ReviewInit => Init
  BY DEF ReviewInit
<1>2. ReviewInv /\ ReviewInv' /\ [ReviewNext]_reviewVars
          => [caseContended' \/ Next]_vars
  BY SignoffStep DEF ReviewInv
<1> QED BY <1>1, <1>2, ReviewInvHolds, PTL DEF ReviewSpec, ImplementsSignoff

\* What the gate lets through has been read by the reviewer who approved it, to
\* the last metadata key, once a re-review has run since the last edit, unless an
\* edit overtook an approval or a case handler wrote from a stale copy.
THEOREM GateShowsReviewedContentHolds ==
    ReviewSpec => []GateShowsReviewedContent
<1>1. ReviewInv => GateShowsReviewedContent
  <2> SUFFICES ASSUME ReviewInv, CanFinalize, reviewed, ~late, ~caseContended
               PROVE  approvedOn = Shown(store)
    BY DEF GateShowsReviewedContent
  <2>1. ~StaleApproval
    BY DEF ReviewInv, IInv, ReReviewSettles
  <2>2. record.version = store.metadataVersion
    BY <2>1 DEF StaleApproval, ReviewInv, CaseInv
  <2>3. approvedOn # NoView /\ approvedOn.version = record.version
    BY DEF ReviewInv, ViewsInv, ApprovedAsViewed
  <2> QED BY <2>2, <2>3 DEF ReviewInv, ViewsInv, Faithful
<1> QED BY <1>1, ReviewInvHolds, PTL

\* If at most one handler of the case runs at a time no copy of the row is ever
\* stale, so that the two components implement Signoff for good: what is proved
\* of Signoff then holds beside the real case.
THEOREM SerialImplementsSignoff ==
    ASSUME \A v, w \in Workers : v = w
    PROVE  ReviewSpec => Spec
<1>1. ReviewInit => Proved!NoneStale
  BY SameCase DEF ReviewInit, Proved!Init, Proved!NoneStale
<1>2. ReviewInv /\ Proved!NoneStale /\ [ReviewNext]_reviewVars
          => Proved!NoneStale'
  <2> SUFFICES ASSUME ReviewInv, Proved!NoneStale, [ReviewNext]_reviewVars
               PROVE  Proved!NoneStale'
    OBVIOUS
  <2>1. Proved!TypeOK
    BY DEF ReviewInv, CaseInv, Proved!IInv
  <2>2. Proved!Next \/ UNCHANGED Proved!vars
    <3>1. CASE CaseStep
      BY <3>1, SameCase DEF CaseStep
    <3>2. CASE ~CaseStep
      BY <3>2, ReviewLeavesCase, SameCase DEF ReviewInv
    <3> QED BY <3>1, <3>2
  <2> QED BY <2>1, <2>2, CaseConstants, Proved!NoneStaleStep
<1>3. ReviewSpec => []Proved!NoneStale
  BY <1>1, <1>2, ReviewInvHolds, PTL DEF ReviewSpec
<1>4. Proved!NoneStale' /\ [caseContended' \/ Next]_vars => [Next]_vars
  BY DEF Proved!NoneStale
<1>5. ReviewSpec => Init
  BY ImplementsSignoffHolds, PTL DEF ImplementsSignoff
<1>6. ReviewSpec => [][Next]_vars
  BY <1>3, <1>4, ImplementsSignoffHolds, PTL DEF ImplementsSignoff
<1> QED BY <1>5, <1>6, PTL DEF Spec

=============================================================================
