------------------------------ MODULE Signoff ------------------------------
(***************************************************************************)
(* packages/signoff with the gate of packages/guardrail: the sign-off      *)
(* record of one case, its audit trail, and the requests that read and     *)
(* write them.                                                             *)
(*                                                                         *)
(* The record binds a decision to the MetadataVersion of the case that was *)
(* reviewed.  Every operation first asks the CaseVersionReader for the     *)
(* live version, then reads the record, then overwrites it (Upsert), then  *)
(* appends an AuditEntry.  Nothing holds the case or the record still in   *)
(* between, and a request may fail at each call.                           *)
(***************************************************************************)
EXTENDS Naturals

CONSTANTS
    Handlers,   \* requests that may run at the same time
    Poller,     \* the scheduled caller of ReReviewOnCaseUpdate
    MaxVersion, \* bound on the versions the case goes through
    MaxOps,     \* bound on the decisions and announcements of Handlers
    MaxFails,   \* bound on the failures before the system recovers
    NoSignoff,  \* the case has no record yet
    NoJob       \* what an idle request holds

ASSUME PollerAssumption == Poller \notin Handlers
ASSUME BoundsAssumption ==
    MaxVersion \in Nat \ {0} /\ MaxOps \in Nat /\ MaxFails \in Nat

Requests == Handlers \cup {Poller}

VARIABLES
    caseVersion, \* what CaseVersionReader.CaseVersion returns
    record,      \* the SignoffRecord of the case, or NoSignoff
    audit,       \* its AuditEntries
    ops,         \* decisions and announcements of Handlers so far
    fails,       \* requests that failed so far
    pc,          \* the next call of each request
    job,         \* the arguments and the results of its earlier calls
    stale,       \* history: the record was written since the request read it
    lost,        \* history: an AuditEntry or a notification was never made
    overtaken,   \* history: the case changed since the request began
    late,        \* history: an approval was written after the case changed
    reviewed,    \* history: a re-review of the live version has run to its end
    notices      \* history: versions announced by a re-review

repoVars == <<record, audit>>
historyVars == <<stale, lost, overtaken, late, reviewed, notices>>
vars == <<caseVersion, repoVars, ops, fails, pc, job, historyVars>>

-----------------------------------------------------------------------------

Status == {"pending", "approved", "rejected"}
DecisionSource == {"reviewer", "re_review", "initial"}
Versions == 1 .. MaxVersion

SignoffRecord ==
    [ status : Status, version : Versions, source : DecisionSource ]

\* OccurredAt is left out: no rule of the gate reads it.
AuditEntry == [ from : Status, to : Status, version : Versions,
                source : DecisionSource ]

Kind == {"approve", "reject", "rereview", "awaiting"}
Decisions == {"approve", "reject"}

Job == [ kind : Kind, version : Versions, from : Status ]

ASSUME NoSignoffAssumption == NoSignoff \notin SignoffRecord
ASSUME NoJobAssumption == NoJob \notin Job

\* The status a request writes and the DecisionSource it names.
Outcome(kind) ==
    CASE kind = "approve" -> "approved"
      [] kind = "reject"  -> "rejected"
      [] OTHER            -> "pending"

SourceOf(kind) ==
    CASE kind \in Decisions -> "reviewer"
      [] kind = "rereview"  -> "re_review"
      [] OTHER              -> "initial"

\* GateImpl.Status, and the FromStatus of currentOrInitial: no record is pending.
StatusNow == IF record = NoSignoff THEN "pending" ELSE record.status

CanFinalize == StatusNow = "approved"

Init ==
    /\ caseVersion = 1
    /\ record = NoSignoff
    /\ audit = {}
    /\ ops = 0 /\ fails = 0
    /\ pc = [q \in Requests |-> "idle"]
    /\ job = [q \in Requests |-> NoJob]
    /\ stale = [q \in Requests |-> FALSE]
    /\ lost = FALSE
    /\ overtaken = [q \in Requests |-> FALSE]
    /\ late = FALSE
    /\ reviewed = FALSE
    /\ notices = {}

-----------------------------------------------------------------------------
(* First call: the live version of the case.                               *)

Begin(q, kind, version) ==
    /\ pc[q] = "idle"
    /\ pc' = [pc EXCEPT ![q] = "get"]
    /\ job' = [job EXCEPT ![q] = [ kind |-> kind, version |-> version,
                                   from |-> "pending" ]]
    /\ overtaken' = [overtaken EXCEPT ![q] = FALSE]
    /\ UNCHANGED <<caseVersion, repoVars, fails, stale, lost, late,
                   reviewed, notices>>

\* A defect: the version the reviewer saw is not compared with the live one.
Decide_AnyVersion(q, kind, version) ==
    /\ ops < MaxOps
    /\ ops' = ops + 1
    /\ Begin(q, kind, version)

\* Approve and Reject of a reviewer who saw the given version.
Decide(q, kind, version) ==
    /\ ops < MaxOps
    /\ version = caseVersion
    /\ ops' = ops + 1
    /\ Begin(q, kind, version)

ReReviewOnCaseUpdate(q) ==
    /\ Begin(q, "rereview", caseVersion)
    /\ UNCHANGED ops

MarkAwaitingSignoff(q) ==
    /\ ops < MaxOps
    /\ ops' = ops + 1
    /\ Begin(q, "awaiting", caseVersion)

-----------------------------------------------------------------------------
(* Second call: the record.                                                *)

Finish(q) ==
    /\ pc' = [pc EXCEPT ![q] = "idle"]
    /\ job' = [job EXCEPT ![q] = NoJob]
    /\ overtaken' = [overtaken EXCEPT ![q] = FALSE]

\* q has read the record and goes on with the given job.
Proceed(q, next, j) ==
    /\ pc' = [pc EXCEPT ![q] = next]
    /\ job' = [job EXCEPT ![q] = j]
    /\ stale' = [stale EXCEPT ![q] = FALSE]
    /\ UNCHANGED <<caseVersion, repoVars, fails, lost, overtaken,
                   late, reviewed, notices>>

ReadForDecision(q) ==
    /\ pc[q] = "get"
    /\ job[q].kind \in Decisions
    /\ Proceed(q, "upsert", [job[q] EXCEPT !.from = StatusNow])
    /\ UNCHANGED ops

\* A defect: only a decrease of the version is noticed.
Outdated_Decreased(version) ==
    /\ record # NoSignoff
    /\ record.status = "approved"
    /\ record.version > version

\* A defect: a rejected record is reverted as well.
Outdated_AnyStatus(version) ==
    record # NoSignoff /\ record.version # version

\* An approval of another version than the given one.
Outdated(version) ==
    /\ record # NoSignoff
    /\ record.status = "approved"
    /\ record.version # version

ReadForReReview(q) ==
    /\ pc[q] = "get"
    /\ job[q].kind = "rereview"
    /\ \/ /\ Outdated(job[q].version)
          /\ Proceed(q, "upsert", [job[q] EXCEPT !.from = record.status])
          /\ UNCHANGED ops
       \/ /\ ~ Outdated(job[q].version)
          /\ Finish(q)
          /\ reviewed' = (reviewed \/ job[q].version = caseVersion)
          /\ UNCHANGED <<caseVersion, repoVars, ops, fails, stale,
                         lost, late, notices>>

\* A defect: an existing record is not spared.
ReadForAwaiting_Always(q) ==
    /\ pc[q] = "get"
    /\ job[q].kind = "awaiting"
    /\ Proceed(q, "upsert", job[q])
    /\ UNCHANGED ops

ReadForAwaiting(q) ==
    /\ pc[q] = "get"
    /\ job[q].kind = "awaiting"
    /\ Proceed(q, IF record = NoSignoff THEN "upsert" ELSE "notify", job[q])
    /\ UNCHANGED ops

-----------------------------------------------------------------------------
(* The calls that write.                                                   *)

\* A defect: the record keeps its old version.
NewRecord_OldVersion(j) ==
    [ status |-> Outcome(j.kind), source |-> SourceOf(j.kind),
      version |-> IF record = NoSignoff THEN j.version ELSE record.version ]

\* A defect: CaseVersion is left at its zero value.
NewRecord_NoVersion(j) ==
    [ status |-> Outcome(j.kind), source |-> SourceOf(j.kind), version |-> 0 ]

NewRecord(j) ==
    [ status |-> Outcome(j.kind), source |-> SourceOf(j.kind),
      version |-> j.version ]

\* Repository.Upsert overwrites the record, whatever it holds now.
Upsert(q) ==
    /\ pc[q] = "upsert"
    /\ record' = NewRecord(job[q])
    /\ pc' = [pc EXCEPT ![q] = "audit"]
    /\ stale' = [p \in Requests |-> p # q /\ pc[p] = "upsert"]
    /\ late' = (late \/ (job[q].kind = "approve" /\ overtaken[q]))
    /\ UNCHANGED <<caseVersion, audit, ops, fails, job, lost, overtaken,
                   reviewed, notices>>

EntryOf(j) == [ from |-> j.from, to |-> Outcome(j.kind), version |-> j.version,
                source |-> SourceOf(j.kind) ]

\* A defect: the entry is written only when the status changes.
AppendAudit_ChangesOnly(q) ==
    /\ pc[q] = "audit"
    /\ audit' = IF job[q].from = Outcome(job[q].kind)
                  THEN audit ELSE audit \cup {EntryOf(job[q])}
    /\ IF job[q].kind \in Decisions
         THEN Finish(q)
         ELSE pc' = [pc EXCEPT ![q] = "notify"] /\ UNCHANGED <<job, overtaken>>
    /\ UNCHANGED <<caseVersion, record, ops, fails, stale, lost,
                   late, reviewed, notices>>

AppendAudit(q) ==
    /\ pc[q] = "audit"
    /\ audit' = audit \cup {EntryOf(job[q])}
    /\ IF job[q].kind \in Decisions
         THEN Finish(q)
         ELSE pc' = [pc EXCEPT ![q] = "notify"] /\ UNCHANGED <<job, overtaken>>
    /\ UNCHANGED <<caseVersion, record, ops, fails, stale, lost,
                   late, reviewed, notices>>

\* A defect: only first announcements are sent.
Notify_Awaiting(q) ==
    /\ pc[q] = "notify"
    /\ Finish(q)
    /\ reviewed' = \/ reviewed
                   \/ job[q].kind = "rereview" /\ job[q].version = caseVersion
    /\ UNCHANGED <<caseVersion, repoVars, ops, fails, stale,
                   lost, late, notices>>

\* An error of the NotificationSink is ignored: see Fail.
Notify(q) ==
    /\ pc[q] = "notify"
    /\ Finish(q)
    /\ reviewed' = \/ reviewed
                   \/ job[q].kind = "rereview" /\ job[q].version = caseVersion
    /\ notices' = IF job[q].kind = "rereview"
                    THEN notices \cup {job[q].version} ELSE notices
    /\ UNCHANGED <<caseVersion, repoVars, ops, fails, stale,
                   lost, late>>

\* The pending call returns an error, its context ends, or the process dies.
Fail(q) ==
    /\ pc[q] # "idle"
    /\ fails < MaxFails
    /\ fails' = fails + 1
    /\ Finish(q)
    /\ stale' = [stale EXCEPT ![q] = FALSE]
    /\ lost' = (lost \/ pc[q] \in {"audit", "notify"})
    /\ UNCHANGED <<caseVersion, repoVars, ops, late,
                   reviewed, notices>>

\* External: SetMetadata or MergeMetadata changes the case.
EditCase ==
    /\ caseVersion < MaxVersion
    /\ caseVersion' = caseVersion + 1
    /\ reviewed' = FALSE
    /\ overtaken' = [q \in Requests |-> overtaken[q] \/ pc[q] # "idle"]
    /\ UNCHANGED <<repoVars, ops, fails, pc, job, stale, lost,
                   late, notices>>

Continue(q) ==
    \/ ReadForDecision(q) \/ ReadForReReview(q) \/ ReadForAwaiting(q)
    \/ Upsert(q) \/ AppendAudit(q) \/ Notify(q)

RequestStep(q) ==
    \/ \E kind \in Decisions, version \in Versions :
          q \in Handlers /\ Decide(q, kind, version)
    \/ q \in Handlers /\ MarkAwaitingSignoff(q)
    \/ ReReviewOnCaseUpdate(q)
    \/ Continue(q)
    \/ Fail(q)

Next == EditCase \/ \E q \in Requests : RequestStep(q)

Spec == Init /\ [][Next]_vars

\* The schedule keeps calling ReReviewOnCaseUpdate, and a call that has begun
\* goes on to its next step.
FairSpec ==
    Spec /\ WF_vars(ReReviewOnCaseUpdate(Poller) \/ Continue(Poller))

-----------------------------------------------------------------------------
(* Invariants.                                                             *)

\* Every variable has its type, and a request in progress holds its arguments.
TypeOK ==
    /\ caseVersion \in Versions
    /\ record \in SignoffRecord \cup {NoSignoff}
    /\ audit \subseteq AuditEntry
    /\ ops \in 0 .. MaxOps /\ fails \in 0 .. MaxFails
    /\ pc \in [Requests -> {"idle", "get", "upsert", "audit", "notify"}]
    /\ job \in [Requests -> Job \cup {NoJob}]
    /\ stale \in [Requests -> BOOLEAN] /\ overtaken \in [Requests -> BOOLEAN]
    /\ lost \in BOOLEAN /\ late \in BOOLEAN /\ reviewed \in BOOLEAN
    /\ notices \subseteq Versions
    /\ \A q \in Requests : pc[q] # "idle" => job[q] \in Job

\* The gate would let a case through whose live version nobody approved.
StaleApproval == CanFinalize /\ record.version # caseVersion

\* Once a re-review that began after the last edit has run to its end, no stale
\* approval is left or appears, unless some approval was written after the case
\* changed under its request: neither an older re-review nor any other request
\* can bring one about.
ReReviewSettles == reviewed /\ ~late => ~StaleApproval

\* The record is always explained by the audit trail: when nothing is being
\* written and no append failed, some entry leads to its status, version and
\* source, whatever requests overwrote each other.
RecordIsExplained ==
    (record # NoSignoff /\ ~lost /\ \A q \in Requests : pc[q] # "audit")
        => \E e \in audit : /\ e.to = record.status
                            /\ e.version = record.version
                            /\ e.source = record.source

\* A reversion is announced unless the re-review that made it failed.
ReversionIsAnnounced ==
    (record # NoSignoff /\ ~lost
       /\ \A q \in Requests : pc[q] \notin {"audit", "notify"})
        => (record.source = "re_review" => record.version \in notices)

-----------------------------------------------------------------------------
(* Action properties.                                                      *)

\* As long as nobody writes between a request's read of the record and its own
\* write, a re-review reverts only approvals of another version, and the first
\* announcement of a case never replaces a decision.
UncontendedWritesRespectDecisions ==
    [][ \A q \in Requests :
          Upsert(q) /\ ~stale[q] =>
             /\ job[q].from = StatusNow
             /\ job[q].kind = "rereview" =>
                   StatusNow = "approved" /\ record.version # job[q].version
             /\ job[q].kind = "awaiting" => record = NoSignoff ]_vars

-----------------------------------------------------------------------------
(* Liveness.                                                               *)

\* As failures are not endless, the scheduled re-review reverts every stale
\* approval, or a decision supersedes it, however many requests interfere.
StaleApprovalIsReverted == StaleApproval ~> ~StaleApproval

-----------------------------------------------------------------------------
(* The inductive invariant behind the safety properties.                   *)

\* A request works on the version that was live when it began.
OnItsVersion(q) ==
    pc[q] # "idle" =>
        /\ job[q].version <= caseVersion
        /\ ~overtaken[q] => job[q].version = caseVersion

\* A request that has not read the record still holds the initial status.
NothingRead(q) == pc[q] = "get" => job[q].from = "pending"

\* A re-review of the live version that has written leaves no stale approval.
Settled(q) ==
    ( /\ pc[q] \in {"audit", "notify"} /\ job[q].kind = "rereview"
      /\ job[q].version = caseVersion /\ ~late )
        => ~StaleApproval

\* What a request that will write knows of a record nobody wrote since.
FreshRead(q) ==
    pc[q] = "upsert" /\ ~stale[q] =>
        /\ job[q].from = StatusNow
        /\ job[q].kind = "rereview" => Outdated(job[q].version)
        /\ job[q].kind = "awaiting" => record = NoSignoff

Explains(e) ==
    /\ e.to = record.status
    /\ e.version = record.version
    /\ e.source = record.source

\* The record's entry is in the trail, or its request is about to append it.
Explained ==
    record # NoSignoff /\ ~lost =>
        \/ \E e \in audit : Explains(e)
        \/ \E q \in Requests : pc[q] = "audit" /\ Explains(EntryOf(job[q]))

\* A reversion has been announced, or its request is about to announce it.
Announced ==
    record # NoSignoff /\ ~lost /\ record.source = "re_review" =>
        \/ record.version \in notices
        \/ \E q \in Requests : /\ pc[q] \in {"audit", "notify"}
                               /\ job[q].kind = "rereview"
                               /\ job[q].version = record.version

IInv ==
    /\ TypeOK
    /\ \A q \in Requests : /\ OnItsVersion(q) /\ NothingRead(q)
                           /\ Settled(q) /\ FreshRead(q)
    /\ ReReviewSettles
    /\ Explained
    /\ Announced

=============================================================================
