----------------------------- MODULE CaseReview -----------------------------
(***************************************************************************)
(* packages/signoff and packages/caselifecycle together: the live version  *)
(* that sign-off reads is the MetadataVersion of the case row, and a       *)
(* reviewer decides on the content seen in an earlier read of that row.    *)
(*                                                                         *)
(* Signoff takes the case to be a counter that only grows (its EditCase).  *)
(* Here the counter follows the row of CaseLifecycle, written by handlers  *)
(* that may overlap, so this module says when that view is right.          *)
(***************************************************************************)
EXTENDS Signoff

CONSTANTS
    Workers, Keys, MaxCaseOps, NoRecord, NoCase,    \* the case
    NoView      \* the reviewer has not read the case

VARIABLES
    store, log, caseClock, casePc, clone, entry,
    caseStale, caseContended, caseLost, seen,
    viewed,     \* what each reviewer read of the case
    approvedOn  \* history: what the reviewer of the last approval had read

caseVars == <<store, log, caseClock, casePc, clone, entry,
              caseStale, caseContended, caseLost, seen>>
signoffVars == <<repoVars, ops, fails, pc, job, stale, lost, late,
                 notices>>
reviewVars == <<caseVars, vars, viewed, approvedOn>>

Lifecycle == INSTANCE CaseLifecycle WITH
    MaxOps <- MaxCaseOps, clock <- caseClock, pc <- casePc,
    stale <- caseStale, contended <- caseContended, lost <- caseLost

\* The handlers of the case do not run out of versions.
ASSUME CaseAssumption ==
    /\ MaxCaseOps \in Nat /\ MaxCaseOps < MaxVersion
    /\ NoRecord \notin Lifecycle!TransitionRecord
    /\ NoCase \notin Lifecycle!Case

\* What a reviewer is shown of the case, and what names it later.
Shown(row) == [version |-> row.metadataVersion, metadata |-> row.metadata]

ReviewInit ==
    /\ Lifecycle!Init
    /\ Init
    /\ viewed = [h \in Handlers |-> NoView]
    /\ approvedOn = NoView

-----------------------------------------------------------------------------

\* A handler of the case takes a step; the sign-off learns of it only when it
\* next asks for the live version.
CaseStep ==
    /\ Lifecycle!Next
    /\ caseVersion' = store'.metadataVersion
    /\ IF caseVersion' = caseVersion
         THEN UNCHANGED <<overtaken, reviewed>>
         ELSE /\ reviewed' = FALSE
              /\ overtaken' = [q \in Requests |-> overtaken[q] \/ pc[q] # "idle"]
    /\ UNCHANGED <<signoffVars, viewed, approvedOn>>

\* A reviewer reads the case and its version.
ViewCase(h) ==
    /\ pc[h] = "idle"
    /\ viewed' = [viewed EXCEPT ![h] = Shown(store)]
    /\ UNCHANGED <<caseVars, vars, approvedOn>>

\* A defect: the reviewer names the live version, not the one that was read.
DecideOnViewed_LiveVersion(h, kind) ==
    /\ viewed[h] # NoView
    /\ UNCHANGED <<caseVars, viewed, approvedOn>>
    /\ Decide(h, kind, caseVersion)

\* The reviewer decides on what was read: DecisionInput.CaseVersion.
DecideOnViewed(h, kind) ==
    /\ viewed[h] # NoView
    /\ UNCHANGED <<caseVars, viewed, approvedOn>>
    /\ Decide(h, kind, viewed[h].version)

ReviewStep(q) ==
    /\ UNCHANGED <<caseVars, viewed>>
    /\ \/ q \in Handlers /\ MarkAwaitingSignoff(q)
       \/ ReReviewOnCaseUpdate(q)
       \/ Continue(q)
       \/ Fail(q)
    /\ approvedOn' = IF Upsert(q) /\ job[q].kind = "approve"
                       THEN viewed[q] ELSE approvedOn

ReviewNext ==
    \/ CaseStep
    \/ \E h \in Handlers : ViewCase(h)
    \/ \E h \in Handlers, kind \in Decisions : DecideOnViewed(h, kind)
    \/ \E q \in Requests : ReviewStep(q)

ReviewSpec == ReviewInit /\ [][ReviewNext]_reviewVars

-----------------------------------------------------------------------------

View == [version : Nat, metadata : SUBSET Keys]

\* Both components are well typed, sign-off is told the version of the row, and
\* views are views.
ReviewTypeOK ==
    /\ Lifecycle!TypeOK
    /\ TypeOK
    /\ caseVersion = store.metadataVersion
    /\ viewed \in [Handlers -> View \cup {NoView}]
    /\ approvedOn \in View \cup {NoView}

\* What the gate lets through has been read by the reviewer who approved it, to
\* the last metadata key, provided a re-review has run since the last edit, no
\* approval was overtaken by an edit and no case handler wrote from a stale copy.
GateShowsReviewedContent ==
    CanFinalize /\ reviewed /\ ~late /\ ~caseContended
        => approvedOn = Shown(store)

\* Up to the first case handler that writes from a stale copy, the case is to the
\* sign-off what its EditCase takes it to be, and the two implement Signoff.
ImplementsSignoff == Init /\ [][caseContended' \/ Next]_vars

=============================================================================
