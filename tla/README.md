# Verdex: specifications, model checking and proofs

Verdex is a judicial reasoning platform written in Go. It ingests case material,
builds a reasoning tree, runs a pipeline of reasoning agents that drafts an
opinion, and lets nothing leave the system before a human reviewer has signed
off. The code is a monorepo of some ninety packages under `packages/`;
`docs/architecture/overview.md` maps them. Most packages transform data or keep
simple records. The ones whose behaviour is hard to get right and hard to test
are those where several requests, workers or callers change shared records
through several calls, and those that must survive failures between the calls.
These are the ones specified here.

Contents: [inventory](#inventory), [what is modelled](#what-is-modelled), [the
runs](#the-runs), [bounds](#bounds), [fairness](#fairness), [the proofs](#the-proofs),
[the exceptions](#the-exceptions), [what the code's claims
need](#where-the-code-departs-from-its-documentation), [what is not
modelled](#what-is-not-modelled), [plan](#plan).

## Inventory

`PROJECT.json` lists every package with its files and its status. This section
describes the packages that keep state which several actors change.

**caselifecycle.** State: one `Case` row (`State`, `Metadata`,
`MetadataVersion`, `ArchivedAt`) and a log of `TransitionRecord`s per case.
Operations: `Transition`, `Reopen`, `Archive`, `SetMetadata`, `MergeMetadata`,
each a `Repository.Get`, checks on the copy, `Repository.Update` of the whole
row and, except for metadata, `AppendTransition`. Hard: no lock, transaction or
version test spans the calls; any of them may fail. Correct when the row stays on
the documented diagram, archival is stamped, and the log says only what happened
and all that happened.

**signoff, guardrail.** State: one `SignoffRecord` per case (status, the case
version it is about, its source) and an audit trail. Operations: `Approve`,
`Reject`, `ReReviewOnCaseUpdate`, `MarkAwaitingSignoff`; the gate `CanFinalize`
reads the status. Every operation first asks `caselifecycle` for the live
`MetadataVersion`, then reads the record, overwrites it, and appends to the
trail. Hard: the case changes between these calls, requests overwrite each
other's records, notifications may be lost. Correct when no approval of an older
content stays in force, decisions are not undone by automatic steps, and the
trail explains the record.

**reasoningorchestration.** State: a `RunState` (completed stages, termination)
and a checkpoint per stage and case. `Run` and `Resume` drive eight stages;
checkpoints are saved by goroutines that nothing waits for before the next stage,
and errors of both saves are ignored. Hard: crash between the two saves, budget
that counts from the first start, two drivers of one case. Correct when a run
that was interrupted can be resumed and a stage is paid for again only after a fault, a
further `Run` or an error of its own. The guardrail stage calls `CanFinalize` and stores
the answer.

**ingestion.** State: a bounded queue, the status shown of each job, a checkpoint,
a record per stage (completed, attempts), an in-memory stash of intermediate
results, dead letters. Operations: `Enqueue`, `Close`, `Run` by several workers,
`Process`, `Resume`. Hard: five stores written by separate calls, resume after a
restart that took the stash, a stage that succeeds with nothing, a finished job accepted
again, two workers on a job. Correct when a job accepted in time is taken, a checkpoint
can be gone on from, a job that failed can be resumed, and attempts are bounded.

**auditlog.** State: a hash chain of events per tenant. `Store.Append` reads the
last event and inserts the next one, `VerifyTenantChain` walks the trail by time,
`Purge` deletes the old part and then appends an event about it. Hard: overlapping
appends, times that callers set, purges that fail midway. Correct when an untouched
trail verifies and a purge leaves its trace.

**reliability, router.** State: circuit breakers, idempotency entries. Hard:
results that arrive late, probes that never report, calls that panic, concurrent
calls with one key. Correct when a breaker that opened can close again and a key
is executed once.

**intake, provenance.** State: a buffer of uploaded binaries with expiry, a
quota, a custody chain. Hard: expiry racing extraction, discard that must happen.

**keymanagement, encryption.** State: a file per key version, a row per version
(active, retired, revoked), envelopes that name a version. `Rotate` writes the file,
retires the active version and creates the new one by four calls under a lock of one
provider; `Revoke` changes a row at any time. Hard: several providers on one tenant,
failures between the calls, metadata that lives in memory. Correct when what was
encrypted can be decrypted, the newest key is the active one and a revoked key stays
revoked.

**bulkimport.** State: a job (status, cursor, counters) and a record per source
index. `RunBatch` creates records one by one and writes the job at its end; `Pause`,
`ResumeJob`, `FailJob` and `Rollback` write the whole job they read. Hard: batches
and rollbacks that stop midway, calls that overlap, a duplicate lookup whose error is
ignored. Correct when nothing is skipped or imported twice and the counters agree.

**corpusupdater.** State: a job's status, the amendments staged on it with the text
each replaced, the texts of the corpus. Hard: each call works from the job and the
list it read at its start; text and row are written separately. Correct when only
validated amendments are applied, all that are due, and a rollback restores the text an
amendment replaced.

**integration, privacy.** Delivery attempts, erasure requests over several stores.
Hard: partial failure and retry.

**accessgovernance, caseversioning, gateway, scalability, setup.** Time-bound
grants, snapshots, rate limiting, back-pressure, a wizard of guarded steps.

How they interact: `signoff` reads the version of `caselifecycle`
(`caseadapter.go`); `reasoningorchestration` asks `guardrail.CanFinalize`, which
`signoff.GateImpl` answers; `ingestion` uses its own checkpoints and the
extraction packages; most engines append to `auditlog` through sinks.

## What is modelled

| Module | What it is |
| --- | --- |
| `CaseLifecycle` | the case row, its log, and the handlers that write them, call by call |
| `CaseMachine` | the abstract case: the documented diagram, taken atomically |
| `CaseLifecycleProofs` | theorems about `CaseLifecycle` |
| `Signoff` | the sign-off record, its trail, the gate and the requests, call by call |
| `CaseReview` | both together, with what a reviewer saw |
| `CaseReviewProofs` | theorems about `Signoff` and `CaseReview` |
| `ReasoningRun` | the pipeline of one case: `Run`, `Resume`, checkpoints, run state |
| `ReasoningRunProofs` | theorems about `ReasoningRun` |
| `Ingestion` | queue, workers, stages, checkpoints, resume and restart of `packages/ingestion` |
| `AuditChain` | the chained trail of a tenant: append, verify, purge |
| `KeyRotation` | the key versions of a tenant and the envelopes made under them |
| `BulkImport` | one import job: batches, pause and resume, rollback |
| `CorpusUpdate` | amendments: staged, validated, applied, rolled back |
| `IngestionProofs`, `AuditChainProofs`, `KeyRotationProofs`, `BulkImportProofs`, `CorpusUpdateProofs` | theorems about these five |
| `MC...` | the instance of each module for TLC |

**`CaseLifecycle`.** `store` is the row held by the `Repository`, `log` its
`TransitionRecord`s. Each worker is a request handler with a program counter: `idle`,
`update` (it holds an edited copy and will call `Update`), `append`. The checks of a
handler read only the copy, so `Transition`, `Reopen`, `Archive` and `updateMetadata`
are one step with the `Get` and go through `Admit`; a request that is refused changes
nothing and is no step. `Update` overwrites the row with the copy
(`inmemory_repository.go`, and the `UPDATE` of `postgres_repository.go`, which tests no
version). `Fail` is an error, a cancelled context or the death of the process at the
pending call; an error after the call took effect is `Update` or `AppendTransition`
followed by `Fail` or by nothing. Identity, tenant, title and similar fields never
change and are left out; a metadata map is the set of its keys; `OccurredAt` is a
counter read at the `Get`, as `time.Now` is in the code. History variables (`stale`,
`contended`, `lost`, `seen`, and those of the other modules, listed
[below](#the-exceptions)) are read by properties only. The bulk operations are loops
over the same handlers.

**`Signoff`.** `record` and `audit` are the repository. A request is at `get`,
`upsert`, `audit` or `notify`, and `job` holds what its earlier calls returned.
`Decide` is `validateCommon` (the version check); `ReadForDecision`, `ReadForReReview`
and `ReadForAwaiting` are the reads; `Upsert`, `AppendAudit` and `Notify` follow. An
error of the notification sink is ignored by the code and is a `Fail` at `notify`. `ops`
counts the decisions and the announcements of handlers against `MaxOps`, so that
reversions use up none of them. `EditCase` stands for a metadata update of
`caselifecycle`. Times are left out, as neither the gate nor a property reads
`OccurredAt`, and so are reviewer identity, notes and ids; `audit` is the set of the
entries made.

**`CaseReview`.** Extends `Signoff` and instantiates `CaseLifecycle` beside it. In
`CaseStep`, which takes the place of `EditCase`, a case handler takes a step and
`caseVersion` follows `store.metadataVersion`, overlapping handlers included. `ViewCase`
is a reviewer's read of the case, and `DecideOnViewed` names the version that was read.
`ImplementsSignoff` says when `EditCase` is a right abstraction of the case.

**`ReasoningRun`.** `runState` and `checkpoints` are the `CheckpointStore`. A driver is
a call of `Run` or `Resume`: `load` reads the checkpoints of the completed stages one by
one, `stage` is the head of the loop of `drive`, `save` the `SaveRunState` after each
stage and at each end, `wait` the deferred `Wait` for the goroutines of
`persistCheckpointAsync`, which are `pending`. `state` and `memory` are the driver's own
`RunState` and `pipelineContext`. The eight stages and what each is built from are
`Stages` and `Inputs`; `NumStages` cuts the pipeline. An output is told from others by
the number of the call that made it, so a `Checkpoint` is its stage, its call and the
calls that made its inputs. `paid` counts the calls of each stage, those that return an
error included, and `failed` the latter. `CurrentStage` is left out: it is always the
first stage not completed. `StartedAt` is the number of the call that started the run,
and `Expire` says that its wall-clock budget has passed; every caller is assumed to
bring the same budget. What a stage computes, its own confidence and the answer of the
guardrail are not modelled. `Crash` takes one driver with its goroutines; a dying
process takes several, which is several crashes. `lost` and `overlapped` are history
variables: a checkpoint was lost (a failed `SaveCheckpoint`, a crash before it,
`DeleteByCase` under a driver), two drivers were at work at once.

**`Ingestion`.** `queue` is the channel; `Enqueue` is its two `select`s, so that `Close`
may come between them (`sending`), and `Send` or `Refuse` is the choice a `select` makes
when both are ready. Each worker of `Run`, and each direct caller of `Process` or
`Resume`, has a program counter through `process`: `load` the checkpoint, `check`
whether the stage is recorded as completed (`Skip`), `CallStage` counts an attempt,
`StageSucceeds` and `StageFails` are the outcomes of the stage function, `Save` the
writes after a success, `ShowFailed`, `Fail`, `Bury`, `Report` those after a failure,
`Collect` the look into the stash at the end, `FailEmpty` and `BuryEmpty` what follows
if nothing is there, `Forget` and `ClearStash` the clean-up. `Save` is two writes, of
the status and of the checkpoint; no handler reads the status, so a crash between them
is a crash before `Save` with the next stage shown early, and no property is about that.
An attempt that failed is followed by another unless the context is done: that of the
workers (`Cancel`), or a direct caller's own, which may end at any time. `status`,
`checkpoint`, `records` and `letters` are the stores, `stash` the orchestrator's map
from jobs to results. `input` is the `pipelineState` a process holds: the one in the
map, one that was removed from it since (`orphaned`), or none. The result of a stage is
whether it is there; `empty` results are those the code treats as missing. `Restart`
empties what is in memory and may or may not keep the records, which are an interface.
`Last` is the number of stages, five in the code; normalize, segment and classify are
alike in that each needs the result of the stage before and leaves its own, and a
smaller `Last` has fewer of them.

**`AuditChain`.** `log` holds the rows of Postgres. A call of `Append` stamps its event
(`StoreAppend`, by the clock or by its caller), reads the last event by time
(`ReadLast`), and inserts (`Insert`). A hash stands for predecessor, id and stamp and is
named by the id; it does not verify when the stored time has fewer digits than the stamp
it was made from (`Resolution`). The digits are dropped, not rounded: pgx, which
`PostgresRepository` is given its times through, sends whole microseconds. `Purge`
deletes what is older than its cutoff, if the trigger lets it (`Floor`), and goes on to
append its own event.

**`KeyRotation`.** A rotation is at `write`, `find`, `demote` or `create`; `files` holds
the material, numbered by draw, and `states` the rows. `durable` chooses between
Postgres and the in-memory repository, which differ in what `Create` accepts and in
what a `Restart` leaves. `CurrentKey` and `Seal` are the two reads of an encryption, and
an envelope opens if its version has a row, in any state (`FileProvider.Key` asks the
repository first), and the file of the version holds the material it was made with.

**`BulkImport`.** `copy` is the job a call read, `next` and `upto` the record its batch
is at. `Lookup` and `Create` are the two calls per record, `LookupFails` the error the
code drops, `FinishBatch` the write of the job; `ListForJob`, `Reverse` and
`FinishRollback` are the rollback. Postgres refuses two rows (`Refused`), which ends the
call (`Abort`): a second record of a job and source index, and a job with a negative count
(`bulkimport_jobs_counts_nonneg`), so a copy may hold one (`JobCopy`) and the row may not
(`ImportJob`). A record of the source is its dedup key, `Invalid`, or `Blank`: valid, with
nothing to look up.

**`CorpusUpdate`.** A call holds the status it read (`copy`), the listed amendments it
has yet to handle (`todo`) and the previous texts as listed (`saved`). `GetText`,
`SetText`, `Update` are the calls of `ApplyAmendment`; `Restore` and `Revert` those of
`Rollback`; `Mark` and `Transition` write the job from the copy, `Check` lists the
amendments of a validation and `Resolve` checks them one by one, with or without a
`TargetResolver`. A text is
named by the amendment that wrote it. The database keeps no `target_id` that
`ApplyAmendment` fills in. `Tick` passes the effective date of later amendments.

In all of these a call that fails, whose context ends or whose process dies, is an
action (`AppendFails`, `RotateFails`, `Abort`, `Restart`) at every point where the code
makes a call.

## The runs

Passing runs:

- `case_overlap`: two overlapping handlers, five requests. The row is stamped
  exactly when archived (`ArchivedStamped`), no stage of the diagram is skipped
  (`NoStageSkipped`), the log tells only what happened (`LogIsTruthful`) and, if no
  write was stale and no append lost, everything that happened, in the order of
  `OccurredAt` (`HistoryReplaysState`). A write from a fresh copy is a legal one
  (`UncontendedWritesAreLegal`), so the row implements `CaseMachine` up to the
  first stale write (`ImplementsCaseMachine`).
- `signoff_overlap`: two handlers and the poller, three case versions. A re-review
  of the live version that ran to its end leaves no stale approval behind, unless
  an approval was written after the case changed under it (`ReReviewSettles`).
  The trail always explains the record (`RecordIsExplained`), a reversion is
  announced (`ReversionIsAnnounced`), and requests that read a fresh record do not
  undo decisions (`UncontendedWritesRespectDecisions`).
- `signoff_poller`: a stale approval is reverted in the end
  (`StaleApprovalIsReverted`).
- `review_overlap`: what the gate lets through was read, to the last metadata key,
  by the reviewer who approved it (`GateShowsReviewedContent`), provided a
  re-review has run since the last edit, no approval was overtaken and no case
  handler wrote from a stale copy. Up to such a write the two components implement
  `Signoff` (`ImplementsSignoff`).

- `reasoning_overlap`: two drivers, three stages, two `Run`s, one failure of a stage,
  one fault, one deletion. A saved run counts only on checkpoints that are stored or
  about to be (`SkippedAreReadable`), no stage works on a missing input
  (`InputsAreReal`), the outputs of a finished or interrupted run fit together
  (`OutputsBelongTogether`), and a stage is called once per `Run`, once more per fault, and
  once more for each error it returned itself: an LLM stage that fails was billed, and the
  `Resume` after it runs it again, but a `Resume` after another stage's error does not
  (`PaidOnce`). The conditions in the properties are needed: without `~lost` or
  `~overlapped` TLC refutes them.
- `reasoning_resume`: all eight stages with one driver. What was done is kept
  (`CompletedGrows`), the outputs fit together over the real graph of inputs, and a
  run that is resumed comes to its end, unless a checkpoint was lost or the budget
  has passed (`ResumedRunEnds`).

- `ingestion_overlap`: a worker and a direct caller on one job of three stages, the
  queue closed and the context cancelled at any time, stages that fail or return
  nothing, one restart. A job sent before `Close` is taken before the last worker
  leaves (`AcceptedIsTaken`); the stages before a checkpoint are recorded and the
  result the next one needs is there (`CheckpointIsBacked`); a failed job is in the dead
  letters, and `Resume` runs the stage it died at on the results it needs, unless a stage
  succeeded with nothing or the stash was cleared (`FailedIsRecoverable`); the attempts
  made at a stage, counted over every `Reset`, are those the policy allows, granted once
  more for each record that was replaced, and one per call (`RetriesAreBounded`); and every
  job begun is shown as complete or failed in the end (`JobsSettle`).
- `audit_chain`: two callers, three events, purges. Only neighbours of a disturbed
  event may fail verification (`BreaksAreLocal`), and a trail that lost events says so
  (`PurgeIsRecorded`).
- `keys_overlap`: two providers, an encryption, revocations, one failure, one restart.
  Envelopes open (`EnvelopesOpen`), the active key is the newest (`ActiveIsNewest`), a
  rotation that ended well leaves an active key (`RotationLeavesKey`), a revocation
  stays (`RevocationSticks`).
- `bulk_overlap`: two callers, three records, six calls, two failures. Nothing before
  the cursor is left out (`NothingSkipped`), a key is imported once (`ImportedOnce`),
  the job describes its records (`SettledJobAddsUp`), a job that is stored as rolled back
  has none imported (`RollbackIsFinal`). After a cut batch that takes two rollbacks, see
  [below](#where-the-code-departs-from-its-documentation).
- `corpus_overlap`: two callers, two amendments of every kind, one failure. Rolling back
  the one change of an entry restores its text, or leaves the entry empty that an Add
  made, but not the text an Add wrote over (`RollbackRestores`); only validated amendments
  are applied (`AppliedWasValidated`); and an applied job lacks only what was staged during
  its validation or was not effective when it was applied (`AppliedIsComplete`).

`corpus_added` ends in a counterexample; see
[below](#where-the-code-departs-from-its-documentation).

## Bounds

`MaxOps` counts requests. The runs reach, in distinct states: `case_overlap` 0.6
million, `signoff_overlap` 1.4, `signoff_poller` 0.6, `review_overlap` 0.5,
`reasoning_overlap` 6.0, `reasoning_resume` 0.2, `ingestion_overlap` 1.6, `audit_chain`
3.4, `keys_overlap` 0.9, `bulk_overlap` 3.3, `corpus_overlap` 5.1; the longest takes
three and a half minutes. Five requests reach every state of the diagram from `draft` to
`archived` and leave one to overlap with each; two workers suffice for every stale
write, as a write is stale relative to one other. The proofs cover any number of both.
In `Signoff`, `MaxVersion = 3` lets a re-review of an old version overlap with one of a
new one, `MaxOps = 2` lets two decisions, or a decision and an announcement, interfere
with each other and with any number of re-reviews by the poller and by the handlers
(reversions are not counted, they end by themselves: each needs an approval), and
`MaxFails` bounds failures. `CaseReview` uses one reviewer, two case handlers, two
requests to them, one decision and one failure of the sign-off: enough for two metadata
updates that overlap, for a transition that overwrites one, and for an edit at every
point of a decision and of the re-reviews around it. `MaxCaseOps < MaxVersion` keeps the
case from running out of versions.

In `ReasoningRun` two drivers suffice for every overlap. Three stages are the fewest
in which a stage reads two others; `reasoning_resume` has all eight. `MaxStarts = 2`
lets an interrupted run be started anew over its own checkpoints. `MaxErrors`,
`MaxFaults` and `MaxDeletes` are one each: every failure meets every step. `MaxCalls`
is as large as `MaxStarts + MaxErrors + MaxFaults` in `reasoning_resume`: a driver
calls again only after an error, a fault, a lost checkpoint or an expired budget, so
`ResumedRunEnds` never fails for want of a further call. It is one less in
`reasoning_overlap`, which checks safety only.

In `Ingestion` one worker and one caller are two on a job; of three stages one keeps no
result, one makes the first result, and one reads a result and makes the last. One
`Enqueue` and one call of `Process` or `Resume` put the job through the orchestrator
twice, in parallel or one after the other, and with a restart between. `MaxAttempts = 2`
is the least with a retry. In `AuditChain` three events are two neighbours and the one a
purge adds; `MaxTime = 6` with `Resolution = 2` has times that are equal, rounded, and
older than one another. In `KeyRotation` three versions and four draws let a version be
written twice. In `BulkImport` three records under two keys are a duplicate and another;
six calls are a batch cut, repeated, overlapped by a pause, failed, and a rollback
refused and repeated. In `CorpusUpdate` two amendments meet on one entry or on two, and
two callers on one job.

`CHECK_DEADLOCK FALSE` stands where every request may be used up, or every handler
be done: the system then simply waits.

## Fairness

`signoff_poller` assumes `WF` of the poller starting a re-review and
of the steps of the re-review it has begun. `rereview.go` asks its callers to invoke
re-review after each update "or on a schedule/webhook"; the assumption is that
schedule. No fairness is assumed of reviewers, of the case or of failures not
happening; failures are finite.

`reasoning_resume` assumes `WF` of `Resume` and of `Progress` for
each driver: `drive` is a loop that goes on and its goroutines run, and somebody
resumes an interrupted run, as the comments of `Resume` ask. Nothing is assumed of
stages not failing, of saves or of the clock.

`ingestion_overlap` assumes `WF` of `Step(p)` for each worker and caller: goroutines are
scheduled, a stage function returns, and `Run` is a loop. Nothing is assumed of
`Enqueue`, `Close`, cancellation, restarts or of anybody calling `Resume`; `JobsSettle`
excuses a job whose process was restarted under it.

## The proofs

`CaseLifecycleProofs` proves, for any set of workers, any set of keys and any
`MaxOps`, every safety property of `case_overlap`: `TypeOK` first, then the
inductive invariant `IInv`, from which the others follow. `IInv` adds to the
properties what makes them inductive: how a handler's copy and record relate to
the row. `CopyDerived` holds of every copy, stale or not (it is a row some request
may produce, and its record leads to its state); `CopyFresh` holds of a copy nobody
wrote over (writing it is a legal write, and its record continues the log);
`HistoryInv` says that the records written or about to be written lead from `draft`
to the state of the row. One lemma per kind of step (`AdmitPreserves`,
`UpdatePreserves`, `AppendPreserves`, `FailPreserves`) keeps it. Two refinement
theorems follow: `ImplementsCaseMachineHolds`, and `SerialImplementsCaseMachine`,
which says that without overlap the row is the atomic case for good. The
assumptions are `MaxOps \in Nat` and that the placeholders `NoRecord` and `NoCase`
are no records and no rows.

`CaseReviewProofs` first proves every safety property of `signoff_overlap`, for any set of
handlers and any bounds. Its invariant, also named `IInv`, says what each request
knows at its program counter: it works on the version that was live when it began
(`OnItsVersion`); what it read still holds unless somebody wrote (`FreshRead`, which
needs `NothingRead`); a re-review of the live version that has written leaves no
stale approval (`Settled`). And it says who still owes what: the entry that explains
the record is in the trail or its request is about to append it (`Explained`), a
reversion is announced or about to be (`Announced`). `ReReviewSettles` alone is not
inductive: the re-review marks its end two calls after its write, so the proof needs
`Settled` for the requests in between, and `OnItsVersion` to see that an approval
of another version was overtaken. The assumptions are that the bounds are natural
numbers and that the placeholder `NoSignoff` is no record.

It then proves both properties of `review_overlap`, for any number of case handlers,
reviewers and metadata keys. `Proved` instantiates `CaseLifecycleProofs` with the
variables of the case, so that its invariant and its lemmas are cited, not proved again.
`ReviewInv` has a part that always holds and a part that holds up to the first stale
write. Always: the invariant of the case, the version the sign-off is told is that of the
row, a row and its copies are at most one version ahead of the requests admitted
(`VersionBound`, so that versions do not run out), and everything is well typed. Up to
the first stale write: `IInv` of `Signoff`, and `ViewsInv`. By `LegalStep`, from
`CopyFresh`, a write from a fresh copy either keeps version and metadata or raises the
version by one; the first is nothing to the sign-off and the second is `EditCase`, which
makes every step one of `Signoff` (`SignoffStep`, `ImplementsSignoffHolds`) and keeps
`IInv`. `ViewsInv` says that what a reviewer has read is of an older version or is what
the row holds (`Faithful`), that a request that approves names what its reviewer read
(`NamesView`), and that what stands approved is what the reviewer of the last approval
read (`ApprovedAsViewed`). With `ReReviewSettles` this is `GateShowsReviewedContent`:
after a re-review the approval is of the live version, so the view behind it is the row.
None of the parts suffices alone: without the version bump of every metadata write
`Faithful` fails, and without `~caseContended` a stale write puts other content under a
version that was read. `SerialImplementsSignoff` says that with one case handler at a time
there is no such exception.

`ReasoningRunProofs` proves every safety property of `reasoning_overlap` and
`reasoning_resume`, for any number of drivers, every cut of the pipeline and any
bounds. After the types come invariants, each the strengthening of one property.
`Fed`: when a stage is about to run, the driver holds every output its `RunState`
calls completed (`ReadBefore`), so, as inputs are outputs of earlier stages
(`InputsAreEarlier`), what a goroutine saves was made from real ones. `Counted`: what
any driver or the store calls completed is stored or pending, and "complete" means
every stage; `WayKept` is the step that needs `lost`. `Accounts`: while a driver is at
work every stage left to it may be paid for once more, and so may every stage left to
the stored run unless a save is due; a fault that makes the two differ pays for the
difference. `Kept`: a driver at work knows what the store knows. The last two rest on
`Alone`: without overlap one driver is at work. `Together`, for `OutputsBelongTogether`,
speaks of the newest Checkpoint of each stage, which a goroutine may still have in hand
(`Newest`): what a driver at work or the stored run calls completed was made from the
newest output of each input (`Coherent`), and a driver's outputs are the newest
(`Knows`). It needs `Tidy`, because a stage that runs replaces an input of no completed
stage only as long as stages are completed in order. The conditions of the property
(`Undisturbed`) enter in two places: with no fault a driver that waits has saved what it
knows, and in a case started once the store never runs ahead of its driver. The
assumptions are the range of `NumStages`, bounds that are natural numbers, and the
placeholders.

`IngestionProofs` proves the four safety properties of `ingestion_overlap`, for any
number of jobs, workers, callers, stages, attempts and places in the queue. `Shape` says
where a process can be and what it holds. `AcceptedIsTaken` needs `QueueInv`: once a
worker has left, the queue is closed and holds only what was sent late.
`RetriesAreBounded` bounds `made`, every attempt ever made at a stage, and not the count
in its record, which `Reset` sets back. Its invariant `RetryInv` weighs the attempts
against what the records allow (`Allowed`: a full round of the policy for each record
that was replaced, and the attempts the present one counts) and the calls that have yet
to make the attempt by which they may exceed the policy (`Ahead`): there are at most as
many as were begun, and each of them that passes that attempt leaves the set.
`CheckpointIsBacked` has two halves, for the stash while nothing empties it (`StashInv`)
and for the records while one call at a time works on the job (`AloneInv`, `BackedInv`).
`FailedIsRecoverable` follows the order of the writes, checkpoint, dead letter, status,
which an empty result turns round (`FailInv`); that the stage a job died at finds its
results (`Recoverable`) comes from `StashInv`, and is kept by the steps on other jobs
because they leave the stash of this one alone.

`AuditChainProofs` proves both properties of `audit_chain`, for any number of callers and
events and any times. `ChainInv` treats the log as a finite set: a call that is alone
inserts after the event that is last then (`LastInv`, `CrowdInv`), so an undisturbed
event names the one just before it (`LinkInv`). `BreaksAreLocal` is about the list that
`VerifyTenantChain` walks; `ListAll` puts each event at its rank, so that neighbours of
the list follow each other in the log.

`KeyRotationProofs` proves the four safety properties of `keys_overlap`, for both
repositories and any number of providers, versions, failures and restarts. `Shape` is
the invariant: the known versions are the first few, so the version a rotation holds is
known already, or still the next one; the first is what the repository refuses, the
second what a rotation that is alone relies on (`AloneShape`). `StruckInv` adds, for
`RevocationSticks`, that no rotation on its way holds a revoked version.

`BulkImportProofs` proves the four safety properties of `bulk_overlap`, for any number of
calls, records, keys and batch sizes. Every call writes the job back from a copy, so
`SkipInv` follows every copy: its cursor stands behind records that are there.
`OnceInv` says what a lookup is still worth at the create after it: two batches
that both found a key free stand at the same index, the first without a record, and the
unique index refuses one. `FinalInv` and `SumInv` are about calls that do not overlap: a
rollback has every imported record before it, so one whose job Postgres takes has reversed
them all, and the counts are the cardinalities of
the sets of records, also midway of a batch or of a rollback (`Describes`).

`CorpusUpdateProofs` proves the three safety properties of `corpus_overlap`, for any
number of callers, jobs, entries and amendments of any kind. `ValidInv`: from the moment
a call knows that the validation passed (`Past`), whatever is staged on the job has
raced. `CompleteInv`: what a job being applied has not applied is still in the hands of
each call that applies it (`Covered`). `RestoreInv`: while an entry was written once,
one amendment wrote it, and what that amendment and the calls handling it hold as its
previous text is the text it had (nothing, for an Add, whose entry is then a new one).
The proof of the second showed that an earlier form of `AppliedIsComplete` was false
with three callers: a validation that overlaps may pass an amendment after the job was
applied. The property now excepts what was staged during a validation, as
`AppliedWasValidated` does.

All these rest on named assumptions about the constants only: bounds are natural numbers
(`Last > 2`, and `Capacity`, `MaxAttempts`, `NumVersions`, `MaxTime`, `Resolution` not
zero), the placeholders (`NoRecord`, `NoKey`, `NoStage`, `NoRun`, ...) are no values, the
rows of `CorpusUpdate` are amendments to which nothing has happened
(`RowsAssumption`, with the check of `Validate` that what is not an Add has a target),
and somebody called `Run` (`WorkersAssumption`). TLC evaluates them on every instance,
and checked each inductive invariant on the run's instance before it was proved.

Only model-checked: the liveness properties `StaleApprovalIsReverted`, `ResumedRunEnds`
and `JobsSettle`, which are out of the prover's reach. Every other property of a passing
run is a theorem.

## The exceptions

Most properties hold up to an event, which a history variable records. Each was put there
after TLC refuted the property without it, and each names what the code relies on its
callers and its surroundings for. A property says nothing of the hazard its exception is
about beyond this: that nothing else breaks it, and that the damage goes no further.

| Variable | Event | Excepted in |
| --- | --- | --- |
| `contended`, `stale` of `CaseLifecycle` | a case handler writes a row that was written since it read it (`transition.go:79`) | `HistoryReplaysState`, `UncontendedWritesAreLegal`, `ImplementsCaseMachine`; as `caseContended` in both properties of `CaseReview` |
| `lost` of `CaseLifecycle` | the row is written and its record is not (`transition.go:94`) | `HistoryReplaysState` |
| `stale` of `Signoff` | a request overwrites a record written since it read it (`rereview.go:51`, `awaiting.go:34`) | `UncontendedWritesRespectDecisions` |
| `late` | an approval is written after the case changed under it (`decision.go:102`) | `ReReviewSettles`, `GateShowsReviewedContent` |
| `lost` of `Signoff` | the record is written, its entry or notice is not (`decision.go:173`, `rereview.go:89`) | `RecordIsExplained`, `ReversionIsAnnounced` |
| `lost` of `ReasoningRun` | a checkpoint is lost: its save fails or dies, or `DeleteByCase` comes under a driver (`run.go:175`, `run.go:223`) | `SkippedAreReadable`, `OutputsBelongTogether`, `ResumedRunEnds` |
| `overlapped` of `ReasoningRun` | two drivers on one case (`run.go:66`) | `PaidOnce`, `CompletedGrows`, `OutputsBelongTogether` |
| `starts`, `faults`, `expired` | a case started twice, a fault under a second `Run`, a run whose budget has passed (`run.go:261`, `run.go:143`) | `CompletedGrows`, `OutputsBelongTogether`, `ResumedRunEnds` |
| `cancelled`, `late` of `Ingestion` | the workers' context ends; a job is sent after `Close` (`queue.go:58`) | `AcceptedIsTaken`, `JobsSettle` |
| `overlapped` of `Ingestion` | two calls on one job (`orchestrator.go:361`) | `FailedIsRecoverable`, the records in `CheckpointIsBacked` |
| `cleared`, `hollow` | the stash was cleared at an end of the job; a stage succeeded with nothing (`orchestrator.go:349-370`) | `CheckpointIsBacked`, `FailedIsRecoverable` |
| `renewed` | a record of attempts was replaced by a fresh one (`retry.go:92`) | nothing: `RetriesAreBounded` counts it |
| `disturbed`, `crowded` | an append overlaps another, or its time is not the latest or not storable (`store.go:62`, `store.go:70`) | `BreaksAreLocal`, which confines the damage to the neighbours |
| `unrecorded` | a purge fails after its delete (`retention.go:66`) | `PurgeIsRecorded` |
| `overlapped`, `wiped` | two providers rotate at once; metadata in memory is lost (`fileprovider.go:254`) | `EnvelopesOpen`; in memory `ActiveIsNewest`, `RevocationSticks` |
| `settled` | the last rotation to end failed after retiring the old key, or the active key was revoked (`fileprovider.go:278`) | `RotationLeavesKey` |
| `struck` | holds no version a rotation has read as active (`fileprovider.go:264`) | `RevocationSticks` |
| `missed`, `undone` | the lookup of a duplicate failed (`engine.go:281`); a record was rolled back | `ImportedOnce`, a half each |
| `overlapped`, `cut` | two calls on one import job; one that ends between its writes (`engine.go:295`, `resume.go:93`) | `SettledJobAddsUp`; `overlapped` in `RollbackIsFinal` |
| `raced` | an amendment is staged under a validation (`engine.go:198`) | `AppliedWasValidated`, `AppliedIsComplete` |
| `skipped` | an amendment was not effective when its job was applied (`engine.go:416`) | `AppliedIsComplete` |
| `changes` | an entry was changed twice (`engine.go:322`) | `RollbackRestores` |

## Where the code departs from its documentation

One claim is refuted by a run, `corpus_added`, and quoted under `findings`: rolling back
an added amendment leaves its entry empty (`packages/corpusupdater/engine.go:475`). An Add
without a `TargetID` is written under the amendment's own id, but the `UPDATE` of
`PostgresAmendmentRepository` does not store that id, so the rollback empties the entry
of the empty name and the added text stays.

The properties of the passing runs carry, as a condition each, what refutes the other
claims. In `caselifecycle` and `signoff` they have one cause: rows and records are read,
checked and written back by separate calls, and no write tests what was read.

- A metadata update that read the closed row writes it back after `Archive`, and the
  archived case is closed again (`archive.go:14`: "an archived case can never be
  reopened"). `UncontendedWritesAreLegal` and `ImplementsCaseMachine` hold up to the
  first stale write, and this is one.
- Two updates that name one `ExpectedVersion` both succeed, as the version is compared
  with the copy (`metadata.go:80`). They store different maps under one version, which
  `GateShowsReviewedContent` excepts.
- An approval checked before an edit is written after the re-review of that edit
  (`rereview.go:20`: "a stale approval can never survive"): the exception of
  `ReReviewSettles`. The next scheduled re-review reverts it
  (`StaleApprovalIsReverted`).
- Decisions take `OccurredAt` before they read the record, so the trail sorted by it may
  end in a status the record does not have (`types.go:99`: "in order").
- `drive` saves the run state while the checkpoint it relies on is still being saved,
  and ignores both errors; if the checkpoint is lost every `Resume` fails
  (`reasoning-orchestration.md:159`): the exception of `ResumedRunEnds`. A resumed run
  keeps `FailedStage` even when it is complete (`stage.go:173`).
- `auditlog` hashes a time in nanoseconds (`chain.go:20`) that `TIMESTAMPTZ` stores in
  microseconds, so an event stamped by a finer clock does not verify when read back;
  overlapping appends fork the chain. `BreaksAreLocal` bounds the damage. A purge of
  everything leaves an event without a predecessor, which passes `VerifyGenesisChain`.
- With `InMemoryRepository` the metadata of keys is gone after a restart, the next
  rotation is version 1 again and writes over the file of the old version 1
  (`fileprovider.go:227`: "old ciphertext stays decryptable"): the exception `wiped` of
  `EnvelopesOpen`. Two providers on one tenant do the same to each other: `overlapped`.
- A key revoked after a rotation read it as active and before the rotation retires it
  (`fileprovider.go:264`) ends as retired: the revocation is overwritten.
  `RevocationSticks` speaks of the versions no rotation had read (`struck`).
- A rotation that fails between retiring the old key and creating the new one
  (`fileprovider.go:278`) leaves the tenant without an active key, and `CurrentKey`
  fails until another rotation succeeds. The comment there chose this order of the two
  calls to avoid two active keys; `RotationLeavesKey` holds while `settled`.
- After an empty result, or when a job that had ended is processed again and fails, the
  checkpoint names no stage that would help: the stages are recorded as completed,
  `Resume` skips them, finds nothing in the stash and fails again, each time
  (`orchestrator.go:349-361`). `ingestion/doc/ingestion-workflow.md:136` says the
  checkpoint "records the *actual stage that exhausted retries*", and `recovery.go:87`
  that one at `StageFailed` "still carries the stage that was being attempted".
  `FailedIsRecoverable` excepts `hollow` and `cleared`.
- A batch that stops midway cannot be resumed with Postgres: its first records are there
  and the cursor is not, so each later `RunBatch` is refused by the unique index on job
  and source index (`bulkimport/types.go:139`, of the `Cursor`: "so a crash mid-job can
  resume from the last completed record"). What is there may be rolled back, but the
  first `Rollback` reverses more records than the job counts and its `UPDATE` is refused
  by `bulkimport_jobs_counts_nonneg`; the job stays failed with its records reversed,
  and the second `Rollback`, with nothing left to reverse, goes through.
  `SettledJobAddsUp` excepts `cut`.
- An amendment that is not effective when its job is applied is never applied: the job
  is marked applied, and `ApplyJob` takes no applied job.
  `corpusupdater/doc/corpus-updater.md:72` says it "stays untouched until a later
  `ApplyJob` call ... picks it up", and `corpusupdater/types.go:58` that the amendments
  of an applied job "were all applied". `AppliedIsComplete` excepts `skipped`.
- An Add over an entry that is there takes no snapshot (`corpusupdater/engine.go:303`),
  so its rollback blanks the entry and the text it wrote over is lost
  (`corpusupdater/types.go:247`: `PreviousText` is captured "so Engine.Rollback can
  restore it"). `RollbackRestores` excepts `Overwrites`.
- `Rollback` of two amendments of one entry goes through them in the order they were
  applied, so the entry ends with the text of the first amendment: `RollbackRestores`
  speaks of entries changed once.

## What is not modelled

`PROJECT.json` gives the reason for each package. Most of the code, by size, is of one
of these kinds: data transformation and pure functions around external models and
stores (retrieval, the agents, evaluation, localisation); CRUD of records with a
validation and a permission check; configuration, tooling, HTTP clients, the web client.
It has no behaviour over time that a step of somebody else could break, and a model of it
would restate it. Permissions and tenant scoping are stateless checks before a handler
and are left out of every module: a refused request changes nothing.

`reliability`'s circuit breaker and idempotency guard are libraries that nothing under
`src/` calls, so their hazards are listed but there is no caller to model them with.
Break-glass grants, the intake buffer, `integration`, `privacy` and `accessgovernance`
have behaviour worth a module and have none yet. `ApplyAmendment` called directly, past
`ApplyJob`, is not modelled.

## Plan

1. `CaseLifecycle`, `CaseMachine`, `Signoff`, `CaseReview`, `ReasoningRun`, `Ingestion`,
   `AuditChain`, `KeyRotation`, `BulkImport`, `CorpusUpdate`: modelled, checked, and every
   safety property proved.
2. The guardrail stage of `ReasoningRun` composed with `Signoff`: its stored answer may
   be older than the record it was read from.
3. The intake buffer with discard, break-glass grants, deliveries of `integration`.
