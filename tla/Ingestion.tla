------------------------------ MODULE Ingestion ------------------------------
(***************************************************************************)
(* packages/ingestion: the queue, the workers and the staged processing of *)
(* a job.                                                                  *)
(*                                                                         *)
(* A worker takes a job from a bounded queue and runs its five stages in   *)
(* order.  Three things outlive a stage: a record per stage (completed,    *)
(* attempts), the checkpoint Resume starts from, and the stash that holds  *)
(* the results a later stage is built from.  Each is kept in a store of    *)
(* its own and written by a call of its own, and nothing keeps two callers *)
(* from processing the same job.  A restart empties the stash and the      *)
(* queue; the stores are interfaces handed to the orchestrator, and what   *)
(* they hold may survive it.                                               *)
(***************************************************************************)
EXTENDS Naturals, Sequences

CONSTANTS
    Jobs,
    Workers,     \* goroutines in Run
    Callers,     \* direct callers of Process and Resume
    Submitters,  \* callers of Enqueue
    Last,        \* the last stage: classify, the fifth
    Capacity,    \* of the queue's channel
    MaxAttempts, \* RetryPolicy.MaxAttempts
    MaxEnqueues, \* bound on the calls of Enqueue
    MaxCalls,    \* bound on the calls of Process and Resume
    MaxRestarts, \* bound on the restarts of the process
    NoStage,     \* no checkpoint, or a job never seen
    NoJob

ASSUME BoundsAssumption ==
    /\ Last \in Nat /\ Last > 2
    /\ Capacity \in Nat \ {0} /\ MaxAttempts \in Nat \ {0}
    /\ MaxEnqueues \in Nat /\ MaxCalls \in Nat /\ MaxRestarts \in Nat

\* No checkpoint is not a checkpoint at some stage.
ASSUME NoStageAssumption == NoStage \notin 0 .. Last + 1

\* Somebody called Run.
ASSUME WorkersAssumption == Workers # {}

VARIABLES
    queue, closed, cancelled, \* the channel, and the workers' context
    sending,    \* the job an Enqueue holds between its two selects
    status,     \* StatusStore: the stage shown for each job
    checkpoint, \* RecoveryStore
    records,    \* IdempotencyStore
    letters,    \* DeadLetterQueue: the stage a job died at
    stash,      \* the stages whose result is in the job's pipelineState
    pc, job, at, attempt, \* where a worker or caller is, and with what
    input,      \* its pipelineState, as the running stage sees it
    enqueues, calls, restarts, \* counted against the bounds
    late,       \* history: jobs in the queue that were sent after Close
    begun,      \* history: how often processing of the job began
    overlapped, \* history: two were processing the job at once
    cleared,    \* history: the job's stash was cleared at its end
    hollow,     \* history: a stage succeeded with an empty result
    made,       \* history: the attempts made at each stage of a job
    renewed     \* history: how often attempts counted in a record were forgotten

queueVars == <<queue, closed, cancelled, sending, enqueues, late>>
storeVars == <<status, checkpoint, records, letters>>
procVars == <<pc, job, at, attempt, input>>
callVars == <<calls, begun, overlapped>>
historyVars == <<cleared, hollow, made, renewed>>
vars == <<queueVars, storeVars, stash, procVars, callVars, restarts, historyVars>>

-----------------------------------------------------------------------------

Procs == Workers \cup Callers

\* stageOrder: intake, extraction, normalize, segment, classify, complete.
Failed == 0
Intake == 1
Extraction == 2
Complete == Last + 1
Stages == Intake .. Last
Stage == Failed .. Complete

\* The results a stage reads: normalize, segment and classify refuse to run
\* without that of the stage before.
Needs(s) == IF s > Extraction THEN {s - 1} ELSE {}

\* The stages that may succeed with nothing: no text, no segment, none classified.
MayBeEmpty == {Extraction, Last - 1, Last}

Fresh == [completed |-> FALSE, attempts |-> 0]

\* How often attempts were forgotten, once a fresh record takes the place of this one.
Renewed(j, s) == renewed[j][s] + (IF records[j][s].attempts = 0 THEN 0 ELSE 1)

Active(p) == pc[p] \notin {"idle", "stopped"}
At(p, where) == pc[p] = where
Goto(p, where) == pc' = [pc EXCEPT ![p] = where]

\* The stage function has returned.
Leave(p, where) == /\ Goto(p, where)
                   /\ attempt' = [attempt EXCEPT ![p] = 0]
                   /\ input' = [input EXCEPT ![p] = "missing"]

\* process has returned: nothing of the call is left.
Finish(p) == /\ Goto(p, "idle")
             /\ job' = [job EXCEPT ![p] = NoJob]
             /\ at' = [at EXCEPT ![p] = Intake]
             /\ attempt' = [attempt EXCEPT ![p] = 0]
             /\ input' = [input EXCEPT ![p] = "missing"]

Init ==
    /\ queue = <<>> /\ closed = FALSE /\ cancelled = FALSE
    /\ sending = [s \in Submitters |-> NoJob]
    /\ status = [j \in Jobs |-> NoStage]
    /\ checkpoint = [j \in Jobs |-> NoStage]
    /\ records = [j \in Jobs |-> [s \in Stages |-> Fresh]]
    /\ letters = [j \in Jobs |-> NoStage]
    /\ stash = [j \in Jobs |-> {}]
    /\ pc = [p \in Procs |-> "idle"]
    /\ job = [p \in Procs |-> NoJob]
    /\ at = [p \in Procs |-> Intake]
    /\ attempt = [p \in Procs |-> 0]
    /\ input = [p \in Procs |-> "missing"]
    /\ enqueues = 0 /\ calls = 0 /\ restarts = 0 /\ late = 0
    /\ begun = [j \in Jobs |-> 0]
    /\ overlapped = [j \in Jobs |-> FALSE]
    /\ cleared = [j \in Jobs |-> FALSE]
    /\ hollow = [j \in Jobs |-> FALSE]
    /\ made = [j \in Jobs |-> [s \in Stages |-> 0]]
    /\ renewed = [j \in Jobs |-> [s \in Stages |-> 0]]

-----------------------------------------------------------------------------
(* The queue.                                                              *)

\* Enqueue's first select: the queue is open.
Enqueue(s, j) ==
    /\ enqueues < MaxEnqueues
    /\ sending[s] = NoJob
    /\ ~closed
    /\ sending' = [sending EXCEPT ![s] = j]
    /\ enqueues' = enqueues + 1
    /\ UNCHANGED <<queue, closed, cancelled, late, storeVars, stash, procVars,
                   callVars, restarts, historyVars>>

\* Its second select: with room in the channel and the queue closed, either case
\* may be taken.
Send(s) ==
    /\ sending[s] # NoJob
    /\ Len(queue) < Capacity
    /\ queue' = Append(queue, sending[s])
    /\ late' = IF closed THEN late + 1 ELSE late
    /\ sending' = [sending EXCEPT ![s] = NoJob]
    /\ UNCHANGED <<closed, cancelled, enqueues, storeVars, stash, procVars,
                   callVars, restarts, historyVars>>

Refuse(s) ==
    /\ sending[s] # NoJob
    /\ closed
    /\ sending' = [sending EXCEPT ![s] = NoJob]
    /\ UNCHANGED <<queue, closed, cancelled, enqueues, late, storeVars, stash,
                   procVars, callVars, restarts, historyVars>>

Close ==
    /\ ~closed
    /\ closed' = TRUE
    /\ UNCHANGED <<queue, cancelled, sending, enqueues, late, storeVars, stash,
                   procVars, callVars, restarts, historyVars>>

Cancel ==
    /\ ~cancelled
    /\ cancelled' = TRUE
    /\ UNCHANGED <<queue, closed, sending, enqueues, late, storeVars, stash,
                   procVars, callVars, restarts, historyVars>>

-----------------------------------------------------------------------------
(* Entering process.                                                       *)

\* p starts on job j at the given step.
Begin(p, j, where) ==
    /\ At(p, "idle")
    /\ Goto(p, where)
    /\ job' = [job EXCEPT ![p] = j]
    /\ begun' = [begun EXCEPT ![j] = @ + 1]
    /\ overlapped' = [overlapped EXCEPT
                        ![j] = @ \/ \E o \in Procs : Active(o) /\ job[o] = j]
    /\ UNCHANGED <<storeVars, stash, attempt, restarts, historyVars>>

\* Run: Dequeue prefers a buffered job to a closed queue.
Dequeue(w) ==
    /\ w \in Workers
    /\ queue # <<>>
    /\ Begin(w, Head(queue), "load")
    /\ queue' = Tail(queue)
    /\ late' = IF late = Len(queue) THEN late - 1 ELSE late
    /\ UNCHANGED <<closed, cancelled, sending, enqueues, at, input, calls>>

\* A defect: the closed queue is not drained.
Stop_Undrained(w) ==
    /\ w \in Workers
    /\ At(w, "idle")
    /\ cancelled \/ closed
    /\ Goto(w, "stopped")
    /\ UNCHANGED <<queueVars, storeVars, stash, job, at, attempt, input, callVars,
                   restarts, historyVars>>

\* Run returns: the queue is closed and drained, or the context is done.
Stop(w) ==
    /\ w \in Workers
    /\ At(w, "idle")
    /\ cancelled \/ (closed /\ queue = <<>>)
    /\ Goto(w, "stopped")
    /\ UNCHANGED <<queueVars, storeVars, stash, job, at, attempt, input, callVars,
                   restarts, historyVars>>

Process(c, j) ==
    /\ c \in Callers
    /\ calls < MaxCalls
    /\ calls' = calls + 1
    /\ Begin(c, j, "load")
    /\ UNCHANGED <<queueVars, at, input>>

\* PlanResume: there is a checkpoint, and not one of a complete job.
Resume(c, j) ==
    /\ c \in Callers
    /\ calls < MaxCalls
    /\ calls' = calls + 1
    /\ checkpoint[j] \notin {NoStage, Complete}
    /\ Begin(c, j, "reset")
    /\ at' = [at EXCEPT ![c] = checkpoint[j]]
    /\ UNCHANGED <<queueVars, input>>

\* The checkpoint is looked up again; the planned stage gets a new record.
Reset(c) ==
    /\ At(c, "reset")
    /\ \/ /\ checkpoint[job[c]] = NoStage
          /\ Finish(c)
          /\ UNCHANGED <<records, renewed>>
       \/ /\ checkpoint[job[c]] # NoStage
          /\ IF at[c] \in Stages
             THEN /\ records' = [records EXCEPT ![job[c]][at[c]] = Fresh]
                  /\ renewed' = [renewed EXCEPT
                                    ![job[c]][at[c]] = Renewed(job[c], at[c])]
             ELSE UNCHANGED <<records, renewed>>
          /\ Goto(c, "load")
          /\ UNCHANGED <<job, at, attempt, input>>
    /\ UNCHANGED <<queueVars, status, checkpoint, letters, stash, callVars, restarts,
                   cleared, hollow, made>>

\* The checkpoint is loaded and its stage shown; one that is not among the five
\* means the first.
Load(p) ==
    LET from == IF checkpoint[job[p]] = NoStage THEN Intake ELSE checkpoint[job[p]] IN
    /\ At(p, "load")
    /\ status' = [status EXCEPT ![job[p]] = from]
    /\ at' = [at EXCEPT ![p] = IF from \in Stages THEN from ELSE Intake]
    /\ Goto(p, "check")
    /\ UNCHANGED <<queueVars, checkpoint, records, letters, stash, job, attempt,
                   input, callVars, restarts, historyVars>>

-----------------------------------------------------------------------------
(* RunWithRetry.                                                           *)

\* A stage recorded as completed is not run again.
Skip(p) ==
    /\ At(p, "check")
    /\ records[job[p]][at[p]].completed
    /\ Goto(p, "save")
    /\ UNCHANGED <<queueVars, storeVars, stash, job, at, attempt, input, callVars,
                   restarts, historyVars>>

\* MarkAttempt, and the stage function reads what it needs.
CallStage(p) ==
    LET j == job[p]  s == at[p]  n == records[j][s].attempts + 1 IN
    /\ At(p, "retry") \/ (At(p, "check") /\ ~records[j][s].completed)
    /\ records' = [records EXCEPT ![j][s].attempts = n]
    /\ made' = [made EXCEPT ![j][s] = @ + 1]
    /\ attempt' = [attempt EXCEPT ![p] = n]
    /\ input' = [input EXCEPT ![p] = IF Needs(s) \subseteq stash[j]
                                     THEN "held" ELSE "missing"]
    /\ Goto(p, "running")
    /\ UNCHANGED <<queueVars, status, checkpoint, letters, stash, job, at, callVars,
                   restarts, cleared, hollow, renewed>>

\* A defect: the result is not kept.
StageSucceeds_Unstashed(p, empty) ==
    LET j == job[p]  s == at[p] IN
    /\ At(p, "running")
    /\ input[p] # "missing"
    /\ empty => s \in MayBeEmpty
    /\ records' = [records EXCEPT ![j][s].completed = TRUE]
    /\ hollow' = [hollow EXCEPT ![j] = @ \/ empty]
    /\ Leave(p, "save")
    /\ UNCHANGED <<queueVars, status, checkpoint, letters, stash, job, at, callVars,
                   restarts, cleared, made, renewed>>

\* The result goes into the pipelineState fetched at the start, which is the
\* job's no more if the stash was cleared meanwhile; extraction fetches it at the
\* end.  The stage is then recorded as completed.
StageSucceeds(p, empty) ==
    LET j == job[p]  s == at[p] IN
    /\ At(p, "running")
    /\ input[p] # "missing"
    /\ empty => s \in MayBeEmpty
    /\ stash' = IF s = Intake \/ (s # Extraction /\ input[p] = "orphaned")
                THEN stash
                ELSE [stash EXCEPT ![j] = IF empty THEN @ \ {s} ELSE @ \cup {s}]
    /\ records' = [records EXCEPT ![j][s].completed = TRUE]
    /\ hollow' = [hollow EXCEPT ![j] = @ \/ empty]
    /\ Leave(p, "save")
    /\ UNCHANGED <<queueVars, status, checkpoint, letters, job, at, callVars,
                   restarts, cleared, made, renewed>>

\* A defect: the attempts are counted from one by every call.
StageFails_Endless(p) ==
    /\ At(p, "running")
    /\ \/ Leave(p, "retry") /\ ~(p \in Workers /\ cancelled)
       \/ Leave(p, "failed") /\ (p \in Callers \/ cancelled)
    /\ UNCHANGED <<queueVars, storeVars, stash, job, at, callVars, restarts,
                   historyVars>>

\* Another attempt, unless this was the last or the context is done: the workers'
\* when Run is cancelled, a direct caller's own at any time.
StageFails(p) ==
    /\ At(p, "running")
    /\ \/ /\ attempt[p] < MaxAttempts
          /\ ~(p \in Workers /\ cancelled)
          /\ Leave(p, "retry")
       \/ /\ attempt[p] >= MaxAttempts \/ p \in Callers \/ cancelled
          /\ Leave(p, "failed")
    /\ UNCHANGED <<queueVars, storeVars, stash, job, at, callVars, restarts,
                   historyVars>>

-----------------------------------------------------------------------------
(* After a stage.                                                          *)

\* Status and checkpoint move on to the next stage.  No handler reads the status, so
\* the two writes are one step: between them it would only show the next stage early.
Save(p) ==
    LET next == at[p] + 1 IN
    /\ At(p, "save")
    /\ status' = [status EXCEPT ![job[p]] = next]
    /\ checkpoint' = [checkpoint EXCEPT ![job[p]] = next]
    /\ at' = [at EXCEPT ![p] = next]
    /\ Goto(p, IF next = Complete THEN "collect" ELSE "check")
    /\ UNCHANGED <<queueVars, records, letters, stash, job, attempt, input, callVars,
                   restarts, historyVars>>

\* The stage that failed is shown, then made the checkpoint.
ShowFailed(p) ==
    /\ At(p, "failed")
    /\ status' = [status EXCEPT ![job[p]] = at[p]]
    /\ Goto(p, "fail")
    /\ UNCHANGED <<queueVars, checkpoint, records, letters, stash, job, at, attempt,
                   input, callVars, restarts, historyVars>>

\* A defect: a failed stage leaves the checkpoint where it was.
Fail_NoCheckpoint(p) ==
    /\ At(p, "fail")
    /\ Goto(p, "bury")
    /\ UNCHANGED <<queueVars, storeVars, stash, job, at, attempt, input, callVars,
                   restarts, historyVars>>

Fail(p) ==
    /\ At(p, "fail")
    /\ checkpoint' = [checkpoint EXCEPT ![job[p]] = at[p]]
    /\ Goto(p, "bury")
    /\ UNCHANGED <<queueVars, status, records, letters, stash, job, at, attempt, input,
                   callVars, restarts, historyVars>>

Bury(p) ==
    /\ At(p, "bury")
    /\ letters' = [letters EXCEPT ![job[p]] = at[p]]
    /\ Goto(p, "report")
    /\ UNCHANGED <<queueVars, status, checkpoint, records, stash, job, at, attempt,
                   input, callVars, restarts, historyVars>>

\* A defect: the failure is not shown.
Report_Silent(p) ==
    /\ At(p, "report")
    /\ Finish(p)
    /\ UNCHANGED <<queueVars, storeVars, stash, callVars, restarts, historyVars>>

Report(p) ==
    /\ At(p, "report")
    /\ status' = [status EXCEPT ![job[p]] = Failed]
    /\ Finish(p)
    /\ UNCHANGED <<queueVars, checkpoint, records, letters, stash, callVars, restarts,
                   historyVars>>

\* All stages ran: the job is complete if classified segments are in the stash.
Collect(p) ==
    LET j == job[p] IN
    /\ At(p, "collect")
    /\ \/ /\ Last \in stash[j]
          /\ status' = [status EXCEPT ![j] = Complete]
          /\ Goto(p, "forget")
       \/ /\ Last \notin stash[j]
          /\ status' = [status EXCEPT ![j] = Failed]
          /\ Goto(p, "failEmpty")
    /\ UNCHANGED <<queueVars, checkpoint, records, letters, stash, job, at, attempt,
                   input, callVars, restarts, historyVars>>

\* After an empty result the checkpoint names no stage to go on from.
FailEmpty(p) ==
    /\ At(p, "failEmpty")
    /\ checkpoint' = [checkpoint EXCEPT ![job[p]] = Failed]
    /\ Goto(p, "buryEmpty")
    /\ UNCHANGED <<queueVars, status, records, letters, stash, job, at, attempt, input,
                   callVars, restarts, historyVars>>

BuryEmpty(p) ==
    /\ At(p, "buryEmpty")
    /\ letters' = [letters EXCEPT ![job[p]] = Last]
    /\ Goto(p, "clear")
    /\ UNCHANGED <<queueVars, status, checkpoint, records, stash, job, at, attempt,
                   input, callVars, restarts, historyVars>>

Forget(p) ==
    /\ At(p, "forget")
    /\ checkpoint' = [checkpoint EXCEPT ![job[p]] = NoStage]
    /\ Goto(p, "clear")
    /\ UNCHANGED <<queueVars, status, records, letters, stash, job, at, attempt,
                   input, callVars, restarts, historyVars>>

\* clearStash: a stage of the job still running keeps a pipelineState of its own.
ClearStash(p) ==
    /\ At(p, "clear")
    /\ stash' = [stash EXCEPT ![job[p]] = {}]
    /\ input' = [q \in Procs |->
                    IF q = p THEN "missing"
                    ELSE IF job[q] = job[p] /\ input[q] = "held" THEN "orphaned"
                    ELSE input[q]]
    /\ cleared' = [cleared EXCEPT ![job[p]] = TRUE]
    /\ Goto(p, "idle")
    /\ job' = [job EXCEPT ![p] = NoJob]
    /\ at' = [at EXCEPT ![p] = Intake]
    /\ attempt' = [attempt EXCEPT ![p] = 0]
    /\ UNCHANGED <<queueVars, storeVars, callVars, restarts, hollow, made,
                   renewed>>

\* The process dies and another takes over its stores; the stage records may be
\* those of a store that died with it.
Restart ==
    /\ restarts < MaxRestarts
    /\ restarts' = restarts + 1
    /\ queue' = <<>> /\ closed' = FALSE /\ cancelled' = FALSE /\ late' = 0
    /\ sending' = [s \in Submitters |-> NoJob]
    /\ stash' = [j \in Jobs |-> {}]
    /\ pc' = [p \in Procs |-> "idle"]
    /\ job' = [p \in Procs |-> NoJob]
    /\ at' = [p \in Procs |-> Intake]
    /\ attempt' = [p \in Procs |-> 0]
    /\ input' = [p \in Procs |-> "missing"]
    /\ \/ UNCHANGED <<records, renewed>>
       \/ /\ records' = [j \in Jobs |-> [s \in Stages |-> Fresh]]
          /\ renewed' = [j \in Jobs |-> [s \in Stages |-> Renewed(j, s)]]
    /\ UNCHANGED <<enqueues, status, checkpoint, letters, callVars, cleared, hollow,
                   made>>

-----------------------------------------------------------------------------

\* What p does on its own once it is in Run, Process or Resume.
Step(p) ==
    \/ Reset(p) \/ Load(p) \/ Skip(p) \/ CallStage(p)
    \/ \E empty \in BOOLEAN : StageSucceeds(p, empty)
    \/ StageFails(p)
    \/ Save(p) \/ ShowFailed(p) \/ Fail(p) \/ Bury(p) \/ Report(p)
    \/ Collect(p) \/ FailEmpty(p) \/ BuryEmpty(p) \/ Forget(p) \/ ClearStash(p)
    \/ Dequeue(p) \/ Stop(p)

Next ==
    \/ \E s \in Submitters : Send(s) \/ Refuse(s) \/ \E j \in Jobs : Enqueue(s, j)
    \/ Close \/ Cancel \/ Restart
    \/ \E p \in Procs : Step(p)
    \/ \E c \in Callers, j \in Jobs : Process(c, j) \/ Resume(c, j)

Spec == Init /\ [][Next]_vars

\* Goroutines are scheduled and a stage function returns.
FairSpec == Spec /\ \A p \in Procs : WF_vars(Step(p))

-----------------------------------------------------------------------------
(* Properties.                                                             *)

Places == {"idle", "stopped", "reset", "load", "check", "retry",
           "running", "save", "failed", "fail", "bury", "report",
           "collect", "failEmpty", "buryEmpty", "forget", "clear"}

TypeOK ==
    /\ queue \in Seq(Jobs) /\ Len(queue) <= Capacity
    /\ closed \in BOOLEAN /\ cancelled \in BOOLEAN
    /\ sending \in [Submitters -> Jobs \cup {NoJob}]
    /\ status \in [Jobs -> Stage \cup {NoStage}]
    /\ checkpoint \in [Jobs -> Stage \cup {NoStage}]
    /\ records \in [Jobs -> [Stages -> [completed : BOOLEAN, attempts : Nat]]]
    /\ letters \in [Jobs -> Stages \cup {NoStage}]
    /\ stash \in [Jobs -> SUBSET (Stages \ {Intake})]
    /\ pc \in [Procs -> Places]
    /\ job \in [Procs -> Jobs \cup {NoJob}]
    /\ at \in [Procs -> Stage]
    /\ attempt \in [Procs -> Nat]
    /\ input \in [Procs -> {"held", "orphaned", "missing"}]
    /\ enqueues \in 0 .. MaxEnqueues /\ calls \in 0 .. MaxCalls
    /\ restarts \in 0 .. MaxRestarts
    /\ late \in 0 .. Len(queue)
    /\ begun \in [Jobs -> Nat]
    /\ overlapped \in [Jobs -> BOOLEAN]
    /\ cleared \in [Jobs -> BOOLEAN]
    /\ hollow \in [Jobs -> BOOLEAN]
    /\ made \in [Jobs -> [Stages -> Nat]]
    /\ renewed \in [Jobs -> [Stages -> Nat]]

\* A job sent before Close is taken by a worker before the last worker leaves
\* Run.  Left behind are at most the jobs of an Enqueue that found the queue open
\* and sent after Close, and everything if the context ends (queue.go, Run).
AcceptedIsTaken ==
    (~cancelled /\ \A w \in Workers : At(w, "stopped")) => Len(queue) = late

\* What a checkpoint says was done is there to go on from: the stages before it
\* are recorded, and the result the next one reads is in the stash.  The stash is
\* lost by a restart and cleared when the job first ends, and a record is lost when
\* Resume resets a stage that another caller has just got past.
CheckpointIsBacked ==
    \A j \in Jobs : LET s == checkpoint[j] IN
        (s \in Stages /\ restarts = 0 /\ ~cleared[j]) =>
            /\ Needs(s) \subseteq stash[j] \/ hollow[j]
            /\ overlapped[j] \/ \A k \in Intake .. s - 1 : records[j][k].completed

\* Resume would run again the stage that the job died at, on the results it needs.
Runnable(j) ==
    LET s == checkpoint[j] IN
    s \in Stages /\ letters[j] = s /\ Needs(s) \subseteq stash[j]

\* A job nobody works on any more and shown as failed is in the dead letters, and
\* Resume can run the stage it failed at.  Not so where a stage succeeded with
\* nothing, or the stash was cleared at an end of the job: what is recorded as
\* completed is skipped, its result is missing, and each Resume fails again, from a
\* checkpoint that is still there (process, PlanResume).  Excepted are jobs two
\* callers worked on at once (the one that completes it deletes the checkpoint of
\* the one that fails) or under which the process stopped.
FailedIsRecoverable ==
    \A j \in Jobs :
        (/\ status[j] = Failed
         /\ ~overlapped[j] /\ restarts = 0
         /\ \A p \in Procs : Active(p) => job[p] # j)
        => /\ checkpoint[j] # NoStage /\ letters[j] # NoStage
           /\ Runnable(j) \/ hollow[j] \/ cleared[j]

\* However often a job is submitted, processed and resumed, and by how many at once:
\* the attempts made at a stage are those the policy allows, granted once more each
\* time a record of them was replaced, and one by each call (MarkAttempt, Reset).
RetriesAreBounded ==
    \A j \in Jobs, s \in Stages :
        made[j][s] <= (renewed[j][s] + 1) * (MaxAttempts - 1) + begun[j]

\* A job sent in time is taken, and a job that was begun is shown as complete or
\* failed in the end, unless the process stops under it (Run, process).
JobsSettle ==
    /\ (Len(queue) > late) ~> (cancelled \/ Len(queue) = late)
    /\ \A j \in Jobs :
         (status[j] \in Stages) ~> (status[j] \in {Complete, Failed} \/ restarts > 0)

=============================================================================
