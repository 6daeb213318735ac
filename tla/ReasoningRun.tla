---------------------------- MODULE ReasoningRun ----------------------------
(***************************************************************************)
(* packages/reasoningorchestration: the pipeline of one case.              *)
(*                                                                         *)
(* A driver (a call of Run or Resume) runs the stages in order.  After     *)
(* each one it starts a goroutine that saves the stage's Checkpoint and    *)
(* saves the RunState itself, waiting for neither the goroutine nor a      *)
(* success: errors of the CheckpointStore are swallowed.  Resume trusts    *)
(* the RunState it finds and reads the Checkpoints it names one by one.    *)
(* Any number of drivers may work on the case, and a process may die.      *)
(***************************************************************************)
EXTENDS Naturals, FiniteSets

CONSTANTS
    Drivers,    \* callers of Run and Resume
    NumStages,  \* the pipeline is cut after this many stages
    MaxStarts,  \* bound on the calls of Run
    MaxCalls,   \* bound on the calls of Run and of Resume together
    MaxErrors,  \* bound on the stages that return an error
    MaxFaults,  \* bound on the store calls that fail and the crashes
    MaxDeletes, \* bound on the calls of DeleteByCase
    MayExpire,  \* whether the wall-clock budget may run out
    NoRun,      \* no RunState was saved
    NoCheckpoint

ASSUME StagesAssumption == NumStages \in 1 .. 8
ASSUME BoundsAssumption ==
    /\ MaxStarts \in Nat /\ MaxCalls \in Nat /\ MaxErrors \in Nat
    /\ MaxFaults \in Nat /\ MaxDeletes \in Nat /\ MayExpire \in BOOLEAN

VARIABLES
    runState,    \* the saved RunState of the case, or NoRun
    checkpoints, \* the saved Checkpoint of each stage, or NoCheckpoint
    pc,          \* where each driver is
    state,       \* its own RunState
    memory,      \* its pipelineContext: the call that made each output
    pending,     \* Checkpoints its goroutines have yet to save
    call,        \* the number of its call
    expired,     \* the runs, by number, whose wall-clock budget has run out
    calls,       \* calls of Run and Resume so far
    starts,      \* calls of Run so far
    errors,      \* stages that returned an error so far
    faults,      \* failed store calls and crashes so far
    deletes,     \* calls of DeleteByCase so far
    paid,        \* history: how often each stage was run
    failed,      \* history: how often it was run and returned an error
    overlapped,  \* history: two drivers were at work at once
    lost         \* history: a Checkpoint was lost before or after its save

storeVars == <<runState, checkpoints>>
driverVars == <<pc, state, memory, pending, call>>
boundVars == <<calls, starts, errors, faults, deletes>>
historyVars == <<paid, failed, overlapped, lost>>
vars == <<storeVars, driverVars, expired, boundVars, historyVars>>

-----------------------------------------------------------------------------

\* stageOrder: framing, first party, second party, evidence, law, synthesis,
\* uncertainty, guardrail; and the earlier outputs each stage is built from.
Stages == 1 .. NumStages

Inputs(s) ==
    CASE s = 1 -> {}
      [] s = 2 -> {1}
      [] s = 3 -> {1, 2}
      [] s = 4 -> {2, 3}
      [] s = 5 -> {1, 2, 3, 4}
      [] s = 6 -> {1, 2, 3, 4, 5}
      [] s = 7 -> {1, 4, 5, 6}
      [] s = 8 -> {6}

\* An output is told from others by the call that made it; 0 is no output.
Call == 1 .. MaxCalls
Memory == [ Stages -> 0 .. MaxCalls ]

Checkpoint == [ stage : Stages, by : Call, from : Memory ]

\* CurrentStage is left out: it is always the first stage not completed.
\* run, the number of the call that started the run, stands for StartedAt.
Termination == {"running", "complete", "failed", "budget_exhausted"}

RunState == [ completed : SUBSET Stages, termination : Termination,
              failedStage : Stages \cup {0}, run : 0 .. MaxCalls ]

ASSUME NoRunAssumption == NoRun \notin RunState
ASSUME NoCheckpointAssumption == NoCheckpoint \notin Checkpoint

NewRun(n) == [ completed |-> {}, termination |-> "running",
               failedStage |-> 0, run |-> n ]

Nothing == [ s \in Stages |-> 0 ]

Active(d) == pc[d] # "idle"

Init ==
    /\ runState = NoRun
    /\ checkpoints = [s \in Stages |-> NoCheckpoint]
    /\ pc = [d \in Drivers |-> "idle"]
    /\ state = [d \in Drivers |-> NewRun(0)]
    /\ memory = [d \in Drivers |-> Nothing]
    /\ pending = [d \in Drivers |-> {}]
    /\ call = [d \in Drivers |-> 0]
    /\ expired = {}
    /\ calls = 0 /\ starts = 0 /\ errors = 0 /\ faults = 0 /\ deletes = 0
    /\ paid = [s \in Stages |-> 0]
    /\ failed = [s \in Stages |-> 0]
    /\ overlapped = FALSE
    /\ lost = FALSE

-----------------------------------------------------------------------------
(* The entry points.                                                       *)

\* d starts to drive the given state.
Drive(d, next, st) ==
    /\ pc[d] = "idle"
    /\ calls < MaxCalls
    /\ calls' = calls + 1
    /\ call' = [call EXCEPT ![d] = calls + 1]
    /\ pc' = [pc EXCEPT ![d] = next]
    /\ state' = [state EXCEPT ![d] = st]
    /\ memory' = [memory EXCEPT ![d] = Nothing]
    /\ overlapped' = (overlapped \/ \E o \in Drivers : Active(o))
    /\ UNCHANGED <<storeVars, pending, expired, errors, faults, deletes, paid,
                   failed, lost>>

\* Run starts from the first stage and does not look at the store.
Run(d) ==
    /\ starts < MaxStarts
    /\ starts' = starts + 1
    /\ Drive(d, "stage", NewRun(calls + 1))

\* A defect: a failed run is not resumed.
Resume_NotFailed(d) ==
    /\ runState # NoRun
    /\ runState.termination \in {"running", "budget_exhausted"}
    /\ Drive(d, "load", [runState EXCEPT !.termination = "running"])
    /\ UNCHANGED starts

\* A defect: the stages are run again.
Resume_FromScratch(d) ==
    /\ runState # NoRun
    /\ runState.termination # "complete"
    /\ Drive(d, "stage", NewRun(runState.run))
    /\ UNCHANGED starts

\* A run that is complete, or was never saved, is not resumed.  FailedStage is
\* not cleared.
Resume(d) ==
    /\ runState # NoRun
    /\ runState.termination # "complete"
    /\ Drive(d, "load", [runState EXCEPT !.termination = "running"])
    /\ UNCHANGED starts

-----------------------------------------------------------------------------
(* drive.                                                                  *)

\* d goes on with another RunState.
Continue(d, next, st) ==
    /\ pc' = [pc EXCEPT ![d] = next]
    /\ state' = [state EXCEPT ![d] = st]

FailRun(d, stage) ==
    Continue(d, "save", [state[d] EXCEPT !.termination = "failed",
                                         !.failedStage = stage])

\* The completed stages whose Checkpoint d has not read yet.
Unread(d) == {s \in state[d].completed : memory[d][s] = 0}

Earliest(s, stages) == s \in stages /\ \A t \in stages : s <= t

\* A defect: a missing Checkpoint is skipped.
LoadCheckpoint_SkipMissing(d) ==
    /\ pc[d] = "load"
    /\ \/ \E s \in Unread(d) :
             /\ Earliest(s, Unread(d))
             /\ checkpoints[s] # NoCheckpoint
             /\ memory' = [memory EXCEPT ![d][s] = checkpoints[s].by]
             /\ UNCHANGED <<pc, state>>
       \/ /\ \A s \in Unread(d) : checkpoints[s] = NoCheckpoint
          /\ Continue(d, "stage", state[d])
          /\ UNCHANGED memory
    /\ UNCHANGED <<storeVars, pending, call, expired, boundVars, historyVars>>

\* loadCompletedStageOutputs, one GetCheckpoint at a time.  A missing
\* Checkpoint fails the run, at the first stage.
LoadCheckpoint(d) ==
    /\ pc[d] = "load"
    /\ \/ \E s \in Unread(d) :
             /\ Earliest(s, Unread(d))
             /\ IF checkpoints[s] = NoCheckpoint
                  THEN FailRun(d, 1) /\ UNCHANGED memory
                  ELSE /\ memory' = [memory EXCEPT ![d][s] = checkpoints[s].by]
                       /\ UNCHANGED <<pc, state>>
       \/ /\ Unread(d) = {}
          /\ Continue(d, "stage", state[d])
          /\ UNCHANGED memory
    /\ UNCHANGED <<storeVars, pending, call, expired, boundVars, historyVars>>

\* GetCheckpoint returns another error.
LoadFails(d) ==
    /\ pc[d] = "load"
    /\ Unread(d) # {}
    /\ faults < MaxFaults
    /\ faults' = faults + 1
    /\ FailRun(d, 1)
    /\ UNCHANGED <<storeVars, memory, pending, call, expired, calls, starts,
                   errors, deletes, historyVars>>

\* The first stage that is not completed, which the loop looks at next.
IsNext(d, s) == Earliest(s, Stages \ state[d].completed)

\* What stage s of d's run makes of the outputs d holds.
Output(d, s) ==
    [ stage |-> s, by |-> call[d],
      from |-> [t \in Stages |-> IF t \in Inputs(s) THEN memory[d][t] ELSE 0] ]

RunStage(d, s) ==
    /\ pc[d] = "stage"
    /\ IsNext(d, s)
    /\ state[d].run \notin expired
    /\ memory' = [memory EXCEPT ![d][s] = call[d]]
    /\ pending' = [pending EXCEPT ![d] = @ \cup {Output(d, s)}]
    /\ Continue(d, "save", [state[d] EXCEPT !.completed = @ \cup {s}])
    /\ paid' = [paid EXCEPT ![s] = @ + 1]
    /\ UNCHANGED <<storeVars, call, expired, boundVars, failed,
                   overlapped, lost>>

\* A defect: the stage is recorded before its error is looked at.
StageFails_Recorded(d, s) ==
    /\ pc[d] = "stage"
    /\ IsNext(d, s)
    /\ state[d].run \notin expired
    /\ errors < MaxErrors
    /\ errors' = errors + 1
    /\ Continue(d, "save", [state[d] EXCEPT !.completed = @ \cup {s},
                !.termination = "failed", !.failedStage = s])
    /\ paid' = [paid EXCEPT ![s] = @ + 1]
    /\ failed' = [failed EXCEPT ![s] = @ + 1]
    /\ UNCHANGED <<storeVars, memory, pending, call, expired, calls, starts,
                   faults, deletes, overlapped, lost>>

\* An agent, the tree or the guardrail has been run and returns an error.
StageFails(d, s) ==
    /\ pc[d] = "stage"
    /\ IsNext(d, s)
    /\ state[d].run \notin expired
    /\ errors < MaxErrors
    /\ errors' = errors + 1
    /\ FailRun(d, s)
    /\ paid' = [paid EXCEPT ![s] = @ + 1]
    /\ failed' = [failed EXCEPT ![s] = @ + 1]
    /\ UNCHANGED <<storeVars, memory, pending, call, expired, calls, starts,
                   faults, deletes, overlapped, lost>>

\* MaxTotalWallClock is tested before each stage only.
HaltOnBudget(d) ==
    /\ pc[d] = "stage"
    /\ state[d].completed # Stages
    /\ state[d].run \in expired
    /\ Continue(d, "save",
                [state[d] EXCEPT !.termination = "budget_exhausted"])
    /\ UNCHANGED <<storeVars, memory, pending, call, expired, boundVars,
                   historyVars>>

\* A defect: the terminal marker is recorded as a completed stage.
CompleteRun_Marked(d) ==
    /\ pc[d] = "stage"
    /\ state[d].completed = Stages
    /\ Continue(d, "save", [state[d] EXCEPT !.termination = "complete",
                                !.completed = @ \cup {NumStages + 1}])
    /\ UNCHANGED <<storeVars, memory, pending, call, expired, boundVars,
                   historyVars>>

\* Every stage is done.
CompleteRun(d) ==
    /\ pc[d] = "stage"
    /\ state[d].completed = Stages
    /\ Continue(d, "save", [state[d] EXCEPT !.termination = "complete"])
    /\ UNCHANGED <<storeVars, memory, pending, call, expired, boundVars,
                   historyVars>>

-----------------------------------------------------------------------------
(* Persistence.                                                            *)

AfterSave(d) ==
    pc' = [pc EXCEPT ![d] = IF state[d].termination = "running"
                              THEN "stage" ELSE "wait"]

\* A defect: only the stage just finished is recorded as completed.
PersistRunState_LastOnly(d) ==
    /\ pc[d] = "save"
    /\ runState' = [state[d] EXCEPT !.completed =
                       {s \in @ : \A t \in @ : t <= s}]
    /\ AfterSave(d)
    /\ UNCHANGED <<checkpoints, state, memory, pending, call, expired, boundVars,
                   historyVars>>

\* SaveRunState overwrites what the store holds.
PersistRunState(d) ==
    /\ pc[d] = "save"
    /\ runState' = state[d]
    /\ AfterSave(d)
    /\ UNCHANGED <<checkpoints, state, memory, pending, call, expired, boundVars,
                   historyVars>>

\* SaveRunState returns an error, which is swallowed.
PersistRunStateFails(d) ==
    /\ pc[d] = "save"
    /\ faults < MaxFaults
    /\ faults' = faults + 1
    /\ AfterSave(d)
    /\ UNCHANGED <<storeVars, state, memory, pending, call, expired, calls,
                   starts, errors, deletes, historyVars>>

\* A defect: a Checkpoint that is already stored is kept.
SaveCheckpoint_KeepsOld(d, cp) ==
    /\ cp \in pending[d]
    /\ checkpoints' = [checkpoints EXCEPT ![cp.stage] =
                          IF @ = NoCheckpoint THEN cp ELSE @]
    /\ pending' = [pending EXCEPT ![d] = @ \ {cp}]
    /\ UNCHANGED <<runState, pc, state, memory, call, expired, boundVars,
                   historyVars>>

\* A goroutine of persistCheckpointAsync saves its Checkpoint.
SaveCheckpoint(d, cp) ==
    /\ cp \in pending[d]
    /\ checkpoints' = [checkpoints EXCEPT ![cp.stage] = cp]
    /\ pending' = [pending EXCEPT ![d] = @ \ {cp}]
    /\ UNCHANGED <<runState, pc, state, memory, call, expired, boundVars,
                   historyVars>>

\* SaveCheckpoint returns an error, which is swallowed.
SaveCheckpointFails(d, cp) ==
    /\ cp \in pending[d]
    /\ faults < MaxFaults
    /\ faults' = faults + 1
    /\ pending' = [pending EXCEPT ![d] = @ \ {cp}]
    /\ lost' = TRUE
    /\ UNCHANGED <<storeVars, pc, state, memory, call, expired, calls, starts,
                   errors, deletes, paid, failed, overlapped>>

\* drive returns once its goroutines are done.
Return(d) ==
    /\ pc[d] = "wait"
    /\ pending[d] = {}
    /\ pc' = [pc EXCEPT ![d] = "idle"]
    /\ state' = [state EXCEPT ![d] = NewRun(0)]
    /\ memory' = [memory EXCEPT ![d] = Nothing]
    /\ call' = [call EXCEPT ![d] = 0]
    /\ UNCHANGED <<storeVars, pending, expired, boundVars, historyVars>>

-----------------------------------------------------------------------------
(* The environment.                                                        *)

\* The process of d dies, with its goroutines.
Crash(d) ==
    /\ Active(d)
    /\ faults < MaxFaults
    /\ faults' = faults + 1
    /\ pc' = [pc EXCEPT ![d] = "idle"]
    /\ state' = [state EXCEPT ![d] = NewRun(0)]
    /\ memory' = [memory EXCEPT ![d] = Nothing]
    /\ pending' = [pending EXCEPT ![d] = {}]
    /\ call' = [call EXCEPT ![d] = 0]
    /\ lost' = (lost \/ pending[d] # {})
    /\ UNCHANGED <<storeVars, expired, calls, starts, errors, deletes, paid,
                   failed, overlapped>>

\* The Checkpoints a driver at work counts on are lost to it.
DeleteByCase ==
    /\ deletes < MaxDeletes
    /\ deletes' = deletes + 1
    /\ runState' = NoRun
    /\ checkpoints' = [s \in Stages |-> NoCheckpoint]
    /\ lost' = (lost \/ \E d \in Drivers : Active(d))
    /\ UNCHANGED <<driverVars, expired, calls, starts, errors, faults, paid,
                   failed, overlapped>>

\* MaxTotalWallClock has passed since the run was started.
Expire(n) ==
    /\ MayExpire
    /\ n \in 1 .. calls
    /\ n \notin expired
    /\ \/ runState # NoRun /\ runState.run = n
       \/ \E d \in Drivers : state[d].run = n
    /\ expired' = expired \cup {n}
    /\ UNCHANGED <<storeVars, driverVars, boundVars, historyVars>>

Progress(d) ==
    \/ LoadCheckpoint(d)
    \/ \E s \in Stages : RunStage(d, s)
    \/ HaltOnBudget(d) \/ CompleteRun(d)
    \/ PersistRunState(d)
    \/ \E cp \in pending[d] : SaveCheckpoint(d, cp)
    \/ Return(d)

Trouble(d) ==
    \/ LoadFails(d)
    \/ \E s \in Stages : StageFails(d, s)
    \/ PersistRunStateFails(d)
    \/ \E cp \in pending[d] : SaveCheckpointFails(d, cp)
    \/ Crash(d)

DriverStep(d) == Run(d) \/ Resume(d) \/ Progress(d) \/ Trouble(d)

Next ==
    \/ \E d \in Drivers : DriverStep(d)
    \/ DeleteByCase
    \/ \E n \in Call : Expire(n)

Spec == Init /\ [][Next]_vars

\* Whoever drives the case goes on, and an interrupted run is resumed.
FairSpec ==
    Spec /\ \A d \in Drivers : WF_vars(Resume(d)) /\ WF_vars(Progress(d))

-----------------------------------------------------------------------------
(* Properties.                                                             *)

\* Every variable has its type.
TypeOK ==
    /\ runState \in RunState \cup {NoRun}
    /\ checkpoints \in [Stages -> Checkpoint \cup {NoCheckpoint}]
    /\ pc \in [Drivers -> {"idle", "load", "stage", "save", "wait"}]
    /\ state \in [Drivers -> RunState]
    /\ memory \in [Drivers -> Memory]
    /\ pending \in [Drivers -> SUBSET Checkpoint]
    /\ call \in [Drivers -> 0 .. MaxCalls]
    /\ expired \subseteq Call
    /\ calls \in 0 .. MaxCalls /\ starts \in 0 .. MaxStarts
    /\ errors \in 0 .. MaxErrors /\ faults \in 0 .. MaxFaults
    /\ deletes \in 0 .. MaxDeletes
    /\ paid \in [Stages -> Nat] /\ failed \in [Stages -> Nat]
    /\ overlapped \in BOOLEAN /\ lost \in BOOLEAN

\* The stages a RunState says Resume may skip.
Skipped(st) == IF st.termination = "complete" THEN Stages ELSE st.completed

\* The Checkpoint of stage s is stored, or a goroutine is about to store it.
OnItsWay(s) ==
    \/ checkpoints[s] # NoCheckpoint
    \/ \E d \in Drivers : \E cp \in pending[d] : cp.stage = s

\* A saved run never counts on a Checkpoint that does not come, however many
\* drivers work on it, unless one was lost.
SkippedAreReadable ==
    runState # NoRun /\ ~lost => \A s \in Skipped(runState) : OnItsWay(s)

\* No stage ever works on a missing input: what a Checkpoint was made from was
\* there, whatever was lost before.
InputsAreReal ==
    \A s \in Stages : checkpoints[s] # NoCheckpoint =>
        \A t \in Inputs(s) : checkpoints[s].from[t] # 0

\* The outputs of a run belong together: each was made from the ones stored
\* beside it.  Drivers that overlap, a lost Checkpoint, and a second Run that
\* was interrupted can mix the outputs of two calls.
OutputsBelongTogether ==
    ( /\ runState # NoRun /\ ~overlapped /\ ~lost
      /\ starts = 1 \/ faults = 0
      /\ \A d \in Drivers : ~Active(d) )
        => \A s \in Skipped(runState) : \A t \in Inputs(s) :
              checkpoints[s].from[t] = checkpoints[t].by

\* A stage is an expensive call.  As long as drivers do not overlap, it is run
\* again only for a further Run, for a fault, or because it returned an error
\* itself: a Resume after an error of another stage does not run it again.
PaidOnce ==
    ~overlapped => \A s \in Stages : paid[s] <= starts + faults + failed[s]

\* A case started once never forgets a completed stage, as long as drivers do
\* not overlap: a failure, a budget halt and a crash all keep what was done.
CompletedGrows ==
    [][ (runState # NoRun /\ runState' # NoRun /\ ~overlapped /\ starts = 1)
           => runState.completed \subseteq runState'.completed ]_vars

\* An interrupted run that is resumed comes to its end, unless a Checkpoint was
\* lost or the budget of some run of the case ran out.
ResumedRunEnds ==
    runState # NoRun ~>
        \/ runState = NoRun
        \/ runState.termination = "complete"
        \/ lost
        \/ expired # {}

=============================================================================
