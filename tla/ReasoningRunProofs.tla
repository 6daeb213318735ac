------------------------- MODULE ReasoningRunProofs -------------------------
(***************************************************************************)
(* Proofs about ReasoningRun, for any number of drivers, every cut of the  *)
(* pipeline and every bound on calls, errors, faults and deletions.        *)
(***************************************************************************)
EXTENDS ReasoningRun, TLAPS

-----------------------------------------------------------------------------
(* Data.                                                                   *)

\* The pipeline has a first stage, and 0 is none.
LEMMA StageFacts ==
    /\ 1 \in Stages /\ 0 \notin Stages
    /\ \A s \in Stages : s \in 1 .. 8
  BY StagesAssumption DEF Stages

\* A stage is built from outputs of earlier stages only.
LEMMA InputsAreEarlier ==
    ASSUME NEW s \in Stages, NEW t \in Inputs(s)
    PROVE  t \in Stages /\ t < s
<1>1. s \in 1 .. 8
  BY StageFacts
<1>2. t \in 1 .. 8 /\ t < s
  BY <1>1 DEF Inputs
<1> QED BY <1>2, StagesAssumption DEF Stages

\* A driver's first RunState is one.
LEMMA NewRunTyped ==
    ASSUME NEW n \in 0 .. MaxCalls
    PROVE  NewRun(n) \in RunState
  BY DEF NewRun, RunState, Termination

\* The changes drive makes to a RunState leave it one.
LEMMA StateTyped ==
    ASSUME NEW st \in RunState, NEW s \in Stages, NEW tm \in Termination
    PROVE  /\ [st EXCEPT !.termination = tm] \in RunState
           /\ [st EXCEPT !.termination = tm, !.failedStage = s] \in RunState
           /\ [st EXCEPT !.completed = @ \cup {s}] \in RunState
<1>1. ASSUME NEW x \in RunState
      PROVE  [x EXCEPT !.termination = tm] \in RunState
  BY DEF RunState
<1>2. ASSUME NEW x \in RunState
      PROVE  [x EXCEPT !.failedStage = s] \in RunState
  BY DEF RunState
<1>3. [st EXCEPT !.completed = @ \cup {s}] \in RunState
  BY DEF RunState
<1>4. [st EXCEPT !.termination = tm, !.failedStage = s] \in RunState
  BY <1>1, <1>2, Zenon
<1> QED BY <1>1, <1>3, <1>4

\* What a stage makes is a Checkpoint.
LEMMA OutputTyped ==
    ASSUME TypeOK, NEW d \in Drivers, NEW s \in Stages, call[d] \in Call
    PROVE  Output(d, s) \in Checkpoint
<1>1. memory[d] \in Memory
  BY DEF TypeOK
<1>2. [t \in Stages |-> IF t \in Inputs(s) THEN memory[d][t] ELSE 0] \in Memory
  BY <1>1, BoundsAssumption DEF Memory
<1> QED BY <1>2 DEF Output, Checkpoint

-----------------------------------------------------------------------------
(* Type correctness.  A driver at work has a call number.                  *)

Numbered(d) == Active(d) => call[d] \in Call

Typed == TypeOK /\ \A d \in Drivers : Numbered(d)

\* Nobody drives the case and nothing is stored: the types hold.
LEMMA TypeInit == Init => Typed
<1> SUFFICES ASSUME Init PROVE Typed
  OBVIOUS
<1>1. 0 \in 0 .. MaxCalls /\ 0 \in 0 .. MaxStarts /\ 0 \in 0 .. MaxErrors
      /\ 0 \in 0 .. MaxFaults /\ 0 \in 0 .. MaxDeletes
  BY BoundsAssumption
<1>2. NewRun(0) \in RunState /\ Nothing \in Memory
  BY <1>1, NewRunTyped DEF Nothing, Memory
<1>3. \A d \in Drivers : Numbered(d)
  BY DEF Init, Numbered, Active
<1> QED BY <1>1, <1>2, <1>3 DEF Init, TypeOK, Typed

\* The parts of TypeOK about the drivers, and about the rest.
DriversTyped ==
    /\ pc \in [Drivers -> {"idle", "load", "stage", "save", "wait"}]
    /\ state \in [Drivers -> RunState]
    /\ memory \in [Drivers -> Memory]
    /\ pending \in [Drivers -> SUBSET Checkpoint]
    /\ call \in [Drivers -> 0 .. MaxCalls]
    /\ \A d \in Drivers : Numbered(d)

RestTyped ==
    /\ runState \in RunState \cup {NoRun}
    /\ checkpoints \in [Stages -> Checkpoint \cup {NoCheckpoint}]
    /\ expired \subseteq Call
    /\ calls \in 0 .. MaxCalls /\ starts \in 0 .. MaxStarts
    /\ errors \in 0 .. MaxErrors /\ faults \in 0 .. MaxFaults
    /\ deletes \in 0 .. MaxDeletes
    /\ paid \in [Stages -> Nat] /\ failed \in [Stages -> Nat]
    /\ overlapped \in BOOLEAN /\ lost \in BOOLEAN

\* The two parts are the whole.
LEMMA TypeParts ==
    /\ Typed <=> DriversTyped /\ RestTyped
    /\ Typed' <=> DriversTyped' /\ RestTyped'
  BY DEF Typed, TypeOK, DriversTyped, RestTyped

\* A driver that starts keeps the types.
LEMMA DriveTyped ==
    ASSUME Typed, NEW d \in Drivers, NEW next \in {"load", "stage"},
           NEW st \in RunState, Drive(d, next, st), starts' \in 0 .. MaxStarts
    PROVE  Typed'
<1>1. calls + 1 \in Call /\ calls + 1 \in 0 .. MaxCalls
  BY BoundsAssumption DEF Drive, Typed, TypeOK, Call
<1>2. Nothing \in Memory
  BY BoundsAssumption DEF Nothing, Memory
<1>3. DriversTyped'
  <2>1. /\ pc' \in [Drivers -> {"idle", "load", "stage", "save", "wait"}]
        /\ state' \in [Drivers -> RunState]
        /\ memory' \in [Drivers -> Memory]
        /\ pending' \in [Drivers -> SUBSET Checkpoint]
        /\ call' \in [Drivers -> 0 .. MaxCalls]
    BY <1>1, <1>2 DEF Drive, Typed, TypeOK
  <2>2. ASSUME NEW e \in Drivers PROVE Numbered(e)'
    BY <1>1 DEF Drive, Typed, TypeOK, Numbered, Active
  <2> QED BY <2>1, <2>2 DEF DriversTyped
<1>4. RestTyped'
  <2>1. overlapped' \in BOOLEAN
    BY DEF Drive
  <2> QED BY <1>1, <2>1 DEF Drive, Typed, TypeOK, RestTyped, storeVars
<1> QED BY <1>3, <1>4, TypeParts

\* A driver that goes on with another RunState keeps its types.
LEMMA ContinueTyped ==
    ASSUME Typed, NEW d \in Drivers, pc[d] # "idle",
           NEW next \in {"stage", "save"}, NEW st \in RunState,
           Continue(d, next, st), UNCHANGED call,
           memory' \in [Drivers -> Memory],
           pending' \in [Drivers -> SUBSET Checkpoint]
    PROVE  DriversTyped'
<1>1. /\ pc' \in [Drivers -> {"idle", "load", "stage", "save", "wait"}]
      /\ state' \in [Drivers -> RunState]
      /\ call' \in [Drivers -> 0 .. MaxCalls]
  BY DEF Continue, Typed, TypeOK
<1>2. ASSUME NEW e \in Drivers PROVE Numbered(e)'
  BY DEF Continue, Typed, TypeOK, Numbered, Active
<1> QED BY <1>1, <1>2 DEF DriversTyped

\* A driver that stops keeps its types.
LEMMA StopTyped ==
    ASSUME Typed, NEW d \in Drivers,
           pc' = [pc EXCEPT ![d] = "idle"],
           state' = [state EXCEPT ![d] = NewRun(0)],
           memory' = [memory EXCEPT ![d] = Nothing],
           call' = [call EXCEPT ![d] = 0],
           pending' \in [Drivers -> SUBSET Checkpoint]
    PROVE  DriversTyped'
<1>1. 0 \in 0 .. MaxCalls
  BY BoundsAssumption
<1>2. NewRun(0) \in RunState /\ Nothing \in Memory
  BY <1>1, NewRunTyped DEF Nothing, Memory
<1>3. ASSUME NEW e \in Drivers PROVE Numbered(e)'
  BY DEF Typed, TypeOK, Numbered, Active
<1> QED BY <1>1, <1>2, <1>3 DEF DriversTyped, Typed, TypeOK

\* A completed stage whose Checkpoint is read, or a start of the loop.
LEMMA LoadTyped ==
    ASSUME Typed, NEW d \in Drivers, LoadCheckpoint(d)
    PROVE  Typed'
<1>1. pc[d] # "idle" /\ state[d] \in RunState
  BY DEF LoadCheckpoint, Typed, TypeOK
<1>2. DriversTyped'
  <2>1. CASE \E s \in Unread(d) : Earliest(s, Unread(d))
                /\ checkpoints[s] # NoCheckpoint
                /\ memory' = [memory EXCEPT ![d][s] = checkpoints[s].by]
                /\ UNCHANGED <<pc, state>>
    <3>1. PICK s \in Unread(d) : checkpoints[s] # NoCheckpoint
                /\ memory' = [memory EXCEPT ![d][s] = checkpoints[s].by]
                /\ UNCHANGED <<pc, state>>
      BY <2>1
    <3>2. s \in Stages
      BY <1>1, <3>1 DEF Unread, RunState
    <3>3. checkpoints[s] \in Checkpoint
      BY <3>1, <3>2 DEF Typed, TypeOK
    <3>4. checkpoints[s].by \in 0 .. MaxCalls
      BY <3>3, BoundsAssumption DEF Checkpoint, Call
    <3>5. memory' \in [Drivers -> Memory]
      BY <3>1, <3>2, <3>4 DEF Typed, TypeOK, Memory
    <3>6. pending' = pending /\ call' = call
      BY DEF LoadCheckpoint
    <3>7. \A e \in Drivers : Numbered(e)'
      BY <3>1, <3>6 DEF Typed, Numbered, Active
    <3> QED BY <3>1, <3>5, <3>6, <3>7 DEF DriversTyped, Typed, TypeOK
  <2>2. CASE FailRun(d, 1) /\ UNCHANGED memory
    <3>1. [state[d] EXCEPT !.termination = "failed", !.failedStage = 1]
             \in RunState
      BY <1>1, StateTyped, StageFacts DEF Termination
    <3> QED BY <1>1, <2>2, <3>1, ContinueTyped
            DEF FailRun, LoadCheckpoint, Typed, TypeOK
  <2>3. CASE Continue(d, "stage", state[d]) /\ UNCHANGED memory
    BY <1>1, <2>3, ContinueTyped DEF LoadCheckpoint, Typed, TypeOK
  <2> QED BY <2>1, <2>2, <2>3 DEF LoadCheckpoint
<1>3. RestTyped'
  BY DEF LoadCheckpoint, Typed, TypeOK, RestTyped, storeVars, boundVars,
         historyVars
<1> QED BY <1>2, <1>3, TypeParts

\* A stage that is run leaves an output and a Checkpoint to save.
LEMMA RunStageTyped ==
    ASSUME Typed, NEW d \in Drivers, NEW s \in Stages, RunStage(d, s)
    PROVE  Typed'
<1>1. pc[d] # "idle" /\ state[d] \in RunState
  BY DEF RunStage, Typed, TypeOK
<1>2. call[d] \in Call /\ call[d] \in 0 .. MaxCalls
  BY <1>1 DEF Typed, TypeOK, Numbered, Active
<1>3. memory' \in [Drivers -> Memory]
  BY <1>2 DEF RunStage, Typed, TypeOK, Memory
<1>4. pending' \in [Drivers -> SUBSET Checkpoint]
  <2>1. Output(d, s) \in Checkpoint
    BY <1>2, OutputTyped DEF Typed
  <2> QED BY <2>1 DEF RunStage, Typed, TypeOK
<1>5. [state[d] EXCEPT !.completed = @ \cup {s}] \in RunState
  <2>1. "running" \in Termination
    BY DEF Termination
  <2> QED BY <1>1, <2>1, StateTyped
<1>6. DriversTyped'
  BY <1>1, <1>3, <1>4, <1>5, ContinueTyped DEF RunStage
<1>7. RestTyped'
  <2>1. paid' \in [Stages -> Nat] /\ failed' \in [Stages -> Nat]
    BY DEF RunStage, Typed, TypeOK
  <2> QED BY <2>1 DEF RunStage, Typed, TypeOK, RestTyped, storeVars, boundVars
<1> QED BY <1>6, <1>7, TypeParts

\* A driver that fails, halts or completes has a RunState that says so.
LEMMA EndTyped ==
    ASSUME Typed, NEW d \in Drivers,
           \/ LoadFails(d)
           \/ \E s \in Stages : StageFails(d, s)
           \/ HaltOnBudget(d)
           \/ CompleteRun(d)
    PROVE  Typed'
<1>1. pc[d] # "idle" /\ state[d] \in RunState
  BY DEF LoadFails, StageFails, HaltOnBudget, CompleteRun, Typed, TypeOK
<1>2. ASSUME NEW s \in Stages, FailRun(d, s), UNCHANGED <<memory, pending, call>>
      PROVE  DriversTyped'
  <2>1. [state[d] EXCEPT !.termination = "failed", !.failedStage = s]
           \in RunState
    BY <1>1, StateTyped DEF Termination
  <2> QED BY <1>1, <1>2, <2>1, ContinueTyped DEF FailRun, Typed, TypeOK
<1>3. CASE LoadFails(d)
  <2>1. DriversTyped'
    BY <1>2, <1>3, StageFacts DEF LoadFails
  <2>2. RestTyped'
    BY <1>3, BoundsAssumption
       DEF LoadFails, Typed, TypeOK, RestTyped, storeVars, historyVars
  <2> QED BY <2>1, <2>2, TypeParts
<1>4. CASE \E s \in Stages : StageFails(d, s)
  <2>1. PICK s \in Stages : StageFails(d, s)
    BY <1>4
  <2>2. DriversTyped'
    BY <1>2, <2>1 DEF StageFails
  <2>3. paid' \in [Stages -> Nat] /\ failed' \in [Stages -> Nat]
    BY <2>1 DEF StageFails, Typed, TypeOK
  <2>4. RestTyped'
    BY <2>1, <2>3, BoundsAssumption
       DEF StageFails, Typed, TypeOK, RestTyped, storeVars
  <2> QED BY <2>2, <2>4, TypeParts
<1>5. ASSUME NEW tm \in Termination,
             Continue(d, "save", [state[d] EXCEPT !.termination = tm]),
             UNCHANGED <<storeVars, memory, pending, call, expired, boundVars,
                         historyVars>>
      PROVE  Typed'
  <2>1. [state[d] EXCEPT !.termination = tm] \in RunState
    BY <1>1, StateTyped, StageFacts
  <2>2. DriversTyped'
    BY <1>1, <1>5, <2>1, ContinueTyped DEF Typed, TypeOK
  <2>3. RestTyped'
    BY <1>5 DEF Typed, TypeOK, RestTyped, storeVars, boundVars, historyVars
  <2> QED BY <2>2, <2>3, TypeParts
<1>6. CASE HaltOnBudget(d)
  BY <1>5, <1>6 DEF HaltOnBudget, Termination
<1>7. CASE CompleteRun(d)
  BY <1>5, <1>7 DEF CompleteRun, Termination
<1> QED BY <1>3, <1>4, <1>6, <1>7

\* The RunState is saved or not, and the driver goes on.
LEMMA PersistTyped ==
    ASSUME Typed, NEW d \in Drivers,
           PersistRunState(d) \/ PersistRunStateFails(d)
    PROVE  Typed'
<1>1. DriversTyped'
  <2>1. pc' \in [Drivers -> {"idle", "load", "stage", "save", "wait"}]
    BY DEF PersistRunState, PersistRunStateFails, AfterSave, Typed, TypeOK
  <2>2. UNCHANGED <<state, memory, pending, call>>
    BY DEF PersistRunState, PersistRunStateFails
  <2>3. ASSUME NEW e \in Drivers PROVE Numbered(e)'
    BY <2>2 DEF PersistRunState, PersistRunStateFails, AfterSave, Typed, TypeOK,
                Numbered, Active
  <2> QED BY <2>1, <2>2, <2>3 DEF DriversTyped, Typed, TypeOK
<1>2. RestTyped'
  BY BoundsAssumption
     DEF PersistRunState, PersistRunStateFails, Typed, TypeOK, RestTyped,
         storeVars, boundVars, historyVars
<1> QED BY <1>1, <1>2, TypeParts

\* A goroutine saves its Checkpoint, or fails to.
LEMMA CheckpointTyped ==
    ASSUME Typed, NEW d \in Drivers, NEW cp \in pending[d],
           SaveCheckpoint(d, cp) \/ SaveCheckpointFails(d, cp)
    PROVE  Typed'
<1>1. cp \in Checkpoint /\ cp.stage \in Stages
  BY DEF Typed, TypeOK, Checkpoint
<1>2. UNCHANGED <<pc, state, memory, call>>
  BY DEF SaveCheckpoint, SaveCheckpointFails
<1>3. DriversTyped'
  <2>1. pending' \in [Drivers -> SUBSET Checkpoint]
    BY DEF SaveCheckpoint, SaveCheckpointFails, Typed, TypeOK
  <2>2. \A e \in Drivers : Numbered(e)'
    BY <1>2 DEF Typed, Numbered, Active
  <2> QED BY <1>2, <2>1, <2>2 DEF DriversTyped, Typed, TypeOK
<1>4. RestTyped'
  <2>1. CASE SaveCheckpoint(d, cp)
    <3>1. checkpoints' \in [Stages -> Checkpoint \cup {NoCheckpoint}]
      BY <1>1, <2>1 DEF SaveCheckpoint, Typed, TypeOK
    <3> QED BY <2>1, <3>1 DEF SaveCheckpoint, Typed, TypeOK, RestTyped,
                              boundVars, historyVars
  <2>2. CASE SaveCheckpointFails(d, cp)
    BY <2>2, BoundsAssumption
       DEF SaveCheckpointFails, Typed, TypeOK, RestTyped, storeVars
  <2> QED BY <2>1, <2>2
<1> QED BY <1>3, <1>4, TypeParts

\* drive returns, or its process dies.
LEMMA LeaveTyped ==
    ASSUME Typed, NEW d \in Drivers, Return(d) \/ Crash(d)
    PROVE  Typed'
<1>1. DriversTyped'
  <2>1. pending' \in [Drivers -> SUBSET Checkpoint]
    BY DEF Return, Crash, Typed, TypeOK
  <2> QED BY <2>1, StopTyped DEF Return, Crash
<1>2. RestTyped'
  <2>1. CASE Return(d)
    BY <2>1 DEF Return, Typed, TypeOK, RestTyped, storeVars, boundVars,
                historyVars
  <2>2. CASE Crash(d)
    <3>1. lost' \in BOOLEAN
      BY <2>2 DEF Crash
    <3> QED BY <2>2, <3>1, BoundsAssumption
            DEF Crash, Typed, TypeOK, RestTyped, storeVars
  <2> QED BY <2>1, <2>2
<1> QED BY <1>1, <1>2, TypeParts

\* The environment changes the store, the clock and nothing of the drivers.
LEMMA EnvironmentTyped ==
    ASSUME Typed, DeleteByCase \/ \E n \in Call : Expire(n)
    PROVE  Typed'
<1>1. UNCHANGED <<pc, state, memory, pending, call>>
  BY DEF DeleteByCase, Expire, driverVars
<1>2. DriversTyped'
  BY <1>1 DEF DriversTyped, Typed, TypeOK, Numbered, Active
<1>3. RestTyped'
  <2>1. CASE DeleteByCase
    <3>1. lost' \in BOOLEAN
      BY <2>1 DEF DeleteByCase
    <3> QED BY <2>1, <3>1, BoundsAssumption
            DEF DeleteByCase, Typed, TypeOK, RestTyped
  <2>2. CASE \E n \in Call : Expire(n)
    BY <2>2 DEF Expire, Typed, TypeOK, RestTyped, storeVars, boundVars,
                historyVars
  <2> QED BY <2>1, <2>2
<1> QED BY <1>2, <1>3, TypeParts

\* Every step keeps the types.
LEMMA TypeStep == Typed /\ [Next]_vars => Typed'
<1> SUFFICES ASSUME Typed, [Next]_vars PROVE Typed'
  OBVIOUS
<1>1. ASSUME NEW d \in Drivers, Run(d) PROVE Typed'
  <2>1. starts' \in 0 .. MaxStarts /\ calls + 1 \in 0 .. MaxCalls
    BY <1>1, BoundsAssumption DEF Run, Drive, Typed, TypeOK
  <2> QED BY <1>1, <2>1, NewRunTyped, DriveTyped DEF Run
<1>2. ASSUME NEW d \in Drivers, Resume(d) PROVE Typed'
  <2>1. starts' \in 0 .. MaxStarts /\ runState \in RunState
    BY <1>2 DEF Resume, Typed, TypeOK
  <2>2. [runState EXCEPT !.termination = "running"] \in RunState
    BY <2>1, StateTyped, StageFacts DEF Termination
  <2> QED BY <1>2, <2>1, <2>2, DriveTyped DEF Resume
<1>3. ASSUME NEW d \in Drivers, Progress(d) PROVE Typed'
  BY <1>3, LoadTyped, RunStageTyped, EndTyped, PersistTyped, CheckpointTyped,
     LeaveTyped DEF Progress
<1>4. ASSUME NEW d \in Drivers, Trouble(d) PROVE Typed'
  BY <1>4, EndTyped, PersistTyped, CheckpointTyped, LeaveTyped DEF Trouble
<1>5. CASE UNCHANGED vars
  <2>1. DriversTyped'
    BY <1>5 DEF vars, driverVars, DriversTyped, Typed, TypeOK, Numbered, Active
  <2>2. RestTyped'
    BY <1>5 DEF vars, storeVars, boundVars, historyVars, RestTyped, Typed, TypeOK
  <2> QED BY <2>1, <2>2, TypeParts
<1>6. CASE DeleteByCase \/ \E n \in Call : Expire(n)
  BY <1>6, EnvironmentTyped
<1> QED BY <1>1, <1>2, <1>3, <1>4, <1>5, <1>6 DEF Next, DriverStep

\* The variables of ReasoningRun have their types in every reachable state, and
\* a driver at work has the number of its call.
THEOREM TypeCorrect == Spec => []TypeOK
<1>1. Typed => TypeOK
  BY DEF Typed
<1> QED BY <1>1, TypeInit, TypeStep, PTL DEF Spec

-----------------------------------------------------------------------------
(* No stage works on a missing input.  When a stage is about to run, the    *)
(* driver holds the output of every completed one.                         *)

ReadBefore(d) ==
    pc[d] = "stage" \/ (pc[d] = "save" /\ state[d].termination = "running")
        => Unread(d) = {}

\* The inputs a Checkpoint was made from were outputs.
Grounded(cp) == \A t \in Inputs(cp.stage) : cp.from[t] # 0

StoredGrounded ==
    \A s \in Stages : checkpoints[s] # NoCheckpoint =>
        checkpoints[s].stage = s /\ Grounded(checkpoints[s])

PendingGrounded == \A d \in Drivers : \A cp \in pending[d] : Grounded(cp)

Fed ==
    /\ \A d \in Drivers : ReadBefore(d)
    /\ PendingGrounded
    /\ StoredGrounded

\* Nothing is stored and nobody is about to run a stage.
LEMMA FedInit == Init => Fed
  BY DEF Init, Fed, ReadBefore, PendingGrounded, StoredGrounded

\* A driver that another one's step leaves alone holds what it held.
LEMMA ReadBeforeKept ==
    ASSUME NEW e \in Drivers, ReadBefore(e),
           pc'[e] = pc[e], state'[e] = state[e], memory'[e] = memory[e]
    PROVE  ReadBefore(e)'
  BY DEF ReadBefore, Unread

\* A step that saves no Checkpoint and makes none disturbs only its driver.
LEMMA FedQuiet ==
    ASSUME Typed, Fed, NEW d \in Drivers, ReadBefore(d)',
           UNCHANGED <<checkpoints, pending>>,
           \A e \in Drivers \ {d} : /\ pc'[e] = pc[e] /\ state'[e] = state[e]
                                    /\ memory'[e] = memory[e]
    PROVE  Fed'
<1>1. ASSUME NEW e \in Drivers PROVE ReadBefore(e)'
  BY ReadBeforeKept DEF Fed
<1>2. PendingGrounded' /\ StoredGrounded'
  BY DEF Fed, PendingGrounded, StoredGrounded, Grounded
<1> QED BY <1>1, <1>2 DEF Fed

\* A run that fails keeps the stages it completed.
LEMMA FailRunFacts ==
    ASSUME Typed, NEW d \in Drivers, NEW s \in Stages, FailRun(d, s)
    PROVE  /\ pc'[d] = "save"
           /\ state'[d].termination = "failed"
           /\ state'[d].completed = state[d].completed
<1>1. /\ pc'[d] = "save"
      /\ state'[d] = [state[d] EXCEPT !.termination = "failed",
                                      !.failedStage = s]
  BY DEF FailRun, Continue, Typed, TypeOK
<1>2. state[d] \in RunState
  BY DEF Typed, TypeOK
<1>3. \E st \in RunState : st = [state[d] EXCEPT !.termination = "failed"]
  BY <1>2, StateTyped DEF Termination
<1>4. PICK st \in RunState : st = [state[d] EXCEPT !.termination = "failed"]
  BY <1>3
<1>5. st.termination = "failed" /\ st.completed = state[d].completed
  BY <1>2, <1>4 DEF RunState
<1>6. state'[d] = [st EXCEPT !.failedStage = s]
  BY <1>1, <1>4, Zenon
<1>7. /\ state'[d].termination = st.termination
      /\ state'[d].completed = st.completed
  BY <1>6 DEF RunState
<1> QED BY <1>1, <1>5, <1>7

\* A driver that starts, loads, fails, ends or returns keeps Fed.
LEMMA FedDriver ==
    ASSUME Typed, Fed, NEW d \in Drivers,
           \/ Run(d) \/ Resume(d) \/ LoadCheckpoint(d) \/ LoadFails(d)
           \/ \E s \in Stages : StageFails(d, s)
           \/ HaltOnBudget(d) \/ CompleteRun(d)
           \/ PersistRunState(d) \/ PersistRunStateFails(d) \/ Return(d)
    PROVE  Fed'
<1>1. UNCHANGED <<checkpoints, pending>>
  BY DEF Run, Resume, Drive, LoadCheckpoint, LoadFails, StageFails, HaltOnBudget,
         CompleteRun, PersistRunState, PersistRunStateFails, Return, storeVars
<1>2. ASSUME NEW e \in Drivers \ {d}
      PROVE  /\ pc'[e] = pc[e] /\ state'[e] = state[e]
             /\ memory'[e] = memory[e]
  BY DEF Run, Resume, Drive, LoadCheckpoint, LoadFails, StageFails, HaltOnBudget,
         CompleteRun, PersistRunState, PersistRunStateFails, Return, Continue,
         FailRun, AfterSave, Typed, TypeOK
<1>3. ReadBefore(d)'
  <2>1. CASE Run(d)
    BY <2>1 DEF Run, Drive, NewRun, ReadBefore, Unread, Typed, TypeOK
  <2>2. CASE Resume(d)
    BY <2>2 DEF Resume, Drive, ReadBefore, Typed, TypeOK
  <2>3. CASE LoadCheckpoint(d)
    <3>1. CASE UNCHANGED <<pc, state>>
      BY <2>3, <3>1 DEF LoadCheckpoint, ReadBefore
    <3>2. CASE FailRun(d, 1)
      BY <3>2, FailRunFacts, StageFacts DEF ReadBefore
    <3>3. CASE /\ Unread(d) = {} /\ UNCHANGED memory
               /\ Continue(d, "stage", state[d])
      BY <3>3 DEF Continue, ReadBefore, Unread, Typed, TypeOK
    <3> QED BY <2>3, <3>1, <3>2, <3>3 DEF LoadCheckpoint
  <2>4. CASE LoadFails(d) \/ \E s \in Stages : StageFails(d, s)
    BY <2>4, FailRunFacts, StageFacts DEF LoadFails, StageFails, ReadBefore
  <2>5. CASE HaltOnBudget(d) \/ CompleteRun(d)
    BY <2>5 DEF HaltOnBudget, CompleteRun, Continue, ReadBefore, Typed, TypeOK,
                RunState
  <2>6. CASE PersistRunState(d) \/ PersistRunStateFails(d)
    <3>1. state' = state /\ memory' = memory /\ pc[d] = "save"
      BY <2>6 DEF PersistRunState, PersistRunStateFails
    <3>2. state[d].termination = "running" \/ pc'[d] = "wait"
      BY <2>6 DEF PersistRunState, PersistRunStateFails, AfterSave, Typed, TypeOK
    <3> QED BY <3>1, <3>2 DEF Fed, ReadBefore, Unread
  <2>7. CASE Return(d)
    BY <2>7 DEF Return, ReadBefore, Typed, TypeOK
  <2> QED BY <2>1, <2>2, <2>3, <2>4, <2>5, <2>6, <2>7
<1> QED BY <1>1, <1>2, <1>3, FedQuiet

\* A stage finds its inputs: they are outputs of earlier stages, which are all
\* completed.
LEMMA FedRunStage ==
    ASSUME Typed, Fed, NEW d \in Drivers, NEW s \in Stages, RunStage(d, s)
    PROVE  Fed'
<1>1. /\ pc[d] = "stage" /\ state[d] \in RunState /\ memory[d] \in Memory
      /\ call[d] \in Call /\ call[d] # 0
  BY DEF RunStage, Typed, TypeOK, Numbered, Active, Call
<1>2. Unread(d) = {}
  BY <1>1 DEF Fed, ReadBefore
<1>3. ASSUME NEW t \in Inputs(s) PROVE t \in Stages /\ memory[d][t] # 0
  <2>1. t \in Stages /\ t < s /\ t \in Nat /\ s \in Nat
    BY InputsAreEarlier, StageFacts
  <2>2. t \in state[d].completed
    BY <2>1 DEF RunStage, IsNext, Earliest
  <2> QED BY <1>2, <2>1, <2>2 DEF Unread
<1>4. Grounded(Output(d, s))
  BY <1>3 DEF Grounded, Output
<1>5. PendingGrounded'
  BY <1>4 DEF RunStage, Fed, PendingGrounded, Grounded, Typed, TypeOK
<1>6. StoredGrounded'
  BY DEF RunStage, storeVars, Fed, StoredGrounded, Grounded
<1>7. ReadBefore(d)'
  <2>1. state'[d] = [state[d] EXCEPT !.completed = @ \cup {s}]
    BY DEF RunStage, Continue, Typed, TypeOK
  <2>2. state'[d].completed = state[d].completed \cup {s}
    BY <1>1, <2>1 DEF RunState
  <2>3. memory'[d] = [memory[d] EXCEPT ![s] = call[d]]
    BY DEF RunStage, Typed, TypeOK
  <2>4. state[d].completed \subseteq Stages
    BY <1>1 DEF RunState
  <2>5. \A t \in state'[d].completed : memory'[d][t] # 0
    BY <1>1, <1>2, <2>2, <2>3, <2>4 DEF Unread, Memory
  <2> QED BY <2>5 DEF ReadBefore, Unread
<1>8. ASSUME NEW e \in Drivers \ {d} PROVE ReadBefore(e)'
  <2>1. pc'[e] = pc[e] /\ state'[e] = state[e] /\ memory'[e] = memory[e]
    BY DEF RunStage, Continue, Typed, TypeOK
  <2> QED BY <2>1, ReadBeforeKept DEF Fed
<1> QED BY <1>5, <1>6, <1>7, <1>8 DEF Fed

\* What a goroutine saves was grounded before.
LEMMA FedCheckpoint ==
    ASSUME Typed, Fed, NEW d \in Drivers, NEW cp \in pending[d],
           SaveCheckpoint(d, cp) \/ SaveCheckpointFails(d, cp)
    PROVE  Fed'
<1>1. cp \in Checkpoint /\ cp.stage \in Stages /\ Grounded(cp)
  BY DEF Typed, TypeOK, Checkpoint, Fed, PendingGrounded
<1>2. \A e \in Drivers : ReadBefore(e)'
  BY DEF SaveCheckpoint, SaveCheckpointFails, Fed, ReadBefore, Unread
<1>3. PendingGrounded'
  <2>1. \A e \in Drivers : pending'[e] \subseteq pending[e]
    BY DEF SaveCheckpoint, SaveCheckpointFails, Typed, TypeOK
  <2> QED BY <2>1 DEF Fed, PendingGrounded, Grounded
<1>4. StoredGrounded'
  <2>1. CASE SaveCheckpoint(d, cp)
    <3>1. ASSUME NEW s \in Stages, checkpoints'[s] # NoCheckpoint
          PROVE  checkpoints'[s].stage = s /\ Grounded(checkpoints'[s])
      <4>1. CASE s = cp.stage
        <5>1. checkpoints'[s] = cp
          BY <2>1, <4>1 DEF SaveCheckpoint, Typed, TypeOK
        <5> QED BY <1>1, <4>1, <5>1
      <4>2. CASE s # cp.stage
        <5>1. checkpoints'[s] = checkpoints[s]
          BY <2>1, <4>2 DEF SaveCheckpoint, Typed, TypeOK
        <5> QED BY <3>1, <5>1 DEF Fed, StoredGrounded
      <4> QED BY <4>1, <4>2
    <3> QED BY <3>1 DEF StoredGrounded, Grounded
  <2>2. CASE SaveCheckpointFails(d, cp)
    BY <2>2 DEF SaveCheckpointFails, storeVars, Fed, StoredGrounded, Grounded
  <2> QED BY <2>1, <2>2
<1> QED BY <1>2, <1>3, <1>4 DEF Fed

\* A death, a deletion and the clock take away, and add nothing.
LEMMA FedTakesAway ==
    ASSUME Typed, Fed,
           \/ \E d \in Drivers : Crash(d)
           \/ DeleteByCase
           \/ \E n \in Call : Expire(n)
           \/ UNCHANGED vars
    PROVE  Fed'
<1>1. PendingGrounded'
  <2>1. \A e \in Drivers : pending'[e] \subseteq pending[e]
    BY DEF Crash, DeleteByCase, Expire, vars, driverVars, Typed, TypeOK
  <2> QED BY <2>1 DEF Fed, PendingGrounded, Grounded
<1>2. StoredGrounded'
  BY DEF Crash, DeleteByCase, Expire, vars, storeVars, Fed, StoredGrounded,
         Grounded
<1>3. ASSUME NEW e \in Drivers PROVE ReadBefore(e)'
  <2>1. CASE pc'[e] = pc[e] /\ state'[e] = state[e] /\ memory'[e] = memory[e]
    BY <2>1, ReadBeforeKept DEF Fed
  <2>2. CASE pc'[e] = "idle"
    BY <2>2 DEF ReadBefore
  <2> QED BY <2>1, <2>2
          DEF Crash, DeleteByCase, Expire, vars, driverVars, Typed, TypeOK
<1> QED BY <1>1, <1>2, <1>3 DEF Fed

\* Every step keeps Fed.
LEMMA FedStep == Typed /\ Fed /\ [Next]_vars => Fed'
  BY FedDriver, FedRunStage, FedCheckpoint, FedTakesAway
     DEF Next, DriverStep, Progress, Trouble

\* Whatever is lost and whoever overlaps, no saved output was made from a
\* missing one: loadCompletedStageOutputs fails sooner.
THEOREM InputsAreRealHolds == Spec => []InputsAreReal
<1>1. Fed => InputsAreReal
  BY DEF Fed, StoredGrounded, Grounded, InputsAreReal
<1> QED BY <1>1, TypeInit, TypeStep, FedInit, FedStep, PTL DEF Spec

-----------------------------------------------------------------------------
(* A saved run counts only on Checkpoints that come.  What a driver counts  *)
(* as completed was saved, or is in the hands of a goroutine.              *)

IdleHoldsNothing ==
    \A d \in Drivers : ~Active(d) => state[d].completed = {} /\ pending[d] = {}

Whole(st) == st.termination = "complete" => st.completed = Stages

CompleteIsWhole ==
    /\ \A d \in Drivers : Whole(state[d])
    /\ runState # NoRun => Whole(runState)

Covered(st) == \A s \in st.completed : OnItsWay(s)

AllCovered ==
    ~lost => /\ \A d \in Drivers : Covered(state[d])
             /\ runState # NoRun => Covered(runState)

Counted == IdleHoldsNothing /\ CompleteIsWhole /\ AllCovered

\* Nobody has completed anything.
LEMMA CountedInit == Init => Counted
  BY DEF Init, NewRun, Counted, IdleHoldsNothing, CompleteIsWhole, Whole,
         AllCovered, Covered

\* What a step makes of a driver's RunState.
StateAfter(e) ==
    \/ state'[e] = state[e]
    \/ state'[e].completed = {} /\ state'[e].termination = "running"
    \/ /\ runState # NoRun /\ state'[e].completed = runState.completed
       /\ state'[e].termination = "running"
    \/ /\ state'[e].completed = state[e].completed
       /\ state'[e].termination # "complete"
    \/ \E s \in Stages : /\ IsNext(e, s)
                         /\ Output(e, s) \in pending'[e]
                         /\ state'[e].completed = state[e].completed \cup {s}
                         /\ state'[e].termination = state[e].termination
    \/ state[e].completed = Stages /\ state'[e].completed = Stages

\* A stage that runs is recorded, and its Checkpoint is handed to a goroutine.
LEMMA RunStageFacts ==
    ASSUME Typed, NEW d \in Drivers, NEW s \in Stages, RunStage(d, s)
    PROVE  /\ state'[d].completed = state[d].completed \cup {s}
           /\ state'[d].termination = state[d].termination
           /\ pending'[d] = pending[d] \cup {Output(d, s)}
           /\ IsNext(d, s)
<1>1. /\ state'[d] = [state[d] EXCEPT !.completed = @ \cup {s}]
      /\ pending'[d] = pending[d] \cup {Output(d, s)}
  BY DEF RunStage, Continue, Typed, TypeOK
<1>2. state[d] \in RunState
  BY DEF Typed, TypeOK
<1>3. IsNext(d, s)
  BY DEF RunStage
<1> QED BY <1>1, <1>2, <1>3 DEF RunState

\* Every step changes a RunState in one of these ways.
LEMMA StateChanges ==
    ASSUME Typed, [Next]_vars, NEW e \in Drivers
    PROVE  StateAfter(e)
<1> USE DEF StateAfter
<1>1. state[e] \in RunState
  BY DEF Typed, TypeOK
<1>2. ASSUME NEW d \in Drivers, Run(d) PROVE StateAfter(e)
  BY <1>2 DEF Run, Drive, NewRun, Typed, TypeOK
<1>3. ASSUME NEW d \in Drivers, Resume(d) PROVE StateAfter(e)
  <2>1. CASE e = d
    <3>1. /\ runState # NoRun /\ runState \in RunState
          /\ state'[e] = [runState EXCEPT !.termination = "running"]
      BY <1>3, <2>1 DEF Resume, Drive, Typed, TypeOK
    <3> QED BY <3>1 DEF RunState
  <2>2. CASE e # d
    BY <1>3, <2>2 DEF Resume, Drive, Typed, TypeOK
  <2> QED BY <2>1, <2>2
<1>4. ASSUME NEW d \in Drivers, NEW s \in Stages, FailRun(d, s)
      PROVE  StateAfter(e)
  <2>1. CASE e = d
    BY <1>4, <2>1, FailRunFacts
  <2>2. CASE e # d
    BY <1>4, <2>2 DEF FailRun, Continue, Typed, TypeOK
  <2> QED BY <2>1, <2>2
<1>5. ASSUME NEW d \in Drivers, LoadCheckpoint(d) PROVE StateAfter(e)
  BY <1>4, <1>5, StageFacts DEF LoadCheckpoint, Continue, Typed, TypeOK
<1>6. ASSUME NEW d \in Drivers,
             LoadFails(d) \/ \E s \in Stages : StageFails(d, s)
      PROVE  StateAfter(e)
  BY <1>4, <1>6, StageFacts DEF LoadFails, StageFails
<1>7. ASSUME NEW d \in Drivers, NEW s \in Stages, RunStage(d, s)
      PROVE  StateAfter(e)
  <2>1. CASE e = d
    BY <1>7, <2>1, RunStageFacts
  <2>2. CASE e # d
    BY <1>7, <2>2 DEF RunStage, Continue, Typed, TypeOK
  <2> QED BY <2>1, <2>2
<1>8. ASSUME NEW d \in Drivers, HaltOnBudget(d) \/ CompleteRun(d)
      PROVE  StateAfter(e)
  <2>1. CASE e = d /\ HaltOnBudget(d)
    <3>1. state'[e] = [state[e] EXCEPT !.termination = "budget_exhausted"]
      BY <2>1 DEF HaltOnBudget, Continue, Typed, TypeOK
    <3> QED BY <1>1, <3>1 DEF RunState
  <2>2. CASE e = d /\ CompleteRun(d)
    <3>1. /\ state[e].completed = Stages
          /\ state'[e] = [state[e] EXCEPT !.termination = "complete"]
      BY <2>2 DEF CompleteRun, Continue, Typed, TypeOK
    <3> QED BY <1>1, <3>1 DEF RunState
  <2>3. CASE e # d
    BY <1>8, <2>3 DEF HaltOnBudget, CompleteRun, Continue, Typed, TypeOK
  <2> QED BY <1>8, <2>1, <2>2, <2>3
<1>9. ASSUME NEW d \in Drivers,
             \/ PersistRunState(d) \/ PersistRunStateFails(d)
             \/ \E cp \in pending[d] : \/ SaveCheckpoint(d, cp)
                                       \/ SaveCheckpointFails(d, cp)
      PROVE  StateAfter(e)
  BY <1>9 DEF PersistRunState, PersistRunStateFails, SaveCheckpoint,
              SaveCheckpointFails
<1>10. ASSUME NEW d \in Drivers, Return(d) \/ Crash(d) PROVE StateAfter(e)
  BY <1>10 DEF Return, Crash, NewRun, Typed, TypeOK
<1>11. CASE DeleteByCase \/ (\E n \in Call : Expire(n)) \/ UNCHANGED vars
  BY <1>11 DEF DeleteByCase, Expire, vars, driverVars
<1> QED BY <1>2, <1>3, <1>5, <1>6, <1>7, <1>8, <1>9, <1>10, <1>11
        DEF Next, DriverStep, Progress, Trouble

\* The store holds what it held, what a driver saved, or nothing.
LEMMA RunStateChanges ==
    ASSUME [Next]_vars
    PROVE  \/ runState' = runState
           \/ runState' = NoRun
           \/ \E d \in Drivers : Active(d) /\ runState' = state[d]
  BY DEF Active, Next, DriverStep, Progress, Trouble, Run, Resume, Drive,
         LoadCheckpoint, LoadFails, RunStage, StageFails, HaltOnBudget,
         CompleteRun, PersistRunState, PersistRunStateFails, SaveCheckpoint,
         SaveCheckpointFails, Return, Crash, DeleteByCase, Expire, vars, storeVars

\* A driver that is idle after a step holds nothing.
LEMMA IdleStep == Typed /\ IdleHoldsNothing /\ [Next]_vars => IdleHoldsNothing'
<1> SUFFICES ASSUME Typed, IdleHoldsNothing, [Next]_vars,
                    NEW e \in Drivers, pc'[e] = "idle"
             PROVE  state'[e].completed = {} /\ pending'[e] = {}
  BY DEF IdleHoldsNothing, Active
<1>1. CASE Return(e) \/ Crash(e)
  BY <1>1 DEF Return, Crash, NewRun, Typed, TypeOK
<1>2. CASE ~Return(e) /\ ~Crash(e)
  <2> DEFINE Left == /\ pc[e] = "idle" /\ state'[e] = state[e]
                     /\ pending'[e] \subseteq pending[e]
  <2>1. ASSUME NEW d \in Drivers, Run(d) \/ Resume(d) PROVE Left
    BY <2>1 DEF Run, Resume, Drive, Typed, TypeOK
  <2>2. ASSUME NEW d \in Drivers,
               \/ LoadCheckpoint(d) \/ LoadFails(d)
               \/ \E s \in Stages : RunStage(d, s) \/ StageFails(d, s)
               \/ HaltOnBudget(d) \/ CompleteRun(d)
        PROVE  Left
    <3>1. \/ UNCHANGED <<pc, state>> /\ pending' = pending
          \/ /\ pending' = pending \/ \E n : pending' = [pending EXCEPT ![d] = n]
             /\ \E next, st : next # "idle" /\ Continue(d, next, st)
      <4>1. CASE LoadCheckpoint(d)
        BY <4>1 DEF LoadCheckpoint, FailRun
      <4>2. CASE LoadFails(d)
        BY <4>2 DEF LoadFails, FailRun
      <4>3. ASSUME NEW s \in Stages, RunStage(d, s)
            PROVE  /\ \E n : pending' = [pending EXCEPT ![d] = n]
                   /\ \E st : Continue(d, "save", st)
        BY <4>3 DEF RunStage
      <4>4. ASSUME NEW s \in Stages, StageFails(d, s)
            PROVE  pending' = pending /\ \E st : Continue(d, "save", st)
        BY <4>4 DEF StageFails, FailRun
      <4>5. CASE HaltOnBudget(d) \/ CompleteRun(d)
        BY <4>5 DEF HaltOnBudget, CompleteRun
      <4> QED BY <2>2, <4>1, <4>2, <4>3, <4>4, <4>5
    <3>2. ASSUME NEW next, NEW st, next # "idle", Continue(d, next, st)
          PROVE  e # d /\ pc[e] = "idle" /\ state'[e] = state[e]
      BY <3>2 DEF Continue, Typed, TypeOK
    <3>3. ASSUME NEW n, pending' = [pending EXCEPT ![d] = n], e # d
          PROVE  pending'[e] = pending[e]
      BY <3>3 DEF Typed, TypeOK
    <3> QED BY <3>1, <3>2, <3>3
  <2>3. ASSUME NEW d \in Drivers, PersistRunState(d) \/ PersistRunStateFails(d)
        PROVE  Left
    BY <2>3 DEF PersistRunState, PersistRunStateFails, AfterSave, Typed, TypeOK
  <2>4. ASSUME NEW d \in Drivers, NEW cp \in pending[d],
               SaveCheckpoint(d, cp) \/ SaveCheckpointFails(d, cp)
        PROVE  Left
    BY <2>4 DEF SaveCheckpoint, SaveCheckpointFails, Typed, TypeOK
  <2>5. ASSUME NEW d \in Drivers, Return(d) \/ Crash(d) PROVE Left
    BY <1>2, <2>5 DEF Return, Crash, Typed, TypeOK
  <2>6. ASSUME DeleteByCase \/ (\E n \in Call : Expire(n)) \/ UNCHANGED vars
        PROVE  Left
    <3>1. UNCHANGED <<pc, state, pending>>
      BY <2>6 DEF DeleteByCase, Expire, vars, driverVars
    <3> QED BY <3>1
  <2>7. Left
    <3> HIDE DEF Left
    <3> QED BY <2>1, <2>2, <2>3, <2>4, <2>5, <2>6
            DEF Next, DriverStep, Progress, Trouble
  <2> QED BY <2>7 DEF IdleHoldsNothing, Active
<1> QED BY <1>1, <1>2

\* A run is called complete only when every stage is.
LEMMA WholeStep ==
    Typed /\ CompleteIsWhole /\ [Next]_vars => CompleteIsWhole'
<1> SUFFICES ASSUME Typed, CompleteIsWhole, [Next]_vars PROVE CompleteIsWhole'
  OBVIOUS
<1>1. ASSUME NEW e \in Drivers PROVE Whole(state'[e])
  <2>1. state[e].completed \subseteq Stages /\ Whole(state[e])
    BY DEF Typed, TypeOK, RunState, CompleteIsWhole
  <2> QED BY <2>1, StateChanges DEF StateAfter, Whole
<1>2. runState' # NoRun => Whole(runState')
  BY RunStateChanges DEF CompleteIsWhole
<1> QED BY <1>1, <1>2 DEF CompleteIsWhole, Whole

\* Unless one is lost, a Checkpoint stays on its way.
LEMMA WayKept ==
    ASSUME Typed, [Next]_vars, ~lost', ~DeleteByCase
    PROVE  ~lost /\ \A s \in Stages : OnItsWay(s) => OnItsWay(s)'
<1> DEFINE Kept == /\ ~lost /\ checkpoints' = checkpoints
                   /\ \A e \in Drivers : pending[e] \subseteq pending'[e]
<1>1. Kept => \A s \in Stages : OnItsWay(s) => OnItsWay(s)'
  BY DEF OnItsWay
<1>2. ASSUME NEW d \in Drivers, Run(d) \/ Resume(d) PROVE Kept
  BY <1>2 DEF Run, Resume, Drive, storeVars
<1>3. ASSUME NEW d \in Drivers, NEW s \in Stages,
             \/ LoadCheckpoint(d) \/ LoadFails(d) \/ RunStage(d, s)
             \/ StageFails(d, s) \/ HaltOnBudget(d) \/ CompleteRun(d)
      PROVE  Kept
  BY <1>3 DEF LoadCheckpoint, LoadFails, RunStage, StageFails, HaltOnBudget,
              CompleteRun, storeVars, historyVars, Typed, TypeOK
<1>4. ASSUME NEW d \in Drivers,
             PersistRunState(d) \/ PersistRunStateFails(d) \/ Return(d)
      PROVE  Kept
  BY <1>4 DEF PersistRunState, PersistRunStateFails, Return, storeVars,
              historyVars
<1>5. ASSUME NEW d \in Drivers, Crash(d) PROVE Kept
  <2>1. lost' = (lost \/ pending[d] # {})
    BY <1>5 DEF Crash
  <2>2. ~lost /\ pending[d] = {}
    BY <2>1
  <2>3. pending' = [pending EXCEPT ![d] = {}] /\ checkpoints' = checkpoints
    BY <1>5 DEF Crash, storeVars
  <2>4. \A e \in Drivers : pending[e] \subseteq pending'[e]
    BY <2>2, <2>3 DEF Typed, TypeOK
  <2> QED BY <2>1, <2>2, <2>3, <2>4
<1>6. ASSUME NEW d \in Drivers, NEW cp \in pending[d],
             SaveCheckpoint(d, cp) \/ SaveCheckpointFails(d, cp)
      PROVE  ~lost /\ \A s \in Stages : OnItsWay(s) => OnItsWay(s)'
  <2>1. SaveCheckpoint(d, cp) /\ lost' = lost
    BY <1>6 DEF SaveCheckpoint, SaveCheckpointFails, historyVars
  <2>2. cp \in Checkpoint /\ cp.stage \in Stages /\ cp # NoCheckpoint
    BY NoCheckpointAssumption DEF Typed, TypeOK, Checkpoint
  <2>3. /\ \A s \in Stages : checkpoints'[s] =
              IF s = cp.stage THEN cp ELSE checkpoints[s]
        /\ \A e \in Drivers : \A c \in pending[e] : c # cp => c \in pending'[e]
    BY <2>1 DEF SaveCheckpoint, Typed, TypeOK
  <2>4. ASSUME NEW s \in Stages, OnItsWay(s) PROVE OnItsWay(s)'
    <3>1. CASE s = cp.stage
      BY <2>2, <2>3, <3>1 DEF OnItsWay
    <3>2. CASE s # cp.stage
      BY <2>3, <2>4, <3>2 DEF OnItsWay
    <3> QED BY <3>1, <3>2
  <2> QED BY <2>1, <2>4
<1>7. CASE (\E n \in Call : Expire(n)) \/ UNCHANGED vars
  <2>1. Kept
    BY <1>7 DEF Expire, vars, storeVars, driverVars, historyVars
  <2> QED BY <1>1, <2>1
<1> QED BY <1>1, <1>2, <1>3, <1>4, <1>5, <1>6, <1>7, StageFacts
        DEF Next, DriverStep, Progress, Trouble

\* What a run counts on stays on its way.
LEMMA CoveredStep ==
    Typed /\ IdleHoldsNothing /\ AllCovered /\ [Next]_vars => AllCovered'
<1> SUFFICES ASSUME Typed, IdleHoldsNothing, AllCovered, [Next]_vars, ~lost'
             PROVE  /\ \A e \in Drivers : Covered(state[e])'
                    /\ runState' # NoRun => Covered(runState)'
  BY DEF AllCovered
<1>1. CASE DeleteByCase
  <2>1. lost' = (lost \/ \E d \in Drivers : Active(d))
    BY <1>1 DEF DeleteByCase
  <2>2. \A e \in Drivers : ~Active(e)
    BY <2>1
  <2>3. state' = state /\ runState' = NoRun
    BY <1>1 DEF DeleteByCase, driverVars
  <2> QED BY <2>2, <2>3 DEF IdleHoldsNothing, Covered
<1>2. CASE ~DeleteByCase
  <2>1. ~lost /\ \A s \in Stages : OnItsWay(s) => OnItsWay(s)'
    BY <1>2, WayKept
  <2>2. /\ \A e \in Drivers : \A s \in state[e].completed :
              s \in Stages /\ OnItsWay(s)
        /\ runState # NoRun => \A s \in runState.completed :
              s \in Stages /\ OnItsWay(s)
    BY <2>1 DEF AllCovered, Covered, Typed, TypeOK, RunState
  <2>3. ASSUME NEW e \in Drivers, NEW s \in state'[e].completed
        PROVE  OnItsWay(s)'
    <3>1. ASSUME NEW u \in Stages, Output(e, u) \in pending'[e]
          PROVE  OnItsWay(u)'
      BY <3>1 DEF OnItsWay, Output
    <3> QED BY <2>1, <2>2, <2>3, <3>1, StateChanges DEF StateAfter
  <2>4. runState' # NoRun => \A s \in runState'.completed : OnItsWay(s)'
    BY <2>1, <2>2, RunStateChanges
  <2> QED BY <2>3, <2>4 DEF Covered
<1> QED BY <1>1, <1>2

\* Every step keeps Counted.
LEMMA CountedStep == Typed /\ Counted /\ [Next]_vars => Counted'
  BY IdleStep, WholeStep, CoveredStep DEF Counted

\* However many drivers work, fail and restart: unless a Checkpoint was lost,
\* what Resume may skip is stored or about to be.
THEOREM SkippedAreReadableHolds == Spec => []SkippedAreReadable
<1>1. Counted => SkippedAreReadable
  BY DEF Counted, CompleteIsWhole, Whole, AllCovered, Covered, Skipped,
         SkippedAreReadable
<1> QED BY <1>1, TypeInit, TypeStep, CountedInit, CountedStep, PTL DEF Spec

-----------------------------------------------------------------------------
(* What a stage costs, and what a case remembers, as long as drivers do not *)
(* overlap: then at most one is at work.                                   *)

Alone == ~overlapped => \A d, e \in Drivers : Active(d) /\ Active(e) => d = e

Called == \E d \in Drivers : Run(d) \/ Resume(d)

\* But for the calls, no step counts one.
LEMMA OnlyCallsCount ==
    ASSUME [Next]_vars, ~Called
    PROVE  overlapped' = overlapped /\ starts' = starts
  BY DEF Called, Next, DriverStep, Progress, Trouble, LoadCheckpoint, LoadFails,
         RunStage, StageFails, HaltOnBudget, CompleteRun, PersistRunState,
         PersistRunStateFails, SaveCheckpoint, SaveCheckpointFails, Return,
         Crash, DeleteByCase, Expire, vars, boundVars, historyVars

\* But for the calls, no step sets a driver to work, and only a stage that runs
\* changes what it completed.
LEMMA OnlyStagesAdd ==
    ASSUME Typed, [Next]_vars, ~Called, NEW e \in Drivers, Active(e)'
    PROVE  /\ Active(e)
           /\ \/ state'[e].completed = state[e].completed
              \/ \E s \in Stages : RunStage(e, s)
<1> DEFINE Goal == /\ Active(e)
                   /\ \/ state'[e].completed = state[e].completed
                      \/ \E s \in Stages : RunStage(e, s)
<1>1. pc'[e] # "idle" /\ (pc[e] # "idle" => Active(e))
  BY DEF Active
<1>2. ASSUME NEW d \in Drivers, NEW s \in Stages, FailRun(d, s), pc[d] # "idle"
      PROVE  Goal
  <2>1. CASE e = d
    BY <1>1, <1>2, <2>1, FailRunFacts
  <2>2. CASE e # d
    BY <1>1, <1>2, <2>2 DEF FailRun, Continue, Typed, TypeOK
  <2> QED BY <2>1, <2>2
<1>3. ASSUME NEW d \in Drivers, LoadCheckpoint(d) PROVE Goal
  <2>1. pc[d] # "idle"
    BY <1>3 DEF LoadCheckpoint
  <2>2. CASE FailRun(d, 1)
    BY <1>2, <2>1, <2>2, StageFacts
  <2>3. CASE UNCHANGED <<pc, state>>
    BY <1>1, <2>3
  <2>4. CASE Continue(d, "stage", state[d])
    BY <1>1, <2>1, <2>4 DEF Continue, Typed, TypeOK
  <2> QED BY <1>3, <2>2, <2>3, <2>4 DEF LoadCheckpoint
<1>4. ASSUME NEW d \in Drivers,
             LoadFails(d) \/ \E s \in Stages : StageFails(d, s)
      PROVE  Goal
  BY <1>2, <1>4, StageFacts DEF LoadFails, StageFails
<1>5. ASSUME NEW d \in Drivers, NEW s \in Stages, RunStage(d, s) PROVE Goal
  <2>1. CASE e = d
    <3>1. pc[d] # "idle"
      BY <1>5 DEF RunStage
    <3> QED BY <1>1, <1>5, <2>1, <3>1, RunStageFacts
  <2>2. CASE e # d
    BY <1>1, <1>5, <2>2 DEF RunStage, Continue, Typed, TypeOK
  <2> QED BY <2>1, <2>2
<1>6. ASSUME NEW d \in Drivers, HaltOnBudget(d) \/ CompleteRun(d) PROVE Goal
  <2>1. pc[d] # "idle"
    BY <1>6 DEF HaltOnBudget, CompleteRun
  <2>2. PICK tm \in Termination :
           Continue(d, "save", [state[d] EXCEPT !.termination = tm])
    BY <1>6 DEF HaltOnBudget, CompleteRun, Termination
  <2>3. state[d] \in RunState
    BY DEF Typed, TypeOK
  <2>4. [state[d] EXCEPT !.termination = tm].completed = state[d].completed
    BY <2>3 DEF RunState
  <2> QED BY <1>1, <2>1, <2>2, <2>4 DEF Continue, Typed, TypeOK
<1>7. ASSUME NEW d \in Drivers, PersistRunState(d) \/ PersistRunStateFails(d)
      PROVE  Goal
  <2>1. pc[d] # "idle" /\ UNCHANGED state /\ AfterSave(d)
    BY <1>7 DEF PersistRunState, PersistRunStateFails
  <2> QED BY <1>1, <2>1 DEF AfterSave, Typed, TypeOK
<1>8. ASSUME NEW d \in Drivers, NEW cp \in pending[d],
             SaveCheckpoint(d, cp) \/ SaveCheckpointFails(d, cp)
      PROVE  Goal
  BY <1>1, <1>8 DEF SaveCheckpoint, SaveCheckpointFails
<1>9. ASSUME NEW d \in Drivers, Return(d) \/ Crash(d) PROVE Goal
  BY <1>1, <1>9 DEF Return, Crash, Typed, TypeOK
<1>10. ASSUME DeleteByCase \/ (\E n \in Call : Expire(n)) \/ UNCHANGED vars
       PROVE  Goal
  <2>1. UNCHANGED <<pc, state>>
    BY <1>10 DEF DeleteByCase, Expire, vars, driverVars
  <2> QED BY <1>1, <2>1
<1>11. Goal
  <2> HIDE DEF Goal
  <2> QED BY <1>3, <1>4, <1>5, <1>6, <1>7, <1>8, <1>9, <1>10
          DEF Called, Next, DriverStep, Progress, Trouble
<1> QED BY <1>11

\* But for the calls, no step sets a driver to work or takes a stage from it.
LEMMA OnlyCallsStart ==
    ASSUME Typed, [Next]_vars, ~Called, NEW e \in Drivers, Active(e)'
    PROVE  Active(e) /\ state[e].completed \subseteq state'[e].completed
  BY OnlyStagesAdd, RunStageFacts

\* Without overlap, a call finds nobody at work.
LEMMA CallFacts ==
    ASSUME Typed, NEW d \in Drivers, Run(d) \/ Resume(d), ~overlapped'
    PROVE  /\ ~overlapped /\ \A e \in Drivers : ~Active(e)
           /\ \A e \in Drivers : Active(e)' => e = d
<1>1. /\ overlapped' = (overlapped \/ \E o \in Drivers : Active(o))
      /\ \A e \in Drivers : e # d => pc'[e] = pc[e]
  BY DEF Run, Resume, Drive, Typed, TypeOK
<1>2. ~overlapped /\ \A e \in Drivers : ~Active(e)
  BY <1>1
<1> QED BY <1>1, <1>2 DEF Active

\* Nobody is at work.
LEMMA AloneInit == Init => Alone
  BY DEF Init, Alone, Active

\* Without overlap, at most one driver is at work.
LEMMA AloneStep == Typed /\ Alone /\ [Next]_vars => Alone'
<1> SUFFICES ASSUME Typed, Alone, [Next]_vars, ~overlapped',
                    NEW d \in Drivers, NEW e \in Drivers,
                    Active(d)', Active(e)'
             PROVE  d = e
  BY DEF Alone
<1>1. CASE Called
  BY <1>1, CallFacts DEF Called
<1>2. CASE ~Called
  BY <1>2, OnlyCallsCount, OnlyCallsStart DEF Alone
<1> QED BY <1>1, <1>2

-----------------------------------------------------------------------------

\* Every stage that is not completed may be run once more.
Owed(st) ==
    \A s \in Stages \ st.completed : paid[s] < starts + faults + failed[s]

Balanced ==
    /\ \A s \in Stages : paid[s] <= starts + faults + failed[s]
    /\ \A d \in Drivers : Active(d) => Owed(state[d])
    /\ (runState # NoRun /\ \A d \in Drivers : pc[d] # "save")
          => Owed(runState)

Accounts == ~overlapped => Balanced

\* Nothing was paid.
LEMMA AccountsInit == Init => Accounts
  BY DEF Init, Accounts, Balanced, Active

\* A further Run or a fault allows for one more run of every stage.
LEMMA Credit ==
    ASSUME Typed, Balanced, UNCHANGED <<paid, failed>>,
           \/ starts' = starts + 1 /\ faults' = faults
           \/ starts' = starts /\ faults' = faults + 1
    PROVE  Balanced'
<1>1. /\ starts \in Nat /\ faults \in Nat
      /\ \A s \in Stages : /\ paid[s] \in Nat /\ failed[s] \in Nat
                           /\ paid[s] <= starts + faults + failed[s]
  BY BoundsAssumption DEF Balanced, Typed, TypeOK
<1>2. \A s \in Stages : paid'[s] < starts' + faults' + failed'[s]
  BY <1>1
<1>3. \A s \in Stages : paid'[s] <= starts' + faults' + failed'[s]
  BY <1>1
<1> QED BY <1>2, <1>3 DEF Balanced, Owed

\* A step that pays nothing and stores nothing keeps the balance.
LEMMA NothingPaid ==
    ASSUME Typed, Balanced, UNCHANGED <<paid, failed, starts, faults>>,
           \A e \in Drivers : Active(e)' =>
              Active(e) /\ state[e].completed \subseteq state'[e].completed,
           \/ runState' = NoRun
           \/ /\ runState' = runState
              /\ \A e \in Drivers : pc[e] = "save" => pc'[e] = "save"
    PROVE  Balanced'
  BY DEF Balanced, Owed

\* The steps of drivers that pay.
LEMMA AccountsPay ==
    ASSUME Typed, Alone, Accounts, ~overlapped', NEW d \in Drivers,
           Resume(d) \/ PersistRunState(d) \/ \E s \in Stages : RunStage(d, s)
    PROVE  Balanced'
<1>1. ~overlapped /\ Balanced
  <2>1. CASE Resume(d)
    BY <2>1, CallFacts DEF Accounts
  <2>2. CASE PersistRunState(d) \/ \E s \in Stages : RunStage(d, s)
    <3>1. overlapped' = overlapped
      BY <2>2 DEF PersistRunState, RunStage, historyVars
    <3> QED BY <3>1 DEF Accounts
  <2> QED BY <2>1, <2>2
<1>2. CASE Resume(d)
  <2>1. /\ \A e \in Drivers : ~Active(e)
        /\ \A e \in Drivers : Active(e)' => e = d
    BY <1>2, CallFacts
  <2>2. runState # NoRun /\ Owed(runState)
    BY <1>1, <1>2, <2>1 DEF Resume, Balanced, Active
  <2>3. /\ UNCHANGED <<paid, failed, starts, faults, runState>>
        /\ state'[d] = [runState EXCEPT !.termination = "running"]
    BY <1>2 DEF Resume, Drive, storeVars, Typed, TypeOK
  <2>4. runState \in RunState
    BY <2>2 DEF Typed, TypeOK
  <2>5. state'[d].completed = runState.completed
    BY <2>3, <2>4 DEF RunState
  <2> QED BY <1>1, <2>1, <2>2, <2>3, <2>5 DEF Balanced, Owed
<1>3. CASE PersistRunState(d)
  <2>1. /\ runState' = state[d] /\ UNCHANGED <<state, paid, failed, starts, faults>>
        /\ pc[d] = "save"
    BY <1>3 DEF PersistRunState, boundVars, historyVars
  <2>2. \A e \in Drivers : Active(e)' => Active(e)
    BY <1>3 DEF PersistRunState, AfterSave, Active, Typed, TypeOK
  <2>3. Owed(state[d])
    BY <1>1, <2>1 DEF Balanced, Active
  <2> QED BY <1>1, <2>1, <2>2, <2>3 DEF Balanced, Owed
<1>4. ASSUME NEW s \in Stages, RunStage(d, s) PROVE Balanced'
  <2>1. /\ pc[d] = "stage" /\ pc'[d] = "save" /\ s \notin state[d].completed
        /\ paid' = [paid EXCEPT ![s] = @ + 1]
        /\ UNCHANGED <<failed, starts, faults>>
    BY <1>4 DEF RunStage, Continue, IsNext, Earliest, boundVars, Typed, TypeOK
  <2>2. Owed(state[d]) /\ starts \in Nat /\ faults \in Nat
    BY <1>1, <2>1, BoundsAssumption DEF Balanced, Active, Typed, TypeOK
  <2>3. /\ paid[s] \in Nat /\ failed[s] \in Nat
        /\ paid[s] < starts + faults + failed[s]
        /\ paid'[s] = paid[s] + 1
        /\ \A t \in Stages : t # s => paid'[t] = paid[t]
    BY <2>1, <2>2 DEF Owed, Typed, TypeOK
  <2>4. \A t \in Stages : paid'[t] <= starts' + faults' + failed'[t]
    BY <1>1, <2>1, <2>2, <2>3 DEF Balanced
  <2>5. state'[d].completed = state[d].completed \cup {s}
    BY <1>4, RunStageFacts
  <2>6. Owed(state[d])'
    BY <2>1, <2>2, <2>3, <2>5 DEF Owed
  <2>7. \A e \in Drivers : Active(e)' => e = d
    <3>1. \A e \in Drivers : Active(e)' => Active(e)
      BY <1>4 DEF RunStage, Continue, Active, Typed, TypeOK
    <3> QED BY <1>1, <2>1, <3>1 DEF Alone, Active
  <2> QED BY <2>1, <2>4, <2>6, <2>7 DEF Balanced
<1> QED BY <1>2, <1>3, <1>4

\* A stage that fails has been paid for, and may be paid for once more.
LEMMA AccountsFail ==
    ASSUME Typed, Accounts, ~overlapped', [Next]_vars, ~Called,
           NEW d \in Drivers, NEW s \in Stages, StageFails(d, s)
    PROVE  Balanced'
<1>1. /\ paid' = [paid EXCEPT ![s] = @ + 1]
      /\ failed' = [failed EXCEPT ![s] = @ + 1]
      /\ UNCHANGED <<starts, faults, overlapped, runState>>
      /\ pc' = [pc EXCEPT ![d] = "save"]
  BY DEF StageFails, FailRun, Continue, storeVars
<1>2. Balanced /\ starts \in Nat /\ faults \in Nat
  BY <1>1, BoundsAssumption DEF Accounts, Typed, TypeOK
<1>3. ASSUME NEW t \in Stages
      PROVE  /\ paid[t] < starts + faults + failed[t]
                   => paid'[t] < starts' + faults' + failed'[t]
             /\ paid[t] <= starts + faults + failed[t]
                   => paid'[t] <= starts' + faults' + failed'[t]
  <2>1. paid[t] \in Nat /\ failed[t] \in Nat
    BY DEF Typed, TypeOK
  <2>2. CASE t = s
    <3>1. paid'[t] = paid[t] + 1 /\ failed'[t] = failed[t] + 1
      BY <1>1, <2>2 DEF Typed, TypeOK
    <3> QED BY <1>1, <1>2, <2>1, <3>1
  <2>3. CASE t # s
    <3>1. paid'[t] = paid[t] /\ failed'[t] = failed[t]
      BY <1>1, <2>3 DEF Typed, TypeOK
    <3> QED BY <1>1, <3>1
  <2> QED BY <2>2, <2>3
<1>4. \A e \in Drivers : Active(e)' =>
         Active(e) /\ state[e].completed \subseteq state'[e].completed
  BY OnlyCallsStart
<1>5. \A e \in Drivers : pc[e] = "save" => pc'[e] = "save"
  BY <1>1 DEF Typed, TypeOK
<1>6. \A st : Owed(st) =>
         \A t \in Stages \ st.completed :
            paid'[t] < starts' + faults' + failed'[t]
  BY <1>3 DEF Owed
<1> QED BY <1>1, <1>2, <1>3, <1>4, <1>5, <1>6 DEF Balanced, Owed

\* Every step keeps the accounts.
LEMMA AccountsStep == Typed /\ Alone /\ Accounts /\ [Next]_vars => Accounts'
<1> SUFFICES ASSUME Typed, Alone, Accounts, [Next]_vars, ~overlapped'
             PROVE  Balanced'
  BY DEF Accounts
<1>1. ASSUME NEW d \in Drivers,
             Resume(d) \/ PersistRunState(d) \/ \E s \in Stages : RunStage(d, s)
      PROVE  Balanced'
  BY <1>1, AccountsPay
<1>2. ASSUME NEW d \in Drivers, Run(d) PROVE Balanced'
  <2>1. ~overlapped /\ starts' = starts + 1 /\ UNCHANGED <<paid, failed, faults>>
    BY <1>2, CallFacts DEF Run, Drive
  <2> QED BY <2>1, Credit DEF Accounts
<1>3. ASSUME NEW d \in Drivers,
             \/ LoadFails(d) \/ PersistRunStateFails(d) \/ Crash(d)
             \/ \E cp \in pending[d] : SaveCheckpointFails(d, cp)
      PROVE  Balanced'
  <2>1. /\ faults' = faults + 1
        /\ UNCHANGED <<paid, failed, starts, overlapped>>
    BY <1>3 DEF LoadFails, PersistRunStateFails, Crash, SaveCheckpointFails,
                historyVars
  <2> QED BY <2>1, Credit DEF Accounts
<1>4. ASSUME ~Called, UNCHANGED <<paid, failed, faults>>,
             \/ runState' = NoRun
             \/ /\ runState' = runState
                /\ \A e \in Drivers : pc[e] = "save" => pc'[e] = "save"
      PROVE  Balanced'
  <2>1. \A e \in Drivers : Active(e)' =>
           Active(e) /\ state[e].completed \subseteq state'[e].completed
    BY <1>4, OnlyCallsStart
  <2>2. ~overlapped /\ starts' = starts
    BY <1>4, OnlyCallsCount
  <2> QED BY <1>4, <2>1, <2>2, NothingPaid DEF Accounts
<1>5. CASE Called
  BY <1>1, <1>2, <1>5 DEF Called
<1>6. CASE ~Called
  <2>1. ASSUME NEW d \in Drivers,
               \/ LoadCheckpoint(d) \/ HaltOnBudget(d) \/ CompleteRun(d)
               \/ Return(d)
               \/ \E cp \in pending[d] : SaveCheckpoint(d, cp)
        PROVE  Balanced'
    <3>1. UNCHANGED <<paid, failed, faults, runState>>
      BY <2>1 DEF LoadCheckpoint, HaltOnBudget, CompleteRun, Return,
                  SaveCheckpoint, storeVars, boundVars, historyVars
    <3>2. \A e \in Drivers : pc[e] = "save" => pc'[e] = "save"
      BY <2>1 DEF LoadCheckpoint, HaltOnBudget, CompleteRun, Return,
                  SaveCheckpoint, FailRun, Continue, Typed, TypeOK
    <3> QED BY <1>4, <1>6, <3>1, <3>2
  <2>2. ASSUME DeleteByCase \/ (\E n \in Call : Expire(n)) \/ UNCHANGED vars
        PROVE  Balanced'
    <3>1. UNCHANGED <<paid, failed, faults, pc>> /\ runState' \in {runState, NoRun}
      BY <2>2 DEF DeleteByCase, Expire, vars, storeVars, driverVars, boundVars,
                  historyVars
    <3> QED BY <1>4, <1>6, <3>1
  <2>3. ASSUME NEW d \in Drivers, NEW s \in Stages, StageFails(d, s)
        PROVE  Balanced'
    BY <1>6, <2>3, AccountsFail
  <2> QED BY <1>1, <1>3, <1>6, <2>1, <2>2, <2>3
          DEF Called, Next, DriverStep, Progress, Trouble
<1> QED BY <1>5, <1>6

\* A stage is run at most once for every Run, every fault and every error it
\* returned itself, however often the case is resumed, as long as drivers do not
\* overlap.
THEOREM PaidOnceHolds == Spec => []PaidOnce
<1>1. Accounts => PaidOnce
  BY DEF Accounts, Balanced, PaidOnce
<1> QED BY <1>1, TypeInit, TypeStep, AloneInit, AloneStep, AccountsInit,
           AccountsStep, PTL DEF Spec

-----------------------------------------------------------------------------

\* A driver at work knows every stage the store says is completed.
Remembers ==
    \A d \in Drivers : Active(d) => runState.completed \subseteq state[d].completed

Kept ==
    /\ starts = 0 => runState = NoRun /\ \A d \in Drivers : ~Active(d)
    /\ ~overlapped /\ starts = 1 /\ runState # NoRun => Remembers

\* Nothing is stored and nobody is at work.
LEMMA KeptInit == Init => Kept
  BY DEF Init, Kept, Active

\* Every step keeps Kept.
LEMMA KeptStep == Typed /\ Alone /\ Kept /\ [Next]_vars => Kept'
<1> SUFFICES ASSUME Typed, Alone, Kept, [Next]_vars PROVE Kept'
  OBVIOUS
<1>1. ASSUME NEW d \in Drivers, Run(d) PROVE Kept'
  <2>1. starts' = starts + 1 /\ starts \in Nat /\ runState' = runState
    BY <1>1, BoundsAssumption DEF Run, Drive, storeVars, Typed, TypeOK
  <2> QED BY <2>1 DEF Kept
<1>2. ASSUME NEW d \in Drivers, Resume(d) PROVE Kept'
  <2>1. /\ starts' = starts /\ runState' = runState /\ runState # NoRun
        /\ state'[d] = [runState EXCEPT !.termination = "running"]
    BY <1>2 DEF Resume, Drive, storeVars, Typed, TypeOK
  <2>2. runState \in RunState
    BY <2>1 DEF Typed, TypeOK
  <2>3. state'[d].completed = runState.completed
    BY <2>1, <2>2 DEF RunState
  <2>4. ASSUME ~overlapped' PROVE \A e \in Drivers : Active(e)' => e = d
    BY <1>2, <2>4, CallFacts
  <2> QED BY <2>1, <2>3, <2>4 DEF Kept, Remembers
<1>3. CASE ~Called
  <2>1. \A e \in Drivers : Active(e)' =>
           Active(e) /\ state[e].completed \subseteq state'[e].completed
    BY <1>3, OnlyCallsStart
  <2>2. overlapped' = overlapped /\ starts' = starts
    BY <1>3, OnlyCallsCount
  <2>3. CASE runState' = runState
    BY <2>1, <2>2, <2>3 DEF Kept, Remembers
  <2>4. CASE runState' = NoRun
    BY <2>1, <2>2, <2>4 DEF Kept
  <2>5. ASSUME NEW d \in Drivers, Active(d), runState' = state[d] PROVE Kept'
    <3>1. starts # 0
      BY <2>5 DEF Kept
    <3>2. ASSUME ~overlapped PROVE Remembers'
      BY <2>1, <2>5, <3>2 DEF Alone, Remembers
    <3> QED BY <2>2, <3>1, <3>2 DEF Kept
  <2> QED BY <2>3, <2>4, <2>5, RunStateChanges
<1> QED BY <1>1, <1>2, <1>3 DEF Called

\* A saved run never forgets a completed stage, whatever fails, as long as the
\* case was started once and its drivers do not overlap.
THEOREM CompletedGrowsHolds == Spec => CompletedGrows
<1>1. ASSUME Alone, Kept, [Next]_vars,
             runState # NoRun, runState' # NoRun, ~overlapped, starts = 1
      PROVE  runState.completed \subseteq runState'.completed
  <2>1. \/ runState' = runState
        \/ \E d \in Drivers : Active(d) /\ runState' = state[d]
    BY <1>1, RunStateChanges
  <2> QED BY <1>1, <2>1 DEF Kept, Remembers
<1> QED BY <1>1, TypeInit, TypeStep, AloneInit, AloneStep, KeptInit, KeptStep,
           PTL DEF Spec, CompletedGrows

-----------------------------------------------------------------------------
(* The outputs of a run belong together.  Of a stage the newest Checkpoint  *)
(* counts, which a goroutine may still have in hand.                       *)

InHand(s) == {cp \in UNION {pending[d] : d \in Drivers} : cp.stage = s}

Newest(s) == IF InHand(s) # {} THEN InHand(s)
                               ELSE {checkpoints[s]} \ {NoCheckpoint}

\* The newest output of s was made from the newest of t.
Fits(s, t) == \A p \in Newest(s), q \in Newest(t) : p.from[t] = q.by

\* Call n made the newest output of t.
MadeBy(t, n) == \A q \in Newest(t) : q.by = n

\* What st calls completed was made from the newest output of each input.
Coherent(st) == \A s \in st.completed : \A t \in Inputs(s) : Fits(s, t)

\* The outputs d holds are of completed stages, and the newest.
Knows(d) ==
    \A t \in Stages : \A n \in Call :
        memory[d][t] = n => t \in state[d].completed /\ MadeBy(t, n)

\* The stages are completed in order.
Ordered(st) == \A s \in st.completed : \A t \in Stages : t < s => t \in st.completed

\* A driver has in hand one Checkpoint of a stage it completed, and none while
\* it loads.
HandTidy(d) ==
    /\ pc[d] = "load" => pending[d] = {}
    /\ \A p \in pending[d] : p.stage \in state[d].completed
    /\ \A p, q \in pending[d] : p.stage = q.stage => p = q

Tidy ==
    /\ \A d \in Drivers : Ordered(state[d]) /\ HandTidy(d)
    /\ runState # NoRun => Ordered(runState)

\* When the outputs are claimed to belong together: see OutputsBelongTogether.
Undisturbed == ~overlapped /\ ~lost /\ (starts = 1 \/ faults = 0)

Together ==
    Undisturbed =>
        /\ \A d \in Drivers : Active(d) => Coherent(state[d]) /\ Knows(d)
        /\ runState # NoRun /\ (starts = 1 \/ \A d \in Drivers : ~Active(d))
              => Coherent(runState)
        /\ faults = 0 => \A d \in Drivers : pc[d] = "wait" => runState = state[d]

\* Nothing is completed and nothing is in hand.
LEMMA TidyInit == Init => Tidy
  BY DEF Init, NewRun, Tidy, Ordered, HandTidy

\* The stages stay in order: the next one is the least that is left.
LEMMA OrderedStep ==
    ASSUME Typed, Tidy, [Next]_vars
    PROVE  /\ \A e \in Drivers : Ordered(state[e])'
           /\ runState' # NoRun => Ordered(runState)'
<1>1. ASSUME NEW e \in Drivers PROVE Ordered(state[e])'
  <2>1. state[e].completed \subseteq Stages /\ Ordered(state[e])
    BY DEF Typed, TypeOK, RunState, Tidy
  <2>2. runState # NoRun => Ordered(runState)
    BY DEF Tidy
  <2>3. ASSUME NEW s \in Stages, IsNext(e, s),
               state'[e].completed = state[e].completed \cup {s}
        PROVE  Ordered(state[e])'
    <3>1. \A t \in Stages : t < s => t \in state[e].completed
      BY <2>3, StageFacts DEF IsNext, Earliest
    <3> QED BY <2>1, <2>3, <3>1 DEF Ordered
  <2> QED BY <2>1, <2>2, <2>3, StateChanges DEF StateAfter, Ordered
<1>2. runState' # NoRun => Ordered(runState)'
  BY RunStateChanges DEF Tidy, Ordered
<1> QED BY <1>1, <1>2

\* What a step does to the Checkpoints in e's hand.
HandAfter(e) ==
    \/ pending'[e] = {}
    \/ /\ pending'[e] \subseteq pending[e]
       /\ state'[e].completed = state[e].completed
       /\ pc'[e] = "load" => pc[e] = "load"
    \/ \E s \in Stages : RunStage(e, s)

\* Every step changes them in one of these ways.
LEMMA HandChanges ==
    ASSUME Typed, IdleHoldsNothing, [Next]_vars, NEW e \in Drivers
    PROVE  HandAfter(e)
<1> USE DEF HandAfter
<1>1. ASSUME NEW d \in Drivers, Run(d) \/ Resume(d) PROVE HandAfter(e)
  <2>1. CASE e = d
    BY <1>1, <2>1 DEF Run, Resume, Drive, IdleHoldsNothing, Active
  <2>2. CASE e # d
    BY <1>1, <2>2 DEF Run, Resume, Drive, Typed, TypeOK
  <2> QED BY <2>1, <2>2
<1>2. ASSUME NEW d \in Drivers, NEW s \in Stages, FailRun(d, s),
             UNCHANGED pending
      PROVE  HandAfter(e)
  <2>1. CASE e = d
    BY <1>2, <2>1, FailRunFacts
  <2>2. CASE e # d
    BY <1>2, <2>2 DEF FailRun, Continue, Typed, TypeOK
  <2> QED BY <2>1, <2>2
<1>3. ASSUME NEW d \in Drivers, LoadCheckpoint(d) PROVE HandAfter(e)
  <2>1. UNCHANGED pending
    BY <1>3 DEF LoadCheckpoint
  <2>2. CASE FailRun(d, 1)
    BY <1>2, <2>1, <2>2, StageFacts
  <2>3. CASE UNCHANGED <<pc, state>>
    BY <2>1, <2>3
  <2>4. CASE Continue(d, "stage", state[d])
    BY <2>1, <2>4 DEF Continue, Typed, TypeOK
  <2> QED BY <1>3, <2>2, <2>3, <2>4 DEF LoadCheckpoint
<1>4. ASSUME NEW d \in Drivers,
             LoadFails(d) \/ \E s \in Stages : StageFails(d, s)
      PROVE  HandAfter(e)
  BY <1>2, <1>4, StageFacts DEF LoadFails, StageFails
<1>5. ASSUME NEW d \in Drivers, NEW s \in Stages, RunStage(d, s)
      PROVE  HandAfter(e)
  <2>1. CASE e = d
    BY <1>5, <2>1
  <2>2. CASE e # d
    BY <1>5, <2>2 DEF RunStage, Continue, Typed, TypeOK
  <2> QED BY <2>1, <2>2
<1>6. ASSUME NEW d \in Drivers, HaltOnBudget(d) \/ CompleteRun(d)
      PROVE  HandAfter(e)
  <2>1. PICK tm \in Termination :
           Continue(d, "save", [state[d] EXCEPT !.termination = tm])
    BY <1>6 DEF HaltOnBudget, CompleteRun, Termination
  <2>2. state[d] \in RunState
    BY DEF Typed, TypeOK
  <2>3. [state[d] EXCEPT !.termination = tm].completed = state[d].completed
    BY <2>2 DEF RunState
  <2>4. UNCHANGED pending
    BY <1>6 DEF HaltOnBudget, CompleteRun
  <2> QED BY <2>1, <2>3, <2>4 DEF Continue, Typed, TypeOK
<1>7. ASSUME NEW d \in Drivers, PersistRunState(d) \/ PersistRunStateFails(d)
      PROVE  HandAfter(e)
  BY <1>7 DEF PersistRunState, PersistRunStateFails, AfterSave, Typed, TypeOK
<1>8. ASSUME NEW d \in Drivers, NEW cp \in pending[d],
             SaveCheckpoint(d, cp) \/ SaveCheckpointFails(d, cp)
      PROVE  HandAfter(e)
  BY <1>8 DEF SaveCheckpoint, SaveCheckpointFails, Typed, TypeOK
<1>9. ASSUME NEW d \in Drivers, Return(d) \/ Crash(d) PROVE HandAfter(e)
  BY <1>9 DEF Return, Crash, Typed, TypeOK
<1>10. CASE DeleteByCase \/ (\E n \in Call : Expire(n)) \/ UNCHANGED vars
  <2>1. UNCHANGED <<pc, state, pending>>
    BY <1>10 DEF DeleteByCase, Expire, vars, driverVars
  <2> QED BY <2>1
<1>11. HandAfter(e)
  <2> HIDE DEF HandAfter
  <2> QED BY <1>1, <1>3, <1>4, <1>5, <1>6, <1>7, <1>8, <1>9, <1>10
          DEF Next, DriverStep, Progress, Trouble
<1> QED BY <1>11

\* Every step keeps Tidy: a stage that runs was not completed, so there is no
\* Checkpoint of it in hand.
LEMMA TidyStep ==
    Typed /\ IdleHoldsNothing /\ Tidy /\ [Next]_vars => Tidy'
<1> SUFFICES ASSUME Typed, IdleHoldsNothing, Tidy, [Next]_vars PROVE Tidy'
  OBVIOUS
<1>1. ASSUME NEW e \in Drivers PROVE HandTidy(e)'
  <2>1. HandTidy(e)
    BY DEF Tidy
  <2>2. CASE pending'[e] = {}
    BY <2>2 DEF HandTidy
  <2>3. CASE /\ pending'[e] \subseteq pending[e]
             /\ state'[e].completed = state[e].completed
             /\ pc'[e] = "load" => pc[e] = "load"
    BY <2>1, <2>3 DEF HandTidy
  <2>4. ASSUME NEW s \in Stages, RunStage(e, s) PROVE HandTidy(e)'
    <3>1. /\ state'[e].completed = state[e].completed \cup {s}
          /\ pending'[e] = pending[e] \cup {Output(e, s)}
          /\ s \notin state[e].completed
      BY <2>4, RunStageFacts DEF IsNext, Earliest
    <3>2. pc'[e] = "save"
      BY <2>4 DEF RunStage, Continue, Typed, TypeOK
    <3>3. Output(e, s).stage = s
      BY DEF Output
    <3> QED BY <2>1, <3>1, <3>2, <3>3 DEF HandTidy
  <2> QED BY <2>2, <2>3, <2>4, HandChanges DEF HandAfter
<1> QED BY <1>1, OrderedStep DEF Tidy


-----------------------------------------------------------------------------

\* A step in which no stage runs makes no output the newest.
LEMMA NewestShrinks ==
    ASSUME Typed, [Next]_vars, ~lost',
           ~ \E d \in Drivers : \E s \in Stages : RunStage(d, s),
           NEW s \in Stages
    PROVE  Newest(s)' \subseteq Newest(s)
<1>1. ASSUME \A e \in Drivers : pending'[e] = pending[e],
             checkpoints'[s] \in {checkpoints[s], NoCheckpoint}
      PROVE  Newest(s)' \subseteq Newest(s)
  <2>1. InHand(s)' = InHand(s)
    BY <1>1 DEF InHand
  <2> QED BY <1>1, <2>1 DEF Newest
<1>2. ASSUME NEW d \in Drivers, Run(d) \/ Resume(d)
      PROVE  Newest(s)' \subseteq Newest(s)
  BY <1>1, <1>2 DEF Run, Resume, Drive, storeVars
<1>3. ASSUME NEW d \in Drivers,
             \/ LoadCheckpoint(d) \/ LoadFails(d)
             \/ \E t \in Stages : StageFails(d, t)
             \/ HaltOnBudget(d) \/ CompleteRun(d)
             \/ PersistRunState(d) \/ PersistRunStateFails(d) \/ Return(d)
      PROVE  Newest(s)' \subseteq Newest(s)
  <2>1. UNCHANGED <<pending, checkpoints>>
    BY <1>3 DEF LoadCheckpoint, LoadFails, StageFails, HaltOnBudget, CompleteRun,
                PersistRunState, PersistRunStateFails, Return, storeVars
  <2> QED BY <1>1, <2>1
<1>4. ASSUME NEW d \in Drivers, Crash(d) PROVE Newest(s)' \subseteq Newest(s)
  <2>1. pending[d] = {} /\ checkpoints' = checkpoints
        /\ pending' = [pending EXCEPT ![d] = {}]
    BY <1>4 DEF Crash, storeVars
  <2>2. \A e \in Drivers : pending'[e] = pending[e]
    BY <2>1 DEF Typed, TypeOK
  <2> QED BY <1>1, <2>1, <2>2
<1>5. ASSUME NEW d \in Drivers, NEW cp \in pending[d],
             SaveCheckpoint(d, cp) \/ SaveCheckpointFails(d, cp)
      PROVE  Newest(s)' \subseteq Newest(s)
  <2>1. SaveCheckpoint(d, cp)
    BY <1>5 DEF SaveCheckpointFails
  <2>2. cp.stage \in Stages
    BY DEF Typed, TypeOK, Checkpoint
  <2>3. /\ \A e \in Drivers : pending'[e] \subseteq pending[e]
        /\ \A e \in Drivers : \A c \in pending[e] : c # cp => c \in pending'[e]
        /\ \A t \in Stages : checkpoints'[t] =
              IF t = cp.stage THEN cp ELSE checkpoints[t]
    BY <2>1, <2>2 DEF SaveCheckpoint, Typed, TypeOK
  <2>4. InHand(s)' \subseteq InHand(s)
    BY <2>3 DEF InHand
  <2>5. CASE s = cp.stage
    <3>1. cp \in InHand(s)
      BY <2>5 DEF InHand
    <3> QED BY <2>3, <2>4, <2>5, <3>1 DEF Newest
  <2>6. CASE s # cp.stage
    <3>1. InHand(s)' = InHand(s)
      BY <2>3, <2>4, <2>6 DEF InHand
    <3> QED BY <2>3, <2>6, <3>1 DEF Newest
  <2> QED BY <2>5, <2>6
<1>6. CASE DeleteByCase \/ (\E n \in Call : Expire(n)) \/ UNCHANGED vars
  <2>1. pending' = pending /\ checkpoints'[s] \in {checkpoints[s], NoCheckpoint}
    BY <1>6 DEF DeleteByCase, Expire, vars, driverVars, storeVars
  <2> QED BY <1>1, <2>1
<1> QED BY <1>2, <1>3, <1>4, <1>5, <1>6 DEF Next, DriverStep, Progress, Trouble

\* What fitted fits, and what is known of an output stays true of it.
LEMMA FitsKept ==
    ASSUME Typed, [Next]_vars, ~lost',
           ~ \E d \in Drivers : \E s \in Stages : RunStage(d, s)
    PROVE  /\ \A s, t \in Stages : Fits(s, t) => Fits(s, t)'
           /\ \A t \in Stages : \A n \in Call : MadeBy(t, n) => MadeBy(t, n)'
  BY NewestShrinks DEF Fits, MadeBy

\* The output of a stage that runs is the newest, and it changes no other.
LEMMA NewestAfterStage ==
    ASSUME Typed, IdleHoldsNothing, Tidy, NEW d \in Drivers, NEW s \in Stages,
           RunStage(d, s), \A e \in Drivers : Active(e) => e = d
    PROVE  /\ Newest(s)' = {Output(d, s)}
           /\ \A t \in Stages : t # s => Newest(t)' = Newest(t)
<1>1. /\ pending'[d] = pending[d] \cup {Output(d, s)}
      /\ s \notin state[d].completed
  BY RunStageFacts DEF IsNext, Earliest
<1>2. \A e \in Drivers : e # d => pending'[e] = {} /\ pending[e] = {}
  BY DEF RunStage, IdleHoldsNothing, Typed, TypeOK
<1>3. checkpoints' = checkpoints
  BY DEF RunStage, storeVars
<1>4. Output(d, s).stage = s
  BY DEF Output
<1>5. \A p \in pending[d] : p.stage # s
  BY <1>1 DEF Tidy, HandTidy
<1>6. InHand(s)' = {Output(d, s)}
  BY <1>1, <1>2, <1>4, <1>5 DEF InHand
<1>7. ASSUME NEW t \in Stages, t # s PROVE InHand(t)' = InHand(t)
  BY <1>1, <1>2, <1>4, <1>7 DEF InHand
<1> QED BY <1>3, <1>6, <1>7 DEF Newest

\* The outputs a driver holds after a step, if no call came and no stage ran:
\* those it held, and the one it read.
LEMMA MemoryChanges ==
    ASSUME Typed, [Next]_vars, ~Called, NEW e \in Drivers, Active(e)',
           ~ \E d \in Drivers : \E s \in Stages : RunStage(d, s),
           NEW t \in Stages
    PROVE  \/ memory'[e][t] = memory[e][t]
           \/ /\ pc[e] = "load" /\ t \in state[e].completed
              /\ checkpoints[t] # NoCheckpoint
              /\ memory'[e][t] = checkpoints[t].by
<1>1. memory[e] \in Memory
  BY DEF Typed, TypeOK
<1>2. CASE LoadCheckpoint(e)
  <2>1. CASE UNCHANGED memory
    BY <2>1
  <2>2. ASSUME NEW s \in Unread(e), checkpoints[s] # NoCheckpoint,
               memory' = [memory EXCEPT ![e][s] = checkpoints[s].by]
        PROVE  \/ memory'[e][t] = memory[e][t]
               \/ /\ t \in state[e].completed /\ checkpoints[t] # NoCheckpoint
                  /\ memory'[e][t] = checkpoints[t].by
    <3>1. memory'[e] = [memory[e] EXCEPT ![s] = checkpoints[s].by]
      BY <2>2 DEF Typed, TypeOK
    <3> QED BY <1>1, <2>2, <3>1 DEF Memory, Unread
  <2> QED BY <1>2, <2>1, <2>2 DEF LoadCheckpoint
<1>3. ASSUME NEW d \in Drivers, d # e, LoadCheckpoint(d)
      PROVE  memory'[e] = memory[e]
  BY <1>3 DEF LoadCheckpoint, Typed, TypeOK
<1>4. ASSUME NEW d \in Drivers,
             \/ LoadFails(d) \/ \E s \in Stages : StageFails(d, s)
             \/ HaltOnBudget(d) \/ CompleteRun(d)
             \/ PersistRunState(d) \/ PersistRunStateFails(d)
             \/ \E cp \in pending[d] : \/ SaveCheckpoint(d, cp)
                                       \/ SaveCheckpointFails(d, cp)
      PROVE  memory'[e] = memory[e]
  BY <1>4 DEF LoadFails, StageFails, HaltOnBudget, CompleteRun, PersistRunState,
              PersistRunStateFails, SaveCheckpoint, SaveCheckpointFails
<1>5. ASSUME NEW d \in Drivers, Return(d) \/ Crash(d)
      PROVE  memory'[e] = memory[e]
  BY <1>5 DEF Return, Crash, Active, Typed, TypeOK
<1>6. CASE DeleteByCase \/ (\E n \in Call : Expire(n)) \/ UNCHANGED vars
  BY <1>6 DEF DeleteByCase, Expire, vars, driverVars
<1> QED BY <1>2, <1>3, <1>4, <1>5, <1>6
        DEF Called, Next, DriverStep, Progress, Trouble

\* What was lost stays lost, and faults are counted.
LEMMA TroubleStays ==
    ASSUME Typed, [Next]_vars
    PROVE  /\ ~lost' => ~lost
           /\ faults' = 0 => faults = 0
<1>1. faults \in Nat /\ lost \in BOOLEAN
  BY BoundsAssumption DEF Typed, TypeOK
<1> DEFINE Goal == lost' \in {lost, TRUE} /\ faults' \in {faults, faults + 1}
<1>2. ASSUME NEW d \in Drivers, Run(d) \/ Resume(d) PROVE Goal
  BY <1>2 DEF Run, Resume, Drive
<1>3. ASSUME NEW d \in Drivers,
             \/ LoadCheckpoint(d)
             \/ \E s \in Stages : RunStage(d, s) \/ StageFails(d, s)
             \/ HaltOnBudget(d) \/ CompleteRun(d)
             \/ PersistRunState(d) \/ Return(d)
             \/ \E cp \in pending[d] : SaveCheckpoint(d, cp)
      PROVE  Goal
  BY <1>3 DEF LoadCheckpoint, RunStage, StageFails, HaltOnBudget, CompleteRun,
        PersistRunState, SaveCheckpoint, Return, boundVars, historyVars
<1>4. ASSUME NEW d \in Drivers,
             \/ LoadFails(d) \/ PersistRunStateFails(d)
             \/ \E cp \in pending[d] : SaveCheckpointFails(d, cp)
      PROVE  Goal
  BY <1>1, <1>4
     DEF LoadFails, PersistRunStateFails, SaveCheckpointFails, historyVars
<1>5. ASSUME NEW d \in Drivers, Crash(d) PROVE Goal
  <2>1. lost' = (lost \/ pending[d] # {}) /\ faults' = faults + 1
    BY <1>5 DEF Crash
  <2>2. lost' \in {lost, TRUE}
    BY <1>1, <2>1
  <2> QED BY <1>1, <2>1, <2>2
<1>6. ASSUME DeleteByCase PROVE Goal
  <2>1. /\ lost' = (lost \/ \E d \in Drivers : Active(d))
        /\ faults' = faults
    BY <1>6 DEF DeleteByCase
  <2>2. lost' \in {lost, TRUE}
    BY <1>1, <2>1
  <2> QED BY <2>1, <2>2
<1>7. ASSUME (\E n \in Call : Expire(n)) \/ UNCHANGED vars PROVE Goal
  BY <1>7 DEF Expire, vars, boundVars, historyVars
<1>8. Goal
  <2> HIDE DEF Goal
  <2> QED BY <1>2, <1>3, <1>4, <1>5, <1>6, <1>7
          DEF Next, DriverStep, Progress, Trouble
<1>9. ~lost' => ~lost
  BY <1>1, <1>8
<1>10. faults' = 0 => faults = 0
  BY <1>1, <1>8
<1> QED BY <1>9, <1>10

\* A driver that stops without a fault returns.
LEMMA StopsByReturn ==
    ASSUME Typed, [Next]_vars, faults' = 0, NEW e \in Drivers,
           Active(e), ~Active(e)'
    PROVE  Return(e)
<1> DEFINE Goal == pc'[e] # "idle" \/ faults' # 0 \/ Return(e)
<1>1. pc[e] # "idle" /\ pc'[e] = "idle" /\ faults \in Nat
  BY BoundsAssumption DEF Active, Typed, TypeOK
<1>2. ASSUME NEW d \in Drivers,
             \/ Run(d) \/ Resume(d) \/ LoadCheckpoint(d)
             \/ \E s \in Stages : RunStage(d, s) \/ StageFails(d, s)
             \/ HaltOnBudget(d) \/ CompleteRun(d)
             \/ PersistRunState(d)
             \/ \E cp \in pending[d] : SaveCheckpoint(d, cp)
      PROVE  Goal
  BY <1>1, <1>2 DEF Run, Resume, Drive, LoadCheckpoint, RunStage, StageFails,
        HaltOnBudget, CompleteRun, PersistRunState, SaveCheckpoint, FailRun,
        Continue, AfterSave, Typed, TypeOK
<1>3. ASSUME NEW d \in Drivers,
             \/ LoadFails(d) \/ PersistRunStateFails(d) \/ Crash(d)
             \/ \E cp \in pending[d] : SaveCheckpointFails(d, cp)
      PROVE  Goal
  <2>1. faults' = faults + 1
    BY <1>3 DEF LoadFails, PersistRunStateFails, Crash, SaveCheckpointFails
  <2> QED BY <1>1, <2>1
<1>4. ASSUME NEW d \in Drivers, Return(d) PROVE Goal
  BY <1>1, <1>4 DEF Return, Typed, TypeOK
<1>5. ASSUME DeleteByCase \/ (\E n \in Call : Expire(n)) \/ UNCHANGED vars
      PROVE  Goal
  BY <1>1, <1>5 DEF DeleteByCase, Expire, vars, driverVars
<1>6. Goal
  <2> HIDE DEF Goal
  <2> QED BY <1>2, <1>3, <1>4, <1>5 DEF Next, DriverStep, Progress, Trouble
<1> QED BY <1>1, <1>6

\* A driver that waits has saved its RunState, just now or before.
LEMMA WaitsAfterSave ==
    ASSUME Typed, [Next]_vars, faults' = 0, NEW e \in Drivers, pc'[e] = "wait",
           \A d \in Drivers : Active(d) => d = e, ~Called, ~DeleteByCase
    PROVE  \/ runState' = state[e] /\ state'[e] = state[e]
           \/ /\ pc[e] = "wait" /\ state'[e] = state[e]
              /\ runState' = runState
<1> DEFINE Goal == \/ faults' # 0
                   \/ pc'[e] # "wait"
                   \/ runState' = state[e] /\ state'[e] = state[e]
                   \/ /\ pc[e] = "wait" /\ state'[e] = state[e]
                      /\ runState' = runState
<1>1. faults \in Nat
  BY BoundsAssumption DEF Typed, TypeOK
<1>2. ASSUME NEW d \in Drivers,
             \/ LoadCheckpoint(d) \/ LoadFails(d)
             \/ \E s \in Stages : RunStage(d, s) \/ StageFails(d, s)
             \/ HaltOnBudget(d) \/ CompleteRun(d)
      PROVE  Goal
  <2>1. d = e
    BY <1>2 DEF LoadCheckpoint, LoadFails, RunStage, StageFails, HaltOnBudget,
                CompleteRun, Active
  <2>2. pc[e] \in {"load", "stage"}
    BY <1>2, <2>1 DEF LoadCheckpoint, LoadFails, RunStage, StageFails,
                      HaltOnBudget, CompleteRun
  <2>3. pc'[e] # "wait"
    BY <1>2, <2>1, <2>2
       DEF LoadCheckpoint, LoadFails, RunStage, StageFails, HaltOnBudget,
           CompleteRun, FailRun, Continue, Typed, TypeOK
  <2> QED BY <2>3
<1>3. ASSUME NEW d \in Drivers, PersistRunState(d) PROVE Goal
  BY <1>3 DEF PersistRunState, Active
<1>4. ASSUME NEW d \in Drivers, \E cp \in pending[d] : SaveCheckpoint(d, cp)
      PROVE  Goal
  BY <1>4 DEF SaveCheckpoint
<1>5. ASSUME NEW d \in Drivers, Return(d) PROVE Goal
  BY <1>5 DEF Return, Active, Typed, TypeOK
<1>6. ASSUME NEW d \in Drivers,
             \/ PersistRunStateFails(d) \/ Crash(d)
             \/ \E cp \in pending[d] : SaveCheckpointFails(d, cp)
      PROVE  Goal
  <2>1. faults' = faults + 1
    BY <1>6 DEF PersistRunStateFails, Crash, SaveCheckpointFails
  <2> QED BY <1>1, <2>1
<1>7. ASSUME (\E n \in Call : Expire(n)) \/ UNCHANGED vars PROVE Goal
  BY <1>7 DEF Expire, vars, driverVars, storeVars
<1>8. Goal
  <2> HIDE DEF Goal
  <2> QED BY <1>2, <1>3, <1>4, <1>5, <1>6, <1>7
          DEF Called, Next, DriverStep, Progress, Trouble
<1> QED BY <1>8


\* Nothing is stored and nobody is at work.
LEMMA TogetherInit == Init => Together
  BY DEF Init, Together, Active

\* A driver that starts anew holds nothing, and one that resumes what the store
\* counts as completed.
LEMMA TogetherCall ==
    ASSUME Typed, IdleHoldsNothing, Kept, Together, Undisturbed', [Next]_vars,
           NEW d \in Drivers, Run(d) \/ Resume(d)
    PROVE  Together'
<1>1. /\ ~overlapped /\ \A e \in Drivers : ~Active(e)
      /\ \A e \in Drivers : Active(e)' => e = d
  BY CallFacts DEF Undisturbed
<1>2. /\ UNCHANGED <<runState, checkpoints, pending, lost, faults>>
      /\ memory'[d] = Nothing /\ pc'[d] \in {"load", "stage"} /\ Active(d)'
  BY DEF Run, Resume, Drive, storeVars, Active, Typed, TypeOK
<1>3. Knows(d)'
  <2>1. \A t \in Stages : \A n \in Call : memory'[d][t] # n
    BY <1>2 DEF Nothing, Call
  <2> QED BY <2>1 DEF Knows
<1>4. Coherent(state[d])' /\ (starts' = 1 /\ runState # NoRun => Coherent(runState)')
  <2>1. CASE Run(d)
    <3>1. state'[d].completed = {} /\ starts' = starts + 1 /\ starts \in Nat
      BY <2>1, BoundsAssumption DEF Run, Drive, NewRun, Typed, TypeOK
    <3>2. starts' = 1 => runState = NoRun
      BY <3>1 DEF Kept
    <3> QED BY <3>1, <3>2 DEF Coherent
  <2>2. CASE Resume(d)
    <3>1. /\ starts' = starts /\ runState # NoRun
          /\ state'[d] = [runState EXCEPT !.termination = "running"]
      BY <2>2 DEF Resume, Drive, Typed, TypeOK
    <3>2. state'[d].completed = runState.completed
      BY <3>1 DEF Typed, TypeOK, RunState
    <3>3. Undisturbed
      BY <1>1, <1>2, <3>1 DEF Undisturbed
    <3>4. Coherent(runState)
      BY <1>1, <3>1, <3>3 DEF Together
    <3>5. \A s, t \in Stages : Fits(s, t)' = Fits(s, t)
      BY <1>2 DEF Fits, Newest, InHand
    <3>6. runState.completed \subseteq Stages
      BY <3>1 DEF Typed, TypeOK, RunState
    <3> QED BY <1>2, <3>2, <3>4, <3>5, <3>6, InputsAreEarlier DEF Coherent
  <2> QED BY <2>1, <2>2
<1>5. \A e \in Drivers : pc'[e] # "wait"
  BY <1>1, <1>2 DEF Active
<1> QED BY <1>1, <1>2, <1>3, <1>4, <1>5 DEF Together

\* A stage that runs is made from the newest output of each input, and no stage
\* that is completed was made from an older output of its own.
LEMMA TogetherRunStage ==
    ASSUME Typed, IdleHoldsNothing, Tidy, Alone, Kept, Together, Undisturbed',
           NEW d \in Drivers, NEW s \in Stages, RunStage(d, s), Fed
    PROVE  Together'
<1>1. /\ Undisturbed /\ Active(d) /\ pc'[d] = "save" /\ runState' = runState
      /\ UNCHANGED <<starts, faults, overlapped, lost>>
      /\ \A e \in Drivers : e # d => pc'[e] = pc[e]
  <2>1. /\ pc[d] = "stage" /\ pc' = [pc EXCEPT ![d] = "save"]
        /\ UNCHANGED <<runState, starts, faults, overlapped, lost>>
    BY DEF RunStage, Continue, storeVars, boundVars
  <2>2. /\ pc'[d] = "save"
        /\ \A e \in Drivers : e # d => pc'[e] = pc[e]
    BY <2>1 DEF Typed, TypeOK
  <2> QED BY <2>1, <2>2 DEF Undisturbed, Active
<1>2. \A e \in Drivers : Active(e) => e = d
  BY <1>1 DEF Alone, Undisturbed
<1>3. /\ Newest(s)' = {Output(d, s)}
      /\ \A t \in Stages : t # s => Newest(t)' = Newest(t)
  BY <1>2, NewestAfterStage
<1>4. /\ state'[d].completed = state[d].completed \cup {s}
      /\ s \notin state[d].completed
      /\ \A t \in Stages : t < s => t \in state[d].completed
      /\ state[d].completed \subseteq Stages
  BY RunStageFacts, StageFacts DEF IsNext, Earliest, Typed, TypeOK, RunState
<1>5. Coherent(state[d]) /\ Knows(d) /\ Ordered(state[d])
  BY <1>1 DEF Together, Tidy
<1>6. memory[d] \in Memory /\ memory'[d] = [memory[d] EXCEPT ![s] = call[d]]
      /\ call[d] \in Call
  BY <1>1 DEF RunStage, Typed, TypeOK, Numbered
<1>7. ASSUME NEW t \in Inputs(s)
      PROVE  t \in Stages /\ t # s /\ memory[d][t] \in Call /\ Fits(s, t)'
  <2>1. t \in Stages /\ t < s /\ t # s
    BY InputsAreEarlier, StageFacts
  <2>2. memory[d][t] # 0
    BY <1>4, <2>1 DEF RunStage, Fed, ReadBefore, Unread
  <2>3. memory[d][t] \in Call
    BY <1>6, <2>1, <2>2, BoundsAssumption DEF Memory, Call
  <2>4. PICK n \in Call : n = memory[d][t]
    BY <2>3
  <2>5. MadeBy(t, n)
    BY <1>5, <2>1, <2>4 DEF Knows
  <2>6. Output(d, s).from[t] = n
    BY <2>1, <2>4 DEF Output
  <2>7. PICK out : out = Output(d, s)
    OBVIOUS
  <2>8. Newest(s)' = {out} /\ Newest(t)' = Newest(t) /\ out.from[t] = n
    BY <1>3, <2>1, <2>6, <2>7
  <2> QED BY <2>1, <2>3, <2>5, <2>8 DEF MadeBy, Fits
<1>8. ASSUME NEW u \in Stages, NEW t \in Stages, u # s, t # s, Fits(u, t)
      PROVE  Fits(u, t)'
  BY <1>3, <1>8 DEF Fits
<1>9. ASSUME NEW u \in state[d].completed, NEW t \in Inputs(u)
      PROVE  Fits(u, t)'
  <2>1. u \in Stages /\ t \in Stages /\ t < u /\ u # s
    BY <1>4, InputsAreEarlier
  <2>2. t \in state[d].completed
    BY <1>5, <2>1 DEF Ordered
  <2>3. Fits(u, t)
    BY <1>5 DEF Coherent
  <2> QED BY <1>4, <1>8, <2>1, <2>2, <2>3
<1>10. Coherent(state[d])'
  BY <1>4, <1>7, <1>9 DEF Coherent
<1>11. Knows(d)'
  <2>1. ASSUME NEW t \in Stages, NEW n \in Call, memory'[d][t] = n
        PROVE  t \in state'[d].completed /\ MadeBy(t, n)'
    <3>1. CASE t = s
      <4>1. n = call[d]
        BY <1>6, <2>1, <3>1 DEF Memory
      <4>2. PICK out : out = Output(d, s)
        OBVIOUS
      <4>3. Newest(s)' = {out} /\ out.by = n
        BY <1>3, <4>1, <4>2 DEF Output
      <4> QED BY <1>4, <3>1, <4>3 DEF MadeBy
    <3>2. CASE t # s
      <4>1. memory[d][t] = n
        BY <1>6, <2>1, <3>2 DEF Memory
      <4>2. t \in state[d].completed /\ MadeBy(t, n)
        BY <1>5, <4>1 DEF Knows
      <4> QED BY <1>3, <1>4, <3>2, <4>2 DEF MadeBy
    <3> QED BY <3>1, <3>2
  <2> QED BY <2>1 DEF Knows
<1>12. starts = 1 /\ runState # NoRun => Coherent(runState)'
  <2>1. ASSUME starts = 1, runState # NoRun PROVE Coherent(runState)'
    <3>1. runState.completed \subseteq state[d].completed
      BY <1>1, <2>1 DEF Kept, Remembers, Undisturbed
    <3> QED BY <1>1, <1>9, <3>1 DEF Coherent
  <2> QED BY <2>1
<1>13. Active(d)' /\ \A e \in Drivers : Active(e)' => e = d
  BY <1>1, <1>2 DEF Active
<1>14. \A e \in Drivers : pc'[e] # "wait"
  BY <1>1, <1>13 DEF Active
<1> QED BY <1>1, <1>10, <1>11, <1>12, <1>13, <1>14 DEF Together

\* In every other step no output becomes the newest that was not, and what the
\* store is given is what a driver holds.
LEMMA TogetherQuiet ==
    ASSUME Typed, IdleHoldsNothing, Tidy, Alone, Kept, Together, Undisturbed',
           [Next]_vars, ~Called,
           ~ \E d \in Drivers : \E s \in Stages : RunStage(d, s)
    PROVE  Together'
<1>1. /\ Undisturbed /\ ~overlapped /\ ~lost /\ starts' = starts
      /\ faults' = 0 => faults = 0
  BY OnlyCallsCount, TroubleStays DEF Undisturbed
<1>2. /\ \A s, t \in Stages : Fits(s, t) => Fits(s, t)'
      /\ \A t \in Stages : \A n \in Call : MadeBy(t, n) => MadeBy(t, n)'
  BY FitsKept DEF Undisturbed
<1>3. ASSUME NEW e \in Drivers, Active(e)'
      PROVE  /\ Active(e) /\ Coherent(state[e]) /\ Knows(e)
             /\ state'[e].completed = state[e].completed
             /\ state[e].completed \subseteq Stages
             /\ \A o \in Drivers : Active(o) => o = e
  BY <1>1, <1>3, OnlyStagesAdd DEF Together, Alone, Typed, TypeOK, RunState
<1>4. ASSUME NEW e \in Drivers, Active(e)' PROVE Coherent(state[e])'
  BY <1>2, <1>3, <1>4, InputsAreEarlier DEF Coherent
<1>5. ASSUME NEW e \in Drivers, Active(e)' PROVE Knows(e)'
  <2>1. ASSUME NEW t \in Stages, NEW n \in Call, memory'[e][t] = n
        PROVE  t \in state'[e].completed /\ MadeBy(t, n)'
    <3>1. CASE memory'[e][t] = memory[e][t]
      BY <1>2, <1>3, <1>5, <2>1, <3>1 DEF Knows
    <3>2. CASE /\ pc[e] = "load" /\ t \in state[e].completed
               /\ checkpoints[t] # NoCheckpoint
               /\ memory'[e][t] = checkpoints[t].by
      <4>1. \A o \in Drivers : pending[o] = {}
        BY <1>3, <1>5, <3>2 DEF Tidy, HandTidy, IdleHoldsNothing
      <4>2. Newest(t) = {checkpoints[t]}
        BY <3>2, <4>1 DEF Newest, InHand
      <4>3. MadeBy(t, n)
        BY <2>1, <3>2, <4>2 DEF MadeBy
      <4> QED BY <1>2, <1>3, <1>5, <3>2, <4>3
    <3> QED BY <1>5, <3>1, <3>2, MemoryChanges
  <2> QED BY <2>1 DEF Knows
<1>6. ASSUME runState' # NoRun, starts = 1 \/ \A e \in Drivers : ~Active(e)'
      PROVE  Coherent(runState)'
  <2>1. ASSUME NEW e \in Drivers, Active(e), runState' = state[e]
        PROVE  Coherent(runState)'
    <3>1. Coherent(state[e]) /\ state[e].completed \subseteq Stages
      BY <1>1, <2>1 DEF Together, Typed, TypeOK, RunState
    <3> QED BY <1>2, <2>1, <3>1, InputsAreEarlier DEF Coherent
  <2>2. ASSUME runState' = runState, Coherent(runState)
        PROVE  Coherent(runState)'
    <3>1. runState.completed \subseteq Stages
      BY <1>6, <2>2 DEF Typed, TypeOK, RunState
    <3> QED BY <1>2, <2>2, <3>1, InputsAreEarlier DEF Coherent
  <2>3. CASE runState' = runState
    <3>1. CASE starts = 1 \/ \A e \in Drivers : ~Active(e)
      BY <1>1, <1>6, <2>2, <2>3, <3>1 DEF Together
    <3>2. ASSUME starts # 1, NEW e \in Drivers, Active(e)
          PROVE  Coherent(runState)'
      <4>1. faults' = 0 /\ faults = 0
        BY <1>1, <3>2 DEF Undisturbed
      <4>2. pc[e] = "wait"
        BY <1>6, <3>2, <4>1, StopsByReturn DEF Return
      <4>3. runState = state[e]
        BY <1>1, <4>1, <4>2 DEF Together
      <4> QED BY <2>1, <2>3, <3>2, <4>3
    <3> QED BY <3>1, <3>2
  <2> QED BY <1>6, <2>1, <2>3, RunStateChanges
<1>7. ASSUME faults' = 0, NEW e \in Drivers, pc'[e] = "wait"
      PROVE  runState' = state'[e]
  <2>1. Active(e) /\ \A o \in Drivers : Active(o) => o = e
    BY <1>3, <1>7 DEF Active
  <2>2. ~DeleteByCase
    BY <2>1 DEF DeleteByCase, Undisturbed
  <2>3. pc[e] = "wait" => runState = state[e]
    BY <1>1, <1>7 DEF Together
  <2> QED BY <1>7, <2>1, <2>2, <2>3, WaitsAfterSave
<1> QED BY <1>1, <1>4, <1>5, <1>6, <1>7 DEF Together

\* Every step keeps Together.
LEMMA TogetherStep ==
    Typed /\ Fed /\ Counted /\ Tidy /\ Alone /\ Kept /\ Together /\ [Next]_vars
        => Together'
<1> SUFFICES ASSUME Typed, Fed, Counted, Tidy, Alone, Kept, Together,
                    [Next]_vars, Undisturbed'
             PROVE  Together'
  BY DEF Together
<1>1. IdleHoldsNothing
  BY DEF Counted
<1>2. CASE Called
  BY <1>1, <1>2, TogetherCall DEF Called
<1>3. CASE \E d \in Drivers : \E s \in Stages : RunStage(d, s)
  BY <1>1, <1>3, TogetherRunStage
<1> QED BY <1>1, <1>2, <1>3, TogetherQuiet

\* As long as drivers do not overlap, no Checkpoint is lost, and no second Run is
\* disturbed by a fault: when nobody is at work, what is stored of a run was made
\* from what is stored beside it, whichever calls made it.
THEOREM OutputsBelongTogetherHolds == Spec => []OutputsBelongTogether
<1>1. ASSUME Typed, Counted, Tidy, Together PROVE OutputsBelongTogether
  <2> SUFFICES ASSUME runState # NoRun, Undisturbed,
                      \A d \in Drivers : ~Active(d),
                      NEW s \in Skipped(runState), NEW t \in Inputs(s)
               PROVE  checkpoints[s].from[t] = checkpoints[t].by
    BY DEF OutputsBelongTogether, Undisturbed
  <2>1. /\ Coherent(runState) /\ Ordered(runState)
        /\ \A d \in Drivers : pending[d] = {}
    BY <1>1 DEF Together, Tidy, Counted, IdleHoldsNothing
  <2>2. s \in runState.completed /\ s \in Stages
    BY <1>1 DEF Skipped, Counted, CompleteIsWhole, Whole, Typed, TypeOK, RunState
  <2>3. t \in Stages /\ t \in runState.completed
    BY <2>1, <2>2, InputsAreEarlier DEF Ordered
  <2>4. ASSUME NEW u \in {s, t} PROVE Newest(u) = {checkpoints[u]}
    <3>1. checkpoints[u] # NoCheckpoint
      BY <1>1, <2>1, <2>2, <2>3
         DEF Counted, AllCovered, Covered, OnItsWay, Undisturbed
    <3> QED BY <2>1, <3>1 DEF Newest, InHand
  <2> QED BY <2>1, <2>2, <2>4 DEF Coherent, Fits
<1> QED BY <1>1, TypeInit, TypeStep, FedInit, FedStep, CountedInit, CountedStep,
           TidyInit, TidyStep, AloneInit, AloneStep, KeptInit, KeptStep,
           TogetherInit, TogetherStep, PTL DEF Spec, Counted


=============================================================================
