-------------------------- MODULE IngestionProofs --------------------------
(***************************************************************************)
(* Proofs about Ingestion, for any number of jobs, workers, callers and    *)
(* submitters, of stages, attempts and places in the queue, and every      *)
(* bound on calls and restarts.                                            *)
(***************************************************************************)
EXTENDS Ingestion, FiniteSetTheorems, TLAPS

-----------------------------------------------------------------------------
(* Where a process is, and what it holds.                                  *)

\* A stage is being run, saved or failed.
InStage == {"check", "retry", "running", "save", "failed", "fail", "bury", "report"}

Shape ==
    \A p \in Procs :
        /\ Active(p) => job[p] \in Jobs
        /\ pc[p] \in InStage => at[p] \in Stages
        /\ pc[p] # "running" => input[p] = "missing"
        /\ input[p] = "orphaned" => cleared[job[p]]

-----------------------------------------------------------------------------
(* The queue.  Once a worker has left, every job in it was sent late.      *)

QueueInv ==
    /\ ~closed => late = 0
    /\ (~cancelled /\ \E w \in Workers : At(w, "stopped")) => closed /\ Len(queue) = late

-----------------------------------------------------------------------------
(* Attempts.  A call that was begun is ahead of a stage until it makes an  *)
(* attempt that is the policy's last or comes after it.  That attempt is   *)
(* the one by which the call may exceed what the policy allows.  What it   *)
(* allows is granted by every record the stage has had; of the present one *)
(* only what was counted.                                                  *)

AheadOf(p, s) ==
    \/ pc[p] \in {"reset", "load"}
    \/ pc[p] \in {"check", "retry", "running", "save"} /\ at[p] < s
    \/ pc[p] \in {"check", "retry"} /\ at[p] = s
    \/ pc[p] = "running" /\ at[p] = s /\ attempt[p] < MaxAttempts

Ahead(j, s) == {p \in Procs : job[p] = j /\ AheadOf(p, s)}

Counted(n) == IF n < MaxAttempts - 1 THEN n ELSE MaxAttempts - 1

Allowed(j, s) == renewed[j][s] * (MaxAttempts - 1) + Counted(records[j][s].attempts)

RetryInv ==
    \A j \in Jobs, s \in Stages :
        /\ IsFiniteSet(Ahead(j, s))
        /\ made[j][s] + Cardinality(Ahead(j, s)) <= Allowed(j, s) + begun[j]

-----------------------------------------------------------------------------
(* What the stages left in the stash.  It only grows, and every stage that *)
(* is recorded is in it, as long as nothing empties it.                    *)

Kept(j) == restarts = 0 /\ ~cleared[j] /\ ~hollow[j]

StashInv ==
    /\ \A j \in Jobs : Kept(j) =>
         /\ checkpoint[j] \in Stages => Needs(checkpoint[j]) \subseteq stash[j]
         /\ \A s \in Stages \ {Intake} : records[j][s].completed => s \in stash[j]
    /\ \A p \in Procs : (pc[p] \in InStage /\ Kept(job[p])) =>
         /\ Needs(at[p]) \subseteq stash[job[p]]
         /\ (pc[p] = "save" /\ at[p] # Intake) => at[p] \in stash[job[p]]

-----------------------------------------------------------------------------
(* One call at a time.  A job that two calls never worked on at once is    *)
(* known from where the one call is.                                       *)

Alone(j) == restarts = 0 /\ ~overlapped[j]

Before(j, s) == \A k \in Intake .. s - 1 : records[j][k].completed

AloneInv ==
    \A p, q \in Procs :
        Active(p) /\ Active(q) /\ job[p] = job[q] /\ ~overlapped[job[p]] => p = q

BackedInv ==
    /\ \A j \in Jobs :
         (Alone(j) /\ ~cleared[j] /\ checkpoint[j] \in Stages) => Before(j, checkpoint[j])
    /\ \A p \in Procs : (Active(p) /\ Alone(job[p])) =>
         /\ pc[p] = "reset" => checkpoint[job[p]] = at[p]
         /\ (pc[p] \in InStage /\ ~cleared[job[p]]) => Before(job[p], at[p])
         /\ (pc[p] = "save" /\ ~cleared[job[p]]) => records[job[p]][at[p]].completed

-----------------------------------------------------------------------------
(* Failure.  A call leaves a checkpoint, then a dead letter, then the      *)
(* status; after an empty result the status comes first, and the stash is  *)
(* cleared last.                                                           *)

Recoverable(j) ==
    /\ checkpoint[j] # NoStage /\ letters[j] # NoStage
    /\ Runnable(j) \/ hollow[j] \/ cleared[j]

FailInv ==
    /\ FailedIsRecoverable
    /\ \A p \in Procs : (Active(p) /\ Alone(job[p])) =>
         /\ pc[p] = "bury" => checkpoint[job[p]] = at[p]
         /\ pc[p] = "buryEmpty" => checkpoint[job[p]] # NoStage
         /\ pc[p] = "report" => Recoverable(job[p])
         /\ pc[p] = "forget" => status[job[p]] # Failed
         /\ (pc[p] = "clear" /\ status[job[p]] = Failed) =>
              checkpoint[job[p]] # NoStage /\ letters[job[p]] # NoStage

-----------------------------------------------------------------------------
(* Type correctness.                                                       *)

\* What the stages are, in numbers.
LEMMA StageFacts ==
    /\ Last \in Nat /\ Last > 2
    /\ Stages = 1 .. Last /\ Stage = 0 .. Last + 1 /\ Stages \subseteq Stage
    /\ Intake = 1 /\ Intake \in Stages /\ Intake \in Stage
    /\ Extraction = 2 /\ Extraction \in Stages
    /\ Failed = 0 /\ Failed \in Stage /\ Failed \notin Stages
    /\ Complete = Last + 1 /\ Complete \in Stage /\ Complete \notin Stages
    /\ Last \in Stages
    /\ NoStage \notin Stage /\ NoStage \notin Stages
<1>1. Last \in Nat /\ Last > 2
  BY BoundsAssumption
<1> QED BY <1>1, NoStageAssumption DEF Stages, Stage, Intake, Extraction, Failed, Complete

\* A fresh record is a record of nothing completed and no attempt.
LEMMA FreshTyped ==
    /\ Fresh \in [completed : BOOLEAN, attempts : Nat]
    /\ Fresh.completed = FALSE /\ Fresh.attempts = 0
  BY DEF Fresh

\* Leaving a stage keeps the types.
LEMMA LeaveTyped ==
    ASSUME TypeOK, NEW p \in Procs, NEW where \in Places, Leave(p, where)
    PROVE  /\ pc' \in [Procs -> Places]
           /\ attempt' \in [Procs -> Nat]
           /\ input' \in [Procs -> {"held", "orphaned", "missing"}]
<1>1. pc' \in [Procs -> Places]
  BY DEF Leave, Goto, TypeOK
<1>2. attempt' \in [Procs -> Nat]
  BY DEF Leave, TypeOK
<1>3. input' \in [Procs -> {"held", "orphaned", "missing"}]
  BY DEF Leave, TypeOK
<1> QED BY <1>1, <1>2, <1>3

\* A call that returns keeps the types.
LEMMA FinishTyped ==
    ASSUME TypeOK, NEW p \in Procs, Finish(p)
    PROVE  /\ pc' \in [Procs -> Places]
           /\ job' \in [Procs -> Jobs \cup {NoJob}]
           /\ at' \in [Procs -> Stage]
           /\ attempt' \in [Procs -> Nat]
           /\ input' \in [Procs -> {"held", "orphaned", "missing"}]
<1>1. pc' \in [Procs -> Places]
  BY DEF Finish, Goto, TypeOK, Places
<1>2. job' \in [Procs -> Jobs \cup {NoJob}]
  BY DEF Finish, TypeOK
<1>3. at' \in [Procs -> Stage]
  BY StageFacts DEF Finish, TypeOK
<1>4. attempt' \in [Procs -> Nat]
  BY DEF Finish, TypeOK
<1>5. input' \in [Procs -> {"held", "orphaned", "missing"}]
  BY DEF Finish, TypeOK
<1> QED BY <1>1, <1>2, <1>3, <1>4, <1>5

\* A call that begins keeps the types.
LEMMA BeginTyped ==
    ASSUME TypeOK, NEW p \in Procs, NEW j \in Jobs, NEW where \in Places, Begin(p, j, where)
    PROVE  /\ pc' \in [Procs -> Places]
           /\ job' \in [Procs -> Jobs \cup {NoJob}]
           /\ begun' \in [Jobs -> Nat]
           /\ overlapped' \in [Jobs -> BOOLEAN]
<1>1. pc' \in [Procs -> Places]
  BY DEF Begin, Goto, TypeOK
<1>2. job' \in [Procs -> Jobs \cup {NoJob}]
  BY DEF Begin, TypeOK
<1>3. begun' \in [Jobs -> Nat]
  BY DEF Begin, TypeOK
<1>4. overlapped' \in [Jobs -> BOOLEAN]
  BY DEF Begin, TypeOK
<1> QED BY <1>1, <1>2, <1>3, <1>4

\* Writing one field of a stage's record.
LEMMA RecordTyped ==
    ASSUME TypeOK, NEW j \in Jobs, NEW s \in Stages,
           NEW new \in [completed : BOOLEAN, attempts : Nat],
           NEW next, next = [records EXCEPT ![j][s] = new], records' = next
    PROVE  /\ records' \in [Jobs -> [Stages -> [completed : BOOLEAN, attempts : Nat]]]
           /\ records'[j][s] = new
           /\ \A k \in Stages \ {s} : records'[j][k] = records[j][k]
           /\ \A i \in Jobs \ {j} : records'[i] = records[i]
<1> DEFINE row == [records[j] EXCEPT ![s] = new]
<1>1. row \in [Stages -> [completed : BOOLEAN, attempts : Nat]]
  BY DEF TypeOK
<1>2. row[s] = new /\ \A k \in Stages \ {s} : row[k] = records[j][k]
  BY DEF TypeOK
<1>3. records' = [records EXCEPT ![j] = row]
  OBVIOUS
<1> HIDE DEF row
<1> QED BY <1>1, <1>2, <1>3 DEF TypeOK

\* Counting an attempt writes that field of one record.
LEMMA AttemptWritten ==
    ASSUME TypeOK, NEW j \in Jobs, NEW s \in Stages, NEW n \in Nat,
           NEW next, next = [records EXCEPT ![j][s].attempts = n], records' = next
    PROVE  /\ records' \in [Jobs -> [Stages -> [completed : BOOLEAN, attempts : Nat]]]
           /\ records'[j][s].attempts = n
           /\ records'[j][s].completed = records[j][s].completed
           /\ \A k \in Stages \ {s} : records'[j][k] = records[j][k]
           /\ \A i \in Jobs \ {j} : records'[i] = records[i]
<1> DEFINE old == records[j][s]
           new == [old EXCEPT !.attempts = n]
<1>1. records' = [records EXCEPT ![j][s] = new]
  OBVIOUS
<1>2. old \in [completed : BOOLEAN, attempts : Nat]
  BY DEF TypeOK
<1>3. /\ new \in [completed : BOOLEAN, attempts : Nat]
      /\ new.attempts = n /\ new.completed = old.completed
  <2> HIDE DEF old
  <2> QED BY <1>2
<1>4. PICK row \in [completed : BOOLEAN, attempts : Nat] :
        /\ records' = [records EXCEPT ![j][s] = row]
        /\ row.attempts = n /\ row.completed = old.completed
  <2> HIDE DEF new, old
  <2> QED BY <1>1, <1>3
<1> HIDE DEF new
<1>5. /\ records' \in [Jobs -> [Stages -> [completed : BOOLEAN, attempts : Nat]]]
      /\ records'[j][s] = row
      /\ \A k \in Stages \ {s} : records'[j][k] = records[j][k]
      /\ \A i \in Jobs \ {j} : records'[i] = records[i]
  BY <1>4, RecordTyped
<1> QED BY <1>4, <1>5

\* Recording a stage as completed writes that field of one record.
LEMMA CompletionWritten ==
    ASSUME TypeOK, NEW j \in Jobs, NEW s \in Stages,
           NEW next, next = [records EXCEPT ![j][s].completed = TRUE], records' = next
    PROVE  /\ records' \in [Jobs -> [Stages -> [completed : BOOLEAN, attempts : Nat]]]
           /\ records'[j][s].attempts = records[j][s].attempts
           /\ \A k \in Stages \ {s} : records'[j][k] = records[j][k]
           /\ \A i \in Jobs \ {j} : records'[i] = records[i]
<1> DEFINE old == records[j][s]
           new == [old EXCEPT !.completed = TRUE]
<1>1. records' = [records EXCEPT ![j][s] = new]
  OBVIOUS
<1>2. old \in [completed : BOOLEAN, attempts : Nat]
  BY DEF TypeOK
<1>3. /\ new \in [completed : BOOLEAN, attempts : Nat]
      /\ new.attempts = old.attempts
  <2> HIDE DEF old
  <2> QED BY <1>2
<1>4. PICK row \in [completed : BOOLEAN, attempts : Nat] :
        /\ records' = [records EXCEPT ![j][s] = row]
        /\ row.attempts = old.attempts
  <2> HIDE DEF new, old
  <2> QED BY <1>1, <1>3
<1> HIDE DEF new
<1>5. /\ records' \in [Jobs -> [Stages -> [completed : BOOLEAN, attempts : Nat]]]
      /\ records'[j][s] = row
      /\ \A k \in Stages \ {s} : records'[j][k] = records[j][k]
      /\ \A i \in Jobs \ {j} : records'[i] = records[i]
  BY <1>4, RecordTyped
<1> QED BY <1>4, <1>5

\* The field that it writes.
LEMMA CompletionMarked ==
    ASSUME TypeOK, NEW j \in Jobs, NEW s \in Stages,
           records' = [records EXCEPT ![j][s].completed = TRUE]
    PROVE  records'[j][s].completed = TRUE
<1>1. /\ records \in [Jobs -> [Stages -> [completed : BOOLEAN, attempts : Nat]]]
      /\ records[j] \in [Stages -> [completed : BOOLEAN, attempts : Nat]]
      /\ records[j][s] \in [completed : BOOLEAN, attempts : Nat]
  BY DEF TypeOK
<1>2. records'[j][s] = [records[j][s] EXCEPT !.completed = TRUE]
  BY <1>1
<1> QED BY <1>1, <1>2

\* What a stage that succeeded leaves in the records.
LEMMA SuccessRecorded ==
    ASSUME TypeOK, Shape, NEW p \in Procs, NEW empty \in BOOLEAN, StageSucceeds(p, empty)
    PROVE  /\ records'[job[p]][at[p]].completed = TRUE
           /\ records'[job[p]][at[p]].attempts = records[job[p]][at[p]].attempts
           /\ \A k \in Stages \ {at[p]} : records'[job[p]][k] = records[job[p]][k]
           /\ \A i \in Jobs \ {job[p]} : records'[i] = records[i]
<1>1. job[p] \in Jobs /\ at[p] \in Stages
  BY DEF StageSucceeds, Shape, At, Active, InStage
<1>2. records' = [records EXCEPT ![job[p]][at[p]].completed = TRUE]
  BY DEF StageSucceeds
<1>3. PICK j \in Jobs, s \in Stages : j = job[p] /\ s = at[p]
  BY <1>1
<1>4. records' = [records EXCEPT ![j][s].completed = TRUE]
  BY <1>2, <1>3
<1>5. /\ records'[j][s].attempts = records[j][s].attempts
      /\ \A k \in Stages \ {s} : records'[j][k] = records[j][k]
      /\ \A i \in Jobs \ {j} : records'[i] = records[i]
  BY <1>4, CompletionWritten
<1>6. records'[j][s].completed = TRUE
  BY <1>4, CompletionMarked
<1> QED BY <1>3, <1>5, <1>6

\* The attempts made are counted one by one.
LEMMA MadeWritten ==
    ASSUME TypeOK, NEW j \in Jobs, NEW s \in Stages, made' = [made EXCEPT ![j][s] = @ + 1]
    PROVE  /\ made' \in [Jobs -> [Stages -> Nat]]
           /\ made'[j][s] = made[j][s] + 1
           /\ \A k \in Stages \ {s} : made'[j][k] = made[j][k]
           /\ \A i \in Jobs \ {j} : made'[i] = made[i]
  BY DEF TypeOK

\* How often attempts were forgotten is a number that does not shrink, and grows if any were.
LEMMA RenewedTyped ==
    ASSUME TypeOK, NEW j \in Jobs, NEW s \in Stages
    PROVE  /\ Renewed(j, s) \in Nat /\ renewed[j][s] \in Nat
           /\ \/ Renewed(j, s) = renewed[j][s] /\ records[j][s].attempts = 0
              \/ Renewed(j, s) = renewed[j][s] + 1
  BY DEF Renewed, TypeOK

\* The record of a stage is replaced by a fresh one.
Replaced(j, s) ==
    /\ records' = [records EXCEPT ![j][s] = Fresh]
    /\ renewed' = [renewed EXCEPT ![j][s] = Renewed(j, s)]

\* What replacing the record of a stage leaves in the records and in their history.
LEMMA RecordRenewed ==
    ASSUME TypeOK, NEW j \in Jobs, NEW s \in Stages, Replaced(j, s)
    PROVE  /\ renewed' \in [Jobs -> [Stages -> Nat]]
           /\ records'[j][s].attempts = 0 /\ renewed'[j][s] = Renewed(j, s)
           /\ \A k \in Stages \ {s} : /\ records'[j][k] = records[j][k]
                                      /\ renewed'[j][k] = renewed[j][k]
           /\ \A i \in Jobs \ {j} : records'[i] = records[i] /\ renewed'[i] = renewed[i]
<1> DEFINE n == Renewed(j, s)
<1>1. n \in Nat
  BY RenewedTyped
<1>2. records'[j][s] = Fresh
  BY RecordTyped, FreshTyped DEF Replaced
<1>3. /\ \A k \in Stages \ {s} : records'[j][k] = records[j][k]
      /\ \A i \in Jobs \ {j} : records'[i] = records[i]
  BY RecordTyped, FreshTyped DEF Replaced
<1> HIDE DEF n
<1>4. renewed' = [renewed EXCEPT ![j][s] = n]
  BY DEF n, Replaced
<1>5. /\ renewed' \in [Jobs -> [Stages -> Nat]] /\ renewed'[j][s] = n
      /\ \A k \in Stages \ {s} : renewed'[j][k] = renewed[j][k]
      /\ \A i \in Jobs \ {j} : renewed'[i] = renewed[i]
  BY <1>1, <1>4 DEF TypeOK
<1> QED BY <1>2, <1>3, <1>5, FreshTyped DEF n

\* What a call of a stage leaves in the records, and in the tally of attempts.
LEMMA AttemptCounted ==
    ASSUME TypeOK, NEW p \in Procs, CallStage(p), job[p] \in Jobs, at[p] \in Stages
    PROVE  /\ records'[job[p]][at[p]].attempts = records[job[p]][at[p]].attempts + 1
           /\ \A k \in Stages \ {at[p]} : records'[job[p]][k] = records[job[p]][k]
           /\ \A i \in Jobs \ {job[p]} : records'[i] = records[i]
           /\ made' \in [Jobs -> [Stages -> Nat]]
           /\ made'[job[p]][at[p]] = made[job[p]][at[p]] + 1
           /\ \A k \in Stages \ {at[p]} : made'[job[p]][k] = made[job[p]][k]
           /\ \A i \in Jobs \ {job[p]} : made'[i] = made[i]
<1>1. PICK j \in Jobs, s \in Stages, n \in Nat :
        j = job[p] /\ s = at[p] /\ n = records[j][s].attempts + 1
  BY DEF TypeOK
<1>2. records' = [records EXCEPT ![j][s].attempts = n]
  BY <1>1 DEF CallStage
<1>3. /\ records'[j][s].attempts = n
      /\ \A k \in Stages \ {s} : records'[j][k] = records[j][k]
      /\ \A i \in Jobs \ {j} : records'[i] = records[i]
  BY <1>2, AttemptWritten
<1>4. made' = [made EXCEPT ![j][s] = @ + 1]
  BY <1>1 DEF CallStage
<1>5. /\ made' \in [Jobs -> [Stages -> Nat]]
      /\ made'[j][s] = made[j][s] + 1
      /\ \A k \in Stages \ {s} : made'[j][k] = made[j][k]
      /\ \A i \in Jobs \ {j} : made'[i] = made[i]
  BY <1>4, MadeWritten
<1> QED BY <1>1, <1>3, <1>5

\* The records of a store that died are fresh ones.
LEMMA AllFresh ==
    LET blank == [j \in Jobs |-> [s \in Stages |-> Fresh]] IN
    /\ blank \in [Jobs -> [Stages -> [completed : BOOLEAN, attempts : Nat]]]
    /\ \A j \in Jobs, s \in Stages : ~blank[j][s].completed /\ blank[j][s].attempts = 0
  BY FreshTyped

\* The types and the shape hold at the start.
LEMMA TypeInit == Init => TypeOK /\ Shape
<1> SUFFICES ASSUME Init PROVE TypeOK /\ Shape
  OBVIOUS
<1>1. queue \in Seq(Jobs) /\ Len(queue) = 0
  BY DEF Init
<1>2. records \in [Jobs -> [Stages -> [completed : BOOLEAN, attempts : Nat]]]
  BY AllFresh DEF Init
<1>3. /\ pc \in [Procs -> Places] /\ job \in [Procs -> Jobs \cup {NoJob}]
      /\ at \in [Procs -> Stage] /\ attempt \in [Procs -> Nat]
      /\ input \in [Procs -> {"held", "orphaned", "missing"}]
  BY StageFacts DEF Init, Places
<1>4. TypeOK
  <2>1. Len(queue) <= Capacity /\ late \in 0 .. Len(queue)
    BY <1>1, BoundsAssumption DEF Init
  <2>2. enqueues \in 0 .. MaxEnqueues /\ calls \in 0 .. MaxCalls /\ restarts \in 0 .. MaxRestarts
    BY BoundsAssumption DEF Init
  <2>3. /\ status \in [Jobs -> Stage \cup {NoStage}]
        /\ checkpoint \in [Jobs -> Stage \cup {NoStage}]
        /\ letters \in [Jobs -> Stages \cup {NoStage}]
        /\ stash \in [Jobs -> SUBSET (Stages \ {Intake})]
    BY DEF Init
  <2>4. made \in [Jobs -> [Stages -> Nat]] /\ renewed \in [Jobs -> [Stages -> Nat]]
    BY DEF Init
  <2> QED BY <1>1, <1>2, <1>3, <2>1, <2>2, <2>3, <2>4 DEF Init, TypeOK
<1>5. Shape
  BY DEF Init, Shape, Active, InStage
<1> QED BY <1>4, <1>5

\* Every step keeps the types.
LEMMA TypeStep == TypeOK /\ Shape /\ [Next]_vars => TypeOK'
<1> SUFFICES ASSUME TypeOK, Shape, [Next]_vars PROVE TypeOK'
  OBVIOUS
<1>1. CASE UNCHANGED vars
  BY <1>1 DEF TypeOK, vars, queueVars, storeVars, procVars, callVars, historyVars
<1>2. ASSUME NEW s \in Submitters, Send(s) PROVE TypeOK'
  <2>1. sending[s] \in Jobs
    BY <1>2 DEF Send, TypeOK
  <2>2. /\ queue' \in Seq(Jobs) /\ Len(queue') = Len(queue) + 1
        /\ Len(queue') <= Capacity
    BY <1>2, <2>1, BoundsAssumption DEF Send, TypeOK
  <2>3. late' \in 0 .. Len(queue')
    BY <1>2, <2>2 DEF Send, TypeOK
  <2>4. sending' \in [Submitters -> Jobs \cup {NoJob}]
    BY <1>2 DEF Send, TypeOK
  <2> QED BY <1>2, <2>2, <2>3, <2>4 DEF Send, TypeOK, storeVars, procVars, callVars, historyVars
<1>3. ASSUME NEW s \in Submitters, Refuse(s) PROVE TypeOK'
  <2>1. sending' \in [Submitters -> Jobs \cup {NoJob}]
    BY <1>3 DEF Refuse, TypeOK
  <2> QED BY <1>3, <2>1 DEF Refuse, TypeOK, storeVars, procVars, callVars, historyVars
<1>4. ASSUME NEW s \in Submitters, NEW j \in Jobs, Enqueue(s, j) PROVE TypeOK'
  <2>1. sending' \in [Submitters -> Jobs \cup {NoJob}]
    BY <1>4 DEF Enqueue, TypeOK
  <2>2. enqueues' \in 0 .. MaxEnqueues
    BY <1>4, BoundsAssumption DEF Enqueue, TypeOK
  <2> QED BY <1>4, <2>1, <2>2 DEF Enqueue, TypeOK, storeVars, procVars, callVars, historyVars
<1>5. CASE Close
  BY <1>5 DEF Close, TypeOK, storeVars, procVars, callVars, historyVars
<1>6. CASE Cancel
  BY <1>6 DEF Cancel, TypeOK, storeVars, procVars, callVars, historyVars
<1>7. CASE Restart
  <2>1. queue' \in Seq(Jobs) /\ Len(queue') = 0
    BY <1>7 DEF Restart
  <2>2. records' \in [Jobs -> [Stages -> [completed : BOOLEAN, attempts : Nat]]]
    BY <1>7, AllFresh DEF Restart, TypeOK
  <2>3. restarts' \in 0 .. MaxRestarts
    BY <1>7, BoundsAssumption DEF Restart, TypeOK
  <2>4. /\ pc' \in [Procs -> Places] /\ job' \in [Procs -> Jobs \cup {NoJob}]
        /\ at' \in [Procs -> Stage] /\ attempt' \in [Procs -> Nat]
        /\ input' \in [Procs -> {"held", "orphaned", "missing"}]
    BY <1>7, StageFacts DEF Restart, Places
  <2>5. stash' \in [Jobs -> SUBSET (Stages \ {Intake})]
    BY <1>7 DEF Restart
  <2>6. Len(queue') <= Capacity /\ late' \in 0 .. Len(queue')
    BY <1>7, <2>1, BoundsAssumption DEF Restart
  <2>7. renewed' \in [Jobs -> [Stages -> Nat]]
    <3>1. CASE UNCHANGED renewed
      BY <3>1 DEF TypeOK
    <3>2. CASE renewed' = [j \in Jobs |-> [s \in Stages |-> Renewed(j, s)]]
      <4>1. \A j \in Jobs, s \in Stages : Renewed(j, s) \in Nat
        BY RenewedTyped
      <4> QED BY <3>2, <4>1
    <3> QED BY <1>7, <3>1, <3>2 DEF Restart
  <2> QED BY <1>7, <2>1, <2>2, <2>3, <2>4, <2>5, <2>6, <2>7 DEF Restart, TypeOK, callVars
<1>8. ASSUME NEW c \in Callers, NEW j \in Jobs, Process(c, j) PROVE TypeOK'
  <2>1. Begin(c, j, "load") /\ "load" \in Places /\ c \in Procs
    BY <1>8 DEF Process, Places, Procs
  <2>2. calls' \in 0 .. MaxCalls
    BY <1>8, BoundsAssumption DEF Process, TypeOK
  <2>3. /\ pc' \in [Procs -> Places] /\ job' \in [Procs -> Jobs \cup {NoJob}]
        /\ begun' \in [Jobs -> Nat] /\ overlapped' \in [Jobs -> BOOLEAN]
    BY <2>1, BeginTyped
  <2> QED BY <1>8, <2>1, <2>2, <2>3 DEF Process, Begin, TypeOK, queueVars, storeVars, historyVars
<1>9. ASSUME NEW c \in Callers, NEW j \in Jobs, Resume(c, j) PROVE TypeOK'
  <2>1. Begin(c, j, "reset") /\ "reset" \in Places /\ c \in Procs
    BY <1>9 DEF Resume, Places, Procs
  <2>2. calls' \in 0 .. MaxCalls
    BY <1>9, BoundsAssumption DEF Resume, TypeOK
  <2>3. checkpoint[j] \in Stage
    BY <1>9 DEF Resume, TypeOK
  <2>4. at' \in [Procs -> Stage]
    BY <1>9, <2>3 DEF Resume, TypeOK
  <2>5. /\ pc' \in [Procs -> Places] /\ job' \in [Procs -> Jobs \cup {NoJob}]
        /\ begun' \in [Jobs -> Nat] /\ overlapped' \in [Jobs -> BOOLEAN]
    BY <2>1, BeginTyped
  <2> QED BY <1>9, <2>1, <2>2, <2>4, <2>5 DEF Resume, Begin, TypeOK, queueVars, storeVars, historyVars
<1>10. ASSUME NEW p \in Procs, Step(p) PROVE TypeOK'
  <2>0. /\ Active(p) => job[p] \in Jobs
        /\ pc[p] \in InStage => at[p] \in Stages
    BY DEF Shape
  <2>1. CASE Reset(p)
    <3>1. job[p] \in Jobs
      BY <2>0, <2>1 DEF Reset, At, Active
    <3>2. CASE Finish(p) /\ UNCHANGED <<records, renewed>>
      BY <2>1, <3>2, FinishTyped DEF Reset, TypeOK, queueVars, callVars
    <3>3. CASE /\ \/ /\ at[p] \in Stages
                     /\ records' = [records EXCEPT ![job[p]][at[p]] = Fresh]
                     /\ renewed' = [renewed EXCEPT ![job[p]][at[p]] = Renewed(job[p], at[p])]
                  \/ UNCHANGED <<records, renewed>>
               /\ Goto(p, "load")
               /\ UNCHANGED <<job, at, attempt, input>>
      <4>1. records' \in [Jobs -> [Stages -> [completed : BOOLEAN, attempts : Nat]]]
        BY <3>1, <3>3, RecordTyped, FreshTyped DEF TypeOK
      <4>2. pc' \in [Procs -> Places]
        BY <3>3 DEF Goto, TypeOK, Places
      <4>3. renewed' \in [Jobs -> [Stages -> Nat]]
        <5>1. CASE at[p] \in Stages /\ Replaced(job[p], at[p])
          BY <3>1, <5>1, RecordRenewed
        <5> QED BY <3>3, <5>1 DEF Replaced, TypeOK
      <4> QED BY <2>1, <3>3, <4>1, <4>2, <4>3 DEF Reset, TypeOK, queueVars, callVars
    <3> QED BY <2>1, <3>2, <3>3 DEF Reset
  <2>2. CASE Load(p)
    <3> DEFINE from == IF checkpoint[job[p]] = NoStage THEN Intake ELSE checkpoint[job[p]]
    <3>1. job[p] \in Jobs
      BY <2>0, <2>2 DEF Load, At, Active
    <3>2. from \in Stage
      BY <3>1, StageFacts DEF TypeOK
    <3>3. /\ status' = [status EXCEPT ![job[p]] = from]
          /\ at' = [at EXCEPT ![p] = IF from \in Stages THEN from ELSE Intake]
      BY <2>2 DEF Load
    <3> HIDE DEF from
    <3>4. status' \in [Jobs -> Stage \cup {NoStage}]
      BY <3>2, <3>3 DEF TypeOK
    <3>5. at' \in [Procs -> Stage]
      BY <3>2, <3>3, StageFacts DEF TypeOK
    <3>6. pc' \in [Procs -> Places]
      BY <2>2 DEF Load, Goto, TypeOK, Places
    <3> QED BY <2>2, <3>4, <3>5, <3>6 DEF Load, TypeOK, queueVars, callVars, historyVars
  <2>3. CASE Skip(p)
    <3>1. pc' \in [Procs -> Places]
      BY <2>3 DEF Skip, Goto, TypeOK, Places
    <3> QED BY <2>3, <3>1 DEF Skip, TypeOK, queueVars, storeVars, callVars, historyVars
  <2>4. CASE CallStage(p)
    <3> DEFINE n == records[job[p]][at[p]].attempts + 1
               seen == IF Needs(at[p]) \subseteq stash[job[p]] THEN "held" ELSE "missing"
    <3>1. job[p] \in Jobs /\ at[p] \in Stages
      BY <2>0, <2>4 DEF CallStage, At, Active, InStage
    <3>2. n \in Nat
      BY <3>1 DEF TypeOK
    <3>3. /\ records' = [records EXCEPT ![job[p]][at[p]].attempts = n]
          /\ attempt' = [attempt EXCEPT ![p] = n]
          /\ input' = [input EXCEPT ![p] = seen]
      BY <2>4 DEF CallStage
    <3>4. seen \in {"held", "orphaned", "missing"}
      OBVIOUS
    <3> HIDE DEF n, seen
    <3>5. records' \in [Jobs -> [Stages -> [completed : BOOLEAN, attempts : Nat]]]
      BY <3>1, <3>2, <3>3, AttemptWritten
    <3>6. attempt' \in [Procs -> Nat]
      BY <3>2, <3>3 DEF TypeOK
    <3>7. input' \in [Procs -> {"held", "orphaned", "missing"}]
      BY <3>3, <3>4 DEF TypeOK
    <3>8. pc' \in [Procs -> Places]
      BY <2>4 DEF CallStage, Goto, TypeOK, Places
    <3>9. made' \in [Jobs -> [Stages -> Nat]]
      BY <2>4, <3>1, AttemptCounted
    <3> QED BY <2>4, <3>5, <3>6, <3>7, <3>8, <3>9 DEF CallStage, TypeOK, queueVars, callVars
  <2>5. ASSUME NEW empty \in BOOLEAN, StageSucceeds(p, empty) PROVE TypeOK'
    <3>1. job[p] \in Jobs /\ at[p] \in Stages
      BY <2>0, <2>5 DEF StageSucceeds, At, Active, InStage
    <3>2. records' \in [Jobs -> [Stages -> [completed : BOOLEAN, attempts : Nat]]]
      BY <2>5, <3>1, CompletionWritten DEF StageSucceeds
    <3>3. stash' \in [Jobs -> SUBSET (Stages \ {Intake})]
      <4> DEFINE kept == IF empty THEN stash[job[p]] \ {at[p]} ELSE stash[job[p]] \cup {at[p]}
      <4>1. stash' = stash \/ (at[p] # Intake /\ stash' = [stash EXCEPT ![job[p]] = kept])
        BY <2>5 DEF StageSucceeds
      <4>2. at[p] # Intake => kept \in SUBSET (Stages \ {Intake})
        BY <3>1 DEF TypeOK
      <4> HIDE DEF kept
      <4> QED BY <4>1, <4>2 DEF TypeOK
    <3>4. hollow' \in [Jobs -> BOOLEAN]
      BY <2>5 DEF StageSucceeds, TypeOK
    <3>5. /\ pc' \in [Procs -> Places] /\ attempt' \in [Procs -> Nat]
          /\ input' \in [Procs -> {"held", "orphaned", "missing"}]
      <4>1. Leave(p, "save") /\ "save" \in Places
        BY <2>5 DEF StageSucceeds, Places
      <4> QED BY <4>1, LeaveTyped
    <3> QED BY <2>5, <3>2, <3>3, <3>4, <3>5 DEF StageSucceeds, TypeOK, queueVars, callVars
  <2>6. CASE StageFails(p)
    <3>1. /\ pc' \in [Procs -> Places] /\ attempt' \in [Procs -> Nat]
          /\ input' \in [Procs -> {"held", "orphaned", "missing"}]
      <4>1. PICK where \in Places : Leave(p, where)
        BY <2>6 DEF StageFails, Places
      <4> QED BY <4>1, LeaveTyped
    <3> QED BY <2>6, <3>1 DEF StageFails, TypeOK, queueVars, storeVars, callVars, historyVars
  <2>7. CASE Save(p)
    <3>1. at[p] \in Stages /\ at[p] + 1 \in Stage
      BY <2>0, <2>7, StageFacts DEF Save, At, InStage
    <3>2. /\ status' \in [Jobs -> Stage \cup {NoStage}]
          /\ checkpoint' \in [Jobs -> Stage \cup {NoStage}]
      BY <2>7, <3>1 DEF Save, TypeOK
    <3>3. at' \in [Procs -> Stage]
      BY <2>7, <3>1 DEF Save, TypeOK
    <3>4. pc' \in [Procs -> Places]
      BY <2>7 DEF Save, Goto, TypeOK, Places
    <3> QED BY <2>7, <3>2, <3>3, <3>4 DEF Save, TypeOK, queueVars, callVars, historyVars
  <2>8. CASE Fail(p)
    <3>1. checkpoint' \in [Jobs -> Stage \cup {NoStage}]
      BY <2>8 DEF Fail, TypeOK
    <3>2. pc' \in [Procs -> Places]
      BY <2>8 DEF Fail, Goto, TypeOK, Places
    <3> QED BY <2>8, <3>1, <3>2 DEF Fail, TypeOK, queueVars, callVars, historyVars
  <2>17. CASE ShowFailed(p)
    <3>1. at[p] \in Stages
      BY <2>0, <2>17 DEF ShowFailed, At, InStage
    <3>2. status' \in [Jobs -> Stage \cup {NoStage}]
      BY <2>17, <3>1, StageFacts DEF ShowFailed, TypeOK
    <3>3. pc' \in [Procs -> Places]
      BY <2>17 DEF ShowFailed, Goto, TypeOK, Places
    <3> QED BY <2>17, <3>2, <3>3 DEF ShowFailed, TypeOK, queueVars, callVars, historyVars
  <2>18. CASE FailEmpty(p)
    <3>1. checkpoint' \in [Jobs -> Stage \cup {NoStage}]
      BY <2>18, StageFacts DEF FailEmpty, TypeOK
    <3>2. pc' \in [Procs -> Places]
      BY <2>18 DEF FailEmpty, Goto, TypeOK, Places
    <3> QED BY <2>18, <3>1, <3>2 DEF FailEmpty, TypeOK, queueVars, callVars, historyVars
  <2>9. CASE Bury(p)
    <3>1. at[p] \in Stages
      BY <2>0, <2>9 DEF Bury, At, InStage
    <3>2. letters' \in [Jobs -> Stages \cup {NoStage}]
      BY <2>9, <3>1 DEF Bury, TypeOK
    <3>3. pc' \in [Procs -> Places]
      BY <2>9 DEF Bury, Goto, TypeOK, Places
    <3> QED BY <2>9, <3>2, <3>3 DEF Bury, TypeOK, queueVars, callVars, historyVars
  <2>10. CASE Report(p)
    <3>1. status' \in [Jobs -> Stage \cup {NoStage}]
      BY <2>10, StageFacts DEF Report, TypeOK
    <3> QED BY <2>10, <3>1, FinishTyped DEF Report, TypeOK, queueVars, callVars, historyVars
  <2>11. CASE Collect(p)
    <3>1. status' \in [Jobs -> Stage \cup {NoStage}]
      <4>1. Failed \in Stage /\ Complete \in Stage
        BY StageFacts
      <4>2. status \in [Jobs -> Stage \cup {NoStage}]
        BY DEF TypeOK
      <4>3. CASE Last \in stash[job[p]]
        BY <2>11, <4>1, <4>2, <4>3 DEF Collect
      <4>4. CASE Last \notin stash[job[p]]
        BY <2>11, <4>1, <4>2, <4>4 DEF Collect
      <4> QED BY <4>3, <4>4
    <3>2. pc' \in [Procs -> Places]
      BY <2>11 DEF Collect, Goto, TypeOK, Places
    <3> QED BY <2>11, <3>1, <3>2 DEF Collect, TypeOK, queueVars, callVars, historyVars
  <2>12. CASE BuryEmpty(p)
    <3>1. letters' \in [Jobs -> Stages \cup {NoStage}]
      BY <2>12, StageFacts DEF BuryEmpty, TypeOK
    <3>2. pc' \in [Procs -> Places]
      BY <2>12 DEF BuryEmpty, Goto, TypeOK, Places
    <3> QED BY <2>12, <3>1, <3>2 DEF BuryEmpty, TypeOK, queueVars, callVars, historyVars
  <2>13. CASE Forget(p)
    <3>1. checkpoint' \in [Jobs -> Stage \cup {NoStage}]
      BY <2>13 DEF Forget, TypeOK
    <3>2. pc' \in [Procs -> Places]
      BY <2>13 DEF Forget, Goto, TypeOK, Places
    <3> QED BY <2>13, <3>1, <3>2 DEF Forget, TypeOK, queueVars, callVars, historyVars
  <2>14. CASE ClearStash(p)
    <3>1. stash' \in [Jobs -> SUBSET (Stages \ {Intake})]
      BY <2>14 DEF ClearStash, TypeOK
    <3>2. input' \in [Procs -> {"held", "orphaned", "missing"}]
      BY <2>14 DEF ClearStash, TypeOK
    <3>3. cleared' \in [Jobs -> BOOLEAN]
      BY <2>14 DEF ClearStash, TypeOK
    <3>4. pc' \in [Procs -> Places] /\ job' \in [Procs -> Jobs \cup {NoJob}]
      BY <2>14 DEF ClearStash, Goto, TypeOK, Places
    <3>5. at' \in [Procs -> Stage] /\ attempt' \in [Procs -> Nat]
      BY <2>14, StageFacts DEF ClearStash, TypeOK
    <3> QED BY <2>14, <3>1, <3>2, <3>3, <3>4, <3>5
          DEF ClearStash, TypeOK, queueVars, storeVars, callVars
  <2>15. CASE Dequeue(p)
    <3>1. Begin(p, Head(queue), "load") /\ "load" \in Places
      BY <2>15 DEF Dequeue, Places
    <3>2. /\ Head(queue) \in Jobs /\ queue' \in Seq(Jobs)
          /\ Len(queue') = Len(queue) - 1 /\ Len(queue) \in Nat \ {0}
      BY <2>15 DEF Dequeue, TypeOK
    <3>3. Len(queue') <= Capacity /\ late' \in 0 .. Len(queue')
      <4>1. Capacity \in Nat /\ late \in 0 .. Len(queue) /\ Len(queue) <= Capacity
        BY BoundsAssumption DEF TypeOK
      <4>2. late' = IF late = Len(queue) THEN late - 1 ELSE late
        BY <2>15 DEF Dequeue
      <4> HIDE DEF TypeOK
      <4> QED BY <3>2, <4>1, <4>2
    <3>4. /\ pc' \in [Procs -> Places] /\ job' \in [Procs -> Jobs \cup {NoJob}]
          /\ begun' \in [Jobs -> Nat] /\ overlapped' \in [Jobs -> BOOLEAN]
      BY <3>1, <3>2, BeginTyped
    <3> QED BY <2>15, <3>1, <3>2, <3>3, <3>4 DEF Dequeue, Begin, TypeOK, storeVars, historyVars
  <2>16. CASE Stop(p)
    <3>1. pc' \in [Procs -> Places]
      BY <2>16 DEF Stop, Goto, TypeOK, Places
    <3> QED BY <2>16, <3>1 DEF Stop, TypeOK, queueVars, storeVars, callVars, historyVars
  <2> QED BY <1>10, <2>1, <2>2, <2>3, <2>4, <2>5, <2>6, <2>7, <2>8, <2>9, <2>10, <2>11,
             <2>12, <2>13, <2>14, <2>15, <2>16, <2>17, <2>18 DEF Step
<1> QED BY <1>1, <1>2, <1>3, <1>4, <1>5, <1>6, <1>7, <1>8, <1>9, <1>10 DEF Next

-----------------------------------------------------------------------------
(* What a step leaves alone.                                               *)

\* What another process holds; its input may become one of a cleared stash.
Same(q) == pc'[q] = pc[q] /\ job'[q] = job[q] /\ at'[q] = at[q] /\ attempt'[q] = attempt[q]

\* A step of a process, whichever it is.
Moves(p) ==
    \/ Step(p)
    \/ \E j \in Jobs : p \in Callers /\ (Process(p, j) \/ Resume(p, j))

\* A step of nobody in particular leaves what the processes and stores hold.
Outside ==
    \/ \E s \in Submitters : Send(s) \/ Refuse(s) \/ \E j \in Jobs : Enqueue(s, j)
    \/ Close \/ Cancel

\* Every step is one of a process, one outside of them, a restart or a stutter.
LEMMA Cases ==
    [Next]_vars => UNCHANGED vars \/ Outside \/ Restart \/ \E p \in Procs : Moves(p)
  BY DEF Next, Outside, Moves, Procs

\* The queue's own steps leave the processes and the stores alone.
LEMMA OutsideLeaves ==
    ASSUME UNCHANGED vars \/ Outside
    PROVE  UNCHANGED <<storeVars, stash, procVars, callVars, restarts, historyVars>>
<1>1. CASE UNCHANGED vars
  BY <1>1 DEF vars
<1>2. CASE Outside
  BY <1>2 DEF Outside, Send, Refuse, Enqueue, Close, Cancel
<1> QED BY <1>1, <1>2

\* A step of one process leaves the others where they are.
LEMMA OthersStay ==
    ASSUME TypeOK, NEW p \in Procs, Moves(p)
    PROVE  \A q \in Procs \ {p} : Same(q)
<1>1. ASSUME NEW j, NEW where, Begin(p, j, where) PROVE \A q \in Procs \ {p} :
                pc'[q] = pc[q] /\ job'[q] = job[q] /\ attempt'[q] = attempt[q]
  BY <1>1 DEF Begin, Goto, TypeOK
<1>2. ASSUME NEW where, Goto(p, where), UNCHANGED <<job, attempt>> PROVE \A q \in Procs \ {p} :
                pc'[q] = pc[q] /\ job'[q] = job[q] /\ attempt'[q] = attempt[q]
  BY <1>2 DEF Goto, TypeOK
<1>3. ASSUME NEW where, Leave(p, where), UNCHANGED job PROVE \A q \in Procs \ {p} :
                pc'[q] = pc[q] /\ job'[q] = job[q] /\ attempt'[q] = attempt[q]
  BY <1>3 DEF Leave, Goto, TypeOK
<1>4. ASSUME Finish(p) PROVE \A q \in Procs \ {p} : Same(q)
  BY <1>4 DEF Finish, Goto, TypeOK, Same
<1>5. ASSUME UNCHANGED at PROVE \A q \in Procs \ {p} : at'[q] = at[q]
  BY <1>5
<1>6. ASSUME NEW s, at' = [at EXCEPT ![p] = s] PROVE \A q \in Procs \ {p} : at'[q] = at[q]
  BY <1>6 DEF TypeOK
<1>7. CASE \E j \in Jobs : p \in Callers /\ (Process(p, j) \/ Resume(p, j))
  BY <1>1, <1>5, <1>6, <1>7 DEF Process, Resume, Same
<1>8. CASE Dequeue(p)
  BY <1>1, <1>5, <1>8 DEF Dequeue, Same
<1>9. CASE Reset(p)
  BY <1>2, <1>4, <1>5, <1>9 DEF Reset, Same
<1>10. CASE Load(p)
  BY <1>2, <1>6, <1>10 DEF Load, Same
<1>11. CASE \/ Skip(p) \/ ShowFailed(p) \/ Fail(p) \/ Bury(p) \/ FailEmpty(p) \/ BuryEmpty(p)
            \/ Forget(p) \/ Stop(p)
  BY <1>2, <1>5, <1>11 DEF Skip, ShowFailed, Fail, Bury, FailEmpty, BuryEmpty, Forget, Stop, Same
<1>12. CASE CallStage(p)
  BY <1>12 DEF CallStage, Goto, TypeOK, Same
<1>13. CASE (\E empty \in BOOLEAN : StageSucceeds(p, empty)) \/ StageFails(p)
  BY <1>3, <1>5, <1>13 DEF StageSucceeds, StageFails, Same
<1>14. CASE Save(p)
  BY <1>2, <1>6, <1>14 DEF Save, Same
<1>15. CASE Report(p)
  BY <1>4, <1>15 DEF Report
<1>16. CASE Collect(p)
  <2>1. Goto(p, "forget") \/ Goto(p, "failEmpty")
    BY <1>16 DEF Collect
  <2>2. UNCHANGED <<job, at, attempt>>
    BY <1>16 DEF Collect
  <2> QED BY <1>2, <1>5, <2>1, <2>2 DEF Same
<1>17. CASE ClearStash(p)
  BY <1>17 DEF ClearStash, Goto, TypeOK, Same
<1> QED BY <1>7, <1>8, <1>9, <1>10, <1>11, <1>12, <1>13, <1>14, <1>15, <1>16, <1>17
      DEF Moves, Step

\* What a step takes back: nothing of the history.
LEMMA HistoryGrows ==
    ASSUME TypeOK, [Next]_vars
    PROVE  /\ restarts' = 0 => restarts = 0
           /\ \A j \in Jobs : /\ ~overlapped'[j] => ~overlapped[j]
                              /\ ~cleared'[j] => ~cleared[j]
                              /\ ~hollow'[j] => ~hollow[j]
                              /\ begun'[j] >= begun[j]
<1>1. ASSUME UNCHANGED <<callVars, cleared, hollow>> PROVE
           \A j \in Jobs : /\ ~overlapped'[j] => ~overlapped[j]
                           /\ ~cleared'[j] => ~cleared[j]
                           /\ ~hollow'[j] => ~hollow[j]
                           /\ begun'[j] >= begun[j]
  BY <1>1 DEF callVars, TypeOK
<1>2. ASSUME NEW p \in Procs, NEW i, NEW where, Begin(p, i, where) PROVE
           /\ restarts' = restarts
           /\ \A j \in Jobs : /\ ~overlapped'[j] => ~overlapped[j]
                              /\ ~cleared'[j] => ~cleared[j]
                              /\ ~hollow'[j] => ~hollow[j]
                              /\ begun'[j] >= begun[j]
  BY <1>2 DEF Begin, historyVars, TypeOK
<1>3. CASE UNCHANGED vars \/ Outside
  <2>1. UNCHANGED <<storeVars, stash, procVars, callVars, restarts, historyVars>>
    BY <1>3, OutsideLeaves
  <2> QED BY <2>1, <1>1 DEF historyVars
<1>4. CASE Restart
  BY <1>1, <1>4 DEF Restart, TypeOK
<1>5. ASSUME NEW p \in Procs, Moves(p) PROVE
           /\ restarts' = restarts
           /\ \A j \in Jobs : /\ ~overlapped'[j] => ~overlapped[j]
                              /\ ~cleared'[j] => ~cleared[j]
                              /\ ~hollow'[j] => ~hollow[j]
                              /\ begun'[j] >= begun[j]
  <2>1. CASE \E j \in Jobs : p \in Callers /\ (Process(p, j) \/ Resume(p, j))
    BY <1>2, <2>1 DEF Process, Resume
  <2>2. CASE Dequeue(p)
    BY <1>2, <2>2 DEF Dequeue
  <2>3. CASE \E empty \in BOOLEAN : StageSucceeds(p, empty)
    BY <2>3 DEF StageSucceeds, callVars, TypeOK
  <2>4. CASE ClearStash(p)
    BY <2>4 DEF ClearStash, callVars, TypeOK
  <2>5. CASE Reset(p) \/ Load(p) \/ Skip(p) \/ CallStage(p) \/ StageFails(p) \/ Save(p) \/ Fail(p)
    BY <1>1, <2>5 DEF Reset, Load, Skip, CallStage, StageFails, Save, Fail, historyVars
  <2>6. CASE \/ ShowFailed(p) \/ Bury(p) \/ Report(p) \/ Collect(p) \/ FailEmpty(p) \/ BuryEmpty(p)
             \/ Forget(p) \/ Stop(p)
    BY <1>1, <2>6 DEF ShowFailed, Bury, Report, Collect, FailEmpty, BuryEmpty, Forget, Stop, historyVars
  <2> QED BY <1>5, <2>1, <2>2, <2>3, <2>4, <2>5, <2>6 DEF Moves, Step
<1> QED BY <1>3, <1>4, <1>5, Cases

\* Where a process is after a step of its own.
LEMMA OwnStep ==
    ASSUME TypeOK, Shape, NEW p \in Procs, Moves(p)
    PROVE  /\ Active(p)' => job'[p] \in Jobs
           /\ pc'[p] \in InStage => at'[p] \in Stages
           /\ pc'[p] # "running" => input'[p] = "missing"
           /\ input'[p] # "orphaned"
<1>0. /\ Active(p) => job[p] \in Jobs
      /\ pc[p] \in InStage => at[p] \in Stages
      /\ pc[p] # "running" => input[p] = "missing"
  BY DEF Shape
<1>1. ASSUME NEW where \in {"load", "reset"}, NEW j \in Jobs, Begin(p, j, where) PROVE
         /\ job'[p] \in Jobs /\ pc'[p] = where /\ pc[p] = "idle"
  BY <1>1 DEF Begin, At, Goto, TypeOK
<1>2. ASSUME NEW where, Goto(p, where), UNCHANGED <<job, input>>, Active(p), pc[p] # "running"
      PROVE  /\ job'[p] \in Jobs /\ pc'[p] = where /\ input'[p] = "missing"
  BY <1>0, <1>2 DEF Goto, TypeOK
<1>3. ASSUME NEW where, Leave(p, where), UNCHANGED <<job, at>>, At(p, "running"), where # "running"
      PROVE  /\ job'[p] \in Jobs /\ pc'[p] = where /\ at'[p] \in Stages /\ input'[p] = "missing"
  BY <1>0, <1>3 DEF Leave, Goto, At, Active, InStage, TypeOK
<1>4. ASSUME Finish(p) PROVE pc'[p] = "idle" /\ input'[p] = "missing"
  BY <1>4 DEF Finish, Goto, TypeOK
<1>5. CASE \E j \in Jobs : p \in Callers /\ (Process(p, j) \/ Resume(p, j))
  <2>1. PICK j \in Jobs : Process(p, j) \/ Resume(p, j)
    BY <1>5
  <2>2. PICK where \in {"load", "reset"} : Begin(p, j, where) /\ UNCHANGED input
    BY <2>1 DEF Process, Resume
  <2> QED BY <1>0, <1>1, <2>2 DEF InStage
<1>6. CASE Dequeue(p)
  <2>1. Head(queue) \in Jobs /\ Begin(p, Head(queue), "load") /\ UNCHANGED input
    BY <1>6 DEF Dequeue, TypeOK
  <2> QED BY <1>0, <1>1, <2>1 DEF InStage
<1>7. CASE Reset(p)
  BY <1>2, <1>4, <1>7 DEF Reset, At, Active, InStage
<1>8. CASE Load(p)
  <2>1. at'[p] \in Stages
    BY <1>8, StageFacts DEF Load, TypeOK
  <2> QED BY <1>2, <1>8, <2>1 DEF Load, At, Active
<1>9. CASE Skip(p) \/ ShowFailed(p) \/ Fail(p) \/ Bury(p)
  BY <1>0, <1>2, <1>9 DEF Skip, ShowFailed, Fail, Bury, At, Active, InStage
<1>10. CASE CallStage(p)
  BY <1>0, <1>10 DEF CallStage, Goto, At, Active, InStage, TypeOK
<1>11. CASE \E empty \in BOOLEAN : StageSucceeds(p, empty)
  BY <1>3, <1>11 DEF StageSucceeds
<1>12. CASE StageFails(p)
  <2>1. PICK where \in {"failed", "retry"} : Leave(p, where)
    BY <1>12 DEF StageFails
  <2> QED BY <1>3, <1>12, <2>1 DEF StageFails
<1>13. CASE Save(p)
  <2>1. at[p] \in Stages
    BY <1>0, <1>13 DEF Save, At, InStage
  <2>2. at'[p] = at[p] + 1
    BY <1>13 DEF Save, TypeOK
  <2>3. PICK where \in {"check", "collect"} : Goto(p, where) /\ (where = "check" => at[p] + 1 # Complete)
    BY <1>13 DEF Save
  <2>4. where = "check" => at'[p] \in Stages
    BY <2>1, <2>2, <2>3, StageFacts
  <2>5. pc'[p] = where /\ job'[p] \in Jobs /\ input'[p] = "missing"
    BY <1>2, <1>13, <2>3 DEF Save, At, Active
  <2> QED BY <2>3, <2>4, <2>5 DEF InStage
<1>14. CASE Report(p)
  BY <1>4, <1>14 DEF Report, Active, InStage
<1>15. CASE Collect(p)
  <2>1. PICK where \in {"forget", "failEmpty"} : Goto(p, where)
    BY <1>15 DEF Collect
  <2> QED BY <1>2, <1>15, <2>1 DEF Collect, At, Active, InStage
<1>16. CASE FailEmpty(p) \/ BuryEmpty(p) \/ Forget(p)
  BY <1>2, <1>16 DEF FailEmpty, BuryEmpty, Forget, At, Active, InStage
<1>17. CASE ClearStash(p)
  BY <1>17 DEF ClearStash, Goto, Active, InStage, TypeOK
<1>18. CASE Stop(p)
  BY <1>0, <1>18 DEF Stop, At, Goto, Active, InStage, TypeOK
<1> QED BY <1>5, <1>6, <1>7, <1>8, <1>9, <1>10, <1>11, <1>12, <1>13, <1>14, <1>15, <1>16, <1>17,
           <1>18 DEF Moves, Step

\* The input of another process changes only when the stash is cleared under it.
LEMMA OthersInput ==
    ASSUME TypeOK, Shape, NEW p \in Procs, Moves(p), NEW q \in Procs \ {p}
    PROVE  \/ input'[q] = input[q]
           \/ input[q] = "held" /\ cleared'[job[q]]
<1>1. CASE ClearStash(p)
  <2>1. input'[q] = input[q] \/ (input[q] = "held" /\ job[q] = job[p])
    BY <1>1 DEF ClearStash, TypeOK
  <2>2. cleared' = [cleared EXCEPT ![job[p]] = TRUE] /\ job[p] \in Jobs
    BY <1>1 DEF ClearStash, Shape, At, Active
  <2> QED BY <2>1, <2>2 DEF TypeOK
<1>2. ASSUME NEW seen, input' = [input EXCEPT ![p] = seen] PROVE input'[q] = input[q]
  BY <1>2 DEF TypeOK
<1>3. CASE (\E empty \in BOOLEAN : StageSucceeds(p, empty)) \/ StageFails(p)
  BY <1>2, <1>3 DEF StageSucceeds, StageFails, Leave
<1>4. CASE Report(p) \/ Reset(p) \/ CallStage(p)
  BY <1>2, <1>4 DEF Report, Reset, Finish, CallStage
<1>5. CASE \/ Load(p) \/ Skip(p) \/ Save(p) \/ ShowFailed(p) \/ Fail(p) \/ Bury(p) \/ Collect(p)
           \/ FailEmpty(p) \/ BuryEmpty(p) \/ Forget(p) \/ Dequeue(p) \/ Stop(p)
  BY <1>5 DEF Load, Skip, Save, ShowFailed, Fail, Bury, Collect, FailEmpty, BuryEmpty, Forget, Dequeue,
              Stop
<1>6. CASE \E j \in Jobs : p \in Callers /\ (Process(p, j) \/ Resume(p, j))
  BY <1>6 DEF Process, Resume
<1> QED BY <1>1, <1>3, <1>4, <1>5, <1>6 DEF Moves, Step

\* Every step keeps the shape.
LEMMA ShapeStep == TypeOK /\ Shape /\ [Next]_vars => Shape'
<1> SUFFICES ASSUME TypeOK, Shape, [Next]_vars PROVE Shape'
  OBVIOUS
<1>1. CASE UNCHANGED vars \/ Outside
  <2>1. UNCHANGED <<storeVars, stash, procVars, callVars, restarts, historyVars>>
    BY <1>1, OutsideLeaves
  <2> QED BY <2>1 DEF Shape, Active, procVars, historyVars
<1>2. CASE Restart
  BY <1>2 DEF Restart, Shape, Active, InStage
<1>3. ASSUME NEW p \in Procs, Moves(p) PROVE Shape'
  <2> DEFINE Held(q) == /\ Active(q) => job[q] \in Jobs
                        /\ pc[q] \in InStage => at[q] \in Stages
                        /\ pc[q] # "running" => input[q] = "missing"
                        /\ input[q] = "orphaned" => cleared[job[q]]
  <2>1. Held(p)'
    BY <1>3, OwnStep
  <2>2. ASSUME NEW q \in Procs \ {p} PROVE Held(q)'
    <3>1. Same(q)
      BY <1>3, OthersStay
    <3>2. input'[q] = input[q] \/ (input[q] = "held" /\ cleared'[job[q]])
      BY <1>3, OthersInput
    <3>3. \A j \in Jobs : cleared[j] => cleared'[j]
      <4>1. \A j \in Jobs : ~cleared'[j] => ~cleared[j]
        BY HistoryGrows
      <4> QED BY <4>1
    <3>4. Held(q)
      BY DEF Shape
    <3>5. input[q] # "missing" => job[q] \in Jobs
      BY <3>4 DEF Active
    <3> QED BY <3>1, <3>2, <3>3, <3>4, <3>5 DEF Same, Active, InStage
  <2> HIDE DEF Held
  <2>3. \A q \in Procs : Held(q)'
    BY <2>1, <2>2
  <2> QED BY <2>3 DEF Held, Shape
<1> QED BY <1>1, <1>2, <1>3, Cases

\* What every state of a run satisfies, whatever is proved of it.
BaseInv == TypeOK /\ Shape

\* The types and the shape hold in every reachable state (the handlers of
\* orchestrator.go and retry.go as the model takes them).
THEOREM Base == Spec => []BaseInv
<1>1. Init => BaseInv
  BY TypeInit DEF BaseInv
<1>2. BaseInv /\ [Next]_vars => BaseInv'
  BY TypeStep, ShapeStep DEF BaseInv
<1> QED BY <1>1, <1>2, PTL DEF Spec

\* In every reachable state every variable holds a value of its type: the queue is
\* within its capacity, a letter names a stage, nothing is kept of the intake.
THEOREM TypeCorrect == Spec => []TypeOK
<1>1. BaseInv => TypeOK
  BY DEF BaseInv
<1> QED BY Base, <1>1, PTL

-----------------------------------------------------------------------------
(* The queue.                                                              *)

\* Once a worker has left Run, what is in the queue was sent after Close: a worker
\* leaves only a closed and drained queue.
THEOREM SentInTimeIsTaken == Spec => []AcceptedIsTaken
<1>1. Init => QueueInv
  BY DEF Init, QueueInv, At, Procs
<1>2. BaseInv /\ QueueInv /\ [Next]_vars => QueueInv'
  <2> SUFFICES ASSUME BaseInv, QueueInv, [Next]_vars PROVE QueueInv'
    OBVIOUS
  <2>0. /\ queue \in Seq(Jobs) /\ Len(queue) \in Nat /\ late \in 0 .. Len(queue)
        /\ TypeOK /\ Workers \subseteq Procs
    BY DEF BaseInv, TypeOK, Procs
  <2>1. ASSUME UNCHANGED <<queue, closed, cancelled, late>>,
               \A w \in Workers : At(w, "stopped")' => At(w, "stopped")
        PROVE  QueueInv'
    BY <2>1 DEF QueueInv
  <2>2. ASSUME NEW where, NEW p \in Procs, Goto(p, where), where # "stopped"
        PROVE  \A w \in Workers : At(w, "stopped")' => At(w, "stopped")
    BY <2>0, <2>2 DEF Goto, At, TypeOK
  <2>3. CASE UNCHANGED vars
    BY <2>1, <2>3 DEF vars, queueVars, procVars, At
  <2>4. ASSUME NEW s \in Submitters, Send(s) PROVE QueueInv'
    <3>1. sending[s] \in Jobs
      BY <2>0, <2>4 DEF Send, TypeOK
    <3>2. Len(queue') = Len(queue) + 1
      BY <2>0, <2>4, <3>1 DEF Send
    <3> QED BY <2>0, <2>4, <3>2 DEF Send, QueueInv, procVars, At
  <2>5. ASSUME NEW s \in Submitters, Refuse(s) \/ \E j \in Jobs : Enqueue(s, j) PROVE QueueInv'
    BY <2>1, <2>5 DEF Refuse, Enqueue, procVars, At
  <2>6. CASE Close \/ Cancel
    BY <2>6 DEF Close, Cancel, QueueInv, procVars, At
  <2>7. CASE Restart
    BY <2>0, <2>7 DEF Restart, QueueInv, At
  <2>8. ASSUME NEW p \in Procs, NEW j \in Jobs, NEW where \in {"load", "reset"}, Begin(p, j, where)
        PROVE  \A w \in Workers : At(w, "stopped")' => At(w, "stopped")
    BY <2>2, <2>8 DEF Begin
  <2>9. ASSUME NEW p \in Callers, NEW j \in Jobs, Process(p, j) \/ Resume(p, j) PROVE QueueInv'
    BY <2>1, <2>8, <2>9 DEF Process, Resume, queueVars, Procs
  <2>10. ASSUME NEW p \in Procs, Dequeue(p) PROVE QueueInv'
    <3>1. Head(queue) \in Jobs /\ Len(queue') = Len(queue) - 1 /\ Len(queue) > 0
      BY <2>0, <2>10 DEF Dequeue
    <3>2. \A w \in Workers : At(w, "stopped")' => At(w, "stopped")
      BY <2>8, <2>10, <3>1 DEF Dequeue
    <3>3. late' = (IF late = Len(queue) THEN late - 1 ELSE late) /\ UNCHANGED <<closed, cancelled>>
      BY <2>10 DEF Dequeue
    <3> QED BY <2>0, <3>1, <3>2, <3>3 DEF QueueInv
  <2>11. ASSUME NEW p \in Procs, Stop(p) PROVE QueueInv'
    <3>1. cancelled \/ (closed /\ Len(queue) = 0)
      BY <2>11 DEF Stop
    <3> QED BY <2>0, <2>11, <3>1 DEF Stop, QueueInv, queueVars
  <2>12. ASSUME NEW p \in Procs, Step(p), ~Dequeue(p), ~Stop(p) PROVE QueueInv'
    <3>1. UNCHANGED <<queue, closed, cancelled, late>>
      BY <2>12 DEF Step, Reset, Load, Skip, CallStage, StageSucceeds, StageFails, Save, ShowFailed,
                   Fail, Bury, Report, Collect, FailEmpty, BuryEmpty, Forget, ClearStash, queueVars
    <3>2. ASSUME Reset(p) \/ Load(p) \/ Skip(p) \/ CallStage(p)
          PROVE  \E where \in {"idle", "load", "check", "save", "running"} : Goto(p, where)
      BY <3>2 DEF Reset, Load, Skip, CallStage, Finish
    <3>3. ASSUME StageFails(p) \/ \E empty \in BOOLEAN : StageSucceeds(p, empty)
          PROVE  \E where \in {"failed", "retry", "save"} : Goto(p, where)
      BY <3>3 DEF StageFails, StageSucceeds, Leave
    <3>4. ASSUME Save(p) \/ ShowFailed(p) \/ Fail(p) \/ Bury(p) \/ Report(p)
          PROVE  \E where \in {"collect", "check", "fail", "bury", "report", "idle"} : Goto(p, where)
      BY <3>4 DEF Save, ShowFailed, Fail, Bury, Report, Finish
    <3>5. ASSUME Collect(p) \/ FailEmpty(p) \/ BuryEmpty(p) \/ Forget(p) \/ ClearStash(p)
          PROVE  \E where \in {"forget", "failEmpty", "buryEmpty", "clear", "idle"} : Goto(p, where)
      BY <3>5 DEF Collect, FailEmpty, BuryEmpty, Forget, ClearStash, Finish
    <3>6. \E where : Goto(p, where) /\ where # "stopped"
      BY <2>12, <3>2, <3>3, <3>4, <3>5 DEF Step
    <3> QED BY <2>1, <2>2, <3>1, <3>6
  <2> QED BY <2>3, <2>4, <2>5, <2>6, <2>7, <2>9, <2>10, <2>11, <2>12 DEF Next
<1>3. BaseInv /\ QueueInv => AcceptedIsTaken
  BY WorkersAssumption DEF QueueInv, AcceptedIsTaken
<1> QED BY Base, <1>1, <1>2, <1>3, PTL DEF Spec

-----------------------------------------------------------------------------
(* Attempts.                                                               *)

\* The calls ahead of a stage can be counted, and so can any of them.
LEMMA AheadFacts ==
    ASSUME RetryInv, NEW j \in Jobs, NEW s \in Stages, NEW T, T \subseteq Ahead(j, s)
    PROVE  /\ IsFiniteSet(T) /\ Cardinality(T) \in Nat
           /\ Cardinality(Ahead(j, s)) \in Nat
           /\ Cardinality(T) <= Cardinality(Ahead(j, s))
           /\ T # Ahead(j, s) => Cardinality(T) < Cardinality(Ahead(j, s))
<1>1. IsFiniteSet(Ahead(j, s))
  BY DEF RetryInv
<1> QED BY <1>1, FS_Subset, FS_CardinalityType

\* Nobody gets ahead of a stage again but by a new call.
LEMMA AheadShrinks ==
    ASSUME TypeOK, Shape, NEW p \in Procs, Step(p), ~Dequeue(p), NEW s \in Stages, NEW j \in Jobs
    PROVE  Ahead(j, s)' \subseteq Ahead(j, s)
<1>0. /\ at[p] \in Nat /\ s \in Nat /\ attempt[p] \in Nat /\ MaxAttempts \in Nat
      /\ p \in DOMAIN pc /\ p \in DOMAIN job /\ p \in DOMAIN at
  BY StageFacts, BoundsAssumption DEF TypeOK, Stage
<1>1. ASSUME NEW where, Goto(p, where) PROVE pc'[p] = where
  BY <1>0, <1>1 DEF Goto
<1>2. \A q \in Procs \ {p} : Same(q)
  BY OthersStay DEF Moves
<1>3. ASSUME job'[p] = j, AheadOf(p, s)' PROVE job[p] = j /\ AheadOf(p, s)
  <2>1. CASE Reset(p)
    <3>1. CASE Finish(p)
      <4>1. pc'[p] = "idle"
        BY <1>1, <3>1 DEF Finish
      <4> QED BY <1>3, <4>1 DEF AheadOf
    <3>2. CASE UNCHANGED job
      BY <1>3, <2>1, <3>2 DEF Reset, AheadOf, At
    <3> QED BY <2>1, <3>1, <3>2 DEF Reset
  <2>2. CASE Load(p)
    BY <1>3, <2>2 DEF Load, AheadOf, At
  <2>3. CASE Skip(p)
    <3>1. pc'[p] = "save"
      BY <1>1, <2>3 DEF Skip
    <3> QED BY <1>3, <2>3, <3>1 DEF Skip, AheadOf, At
  <2>4. CASE CallStage(p)
    <3>1. pc'[p] = "running"
      BY <1>1, <2>4 DEF CallStage
    <3> QED BY <1>3, <2>4, <3>1 DEF CallStage, AheadOf, At
  <2>5. CASE \E empty \in BOOLEAN : StageSucceeds(p, empty)
    <3>1. pc'[p] = "save"
      BY <1>1, <2>5 DEF StageSucceeds, Leave
    <3> QED BY <1>3, <2>5, <3>1 DEF StageSucceeds, AheadOf, At
  <2>6. CASE StageFails(p)
    <3>1. pc'[p] = "failed" \/ (pc'[p] = "retry" /\ attempt[p] < MaxAttempts)
      BY <1>1, <2>6 DEF StageFails, Leave
    <3> QED BY <1>0, <1>3, <2>6, <3>1 DEF StageFails, AheadOf, At
  <2>7. CASE Save(p)
    <3>1. pc'[p] \in {"collect", "check"} /\ at'[p] = at[p] + 1
      BY <1>0, <1>1, <2>7 DEF Save
    <3> QED BY <1>0, <1>3, <2>7, <3>1 DEF Save, AheadOf, At
  <2>8. CASE \/ ShowFailed(p) \/ Fail(p) \/ Bury(p) \/ Report(p) \/ Collect(p) \/ FailEmpty(p)
             \/ BuryEmpty(p) \/ Forget(p) \/ ClearStash(p) \/ Stop(p)
    <3>1. pc'[p] \in {"fail", "bury", "report", "idle", "forget", "failEmpty", "buryEmpty", "clear",
                     "stopped"}
      BY <1>1, <2>8 DEF ShowFailed, FailEmpty, Fail, Bury, Report, Collect, BuryEmpty, Forget, ClearStash, Stop, Finish
    <3> QED BY <1>3, <3>1 DEF AheadOf
  <2> QED BY <2>1, <2>2, <2>3, <2>4, <2>5, <2>6, <2>7, <2>8 DEF Step
<1>4. ASSUME NEW q \in Procs \ {p}, AheadOf(q, s)' PROVE AheadOf(q, s)
  BY <1>2, <1>4 DEF Same, AheadOf
<1>5. ASSUME NEW q \in Ahead(j, s)' PROVE q \in Ahead(j, s)
  <2>1. q \in Procs /\ job'[q] = j /\ AheadOf(q, s)'
    BY <1>5 DEF Ahead
  <2>2. CASE q = p
    BY <1>3, <2>1, <2>2 DEF Ahead
  <2>3. CASE q # p
    BY <1>2, <1>4, <2>1, <2>3 DEF Ahead, Same
  <2> QED BY <2>2, <2>3
<1> QED BY <1>5

\* A new call is ahead of every stage of its job.
LEMMA AheadGrows ==
    ASSUME TypeOK, NEW p \in Procs, NEW j \in Jobs, NEW where \in {"load", "reset"},
           Begin(p, j, where), Moves(p), NEW s \in Stages, NEW i \in Jobs
    PROVE  /\ Ahead(j, s)' \subseteq Ahead(j, s) \cup {p}
           /\ i # j => Ahead(i, s)' \subseteq Ahead(i, s)
           /\ begun'[j] = begun[j] + 1 /\ (i # j => begun'[i] = begun[i])
<1>1. \A q \in Procs \ {p} : Same(q)
  BY OthersStay
<1>2. job'[p] = j
  BY DEF Begin, TypeOK
<1>3. ASSUME NEW q \in Procs \ {p}, AheadOf(q, s)' PROVE AheadOf(q, s)
  BY <1>1, <1>3 DEF Same, AheadOf
<1>4. ASSUME NEW k, NEW q \in Ahead(k, s)', q # p PROVE q \in Ahead(k, s)
  BY <1>1, <1>3, <1>4 DEF Ahead, Same
<1>5. i # j => p \notin Ahead(i, s)'
  BY <1>2 DEF Ahead
<1>6. begun'[j] = begun[j] + 1 /\ (i # j => begun'[i] = begun[i])
  BY DEF Begin, TypeOK
<1> QED BY <1>4, <1>5, <1>6

\* What is allowed is a number, at most one full allowance more than the records forgotten.
LEMMA AllowedFacts ==
    ASSUME TypeOK, NEW j \in Jobs, NEW s \in Stages
    PROVE  /\ Allowed(j, s) \in Nat
           /\ Allowed(j, s) <= (renewed[j][s] + 1) * (MaxAttempts - 1)
<1> DEFINE m == MaxAttempts - 1
<1>1. m \in Nat
  BY BoundsAssumption
<1>2. PICK k \in Nat, n \in Nat : k = renewed[j][s] /\ n = records[j][s].attempts
  BY DEF TypeOK
<1>3. Counted(n) \in Nat /\ Counted(n) <= m
  BY <1>2, BoundsAssumption DEF Counted, m
<1> HIDE DEF m
<1>4. k * m \in Nat /\ (k + 1) * m = k * m + m
  BY <1>1, <1>2
<1>5. Allowed(j, s) = k * m + Counted(n) /\ (renewed[j][s] + 1) * (MaxAttempts - 1) = (k + 1) * m
  BY <1>2 DEF Allowed, m
<1> QED BY <1>1, <1>3, <1>4, <1>5

\* What was allowed stays so when a record is kept or replaced.
LEMMA AllowedKept ==
    ASSUME TypeOK, NEW j \in Jobs, NEW s \in Stages,
           \/ records'[j][s].attempts = records[j][s].attempts /\ renewed'[j][s] = renewed[j][s]
           \/ records'[j][s].attempts = 0 /\ renewed'[j][s] = Renewed(j, s)
    PROVE  Allowed(j, s)' \in Nat /\ Allowed(j, s)' >= Allowed(j, s)
<1> DEFINE m == MaxAttempts - 1
<1>1. m \in Nat
  BY BoundsAssumption
<1>2. PICK k \in Nat, n \in Nat : k = renewed[j][s] /\ n = records[j][s].attempts
  BY DEF TypeOK
<1>3. Counted(n) \in Nat /\ Counted(n) <= m /\ Counted(0) = 0
  BY <1>2, BoundsAssumption DEF Counted, m
<1>4. \/ records'[j][s].attempts = n /\ renewed'[j][s] = k
      \/ records'[j][s].attempts = 0 /\ renewed'[j][s] = k + 1
  BY <1>2, RenewedTyped
<1> HIDE DEF m
<1>5. k * m \in Nat /\ (k + 1) * m = k * m + m
  BY <1>1, <1>2
<1>6. Allowed(j, s) = k * m + Counted(n)
  BY <1>2 DEF Allowed, m
<1>7. Allowed(j, s)' = renewed'[j][s] * m + Counted(records'[j][s].attempts)
  BY DEF Allowed, Counted, m
<1> QED BY <1>1, <1>3, <1>4, <1>5, <1>6, <1>7

\* A step that makes no attempt keeps the bound: the attempts it forgets are allowed
\* again, and who gets ahead of a stage was begun by it.
LEMMA RetryKept ==
    ASSUME TypeOK, TypeOK', RetryInv,
           \A j \in Jobs, s \in Stages :
             /\ made'[j][s] = made[j][s]
             /\ \/ records'[j][s].attempts = records[j][s].attempts /\ renewed'[j][s] = renewed[j][s]
                \/ records'[j][s].attempts = 0 /\ renewed'[j][s] = Renewed(j, s)
             /\ \/ Ahead(j, s)' \subseteq Ahead(j, s) /\ begun'[j] >= begun[j]
                \/ \E p \in Procs : /\ Ahead(j, s)' \subseteq Ahead(j, s) \cup {p}
                                    /\ begun'[j] = begun[j] + 1
    PROVE  RetryInv'
<1> SUFFICES ASSUME NEW j \in Jobs, NEW s \in Stages
             PROVE  /\ IsFiniteSet(Ahead(j, s)')
                    /\ made'[j][s] + Cardinality(Ahead(j, s)') <= Allowed(j, s)' + begun'[j]
  BY DEF RetryInv
<1> DEFINE ahead == Ahead(j, s)
<1>1. /\ IsFiniteSet(ahead) /\ Cardinality(ahead) \in Nat
      /\ made[j][s] + Cardinality(ahead) <= Allowed(j, s) + begun[j]
  BY AheadFacts DEF RetryInv
<1>2. /\ begun[j] \in Nat /\ begun'[j] \in Nat /\ made[j][s] \in Nat
      /\ Allowed(j, s) \in Nat
  <2>1. begun[j] \in Nat /\ begun'[j] \in Nat
    BY DEF TypeOK
  <2>2. made[j][s] \in Nat
    BY DEF TypeOK
  <2> QED BY <2>1, <2>2, AllowedFacts
<1>3. /\ IsFiniteSet(Ahead(j, s)') /\ Cardinality(Ahead(j, s)') \in Nat
      /\ Cardinality(Ahead(j, s)') - begun'[j] <= Cardinality(ahead) - begun[j]
  <2>1. CASE Ahead(j, s)' \subseteq ahead /\ begun'[j] >= begun[j]
    <3>1. /\ IsFiniteSet(Ahead(j, s)') /\ Cardinality(Ahead(j, s)') \in Nat
          /\ Cardinality(Ahead(j, s)') <= Cardinality(ahead)
      BY <1>1, <2>1, FS_Subset, FS_CardinalityType
    <3> QED BY <1>1, <1>2, <2>1, <3>1
  <2>2. ASSUME NEW p \in Procs, Ahead(j, s)' \subseteq ahead \cup {p}, begun'[j] = begun[j] + 1
        PROVE  /\ IsFiniteSet(Ahead(j, s)') /\ Cardinality(Ahead(j, s)') \in Nat
               /\ Cardinality(Ahead(j, s)') - begun'[j] <= Cardinality(ahead) - begun[j]
    <3> HIDE DEF ahead
    <3>1. /\ IsFiniteSet(ahead \cup {p}) /\ Cardinality(ahead \cup {p}) \in Nat
          /\ Cardinality(ahead \cup {p}) <= Cardinality(ahead) + 1
      <4>1. IsFiniteSet(ahead \cup {p})
        BY <1>1, FS_AddElement
      <4>2. Cardinality(ahead \cup {p}) = Cardinality(ahead)
            \/ Cardinality(ahead \cup {p}) = Cardinality(ahead) + 1
        BY <1>1, FS_AddElement
      <4> QED BY <1>1, <4>1, <4>2, FS_CardinalityType
    <3>2. /\ IsFiniteSet(Ahead(j, s)') /\ Cardinality(Ahead(j, s)') \in Nat
          /\ Cardinality(Ahead(j, s)') <= Cardinality(ahead \cup {p})
      BY <2>2, <3>1, FS_Subset, FS_CardinalityType
    <3> QED BY <1>1, <1>2, <2>2, <3>1, <3>2
  <2> QED BY <2>1, <2>2
<1>4. made'[j][s] = made[j][s] /\ Allowed(j, s)' \in Nat /\ Allowed(j, s)' >= Allowed(j, s)
  BY AllowedKept
<1> HIDE DEF ahead
<1> QED BY <1>1, <1>2, <1>3, <1>4

\* An attempt: the call is ahead of the stage before it, and no more when the attempt is
\* the policy's last or comes after it.
LEMMA RetryCalled ==
    ASSUME TypeOK, TypeOK', Shape, RetryInv, NEW p \in Procs, CallStage(p)
    PROVE  RetryInv'
<1> DEFINE n == records[job[p]][at[p]].attempts + 1
<1>0. /\ job[p] \in Jobs /\ at[p] \in Stages /\ Step(p) /\ ~Dequeue(p)
      /\ pc[p] \in {"check", "retry"}
  BY DEF CallStage, Shape, At, Active, InStage, Step, Dequeue, Begin
<1>1. n \in Nat
  <2>1. records \in [Jobs -> [Stages -> [completed : BOOLEAN, attempts : Nat]]]
    BY DEF TypeOK
  <2> QED BY <1>0, <2>1
<1>2. /\ attempt' = [attempt EXCEPT ![p] = n]
      /\ Goto(p, "running") /\ UNCHANGED <<job, at, begun, renewed>>
  BY DEF CallStage, callVars
<1>8. /\ records'[job[p]][at[p]].attempts = n
      /\ \A k \in Stages \ {at[p]} : /\ records'[job[p]][k] = records[job[p]][k]
                                     /\ made'[job[p]][k] = made[job[p]][k]
      /\ \A i \in Jobs \ {job[p]} : records'[i] = records[i] /\ made'[i] = made[i]
      /\ made'[job[p]][at[p]] = made[job[p]][at[p]] + 1
  BY <1>0, AttemptCounted
<1> SUFFICES ASSUME NEW j \in Jobs, NEW s \in Stages
             PROVE  /\ IsFiniteSet(Ahead(j, s)')
                    /\ made'[j][s] + Cardinality(Ahead(j, s)') <= Allowed(j, s)' + begun'[j]
  BY DEF RetryInv
<1>3. Ahead(j, s)' \subseteq Ahead(j, s)
  BY <1>0, AheadShrinks
<1>4. /\ IsFiniteSet(Ahead(j, s)') /\ Cardinality(Ahead(j, s)') \in Nat
      /\ Cardinality(Ahead(j, s)) \in Nat
      /\ Cardinality(Ahead(j, s)') <= Cardinality(Ahead(j, s))
      /\ Ahead(j, s)' # Ahead(j, s) => Cardinality(Ahead(j, s)') < Cardinality(Ahead(j, s))
  BY <1>3, AheadFacts
<1>5. /\ begun'[j] = begun[j] /\ begun[j] \in Nat /\ made[j][s] \in Nat
      /\ made[j][s] + Cardinality(Ahead(j, s)) <= Allowed(j, s) + begun[j]
      /\ Allowed(j, s) \in Nat
      /\ records[j][s].attempts \in Nat /\ MaxAttempts \in Nat /\ MaxAttempts >= 1
  <2>1. begun'[j] = begun[j] /\ begun[j] \in Nat /\ records[j][s].attempts \in Nat /\ made[j][s] \in Nat
    BY <1>2 DEF TypeOK
  <2>2. MaxAttempts \in Nat /\ MaxAttempts >= 1
    BY BoundsAssumption
  <2> QED BY <2>1, <2>2, AllowedFacts DEF RetryInv
<1>6. CASE j # job[p] \/ s # at[p]
  <2>1. records'[j][s] = records[j][s] /\ made'[j][s] = made[j][s]
    BY <1>6, <1>8
  <2>2. Allowed(j, s)' \in Nat /\ Allowed(j, s)' >= Allowed(j, s)
    BY <1>2, <2>1, AllowedKept
  <2> QED BY <1>4, <1>5, <2>1, <2>2
<1>7. CASE j = job[p] /\ s = at[p]
  <2>1. records'[j][s].attempts = n /\ made'[j][s] = made[j][s] + 1 /\ n = records[j][s].attempts + 1
    BY <1>7, <1>8
  <2> HIDE DEF n
  <2>2. PICK grant \in Nat : grant = renewed[j][s] * (MaxAttempts - 1) /\ grant = (renewed[j][s] * (MaxAttempts - 1))'
    <3>1. PICK k \in Nat, m \in Nat : k = renewed[j][s] /\ m = MaxAttempts - 1 /\ k = renewed'[j][s]
      BY <1>2, <1>5 DEF TypeOK
    <3>2. k * m \in Nat
      OBVIOUS
    <3> QED BY <3>1, <3>2
  <2>3. /\ Allowed(j, s) = grant + Counted(n - 1)
        /\ Allowed(j, s)' = grant + Counted(n)
    <3>1. records[j][s].attempts = n - 1
      BY <1>1, <1>5, <2>1
    <3> QED BY <2>1, <2>2, <3>1 DEF Allowed, Counted
  <2>4. CASE n < MaxAttempts
    <3>1. Counted(n) = n /\ Counted(n - 1) = n - 1
      BY <1>1, <1>5, <2>4 DEF Counted
    <3> QED BY <1>1, <1>4, <1>5, <2>1, <2>2, <2>3, <3>1
  <2>5. CASE n >= MaxAttempts
    <3>1. p \in Ahead(j, s)
      BY <1>0, <1>7 DEF Ahead, AheadOf
    <3>2. p \notin Ahead(j, s)'
      <4>1. pc'[p] = "running" /\ attempt'[p] = n /\ at'[p] = s
        BY <1>2, <1>7 DEF Goto, TypeOK
      <4>2. s \in Nat
        BY StageFacts
      <4> QED BY <1>1, <1>5, <2>5, <4>1, <4>2 DEF Ahead, AheadOf
    <3>3. Cardinality(Ahead(j, s)') < Cardinality(Ahead(j, s))
      BY <1>4, <3>1, <3>2
    <3>4. Counted(n) = MaxAttempts - 1 /\ Counted(n - 1) = MaxAttempts - 1
      BY <1>1, <1>5, <2>5 DEF Counted
    <3> QED BY <1>1, <1>4, <1>5, <2>1, <2>2, <2>3, <3>3, <3>4
  <2> QED BY <1>1, <1>5, <2>4, <2>5
<1> QED BY <1>6, <1>7

\* Every step keeps RetryInv.
LEMMA RetryStep == BaseInv /\ BaseInv' /\ RetryInv /\ [Next]_vars => RetryInv'
<1> SUFFICES ASSUME BaseInv, BaseInv', RetryInv, [Next]_vars PROVE RetryInv'
  OBVIOUS
<1>0. TypeOK /\ TypeOK' /\ Shape
  BY DEF BaseInv
<1>1. CASE UNCHANGED vars \/ Outside
  <2>1. UNCHANGED <<storeVars, stash, procVars, callVars, restarts, historyVars>>
    BY <1>1, OutsideLeaves
  <2> QED BY <2>1 DEF RetryInv, Allowed, Ahead, AheadOf, storeVars, procVars, callVars, historyVars
<1>2. CASE Restart
  <2>1. \A j \in Jobs, s \in Stages : Ahead(j, s)' \subseteq Ahead(j, s)
    BY <1>2 DEF Restart, Ahead, AheadOf
  <2>2. \A j \in Jobs, s \in Stages :
          /\ made'[j][s] = made[j][s]
          /\ \/ records'[j][s].attempts = records[j][s].attempts /\ renewed'[j][s] = renewed[j][s]
             \/ records'[j][s].attempts = 0 /\ renewed'[j][s] = Renewed(j, s)
    BY <1>2, FreshTyped DEF Restart
  <2>3. \A j \in Jobs : begun'[j] >= begun[j]
    BY <1>0, HistoryGrows
  <2> QED BY <1>0, <2>1, <2>2, <2>3, RetryKept
<1>3. ASSUME NEW p \in Procs, NEW j \in Jobs, NEW where \in {"load", "reset"},
             Begin(p, j, where), Moves(p)
      PROVE  RetryInv'
  <2>1. UNCHANGED <<records, made, renewed>>
    BY <1>3 DEF Begin, storeVars, historyVars
  <2>2. ASSUME NEW i \in Jobs, NEW s \in Stages
        PROVE  \/ Ahead(i, s)' \subseteq Ahead(i, s) /\ begun'[i] >= begun[i]
               \/ \E q \in Procs : Ahead(i, s)' \subseteq Ahead(i, s) \cup {q} /\ begun'[i] = begun[i] + 1
    <3>1. /\ Ahead(j, s)' \subseteq Ahead(j, s) \cup {p}
          /\ i # j => Ahead(i, s)' \subseteq Ahead(i, s)
          /\ begun'[j] = begun[j] + 1 /\ (i # j => begun'[i] = begun[i])
      BY <1>0, <1>3, AheadGrows
    <3>2. begun'[i] >= begun[i]
      BY <1>0, HistoryGrows
    <3> QED BY <3>1, <3>2
  <2> QED BY <1>0, <2>1, <2>2, RetryKept
<1>4. ASSUME NEW p \in Procs, Step(p), ~Dequeue(p), ~CallStage(p) PROVE RetryInv'
  <2>1. \A j \in Jobs, s \in Stages : Ahead(j, s)' \subseteq Ahead(j, s) /\ begun'[j] >= begun[j]
    BY <1>0, <1>4, AheadShrinks, HistoryGrows
  <2>2. \A j \in Jobs, s \in Stages :
          /\ made'[j][s] = made[j][s]
          /\ \/ records'[j][s].attempts = records[j][s].attempts /\ renewed'[j][s] = renewed[j][s]
             \/ records'[j][s].attempts = 0 /\ renewed'[j][s] = Renewed(j, s)
    <3>1. CASE UNCHANGED <<records, made, renewed>>
      BY <3>1
    <3>2. CASE Reset(p)
      <4>1. job[p] \in Jobs /\ UNCHANGED made
        BY <1>0, <3>2 DEF Shape, Reset, At, Active
      <4>2. \/ UNCHANGED <<records, renewed>>
            \/ at[p] \in Stages /\ Replaced(job[p], at[p])
        BY <3>2 DEF Reset, Replaced
      <4>3. ASSUME at[p] \in Stages, Replaced(job[p], at[p]),
                   NEW j \in Jobs, NEW s \in Stages
            PROVE  /\ made'[j][s] = made[j][s]
                   /\ \/ records'[j][s].attempts = records[j][s].attempts /\ renewed'[j][s] = renewed[j][s]
                      \/ records'[j][s].attempts = 0 /\ renewed'[j][s] = Renewed(j, s)
        <5>1. PICK i \in Jobs, k \in Stages : i = job[p] /\ k = at[p]
          BY <4>1, <4>3
        <5>2. /\ records'[i][k].attempts = 0 /\ renewed'[i][k] = Renewed(i, k)
              /\ \A l \in Stages \ {k} : records'[i][l] = records[i][l] /\ renewed'[i][l] = renewed[i][l]
              /\ \A l \in Jobs \ {i} : records'[l] = records[l] /\ renewed'[l] = renewed[l]
          <6>1. Replaced(i, k)
            BY <4>3, <5>1
          <6>2. TypeOK
            BY <1>0
          <6> QED BY <6>1, <6>2, RecordRenewed
        <5>3. CASE j = i /\ s = k
          BY <4>1, <5>2, <5>3
        <5>4. CASE ~(j = i /\ s = k)
          BY <4>1, <5>2, <5>4
        <5> QED BY <5>3, <5>4
      <4> QED BY <3>1, <4>1, <4>2, <4>3
    <3>3. ASSUME NEW empty \in BOOLEAN, StageSucceeds(p, empty), NEW j \in Jobs, NEW s \in Stages
          PROVE  /\ records'[j][s].attempts = records[j][s].attempts
                 /\ made'[j][s] = made[j][s] /\ renewed'[j][s] = renewed[j][s]
      <4>1. records'[j][s].attempts = records[j][s].attempts
        BY <1>0, <3>3, SuccessRecorded
      <4> QED BY <3>3, <4>1 DEF StageSucceeds
    <3>4. CASE \/ Load(p) \/ Skip(p) \/ StageFails(p) \/ Save(p) \/ ShowFailed(p) \/ Fail(p) \/ Bury(p)
               \/ Report(p) \/ Collect(p) \/ FailEmpty(p) \/ BuryEmpty(p) \/ Forget(p) \/ ClearStash(p)
               \/ Stop(p)
      BY <3>1, <3>4 DEF Load, Skip, StageFails, Save, ShowFailed, Fail, Bury, Report, Collect,
                        FailEmpty, BuryEmpty, Forget, ClearStash, Stop, storeVars, historyVars
    <3> QED BY <1>4, <3>2, <3>3, <3>4 DEF Step
  <2> QED BY <1>0, <2>1, <2>2, RetryKept
<1>5. ASSUME NEW p \in Procs, Moves(p) PROVE RetryInv'
  <2>1. CASE \E j \in Jobs : p \in Callers /\ (Process(p, j) \/ Resume(p, j))
    BY <1>3, <1>5, <2>1 DEF Process, Resume
  <2>2. CASE Dequeue(p)
    <3>1. Head(queue) \in Jobs /\ Begin(p, Head(queue), "load")
      BY <1>0, <2>2 DEF Dequeue, TypeOK
    <3> QED BY <1>3, <1>5, <3>1
  <2>3. CASE CallStage(p)
    BY <1>0, <2>3, RetryCalled
  <2> QED BY <1>4, <1>5, <2>1, <2>2, <2>3 DEF Moves
<1> QED BY <1>1, <1>2, <1>5, Cases

\* The attempts made at a stage, those of records that were replaced included, exceed
\* what the policy allows for each of its records by at most one for every call that was
\* begun on the job, however the calls overlap: a call tries again only after an attempt
\* that was not the last.
THEOREM AttemptsAreBounded == Spec => []RetriesAreBounded
<1>1. Init => RetryInv
  <2> SUFFICES ASSUME Init, NEW j \in Jobs, NEW s \in Stages
               PROVE  /\ IsFiniteSet(Ahead(j, s))
                      /\ made[j][s] + Cardinality(Ahead(j, s)) <= Allowed(j, s) + begun[j]
    BY DEF RetryInv
  <2>1. Ahead(j, s) = {}
    BY DEF Init, Ahead, AheadOf
  <2>2. IsFiniteSet(Ahead(j, s)) /\ Cardinality(Ahead(j, s)) = 0
    BY <2>1, FS_EmptySet
  <2>3. made[j][s] = 0 /\ begun[j] = 0
    BY DEF Init
  <2>4. Allowed(j, s) \in Nat
    BY TypeInit, AllowedFacts
  <2> QED BY <2>2, <2>3, <2>4
<1>2. BaseInv /\ RetryInv => RetriesAreBounded
  <2> SUFFICES ASSUME BaseInv, RetryInv, NEW j \in Jobs, NEW s \in Stages
               PROVE  made[j][s] <= (renewed[j][s] + 1) * (MaxAttempts - 1) + begun[j]
    BY DEF RetriesAreBounded
  <2>1. made[j][s] \in Nat /\ begun[j] \in Nat
    BY DEF BaseInv, TypeOK
  <2>2. Cardinality(Ahead(j, s)) \in Nat
    BY AheadFacts
  <2>3. made[j][s] + Cardinality(Ahead(j, s)) <= Allowed(j, s) + begun[j]
    BY DEF RetryInv
  <2>4. PICK top \in Int : top = (renewed[j][s] + 1) * (MaxAttempts - 1)
    <3>1. PICK k \in Nat, m \in Nat : k = renewed[j][s] /\ m = MaxAttempts - 1
      BY BoundsAssumption DEF BaseInv, TypeOK
    <3>2. (k + 1) * m \in Int
      OBVIOUS
    <3> QED BY <3>1, <3>2
  <2>5. Allowed(j, s) \in Nat /\ Allowed(j, s) <= top
    BY <2>4, AllowedFacts DEF BaseInv
  <2> QED BY <2>1, <2>2, <2>3, <2>4, <2>5
<1> QED BY Base, <1>1, <1>2, RetryStep, PTL DEF Spec

-----------------------------------------------------------------------------
(* What a step of a process does to its own job and to the others.         *)

\* A process that takes part in a job afterwards did so before, or begins it.
LEMMA OwnJob ==
    ASSUME TypeOK, Shape, NEW p \in Procs, Moves(p)
    PROVE  \/ Active(p) /\ Active(p)' /\ job'[p] = job[p]
           \/ \E j \in Jobs, where \in {"load", "reset"} : Begin(p, j, where)
           \/ Active(p) /\ ~Active(p)' /\ (Reset(p) \/ Report(p) \/ ClearStash(p))
           \/ ~Active(p) /\ Stop(p)
<1>1. CASE \E j \in Jobs : p \in Callers /\ (Process(p, j) \/ Resume(p, j))
  BY <1>1 DEF Process, Resume
<1>2. CASE Dequeue(p)
  BY <1>2 DEF Dequeue, TypeOK
<1>3. ASSUME NEW where, Goto(p, where), UNCHANGED job, Active(p), where \notin {"idle", "stopped"}
      PROVE  Active(p)' /\ job'[p] = job[p]
  BY <1>3 DEF Goto, Active, TypeOK
<1>4. ASSUME Finish(p) PROVE ~Active(p)'
  BY <1>4 DEF Finish, Goto, Active, TypeOK
<1>5. CASE Reset(p)
  BY <1>3, <1>4, <1>5 DEF Reset, At, Active
<1>6. CASE \/ Load(p) \/ Skip(p) \/ CallStage(p) \/ ShowFailed(p) \/ Fail(p) \/ Bury(p)
           \/ FailEmpty(p) \/ BuryEmpty(p) \/ Forget(p)
  BY <1>3, <1>6 DEF Load, Skip, CallStage, ShowFailed, Fail, Bury, FailEmpty, BuryEmpty, Forget, At,
                    Active
<1>7. CASE (\E empty \in BOOLEAN : StageSucceeds(p, empty)) \/ StageFails(p)
  <2>1. PICK where \in {"save", "failed", "retry"} : Goto(p, where)
    BY <1>7 DEF StageSucceeds, StageFails, Leave
  <2> QED BY <1>3, <1>7, <2>1 DEF StageSucceeds, StageFails, At, Active
<1>8. CASE Save(p) \/ Collect(p)
  <2>1. PICK where \in {"collect", "check", "forget", "failEmpty"} : Goto(p, where)
    BY <1>8 DEF Save, Collect
  <2> QED BY <1>3, <1>8, <2>1 DEF Save, Collect, At, Active
<1>9. CASE Report(p)
  BY <1>4, <1>9 DEF Report, At, Active
<1>10. CASE ClearStash(p)
  BY <1>10 DEF ClearStash, Goto, At, Active, TypeOK
<1>11. CASE Stop(p)
  BY <1>11 DEF Stop, At, Active
<1> QED BY <1>1, <1>2, <1>5, <1>6, <1>7, <1>8, <1>9, <1>10, <1>11 DEF Moves, Step

\* The stores hold what they held for a job the process takes no part in.
LEMMA Elsewhere ==
    ASSUME TypeOK, Shape, NEW p \in Procs, Moves(p), NEW i \in Jobs, ~Active(p) \/ job[p] # i
    PROVE  /\ status'[i] = status[i] /\ checkpoint'[i] = checkpoint[i]
           /\ records'[i] = records[i] /\ letters'[i] = letters[i] /\ stash'[i] = stash[i]
<1>1. CASE \E j \in Jobs : p \in Callers /\ (Process(p, j) \/ Resume(p, j))
  BY <1>1 DEF Process, Resume, Begin, storeVars
<1>2. CASE Dequeue(p) \/ Skip(p) \/ StageFails(p) \/ Stop(p)
  BY <1>2 DEF Dequeue, Begin, Skip, StageFails, Stop, storeVars
<1>7. CASE ClearStash(p)
  BY <1>7 DEF ClearStash, At, Active, storeVars, TypeOK
<1>3. CASE Reset(p)
  BY <1>3 DEF Reset, At, Active, TypeOK
<1>4. CASE CallStage(p)
  BY <1>4 DEF CallStage, At, Active, TypeOK
<1>8. ASSUME NEW empty \in BOOLEAN, StageSucceeds(p, empty)
      PROVE  /\ status'[i] = status[i] /\ checkpoint'[i] = checkpoint[i]
             /\ records'[i] = records[i] /\ letters'[i] = letters[i] /\ stash'[i] = stash[i]
  <2>1. job[p] # i
    BY <1>8 DEF StageSucceeds, At, Active
  <2>2. records'[i] = records[i]
    BY <1>8, <2>1, SuccessRecorded
  <2>3. stash'[i] = stash[i]
    BY <1>8, <2>1 DEF StageSucceeds, TypeOK
  <2> QED BY <1>8, <2>2, <2>3 DEF StageSucceeds
<1>5. CASE Load(p) \/ Save(p) \/ ShowFailed(p) \/ Fail(p) \/ Bury(p) \/ Report(p)
  BY <1>5 DEF Load, Save, ShowFailed, Fail, Bury, Report, At, Active, TypeOK
<1>6. CASE Collect(p) \/ FailEmpty(p) \/ BuryEmpty(p) \/ Forget(p)
  BY <1>6 DEF Collect, FailEmpty, BuryEmpty, Forget, At, Active, TypeOK
<1> QED BY <1>1, <1>2, <1>3, <1>4, <1>5, <1>6, <1>7, <1>8 DEF Moves, Step

\* The checkpoint changes where a stage is saved or failed and where the job ends.
LEMMA CheckpointChange ==
    ASSUME TypeOK, Shape, NEW p \in Procs, Moves(p), NEW j \in Jobs, checkpoint'[j] # checkpoint[j]
    PROVE  /\ Active(p) /\ job[p] = j
           /\ \/ Save(p) /\ checkpoint'[j] = at[p] + 1
              \/ Fail(p) /\ checkpoint'[j] = at[p]
              \/ FailEmpty(p) /\ checkpoint'[j] = Failed
              \/ Forget(p) /\ checkpoint'[j] = NoStage
<1>1. Active(p) /\ job[p] = j
  BY Elsewhere
<1>2. CASE UNCHANGED checkpoint
  BY <1>2
<1>3. CASE Save(p) \/ Fail(p) \/ Forget(p) \/ FailEmpty(p)
  BY <1>1, <1>3 DEF Save, Fail, Forget, FailEmpty, TypeOK
<1>5. CASE ~(Save(p) \/ Fail(p) \/ Forget(p) \/ FailEmpty(p))
  BY <1>2, <1>5 DEF Moves, Step, Process, Resume, Begin, Dequeue, Reset, Load, Skip, CallStage,
         StageSucceeds, StageFails, ShowFailed, Bury, Report, Collect, BuryEmpty, ClearStash, Stop,
         storeVars
<1> QED BY <1>1, <1>3, <1>5

\* What is recorded as completed stays so, but for the stage a Resume resets, and only a
\* stage that succeeded comes to it.
LEMMA CompletedChange ==
    ASSUME TypeOK, Shape, NEW p \in Procs, Moves(p), NEW j \in Jobs, NEW s \in Stages,
           records'[j][s].completed # records[j][s].completed
    PROVE  /\ Active(p) /\ job[p] = j /\ at[p] = s
           /\ \/ Reset(p) /\ ~records'[j][s].completed
              \/ (\E empty \in BOOLEAN : StageSucceeds(p, empty)) /\ records'[j][s].completed
<1>1. Active(p) /\ job[p] = j
  BY Elsewhere
<1>2. CASE Reset(p)
  <2>1. at[p] \in Stages /\ records' = [records EXCEPT ![j][at[p]] = Fresh]
    BY <1>1, <1>2 DEF Reset
  <2>2. records'[j][at[p]] = Fresh /\ \A k \in Stages \ {at[p]} : records'[j][k] = records[j][k]
    BY <2>1, FreshTyped, RecordTyped
  <2> QED BY <1>1, <1>2, <2>2, FreshTyped
<1>3. CASE CallStage(p)
  <2>1. at[p] \in Stages
    BY <1>3 DEF CallStage, Shape, At, InStage
  <2> DEFINE n == records[j][at[p]].attempts + 1
  <2>2. n \in Nat
    BY <2>1 DEF TypeOK
  <2>3. records' = [records EXCEPT ![j][at[p]].attempts = n]
    BY <1>1, <1>3 DEF CallStage
  <2> HIDE DEF n
  <2>4. /\ records'[j][at[p]].completed = records[j][at[p]].completed
        /\ \A k \in Stages \ {at[p]} : records'[j][k] = records[j][k]
    BY <2>1, <2>2, <2>3, AttemptWritten
  <2>5. records'[j][s].completed = records[j][s].completed
    BY <2>4
  <2> QED BY <2>5
<1>4. CASE \E empty \in BOOLEAN : StageSucceeds(p, empty)
  <2>1. /\ records'[j][at[p]].completed = TRUE
        /\ \A k \in Stages \ {at[p]} : records'[j][k] = records[j][k]
    BY <1>1, <1>4, SuccessRecorded
  <2> QED BY <1>1, <1>4, <2>1
<1>5. CASE ~(Reset(p) \/ CallStage(p) \/ (\E empty \in BOOLEAN : StageSucceeds(p, empty)))
  <2>1. UNCHANGED records
    BY <1>5 DEF Moves, Step, Process, Resume, Begin, Dequeue, Load, Skip, StageFails, Save,
           ShowFailed, Fail, Bury, Report, Collect, FailEmpty, BuryEmpty, Forget, ClearStash, Stop, storeVars
  <2> QED BY <2>1
<1> QED BY <1>2, <1>3, <1>4, <1>5

\* While nothing empties it the stash grows.
LEMMA StashGrows ==
    ASSUME TypeOK, Shape, NEW p \in Procs, Moves(p), NEW j \in Jobs, Kept(j)'
    PROVE  stash[j] \subseteq stash'[j]
<1>1. CASE UNCHANGED stash
  BY <1>1
<1>2. ASSUME NEW empty \in BOOLEAN, StageSucceeds(p, empty) PROVE stash[j] \subseteq stash'[j]
  <2>1. CASE job[p] # j
    BY <1>2, <2>1 DEF StageSucceeds, TypeOK
  <2>2. CASE job[p] = j
    <3>1. ~empty
      BY <1>2, <2>2 DEF StageSucceeds, Kept, TypeOK
    <3> QED BY <1>2, <2>2, <3>1 DEF StageSucceeds, TypeOK
  <2> QED BY <2>1, <2>2
<1>3. CASE ClearStash(p)
  <2>1. job[p] # j
    BY <1>3 DEF ClearStash, Kept, TypeOK
  <2> QED BY <1>3, <2>1 DEF ClearStash, TypeOK
<1>4. CASE ~(ClearStash(p) \/ (\E empty \in BOOLEAN : StageSucceeds(p, empty)))
  <2>1. UNCHANGED stash
    BY <1>4 DEF Moves, Step, Process, Resume, Begin, Dequeue, Reset, Load, Skip, CallStage,
           StageFails, Save, ShowFailed, Fail, Bury, Report, Collect, FailEmpty, BuryEmpty, Forget, Stop
  <2> QED BY <1>1, <2>1
<1> QED BY <1>2, <1>3, <1>4

-----------------------------------------------------------------------------
(* The stash.                                                              *)

\* What a stage needs is what the stage before it left.
LEMMA NeedsFacts ==
    /\ Needs(Intake) = {}
    /\ \A s \in Stages : Needs(s + 1) \subseteq (IF s = Intake THEN {} ELSE {s})
  BY StageFacts DEF Needs

\* Nothing is recorded at the start.
LEMMA StashInit == Init => StashInv
  BY StageFacts, FreshTyped DEF Init, StashInv, InStage

\* What a process may rely on: what its stage needs, and what it has just left.
Relies(p) ==
    (pc[p] \in InStage /\ Kept(job[p])) =>
         /\ Needs(at[p]) \subseteq stash[job[p]]
         /\ (pc[p] = "save" /\ at[p] # Intake) => at[p] \in stash[job[p]]

\* A process goes on only to what the stash has for it.
LEMMA ReliesOwn ==
    ASSUME TypeOK, TypeOK', Shape, StashInv, NEW p \in Procs, Moves(p)
    PROVE  Relies(p)'
<1> SUFFICES ASSUME pc'[p] \in InStage, Kept(job[p])'
             PROVE  /\ Needs(at'[p]) \subseteq stash'[job'[p]]
                    /\ (pc'[p] = "save" /\ at'[p] # Intake) => at'[p] \in stash'[job'[p]]
  BY DEF Relies
<1>0. /\ Active(p) /\ Active(p)' /\ job'[p] = job[p] /\ job[p] \in Jobs
      /\ Kept(job[p])
  <2>1. Active(p)'
    BY DEF Active, InStage
  <2>2. ASSUME NEW j, NEW where \in {"load", "reset"}, Begin(p, j, where) PROVE FALSE
    BY <2>2 DEF Begin, Goto, InStage, TypeOK
  <2>3. ~Stop(p)
    BY DEF Stop, Goto, InStage, TypeOK
  <2>4. Active(p) /\ job'[p] = job[p] /\ job[p] \in Jobs
    BY <2>1, <2>2, <2>3, OwnJob DEF Shape
  <2>5. [Next]_vars
    BY DEF Moves, Next
  <2>6. restarts = 0 /\ ~cleared[job[p]] /\ ~hollow[job[p]]
    BY <2>4, <2>5, HistoryGrows DEF Kept
  <2> QED BY <2>1, <2>4, <2>6 DEF Kept
<1>1. stash[job[p]] \subseteq stash'[job[p]]
  BY <1>0, StashGrows
<1>2. /\ pc[p] \in InStage => Needs(at[p]) \subseteq stash[job[p]] /\ at[p] \in Stages
      /\ (pc[p] = "save" /\ at[p] # Intake) => at[p] \in stash[job[p]]
  BY <1>0 DEF StashInv, Shape, InStage
<1>3. CASE Load(p)
  <2>1. pc'[p] = "check"
    BY <1>3 DEF Load, Goto, TypeOK
  <2>2. (at'[p] = checkpoint[job[p]] /\ at'[p] \in Stages) \/ at'[p] = Intake
    BY <1>3 DEF Load, TypeOK
  <2>3. Needs(at'[p]) \subseteq stash[job[p]]
    BY <1>0, <2>2, NeedsFacts DEF StashInv
  <2> QED BY <1>0, <1>1, <2>1, <2>3
<1>4. CASE Skip(p)
  <2>1. pc[p] = "check" /\ at'[p] = at[p] /\ records[job[p]][at[p]].completed
    BY <1>4 DEF Skip, At
  <2>2. at[p] # Intake => at[p] \in stash[job[p]]
    BY <1>0, <1>2, <2>1 DEF StashInv, InStage
  <2> QED BY <1>0, <1>1, <1>2, <2>1, <2>2 DEF InStage
<1>5. CASE CallStage(p) \/ StageFails(p) \/ ShowFailed(p) \/ Fail(p) \/ Bury(p)
  <2>1. pc[p] \in InStage /\ at'[p] = at[p]
    BY <1>5 DEF CallStage, StageFails, ShowFailed, Fail, Bury, At, InStage
  <2>2. pc'[p] # "save"
    BY <1>5 DEF CallStage, StageFails, Leave, ShowFailed, Fail, Bury, Goto, TypeOK
  <2> QED BY <1>0, <1>1, <1>2, <2>1, <2>2
<1>6. ASSUME NEW empty \in BOOLEAN, StageSucceeds(p, empty)
      PROVE  /\ Needs(at'[p]) \subseteq stash'[job'[p]]
             /\ (pc'[p] = "save" /\ at'[p] # Intake) => at'[p] \in stash'[job'[p]]
  <2>1. pc[p] \in InStage /\ at'[p] = at[p]
    BY <1>6 DEF StageSucceeds, At, InStage
  <2>2. ~empty
    BY <1>0, <1>6 DEF StageSucceeds, Kept, TypeOK
  <2>3. input[p] # "orphaned"
    BY <1>0 DEF Shape, Kept
  <2>4. at[p] # Intake => at[p] \in stash'[job[p]]
    BY <1>0, <1>6, <2>2, <2>3 DEF StageSucceeds, TypeOK
  <2> QED BY <1>0, <1>1, <1>2, <2>1, <2>4
<1>7. CASE Save(p)
  <2>1. pc[p] = "save" /\ at'[p] = at[p] + 1
    BY <1>7 DEF Save, At, TypeOK
  <2>2. pc'[p] # "save"
    BY <1>7 DEF Save, Goto, TypeOK
  <2>3. at[p] \in Stages /\ Needs(at[p] + 1) \subseteq stash[job[p]]
    BY <1>2, <2>1, NeedsFacts DEF InStage
  <2> QED BY <1>0, <1>1, <2>1, <2>2, <2>3
<1>8. CASE ~(Load(p) \/ Skip(p) \/ CallStage(p) \/ StageFails(p) \/ ShowFailed(p) \/ Fail(p)
             \/ Bury(p) \/ (\E empty \in BOOLEAN : StageSucceeds(p, empty)) \/ Save(p))
  <2>1. ASSUME NEW where, Goto(p, where), where \notin InStage
        PROVE  pc'[p] \notin InStage
    BY <2>1 DEF Goto, TypeOK
  <2>2. CASE \E j \in Jobs : Begin(p, j, "load") \/ Begin(p, j, "reset")
    BY <2>1, <2>2 DEF Begin, InStage
  <2>3. CASE Reset(p) \/ Report(p)
    BY <2>1, <2>3 DEF Reset, Report, Finish, InStage
  <2>4. CASE Collect(p) \/ FailEmpty(p) \/ BuryEmpty(p) \/ Forget(p) \/ ClearStash(p) \/ Stop(p)
    BY <2>1, <2>4 DEF Collect, FailEmpty, BuryEmpty, Forget, ClearStash, Stop, InStage
  <2>5. \/ Reset(p) \/ Report(p) \/ Collect(p) \/ FailEmpty(p) \/ BuryEmpty(p) \/ Forget(p)
        \/ ClearStash(p) \/ Stop(p) \/ \E j \in Jobs : Begin(p, j, "load") \/ Begin(p, j, "reset")
    <3>1. CASE Dequeue(p)
      <4>1. Head(queue) \in Jobs /\ Begin(p, Head(queue), "load")
        BY <1>0, <3>1 DEF Dequeue, TypeOK
      <4> QED BY <4>1
    <3>2. CASE \E j \in Jobs : Process(p, j) \/ Resume(p, j)
      BY <3>2 DEF Process, Resume
    <3> QED BY <1>8, <3>1, <3>2 DEF Moves, Step
  <2> QED BY <2>2, <2>3, <2>4, <2>5
<1> QED BY <1>3, <1>4, <1>5, <1>6, <1>7, <1>8

\* Every step keeps StashInv.
LEMMA StashStep == BaseInv /\ BaseInv' /\ StashInv /\ [Next]_vars => StashInv'
<1> SUFFICES ASSUME BaseInv, BaseInv', StashInv, [Next]_vars PROVE StashInv'
  OBVIOUS
<1>0. TypeOK /\ TypeOK' /\ Shape /\ Shape'
  BY DEF BaseInv
<1>1. CASE UNCHANGED vars \/ Outside
  <2>1. UNCHANGED <<storeVars, stash, procVars, callVars, restarts, historyVars>>
    BY <1>1, OutsideLeaves
  <2> QED BY <2>1 DEF StashInv, Kept, storeVars, procVars, historyVars
<1>2. CASE Restart
  <2>1. restarts' # 0
    BY <1>0, <1>2 DEF Restart, TypeOK
  <2> QED BY <2>1 DEF StashInv, Kept
<1>3. ASSUME NEW p \in Procs, Moves(p) PROVE StashInv'
  <2>1. ASSUME NEW j \in Jobs, Kept(j)' PROVE
           /\ Kept(j)
           /\ checkpoint'[j] \in Stages => Needs(checkpoint'[j]) \subseteq stash'[j]
           /\ \A s \in Stages \ {Intake} : records'[j][s].completed => s \in stash'[j]
    <3>1. Kept(j)
      BY <1>0, <2>1, HistoryGrows DEF Kept
    <3>2. stash[j] \subseteq stash'[j]
      BY <1>0, <1>3, <2>1, StashGrows
    <3>3. checkpoint'[j] \in Stages => Needs(checkpoint'[j]) \subseteq stash[j]
      <4>1. CASE checkpoint'[j] = checkpoint[j]
        BY <3>1, <4>1 DEF StashInv
      <4>2. CASE checkpoint'[j] # checkpoint[j]
        <5>1. /\ job[p] = j
              /\ \/ Save(p) /\ checkpoint'[j] = at[p] + 1
                 \/ Fail(p) /\ checkpoint'[j] = at[p]
                 \/ FailEmpty(p) /\ checkpoint'[j] = Failed
                 \/ Forget(p) /\ checkpoint'[j] = NoStage
          BY <1>0, <1>3, <4>2, CheckpointChange
        <5>2. CASE Save(p) /\ checkpoint'[j] = at[p] + 1
          <6>1. pc[p] = "save" /\ at[p] \in Stages
            BY <1>0, <5>2 DEF Save, At, Shape, InStage
          <6>2. at[p] # Intake => at[p] \in stash[j]
            BY <3>1, <5>1, <6>1 DEF StashInv, InStage
          <6> QED BY <5>2, <6>1, <6>2, NeedsFacts
        <5>3. CASE Fail(p) /\ checkpoint'[j] = at[p]
          <6>1. pc[p] = "fail"
            BY <5>3 DEF Fail, At
          <6> QED BY <3>1, <5>1, <5>3, <6>1 DEF StashInv, InStage
        <5> QED BY <5>1, <5>2, <5>3, StageFacts
      <4> QED BY <4>1, <4>2
    <3>4. ASSUME NEW s \in Stages \ {Intake}, records'[j][s].completed PROVE s \in stash'[j]
      <4>1. CASE records[j][s].completed
        BY <3>1, <3>2, <4>1 DEF StashInv
      <4>2. CASE ~records[j][s].completed
        <5>1. /\ job[p] = j /\ at[p] = s
              /\ \E empty \in BOOLEAN : StageSucceeds(p, empty)
          BY <1>0, <1>3, <3>4, <4>2, CompletedChange
        <5>2. PICK empty \in BOOLEAN : StageSucceeds(p, empty)
          BY <5>1
        <5>3. ~empty
          BY <1>0, <2>1, <5>1, <5>2 DEF StageSucceeds, Kept, TypeOK
        <5>4. input[p] # "orphaned"
          BY <1>0, <3>1, <5>1 DEF Shape, Kept
        <5> QED BY <1>0, <5>1, <5>2, <5>3, <5>4 DEF StageSucceeds, TypeOK
      <4> QED BY <4>1, <4>2
    <3> QED BY <3>1, <3>2, <3>3, <3>4
  <2>2. ASSUME NEW q \in Procs \ {p} PROVE Relies(q)'
    <3>1. Same(q)
      BY <1>0, <1>3, OthersStay
    <3>2. ASSUME NEW i \in Jobs, Kept(i)' PROVE Kept(i) /\ stash[i] \subseteq stash'[i]
      BY <1>0, <1>3, <2>1, <3>2, StashGrows
    <3>3. Relies(q)
      BY DEF StashInv, Relies
    <3> QED
      <4> SUFFICES ASSUME pc'[q] \in InStage, Kept(job[q])'
                   PROVE  /\ Needs(at'[q]) \subseteq stash'[job'[q]]
                          /\ (pc'[q] = "save" /\ at'[q] # Intake) => at'[q] \in stash'[job'[q]]
        BY DEF Relies
      <4>1. pc'[q] = pc[q] /\ job'[q] = job[q] /\ at'[q] = at[q]
        BY <3>1 DEF Same
      <4>2. PICK i \in Jobs : i = job[q]
        BY <1>0, <4>1 DEF Shape, Active, InStage
      <4>3. Kept(i)'
        BY <4>1, <4>2 DEF Kept
      <4>4. Kept(i) /\ stash[i] \subseteq stash'[i]
        BY <3>2, <4>3
      <4> QED BY <3>3, <4>1, <4>2, <4>4 DEF Relies
  <2>3. Relies(p)'
    BY <1>0, <1>3, ReliesOwn
  <2>4. \A q \in Procs : Relies(q)'
    BY <2>2, <2>3
  <2> QED BY <2>1, <2>4 DEF StashInv, Relies
<1> QED BY <1>1, <1>2, <1>3, Cases

-----------------------------------------------------------------------------
(* One call at a time.                                                     *)

\* Every step keeps AloneInv: a second call on a job marks it as overlapped.
LEMMA AloneStep == BaseInv /\ AloneInv /\ [Next]_vars => AloneInv'
<1> SUFFICES ASSUME BaseInv, AloneInv, [Next]_vars PROVE AloneInv'
  OBVIOUS
<1>0. TypeOK /\ Shape
  BY DEF BaseInv
<1>1. CASE UNCHANGED vars \/ Outside
  <2>1. UNCHANGED <<storeVars, stash, procVars, callVars, restarts, historyVars>>
    BY <1>1, OutsideLeaves
  <2> QED BY <2>1 DEF AloneInv, Active, procVars, callVars
<1>2. CASE Restart
  BY <1>2 DEF Restart, AloneInv, Active
<1>3. ASSUME NEW p \in Procs, Moves(p) PROVE AloneInv'
  <2>1. ASSUME NEW q \in Procs \ {p}, Active(q)', Active(p)', job'[q] = job'[p], ~overlapped'[job'[p]]
        PROVE  FALSE
    <3>1. Active(q) /\ job'[q] = job[q] /\ job[q] \in Jobs
      BY <1>0, <1>3, <2>1, OthersStay DEF Same, Active, Shape
    <3>2. CASE Active(p) /\ job'[p] = job[p]
      <4>1. ~overlapped[job[p]]
        BY <1>0, <2>1, <3>1, <3>2, HistoryGrows
      <4> QED BY <2>1, <3>1, <3>2, <4>1 DEF AloneInv
    <3>3. ASSUME NEW j \in Jobs, NEW where, Begin(p, j, where) PROVE FALSE
      <4>1. job'[p] = j
        BY <1>0, <3>3 DEF Begin, TypeOK
      <4>2. overlapped'[j]
        BY <1>0, <2>1, <3>1, <3>3, <4>1 DEF Begin, TypeOK
      <4> QED BY <2>1, <4>1, <4>2
    <3>4. ~(~Active(p) /\ Stop(p))
      BY <1>0, <2>1 DEF Stop, Goto, Active, TypeOK
    <3> QED BY <1>0, <1>3, <2>1, <3>2, <3>3, <3>4, OwnJob
  <2>2. ASSUME NEW q \in Procs \ {p}, NEW r \in Procs \ {p},
               Active(q)', Active(r)', job'[q] = job'[r], ~overlapped'[job'[q]]
        PROVE  q = r
    <3>1. Active(q) /\ job'[q] = job[q] /\ job[q] \in Jobs /\ Active(r) /\ job'[r] = job[r]
      BY <1>0, <1>3, <2>2, OthersStay DEF Same, Active, Shape
    <3>2. ~overlapped[job[q]]
      BY <1>0, <2>2, <3>1, HistoryGrows
    <3> QED BY <2>2, <3>1, <3>2 DEF AloneInv
  <2> SUFFICES ASSUME NEW q \in Procs, NEW r \in Procs,
                      Active(q)', Active(r)', job'[q] = job'[r], ~overlapped'[job'[q]]
               PROVE  q = r
    BY DEF AloneInv
  <2> QED BY <2>1, <2>2
<1> QED BY <1>1, <1>2, <1>3, Cases

\* A process in a job of its own: the others' steps leave what the stores hold for it.
LEMMA Undisturbed ==
    ASSUME TypeOK, Shape, AloneInv, NEW p \in Procs, Moves(p), NEW q \in Procs \ {p},
           Active(q)', Alone(job[q])'
    PROVE  /\ Active(q) /\ Same(q) /\ job[q] \in Jobs /\ Alone(job[q])
           /\ status'[job[q]] = status[job[q]] /\ checkpoint'[job[q]] = checkpoint[job[q]]
           /\ records'[job[q]] = records[job[q]] /\ letters'[job[q]] = letters[job[q]]
           /\ stash'[job[q]] = stash[job[q]]
<1>1. Same(q)
  BY OthersStay
<1>2. Active(q) /\ job'[q] = job[q] /\ job[q] \in Jobs
  BY <1>1 DEF Same, Active, Shape
<1>3. [Next]_vars
  BY DEF Moves, Next
<1>4. restarts = 0 /\ ~overlapped[job[q]]
  BY <1>2, <1>3, HistoryGrows DEF Alone
<1>5. ~Active(p) \/ job[p] # job[q]
  BY <1>2, <1>4 DEF AloneInv
<1> QED BY <1>1, <1>2, <1>4, <1>5, Elsewhere DEF Alone

-----------------------------------------------------------------------------
(* What the stage records say of a job that one call at a time works on.   *)

\* Where the one call of a job is.
BackedAt(p) ==
    (Active(p) /\ Alone(job[p])) =>
         /\ pc[p] = "reset" => checkpoint[job[p]] = at[p]
         /\ (pc[p] \in InStage /\ ~cleared[job[p]]) => Before(job[p], at[p])
         /\ (pc[p] = "save" /\ ~cleared[job[p]]) => records[job[p]][at[p]].completed

\* Before a stage the records stay: a Resume resets the stage it goes on from.
LEMMA BeforeStays ==
    ASSUME TypeOK, TypeOK', Shape, NEW p \in Procs, Moves(p), NEW j \in Jobs,
           NEW s \in Stage, s <= Complete,
           Before(j, s), Reset(p) /\ job[p] = j => at[p] >= s
    PROVE  Before(j, s)'
<1> SUFFICES ASSUME NEW k \in Intake .. s - 1 PROVE records'[j][k].completed
  BY DEF Before
<1>1. k \in Stages /\ k \in Nat /\ k < s /\ s \in Nat
  BY StageFacts
<1>2. records[j][k].completed
  BY DEF Before
<1>3. CASE records'[j][k].completed = records[j][k].completed
  BY <1>2, <1>3
<1>4. CASE records'[j][k].completed # records[j][k].completed
  <2>1. records[j][k].completed \in BOOLEAN /\ records'[j][k].completed \in BOOLEAN
    <3>1. /\ records \in [Jobs -> [Stages -> [completed : BOOLEAN, attempts : Nat]]]
          /\ records' \in [Jobs -> [Stages -> [completed : BOOLEAN, attempts : Nat]]]
      BY DEF TypeOK
    <3> QED BY <1>1, <3>1
  <2>2. ~records'[j][k].completed
    BY <1>2, <1>4, <2>1
  <2>3. /\ job[p] = j /\ at[p] = k
        /\ Reset(p) \/ records'[j][k].completed
    BY <1>1, <1>4, CompletedChange
  <2> QED BY <1>1, <2>2, <2>3
<1> QED BY <1>3, <1>4

\* A process keeps what the records say of where it is.
LEMMA BackedOwn ==
    ASSUME TypeOK, TypeOK', Shape, BackedInv, NEW p \in Procs, Moves(p)
    PROVE  BackedAt(p)'
<1> SUFFICES ASSUME Active(p)', Alone(job[p])'
             PROVE  /\ pc'[p] = "reset" => checkpoint'[job'[p]] = at'[p]
                    /\ (pc'[p] \in InStage /\ ~cleared'[job'[p]]) => Before(job[p], at[p])'
                    /\ (pc'[p] = "save" /\ ~cleared'[job'[p]]) => records'[job'[p]][at'[p]].completed
  BY DEF BackedAt
<1>1. CASE \E j \in Jobs : p \in Callers /\ (Process(p, j) \/ Resume(p, j))
  <2>1. PICK j \in Jobs : Process(p, j) \/ Resume(p, j)
    BY <1>1
  <2>2. job'[p] = j /\ UNCHANGED checkpoint
    BY <2>1 DEF Process, Resume, Begin, storeVars, TypeOK
  <2>3. pc'[p] = "load" \/ (pc'[p] = "reset" /\ at'[p] = checkpoint[j])
    BY <2>1 DEF Process, Resume, Begin, Goto, TypeOK
  <2> QED BY <2>2, <2>3 DEF InStage
<1>2. CASE Dequeue(p)
  <2>1. pc'[p] = "load"
    BY <1>2 DEF Dequeue, Begin, Goto, TypeOK
  <2> QED BY <2>1 DEF InStage
<1>3. CASE Step(p) /\ ~Dequeue(p)
  <2>0. Active(p) /\ job'[p] = job[p] /\ job[p] \in Jobs /\ Alone(job[p])
    <3>1. ASSUME NEW j, NEW where, Begin(p, j, where) PROVE FALSE
      BY <1>3, <3>1 DEF Step, Begin, At, Reset, Load, Skip, CallStage, StageSucceeds, StageFails,
               Save, ShowFailed, Fail, Bury, Report, Collect, FailEmpty, BuryEmpty, Forget, ClearStash,
               Stop, Goto, Active, TypeOK
    <3>2. ~Stop(p)
      BY DEF Stop, Goto, Active, TypeOK
    <3>3. Active(p) /\ job'[p] = job[p] /\ job[p] \in Jobs
      BY <3>1, <3>2, OwnJob DEF Shape
    <3>4. [Next]_vars
      BY DEF Moves, Next
    <3> QED BY <3>3, <3>4, HistoryGrows DEF Alone
  <2>1. PICK j \in Jobs : j = job[p]
    BY <2>0
  <2>2. cleared[j] => cleared'[j]
    <3>1. [Next]_vars
      BY DEF Moves, Next
    <3> QED BY <3>1, HistoryGrows
  <2>3. /\ pc[p] = "reset" => checkpoint[j] = at[p]
        /\ (pc[p] \in InStage /\ ~cleared[j]) => Before(j, at[p])
        /\ (pc[p] = "save" /\ ~cleared[j]) => records[j][at[p]].completed
        /\ (~cleared[j] /\ checkpoint[j] \in Stages) => Before(j, checkpoint[j])
        /\ pc[p] \in InStage => at[p] \in Stages
    BY <2>0, <2>1 DEF BackedInv, Shape
  <2>4. ASSUME pc[p] \in InStage, ~Reset(p), ~cleared[j], at'[p] = at[p]
        PROVE  Before(job[p], at[p])'
    <3>1. Before(j, at[p]) /\ at[p] \in Stage /\ at[p] <= Complete
      BY <2>3, <2>4, StageFacts
    <3>2. PICK s \in Stage : s = at[p] /\ s <= Complete
      BY <3>1
    <3>3. Before(j, s)'
      BY <2>4, <3>1, <3>2, BeforeStays
    <3> QED BY <2>0, <2>1, <2>4, <3>2, <3>3 DEF Before
  <2>5. CASE Reset(p)
    <3>1. pc'[p] \in {"idle", "load"}
      BY <2>5 DEF Reset, Finish, Goto, TypeOK
    <3> QED BY <3>1 DEF InStage
  <2>6. CASE Load(p)
    <3>1. /\ pc'[p] = "check" /\ UNCHANGED records
          /\ (at'[p] = checkpoint[j] /\ at'[p] \in Stages) \/ at'[p] = Intake
      BY <2>1, <2>6 DEF Load, Goto, TypeOK
    <3>2. ~cleared'[j] => \A k \in Intake .. at'[p] - 1 : records'[j][k].completed
      <4>1. CASE at'[p] = checkpoint[j] /\ at'[p] \in Stages
        BY <2>2, <2>3, <3>1, <4>1 DEF Before
      <4>2. CASE at'[p] = Intake
        BY <4>2 DEF Intake
      <4> QED BY <3>1, <4>1, <4>2
    <3> QED BY <2>0, <2>1, <3>1, <3>2 DEF Before
  <2>7. CASE Skip(p)
    <3>1. pc[p] = "check" /\ pc'[p] = "save" /\ at'[p] = at[p]
      BY <2>7 DEF Skip, At, Goto, TypeOK
    <3>2. records'[j][at'[p]].completed
      BY <2>1, <2>7 DEF Skip, storeVars
    <3>3. ~Reset(p)
      BY <3>1 DEF Reset, At
    <3> QED BY <2>0, <2>1, <2>2, <2>4, <3>1, <3>2, <3>3 DEF InStage
  <2>8. CASE CallStage(p) \/ StageFails(p) \/ ShowFailed(p) \/ Fail(p) \/ Bury(p)
    <3>1. pc[p] \in InStage /\ pc[p] # "reset" /\ at'[p] = at[p]
      BY <2>8 DEF CallStage, StageFails, ShowFailed, Fail, Bury, At, InStage
    <3>2. pc'[p] \in {"running", "failed", "fail", "retry", "bury", "report"}
      BY <2>8 DEF CallStage, StageFails, Leave, ShowFailed, Fail, Bury, Goto, TypeOK
    <3>3. ~Reset(p)
      BY <3>1 DEF Reset, At
    <3> QED BY <2>0, <2>1, <2>2, <2>4, <3>1, <3>2, <3>3
  <2>9. ASSUME NEW empty \in BOOLEAN, StageSucceeds(p, empty)
        PROVE  /\ pc'[p] = "reset" => checkpoint'[job'[p]] = at'[p]
               /\ (pc'[p] \in InStage /\ ~cleared'[job'[p]]) => Before(job[p], at[p])'
               /\ (pc'[p] = "save" /\ ~cleared'[job'[p]]) => records'[job'[p]][at'[p]].completed
    <3>1. pc[p] = "running" /\ pc'[p] = "save" /\ at'[p] = at[p]
      BY <2>9 DEF StageSucceeds, Leave, At, Goto, TypeOK
    <3>2. records'[j][at'[p]].completed
      BY <2>1, <2>9, <3>1, SuccessRecorded
    <3>3. ~Reset(p)
      BY <3>1 DEF Reset, At
    <3> QED BY <2>0, <2>1, <2>2, <2>4, <3>1, <3>2, <3>3 DEF InStage
  <2>10. CASE Save(p)
    <3>1. pc[p] = "save" /\ pc'[p] \in {"collect", "check"} /\ at'[p] = at[p] + 1 /\ UNCHANGED records
      BY <2>10 DEF Save, At, Goto, TypeOK
    <3>2. ~cleared'[j] => \A k \in Intake .. at[p] : records'[j][k].completed
      <4>1. at[p] \in Nat
        BY <2>3, <3>1, StageFacts DEF InStage
      <4>2. \A k \in Intake .. at[p] : k = at[p] \/ k \in Intake .. at[p] - 1
        BY <4>1 DEF Intake
      <4> QED BY <2>2, <2>3, <3>1, <4>2 DEF Before, InStage
    <3>3. at[p] \in Nat /\ at'[p] - 1 = at[p]
      BY <2>3, <3>1, StageFacts DEF InStage
    <3> QED BY <2>0, <2>1, <3>1, <3>2, <3>3 DEF Before
  <2>11. CASE \/ Report(p) \/ Collect(p) \/ FailEmpty(p) \/ BuryEmpty(p) \/ Forget(p)
              \/ ClearStash(p) \/ Stop(p)
    <3>1. pc'[p] \in {"idle", "forget", "failEmpty", "buryEmpty", "clear", "stopped"}
      BY <2>11 DEF Report, Finish, Collect, FailEmpty, BuryEmpty, Forget, ClearStash, Stop, Goto, TypeOK
    <3> QED BY <3>1 DEF InStage
  <2> QED BY <1>3, <2>5, <2>6, <2>7, <2>8, <2>9, <2>10, <2>11 DEF Step
<1> QED BY <1>1, <1>2, <1>3 DEF Moves

\* Every step keeps BackedInv.
LEMMA BackedStep == BaseInv /\ BaseInv' /\ AloneInv /\ BackedInv /\ [Next]_vars => BackedInv'
<1> SUFFICES ASSUME BaseInv, BaseInv', AloneInv, BackedInv, [Next]_vars PROVE BackedInv'
  OBVIOUS
<1>0. TypeOK /\ TypeOK' /\ Shape
  BY DEF BaseInv
<1>1. CASE UNCHANGED vars \/ Outside
  <2>1. UNCHANGED <<storeVars, stash, procVars, callVars, restarts, historyVars>>
    BY <1>1, OutsideLeaves
  <2> QED BY <2>1 DEF BackedInv, Alone, Before, Active, storeVars, procVars, callVars, historyVars
<1>2. CASE Restart
  <2>1. restarts' # 0
    BY <1>0, <1>2 DEF Restart, TypeOK
  <2> QED BY <2>1 DEF BackedInv, Alone
<1>3. ASSUME NEW p \in Procs, Moves(p) PROVE BackedInv'
  <2>1. ASSUME NEW j \in Jobs, Alone(j)', ~cleared'[j], checkpoint'[j] \in Stages
        PROVE  \A k \in Intake .. checkpoint'[j] - 1 : records'[j][k].completed
    <3>1. Alone(j) /\ ~cleared[j]
      BY <1>0, <2>1, HistoryGrows DEF Alone
    <3>2. CASE checkpoint'[j] = checkpoint[j]
      <4>1. PICK s \in Stage : s = checkpoint[j] /\ s <= Complete /\ s \in Stages
        BY <2>1, <3>2, StageFacts
      <4>2. Before(j, s)
        BY <3>1, <4>1 DEF BackedInv
      <4>3. ASSUME Reset(p), job[p] = j PROVE at[p] >= s
        <5>1. Active(p) /\ pc[p] = "reset"
          BY <4>3 DEF Reset, At, Active
        <5>2. at[p] = s
          BY <3>1, <4>1, <4>3, <5>1 DEF BackedInv
        <5> QED BY <4>1, <5>2, StageFacts
      <4>4. Before(j, s)'
        BY <1>0, <1>3, <4>1, <4>2, <4>3, BeforeStays
      <4> QED BY <3>2, <4>1, <4>4 DEF Before
    <3>3. CASE checkpoint'[j] # checkpoint[j]
      <4>1. /\ Active(p) /\ job[p] = j
            /\ \/ Save(p) /\ checkpoint'[j] = at[p] + 1
               \/ Fail(p) /\ checkpoint'[j] = at[p]
        BY <1>0, <1>3, <2>1, <3>3, CheckpointChange, StageFacts
      <4>2. UNCHANGED records
        BY <4>1 DEF Save, Fail
      <4>3. /\ pc[p] \in InStage => Before(j, at[p]) /\ at[p] \in Nat
            /\ pc[p] = "save" => records[j][at[p]].completed
        BY <1>0, <3>1, <4>1, StageFacts DEF BackedInv, Shape
      <4>4. CASE Save(p) /\ checkpoint'[j] = at[p] + 1
        <5>1. pc[p] = "save" /\ pc[p] \in InStage
          BY <4>4 DEF Save, At, InStage
        <5>2. \A k \in Intake .. at[p] : k = at[p] \/ k \in Intake .. at[p] - 1
          BY <4>3, <5>1 DEF Intake
        <5>3. at[p] + 1 - 1 = at[p]
          BY <4>3, <5>1
        <5> QED BY <4>2, <4>3, <4>4, <5>1, <5>2, <5>3 DEF Before
      <4>5. CASE Fail(p) /\ checkpoint'[j] = at[p]
        <5>1. pc[p] \in InStage
          BY <4>5 DEF Fail, At, InStage
        <5> QED BY <4>2, <4>3, <4>5, <5>1 DEF Before
      <4> QED BY <4>1, <4>4, <4>5
    <3> QED BY <3>2, <3>3
  <2>2. ASSUME NEW q \in Procs \ {p} PROVE BackedAt(q)'
    <3> SUFFICES ASSUME Active(q)', Alone(job[q])' PROVE BackedAt(q)'
      BY DEF BackedAt
    <3>1. /\ Active(q) /\ Same(q) /\ job[q] \in Jobs /\ Alone(job[q])
          /\ checkpoint'[job[q]] = checkpoint[job[q]] /\ records'[job[q]] = records[job[q]]
      BY <1>0, <1>3, Undisturbed
    <3>2. cleared[job[q]] => cleared'[job[q]]
      BY <1>0, <3>1, HistoryGrows
    <3>3. /\ pc[q] = "reset" => checkpoint[job[q]] = at[q]
          /\ (pc[q] \in InStage /\ ~cleared[job[q]]) => Before(job[q], at[q])
          /\ (pc[q] = "save" /\ ~cleared[job[q]]) => records[job[q]][at[q]].completed
      BY <3>1 DEF BackedInv
    <3> QED BY <3>1, <3>2, <3>3 DEF Same, BackedAt, Before
  <2>3. BackedAt(p)'
    BY <1>0, <1>3, BackedOwn
  <2>4. \A q \in Procs : BackedAt(q)'
    BY <2>2, <2>3
  <2> QED BY <2>1, <2>4 DEF BackedInv, BackedAt, Before
<1> QED BY <1>1, <1>2, <1>3, Cases

\* A job that two calls never worked on at once has one call at most, and where that
\* call is says which stages are recorded (process, Resume).
THEOREM OneAtATime == Spec => [](AloneInv /\ BackedInv)
<1>1. Init => AloneInv /\ BackedInv
  BY StageFacts DEF Init, AloneInv, BackedInv, Active
<1> QED BY Base, <1>1, AloneStep, BackedStep, PTL DEF Spec

\* What the checkpoint of a job says was done is there to go on from: the result its
\* stage needs is in the stash, and the stages before it are recorded as completed, as
\* long as no restart, no end of the job, no empty result and, for the records, no
\* second call came between.
THEOREM CheckpointsAreBacked == Spec => []CheckpointIsBacked
<1>1. Init => StashInv
  BY StashInit
<1>2. BaseInv /\ StashInv /\ BackedInv => CheckpointIsBacked
  BY DEF StashInv, BackedInv, CheckpointIsBacked, Kept, Alone, Before
<1> QED BY Base, OneAtATime, <1>1, <1>2, StashStep, PTL DEF Spec

-----------------------------------------------------------------------------
(* Failure.                                                                *)

\* Where the one call of a job is on its way to a failure or an end.
FailsAt(p) ==
    (Active(p) /\ Alone(job[p])) =>
         /\ pc[p] = "bury" => checkpoint[job[p]] = at[p]
         /\ pc[p] = "buryEmpty" => checkpoint[job[p]] # NoStage
         /\ pc[p] = "report" => Recoverable(job[p])
         /\ pc[p] = "forget" => status[job[p]] # Failed
         /\ (pc[p] = "clear" /\ status[job[p]] = Failed) =>
              checkpoint[job[p]] # NoStage /\ letters[job[p]] # NoStage

\* A job that can be resumed stays so while what is stored of it stays.
LEMMA StaysRecoverable ==
    ASSUME TypeOK, [Next]_vars, NEW j \in Jobs, Recoverable(j),
           checkpoint'[j] = checkpoint[j], letters'[j] = letters[j], stash'[j] = stash[j]
    PROVE  Recoverable(j)'
<1>1. ~cleared'[j] => ~cleared[j]
  BY HistoryGrows
<1>2. ~hollow'[j] => ~hollow[j]
  BY HistoryGrows
<1> QED BY <1>1, <1>2 DEF Recoverable, Runnable

\* A process leaves what FailInv asks of where it goes.
LEMMA FailsOwn ==
    ASSUME TypeOK, Shape, StashInv, FailInv, NEW p \in Procs, Moves(p)
    PROVE  FailsAt(p)'
<1> DEFINE ends == {"bury", "buryEmpty", "report", "forget", "clear"}
<1> SUFFICES ASSUME Active(p)', Alone(job[p])'
             PROVE  /\ pc'[p] = "bury" => checkpoint'[job'[p]] = at'[p]
                    /\ pc'[p] = "buryEmpty" => checkpoint'[job'[p]] # NoStage
                    /\ pc'[p] = "report" => Recoverable(job[p])'
                    /\ pc'[p] = "forget" => status'[job'[p]] # Failed
                    /\ (pc'[p] = "clear" /\ status'[job'[p]] = Failed) =>
                         checkpoint'[job'[p]] # NoStage /\ letters'[job'[p]] # NoStage
  BY DEF FailsAt
<1>1. [Next]_vars
  BY DEF Moves, Next
<1>2. ASSUME NEW where, Goto(p, where), where \notin ends PROVE pc'[p] \notin ends
  BY <1>2 DEF Goto, TypeOK
<1>3. ASSUME Active(p), UNCHANGED job
      PROVE  /\ job'[p] = job[p] /\ job[p] \in Jobs
             /\ pc[p] = "bury" => checkpoint[job[p]] = at[p]
             /\ pc[p] = "buryEmpty" => checkpoint[job[p]] # NoStage
             /\ pc[p] = "forget" => status[job[p]] # Failed
             /\ pc[p] \in InStage => \/ Needs(at[p]) \subseteq stash[job[p]]
                                     \/ hollow[job[p]] \/ cleared[job[p]]
  <2>1. job'[p] = job[p] /\ job[p] \in Jobs
    BY <1>3 DEF Shape
  <2>2. Alone(job[p])
    BY <1>1, <2>1, HistoryGrows DEF Alone
  <2>3. /\ pc[p] = "bury" => checkpoint[job[p]] = at[p]
        /\ pc[p] = "buryEmpty" => checkpoint[job[p]] # NoStage
        /\ pc[p] = "forget" => status[job[p]] # Failed
    BY <1>3, <2>2 DEF FailInv
  <2>4. (pc[p] \in InStage /\ ~hollow[job[p]] /\ ~cleared[job[p]]) =>
          Needs(at[p]) \subseteq stash[job[p]]
    BY <2>2 DEF StashInv, Kept, Alone
  <2> QED BY <2>1, <2>3, <2>4
<1>4. CASE Fail(p)
  <2>1. Active(p) /\ UNCHANGED <<job, at>> /\ pc'[p] = "bury"
    BY <1>4 DEF Fail, At, Active, Goto, TypeOK
  <2>2. checkpoint'[job[p]] = at[p]
    BY <1>3, <1>4, <2>1 DEF Fail, TypeOK
  <2> QED BY <1>3, <2>1, <2>2
<1>5. CASE Bury(p)
  <2>1. /\ Active(p) /\ at[p] \in Stages /\ UNCHANGED <<job, checkpoint, stash, hollow, cleared>>
        /\ pc[p] = "bury" /\ pc'[p] = "report"
    BY <1>5 DEF Bury, At, Active, Shape, InStage, Goto, TypeOK, historyVars
  <2>2. PICK j \in Jobs, s \in Stages : j = job[p] /\ j = job'[p] /\ s = at[p]
    BY <1>3, <2>1
  <2>3. letters'[j] = s /\ checkpoint'[j] = s
    BY <1>3, <1>5, <2>1, <2>2 DEF Bury, TypeOK
  <2>4. Needs(s) \subseteq stash'[j] \/ hollow'[j] \/ cleared'[j]
    BY <1>3, <2>1, <2>2 DEF InStage
  <2>5. Recoverable(j)'
    BY <2>3, <2>4, StageFacts DEF Recoverable, Runnable
  <2>6. Recoverable(job[p])'
    BY <2>2, <2>5 DEF Recoverable, Runnable
  <2> QED BY <2>1, <2>6
<1>6. CASE Collect(p)
  <2>1. Active(p) /\ UNCHANGED job
    BY <1>6 DEF Collect, At, Active
  <2>2. \/ pc'[p] = "forget" /\ status'[job[p]] = Complete
        \/ pc'[p] = "failEmpty"
    BY <1>3, <1>6, <2>1 DEF Collect, Goto, TypeOK
  <2> QED BY <1>3, <2>1, <2>2, StageFacts
<1>10. CASE FailEmpty(p)
  <2>1. Active(p) /\ UNCHANGED job /\ pc'[p] = "buryEmpty"
    BY <1>10 DEF FailEmpty, At, Active, Goto, TypeOK
  <2>2. checkpoint'[job[p]] = Failed
    BY <1>3, <1>10, <2>1 DEF FailEmpty, TypeOK
  <2> QED BY <1>3, <2>1, <2>2, StageFacts
<1>7. CASE BuryEmpty(p)
  <2>1. /\ Active(p) /\ UNCHANGED <<job, checkpoint>>
        /\ pc[p] = "buryEmpty" /\ pc'[p] = "clear"
    BY <1>7 DEF BuryEmpty, At, Active, Goto, TypeOK
  <2>2. letters'[job[p]] = Last
    BY <1>3, <1>7, <2>1 DEF BuryEmpty, TypeOK
  <2> QED BY <1>3, <2>1, <2>2, StageFacts
<1>8. CASE Forget(p)
  <2>1. /\ Active(p) /\ UNCHANGED <<job, status>>
        /\ pc[p] = "forget" /\ pc'[p] = "clear"
    BY <1>8 DEF Forget, At, Active, Goto, TypeOK
  <2> QED BY <1>3, <2>1
<1>9. CASE ~(Fail(p) \/ Bury(p) \/ Collect(p) \/ FailEmpty(p) \/ BuryEmpty(p) \/ Forget(p))
  <2>1. CASE Report(p) \/ ClearStash(p) \/ Stop(p)
    BY <2>1 DEF Report, Finish, ClearStash, Stop, Goto, Active, TypeOK
  <2>2. CASE \E j \in Jobs : p \in Callers /\ (Process(p, j) \/ Resume(p, j))
    BY <1>2, <2>2 DEF Process, Resume, Begin
  <2>3. CASE Dequeue(p) \/ Reset(p) \/ Load(p) \/ Skip(p) \/ CallStage(p) \/ ShowFailed(p)
    BY <1>2, <2>3 DEF Dequeue, Begin, Reset, Finish, Load, Skip, CallStage, ShowFailed
  <2>4. CASE (\E empty \in BOOLEAN : StageSucceeds(p, empty)) \/ StageFails(p) \/ Save(p)
    <3>1. PICK where \in {"save", "failed", "retry", "collect", "check"} : Goto(p, where)
      BY <2>4 DEF StageSucceeds, StageFails, Leave, Save
    <3> QED BY <1>2, <3>1
  <2> QED BY <1>9, <2>1, <2>2, <2>3, <2>4 DEF Moves, Step
<1> QED BY <1>4, <1>5, <1>6, <1>7, <1>8, <1>9, <1>10

\* Every step keeps FailInv.
LEMMA FailStep ==
    BaseInv /\ StashInv /\ AloneInv /\ BackedInv /\ FailInv /\ [Next]_vars => FailInv'
<1> SUFFICES ASSUME BaseInv, StashInv, AloneInv, BackedInv, FailInv, [Next]_vars PROVE FailInv'
  OBVIOUS
<1>0. TypeOK /\ Shape
  BY DEF BaseInv
<1>1. CASE UNCHANGED vars \/ Outside
  <2>1. UNCHANGED <<storeVars, stash, procVars, callVars, restarts, historyVars>>
    BY <1>1, OutsideLeaves
  <2> QED BY <2>1 DEF FailInv, FailedIsRecoverable, Recoverable, Runnable, Alone, Active, storeVars,
                      procVars, callVars, historyVars
<1>2. CASE Restart
  <2>1. restarts' # 0
    BY <1>0, <1>2 DEF Restart, TypeOK
  <2> QED BY <2>1 DEF FailInv, FailedIsRecoverable, Alone
<1>3. ASSUME NEW p \in Procs, Moves(p) PROVE FailInv'
  <2>1. ASSUME NEW j \in Jobs, status'[j] = Failed, Alone(j)',
               \A q \in Procs : Active(q)' => job'[q] # j
        PROVE  Recoverable(j)'
    <3>1. Alone(j)
      BY <1>0, <2>1, HistoryGrows DEF Alone
    <3>2. CASE ~Active(p) \/ job[p] # j
      <4>1. \A q \in Procs : Active(q) => job[q] # j
        BY <1>0, <1>3, <2>1, <3>2, OthersStay DEF Same, Active
      <4>2. /\ status[j] = Failed /\ checkpoint'[j] = checkpoint[j] /\ letters'[j] = letters[j]
            /\ stash'[j] = stash[j]
        BY <1>0, <1>3, <2>1, <3>2, Elsewhere
      <4>3. Recoverable(j)
        BY <3>1, <4>1, <4>2 DEF FailInv, FailedIsRecoverable, Recoverable, Alone
      <4> QED BY <1>0, <4>2, <4>3, StaysRecoverable
    <3>3. CASE Active(p) /\ job[p] = j
      <4>1. ASSUME NEW i, NEW where, Begin(p, i, where) PROVE FALSE
        BY <3>3, <4>1 DEF Begin, At, Active
      <4>2. ~(Active(p)' /\ job'[p] = job[p])
        BY <2>1, <3>3
      <4>3. ~Active(p)' /\ (Reset(p) \/ Report(p) \/ ClearStash(p))
        BY <1>0, <1>3, <3>3, <4>1, <4>2, OwnJob
      <4>4. CASE Reset(p)
        <5>1. pc[p] = "reset"
          BY <4>4 DEF Reset, At
        <5>2. checkpoint[j] = at[p] /\ at[p] \in Stage
          BY <1>0, <3>1, <3>3, <5>1 DEF BackedInv, TypeOK
        <5>3. Goto(p, "load")
          BY <3>3, <4>4, <5>2, StageFacts DEF Reset
        <5> QED BY <1>0, <4>3, <5>3 DEF Goto, Active, TypeOK
      <4>5. CASE Report(p)
        <5>1. pc[p] = "report" /\ UNCHANGED <<checkpoint, letters, stash>>
          BY <4>5 DEF Report, At
        <5>2. Recoverable(j)
          BY <3>1, <3>3, <5>1 DEF FailInv
        <5> QED BY <1>0, <5>1, <5>2, StaysRecoverable
      <4>6. CASE ClearStash(p)
        <5>1. pc[p] = "clear" /\ UNCHANGED <<status, checkpoint, letters>>
          BY <4>6 DEF ClearStash, At, storeVars
        <5>2. checkpoint[j] # NoStage /\ letters[j] # NoStage
          BY <2>1, <3>1, <3>3, <5>1 DEF FailInv
        <5>3. cleared'[j]
          BY <1>0, <3>3, <4>6 DEF ClearStash, TypeOK
        <5> QED BY <5>1, <5>2, <5>3 DEF Recoverable
      <4> QED BY <4>3, <4>4, <4>5, <4>6
    <3> QED BY <3>2, <3>3
  <2>2. ASSUME NEW q \in Procs \ {p} PROVE FailsAt(q)'
    <3> SUFFICES ASSUME Active(q)', Alone(job[q])' PROVE FailsAt(q)'
      BY DEF FailsAt
    <3>1. /\ Active(q) /\ Same(q) /\ job[q] \in Jobs /\ Alone(job[q])
          /\ status'[job[q]] = status[job[q]] /\ checkpoint'[job[q]] = checkpoint[job[q]]
          /\ letters'[job[q]] = letters[job[q]] /\ stash'[job[q]] = stash[job[q]]
      BY <1>0, <1>3, Undisturbed
    <3>2. FailsAt(q)
      BY DEF FailInv, FailsAt
    <3>3. PICK i \in Jobs : i = job[q] /\ i = job'[q]
      BY <3>1 DEF Same
    <3>4. Recoverable(i) => Recoverable(i)'
      BY <1>0, <3>1, <3>3, StaysRecoverable
    <3>5. pc'[q] = "report" => Recoverable(job[q])'
      <4>1. pc'[q] = "report" => Recoverable(i)'
        BY <3>1, <3>2, <3>3, <3>4 DEF Same, FailsAt
      <4> QED BY <3>3, <4>1 DEF Recoverable, Runnable
    <3> QED BY <3>1, <3>2, <3>5 DEF Same, FailsAt
  <2>3. FailsAt(p)'
    BY <1>0, <1>3, FailsOwn
  <2>4. \A q \in Procs : FailsAt(q)'
    BY <2>2, <2>3
  <2>5. FailedIsRecoverable'
    BY <2>1 DEF FailedIsRecoverable, Recoverable, Alone
  <2> QED BY <2>4, <2>5 DEF FailInv, FailsAt
<1> QED BY <1>1, <1>2, <1>3, Cases

\* A job shown as failed that nobody works on is in the dead letters, and Resume can run
\* the stage it died at on the results that stage needs, whenever one call at a time
\* worked on the job, no stage succeeded with nothing and no end of the job cleared what
\* its stages had left.
THEOREM FailuresAreRecoverable == Spec => []FailedIsRecoverable
<1>1. Init => FailInv
  BY StageFacts DEF Init, FailInv, FailedIsRecoverable, Active
<1>2. FailInv => FailedIsRecoverable
  BY DEF FailInv
<1>3. Init => StashInv
  BY StashInit
<1> QED BY Base, OneAtATime, <1>1, <1>2, <1>3, StashStep, FailStep, PTL DEF Spec

=============================================================================
