-------------------------- MODULE BulkImportProofs --------------------------
(***************************************************************************)
(* Proofs about BulkImport, for any source, any number of callers, and     *)
(* every bound on calls and errors.                                        *)
(***************************************************************************)
EXTENDS BulkImport, FiniteSetTheorems, TLAPS

-----------------------------------------------------------------------------
(* Data.                                                                   *)

\* A record taken in is one of the three outcomes of RunBatch.
LEMMA OutcomeFacts ==
    ASSUME NEW c \in Callers
    PROVE  OutcomeOf(c) \in {"imported", "skipped", "rejected"}
  BY DEF OutcomeOf

\* Counting a record, moving the cursor and undoing a job leave it one.
LEMMA CountTyped ==
    ASSUME NEW j \in JobCopy, NEW o
    PROVE  Count(j, o) \in JobCopy
<1> DEFINE a == [j EXCEPT !.processed = @ + 1]
           b == [a EXCEPT !.imported = IF o = "imported" THEN @ + 1 ELSE @]
           d == [b EXCEPT !.skipped = IF o = "skipped" THEN @ + 1 ELSE @]
           e == [d EXCEPT !.rejected = IF o = "rejected" THEN @ + 1 ELSE @]
<1>1. Count(j, o) = e
  BY DEF Count
<1>2. a \in JobCopy
  BY DEF JobCopy
<1> HIDE DEF a
<1>3. b \in JobCopy
  BY <1>2 DEF JobCopy
<1> HIDE DEF b
<1>4. d \in JobCopy
  BY <1>3 DEF JobCopy
<1> HIDE DEF d
<1>5. e \in JobCopy
  BY <1>4 DEF JobCopy
<1> QED BY <1>1, <1>5

\* What counting changes.
LEMMA CountFacts ==
    ASSUME NEW j \in JobCopy, NEW o
    PROVE  /\ Count(j, o).status = j.status
           /\ Count(j, o).cursor = j.cursor
           /\ Count(j, o).processed = j.processed + 1
           /\ Count(j, o).imported = IF o = "imported" THEN j.imported + 1 ELSE j.imported
           /\ Count(j, o).skipped = IF o = "skipped" THEN j.skipped + 1 ELSE j.skipped
           /\ Count(j, o).rejected = IF o = "rejected" THEN j.rejected + 1 ELSE j.rejected
  BY DEF Count, JobCopy

\* The counters after a batch are counters.
LEMMA MovedTyped ==
    ASSUME NEW j \in JobCopy, NEW n \in 0 .. NumRecords
    PROVE  Moved(j, n) \in JobCopy
<1>1. [j EXCEPT !.cursor = n] \in JobCopy
  BY DEF JobCopy
<1>2. ASSUME NEW k \in JobCopy
      PROVE  [k EXCEPT !.status = IF n = NumRecords THEN "completed" ELSE @] \in JobCopy
  BY DEF JobCopy, Statuses
<1> QED BY <1>1, <1>2, Zenon DEF Moved

\* The counters after a rollback are counters.
LEMMA UndoneTyped ==
    ASSUME NEW j \in JobCopy, NEW n \in Nat
    PROVE  Undone(j, n) \in JobCopy
<1>1. [j EXCEPT !.status = "rolled_back"] \in JobCopy
  BY DEF JobCopy, Statuses
<1>2. ASSUME NEW k \in JobCopy
      PROVE  [k EXCEPT !.imported = @ - n] \in JobCopy
  BY DEF JobCopy
<1> QED BY <1>1, <1>2, Zenon DEF Undone

-----------------------------------------------------------------------------
(* Type correctness.                                                       *)

\* Where a batch stands: at a record of its own, or past the last one.
InBatch(c) == pc[c] \in {"lookup", "create", "finish"}

BatchShape(c) ==
    /\ pc[c] \in {"lookup", "create"} => next[c] <= upto[c]
    /\ pc[c] = "finish" => next[c] = upto[c] + 1

Typed == TypeOK /\ \A c \in Callers : BatchShape(c)

\* A new job, no records and idle callers are well typed.
LEMMA TypeInit == Init => Typed
<1> SUFFICES ASSUME Init PROVE Typed
  OBVIOUS
<1>1. NewImportJob \in JobCopy /\ NewImportJob \in ImportJob
  BY BoundsAssumption DEF NewImportJob, JobCopy, ImportJob, Statuses
<1>2. 1 \in 1 .. NumRecords + 1 /\ 0 \in 0 .. NumRecords /\ 0 \in 0 .. MaxCalls
      /\ 0 \in 0 .. MaxErrors
  BY BoundsAssumption
<1>3. records \in [Indices -> Outcomes \cup {NoRecord}]
  BY DEF Init
<1>4. /\ pc \in [Callers -> Places] /\ copy \in [Callers -> JobCopy]
      /\ next \in [Callers -> 1 .. NumRecords + 1] /\ upto \in [Callers -> 0 .. NumRecords]
  BY <1>1, <1>2 DEF Init, Places
<1>5. /\ dup \in [Callers -> BOOLEAN] /\ todo \in [Callers -> SUBSET Indices]
      /\ reversed \in [Callers -> Nat] /\ touched \in [Callers -> BOOLEAN]
  BY DEF Init
<1>6. \A c \in Callers : BatchShape(c)
  BY DEF Init, BatchShape
<1> QED BY <1>1, <1>2, <1>3, <1>4, <1>5, <1>6 DEF Init, TypeOK, Typed

\* A call that returns is idle again and holds nothing.
LEMMA ReturnTyped ==
    ASSUME TypeOK, NEW c \in Callers, Return(c)
    PROVE  /\ pc' \in [Callers -> Places]
           /\ copy' \in [Callers -> JobCopy]
           /\ next' \in [Callers -> 1 .. NumRecords + 1]
           /\ upto' \in [Callers -> 0 .. NumRecords]
           /\ dup' \in [Callers -> BOOLEAN]
           /\ todo' \in [Callers -> SUBSET Indices]
           /\ reversed' \in [Callers -> Nat]
           /\ touched' \in [Callers -> BOOLEAN]
           /\ (\A d \in Callers : BatchShape(d)) => \A d \in Callers : BatchShape(d)'
<1>1. NewImportJob \in JobCopy /\ 1 \in 1 .. NumRecords + 1 /\ 0 \in 0 .. NumRecords
  BY BoundsAssumption DEF NewImportJob, JobCopy, Statuses
<1>2. pc' \in [Callers -> Places] /\ copy' \in [Callers -> JobCopy]
  BY <1>1 DEF Return, Goto, TypeOK, Places
<1>3. /\ next' \in [Callers -> 1 .. NumRecords + 1]
      /\ upto' \in [Callers -> 0 .. NumRecords]
  BY <1>1 DEF Return, TypeOK
<1>4. /\ dup' \in [Callers -> BOOLEAN] /\ todo' \in [Callers -> SUBSET Indices]
      /\ reversed' \in [Callers -> Nat] /\ touched' \in [Callers -> BOOLEAN]
  BY DEF Return, TypeOK
<1>5. ASSUME NEW d \in Callers, BatchShape(d) PROVE BatchShape(d)'
  BY <1>5 DEF Return, Goto, TypeOK, BatchShape
<1> QED BY <1>2, <1>3, <1>4, <1>5

\* What every call does when it starts.
LEMMA EnterTyped ==
    ASSUME TypeOK, NEW c \in Callers, Enter(c)
    PROVE  /\ source' = source /\ job' = job /\ records' = records
           /\ dup' = dup /\ todo' = todo /\ reversed' = reversed
           /\ touched' = touched /\ errors' = errors
           /\ cut' = cut /\ missed' = missed /\ undone' = undone
           /\ calls' \in 0 .. MaxCalls /\ overlapped' \in BOOLEAN
           /\ pc[c] = "idle"
  BY BoundsAssumption DEF Enter, TypeOK, At, rollbackVars

\* Every step of every call keeps the variables well typed.
LEMMA TypeStep == Typed /\ [Next]_vars => Typed'
<1> SUFFICES ASSUME Typed, [Next]_vars PROVE Typed'
  OBVIOUS
<1> USE DEF Typed
<1>1. CASE UNCHANGED vars
  BY <1>1 DEF TypeOK, BatchShape, vars, batchVars, rollbackVars, history
<1>2. ASSUME NEW c \in Callers, Step(c) PROVE Typed'
  <2>1. ASSUME NEW size \in BatchSizes, RunBatch(c, size) PROVE Typed'
    <3> DEFINE last == IF job.cursor + size < NumRecords THEN job.cursor + size
                                                         ELSE NumRecords
    <3>1. Enter(c)
      BY <2>1 DEF RunBatch
    <3>2. /\ job.cursor \in 0 .. NumRecords /\ last \in 0 .. NumRecords
          /\ job.cursor + 1 \in 1 .. NumRecords + 1
          /\ job.cursor < last => job.cursor + 1 <= last
          /\ ~(job.cursor < last) => job.cursor = last
      <4>1. job \in JobCopy
        BY DEF TypeOK, ImportJob
      <4>2. job.cursor \in 0 .. NumRecords
        BY <4>1 DEF JobCopy
      <4>3. size \in Nat \ {0} /\ NumRecords \in Nat
        BY BoundsAssumption
      <4> QED BY <4>2, <4>3
    <3>3. [job EXCEPT !.status = "running"] \in JobCopy
      BY DEF TypeOK, ImportJob, JobCopy, Statuses
    <3> DEFINE read == [job EXCEPT !.status = "running"]
    <3>4. /\ copy' = [copy EXCEPT ![c] = read]
          /\ next' = [next EXCEPT ![c] = job.cursor + 1]
          /\ upto' = [upto EXCEPT ![c] = last]
          /\ pc' = [pc EXCEPT ![c] = IF job.cursor < last THEN "lookup" ELSE "finish"]
      BY <2>1 DEF RunBatch, Goto
    <3> HIDE DEF last, read
    <3>6. copy' \in [Callers -> JobCopy]
      BY <3>3, <3>4 DEF TypeOK, read
    <3>7. next' \in [Callers -> 1 .. NumRecords + 1] /\ upto' \in [Callers -> 0 .. NumRecords]
      BY <3>2, <3>4 DEF TypeOK
    <3>8. pc' \in [Callers -> Places]
      BY <3>4 DEF TypeOK, Places
    <3>5. ASSUME NEW d \in Callers PROVE BatchShape(d)'
      <4>1. CASE d = c
        <5>1. next'[c] = job.cursor + 1 /\ upto'[c] = last
          BY <3>4 DEF TypeOK
        <5>2. pc'[c] = IF job.cursor < last THEN "lookup" ELSE "finish"
          BY <3>4 DEF TypeOK
        <5> QED BY <3>2, <4>1, <5>1, <5>2 DEF BatchShape
      <4>2. CASE d # c
        <5>1. next'[d] = next[d] /\ upto'[d] = upto[d] /\ pc'[d] = pc[d]
          BY <3>4, <4>2 DEF TypeOK
        <5> QED BY <5>1 DEF BatchShape
      <4> QED BY <4>1, <4>2
    <3> QED BY <1>2, <3>1, <3>5, <3>6, <3>7, <3>8, EnterTyped DEF TypeOK
  <2>2. ASSUME NEW status \in {"paused", "running", "failed"}, ApplyTransition(c, status)
        PROVE  Typed'
    <3>1. Enter(c)
      BY <2>2 DEF ApplyTransition
    <3>2. [job EXCEPT !.status = status] \in JobCopy
      BY DEF TypeOK, ImportJob, JobCopy, Statuses
    <3>3. copy' \in [Callers -> JobCopy] /\ pc' \in [Callers -> Places]
      BY <1>2, <2>2, <3>2 DEF ApplyTransition, TypeOK, Goto, Places
    <3>4. ASSUME NEW d \in Callers PROVE BatchShape(d)'
      BY <1>2, <2>2 DEF ApplyTransition, TypeOK, Goto, BatchShape
    <3> QED BY <1>2, <2>2, <3>1, <3>3, <3>4, EnterTyped DEF ApplyTransition, TypeOK
  <2>3. CASE Rollback(c)
    <3>1. Enter(c)
      BY <2>3 DEF Rollback
    <3>2. copy' \in [Callers -> JobCopy] /\ pc' \in [Callers -> Places]
      BY <1>2, <2>3 DEF Rollback, TypeOK, ImportJob, Goto, Places
    <3>3. ASSUME NEW d \in Callers PROVE BatchShape(d)'
      BY <1>2, <2>3 DEF Rollback, TypeOK, Goto, BatchShape
    <3> QED BY <1>2, <2>3, <3>1, <3>2, <3>3, EnterTyped DEF Rollback, TypeOK
  <2>4. CASE Lookup(c)
    <3>1. dup' \in [Callers -> BOOLEAN] /\ pc' \in [Callers -> Places]
      BY <1>2, <2>4 DEF Lookup, TypeOK, Goto, Places
    <3>2. ASSUME NEW d \in Callers PROVE BatchShape(d)'
      BY <1>2, <2>4 DEF Lookup, TypeOK, At, Goto, BatchShape
    <3> QED BY <2>4, <3>1, <3>2 DEF Lookup, TypeOK, rollbackVars, history
  <2>5. CASE LookupFails(c)
    <3>1. dup' \in [Callers -> BOOLEAN] /\ pc' \in [Callers -> Places]
      BY <1>2, <2>5 DEF LookupFails, TypeOK, Goto, Places
    <3>2. ASSUME NEW d \in Callers PROVE BatchShape(d)'
      BY <1>2, <2>5 DEF LookupFails, TypeOK, At, Goto, BatchShape
    <3>3. errors' \in 0 .. MaxErrors
      BY <2>5, BoundsAssumption DEF LookupFails, TypeOK
    <3> QED BY <2>5, <3>1, <3>2, <3>3 DEF LookupFails, TypeOK, rollbackVars
  <2>6. CASE Create(c)
    <3>1. next[c] \in Indices /\ next[c] + 1 \in 1 .. NumRecords + 1
          /\ next[c] <= upto[c] /\ next[c] \in Nat /\ upto[c] \in Nat
      BY <1>2, <2>6, BoundsAssumption DEF Create, At, TypeOK, BatchShape, Indices
    <3>2. records' \in [Indices -> Outcomes \cup {NoRecord}]
      BY <1>2, <2>6, <3>1, OutcomeFacts DEF Create, TypeOK, Outcomes
    <3>3. copy' \in [Callers -> JobCopy]
      BY <1>2, <2>6, CountTyped DEF Create, TypeOK
    <3>4. next' \in [Callers -> 1 .. NumRecords + 1] /\ touched' \in [Callers -> BOOLEAN]
      BY <1>2, <2>6, <3>1 DEF Create, TypeOK
    <3>5. pc' \in [Callers -> Places]
      BY <1>2, <2>6 DEF Create, TypeOK, Goto, Places
    <3>6. ASSUME NEW d \in Callers PROVE BatchShape(d)'
      <4>1. CASE d = c
        <5>1. next'[c] = next[c] + 1 /\ upto'[c] = upto[c]
          BY <1>2, <2>6 DEF Create, TypeOK
        <5>2. pc'[c] = IF next[c] < upto[c] THEN "lookup" ELSE "finish"
          BY <1>2, <2>6 DEF Create, TypeOK, Goto
        <5> QED BY <3>1, <4>1, <5>1, <5>2 DEF BatchShape
      <4>2. CASE d # c
        <5>1. next'[d] = next[d] /\ upto'[d] = upto[d] /\ pc'[d] = pc[d]
          BY <2>6, <4>2 DEF Create, TypeOK, Goto
        <5> QED BY <5>1 DEF BatchShape
      <4> QED BY <4>1, <4>2
    <3> QED BY <2>6, <3>2, <3>3, <3>4, <3>5, <3>6 DEF Create, TypeOK, rollbackVars, history
  <2>7. CASE FinishBatch(c)
    <3>1. copy' \in [Callers -> JobCopy]
      BY <1>2, <2>7, MovedTyped DEF FinishBatch, TypeOK
    <3>2. pc' \in [Callers -> Places]
      BY <1>2, <2>7 DEF FinishBatch, TypeOK, Goto, Places
    <3>3. ASSUME NEW d \in Callers PROVE BatchShape(d)'
      BY <1>2, <2>7 DEF FinishBatch, TypeOK, Goto, BatchShape, batchVars
    <3> QED BY <2>7, <3>1, <3>2, <3>3
         DEF FinishBatch, TypeOK, batchVars, rollbackVars, history
  <2>8. CASE ListForJob(c)
    <3>1. todo' \in [Callers -> SUBSET Indices] /\ pc' \in [Callers -> Places]
      BY <1>2, <2>8 DEF ListForJob, TypeOK, Goto, Places, With
    <3>2. ASSUME NEW d \in Callers PROVE BatchShape(d)'
      BY <1>2, <2>8 DEF ListForJob, TypeOK, Goto, BatchShape, batchVars
    <3> QED BY <2>8, <3>1, <3>2 DEF ListForJob, TypeOK, batchVars, history
  <2>9. CASE Reverse(c)
    <3>1. PICK i \in todo[c] :
              /\ records' = [records EXCEPT ![i] = "rolled_back"]
              /\ todo' = [todo EXCEPT ![c] = @ \ {i}]
              /\ reversed' = [reversed EXCEPT ![c] = @ + 1]
              /\ touched' = [touched EXCEPT ![c] = TRUE]
              /\ undone' = TRUE
              /\ UNCHANGED <<source, job, pc, copy, batchVars, calls, errors, overlapped,
                             cut, missed>>
      BY <2>9 DEF Reverse
    <3>2. records' \in [Indices -> Outcomes \cup {NoRecord}]
      BY <3>1 DEF TypeOK, Outcomes
    <3>3. /\ todo' \in [Callers -> SUBSET Indices] /\ reversed' \in [Callers -> Nat]
          /\ touched' \in [Callers -> BOOLEAN]
      BY <1>2, <3>1 DEF TypeOK
    <3>4. ASSUME NEW d \in Callers PROVE BatchShape(d)'
      BY <3>1 DEF BatchShape, batchVars
    <3> QED BY <3>1, <3>2, <3>3, <3>4 DEF TypeOK, batchVars
  <2>10. CASE FinishRollback(c)
    <3>1. copy' \in [Callers -> JobCopy]
      BY <1>2, <2>10, UndoneTyped DEF FinishRollback, TypeOK
    <3>2. pc' \in [Callers -> Places]
      BY <1>2, <2>10 DEF FinishRollback, TypeOK, Goto, Places
    <3>3. ASSUME NEW d \in Callers PROVE BatchShape(d)'
      BY <1>2, <2>10 DEF FinishRollback, TypeOK, Goto, BatchShape, batchVars
    <3> QED BY <2>10, <3>1, <3>2, <3>3
         DEF FinishRollback, TypeOK, batchVars, rollbackVars, history
  <2>11. CASE Update(c)
    <3>1. job' \in JobCopy
      BY <1>2, <2>11 DEF Update, TypeOK
    <3>2. Return(c)
      BY <2>11 DEF Update
    <3> QED BY <1>2, <2>11, <3>1, <3>2, ReturnTyped DEF Update, TypeOK, history
  <2>12. CASE Abort(c)
    <3>1. Return(c)
      BY <2>12 DEF Abort
    <3>2. errors' \in 0 .. MaxErrors /\ cut' \in BOOLEAN
      BY <1>2, <2>12, BoundsAssumption DEF Abort, TypeOK
    <3> QED BY <1>2, <2>12, <3>1, <3>2, ReturnTyped DEF Abort, TypeOK
  <2> QED BY <1>2, <2>1, <2>2, <2>3, <2>4, <2>5, <2>6, <2>7, <2>8, <2>9, <2>10, <2>11,
             <2>12 DEF Step
<1> QED BY <1>1, <1>2 DEF Next

\* Typed holds in every reachable state.
LEMMA TypedAlways == Spec => []Typed
  BY TypeInit, TypeStep, PTL DEF Spec

\* The stored job, its records and every call in progress are well formed, however
\* many calls overlap, fail and are repeated (RunBatch, applyTransition, Rollback).
THEOREM TypeCorrect == Spec => []TypeOK
<1>1. Typed => TypeOK
  BY DEF Typed
<1> QED BY <1>1, TypedAlways, PTL

-----------------------------------------------------------------------------
(* What each step does, read at one caller.                                *)

\* A step of one call leaves what the others hold.
LEMMA OthersStay ==
    ASSUME Typed, NEW c \in Callers, Step(c), NEW d \in Callers, d # c
    PROVE  /\ pc'[d] = pc[d] /\ copy'[d] = copy[d]
           /\ next'[d] = next[d] /\ upto'[d] = upto[d] /\ dup'[d] = dup[d]
           /\ todo'[d] = todo[d] /\ reversed'[d] = reversed[d] /\ touched'[d] = touched[d]
<1> USE DEF Typed, TypeOK
<1>1. ASSUME NEW size \in BatchSizes, RunBatch(c, size) PROVE pc'[d] = pc[d] /\ copy'[d] = copy[d]
           /\ next'[d] = next[d] /\ upto'[d] = upto[d] /\ dup'[d] = dup[d]
           /\ todo'[d] = todo[d] /\ reversed'[d] = reversed[d] /\ touched'[d] = touched[d]
  BY <1>1 DEF RunBatch, Enter, Goto, rollbackVars
<1>2. ASSUME NEW status \in {"paused", "running", "failed"}, ApplyTransition(c, status)
      PROVE  pc'[d] = pc[d] /\ copy'[d] = copy[d]
           /\ next'[d] = next[d] /\ upto'[d] = upto[d] /\ dup'[d] = dup[d]
           /\ todo'[d] = todo[d] /\ reversed'[d] = reversed[d] /\ touched'[d] = touched[d]
  BY <1>2 DEF ApplyTransition, Enter, Goto, rollbackVars
<1>3. CASE Rollback(c)
  BY <1>3 DEF Rollback, Enter, Goto, rollbackVars
<1>4. CASE Lookup(c)
  BY <1>4 DEF Lookup, Goto, rollbackVars
<1>5. CASE LookupFails(c)
  BY <1>5 DEF LookupFails, Goto, rollbackVars
<1>6. CASE Create(c)
  BY <1>6 DEF Create, Goto, rollbackVars
<1>7. CASE FinishBatch(c)
  BY <1>7 DEF FinishBatch, Goto, batchVars, rollbackVars
<1>8. CASE ListForJob(c)
  BY <1>8 DEF ListForJob, Goto, batchVars
<1>9. CASE Reverse(c)
  BY <1>9 DEF Reverse, Goto, batchVars
<1>10. CASE FinishRollback(c)
  BY <1>10 DEF FinishRollback, Goto, batchVars, rollbackVars
<1>11. CASE Update(c) \/ Abort(c)
  BY <1>11 DEF Update, Abort, Return, Goto
<1> QED BY <1>1, <1>2, <1>3, <1>4, <1>5, <1>6, <1>7, <1>8, <1>9, <1>10, <1>11 DEF Step

\* A call that returns holds nothing.
LEMMA ReturnEffect ==
    ASSUME Typed, NEW c \in Callers, Return(c)
    PROVE  /\ pc'[c] = "idle" /\ copy'[c] = NewImportJob
           /\ reversed'[c] = 0 /\ touched'[c] = FALSE
  BY DEF Return, Goto, Typed, TypeOK

\* What a call that starts leaves, and what it learns of the others.
LEMMA EnterEffect ==
    ASSUME Typed, NEW c \in Callers, Enter(c)
    PROVE  /\ pc[c] = "idle"
           /\ source' = source /\ job' = job /\ records' = records
           /\ dup'[c] = dup[c] /\ reversed'[c] = reversed[c] /\ touched'[c] = touched[c]
           /\ todo'[c] = todo[c]
           /\ cut' = cut /\ missed' = missed /\ undone' = undone
           /\ ~overlapped' => ~overlapped /\ \A o \in Callers : ~Active(o)
  BY DEF Enter, At, Typed, TypeOK, rollbackVars

\* What a batch that starts leaves.
LEMMA RunBatchEffect ==
    ASSUME Typed, NEW c \in Callers, NEW size \in BatchSizes, RunBatch(c, size)
    PROVE  /\ Enter(c)
           /\ copy'[c] = [job EXCEPT !.status = "running"]
           /\ next'[c] = job.cursor + 1
           /\ pc'[c] \in {"lookup", "finish"}
           /\ pc'[c] # "create"
<1> DEFINE last == IF job.cursor + size < NumRecords THEN job.cursor + size ELSE NumRecords
           read == [job EXCEPT !.status = "running"]
<1>1. /\ Enter(c)
      /\ copy' = [copy EXCEPT ![c] = read]
      /\ next' = [next EXCEPT ![c] = job.cursor + 1]
      /\ pc' = [pc EXCEPT ![c] = IF job.cursor < last THEN "lookup" ELSE "finish"]
  BY DEF RunBatch, Goto
<1> HIDE DEF last, read
<1>2. copy'[c] = read /\ next'[c] = job.cursor + 1 /\ pc'[c] \in {"lookup", "finish"}
  BY <1>1 DEF Typed, TypeOK
<1> QED BY <1>1, <1>2 DEF read

\* What a transition leaves: a copy of the job that differs in its status.
LEMMA ApplyTransitionEffect ==
    ASSUME Typed, NEW c \in Callers, NEW status \in {"paused", "running", "failed"},
           ApplyTransition(c, status)
    PROVE  /\ Enter(c)
           /\ job.status # "rolled_back"
           /\ copy'[c] = [job EXCEPT !.status = status]
           /\ copy'[c].cursor = job.cursor /\ copy'[c].status = status
           /\ pc'[c] = "update"
<1> DEFINE read == [job EXCEPT !.status = status]
<1>1. /\ Enter(c) /\ copy' = [copy EXCEPT ![c] = read] /\ pc' = [pc EXCEPT ![c] = "update"]
      /\ <<job.status, status>> \in statusTransitions
  BY DEF ApplyTransition, Goto
<1>2. read.cursor = job.cursor /\ read.status = status
  BY DEF Typed, TypeOK, JobCopy
<1>3. job.status # "rolled_back"
  BY <1>1 DEF statusTransitions
<1> HIDE DEF read
<1>4. copy'[c] = read /\ pc'[c] = "update"
  BY <1>1 DEF Typed, TypeOK
<1> QED BY <1>1, <1>2, <1>3, <1>4 DEF read

\* What a rollback that starts leaves.
LEMMA RollbackEffect ==
    ASSUME Typed, NEW c \in Callers, Rollback(c)
    PROVE  /\ Enter(c)
           /\ job.status \in {"completed", "failed"}
           /\ copy'[c] = job
           /\ pc'[c] = "list"
  BY DEF Rollback, Goto, Typed, TypeOK

\* The outcome of a record that is created, and what its batch holds then.
LEMMA CreateEffect ==
    ASSUME Typed, NEW c \in Callers, Create(c)
    PROVE  /\ next[c] \in Indices
           /\ records[next[c]] = NoRecord
           /\ records' = [records EXCEPT ![next[c]] = OutcomeOf(c)]
           /\ copy'[c] = Count(copy[c], OutcomeOf(c))
           /\ next'[c] = next[c] + 1
           /\ pc[c] = "create"
           /\ pc'[c] \in {"lookup", "finish"}
           /\ touched'[c] = TRUE
           /\ UNCHANGED <<source, job, errors, overlapped, cut, missed, undone>>
<1>1. next[c] \in Indices
  BY BoundsAssumption DEF Create, At, Typed, TypeOK, BatchShape, Indices
<1>2. /\ copy'[c] = Count(copy[c], OutcomeOf(c))
      /\ next'[c] = next[c] + 1 /\ touched'[c] = TRUE
  BY DEF Create, Typed, TypeOK
<1>3. pc'[c] \in {"lookup", "finish"}
  BY DEF Create, Goto, Typed, TypeOK
<1> QED BY <1>1, <1>2, <1>3 DEF Create, At, history

\* What the end of a batch leaves in the job's row.
LEMMA FinishBatchEffect ==
    ASSUME Typed, NEW c \in Callers, FinishBatch(c)
    PROVE  /\ pc[c] = "finish" /\ pc'[c] = "update"
           /\ next[c] = upto[c] + 1
           /\ copy'[c] = Moved(copy[c], upto[c])
           /\ copy'[c].cursor = upto[c]
           /\ copy'[c].status = (IF upto[c] = NumRecords THEN "completed" ELSE copy[c].status)
           /\ copy'[c].processed = copy[c].processed
           /\ copy'[c].imported = copy[c].imported
           /\ copy'[c].skipped = copy[c].skipped
           /\ copy'[c].rejected = copy[c].rejected
           /\ touched'[c] = touched[c]
           /\ UNCHANGED <<source, job, records, errors, overlapped, cut, missed, undone>>
<1>1. /\ pc[c] = "finish" /\ pc' = [pc EXCEPT ![c] = "update"]
      /\ copy' = [copy EXCEPT ![c] = Moved(copy[c], upto[c])]
      /\ UNCHANGED <<source, job, records, batchVars, rollbackVars, touched, calls, errors,
                     history>>
  BY DEF FinishBatch, At, Goto
<1>2. pc'[c] = "update" /\ copy'[c] = Moved(copy[c], upto[c])
  BY <1>1 DEF Typed, TypeOK
<1>3. next[c] = upto[c] + 1
  BY <1>1 DEF Typed, BatchShape
<1>4. copy[c] \in JobCopy
  BY DEF Typed, TypeOK
<1>5. /\ Moved(copy[c], upto[c]).cursor = upto[c]
      /\ Moved(copy[c], upto[c]).status
           = (IF upto[c] = NumRecords THEN "completed" ELSE copy[c].status)
      /\ Moved(copy[c], upto[c]).processed = copy[c].processed
      /\ Moved(copy[c], upto[c]).imported = copy[c].imported
      /\ Moved(copy[c], upto[c]).skipped = copy[c].skipped
      /\ Moved(copy[c], upto[c]).rejected = copy[c].rejected
  BY <1>4 DEF Moved, JobCopy
<1> QED BY <1>1, <1>2, <1>3, <1>5 DEF history

\* What reversing one record leaves.
LEMMA ReverseEffect ==
    ASSUME Typed, NEW c \in Callers, Reverse(c)
    PROVE  /\ pc[c] = "reverse" /\ pc' = pc /\ copy' = copy /\ next' = next
           /\ \E i \in todo[c] :
                /\ i \in Indices
                /\ records' = [records EXCEPT ![i] = "rolled_back"]
                /\ todo'[c] = todo[c] \ {i}
           /\ reversed'[c] = reversed[c] + 1
           /\ touched'[c] = TRUE
           /\ undone' = TRUE
           /\ UNCHANGED <<source, job, dup, overlapped, cut, missed>>
<1>1. PICK i \in todo[c] :
         /\ At(c, "reverse")
         /\ records' = [records EXCEPT ![i] = "rolled_back"]
         /\ todo' = [todo EXCEPT ![c] = @ \ {i}]
         /\ reversed' = [reversed EXCEPT ![c] = @ + 1]
         /\ touched' = [touched EXCEPT ![c] = TRUE]
         /\ undone' = TRUE
         /\ UNCHANGED <<source, job, pc, copy, batchVars, calls, errors, overlapped, cut,
                        missed>>
  BY DEF Reverse
<1>2. i \in Indices
  BY DEF Typed, TypeOK
<1>3. /\ todo'[c] = todo[c] \ {i} /\ reversed'[c] = reversed[c] + 1
      /\ touched'[c] = TRUE
  BY <1>1 DEF Typed, TypeOK
<1> QED BY <1>1, <1>2, <1>3 DEF At, batchVars

\* What the end of a rollback leaves in the job's row.
LEMMA FinishRollbackEffect ==
    ASSUME Typed, NEW c \in Callers, FinishRollback(c)
    PROVE  /\ pc[c] = "reverse" /\ pc'[c] = "update" /\ todo[c] = {}
           /\ copy'[c].status = "rolled_back"
           /\ copy'[c].cursor = copy[c].cursor
           /\ copy'[c].processed = copy[c].processed
           /\ copy'[c].imported = copy[c].imported - reversed[c]
           /\ copy'[c].skipped = copy[c].skipped
           /\ copy'[c].rejected = copy[c].rejected
           /\ touched'[c] = touched[c]
           /\ UNCHANGED <<source, job, records, errors, overlapped, cut, missed, undone>>
<1>1. copy'[c] = Undone(copy[c], reversed[c]) /\ pc'[c] = "update"
  BY DEF FinishRollback, Goto, Typed, TypeOK
<1>2. copy[c] \in JobCopy
  BY DEF Typed, TypeOK
<1>3. /\ Undone(copy[c], reversed[c]).status = "rolled_back"
      /\ Undone(copy[c], reversed[c]).cursor = copy[c].cursor
      /\ Undone(copy[c], reversed[c]).processed = copy[c].processed
      /\ Undone(copy[c], reversed[c]).imported = copy[c].imported - reversed[c]
      /\ Undone(copy[c], reversed[c]).skipped = copy[c].skipped
      /\ Undone(copy[c], reversed[c]).rejected = copy[c].rejected
  BY <1>2 DEF Undone, JobCopy
<1> QED BY <1>1, <1>3 DEF FinishRollback, At, history

\* The records change in two steps only, and none is ever lost.
LEMMA RecordsChange ==
    ASSUME Typed, NEW c \in Callers, Step(c)
    PROVE  Create(c) \/ Reverse(c) \/ records' = records
  BY DEF Step, RunBatch, ApplyTransition, Rollback, Enter, Lookup, LookupFails,
         FinishBatch, ListForJob, FinishRollback, Update, Abort

\* A record that was written is never taken back.
LEMMA RecordsStay ==
    ASSUME Typed, [Next]_vars, NEW i \in Indices, records[i] # NoRecord
    PROVE  records'[i] # NoRecord
<1>1. CASE UNCHANGED vars
  BY <1>1 DEF vars
<1>2. ASSUME NEW c \in Callers, Step(c) PROVE records'[i] # NoRecord
  <2>1. CASE Create(c)
    BY <2>1, CreateEffect DEF Typed, TypeOK
  <2>2. CASE Reverse(c)
    BY <2>2, ReverseEffect, NoRecordAssumption DEF Outcomes, Typed, TypeOK
  <2> QED BY <1>2, <2>1, <2>2, RecordsChange
<1> QED BY <1>1, <1>2 DEF Next

\* The job is written by Update alone.
LEMMA JobChange ==
    ASSUME NEW c \in Callers, Step(c)
    PROVE  Update(c) \/ job' = job
  BY DEF Step, RunBatch, ApplyTransition, Rollback, Enter, Lookup, LookupFails, Create,
         FinishBatch, ListForJob, Reverse, FinishRollback, Abort

-----------------------------------------------------------------------------
(* Nothing skipped.  What RunBatch knows of the records before its own comes *)
(* from the job it read, which another call may have replaced since: the     *)
(* invariant follows every copy of the job, not the stored one only.         *)

Taken(n) == \A i \in 1 .. n : records[i] # NoRecord

\* The cursor of the job stands behind records that are there.
CursorTrue(j) ==
    /\ Taken(j.cursor)
    /\ j.status = "completed" => j.cursor = NumRecords

SkipInv ==
    /\ CursorTrue(job)
    /\ \A c \in Callers :
         /\ CursorTrue(copy[c])
         /\ InBatch(c) => copy[c].status = "running" /\ Taken(next[c] - 1)

\* The records up to a cursor stay taken.
LEMMA TakenStays ==
    ASSUME Typed, [Next]_vars, NEW n \in 0 .. NumRecords, Taken(n)
    PROVE  Taken(n)'
<1>1. \A i \in 1 .. n : i \in Indices
  BY BoundsAssumption DEF Indices
<1> QED BY <1>1, RecordsStay DEF Taken

\* A job whose cursor is true stays one whatever is done to the records.
LEMMA CursorStaysTrue ==
    ASSUME Typed, [Next]_vars, NEW j \in JobCopy, CursorTrue(j)
    PROVE  CursorTrue(j)'
<1>1. j.cursor \in 0 .. NumRecords
  BY DEF JobCopy
<1> QED BY <1>1, TakenStays DEF CursorTrue, Taken

\* No step makes a cursor lie.
LEMMA SkipStep == Typed /\ SkipInv /\ [Next]_vars => SkipInv'
<1> SUFFICES ASSUME Typed, SkipInv, [Next]_vars PROVE SkipInv'
  OBVIOUS
<1>1. job \in JobCopy /\ \A d \in Callers : copy[d] \in JobCopy
  BY DEF Typed, TypeOK, ImportJob
<1>2. CursorTrue(job)' \/ job' # job
  <2>1. ASSUME NEW j \in JobCopy, CursorTrue(j), job' = j PROVE CursorTrue(job)'
    BY <2>1, CursorStaysTrue DEF CursorTrue, Taken
  <2> QED BY <1>1, <2>1 DEF SkipInv
<1>3. \A d \in Callers : copy'[d] = copy[d] => CursorTrue(copy[d])'
  <2>1. ASSUME NEW d \in Callers, NEW j \in JobCopy, CursorTrue(j), copy'[d] = j
        PROVE  CursorTrue(copy[d])'
    BY <2>1, CursorStaysTrue DEF CursorTrue, Taken
  <2> QED BY <1>1, <2>1 DEF SkipInv
<1>4. \A d \in Callers : next[d] - 1 \in 0 .. NumRecords
  BY BoundsAssumption DEF Typed, TypeOK
<1>5. \A d \in Callers : (InBatch(d) /\ next'[d] = next[d]) => Taken(next[d] - 1)'
  <2>1. ASSUME NEW d \in Callers, NEW n \in 0 .. NumRecords, Taken(n), next'[d] - 1 = n
        PROVE  Taken(next[d] - 1)'
    BY <2>1, TakenStays DEF Taken
  <2> QED BY <1>4, <2>1 DEF SkipInv
<1>6. CASE UNCHANGED vars
  BY <1>2, <1>3, <1>5, <1>6 DEF SkipInv, vars, batchVars, InBatch
<1>7. ASSUME NEW c \in Callers, Step(c) PROVE SkipInv'
  <2> DEFINE Good(d) == /\ CursorTrue(copy[d])
                        /\ InBatch(d) => copy[d].status = "running" /\ Taken(next[d] - 1)
  <2>1. ASSUME NEW d \in Callers, d # c PROVE Good(d)'
    BY <1>3, <1>5, <1>7, <2>1, OthersStay DEF InBatch, SkipInv
  <2>2. SUFFICES Good(c)' /\ CursorTrue(job)'
    BY <2>1 DEF SkipInv
  <2>3. CASE Update(c)
    <3>1. CursorTrue(job)'
      <4>1. job' = copy[c]
        BY <2>3 DEF Update
      <4>2. CursorTrue(copy[c]) /\ copy[c] \in JobCopy
        BY <1>1 DEF SkipInv
      <4> QED BY <4>1, <4>2, CursorStaysTrue DEF CursorTrue, Taken
    <3>2. pc'[c] = "idle" /\ copy'[c] = NewImportJob
      BY <2>3, ReturnEffect DEF Update
    <3>3. Good(c)'
      BY <3>2 DEF InBatch, CursorTrue, Taken, NewImportJob
    <3> QED BY <3>1, <3>3
  <2>4. CASE ~Update(c)
    <3>1. job' = job
      BY <1>7, <2>4, JobChange
    <3>2. SUFFICES Good(c)'
      BY <1>2, <3>1
    <3>3. Taken(job.cursor)' /\ (job.status = "completed" => job.cursor = NumRecords)
      BY <1>2, <3>1 DEF CursorTrue, Taken, SkipInv
    <3>4. ASSUME NEW size \in BatchSizes, RunBatch(c, size) PROVE Good(c)'
      <4>1. copy'[c].cursor = job.cursor /\ copy'[c].status = "running"
        BY <1>1, <3>4, RunBatchEffect DEF JobCopy
      <4>2. next'[c] - 1 = job.cursor
        <5>1. next'[c] = job.cursor + 1
          BY <3>4, RunBatchEffect
        <5>2. job.cursor \in Nat
          BY <1>1 DEF JobCopy
        <5> QED BY <5>1, <5>2
      <4> QED BY <3>1, <3>3, <4>1, <4>2 DEF CursorTrue, Taken
    <3>5. ASSUME NEW status \in {"paused", "running", "failed"}, ApplyTransition(c, status)
          PROVE  Good(c)'
      <4>1. /\ copy'[c].cursor = job.cursor /\ copy'[c].status # "completed"
            /\ pc'[c] = "update"
        BY <3>5, ApplyTransitionEffect
      <4> QED BY <3>1, <3>3, <4>1 DEF CursorTrue, Taken, InBatch
    <3>6. CASE Rollback(c)
      BY <3>1, <3>3, <3>6, RollbackEffect DEF CursorTrue, Taken, InBatch
    <3>7. CASE Lookup(c) \/ LookupFails(c)
      <4>1. copy'[c] = copy[c] /\ next'[c] = next[c] /\ InBatch(c)
        BY <3>7 DEF Lookup, LookupFails, At, InBatch
      <4> QED BY <1>3, <1>5, <4>1 DEF SkipInv
    <3>8. CASE Create(c)
      <4>1. /\ next'[c] = next[c] + 1 /\ next[c] \in Indices /\ InBatch(c)
            /\ records' = [records EXCEPT ![next[c]] = OutcomeOf(c)]
            /\ copy'[c] = Count(copy[c], OutcomeOf(c))
        BY <3>8, CreateEffect DEF InBatch
      <4>2. copy'[c].cursor = copy[c].cursor /\ copy'[c].status = copy[c].status
        BY <1>1, <4>1, CountFacts
      <4>3. CursorTrue(copy[c])'
        <5>1. copy[c].cursor \in 0 .. NumRecords
          BY <1>1 DEF JobCopy
        <5> QED BY <4>2, <5>1, TakenStays DEF SkipInv, CursorTrue, Taken
      <4>4. records'[next[c]] # NoRecord
        BY <4>1, OutcomeFacts, NoRecordAssumption DEF Outcomes, Typed, TypeOK
      <4>5. Taken(next[c] - 1)'
        <5>1. next'[c] - 1 = next[c] /\ next[c] \in 1 .. NumRecords
          BY <4>1, BoundsAssumption DEF Indices
        <5>2. \A i \in 1 .. next[c] - 1 : records'[i] # NoRecord
          <6>1. Taken(next[c] - 1)
            BY <4>1 DEF SkipInv
          <6> QED BY <5>1, <6>1, RecordsStay, BoundsAssumption DEF Taken, Indices
        <5> QED BY <4>4, <5>1, <5>2, BoundsAssumption DEF Taken
      <4> QED BY <4>1, <4>2, <4>3, <4>5 DEF SkipInv
    <3>9. CASE FinishBatch(c)
      <4>1. /\ copy'[c].cursor = upto[c] /\ pc'[c] = "update" /\ next[c] = upto[c] + 1
            /\ copy'[c].status = (IF upto[c] = NumRecords THEN "completed"
                                                         ELSE copy[c].status)
            /\ records' = records /\ InBatch(c)
        BY <3>9, FinishBatchEffect DEF InBatch
      <4>2. next[c] - 1 = upto[c]
        BY <4>1, BoundsAssumption DEF Typed, TypeOK
      <4>3. Taken(upto[c]) /\ copy[c].status = "running"
        BY <4>1, <4>2 DEF SkipInv
      <4> QED BY <4>1, <4>3 DEF CursorTrue, Taken, InBatch
    <3>10. CASE ListForJob(c) \/ Reverse(c)
      <4>1. copy'[c] = copy[c] /\ ~InBatch(c)'
        <5>1. CASE ListForJob(c)
          BY <5>1 DEF ListForJob, Goto, InBatch, Typed, TypeOK
        <5>2. CASE Reverse(c)
          BY <5>2, ReverseEffect DEF InBatch
        <5> QED BY <3>10, <5>1, <5>2
      <4> QED BY <1>3, <4>1
    <3>11. CASE FinishRollback(c)
      <4>1. /\ copy'[c].cursor = copy[c].cursor /\ copy'[c].status = "rolled_back"
            /\ pc'[c] = "update" /\ records' = records
        BY <3>11, FinishRollbackEffect
      <4> QED BY <4>1 DEF CursorTrue, Taken, InBatch, SkipInv
    <3>12. CASE Abort(c)
      <4>1. pc'[c] = "idle" /\ copy'[c] = NewImportJob
        BY <3>12, ReturnEffect DEF Abort
      <4> QED BY <4>1 DEF InBatch, CursorTrue, Taken, NewImportJob
    <3> HIDE DEF Good
    <3> QED BY <1>7, <2>4, <3>4, <3>5, <3>6, <3>7, <3>8, <3>9, <3>10, <3>11, <3>12 DEF Step
  <2> QED BY <2>3, <2>4
<1> QED BY <1>6, <1>7 DEF Next

\* However batches, pauses and rollbacks overlap, fail midway and are repeated, no
\* record before the stored cursor is left out, and a complete job is at the end of
\* its source (RunBatch).
THEOREM NothingIsSkipped == Spec => []NothingSkipped
<1>1. Init => SkipInv
  BY DEF Init, SkipInv, CursorTrue, Taken, NewImportJob, InBatch
<1>2. SkipInv => NothingSkipped
  BY DEF SkipInv, CursorTrue, Taken, NothingSkipped
<1> QED BY <1>1, <1>2, TypedAlways, SkipStep, PTL DEF Spec

-----------------------------------------------------------------------------
(* Imported once.  Two batches may look up two records of one key before     *)
(* either creates its own: both are then at the first index without a        *)
(* record, and one of the two is refused.                                    *)

KeyFree(i) == \A k \in With("imported") : source[k] # source[i]

KeyTaken(i) == \E k \in With("imported") : source[k] = source[i]

LookupTrue(c) ==
    pc[c] = "create" =>
        /\ (/\ ~dup[c] /\ ~missed
            /\ records[next[c]] = NoRecord
            /\ source[next[c]] \in Keys) => KeyFree(next[c])
        /\ (dup[c] /\ ~undone) => KeyTaken(next[c])

OnceInv ==
    /\ ImportedOnce
    /\ \A c \in Callers : LookupTrue(c)

\* A lookup stays true while no record is created or reversed.
LEMMA LookupStaysTrue ==
    ASSUME NEW d \in Callers, LookupTrue(d),
           pc'[d] = pc[d], next'[d] = next[d], dup'[d] = dup[d],
           source' = source, records' = records, ~missed' => ~missed, ~undone' => ~undone
    PROVE  LookupTrue(d)'
  BY DEF LookupTrue, KeyFree, KeyTaken, With

\* Every step keeps OnceInv.
LEMMA OnceStep == Typed /\ SkipInv /\ OnceInv /\ [Next]_vars => OnceInv'
<1> SUFFICES ASSUME Typed, SkipInv, OnceInv, [Next]_vars PROVE OnceInv'
  OBVIOUS
<1>1. CASE UNCHANGED vars
  BY <1>1 DEF OnceInv, ImportedOnce, LookupTrue, KeyFree, KeyTaken, With, vars, batchVars,
              history
<1>2. ASSUME NEW c \in Callers, Step(c) PROVE OnceInv'
  <2>1. source' = source /\ (~missed' => ~missed) /\ (~undone' => ~undone)
    BY <1>2 DEF Step, RunBatch, ApplyTransition, Rollback, Enter, Lookup, LookupFails,
                Create, FinishBatch, ListForJob, Reverse, FinishRollback, Update, Abort,
                history
  <2>2. CASE ~Create(c) /\ ~Reverse(c)
    <3>1. records' = records
      BY <1>2, <2>2, RecordsChange
    <3>2. ImportedOnce'
      BY <2>1, <3>1 DEF OnceInv, ImportedOnce, With
    <3>3. ASSUME NEW d \in Callers, d # c PROVE LookupTrue(d)'
      BY <1>2, <2>1, <3>1, <3>3, OthersStay, LookupStaysTrue DEF OnceInv
    <3>4. LookupTrue(c)'
      <4>1. CASE Lookup(c)
        <5>1. /\ dup'[c] = (/\ source[next[c]] \in Keys
                            /\ \E i \in With("imported") : source[i] = source[next[c]])
              /\ next'[c] = next[c]
          BY <4>1 DEF Lookup, Typed, TypeOK
        <5> QED BY <2>1, <3>1, <5>1 DEF LookupTrue, KeyFree, KeyTaken, With
      <4>2. CASE LookupFails(c)
        <5>1. dup'[c] = FALSE /\ missed'
          BY <4>2 DEF LookupFails, Typed, TypeOK
        <5> QED BY <5>1 DEF LookupTrue
      <4>3. CASE pc'[c] # "create"
        BY <4>3 DEF LookupTrue
      <4>4. ASSUME ~Lookup(c), ~LookupFails(c) PROVE pc'[c] # "create"
        <5>1. ASSUME NEW size \in BatchSizes, RunBatch(c, size) PROVE pc'[c] # "create"
          BY <5>1, RunBatchEffect
        <5>2. ASSUME NEW status \in {"paused", "running", "failed"},
                     ApplyTransition(c, status)
              PROVE  pc'[c] # "create"
          BY <5>2, ApplyTransitionEffect
        <5>3. CASE Rollback(c)
          BY <5>3, RollbackEffect
        <5>4. CASE FinishBatch(c)
          BY <5>4, FinishBatchEffect
        <5>5. CASE ListForJob(c)
          BY <5>5 DEF ListForJob, Goto, Typed, TypeOK
        <5>6. CASE FinishRollback(c)
          BY <5>6, FinishRollbackEffect
        <5>7. CASE Update(c) \/ Abort(c)
          BY <5>7, ReturnEffect DEF Update, Abort
        <5> QED BY <1>2, <2>2, <4>4, <5>1, <5>2, <5>3, <5>4, <5>5, <5>6, <5>7 DEF Step
      <4> QED BY <4>1, <4>2, <4>3, <4>4
    <3> QED BY <3>2, <3>3, <3>4 DEF OnceInv
  <2>3. CASE Create(c)
    <3> DEFINE n == next[c]
               o == OutcomeOf(c)
    <3>1. /\ n \in Indices /\ records[n] = NoRecord
          /\ records' = [records EXCEPT ![n] = o]
          /\ pc[c] = "create" /\ pc'[c] \in {"lookup", "finish"}
          /\ missed' = missed /\ undone' = undone
      BY <2>3, CreateEffect
    <3>2. o \in {"imported", "skipped", "rejected"}
      BY OutcomeFacts
    <3>3. /\ \A i \in Indices : i # n => records'[i] = records[i]
          /\ records'[n] = o /\ n \notin With("imported")
      BY <3>1, NoRecordAssumption DEF Typed, TypeOK, With, Outcomes
    <3>4. With("imported")' = IF o = "imported" THEN With("imported") \cup {n}
                                                ELSE With("imported")
      BY <3>1, <3>2, <3>3 DEF With
    <3>5. /\ (o = "imported") => (source[n] # Invalid /\ ~dup[c])
          /\ (o # "imported") => (source[n] = Invalid \/ dup[c])
      BY DEF OutcomeOf
    <3>6. LookupTrue(c)
      BY DEF OnceInv
    <3> HIDE DEF n, o
    <3>7. (o = "imported" /\ ~missed /\ source[n] \in Keys) => KeyFree(n)
      BY <3>1, <3>5, <3>6 DEF LookupTrue, n
    <3>8. (o # "imported" /\ source[n] # Invalid /\ ~undone) => KeyTaken(n)
      BY <3>1, <3>5, <3>6 DEF LookupTrue, n
    <3>9. ImportedOnce'
      <4>1. ASSUME NEW i \in With("imported")', NEW k \in With("imported")',
                   ~missed', source'[i] \in Keys, source'[i] = source'[k]
            PROVE  i = k
        BY <2>1, <3>1, <3>4, <3>7, <4>1 DEF OnceInv, ImportedOnce, KeyFree
      <4>2. ASSUME NEW i \in Indices, records'[i] # NoRecord, source'[i] # Invalid, ~undone'
            PROVE  \E k \in With("imported")' : source'[k] = source'[i]
        <5>1. CASE i = n
          BY <2>1, <3>1, <3>4, <3>8, <4>2, <5>1 DEF KeyTaken
        <5>2. CASE i # n
          <6>1. \E k \in With("imported") : source[k] = source[i]
            BY <2>1, <3>1, <3>3, <4>2, <5>2 DEF OnceInv, ImportedOnce
          <6> QED BY <2>1, <3>4, <6>1
        <5> QED BY <5>1, <5>2
      <4> QED BY <4>1, <4>2 DEF ImportedOnce
    <3>10. ASSUME NEW d \in Callers PROVE LookupTrue(d)'
      <4>1. CASE d = c
        BY <3>1, <4>1 DEF LookupTrue
      <4>2. CASE d # c
        <5>1. pc'[d] = pc[d] /\ next'[d] = next[d] /\ dup'[d] = dup[d]
          BY <1>2, <4>2, OthersStay
        <5>2. SUFFICES ASSUME pc[d] = "create" PROVE LookupTrue(d)'
          BY <5>1 DEF LookupTrue
        <5>3. ASSUME ~dup[d], ~missed, records'[next[d]] = NoRecord,
                     source[next[d]] \in Keys
              PROVE  KeyFree(next[d])'
          <6>1. /\ next[d] \in Indices /\ next[d] \in Nat /\ n \in Nat
                /\ n \in 1 .. NumRecords /\ next[d] \in 1 .. NumRecords
            BY <3>1, <5>2, BoundsAssumption DEF Typed, TypeOK, BatchShape, Indices
          <6>2. next[d] # n
            BY <3>2, <3>3, <5>3, NoRecordAssumption DEF Outcomes
          <6>3. records[next[d]] = NoRecord
            BY <3>3, <5>3, <6>1, <6>2
          <6>4. Taken(next[d] - 1) /\ Taken(n - 1)
            BY <3>1, <5>2 DEF SkipInv, InBatch, n
          <6>5. next[d] = n
            BY <3>1, <6>1, <6>3, <6>4 DEF Taken
          <6> QED BY <6>2, <6>5
        <5>4. ASSUME dup[d], ~undone PROVE KeyTaken(next[d])'
          <6>1. KeyTaken(next[d])
            BY <5>2, <5>4 DEF OnceInv, LookupTrue
          <6> QED BY <2>1, <3>4, <5>1, <6>1 DEF KeyTaken
        <5> QED BY <2>1, <3>1, <5>1, <5>3, <5>4 DEF LookupTrue
      <4> QED BY <4>1, <4>2
    <3> QED BY <3>9, <3>10 DEF OnceInv
  <2>4. CASE Reverse(c)
    <3>1. undone' /\ pc' = pc /\ next' = next /\ dup' = dup /\ missed' = missed
      BY <2>4, ReverseEffect
    <3>2. With("imported")' \subseteq With("imported")
      BY <2>4, ReverseEffect DEF With, Typed, TypeOK
    <3>3. ImportedOnce'
      BY <2>1, <3>1, <3>2 DEF OnceInv, ImportedOnce
    <3>4. ASSUME NEW d \in Callers PROVE LookupTrue(d)'
      <4>1. ASSUME pc[d] = "create", records'[next[d]] = NoRecord
            PROVE  records[next[d]] = NoRecord
        <5>1. next[d] \in Indices
          BY <4>1, BoundsAssumption DEF Typed, TypeOK, BatchShape, Indices
        <5> QED BY <4>1, <5>1, RecordsStay
      <4>2. KeyFree(next[d]) => KeyFree(next[d])'
        BY <2>1, <3>1, <3>2 DEF KeyFree
      <4> QED BY <2>1, <3>1, <4>1, <4>2 DEF OnceInv, LookupTrue
    <3> QED BY <3>3, <3>4 DEF OnceInv
  <2> QED BY <2>2, <2>3, <2>4
<1> QED BY <1>1, <1>2 DEF Next

\* Of the valid records of one key no two are imported unless a lookup failed, and of
\* those that were taken in one is, unless a rollback undid it, whatever two batches
\* at once do (RunBatch, FindByDedupKey).
THEOREM KeysAreImportedOnce == Spec => []ImportedOnce
<1>1. Init => OnceInv
  BY NoRecordAssumption DEF Init, OnceInv, ImportedOnce, LookupTrue, With, Outcomes
<1>2. Init => SkipInv
  BY DEF Init, SkipInv, CursorTrue, Taken, NewImportJob, InBatch
<1>3. OnceInv => ImportedOnce
  BY DEF OnceInv
<1> QED BY <1>1, <1>2, <1>3, TypedAlways, SkipStep, OnceStep, PTL DEF Spec

-----------------------------------------------------------------------------
(* One call at a time.                                                     *)

Alone == ~overlapped => \A c, d \in Callers : Active(c) /\ Active(d) => c = d

\* A rollback that is alone has every imported record before it.
FinalInv ==
    ~overlapped =>
        /\ job.status = "rolled_back" =>
              With("imported") = {} /\ \A c \in Callers : ~Active(c)
        /\ \A c \in Callers :
              /\ pc[c] = "reverse" => todo[c] = With("imported")
              /\ copy[c].status = "rolled_back" =>
                    pc[c] = "update" /\ With("imported") = {}

\* While calls do not overlap there is one at most.
LEMMA AloneStep == Typed /\ Alone /\ [Next]_vars => Alone'
<1> SUFFICES ASSUME Typed, Alone, [Next]_vars PROVE Alone'
  OBVIOUS
<1>1. CASE UNCHANGED vars
  BY <1>1 DEF vars, history, Alone, Active
<1>2. ASSUME NEW c \in Callers, Step(c) PROVE Alone'
  <2>1. CASE Enter(c)
    <3>1. SUFFICES ASSUME ~overlapped' PROVE \A d \in Callers : d # c => ~Active(d)'
      BY DEF Alone
    <3> QED BY <1>2, <2>1, <3>1, EnterEffect, OthersStay DEF Active
  <2>2. CASE ~Enter(c)
    <3>1. Active(c) /\ overlapped' = overlapped
      BY <1>2, <2>2 DEF Step, RunBatch, ApplyTransition, Rollback, Lookup, LookupFails,
                        Create, FinishBatch, ListForJob, Reverse, FinishRollback, Update,
                        Abort, Active, At, history
    <3> QED BY <1>2, <3>1, OthersStay DEF Alone, Active
  <2> QED BY <2>1, <2>2
<1> QED BY <1>1, <1>2 DEF Next

\* A step of a call that is alone: no other call is in progress before or after it.
LEMMA AloneFacts ==
    ASSUME Typed, Alone, NEW c \in Callers, Step(c), ~overlapped'
    PROVE  /\ ~overlapped
           /\ \A d \in Callers : d # c => ~Active(d) /\ ~Active(d)'
           /\ Enter(c) \/ Active(c)
<1>1. CASE Enter(c)
  BY <1>1, EnterEffect, OthersStay DEF Active
<1>2. CASE ~Enter(c)
  <2>1. Active(c) /\ overlapped' = overlapped
    BY <1>2 DEF Step, RunBatch, ApplyTransition, Rollback, Lookup, LookupFails, Create,
                FinishBatch, ListForJob, Reverse, FinishRollback, Update, Abort, Active,
                At, history
  <2> QED BY <2>1, OthersStay DEF Alone, Active
<1> QED BY <1>1, <1>2

\* No rollback of a job is followed by another call, and none leaves a record behind.
LEMMA FinalStep == Typed /\ Alone /\ FinalInv /\ [Next]_vars => FinalInv'
<1> SUFFICES ASSUME Typed, Alone, FinalInv, [Next]_vars, ~overlapped' PROVE FinalInv'
  BY DEF FinalInv
<1>1. CASE UNCHANGED vars
  BY <1>1 DEF vars, history, rollbackVars, FinalInv, Active, With
<1>2. ASSUME NEW c \in Callers, Step(c) PROVE FinalInv'
  <2> DEFINE Rolled == job.status = "rolled_back" =>
                          With("imported") = {} /\ \A d \in Callers : ~Active(d)
             Good(d) == /\ pc[d] = "reverse" => todo[d] = With("imported")
                        /\ copy[d].status = "rolled_back" =>
                              pc[d] = "update" /\ With("imported") = {}
  <2>1. /\ ~overlapped
        /\ \A d \in Callers : d # c => ~Active(d) /\ ~Active(d)'
        /\ Enter(c) \/ Active(c)
    BY <1>2, AloneFacts
  <2>2. Rolled /\ \A d \in Callers : Good(d)
    BY <2>1 DEF FinalInv
  <2>3. ASSUME NEW d \in Callers, d # c PROVE Good(d)'
    <3>1. pc[d] = "idle" /\ pc'[d] = "idle" /\ copy'[d] = copy[d]
      BY <1>2, <2>1, <2>3, OthersStay DEF Active
    <3>2. copy[d].status # "rolled_back"
      BY <2>2, <3>1
    <3> QED BY <3>1, <3>2
  <2>4. SUFFICES Good(c)' /\ Rolled'
    BY <2>3 DEF FinalInv
  <2>5. CASE Update(c)
    <3>1. job' = copy[c] /\ records' = records /\ pc'[c] = "idle" /\ copy'[c] = NewImportJob
      BY <2>5, ReturnEffect DEF Update
    <3>2. Good(c)'
      BY <3>1 DEF NewImportJob
    <3>3. Rolled'
      BY <2>1, <2>2, <3>1 DEF With, Active
    <3> QED BY <3>2, <3>3
  <2>6. CASE Abort(c)
    <3>1. job' = job /\ records' = records /\ pc'[c] = "idle" /\ copy'[c] = NewImportJob
      BY <2>6, ReturnEffect DEF Abort
    <3>2. Good(c)'
      BY <3>1 DEF NewImportJob
    <3>3. Rolled'
      BY <2>1, <2>2, <3>1 DEF With, Active
    <3> QED BY <3>2, <3>3
  <2>7. ASSUME job' = job, job.status # "rolled_back", Good(c)' PROVE Good(c)' /\ Rolled'
    BY <2>7
  <2>8. ASSUME job' = job, Active(c), Good(c)' PROVE Good(c)' /\ Rolled'
    BY <2>2, <2>8
  <2>9. ASSUME NEW size \in BatchSizes, RunBatch(c, size) PROVE Good(c)' /\ Rolled'
    <3>1. /\ Enter(c) /\ copy'[c] = [job EXCEPT !.status = "running"]
          /\ pc'[c] \in {"lookup", "finish"}
      BY <2>9, RunBatchEffect
    <3>2. copy'[c].status = "running"
      BY <3>1 DEF Typed, TypeOK, JobCopy
    <3>3. job' = job /\ job.status # "rolled_back"
      BY <2>9, <3>1, EnterEffect DEF RunBatch
    <3> QED BY <2>7, <3>1, <3>2, <3>3
  <2>10. ASSUME NEW status \in {"paused", "running", "failed"}, ApplyTransition(c, status)
         PROVE  Good(c)' /\ Rolled'
    <3>1. /\ Enter(c) /\ copy'[c].status = status /\ pc'[c] = "update"
          /\ job.status # "rolled_back"
      BY <2>10, ApplyTransitionEffect
    <3>2. job' = job
      BY <3>1, EnterEffect
    <3> QED BY <2>7, <3>1, <3>2
  <2>11. CASE Rollback(c)
    <3>1. Enter(c) /\ copy'[c] = job /\ pc'[c] = "list" /\ job.status \in {"completed", "failed"}
      BY <2>11, RollbackEffect
    <3>2. job' = job
      BY <3>1, EnterEffect
    <3> QED BY <2>7, <3>1, <3>2
  <2>12. CASE Lookup(c) \/ LookupFails(c)
    <3>1. /\ job' = job /\ Active(c) /\ copy'[c] = copy[c] /\ pc[c] = "lookup"
          /\ pc'[c] = "create"
      BY <2>12 DEF Lookup, LookupFails, At, Active, Goto, Typed, TypeOK
    <3> QED BY <2>2, <2>8, <3>1
  <2>13. CASE Create(c)
    <3>1. /\ job' = job /\ copy'[c] = Count(copy[c], OutcomeOf(c)) /\ pc[c] = "create"
          /\ pc'[c] \in {"lookup", "finish"}
      BY <2>13, CreateEffect
    <3>2. copy'[c].status = copy[c].status
      BY <3>1, CountFacts DEF Typed, TypeOK
    <3> QED BY <2>2, <2>8, <3>1, <3>2 DEF Active
  <2>14. CASE FinishBatch(c)
    <3>1. /\ job' = job /\ pc[c] = "finish" /\ pc'[c] = "update"
          /\ copy'[c].status = (IF upto[c] = NumRecords THEN "completed" ELSE copy[c].status)
      BY <2>14, FinishBatchEffect
    <3> QED BY <2>2, <2>8, <3>1 DEF Active
  <2>15. CASE ListForJob(c)
    <3>1. /\ job' = job /\ pc[c] = "list" /\ pc'[c] = "reverse" /\ copy'[c] = copy[c]
          /\ todo'[c] = With("imported") /\ records' = records
      BY <2>15 DEF ListForJob, At, Goto, Typed, TypeOK
    <3> QED BY <2>2, <2>8, <3>1 DEF Active, With
  <2>16. CASE Reverse(c)
    <3>1. PICK i \in todo[c] :
             /\ i \in Indices
             /\ records' = [records EXCEPT ![i] = "rolled_back"]
             /\ todo'[c] = todo[c] \ {i}
      BY <2>16, ReverseEffect
    <3>2. /\ job' = job /\ pc[c] = "reverse" /\ pc' = pc /\ copy' = copy
      BY <2>16, ReverseEffect
    <3>3. With("imported")' = With("imported") \ {i}
      BY <3>1 DEF With, Typed, TypeOK
    <3>4. Good(c)'
      BY <2>2, <3>1, <3>2, <3>3
    <3> QED BY <2>8, <3>2, <3>4 DEF Active
  <2>17. CASE FinishRollback(c)
    <3>1. /\ job' = job /\ pc[c] = "reverse" /\ pc'[c] = "update" /\ todo[c] = {}
          /\ records' = records
      BY <2>17, FinishRollbackEffect
    <3>2. Good(c)'
      BY <2>2, <3>1 DEF With
    <3> QED BY <2>8, <3>1, <3>2 DEF Active
  <2> HIDE DEF Good, Rolled
  <2> QED BY <1>2, <2>5, <2>6, <2>9, <2>10, <2>11, <2>12, <2>13, <2>14, <2>15, <2>16, <2>17
          DEF Step
<1> QED BY <1>1, <1>2 DEF Next

\* A job that is rolled back has no imported record left, unless calls overlapped.  A
\* rollback that stops midway does not get there, nor the first one after a cut batch,
\* which leaves the records reversed under a failed job (Rollback, Update).
THEOREM RolledBackIsEmpty == Spec => []RollbackIsFinal
<1>1. Init => Alone
  BY DEF Init, Alone, Active
<1>2. Init => FinalInv
  BY DEF Init, FinalInv, NewImportJob
<1>3. FinalInv => RollbackIsFinal
  BY DEF FinalInv, RollbackIsFinal
<1> QED BY <1>1, <1>2, <1>3, TypedAlways, AloneStep, FinalStep, PTL DEF Spec

-----------------------------------------------------------------------------
(* The counts.  A call that gives up after it changed a record leaves a job   *)
(* that no longer describes its records; every other call keeps the two      *)
(* together, at each of its steps.                                           *)

\* The job's counts are those of the records before first, after gone of the
\* imported ones were reversed.
Describes(j, first, gone) ==
    /\ With(NoRecord) = first .. NumRecords
    /\ j.processed = first - 1
    /\ j.imported - gone = Cardinality(With("imported"))
    /\ j.skipped = Cardinality(With("skipped"))
    /\ j.rejected = Cardinality(With("rejected"))

AddsUp(j) == Describes(j, j.cursor + 1, 0)

\* What a call that is alone has counted so far.
CallAddsUp(c) ==
    /\ ~touched[c] => AddsUp(job)
    /\ InBatch(c) => Describes(copy[c], next[c], 0)
    /\ pc[c] = "list" => AddsUp(copy[c]) /\ reversed[c] = 0
    /\ pc[c] = "reverse" => Describes(copy[c], copy[c].cursor + 1, reversed[c])
    /\ pc[c] = "update" => AddsUp(copy[c])

SumInv ==
    (~overlapped /\ ~cut) =>
        /\ (\A c \in Callers : ~Active(c)) => AddsUp(job)
        /\ \A c \in Callers :
              IF Active(c) THEN CallAddsUp(c) ELSE ~touched[c] /\ reversed[c] = 0

\* The records with one outcome can be counted.
LEMMA WithFinite ==
    ASSUME NEW outcome
    PROVE  IsFiniteSet(With(outcome)) /\ Cardinality(With(outcome)) \in Nat
<1>1. IsFiniteSet(Indices)
  BY FS_Interval, BoundsAssumption DEF Indices
<1>2. With(outcome) \in SUBSET Indices
  BY DEF With
<1> QED BY <1>1, <1>2, FS_Subset, FS_CardinalityType

\* A record that is created leaves the set of those to come, and is counted.
LEMMA CreateAddsUp ==
    ASSUME Typed, NEW c \in Callers, Create(c), Describes(copy[c], next[c], 0)
    PROVE  Describes(copy[c], next[c], 0)'
<1> DEFINE n == next[c]
           o == OutcomeOf(c)
<1>1. /\ n \in Indices /\ records[n] = NoRecord
      /\ records' = [records EXCEPT ![n] = o]
      /\ copy'[c] = Count(copy[c], o)
      /\ next'[c] = n + 1
  BY CreateEffect
<1>2. o \in {"imported", "skipped", "rejected"}
  BY OutcomeFacts
<1> HIDE DEF n, o
<1>3. /\ \A i \in Indices : i # n => records'[i] = records[i]
      /\ records'[n] = o
  BY <1>1 DEF Typed, TypeOK
<1>4. n \in 1 .. NumRecords /\ n \in Nat /\ NumRecords \in Nat
  BY <1>1, BoundsAssumption DEF Indices
<1>5. With(NoRecord)' = n + 1 .. NumRecords
  <2>1. With(NoRecord)' = With(NoRecord) \ {n}
    BY <1>1, <1>2, <1>3, NoRecordAssumption DEF With, Outcomes
  <2>2. With(NoRecord) = n .. NumRecords
    BY DEF Describes, n
  <2> QED BY <1>4, <2>1, <2>2
<1>6. ASSUME NEW x \in {"imported", "skipped", "rejected"}
      PROVE  Cardinality(With(x))' = IF x = o THEN Cardinality(With(x)) + 1
                                              ELSE Cardinality(With(x))
  <2>1. n \notin With(x)
    BY <1>1, NoRecordAssumption DEF With, Outcomes
  <2>2. With(x)' = IF x = o THEN With(x) \cup {n} ELSE With(x)
    BY <1>1, <1>3, <2>1 DEF With
  <2>3. Cardinality(With(x) \cup {n}) = Cardinality(With(x)) + 1
    BY <2>1, WithFinite, FS_AddElement
  <2> QED BY <2>2, <2>3
<1>7. copy[c] \in JobCopy
  BY DEF Typed, TypeOK
<1> DEFINE j == copy[c]
           k == copy'[c]
<1>8. /\ k.processed = j.processed + 1
      /\ k.imported = IF o = "imported" THEN j.imported + 1 ELSE j.imported
      /\ k.skipped = IF o = "skipped" THEN j.skipped + 1 ELSE j.skipped
      /\ k.rejected = IF o = "rejected" THEN j.rejected + 1 ELSE j.rejected
  BY <1>1, <1>7, CountFacts
<1>9. /\ j.processed = n - 1 /\ j.imported - 0 = Cardinality(With("imported"))
      /\ j.skipped = Cardinality(With("skipped"))
      /\ j.rejected = Cardinality(With("rejected"))
      /\ j.imported \in Int
  BY <1>7 DEF Describes, n, JobCopy
<1> HIDE DEF j, k
<1>10. /\ k.imported - 0 = Cardinality(With("imported"))'
       /\ k.skipped = Cardinality(With("skipped"))'
       /\ k.rejected = Cardinality(With("rejected"))'
  BY <1>6, <1>8, <1>9, WithFinite
<1>11. k.processed = (n + 1) - 1
  BY <1>4, <1>8, <1>9
<1> QED BY <1>1, <1>5, <1>10, <1>11 DEF Describes, k

\* A record that is reversed is one less to subtract from.
LEMMA ReverseAddsUp ==
    ASSUME Typed, NEW c \in Callers, Reverse(c), todo[c] = With("imported"),
           Describes(copy[c], copy[c].cursor + 1, reversed[c])
    PROVE  Describes(copy[c], copy[c].cursor + 1, reversed[c])'
<1>1. PICK i \in todo[c] :
         /\ i \in Indices
         /\ records' = [records EXCEPT ![i] = "rolled_back"]
  BY ReverseEffect
<1>2. copy' = copy /\ reversed'[c] = reversed[c] + 1
  BY ReverseEffect
<1>3. /\ \A k \in Indices : k # i => records'[k] = records[k]
      /\ records'[i] = "rolled_back" /\ records[i] = "imported"
  BY <1>1 DEF Typed, TypeOK, With
<1>4. ASSUME NEW x \in {"skipped", "rejected"} PROVE With(x)' = With(x)
  BY <1>1, <1>3 DEF With
<1>5. With(NoRecord)' = With(NoRecord)
  BY <1>1, <1>3, NoRecordAssumption DEF With, Outcomes
<1>6. With("imported")' = With("imported") \ {i} /\ i \in With("imported")
  BY <1>1, <1>3 DEF With
<1>7. Cardinality(With("imported"))' = Cardinality(With("imported")) - 1
  BY <1>6, WithFinite, FS_RemoveElement
<1>8. reversed[c] \in Nat /\ copy[c].imported \in Int
  BY DEF Typed, TypeOK, JobCopy
<1>9. copy[c].imported - (reversed[c] + 1) = Cardinality(With("imported"))'
  BY <1>7, <1>8, WithFinite DEF Describes
<1> QED BY <1>2, <1>4, <1>5, <1>9 DEF Describes

\* Each step of a call that is alone keeps the counts together.
LEMMA SumStep == Typed /\ Alone /\ FinalInv /\ SumInv /\ [Next]_vars => SumInv'
<1> SUFFICES ASSUME Typed, Alone, FinalInv, SumInv, [Next]_vars, ~overlapped', ~cut'
             PROVE  SumInv'
  BY DEF SumInv
<1>1. CASE UNCHANGED vars
  <2>1. /\ UNCHANGED <<overlapped, cut, job, copy, pc, next, reversed, touched>>
        /\ \A outcome : With(outcome)' = With(outcome)
    BY <1>1 DEF vars, history, batchVars, rollbackVars, With
  <2>2. \A j, first, gone : Describes(j, first, gone) => Describes(j, first, gone)'
    BY <2>1 DEF Describes
  <2>3. \A c \in Callers : CallAddsUp(c) => CallAddsUp(c)'
    BY <2>1, <2>2 DEF CallAddsUp, AddsUp, InBatch
  <2> QED BY <2>1, <2>2, <2>3 DEF SumInv, Active, AddsUp
<1>2. ASSUME NEW c \in Callers, Step(c) PROVE SumInv'
  <2>1. /\ ~overlapped
        /\ \A d \in Callers : d # c => ~Active(d) /\ ~Active(d)'
        /\ Enter(c) \/ Active(c)
    BY <1>2, AloneFacts
  <2>2. ~cut
    BY <1>2 DEF Step, RunBatch, ApplyTransition, Rollback, Enter, Lookup, LookupFails,
                Create, FinishBatch, ListForJob, Reverse, FinishRollback, Update, Abort,
                history
  <2>3. ASSUME NEW d \in Callers, d # c PROVE ~touched'[d] /\ reversed'[d] = 0
    BY <1>2, <2>1, <2>2, <2>3, OthersStay DEF SumInv
  <2> DEFINE Good == IF Active(c) THEN CallAddsUp(c) ELSE ~touched[c] /\ reversed[c] = 0
  <2>4. SUFFICES /\ Good'
                 /\ ~Active(c)' => AddsUp(job)'
    <3> HIDE DEF Good
    <3> QED BY <2>1, <2>3, <2>4 DEF SumInv, Good
  <2>5. Good /\ job \in JobCopy /\ copy[c] \in JobCopy
    BY <2>1, <2>2 DEF SumInv, Typed, TypeOK, ImportJob
  \* A call that starts.
  <2>6. ASSUME Enter(c)
        PROVE  /\ AddsUp(job)' /\ job' = job /\ records' = records
               /\ ~touched'[c] /\ reversed'[c] = 0
    <3>1. /\ job' = job /\ records' = records /\ reversed'[c] = reversed[c]
          /\ touched'[c] = touched[c] /\ \A d \in Callers : ~Active(d)
      BY <2>6, EnterEffect
    <3>2. AddsUp(job) /\ ~touched[c] /\ reversed[c] = 0
      BY <2>1, <2>2, <2>5, <3>1 DEF SumInv
    <3> QED BY <3>1, <3>2 DEF AddsUp, Describes, With
  <2>7. ASSUME NEW size \in BatchSizes, RunBatch(c, size)
        PROVE  Good' /\ (~Active(c)' => AddsUp(job)')
    <3>1. /\ Enter(c) /\ copy'[c] = [job EXCEPT !.status = "running"]
          /\ next'[c] = job.cursor + 1 /\ pc'[c] \in {"lookup", "finish"}
      BY <2>7, RunBatchEffect
    <3>2. /\ copy'[c].processed = job.processed /\ copy'[c].imported = job.imported
          /\ copy'[c].skipped = job.skipped /\ copy'[c].rejected = job.rejected
      BY <2>5, <3>1 DEF JobCopy
    <3>3. AddsUp(job)' /\ job' = job
      BY <2>6, <3>1
    <3>4. Describes(copy[c], next[c], 0)'
      BY <3>1, <3>2, <3>3 DEF AddsUp, Describes
    <3> QED BY <3>1, <3>3, <3>4 DEF CallAddsUp, Active, InBatch
  <2>8. ASSUME NEW status \in {"paused", "running", "failed"}, ApplyTransition(c, status)
        PROVE  Good' /\ (~Active(c)' => AddsUp(job)')
    <3>1. Enter(c) /\ copy'[c] = [job EXCEPT !.status = status] /\ pc'[c] = "update"
      BY <2>8, ApplyTransitionEffect
    <3>2. /\ copy'[c].processed = job.processed /\ copy'[c].imported = job.imported
          /\ copy'[c].skipped = job.skipped /\ copy'[c].rejected = job.rejected
          /\ copy'[c].cursor = job.cursor
      BY <2>5, <3>1 DEF JobCopy
    <3>3. AddsUp(job)' /\ job' = job
      BY <2>6, <3>1
    <3>4. AddsUp(copy[c])'
      BY <3>2, <3>3 DEF AddsUp, Describes
    <3> QED BY <3>1, <3>3, <3>4 DEF CallAddsUp, Active, InBatch
  <2>9. CASE Rollback(c)
    <3>1. Enter(c) /\ copy'[c] = job /\ pc'[c] = "list"
      BY <2>9, RollbackEffect
    <3>2. AddsUp(job)' /\ job' = job /\ reversed'[c] = 0
      BY <2>6, <3>1
    <3>3. AddsUp(copy[c])'
      BY <3>1, <3>2 DEF AddsUp, Describes
    <3> QED BY <3>1, <3>2, <3>3 DEF CallAddsUp, Active, InBatch
  <2>10. CASE Lookup(c) \/ LookupFails(c)
    <3>1. /\ pc[c] = "lookup" /\ pc'[c] = "create" /\ copy' = copy /\ next' = next
          /\ job' = job /\ records' = records /\ touched' = touched
      BY <2>10 DEF Lookup, LookupFails, At, Goto, Typed, TypeOK
    <3> QED BY <2>5, <3>1 DEF CallAddsUp, Active, InBatch, AddsUp, Describes, With
  <2>11. CASE Create(c)
    <3>1. pc[c] = "create" /\ pc'[c] \in {"lookup", "finish"} /\ touched'[c] = TRUE
      BY <2>11, CreateEffect
    <3>2. Describes(copy[c], next[c], 0)
      BY <2>5, <3>1 DEF CallAddsUp, Active, InBatch
    <3>3. Describes(copy[c], next[c], 0)'
      BY <2>11, <3>2, CreateAddsUp
    <3> QED BY <3>1, <3>3 DEF CallAddsUp, Active, InBatch
  <2>12. CASE FinishBatch(c)
    <3>1. /\ pc[c] = "finish" /\ pc'[c] = "update" /\ next[c] = upto[c] + 1
          /\ copy'[c].cursor = upto[c]
          /\ copy'[c].processed = copy[c].processed
          /\ copy'[c].imported = copy[c].imported
          /\ copy'[c].skipped = copy[c].skipped
          /\ copy'[c].rejected = copy[c].rejected
          /\ touched'[c] = touched[c] /\ job' = job /\ records' = records
      BY <2>12, FinishBatchEffect
    <3>2. Describes(copy[c], next[c], 0) /\ (~touched[c] => AddsUp(job))
      BY <2>5, <3>1 DEF CallAddsUp, Active, InBatch
    <3>3. AddsUp(copy[c])'
      BY <3>1, <3>2 DEF AddsUp, Describes, With
    <3>4. ~touched'[c] => AddsUp(job)'
      BY <3>1, <3>2 DEF AddsUp, Describes, With
    <3> QED BY <3>1, <3>3, <3>4 DEF CallAddsUp, Active, InBatch
  <2>13. CASE ListForJob(c)
    <3>1. /\ pc[c] = "list" /\ pc'[c] = "reverse" /\ copy' = copy /\ reversed' = reversed
          /\ job' = job /\ records' = records /\ touched' = touched
      BY <2>13 DEF ListForJob, At, Goto, Typed, TypeOK
    <3>2. AddsUp(copy[c]) /\ reversed[c] = 0 /\ (~touched[c] => AddsUp(job))
      BY <2>5, <3>1 DEF CallAddsUp, Active
    <3>3. /\ Describes(copy[c], copy[c].cursor + 1, reversed[c])'
          /\ ~touched'[c] => AddsUp(job)'
      BY <3>1, <3>2 DEF AddsUp, Describes, With
    <3> QED BY <3>1, <3>3 DEF CallAddsUp, Active, InBatch
  <2>14. CASE Reverse(c)
    <3>1. pc[c] = "reverse" /\ pc' = pc /\ touched'[c] = TRUE
      BY <2>14, ReverseEffect
    <3>2. Describes(copy[c], copy[c].cursor + 1, reversed[c]) /\ todo[c] = With("imported")
      BY <2>1, <2>5, <3>1 DEF CallAddsUp, Active, FinalInv
    <3>3. Describes(copy[c], copy[c].cursor + 1, reversed[c])'
      BY <2>14, <3>2, ReverseAddsUp
    <3> QED BY <3>1, <3>3 DEF CallAddsUp, Active, InBatch
  <2>15. CASE FinishRollback(c)
    <3>1. /\ pc[c] = "reverse" /\ pc'[c] = "update" /\ copy'[c].cursor = copy[c].cursor
          /\ copy'[c].processed = copy[c].processed
          /\ copy'[c].imported = copy[c].imported - reversed[c]
          /\ copy'[c].skipped = copy[c].skipped
          /\ copy'[c].rejected = copy[c].rejected
          /\ touched'[c] = touched[c] /\ job' = job /\ records' = records
      BY <2>15, FinishRollbackEffect
    <3>2. /\ Describes(copy[c], copy[c].cursor + 1, reversed[c])
          /\ ~touched[c] => AddsUp(job)
      BY <2>5, <3>1 DEF CallAddsUp, Active
    <3>3. copy[c].imported \in Int /\ reversed[c] \in Nat
      BY <2>5 DEF JobCopy, Typed, TypeOK
    <3>4. copy'[c].imported - 0 = Cardinality(With("imported"))'
      BY <3>1, <3>2, <3>3 DEF Describes, With
    <3>5. AddsUp(copy[c])'
      BY <3>1, <3>2, <3>4 DEF AddsUp, Describes, With
    <3>6. ~touched'[c] => AddsUp(job)'
      BY <3>1, <3>2 DEF AddsUp, Describes, With
    <3> QED BY <3>1, <3>5, <3>6 DEF CallAddsUp, Active, InBatch
  <2>16. CASE Update(c)
    <3>1. /\ pc[c] = "update" /\ job' = copy[c] /\ records' = records
          /\ pc'[c] = "idle" /\ ~touched'[c] /\ reversed'[c] = 0
      BY <2>16, ReturnEffect DEF Update, At
    <3>2. AddsUp(copy[c])
      BY <2>5, <3>1 DEF CallAddsUp, Active
    <3>3. AddsUp(job)'
      BY <3>1, <3>2 DEF AddsUp, Describes, With
    <3> QED BY <3>1, <3>3 DEF Active
  <2>17. CASE Abort(c)
    <3>1. /\ Active(c) /\ ~touched[c] /\ job' = job /\ records' = records
          /\ pc'[c] = "idle" /\ ~touched'[c] /\ reversed'[c] = 0
      BY <2>17, ReturnEffect DEF Abort
    <3>2. AddsUp(job)
      BY <2>5, <3>1 DEF CallAddsUp
    <3>3. AddsUp(job)'
      BY <3>1, <3>2 DEF AddsUp, Describes, With
    <3> QED BY <3>1, <3>3 DEF Active
  <2> HIDE DEF Good
  <2> QED BY <1>2, <2>7, <2>8, <2>9, <2>10, <2>11, <2>12, <2>13, <2>14, <2>15, <2>16, <2>17
          DEF Step
<1> QED BY <1>1, <1>2 DEF Next

\* Between calls the cursor and the counts of the job are those of its records, after
\* any sequence of batches, transitions and rollbacks and of calls that failed before
\* they changed a record; SettledJobAddsUp names what breaks it (RunBatch, Rollback).
THEOREM SettledJobsAddUp == Spec => []SettledJobAddsUp
<1>1. Init => Alone /\ FinalInv
  BY DEF Init, Alone, Active, FinalInv, NewImportJob
<1>2. Init => SumInv
  <2> SUFFICES ASSUME Init PROVE SumInv
    OBVIOUS
  <2>1. /\ With("imported") = {} /\ With("skipped") = {} /\ With("rejected") = {}
        /\ With(NoRecord) = 1 .. NumRecords
    BY NoRecordAssumption DEF Init, With, Outcomes, Indices
  <2>2. AddsUp(job)
    <3>1. Cardinality({}) = 0
      BY FS_EmptySet
    <3>2. /\ job.cursor = 0 /\ job.processed = 0 /\ job.imported = 0 /\ job.skipped = 0
          /\ job.rejected = 0
      BY DEF Init, NewImportJob
    <3>3. job.cursor + 1 = 1 /\ job.processed = 1 - 1 /\ job.imported - 0 = 0
      BY <3>2
    <3> QED BY <2>1, <3>1, <3>2, <3>3 DEF AddsUp, Describes
  <2> QED BY <2>2 DEF Init, SumInv, Active
<1>3. Typed /\ SumInv => SettledJobAddsUp
  <2> SUFFICES ASSUME Typed, SumInv, ~overlapped, ~cut, \A c \in Callers : ~Active(c),
                      AddsUp(job)
               PROVE  SettledJobAddsUp
    BY DEF SumInv, SettledJobAddsUp
  <2>1. job.cursor \in Nat /\ job.imported \in Int
    BY DEF Typed, TypeOK, ImportJob, JobCopy
  <2> QED BY <2>1, WithFinite DEF AddsUp, Describes, SettledJobAddsUp
<1> QED BY <1>1, <1>2, <1>3, TypedAlways, AloneStep, FinalStep, SumStep, PTL DEF Spec

=============================================================================
