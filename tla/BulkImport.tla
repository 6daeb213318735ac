------------------------------ MODULE BulkImport ------------------------------
(***************************************************************************)
(* packages/bulkimport: the import of a corpus in batches.                 *)
(*                                                                         *)
(* RunBatch reads the job, imports some records of the source one by one,  *)
(* and writes the whole job back at its end.  Pause, ResumeJob, FailJob    *)
(* and Rollback read the job and write it back too.  No call holds         *)
(* anything between its reads and its writes, and every one may fail or    *)
(* die in between.  The rows are those of Postgres, which takes one record *)
(* per job and source index, and no job with a negative count              *)
(* (000038_create_bulkimport.up.sql:60 and 26-29).                         *)
(***************************************************************************)
EXTENDS Integers, FiniteSets

CONSTANTS
    Callers,
    NumRecords, \* of the source
    Keys,       \* dedup keys
    Invalid,    \* what a record has for a key when it fails validation
    Blank,      \* and when it is valid but has nothing to dedup on
    BatchSizes,
    MaxCalls,   \* bound on the calls
    MaxErrors,  \* bound on the calls that fail or die midway
    NoRecord

ASSUME BoundsAssumption ==
    /\ NumRecords \in Nat /\ BatchSizes \subseteq Nat \ {0}
    /\ MaxCalls \in Nat /\ MaxErrors \in Nat
    /\ Invalid \notin Keys /\ Blank \notin Keys /\ Blank # Invalid

VARIABLES
    source,     \* the key of each record of the source
    job,        \* the stored job
    records,    \* the stored record of each source index: its outcome
    pc, copy,   \* where a call is, and the job it read
    next, upto, \* the record a batch is at, and its last one
    dup,        \* what its lookup of the dedup key found
    todo,       \* the records a rollback has yet to reverse
    reversed,   \* and how many it has
    touched,    \* history: the call changed a record
    calls, errors,
    overlapped, \* history: two calls were in progress at once
    cut,        \* history: a call ended after it changed some records only
    missed,     \* history: a lookup of a dedup key failed
    undone      \* history: a record was rolled back

batchVars == <<next, upto, dup>>
rollbackVars == <<todo, reversed>>
history == <<overlapped, cut, missed, undone>>
vars == <<source, job, records, pc, copy, batchVars, rollbackVars, touched, calls,
          errors, history>>

-----------------------------------------------------------------------------

Indices == 1 .. NumRecords

Statuses == {"pending", "running", "paused", "completed", "failed", "rolled_back"}

statusTransitions ==
    {<<"pending", "running">>, <<"pending", "failed">>,
     <<"running", "running">>, <<"running", "paused">>,
     <<"running", "completed">>, <<"running", "failed">>,
     <<"paused", "running">>, <<"paused", "failed">>,
     <<"completed", "rolled_back">>,
     <<"failed", "rolled_back">>, <<"failed", "running">>}

Outcomes == {"imported", "skipped", "rejected", "rolled_back"}

ASSUME NoRecordAssumption == NoRecord \notin Outcomes

\* A rollback subtracts what it reversed from a count that may never have seen it,
\* in its copy of the job; bulkimport_jobs_counts_nonneg keeps it out of the row.
JobCopy == [status : Statuses, cursor : 0 .. NumRecords, processed : Nat,
            imported : Int, skipped : Nat, rejected : Nat]

ImportJob == {j \in JobCopy : j.imported >= 0}

NewImportJob == [status |-> "pending", cursor |-> 0, processed |-> 0,
                 imported |-> 0, skipped |-> 0, rejected |-> 0]

Active(c) == pc[c] # "idle"
At(c, where) == pc[c] = where
Goto(c, where) == pc' = [pc EXCEPT ![c] = where]

\* The call is over and keeps nothing.
Return(c) ==
    /\ Goto(c, "idle")
    /\ copy' = [copy EXCEPT ![c] = NewImportJob]
    /\ next' = [next EXCEPT ![c] = 1]
    /\ upto' = [upto EXCEPT ![c] = 0]
    /\ dup' = [dup EXCEPT ![c] = FALSE]
    /\ todo' = [todo EXCEPT ![c] = {}]
    /\ reversed' = [reversed EXCEPT ![c] = 0]
    /\ touched' = [touched EXCEPT ![c] = FALSE]

With(outcome) == {i \in Indices : records[i] = outcome}

Init ==
    /\ source \in [Indices -> Keys \cup {Invalid, Blank}]
    /\ job = NewImportJob
    /\ records = [i \in Indices |-> NoRecord]
    /\ pc = [c \in Callers |-> "idle"]
    /\ copy = [c \in Callers |-> NewImportJob]
    /\ next = [c \in Callers |-> 1]
    /\ upto = [c \in Callers |-> 0]
    /\ dup = [c \in Callers |-> FALSE]
    /\ todo = [c \in Callers |-> {}]
    /\ reversed = [c \in Callers |-> 0]
    /\ touched = [c \in Callers |-> FALSE]
    /\ calls = 0 /\ errors = 0
    /\ overlapped = FALSE /\ cut = FALSE /\ missed = FALSE /\ undone = FALSE

-----------------------------------------------------------------------------
(* Starting a call: the job is read and the status checked.                *)

Enter(c) ==
    /\ calls < MaxCalls
    /\ At(c, "idle")
    /\ calls' = calls + 1
    /\ overlapped' = (overlapped \/ \E o \in Callers : Active(o))
    /\ UNCHANGED <<source, job, records, dup, rollbackVars, touched, errors, cut, missed,
                   undone>>

\* ReadAt: the records from the cursor on, as many as are asked for or left.
RunBatch(c, size) ==
    LET last == IF job.cursor + size < NumRecords THEN job.cursor + size
                                                  ELSE NumRecords IN
    /\ Enter(c)
    /\ job.status \in {"pending", "running"}
    /\ copy' = [copy EXCEPT ![c] = [job EXCEPT !.status = "running"]]
    /\ next' = [next EXCEPT ![c] = job.cursor + 1]
    /\ upto' = [upto EXCEPT ![c] = last]
    /\ Goto(c, IF job.cursor < last THEN "lookup" ELSE "finish")

\* Pause, ResumeJob and FailJob.
ApplyTransition(c, status) ==
    /\ Enter(c)
    /\ <<job.status, status>> \in statusTransitions
    /\ copy' = [copy EXCEPT ![c] = [job EXCEPT !.status = status]]
    /\ Goto(c, "update")
    /\ UNCHANGED <<next, upto>>

Rollback(c) ==
    /\ Enter(c)
    /\ job.status \in {"completed", "failed"}
    /\ copy' = [copy EXCEPT ![c] = job]
    /\ Goto(c, "list")
    /\ UNCHANGED <<next, upto>>

-----------------------------------------------------------------------------
(* The rest of RunBatch.                                                   *)

\* FindByDedupKey: is a record with this key imported?  An invalid record, and
\* one with a blank key, is not looked up.
Lookup(c) ==
    /\ At(c, "lookup")
    /\ dup' = [dup EXCEPT ![c] = /\ source[next[c]] \in Keys
                                 /\ \E i \in With("imported") :
                                       source[i] = source[next[c]]]
    /\ Goto(c, "create")
    /\ UNCHANGED <<source, job, records, copy, next, upto, rollbackVars, touched, calls,
                   errors, history>>

\* An error of the lookup is taken for no duplicate.
LookupFails(c) ==
    /\ errors < MaxErrors
    /\ errors' = errors + 1
    /\ At(c, "lookup")
    /\ source[next[c]] \in Keys
    /\ dup' = [dup EXCEPT ![c] = FALSE]
    /\ missed' = TRUE
    /\ Goto(c, "create")
    /\ UNCHANGED <<source, job, records, copy, next, upto, rollbackVars, touched, calls,
                   overlapped, cut, undone>>

\* A defect: a duplicate is imported.
OutcomeOf_NoDedup(c) == IF source[next[c]] = Invalid THEN "rejected" ELSE "imported"

OutcomeOf(c) == IF source[next[c]] = Invalid THEN "rejected"
                ELSE IF dup[c] THEN "skipped" ELSE "imported"

Count(j, outcome) ==
    [j EXCEPT !.processed = @ + 1,
              !.imported = IF outcome = "imported" THEN @ + 1 ELSE @,
              !.skipped = IF outcome = "skipped" THEN @ + 1 ELSE @,
              !.rejected = IF outcome = "rejected" THEN @ + 1 ELSE @]

\* The record is created and counted in the copy of the job.
Create(c) ==
    LET outcome == OutcomeOf(c) IN
    /\ At(c, "create")
    /\ records[next[c]] = NoRecord
    /\ records' = [records EXCEPT ![next[c]] = outcome]
    /\ copy' = [copy EXCEPT ![c] = Count(@, outcome)]
    /\ next' = [next EXCEPT ![c] = @ + 1]
    /\ touched' = [touched EXCEPT ![c] = TRUE]
    /\ Goto(c, IF next[c] < upto[c] THEN "lookup" ELSE "finish")
    /\ UNCHANGED <<source, job, upto, dup, rollbackVars, calls, errors, history>>

\* A defect: the cursor moves by what was asked for, not by what was created.
FinishBatch_Early(c) ==
    /\ At(c, "lookup")
    /\ copy' = [copy EXCEPT ![c].cursor = upto[c]]
    /\ Goto(c, "update")
    /\ UNCHANGED <<source, job, records, batchVars, rollbackVars, touched, calls, errors,
                   history>>

Moved(j, last) ==
    [j EXCEPT !.cursor = last,
              !.status = IF last = NumRecords THEN "completed" ELSE @]

\* The cursor moves past the batch; at the end of the source the job is complete.
FinishBatch(c) ==
    /\ At(c, "finish")
    /\ copy' = [copy EXCEPT ![c] = Moved(@, upto[c])]
    /\ Goto(c, "update")
    /\ UNCHANGED <<source, job, records, batchVars, rollbackVars, touched, calls, errors,
                   history>>

-----------------------------------------------------------------------------
(* The rest of Rollback.                                                   *)

ListForJob(c) ==
    /\ At(c, "list")
    /\ todo' = [todo EXCEPT ![c] = With("imported")]
    /\ Goto(c, "reverse")
    /\ UNCHANGED <<source, job, records, copy, batchVars, reversed, touched, calls, errors,
                   history>>

\* The records are reversed in the order of the source.
Reverse(c) ==
    \E i \in todo[c] :
        /\ At(c, "reverse")
        /\ \A k \in todo[c] : i <= k
        /\ records' = [records EXCEPT ![i] = "rolled_back"]
        /\ todo' = [todo EXCEPT ![c] = @ \ {i}]
        /\ reversed' = [reversed EXCEPT ![c] = @ + 1]
        /\ touched' = [touched EXCEPT ![c] = TRUE]
        /\ undone' = TRUE
        /\ UNCHANGED <<source, job, pc, copy, batchVars, calls, errors, overlapped, cut,
                       missed>>

\* A defect: the count of imported records is left as it was.
FinishRollback_Uncounted(c) ==
    /\ At(c, "reverse")
    /\ todo[c] = {}
    /\ copy' = [copy EXCEPT ![c].status = "rolled_back"]
    /\ Goto(c, "update")
    /\ UNCHANGED <<source, job, records, batchVars, rollbackVars, touched, calls, errors,
                   history>>

\* A defect: the rollback goes on after a record that could not be reversed.
FinishRollback_Partial(c) ==
    /\ At(c, "reverse")
    /\ copy' = [copy EXCEPT ![c].status = "rolled_back",
                            ![c].imported = @ - reversed[c]]
    /\ Goto(c, "update")
    /\ UNCHANGED <<source, job, records, batchVars, rollbackVars, touched, calls, errors,
                   history>>

Undone(j, n) == [j EXCEPT !.status = "rolled_back", !.imported = @ - n]

FinishRollback(c) ==
    /\ At(c, "reverse")
    /\ todo[c] = {}
    /\ copy' = [copy EXCEPT ![c] = Undone(@, reversed[c])]
    /\ Goto(c, "update")
    /\ UNCHANGED <<source, job, records, batchVars, rollbackVars, touched, calls, errors,
                   history>>

-----------------------------------------------------------------------------

\* The whole job is written as the call has it, if Postgres takes the count.
Update(c) ==
    /\ At(c, "update")
    /\ copy[c] \in ImportJob
    /\ job' = copy[c]
    /\ Return(c)
    /\ UNCHANGED <<source, records, calls, errors, history>>

\* The database refuses the row: the index is taken, or the count is negative.
Refused(c) ==
    \/ At(c, "create") /\ records[next[c]] # NoRecord
    \/ At(c, "update") /\ copy[c] \notin ImportJob

\* A call is given up: it fails or dies, or its row is refused.  What it did to the
\* records stays.
Abort(c) ==
    /\ Active(c)
    /\ \/ errors < MaxErrors /\ errors' = errors + 1
       \/ Refused(c) /\ UNCHANGED errors
    /\ cut' = (cut \/ touched[c])
    /\ Return(c)
    /\ UNCHANGED <<source, job, records, calls, overlapped, missed, undone>>

Step(c) ==
    \/ \E size \in BatchSizes : RunBatch(c, size)
    \/ \E status \in {"paused", "running", "failed"} : ApplyTransition(c, status)
    \/ Rollback(c)
    \/ Lookup(c) \/ LookupFails(c) \/ Create(c) \/ FinishBatch(c)
    \/ ListForJob(c) \/ Reverse(c) \/ FinishRollback(c)
    \/ Update(c) \/ Abort(c)

Next == \E c \in Callers : Step(c)

Spec == Init /\ [][Next]_vars

-----------------------------------------------------------------------------
(* Properties.                                                             *)

Places == {"idle", "lookup", "create", "finish", "list", "reverse", "update"}

TypeOK ==
    /\ source \in [Indices -> Keys \cup {Invalid, Blank}]
    /\ job \in ImportJob
    /\ records \in [Indices -> Outcomes \cup {NoRecord}]
    /\ pc \in [Callers -> Places]
    /\ copy \in [Callers -> JobCopy]
    /\ next \in [Callers -> 1 .. NumRecords + 1]
    /\ upto \in [Callers -> 0 .. NumRecords]
    /\ dup \in [Callers -> BOOLEAN]
    /\ todo \in [Callers -> SUBSET Indices]
    /\ reversed \in [Callers -> Nat]
    /\ touched \in [Callers -> BOOLEAN]
    /\ calls \in 0 .. MaxCalls /\ errors \in 0 .. MaxErrors
    /\ overlapped \in BOOLEAN /\ cut \in BOOLEAN
    /\ missed \in BOOLEAN /\ undone \in BOOLEAN

\* However calls overlap, fail and are repeated, no record of the source before the
\* cursor is left out, and a complete job is at the end of the source (RunBatch).
NothingSkipped ==
    /\ \A i \in 1 .. job.cursor : records[i] # NoRecord
    /\ job.status = "completed" => job.cursor = NumRecords

\* However calls overlap, fail and are repeated, two records of one key are never
\* both imported unless a lookup failed, and of the valid records taken in with a
\* key one is imported unless something was rolled back (RunBatch, FindByDedupKey).
ImportedOnce ==
    /\ \A i, k \in With("imported") :
         (~missed /\ source[i] \in Keys /\ source[i] = source[k]) => i = k
    /\ \A i \in Indices :
         (records[i] # NoRecord /\ source[i] # Invalid /\ ~undone)
            => \E k \in With("imported") : source[k] = source[i]

\* Between calls the job describes its records: those before the cursor and no
\* others are there, so the next batch can create its first, and the counts are
\* theirs.  A call that ends after part of its records, or one that overlaps
\* another (a Pause during a batch writes the old cursor back), breaks this for
\* good (RunBatch, applyTransition, Rollback).
SettledJobAddsUp ==
    (~overlapped /\ ~cut /\ \A c \in Callers : ~Active(c)) =>
        /\ With(NoRecord) = job.cursor + 1 .. NumRecords
        /\ job.processed = job.cursor
        /\ job.imported = Cardinality(With("imported"))
        /\ job.skipped = Cardinality(With("skipped"))
        /\ job.rejected = Cardinality(With("rejected"))

\* A job that is rolled back has no imported record left, unless calls overlapped.
\* A rollback that stopped midway is not one: nor is the first one after a cut batch,
\* which reverses more records than the job counts and whose Update Postgres refuses.
\* The job stays as it was and another Rollback, with nothing left to reverse, goes
\* through (Rollback).
RollbackIsFinal ==
    (job.status = "rolled_back" /\ ~overlapped) => With("imported") = {}

=============================================================================
