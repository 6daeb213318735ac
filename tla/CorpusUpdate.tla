----------------------------- MODULE CorpusUpdate -----------------------------
(***************************************************************************)
(* packages/corpusupdater: amendments to the legal corpus, staged on a     *)
(* job, validated, applied and rolled back.                                *)
(*                                                                         *)
(* StageAmendment, ValidateJob, ApplyJob and Rollback read the job once,   *)
(* then work from that copy and from one listing of its amendments; the    *)
(* job is written back whatever its stored status has become.  A text of   *)
(* the corpus and the row of the amendment that changes it are written by  *)
(* separate calls, and either may fail.  The rows are those of Postgres,   *)
(* whose Update leaves target_id alone (postgres_repository.go:243).       *)
(***************************************************************************)
EXTENDS Integers, FiniteSets

CONSTANTS
    Callers, Jobs,
    Existing,      \* the entries the corpus starts with
    Fresh,         \* the identifiers of entries it does not have yet
    NumAmendments, \* bound on the amendments, numbered in the order of CreatedAt
    MaxErrors,     \* bound on the calls that fail or die midway
    NoTarget,      \* the empty TargetID
    NoJob,
    Absent, Blank, Original, \* texts: no entry, an empty one, the one at the start
    Rows           \* the amendments that callers stage

ASSUME BoundsAssumption == NumAmendments \in Nat /\ MaxErrors \in Nat

VARIABLES
    status,     \* the stored status of each job
    corpus,     \* the text of each entry
    amend,      \* the row of each amendment
    stored,     \* the amendments that have a row
    staged,     \* how many were ever numbered
    now,        \* 0 before and 1 after the later of the effective dates
    pc,         \* where a call is
    on,         \* its job
    copy,       \* the status it holds for it
    goal,       \* the status it will write next
    todo,       \* the listed amendments it has yet to handle
    previous,   \* what GetText returned
    saved,      \* PreviousText of the listed amendments, as listed
    errors,
    validated,  \* history: accepted by Validate
    raced,      \* history: staged while its job was being validated
    skipped,    \* history: not effective when its job was applied
    changes     \* history: how often ApplyAmendment wrote an entry, up to two

local == <<pc, on, copy, goal, todo, previous, saved>>
history == <<validated, raced, skipped, changes>>
vars == <<status, corpus, amend, stored, staged, now, local, errors, history>>

-----------------------------------------------------------------------------

Amendments == 1 .. NumAmendments

JobStatuses == {"pending", "validating", "applying", "applied", "failed", "rolled_back"}

jobTransitions ==
    {<<"pending", "validating">>, <<"pending", "failed">>,
     <<"validating", "applying">>, <<"validating", "failed">>,
     <<"applying", "applied">>, <<"applying", "failed">>,
     <<"applied", "rolled_back">>}

\* An Add without a TargetID makes an entry named after the amendment.
Entries == Existing \cup Fresh \cup Amendments \cup {NoTarget}

Texts == Amendments \cup {Absent, Blank, Original}

\* The date is past from the value due of now on; valid stands for the checks of
\* Validate that look at the amendment only.
Amendment ==
    [job : Jobs \cup {NoJob}, change : {"add", "amend", "repeal"},
     target : Existing \cup Fresh \cup {NoTarget}, valid : BOOLEAN, due : 0 .. 1,
     applied : BOOLEAN, rolledBack : BOOLEAN, previous : Texts]

Unstaged == [job |-> NoJob, change |-> "add", target |-> NoTarget, valid |-> TRUE,
             due |-> 0, applied |-> FALSE, rolledBack |-> FALSE, previous |-> Blank]

\* Nothing has happened to an amendment that is staged; what is not an Add has a target.
ASSUME RowsAssumption ==
    /\ Rows \subseteq Amendment
    /\ \A row \in Rows : /\ [Unstaged EXCEPT !.change = row.change, !.target = row.target,
                                            !.valid = row.valid, !.due = row.due] = row
                         /\ row.change # "add" => row.target # NoTarget

IsEffective(a) == amend[a].due <= now

ListForJob(j) == {a \in stored : amend[a].job = j}

\* The entry ApplyAmendment writes, and its text.
TargetID(a) == IF amend[a].target = NoTarget THEN a ELSE amend[a].target
NewText(a) == IF amend[a].change = "repeal" THEN Blank ELSE a

At(c, where) == pc[c] = where
Goto(c, where) == pc' = [pc EXCEPT ![c] = where]

\* What a call holds that has not listed amendments.
NothingListed ==
    /\ todo = [c \in Callers |-> {}]
    /\ previous = [c \in Callers |-> Blank]
    /\ saved = [c \in Callers |-> [a \in Amendments |-> Blank]]

\* The call is over and keeps nothing.
Return(c) ==
    /\ Goto(c, "idle")
    /\ on' = [on EXCEPT ![c] = NoJob]
    /\ copy' = [copy EXCEPT ![c] = "pending"]
    /\ goal' = [goal EXCEPT ![c] = "pending"]
    /\ todo' = [todo EXCEPT ![c] = {}]
    /\ previous' = [previous EXCEPT ![c] = Blank]
    /\ saved' = [saved EXCEPT ![c] = [a \in Amendments |-> Blank]]

\* CreateJob has made the jobs.
Init ==
    /\ status = [j \in Jobs |-> "pending"]
    /\ corpus = [t \in Entries |-> IF t \in Existing THEN Original ELSE Absent]
    /\ amend = [a \in Amendments |-> Unstaged]
    /\ stored = {} /\ staged = 0 /\ now = 0
    /\ pc = [c \in Callers |-> "idle"]
    /\ on = [c \in Callers |-> NoJob]
    /\ copy = [c \in Callers |-> "pending"]
    /\ goal = [c \in Callers |-> "pending"]
    /\ NothingListed
    /\ errors = 0
    /\ validated = {} /\ raced = {} /\ skipped = {}
    /\ changes = [t \in Entries |-> 0]

-----------------------------------------------------------------------------
(* Starting a call: the job is read and its status checked.                *)

Enter(c, j, allowed, where) ==
    /\ At(c, "idle")
    /\ status[j] \in allowed
    /\ on' = [on EXCEPT ![c] = j]
    /\ copy' = [copy EXCEPT ![c] = status[j]]
    /\ Goto(c, where)

\* The amendments of job j being staged, and whether it is being validated or is left
\* in that status.
StagingOn(j) == UNION {todo[c] : c \in {d \in Callers : At(d, "create") /\ on[d] = j}}
Validating(j) ==
    \/ status[j] = "validating"
    \/ \E c \in Callers :
         on[c] = j /\ (pc[c] \in {"mark", "check", "resolve"} \/ goal[c] = "applying")

\* A defect: an amendment is staged whatever the status of its job.
StageAmendment_Anytime(c, j) ==
    LET a == staged + 1 IN
    /\ staged < NumAmendments
    /\ Enter(c, j, JobStatuses, "create")
    /\ staged' = a
    /\ todo' = [todo EXCEPT ![c] = {a}]
    /\ raced' = IF Validating(j) THEN raced \cup {a} ELSE raced
    /\ UNCHANGED <<status, corpus, amend, stored, now, goal, previous, saved, errors,
                   validated, skipped, changes>>

StageAmendment(c, j) ==
    LET a == staged + 1 IN
    /\ staged < NumAmendments
    /\ Enter(c, j, {"pending", "validating"}, "create")
    /\ staged' = a
    /\ todo' = [todo EXCEPT ![c] = {a}]
    /\ raced' = IF Validating(j) THEN raced \cup {a} ELSE raced
    /\ UNCHANGED <<status, corpus, amend, stored, now, goal, previous, saved, errors,
                   validated, skipped, changes>>

ValidateJob(c, j) ==
    /\ Enter(c, j, {"pending"}, "mark")
    /\ raced' = raced \cup StagingOn(j)
    /\ UNCHANGED <<status, corpus, amend, stored, staged, now, goal, todo, previous, saved,
                   errors, validated, skipped, changes>>

ApplyJob(c, j) ==
    /\ Enter(c, j, {"applying"}, "list")
    /\ UNCHANGED <<status, corpus, amend, stored, staged, now, goal, todo, previous, saved,
                   errors, history>>

Rollback(c, j) ==
    /\ Enter(c, j, {"applied"}, "listApplied")
    /\ UNCHANGED <<status, corpus, amend, stored, staged, now, goal, todo, previous, saved,
                   errors, history>>

-----------------------------------------------------------------------------
(* The rest of StageAmendment and ValidateJob.                             *)

Create(c, row) ==
    /\ At(c, "create")
    /\ stored' = stored \cup todo[c]
    /\ amend' = [a \in Amendments |->
                   IF a \in todo[c] THEN [row EXCEPT !.job = on[c]] ELSE amend[a]]
    /\ Return(c)
    /\ UNCHANGED <<status, corpus, staged, now, errors, history>>

\* transitionJob, to a status that is not the last the call writes.
Mark(c) ==
    /\ At(c, "mark")
    /\ <<copy[c], "validating">> \in jobTransitions
    /\ status' = [status EXCEPT ![on[c]] = "validating"]
    /\ copy' = [copy EXCEPT ![c] = "validating"]
    /\ Goto(c, "check")
    /\ UNCHANGED <<corpus, amend, stored, staged, now, on, goal, todo, previous, saved,
                   errors, history>>

First(c) == CHOOSE a \in todo[c] : \A b \in todo[c] : a <= b

\* Start on the first amendment of a listing, or go on to write the job at its end.
Proceed(c, left, where, last) ==
    /\ todo' = [todo EXCEPT ![c] = left]
    /\ goal' = [goal EXCEPT ![c] = IF left = {} THEN last ELSE @]
    /\ Goto(c, IF left = {} THEN "transition" ELSE where)

\* ListForJob of ValidateJob.
Check(c) ==
    /\ At(c, "check")
    /\ Proceed(c, ListForJob(on[c]), "resolve", "applying")
    /\ UNCHANGED <<status, corpus, amend, stored, staged, now, on, copy, previous, saved,
                   errors, history>>

\* The target must resolve unless the change is an Add.
Validate(a) ==
    /\ amend[a].valid
    /\ amend[a].change # "add" => corpus[amend[a].target] # Absent

\* The listed amendments are validated one after the other; the first problem fails the
\* job.  Without a TargetResolver no target is looked for, so one that is absent passes.
Resolve(c) ==
    LET a == First(c) IN
    /\ At(c, "resolve")
    /\ \/ /\ amend[a].valid
          /\ Proceed(c, todo[c] \ {a}, "resolve", "applying")
          /\ validated' = validated \cup {a}
       \/ /\ ~Validate(a)
          /\ Proceed(c, {}, "resolve", "failed")
          /\ UNCHANGED validated
    /\ UNCHANGED <<status, corpus, amend, stored, staged, now, on, copy, previous, saved,
                   errors, raced, skipped, changes>>

-----------------------------------------------------------------------------
(* The rest of ApplyJob and Rollback, an amendment at a time in the order  *)
(* of CreatedAt.                                                           *)

List(c) ==
    LET waiting == {a \in ListForJob(on[c]) : ~amend[a].applied}
        due == {a \in waiting : IsEffective(a)} IN
    /\ At(c, "list")
    /\ Proceed(c, due, "get", "applied")
    /\ skipped' = skipped \cup (waiting \ due)
    /\ UNCHANGED <<status, corpus, amend, stored, staged, now, on, copy, previous, saved,
                   errors, validated, raced, changes>>

\* GetText, which an Add does not need.
GetText(c) ==
    LET a == First(c) IN
    /\ At(c, "get")
    /\ \/ amend[a].change = "add" /\ UNCHANGED previous
       \/ /\ amend[a].change # "add" /\ corpus[amend[a].target] # Absent
          /\ previous' = [previous EXCEPT ![c] = corpus[amend[a].target]]
    /\ Goto(c, "set")
    /\ UNCHANGED <<status, corpus, amend, stored, staged, now, on, copy, goal, todo, saved,
                   errors, history>>

SetText(c) ==
    LET t == TargetID(First(c)) IN
    /\ At(c, "set")
    /\ corpus' = [corpus EXCEPT ![t] = NewText(First(c))]
    /\ changes' = [changes EXCEPT ![t] = IF @ < 2 THEN @ + 1 ELSE 2]
    /\ Goto(c, "update")
    /\ UNCHANGED <<status, amend, stored, staged, now, on, copy, goal, todo, previous, saved,
                   errors, validated, raced, skipped>>

\* A defect: the snapshot is taken after the new text is written.
Update_LateSnapshot(c) ==
    LET a == First(c) IN
    /\ At(c, "update")
    /\ amend' = [amend EXCEPT ![a].applied = TRUE, ![a].rolledBack = FALSE,
                              ![a].previous = corpus[TargetID(a)]]
    /\ previous' = [previous EXCEPT ![c] = Blank]
    /\ Proceed(c, todo[c] \ {a}, "get", "applied")
    /\ UNCHANGED <<status, corpus, stored, staged, now, on, copy, saved, errors, history>>

\* The row is written as listed but for what was applied and what it replaced.
Written(row, rolledBack, text) ==
    [row EXCEPT !.applied = TRUE, !.rolledBack = rolledBack, !.previous = text]

Update(c) ==
    LET a == First(c) IN
    /\ At(c, "update")
    /\ amend' = [amend EXCEPT ![a] = Written(@, FALSE, previous[c])]
    /\ previous' = [previous EXCEPT ![c] = Blank]
    /\ Proceed(c, todo[c] \ {a}, "get", "applied")
    /\ UNCHANGED <<status, corpus, stored, staged, now, on, copy, saved, errors, history>>

\* A defect: the amendment is left out and the others go on.
ApplyFails_GoesOn(c) ==
    /\ pc[c] \in {"get", "set", "update"}
    /\ errors < MaxErrors /\ errors' = errors + 1
    /\ previous' = [previous EXCEPT ![c] = Blank]
    /\ Proceed(c, todo[c] \ {First(c)}, "get", "applied")
    /\ UNCHANGED <<status, corpus, amend, stored, staged, now, on, copy, saved, history>>

\* GetText finds no entry, or it, SetText, Embed or Update fails: the job will be
\* failed with what is applied left applied.
ApplyFails(c) ==
    /\ \/ /\ pc[c] \in {"get", "set", "update"}
          /\ errors < MaxErrors /\ errors' = errors + 1
       \/ /\ At(c, "get") /\ amend[First(c)].change # "add"
          /\ corpus[amend[First(c)].target] = Absent
          /\ UNCHANGED errors
    /\ goal' = [goal EXCEPT ![c] = "failed"]
    /\ todo' = [todo EXCEPT ![c] = {}]
    /\ previous' = [previous EXCEPT ![c] = Blank]
    /\ Goto(c, "transition")
    /\ UNCHANGED <<status, corpus, amend, stored, staged, now, on, copy, saved, history>>

ListApplied(c) ==
    LET listed == {a \in ListForJob(on[c]) : amend[a].applied /\ ~amend[a].rolledBack} IN
    /\ At(c, "listApplied")
    /\ Proceed(c, listed, "restore", "rolled_back")
    /\ saved' = [saved EXCEPT ![c] = [a \in Amendments |->
                                        IF a \in listed THEN amend[a].previous ELSE Blank]]
    /\ UNCHANGED <<status, corpus, amend, stored, staged, now, on, copy, previous, errors,
                   history>>

\* SetText, on the TargetID of the row.
Restore(c) ==
    LET a == First(c) IN
    /\ At(c, "restore")
    /\ corpus' = [corpus EXCEPT ![amend[a].target] = saved[c][a]]
    /\ Goto(c, "revert")
    /\ UNCHANGED <<status, amend, stored, staged, now, on, copy, goal, todo, previous, saved,
                   errors, history>>

Revert(c) ==
    LET a == First(c) IN
    /\ At(c, "revert")
    /\ amend' = [amend EXCEPT ![a] = Written(@, TRUE, saved[c][a])]
    /\ Proceed(c, todo[c] \ {a}, "restore", "rolled_back")
    /\ UNCHANGED <<status, corpus, stored, staged, now, on, copy, previous, saved, errors,
                   history>>

-----------------------------------------------------------------------------

\* The last transitionJob of a call.
Transition(c) ==
    /\ At(c, "transition")
    /\ <<copy[c], goal[c]>> \in jobTransitions
    /\ status' = [status EXCEPT ![on[c]] = goal[c]]
    /\ Return(c)
    /\ UNCHANGED <<corpus, amend, stored, staged, now, errors, history>>

\* A call fails or dies and returns; what it wrote stays.
Abort(c) ==
    /\ ~At(c, "idle")
    /\ errors < MaxErrors /\ errors' = errors + 1
    /\ Return(c)
    /\ UNCHANGED <<status, corpus, amend, stored, staged, now, history>>

\* The later effective date passes.
Tick ==
    /\ now = 0 /\ now' = 1
    /\ UNCHANGED <<status, corpus, amend, stored, staged, local, errors, history>>

Step(c) ==
    \/ \E j \in Jobs : \/ StageAmendment(c, j) \/ ValidateJob(c, j)
                       \/ ApplyJob(c, j) \/ Rollback(c, j)
    \/ \E row \in Rows : Create(c, row)
    \/ Mark(c) \/ Check(c) \/ Resolve(c)
    \/ List(c) \/ GetText(c) \/ SetText(c) \/ Update(c) \/ ApplyFails(c)
    \/ ListApplied(c) \/ Restore(c) \/ Revert(c)
    \/ Transition(c) \/ Abort(c)

Next == Tick \/ \E c \in Callers : Step(c)

Spec == Init /\ [][Next]_vars

-----------------------------------------------------------------------------
(* Properties.                                                             *)

Places == {"idle", "create", "mark", "check", "resolve", "list", "get", "set", "update",
           "listApplied", "restore", "revert", "transition"}

TypeOK ==
    /\ status \in [Jobs -> JobStatuses]
    /\ corpus \in [Entries -> Texts]
    /\ amend \in [Amendments -> Amendment]
    /\ stored \subseteq Amendments /\ staged \in 0 .. NumAmendments /\ now \in 0 .. 1
    /\ pc \in [Callers -> Places]
    /\ on \in [Callers -> Jobs \cup {NoJob}]
    /\ copy \in [Callers -> JobStatuses] /\ goal \in [Callers -> JobStatuses]
    /\ todo \in [Callers -> SUBSET Amendments]
    /\ previous \in [Callers -> Texts]
    /\ saved \in [Callers -> [Amendments -> Texts]]
    /\ errors \in 0 .. MaxErrors
    /\ validated \subseteq Amendments /\ raced \subseteq Amendments
    /\ skipped \subseteq Amendments
    /\ changes \in [Entries -> 0 .. 2]

\* ApplyAmendment takes no snapshot for an Add, so one that names an entry there is
\* overwrites a text that nothing keeps.
Overwrites(a) == amend[a].change = "add" /\ amend[a].target \in Existing

\* However calls overlap, fail and are repeated, an entry one amendment changed once
\* has, once that amendment is rolled back, the text it had at the start; one that an
\* Add made is left empty, not removed.  Not so for an Add over an entry there is: the
\* text it overwrote is lost, against what types.go says of PreviousText.  A second
\* change (by another amendment, by an ApplyJob that overlaps, or by one repeated after
\* a call that died) breaks it too, and so does an Add without a TargetID
\* (ApplyAmendment, Rollback).
RollbackRestores ==
    \A a \in stored :
        /\ amend[a].rolledBack
        /\ amend[a].target # NoTarget /\ changes[TargetID(a)] = 1 /\ ~Overwrites(a)
        => corpus[TargetID(a)] = IF amend[a].change = "add" THEN Blank ELSE Original

\* However calls overlap and fail, an amendment is applied only if Validate accepted
\* it, or if it was staged while its job was being validated: StageAmendment checks the
\* status and creates the row later (StageAmendment, ValidateJob).
AppliedWasValidated ==
    \A a \in stored : amend[a].applied => a \in validated \cup raced

\* However calls overlap, fail and are repeated, a job that was ever applied has
\* applied each of its amendments, but for two kinds.  One is staged while the job is
\* being validated; a validation that overlaps may accept it after the job was applied,
\* so that it was validated does not bring it in.  The other was not effective when
\* ApplyJob listed: the job is marked applied without it, and as ApplyJob takes no
\* applied job, no later call picks it up, against its documentation and what types.go
\* says of StatusApplied (ValidateJob, ApplyJob).
AppliedIsComplete ==
    \A a \in stored \ (raced \cup skipped) :
        status[amend[a].job] \in {"applied", "rolled_back"} => amend[a].applied

\* What Rollback's comment says of an Add: its entry is emptied.
AddedIsEmptied ==
    \A a \in stored : (amend[a].change = "add" /\ amend[a].rolledBack)
                        => corpus[TargetID(a)] = Blank

=============================================================================
