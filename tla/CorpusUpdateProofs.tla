------------------------- MODULE CorpusUpdateProofs -------------------------
(***************************************************************************)
(* Proofs about CorpusUpdate, for any number of callers, jobs, entries and *)
(* amendments of any kind, and every bound on errors.                      *)
(***************************************************************************)
EXTENDS CorpusUpdate, WellFoundedInduction, TLAPS

-----------------------------------------------------------------------------
(* The amendments a call works on.                                         *)

Working(c) == pc[c] \in {"resolve", "get", "set", "update", "restore", "revert"}

\* The amendments it applies or rolls back.
Applying(c) == pc[c] \in {"get", "set", "update", "restore", "revert"}

Staging(c) == pc[c] = "create"

\* Every amendment is staged once, and only those that have a row are worked on.
Shape ==
    /\ stored \subseteq 1 .. staged
    /\ \A a \in Amendments \ stored : amend[a] = Unstaged
    /\ \A a \in stored : amend[a].job \in Jobs
    /\ \A a \in stored : amend[a].change # "add" => amend[a].target # NoTarget
    /\ \A c \in Callers :
         /\ pc[c] # "idle" => on[c] \in Jobs
         /\ Staging(c) => todo[c] \subseteq (1 .. staged) \ stored
         /\ Working(c) => todo[c] \subseteq stored /\ todo[c] # {}
         /\ pc[c] \notin {"set", "update"} => previous[c] = Blank
    /\ \A c, d \in Callers : Staging(c) /\ Staging(d) /\ todo[c] \cap todo[d] # {} => c = d

-----------------------------------------------------------------------------
(* Validation.  A job is past its validation when its status, or one a     *)
(* call holds or will write, says so.  From then on every amendment that   *)
(* comes to the job is one that raced.                                     *)

Past(j) ==
    \/ status[j] \in {"applying", "applied", "rolled_back"}
    \/ \E c \in Callers : /\ on[c] = j
                          /\ \/ goal[c] = "applying"
                             \/ copy[c] \in {"applying", "applied"}

\* The status a call holds and the one it will write go with where it is.
Holding(c) ==
    /\ goal[c] # "pending" => pc[c] = "transition"
    /\ pc[c] \in {"idle", "mark"} => copy[c] = "pending"
    /\ pc[c] = "create" => copy[c] \in {"pending", "validating"}
    /\ pc[c] \in {"check", "resolve"} => copy[c] = "validating"
    /\ pc[c] \in {"list", "get", "set", "update"} => copy[c] = "applying"
    /\ pc[c] \in {"listApplied", "restore", "revert"} => copy[c] = "applied"
    /\ goal[c] = "applying" => copy[c] = "validating"
    /\ goal[c] = "applied" => copy[c] = "applying"
    /\ goal[c] = "rolled_back" => copy[c] = "applied"

CallsInv == \A c \in Callers : Holding(c)

\* No call sees a job as it was before its validation any more.
Seen(j) == status[j] # "pending"

ValidInv ==
    /\ AppliedWasValidated
    /\ \A j \in Jobs : Past(j) => /\ Seen(j)
                                  /\ ListForJob(j) \subseteq validated \cup raced
                                  /\ StagingOn(j) \subseteq raced
    /\ \A c \in Callers :
         /\ pc[c] \in {"mark", "check", "resolve"} => StagingOn(on[c]) \subseteq raced
         /\ pc[c] \in {"check", "resolve"} => Seen(on[c])
         /\ pc[c] = "resolve" => ListForJob(on[c]) \subseteq todo[c] \cup validated \cup raced
         /\ Applying(c) => todo[c] \subseteq validated \cup raced

\* What a job that is being applied has left, and what one that was has not.
Covered(j, left) ==
    \A a \in ListForJob(j) \ (raced \cup skipped) : amend[a].applied \/ a \in left

CompleteInv ==
    /\ \A j \in Jobs : status[j] \in {"applied", "rolled_back"} => Covered(j, {})
    /\ \A c \in Callers :
         /\ pc[c] \in {"get", "set", "update"} => Covered(on[c], todo[c])
         /\ goal[c] = "applied" => Covered(on[c], {})
         /\ copy[c] = "applied" => Covered(on[c], {})

-----------------------------------------------------------------------------
(* Restoring.  While an entry was written once, one amendment wrote it, and *)
(* what that amendment and the calls that handle it hold for its text is    *)
(* the one the entry had.                                                   *)

Base(a) == IF amend[a].change = "add" THEN Blank ELSE Original

\* What the entry of an amendment was at the start.
AtStart(t) == IF t \in Existing THEN Original ELSE Absent

\* The amendments that wrote an entry.
Writes(a, t) ==
    /\ TargetID(a) = t
    /\ \/ amend[a].applied
       \/ \E c \in Callers : pc[c] = "update" /\ First(c) = a

\* The entry of an amendment was written once.
Once(a) == amend[a].target # NoTarget /\ changes[TargetID(a)] = 1

\* What a call holds for the amendments it handles.
Handles(c) ==
    /\ (pc[c] = "set" /\ amend[First(c)].target # NoTarget /\ changes[TargetID(First(c))] = 0)
          => previous[c] = Base(First(c))
    /\ pc[c] = "update" => changes[TargetID(First(c))] # 0
    /\ pc[c] = "update" /\ Once(First(c)) => previous[c] = Base(First(c))
    /\ pc[c] \in {"restore", "revert"} =>
          \A a \in todo[c] : amend[a].applied /\ (Once(a) => saved[c][a] = Base(a))
    /\ pc[c] = "revert" /\ Once(First(c)) => corpus[TargetID(First(c))] = Base(First(c))

\* What is rolled back and was written once reads as what it replaced.
Restored ==
    \A a \in stored : amend[a].rolledBack /\ Once(a) => corpus[TargetID(a)] = Base(a)

OneWriter ==
    \A t \in Entries : changes[t] = 1 => \A a, b \in stored : Writes(a, t) /\ Writes(b, t) => a = b

RestoreInv ==
    /\ \A a \in stored : amend[a].applied => changes[TargetID(a)] # 0
    /\ \A a \in stored : amend[a].rolledBack => amend[a].applied
    /\ \A t \in Entries \ {NoTarget} : changes[t] = 0 => corpus[t] = AtStart(t)
    /\ OneWriter
    /\ \A a \in stored : amend[a].applied /\ Once(a) => amend[a].previous = Base(a)
    /\ \A c \in Callers : Handles(c)
    /\ Restored

-----------------------------------------------------------------------------
(* The least amendment.                                                    *)

\* In a well-founded relation that holds between numbers in their order, every set of
\* numbers that is not empty has a least element.
LEMMA LeastOfRelation ==
    ASSUME NEW R, IsWellFoundedOn(R, Nat), \A m, n \in Nat : (n < m) => <<n, m>> \in R
    PROVE  \A T \in SUBSET Nat : T # {} => \E m \in T : \A n \in T : m <= n
<1> SUFFICES ASSUME NEW T \in SUBSET Nat, T # {} PROVE \E m \in T : \A n \in T : m <= n
  OBVIOUS
<1>1. \E m \in T : \A n \in T : ~(<<n, m>> \in R)
  BY WFMin
<1>2. PICK m \in T : \A n \in T : ~(<<n, m>> \in R)
  BY <1>1
<1>3. ASSUME NEW n \in T PROVE m <= n
  <2>1. n \in Nat /\ m \in Nat
    OBVIOUS
  <2>2. n < m => <<n, m>> \in R
    BY <2>1, Zenon
  <2>3. ~(n < m)
    BY <1>2, <2>2, Zenon
  <2> QED BY <2>1, <2>3
<1> QED BY <1>3

\* The order of the numbers, as a relation.
LEMMA LessThanPairs == \A m, n \in Nat : (n < m) => <<n, m>> \in OpToRel(<, Nat)
  BY DEF OpToRel

\* Every set of numbers that is not empty has a least element.
LEMMA LeastExists == \A T \in SUBSET Nat : T # {} => \E m \in T : \A n \in T : m <= n
  BY NatLessThanWellFounded, LessThanPairs, LeastOfRelation, Zenon

\* The amendment a call is at is one of those it has left.
LEMMA FirstIsLeft ==
    ASSUME NEW c \in Callers, todo[c] \subseteq Amendments, todo[c] # {}
    PROVE  First(c) \in todo[c]
<1>1. todo[c] \in SUBSET Nat
  BY BoundsAssumption DEF Amendments
<1>2. \E a \in todo[c] : \A b \in todo[c] : a <= b
  BY <1>1, LeastExists
<1> QED BY <1>2 DEF First

-----------------------------------------------------------------------------
(* Type correctness.                                                       *)

\* A row a caller stages is an amendment that was neither applied nor rolled back.
LEMMA RowTyped ==
    ASSUME NEW row \in Rows
    PROVE  /\ row \in Amendment
           /\ row.applied = FALSE /\ row.rolledBack = FALSE
           /\ row.change # "add" => row.target # NoTarget
<1>1. row \in Amendment /\ (row.change # "add" => row.target # NoTarget)
  BY RowsAssumption
<1>2. [Unstaged EXCEPT !.change = row.change, !.target = row.target,
                       !.valid = row.valid, !.due = row.due] = row
  BY RowsAssumption
<1>3. row.applied = FALSE /\ row.rolledBack = FALSE
  BY <1>2 DEF Unstaged
<1> QED BY <1>1, <1>3

\* The row of an amendment that was not staged is an amendment.
LEMMA UnstagedTyped == Unstaged \in Amendment
<1>1. Blank \in Texts
  BY DEF Texts
<1> QED BY <1>1 DEF Unstaged, Amendment

\* A row that is written differs from what it was in what was applied.
LEMMA WrittenFacts ==
    ASSUME NEW row \in Amendment, NEW rolledBack \in BOOLEAN, NEW text \in Texts
    PROVE  Written(row, rolledBack, text) \in Amendment
<1> DEFINE a == [row EXCEPT !.applied = TRUE]
           b == [a EXCEPT !.rolledBack = rolledBack]
           d == [b EXCEPT !.previous = text]
<1>1. Written(row, rolledBack, text) = d
  BY DEF Written
<1>2. a \in Amendment
  BY DEF Amendment
<1> HIDE DEF a
<1>3. b \in Amendment
  BY <1>2 DEF Amendment
<1> HIDE DEF b
<1>4. d \in Amendment
  BY <1>3 DEF Amendment
<1> QED BY <1>1, <1>4

\* The fields of what is written.
LEMMA WrittenFields ==
    ASSUME NEW row \in Amendment, NEW rolledBack, NEW text
    PROVE  /\ Written(row, rolledBack, text).job = row.job
           /\ Written(row, rolledBack, text).change = row.change
           /\ Written(row, rolledBack, text).target = row.target
           /\ Written(row, rolledBack, text).previous = text
  BY DEF Written, Amendment

\* What is written is an amendment that was applied.
LEMMA WrittenApplied ==
    ASSUME NEW row \in Amendment, NEW rolledBack, NEW text
    PROVE  Written(row, rolledBack, text).applied = TRUE
  BY DEF Written, Amendment

\* What is written says whether it was rolled back.
LEMMA WrittenRolledBack ==
    ASSUME NEW row \in Amendment, NEW rolledBack, NEW text
    PROVE  Written(row, rolledBack, text).rolledBack = rolledBack
  BY DEF Written, Amendment

\* The entry an amendment writes, and its text.
LEMMA TargetTyped ==
    ASSUME TypeOK, NEW a \in Amendments
    PROVE  TargetID(a) \in Entries /\ NewText(a) \in Texts
           /\ amend[a].target \in Entries
  BY DEF TypeOK, TargetID, NewText, Entries, Texts, Amendment

\* A call that returns keeps the types.
LEMMA ReturnTyped ==
    ASSUME TypeOK, NEW c \in Callers, Return(c)
    PROVE  /\ pc' \in [Callers -> Places]
           /\ on' \in [Callers -> Jobs \cup {NoJob}]
           /\ copy' \in [Callers -> JobStatuses]
           /\ goal' \in [Callers -> JobStatuses]
           /\ todo' \in [Callers -> SUBSET Amendments]
           /\ previous' \in [Callers -> Texts]
           /\ saved' \in [Callers -> [Amendments -> Texts]]
<1>1. pc' \in [Callers -> Places] /\ on' \in [Callers -> Jobs \cup {NoJob}]
  BY DEF Return, Goto, TypeOK, Places
<1>2. copy' \in [Callers -> JobStatuses] /\ goal' \in [Callers -> JobStatuses]
  BY DEF Return, TypeOK, JobStatuses
<1>3. todo' \in [Callers -> SUBSET Amendments]
  BY DEF Return, TypeOK
<1>4. previous' \in [Callers -> Texts]
  BY DEF Return, TypeOK, Texts
<1>5. [a \in Amendments |-> Blank] \in [Amendments -> Texts]
  BY DEF Texts
<1>6. saved' \in [Callers -> [Amendments -> Texts]]
  BY <1>5 DEF Return, TypeOK
<1> QED BY <1>1, <1>2, <1>3, <1>4, <1>6

\* A call that enters an operation keeps the types.
LEMMA EnterTyped ==
    ASSUME TypeOK, NEW c \in Callers, NEW j \in Jobs, NEW allowed, NEW where \in Places,
           Enter(c, j, allowed, where)
    PROVE  /\ pc' \in [Callers -> Places]
           /\ on' \in [Callers -> Jobs \cup {NoJob}]
           /\ copy' \in [Callers -> JobStatuses]
<1>1. pc' \in [Callers -> Places] /\ on' \in [Callers -> Jobs \cup {NoJob}]
  BY DEF Enter, Goto, TypeOK
<1>2. copy' \in [Callers -> JobStatuses]
  BY DEF Enter, TypeOK
<1> QED BY <1>1, <1>2

\* A call that goes on to its next amendment keeps the types.
LEMMA ProceedTyped ==
    ASSUME TypeOK, NEW c \in Callers, NEW left \in SUBSET Amendments, NEW where \in Places,
           NEW last \in JobStatuses, Proceed(c, left, where, last)
    PROVE  /\ pc' \in [Callers -> Places]
           /\ goal' \in [Callers -> JobStatuses]
           /\ todo' \in [Callers -> SUBSET Amendments]
<1>1. pc' \in [Callers -> Places]
  BY DEF Proceed, Goto, TypeOK, Places
<1>2. goal' \in [Callers -> JobStatuses]
  BY DEF Proceed, TypeOK
<1>3. todo' \in [Callers -> SUBSET Amendments]
  BY DEF Proceed, TypeOK
<1> QED BY <1>1, <1>2, <1>3

\* Every step keeps the types.
LEMMA TypeStep == TypeOK /\ Shape /\ [Next]_vars => TypeOK'
<1> SUFFICES ASSUME TypeOK, Shape, [Next]_vars PROVE TypeOK'
  OBVIOUS
<1>1. CASE UNCHANGED vars
  BY <1>1 DEF TypeOK, vars, local, history
<1>2. CASE Tick
  BY <1>2 DEF Tick, TypeOK, local, history
<1>3. ASSUME NEW c \in Callers, Step(c) PROVE TypeOK'
  <2>0. /\ Working(c) => First(c) \in Amendments /\ First(c) \in todo[c]
        /\ pc[c] # "idle" => on[c] \in Jobs
    BY FirstIsLeft DEF Shape, TypeOK
  <2>1. ASSUME NEW j \in Jobs, StageAmendment(c, j) PROVE TypeOK'
    <3>1. Enter(c, j, {"pending", "validating"}, "create") /\ "create" \in Places
      BY <2>1 DEF StageAmendment, Places
    <3>2. staged + 1 \in Amendments /\ staged' \in 0 .. NumAmendments
      BY <2>1, BoundsAssumption DEF StageAmendment, TypeOK, Amendments
    <3>3. todo' \in [Callers -> SUBSET Amendments] /\ raced' \subseteq Amendments
      BY <2>1, <3>2 DEF StageAmendment, TypeOK
    <3> QED BY <2>1, <3>1, <3>2, <3>3, EnterTyped DEF StageAmendment, TypeOK
  <2>2. ASSUME NEW j \in Jobs, ValidateJob(c, j) PROVE TypeOK'
    <3>1. Enter(c, j, {"pending"}, "mark") /\ "mark" \in Places
      BY <2>2 DEF ValidateJob, Places
    <3>2. raced' \subseteq Amendments
      BY <2>2 DEF ValidateJob, TypeOK, StagingOn
    <3> QED BY <2>2, <3>1, <3>2, EnterTyped DEF ValidateJob, TypeOK
  <2>3. ASSUME NEW j \in Jobs, ApplyJob(c, j) PROVE TypeOK'
    <3>1. Enter(c, j, {"applying"}, "list") /\ "list" \in Places
      BY <2>3 DEF ApplyJob, Places
    <3> QED BY <2>3, <3>1, EnterTyped DEF ApplyJob, TypeOK, history
  <2>4. ASSUME NEW j \in Jobs, Rollback(c, j) PROVE TypeOK'
    <3>1. Enter(c, j, {"applied"}, "listApplied") /\ "listApplied" \in Places
      BY <2>4 DEF Rollback, Places
    <3> QED BY <2>4, <3>1, EnterTyped DEF Rollback, TypeOK, history
  <2>5. ASSUME NEW row \in Rows, Create(c, row) PROVE TypeOK'
    <3>1. on[c] \in Jobs
      BY <2>0, <2>5 DEF Create, At
    <3>2. [row EXCEPT !.job = on[c]] \in Amendment
      BY <3>1, RowTyped DEF Amendment
    <3>3. amend' \in [Amendments -> Amendment]
      BY <2>5, <3>2 DEF Create, TypeOK
    <3>4. stored' \subseteq Amendments
      BY <2>5 DEF Create, TypeOK
    <3> QED BY <2>5, <3>3, <3>4, ReturnTyped DEF Create, TypeOK, history
  <2>6. CASE Mark(c)
    <3>1. status' \in [Jobs -> JobStatuses] /\ copy' \in [Callers -> JobStatuses]
      BY <2>6 DEF Mark, TypeOK, JobStatuses
    <3>2. pc' \in [Callers -> Places]
      BY <2>6 DEF Mark, Goto, TypeOK, Places
    <3> QED BY <2>6, <3>1, <3>2 DEF Mark, TypeOK, history
  <2>7. CASE Check(c)
    <3>1. /\ Proceed(c, ListForJob(on[c]), "resolve", "applying")
          /\ "resolve" \in Places /\ "applying" \in JobStatuses
          /\ ListForJob(on[c]) \in SUBSET Amendments
      BY <2>7 DEF Check, TypeOK, ListForJob, Places, JobStatuses
    <3> QED BY <2>7, <3>1, ProceedTyped DEF Check, TypeOK, history
  <2>18. CASE Resolve(c)
    <3>1. First(c) \in Amendments
      BY <2>0, <2>18 DEF Resolve, At, Working
    <3>2. PICK left \in SUBSET Amendments, last \in JobStatuses :
            Proceed(c, left, "resolve", last)
      <4>1. todo[c] \ {First(c)} \in SUBSET Amendments /\ {} \in SUBSET Amendments
            /\ "applying" \in JobStatuses /\ "failed" \in JobStatuses
        BY DEF TypeOK, JobStatuses
      <4> QED BY <2>18, <4>1 DEF Resolve
    <3>3. "resolve" \in Places
      BY DEF Places
    <3>4. validated' \subseteq Amendments
      BY <2>18, <3>1 DEF Resolve, TypeOK
    <3> QED BY <2>18, <3>2, <3>3, <3>4, ProceedTyped DEF Resolve, TypeOK
  <2>8. CASE List(c)
    <3> DEFINE waiting == {a \in ListForJob(on[c]) : ~amend[a].applied}
               due == {a \in waiting : IsEffective(a)}
    <3>1. Proceed(c, due, "get", "applied") /\ skipped' = skipped \cup (waiting \ due)
      BY <2>8 DEF List
    <3>2. due \in SUBSET Amendments /\ waiting \in SUBSET Amendments
      BY DEF ListForJob, TypeOK
    <3>3. "get" \in Places /\ "applied" \in JobStatuses
      BY DEF Places, JobStatuses
    <3>4. skipped' \subseteq Amendments
      BY <3>1, <3>2 DEF TypeOK
    <3> HIDE DEF due, waiting
    <3> QED BY <2>8, <3>1, <3>2, <3>3, <3>4, ProceedTyped DEF List, TypeOK
  <2>9. CASE GetText(c)
    <3>1. First(c) \in Amendments
      BY <2>0, <2>9 DEF GetText, At, Working
    <3>2. corpus[amend[First(c)].target] \in Texts
      BY <3>1, TargetTyped DEF TypeOK
    <3>3. previous' \in [Callers -> Texts]
      BY <2>9, <3>2 DEF GetText, TypeOK
    <3>4. pc' \in [Callers -> Places]
      BY <2>9 DEF GetText, Goto, TypeOK, Places
    <3> QED BY <2>9, <3>3, <3>4 DEF GetText, TypeOK, history
  <2>10. CASE SetText(c)
    <3>1. First(c) \in Amendments
      BY <2>0, <2>10 DEF SetText, At, Working
    <3>2. TargetID(First(c)) \in Entries /\ NewText(First(c)) \in Texts
      BY <3>1, TargetTyped
    <3>3. corpus' \in [Entries -> Texts]
      BY <2>10, <3>2 DEF SetText, TypeOK
    <3>4. changes' \in [Entries -> 0 .. 2]
      BY <2>10, <3>2 DEF SetText, TypeOK
    <3>5. pc' \in [Callers -> Places]
      BY <2>10 DEF SetText, Goto, TypeOK, Places
    <3> QED BY <2>10, <3>3, <3>4, <3>5 DEF SetText, TypeOK
  <2>11. CASE Update(c)
    <3> DEFINE new == Written(amend[First(c)], FALSE, previous[c])
    <3>1. First(c) \in Amendments
      BY <2>0, <2>11 DEF Update, At, Working
    <3>2. new \in Amendment
      <4>1. amend[First(c)] \in Amendment /\ previous[c] \in Texts
        BY <3>1 DEF TypeOK
      <4>2. FALSE \in BOOLEAN
        OBVIOUS
      <4> QED BY <4>1, <4>2, WrittenFacts
    <3>3. amend' = [amend EXCEPT ![First(c)] = new]
      BY <2>11 DEF Update
    <3>4. amend' \in [Amendments -> Amendment]
      <4> HIDE DEF new
      <4> QED BY <3>2, <3>3 DEF TypeOK
    <3>5. previous' \in [Callers -> Texts]
      BY <2>11 DEF Update, TypeOK, Texts
    <3>6. /\ Proceed(c, todo[c] \ {First(c)}, "get", "applied")
          /\ "get" \in Places /\ "applied" \in JobStatuses
          /\ todo[c] \ {First(c)} \in SUBSET Amendments
      BY <2>11 DEF Update, TypeOK, Places, JobStatuses
    <3> QED BY <2>11, <3>4, <3>5, <3>6, ProceedTyped DEF Update, TypeOK, history
  <2>12. CASE ApplyFails(c)
    <3>1. errors' \in 0 .. MaxErrors
      BY <2>12, BoundsAssumption DEF ApplyFails, TypeOK
    <3>2. goal' \in [Callers -> JobStatuses] /\ todo' \in [Callers -> SUBSET Amendments]
      BY <2>12 DEF ApplyFails, TypeOK, JobStatuses
    <3>3. pc' \in [Callers -> Places] /\ previous' \in [Callers -> Texts]
      BY <2>12 DEF ApplyFails, Goto, TypeOK, Places, Texts
    <3> QED BY <2>12, <3>1, <3>2, <3>3 DEF ApplyFails, TypeOK, history
  <2>13. CASE ListApplied(c)
    <3> DEFINE listed == {a \in ListForJob(on[c]) : amend[a].applied /\ ~amend[a].rolledBack}
               held == [a \in Amendments |-> IF a \in listed THEN amend[a].previous ELSE Blank]
    <3>1. /\ Proceed(c, listed, "restore", "rolled_back")
          /\ saved' = [saved EXCEPT ![c] = held]
      BY <2>13 DEF ListApplied
    <3>2. listed \in SUBSET Amendments
      BY DEF ListForJob, TypeOK
    <3>3. held \in [Amendments -> Texts]
      BY DEF TypeOK, Amendment, Texts
    <3>4. "restore" \in Places /\ "rolled_back" \in JobStatuses
      BY DEF Places, JobStatuses
    <3> HIDE DEF listed, held
    <3>5. saved' \in [Callers -> [Amendments -> Texts]]
      BY <3>1, <3>3 DEF TypeOK
    <3> QED BY <2>13, <3>1, <3>2, <3>4, <3>5, ProceedTyped DEF ListApplied, TypeOK, history
  <2>14. CASE Restore(c)
    <3>1. First(c) \in Amendments
      BY <2>0, <2>14 DEF Restore, At, Working
    <3>2. amend[First(c)].target \in Entries /\ saved[c][First(c)] \in Texts
      BY <3>1, TargetTyped DEF TypeOK
    <3>3. corpus' \in [Entries -> Texts]
      BY <2>14, <3>2 DEF Restore, TypeOK
    <3>4. pc' \in [Callers -> Places]
      BY <2>14 DEF Restore, Goto, TypeOK, Places
    <3> QED BY <2>14, <3>3, <3>4 DEF Restore, TypeOK, history
  <2>15. CASE Revert(c)
    <3> DEFINE new == Written(amend[First(c)], TRUE, saved[c][First(c)])
    <3>1. First(c) \in Amendments
      BY <2>0, <2>15 DEF Revert, At, Working
    <3>2. new \in Amendment
      <4>1. amend[First(c)] \in Amendment /\ saved[c][First(c)] \in Texts
        BY <3>1 DEF TypeOK
      <4>2. TRUE \in BOOLEAN
        OBVIOUS
      <4> QED BY <4>1, <4>2, WrittenFacts
    <3>3. amend' = [amend EXCEPT ![First(c)] = new]
      BY <2>15 DEF Revert
    <3>4. amend' \in [Amendments -> Amendment]
      <4> HIDE DEF new
      <4> QED BY <3>2, <3>3 DEF TypeOK
    <3>5. /\ Proceed(c, todo[c] \ {First(c)}, "restore", "rolled_back")
          /\ "restore" \in Places /\ "rolled_back" \in JobStatuses
          /\ todo[c] \ {First(c)} \in SUBSET Amendments
      BY <2>15 DEF Revert, TypeOK, Places, JobStatuses
    <3> QED BY <2>15, <3>4, <3>5, ProceedTyped DEF Revert, TypeOK, history
  <2>16. CASE Transition(c)
    <3>1. status' \in [Jobs -> JobStatuses]
      BY <2>16 DEF Transition, TypeOK
    <3> QED BY <2>16, <3>1, ReturnTyped DEF Transition, TypeOK, history
  <2>17. CASE Abort(c)
    <3>1. errors' \in 0 .. MaxErrors
      BY <2>17, BoundsAssumption DEF Abort, TypeOK
    <3> QED BY <2>17, <3>1, ReturnTyped DEF Abort, TypeOK, history
  <2> QED BY <1>3, <2>1, <2>2, <2>3, <2>4, <2>5, <2>6, <2>7, <2>8, <2>9, <2>10, <2>11,
             <2>12, <2>13, <2>14, <2>15, <2>16, <2>17, <2>18 DEF Step
<1> QED BY <1>1, <1>2, <1>3 DEF Next

-----------------------------------------------------------------------------
(* What each step does.                                                    *)

\* A step of one call leaves what the others hold.
LEMMA OthersStay ==
    ASSUME TypeOK, NEW c \in Callers, Step(c), NEW d \in Callers, d # c
    PROVE  /\ pc'[d] = pc[d] /\ on'[d] = on[d] /\ copy'[d] = copy[d] /\ goal'[d] = goal[d]
           /\ todo'[d] = todo[d] /\ previous'[d] = previous[d] /\ saved'[d] = saved[d]
           /\ First(d)' = First(d)
<1> DEFINE Same == /\ pc'[d] = pc[d] /\ on'[d] = on[d] /\ copy'[d] = copy[d]
                   /\ goal'[d] = goal[d] /\ todo'[d] = todo[d]
                   /\ previous'[d] = previous[d] /\ saved'[d] = saved[d]
<1> SUFFICES Same
  BY DEF First
<1>1. ASSUME NEW j \in Jobs,
             StageAmendment(c, j) \/ ValidateJob(c, j) \/ ApplyJob(c, j) \/ Rollback(c, j)
      PROVE  Same
  BY <1>1 DEF StageAmendment, ValidateJob, ApplyJob, Rollback, Enter, Goto, TypeOK
<1>2. ASSUME NEW row \in Rows, Create(c, row) PROVE Same
  BY <1>2 DEF Create, Return, Goto, TypeOK
<1>3. CASE Transition(c) \/ Abort(c)
  BY <1>3 DEF Transition, Abort, Return, Goto, TypeOK
<1>4. CASE Mark(c)
  BY <1>4 DEF Mark, Goto, TypeOK
<1>12. CASE Check(c) \/ Resolve(c)
  <2>1. PICK left, last : Proceed(c, left, "resolve", last)
    BY <1>12 DEF Check, Resolve
  <2>2. UNCHANGED <<on, copy, previous, saved>>
    BY <1>12 DEF Check, Resolve
  <2> QED BY <2>1, <2>2 DEF Proceed, Goto, TypeOK
<1>5. CASE List(c)
  BY <1>5 DEF List, Proceed, Goto, TypeOK
<1>6. CASE GetText(c) \/ SetText(c)
  BY <1>6 DEF GetText, SetText, Goto, TypeOK
<1>7. CASE Update(c)
  BY <1>7 DEF Update, Proceed, Goto, TypeOK
<1>8. CASE ApplyFails(c)
  BY <1>8 DEF ApplyFails, Goto, TypeOK
<1>9. CASE ListApplied(c)
  BY <1>9 DEF ListApplied, Proceed, Goto, TypeOK
<1>10. CASE Restore(c)
  BY <1>10 DEF Restore, Goto, TypeOK
<1>11. CASE Revert(c)
  BY <1>11 DEF Revert, Proceed, Goto, TypeOK
<1> HIDE DEF Same
<1> QED BY <1>1, <1>2, <1>3, <1>4, <1>5, <1>6, <1>7, <1>8, <1>9, <1>10, <1>11, <1>12 DEF Step

\* What a call that enters an operation leaves.
LEMMA EnterEffect ==
    ASSUME TypeOK, NEW c \in Callers, NEW j \in Jobs, NEW allowed, NEW where,
           Enter(c, j, allowed, where)
    PROVE  /\ pc[c] = "idle" /\ pc'[c] = where /\ on'[c] = j
           /\ status[j] \in allowed /\ copy'[c] = status[j]
  BY DEF Enter, At, Goto, TypeOK

\* A call that returns holds nothing.
LEMMA ReturnEffect ==
    ASSUME TypeOK, NEW c \in Callers, Return(c)
    PROVE  /\ pc'[c] = "idle" /\ on'[c] = NoJob /\ copy'[c] = "pending"
           /\ goal'[c] = "pending" /\ todo'[c] = {} /\ previous'[c] = Blank
  BY DEF Return, Goto, TypeOK

\* What a call that goes on to its next amendment leaves.
LEMMA ProceedEffect ==
    ASSUME TypeOK, NEW c \in Callers, NEW left, NEW where, NEW last,
           Proceed(c, left, where, last)
    PROVE  /\ todo'[c] = left
           /\ left = {} => pc'[c] = "transition" /\ goal'[c] = last
           /\ left # {} => pc'[c] = where /\ goal'[c] = goal[c]
  BY DEF Proceed, Goto, TypeOK

\* What a validation leaves that has listed its amendments.
LEMMA CheckEffect ==
    ASSUME TypeOK, NEW c \in Callers, Check(c)
    PROVE  /\ pc[c] = "check" /\ todo'[c] = ListForJob(on[c])
           /\ todo'[c] = {} => pc'[c] = "transition" /\ goal'[c] = "applying"
           /\ todo'[c] # {} => pc'[c] = "resolve" /\ goal'[c] = goal[c]
           /\ UNCHANGED <<status, corpus, amend, stored, staged, now, on, copy, previous,
                          saved, errors, history>>
<1>1. /\ pc[c] = "check" /\ Proceed(c, ListForJob(on[c]), "resolve", "applying")
      /\ UNCHANGED <<status, corpus, amend, stored, staged, now, on, copy, previous,
                     saved, errors, history>>
  BY DEF Check, At
<1>2. PICK left : left = ListForJob(on[c])
  OBVIOUS
<1>3. /\ todo'[c] = left
      /\ left = {} => pc'[c] = "transition" /\ goal'[c] = "applying"
      /\ left # {} => pc'[c] = "resolve" /\ goal'[c] = goal[c]
  BY <1>1, <1>2, ProceedEffect
<1> QED BY <1>1, <1>2, <1>3

\* A validation accepts the amendment it is at, or fails and has no more to do.
LEMMA ResolveEffect ==
    ASSUME TypeOK, Shape, NEW c \in Callers, Resolve(c)
    PROVE  /\ pc[c] = "resolve" /\ First(c) \in stored /\ First(c) \in todo[c]
           /\ \/ /\ todo'[c] = todo[c] \ {First(c)} /\ validated' = validated \cup {First(c)}
                 /\ todo'[c] = {} => pc'[c] = "transition" /\ goal'[c] = "applying"
                 /\ todo'[c] # {} => pc'[c] = "resolve" /\ goal'[c] = goal[c]
              \/ /\ todo'[c] = {} /\ validated' = validated
                 /\ pc'[c] = "transition" /\ goal'[c] = "failed"
           /\ UNCHANGED <<status, corpus, amend, stored, staged, now, on, copy, previous,
                          saved, errors, raced, skipped, changes>>
<1>1. /\ pc[c] = "resolve"
      /\ UNCHANGED <<status, corpus, amend, stored, staged, now, on, copy, previous,
                     saved, errors, raced, skipped, changes>>
  BY DEF Resolve, At
<1>2. First(c) \in stored /\ First(c) \in todo[c]
  BY <1>1, FirstIsLeft DEF Shape, Working, TypeOK
<1>3. CASE /\ Proceed(c, todo[c] \ {First(c)}, "resolve", "applying")
           /\ validated' = validated \cup {First(c)}
  <2>1. PICK left : left = todo[c] \ {First(c)}
    OBVIOUS
  <2>2. /\ todo'[c] = left
        /\ left = {} => pc'[c] = "transition" /\ goal'[c] = "applying"
        /\ left # {} => pc'[c] = "resolve" /\ goal'[c] = goal[c]
    BY <1>3, <2>1, ProceedEffect
  <2> QED BY <1>1, <1>2, <1>3, <2>1, <2>2
<1>4. CASE Proceed(c, {}, "resolve", "failed") /\ validated' = validated
  <2>1. todo'[c] = {} /\ pc'[c] = "transition" /\ goal'[c] = "failed"
    BY <1>4, ProceedEffect
  <2> QED BY <1>1, <1>2, <1>4, <2>1
<1> QED BY <1>3, <1>4 DEF Resolve

\* The row an Update or a Revert writes.
LEMMA WriteEffect ==
    ASSUME TypeOK, Shape, NEW c \in Callers, NEW rolledBack \in BOOLEAN,
           NEW text \in Texts, Working(c),
           amend' = [amend EXCEPT ![First(c)] = Written(amend[First(c)], rolledBack, text)]
    PROVE  /\ First(c) \in stored /\ First(c) \in todo[c]
           /\ \A a \in Amendments : a # First(c) => amend'[a] = amend[a]
           /\ amend'[First(c)].job = amend[First(c)].job
           /\ amend'[First(c)].change = amend[First(c)].change
           /\ amend'[First(c)].target = amend[First(c)].target
           /\ amend'[First(c)].applied = TRUE
           /\ amend'[First(c)].rolledBack = rolledBack
           /\ amend'[First(c)].previous = text
<1>1. First(c) \in stored /\ First(c) \in todo[c] /\ First(c) \in Amendments
  BY FirstIsLeft DEF Shape, TypeOK
<1>2. PICK old \in Amendment : old = amend[First(c)]
  BY <1>1 DEF TypeOK
<1> DEFINE new == Written(old, rolledBack, text)
<1>3. /\ new.job = old.job /\ new.change = old.change /\ new.target = old.target
      /\ new.previous = text
  BY WrittenFields
<1>4. new.applied = TRUE
  BY WrittenApplied
<1>5. new.rolledBack = rolledBack
  BY WrittenRolledBack
<1>6. amend' = [amend EXCEPT ![First(c)] = new]
  BY <1>2
<1> HIDE DEF new
<1>7. amend'[First(c)] = new /\ \A a \in Amendments : a # First(c) => amend'[a] = amend[a]
  BY <1>1, <1>6 DEF TypeOK
<1> QED BY <1>1, <1>2, <1>3, <1>4, <1>5, <1>7

\* What marking an amendment as applied leaves.
LEMMA UpdateEffect ==
    ASSUME TypeOK, Shape, NEW c \in Callers, Update(c)
    PROVE  /\ pc[c] = "update" /\ First(c) \in stored /\ First(c) \in todo[c]
           /\ \A a \in Amendments : a # First(c) => amend'[a] = amend[a]
           /\ amend'[First(c)].job = amend[First(c)].job
           /\ amend'[First(c)].change = amend[First(c)].change
           /\ amend'[First(c)].target = amend[First(c)].target
           /\ amend'[First(c)].applied = TRUE
           /\ amend'[First(c)].rolledBack = FALSE
           /\ amend'[First(c)].previous = previous[c]
           /\ todo'[c] = todo[c] \ {First(c)}
           /\ todo'[c] = {} => pc'[c] = "transition" /\ goal'[c] = "applied"
           /\ todo'[c] # {} => pc'[c] = "get" /\ goal'[c] = goal[c]
           /\ previous'[c] = Blank
           /\ UNCHANGED <<status, corpus, stored, staged, now, on, copy, saved, errors, history>>
<1>1. /\ pc[c] = "update" /\ Proceed(c, todo[c] \ {First(c)}, "get", "applied")
      /\ amend' = [amend EXCEPT ![First(c)] = Written(amend[First(c)], FALSE, previous[c])]
      /\ UNCHANGED <<status, corpus, stored, staged, now, on, copy, saved, errors, history>>
  BY DEF Update, At
<1>2. Working(c) /\ previous[c] \in Texts
  BY <1>1 DEF Working, TypeOK
<1>3. /\ First(c) \in stored /\ First(c) \in todo[c]
      /\ \A a \in Amendments : a # First(c) => amend'[a] = amend[a]
      /\ amend'[First(c)].job = amend[First(c)].job
      /\ amend'[First(c)].change = amend[First(c)].change
      /\ amend'[First(c)].target = amend[First(c)].target
      /\ amend'[First(c)].applied = TRUE
      /\ amend'[First(c)].rolledBack = FALSE
      /\ amend'[First(c)].previous = previous[c]
  BY <1>1, <1>2, WriteEffect
<1>4. previous'[c] = Blank
  BY DEF Update, TypeOK
<1>5. /\ todo'[c] = todo[c] \ {First(c)}
      /\ todo'[c] = {} => pc'[c] = "transition" /\ goal'[c] = "applied"
      /\ todo'[c] # {} => pc'[c] = "get" /\ goal'[c] = goal[c]
  BY <1>1, ProceedEffect
<1> QED BY <1>1, <1>3, <1>4, <1>5

\* What marking an amendment as rolled back leaves.
LEMMA RevertEffect ==
    ASSUME TypeOK, Shape, NEW c \in Callers, Revert(c)
    PROVE  /\ pc[c] = "revert" /\ First(c) \in stored /\ First(c) \in todo[c]
           /\ \A a \in Amendments : a # First(c) => amend'[a] = amend[a]
           /\ amend'[First(c)].job = amend[First(c)].job
           /\ amend'[First(c)].change = amend[First(c)].change
           /\ amend'[First(c)].target = amend[First(c)].target
           /\ amend'[First(c)].applied = TRUE
           /\ amend'[First(c)].rolledBack = TRUE
           /\ amend'[First(c)].previous = saved[c][First(c)]
           /\ todo'[c] = todo[c] \ {First(c)}
           /\ todo'[c] = {} => pc'[c] = "transition" /\ goal'[c] = "rolled_back"
           /\ todo'[c] # {} => pc'[c] = "restore" /\ goal'[c] = goal[c]
           /\ UNCHANGED <<status, corpus, stored, staged, now, on, copy, previous, saved,
                          errors, history>>
<1>1. /\ pc[c] = "revert" /\ Proceed(c, todo[c] \ {First(c)}, "restore", "rolled_back")
      /\ amend' = [amend EXCEPT ![First(c)] = Written(amend[First(c)], TRUE, saved[c][First(c)])]
      /\ UNCHANGED <<status, corpus, stored, staged, now, on, copy, previous, saved, errors,
                     history>>
  BY DEF Revert, At
<1>2. Working(c) /\ saved[c][First(c)] \in Texts
  <2>1. Working(c) /\ todo[c] # {} /\ todo[c] \subseteq Amendments
    BY <1>1 DEF Working, TypeOK, Shape
  <2>2. First(c) \in Amendments
    BY <2>1, FirstIsLeft
  <2>3. saved[c] \in [Amendments -> Texts]
    BY DEF TypeOK
  <2> QED BY <2>1, <2>2, <2>3
<1>3. /\ First(c) \in stored /\ First(c) \in todo[c]
      /\ \A a \in Amendments : a # First(c) => amend'[a] = amend[a]
      /\ amend'[First(c)].job = amend[First(c)].job
      /\ amend'[First(c)].change = amend[First(c)].change
      /\ amend'[First(c)].target = amend[First(c)].target
      /\ amend'[First(c)].applied = TRUE
      /\ amend'[First(c)].rolledBack = TRUE
      /\ amend'[First(c)].previous = saved[c][First(c)]
  BY <1>1, <1>2, WriteEffect
<1>4. /\ todo'[c] = todo[c] \ {First(c)}
      /\ todo'[c] = {} => pc'[c] = "transition" /\ goal'[c] = "rolled_back"
      /\ todo'[c] # {} => pc'[c] = "restore" /\ goal'[c] = goal[c]
  BY <1>1, ProceedEffect
<1> QED BY <1>1, <1>3, <1>4

\* The rows a Create adds are new, and nothing has happened to them.
LEMMA CreateEffect ==
    ASSUME TypeOK, Shape, NEW c \in Callers, NEW row \in Rows, Create(c, row)
    PROVE  /\ pc[c] = "create" /\ on[c] \in Jobs
           /\ todo[c] \subseteq (1 .. staged) \ stored
           /\ todo[c] \subseteq Amendments
           /\ stored' = stored \cup todo[c]
           /\ \A a \in Amendments \ todo[c] : amend'[a] = amend[a]
           /\ \A a \in todo[c] : /\ amend'[a].job = on[c]
                                 /\ amend'[a].applied = FALSE
                                 /\ amend'[a].rolledBack = FALSE
                                 /\ amend'[a].change # "add" => amend'[a].target # NoTarget
           /\ Return(c)
           /\ UNCHANGED <<status, corpus, staged, now, errors, history>>
<1>1. /\ pc[c] = "create" /\ stored' = stored \cup todo[c] /\ Return(c)
      /\ amend' = [a \in Amendments |->
                     IF a \in todo[c] THEN [row EXCEPT !.job = on[c]] ELSE amend[a]]
      /\ UNCHANGED <<status, corpus, staged, now, errors, history>>
  BY DEF Create, At
<1>2. todo[c] \subseteq Amendments /\ todo[c] \subseteq (1 .. staged) \ stored /\ on[c] \in Jobs
  BY <1>1 DEF TypeOK, Shape, Staging
<1> DEFINE new == [row EXCEPT !.job = on[c]]
<1>3. /\ new.job = on[c] /\ new.applied = FALSE /\ new.rolledBack = FALSE
      /\ new.change # "add" => new.target # NoTarget
  BY RowTyped DEF Amendment
<1> HIDE DEF new
<1>4. \A a \in todo[c] : amend'[a] = new
  BY <1>1, <1>2 DEF new
<1>5. \A a \in Amendments \ todo[c] : amend'[a] = amend[a]
  BY <1>1
<1> QED BY <1>1, <1>2, <1>3, <1>4, <1>5

\* The rows change in three steps only.
LEMMA RowsChange ==
    ASSUME NEW c \in Callers, Step(c)
    PROVE  \/ \E row \in Rows : Create(c, row)
           \/ Update(c)
           \/ Revert(c)
           \/ amend' = amend /\ stored' = stored
  BY DEF Step, StageAmendment, ValidateJob, ApplyJob, Rollback, Mark, Check, Resolve, List,
         GetText, SetText, ApplyFails, ListApplied, Restore, Transition, Abort

\* A row keeps its job, what it changes and where, and it stays applied.
LEMMA RowsKeep ==
    ASSUME TypeOK, Shape, [Next]_vars, NEW a \in stored
    PROVE  /\ a \in stored'
           /\ amend'[a].job = amend[a].job
           /\ amend'[a].change = amend[a].change
           /\ amend'[a].target = amend[a].target
           /\ amend[a].applied => amend'[a].applied
<1>1. a \in Amendments
  BY DEF TypeOK
<1>2. CASE UNCHANGED <<amend, stored>>
  BY <1>2
<1>3. ASSUME NEW c \in Callers, Step(c), ~UNCHANGED <<amend, stored>>
      PROVE  /\ a \in stored'
             /\ amend'[a].job = amend[a].job
             /\ amend'[a].change = amend[a].change
             /\ amend'[a].target = amend[a].target
             /\ amend[a].applied => amend'[a].applied
  <2>1. ASSUME NEW row \in Rows, Create(c, row)
        PROVE  a \in stored' /\ amend'[a] = amend[a]
    BY <1>1, <2>1, CreateEffect
  <2>2. CASE Update(c)
    BY <1>1, <2>2, UpdateEffect
  <2>3. CASE Revert(c)
    BY <1>1, <2>3, RevertEffect
  <2> QED BY <1>3, <2>1, <2>2, <2>3, RowsChange
<1> QED BY <1>2, <1>3 DEF Next, Tick, vars

\* A job has no other amendments than it had, but for the one a Create adds.
LEMMA ListChange ==
    ASSUME TypeOK, Shape, [Next]_vars, NEW j \in Jobs
    PROVE  /\ ListForJob(j) \subseteq ListForJob(j)'
           /\ \/ ListForJob(j)' = ListForJob(j)
              \/ \E c \in Callers : /\ pc[c] = "create" /\ on[c] = j
                                    /\ pc'[c] = "idle"
                                    /\ \E row \in Rows : Create(c, row)
                                    /\ ListForJob(j)' = ListForJob(j) \cup todo[c]
<1>1. ListForJob(j) \subseteq ListForJob(j)'
  BY RowsKeep DEF ListForJob
<1>2. CASE stored' = stored
  BY <1>2, RowsKeep DEF ListForJob
<1>3. CASE stored' # stored
  <2>1. PICK c \in Callers : Step(c)
    BY <1>3 DEF Next, Tick, vars
  <2>2. PICK row \in Rows : Create(c, row)
    BY <1>3, <2>1, RowsChange, UpdateEffect, RevertEffect
  <2>3. /\ stored' = stored \cup todo[c] /\ \A a \in todo[c] : amend'[a].job = on[c]
        /\ pc[c] = "create" /\ Return(c)
    BY <2>2, CreateEffect
  <2>4. \A a \in stored : amend'[a].job = amend[a].job
    BY RowsKeep
  <2>5. ListForJob(j)' = IF on[c] = j THEN ListForJob(j) \cup todo[c] ELSE ListForJob(j)
    BY <2>3, <2>4 DEF ListForJob
  <2>6. pc'[c] = "idle"
    BY <2>3, ReturnEffect
  <2> QED BY <1>1, <2>2, <2>3, <2>5, <2>6
<1> QED BY <1>2, <1>3

-----------------------------------------------------------------------------
(* The amendments a call works on are stored, and are staged once.         *)

\* The types and the shape hold at the start.
LEMMA ShapeInit == Init => TypeOK /\ Shape
<1> SUFFICES ASSUME Init PROVE TypeOK /\ Shape
  OBVIOUS
<1>1. status \in [Jobs -> JobStatuses] /\ amend \in [Amendments -> Amendment]
  BY UnstagedTyped DEF Init, JobStatuses
<1>2. corpus \in [Entries -> Texts] /\ previous \in [Callers -> Texts]
  BY DEF Init, Texts, NothingListed
<1>3. [a \in Amendments |-> Blank] \in [Amendments -> Texts]
  BY DEF Texts
<1>4. saved \in [Callers -> [Amendments -> Texts]]
  BY <1>3 DEF Init, NothingListed
<1>5. /\ pc \in [Callers -> Places] /\ on \in [Callers -> Jobs \cup {NoJob}]
      /\ copy \in [Callers -> JobStatuses] /\ goal \in [Callers -> JobStatuses]
      /\ todo \in [Callers -> SUBSET Amendments] /\ changes \in [Entries -> 0 .. 2]
  BY DEF Init, Places, JobStatuses, NothingListed
<1>6. staged \in 0 .. NumAmendments /\ errors \in 0 .. MaxErrors
  BY BoundsAssumption DEF Init
<1>7. TypeOK
  BY <1>1, <1>2, <1>4, <1>5, <1>6 DEF Init, TypeOK
<1>8. Shape
  BY DEF Init, Shape, Staging, Working, NothingListed
<1> QED BY <1>7, <1>8

\* Every step keeps the shape.
LEMMA ShapeStep == TypeOK /\ Shape /\ [Next]_vars => Shape'
<1> SUFFICES ASSUME TypeOK, Shape, [Next]_vars PROVE Shape'
  OBVIOUS
<1>1. CASE UNCHANGED vars
  BY <1>1 DEF vars, local, Shape, Staging, Working
<1>2. CASE Tick
  BY <1>2 DEF Tick, local, Shape, Staging, Working
<1>3. ASSUME NEW c \in Callers, Step(c) PROVE Shape'
  <2> DEFINE Held(d) == /\ pc[d] # "idle" => on[d] \in Jobs
                        /\ Staging(d) => todo[d] \subseteq (1 .. staged) \ stored
                        /\ Working(d) => todo[d] \subseteq stored /\ todo[d] # {}
                        /\ pc[d] \notin {"set", "update"} => previous[d] = Blank
             RowsHeld == /\ stored \subseteq 1 .. staged
                         /\ \A a \in Amendments \ stored : amend[a] = Unstaged
                         /\ \A a \in stored : amend[a].job \in Jobs
                         /\ \A a \in stored : amend[a].change # "add" =>
                                                 amend[a].target # NoTarget
             Apart == \A d, e \in Callers :
                         Staging(d) /\ Staging(e) /\ todo[d] \cap todo[e] # {} => d = e
  <2>1. Held(c) /\ RowsHeld /\ Apart
    BY DEF Shape
  <2>2. staged \in Nat /\ (staged' = staged \/ staged' = staged + 1)
    <3>1. staged \in Nat
      BY BoundsAssumption DEF TypeOK
    <3>2. staged' = staged \/ staged' = staged + 1
      BY <1>3
         DEF Step, StageAmendment, ValidateJob, ApplyJob, Rollback, Create, Mark,
             Check, Resolve, List, GetText, SetText, Update, ApplyFails, ListApplied, Restore,
             Revert, Transition, Abort
    <3> QED BY <3>1, <3>2
  <2>3. stored \subseteq stored'
    BY RowsKeep
  <2>4. stored' \subseteq 1 .. staged
    <3>1. ASSUME NEW row \in Rows, Create(c, row) PROVE stored' \subseteq 1 .. staged
      BY <2>1, <3>1, CreateEffect
    <3> QED BY <1>3, <2>1, <3>1, RowsChange, UpdateEffect, RevertEffect
  <2>5. RowsHeld'
    <3>1. stored' \subseteq 1 .. staged'
      BY <2>2, <2>4
    <3>2. ASSUME NEW row \in Rows, Create(c, row) PROVE RowsHeld'
      BY <2>1, <3>1, <3>2, CreateEffect DEF TypeOK
    <3>3. CASE Update(c)
      <4>1. /\ stored' = stored /\ First(c) \in stored /\ stored \subseteq Amendments
            /\ \A a \in Amendments : a # First(c) => amend'[a] = amend[a]
            /\ amend'[First(c)].job = amend[First(c)].job
            /\ amend'[First(c)].change = amend[First(c)].change
            /\ amend'[First(c)].target = amend[First(c)].target
        BY <3>3, UpdateEffect DEF TypeOK
      <4>2. \A a \in Amendments \ stored : a # First(c)
        BY <4>1
      <4>3. \A a \in stored : /\ amend'[a].job = amend[a].job
                              /\ amend'[a].change = amend[a].change
                              /\ amend'[a].target = amend[a].target
        BY <4>1
      <4> QED BY <2>1, <3>1, <4>1, <4>2, <4>3
    <3>4. CASE Revert(c)
      <4>1. /\ stored' = stored /\ First(c) \in stored /\ stored \subseteq Amendments
            /\ \A a \in Amendments : a # First(c) => amend'[a] = amend[a]
            /\ amend'[First(c)].job = amend[First(c)].job
            /\ amend'[First(c)].change = amend[First(c)].change
            /\ amend'[First(c)].target = amend[First(c)].target
        BY <3>4, RevertEffect DEF TypeOK
      <4>2. \A a \in Amendments \ stored : a # First(c)
        BY <4>1
      <4>3. \A a \in stored : /\ amend'[a].job = amend[a].job
                              /\ amend'[a].change = amend[a].change
                              /\ amend'[a].target = amend[a].target
        BY <4>1
      <4> QED BY <2>1, <3>1, <4>1, <4>2, <4>3
    <3>5. CASE amend' = amend /\ stored' = stored
      BY <2>1, <3>1, <3>5
    <3> QED BY <1>3, <3>2, <3>3, <3>4, <3>5, RowsChange
  <2>6. ASSUME NEW d \in Callers, d # c PROVE Held(d)'
    <3>1. /\ pc'[d] = pc[d] /\ on'[d] = on[d] /\ todo'[d] = todo[d]
          /\ previous'[d] = previous[d]
      BY <1>3, <2>6, OthersStay
    <3>2. Staging(d) => todo[d] \subseteq (1 .. staged) \ stored'
      <4>1. ASSUME NEW row \in Rows, Create(c, row), Staging(d)
            PROVE  todo[d] \subseteq (1 .. staged) \ stored'
        <5>1. Staging(c) /\ stored' = stored \cup todo[c]
          BY <4>1, CreateEffect DEF Staging
        <5>2. todo[c] \cap todo[d] = {}
          BY <2>6, <4>1, <5>1 DEF Shape
        <5>3. todo[d] \subseteq (1 .. staged) \ stored
          BY <4>1 DEF Shape
        <5> QED BY <5>1, <5>2, <5>3
      <4>2. stored' = stored => (Staging(d) => todo[d] \subseteq (1 .. staged) \ stored')
        BY DEF Shape
      <4> QED BY <1>3, <4>1, <4>2, RowsChange, UpdateEffect, RevertEffect
    <3>3. Staging(d) => todo[d] \subseteq (1 .. staged') \ stored'
      BY <2>2, <3>2
    <3>4. Working(d) => todo[d] \subseteq stored' /\ todo[d] # {}
      BY <2>3 DEF Shape
    <3> QED BY <3>1, <3>3, <3>4 DEF Shape, Staging, Working
  \* What the call that steps holds then.
  <2>7. ASSUME NEW j \in Jobs, StageAmendment(c, j) PROVE Held(c)' /\ Apart'
    <3>1. /\ pc'[c] = "create" /\ on'[c] = j /\ todo'[c] = {staged + 1}
          /\ staged' = staged + 1 /\ stored' = stored /\ previous'[c] = previous[c]
          /\ pc[c] = "idle"
      BY <2>7, EnterEffect DEF StageAmendment, TypeOK
    <3>2. todo'[c] \subseteq (1 .. staged') \ stored'
      BY <2>1, <2>2, <3>1
    <3>3. \A d \in Callers : d # c /\ Staging(d)' => todo'[d] \subseteq 1 .. staged
      BY <1>3, OthersStay DEF Shape, Staging
    <3>4. \A d \in Callers : d # c /\ Staging(d)' => todo'[d] \cap todo'[c] = {}
      BY <2>2, <3>1, <3>3
    <3>5. Apart'
      <4>1. \A d, e \in Callers : d # c /\ e # c /\ Staging(d)' /\ Staging(e)'
                                  /\ todo'[d] \cap todo'[e] # {} => d = e
        BY <1>3, <2>1, OthersStay DEF Staging
      <4> QED BY <3>4, <4>1
    <3>6. Held(c)'
      BY <2>1, <3>1, <3>2 DEF Working
    <3> QED BY <3>5, <3>6
  <2>8. pc'[c] # "create" => Apart'
    BY <1>3, <2>1, OthersStay DEF Staging
  <2>9. ASSUME NEW j \in Jobs, ValidateJob(c, j) \/ ApplyJob(c, j) \/ Rollback(c, j)
        PROVE  Held(c)' /\ pc'[c] # "create"
    <3>1. /\ pc'[c] \in {"mark", "list", "listApplied"} /\ on'[c] = j /\ pc[c] = "idle"
          /\ previous'[c] = previous[c]
      BY <2>9, EnterEffect DEF ValidateJob, ApplyJob, Rollback
    <3> QED BY <2>1, <3>1 DEF Working, Staging
  <2>10. ASSUME Return(c) PROVE Held(c)' /\ pc'[c] # "create"
    BY <2>10, ReturnEffect DEF Working, Staging
  <2>11. CASE Mark(c)
    <3>1. /\ pc'[c] = "check" /\ on'[c] = on[c] /\ pc[c] = "mark"
          /\ previous'[c] = previous[c]
      BY <2>11 DEF Mark, At, Goto, TypeOK
    <3> QED BY <2>1, <2>8, <2>5, <2>6, <3>1 DEF Shape, Working, Staging
  <2>24. CASE Check(c)
    <3>1. /\ pc[c] = "check" /\ on' = on /\ stored' = stored /\ previous' = previous
          /\ todo'[c] \subseteq stored
          /\ pc'[c] \in {"transition", "resolve"} /\ (todo'[c] = {} => pc'[c] = "transition")
      BY <2>24, CheckEffect DEF ListForJob
    <3> QED BY <2>1, <2>5, <2>6, <2>8, <3>1 DEF Shape, Working, Staging
  <2>25. CASE Resolve(c)
    <3>1. /\ pc[c] = "resolve" /\ on' = on /\ stored' = stored /\ previous' = previous
          /\ todo'[c] \subseteq todo[c]
          /\ pc'[c] \in {"transition", "resolve"} /\ (todo'[c] = {} => pc'[c] = "transition")
      BY <2>25, ResolveEffect
    <3> QED BY <2>1, <2>5, <2>6, <2>8, <3>1 DEF Shape, Working, Staging
  <2>12. CASE List(c)
    <3> DEFINE waiting == {a \in ListForJob(on[c]) : ~amend[a].applied}
               due == {a \in waiting : IsEffective(a)}
    <3>1. /\ Proceed(c, due, "get", "applied") /\ pc[c] = "list" /\ on'[c] = on[c]
          /\ previous'[c] = previous[c] /\ stored' = stored
      BY <2>12 DEF List, At
    <3>2. due \subseteq stored
      BY DEF ListForJob
    <3> HIDE DEF due, waiting
    <3>3. /\ todo'[c] = due /\ (due = {} => pc'[c] = "transition")
          /\ (due # {} => pc'[c] = "get")
      BY <3>1, ProceedEffect
    <3> QED BY <2>1, <2>5, <2>6, <2>8, <3>1, <3>2, <3>3 DEF Shape, Working, Staging
  <2>13. CASE GetText(c)
    <3>1. /\ pc'[c] = "set" /\ pc[c] = "get" /\ on' = on /\ todo' = todo /\ stored' = stored
      BY <2>13 DEF GetText, At, Goto, TypeOK
    <3> QED BY <2>1, <2>5, <2>6, <2>8, <3>1 DEF Shape, Working, Staging
  <2>14. CASE SetText(c)
    <3>1. /\ pc'[c] = "update" /\ pc[c] = "set" /\ on' = on /\ todo' = todo
          /\ stored' = stored
      BY <2>14 DEF SetText, At, Goto, TypeOK
    <3> QED BY <2>1, <2>5, <2>6, <2>8, <3>1 DEF Shape, Working, Staging
  <2>15. CASE Update(c)
    <3>1. /\ pc[c] = "update" /\ on' = on /\ stored' = stored /\ previous'[c] = Blank
          /\ todo'[c] = todo[c] \ {First(c)}
          /\ pc'[c] \in {"transition", "get"} /\ (todo'[c] = {} => pc'[c] = "transition")
      BY <2>15, UpdateEffect
    <3> QED BY <2>1, <2>5, <2>6, <2>8, <3>1 DEF Shape, Working, Staging
  <2>16. CASE ApplyFails(c)
    <3>1. /\ pc[c] # "idle" /\ on' = on /\ previous'[c] = Blank /\ pc'[c] = "transition"
      BY <2>16 DEF ApplyFails, At, Goto, TypeOK
    <3> QED BY <2>1, <2>5, <2>6, <2>8, <3>1 DEF Shape, Working, Staging
  <2>17. CASE ListApplied(c)
    <3> DEFINE listed == {a \in ListForJob(on[c]) : amend[a].applied /\ ~amend[a].rolledBack}
    <3>1. /\ Proceed(c, listed, "restore", "rolled_back") /\ pc[c] = "listApplied"
          /\ on' = on /\ previous' = previous /\ stored' = stored
      BY <2>17 DEF ListApplied, At
    <3>2. listed \subseteq stored
      BY DEF ListForJob
    <3> HIDE DEF listed
    <3>3. /\ todo'[c] = listed /\ (listed = {} => pc'[c] = "transition")
          /\ (listed # {} => pc'[c] = "restore")
      BY <3>1, ProceedEffect
    <3> QED BY <2>1, <2>5, <2>6, <2>8, <3>1, <3>2, <3>3 DEF Shape, Working, Staging
  <2>18. CASE Restore(c)
    <3>1. /\ pc'[c] = "revert" /\ pc[c] = "restore" /\ on' = on /\ todo' = todo
          /\ stored' = stored /\ previous' = previous
      BY <2>18 DEF Restore, At, Goto, TypeOK
    <3> QED BY <2>1, <2>5, <2>6, <2>8, <3>1 DEF Shape, Working, Staging
  <2>19. CASE Revert(c)
    <3>1. /\ pc[c] = "revert" /\ on' = on /\ stored' = stored /\ previous' = previous
          /\ todo'[c] = todo[c] \ {First(c)}
          /\ pc'[c] \in {"transition", "restore"} /\ (todo'[c] = {} => pc'[c] = "transition")
      BY <2>19, RevertEffect
    <3> QED BY <2>1, <2>5, <2>6, <2>8, <3>1 DEF Shape, Working, Staging
  <2>20. ASSUME Return(c) PROVE Shape'
    BY <2>5, <2>6, <2>8, <2>10, <2>20 DEF Shape
  <2>21. ASSUME NEW row \in Rows, Create(c, row) PROVE Return(c)
    BY <2>21 DEF Create
  <2>22. CASE Transition(c) \/ Abort(c)
    BY <2>20, <2>22 DEF Transition, Abort
  <2>23. ASSUME Held(c)', Apart' PROVE Shape'
    BY <2>5, <2>6, <2>23 DEF Shape
  <2> HIDE DEF Held, Apart, RowsHeld
  <2> QED BY <1>3, <2>7, <2>8, <2>9, <2>11, <2>12, <2>13, <2>14, <2>15, <2>16, <2>17,
             <2>18, <2>19, <2>20, <2>21, <2>22, <2>23, <2>24, <2>25 DEF Step
<1> QED BY <1>1, <1>2, <1>3 DEF Next

\* The types and the shape hold in every reachable state.
LEMMA ShapeAlways == Spec => [](TypeOK /\ Shape)
  BY ShapeInit, TypeStep, ShapeStep, PTL DEF Spec

\* The jobs, the amendments, the corpus and every call in progress are well formed,
\* however calls overlap, fail and are repeated (Engine, PostgresAmendmentRepository).
THEOREM TypeCorrect == Spec => []TypeOK
  BY ShapeAlways, PTL

-----------------------------------------------------------------------------
(* What was validated, and when.                                           *)

\* What the history holds only grows.
LEMMA HistoryGrows ==
    ASSUME [Next]_vars
    PROVE  validated \subseteq validated' /\ raced \subseteq raced' /\ skipped \subseteq skipped'
<1>1. CASE UNCHANGED vars
  BY <1>1 DEF vars, history
<1>2. CASE Tick
  BY <1>2 DEF Tick, history
<1>3. ASSUME NEW c \in Callers, Step(c)
      PROVE  validated \subseteq validated' /\ raced \subseteq raced' /\ skipped \subseteq skipped'
  <2>1. ASSUME NEW j \in Jobs, StageAmendment(c, j) \/ ValidateJob(c, j)
        PROVE  validated' = validated /\ raced \subseteq raced' /\ skipped' = skipped
    BY <2>1 DEF StageAmendment, ValidateJob
  <2>2. CASE Resolve(c)
    BY <2>2 DEF Resolve
  <2>3. CASE List(c)
    BY <2>3 DEF List
  <2>4. CASE SetText(c)
    BY <2>4 DEF SetText
  <2>5. ASSUME NEW j \in Jobs, ApplyJob(c, j) \/ Rollback(c, j)
        PROVE  UNCHANGED history
    BY <2>5 DEF ApplyJob, Rollback
  <2>6. ASSUME \/ \E row \in Rows : Create(c, row)
               \/ Mark(c) \/ Check(c) \/ GetText(c) \/ Update(c) \/ ApplyFails(c)
               \/ ListApplied(c) \/ Restore(c) \/ Revert(c) \/ Transition(c) \/ Abort(c)
        PROVE  UNCHANGED history
    BY <2>6 DEF Create, Mark, Check, GetText, Update, ApplyFails, ListApplied, Restore,
                Revert, Transition, Abort
  <2> QED BY <1>3, <2>1, <2>2, <2>3, <2>4, <2>5, <2>6 DEF Step, history
<1> QED BY <1>1, <1>2, <1>3 DEF Next

\* A stored status changes when a call that works on the job marks it or is over with it.
LEMMA StatusChange ==
    ASSUME TypeOK, Shape, NEW c \in Callers, Step(c), NEW j \in Jobs, status'[j] # status[j]
    PROVE  /\ on[c] = j
           /\ \/ Mark(c) /\ status'[j] = "validating"
              \/ Transition(c) /\ status'[j] = goal[c] /\ <<copy[c], goal[c]>> \in jobTransitions
<1>1. status' # status
  OBVIOUS
<1>2. CASE Mark(c)
  BY <1>2 DEF Mark, TypeOK
<1>3. CASE Transition(c)
  BY <1>3 DEF Transition, TypeOK
<1> QED BY <1>1, <1>2, <1>3
        DEF Step, StageAmendment, ValidateJob, ApplyJob, Rollback, Create, Check, Resolve, List,
            GetText, SetText, Update, ApplyFails, ListApplied, Restore, Revert, Abort

\* A job that left pending does not return to it.
LEMMA SeenStays ==
    ASSUME TypeOK, Shape, [Next]_vars, NEW j \in Jobs, Seen(j)
    PROVE  Seen(j)'
<1>1. CASE status'[j] = status[j]
  BY <1>1 DEF Seen
<1>2. CASE status'[j] # status[j]
  <2>1. PICK c \in Callers : Step(c)
    BY <1>2 DEF Next, Tick, vars
  <2> QED BY <1>2, <2>1, StatusChange DEF Seen, jobTransitions
<1> QED BY <1>1, <1>2

\* An idle call holds nothing.
LEMMA HoldingInit == Init => CallsInv
  BY DEF Init, CallsInv, Holding

\* What a call holds goes with where it is.
LEMMA HoldingStep == TypeOK /\ Shape /\ CallsInv /\ [Next]_vars => CallsInv'
<1> SUFFICES ASSUME TypeOK, Shape, CallsInv, [Next]_vars, NEW d \in Callers PROVE Holding(d)'
  BY DEF CallsInv
<1>0. Holding(d)
  BY DEF CallsInv
<1>1. CASE UNCHANGED vars
  BY <1>0, <1>1 DEF vars, local, Holding
<1>2. CASE Tick
  BY <1>0, <1>2 DEF Tick, local, Holding
<1>3. ASSUME NEW c \in Callers, Step(c), c # d PROVE Holding(d)'
  BY <1>0, <1>3, OthersStay DEF Holding
<1>4. ASSUME Step(d) PROVE Holding(d)'
  <2>1. ASSUME NEW j \in Jobs, StageAmendment(d, j) PROVE Holding(d)'
    <3>1. pc[d] = "idle" /\ pc'[d] = "create" /\ copy'[d] \in {"pending", "validating"}
          /\ goal' = goal
      BY <2>1, EnterEffect DEF StageAmendment
    <3> QED BY <1>0, <3>1 DEF Holding
  <2>2. ASSUME NEW j \in Jobs, ValidateJob(d, j) PROVE Holding(d)'
    <3>1. pc[d] = "idle" /\ pc'[d] = "mark" /\ copy'[d] = "pending" /\ goal' = goal
      BY <2>2, EnterEffect DEF ValidateJob
    <3> QED BY <1>0, <3>1 DEF Holding
  <2>3. ASSUME NEW j \in Jobs, ApplyJob(d, j) PROVE Holding(d)'
    <3>1. pc[d] = "idle" /\ pc'[d] = "list" /\ copy'[d] = "applying" /\ goal' = goal
      BY <2>3, EnterEffect DEF ApplyJob
    <3> QED BY <1>0, <3>1 DEF Holding
  <2>4. ASSUME NEW j \in Jobs, Rollback(d, j) PROVE Holding(d)'
    <3>1. pc[d] = "idle" /\ pc'[d] = "listApplied" /\ copy'[d] = "applied" /\ goal' = goal
      BY <2>4, EnterEffect DEF Rollback
    <3> QED BY <1>0, <3>1 DEF Holding
  <2>5. ASSUME Return(d) PROVE Holding(d)'
    BY <2>5, ReturnEffect DEF Holding
  <2>6. CASE Mark(d)
    <3>1. pc[d] = "mark" /\ pc'[d] = "check" /\ copy'[d] = "validating" /\ goal' = goal
      BY <2>6 DEF Mark, At, Goto, TypeOK
    <3> QED BY <1>0, <3>1 DEF Holding
  <2>7. CASE Check(d)
    <3>1. /\ pc[d] = "check" /\ copy' = copy
          /\ \/ pc'[d] = "transition" /\ goal'[d] = "applying"
             \/ pc'[d] = "resolve" /\ goal'[d] = goal[d]
      BY <2>7, CheckEffect
    <3> QED BY <1>0, <3>1 DEF Holding
  <2>18. CASE Resolve(d)
    <3>1. /\ pc[d] = "resolve" /\ copy' = copy
          /\ \/ pc'[d] = "transition" /\ goal'[d] \in {"applying", "failed"}
             \/ pc'[d] = "resolve" /\ goal'[d] = goal[d]
      BY <2>18, ResolveEffect
    <3> QED BY <1>0, <3>1 DEF Holding
  <2>8. CASE List(d)
    <3>1. PICK due : Proceed(d, due, "get", "applied")
      BY <2>8 DEF List
    <3>2. pc[d] = "list" /\ copy' = copy
      BY <2>8 DEF List, At
    <3>3. \/ pc'[d] = "transition" /\ goal'[d] = "applied"
          \/ pc'[d] = "get" /\ goal'[d] = goal[d]
      BY <3>1, ProceedEffect
    <3> QED BY <1>0, <3>2, <3>3 DEF Holding
  <2>9. CASE GetText(d)
    <3>1. pc[d] = "get" /\ pc'[d] = "set" /\ copy' = copy /\ goal' = goal
      BY <2>9 DEF GetText, At, Goto, TypeOK
    <3> QED BY <1>0, <3>1 DEF Holding
  <2>10. CASE SetText(d)
    <3>1. pc[d] = "set" /\ pc'[d] = "update" /\ copy' = copy /\ goal' = goal
      BY <2>10 DEF SetText, At, Goto, TypeOK
    <3> QED BY <1>0, <3>1 DEF Holding
  <2>11. CASE Update(d)
    <3>1. /\ pc[d] = "update" /\ copy' = copy
          /\ \/ pc'[d] = "transition" /\ goal'[d] = "applied"
             \/ pc'[d] = "get" /\ goal'[d] = goal[d]
      BY <2>11, UpdateEffect
    <3> QED BY <1>0, <3>1 DEF Holding
  <2>12. CASE ApplyFails(d)
    <3>1. /\ pc[d] \in {"get", "set", "update"} /\ copy' = copy
          /\ pc'[d] = "transition" /\ goal'[d] = "failed"
      BY <2>12 DEF ApplyFails, At, Goto, TypeOK
    <3> QED BY <1>0, <3>1 DEF Holding
  <2>13. CASE ListApplied(d)
    <3>1. PICK listed : Proceed(d, listed, "restore", "rolled_back")
      BY <2>13 DEF ListApplied
    <3>2. pc[d] = "listApplied" /\ copy' = copy
      BY <2>13 DEF ListApplied, At
    <3>3. \/ pc'[d] = "transition" /\ goal'[d] = "rolled_back"
          \/ pc'[d] = "restore" /\ goal'[d] = goal[d]
      BY <3>1, ProceedEffect
    <3> QED BY <1>0, <3>2, <3>3 DEF Holding
  <2>14. CASE Restore(d)
    <3>1. pc[d] = "restore" /\ pc'[d] = "revert" /\ copy' = copy /\ goal' = goal
      BY <2>14 DEF Restore, At, Goto, TypeOK
    <3> QED BY <1>0, <3>1 DEF Holding
  <2>15. CASE Revert(d)
    <3>1. /\ pc[d] = "revert" /\ copy' = copy
          /\ \/ pc'[d] = "transition" /\ goal'[d] = "rolled_back"
             \/ pc'[d] = "restore" /\ goal'[d] = goal[d]
      BY <2>15, RevertEffect
    <3> QED BY <1>0, <3>1 DEF Holding
  <2>16. ASSUME NEW row \in Rows, Create(d, row) PROVE Return(d)
    BY <2>16 DEF Create
  <2>17. CASE Transition(d) \/ Abort(d)
    BY <2>5, <2>17 DEF Transition, Abort
  <2> QED BY <1>4, <2>1, <2>2, <2>3, <2>4, <2>5, <2>6, <2>7, <2>8, <2>9, <2>10, <2>11, <2>12,
             <2>13, <2>14, <2>15, <2>16, <2>17, <2>18 DEF Step
<1> QED BY <1>1, <1>2, <1>3, <1>4 DEF Next

\* A job gets past its validation by a check of a call that works on it.
LEMMA PastChange ==
    ASSUME TypeOK, Shape, CallsInv, [Next]_vars, NEW j \in Jobs, Past(j)'
    PROVE  \/ Past(j)
           \/ \E c \in Callers : /\ Check(c) \/ Resolve(c)
                                 /\ on[c] = j /\ goal'[c] = "applying" /\ goal[c] = "pending"
<1>1. CASE UNCHANGED vars
  BY <1>1 DEF vars, local, Past
<1>2. CASE Tick
  BY <1>2 DEF Tick, local, Past
<1>3. ASSUME NEW c \in Callers, Step(c)
      PROVE  \/ Past(j)
             \/ /\ Check(c) \/ Resolve(c)
                /\ on[c] = j /\ goal'[c] = "applying" /\ goal[c] = "pending"
  <2>0. Holding(c)
    BY DEF CallsInv
  <2>1. CASE status'[j] \in {"applying", "applied", "rolled_back"} /\ status'[j] # status[j]
    <3>1. on[c] = j /\ status'[j] = goal[c]
      BY <1>3, <2>1, StatusChange
    <3> QED BY <2>0, <2>1, <3>1 DEF Past, Holding
  <2>2. CASE status'[j] \in {"applying", "applied", "rolled_back"} /\ status'[j] = status[j]
    BY <2>2 DEF Past
  <2>3. ASSUME NEW d \in Callers, d # c, on'[d] = j,
               goal'[d] = "applying" \/ copy'[d] \in {"applying", "applied"}
        PROVE  Past(j)
    BY <1>3, <2>3, OthersStay DEF Past
  <2>4. ASSUME on'[c] = j, goal'[c] = "applying" \/ copy'[c] \in {"applying", "applied"}
        PROVE  \/ Past(j)
               \/ /\ Check(c) \/ Resolve(c)
                  /\ on[c] = j /\ goal'[c] = "applying" /\ goal[c] = "pending"
    <3>1. ASSUME NEW i \in Jobs,
                 StageAmendment(c, i) \/ ValidateJob(c, i) \/ ApplyJob(c, i) \/ Rollback(c, i)
          PROVE  Past(j)
      <4>1. PICK allowed, where : Enter(c, i, allowed, where)
        BY <3>1 DEF StageAmendment, ValidateJob, ApplyJob, Rollback
      <4>2. pc[c] = "idle" /\ on'[c] = i /\ copy'[c] = status[i] /\ goal' = goal
        BY <3>1, <4>1, EnterEffect DEF StageAmendment, ValidateJob, ApplyJob, Rollback
      <4> QED BY <2>0, <2>4, <4>2 DEF Holding, Past
    <3>2. ASSUME Return(c) PROVE FALSE
      BY <2>4, <3>2, ReturnEffect
    <3>3. CASE Mark(c)
      <4>1. on' = on /\ goal' = goal /\ copy'[c] = "validating" /\ pc[c] = "mark"
        BY <3>3 DEF Mark, At, TypeOK
      <4> QED BY <2>0, <2>4, <4>1 DEF Holding, Past
    <3>4. CASE Check(c) \/ Resolve(c)
      <4>1. on' = on /\ copy' = copy /\ pc[c] \in {"check", "resolve"}
        BY <3>4 DEF Check, Resolve, At
      <4> QED BY <2>0, <2>4, <3>4, <4>1 DEF Holding, Past
    <3>5. ASSUME \/ List(c) \/ GetText(c) \/ SetText(c) \/ Update(c) \/ ApplyFails(c)
                 \/ ListApplied(c) \/ Restore(c) \/ Revert(c)
          PROVE  Past(j)
      <4>1. /\ on' = on
            /\ pc[c] \in {"list", "get", "set", "update", "listApplied", "restore", "revert"}
        BY <3>5 DEF List, GetText, SetText, Update, ApplyFails, ListApplied, Restore, Revert, At
      <4> QED BY <2>0, <2>4, <4>1 DEF Holding, Past
    <3>6. ASSUME NEW row \in Rows, Create(c, row) PROVE Return(c)
      BY <3>6 DEF Create
    <3>7. ASSUME Transition(c) \/ Abort(c) PROVE Return(c)
      BY <3>7 DEF Transition, Abort
    <3> QED BY <1>3, <3>1, <3>2, <3>3, <3>4, <3>5, <3>6, <3>7 DEF Step
  <2> QED BY <2>1, <2>2, <2>3, <2>4 DEF Past
<1> QED BY <1>1, <1>2, <1>3 DEF Next

\* A job gets an amendment to stage while it has not been validated, and one that comes
\* when it is being validated counts as raced.
LEMMA StagingChange ==
    ASSUME TypeOK, Shape, [Next]_vars, NEW j \in Jobs, NEW a \in StagingOn(j)'
    PROVE  \/ a \in StagingOn(j)
           \/ status[j] \in {"pending", "validating"} /\ (Validating(j) => a \in raced')
<1>1. PICK d \in Callers : pc'[d] = "create" /\ on'[d] = j /\ a \in todo'[d]
  BY DEF StagingOn, At
<1>2. CASE pc[d] = "create" /\ on[d] = j /\ a \in todo[d]
  BY <1>2 DEF StagingOn, At
<1>3. CASE ~(pc[d] = "create" /\ on[d] = j /\ a \in todo[d])
  <2>1. PICK c \in Callers : Step(c)
    BY <1>1, <1>3 DEF Next, Tick, vars, local
  <2>2. c = d
    BY <1>1, <1>3, <2>1, OthersStay
  <2>3. ASSUME NEW i \in Jobs, StageAmendment(d, i)
        PROVE  status[j] \in {"pending", "validating"} /\ (Validating(j) => a \in raced')
    <3>1. status[i] \in {"pending", "validating"} /\ on'[d] = i
      BY <2>3, EnterEffect DEF StageAmendment
    <3>2. /\ todo'[d] = {staged + 1}
          /\ raced' = IF Validating(i) THEN raced \cup {staged + 1} ELSE raced
      BY <2>3 DEF StageAmendment, TypeOK
    <3> QED BY <1>1, <3>1, <3>2
  <2>4. ASSUME NEW i \in Jobs, ValidateJob(d, i) \/ ApplyJob(d, i) \/ Rollback(d, i)
        PROVE  pc'[d] # "create"
    BY <2>4, EnterEffect DEF ValidateJob, ApplyJob, Rollback
  <2>5. ASSUME Return(d) PROVE pc'[d] # "create"
    BY <2>5, ReturnEffect
  <2>6. ASSUME NEW left, NEW where, NEW last, Proceed(d, left, where, last), where # "create"
        PROVE  pc'[d] # "create"
    BY <2>6, ProceedEffect
  <2>7. CASE Mark(d) \/ GetText(d) \/ SetText(d) \/ ApplyFails(d) \/ Restore(d)
    BY <1>1, <2>7 DEF Mark, GetText, SetText, ApplyFails, Restore, Goto, TypeOK
  <2>8. CASE Check(d) \/ Resolve(d) \/ List(d) \/ Update(d) \/ ListApplied(d) \/ Revert(d)
    BY <1>1, <2>6, <2>8 DEF Check, Resolve, List, Update, ListApplied, Revert
  <2>9. ASSUME NEW row \in Rows, Create(d, row) PROVE pc'[d] # "create"
    BY <2>5, <2>9 DEF Create
  <2>10. CASE Transition(d) \/ Abort(d)
    BY <1>1, <2>5, <2>10 DEF Transition, Abort
  <2> QED BY <1>1, <2>1, <2>2, <2>3, <2>4, <2>7, <2>8, <2>9, <2>10 DEF Step
<1> QED BY <1>2, <1>3

\* The amendments that come to a job were being staged on it.
LEMMA ListFromStaging ==
    ASSUME TypeOK, Shape, [Next]_vars, NEW j \in Jobs
    PROVE  ListForJob(j)' \subseteq ListForJob(j) \cup StagingOn(j)
<1>1. CASE ListForJob(j)' = ListForJob(j)
  BY <1>1
<1>2. ASSUME NEW c \in Callers, pc[c] = "create", on[c] = j,
             ListForJob(j)' = ListForJob(j) \cup todo[c]
      PROVE  ListForJob(j)' \subseteq ListForJob(j) \cup StagingOn(j)
  <2>1. todo[c] \subseteq StagingOn(j)
    BY <1>2 DEF StagingOn, At
  <2> QED BY <1>2, <2>1
<1> QED BY <1>1, <1>2, ListChange

\* An amendment becomes applied when the call that updates or reverts it is at it.
LEMMA AppliedChange ==
    ASSUME TypeOK, Shape, [Next]_vars, NEW a \in stored', amend'[a].applied,
           ~(a \in stored /\ amend[a].applied)
    PROVE  \E c \in Callers : /\ Update(c) \/ Revert(c)
                              /\ a = First(c) /\ a \in todo[c] /\ a \in stored
<1>1. a \in Amendments \/ a \in stored' \ stored
  BY DEF TypeOK
<1>2. PICK c \in Callers : Step(c)
  BY DEF Next, Tick, vars
<1>3. ASSUME NEW row \in Rows, Create(c, row) PROVE FALSE
  <2>1. CASE a \in todo[c]
    BY <1>3, <2>1, CreateEffect
  <2>2. CASE a \notin todo[c]
    <3>1. stored' = stored \cup todo[c] /\ \A b \in Amendments \ todo[c] : amend'[b] = amend[b]
      BY <1>3, CreateEffect
    <3> QED BY <1>1, <2>2, <3>1 DEF TypeOK
  <2> QED BY <2>1, <2>2
<1>4. CASE Update(c)
  <2>1. /\ First(c) \in stored /\ First(c) \in todo[c] /\ stored' = stored
        /\ \A b \in Amendments : b # First(c) => amend'[b] = amend[b]
    BY <1>4, UpdateEffect
  <2> QED BY <1>1, <1>4, <2>1
<1>5. CASE Revert(c)
  <2>1. /\ First(c) \in stored /\ First(c) \in todo[c] /\ stored' = stored
        /\ \A b \in Amendments : b # First(c) => amend'[b] = amend[b]
    BY <1>5, RevertEffect
  <2> QED BY <1>1, <1>5, <2>1
<1> QED BY <1>2, <1>3, <1>4, <1>5, RowsChange

\* ValidInv holds at the start.
LEMMA ValidInit == Init => ValidInv
<1> SUFFICES ASSUME Init PROVE ValidInv
  OBVIOUS
<1>1. \A j \in Jobs : ~Past(j)
  BY DEF Init, Past
<1> QED BY <1>1 DEF Init, ValidInv, AppliedWasValidated, Applying

\* From the validation on, what a job has was validated or raced.
LEMMA ValidStep == TypeOK /\ Shape /\ CallsInv /\ ValidInv /\ [Next]_vars => ValidInv'
<1> SUFFICES ASSUME TypeOK, Shape, CallsInv, ValidInv, [Next]_vars PROVE ValidInv'
  OBVIOUS
<1>1. validated \subseteq validated' /\ raced \subseteq raced'
  BY HistoryGrows
<1>2. ASSUME NEW j \in Jobs, Validating(j) \/ status[j] \notin {"pending", "validating"},
             StagingOn(j) \subseteq raced
      PROVE  StagingOn(j)' \subseteq raced'
  BY <1>1, <1>2, StagingChange
<1>3. AppliedWasValidated'
  <2> SUFFICES ASSUME NEW a \in stored', amend'[a].applied PROVE a \in validated' \cup raced'
    BY DEF AppliedWasValidated
  <2>1. CASE a \in stored /\ amend[a].applied
    BY <1>1, <2>1 DEF ValidInv, AppliedWasValidated
  <2>2. CASE ~(a \in stored /\ amend[a].applied)
    <3>1. PICK c \in Callers : (Update(c) \/ Revert(c)) /\ a \in todo[c]
      BY <2>2, AppliedChange
    <3>2. Applying(c)
      BY <3>1 DEF Update, Revert, At, Applying
    <3> QED BY <1>1, <3>1, <3>2 DEF ValidInv
  <2> QED BY <2>1, <2>2
<1>4. ASSUME NEW j \in Jobs, Past(j)'
      PROVE  /\ Seen(j)'
             /\ ListForJob(j)' \subseteq validated' \cup raced'
             /\ StagingOn(j)' \subseteq raced'
  <2>1. CASE Past(j)
    <3>1. /\ Seen(j) /\ ListForJob(j) \subseteq validated \cup raced
          /\ StagingOn(j) \subseteq raced
      BY <2>1 DEF ValidInv
    <3>2. Seen(j)' /\ ListForJob(j)' \subseteq validated' \cup raced'
      BY <1>1, <3>1, SeenStays, ListFromStaging
    <3>3. StagingOn(j)' \subseteq raced'
      BY <1>2, <3>1 DEF Seen, Validating
    <3> QED BY <3>2, <3>3
  <2>2. ASSUME NEW c \in Callers, Check(c) \/ Resolve(c), on[c] = j, goal'[c] = "applying",
               goal[c] = "pending"
        PROVE  /\ Seen(j)'
               /\ ListForJob(j)' \subseteq validated' \cup raced'
               /\ StagingOn(j)' \subseteq raced'
    <3>1. pc[c] \in {"check", "resolve"} /\ stored' = stored /\ amend' = amend
      BY <2>2 DEF Check, Resolve, At
    <3>2. ListForJob(j) \subseteq validated' \cup raced
      <4>1. Check(c) => ListForJob(j) = {}
        BY <2>2, CheckEffect
      <4>2. ASSUME Resolve(c) PROVE ListForJob(j) \subseteq validated' \cup raced
        <5>1. /\ pc[c] = "resolve" /\ todo[c] \ {First(c)} = {}
              /\ validated' = validated \cup {First(c)}
          BY <2>2, <4>2, ResolveEffect
        <5>2. ListForJob(j) \subseteq todo[c] \cup validated \cup raced
          BY <2>2, <5>1 DEF ValidInv
        <5> QED BY <5>1, <5>2
      <4> QED BY <2>2, <4>1, <4>2
    <3>3. Seen(j) /\ StagingOn(j) \subseteq raced
      BY <2>2, <3>1 DEF ValidInv
    <3>4. ListForJob(j)' = ListForJob(j)
      BY <3>1 DEF ListForJob
    <3>5. StagingOn(j)' \subseteq raced'
      BY <1>2, <2>2, <3>1, <3>3 DEF Validating
    <3> QED BY <1>1, <3>2, <3>3, <3>4, <3>5, SeenStays
  <2> QED BY <1>4, <2>1, <2>2, PastChange
<1> DEFINE Held(d) == /\ pc[d] \in {"mark", "check", "resolve"} => StagingOn(on[d]) \subseteq raced
                      /\ pc[d] \in {"check", "resolve"} => Seen(on[d])
                      /\ pc[d] = "resolve" =>
                            ListForJob(on[d]) \subseteq todo[d] \cup validated \cup raced
                      /\ Applying(d) => todo[d] \subseteq validated \cup raced
<1>5. \A d \in Callers : Held(d)
  BY DEF ValidInv
\* A call that stays where it was on its job, with no more to do.
<1>6. ASSUME NEW d \in Callers, NEW j \in Jobs, pc[d] \in {"mark", "check", "resolve"},
             on[d] = j
      PROVE  /\ StagingOn(j)' \subseteq raced'
             /\ pc[d] \in {"check", "resolve"} => Seen(j)'
             /\ pc[d] = "resolve" => ListForJob(j)' \subseteq todo[d] \cup validated' \cup raced'
  <2>1. StagingOn(j) \subseteq raced /\ Validating(j) /\ (pc[d] \in {"check", "resolve"} => Seen(j))
    BY <1>5, <1>6 DEF Validating
  <2>2. pc[d] = "resolve" => ListForJob(j) \subseteq todo[d] \cup validated \cup raced
    BY <1>5, <1>6
  <2>3. ListForJob(j)' \subseteq ListForJob(j) \cup StagingOn(j)
    BY ListFromStaging
  <2> QED BY <1>1, <1>2, <2>1, <2>2, <2>3, SeenStays
<1>7. ASSUME NEW d \in Callers, pc'[d] = pc[d], on'[d] = on[d], todo'[d] = todo[d]
      PROVE  Held(d)'
  <2>1. CASE pc[d] \in {"mark", "check", "resolve"}
    <3>1. PICK j \in Jobs : j = on[d]
      BY <2>1 DEF Shape
    <3>2. /\ StagingOn(j)' \subseteq raced' /\ (pc[d] \in {"check", "resolve"} => Seen(j)')
          /\ pc[d] = "resolve" => ListForJob(j)' \subseteq todo[d] \cup validated' \cup raced'
      BY <1>6, <2>1, <3>1
    <3> QED BY <1>7, <2>1, <3>1, <3>2 DEF Applying
  <2>2. CASE pc[d] \notin {"mark", "check", "resolve"}
    BY <1>1, <1>5, <1>7, <2>2 DEF Applying
  <2> QED BY <2>1, <2>2
<1>8. ASSUME NEW d \in Callers, Applying(d)', Applying(d), todo'[d] \subseteq todo[d]
      PROVE  Held(d)'
  BY <1>1, <1>5, <1>8 DEF Applying
<1>9. ASSUME NEW d \in Callers, ~Applying(d)', pc'[d] \notin {"mark", "check", "resolve"}
      PROVE  Held(d)'
  BY <1>9
<1>10. ASSUME NEW c \in Callers, Step(c) PROVE Held(c)'
  <2>1. ASSUME NEW j \in Jobs, StageAmendment(c, j) PROVE Held(c)'
    <3>1. pc'[c] = "create"
      BY <2>1, EnterEffect DEF StageAmendment
    <3> QED BY <1>9, <3>1 DEF Applying
  <2>2. ASSUME NEW j \in Jobs, ValidateJob(c, j) PROVE Held(c)'
    <3>1. pc[c] = "idle" /\ pc'[c] = "mark" /\ on'[c] = j
      BY <2>2, EnterEffect DEF ValidateJob
    <3>2. raced' = raced \cup StagingOn(j) /\ todo' = todo
      BY <2>2 DEF ValidateJob
    <3>3. StagingOn(j)' \subseteq StagingOn(j)
      <4> SUFFICES ASSUME NEW d \in Callers, pc'[d] = "create", on'[d] = j
                   PROVE  todo'[d] \subseteq StagingOn(j)
        BY DEF StagingOn, At
      <4>1. d # c
        BY <3>1
      <4>2. pc[d] = "create" /\ on[d] = j
        BY <1>10, <4>1, OthersStay
      <4> QED BY <3>2, <4>2 DEF StagingOn, At
    <3> QED BY <3>1, <3>2, <3>3 DEF Applying
  <2>3. ASSUME NEW j \in Jobs, ApplyJob(c, j) \/ Rollback(c, j) PROVE Held(c)'
    <3>1. pc'[c] \in {"list", "listApplied"}
      BY <2>3, EnterEffect DEF ApplyJob, Rollback
    <3> QED BY <1>9, <3>1 DEF Applying
  <2>4. ASSUME Return(c) PROVE Held(c)'
    <3>1. pc'[c] = "idle"
      BY <2>4, ReturnEffect
    <3> QED BY <1>9, <3>1 DEF Applying
  <2>5. CASE Mark(c)
    <3>1. pc[c] = "mark" /\ pc'[c] = "check" /\ on' = on /\ on[c] \in Jobs
      BY <2>5 DEF Mark, At, Goto, TypeOK, Shape
    <3>2. PICK j \in Jobs : j = on[c]
      BY <3>1
    <3>3. StagingOn(j)' \subseteq raced'
      BY <1>6, <3>1, <3>2
    <3>4. status'[j] = "validating"
      BY <2>5, <3>2 DEF Mark, TypeOK
    <3> QED BY <3>1, <3>2, <3>3, <3>4 DEF Seen, Applying
  <2>6. CASE ApplyFails(c)
    <3>1. pc'[c] = "transition"
      BY <2>6 DEF ApplyFails, Goto, TypeOK
    <3> QED BY <1>9, <3>1 DEF Applying
  <2>14. CASE Check(c)
    <3>1. /\ pc[c] = "check" /\ todo'[c] = ListForJob(on[c]) /\ on' = on
          /\ pc'[c] \in {"resolve", "transition"} /\ stored' = stored /\ amend' = amend
      BY <2>14, CheckEffect
    <3>2. PICK j \in Jobs : j = on[c]
      BY <3>1 DEF Shape
    <3>3. StagingOn(j)' \subseteq raced' /\ Seen(j)'
      BY <1>6, <3>1, <3>2
    <3>4. ListForJob(j)' = ListForJob(j)
      BY <3>1 DEF ListForJob
    <3> QED BY <3>1, <3>2, <3>3, <3>4 DEF Applying
  <2>15. CASE Resolve(c)
    <3>1. /\ pc[c] = "resolve" /\ on' = on /\ pc'[c] \in {"resolve", "transition"}
          /\ pc'[c] = "resolve" => todo[c] \subseteq todo'[c] \cup validated'
      BY <2>15, ResolveEffect
    <3>2. PICK j \in Jobs : j = on[c]
      BY <3>1 DEF Shape
    <3>3. /\ StagingOn(j)' \subseteq raced' /\ Seen(j)'
          /\ ListForJob(j)' \subseteq todo[c] \cup validated' \cup raced'
      BY <1>6, <3>1, <3>2
    <3> QED BY <3>1, <3>2, <3>3 DEF Applying
  <2>7. CASE List(c)
    <3> DEFINE due == {a \in {b \in ListForJob(on[c]) : ~amend[b].applied} : IsEffective(a)}
    <3>1. Proceed(c, due, "get", "applied") /\ pc[c] = "list"
      BY <2>7 DEF List, At
    <3>2. on[c] \in Jobs /\ copy[c] = "applying"
      BY <3>1 DEF Shape, CallsInv, Holding
    <3>3. PICK j \in Jobs : j = on[c]
      BY <3>2
    <3>4. Past(j)
      BY <3>2, <3>3 DEF Past
    <3>5. ListForJob(on[c]) \subseteq validated \cup raced
      BY <3>3, <3>4 DEF ValidInv
    <3>6. due \subseteq validated' \cup raced'
      BY <1>1, <3>5
    <3> HIDE DEF due
    <3>7. todo'[c] = due /\ pc'[c] \in {"get", "transition"}
      BY <3>1, ProceedEffect
    <3> QED BY <3>6, <3>7
  <2>8. CASE GetText(c) \/ SetText(c) \/ Restore(c)
    <3>1. todo' = todo /\ Applying(c) /\ Applying(c)'
      BY <2>8 DEF GetText, SetText, Restore, At, Goto, Applying, TypeOK
    <3> QED BY <1>8, <3>1
  <2>9. CASE Update(c)
    <3>1. pc[c] = "update" /\ todo'[c] \subseteq todo[c] /\ pc'[c] \in {"get", "transition"}
      BY <2>9, UpdateEffect
    <3> QED BY <1>8, <1>9, <3>1 DEF Applying
  <2>10. CASE Revert(c)
    <3>1. pc[c] = "revert" /\ todo'[c] \subseteq todo[c] /\ pc'[c] \in {"restore", "transition"}
      BY <2>10, RevertEffect
    <3> QED BY <1>8, <1>9, <3>1 DEF Applying
  <2>11. CASE ListApplied(c)
    <3> DEFINE listed == {a \in ListForJob(on[c]) : amend[a].applied /\ ~amend[a].rolledBack}
    <3>1. Proceed(c, listed, "restore", "rolled_back")
      BY <2>11 DEF ListApplied
    <3>2. listed \subseteq validated' \cup raced'
      BY <1>1 DEF ValidInv, AppliedWasValidated, ListForJob
    <3> HIDE DEF listed
    <3>3. todo'[c] = listed /\ pc'[c] \in {"restore", "transition"}
      BY <3>1, ProceedEffect
    <3> QED BY <3>2, <3>3
  <2>12. ASSUME NEW row \in Rows, Create(c, row) PROVE Return(c)
    BY <2>12 DEF Create
  <2>13. CASE Transition(c) \/ Abort(c)
    BY <2>4, <2>13 DEF Transition, Abort
  <2> HIDE DEF Held
  <2> QED BY <1>10, <2>1, <2>2, <2>3, <2>4, <2>5, <2>6, <2>7, <2>8, <2>9, <2>10, <2>11,
             <2>12, <2>13, <2>14, <2>15 DEF Step
<1>11. \A d \in Callers : Held(d)'
  <2>1. CASE UNCHANGED vars \/ Tick
    BY <1>7, <2>1 DEF vars, local, Tick
  <2>2. ASSUME NEW c \in Callers, Step(c) PROVE \A d \in Callers : Held(d)'
    <3>1. \A d \in Callers : d # c => Held(d)'
      <4> HIDE DEF Held
      <4> QED BY <1>7, <2>2, OthersStay
    <3> HIDE DEF Held
    <3> QED BY <1>10, <2>2, <3>1
  <2> HIDE DEF Held
  <2> QED BY <2>1, <2>2 DEF Next
<1> QED BY <1>3, <1>4, <1>11 DEF ValidInv

\* ValidInv holds in every reachable state.
LEMMA ValidAlways == Spec => [](TypeOK /\ Shape /\ CallsInv /\ ValidInv)
<1>1. Init => TypeOK /\ Shape /\ CallsInv /\ ValidInv
  BY ShapeInit, HoldingInit, ValidInit
<1>2. TypeOK /\ Shape /\ CallsInv /\ ValidInv /\ [Next]_vars
        => (TypeOK /\ Shape /\ CallsInv /\ ValidInv)'
  BY TypeStep, ShapeStep, HoldingStep, ValidStep
<1> QED BY <1>1, <1>2, PTL DEF Spec

\* However calls overlap and fail, an amendment is applied only if Validate accepted it,
\* or if it was staged while its job was being validated (StageAmendment, ValidateJob,
\* ApplyJob).
THEOREM AppliedAfterValidation == Spec => []AppliedWasValidated
<1>1. ValidInv => AppliedWasValidated
  BY DEF ValidInv
<1> QED BY <1>1, ValidAlways, PTL

-----------------------------------------------------------------------------
(* An applied job is complete.                                             *)

\* What covers a job that is past its validation covers it after a step, which applies
\* what it takes from the rest.
LEMMA CoveredStays ==
    ASSUME TypeOK, Shape, CallsInv, ValidInv, [Next]_vars,
           NEW j \in Jobs, Past(j), NEW left, NEW rest, Covered(j, left),
           \A a \in left \ rest : a \in stored => amend'[a].applied
    PROVE  Covered(j, rest)'
<1> SUFFICES ASSUME NEW a \in ListForJob(j)', a \notin raced', a \notin skipped', a \notin rest
             PROVE  amend'[a].applied
  BY DEF Covered
<1>1. a \notin raced /\ a \notin skipped
  BY HistoryGrows
<1>2. a \in ListForJob(j)
  BY <1>1, ListFromStaging DEF ValidInv
<1>3. a \in stored
  BY <1>2 DEF ListForJob
<1>4. CASE amend[a].applied
  BY <1>3, <1>4, RowsKeep
<1>5. CASE a \in left
  BY <1>3, <1>5
<1> QED BY <1>1, <1>2, <1>4, <1>5 DEF Covered

\* CompleteInv holds at the start.
LEMMA CompleteInit == Init => CompleteInv
  BY DEF Init, CompleteInv

\* Every step keeps CompleteInv.
LEMMA CompleteStep ==
    TypeOK /\ Shape /\ CallsInv /\ ValidInv /\ CompleteInv /\ [Next]_vars => CompleteInv'
<1> SUFFICES ASSUME TypeOK, Shape, CallsInv, ValidInv, CompleteInv, [Next]_vars
             PROVE  CompleteInv'
  OBVIOUS
<1>1. ASSUME NEW j \in Jobs, Past(j), Covered(j, {}) PROVE Covered(j, {})'
  BY <1>1, CoveredStays
<1>2. ASSUME NEW c \in Callers, copy[c] \in {"applying", "applied"}
      PROVE  on[c] \in Jobs /\ Past(on[c])
  <2>1. pc[c] # "idle"
    BY <1>2 DEF CallsInv, Holding
  <2> QED BY <1>2, <2>1 DEF Shape, Past
<1>3. ASSUME NEW j \in Jobs, status'[j] \in {"applied", "rolled_back"} PROVE Covered(j, {})'
  <2>1. CASE status'[j] = status[j]
    <3>1. Past(j) /\ Covered(j, {})
      BY <1>3, <2>1 DEF Past, CompleteInv
    <3> QED BY <1>1, <3>1
  <2>2. CASE status'[j] # status[j]
    <3>1. PICK c \in Callers : Step(c)
      BY <2>2 DEF Next, Tick, vars
    <3>2. on[c] = j /\ goal[c] \in {"applied", "rolled_back"}
      BY <1>3, <2>2, <3>1, StatusChange
    <3>3. copy[c] \in {"applying", "applied"} /\ (goal[c] = "rolled_back" => copy[c] = "applied")
      BY <3>2 DEF CallsInv, Holding
    <3>4. Past(j) /\ Covered(j, {})
      BY <1>2, <3>2, <3>3 DEF CompleteInv
    <3> QED BY <1>1, <3>4
  <2> QED BY <2>1, <2>2
<1> DEFINE Held(d) == /\ pc[d] \in {"get", "set", "update"} => Covered(on[d], todo[d])
                      /\ goal[d] = "applied" => Covered(on[d], {})
                      /\ copy[d] = "applied" => Covered(on[d], {})
<1>4. \A d \in Callers : Held(d)
  BY DEF CompleteInv
<1>5. ASSUME NEW d \in Callers, pc'[d] = pc[d] \/ pc'[d] \notin {"get", "set", "update"},
             on'[d] = on[d], todo'[d] = todo[d],
             goal'[d] = goal[d] \/ goal'[d] # "applied", copy'[d] = copy[d]
      PROVE  Held(d)'
  <2>1. ASSUME pc[d] \in {"get", "set", "update"} PROVE Covered(on[d], todo[d])'
    <3>1. PICK j \in Jobs : j = on[d] /\ Past(j)
      BY <1>2, <2>1 DEF CallsInv, Holding
    <3>2. PICK left : left = todo[d]
      OBVIOUS
    <3>3. Covered(j, left)'
      BY <1>4, <2>1, <3>1, <3>2, CoveredStays
    <3> QED BY <1>5, <3>1, <3>2, <3>3 DEF Covered, ListForJob
  <2>2. ASSUME goal[d] = "applied" \/ copy[d] = "applied" PROVE Covered(on[d], {})'
    <3>1. PICK j \in Jobs : j = on[d] /\ Past(j)
      BY <1>2, <2>2 DEF CallsInv, Holding
    <3>2. Covered(j, {})'
      BY <1>1, <1>4, <2>2, <3>1
    <3> QED BY <1>5, <3>1, <3>2 DEF Covered, ListForJob
  <2> QED BY <1>5, <2>1, <2>2
<1>6. ASSUME NEW d \in Callers, pc'[d] \notin {"get", "set", "update"}, goal'[d] # "applied",
             copy'[d] # "applied"
      PROVE  Held(d)'
  BY <1>6
\* A call that works on its job, with what it takes from the rest applied.
<1>7. ASSUME NEW d \in Callers, on'[d] = on[d], NEW left, NEW rest, todo'[d] = rest,
             copy'[d] = copy[d], copy[d] = "applying", Covered(on[d], left),
             \A a \in left \ rest : a \in stored => amend'[a].applied,
             goal'[d] = "applied" => rest = {}
      PROVE  Held(d)'
  <2>1. PICK j \in Jobs : j = on[d] /\ Past(j)
    BY <1>2, <1>7
  <2>2. Covered(j, rest)'
    BY <1>7, <2>1, CoveredStays
  <2> QED BY <1>7, <2>1, <2>2 DEF Covered, ListForJob
<1>8. ASSUME NEW c \in Callers, Step(c) PROVE Held(c)'
  <2>1. ASSUME NEW j \in Jobs, StageAmendment(c, j) \/ ValidateJob(c, j) \/ ApplyJob(c, j)
        PROVE  Held(c)'
    <3>1. /\ pc'[c] \in {"create", "mark", "list"} /\ pc[c] = "idle" /\ goal' = goal
          /\ copy'[c] \in {"pending", "validating", "applying"}
      BY <2>1, EnterEffect DEF StageAmendment, ValidateJob, ApplyJob
    <3>2. goal[c] = "pending"
      BY <3>1 DEF CallsInv, Holding
    <3> QED BY <1>6, <3>1, <3>2
  <2>2. ASSUME NEW j \in Jobs, Rollback(c, j) PROVE Held(c)'
    <3>1. /\ pc'[c] = "listApplied" /\ pc[c] = "idle" /\ on'[c] = j
          /\ status[j] = "applied"
      BY <2>2, EnterEffect DEF Rollback
    <3>2. Past(j) /\ Covered(j, {})
      BY <3>1 DEF Past, CompleteInv
    <3>3. Covered(j, {})'
      BY <1>1, <3>2
    <3> QED BY <3>1, <3>3 DEF Covered, ListForJob
  <2>3. ASSUME Return(c) PROVE Held(c)'
    BY <1>6, <2>3, ReturnEffect
  <2>4. CASE Mark(c)
    <3>1. /\ pc'[c] = "check" /\ goal' = goal /\ copy'[c] = "validating" /\ pc[c] = "mark"
      BY <2>4 DEF Mark, At, Goto, TypeOK
    <3>2. goal[c] = "pending"
      BY <3>1 DEF CallsInv, Holding
    <3> QED BY <1>6, <3>1, <3>2
  <2>5. CASE Check(c) \/ Resolve(c)
    <3>1. /\ pc'[c] \in {"resolve", "transition"} /\ pc[c] \in {"check", "resolve"}
          /\ copy' = copy /\ goal'[c] \in {"applying", "failed", goal[c]}
      BY <2>5, CheckEffect, ResolveEffect
    <3>2. copy[c] = "validating" /\ goal[c] = "pending"
      BY <3>1 DEF CallsInv, Holding
    <3> QED BY <1>6, <3>1, <3>2
  <2>6. CASE List(c)
    <3> DEFINE waiting == {a \in ListForJob(on[c]) : ~amend[a].applied}
               due == {a \in waiting : IsEffective(a)}
    <3>1. /\ Proceed(c, due, "get", "applied") /\ pc[c] = "list" /\ on' = on /\ copy' = copy
          /\ amend' = amend /\ stored' = stored /\ raced' = raced
          /\ skipped' = skipped \cup (waiting \ due)
      BY <2>6 DEF List, At
    <3>2. copy[c] = "applying" /\ goal[c] = "pending"
      BY <3>1 DEF CallsInv, Holding
    <3>3. PICK left : left = due
      OBVIOUS
    <3>4. Covered(on[c], left)'
      <4> SUFFICES ASSUME NEW a \in ListForJob(on[c]), a \notin skipped', ~amend[a].applied
                   PROVE  a \in due
        BY <3>1, <3>3 DEF Covered, ListForJob
      <4> QED BY <3>1
    <3> HIDE DEF due, waiting
    <3>5. /\ todo'[c] = left
          /\ left = {} => pc'[c] = "transition"
          /\ left # {} => goal'[c] = goal[c]
      BY <3>1, <3>3, ProceedEffect
    <3>6. goal'[c] = "applied" => left = {}
      BY <3>2, <3>5
    <3> QED BY <3>1, <3>2, <3>5, <3>6, <3>4 DEF Covered, ListForJob
  <2>7. CASE GetText(c) \/ SetText(c)
    <3>1. /\ todo' = todo /\ on' = on /\ copy' = copy /\ goal' = goal
          /\ pc[c] \in {"get", "set"}
      BY <2>7 DEF GetText, SetText, At
    <3>2. copy[c] = "applying" /\ goal[c] = "pending" /\ Covered(on[c], todo[c])
      BY <1>4, <3>1 DEF CallsInv, Holding
    <3> QED BY <1>7, <3>1, <3>2
  <2>8. CASE Update(c)
    <3>1. /\ pc[c] = "update" /\ on' = on /\ copy' = copy
          /\ todo'[c] = todo[c] \ {First(c)} /\ amend'[First(c)].applied = TRUE
          /\ todo'[c] # {} => goal'[c] = goal[c]
      BY <2>8, UpdateEffect
    <3>2. copy[c] = "applying" /\ goal[c] = "pending" /\ Covered(on[c], todo[c])
      BY <1>4, <3>1 DEF CallsInv, Holding
    <3>3. \A a \in todo[c] \ todo'[c] : amend'[a].applied
      BY <3>1
    <3>4. goal'[c] = "applied" => todo'[c] = {}
      BY <3>1, <3>2
    <3> QED BY <1>7, <3>1, <3>2, <3>3, <3>4
  <2>9. CASE ApplyFails(c)
    <3>1. /\ pc[c] \in {"get", "set", "update"} /\ pc'[c] = "transition" /\ copy' = copy
          /\ goal'[c] = "failed"
      BY <2>9 DEF ApplyFails, At, Goto, TypeOK
    <3>2. copy[c] = "applying"
      BY <3>1 DEF CallsInv, Holding
    <3> QED BY <1>6, <3>1, <3>2
  <2>10. ASSUME pc[c] \in {"listApplied", "restore", "revert"}, on' = on, copy' = copy,
                pc'[c] \in {"restore", "revert", "transition"}, goal'[c] # "applied"
         PROVE  Held(c)'
    <3>1. PICK j \in Jobs : j = on[c] /\ Past(j) /\ copy[c] = "applied"
      BY <1>2, <2>10 DEF CallsInv, Holding
    <3>2. Covered(j, {})'
      BY <1>1, <1>4, <3>1
    <3> QED BY <2>10, <3>1, <3>2 DEF Covered, ListForJob
  <2>11. CASE ListApplied(c)
    <3>1. PICK listed : Proceed(c, listed, "restore", "rolled_back")
      BY <2>11 DEF ListApplied
    <3>2. pc[c] = "listApplied" /\ on' = on /\ copy' = copy
      BY <2>11 DEF ListApplied, At
    <3>3. /\ pc'[c] \in {"restore", "transition"}
          /\ goal'[c] = goal[c] \/ goal'[c] = "rolled_back"
      BY <3>1, ProceedEffect
    <3>4. goal[c] = "pending"
      BY <3>2 DEF CallsInv, Holding
    <3> QED BY <2>10, <3>2, <3>3, <3>4
  <2>12. CASE Restore(c)
    <3>1. /\ pc[c] = "restore" /\ on' = on /\ copy' = copy /\ pc'[c] = "revert"
          /\ goal' = goal
      BY <2>12 DEF Restore, At, Goto, TypeOK
    <3>2. goal[c] = "pending"
      BY <3>1 DEF CallsInv, Holding
    <3> QED BY <2>10, <3>1, <3>2
  <2>13. CASE Revert(c)
    <3>1. /\ pc[c] = "revert" /\ on' = on /\ copy' = copy
          /\ pc'[c] \in {"restore", "transition"}
          /\ goal'[c] = goal[c] \/ goal'[c] = "rolled_back"
      BY <2>13, RevertEffect
    <3>2. goal[c] = "pending"
      BY <3>1 DEF CallsInv, Holding
    <3> QED BY <2>10, <3>1, <3>2
  <2>14. ASSUME NEW row \in Rows, Create(c, row) PROVE Return(c)
    BY <2>14 DEF Create
  <2>15. CASE Transition(c) \/ Abort(c)
    BY <2>3, <2>15 DEF Transition, Abort
  <2> HIDE DEF Held
  <2> QED BY <1>8, <2>1, <2>2, <2>3, <2>4, <2>5, <2>6, <2>7, <2>8, <2>9, <2>11, <2>12, <2>13,
             <2>14, <2>15 DEF Step
<1> HIDE DEF Held
<1>9. \A d \in Callers : Held(d)'
  <2>1. CASE UNCHANGED vars \/ Tick
    BY <1>5, <2>1 DEF vars, local, Tick
  <2>2. ASSUME NEW c \in Callers, Step(c), NEW d \in Callers PROVE Held(d)'
    BY <1>5, <1>8, <2>2, OthersStay
  <2> QED BY <2>1, <2>2 DEF Next
<1> QED BY <1>3, <1>9 DEF CompleteInv, Held

\* CompleteInv holds in every reachable state.
LEMMA CompleteAlways == Spec => [](TypeOK /\ Shape /\ CallsInv /\ ValidInv /\ CompleteInv)
<1>1. Init => TypeOK /\ Shape /\ CallsInv /\ ValidInv /\ CompleteInv
  BY ShapeInit, HoldingInit, ValidInit, CompleteInit
<1>2. TypeOK /\ Shape /\ CallsInv /\ ValidInv /\ CompleteInv /\ [Next]_vars
        => (TypeOK /\ Shape /\ CallsInv /\ ValidInv /\ CompleteInv)'
  BY TypeStep, ShapeStep, HoldingStep, ValidStep, CompleteStep
<1> QED BY <1>1, <1>2, PTL DEF Spec

\* However calls overlap, fail and are repeated, a job that was ever applied has applied
\* each of its amendments, but for those staged while it was being validated and those
\* whose date had not come when ApplyJob listed, which it leaves out for good
\* (StageAmendment, ValidateJob, ApplyJob).
THEOREM AppliedJobIsComplete == Spec => []AppliedIsComplete
<1>1. Shape /\ CompleteInv => AppliedIsComplete
  BY DEF Shape, CompleteInv, AppliedIsComplete, Covered, ListForJob
<1> QED BY <1>1, CompleteAlways, PTL

-----------------------------------------------------------------------------
(* Restoring.                                                              *)

\* SetText writes the entry of the first amendment, and counts it.
LEMMA SetTextEffect ==
    ASSUME TypeOK, Shape, NEW c \in Callers, SetText(c)
    PROVE  /\ pc[c] = "set" /\ pc'[c] = "update" /\ First(c) \in stored /\ First(c)' = First(c)
           /\ amend' = amend /\ stored' = stored /\ previous' = previous
           /\ todo' = todo /\ saved' = saved
           /\ changes'[TargetID(First(c))] # 0
           /\ changes'[TargetID(First(c))] = 1 => changes[TargetID(First(c))] = 0
           /\ \A t \in Entries : t # TargetID(First(c)) => /\ corpus'[t] = corpus[t]
                                                           /\ changes'[t] = changes[t]
<1>1. /\ pc[c] = "set" /\ pc'[c] = "update"
      /\ amend' = amend /\ stored' = stored /\ previous' = previous
      /\ todo' = todo /\ saved' = saved
  BY DEF SetText, At, Goto, TypeOK
<1>2. First(c)' = First(c)
  BY <1>1 DEF First
<1>3. First(c) \in stored /\ First(c) \in Amendments
  BY <1>1, FirstIsLeft DEF Shape, Working, TypeOK
<1>4. PICK t \in Entries : t = TargetID(First(c))
  BY <1>3, TargetTyped
<1>5. /\ corpus' = [corpus EXCEPT ![t] = NewText(First(c))]
      /\ changes' = [changes EXCEPT ![t] = IF @ < 2 THEN @ + 1 ELSE 2]
  BY <1>4 DEF SetText
<1>6. changes[t] \in 0 .. 2 /\ changes'[t] = IF changes[t] < 2 THEN changes[t] + 1 ELSE 2
  BY <1>5 DEF TypeOK
<1>7. changes'[t] # 0 /\ (changes'[t] = 1 => changes[t] = 0)
  BY <1>6
<1>8. \A u \in Entries : u # t => corpus'[u] = corpus[u] /\ changes'[u] = changes[u]
  BY <1>5 DEF TypeOK
<1> QED BY <1>1, <1>2, <1>3, <1>4, <1>7, <1>8

\* Restore writes the entry its row names, with what it held for it.
LEMMA RestoreEffect ==
    ASSUME TypeOK, Shape, NEW c \in Callers, Restore(c)
    PROVE  /\ pc[c] = "restore" /\ pc'[c] = "revert" /\ First(c) \in stored
           /\ First(c) \in todo[c] /\ First(c)' = First(c)
           /\ amend' = amend /\ stored' = stored /\ changes' = changes
           /\ todo' = todo /\ saved' = saved
           /\ corpus'[amend[First(c)].target] = saved[c][First(c)]
           /\ \A t \in Entries : t # amend[First(c)].target => corpus'[t] = corpus[t]
<1>1. /\ pc[c] = "restore" /\ pc'[c] = "revert"
      /\ amend' = amend /\ stored' = stored /\ changes' = changes
      /\ todo' = todo /\ saved' = saved
  BY DEF Restore, At, Goto, TypeOK, history
<1>2. First(c)' = First(c)
  BY <1>1 DEF First
<1>3. First(c) \in stored /\ First(c) \in todo[c] /\ First(c) \in Amendments
  BY <1>1, FirstIsLeft DEF Shape, Working, TypeOK
<1>4. PICK t \in Entries : t = amend[First(c)].target
  BY <1>3, TargetTyped
<1>5. corpus' = [corpus EXCEPT ![t] = saved[c][First(c)]]
  BY <1>4 DEF Restore
<1>6. corpus'[t] = saved[c][First(c)] /\ \A u \in Entries : u # t => corpus'[u] = corpus[u]
  BY <1>5 DEF TypeOK
<1> QED BY <1>1, <1>2, <1>3, <1>4, <1>6

\* Only those two steps write the corpus, and the first is the only one that counts.
LEMMA TextsChange ==
    ASSUME NEW c \in Callers, Step(c)
    PROVE  SetText(c) \/ Restore(c) \/ corpus' = corpus
  BY DEF Step, StageAmendment, ValidateJob, ApplyJob, Rollback, Create, Mark, Check, Resolve,
         List, GetText, Update, ApplyFails, ListApplied, Revert, Transition, Abort

\* The writes of an entry are counted where its text is set and nowhere else.
LEMMA CountsChange ==
    ASSUME NEW c \in Callers, Step(c)
    PROVE  SetText(c) \/ changes' = changes
  BY DEF Step, StageAmendment, ValidateJob, ApplyJob, Rollback, Create, Mark, Check, Resolve,
         List, GetText, Update, ApplyFails, ListApplied, Restore, Revert, Transition, Abort,
         history

\* An entry that was written stays so, and was written once before if it is then.
LEMMA CountsGrow ==
    ASSUME TypeOK, Shape, [Next]_vars, NEW t \in Entries, changes[t] # 0
    PROVE  changes'[t] # 0 /\ (changes'[t] = 1 => changes[t] = 1)
<1>1. CASE changes' = changes
  BY <1>1
<1>2. CASE changes' # changes
  <2>1. PICK c \in Callers : Step(c)
    BY <1>2 DEF Next, Tick, vars, history
  <2>2. SetText(c)
    BY <1>2, <2>1, CountsChange
  <2> QED BY <2>2, SetTextEffect
<1> QED BY <1>1, <1>2

\* The entry of an amendment and what it read as are the same after a step.
LEMMA TargetStays ==
    ASSUME TypeOK, Shape, [Next]_vars, NEW a \in stored
    PROVE  /\ TargetID(a)' = TargetID(a) /\ Base(a)' = Base(a) /\ TargetID(a) \in Entries
           /\ changes[TargetID(a)] # 0 /\ Once(a)' => Once(a)
           /\ changes[TargetID(a)] # 0 => changes'[TargetID(a)] # 0
<1>1. TargetID(a)' = TargetID(a) /\ Base(a)' = Base(a)
  BY RowsKeep DEF TargetID, Base
<1>2. TargetID(a) \in Entries
  BY TargetTyped DEF TypeOK
<1>3. changes[TargetID(a)] # 0 /\ Once(a)' => Once(a)
  BY <1>1, <1>2, CountsGrow, RowsKeep DEF Once
<1> QED BY <1>1, <1>2, <1>3, CountsGrow

\* A row that is not as it was is new, or written by the call that is at it.
LEMMA RowChange ==
    ASSUME TypeOK, Shape, [Next]_vars, NEW a \in stored', ~(a \in stored /\ amend'[a] = amend[a])
    PROVE  \E c \in Callers : /\ Step(c)
                              /\ \/ /\ Update(c) \/ Revert(c)
                                    /\ a = First(c) /\ a \in stored
                                 \/ ~amend'[a].applied /\ ~amend'[a].rolledBack
<1>1. PICK c \in Callers : Step(c)
  BY DEF Next, Tick, vars
<1>2. ASSUME NEW row \in Rows, Create(c, row)
      PROVE  ~amend'[a].applied /\ ~amend'[a].rolledBack
  <2>1. /\ stored' = stored \cup todo[c]
        /\ \A b \in Amendments \ todo[c] : amend'[b] = amend[b]
        /\ \A b \in todo[c] : amend'[b].applied = FALSE /\ amend'[b].rolledBack = FALSE
    BY <1>2, CreateEffect
  <2> QED BY <2>1 DEF TypeOK
<1>3. CASE Update(c)
  <2>1. /\ First(c) \in stored /\ stored' = stored
        /\ \A b \in Amendments : b # First(c) => amend'[b] = amend[b]
    BY <1>3, UpdateEffect
  <2> QED BY <1>1, <1>3, <2>1 DEF TypeOK
<1>4. CASE Revert(c)
  <2>1. /\ First(c) \in stored /\ stored' = stored
        /\ \A b \in Amendments : b # First(c) => amend'[b] = amend[b]
    BY <1>4, RevertEffect
  <2> QED BY <1>1, <1>4, <2>1 DEF TypeOK
<1> QED BY <1>1, <1>2, <1>3, <1>4, RowsChange

\* Nothing was written yet at the start.
LEMMA RestoreInit == Init => RestoreInv
<1> SUFFICES ASSUME Init PROVE RestoreInv
  OBVIOUS
<1>1. \A t \in Entries : corpus[t] = AtStart(t)
  BY DEF Init, AtStart
<1>2. \A t \in Entries : changes[t] = 0
  BY DEF Init
<1> QED BY <1>1, <1>2 DEF Init, RestoreInv, OneWriter, Handles, Restored

\* What is applied was counted; what is rolled back was applied.
LEMMA CountedStep ==
    TypeOK /\ Shape /\ RestoreInv /\ [Next]_vars
      => (\A a \in stored : amend[a].applied => changes[TargetID(a)] # 0)'
<1> SUFFICES ASSUME TypeOK, Shape, RestoreInv, [Next]_vars,
                    NEW a \in stored', amend'[a].applied
             PROVE  changes'[TargetID(a)'] # 0
  OBVIOUS
<1>1. CASE a \in stored /\ amend[a].applied
  BY <1>1, TargetStays DEF RestoreInv
<1>2. CASE ~(a \in stored /\ amend[a].applied)
  <2>1. PICK c \in Callers : (Update(c) \/ Revert(c)) /\ a = First(c) /\ a \in todo[c] /\ a \in stored
    BY <1>2, AppliedChange
  <2>2. pc[c] \in {"update", "revert"} /\ Handles(c)
    BY <2>1 DEF Update, Revert, At, RestoreInv
  <2>3. pc[c] = "update"
    BY <1>2, <2>1, <2>2 DEF Handles
  <2> QED BY <2>1, <2>2, <2>3, TargetStays DEF Handles
<1> QED BY <1>1, <1>2

\* Only an amendment that was applied is rolled back.
LEMMA RolledBackStep ==
    TypeOK /\ Shape /\ RestoreInv /\ [Next]_vars
      => (\A a \in stored : amend[a].rolledBack => amend[a].applied)'
<1> SUFFICES ASSUME TypeOK, Shape, RestoreInv, [Next]_vars,
                    NEW a \in stored', amend'[a].rolledBack
             PROVE  amend'[a].applied
  OBVIOUS
<1>1. CASE a \in stored /\ amend'[a] = amend[a]
  BY <1>1 DEF RestoreInv
<1>2. CASE ~(a \in stored /\ amend'[a] = amend[a])
  <2>1. PICK c \in Callers : (Update(c) \/ Revert(c)) /\ a = First(c)
    BY <1>2, RowChange
  <2>2. Update(c) => amend'[First(c)].applied = TRUE
    BY UpdateEffect
  <2>3. Revert(c) => amend'[First(c)].applied = TRUE
    BY RevertEffect
  <2> QED BY <2>1, <2>2, <2>3
<1> QED BY <1>1, <1>2

\* An entry that was never written reads as at the start.
LEMMA UnwrittenStep ==
    TypeOK /\ Shape /\ RestoreInv /\ [Next]_vars
      => (\A t \in Entries \ {NoTarget} : changes[t] = 0 => corpus[t] = AtStart(t))'
<1> SUFFICES ASSUME TypeOK, Shape, RestoreInv, [Next]_vars,
                    NEW t \in Entries \ {NoTarget}, changes'[t] = 0
             PROVE  corpus'[t] = AtStart(t)
  BY DEF AtStart
<1>1. changes[t] = 0
  BY CountsGrow
<1>2. corpus[t] = AtStart(t)
  BY <1>1 DEF RestoreInv
<1>3. CASE corpus' = corpus
  BY <1>2, <1>3
<1>4. CASE corpus' # corpus
  <2>1. PICK c \in Callers : Step(c)
    BY <1>4 DEF Next, Tick, vars
  <2>2. CASE SetText(c)
    BY <1>2, <2>2, SetTextEffect
  <2>3. CASE Restore(c)
    <3>1. /\ pc[c] = "restore" /\ First(c) \in stored /\ First(c) \in todo[c]
          /\ t # amend[First(c)].target => corpus'[t] = corpus[t]
      BY <2>3, RestoreEffect
    <3>2. amend[First(c)].applied
      BY <3>1 DEF RestoreInv, Handles
    <3>3. t # amend[First(c)].target
      BY <1>1, <3>1, <3>2 DEF RestoreInv, TargetID
    <3> QED BY <1>2, <3>1, <3>3
  <2> QED BY <1>4, <2>1, <2>2, <2>3, TextsChange
<1> QED BY <1>3, <1>4

\* Who wrote an entry after a step wrote it before, or is the call that just did.
LEMMA WritesChange ==
    ASSUME TypeOK, Shape, RestoreInv, [Next]_vars, NEW t \in Entries, NEW a \in stored', Writes(a, t)'
    PROVE  a \in stored /\ TargetID(a) = t
           /\ (Writes(a, t) \/ \E c \in Callers : Step(c) /\ SetText(c) /\ a = First(c))
<1>1. CASE amend'[a].applied
  <2>1. CASE a \in stored /\ amend[a].applied
    BY <1>1, <2>1, TargetStays DEF Writes
  <2>2. CASE ~(a \in stored /\ amend[a].applied)
    <3>1. PICK c \in Callers : (Update(c) \/ Revert(c)) /\ a = First(c) /\ a \in todo[c] /\ a \in stored
      BY <1>1, <2>2, AppliedChange
    <3>2. pc[c] \in {"update", "revert"} /\ Handles(c)
      BY <3>1 DEF Update, Revert, At, RestoreInv
    <3>3. pc[c] = "update"
      BY <2>2, <3>1, <3>2 DEF Handles
    <3> QED BY <3>1, <3>3, TargetStays DEF Writes
  <2> QED BY <2>1, <2>2
<1>2. ASSUME NEW d \in Callers, pc'[d] = "update", First(d)' = a
      PROVE  a \in stored /\ TargetID(a) = t
             /\ (Writes(a, t) \/ \E c \in Callers : Step(c) /\ SetText(c) /\ a = First(c))
  <2>1. CASE pc[d] = "update" /\ First(d)' = First(d)
    <3>1. First(d) \in stored
      BY <2>1, FirstIsLeft DEF Shape, Working, TypeOK
    <3> QED BY <1>2, <2>1, <3>1, TargetStays DEF Writes
  <2>2. CASE ~(pc[d] = "update" /\ First(d)' = First(d))
    <3>1. PICK c \in Callers : Step(c)
      BY <1>2, <2>2 DEF Next, Tick, vars, local, First
    <3>2. c = d
      BY <1>2, <2>2, <3>1, OthersStay
    <3>3. CASE SetText(d)
      <4>1. First(d) \in stored /\ First(d)' = First(d)
        BY <3>3, SetTextEffect
      <4> QED BY <1>2, <3>1, <3>2, <3>3, <4>1, TargetStays DEF Writes
    <3>4. CASE ~SetText(d)
      <4>1. ASSUME NEW j \in Jobs,
                   StageAmendment(d, j) \/ ValidateJob(d, j) \/ ApplyJob(d, j) \/ Rollback(d, j)
            PROVE  FALSE
        BY <1>2, <4>1, EnterEffect DEF StageAmendment, ValidateJob, ApplyJob, Rollback
      <4>2. ~Return(d)
        BY <1>2, ReturnEffect
      <4>3. ASSUME NEW left, NEW where, NEW last, Proceed(d, left, where, last), where # "update"
            PROVE  FALSE
        BY <1>2, <4>3, ProceedEffect
      <4>4. ~(Check(d) \/ Resolve(d) \/ List(d) \/ Update(d) \/ ListApplied(d) \/ Revert(d))
        BY <4>3 DEF Check, Resolve, List, Update, ListApplied, Revert
      <4>5. ~(Mark(d) \/ GetText(d) \/ ApplyFails(d) \/ Restore(d))
        BY <1>2 DEF Mark, GetText, ApplyFails, Restore, Goto, TypeOK
      <4>6. ~(Transition(d) \/ Abort(d) \/ \E row \in Rows : Create(d, row))
        BY <4>2 DEF Transition, Abort, Create
      <4> QED BY <3>1, <3>2, <3>4, <4>1, <4>4, <4>5, <4>6 DEF Step
    <3> QED BY <3>3, <3>4
  <2> QED BY <2>1, <2>2
<1> QED BY <1>1, <1>2 DEF Writes

\* An entry that was written once was written by one amendment.
LEMMA OneWriterStep == TypeOK /\ Shape /\ RestoreInv /\ [Next]_vars => OneWriter'
<1> SUFFICES ASSUME TypeOK, Shape, RestoreInv, [Next]_vars, NEW t \in Entries, changes'[t] = 1,
                    NEW a \in stored', NEW b \in stored', Writes(a, t)', Writes(b, t)'
             PROVE  a = b
  BY DEF OneWriter
<1>1. a \in stored /\ b \in stored /\ TargetID(a) = t /\ TargetID(b) = t
  BY WritesChange
<1>2. ASSUME NEW e \in stored, Writes(e, t) PROVE changes[t] # 0
  BY <1>2 DEF Writes, RestoreInv, Handles
<1>3. CASE Writes(a, t) /\ Writes(b, t)
  <2>1. changes[t] = 1
    BY <1>1, <1>2, <1>3, CountsGrow
  <2> QED BY <1>1, <1>3, <2>1 DEF RestoreInv, OneWriter
<1>4. ASSUME NEW e \in stored, TargetID(e) = t, Writes(e, t),
             NEW c \in Callers, SetText(c), TargetID(First(c)) = t
      PROVE  FALSE
  BY <1>2, <1>4, SetTextEffect
<1>5. ASSUME NEW c \in Callers, Step(c), SetText(c), NEW d \in Callers, SetText(d)
      PROVE  c = d
  <2>1. pc[d] = "set" /\ pc'[d] = "update"
    BY <1>5, SetTextEffect
  <2> QED BY <1>5, <2>1, OthersStay
<1>6. Writes(a, t) \/ \E c \in Callers : Step(c) /\ SetText(c) /\ a = First(c)
  BY WritesChange
<1>7. Writes(b, t) \/ \E c \in Callers : Step(c) /\ SetText(c) /\ b = First(c)
  BY WritesChange
<1> QED BY <1>1, <1>3, <1>4, <1>5, <1>6, <1>7

\* A step leaves the entry of an applied amendment that was written once, or writes what
\* it read at the start.
LEMMA TextStep ==
    ASSUME TypeOK, Shape, RestoreInv, [Next]_vars, NEW a \in stored, amend[a].applied, Once(a)'
    PROVE  corpus'[TargetID(a)] = corpus[TargetID(a)] \/ corpus'[TargetID(a)] = Base(a)
<1>1. /\ TargetID(a)' = TargetID(a) /\ TargetID(a) \in Entries /\ changes[TargetID(a)] # 0
      /\ Once(a) /\ TargetID(a) = amend[a].target /\ TargetID(a) # NoTarget
  BY TargetStays DEF RestoreInv, Once, TargetID
<1>2. CASE corpus' = corpus
  BY <1>2
<1>3. CASE corpus' # corpus
  <2>1. PICK c \in Callers : Step(c)
    BY <1>3 DEF Next, Tick, vars
  <2>2. CASE SetText(c)
    <3>1. changes'[TargetID(a)] = 1
      BY <1>1 DEF Once
    <3>2. TargetID(First(c)) # TargetID(a)
      BY <1>1, <2>2, <3>1, SetTextEffect
    <3> QED BY <1>1, <2>2, <3>2, SetTextEffect
  <2>3. CASE Restore(c)
    <3>1. /\ pc[c] = "restore" /\ First(c) \in stored /\ First(c) \in todo[c]
          /\ corpus'[amend[First(c)].target] = saved[c][First(c)]
          /\ TargetID(a) # amend[First(c)].target => corpus'[TargetID(a)] = corpus[TargetID(a)]
      BY <1>1, <2>3, RestoreEffect
    <3>2. amend[First(c)].applied /\ (Once(First(c)) => saved[c][First(c)] = Base(First(c)))
      BY <3>1 DEF RestoreInv, Handles
    <3>3. CASE TargetID(a) = amend[First(c)].target
      <4>1. TargetID(First(c)) = TargetID(a)
        BY <1>1, <3>3 DEF TargetID
      <4>2. Writes(a, TargetID(a)) /\ Writes(First(c), TargetID(a))
        BY <3>2, <4>1 DEF Writes
      <4>3. First(c) = a
        BY <1>1, <3>1, <4>2 DEF RestoreInv, OneWriter, Once
      <4> QED BY <1>1, <3>1, <3>2, <3>3, <4>3
    <3> QED BY <3>1, <3>3
  <2> QED BY <1>3, <2>1, <2>2, <2>3, TextsChange
<1> QED BY <1>2, <1>3

\* What an applied amendment holds for its entry is what that read at the start.
LEMMA PreviousStep ==
    TypeOK /\ Shape /\ RestoreInv /\ [Next]_vars
      => (\A a \in stored : amend[a].applied /\ Once(a) => amend[a].previous = Base(a))'
<1> SUFFICES ASSUME TypeOK, Shape, RestoreInv, [Next]_vars,
                    NEW a \in stored', amend'[a].applied, Once(a)'
             PROVE  amend'[a].previous = Base(a)'
  OBVIOUS
<1>1. CASE a \in stored /\ amend'[a] = amend[a]
  <2>1. Once(a)
    BY <1>1, TargetStays DEF RestoreInv
  <2> QED BY <1>1, <2>1, TargetStays DEF RestoreInv
<1>2. CASE ~(a \in stored /\ amend'[a] = amend[a])
  <2>1. PICK c \in Callers : (Update(c) \/ Revert(c)) /\ a = First(c) /\ a \in stored
    BY <1>2, RowChange
  <2>2. CASE Update(c)
    <3>1. /\ pc[c] = "update" /\ amend'[a].previous = previous[c]
      BY <2>1, <2>2, UpdateEffect
    <3>2. Once(a)
      BY <2>1, <3>1, TargetStays DEF RestoreInv, Handles
    <3> QED BY <2>1, <3>1, <3>2, TargetStays DEF RestoreInv, Handles
  <2>3. CASE Revert(c)
    <3>1. /\ pc[c] = "revert" /\ amend'[a].previous = saved[c][a] /\ a \in todo[c]
      BY <2>1, <2>3, RevertEffect
    <3>2. amend[a].applied
      BY <3>1 DEF RestoreInv, Handles
    <3>3. Once(a)
      BY <2>1, <3>2, TargetStays DEF RestoreInv
    <3> QED BY <2>1, <3>1, <3>3, TargetStays DEF RestoreInv, Handles
  <2> QED BY <2>1, <2>2, <2>3
<1> QED BY <1>1, <1>2

\* What is rolled back and was written once reads as at the start.
LEMMA RestoredStep == TypeOK /\ Shape /\ RestoreInv /\ [Next]_vars => Restored'
<1> SUFFICES ASSUME TypeOK, Shape, RestoreInv, [Next]_vars,
                    NEW a \in stored', amend'[a].rolledBack, Once(a)'
             PROVE  corpus'[TargetID(a)'] = Base(a)'
  BY DEF Restored
<1>1. CASE a \in stored /\ amend'[a] = amend[a]
  <2>1. amend[a].applied
    BY <1>1 DEF RestoreInv
  <2>2. Once(a)
    BY <1>1, <2>1, TargetStays DEF RestoreInv
  <2>3. corpus[TargetID(a)] = Base(a)
    BY <1>1, <2>2 DEF RestoreInv, Restored
  <2> QED BY <1>1, <2>1, <2>3, TextStep, TargetStays
<1>2. CASE ~(a \in stored /\ amend'[a] = amend[a])
  <2>1. PICK c \in Callers : Step(c) /\ (Update(c) \/ Revert(c)) /\ a = First(c) /\ a \in stored
    BY <1>2, RowChange
  <2>2. Revert(c) /\ pc[c] = "revert" /\ a \in todo[c] /\ corpus' = corpus
    BY <2>1, UpdateEffect, RevertEffect
  <2>3. amend[a].applied
    BY <2>2 DEF RestoreInv, Handles
  <2>4. Once(a)
    BY <2>1, <2>3, TargetStays DEF RestoreInv
  <2>5. corpus[TargetID(a)] = Base(a)
    BY <2>1, <2>2, <2>4 DEF RestoreInv, Handles
  <2> QED BY <2>1, <2>2, <2>5, TargetStays
<1> QED BY <1>1, <1>2

\* A call that stays where it was, on its amendments.
LEMMA HandlesStays ==
    ASSUME TypeOK, Shape, RestoreInv, [Next]_vars, NEW d \in Callers,
           pc'[d] = pc[d], todo'[d] = todo[d], previous'[d] = previous[d], saved'[d] = saved[d],
           First(d)' = First(d)
    PROVE  Handles(d)'
<1>0. Handles(d)
  BY DEF RestoreInv
<1>1. CASE ~Working(d)
  BY <1>1 DEF Handles, Working
<1>2. CASE Working(d)
  <2>1. First(d) \in stored /\ First(d) \in todo[d] /\ todo[d] \subseteq stored
    BY <1>2, FirstIsLeft DEF Shape, TypeOK
  <2>2. PICK a \in stored : a = First(d)
    BY <2>1
  <2>3. /\ TargetID(a)' = TargetID(a) /\ Base(a)' = Base(a) /\ TargetID(a) \in Entries
        /\ changes[TargetID(a)] # 0 /\ Once(a)' => Once(a)
        /\ amend'[a].target = amend[a].target
    BY TargetStays, RowsKeep
  <2>4. changes'[TargetID(a)] = 0 => changes[TargetID(a)] = 0
    BY <2>3, CountsGrow
  <2>5. pc[d] = "set" => Handles(d)'
    BY <1>0, <2>2, <2>3, <2>4 DEF Handles
  <2>6. pc[d] = "update" => Handles(d)'
    BY <1>0, <2>2, <2>3, <2>4 DEF Handles
  <2>7. ASSUME pc[d] \in {"restore", "revert"} PROVE Handles(d)'
    <3>1. ASSUME NEW b \in todo[d]
          PROVE  amend'[b].applied /\ (Once(b)' => saved[d][b] = Base(b)')
      <4>1. b \in stored /\ amend[b].applied /\ (Once(b) => saved[d][b] = Base(b))
        BY <1>0, <2>1, <2>7, <3>1 DEF Handles
      <4>2. changes[TargetID(b)] # 0
        BY <4>1 DEF RestoreInv
      <4> QED BY <4>1, <4>2, TargetStays, RowsKeep
    <3>2. ASSUME pc[d] = "revert", Once(a)' PROVE corpus'[TargetID(a)] = Base(a)
      <4>1. amend[a].applied
        BY <1>0, <2>1, <2>2, <3>2 DEF Handles
      <4>2. Once(a)
        BY <2>3, <3>2, <4>1 DEF RestoreInv
      <4>3. corpus[TargetID(a)] = Base(a)
        BY <1>0, <2>2, <3>2, <4>2 DEF Handles
      <4> QED BY <3>2, <4>1, <4>3, TextStep
    <3>3. \A b \in todo'[d] : amend'[b].applied /\ (Once(b)' => saved'[d][b] = Base(b)')
      BY <3>1
    <3>4. (pc[d] = "revert" /\ Once(First(d)) => corpus[TargetID(First(d))] = Base(First(d)))'
      BY <2>2, <2>3, <3>2
    <3> QED BY <2>7, <3>3, <3>4 DEF Handles
  <2>8. pc[d] \in {"resolve", "get"} => Handles(d)'
    BY DEF Handles
  <2> QED BY <1>2, <2>5, <2>6, <2>7, <2>8 DEF Working
<1> QED BY <1>1, <1>2

\* Every step keeps what a call holds for the amendments it handles.
LEMMA HandlesStep ==
    ASSUME TypeOK, Shape, RestoreInv, NEW c \in Callers, Step(c)
    PROVE  Handles(c)'
<1>0. Handles(c) /\ [Next]_vars
  BY DEF RestoreInv, Next
<1>1. ASSUME pc'[c] \notin {"set", "update", "restore", "revert"} PROVE Handles(c)'
  BY <1>1 DEF Handles
<1>2. ASSUME NEW j \in Jobs,
             StageAmendment(c, j) \/ ValidateJob(c, j) \/ ApplyJob(c, j) \/ Rollback(c, j)
      PROVE  Handles(c)'
  <2>1. pc'[c] \in {"create", "mark", "list", "listApplied"}
    BY <1>2, EnterEffect DEF StageAmendment, ValidateJob, ApplyJob, Rollback
  <2> QED BY <1>1, <2>1
<1>3. ASSUME Return(c) PROVE Handles(c)'
  BY <1>1, <1>3, ReturnEffect
<1>4. CASE Mark(c) \/ Check(c) \/ Resolve(c) \/ ApplyFails(c)
  <2>1. Mark(c) \/ ApplyFails(c) => pc'[c] \in {"check", "transition"}
    BY DEF Mark, ApplyFails, Goto, TypeOK
  <2>2. Check(c) \/ Resolve(c) => pc'[c] \in {"resolve", "transition"}
    BY CheckEffect, ResolveEffect
  <2> QED BY <1>1, <1>4, <2>1, <2>2
<1>5. CASE List(c)
  <2>1. PICK due : Proceed(c, due, "get", "applied")
    BY <1>5 DEF List
  <2>2. pc'[c] \in {"get", "transition"}
    BY <2>1, ProceedEffect
  <2> QED BY <1>1, <2>2
<1>6. CASE Update(c)
  <2>1. pc'[c] \in {"get", "transition"}
    BY <1>6, UpdateEffect
  <2> QED BY <1>1, <2>1
\* The text of an entry that was never written is the one at the start.
<1>7. CASE GetText(c)
  <2>1. /\ pc[c] = "get" /\ pc'[c] = "set" /\ todo' = todo /\ amend' = amend
        /\ changes' = changes /\ First(c)' = First(c)
    BY <1>7 DEF GetText, At, Goto, TypeOK, First, history
  <2>2. First(c) \in stored /\ First(c) \in Amendments /\ previous[c] = Blank
    BY <2>1, FirstIsLeft DEF Shape, Working, TypeOK
  <2>3. ASSUME amend[First(c)].target # NoTarget, changes[TargetID(First(c))] = 0
        PROVE  previous'[c] = Base(First(c))
    <3>1. TargetID(First(c)) = amend[First(c)].target /\ TargetID(First(c)) \in Entries
      BY <2>2, <2>3, TargetTyped DEF TargetID
    <3>2. corpus[amend[First(c)].target] = AtStart(amend[First(c)].target)
      BY <2>3, <3>1 DEF RestoreInv
    <3>3. CASE amend[First(c)].change = "add"
      BY <1>7, <2>2, <3>3 DEF GetText, Base
    <3>4. CASE amend[First(c)].change # "add"
      <4>1. /\ corpus[amend[First(c)].target] # Absent
            /\ previous' = [previous EXCEPT ![c] = corpus[amend[First(c)].target]]
        BY <1>7, <3>4 DEF GetText
      <4>2. previous'[c] = corpus[amend[First(c)].target]
        BY <4>1 DEF TypeOK
      <4> QED BY <3>2, <3>4, <4>1, <4>2 DEF AtStart, Base
    <3> QED BY <3>3, <3>4
  <2> QED BY <2>1, <2>3 DEF Handles, TargetID, Base
<1>8. CASE SetText(c)
  <2>1. /\ pc[c] = "set" /\ pc'[c] = "update" /\ First(c)' = First(c)
        /\ amend' = amend /\ previous' = previous
        /\ changes'[TargetID(First(c))] # 0
        /\ changes'[TargetID(First(c))] = 1 => changes[TargetID(First(c))] = 0
    BY <1>8, SetTextEffect
  <2> QED BY <1>0, <2>1 DEF Handles, TargetID, Base, Once
<1>9. CASE ListApplied(c)
  <2> DEFINE listed == {a \in ListForJob(on[c]) : amend[a].applied /\ ~amend[a].rolledBack}
             held == [a \in Amendments |-> IF a \in listed THEN amend[a].previous ELSE Blank]
  <2>1. /\ Proceed(c, listed, "restore", "rolled_back")
        /\ saved' = [saved EXCEPT ![c] = held] /\ amend' = amend /\ changes' = changes
    BY <1>9 DEF ListApplied, history
  <2>2. \A a \in listed : a \in stored /\ a \in Amendments /\ amend[a].applied
                          /\ held[a] = amend[a].previous
    BY DEF ListForJob, TypeOK
  <2> HIDE DEF listed, held
  <2>3. saved'[c] = held
    BY <2>1 DEF TypeOK
  <2>4. todo'[c] = listed /\ pc'[c] \in {"restore", "transition"}
    BY <2>1, ProceedEffect
  <2>5. \A a \in listed : Once(a) => held[a] = Base(a)
    BY <2>2 DEF RestoreInv
  <2>6. \A a \in listed : Once(a)' = Once(a) /\ Base(a)' = Base(a)
    BY <2>1 DEF Once, Base, TargetID
  <2>7. \A a \in todo'[c] : amend'[a].applied /\ (Once(a)' => saved'[c][a] = Base(a)')
    BY <2>1, <2>2, <2>3, <2>4, <2>5, <2>6
  <2> QED BY <2>4, <2>7 DEF Handles
<1>10. CASE Restore(c)
  <2>1. /\ pc[c] = "restore" /\ pc'[c] = "revert" /\ First(c) \in todo[c] /\ First(c)' = First(c)
        /\ amend' = amend /\ changes' = changes /\ todo' = todo /\ saved' = saved
        /\ corpus'[amend[First(c)].target] = saved[c][First(c)]
    BY <1>10, RestoreEffect
  <2>2. \A a \in todo[c] : amend[a].applied /\ (Once(a) => saved[c][a] = Base(a))
    BY <1>0, <2>1 DEF Handles
  <2>3. \A a \in todo[c] : Once(a)' = Once(a) /\ Base(a)' = Base(a) /\ TargetID(a)' = TargetID(a)
    BY <2>1 DEF Once, Base, TargetID
  <2>4. Once(First(c)) => corpus'[TargetID(First(c))] = Base(First(c))
    BY <2>1, <2>2 DEF Once, TargetID
  <2> QED BY <2>1, <2>2, <2>3, <2>4 DEF Handles
<1>11. CASE Revert(c)
  <2>1. /\ pc[c] = "revert" /\ pc'[c] \in {"restore", "transition"} /\ saved' = saved
        /\ todo'[c] \subseteq todo[c]
    BY <1>11, RevertEffect
  <2>2. \A a \in todo[c] : a \in stored /\ amend[a].applied /\ (Once(a) => saved[c][a] = Base(a))
    BY <1>0, <2>1 DEF Handles, Shape, Working
  <2>3. \A a \in todo[c] : amend'[a].applied /\ (Once(a)' => saved[c][a] = Base(a)')
    <3> SUFFICES ASSUME NEW a \in todo[c]
                 PROVE  amend'[a].applied /\ (Once(a)' => saved[c][a] = Base(a)')
      OBVIOUS
    <3>1. a \in stored /\ amend[a].applied /\ changes[TargetID(a)] # 0
      BY <2>2 DEF RestoreInv
    <3> QED BY <1>0, <2>2, <3>1, TargetStays, RowsKeep
  <2> QED BY <2>1, <2>3 DEF Handles
<1>12. ASSUME NEW row \in Rows, Create(c, row) PROVE Return(c)
  BY <1>12 DEF Create
<1>13. CASE Transition(c) \/ Abort(c)
  BY <1>3, <1>13 DEF Transition, Abort
<1> QED BY <1>2, <1>3, <1>4, <1>5, <1>6, <1>7, <1>8, <1>9, <1>10, <1>11, <1>12, <1>13 DEF Step

\* Restoring is kept by every step, however the calls overlap.
LEMMA RestoreStep == TypeOK /\ Shape /\ RestoreInv /\ [Next]_vars => RestoreInv'
<1> SUFFICES ASSUME TypeOK, Shape, RestoreInv, [Next]_vars PROVE RestoreInv'
  OBVIOUS
<1>1. ASSUME NEW d \in Callers PROVE Handles(d)'
  <2>1. CASE UNCHANGED vars \/ Tick
    BY <2>1, HandlesStays DEF vars, local, Tick, First
  <2>2. ASSUME NEW c \in Callers, Step(c), c # d PROVE Handles(d)'
    BY <2>2, OthersStay, HandlesStays
  <2>3. CASE Step(d)
    BY <2>3, HandlesStep
  <2> QED BY <2>1, <2>2, <2>3 DEF Next
<1>2. OneWriter' /\ Restored'
  BY OneWriterStep, RestoredStep
<1> QED BY <1>1, <1>2, CountedStep, RolledBackStep, UnwrittenStep, PreviousStep DEF RestoreInv

\* However calls overlap, fail and are repeated, an entry that one amendment changed once
\* has its first text again once that amendment is rolled back, and one that an Add made
\* is empty; an Add over an entry there is loses what it overwrote and is left out
\* (ApplyAmendment, Rollback).
THEOREM RollbackBringsBack == Spec => []RollbackRestores
<1>1. Init => TypeOK /\ Shape /\ RestoreInv
  BY ShapeInit, RestoreInit
<1>2. TypeOK /\ Shape /\ RestoreInv /\ [Next]_vars => (TypeOK /\ Shape /\ RestoreInv)'
  BY TypeStep, ShapeStep, RestoreStep
<1>3. RestoreInv => RollbackRestores
  BY DEF RestoreInv, Restored, RollbackRestores, Once, Base
<1> QED BY <1>1, <1>2, <1>3, PTL DEF Spec

=============================================================================
