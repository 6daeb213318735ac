---------------------------- MODULE CaseMachine ----------------------------
(***************************************************************************)
(* What packages/caselifecycle promises of a case when its operations are  *)
(* taken to be atomic: the documented state diagram, and a metadata        *)
(* version that counts the metadata updates.                               *)
(***************************************************************************)
EXTENDS Naturals

CONSTANT Keys

VARIABLES state, metadata, metadataVersion

caseVars == <<state, metadata, metadataVersion>>

Init ==
    /\ state = "draft"
    /\ metadata \subseteq Keys
    /\ metadataVersion = 1

Move(from, to) ==
    /\ state = from
    /\ state' = to
    /\ UNCHANGED <<metadata, metadataVersion>>

Activate == Move("draft", "active") \/ Move("under_review", "active")
Submit   == Move("active", "under_review")
Close    == Move("under_review", "closed")
Reopen   == Move("closed", "active")
Archive  == Move("closed", "archived")

WriteMetadata ==
    /\ metadata' \in SUBSET Keys
    /\ metadataVersion' = metadataVersion + 1
    /\ UNCHANGED state

Next ==
    \/ Activate \/ Submit \/ Close \/ Reopen \/ Archive
    \/ WriteMetadata

Spec == Init /\ [][Next]_caseVars

=============================================================================
