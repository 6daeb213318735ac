--------------------------- MODULE MCCorpusUpdate ---------------------------
(***************************************************************************)
(* Model-checking instance of CorpusUpdate.                                *)
(***************************************************************************)
EXTENDS CorpusUpdate, TLC

\* An Add without a target, of an entry that does not exist and over one that does; an
\* amendment that is valid, invalid or of a later date, and one of an entry that does
\* not exist; a repeal.
MCRows ==
    LET Row(change, target, valid, due) ==
            [job |-> NoJob, change |-> change, target |-> target, valid |-> valid,
             due |-> due, applied |-> FALSE, rolledBack |-> FALSE, previous |-> Blank] IN
    {Row("add", t, TRUE, 0) : t \in Existing \cup Fresh \cup {NoTarget}}
    \cup {Row("amend", t, TRUE, 0) : t \in Existing \cup Fresh}
    \cup UNION {{Row("amend", t, FALSE, 0), Row("amend", t, TRUE, 1),
                 Row("repeal", t, TRUE, 0)} : t \in Existing}

CorpusSymmetry == Permutations(Callers)

=============================================================================
