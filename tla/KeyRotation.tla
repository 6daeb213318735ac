----------------------------- MODULE KeyRotation -----------------------------
(***************************************************************************)
(* packages/keymanagement, FileProvider, with the envelopes                *)
(* packages/encryption makes under its keys: the keys of one tenant.       *)
(*                                                                         *)
(* The material of a key version is a file, its state a row of a           *)
(* repository.  Rotate writes the file of the next version, retires the    *)
(* active version and creates the new one as active; its lock is that of   *)
(* one provider, and others may rotate the same tenant.  Revoke changes a  *)
(* state at any time.  Encrypt looks up the active version and then reads  *)
(* its file.  An envelope names its version and opens if the file of that  *)
(* version still holds the material it was made with.                      *)
(***************************************************************************)
EXTENDS Naturals

CONSTANTS
    Providers,
    Clients,     \* callers of Encrypt
    NumVersions, \* bound on the versions
    MaxDraws,    \* bound on the rotations
    MaxErrors,   \* bound on the rotations that fail or die midway
    MaxRestarts, \* bound on the restarts of the process
    NoKey

ASSUME BoundsAssumption ==
    /\ NumVersions \in Nat \ {0} /\ MaxDraws \in Nat
    /\ MaxErrors \in Nat /\ MaxRestarts \in Nat

VARIABLES
    durable,   \* the repository is Postgres, else InMemoryRepository
    files,     \* the material in the file of each version
    states,    \* the state of each version's metadata
    pc, newVersion, prev, \* where a rotation is, and with what
    using,     \* the version an Encrypt found active
    envelopes, \* stored ciphertext: its version and the material it was made with
    drawn, errors, restarts,
    overlapped, \* history: two rotations were in progress at once
    wiped,      \* history: the metadata was lost
    settled,    \* history: the last rotation to end created its key, and the active
                \* key was not revoked since
    struck      \* history: versions revoked when no rotation had read them as active

rotateVars == <<pc, newVersion, prev>>
history == <<overlapped, wiped, settled, struck>>
vars == <<durable, files, states, rotateVars, using, envelopes, drawn, errors,
          restarts, history>>

-----------------------------------------------------------------------------

Versions == 1 .. NumVersions
KeyStates == {"active", "retired", "revoked"}

ASSUME NoKeyAssumption == NoKey \notin KeyStates /\ NoKey \notin Nat

Known == {v \in Versions : states[v] # NoKey}
ActiveKeys == {v \in Versions : states[v] = "active"}
MaxVersion == IF Known = {} THEN 0 ELSE CHOOSE v \in Known : \A w \in Known : w <= v

At(p, where) == pc[p] = where
Goto(p, where) == pc' = [pc EXCEPT ![p] = where]
Rotating(p) == ~At(p, "idle")

Init ==
    /\ durable \in BOOLEAN
    /\ files = [v \in Versions |-> NoKey]
    /\ states = [v \in Versions |-> NoKey]
    /\ pc = [p \in Providers |-> "idle"]
    /\ newVersion = [p \in Providers |-> 1]
    /\ prev = [p \in Providers |-> NoKey]
    /\ using = [c \in Clients |-> NoKey]
    /\ envelopes = {}
    /\ drawn = 0 /\ errors = 0 /\ restarts = 0
    /\ overlapped = FALSE /\ wiped = FALSE /\ settled = TRUE
    /\ struck = {}

-----------------------------------------------------------------------------
(* Rotate.                                                                 *)

\* A defect: the version after the active one.
Rotate_FromActive(p) ==
    /\ At(p, "idle")
    /\ MaxVersion < NumVersions
    /\ newVersion' = [newVersion EXCEPT
                        ![p] = IF ActiveKeys = {} THEN 1 ELSE MaxVersion + 1]
    /\ Goto(p, "write")
    /\ overlapped' = (overlapped \/ \E q \in Providers : Rotating(q))
    /\ UNCHANGED <<durable, files, states, prev, using, envelopes, drawn, errors,
                   restarts, wiped, settled, struck>>

Rotate(p) ==
    /\ At(p, "idle")
    /\ MaxVersion < NumVersions
    /\ newVersion' = [newVersion EXCEPT ![p] = MaxVersion + 1]
    /\ Goto(p, "write")
    /\ overlapped' = (overlapped \/ \E q \in Providers : Rotating(q))
    /\ UNCHANGED <<durable, files, states, prev, using, envelopes, drawn, errors,
                   restarts, wiped, settled, struck>>

\* Fresh material goes to the file of the new version, whatever is there.
WriteKeyFile(p) ==
    /\ At(p, "write")
    /\ drawn < MaxDraws
    /\ drawn' = drawn + 1
    /\ files' = [files EXCEPT ![newVersion[p]] = drawn + 1]
    /\ Goto(p, "find")
    /\ UNCHANGED <<durable, states, newVersion, prev, using, envelopes, errors, restarts,
                   history>>

GetActive(p) ==
    /\ At(p, "find")
    /\ \/ \E v \in ActiveKeys : prev' = [prev EXCEPT ![p] = v] /\ Goto(p, "demote")
       \/ ActiveKeys = {} /\ Goto(p, "create") /\ UNCHANGED prev
    /\ UNCHANGED <<durable, files, states, newVersion, using, envelopes, drawn, errors,
                   restarts, history>>

\* A defect: every version is retired.
Demote_All(p) ==
    /\ At(p, "demote")
    /\ states' = [v \in Versions |-> IF v \in Known THEN "retired" ELSE NoKey]
    /\ Goto(p, "create")
    /\ UNCHANGED <<durable, files, newVersion, prev, using, envelopes, drawn, errors,
                   restarts, history>>

\* UpdateState: retired, whatever became of the version since.
Demote(p) ==
    /\ At(p, "demote")
    /\ states' = [states EXCEPT ![prev[p]] = "retired"]
    /\ Goto(p, "create")
    /\ UNCHANGED <<durable, files, newVersion, prev, using, envelopes, drawn, errors,
                   restarts, history>>

\* The rotation is over.
Return(p, ok) ==
    /\ Goto(p, "idle")
    /\ newVersion' = [newVersion EXCEPT ![p] = 1]
    /\ prev' = [prev EXCEPT ![p] = NoKey]
    /\ settled' = ok

\* A defect: the new version is not checked against what is there.
MayCreate_Unchecked(v) == TRUE

\* Postgres takes one row per version; memory replaces a row of the same version.
\* Both refuse a second active key.
MayCreate(v) == /\ durable => v \notin Known
                /\ ActiveKeys \subseteq {v}

\* A defect: the new version is not promoted.
Create_Inactive(p) ==
    /\ At(p, "create")
    /\ MayCreate(newVersion[p])
    /\ states' = [states EXCEPT ![newVersion[p]] = "retired"]
    /\ Return(p, TRUE)
    /\ UNCHANGED <<durable, files, using, envelopes, drawn, errors, restarts, overlapped,
                   wiped, struck>>

Create(p) ==
    /\ At(p, "create")
    /\ MayCreate(newVersion[p])
    /\ states' = [states EXCEPT ![newVersion[p]] = "active"]
    /\ Return(p, TRUE)
    /\ UNCHANGED <<durable, files, using, envelopes, drawn, errors, restarts, overlapped,
                   wiped, struck>>

\* Rotate fails or dies, or its version cannot be created.
RotateFails(p) ==
    /\ Rotating(p)
    /\ \/ errors < MaxErrors /\ errors' = errors + 1
       \/ At(p, "create") /\ ~MayCreate(newVersion[p]) /\ UNCHANGED errors
    /\ Return(p, FALSE)
    /\ UNCHANGED <<durable, files, states, using, envelopes, drawn, restarts, overlapped,
                   wiped, struck>>

-----------------------------------------------------------------------------

Revoke(v) ==
    /\ v \in Known
    /\ states' = [states EXCEPT ![v] = "revoked"]
    /\ settled' = (settled /\ states[v] # "active")
    /\ struck' = IF \E p \in Providers : At(p, "demote") /\ prev[p] = v
                 THEN struck ELSE struck \cup {v}
    /\ UNCHANGED <<durable, files, rotateVars, using, envelopes, drawn, errors, restarts,
                   overlapped, wiped>>

\* Encrypt, CurrentKey: the active version, and then its file.
CurrentKey(c) ==
    \E v \in ActiveKeys :
        /\ using[c] = NoKey
        /\ using' = [using EXCEPT ![c] = v]
        /\ UNCHANGED <<durable, files, states, rotateVars, envelopes, drawn, errors,
                       restarts, history>>

Seal(c) ==
    /\ using[c] # NoKey
    /\ envelopes' = envelopes \cup {[version |-> using[c], material |-> files[using[c]]]}
    /\ using' = [using EXCEPT ![c] = NoKey]
    /\ UNCHANGED <<durable, files, states, rotateVars, drawn, errors, restarts, history>>

\* The process of the providers restarts; metadata kept in memory is gone.
Restart ==
    /\ restarts < MaxRestarts
    /\ restarts' = restarts + 1
    /\ pc' = [p \in Providers |-> "idle"]
    /\ newVersion' = [p \in Providers |-> 1]
    /\ prev' = [p \in Providers |-> NoKey]
    /\ using' = [c \in Clients |-> NoKey]
    /\ states' = IF durable THEN states ELSE [v \in Versions |-> NoKey]
    /\ wiped' = (wiped \/ (~durable /\ Known # {}))
    /\ settled' = (settled /\ \A p \in Providers : ~Rotating(p))
    /\ UNCHANGED <<durable, files, envelopes, drawn, errors, overlapped, struck>>

Next ==
    \/ \E p \in Providers :
         \/ Rotate(p) \/ WriteKeyFile(p) \/ GetActive(p) \/ Demote(p)
         \/ Create(p) \/ RotateFails(p)
    \/ \E v \in Versions : Revoke(v)
    \/ \E c \in Clients : CurrentKey(c) \/ Seal(c)
    \/ Restart

Spec == Init /\ [][Next]_vars

-----------------------------------------------------------------------------
(* Properties.                                                             *)

TypeOK ==
    /\ durable \in BOOLEAN
    /\ files \in [Versions -> 1 .. MaxDraws \cup {NoKey}]
    /\ states \in [Versions -> KeyStates \cup {NoKey}]
    /\ pc \in [Providers -> {"idle", "write", "find", "demote", "create"}]
    /\ newVersion \in [Providers -> Versions]
    /\ prev \in [Providers -> Versions \cup {NoKey}]
    /\ using \in [Clients -> Versions \cup {NoKey}]
    /\ envelopes \subseteq [version : Versions, material : 1 .. MaxDraws]
    /\ drawn \in 0 .. MaxDraws /\ errors \in 0 .. MaxErrors
    /\ restarts \in 0 .. MaxRestarts
    /\ overlapped \in BOOLEAN /\ wiped \in BOOLEAN /\ settled \in BOOLEAN
    /\ struck \subseteq Versions

\* Decrypt: the version has a row, whatever its state, and the material its file
\* holds is that of the envelope.
Opens(e) == e.version \in Known /\ files[e.version] = e.material

\* What was encrypted stays decryptable, whatever keys are retired and revoked and
\* whatever rotations fail midway, unless two providers rotated at once or the
\* metadata was lost: then a file is written again for a version in use (Rotate).
EnvelopesOpen == (~overlapped /\ ~wiped) => \A e \in envelopes : Opens(e)

\* The active key is the newest: a rotation that was overtaken never brings an older
\* version back, unless in a repository that lets it replace a row (Create).
ActiveIsNewest ==
    \A v \in ActiveKeys : durable \/ ~overlapped => \A w \in Known : w <= v

\* If the last rotation to end came to its end and the active key was not revoked
\* since, the tenant has an active key: also after rotations that failed between
\* retiring the old key and creating the new one, and however providers overlap
\* (Rotate).
RotationLeavesKey ==
    (settled /\ Known # {} /\ \A p \in Providers : ~Rotating(p)) => ActiveKeys # {}

\* A key that is revoked stays revoked, unless a rotation had already read it as
\* active and retires it, or a row kept in memory is lost or replaced (UpdateState).
RevocationSticks ==
    \A v \in struck : states[v] = "revoked" \/ (~durable /\ (overlapped \/ wiped))

=============================================================================
