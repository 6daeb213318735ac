-------------------------- MODULE KeyRotationProofs --------------------------
(***************************************************************************)
(* Proofs about KeyRotation, for both repositories, any number of          *)
(* providers and clients, and every bound on versions, rotations, errors   *)
(* and restarts.                                                           *)
(***************************************************************************)
EXTENDS KeyRotation, TLAPS

-----------------------------------------------------------------------------
(* The inductive invariant.  The versions that are known are always the    *)
(* first few, so the version a rotation read as the next one is known      *)
(* already or still the next one: which of the two is what the repository  *)
(* checks, and what a provider that is alone may rely on.                  *)

KnownAreFirst == \E k \in 0 .. NumVersions : Known = 1 .. k

RotationShape(p) ==
    /\ Rotating(p) => newVersion[p] = 1 \/ newVersion[p] - 1 \in Known
    /\ pc[p] \in {"find", "demote", "create"} => files[newVersion[p]] # NoKey
    /\ pc[p] = "demote" => prev[p] \in Known

\* A rotation that is alone still has the next version.
AloneShape ==
    /\ \A p, q \in Providers : Rotating(p) /\ Rotating(q) => p = q
    /\ \A p \in Providers : Rotating(p) => newVersion[p] \notin Known

Shape ==
    /\ KnownAreFirst
    /\ \A p \in Providers : RotationShape(p)
    /\ ~overlapped => AloneShape
    /\ \A c \in Clients : using[c] # NoKey => using[c] \in Known
    /\ \A v \in Known : files[v] # NoKey
    /\ ~wiped => \A e \in envelopes : e.version \in Known

\* No rotation on its way holds a version that is struck, and none is replaced.
StruckInv ==
    (durable \/ (~overlapped /\ ~wiped)) =>
        \A v \in struck : /\ states[v] = "revoked"
                          /\ \A p \in Providers : pc[p] = "demote" => prev[p] # v

-----------------------------------------------------------------------------
(* What the steps do to the key versions.                                  *)

\* The next version, when the versions known are the first k.
LEMMA MaxVersionOfFirst ==
    ASSUME NEW k \in Nat, Known = 1 .. k
    PROVE  MaxVersion = k
<1>1. CASE k = 0
  BY <1>1 DEF MaxVersion
<1>2. CASE k # 0
  <2>1. k \in Known /\ \A w \in Known : w <= k
    BY <1>2
  <2>2. \A v \in Known : (\A w \in Known : w <= v) => v = k
    BY <2>1
  <2>3. MaxVersion = CHOOSE v \in Known : \A w \in Known : w <= v
    BY <2>1 DEF MaxVersion
  <2> QED BY <2>1, <2>2, <2>3
<1> QED BY <1>1, <1>2

\* A step that leaves the states of the versions leaves the known and the active ones.
LEMMA KnownSame ==
    ASSUME states' = states
    PROVE  Known' = Known /\ ActiveKeys' = ActiveKeys
  BY DEF Known, ActiveKeys

\* What demoting the version that was active leaves.
LEMMA DemoteEffect ==
    ASSUME TypeOK, Shape, NEW p \in Providers, Demote(p)
    PROVE  /\ pc[p] = "demote" /\ prev[p] \in Known /\ prev[p] \in Versions
           /\ pc' = [pc EXCEPT ![p] = "create"]
           /\ states' = [states EXCEPT ![prev[p]] = "retired"]
           /\ Known' = Known
           /\ ActiveKeys' \subseteq ActiveKeys
<1>1. pc[p] = "demote" /\ prev[p] \in Known
  BY DEF Demote, At, Shape, RotationShape
<1>2. prev[p] \in Versions /\ states' = [states EXCEPT ![prev[p]] = "retired"]
  BY <1>1 DEF Demote, Known
<1>3. Known' = Known /\ ActiveKeys' \subseteq ActiveKeys
  BY <1>1, <1>2, NoKeyAssumption DEF Known, ActiveKeys, TypeOK, KeyStates
<1> QED BY <1>1, <1>2, <1>3 DEF Demote, Goto

\* What creating a version leaves: it is the only active one.
LEMMA CreateEffect ==
    ASSUME TypeOK, NEW p \in Providers, Create(p)
    PROVE  /\ pc[p] = "create" /\ MayCreate(newVersion[p]) /\ newVersion[p] \in Versions
           /\ states' = [states EXCEPT ![newVersion[p]] = "active"]
           /\ Known' = Known \cup {newVersion[p]}
           /\ ActiveKeys' = {newVersion[p]}
<1>1. newVersion[p] \in Versions
  BY DEF TypeOK
<1>2. states' = [states EXCEPT ![newVersion[p]] = "active"] /\ MayCreate(newVersion[p])
  BY DEF Create
<1>3. Known' = Known \cup {newVersion[p]}
  BY <1>1, <1>2, NoKeyAssumption DEF Known, TypeOK, KeyStates
<1>4. ActiveKeys' = {newVersion[p]}
  BY <1>1, <1>2 DEF MayCreate, ActiveKeys, TypeOK
<1> QED BY <1>1, <1>2, <1>3, <1>4 DEF Create, At

\* What revoking a key leaves.
LEMMA RevokeEffect ==
    ASSUME TypeOK, NEW v \in Versions, Revoke(v)
    PROVE  /\ states' = [states EXCEPT ![v] = "revoked"] /\ v \in Known
           /\ Known' = Known
           /\ ActiveKeys' = ActiveKeys \ {v}
  BY NoKeyAssumption DEF Revoke, Known, ActiveKeys, TypeOK, KeyStates

\* What a restart leaves: a store that is durable, and no call.
LEMMA RestartEffect ==
    ASSUME Restart
    PROVE  /\ durable => Known' = Known /\ ActiveKeys' = ActiveKeys
           /\ ~durable => Known' = {} /\ ActiveKeys' = {}
           /\ \A p \in Providers : pc'[p] = "idle" /\ ~Rotating(p)'
           /\ \A c \in Clients : using'[c] = NoKey
<1>1. durable => Known' = Known /\ ActiveKeys' = ActiveKeys
  BY DEF Restart, Known, ActiveKeys
<1>2. ~durable => Known' = {} /\ ActiveKeys' = {}
  BY NoKeyAssumption DEF Restart, Known, ActiveKeys, KeyStates
<1>3. \A p \in Providers : pc'[p] = "idle" /\ ~Rotating(p)'
  BY DEF Restart, Rotating, At
<1>4. \A c \in Clients : using'[c] = NoKey
  BY DEF Restart
<1> QED BY <1>1, <1>2, <1>3, <1>4

\* The next version a rotation reads.
LEMMA RotateEffect ==
    ASSUME TypeOK, Shape, NEW p \in Providers, Rotate(p)
    PROVE  /\ pc[p] = "idle" /\ pc'[p] = "write"
           /\ newVersion' = [newVersion EXCEPT ![p] = MaxVersion + 1]
           /\ newVersion'[p] = MaxVersion + 1
           /\ MaxVersion + 1 \in Versions
           /\ MaxVersion + 1 \notin Known
           /\ MaxVersion + 1 = 1 \/ (MaxVersion + 1) - 1 \in Known
<1>1. PICK k \in 0 .. NumVersions : Known = 1 .. k
  BY DEF Shape, KnownAreFirst
<1>2. MaxVersion = k
  BY <1>1, MaxVersionOfFirst, BoundsAssumption
<1>3. k < NumVersions
  BY <1>2 DEF Rotate
<1>4. /\ k + 1 \in Versions /\ k + 1 \notin Known
      /\ k + 1 = 1 \/ (k + 1) - 1 \in Known
  BY <1>1, <1>3, BoundsAssumption DEF Versions
<1>5. newVersion' = [newVersion EXCEPT ![p] = MaxVersion + 1]
  BY DEF Rotate
<1>6. newVersion'[p] = MaxVersion + 1
  BY <1>5 DEF TypeOK
<1>7. pc[p] = "idle" /\ pc'[p] = "write"
  BY DEF Rotate, At, Goto, TypeOK
<1> QED BY <1>2, <1>4, <1>5, <1>6, <1>7

-----------------------------------------------------------------------------
(* Type correctness.                                                       *)

\* A call that returns keeps the types.
LEMMA ReturnTyped ==
    ASSUME TypeOK, NEW p \in Providers, NEW ok \in BOOLEAN, Return(p, ok)
    PROVE  /\ pc' \in [Providers -> {"idle", "write", "find", "demote", "create"}]
           /\ newVersion' \in [Providers -> Versions]
           /\ prev' \in [Providers -> Versions \cup {NoKey}]
           /\ settled' \in BOOLEAN
<1>1. 1 \in Versions
  BY BoundsAssumption DEF Versions
<1>2. pc' \in [Providers -> {"idle", "write", "find", "demote", "create"}]
  BY DEF Return, Goto, TypeOK
<1>3. newVersion' \in [Providers -> Versions]
  BY <1>1 DEF Return, TypeOK
<1>4. prev' \in [Providers -> Versions \cup {NoKey}]
  BY DEF Return, TypeOK
<1> QED BY <1>2, <1>3, <1>4 DEF Return

\* Every step keeps the types.
LEMMA TypeStep == TypeOK /\ Shape /\ [Next]_vars => TypeOK'
<1> SUFFICES ASSUME TypeOK, Shape, [Next]_vars PROVE TypeOK'
  OBVIOUS
<1>1. CASE UNCHANGED vars
  BY <1>1 DEF TypeOK, vars, rotateVars, history
<1>2. ASSUME NEW p \in Providers, Rotate(p) PROVE TypeOK'
  <2>1. newVersion' \in [Providers -> Versions]
    BY <1>2, RotateEffect DEF TypeOK
  <2>2. pc' \in [Providers -> {"idle", "write", "find", "demote", "create"}]
    BY <1>2 DEF Rotate, Goto, TypeOK
  <2> QED BY <1>2, <2>1, <2>2 DEF Rotate, TypeOK
<1>3. ASSUME NEW p \in Providers, WriteKeyFile(p) PROVE TypeOK'
  <2>1. drawn + 1 \in 1 .. MaxDraws /\ drawn' \in 0 .. MaxDraws
    BY <1>3, BoundsAssumption DEF WriteKeyFile, TypeOK
  <2>2. files' \in [Versions -> 1 .. MaxDraws \cup {NoKey}]
    BY <1>3, <2>1 DEF WriteKeyFile, TypeOK
  <2>3. pc' \in [Providers -> {"idle", "write", "find", "demote", "create"}]
    BY <1>3 DEF WriteKeyFile, Goto, TypeOK
  <2> QED BY <1>3, <2>1, <2>2, <2>3 DEF WriteKeyFile, TypeOK, history
<1>4. ASSUME NEW p \in Providers, GetActive(p) PROVE TypeOK'
  <2>1. pc' \in [Providers -> {"idle", "write", "find", "demote", "create"}]
    BY <1>4 DEF GetActive, Goto, TypeOK
  <2>2. prev' \in [Providers -> Versions \cup {NoKey}]
    BY <1>4 DEF GetActive, ActiveKeys, TypeOK
  <2> QED BY <1>4, <2>1, <2>2 DEF GetActive, TypeOK, history
<1>5. ASSUME NEW p \in Providers, Demote(p) PROVE TypeOK'
  <2>1. pc' \in [Providers -> {"idle", "write", "find", "demote", "create"}]
    BY <1>5 DEF Demote, Goto, TypeOK
  <2>2. states' \in [Versions -> KeyStates \cup {NoKey}]
    BY <1>5 DEF Demote, TypeOK, KeyStates
  <2> QED BY <1>5, <2>1, <2>2 DEF Demote, TypeOK, history
<1>6. ASSUME NEW p \in Providers, Create(p) PROVE TypeOK'
  <2>1. states' \in [Versions -> KeyStates \cup {NoKey}]
    BY <1>6 DEF Create, TypeOK, KeyStates
  <2>2. Return(p, TRUE)
    BY <1>6 DEF Create
  <2> QED BY <1>6, <2>1, <2>2, ReturnTyped DEF Create, TypeOK
<1>7. ASSUME NEW p \in Providers, RotateFails(p) PROVE TypeOK'
  <2>1. Return(p, FALSE)
    BY <1>7 DEF RotateFails
  <2>2. errors' \in 0 .. MaxErrors
    BY <1>7, BoundsAssumption DEF RotateFails, TypeOK
  <2> QED BY <1>7, <2>1, <2>2, ReturnTyped DEF RotateFails, TypeOK
<1>8. ASSUME NEW v \in Versions, Revoke(v) PROVE TypeOK'
  <2>1. states' \in [Versions -> KeyStates \cup {NoKey}]
    BY <1>8 DEF Revoke, TypeOK, KeyStates
  <2>2. struck' \subseteq Versions /\ settled' \in BOOLEAN
    BY <1>8 DEF Revoke, TypeOK
  <2> QED BY <1>8, <2>1, <2>2 DEF Revoke, TypeOK, rotateVars
<1>9. ASSUME NEW c \in Clients, CurrentKey(c) PROVE TypeOK'
  <2>1. using' \in [Clients -> Versions \cup {NoKey}]
    BY <1>9 DEF CurrentKey, ActiveKeys, TypeOK
  <2> QED BY <1>9, <2>1 DEF CurrentKey, TypeOK, rotateVars, history
<1>10. ASSUME NEW c \in Clients, Seal(c) PROVE TypeOK'
  <2>1. using[c] \in Versions /\ files[using[c]] \in 1 .. MaxDraws
    BY <1>10 DEF Seal, Shape, Known, TypeOK
  <2>2. envelopes' \subseteq [version : Versions, material : 1 .. MaxDraws]
    BY <1>10, <2>1 DEF Seal, TypeOK
  <2>3. using' \in [Clients -> Versions \cup {NoKey}]
    BY <1>10 DEF Seal, TypeOK
  <2> QED BY <1>10, <2>2, <2>3 DEF Seal, TypeOK, rotateVars, history
<1>11. CASE Restart
  <2>1. 1 \in Versions /\ restarts' \in 0 .. MaxRestarts
    BY <1>11, BoundsAssumption DEF Restart, TypeOK, Versions
  <2>2. states' \in [Versions -> KeyStates \cup {NoKey}]
    BY <1>11 DEF Restart, TypeOK
  <2>3. /\ pc' \in [Providers -> {"idle", "write", "find", "demote", "create"}]
        /\ newVersion' \in [Providers -> Versions]
        /\ prev' \in [Providers -> Versions \cup {NoKey}]
        /\ using' \in [Clients -> Versions \cup {NoKey}]
    BY <1>11, <2>1 DEF Restart
  <2>4. wiped' \in BOOLEAN /\ settled' \in BOOLEAN
    BY <1>11 DEF Restart, TypeOK
  <2> QED BY <1>11, <2>1, <2>2, <2>3, <2>4 DEF Restart, TypeOK
<1> QED BY <1>1, <1>2, <1>3, <1>4, <1>5, <1>6, <1>7, <1>8, <1>9, <1>10, <1>11 DEF Next

-----------------------------------------------------------------------------
(* The shape of the versions and of the rotations on their way.            *)

\* A rotation that is not the one that steps stays as it was.
LEMMA RotationStays ==
    ASSUME NEW q \in Providers, RotationShape(q),
           pc'[q] = pc[q], newVersion'[q] = newVersion[q], prev'[q] = prev[q],
           Known \subseteq Known', files[newVersion[q]] # NoKey => files'[newVersion[q]] # NoKey
    PROVE  RotationShape(q)'
  BY DEF RotationShape, Rotating, At

\* A rotation that is over has nothing left to keep.
LEMMA ReturnEffect ==
    ASSUME TypeOK, NEW p \in Providers, NEW ok, Return(p, ok)
    PROVE  /\ pc'[p] = "idle" /\ ~Rotating(p)'
           /\ \A q \in Providers : q # p =>
                /\ pc'[q] = pc[q] /\ newVersion'[q] = newVersion[q] /\ prev'[q] = prev[q]
                /\ Rotating(q)' = Rotating(q)
  BY DEF Return, Goto, TypeOK, Rotating, At

\* No file of a version loses its material.
LEMMA FilesStay ==
    ASSUME TypeOK, [Next]_vars, NEW v \in Versions, files[v] # NoKey
    PROVE  files'[v] # NoKey
<1>1. CASE \E p \in Providers : WriteKeyFile(p)
  <2>1. drawn + 1 # NoKey
    BY NoKeyAssumption DEF TypeOK
  <2> QED BY <1>1, <2>1 DEF WriteKeyFile, TypeOK
<1>2. CASE ~\E p \in Providers : WriteKeyFile(p)
  BY <1>2 DEF Next, vars, Rotate, GetActive, Demote, Create, RotateFails, Revoke, CurrentKey,
              Seal, Restart
<1> QED BY <1>1, <1>2

\* Every step keeps the shape.
LEMMA ShapeStep == TypeOK /\ Shape /\ [Next]_vars => Shape'
<1> SUFFICES ASSUME TypeOK, Shape, [Next]_vars PROVE Shape'
  OBVIOUS
<1> DEFINE FilesShape == \A v \in Known : files[v] # NoKey
           UsingShape == \A c \in Clients : using[c] # NoKey => using[c] \in Known
           EnvelopeShape == ~wiped => \A e \in envelopes : e.version \in Known
<1>1. \A v \in Versions : files[v] # NoKey => files'[v] # NoKey
  BY FilesStay
<1>2. Known \subseteq Versions /\ Known' \subseteq Versions
  BY DEF Known
<1>3. \A q \in Providers : newVersion[q] \in Versions
  BY DEF TypeOK
\* A step that changes neither the versions nor a rotation.
<1>4. ASSUME states' = states, UNCHANGED <<rotateVars, overlapped>>, UsingShape', EnvelopeShape'
      PROVE  Shape'
  <2>1. Known' = Known
    BY <1>4, KnownSame
  <2>2. \A q \in Providers : RotationShape(q)'
    BY <1>1, <1>3, <1>4, <2>1, RotationStays DEF Shape, rotateVars
  <2>3. KnownAreFirst' /\ (~overlapped' => AloneShape')
    BY <1>4, <2>1 DEF Shape, KnownAreFirst, AloneShape, Rotating, At, rotateVars
  <2>4. FilesShape'
    BY <1>1, <1>2, <2>1 DEF Shape
  <2> QED BY <1>4, <2>2, <2>3, <2>4 DEF Shape
\* A step of one rotation that leaves the versions known.
<1>5. ASSUME NEW p \in Providers, RotationShape(p)', Known' = Known,
             \A q \in Providers : q # p => pc'[q] = pc[q] /\ newVersion'[q] = newVersion[q]
                                           /\ prev'[q] = prev[q],
             UNCHANGED <<using, envelopes, wiped>>, ~overlapped' => AloneShape'
      PROVE  Shape'
  <2>1. \A q \in Providers : RotationShape(q)'
    BY <1>1, <1>3, <1>5, RotationStays DEF Shape
  <2>2. FilesShape' /\ UsingShape' /\ EnvelopeShape' /\ KnownAreFirst'
    BY <1>1, <1>2, <1>5 DEF Shape, KnownAreFirst
  <2> QED BY <1>5, <2>1, <2>2 DEF Shape
<1>6. CASE UNCHANGED vars
  <2>1. Known' = Known
    BY <1>6, KnownSame DEF vars
  <2>2. UsingShape' /\ EnvelopeShape'
    BY <1>6, <2>1 DEF Shape, vars, history
  <2> HIDE DEF UsingShape, EnvelopeShape
  <2> QED BY <1>4, <1>6, <2>2 DEF vars, history
<1>7. ASSUME NEW p \in Providers, Rotate(p) PROVE Shape'
  <2>1. Known' = Known
    BY <1>7, KnownSame DEF Rotate
  <2>2. /\ newVersion'[p] \notin Known /\ pc'[p] = "write"
        /\ newVersion'[p] = 1 \/ newVersion'[p] - 1 \in Known
    BY <1>7, RotateEffect
  <2>3. \A q \in Providers : q # p => pc'[q] = pc[q] /\ newVersion'[q] = newVersion[q]
                                      /\ prev'[q] = prev[q]
    BY <1>7 DEF Rotate, Goto, TypeOK
  <2>4. RotationShape(p)'
    BY <2>1, <2>2 DEF RotationShape
  <2>5. ~overlapped' => AloneShape'
    <3>1. SUFFICES ASSUME ~overlapped' PROVE AloneShape'
      OBVIOUS
    <3>2. \A q \in Providers : ~Rotating(q)
      BY <1>7, <3>1 DEF Rotate
    <3>3. \A q \in Providers : Rotating(q)' => q = p
      BY <2>3, <3>2 DEF Rotating, At
    <3> QED BY <2>1, <2>2, <3>3 DEF AloneShape
  <2> QED BY <1>5, <1>7, <2>1, <2>3, <2>4, <2>5 DEF Rotate
<1>8. ASSUME NEW p \in Providers, WriteKeyFile(p) PROVE Shape'
  <2>1. Known' = Known
    BY <1>8, KnownSame DEF WriteKeyFile
  <2>2. /\ newVersion' = newVersion /\ prev' = prev /\ overlapped' = overlapped
        /\ pc[p] = "write" /\ pc'[p] = "find"
        /\ \A q \in Providers : q # p => pc'[q] = pc[q]
    BY <1>8 DEF WriteKeyFile, At, Goto, TypeOK, history
  <2>3. files'[newVersion[p]] # NoKey
    <3>1. drawn + 1 # NoKey
      BY NoKeyAssumption DEF TypeOK
    <3> QED BY <1>3, <1>8, <3>1 DEF WriteKeyFile, TypeOK
  <2>4. RotationShape(p)'
    BY <2>1, <2>2, <2>3 DEF RotationShape, Rotating, At, Shape
  <2>5. ~overlapped' => AloneShape'
    BY <2>1, <2>2 DEF AloneShape, Rotating, At, Shape
  <2> QED BY <1>5, <1>8, <2>1, <2>2, <2>4, <2>5 DEF WriteKeyFile, history
<1>9. ASSUME NEW p \in Providers, GetActive(p) PROVE Shape'
  <2>1. Known' = Known
    BY <1>9, KnownSame DEF GetActive
  <2>2. /\ newVersion' = newVersion /\ files' = files /\ overlapped' = overlapped
        /\ pc[p] = "find" /\ pc'[p] \in {"demote", "create"}
        /\ \A q \in Providers : q # p => pc'[q] = pc[q] /\ prev'[q] = prev[q]
    BY <1>9 DEF GetActive, At, Goto, TypeOK, history
  <2>3. pc'[p] = "demote" => prev'[p] \in Known
    BY <1>9, NoKeyAssumption
       DEF GetActive, Goto, TypeOK, ActiveKeys, Known, KeyStates
  <2>4. RotationShape(p)'
    BY <2>1, <2>2, <2>3 DEF RotationShape, Rotating, At, Shape
  <2>5. ~overlapped' => AloneShape'
    BY <2>1, <2>2 DEF AloneShape, Rotating, At, Shape
  <2> QED BY <1>5, <1>9, <2>1, <2>2, <2>4, <2>5 DEF GetActive, history
<1>10. ASSUME NEW p \in Providers, Demote(p) PROVE Shape'
  <2>1. Known' = Known
    BY <1>10, DemoteEffect
  <2>2. /\ newVersion' = newVersion /\ prev' = prev /\ files' = files
        /\ overlapped' = overlapped
        /\ pc[p] = "demote" /\ pc'[p] = "create"
        /\ \A q \in Providers : q # p => pc'[q] = pc[q]
    BY <1>10 DEF Demote, At, Goto, TypeOK, history
  <2>3. RotationShape(p)'
    BY <2>1, <2>2 DEF RotationShape, Rotating, At, Shape
  <2>4. ~overlapped' => AloneShape'
    BY <2>1, <2>2 DEF AloneShape, Rotating, At, Shape
  <2> QED BY <1>5, <1>10, <2>1, <2>2, <2>3, <2>4 DEF Demote, history
<1>11. ASSUME NEW p \in Providers, Create(p) PROVE Shape'
  <2> DEFINE n == newVersion[p]
  <2>1. Return(p, TRUE) /\ UNCHANGED <<files, using, envelopes, overlapped, wiped>>
    BY <1>11 DEF Create
  <2>2. pc[p] = "create" /\ Known' = Known \cup {n} /\ n \in Versions
    BY <1>11, CreateEffect
  <2>3. files[n] # NoKey /\ (n = 1 \/ n - 1 \in Known)
    BY <2>2 DEF Shape, RotationShape, Rotating, At
  <2>4. KnownAreFirst'
    <3>1. PICK k \in 0 .. NumVersions : Known = 1 .. k
      BY DEF Shape, KnownAreFirst
    <3>2. n \in 1 .. NumVersions /\ n <= k + 1
      BY <2>2, <2>3, <3>1 DEF Versions
    <3> HIDE DEF n
    <3>3. CASE n <= k
      <4>1. Known' = 1 .. k
        BY <2>2, <3>1, <3>2, <3>3
      <4> QED BY <4>1 DEF KnownAreFirst
    <3>4. CASE ~(n <= k)
      <4>1. k + 1 \in 0 .. NumVersions /\ Known' = 1 .. k + 1
        BY <2>2, <3>1, <3>2, <3>4, BoundsAssumption
      <4> QED BY <4>1 DEF KnownAreFirst
    <3> QED BY <3>3, <3>4
  <2>5. \A q \in Providers : RotationShape(q)'
    <3>1. ASSUME NEW q \in Providers, q # p PROVE RotationShape(q)'
      BY <1>1, <1>3, <2>1, <2>2, <3>1, ReturnEffect, RotationStays DEF Shape
    <3>2. RotationShape(p)'
      BY <2>1, ReturnEffect DEF RotationShape
    <3> QED BY <3>1, <3>2
  <2>6. ~overlapped' => AloneShape'
    <3>1. SUFFICES ASSUME ~overlapped PROVE AloneShape'
      BY <2>1
    <3>2. \A q \in Providers : q # p => ~Rotating(q)
      BY <2>2, <3>1 DEF Shape, AloneShape, Rotating, At
    <3>3. \A q \in Providers : ~Rotating(q)'
      BY <2>1, <3>2, ReturnEffect
    <3> QED BY <3>3 DEF AloneShape
  <2>7. FilesShape' /\ UsingShape' /\ EnvelopeShape'
    BY <2>1, <2>2, <2>3 DEF Shape
  <2> QED BY <2>4, <2>5, <2>6, <2>7 DEF Shape
<1>12. ASSUME NEW p \in Providers, RotateFails(p) PROVE Shape'
  <2>1. Return(p, FALSE) /\ UNCHANGED <<states, using, envelopes, overlapped, wiped>>
    BY <1>12 DEF RotateFails
  <2>2. Known' = Known
    BY <2>1, KnownSame
  <2>3. RotationShape(p)'
    BY <2>1, ReturnEffect DEF RotationShape
  <2>4. ~overlapped' => AloneShape'
    BY <2>1, <2>2, ReturnEffect DEF AloneShape, Shape
  <2>5. \A q \in Providers : q # p => pc'[q] = pc[q] /\ newVersion'[q] = newVersion[q]
                                      /\ prev'[q] = prev[q]
    BY <2>1, ReturnEffect
  <2> QED BY <1>5, <2>1, <2>2, <2>3, <2>4, <2>5
<1>13. ASSUME NEW v \in Versions, Revoke(v) PROVE Shape'
  <2>1. Known' = Known
    BY <1>13, RevokeEffect
  <2>2. UNCHANGED <<rotateVars, files, using, envelopes, overlapped, wiped>>
    BY <1>13 DEF Revoke
  <2>3. \A q \in Providers : RotationShape(q)'
    BY <1>1, <1>3, <2>1, <2>2, RotationStays DEF Shape, rotateVars
  <2> QED BY <2>1, <2>2, <2>3
        DEF Shape, KnownAreFirst, AloneShape, Rotating, At, rotateVars
<1>14. ASSUME NEW c \in Clients, CurrentKey(c) PROVE Shape'
  <2>1. PICK v \in ActiveKeys : using' = [using EXCEPT ![c] = v]
    BY <1>14 DEF CurrentKey
  <2>2. v \in Known
    BY NoKeyAssumption DEF ActiveKeys, Known, KeyStates
  <2>3. Known' = Known
    BY <1>14, KnownSame DEF CurrentKey
  <2>4. UsingShape'
    BY <2>1, <2>2, <2>3 DEF Shape, TypeOK
  <2>5. EnvelopeShape'
    BY <1>14, <2>3 DEF CurrentKey, Shape, history
  <2> HIDE DEF UsingShape, EnvelopeShape
  <2> QED BY <1>4, <1>14, <2>4, <2>5 DEF CurrentKey, history
<1>15. ASSUME NEW c \in Clients, Seal(c) PROVE Shape'
  <2>1. Known' = Known
    BY <1>15, KnownSame DEF Seal
  <2>2. using[c] \in Known
    BY <1>15 DEF Seal, Shape
  <2>3. UsingShape'
    BY <1>15, <2>1 DEF Seal, Shape, TypeOK
  <2>4. EnvelopeShape'
    BY <1>15, <2>1, <2>2 DEF Seal, Shape, history
  <2> HIDE DEF UsingShape, EnvelopeShape
  <2> QED BY <1>4, <1>15, <2>3, <2>4 DEF Seal, history
<1>16. CASE Restart
  <2>1. /\ \A q \in Providers : pc'[q] = "idle" /\ ~Rotating(q)'
        /\ \A c \in Clients : using'[c] = NoKey
        /\ durable => Known' = Known
        /\ ~durable => Known' = {}
    BY <1>16, RestartEffect
  <2>2. KnownAreFirst'
    <3>1. CASE durable
      BY <2>1, <3>1 DEF Shape, KnownAreFirst
    <3>2. CASE ~durable
      <4>1. Known' = 1 .. 0 /\ 0 \in 0 .. NumVersions
        BY <2>1, <3>2, BoundsAssumption
      <4> QED BY <4>1 DEF KnownAreFirst
    <3> QED BY <3>1, <3>2
  <2>3. (\A q \in Providers : RotationShape(q)') /\ AloneShape'
    BY <2>1 DEF RotationShape, AloneShape
  <2>4. FilesShape'
    BY <1>1, <1>2, <2>1 DEF Shape
  <2>5. EnvelopeShape'
    <3>1. UNCHANGED envelopes /\ wiped' = (wiped \/ (~durable /\ Known # {}))
      BY <1>16 DEF Restart
    <3>2. SUFFICES ASSUME ~wiped' PROVE \A e \in envelopes : e.version \in Known'
      BY <3>1
    <3>3. ~wiped /\ (durable \/ Known = {})
      BY <3>1, <3>2
    <3> QED BY <2>1, <3>3 DEF Shape
  <2> QED BY <2>1, <2>2, <2>3, <2>4, <2>5 DEF Shape
<1> HIDE DEF FilesShape, UsingShape, EnvelopeShape
<1> QED BY <1>6, <1>7, <1>8, <1>9, <1>10, <1>11, <1>12, <1>13, <1>14, <1>15, <1>16 DEF Next

\* The types and the shape hold at the start.
LEMMA InitShape == Init => TypeOK /\ Shape
<1> SUFFICES ASSUME Init PROVE TypeOK /\ Shape
  OBVIOUS
<1>1. 1 \in Versions /\ 0 \in 0 .. MaxDraws /\ 0 \in 0 .. MaxErrors /\ 0 \in 0 .. MaxRestarts
  BY BoundsAssumption DEF Versions
<1>2. TypeOK
  BY <1>1 DEF Init, TypeOK
<1>3. Known = 1 .. 0 /\ 0 \in 0 .. NumVersions
  BY BoundsAssumption DEF Init, Known
<1>4. KnownAreFirst
  BY <1>3 DEF KnownAreFirst
<1>5. (\A p \in Providers : RotationShape(p)) /\ AloneShape
  BY DEF Init, RotationShape, AloneShape, Rotating, At
<1> QED BY <1>2, <1>3, <1>4, <1>5 DEF Init, Shape

\* The types and the shape hold in every reachable state.
LEMMA ShapeAlways == Spec => [](TypeOK /\ Shape)
  BY InitShape, TypeStep, ShapeStep, PTL DEF Spec

\* The files, the key states and every rotation and encryption in progress are well
\* formed, however rotations overlap, fail and die (FileProvider).
THEOREM TypeCorrect == Spec => []TypeOK
  BY ShapeAlways, PTL

-----------------------------------------------------------------------------
(* The active key.                                                         *)

\* What a step does to the active keys and to the versions known.
LEMMA VersionsChange ==
    ASSUME TypeOK, Shape, [Next]_vars
    PROVE  \/ Known' = Known /\ ActiveKeys' \subseteq ActiveKeys
           \/ \E p \in Providers : Create(p)
           \/ Known' = {} /\ ActiveKeys' = {}
<1>1. CASE states' = states
  BY <1>1, KnownSame
<1>2. CASE states' # states
  <2>1. \/ \E p \in Providers : Demote(p) \/ Create(p)
        \/ \E v \in Versions : Revoke(v)
        \/ Restart
    BY <1>2 DEF Next, vars, Rotate, WriteKeyFile, GetActive, RotateFails, CurrentKey, Seal
  <2> QED BY <2>1, DemoteEffect, RevokeEffect, RestartEffect
<1> QED BY <1>1, <1>2

\* What happened stays on record, and the repository stays the same one.
LEMMA HistoryGrows ==
    ASSUME [Next]_vars
    PROVE  durable' = durable /\ (~overlapped' => ~overlapped) /\ (~wiped' => ~wiped)
<1>1. ASSUME NEW p \in Providers, Rotate(p)
      PROVE  durable' = durable /\ (~overlapped' => ~overlapped) /\ (~wiped' => ~wiped)
  <2>1. durable' = durable /\ wiped' = wiped
    BY <1>1 DEF Rotate
  <2>2. overlapped' = (overlapped \/ \E q \in Providers : Rotating(q))
    BY <1>1 DEF Rotate
  <2> QED BY <2>1, <2>2
<1>2. CASE Restart
  <2>1. durable' = durable /\ overlapped' = overlapped
    BY <1>2 DEF Restart
  <2>2. wiped' = (wiped \/ (~durable /\ Known # {}))
    BY <1>2 DEF Restart
  <2> QED BY <2>1, <2>2
<1>3. CASE UNCHANGED <<durable, overlapped, wiped>>
  BY <1>3
<1> QED BY <1>1, <1>2, <1>3
        DEF Next, vars, history, WriteKeyFile, GetActive, Demote, Create, RotateFails, Revoke,
            CurrentKey, Seal

\* A version that is created in a table, or by a rotation that is alone, is new.
LEMMA CreatedIsNew ==
    ASSUME TypeOK, Shape, NEW p \in Providers, Create(p), durable \/ ~overlapped
    PROVE  newVersion[p] \notin Known
  BY CreateEffect DEF MayCreate, Shape, AloneShape, Rotating, At

\* Every step keeps ActiveIsNewest.
LEMMA NewestStep == TypeOK /\ Shape /\ ActiveIsNewest /\ [Next]_vars => ActiveIsNewest'
<1> SUFFICES ASSUME TypeOK, Shape, ActiveIsNewest, [Next]_vars, durable' \/ ~overlapped',
                    NEW v \in ActiveKeys', NEW w \in Known'
             PROVE  w <= v
  BY DEF ActiveIsNewest
<1>1. durable' = durable /\ (~overlapped' => ~overlapped)
  BY HistoryGrows
<1>2. CASE \E p \in Providers : Create(p)
  <2>1. PICK p \in Providers : Create(p)
    BY <1>2
  <2> DEFINE n == newVersion[p]
  <2>2. Known' = Known \cup {n} /\ ActiveKeys' = {n} /\ n \in Versions /\ pc[p] = "create"
    BY <2>1, CreateEffect
  <2>3. n \notin Known
    BY <1>1, <2>1, CreatedIsNew
  <2>4. n = 1 \/ n - 1 \in Known
    BY <2>2 DEF Shape, RotationShape, Rotating, At
  <2>5. PICK k \in 0 .. NumVersions : Known = 1 .. k
    BY DEF Shape, KnownAreFirst
  <2> HIDE DEF n
  <2> QED BY <2>2, <2>3, <2>4, <2>5 DEF Versions
<1>3. CASE ~\E p \in Providers : Create(p)
  BY <1>1, <1>3, VersionsChange DEF ActiveIsNewest
<1> QED BY <1>2, <1>3

\* In Postgres, and in memory while rotations do not overlap, a rotation that was
\* overtaken never brings an older version back (Rotate, Create).
THEOREM NewestIsActive == Spec => []ActiveIsNewest
<1>1. Init => ActiveIsNewest
  BY NoKeyAssumption DEF Init, ActiveIsNewest, ActiveKeys, KeyStates
<1> QED BY <1>1, ShapeAlways, NewestStep, PTL DEF Spec

\* Every step keeps RotationLeavesKey.
LEMMA LeavesKeyStep == TypeOK /\ Shape /\ RotationLeavesKey /\ [Next]_vars => RotationLeavesKey'
<1> SUFFICES ASSUME TypeOK, Shape, RotationLeavesKey, [Next]_vars, settled', Known' # {},
                    \A p \in Providers : ~Rotating(p)'
             PROVE  ActiveKeys' # {}
  BY DEF RotationLeavesKey
<1>1. CASE states' = states /\ pc' = pc /\ settled' = settled
  BY <1>1, KnownSame DEF RotationLeavesKey, Rotating, At
<1>2. ASSUME NEW p \in Providers, Rotate(p) \/ WriteKeyFile(p) \/ GetActive(p) \/ Demote(p)
      PROVE  FALSE
  BY <1>2 DEF Rotate, WriteKeyFile, GetActive, Demote, Goto, Rotating, At, TypeOK
<1>3. ASSUME NEW p \in Providers, Create(p) PROVE ActiveKeys' # {}
  BY <1>3, CreateEffect
<1>4. ASSUME NEW p \in Providers, RotateFails(p) PROVE FALSE
  BY <1>4 DEF RotateFails, Return
<1>5. ASSUME NEW v \in Versions, Revoke(v) PROVE ActiveKeys' # {}
  <2>1. settled /\ states[v] # "active" /\ pc' = pc
    BY <1>5 DEF Revoke, rotateVars
  <2>2. ActiveKeys' = ActiveKeys /\ Known' = Known
    BY <1>5, <2>1, RevokeEffect DEF ActiveKeys
  <2> QED BY <2>1, <2>2 DEF RotationLeavesKey, Rotating, At
<1>6. CASE Restart
  <2>1. settled /\ \A p \in Providers : ~Rotating(p)
    BY <1>6 DEF Restart
  <2>2. durable /\ Known' = Known /\ ActiveKeys' = ActiveKeys
    BY <1>6, RestartEffect
  <2> QED BY <2>1, <2>2 DEF RotationLeavesKey
<1> QED BY <1>1, <1>2, <1>3, <1>4, <1>5, <1>6 DEF Next, vars, rotateVars, history, CurrentKey, Seal

\* If the last rotation to end came to its end and its key was not revoked since, the
\* tenant has an active key, however providers overlap and rotations fail (Rotate).
THEOREM RotationsLeaveKey == Spec => []RotationLeavesKey
<1>1. Init => RotationLeavesKey
  BY DEF Init, RotationLeavesKey, Known
<1> QED BY <1>1, ShapeAlways, LeavesKeyStep, PTL DEF Spec

-----------------------------------------------------------------------------
(* Revocation.                                                             *)

\* No rotation writes to a version that was revoked.
LEMMA StruckStep == TypeOK /\ Shape /\ StruckInv /\ [Next]_vars => StruckInv'
<1> SUFFICES ASSUME TypeOK, Shape, StruckInv, [Next]_vars,
                    durable' \/ (~overlapped' /\ ~wiped'), NEW v \in struck'
             PROVE  /\ states'[v] = "revoked"
                    /\ \A p \in Providers : pc'[p] = "demote" => prev'[p] # v
  BY DEF StruckInv
<1>1. durable' = durable /\ (~overlapped' => ~overlapped) /\ (~wiped' => ~wiped)
  BY HistoryGrows
<1>2. v \in struck => /\ states[v] = "revoked"
                      /\ \A p \in Providers : pc[p] = "demote" => prev[p] # v
  BY <1>1 DEF StruckInv
<1>3. struck' = struck \/ \E w \in Versions : Revoke(w)
  BY DEF Next, vars, history, Rotate, WriteKeyFile, GetActive, Demote, Create, RotateFails,
         CurrentKey, Seal, Restart
<1>4. v \in Versions
  BY <1>3 DEF Revoke, TypeOK
<1>5. CASE UNCHANGED <<states, rotateVars, struck>>
  BY <1>2, <1>5 DEF rotateVars
<1>6. ASSUME NEW p \in Providers, Rotate(p) \/ WriteKeyFile(p)
      PROVE  /\ states'[v] = "revoked"
             /\ \A q \in Providers : pc'[q] = "demote" => prev'[q] # v
  <2>1. /\ states' = states /\ prev' = prev /\ struck' = struck /\ pc'[p] # "demote"
        /\ \A q \in Providers : q # p => pc'[q] = pc[q]
    BY <1>6 DEF Rotate, WriteKeyFile, Goto, TypeOK, history
  <2> QED BY <1>2, <2>1
<1>7. ASSUME NEW p \in Providers, GetActive(p)
      PROVE  /\ states'[v] = "revoked"
             /\ \A q \in Providers : pc'[q] = "demote" => prev'[q] # v
  <2>1. /\ states' = states /\ struck' = struck
        /\ \A q \in Providers : q # p => pc'[q] = pc[q] /\ prev'[q] = prev[q]
        /\ pc'[p] = "demote" => states[prev'[p]] = "active"
    BY <1>7 DEF GetActive, ActiveKeys, Goto, TypeOK, history
  <2> QED BY <1>2, <2>1
<1>8. ASSUME NEW p \in Providers, Demote(p)
      PROVE  /\ states'[v] = "revoked"
             /\ \A q \in Providers : pc'[q] = "demote" => prev'[q] # v
  <2>1. /\ struck' = struck /\ prev' = prev /\ pc[p] = "demote" /\ pc'[p] = "create"
        /\ \A q \in Providers : q # p => pc'[q] = pc[q]
        /\ states' = [states EXCEPT ![prev[p]] = "retired"]
    BY <1>8 DEF Demote, At, Goto, TypeOK, history
  <2> QED BY <1>2, <1>4, <2>1 DEF TypeOK
<1>9. ASSUME NEW p \in Providers, Create(p)
      PROVE  /\ states'[v] = "revoked"
             /\ \A q \in Providers : pc'[q] = "demote" => prev'[q] # v
  <2>1. /\ struck' = struck /\ Return(p, TRUE)
        /\ states' = [states EXCEPT ![newVersion[p]] = "active"]
    BY <1>9 DEF Create
  <2>2. newVersion[p] \notin Known
    BY <1>1, <1>9, CreatedIsNew
  <2>3. states[v] = "revoked" /\ v \in Known
    BY <1>2, <1>4, <2>1, NoKeyAssumption DEF Known, KeyStates
  <2> QED BY <1>2, <1>4, <2>1, <2>2, <2>3, ReturnEffect DEF TypeOK
<1>10. ASSUME NEW p \in Providers, RotateFails(p)
       PROVE  /\ states'[v] = "revoked"
              /\ \A q \in Providers : pc'[q] = "demote" => prev'[q] # v
  <2>1. struck' = struck /\ states' = states /\ Return(p, FALSE)
    BY <1>10 DEF RotateFails
  <2> QED BY <1>2, <2>1, ReturnEffect
<1>11. ASSUME NEW w \in Versions, Revoke(w)
       PROVE  /\ states'[v] = "revoked"
              /\ \A q \in Providers : pc'[q] = "demote" => prev'[q] # v
  <2>1. /\ UNCHANGED rotateVars
        /\ states' = [states EXCEPT ![w] = "revoked"]
        /\ struck' = IF \E p \in Providers : At(p, "demote") /\ prev[p] = w
                     THEN struck ELSE struck \cup {w}
    BY <1>11 DEF Revoke
  <2> QED BY <1>2, <1>4, <2>1 DEF TypeOK, rotateVars, At
<1>12. CASE Restart
  <2>1. struck' = struck /\ \A q \in Providers : pc'[q] = "idle"
    BY <1>12, RestartEffect DEF Restart
  <2>2. v \in Known
    BY <1>2, <1>4, <2>1, NoKeyAssumption DEF Known, KeyStates
  <2>3. durable \/ wiped'
    BY <1>12, <2>2 DEF Restart
  <2>4. states' = states
    BY <1>1, <1>12, <2>3 DEF Restart
  <2> QED BY <1>2, <2>1, <2>4
<1> QED BY <1>5, <1>6, <1>7, <1>8, <1>9, <1>10, <1>11, <1>12
        DEF Next, vars, history, CurrentKey, Seal

\* A key that was revoked when no rotation had read it as active stays revoked, in
\* Postgres whatever overlaps, in memory until the rows are lost or replaced
\* (Revoke, UpdateState, Create).
THEOREM RevokedStaysRevoked == Spec => []RevocationSticks
<1>1. Init => StruckInv
  BY DEF Init, StruckInv
<1>2. TypeOK /\ StruckInv => RevocationSticks
  BY DEF TypeOK, StruckInv, RevocationSticks
<1> QED BY <1>1, <1>2, ShapeAlways, StruckStep, PTL DEF Spec

-----------------------------------------------------------------------------
(* Envelopes.                                                              *)

\* Every step keeps EnvelopesOpen.
LEMMA OpenStep == TypeOK /\ Shape /\ Shape' /\ EnvelopesOpen /\ [Next]_vars => EnvelopesOpen'
<1> SUFFICES ASSUME TypeOK, Shape, Shape', EnvelopesOpen, [Next]_vars, ~overlapped', ~wiped',
                    NEW e \in envelopes'
             PROVE  files'[e.version] = e.material
  BY DEF EnvelopesOpen, Opens, Shape
<1>1. ~overlapped /\ ~wiped
  BY HistoryGrows
<1>2. \A d \in envelopes : files[d.version] = d.material
  BY <1>1 DEF EnvelopesOpen, Opens
<1>3. CASE UNCHANGED <<files, envelopes>>
  BY <1>2, <1>3
<1>4. ASSUME NEW p \in Providers, WriteKeyFile(p) PROVE files'[e.version] = e.material
  <2>1. /\ envelopes' = envelopes /\ pc[p] = "write"
        /\ files' = [files EXCEPT ![newVersion[p]] = drawn + 1]
    BY <1>4 DEF WriteKeyFile, At
  <2>2. newVersion[p] \notin Known /\ e.version \in Known
    BY <1>1, <2>1 DEF Shape, AloneShape, Rotating, At
  <2>3. e.version \in Versions
    BY <2>2 DEF Known
  <2> QED BY <1>2, <2>1, <2>2, <2>3 DEF TypeOK
<1>5. ASSUME NEW c \in Clients, Seal(c) PROVE files'[e.version] = e.material
  <2>1. /\ files' = files
        /\ envelopes' = envelopes \cup {[version |-> using[c], material |-> files[using[c]]]}
    BY <1>5 DEF Seal
  <2> QED BY <1>2, <2>1
<1> QED BY <1>3, <1>4, <1>5
        DEF Next, vars, Rotate, GetActive, Demote, Create, RotateFails, Revoke, CurrentKey,
            Restart

\* What was encrypted stays decryptable whatever keys are retired and revoked and
\* whatever rotations fail midway: a file that is written is that of a version no
\* envelope names, unless rotations overlap or the metadata is lost (Rotate, Encrypt).
THEOREM EnvelopesStayOpen == Spec => []EnvelopesOpen
<1>1. Init => EnvelopesOpen
  BY DEF Init, EnvelopesOpen
<1> QED BY <1>1, ShapeAlways, OpenStep, PTL DEF Spec

=============================================================================
