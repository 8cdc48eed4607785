--------------------------- MODULE PostgresProofs ---------------------------
(***************************************************************************)
(* What holds of the PostgreSQL operations and of the two tools that keep   *)
(* rows in it, for any number of runs.  Migrations: versions are applied    *)
(* once, whole, in order, and never again.  Backups: a dump that is there   *)
(* is whole, and a restore test tells the truth.  Model evidence: a row of  *)
(* the inbox is what a capture observed.  Model registry: the evaluation    *)
(* that scores a candidate is one, and never falls back.                    *)
(***************************************************************************)
EXTENDS Migrations, Backups, ModelEvidence, ModelRegistry, FiniteSetTheorems, TLAPS

\* The types of the variables, and where an active run is.
Typed ==
    /\ released \in (SUBSET File) \ {{}} /\ disk \in [File -> Text]
    /\ rows \in [File -> 0..Texts] /\ effect \in [File -> Seq(Text)]
    /\ at \in [Migrator -> 0..Files] /\ listed \in [Migrator -> SUBSET File]
    /\ checksum \in [Migrator -> 0..Texts] /\ body \in [Migrator -> 0..Texts]
    /\ edited \subseteq Migrator \X File /\ disturbed \subseteq edited
PhaseTyped ==
    phase \in [Migrator -> Over \cup {"checksum", "ask", "pipe", "insert", "commit"}]
Placed ==
    \A n \in Migrator : phase[n] \notin Over =>
        /\ at[n] \in listed[n]
        /\ phase[n] # "checksum" => checksum[n] \in Text
        /\ phase[n] \in {"insert", "commit"} => body[n] \in Text

LEMMA TypeParts == MigrationsTypeOK <=> Typed /\ PhaseTyped /\ Placed
  BY DEF MigrationsTypeOK, Typed, PhaseTyped, Placed, Active

\* A run that is active is at one of the files.
LEMMA AtIsFile ==
  ASSUME MigrationsTypeOK, NEW m \in Migrator, phase[m] \notin Over
  PROVE  at[m] \in File /\ at[m] \in listed[m]
BY DEF MigrationsTypeOK, Active

LEMMA FilesAreNumbers == File \subseteq Int /\ File \subseteq 0..Files
BY MigrationsAssumption DEF File

\* Advance goes on to a file of the list after which it had none before, or ends.
LEMMA AdvanceCases ==
  ASSUME MigrationsTypeOK, NEW m \in Migrator, phase[m] \notin Over, Advance(m)
  PROVE  /\ \A n \in Migrator \ {m} : phase'[n] = phase[n] /\ at'[n] = at[n]
         /\ \/ /\ phase'[m] = "checksum" /\ at'[m] \in listed[m]
               /\ \A g \in listed[m] : g < at'[m] => g <= at[m]
            \/ /\ phase'[m] = "current" /\ at' = at
               /\ \A g \in listed[m] : g <= at[m]
<1>1. at[m] \in Int /\ \A g \in listed[m] : g \in Int
  BY AtIsFile, FilesAreNumbers DEF MigrationsTypeOK
<1> DEFINE rest == {f \in listed[m] : at[m] < f}
<1>2. \A g \in listed[m] : g \notin rest => g <= at[m]
  BY <1>1
<1>3. CASE \E f \in rest : /\ \A g \in rest : f <= g
                           /\ at' = [at EXCEPT ![m] = f]
                           /\ GoTo(m, "checksum")
  <2>1. PICK f \in rest : /\ \A g \in rest : f <= g
                          /\ at' = [at EXCEPT ![m] = f]
                          /\ GoTo(m, "checksum")
    BY <1>3
  <2>2. /\ phase'[m] = "checksum" /\ at'[m] = f /\ f \in listed[m]
        /\ \A n \in Migrator \ {m} : phase'[n] = phase[n] /\ at'[n] = at[n]
    BY <2>1 DEF GoTo, MigrationsTypeOK
  <2>3. ASSUME NEW g \in listed[m], g < f
        PROVE  g \notin rest
    BY <1>1, <2>1, <2>3
  <2> QED
    BY <1>2, <2>2, <2>3
<1>4. CASE rest = {} /\ GoTo(m, "current") /\ UNCHANGED at
  BY <1>2, <1>4 DEF GoTo, MigrationsTypeOK
<1> QED
  BY <1>3, <1>4 DEF Advance

\* Advance leaves a run at a file of its list.
LEMMA AdvanceType ==
  ASSUME MigrationsTypeOK, NEW m \in Migrator, phase[m] \notin Over, Advance(m),
         UNCHANGED <<listed, checksum, body>>
  PROVE  at' \in [Migrator -> 0..Files] /\ PhaseTyped' /\ Placed'
<1>2. at' \in [Migrator -> 0..Files]
  BY FilesAreNumbers DEF Advance, MigrationsTypeOK
<1>3. PhaseTyped'
  BY DEF Advance, GoTo, MigrationsTypeOK, PhaseTyped, Over
<1>4. Placed'
  BY AdvanceCases DEF MigrationsTypeOK, Over, Active, Placed
<1>5. QED
  BY <1>2, <1>3, <1>4

\* Every variable of the runs of migrate.sh has its type in every reachable state.
THEOREM MigrationsType == MigrationsSpec => []MigrationsTypeOK
<1>1. MigrationsInit => MigrationsTypeOK
  <2> SUFFICES ASSUME MigrationsInit PROVE MigrationsTypeOK
    OBVIOUS
  <2>1. <<>> \in Seq(Text) /\ 1 \in Text
    BY MigrationsAssumption DEF Text
  <2>2. Typed
    BY <2>1, MigrationsAssumption DEF MigrationsInit, Typed
  <2>3. PhaseTyped /\ Placed
    BY DEF MigrationsInit, PhaseTyped, Placed, Over
  <2>4. QED
    BY <2>2, <2>3, TypeParts
<1>2. MigrationsTypeOK /\ [MigrationsNext]_migrationsVars => MigrationsTypeOK'
  <2> SUFFICES ASSUME MigrationsTypeOK, [MigrationsNext]_migrationsVars
               PROVE  MigrationsTypeOK'
    OBVIOUS
  <2> USE DEF repository, database, run
  <2>0. Typed /\ PhaseTyped /\ Placed
    BY TypeParts
  <2>t. (Typed /\ PhaseTyped /\ Placed)' => MigrationsTypeOK'
    BY DEF MigrationsTypeOK, Typed, PhaseTyped, Placed, Active
  <2>1. ASSUME NEW m \in Migrator, Begin(m) PROVE MigrationsTypeOK'
    <3>1. PICK f \in released : at' = [at EXCEPT ![m] = f]
      BY <2>1 DEF Begin
    <3>2. Typed'
      BY <2>0, <2>1, <3>1, FilesAreNumbers DEF Begin, Typed
    <3>3. PhaseTyped'
      BY <2>0, <2>1 DEF Begin, GoTo, PhaseTyped
    <3>4. Placed'
      BY <2>0, <2>1, <3>1 DEF Begin, GoTo, Placed, Typed, PhaseTyped
    <3>5. QED
      BY <3>2, <3>3, <3>4, <2>t
  <2>2. ASSUME NEW m \in Migrator, Checksum(m) PROVE MigrationsTypeOK'
    <3>1. disk[at[m]] \in Text /\ disk[at[m]] \in 0..Texts
      <4>1. at[m] \in File
        BY <2>2, AtIsFile DEF Checksum, Over
      <4>2. disk[at[m]] \in Text
        BY <2>0, <4>1 DEF Typed
      <4>3. QED
        BY <4>2, MigrationsAssumption DEF Text
    <3>2. Typed'
      BY <2>0, <2>2, <3>1 DEF Checksum, Typed
    <3>3. PhaseTyped' /\ Placed'
      BY <2>0, <2>2, <3>1 DEF Checksum, GoTo, PhaseTyped, Placed, Typed, Over
    <3>4. QED
      BY <3>2, <3>3, <2>t
  <2>3. ASSUME NEW m \in Migrator, Ask(m) PROVE MigrationsTypeOK'
    <3>1. CASE UNCHANGED at
      <4>1. PhaseTyped' /\ Placed'
        <5>1. CASE GoTo(m, "pipe") \/ GoTo(m, "failed")
          BY <2>0, <2>3, <3>1, <5>1 DEF Ask, GoTo, PhaseTyped, Placed, Over
        <5>2. CASE Advance(m)
          BY <2>3, <5>2, AdvanceType DEF Ask, Over
        <5>3. QED
          BY <2>3, <5>1, <5>2 DEF Ask
      <4>2. Typed'
        BY <2>0, <2>3, <3>1 DEF Ask, Typed
      <4>3. QED
        BY <4>1, <4>2, <2>t
    <3>2. CASE Advance(m)
      <4>1. at' \in [Migrator -> 0..Files] /\ PhaseTyped' /\ Placed'
        BY <2>3, <3>2, AdvanceType DEF Ask, Over
      <4>2. Typed'
        BY <2>0, <2>3, <4>1 DEF Ask, Typed
      <4>3. QED
        BY <4>1, <4>2, <2>t
    <3>3. QED
      BY <2>3, <3>1, <3>2 DEF Ask
  <2>4. ASSUME NEW m \in Migrator, Pipe(m) PROVE MigrationsTypeOK'
    <3>1. disk[at[m]] \in Text /\ disk[at[m]] \in 0..Texts
      <4>1. at[m] \in File
        BY <2>4, AtIsFile DEF Pipe, Over
      <4>2. disk[at[m]] \in Text
        BY <2>0, <4>1 DEF Typed
      <4>3. QED
        BY <4>2, MigrationsAssumption DEF Text
    <3>2. Typed'
      BY <2>0, <2>4, <3>1 DEF Pipe, Typed
    <3>3. PhaseTyped' /\ Placed'
      BY <2>0, <2>4, <3>1 DEF Pipe, GoTo, PhaseTyped, Placed, Typed, Over
    <3>4. QED
      BY <3>2, <3>3, <2>t
  <2>5. ASSUME NEW m \in Migrator, Insert(m) PROVE MigrationsTypeOK'
    <3>1. Typed'
      BY <2>0, <2>5 DEF Insert, Typed
    <3>2. PhaseTyped' /\ Placed'
      BY <2>0, <2>5 DEF Insert, GoTo, PhaseTyped, Placed, Over
    <3>3. QED
      BY <3>1, <3>2, <2>t
  <2>6. ASSUME NEW m \in Migrator, Commit(m) PROVE MigrationsTypeOK'
    <3>1. at' \in [Migrator -> 0..Files] /\ PhaseTyped' /\ Placed'
      <4>1. CASE Advance(m)
        BY <2>6, <4>1, AdvanceType DEF Commit, Over
      <4>2. CASE GoTo(m, "failed") /\ UNCHANGED at
        BY <2>0, <2>6, <4>2 DEF Commit, GoTo, Typed, PhaseTyped, Placed, Over
      <4>3. QED
        BY <2>6, <4>1, <4>2 DEF Commit
    <3>2. rows' \in [File -> 0..Texts]
      BY <2>0, <2>6 DEF Commit, Typed
    <3>3. effect' \in [File -> Seq(Text)]
      <4>1. body[m] \in Text
        BY <2>0, <2>6 DEF Commit, Placed, Over
      <4>2. ASSUME NEW q \in Seq(Text) PROVE Append(q, body[m]) \in Seq(Text)
        BY <4>1
      <4>3. effect' = [effect EXCEPT ![at[m]] = Append(effect[at[m]], body[m])]
        BY <2>6 DEF Commit
      <4>4. QED
        BY <2>0, <4>2, <4>3 DEF Typed
    <3>4. QED
      BY <2>0, <2>6, <3>1, <3>2, <3>3, <2>t DEF Commit, Typed
  <2>7. ASSUME NEW m \in Migrator, Fail(m) PROVE MigrationsTypeOK'
    <3>1. Typed'
      BY <2>0, <2>7 DEF Fail, Typed
    <3>2. PhaseTyped' /\ Placed'
      BY <2>0, <2>7 DEF Fail, GoTo, PhaseTyped, Placed, Over, Active
    <3>3. QED
      BY <3>1, <3>2, <2>t
  <2>8. CASE Deploy
    <3>1. PhaseTyped' /\ Placed'
      BY <2>0, <2>8 DEF Deploy, PhaseTyped, Placed
    <3>2. Typed'
      <4>1. ASSUME NEW f \in released, NEW t \in Text, disk' = [disk EXCEPT ![f] = t],
                   disturbed' = disturbed \cup
                        {<<m, f>> : m \in {n \in Migrator : at[n] = f /\ phase[n] \in {"ask", "pipe"}}},
                   edited' = edited \cup {<<m, f>> : m \in {n \in Migrator : phase[n] # "absent"}},
                   UNCHANGED <<released, database, run>>
            PROVE  Typed'
        <5>1. f \in File
          BY <2>0 DEF Typed
        <5>2. edited' \subseteq Migrator \X File /\ disturbed' \subseteq edited'
          BY <2>0, <4>1, <5>1 DEF Typed
        <5>3. QED
          BY <2>0, <4>1, <5>2 DEF Typed
      <4>2. CASE \E f \in File \ released : /\ released' = released \cup {f}
                                            /\ UNCHANGED <<disk, database, run, disturbed, edited>>
        <5>1. PICK f \in File \ released : /\ released' = released \cup {f}
                                            /\ UNCHANGED <<disk, database, run, disturbed, edited>>
          BY <4>2
        <5>2. released' \subseteq File /\ f \in released'
          BY <2>0, <5>1 DEF Typed
        <5>3. QED
          BY <2>0, <5>1, <5>2 DEF Typed
      <4>3. QED
        BY <2>8, <4>1, <4>2 DEF Deploy
    <3>3. QED
      BY <3>1, <3>2, <2>t
  <2>9. CASE UNCHANGED migrationsVars
    <3>1. (Typed /\ PhaseTyped /\ Placed)'
      BY <2>0, <2>9 DEF migrationsVars, Typed, PhaseTyped, Placed
    <3>2. QED
      BY <3>1, <2>t
  <2>10. QED
    BY <2>1, <2>2, <2>3, <2>4, <2>5, <2>6, <2>7, <2>8, <2>9 DEF MigrationsNext
<1>3. QED
  BY <1>1, <1>2, PTL DEF MigrationsSpec
----------------------------------------------------------------------------
\* The files that a run has found in the database or has put there.
Passed(m) ==
    {f \in listed[m] : phase[m] = "current" \/ (phase[m] \notin Over /\ f < at[m])}

Edited(m, f)    == <<m, f>> \in edited
Disturbed(m, f) == <<m, f>> \in disturbed

\* Who waits for its COMMIT has the version to itself, and it has no entry.
CommitIsFree ==
    \A m \in Migrator : phase[m] = "commit" =>
        /\ rows[at[m]] = 0
        /\ \A n \in Migrator \ {m} : ~(phase[n] = "commit" /\ at[n] = at[m])

\* What a run has read is what is on disk, as long as nobody edits it.
ChecksumTaken ==
    \A m \in Migrator : phase[m] \in {"ask", "pipe", "insert", "commit"} =>
        /\ checksum[m] = disk[at[m]] \/ Edited(m, at[m])
        /\ phase[m] \in {"ask", "pipe"} => checksum[m] = disk[at[m]] \/ Disturbed(m, at[m])
BodyTaken ==
    \A m \in Migrator : phase[m] \in {"insert", "commit"} =>
        body[m] = checksum[m] \/ Disturbed(m, at[m])

PassedApplied ==
    \A m \in Migrator : \A f \in Passed(m) :
        rows[f] # 0 /\ (rows[f] = disk[f] \/ Edited(m, f))

\* One execution of a version for each entry, of the text it says.
OneEffect ==
    \A f \in File :
        /\ rows[f] = 0 => effect[f] = <<>>
        /\ rows[f] # 0 => \E t \in Text :
              effect[f] = <<t>> /\ (t = rows[f] \/ \E m \in Migrator : Disturbed(m, f))

\* A run that has not begun has found nothing.
Unlisted == \A m \in Migrator : phase[m] = "absent" => listed[m] = {}

MInv == /\ Unlisted /\ CommitIsFree /\ ChecksumTaken /\ BodyTaken
        /\ PassedApplied /\ OneEffect /\ AppliedInOrder

\* A step that leaves the database alone, and of one run changes no more than
\* where it is, without moving it on to another file, disturbs nothing.
LEMMA QuietStep ==
  ASSUME MigrationsTypeOK, MInv, NEW m \in Migrator,
         UNCHANGED <<rows, effect, disk, disturbed, edited, at, listed>>,
         NEW p, GoTo(m, p), p \notin {"absent", "current", "commit"},
         \A n \in Migrator \ {m} : checksum'[n] = checksum[n] /\ body'[n] = body[n],
         p \in {"ask", "pipe", "insert"} =>
            phase[m] \notin Over /\ (checksum'[m] = disk[at[m]] \/ Edited(m, at[m])),
         p \in {"ask", "pipe"} => checksum'[m] = disk[at[m]] \/ Disturbed(m, at[m]),
         p = "insert" => body'[m] = checksum'[m] \/ Disturbed(m, at[m]),
         p \notin Over => phase[m] \notin Over
  PROVE  MInv'
<1> USE DEF MInv
<1>p. phase' = [phase EXCEPT ![m] = p] /\ phase \in [Migrator -> Over \cup
            {"checksum", "ask", "pipe", "insert", "commit"}]
  BY DEF GoTo, MigrationsTypeOK
<1>1. CommitIsFree' /\ Unlisted'
  BY <1>p DEF CommitIsFree, Unlisted, Over
<1>2. ChecksumTaken'
  BY <1>p DEF ChecksumTaken, Edited, Disturbed
<1>3. BodyTaken'
  BY <1>p DEF BodyTaken, Disturbed
<1>4. PassedApplied'
  <2> SUFFICES ASSUME NEW n \in Migrator, NEW f \in Passed(n)'
               PROVE  (rows[f] # 0 /\ (rows[f] = disk[f] \/ Edited(n, f)))'
    BY DEF PassedApplied
  <2>1. f \in Passed(n)
    BY <1>p DEF Passed
  <2>2. QED
    BY <2>1 DEF PassedApplied, Edited
<1>5. OneEffect' /\ AppliedInOrder'
  BY DEF OneEffect, AppliedInOrder, Disturbed
<1>6. QED
  BY <1>1, <1>2, <1>3, <1>4, <1>5

\* A run goes on to its next file, or ends, when the one it is at is applied.
LEMMA AdvanceStep ==
  ASSUME MigrationsTypeOK, MInv, NEW m \in Migrator, Advance(m), phase[m] \notin Over,
         UNCHANGED <<disk, disturbed, edited, listed, checksum, body>>,
         rows'[at[m]] # 0, rows'[at[m]] = disk[at[m]] \/ Edited(m, at[m]),
         \A f \in File : rows[f] # 0 => rows'[f] = rows[f],
         \A n \in Migrator \ {m} : phase[n] = "commit" => rows'[at[n]] = rows[at[n]]
  PROVE  Unlisted' /\ CommitIsFree' /\ ChecksumTaken' /\ BodyTaken' /\ PassedApplied'
<1> USE DEF MInv
<1>1. /\ phase'[m] \in {"checksum", "current"}
      /\ \A n \in Migrator \ {m} : phase'[n] = phase[n] /\ at'[n] = at[n]
  BY AdvanceCases
<1>2. CommitIsFree' /\ Unlisted'
  BY <1>1 DEF CommitIsFree, Unlisted
<1>3. ChecksumTaken' /\ BodyTaken'
  BY <1>1 DEF ChecksumTaken, BodyTaken, Edited, Disturbed
<1>4. PassedApplied'
  <2> SUFFICES ASSUME NEW n \in Migrator, NEW f \in Passed(n)'
               PROVE  (rows[f] # 0 /\ (rows[f] = disk[f] \/ Edited(n, f)))'
    BY DEF PassedApplied
  <2>1. \A g \in Passed(n) : g \in File
    BY DEF Passed, MigrationsTypeOK
  <2>2. CASE n # m
    BY <2>1, <2>2, <1>1 DEF Passed, PassedApplied, Edited
  <2>3. CASE n = m
    <3>1. f \in listed[m] /\ f <= at[m]
      BY <2>3, AdvanceCases DEF Passed, Over
    <3>2. CASE f = at[m]
      BY <2>3, <3>2 DEF Edited
    <3>3. CASE f # at[m]
      <4>1. f \in Passed(m)
        <5>1. f \in Int /\ at[m] \in Int
          BY <3>1, AtIsFile, FilesAreNumbers DEF MigrationsTypeOK
        <5> QED
          BY <3>1, <3>3, <5>1 DEF Passed
      <4>2. QED
        BY <2>1, <2>3, <4>1 DEF PassedApplied, Edited
    <3>4. QED
      BY <3>2, <3>3
  <2>4. QED
    BY <2>2, <2>3
<1>5. QED
  BY <1>2, <1>3, <1>4

LEMMA MigrationsInvariant == MigrationsSpec => []MInv
<1>1. MigrationsInit => MInv
  BY DEF MigrationsInit, MInv, Unlisted, CommitIsFree, ChecksumTaken, BodyTaken, PassedApplied,
         Passed, Over, OneEffect, AppliedInOrder
<1>2. MigrationsTypeOK /\ MInv /\ [MigrationsNext]_migrationsVars => MInv'
  <2> SUFFICES ASSUME MigrationsTypeOK, MInv, [MigrationsNext]_migrationsVars
               PROVE  MInv'
    OBVIOUS
  <2> USE DEF repository, database, run
  <2>1. ASSUME NEW m \in Migrator, Begin(m) PROVE MInv'
    <3> USE DEF MInv
    <3>1. PICK b \in released : /\ \A g \in released : b <= g
                               /\ at' = [at EXCEPT ![m] = b]
      BY <2>1 DEF Begin
    <3>2. /\ phase'[m] = "checksum" /\ at'[m] = b /\ listed'[m] = released /\ phase[m] = "absent"
          /\ \A n \in Migrator \ {m} : /\ phase'[n] = phase[n] /\ at'[n] = at[n]
                                        /\ listed'[n] = listed[n]
      BY <2>1, <3>1 DEF Begin, GoTo, MigrationsTypeOK
    <3>3. Unlisted' /\ CommitIsFree' /\ ChecksumTaken' /\ BodyTaken'
      BY <2>1, <3>2 DEF Begin, Unlisted, CommitIsFree, ChecksumTaken, BodyTaken, Edited, Disturbed
    <3>4. PassedApplied'
      <4> SUFFICES ASSUME NEW n \in Migrator, NEW f \in Passed(n)'
                   PROVE  (rows[f] # 0 /\ (rows[f] = disk[f] \/ Edited(n, f)))'
        BY DEF PassedApplied
      <4>1. n # m
        <5>1. \A g \in released : ~(g < b)
          BY <3>1, FilesAreNumbers DEF MigrationsTypeOK
        <5>2. QED
          BY <3>2, <5>1 DEF Passed
      <4>2. QED
        BY <2>1, <4>1, <3>2 DEF Begin, Passed, PassedApplied, Edited
    <3>5. AppliedInOrder'
      <4>1. UNCHANGED rows
        BY <2>1 DEF Begin
      <4>2. ASSUME NEW f \in File, rows[f] # 0
            PROVE  \E n \in Migrator : f \in listed'[n] /\ \A g \in listed'[n] : g < f => rows[g] # 0
        <5>1. PICK n \in Migrator : f \in listed[n] /\ \A g \in listed[n] : g < f => rows[g] # 0
          BY <4>2 DEF AppliedInOrder
        <5>2. n # m
          BY <3>2, <5>1 DEF Unlisted
        <5>3. QED
          BY <3>2, <5>1, <5>2
      <4>3. QED
        BY <4>1, <4>2 DEF AppliedInOrder
    <3>6. QED
      BY <2>1, <3>3, <3>4, <3>5 DEF Begin, OneEffect, Disturbed
  <2>2. ASSUME NEW m \in Migrator, Checksum(m) PROVE MInv'
    <3>1. checksum'[m] = disk[at[m]]
      BY <2>2 DEF Checksum, MigrationsTypeOK
    <3>2. QED
      BY <2>2, <3>1, QuietStep DEF Checksum, Over, MigrationsTypeOK
  <2>3. ASSUME NEW m \in Migrator, Ask(m) PROVE MInv'
    <3>1. checksum[m] = disk[at[m]] \/ Edited(m, at[m])
      BY <2>3 DEF Ask, MInv, ChecksumTaken
    <3>a. checksum[m] = disk[at[m]] \/ Disturbed(m, at[m])
      BY <2>3 DEF Ask, MInv, ChecksumTaken
    <3>2. CASE GoTo(m, "pipe") /\ UNCHANGED at
      BY <2>3, <3>1, <3>a, <3>2, QuietStep DEF Ask, Over
    <3>3. CASE GoTo(m, "failed") /\ UNCHANGED at
      BY <2>3, <3>3, QuietStep DEF Ask, Over
    <3>4. CASE rows[at[m]] = checksum[m] /\ Advance(m)
      <4>1. rows[at[m]] # 0
        <5>1. checksum[m] \in Text
          BY <2>3 DEF Ask, MigrationsTypeOK, Active, Over
        <5>2. QED
          BY <3>4, <5>1, MigrationsAssumption DEF Text
      <4>2. Unlisted' /\ CommitIsFree' /\ ChecksumTaken' /\ BodyTaken' /\ PassedApplied'
        BY <2>3, <3>1, <3>4, <4>1, AdvanceStep DEF Ask, Over
      <4>3. OneEffect' /\ AppliedInOrder'
        BY <2>3 DEF Ask, MInv, OneEffect, AppliedInOrder, Disturbed
      <4>4. QED
        BY <4>2, <4>3 DEF MInv
    <3>5. QED
      BY <2>3, <3>2, <3>3, <3>4 DEF Ask
  <2>4. ASSUME NEW m \in Migrator, Pipe(m) PROVE MInv'
    <3>1. /\ checksum[m] = disk[at[m]] \/ Edited(m, at[m])
          /\ checksum[m] = disk[at[m]] \/ Disturbed(m, at[m])
      BY <2>4 DEF Pipe, MInv, ChecksumTaken
    <3>2. body'[m] = disk[at[m]] /\ \A n \in Migrator \ {m} : body'[n] = body[n]
      BY <2>4 DEF Pipe, MigrationsTypeOK
    <3>3. QED
      BY <2>4, <3>1, <3>2, QuietStep DEF Pipe, Over
  <2>5. ASSUME NEW m \in Migrator, Insert(m) PROVE MInv'
    <3>1. CASE rows[at[m]] # 0
      BY <2>5, <3>1, QuietStep DEF Insert, Over
    <3>2. CASE rows[at[m]] = 0
      <4> USE DEF MInv
      <4>1. phase'[m] = "commit" /\ \A n \in Migrator \ {m} : phase'[n] = phase[n]
        BY <2>5, <3>2 DEF Insert, GoTo, MigrationsTypeOK
      <4>2. CommitIsFree' /\ Unlisted'
        BY <2>5, <3>2, <4>1 DEF Insert, CommitIsFree, Unlisted
      <4>3. ChecksumTaken' /\ BodyTaken'
        BY <2>5, <4>1 DEF Insert, ChecksumTaken, BodyTaken, Edited, Disturbed
      <4>4. PassedApplied'
        <5> SUFFICES ASSUME NEW n \in Migrator, NEW f \in Passed(n)'
                     PROVE  (rows[f] # 0 /\ (rows[f] = disk[f] \/ Edited(n, f)))'
          BY DEF PassedApplied
        <5>1. f \in Passed(n)
          BY <2>5, <4>1 DEF Insert, Passed, Over
        <5>2. QED
          BY <2>5, <5>1 DEF Insert, PassedApplied, Edited
      <4>5. QED
        BY <2>5, <4>2, <4>3, <4>4 DEF Insert, OneEffect, AppliedInOrder, Disturbed
    <3>3. QED
      BY <3>1, <3>2
  <2>6. ASSUME NEW m \in Migrator, Commit(m) PROVE MInv'
    <3> DEFINE f == at[m]
    <3>0. /\ phase[m] = "commit" /\ phase[m] \notin Over /\ f \in File /\ f \in 1..Files
          /\ rows[f] = 0 /\ checksum[m] \in Text /\ body[m] \in Text
          /\ checksum[m] # 0 /\ effect[f] = <<>>
      <4>1. phase[m] = "commit" /\ phase[m] \notin Over
        BY <2>6 DEF Commit, Over
      <4>2. f \in File
        BY <4>1, AtIsFile
      <4>3. checksum[m] \in Text /\ body[m] \in Text
        BY <4>1 DEF MigrationsTypeOK, Active
      <4>4. rows[f] = 0 /\ effect[f] = <<>>
        BY <4>1, <4>2 DEF MInv, CommitIsFree, OneEffect
      <4>5. QED
        BY <4>1, <4>2, <4>3, <4>4, MigrationsAssumption DEF Text, File
    <3>1. /\ rows'[f] = checksum[m] /\ effect'[f] = <<body[m]>>
          /\ \A g \in File \ {f} : rows'[g] = rows[g] /\ effect'[g] = effect[g]
      <4>1. rows' = [rows EXCEPT ![f] = checksum[m]]
            /\ effect' = [effect EXCEPT ![f] = Append(effect[f], body[m])]
        BY <2>6 DEF Commit
      <4>2. Append(effect[f], body[m]) = <<body[m]>>
        BY <3>0
      <4>3. QED
        BY <3>0, <4>1, <4>2 DEF MigrationsTypeOK
    <3>2. \A n \in Migrator \ {m} : phase[n] = "commit" => at[n] # f /\ at[n] \in File
      BY <3>0, AtIsFile DEF MInv, CommitIsFree, Over
    <3>3. checksum[m] = disk[f] \/ Edited(m, f)
      BY <3>0 DEF MInv, ChecksumTaken
    <3>4. Unlisted' /\ CommitIsFree' /\ ChecksumTaken' /\ BodyTaken' /\ PassedApplied'
      <4>1. CASE Advance(m)
        BY <2>6, <4>1, <3>0, <3>1, <3>2, <3>3, AdvanceStep DEF Commit
      <4>2. CASE GoTo(m, "failed") /\ UNCHANGED at
        <5> USE DEF MInv
        <5>1. phase'[m] = "failed" /\ \A n \in Migrator \ {m} : phase'[n] = phase[n]
          BY <4>2 DEF GoTo, MigrationsTypeOK
        <5>2. CommitIsFree' /\ Unlisted'
          BY <2>6, <4>2, <5>1, <3>1, <3>2 DEF Commit, CommitIsFree, Unlisted
        <5>3. ChecksumTaken' /\ BodyTaken'
          BY <2>6, <4>2, <5>1 DEF Commit, ChecksumTaken, BodyTaken, Edited, Disturbed
        <5>4. PassedApplied'
          <6> SUFFICES ASSUME NEW n \in Migrator, NEW g \in Passed(n)'
                       PROVE  (rows[g] # 0 /\ (rows[g] = disk[g] \/ Edited(n, g)))'
            BY DEF PassedApplied
          <6>1. g \in Passed(n)
            BY <2>6, <4>2, <5>1 DEF Commit, Passed, Over
          <6>2. g \in File
            BY <6>1 DEF Passed, MigrationsTypeOK
          <6>3. rows[g] # 0 /\ (rows[g] = disk[g] \/ Edited(n, g))
            BY <6>1 DEF PassedApplied
          <6>4. QED
            BY <2>6, <6>2, <6>3, <3>0, <3>1 DEF Commit, Edited
        <5>5. QED
          BY <5>2, <5>3, <5>4
      <4>3. QED
        BY <2>6, <4>1, <4>2 DEF Commit
    <3>5. OneEffect'
      <4> SUFFICES ASSUME NEW g \in File
                   PROVE  (/\ rows[g] = 0 => effect[g] = <<>>
                           /\ rows[g] # 0 => \E t \in Text : effect[g] = <<t>> /\
                                 (t = rows[g] \/ \E n \in Migrator : Disturbed(n, g)))'
        BY DEF OneEffect
      <4>1. CASE g = f
        <5>1. body[m] = checksum[m] \/ Disturbed(m, f)
          BY <3>0 DEF MInv, BodyTaken
        <5>2. disturbed' = disturbed
          BY <2>6 DEF Commit
        <5>3. QED
          BY <4>1, <5>1, <5>2, <3>0, <3>1 DEF Disturbed
      <4>2. CASE g # f
        BY <2>6, <4>2, <3>1 DEF Commit, MInv, OneEffect, Disturbed
      <4>3. QED
        BY <4>1, <4>2
    <3>6. AppliedInOrder'
      <4>1. listed' = listed /\ \A n \in Migrator : listed[n] \subseteq File
        BY <2>6 DEF Commit, MigrationsTypeOK
      <4>2. \A g \in File : rows[g] # 0 => rows'[g] # 0
        BY <3>0, <3>1
      <4>3. ASSUME NEW g \in File, rows'[g] # 0
            PROVE  \E n \in Migrator : g \in listed[n] /\ \A h \in listed[n] : h < g => rows'[h] # 0
        <5>1. CASE g # f
          <6>1. PICK n \in Migrator : g \in listed[n] /\ \A h \in listed[n] : h < g => rows[h] # 0
            BY <4>3, <5>1, <3>1 DEF MInv, AppliedInOrder
          <6>2. QED
            BY <6>1, <4>1, <4>2
        <5>2. CASE g = f
          <6>1. f \in listed[m]
            BY <3>0, AtIsFile
          <6>2. \A h \in listed[m] : h < f => h \in Passed(m)
            BY <3>0 DEF Passed
          <6>3. \A h \in listed[m] : h < f => rows[h] # 0
            BY <6>2 DEF MInv, PassedApplied
          <6>4. QED
            BY <5>2, <6>1, <6>3, <4>1, <4>2
        <5>3. QED
          BY <5>1, <5>2
      <4>4. QED
        BY <4>1, <4>3 DEF AppliedInOrder
    <3>7. QED
      BY <3>4, <3>5, <3>6 DEF MInv
  <2>7. ASSUME NEW m \in Migrator, Fail(m) PROVE MInv'
    BY <2>7, QuietStep DEF Fail, Over
  <2>8. CASE Deploy
    <3> USE DEF MInv
    <3> DEFINE Recorded ==
          /\ disturbed \subseteq disturbed' /\ edited \subseteq edited'
          /\ \A f \in File : \A n \in Migrator :
                disk'[f] = disk[f] \/ phase[n] = "absent" \/ <<n, f>> \in edited'
          /\ \A f \in File : \A n \in Migrator : at[n] = f /\ phase[n] \in {"ask", "pipe"} =>
                disk'[f] = disk[f] \/ <<n, f>> \in disturbed'
    <3>1. Recorded
      <4>1. CASE disk' = disk /\ UNCHANGED <<disturbed, edited>>
        BY <4>1
      <4>2. ASSUME NEW g \in released, NEW u \in Text, disk' = [disk EXCEPT ![g] = u],
                   disturbed' = disturbed \cup
                        {<<m, g>> : m \in {n \in Migrator : at[n] = g /\ phase[n] \in {"ask", "pipe"}}},
                   edited' = edited \cup {<<m, g>> : m \in {n \in Migrator : phase[n] # "absent"}}
            PROVE  Recorded
        BY <4>2 DEF MigrationsTypeOK
      <4>3. QED
        BY <2>8, <4>1, <4>2 DEF Deploy
    <3>2. UNCHANGED <<rows, effect, phase, at, listed, checksum, body>>
      BY <2>8 DEF Deploy
    <3>3. ASSUME NEW n \in Migrator, phase[n] \notin Over PROVE at[n] \in File
      BY <3>3, AtIsFile
    <3>4. Unlisted' /\ CommitIsFree' /\ BodyTaken' /\ OneEffect' /\ AppliedInOrder'
      BY <3>1, <3>2 DEF Unlisted, CommitIsFree, BodyTaken, OneEffect, AppliedInOrder, Disturbed
    <3>5. ChecksumTaken'
      BY <3>1, <3>2, <3>3 DEF ChecksumTaken, Edited, Disturbed, Over
    <3>6. PassedApplied'
      <4> SUFFICES ASSUME NEW n \in Migrator, NEW f \in Passed(n)'
                   PROVE  (rows[f] # 0 /\ (rows[f] = disk[f] \/ Edited(n, f)))'
        BY DEF PassedApplied
      <4>1. f \in Passed(n) /\ phase[n] # "absent"
        BY <3>2 DEF Passed, Over
      <4>2. f \in File
        BY <4>1 DEF Passed, MigrationsTypeOK
      <4>3. rows[f] # 0 /\ (rows[f] = disk[f] \/ Edited(n, f))
        BY <4>1 DEF PassedApplied
      <4>4. QED
        BY <3>1, <3>2, <4>1, <4>2, <4>3 DEF Edited
    <3>7. QED
      BY <3>4, <3>5, <3>6
  <2>9. CASE UNCHANGED migrationsVars
    BY <2>9 DEF migrationsVars, MInv, Unlisted, CommitIsFree, ChecksumTaken, BodyTaken,
                PassedApplied, Passed, OneEffect, AppliedInOrder, Edited, Disturbed
  <2>10. QED
    BY <2>1, <2>2, <2>3, <2>4, <2>5, <2>6, <2>7, <2>8, <2>9 DEF MigrationsNext
<1>3. QED
  BY <1>1, <1>2, MigrationsType, PTL DEF MigrationsSpec
----------------------------------------------------------------------------
\* However many runs overlap, fail or are repeated, a version has been executed
\* exactly once if it has its entry, and not at all if it has none.
THEOREM AppliesOnce == MigrationsSpec => []AppliedOnce
<1>1. MInv => AppliedOnce
  <2> SUFFICES ASSUME MInv, NEW f \in File
               PROVE  Len(effect[f]) = IF rows[f] = 0 THEN 0 ELSE 1
    BY DEF AppliedOnce
  <2>1. CASE rows[f] = 0
    BY <2>1 DEF MInv, OneEffect
  <2>2. CASE rows[f] # 0
    <3>1. PICK t \in Text : effect[f] = <<t>>
      BY <2>2 DEF MInv, OneEffect
    <3>2. QED
      BY <2>2, <3>1
  <2>3. QED
    BY <2>1, <2>2
<1>2. QED
  BY <1>1, MigrationsInvariant, PTL

\* Versions are applied in the order of their files, as the run that applies them has
\* found them.
THEOREM AppliesInOrder == MigrationsSpec => []AppliedInOrder
<1>1. MInv => AppliedInOrder
  BY DEF MInv
<1>2. QED
  BY <1>1, MigrationsInvariant, PTL

\* An entry tells what was executed, unless its file was edited between the two times
\* that a run read it.
THEOREM EntriesAreTrue == MigrationsSpec => []EntryIsTrue
<1>1. MInv => EntryIsTrue
  BY DEF MInv, OneEffect, EntryIsTrue, Disturbed
<1>2. QED
  BY <1>1, MigrationsInvariant, PTL

\* "database migrations are current" holds of every file that the run has found.
THEOREM CurrentIsCurrent == MigrationsSpec => []CurrentIsTrue
<1>1. MInv => CurrentIsTrue
  <2>1. \A m \in Migrator : phase[m] = "current" => \A f \in listed[m] : f \in Passed(m)
    BY DEF Passed
  <2>2. QED
    BY <2>1 DEF MInv, PassedApplied, CurrentIsTrue, Edited
<1>2. QED
  BY <1>1, MigrationsInvariant, PTL

\* All four of them, which is what the run checks.
THEOREM MigrationsSafe == MigrationsSpec => []MigrationsAreSound
<1>1. AppliedOnce /\ AppliedInOrder /\ EntryIsTrue /\ CurrentIsTrue => MigrationsAreSound
  BY DEF MigrationsAreSound
<1>2. QED
  BY <1>1, AppliesOnce, AppliesInOrder, EntriesAreTrue, CurrentIsCurrent, PTL

\* No step applies an applied version again, changes it or takes it away.
THEOREM AppliedStays == MigrationsSpec => NeverReapplied
<1>1. MigrationsTypeOK /\ MInv /\ [MigrationsNext]_migrationsVars =>
        [\A f \in File : rows[f] # 0 => rows'[f] = rows[f] /\ effect'[f] = effect[f]
          ]_migrationsVars
  <2> SUFFICES ASSUME MigrationsTypeOK, MInv, MigrationsNext, NEW f \in File, rows[f] # 0
               PROVE  rows'[f] = rows[f] /\ effect'[f] = effect[f]
    BY DEF MInv
  <2>1. ASSUME NEW m \in Migrator, Commit(m) PROVE rows'[f] = rows[f] /\ effect'[f] = effect[f]
    <3>1. at[m] # f
      BY <2>1 DEF Commit, MInv, CommitIsFree
    <3>2. QED
      BY <2>1, <3>1 DEF Commit, MigrationsTypeOK
  <2>2. CASE \E m \in Migrator : \/ Begin(m) \/ Checksum(m) \/ Ask(m) \/ Pipe(m)
                                 \/ Insert(m) \/ Fail(m)
    BY <2>2 DEF Begin, Checksum, Ask, Pipe, Insert, Fail, database
  <2>3. CASE Deploy
    BY <2>3 DEF Deploy, database
  <2>4. QED
    BY <2>1, <2>2, <2>3 DEF MigrationsNext
<1>2. QED
  BY <1>1, MigrationsType, MigrationsInvariant, PTL DEF MigrationsSpec, NeverReapplied
----------------------------------------------------------------------------
(***************************************************************************)
(* Backups.  Names lead to inodes, and an inode is of the second of the     *)
(* run that made it; so a run that has its second to itself is the only     *)
(* one that touches its dump, from the open file to the digest.             *)
(***************************************************************************)
Stamped ==
    /\ \A r \in Backup :
          /\ stage[r] = "absent" <=> stamp[r] = 0
          /\ stage[r] = "absent" => file[r] = 0
          /\ stage[r] \in {"dump", "validate", "promote"} => file[r] # 0
          /\ file[r] # 0 => stamp[file[r]] = stamp[r]
          /\ stage[r] \in {"digest", "sum", "done"} => final[stamp[r]] # 0
    /\ \A s \in Second : /\ partial[s] # 0 => stamp[partial[s]] = s
                         /\ final[s] # 0 => stamp[final[s]] = s
                         /\ digest[s] # None => final[s] # 0

\* The run has its second to itself.
Only(r) == stamp[r] # 0 /\ \A q \in Backup : stamp[q] = stamp[r] => q = r

DumpStands(r) ==
    LET s == stamp[r]
    IN  /\ stage[r] = "open" => partial[s] = 0 /\ final[s] = 0
        /\ stage[r] = "dump" => partial[s] = r /\ file[r] = r /\ content[r] = Nothing /\ final[s] = 0
        /\ stage[r] \in {"validate", "promote"} => partial[s] = r /\ content[r] = r /\ final[s] = 0
        /\ final[s] # 0 => content[r] \in {r, Altered} /\ stage[r] \in {"digest", "sum", "done", "failed"}
        /\ digest[s] \in {None, Nothing, r, Altered}

\* A test that is not mixed is alone with the container.
AloneInside(t) ==
    /\ \A u \in ActiveTest : u = t
    /\ test[t] = "up" => container \in {None, Nothing}
    /\ test[t] = "restore" => container = Nothing

\* And it restores the dump that the digest is taken of, before or after it.
TestStands(t) ==
    LET s == target[t]
        r == final[s]
    IN  /\ test[t] \in Testing =>
              /\ AloneInside(t)
              /\ Only(r) => /\ digest[s] \in {None, Nothing, content[r]}
                            /\ test[t] = "count" => container = content[r]
        /\ test[t] = "passed" /\ Only(r) =>
              \/ found[t] = r /\ snapshot[r]
              \/ content[r] = Altered /\ digest[s] # r

Restored ==
    /\ \A t \in Test : test[t] \in Testing \cup {"passed"} =>
          target[t] \in Second /\ final[target[t]] # 0
    /\ \A t \in Test \ mixed : TestStands(t)

BackupsInv ==
    /\ BackupsTypeOK /\ Stamped /\ ContainerIsRemoved
    /\ \A r \in Backup : Only(r) => DumpStands(r)
    /\ Restored

RunActs(r) == \/ BeginBackup(r) \/ Open(r) \/ Dump(r) \/ Validate(r) \/ Promote(r)
              \/ Digest(r) \/ FailBackup(r)
TestActs(t) == BeginTest(t) \/ Container(t) \/ Restore(t) \/ Count(t) \/ FailTest(t)

LEMMA RunsAreNumbers ==
  /\ Backup \subseteq Nat \ {0} /\ Second \subseteq Nat \ {0} /\ Backups \in Nat /\ Seconds \in Nat
  /\ Backup \cap {None, Nothing, Torn, Altered} = {}
  /\ 0..Backups = Backup \cup {0} /\ 0..Seconds = Second \cup {0} /\ 1 \in Second
BY BackupsAssumption DEF Backup, Second, None, Nothing, Torn, Altered

\* What Alone says of a second is what Only says of its run.
LEMMA AloneIsOnly ==
  ASSUME BackupsTypeOK, NEW s \in Second, Alone(s)
  PROVE  \E r \in Backup : stamp[r] = s /\ Only(r)
<1> DEFINE S == {r \in Backup : stamp[r] = s}
<1>1. IsFiniteSet(Backup)
  BY FS_Interval, BackupsAssumption DEF Backup
<1>2. IsFiniteSet(S)
  BY <1>1, FS_Subset
<1>3. PICK r : S = {r}
  BY <1>2, FS_Singleton DEF Alone
<1>4. s # 0
  BY RunsAreNumbers
<1>5. QED
  BY <1>3, <1>4 DEF Only

LEMMA BackupsStart == BackupsInit => BackupsInv
<1> SUFFICES ASSUME BackupsInit PROVE BackupsInv
  OBVIOUS
<1>0. /\ 0 \in 0..Seconds /\ 0 \in 0..Backups /\ 1 \in Second
      /\ Nothing \in Content \ {None} /\ None \in Content
  BY RunsAreNumbers DEF Content, None, Nothing
<1>1. BackupsTypeOK
  BY <1>0 DEF BackupsInit, BackupsTypeOK
<1>2. Stamped /\ ContainerIsRemoved
  BY RunsAreNumbers DEF BackupsInit, Stamped, ContainerIsRemoved
<1>3. \A r \in Backup : ~Only(r)
  BY DEF BackupsInit, Only
<1>4. Restored
  BY DEF BackupsInit, Restored, TestStands, Testing
<1>5. QED
  BY <1>1, <1>2, <1>3, <1>4 DEF BackupsInv

\* The variables keep their types.
LEMMA RunTyped ==
  ASSUME BackupsTypeOK, Stamped, NEW r \in Backup, RunActs(r)
  PROVE  BackupsTypeOK'
<1>0. stamp[r] \in Second \/ stage[r] = "absent"
  BY RunsAreNumbers DEF BackupsTypeOK, Stamped
<1>1. /\ stage' \in [Backup -> Unfinished \cup {"absent", "done", "failed"}]
      /\ stamp' \in [Backup -> 0..Seconds] /\ file' \in [Backup -> 0..Backups]
      /\ snapshot' \in [Backup -> BOOLEAN]
  <2>1. now \in 0..Seconds /\ r \in 0..Backups
    BY RunsAreNumbers DEF BackupsTypeOK
  <2>2. stage' \in [Backup -> Unfinished \cup {"absent", "done", "failed"}]
    BY DEF BackupsTypeOK, RunActs, BeginBackup, Open, Dump, Validate, Promote, Digest, FailBackup,
           Unfinished, Writing
  <2>3. stamp' \in [Backup -> 0..Seconds] /\ snapshot' \in [Backup -> BOOLEAN]
    BY <2>1 DEF BackupsTypeOK, RunActs, BeginBackup, Open, Dump, Validate, Promote, Digest, FailBackup
  <2>4. file' \in [Backup -> 0..Backups]
    BY <1>0, <2>1 DEF BackupsTypeOK, RunActs, BeginBackup, Open, Dump, Validate, Promote, Digest, FailBackup
  <2>5. QED
    BY <2>2, <2>3, <2>4
<1>2. partial' \in [Second -> 0..Backups] /\ final' \in [Second -> 0..Backups]
  <2>1. r \in 0..Backups /\ 0 \in 0..Backups
    BY RunsAreNumbers
  <2>2. partial' \in [Second -> 0..Backups]
    BY <1>0, <2>1 DEF BackupsTypeOK, RunActs, BeginBackup, Open, Dump, Validate, Promote, Digest,
                      FailBackup, directory
  <2>3. final' \in [Second -> 0..Backups]
    BY <1>0, <2>1 DEF BackupsTypeOK, RunActs, BeginBackup, Open, Dump, Validate, Promote, Digest,
                      FailBackup, directory
  <2>4. QED
    BY <2>2, <2>3
<1>3. content' \in [Backup -> Content \ {None}]
  <2>1. Nothing \in Content \ {None} /\ Torn \in Content \ {None} /\ r \in Content \ {None}
    BY RunsAreNumbers DEF Content, None, Nothing, Torn
  <2>2. QED
    BY <2>1 DEF BackupsTypeOK, RunActs, BeginBackup, Open, Dump, Validate, Promote, Digest,
                FailBackup, directory
<1>4. digest' \in [Second -> Content]
  <2>1. CASE Digest(r)
    <3>1. Nothing \in Content
      BY DEF Content
    <3>2. stage[r] = "sum" => content[final[stamp[r]]] \in Content
      <4>1. ASSUME stage[r] = "sum" PROVE final[stamp[r]] \in Backup
        BY <1>0, <4>1, RunsAreNumbers DEF BackupsTypeOK, Stamped
      <4>2. QED
        BY <4>1 DEF BackupsTypeOK
    <3>3. QED
      BY <2>1, <3>1, <3>2 DEF BackupsTypeOK, Digest
  <2>2. CASE ~Digest(r)
    BY <2>2 DEF BackupsTypeOK, RunActs, BeginBackup, Open, Dump, Validate, Promote, FailBackup, directory
  <2>3. QED
    BY <2>1, <2>2
<1>5. UNCHANGED <<now, migrated, test, target, container, found, stuck>> /\ mixed' \subseteq Test
  BY DEF BackupsTypeOK, RunActs, BeginBackup, Open, Dump, Validate, Promote, Digest, FailBackup,
         restoreTest, ActiveTest
<1>6. QED
  BY <1>1, <1>2, <1>3, <1>4, <1>5 DEF BackupsTypeOK

LEMMA TestTyped ==
  ASSUME BackupsTypeOK, Restored, NEW t \in Test, TestActs(t)
  PROVE  BackupsTypeOK'
<1>1. test' \in [Test -> Testing \cup {"absent", "passed", "failed"}]
  BY DEF BackupsTypeOK, TestActs, BeginTest, Container, Restore, Count, FailTest, Testing
<1>2. target' \in [Test -> 0..Seconds]
  BY RunsAreNumbers DEF BackupsTypeOK, TestActs, BeginTest, Container, Restore, Count, FailTest
<1>3. container' \in Content
  <2>1. None \in Content /\ Nothing \in Content /\ Torn \in Content /\ container \in Content
    BY DEF BackupsTypeOK, Content
  <2>2. CASE Restore(t)
    <3>1. final[target[t]] \in Backup
      BY <2>2, RunsAreNumbers DEF BackupsTypeOK, Restored, Restore, Testing
    <3>2. content[final[target[t]]] \in Content
      BY <3>1 DEF BackupsTypeOK
    <3>3. QED
      BY <2>1, <2>2, <3>2 DEF Restore
  <2>3. CASE ~Restore(t)
    BY <2>1, <2>3 DEF TestActs, BeginTest, Container, Count, FailTest, Removed, Stays, Halfway
  <2>4. QED
    BY <2>2, <2>3
<1>4. found' \in [Test -> Content]
  BY DEF BackupsTypeOK, TestActs, BeginTest, Container, Restore, Count, FailTest
<1>5. mixed' \subseteq Test /\ stuck' \in BOOLEAN
  BY DEF BackupsTypeOK, TestActs, BeginTest, Container, Restore, Count, FailTest, ActiveTest,
         Removed
<1>6. UNCHANGED <<now, migrated, backup, directory>>
  BY DEF TestActs, BeginTest, Container, Restore, Count, FailTest
<1>7. QED
  BY <1>1, <1>2, <1>3, <1>4, <1>5, <1>6 DEF BackupsTypeOK, backup, directory

LEMMA EnvironmentTyped ==
  ASSUME BackupsTypeOK, Environment
  PROVE  BackupsTypeOK'
<1>1. CASE now < Seconds /\ now' = now + 1 /\ UNCHANGED <<migrated, backup, directory, restoreTest>>
  <2>1. now' \in Second
    BY <1>1, BackupsAssumption DEF BackupsTypeOK, Second
  <2>2. QED
    BY <1>1, <2>1 DEF BackupsTypeOK, backup, directory, restoreTest
<1>2. CASE migrated' = TRUE /\ UNCHANGED <<now, backup, directory, restoreTest>>
  BY <1>2 DEF BackupsTypeOK, backup, directory, restoreTest
<1>3. ASSUME NEW s \in Second, content' = [content EXCEPT ![final[s]] = Altered],
             mixed' = mixed \cup {t \in ActiveTest : target[t] = s},
             UNCHANGED <<now, migrated, backup, partial, final, digest, test, target, container,
                         found, stuck>>
      PROVE  BackupsTypeOK'
  <2>1. Altered \in Content \ {None}
    BY RunsAreNumbers DEF Content, Altered, None
  <2>2. content' \in [Backup -> Content \ {None}] /\ mixed' \subseteq Test
    BY <1>3, <2>1 DEF BackupsTypeOK, ActiveTest
  <2>3. QED
    BY <1>3, <2>2 DEF BackupsTypeOK, backup
<1>4. QED
  BY <1>1, <1>2, <1>3 DEF Environment

LEMMA StampedKept ==
  ASSUME BackupsTypeOK, Stamped, NEW r \in Backup, RunActs(r)
  PROVE  Stamped'
<1> DEFINE s == stamp[r]
<1>0. /\ s \in Second \/ stage[r] = "absent"
      /\ r # 0 /\ now # 0 /\ now \in Second
      /\ \A q \in Backup : q \in 0..Backups /\ q # 0
      /\ 0..Backups = Backup \cup {0} /\ 0..Seconds = Second \cup {0} /\ 0 \notin Second
  BY RunsAreNumbers DEF BackupsTypeOK, Stamped
<1>1. CASE BeginBackup(r)
  <2>1. /\ s = 0 /\ file[r] = 0 /\ stamp' = [stamp EXCEPT ![r] = now]
        /\ stage' = [stage EXCEPT ![r] = "open"]
        /\ UNCHANGED <<file, partial, final, digest>>
        /\ \A q \in Backup : file[q] # r
        /\ \A x \in Second : partial[x] # r /\ final[x] # r
    <3>1. s = 0
      BY <1>1 DEF BeginBackup, Stamped
    <3>2. \A q \in Backup : file[q] # r
      BY <1>0, <3>1 DEF Stamped
    <3>3. \A x \in Second : partial[x] # r /\ final[x] # r
      BY <1>0, <3>1 DEF Stamped
    <3>4. QED
      <4>1. file[r] = 0
        BY <1>1 DEF BeginBackup, Stamped
      <4>2. QED
        BY <1>1, <3>1, <3>2, <3>3, <4>1 DEF BeginBackup, directory
  <2>2. QED
    BY <1>0, <2>1 DEF BackupsTypeOK, Stamped
<1>2. CASE ~BeginBackup(r)
  <2>1. /\ stamp' = stamp /\ s \in Second /\ stage[r] # "absent" /\ stage'[r] # "absent"
        /\ \A q \in Backup \ {r} : stage'[q] = stage[q] /\ file'[q] = file[q]
    BY <1>0, <1>2 DEF BackupsTypeOK, RunActs, Open, Dump, Validate, Promote, Digest, FailBackup,
                      Unfinished, Writing
  <2>2. \A x \in Second \ {s} : partial'[x] = partial[x] /\ final'[x] = final[x]
    BY <1>2 DEF BackupsTypeOK, RunActs, Open, Dump, Validate, Promote, Digest, FailBackup, directory
  <2>3. /\ partial'[s] \in {0, r, partial[s]}
        /\ final'[s] \in {final[s], partial[s]} /\ (final[s] # 0 => final'[s] # 0)
        /\ stage'[r] \in {"digest", "sum", "done"} => final'[s] # 0
        /\ digest'[s] # None => final'[s] # 0
        /\ \A x \in Second \ {s} : digest'[x] = digest[x]
    BY <1>2, <2>1 DEF BackupsTypeOK, RunActs, Open, Dump, Validate, Promote, Digest, FailBackup, directory, Stamped
  <2>4. /\ file'[r] \in {file[r], r, partial[s]}
        /\ stage'[r] \in {"dump", "validate", "promote"} => file'[r] # 0
        /\ file'[r] = 0 \/ file'[r] = file[r] \/ file'[r] = r \/ (partial[s] # 0 /\ file'[r] = partial[s])
    BY <1>0, <1>2, <2>1 DEF BackupsTypeOK, RunActs, Open, Dump, Validate, Promote, Digest, FailBackup, Stamped
  <2>5. \A x \in Second : /\ partial'[x] # 0 => stamp[partial'[x]] = x
                          /\ final'[x] # 0 => stamp[final'[x]] = x
                          /\ digest'[x] # None => final'[x] # 0
    BY <2>1, <2>2, <2>3 DEF Stamped
  <2>6. file'[r] # 0 => stamp[file'[r]] = s
    BY <2>1, <2>4 DEF Stamped
  <2>7. ASSUME NEW q \in Backup
        PROVE  /\ stage'[q] = "absent" <=> stamp'[q] = 0
               /\ stage'[q] = "absent" => file'[q] = 0
               /\ stage'[q] \in {"dump", "validate", "promote"} => file'[q] # 0
               /\ file'[q] # 0 => stamp'[file'[q]] = stamp'[q]
               /\ stage'[q] \in {"digest", "sum", "done"} => final'[stamp'[q]] # 0
    <3>1. CASE q = r
      BY <1>0, <2>1, <2>3, <2>4, <2>6, <3>1
    <3>2. CASE q # r
      <4>1. stage[q] \in {"digest", "sum", "done"} => stamp[q] \in Second
        BY <1>0 DEF BackupsTypeOK, Stamped
      <4>2. QED
        BY <2>1, <2>2, <2>3, <3>2, <4>1 DEF Stamped
    <3>3. QED
      BY <3>1, <3>2
  <2>8. QED
    BY <2>1, <2>5, <2>7 DEF Stamped
<1>3. QED
  BY <1>1, <1>2

\* A run does not touch the dump of one that has its second to itself.
LEMMA RunsApart ==
  ASSUME BackupsInv, NEW r \in Backup, RunActs(r), NEW x \in Backup \ {r}, Only(x)'
  PROVE  /\ Only(x) /\ stamp[x] \in Second
         /\ stamp'[x] = stamp[x] /\ stage'[x] = stage[x] /\ file'[x] = file[x]
         /\ snapshot'[x] = snapshot[x] /\ content'[x] = content[x]
         /\ partial'[stamp[x]] = partial[stamp[x]] /\ final'[stamp[x]] = final[stamp[x]]
         /\ digest'[stamp[x]] = digest[stamp[x]]
<1>0. /\ \A q \in Backup \ {r} : stamp'[q] = stamp[q] /\ stage'[q] = stage[q] /\ file'[q] = file[q]
      /\ snapshot'[x] = snapshot[x]
  BY DEF BackupsInv, BackupsTypeOK, RunActs, BeginBackup, Open, Dump, Validate, Promote, Digest, FailBackup
<1>1. \/ BeginBackup(r) /\ stamp[r] = 0
      \/ ~BeginBackup(r) /\ stamp' = stamp /\ stamp[r] # 0
  BY DEF BackupsInv, Stamped, RunActs, BeginBackup, Open, Dump, Validate, Promote, Digest, FailBackup,
         Unfinished, Writing
<1>2. stamp[r] # stamp[x] /\ stamp[x] # 0
  BY <1>0, <1>1 DEF Only
<1>3. Only(x)
  BY <1>0, <1>1, <1>2 DEF Only
<1>4. stamp[x] \in Second /\ (stamp[r] # 0 => stamp[r] \in Second)
  BY <1>2, RunsAreNumbers DEF BackupsInv, BackupsTypeOK
<1>5. CASE BeginBackup(r)
  BY <1>0, <1>3, <1>4, <1>5 DEF BeginBackup, directory
<1>6. CASE ~BeginBackup(r)
  <2>1. /\ partial'[stamp[x]] = partial[stamp[x]] /\ final'[stamp[x]] = final[stamp[x]]
        /\ digest'[stamp[x]] = digest[stamp[x]]
    BY <1>2, <1>4, <1>6 DEF BackupsInv, BackupsTypeOK, RunActs, Open, Dump, Validate, Promote, Digest,
                            FailBackup, directory
  <2>2. /\ partial[stamp[r]] # 0 => partial[stamp[r]] # x
        /\ file[r] # 0 => file[r] # x
    BY <1>1, <1>2, <1>4, <1>6 DEF BackupsInv, Stamped
  <2>3. content'[x] = content[x]
    <3>1. CASE Open(r)
      BY <2>2, <3>1 DEF BackupsInv, BackupsTypeOK, Open
    <3>2. CASE Dump(r)
      BY <2>2, <3>2 DEF BackupsInv, BackupsTypeOK, Stamped, Dump
    <3>3. CASE ~Open(r) /\ ~Dump(r)
      BY <1>6, <3>3 DEF RunActs, Validate, Promote, Digest, FailBackup, directory
    <3>4. QED
      BY <3>1, <3>2, <3>3
  <2>4. QED
    BY <1>0, <1>3, <1>4, <2>1, <2>3
<1>7. QED
  BY <1>5, <1>6

\* What a run that has its second to itself does with its dump.
LEMMA DumpKept ==
  ASSUME BackupsInv, NEW r \in Backup, RunActs(r), NEW x \in Backup, Only(x)'
  PROVE  DumpStands(x)'
<1> USE DEF BackupsInv
<1>1. CASE x # r
  <2>1. Only(x) /\ DumpStands(x)
    BY <1>1, RunsApart
  <2>2. QED
    BY <1>1, <2>1, RunsApart DEF DumpStands
<1>2. ASSUME x = r PROVE DumpStands(r)'
  <2> DEFINE s == stamp[r]
  <2>0. r # 0 /\ now \in Second /\ now # 0
    BY RunsAreNumbers DEF BackupsTypeOK
  <2>1. CASE BeginBackup(r)
    <3>1. /\ stamp' = [stamp EXCEPT ![r] = now] /\ stage'[r] = "open" /\ UNCHANGED directory
          /\ stamp[r] = 0
      BY <2>1 DEF BackupsTypeOK, BeginBackup, Stamped
    <3>2. partial[now] = 0 /\ final[now] = 0
      <4>1. \A q \in Backup : stamp[q] # now
        BY <1>2, <2>0, <3>1 DEF BackupsTypeOK, Only
      <4>2. QED
        BY <2>0, <4>1, RunsAreNumbers DEF BackupsTypeOK, Stamped
    <3>3. digest[now] = None
      BY <2>0, <3>2 DEF Stamped
    <3>4. QED
      BY <3>1, <3>2, <3>3 DEF BackupsTypeOK, directory, DumpStands
  <2>2. CASE ~BeginBackup(r)
    <3>1. /\ stamp' = stamp /\ s \in Second /\ Only(r) /\ DumpStands(r)
          /\ content[r] \in Content \ {None} /\ partial[s] \in {0, r} /\ final[s] \in {0, r}
          /\ file[r] \in {0, r}
      <4>1. stamp' = stamp
        BY <2>2 DEF RunActs, Open, Dump, Validate, Promote, Digest, FailBackup
      <4>2. Only(r) /\ s \in Second
        BY <1>2, <4>1, RunsAreNumbers DEF BackupsTypeOK, Only
      <4>3. QED
        BY <4>1, <4>2, RunsAreNumbers DEF BackupsTypeOK, Stamped, Only
    <3>2. Nothing # r /\ None # r /\ None # Nothing
      BY RunsAreNumbers DEF None, Nothing
    <3>3. CASE Open(r)
      <4>1. /\ stage'[r] = "dump" /\ partial'[s] = r /\ file'[r] = r /\ content'[r] = Nothing
            /\ UNCHANGED <<final, digest>> /\ stage[r] = "open"
        BY <3>1, <3>3 DEF BackupsTypeOK, Open, DumpStands
      <4>2. QED
        BY <3>1, <4>1 DEF DumpStands
    <3>4. CASE Dump(r)
      <4>1. /\ stage'[r] = "validate" /\ content'[r] = r /\ UNCHANGED <<partial, final, digest>>
            /\ stage[r] = "dump"
        BY <3>1, <3>4 DEF BackupsTypeOK, Dump, DumpStands
      <4>2. QED
        BY <3>1, <4>1 DEF DumpStands
    <3>5. CASE Validate(r)
      BY <3>1, <3>5 DEF BackupsTypeOK, Validate, DumpStands, directory
    <3>6. CASE Promote(r)
      BY <3>1, <3>6, <2>0 DEF BackupsTypeOK, Promote, DumpStands
    <3>7. CASE Digest(r)
      <4>1. /\ stage[r] \in {"digest", "sum"} /\ stage'[r] \in {"sum", "done"}
            /\ UNCHANGED <<partial, final, content>> /\ final[s] = r
            /\ digest'[s] \in {Nothing, content[r]}
        BY <3>1, <3>7 DEF BackupsTypeOK, Digest, Stamped
      <4>2. QED
        BY <3>1, <4>1, <2>0 DEF DumpStands
    <3>8. CASE FailBackup(r)
      <4>1. stage'[r] = "failed" /\ UNCHANGED <<final, content, digest>>
        BY <3>8 DEF BackupsTypeOK, FailBackup
      <4>2. QED
        BY <3>1, <4>1 DEF DumpStands
    <3>9. QED
      BY <1>2, <2>2, <3>3, <3>4, <3>5, <3>6, <3>7, <3>8 DEF RunActs
  <2>3. QED
    BY <1>2, <2>1, <2>2
<1>3. QED
  BY <1>1, <1>2

\* A test that has its dump to itself finds it as it was, or is mixed.
LEMMA RestoredKept ==
  ASSUME BackupsInv, NEW r \in Backup, RunActs(r), BackupsTypeOK', Stamped'
  PROVE  Restored'
<1> USE DEF BackupsInv
<1>1. /\ UNCHANGED <<test, target, container, found, stuck>> /\ ActiveTest' = ActiveTest
      /\ mixed \subseteq mixed'
  BY DEF RunActs, BeginBackup, Open, Dump, Validate, Promote, Digest, FailBackup, restoreTest, ActiveTest
<1>2. ASSUME NEW x \in Second, final[x] # 0 PROVE final'[x] # 0
  <2>1. CASE Promote(r)
    BY <1>2, <2>1 DEF BackupsTypeOK, Promote
  <2>2. CASE ~Promote(r)
    BY <1>2, <2>2 DEF RunActs, BeginBackup, Open, Dump, Validate, Digest, FailBackup, directory
  <2>3. QED
    BY <2>1, <2>2
<1>3. ASSUME NEW t \in Test \ mixed, test[t] \in Testing \cup {"passed"}
      PROVE  TestStands(t)'
  <2>0. PICK s \in Second, q \in Backup : s = target[t] /\ q = final[s]
    BY <1>3, RunsAreNumbers DEF BackupsTypeOK, Restored
  <2>1. stamp[q] = s /\ TestStands(t) /\ s # 0 /\ s = target[t] /\ q = final[s] /\ q # 0
    BY <1>3, <2>0, RunsAreNumbers DEF Restored, Stamped
  <2>2. AloneInside(t)' <=> AloneInside(t)
    BY <1>1 DEF AloneInside
  <2>3. ASSUME NEW y, y = final'[s], Only(y)'
        PROVE  /\ y = q /\ Only(q) /\ DumpStands(q)
               /\ content'[q] = content[q] /\ snapshot'[q] = snapshot[q]
               /\ digest'[s] \in {digest[s], Nothing, content[q]}
    <3>1. y \in Backup /\ stamp'[y] = s
      BY <1>2, <2>1, <2>3, RunsAreNumbers DEF BackupsTypeOK, Stamped
    <3>2. stamp'[q] = s
      <4>1. ~(BeginBackup(r) /\ q = r)
        BY <2>1 DEF BeginBackup, Stamped
      <4>2. QED
        BY <2>1, <4>1 DEF BackupsTypeOK, RunActs, BeginBackup, Open, Dump, Validate, Promote, Digest, FailBackup
    <3>3. y = q /\ Only(q)'
      BY <2>1, <2>3, <3>1, <3>2 DEF Only
    <3>4. CASE q # r
      <4>1. Only(q)
        BY <2>1, <3>3, <3>4, RunsApart
      <4>2. QED
        BY <2>1, <3>3, <3>4, <4>1, RunsApart
    <3>5. CASE q = r
      <4>1. ~BeginBackup(r)
        BY <2>1, <3>5 DEF BeginBackup, Stamped
      <4>2. stamp' = stamp /\ Only(q)
        <5>1. stamp' = stamp
          BY <4>1 DEF RunActs, Open, Dump, Validate, Promote, Digest, FailBackup
        <5>2. QED
          BY <3>3, <5>1 DEF Only
      <4>3. DumpStands(q) /\ stage[r] \in {"digest", "sum", "done", "failed"}
        <5>1. DumpStands(q) /\ stamp[q] = s /\ final[s] # 0
          BY <2>0, <2>1, <4>2
        <5>2. QED
          BY <3>5, <5>1 DEF DumpStands
      <4>4. CASE Digest(r)
        <5>1. /\ digest'[s] \in {Nothing, content[q]}
              /\ content' = content /\ snapshot' = snapshot
          <6>1. digest \in [Second -> Content] /\ s \in Second /\ stamp[r] = s /\ final[stamp[r]] = q
            BY <2>0, <2>1, <3>5 DEF BackupsTypeOK
          <6>2. QED
            BY <4>4, <6>1 DEF Digest
        <5>2. QED
          BY <3>3, <4>2, <4>3, <5>1
      <4>5. CASE FailBackup(r)
        BY <2>1, <3>3, <3>5, <4>2, <4>3, <4>5 DEF BackupsTypeOK, FailBackup
      <4>6. QED
        BY <4>1, <4>3, <4>4, <4>5 DEF RunActs, Open, Dump, Validate, Promote
    <3>6. QED
      BY <3>4, <3>5
  <2>4. ASSUME NEW y, y = final'[s], Only(y)'
        PROVE  /\ test[t] \in Testing =>
                     /\ digest'[s] \in {None, Nothing, content[q]}
                     /\ test[t] = "count" => container = content[q]
               /\ test[t] = "passed" =>
                     \/ found[t] = q /\ snapshot[q]
                     \/ content[q] = Altered /\ digest'[s] # q
    <3>1. q # Nothing /\ q # Altered
      BY <2>1, RunsAreNumbers
    <3>2. QED
      BY <2>1, <2>3, <2>4, <3>1 DEF TestStands
  <2>5. QED
    <3>1. PICK y : y = final'[s]
      OBVIOUS
    <3>2. Only(final[target[t]])' <=> Only(y)'
      BY <1>1, <2>1, <3>1 DEF Only
    <3>3. Only(y)' => y = q /\ content'[q] = content[q] /\ snapshot'[q] = snapshot[q]
      BY <2>3, <3>1
    <3>4. QED
      BY <1>1, <2>1, <2>2, <2>4, <3>1, <3>2, <3>3 DEF TestStands
<1>4. ASSUME NEW t \in Test \ mixed', test[t] \notin Testing \cup {"passed"}
      PROVE  TestStands(t)'
  BY <1>1, <1>4 DEF TestStands
<1>5. QED
  BY <1>1, <1>2, <1>3, <1>4 DEF Restored

\* The steps of a restore test.
LEMMA TestsKept ==
  ASSUME BackupsInv, NEW t \in Test, TestActs(t)
  PROVE  /\ UNCHANGED <<stage, stamp, file, snapshot, partial, final, content, digest>>
         /\ ContainerIsRemoved' /\ Restored'
<1> USE DEF BackupsInv
<1>1. /\ UNCHANGED <<stage, stamp, file, snapshot, partial, final, content, digest>>
      /\ mixed \subseteq mixed'
      /\ \A u \in Test \ {t} : test'[u] = test[u] /\ target'[u] = target[u] /\ found'[u] = found[u]
  BY DEF BackupsTypeOK, TestActs, BeginTest, Container, Restore, Count, FailTest, backup, directory
<1>2. ContainerIsRemoved'
  <2>1. CASE test'[t] \in Testing
    BY <2>1 DEF ContainerIsRemoved, ActiveTest
  <2>2. CASE stuck' = TRUE
    BY <2>2 DEF ContainerIsRemoved
  <2>3. CASE container' = None
    BY <2>3 DEF ContainerIsRemoved
  <2>4. CASE BeginTest(t) /\ test'[t] = "failed"
    <3>1. container' = container /\ stuck' = stuck /\ test[t] = "absent"
      BY <2>4 DEF BeginTest
    <3>2. \A u \in Test : test[u] \in Testing => test'[u] = test[u]
      BY <1>1, <3>1 DEF Testing
    <3>3. QED
      BY <3>1, <3>2 DEF ContainerIsRemoved, ActiveTest
  <2>5. QED
    BY <2>1, <2>2, <2>3, <2>4
       DEF BackupsTypeOK, TestActs, BeginTest, Container, Restore, Count, FailTest, Testing, Removed
<1>3. ASSUME NEW u \in Test, test'[u] \in Testing \cup {"passed"}
      PROVE  target'[u] \in Second /\ final'[target'[u]] # 0
  <2>1. CASE BeginTest(t) /\ u = t
    BY <1>1, <2>1 DEF BackupsTypeOK, BeginTest
  <2>2. CASE ~(BeginTest(t) /\ u = t)
    <3>1. test[u] \in Testing \cup {"passed"} /\ target'[u] = target[u]
      BY <1>1, <1>3, <2>2
         DEF BackupsTypeOK, TestActs, BeginTest, Container, Restore, Count, FailTest, Testing
    <3>2. QED
      BY <1>1, <3>1 DEF Restored
  <2>3. QED
    BY <2>1, <2>2
<1>4. ASSUME NEW u \in Test \ mixed', u # t, test[u] \in Testing
      PROVE  FALSE
  <2>1. \A v \in ActiveTest : v = u
    BY <1>1, <1>4 DEF Restored, TestStands, AloneInside
  <2>2. test[t] = "absent" \/ t \in ActiveTest
    BY DEF TestActs, BeginTest, Container, Restore, Count, FailTest, ActiveTest, Testing
  <2>3. BeginTest(t)
    BY <1>4, <2>1, <2>2 DEF TestActs, BeginTest, Container, Restore, Count, FailTest, ActiveTest, Testing
  <2>4. u \in mixed'
    BY <1>4, <2>3 DEF BeginTest, ActiveTest
  <2>5. QED
    BY <1>4, <2>4
<1>5. ASSUME NEW u \in Test \ mixed', u # t PROVE TestStands(u)'
  <2>1. test'[u] \notin Testing /\ test'[u] = test[u] /\ TestStands(u)
    BY <1>1, <1>4, <1>5 DEF Restored
  <2>2. QED
    BY <1>1, <1>5, <2>1 DEF TestStands, Only
<1>6. ASSUME t \notin mixed' PROVE TestStands(t)'
  <2> DEFINE s == target[t]
             r == final[s]
  <2>1. TestStands(t)
    BY <1>1, <1>6 DEF Restored
  <2>2. Nothing # None /\ Testing = {"remove", "up", "restore", "count"}
    BY DEF Nothing, None, Testing
  <2>3. \A u \in Test \ {t} : test[u] \notin Testing
    <3> SUFFICES ASSUME NEW u \in Test \ {t}, test[u] \in Testing PROVE FALSE
      OBVIOUS
    <3>1. CASE BeginTest(t)
      <4>1. t \in mixed'
        BY <3>1 DEF BeginTest, ActiveTest
      <4>2. QED
        BY <1>6, <4>1
    <3>2. CASE ~BeginTest(t)
      <4>1. test[t] \in Testing
        BY <3>2 DEF TestActs, Container, Restore, Count, FailTest, Testing
      <4>2. QED
        BY <2>1, <4>1 DEF TestStands, AloneInside, ActiveTest
    <3>3. QED
      BY <3>1, <3>2
  <2>4. \A u \in ActiveTest' : u = t
    BY <1>1, <2>3 DEF ActiveTest
  <2>5. CASE BeginTest(t)
    <3>1. PICK x \in Second :
            /\ final[x] # 0 /\ target' = [target EXCEPT ![t] = x]
            /\ test' = [test EXCEPT ![t] =
                  IF digest[x] \in {None, content[final[x]]} THEN "remove" ELSE "failed"]
      BY <2>5 DEF BeginTest
    <3>2. target'[t] = x /\ test'[t] \in {"remove", "failed"}
          /\ (test'[t] = "remove" => digest[x] \in {None, content[final[x]]})
      BY <3>1 DEF BackupsTypeOK
    <3>3. QED
      BY <1>1, <2>2, <2>4, <3>2 DEF TestStands, AloneInside
  <2>6. CASE Container(t)
    <3>1. /\ test[t] \in Testing /\ UNCHANGED <<target, found>>
          /\ \/ test'[t] = "up" /\ container' \in {None, Nothing}
             \/ /\ test[t] = "up" /\ test'[t] = "restore"
                /\ container \in {None, Nothing} => container' = Nothing
      BY <1>6, <2>6, <2>2 DEF BackupsTypeOK, Container, Removed
    <3>2. QED
      BY <1>1, <2>1, <2>2, <2>4, <3>1 DEF TestStands, AloneInside, Only
  <2>7. CASE Restore(t)
    <3>1. /\ test[t] = "restore" /\ test'[t] = "count" /\ UNCHANGED <<target, found>>
          /\ container = Nothing
      BY <2>1, <2>2, <2>7 DEF BackupsTypeOK, Restore, TestStands, AloneInside
    <3>2. container' = content[final[target[t]]]
      BY <2>7, <3>1 DEF Restore
    <3>3. QED
      BY <1>1, <2>1, <2>2, <2>4, <3>1, <3>2 DEF TestStands, AloneInside, Only
  <2>8. CASE Count(t)
    <3>1. /\ test[t] = "count" /\ test'[t] = "passed" /\ target' = target
          /\ found'[t] = container
          /\ container \in {Torn, Altered} \cup {x \in Backup : snapshot[x]}
      BY <2>8 DEF BackupsTypeOK, Count
    <3>2. s \in Second /\ r \in Backup /\ stamp[r] = s
      BY <2>2, <3>1, RunsAreNumbers DEF BackupsTypeOK, Restored, Stamped
    <3>3. ASSUME Only(r)
          PROVE  \/ found'[t] = r /\ snapshot[r]
                 \/ content[r] = Altered /\ digest[s] # r
      <4>1. /\ container = content[r] /\ content[r] \in {r, Altered}
            /\ digest[s] \in {None, Nothing, content[r]}
        <5>1. DumpStands(r) /\ final[stamp[r]] # 0
          BY <3>2, <3>3, RunsAreNumbers
        <5>2. QED
          BY <2>1, <2>2, <3>1, <3>3, <5>1 DEF DumpStands, TestStands
      <4>2. r \notin {Torn, Altered, None, Nothing}
        BY <3>2, RunsAreNumbers
      <4>3. QED
        BY <3>1, <4>1, <4>2
    <3>4. QED
      BY <1>1, <2>2, <3>1, <3>3 DEF TestStands, Only
  <2>9. CASE FailTest(t)
    <3>1. test'[t] = "failed"
      BY <2>9 DEF BackupsTypeOK, FailTest
    <3>2. QED
      BY <2>2, <3>1 DEF TestStands
  <2>10. QED
    BY <2>5, <2>6, <2>7, <2>8, <2>9 DEF TestActs
<1>7. QED
  BY <1>1, <1>2, <1>3, <1>5, <1>6 DEF Restored

\* Time, the migrations, and a dump that is altered.
LEMMA EnvironmentKept ==
  ASSUME BackupsInv, Environment
  PROVE  BackupsInv'
<1> USE DEF BackupsInv
<1>0. BackupsTypeOK'
  BY EnvironmentTyped
<1>1. CASE UNCHANGED <<backup, directory, restoreTest>>
  <2>1. Stamped' /\ ContainerIsRemoved' /\ Restored'
    BY <1>1 DEF backup, directory, restoreTest, Stamped, ContainerIsRemoved, ActiveTest, Restored,
                TestStands, AloneInside, Only
  <2>2. \A r \in Backup : (Only(r) => DumpStands(r))'
    BY <1>1 DEF backup, directory, Only, DumpStands
  <2>3. QED
    BY <1>0, <2>1, <2>2
<1>2. ASSUME NEW s \in Second, final[s] # 0,
             content' = [content EXCEPT ![final[s]] = Altered],
             mixed' = mixed \cup {t \in ActiveTest : target[t] = s},
             UNCHANGED <<backup, partial, final, digest, test, target, container, found, stuck>>
      PROVE  BackupsInv'
  <2>1. Stamped' /\ ContainerIsRemoved'
    BY <1>2 DEF backup, Stamped, ContainerIsRemoved, ActiveTest
  <2>2. /\ final[s] \in Backup /\ stamp[final[s]] = s
        /\ \A r \in Backup : content'[r] \in {content[r], Altered}
        /\ \A r \in Backup : stamp[r] # s => content'[r] = content[r]
    BY <1>2, RunsAreNumbers DEF BackupsTypeOK, Stamped
  <2>3. ASSUME NEW r \in Backup, Only(r)' PROVE DumpStands(r)'
    <3>1. Only(r) /\ DumpStands(r) /\ UNCHANGED <<stamp, stage, file>>
      BY <1>2, <2>3 DEF backup, Only
    <3>2. CASE stamp[r] = s
      BY <1>2, <2>2, <3>1, <3>2 DEF DumpStands
    <3>3. CASE stamp[r] # s
      BY <1>2, <2>2, <3>1, <3>3 DEF DumpStands
    <3>4. QED
      BY <3>2, <3>3
  <2>4. ASSUME NEW t \in Test \ mixed', test[t] \in Testing \cup {"passed"} PROVE TestStands(t)'
    <3>1. /\ TestStands(t) /\ target[t] \in Second /\ final[target[t]] \in Backup
          /\ stamp[final[target[t]]] = target[t]
      BY <1>2, <2>4, RunsAreNumbers DEF BackupsTypeOK, Restored, Stamped
    <3>2. test[t] \in Testing => content'[final[target[t]]] = content[final[target[t]]]
      BY <1>2, <2>2, <2>4, <3>1 DEF ActiveTest
    <3>3. test[t] = "passed" => content'[final[target[t]]] \in {content[final[target[t]]], Altered}
      BY <2>2, <3>1
    <3>4. QED
      BY <1>2, <3>1, <3>2, <3>3 DEF TestStands, AloneInside, ActiveTest, Only, backup
  <2>5. Restored'
    <3>1. ASSUME NEW t \in Test \ mixed', test[t] \notin Testing \cup {"passed"} PROVE TestStands(t)'
      BY <1>2, <3>1 DEF TestStands
    <3>2. QED
      BY <1>2, <2>4, <3>1 DEF Restored
  <2>6. QED
    BY <1>0, <2>1, <2>3, <2>5
<1>3. QED
  BY <1>1, <1>2 DEF Environment

LEMMA BackupsStep == BackupsInv /\ [BackupsNext]_backupsVars => BackupsInv'
<1> SUFFICES ASSUME BackupsInv, [BackupsNext]_backupsVars PROVE BackupsInv'
  OBVIOUS
<1>1. ASSUME NEW r \in Backup, RunActs(r) PROVE BackupsInv'
  <2>1. BackupsTypeOK' /\ Stamped'
    BY <1>1, RunTyped, StampedKept DEF BackupsInv
  <2>2. ContainerIsRemoved'
    BY <1>1 DEF BackupsInv, ContainerIsRemoved, ActiveTest, RunActs, BeginBackup, Open, Dump, Validate,
                Promote, Digest, FailBackup, restoreTest
  <2>3. QED
    BY <1>1, <2>1, <2>2, DumpKept, RestoredKept DEF BackupsInv
<1>2. ASSUME NEW t \in Test, TestActs(t) PROVE BackupsInv'
  <2>1. BackupsTypeOK'
    BY <1>2, TestTyped DEF BackupsInv
  <2>2. /\ UNCHANGED <<stage, stamp, file, snapshot, partial, final, content, digest>>
        /\ ContainerIsRemoved' /\ Restored'
    BY <1>2, TestsKept
  <2>3. Stamped' /\ \A r \in Backup : (Only(r) => DumpStands(r))'
    BY <2>2 DEF BackupsInv, Stamped, Only, DumpStands
  <2>4. QED
    BY <2>1, <2>2, <2>3 DEF BackupsInv
<1>3. CASE UNCHANGED backupsVars
  <2>1. /\ BackupsTypeOK' /\ Stamped' /\ ContainerIsRemoved'
        /\ \A r \in Backup : (Only(r) => DumpStands(r))'
    BY <1>3 DEF backupsVars, backup, directory, restoreTest, BackupsInv, BackupsTypeOK, Stamped,
                ContainerIsRemoved, ActiveTest, Only, DumpStands
  <2>2. Restored'
    BY <1>3 DEF backupsVars, backup, directory, restoreTest, BackupsInv, Restored, TestStands,
                AloneInside, ActiveTest, Only
  <2>3. QED
    BY <2>1, <2>2 DEF BackupsInv
<1>4. QED
  BY <1>1, <1>2, <1>3, EnvironmentKept DEF BackupsNext, RunActs, TestActs

LEMMA BackupsInvariant == BackupsSpec => []BackupsInv
BY BackupsStart, BackupsStep, PTL DEF BackupsSpec

LEMMA BackupsInvIsEnough == BackupsInv => BackupsAreSound
<1> SUFFICES ASSUME BackupsInv PROVE BackupsAreSound
  OBVIOUS
<1>1. ASSUME NEW s \in Second, Alone(s)
      PROVE  \E r \in Backup : /\ stamp[r] = s /\ Only(r) /\ DumpStands(r)
                               /\ final[s] # 0 => final[s] = r
  <2>1. PICK r \in Backup : stamp[r] = s /\ Only(r)
    BY <1>1, AloneIsOnly DEF BackupsInv
  <2>2. final[s] # 0 => final[s] = r
    BY <2>1, RunsAreNumbers DEF BackupsInv, BackupsTypeOK, Stamped, Only
  <2>3. QED
    BY <2>1, <2>2 DEF BackupsInv
<1>2. DumpIsWhole
  BY <1>1 DEF DumpIsWhole, DumpStands
<1>3. ASSUME NEW t \in Test, test[t] = "passed", t \notin mixed,
             Alone(target[t]), digest[target[t]] \in Backup
      PROVE  found[t] = digest[target[t]] /\ snapshot[digest[target[t]]]
  <2>1. target[t] \in Second /\ final[target[t]] # 0 /\ TestStands(t)
    BY <1>3 DEF BackupsInv, Restored
  <2>2. PICK r \in Backup : /\ stamp[r] = target[t] /\ Only(r) /\ DumpStands(r)
                            /\ final[target[t]] = r
    BY <1>1, <1>3, <2>1
  <2>3. digest[target[t]] = r
    BY <1>3, <2>2, RunsAreNumbers DEF DumpStands
  <2>4. QED
    BY <1>3, <2>1, <2>2, <2>3 DEF TestStands
<1>4. RestoreTestIsEarned
  BY <1>3 DEF RestoreTestIsEarned
<1>5. QED
  BY <1>2, <1>4 DEF BackupsInv, BackupsAreSound

\* What runs that fail or are killed at any point leave behind, for any number of
\* backups, restore tests and seconds: whole dumps under their names, a container
\* that is removed, and restore tests that say what they did.
THEOREM BackupsSound == BackupsSpec => []BackupsAreSound
BY BackupsInvariant, BackupsInvIsEnough, PTL

\* No step takes a dump away or puts another in its place, unless two runs began in
\* its second.
THEOREM DumpsKept == BackupsSpec => DumpsAreKept
<1>1. ASSUME BackupsInv, [BackupsNext]_backupsVars, NEW s \in Second, final[s] # 0, Alone(s)
      PROVE  final'[s] = final[s]
  <2>1. PICK r \in Backup : stamp[r] = s /\ Only(r)
    BY <1>1, AloneIsOnly DEF BackupsInv
  <2>2. stage[r] # "promote"
    BY <1>1, <2>1 DEF BackupsInv, DumpStands
  <2>3. ASSUME NEW q \in Backup, Promote(q) PROVE stamp[q] # s
    BY <2>1, <2>2, <2>3 DEF Promote, Only
  <2>4. CASE \E q \in Backup : Promote(q)
    BY <1>1, <2>3, <2>4 DEF BackupsInv, BackupsTypeOK, Promote
  <2>5. CASE ~\E q \in Backup : Promote(q)
    BY <1>1, <2>5 DEF BackupsNext, BeginBackup, Open, Dump, Validate, Digest, FailBackup, BeginTest,
                      Container, Restore, Count, FailTest, Environment, backupsVars, directory
  <2>6. QED
    BY <2>4, <2>5
<1>2. BackupsInv /\ [BackupsNext]_backupsVars
        => [\A s \in Second : (final[s] # 0 /\ Alone(s)) => final'[s] = final[s]]_backupsVars
  BY <1>1
<1>3. QED
  BY <1>2, BackupsInvariant, PTL DEF BackupsSpec, DumpsAreKept
----------------------------------------------------------------------------
(***************************************************************************)
(* Model evidence.  An import that no capture ran beside has read the       *)
(* bundle that is there; while captures have not overlapped, what is there  *)
(* can be traced to the captures that wrote it.                             *)
(***************************************************************************)
\* The files as capture c writes them.
ReportOf(c) == [system |-> given[c].system, synthetic |-> given[c].synthetic]
SumsOf(c)   == [synthetic |-> given[c].synthetic, sha256 |-> given[c].recommend]

Reports  == [system : 0..Systems, synthetic : BOOLEAN]
Sums     == [synthetic : BOOLEAN, sha256 : [UseCase -> 0..Outputs]]
Payloads == [UseCase -> 0..Outputs]

EvidenceShapes ==
    /\ given \in [Capture -> [system : System, synthetic : BOOLEAN, recommend : Payloads]]
    /\ built \in [Capture -> [report : Reports, manifest : Sums]]
    /\ report \in Reports /\ manifest \in Sums
    /\ loaded \in [Import -> [report : Reports, manifest : Sums, payload : Payloads]]

\* No captures have overlapped that an import may yet have to do with.
Apart == \E i \in Import : i \notin mingled /\ step[i] # "done"

\* One capture writes at a time, and what it has written so far is its own.
OneWriter == shared = {} /\ \A c, d \in Running : c = d
OwnFiles ==
    \A c \in Running :
        /\ captured[c] > 0 => system = given[c].system
        /\ \A u \in UseCase : captured[c] > u => recommend[u] = given[c].recommend[u]
        /\ captured[c] = ReportFile /\ open[c] =>
              report = Absent /\ built[c].report = ReportOf(c)
        /\ captured[c] = ManifestFile => report = ReportOf(c)
        /\ captured[c] = ManifestFile /\ open[c] => built[c].manifest = SumsOf(c)

\* Captures that have written their last output, whose outputs are settled.
Settled == {c \in Capture : captured[c] \in {ManifestFile, Complete, CutShort}}

Authors ==
    /\ manifest # NoSums => \E m \in Settled : captured[m] = Complete /\ manifest = SumsOf(m)
    /\ report # Absent   => \E d \in Settled : report = ReportOf(d)

TwoCut == \E a, b \in Capture : a # b /\ captured[a] = CutShort /\ captured[b] = CutShort

\* The report and the manifest are of one capture; or the report is of the last
\* one, which has all its outputs there; or one has broken off and another writes.
OfOneCapture ==
    \/ TwoCut
    \/ manifest = NoSums
    \/ report = Absent
    \/ \E m \in Settled : captured[m] = Complete /\ manifest = SumsOf(m) /\ report = ReportOf(m)
    \/ \E d \in Settled : /\ captured[d] \in {ManifestFile, CutShort}
                          /\ report = ReportOf(d) /\ recommend = given[d].recommend
    \/ Running # {} /\ \E b \in Capture : captured[b] = CutShort

\* What an import of a bundle at rest has read is what is still there.
BundleAtRest ==
    \A i \in Import \ raced :
        /\ i \in Checking => Running = {}
        /\ step[i] \in {"absent", "report", "manifest"} => useCase[i] = 1
        /\ step[i] \in {"manifest", "digest", "load", "insert"} =>
              report # Absent /\ loaded[i].report = report
        /\ step[i] \in {"digest", "load", "insert"} =>
              /\ manifest # NoSums /\ loaded[i].manifest = manifest
              /\ manifest.synthetic = report.synthetic
        /\ step[i] \in {"digest", "load"} =>
              \A u \in UseCase : u < useCase[i] =>
                  recommend[u] = manifest.sha256[u] /\ loaded[i].payload[u] = recommend[u]
        /\ step[i] = "load" => recommend[useCase[i]] = manifest.sha256[useCase[i]]
        /\ step[i] = "insert" =>
              recommend = manifest.sha256 /\ loaded[i].payload = recommend

InsertedOnce == \A r \in inbox : r.import \in Import /\ step[r.import] = "done"

SettledRows ==
    \A i \in Import \ (raced \cup mingled) : RowsOf(i) # {} =>
        \E c, d \in Settled : Observed(RowsOf(i), c, d) /\ (c = d \/ TwoCut)

RowsAsDigested == \A i \in Import \ raced : \A r \in RowsOf(i) : r.evidence_sha256 = r.source_payload

EvidenceInv ==
    /\ EvidenceTypeOK /\ EvidenceShapes
    /\ Apart => OneWriter /\ OwnFiles /\ Authors /\ OfOneCapture
    /\ BundleAtRest /\ InsertedOnce /\ SettledRows /\ RowsAsDigested

LEMMA FileNumbers ==
    /\ UseCases \in Nat /\ UseCases > 0
    /\ ReportFile = UseCases + 1 /\ ManifestFile = UseCases + 2
    /\ Complete = UseCases + 3 /\ CutShort = UseCases + 4
    /\ \A u \in UseCase : u \in Nat /\ 0 < u /\ u < ReportFile
    /\ UseCase \subseteq Int
BY EvidenceAssumption, SMT DEF ReportFile, ManifestFile, Complete, CutShort, UseCase

LEMMA BuiltUpdate ==
    ASSUME NEW I, NEW R, NEW S, NEW f \in [I -> [report : R, manifest : S]], NEW i \in I
    PROVE  /\ \A r \in R : [f EXCEPT ![i].report = r]   \in [I -> [report : R, manifest : S]]
           /\ \A s \in S : [f EXCEPT ![i].manifest = s] \in [I -> [report : R, manifest : S]]
OBVIOUS

LEMMA GivenUpdate ==
    ASSUME NEW I, NEW H, NEW U, NEW T,
           NEW f \in [I -> [system : H, synthetic : BOOLEAN, recommend : [U -> T]]],
           NEW i \in I, NEW u \in U, NEW t \in T
    PROVE  [f EXCEPT ![i].recommend[u] = t]
              \in [I -> [system : H, synthetic : BOOLEAN, recommend : [U -> T]]]
<1>1. [f[i].recommend EXCEPT ![u] = t] \in [U -> T]
    OBVIOUS
<1> DEFINE p == [f[i].recommend EXCEPT ![u] = t]
<1>2. [f EXCEPT ![i].recommend[u] = t] = [f EXCEPT ![i].recommend = p]
    OBVIOUS
<1> HIDE DEF p
<1>3. [f EXCEPT ![i].recommend = p]
              \in [I -> [system : H, synthetic : BOOLEAN, recommend : [U -> T]]]
    BY <1>1 DEF p
<1> QED BY <1>2, <1>3

LEMMA LoadedUpdate ==
    ASSUME NEW I, NEW R, NEW S, NEW P,
           NEW f \in [I -> [report : R, manifest : S, payload : P]], NEW i \in I
    PROVE  /\ \A r \in R : [f EXCEPT ![i].report = r]
                              \in [I -> [report : R, manifest : S, payload : P]]
           /\ \A s \in S : [f EXCEPT ![i].manifest = s]
                              \in [I -> [report : R, manifest : S, payload : P]]
OBVIOUS

LEMMA PayloadUpdate ==
    ASSUME NEW I, NEW R, NEW S, NEW P,
           NEW f \in [I -> [report : R, manifest : S, payload : P]], NEW i \in I
    PROVE  \A p \in P : [f EXCEPT ![i].payload = p]
                              \in [I -> [report : R, manifest : S, payload : P]]
OBVIOUS

LEMMA MixtureShapes ==
    ASSUME EvidenceTypeOK, EvidenceShapes, NEW c \in Capture, Mixture(c)
    PROVE  /\ system' \in 0..Systems /\ recommend' \in [UseCase -> 0..Outputs]
           /\ report' \in Reports /\ manifest' \in Sums
<1> USE DEF EvidenceTypeOK, EvidenceShapes
<1>1. {Absent} \cup [system : System, synthetic : BOOLEAN] \subseteq Reports
    <2>1. System \subseteq 0..Systems /\ 0 \in 0..Systems
        BY EvidenceAssumption DEF System
    <2>2. Absent \in Reports
        BY <2>1 DEF Absent, Reports
    <2>3. ASSUME NEW r \in [system : System, synthetic : BOOLEAN]
          PROVE  r \in Reports
        BY <2>1 DEF Reports
    <2> QED BY <2>2, <2>3
<1>2. {NoSums} \cup [synthetic : BOOLEAN, sha256 : [UseCase -> Output]] \subseteq Sums
    <2>1. Output \subseteq 0..Outputs /\ 0 \in 0..Outputs
        BY EvidenceAssumption DEF Output
    <2>2. [UseCase -> Output] \subseteq [UseCase -> 0..Outputs] /\ Unread \in [UseCase -> 0..Outputs]
        BY <2>1 DEF Unread
    <2>3. NoSums \in Sums
        BY <2>2 DEF NoSums, Sums
    <2>4. ASSUME NEW r \in [synthetic : BOOLEAN, sha256 : [UseCase -> Output]]
          PROVE  r \in Sums
        BY <2>2 DEF Sums
    <2> QED BY <2>3, <2>4
<1>3. recommend' \in [UseCase -> 0..Outputs]
    BY DEF Mixture
<1> QED BY <1>1, <1>2, <1>3 DEF Mixture

LEMMA EvidenceTypesStep ==
    ASSUME EvidenceTypeOK, EvidenceShapes, EvidenceNext
    PROVE  EvidenceTypeOK' /\ EvidenceShapes'
<1> USE FileNumbers DEF EvidenceTypeOK, EvidenceShapes, Running
<1>a. built \in [Capture -> [report : Reports, manifest : Sums]]
    OBVIOUS
<1>b. loaded \in [Import -> [report : Reports, manifest : Sums, payload : Payloads]]
    OBVIOUS
<1>c. report \in Reports /\ manifest \in Sums /\ recommend \in [UseCase -> 0..Outputs]
    OBVIOUS
<1>1. ASSUME NEW c \in Capture, BeginCapture(c)
      PROVE  EvidenceTypeOK' /\ EvidenceShapes'
    BY <1>1 DEF BeginCapture, bundle, importing, Checking
<1>2. ASSUME NEW c \in Capture, OpenOutput(c)
      PROVE  EvidenceTypeOK' /\ EvidenceShapes'
    <2>1. 0 \in 0..Systems /\ 0 \in 0..Outputs
        BY EvidenceAssumption
    <2>2. system' \in 0..Systems /\ recommend' \in [UseCase -> 0..Outputs]
        BY <1>2, <2>1 DEF OpenOutput, OpenFile
    <2>3. /\ UNCHANGED <<captured, built, given, report, manifest, step, useCase, loaded, inbox, raced, mingled>>
          /\ open' = [open EXCEPT ![c] = TRUE] /\ c \in Running
        BY <1>2 DEF OpenOutput, OpenFile, importing
    <2>4. \A d \in shared' : d \in Capture /\ open'[d]
        BY <1>2 DEF OpenOutput, OpenFile
    <2> QED BY <2>2, <2>3, <2>4
<1>3. ASSUME NEW c \in Capture, WriteOutput(c)
      PROVE  EvidenceTypeOK' /\ EvidenceShapes'
    <2>1. /\ captured' = [captured EXCEPT ![c] = captured[c] + 1]
          /\ open' = [open EXCEPT ![c] = FALSE] /\ open[c]
          /\ UNCHANGED <<built, report, manifest, step, useCase, loaded, inbox, shared, raced, mingled>>
          /\ captured[c] \in {0} \cup UseCase /\ c \notin shared
        BY <1>3 DEF WriteOutput, importing
    <2>2. captured' \in [Capture -> -1..CutShort] /\ open' \in [Capture -> BOOLEAN]
        BY <2>1
    <2>3. \A d \in Capture : open'[d] => d \in Running'
        BY <2>1
    <2>4. /\ system' \in 0..Systems /\ recommend' \in [UseCase -> 0..Outputs]
          /\ given' \in [Capture -> [system : System, synthetic : BOOLEAN, recommend : Payloads]]
        <3>1. CASE captured[c] = 0 /\ system' = given[c].system /\ UNCHANGED <<recommend, given>>
            BY <3>1 DEF System
        <3>2. ASSUME captured[c] \in UseCase, NEW t \in Output,
                     recommend' = [recommend EXCEPT ![captured[c]] = t],
                     given' = [given EXCEPT ![c].recommend[captured[c]] = t], system' = system
              PROVE  /\ system' \in 0..Systems /\ recommend' \in [UseCase -> 0..Outputs]
                     /\ given' \in [Capture -> [system : System, synthetic : BOOLEAN,
                                                recommend : Payloads]]
            <4>1. t \in 0..Outputs
                BY EvidenceAssumption DEF Output
            <4>2. given \in [Capture -> [system : System, synthetic : BOOLEAN,
                                         recommend : [UseCase -> 0..Outputs]]]
                BY DEF Payloads
            <4>3. given' \in [Capture -> [system : System, synthetic : BOOLEAN,
                                         recommend : [UseCase -> 0..Outputs]]]
                BY ONLY <3>2, <4>1, <4>2, GivenUpdate
            <4> QED BY <3>2, <4>1, <4>3 DEF Payloads
        <3> QED BY <1>3, <3>1, <3>2 DEF WriteOutput
    <2> QED BY <2>1, <2>2, <2>3, <2>4
<1>4. ASSUME NEW c \in Capture, OpenReport(c)
      PROVE  EvidenceTypeOK' /\ EvidenceShapes'
    <2>1. [system |-> system, synthetic |-> given[c].synthetic] \in Reports /\ Absent \in Reports
        BY EvidenceAssumption DEF Absent, Reports
    <2>2. built' \in [Capture -> [report : Reports, manifest : Sums]]
        <3>1. built' = [built EXCEPT ![c].report = [system |-> system, synthetic |-> given[c].synthetic]]
            BY <1>4 DEF OpenReport, OpenFile
        <3>2. \A r \in Reports : [built EXCEPT ![c].report = r]
                                    \in [Capture -> [report : Reports, manifest : Sums]]
            BY ONLY <1>a, c \in Capture, BuiltUpdate
        <3> QED BY <2>1, <3>1, <3>2
    <2>3. \A d \in Capture : open'[d] => d \in Running'
        BY <1>4 DEF OpenReport, OpenFile
    <2> QED BY <1>4, <2>1, <2>2, <2>3 DEF OpenReport, OpenFile, importing, Reports
<1>5. ASSUME NEW c \in Capture, OpenManifest(c)
      PROVE  EvidenceTypeOK' /\ EvidenceShapes'
    <2>1. [synthetic |-> given[c].synthetic, sha256 |-> recommend] \in Sums /\ NoSums \in Sums
        BY EvidenceAssumption DEF NoSums, Unread, Sums
    <2>2. built' \in [Capture -> [report : Reports, manifest : Sums]]
        <3>1. built' = [built EXCEPT ![c].manifest =
                            [synthetic |-> given[c].synthetic, sha256 |-> recommend]]
            BY <1>5 DEF OpenManifest, OpenFile
        <3>2. \A s \in Sums : [built EXCEPT ![c].manifest = s]
                                  \in [Capture -> [report : Reports, manifest : Sums]]
            BY ONLY <1>a, c \in Capture, BuiltUpdate
        <3> QED BY <2>1, <3>1, <3>2
    <2>3. \A d \in Capture : open'[d] => d \in Running'
        BY <1>5 DEF OpenManifest, OpenFile
    <2> QED BY <1>5, <2>1, <2>2, <2>3 DEF OpenManifest, OpenFile, importing, Sums
<1>6. ASSUME NEW c \in Capture, WriteReport(c)
      PROVE  EvidenceTypeOK' /\ EvidenceShapes'
    <2>1. /\ captured' \in [Capture -> -1..CutShort] /\ open' \in [Capture -> BOOLEAN]
          /\ \A d \in Capture : open'[d] => d \in Running'
        BY <1>6 DEF WriteReport
    <2>2. report' \in Reports /\ report'.system \in 0..Systems
        BY <1>6, <1>a DEF WriteReport, Reports
    <2>3. /\ UNCHANGED <<built, given, system, recommend, manifest, step, useCase, loaded, inbox, raced, mingled>>
          /\ shared' = shared /\ open' = [open EXCEPT ![c] = FALSE] /\ c \notin shared
        BY <1>6 DEF WriteReport, importing
    <2> QED BY <2>1, <2>2, <2>3
<1>7. ASSUME NEW c \in Capture, WriteManifest(c)
      PROVE  EvidenceTypeOK' /\ EvidenceShapes'
    <2>1. /\ captured' \in [Capture -> -1..CutShort] /\ open' \in [Capture -> BOOLEAN]
          /\ \A d \in Capture : open'[d] => d \in Running'
        BY <1>7 DEF WriteManifest
    <2>2. manifest' \in Sums /\ manifest'.sha256 \in [UseCase -> 0..Outputs]
        BY <1>7, <1>a DEF WriteManifest, Sums
    <2>3. /\ UNCHANGED <<built, given, system, recommend, report, step, useCase, loaded, inbox, raced, mingled>>
          /\ shared' = shared /\ open' = [open EXCEPT ![c] = FALSE] /\ c \notin shared
        BY <1>7 DEF WriteManifest, importing
    <2> QED BY <2>1, <2>2, <2>3
<1>8. ASSUME NEW c \in Capture, WriteShared(c) \/ FailCapture(c)
      PROVE  EvidenceTypeOK' /\ EvidenceShapes'
    <2>1. /\ open' = [open EXCEPT ![c] = FALSE] /\ shared' = shared \ {c} /\ c \in Running
          /\ UNCHANGED <<built, given, step, useCase, loaded, inbox, raced, mingled>>
          /\ captured' \in [Capture -> -1..CutShort]
          /\ \A d \in Capture \ {c} : captured'[d] = captured[d]
        BY <1>8 DEF WriteShared, FailCapture, importing
    <2>2. /\ system' \in 0..Systems /\ recommend' \in [UseCase -> 0..Outputs]
          /\ report' \in Reports /\ manifest' \in Sums
        BY <1>8, MixtureShapes DEF WriteShared, FailCapture, bundle
    <2>3. report'.system \in 0..Systems /\ manifest'.sha256 \in [UseCase -> 0..Outputs]
        BY <2>2 DEF Reports, Sums
    <2> QED BY <2>1, <2>2, <2>3
<1>9. ASSUME NEW i \in Import, BeginImport(i)
      PROVE  EvidenceTypeOK' /\ EvidenceShapes'
    BY <1>9 DEF BeginImport, bundle, capture
<1>10. ASSUME NEW i \in Import, LoadReport(i)
       PROVE  EvidenceTypeOK' /\ EvidenceShapes'
    <2>1. loaded' \in [Import -> [report : Reports, manifest : Sums, payload : Payloads]]
        <3>1. loaded' = [loaded EXCEPT ![i].report = report]
            BY <1>10 DEF LoadReport
        <3> QED BY ONLY <1>b, <1>c, <3>1, i \in Import, LoadedUpdate
    <2>2. step' \in [Import -> {"absent", "report", "manifest", "digest", "load", "insert",
                                "done", "failed"}]
        BY <1>10 DEF LoadReport
    <2> QED BY <1>10, <2>1, <2>2 DEF LoadReport, bundle, capture
<1>11. ASSUME NEW i \in Import, LoadManifest(i)
       PROVE  EvidenceTypeOK' /\ EvidenceShapes'
    <2>1. loaded' \in [Import -> [report : Reports, manifest : Sums, payload : Payloads]]
        <3>1. loaded' = [loaded EXCEPT ![i].manifest = manifest]
            BY <1>11 DEF LoadManifest
        <3> QED BY ONLY <1>b, <1>c, <3>1, i \in Import, LoadedUpdate
    <2>2. step' \in [Import -> {"absent", "report", "manifest", "digest", "load", "insert",
                                "done", "failed"}]
        BY <1>11 DEF LoadManifest
    <2> QED BY <1>11, <2>1, <2>2 DEF LoadManifest, bundle, capture
<1>12. ASSUME NEW i \in Import, CheckDigest(i)
       PROVE  EvidenceTypeOK' /\ EvidenceShapes'
    BY <1>12 DEF CheckDigest, bundle, capture
<1>13. ASSUME NEW i \in Import, LoadOutput(i)
       PROVE  EvidenceTypeOK' /\ EvidenceShapes'
    <2>1. useCase' \in [Import -> UseCase]
        BY <1>13 DEF LoadOutput, UseCase
    <2>2. recommend[useCase[i]] \in 0..Outputs
        OBVIOUS
    <2>3. loaded' = [loaded EXCEPT ![i].payload[useCase[i]] = recommend[useCase[i]]]
        BY <1>13 DEF LoadOutput
    <2>4. loaded' \in [Import -> [report : Reports, manifest : Sums, payload : Payloads]]
        <3>1. useCase[i] \in UseCase
            OBVIOUS
        <3> DEFINE p == [loaded[i].payload EXCEPT ![useCase[i]] = recommend[useCase[i]]]
        <3>2. p \in Payloads
            <4>1. loaded[i].payload \in [UseCase -> 0..Outputs]
                BY DEF Payloads
            <4> QED BY ONLY <2>2, <3>1, <4>1 DEF Payloads
        <3>3. loaded' = [loaded EXCEPT ![i].payload = p]
            BY <2>3
        <3> HIDE DEF p
        <3>4. \A q \in Payloads : [loaded EXCEPT ![i].payload = q]
                  \in [Import -> [report : Reports, manifest : Sums, payload : Payloads]]
            BY ONLY <1>b, i \in Import, PayloadUpdate
        <3> QED BY <3>2, <3>3, <3>4
    <2>5. step' \in [Import -> {"absent", "report", "manifest", "digest", "load", "insert",
                                "done", "failed"}]
        BY <1>13 DEF LoadOutput
    <2> QED BY <1>13, <2>1, <2>4, <2>5 DEF LoadOutput, bundle, capture
<1>14. ASSUME NEW i \in Import, InsertRows(i)
       PROVE  EvidenceTypeOK' /\ EvidenceShapes'
    <2>1. \A r, q \in inbox' : SameKey(r, q) => r = q
        <3>1. \A u, v \in UseCase : SameKey(EvidenceRow(i, u), EvidenceRow(i, v)) => u = v
            BY DEF SameKey, EvidenceRow
        <3>2. \A r, q : SameKey(r, q) <=> SameKey(q, r)
            BY DEF SameKey
        <3> QED BY <1>14, <3>1, <3>2 DEF InsertRows
    <2> QED BY <1>14, <2>1 DEF InsertRows, bundle, capture
<1>15. ASSUME NEW i \in Import, FailImport(i)
       PROVE  EvidenceTypeOK' /\ EvidenceShapes'
    BY <1>15 DEF FailImport, bundle, capture
<1> QED BY <1>1, <1>2, <1>3, <1>4, <1>5, <1>6, <1>7, <1>8, <1>9, <1>10, <1>11, <1>12, <1>13,
           <1>14, <1>15 DEF EvidenceNext

CaptureStep(c) ==
    \/ BeginCapture(c) \/ OpenOutput(c) \/ WriteOutput(c) \/ OpenReport(c) \/ WriteReport(c)
    \/ OpenManifest(c) \/ WriteManifest(c) \/ WriteShared(c) \/ FailCapture(c)

ImportStep(i) ==
    \/ BeginImport(i) \/ LoadReport(i) \/ LoadManifest(i) \/ CheckDigest(i) \/ LoadOutput(i)
    \/ InsertRows(i) \/ FailImport(i)

LEMMA EvidenceSteps ==
    EvidenceNext => \/ \E c \in Capture : CaptureStep(c)
                    \/ \E i \in Import : ImportStep(i)
BY DEF EvidenceNext, CaptureStep, ImportStep

\* What one capture does to the others: nothing.
LEMMA OwnStep ==
    ASSUME EvidenceTypeOK, EvidenceShapes, NEW c \in Capture, CaptureStep(c)
    PROVE  /\ captured[c] \in {-1} \cup 0..ManifestFile
           /\ \A d \in Capture \ {c} :
                 /\ captured'[d] = captured[d] /\ open'[d] = open[d]
                 /\ built'[d] = built[d] /\ given'[d] = given[d]
           /\ captured[c] > UseCases => given' = given
           /\ UNCHANGED <<importing, inbox>>
<1> USE FileNumbers DEF EvidenceTypeOK, EvidenceShapes, Running
<1>1. CASE BeginCapture(c)
    BY <1>1 DEF BeginCapture, bundle
<1>2. CASE OpenOutput(c)
    BY <1>2 DEF OpenOutput, OpenFile
<1>3. CASE WriteOutput(c)
    BY <1>3 DEF WriteOutput
<1>4. CASE OpenReport(c)
    BY <1>4 DEF OpenReport, OpenFile
<1>5. CASE OpenManifest(c)
    BY <1>5 DEF OpenManifest, OpenFile
<1>6. CASE WriteReport(c)
    BY <1>6 DEF WriteReport
<1>7. CASE WriteManifest(c)
    BY <1>7 DEF WriteManifest
<1>8. CASE WriteShared(c) \/ FailCapture(c)
    BY <1>8 DEF WriteShared, FailCapture
<1> QED BY <1>1, <1>2, <1>3, <1>4, <1>5, <1>6, <1>7, <1>8 DEF CaptureStep

LEMMA NextFile ==
    ASSUME EvidenceTypeOK, NEW c \in Capture, CaptureStep(c)
    PROVE  /\ captured'[c] \in {captured[c], captured[c] + 1, CutShort}
           /\ captured'[c] = CutShort <=> FailCapture(c) /\ c \in Running
<1> USE FileNumbers DEF EvidenceTypeOK, Running
<1> QED BY DEF CaptureStep, BeginCapture, OpenOutput, OpenFile, WriteOutput, OpenReport, OpenManifest,
               WriteReport, WriteManifest, WriteShared, Mixture, FailCapture

\* A capture that has written its outputs keeps them, and one that has broken off
\* has broken off.
LEMMA SettledStay ==
    ASSUME EvidenceTypeOK, EvidenceShapes, EvidenceNext
    PROVE  /\ \A d \in Settled : d \in Settled' /\ given'[d] = given[d]
           /\ \A d \in Capture : captured[d] \in {Complete, CutShort} => captured'[d] = captured[d]
           /\ TwoCut => TwoCut'
<1> USE FileNumbers DEF EvidenceTypeOK
<1>1. ASSUME NEW c \in Capture, CaptureStep(c)
      PROVE  /\ \A d \in Settled : d \in Settled' /\ given'[d] = given[d]
             /\ \A d \in Capture : captured[d] \in {Complete, CutShort} => captured'[d] = captured[d]
    BY <1>1, OwnStep, NextFile DEF Settled
<1>2. ASSUME NEW i \in Import, ImportStep(i)
      PROVE  captured' = captured /\ given' = given
    BY <1>2 DEF ImportStep, BeginImport, LoadReport, LoadManifest, CheckDigest, LoadOutput,
                InsertRows, FailImport, capture
<1>3. /\ \A d \in Settled : d \in Settled' /\ given'[d] = given[d]
      /\ \A d \in Capture : captured[d] \in {Complete, CutShort} => captured'[d] = captured[d]
    BY <1>1, <1>2, EvidenceSteps DEF Settled
<1> QED BY <1>3 DEF TwoCut

\* Until captures overlap, one begins when none runs.
Enters(c) == captured[c] = -1 => Running = {}

LEMMA AloneStep ==
    ASSUME EvidenceTypeOK, EvidenceShapes, OneWriter, NEW c \in Capture, CaptureStep(c), Enters(c)
    PROVE  OneWriter' /\ (captured[c] # -1 => Running = {c})
<1> USE FileNumbers DEF EvidenceTypeOK, Running, OneWriter, Enters
<1>1. CASE captured[c] = -1
    BY <1>1, OwnStep DEF CaptureStep, BeginCapture, OpenOutput, OpenFile, WriteOutput, OpenReport,
               OpenManifest, WriteReport, WriteManifest, WriteShared, FailCapture, UseCase
<1>2. CASE captured[c] # -1
    <2>1. c \in Running
        BY <1>2, OwnStep
    <2>2. shared' = {}
        BY <1>2, <2>1 DEF CaptureStep, BeginCapture, OpenOutput, OpenFile, WriteOutput, OpenReport,
               OpenManifest, WriteReport, WriteManifest, WriteShared, FailCapture
    <2> QED BY <2>1, <2>2, OwnStep
<1> QED BY <1>1, <1>2

LEMMA OwnOutputs ==
    ASSUME EvidenceTypeOK, EvidenceShapes, OwnFiles, NEW c \in Running, captured[c] > UseCases
    PROVE  recommend = given[c].recommend
<1>1. recommend \in [UseCase -> 0..Outputs] /\ given[c].recommend \in [UseCase -> 0..Outputs]
    BY DEF EvidenceTypeOK, EvidenceShapes, Payloads, Running
<1>2. \A u \in UseCase : captured[c] > u
    BY FileNumbers DEF EvidenceTypeOK, Running, UseCase
<1>3. \A u \in UseCase : recommend[u] = given[c].recommend[u]
    BY <1>2 DEF OwnFiles
<1> QED BY <1>1, <1>3

LEMMA OwnFilesStep ==
    ASSUME EvidenceTypeOK, EvidenceShapes, OneWriter, OwnFiles, NEW c \in Capture, CaptureStep(c), Enters(c)
    PROVE  OwnFiles'
<1> USE FileNumbers DEF EvidenceTypeOK, Running, OwnFiles
<1>0. \A d \in Running' : d = c
    <2>1. CASE captured[c] = -1
        BY <2>1, OwnStep DEF Enters, CaptureStep, BeginCapture, OpenOutput, OpenFile, WriteOutput, OpenReport,
                   OpenManifest, WriteReport, WriteManifest, WriteShared, Mixture, FailCapture, UseCase
    <2>2. CASE captured[c] # -1
        BY <2>2, AloneStep, OwnStep
    <2> QED BY <2>1, <2>2
<1>1. CASE BeginCapture(c)
    BY <1>0, <1>1 DEF BeginCapture
<1>2. CASE OpenOutput(c)
    BY <1>0, <1>2 DEF OpenOutput, OpenFile
<1>3. CASE WriteOutput(c)
    <2>1. /\ captured'[c] = captured[c] + 1 /\ captured[c] \in {0} \cup UseCase /\ ~open'[c]
          /\ report' = report
        BY <1>3 DEF WriteOutput
    <2>2. CASE captured[c] = 0
        BY <1>0, <1>3, <2>1, <2>2 DEF WriteOutput
    <2>3. ASSUME captured[c] \in UseCase, NEW t \in Output,
                 recommend' = [recommend EXCEPT ![captured[c]] = t],
                 given' = [given EXCEPT ![c].recommend[captured[c]] = t], system' = system
          PROVE  OwnFiles'
        <3>1. recommend'[captured[c]] = t /\ given'[c].recommend[captured[c]] = t
            BY <2>3 DEF EvidenceShapes, Payloads
        <3>2. \A u \in UseCase \ {captured[c]} :
                  recommend'[u] = recommend[u] /\ given'[c].recommend[u] = given[c].recommend[u]
            BY <2>3 DEF EvidenceShapes, Payloads
        <3>3. given'[c].system = given[c].system
            BY <2>3 DEF EvidenceShapes
        <3>4. c \in Running /\ captured[c] > 0
            BY <2>3
        <3>5. \A u \in UseCase : captured'[c] > u => recommend'[u] = given'[c].recommend[u]
            BY <2>1, <3>1, <3>2, <3>4
        <3>6. captured'[c] # ManifestFile /\ system' = given'[c].system
            BY <2>1, <2>3, <3>3, <3>4
        <3> QED BY <1>0, <2>1, <3>5, <3>6
    <2> QED BY <1>3, <2>2, <2>3 DEF WriteOutput
<1>4. CASE OpenReport(c)
    <2>1. /\ captured[c] = ReportFile /\ report' = Absent /\ c \in Running
          /\ built' = [built EXCEPT ![c].report = [system |-> system, synthetic |-> given[c].synthetic]]
          /\ UNCHANGED <<captured, given, system, recommend, manifest>>
        BY <1>4 DEF OpenReport, OpenFile
    <2>2. system = given[c].system
        BY <2>1
    <2>3. built'[c].report = [system |-> system, synthetic |-> given[c].synthetic]
        BY <2>1 DEF EvidenceShapes
    <2>4. built'[c].report = ReportOf(c)'
        BY <2>1, <2>2, <2>3 DEF ReportOf
    <2> QED BY <1>0, <2>1, <2>4
<1>5. CASE OpenManifest(c)
    <2>1. recommend = given[c].recommend
        BY <1>5, OwnOutputs DEF OpenManifest, OpenFile
    <2>2. /\ captured[c] = ManifestFile /\ c \in Running
          /\ built' = [built EXCEPT ![c].manifest =
                            [synthetic |-> given[c].synthetic, sha256 |-> recommend]]
          /\ UNCHANGED <<captured, given, system, recommend, report>>
        BY <1>5 DEF OpenManifest, OpenFile
    <2>3. built'[c].manifest = SumsOf(c)'
        BY <2>1, <2>2 DEF SumsOf, EvidenceShapes
    <2>4. report' = ReportOf(c)'
        BY <2>2 DEF ReportOf
    <2> QED BY <1>0, <2>2, <2>3, <2>4
<1>6. CASE WriteReport(c)
    BY <1>0, <1>6 DEF WriteReport, ReportOf
<1>7. CASE WriteManifest(c)
    BY <1>0, <1>7 DEF WriteManifest
<1>8. CASE FailCapture(c)
    BY <1>0, <1>8 DEF FailCapture
<1> QED BY <1>1, <1>2, <1>3, <1>4, <1>5, <1>6, <1>7, <1>8 DEF CaptureStep, OneWriter, WriteShared

LEMMA FilesOf ==
    ASSUME NEW d, given'[d] = given[d]
    PROVE  ReportOf(d)' = ReportOf(d) /\ SumsOf(d)' = SumsOf(d)
BY DEF ReportOf, SumsOf

LEMMA AuthorsStep ==
    ASSUME EvidenceTypeOK, EvidenceShapes, OneWriter, OwnFiles, Authors, EvidenceNext,
           NEW c \in Capture, CaptureStep(c), Enters(c)
    PROVE  Authors'
<1> USE FileNumbers DEF EvidenceTypeOK, Running
<1>0. ~WriteShared(c) /\ c \notin shared
    BY DEF OneWriter, WriteShared
<1>1. \A d \in Settled : d \in Settled' /\ ReportOf(d)' = ReportOf(d) /\ SumsOf(d)' = SumsOf(d)
    BY SettledStay, FilesOf
<1>a. ASSUME manifest # NoSums
      PROVE  \E m \in Settled' : captured'[m] = Complete /\ manifest = SumsOf(m)'
    <2>1. PICK m \in Settled : captured[m] = Complete /\ manifest = SumsOf(m)
        BY <1>a DEF Authors
    <2>2. captured'[m] = Complete
        BY <2>1, SettledStay DEF Settled
    <2> QED BY <1>1, <2>1, <2>2
<1>b. ASSUME report # Absent
      PROVE  \E d \in Settled' : report = ReportOf(d)'
    BY <1>1, <1>b DEF Authors
<1>2. CASE manifest' = manifest /\ report' = report
    BY <1>2, <1>a, <1>b DEF Authors
<1>3. CASE OpenReport(c)
    BY <1>3, <1>a DEF Authors, OpenReport, OpenFile
<1>4. CASE OpenManifest(c)
    BY <1>4, <1>b DEF Authors, OpenManifest, OpenFile
<1>5. CASE WriteReport(c)
    <2>1. c \in Settled' /\ report' = ReportOf(c) /\ manifest' = manifest /\ given' = given
        BY <1>5 DEF WriteReport, Settled, OwnFiles
    <2>2. report' = ReportOf(c)'
        BY <2>1 DEF ReportOf
    <2> QED BY <1>a, <2>1, <2>2 DEF Authors
<1>6. CASE WriteManifest(c)
    <2>1. /\ c \in Settled' /\ captured'[c] = Complete /\ manifest' = SumsOf(c)
          /\ report' = report /\ given' = given
        BY <1>6 DEF WriteManifest, Settled, OwnFiles
    <2>2. manifest' = SumsOf(c)'
        BY <2>1 DEF SumsOf
    <2> QED BY <1>b, <2>1, <2>2 DEF Authors
<1> QED BY <1>0, <1>2, <1>3, <1>4, <1>5, <1>6 DEF CaptureStep, BeginCapture, OpenOutput,
           WriteOutput, FailCapture, bundle

LEMMA OneCaptureStep ==
    ASSUME EvidenceTypeOK, EvidenceShapes, OneWriter, OwnFiles, OfOneCapture, EvidenceNext,
           NEW c \in Capture, CaptureStep(c), Enters(c)
    PROVE  OfOneCapture'
<1> USE FileNumbers DEF EvidenceTypeOK, Running
<1>1. \A d \in Settled : /\ d \in Settled' /\ ReportOf(d)' = ReportOf(d) /\ SumsOf(d)' = SumsOf(d)
                         /\ given'[d] = given[d]
    BY SettledStay, FilesOf
<1>2. \A d \in Capture : captured[d] \in {Complete, CutShort} => captured'[d] = captured[d]
    BY SettledStay
<1>3. CASE BeginCapture(c)
    <2>1. UNCHANGED <<manifest, report, recommend>> /\ c \in Running'
        BY <1>3 DEF BeginCapture, bundle
    <2>2. \A d \in Settled : captured'[d] = captured[d]
        BY <1>3 DEF BeginCapture, Settled
    <2> QED BY <1>1, <1>2, <2>1, <2>2, SettledStay DEF OfOneCapture, Settled
<1>4. CASE OpenOutput(c) \/ WriteOutput(c)
    <2>1. UNCHANGED <<manifest, report>> /\ c \in Running' /\ c \in Running /\ captured[c] <= UseCases
        BY <1>4 DEF OpenOutput, OpenFile, WriteOutput
    <2>2. \A d \in Settled : captured[d] = ManifestFile => FALSE
        BY <2>1 DEF OneWriter, Settled
    <2> QED BY <1>1, <1>2, <2>1, <2>2, SettledStay DEF OfOneCapture, Settled
<1>5. CASE OpenReport(c)
    BY <1>5 DEF OpenReport, OpenFile, OfOneCapture
<1>6. CASE WriteReport(c)
    <2>1. /\ c \in Settled' /\ captured'[c] = ManifestFile /\ report' = ReportOf(c)
          /\ recommend' = recommend /\ given' = given
        BY <1>6 DEF WriteReport, Settled, OwnFiles
    <2>2. recommend = given[c].recommend
        BY <1>6, OwnOutputs DEF WriteReport
    <2>3. report' = ReportOf(c)'
        BY <2>1 DEF ReportOf
    <2> QED BY <2>1, <2>2, <2>3 DEF OfOneCapture
<1>7. CASE OpenManifest(c)
    BY <1>7 DEF OpenManifest, OpenFile, OfOneCapture
<1>8. CASE WriteManifest(c)
    <2>1. /\ c \in Settled' /\ captured'[c] = Complete /\ manifest' = SumsOf(c)
          /\ report' = ReportOf(c) /\ given' = given
        BY <1>8 DEF WriteManifest, Settled, OwnFiles
    <2>2. manifest' = SumsOf(c)' /\ report' = ReportOf(c)'
        BY <2>1 DEF SumsOf, ReportOf
    <2> QED BY <2>1, <2>2 DEF OfOneCapture
<1>9. CASE FailCapture(c)
    <2>1. UNCHANGED <<manifest, report, recommend>> /\ captured' = [captured EXCEPT ![c] = CutShort]
        BY <1>9 DEF FailCapture, OneWriter, bundle
    <2>2. captured[c] # CutShort /\ captured'[c] = CutShort
        BY <1>9, <2>1 DEF FailCapture
    <2>3. ASSUME NEW b \in Capture, captured[b] = CutShort
          PROVE  TwoCut'
        BY <2>1, <2>2, <2>3 DEF TwoCut
    <2>4. ASSUME NEW d \in Settled, captured[d] \in {ManifestFile, CutShort}
          PROVE  captured'[d] \in {ManifestFile, CutShort}
        BY <2>1, <2>4
    <2> QED BY <1>1, <1>2, <2>1, <2>3, <2>4, SettledStay DEF OfOneCapture, Settled
<1> QED BY <1>3, <1>4, <1>5, <1>6, <1>7, <1>8, <1>9 DEF CaptureStep, OneWriter, WriteShared

\* A capture begins beside the imports that check a bundle, which are then raced,
\* and takes no other step while there are any.
LEMMA RestBesideCapture ==
    ASSUME EvidenceTypeOK, EvidenceShapes, BundleAtRest, NEW c \in Capture, CaptureStep(c)
    PROVE  BundleAtRest'
<1>1. UNCHANGED <<step, useCase, loaded>>
    BY OwnStep DEF importing
<1>2. raced \subseteq raced' /\ (captured[c] = -1 => Checking \subseteq raced')
    BY FileNumbers DEF EvidenceTypeOK, Running, CaptureStep, BeginCapture, OpenOutput, OpenFile, WriteOutput,
       OpenReport, OpenManifest, WriteReport, WriteManifest, WriteShared, Mixture, FailCapture, UseCase
<1>3. captured[c] # -1 => c \in Running
    BY OwnStep DEF Running
<1>4. ASSUME NEW i \in Import \ raced'
      PROVE  i \in Import \ raced /\ i \notin Checking
    BY <1>2, <1>3, <1>4 DEF BundleAtRest
<1> QED BY <1>1, <1>4 DEF BundleAtRest, Checking

LEMMA RestBesideImport ==
    ASSUME EvidenceTypeOK, EvidenceShapes, BundleAtRest, NEW i \in Import, ImportStep(i)
    PROVE  BundleAtRest'
<1> USE FileNumbers DEF EvidenceTypeOK
<1>1. UNCHANGED <<bundle, capture>>
    BY DEF ImportStep, BeginImport, LoadReport, LoadManifest, CheckDigest, LoadOutput, InsertRows,
           FailImport
<1>2. /\ Running' = Running /\ UNCHANGED <<recommend, report, manifest>>
      /\ raced \subseteq raced'
    BY <1>1 DEF bundle, capture, Running, ImportStep, BeginImport, LoadReport, LoadManifest,
           CheckDigest, LoadOutput, InsertRows, FailImport
<1>3. \A j \in Import \ {i} : step'[j] = step[j] /\ useCase'[j] = useCase[j] /\ loaded'[j] = loaded[j]
    BY DEF EvidenceShapes, ImportStep, BeginImport, LoadReport, LoadManifest, CheckDigest, LoadOutput,
           InsertRows, FailImport
<1> DEFINE Rest ==
        /\ i \in Checking => Running = {}
        /\ step[i] \in {"absent", "report", "manifest"} => useCase[i] = 1
        /\ step[i] \in {"manifest", "digest", "load", "insert"} =>
              report # Absent /\ loaded[i].report = report
        /\ step[i] \in {"digest", "load", "insert"} =>
              /\ manifest # NoSums /\ loaded[i].manifest = manifest
              /\ manifest.synthetic = report.synthetic
        /\ step[i] \in {"digest", "load"} =>
              \A u \in UseCase : u < useCase[i] =>
                  recommend[u] = manifest.sha256[u] /\ loaded[i].payload[u] = recommend[u]
        /\ step[i] = "load" => recommend[useCase[i]] = manifest.sha256[useCase[i]]
        /\ step[i] = "insert" =>
              recommend = manifest.sha256 /\ loaded[i].payload = recommend
<1>4. ASSUME i \notin raced'
      PROVE  Rest'
    <2>0. Rest
        BY <1>2, <1>4 DEF BundleAtRest
    <2>1. CASE BeginImport(i)
        <3>1. step'[i] = "report" /\ Running = {}
            BY <1>4, <2>1 DEF BeginImport
        <3>2. step[i] = "absent" /\ useCase' = useCase
            BY <2>1 DEF BeginImport
        <3> QED BY <1>2, <2>0, <3>1, <3>2 DEF Checking
    <2>2. CASE LoadReport(i)
        <3>1. /\ step[i] = "report" /\ step'[i] = "manifest" /\ report # Absent
              /\ useCase' = useCase
            BY <2>2 DEF LoadReport
        <3>2. loaded'[i].report = report
            BY <2>2 DEF LoadReport, EvidenceShapes
        <3> QED BY <1>2, <2>0, <3>1, <3>2 DEF Checking
    <2>3. CASE LoadManifest(i)
        <3>1. /\ step[i] = "manifest" /\ step'[i] = "digest" /\ manifest # NoSums
              /\ manifest.synthetic = loaded[i].report.synthetic /\ useCase' = useCase
            BY <2>3 DEF LoadManifest
        <3>2. loaded'[i].manifest = manifest /\ loaded'[i].report = loaded[i].report
            BY <2>3 DEF LoadManifest, EvidenceShapes
        <3>3. useCase[i] = 1
            BY <2>0, <3>1
        <3>4. \A u \in UseCase : ~(u < useCase'[i])
            BY <3>1, <3>3 DEF UseCase
        <3> QED BY <1>2, <2>0, <3>1, <3>2, <3>4 DEF Checking
    <2>4. CASE CheckDigest(i)
        <3>1. /\ step[i] = "digest" /\ step'[i] = "load" /\ useCase' = useCase /\ loaded' = loaded
              /\ recommend[useCase[i]] = loaded[i].manifest.sha256[useCase[i]]
            BY <2>4 DEF CheckDigest
        <3> QED BY <1>2, <2>0, <3>1 DEF Checking
    <2>5. CASE LoadOutput(i)
        <3> DEFINE w == useCase[i]
        <3>1. /\ step[i] = "load" /\ w \in UseCase
              /\ step'[i] = (IF w = UseCases THEN "insert" ELSE "digest")
              /\ useCase'[i] = (IF w = UseCases THEN w ELSE w + 1)
              /\ loaded' = [loaded EXCEPT ![i].payload[w] = recommend[w]]
            BY <2>5 DEF LoadOutput
        <3>2. /\ loaded'[i].report = loaded[i].report /\ loaded'[i].manifest = loaded[i].manifest
              /\ loaded'[i].payload = [loaded[i].payload EXCEPT ![w] = recommend[w]]
            BY <3>1 DEF EvidenceShapes
        <3>3. /\ loaded[i].payload \in [UseCase -> 0..Outputs] /\ recommend \in [UseCase -> 0..Outputs]
              /\ manifest.sha256 \in [UseCase -> 0..Outputs]
            BY DEF EvidenceShapes, Payloads
        <3>4. ASSUME NEW u \in UseCase, u <= w
              PROVE  recommend[u] = manifest.sha256[u] /\ loaded'[i].payload[u] = recommend[u]
            <4>1. loaded'[i].payload[u] = IF u = w THEN recommend[u] ELSE loaded[i].payload[u]
                BY <3>2, <3>3
            <4>2. CASE u = w
                BY <2>0, <3>1, <4>1, <4>2
            <4>3. CASE u < w
                BY <2>0, <3>1, <4>1, <4>3
            <4> QED BY <3>4, <4>2, <4>3 DEF UseCase
        <3>5. CASE w = UseCases
            <4>1. \A u \in UseCase : u <= w
                BY <3>5 DEF UseCase
            <4>2. \A u \in UseCase :
                      recommend[u] = manifest.sha256[u] /\ loaded'[i].payload[u] = recommend[u]
                BY <3>4, <4>1
            <4>3. loaded'[i].payload \in [UseCase -> 0..Outputs]
                BY <3>1, <3>2, <3>3
            <4>4. recommend = manifest.sha256 /\ loaded'[i].payload = recommend
                BY ONLY <3>3, <4>2, <4>3
            <4> QED BY <1>2, <2>0, <3>1, <3>2, <3>5, <4>4 DEF Checking
        <3>6. CASE w # UseCases
            <4>1. useCase'[i] = w + 1 /\ step'[i] = "digest" /\ w \in Nat
                BY <3>1, <3>6 DEF UseCase
            <4>2. \A u \in UseCase : u < useCase'[i] => u <= w
                BY <4>1 DEF UseCase
            <4> QED BY <1>2, <2>0, <3>1, <3>2, <3>4, <4>1, <4>2 DEF Checking
        <3> QED BY <3>5, <3>6
    <2>6. CASE InsertRows(i) \/ FailImport(i)
        <3>1. step'[i] \in {"done", "failed"}
            BY <2>6 DEF InsertRows, FailImport
        <3> QED BY <3>1 DEF Checking
    <2> QED BY <2>1, <2>2, <2>3, <2>4, <2>5, <2>6 DEF ImportStep
<1>5. ASSUME NEW j \in Import \ raced', j # i
      PROVE  j \in Import \ raced /\ (j \in Checking' <=> j \in Checking)
    BY <1>2, <1>3, <1>5 DEF Checking
<1> QED BY <1>2, <1>3, <1>4, <1>5 DEF BundleAtRest

LEMMA InsertedOnceStep ==
    ASSUME EvidenceTypeOK, InsertedOnce, EvidenceNext
    PROVE  InsertedOnce'
<1> USE DEF EvidenceTypeOK, InsertedOnce
<1>1. ASSUME NEW c \in Capture, CaptureStep(c)
      PROVE  InsertedOnce'
    BY <1>1 DEF CaptureStep, BeginCapture, OpenOutput, OpenFile, WriteOutput, OpenReport,
                   OpenManifest, WriteReport, WriteManifest, WriteShared, Mixture, FailCapture, importing
<1>2. ASSUME NEW i \in Import, ImportStep(i)
      PROVE  InsertedOnce'
    <2>1. CASE InsertRows(i)
        BY <2>1 DEF InsertRows, EvidenceRow
    <2>2. CASE ~InsertRows(i)
        BY <1>2, <2>2 DEF ImportStep, BeginImport, LoadReport, LoadManifest, CheckDigest, LoadOutput,
               FailImport, Checking
    <2> QED BY <2>1, <2>2
<1> QED BY <1>1, <1>2, EvidenceSteps

\* The rows that an import puts in the inbox from a bundle at rest.
LEMMA RowsOfOneCapture ==
    ASSUME EvidenceTypeOK, EvidenceShapes, Authors, OfOneCapture, BundleAtRest,
           NEW i \in Import \ raced, step[i] = "insert"
    PROVE  \E c, d \in Settled : /\ Observed({EvidenceRow(i, u) : u \in UseCase}, c, d)
                                 /\ c = d \/ TwoCut
<1>1. /\ Running = {} /\ report # Absent /\ manifest # NoSums /\ manifest.synthetic = report.synthetic
      /\ loaded[i].report = report /\ loaded[i].manifest = manifest
      /\ recommend = manifest.sha256 /\ loaded[i].payload = recommend
    BY DEF BundleAtRest, Checking
<1>2. \A r \in {EvidenceRow(i, u) : u \in UseCase} :
          /\ r.source_payload = manifest.sha256[r.use_case] /\ r.evidence_sha256 = r.source_payload
          /\ r.hardware_fingerprint = report.system
          /\ r.synthetic = report.synthetic /\ r.synthetic = manifest.synthetic
    BY <1>1 DEF EvidenceRow
<1>3. ASSUME NEW m \in Settled, manifest = SumsOf(m), NEW d \in Settled, report = ReportOf(d)
      PROVE  Observed({EvidenceRow(i, u) : u \in UseCase}, m, d)
    BY <1>2, <1>3 DEF Observed, SumsOf, ReportOf
<1>4. PICK m \in Settled : manifest = SumsOf(m)
    BY <1>1 DEF Authors
<1>5. PICK d \in Settled : report = ReportOf(d)
    BY <1>1 DEF Authors
<1>6. CASE TwoCut
    BY <1>3, <1>4, <1>5, <1>6
<1>7. ASSUME NEW c \in Settled, manifest = SumsOf(c), report = ReportOf(c)
      PROVE  Observed({EvidenceRow(i, u) : u \in UseCase}, c, c)
    BY <1>3, <1>7
<1>8. ASSUME NEW c \in Settled, report = ReportOf(c), recommend = given[c].recommend
      PROVE  Observed({EvidenceRow(i, u) : u \in UseCase}, c, c)
    BY <1>1, <1>2, <1>8 DEF Observed, ReportOf
<1> QED BY <1>1, <1>6, <1>7, <1>8 DEF OfOneCapture

LEMMA SettledRowsStep ==
    ASSUME EvidenceTypeOK, EvidenceShapes, Apart => Authors /\ OfOneCapture, BundleAtRest,
           InsertedOnce, SettledRows, EvidenceNext
    PROVE  SettledRows'
<1> DEFINE Claimed == Import \ (raced \cup mingled)
<1>1. Claimed' \subseteq Claimed
    <2>1. CASE \E c \in Capture : BeginCapture(c)
        BY <2>1 DEF BeginCapture
    <2>2. CASE \E i \in Import : BeginImport(i)
        BY <2>2 DEF BeginImport
    <2>3. CASE UNCHANGED <<raced, mingled>>
        BY <2>3
    <2>4. CASE \E c \in Capture :
                  \/ OpenOutput(c) \/ WriteOutput(c) \/ OpenReport(c) \/ WriteReport(c)
                  \/ OpenManifest(c) \/ WriteManifest(c) \/ WriteShared(c) \/ FailCapture(c)
        BY <2>3, <2>4 DEF OpenOutput, WriteOutput, OpenReport, OpenManifest, WriteReport,
           WriteManifest, WriteShared, FailCapture
    <2>5. CASE \E i \in Import :
                  \/ LoadReport(i) \/ LoadManifest(i) \/ CheckDigest(i) \/ LoadOutput(i)
                  \/ InsertRows(i) \/ FailImport(i)
        BY <2>3, <2>5 DEF LoadReport, LoadManifest, CheckDigest, LoadOutput, InsertRows,
           FailImport
    <2> QED BY <2>1, <2>2, <2>4, <2>5 DEF EvidenceNext
<1> DEFINE Later(put, c, d) ==
        \A r \in put : /\ r.source_payload = given'[c].recommend[r.use_case]
                        /\ r.evidence_sha256 = r.source_payload
                        /\ r.hardware_fingerprint = given'[d].system
                        /\ r.synthetic = given'[c].synthetic /\ r.synthetic = given'[d].synthetic
           OneOrTwo(put) == \E a, b \in Settled' : Later(put, a, b) /\ (a = b \/ TwoCut')
<1>2. ASSUME NEW c \in Settled, NEW d \in Settled, NEW put, Observed(put, c, d), c = d \/ TwoCut
      PROVE  OneOrTwo(put)
    <2>1. c \in Settled' /\ d \in Settled' /\ given'[c] = given[c] /\ given'[d] = given[d]
        BY SettledStay
    <2>2. Later(put, c, d)
        BY <1>2, <2>1 DEF Observed
    <2> QED BY <1>2, <2>1, <2>2, SettledStay
<1>3. ASSUME \A i \in Claimed' : RowsOf(i)' # {} => OneOrTwo(RowsOf(i)')
      PROVE  SettledRows'
    BY <1>3 DEF SettledRows, Observed
<1> HIDE DEF OneOrTwo
<1>4. ASSUME NEW i \in Claimed', RowsOf(i)' = RowsOf(i), RowsOf(i) # {}
      PROVE  OneOrTwo(RowsOf(i)')
    <2>1. PICK c, d \in Settled : Observed(RowsOf(i), c, d) /\ (c = d \/ TwoCut)
        BY <1>1, <1>4 DEF SettledRows
    <2>2. OneOrTwo(RowsOf(i))
        BY <1>2, <2>1
    <2> QED BY <1>4, <2>2
<1>5. CASE inbox' = inbox
    BY <1>3, <1>4, <1>5 DEF RowsOf
<1>6. ASSUME NEW i \in Import, InsertRows(i)
      PROVE  SettledRows'
    <2>1. /\ step[i] = "insert" /\ raced' = raced /\ mingled' = mingled
          /\ inbox' \subseteq inbox \cup {EvidenceRow(i, u) : u \in UseCase}
          /\ inbox \subseteq inbox'
        BY <1>6 DEF InsertRows
    <2>2. RowsOf(i) = {}
        BY <2>1 DEF RowsOf, InsertedOnce
    <2>3. RowsOf(i)' \subseteq {EvidenceRow(i, u) : u \in UseCase}
        BY <2>1, <2>2 DEF RowsOf
    <2>4. \A j \in Import \ {i} : RowsOf(j)' = RowsOf(j)
        <3>1. \A u : EvidenceRow(i, u).import = i
            BY DEF EvidenceRow
        <3> QED BY <2>1, <3>1 DEF RowsOf
    <2>5. ASSUME i \in Claimed
          PROVE  OneOrTwo(RowsOf(i)')
        <3>0. Authors /\ OfOneCapture
            BY <2>1, <2>5 DEF Apart
        <3>1. PICK c, d \in Settled : /\ Observed({EvidenceRow(i, u) : u \in UseCase}, c, d)
                                      /\ c = d \/ TwoCut
            BY <2>1, <2>5, <3>0, RowsOfOneCapture
        <3>2. OneOrTwo({EvidenceRow(i, u) : u \in UseCase})
            BY <1>2, <3>1
        <3> QED BY <2>3, <3>2 DEF OneOrTwo
    <2> QED BY <1>3, <1>4, <2>1, <2>4, <2>5
<1> QED BY <1>5, <1>6 DEF EvidenceNext, BeginCapture, OpenOutput, OpenFile, WriteOutput,
       OpenReport, OpenManifest, WriteReport, WriteManifest, WriteShared, Mixture, FailCapture, BeginImport, LoadReport,
       LoadManifest, CheckDigest, LoadOutput, FailImport

LEMMA DigestedStep ==
    ASSUME EvidenceTypeOK, BundleAtRest, RowsAsDigested, EvidenceNext
    PROVE  RowsAsDigested'
<1>1. raced \subseteq raced'
    BY DEF EvidenceNext, BeginCapture, OpenOutput, WriteOutput, OpenReport, OpenManifest, WriteReport,
       WriteManifest, WriteShared, FailCapture, BeginImport, LoadReport, LoadManifest, CheckDigest,
       LoadOutput, InsertRows, FailImport
<1>2. CASE inbox' = inbox
    BY <1>1, <1>2 DEF RowsAsDigested, RowsOf
<1>3. ASSUME NEW i \in Import, InsertRows(i)
      PROVE  RowsAsDigested'
    <2>1. /\ step[i] = "insert" /\ raced' = raced
          /\ inbox' \subseteq inbox \cup {EvidenceRow(i, u) : u \in UseCase}
        BY <1>3 DEF InsertRows
    <2>2. i \notin raced => /\ loaded[i].manifest = manifest
                            /\ recommend = manifest.sha256 /\ loaded[i].payload = recommend
        BY <2>1 DEF BundleAtRest
    <2>3. \A r \in {EvidenceRow(i, u) : u \in UseCase} :
              /\ r.import = i
              /\ i \notin raced => r.evidence_sha256 = r.source_payload
        BY <2>2 DEF EvidenceRow
    <2> QED BY <2>1, <2>3 DEF RowsAsDigested, RowsOf
<1> QED BY <1>2, <1>3 DEF EvidenceNext, BeginCapture, OpenOutput, WriteOutput, OpenReport,
       OpenManifest, WriteReport, WriteManifest, WriteShared, FailCapture, BeginImport, LoadReport,
       LoadManifest, CheckDigest, LoadOutput, FailImport

\* A capture that overlaps another leaves no import that may be claimed.
LEMMA ApartStep ==
    ASSUME EvidenceTypeOK, Apart'
    PROVE  /\ \A c \in Capture : CaptureStep(c) => Apart /\ Enters(c)
           /\ \A i \in Import : ImportStep(i) => Apart
<1> USE FileNumbers DEF EvidenceTypeOK, Apart
<1>1. ASSUME NEW c \in Capture, CaptureStep(c)
      PROVE  Apart /\ Enters(c)
    <2>1. CASE BeginCapture(c)
        BY <2>1 DEF BeginCapture, Enters, importing
    <2>2. CASE ~BeginCapture(c)
        <3>1. mingled' = mingled /\ step' = step /\ captured[c] # -1
            BY <1>1, <2>2 DEF CaptureStep, OpenOutput, OpenFile, WriteOutput, OpenReport,
               OpenManifest, WriteReport, WriteManifest, WriteShared, FailCapture, Running, importing
        <3> QED BY <3>1 DEF Enters
    <2> QED BY <2>1, <2>2
<1>2. ASSUME NEW i \in Import, ImportStep(i)
      PROVE  Apart
    BY <1>2 DEF ImportStep, BeginImport, LoadReport, LoadManifest, CheckDigest, LoadOutput,
                InsertRows, FailImport, Checking
<1> QED BY <1>1, <1>2

LEMMA EvidenceInvInit == EvidenceInit => EvidenceInv
<1> SUFFICES ASSUME EvidenceInit PROVE EvidenceInv
    OBVIOUS
<1> USE FileNumbers DEF EvidenceInit
<1>1. EvidenceTypeOK /\ EvidenceShapes
    <2>1. Unread \in [UseCase -> 0..Outputs] /\ 0 \in 0..Systems
        BY EvidenceAssumption DEF Unread
    <2>2. Absent \in Reports /\ NoSums \in Sums /\ Unread \in Payloads
        BY <2>1 DEF Absent, NoSums, Reports, Sums, Payloads
    <2>3. NoFiles \in [report : Reports, manifest : Sums, payload : Payloads]
        BY <2>2 DEF NoFiles
    <2>4. /\ built \in [Capture -> [report : Reports, manifest : Sums]]
          /\ loaded \in [Import -> [report : Reports, manifest : Sums, payload : Payloads]]
        BY <2>2, <2>3
    <2>5. given \in [Capture -> [system : System, synthetic : BOOLEAN, recommend : Payloads]]
        BY <2>2
    <2>6. report.system \in 0..Systems /\ manifest.sha256 \in [UseCase -> 0..Outputs]
        BY <2>1 DEF Absent, NoSums
    <2>7. 1 \in UseCase
        BY DEF UseCase
    <2>8. EvidenceShapes
        BY <2>2, <2>4, <2>5 DEF EvidenceShapes
    <2>9. EvidenceTypeOK
        BY <2>1, <2>6, <2>7 DEF EvidenceTypeOK
    <2> QED BY <2>8, <2>9
<1>2. Running = {} /\ \A i \in Import : step[i] = "absent" /\ useCase[i] = 1
    BY DEF Running
<1>3. /\ OneWriter /\ OwnFiles /\ Authors /\ OfOneCapture
      /\ InsertedOnce /\ SettledRows /\ RowsAsDigested
    BY <1>2 DEF OneWriter, OwnFiles, Authors, OfOneCapture, InsertedOnce, SettledRows, RowsAsDigested,
                RowsOf
<1>4. BundleAtRest
    BY <1>2 DEF BundleAtRest, Checking
<1> QED BY <1>1, <1>3, <1>4 DEF EvidenceInv

LEMMA EvidenceInvNext == EvidenceInv /\ [EvidenceNext]_evidenceVars => EvidenceInv'
<1>1. ASSUME EvidenceInv, EvidenceNext
      PROVE  EvidenceInv'
    <2> USE <1>1 DEF EvidenceInv
    <2>1. EvidenceTypeOK' /\ EvidenceShapes'
        BY EvidenceTypesStep
    <2>2. ASSUME NEW c \in Capture, CaptureStep(c)
          PROVE  /\ Apart' => OneWriter' /\ OwnFiles' /\ Authors' /\ OfOneCapture'
                 /\ BundleAtRest'
        <3>1. Apart' => Apart /\ Enters(c)
            BY <2>2, ApartStep
        <3> QED BY <2>2, <3>1, AloneStep, OwnFilesStep, AuthorsStep, OneCaptureStep, RestBesideCapture
    <2>3. ASSUME NEW i \in Import, ImportStep(i)
          PROVE  /\ Apart' => OneWriter' /\ OwnFiles' /\ Authors' /\ OfOneCapture'
                 /\ BundleAtRest'
        <3>1. UNCHANGED <<bundle, capture, shared>>
            BY <2>3 DEF ImportStep, BeginImport, LoadReport, LoadManifest, CheckDigest, LoadOutput,
                        InsertRows, FailImport
        <3>2. Apart' => Apart
            BY <2>3, ApartStep
        <3>3. OneWriter /\ OwnFiles /\ Authors /\ OfOneCapture
              => OneWriter' /\ OwnFiles' /\ Authors' /\ OfOneCapture'
            BY <3>1 DEF bundle, capture, OneWriter, OwnFiles, Authors, OfOneCapture, Running, Settled,
                        TwoCut, ReportOf, SumsOf
        <3> QED BY <2>3, <3>2, <3>3, RestBesideImport
    <2>4. InsertedOnce' /\ SettledRows' /\ RowsAsDigested'
        BY InsertedOnceStep, SettledRowsStep, DigestedStep
    <2> QED BY <2>1, <2>2, <2>3, <2>4, EvidenceSteps
<1>2. ASSUME EvidenceInv, UNCHANGED evidenceVars
      PROVE  EvidenceInv'
    <2> USE <1>2 DEF EvidenceInv, evidenceVars, bundle, capture, importing
    <2>1. EvidenceTypeOK' /\ EvidenceShapes'
        BY DEF EvidenceTypeOK, EvidenceShapes, Running
    <2>2. Apart' => OneWriter' /\ OwnFiles' /\ Authors' /\ OfOneCapture'
        BY DEF Apart, OneWriter, OwnFiles, Authors, OfOneCapture, Running, Settled, TwoCut, ReportOf,
               SumsOf
    <2>3. BundleAtRest' /\ InsertedOnce'
        BY DEF BundleAtRest, Checking, Running, InsertedOnce
    <2>4. SettledRows' /\ RowsAsDigested'
        BY DEF SettledRows, RowsAsDigested, RowsOf, Observed, Settled, TwoCut
    <2> QED BY <2>1, <2>2, <2>3, <2>4
<1> QED BY <1>1, <1>2

\* The rows in the inbox of an import of a bundle at rest come under the digests of
\* what they were made from; and where captures have not overlapped they are what one
\* of them has observed, only that after two of them have broken off the outputs may be
\* of one and the hardware of another.  For any number of captures and imports.
THEOREM RowsObserved == EvidenceSpec => []RowsAreObserved
<1>1. EvidenceInv => RowsAreObserved
    BY DEF EvidenceInv, RowsAreObserved, SettledRows, RowsAsDigested, Settled, TwoCut
<1> QED BY <1>1, EvidenceInvInit, EvidenceInvNext, PTL DEF EvidenceSpec
----------------------------------------------------------------------------
(***************************************************************************)
(* Model registry.  The rows with their ids are totally ordered, and each   *)
(* step adds one row or lets some expire.                                   *)
(***************************************************************************)
\* An evaluation is told from the others by its id, since ids are given out in turn.
IdsInTurn ==
    /\ IsFiniteSet(evaluations)
    /\ \A r \in evaluations : r.evaluation_id <= Cardinality(evaluations)
    /\ \A r, q \in evaluations : r.evaluation_id = q.evaluation_id => r = q

RegistryInv ==
    clock \in 0..Horizon /\ evaluations \subseteq Evaluation /\ IdsInTurn

LEMMA RegistryInvInit == RegistryInit => RegistryInv
BY RegistryAssumption, FS_EmptySet DEF RegistryInit, RegistryInv, IdsInTurn

LEMMA RegistryInvNext == RegistryInv /\ [RegistryNext]_registryVars => RegistryInv'
<1> USE RegistryAssumption DEF RegistryInv
<1>1. ASSUME RegistryInv, InsertEvaluation
      PROVE  RegistryInv'
    <2>1. PICK x \in Evaluation : /\ x.evaluation_id = Cardinality(evaluations) + 1
                                  /\ evaluations' = evaluations \cup {x} /\ clock' = clock
        BY <1>1 DEF InsertEvaluation
    <2>2. Cardinality(evaluations) \in Nat
        BY <1>1, FS_CardinalityType DEF IdsInTurn
    <2>3. x \notin evaluations
        BY <1>1, <2>1, <2>2 DEF IdsInTurn
    <2>4. IsFiniteSet(evaluations') /\ Cardinality(evaluations') = Cardinality(evaluations) + 1
        BY <1>1, <2>1, <2>3, FS_AddElement DEF IdsInTurn
    <2>5. \A r \in evaluations : r.evaluation_id \in Nat /\ r.evaluation_id <= Cardinality(evaluations)
        BY <1>1 DEF Evaluation, IdsInTurn
    <2>6. \A r \in evaluations' : r.evaluation_id <= Cardinality(evaluations')
        BY <2>1, <2>2, <2>4, <2>5
    <2>7. \A r, q \in evaluations' : r.evaluation_id = q.evaluation_id => r = q
        BY <1>1, <2>1, <2>2, <2>5 DEF IdsInTurn
    <2> QED BY <1>1, <2>1, <2>4, <2>6, <2>7 DEF IdsInTurn
<1>2. ASSUME RegistryInv, Tick
      PROVE  RegistryInv'
    BY <1>2 DEF Tick, IdsInTurn
<1>3. ASSUME RegistryInv, UNCHANGED registryVars
      PROVE  RegistryInv'
    BY <1>3 DEF registryVars, IdsInTurn
<1> QED BY <1>1, <1>2, <1>3 DEF RegistryNext

\* The order of the evaluations is total, and strict between different ones.
LEMMA NewerOrders ==
    /\ \A r, q \in Evaluation : Newer(r, q) \/ Newer(q, r)
    /\ \A r, q, s \in Evaluation : Newer(r, q) /\ Newer(q, s) => Newer(r, s)
    /\ \A r, q \in Evaluation : Newer(r, q) => r.observed_at >= q.observed_at
    /\ \A r, q \in Evaluation : Newer(r, q) /\ Newer(q, r) => r.evaluation_id = q.evaluation_id
<1> USE RegistryAssumption DEF Newer
<1>1. \A r \in Evaluation : r.observed_at \in Int /\ r.evaluation_id \in Int
    BY DEF Evaluation
<1> QED BY <1>1

LEMMA OneLatest == RegistryInv => RegistryTypeOK
<1> SUFFICES ASSUME RegistryInv, NEW r \in LatestValid, NEW q \in LatestValid,
                    r.candidate_key = q.candidate_key
             PROVE  r = q
    BY DEF RegistryTypeOK, RegistryInv
<1>1. r \in evaluations /\ q \in evaluations /\ Newer(r, q) /\ Newer(q, r)
    BY DEF LatestValid, NewestOf
<1> QED BY <1>1, NewerOrders DEF RegistryInv, IdsInTurn

LEMMA LatestStays ==
    ASSUME RegistryInv, RegistryInv', RegistryNext, NEW r \in LatestValid, r.valid_until > clock'
    PROVE  \E q \in LatestValid' : /\ q.candidate_key = r.candidate_key
                                   /\ q.observed_at >= r.observed_at
<1> DEFINE Counts(q, t) == ~q.synthetic /\ q.valid_until > t /\ InScope(q)
<1>1. /\ r \in evaluations /\ r \in Evaluation /\ Counts(r, clock')
      /\ \A q \in evaluations : Counts(q, clock) /\ q.candidate_key = r.candidate_key => Newer(r, q)
    BY DEF LatestValid, NewestOf, Valid, RegistryInv
<1>2. /\ clock \in Int /\ clock' \in Int /\ clock <= clock'
      /\ \A q \in Evaluation : q.valid_until \in Int /\ q.observed_at \in Int
    BY RegistryAssumption DEF RegistryInv, RegistryNext, Tick, InsertEvaluation, Evaluation
<1>3. \A q \in Evaluation : Counts(q, clock') => Counts(q, clock)
    BY <1>2
<1>4. ASSUME NEW q \in evaluations', Counts(q, clock'),
             \A s \in evaluations' : Counts(s, clock') /\ s.candidate_key = q.candidate_key => Newer(q, s)
      PROVE  q \in LatestValid'
    BY <1>4 DEF LatestValid, NewestOf, Valid, InScope
<1> HIDE DEF Counts
<1>5. CASE evaluations' = evaluations
    BY <1>1, <1>2, <1>3, <1>4, <1>5 DEF RegistryInv
<1>6. ASSUME NEW x \in Evaluation, evaluations' = evaluations \cup {x}
      PROVE  \E q \in LatestValid' : /\ q.candidate_key = r.candidate_key
                                     /\ q.observed_at >= r.observed_at
    <2>1. CASE Counts(x, clock') /\ x.candidate_key = r.candidate_key /\ Newer(x, r)
        <3>1. \A s \in evaluations' : Counts(s, clock') /\ s.candidate_key = x.candidate_key => Newer(x, s)
            BY <1>1, <1>3, <1>6, <2>1, NewerOrders DEF RegistryInv
        <3> QED BY <1>1, <1>4, <1>6, <2>1, <3>1, NewerOrders
    <2>2. CASE ~(Counts(x, clock') /\ x.candidate_key = r.candidate_key /\ Newer(x, r))
        <3>1. \A s \in evaluations' : Counts(s, clock') /\ s.candidate_key = r.candidate_key => Newer(r, s)
            BY <1>1, <1>3, <1>6, <2>2, NewerOrders DEF RegistryInv
        <3> QED BY <1>1, <1>2, <1>4, <1>6, <3>1
    <2> QED BY <2>1, <2>2
<1> QED BY <1>5, <1>6 DEF RegistryNext, Tick, InsertEvaluation

LEMMA LatestIgnores ==
    ASSUME clock' = clock, RegistryNext, \A r \in evaluations' \ evaluations : ~Valid(r)
    PROVE  LatestValid' = LatestValid
<1>1. evaluations \subseteq evaluations'
    BY DEF RegistryNext, Tick, InsertEvaluation
<1>2. \A r : Valid(r)' = Valid(r)
    BY DEF Valid, InScope
<1>3. {r \in evaluations : Valid(r)}' = {r \in evaluations : Valid(r)}
    BY <1>1, <1>2
<1> QED BY <1>3 DEF LatestValid, NewestOf, Newer

\* The evaluation on which a candidate is scored is one, and neither falls back to
\* an older one nor moves for rows that do not count, for any candidates, machines
\* and evaluations.
THEOREM RankingSound == RegistrySpec => RankingHolds
<1>1. RegistrySpec => []RegistryInv
    BY RegistryInvInit, RegistryInvNext, PTL DEF RegistrySpec
<1>2. RegistryInv /\ RegistryInv' /\ [RegistryNext]_registryVars
        => [\A r \in LatestValid : r.valid_until > clock' =>
            \E q \in LatestValid' : /\ q.candidate_key = r.candidate_key
                                    /\ q.observed_at >= r.observed_at]_registryVars
    BY LatestStays
<1>3. [RegistryNext]_registryVars
        => [clock' = clock /\ (\A r \in evaluations' \ evaluations : ~Valid(r))
            => LatestValid' = LatestValid]_registryVars
    BY LatestIgnores
<1> QED BY <1>1, <1>2, <1>3, OneLatest, PTL
        DEF RegistrySpec, RankingHolds, LateEvidenceIsHarmless, ForeignEvidenceIsIgnored
=============================================================================
