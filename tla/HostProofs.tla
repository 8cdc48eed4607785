----------------------------- MODULE HostProofs -----------------------------
(***************************************************************************)
(* Theorems about what runs beside the stages on the host: the governor's  *)
(* slots, its metrics file, and the QA sandbox adapter with its unit.      *)
(***************************************************************************)
EXTENDS Governor, GovernorMetrics, SandboxAdapter, FiniteSetTheorems,
        FunctionTheorems, TLAPS
----------------------------------------------------------------------------
(* The slots, for any number of wrappers and slots. *)

\* The wrappers that run a heavy command and are alive.
Guarded == {w \in Wrapper : /\ class[w] = "heavy"
                            /\ pc[w] = "running"
                            /\ command[w] = "running"}

\* What every step keeps: only heavy work scans for a slot, and a wrapper that
\* holds one has a proper index.
SlotInv ==
    /\ GovernorTypeOK
    /\ \A w \in Wrapper : Scanning(w) => class[w] = "heavy"
    /\ \A w \in Wrapper : HoldsSlot(w) => index[w] \in Slot
    /\ SlotsAreOwned

\* The variables always have their types.
THEOREM GovernorType == GovernorSpec => []GovernorTypeOK
<1>1. GovernorInit => GovernorTypeOK
  BY SlotAssumption DEF GovernorInit, GovernorTypeOK, Slot, Ended
<1>2. GovernorTypeOK /\ [GovernorNext]_governorVars => GovernorTypeOK'
  <2> SUFFICES ASSUME GovernorTypeOK, [GovernorNext]_governorVars
               PROVE  GovernorTypeOK'
    OBVIOUS
  <2> USE SlotAssumption DEF GovernorTypeOK, Slot, Ended
  <2>1. CASE UNCHANGED governorVars
    BY <2>1 DEF governorVars
  <2>2. ASSUME NEW w \in Wrapper, NEW k \in {"light", "heavy"}, Invoke(w, k)
        PROVE  GovernorTypeOK'
    BY <2>2 DEF Invoke
  <2>3. ASSUME NEW w \in Wrapper, Scan(w) PROVE GovernorTypeOK'
    <3>1. CASE index[w] \notin locked
      BY <2>3, <3>1 DEF Scan, TryLock
    <3>2. CASE index[w] \in locked
      <4>1. index[w] + 1 \in 0..Slots
        BY <2>3 DEF Scan, TryLock
      <4> QED
        BY <2>3, <3>2, <4>1 DEF Scan, TryLock
    <3> QED
      BY <3>1, <3>2
  <2>4. ASSUME NEW w \in Wrapper, NoSlot(w) PROVE GovernorTypeOK'
    BY <2>4 DEF NoSlot
  <2>5. ASSUME NEW w \in Wrapper, Start(w) PROVE GovernorTypeOK'
    BY <2>5 DEF Start
  <2>6. ASSUME NEW w \in Wrapper, Wait(w) PROVE GovernorTypeOK'
    BY <2>6 DEF Wait
  <2>7. ASSUME NEW w \in Wrapper, Release(w) PROVE GovernorTypeOK'
    BY <2>7 DEF Release, Unlock
  <2>8. ASSUME NEW w \in Wrapper, CommandEnds(w) PROVE GovernorTypeOK'
    BY <2>8 DEF CommandEnds
  <2>9. ASSUME NEW w \in Wrapper, Kill(w) PROVE GovernorTypeOK'
    BY <2>9 DEF Kill, Unlock
  <2> QED
    BY <2>1, <2>2, <2>3, <2>4, <2>5, <2>6, <2>7, <2>8, <2>9
    DEF GovernorNext, Proceed
<1> QED
  BY <1>1, <1>2, PTL DEF GovernorSpec

\* The strengthened invariant.
LEMMA GovernorInvariant == GovernorSpec => []SlotInv
<1>1. GovernorInit => SlotInv
  BY SlotAssumption
  DEF GovernorInit, SlotInv, GovernorTypeOK, Slot, Ended, HoldsSlot,
      SlotsAreOwned, Scanning
<1>2. SlotInv /\ GovernorTypeOK' /\ [GovernorNext]_governorVars => SlotInv'
  <2> SUFFICES ASSUME SlotInv, GovernorTypeOK', [GovernorNext]_governorVars
               PROVE  SlotInv'
    OBVIOUS
  <2> USE DEF SlotInv, GovernorTypeOK, HoldsSlot, SlotsAreOwned, Scanning
  <2>1. CASE UNCHANGED governorVars
    BY <2>1 DEF governorVars
  <2>2. ASSUME NEW w \in Wrapper, NEW k \in {"light", "heavy"}, Invoke(w, k)
        PROVE  SlotInv'
    BY <2>2 DEF Invoke
  <2>3. ASSUME NEW w \in Wrapper, Scan(w) PROVE SlotInv'
    <3>1. CASE index[w] \notin locked
      BY <2>3, <3>1 DEF Scan, TryLock
    <3>2. CASE index[w] \in locked
      BY <2>3, <3>2 DEF Scan, TryLock
    <3> QED
      BY <3>1, <3>2
  <2>4. ASSUME NEW w \in Wrapper, NoSlot(w) PROVE SlotInv'
    BY <2>4 DEF NoSlot
  <2>5. ASSUME NEW w \in Wrapper, Start(w) PROVE SlotInv'
    BY <2>5 DEF Start
  <2>6. ASSUME NEW w \in Wrapper, Wait(w) PROVE SlotInv'
    BY <2>6 DEF Wait
  <2>7. ASSUME NEW w \in Wrapper, Release(w) PROVE SlotInv'
    BY <2>7 DEF Release, Unlock
  <2>8. ASSUME NEW w \in Wrapper, CommandEnds(w) PROVE SlotInv'
    BY <2>8 DEF CommandEnds
  <2>9. ASSUME NEW w \in Wrapper, Kill(w) PROVE SlotInv'
    BY <2>9 DEF Kill, Unlock, Ended
  <2> QED
    BY <2>1, <2>2, <2>3, <2>4, <2>5, <2>6, <2>7, <2>8, <2>9
    DEF GovernorNext, Proceed
<1> QED
  BY <1>1, <1>2, GovernorType, PTL DEF GovernorSpec

\* Slots are never shared and never stale, however the scans interleave and
\* whichever wrappers are killed.
THEOREM GovernorSlots == GovernorSpec => []SlotsAreOwned
<1>1. SlotInv => SlotsAreOwned
  BY DEF SlotInv
<1> QED
  BY <1>1, GovernorInvariant, PTL

\* The lock files are enough to bound the heavy work that is guarded: the
\* guarded wrappers map one to one into the slots.
THEOREM GovernorLimit == GovernorSpec => []GuardedLimit
<1>1. SlotInv => GuardedLimit
  <2> SUFFICES ASSUME SlotInv PROVE GuardedLimit
    OBVIOUS
  <2> DEFINE slotOf == [w \in Guarded |-> index[w]]
  <2>1. \A w \in Guarded : w \in Wrapper /\ HoldsSlot(w)
    BY DEF Guarded, HoldsSlot
  <2>2. slotOf \in [Guarded -> Slot]
    BY <2>1 DEF SlotInv
  <2>3. \A v, w \in Guarded : slotOf[v] = slotOf[w] => v = w
    BY <2>1 DEF SlotInv, SlotsAreOwned
  <2>4. slotOf \in Injection(Guarded, Slot)
    <3> HIDE DEF slotOf
    <3> QED
      BY <2>2, <2>3, Fun_IsInj
  <2>5. IsFiniteSet(Slot) /\ Cardinality(Slot) = Slots
    BY FS_Interval, SlotAssumption DEF Slot
  <2>6. Cardinality(Guarded) <= Cardinality(Slot)
    <3> HIDE DEF slotOf
    <3> QED
      BY <2>4, <2>5, FS_Injection
  <2> QED
    BY <2>5, <2>6 DEF GuardedLimit, Guarded
<1> QED
  BY <1>1, GovernorInvariant, PTL

\* A command runs under its wrapper, or its wrapper was killed.
Attended == \A w \in Wrapper : command[w] = "running" => pc[w] \in {"running", "dead"}

LEMMA AttendedInvariant == GovernorSpec => []Attended
<1>1. GovernorInit => Attended
  BY DEF GovernorInit, Attended
<1>2. GovernorTypeOK /\ Attended /\ [GovernorNext]_governorVars => Attended'
  <2> SUFFICES ASSUME GovernorTypeOK, Attended, [GovernorNext]_governorVars
               PROVE  Attended'
    OBVIOUS
  <2> USE DEF GovernorTypeOK, Attended
  <2>1. CASE UNCHANGED governorVars
    BY <2>1 DEF governorVars
  <2>2. ASSUME NEW w \in Wrapper, NEW k \in {"light", "heavy"}, Invoke(w, k)
        PROVE  Attended'
    BY <2>2 DEF Invoke
  <2>3. ASSUME NEW w \in Wrapper, Scan(w) PROVE Attended'
    BY <2>3 DEF Scan, TryLock, Scanning
  <2>4. ASSUME NEW w \in Wrapper, NoSlot(w) PROVE Attended'
    BY <2>4 DEF NoSlot, Scanning
  <2>5. ASSUME NEW w \in Wrapper, Start(w) PROVE Attended'
    BY <2>5 DEF Start
  <2>6. ASSUME NEW w \in Wrapper, Wait(w) PROVE Attended'
    BY <2>6 DEF Wait
  <2>7. ASSUME NEW w \in Wrapper, Release(w) PROVE Attended'
    BY <2>7 DEF Release
  <2>8. ASSUME NEW w \in Wrapper, CommandEnds(w) PROVE Attended'
    BY <2>8 DEF CommandEnds
  <2>9. ASSUME NEW w \in Wrapper, Kill(w) PROVE Attended'
    BY <2>9 DEF Kill
  <2> QED
    BY <2>1, <2>2, <2>3, <2>4, <2>5, <2>6, <2>7, <2>8, <2>9
    DEF GovernorNext, Proceed
<1> QED
  BY <1>1, <1>2, GovernorType, PTL DEF GovernorSpec

\* The heavy commands that run, and those of them whose wrapper was killed.
Heavy  == {w \in Wrapper : class[w] = "heavy" /\ command[w] = "running"}
Orphan == {w \in Heavy : pc[w] = "dead"}

\* What the slots do guarantee of all heavy commands: the limit is passed by as many
\* commands as have lost their wrapper, and by none for any other reason.
THEOREM GovernorExcess ==
    IsFiniteSet(Wrapper) =>
        (GovernorSpec => [](Cardinality(Heavy) <= Slots + Cardinality(Orphan)))
<1> SUFFICES ASSUME IsFiniteSet(Wrapper)
             PROVE  GovernorSpec => [](Cardinality(Heavy) <= Slots + Cardinality(Orphan))
  OBVIOUS
<1>1. GuardedLimit /\ Attended => Cardinality(Heavy) <= Slots + Cardinality(Orphan)
  <2> SUFFICES ASSUME GuardedLimit, Attended
               PROVE  Cardinality(Heavy) <= Slots + Cardinality(Orphan)
    OBVIOUS
  <2>1. IsFiniteSet(Guarded) /\ IsFiniteSet(Orphan)
    BY FS_Subset DEF Guarded, Orphan, Heavy
  <2>2. Heavy = Guarded \cup Orphan /\ Guarded \cap Orphan = {}
    BY DEF Attended, Heavy, Guarded, Orphan
  <2>3. Cardinality(Heavy) = Cardinality(Guarded) + Cardinality(Orphan) - Cardinality({})
    BY <2>1, <2>2, FS_Union
  <2>4. Cardinality(Guarded) <= Slots
    BY DEF GuardedLimit, Guarded
  <2> QED
    BY <2>1, <2>3, <2>4, FS_EmptySet, FS_CardinalityType, SlotAssumption
<1> QED
  BY <1>1, GovernorLimit, AttendedInvariant, PTL
----------------------------------------------------------------------------
(***************************************************************************)
(* For any number of runs of status --write-metrics: a run that is alone   *)
(* publishes its own whole snapshot, and only runs that overlap put an     *)
(* older or a torn one in its place.                                       *)
(***************************************************************************)

\* An inode that has a name was created by a run that has opened the temporary
\* name, and snapshots are numbered as they are taken.
Numbered ==
    /\ \A i \in {temporary, destination} \ {0} : reporting[i] \notin {"absent", "snapshot"}
    /\ \A r \in Run : reporting[r] # "absent" => r <= taken
    /\ \A i \in Run : content[i] <= taken

\* A run that does not overlap is the only one under way and the latest one, and
\* what it has opened and written is under the temporary name.
Lonely ==
    \A r \in Active \ overlapped :
        /\ Active = {r} /\ r = taken
        /\ reporting[r] = "open"    => /\ file[r] = temporary /\ temporary # 0
                                       /\ content[temporary] = Empty
        /\ reporting[r] = "written" => /\ file[r] = temporary /\ temporary # 0
                                       /\ content[temporary] = r

MetricsInv == MetricsTypeOK /\ TemporaryIsPrivate /\ Numbered /\ Lonely

LEMMA MetricsStart == MetricsInit => MetricsInv
  BY MetricsAssumption DEF MetricsInit, MetricsInv, MetricsTypeOK, TemporaryIsPrivate,
       Numbered, Lonely, Run, Active, Empty, Torn

LEMMA SnapshotSafe == ASSUME MetricsInv, NEW r \in Run, Snapshot(r) PROVE MetricsInv'
<1> USE MetricsAssumption DEF Snapshot, Overlap, Run, Empty, Torn
<1>1. MetricsTypeOK'
  <2>1. Active \subseteq 1..taken
    BY DEF MetricsInv, MetricsTypeOK, Numbered, Active
  <2>2. taken \in Nat /\ r = taken + 1 /\ taken' = r /\ overlapped \subseteq 1..taken
    BY DEF MetricsInv, MetricsTypeOK
  <2>3. overlapped' \subseteq overlapped \cup Active \cup {r}
    OBVIOUS
  <2>4. overlapped' \subseteq 1..taken'
    BY <2>1, <2>2, <2>3
  <2>5. QED
    BY <2>2, <2>4 DEF MetricsInv, MetricsTypeOK
<1>2. TemporaryIsPrivate'
  BY DEF MetricsInv, TemporaryIsPrivate
<1>3. Numbered'
  BY DEF MetricsInv, MetricsTypeOK, Numbered
<1>4. Lonely'
  <2>1. Active' = Active \cup {r}
    BY DEF MetricsInv, MetricsTypeOK, Active
  <2>2. CASE Active = {}
    BY <2>1, <2>2 DEF MetricsInv, MetricsTypeOK, Lonely
  <2>3. CASE Active # {}
    BY <2>1, <2>3 DEF Lonely
  <2>4. QED
    BY <2>2, <2>3
<1>5. QED
  BY <1>1, <1>2, <1>3, <1>4 DEF MetricsInv

LEMMA OpenSafe == ASSUME MetricsInv, NEW r \in Run, Open(r) PROVE MetricsInv'
<1> DEFINE inode == IF temporary = 0 THEN r ELSE temporary
<1>1. inode \in Run /\ inode # 0 /\ inode # destination
  BY MetricsAssumption DEF MetricsInv, MetricsTypeOK, TemporaryIsPrivate, Numbered, Open, Run
<1>2. /\ reporting[r] = "snapshot" /\ temporary' = inode
      /\ file' = [file EXCEPT ![r] = inode]
      /\ content' = [content EXCEPT ![inode] = Empty]
      /\ reporting' = [reporting EXCEPT ![r] = "open"]
      /\ UNCHANGED <<taken, destination, overlapped>>
  BY DEF Open
<1> HIDE DEF inode
<1>3. MetricsTypeOK'
  BY <1>1, <1>2 DEF MetricsInv, MetricsTypeOK, Run, Empty
<1>4. TemporaryIsPrivate'
  BY <1>1, <1>2 DEF TemporaryIsPrivate
<1>5. Numbered'
  BY <1>1, <1>2, MetricsAssumption DEF inode, MetricsInv, MetricsTypeOK, Numbered, Run, Empty, Torn
<1>6. Lonely'
  <2>1. Active' = Active /\ r \in Active
    BY <1>2 DEF MetricsInv, MetricsTypeOK, Active
  <2>2. QED
    BY <1>1, <1>2, <2>1 DEF MetricsInv, MetricsTypeOK, Lonely, Empty
<1>7. QED
  BY <1>3, <1>4, <1>5, <1>6 DEF MetricsInv

LEMMA WriteSafe == ASSUME MetricsInv, NEW r \in Run, Write(r) PROVE MetricsInv'
<1>1. PICK text \in {r, Torn} :
        /\ content' = [content EXCEPT ![file[r]] = text]
        /\ (content[file[r]] = Empty => text = r)
  BY DEF Write
<1>2. /\ reporting[r] = "open" /\ reporting' = [reporting EXCEPT ![r] = "written"]
      /\ UNCHANGED <<taken, file, temporary, destination, overlapped>>
  BY DEF Write
<1>3. file[r] \in Run
  BY <1>2 DEF MetricsInv, MetricsTypeOK, Run
<1>4. MetricsTypeOK'
  BY <1>1, <1>2, <1>3 DEF MetricsInv, MetricsTypeOK
<1>5. TemporaryIsPrivate'
  BY <1>2 DEF MetricsInv, TemporaryIsPrivate
<1>6. Numbered'
  BY <1>1, <1>2, <1>3, MetricsAssumption DEF MetricsInv, MetricsTypeOK, Numbered, Run, Torn
<1>7. Lonely'
  <2>1. Active' = Active /\ r \in Active
    BY <1>2 DEF MetricsInv, MetricsTypeOK, Active
  <2>2. QED
    BY <1>1, <1>2, <1>3, <2>1 DEF MetricsInv, MetricsTypeOK, Lonely
<1>8. QED
  BY <1>4, <1>5, <1>6, <1>7 DEF MetricsInv

LEMMA EndSafe ==
  ASSUME MetricsInv, NEW r \in Run, Replace(r) \/ Abort(r)
  PROVE  MetricsInv'
<1>1. /\ r \in Active
      /\ \/ reporting' = [reporting EXCEPT ![r] = "done"]
         \/ reporting' = [reporting EXCEPT ![r] = "raised"]
      /\ UNCHANGED <<taken, file, content, overlapped>>
      /\ \/ temporary' = temporary /\ destination' = destination
         \/ temporary' = 0 /\ destination' = temporary
  BY DEF Replace, Abort, Active
<1>2. MetricsTypeOK'
  BY <1>1, MetricsAssumption DEF MetricsInv, MetricsTypeOK
<1>3. TemporaryIsPrivate'
  BY <1>1 DEF MetricsInv, TemporaryIsPrivate
<1>4. Numbered'
  <2>1. {temporary', destination'} \subseteq {temporary, destination, 0}
    BY <1>1
  <2>2. r \in Run /\ reporting[r] # "absent" /\ reporting \in [Run -> {"absent", "snapshot", "open", "written", "done", "raised"}]
    BY <1>1 DEF MetricsInv, MetricsTypeOK, Active
  <2>3. \A i \in Run : \/ reporting'[i] = reporting[i]
                       \/ i = r /\ reporting'[i] \in {"done", "raised"}
    BY <1>1, <2>2
  <2>4. {temporary', destination'} \ {0} \subseteq Run
    BY <1>2 DEF MetricsTypeOK, Run
  <2>5. \A i \in {temporary', destination'} \ {0} : reporting'[i] \notin {"absent", "snapshot"}
    BY <2>1, <2>3, <2>4 DEF MetricsInv, Numbered
  <2>6. \A i \in Run : reporting'[i] # "absent" => i <= taken'
    BY <1>1, <2>2, <2>3 DEF MetricsInv, Numbered
  <2>7. QED
    BY <1>1, <2>5, <2>6 DEF MetricsInv, Numbered
<1>5. Lonely'
  <2>1. Active' = Active \ {r}
    BY <1>1 DEF MetricsInv, MetricsTypeOK, Active
  <2>2. QED
    BY <1>1, <2>1 DEF MetricsInv, Lonely
<1>6. QED
  BY <1>2, <1>3, <1>4, <1>5 DEF MetricsInv

LEMMA MetricsStep == MetricsInv /\ [MetricsNext]_metricsVars => MetricsInv'
<1>1. CASE MetricsNext
  BY <1>1, SnapshotSafe, OpenSafe, WriteSafe, EndSafe DEF MetricsNext
<1>2. CASE UNCHANGED metricsVars
  BY <1>2 DEF metricsVars, MetricsInv, MetricsTypeOK, TemporaryIsPrivate, Numbered, Lonely, Active
<1>3. QED
  BY <1>1, <1>2

\* The variables of the runs have their types, the published file is never the one
\* under the temporary name, and a run that is alone is the latest.
THEOREM MetricsInvariant == MetricsSpec => []MetricsInv
  BY MetricsStart, MetricsStep, PTL DEF MetricsSpec

\* However many runs come, and wherever earlier ones were killed: a run that is
\* alone from its snapshot to its rename publishes that snapshot, whole.
THEOREM SnapshotAtomic == MetricsSpec => SnapshotIsAtomic
<1>1. MetricsInv /\ [MetricsNext]_metricsVars =>
        [\A r \in Run \ overlapped :
            (reporting[r] # "done" /\ reporting'[r] = "done") => content'[destination'] = r
          ]_metricsVars
  <2> SUFFICES ASSUME MetricsInv, MetricsNext, NEW r \in Run \ overlapped,
                      reporting[r] # "done", reporting'[r] = "done"
               PROVE  content'[destination'] = r
    BY DEF MetricsInv
  <2>1. PICK s \in Run : Snapshot(s) \/ Open(s) \/ Write(s) \/ Replace(s) \/ Abort(s)
    BY DEF MetricsNext
  <2>2. Replace(s) /\ s = r
    BY <2>1 DEF MetricsInv, MetricsTypeOK, Snapshot, Open, Write, Replace, Abort
  <2>3. reporting[r] = "written" /\ destination' = temporary /\ content' = content
    BY <2>2 DEF MetricsInv, MetricsTypeOK, Replace
  <2>4. QED
    BY <2>3 DEF MetricsInv, Lonely, Active
<1>2. QED
  BY <1>1, MetricsInvariant, PTL DEF MetricsSpec, SnapshotIsAtomic

\* Only a run that overlaps another puts an older snapshot, or a file that is not
\* a whole one, in the place of a snapshot.
THEOREM SnapshotsAdvance == MetricsSpec => NeverOlder
<1>1. MetricsInv /\ [MetricsNext]_metricsVars =>
        [(destination # 0 /\ content'[destination'] < content[destination])
            => \E r \in overlapped : reporting'[r] # reporting[r]]_metricsVars
  <2> SUFFICES ASSUME MetricsInv, MetricsNext, destination # 0,
                      content'[destination'] < content[destination]
               PROVE  \E r \in overlapped : reporting'[r] # reporting[r]
    BY DEF MetricsInv
  <2>0. destination \in Run /\ content[destination] \in Int /\ content[destination] <= taken
    BY MetricsAssumption DEF MetricsInv, MetricsTypeOK, Numbered, Run, Empty, Torn
  <2>1. PICK s \in Run : Snapshot(s) \/ Open(s) \/ Write(s) \/ Replace(s) \/ Abort(s)
    BY DEF MetricsNext
  <2>2. ~(content' = content /\ destination' = destination)
    BY <2>0
  <2>3. CASE Open(s)
    <3> DEFINE inode == IF temporary = 0 THEN s ELSE temporary
    <3>1. inode # destination
      BY <2>3 DEF MetricsInv, TemporaryIsPrivate, Numbered, Open
    <3>2. content' = [content EXCEPT ![inode] = Empty] /\ destination' = destination
      BY <2>3 DEF Open
    <3>3. content'[destination'] = content[destination]
      BY <2>0, <3>1, <3>2 DEF MetricsInv, MetricsTypeOK
    <3>4. QED
      BY <2>0, <3>3
  <2>4. CASE Write(s)
    <3>1. destination' = destination /\ reporting'[s] # reporting[s]
      BY <2>4 DEF Write, MetricsInv, MetricsTypeOK
    <3>2. PICK text \in {s, Torn} : content' = [content EXCEPT ![file[s]] = text]
      BY <2>4 DEF Write
    <3>3. file[s] = destination
      BY <2>0, <3>1, <3>2 DEF MetricsInv, MetricsTypeOK
    <3>4. s \in overlapped
      BY <2>4, <3>3 DEF Write, MetricsInv, Lonely, Active, TemporaryIsPrivate
    <3>5. QED
      BY <3>1, <3>4
  <2>5. CASE Replace(s)
    <3>1. reporting[s] = "written" /\ reporting'[s] # "written" /\ content' = content
          /\ destination' = temporary
      BY <2>2, <2>5 DEF Replace, MetricsInv, MetricsTypeOK
    <3>2. ASSUME s \notin overlapped PROVE FALSE
      <4>1. s = taken /\ content[temporary] = s
        BY <3>1, <3>2 DEF MetricsInv, Lonely, Active
      <4>2. content'[destination'] = taken /\ taken \in Int
        BY <3>1, <4>1 DEF MetricsInv, MetricsTypeOK
      <4>3. QED
        BY <2>0, <4>2
    <3>3. QED
      BY <3>1, <3>2
  <2>6. QED
    BY <2>1, <2>2, <2>3, <2>4, <2>5 DEF Snapshot, Abort
<1>2. QED
  BY <1>1, MetricsInvariant, PTL DEF MetricsSpec, NeverOlder
----------------------------------------------------------------------------
(***************************************************************************)
(* Theorems about SandboxAdapter, for any number of profiles and any limits: *)
(* a pass is earned, candidate code that outlives its adapter is accounted  *)
(* for, and an adapter ends within the sum of its limits.                   *)
(***************************************************************************)

UnitState == Alive \cup {"none", "failed", "refused", "zero", "nonzero", "stopped",
                         "expired"}

\* The type invariant in parts: numbers, and what has no arithmetic.
Counted ==
    /\ current \in Nat /\ current <= Adapters
    /\ total \in Nat /\ total <= MaxOutput + 1
    /\ elapsed \in Nat
    /\ timer \in Nat /\ timer <= StopLimit
    /\ age \in Nat /\ age <= Timeout + RuntimeSlack
Placed ==
    /\ at \in Blocking \cup {"collect", "kill", "kill_silent", "ended"}
    /\ forced \in {"none", "timeout", "output_exhausted"}
    /\ client \in Exited \cup {"none", "waiting", "dying"}
    /\ status \in Reports \cup {"none", "refused", "infrastructure", "traceback",
                             "killed"}
Piped == closed \in BOOLEAN /\ pending \in BOOLEAN
Limited ==
    /\ at = "collect" => total <= MaxOutput
    /\ at = "reap" => timer <= ReapLimit
Started == (current = 0 => at = "ended") /\ (at # "ended" => current \in Adapter)
Units == unit \in [Adapter -> UnitState] /\ loose \subseteq Adapter

Parts == Counted /\ Placed /\ Piped /\ Limited /\ Started /\ Units

LEMMA TypeParts == /\ SandboxTypeOK <=> Parts
                   /\ SandboxTypeOK' <=> Parts'
<1>1. ASSUME NEW c, NEW t, NEW e, NEW s, NEW g
      PROVE  (/\ c \in 0..Adapters /\ t \in 0..(MaxOutput + 1) /\ e \in Nat
              /\ s \in 0..2 /\ g \in 0..(Timeout + 1))
         <=> (/\ c \in Nat /\ c <= Adapters /\ t \in Nat /\ t <= MaxOutput + 1
              /\ e \in Nat /\ s \in Nat /\ s <= 2 /\ g \in Nat /\ g <= Timeout + 1)
  BY SandboxAssumption
<1>2. ASSUME NEW c \in 0..Adapters, NEW p
      PROVE  (c = 0 => p = "ended") <=> (c = 0 => p = "ended") /\ (p # "ended" => c \in 1..Adapters)
  BY SandboxAssumption
<1>3. SandboxTypeOK <=> Parts
  BY <1>1, <1>2 DEF SandboxTypeOK, Parts, Counted, Placed, Piped, Limited, Started,
     Units, UnitState, Adapter, RuntimeSlack, StopLimit
<1>4. SandboxTypeOK' <=> Parts'
  BY <1>1, <1>2 DEF SandboxTypeOK, Parts, Counted, Placed, Piped, Limited, Started,
     Units, UnitState, Adapter, RuntimeSlack, StopLimit
<1>5. QED
  BY <1>3, <1>4
----------------------------------------------------------------------------
LEMMA CountedStep ==
  SandboxTypeOK /\ [SandboxNext]_sandboxVars => Counted' /\ Limited'
<1> SUFFICES ASSUME SandboxTypeOK, [SandboxNext]_sandboxVars PROVE Counted' /\ Limited'
  OBVIOUS
<1> USE SandboxAssumption DEF RuntimeSlack, StopLimit, ReapLimit, Counted, Limited
<1>0. Counted /\ Limited /\ Timeout \in Nat /\ MaxOutput \in Nat /\ Adapters \in Nat
  BY TypeParts DEF Parts
<1>1. CASE Launch
  BY <1>0, <1>1 DEF Launch
<1>2. CASE Read
  <2>1. /\ total <= MaxOutput /\ total' = total + 1 /\ UNCHANGED <<current, elapsed, age>>
        /\ timer' \in {0, timer}
    BY <1>0, <1>2 DEF Read
  <2>2. at' # "reap" /\ (at' = "collect" => total' <= MaxOutput)
    BY <1>0, <1>2, <2>1 DEF Read
  <2>3. QED
    BY <1>0, <2>1, <2>2
<1>3. CASE TimeOut
  BY <1>0, <1>3 DEF TimeOut
<1>4. CASE EndOfOutput
  BY <1>0, <1>4 DEF EndOfOutput
<1>5. CASE StopUnit
  BY <1>0, <1>5 DEF StopUnit, clocks
<1>6. CASE StopHangs
  BY <1>0, <1>6 DEF StopHangs
<1>7. CASE KillClient
  BY <1>0, <1>7 DEF KillClient
<1>8. CASE Report
  BY <1>0, <1>8 DEF Report, clocks
<1>9. CASE WaitExpires
  BY <1>0, <1>9 DEF WaitExpires
<1>10. CASE KillAdapter
  BY <1>0, <1>10 DEF KillAdapter, clocks
<1>11. CASE ClientExit
  BY <1>0, <1>11 DEF ClientExit, clocks
<1>12. CASE Output
  BY <1>0, <1>12 DEF Output, clocks
<1>13. CASE Tick
  <2>1. /\ UNCHANGED <<current, total>>
        /\ elapsed' = elapsed \/ elapsed' = elapsed + 1
    BY <1>0, <1>13 DEF Tick, process
  <2>2. age' = age \/ (age < Timeout + RuntimeSlack /\ age' = age + 1)
    BY <1>0, <1>13 DEF Tick
  <2>3. timer' \in Nat /\ timer' <= StopLimit /\ (at = "reap" => timer' <= ReapLimit)
    <3>1. CASE at \in {"stop", "stop_silent", "cleanup"}
      BY <1>0, <1>13, <3>1 DEF Tick, Overdue, Stopping
    <3>2. CASE at = "wait"
      BY <1>0, <1>13, <3>2 DEF Tick, Overdue, WaitLimit
    <3>3. CASE at = "reap"
      BY <1>0, <1>13, <3>3 DEF Tick, Overdue, ReapLimit
    <3>4. CASE at \notin Blocking
      BY <1>0, <1>13, <3>4 DEF Tick
    <3>5. QED
      BY <3>1, <3>2, <3>3, <3>4 DEF Blocking, Stopping
  <2>4. at' = at
    BY <1>13 DEF Tick, process
  <2>5. QED
    BY <1>0, <2>1, <2>2, <2>3, <2>4
<1>14. ASSUME NEW a \in Adapter, Systemd(a) PROVE Counted' /\ Limited'
  <2>1. UNCHANGED <<at, current, total, elapsed, timer>> /\ age' \in {0, age}
    BY <1>14 DEF Systemd, process
  <2>2. QED
    BY <1>0, <2>1
<1>15. ASSUME NEW a \in Adapter, End(a) PROVE Counted' /\ Limited'
  <2>1. UNCHANGED <<at, current, total, elapsed, timer, age>>
    BY <1>15 DEF End, process, clocks
  <2>2. QED
    BY <1>0, <2>1
<1>16. CASE UNCHANGED sandboxVars
  BY <1>0, <1>16 DEF sandboxVars, process, clocks
<1>17. QED
  BY <1>1, <1>2, <1>3, <1>4, <1>5, <1>6, <1>7, <1>8, <1>9, <1>10, <1>11, <1>12,
     <1>13, <1>14, <1>15, <1>16 DEF SandboxNext, Step

LEMMA PlacedStep ==
  SandboxTypeOK /\ [SandboxNext]_sandboxVars => Placed' /\ Piped' /\ Started' /\ Units'
<1> SUFFICES ASSUME SandboxTypeOK, [SandboxNext]_sandboxVars
             PROVE  Placed' /\ Piped' /\ Started' /\ Units'
  OBVIOUS
<1> USE DEF Placed, Piped, Started, Blocking, Stopping, Exited, Reports, process, clocks
<1>0. Placed /\ Piped /\ Started /\ Units /\ Counted
  BY TypeParts DEF Parts
<1>1. CASE Launch
  <2>1. current' \in Adapter /\ current' # 0
    BY <1>0, <1>1, SandboxAssumption DEF Launch, Adapter, Counted
  <2>2. Units'
    <3>1. PICK state \in {"none", "requested"} :
             unit' = [a \in Adapter |-> IF a = current' THEN state
                                        ELSE IF unit[a] \in Alive THEN unit[a]
                                        ELSE "none"]
      BY <1>1 DEF Launch
    <3>2. QED
      BY <1>0, <1>1, <3>1 DEF Launch, Units, UnitState, Alive
  <2>3. Placed' /\ Piped'
    BY <1>0, <1>1 DEF Launch
  <2>4. QED
    BY <2>1, <2>2, <2>3
<1>2. CASE Read
  BY <1>0, <1>2 DEF Read, Units
<1>3. CASE TimeOut
  BY <1>0, <1>3 DEF TimeOut, Units
<1>4. CASE EndOfOutput
  BY <1>0, <1>4 DEF EndOfOutput, Units
<1>s. ASSUME NEW s \in {"stopped", "stopping"}, Stop(s), current \in Adapter PROVE Units'
  BY <1>0, <1>s DEF Stop, Units, UnitState, Alive
<1>5. CASE StopUnit
  BY <1>0, <1>5, <1>s DEF StopUnit
<1>6. CASE StopHangs
  BY <1>0, <1>6, <1>s DEF StopHangs
<1>7. CASE KillClient
  BY <1>0, <1>7 DEF KillClient, Units
<1>8. CASE Report
  BY <1>0, <1>8 DEF Report, Outcome, Units
<1>9. CASE WaitExpires
  BY <1>0, <1>9 DEF WaitExpires, Units
<1>10. CASE KillAdapter
  BY <1>0, <1>10 DEF KillAdapter, Units
<1>11. CASE ClientExit
  BY <1>0, <1>11 DEF ClientExit, Units
<1>12. CASE Output
  BY <1>0, <1>12 DEF Output, Units
<1>13. CASE Tick
  BY <1>0, <1>13 DEF Tick, Units
<1>14. ASSUME NEW a \in Adapter, Systemd(a) PROVE Placed' /\ Piped' /\ Started' /\ Units'
  BY <1>0, <1>14 DEF Systemd, Units, UnitState, Alive
<1>15. ASSUME NEW a \in Adapter, End(a) PROVE Placed' /\ Piped' /\ Started' /\ Units'
  BY <1>0, <1>15 DEF End, Units, UnitState, Alive
<1>16. CASE UNCHANGED sandboxVars
  BY <1>0, <1>16 DEF sandboxVars, Units
<1>17. QED
  BY <1>1, <1>2, <1>3, <1>4, <1>5, <1>6, <1>7, <1>8, <1>9, <1>10, <1>11, <1>12,
     <1>13, <1>14, <1>15, <1>16 DEF SandboxNext, Step

\* Every variable has its type in every reachable state.
THEOREM SandboxType == SandboxSpec => []SandboxTypeOK
<1>1. SandboxInit => SandboxTypeOK
  <2> SUFFICES ASSUME SandboxInit PROVE Parts
    BY TypeParts
  <2>1. Counted /\ Limited
    BY SandboxAssumption DEF SandboxInit, Counted, Limited, RuntimeSlack, StopLimit
  <2>2. Placed /\ Piped /\ Started
    BY DEF SandboxInit, Placed, Piped, Started, Blocking, Stopping, Exited, Reports
  <2>3. Units
    BY DEF SandboxInit, Units, UnitState
  <2>4. QED
    BY <2>1, <2>2, <2>3 DEF Parts
<1>2. SandboxTypeOK /\ [SandboxNext]_sandboxVars => SandboxTypeOK'
  BY TypeParts, CountedStep, PlacedStep DEF Parts
<1>3. QED
  BY <1>1, <1>2, PTL DEF SandboxSpec
----------------------------------------------------------------------------
\* What the calls before this point may have taken, each in its limit.
Budget ==
    /\ at = "collect"     => elapsed <= Timeout
    /\ at = "stop"        => elapsed <= Timeout + timer
    /\ at = "kill"        => elapsed <= Timeout + 2
    /\ at = "wait"        => elapsed <= Timeout + 2 + timer
    /\ at = "stop_silent" => elapsed <= Timeout + 4 + timer
    /\ at = "kill_silent" => elapsed <= Timeout + 6
    /\ at = "reap"        => elapsed <= Timeout + 6 + timer
    /\ at = "cleanup"     => elapsed <= Timeout + 7 + timer

LEMMA BudgetStep ==
  SandboxTypeOK /\ SandboxTypeOK' /\ Budget /\ [SandboxNext]_sandboxVars => Budget'
<1> SUFFICES ASSUME SandboxTypeOK, SandboxTypeOK', Budget, [SandboxNext]_sandboxVars
             PROVE  Budget'
  OBVIOUS
<1> USE DEF Budget, StopLimit, WaitLimit, ReapLimit, process, clocks
<1>0. /\ elapsed \in Nat /\ timer \in 0..2 /\ (at = "reap" => timer <= 1)
      /\ Timeout \in Nat
  BY SandboxAssumption DEF SandboxTypeOK
<1>1. CASE Launch
  BY <1>0, <1>1 DEF Launch
<1>2. CASE Read
  BY <1>0, <1>2 DEF Read
<1>3. CASE TimeOut
  BY <1>0, <1>3 DEF TimeOut
<1>4. CASE EndOfOutput
  BY <1>0, <1>4 DEF EndOfOutput
<1>5. CASE StopUnit
  BY <1>0, <1>5 DEF StopUnit, Stopping
<1>6. CASE StopHangs
  BY <1>0, <1>6 DEF StopHangs, Stopping
<1>7. CASE KillClient
  BY <1>0, <1>7 DEF KillClient
<1>8. CASE Report
  BY <1>0, <1>8 DEF Report
<1>9. CASE WaitExpires
  BY <1>0, <1>9 DEF WaitExpires
<1>10. CASE KillAdapter
  BY <1>0, <1>10 DEF KillAdapter
<1>11. CASE ClientExit
  BY <1>0, <1>11 DEF ClientExit
<1>12. CASE Output
  BY <1>0, <1>12 DEF Output
<1>13. CASE Tick
  <2>1. /\ at' = at /\ (elapsed' = elapsed \/ elapsed' = elapsed + 1)
        /\ at \in Blocking => timer' = timer + 1
    BY <1>0, <1>13 DEF Tick
  <2>2. /\ at = "collect" => elapsed # Timeout
        /\ at # "kill" /\ at # "kill_silent"
    BY <1>13 DEF Tick, Overdue
  <2>3. QED
    BY <1>0, <2>1, <2>2 DEF Blocking, Stopping
<1>14. ASSUME NEW a \in Adapter, Systemd(a) PROVE Budget'
  BY <1>0, <1>14 DEF Systemd
<1>15. ASSUME NEW a \in Adapter, End(a) PROVE Budget'
  BY <1>0, <1>15 DEF End
<1>16. CASE UNCHANGED sandboxVars
  BY <1>0, <1>16 DEF sandboxVars
<1>17. QED
  BY <1>1, <1>2, <1>3, <1>4, <1>5, <1>6, <1>7, <1>8, <1>9, <1>10, <1>11, <1>12,
     <1>13, <1>14, <1>15, <1>16 DEF SandboxNext, Step

\* No adapter lives longer than all its limits together, whatever the command,
\* systemd-run and systemctl do.
THEOREM AdapterBounded == SandboxSpec => []AdapterIsBounded
<1>1. SandboxInit => Budget
  BY DEF SandboxInit, Budget
<1>2. SandboxTypeOK /\ Budget => AdapterIsBounded
  <2> SUFFICES ASSUME SandboxTypeOK, Budget, at # "ended" PROVE elapsed <= Timeout + 9
    BY SandboxAssumption DEF AdapterIsBounded, Longest, StopLimit, WaitLimit, ReapLimit
  <2>1. elapsed \in Nat /\ timer \in 0..2 /\ Timeout \in Nat
    BY SandboxAssumption DEF SandboxTypeOK, StopLimit
  <2>2. at \in {"stop", "stop_silent", "cleanup", "wait", "reap", "collect", "kill",
                "kill_silent"}
    BY DEF SandboxTypeOK, Blocking, Stopping
  <2>3. QED
    BY <2>1, <2>2 DEF Budget
<1>3. QED
  BY <1>1, <1>2, SandboxType, BudgetStep, PTL DEF SandboxSpec
----------------------------------------------------------------------------
\* The unit of an adapter whose client is over or about to be killed is over, or
\* was left alive by a stop_unit.
Accounted ==
    (at # "ended" /\ (client \in Exited \cup {"dying"} \/ at \in {"kill", "kill_silent"}))
        => unit[current] \notin Alive \/ current \in loose

\* A name that is in use is that of such a unit.
RefusedKnown ==
    /\ (current # 0 /\ unit[current] = "refused") => loose \ {current} # {}
    /\ current = 0 => status = "none"

LEMMA OrphanStep ==
  /\ SandboxTypeOK /\ Accounted /\ OrphansAreKnown /\ RefusedKnown
  /\ [SandboxNext]_sandboxVars
  => Accounted' /\ OrphansAreKnown' /\ RefusedKnown'
<1> DEFINE Goal == Accounted /\ OrphansAreKnown /\ RefusedKnown
<1> SUFFICES ASSUME SandboxTypeOK, Accounted, OrphansAreKnown, RefusedKnown,
                    [SandboxNext]_sandboxVars
             PROVE  Accounted' /\ OrphansAreKnown' /\ RefusedKnown'
  OBVIOUS
<1> USE DEF Accounted, OrphansAreKnown, RefusedKnown, Alive, process, clocks
<1>0. /\ unit \in [Adapter -> UnitState] /\ loose \subseteq Adapter
      /\ at # "ended" => current \in Adapter
      /\ at = "ended" \/ current # 0
  BY TypeParts DEF Parts, Units, Started
<1>1. CASE Launch
  <2>1. current' \in Adapter /\ current' # 0 /\ at = "ended" /\ loose' = loose
    BY <1>0, <1>1, SandboxAssumption DEF Launch, Adapter, SandboxTypeOK
  <2>2. PICK state \in {"none", "requested"} :
           /\ unit' = [a \in Adapter |-> IF a = current' THEN state
                                        ELSE IF unit[a] \in Alive THEN unit[a]
                                        ELSE "none"]
           /\ state = "requested" => at' = "collect"
    BY <1>1 DEF Launch
  <2>3. unit'[current'] = state
    BY <2>1, <2>2
  <2>4. Accounted' /\ RefusedKnown'
    BY <1>1, <2>1, <2>2, <2>3 DEF Launch, Exited
  <2>5. OrphansAreKnown'
    BY <1>0, <2>1, <2>2
  <2>6. QED
    BY <2>4, <2>5
<1>2. CASE Read
  BY <1>0, <1>2 DEF Read
<1>3. CASE TimeOut
  BY <1>0, <1>3 DEF TimeOut
<1>4. CASE EndOfOutput
  BY <1>0, <1>4 DEF EndOfOutput
<1>5. CASE StopUnit
  BY <1>0, <1>5 DEF StopUnit, Stop, Stopping, Exited, Loaded
<1>6. CASE StopHangs
  BY <1>0, <1>6 DEF StopHangs, Stop, Stopping, Exited, Loaded
<1>7. CASE KillClient
  BY <1>0, <1>7 DEF KillClient, Exited
<1>8. CASE Report
  BY <1>0, <1>8 DEF Report, Exited
<1>9. CASE WaitExpires
  BY <1>0, <1>9 DEF WaitExpires, Exited
<1>10. CASE KillAdapter
  BY <1>0, <1>10 DEF KillAdapter
<1>11. CASE ClientExit
  BY <1>0, <1>11 DEF ClientExit, Exited
<1>12. CASE Output
  BY <1>0, <1>12 DEF Output
<1>13. CASE Tick
  BY <1>0, <1>13 DEF Tick
<1>14. ASSUME NEW a \in Adapter, Systemd(a) PROVE Goal'
  BY <1>0, <1>14 DEF Systemd, Loaded
<1>15. ASSUME NEW a \in Adapter, End(a) PROVE Goal'
  BY <1>0, <1>15 DEF End
<1>16. CASE UNCHANGED sandboxVars
  BY <1>0, <1>16 DEF sandboxVars
<1>17. QED
  BY <1>1, <1>2, <1>3, <1>4, <1>5, <1>6, <1>7, <1>8, <1>9, <1>10, <1>11, <1>12,
     <1>13, <1>14, <1>15, <1>16 DEF SandboxNext, Step

\* Candidate code outlives its adapter only when the adapter was killed, or its
\* stop_unit came too early or had no effect.
THEOREM OrphansKnown == SandboxSpec => []OrphansAreKnown
<1>1. SandboxInit => Accounted /\ OrphansAreKnown /\ RefusedKnown
  BY DEF SandboxInit, Accounted, OrphansAreKnown, RefusedKnown, Alive
<1>2. QED
  BY <1>1, SandboxType, OrphanStep, PTL DEF SandboxSpec

\* A profile is failed for a name that is in use only because of such a unit.
THEOREM NameFree == SandboxSpec => []NameIsFree
<1>1. SandboxInit => Accounted /\ OrphansAreKnown /\ RefusedKnown
  BY DEF SandboxInit, Accounted, OrphansAreKnown, RefusedKnown, Alive
<1>2. SandboxTypeOK /\ RefusedKnown => NameIsFree
  BY DEF RefusedKnown, NameIsFree
<1>3. QED
  BY <1>1, <1>2, SandboxType, OrphanStep, PTL DEF SandboxSpec

\* Both: what an adapter leaves behind, and what is in the way of the next one.
THEOREM OrphansAccounted == SandboxSpec => []OrphansAreAccounted
<1>1. OrphansAreKnown /\ NameIsFree => OrphansAreAccounted
  BY DEF OrphansAreAccounted
<1>2. QED
  BY <1>1, OrphansKnown, NameFree, PTL
----------------------------------------------------------------------------
\* What is known of the unit of an adapter that was not forced to its end: it was
\* not stopped while its output was collected, and after that all the output
\* was read and the command had closed it.
Unforced ==
    /\ at = "collect" => unit[current] \notin {"stopping", "stopped"}
    /\ at \in {"stop", "kill"} => forced # "none"
    /\ (forced = "none" /\ at \in {"wait", "stop_silent", "kill_silent", "reap"}) =>
          /\ ~pending /\ unit[current] # "requested"
          /\ unit[current] \in {"running", "stopping", "stopped"} => closed

\* systemd-run exits with 0 only for a unit that ended so or was stopped.
ZeroIsDone == client = "zero" => unit[current] \in {"zero", "stopped"}

Earned == /\ Unforced /\ ZeroIsDone /\ PassIsEarned
          /\ status = "pass" => at = "ended"
          /\ current = 0 => status = "none" /\ client = "none"

LEMMA EarnedStep == SandboxTypeOK /\ Earned /\ [SandboxNext]_sandboxVars => Earned'
<1> SUFFICES ASSUME SandboxTypeOK, Earned, [SandboxNext]_sandboxVars PROVE Earned'
  OBVIOUS
<1> USE DEF Earned, Unforced, ZeroIsDone, PassIsEarned, process, clocks
<1>0. /\ unit \in [Adapter -> UnitState]
      /\ at # "ended" => current \in Adapter
      /\ (current = 0 /\ at = "ended") \/ (current # 0 /\ current \in Adapter)
      /\ forced \in {"none", "timeout", "output_exhausted"}
      /\ closed \in BOOLEAN /\ pending \in BOOLEAN
  BY TypeParts, SandboxAssumption DEF Parts, Units, Started, Piped, Counted, Placed, Adapter
<1>1. CASE Launch
  <2>1. current' \in Adapter /\ current' # 0
    BY <1>0, <1>1, SandboxAssumption DEF Launch, Adapter, SandboxTypeOK
  <2>2. PICK state \in {"none", "requested"} :
           unit' = [a \in Adapter |-> IF a = current' THEN state
                                        ELSE IF unit[a] \in Alive THEN unit[a]
                                        ELSE "none"]
    BY <1>1 DEF Launch
  <2>3. unit'[current'] \in {"none", "requested"}
    BY <2>1, <2>2
  <2>4. /\ at' \in {"ended", "cleanup", "collect"} /\ status' # "pass"
        /\ client' = "waiting"
    BY <1>1 DEF Launch
  <2>5. QED
    BY <2>1, <2>3, <2>4
<1>2. CASE Read
  BY <1>0, <1>2 DEF Read
<1>3. CASE TimeOut
  BY <1>0, <1>3 DEF TimeOut
<1>4. CASE EndOfOutput
  BY <1>0, <1>4 DEF EndOfOutput, Writers, Loaded
<1>5. CASE StopUnit
  BY <1>0, <1>5 DEF StopUnit, Stop, Stopping, Loaded
<1>6. CASE StopHangs
  BY <1>0, <1>6 DEF StopHangs, Stop, Stopping, Loaded
<1>7. CASE KillClient
  BY <1>0, <1>7 DEF KillClient, Exited
<1>8. CASE Report
  BY <1>0, <1>8 DEF Report, Outcome, Exited
<1>9. CASE WaitExpires
  BY <1>0, <1>9 DEF WaitExpires
<1>10. CASE KillAdapter
  BY <1>0, <1>10 DEF KillAdapter
<1>11. CASE ClientExit
  BY <1>0, <1>11 DEF ClientExit, Alive
<1>12. CASE Output
  BY <1>0, <1>12 DEF Output
<1>13. CASE Tick
  BY <1>0, <1>13 DEF Tick
<1>14. ASSUME NEW a \in Adapter, Systemd(a) PROVE Earned'
  <2>1. /\ UNCHANGED <<at, forced, client, status, closed, pending, current>>
        /\ unit' \in [Adapter -> UnitState]
    BY <1>0, <1>14 DEF Systemd, UnitState, Alive
  <2>2. CASE a = current
    <3>1. \/ unit[current] = "requested" /\ unit'[current] \in {"running", "refused"}
          \/ unit[current] = "stopping" /\ unit'[current] = "stopped"
          \/ unit[current] \in {"running", "stopping"} /\ unit'[current] = "expired"
      BY <1>0, <1>14, <2>2 DEF Systemd, Loaded
    <3>2. QED
      BY <2>1, <3>1
  <2>3. CASE a # current
    <3>1. current = 0 \/ unit'[current] = unit[current]
      BY <1>0, <1>14, <2>3 DEF Systemd
    <3>2. QED
      BY <1>0, <2>1, <3>1
  <2>4. QED
    BY <2>2, <2>3
<1>15. ASSUME NEW a \in Adapter, End(a) PROVE Earned'
  <2>1. /\ UNCHANGED <<at, forced, client, status, closed, pending, current>>
        /\ unit' \in [Adapter -> UnitState]
    BY <1>0, <1>15 DEF End, UnitState, Alive
  <2>2. CASE a = current
    <3>1. \/ unit[current] = "requested" /\ unit'[current] = "failed"
          \/ unit[current] = "running" /\ unit'[current] \in {"zero", "nonzero"}
      BY <1>0, <1>15, <2>2 DEF End
    <3>2. QED
      BY <2>1, <3>1
  <2>3. CASE a # current
    <3>1. current = 0 \/ unit'[current] = unit[current]
      BY <1>0, <1>15, <2>3 DEF End
    <3>2. QED
      BY <1>0, <2>1, <3>1
  <2>4. QED
    BY <2>2, <2>3
<1>16. CASE UNCHANGED sandboxVars
  BY <1>0, <1>16 DEF sandboxVars
<1>17. QED
  BY <1>1, <1>2, <1>3, <1>4, <1>5, <1>6, <1>7, <1>8, <1>9, <1>10, <1>11, <1>12,
     <1>13, <1>14, <1>15, <1>16 DEF SandboxNext, Step

\* A profile passes only when its command ended with 0 and all its output was
\* read, or ran on with its outputs closed until it was stopped.
THEOREM PassEarned == SandboxSpec => []PassIsEarned
<1>1. SandboxInit => Earned
  BY DEF SandboxInit, Earned, Unforced, ZeroIsDone, PassIsEarned
<1>2. Earned => PassIsEarned
  BY DEF Earned
<1>3. QED
  BY <1>1, <1>2, SandboxType, EarnedStep, PTL DEF SandboxSpec
=============================================================================
