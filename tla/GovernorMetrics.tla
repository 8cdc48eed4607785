--------------------------- MODULE GovernorMetrics ---------------------------
(***************************************************************************)
(* governor.py status --write-metrics: write_metrics replaces the metrics  *)
(* file that node_exporter reads, through one temporary file of a fixed    *)
(* name.  Runs are numbered in the order of their snapshots.               *)
(***************************************************************************)
EXTENDS Integers

CONSTANT
    Runs          \* number of runs of status --write-metrics

ASSUME MetricsAssumption == Runs \in Nat

Run == 1..Runs

VARIABLES
    reporting,  \* where each run is
    taken,      \* number of snapshots taken
    file,       \* the inode each run has open; an inode is named after the
                \* run that created it, and 0 is none
    temporary,  \* inode of the temporary name, or 0
    destination,\* inode of the metrics file, or 0
    content,    \* what is in each inode: a run's text, Empty or Torn
    overlapped  \* history: the runs that were under way while another was

metricsVars == <<reporting, taken, file, temporary, destination, content, overlapped>>

Empty == 0
Torn  == -1
Active == {r \in Run : reporting[r] \in {"snapshot", "open", "written"}}
----------------------------------------------------------------------------
MetricsInit ==
    /\ reporting = [r \in Run |-> "absent"]
    /\ taken = 0
    /\ file = [r \in Run |-> 0]
    /\ temporary = 0 /\ destination = 0
    /\ content = [r \in Run |-> Empty]
    /\ overlapped = {}

Overlap(r) ==
    overlapped' = IF Active = {} THEN overlapped
                                 ELSE overlapped \cup Active \cup {r}

\* main takes its snapshot; nothing keeps it from running beside another.
Snapshot(r) ==
    /\ r = taken + 1
    /\ taken' = r
    /\ reporting' = [reporting EXCEPT ![r] = "snapshot"]
    /\ Overlap(r)
    /\ UNCHANGED <<file, temporary, destination, content>>

\* a temporary file that is there already is taken for this run's
BadOpen(r) ==
    /\ reporting[r] = "snapshot"
    /\ LET inode == IF temporary = 0 THEN r ELSE temporary
       IN  /\ temporary' = inode
           /\ file' = [file EXCEPT ![r] = inode]
           /\ reporting' = [reporting EXCEPT ![r] = IF temporary = 0 THEN "open" ELSE "written"]
    /\ UNCHANGED <<taken, destination, content, overlapped>>

\* write_text opens the temporary name: it creates the file or truncates it.
Open(r) ==
    /\ reporting[r] = "snapshot"
    /\ LET inode == IF temporary = 0 THEN r ELSE temporary
       IN  /\ temporary' = inode
           /\ file' = [file EXCEPT ![r] = inode]
           /\ content' = [content EXCEPT ![inode] = Empty]
    /\ reporting' = [reporting EXCEPT ![r] = "open"]
    /\ UNCHANGED <<taken, destination, overlapped>>

\* write_text writes and closes; over another text the two may mix.
Write(r) ==
    /\ reporting[r] = "open"
    /\ \E text \in IF content[file[r]] = Empty THEN {r} ELSE {r, Torn} :
          content' = [content EXCEPT ![file[r]] = text]
    /\ reporting' = [reporting EXCEPT ![r] = "written"]
    /\ UNCHANGED <<taken, file, temporary, destination, overlapped>>

\* the rename does not wait for the text to be written out
BadReplace(r) ==
    /\ reporting[r] \in {"open", "written"}
    /\ temporary # 0
    /\ destination' = temporary
    /\ temporary' = 0
    /\ reporting' = [reporting EXCEPT ![r] = "done"]
    /\ UNCHANGED <<taken, file, content, overlapped>>

\* temporary.replace(destination), which raises when the name is gone.
Replace(r) ==
    /\ reporting[r] = "written"
    /\ \/ /\ temporary # 0
          /\ destination' = temporary
          /\ temporary' = 0
          /\ reporting' = [reporting EXCEPT ![r] = "done"]
       \/ /\ temporary = 0
          /\ reporting' = [reporting EXCEPT ![r] = "raised"]
          /\ UNCHANGED <<temporary, destination>>
    /\ UNCHANGED <<taken, file, content, overlapped>>

\* The run is killed, or the disk is full.
Abort(r) ==
    /\ r \in Active
    /\ reporting' = [reporting EXCEPT ![r] = "raised"]
    /\ UNCHANGED <<taken, file, temporary, destination, content, overlapped>>

MetricsNext ==
    \E r \in Run :
        Snapshot(r) \/ Open(r) \/ Write(r) \/ Replace(r) \/ Abort(r)

MetricsSpec == MetricsInit /\ [][MetricsNext]_metricsVars
----------------------------------------------------------------------------
(* Type invariant. *)
MetricsTypeOK ==
    /\ reporting \in [Run -> {"absent", "snapshot", "open", "written", "done", "raised"}]
    /\ taken \in 0..Runs
    /\ file \in [Run -> 0..Runs]
    /\ temporary \in 0..Runs /\ destination \in 0..Runs
    /\ content \in [Run -> Run \cup {Empty, Torn}]
    /\ overlapped \subseteq 1..taken
    /\ \A r \in Run : reporting[r] \in {"open", "written"} => file[r] # 0

\* The published file is never the one that a later run opens and truncates,
\* also when runs share the temporary name.
TemporaryIsPrivate == temporary # 0 => temporary # destination

\* A run that is alone from its snapshot to its rename publishes that snapshot,
\* whole, whatever earlier runs that were killed left under the temporary name.
SnapshotIsAtomic ==
    [][\A r \in Run \ overlapped :
          (reporting[r] # "done" /\ reporting'[r] = "done") => content'[destination'] = r]_metricsVars

\* Only a run that overlaps another can put an older snapshot, or a file that is
\* not a whole one, in the place of a snapshot.
NeverOlder ==
    [][(destination # 0 /\ content'[destination'] < content[destination])
          => \E r \in overlapped : reporting'[r] # reporting[r]]_metricsVars
=============================================================================
