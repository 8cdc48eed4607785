------------------------------- MODULE Governor -------------------------------
(***************************************************************************)
(* The resource governor (B014), scripts/governor/governor.py run: a       *)
(* wrapper that admits a command on a snapshot of the host and, for heavy  *)
(* work, takes one of a fixed number of lock files while it runs.  There   *)
(* is no daemon: the wrappers share nothing but the locks and the host.    *)
(*                                                                         *)
(* A lock belongs to the open file of one wrapper.  Python opens files     *)
(* close-on-exec, so the command does not inherit it; and the command is   *)
(* not ended when its wrapper dies.                                        *)
(***************************************************************************)
EXTENDS Integers, FiniteSets

CONSTANTS
    Wrapper,    \* runs of governor.py
    Slots       \* concurrency.heavy_slots

ASSUME SlotAssumption == Slots \in Nat
Slot == 0..(Slots - 1)

VARIABLES
    pc,         \* where each wrapper is
    class,      \* its --class
    index,      \* next lock file of its scan, then the one it holds
    locked,     \* lock files that some open file holds the flock of
    command     \* whether its command has run: not_started, running, over

governorVars == <<pc, class, index, locked, command>>

Ended == {"refused", "done", "dead"}
Scanning(w) == pc[w] = "scanning"
HoldsSlot(w) == class[w] = "heavy" /\ pc[w] \in {"admitted", "running", "waited"}
----------------------------------------------------------------------------
GovernorInit ==
    /\ pc      = [w \in Wrapper |-> "absent"]
    /\ class   = [w \in Wrapper |-> "light"]
    /\ index   = [w \in Wrapper |-> 0]
    /\ locked  = {}
    /\ command = [w \in Wrapper |-> "not_started"]

\* main: the snapshot either admits work of this class or does not (75).
Invoke(w, k) ==
    /\ pc[w] = "absent"
    /\ class' = [class EXCEPT ![w] = k]
    /\ \E loc \in {"refused", IF k = "heavy" THEN "scanning" ELSE "admitted"} :
          pc' = [pc EXCEPT ![w] = loc]
    /\ UNCHANGED <<index, locked, command>>

\* flock is not looked at: the file exists, so the slot counts as taken here
BadTryLock(w) ==
    /\ index[w] \in Slot
    /\ pc' = [pc EXCEPT ![w] = "admitted"]
    /\ locked' = locked \cup {index[w]}
    /\ UNCHANGED index

\* One flock(LOCK_EX | LOCK_NB) of the scan in acquire_heavy_slot.
TryLock(w) ==
    /\ index[w] \in Slot
    /\ \/ /\ index[w] \notin locked
          /\ locked' = locked \cup {index[w]}
          /\ pc' = [pc EXCEPT ![w] = "admitted"]
          /\ UNCHANGED index
       \/ /\ index[w] \in locked
          /\ index' = [index EXCEPT ![w] = @ + 1]
          /\ UNCHANGED <<pc, locked>>
Scan(w) ==
    /\ Scanning(w)
    /\ TryLock(w)
    /\ UNCHANGED <<class, command>>

\* a refusal needs all slots to be taken at once
BadNoSlot(w) ==
    /\ Scanning(w)
    /\ index[w] \notin Slot /\ locked = Slot
    /\ pc' = [pc EXCEPT ![w] = "refused"]
    /\ UNCHANGED <<class, index, locked, command>>

\* Every lock was found taken, one after the other: 75.
NoSlot(w) ==
    /\ Scanning(w)
    /\ index[w] \notin Slot
    /\ pc' = [pc EXCEPT ![w] = "refused"]
    /\ UNCHANGED <<class, index, locked, command>>

\* subprocess.run starts the command, or cannot and raises.
Start(w) ==
    /\ pc[w] = "admitted"
    /\ \/ /\ pc' = [pc EXCEPT ![w] = "running"]
          /\ command' = [command EXCEPT ![w] = "running"]
       \/ /\ pc' = [pc EXCEPT ![w] = "waited"]
          /\ UNCHANGED command
    /\ UNCHANGED <<class, index, locked>>

\* The command ends, with or without its wrapper.
CommandEnds(w) ==
    /\ command[w] = "running"
    /\ command' = [command EXCEPT ![w] = "over"]
    /\ UNCHANGED <<pc, class, index, locked>>

Wait(w) ==
    /\ pc[w] = "running"
    /\ command[w] = "over"
    /\ pc' = [pc EXCEPT ![w] = "waited"]
    /\ UNCHANGED <<class, index, locked, command>>

\* The flock goes with the open file, if the wrapper had one.
Unlock(w) ==
    locked' = IF HoldsSlot(w) THEN locked \ {index[w]} ELSE locked

\* The finally clause of main.
Release(w) ==
    /\ pc[w] = "waited"
    /\ Unlock(w)
    /\ pc' = [pc EXCEPT ![w] = "done"]
    /\ UNCHANGED <<class, index, command>>

\* The wrapper is killed.  The kernel closes its files; the command goes on.
Kill(w) ==
    /\ pc[w] \notin Ended \cup {"absent"}
    /\ Unlock(w)
    /\ pc' = [pc EXCEPT ![w] = "dead"]
    /\ UNCHANGED <<class, index, command>>

\* What a wrapper that has been invoked does by itself.
Proceed(w) == Scan(w) \/ NoSlot(w) \/ Start(w) \/ Wait(w) \/ Release(w)

GovernorNext ==
    \E w \in Wrapper :
        \/ \E k \in {"light", "heavy"} : Invoke(w, k)
        \/ Proceed(w)
        \/ CommandEnds(w)
        \/ Kill(w)

GovernorSpec == GovernorInit /\ [][GovernorNext]_governorVars

\* A wrapper that was started goes on, and every command ends some time.
GovernorFairness ==
    /\ \A w \in Wrapper : WF_governorVars(Proceed(w))
    /\ \A w \in Wrapper : WF_governorVars(CommandEnds(w))

GovernorFair == GovernorSpec /\ GovernorFairness
----------------------------------------------------------------------------
(* Type invariant. *)
GovernorTypeOK ==
    /\ pc \in [Wrapper -> Ended \cup
                  {"absent", "scanning", "admitted", "running", "waited"}]
    /\ class \in [Wrapper -> {"light", "heavy"}]
    /\ index \in [Wrapper -> 0..Slots]
    /\ locked \subseteq Slot
    /\ command \in [Wrapper -> {"not_started", "running", "over"}]

\* Two wrappers never hold the same slot, and no slot outlives its wrapper: a
\* lock is taken exactly while the wrapper that took it is there, however the
\* wrappers' scans interleave and whenever one is killed.
SlotsAreOwned ==
    /\ \A v, w \in Wrapper :
          HoldsSlot(v) /\ HoldsSlot(w) /\ v # w => index[v] # index[w]
    /\ locked = {index[w] : w \in {v \in Wrapper : HoldsSlot(v)}}

\* At most Slots heavy commands run at a time whose wrapper is alive.
GuardedLimit ==
    Cardinality({w \in Wrapper : /\ class[w] = "heavy"
                                 /\ pc[w] = "running"
                                 /\ command[w] = "running"}) <= Slots

\* docs/operations/RESOURCE-GOVERNOR.md, "at most two heavy guarded jobs may execute
\* concurrently": also when wrappers are killed.
HeavyLimit ==
    Cardinality({w \in Wrapper : class[w] = "heavy" /\ command[w] = "running"}) <= Slots

\* Admission never waits: every wrapper is refused or runs its command and
\* gives its slot back, so that slots come free again for the next ones.
WrappersEnd == \A w \in Wrapper : pc[w] # "absent" ~> pc[w] \in Ended
=============================================================================
