---------------------------- MODULE WorkContract ----------------------------
(***************************************************************************)
(* What the job ledger promises about work that may touch the world        *)
(* outside the database, without leases, clocks, tokens or retries.        *)
(*                                                                         *)
(*   - Only one attempt of a job ever acts on the outside world: work that *)
(*     may have happened is not repeated.                                  *)
(*   - Work that has acted ends as done, or a person finds it parked       *)
(*     before it is closed: it is never dropped or retried in silence.     *)
(*   - Work declared external is not reported done if nothing acted.       *)
(*   - Done and closed are final.                                          *)
(*                                                                         *)
(* One transaction may move several jobs, so a step is a step of any set   *)
(* of jobs, each by the rules of JobStep.                                  *)
(***************************************************************************)
EXTENDS Naturals

CONSTANT Job

VARIABLES
    phase,     \* none -> open -> done | parked | closed
    external,  \* declared at submission: the work acts on the outside
    acts       \* the attempts that were let act on the outside world

contract == <<phase, external, acts>>

Phase == {"none", "open", "done", "parked", "closed"}

Init ==
    /\ phase    = [j \in Job |-> "none"]
    /\ external = [j \in Job |-> FALSE]
    /\ acts     = [j \in Job |-> {}]

Accept(j) ==
    /\ phase[j] = "none" /\ phase'[j] = "open"
    /\ acts'[j] = acts[j]

Act(j) ==
    /\ phase[j] = "open" /\ phase'[j] = "open"
    /\ acts[j] = {}
    /\ \E n \in acts'[j] : acts'[j] = {n}
    /\ external[j] /\ external'[j]

Finish(j) ==
    /\ phase[j] = "open" /\ phase'[j] = "done"
    /\ external[j] => acts[j] # {}
    /\ external'[j] = external[j] /\ acts'[j] = acts[j]

Park(j) ==
    /\ phase[j] = "open" /\ phase'[j] = "parked"
    /\ external'[j] = external[j] /\ acts'[j] = acts[j]

Close(j) ==
    /\ \/ phase[j] = "open" /\ acts[j] = {}
       \/ phase[j] = "parked"
    /\ phase'[j] = "closed"
    /\ external'[j] = external[j] /\ acts'[j] = acts[j]

Stay(j) ==
    /\ phase'[j] = phase[j]
    /\ external'[j] = external[j]
    /\ acts'[j] = acts[j]

JobStep(j) == Accept(j) \/ Act(j) \/ Finish(j) \/ Park(j) \/ Close(j)

Next ==
    /\ phase' \in [Job -> Phase]
    /\ external' \in [Job -> BOOLEAN]
    /\ acts' \in [Job -> SUBSET Nat]
    /\ \A j \in Job : JobStep(j) \/ Stay(j)

Spec == Init /\ [][Next]_contract
=============================================================================
