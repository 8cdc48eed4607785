----------------------------- MODULE JobLedger -----------------------------
(***************************************************************************)
(* The B031 autonomous job ledger: the PostgreSQL functions of             *)
(* db/migrations/0003_job_ledger.sql as redefined by migrations 0004       *)
(* (budget accounting) and 0005 (live-lease check of fail_job, reaper).    *)
(*                                                                         *)
(* Every function but one takes the row lock of its job before it reads    *)
(* the row and keeps it until its transaction ends, so it is one action.   *)
(* commit_job_effect reads fzh.jobs without a lock and updates the effect  *)
(* in a later statement: it is two actions, with anything in between.      *)
(*                                                                         *)
(* Time.  A deadline is kept as the time left until it.  now() is the      *)
(* START of a transaction, so a call that waited for a row lock (or is     *)
(* slow) sees a clock up to LockWait ticks old: that is `lag' below.       *)
(*                                                                         *)
(* Identity.  A lease token is a fresh uuid and job_attempts has exactly   *)
(* one row per token, numbered by lease_count; so the number stands for    *)
(* the attempt and for its token, and 0 for the NULL token.                *)
(***************************************************************************)
EXTENDS Integers, FiniteSets

CONSTANTS
    Job,         \* the (job_kind, idempotency_key) pairs that get submitted
    EffectKey,   \* keys of fzh.job_effects
    Budgets,     \* values of max_attempts
    LeaseTerms,  \* values of p_lease_seconds, in ticks
    Delays,      \* retry delays and submission delays, in ticks
    LockWait     \* how old now() may be when a statement uses it, in ticks

ASSUME LedgerAssumption ==
    /\ Budgets \subseteq Nat \ {0}
    /\ LeaseTerms \subseteq Nat \ {0}
    /\ Delays \subseteq Nat
    /\ LockWait \in Nat

VARIABLES
    \* columns of fzh.jobs
    status, side_effecting, max_attempts, attempt_count, lease_count,
    lease_token, lease_left, delay,
    \* the other tables, as sets of rows
    gate,        \* fzh.job_gate_decisions
    effects,     \* fzh.job_effects
    trail,       \* to_status of the job's last row in fzh.job_events
    \* transactions inside commit_job_effect, between its check and its update
    committing

definition == <<side_effecting, max_attempts>>
budget     == <<attempt_count, lease_count>>
lease      == <<lease_token, lease_left>>
vars == <<status, definition, budget, lease, delay, gate, effects, trail,
          committing>>

Leasable == {"queued", "retry_wait"}
Held     == {"leased", "running"}
Parked   == {"waiting_approval", "reconciliation_required"}
Terminal == {"succeeded", "failed", "denied", "cancelled", "dead_letter"}
Status   == {"absent"} \cup Leasable \cup Held \cup Parked \cup Terminal

Decisions == {"allow", "approval_required", "deny"}
GateRow   == [job : Job, attempt : Nat \ {0}, decision : Decisions]
EffectRow == [job : Job, key : EffectKey, attempt : Nat \ {0},
              state : {"started", "committed"}]
Claim     == [job : Job, key : EffectKey, attempt : Nat \ {0}]

Lag == 0..LockWait
----------------------------------------------------------------------------
(* What the functions ask of the state. *)

\* lease_token matches and lease_expires_at > now()
HoldsLiveLease(j, n, lag) ==
    /\ n # 0
    /\ lease_token[j] = n
    /\ lease_left[j] + lag > 0

Decided(j, n, d)  == [job |-> j, attempt |-> n, decision |-> d] \in gate
EffectsOf(j, n)   == {e \in effects : e.job = j /\ e.attempt = n}

(* Operators named Bad... are faulty variants of the definition that follows
   them: bugs that each property below is shown to catch.  Nothing uses them. *)

\* a claim does not quarantine the job
BadAfterInterruption(j, n) ==
    IF attempt_count[j] < max_attempts[j] THEN "retry_wait" ELSE "dead_letter"

\* off by one in the retry budget
BadAfterInterruption2(j, n) ==
    IF EffectsOf(j, n) # {} THEN "reconciliation_required"
    ELSE IF attempt_count[j] <= max_attempts[j] THEN "retry_wait"
    ELSE "dead_letter"

\* The status that ends an attempt which cannot say it finished.
AfterInterruption(j, n) ==
    IF EffectsOf(j, n) # {} THEN "reconciliation_required"
    ELSE IF attempt_count[j] < max_attempts[j] THEN "retry_wait"
    ELSE "dead_letter"

\* a failure that may not be retried forgets the claims
BadFailStatus(j, n, retryable) ==
    IF retryable THEN AfterInterruption(j, n) ELSE "failed"

\* The status fail_job ends the attempt with.
FailStatus(j, n, retryable) ==
    IF retryable THEN AfterInterruption(j, n)
    ELSE IF EffectsOf(j, n) # {} THEN "reconciliation_required"
    ELSE "failed"

\* an expired lease is taken over without the reaper
BadReady(j) ==
    /\ \/ status[j] \in Leasable
       \/ status[j] \in Held /\ lease_left[j] <= 0
    /\ delay[j] = 0
    /\ attempt_count[j] < max_attempts[j]

\* The WHERE of lease_next_job, and that of reap_expired_jobs.
Ready(j) ==
    /\ status[j] \in Leasable
    /\ delay[j] = 0
    /\ attempt_count[j] < max_attempts[j]

\* the reaper overlooks the leases that were never started
BadExpired(j, lag) ==
    /\ status[j] = "running"
    /\ lease_left[j] + lag <= 0

Expired(j, lag) ==
    /\ status[j] \in Held
    /\ lease_left[j] + lag <= 0

\* the evidence of an earlier attempt will do
BadGateAllows(j, n) ==
    side_effecting[j] => \E g \in gate : g.job = j /\ g.decision = "allow"

\* a claim need not be committed
BadEffectsSettled(j, n) == side_effecting[j] => EffectsOf(j, n) # {}

\* What start_job and complete_job ask of a side-effecting job's evidence.
GateAllows(j, n) == side_effecting[j] => Decided(j, n, "allow")

EffectsSettled(j, n) ==
    side_effecting[j] =>
        /\ EffectsOf(j, n) # {}
        /\ \A e \in EffectsOf(j, n) : e.state = "committed"

\* the token survives the lease
BadEndLease(j, new) ==
    /\ status' = [status EXCEPT ![j] = new]
    /\ trail'  = [trail EXCEPT ![j] = new]
    /\ UNCHANGED lease

\* no event is written
BadEndLease2(j, new) ==
    /\ status'      = [status EXCEPT ![j] = new]
    /\ lease_token' = [lease_token EXCEPT ![j] = 0]
    /\ lease_left'  = [lease_left EXCEPT ![j] = 0]
    /\ UNCHANGED trail

\* The UPDATE that moves job j out of its lease, with its event.
EndLease(j, new) ==
    /\ status'      = [status EXCEPT ![j] = new]
    /\ trail'       = [trail EXCEPT ![j] = new]
    /\ lease_token' = [lease_token EXCEPT ![j] = 0]
    /\ lease_left'  = [lease_left EXCEPT ![j] = 0]

\* Ticks left to a point d ticks after a now() that is lag ticks old.
Remaining(d, lag) == IF d > lag THEN d - lag ELSE 0
----------------------------------------------------------------------------
Init ==
    /\ status         = [j \in Job |-> "absent"]
    /\ side_effecting = [j \in Job |-> FALSE]
    /\ max_attempts   = [j \in Job |-> 0]
    /\ attempt_count  = [j \in Job |-> 0]
    /\ lease_count    = [j \in Job |-> 0]
    /\ lease_token    = [j \in Job |-> 0]
    /\ lease_left     = [j \in Job |-> 0]
    /\ delay          = [j \in Job |-> 0]
    /\ trail          = [j \in Job |-> "absent"]
    /\ gate           = {}
    /\ effects        = {}
    /\ committing     = {}

\* submit_job.  A resubmission returns the row or raises: it changes nothing.
Submit(j, side, max, d) ==
    /\ status[j] = "absent"
    /\ status'         = [status EXCEPT ![j] = "queued"]
    /\ trail'          = [trail EXCEPT ![j] = "queued"]
    /\ side_effecting' = [side_effecting EXCEPT ![j] = side]
    /\ max_attempts'   = [max_attempts EXCEPT ![j] = max]
    /\ delay'          = [delay EXCEPT ![j] = d]
    /\ UNCHANGED <<budget, lease, gate, effects, committing>>

\* lease_next_job.  ORDER BY picks the first ready row that no other
\* transaction has locked (SKIP LOCKED); any row may be locked at that
\* instant, so any ready job may be the one.
LeaseNext(j, term) ==
    /\ Ready(j)
    /\ status'        = [status EXCEPT ![j] = "leased"]
    /\ trail'         = [trail EXCEPT ![j] = "leased"]
    /\ attempt_count' = [attempt_count EXCEPT ![j] = @ + 1]
    /\ lease_count'   = [lease_count EXCEPT ![j] = @ + 1]
    /\ lease_token'   = [lease_token EXCEPT ![j] = lease_count[j] + 1]
    /\ lease_left'    = [lease_left EXCEPT ![j] = term]
    /\ UNCHANGED <<definition, delay, gate, effects, committing>>

\* record_job_gate_decision.  UNIQUE (attempt_id): one decision per attempt.
RecordGate(j, n, d, lag) ==
    /\ status[j] = "leased"
    /\ HoldsLiveLease(j, n, lag)
    /\ \A other \in Decisions : ~ Decided(j, n, other)
    /\ gate' = gate \cup {[job |-> j, attempt |-> n, decision |-> d]}
    /\ \/ /\ d = "allow"
          /\ trail' = [trail EXCEPT ![j] = "leased"]
          /\ UNCHANGED <<status, budget, lease>>
       \/ /\ d = "approval_required"
          /\ EndLease(j, "waiting_approval")
          /\ attempt_count' = [attempt_count EXCEPT ![j] =
                                 IF @ > 1 THEN @ - 1 ELSE 0]
          /\ UNCHANGED lease_count
       \/ /\ d = "deny"
          /\ EndLease(j, "denied")
          /\ UNCHANGED budget
    /\ UNCHANGED <<definition, delay, effects, committing>>

\* start_job
Start(j, n, lag) ==
    /\ status[j] = "leased"
    /\ HoldsLiveLease(j, n, lag)
    /\ GateAllows(j, n)
    /\ status' = [status EXCEPT ![j] = "running"]
    /\ trail'  = [trail EXCEPT ![j] = "running"]
    /\ UNCHANGED <<definition, budget, lease, delay, gate, effects, committing>>

\* heartbeat_job: the new deadline replaces the old one, be it earlier or later.
Heartbeat(j, n, term, lag) ==
    /\ status[j] \in Held
    /\ HoldsLiveLease(j, n, lag)
    /\ lease_left' = [lease_left EXCEPT ![j] = Remaining(term, lag)]
    /\ UNCHANGED <<status, definition, budget, lease_token, delay, gate,
                   effects, trail, committing>>

\* begin_job_effect, when it inserts the claim.  A key already claimed is
\* reported (same attempt) or refused (any other), without a change.
BeginEffect(j, n, k, lag) ==
    /\ status[j] = "running"
    /\ HoldsLiveLease(j, n, lag)
    /\ side_effecting[j]
    /\ Decided(j, n, "allow")
    /\ \A e \in effects : e.key # k
    /\ effects' = effects \cup
          {[job |-> j, key |-> k, attempt |-> n, state |-> "started"]}
    /\ trail' = [trail EXCEPT ![j] = "running"]
    /\ UNCHANGED <<status, definition, budget, lease, delay, gate, committing>>

\* commit_job_effect, first statement: the EXISTS on fzh.jobs, not locked.
CommitCheck(j, n, k, lag) ==
    /\ status[j] = "running"
    /\ HoldsLiveLease(j, n, lag)
    /\ committing' = committing \cup {[job |-> j, key |-> k, attempt |-> n]}
    /\ UNCHANGED <<status, definition, budget, lease, delay, gate, effects,
                   trail>>

\* commit_job_effect, second statement: the claim becomes committed and the
\* event says running -> running, whatever the job's status is by now.
CommitUpdate(c) ==
    LET row(s) == [job |-> c.job, key |-> c.key, attempt |-> c.attempt,
                   state |-> s]
    IN  /\ c \in committing
        /\ row("started") \in effects
        /\ effects'    = (effects \ {row("started")}) \cup {row("committed")}
        /\ trail'      = [trail EXCEPT ![c.job] = "running"]
        /\ committing' = committing \ {c}
        /\ UNCHANGED <<status, definition, budget, lease, delay, gate>>

\* commit_job_effect ends without a change: it was committed before (true),
\* this attempt has no such claim (raise), or the transaction rolls back.
CommitWithoutChange(c) ==
    /\ c \in committing
    /\ committing' = committing \ {c}
    /\ UNCHANGED <<status, definition, budget, lease, delay, gate, effects,
                   trail>>

\* complete_job
Complete(j, n, lag) ==
    /\ status[j] = "running"
    /\ HoldsLiveLease(j, n, lag)
    /\ EffectsSettled(j, n)
    /\ EndLease(j, "succeeded")
    /\ UNCHANGED <<definition, budget, delay, gate, effects, committing>>

\* fail_job
Fail(j, n, retryable, d, lag) ==
    LET new == FailStatus(j, n, retryable)
    IN  /\ status[j] \in Held
        /\ HoldsLiveLease(j, n, lag)
        /\ EndLease(j, new)
        /\ delay' = IF new = "retry_wait"
                    THEN [delay EXCEPT ![j] = Remaining(d, lag)]
                    ELSE delay
        /\ UNCHANGED <<definition, budget, gate, effects, committing>>

\* reap_expired_jobs: one transaction ends every expired lease whose row no
\* other transaction has locked.
Reap(S, lag) ==
    /\ S # {}
    /\ \A j \in S : Expired(j, lag)
    /\ LET next == [j \in Job |-> AfterInterruption(j, lease_token[j])]
           For(f, g) == [j \in Job |-> IF j \in S THEN f[j] ELSE g[j]]
           zero == [j \in Job |-> 0]
       IN  /\ status'      = For(next, status)
           /\ trail'       = For(next, trail)
           /\ lease_token' = For(zero, lease_token)
           /\ lease_left'  = For(zero, lease_left)
           /\ delay' = [j \in Job |-> IF j \in S /\ next[j] = "retry_wait"
                                      THEN 0 ELSE delay[j]]
    /\ UNCHANGED <<definition, budget, gate, effects, committing>>

\* cancel_job
Cancel(j) ==
    /\ status[j] \in Leasable \cup Parked
    /\ status' = [status EXCEPT ![j] = "cancelled"]
    /\ trail'  = [trail EXCEPT ![j] = "cancelled"]
    /\ UNCHANGED <<definition, budget, lease, delay, gate, effects, committing>>

\* The clock.  A lease that is LockWait ticks past its deadline looks the same
\* to every transaction from then on.
Tick ==
    /\ \/ \E j \in Job : lease_token[j] # 0 /\ lease_left[j] > - LockWait
       \/ \E j \in Job : delay[j] > 0
    /\ lease_left' = [j \in Job |->
          IF lease_token[j] # 0 /\ lease_left[j] > - LockWait
          THEN lease_left[j] - 1 ELSE lease_left[j]]
    /\ delay' = [j \in Job |-> IF delay[j] > 0 THEN delay[j] - 1 ELSE 0]
    /\ UNCHANGED <<status, definition, budget, lease_token, gate, effects,
                   trail, committing>>
----------------------------------------------------------------------------
(* A caller may present any token ever issued for the job. *)
Token(j) == 1..lease_count[j]

AnyLease   == \E j \in Job, t \in LeaseTerms : LeaseNext(j, t)
AnyReap    == \E S \in SUBSET Job, lag \in Lag : Reap(S, lag)
AnyCommit  == \E c \in committing : CommitUpdate(c) \/ CommitWithoutChange(c)
AnyBeat    == \E j \in Job, lag \in Lag : \E n \in Token(j), t \in LeaseTerms :
                 Heartbeat(j, n, t, lag)
HolderStep(j, n, lag) ==
    \/ \E d \in Decisions : RecordGate(j, n, d, lag)
    \/ Start(j, n, lag)
    \/ \E k \in EffectKey : BeginEffect(j, n, k, lag)
    \/ \E k \in EffectKey : CommitCheck(j, n, k, lag)
    \/ Complete(j, n, lag)
    \/ \E r \in BOOLEAN, d \in Delays : Fail(j, n, r, d, lag)

Next ==
    \/ \E j \in Job, s \in BOOLEAN, m \in Budgets, d \in Delays :
          Submit(j, s, m, d)
    \/ AnyLease
    \/ \E j \in Job, lag \in Lag : \E n \in Token(j) : HolderStep(j, n, lag)
    \/ AnyBeat
    \/ AnyCommit
    \/ AnyReap
    \/ \E j \in Job : Cancel(j)
    \/ Tick

Spec == Init /\ [][Next]_vars

\* The clock runs, some worker keeps asking for work and the operator runs the
\* reaper periodically; no worker, commit or cancellation is promised.
FairSpec == Spec /\ WF_vars(Tick) /\ WF_vars(AnyLease) /\ WF_vars(AnyReap)
----------------------------------------------------------------------------
(* Type invariant. *)
TypeOK ==
    /\ status \in [Job -> Status]
    /\ side_effecting \in [Job -> BOOLEAN]
    /\ max_attempts \in [Job -> Nat]
    /\ attempt_count \in [Job -> Nat]
    /\ lease_count \in [Job -> Nat]
    /\ lease_token \in [Job -> Nat]
    /\ lease_left \in [Job -> Int]
    /\ delay \in [Job -> Nat]
    /\ trail \in [Job -> Status]
    /\ gate \subseteq GateRow
    /\ effects \subseteq EffectRow
    /\ committing \subseteq Claim

\* The CHECK constraints of fzh.jobs never stop a transition: a job has a token
\* exactly while it is leased or running, its budget is not overdrawn, and the
\* token is the one issued last, so no older holder can present it.
LeaseConsistent ==
    \A j \in Job :
        /\ (lease_token[j] # 0) <=> (status[j] \in Held)
        /\ lease_token[j] # 0 => lease_token[j] = lease_count[j]
        /\ attempt_count[j] <= max_attempts[j]

\* Every lease has been charged to the retry budget but the ones that ended in
\* approval_required, and an attempt gets one decision (0004: the budget is
\* refunded while lease_count stays monotonic).  A job that waits for a lease
\* has budget left for it: none is stranded in queued or retry_wait.
BudgetAccounting ==
    /\ \A j \in Job : status[j] \in Leasable => attempt_count[j] < max_attempts[j]
    /\ \A j \in Job :
          lease_count[j] = attempt_count[j] +
              Cardinality({g \in gate : /\ g.job = j
                                       /\ g.decision = "approval_required"})
    /\ \A g, h \in gate : g.job = h.job /\ g.attempt = h.attempt => g = h

\* Work that may have happened is not repeated and not forgotten: a claim
\* belongs to the last attempt of its job, and that job is running it, is
\* quarantined, has succeeded, or was cancelled.  In particular no job with a
\* claim is retried, failed, denied or dead-lettered.
NeverReplayed ==
    \A e \in effects :
        /\ e.attempt = lease_count[e.job]
        /\ status[e.job] \in
              {"running", "reconciliation_required", "succeeded", "cancelled"}

\* Action Gate evidence: a claim, and any running or succeeded side-effecting
\* job, has an allow decision for that same attempt, not for an earlier one.
GateEvidence ==
    /\ \A e \in effects : /\ side_effecting[e.job]
                          /\ Decided(e.job, e.attempt, "allow")
    /\ \A j \in Job :
          side_effecting[j] /\ status[j] \in {"running", "succeeded"}
              => Decided(j, lease_count[j], "allow")

\* A side-effecting job that succeeded has claims and a receipt for each.
SucceededIsCommitted ==
    \A j \in Job :
        status[j] = "succeeded" /\ side_effecting[j] =>
            /\ EffectsOf(j, lease_count[j]) # {}
            /\ \A e \in effects : e.job = j => e.state = "committed"

\* The event log ends in the job's status, but for one case: a commit that was
\* checked before the job was quarantined and written after it.
TrailMatches ==
    \A j \in Job :
        trail[j] # status[j] =>
            /\ trail[j] = "running"
            /\ status[j] \in {"reconciliation_required", "cancelled"}
            /\ \E e \in effects : e.job = j /\ e.state = "committed"

\* A final status is never left, and a parked job is only ever cancelled: no
\* late call of a worker, no reaper and no resubmission revives it.
SettledIsFinal ==
    [][\A j \in Job :
         /\ status[j] \in Terminal => status'[j] = status[j]
         /\ status[j] \in Parked => status'[j] \in {status[j], "cancelled"}
      ]_vars

\* A lease is not handed from one holder to the next: between two tokens of a
\* job there is a state in which nobody holds it.
NoHandover ==
    [][\A j \in Job : lease_token[j] # 0 => lease_token'[j] \in {0, lease_token[j]}
      ]_vars

\* The ledger implements the contract: a job is open while it can still run,
\* and its acts are the attempts with a claim in fzh.job_effects.
phaseOf == [j \in Job |->
    CASE status[j] = "absent" -> "none"
      [] status[j] \in Leasable \cup Held -> "open"
      [] status[j] = "succeeded" -> "done"
      [] status[j] \in Parked -> "parked"
      [] OTHER -> "closed"]
actsOf == [j \in Job |-> {e.attempt : e \in {f \in effects : f.job = j}}]

Contract == INSTANCE WorkContract
                WITH phase <- phaseOf, external <- side_effecting, acts <- actsOf
ImplementsContract == Contract!Spec

\* Every submitted job comes to rest (final, or parked for a person) if the
\* workers do not renew leases for ever: its budget is finite and the reaper
\* takes over from workers that vanish.
JobsComeToRest ==
    <>[][~ AnyBeat]_vars =>
        \A j \in Job :
            status[j] # "absent" ~> status[j] \in Terminal \cup Parked
=============================================================================
