--------------------------- MODULE JobLedgerProofs ---------------------------
(***************************************************************************)
(* Proofs about JobLedger, for every set of jobs and of effect keys, every *)
(* set of budgets, lease terms and delays, and every LockWait: its safety  *)
(* invariants, what no step of it may do, that it implements WorkContract, *)
(* and that what LedgerClient executes are steps of it.                    *)
(***************************************************************************)
EXTENDS LedgerClient, FiniteSetTheorems, TLAPS

USE LedgerAssumption

LEMMA RemainingIsNat ==
    ASSUME NEW d \in Nat, NEW lag \in Lag
    PROVE  Remaining(d, lag) \in Nat
BY DEF Remaining, Lag

LEMMA AfterInterruptionStatus ==
    ASSUME NEW j, NEW n
    PROVE  AfterInterruption(j, n)
              \in {"reconciliation_required", "retry_wait", "dead_letter"}
BY DEF AfterInterruption

LEMMA EndLeaseType ==
    ASSUME TypeOK, NEW j \in Job, NEW new \in Status, EndLease(j, new)
    PROVE  /\ status' \in [Job -> Status]
           /\ trail' \in [Job -> Status]
           /\ lease_token' \in [Job -> Nat]
           /\ lease_left' \in [Job -> Int]
BY DEF TypeOK, EndLease

\* The columns keep their types whatever function runs.
LEMMA TypeStep == TypeOK /\ [Next]_vars => TypeOK'
<1> SUFFICES ASSUME TypeOK, [Next]_vars PROVE TypeOK'
  OBVIOUS
<1> USE DEF Status, Leasable, Held, Parked, Terminal
<1>1. CASE UNCHANGED vars
  BY <1>1 DEF TypeOK, vars, definition, budget, lease
<1>2. ASSUME NEW j \in Job, NEW s \in BOOLEAN, NEW m \in Budgets, NEW d \in Delays,
             Submit(j, s, m, d)
      PROVE  TypeOK'
  BY <1>2 DEF TypeOK, Submit, budget, lease
<1>3. ASSUME NEW j \in Job, NEW t \in LeaseTerms, LeaseNext(j, t)
      PROVE  TypeOK'
  BY <1>3 DEF TypeOK, LeaseNext, definition
<1>4. ASSUME NEW j \in Job, NEW lag \in Lag, NEW n \in Token(j), HolderStep(j, n, lag)
      PROVE  TypeOK'
  <2>0. n \in Nat \ {0}
    BY DEF TypeOK, Token
  <2>1. ASSUME NEW d \in Decisions, RecordGate(j, n, d, lag) PROVE TypeOK'
    <3>1. gate' \subseteq GateRow
      BY <2>0, <2>1 DEF TypeOK, RecordGate, GateRow
    <3>2. attempt_count' \in [Job -> Nat] /\ lease_count' \in [Job -> Nat]
      BY <2>1 DEF TypeOK, RecordGate, budget
    <3>3. /\ status' \in [Job -> Status]
          /\ trail' \in [Job -> Status]
          /\ lease_token' \in [Job -> Nat]
          /\ lease_left' \in [Job -> Int]
      BY <2>1, EndLeaseType DEF TypeOK, RecordGate, lease
    <3> QED BY <2>1, <3>1, <3>2, <3>3 DEF TypeOK, RecordGate, definition
  <2>2. CASE Start(j, n, lag)
    BY <2>2 DEF TypeOK, Start, definition, budget, lease
  <2>3. ASSUME NEW k \in EffectKey, BeginEffect(j, n, k, lag) PROVE TypeOK'
    <3>1. effects' \subseteq EffectRow
      BY <2>0, <2>3 DEF TypeOK, BeginEffect, EffectRow
    <3> QED BY <2>3, <3>1 DEF TypeOK, BeginEffect, definition, budget, lease
  <2>4. ASSUME NEW k \in EffectKey, CommitCheck(j, n, k, lag) PROVE TypeOK'
    <3>1. committing' \subseteq Claim
      BY <2>0, <2>4 DEF TypeOK, CommitCheck, Claim
    <3> QED BY <2>4, <3>1 DEF TypeOK, CommitCheck, definition, budget, lease
  <2>5. CASE Complete(j, n, lag)
    BY <2>5, EndLeaseType DEF TypeOK, Complete, definition, budget
  <2>6. ASSUME NEW r \in BOOLEAN, NEW d \in Delays, Fail(j, n, r, d, lag)
        PROVE  TypeOK'
    <3> DEFINE new == FailStatus(j, n, r)
    <3>1. new \in Status /\ EndLease(j, new)
      BY <2>6, AfterInterruptionStatus DEF Fail, FailStatus
    <3>2. delay' \in [Job -> Nat]
      BY <2>6, RemainingIsNat DEF TypeOK, Fail
    <3> HIDE DEF new
    <3> QED BY <2>6, <3>1, <3>2, EndLeaseType DEF TypeOK, Fail, definition, budget
  <2> QED BY <1>4, <2>1, <2>2, <2>3, <2>4, <2>5, <2>6 DEF HolderStep
<1>5. ASSUME NEW j \in Job, NEW lag \in Lag, NEW n \in Token(j), NEW t \in LeaseTerms,
             Heartbeat(j, n, t, lag)
      PROVE  TypeOK'
  BY <1>5, RemainingIsNat DEF TypeOK, Heartbeat, definition, budget
<1>6. ASSUME NEW c \in committing, CommitUpdate(c) \/ CommitWithoutChange(c)
      PROVE  TypeOK'
  <2>1. effects' \subseteq EffectRow
    BY <1>6 DEF TypeOK, CommitUpdate, CommitWithoutChange, Claim, EffectRow
  <2> QED BY <1>6, <2>1
          DEF TypeOK, CommitUpdate, CommitWithoutChange, definition, budget, lease
<1>7. ASSUME NEW S \in SUBSET Job, NEW lag \in Lag, Reap(S, lag)
      PROVE  TypeOK'
  BY <1>7, AfterInterruptionStatus DEF TypeOK, Reap, definition, budget
<1>8. ASSUME NEW j \in Job, Cancel(j) PROVE TypeOK'
  BY <1>8 DEF TypeOK, Cancel, definition, budget, lease
<1>9. CASE Tick
  BY <1>9 DEF TypeOK, Tick, definition, budget
<1> QED BY <1>1, <1>2, <1>3, <1>4, <1>5, <1>6, <1>7, <1>8, <1>9
        DEF Next, AnyLease, AnyBeat, AnyCommit, AnyReap

LEMMA TypeInit == Init => TypeOK
BY DEF Init, TypeOK, Status

\* Type correctness of the ledger's tables.
THEOREM LedgerType == Spec => []TypeOK
BY TypeInit, TypeStep, PTL DEF Spec
----------------------------------------------------------------------------
(***************************************************************************)
(* The inductive invariant.  The safety invariants of JobLedger support    *)
(* one another; what is missing to make them inductive is how the counters *)
(* and the decisions relate before anything is counted:                    *)
(*   - a job is only ever refunded once, because nothing leaves            *)
(*     waiting_approval for the queue;                                     *)
(*   - no decision and no claim is about a lease not issued yet.           *)
(***************************************************************************)
Refunded(j) ==
    /\ attempt_count[j] + 1 = lease_count[j]
    /\ status[j] \in {"waiting_approval", "cancelled"}
    /\ Decided(j, lease_count[j], "approval_required")
    /\ \A g \in gate : g.job = j /\ g.decision = "approval_required"
          => g.attempt = lease_count[j]

NotRefunded(j) ==
    /\ attempt_count[j] = lease_count[j]
    /\ \A g \in gate : g.job = j => g.decision # "approval_required"

Counted ==
    \A j \in Job :
        /\ status[j] = "absent" => lease_count[j] = 0
        /\ status[j] \in Leasable => attempt_count[j] < max_attempts[j]
        /\ Refunded(j) \/ NotRefunded(j)

Decisive ==
    /\ \A g \in gate : g.attempt <= lease_count[g.job]
    /\ \A g, h \in gate : g.job = h.job /\ g.attempt = h.attempt => g = h

Safe == /\ LeaseConsistent
        /\ Counted
        /\ Decisive
        /\ NeverReplayed
        /\ GateEvidence
        /\ SucceededIsCommitted
        /\ TrailMatches

IInv == TypeOK /\ Safe

LEMMA SafeInit == Init => Safe
BY DEF Init, Safe, LeaseConsistent, Counted, Refunded, NotRefunded, Decisive, NeverReplayed,
       GateEvidence, SucceededIsCommitted, TrailMatches, Held, Leasable

LEMMA SafeStutter == Safe /\ UNCHANGED vars => Safe'
BY DEF vars, definition, budget, lease, Safe, LeaseConsistent, Counted, Refunded,
       NotRefunded, Decisive, NeverReplayed, GateEvidence, SucceededIsCommitted,
       TrailMatches, Decided, EffectsOf

LEMMA SubmitSafe ==
    ASSUME IInv, NEW j \in Job, NEW s \in BOOLEAN, NEW m \in Budgets,
           NEW d \in Delays, Submit(j, s, m, d)
    PROVE  Safe'
<1> USE DEF IInv, Safe, Submit, budget, lease, Held, Leasable
<1>1. LeaseConsistent'
  BY DEF TypeOK, LeaseConsistent, Counted, Refunded, NotRefunded
<1>2. Counted'
  BY DEF TypeOK, Counted, Refunded, NotRefunded, Decided
<1>3. Decisive'
  BY DEF Decisive
<1>4. NeverReplayed'
  BY DEF TypeOK, NeverReplayed, EffectRow
<1>5. GateEvidence'
  BY DEF TypeOK, GateEvidence, NeverReplayed, Decided, EffectRow
<1>6. SucceededIsCommitted'
  BY DEF TypeOK, SucceededIsCommitted, EffectsOf
<1>7. TrailMatches'
  BY DEF TypeOK, TrailMatches
<1> QED BY <1>1, <1>2, <1>3, <1>4, <1>5, <1>6, <1>7

LEMMA LeaseNextSafe ==
    ASSUME IInv, NEW j \in Job, NEW t \in LeaseTerms, LeaseNext(j, t)
    PROVE  Safe'
<1> USE DEF IInv, Safe, LeaseNext, Ready, definition, Held, Leasable
<1>1. LeaseConsistent'
  BY DEF TypeOK, LeaseConsistent
<1>2. Counted'
  BY DEF TypeOK, Counted, Refunded, NotRefunded, Decided
<1>3. Decisive'
  BY DEF TypeOK, Decisive, GateRow
<1>4. \A e \in effects : e.job # j
  BY DEF NeverReplayed
<1>5. NeverReplayed'
  BY <1>4 DEF TypeOK, NeverReplayed, EffectRow
<1>6. GateEvidence'
  BY DEF TypeOK, GateEvidence, Decided, EffectRow
<1>7. SucceededIsCommitted'
  BY DEF TypeOK, SucceededIsCommitted, EffectsOf
<1>8. TrailMatches'
  BY DEF TypeOK, TrailMatches
<1> QED BY <1>1, <1>2, <1>3, <1>5, <1>6, <1>7, <1>8

\* Ending a lease keeps what Safe says of claims and of the event log, when the
\* new status is one that the job's claims allow.
LEMMA EndLeaseSafe ==
    ASSUME IInv, NEW j \in Job, NEW n, lease_token[j] = n, n # 0, NEW new \in Status,
           EndLease(j, new),
           new \in {"denied", "failed", "retry_wait", "waiting_approval", "dead_letter"}
              => EffectsOf(j, n) = {},
           new \notin {"absent", "queued"} \cup Held,
           new = "succeeded" => status[j] = "running",
           new = "succeeded" /\ side_effecting[j] =>
              /\ EffectsOf(j, n) # {}
              /\ \A e \in EffectsOf(j, n) : e.state = "committed",
           UNCHANGED <<definition, lease_count, effects>>,
           gate \subseteq gate'
    PROVE  /\ NeverReplayed'
           /\ GateEvidence'
           /\ SucceededIsCommitted'
           /\ TrailMatches'
<1> USE DEF IInv, Safe, EndLease, definition, Held
<1>1. status[j] \in Held /\ lease_count[j] = n
  BY DEF LeaseConsistent
<1>2. \A e \in effects : e.job = j => e \in EffectsOf(j, n)
  BY <1>1 DEF NeverReplayed, EffectsOf
<1>3. NeverReplayed'
  BY <1>2 DEF TypeOK, NeverReplayed, EffectRow, Status, Leasable, Parked, Terminal
<1>4. GateEvidence'
  BY <1>1 DEF TypeOK, GateEvidence, Decided, EffectRow
<1>5. SucceededIsCommitted'
  <2> SUFFICES ASSUME NEW i \in Job, (status[i] = "succeeded" /\ side_effecting[i])'
               PROVE  /\ EffectsOf(i, lease_count[i]) # {}
                      /\ \A e \in effects : e.job = i => e.state = "committed"
    BY DEF SucceededIsCommitted, EffectsOf
  <2>1. CASE i = j
    BY <1>1, <1>2, <2>1 DEF TypeOK
  <2>2. CASE i # j
    BY <2>2 DEF TypeOK, SucceededIsCommitted
  <2> QED BY <2>1, <2>2
<1>6. TrailMatches'
  BY DEF TypeOK, TrailMatches
<1> QED BY <1>3, <1>4, <1>5, <1>6

LEMMA RecordGateSafe ==
    ASSUME IInv, NEW j \in Job, NEW n \in Token(j), NEW d \in Decisions,
           NEW lag \in Lag, RecordGate(j, n, d, lag)
    PROVE  Safe'
<1> DEFINE row == [job |-> j, attempt |-> n, decision |-> d]
<1>0. /\ lease_token[j] = n /\ n # 0 /\ n = lease_count[j] /\ n \in Nat
      /\ status[j] = "leased"
      /\ gate' = gate \cup {row}
      /\ \A g \in gate : ~ (g.job = j /\ g.attempt = n)
  <2>1. \A g \in gate : g = [job |-> g.job, attempt |-> g.attempt, decision |-> g.decision]
                        /\ g.decision \in Decisions
    BY DEF IInv, TypeOK, GateRow
  <2> QED BY <2>1 DEF IInv, TypeOK, Safe, LeaseConsistent, RecordGate, HoldsLiveLease,
                      Decided, Token
<1>1. LeaseConsistent'
  BY <1>0 DEF IInv, Safe, TypeOK, LeaseConsistent, Counted, Refunded, NotRefunded,
              RecordGate, EndLease, Held, definition, budget, lease, Decisions
<1>2. Counted'
  <2> SUFFICES ASSUME NEW i \in Job
               PROVE  /\ (status[i] = "absent" => lease_count[i] = 0)'
                      /\ (status[i] \in Leasable => attempt_count[i] < max_attempts[i])'
                      /\ Refunded(i)' \/ NotRefunded(i)'
    BY DEF Counted
  <2>1. CASE i # j
    BY <1>0, <2>1 DEF IInv, Safe, TypeOK, Counted, Refunded, NotRefunded, Decided,
                      RecordGate, EndLease, Leasable, definition, budget, lease
  <2>2. CASE i = j /\ d = "approval_required"
    <3>1. NotRefunded(j)
      BY <1>0 DEF IInv, Safe, Counted, Refunded
    <3>2. status'[j] = "waiting_approval" /\ lease_count' = lease_count
          /\ attempt_count'[j] + 1 = lease_count[j]
      BY <1>0, <2>2, <3>1
         DEF IInv, TypeOK, RecordGate, EndLease, NotRefunded
    <3>3. Refunded(j)'
      BY <1>0, <2>2, <3>1, <3>2 DEF NotRefunded, Refunded, Decided
    <3> QED BY <2>2, <3>2, <3>3 DEF Leasable
  <2>3. CASE i = j /\ d # "approval_required"
    <3>1. NotRefunded(j)
      BY <1>0 DEF IInv, Safe, Counted, Refunded
    <3>2. status'[j] \in {"leased", "denied"} /\ UNCHANGED budget
      BY <1>0, <2>3 DEF IInv, TypeOK, RecordGate, EndLease, Decisions
    <3>3. NotRefunded(j)'
      BY <1>0, <2>3, <3>1, <3>2 DEF NotRefunded, budget
    <3> QED BY <2>3, <3>2, <3>3 DEF Leasable
  <2> QED BY <2>1, <2>2, <2>3
<1>3. Decisive'
  <2>1. lease_count' = lease_count
    BY DEF RecordGate, budget
  <2> QED BY <1>0, <2>1 DEF IInv, Safe, Decisive, TypeOK, GateRow
<1>4. NeverReplayed' /\ GateEvidence' /\ SucceededIsCommitted' /\ TrailMatches'
  <2>1. EffectsOf(j, n) = {}
    BY <1>0 DEF IInv, Safe, NeverReplayed, EffectsOf
  <2>2. CASE d = "allow"
    BY <1>0, <2>2 DEF RecordGate, IInv, Safe, TypeOK, NeverReplayed, GateEvidence,
          SucceededIsCommitted, TrailMatches, Decided, EffectsOf, definition, budget, lease
  <2>3. CASE d # "allow"
    <3>1. PICK new \in {"waiting_approval", "denied"} : EndLease(j, new)
      BY <2>3 DEF RecordGate, Decisions
    <3>2. UNCHANGED <<definition, lease_count, effects>>
      BY DEF RecordGate, budget
    <3> QED BY <1>0, <2>1, <3>1, <3>2, EndLeaseSafe DEF Status, Parked, Terminal, Held
  <2> QED BY <2>2, <2>3
<1> QED BY <1>1, <1>2, <1>3, <1>4 DEF Safe

LEMMA StartSafe ==
    ASSUME IInv, NEW j \in Job, NEW n \in Token(j), NEW lag \in Lag, Start(j, n, lag)
    PROVE  Safe'
<1> USE DEF IInv, Safe, Start, GateAllows, definition, budget, lease, Held, Leasable
<1>1. LeaseConsistent' /\ Decisive'
  BY DEF TypeOK, LeaseConsistent, Decisive
<1>2. Counted'
  BY DEF TypeOK, Counted, Refunded, NotRefunded, Decided
<1>3. NeverReplayed'
  BY DEF TypeOK, NeverReplayed, EffectRow
<1>4. GateEvidence'
  BY DEF TypeOK, GateEvidence, LeaseConsistent, HoldsLiveLease, Decided, EffectRow
<1>5. SucceededIsCommitted' /\ TrailMatches'
  BY DEF TypeOK, SucceededIsCommitted, TrailMatches, EffectsOf
<1> QED BY <1>1, <1>2, <1>3, <1>4, <1>5

\* Heartbeats, the clock and the two commit steps that write no row leave
\* everything alone that Safe speaks of.
LEMMA QuietSafe ==
    ASSUME Safe,
           UNCHANGED <<status, definition, budget, lease_token, gate, effects, trail>>
    PROVE  Safe'
BY DEF definition, budget, Safe, LeaseConsistent, Counted, Refunded, NotRefunded, Decisive,
       NeverReplayed, GateEvidence, SucceededIsCommitted, TrailMatches, Decided, EffectsOf

LEMMA BeginEffectSafe ==
    ASSUME IInv, NEW j \in Job, NEW n \in Token(j), NEW k \in EffectKey, NEW lag \in Lag,
           BeginEffect(j, n, k, lag)
    PROVE  Safe'
<1> USE DEF IInv, Safe, BeginEffect, definition, budget, lease, Held, Leasable
<1>1. LeaseConsistent' /\ Decisive'
  BY DEF TypeOK, LeaseConsistent, Decisive
<1>2. Counted'
  BY DEF TypeOK, Counted, Refunded, NotRefunded, Decided
<1>3. NeverReplayed'
  BY DEF TypeOK, NeverReplayed, LeaseConsistent, HoldsLiveLease
<1>4. GateEvidence'
  BY DEF TypeOK, GateEvidence, Decided
<1>5. SucceededIsCommitted'
  BY DEF TypeOK, SucceededIsCommitted, EffectsOf
<1>6. TrailMatches'
  BY DEF TypeOK, TrailMatches
<1> QED BY <1>1, <1>2, <1>3, <1>4, <1>5, <1>6

LEMMA CommitUpdateSafe ==
    ASSUME IInv, NEW c \in committing, CommitUpdate(c)
    PROVE  Safe'
<1> DEFINE old == [job |-> c.job, key |-> c.key, attempt |-> c.attempt, state |-> "started"]
           new == [job |-> c.job, key |-> c.key, attempt |-> c.attempt, state |-> "committed"]
<1>0. /\ old \in effects /\ c.job \in Job
      /\ effects' = (effects \ {old}) \cup {new}
      /\ trail' = [trail EXCEPT ![c.job] = "running"]
      /\ UNCHANGED <<status, definition, budget, lease, delay, gate>>
  BY DEF CommitUpdate, IInv, TypeOK, Claim
<1> USE DEF IInv, Safe, definition, budget, lease
<1>1. LeaseConsistent' /\ Decisive'
  BY <1>0 DEF LeaseConsistent, Decisive
<1>2. Counted'
  BY <1>0 DEF Counted, Refunded, NotRefunded, Decided
<1>3. NeverReplayed'
  BY <1>0 DEF NeverReplayed
<1>4. GateEvidence'
  BY <1>0 DEF GateEvidence, Decided
<1>5. SucceededIsCommitted'
  BY <1>0 DEF SucceededIsCommitted, EffectsOf, GateEvidence
<1>6. TrailMatches'
  <2>1. status[c.job] \in {"running", "reconciliation_required", "cancelled"}
    BY <1>0 DEF NeverReplayed, SucceededIsCommitted, GateEvidence
  <2>2. ASSUME NEW i \in Job, trail'[i] # status'[i], i = c.job
        PROVE  /\ trail'[i] = "running"
               /\ status'[i] \in {"reconciliation_required", "cancelled"}
               /\ \E e \in effects' : e.job = i /\ e.state = "committed"
    <3>1. trail'[i] = "running" /\ status'[i] = status[i]
      BY <1>0, <2>2 DEF TypeOK
    <3>2. new \in effects' /\ new.job = i /\ new.state = "committed"
      BY <1>0, <2>2
    <3> QED BY <2>1, <2>2, <3>1, <3>2
  <2>3. ASSUME NEW i \in Job, trail'[i] # status'[i], i # c.job
        PROVE  /\ trail'[i] = "running"
               /\ status'[i] \in {"reconciliation_required", "cancelled"}
               /\ \E e \in effects' : e.job = i /\ e.state = "committed"
    <3>1. trail'[i] = trail[i] /\ status' = status
      BY <1>0, <2>3 DEF TypeOK
    <3>2. PICK e \in effects : e.job = i /\ e.state = "committed"
      BY <2>3, <3>1 DEF TrailMatches
    <3>3. e \in effects'
      BY <1>0, <3>2
    <3> QED BY <2>3, <3>1, <3>2, <3>3 DEF TrailMatches
  <2> QED BY <2>2, <2>3 DEF TrailMatches
<1> QED BY <1>1, <1>2, <1>3, <1>4, <1>5, <1>6

LEMMA CompleteSafe ==
    ASSUME IInv, NEW j \in Job, NEW n \in Token(j), NEW lag \in Lag, Complete(j, n, lag)
    PROVE  Safe'
<1> USE DEF IInv, Safe, Complete, EffectsSettled, definition, budget
<1>1. LeaseConsistent' /\ Decisive'
  BY DEF TypeOK, LeaseConsistent, Decisive, EndLease, Held
<1>2. Counted'
  BY DEF TypeOK, Counted, Refunded, NotRefunded, Decided, EndLease, Leasable
<1>3. NeverReplayed' /\ GateEvidence' /\ SucceededIsCommitted' /\ TrailMatches'
  BY EndLeaseSafe DEF HoldsLiveLease, Status, Terminal, Held
<1> QED BY <1>1, <1>2, <1>3

LEMMA FailSafe ==
    ASSUME IInv, NEW j \in Job, NEW n \in Token(j), NEW r \in BOOLEAN, NEW d \in Delays,
           NEW lag \in Lag, Fail(j, n, r, d, lag)
    PROVE  Safe'
<1> DEFINE new == FailStatus(j, n, r)
<1>1. /\ EndLease(j, new)
      /\ UNCHANGED <<definition, budget, gate, effects, committing>>
      /\ lease_token[j] = n /\ n # 0 /\ status[j] \in Held
  BY DEF Fail, HoldsLiveLease
<1>2. /\ new \in {"reconciliation_required", "retry_wait", "dead_letter", "failed"}
      /\ EffectsOf(j, n) # {} => new = "reconciliation_required"
      /\ new = "retry_wait" => attempt_count[j] < max_attempts[j]
  BY DEF FailStatus, AfterInterruption
<1> HIDE DEF new
<1> USE DEF IInv, Safe, definition, budget
<1>3. LeaseConsistent' /\ Decisive'
  BY <1>1, <1>2 DEF TypeOK, LeaseConsistent, Decisive, EndLease, Held
<1>4. Counted'
  BY <1>1, <1>2 DEF TypeOK, Counted, Refunded, NotRefunded, Decided, EndLease, Leasable, Held
<1>5. NeverReplayed' /\ GateEvidence' /\ SucceededIsCommitted' /\ TrailMatches'
  BY <1>1, <1>2, EndLeaseSafe DEF Status, Terminal, Held, Parked, Leasable
<1> QED BY <1>3, <1>4, <1>5

LEMMA ReapSafe ==
    ASSUME IInv, NEW S \in SUBSET Job, NEW lag \in Lag, Reap(S, lag)
    PROVE  Safe'
<1> USE DEF IInv, Safe, definition, budget
\* What one reaped job becomes.
<1>1. ASSUME NEW j \in S
      PROVE  /\ status[j] \in Held
             /\ lease_token'[j] = 0
             /\ trail'[j] = status'[j]
             /\ status'[j] \in {"reconciliation_required", "retry_wait", "dead_letter"}
             /\ (\E e \in effects : e.job = j) => status'[j] = "reconciliation_required"
             /\ status'[j] = "retry_wait" => attempt_count[j] < max_attempts[j]
  <2>1. /\ status[j] \in Held /\ lease_token'[j] = 0
        /\ status'[j] = AfterInterruption(j, lease_token[j])
        /\ trail'[j] = AfterInterruption(j, lease_token[j])
    BY <1>1 DEF Reap, Expired
  <2>2. \A e \in effects : e.job = j => e \in EffectsOf(j, lease_token[j])
    BY <1>1, <2>1 DEF NeverReplayed, LeaseConsistent, EffectsOf
  <2> QED BY <2>1, <2>2 DEF AfterInterruption
<1>2. ASSUME NEW j \in Job \ S
      PROVE  /\ status'[j] = status[j]
             /\ trail'[j] = trail[j]
             /\ lease_token'[j] = lease_token[j]
  BY <1>2 DEF Reap
<1>3. UNCHANGED <<definition, budget, gate, effects, committing>>
  BY DEF Reap
<1>4. LeaseConsistent' /\ Decisive'
  BY <1>1, <1>2, <1>3 DEF TypeOK, LeaseConsistent, Decisive, Held
<1>5. Counted'
  BY <1>1, <1>2, <1>3 DEF Counted, Refunded, NotRefunded, Decided, Held, Leasable
<1>6. NeverReplayed'
  BY <1>1, <1>2, <1>3 DEF TypeOK, NeverReplayed, EffectRow
<1>7. GateEvidence'
  BY <1>1, <1>2, <1>3 DEF TypeOK, GateEvidence, Decided, EffectRow
<1>8. SucceededIsCommitted'
  BY <1>1, <1>2, <1>3 DEF SucceededIsCommitted, EffectsOf
<1>9. TrailMatches'
  BY <1>1, <1>2, <1>3 DEF TrailMatches
<1> QED BY <1>4, <1>5, <1>6, <1>7, <1>8, <1>9

LEMMA CancelSafe ==
    ASSUME IInv, NEW j \in Job, Cancel(j)
    PROVE  Safe'
<1> USE DEF IInv, Safe, Cancel, definition, budget, lease, Held, Leasable, Parked
<1>1. LeaseConsistent' /\ Decisive'
  BY DEF TypeOK, LeaseConsistent, Decisive
<1>2. Counted'
  BY DEF TypeOK, Counted, Refunded, NotRefunded, Decided
<1>3. NeverReplayed' /\ GateEvidence'
  BY DEF TypeOK, NeverReplayed, GateEvidence, Decided, EffectRow
<1>4. SucceededIsCommitted' /\ TrailMatches'
  BY DEF TypeOK, SucceededIsCommitted, TrailMatches, EffectsOf
<1> QED BY <1>1, <1>2, <1>3, <1>4

LEMMA SafeStep == IInv /\ [Next]_vars => Safe'
<1> SUFFICES ASSUME IInv, [Next]_vars PROVE Safe'
  OBVIOUS
<1>1. CASE UNCHANGED vars
  BY <1>1, SafeStutter DEF IInv
<1>2. ASSUME NEW j \in Job, NEW s \in BOOLEAN, NEW m \in Budgets, NEW d \in Delays,
             Submit(j, s, m, d)
      PROVE  Safe'
  BY <1>2, SubmitSafe
<1>3. ASSUME NEW j \in Job, NEW t \in LeaseTerms, LeaseNext(j, t)
      PROVE  Safe'
  BY <1>3, LeaseNextSafe
<1>4. ASSUME NEW j \in Job, NEW lag \in Lag, NEW n \in Token(j), HolderStep(j, n, lag)
      PROVE  Safe'
  <2>1. ASSUME NEW k \in EffectKey, CommitCheck(j, n, k, lag) PROVE Safe'
    BY <2>1, QuietSafe DEF IInv, CommitCheck, lease
  <2> QED BY <1>4, <2>1, RecordGateSafe, StartSafe, BeginEffectSafe, CompleteSafe, FailSafe
          DEF HolderStep
<1>5. ASSUME NEW j \in Job, NEW lag \in Lag, NEW n \in Token(j), NEW t \in LeaseTerms,
             Heartbeat(j, n, t, lag)
      PROVE  Safe'
  BY <1>5, QuietSafe DEF IInv, Heartbeat
<1>6. ASSUME NEW c \in committing, CommitUpdate(c) \/ CommitWithoutChange(c)
      PROVE  Safe'
  BY <1>6, CommitUpdateSafe, QuietSafe DEF IInv, CommitWithoutChange, lease
<1>7. ASSUME NEW S \in SUBSET Job, NEW lag \in Lag, Reap(S, lag)
      PROVE  Safe'
  BY <1>7, ReapSafe
<1>8. ASSUME NEW j \in Job, Cancel(j) PROVE Safe'
  BY <1>8, CancelSafe
<1>9. CASE Tick
  BY <1>9, QuietSafe DEF IInv, Tick
<1> QED BY <1>1, <1>2, <1>3, <1>4, <1>5, <1>6, <1>7, <1>8, <1>9
        DEF Next, AnyLease, AnyBeat, AnyCommit, AnyReap

LEMMA Inductive == Spec => []IInv
<1>1. Init => IInv
  BY TypeInit, SafeInit DEF IInv
<1>2. IInv /\ [Next]_vars => IInv'
  BY TypeStep, SafeStep DEF IInv
<1> QED BY <1>1, <1>2, PTL DEF Spec
----------------------------------------------------------------------------
(* The safety invariants. *)

\* No function of the ledger can make a CHECK constraint of fzh.jobs fire, and
\* the only token that works is the one issued last.
THEOREM LedgerLeases == Spec => []LeaseConsistent
BY Inductive, PTL DEF IInv, Safe

LEMMA OneRefund ==
    ASSUME NEW j \in Job, IInv
    PROVE  lease_count[j] = attempt_count[j] +
              Cardinality({g \in gate : g.job = j /\ g.decision = "approval_required"})
<1> DEFINE R == {g \in gate : g.job = j /\ g.decision = "approval_required"}
<1>0. lease_count[j] \in Nat /\ attempt_count[j] \in Nat
  BY DEF IInv, TypeOK
<1>1. CASE NotRefunded(j)
  <2>1. R = {}
    BY <1>1 DEF NotRefunded
  <2>2. Cardinality(R) = 0
    BY <2>1, FS_EmptySet
  <2> HIDE DEF R
  <2>3. lease_count[j] = attempt_count[j] + Cardinality(R)
    BY <2>2, <1>0, <1>1 DEF NotRefunded
  <2> QED BY <2>3 DEF R
<1>2. CASE Refunded(j)
  <2>1. R = {[job |-> j, attempt |-> lease_count[j], decision |-> "approval_required"]}
    BY <1>2 DEF Refunded, Decided, IInv, TypeOK, GateRow
  <2>2. Cardinality(R) = 1
    BY <2>1, FS_Singleton
  <2> HIDE DEF R
  <2>3. lease_count[j] = attempt_count[j] + Cardinality(R)
    BY <2>2, <1>0, <1>2 DEF Refunded
  <2> QED BY <2>3 DEF R
<1> QED BY <1>1, <1>2 DEF IInv, Safe, Counted

\* The retry budget: every lease is charged, but for the one refunded when a
\* job was parked for approval; one decision per attempt; nothing is stranded.
THEOREM LedgerBudget == Spec => []BudgetAccounting
<1>1. IInv => BudgetAccounting
  BY OneRefund DEF IInv, Safe, Counted, Decisive, BudgetAccounting
<1> QED BY <1>1, Inductive, PTL

\* Work that may have happened is neither repeated nor dropped in silence.
THEOREM LedgerNeverReplays == Spec => []NeverReplayed
BY Inductive, PTL DEF IInv, Safe

\* Nothing acts, and nothing side-effecting runs or succeeds, without an allow
\* decision for that very attempt.
THEOREM LedgerGateEvidence == Spec => []GateEvidence
BY Inductive, PTL DEF IInv, Safe

\* Success of a side-effecting job means that all its claims have receipts.
THEOREM LedgerSuccess == Spec => []SucceededIsCommitted
BY Inductive, PTL DEF IInv, Safe

\* The event log ends in the job's status, except after a late commit.
THEOREM LedgerTrail == Spec => []TrailMatches
BY Inductive, PTL DEF IInv, Safe
----------------------------------------------------------------------------
(* What no step may do. *)

LEMMA StatusMoves ==
    ASSUME IInv, [Next]_vars, NEW j \in Job
    PROVE  /\ status[j] \in Terminal => status'[j] = status[j]
           /\ status[j] \in Parked => status'[j] \in {status[j], "cancelled"}
<1> USE DEF Terminal, Parked, Held, Leasable, IInv
<1>1. CASE UNCHANGED vars
  BY <1>1 DEF vars
<1>2. ASSUME NEW i \in Job, NEW s \in BOOLEAN, NEW m \in Budgets, NEW d \in Delays,
             Submit(i, s, m, d)
      PROVE  status[j] = status'[j] \/ status[j] = "absent"
  BY <1>2 DEF Submit, TypeOK
<1>3. ASSUME NEW i \in Job, NEW t \in LeaseTerms, LeaseNext(i, t)
      PROVE  status[j] = status'[j] \/ status[j] \in Leasable
  BY <1>3 DEF LeaseNext, Ready, TypeOK
<1>4. ASSUME NEW i \in Job, NEW lag \in Lag, NEW n \in Token(i), HolderStep(i, n, lag)
      PROVE  status[j] = status'[j] \/ status[j] \in Held
  BY <1>4 DEF HolderStep, RecordGate, Start, BeginEffect, CommitCheck, Complete, Fail,
              EndLease, TypeOK, Decisions
<1>5. AnyBeat \/ AnyCommit \/ Tick => status' = status
  BY DEF AnyBeat, AnyCommit, Heartbeat, CommitUpdate, CommitWithoutChange, Tick
<1>6. ASSUME NEW S \in SUBSET Job, NEW lag \in Lag, Reap(S, lag)
      PROVE  status[j] = status'[j] \/ status[j] \in Held
  BY <1>6 DEF Reap, Expired
<1>7. ASSUME NEW i \in Job, Cancel(i)
      PROVE  \/ status[j] = status'[j]
             \/ status[j] \in Leasable \cup Parked /\ status'[j] = "cancelled"
  BY <1>7 DEF Cancel, TypeOK
<1> QED BY <1>1, <1>2, <1>3, <1>4, <1>5, <1>6, <1>7
        DEF Next, AnyLease, AnyReap

\* No call, however late or repeated, moves a job out of a final status, and a
\* parked job can only be cancelled.
THEOREM LedgerFinality == Spec => SettledIsFinal
<1>1. IInv /\ [Next]_vars =>
        [\A j \in Job :
           /\ status[j] \in Terminal => status'[j] = status[j]
           /\ status[j] \in Parked => status'[j] \in {status[j], "cancelled"}]_vars
  BY StatusMoves
<1> QED BY <1>1, Inductive, PTL DEF Spec, SettledIsFinal

\* A token is given back before the next one is issued.
THEOREM LedgerNoHandover == Spec => NoHandover
<1>1. ASSUME IInv, [Next]_vars, NEW j \in Job, lease_token[j] # 0
      PROVE  lease_token'[j] \in {0, lease_token[j]}
  <2>0. status[j] \in Held
    BY <1>1 DEF IInv, Safe, LeaseConsistent
  <2>1. CASE lease_token' = lease_token
    BY <2>1
  <2>2. ASSUME NEW i \in Job, NEW t \in LeaseTerms, LeaseNext(i, t)
        PROVE  lease_token'[j] = lease_token[j]
    BY <1>1, <2>0, <2>2 DEF LeaseNext, Ready, IInv, TypeOK, Held, Leasable
  <2>3. ASSUME NEW i \in Job, NEW lag \in Lag, NEW n \in Token(i), HolderStep(i, n, lag)
        PROVE  lease_token'[j] \in {0, lease_token[j]}
    <3>1. \/ \E new \in Status : EndLease(i, new)
          \/ lease_token' = lease_token
      <4>1. ASSUME NEW d \in Decisions, RecordGate(i, n, d, lag)
            PROVE  \/ EndLease(i, "waiting_approval")
                   \/ EndLease(i, "denied")
                   \/ lease_token' = lease_token
        BY <4>1 DEF RecordGate, lease
      <4>2. ASSUME NEW r \in BOOLEAN, NEW d \in Delays, Fail(i, n, r, d, lag)
            PROVE  \E new \in Status : EndLease(i, new)
        <5> DEFINE new == FailStatus(i, n, r)
        <5>1. EndLease(i, new)
          BY <4>2 DEF Fail
        <5>2. new \in Status
          BY AfterInterruptionStatus DEF FailStatus, Status, Leasable, Parked, Terminal
        <5> HIDE DEF new
        <5> QED BY <5>1, <5>2
      <4>3. CASE Complete(i, n, lag)
        BY <4>3 DEF Complete, Status, Terminal
      <4>4. CASE \/ Start(i, n, lag)
                 \/ \E k \in EffectKey : BeginEffect(i, n, k, lag) \/ CommitCheck(i, n, k, lag)
        BY <4>4 DEF Start, BeginEffect, CommitCheck, lease
      <4> QED BY <2>3, <4>1, <4>2, <4>3, <4>4 DEF HolderStep, Status, Parked, Terminal
    <3> QED BY <1>1, <3>1 DEF EndLease, IInv, TypeOK
  <2>4. ASSUME NEW S \in SUBSET Job, NEW lag \in Lag, Reap(S, lag)
        PROVE  lease_token'[j] \in {0, lease_token[j]}
    BY <2>4 DEF Reap
  <2>5. CASE UNCHANGED vars \/ AnyBeat \/ AnyCommit \/ Tick
    BY <2>1, <2>5 DEF vars, lease, AnyBeat, AnyCommit, Heartbeat, CommitUpdate,
                      CommitWithoutChange, Tick
  <2>6. ASSUME NEW i \in Job,
               \/ Cancel(i)
               \/ \E s \in BOOLEAN, m \in Budgets, d \in Delays : Submit(i, s, m, d)
        PROVE  lease_token' = lease_token
    BY <2>6 DEF Cancel, Submit, lease
  <2> QED BY <1>1, <2>1, <2>2, <2>3, <2>4, <2>5, <2>6 DEF Next, AnyLease, AnyReap
<1>2. IInv /\ [Next]_vars =>
        [\A j \in Job : lease_token[j] # 0 => lease_token'[j] \in {0, lease_token[j]}]_vars
  BY <1>1
<1> QED BY <1>2, Inductive, PTL DEF Spec, NoHandover
----------------------------------------------------------------------------
(***************************************************************************)
(* The ledger implements WorkContract: every step of JobLedger moves each  *)
(* job as the contract allows or leaves it where the contract sees no      *)
(* change.                                                                 *)
(***************************************************************************)
Open == Leasable \cup Held

\* What the contract sees of a job.
LEMMA PhaseCases ==
    ASSUME NEW j \in Job, IInv
    PROVE  /\ phaseOf[j] = "none" <=> status[j] = "absent"
           /\ phaseOf[j] = "open" <=> status[j] \in Open
           /\ phaseOf[j] = "done" <=> status[j] = "succeeded"
           /\ phaseOf[j] = "parked" <=> status[j] \in Parked
           /\ phaseOf[j] = "closed" <=> status[j] \in Terminal \ {"succeeded"}
BY DEF phaseOf, Open, IInv, TypeOK, Status, Leasable, Held, Parked, Terminal

\* Only the last attempt of a job has claims, and only in some statuses.
LEMMA ActsCases ==
    ASSUME NEW j \in Job, IInv
    PROVE  /\ actsOf[j] \in SUBSET Nat
           /\ actsOf[j] \subseteq {lease_count[j]}
           /\ actsOf[j] # {} => status[j] \in {"running", "reconciliation_required",
                                               "succeeded", "cancelled"}
           /\ actsOf[j] = {} <=> \A n : EffectsOf(j, n) = {}
<1>1. /\ actsOf[j] \in SUBSET Nat
      /\ actsOf[j] = {} <=> \A n : EffectsOf(j, n) = {}
  BY DEF actsOf, EffectsOf, IInv, TypeOK, EffectRow
<1>2. /\ actsOf[j] \subseteq {lease_count[j]}
      /\ actsOf[j] # {} => status[j] \in {"running", "reconciliation_required",
                                          "succeeded", "cancelled"}
  BY DEF actsOf, IInv, Safe, NeverReplayed
<1> QED BY <1>1, <1>2

LEMMA ActsMember ==
    ASSUME NEW E, NEW j, NEW n
    PROVE  n \in {e.attempt : e \in {f \in E : f.job = j}}
              <=> \E e \in E : e.job = j /\ e.attempt = n
OBVIOUS

\* A change of status that the contract allows when no claim is made.
Allowed(j) ==
    \/ status'[j] = status[j]
    \/ status[j] \in Open /\ status'[j] \in Open
    \/ status[j] \in Open /\ status'[j] = "succeeded"
          /\ (side_effecting[j] => actsOf[j] # {})
    \/ status[j] \in Open /\ status'[j] \in Parked
    \/ status[j] \in Open /\ status'[j] \in Terminal \ {"succeeded"} /\ actsOf[j] = {}
    \/ status[j] \in Parked /\ status'[j] = "cancelled"

LEMMA AllowedStep ==
    ASSUME NEW j \in Job, IInv, IInv', Allowed(j), actsOf' = actsOf,
           side_effecting' = side_effecting
    PROVE  Contract!JobStep(j) \/ Contract!Stay(j)
<1> DEFINE p == phaseOf[j]
           q == phaseOf'[j]
<1>1. /\ p = "open" <=> status[j] \in Open
      /\ p = "parked" <=> status[j] \in Parked
  BY PhaseCases
<1>2. /\ q = "open" <=> status'[j] \in Open
      /\ q = "done" <=> status'[j] = "succeeded"
      /\ q = "parked" <=> status'[j] \in Parked
      /\ q = "closed" <=> status'[j] \in Terminal \ {"succeeded"}
  BY DEF phaseOf, Open, IInv, TypeOK, Status, Leasable, Held, Parked, Terminal
<1>3. status'[j] = status[j] => q = p
  BY DEF phaseOf
<1> HIDE DEF p, q
<1>4. \/ q = p
      \/ p = "open" /\ q = "done" /\ (side_effecting[j] => actsOf[j] # {})
      \/ p = "open" /\ q = "parked"
      \/ p = "open" /\ q = "closed" /\ actsOf[j] = {}
      \/ p = "parked" /\ q = "closed"
  BY <1>1, <1>2, <1>3 DEF Allowed, Terminal
<1> QED BY <1>4 DEF p, q, Contract!JobStep, Contract!Stay, Contract!Finish, Contract!Park,
                    Contract!Close

LEMMA BeginEffectStep ==
    ASSUME NEW j \in Job, IInv, NEW i \in Job, NEW n \in Token(i), NEW k \in EffectKey,
           NEW lag \in Lag, BeginEffect(i, n, k, lag)
    PROVE  Contract!JobStep(j) \/ Contract!Stay(j)
<1>1. phaseOf' = phaseOf /\ side_effecting' = side_effecting
  BY DEF BeginEffect, phaseOf, definition
<1>2. CASE i # j
  <2>1. {f \in effects' : f.job = j} = {f \in effects : f.job = j}
    BY <1>2 DEF BeginEffect
  <2>2. actsOf'[j] = actsOf[j]
    BY <2>1 DEF actsOf
  <2> QED BY <1>1, <2>2 DEF Contract!Stay
<1>3. CASE i = j
  <2>1. /\ status[j] = "running" /\ side_effecting[j] /\ n = lease_count[j]
    BY <1>3 DEF BeginEffect, HoldsLiveLease, IInv, Safe, LeaseConsistent
  <2>2. actsOf'[j] = actsOf[j] \cup {n}
    <3>1. /\ effects' = effects \cup
                {[job |-> j, key |-> k, attempt |-> n, state |-> "started"]}
      BY <1>3 DEF BeginEffect
    <3>2. ASSUME NEW m PROVE m \in actsOf'[j] <=> m \in actsOf[j] \cup {n}
      <4>1. m \in actsOf[j] <=> \E e \in effects : e.job = j /\ e.attempt = m
        BY ActsMember DEF actsOf
      <4>2. m \in actsOf'[j] <=> \E e \in effects' : e.job = j /\ e.attempt = m
        BY ActsMember DEF actsOf
      <4> DEFINE row == [job |-> j, key |-> k, attempt |-> n, state |-> "started"]
      <4>3. row \in effects' /\ row.job = j /\ row.attempt = n
        BY <3>1
      <4>4. \A e : e \in effects' <=> e \in effects \/ e = row
        BY <3>1
      <4> HIDE DEF row
      <4> QED BY <4>1, <4>2, <4>3, <4>4
    <3> QED BY <3>2
  <2>3. actsOf[j] = {} \/ actsOf[j] = {n}
    BY <2>1, ActsCases
  <2>4. phaseOf[j] = "open"
    BY <2>1 DEF phaseOf, Leasable, Held, Terminal, Parked
  <2>5. CASE actsOf[j] = {}
    BY <1>1, <2>1, <2>2, <2>4, <2>5 DEF Contract!JobStep, Contract!Act
  <2>6. CASE actsOf[j] = {n}
    BY <1>1, <2>2, <2>6 DEF Contract!Stay
  <2> QED BY <2>3, <2>5, <2>6
<1> QED BY <1>2, <1>3

LEMMA SubmitStep ==
    ASSUME NEW j \in Job, IInv, NEW i \in Job, NEW s \in BOOLEAN, NEW m \in Budgets,
           NEW d \in Delays, Submit(i, s, m, d)
    PROVE  Contract!JobStep(j) \/ Contract!Stay(j)
<1>1. actsOf' = actsOf
  BY DEF Submit, actsOf
<1>2. CASE i # j
  <2>1. phaseOf'[j] = phaseOf[j] /\ side_effecting'[j] = side_effecting[j]
    BY <1>2 DEF Submit, phaseOf, IInv, TypeOK
  <2> QED BY <1>1, <2>1 DEF Contract!Stay
<1>3. CASE i = j
  <2>1. status[j] = "absent" /\ status'[j] = "queued"
    BY <1>3 DEF Submit, IInv, TypeOK
  <2>2. phaseOf[j] = "none" /\ phaseOf'[j] = "open"
    BY <2>1 DEF phaseOf, Leasable, Held, Terminal, Parked
  <2> QED BY <1>1, <2>2 DEF Contract!JobStep, Contract!Accept
<1> QED BY <1>2, <1>3

\* The steps that move the status and leave the claims alone.
LEMMA HolderMoves ==
    ASSUME NEW j \in Job, IInv, NEW i \in Job, NEW n \in Token(i), NEW lag \in Lag,
           HolderStep(i, n, lag),
           \A k \in EffectKey : ~ BeginEffect(i, n, k, lag)
    PROVE  Allowed(j) /\ effects' = effects /\ side_effecting' = side_effecting
<1> USE DEF Open, Leasable, Held, Parked, Terminal
<1>0. EffectsOf(j, lease_count[j]) = {} => actsOf[j] = {}
  BY DEF EffectsOf, actsOf, IInv, Safe, NeverReplayed
<1>1. ASSUME NEW d \in Decisions, RecordGate(i, n, d, lag)
      PROVE  Allowed(j) /\ effects' = effects /\ side_effecting' = side_effecting
  <2>1. status[i] = "leased" /\ status' \in {status, [status EXCEPT ![i] = "waiting_approval"],
                                              [status EXCEPT ![i] = "denied"]}
    BY <1>1 DEF RecordGate, EndLease
  <2>2. i = j => actsOf[j] = {}
    BY <2>1, ActsCases
  <2> QED BY <1>1, <2>1, <2>2 DEF RecordGate, Allowed, IInv, TypeOK, definition
<1>2. CASE Start(i, n, lag)
  BY <1>2 DEF Start, Allowed, IInv, TypeOK, definition
<1>3. ASSUME NEW k \in EffectKey, CommitCheck(i, n, k, lag)
      PROVE  Allowed(j) /\ effects' = effects /\ side_effecting' = side_effecting
  BY <1>3 DEF CommitCheck, Allowed, definition
<1>4. CASE Complete(i, n, lag)
  <2>1. i = j /\ side_effecting[j] => actsOf[j] # {}
    BY <1>4 DEF Complete, EffectsSettled, EffectsOf, actsOf
  <2> QED BY <1>4, <2>1 DEF Complete, EndLease, Allowed, IInv, TypeOK, definition
<1>5. ASSUME NEW r \in BOOLEAN, NEW d \in Delays, Fail(i, n, r, d, lag)
      PROVE  Allowed(j) /\ effects' = effects /\ side_effecting' = side_effecting
  <2> DEFINE new == FailStatus(i, n, r)
  <2>1. /\ status[i] \in Held /\ lease_count[i] = n
        /\ status' = [status EXCEPT ![i] = new]
        /\ effects' = effects /\ side_effecting' = side_effecting
    BY <1>5 DEF Fail, EndLease, HoldsLiveLease, IInv, Safe, LeaseConsistent, definition
  <2>2. \/ new \in {"retry_wait", "reconciliation_required"}
        \/ new \in {"dead_letter", "failed"} /\ EffectsOf(i, n) = {}
    BY DEF FailStatus, AfterInterruption
  <2> HIDE DEF new
  <2> QED BY <1>0, <2>1, <2>2 DEF Allowed, IInv, TypeOK
<1> QED BY <1>1, <1>2, <1>3, <1>4, <1>5 DEF HolderStep

LEMMA ReapMoves ==
    ASSUME NEW j \in Job, IInv, NEW S \in SUBSET Job, NEW lag \in Lag, Reap(S, lag)
    PROVE  Allowed(j) /\ effects' = effects /\ side_effecting' = side_effecting
<1> USE DEF Open, Leasable, Held, Parked, Terminal
<1>1. effects' = effects /\ side_effecting' = side_effecting
  BY DEF Reap, definition
<1>2. CASE j \notin S
  BY <1>1, <1>2 DEF Reap, Allowed
<1>3. CASE j \in S
  <2>1. status[j] \in Held /\ status'[j] = AfterInterruption(j, lease_token[j])
    BY <1>3 DEF Reap, Expired
  <2>2. lease_token[j] = lease_count[j]
    BY <2>1 DEF IInv, Safe, LeaseConsistent
  <2>3. EffectsOf(j, lease_count[j]) = {} => actsOf[j] = {}
    BY DEF EffectsOf, actsOf, IInv, Safe, NeverReplayed
  <2> QED BY <1>1, <2>1, <2>2, <2>3 DEF AfterInterruption, Allowed
<1> QED BY <1>2, <1>3

LEMMA CommitUpdateStays ==
    ASSUME NEW j \in Job, IInv, NEW c \in committing, CommitUpdate(c)
    PROVE  Contract!Stay(j)
<1>1. phaseOf' = phaseOf /\ side_effecting' = side_effecting
  BY DEF CommitUpdate, phaseOf, definition
<1>2. ASSUME NEW m PROVE m \in actsOf'[j] <=> m \in actsOf[j]
  <2> DEFINE row(s) == [job |-> c.job, key |-> c.key, attempt |-> c.attempt, state |-> s]
  <2>1. /\ row("started") \in effects
        /\ effects' = (effects \ {row("started")}) \cup {row("committed")}
    BY DEF CommitUpdate
  <2>2. m \in actsOf[j] <=> \E e \in effects : e.job = j /\ e.attempt = m
    BY ActsMember DEF actsOf
  <2>3. m \in actsOf'[j] <=> \E e \in effects' : e.job = j /\ e.attempt = m
    BY ActsMember DEF actsOf
  <2>4. \A s \in {"started", "committed"} : row(s).job = c.job /\ row(s).attempt = c.attempt
    OBVIOUS
  <2>5. /\ row("started") \in effects
        /\ row("committed") \in effects'
        /\ \A e : e # row("started") /\ e # row("committed")
                => (e \in effects' <=> e \in effects)
    BY <2>1
  <2> HIDE DEF row
  <2> QED BY <2>2, <2>3, <2>4, <2>5
<1>3. actsOf'[j] = actsOf[j]
  BY <1>2
<1> QED BY <1>1, <1>3 DEF Contract!Stay

LEMMA ContractStep == IInv /\ IInv' /\ [Next]_vars => [Contract!Next]_(Contract!contract)
<1> SUFFICES ASSUME IInv, IInv', [Next]_vars PROVE Contract!Next
  OBVIOUS
<1>1. phaseOf' \in [Job -> Contract!Phase]
  BY DEF phaseOf, Contract!Phase
<1>2. side_effecting' \in [Job -> BOOLEAN]
  BY DEF IInv, TypeOK
<1>3. actsOf' \in [Job -> SUBSET Nat]
  BY DEF actsOf, IInv, TypeOK, EffectRow
<1>4. ASSUME NEW j \in Job PROVE Contract!JobStep(j) \/ Contract!Stay(j)
  <2>0. ASSUME Allowed(j), effects' = effects, side_effecting' = side_effecting
        PROVE  Contract!JobStep(j) \/ Contract!Stay(j)
    <3>1. actsOf' = actsOf
      BY <2>0 DEF actsOf
    <3> QED BY <2>0, <3>1, AllowedStep
  <2>1. CASE UNCHANGED vars
    BY <2>0, <2>1 DEF vars, definition, Allowed
  <2>2. ASSUME NEW i \in Job, NEW s \in BOOLEAN, NEW m \in Budgets, NEW d \in Delays,
               Submit(i, s, m, d)
        PROVE  Contract!JobStep(j) \/ Contract!Stay(j)
    BY <2>2, SubmitStep
  <2>3. ASSUME NEW i \in Job, NEW t \in LeaseTerms, LeaseNext(i, t)
        PROVE  Contract!JobStep(j) \/ Contract!Stay(j)
    BY <2>0, <2>3 DEF LeaseNext, Ready, Allowed, Open, Held, Leasable, definition, IInv, TypeOK
  <2>4. ASSUME NEW i \in Job, NEW lag \in Lag, NEW n \in Token(i), HolderStep(i, n, lag)
        PROVE  Contract!JobStep(j) \/ Contract!Stay(j)
    BY <2>0, <2>4, BeginEffectStep, HolderMoves
  <2>5. CASE AnyBeat
    BY <2>0, <2>5 DEF AnyBeat, Heartbeat, Allowed, definition
  <2>6. ASSUME NEW c \in committing, CommitUpdate(c) \/ CommitWithoutChange(c)
        PROVE  Contract!JobStep(j) \/ Contract!Stay(j)
    BY <2>0, <2>6, CommitUpdateStays DEF CommitWithoutChange, Allowed, definition
  <2>7. ASSUME NEW S \in SUBSET Job, NEW lag \in Lag, Reap(S, lag)
        PROVE  Contract!JobStep(j) \/ Contract!Stay(j)
    BY <2>0, <2>7, ReapMoves
  <2>8. ASSUME NEW i \in Job, Cancel(i)
        PROVE  Contract!JobStep(j) \/ Contract!Stay(j)
    <3>1. status[i] \in Leasable => actsOf[i] = {}
      BY ActsCases DEF Leasable
    <3> QED BY <2>0, <2>8, <3>1
            DEF Cancel, Allowed, Open, Parked, Terminal, definition, IInv, TypeOK
  <2>9. CASE Tick
    BY <2>0, <2>9 DEF Tick, Allowed, definition
  <2> QED BY <2>1, <2>2, <2>3, <2>4, <2>5, <2>6, <2>7, <2>8, <2>9
          DEF Next, AnyLease, AnyCommit, AnyReap
<1> QED BY <1>1, <1>2, <1>3, <1>4 DEF Contract!Next

\* The ledger keeps the contract: one attempt at most ever acts on the outside
\* world, and a job that acted ends done or in front of a person.
THEOREM LedgerContract == Spec => ImplementsContract
<1>1. Init => Contract!Init
  <2> SUFFICES ASSUME Init PROVE Contract!Init
    OBVIOUS
  <2>1. phaseOf = [j \in Job |-> "none"]
    <3>1. \A j \in Job : status[j] = "absent"
      BY DEF Init
    <3>2. \A j \in Job : phaseOf[j] = "none"
      BY <3>1 DEF phaseOf, Leasable, Held, Parked
    <3>3. phaseOf = [j \in Job |-> phaseOf[j]]
      BY DEF phaseOf
    <3> QED BY <3>2, <3>3
  <2>2. actsOf = [j \in Job |-> {}]
    <3>1. \A j \in Job : {e.attempt : e \in {f \in effects : f.job = j}} = {}
      BY DEF Init
    <3> QED BY <3>1 DEF actsOf
  <2> QED BY <2>1, <2>2 DEF Init, Contract!Init
<1> QED BY <1>1, ContractStep, Inductive, PTL DEF Spec, ImplementsContract, Contract!Spec
----------------------------------------------------------------------------
(***************************************************************************)
(* The ledger under its clients.  A call of a stage executes as a step of  *)
(* the ledger, whenever that is; what a client once caused there stays.    *)
(***************************************************************************)

\* An attempt has a receipt for one of its claims.
Receipt(j, n) == \E e \in EffectsOf(j, n) : e.state = "committed"

\* The budget of a job is a number of attempts, numbered from 1.
LEMMA AttemptsArePositive == Attempts \subseteq Nat \ {0}
<1>1. PICK m \in Budgets : \A k \in Budgets : k <= m
  BY ClientAssumption
<1> DEFINE top == CHOOSE n \in Budgets : \A k \in Budgets : k <= n
<1>2. top \in Nat
  BY <1>1
<1> HIDE DEF top
<1>3. 1..top \subseteq Nat \ {0}
  BY <1>2
<1> QED BY <1>3 DEF Attempts, top

\* A process is its job and its attempt.
LEMMA WorkerParts ==
    ASSUME NEW w \in Worker
    PROVE  w[1] \in Job /\ w[2] \in Attempts /\ w[2] # 0 /\ w[2] \in Nat /\ w = <<w[1], w[2]>>
<1>1. w = <<w[1], w[2]>>
  BY DEF Worker
<1>2. w[1] \in Job /\ w[2] \in Attempts
  BY DEF Worker
<1> QED BY <1>1, <1>2, AttemptsArePositive

LEMMA PairsOfJob ==
    ASSUME NEW v \in Worker, NEW w \in Worker, v[1] = w[1], v[2] = w[2]
    PROVE  v = w
BY DEF Worker

\* The one who holds a live lease presents a token that was issued.
LEMMA HolderHasToken ==
    ASSUME IInv, NEW j \in Job, NEW n, NEW lag \in Lag, HoldsLiveLease(j, n, lag)
    PROVE  n \in Token(j) /\ n = lease_count[j]
BY DEF IInv, TypeOK, Safe, LeaseConsistent, HoldsLiveLease, Token

LEMMA ExecutesIsAStep ==
    ASSUME IInv, NEW c, c.job \in Job, Executes(c),
           c.op = "record_gate" => c.arg \in Decisions,
           c.op = "begin_effect" => KeyOf(c) \in EffectKey
    PROVE  Next
<1> DEFINE j == c.job
           n == c.attempt
<1>1. PICK lag \in Lag :
         \/ c.op = "record_gate" /\ RecordGate(j, n, c.arg, lag)
         \/ c.op = "start"       /\ Start(j, n, lag)
         \/ c.op = "heartbeat"   /\ Heartbeat(j, n, HeartbeatTerm, lag)
         \/ c.op = "begin_effect" /\ BeginEffect(j, n, KeyOf(c), lag)
         \/ c.op = "complete"    /\ Complete(j, n, lag)
         \/ c.op = "fail"        /\ Fail(j, n, TRUE, RetryDelay, lag)
  BY DEF Executes
<1>2. HoldsLiveLease(j, n, lag)
  BY <1>1 DEF RecordGate, Start, Heartbeat, BeginEffect, Complete, Fail
<1>3. n \in Token(j)
  BY <1>2, HolderHasToken
<1> HIDE DEF j, n
<1>4. HolderStep(j, n, lag) \/ Heartbeat(j, n, HeartbeatTerm, lag)
  BY <1>1, ClientAssumption DEF HolderStep
<1> QED BY <1>3, <1>4, ClientAssumption DEF Next, AnyBeat, j

LEMMA ExecutesCheckIsAStep ==
    ASSUME IInv, NEW c, c.job \in Job, ExecutesCheck(c), KeyOf(c) \in EffectKey
    PROVE  Next
<1>1. PICK lag \in Lag : CommitCheck(c.job, c.attempt, KeyOf(c), lag)
  BY DEF ExecutesCheck
<1>2. c.attempt \in Token(c.job)
  BY <1>1, HolderHasToken DEF CommitCheck
<1> QED BY <1>1, <1>2 DEF Next, HolderStep

\* What is once in the ledger stays there, and only complete_job makes a job
\* succeed.
LEMMA LedgerGrows ==
    ASSUME IInv, [Next]_vars
    PROVE  /\ gate \subseteq gate'
           /\ \A j \in Job : lease_count[j] <= lease_count'[j]
           /\ \A e \in effects : e.state = "committed" => e \in effects'
           /\ \A e \in effects : \E f \in effects' :
                 f.job = e.job /\ f.key = e.key /\ f.attempt = e.attempt
           /\ \A j \in Job : status[j] \in Terminal => status'[j] = status[j]
           /\ \A j \in Job : status'[j] = "succeeded" =>
                 status[j] = "succeeded" \/ \E n, lag : Complete(j, n, lag)
<1> DEFINE Won == \A j \in Job : status'[j] = "succeeded" =>
                     status[j] = "succeeded" \/ \E n, lag : Complete(j, n, lag)
<1>1. \A j \in Job : status[j] \in Terminal => status'[j] = status[j]
  BY StatusMoves
<1>2. CASE UNCHANGED vars
  BY <1>2 DEF vars, budget, IInv, TypeOK
<1>3. ASSUME NEW c \in committing, CommitUpdate(c)
      PROVE  /\ gate' = gate /\ lease_count' = lease_count /\ status' = status
             /\ \A e \in effects : e.state = "committed" => e \in effects'
             /\ \A e \in effects : \E f \in effects' :
                   f.job = e.job /\ f.key = e.key /\ f.attempt = e.attempt
  <2> DEFINE row(s) == [job |-> c.job, key |-> c.key, attempt |-> c.attempt, state |-> s]
  <2>1. effects' = (effects \ {row("started")}) \cup {row("committed")}
    BY <1>3 DEF CommitUpdate
  <2>2. \A e \in effects : e.state = "committed" => e \in effects'
    BY <2>1
  <2>3. ASSUME NEW e \in effects
        PROVE  \E f \in effects' : f.job = e.job /\ f.key = e.key /\ f.attempt = e.attempt
    <3>1. CASE e = row("started")
      <4>1. row("committed") \in effects'
        BY <2>1
      <4> QED BY <3>1, <4>1
    <3>2. CASE e # row("started")
      BY <2>1, <3>2
    <3> QED BY <3>1, <3>2
  <2> QED BY <1>3, <2>2, <2>3 DEF CommitUpdate, budget
<1>4. CASE ~ (UNCHANGED vars \/ \E c \in committing : CommitUpdate(c))
  <2>1. Next
    BY <1>4
  <2>2. ASSUME NEW j \in Job, NEW s \in BOOLEAN, NEW m \in Budgets, NEW d \in Delays,
               Submit(j, s, m, d)
        PROVE  gate' = gate /\ lease_count' = lease_count /\ effects' = effects /\ Won
    BY <2>2 DEF Submit, budget, IInv, TypeOK
  <2>3. ASSUME NEW j \in Job, NEW t \in LeaseTerms, LeaseNext(j, t)
        PROVE  /\ gate' = gate /\ effects' = effects /\ Won
               /\ \A i \in Job : lease_count[i] <= lease_count'[i]
    BY <2>3 DEF LeaseNext, IInv, TypeOK
  <2>4. ASSUME NEW j \in Job, NEW lag \in Lag, NEW n \in Token(j), HolderStep(j, n, lag)
        PROVE  /\ gate \subseteq gate' /\ effects \subseteq effects' /\ Won
               /\ lease_count' = lease_count
    <3>1. CASE \E d \in Decisions : RecordGate(j, n, d, lag)
      BY <3>1 DEF RecordGate, EndLease, budget, IInv, TypeOK
    <3>2. CASE Start(j, n, lag)
      BY <3>2 DEF Start, budget, IInv, TypeOK
    <3>3. CASE \E k \in EffectKey : BeginEffect(j, n, k, lag) \/ CommitCheck(j, n, k, lag)
      BY <3>3 DEF BeginEffect, CommitCheck, budget
    <3>4. CASE Complete(j, n, lag)
      BY <3>4 DEF Complete, EndLease, budget, IInv, TypeOK
    <3>5. CASE \E r \in BOOLEAN, d \in Delays : Fail(j, n, r, d, lag)
      BY <3>5 DEF Fail, FailStatus, AfterInterruption, EndLease, budget, IInv, TypeOK
    <3> QED BY <2>4, <3>1, <3>2, <3>3, <3>4, <3>5 DEF HolderStep
  <2>5. ASSUME NEW j \in Job, NEW lag \in Lag, NEW n \in Token(j), NEW t \in LeaseTerms,
               Heartbeat(j, n, t, lag)
        PROVE  gate' = gate /\ lease_count' = lease_count /\ effects' = effects /\ Won
    BY <2>5 DEF Heartbeat, budget
  <2>6. ASSUME NEW c \in committing, CommitWithoutChange(c)
        PROVE  gate' = gate /\ lease_count' = lease_count /\ effects' = effects /\ Won
    BY <2>6 DEF CommitWithoutChange, budget
  <2>7. ASSUME NEW S \in SUBSET Job, NEW lag \in Lag, Reap(S, lag)
        PROVE  gate' = gate /\ lease_count' = lease_count /\ effects' = effects /\ Won
    BY <2>7 DEF Reap, AfterInterruption, budget
  <2>8. ASSUME NEW j \in Job, Cancel(j)
        PROVE  gate' = gate /\ lease_count' = lease_count /\ effects' = effects /\ Won
    BY <2>8 DEF Cancel, budget, IInv, TypeOK
  <2>9. ASSUME Tick
        PROVE  gate' = gate /\ lease_count' = lease_count /\ effects' = effects /\ Won
    BY <2>9 DEF Tick, budget
  <2> HIDE DEF Won
  <2>10. /\ gate \subseteq gate' /\ effects \subseteq effects' /\ Won
         /\ \A i \in Job : lease_count[i] <= lease_count'[i]
    <3>1. \A i \in Job : lease_count[i] <= lease_count[i]
      BY DEF IInv, TypeOK
    <3>2. CASE AnyLease \/ \E j \in Job, s \in BOOLEAN, m \in Budgets, d \in Delays :
                              Submit(j, s, m, d)
      BY <2>2, <2>3, <3>1, <3>2 DEF AnyLease
    <3>3. CASE AnyBeat \/ \E j \in Job, lag \in Lag : \E n \in Token(j) :
                             HolderStep(j, n, lag)
      BY <2>4, <2>5, <3>1, <3>3 DEF AnyBeat
    <3>4. CASE AnyCommit
      BY <1>4, <2>6, <3>1, <3>4 DEF AnyCommit
    <3>5. CASE AnyReap \/ Tick \/ \E j \in Job : Cancel(j)
      BY <2>7, <2>8, <2>9, <3>1, <3>5 DEF AnyReap
    <3> QED BY <2>1, <3>2, <3>3, <3>4, <3>5 DEF Next
  <2> QED BY <1>1, <2>10 DEF Won
<1>5. \A j \in Job : lease_count[j] <= lease_count[j]
  BY DEF IInv, TypeOK
<1> QED BY <1>1, <1>2, <1>3, <1>4, <1>5

\* In particular what the stages ask of it.
LEMMA LedgerKeeps ==
    ASSUME IInv, [Next]_vars
    PROVE  /\ \A j, n, d : Decided(j, n, d) => Decided(j, n, d)'
           /\ \A j, n : EffectsOf(j, n) # {} => EffectsOf(j, n)' # {}
           /\ \A j, n : Receipt(j, n) => Receipt(j, n)'
           /\ \A j \in Job : status[j] = "succeeded" => status'[j] = "succeeded"
BY LedgerGrows DEF Decided, EffectsOf, Receipt, Terminal

\* What an executed call leaves.
LEMMA ExecutedCall ==
    ASSUME IInv, NEW c, c.job \in Job, Executes(c)
    PROVE  /\ committing' = committing
           /\ lease_count' = lease_count
           /\ c.op = "record_gate" => Decided(c.job, c.attempt, c.arg)'
           /\ c.op = "begin_effect" => \E e \in EffectsOf(c.job, c.attempt)' : e.key = KeyOf(c)
           /\ c.op = "complete" => /\ status'[c.job] = "succeeded"
                                   /\ lease_count[c.job] = c.attempt
                                   /\ EffectsSettled(c.job, c.attempt)
           /\ \A j \in Job : status'[j] = "succeeded" =>
                 status[j] = "succeeded" \/ (c.op = "complete" /\ j = c.job)
<1> USE DEF budget
<1>1. PICK lag \in Lag :
         \/ c.op = "record_gate" /\ RecordGate(c.job, c.attempt, c.arg, lag)
         \/ c.op = "start"       /\ Start(c.job, c.attempt, lag)
         \/ c.op = "heartbeat"   /\ Heartbeat(c.job, c.attempt, HeartbeatTerm, lag)
         \/ c.op = "begin_effect" /\ BeginEffect(c.job, c.attempt, KeyOf(c), lag)
         \/ c.op = "complete"    /\ Complete(c.job, c.attempt, lag)
         \/ c.op = "fail"        /\ Fail(c.job, c.attempt, TRUE, RetryDelay, lag)
  BY DEF Executes
<1>2. committing' = committing /\ lease_count' = lease_count
  BY <1>1 DEF RecordGate, Start, Heartbeat, BeginEffect, Complete, Fail
<1>3. ASSUME c.op = "record_gate" PROVE Decided(c.job, c.attempt, c.arg)'
  <2>1. RecordGate(c.job, c.attempt, c.arg, lag)
    BY <1>1, <1>3
  <2> QED BY <2>1 DEF RecordGate, Decided
<1>4. ASSUME c.op = "begin_effect"
      PROVE  \E e \in EffectsOf(c.job, c.attempt)' : e.key = KeyOf(c)
  <2>1. BeginEffect(c.job, c.attempt, KeyOf(c), lag)
    BY <1>1, <1>4
  <2> DEFINE e == [job |-> c.job, key |-> KeyOf(c), attempt |-> c.attempt,
                   state |-> "started"]
  <2>2. e \in effects' /\ e.job = c.job /\ e.attempt = c.attempt /\ e.key = KeyOf(c)
    BY <2>1 DEF BeginEffect
  <2> HIDE DEF e
  <2> QED BY <2>2 DEF EffectsOf
<1>5. ASSUME c.op = "complete"
      PROVE  /\ status' = [status EXCEPT ![c.job] = "succeeded"]
             /\ lease_count[c.job] = c.attempt
             /\ EffectsSettled(c.job, c.attempt)
  <2>1. Complete(c.job, c.attempt, lag)
    BY <1>1, <1>5
  <2>2. lease_count[c.job] = c.attempt
    BY <2>1, HolderHasToken DEF Complete
  <2> QED BY <2>1, <2>2 DEF Complete, EndLease
<1>6. ASSUME c.op # "complete", NEW j \in Job, status'[j] = "succeeded"
      PROVE  status[j] = "succeeded"
  <2>1. PICK new : /\ new # "succeeded"
                   /\ status' = status \/ status' = [status EXCEPT ![c.job] = new]
    <3>1. \/ status' = status
          \/ \E new : new # "succeeded" /\ status' = [status EXCEPT ![c.job] = new]
      BY <1>1, <1>6 DEF RecordGate, Start, Heartbeat, BeginEffect, Fail, FailStatus,
                        AfterInterruption, EndLease
    <3> QED BY <3>1
  <2> QED BY <1>6, <2>1 DEF IInv, TypeOK
<1>7. c.op = "complete" => status'[c.job] = "succeeded"
  BY <1>5 DEF IInv, TypeOK
<1>8. \A j \in Job : status'[j] = "succeeded" =>
        status[j] = "succeeded" \/ (c.op = "complete" /\ j = c.job)
  <2>1. ASSUME c.op = "complete", NEW j \in Job, j # c.job
        PROVE  status'[j] = status[j]
    BY <1>5, <2>1 DEF IInv, TypeOK
  <2> QED BY <1>6, <2>1
<1> QED BY <1>2, <1>3, <1>4, <1>5, <1>7, <1>8

\* What moves the ledger besides the calls does not make a job succeed.
LEMMA EnvironmentMoves ==
    ASSUME IInv, LedgerEnvironment
    PROVE  /\ Next
           /\ committing' = committing
           /\ lease_count' = lease_count
           /\ \A j \in Job : status'[j] = "succeeded" => status[j] = "succeeded"
<1>1. Next
  BY DEF LedgerEnvironment, Next
<1>2. CASE \E j \in Job, s \in BOOLEAN, m \in Budgets, d \in Delays : Submit(j, s, m, d)
  BY <1>1, <1>2 DEF Submit, budget, IInv, TypeOK
<1>3. CASE AnyReap
  BY <1>1, <1>3 DEF AnyReap, Reap, AfterInterruption, budget
<1>4. CASE \E j \in Job : Cancel(j)
  BY <1>1, <1>4 DEF Cancel, budget, IInv, TypeOK
<1>5. CASE Tick
  BY <1>1, <1>5 DEF Tick, budget
<1> QED BY <1>2, <1>3, <1>4, <1>5 DEF LedgerEnvironment
=============================================================================
