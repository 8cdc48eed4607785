---------------------------- MODULE LedgerClient ----------------------------
(***************************************************************************)
(* How a stage worker (B032, B033, B034) talks to the ledger.  Each call   *)
(* starts the adapter, ledger_psql.py, which runs one SECURITY DEFINER     *)
(* function of the stage through psql.  The worker waits ten seconds at    *)
(* most.  A call it gave up on may execute at any later time, or never: a  *)
(* worker that sees an error does not know whether the call took effect.   *)
(*                                                                         *)
(* A worker process is a pair <<job, attempt>>: the launcher starts one    *)
(* process with the envelope of each lease.  That a call executed and its  *)
(* answer was lost needs no step of its own: the worker gives up first,    *)
(* and the call executes next.                                             *)
(***************************************************************************)
EXTENDS JobLedger

CONSTANTS
    HeartbeatTerm,  \* ledger.heartbeat_seconds of the stage's config, in ticks
    RetryDelay      \* ledger.retry_delay_seconds, in ticks

ASSUME ClientAssumption ==
    /\ HeartbeatTerm \in LeaseTerms
    /\ RetryDelay \in Delays
    /\ \E m \in Budgets : \A k \in Budgets : k <= m

VARIABLES
    pc,     \* where each worker process is; the name of an operation means
            \* that it waits for the answer to that call
    calls   \* calls that were sent and have neither executed nor vanished

client == <<pc, calls>>

\* A job is leased max_attempts times at most: approval refunds a lease, but
\* nothing leases a job that waits for approval.
Attempts == 1..(CHOOSE m \in Budgets : \A k \in Budgets : k <= m)
Worker   == Job \X Attempts

Call(w, op, arg) == [job |-> w[1], attempt |-> w[2], op |-> op, arg |-> arg]
Caller(c)        == <<c.job, c.attempt>>

\* The effect keys of the stage APIs name the job and what is done to it.
KeyOf(c) == <<c.job, c.arg>>
----------------------------------------------------------------------------
Goto(w, loc) == pc' = [pc EXCEPT ![w] = loc]

\* Process w starts the adapter for operation op and waits.
Request(w, op, arg) ==
    /\ calls' = calls \cup {Call(w, op, arg)}
    /\ Goto(w, op)
    /\ UNCHANGED vars

\* Call c is over; its sender goes to loc if it is still waiting.
Answer(c, loc) ==
    /\ calls' = calls \ {c}
    /\ IF pc[Caller(c)] = c.op THEN Goto(Caller(c), loc) ELSE UNCHANGED pc

\* sql_for: the one function that an operation calls.  fail sends the stage's
\* retryable flag, true in all three stages, and its configured delay.
Executes(c) ==
    \E lag \in Lag :
        \/ c.op = "record_gate" /\ RecordGate(c.job, c.attempt, c.arg, lag)
        \/ c.op = "start"       /\ Start(c.job, c.attempt, lag)
        \/ c.op = "heartbeat"
              /\ Heartbeat(c.job, c.attempt, HeartbeatTerm, lag)
        \/ c.op = "begin_effect"
              /\ BeginEffect(c.job, c.attempt, KeyOf(c), lag)
        \/ c.op = "complete"    /\ Complete(c.job, c.attempt, lag)
        \/ c.op = "fail"
              /\ Fail(c.job, c.attempt, TRUE, RetryDelay, lag)

\* a receipt is stored for whoever sends it: no check of the lease
BadExecutesCheck(c) ==
    /\ c.op = "commit_effect"
    /\ committing' = committing \cup
          {[job |-> c.job, key |-> KeyOf(c), attempt |-> c.attempt]}
    /\ calls' = calls \ {c}
    /\ UNCHANGED <<status, definition, budget, lease, delay, gate, effects,
                   trail, pc>>

\* commit_effect takes two steps in the database.  The answer follows the
\* second; the sender still waits for it in between, or has given up.
ExecutesCheck(c) ==
    /\ c.op = "commit_effect"
    /\ \E lag \in Lag : CommitCheck(c.job, c.attempt, KeyOf(c), lag)
    /\ calls' = calls \ {c}
    /\ UNCHANGED pc

CommitCall(d) == Call(<<d.job, d.attempt>>, "commit_effect", d.key[2])

\* What moves the ledger besides the workers: submissions, the reaper, an
\* operator who cancels, the clock.
LedgerEnvironment ==
    /\ \/ \E j \in Job, s \in BOOLEAN, m \in Budgets, d \in Delays :
             Submit(j, s, m, d)
       \/ AnyReap
       \/ \E j \in Job : Cancel(j)
       \/ Tick
    /\ UNCHANGED client
=============================================================================
