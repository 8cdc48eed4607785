# Verification of FrankensteinzHermes

TLA+ models of the parts of FrankensteinzHermes that decide what autonomous work
may do, how often it is done and what is known of it afterwards; TLC runs that
check them on small instances; and theorems, checked by TLAPS, for every
instance. Paths below are relative to the root of the repository.

    tlc -config JobLedger.cfg MCJobLedger      check one run (see "Runs")
    tlapm JobLedgerProofs.tla                  check one module of proofs

`PROJECT.json` says for every definition which lines of the code it stands for,
lists the runs, the hazards, the disagreements found between code and
documentation, and for every property a plausible bug (an operator `Bad...`)
that the property catches.

## The system

FrankensteinzHermes runs on one host. PostgreSQL holds all durable state of its
work; short-lived Python processes do the work; a small daemon is asked before
they do.

| Part | State it keeps | Operations | Talks to |
|---|---|---|---|
| Job ledger B031, `db/migrations/0003`-`0005` | jobs, attempts, gate decisions, effects, events | submit, lease, record_gate, start, heartbeat, begin/commit_effect, complete, fail, reap, cancel | called by everything that works |
| Stage APIs, `db/migrations/0006`-`0008`, and adapters `ledger_psql.py` | none | one SQL function per ledger call, restricted to the stage's kind of job | workers -> ledger, one psql process per call |
| Engineering worker B032, `scripts/engineering_worker` | evidence directory, worktree, branch | turns a model's patch into a local commit | gate, ledger, git, model |
| Reviewer B033, `scripts/engineering_reviewer` | review bundle | verifies B032's evidence, has it reviewed, gives a verdict | ledger, git (reads), model |
| QA coordinator B034, `scripts/engineering_qa` | clone, QA bundle | runs candidate code under sandbox profiles, gives a verdict | gate, ledger, git, model, sandbox |
| Sandbox adapter, `bwrap_sandbox_adapter.py` | a transient unit | runs one profile | systemd, Bubblewrap |
| Action Gate B030, `scripts/action_gate` | audit file; reads policy and kill switch | decides one request per connection | B032 and B034 through `client.py` |
| Resource governor B014, `scripts/governor` | lock files, metrics file | admits a command, limits heavy ones | whoever starts a command with it |
| Model evidence tools, `scripts/models` | bundle directories, the evidence inbox | capture, import | operator |
| Model registry, `db/migrations/0002` | evaluations of models | insert, rank | operator |
| PostgreSQL operations, `scripts/postgres` | `fzh_meta.schema_migrations`, dumps with digests, a disposable container | migrate, back up, test a restore | operator |
| Health collector, `scripts/health` | a status file | collect | systemd timer |
| Operator command line, `scripts/jobs/ledger.sh` | none | submit, reap, cancel, show | ledger |

Bootstrap, installers, validators, CI workflows, deployment data, policy and
schemas complete the repository; they keep no state of the system's own.

What is hard in it:

* **Ownership by deadline.** A worker owns a job until a time, not until it
  stops. It may still run, write files and send calls when the next attempt is
  under way.
* **Calls with unknown outcome.** A worker gives a ledger call ten seconds. The
  psql process that it gave up on may execute later, or may have executed.
* **Clocks in transactions.** `now()` is the start of a transaction. After a
  wait for a row lock it is old.
* **One unlocked read.** `commit_job_effect` looks at the job and then writes,
  without the row lock that all its siblings take.
* **Work that cannot be repeated.** Commits and runs of untrusted code are
  claimed in the ledger before and confirmed after; in between anything can die.
* **Fail closed.** No answer, a late answer, a crash or a restart of the gate
  must never become a permission, and no permission may go unrecorded.
* **Locks against processes.** The governor's slots belong to wrappers, the load
  they limit to the wrappers' commands.

* **Files read twice.** A file is hashed, and read again to be used: evidence and
  reviews between the stages, migrations, model evidence.
* **Payloads copied by hand.** Whoever submits a review or a QA job copies digests,
  commits and branches from earlier jobs.
* **Shared names.** A unit name that is cut off, one temporary file, one container
  for all restore tests, one second for two backups, one directory for two captures.
* **Scripts without transactions.** Capture, backup and migration are sequences of
  commands, each of which can be the last.

What makes each part correct:

* ledger: at most one holder; finite budget; claimed work is never repeated or
  dropped; evidence belongs to the attempt it admitted; every job comes to rest;
* stages: one process works per job; the ledger is ahead of what the process
  leaves outside; what the ledger calls done is there; the verdict in the ledger
  is the earned one;
* gate: strict rules win; permissions are recorded; the switch works at once; a
  silent client blocks nobody for ever;
* hand-over: only an approved commit runs, and it is the one that was sealed and
  reviewed; what a stage leaves intact, the next one takes;
* sandbox adapter: a pass is earned; it ends in time; code that outlives it is
  accounted for and ends;
* PostgreSQL operations: a version is applied once, whole and in order, and its
  entry is true; a dump is whole and stays; a restore test that passes restored it;
* models: rows are what one capture observed; the ranking does not go back;
* governor: a slot has one owner and goes with it; nobody waits; metrics are
  whole and do not go back unless runs overlap.

## Modules

    WorkContract          what the ledger promises, without leases or clocks
      JobLedger             B031; implements WorkContract
        JobLedgerProofs       also of the contract, and of the ledger's callers
        LedgerClient          calls that are late, lost or never executed
          EngineeringWorker     B032 on top of the ledger; implements JobLedger
            WorkerProofs
          EngineeringReviewer   B033 on top of the ledger; implements JobLedger
            ReviewerProofs
          QACoordinator         B034 on top of the ledger; implements JobLedger
            QAProofs
    HandOver              what B032, B033 and B034 hand to each other
      HandOverProofs
    GateDecision          the decision, a pure operator
      ActionGate            daemon, clients, audit file, switch, policy
        ActionGateProofs
    SandboxAdapter        one process per profile, systemd-run and the unit
    Governor              wrappers, lock files, commands
    GovernorMetrics       the metrics file
      HostProofs            of these three
    Migrations            migrate.sh
    Backups               backup.sh and restore-test.sh
    ModelEvidence         capture and import of a bundle
    ModelRegistry         evaluations and which of them are ranked
      PostgresProofs        of these four

`MC*.tla` give the constants their values for TLC. Three of them run several
modules that share nothing (`MCEngineeringReviewer`, `MCGovernor`, `MCPostgres`):
one variable says at the beginning whose steps a behaviour has, the
others keep their initial states. `MCActionGate` does the same with the daemon
and the decision.

### JobLedger

One variable per column of `fzh.jobs` that decides something, and one set per
table: `gate`, `effects`. Of `fzh.job_events` only the last `to_status` of each
job is kept (`trail`). One action per SQL function, all of them with the row lock
of the job, except `commit_job_effect`: `CommitCheck` is its first statement,
`CommitUpdate` or `CommitWithoutChange` the rest, and `committing` the
transactions in between. A lease token is represented by the number of its
attempt; a caller may present any token that was ever issued for the job, in any
order, so that late, repeated and reordered calls are part of the model.

Deadlines are kept as time left (`lease_left`, `delay`), and `Tick` is the clock.
Each action that compares with `now()` does so with a clock that is up to
`LockWait` ticks old. Priorities, payloads, reasons and owners are left out:
`ORDER BY` cannot be relied on under `SKIP LOCKED`, and nothing else reads them.
`Reap` ends any non-empty set of expired leases: it skips locked rows.

### LedgerClient and the stages

A worker process is the pair of a job and its attempt. `pc` is its place in
`main()`; the name of an operation means that it waits for that call. `Request`
puts a call in `calls`, the database executes it at any later time (`Executes`)
or never, and a worker may give up waiting at any time; an answer to a worker
that has given up is dropped. A process can raise at every statement, and die at
every point. What it leaves outside stays: evidence directory, worktree, branch
and manifest for B032; bundle for B033; clone, bundle and the runs of candidate
code for B034. What git, the models, the tests and the sandbox return is free.

B032: `mkdir` of the evidence directory is the one atomic step by which
overlapping processes exclude each other, and the model checks that it suffices.
The commands of `cleanup_worktree` may fail, which the code does not look at: a
worktree that stays, or a branch that cannot be deleted. `littered` are the processes
to which that has happened; all that is left behind otherwise is for `EndingsMatch`
to exclude.
B033 and B034 write their bundle with the same step, at the end. The B034 module
includes `worker.py`, which wraps every sandbox run into `begin_effect` and
`commit_effect`. `StartProfile` is the start of a run in the clone, `Report` what
the sandbox returns; `ran` has the runs of candidate code. A process without a
lease may remove the workspace of another, or make its own clone there;
`disturbed` are the processes with a run that began, or went on, on less than their
own clone.

### HandOver

The stages again, without leases: one process per job, and what it reads and
writes outside the ledger, file by file and check by check. B032 leaves a sealed
evidence directory and a branch (`Work` ... `KeepWork`); B033 takes the digests
of its payload, hashes the files, reads them again, compares them with the
manifest's list and the branch, judges and seals a bundle (`LaunchReview` ...
`SealReview`); B034 does the same with the review and the candidate, clones and
runs (`LaunchQA` ... `RunHead`). `ReviewPayload` and `QAPayload` are any mixture of
what different jobs have; `ChangeFile` and `MoveBranch` happen at any time;
`LeaveWork`, `LeaveReview` and `LeaveQA` are exceptions and kills. A digest is the
content itself. `allowed` says whether the allowed paths of a review cover what the
candidate changes, `ample` whether QA's `max_evidence_bytes` covers whatever the
reviewer's own budgets let it write; where it does not, the review may fit or not
(`Fits`), at both places that look (`coordinator_core.py:282`, `:320`). Each of them
that is not so counts as a fault. Assumed: git fails only when an object or a ref is
not as named; what a worker records of its commit is what git says of it later; a
changed file is one of a sealed directory; a file that is not JSON makes the reviewer
raise.

### SandboxAdapter

`collect_bounded` with its deadline and its limit of output, `stop_unit`, the
systemd-run client and the unit behind it. systemd, the candidate's command and
the kernel do what they like (`Systemd`, `End`, `Output`, `ClientExit`); the
adapter's limits are kept by `Overdue`, past which time does not go on. The
adapters of a job use one unit name, as profiles whose first 24 characters agree
do. `loose` are the adapters that were killed or whose stop had no effect.

### ActionGate and GateDecision

`Decide` is `validate_request` with `_decision`, on the fields that are read. The
daemon serves one connection after the other: `Accept`, `Decided`, `Audit`,
`Reply`. What the code does not catch (a client that is gone in `sendall`, a
failing audit file, SIGTERM) is `Crash` or `Broken`: all connections are lost, and
each client turns that into deny. systemd may start the daemon again, with the
policy then installed. root installs policies and flips the switch at any time.

### Governor and GovernorMetrics

A wrapper takes one `flock` after the other (`TryLock`); the kernel drops it when
the wrapper's file is closed, also by `Kill`. The command is a process of its own
and runs on. `GovernorMetrics` has the temporary name, the published name and the
inodes behind them, so that a truncation through one name of a file published
under another would be seen.

### Migrations and Backups

`Migrations`: a run asks for the entry of a file, compares checksums, and pipes
BEGIN, the file, the INSERT and COMMIT through psql. The file is read once for
the checksum and once for psql (`disturbed` has the runs and files with an edit in
between, `edited` those with an edit since the run began). COMMIT takes effect only
if no other run has inserted the version, as the primary key has it; its answer can
be lost. `Deploy` adds or edits files at any time. What it adds may come before files
that are applied already: `migrate.sh` then applies it after them, so that
`AppliedInOrder` speaks of the files that a run found when it began.

`Backups`: names are made of the second in which a run begins. `partial` and
`final` are the two names of each second, `content` the inodes behind them. The
trap removes the partial file, before or after another run of the same second has
taken its place. `restore-test.sh` checks the digest, starts the one disposable
container, restores and counts. Every removal of the container may fail, which the script
ignores (`|| true`), and `up -d` leaves a container alone that is there. Tests that
overlap, whose dump changes, or that could not remove the container of an earlier one
are `mixed`. `stuck` says that since the container was last removed a test was killed
or could not remove it; only then it may be there without a test.

### ModelEvidence and ModelRegistry

`ModelEvidence`: captures and imports in one directory, file by file. Captures may
overlap there: `mkdir -p` and no lock, and the name is a second or the operator's
choice. A capture that opens a file empties it under whoever is writing it; what two
that have it open at once (`shared`) leave there is any `Mixture`. `mingled` are the
imports before or during which captures have overlapped. A capture
that fails half-way is `CutShort` and leaves files of two captures beside each
other; `given` is what llmfit gave to each. `inbox` is
`fzh.model_candidate_evidence` with its unique key; imports during which a
capture wrote in the directory are `raced`.

`ModelRegistry`: `LatestValid` is the query of `rank_model_candidates` up to the
scores: the newest evaluation of each candidate that is valid now, not synthetic
and of this machine or of any.

## Runs

Passing:

| Run | Instance | States | Shows |
|---|---|---|---|
| `ledger` | 2 jobs, 2 effect keys, budgets 1 and 2, lag 1 | 815k | `LeaseConsistent`, `BudgetAccounting`, `NeverReplayed`, `GateEvidence`, `SucceededIsCommitted`, `TrailMatches`; `NoHandover` |
| `ledger_live` | 1 job, 2 effect keys, budgets 1-3, terms 1 and 2, delays 0 and 2, lag 1 | 16k | the ledger implements `WorkContract`; `JobsComeToRest` |
| `worker` | 1 job, 2 attempts, lag 1 | 38k | `OneExecutor`, `LedgerLeads`, `EndingsMatch`; the composition implements the ledger; `WorkerJobsRest` |
| `reviewer` | 1 job, 2 attempts, limit 1, mediums 0-1; hand-over of 2 candidates by 2 reviews to 1 QA job, 2 faults | 383k | `ReviewMatchesLedger`, `ApprovalIsEarned`; `ReviewsEnd`; `OnlyApprovedRuns`, `RejectsHaveReasons` |
| `qa` | 1 job, 2 attempts, 2 profiles | 497k | `NoSilentReplay`, `BundleMatchesLedger`, `VerdictIsEarned`; `QAJobsRest` |
| `gate` | 2 clients, 3 requests, 2 policies; all requests under 2 policies | 141k | `AnswersAreAudited`, `KillSwitchHolds`; `ConnectionsEnd`; `EscalationIsMonotone`; no deadlock |
| `governor` | 3 wrappers, 2 slots; 4 runs of the metrics; 2 sandbox adapters | 495k | `GuardedLimit`; `WrappersEnd`; `SnapshotIsAtomic`, `NeverOlder`; `PassIsEarned`, `OrphansAreAccounted`, `AdapterIsBounded`; `AllEnds` |
| `postgres` | 2 runs of migrate.sh, 2 files, 2 texts; 2 backups, 2 restore tests, 2 seconds; 2 captures, 2 imports, 2 use cases; 3 evaluations of 2 models | 2.5M | `MigrationsAreSound`; `BackupsAreSound`; `DumpsAreKept`; `RowsAreObserved`; `RankingHolds` |

The longest run takes two to three minutes. The type invariant of a
module is proved where the module has proofs and is a conjunct of one of the
properties. Each property is stated in words above its definition.

Violated, each the disagreement of the code with a sentence of its documentation
that `PROJECT.json` quotes under "findings":

| Run | What happens |
|---|---|
| `worker_branch` | the answer to `complete` is lost. The job has succeeded, and the worker, handling an exception, deletes the candidate branch that the job's result names. |
| `qa_clone` | three attempts: the first and then the second, both without a lease, reach the workspace of the third. One removes its clone, the other makes its own there; the third tests the rest in that one and passes. |
| `qa_reject` | an admission mismatch is to end the job with the verdict reject; `complete_job` refuses a side-effecting job without effects. The job is retried until it is dead-lettered. |
| `governor_crash` | a wrapper is killed and its command is not: the slot is free, and a third heavy command starts. |

### Bounds

* **Two jobs, two attempts.** Actions of the ledger touch one job, except `Reap`;
  two jobs show what one statement does to several. Two attempts are an expired
  holder and its successor; `ledger_live` has three. `qa_clone` needs three, and
  leaves out kills, cancellations and two calls under way at once (`Calm`). The
  theorems about the stages have any number of jobs, attempts and processes.
* **Two effect keys** let one attempt have one claim committed and one open.
* **Time.** A term of one tick with a lag of one gives all orders of a deadline
  and a call: before, in the moment of, and after while the transaction still
  believes it is before. `ledger_live` has longer terms and delays, so that
  heartbeats shorten and extend a lease.
* **One job per stage run.** Processes of different jobs share nothing but the
  database: directories, branches and effect keys are named after the job.
* **Two clients of the gate**: one that is served and one that waits. Three
  requests get the three kinds of answers.
* **Three wrappers, two slots**: both taken and one that scans, one taken and two
  that scan, or three that scan at once. The proofs have any number.
* **Hand-over.** Two candidates, so that entries can be of the wrong one; the second
  has been kept and approved when a behaviour begins, a state that it reaches
  without faults. `MaxFaults` is 2, so that what one fault breaks a second can hide:
  an entry of another job together with a moved branch, a worker that died with its
  files there and a payload that names them. A review with paths that do not cover the
  candidate, or a QA job with too small a budget, is one of the two. `MaxChanges` is 1: each check that
  reads several files is one step of the model, which one change cannot split.
* **Sandbox.** Two profiles: one that leaves something behind, one that meets it.
  `Timeout` and `MaxOutput` of one tick and one chunk reach every limit; a tick is
  five seconds, so that the adapter's own limits are 2, 2 and 1.
* **PostgreSQL.** Two runs overlap; two files have an order, and may be released in
  either; two texts are a file and its edit; two seconds are backups of the same second
  and of different ones. `MCPostgres` leaves out what only repeats or comes too late to
  be seen: the run `m2` before `m1`, edits when both runs are over, seconds that pass
  when no backup is left to begin, migrations that no dump can have, and backups that no
  test will look at. One dump is altered on the disk.
* **Models.** Two captures mix two files each; the first finds machine 1 and output 1
  for each use case and is not synthetic (the other cases are renamings). Captures and
  imports begin in turn. If the captures overlap, one import follows when both are over;
  others are left to the theorem. The case of two captures that broke
  off needs a third one, and is left to the theorem. Three evaluations are one that
  counts, which comes first, and two that may replace it or should not.
* **Four runs of the metrics**: one killed with its temporary file left behind, two
  that overlap, and one after them.
* Attempts are bounded by `max_attempts` itself: nothing leases a job again that
  waits for approval.

`CHECK_DEADLOCK FALSE` stands where the system really stops: all jobs final, all
wrappers ended, all runs done. The gate never stops, and its deadlock is checked.
Symmetry is used in `ledger` only, which has no liveness property.

### Fairness

* `FairSpec` of the ledger: the clock ticks; somebody keeps leasing; the reaper is
  run again and again (`docs/operations/JOB-LEDGER.md`, "Run the deterministic
  reaper periodically"; no timer of the repository does it). Nothing is promised
  of workers, commits or cancellations. `JobsComeToRest` assumes in addition that
  heartbeats end some time, for a worker that renews for ever keeps its job. The
  stages send one heartbeat per process: `WorkerJobsRest`, `ReviewsEnd` and
  `QAJobsRest` do without that assumption, and ask nothing of the processes.
* `GateFair`: the daemon's own steps, `accept`, and the five-second timeout of each
  client. Neither a client's request nor a restart is promised.
* `GovernorFair`: a wrapper goes on, a command ends.
* `SandboxFairness`: the adapter goes on, the clock ticks, and systemd ends a unit
  that it was asked to stop or that is past `RuntimeMaxSec`. Nothing is promised of
  the candidate's command.

All of it is weak fairness. In a run of several modules, none of their fair actions
is enabled before its module's first step, so the fairness of one says nothing of
the others.

## Proofs

TLAPS checks these for all values of the constants, under the assumptions named
in the modules. They say of what kind the constants are, and little else:

* `LedgerAssumption`: budgets and terms are positive naturals, as the functions
  check. `ClientAssumption`: the stages' heartbeat term and retry delay are among
  those that the ledger admits, and there is a largest budget
  (`0003_job_ledger.sql:16`).
* `WorkerAssumption`, `ProfileAssumption`: the stages' effect keys are keys of the
  ledger, and a QA job has at least one baseline profile, as
  `coordinator_core.py:148` asks.
* `ReviewAssumption`, `GateAssumption`, `ClientNames`, `SlotAssumption`,
  `MetricsAssumption`, `SandboxAssumption`, `MigrationsAssumption`,
  `BackupsAssumption`, `EvidenceAssumption`, `RegistryAssumption`,
  `HandOverAssumption`: types and distinct names.

Every safety invariant, action property and refinement that a passing run checks
is proved, but for `EscalationIsMonotone`, which is about a variable of its MC
module; `GateEscalation` states the same of `Decide`, for every request and policy.

**JobLedgerProofs.** `LedgerType` first. The safety invariants are not inductive
one by one. `IInv` conjoins them with what they lean on: attempts in `gate`,
`effects` and `committing` are attempts that were leased; a decision other than
allow belongs to an attempt that ended; refunds are counted by the decisions
approval_required, of which an attempt has at most one. The argument for
`NeverReplayed`: a claim carries the number of the attempt that is running, only
a lease raises that number, and no status from which a job is leased is reached
by a job with a claim, because `fail_job` and the reaper ask for claims first.
There is one lemma per action (`SubmitSafe` ... `CancelSafe`); the actions that
end a lease share `EndLeaseSafe`. `LedgerBudget` adds that a refund changes the
count of decisions by one (`OneRefund`). `LedgerFinality` and `LedgerNoHandover`
are action properties, from one case analysis of how statuses move
(`StatusMoves`).

`LedgerContract == Spec => ImplementsContract`: initial states map to initial states
and every step to a step or a stutter of `WorkContract`, from `IInv`. `BeginEffect`
is the only step that is an `Act`; that no attempt has acted before is
`NeverReplayed` and the number of the attempt. A reap is a contract step of several
jobs at once. The last part is what the three stages need of the ledger whoever
calls it: which statuses an executed call leaves, that tokens and claims only grow,
and that what `Executes` does is a step of the ledger.

**The stages: WorkerProofs, ReviewerProofs, QAProofs.** Any number of processes of a
job run at once, most of them without a lease, and each has calls under way that
may be executed at any later time. In each module the refinement comes first: a step
of a process leaves the ledger alone, and the execution of a call is a step of the
ledger. So the composition implements `JobLedger` (`WorkerRefinesLedger`,
`ReviewerRefinesLedger`, `QARefinesLedger`) and all that is proved of the ledger
holds of it, which the rest uses: an answer depends on what the ledger was when the
call was executed, not on what the process knows. With `LedgerContract` the two
refinements compose: `WorkerContract`, `ReviewerContract` and `QAContract` say that
each stage, with its calls lost, late or repeated and its processes killed, keeps
`WorkContract`. The invariants have these parts:

* `Issued`: no process has started for a lease that was not issued; and, for each
  place of `main()`, what a process has behind it (`Left`): its decision, worktree,
  claims, receipts, manifest or runs. These facts stay true when the lease is lost,
  because claims, receipts and decisions are never taken back.
* `WorkerInv`: the process that made the evidence directory is the only one that is
  past it (`OneExecutor`), so branch, worktree and manifest are its own; a process
  that cleans up has made what it removes, and nobody makes it again after that, so
  that what is there later is what a failed command left. `WorkerExclusion`,
  `WorkerLedgerLeads` and `WorkerEndings` follow.
* `ReviewerInv`, `QAInv`: a bundle stays what its writer found, who has nothing more
  to find (`BundleStands`), and whoever is about to complete the job, or has sent
  the call, wrote the bundle (`WriterCompletes`). So the verdict of a late `complete`
  is the one on disk.
* `QAInv` only: candidate code runs under the claim of its attempt
  (`RunsAreClaimed`), and the ledger gives no attempt a lease once another has a
  claim, whence `QANoReplay`. A claim or a receipt under way is for the profile its
  sender waits for (`InFlight`). The last of two attempts has its clone to itself or
  nobody is left to make another (`CloneIsOwn`): this is where `VerdictIsEarned`
  says more of the first two attempts than of later ones, and `qa_clone` shows that
  it could not say it of the third.

**ActionGateProofs.** `GateEscalation` holds for every request and every policy
that `load_policy` accepts and whose defaults for L0 and L1 are not deny. The
condition is needed: under a default deny for L1 an irreversible request gets
approval_required, the weaker answer. `GateAudits` needs to know what the daemon
holds while it serves: a decision that the policy and switch account for
(`DraftIsSound`), and a record of it before it answers (`DraftIsLogged`).
`GateKillSwitch` needs that an open connection is one of a released client as
soon as the switch is off (`OpenIsReleased`), that a draft for any other client
denies (`DraftIsLocked`), and that the daemon only serves clients that connected
(`ServedConnected`).

**HostProofs.** The governor: `GovernorSlots` from an invariant about the scan index;
`GovernorLimit` from it by counting: running guarded commands inject into slots.
`GovernorExcess` is what remains of the documented limit, which `HeavyLimit` refutes:
of finitely many wrappers, the heavy commands exceed the slots by no more than those
whose wrapper was killed. The metrics: `SnapshotAtomic` and `SnapshotsAdvance` from `MetricsInv`:
snapshots are numbered as they are taken and no file is of a later one
(`Numbered`), and a run that is alone is the latest one and has its own file under
the temporary name (`Lonely`), never the published one (`TemporaryIsPrivate`).
The sandbox adapter: `PassEarned` leans on what a forced status and the exit status 0
of systemd-run stand for; `OrphansAccounted` on the name being taken by loose
units only; `AdapterBounded` on a budget: at every place of the adapter, the time
gone and the limits still to come add up to no more than `Longest`.

**PostgresProofs.** *Migrations*, for any number of runs, files and texts. The invariant adds
to the types what a run has seen: before its COMMIT takes effect the version has
no entry (`CommitIsFree`), the checksum and the text it holds are the file's but
for an edit (`ChecksumTaken`, `BodyTaken`), and those it found before its own are
applied (`PassedApplied`). `AppliesOnce`, `AppliesInOrder`, `EntriesAreTrue` and
`CurrentIsCurrent` follow one by one and make up `MigrationsSafe`; `AppliedStays`
is the action property that no applied version is touched again.

*Backups*, for any number of runs and seconds. A name leads to an inode, and the inode
is of the second of the run that made it (`Stamped`, `Only`); so a run that has its
second to itself is the only one that touches its dump, from the open file to the
digest (`AloneInside`, `DumpStands`). What a restore test has in its container was
restored from the dump whose digest it checked, unless the test is `mixed`
(`TestStands`, `Restored`): one that could not remove an earlier container is. `BackupsSound` and the action property `DumpsKept`
follow.

*Model evidence*, for any number of captures, imports and use cases (`RowsObserved`).
An import that no capture ran beside has read the bundle that is there
(`BundleAtRest`), so the digest it compared is of the file that its rows come from
(`RowsAsDigested`), whatever captures have made of the bundle. The rest holds as long
as no captures have overlapped (`Apart`): one writes at a time (`OneWriter`), so what
a capture has written so far is its own (`OwnFiles`). Manifest and report are each of a
capture (`Authors`). They are of the same one, or the report is of a capture that broke
off and left all its outputs there, unless two have broken off (`OfOneCapture`). The
attempt to prove this without the last clause failed, and the model has the
counterexample: see below.

*Model registry*, for any candidates, machines and evaluations (`RankingSound`). Ids
are given out in turn, so `Newer` is a total order of the rows, and what is ranked is
one row per candidate. A row that comes in is newer than the one ranked or leaves it
there; both action properties hold of every step, from types alone.

**HandOverProofs.** `OnlyApproved` assumes `MaxChanges <= 1`; payloads, branches,
kills and the number of jobs are free. A directory of a job has the job's own files
or one altered one (`Files`). What a process has loaded is of the job that its
payload names, or is altered, and then so is the directory (`Loads`); a list that
names both files was written by the job itself. So a review that went past its
checks is bound to one job (`Bound`), a QA job that did to an approved commit
(`Approved`), and no later step undoes either (`Grows`).

`RejectsEarned` assumes nothing of the changes. It needs the converse of the argument
above: that as long as nobody has changed a file or moved a branch (`Intact`), every
sealed directory holds what its stage wrote, and every process whose payload was not
mixed up has read just that (`CleanInv`: `BundleClean` of the candidate's directory,
`ReviewClean` and `QAClean` of the two processes that check one). So none of their
checks can fail, where the allowed paths cover the candidate and the budget the review.

Only model-checked: liveness (`JobsComeToRest`, `WorkerJobsRest`, `ReviewsEnd`,
`QAJobsRest`, `ConnectionsEnd`, `WrappersEnd`, `AllEnds`), which the prover does not
do, and the four disagreements of the runs that expect a violation.

## Not modelled

* What a model, a patch, a test or a sandbox computes: free in the models.
* Path and patch validation, hash functions, JSON formats: they accept or raise.
* Roles and grants of the stage APIs.
* The thresholds of the governor's snapshot. It is taken before the slot, so two
  wrappers may be admitted on the same free memory.
* What Bubblewrap isolates, and the resource limits of the units.
* A short write of the audit record: `server.py:32` does not look at what `os.write`
  returns. In the model a record is on disk or an exception ends the daemon.
* Scores, weights and the operator's approval of models: arithmetic on single rows.
* The health collector: each run writes a file under a name of its own and renames
  it, and no decision of the system reads it.
* Bootstrap, installers, validators, CI, adapters to the model gateway: no state,
  or third-party software.

Observed while modelling. The models contain each of these cases; no passing
property can exclude what the code does:

* `commit_job_effect` (`0003_job_ledger.sql:530`) looks at the job without its row
  lock. A job that the reaper quarantines in between gets an event
  `running -> running` after the one that quarantined it, so the event log ends in
  a status the job does not have. `TrailMatches` says that this is the only way.
* `git worktree add` killed at its timeout may have made the worktree;
  `worktree_added` is then false and nothing removes it (`worker.py:465`), although
  `docs/operations/ENGINEERING-WORKER.md:15` says that failed work removes it.
* The worker's clean-up ignores what its git commands say (`worker.py:384`): a worktree
  that cannot be removed stays, and the branch that is checked out in it then cannot be
  deleted either. `EndingsMatch` says that nothing else is left.
* `coordinator_core.py:574` removes whatever is in the job's workspace. A process
  that lost its lease before it cloned, while it waited for the planner model, so
  removes the clone of the next attempt, with a profile running on it.
* Two `status --write-metrics` share a temporary file (`governor.py:201`): one
  publishes what the other has just truncated, or an older snapshot, although
  `docs/operations/RESOURCE-GOVERNOR.md:35` calls the file atomic. `SnapshotIsAtomic`
  and `NeverOlder` hold of runs that do not overlap.
* After an attempt that made its evidence directory or wrote its bundle and then
  failed, every retry of that job stops at the directory (`worker.py:455`,
  `reviewer.py:456`, `coordinator_core.py:452`): the rest of the budget is spent
  without work.
* Nothing leaves `waiting_approval` but a cancellation, so the refunded budget is
  not used yet (`docs/operations/JOB-LEDGER.md:43` leaves it to a later mechanism).
* A heartbeat may shorten a lease; each stage sends one, at the beginning.
* A client that disconnects before its answer ends the gate daemon
  (`server.py:105`), and every waiting client is denied until systemd restarts it.

* B033 and B034 ask the ledger nothing of the earlier job; what they know of it is in
  the evidence directory. A branch that moves after `verify_candidate` is not looked
  at again: the commit that was named is cloned and run (`coordinator_core.py:523`).
* Any failure of git on the candidate is an integrity error, and so a terminal
  reject (`reviewer.py:266`).
* QA treats a review that is larger than its own `max_evidence_bytes` as one whose
  integrity is broken (`coordinator_core.py:282`, `:320`), and nothing compares that
  budget with the reviewer's: an approved review that nobody touched may be rejected.
* `stop_unit` has no effect before systemd has the unit
  (`bwrap_sandbox_adapter.py:96`), and the unit of a killed adapter lives until
  `RuntimeMaxSec`. The unit's name is cut off (line 149), so the next profile may
  find it taken; that, and any failure to launch, is reported as a `fail` of the
  profile. A unit that was stopped may count as a success.
* With three attempts that overlap, a QA job may pass on a clone that another attempt
  made (`qa_clone`). Its head is the approved one, as every clone's; what an earlier
  run of candidate code left in it is not known.
* The importer takes the hardware from the report and checks the outputs against the
  manifest, and compares neither the report nor `system.json` with the manifest
  (`prepare-llmfit-evidence-import.py:85`). Take one directory and three captures: the
  first, on one machine, completes; the second, on another, breaks off between its
  report and its manifest; the third, which gets the outputs of the first, breaks off
  before its report. The import then puts the first one's outputs under the second
  one's hardware. `RowsAreObserved` says that it takes two that broke off.
* Captures that overlap in one directory (`capture-llmfit-evidence.sh:9`) both complete,
  and may leave the outputs of a synthetic one under a manifest that says it was not.
  `RowsAreObserved` then only says that rows have their own digests.
* A dump whose run died before its digest was written is restored unchecked
  (`restore-test.sh:19`).
* A restore test that cannot remove the container of an earlier one
  (`restore-test.sh:31`) restores over that one's database, and may count what is left
  there of it.
* A migration that is added with a lower number than applied ones is applied after them
  (`migrate.sh:39`).
* `migrate.sh` reads a file for its checksum and again to execute it
  (lines 54 and 77): an edit in between makes the entry untrue.
* The unique key of the evidence inbox (`0002_model_registry.sql:59`) leaves out the
  hardware and the synthetic flag, so the first import of an output decides them. An
  import during a capture may mix the two.
* When the newest evaluation of a model expires, an older one that is valid longer is
  ranked again (`0002_model_registry.sql:132`).

## Plan

In this order; all but the last stage are done.

1. Ledger, abstract contract and their proofs. *Done.*
2. The three stages on the ledger; Action Gate and governor with their proofs.
   *Done.*
3. PostgreSQL operations and the proofs about migrations. *Done.*
4. Model evidence and registry. *Done.*
5. Hand-over between the stages, and the proof that only approved commits run.
   *Done.*
6. The sandbox adapter and its proofs. *Done.*
7. Proofs that the three stages implement the ledger, and of their invariants for any
   number of jobs and attempts; of backups, model evidence, registry and
   `RejectsHaveReasons` for any constants; of the stages' contract by composing two
   refinements. *Done.*
8. The hand-over with more than one change of a sealed directory, and a proof that
   `OnlyApproved` then fails in one way only.
