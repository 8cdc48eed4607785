-------------------------- MODULE EngineeringWorker --------------------------
(***************************************************************************)
(* B032, scripts/engineering_worker/worker.py: one process per lease turns *)
(* a model's patch into a local candidate commit, with its ledger calls    *)
(* through LedgerClient and its traces in the file system and the source   *)
(* repository.  What the process computes (patch, tests, budgets) is not   *)
(* modelled: every step of it succeeds or raises.                          *)
(***************************************************************************)
EXTENDS LedgerClient

\* A job has one effect, its candidate (b032_begin_candidate_effect).
ASSUME WorkerAssumption == Job \X {"candidate"} \subseteq EffectKey

VARIABLES
    evidence,   \* attempt that made the job's evidence directory, or 0
    worktree,   \* attempt whose worktree stands under the workspace root, or 0
    added,      \* the processes whose worktree_added is True
    branch,     \* the ref fzh/job-<short>: none, at base, or the candidate
    sealed,     \* jobs whose manifest.json is on disk
    littered    \* history: processes that a clean-up command has failed

files == <<evidence, worktree, added, branch, sealed, littered>>
workerVars == <<vars, client, files>>

\* Where main() is between two ledger calls, in the order of the code.
BeforeTry == {"checks", "record_gate", "admitted", "start", "started",
              "heartbeat", "entered"}
InTry     == {"claimed", "working", "begin_effect", "intended", "branched",
              "committed", "commit_effect", "receipted", "bundled", "complete"}
Handling  == {"failing", "fail", "unwinding"}
Ended     == {"done", "raised", "dead"}

\* The next call, and where its answer leads.
NextCall == [admitted  |-> "start",        started |-> "heartbeat",
             working   |-> "begin_effect", committed |-> "commit_effect",
             bundled   |-> "complete",     failing |-> "fail"]
Onward(c) ==
    CASE c.op = "record_gate"   -> IF c.arg = "allow" THEN "admitted" ELSE "raised"
      [] c.op = "start"         -> "started"
      [] c.op = "heartbeat"     -> "entered"
      [] c.op = "begin_effect"  -> "intended"
      [] c.op = "commit_effect" -> "receipted"
      [] c.op = "complete"      -> "finishing"
      [] c.op = "fail"          -> "unwinding"

Waiting == {"record_gate", "start", "heartbeat", "begin_effect",
            "commit_effect", "complete", "fail"}

\* a directory that exists already is used again: mkdir(exist_ok=True)
BadUnclaimed(j) == TRUE

\* Neither directory exists.  mkdir is atomic and no worktree is made before
\* it, so the test and the mkdir count as one step.
Unclaimed(j) == evidence[j] = 0 /\ worktree[j] = 0

\* the claim is not waited for
BadHandler(loc) ==
    CASE loc = "begin_effect" -> "intended"
      [] loc \in BeforeTry    -> "raised"
      [] loc \in InTry \ {"begin_effect"} -> "failing"
      [] loc \in Handling     -> "unwinding"

\* Where an exception takes main(): out of it before the try, into the except
\* clause within it, and on to the finally clause out of the except clause.
Handler(loc) ==
    CASE loc \in BeforeTry -> "raised"
      [] loc \in InTry     -> "failing"
      [] loc \in Handling  -> "unwinding"

----------------------------------------------------------------------------
WorkerInit ==
    /\ Init
    /\ pc       = [w \in Worker |-> "absent"]
    /\ calls    = {}
    /\ evidence = [j \in Job |-> 0]
    /\ worktree = [j \in Job |-> 0]
    /\ branch   = [j \in Job |-> "none"]
    /\ added    = {}
    /\ sealed   = {}
    /\ littered = {}

\* The launcher leases a job (b032_lease_job) and starts a process with the
\* envelope.
Launch(w) ==
    /\ \E t \in LeaseTerms : LeaseNext(w[1], t)
    /\ lease_token'[w[1]] = w[2]
    /\ Goto(w, "checks")
    /\ UNCHANGED <<calls, files>>

\* The checks of the source repository, then call_gate.  A gate that does not
\* answer with well-formed evidence is an exception (Raise).
Gate(w) ==
    /\ pc[w] = "checks"
    /\ \E d \in Decisions : Request(w, "record_gate", d)
    /\ UNCHANGED files

\* call_ledger for everything after the gate.
CallLedger(w) ==
    /\ pc[w] \in DOMAIN NextCall
    /\ Request(w, NextCall[pc[w]],
               IF pc[w] \in {"working", "committed"} THEN "candidate" ELSE "none")
    /\ UNCHANGED files

\* evidence_dir.mkdir, after the check that nothing is there.
ClaimDirectory(w) ==
    /\ pc[w] = "entered"
    /\ Unclaimed(w[1])
    /\ evidence' = [evidence EXCEPT ![w[1]] = w[2]]
    /\ Goto(w, "claimed")
    /\ UNCHANGED <<vars, calls, worktree, added, branch, sealed, littered>>

\* git worktree add.  When git is killed at its timeout the worktree may stand
\* there, and worktree_added is still False.
AddWorktree(w) ==
    /\ pc[w] = "claimed"
    /\ worktree' = [worktree EXCEPT ![w[1]] = w[2]]
    /\ \/ added' = added \cup {w} /\ Goto(w, "working")
       \/ UNCHANGED added         /\ Goto(w, "failing")
    /\ UNCHANGED <<vars, calls, evidence, branch, sealed, littered>>

\* git switch -c
CreateBranch(w) ==
    /\ pc[w] = "intended"
    /\ branch[w[1]] = "none"
    /\ branch' = [branch EXCEPT ![w[1]] = "base"]
    /\ \/ Goto(w, "branched")
       \/ Goto(w, "failing")      \* killed at its timeout
    /\ UNCHANGED <<vars, calls, evidence, worktree, added, sealed, littered>>

\* git commit
Commit(w) ==
    /\ pc[w] = "branched"
    /\ branch' = [branch EXCEPT ![w[1]] = "candidate"]
    /\ \/ Goto(w, "committed")
       \/ Goto(w, "failing")
    /\ UNCHANGED <<vars, calls, evidence, worktree, added, sealed, littered>>

\* implementation-evidence.json, then manifest.json
WriteBundle(w) ==
    /\ pc[w] = "receipted"
    /\ sealed' = sealed \cup {w[1]}
    /\ Goto(w, "bundled")
    /\ UNCHANGED <<vars, calls, evidence, worktree, added, branch, littered>>

\* Any other statement raises.  In the except clause that is remaining(): the
\* wall-clock budget is gone, and the fail call is not made.
Raise(w) ==
    /\ pc[w] \in (BeforeTry \cup InTry \cup {"failing"}) \ Waiting
    /\ Goto(w, Handler(pc[w]))
    /\ UNCHANGED <<vars, calls, files>>

\* the branch goes whatever main() returns
BadCleanup(w, kept) ==
    IF w \in added
    THEN \E removed, deleted \in BOOLEAN :
            /\ worktree' = [worktree EXCEPT ![w[1]] = IF removed THEN 0 ELSE @]
            /\ branch' = [branch EXCEPT ![w[1]] = IF deleted THEN "none" ELSE @]
            /\ littered' = IF removed /\ deleted THEN littered ELSE littered \cup {w}
    ELSE UNCHANGED <<worktree, branch, littered>>

\* cleanup_worktree, called only if worktree_added.  Nobody looks at how its git
\* commands end: a worktree that cannot be removed stays, and so does a branch
\* whose ref is locked or that a worktree still has checked out.
Cleanup(w, kept) ==
    IF w \in added
    THEN \E removed, deleted \in BOOLEAN :
            /\ worktree' = [worktree EXCEPT ![w[1]] = IF removed THEN 0 ELSE @]
            /\ branch' = [branch EXCEPT ![w[1]] =
                             IF deleted /\ ~ kept THEN "none" ELSE @]
            /\ littered' = IF removed /\ (deleted \/ kept)
                            THEN littered ELSE littered \cup {w}
    ELSE UNCHANGED <<worktree, branch, littered>>

\* The finally clause, after the return and after the re-raise.
Finally(w) ==
    /\ \/ pc[w] = "finishing" /\ Cleanup(w, TRUE)  /\ Goto(w, "done")
       \/ pc[w] = "unwinding" /\ Cleanup(w, FALSE) /\ Goto(w, "raised")
    /\ UNCHANGED <<vars, calls, evidence, added, sealed>>

\* The process is killed, or the host goes down under it.
Crash(w) ==
    /\ pc[w] \notin Ended \cup {"absent"}
    /\ Goto(w, "dead")
    /\ UNCHANGED <<vars, calls, files>>

\* The worker or psql times out: the call is still under way.
GiveUp(w) ==
    /\ pc[w] \in Waiting
    /\ Goto(w, Handler(pc[w]))
    /\ UNCHANGED <<vars, calls, files>>

\* The database executes a call and answers it.
Serve(c) ==
    \/ Executes(c) /\ Answer(c, Onward(c)) /\ UNCHANGED files
    \/ ExecutesCheck(c) /\ UNCHANGED files

\* The function raises or the connection breaks: nothing is changed.
Refuse(c) ==
    /\ Answer(c, Handler(c.op))
    /\ UNCHANGED <<vars, files>>

ServeCommit(d) ==
    LET c == CommitCall(d)
    IN  /\ \/ CommitUpdate(d)        /\ Answer(c, Onward(c))
           \/ CommitWithoutChange(d) /\ Answer(c, Handler(c.op))
        /\ UNCHANGED files

Process(w) ==
    \/ Gate(w) \/ CallLedger(w) \/ ClaimDirectory(w) \/ AddWorktree(w)
    \/ CreateBranch(w) \/ Commit(w) \/ WriteBundle(w) \/ Raise(w)
    \/ Finally(w) \/ Crash(w) \/ GiveUp(w)

AnyLaunch == \E w \in Worker : Launch(w)
Database  == \/ \E c \in calls : Serve(c) \/ Refuse(c)
             \/ \E d \in committing : ServeCommit(d)

WorkerNext ==
    \/ AnyLaunch
    \/ \E w \in Worker : Process(w)
    \/ Database
    \/ LedgerEnvironment /\ UNCHANGED files

WorkerSpec == WorkerInit /\ [][WorkerNext]_workerVars

\* As in the ledger: the clock runs, the launcher keeps leasing and the reaper
\* is run.  No process is promised a step, and no call an execution.
WorkerFair ==
    /\ WorkerSpec
    /\ WF_workerVars(Tick /\ UNCHANGED <<client, files>>)
    /\ WF_workerVars(AnyReap /\ UNCHANGED <<client, files>>)
    /\ WF_workerVars(AnyLaunch)
----------------------------------------------------------------------------
(* Type invariant. *)
WorkerTypeOK ==
    /\ pc \in [Worker -> {"absent", "finishing"} \cup BeforeTry \cup InTry
                             \cup Handling \cup Ended]
    /\ \A c \in calls : Caller(c) \in Worker /\ c.op \in Waiting
    /\ evidence \in [Job -> {0} \cup Attempts]
    /\ worktree \in [Job -> {0} \cup Attempts]
    /\ branch \in [Job -> {"none", "base", "candidate"}]
    /\ added \subseteq Worker
    /\ sealed \subseteq Job
    /\ littered \subseteq Worker

\* Exclusive execution.  A process whose lease has expired may still run when
\* the next attempt is launched; whichever of them makes the evidence
\* directory, no other process of the job ever works, and what stands in the
\* file system is the work of that one.
OneExecutor ==
    /\ WorkerTypeOK
    /\ \A w \in Worker :
        /\ pc[w] \in InTry \cup Handling \cup {"finishing", "done"}
               => evidence[w[1]] = w[2]
        /\ w \in added => evidence[w[1]] = w[2]
        /\ worktree[w[1]] \in {0, evidence[w[1]]}

\* The durable branch is the effect boundary: while it exists the ledger holds
\* a claim of the attempt that made it, so that the job is not retried, failed
\* or dead-lettered on top of it, whatever calls were lost or came late.
ClaimBeforeBranch ==
    \A j \in Job : branch[j] # "none" =>
        /\ EffectsOf(j, evidence[j]) # {}
        /\ status[j] \in
              {"running", "reconciliation_required", "succeeded", "cancelled"}

\* The gate fails closed: no process works before the ledger has its allow
\* decision, for this attempt.
AdmittedBeforeWork ==
    \A j \in Job : evidence[j] # 0 => Decided(j, evidence[j], "allow")

\* The ledger calls a job succeeded only when the evidence is on disk, written
\* after the commit that the receipt names.
SealedBeforeSuccess ==
    \A j \in Job : status[j] = "succeeded" /\ evidence[j] # 0 =>
        j \in sealed /\ \E e \in EffectsOf(j, evidence[j]) : e.state = "committed"

\* The ledger is ahead of what a process leaves outside it: work has its
\* permission, the branch its claim, and success its evidence and its receipt,
\* whatever calls and answers were lost or came late.
LedgerLeads == AdmittedBeforeWork /\ ClaimBeforeBranch /\ SealedBeforeSuccess

\* What the launcher is told is true in the ledger and in the repository: a
\* process that returns 0 has left a succeeded job and its candidate, and no
\* worktree; one that raised after it began to work has left no branch.  Only
\* a clean-up command that fails, which no caller is told, leaves more behind,
\* and never less.
EndingsMatch ==
    \A w \in Worker : evidence[w[1]] = w[2] =>
        /\ pc[w] = "done" => /\ status[w[1]] = "succeeded"
                             /\ branch[w[1]] = "candidate"
                             /\ worktree[w[1]] = 0 \/ w \in littered
        /\ pc[w] = "raised" => branch[w[1]] = "none" \/ w \in littered

\* Successful work retains the local candidate branch.
SucceededKeepsBranch ==
    \A j \in Job : status[j] = "succeeded" => branch[j] = "candidate"

\* Whatever the workers do, die or lose, the ledger only moves by its own
\* functions: the composition implements the ledger.
ImplementsLedger == Spec

\* A submitted job comes to rest whatever its workers do: each of them renews
\* its lease once.
WorkerJobsRest ==
    \A j \in Job : status[j] # "absent" ~> status[j] \in Terminal \cup Parked
=============================================================================
