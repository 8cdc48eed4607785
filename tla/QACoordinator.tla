---------------------------- MODULE QACoordinator ----------------------------
(***************************************************************************)
(* B034, scripts/engineering_qa/: coordinator_core.py with the entry point *)
(* worker.py, which puts a ledger effect around every sandbox run.  One    *)
(* process per lease checks the reviewer's bundle, clones the candidate,   *)
(* runs a set of profiles on it in the sandbox, and writes a verdict.      *)
(* What the git, model and sandbox commands return is free.                *)
(***************************************************************************)
EXTENDS LedgerClient

CONSTANTS
    Profile,    \* sandbox.allowed_profile_ids
    Baseline    \* sandbox.baseline_profile_ids

\* validate_config; and every profile of a job is one effect of it
\* (b034_begin_profile_effect).
ASSUME ProfileAssumption ==
    /\ Baseline \subseteq Profile /\ Baseline # {}
    /\ Job \X Profile \subseteq EffectKey

VARIABLES
    workspace,  \* attempt whose clone is in the job's workspace, or 0
    output,     \* the bundle in the job's output directory: attempt, verdict
    selected,   \* profiles that each process selected
    todo,       \* those of them it has not run yet
    current,    \* the profile it is running
    failed,     \* the processes that saw a profile not pass
    ran,        \* every run the sandbox was asked for: job, attempt, profile
    disturbed,  \* history: processes with a run on less than their own clone
    result      \* verdict in fzh.jobs.result of a succeeded job

local   == <<selected, todo, current, failed>>
files   == <<workspace, output>>
runs    == <<ran, disturbed>>
qaVars  == <<vars, client, files, local, runs, result>>

None    == [attempt |-> 0, verdict |-> "none"]
NoProfile == "none"
Verdict == {"qa_passed", "qa_failed", "reject"}

BeforeTry == {"checks", "checked", "record_gate", "admitted", "start"}
InTry     == {"started", "heartbeat", "verifying", "rejected", "selecting",
              "cloning", "profiles", "begin_effect", "sandbox", "inside", "sandboxed",
              "commit_effect", "receipted", "reporting", "reported", "complete"}
Handling  == {"failing", "fail", "unwinding"}
Ended     == {"done", "raised", "dead"}
Waiting   == {"record_gate", "start", "heartbeat", "begin_effect",
              "commit_effect", "complete", "fail"}

\* The next call, and where its answer leads.
NextCall == [admitted  |-> "start",         started  |-> "heartbeat",
             sandboxed |-> "commit_effect", reported |-> "complete",
             failing   |-> "fail"]

Onward(c) ==
    CASE c.op = "record_gate"   -> IF c.arg = "allow" THEN "admitted" ELSE "raised"
      [] c.op = "start"         -> "started"
      [] c.op = "heartbeat"     -> "verifying"
      [] c.op = "begin_effect"  -> "sandbox"
      [] c.op = "commit_effect" -> "receipted"
      [] c.op = "complete"      -> "finishing"
      [] c.op = "fail"          -> "unwinding"

\* the answer to begin_effect is not looked at
BadHandler(loc) ==
    CASE loc = "begin_effect"  -> "sandbox"
      [] loc \in BeforeTry     -> "raised"
      [] loc \in InTry \ {"begin_effect"} -> "failing"
      [] loc \in Handling      -> "unwinding"

Handler(loc) ==
    CASE loc \in BeforeTry -> "raised"
      [] loc \in InTry     -> "failing"
      [] loc \in Handling  -> "unwinding"

\* Argument of the call that a process makes next.
ArgOf(w) ==
    CASE pc[w] = "sandboxed" -> current[w]
      [] pc[w] = "reported"  -> output[w[1]].verdict
      [] OTHER               -> "none"

\* mkdir(exist_ok=True) in write_bundle
BadWrites(w, verdict) ==
    output' = [output EXCEPT ![w[1]] = [attempt |-> w[2], verdict |-> verdict]]

\* write_bundle: mkdir raises if the directory is there.
Writes(w, verdict) ==
    /\ output[w[1]] = None
    /\ output' = [output EXCEPT ![w[1]] = [attempt |-> w[2], verdict |-> verdict]]

VerdictOf(w) == IF w \in failed THEN "qa_failed" ELSE "qa_passed"
----------------------------------------------------------------------------
QAInit ==
    /\ Init
    /\ pc        = [w \in Worker |-> "absent"]
    /\ calls     = {}
    /\ workspace = [j \in Job |-> 0]
    /\ output    = [j \in Job |-> None]
    /\ selected  = [w \in Worker |-> {}]
    /\ todo      = [w \in Worker |-> {}]
    /\ current   = [w \in Worker |-> NoProfile]
    /\ failed    = {}
    /\ ran       = {} /\ disturbed = {}
    /\ result    = [j \in Job |-> "none"]

\* b034_lease_job
Launch(w) ==
    /\ \E t \in LeaseTerms : LeaseNext(w[1], t)
    /\ lease_token'[w[1]] = w[2]
    /\ Goto(w, "checks")
    /\ UNCHANGED <<calls, files, local, runs, result>>

\* Neither the workspace nor the output directory exists: looked at once, long
\* before either is made.
CheckAbsent(w) ==
    /\ pc[w] = "checks"
    /\ workspace[w[1]] = 0 /\ output[w[1]] = None
    /\ Goto(w, "checked")
    /\ UNCHANGED <<vars, calls, files, local, runs, result>>

\* call_gate, and its decision sent to the ledger
Gate(w) ==
    /\ pc[w] = "checked"
    /\ \E d \in Decisions : Request(w, "record_gate", d)
    /\ UNCHANGED <<files, local, runs, result>>

CallLedger(w) ==
    /\ pc[w] \in DOMAIN NextCall
    /\ Request(w, NextCall[pc[w]], ArgOf(w))
    /\ UNCHANGED <<files, local, runs, result>>

\* verify_review_bundle and verify_candidate: both good, or a mismatch.
Verify(w) ==
    /\ pc[w] = "verifying"
    /\ Goto(w, "selecting") \/ Goto(w, "rejected")
    /\ UNCHANGED <<vars, calls, files, local, runs, result>>

\* The baseline, what the job requires, and what the model proposes.
Select(w) ==
    /\ pc[w] = "selecting"
    /\ \E S \in SUBSET Profile :
          /\ Baseline \subseteq S
          /\ selected' = [selected EXCEPT ![w] = S]
          /\ todo'     = [todo EXCEPT ![w] = S]
    /\ Goto(w, "cloning")
    /\ UNCHANGED <<vars, calls, files, current, failed, runs, result>>

\* git clone into the workspace, which must not be there.
Clone(w) ==
    /\ pc[w] = "cloning"
    /\ workspace[w[1]] = 0
    /\ workspace' = [workspace EXCEPT ![w[1]] = w[2]]
    /\ Goto(w, "profiles")
    /\ UNCHANGED <<vars, calls, output, local, runs, result>>

\* durable_call_sandbox: claim the next profile.
Begin(w) ==
    /\ pc[w] = "profiles"
    /\ \E p \in todo[w] :
          /\ current' = [current EXCEPT ![w] = p]
          /\ Request(w, "begin_effect", p)
    /\ UNCHANGED <<files, selected, todo, failed, runs, result>>

\* call_sandbox: the adapter takes a request for a workspace that is there, and
\* candidate code runs.
StartProfile(w) ==
    /\ pc[w] = "sandbox"
    /\ workspace[w[1]] # 0
    /\ ran' = ran \cup
          {[job |-> w[1], attempt |-> w[2], profile |-> current[w]]}
    /\ disturbed' = IF workspace[w[1]] = w[2] THEN disturbed ELSE disturbed \cup {w}
    /\ Goto(w, "inside")
    /\ UNCHANGED <<vars, calls, files, local, result>>

\* The adapter reports a pass, or something else, or it breaks (Raise).
Report(w) ==
    /\ pc[w] = "inside"
    /\ failed' \in {failed, failed \cup {w}}
    /\ Goto(w, "sandboxed")
    /\ UNCHANGED <<vars, calls, files, selected, todo, current, runs, result>>

\* the workspace is not looked at
BadEndProfile(w) ==
    /\ pc[w] = "receipted"
    /\ todo' = [todo EXCEPT ![w] = @ \ {current[w]}]
    /\ Goto(w, IF todo'[w] = {} THEN "reporting" ELSE "profiles")
    /\ UNCHANGED <<vars, calls, files, selected, current, failed, runs, result>>

\* git status finds a clean clone, whosever it is.  The loop goes on to the next
\* profile, or is over.
EndProfile(w) ==
    /\ pc[w] = "receipted"
    /\ workspace[w[1]] # 0
    /\ todo' = [todo EXCEPT ![w] = @ \ {current[w]}]
    /\ Goto(w, IF todo'[w] = {} THEN "reporting" ELSE "profiles")
    /\ UNCHANGED <<vars, calls, files, selected, current, failed, runs, result>>

\* write_bundle
WriteBundle(w) ==
    /\ \/ pc[w] = "rejected"  /\ Writes(w, "reject")
       \/ pc[w] = "reporting" /\ Writes(w, VerdictOf(w))
    /\ Goto(w, "reported")
    /\ UNCHANGED <<vars, calls, workspace, local, runs, result>>

\* Any other statement raises, as do write_bundle and git clone when there is a
\* directory already, and remaining() in the except clause.
Raise(w) ==
    /\ pc[w] \in (BeforeTry \cup InTry \cup {"failing"}) \ Waiting
    /\ Goto(w, Handler(pc[w]))
    /\ UNCHANGED <<vars, calls, files, local, runs, result>>

\* The finally clause removes whatever is in the workspace, under whoever runs a
\* profile on it.
Finally(w) ==
    /\ \/ pc[w] = "finishing" /\ Goto(w, "done")
       \/ pc[w] = "unwinding" /\ Goto(w, "raised")
    /\ workspace' = [workspace EXCEPT ![w[1]] = 0]
    /\ disturbed' = disturbed \cup {v \in Worker : v[1] = w[1] /\ pc[v] = "inside"}
    /\ UNCHANGED <<vars, calls, output, local, ran, result>>

Crash(w) ==
    /\ pc[w] \notin Ended \cup {"absent"}
    /\ Goto(w, "dead")
    /\ UNCHANGED <<vars, calls, files, local, runs, result>>

GiveUp(w) ==
    /\ pc[w] \in Waiting
    /\ Goto(w, Handler(pc[w]))
    /\ UNCHANGED <<vars, calls, files, local, runs, result>>

\* The database executes a call: complete stores the verdict it was given.
Serve(c) ==
    /\ \/ Executes(c) /\ Answer(c, Onward(c))
       \/ ExecutesCheck(c)
    /\ result' = IF c.op = "complete" THEN [result EXCEPT ![c.job] = c.arg]
                 ELSE result
    /\ UNCHANGED <<files, local, runs>>

Refuse(c) ==
    /\ Answer(c, Handler(c.op))
    /\ UNCHANGED <<vars, files, local, runs, result>>

ServeCommit(d) ==
    LET c == CommitCall(d)
    IN  /\ \/ CommitUpdate(d)        /\ Answer(c, Onward(c))
           \/ CommitWithoutChange(d) /\ Answer(c, Handler(c.op))
        /\ UNCHANGED <<files, local, runs, result>>

Process(w) ==
    \/ CheckAbsent(w) \/ Gate(w) \/ CallLedger(w) \/ Verify(w) \/ Select(w)
    \/ Clone(w) \/ Begin(w) \/ StartProfile(w) \/ Report(w) \/ EndProfile(w)
    \/ WriteBundle(w) \/ Raise(w) \/ Finally(w) \/ Crash(w) \/ GiveUp(w)

AnyLaunch == \E w \in Worker : Launch(w)
Database  == \/ \E c \in calls : Serve(c) \/ Refuse(c)
             \/ \E d \in committing : ServeCommit(d)

QANext ==
    \/ AnyLaunch
    \/ \E w \in Worker : Process(w)
    \/ Database
    \/ LedgerEnvironment /\ UNCHANGED <<files, local, runs, result>>

QASpec == QAInit /\ [][QANext]_qaVars

Only(A) == A /\ UNCHANGED <<client, files, local, runs, result>>

\* As in the ledger: the clock runs, the launcher keeps leasing and the reaper
\* is run.  No process is promised a step, and no call an execution.
QAFair ==
    /\ QASpec
    /\ WF_qaVars(Only(Tick))
    /\ WF_qaVars(Only(AnyReap))
    /\ WF_qaVars(AnyLaunch)
----------------------------------------------------------------------------
(* Type invariant. *)
QATypeOK ==
    /\ pc \in [Worker -> {"absent", "finishing"} \cup BeforeTry \cup InTry
                             \cup Handling \cup Ended]
    /\ \A c \in calls : Caller(c) \in Worker /\ c.op \in Waiting
    /\ workspace \in [Job -> {0} \cup Attempts]
    /\ output \in [Job -> {None} \cup [attempt : Attempts, verdict : Verdict]]
    /\ selected \in [Worker -> SUBSET Profile]
    /\ todo \in [Worker -> SUBSET Profile]
    /\ \A w \in Worker : todo[w] \subseteq selected[w]
    /\ current \in [Worker -> Profile \cup {NoProfile}]
    /\ failed \subseteq Worker
    /\ ran \subseteq [job : Job, attempt : Attempts, profile : Profile]
    /\ disturbed \subseteq Worker
    /\ result \in [Job -> Verdict \cup {"none"}]

\* Hostile candidate code is never silently replayed: the ledger holds the
\* claim of every run that the sandbox was asked for, and no two attempts of a
\* job run code, whatever became of the first.
NoSilentReplay ==
    /\ \A r \in ran : \E e \in EffectsOf(r.job, r.attempt) :
          e.key = <<r.job, r.profile>>
    /\ \A r, s \in ran : r.job = s.job => r.attempt = s.attempt

\* The verdict in the ledger is the one on disk, written by the attempt that
\* completed the job: a process that has lost its lease does not put its own
\* bundle in the place of it.
BundleMatchesLedger ==
    /\ QATypeOK
    /\ \A j \in Job : result[j] # "none" =>
        /\ status[j] = "succeeded"
        /\ output[j] = [attempt |-> lease_count[j], verdict |-> result[j]]

\* A verdict on the candidate covers every selected profile: each was run and has
\* its receipt, and qa_passed means that none failed.  A job that says reject ran no
\* candidate code.  All attempts of a job have one workspace, which an earlier one
\* may still remove; but one alone cannot spoil a run that leads to a verdict:
\* EndProfile then finds no clone.
VerdictIsEarned ==
    \A j \in Job :
        LET w == <<j, lease_count[j]>>
            Ran(p) == [job |-> j, attempt |-> w[2], profile |-> p]
        IN  /\ result[j] \in {"qa_passed", "qa_failed"} =>
                  /\ w[2] <= 2 => w \notin disturbed
                  /\ Baseline \subseteq selected[w]
                  /\ \A p \in selected[w] :
                        /\ Ran(p) \in ran
                        /\ [job |-> j, key |-> <<j, p>>, attempt |-> w[2],
                            state |-> "committed"] \in effects
            /\ result[j] = "qa_passed" => w \notin failed
            /\ result[j] = "reject" => \A r \in ran : r.job # j

\* The QA worker creates one disposable local clone at the approved head: a job
\* that passed was tested from beginning to end on the clone of the attempt that
\* completed it.
TestedOnItsClone ==
    \A j \in Job :
        result[j] = "qa_passed" => <<j, lease_count[j]>> \notin disturbed

\* A job comes to rest whatever becomes of its processes and of the workspaces and
\* bundles that they leave: final, or parked for a person.
QAJobsRest ==
    \A j \in Job : status[j] # "absent" ~> status[j] \in Terminal \cup Parked

\* Admission mismatch is a terminal reject: while the coordinator holds its
\* lease, complete_job takes the reject that it sends.
RejectCompletes ==
    \A c \in calls :
        (/\ c.op = "complete"
         /\ c.arg = "reject"
         /\ HoldsLiveLease(c.job, c.attempt, 0))
            => EffectsSettled(c.job, c.attempt)
=============================================================================
