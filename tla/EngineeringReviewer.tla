------------------------- MODULE EngineeringReviewer -------------------------
(***************************************************************************)
(* B033, scripts/engineering_reviewer/reviewer.py: one process per lease   *)
(* checks the evidence of an implementation job, has a model review the    *)
(* candidate, derives a verdict from the findings, and writes a bundle.    *)
(* It asks no gate and claims no effect.  Integrity and the findings are   *)
(* free.                                                                   *)
(***************************************************************************)
EXTENDS LedgerClient

CONSTANTS
    MediumLimit,  \* verdict_policy.medium_findings_require_changes
    MaxMediums    \* bound on the medium findings of one review

ASSUME ReviewAssumption == MediumLimit \in Nat \ {0} /\ MaxMediums \in Nat

VARIABLES
    output,     \* the bundle in the job's output directory
    review,     \* what each process found: integrity and severities
    result      \* verdict in fzh.jobs.result of a succeeded job

reviewerVars == <<vars, client, output, review, result>>

Finding == [sound : BOOLEAN, severe : BOOLEAN, mediums : 0..MaxMediums]
Nothing == [sound |-> FALSE, severe |-> FALSE, mediums |-> 0]
None    == [attempt |-> 0, verdict |-> "none"]
Verdict == {"approve", "changes_required", "reject"}

BeforeTry == {"checks", "checked", "start"}
InTry     == {"started", "heartbeat", "verifying", "reporting", "reported",
              "complete"}
Handling  == {"failing", "fail", "unwinding"}
Ended     == {"done", "raised", "dead"}
Waiting   == {"start", "heartbeat", "complete", "fail"}

NextCall == [checked  |-> "start",    started |-> "heartbeat",
             reported |-> "complete", failing |-> "fail"]
Onward(c) ==
    CASE c.op = "start"     -> "started"
      [] c.op = "heartbeat" -> "verifying"
      [] c.op = "complete"  -> "done"
      [] c.op = "fail"      -> "unwinding"
Handler(loc) ==
    CASE loc \in BeforeTry -> "raised"
      [] loc \in InTry     -> "failing"
      [] loc \in Handling  -> "unwinding"

\* off by one in the number of medium findings
BadVerdictOf(r) ==
    IF ~ r.sound THEN "reject"
    ELSE IF r.severe \/ r.mediums > MediumLimit THEN "changes_required"
    ELSE "approve"

\* derive_verdict, and the reject of an integrity failure
VerdictOf(r) ==
    IF ~ r.sound THEN "reject"
    ELSE IF r.severe \/ r.mediums >= MediumLimit THEN "changes_required"
    ELSE "approve"

\* mkdir(exist_ok=True) in write_review_bundle
BadWrites(w) ==
    output' = [output EXCEPT ![w[1]] =
                  [attempt |-> w[2], verdict |-> VerdictOf(review[w])]]

\* write_review_bundle: mkdir raises if the directory is there.
Writes(w) ==
    /\ output[w[1]] = None
    /\ output' = [output EXCEPT ![w[1]] =
                     [attempt |-> w[2], verdict |-> VerdictOf(review[w])]]
----------------------------------------------------------------------------
ReviewerInit ==
    /\ Init
    /\ pc     = [w \in Worker |-> "absent"]
    /\ calls  = {}
    /\ output = [j \in Job |-> None]
    /\ review = [w \in Worker |-> Nothing]
    /\ result = [j \in Job |-> "none"]

\* b033_lease_job
Launch(w) ==
    /\ \E t \in LeaseTerms : LeaseNext(w[1], t)
    /\ lease_token'[w[1]] = w[2]
    /\ Goto(w, "checks")
    /\ UNCHANGED <<calls, output, review, result>>

\* The output directory does not exist yet.
CheckAbsent(w) ==
    /\ pc[w] = "checks"
    /\ output[w[1]] = None
    /\ Goto(w, "checked")
    /\ UNCHANGED <<vars, calls, output, review, result>>

CallLedger(w) ==
    /\ pc[w] \in DOMAIN NextCall
    /\ Request(w, NextCall[pc[w]],
               IF pc[w] = "reported" THEN output[w[1]].verdict ELSE "none")
    /\ UNCHANGED <<output, review, result>>

\* verify_manifest, reconstruct_candidate and, if they hold, call_model.
Examine(w) ==
    /\ pc[w] = "verifying"
    /\ \E r \in {f \in Finding : f.sound} \cup {Nothing} :
          review' = [review EXCEPT ![w] = r]
    /\ Goto(w, "reporting")
    /\ UNCHANGED <<vars, calls, output, result>>

WriteBundle(w) ==
    /\ pc[w] = "reporting"
    /\ Writes(w)
    /\ Goto(w, "reported")
    /\ UNCHANGED <<vars, calls, review, result>>

Raise(w) ==
    /\ pc[w] \in (BeforeTry \cup InTry \cup {"failing"}) \ Waiting
    /\ Goto(w, Handler(pc[w]))
    /\ UNCHANGED <<vars, calls, output, review, result>>

\* The exception leaves the except clause.
Reraise(w) ==
    /\ pc[w] = "unwinding"
    /\ Goto(w, "raised")
    /\ UNCHANGED <<vars, calls, output, review, result>>

Crash(w) ==
    /\ pc[w] \notin Ended \cup {"absent"}
    /\ Goto(w, "dead")
    /\ UNCHANGED <<vars, calls, output, review, result>>

GiveUp(w) ==
    /\ pc[w] \in Waiting
    /\ Goto(w, Handler(pc[w]))
    /\ UNCHANGED <<vars, calls, output, review, result>>

\* The database executes a call: complete stores the verdict it was given.
Serve(c) ==
    /\ Executes(c)
    /\ Answer(c, Onward(c))
    /\ result' = IF c.op = "complete" THEN [result EXCEPT ![c.job] = c.arg]
                 ELSE result
    /\ UNCHANGED <<output, review>>

Refuse(c) ==
    /\ Answer(c, Handler(c.op))
    /\ UNCHANGED <<vars, output, review, result>>

Process(w) ==
    \/ CheckAbsent(w) \/ CallLedger(w) \/ Examine(w) \/ WriteBundle(w)
    \/ Raise(w) \/ Reraise(w) \/ Crash(w) \/ GiveUp(w)

AnyLaunch == \E w \in Worker : Launch(w)
Database  == \E c \in calls : Serve(c) \/ Refuse(c)

ReviewerNext ==
    \/ AnyLaunch
    \/ \E w \in Worker : Process(w)
    \/ Database
    \/ LedgerEnvironment /\ UNCHANGED <<output, review, result>>

ReviewerSpec == ReviewerInit /\ [][ReviewerNext]_reviewerVars

\* A step of the ledger's surroundings.
Only(A) == A /\ UNCHANGED <<client, output, review, result>>

\* As in the ledger: the clock runs, the launcher keeps leasing and the reaper
\* is run.  No process is promised a step, and no call an execution.
ReviewerFairness ==
    /\ WF_reviewerVars(Only(Tick))
    /\ WF_reviewerVars(Only(AnyReap))
    /\ WF_reviewerVars(AnyLaunch)

ReviewerFair == ReviewerSpec /\ ReviewerFairness
----------------------------------------------------------------------------
(* Type invariant. *)
ReviewerTypeOK ==
    /\ pc \in [Worker -> {"absent"} \cup BeforeTry \cup InTry \cup Handling
                             \cup Ended]
    /\ \A c \in calls : Caller(c) \in Worker /\ c.op \in Waiting
    /\ output \in [Job -> {None} \cup [attempt : Attempts, verdict : Verdict]]
    /\ review \in [Worker -> Finding]
    /\ result \in [Job -> Verdict \cup {"none"}]

\* The verdict in the ledger is the one on disk, written by the attempt that
\* completed the job.  Two attempts may judge the candidate differently, and a
\* process without a lease may be the one to write the bundle; then no attempt
\* of the job succeeds with another.
ReviewMatchesLedger ==
    /\ ReviewerTypeOK
    /\ \A j \in Job : result[j] # "none" =>
        /\ status[j] = "succeeded"
        /\ output[j] = [attempt |-> lease_count[j], verdict |-> result[j]]

\* An approval in the ledger is that of the completing attempt: it verified the
\* evidence, and found nothing severe and fewer mediums than the policy allows.
ApprovalIsEarned ==
    \A j \in Job : result[j] = "approve" =>
        LET r == review[<<j, lease_count[j]>>]
        IN  r.sound /\ ~ r.severe /\ r.mediums < MediumLimit

\* A review needs no person: it has no effect that could be in doubt and no
\* gate to wait for, so whatever dies or is lost, a submitted review ends in a
\* final status.
ReviewsEnd == \A j \in Job : status[j] # "absent" ~> status[j] \in Terminal
=============================================================================
