------------------------------ MODULE HandOver ------------------------------
(***************************************************************************)
(* What B032, B033 and B034 hand to each other outside the ledger: an      *)
(* evidence directory and a branch, then a review bundle, then a clone.    *)
(* The payload of a review or QA job names what is handed over, and the    *)
(* launcher's arguments say where it is; whoever submits the job copies    *)
(* all that from somewhere, and may mix it up.  Leases are left out: they  *)
(* and the overlap of attempts are in the modules of the stages.           *)
(*                                                                         *)
(* A job's commit, branch, evidence and digests go by the name of the job; *)
(* a digest is the content itself.  A check that reads several files is a  *)
(* single step: a single change falls before it or after it.               *)
(***************************************************************************)
EXTENDS Integers, FiniteSets

CONSTANTS
    Candidate,   \* B032 jobs
    ReviewJob,   \* B033 jobs
    QAJob,       \* B034 jobs
    MaxChanges,  \* bound: files that are changed or added after they were sealed
    MaxFaults    \* bound: these, entries of payloads and configurations that are
                 \*        not as they should be, branches that are moved, and
                 \*        workers that raise or die

Gone    == "gone"      \* no file; no branch, or one that names no job's commit
Altered == "altered"   \* a content that no stage has written

ASSUME HandOverAssumption ==
    /\ MaxChanges \in Nat /\ MaxFaults \in Nat
    /\ Candidate # {} /\ ReviewJob # {}
    /\ {Gone, Altered} \cap (Candidate \cup ReviewJob) = {}
    /\ Candidate \cap ReviewJob = {}

VARIABLES
    work,      \* where the worker of each candidate is
    evidence,  \* the files of its evidence directory
    tip,       \* the commit that its branch names
    payload,   \* what each review job was given
    reviewing, \* where its process is
    seen,      \* the manifest and the evidence that it has loaded
    opinion,   \* its verdict
    bundle,    \* the files of its output directory
    order,     \* what each QA job was given
    testing,   \* where its process is
    loaded,    \* the manifest and the evidence that it has loaded
    ran,       \* the commit whose code it has run
    slips,     \* number of entries that were mixed up
    extra,     \* directories with a file that their manifest does not list
    changes,   \* number of files that were changed or added
    moved      \* history: branches that somebody moved or deleted

workVars     == <<work, evidence>>
reviewVars   == <<payload, reviewing, seen, opinion, bundle>>
qaVars       == <<order, testing, loaded, ran>>
handOverVars == <<workVars, tip, reviewVars, qaVars, slips, extra, changes, moved>>

Digest(Job) == Job \cup {Altered}
Pair(Job)   == [manifest : Job \cup {Gone, Altered}, evidence : Job \cup {Gone, Altered}]
Directory(Job) ==
    [manifest : Job \cup {Gone, Altered}, evidence : Job \cup {Gone, Altered},
     other : Job \cup {Gone, Altered}]   \* other: model.patch and logs, or reconstructed.diff
Unread == [manifest |-> Gone, evidence |-> Gone]
Empty  == [manifest |-> Gone, evidence |-> Gone, other |-> Gone]

\* The payload of a review job, and --implementation-evidence-dir; do its
\* allowed_paths, with the forbidden ones of --config, cover the candidate's?
ReviewPayload ==
    [job : Candidate, head : Candidate, branch : Candidate, evidence : Digest(Candidate),
     manifest : Digest(Candidate), dir : Candidate, allowed : BOOLEAN]

\* The payload of a QA job, and --review-evidence-dir; is the max_evidence_bytes of
\* --config enough for whatever the reviewer's own budget lets it write?
QAPayload ==
    [review : ReviewJob, head : Candidate, branch : Candidate, evidence : Digest(ReviewJob),
     manifest : Digest(ReviewJob), dir : ReviewJob, ample : BOOLEAN]

\* What should be in them for candidate c and review r.
ForCandidate(c) ==
    [job |-> c, head |-> c, branch |-> c, evidence |-> c, manifest |-> c, dir |-> c,
     allowed |-> TRUE]
ForReview(r) ==
    [review |-> r, head |-> payload[r].head, branch |-> payload[r].branch,
     evidence |-> r, manifest |-> r, dir |-> r, ample |-> TRUE]

Left     == {"raised", "undone", "dead"}
Meddling == changes + Cardinality(moved) + Cardinality({c \in Candidate : work[c] \in Left})
Faults   == slips + Meddling

Mixed(p, right) == Cardinality({f \in DOMAIN p : p[f] # right[f]})

Unfinished == {"begun", "committed", "writing", "sealed"}
Reading    == {"anchors", "load", "files", "git"}
Reviewing  == Reading \cup {"model", "write", "seal"}
Testing    == Reading \cup {"clone", "run"}
----------------------------------------------------------------------------
HandOverInit ==
    /\ work = [c \in Candidate |-> "absent"]
    /\ evidence = [c \in Candidate |-> Empty]
    /\ tip = [c \in Candidate |-> Gone]
    /\ payload = [r \in ReviewJob |-> ForCandidate(CHOOSE c \in Candidate : TRUE)]
    /\ reviewing = [r \in ReviewJob |-> "absent"]
    /\ seen = [r \in ReviewJob |-> Unread]
    /\ opinion = [r \in ReviewJob |-> "none"]
    /\ bundle = [r \in ReviewJob |-> Empty]
    /\ order = [q \in QAJob |-> ForReview(CHOOSE r \in ReviewJob : TRUE)]
    /\ testing = [q \in QAJob |-> "absent"]
    /\ loaded = [q \in QAJob |-> Unread]
    /\ ran = [q \in QAJob |-> Gone]
    /\ slips = 0 /\ extra = {} /\ changes = 0 /\ moved = {}

\* B032.  The patch and the logs; the branch with its commit; the evidence.
Work(c) ==
    /\ \/ /\ work[c] = "absent"
          /\ work' = [work EXCEPT ![c] = "begun"]
          /\ evidence' = [evidence EXCEPT ![c].other = c]
          /\ UNCHANGED tip
       \/ /\ work[c] = "begun"
          /\ work' = [work EXCEPT ![c] = "committed"]
          /\ tip' = [tip EXCEPT ![c] = c]
          /\ UNCHANGED evidence
       \/ /\ work[c] = "committed"
          /\ work' = [work EXCEPT ![c] = "writing"]
          /\ evidence' = [evidence EXCEPT ![c].evidence = c]
          /\ UNCHANGED tip
    /\ UNCHANGED <<reviewVars, qaVars, slips, extra, changes, moved>>

\* manifest.json lists the files that are there.
SealWork(c) ==
    /\ work[c] = "writing"
    /\ work' = [work EXCEPT ![c] = "sealed"]
    /\ evidence' = [evidence EXCEPT ![c].manifest = c]
    /\ UNCHANGED <<tip, reviewVars, qaVars, slips, extra, changes, moved>>

\* the branch is removed with the worktree
BadKeepWork(c) ==
    /\ work[c] = "sealed"
    /\ work' = [work EXCEPT ![c] = "kept"]
    /\ tip' = [tip EXCEPT ![c] = Gone]
    /\ UNCHANGED <<evidence, reviewVars, qaVars, slips, extra, changes, moved>>

\* The worker has its answer to complete, and keeps the branch.
KeepWork(c) ==
    /\ work[c] = "sealed"
    /\ work' = [work EXCEPT ![c] = "kept"]
    /\ UNCHANGED <<evidence, tip, reviewVars, qaVars, slips, extra, changes, moved>>

\* An exception, also when the answer to complete is lost: failure.json, then the
\* branch is deleted.  Or the process is killed, or cannot delete it, and everything
\* stays.
LeaveWork(c) ==
    /\ work[c] \in Unfinished => Faults < MaxFaults
    /\ \/ /\ work[c] \in Unfinished
          /\ work' = [work EXCEPT ![c] = "raised"]
          /\ extra' = extra \cup {c}
          /\ UNCHANGED tip
       \/ /\ work[c] = "raised"
          /\ work' = [work EXCEPT ![c] = "undone"]
          /\ tip' = [tip EXCEPT ![c] = Gone]
          /\ UNCHANGED extra
       \/ /\ work[c] \in Unfinished \cup {"raised"}
          /\ work' = [work EXCEPT ![c] = "dead"]
          /\ UNCHANGED <<tip, extra>>
    /\ UNCHANGED <<evidence, reviewVars, qaVars, slips, changes, moved>>
----------------------------------------------------------------------------
\* Digests can be copied of what is there.
Known(digest, files) ==
    IF digest = Altered THEN changes > 0 ELSE files[digest].manifest # Gone

\* A review job is submitted and launched.
LaunchReview(r) ==
    /\ reviewing[r] = "absent"
    /\ \E p \in ReviewPayload :
          /\ \E c \in Candidate : slips' = slips + Mixed(p, ForCandidate(c))
          /\ slips' + Meddling <= MaxFaults
          /\ Known(p.evidence, evidence) /\ Known(p.manifest, evidence)
          /\ payload' = [payload EXCEPT ![r] = p]
    /\ reviewing' = [reviewing EXCEPT ![r] = "anchors"]
    /\ UNCHANGED <<workVars, tip, seen, opinion, bundle, qaVars, extra, changes, moved>>

ReviewStep(r, from, to) == reviewing[r] = from /\ reviewing' = [reviewing EXCEPT ![r] = to]

\* An IntegrityError is a verdict, and what it was found with is not looked at again.
RejectCandidate(r, from) ==
    /\ ReviewStep(r, from, "write")
    /\ opinion' = [opinion EXCEPT ![r] = "reject"]
    /\ seen' = [seen EXCEPT ![r] = Unread]

\* verify_manifest: the two files are there, and have the digests of the payload.
CheckReviewAnchors(r) ==
    LET p == payload[r]
        d == evidence[p.dir]
    IN  /\ IF d.manifest = p.manifest /\ d.evidence = p.evidence
           THEN ReviewStep(r, "anchors", "load") /\ UNCHANGED <<seen, opinion>>
           ELSE RejectCandidate(r, "anchors")
        /\ UNCHANGED <<workVars, tip, payload, bundle, qaVars, slips, extra, changes, moved>>

\* They are read again to be parsed.
LoadEvidence(r) ==
    /\ ReviewStep(r, "load", "files")
    /\ LET d == evidence[payload[r].dir]
       IN  seen' = [seen EXCEPT ![r] = [manifest |-> d.manifest, evidence |-> d.evidence]]
    /\ UNCHANGED <<workVars, tip, payload, opinion, bundle, qaVars, slips, extra, changes, moved>>

\* What a loaded manifest says of a directory; an altered one may say anything.
Lists(manifest, d, dir) ==
    {manifest = d.evidence /\ manifest = d.other /\ dir \notin extra}
        \cup (IF manifest = Altered THEN {TRUE} ELSE {})

\* The rest of verify_manifest: the set of files, and each file's digest.
CheckEvidenceFiles(r) ==
    LET dir == payload[r].dir
    IN  /\ \E listed \in Lists(seen[r].manifest, evidence[dir], dir) :
              IF listed
              THEN ReviewStep(r, "files", "git") /\ UNCHANGED <<seen, opinion>>
              ELSE RejectCandidate(r, "files")
        /\ UNCHANGED <<workVars, tip, payload, bundle, qaVars, slips, extra, changes, moved>>

\* the job is not compared
BadClaims(p, claimed) ==
    {p.head = claimed /\ p.branch = claimed}
        \cup (IF claimed = Altered THEN {TRUE} ELSE {})

\* What loaded evidence claims; altered evidence may claim anything.
Claims(p, claimed) ==
    {p.head = claimed /\ p.branch = claimed /\ p.job = claimed}
        \cup (IF claimed = Altered THEN {TRUE} ELSE {})

\* reconstruct_candidate: the branch names the commit, the evidence claims what the
\* payload says, and every path it has changed may be changed.
CheckCandidateCommit(r) ==
    LET p == payload[r]
    IN  /\ \E claimed \in Claims(p, seen[r].evidence) :
              IF tip[p.branch] = p.head /\ claimed /\ p.allowed
              THEN ReviewStep(r, "git", "model") /\ UNCHANGED <<seen, opinion>>
              ELSE RejectCandidate(r, "git")
        /\ UNCHANGED <<workVars, tip, payload, bundle, qaVars, slips, extra, changes, moved>>

\* The model's findings and derive_verdict.
JudgeCandidate(r) ==
    /\ ReviewStep(r, "model", "write")
    /\ \E v \in {"approve", "changes_required"} : opinion' = [opinion EXCEPT ![r] = v]
    /\ seen' = [seen EXCEPT ![r] = Unread]
    /\ UNCHANGED <<workVars, tip, payload, bundle, qaVars, slips, extra, changes, moved>>

\* write_review_bundle: mkdir, the diff and the evidence, and then the manifest.
WriteReview(r) ==
    /\ ReviewStep(r, "write", "seal")
    /\ bundle[r] = Empty
    /\ bundle' = [bundle EXCEPT ![r].evidence = r,
                                ![r].other = IF opinion[r] = "reject" THEN Gone ELSE r]
    /\ UNCHANGED <<workVars, tip, payload, seen, opinion, qaVars, slips, extra, changes, moved>>

SealReview(r) ==
    /\ ReviewStep(r, "seal", "done")
    /\ bundle' = [bundle EXCEPT ![r].manifest = r]
    /\ UNCHANGED <<workVars, tip, payload, seen, opinion, qaVars, slips, extra, changes, moved>>

\* An exception that is no IntegrityError, or a kill.  The job may be leased again,
\* which starts from the beginning if there is no bundle.
LeaveReview(r) ==
    /\ \/ /\ reviewing[r] \in Reviewing
          /\ reviewing' = [reviewing EXCEPT ![r] = "stopped"]
          /\ seen' = [seen EXCEPT ![r] = Unread]
          /\ opinion' = IF bundle[r] = Empty THEN [opinion EXCEPT ![r] = "none"] ELSE opinion
       \/ /\ bundle[r] = Empty /\ ReviewStep(r, "stopped", "anchors")
          /\ UNCHANGED <<seen, opinion>>
    /\ UNCHANGED <<workVars, tip, payload, bundle, qaVars, slips, extra, changes, moved>>
----------------------------------------------------------------------------
\* A QA job is submitted and launched.
LaunchQA(q) ==
    /\ testing[q] = "absent"
    /\ \E p \in QAPayload :
          /\ \E r \in ReviewJob : slips' = slips + Mixed(p, ForReview(r))
          /\ slips' + Meddling <= MaxFaults
          /\ Known(p.evidence, bundle) /\ Known(p.manifest, bundle)
          /\ order' = [order EXCEPT ![q] = p]
    /\ testing' = [testing EXCEPT ![q] = "anchors"]
    /\ UNCHANGED <<workVars, tip, reviewVars, loaded, ran, extra, changes, moved>>

QAStep(q, from, to) == testing[q] = from /\ testing' = [testing EXCEPT ![q] = to]

\* Are the files no larger than max_evidence_bytes?  Nobody compares that budget with
\* the reviewer's max_diff_bytes, and an altered file has any size.
Fits(p, d) == {TRUE, p.ample /\ Altered \notin {d.manifest, d.evidence, d.other}}

\* verify_review_bundle: the two files are in the budget and have the digests of the
\* payload.
CheckQAAnchors(q) ==
    LET p == order[q]
        d == bundle[p.dir]
    IN  /\ \E fit \in Fits(p, d) :
              IF fit /\ d.manifest = p.manifest /\ d.evidence = p.evidence
              THEN QAStep(q, "anchors", "load") ELSE QAStep(q, "anchors", "rejected")
        /\ UNCHANGED <<workVars, tip, reviewVars, order, loaded, ran, slips, extra, changes, moved>>

LoadReview(q) ==
    /\ QAStep(q, "load", "files")
    /\ LET d == bundle[order[q].dir]
       IN  loaded' = [loaded EXCEPT ![q] = [manifest |-> d.manifest, evidence |-> d.evidence]]
    /\ UNCHANGED <<workVars, tip, reviewVars, order, ran, slips, extra, changes, moved>>

\* What loaded review evidence claims: of which job it is, its verdict, on what, and
\* with which diff.
Approves(p, d, claimed) ==
    IF claimed = Altered THEN BOOLEAN
    ELSE {/\ p.review = claimed /\ opinion[claimed] = "approve"
          /\ p.head = payload[claimed].head /\ p.branch = payload[claimed].branch
          /\ d.other = claimed}

\* The rest of it: the files, the verdict, the bindings, and the diff and its size.
CheckReviewFiles(q) ==
    LET p == order[q]
        d == bundle[p.dir]
    IN  /\ \E listed \in Lists(loaded[q].manifest, d, p.dir),
              approved \in Approves(p, d, loaded[q].evidence), fit \in Fits(p, d) :
              IF listed /\ approved /\ fit
              THEN QAStep(q, "files", "git") ELSE QAStep(q, "files", "rejected")
        /\ loaded' = [loaded EXCEPT ![q] = Unread]
        /\ UNCHANGED <<workVars, tip, reviewVars, order, ran, slips, extra, changes, moved>>

\* verify_candidate
CheckQACandidate(q) ==
    /\ IF tip[order[q].branch] = order[q].head
       THEN QAStep(q, "git", "clone") ELSE QAStep(q, "git", "rejected")
    /\ UNCHANGED <<workVars, tip, reviewVars, order, loaded, ran, slips, extra, changes, moved>>

\* clone_detached at the head that was named, wherever the branch is by now.
CloneHead(q) ==
    /\ QAStep(q, "clone", "run")
    /\ UNCHANGED <<workVars, tip, reviewVars, order, loaded, ran, slips, extra, changes, moved>>

\* A profile runs on the clone.
RunHead(q) ==
    /\ QAStep(q, "run", "done")
    /\ ran' = [ran EXCEPT ![q] = order[q].head]
    /\ UNCHANGED <<workVars, tip, reviewVars, order, loaded, slips, extra, changes, moved>>

\* An exception or a kill; before a profile ran the job may be leased again.
LeaveQA(q) ==
    /\ \/ /\ testing[q] \in Testing
          /\ testing' = [testing EXCEPT ![q] = "stopped"]
          /\ loaded' = [loaded EXCEPT ![q] = Unread]
       \/ QAStep(q, "stopped", "anchors") /\ UNCHANGED loaded
    /\ UNCHANGED <<workVars, tip, reviewVars, order, ran, slips, extra, changes, moved>>
----------------------------------------------------------------------------
\* A file of a sealed directory is altered, or one is added to it.
ChangeFile ==
    /\ changes < MaxChanges /\ Faults < MaxFaults
    /\ changes' = changes + 1
    /\ \/ \E c \in Candidate, f \in {"manifest", "evidence", "other"} :
             /\ evidence[c].manifest # Gone
             /\ evidence' = [evidence EXCEPT ![c][f] = Altered]
             /\ UNCHANGED <<bundle, extra>>
       \/ \E r \in ReviewJob, f \in {"manifest", "evidence", "other"} :
             /\ bundle[r].manifest # Gone
             /\ bundle' = [bundle EXCEPT ![r][f] = Altered]
             /\ UNCHANGED <<evidence, extra>>
       \/ /\ \/ \E c \in Candidate : evidence[c].manifest # Gone /\ extra' = extra \cup {c}
             \/ \E r \in ReviewJob : bundle[r].manifest # Gone /\ extra' = extra \cup {r}
          /\ UNCHANGED <<evidence, bundle>>
    /\ UNCHANGED <<work, tip, payload, reviewing, seen, opinion, qaVars, slips, moved>>

\* A candidate's branch is moved or deleted: once, as a bound.
MoveBranch ==
    /\ Faults < MaxFaults
    /\ \E c \in Candidate \ moved, t \in Candidate \cup {Gone} :
          /\ tip[c] \notin {Gone, t}
          /\ tip' = [tip EXCEPT ![c] = t]
          /\ moved' = moved \cup {c}
    /\ UNCHANGED <<workVars, reviewVars, qaVars, slips, extra, changes>>

HandOverNext ==
    \/ \E c \in Candidate : Work(c) \/ SealWork(c) \/ KeepWork(c) \/ LeaveWork(c)
    \/ \E r \in ReviewJob :
          \/ LaunchReview(r) \/ CheckReviewAnchors(r) \/ LoadEvidence(r) \/ CheckEvidenceFiles(r)
          \/ CheckCandidateCommit(r) \/ JudgeCandidate(r) \/ WriteReview(r) \/ SealReview(r)
          \/ LeaveReview(r)
    \/ \E q \in QAJob :
          \/ LaunchQA(q) \/ CheckQAAnchors(q) \/ LoadReview(q) \/ CheckReviewFiles(q)
          \/ CheckQACandidate(q) \/ CloneHead(q) \/ RunHead(q) \/ LeaveQA(q)
    \/ ChangeFile \/ MoveBranch

HandOverSpec == HandOverInit /\ [][HandOverNext]_handOverVars
----------------------------------------------------------------------------
\* The variables of the hand-over are of these shapes.
HandOverTypeOK ==
    /\ work \in [Candidate -> Unfinished \cup Left \cup {"absent", "kept"}]
    /\ evidence \in [Candidate -> Directory(Candidate)]
    /\ tip \in [Candidate -> Candidate \cup {Gone}]
    /\ payload \in [ReviewJob -> ReviewPayload]
    /\ reviewing \in [ReviewJob -> Reviewing \cup {"absent", "done", "stopped"}]
    /\ seen \in [ReviewJob -> Pair(Candidate)]
    /\ opinion \in [ReviewJob -> {"none", "approve", "changes_required", "reject"}]
    /\ bundle \in [ReviewJob -> Directory(ReviewJob)]
    /\ order \in [QAJob -> QAPayload]
    /\ testing \in [QAJob -> Testing \cup {"absent", "done", "rejected", "stopped"}]
    /\ loaded \in [QAJob -> Pair(ReviewJob)]
    /\ ran \in [QAJob -> Candidate \cup {Gone}]
    /\ extra \subseteq Candidate \cup ReviewJob
    /\ changes \in 0..MaxChanges /\ moved \subseteq Candidate

\* An approval is of one candidate: the job, the commit, the branch and the
\* evidence of the payload are those of one and the same job, whose worker had
\* written all of its evidence.
ApprovalIsOfOne ==
    \A r \in ReviewJob : (bundle[r] # Empty /\ opinion[r] = "approve") =>
        LET p == payload[r]
        IN  /\ {p.head, p.branch, p.evidence, p.dir} = {p.job}
            /\ evidence[p.job].manifest # Gone

\* QA runs the code of a commit only if the review that it names has approved
\* that commit, so that it is the one that its worker has left: also when entries
\* of the payloads are mixed up between jobs, branches move, processes raise or die
\* at any point, and a file is changed while it is looked at.
OnlyApprovedRuns ==
    /\ HandOverTypeOK /\ ApprovalIsOfOne
    /\ \A q \in QAJob : ran[q] # Gone =>
          LET r == order[q].review
          IN  bundle[r].manifest # Gone /\ opinion[r] = "approve" /\ payload[r].head = ran[q]

\* Nobody has touched a candidate that its worker has handed over.
Intact(c) == work[c] = "kept" /\ c \notin moved /\ changes = 0

\* What a stage leaves satisfies the next one: a candidate that was kept, and a
\* review that approves it, are turned down only if something in the payload was
\* mixed up, if the allowed paths do not cover the candidate, if QA's budget is
\* below what the reviewer may write, or if somebody has changed a file or moved
\* the branch.
RejectsHaveReasons ==
    /\ \A r \in ReviewJob : LET c == payload[r].job IN
          (bundle[r] # Empty /\ opinion[r] = "reject") => ~Intact(c) \/ payload[r] # ForCandidate(c)
    /\ \A q \in QAJob : LET r == order[q].review IN
          testing[q] = "rejected" =>
              \/ ~Intact(payload[r].job)
              \/ opinion[r] # "approve"
              \/ order[q] # ForReview(r)
=============================================================================
