--------------------------- MODULE HandOverProofs ---------------------------
(***************************************************************************)
(* For any number of candidates, reviews and QA jobs, with payloads mixed   *)
(* up at will.  With no more than one change of a sealed directory, only an *)
(* approved commit runs: a file that a process loads either is the one that *)
(* the payload names, and cannot change back, or is the one altered file,   *)
(* which no manifest lists.  With any number of changes, what one stage     *)
(* leaves satisfies the next one unless somebody has touched it: until the  *)
(* first change everything on disk is as its stage sealed it.               *)
(***************************************************************************)
EXTENDS HandOver, TLAPS

\* What a directory of a job can hold: files that the job's process has written,
\* or that were altered.  Not both files are that a payload has digests of.
Proper(d, j) ==
    /\ d.manifest \in {Gone, j, Altered} /\ d.evidence \in {Gone, j, Altered}
    /\ ~(d.manifest = Altered /\ d.evidence = Altered)
    /\ changes = 0 => d.manifest # Altered /\ d.evidence # Altered

Unsealed == {"absent", "begun", "committed", "writing"}

Files ==
    /\ \A c \in Candidate : /\ Proper(evidence[c], c)
                            /\ work[c] \in Unsealed => evidence[c].manifest = Gone
    /\ \A r \in ReviewJob : /\ Proper(bundle[r], r)
                            /\ bundle[r].manifest # Gone => reviewing[r] = "done"

\* What a process has loaded from a directory d of job j, when its payload has
\* the digest of the evidence.
Loads(l, d, j, digest) ==
    /\ l.evidence = Altered => d.evidence = Altered
    /\ l.manifest = Altered => d.manifest = Altered
    /\ l.evidence # Altered => l.evidence = j /\ digest = j

\* The payload of a review is of one job.
Bound(p) ==
    /\ p.head = p.job /\ p.branch = p.job /\ p.evidence = p.job /\ p.dir = p.job
    /\ evidence[p.job].manifest # Gone

ReviewSound(r) ==
    LET p == payload[r]
        d == evidence[p.dir]
    IN  /\ reviewing[r] \in {"load", "files", "git", "model"} => d.manifest # Gone
        /\ reviewing[r] = "load" => d.evidence \in {p.evidence, Altered}
        /\ reviewing[r] \in {"files", "git"} => Loads(seen[r], d, p.dir, p.evidence)
        /\ reviewing[r] = "git" => seen[r].evidence # Altered
        /\ reviewing[r] = "model" => Bound(p)
        /\ reviewing[r] = "absent" => opinion[r] = "none"
        /\ opinion[r] = "approve" => Bound(p)

\* The review that a QA job names has approved its commit.
Approved(p) ==
    /\ bundle[p.review].manifest # Gone /\ opinion[p.review] = "approve"
    /\ payload[p.review].head = p.head

QASound(q) ==
    LET p == order[q]
        d == bundle[p.dir]
    IN  /\ testing[q] \in {"load", "files"} => d.manifest # Gone
        /\ testing[q] = "load" => d.evidence \in {p.evidence, Altered}
        /\ testing[q] = "files" => Loads(loaded[q], d, p.dir, p.evidence)
        /\ testing[q] \in {"git", "clone", "run", "done"} => Approved(p)
        /\ ran[q] # Gone => testing[q] = "done" /\ ran[q] = p.head

HandOverInv ==
    /\ HandOverTypeOK /\ Files
    /\ \A r \in ReviewJob : ReviewSound(r)
    /\ \A q \in QAJob : QASound(q)

\* What no step undoes: a sealed file is as it was or altered, and a sealed review
\* stands.
Stands(d, e) ==
    d.manifest # Gone => /\ e.manifest # Gone
                         /\ e.evidence \in {d.evidence, Altered}
                         /\ d.manifest = Altered => e.manifest = Altered
Grows ==
    /\ \A c \in Candidate : Stands(evidence[c], evidence'[c])
    /\ \A r \in ReviewJob : Stands(bundle[r], bundle'[r])
    /\ \A r \in ReviewJob : bundle[r].manifest # Gone =>
          payload'[r] = payload[r] /\ opinion'[r] = opinion[r]

ReviewActs(r) == \/ LaunchReview(r) \/ CheckReviewAnchors(r) \/ LoadEvidence(r) \/ CheckEvidenceFiles(r)
         \/ CheckCandidateCommit(r) \/ JudgeCandidate(r) \/ WriteReview(r) \/ SealReview(r)
         \/ LeaveReview(r)
QAActs(q) == \/ LaunchQA(q) \/ CheckQAAnchors(q) \/ LoadReview(q) \/ CheckReviewFiles(q)
         \/ CheckQACandidate(q) \/ CloneHead(q) \/ RunHead(q) \/ LeaveQA(q)
WorkActs(c) == Work(c) \/ SealWork(c) \/ KeepWork(c) \/ LeaveWork(c)
----------------------------------------------------------------------------
LEMMA HandOverStarts == HandOverInit => HandOverInv
<1> SUFFICES ASSUME HandOverInit PROVE HandOverInv
  OBVIOUS
<1> DEFINE c0 == CHOOSE c \in Candidate : TRUE
           r0 == CHOOSE r \in ReviewJob : TRUE
<1>1. c0 \in Candidate /\ r0 \in ReviewJob
  BY HandOverAssumption
<1> HIDE DEF c0, r0
<1>2. /\ payload = [r \in ReviewJob |-> ForCandidate(c0)]
      /\ order = [q \in QAJob |-> ForReview(r0)]
  BY DEF HandOverInit, c0, r0
<1>3. ForCandidate(c0) \in ReviewPayload
  BY <1>1 DEF ForCandidate, ReviewPayload, Digest
<1>4. ForReview(r0) \in QAPayload
  BY <1>1, <1>2, <1>3 DEF ForReview, QAPayload, ReviewPayload, Digest
<1>5. Empty \in Directory(Candidate) /\ Empty \in Directory(ReviewJob)
      /\ Unread \in Pair(Candidate) /\ Unread \in Pair(ReviewJob)
  BY DEF Empty, Unread, Directory, Pair
<1>6. HandOverTypeOK
  BY <1>2, <1>3, <1>4, <1>5, HandOverAssumption
     DEF HandOverInit, HandOverTypeOK, Unfinished, Left, Reviewing, Reading, Testing
<1>7. Files
  BY DEF HandOverInit, Files, Proper, Empty, Altered, Gone
<1>8. ASSUME NEW r \in ReviewJob PROVE ReviewSound(r)
  BY DEF HandOverInit, ReviewSound
<1>9. ASSUME NEW q \in QAJob PROVE QASound(q)
  BY DEF HandOverInit, QASound
<1>10. QED
  BY <1>6, <1>7, <1>8, <1>9 DEF HandOverInv

\* The variables keep their types.
LEMMA WorkTyped ==
  ASSUME HandOverTypeOK, NEW c \in Candidate, WorkActs(c)
  PROVE  HandOverTypeOK'
<1>1. /\ work' \in [Candidate -> Unfinished \cup Left \cup {"absent", "kept"}]
      /\ evidence' \in [Candidate -> Directory(Candidate)]
      /\ tip' \in [Candidate -> Candidate \cup {Gone}]
      /\ extra' \subseteq Candidate \cup ReviewJob
  BY DEF HandOverTypeOK, WorkActs, Work, SealWork, KeepWork, LeaveWork, Unfinished, Left, Directory
<1>2. UNCHANGED <<reviewVars, qaVars, changes, moved>>
  BY DEF WorkActs, Work, SealWork, KeepWork, LeaveWork
<1>3. QED
  BY <1>1, <1>2 DEF HandOverTypeOK, reviewVars, qaVars

LEMMA ReviewTyped ==
  ASSUME HandOverTypeOK, NEW r \in ReviewJob, ReviewActs(r)
  PROVE  HandOverTypeOK'
<1>1. payload' \in [ReviewJob -> ReviewPayload]
  BY DEF HandOverTypeOK, ReviewActs, LaunchReview, CheckReviewAnchors, LoadEvidence, CheckEvidenceFiles,
         CheckCandidateCommit, JudgeCandidate, WriteReview, SealReview, LeaveReview
<1>2. reviewing' \in [ReviewJob -> Reviewing \cup {"absent", "done", "stopped"}]
  BY DEF HandOverTypeOK, ReviewActs, LaunchReview, CheckReviewAnchors, LoadEvidence, CheckEvidenceFiles,
         CheckCandidateCommit, JudgeCandidate, WriteReview, SealReview, LeaveReview,
         ReviewStep, RejectCandidate, Reviewing, Reading
<1>3. seen' \in [ReviewJob -> Pair(Candidate)]
  <2>1. Unread \in Pair(Candidate)
    BY DEF Unread, Pair
  <2>2. ASSUME LoadEvidence(r) PROVE seen' \in [ReviewJob -> Pair(Candidate)]
    <3>1. evidence[payload[r].dir] \in Directory(Candidate)
      BY DEF HandOverTypeOK, ReviewPayload
    <3>2. QED
      BY <2>2, <3>1 DEF HandOverTypeOK, LoadEvidence, Directory, Pair
  <2>3. QED
    BY <2>1, <2>2
       DEF HandOverTypeOK, ReviewActs, LaunchReview, CheckReviewAnchors, CheckEvidenceFiles,
           CheckCandidateCommit, JudgeCandidate, WriteReview, SealReview, LeaveReview, RejectCandidate
<1>4. opinion' \in [ReviewJob -> {"none", "approve", "changes_required", "reject"}]
  BY DEF HandOverTypeOK, ReviewActs, LaunchReview, CheckReviewAnchors, LoadEvidence, CheckEvidenceFiles,
         CheckCandidateCommit, JudgeCandidate, WriteReview, SealReview, LeaveReview, RejectCandidate
<1>5. bundle' \in [ReviewJob -> Directory(ReviewJob)]
  BY DEF HandOverTypeOK, ReviewActs, LaunchReview, CheckReviewAnchors, LoadEvidence, CheckEvidenceFiles,
         CheckCandidateCommit, JudgeCandidate, WriteReview, SealReview, LeaveReview, Directory
<1>6. UNCHANGED <<workVars, tip, qaVars, extra, changes, moved>>
  BY DEF ReviewActs, LaunchReview, CheckReviewAnchors, LoadEvidence, CheckEvidenceFiles,
         CheckCandidateCommit, JudgeCandidate, WriteReview, SealReview, LeaveReview
<1>7. QED
  BY <1>1, <1>2, <1>3, <1>4, <1>5, <1>6 DEF HandOverTypeOK, workVars, qaVars

LEMMA QATyped ==
  ASSUME HandOverTypeOK, NEW q \in QAJob, QAActs(q)
  PROVE  HandOverTypeOK'
<1>1. order' \in [QAJob -> QAPayload]
  BY DEF HandOverTypeOK, QAActs, LaunchQA, CheckQAAnchors, LoadReview, CheckReviewFiles,
         CheckQACandidate, CloneHead, RunHead, LeaveQA
<1>2. testing' \in [QAJob -> Testing \cup {"absent", "done", "rejected", "stopped"}]
  BY DEF HandOverTypeOK, QAActs, LaunchQA, CheckQAAnchors, LoadReview, CheckReviewFiles,
         CheckQACandidate, CloneHead, RunHead, LeaveQA, QAStep, Testing, Reading
<1>3. loaded' \in [QAJob -> Pair(ReviewJob)]
  <2>1. Unread \in Pair(ReviewJob)
    BY DEF Unread, Pair
  <2>2. ASSUME LoadReview(q) PROVE loaded' \in [QAJob -> Pair(ReviewJob)]
    <3>1. bundle[order[q].dir] \in Directory(ReviewJob)
      BY DEF HandOverTypeOK, QAPayload
    <3>2. QED
      BY <2>2, <3>1 DEF HandOverTypeOK, LoadReview, Directory, Pair
  <2>3. QED
    BY <2>1, <2>2 DEF HandOverTypeOK, QAActs, LaunchQA, CheckQAAnchors, CheckReviewFiles,
         CheckQACandidate, CloneHead, RunHead, LeaveQA
<1>4. ran' \in [QAJob -> Candidate \cup {Gone}]
  <2>1. order[q].head \in Candidate
    BY DEF HandOverTypeOK, QAPayload
  <2>2. QED
    BY <2>1 DEF HandOverTypeOK, QAActs, LaunchQA, CheckQAAnchors, LoadReview, CheckReviewFiles,
         CheckQACandidate, CloneHead, RunHead, LeaveQA
<1>5. UNCHANGED <<workVars, tip, reviewVars, extra, changes, moved>>
  BY DEF QAActs, LaunchQA, CheckQAAnchors, LoadReview, CheckReviewFiles,
         CheckQACandidate, CloneHead, RunHead, LeaveQA
<1>6. QED
  BY <1>1, <1>2, <1>3, <1>4, <1>5 DEF HandOverTypeOK, workVars, reviewVars

LEMMA MeddlingTyped ==
  ASSUME HandOverTypeOK, ChangeFile \/ MoveBranch
  PROVE  HandOverTypeOK'
<1>1. CASE ChangeFile
  <2>1. /\ evidence' \in [Candidate -> Directory(Candidate)]
        /\ bundle' \in [ReviewJob -> Directory(ReviewJob)]
        /\ extra' \subseteq Candidate \cup ReviewJob
    BY <1>1 DEF HandOverTypeOK, ChangeFile, Directory
  <2>2. changes' \in 0..MaxChanges
    BY <1>1, HandOverAssumption DEF HandOverTypeOK, ChangeFile
  <2>3. QED
    BY <1>1, <2>1, <2>2 DEF HandOverTypeOK, ChangeFile, qaVars
<1>2. CASE MoveBranch
  BY <1>2 DEF HandOverTypeOK, MoveBranch, workVars, reviewVars, qaVars
<1>3. QED
  BY <1>1, <1>2
----------------------------------------------------------------------------
\* What a step makes of the files.
LEMMA WorkFiles ==
  ASSUME HandOverInv, NEW c \in Candidate, WorkActs(c)
  PROVE  Files' /\ Grows
<1>1. /\ UNCHANGED <<payload, opinion, bundle, reviewing, changes>>
      /\ \A x \in Candidate \ {c} : work'[x] = work[x] /\ evidence'[x] = evidence[x]
  BY DEF HandOverInv, HandOverTypeOK, WorkActs, Work, SealWork, KeepWork, LeaveWork, reviewVars
<1>2. \/ evidence'[c] = evidence[c] /\ (work'[c] \in Unsealed => work[c] \in Unsealed)
      \/ /\ work[c] \in Unsealed
         /\ \/ evidence'[c] = [evidence[c] EXCEPT !.other = c]
            \/ evidence'[c] = [evidence[c] EXCEPT !.evidence = c]
      \/ /\ work[c] \in Unsealed /\ work'[c] = "sealed"
         /\ evidence'[c] = [evidence[c] EXCEPT !.manifest = c]
  BY DEF HandOverInv, HandOverTypeOK, WorkActs, Work, SealWork, KeepWork, LeaveWork, Unsealed,
         Unfinished
<1>3. evidence[c] \in Directory(Candidate) /\ c # Altered /\ c # Gone
  BY HandOverAssumption DEF HandOverInv, HandOverTypeOK
<1>4. Proper(evidence[c], c) /\ (work[c] \in Unsealed => evidence[c].manifest = Gone)
  BY DEF HandOverInv, Files
<1>5. /\ Proper(evidence'[c], c)
      /\ work'[c] \in Unsealed => evidence'[c].manifest = Gone
      /\ Stands(evidence[c], evidence'[c])
  BY <1>2, <1>3, <1>4 DEF Proper, Stands, Directory, Unsealed
<1>6. Files'
  BY <1>1, <1>5 DEF HandOverInv, Files, Proper
<1>7. Grows
  BY <1>1, <1>5 DEF Grows, Stands
<1>8. QED
  BY <1>6, <1>7

LEMMA ReviewFiles ==
  ASSUME HandOverInv, NEW r \in ReviewJob, ReviewActs(r)
  PROVE  Files' /\ Grows
<1>1. /\ UNCHANGED <<work, evidence, changes>>
      /\ \A x \in ReviewJob \ {r} : /\ bundle'[x] = bundle[x] /\ reviewing'[x] = reviewing[x]
                                    /\ payload'[x] = payload[x] /\ opinion'[x] = opinion[x]
  BY DEF HandOverInv, HandOverTypeOK, ReviewActs, LaunchReview, CheckReviewAnchors, LoadEvidence,
         CheckEvidenceFiles, CheckCandidateCommit, JudgeCandidate, WriteReview, SealReview,
         LeaveReview, ReviewStep, RejectCandidate, workVars
<1>2. reviewing[r] # "done"
  BY DEF ReviewActs, LaunchReview, CheckReviewAnchors, LoadEvidence,
         CheckEvidenceFiles, CheckCandidateCommit, JudgeCandidate, WriteReview, SealReview,
         LeaveReview, ReviewStep, RejectCandidate, Reviewing, Reading
<1>3. bundle[r] \in Directory(ReviewJob) /\ Proper(bundle[r], r) /\ bundle[r].manifest = Gone
      /\ r # Altered /\ r # Gone
  BY <1>2, HandOverAssumption DEF HandOverInv, HandOverTypeOK, Files
<1>4. \/ bundle'[r] = bundle[r]
      \/ bundle'[r].manifest = Gone /\ bundle'[r].evidence = r
      \/ /\ bundle'[r].manifest = r /\ bundle'[r].evidence = bundle[r].evidence
         /\ reviewing'[r] = "done"
  BY <1>3
     DEF HandOverInv, HandOverTypeOK, ReviewActs, LaunchReview, CheckReviewAnchors, LoadEvidence,
         CheckEvidenceFiles, CheckCandidateCommit, JudgeCandidate, WriteReview, SealReview,
         LeaveReview, ReviewStep, RejectCandidate, Directory
<1>5. /\ Proper(bundle'[r], r)
      /\ bundle'[r].manifest # Gone => reviewing'[r] = "done"
  BY <1>3, <1>4 DEF Proper
<1>6. Files'
  BY <1>1, <1>5 DEF HandOverInv, Files, Proper
<1>7. Grows
  BY <1>1, <1>3 DEF Grows, Stands
<1>8. QED
  BY <1>6, <1>7

LEMMA QAFiles ==
  ASSUME HandOverInv, NEW q \in QAJob, QAActs(q)
  PROVE  Files' /\ Grows
<1>1. UNCHANGED <<work, evidence, payload, opinion, bundle, reviewing, changes>>
  BY DEF QAActs, LaunchQA, CheckQAAnchors, LoadReview, CheckReviewFiles,
         CheckQACandidate, CloneHead, RunHead, LeaveQA, workVars, reviewVars
<1>2. QED
  BY <1>1 DEF HandOverInv, Files, Proper, Grows, Stands

LEMMA MeddlingFiles ==
  ASSUME HandOverInv, MaxChanges <= 1, ChangeFile \/ MoveBranch
  PROVE  Files' /\ Grows
<1>1. CASE MoveBranch
  BY <1>1 DEF MoveBranch, HandOverInv, Files, Proper, Grows, Stands, workVars, reviewVars
<1>2. CASE ChangeFile
  <2>1. changes = 0 /\ changes' = 1
    BY <1>2, HandOverAssumption DEF ChangeFile, HandOverInv, HandOverTypeOK
  <2>2. UNCHANGED <<work, payload, reviewing, opinion>>
    BY <1>2 DEF ChangeFile
  <2>3. \A c \in Candidate : /\ Proper(evidence[c], c)' /\ Stands(evidence[c], evidence'[c])
                             /\ work[c] \in Unsealed => evidence'[c].manifest = Gone
    <3> SUFFICES ASSUME NEW c \in Candidate
                 PROVE  /\ Proper(evidence[c], c)' /\ Stands(evidence[c], evidence'[c])
                        /\ work[c] \in Unsealed => evidence'[c].manifest = Gone
      OBVIOUS
    <3>1. \/ evidence'[c] = evidence[c]
          \/ /\ evidence[c].manifest # Gone
             /\ \/ evidence'[c] = [evidence[c] EXCEPT !.manifest = Altered]
                \/ evidence'[c] = [evidence[c] EXCEPT !.evidence = Altered]
                \/ evidence'[c] = [evidence[c] EXCEPT !.other = Altered]
      BY <1>2 DEF ChangeFile, HandOverInv, HandOverTypeOK, Directory
    <3>2. evidence[c] \in Directory(Candidate)
      BY DEF HandOverInv, HandOverTypeOK
    <3>3. Proper(evidence[c], c) /\ (work[c] \in Unsealed => evidence[c].manifest = Gone)
      BY DEF HandOverInv, Files
    <3>4. QED
      BY <2>1, <3>1, <3>2, <3>3 DEF Proper, Stands, Directory, Gone, Altered
  <2>4. \A r \in ReviewJob : /\ Proper(bundle[r], r)' /\ Stands(bundle[r], bundle'[r])
                             /\ bundle'[r].manifest # Gone => bundle[r].manifest # Gone
    <3> SUFFICES ASSUME NEW r \in ReviewJob
                 PROVE  /\ Proper(bundle[r], r)' /\ Stands(bundle[r], bundle'[r])
                        /\ bundle'[r].manifest # Gone => bundle[r].manifest # Gone
      OBVIOUS
    <3>1. \/ bundle'[r] = bundle[r]
          \/ /\ bundle[r].manifest # Gone
             /\ \/ bundle'[r] = [bundle[r] EXCEPT !.manifest = Altered]
                \/ bundle'[r] = [bundle[r] EXCEPT !.evidence = Altered]
                \/ bundle'[r] = [bundle[r] EXCEPT !.other = Altered]
      BY <1>2 DEF ChangeFile, HandOverInv, HandOverTypeOK, Directory
    <3>2. bundle[r] \in Directory(ReviewJob)
      BY DEF HandOverInv, HandOverTypeOK
    <3>3. Proper(bundle[r], r)
      BY DEF HandOverInv, Files
    <3>4. QED
      BY <2>1, <3>1, <3>2, <3>3 DEF Proper, Stands, Directory, Gone, Altered
  <2>5. Files'
    BY <2>2, <2>3, <2>4 DEF HandOverInv, Files
  <2>6. Grows
    BY <2>2, <2>3, <2>4 DEF Grows
  <2>7. QED
    BY <2>5, <2>6
<1>3. QED
  BY <1>1, <1>2
----------------------------------------------------------------------------
\* The steps of others leave a review sound.
LEMMA ReviewKept ==
  ASSUME HandOverInv, Grows, NEW r \in ReviewJob,
         payload'[r] = payload[r], reviewing'[r] = reviewing[r],
         seen'[r] = seen[r], opinion'[r] = opinion[r]
  PROVE  ReviewSound(r)'
<1>1. payload[r].dir \in Candidate /\ payload[r].job \in Candidate
  BY DEF HandOverInv, HandOverTypeOK, ReviewPayload
<1>2. ReviewSound(r)
  BY DEF HandOverInv
<1>3. Bound(payload[r]) => Bound(payload[r])'
  BY <1>1 DEF Bound, Grows, Stands
<1>4. Stands(evidence[payload[r].dir], evidence'[payload[r].dir])
  BY <1>1 DEF Grows
<1>5. QED
  BY <1>2, <1>3, <1>4 DEF ReviewSound, Loads, Stands

\* The reviewer's own steps.
LEMMA ReviewAdvances ==
  ASSUME HandOverInv, NEW r \in ReviewJob, ReviewActs(r)
  PROVE  ReviewSound(r)'
<1> DEFINE p == payload[r]
           d == evidence[p.dir]
<1>1. p \in ReviewPayload /\ p.dir \in Candidate /\ d \in Directory(Candidate)
  BY DEF HandOverInv, HandOverTypeOK, ReviewPayload
<1>2. Proper(d, p.dir) /\ ReviewSound(r)
  BY <1>1 DEF HandOverInv, Files
<1>3. Gone # Altered /\ Gone \notin Candidate /\ Altered \notin Candidate
  BY HandOverAssumption DEF Gone, Altered
<1>4. reviewing[r] # "absent" => payload'[r] = payload[r]
  BY DEF HandOverInv, HandOverTypeOK, ReviewActs, LaunchReview, CheckReviewAnchors, LoadEvidence,
         CheckEvidenceFiles, CheckCandidateCommit, JudgeCandidate, WriteReview, SealReview, LeaveReview
<1>5. evidence' = evidence
  BY DEF ReviewActs, LaunchReview, CheckReviewAnchors, LoadEvidence, CheckEvidenceFiles,
         CheckCandidateCommit, JudgeCandidate, WriteReview, SealReview, LeaveReview, workVars
<1>6. ASSUME NEW from, RejectCandidate(r, from), reviewing[r] # "absent"
      PROVE  ReviewSound(r)'
  BY <1>4, <1>6 DEF HandOverInv, HandOverTypeOK, RejectCandidate, ReviewStep, ReviewSound
<1>7. CASE LaunchReview(r)
  BY <1>2, <1>7 DEF HandOverInv, HandOverTypeOK, LaunchReview, ReviewSound
<1>8. CASE CheckReviewAnchors(r)
  <2>1. CASE d.manifest = p.manifest /\ d.evidence = p.evidence
    <3>1. reviewing'[r] = "load" /\ opinion'[r] = opinion[r] /\ reviewing[r] = "anchors"
      BY <1>8, <2>1 DEF HandOverInv, HandOverTypeOK, CheckReviewAnchors, ReviewStep
    <3>2. d.manifest # Gone
      BY <1>1, <1>3, <2>1 DEF ReviewPayload, Digest
    <3>3. QED
      BY <1>2, <1>4, <1>5, <2>1, <3>1, <3>2 DEF ReviewSound, Bound
  <2>2. CASE ~(d.manifest = p.manifest /\ d.evidence = p.evidence)
    BY <1>6, <1>8, <2>2 DEF CheckReviewAnchors, RejectCandidate, ReviewStep
  <2>3. QED
    BY <2>1, <2>2
<1>9. CASE LoadEvidence(r)
  <2>1. /\ reviewing[r] = "load" /\ reviewing'[r] = "files" /\ opinion'[r] = opinion[r]
        /\ seen'[r] = [manifest |-> d.manifest, evidence |-> d.evidence]
    BY <1>9 DEF HandOverInv, HandOverTypeOK, LoadEvidence, ReviewStep
  <2>2. d.evidence # Altered => d.evidence = p.dir /\ p.evidence = p.dir
    BY <1>1, <1>2, <1>3, <2>1 DEF ReviewSound, Proper, ReviewPayload, Digest
  <2>3. Loads(seen'[r], d, p.dir, p.evidence)
    BY <2>1, <2>2 DEF Loads
  <2>4. QED
    BY <1>2, <1>4, <1>5, <2>1, <2>3 DEF ReviewSound, Bound
<1>10. CASE CheckEvidenceFiles(r)
  <2>1. PICK listed \in Lists(seen[r].manifest, d, p.dir) :
          IF listed THEN ReviewStep(r, "files", "git") /\ UNCHANGED <<seen, opinion>>
                    ELSE RejectCandidate(r, "files")
    BY <1>10 DEF CheckEvidenceFiles
  <2>2. reviewing[r] = "files"
    BY <2>1 DEF ReviewStep, RejectCandidate
  <2>3. CASE listed
    <3>1. seen[r].evidence # Altered
      BY <1>2, <2>1, <2>2, <2>3 DEF ReviewSound, Loads, Proper, Lists
    <3>2. reviewing'[r] = "git" /\ UNCHANGED <<seen, opinion>>
      BY <2>1, <2>3 DEF HandOverInv, HandOverTypeOK, ReviewStep
    <3>3. QED
      BY <1>2, <1>4, <1>5, <2>2, <3>1, <3>2 DEF ReviewSound, Bound
  <2>4. CASE ~listed
    BY <1>6, <2>1, <2>2, <2>4
  <2>5. QED
    BY <2>3, <2>4
<1>11. CASE CheckCandidateCommit(r)
  <2>1. PICK claimed \in Claims(p, seen[r].evidence) :
          IF tip[p.branch] = p.head /\ claimed /\ p.allowed
          THEN ReviewStep(r, "git", "model") /\ UNCHANGED <<seen, opinion>>
          ELSE RejectCandidate(r, "git")
    BY <1>11 DEF CheckCandidateCommit
  <2>2. reviewing[r] = "git"
    BY <2>1 DEF ReviewStep, RejectCandidate
  <2>3. CASE tip[p.branch] = p.head /\ claimed /\ p.allowed
    <3>1. Bound(p)
      BY <1>2, <2>1, <2>2, <2>3 DEF ReviewSound, Loads, Claims, Bound
    <3>2. reviewing'[r] = "model" /\ UNCHANGED <<seen, opinion>>
      BY <2>1, <2>3 DEF HandOverInv, HandOverTypeOK, ReviewStep
    <3>3. QED
      BY <1>4, <1>5, <2>2, <3>1, <3>2 DEF ReviewSound, Bound
  <2>4. CASE ~(tip[p.branch] = p.head /\ claimed /\ p.allowed)
    BY <1>6, <2>1, <2>2, <2>4
  <2>5. QED
    BY <2>3, <2>4
<1>12. CASE JudgeCandidate(r)
  <2>1. reviewing[r] = "model" /\ reviewing'[r] = "write" /\ Bound(p)
    BY <1>2, <1>12 DEF HandOverInv, HandOverTypeOK, JudgeCandidate, ReviewStep, ReviewSound
  <2>2. QED
    BY <1>4, <1>5, <2>1 DEF ReviewSound, Bound
<1>13. CASE WriteReview(r) \/ SealReview(r) \/ LeaveReview(r)
  <2>1. /\ reviewing[r] # "absent"
        /\ reviewing'[r] \in {"seal", "done", "stopped", "anchors"}
        /\ opinion'[r] \in {opinion[r], "none"}
    BY <1>13 DEF HandOverInv, HandOverTypeOK, WriteReview, SealReview, LeaveReview, ReviewStep,
                 Reviewing, Reading
  <2>2. QED
    BY <1>2, <1>4, <1>5, <2>1 DEF ReviewSound, Bound
<1>14. QED
  BY <1>7, <1>8, <1>9, <1>10, <1>11, <1>12, <1>13 DEF ReviewActs
----------------------------------------------------------------------------
\* The steps of others leave a QA job sound: the review that it names stands.
LEMMA QAKept ==
  ASSUME HandOverInv, Grows, NEW q \in QAJob,
         order'[q] = order[q], testing'[q] = testing[q],
         loaded'[q] = loaded[q], ran'[q] = ran[q]
  PROVE  QASound(q)'
<1>1. order[q].dir \in ReviewJob /\ order[q].review \in ReviewJob
  BY DEF HandOverInv, HandOverTypeOK, QAPayload
<1>2. QASound(q)
  BY DEF HandOverInv
<1>3. Approved(order[q]) => Approved(order[q])'
  BY <1>1 DEF Approved, Grows, Stands
<1>4. Stands(bundle[order[q].dir], bundle'[order[q].dir])
  BY <1>1 DEF Grows
<1>5. QED
  BY <1>2, <1>3, <1>4 DEF QASound, Loads, Stands

\* The coordinator's own steps.
LEMMA QAAdvances ==
  ASSUME HandOverInv, NEW q \in QAJob, QAActs(q)
  PROVE  QASound(q)'
<1> DEFINE p == order[q]
           d == bundle[p.dir]
<1>1. p \in QAPayload /\ p.dir \in ReviewJob /\ p.review \in ReviewJob
      /\ d \in Directory(ReviewJob)
  BY DEF HandOverInv, HandOverTypeOK, QAPayload
<1>2. Proper(d, p.dir) /\ QASound(q)
  BY <1>1 DEF HandOverInv, Files
<1>3. Gone # Altered /\ Gone \notin ReviewJob /\ Altered \notin ReviewJob
  BY HandOverAssumption DEF Gone, Altered
<1>4. testing[q] # "absent" => order'[q] = order[q]
  BY DEF HandOverInv, HandOverTypeOK, QAActs, LaunchQA, CheckQAAnchors, LoadReview,
         CheckReviewFiles, CheckQACandidate, CloneHead, RunHead, LeaveQA
<1>5. UNCHANGED <<payload, opinion, bundle>>
  BY DEF QAActs, LaunchQA, CheckQAAnchors, LoadReview, CheckReviewFiles,
         CheckQACandidate, CloneHead, RunHead, LeaveQA, reviewVars
<1>6. CASE LaunchQA(q)
  BY <1>2, <1>6 DEF HandOverInv, HandOverTypeOK, LaunchQA, QASound
<1>7. CASE CheckQAAnchors(q)
  <2>1. testing[q] = "anchors" /\ ran' = ran
    BY <1>7 DEF CheckQAAnchors, QAStep
  <2>2. PICK fit \in Fits(p, d) :
          IF fit /\ d.manifest = p.manifest /\ d.evidence = p.evidence
          THEN QAStep(q, "anchors", "load") ELSE QAStep(q, "anchors", "rejected")
    BY <1>7 DEF CheckQAAnchors
  <2>3. CASE fit /\ d.manifest = p.manifest /\ d.evidence = p.evidence
    <3>1. testing'[q] = "load"
      BY <2>2, <2>3 DEF HandOverInv, HandOverTypeOK, QAStep
    <3>2. d.manifest # Gone
      BY <1>1, <1>3, <2>3 DEF QAPayload, Digest
    <3>3. QED
      BY <1>2, <1>4, <1>5, <2>1, <2>3, <3>1, <3>2 DEF QASound
  <2>4. CASE ~(fit /\ d.manifest = p.manifest /\ d.evidence = p.evidence)
    <3>1. testing'[q] = "rejected"
      BY <2>2, <2>4 DEF HandOverInv, HandOverTypeOK, QAStep
    <3>2. QED
      BY <1>2, <2>1, <3>1 DEF QASound
  <2>5. QED
    BY <2>3, <2>4
<1>8. CASE LoadReview(q)
  <2>1. /\ testing[q] = "load" /\ testing'[q] = "files" /\ ran' = ran
        /\ loaded'[q] = [manifest |-> d.manifest, evidence |-> d.evidence]
    BY <1>8 DEF HandOverInv, HandOverTypeOK, LoadReview, QAStep
  <2>2. d.evidence # Altered => d.evidence = p.dir /\ p.evidence = p.dir
    BY <1>1, <1>2, <1>3, <2>1 DEF QASound, Proper, QAPayload, Digest
  <2>3. Loads(loaded'[q], d, p.dir, p.evidence)
    BY <2>1, <2>2 DEF Loads
  <2>4. QED
    BY <1>2, <1>4, <1>5, <2>1, <2>3 DEF QASound
<1>9. CASE CheckReviewFiles(q)
  <2>1. PICK listed \in Lists(loaded[q].manifest, d, p.dir),
             approved \in Approves(p, d, loaded[q].evidence), fit \in Fits(p, d) :
          IF listed /\ approved /\ fit
          THEN QAStep(q, "files", "git") ELSE QAStep(q, "files", "rejected")
    BY <1>9 DEF CheckReviewFiles
  <2>2. testing[q] = "files" /\ ran' = ran
    BY <1>9 DEF CheckReviewFiles, QAStep
  <2>3. CASE listed /\ approved /\ fit
    <3>1. loaded[q].evidence # Altered
      BY <1>2, <2>1, <2>2, <2>3 DEF QASound, Loads, Proper, Lists
    <3>2. loaded[q].evidence = p.dir
      BY <1>2, <2>2, <3>1 DEF QASound, Loads
    <3>3. Approved(p)
      BY <1>2, <2>1, <2>2, <2>3, <3>1, <3>2 DEF QASound, Approves, Approved
    <3>4. testing'[q] = "git"
      BY <2>1, <2>3 DEF HandOverInv, HandOverTypeOK, QAStep
    <3>5. QED
      BY <1>2, <1>4, <1>5, <2>2, <3>3, <3>4 DEF QASound, Approved
  <2>4. CASE ~(listed /\ approved /\ fit)
    <3>1. testing'[q] = "rejected"
      BY <2>1, <2>4 DEF HandOverInv, HandOverTypeOK, QAStep
    <3>2. QED
      BY <1>2, <2>2, <3>1 DEF QASound
  <2>5. QED
    BY <2>3, <2>4
<1>10. CASE CheckQACandidate(q) \/ CloneHead(q)
  <2>1. /\ testing[q] \in {"git", "clone"} /\ testing'[q] \in {"clone", "run", "rejected"}
        /\ ran' = ran
    BY <1>10 DEF HandOverInv, HandOverTypeOK, CheckQACandidate, CloneHead, QAStep
  <2>2. QED
    BY <1>2, <1>4, <1>5, <2>1 DEF QASound, Approved
<1>11. CASE RunHead(q)
  <2>1. testing[q] = "run" /\ testing'[q] = "done" /\ ran'[q] = p.head
    BY <1>11 DEF HandOverInv, HandOverTypeOK, RunHead, QAStep
  <2>2. QED
    BY <1>2, <1>4, <1>5, <2>1 DEF QASound, Approved
<1>12. CASE LeaveQA(q)
  <2>1. testing[q] \notin {"absent", "done"} /\ testing'[q] \in {"stopped", "anchors"} /\ ran' = ran
    BY <1>12 DEF HandOverInv, HandOverTypeOK, LeaveQA, QAStep, Testing, Reading
  <2>2. QED
    BY <1>2, <1>4, <2>1 DEF QASound
<1>13. QED
  BY <1>6, <1>7, <1>8, <1>9, <1>10, <1>11, <1>12 DEF QAActs
----------------------------------------------------------------------------
LEMMA HandOverKept ==
  ASSUME MaxChanges <= 1, HandOverInv, [HandOverNext]_handOverVars
  PROVE  HandOverInv'
<1>1. CASE UNCHANGED handOverVars
  <2>1. /\ Files' /\ HandOverTypeOK' /\ Grows
    BY <1>1 DEF handOverVars, workVars, reviewVars, qaVars, HandOverInv, HandOverTypeOK,
                Files, Proper, Grows, Stands
  <2>2. QED
    BY <1>1, <2>1, ReviewKept, QAKept DEF HandOverInv, handOverVars, reviewVars, qaVars
<1>2. ASSUME NEW c \in Candidate, WorkActs(c) PROVE HandOverInv'
  <2>1. HandOverTypeOK' /\ Files' /\ Grows
    BY <1>2, WorkTyped, WorkFiles DEF HandOverInv
  <2>2. UNCHANGED <<reviewVars, qaVars>>
    BY <1>2 DEF WorkActs, Work, SealWork, KeepWork, LeaveWork
  <2>3. QED
    BY <2>1, <2>2, ReviewKept, QAKept DEF HandOverInv, reviewVars, qaVars
<1>3. ASSUME NEW r \in ReviewJob, ReviewActs(r) PROVE HandOverInv'
  <2>1. HandOverTypeOK' /\ Files' /\ Grows
    BY <1>3, ReviewTyped, ReviewFiles DEF HandOverInv
  <2>2. ASSUME NEW x \in ReviewJob \ {r} PROVE ReviewSound(x)'
    <3>1. /\ payload'[x] = payload[x] /\ reviewing'[x] = reviewing[x]
          /\ seen'[x] = seen[x] /\ opinion'[x] = opinion[x]
      BY <1>3, <2>2
         DEF HandOverInv, HandOverTypeOK, ReviewActs, LaunchReview, CheckReviewAnchors,
             LoadEvidence, CheckEvidenceFiles, CheckCandidateCommit, JudgeCandidate, WriteReview,
             SealReview, LeaveReview, ReviewStep, RejectCandidate
    <3>2. QED
      BY <2>1, <2>2, <3>1, ReviewKept
  <2>3. UNCHANGED qaVars
    BY <1>3 DEF ReviewActs, LaunchReview, CheckReviewAnchors, LoadEvidence, CheckEvidenceFiles,
         CheckCandidateCommit, JudgeCandidate, WriteReview, SealReview, LeaveReview
  <2>4. ASSUME NEW q \in QAJob PROVE QASound(q)'
    BY <2>1, <2>3, QAKept DEF qaVars
  <2>5. ReviewSound(r)'
    BY <1>3, ReviewAdvances
  <2>6. QED
    BY <2>1, <2>2, <2>4, <2>5 DEF HandOverInv
<1>4. ASSUME NEW q \in QAJob, QAActs(q) PROVE HandOverInv'
  <2>1. HandOverTypeOK' /\ Files' /\ Grows
    BY <1>4, QATyped, QAFiles DEF HandOverInv
  <2>2. ASSUME NEW x \in QAJob \ {q} PROVE QASound(x)'
    <3>1. /\ order'[x] = order[x] /\ testing'[x] = testing[x]
          /\ loaded'[x] = loaded[x] /\ ran'[x] = ran[x]
      BY <1>4, <2>2
         DEF HandOverInv, HandOverTypeOK, QAActs, LaunchQA, CheckQAAnchors, LoadReview,
             CheckReviewFiles, CheckQACandidate, CloneHead, RunHead, LeaveQA, QAStep
    <3>2. QED
      BY <2>1, <2>2, <3>1, QAKept
  <2>3. UNCHANGED reviewVars
    BY <1>4 DEF QAActs, LaunchQA, CheckQAAnchors, LoadReview, CheckReviewFiles,
         CheckQACandidate, CloneHead, RunHead, LeaveQA
  <2>4. ASSUME NEW r \in ReviewJob PROVE ReviewSound(r)'
    BY <2>1, <2>3, ReviewKept DEF reviewVars
  <2>5. QASound(q)'
    BY <1>4, QAAdvances
  <2>6. QED
    BY <2>1, <2>2, <2>4, <2>5 DEF HandOverInv
<1>5. ASSUME ChangeFile \/ MoveBranch PROVE HandOverInv'
  <2>1. HandOverTypeOK' /\ Files' /\ Grows
    BY <1>5, MeddlingTyped, MeddlingFiles DEF HandOverInv
  <2>2. UNCHANGED <<payload, reviewing, seen, opinion, qaVars>>
    BY <1>5 DEF ChangeFile, MoveBranch, reviewVars
  <2>3. QED
    BY <2>1, <2>2, ReviewKept, QAKept DEF HandOverInv, qaVars
<1>6. QED
  BY <1>1, <1>2, <1>3, <1>4, <1>5 DEF HandOverNext, WorkActs, ReviewActs, QAActs

\* The invariant gives both parts of the property.
LEMMA InvIsEnough == HandOverInv => OnlyApprovedRuns
<1> SUFFICES ASSUME HandOverInv PROVE OnlyApprovedRuns
  OBVIOUS
<1>1. ApprovalIsOfOne
  BY DEF HandOverInv, ReviewSound, Bound, ApprovalIsOfOne
<1>2. ASSUME NEW q \in QAJob, ran[q] # Gone
      PROVE  /\ bundle[order[q].review].manifest # Gone
             /\ opinion[order[q].review] = "approve"
             /\ payload[order[q].review].head = ran[q]
  BY <1>2 DEF HandOverInv, QASound, Approved
<1>3. QED
  BY <1>1, <1>2 DEF HandOverInv, OnlyApprovedRuns

\* QA runs only commits that the review it names has approved, and an approval is
\* of one job's commit, branch and evidence: for any number of jobs, any mixture of
\* payloads, any move of branches and any kill, if no more than one file of a sealed
\* directory is ever changed.
THEOREM OnlyApproved ==
  ASSUME MaxChanges <= 1
  PROVE  HandOverSpec => []OnlyApprovedRuns
<1>1. HandOverInv /\ [HandOverNext]_handOverVars => HandOverInv'
  BY HandOverKept
<1>2. QED
  BY <1>1, HandOverStarts, InvIsEnough, PTL DEF HandOverSpec
----------------------------------------------------------------------------
\* Why nothing intact is turned down.  While no file has been changed, a file is
\* the one that its stage wrote or is not there; the directory of a candidate fills
\* up in the order in which its worker writes it.
Fresh(c) == work[c] \in {"sealed", "kept"} /\ c \notin moved

CandidateClean(c) ==
    LET d == evidence[c]
    IN  /\ d.manifest \in {Gone, c} /\ d.evidence \in {Gone, c}
        /\ work[c] \in Unsealed => d.manifest = Gone
        /\ work[c] \notin Left => c \notin extra
        /\ work[c] \in {"begun", "committed", "writing", "sealed", "kept"} => d.other = c
        /\ work[c] \in {"committed", "writing", "sealed", "kept"} /\ c \notin moved => tip[c] = c
        /\ work[c] \in {"writing", "sealed", "kept"} => d.evidence = c
        /\ work[c] \in {"sealed", "kept"} => d.manifest = c

BundleClean(r) ==
    LET d == bundle[r]
    IN  /\ d.manifest \in {Gone, r} /\ d.evidence \in {Gone, r} /\ r \notin extra
        /\ d.manifest # Gone => reviewing[r] = "done"
        /\ reviewing[r] \in {"seal", "done"} =>
              d.evidence = r /\ (opinion[r] # "reject" => d.other = r)

\* A candidate is sealed before a review can name its digest, so that one which
\* was turned down does not become fresh afterwards.
ReviewClean(r) ==
    LET p == payload[r]
        d == evidence[p.dir]
    IN  /\ reviewing[r] = "absent" => opinion[r] = "none"
        /\ reviewing[r] # "absent" => p.evidence \in Candidate /\ work[p.evidence] \notin Unsealed
        /\ reviewing[r] \in {"load", "files", "git"} =>
              p.evidence = p.dir /\ d.manifest = p.dir /\ d.evidence = p.dir
        /\ reviewing[r] \in {"files", "git"} => seen[r] = [manifest |-> p.dir, evidence |-> p.dir]
        /\ reviewing[r] = "model" \/ opinion[r] = "approve" =>
              p.head = p.job /\ p.branch = p.job /\ p.evidence = p.job
        /\ opinion[r] = "reject" /\ p = ForCandidate(p.job) => ~Fresh(p.job)

QAClean(q) ==
    LET p == order[q]
        r == p.review
    IN  /\ testing[q] # "absent" => p.evidence \in ReviewJob /\ bundle[p.evidence].manifest # Gone
        /\ p = ForReview(r) /\ opinion[r] = "approve" /\ Fresh(payload[r].job) =>
              /\ testing[q] # "rejected"
              /\ testing[q] = "files" => loaded[q] = [manifest |-> r, evidence |-> r]

Clean ==
    /\ \A c \in Candidate : CandidateClean(c)
    /\ \A r \in ReviewJob : BundleClean(r) /\ ReviewClean(r)
    /\ \A q \in QAJob : QAClean(q)

CleanInv == HandOverTypeOK /\ (changes = 0 => Clean)

\* What no step undoes while no file is changed: what was sealed stays as it is, a
\* candidate that is not fresh does not become so, and a sealed review stands.
Settles ==
    /\ \A c \in Candidate : work[c] \notin Unsealed =>
          /\ work'[c] \notin Unsealed /\ evidence'[c] = evidence[c]
          /\ Fresh(c)' => Fresh(c)
    /\ \A r \in ReviewJob : bundle[r].manifest # Gone =>
          /\ bundle'[r].manifest # Gone
          /\ payload'[r] = payload[r] /\ opinion'[r] = opinion[r]

LEMMA CleanStarts == HandOverInit => CleanInv
<1> SUFFICES ASSUME HandOverInit PROVE CleanInv
  OBVIOUS
<1>1. HandOverTypeOK
  BY HandOverStarts DEF HandOverInv
<1>2. ASSUME NEW c \in Candidate PROVE CandidateClean(c)
  BY DEF HandOverInit, CandidateClean, Empty, Unsealed
<1>3. ASSUME NEW r \in ReviewJob PROVE BundleClean(r) /\ ReviewClean(r)
  BY DEF HandOverInit, BundleClean, ReviewClean, Empty
<1>4. ASSUME NEW q \in QAJob PROVE QAClean(q)
  BY DEF HandOverInit, QAClean
<1>5. QED
  BY <1>1, <1>2, <1>3, <1>4 DEF CleanInv, Clean

\* The steps of others leave a review clean.
LEMMA ReviewStaysClean ==
  ASSUME CleanInv, changes = 0, Settles, NEW r \in ReviewJob,
         payload'[r] = payload[r], reviewing'[r] = reviewing[r],
         seen'[r] = seen[r], opinion'[r] = opinion[r]
  PROVE  ReviewClean(r)'
<1> DEFINE p == payload[r]
<1>1. ReviewClean(r) /\ p \in ReviewPayload /\ p.dir \in Candidate /\ p.job \in Candidate
  BY DEF CleanInv, Clean, HandOverTypeOK, ReviewPayload
<1>2. reviewing[r] # "absent" => p.evidence \in Candidate /\ work'[p.evidence] \notin Unsealed
  BY <1>1 DEF ReviewClean, Settles
<1>3. reviewing[r] \in {"load", "files", "git"} => evidence'[p.dir] = evidence[p.dir]
  BY <1>1 DEF ReviewClean, Settles
<1>4. ASSUME opinion[r] = "reject", p = ForCandidate(p.job) PROVE ~Fresh(p.job)'
  <2>1. p.evidence = p.job
    BY <1>4 DEF ForCandidate
  <2>2. work[p.job] \notin Unsealed
    BY <1>1, <1>4, <2>1 DEF ReviewClean
  <2>3. QED
    BY <1>1, <1>4, <2>2 DEF ReviewClean, Settles
<1>5. p' = p
  OBVIOUS
<1>6. QED
  BY <1>1, <1>2, <1>3, <1>4, <1>5 DEF ReviewClean, ForCandidate

\* And a QA job.
LEMMA QAStaysClean ==
  ASSUME CleanInv, changes = 0, Settles, NEW q \in QAJob,
         order'[q] = order[q], testing'[q] = testing[q], loaded'[q] = loaded[q]
  PROVE  QAClean(q)'
<1> DEFINE p == order[q]
           r == p.review
<1>1. QAClean(q) /\ p \in QAPayload /\ r \in ReviewJob
  BY DEF CleanInv, Clean, HandOverTypeOK, QAPayload
<1>2. testing[q] # "absent" => p.evidence \in ReviewJob /\ bundle'[p.evidence].manifest # Gone
  BY <1>1 DEF QAClean, Settles
<1>3. ASSUME testing[q] # "absent", p = ForReview(r)', opinion'[r] = "approve", Fresh(payload[r].job)'
      PROVE  p = ForReview(r) /\ opinion[r] = "approve" /\ Fresh(payload[r].job)
  <2>1. p.evidence = r
    BY <1>3 DEF ForReview
  <2>2. payload'[r] = payload[r] /\ opinion'[r] = opinion[r]
    BY <1>1, <1>3, <2>1 DEF QAClean, Settles
  <2>3. ReviewClean(r) /\ payload[r].job \in Candidate
    BY <1>1 DEF CleanInv, Clean, HandOverTypeOK, ReviewPayload
  <2>4. work[payload[r].job] \notin Unsealed
    BY <1>3, <2>2, <2>3 DEF ReviewClean
  <2>5. Fresh(payload[r].job)' => Fresh(payload[r].job)
    BY <2>2, <2>3, <2>4 DEF Settles, Fresh
  <2>6. QED
    BY <1>3, <2>2, <2>5 DEF ForReview
<1>4. p' = p /\ r' = r
  OBVIOUS
<1>5. QED
  BY <1>1, <1>2, <1>3, <1>4 DEF QAClean, Fresh

\* A worker's own steps: it seals what it has written, and what it leaves is never
\* handed over.
LEMMA WorkClean ==
  ASSUME CleanInv, changes = 0, NEW c \in Candidate, WorkActs(c)
  PROVE  Clean'
<1>1. /\ UNCHANGED <<payload, reviewing, seen, opinion, bundle, order, testing, loaded, moved>>
      /\ \A x \in Candidate \ {c} : /\ work'[x] = work[x] /\ evidence'[x] = evidence[x]
                                    /\ tip'[x] = tip[x]
      /\ extra \subseteq extra' /\ extra' \subseteq extra \cup {c}
  BY DEF CleanInv, HandOverTypeOK, WorkActs, Work, SealWork, KeepWork, LeaveWork, reviewVars, qaVars
<1>2. /\ work[c] \in Unfinished \cup Left \cup {"absent", "kept"}
      /\ evidence[c] \in Directory(Candidate) /\ CandidateClean(c)
  BY DEF CleanInv, HandOverTypeOK, Clean
<1>3. \/ /\ work[c] \in {"absent", "begun", "committed", "writing"} /\ extra' = extra
         /\ \/ work[c] = "absent" /\ work'[c] = "begun" /\ tip'[c] = tip[c]
               /\ evidence'[c] = [evidence[c] EXCEPT !.other = c]
            \/ work[c] = "begun" /\ work'[c] = "committed" /\ tip'[c] = c
               /\ evidence'[c] = evidence[c]
            \/ work[c] = "committed" /\ work'[c] = "writing" /\ tip'[c] = tip[c]
               /\ evidence'[c] = [evidence[c] EXCEPT !.evidence = c]
            \/ work[c] = "writing" /\ work'[c] = "sealed" /\ tip'[c] = tip[c]
               /\ evidence'[c] = [evidence[c] EXCEPT !.manifest = c]
      \/ /\ work[c] = "sealed" /\ work'[c] = "kept" /\ extra' = extra
         /\ evidence'[c] = evidence[c] /\ tip'[c] = tip[c]
      \/ /\ work'[c] \in Left /\ evidence'[c] = evidence[c]
  BY DEF CleanInv, HandOverTypeOK, WorkActs, Work, SealWork, KeepWork, LeaveWork, Left
<1>4. CandidateClean(c)'
  BY <1>1, <1>2, <1>3 DEF CandidateClean, Unsealed, Left, Unfinished, Directory
<1>5. ASSUME NEW x \in Candidate \ {c} PROVE CandidateClean(x)'
  <2>1. CandidateClean(x)
    BY DEF CleanInv, Clean
  <2>2. QED
    BY <1>1, <2>1 DEF CandidateClean
<1>6. Settles
  <2>1. work[c] \notin Unsealed =>
          /\ work'[c] \notin Unsealed /\ evidence'[c] = evidence[c]
          /\ Fresh(c)' => Fresh(c)
    BY <1>1, <1>3 DEF Unsealed, Left, Fresh
  <2>2. \A x \in Candidate \ {c} : Fresh(x)' <=> Fresh(x)
    BY <1>1 DEF Fresh
  <2>3. QED
    BY <1>1, <2>1, <2>2 DEF Settles
<1>7. ASSUME NEW r \in ReviewJob PROVE BundleClean(r)' /\ ReviewClean(r)'
  <2>1. ReviewClean(r)'
    BY <1>1, <1>6, ReviewStaysClean
  <2>2. BundleClean(r) /\ r # c
    BY HandOverAssumption DEF CleanInv, Clean
  <2>3. BundleClean(r)'
    BY <1>1, <2>2 DEF BundleClean
  <2>4. QED
    BY <2>1, <2>3
<1>8. ASSUME NEW q \in QAJob PROVE QAClean(q)'
  BY <1>1, <1>6, QAStaysClean
<1>9. QED
  BY <1>4, <1>5, <1>7, <1>8 DEF Clean

\* Somebody moves a branch: the candidate is not fresh any more.
LEMMA MoveClean ==
  ASSUME CleanInv, changes = 0, MoveBranch
  PROVE  Clean'
<1>1. UNCHANGED <<work, evidence, payload, reviewing, seen, opinion, bundle, order, testing, loaded, extra>>
  BY DEF MoveBranch, workVars, reviewVars, qaVars
<1>2. moved \subseteq moved' /\ \A c \in Candidate \ moved' : tip'[c] = tip[c]
  BY DEF MoveBranch, CleanInv, HandOverTypeOK
<1>3. Settles
  BY <1>1, <1>2 DEF Settles, Fresh
<1>4. ASSUME NEW c \in Candidate PROVE CandidateClean(c)'
  <2>1. CandidateClean(c)
    BY DEF CleanInv, Clean
  <2>2. QED
    BY <1>1, <1>2, <2>1 DEF CandidateClean
<1>5. ASSUME NEW r \in ReviewJob PROVE BundleClean(r)' /\ ReviewClean(r)'
  <2>1. BundleClean(r)
    BY DEF CleanInv, Clean
  <2>2. BundleClean(r)'
    BY <1>1, <2>1 DEF BundleClean
  <2>3. QED
    BY <1>1, <1>3, <2>2, ReviewStaysClean
<1>6. ASSUME NEW q \in QAJob PROVE QAClean(q)'
  BY <1>1, <1>3, QAStaysClean
<1>7. QED
  BY <1>4, <1>5, <1>6 DEF Clean

\* The coordinator's own steps.
LEMMA QAActsClean ==
  ASSUME CleanInv, changes = 0, NEW q \in QAJob, QAActs(q)
  PROVE  Clean'
<1>1. /\ UNCHANGED <<work, evidence, tip, payload, reviewing, seen, opinion, bundle, extra, moved>>
      /\ \A x \in QAJob \ {q} : /\ order'[x] = order[x] /\ testing'[x] = testing[x]
                                /\ loaded'[x] = loaded[x]
  BY DEF CleanInv, HandOverTypeOK, QAActs, LaunchQA, CheckQAAnchors, LoadReview, CheckReviewFiles,
         CheckQACandidate, CloneHead, RunHead, LeaveQA, QAStep, workVars, reviewVars
<1>2. Settles
  BY <1>1 DEF Settles, Fresh
<1>3. ASSUME NEW c \in Candidate PROVE CandidateClean(c)'
  <2>1. CandidateClean(c)
    BY DEF CleanInv, Clean
  <2>2. QED
    BY <1>1, <2>1 DEF CandidateClean
<1>4. ASSUME NEW r \in ReviewJob PROVE BundleClean(r)' /\ ReviewClean(r)'
  <2>1. BundleClean(r)
    BY DEF CleanInv, Clean
  <2>2. BundleClean(r)'
    BY <1>1, <2>1 DEF BundleClean
  <2>3. QED
    BY <1>1, <1>2, <2>2, ReviewStaysClean
<1>5. ASSUME NEW x \in QAJob \ {q} PROVE QAClean(x)'
  BY <1>1, <1>2, QAStaysClean
<1>6. QAClean(q)'
  <2> DEFINE p == order[q]
             r == p.review
             d == bundle[p.dir]
             Right == p = ForReview(r) /\ opinion[r] = "approve" /\ Fresh(payload[r].job)
  <2>1. QAClean(q) /\ p \in QAPayload /\ r \in ReviewJob /\ p.dir \in ReviewJob
    BY DEF CleanInv, Clean, HandOverTypeOK, QAPayload
  <2>2. BundleClean(r) /\ ReviewClean(r) /\ CandidateClean(payload[r].job)
    <3>1. payload[r].job \in Candidate
      BY <2>1 DEF CleanInv, HandOverTypeOK, ReviewPayload
    <3>2. QED
      BY <2>1, <3>1 DEF CleanInv, Clean
  <2>3. Gone \notin ReviewJob /\ Altered \notin ReviewJob
    BY HandOverAssumption DEF Gone, Altered
  \* What the checks find when nothing was mixed up.
  <2>4. ASSUME Right, testing[q] # "absent"
        PROVE  /\ p.dir = r /\ p.manifest = r /\ p.evidence = r
               /\ d.manifest = r /\ d.evidence = r /\ d.other = r
               /\ r \notin extra /\ tip[p.branch] = p.head
               /\ p.head = payload[r].head /\ p.branch = payload[r].branch
               /\ Fits(p, d) = {TRUE}
    <3>1. p.dir = r /\ p.manifest = r /\ p.evidence = r
          /\ p.head = payload[r].head /\ p.branch = payload[r].branch /\ p.ample
      BY <2>4 DEF ForReview
    <3>2. bundle[r].manifest # Gone
      BY <2>1, <2>4, <3>1 DEF QAClean
    <3>3. d.manifest = r /\ d.evidence = r /\ d.other = r /\ r \notin extra
      BY <2>2, <2>4, <3>1, <3>2 DEF BundleClean
    <3>4. p.head = payload[r].job /\ p.branch = payload[r].job
      BY <2>2, <2>4, <3>1 DEF ReviewClean
    <3>5. tip[p.branch] = p.head
      BY <2>2, <2>4, <3>4 DEF CandidateClean, Fresh
    <3>6. Fits(p, d) = {TRUE}
      BY <2>1, <2>3, <3>1, <3>3 DEF Fits
    <3>7. QED
      BY <3>1, <3>3, <3>5, <3>6
  <2>5. CASE LaunchQA(q)
    <3>1. testing'[q] = "anchors"
      BY <2>5 DEF CleanInv, HandOverTypeOK, LaunchQA
    <3>2. PICK o \in QAPayload : order' = [order EXCEPT ![q] = o] /\ Known(o.evidence, bundle)
      BY <2>5 DEF LaunchQA
    <3>3. o.evidence \in ReviewJob /\ bundle[o.evidence].manifest # Gone
      BY <3>2 DEF Known, QAPayload, Digest
    <3>4. order'[q] = o
      BY <3>2 DEF CleanInv, HandOverTypeOK
    <3>5. QED
      BY <1>1, <3>1, <3>3, <3>4 DEF QAClean
  <2>6. ASSUME order' = order, testing[q] # "absent",
               Right => testing'[q] # "rejected",
               Right /\ testing'[q] = "files" => loaded'[q] = [manifest |-> r, evidence |-> r]
        PROVE  QAClean(q)'
    <3>1. ForReview(r)' = ForReview(r) /\ (Fresh(payload[r].job)' <=> Fresh(payload[r].job))
      BY <1>1, <2>6 DEF ForReview, Fresh
    <3>2. QED
      BY <1>1, <2>1, <2>6, <3>1 DEF QAClean
  <2>7. CASE CheckQAAnchors(q)
    <3>1. testing[q] = "anchors" /\ order' = order /\ loaded' = loaded
      BY <2>7 DEF CheckQAAnchors, QAStep
    <3>2. PICK fit \in Fits(p, d) :
            IF fit /\ d.manifest = p.manifest /\ d.evidence = p.evidence
            THEN QAStep(q, "anchors", "load") ELSE QAStep(q, "anchors", "rejected")
      BY <2>7 DEF CheckQAAnchors
    <3>3. ASSUME Right PROVE fit /\ d.manifest = p.manifest /\ d.evidence = p.evidence
      <4>1. Fits(p, d) = {TRUE} /\ d.manifest = p.manifest /\ d.evidence = p.evidence
        BY <2>4, <3>1, <3>3
      <4>2. QED
        BY <3>2, <4>1
    <3>4. testing'[q] # "files" /\ (Right => testing'[q] # "rejected")
      BY <3>2, <3>3 DEF QAStep, CleanInv, HandOverTypeOK
    <3>5. QED
      BY <2>6, <3>1, <3>4
  <2>8. CASE LoadReview(q)
    <3>1. testing[q] = "load" /\ testing'[q] = "files" /\ order' = order
          /\ loaded'[q] = [manifest |-> d.manifest, evidence |-> d.evidence]
      BY <2>8 DEF LoadReview, QAStep, CleanInv, HandOverTypeOK
    <3>2. QED
      BY <2>4, <2>6, <3>1
  <2>9. CASE CheckReviewFiles(q)
    <3>1. PICK listed \in Lists(loaded[q].manifest, d, p.dir),
               approved \in Approves(p, d, loaded[q].evidence), fit \in Fits(p, d) :
            IF listed /\ approved /\ fit
            THEN QAStep(q, "files", "git") ELSE QAStep(q, "files", "rejected")
      BY <2>9 DEF CheckReviewFiles
    <3>2. testing[q] = "files" /\ order' = order /\ testing'[q] # "files"
      BY <2>9 DEF CheckReviewFiles, QAStep, CleanInv, HandOverTypeOK
    <3>3. ASSUME Right PROVE listed /\ approved /\ fit
      <4>1. loaded[q].manifest = r /\ loaded[q].evidence = r
        BY <2>1, <3>2, <3>3 DEF QAClean
      <4>2. listed
        BY <2>3, <2>1, <2>4, <3>1, <3>2, <3>3, <4>1 DEF Lists
      <4>3. approved
        BY <2>3, <2>1, <2>4, <3>1, <3>2, <3>3, <4>1 DEF Approves
      <4>4. fit
        <5>1. Fits(p, d) = {TRUE}
          BY <2>4, <3>2, <3>3
        <5>2. QED
          BY <3>1, <5>1
      <4>5. QED
        BY <4>2, <4>3, <4>4
    <3>4. Right => testing'[q] # "rejected"
      BY <3>1, <3>3 DEF QAStep, CleanInv, HandOverTypeOK
    <3>5. QED
      BY <2>6, <3>2, <3>4
  <2>10. CASE CheckQACandidate(q)
    <3>1. testing[q] = "git" /\ order' = order /\ testing'[q] # "files"
          /\ (tip[p.branch] = p.head => testing'[q] # "rejected")
      BY <2>10 DEF CheckQACandidate, QAStep, CleanInv, HandOverTypeOK
    <3>2. QED
      BY <2>4, <2>6, <3>1
  <2>11. CASE CloneHead(q) \/ RunHead(q) \/ LeaveQA(q)
    <3>1. testing[q] # "absent" /\ order' = order /\ testing'[q] \notin {"files", "rejected"}
      BY <2>11 DEF CloneHead, RunHead, LeaveQA, QAStep, CleanInv, HandOverTypeOK, Testing, Reading
    <3>2. QED
      BY <2>6, <3>1
  <2>12. QED
    BY <2>5, <2>7, <2>8, <2>9, <2>10, <2>11 DEF QAActs
<1>7. QED
  BY <1>3, <1>4, <1>5, <1>6 DEF Clean

\* The reviewer's own steps.
LEMMA ReviewActsClean ==
  ASSUME CleanInv, changes = 0, NEW r \in ReviewJob, ReviewActs(r)
  PROVE  Clean'
<1> DEFINE p == payload[r]
           d == evidence[p.dir]
<1>1. /\ UNCHANGED <<work, evidence, tip, order, testing, loaded, extra, moved>>
      /\ \A x \in ReviewJob \ {r} :
            /\ payload'[x] = payload[x] /\ reviewing'[x] = reviewing[x]
            /\ seen'[x] = seen[x] /\ opinion'[x] = opinion[x] /\ bundle'[x] = bundle[x]
  BY DEF CleanInv, HandOverTypeOK, ReviewActs, LaunchReview, CheckReviewAnchors, LoadEvidence,
         CheckEvidenceFiles, CheckCandidateCommit, JudgeCandidate, WriteReview, SealReview,
         LeaveReview, ReviewStep, RejectCandidate, workVars, qaVars
<1>2. /\ BundleClean(r) /\ ReviewClean(r) /\ p \in ReviewPayload
      /\ p.dir \in Candidate /\ p.job \in Candidate /\ CandidateClean(p.dir)
  BY DEF CleanInv, Clean, HandOverTypeOK, ReviewPayload
<1>3. Gone # Altered /\ Gone \notin Candidate /\ Altered \notin Candidate
  BY HandOverAssumption DEF Gone, Altered
<1>4. reviewing[r] # "done"
  BY DEF ReviewActs, LaunchReview, CheckReviewAnchors, LoadEvidence,
         CheckEvidenceFiles, CheckCandidateCommit, JudgeCandidate, WriteReview, SealReview,
         LeaveReview, ReviewStep, RejectCandidate, Reviewing, Reading
<1>5. Settles
  BY <1>1, <1>2, <1>4 DEF Settles, Fresh, BundleClean
<1>6. ASSUME NEW c \in Candidate PROVE CandidateClean(c)'
  <2>1. CandidateClean(c)
    BY DEF CleanInv, Clean
  <2>2. QED
    BY <1>1, <2>1 DEF CandidateClean
<1>7. ASSUME NEW q \in QAJob PROVE QAClean(q)'
  BY <1>1, <1>5, QAStaysClean
<1>8. ASSUME NEW x \in ReviewJob \ {r} PROVE BundleClean(x)' /\ ReviewClean(x)'
  <2>1. BundleClean(x)
    BY DEF CleanInv, Clean
  <2>2. BundleClean(x)'
    BY <1>1, <2>1 DEF BundleClean
  <2>3. QED
    BY <1>1, <1>5, <2>2, ReviewStaysClean
<1>9. BundleClean(r)'
  <2>1. bundle[r] \in Directory(ReviewJob)
    BY DEF CleanInv, HandOverTypeOK
  <2>2. \/ bundle'[r] = bundle[r] /\ reviewing'[r] \notin {"seal", "done"}
        \/ /\ reviewing'[r] = "seal" /\ opinion'[r] = opinion[r]
           /\ bundle'[r] = [bundle[r] EXCEPT !.evidence = r,
                                             !.other = IF opinion[r] = "reject" THEN Gone ELSE r]
        \/ /\ reviewing[r] = "seal" /\ reviewing'[r] = "done" /\ opinion'[r] = opinion[r]
           /\ bundle'[r] = [bundle[r] EXCEPT !.manifest = r]
    BY DEF CleanInv, HandOverTypeOK, ReviewActs, LaunchReview, CheckReviewAnchors, LoadEvidence,
           CheckEvidenceFiles, CheckCandidateCommit, JudgeCandidate, WriteReview, SealReview,
           LeaveReview, ReviewStep, RejectCandidate
  <2>3. QED
    BY <1>1, <1>2, <1>4, <2>1, <2>2 DEF BundleClean, Directory
<1>10. ReviewClean(r)'
  <2>1. reviewing[r] # "absent" => payload' = payload
    BY DEF ReviewActs, LaunchReview, CheckReviewAnchors, LoadEvidence, CheckEvidenceFiles,
           CheckCandidateCommit, JudgeCandidate, WriteReview, SealReview, LeaveReview
  \* What the checks find when nothing was mixed up.
  <2>2. ASSUME p = ForCandidate(p.job), Fresh(p.job)
        PROVE  /\ p.manifest = p.dir /\ p.evidence = p.dir
               /\ p.head = p.dir /\ p.branch = p.dir /\ p.job = p.dir
               /\ d.manifest = p.dir /\ d.evidence = p.dir /\ d.other = p.dir
               /\ p.dir \notin extra /\ tip[p.dir] = p.dir /\ p.allowed
    <3>1. /\ p.manifest = p.dir /\ p.evidence = p.dir
          /\ p.head = p.dir /\ p.branch = p.dir /\ p.job = p.dir /\ p.allowed
      BY <2>2 DEF ForCandidate
    <3>2. QED
      BY <1>2, <2>2, <3>1 DEF CandidateClean, Fresh, Left
  <2>3. ASSUME NEW from, from # "absent", RejectCandidate(r, from),
               ~(p = ForCandidate(p.job) /\ Fresh(p.job))
        PROVE  ReviewClean(r)'
    <3>1. /\ reviewing[r] # "absent" /\ reviewing'[r] = "write" /\ opinion'[r] = "reject"
      BY <2>3 DEF RejectCandidate, ReviewStep, CleanInv, HandOverTypeOK
    <3>2. QED
      BY <1>1, <1>2, <2>1, <2>3, <3>1 DEF ReviewClean, Fresh, ForCandidate
  <2>4. CASE LaunchReview(r)
    <3>1. reviewing[r] = "absent" /\ reviewing'[r] = "anchors" /\ opinion'[r] = "none"
      BY <1>2, <2>4 DEF LaunchReview, CleanInv, HandOverTypeOK, ReviewClean
    <3>2. PICK o \in ReviewPayload : payload' = [payload EXCEPT ![r] = o] /\ Known(o.evidence, evidence)
      BY <2>4 DEF LaunchReview
    <3>3. o.evidence \in Candidate /\ evidence[o.evidence].manifest # Gone
      BY <3>2 DEF Known, ReviewPayload, Digest
    <3>4. work[o.evidence] \notin Unsealed
      BY <3>3 DEF CleanInv, Clean, CandidateClean
    <3>5. payload'[r] = o
      BY <3>2 DEF CleanInv, HandOverTypeOK
    <3>6. QED
      BY <1>1, <3>1, <3>3, <3>4, <3>5 DEF ReviewClean
  <2>5. CASE CheckReviewAnchors(r)
    <3>1. CASE d.manifest = p.manifest /\ d.evidence = p.evidence
      <4>1. reviewing[r] = "anchors" /\ reviewing'[r] = "load" /\ UNCHANGED opinion
        BY <2>5, <3>1 DEF CheckReviewAnchors, ReviewStep, CleanInv, HandOverTypeOK
      <4>2. p.manifest # Gone /\ p.evidence # Gone
        BY <1>2, <1>3 DEF ReviewPayload, Digest
      <4>3. d.evidence = p.dir /\ d.manifest = p.dir
        BY <1>2, <3>1, <4>2 DEF CandidateClean
      <4>4. QED
        BY <1>1, <1>2, <2>1, <3>1, <4>1, <4>3 DEF ReviewClean, Fresh, ForCandidate
    <3>2. CASE ~(d.manifest = p.manifest /\ d.evidence = p.evidence)
      BY <2>2, <2>3, <2>5, <3>2 DEF CheckReviewAnchors
    <3>3. QED
      BY <3>1, <3>2
  <2>6. CASE LoadEvidence(r)
    <3>1. /\ reviewing[r] = "load" /\ reviewing'[r] = "files" /\ UNCHANGED opinion
          /\ seen'[r] = [manifest |-> d.manifest, evidence |-> d.evidence]
      BY <2>6 DEF LoadEvidence, ReviewStep, CleanInv, HandOverTypeOK
    <3>2. QED
      BY <1>1, <1>2, <2>1, <3>1 DEF ReviewClean, Fresh, ForCandidate
  <2>7. CASE CheckEvidenceFiles(r)
    <3>1. PICK listed \in Lists(seen[r].manifest, d, p.dir) :
            IF listed THEN ReviewStep(r, "files", "git") /\ UNCHANGED <<seen, opinion>>
                      ELSE RejectCandidate(r, "files")
      BY <2>7 DEF CheckEvidenceFiles
    <3>2. reviewing[r] = "files" /\ seen[r] = [manifest |-> p.dir, evidence |-> p.dir]
      BY <1>2, <3>1 DEF ReviewStep, RejectCandidate, ReviewClean
    <3>3. CASE listed
      <4>1. reviewing'[r] = "git" /\ UNCHANGED <<seen, opinion>>
        BY <3>1, <3>3 DEF ReviewStep, CleanInv, HandOverTypeOK
      <4>2. QED
        BY <1>1, <1>2, <2>1, <3>2, <4>1 DEF ReviewClean, Fresh, ForCandidate
    <3>4. CASE ~listed
      <4>1. ~(p.dir = d.evidence /\ p.dir = d.other /\ p.dir \notin extra)
        <5>1. seen[r].manifest = p.dir /\ p.dir # Altered
          BY <1>2, <1>3, <3>2
        <5>2. Lists(seen[r].manifest, d, p.dir) = {p.dir = d.evidence /\ p.dir = d.other /\ p.dir \notin extra}
          BY <5>1 DEF Lists
        <5>3. QED
          BY <3>1, <3>4, <5>2
      <4>2. QED
        BY <2>2, <2>3, <3>1, <3>4, <4>1
    <3>5. QED
      BY <3>3, <3>4
  <2>8. CASE CheckCandidateCommit(r)
    <3>1. PICK claimed \in Claims(p, seen[r].evidence) :
            IF tip[p.branch] = p.head /\ claimed /\ p.allowed
            THEN ReviewStep(r, "git", "model") /\ UNCHANGED <<seen, opinion>>
            ELSE RejectCandidate(r, "git")
      BY <2>8 DEF CheckCandidateCommit
    <3>2. /\ reviewing[r] = "git" /\ p.evidence = p.dir
          /\ seen[r] = [manifest |-> p.dir, evidence |-> p.dir]
      BY <1>2, <3>1 DEF ReviewStep, RejectCandidate, ReviewClean
    <3>3. claimed <=> (p.head = p.dir /\ p.branch = p.dir /\ p.job = p.dir)
      <4>1. seen[r].evidence = p.dir /\ p.dir # Altered
        BY <1>2, <1>3, <3>2
      <4>2. Claims(p, seen[r].evidence) = {p.head = p.dir /\ p.branch = p.dir /\ p.job = p.dir}
        BY <4>1 DEF Claims
      <4>3. QED
        BY <3>1, <4>2
    <3>4. CASE tip[p.branch] = p.head /\ claimed /\ p.allowed
      <4>1. reviewing'[r] = "model" /\ UNCHANGED <<seen, opinion>>
        BY <3>1, <3>4 DEF ReviewStep, CleanInv, HandOverTypeOK
      <4>2. QED
        BY <1>1, <1>2, <2>1, <3>2, <3>3, <3>4, <4>1 DEF ReviewClean, Fresh, ForCandidate
    <3>5. CASE ~(tip[p.branch] = p.head /\ claimed /\ p.allowed)
      <4>1. ~(p = ForCandidate(p.job) /\ Fresh(p.job))
        BY <2>2, <3>3, <3>5
      <4>2. QED
        BY <2>3, <3>1, <3>5, <4>1
    <3>6. QED
      BY <3>4, <3>5
  <2>9. CASE JudgeCandidate(r)
    <3>1. /\ reviewing[r] = "model" /\ reviewing'[r] = "write"
          /\ opinion'[r] \in {"approve", "changes_required"}
      BY <2>9 DEF JudgeCandidate, ReviewStep, CleanInv, HandOverTypeOK
    <3>2. QED
      BY <1>1, <1>2, <2>1, <3>1 DEF ReviewClean
  <2>10. CASE WriteReview(r) \/ SealReview(r) \/ LeaveReview(r)
    <3>1. /\ reviewing[r] # "absent" /\ reviewing'[r] \in {"seal", "done", "stopped", "anchors"}
          /\ opinion'[r] \in {opinion[r], "none"}
      BY <2>10 DEF WriteReview, SealReview, LeaveReview, ReviewStep, CleanInv, HandOverTypeOK,
                   Reviewing, Reading
    <3>2. QED
      BY <1>1, <1>2, <2>1, <3>1 DEF ReviewClean, Fresh, ForCandidate
  <2>11. QED
    BY <2>4, <2>5, <2>6, <2>7, <2>8, <2>9, <2>10 DEF ReviewActs
<1>11. QED
  BY <1>6, <1>7, <1>8, <1>9, <1>10 DEF Clean

LEMMA CleanKept ==
  ASSUME CleanInv, [HandOverNext]_handOverVars
  PROVE  CleanInv'
<1>1. CASE UNCHANGED handOverVars
  <2>1. HandOverTypeOK'
    BY <1>1 DEF CleanInv, HandOverTypeOK, handOverVars, workVars, reviewVars, qaVars
  <2>2. Clean => Clean'
    BY <1>1 DEF Clean, CandidateClean, BundleClean, ReviewClean, QAClean, Fresh, ForCandidate, ForReview,
                handOverVars, workVars, reviewVars, qaVars
  <2>3. QED
    BY <1>1, <2>1, <2>2 DEF CleanInv, handOverVars
<1>2. CASE ChangeFile
  <2>1. changes' # 0
    BY <1>2 DEF ChangeFile, CleanInv, HandOverTypeOK
  <2>2. QED
    BY <1>2, <2>1, MeddlingTyped DEF CleanInv
<1>3. CASE MoveBranch
  <2>1. changes' = changes
    BY <1>3 DEF MoveBranch
  <2>2. QED
    BY <1>3, <2>1, MoveClean, MeddlingTyped DEF CleanInv
<1>4. ASSUME NEW c \in Candidate, WorkActs(c) PROVE CleanInv'
  <2>1. changes' = changes
    BY <1>4 DEF WorkActs, Work, SealWork, KeepWork, LeaveWork
  <2>2. QED
    BY <1>4, <2>1, WorkClean, WorkTyped DEF CleanInv
<1>5. ASSUME NEW r \in ReviewJob, ReviewActs(r) PROVE CleanInv'
  <2>1. changes' = changes
    BY <1>5 DEF ReviewActs, LaunchReview, CheckReviewAnchors, LoadEvidence, CheckEvidenceFiles,
         CheckCandidateCommit, JudgeCandidate, WriteReview, SealReview, LeaveReview
  <2>2. QED
    BY <1>5, <2>1, ReviewActsClean, ReviewTyped DEF CleanInv
<1>6. ASSUME NEW q \in QAJob, QAActs(q) PROVE CleanInv'
  <2>1. changes' = changes
    BY <1>6 DEF QAActs, LaunchQA, CheckQAAnchors, LoadReview, CheckReviewFiles,
         CheckQACandidate, CloneHead, RunHead, LeaveQA
  <2>2. QED
    BY <1>6, <2>1, QAActsClean, QATyped DEF CleanInv
<1>7. QED
  BY <1>1, <1>2, <1>3, <1>4, <1>5, <1>6 DEF HandOverNext, WorkActs, ReviewActs, QAActs

LEMMA CleanIsEnough == CleanInv => RejectsHaveReasons
<1> SUFFICES ASSUME CleanInv PROVE RejectsHaveReasons
  OBVIOUS
<1>1. ASSUME NEW r \in ReviewJob, opinion[r] = "reject", Intact(payload[r].job),
             payload[r] = ForCandidate(payload[r].job)
      PROVE  FALSE
  BY <1>1 DEF CleanInv, Clean, ReviewClean, Intact, Fresh
<1>2. ASSUME NEW q \in QAJob, testing[q] = "rejected", Intact(payload[order[q].review].job),
             opinion[order[q].review] = "approve", order[q] = ForReview(order[q].review)
      PROVE  FALSE
  BY <1>2 DEF CleanInv, Clean, QAClean, Intact, Fresh
<1>3. QED
  BY <1>1, <1>2 DEF RejectsHaveReasons

\* What one stage leaves satisfies the next: a kept candidate and an approved review
\* are turned down only if a payload was mixed up, a file changed or a branch moved,
\* for any number of jobs, faults and changes, and whatever dies in between.
THEOREM RejectsEarned == HandOverSpec => []RejectsHaveReasons
<1>1. CleanInv /\ [HandOverNext]_handOverVars => CleanInv'
  BY CleanKept
<1>2. QED
  BY <1>1, CleanStarts, CleanIsEnough, PTL DEF HandOverSpec
=============================================================================
