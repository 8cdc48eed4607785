---------------------------- MODULE ReviewerProofs ----------------------------
(***************************************************************************)
(* Theorems about EngineeringReviewer, for any number of jobs, attempts    *)
(* and processes that run at once: the verdict in the ledger is the one on *)
(* disk, and an approval was earned by the attempt that completed the job. *)
(***************************************************************************)
EXTENDS EngineeringReviewer, JobLedgerProofs

USE LedgerAssumption

\* The calls under way, as main() sends them.
ReviewCall == [job : Job, attempt : Attempts, op : Waiting, arg : Verdict \cup {"none"}]
CallsTyped == /\ calls \subseteq ReviewCall
              /\ \A c \in calls : c.op = "complete" => c.arg \in Verdict

\* Where main() is once the bundle is its own, and where it may be afterwards.
HasBundle   == {"reported", "complete"}
AfterBundle == HasBundle \cup {"done", "raised", "dead"} \cup Handling

\* No process has started for a lease that was not issued.
Issued == \A w \in Worker : pc[w] # "absent" => w[2] <= lease_count[w[1]]

\* A bundle stays what its writer found, who has no more to find out.
BundleStands ==
    \A j \in Job : output[j] # None =>
        LET w == <<j, output[j].attempt>>
        IN  /\ output[j].verdict = VerdictOf(review[w])
            /\ pc[w] \in AfterBundle

\* Whoever is about to complete the job, or has sent the call, wrote the bundle.
WriterCompletes ==
    /\ \A w \in Worker : pc[w] \in HasBundle =>
          output[w[1]] # None /\ output[w[1]].attempt = w[2]
    /\ \A c \in calls : c.op = "complete" =>
          output[c.job] = [attempt |-> c.attempt, verdict |-> c.arg]

ReviewerInv == /\ CallsTyped
               /\ ReviewMatchesLedger
               /\ Issued
               /\ BundleStands
               /\ WriterCompletes
----------------------------------------------------------------------------
LEMMA CallParts ==
    ASSUME CallsTyped, NEW c \in calls
    PROVE  /\ c.job \in Job /\ c.attempt \in Attempts /\ c.op \in Waiting
           /\ Caller(c) \in Worker /\ Caller(c)[1] = c.job /\ Caller(c)[2] = c.attempt
BY DEF CallsTyped, ReviewCall, Caller, Worker

\* A bundle is never the record that stands for none.
LEMMA NoneIsNoBundle ==
    ASSUME NEW n \in Attempts, NEW d
    PROVE  [attempt |-> n, verdict |-> d] # None
<1>1. n # 0
  BY AttemptsArePositive
<1>2. [attempt |-> n, verdict |-> d].attempt # None.attempt
  BY <1>1 DEF None
<1> QED BY <1>2

LEMMA VerdictTyped ==
    ASSUME NEW r \in Finding
    PROVE  /\ VerdictOf(r) \in Verdict
           /\ VerdictOf(r) = "approve" => r.sound /\ ~ r.severe /\ r.mediums < MediumLimit
BY ReviewAssumption DEF Finding, VerdictOf, Verdict

\* Every step is one of the ledger or leaves the ledger alone.
LEMMA ReviewerStepIsLedgerStep ==
    ASSUME IInv, CallsTyped, [ReviewerNext]_reviewerVars
    PROVE  [Next]_vars
<1>1. CASE UNCHANGED reviewerVars
  BY <1>1 DEF reviewerVars
<1>2. ASSUME NEW w \in Worker, Launch(w) PROVE Next
  BY <1>2, WorkerParts DEF Launch, Next, AnyLease
<1>3. ASSUME NEW w \in Worker, Process(w) PROVE UNCHANGED vars
  BY <1>3 DEF Process, CheckAbsent, CallLedger, Request, Examine, WriteBundle, Raise, Reraise,
              Crash, GiveUp
<1>4. ASSUME NEW c \in calls, Serve(c) PROVE Next
  BY <1>4, CallParts, ExecutesIsAStep DEF Serve, Waiting
<1>5. ASSUME NEW c \in calls, Refuse(c) PROVE UNCHANGED vars
  BY <1>5 DEF Refuse
<1>6. CASE LedgerEnvironment
  BY <1>6, EnvironmentMoves
<1> QED BY <1>1, <1>2, <1>3, <1>4, <1>5, <1>6 DEF ReviewerNext, AnyLaunch, Database
----------------------------------------------------------------------------
(* The steps. *)

LEMMA HandlerLeads ==
    ASSUME NEW loc \in BeforeTry \cup InTry \cup Handling
    PROVE  \/ loc \in BeforeTry /\ Handler(loc) = "raised"
           \/ loc \in InTry     /\ Handler(loc) = "failing"
           \/ loc \in Handling  /\ Handler(loc) = "unwinding"
BY DEF Handler, BeforeTry, InTry, Handling

\* A step of one process that neither examines nor writes, and keeps no bundle of
\* another as its own.
Advances(w, loc) ==
    \/ pc[w] \in BeforeTry /\ loc \in BeforeTry \cup {"raised", "started", "dead"}
    \/ pc[w] \in InTry     /\ loc \in {"failing", "dead"}
    \/ pc[w] = "started"   /\ loc = "heartbeat"
    \/ pc[w] = "heartbeat" /\ loc = "verifying"
    \/ pc[w] = "reported"  /\ loc = "complete"
    \/ pc[w] = "complete"  /\ loc = "done"
    \/ pc[w] \in Handling  /\ loc \in Handling \cup {"raised", "dead"}

LEMMA MoveKeeps ==
    ASSUME IInv, ReviewerInv, [Next]_vars, UNCHANGED <<output, review, result>>,
           calls' \subseteq calls, lease_count' = lease_count,
           pc' = pc \/ \E w \in Worker : \E loc : Advances(w, loc) /\ Goto(w, loc)
    PROVE  ReviewerInv'
<1> USE DEF ReviewerInv
<1>0. pc \in [Worker -> {"absent"} \cup BeforeTry \cup InTry \cup Handling \cup Ended]
  BY DEF ReviewMatchesLedger, ReviewerTypeOK
<1>1. ASSUME NEW v \in Worker
      PROVE  /\ pc'[v] = pc[v] \/ Advances(v, pc'[v])
             /\ pc'[v] \in {"absent"} \cup BeforeTry \cup InTry \cup Handling \cup Ended
  <2>1. CASE pc' = pc
    BY <1>0, <2>1
  <2>2. ASSUME NEW w \in Worker, NEW loc, Advances(w, loc), Goto(w, loc)
        PROVE  /\ pc'[v] = pc[v] \/ Advances(v, pc'[v])
               /\ pc'[v] \in {"absent"} \cup BeforeTry \cup InTry \cup Handling \cup Ended
    <3>1. pc'[v] = IF v = w THEN loc ELSE pc[v]
      BY <1>0, <2>2 DEF Goto
    <3>2. loc \in {"absent"} \cup BeforeTry \cup InTry \cup Handling \cup Ended
      BY <2>2 DEF Advances, BeforeTry, InTry, Handling, Ended
    <3> QED BY <1>0, <2>2, <3>1, <3>2
  <2> QED BY <2>1, <2>2
<1>2. CallsTyped'
  BY DEF CallsTyped
<1>3. ReviewerTypeOK'
  <2>1. pc' = [v \in Worker |-> pc'[v]]
    BY <1>0 DEF Goto
  <2>2. pc' \in [Worker -> {"absent"} \cup BeforeTry \cup InTry \cup Handling \cup Ended]
    BY <1>1, <2>1
  <2> QED BY <2>2 DEF ReviewMatchesLedger, ReviewerTypeOK
<1>4. ReviewMatchesLedger'
  BY <1>3, LedgerKeeps DEF ReviewMatchesLedger
<1>5. Issued'
  <2>1. \A v \in Worker : pc'[v] # "absent" => pc[v] # "absent"
    BY <1>1 DEF Advances, BeforeTry, InTry, Handling
  <2> QED BY <2>1 DEF Issued
<1>6. BundleStands'
  <2>1. \A v \in Worker : pc[v] \in AfterBundle => pc'[v] \in AfterBundle
    BY <1>1 DEF Advances, AfterBundle, HasBundle, BeforeTry, InTry, Handling
  <2>2. \A j \in Job : output[j] # None => <<j, output[j].attempt>> \in Worker
    BY DEF ReviewMatchesLedger, ReviewerTypeOK, Worker
  <2> QED BY <2>1, <2>2 DEF BundleStands
<1>7. WriterCompletes'
  <2>1. \A v \in Worker : pc'[v] \in HasBundle => pc[v] \in HasBundle
    BY <1>1 DEF Advances, HasBundle, BeforeTry, InTry, Handling
  <2> QED BY <2>1 DEF WriterCompletes
<1> QED BY <1>2, <1>4, <1>5, <1>6, <1>7

\* The steps of a process that send nothing and write nothing.
LEMMA QuietKeeps ==
    ASSUME IInv, ReviewerInv, NEW w \in Worker,
           CheckAbsent(w) \/ Raise(w) \/ Reraise(w) \/ Crash(w) \/ GiveUp(w)
    PROVE  ReviewerInv'
<1>1. UNCHANGED <<vars, calls, output, review, result>>
  BY DEF CheckAbsent, Raise, Reraise, Crash, GiveUp
<1>2. PICK loc : Goto(w, loc) /\ Advances(w, loc)
  <2>1. CASE CheckAbsent(w)
    BY <2>1 DEF CheckAbsent, Advances, BeforeTry
  <2>2. CASE Raise(w) \/ GiveUp(w)
    BY <2>2, HandlerLeads
       DEF Raise, GiveUp, Advances, Waiting, BeforeTry, InTry, Handling
  <2>3. CASE Reraise(w)
    BY <2>3 DEF Reraise, Advances, Handling
  <2>4. CASE Crash(w)
    <3>1. pc[w] \in BeforeTry \cup InTry \cup Handling
      BY <2>4 DEF Crash, ReviewerInv, ReviewMatchesLedger, ReviewerTypeOK
    <3> QED BY <2>4, <3>1 DEF Crash, Advances
  <2> QED BY <2>1, <2>2, <2>3, <2>4
<1>3. lease_count' = lease_count
  BY <1>1 DEF vars, budget
<1> QED BY <1>1, <1>2, <1>3, MoveKeeps

\* A call is sent; a complete call carries the verdict of the bundle.
LEMMA RequestKeeps ==
    ASSUME IInv, ReviewerInv, NEW w \in Worker, CallLedger(w)
    PROVE  ReviewerInv'
<1> USE DEF ReviewerInv
<1>0. pc \in [Worker -> {"absent"} \cup BeforeTry \cup InTry \cup Handling \cup Ended]
  BY DEF ReviewMatchesLedger, ReviewerTypeOK
<1>1. PICK op \in Waiting, arg \in Verdict \cup {"none"} :
         /\ Request(w, op, arg)
         /\ UNCHANGED <<output, review, result>>
         /\ \/ pc[w] = "checked"  /\ op = "start"
            \/ pc[w] = "started"  /\ op = "heartbeat"
            \/ pc[w] = "reported" /\ op = "complete" /\ arg = output[w[1]].verdict
            \/ pc[w] = "failing"  /\ op = "fail"
         /\ op = "complete" => arg \in Verdict
  <2>1. pc[w] = "reported" => output[w[1]].verdict \in Verdict
    BY WorkerParts DEF WriterCompletes, HasBundle, ReviewMatchesLedger, ReviewerTypeOK
  <2> QED BY <2>1 DEF CallLedger, NextCall, Waiting
<1>2. /\ pc' = [pc EXCEPT ![w] = op]
      /\ calls' = calls \cup {[job |-> w[1], attempt |-> w[2], op |-> op, arg |-> arg]}
      /\ UNCHANGED <<vars, output, review, result>>
  BY <1>1 DEF Request, Goto, Call
<1>3. CallsTyped'
  BY <1>1, <1>2, WorkerParts DEF CallsTyped, ReviewCall
<1>4. ReviewerTypeOK'
  <2>1. \A c \in calls' : Caller(c) \in Worker /\ c.op \in Waiting
    BY <1>3 DEF CallsTyped, ReviewCall, Caller, Worker
  <2>2. pc' \in [Worker -> {"absent"} \cup BeforeTry \cup InTry \cup Handling \cup Ended]
    BY <1>0, <1>1, <1>2 DEF Waiting, BeforeTry, InTry, Handling
  <2> QED BY <1>2, <2>1, <2>2 DEF ReviewMatchesLedger, ReviewerTypeOK
<1>5. ReviewMatchesLedger'
  BY <1>2, <1>4 DEF ReviewMatchesLedger, vars, budget
<1>6. Issued'
  BY <1>0, <1>1, <1>2 DEF Issued, vars, budget
<1>7. BundleStands'
  BY <1>0, <1>1, <1>2 DEF BundleStands, AfterBundle, HasBundle, Handling
<1>8. WriterCompletes'
  <2>1. \A v \in Worker : pc'[v] \in HasBundle => pc[v] \in HasBundle
    BY <1>0, <1>1, <1>2 DEF HasBundle
  <2>2. op = "complete" => output[w[1]] = [attempt |-> w[2], verdict |-> arg]
    BY <1>1, WorkerParts
       DEF WriterCompletes, HasBundle, ReviewMatchesLedger, ReviewerTypeOK
  <2> QED BY <1>2, <2>1, <2>2 DEF WriterCompletes
<1> QED BY <1>3, <1>5, <1>6, <1>7, <1>8

\* A process starts with a lease that nobody had before.
LEMMA LaunchKeeps ==
    ASSUME IInv, ReviewerInv, NEW w \in Worker, Launch(w)
    PROVE  ReviewerInv'
<1> USE DEF ReviewerInv
<1>0. pc \in [Worker -> {"absent"} \cup BeforeTry \cup InTry \cup Handling \cup Ended]
  BY DEF ReviewMatchesLedger, ReviewerTypeOK
<1>1. PICK t \in LeaseTerms : LeaseNext(w[1], t)
  BY DEF Launch
<1>2. /\ lease_count' = [lease_count EXCEPT ![w[1]] = @ + 1]
      /\ w[2] = lease_count[w[1]] + 1
      /\ status' = [status EXCEPT ![w[1]] = "leased"]
      /\ status[w[1]] \in Leasable
      /\ UNCHANGED <<calls, output, review, result>>
      /\ pc' = [pc EXCEPT ![w] = "checks"]
  BY <1>1, WorkerParts DEF Launch, LeaseNext, Ready, Goto, IInv, TypeOK
<1>3. \A j \in Job : lease_count[j] \in Nat
  BY DEF IInv, TypeOK
<1>4. pc[w] = "absent"
  BY <1>2, <1>3, WorkerParts DEF Issued
<1>5. CallsTyped'
  BY <1>2 DEF CallsTyped
<1>6. ReviewMatchesLedger'
  <2>1. ReviewerTypeOK'
    BY <1>0, <1>2 DEF ReviewMatchesLedger, ReviewerTypeOK, BeforeTry
  <2>2. \A j \in Job : status[j] = "succeeded" =>
          status'[j] = "succeeded" /\ lease_count'[j] = lease_count[j]
    BY <1>2 DEF IInv, TypeOK, Leasable
  <2> QED BY <1>2, <2>1, <2>2 DEF ReviewMatchesLedger
<1>7. Issued'
  <2> SUFFICES ASSUME NEW v \in Worker, pc'[v] # "absent" PROVE v[2] <= lease_count'[v[1]]
    BY DEF Issued
  <2>1. v[2] \in Nat /\ v[1] \in Job /\ w[1] \in Job
    BY WorkerParts
  <2>2. CASE v = w
    BY <1>2, <1>3, <2>1, <2>2 DEF IInv, TypeOK
  <2>3. CASE v # w
    BY <1>0, <1>2, <1>3, <2>1, <2>3 DEF Issued, IInv, TypeOK
  <2> QED BY <2>2, <2>3
<1>8. BundleStands'
  BY <1>0, <1>2, <1>4 DEF BundleStands, AfterBundle, HasBundle, Handling
<1>9. WriterCompletes'
  BY <1>0, <1>2 DEF WriterCompletes, HasBundle
<1> QED BY <1>5, <1>6, <1>7, <1>8, <1>9

\* The model's findings, before there is a bundle of the process.
LEMMA ExamineKeeps ==
    ASSUME IInv, ReviewerInv, NEW w \in Worker, Examine(w)
    PROVE  ReviewerInv'
<1> USE DEF ReviewerInv, Examine, Goto, vars, budget
<1>0. pc \in [Worker -> {"absent"} \cup BeforeTry \cup InTry \cup Handling \cup Ended]
  BY DEF ReviewMatchesLedger, ReviewerTypeOK
<1>1. PICK r \in Finding : review' = [review EXCEPT ![w] = r]
  <2>1. Nothing \in Finding
    BY ReviewAssumption DEF Nothing, Finding
  <2> QED BY <2>1
<1>2. ReviewMatchesLedger'
  <2>1. ReviewerTypeOK'
    BY <1>0, <1>1 DEF ReviewMatchesLedger, ReviewerTypeOK, InTry
  <2> QED BY <2>1 DEF ReviewMatchesLedger
<1>3. BundleStands'
  <2>1. w \in Worker /\ pc[w] \notin AfterBundle
    BY DEF AfterBundle, HasBundle, Handling
  <2>2. \A j \in Job : output[j] # None => <<j, output[j].attempt>> \in Worker
    BY DEF ReviewMatchesLedger, ReviewerTypeOK, Worker
  <2> QED BY <1>0, <1>1, <2>1, <2>2 DEF BundleStands, ReviewMatchesLedger, ReviewerTypeOK
<1> QED BY <1>0, <1>2, <1>3
        DEF CallsTyped, Issued, WriterCompletes, HasBundle, ReviewMatchesLedger, ReviewerTypeOK

\* The bundle is written once for a job.
LEMMA WriteBundleKeeps ==
    ASSUME IInv, ReviewerInv, NEW w \in Worker, WriteBundle(w)
    PROVE  ReviewerInv'
<1> USE DEF ReviewerInv, WriteBundle, Writes, Goto, vars, budget
<1>0. pc \in [Worker -> {"absent"} \cup BeforeTry \cup InTry \cup Handling \cup Ended]
  BY DEF ReviewMatchesLedger, ReviewerTypeOK
<1> DEFINE b == [attempt |-> w[2], verdict |-> VerdictOf(review[w])]
<1>1. /\ w[1] \in Job /\ w[2] \in Attempts /\ w = <<w[1], w[2]>>
      /\ b.verdict \in Verdict /\ b # None /\ output[w[1]] = None
      /\ output' = [output EXCEPT ![w[1]] = b]
  BY WorkerParts, VerdictTyped, NoneIsNoBundle DEF ReviewMatchesLedger, ReviewerTypeOK
<1>2. b \in [attempt : Attempts, verdict : Verdict] /\ b.attempt = w[2]
      /\ b.verdict = VerdictOf(review[w])
  BY <1>1
<1> HIDE DEF b
<1>3. \A j \in Job : j # w[1] => output'[j] = output[j]
  BY <1>1 DEF ReviewMatchesLedger, ReviewerTypeOK
<1>4. output'[w[1]] = b
  BY <1>1 DEF ReviewMatchesLedger, ReviewerTypeOK
<1>5. result[w[1]] = "none"
  BY <1>1, NoneIsNoBundle DEF ReviewMatchesLedger, ReviewerTypeOK, None, IInv, TypeOK
<1>6. ReviewMatchesLedger'
  <2>1. ReviewerTypeOK'
    BY <1>0, <1>1, <1>2 DEF ReviewMatchesLedger, ReviewerTypeOK, InTry
  <2> QED BY <1>3, <1>5, <2>1 DEF ReviewMatchesLedger
<1>7. BundleStands'
  <2> SUFFICES ASSUME NEW j \in Job, output'[j] # None
               PROVE  LET v == <<j, output'[j].attempt>>
                      IN  /\ output'[j].verdict = VerdictOf(review[v])
                          /\ pc'[v] \in AfterBundle
    BY DEF BundleStands
  <2>1. CASE j = w[1]
    BY <1>0, <1>1, <1>2, <1>4, <2>1 DEF AfterBundle, HasBundle
  <2>2. CASE j # w[1]
    BY <1>0, <1>1, <1>3, <2>2 DEF BundleStands
  <2> QED BY <2>1, <2>2
<1>8. WriterCompletes'
  <2>1. ASSUME NEW v \in Worker, pc'[v] \in HasBundle
        PROVE  output'[v[1]] # None /\ output'[v[1]].attempt = v[2]
    <3>1. v[1] = w[1] => v = w
      <4>1. v # w => pc[v] \in HasBundle
        BY <1>0, <2>1
      <4> QED BY <1>1, <4>1 DEF WriterCompletes
    <3>2. CASE v = w
      BY <1>1, <1>2, <1>4, <3>2
    <3>3. CASE v # w
      BY <1>0, <1>3, <2>1, <3>1, <3>3, WorkerParts DEF WriterCompletes
    <3> QED BY <3>2, <3>3
  <2>2. ASSUME NEW c \in calls, c.op = "complete"
        PROVE  output'[c.job] = [attempt |-> c.attempt, verdict |-> c.arg]
    <3>1. output[c.job] # None
      BY <2>2, NoneIsNoBundle, CallParts DEF WriterCompletes
    <3> QED BY <1>1, <1>3, <2>2, <3>1, CallParts DEF WriterCompletes
  <2> QED BY <2>1, <2>2 DEF WriterCompletes
<1> QED BY <1>0, <1>1, <1>6, <1>7, <1>8 DEF CallsTyped, Issued

\* The ledger executes a call, at any time after it was sent.
LEMMA ServeKeeps ==
    ASSUME IInv, ReviewerInv, NEW c \in calls, Serve(c)
    PROVE  ReviewerInv'
<1> USE DEF ReviewerInv
<1> DEFINE w == Caller(c)
<1>0. pc \in [Worker -> {"absent"} \cup BeforeTry \cup InTry \cup Handling \cup Ended]
  BY DEF ReviewMatchesLedger, ReviewerTypeOK
<1>1. /\ w \in Worker /\ w[1] = c.job /\ w[2] = c.attempt
      /\ c.job \in Job /\ c.op \in Waiting
      /\ c.op # "record_gate" /\ c.op # "begin_effect"
  BY CallParts DEF Waiting
<1>2. Next /\ lease_count' = lease_count
  BY <1>1, ExecutesIsAStep, ExecutedCall DEF Serve
<1>3. /\ calls' \subseteq calls
      /\ \/ pc' = pc
         \/ pc[w] = c.op /\ Goto(w, Onward(c))
  BY DEF Serve, Answer
<1>4. CASE c.op # "complete"
  <2>1. pc[w] = c.op => Advances(w, Onward(c))
    BY <1>1, <1>4 DEF Onward, Advances, Waiting, BeforeTry, Handling
  <2>2. UNCHANGED <<output, review, result>>
    BY <1>4 DEF Serve
  <2> HIDE DEF w, ReviewerInv
  <2> QED BY <1>1, <1>2, <1>3, <2>1, <2>2, MoveKeeps
<1>5. CASE c.op = "complete"
  <2>1. /\ output[c.job] = [attempt |-> c.attempt, verdict |-> c.arg]
        /\ c.arg \in Verdict
        /\ status'[c.job] = "succeeded" /\ lease_count[c.job] = c.attempt
        /\ result' = [result EXCEPT ![c.job] = c.arg]
        /\ UNCHANGED <<output, review>>
    BY <1>1, <1>5, ExecutedCall DEF Serve, WriterCompletes, CallsTyped
  <2>2. \/ pc' = pc
        \/ pc[w] = "complete" /\ pc' = [pc EXCEPT ![w] = "done"]
    BY <1>3, <1>5 DEF Onward, Goto
  <2> HIDE DEF w
  <2>3. CallsTyped'
    BY <1>3 DEF CallsTyped
  <2>4. ReviewerTypeOK'
    <3>1. pc' \in [Worker -> {"absent"} \cup BeforeTry \cup InTry \cup Handling \cup Ended]
      BY <1>0, <1>1, <2>2 DEF Ended
    <3> QED BY <1>1, <1>3, <2>1, <3>1 DEF ReviewMatchesLedger, ReviewerTypeOK
  <2>5. ReviewMatchesLedger'
    <3> SUFFICES ASSUME NEW j \in Job, result'[j] # "none"
                 PROVE  /\ status'[j] = "succeeded"
                        /\ output'[j] = [attempt |-> lease_count'[j], verdict |-> result'[j]]
      BY <2>4 DEF ReviewMatchesLedger
    <3>1. CASE j = c.job
      BY <1>1, <1>2, <2>1, <3>1 DEF ReviewMatchesLedger, ReviewerTypeOK
    <3>2. CASE j # c.job
      BY <1>1, <1>2, <2>1, <3>2, LedgerKeeps DEF ReviewMatchesLedger, ReviewerTypeOK
    <3> QED BY <3>1, <3>2
  <2>6. Issued'
    BY <1>0, <1>1, <1>2, <2>2 DEF Issued
  <2>7. BundleStands'
    <3>1. \A v \in Worker : pc[v] \in AfterBundle => pc'[v] \in AfterBundle
      BY <1>0, <1>1, <2>2 DEF AfterBundle
    <3>2. \A j \in Job : output[j] # None => <<j, output[j].attempt>> \in Worker
      BY DEF ReviewMatchesLedger, ReviewerTypeOK, Worker
    <3> QED BY <2>1, <3>1, <3>2 DEF BundleStands
  <2>8. WriterCompletes'
    <3>1. \A v \in Worker : pc'[v] \in HasBundle => pc[v] \in HasBundle
      BY <1>0, <1>1, <2>2 DEF HasBundle
    <3> QED BY <1>3, <2>1, <3>1 DEF WriterCompletes
  <2> QED BY <2>3, <2>5, <2>6, <2>7, <2>8
<1> QED BY <1>4, <1>5

LEMMA RefuseKeeps ==
    ASSUME IInv, ReviewerInv, NEW c \in calls, Refuse(c)
    PROVE  ReviewerInv'
<1> DEFINE w == Caller(c)
<1>1. w \in Worker /\ c.op \in Waiting
  BY CallParts DEF ReviewerInv
<1>2. /\ calls' \subseteq calls
      /\ pc' = pc \/ (pc[w] = c.op /\ Goto(w, Handler(c.op)))
      /\ UNCHANGED <<vars, output, review, result>>
  BY DEF Refuse, Answer
<1>3. pc[w] = c.op => Advances(w, Handler(c.op))
  BY <1>1, HandlerLeads DEF Advances, Waiting, BeforeTry, InTry, Handling
<1>4. lease_count' = lease_count
  BY <1>2 DEF vars, budget
<1> HIDE DEF w
<1> QED BY <1>1, <1>2, <1>3, <1>4, MoveKeeps

LEMMA EnvironmentKeeps ==
    ASSUME IInv, ReviewerInv, LedgerEnvironment, UNCHANGED <<output, review, result>>
    PROVE  ReviewerInv'
<1>1. pc' = pc /\ calls' = calls
  BY DEF LedgerEnvironment, client
<1> QED BY <1>1, EnvironmentMoves, MoveKeeps
----------------------------------------------------------------------------
(* The inductive invariant. *)

LEMMA ReviewerStarts == ReviewerInit => IInv /\ ReviewerInv
<1> SUFFICES ASSUME ReviewerInit PROVE IInv /\ ReviewerInv
  OBVIOUS
<1>1. IInv
  BY TypeInit, SafeInit DEF ReviewerInit, IInv
<1>2. ReviewMatchesLedger
  <2>1. Nothing \in Finding
    BY ReviewAssumption DEF Nothing, Finding
  <2> QED BY <2>1 DEF ReviewerInit, ReviewMatchesLedger, ReviewerTypeOK
<1> QED BY <1>1, <1>2 DEF ReviewerInit, ReviewerInv, CallsTyped, Issued, BundleStands,
                          WriterCompletes, HasBundle

LEMMA ReviewerStutters == ReviewerInv /\ UNCHANGED reviewerVars => ReviewerInv'
BY DEF ReviewerInv, reviewerVars, vars, client, budget, CallsTyped, ReviewMatchesLedger,
       ReviewerTypeOK, Issued, BundleStands, WriterCompletes

LEMMA ReviewerKeeps == IInv /\ ReviewerInv /\ [ReviewerNext]_reviewerVars => ReviewerInv'
<1> SUFFICES ASSUME IInv, ReviewerInv, [ReviewerNext]_reviewerVars PROVE ReviewerInv'
  OBVIOUS
<1>1. CASE UNCHANGED reviewerVars
  BY <1>1, ReviewerStutters
<1>2. CASE AnyLaunch
  BY <1>2, LaunchKeeps DEF AnyLaunch
<1>3. ASSUME NEW w \in Worker, Process(w) PROVE ReviewerInv'
  BY <1>3, RequestKeeps, ExamineKeeps, WriteBundleKeeps, QuietKeeps DEF Process
<1>4. CASE Database
  BY <1>4, ServeKeeps, RefuseKeeps DEF Database
<1>5. CASE LedgerEnvironment /\ UNCHANGED <<output, review, result>>
  BY <1>5, EnvironmentKeeps
<1> QED BY <1>1, <1>2, <1>3, <1>4, <1>5 DEF ReviewerNext

LEMMA ReviewerInductive == ReviewerSpec => [](IInv /\ ReviewerInv)
<1>1. IInv /\ ReviewerInv /\ [ReviewerNext]_reviewerVars => (IInv /\ ReviewerInv)'
  BY ReviewerKeeps, ReviewerStepIsLedgerStep, TypeStep, SafeStep DEF IInv, ReviewerInv
<1> QED BY <1>1, ReviewerStarts, PTL DEF ReviewerSpec

\* The verdict in the ledger is the one on disk, whichever process wrote it and
\* however many leases expired meanwhile.
THEOREM ReviewerVerdict == ReviewerSpec => []ReviewMatchesLedger
BY ReviewerInductive, PTL DEF ReviewerInv

\* An approval in the ledger is what derive_verdict made of the findings of the
\* attempt that completed the job.
THEOREM ReviewerApproval == ReviewerSpec => []ApprovalIsEarned
<1>1. IInv /\ ReviewerInv => ApprovalIsEarned
  <2> SUFFICES ASSUME IInv, ReviewerInv, NEW j \in Job, result[j] = "approve"
               PROVE  LET r == review[<<j, lease_count[j]>>]
                      IN  r.sound /\ ~ r.severe /\ r.mediums < MediumLimit
    BY DEF ApprovalIsEarned
  <2> DEFINE w == <<j, lease_count[j]>>
  <2>1. output[j] = [attempt |-> lease_count[j], verdict |-> "approve"]
    BY DEF ReviewerInv, ReviewMatchesLedger
  <2>2. output[j] \in {None} \cup [attempt : Attempts, verdict : Verdict]
    BY DEF ReviewerInv, ReviewMatchesLedger, ReviewerTypeOK
  <2>3. output[j].verdict = "approve" /\ output[j].attempt = lease_count[j]
    BY <2>1
  <2>4. output[j] # None
    BY <2>3 DEF None
  <2>5. w \in Worker
    BY <2>2, <2>3, <2>4 DEF Worker
  <2>6. VerdictOf(review[w]) = "approve"
    BY <2>3, <2>4 DEF ReviewerInv, BundleStands
  <2>7. review[w] \in Finding
    BY <2>5 DEF ReviewerInv, ReviewMatchesLedger, ReviewerTypeOK
  <2> QED BY <2>6, <2>7, VerdictTyped
<1> QED BY <1>1, ReviewerInductive, PTL

\* The reviewers move the ledger by its functions only: what is proved of
\* JobLedger holds of the composition.
THEOREM ReviewerRefinesLedger == ReviewerSpec => Spec
<1>1. IInv /\ ReviewerInv /\ [ReviewerNext]_reviewerVars => [Next]_vars
  BY ReviewerStepIsLedgerStep DEF ReviewerInv
<1>2. ReviewerInit => Init
  BY DEF ReviewerInit
<1> QED BY <1>1, <1>2, ReviewerInductive, PTL DEF ReviewerSpec, Spec

\* So a job of the reviewers keeps the ledger's promise whatever is lost, late or
\* killed: at most one attempt acts, and it is over for good once it has ended.
THEOREM ReviewerContract == ReviewerSpec => ImplementsContract
BY ReviewerRefinesLedger, LedgerContract
=============================================================================
