----------------------------- MODULE WorkerProofs -----------------------------
(***************************************************************************)
(* Theorems about EngineeringWorker, for any number of jobs, attempts and  *)
(* processes that run at once: one process of a job works, the ledger is   *)
(* ahead of what it leaves behind, and what the launcher is told is true.  *)
(***************************************************************************)
EXTENDS EngineeringWorker, JobLedgerProofs

USE LedgerAssumption

\* The calls under way, as main() sends them.
WorkerCall == [job : Job, attempt : Attempts, op : Waiting,
               arg : Decisions \cup {"candidate", "none"}]
CallsTyped ==
    /\ calls \subseteq WorkerCall
    /\ \A c \in calls : c.op = "record_gate" => c.arg \in Decisions
    /\ \A c \in calls : c.op \in {"begin_effect", "commit_effect"} => c.arg = "candidate"
    /\ \A d \in committing : d.attempt \in Attempts

\* Where main() is once it has its permission, its worktree, its claim, its
\* candidate, its receipt, its manifest; and where it works at all.
Admitted     == {"admitted", "start", "started", "heartbeat", "entered"}
Working      == InTry \cup Handling \cup {"finishing", "done"}
HasWorktree  == (InTry \ {"claimed"}) \cup {"finishing"}
HasCandidate == {"committed", "commit_effect", "receipted", "bundled", "complete",
                 "finishing"}
HasClaim     == {"intended", "branched"} \cup HasCandidate
HasReceipt   == {"receipted", "bundled", "complete"}
HasManifest  == {"bundled", "complete"}

\* No process has started for a lease that was not issued; before its try no
\* process has made the evidence directory.
Issued ==
    \A w \in Worker :
        /\ pc[w] # "absent" => w[2] <= lease_count[w[1]]
        /\ pc[w] \in {"absent"} \cup BeforeTry => evidence[w[1]] # w[2]

\* What a process has behind it, by where it is.
Left(w) ==
    /\ pc[w] \in Admitted     => Decided(w[1], w[2], "allow")
    /\ pc[w] \in HasWorktree  => w \in added
    /\ pc[w] \in HasClaim     => EffectsOf(w[1], w[2]) # {}
    /\ pc[w] \in HasCandidate => branch[w[1]] = "candidate"
    /\ pc[w] \in HasReceipt   => Receipt(w[1], w[2])
    /\ pc[w] \in HasManifest  => w[1] \in sealed
    /\ pc[w] = "finishing"    => status[w[1]] = "succeeded"
HasLeft == \A w \in Worker : Left(w)

\* A complete call is sent with everything done, however late it executes.
CompleteIsEarned ==
    \A c \in calls : c.op = "complete" =>
        /\ evidence[c.job] = c.attempt
        /\ c.job \in sealed
        /\ Receipt(c.job, c.attempt)

\* A branch is that of the process that works, which will remove it; success is
\* the success of a process that worked.
BranchIsOwned ==
    \A j \in Job : branch[j] # "none" =>
        /\ <<j, evidence[j]>> \in added
        /\ EffectsOf(j, evidence[j]) # {}
SuccessIsEarned ==
    \A j \in Job : status[j] = "succeeded" =>
        /\ evidence[j] # 0
        /\ j \in sealed
        /\ Receipt(j, evidence[j])

Progress == /\ OneExecutor
            /\ Issued
            /\ HasLeft
            /\ CompleteIsEarned
            /\ AdmittedBeforeWork
            /\ BranchIsOwned
            /\ SuccessIsEarned
            /\ EndingsMatch

WorkerInv == CallsTyped /\ Progress
----------------------------------------------------------------------------
(* Where the steps of main() lead. *)

LEMMA CallParts ==
    ASSUME CallsTyped, NEW c \in calls
    PROVE  /\ c.job \in Job /\ c.attempt \in Attempts /\ c.op \in Waiting
           /\ Caller(c) \in Worker /\ Caller(c)[1] = c.job /\ Caller(c)[2] = c.attempt
           /\ c.op = "record_gate" => c.arg \in Decisions
           /\ c.op \in {"begin_effect", "commit_effect"} => KeyOf(c) \in EffectKey
BY WorkerAssumption DEF CallsTyped, WorkerCall, Caller, Worker, KeyOf

\* Every step is one of the ledger or leaves the ledger alone.
LEMMA WorkerStepIsLedgerStep ==
    ASSUME IInv, CallsTyped, [WorkerNext]_workerVars
    PROVE  [Next]_vars
<1>1. CASE UNCHANGED workerVars
  BY <1>1 DEF workerVars
<1>2. ASSUME NEW w \in Worker, Launch(w) PROVE Next
  BY <1>2, WorkerParts DEF Launch, Next, AnyLease
<1>3. ASSUME NEW w \in Worker, Process(w) PROVE UNCHANGED vars
  BY <1>3 DEF Process, Gate, CallLedger, Request, ClaimDirectory, AddWorktree, CreateBranch,
              Commit, WriteBundle, Raise, Finally, Crash, GiveUp
<1>4. ASSUME NEW c \in calls, Serve(c) PROVE Next
  <2>1. CASE Executes(c)
    BY <2>1, CallParts, ExecutesIsAStep
  <2>2. CASE ExecutesCheck(c)
    BY <2>2, CallParts, ExecutesCheckIsAStep DEF ExecutesCheck
  <2> QED BY <1>4, <2>1, <2>2 DEF Serve
<1>5. ASSUME NEW c \in calls, Refuse(c) PROVE UNCHANGED vars
  BY <1>5 DEF Refuse
<1>6. ASSUME NEW d \in committing, ServeCommit(d) PROVE Next
  BY <1>6 DEF ServeCommit, Next, AnyCommit
<1>7. CASE LedgerEnvironment
  BY <1>7, EnvironmentMoves
<1> QED BY <1>1, <1>2, <1>3, <1>4, <1>5, <1>6, <1>7 DEF WorkerNext, AnyLaunch, Database
\* What a process has behind it stays there, whatever the ledger does meanwhile.
LEMMA LeftKept ==
    ASSUME IInv, [Next]_vars, NEW v \in Worker, Left(v), pc'[v] = pc[v],
           added \subseteq added', sealed \subseteq sealed',
           pc[v] \in HasCandidate => branch'[v[1]] = branch[v[1]]
    PROVE  Left(v)'
BY LedgerKeeps, WorkerParts DEF Left
----------------------------------------------------------------------------
(* The steps of a process. *)

LEMMA HandlerLeads ==
    ASSUME NEW loc \in BeforeTry \cup InTry \cup Handling
    PROVE  \/ loc \in BeforeTry /\ Handler(loc) = "raised"
           \/ loc \in InTry     /\ Handler(loc) = "failing"
           \/ loc \in Handling  /\ Handler(loc) = "unwinding"
BY DEF Handler, BeforeTry, InTry, Handling

\* Process w leaves what it does: an exception, a time-out, a refused call, a
\* crash.  Or its call is answered.
Leaves(w, loc) ==
    \/ pc[w] \in BeforeTry /\ loc = "raised"
    \/ pc[w] \in InTry     /\ loc = "failing"
    \/ pc[w] \in Handling  /\ loc = "unwinding"
    \/ pc[w] \notin Ended \cup {"absent"} /\ loc = "dead"
Answered(w, loc) ==
    \/ pc[w] = "record_gate"   /\ loc = "admitted"  /\ Decided(w[1], w[2], "allow")'
    \/ pc[w] = "start"         /\ loc = "started"
    \/ pc[w] = "heartbeat"     /\ loc = "entered"
    \/ pc[w] = "begin_effect"  /\ loc = "intended"  /\ EffectsOf(w[1], w[2])' # {}
    \/ pc[w] = "commit_effect" /\ loc = "receipted" /\ Receipt(w[1], w[2])'
    \/ pc[w] = "complete"      /\ loc = "finishing" /\ status'[w[1]] = "succeeded"

\* The ledger moves, and at most one process with it.
LEMMA LedgerMoveKeeps ==
    ASSUME IInv, WorkerInv, [Next]_vars, UNCHANGED files, calls' \subseteq calls,
           \A d \in committing' : d.attempt \in Attempts,
           \A j \in Job : status'[j] = "succeeded" =>
              status[j] = "succeeded" \/ (/\ evidence[j] # 0
                                          /\ j \in sealed
                                          /\ Receipt(j, evidence[j])),
           \/ pc' = pc
           \/ \E w \in Worker : \E loc : (Leaves(w, loc) \/ Answered(w, loc)) /\ Goto(w, loc)
    PROVE  WorkerInv'
<1> USE DEF WorkerInv, Progress, files
<1>0. pc \in [Worker -> {"absent", "finishing"} \cup BeforeTry \cup InTry
                           \cup Handling \cup Ended]
  BY DEF OneExecutor, WorkerTypeOK
\* Where one process is afterwards.
<1>1. ASSUME NEW v \in Worker
      PROVE  /\ pc'[v] = pc[v] \/ Leaves(v, pc'[v]) \/ Answered(v, pc'[v])
             /\ pc'[v] \in {"absent", "finishing"} \cup BeforeTry \cup InTry
                              \cup Handling \cup Ended
  <2>1. CASE pc' = pc
    BY <1>0, <2>1
  <2>2. ASSUME NEW w \in Worker, NEW loc, Leaves(w, loc) \/ Answered(w, loc), Goto(w, loc)
        PROVE  /\ pc'[v] = pc[v] \/ Leaves(v, pc'[v]) \/ Answered(v, pc'[v])
               /\ pc'[v] \in {"absent", "finishing"} \cup BeforeTry \cup InTry
                                \cup Handling \cup Ended
    <3>1. pc'[v] = IF v = w THEN loc ELSE pc[v]
      BY <1>0, <2>2 DEF Goto
    <3>2. loc \in {"absent", "finishing"} \cup BeforeTry \cup InTry \cup Handling \cup Ended
      BY <2>2 DEF Leaves, Answered, BeforeTry, InTry, Handling, Ended
    <3> QED BY <1>0, <2>2, <3>1, <3>2
  <2> QED BY <2>1, <2>2
<1>2. CallsTyped'
  BY DEF CallsTyped
<1>3. WorkerTypeOK'
  <2>1. pc' = [v \in Worker |-> pc'[v]]
    BY <1>0 DEF Goto
  <2>2. pc' \in [Worker -> {"absent", "finishing"} \cup BeforeTry \cup InTry
                            \cup Handling \cup Ended]
    BY <1>1, <2>1
  <2> QED BY <2>2 DEF OneExecutor, WorkerTypeOK
<1>4. OneExecutor'
  BY <1>1, <1>3 DEF OneExecutor, Leaves, Answered, InTry, Handling, Ended, BeforeTry
<1>5. Issued'
  <2> SUFFICES ASSUME NEW v \in Worker
               PROVE  /\ pc'[v] # "absent" => v[2] <= lease_count'[v[1]]
                      /\ pc'[v] \in {"absent"} \cup BeforeTry => evidence[v[1]] # v[2]
    BY DEF Issued
  <2>1. pc'[v] # "absent" => pc[v] # "absent"
    BY <1>1 DEF Leaves, Answered, BeforeTry, InTry, Handling, Ended
  <2>2. pc'[v] \in {"absent"} \cup BeforeTry => pc[v] \in {"absent"} \cup BeforeTry
    BY <1>1 DEF Leaves, Answered, BeforeTry, InTry, Handling, Ended
  <2>3. /\ lease_count[v[1]] <= lease_count'[v[1]]
        /\ lease_count[v[1]] \in Nat /\ lease_count'[v[1]] \in Nat /\ v[2] \in Nat
    BY WorkerParts, LedgerGrows, TypeStep DEF IInv, TypeOK
  <2> QED BY <2>1, <2>2, <2>3 DEF Issued
<1>6. HasLeft'
  <2> SUFFICES ASSUME NEW v \in Worker PROVE Left(v)'
    BY DEF HasLeft
  <2>1. CASE pc'[v] = pc[v]
    BY <2>1, LeftKept DEF HasLeft
  <2>2. CASE Leaves(v, pc'[v])
    BY <2>2 DEF Left, Leaves, Admitted, HasWorktree, HasClaim, HasCandidate, HasReceipt,
                HasManifest, InTry
  <2>3. CASE Answered(v, pc'[v])
    <3>1. Left(v)
      BY DEF HasLeft
    <3>2. pc[v] \in {"start", "heartbeat"} => Decided(v[1], v[2], "allow")'
      BY <3>1, LedgerKeeps DEF Left, Admitted
    <3>3. pc[v] \in {"commit_effect", "complete"} => EffectsOf(v[1], v[2])' # {}
      BY <3>1, LedgerKeeps DEF Left, HasClaim, HasCandidate
    <3> QED BY <2>3, <3>1, <3>2, <3>3
            DEF Left, Answered, Admitted, HasWorktree, HasClaim, HasCandidate, HasReceipt,
                HasManifest, InTry
  <2> QED BY <1>1, <2>1, <2>2, <2>3
<1>7. CompleteIsEarned' /\ AdmittedBeforeWork' /\ BranchIsOwned'
  BY LedgerKeeps DEF CompleteIsEarned, AdmittedBeforeWork, BranchIsOwned
<1>8. SuccessIsEarned'
  BY LedgerKeeps DEF SuccessIsEarned
<1>9. EndingsMatch'
  <2> SUFFICES ASSUME NEW v \in Worker, evidence[v[1]] = v[2]
               PROVE  /\ pc'[v] = "done" => /\ status'[v[1]] = "succeeded"
                                            /\ branch[v[1]] = "candidate"
                                            /\ worktree[v[1]] = 0 \/ v \in littered
                      /\ pc'[v] = "raised" => branch[v[1]] = "none" \/ v \in littered
    BY DEF EndingsMatch
  <2>1. pc'[v] \in {"done", "raised"} => pc[v] = pc'[v]
    BY <1>1 DEF Leaves, Answered, Issued, Ended
  <2> QED BY <2>1, LedgerKeeps, WorkerParts DEF EndingsMatch
<1> QED BY <1>2, <1>4, <1>5, <1>6, <1>7, <1>8, <1>9

LEMMA LeavesKeeps ==
    ASSUME IInv, WorkerInv, NEW w \in Worker, NEW loc, Leaves(w, loc), Goto(w, loc),
           calls' \subseteq calls, UNCHANGED <<vars, files>>
    PROVE  WorkerInv'
<1>1. committing' = committing /\ status' = status
  BY DEF vars
<1>2. \A d \in committing' : d.attempt \in Attempts
  BY <1>1 DEF WorkerInv, CallsTyped
<1> QED BY <1>1, <1>2, LedgerMoveKeeps

\* A call is sent.
LEMMA RequestKeeps ==
    ASSUME IInv, WorkerInv, NEW w \in Worker, Gate(w) \/ CallLedger(w)
    PROVE  WorkerInv'
<1> USE DEF WorkerInv, Progress, vars, files, budget
<1>0. pc \in [Worker -> {"absent", "finishing"} \cup BeforeTry \cup InTry
                           \cup Handling \cup Ended]
  BY DEF OneExecutor, WorkerTypeOK
<1>1. PICK op \in Waiting, arg \in Decisions \cup {"candidate", "none"} :
         /\ Request(w, op, arg)
         /\ UNCHANGED files
         /\ \/ pc[w] = "checks"    /\ op = "record_gate"   /\ arg \in Decisions
            \/ pc[w] = "admitted"  /\ op = "start"         /\ arg = "none"
            \/ pc[w] = "started"   /\ op = "heartbeat"     /\ arg = "none"
            \/ pc[w] = "working"   /\ op = "begin_effect"  /\ arg = "candidate"
            \/ pc[w] = "committed" /\ op = "commit_effect" /\ arg = "candidate"
            \/ pc[w] = "bundled"   /\ op = "complete"      /\ arg = "none"
            \/ pc[w] = "failing"   /\ op = "fail"          /\ arg = "none"
  <2>1. CASE Gate(w)
    BY <2>1 DEF Gate, Waiting
  <2>2. CASE CallLedger(w)
    BY <2>2 DEF CallLedger, NextCall, Waiting
  <2> QED BY <2>1, <2>2
<1>2. /\ pc' = [pc EXCEPT ![w] = op]
      /\ calls' = calls \cup {[job |-> w[1], attempt |-> w[2], op |-> op, arg |-> arg]}
      /\ UNCHANGED <<vars, files>>
  BY <1>1 DEF Request, Goto, Call
<1>3. CallsTyped'
  BY <1>1, <1>2, WorkerParts DEF CallsTyped, WorkerCall, Decisions
<1>4. WorkerTypeOK'
  <2>1. \A c \in calls' : Caller(c) \in Worker /\ c.op \in Waiting
    BY <1>3 DEF CallsTyped, WorkerCall, Caller, Worker
  <2>2. pc' \in [Worker -> {"absent", "finishing"} \cup BeforeTry \cup InTry
                            \cup Handling \cup Ended]
    BY <1>0, <1>1, <1>2 DEF Waiting, BeforeTry, InTry, Handling
  <2> QED BY <1>2, <2>1, <2>2 DEF OneExecutor, WorkerTypeOK
<1>5. OneExecutor'
  BY <1>0, <1>1, <1>2, <1>4 DEF OneExecutor, InTry, Handling
<1>6. Issued'
  BY <1>0, <1>1, <1>2 DEF Issued, BeforeTry
<1>7. HasLeft'
  <2>1. ASSUME NEW v \in Worker, v # w PROVE Left(v)'
    BY <1>0, <1>1, <1>2, <2>1, LeftKept DEF HasLeft
  <2>2. Left(w)'
    BY <1>0, <1>1, <1>2 DEF HasLeft, Left, Admitted, HasWorktree, HasClaim, HasCandidate,
       HasReceipt, HasManifest, InTry, Decided, EffectsOf, Receipt
  <2> QED BY <2>1, <2>2 DEF HasLeft
<1>8. CompleteIsEarned'
  BY <1>1, <1>2 DEF CompleteIsEarned, HasLeft, OneExecutor, Left, HasReceipt, HasManifest,
                    InTry, Receipt, EffectsOf
<1>9. AdmittedBeforeWork' /\ BranchIsOwned' /\ SuccessIsEarned'
  BY <1>2 DEF AdmittedBeforeWork, BranchIsOwned, SuccessIsEarned, Decided, EffectsOf, Receipt
<1>10. EndingsMatch'
  BY <1>0, <1>1, <1>2 DEF EndingsMatch
<1> QED BY <1>3, <1>5, <1>6, <1>7, <1>8, <1>9, <1>10

\* The evidence directory is made by one process: then no other of the job works.
LEMMA ClaimDirectoryKeeps ==
    ASSUME IInv, WorkerInv, NEW w \in Worker, ClaimDirectory(w)
    PROVE  WorkerInv'
<1> USE DEF WorkerInv, Progress, Goto, vars, files, budget, ClaimDirectory, Unclaimed
<1>0. pc \in [Worker -> {"absent", "finishing"} \cup BeforeTry \cup InTry
                           \cup Handling \cup Ended]
  BY DEF OneExecutor, WorkerTypeOK
<1>1. CallsTyped'
  BY DEF CallsTyped
<1>2. w[1] \in Job /\ w[2] \in Attempts /\ w[2] # 0
  BY WorkerParts
<1>3. WorkerTypeOK'
  BY <1>0, <1>2 DEF OneExecutor, WorkerTypeOK, InTry, Handling, Ended
<1>4. OneExecutor'
  BY <1>0, <1>2, <1>3, PairsOfJob, WorkerParts DEF OneExecutor, WorkerTypeOK, InTry, Handling
<1>5. Issued'
  BY <1>0, <1>2, PairsOfJob, WorkerParts DEF Issued, OneExecutor, WorkerTypeOK, BeforeTry
<1>6. HasLeft'
  <2>1. ASSUME NEW v \in Worker, v # w PROVE Left(v)'
    <3>1. v[1] = w[1] => pc[v] \notin HasCandidate \/ branch' = branch
      BY <2>1, <1>0, <1>2, PairsOfJob, WorkerParts DEF OneExecutor, HasCandidate, InTry, Handling
    <3>2. pc[v] \in HasCandidate => branch'[v[1]] = branch[v[1]]
      BY <3>1, WorkerParts DEF OneExecutor, WorkerTypeOK
    <3> QED BY <1>0, <2>1, <3>2, LeftKept DEF HasLeft
  <2>2. Left(w)'
    BY <1>0, <1>2 DEF HasLeft, Left, OneExecutor, WorkerTypeOK, Admitted, HasWorktree,
       HasClaim, HasCandidate, HasReceipt, HasManifest, InTry, Decided, EffectsOf, Receipt
  <2> QED BY <2>1, <2>2 DEF HasLeft
<1>7. CompleteIsEarned'
  BY <1>2, AttemptsArePositive DEF CompleteIsEarned, CallsTyped, WorkerCall, Receipt, EffectsOf
<1>8. AdmittedBeforeWork' /\ BranchIsOwned' /\ SuccessIsEarned'
  <2>1. w = <<w[1], w[2]>>
    BY DEF Worker
  <2>2. AdmittedBeforeWork'
    BY <1>0, <1>2 DEF AdmittedBeforeWork, OneExecutor, WorkerTypeOK, HasLeft, Left,
                      Admitted, Decided
  <2>3. BranchIsOwned'
    <3>1. 0 \notin Attempts
      BY AttemptsArePositive
    <3>2. <<w[1], 0>> \notin added
      BY <3>1 DEF OneExecutor, WorkerTypeOK, Worker
    <3>3. branch[w[1]] = "none"
      BY <1>2, <3>2 DEF BranchIsOwned
    <3> QED BY <1>2, <3>3 DEF BranchIsOwned, OneExecutor, WorkerTypeOK, EffectsOf
  <2>4. SuccessIsEarned'
    BY <1>0, <1>2 DEF SuccessIsEarned, OneExecutor, WorkerTypeOK, EffectsOf, Receipt
  <2> QED BY <2>2, <2>3, <2>4
<1>9. EndingsMatch'
  BY <1>0, <1>2, PairsOfJob, WorkerParts
     DEF EndingsMatch, OneExecutor, WorkerTypeOK, HasLeft, Left, HasCandidate, HasWorktree,
         BranchIsOwned, InTry, Handling
<1> QED BY <1>1, <1>4, <1>5, <1>6, <1>7, <1>8, <1>9

\* git worktree add, with its flag or without.
LEMMA AddWorktreeKeeps ==
    ASSUME IInv, WorkerInv, NEW w \in Worker, AddWorktree(w)
    PROVE  WorkerInv'
<1> USE DEF WorkerInv, Progress, Goto, vars, files, budget, AddWorktree
<1>0. pc \in [Worker -> {"absent", "finishing"} \cup BeforeTry \cup InTry
                           \cup Handling \cup Ended]
  BY DEF OneExecutor, WorkerTypeOK
<1>1. CallsTyped'
  BY DEF CallsTyped
<1>2. w[1] \in Job /\ w[2] \in Attempts /\ w[2] # 0
  BY WorkerParts
<1>3. WorkerTypeOK'
  BY <1>0, <1>2 DEF OneExecutor, WorkerTypeOK, InTry, Handling, Ended
<1>4. OneExecutor'
  BY <1>0, <1>2, <1>3, PairsOfJob, WorkerParts DEF OneExecutor, WorkerTypeOK, InTry, Handling
<1>5. Issued'
  BY <1>0, <1>2, PairsOfJob, WorkerParts DEF Issued, OneExecutor, WorkerTypeOK, BeforeTry
<1>6. HasLeft'
  <2>1. ASSUME NEW v \in Worker, v # w PROVE Left(v)'
    <3>1. v[1] = w[1] => pc[v] \notin HasCandidate \/ branch' = branch
      BY <2>1, <1>0, <1>2, PairsOfJob, WorkerParts DEF OneExecutor, HasCandidate, InTry, Handling
    <3>2. pc[v] \in HasCandidate => branch'[v[1]] = branch[v[1]]
      BY <3>1, WorkerParts DEF OneExecutor, WorkerTypeOK
    <3> QED BY <1>0, <2>1, <3>2, LeftKept DEF HasLeft
  <2>2. Left(w)'
    BY <1>0, <1>2 DEF HasLeft, Left, OneExecutor, WorkerTypeOK, Admitted, HasWorktree,
       HasClaim, HasCandidate, HasReceipt, HasManifest, InTry, Decided, EffectsOf, Receipt
  <2> QED BY <2>1, <2>2 DEF HasLeft
<1>7. CompleteIsEarned'
  BY <1>2, AttemptsArePositive DEF CompleteIsEarned, CallsTyped, WorkerCall, Receipt, EffectsOf
<1>8. AdmittedBeforeWork' /\ BranchIsOwned' /\ SuccessIsEarned'
  <2>1. w = <<w[1], w[2]>>
    BY DEF Worker
  <2>2. AdmittedBeforeWork'
    BY <1>0, <1>2 DEF AdmittedBeforeWork, OneExecutor, WorkerTypeOK, HasLeft, Left,
                      Admitted, Decided
  <2>3. BranchIsOwned'
    BY DEF BranchIsOwned, EffectsOf
  <2>4. SuccessIsEarned'
    BY <1>0, <1>2 DEF SuccessIsEarned, OneExecutor, WorkerTypeOK, EffectsOf, Receipt
  <2> QED BY <2>2, <2>3, <2>4
<1>9. EndingsMatch'
  BY <1>0, <1>2, PairsOfJob, WorkerParts
     DEF EndingsMatch, OneExecutor, WorkerTypeOK, HasLeft, Left, HasCandidate, HasWorktree,
         BranchIsOwned, InTry, Handling
<1> QED BY <1>1, <1>4, <1>5, <1>6, <1>7, <1>8, <1>9

\* The branch and the commit, seen to end or killed.
LEMMA BranchKeeps ==
    ASSUME IInv, WorkerInv, NEW w \in Worker, CreateBranch(w) \/ Commit(w)
    PROVE  WorkerInv'
<1> USE DEF WorkerInv, Progress, Goto, vars, files, budget, CreateBranch, Commit
<1>0. pc \in [Worker -> {"absent", "finishing"} \cup BeforeTry \cup InTry
                           \cup Handling \cup Ended]
  BY DEF OneExecutor, WorkerTypeOK
<1>1. CallsTyped'
  BY DEF CallsTyped
<1>2. w[1] \in Job /\ w[2] \in Attempts /\ w[2] # 0
  BY WorkerParts
<1>3. WorkerTypeOK'
  BY <1>0, <1>2 DEF OneExecutor, WorkerTypeOK, InTry, Handling, Ended
<1>4. OneExecutor'
  BY <1>0, <1>2, <1>3, PairsOfJob, WorkerParts DEF OneExecutor, WorkerTypeOK, InTry, Handling
<1>5. Issued'
  BY <1>0, <1>2, PairsOfJob, WorkerParts DEF Issued, OneExecutor, WorkerTypeOK, BeforeTry
<1>6. HasLeft'
  <2>1. ASSUME NEW v \in Worker, v # w PROVE Left(v)'
    <3>1. v[1] = w[1] => pc[v] \notin HasCandidate \/ branch' = branch
      BY <2>1, <1>0, <1>2, PairsOfJob, WorkerParts DEF OneExecutor, HasCandidate, InTry, Handling
    <3>2. pc[v] \in HasCandidate => branch'[v[1]] = branch[v[1]]
      BY <3>1, WorkerParts DEF OneExecutor, WorkerTypeOK
    <3> QED BY <1>0, <2>1, <3>2, LeftKept DEF HasLeft
  <2>2. Left(w)'
    BY <1>0, <1>2 DEF HasLeft, Left, OneExecutor, WorkerTypeOK, Admitted, HasWorktree,
       HasClaim, HasCandidate, HasReceipt, HasManifest, InTry, Decided, EffectsOf, Receipt
  <2> QED BY <2>1, <2>2 DEF HasLeft
<1>7. CompleteIsEarned'
  BY <1>2, AttemptsArePositive DEF CompleteIsEarned, CallsTyped, WorkerCall, Receipt, EffectsOf
<1>8. AdmittedBeforeWork' /\ BranchIsOwned' /\ SuccessIsEarned'
  <2>1. w = <<w[1], w[2]>>
    BY DEF Worker
  <2>2. AdmittedBeforeWork'
    BY <1>0, <1>2 DEF AdmittedBeforeWork, OneExecutor, WorkerTypeOK, HasLeft, Left,
                      Admitted, Decided
  <2>3. BranchIsOwned'
    BY <1>0, <1>2, <2>1, AttemptsArePositive
       DEF BranchIsOwned, OneExecutor, WorkerTypeOK, HasLeft, Left, HasClaim, HasWorktree,
           HasCandidate, InTry, Worker, EffectsOf
  <2>4. SuccessIsEarned'
    BY <1>0, <1>2 DEF SuccessIsEarned, OneExecutor, WorkerTypeOK, EffectsOf, Receipt
  <2> QED BY <2>2, <2>3, <2>4
<1>9. EndingsMatch'
  BY <1>0, <1>2, PairsOfJob, WorkerParts
     DEF EndingsMatch, OneExecutor, WorkerTypeOK, HasLeft, Left, HasCandidate, HasWorktree,
         BranchIsOwned, InTry, Handling
<1> QED BY <1>1, <1>4, <1>5, <1>6, <1>7, <1>8, <1>9

\* The manifest.
LEMMA WriteBundleKeeps ==
    ASSUME IInv, WorkerInv, NEW w \in Worker, WriteBundle(w)
    PROVE  WorkerInv'
<1> USE DEF WorkerInv, Progress, Goto, vars, files, budget, WriteBundle
<1>0. pc \in [Worker -> {"absent", "finishing"} \cup BeforeTry \cup InTry
                           \cup Handling \cup Ended]
  BY DEF OneExecutor, WorkerTypeOK
<1>1. CallsTyped'
  BY DEF CallsTyped
<1>2. w[1] \in Job /\ w[2] \in Attempts /\ w[2] # 0
  BY WorkerParts
<1>3. WorkerTypeOK'
  BY <1>0, <1>2 DEF OneExecutor, WorkerTypeOK, InTry, Handling, Ended
<1>4. OneExecutor'
  BY <1>0, <1>2, <1>3, PairsOfJob, WorkerParts DEF OneExecutor, WorkerTypeOK, InTry, Handling
<1>5. Issued'
  BY <1>0, <1>2, PairsOfJob, WorkerParts DEF Issued, OneExecutor, WorkerTypeOK, BeforeTry
<1>6. HasLeft'
  <2>1. ASSUME NEW v \in Worker, v # w PROVE Left(v)'
    <3>1. v[1] = w[1] => pc[v] \notin HasCandidate \/ branch' = branch
      BY <2>1, <1>0, <1>2, PairsOfJob, WorkerParts DEF OneExecutor, HasCandidate, InTry, Handling
    <3>2. pc[v] \in HasCandidate => branch'[v[1]] = branch[v[1]]
      BY <3>1, WorkerParts DEF OneExecutor, WorkerTypeOK
    <3> QED BY <1>0, <2>1, <3>2, LeftKept DEF HasLeft
  <2>2. Left(w)'
    BY <1>0, <1>2 DEF HasLeft, Left, OneExecutor, WorkerTypeOK, Admitted, HasWorktree,
       HasClaim, HasCandidate, HasReceipt, HasManifest, InTry, Decided, EffectsOf, Receipt
  <2> QED BY <2>1, <2>2 DEF HasLeft
<1>7. CompleteIsEarned'
  BY <1>2, AttemptsArePositive DEF CompleteIsEarned, CallsTyped, WorkerCall, Receipt, EffectsOf
<1>8. AdmittedBeforeWork' /\ BranchIsOwned' /\ SuccessIsEarned'
  <2>1. w = <<w[1], w[2]>>
    BY DEF Worker
  <2>2. AdmittedBeforeWork'
    BY <1>0, <1>2 DEF AdmittedBeforeWork, OneExecutor, WorkerTypeOK, HasLeft, Left,
                      Admitted, Decided
  <2>3. BranchIsOwned'
    BY <1>0, <1>2, <2>1, AttemptsArePositive
       DEF BranchIsOwned, OneExecutor, WorkerTypeOK, HasLeft, Left, HasClaim, HasWorktree,
           HasCandidate, InTry, Worker, EffectsOf
  <2>4. SuccessIsEarned'
    BY <1>0, <1>2 DEF SuccessIsEarned, OneExecutor, WorkerTypeOK, EffectsOf, Receipt
  <2> QED BY <2>2, <2>3, <2>4
<1>9. EndingsMatch'
  BY <1>0, <1>2, PairsOfJob, WorkerParts
     DEF EndingsMatch, OneExecutor, WorkerTypeOK, HasLeft, Left, HasCandidate, HasWorktree,
         BranchIsOwned, InTry, Handling
<1> QED BY <1>1, <1>4, <1>5, <1>6, <1>7, <1>8, <1>9

\* The finally clause.
LEMMA FinallyKeeps ==
    ASSUME IInv, WorkerInv, NEW w \in Worker, Finally(w)
    PROVE  WorkerInv'
<1> USE DEF WorkerInv, Progress, Goto, vars, files, budget, Finally, Cleanup
<1>0. pc \in [Worker -> {"absent", "finishing"} \cup BeforeTry \cup InTry
                           \cup Handling \cup Ended]
  BY DEF OneExecutor, WorkerTypeOK
<1>1. CallsTyped'
  BY DEF CallsTyped
<1>2. w[1] \in Job /\ w[2] \in Attempts /\ w[2] # 0
  BY WorkerParts
<1>3. WorkerTypeOK'
  BY <1>0, <1>2 DEF OneExecutor, WorkerTypeOK, InTry, Handling, Ended
<1>4. OneExecutor'
  BY <1>0, <1>2, <1>3, PairsOfJob, WorkerParts DEF OneExecutor, WorkerTypeOK, InTry, Handling
<1>5. Issued'
  BY <1>0, <1>2, PairsOfJob, WorkerParts DEF Issued, OneExecutor, WorkerTypeOK, BeforeTry
<1>6. HasLeft'
  <2>1. ASSUME NEW v \in Worker, v # w PROVE Left(v)'
    <3>1. v[1] = w[1] => pc[v] \notin HasCandidate \/ branch' = branch
      BY <2>1, <1>0, <1>2, PairsOfJob, WorkerParts DEF OneExecutor, HasCandidate, InTry, Handling
    <3>2. pc[v] \in HasCandidate => branch'[v[1]] = branch[v[1]]
      BY <3>1, WorkerParts DEF OneExecutor, WorkerTypeOK
    <3> QED BY <1>0, <2>1, <3>2, LeftKept DEF HasLeft
  <2>2. Left(w)'
    BY <1>0, <1>2 DEF HasLeft, Left, OneExecutor, WorkerTypeOK, Admitted, HasWorktree,
       HasClaim, HasCandidate, HasReceipt, HasManifest, InTry, Decided, EffectsOf, Receipt
  <2> QED BY <2>1, <2>2 DEF HasLeft
<1>7. CompleteIsEarned'
  BY <1>2, AttemptsArePositive DEF CompleteIsEarned, CallsTyped, WorkerCall, Receipt, EffectsOf
<1>8. AdmittedBeforeWork' /\ BranchIsOwned' /\ SuccessIsEarned'
  <2>1. w = <<w[1], w[2]>>
    BY DEF Worker
  <2>2. AdmittedBeforeWork'
    BY <1>0, <1>2 DEF AdmittedBeforeWork, OneExecutor, WorkerTypeOK, HasLeft, Left,
                      Admitted, Decided
  <2>3. BranchIsOwned'
    BY <1>0, <1>2, <2>1, AttemptsArePositive
       DEF BranchIsOwned, OneExecutor, WorkerTypeOK, HasLeft, Left, HasClaim, HasWorktree,
           HasCandidate, InTry, Worker, EffectsOf
  <2>4. SuccessIsEarned'
    BY <1>0, <1>2 DEF SuccessIsEarned, OneExecutor, WorkerTypeOK, EffectsOf, Receipt
  <2> QED BY <2>2, <2>3, <2>4
<1>9. EndingsMatch'
  <2> SUFFICES ASSUME NEW v \in Worker, evidence[v[1]] = v[2]
               PROVE  /\ pc'[v] = "done" => /\ status[v[1]] = "succeeded"
                                            /\ branch'[v[1]] = "candidate"
                                            /\ worktree'[v[1]] = 0 \/ v \in littered'
                      /\ pc'[v] = "raised" => branch'[v[1]] = "none" \/ v \in littered'
    BY DEF EndingsMatch
  <2>1. v[1] \in Job
    BY WorkerParts
  <2>2. evidence[w[1]] = w[2]
    BY DEF OneExecutor, Handling
  <2>3. CASE v # w
    <3>1. v[1] # w[1]
      BY <2>2, <2>3, PairsOfJob
    <3> QED BY <1>0, <1>2, <2>1, <2>3, <3>1 DEF EndingsMatch, OneExecutor, WorkerTypeOK
  <2>4. CASE v = w /\ pc[w] = "finishing"
    <3>1. w \in added /\ branch[w[1]] = "candidate" /\ status[w[1]] = "succeeded"
      BY <2>4 DEF HasLeft, Left, HasWorktree, HasCandidate
    <3> QED BY <1>0, <1>2, <2>4, <3>1 DEF OneExecutor, WorkerTypeOK
  <2>5. CASE v = w /\ pc[w] = "unwinding"
    <3>1. w = <<w[1], w[2]>>
      BY DEF Worker
    <3>2. branch[w[1]] # "none" => w \in added
      BY <1>2, <2>2, <3>1 DEF BranchIsOwned
    <3> QED BY <1>0, <1>2, <2>5, <3>2 DEF OneExecutor, WorkerTypeOK
  <2> QED BY <2>3, <2>4, <2>5
<1> QED BY <1>1, <1>4, <1>5, <1>6, <1>7, <1>8, <1>9

LEMMA ExceptionKeeps ==
    ASSUME IInv, WorkerInv, NEW w \in Worker, Raise(w) \/ Crash(w) \/ GiveUp(w)
    PROVE  WorkerInv'
<1>1. CASE Raise(w)
  <2>1. Leaves(w, Handler(pc[w]))
    BY <1>1, HandlerLeads DEF Raise, Leaves, Handling
  <2> QED BY <1>1, <2>1, LeavesKeeps DEF Raise
<1>2. CASE Crash(w)
  <2>1. Leaves(w, "dead")
    BY <1>2 DEF Crash, Leaves
  <2> QED BY <1>2, <2>1, LeavesKeeps DEF Crash
<1>3. CASE GiveUp(w)
  <2>1. Leaves(w, Handler(pc[w]))
    BY <1>3, HandlerLeads DEF GiveUp, Leaves, Waiting, BeforeTry, InTry, Handling
  <2> QED BY <1>3, <2>1, LeavesKeeps DEF GiveUp
<1> QED BY <1>1, <1>2, <1>3

\* A process starts with a lease that nobody had before.
LEMMA LaunchKeeps ==
    ASSUME IInv, WorkerInv, NEW w \in Worker, Launch(w)
    PROVE  WorkerInv'
<1> USE DEF WorkerInv, Progress, files
<1>0. pc \in [Worker -> {"absent", "finishing"} \cup BeforeTry \cup InTry
                           \cup Handling \cup Ended]
  BY DEF OneExecutor, WorkerTypeOK
<1>1. PICK t \in LeaseTerms : LeaseNext(w[1], t)
  BY DEF Launch
<1>2. /\ lease_count' = [lease_count EXCEPT ![w[1]] = @ + 1]
      /\ w[2] = lease_count[w[1]] + 1
      /\ status' = [status EXCEPT ![w[1]] = "leased"]
      /\ UNCHANGED <<gate, effects, committing, calls, files>>
      /\ pc' = [pc EXCEPT ![w] = "checks"]
  BY <1>1, WorkerParts DEF Launch, LeaseNext, Goto, IInv, TypeOK
<1>3. \A j \in Job : lease_count[j] \in Nat
  BY DEF IInv, TypeOK
<1>4. pc[w] = "absent"
  BY <1>2, <1>3, WorkerParts DEF Issued
<1>5. [Next]_vars
  BY <1>1, WorkerParts DEF Next, AnyLease
<1>6. CallsTyped'
  BY <1>2 DEF CallsTyped
<1>7. WorkerTypeOK'
  BY <1>0, <1>2 DEF OneExecutor, WorkerTypeOK, BeforeTry
<1>8. OneExecutor'
  BY <1>0, <1>2, <1>7 DEF OneExecutor, InTry, Handling
<1>9. Issued'
  <2> SUFFICES ASSUME NEW v \in Worker
               PROVE  /\ pc'[v] # "absent" => v[2] <= lease_count'[v[1]]
                      /\ pc'[v] \in {"absent"} \cup BeforeTry => evidence[v[1]] # v[2]
    BY <1>2 DEF Issued
  <2>1. v[2] \in Nat /\ v[1] \in Job /\ w[1] \in Job
    BY WorkerParts
  <2>2. CASE v = w
    BY <1>2, <1>3, <1>4, <2>1, <2>2 DEF Issued, IInv, TypeOK
  <2>3. CASE v # w
    BY <1>0, <1>2, <1>3, <2>1, <2>3 DEF Issued, IInv, TypeOK
  <2> QED BY <2>2, <2>3
<1>10. HasLeft'
  <2>1. ASSUME NEW v \in Worker, v # w PROVE Left(v)'
    BY <1>0, <1>2, <1>5, <2>1, LeftKept DEF HasLeft
  <2>2. Left(w)'
    BY <1>0, <1>2 DEF Left, Admitted, HasWorktree, HasClaim, HasCandidate, HasReceipt,
                      HasManifest, InTry
  <2> QED BY <2>1, <2>2 DEF HasLeft
<1>11. CompleteIsEarned' /\ AdmittedBeforeWork' /\ BranchIsOwned'
  BY <1>2, <1>5, LedgerKeeps DEF CompleteIsEarned, AdmittedBeforeWork, BranchIsOwned
<1>12. SuccessIsEarned'
  <2>1. \A j \in Job : status'[j] = "succeeded" => status[j] = "succeeded"
    BY <1>2 DEF IInv, TypeOK
  <2> QED BY <1>2, <1>5, <2>1, LedgerKeeps DEF SuccessIsEarned
<1>13. EndingsMatch'
  <2>1. \A j \in Job : status[j] = "succeeded" => status'[j] = "succeeded"
    BY <1>5, LedgerKeeps
  <2> QED BY <1>0, <1>2, <2>1, WorkerParts DEF EndingsMatch
<1> QED BY <1>6, <1>8, <1>9, <1>10, <1>11, <1>12, <1>13

\* The ledger executes a call, at any time after it was sent.
LEMMA ServeKeeps ==
    ASSUME IInv, WorkerInv, NEW c \in calls, Serve(c)
    PROVE  WorkerInv'
<1> DEFINE w == Caller(c)
<1>0. w \in Worker /\ w[1] = c.job /\ w[2] = c.attempt /\ c.job \in Job
  BY CallParts DEF WorkerInv
<1>1. CASE ExecutesCheck(c) /\ UNCHANGED files
  <2>1. Next
    BY <1>1, CallParts, ExecutesCheckIsAStep DEF ExecutesCheck, WorkerInv
  <2>2. \A d \in committing' : d.attempt \in Attempts
    BY <1>1, CallParts DEF ExecutesCheck, CommitCheck, WorkerInv, CallsTyped
  <2>3. status' = status /\ pc' = pc /\ calls' \subseteq calls
    BY <1>1 DEF ExecutesCheck, CommitCheck
  <2> QED BY <1>1, <2>1, <2>2, <2>3, LedgerMoveKeeps
<1>2. CASE Executes(c) /\ Answer(c, Onward(c)) /\ UNCHANGED files
  <2>1. Next
    BY <1>2, CallParts, ExecutesIsAStep DEF WorkerInv
  <2>2. \A d \in committing' : d.attempt \in Attempts
    BY <1>0, <1>2, ExecutedCall DEF WorkerInv, CallsTyped
  <2>3. \A j \in Job : status'[j] = "succeeded" =>
          status[j] = "succeeded" \/ (/\ evidence[j] # 0
                                      /\ j \in sealed
                                      /\ Receipt(j, evidence[j]))
    <3>1. c.op = "complete" => /\ evidence[c.job] = c.attempt /\ c.attempt # 0
                               /\ c.job \in sealed /\ Receipt(c.job, c.attempt)
      BY <1>0, WorkerParts DEF WorkerInv, Progress, CompleteIsEarned
    <3> QED BY <1>0, <1>2, <3>1, ExecutedCall
  <2>4. CASE pc[w] = c.op
    <3>1. Goto(w, Onward(c)) /\ calls' \subseteq calls
      BY <1>2, <2>4 DEF Answer
    <3>2. c.op \in Waiting
      BY CallParts DEF WorkerInv
    <3>3. /\ c.op = "record_gate" => Decided(w[1], w[2], c.arg)'
          /\ c.op = "begin_effect" => EffectsOf(w[1], w[2])' # {}
          /\ c.op = "complete" => status'[w[1]] = "succeeded"
          /\ c.op # "commit_effect"
      <4>1. c.op # "commit_effect"
        BY <1>2 DEF Executes
      <4> QED BY <1>0, <1>2, <4>1, ExecutedCall
    <3>4. Leaves(w, Onward(c)) \/ Answered(w, Onward(c))
      <4> HIDE DEF w
      <4> QED BY <2>4, <3>2, <3>3 DEF Onward, Leaves, Answered, Waiting, BeforeTry, Handling
    <3> QED BY <1>0, <1>2, <2>1, <2>2, <2>3, <3>1, <3>4, LedgerMoveKeeps
  <2>5. CASE pc[w] # c.op
    <3>1. pc' = pc /\ calls' \subseteq calls
      BY <1>2, <2>5 DEF Answer
    <3> QED BY <1>2, <2>1, <2>2, <2>3, <3>1, LedgerMoveKeeps
  <2> QED BY <2>4, <2>5
<1> QED BY <1>1, <1>2 DEF Serve

LEMMA RefuseKeeps ==
    ASSUME IInv, WorkerInv, NEW c \in calls, Refuse(c)
    PROVE  WorkerInv'
<1> DEFINE w == Caller(c)
<1>0. w \in Worker /\ c.op \in Waiting
  BY CallParts DEF WorkerInv
<1>1. CASE pc[w] = c.op
  <2>1. Leaves(w, Handler(c.op)) /\ Goto(w, Handler(c.op)) /\ calls' \subseteq calls
    BY <1>0, <1>1, HandlerLeads
       DEF Refuse, Answer, Leaves, Waiting, BeforeTry, InTry, Handling
  <2> QED BY <1>0, <2>1, LeavesKeeps DEF Refuse
<1>2. CASE pc[w] # c.op
  <2>1. pc' = pc /\ calls' \subseteq calls /\ status' = status /\ committing' = committing
    BY <1>2 DEF Refuse, Answer, vars
  <2> QED BY <2>1, LedgerMoveKeeps DEF Refuse, WorkerInv, CallsTyped
<1> QED BY <1>1, <1>2

\* The second half of commit_effect.
LEMMA ServeCommitKeeps ==
    ASSUME IInv, WorkerInv, NEW d \in committing, ServeCommit(d)
    PROVE  WorkerInv'
<1> DEFINE c == CommitCall(d)
           w == <<d.job, d.attempt>>
<1>0. /\ w \in Worker /\ w[1] = d.job /\ w[2] = d.attempt
      /\ c.op = "commit_effect" /\ Caller(c) = w
  BY DEF IInv, TypeOK, Claim, WorkerInv, CallsTyped, Worker, CommitCall, Call, Caller
<1>1. Next /\ status' = status /\ calls' \subseteq calls /\ UNCHANGED files
  BY DEF ServeCommit, Next, AnyCommit, CommitUpdate, CommitWithoutChange, Answer
<1>2. \A e \in committing' : e.attempt \in Attempts
  BY DEF ServeCommit, CommitUpdate, CommitWithoutChange, WorkerInv, CallsTyped
<1>3. pc' = pc \/ \E loc : (Leaves(w, loc) \/ Answered(w, loc)) /\ Goto(w, loc)
  <2>1. CASE pc[w] # "commit_effect"
    BY <1>0, <2>1 DEF ServeCommit, Answer
  <2>2. CASE pc[w] = "commit_effect" /\ CommitUpdate(d) /\ Answer(c, Onward(c))
    <3> DEFINE e == [job |-> d.job, key |-> d.key, attempt |-> d.attempt,
                     state |-> "committed"]
    <3>1. e \in effects' /\ e.job = w[1] /\ e.attempt = w[2] /\ e.state = "committed"
      BY <1>0, <2>2 DEF CommitUpdate
    <3> HIDE DEF e
    <3>2. Receipt(w[1], w[2])'
      BY <3>1 DEF Receipt, EffectsOf
    <3>3. Goto(w, "receipted")
      BY <1>0, <2>2 DEF Answer, Onward
    <3> QED BY <2>2, <3>2, <3>3 DEF Answered
  <2>3. CASE pc[w] = "commit_effect" /\ CommitWithoutChange(d) /\ Answer(c, Handler(c.op))
    <3>1. Goto(w, "failing")
      BY <1>0, <2>3, HandlerLeads DEF Answer, InTry, BeforeTry, Handling
    <3> QED BY <2>3, <3>1 DEF Leaves, InTry
  <2> QED BY <2>1, <2>2, <2>3 DEF ServeCommit
<1> QED BY <1>0, <1>1, <1>2, <1>3, LedgerMoveKeeps

LEMMA EnvironmentKeeps ==
    ASSUME IInv, WorkerInv, LedgerEnvironment, UNCHANGED files
    PROVE  WorkerInv'
<1>1. pc' = pc /\ calls' = calls
  BY DEF LedgerEnvironment, client
<1> QED BY <1>1, EnvironmentMoves, LedgerMoveKeeps DEF WorkerInv, CallsTyped
----------------------------------------------------------------------------
(* The inductive invariant. *)

LEMMA WorkerStarts == WorkerInit => IInv /\ WorkerInv
<1> SUFFICES ASSUME WorkerInit PROVE IInv /\ WorkerInv
  OBVIOUS
<1>1. IInv
  BY TypeInit, SafeInit DEF WorkerInit, IInv
<1>2. CallsTyped
  BY DEF WorkerInit, Init, CallsTyped
<1>3. OneExecutor
  BY DEF WorkerInit, OneExecutor, WorkerTypeOK, InTry, Handling
<1>4. Issued
  BY WorkerParts DEF WorkerInit, Issued
<1>5. HasLeft
  BY DEF WorkerInit, HasLeft, Left, Admitted, HasWorktree, HasClaim, HasCandidate,
         HasReceipt, HasManifest, InTry
<1>6. CompleteIsEarned /\ AdmittedBeforeWork /\ BranchIsOwned /\ SuccessIsEarned
  BY DEF WorkerInit, Init, CompleteIsEarned, AdmittedBeforeWork, BranchIsOwned, SuccessIsEarned
<1>7. EndingsMatch
  BY DEF WorkerInit, EndingsMatch
<1> QED BY <1>1, <1>2, <1>3, <1>4, <1>5, <1>6, <1>7 DEF WorkerInv, Progress

LEMMA WorkerStutters == WorkerInv /\ UNCHANGED workerVars => WorkerInv'
BY DEF WorkerInv, Progress, workerVars, vars, client, files, budget, CallsTyped, OneExecutor,
       WorkerTypeOK, Issued, HasLeft, Left, CompleteIsEarned, AdmittedBeforeWork,
       BranchIsOwned, SuccessIsEarned, EndingsMatch, Decided, EffectsOf, Receipt

LEMMA WorkerKeeps == IInv /\ WorkerInv /\ [WorkerNext]_workerVars => WorkerInv'
<1> SUFFICES ASSUME IInv, WorkerInv, [WorkerNext]_workerVars PROVE WorkerInv'
  OBVIOUS
<1>1. CASE UNCHANGED workerVars
  BY <1>1, WorkerStutters
<1>2. CASE AnyLaunch
  BY <1>2, LaunchKeeps DEF AnyLaunch
<1>3. ASSUME NEW w \in Worker, Process(w) PROVE WorkerInv'
  BY <1>3, RequestKeeps, ClaimDirectoryKeeps, AddWorktreeKeeps, BranchKeeps,
     WriteBundleKeeps, FinallyKeeps, ExceptionKeeps DEF Process
<1>4. CASE Database
  BY <1>4, ServeKeeps, RefuseKeeps, ServeCommitKeeps DEF Database
<1>5. CASE LedgerEnvironment /\ UNCHANGED files
  BY <1>5, EnvironmentKeeps
<1> QED BY <1>1, <1>2, <1>3, <1>4, <1>5 DEF WorkerNext

LEMMA WorkerInductive == WorkerSpec => [](IInv /\ WorkerInv)
<1>1. IInv /\ WorkerInv /\ [WorkerNext]_workerVars => (IInv /\ WorkerInv)'
  BY WorkerKeeps, WorkerStepIsLedgerStep, TypeStep, SafeStep DEF IInv, WorkerInv
<1> QED BY <1>1, WorkerStarts, PTL DEF WorkerSpec

\* Of the processes of a job one at most works, and what stands in the file system
\* is its work: the directory test of main() is enough, whatever leases expire.
THEOREM WorkerExclusion == WorkerSpec => []OneExecutor
BY WorkerInductive, PTL DEF WorkerInv, Progress

\* The ledger is ahead: no work without its allow decision, no branch without its
\* claim, no success without its evidence and its receipt.
THEOREM WorkerLedgerLeads == WorkerSpec => []LedgerLeads
<1>1. IInv /\ WorkerInv => LedgerLeads
  <2> SUFFICES ASSUME IInv, WorkerInv PROVE LedgerLeads
    OBVIOUS
  <2>1. ClaimBeforeBranch
    BY DEF ClaimBeforeBranch, WorkerInv, Progress, BranchIsOwned, EffectsOf, IInv, Safe,
           NeverReplayed
  <2>2. AdmittedBeforeWork /\ SealedBeforeSuccess
    BY DEF WorkerInv, Progress, SuccessIsEarned, SealedBeforeSuccess, Receipt
  <2> QED BY <2>1, <2>2 DEF LedgerLeads
<1> QED BY <1>1, WorkerInductive, PTL

\* What a process tells its launcher is true of the ledger and of the repository.
THEOREM WorkerEndings == WorkerSpec => []EndingsMatch
BY WorkerInductive, PTL DEF WorkerInv, Progress

\* The workers move the ledger by its functions only: every behaviour of the
\* composition is one of the ledger, so that what is proved of JobLedger holds of it.
THEOREM WorkerRefinesLedger == WorkerSpec => ImplementsLedger
<1>1. IInv /\ WorkerInv /\ [WorkerNext]_workerVars => [Next]_vars
  BY WorkerStepIsLedgerStep DEF WorkerInv
<1>2. WorkerInit => Init
  BY DEF WorkerInit
<1> QED BY <1>1, <1>2, WorkerInductive, PTL DEF WorkerSpec, ImplementsLedger, Spec

\* So a job of the workers keeps the ledger's promise whatever is lost, late or
\* killed: at most one attempt acts, and it is over for good once it has ended.
THEOREM WorkerContract == WorkerSpec => ImplementsContract
BY WorkerRefinesLedger, LedgerContract DEF ImplementsLedger
=============================================================================
