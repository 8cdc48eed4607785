------------------------------- MODULE QAProofs -------------------------------
(***************************************************************************)
(* Theorems about QACoordinator, for any number of jobs, attempts,         *)
(* profiles and processes that run at once: no run of candidate code       *)
(* without its claim and none by a second attempt, the verdict in the      *)
(* ledger is the one on disk, and it was earned.                           *)
(***************************************************************************)
EXTENDS QACoordinator, JobLedgerProofs

USE LedgerAssumption

\* The calls under way, as main() and durable_call_sandbox send them.
QACall == [job : Job, attempt : Attempts, op : Waiting,
           arg : Decisions \cup Profile \cup Verdict \cup {"none"}]
CallsTyped ==
    /\ calls \subseteq QACall
    /\ \A c \in calls :
          /\ c.op = "record_gate"                      => c.arg \in Decisions
          /\ c.op \in {"begin_effect", "commit_effect"} => c.arg \in Profile
          /\ c.op = "complete"                         => c.arg \in Verdict
    /\ \A d \in committing : d.attempt \in Attempts

\* Places in main(): before the first claim, around a run, and out of the loop.
NoRunYet   == {"absent", "started", "heartbeat", "verifying", "rejected", "selecting",
               "cloning"} \cup BeforeTry
Inside     == {"inside", "sandboxed", "commit_effect", "receipted"}
HasClaim   == {"sandbox"} \cup Inside
AtProfile  == {"begin_effect"} \cup HasClaim
HasClone   == {"profiles", "reporting"} \cup AtProfile
Gone       == Handling \cup {"raised", "dead"}
HasBundle  == {"reported", "complete"}
AfterBundle == HasBundle \cup {"finishing", "done"} \cup Gone

RunOf(w, p)   == [job |-> w[1], attempt |-> w[2], profile |-> p]
Claimed(w, p) == \E e \in effects : e.job = w[1] /\ e.attempt = w[2] /\ e.key = <<w[1], p>>
Receipted(w, p) ==
    [job |-> w[1], key |-> <<w[1], p>>, attempt |-> w[2], state |-> "committed"] \in effects
NeverRan(w)   == \A r \in ran : ~ (r.job = w[1] /\ r.attempt = w[2])

\* No process has started for a lease that was not issued.
Issued == \A w \in Worker : pc[w] # "absent" => w[2] <= lease_count[w[1]]

\* What a process has behind it at each place.
Left(w) ==
    /\ pc[w] \in NoRunYet    => NeverRan(w) /\ w \notin disturbed
    /\ pc[w] \in {"cloning"} \cup HasClone => Baseline \subseteq selected[w]
    /\ pc[w] \in AtProfile   => current[w] \in todo[w]
    /\ pc[w] \in HasClaim    => Claimed(w, current[w])
    /\ pc[w] \in Inside      => RunOf(w, current[w]) \in ran
    /\ pc[w] = "receipted"   => Receipted(w, current[w])
    /\ pc[w] = "reporting"   => todo[w] = {}
    /\ \A p \in selected[w] \ todo[w] : RunOf(w, p) \in ran /\ Receipted(w, p)
HasLeft == \A w \in Worker : Left(w)

RunsAreClaimed == \A r \in ran : Claimed(<<r.job, r.attempt>>, r.profile)

\* A claim or receipt that is still under way is for the profile its sender is at,
\* who waits for it or has given the job up.
InFlight ==
    /\ \A c \in calls : c.op \in {"begin_effect", "commit_effect"} =>
          c.arg = current[Caller(c)] /\ pc[Caller(c)] \in {c.op} \cup Gone
    /\ \A d \in committing :
          LET w == <<d.job, d.attempt>>
          IN  d.key = <<d.job, current[w]>> /\ pc[w] \in {"commit_effect"} \cup Gone

\* The last of at most two attempts has its clone, or finds none and nobody is left
\* to make one.
Last(w) == w[2] = lease_count[w[1]] /\ w[2] <= 2
Alone(w) == \A v \in Worker : v[1] = w[1] /\ v # w => pc[v] \in {"absent"} \cup Ended
CloneIsOwn ==
    \A w \in Worker : Last(w) =>
        /\ pc[w] \in HasClone =>
              \/ workspace[w[1]] = w[2] /\ w \notin disturbed
              \/ workspace[w[1]] = 0 /\ Alone(w)
        /\ pc[w] = "reporting" => w \notin disturbed

\* A bundle stays what its writer found, who has no more to find out.
BundleStands ==
    \A j \in Job : output[j] # None =>
        LET w == <<j, output[j].attempt>>
        IN  /\ pc[w] \in AfterBundle
            /\ output[j].verdict = "reject" => NeverRan(w)
            /\ output[j].verdict # "reject" =>
                  /\ output[j].verdict = VerdictOf(w)
                  /\ Baseline \subseteq selected[w]
                  /\ todo[w] = {}
                  /\ Last(w) => w \notin disturbed

\* Whoever is about to complete the job, or has sent the call, wrote the bundle.
WriterCompletes ==
    /\ \A w \in Worker : pc[w] \in HasBundle =>
          output[w[1]] # None /\ output[w[1]].attempt = w[2]
    /\ \A c \in calls : c.op = "complete" =>
          output[c.job] = [attempt |-> c.attempt, verdict |-> c.arg]

QAInv == /\ CallsTyped
         /\ BundleMatchesLedger
         /\ Issued
         /\ HasLeft
         /\ RunsAreClaimed
         /\ InFlight
         /\ CloneIsOwn
         /\ BundleStands
         /\ WriterCompletes
----------------------------------------------------------------------------
(* What the steps share. *)

PCs == {"absent", "finishing"} \cup BeforeTry \cup InTry \cup Handling \cup Ended

LEMMA CallParts ==
    ASSUME CallsTyped, NEW c \in calls
    PROVE  /\ c.job \in Job /\ c.attempt \in Attempts /\ c.op \in Waiting
           /\ Caller(c) \in Worker /\ Caller(c)[1] = c.job /\ Caller(c)[2] = c.attempt
           /\ c.op = "record_gate" => c.arg \in Decisions
           /\ c.op \in {"begin_effect", "commit_effect"} => KeyOf(c) \in EffectKey
BY ProfileAssumption DEF CallsTyped, QACall, Caller, Worker, KeyOf

LEMMA Typed ==
    ASSUME QAInv
    PROVE  /\ pc \in [Worker -> PCs]
           /\ \A j \in Job : output[j] # None =>
                 /\ output[j].attempt \in Attempts
                 /\ output[j].verdict \in Verdict
                 /\ <<j, output[j].attempt>> \in Worker
BY DEF QAInv, BundleMatchesLedger, QATypeOK, PCs, Worker

\* A bundle is never the record that stands for none.
LEMMA NoneIsNoBundle ==
    ASSUME NEW n \in Attempts, NEW d
    PROVE  [attempt |-> n, verdict |-> d] # None
<1>1. n # 0
  BY AttemptsArePositive
<1>2. [attempt |-> n, verdict |-> d].attempt # None.attempt
  BY <1>1 DEF None
<1> QED BY <1>2

\* Every step is one of the ledger or leaves the ledger alone.
LEMMA QAStepIsLedgerStep ==
    ASSUME IInv, CallsTyped, [QANext]_qaVars
    PROVE  [Next]_vars
<1>1. CASE UNCHANGED qaVars
  BY <1>1 DEF qaVars
<1>2. ASSUME NEW w \in Worker, Launch(w) PROVE Next
  BY <1>2, WorkerParts DEF Launch, Next, AnyLease
<1>3. ASSUME NEW w \in Worker, Process(w) PROVE UNCHANGED vars
  BY <1>3 DEF Process, CheckAbsent, Gate, CallLedger, Verify, Select, Clone, Begin,
              StartProfile, Report, EndProfile, WriteBundle, Raise, Finally, Crash, GiveUp,
              Request
<1>4. ASSUME NEW c \in calls, Serve(c) PROVE Next
  BY <1>4, CallParts, ExecutesIsAStep, ExecutesCheckIsAStep DEF Serve, ExecutesCheck
<1>5. ASSUME NEW c \in calls, Refuse(c) PROVE UNCHANGED vars
  BY <1>5 DEF Refuse
<1>6. ASSUME NEW d \in committing, ServeCommit(d) PROVE Next
  BY <1>6 DEF ServeCommit, Next, AnyCommit
<1>7. CASE LedgerEnvironment
  BY <1>7, EnvironmentMoves
<1> QED BY <1>1, <1>2, <1>3, <1>4, <1>5, <1>6, <1>7 DEF QANext, AnyLaunch, Database

\* Claims and receipts stay.
LEMMA ClaimsStay ==
    ASSUME IInv, [Next]_vars
    PROVE  \A w, p : /\ Claimed(w, p) => Claimed(w, p)'
                     /\ Receipted(w, p) => Receipted(w, p)'
<1>1. ASSUME NEW w, NEW p, Claimed(w, p) PROVE Claimed(w, p)'
  BY <1>1, LedgerGrows DEF Claimed
<1>2. ASSUME NEW w, NEW p, Receipted(w, p) PROVE Receipted(w, p)'
  <2> DEFINE e == [job |-> w[1], key |-> <<w[1], p>>, attempt |-> w[2], state |-> "committed"]
  <2>1. e \in effects /\ e.state = "committed"
    BY <1>2 DEF Receipted
  <2>2. e \in effects'
    BY <2>1, LedgerGrows
  <2> QED BY <2>2 DEF Receipted
<1> QED BY <1>1, <1>2

\* A process that does nothing keeps what it has.
LEMMA LeftKept ==
    ASSUME IInv, [Next]_vars, NEW v, Left(v),
           pc'[v] = pc[v], selected'[v] = selected[v], todo'[v] = todo[v],
           current'[v] = current[v], ran \subseteq ran', NeverRan(v) => NeverRan(v)',
           v \in disturbed' => v \in disturbed \/ pc[v] = "inside"
    PROVE  Left(v)'
<1>1. /\ \A p : RunOf(v, p) \in ran => (RunOf(v, p) \in ran)'
      /\ \A p : Claimed(v, p) => Claimed(v, p)'
      /\ \A p : Receipted(v, p) => Receipted(v, p)'
  BY ClaimsStay DEF RunOf
<1>2. pc[v] \in NoRunYet /\ v \in disturbed' => v \in disturbed
  BY DEF NoRunYet, BeforeTry
<1> QED BY <1>1, <1>2 DEF Left

\* Nobody but w moves; the clone of w is its own, or there is none.
LEMMA CloneStays ==
    ASSUME CloneIsOwn, pc \in [Worker -> PCs], NEW w \in Worker, NEW loc, Goto(w, loc),
           pc[w] \notin {"absent"} \cup Ended, UNCHANGED <<workspace, lease_count>>,
           \A v \in Worker : v # w => (v \in disturbed' => v \in disturbed),
           Last(w) /\ loc \in HasClone =>
              \/ workspace[w[1]] = w[2] /\ w \notin disturbed'
              \/ workspace[w[1]] = 0 /\ Alone(w) /\ loc # "reporting"
    PROVE  CloneIsOwn'
<1>1. \A v \in Worker : pc'[v] = IF v = w THEN loc ELSE pc[v]
  BY DEF Goto
<1>2. \A v : Last(v)' <=> Last(v)
  BY DEF Last
<1>3. ASSUME NEW v \in Worker, Alone(v) PROVE Alone(v)'
  BY <1>1, <1>3 DEF Alone
<1>4. ASSUME NEW v \in Worker, Last(v)
      PROVE  /\ pc'[v] \in HasClone =>
                   \/ workspace'[v[1]] = v[2] /\ v \notin disturbed'
                   \/ workspace'[v[1]] = 0 /\ Alone(v)'
             /\ pc'[v] = "reporting" => v \notin disturbed'
  <2>1. CASE v = w
    BY <1>1, <1>3, <1>4, <2>1 DEF HasClone
  <2>2. CASE v # w
    BY <1>1, <1>3, <1>4, <2>2 DEF CloneIsOwn
  <2> QED BY <2>1, <2>2
<1> QED BY <1>2, <1>4 DEF CloneIsOwn

----------------------------------------------------------------------------
(* The steps that neither write nor send anything. *)

Moves(w, loc) ==
    \/ pc[w] \in PCs \ ({"absent"} \cup Ended) /\ loc \in Gone
    \/ pc[w] \in NoRunYet \ {"absent"} /\ loc \in NoRunYet \ {"absent", "cloning"}
    \/ pc[w] = "begin_effect"  /\ loc = "sandbox"   /\ Claimed(w, current[w])'
    \/ pc[w] = "commit_effect" /\ loc = "receipted" /\ Receipted(w, current[w])'
    \/ pc[w] = "complete"      /\ loc = "finishing"

ResultMatches ==
    \A j \in Job : result[j] # "none" =>
        /\ status[j] = "succeeded"
        /\ output[j] = [attempt |-> lease_count[j], verdict |-> result[j]]

LEMMA MoveKeeps ==
    ASSUME IInv, QAInv, [Next]_vars, lease_count' = lease_count,
           UNCHANGED <<files, local, runs>>,
           result' \in [Job -> Verdict \cup {"none"}], ResultMatches',
           calls' \subseteq calls, \A d \in committing' : d.attempt \in Attempts,
           InFlight',
           pc' = pc \/ \E w \in Worker : \E loc : Moves(w, loc) /\ Goto(w, loc)
    PROVE  QAInv'
<1> USE DEF QAInv, files, local, runs
<1>0. pc \in [Worker -> PCs]
  BY Typed
<1>1. ASSUME NEW v \in Worker
      PROVE  pc'[v] = pc[v] \/ (Moves(v, pc'[v]) /\ Goto(v, pc'[v]))
  <2>1. CASE pc' = pc
    BY <2>1
  <2>2. ASSUME NEW w \in Worker, NEW loc, Moves(w, loc), Goto(w, loc)
        PROVE  pc'[v] = pc[v] \/ (Moves(v, pc'[v]) /\ Goto(v, pc'[v]))
    <3>1. CASE v = w
      BY <1>0, <2>2, <3>1 DEF Goto
    <3>2. CASE v # w
      BY <1>0, <2>2, <3>2 DEF Goto
    <3> QED BY <3>1, <3>2
  <2> QED BY <2>1, <2>2
<1>2. CallsTyped'
  BY DEF CallsTyped
<1>3. BundleMatchesLedger'
  <2>1. \A v \in Worker : pc'[v] \in PCs
    BY <1>0, <1>1 DEF Moves, PCs, Gone, NoRunYet, BeforeTry, InTry, Handling, Ended
  <2>2. pc' = [v \in Worker |-> pc'[v]]
    BY <1>0 DEF Goto
  <2>3. pc' \in [Worker -> PCs]
    BY <2>1, <2>2
  <2>4. QATypeOK'
    BY <2>3 DEF BundleMatchesLedger, QATypeOK, PCs
  <2> QED BY <2>4 DEF BundleMatchesLedger, ResultMatches
<1>4. Issued'
  <2>1. \A v \in Worker : pc'[v] # "absent" => pc[v] # "absent"
    BY <1>1 DEF Moves, NoRunYet
  <2> QED BY <2>1 DEF Issued
<1>5. HasLeft'
  <2> SUFFICES ASSUME NEW v \in Worker PROVE Left(v)'
    BY DEF HasLeft
  <2>0. Left(v) /\ (NeverRan(v) => NeverRan(v)')
    BY DEF HasLeft, NeverRan
  <2>1. CASE pc'[v] = pc[v]
    BY <2>0, <2>1, LeftKept
  <2>2. CASE Moves(v, pc'[v])
    <3>1. /\ \A p : RunOf(v, p) \in ran => (RunOf(v, p) \in ran)'
          /\ \A p : Claimed(v, p) => Claimed(v, p)'
          /\ \A p : Receipted(v, p) => Receipted(v, p)'
      BY ClaimsStay DEF RunOf
    <3> QED BY <2>0, <2>2, <3>1
            DEF Left, Moves, NoRunYet, Inside, HasClaim, AtProfile, HasClone, Gone, Handling,
                BeforeTry, PCs
  <2> QED BY <1>1, <2>1, <2>2
<1>6. RunsAreClaimed'
  BY ClaimsStay DEF RunsAreClaimed
<1>7. CloneIsOwn'
  <2>1. CASE pc' = pc
    BY <2>1 DEF CloneIsOwn, Last, Alone
  <2>2. ASSUME NEW w \in Worker, NEW loc, Moves(w, loc), Goto(w, loc) PROVE CloneIsOwn'
    <3>1. pc[w] \notin {"absent"} \cup Ended
      BY <2>2 DEF Moves, Ended, NoRunYet, BeforeTry
    <3>2. loc \in HasClone => pc[w] \in HasClone /\ loc # "reporting"
      BY <2>2 DEF Moves, NoRunYet, HasClone, AtProfile, HasClaim, Inside, Gone, Handling,
                  BeforeTry
    <3> QED BY <1>0, <2>2, <3>1, <3>2, CloneStays DEF CloneIsOwn
  <2> QED BY <2>1, <2>2
<1>8. BundleStands'
  <2>1. \A v \in Worker : pc[v] \in AfterBundle => pc'[v] \in AfterBundle
    BY <1>1 DEF Moves, AfterBundle, HasBundle, Gone, NoRunYet, BeforeTry, Handling
  <2> QED BY <2>1, Typed DEF BundleStands, NeverRan, VerdictOf, Last
<1>9. WriterCompletes'
  <2>1. \A v \in Worker : pc'[v] \in HasBundle => pc[v] \in HasBundle
    BY <1>1 DEF Moves, HasBundle, Gone, NoRunYet, BeforeTry, Handling
  <2> QED BY <2>1 DEF WriterCompletes
<1> QED BY <1>2, <1>3, <1>4, <1>5, <1>6, <1>7, <1>8, <1>9

\* Nothing new is under way, and w does not leave a claim or a receipt behind.
LEMMA InFlightKept ==
    ASSUME QAInv, calls' \subseteq calls, committing' \subseteq committing,
           current' = current, IInv,
           pc' = pc \/ \E w \in Worker : \E loc :
               /\ Goto(w, loc)
               /\ loc \in Gone \/ pc[w] \notin Gone \cup {"begin_effect", "commit_effect"}
    PROVE  InFlight'
<1> USE DEF QAInv
<1>0. pc \in [Worker -> PCs]
  BY Typed
<1>1. \A v \in Worker, op \in {"begin_effect", "commit_effect"} :
        pc[v] \in {op} \cup Gone => pc'[v] \in {op} \cup Gone
  BY <1>0 DEF Goto
<1>2. ASSUME NEW c \in calls', c.op \in {"begin_effect", "commit_effect"}
      PROVE  c.arg = current'[Caller(c)] /\ pc'[Caller(c)] \in {c.op} \cup Gone
  <2>1. c \in calls /\ Caller(c) \in Worker
    BY CallParts
  <2> QED BY <1>1, <1>2, <2>1 DEF InFlight
<1>3. ASSUME NEW d \in committing'
      PROVE  LET w == <<d.job, d.attempt>>
             IN  d.key = <<d.job, current'[w]>> /\ pc'[w] \in {"commit_effect"} \cup Gone
  <2>1. d \in committing /\ <<d.job, d.attempt>> \in Worker
    BY DEF CallsTyped, IInv, TypeOK, Claim, Worker
  <2> QED BY <1>1, <2>1 DEF InFlight
<1> QED BY <1>2, <1>3 DEF InFlight

LEMMA ResultKept ==
    ASSUME IInv, QAInv, [Next]_vars, UNCHANGED <<output, result, lease_count>>
    PROVE  ResultMatches' /\ result' \in [Job -> Verdict \cup {"none"}]
BY LedgerKeeps DEF QAInv, BundleMatchesLedger, QATypeOK, ResultMatches

LEMMA HandlerLeads ==
    ASSUME NEW loc \in BeforeTry \cup InTry \cup Handling
    PROVE  Handler(loc) \in Gone /\ loc \in PCs \ ({"absent"} \cup Ended)
BY DEF Handler, BeforeTry, InTry, Handling, Gone, PCs, Ended

LEMMA QuietKeeps ==
    ASSUME IInv, QAInv, NEW w \in Worker,
           CheckAbsent(w) \/ Verify(w) \/ Raise(w) \/ Crash(w) \/ GiveUp(w)
    PROVE  QAInv'
<1>1. UNCHANGED <<vars, calls, files, local, runs, result>>
  BY DEF CheckAbsent, Verify, Raise, Crash, GiveUp
<1>2. PICK loc :
        /\ Goto(w, loc)
        /\ Moves(w, loc)
        /\ loc \in Gone \/ pc[w] \notin Gone \cup {"begin_effect", "commit_effect"}
  <2>1. CASE CheckAbsent(w)
    BY <2>1 DEF CheckAbsent, Moves, NoRunYet, BeforeTry, Gone, Handling
  <2>2. CASE Verify(w)
    BY <2>2 DEF Verify, Moves, NoRunYet, Gone, Handling
  <2>3. CASE Raise(w) \/ GiveUp(w)
    <3>1. pc[w] \in BeforeTry \cup InTry \cup Handling /\ Goto(w, Handler(pc[w]))
      BY <2>3 DEF Raise, GiveUp, Waiting, BeforeTry, InTry, Handling
    <3> QED BY <3>1, HandlerLeads DEF Moves
  <2>4. CASE Crash(w)
    <3>1. pc[w] \in PCs \ ({"absent"} \cup Ended) /\ Goto(w, "dead")
      BY <2>4, Typed DEF Crash
    <3> QED BY <3>1 DEF Moves, Gone
  <2> QED BY <2>1, <2>2, <2>3, <2>4
<1>3. lease_count' = lease_count /\ committing' = committing /\ UNCHANGED <<current, output>>
  BY <1>1 DEF vars, budget, local, files
<1>4. InFlight'
  BY <1>1, <1>2, <1>3, InFlightKept
<1> QED BY <1>1, <1>2, <1>3, <1>4, MoveKeeps, ResultKept DEF QAInv, CallsTyped

\* A call is sent; what it carries is what its sender is at.
LEMMA RequestKeeps ==
    ASSUME IInv, QAInv, NEW w \in Worker, Gate(w) \/ CallLedger(w) \/ Begin(w)
    PROVE  QAInv'
<1> USE DEF QAInv
<1>0. pc \in [Worker -> PCs]
  BY Typed
<1>1. PICK op \in Waiting, arg \in Decisions \cup Profile \cup Verdict \cup {"none"} :
         /\ Request(w, op, arg)
         /\ UNCHANGED <<files, selected, todo, failed, runs, result>>
         /\ \/ pc[w] = "checked"   /\ op = "record_gate" /\ arg \in Decisions /\ current' = current
            \/ pc[w] = "admitted"  /\ op = "start"       /\ current' = current
            \/ pc[w] = "started"   /\ op = "heartbeat"   /\ current' = current
            \/ pc[w] = "sandboxed" /\ op = "commit_effect" /\ arg = current[w] /\ current' = current
            \/ pc[w] = "reported"  /\ op = "complete" /\ arg = output[w[1]].verdict
                                   /\ current' = current
            \/ pc[w] = "failing"   /\ op = "fail"        /\ current' = current
            \/ /\ pc[w] = "profiles" /\ op = "begin_effect" /\ arg \in todo[w]
               /\ current' = [current EXCEPT ![w] = arg]
  <2>1. CASE Gate(w)
    BY <2>1 DEF Gate, Waiting, local
  <2>2. CASE CallLedger(w)
    <3>1. pc[w] = "reported" => output[w[1]].verdict \in Verdict
      BY Typed, WorkerParts DEF WriterCompletes, HasBundle
    <3>2. pc[w] = "sandboxed" => current[w] \in Profile
      BY DEF HasLeft, Left, AtProfile, HasClaim, Inside, BundleMatchesLedger, QATypeOK
    <3>3. /\ pc[w] \in {"admitted", "started", "sandboxed", "reported", "failing"}
          /\ Request(w, NextCall[pc[w]], ArgOf(w))
          /\ UNCHANGED <<files, local, runs, result>>
      BY <2>2 DEF CallLedger, NextCall
    <3> QED BY <3>1, <3>2, <3>3 DEF NextCall, ArgOf, Waiting, local
  <2>3. CASE Begin(w)
    <3>1. \A p \in todo[w] : p \in Profile
      BY DEF BundleMatchesLedger, QATypeOK
    <3> QED BY <2>3, <3>1 DEF Begin, Waiting
  <2> QED BY <2>1, <2>2, <2>3
<1> DEFINE c0 == [job |-> w[1], attempt |-> w[2], op |-> op, arg |-> arg]
<1>2. /\ pc' = [pc EXCEPT ![w] = op]
      /\ calls' = calls \cup {c0}
      /\ UNCHANGED <<vars, files, selected, todo, failed, runs, result>>
  BY <1>1 DEF Request, Goto, Call
<1>3. /\ op = "complete" => arg \in Verdict /\ output[w[1]] = [attempt |-> w[2], verdict |-> arg]
      /\ op \in {"begin_effect", "commit_effect"} => arg \in Profile
  <2>1. pc[w] = "reported" =>
          /\ output[w[1]].verdict \in Verdict
          /\ output[w[1]] = [attempt |-> w[2], verdict |-> output[w[1]].verdict]
    BY WorkerParts DEF WriterCompletes, HasBundle, BundleMatchesLedger, QATypeOK
  <2>2. pc[w] = "sandboxed" => current[w] \in Profile
    BY DEF HasLeft, Left, AtProfile, HasClaim, Inside, BundleMatchesLedger, QATypeOK
  <2>3. todo[w] \subseteq Profile
    BY DEF BundleMatchesLedger, QATypeOK
  <2> QED BY <1>1, <2>1, <2>2, <2>3
<1>4. /\ c0.job = w[1] /\ c0.attempt = w[2] /\ c0.op = op /\ c0.arg = arg
      /\ Caller(c0) = w /\ c0 \in QACall
  BY <1>1, WorkerParts DEF Caller, QACall
<1> HIDE DEF c0
<1>5. [Next]_vars /\ lease_count' = lease_count /\ status' = status /\ effects' = effects
      /\ committing' = committing
  BY <1>2 DEF vars, budget
<1>6. CallsTyped'
  BY <1>1, <1>2, <1>3, <1>4, <1>5 DEF CallsTyped
<1>7. BundleMatchesLedger'
  <2>1. \A c \in calls' : Caller(c) \in Worker /\ c.op \in Waiting
    BY <1>6 DEF CallsTyped, QACall, Caller, Worker
  <2>2. pc' \in [Worker -> {"absent", "finishing"} \cup BeforeTry \cup InTry \cup Handling
                              \cup Ended]
    BY <1>0, <1>1, <1>2 DEF PCs, BeforeTry, InTry, Handling
  <2>3. current' \in [Worker -> Profile \cup {NoProfile}]
    BY <1>1, <1>3 DEF BundleMatchesLedger, QATypeOK
  <2>4. QATypeOK'
    BY <1>2, <2>1, <2>2, <2>3 DEF BundleMatchesLedger, QATypeOK, files, runs
  <2> QED BY <1>2, <1>5, <2>4 DEF BundleMatchesLedger, files
<1>8. Issued'
  BY <1>0, <1>1, <1>2, <1>5 DEF Issued
<1>9. HasLeft'
  <2> SUFFICES ASSUME NEW v \in Worker PROVE Left(v)'
    BY DEF HasLeft
  <2>0. Left(v) /\ (NeverRan(v) => NeverRan(v)') /\ current \in [Worker -> Profile \cup {NoProfile}]
    BY <1>2 DEF HasLeft, NeverRan, runs, BundleMatchesLedger, QATypeOK
  <2>1. CASE v # w
    BY <1>0, <1>1, <1>2, <1>5, <2>0, <2>1, LeftKept DEF runs
  <2>2. CASE v = w
    <3>1. pc'[w] = op /\ (op = "begin_effect" => current'[w] \in todo[w])
      BY <1>0, <1>1, <1>2, <2>0
    <3> QED BY <1>1, <1>2, <1>5, <2>0, <2>2, <3>1
            DEF Left, NoRunYet, BeforeTry, HasClone, AtProfile, HasClaim, Inside, Claimed,
                Receipted, RunOf, runs
  <2> QED BY <2>1, <2>2
<1>10. RunsAreClaimed'
  BY <1>2, <1>5 DEF RunsAreClaimed, Claimed, runs
<1>11. InFlight'
  <2>0. current \in [Worker -> Profile \cup {NoProfile}]
    BY DEF BundleMatchesLedger, QATypeOK
  <2>1. \A v \in Worker, o \in {"begin_effect", "commit_effect"} :
          pc[v] \in {o} \cup Gone => pc'[v] \in {o} \cup Gone /\ current'[v] = current[v]
    BY <1>0, <1>1, <1>2, <2>0 DEF Gone, Handling
  <2>2. ASSUME NEW c \in calls', c.op \in {"begin_effect", "commit_effect"}
        PROVE  c.arg = current'[Caller(c)] /\ pc'[Caller(c)] \in {c.op} \cup Gone
    <3>1. CASE c \in calls
      BY <2>1, <2>2, <3>1, CallParts DEF InFlight
    <3>2. CASE c = c0
      BY <1>0, <1>1, <1>2, <1>4, <2>0, <2>2, <3>2
    <3> QED BY <1>2, <3>1, <3>2
  <2>3. ASSUME NEW d \in committing'
        PROVE  LET v == <<d.job, d.attempt>>
               IN  d.key = <<d.job, current'[v]>> /\ pc'[v] \in {"commit_effect"} \cup Gone
    <3>1. d \in committing /\ <<d.job, d.attempt>> \in Worker
      BY <1>5 DEF CallsTyped, IInv, TypeOK, Claim, Worker
    <3> QED BY <2>1, <3>1 DEF InFlight
  <2> QED BY <2>2, <2>3 DEF InFlight
<1>12. CloneIsOwn'
  <2>1. /\ Goto(w, op) /\ pc[w] \notin {"absent"} \cup Ended
        /\ op \in HasClone => pc[w] \in HasClone /\ op # "reporting"
    BY <1>1, <1>2 DEF Goto, Ended, HasClone, AtProfile, HasClaim, Inside
  <2> QED BY <1>0, <1>2, <1>5, <2>1, CloneStays DEF CloneIsOwn, runs, files
<1>13. BundleStands'
  <2>1. \A v \in Worker : pc[v] \in AfterBundle => pc'[v] \in AfterBundle
    BY <1>0, <1>1, <1>2 DEF AfterBundle, HasBundle, Gone, Handling
  <2> QED BY <1>2, <1>5, <2>1, Typed DEF BundleStands, NeverRan, VerdictOf, Last, files, runs
<1>14. WriterCompletes'
  <2>1. \A v \in Worker : pc'[v] \in HasBundle => pc[v] \in HasBundle
    BY <1>0, <1>1, <1>2 DEF HasBundle
  <2> QED BY <1>2, <1>3, <1>4, <2>1 DEF WriterCompletes, files
<1> QED BY <1>6, <1>7, <1>8, <1>9, <1>10, <1>11, <1>12, <1>13, <1>14

\* A process starts with a lease that nobody had before.
LEMMA LaunchKeeps ==
    ASSUME IInv, QAInv, NEW w \in Worker, Launch(w)
    PROVE  QAInv'
<1> USE DEF QAInv, files, local, runs
<1>0. pc \in [Worker -> PCs]
  BY Typed
<1>1. PICK t \in LeaseTerms : LeaseNext(w[1], t)
  BY DEF Launch
<1>2. /\ lease_count' = [lease_count EXCEPT ![w[1]] = @ + 1]
      /\ w[2] = lease_count[w[1]] + 1
      /\ status' = [status EXCEPT ![w[1]] = "leased"]
      /\ status[w[1]] \in Leasable
      /\ UNCHANGED <<gate, effects, committing, calls, files, local, runs, result>>
      /\ pc' = [pc EXCEPT ![w] = "checks"]
  BY <1>1, WorkerParts DEF Launch, LeaseNext, Ready, Goto, IInv, TypeOK
<1>3. \A j \in Job : lease_count[j] \in Nat
  BY DEF IInv, TypeOK
<1>4. pc[w] = "absent"
  BY <1>2, <1>3, WorkerParts DEF Issued
<1>5. [Next]_vars
  BY <1>1, WorkerParts DEF Next, AnyLease
<1>6. CallsTyped'
  BY <1>2 DEF CallsTyped
<1>7. BundleMatchesLedger'
  <2>1. QATypeOK'
    BY <1>0, <1>2 DEF BundleMatchesLedger, QATypeOK, BeforeTry, PCs
  <2>2. \A j \in Job : status[j] = "succeeded" =>
          status'[j] = "succeeded" /\ lease_count'[j] = lease_count[j]
    BY <1>2 DEF IInv, TypeOK, Leasable
  <2> QED BY <1>2, <2>1, <2>2 DEF BundleMatchesLedger
<1>8. Issued'
  <2> SUFFICES ASSUME NEW v \in Worker, pc'[v] # "absent" PROVE v[2] <= lease_count'[v[1]]
    BY DEF Issued
  <2>1. v[2] \in Nat /\ v[1] \in Job /\ w[1] \in Job
    BY WorkerParts
  <2>2. CASE v = w
    BY <1>2, <1>3, <2>1, <2>2 DEF IInv, TypeOK
  <2>3. CASE v # w
    BY <1>0, <1>2, <1>3, <2>1, <2>3 DEF Issued, IInv, TypeOK
  <2> QED BY <2>2, <2>3
<1>9. HasLeft'
  <2> SUFFICES ASSUME NEW v \in Worker PROVE Left(v)'
    BY DEF HasLeft
  <2>0. Left(v) /\ (NeverRan(v) => NeverRan(v)')
    BY <1>2 DEF HasLeft, NeverRan
  <2>1. CASE v # w
    BY <1>0, <1>2, <1>5, <2>0, <2>1, LeftKept
  <2>2. CASE v = w
    <3>1. pc'[w] = "checks"
      BY <1>0, <1>2
    <3> QED BY <1>2, <1>4, <2>0, <2>2, <3>1
            DEF Left, NoRunYet, BeforeTry, HasClone, AtProfile, HasClaim, Inside, Receipted, RunOf
  <2> QED BY <2>1, <2>2
<1>10. RunsAreClaimed'
  BY <1>2 DEF RunsAreClaimed, Claimed
<1>11. InFlight'
  <2>1. \A v \in Worker : v # w => pc'[v] = pc[v]
    BY <1>0, <1>2
  <2>2. ASSUME NEW c \in calls', c.op \in {"begin_effect", "commit_effect"}
        PROVE  c.arg = current'[Caller(c)] /\ pc'[Caller(c)] \in {c.op} \cup Gone
    <3>1. c \in calls /\ Caller(c) \in Worker
      BY <1>2, CallParts
    <3>2. c.arg = current[Caller(c)] /\ pc[Caller(c)] \in {c.op} \cup Gone
      BY <2>2, <3>1 DEF InFlight
    <3>3. Caller(c) # w
      BY <1>4, <2>2, <3>2 DEF Gone, Handling
    <3> QED BY <1>2, <2>1, <3>1, <3>2, <3>3
  <2>3. ASSUME NEW d \in committing'
        PROVE  LET v == <<d.job, d.attempt>>
               IN  d.key = <<d.job, current'[v]>> /\ pc'[v] \in {"commit_effect"} \cup Gone
    <3>1. d \in committing /\ <<d.job, d.attempt>> \in Worker
      BY <1>2 DEF CallsTyped, IInv, TypeOK, Claim, Worker
    <3> QED BY <1>2, <1>4, <2>1, <3>1 DEF InFlight, Gone, Handling
  <2> QED BY <2>2, <2>3 DEF InFlight
<1>12. CloneIsOwn'
  <2> SUFFICES ASSUME NEW v \in Worker, Last(v)'
               PROVE  /\ pc'[v] \in HasClone =>
                            \/ workspace'[v[1]] = v[2] /\ v \notin disturbed'
                            \/ workspace'[v[1]] = 0 /\ Alone(v)'
                      /\ pc'[v] = "reporting" => v \notin disturbed'
    BY DEF CloneIsOwn
  <2>0. v[1] \in Job /\ w[1] \in Job
    BY WorkerParts
  <2>1. CASE v[1] = w[1]
    <3>1. v[2] = w[2]
      BY <1>2, <1>3, <2>0, <2>1 DEF Last, IInv, TypeOK
    <3>2. v = w
      BY <2>1, <3>1, PairsOfJob
    <3> QED BY <1>0, <1>2, <3>2 DEF HasClone, AtProfile, HasClaim, Inside
  <2>2. CASE v[1] # w[1]
    <3>1. Last(v) /\ pc'[v] = pc[v]
      BY <1>0, <1>2, <2>0, <2>2 DEF Last, IInv, TypeOK
    <3>2. Alone(v) => Alone(v)'
      BY <1>0, <1>2, <2>2 DEF Alone
    <3> QED BY <1>2, <3>1, <3>2 DEF CloneIsOwn
  <2> QED BY <2>1, <2>2
<1>13. BundleStands'
  <2> SUFFICES ASSUME NEW j \in Job, output[j] # None
               PROVE  LET v == <<j, output[j].attempt>>
                      IN  /\ pc'[v] \in AfterBundle
                          /\ Last(v)' => Last(v)
    BY <1>2 DEF BundleStands, NeverRan, VerdictOf
  <2> DEFINE v == <<j, output[j].attempt>>
  <2>1. v \in Worker /\ v # w /\ pc[v] \in AfterBundle
    BY <1>4, Typed DEF BundleStands, AfterBundle, HasBundle, Gone, Handling
  <2>2. pc'[v] = pc[v]
    BY <1>0, <1>2, <2>1
  <2>3. Last(v)' => Last(v)
    <3>1. ASSUME NEW u \in Worker, u # w PROVE Last(u)' => Last(u)
      <4>1. u[1] \in Job /\ w[1] \in Job
        BY WorkerParts
      <4>2. u[1] = w[1] => u[2] # w[2]
        BY <3>1, PairsOfJob
      <4> QED BY <1>2, <1>3, <4>1, <4>2 DEF Last, IInv, TypeOK
    <3>2. v' = v
      BY <1>2
    <3> QED BY <2>1, <3>1, <3>2 DEF Last
  <2> QED BY <2>1, <2>2, <2>3
<1>14. WriterCompletes'
  BY <1>0, <1>2 DEF WriterCompletes, HasBundle
<1> QED BY <1>6, <1>7, <1>8, <1>9, <1>10, <1>11, <1>12, <1>13, <1>14
----------------------------------------------------------------------------
(* The steps on the candidate: before the bundle, and w's own. *)

LEMMA EarlyKeeps ==
    ASSUME IInv, QAInv, NEW w \in Worker, NEW loc, Goto(w, loc),
           UNCHANGED <<vars, calls, output, result, current>>,
           pc[w] \in InTry \ ({"begin_effect", "commit_effect"} \cup HasBundle),
           loc \in InTry \ HasBundle,
           ran \subseteq ran', \A r \in ran' \ ran : r.job = w[1] /\ r.attempt = w[2],
           \A v \in Worker : v # w =>
              /\ selected'[v] = selected[v] /\ todo'[v] = todo[v]
              /\ v \in failed' <=> v \in failed
              /\ v \in disturbed' => v \in disturbed,
           QATypeOK', Left(w)', RunsAreClaimed', CloneIsOwn'
    PROVE  QAInv'
<1> USE DEF QAInv
<1>0. pc \in [Worker -> PCs]
  BY Typed
<1>1. /\ \A v \in Worker : v # w => pc'[v] = pc[v]
      /\ pc[w] \notin {"absent"} \cup Ended \cup Gone \cup AfterBundle
  BY <1>0 DEF Goto, InTry, Ended, Gone, AfterBundle, HasBundle, Handling
<1>2. [Next]_vars /\ lease_count' = lease_count /\ status' = status /\ committing' = committing
  BY DEF vars, budget
<1>3. \A v \in Worker : v # w => (NeverRan(v) => NeverRan(v)')
  BY PairsOfJob DEF NeverRan
<1>4. CallsTyped'
  BY <1>2 DEF CallsTyped
<1>5. BundleMatchesLedger'
  BY <1>2 DEF BundleMatchesLedger
<1>6. Issued'
  BY <1>1, <1>2 DEF Issued
<1>7. HasLeft'
  BY <1>1, <1>2, <1>3, LeftKept DEF HasLeft
<1>8. InFlight'
  BY <1>1, <1>2, InFlightKept
<1>9. BundleStands'
  <2> SUFFICES ASSUME NEW j \in Job, output[j] # None
               PROVE  LET v == <<j, output[j].attempt>>
                      IN  /\ pc'[v] = pc[v]
                          /\ NeverRan(v) => NeverRan(v)'
                          /\ selected'[v] = selected[v] /\ todo'[v] = todo[v]
                          /\ v \in failed' <=> v \in failed
                          /\ v \in disturbed' => v \in disturbed
    BY <1>2 DEF BundleStands, VerdictOf, Last
  <2> DEFINE v == <<j, output[j].attempt>>
  <2>1. v \in Worker /\ v # w
    BY <1>1, Typed DEF BundleStands
  <2> QED BY <1>1, <1>3, <2>1
<1>10. WriterCompletes'
  <2>1. \A v \in Worker : pc'[v] \in HasBundle => pc[v] \in HasBundle
    BY <1>0, <1>1 DEF Goto
  <2> QED BY <2>1 DEF WriterCompletes
<1> QED BY <1>4, <1>5, <1>6, <1>7, <1>8, <1>9, <1>10

LEMMA SelectKeeps ==
    ASSUME IInv, QAInv, NEW w \in Worker, Select(w) \/ Clone(w)
    PROVE  QAInv'
<1> USE DEF QAInv
<1>0. /\ pc \in [Worker -> PCs] /\ Left(w) /\ QATypeOK
      /\ w[1] \in Job /\ w[2] \in Attempts
  BY Typed, WorkerParts DEF HasLeft, BundleMatchesLedger
<1>1. CASE Select(w)
  <2>1. PICK S \in SUBSET Profile :
          /\ Baseline \subseteq S
          /\ selected' = [selected EXCEPT ![w] = S]
          /\ todo'     = [todo EXCEPT ![w] = S]
    BY <1>1 DEF Select
  <2>2. /\ pc[w] = "selecting" /\ Goto(w, "cloning") /\ pc'[w] = "cloning"
        /\ UNCHANGED <<vars, calls, files, current, failed, runs, result>>
    BY <1>0, <1>1 DEF Select, Goto
  <2>3. selected'[w] = S /\ todo'[w] = S
    BY <1>0, <2>1 DEF QATypeOK
  <2>4. QATypeOK'
    <3>1. /\ selected' \in [Worker -> SUBSET Profile] /\ todo' \in [Worker -> SUBSET Profile]
          /\ \A v \in Worker : todo'[v] \subseteq selected'[v]
      BY <1>0, <2>1 DEF QATypeOK
    <3> QED BY <1>0, <2>2, <3>1 DEF QATypeOK, Goto, InTry, files, runs
  <2>5. Left(w)'
    BY <1>0, <2>1, <2>2, <2>3
       DEF Left, NoRunYet, BeforeTry, HasClone, AtProfile, HasClaim, Inside, NeverRan, runs
  <2>6. RunsAreClaimed'
    BY <2>2 DEF RunsAreClaimed, Claimed, vars, runs
  <2>7. CloneIsOwn'
    BY <1>0, <2>2, CloneStays
       DEF Ended, HasClone, AtProfile, HasClaim, Inside, vars, budget, files, runs
  <2>8. \A v \in Worker : v # w => selected'[v] = selected[v] /\ todo'[v] = todo[v]
    BY <1>0, <2>1 DEF QATypeOK
  <2> QED BY <2>2, <2>4, <2>5, <2>6, <2>7, <2>8, EarlyKeeps DEF InTry, HasBundle, files, runs
<1>2. CASE Clone(w)
  <2>1. /\ pc[w] = "cloning" /\ Goto(w, "profiles") /\ pc'[w] = "profiles"
        /\ workspace[w[1]] = 0 /\ workspace' = [workspace EXCEPT ![w[1]] = w[2]]
        /\ UNCHANGED <<vars, calls, output, local, runs, result>>
    BY <1>0, <1>2 DEF Clone, Goto
  <2>2. QATypeOK'
    BY <1>0, <2>1 DEF QATypeOK, Goto, InTry, local, runs
  <2>3. Left(w)'
    BY <1>0, <2>1
       DEF Left, NoRunYet, BeforeTry, HasClone, AtProfile, HasClaim, Inside, RunOf, Receipted,
           vars, local, runs
  <2>4. RunsAreClaimed'
    BY <2>1 DEF RunsAreClaimed, Claimed, vars, runs
  <2>5. CloneIsOwn'
    <3> SUFFICES ASSUME NEW v \in Worker, Last(v)
                 PROVE  /\ pc'[v] \in HasClone =>
                              \/ workspace'[v[1]] = v[2] /\ v \notin disturbed'
                              \/ workspace'[v[1]] = 0 /\ Alone(v)'
                        /\ pc'[v] = "reporting" => v \notin disturbed'
      BY <2>1 DEF CloneIsOwn, Last, vars, budget
    <3>0. v[1] \in Job /\ v[2] # 0
      BY WorkerParts
    <3>1. CASE v = w
      BY <1>0, <2>1, <3>1 DEF QATypeOK, Left, NoRunYet, runs
    <3>2. CASE v # w
      <4>1. pc'[v] = pc[v] /\ UNCHANGED disturbed
        BY <1>0, <2>1, <3>2 DEF Goto, runs
      <4>2. pc[v] \in HasClone => v[1] # w[1]
        BY <2>1, <3>0, <3>2 DEF CloneIsOwn, Alone, Ended
      <4>3. v[1] # w[1] => workspace'[v[1]] = workspace[v[1]] /\ (Alone(v) => Alone(v)')
        BY <1>0, <2>1, <3>0 DEF QATypeOK, Alone, Goto
      <4> QED BY <4>1, <4>2, <4>3 DEF CloneIsOwn
    <3> QED BY <3>1, <3>2
  <2> QED BY <2>1, <2>2, <2>3, <2>4, <2>5, EarlyKeeps DEF InTry, HasBundle, local, runs
<1> QED BY <1>1, <1>2

\* A run: on the claim of its profile, and for the last attempt on its own clone.
LEMMA RunKeeps ==
    ASSUME IInv, QAInv, NEW w \in Worker, StartProfile(w)
    PROVE  QAInv'
<1> USE DEF QAInv
<1> DEFINE r == [job |-> w[1], attempt |-> w[2], profile |-> current[w]]
<1>0. /\ pc \in [Worker -> PCs] /\ Left(w) /\ QATypeOK
      /\ w[1] \in Job /\ w[2] \in Attempts /\ w = <<w[1], w[2]>>
  BY Typed, WorkerParts DEF HasLeft, BundleMatchesLedger
<1>1. /\ pc[w] = "sandbox" /\ Goto(w, "inside") /\ pc'[w] = "inside"
      /\ workspace[w[1]] # 0
      /\ ran' = ran \cup {r}
      /\ disturbed' = IF workspace[w[1]] = w[2] THEN disturbed ELSE disturbed \cup {w}
      /\ UNCHANGED <<vars, calls, files, local, result>>
  BY <1>0 DEF StartProfile, Goto
<1>2. /\ r.job = w[1] /\ r.attempt = w[2] /\ r.profile = current[w] /\ r = RunOf(w, current[w])
      /\ current[w] \in Profile /\ Claimed(w, current[w])
      /\ r \in [job : Job, attempt : Attempts, profile : Profile]
  <2>1. current[w] \in todo[w] /\ Claimed(w, current[w])
    BY <1>0, <1>1 DEF Left, AtProfile, HasClaim
  <2> QED BY <1>0, <2>1 DEF QATypeOK, RunOf
<1> HIDE DEF r
<1>3. QATypeOK'
  BY <1>0, <1>1, <1>2 DEF QATypeOK, Goto, InTry, files, local
<1>4. Left(w)'
  <2>1. Claimed(w, current[w])' /\ RunOf(w, current[w])' = r
    BY <1>1, <1>2 DEF Claimed, RunOf, vars, local
  <2> QED BY <1>0, <1>1, <2>1
          DEF Left, NoRunYet, BeforeTry, HasClone, AtProfile, HasClaim, Inside, RunOf,
              Receipted, vars, local
<1>5. RunsAreClaimed'
  <2>1. \A v, p : Claimed(v, p)' <=> Claimed(v, p)
    BY <1>1 DEF Claimed, vars
  <2>2. Claimed(<<r.job, r.attempt>>, r.profile)
    BY <1>0, <1>2
  <2> QED BY <1>1, <2>1, <2>2 DEF RunsAreClaimed
<1>6. CloneIsOwn'
  <2>1. UNCHANGED <<workspace, lease_count>> /\ pc[w] \notin {"absent"} \cup Ended
    BY <1>1 DEF files, vars, budget, Ended
  <2>2. \A v \in Worker : v # w => (v \in disturbed' => v \in disturbed)
    BY <1>1
  <2>3. Last(w) => workspace[w[1]] = w[2] /\ w \notin disturbed'
    BY <1>1 DEF CloneIsOwn, HasClone, AtProfile, HasClaim
  <2> QED BY <1>0, <1>1, <2>1, <2>2, <2>3, CloneStays
<1>7. /\ ran \subseteq ran' /\ \A q \in ran' \ ran : q.job = w[1] /\ q.attempt = w[2]
      /\ \A v \in Worker : v # w =>
           /\ selected'[v] = selected[v] /\ todo'[v] = todo[v]
           /\ v \in failed' <=> v \in failed
           /\ v \in disturbed' => v \in disturbed
  BY <1>1, <1>2 DEF local
<1> QED BY <1>1, <1>3, <1>4, <1>5, <1>6, <1>7, EarlyKeeps DEF InTry, HasBundle, files, local

LEMMA ReportKeeps ==
    ASSUME IInv, QAInv, NEW w \in Worker, Report(w) \/ EndProfile(w)
    PROVE  QAInv'
<1> USE DEF QAInv
<1>0. pc \in [Worker -> PCs] /\ Left(w) /\ QATypeOK /\ w[1] \in Job /\ w[2] \in Attempts
  BY Typed, WorkerParts DEF HasLeft, BundleMatchesLedger
<1>1. CASE Report(w)
  <2>1. /\ pc[w] = "inside" /\ Goto(w, "sandboxed") /\ pc'[w] = "sandboxed"
        /\ failed' \in {failed, failed \cup {w}}
        /\ UNCHANGED <<vars, calls, files, selected, todo, current, runs, result>>
    BY <1>0, <1>1 DEF Report, Goto
  <2>2. QATypeOK'
    BY <1>0, <2>1 DEF QATypeOK, Goto, InTry, files, runs
  <2>3. Left(w)'
    BY <1>0, <2>1
       DEF Left, NoRunYet, BeforeTry, HasClone, AtProfile, HasClaim, Inside, RunOf, Receipted,
           Claimed, vars, runs
  <2>4. RunsAreClaimed'
    BY <2>1 DEF RunsAreClaimed, Claimed, vars, runs
  <2>5. CloneIsOwn'
    <3>1. /\ UNCHANGED <<workspace, lease_count, disturbed>>
          /\ pc[w] \notin {"absent"} \cup Ended /\ pc[w] \in HasClone
      BY <2>1 DEF files, runs, vars, budget, Ended, HasClone, AtProfile, HasClaim, Inside
    <3> QED BY <1>0, <2>1, <3>1, CloneStays DEF CloneIsOwn
  <2>6. \A v \in Worker : v # w => (v \in failed' <=> v \in failed)
    BY <2>1
  <2> QED BY <2>1, <2>2, <2>3, <2>4, <2>5, <2>6, EarlyKeeps DEF InTry, HasBundle, files, runs
<1>2. CASE EndProfile(w)
  <2> DEFINE loc == IF todo'[w] = {} THEN "reporting" ELSE "profiles"
  <2>1. /\ pc[w] = "receipted" /\ Goto(w, loc) /\ pc'[w] = loc
        /\ workspace[w[1]] # 0
        /\ todo' = [todo EXCEPT ![w] = @ \ {current[w]}]
        /\ UNCHANGED <<vars, calls, files, selected, current, failed, runs, result>>
    BY <1>0, <1>2 DEF EndProfile, Goto
  <2>2. /\ todo'[w] = todo[w] \ {current[w]}
        /\ \A v \in Worker : v # w => todo'[v] = todo[v]
    BY <1>0, <2>1 DEF QATypeOK
  <2>3. loc \in {"reporting", "profiles"} /\ (loc = "reporting" => todo'[w] = {})
    OBVIOUS
  <2> HIDE DEF loc
  <2>4. QATypeOK'
    <3>1. todo' \in [Worker -> SUBSET Profile] /\ \A v \in Worker : todo'[v] \subseteq selected'[v]
      BY <1>0, <2>1, <2>2 DEF QATypeOK
    <3> QED BY <1>0, <2>1, <2>3, <3>1 DEF QATypeOK, Goto, InTry, files, runs
  <2>5. Left(w)'
    <3>1. RunOf(w, current[w]) \in ran /\ Receipted(w, current[w]) /\ Baseline \subseteq selected[w]
      BY <1>0, <2>1 DEF Left, Inside, HasClone, AtProfile, HasClaim
    <3>2. \A p : /\ RunOf(w, p) \in ran => (RunOf(w, p) \in ran)'
                 /\ Receipted(w, p) => Receipted(w, p)'
      BY <2>1 DEF RunOf, Receipted, vars, runs
    <3>3. \A p \in selected'[w] \ todo'[w] : (RunOf(w, p) \in ran)' /\ Receipted(w, p)'
      BY <1>0, <2>1, <2>2, <3>1, <3>2 DEF Left
    <3> QED BY <2>1, <2>3, <3>1, <3>3
            DEF Left, NoRunYet, BeforeTry, HasClone, AtProfile, HasClaim, Inside
  <2>6. RunsAreClaimed'
    BY <2>1 DEF RunsAreClaimed, Claimed, vars, runs
  <2>7. CloneIsOwn'
    <3>1. /\ UNCHANGED <<workspace, lease_count, disturbed>>
          /\ pc[w] \notin {"absent"} \cup Ended /\ pc[w] \in HasClone
      BY <2>1 DEF files, runs, vars, budget, Ended, HasClone, AtProfile, HasClaim, Inside
    <3>2. Last(w) => workspace[w[1]] = w[2] /\ w \notin disturbed'
      BY <2>1, <3>1 DEF CloneIsOwn
    <3> QED BY <1>0, <2>1, <3>1, <3>2, CloneStays
  <2> QED BY <2>1, <2>2, <2>3, <2>4, <2>5, <2>6, <2>7, EarlyKeeps DEF InTry, HasBundle, files, runs
<1> QED BY <1>1, <1>2

\* The bundle is written once for a job.
LEMMA WriteBundleKeeps ==
    ASSUME IInv, QAInv, NEW w \in Worker, WriteBundle(w)
    PROVE  QAInv'
<1> USE DEF QAInv
<1>0. /\ pc \in [Worker -> PCs] /\ Left(w) /\ QATypeOK
      /\ w[1] \in Job /\ w[2] \in Attempts /\ w = <<w[1], w[2]>>
  BY Typed, WorkerParts DEF HasLeft, BundleMatchesLedger
<1>1. PICK V \in Verdict :
        /\ Writes(w, V)
        /\ \/ pc[w] = "rejected"  /\ V = "reject"
           \/ pc[w] = "reporting" /\ V = VerdictOf(w) /\ V # "reject"
        /\ Goto(w, "reported") /\ pc'[w] = "reported"
        /\ UNCHANGED <<vars, calls, workspace, local, runs, result>>
  BY <1>0 DEF WriteBundle, VerdictOf, Verdict, Goto
<1> DEFINE b == [attempt |-> w[2], verdict |-> V]
<1>2. /\ b \in [attempt : Attempts, verdict : Verdict] /\ b.attempt = w[2] /\ b.verdict = V
      /\ b # None /\ output[w[1]] = None /\ output' = [output EXCEPT ![w[1]] = b]
  BY <1>0, <1>1, NoneIsNoBundle DEF Writes
<1> HIDE DEF b
<1>3. /\ output'[w[1]] = b
      /\ \A j \in Job : j # w[1] => output'[j] = output[j]
  BY <1>0, <1>2 DEF QATypeOK
<1>4. /\ [Next]_vars /\ lease_count' = lease_count /\ status' = status
      /\ committing' = committing /\ effects' = effects
      /\ UNCHANGED <<selected, todo, current, failed, ran, disturbed>>
  BY <1>1 DEF vars, budget, local, runs
<1>5. result[w[1]] = "none"
  <2>1. output[w[1]].verdict = "none"
    BY <1>2 DEF None
  <2>2. ASSUME result[w[1]] # "none" PROVE FALSE
    <3>1. output[w[1]] = [attempt |-> lease_count[w[1]], verdict |-> result[w[1]]]
      BY <1>0, <2>2 DEF BundleMatchesLedger
    <3> QED BY <2>1, <2>2, <3>1
  <2> QED BY <2>2
<1>6. CallsTyped'
  BY <1>1, <1>4 DEF CallsTyped
<1>7. BundleMatchesLedger'
  <2>1. QATypeOK'
    BY <1>0, <1>1, <1>2, <1>4 DEF QATypeOK, Goto, InTry
  <2> QED BY <1>1, <1>3, <1>4, <1>5, <2>1 DEF BundleMatchesLedger
<1>8. Issued'
  BY <1>0, <1>1, <1>4 DEF Issued, Goto
<1>9. HasLeft'
  <2> SUFFICES ASSUME NEW v \in Worker PROVE Left(v)'
    BY DEF HasLeft
  <2>0. NeverRan(v) => NeverRan(v)'
    BY <1>4 DEF NeverRan
  <2>1. CASE v # w
    <3>1. pc'[v] = pc[v] /\ Left(v)
      BY <1>0, <1>1, <2>1 DEF Goto, HasLeft
    <3> QED BY <1>4, <2>0, <3>1, LeftKept
  <2>2. CASE v = w
    BY <1>0, <1>1, <1>4, <2>2
       DEF Left, NoRunYet, BeforeTry, HasClone, AtProfile, HasClaim, Inside, RunOf, Receipted
  <2> QED BY <2>1, <2>2
<1>10. RunsAreClaimed'
  BY <1>4 DEF RunsAreClaimed, Claimed
<1>11. InFlight'
  BY <1>1, <1>4, InFlightKept DEF Gone, Handling
<1>12. CloneIsOwn'
  BY <1>0, <1>1, <1>4, CloneStays DEF Ended, HasClone, AtProfile, HasClaim, Inside
<1>13. BundleStands'
  <2> SUFFICES ASSUME NEW j \in Job, output'[j] # None
               PROVE  LET v == <<j, output'[j].attempt>>
                      IN  /\ pc'[v] \in AfterBundle
                          /\ output'[j].verdict = "reject" => NeverRan(v)
                          /\ output'[j].verdict # "reject" =>
                                /\ output'[j].verdict = VerdictOf(v)
                                /\ Baseline \subseteq selected[v]
                                /\ todo[v] = {}
                                /\ Last(v) => v \notin disturbed
    BY <1>4 DEF BundleStands, NeverRan, VerdictOf, Last
  <2>1. CASE j = w[1]
    <3>1. pc[w] = "rejected" => NeverRan(w)
      BY <1>0 DEF Left, NoRunYet
    <3>2. pc[w] = "reporting" => /\ Baseline \subseteq selected[w] /\ todo[w] = {}
                                 /\ Last(w) => w \notin disturbed
      BY <1>0 DEF Left, HasClone, CloneIsOwn
    <3> QED BY <1>0, <1>1, <1>2, <1>3, <2>1, <3>1, <3>2 DEF AfterBundle, HasBundle
  <2>2. CASE j # w[1]
    <3>1. output'[j] = output[j]
      BY <1>3, <2>2
    <3>2. <<j, output[j].attempt>> \in Worker /\ <<j, output[j].attempt>> # w
      BY <1>0, <2>2, <3>1, Typed
    <3>3. pc'[<<j, output[j].attempt>>] = pc[<<j, output[j].attempt>>]
      BY <1>0, <1>1, <3>2 DEF Goto
    <3> QED BY <3>1, <3>3 DEF BundleStands
  <2> QED BY <2>1, <2>2
<1>14. WriterCompletes'
  <2>1. ASSUME NEW v \in Worker, pc'[v] \in HasBundle
        PROVE  output'[v[1]] # None /\ output'[v[1]].attempt = v[2]
    <3>1. v # w => pc[v] \in HasBundle
      BY <1>0, <1>1, <2>1 DEF Goto
    <3>2. v[1] = w[1] => v = w
      BY <1>2, <3>1 DEF WriterCompletes
    <3>3. CASE v = w
      BY <1>2, <1>3, <3>3
    <3>4. CASE v # w
      BY <1>3, <3>1, <3>2, <3>4, WorkerParts DEF WriterCompletes
    <3> QED BY <3>3, <3>4
  <2>2. ASSUME NEW c \in calls, c.op = "complete"
        PROVE  output'[c.job] = [attempt |-> c.attempt, verdict |-> c.arg]
    <3>1. output[c.job] # None
      BY <2>2, NoneIsNoBundle, CallParts DEF WriterCompletes
    <3> QED BY <1>2, <1>3, <2>2, <3>1, CallParts DEF WriterCompletes
  <2> QED BY <1>1, <2>1, <2>2 DEF WriterCompletes
<1> QED BY <1>6, <1>7, <1>8, <1>9, <1>10, <1>11, <1>12, <1>13, <1>14

\* Whatever is in the workspace is removed, under whoever runs a profile on it.
LEMMA FinallyKeeps ==
    ASSUME IInv, QAInv, NEW w \in Worker, Finally(w)
    PROVE  QAInv'
<1> USE DEF QAInv
<1>0. /\ pc \in [Worker -> PCs] /\ Left(w) /\ QATypeOK
      /\ w[1] \in Job /\ w[2] \in Attempts /\ w[2] \in Nat
  BY Typed, WorkerParts DEF HasLeft, BundleMatchesLedger
<1>1. PICK loc :
        /\ \/ pc[w] = "finishing" /\ loc = "done"
           \/ pc[w] = "unwinding" /\ loc = "raised"
        /\ Goto(w, loc) /\ pc'[w] = loc
        /\ workspace' = [workspace EXCEPT ![w[1]] = 0]
        /\ disturbed' = disturbed \cup {v \in Worker : v[1] = w[1] /\ pc[v] = "inside"}
        /\ UNCHANGED <<vars, calls, output, local, ran, result>>
  BY <1>0 DEF Finally, Goto
<1>2. /\ [Next]_vars /\ lease_count' = lease_count /\ status' = status
      /\ committing' = committing /\ effects' = effects
      /\ UNCHANGED <<selected, todo, current, failed>>
  BY <1>1 DEF vars, budget, local
<1>3. /\ \A v \in Worker : v # w => pc'[v] = pc[v]
      /\ \A v : v \in disturbed' => v \in disturbed \/ pc[v] = "inside"
      /\ \A v : NeverRan(v) => NeverRan(v)'
  BY <1>0, <1>1 DEF Goto, NeverRan
<1>4. CallsTyped'
  BY <1>1, <1>2 DEF CallsTyped
<1>5. BundleMatchesLedger'
  <2>1. QATypeOK'
    BY <1>0, <1>1, <1>2 DEF QATypeOK, Goto, Ended
  <2> QED BY <1>1, <1>2, <2>1 DEF BundleMatchesLedger
<1>6. Issued'
  BY <1>1, <1>2, <1>3 DEF Issued
<1>7. HasLeft'
  <2> SUFFICES ASSUME NEW v \in Worker PROVE Left(v)'
    BY DEF HasLeft
  <2>1. CASE v # w
    BY <1>1, <1>2, <1>3, <2>1, LeftKept DEF HasLeft
  <2>2. CASE v = w
    BY <1>0, <1>1, <1>2, <2>2
       DEF Left, NoRunYet, BeforeTry, HasClone, AtProfile, HasClaim, Inside, RunOf, Receipted
  <2> QED BY <2>1, <2>2
<1>8. RunsAreClaimed'
  BY <1>1, <1>2 DEF RunsAreClaimed, Claimed
<1>9. InFlight'
  BY <1>1, <1>2, InFlightKept DEF Gone, Handling
<1>10. CloneIsOwn'
  <2> SUFFICES ASSUME NEW v \in Worker, Last(v)
               PROVE  /\ pc'[v] \in HasClone =>
                            \/ workspace'[v[1]] = v[2] /\ v \notin disturbed'
                            \/ workspace'[v[1]] = 0 /\ Alone(v)'
                      /\ pc'[v] = "reporting" => v \notin disturbed'
    BY <1>2 DEF CloneIsOwn, Last
  <2>0. v[1] \in Job /\ v[2] \in Nat /\ v[2] # 0 /\ v[2] = lease_count[v[1]] /\ v[2] <= 2
    BY WorkerParts DEF Last
  <2>1. CASE v = w
    BY <1>1, <2>1 DEF HasClone, AtProfile, HasClaim, Inside
  <2>2. CASE v # w /\ v[1] # w[1]
    <3>1. workspace'[v[1]] = workspace[v[1]] /\ (v \in disturbed' => v \in disturbed)
      BY <1>0, <1>1, <2>0, <2>2 DEF QATypeOK
    <3>2. Alone(v) => Alone(v)'
      BY <1>1, <1>3, <2>2 DEF Alone
    <3> QED BY <1>3, <2>2, <3>1, <3>2 DEF CloneIsOwn
  <2>3. CASE v # w /\ v[1] = w[1]
    <3>1. workspace'[v[1]] = 0
      BY <1>0, <1>1, <2>3 DEF QATypeOK
    <3>2. Alone(v)'
      <4> SUFFICES ASSUME NEW u \in Worker, u[1] = v[1], u # v
                   PROVE  pc'[u] \in {"absent"} \cup Ended
        BY DEF Alone
      <4>1. CASE u = w
        BY <1>1, <4>1 DEF Ended
      <4>2. CASE u # w
        <5>1. u[2] \in Nat /\ u[2] # 0 /\ w[2] # 0
          BY WorkerParts
        <5>2. u[2] # v[2] /\ w[2] # v[2] /\ u[2] # w[2]
          BY <2>3, <4>2, PairsOfJob
        <5>3. w[2] <= v[2]
          BY <1>1, <2>0, <2>3 DEF Issued
        <5>4. ~ (u[2] <= v[2])
          BY <1>0, <2>0, <5>1, <5>2, <5>3
        <5>5. pc[u] = "absent"
          BY <2>0, <5>4 DEF Issued
        <5> QED BY <1>3, <4>2, <5>5
      <4> QED BY <4>1, <4>2
    <3>3. pc'[v] = "reporting" => v \notin disturbed'
      BY <1>3, <2>3 DEF CloneIsOwn
    <3> QED BY <3>1, <3>2, <3>3
  <2> QED BY <2>1, <2>2, <2>3
<1>11. BundleStands'
  <2> SUFFICES ASSUME NEW j \in Job, output[j] # None
               PROVE  LET v == <<j, output[j].attempt>>
                      IN  /\ pc'[v] \in AfterBundle
                          /\ v \in disturbed' => v \in disturbed
    BY <1>1, <1>2, <1>3 DEF BundleStands, VerdictOf, Last
  <2> DEFINE v == <<j, output[j].attempt>>
  <2>1. v \in Worker /\ pc[v] \in AfterBundle
    BY Typed DEF BundleStands
  <2>2. pc'[v] \in AfterBundle
    BY <1>1, <1>3, <2>1 DEF AfterBundle, Gone
  <2>3. pc[v] # "inside"
    BY <2>1 DEF AfterBundle, HasBundle, Gone, Handling
  <2> QED BY <1>3, <2>2, <2>3
<1>12. WriterCompletes'
  <2>1. \A v \in Worker : pc'[v] \in HasBundle => pc[v] \in HasBundle
    BY <1>1, <1>3 DEF HasBundle
  <2> QED BY <1>1, <2>1 DEF WriterCompletes
<1> QED BY <1>4, <1>5, <1>6, <1>7, <1>8, <1>9, <1>10, <1>11, <1>12
----------------------------------------------------------------------------
(* The ledger's steps. *)

LEMMA ServeKeeps ==
    ASSUME IInv, QAInv, NEW c \in calls, Serve(c)
    PROVE  QAInv'
<1> USE DEF QAInv
<1> DEFINE w == Caller(c)
<1>0. /\ w \in Worker /\ w[1] = c.job /\ w[2] = c.attempt /\ w = <<c.job, c.attempt>>
      /\ c.job \in Job /\ c.op \in Waiting /\ pc \in [Worker -> PCs]
  BY CallParts, Typed DEF Caller
<1>1. CASE ExecutesCheck(c)
  <2>1. Next
    BY <1>1, CallParts, ExecutesCheckIsAStep DEF ExecutesCheck
  <2>2. /\ committing' = committing \cup
             {[job |-> c.job, key |-> KeyOf(c), attempt |-> c.attempt]}
        /\ pc' = pc /\ calls' \subseteq calls /\ c.op = "commit_effect"
        /\ lease_count' = lease_count
        /\ UNCHANGED <<files, local, runs, result>>
    BY <1>1 DEF ExecutesCheck, CommitCheck, budget, Serve
  <2>3. UNCHANGED <<output, current>>
    BY <2>2 DEF files, local
  <2>4. \A d \in committing' : d.attempt \in Attempts
    BY <1>0, <2>2, CallParts DEF CallsTyped
  <2>5. InFlight'
    <3>1. ASSUME NEW e \in calls', e.op \in {"begin_effect", "commit_effect"}
          PROVE  e.arg = current'[Caller(e)] /\ pc'[Caller(e)] \in {e.op} \cup Gone
      BY <2>2, <2>3, <3>1 DEF InFlight
    <3>2. ASSUME NEW d \in committing'
          PROVE  LET v == <<d.job, d.attempt>>
                 IN  d.key = <<d.job, current'[v]>> /\ pc'[v] \in {"commit_effect"} \cup Gone
      <4>1. CASE d \in committing
        BY <2>2, <2>3, <4>1 DEF InFlight
      <4>2. CASE d = [job |-> c.job, key |-> KeyOf(c), attempt |-> c.attempt]
        <5>1. c.arg = current[w] /\ pc[w] \in {"commit_effect"} \cup Gone
          BY <2>2 DEF InFlight
        <5> QED BY <1>0, <2>2, <2>3, <4>2, <5>1 DEF KeyOf
      <4> QED BY <2>2, <4>1, <4>2
    <3> QED BY <3>1, <3>2 DEF InFlight
  <2>6. UNCHANGED <<output, result, lease_count>>
    BY <2>2, <2>3
  <2> HIDE DEF w, QAInv
  <2> QED BY <2>1, <2>2, <2>4, <2>5, <2>6, ResultKept, MoveKeeps
<1>2. CASE Executes(c) /\ Answer(c, Onward(c))
  <2>1. Next
    BY <1>2, CallParts, ExecutesIsAStep
  <2>2. /\ committing' = committing /\ lease_count' = lease_count
        /\ calls' = calls \ {c}
        /\ \/ pc' = pc /\ pc[w] # c.op
           \/ pc[w] = c.op /\ Goto(w, Onward(c))
        /\ UNCHANGED <<files, local, runs>>
        /\ UNCHANGED <<output, current>>
    BY <1>0, <1>2, ExecutedCall DEF Answer, Serve, files, local
  <2>3. c.op # "commit_effect"
    BY <1>2 DEF Executes
  <2>4. InFlight'
    <3>1. CASE c.op # "begin_effect"
      <4>1. pc[w] = c.op => Onward(c) \in Gone \/ pc[w] \notin Gone \cup {"begin_effect", "commit_effect"}
        BY <1>0, <2>3, <3>1 DEF Onward, Waiting, Gone, Handling
      <4> HIDE DEF w, QAInv
      <4> QED BY <1>0, <2>2, <4>1, InFlightKept
    <3>2. CASE c.op = "begin_effect" /\ pc[w] # c.op
      <4> HIDE DEF QAInv
      <4> QED BY <2>2, <3>2, InFlightKept
    <3>3. CASE c.op = "begin_effect" /\ pc[w] = c.op
      <4>1. \A v \in Worker : pc'[v] = IF v = w THEN "sandbox" ELSE pc[v]
        BY <1>0, <2>2, <3>3 DEF Onward, Goto
      <4>2. ASSUME NEW e \in calls', e.op \in {"begin_effect", "commit_effect"}
            PROVE  e.arg = current'[Caller(e)] /\ pc'[Caller(e)] \in {e.op} \cup Gone
        <5>1. e \in calls /\ e # c /\ Caller(e) \in Worker
          BY <2>2, CallParts
        <5>2. e.arg = current[Caller(e)] /\ pc[Caller(e)] \in {e.op} \cup Gone
          BY <4>2, <5>1 DEF InFlight
        <5>3. Caller(e) = w => e = c
          <6> SUFFICES ASSUME Caller(e) = w PROVE e = c
            OBVIOUS
          <6>1. e.op = "begin_effect"
            BY <3>3, <4>2, <5>2 DEF Gone, Handling
          <6>2. c.arg = current[w]
            BY <3>3 DEF InFlight
          <6>3. e.job = c.job /\ e.attempt = c.attempt
            BY <1>0, <5>1, CallParts
          <6>4. e \in QACall /\ c \in QACall
            BY <5>1 DEF CallsTyped
          <6> QED BY <3>3, <5>2, <6>1, <6>2, <6>3, <6>4 DEF QACall
        <5> QED BY <2>2, <4>1, <5>1, <5>2, <5>3
      <4>3. ASSUME NEW d \in committing'
            PROVE  LET v == <<d.job, d.attempt>>
                   IN  d.key = <<d.job, current'[v]>> /\ pc'[v] \in {"commit_effect"} \cup Gone
        <5>1. d \in committing /\ <<d.job, d.attempt>> \in Worker
          BY <2>2 DEF CallsTyped, IInv, TypeOK, Claim, Worker
        <5>2. <<d.job, d.attempt>> # w
          BY <3>3, <5>1 DEF InFlight, Gone, Handling
        <5> QED BY <2>2, <4>1, <5>1, <5>2 DEF InFlight
      <4> QED BY <4>2, <4>3 DEF InFlight
    <3> QED BY <3>1, <3>2, <3>3
  <2>5. pc[w] = c.op => Moves(w, Onward(c))
    <3>1. CASE c.op = "begin_effect" /\ pc[w] = c.op
      <4>1. c.arg = current[w]
        BY <3>1 DEF InFlight
      <4>2. \E e \in EffectsOf(c.job, c.attempt)' : e.key = KeyOf(c)
        BY <1>0, <1>2, <3>1, ExecutedCall
      <4>3. Claimed(w, current[w])'
        BY <1>0, <2>2, <4>1, <4>2 DEF Claimed, EffectsOf, KeyOf
      <4> QED BY <3>1, <4>3 DEF Moves, Onward
    <3>2. CASE c.op # "begin_effect"
      BY <1>0, <2>3, <3>2
         DEF Moves, Onward, Waiting, NoRunYet, BeforeTry, Gone, PCs, Handling, InTry, Ended
    <3> QED BY <3>1, <3>2
  <2>6. ResultMatches' /\ result' \in [Job -> Verdict \cup {"none"}]
    <3>1. CASE c.op # "complete"
      <4>1. result' = result
        BY <3>1 DEF Serve
      <4> HIDE DEF w, QAInv
      <4> QED BY <2>1, <2>2, <4>1, ResultKept
    <3>2. CASE c.op = "complete"
      <4>1. /\ output[c.job] = [attempt |-> c.attempt, verdict |-> c.arg]
            /\ c.arg \in Verdict
            /\ status'[c.job] = "succeeded" /\ lease_count[c.job] = c.attempt
            /\ result' = [result EXCEPT ![c.job] = c.arg]
        BY <1>0, <1>2, <3>2, ExecutedCall DEF Serve, WriterCompletes, CallsTyped
      <4>2. result \in [Job -> Verdict \cup {"none"}]
        BY DEF BundleMatchesLedger, QATypeOK
      <4>3. ASSUME NEW j \in Job, result'[j] # "none"
            PROVE  /\ status'[j] = "succeeded"
                   /\ output'[j] = [attempt |-> lease_count'[j], verdict |-> result'[j]]
        <5>1. CASE j = c.job
          BY <2>2, <4>1, <4>2, <5>1
        <5>2. CASE j # c.job
          BY <2>1, <2>2, <4>1, <4>2, <4>3, <5>2, LedgerKeeps DEF BundleMatchesLedger
        <5> QED BY <5>1, <5>2
      <4> QED BY <4>1, <4>2, <4>3 DEF ResultMatches
    <3> QED BY <3>1, <3>2
  <2>7. \A d \in committing' : d.attempt \in Attempts
    BY <2>2 DEF CallsTyped
  <2> HIDE DEF w, QAInv
  <2> QED BY <1>0, <2>1, <2>2, <2>4, <2>5, <2>6, <2>7, MoveKeeps
<1> QED BY <1>1, <1>2 DEF Serve

LEMMA RefuseKeeps ==
    ASSUME IInv, QAInv, NEW c \in calls, Refuse(c)
    PROVE  QAInv'
<1> DEFINE w == Caller(c)
<1>1. w \in Worker /\ c.op \in Waiting
  BY CallParts DEF QAInv
<1>2. /\ calls' \subseteq calls
      /\ pc' = pc \/ (pc[w] = c.op /\ Goto(w, Handler(c.op)))
      /\ UNCHANGED <<vars, files, local, runs, result>>
  BY DEF Refuse, Answer
<1>3. /\ Handler(c.op) \in Gone
      /\ pc[w] = c.op => Moves(w, Handler(c.op))
  <2>1. c.op \in BeforeTry \cup InTry \cup Handling
    BY <1>1 DEF Waiting, BeforeTry, InTry, Handling
  <2> QED BY <2>1, HandlerLeads DEF Moves
<1>4. /\ lease_count' = lease_count /\ committing' = committing
      /\ UNCHANGED <<output, current>> /\ [Next]_vars
  BY <1>2 DEF vars, budget, files, local
<1>5. \A d \in committing' : d.attempt \in Attempts
  BY <1>4 DEF QAInv, CallsTyped
<1> HIDE DEF w
<1>6. InFlight'
  BY <1>1, <1>2, <1>3, <1>4, InFlightKept
<1> QED BY <1>1, <1>2, <1>3, <1>4, <1>5, <1>6, MoveKeeps, ResultKept

\* The second half of commit_effect.
LEMMA ServeCommitKeeps ==
    ASSUME IInv, QAInv, NEW d \in committing, ServeCommit(d)
    PROVE  QAInv'
<1> DEFINE c == CommitCall(d)
           w == <<d.job, d.attempt>>
<1>0. /\ w \in Worker /\ w[1] = d.job /\ w[2] = d.attempt
      /\ c.job = d.job /\ c.attempt = d.attempt
      /\ c.op = "commit_effect" /\ c.arg = d.key[2] /\ Caller(c) = w
      /\ d \in Claim
  BY DEF IInv, TypeOK, Claim, QAInv, CallsTyped, Worker, CommitCall, Call, Caller
<1>1. d.key = <<d.job, current[w]>> /\ pc[w] \in {"commit_effect"} \cup Gone
  BY DEF QAInv, InFlight
<1>2. /\ Next /\ lease_count' = lease_count
      /\ calls' = calls \ {c}
      /\ committing' = committing \ {d}
      /\ \/ CommitUpdate(d)        /\ Answer(c, Onward(c))
         \/ CommitWithoutChange(d) /\ Answer(c, Handler(c.op))
      /\ UNCHANGED <<files, local, runs, result>>
      /\ UNCHANGED <<output, current>>
  BY DEF ServeCommit, Next, AnyCommit, CommitUpdate, CommitWithoutChange, Answer, budget,
         files, local
<1>3. \A e \in committing' : e.attempt \in Attempts
  BY <1>2 DEF QAInv, CallsTyped
<1>4. pc \in [Worker -> PCs]
  BY Typed
<1>5. CASE pc[w] # "commit_effect"
  <2>1. pc' = pc
    BY <1>0, <1>2, <1>5 DEF Answer
  <2>2. InFlight'
    BY <1>2, <2>1, InFlightKept
  <2> HIDE DEF c, w
  <2> QED BY <1>2, <1>3, <2>1, <2>2, MoveKeeps, ResultKept
<1>6. CASE pc[w] = "commit_effect" /\ CommitWithoutChange(d) /\ Answer(c, Handler(c.op))
  <2>1. Goto(w, "failing")
    BY <1>0, <1>6 DEF Answer, Handler, BeforeTry, InTry, Handling
  <2>2. Moves(w, "failing") /\ "failing" \in Gone
    BY <1>6 DEF Moves, PCs, InTry, Ended, Gone, Handling
  <2>3. InFlight'
    BY <1>0, <1>2, <2>1, <2>2, InFlightKept
  <2> HIDE DEF c, w
  <2> QED BY <1>0, <1>2, <1>3, <2>1, <2>2, <2>3, MoveKeeps, ResultKept
<1>7. CASE pc[w] = "commit_effect" /\ CommitUpdate(d) /\ Answer(c, Onward(c))
  <2>1. Goto(w, "receipted")
    BY <1>0, <1>7 DEF Answer, Onward
  <2>2. Receipted(w, current[w])'
    <3>1. [job |-> d.job, key |-> d.key, attempt |-> d.attempt, state |-> "committed"] \in effects'
      BY <1>7 DEF CommitUpdate
    <3> QED BY <1>0, <1>1, <1>2, <3>1 DEF Receipted
  <2>3. Moves(w, "receipted")
    BY <1>7, <2>2 DEF Moves
  <2>4. InFlight'
    <3>1. \A v \in Worker : pc'[v] = IF v = w THEN "receipted" ELSE pc[v]
      BY <1>4, <2>1 DEF Goto
    <3>2. ASSUME NEW e \in calls', e.op \in {"begin_effect", "commit_effect"}
          PROVE  e.arg = current'[Caller(e)] /\ pc'[Caller(e)] \in {e.op} \cup Gone
      <4>1. e \in calls /\ e # c /\ Caller(e) \in Worker
        BY <1>2, CallParts DEF QAInv
      <4>2. e.arg = current[Caller(e)] /\ pc[Caller(e)] \in {e.op} \cup Gone
        BY <3>2, <4>1 DEF QAInv, InFlight
      <4>3. Caller(e) # w
        <5> SUFFICES ASSUME Caller(e) = w PROVE e = c
          BY <4>1
        <5>1. e.op = "commit_effect" /\ e.arg = d.key[2]
          BY <1>1, <1>7, <3>2, <4>2 DEF Gone, Handling
        <5>2. e.job = d.job /\ e.attempt = d.attempt
          BY <1>0, <4>1, CallParts DEF QAInv
        <5>3. e \in QACall
          BY <4>1 DEF QAInv, CallsTyped
        <5> QED BY <5>1, <5>2, <5>3 DEF QACall, CommitCall, Call
      <4> QED BY <1>2, <3>1, <4>1, <4>2, <4>3
    <3>3. ASSUME NEW e \in committing'
          PROVE  LET v == <<e.job, e.attempt>>
                 IN  e.key = <<e.job, current'[v]>> /\ pc'[v] \in {"commit_effect"} \cup Gone
      <4>1. /\ e \in committing /\ e # d /\ e \in Claim
            /\ <<e.job, e.attempt>> \in Worker
        BY <1>2 DEF QAInv, CallsTyped, IInv, TypeOK, Claim, Worker
      <4>2. /\ e.key = <<e.job, current[<<e.job, e.attempt>>]>>
            /\ pc[<<e.job, e.attempt>>] \in {"commit_effect"} \cup Gone
        BY <4>1 DEF QAInv, InFlight
      <4>3. <<e.job, e.attempt>> # w
        BY <1>0, <1>1, <4>1, <4>2 DEF Claim
      <4> QED BY <1>2, <3>1, <4>1, <4>2, <4>3
    <3> QED BY <3>2, <3>3 DEF InFlight
  <2> HIDE DEF c, w
  <2> QED BY <1>0, <1>2, <1>3, <2>1, <2>3, <2>4, MoveKeeps, ResultKept
<1> QED BY <1>2, <1>5, <1>6, <1>7

LEMMA EnvironmentKeeps ==
    ASSUME IInv, QAInv, LedgerEnvironment, UNCHANGED <<files, local, runs, result>>
    PROVE  QAInv'
<1>1. pc' = pc /\ calls' = calls /\ UNCHANGED <<output, current>>
  BY DEF LedgerEnvironment, client, files, local
<1>2. Next /\ committing' = committing /\ lease_count' = lease_count
  BY EnvironmentMoves
<1>3. InFlight'
  BY <1>1, <1>2, InFlightKept
<1>4. \A d \in committing' : d.attempt \in Attempts
  BY <1>2 DEF QAInv, CallsTyped
<1> QED BY <1>1, <1>2, <1>3, <1>4, MoveKeeps, ResultKept
----------------------------------------------------------------------------
(* The inductive invariant. *)

LEMMA QAStarts == QAInit => IInv /\ QAInv
<1> SUFFICES ASSUME QAInit PROVE IInv /\ QAInv
  OBVIOUS
<1>1. IInv
  BY TypeInit, SafeInit DEF QAInit, IInv
<1>2. BundleMatchesLedger
  BY DEF QAInit, BundleMatchesLedger, QATypeOK
<1>3. CallsTyped /\ InFlight /\ RunsAreClaimed
  BY DEF QAInit, Init, CallsTyped, InFlight, RunsAreClaimed
<1>4. HasLeft
  BY DEF QAInit, HasLeft, Left, NeverRan, NoRunYet, HasClone, AtProfile, HasClaim, Inside
<1>5. Issued /\ CloneIsOwn /\ BundleStands /\ WriterCompletes
  BY DEF QAInit, Issued, CloneIsOwn, BundleStands, WriterCompletes, HasBundle, HasClone,
         AtProfile, HasClaim, Inside
<1> QED BY <1>1, <1>2, <1>3, <1>4, <1>5 DEF QAInv

LEMMA QAStutters == QAInv /\ UNCHANGED qaVars => QAInv'
<1> SUFFICES ASSUME QAInv, UNCHANGED qaVars PROVE QAInv'
  OBVIOUS
<1> USE DEF QAInv, qaVars, vars, client, files, local, runs, budget
<1>1. CallsTyped' /\ BundleMatchesLedger' /\ Issued' /\ RunsAreClaimed'
  BY DEF CallsTyped, BundleMatchesLedger, QATypeOK, Issued, RunsAreClaimed, Claimed
<1>2. HasLeft'
  BY DEF HasLeft, Left, NeverRan, Claimed, Receipted, RunOf
<1>3. InFlight' /\ CloneIsOwn'
  BY DEF InFlight, CloneIsOwn, Last, Alone
<1>4. BundleStands' /\ WriterCompletes'
  BY DEF BundleStands, WriterCompletes, NeverRan, VerdictOf, Last
<1> QED BY <1>1, <1>2, <1>3, <1>4

LEMMA QAKeeps == IInv /\ QAInv /\ [QANext]_qaVars => QAInv'
<1> SUFFICES ASSUME IInv, QAInv, [QANext]_qaVars PROVE QAInv'
  OBVIOUS
<1>1. CASE UNCHANGED qaVars
  BY <1>1, QAStutters
<1>2. CASE AnyLaunch
  BY <1>2, LaunchKeeps DEF AnyLaunch
<1>3. ASSUME NEW w \in Worker, Process(w) PROVE QAInv'
  BY <1>3, QuietKeeps, RequestKeeps, SelectKeeps, RunKeeps, ReportKeeps, WriteBundleKeeps,
     FinallyKeeps DEF Process
<1>4. CASE Database
  BY <1>4, ServeKeeps, RefuseKeeps, ServeCommitKeeps DEF Database
<1>5. CASE LedgerEnvironment /\ UNCHANGED <<files, local, runs, result>>
  BY <1>5, EnvironmentKeeps
<1> QED BY <1>1, <1>2, <1>3, <1>4, <1>5 DEF QANext

LEMMA QAInductive == QASpec => [](IInv /\ QAInv)
<1>1. IInv /\ QAInv /\ [QANext]_qaVars => (IInv /\ QAInv)'
  BY QAKeeps, QAStepIsLedgerStep, TypeStep, SafeStep DEF IInv, QAInv
<1> QED BY <1>1, QAStarts, PTL DEF QASpec

\* A claim is the last attempt's (NeverReplayed): so is every run.
LEMMA RunsAreOfLast ==
    ASSUME IInv, QAInv, NEW r \in ran
    PROVE  r.job \in Job /\ r.attempt = lease_count[r.job]
<1>1. PICK e \in effects : e.job = r.job /\ e.attempt = r.attempt
  BY DEF QAInv, RunsAreClaimed, Claimed
<1>2. r.job \in Job
  BY DEF QAInv, BundleMatchesLedger, QATypeOK
<1> QED BY <1>1, <1>2 DEF IInv, Safe, NeverReplayed

\* Hostile candidate code is never silently replayed: the ledger knows of each run
\* before it starts, and no two attempts of a job run code, however many are alive.
THEOREM QANoReplay == QASpec => []NoSilentReplay
<1>1. IInv /\ QAInv => NoSilentReplay
  <2> SUFFICES ASSUME IInv, QAInv PROVE NoSilentReplay
    OBVIOUS
  <2>1. \A r \in ran : \E e \in EffectsOf(r.job, r.attempt) : e.key = <<r.job, r.profile>>
    BY DEF QAInv, RunsAreClaimed, Claimed, EffectsOf
  <2>2. \A r, s \in ran : r.job = s.job => r.attempt = s.attempt
    BY RunsAreOfLast
  <2> QED BY <2>1, <2>2 DEF NoSilentReplay
<1> QED BY <1>1, QAInductive, PTL

\* The verdict in the ledger is the one on disk, whichever process wrote it.
THEOREM QABundle == QASpec => []BundleMatchesLedger
BY QAInductive, PTL DEF QAInv

\* A verdict covers every selected profile with a run and a receipt of the attempt
\* that completed the job, and a reject comes from a job that ran nothing.
THEOREM QAVerdict == QASpec => []VerdictIsEarned
<1>1. IInv /\ QAInv => VerdictIsEarned
  <2> SUFFICES ASSUME IInv, QAInv, NEW j \in Job, result[j] # "none"
               PROVE  LET w == <<j, lease_count[j]>>
                          Ran(p) == [job |-> j, attempt |-> w[2], profile |-> p]
                      IN  /\ result[j] \in {"qa_passed", "qa_failed"} =>
                                /\ w[2] <= 2 => w \notin disturbed
                                /\ Baseline \subseteq selected[w]
                                /\ \A p \in selected[w] :
                                      /\ Ran(p) \in ran
                                      /\ [job |-> j, key |-> <<j, p>>, attempt |-> w[2],
                                          state |-> "committed"] \in effects
                          /\ result[j] = "qa_passed" => w \notin failed
                          /\ result[j] = "reject" => \A r \in ran : r.job # j
    BY DEF VerdictIsEarned
  <2> DEFINE w == <<j, lease_count[j]>>
  <2>1. output[j] = [attempt |-> lease_count[j], verdict |-> result[j]]
    BY DEF QAInv, BundleMatchesLedger
  <2>2. output[j].attempt = lease_count[j] /\ output[j].verdict = result[j]
    BY <2>1
  <2>3. output[j] # None
    BY <2>2 DEF None
  <2>4. w \in Worker /\ w[1] = j /\ w[2] = lease_count[j] /\ result[j] \in Verdict
    BY <2>2, <2>3, Typed
  <2>5. CASE result[j] = "reject"
    <3>1. NeverRan(w)
      BY <2>2, <2>3, <2>5 DEF QAInv, BundleStands
    <3> QED BY <2>4, <2>5, <3>1, RunsAreOfLast DEF NeverRan
  <2>6. CASE result[j] # "reject"
    <3>1. /\ result[j] = VerdictOf(w) /\ Baseline \subseteq selected[w] /\ todo[w] = {}
          /\ Last(w) => w \notin disturbed
      BY <2>2, <2>3, <2>6 DEF QAInv, BundleStands
    <3>2. w[2] <= 2 => w \notin disturbed
      BY <2>4, <3>1 DEF Last
    <3>3. \A p \in selected[w] : RunOf(w, p) \in ran /\ Receipted(w, p)
      BY <2>4, <3>1 DEF QAInv, HasLeft, Left
    <3>4. result[j] = "qa_passed" => w \notin failed
      BY <3>1 DEF VerdictOf
    <3> QED BY <2>4, <2>6, <3>1, <3>2, <3>3, <3>4 DEF RunOf, Receipted
  <2> QED BY <2>5, <2>6
<1> QED BY <1>1, QAInductive, PTL

\* The coordinators move the ledger by its functions only: what is proved of
\* JobLedger holds of the composition.
THEOREM QARefinesLedger == QASpec => Spec
<1>1. IInv /\ QAInv /\ [QANext]_qaVars => [Next]_vars
  BY QAStepIsLedgerStep DEF QAInv
<1>2. QAInit => Init
  BY DEF QAInit
<1> QED BY <1>1, <1>2, QAInductive, PTL DEF QASpec, Spec

\* So a job of the coordinators keeps the ledger's promise whatever is lost, late or
\* killed: at most one attempt acts, and it is over for good once it has ended.
THEOREM QAContract == QASpec => ImplementsContract
BY QARefinesLedger, LedgerContract
=============================================================================
