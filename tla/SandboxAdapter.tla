---------------------------- MODULE SandboxAdapter ----------------------------
(***************************************************************************)
(* B034, scripts/engineering_qa/bwrap_sandbox_adapter.py: one process per   *)
(* profile.  It runs the candidate's command in a transient unit of the     *)
(* user's systemd through a systemd-run client, collects its output under   *)
(* limits, and reports pass, fail, timeout or output_exhausted.             *)
(*                                                                         *)
(* The adapters are those of one job, which its coordinator runs one after  *)
(* another; all have one unit name, as profiles whose first 24 characters   *)
(* agree do.  A tick is 5 seconds.                                          *)
(***************************************************************************)
EXTENDS Integers

CONSTANTS
    Adapters,   \* number of profiles of the job, with one adapter each
    Timeout,    \* timeout_seconds of a profile, in ticks
    MaxOutput   \* max_output_bytes of a profile, in chunks

ASSUME SandboxAssumption ==
    Adapters \in Nat /\ Timeout \in Nat \ {0} /\ MaxOutput \in Nat

Adapter == 1..Adapters

VARIABLES
    current,  \* the adapter that runs or ran last, or 0
    at,       \* where it is
    forced,   \* its forced_status
    client,   \* its systemd-run process
    closed,   \* whether its command has closed its outputs
    pending,  \* whether there is a chunk in its pipes
    total,    \* chunks that it has read
    elapsed,  \* ticks since it started
    timer,    \* ticks since its last blocking call began
    status,   \* what it told the coordinator
    unit,     \* transient unit of each adapter
    age,      \* ticks that the unit with the name has run
    loose     \* history: the adapters that were killed, or whose stop_unit left
              \* their unit alive

process     == <<current, at, forced, client, closed, pending, total>>
clocks      == <<elapsed, timer, age>>
sandboxVars == <<process, clocks, status, unit, loose>>

RuntimeSlack == 1   \* RuntimeMaxSec is timeout_seconds + 5
StopLimit    == 2   \* systemctl stop gets 10 s
WaitLimit    == 2   \* systemd-run gets 10 s after the end of its output
ReapLimit    == 1   \* and 5 s after it is killed

Stopping == {"stop", "stop_silent", "cleanup"}
Blocking == Stopping \cup {"wait", "reap"}
Alive    == {"requested", "running", "stopping"}
Exited   == {"zero", "nonzero", "killed"}
Reports  == {"pass", "fail", "timeout", "output_exhausted"}

\* the units that have the name
Loaded == {a \in Adapter : unit[a] \in {"running", "stopping"}}

\* Some process has the write end of the adapter's pipes.
Writers == unit[current] = "requested" \/ (current \in Loaded /\ ~closed)
----------------------------------------------------------------------------
SandboxInit ==
    /\ current = 0 /\ at = "ended"
    /\ forced = "none" /\ client = "none"
    /\ closed = FALSE /\ pending = FALSE
    /\ total = 0 /\ elapsed = 0 /\ timer = 0
    /\ status = "none"
    /\ unit   = [a \in Adapter |-> "none"]
    /\ age    = 0
    /\ loose = {}

\* call_sandbox starts the adapter of the next profile, which refuses the
\* request, cannot start systemd-run, or starts it.  systemd has forgotten the
\* units that are over (--collect).
Launch ==
    /\ at = "ended" /\ current < Adapters
    /\ current' = current + 1
    /\ \E state \in {"none", "requested"} :
          /\ unit' = [a \in Adapter |-> IF a = current' THEN state
                                        ELSE IF unit[a] \in Alive THEN unit[a]
                                        ELSE "none"]
          /\ \/ state = "none"      /\ at' = "ended"   /\ status' = "refused"
             \/ state = "none"      /\ at' = "cleanup" /\ status' = "none"
             \/ state = "requested" /\ at' = "collect" /\ status' = "none"
    /\ forced' = "none" /\ client' = "waiting"
    /\ closed' = FALSE /\ pending' = FALSE
    /\ total' = 0 /\ elapsed' = 0 /\ timer' = 0
    /\ UNCHANGED <<age, loose>>

\* collect_bounded: a chunk, which may be one too many.
Read ==
    /\ at = "collect" /\ pending
    /\ pending' = FALSE
    /\ total' = total + 1
    /\ IF total' > MaxOutput
       THEN forced' = "output_exhausted" /\ at' = "stop" /\ timer' = 0
       ELSE UNCHANGED <<forced, at, timer>>
    /\ UNCHANGED <<current, client, closed, elapsed, age, status, unit, loose>>

\* systemd-run is killed at the deadline, and the unit is left to it
BadTimeOut ==
    /\ at = "collect" /\ elapsed >= Timeout
    /\ forced' = "timeout" /\ at' = "kill" /\ timer' = 0
    /\ UNCHANGED <<current, client, closed, pending, total, elapsed, age, status,
                   unit, loose>>

TimeOut ==
    /\ at = "collect" /\ elapsed >= Timeout
    /\ forced' = "timeout" /\ at' = "stop" /\ timer' = 0
    /\ UNCHANGED <<current, client, closed, pending, total, elapsed, age, status,
                   unit, loose>>

\* Both pipes are at their end.
EndOfOutput ==
    /\ at = "collect" /\ ~pending /\ ~Writers
    /\ at' = "wait" /\ timer' = 0
    /\ UNCHANGED <<current, forced, client, closed, pending, total, elapsed, age,
                   status, unit, loose>>

\* What stop_unit does to the unit that has the name: nothing (its exit status
\* is not looked at), or what it asks for.
Stop(outcome) ==
    /\ \/ unit' = [a \in Adapter |-> IF a \in Loaded THEN outcome ELSE unit[a]]
       \/ UNCHANGED unit
    /\ loose' = IF unit'[current] \in Alive THEN loose \cup {current} ELSE loose

StopUnit ==
    /\ at \in Stopping
    /\ Stop("stopped")
    /\ \/ at = "stop"        /\ at' = "kill"        /\ UNCHANGED status
       \/ at = "stop_silent" /\ at' = "kill_silent" /\ UNCHANGED status
       \/ /\ at = "cleanup" /\ at' = "ended"
          /\ status' = "infrastructure"
    /\ UNCHANGED <<current, forced, client, closed, pending, total, clocks>>

\* systemctl does not return in 10 s: subprocess.run raises, main stops the
\* unit again, and has no handler the second time.  systemd may have the stop
\* on its list.
StopHangs ==
    /\ at \in Stopping /\ timer = StopLimit
    /\ Stop("stopping")
    /\ IF at = "cleanup"
       THEN at' = "ended" /\ status' = "traceback"
       ELSE at' = "cleanup" /\ UNCHANGED status
    /\ timer' = 0
    /\ UNCHANGED <<current, forced, client, closed, pending, total, elapsed, age>>

\* killpg, or proc.kill: SIGKILL to systemd-run, which does not reach the unit.
KillClient ==
    /\ \/ at = "kill" /\ at' = "wait"
       \/ at = "kill_silent" /\ at' = "reap"
    /\ client' = IF client \in Exited THEN client ELSE "dying"
    /\ timer' = 0
    /\ UNCHANGED <<current, forced, closed, pending, total, elapsed, age, status,
                   unit, loose>>

\* the exit status decides, also when the run was forced to its end
BadOutcome == IF client = "zero" THEN "pass" ELSE "fail"

\* status = forced_status or ("pass" if rc == 0 else "fail")
Outcome == IF forced # "none" THEN forced
           ELSE IF client = "zero" THEN "pass" ELSE "fail"

Report ==
    /\ at \in {"wait", "reap"} /\ client \in Exited
    /\ status' = Outcome
    /\ at' = "ended"
    /\ UNCHANGED <<current, forced, client, closed, pending, total, clocks, unit,
                   loose>>

\* proc.wait(10) expires: stop and kill, then wait again; proc.wait(5) expires:
\* main stops the unit and ends.
WaitExpires ==
    /\ \/ at = "wait" /\ timer = WaitLimit /\ at' = "stop_silent"
       \/ at = "reap" /\ timer = ReapLimit /\ at' = "cleanup"
    /\ client \notin Exited
    /\ timer' = 0
    /\ UNCHANGED <<current, forced, client, closed, pending, total, elapsed, age,
                   status, unit, loose>>

\* The coordinator's wall clock is over, or the host kills the adapter.
KillAdapter ==
    /\ at # "ended"
    /\ at' = "ended"
    /\ status' = "killed"
    /\ loose' = loose \cup {current}
    /\ UNCHANGED <<current, forced, client, closed, pending, total, clocks, unit>>
----------------------------------------------------------------------------
(* systemd-run, systemd and the command in the unit. *)

\* systemd-run exits with what became of the unit, which for a unit that was
\* stopped may be success; one that is killed is gone in a moment.
ClientExit ==
    /\ at # "ended"
    /\ \/ /\ client = "waiting" /\ unit[current] \notin Alive
          /\ \/ unit[current] \in {"zero", "stopped"} /\ client' = "zero"
             \/ unit[current] # "zero"                /\ client' = "nonzero"
       \/ client = "dying" /\ client' = "killed"
    /\ UNCHANGED <<current, at, forced, closed, pending, total, clocks, status,
                   unit, loose>>

\* the unit has no RuntimeMaxSec
BadSystemd(a) ==
    /\ \/ /\ unit[a] = "requested"
          /\ unit' = [unit EXCEPT ![a] = IF Loaded = {} THEN "running" ELSE "refused"]
          /\ age' = IF Loaded = {} THEN 0 ELSE age
       \/ /\ unit[a] = "stopping"
          /\ unit' = [unit EXCEPT ![a] = "stopped"]
          /\ UNCHANGED age
    /\ UNCHANGED <<process, elapsed, timer, status, loose>>

\* A unit starts unless its name is taken, a late stop takes effect, and no unit
\* outlives RuntimeMaxSec.
Systemd(a) ==
    /\ \/ /\ unit[a] = "requested"
          /\ unit' = [unit EXCEPT ![a] = IF Loaded = {} THEN "running" ELSE "refused"]
          /\ age' = IF Loaded = {} THEN 0 ELSE age
       \/ /\ unit[a] = "stopping"
          /\ unit' = [unit EXCEPT ![a] = "stopped"]
          /\ UNCHANGED age
       \/ /\ a \in Loaded /\ age = Timeout + RuntimeSlack
          /\ unit' = [unit EXCEPT ![a] = "expired"]
          /\ UNCHANGED age
    /\ UNCHANGED <<process, elapsed, timer, status, loose>>

\* systemd-run, or the unit's set-up, fails; the command ends before its time.
End(a) ==
    /\ \/ unit[a] = "requested" /\ unit' = [unit EXCEPT ![a] = "failed"]
       \/ /\ unit[a] = "running" /\ age < Timeout + RuntimeSlack
          /\ \E rc \in {"zero", "nonzero"} : unit' = [unit EXCEPT ![a] = rc]
    /\ UNCHANGED <<process, clocks, status, loose>>

\* The command writes a chunk, or closes its outputs.
Output ==
    /\ at = "collect" /\ unit[current] = "running" /\ ~closed /\ ~pending
    /\ \/ pending' = TRUE /\ UNCHANGED closed
       \/ closed' = TRUE  /\ UNCHANGED pending
    /\ UNCHANGED <<current, at, forced, client, total, clocks, status, unit, loose>>

\* the stop that main makes in its handler has no time limit
BadOverdue ==
    \/ at = "collect" /\ elapsed = Timeout
    \/ at \in {"stop", "stop_silent"} /\ timer = StopLimit
    \/ at = "wait"    /\ timer = WaitLimit
    \/ at = "reap"    /\ timer = ReapLimit
    \/ at \in {"kill", "kill_silent"}

\* The adapter has something to do before more time passes: a limit is
\* reached, or it makes no blocking call.
Overdue ==
    \/ at = "collect" /\ elapsed = Timeout
    \/ at \in Stopping /\ timer = StopLimit
    \/ at = "wait"     /\ timer = WaitLimit
    \/ at = "reap"     /\ timer = ReapLimit
    \/ at \in {"kill", "kill_silent"}

\* Longest life of an adapter: every call runs into its limit.
Longest == Timeout + StopLimit + WaitLimit + StopLimit + ReapLimit + StopLimit

Tick ==
    /\ ~Overdue
    /\ elapsed' = IF at # "ended" /\ elapsed <= Longest THEN elapsed + 1 ELSE elapsed
    /\ timer' = IF at \in Blocking THEN timer + 1 ELSE timer
    /\ age' = IF Loaded # {} /\ age < Timeout + RuntimeSlack THEN age + 1 ELSE age
    /\ UNCHANGED <<process, status, unit, loose>>
----------------------------------------------------------------------------
Step == \/ Read \/ TimeOut \/ EndOfOutput \/ StopUnit \/ StopHangs
        \/ KillClient \/ Report \/ WaitExpires

SandboxNext ==
    \/ Launch \/ Step \/ KillAdapter \/ ClientExit \/ Output \/ Tick
    \/ \E a \in Adapter : Systemd(a) \/ End(a)

\* The adapter runs, time passes, and systemd does its work.  Nothing is
\* assumed of the command, of systemd-run, or of systemctl.
SandboxFairness ==
    /\ WF_sandboxVars(Step) /\ WF_sandboxVars(Tick)
    /\ \A a \in Adapter : WF_sandboxVars(Systemd(a))

SandboxSpec == SandboxInit /\ [][SandboxNext]_sandboxVars /\ SandboxFairness
----------------------------------------------------------------------------
(* Type invariant. *)
SandboxTypeOK ==
    /\ current \in 0..Adapters
    /\ at \in Blocking \cup {"collect", "kill", "kill_silent", "ended"}
    /\ current = 0 => at = "ended"
    /\ forced \in {"none", "timeout", "output_exhausted"}
    /\ client \in Exited \cup {"none", "waiting", "dying"}
    /\ closed \in BOOLEAN /\ pending \in BOOLEAN
    /\ total \in 0..(MaxOutput + 1) /\ (at = "collect" => total <= MaxOutput)
    /\ elapsed \in Nat
    /\ timer \in 0..StopLimit /\ (at = "reap" => timer <= ReapLimit)
    /\ status \in Reports \cup {"none", "refused", "infrastructure", "traceback",
                             "killed"}
    /\ unit \in [Adapter -> Alive \cup {"none", "failed", "refused", "zero",
                                        "nonzero", "stopped", "expired"}]
    /\ age \in 0..(Timeout + RuntimeSlack)
    /\ loose \subseteq Adapter

\* A profile passes only when its command ended with 0 and all its output was
\* read; or else the command had closed its outputs and ran on until it was
\* stopped, which systemd may call a success.
PassIsEarned ==
    status = "pass" => /\ \/ unit[current] = "zero"
                          \/ unit[current] = "stopped" /\ closed
                       /\ ~pending

\* Candidate code outlives its adapter only when the adapter was killed, or had a
\* stop_unit that came before the unit or had no effect.
OrphansAreKnown ==
    \A a \in Adapter : unit[a] \in Alive => (a = current /\ at # "ended") \/ a \in loose

\* A profile is failed for a unit name that is in use only after an adapter
\* before it was killed or did not stop its unit.
NameIsFree ==
    (status = "fail" /\ unit[current] = "refused") => loose \ {current} # {}

\* The code that a killed adapter, or a stop without effect, leaves behind is all
\* that can be left, and all that can be in the way of the next adapter.
OrphansAreAccounted == OrphansAreKnown /\ NameIsFree

\* No adapter lives longer than its limits add up to, whatever the command,
\* systemd-run and systemctl do.
AdapterIsBounded == at # "ended" => elapsed <= Longest

\* Every adapter comes to its end, and so does candidate code, also when its
\* adapter was killed or could not stop it.
AllEnds == []<>(at = "ended" /\ \A a \in Adapter : unit[a] \notin Alive)
=============================================================================
