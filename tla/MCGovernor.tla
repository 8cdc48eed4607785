------------------------------ MODULE MCGovernor ------------------------------
(* The programs that start the commands of others: three wrappers for two slots;  *)
(* runs of status --write-metrics; and the sandbox adapters of a job, for two     *)
(* profiles.  They share nothing, and a behaviour has the steps of one kind.      *)
EXTENDS Governor, GovernorMetrics, SandboxAdapter
VARIABLE command_line   \* "guard", "status" or "sandbox"

MCInit ==
    /\ GovernorInit /\ MetricsInit /\ SandboxInit
    /\ command_line \in {"guard", "status", "sandbox"}

MCNext ==
    /\ \/ /\ command_line = "guard" /\ GovernorNext
          /\ UNCHANGED <<metricsVars, sandboxVars>>
       \/ /\ command_line = "status" /\ MetricsNext
          /\ UNCHANGED <<governorVars, sandboxVars>>
       \/ /\ command_line = "sandbox" /\ SandboxNext
          /\ UNCHANGED <<governorVars, metricsVars>>
    /\ UNCHANGED command_line

(* Before its first step none of them has anything that must happen. *)
MCSpec ==
    /\ MCInit /\ [][MCNext]_<<governorVars, metricsVars, sandboxVars, command_line>>
    /\ GovernorFairness /\ SandboxFairness
=============================================================================
