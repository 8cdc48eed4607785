----------------------------- MODULE MCActionGate -----------------------------
(* The daemon with two clients, with what B032 asks and two other requests; and *)
(* the decision on its own, on requests that grow more dangerous step by step.  *)
(* A behaviour has the steps of the one or of the other.                        *)
EXTENDS ActionGate
CONSTANTS c1, c2

Clients == {c1, c2}

\* A hard-denied action, one that needs approval, and one that is neither.
Actions == {"secret_export", "provider_enable", "workspace_branch_write"}

Implement == [wellformed |-> TRUE, action |-> "workspace_branch_write",
              risk |-> "L1", environment |-> "isolated", secret |-> FALSE,
              side_effecting |-> TRUE, reversible |-> TRUE,
              external_side_effect |-> FALSE, uses_llm |-> TRUE]
Asked == {Implement, [Implement EXCEPT !.action = "provider_enable"],
          [Implement EXCEPT !.wellformed = FALSE]}

\* policy/action-gate.json
Shipped ==
    [hard_deny_actions |-> {"secret_export"},
     approval_required_actions |-> {"provider_enable"},
     risk_defaults |-> [r \in Risk |-> IF r \in {"L0", "L1"} THEN "allow"
                                       ELSE "approval_required"],
     deny_if_uses_llm |-> TRUE,
     deny_if_external_side_effect |-> TRUE,
     reversible_must_be |-> TRUE,
     forbidden_environments |-> {"production", "external"},
     external_side_effect_must_be |-> FALSE]

\* Another that load_policy would accept.
Lenient ==
    [Shipped EXCEPT !.risk_defaults = [r \in Risk |->
                        IF r = "L1" THEN "approval_required"
                        ELSE IF r = "L3" THEN "deny" ELSE "allow"],
                    !.deny_if_uses_llm = FALSE,
                    !.reversible_must_be = FALSE]

Installable == {Shipped, [Shipped EXCEPT !.hard_deny_actions = @ \cup {"workspace_branch_write"}]}

VARIABLES
    part,    \* "daemon" or "decision"
    asked,   \* the request that grows
    rules,   \* the policy it is decided under
    switch   \* whether the kill switch is on

decisionVars == <<asked, rules, switch>>

MCInit ==
    /\ GateInit
    /\ \/ part = "daemon" /\ asked = Implement /\ rules = Shipped /\ switch = FALSE
       \/ /\ part = "decision"
          /\ installed = Shipped /\ request = [c \in Client |-> Implement] /\ ~kill
          /\ asked \in GateRequest /\ rules \in {Shipped, Lenient} /\ switch \in BOOLEAN

Escalate ==
    /\ \E s \in GateRequest : AsksMore(asked, s, rules) /\ asked' = s
    /\ switch' \in {switch, TRUE}
    /\ UNCHANGED rules

MCNext ==
    /\ \/ part = "daemon" /\ GateNext /\ UNCHANGED decisionVars
       \/ part = "decision" /\ Escalate /\ UNCHANGED gateVars
    /\ UNCHANGED part

MCSpec == MCInit /\ [][MCNext]_<<gateVars, decisionVars, part>> /\ GateFairness

\* A request that asks for more never gets a weaker answer, nor does one that
\* is repeated with the kill switch on: _decision looks at its rules in an
\* order in which a stricter one is never hidden by a weaker one.
EscalationIsMonotone ==
    [][Graded(rules) => NotLooser(asked, asked', rules, switch, switch')]_decisionVars
=============================================================================
