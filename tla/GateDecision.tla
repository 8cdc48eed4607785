----------------------------- MODULE GateDecision -----------------------------
(***************************************************************************)
(* How the Action Gate (B030) decides: validate_request and _decision of   *)
(* scripts/action_gate/action_gate.py.  A request is reduced to the fields *)
(* that the decision reads; request_id, actor, target and metadata only    *)
(* have to be well formed.                                                 *)
(***************************************************************************)
EXTENDS Naturals

CONSTANT Action    \* action types

Risk        == {"L0", "L1", "L2", "L3"}
Environment == {"local", "isolated", "staging", "production", "external"}
Decisions   == {"allow", "approval_required", "deny"}

GateRequest == [wellformed : BOOLEAN, action : Action, risk : Risk,
                environment : Environment, secret : BOOLEAN,
                side_effecting : BOOLEAN, reversible : BOOLEAN,
                external_side_effect : BOOLEAN, uses_llm : BOOLEAN]

\* What load_policy lets through.  The l1 and secret rules are optional keys
\* with defaults; here they are always there.
Policy == [hard_deny_actions : SUBSET Action,
           approval_required_actions : SUBSET Action,
           risk_defaults : [Risk -> Decisions],
           deny_if_uses_llm : BOOLEAN,
           deny_if_external_side_effect : BOOLEAN,
           reversible_must_be : BOOLEAN,
           forbidden_environments : SUBSET Environment,
           external_side_effect_must_be : BOOLEAN]

\* SECRET data may not reach a model or leave the system.
SecretDenied(r, p) ==
    /\ r.secret
    /\ \/ p.deny_if_uses_llm /\ r.uses_llm
       \/ p.deny_if_external_side_effect /\ r.external_side_effect

\* A request that claims less risk than its own fields show.
Underclassified(r, p) ==
    \/ r.risk = "L0" /\ r.side_effecting
    \/ /\ r.risk = "L1"
       /\ \/ p.reversible_must_be /\ ~ r.reversible
          \/ r.environment \in p.forbidden_environments
          \/ ~ p.external_side_effect_must_be /\ r.external_side_effect

\* the escalation of low risks comes before the rules for SECRET data
BadDecide(r, p, kill) ==
    IF ~ r.wellformed \/ kill \/ r.action \in p.hard_deny_actions THEN "deny"
    ELSE IF Underclassified(r, p) THEN "approval_required"
    ELSE IF SecretDenied(r, p) THEN "deny"
    ELSE IF r.action \in p.approval_required_actions THEN "approval_required"
    ELSE p.risk_defaults[r.risk]

Decide(r, p, kill) ==
    IF \/ ~ r.wellformed
       \/ kill
       \/ r.action \in p.hard_deny_actions
       \/ SecretDenied(r, p)
    THEN "deny"
    ELSE IF r.action \in p.approval_required_actions \/ Underclassified(r, p)
    THEN "approval_required"
    ELSE p.risk_defaults[r.risk]
----------------------------------------------------------------------------
Strictness(d) == CASE d = "allow" -> 0 [] d = "approval_required" -> 1
                   [] d = "deny" -> 2

\* Request s asks for at least as much as r, for the same action and under the
\* same claim of risk: it differs from r in what can only be more dangerous.
AsksMore(r, s, p) ==
    /\ s.action = r.action /\ s.risk = r.risk
    /\ s.wellformed => r.wellformed
    /\ r.secret => s.secret
    /\ r.side_effecting => s.side_effecting
    /\ s.reversible => r.reversible
    /\ r.external_side_effect => s.external_side_effect
    /\ r.uses_llm => s.uses_llm
    /\ r.environment \in p.forbidden_environments
          => s.environment \in p.forbidden_environments

\* An escalation is none where the default is to deny: approval_required would
\* be the weaker answer.  load_policy does not ask this of a policy.
Graded(p) == p.risk_defaults["L0"] # "deny" /\ p.risk_defaults["L1"] # "deny"

\* Answers to r and to s where s is the more dangerous request, or the kill
\* switch went on in between.
NotLooser(r, s, p, before, after) ==
    Strictness(Decide(r, p, before)) <= Strictness(Decide(s, p, after))
=============================================================================
