---------------------------- MODULE ModelRegistry ----------------------------
(***************************************************************************)
(* B026, db/migrations/0002_model_registry.sql: evaluations of candidate    *)
(* models for one role, and which of them fzh.rank_model_candidates scores  *)
(* for a request that names the machine This.  An evaluation is observed at *)
(* one time, holds until another, and may be inserted late.  The scores,    *)
(* and what the operator approves, are not modelled.                        *)
(***************************************************************************)
EXTENDS Integers, FiniteSets

CONSTANTS
    Remote,       \* candidates of remote providers
    Local,        \* candidates of local ones
    Machines,     \* hardware fingerprints
    This,         \* the one that the request names
    Anywhere,     \* hardware_fingerprint IS NULL
    Evaluations,  \* bound on the rows of model_evaluations
    Horizon       \* bound on the time

Candidate == Remote \cup Local

ASSUME RegistryAssumption ==
    /\ This \in Machines /\ Anywhere \notin Machines /\ Remote \cap Local = {}
    /\ Evaluations \in Nat /\ Horizon \in Nat

VARIABLES
    clock,       \* the time
    evaluations  \* model_evaluations

registryVars == <<clock, evaluations>>

Evaluation ==
    [evaluation_id : 1..Evaluations, candidate_key : Candidate, synthetic : BOOLEAN,
     hardware_fingerprint : Machines \cup {Anywhere},
     observed_at : 0..Horizon, valid_until : 1..(Horizon + 1)]
----------------------------------------------------------------------------
RegistryInit == clock = 0 /\ evaluations = {}

Tick == clock < Horizon /\ clock' = clock + 1 /\ UNCHANGED evaluations

\* The checks of the table: valid_until > observed_at.
InsertEvaluation ==
    \E r \in Evaluation :
        /\ r.evaluation_id = Cardinality(evaluations) + 1
        /\ r.observed_at <= clock /\ r.valid_until > r.observed_at
        /\ evaluations' = evaluations \cup {r}
        /\ UNCHANGED clock

RegistryNext == Tick \/ InsertEvaluation

RegistrySpec == RegistryInit /\ [][RegistryNext]_registryVars
----------------------------------------------------------------------------
\* A local candidate needs an evaluation on this machine, a remote one needs one
\* that is not about a machine.
InScope(r) ==
    \/ r.candidate_key \in Remote /\ r.hardware_fingerprint = Anywhere
    \/ r.candidate_key \in Local  /\ r.hardware_fingerprint = This

Valid(r) == ~r.synthetic /\ r.valid_until > clock /\ InScope(r)

\* Mutant of Newer: the last one inserted comes first.
BadNewer(r, q) == r.evaluation_id >= q.evaluation_id

\* ORDER BY observed_at DESC, evaluation_id DESC.
Newer(r, q) ==
    \/ r.observed_at > q.observed_at
    \/ r.observed_at = q.observed_at /\ r.evaluation_id >= q.evaluation_id

NewestOf(rows) ==
    {r \in rows : \A q \in rows : q.candidate_key = r.candidate_key => Newer(r, q)}

\* The evaluations that are scored: DISTINCT ON (candidate_key) of the valid ones.
LatestValid == NewestOf({r \in evaluations : Valid(r)})
----------------------------------------------------------------------------
\* The rows are of this shape, and no candidate is scored on two of them.
RegistryTypeOK ==
    /\ clock \in 0..Horizon /\ evaluations \subseteq Evaluation
    /\ \A r, q \in LatestValid : r.candidate_key = q.candidate_key => r = q

\* Evidence that comes late, or time that passes, never moves a candidate back to
\* an older evaluation while the one it is scored on is still valid.
LateEvidenceIsHarmless ==
    [][\A r \in LatestValid : r.valid_until > clock' =>
            \E q \in LatestValid' : /\ q.candidate_key = r.candidate_key
                                    /\ q.observed_at >= r.observed_at]_registryVars

\* A synthetic evaluation, one that has expired and one of another machine change
\* nothing: no candidate gains, loses or changes the evaluation it is scored on.
ForeignEvidenceIsIgnored ==
    [][clock' = clock /\ (\A r \in evaluations' \ evaluations : ~Valid(r))
            => LatestValid' = LatestValid]_registryVars

\* The ranking is one row for each candidate, and neither goes back to an older
\* evaluation nor is moved by one that does not count.
RankingHolds ==
    []RegistryTypeOK /\ LateEvidenceIsHarmless /\ ForeignEvidenceIsIgnored
=============================================================================
