----------------------------- MODULE MCJobLedger -----------------------------
(* Instances of JobLedger for TLC. *)
EXTENDS JobLedger, TLC

CONSTANTS j1, j2, k1, k2

TwoJobs == {j1, j2}
TwoKeys == {k1, k2}

OneJob == {j1}

\* Jobs and keys are interchangeable: no action and no property names one.
Symmetry == Permutations(TwoJobs) \cup Permutations(TwoKeys)
=============================================================================
