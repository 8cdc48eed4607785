------------------------- MODULE MCEngineeringWorker -------------------------
(* One job, leased up to twice: two processes of it may run at once. *)
EXTENDS EngineeringWorker
CONSTANT j1

OneJob     == {j1}
Candidates == {<<j1, "candidate">>}
=============================================================================
