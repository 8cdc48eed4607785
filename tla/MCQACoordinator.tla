--------------------------- MODULE MCQACoordinator ---------------------------
(* One job, leased up to twice, and two profiles, one of them the baseline. *)
EXTENDS QACoordinator
CONSTANTS j1, p1, p2

OneJob      == {j1}
TwoProfiles == {p1, p2}
OneProfile  == {p1}
Runs        == {j1} \X {p1, p2}
RunsOne     == {j1} \X {p1}

\* For the run with three attempts: nothing dies, nobody cancels, and what is sent
\* is executed before the next thing is sent.
Calm ==
    /\ \A w \in Worker : pc[w] # "dead"
    /\ \A j \in Job : status[j] # "cancelled"
    /\ \A c, d \in calls : c = d
=============================================================================
