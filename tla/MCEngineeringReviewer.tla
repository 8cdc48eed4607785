------------------------ MODULE MCEngineeringReviewer ------------------------
(* One job, leased up to twice; no effect is ever claimed.  And the hand-over of   *)
(* two candidates, which shares nothing with it: a behaviour has the steps of the *)
(* one or the other.                                                              *)
EXTENDS EngineeringReviewer, HandOver, TLC
CONSTANTS j1, c1, c2, r1, r2, q1
VARIABLE part   \* "review" or "handover"

OneJob        == {j1}
TwoCandidates == {c1, c2}
TwoReviews    == {r1, r2}
OneQAJob      == {q1}

Sealed(x) == [manifest |-> x, evidence |-> x, other |-> x]

(* Of the one candidate nothing is there yet; the other was kept, and approved. *)
MCInit ==
    /\ part \in {"review", "handover"}
    /\ ReviewerInit
    /\ work = (c1 :> "absent" @@ c2 :> "kept")
    /\ evidence = (c1 :> Empty @@ c2 :> Sealed(c2))
    /\ tip = (c1 :> Gone @@ c2 :> c2)
    /\ payload = (r1 :> ForCandidate(c1) @@ r2 :> ForCandidate(c2))
    /\ reviewing = (r1 :> "absent" @@ r2 :> "done")
    /\ seen = [r \in ReviewJob |-> Unread]
    /\ opinion = (r1 :> "none" @@ r2 :> "approve")
    /\ bundle = (r1 :> Empty @@ r2 :> Sealed(r2))
    /\ order = (q1 :> ForReview(r1))
    /\ testing = (q1 :> "absent")
    /\ loaded = (q1 :> Unread)
    /\ ran = (q1 :> Gone)
    /\ slips = 0 /\ extra = {} /\ changes = 0 /\ moved = {}

MCNext ==
    /\ \/ part = "review"   /\ ReviewerNext /\ UNCHANGED handOverVars
       \/ part = "handover" /\ HandOverNext /\ UNCHANGED reviewerVars
    /\ UNCHANGED part

MCSpec == MCInit /\ [][MCNext]_<<reviewerVars, handOverVars, part>> /\ ReviewerFairness
=============================================================================
