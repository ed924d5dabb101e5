--------------------------- MODULE MCCampaignRuns ---------------------------
(* TLC instance of CampaignRuns: two candidates on two folds. *)
EXTENDS CampaignRuns, TLC

CONSTANTS r1, r2, p1, p2, f, g, k, l

Provided == r1 :> p1 @@ r2 :> p2
FoldOfCell == <<f, g, f, g>>
CandidateOfCell == <<1, 1, 2, 2>>
Metric == <<2, 2, 1, 1>>
\* One provider is steady, the other one drifts.
Prepared == r1 :> <<{k}, {k}, {k}, {k}>> @@ r2 :> <<{k, l}, {l}, {k, l}, {l}>>
=============================================================================
