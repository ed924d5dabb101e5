--------------------------- MODULE MCResearchReads ---------------------------
(* Instances of ResearchReads for TLC: one source, as a test block of an
   exploratory and of a blind plan and through an artifact. *)
EXTENDS ResearchReads, TLC

CONSTANTS trial, test, figure, pilot, sealed, history, data, view, view2

Source == [i \in Items |-> "s"]
PlanOfBlock == trial :> pilot @@ test :> sealed
ReportOfBlock == trial :> history @@ test :> history
Unexposed == history :> [s |-> "unexposed"]
Scope == data :> {trial, test} @@ view :> {figure} @@ view2 :> {figure}
Until == data :> 2 @@ view :> 1 @@ view2 :> 2
FromView == view2 :> view
Setup == <<history, pilot, data, view>>
One(i, g) == <<[item |-> i, grant |-> g]>>
Reading ==
    {One(trial, data), One(test, data),
     One(figure, view) \o One(trial, data), One(test, data) \o One(figure, view2)}
=============================================================================
