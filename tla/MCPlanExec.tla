----------------------------- MODULE MCPlanExec -----------------------------
(* Two plans that share a file: in a repository of two files, or of one. *)
EXTENDS PlanExec
CONSTANTS p1, p2, f1, f2

MCTouch == (p1 :> {f1, f2}) @@ (p2 :> {f1})
MCTouchOne == [t \in {p1, p2} |-> {f1}]
=============================================================================
