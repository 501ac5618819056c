--------------------------- MODULE MCSessionTrace ---------------------------
(* Bounds for TLC: a run that goes on from its first of two steps, with    *)
(* two tools in it, so that a query and a delegation meet in either order. *)
(* Its subagent has both steps and a tool, so that a cut-off follows a     *)
(* full step.                                                              *)
EXTENDS SessionTrace

TwoSteps == 2
AfterOne == 1
TwoAtTheTop == [s \in Session |-> CASE s = "top" -> 2 [] s = "sub" -> 1 [] OTHER -> 0]
OneQuery == 1
=============================================================================
