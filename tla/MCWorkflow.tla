----------------------------- MODULE MCWorkflow -----------------------------
(***************************************************************************)
(* Model checking of Workflow: small budgets, so that every limit can be   *)
(* reached at every check, and the weights that lie on either side of the  *)
(* two thresholds of the risk score.                                       *)
(***************************************************************************)
EXTENDS Workflow

(* Three calls when nothing is ranked; two more for one ranked file.       *)
ProbeCounts == {3, 5}

(* Nothing sensitive, a build script, a CI workflow (RiskEngine weights).    *)
Weights == {0, 12, 30}
=============================================================================
