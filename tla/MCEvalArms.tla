----------------------------- MODULE MCEvalArms -----------------------------
(* EvalArms for TLC: the instances have no symmetry (the evaluator orders them). *)
EXTENDS EvalArms
=============================================================================
