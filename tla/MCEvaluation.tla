----------------------------- MODULE MCEvaluation -----------------------------
(***************************************************************************)
(* Evaluation of two coding tasks, for a run of its own.                   *)
(***************************************************************************)
EXTENDS Evaluation

TwoTasks == <<"coding", "coding">>
================================================================================
