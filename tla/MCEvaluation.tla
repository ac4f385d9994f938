---------------------------- MODULE MCEvaluation ----------------------------
(***************************************************************************)
(* Evaluation on a small instance: two sessions for the same execution.    *)
(***************************************************************************)
EXTENDS Evaluation, TLC

CONSTANTS p1, p2

MCProcess == {p1, p2}
=============================================================================
