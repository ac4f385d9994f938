--------------------------- MODULE MCAttestation ---------------------------
(* The small instance: trails of up to two events, of three kinds, one of  *)
(* which the schemas refuse; two further artifacts, one of them with the   *)
(* name of a statement; two changes by others.                             *)
EXTENDS Attestation

Requested == [Plain EXCEPT !.type = "evaluation.requested", !.group = "whole", !.judge = TRUE, !.identity = TRUE]
Unnamed   == [Requested EXCEPT !.identity = FALSE]
MCEvents  == {Plain, Requested, Unnamed}
=============================================================================
