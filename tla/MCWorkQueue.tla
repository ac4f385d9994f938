---------------------------- MODULE MCWorkQueue ----------------------------
(***************************************************************************)
(* WorkQueue on a small instance: two rows that do not fit the budget      *)
(* together, a budget that is raised and lowered, two worker names,        *)
(* measured spend below and above the reservation, and callers that use    *)
(* every epoch there has been.                                             *)
(***************************************************************************)
EXTENDS WorkQueue, TLC

CONSTANTS w1, w2, r1, unmeasured

MCWorker == {w1, w2}
MCReservation == <<2, 3>>
MCLimits == {3, 5}
MCMeasures == {1, 4}
MCReceipt == {r1}
=============================================================================
