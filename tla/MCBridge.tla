------------------------------ MODULE MCBridge ------------------------------
(***************************************************************************)
(* Bridge on a small instance: two trials, one local process, one remote   *)
(* worker, a budget for both rows.                                         *)
(***************************************************************************)
EXTENDS Bridge, TLC

CONSTANTS w1, p1, r1, unmeasured

MCWorkers == {w1}
MCAll == {N}
MCProc == {p1}
MCWorker == {r1}
MCName == [p \in MCProc |-> r1]
MCReservation == [t \in Trial |-> 1]
MCLimits == {2}
=============================================================================
