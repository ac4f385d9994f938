------------------------------ MODULE MCFleet ------------------------------
(***************************************************************************)
(* Fleet on a small instance: two rows, the second a Kubernetes Job, that  *)
(* fit the budget together only when the limit is high, and two processes  *)
(* under one worker name.                                                  *)
(***************************************************************************)
EXTENDS Fleet, TLC

CONSTANTS p1, p2, w1, good, bad, unmeasured

MCProc == {p1, p2}
MCWorker == {w1}
MCName == [p \in MCProc |-> w1]
MCJobs == {2}
MCReservation == <<2, 3>>
MCLimits == {3, 5}
MCAnswer == {good, bad}
MCReceipt == [epoch : 1..MaxEpoch, answer : MCAnswer]
=============================================================================
