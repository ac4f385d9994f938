--------------------------- MODULE MCGovernedRun ---------------------------
(***************************************************************************)
(* GovernedRun for trials that differ in what was admitted: every grader   *)
(* and gate, every grader, none, and a cooperative run without governance. *)
(***************************************************************************)
EXTENDS GovernedRun

Trial(governed, isolated, graded, strict) ==
    [governed |-> governed, isolated |-> isolated, scans |-> graded, judge |-> graded,
     secret |-> TRUE, proxy |-> graded, strict |-> strict]

MCTask == {Trial(TRUE, TRUE, TRUE, TRUE), Trial(TRUE, TRUE, TRUE, FALSE),
           Trial(TRUE, TRUE, FALSE, FALSE), Trial(FALSE, FALSE, TRUE, FALSE)}
=============================================================================
