----------------------------- MODULE MCJournal -----------------------------
(***************************************************************************)
(* Journal on a small instance: two trials, two processes that compete for *)
(* the writer lock, pauses after one trial and before the last ordinal.    *)
(***************************************************************************)
EXTENDS Journal, TLC

CONSTANTS w1, w2

MCWorkers == {w1, w2}
MCLimits == {1, N}
MCEnds == {1, N}
=============================================================================
