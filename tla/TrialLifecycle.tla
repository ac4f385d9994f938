--------------------------- MODULE TrialLifecycle ---------------------------
(***************************************************************************)
(* What an experiment journal promises about one planned trial, without    *)
(* workers, files, transactions or crashes.                                *)
(*                                                                         *)
(* A trial is first only planned.  It is either withdrawn without ever     *)
(* being called, or committed to.  A committed trial is called at most     *)
(* once; its evidence is sealed at most once and never changes; it is      *)
(* final only after its evidence is sealed.  When nobody can tell what the *)
(* call did, the trial becomes unknown: it is never called from there, but *)
(* evidence of the call that was made can still be sealed.                 *)
(*                                                                         *)
(* Journal.tla (experiments/journal.py and experiments/executor.py) is     *)
(* shown to implement this specification.                                  *)
(***************************************************************************)
CONSTANTS Trial,      \* the planned trials
          Evidence,   \* what sealed evidence can say
          NoEvidence  \* no evidence is sealed; not in Evidence

VARIABLES phase,      \* phase[t]: where trial t is in its life
          evidence,   \* evidence[t]: the sealed evidence of t
          called      \* called[t]: the target has been called for t

vars == <<phase, evidence, called>>

Phase == {"planned", "committed", "unknown", "sealed", "final", "withdrawn"}

Init ==
    /\ phase = [t \in Trial |-> "planned"]
    /\ evidence = [t \in Trial |-> NoEvidence]
    /\ called = [t \in Trial |-> FALSE]

Move(t, from, to) ==
    /\ phase[t] \in from
    /\ phase' = [phase EXCEPT ![t] = to]

Withdraw(t) == Move(t, {"planned"}, "withdrawn") /\ UNCHANGED <<evidence, called>>

Commit(t) == Move(t, {"planned"}, "committed") /\ UNCHANGED <<evidence, called>>

Call(t) ==
    /\ phase[t] = "committed"
    /\ ~called[t]
    /\ called' = [called EXCEPT ![t] = TRUE]
    /\ UNCHANGED <<phase, evidence>>

LoseTrack(t) == Move(t, {"committed"}, "unknown") /\ UNCHANGED <<evidence, called>>

Seal(t) ==
    /\ called[t]
    /\ Move(t, {"committed", "unknown"}, "sealed")
    /\ evidence'[t] \in Evidence
    /\ evidence' = [evidence EXCEPT ![t] = evidence'[t]]
    /\ UNCHANGED called

Finalize(t) == Move(t, {"sealed"}, "final") /\ UNCHANGED <<evidence, called>>

Next == \E t \in Trial :
    \/ Withdraw(t)
    \/ Commit(t)
    \/ Call(t)
    \/ LoseTrack(t)
    \/ Seal(t)
    \/ Finalize(t)

Spec == Init /\ [][Next]_vars
=============================================================================
