-------------------------- MODULE CandidateProofs --------------------------
(***************************************************************************)
(* Proofs about Evaluation and Authority.  For any number of sessions,     *)
(* whatever dies, fails or times out, submitted code is started at most    *)
(* once, one session handles its container, and an assessment is grounded  *)
(* in that one run.  For any schedule, any repairs and any operators, an   *)
(* execution has one outcome, a study's repairs are frozen before it is    *)
(* reported, and what was scheduled can be reported.                       *)
(***************************************************************************)
EXTENDS Evaluation, Authority, FiniteSetTheorems, TLAPS

-----------------------------------------------------------------------------
\* The inductive invariant

\* The labels at which a session has the journal open to write.
HasLock(p) ==
    \/ pc[p] \in BoxLabels
    \/ pc[p] \in {"reconcile", "rcommit", "close", "loop", "seal", "commit", "grade", "done"}
    \/ pc[p] = "saved" /\ back[p] # "final"

\* There is one writer.
LockInv == \A p \in Process : HasLock(p) => lock = p

\* Before its receipt is sealed a trial waits, runs, or is ambiguous; an
\* observation that is sealed is the saved one.
SealInv ==
    /\ row = "queued" => sealed = None
    /\ row \in {"observed", "completed"} => sealed # None
    /\ sealed \in Run => receipt = sealed

\* The labels up to the sealing of the receipt, and those after the journal is closed.
Unsealed(p) ==
    \/ pc[p] \in BoxLabels \cup {"reconcile", "seal"}
    \/ pc[p] = "saved" /\ back[p] # "final"

Closed(p) ==
    \/ pc[p] \in {"final", "assess", "cleanup"}
    \/ pc[p] = "saved" /\ back[p] = "final"

\* What a session knows of its trial at each label.
SessionOf(p) ==
    /\ Unsealed(p) =>
          /\ sealed = None
          /\ row = IF back[p] = "seal" THEN "running" ELSE "reconciliation_required"
    /\ pc[p] \in BoxLabels => back[p] # "final" /\ receipt = None
    /\ pc[p] \in {"reconcile", "seal"} =>
          /\ back[p] = pc[p]
          /\ held[p] # None
          /\ held[p] \in Run => receipt = held[p]
    /\ pc[p] = "rcommit" => row = "reconciliation_required" /\ sealed # None
    /\ pc[p] = "commit" => row = "running" /\ sealed # None
    /\ pc[p] = "grade" => row = "observed"
    /\ pc[p] = "done" => row = "completed"
    /\ Closed(p) => row = "completed" /\ sealed \in Run
    /\ pc[p] = "assess" => held[p] = sealed

SessionInv == \A p \in Process : SessionOf(p)

\* The container is created once, after its dispatch, and started once; what
\* became of it stays.
BoxInv ==
    /\ starts \in {0, 1}
    /\ ~dispatch => box = "absent" /\ starts = 0
    /\ box = "created" => starts = 0
    /\ box = "running" => starts = 1 /\ ran = None
    /\ box = "exited" => starts = 1 /\ ran # None
    /\ ran # None => starts = 1
    /\ receipt # None => receipt = ran
    /\ \A p \in Process :
        /\ pc[p] \in {"materialize", "fill", "dispatch"} => ~dispatch
        /\ pc[p] = "create" => dispatch /\ box = "absent" /\ starts = 0
        /\ pc[p] = "collect" => box \in {"exited", "absent"}

IInv == TypeOK /\ LockInv /\ SealInv /\ SessionInv /\ BoxInv /\ Grounded

-----------------------------------------------------------------------------
\* The steps

\* Every step keeps the types.
LEMMA TypeStep ==
  ASSUME TypeOK, SessionInv, BoxInv, Next
  PROVE  TypeOK'
<1>1. ASSUME NEW p \in Process, Commit(p) \/ Poll(p)
      PROVE  TypeOK'
  BY <1>1 DEF Commit, Poll, Goto, TypeOK, Labels, BoxLabels, DockerLabels,
     journal, boundary, catalogue, history
<1>2. ASSUME NEW p \in Process, Seal(p)
      PROVE  TypeOK'
  BY <1>2 DEF Seal, Goto, TypeOK, Labels, boundary, catalogue, history
<1>3. ASSUME NEW p \in Process, Collect(p)
      PROVE  TypeOK'
  BY <1>3 DEF Collect, Goto, TypeOK, Labels, BoxInv, journal, catalogue,
     history
<1>4. ASSUME NEW p \in Process, DockerFails(p)
      PROVE  TypeOK'
  BY <1>4 DEF DockerFails, Goto, Effect, Started, Killed, Raise, Unlocked,
     Ends, TypeOK, Labels, Run, catalogue, history
<1>5. ASSUME NEW p \in Process, DockerTimesOut(p)
      PROVE  TypeOK'
  BY <1>5 DEF DockerTimesOut, Goto, Effect, Started, Killed, TypeOK, Labels,
     Run, journal, catalogue, history
<1>6. ASSUME NEW p \in Process, Assess(p)
      PROVE  TypeOK'
  BY <1>6 DEF Assess, Goto, Raise, Unlocked, Ends, TypeOK, Labels, SessionInv,
     SessionOf, Closed, journal, boundary, history
<1>7. ASSUME NEW p \in Process, Open(p)
      PROVE  TypeOK'
  BY <1>7 DEF Open, Goto, Opens, Recovered, Execute, TypeOK, Labels, boundary,
     catalogue, history
<1>8. ASSUME NEW p \in Process, Reopen(p)
      PROVE  TypeOK'
  BY <1>8 DEF Reopen, Goto, Opens, Recovered, TypeOK, Labels, boundary,
     catalogue, history
<1>9. ASSUME NEW p \in Process, Dispatch(p)
      PROVE  TypeOK'
  BY <1>9 DEF Dispatch, Goto, TypeOK, Labels, BoxLabels, DockerLabels,
     journal, catalogue, history
<1>10. ASSUME NEW p \in Process, Create(p)
      PROVE  TypeOK'
  BY <1>10 DEF Create, Goto, TypeOK, Labels, BoxLabels, DockerLabels, journal,
     catalogue, history
<1>11. ASSUME NEW p \in Process, Start(p)
      PROVE  TypeOK'
  BY <1>11 DEF Start, Goto, Started, TypeOK, Labels, BoxLabels, DockerLabels,
     journal, catalogue
<1>12. ASSUME NEW p \in Process, Kill(p)
      PROVE  TypeOK'
  BY <1>12 DEF Kill, Goto, Killed, TypeOK, Labels, BoxLabels, DockerLabels,
     Run, journal, boundary, catalogue, session, history
<1>13. ASSUME NEW p \in Process, Cleanup(p)
      PROVE  TypeOK'
  BY <1>13 DEF Cleanup, Goto, Ends, TypeOK, Labels, journal, catalogue,
     history
<1>14. ASSUME NEW p \in Process, Done(p)
      PROVE  TypeOK'
  BY <1>14 DEF Done, Goto, Unlocked, Ends, Execute, TypeOK, Labels, boundary,
     catalogue, history
<1>15. ASSUME NEW p \in Process, Inspect(p)
      PROVE  TypeOK'
  BY <1>15 DEF Inspect, Goto, Raise, Unlocked, Ends, TypeOK, Labels,
     BoxLabels, DockerLabels, journal, boundary, catalogue, history
<1>16. ASSUME NEW p \in Process, Gone(p)
      PROVE  TypeOK'
  BY <1>16 DEF Gone, Goto, Raise, Unlocked, Ends, TypeOK, Labels, boundary,
     catalogue, history
<1>17. ASSUME NEW p \in Process, Saved(p)
      PROVE  TypeOK'
  BY <1>17 DEF Saved, Goto, TypeOK, Labels, BoxLabels, DockerLabels, journal,
     boundary, catalogue, history
<1>18. ASSUME NEW p \in Process, Final(p)
      PROVE  TypeOK'
  BY <1>18 DEF Final, Goto, Raise, Unlocked, Ends, TypeOK, Labels, journal,
     boundary, catalogue, history
<1>19. ASSUME NEW p \in Process, Begin(p)
      PROVE  TypeOK'
  BY <1>19 DEF Begin, Goto, TypeOK, Labels, journal, boundary, catalogue,
     history
<1>20. ASSUME NEW p \in Process, Plan(p)
      PROVE  TypeOK'
  BY <1>20 DEF Plan, Goto, TypeOK, Labels, boundary, catalogue, history
<1>21. ASSUME NEW p \in Process, Skip(p)
      PROVE  TypeOK'
  BY <1>21 DEF Skip, Goto, TypeOK, Labels, journal, boundary, catalogue,
     history
<1>22. ASSUME NEW p \in Process, Grade(p)
      PROVE  TypeOK'
  BY <1>22 DEF Grade, Goto, TypeOK, Labels, boundary, catalogue, history
<1>23. ASSUME NEW p \in Process, Close(p)
      PROVE  TypeOK'
  BY <1>23 DEF Close, Goto, Unlocked, TypeOK, Labels, boundary, catalogue,
     history
<1>24. ASSUME NEW p \in Process, Claim(p)
      PROVE  TypeOK'
  BY <1>24 DEF Claim, Goto, Execute, TypeOK, Labels, boundary, catalogue,
     history
<1>25. ASSUME NEW p \in Process, Busy(p) \/ GivesUp(p) \/ Crash(p)
      PROVE  TypeOK'
  BY <1>25 DEF Busy, GivesUp, Crash, Goto, Ends, Unlocked, Raise, TypeOK,
     Labels, journal, boundary, catalogue, history
<1>26. ASSUME Exits
      PROVE  TypeOK'
  BY <1>26 DEF Exits, TypeOK, Run, journal, catalogue, session
<1>27. ASSUME TimePasses
      PROVE  TypeOK'
  BY <1>27 DEF TimePasses, TypeOK, journal, catalogue, session, history
<1>28. ASSUME Removed
      PROVE  TypeOK'
  BY <1>28 DEF Removed, TypeOK, journal, catalogue, session, history
<1>29. ASSUME RequestCancel
      PROVE  TypeOK'
  BY <1>29 DEF RequestCancel, TypeOK, boundary, catalogue, session, history
<1>30. ASSUME RecordUsage
      PROVE  TypeOK'
  BY <1>30 DEF RecordUsage, TypeOK, journal, boundary, session, history
<1>31. ASSUME NEW p \in Process, Materialize(p) \/ Fill(p)
      PROVE  TypeOK'
  BY <1>31 DEF Materialize, Fill, Goto, TypeOK, Labels, BoxLabels, DockerLabels,
     journal, catalogue, history
<1> QED
  BY <1>1, <1>2, <1>3, <1>4, <1>5, <1>6, <1>7, <1>8, <1>9, <1>10, <1>11,
     <1>12, <1>13, <1>14, <1>15, <1>16, <1>17, <1>18, <1>19, <1>20, <1>21,
     <1>22, <1>23, <1>24, <1>25, <1>26, <1>27, <1>28, <1>29, <1>30, <1>31
  DEF Next, Step

\* A step that takes the lock finds it free, and one that enters a label of
\* the writer has it.
LEMMA LockStep ==
  ASSUME TypeOK, LockInv, SealInv, SessionInv, Next
  PROVE  LockInv'
<1>1. ASSUME NEW p \in Process,
             Begin(p) \/ Plan(p) \/ Busy(p) \/ Seal(p) \/ Commit(p) \/
             Close(p) \/ GivesUp(p) \/ Skip(p) \/ Grade(p) \/ Inspect(p)
             \/ Materialize(p) \/ Fill(p) \/ Dispatch(p) \/ Create(p) \/
             Start(p) \/ Poll(p) \/ Kill(p) \/ Collect(p) \/ Gone(p) \/ Final(p) \/ Assess(p) \/
             Cleanup(p) \/ DockerFails(p) \/ DockerTimesOut(p) \/
             Crash(p)
      PROVE  LockInv'
  BY <1>1 DEF Begin, Plan, Busy, Seal, Commit, Close, GivesUp, Skip, Grade,
     Inspect, Materialize, Fill, Dispatch, Create, Start, Poll, Kill, Collect,
     Gone, Final, Assess, Cleanup, DockerFails, DockerTimesOut, Crash, Goto, Ends,
     Unlocked, Raise, LockInv, HasLock, BoxLabels, DockerLabels, TypeOK,
     journal
<1>2. ASSUME NEW p \in Process, Open(p)
      PROVE  LockInv'
  BY <1>2, EvaluationAssumption DEF Open, Goto, Opens, Execute, LockInv,
     HasLock, TypeOK
<1>3. ASSUME NEW p \in Process, Reopen(p)
      PROVE  LockInv'
  BY <1>3, EvaluationAssumption DEF Reopen, Goto, Opens, LockInv, HasLock
<1>4. ASSUME NEW p \in Process, Saved(p)
      PROVE  LockInv'
  BY <1>4 DEF Saved, Goto, LockInv, HasLock, BoxLabels, DockerLabels, TypeOK,
     SealInv, SessionInv, SessionOf, Closed, journal
<1>5. ASSUME NEW p \in Process, Claim(p)
      PROVE  LockInv'
  BY <1>5 DEF Claim, Goto, Execute, LockInv, HasLock
<1>6. ASSUME NEW p \in Process, Done(p)
      PROVE  LockInv'
  BY <1>6 DEF Done, Goto, Ends, Execute, LockInv, HasLock, BoxLabels,
     DockerLabels, TypeOK
<1>7. ASSUME
             Exits \/ TimePasses \/ Removed \/ RequestCancel \/
             RecordUsage
      PROVE  LockInv'
  BY <1>7 DEF Exits, TimePasses, Removed, RequestCancel, RecordUsage, LockInv,
     HasLock, journal, session
<1> QED
  BY <1>1, <1>2, <1>3, <1>4, <1>5, <1>6, <1>7 DEF Next, Step

\* Only the writer moves the row and seals, and it knows what it seals.
LEMMA SealStep ==
  ASSUME TypeOK, LockInv, SealInv, SessionInv, BoxInv, Next
  PROVE  SealInv'
<1>1. ASSUME NEW p \in Process,
             Begin(p) \/ Plan(p) \/ Busy(p) \/ Close(p) \/ Skip(p) \/
             Done(p) \/ Saved(p) \/ Inspect(p) \/ Materialize(p) \/
             Fill(p) \/ Dispatch(p) \/ Create(p) \/ Start(p) \/ Poll(p) \/ Kill(p) \/ Gone(p) \/
             Final(p) \/ Assess(p) \/ Cleanup(p) \/ DockerFails(p) \/
             DockerTimesOut(p) \/ Crash(p)
      PROVE  SealInv'
  BY <1>1 DEF Begin, Plan, Busy, Close, Skip, Done, Saved, Inspect,
     Materialize, Fill, Dispatch, Create, Start, Poll, Kill, Gone, Final, Assess,
     Cleanup, DockerFails,
     DockerTimesOut, Crash, Raise, SealInv, journal, boundary
<1>2. ASSUME NEW p \in Process, Open(p)
      PROVE  SealInv'
  BY <1>2 DEF Open, Opens, Recovered, SealInv, boundary
<1>3. ASSUME NEW p \in Process, Reopen(p)
      PROVE  SealInv'
  BY <1>3 DEF Reopen, Opens, Recovered, SealInv, boundary
<1>4. ASSUME NEW p \in Process, Seal(p)
      PROVE  SealInv'
  BY <1>4 DEF Seal, SealInv, SessionInv, SessionOf, Unsealed, boundary
<1>5. ASSUME NEW p \in Process, Commit(p)
      PROVE  SealInv'
  BY <1>5 DEF Commit, SealInv, SessionInv, SessionOf, boundary
<1>6. ASSUME NEW p \in Process, GivesUp(p)
      PROVE  SealInv'
  BY <1>6 DEF GivesUp, SealInv, boundary
<1>7. ASSUME NEW p \in Process, Claim(p)
      PROVE  SealInv'
  BY <1>7 DEF Claim, SealInv, boundary
<1>8. ASSUME NEW p \in Process, Grade(p)
      PROVE  SealInv'
  BY <1>8 DEF Grade, SealInv, SessionInv, SessionOf, boundary
<1>9. ASSUME NEW p \in Process, Collect(p)
      PROVE  SealInv'
  BY <1>9, EvaluationAssumption DEF Collect, SealInv, SessionInv, SessionOf,
     BoxLabels, DockerLabels, Run, journal
<1>10. ASSUME
             Exits \/ TimePasses \/ Removed \/ RequestCancel \/
             RecordUsage
      PROVE  SealInv'
  BY <1>10 DEF Exits, TimePasses, Removed, RequestCancel, RecordUsage,
     SealInv, journal, boundary
<1> QED
  BY <1>1, <1>2, <1>3, <1>4, <1>5, <1>6, <1>7, <1>8, <1>9, <1>10 DEF Next,
     Step

\* What a session knows stays true under its own steps and under those of
\* the others, which are not the writer.
LEMMA SessionStep ==
  ASSUME TypeOK, LockInv, SealInv, SessionInv, BoxInv, Next
  PROVE  SessionInv'
<1>1. ASSUME NEW p \in Process,
             Begin(p) \/ Plan(p) \/ Busy(p) \/ Start(p) \/ Poll(p) \/
             Kill(p) \/ Gone(p) \/ Assess(p) \/ Cleanup(p) \/ Crash(p)
      PROVE  SessionInv'
  BY <1>1 DEF Begin, Plan, Busy, Start, Poll, Kill, Gone, Assess, Cleanup,
     Crash, Goto, Ends, Raise, SessionInv, SessionOf, Unsealed, Closed,
     BoxLabels, DockerLabels, TypeOK, journal, boundary
<1>2. ASSUME NEW p \in Process, Open(p)
      PROVE  SessionInv'
  BY <1>2, EvaluationAssumption DEF Open, Goto, Opens, Recovered, Execute,
     LockInv, HasLock, SessionInv, SessionOf, Unsealed, Closed, BoxLabels,
     DockerLabels, TypeOK
<1>3. ASSUME NEW p \in Process, Reopen(p)
      PROVE  SessionInv'
  BY <1>3, EvaluationAssumption DEF Reopen, Goto, Opens, Recovered, LockInv,
     HasLock, SessionInv, SessionOf, Unsealed, Closed, BoxLabels, DockerLabels
<1>4. ASSUME NEW p \in Process, Seal(p)
      PROVE  SessionInv'
  BY <1>4 DEF Seal, Goto, LockInv, HasLock, SessionInv, SessionOf, Unsealed,
     Closed, BoxLabels, DockerLabels, TypeOK
<1>5. ASSUME NEW p \in Process, Commit(p)
      PROVE  SessionInv'
  BY <1>5 DEF Commit, Goto, LockInv, HasLock, SessionInv, SessionOf, Unsealed,
     Closed, BoxLabels, DockerLabels, TypeOK
<1>6. ASSUME NEW p \in Process, Close(p)
      PROVE  SessionInv'
  BY <1>6 DEF Close, Goto, SessionInv, SessionOf, Unsealed, Closed, BoxLabels,
     DockerLabels, boundary
<1>7. ASSUME NEW p \in Process, GivesUp(p)
      PROVE  SessionInv'
  BY <1>7 DEF GivesUp, Goto, Ends, SessionInv, SessionOf, Unsealed, Closed,
     BoxLabels, DockerLabels, boundary
<1>8. ASSUME NEW p \in Process, Claim(p)
      PROVE  SessionInv'
  BY <1>8 DEF Claim, Goto, Execute, SealInv, SessionInv, SessionOf, Unsealed,
     Closed, BoxLabels, DockerLabels, TypeOK
<1>9. ASSUME NEW p \in Process, Skip(p)
      PROVE  SessionInv'
  BY <1>9 DEF Skip, Goto, SessionInv, SessionOf, Unsealed, Closed, BoxLabels,
     DockerLabels, TypeOK, journal
<1>10. ASSUME NEW p \in Process, Grade(p)
      PROVE  SessionInv'
  BY <1>10 DEF Grade, Goto, LockInv, HasLock, SessionInv, SessionOf, Unsealed,
     Closed, BoxLabels, DockerLabels, TypeOK
<1>11. ASSUME NEW p \in Process, Done(p)
      PROVE  SessionInv'
  BY <1>11 DEF Done, Goto, Ends, Execute, SealInv, SessionInv, SessionOf,
     Unsealed, Closed, BoxLabels, DockerLabels, TypeOK
<1>12. ASSUME NEW p \in Process, Saved(p)
      PROVE  SessionInv'
  BY <1>12 DEF Saved, Goto, SealInv, SessionInv, SessionOf, Unsealed, Closed,
     BoxLabels, DockerLabels, TypeOK, journal, boundary
<1>13. ASSUME NEW p \in Process, Inspect(p)
      PROVE  SessionInv'
  BY <1>13 DEF Inspect, Goto, Raise, Ends, SessionInv, SessionOf, Unsealed,
     Closed, BoxLabels, DockerLabels, TypeOK, journal, boundary
<1>14. ASSUME NEW p \in Process, Materialize(p) \/ Fill(p) \/ Dispatch(p)
      PROVE  SessionInv'
  <2>1. ASSUME NEW q \in Process
        PROVE  SessionOf(q)'
    <3>1. pc'[q] = pc[q] \/ (q = p /\ pc[q] \in BoxLabels /\ pc'[q] \in BoxLabels)
      BY <1>14, <2>1 DEF Materialize, Fill, Dispatch, Goto, BoxLabels, DockerLabels,
         TypeOK
    <3>2. /\ pc'[q] \in BoxLabels => pc[q] \in BoxLabels
          /\ pc'[q] \notin BoxLabels => pc'[q] = pc[q]
      BY <3>1
    <3>3. UNCHANGED <<back, held, row, sealed, receipt>>
      BY <1>14 DEF Materialize, Fill, Dispatch, journal
    <3> QED
      BY <2>1, <3>2, <3>3 DEF SessionInv, SessionOf, Unsealed, Closed, BoxLabels,
         DockerLabels
  <2> QED
    BY <2>1 DEF SessionInv
<1>15. ASSUME NEW p \in Process, Create(p)
      PROVE  SessionInv'
  BY <1>15 DEF Create, Goto, SessionInv, SessionOf, Unsealed, Closed,
     BoxLabels, DockerLabels, journal
<1>16. ASSUME NEW p \in Process, Collect(p)
      PROVE  SessionInv'
  BY <1>16 DEF Collect, Goto, LockInv, HasLock, SessionInv, SessionOf,
     Unsealed, Closed, BoxLabels, DockerLabels, TypeOK, BoxInv, journal
<1>17. ASSUME NEW p \in Process, DockerFails(p)
      PROVE  SessionInv'
  BY <1>17 DEF DockerFails, Goto, Raise, Ends, SessionInv, SessionOf,
     Unsealed, Closed, BoxLabels, DockerLabels
<1>18. ASSUME NEW p \in Process, DockerTimesOut(p)
      PROVE  SessionInv'
  BY <1>18, EvaluationAssumption DEF DockerTimesOut, Goto, SessionInv,
     SessionOf, Unsealed, Closed, TypeOK, Run, journal
<1>19. ASSUME NEW p \in Process, Final(p)
      PROVE  SessionInv'
  BY <1>19 DEF Final, Goto, Raise, Ends, SessionInv, SessionOf, Unsealed,
     Closed, BoxLabels, DockerLabels, TypeOK, journal
<1>20. ASSUME
             Exits \/ TimePasses \/ Removed \/ RequestCancel \/
             RecordUsage
      PROVE  SessionInv'
  BY <1>20 DEF Exits, TimePasses, Removed, RequestCancel, RecordUsage,
     SessionInv, SessionOf, Unsealed, Closed, journal, boundary, session
<1> QED
  BY <1>1, <1>2, <1>3, <1>4, <1>5, <1>6, <1>7, <1>8, <1>9, <1>10, <1>11,
     <1>12, <1>13, <1>14, <1>15, <1>16, <1>17, <1>18, <1>19, <1>20 DEF Next,
     Step

\* The container changes only in the hands of its one handler, or to become
\* exited or absent.
LEMMA BoxStep ==
  ASSUME TypeOK, LockInv, SealInv, SessionInv, BoxInv, Next
  PROVE  BoxInv'
<1>1. ASSUME NEW p \in Process,
             Begin(p) \/ Plan(p) \/ Open(p) \/ Busy(p) \/ Seal(p) \/
             Commit(p) \/ Close(p) \/ Reopen(p) \/ GivesUp(p) \/ Claim(p)
             \/ Skip(p) \/ Grade(p) \/ Done(p) \/ Saved(p) \/ Gone(p) \/
             Final(p) \/ Assess(p) \/ Crash(p)
      PROVE  BoxInv'
  BY <1>1 DEF Begin, Plan, Open, Busy, Seal, Commit, Close, Reopen, GivesUp,
     Claim, Skip, Grade, Done, Saved, Gone, Final, Assess, Crash, Goto,
     Execute, Ends, Raise, TypeOK, BoxInv, boundary, history
<1>2. ASSUME NEW p \in Process, Inspect(p)
      PROVE  BoxInv'
  BY <1>2 DEF Inspect, Goto, Raise, Ends, TypeOK, BoxInv, boundary, history
<1>3. ASSUME NEW p \in Process, Materialize(p) \/ Fill(p) \/ Dispatch(p)
      PROVE  BoxInv'
  BY <1>3 DEF Materialize, Fill, Dispatch, Goto, LockInv, HasLock, BoxLabels, TypeOK, BoxInv,
     history
<1>4. ASSUME NEW p \in Process, Create(p)
      PROVE  BoxInv'
  BY <1>4 DEF Create, Goto, LockInv, HasLock, BoxLabels, DockerLabels, TypeOK,
     BoxInv, history
<1>5. ASSUME NEW p \in Process, Start(p)
      PROVE  BoxInv'
  BY <1>5 DEF Start, Goto, Started, BoxInv
<1>6. ASSUME NEW p \in Process, Poll(p)
      PROVE  BoxInv'
  BY <1>6 DEF Poll, Goto, TypeOK, BoxInv, boundary, history
<1>7. ASSUME NEW p \in Process, Kill(p)
      PROVE  BoxInv'
  BY <1>7, EvaluationAssumption DEF Kill, Goto, Killed, BoxInv
<1>8. ASSUME NEW p \in Process, Collect(p)
      PROVE  BoxInv'
  BY <1>8 DEF Collect, Goto, TypeOK, BoxInv, history
<1>9. ASSUME NEW p \in Process, DockerFails(p)
      PROVE  BoxInv'
  BY <1>9, EvaluationAssumption DEF DockerFails, Goto, Effect, Started,
     Killed, Raise, Ends, LockInv, HasLock, BoxLabels, DockerLabels, TypeOK,
     BoxInv, history
<1>10. ASSUME NEW p \in Process, DockerTimesOut(p)
      PROVE  BoxInv'
  BY <1>10, EvaluationAssumption DEF DockerTimesOut, Goto, Effect, Started,
     Killed, LockInv, HasLock, BoxLabels, DockerLabels, TypeOK, BoxInv,
     history
<1>11. ASSUME NEW p \in Process, Cleanup(p)
      PROVE  BoxInv'
  BY <1>11 DEF Cleanup, Goto, Ends, BoxInv, history
<1>12. ASSUME Exits
      PROVE  BoxInv'
  BY <1>12, EvaluationAssumption DEF Exits, BoxInv, session
<1>13. ASSUME Removed
      PROVE  BoxInv'
  BY <1>13 DEF Removed, BoxInv, session, history
<1>14. ASSUME TimePasses \/ RequestCancel \/ RecordUsage
      PROVE  BoxInv'
  BY <1>14 DEF TimePasses, RequestCancel, RecordUsage, BoxInv, boundary,
     session, history
<1> QED
  BY <1>1, <1>2, <1>3, <1>4, <1>5, <1>6, <1>7, <1>8, <1>9, <1>10, <1>11,
     <1>12, <1>13, <1>14 DEF Next, Step

\* An assessment is made of the sealed observation, and neither changes
\* afterwards.
LEMMA GroundStep ==
  ASSUME TypeOK, LockInv, SealInv, SessionInv, BoxInv, Grounded, Next
  PROVE  Grounded'
<1>1. ASSUME NEW p \in Process,
             Begin(p) \/ Plan(p) \/ Busy(p) \/ Close(p) \/ Skip(p) \/
             Grade(p) \/ Done(p) \/ Saved(p) \/ Inspect(p) \/
             Materialize(p) \/ Fill(p) \/ Dispatch(p) \/ Create(p) \/ Start(p) \/ Poll(p) \/ Kill(p) \/ Gone(p) \/
             Final(p) \/ Cleanup(p) \/ DockerFails(p) \/
             DockerTimesOut(p) \/ Crash(p)
      PROVE  Grounded'
  BY <1>1 DEF Begin, Plan, Busy, Close, Skip, Grade, Done, Saved, Inspect,
     Materialize, Fill, Dispatch, Create, Start, Poll, Kill, Gone, Final, Cleanup,
     DockerFails, DockerTimesOut, Crash, Raise, Effect, Grounded, SessionInv, SessionOf,
     BoxLabels, DockerLabels, SealInv, journal, boundary, catalogue, history
<1>2. ASSUME NEW p \in Process, Open(p)
      PROVE  Grounded'
  BY <1>2 DEF Open, Opens, Recovered, Grounded, boundary, catalogue, history
<1>3. ASSUME NEW p \in Process, Reopen(p)
      PROVE  Grounded'
  BY <1>3 DEF Reopen, Opens, Recovered, Grounded, boundary, catalogue, history
<1>4. ASSUME NEW p \in Process, Seal(p)
      PROVE  Grounded'
  BY <1>4 DEF Seal, Grounded, SessionInv, SessionOf, Unsealed, catalogue
<1>5. ASSUME NEW p \in Process, Commit(p)
      PROVE  Grounded'
  BY <1>5 DEF Commit, Grounded, SessionInv, SessionOf, catalogue
<1>6. ASSUME NEW p \in Process, GivesUp(p)
      PROVE  Grounded'
  BY <1>6 DEF GivesUp, Grounded, catalogue
<1>7. ASSUME NEW p \in Process, Claim(p)
      PROVE  Grounded'
  BY <1>7 DEF Claim, Grounded, catalogue
<1>8. ASSUME NEW p \in Process, Collect(p)
      PROVE  Grounded'
  BY <1>8 DEF Collect, Grounded, BoxInv, journal, catalogue, history
<1>9. ASSUME NEW p \in Process, Assess(p)
      PROVE  Grounded'
  BY <1>9 DEF Assess, Raise, Grounded, SessionInv, SessionOf, Closed, SealInv,
     BoxInv, journal, boundary, history
<1>10. ASSUME Exits
      PROVE  Grounded'
  BY <1>10 DEF Exits, Grounded, SealInv, BoxInv, catalogue
<1>11. ASSUME TimePasses \/ Removed \/ RequestCancel \/ RecordUsage
      PROVE  Grounded'
  BY <1>11 DEF TimePasses, Removed, RequestCancel, RecordUsage, Grounded,
     journal, boundary, catalogue, history
<1> QED
  BY <1>1, <1>2, <1>3, <1>4, <1>5, <1>6, <1>7, <1>8, <1>9, <1>10, <1>11 DEF
     Next, Step

-----------------------------------------------------------------------------
\* The theorems

LEMMA Initially == Init => IInv
<1>1. ASSUME Init
      PROVE  IInv
  BY <1>1 DEF Init, IInv, TypeOK, Labels, BoxLabels, DockerLabels, LockInv, HasLock,
     SealInv, SessionInv, SessionOf, Unsealed, Closed, BoxInv, Grounded, Run
<1> QED
  BY <1>1

\* A step that changes nothing keeps everything.
LEMMA Stuttering ==
  ASSUME IInv, UNCHANGED vars
  PROVE  IInv'
BY DEF IInv, TypeOK, LockInv, HasLock, SealInv, SessionInv, SessionOf, Unsealed,
   Closed, BoxInv, Grounded, vars, journal, boundary, catalogue, session, history

\* The strengthening is an invariant: types, one writer, what is sealed, what
\* each session knows, and what becomes of the container (evaluate, boundary.execute).
THEOREM EvaluationInvariance == Spec => []IInv
<1>1. ASSUME IInv, [Next]_vars
      PROVE  IInv'
  <2>1. CASE Next
    BY <1>1, <2>1, TypeStep, LockStep, SealStep, SessionStep, BoxStep, GroundStep DEF IInv
  <2>2. CASE UNCHANGED vars
    BY <1>1, <2>2, Stuttering
  <2> QED
    BY <1>1, <2>1, <2>2
<1> QED
  BY <1>1, Initially, PTL DEF Spec

\* Types are kept, in particular a receipt file never holds an error.
THEOREM EvaluationTypes == Spec => []TypeOK
<1>1. IInv => TypeOK
  BY DEF IInv
<1> QED
  BY <1>1, EvaluationInvariance, PTL

\* However often evaluation is repeated, submitted code is started at most once.
THEOREM OneStart == Spec => []StartedOnce
<1>1. IInv => StartedOnce
  BY DEF IInv, BoxInv, StartedOnce
<1> QED
  BY <1>1, EvaluationInvariance, PTL

\* Two sessions never work on the container at the same time.
THEOREM SingleHandler == Spec => []OneHandler
<1>1. IInv => OneHandler
  <2>1. ASSUME IInv, NEW p \in Process, NEW q \in Process,
               pc[p] \in BoxLabels, pc[q] \in BoxLabels
        PROVE  p = q
    BY <2>1 DEF IInv, LockInv, HasLock
  <2> QED
    BY <2>1 DEF OneHandler
<1> QED
  BY <1>1, EvaluationInvariance, PTL

\* An assessment is made of what the one run of the container left behind, and
\* of nothing the journal does not hold as well.
THEOREM GroundedAssessment == Spec => []Grounded
<1>1. IInv => Grounded
  BY DEF IInv
<1> QED
  BY <1>1, EvaluationInvariance, PTL

\* One run, one session at a time with it, and an assessment of that run alone.
THEOREM GroundedRun == Spec => []RunIsGrounded
<1> QED
  BY OneStart, SingleHandler, GroundedAssessment, PTL DEF RunIsGrounded

-----------------------------------------------------------------------------
\* Authority: the inductive invariant

\* Each execution goes one way: a ticket, then a failure, or a candidate, a
\* submission and a verdict that its status allows.
OutcomeInv ==
    /\ OneOutcome
    /\ \A e \in Execution :
        /\ failure[e] \/ bound[e] => ticket[e] # Missing
        /\ submission[e] # Missing => bound[e]
        /\ verdict[e] # Missing =>
              submission[e] # Missing /\ verdict[e] \in Verdicts(submission[e])

\* A trial of the cohort has one ticket, and a repair is one of its parent's trial.
TicketInv ==
    /\ \A e \in Reserved : \A f \in Reserved \ {e} :
          ticket[f].slot # ticket[e].slot \/ ticket[f].parent # ticket[e].parent
    /\ \A e \in Repairs :
          /\ ticket[e].parent \in Reserved
          /\ ticket[e].slot = ticket[ticket[e].parent].slot

\* What a session of reserve_study has behind it is in the catalogue.
StudyInv ==
    /\ \A o \in Operator :
          /\ at[o] # 0 => study
          /\ \A k \in Planned : k < at[o] => ticket[k] = PlanTicket(k)
    /\ schedule => study /\ \A k \in Planned : ticket[k] = PlanTicket(k)

\* Once a study has admitted a repair its initial cohort is decided.
BudgetInv ==
    /\ IsFiniteSet(Repairs)
    /\ Repairs \ early # {} => study /\ \A k \in Planned : Decided(k)
    /\ SelectionIsFrozen
    /\ AssistedBudget

AuthorityIInv == AuthorityTypeOK /\ OutcomeInv /\ TicketInv /\ StudyInv /\ BudgetInv
-----------------------------------------------------------------------------
\* What a step does to the records

LEMMA PlanTicketType ==
  ASSUME AuthorityTypeOK, NEW k \in 0..Slots
  PROVE  /\ PlanTicket(k) \in Ticket
         /\ [PlanTicket(k) EXCEPT !.evaluator = evaluator] \in Ticket
         /\ PlanTicket(k).parent = Missing
         /\ [PlanTicket(k) EXCEPT !.evaluator = evaluator].parent = Missing
BY AuthorityAssumption DEF AuthorityTypeOK, PlanTicket, Ticket

LEMMA PlannedTicket ==
  ASSUME AuthorityTypeOK, NEW k \in Planned
  PROVE  k \in Execution /\ PlanTicket(k) \in Ticket /\ PlanTicket(k) # Missing
<1>1. k \in 0..Slots
  BY AuthorityAssumption DEF Planned
<1>2. PlanTicket(k) \in Ticket
  BY <1>1, PlanTicketType
<1> QED
  BY <1>2, MissingAssumption DEF Execution

\* An execution without a success has a verdict, and with it a ticket.
LEMMA UnsuccessfulIsReserved ==
  ASSUME AuthorityTypeOK, OutcomeInv, NEW e \in Execution, Unsuccessful(e)
  PROVE  e \in Reserved /\ ticket[e] \in Ticket
<1>1. verdict[e] # Missing
  BY MissingAssumption DEF Unsuccessful, Outcome
<1>2. ticket[e] # Missing
  BY <1>1 DEF OutcomeInv
<1> QED
  BY <1>2 DEF Reserved, AuthorityTypeOK

\* A ticket that a step adds, and where it comes from.
Added(e, t) ==
    /\ e \in Execution /\ t \in Ticket
    /\ Put(e, t)
    /\ UNCHANGED <<study, schedule, bound, submission, failure, verdict>>

LEMMA TicketChange ==
  ASSUME AuthorityTypeOK, OutcomeInv, AuthorityNext
  PROVE  \/ UNCHANGED <<ticket, early>>
         \/ \E e \in Execution, t \in Ticket :
               Added(e, t) /\ t.parent = Missing /\ early' = early
         \/ \E e \in Other, parent \in Execution, recipe \in Recipe, t \in Ticket :
               /\ ReserveRepair(e, parent, recipe) /\ Added(e, t)
               /\ t.parent = parent /\ t.slot = ticket[parent].slot /\ t.recipe = recipe
<1>1. ASSUME NEW e \in Execution, NEW slot \in 0..Slots, ReserveInitial(e, slot)
      PROVE  \E t \in Ticket : Added(e, t) /\ t.parent = Missing /\ early' = early
  BY <1>1, PlanTicketType DEF ReserveInitial, Added
<1>2. ASSUME NEW e \in Other, NEW parent \in Execution, NEW recipe \in Recipe,
             ReserveRepair(e, parent, recipe)
      PROVE  \E t \in Ticket : Added(e, t) /\ t.parent = parent
                /\ t.slot = ticket[parent].slot /\ t.recipe = recipe
  <2>1. ticket[parent] \in Ticket
    BY <1>2, UnsuccessfulIsReserved DEF ReserveRepair
  <2> DEFINE t == [slot |-> ticket[parent].slot, parent |-> parent,
                   recipe |-> recipe, evaluator |-> evaluator]
  <2>2. t \in Ticket
    BY <2>1 DEF Ticket, AuthorityTypeOK
  <2>3. Put(e, t)
    BY <1>2 DEF ReserveRepair
  <2>4. Added(e, t)
    BY <1>2, <2>2, <2>3 DEF ReserveRepair, Added, Execution
  <2> QED
    BY <2>2, <2>4
<1>3. ASSUME NEW o \in Operator, StudyReserves(o)
      PROVE  \/ UNCHANGED <<ticket, early>>
             \/ \E e \in Execution, t \in Ticket :
                   Added(e, t) /\ t.parent = Missing /\ early' = early
  <2>1. at[o] \in 0..Slots /\ at[o] \in Execution
    BY <1>3, AuthorityAssumption DEF StudyReserves, Planned, Execution
  <2> QED
    BY <1>3, <2>1, PlanTicketType DEF StudyReserves, Added
<1>4. ASSUME NEW o \in Operator, StudyOpens(o) \/ StudySchedules(o) \/ StudyStops(o)
      PROVE  UNCHANGED <<ticket, early>>
  BY <1>4 DEF StudyOpens, StudySchedules, StudyStops, records
<1>5. ASSUME NEW e \in Execution, Issue(e) \/ RecordFailure(e)
      PROVE  UNCHANGED <<ticket, early>>
  BY <1>5 DEF Issue, RecordFailure
<1>6. ASSUME NEW e \in Execution, NEW status \in {"completed", "failed"}, Ingest(e, status)
      PROVE  UNCHANGED <<ticket, early>>
  BY <1>6 DEF Ingest
<1>7. ASSUME NEW e \in Execution, NEW outcome \in Outcome, StoreAssessment(e, outcome)
      PROVE  UNCHANGED <<ticket, early>>
  BY <1>7 DEF StoreAssessment
<1>8. ASSUME Upgrade
      PROVE  UNCHANGED <<ticket, early>>
  BY <1>8 DEF Upgrade, records
<1> QED
  BY <1>1, <1>2, <1>3, <1>4, <1>5, <1>6, <1>7, <1>8 DEF AuthorityNext

-----------------------------------------------------------------------------
\* Types and outcomes

LEMMA AuthorityTypeStep ==
  ASSUME AuthorityTypeOK, OutcomeInv, AuthorityNext
  PROVE  AuthorityTypeOK'
<1> USE DEF AuthorityTypeOK
<1>1. ticket' \in [Execution -> Ticket \cup {Missing}]
  BY TicketChange DEF Added, Put
<1>2. ASSUME NEW e \in Execution, NEW slot \in 0..Slots, ReserveInitial(e, slot)
      PROVE  AuthorityTypeOK'
  BY <1>1, <1>2 DEF ReserveInitial
<1>3. ASSUME NEW e \in Other, NEW parent \in Execution, NEW recipe \in Recipe,
             ReserveRepair(e, parent, recipe)
      PROVE  AuthorityTypeOK'
  BY <1>1, <1>3 DEF ReserveRepair, Execution
<1>4. ASSUME NEW o \in Operator,
             StudyOpens(o) \/ StudyReserves(o) \/ StudySchedules(o) \/ StudyStops(o)
      PROVE  AuthorityTypeOK'
  <2>1. ASSUME StudyReserves(o) PROVE at[o] + 1 \in 0..Slots + 1
    BY <2>1, AuthorityAssumption DEF StudyReserves, Planned
  <2>2. at' \in [Operator -> 0..Slots + 1]
    BY <1>4, <2>1, AuthorityAssumption
    DEF StudyOpens, StudyReserves, StudySchedules, StudyStops
  <2> QED
    BY <1>1, <1>4, <2>2
    DEF StudyOpens, StudyReserves, StudySchedules, StudyStops, records
<1>5. ASSUME NEW e \in Execution, Issue(e) \/ RecordFailure(e)
      PROVE  AuthorityTypeOK'
  BY <1>5 DEF Issue, RecordFailure
<1>6. ASSUME NEW e \in Execution, NEW status \in {"completed", "failed"}, Ingest(e, status)
      PROVE  AuthorityTypeOK'
  BY <1>6 DEF Ingest
<1>7. ASSUME NEW e \in Execution, NEW outcome \in Outcome, StoreAssessment(e, outcome)
      PROVE  AuthorityTypeOK'
  BY <1>7 DEF StoreAssessment
<1>8. ASSUME Upgrade
      PROVE  AuthorityTypeOK'
  BY <1>8, AuthorityAssumption DEF Upgrade, records
<1> QED
  BY <1>2, <1>3, <1>4, <1>5, <1>6, <1>7, <1>8 DEF AuthorityNext

\* Records that are in the catalogue stay as they are.
LEMMA RecordsStay ==
  ASSUME AuthorityTypeOK, OutcomeInv, AuthorityNext
  PROVE  /\ \A e \in Execution :
              /\ ticket[e] # Missing => ticket'[e] = ticket[e]
              /\ verdict[e] # Missing => verdict'[e] = verdict[e]
              /\ failure[e] => failure'[e]
         /\ study => study'
         /\ schedule => schedule'
<1> USE DEF AuthorityTypeOK
<1>1. \A e \in Execution : ticket[e] # Missing => ticket'[e] = ticket[e]
  BY TicketChange DEF Added, Put
<1>2. ASSUME NEW e \in Execution, NEW slot \in 0..Slots, ReserveInitial(e, slot)
      PROVE  UNCHANGED <<verdict, failure, study, schedule>>
  BY <1>2 DEF ReserveInitial
<1>3. ASSUME NEW e \in Other, NEW parent \in Execution, NEW recipe \in Recipe,
             ReserveRepair(e, parent, recipe)
      PROVE  UNCHANGED <<verdict, failure, study, schedule>>
  BY <1>3 DEF ReserveRepair
<1>4. ASSUME NEW o \in Operator,
             StudyOpens(o) \/ StudyReserves(o) \/ StudySchedules(o) \/ StudyStops(o)
      PROVE  UNCHANGED <<verdict, failure>> /\ (study => study') /\ (schedule => schedule')
  BY <1>4 DEF StudyOpens, StudyReserves, StudySchedules, StudyStops, records
<1>5. ASSUME NEW e \in Execution, Issue(e) \/ RecordFailure(e)
      PROVE  /\ UNCHANGED <<verdict, study, schedule>>
             /\ \A f \in Execution : failure[f] => failure'[f]
  BY <1>5 DEF Issue, RecordFailure
<1>6. ASSUME NEW e \in Execution, NEW status \in {"completed", "failed"}, Ingest(e, status)
      PROVE  UNCHANGED <<verdict, failure, study, schedule>>
  BY <1>6 DEF Ingest
<1>7. ASSUME NEW e \in Execution, NEW outcome \in Outcome, StoreAssessment(e, outcome)
      PROVE  /\ UNCHANGED <<failure, study, schedule>>
             /\ \A f \in Execution : verdict[f] # Missing => verdict'[f] = verdict[f]
  BY <1>7 DEF StoreAssessment
<1>8. ASSUME Upgrade
      PROVE  UNCHANGED <<verdict, failure, study, schedule>>
  BY <1>8 DEF Upgrade, records
<1> QED
  BY <1>1, <1>2, <1>3, <1>4, <1>5, <1>6, <1>7, <1>8 DEF AuthorityNext

\* Only the four calls that follow a ticket touch what follows it.
LEMMA OutcomeStep ==
  ASSUME AuthorityTypeOK, OutcomeInv, AuthorityNext
  PROVE  OutcomeInv'
<1> USE DEF AuthorityTypeOK, OutcomeInv, OneOutcome
<1>1. \A e \in Execution : ticket[e] # Missing => ticket'[e] # Missing
  BY RecordsStay
<1>2. ASSUME UNCHANGED <<bound, submission, failure, verdict>>
      PROVE  OutcomeInv'
  BY <1>1, <1>2 DEF Verdicts, Outcome
<1>3. ASSUME NEW e \in Execution, Issue(e)
      PROVE  OutcomeInv'
  BY <1>3 DEF Issue, Verdicts, Outcome
<1>4. ASSUME NEW e \in Execution, RecordFailure(e)
      PROVE  OutcomeInv'
  BY <1>4 DEF RecordFailure, Verdicts, Outcome
<1>5. ASSUME NEW e \in Execution, NEW status \in {"completed", "failed"}, Ingest(e, status)
      PROVE  OutcomeInv'
  BY <1>5, MissingAssumption DEF Ingest, Verdicts, Outcome
<1>6. ASSUME NEW e \in Execution, NEW outcome \in Outcome, StoreAssessment(e, outcome)
      PROVE  OutcomeInv'
  BY <1>6 DEF StoreAssessment, Verdicts, Outcome
<1>7. ASSUME \/ \E e \in Execution, slot \in 0..Slots : ReserveInitial(e, slot)
             \/ \E e \in Other, parent \in Execution, recipe \in Recipe :
                   ReserveRepair(e, parent, recipe)
             \/ \E o \in Operator :
                   StudyOpens(o) \/ StudyReserves(o) \/ StudySchedules(o) \/ StudyStops(o)
             \/ Upgrade
      PROVE  UNCHANGED <<bound, submission, failure, verdict>>
  BY <1>7 DEF ReserveInitial, ReserveRepair, StudyOpens, StudyReserves, StudySchedules,
     StudyStops, Upgrade, records
<1> QED
  BY <1>2, <1>3, <1>4, <1>5, <1>6, <1>7 DEF AuthorityNext

-----------------------------------------------------------------------------
\* Tickets and the study

\* What an added ticket does to the sets of reserved executions.
LEMMA AddedTicket ==
  ASSUME AuthorityTypeOK, NEW e, NEW t, Added(e, t)
  PROVE  /\ e \notin Reserved
         /\ Reserved' = Reserved \cup {e}
         /\ Repairs' = IF t.parent = Missing THEN Repairs ELSE Repairs \cup {e}
         /\ ticket'[e] = t
         /\ \A f \in Reserved : f # e /\ ticket'[f] = ticket[f]
<1>1. t # Missing /\ ticket'[e] = t /\ e \in Execution /\ ticket[e] = Missing
  BY MissingAssumption DEF Added, Put, AuthorityTypeOK
<1>2. \A f \in Execution \ {e} : ticket'[f] = ticket[f]
  BY DEF Added, Put, AuthorityTypeOK
<1>3. e \notin Reserved /\ Reserved' = Reserved \cup {e}
  BY <1>1, <1>2 DEF Reserved
<1> QED
  BY <1>1, <1>2, <1>3 DEF Reserved, Repairs, IsRepair

LEMMA SameTickets ==
  ASSUME UNCHANGED ticket
  PROVE  Reserved' = Reserved /\ Repairs' = Repairs
BY DEF Reserved, Repairs, IsRepair

\* A ticket is only added for a trial that is free, and a repair for its parent's.
LEMMA TicketStep ==
  ASSUME AuthorityTypeOK, OutcomeInv, TicketInv, AuthorityNext
  PROVE  TicketInv'
<1>1. CASE UNCHANGED <<ticket, early>>
  BY <1>1, SameTickets DEF TicketInv
<1>2. ASSUME NEW e, NEW t, Added(e, t),
             t.parent = Missing \/ (t.parent \in Reserved /\ t.slot = ticket[t.parent].slot)
      PROVE  TicketInv'
  <2>1. \A f \in Reserved : ticket[f].slot # t.slot \/ ticket[f].parent # t.parent
    BY <1>2 DEF Added, Put, TrialIsFree
  <2>2. \A f \in Reserved' : \A g \in Reserved' \ {f} :
           ticket'[g].slot # ticket'[f].slot \/ ticket'[g].parent # ticket'[f].parent
    BY <1>2, <2>1, AddedTicket DEF TicketInv
  <2>3. \A f \in Repairs' :
           ticket'[f].parent \in Reserved' /\ ticket'[f].slot = ticket'[ticket'[f].parent].slot
    BY <1>2, AddedTicket DEF TicketInv, Repairs
  <2> QED
    BY <2>2, <2>3 DEF TicketInv
<1>3. ASSUME NEW e \in Other, NEW parent \in Execution, NEW recipe \in Recipe,
             ReserveRepair(e, parent, recipe)
      PROVE  parent \in Reserved
  BY <1>3, UnsuccessfulIsReserved DEF ReserveRepair
<1> QED
  BY <1>1, <1>2, <1>3, TicketChange

LEMMA StudyStep ==
  ASSUME AuthorityTypeOK, OutcomeInv, StudyInv, AuthorityNext
  PROVE  StudyInv'
<1>1. ASSUME NEW k \in Planned, ticket[k] = PlanTicket(k)
      PROVE  ticket'[k] = PlanTicket(k)
  <2>1. ticket[k] # Missing /\ k \in Execution
    BY <1>1, PlannedTicket
  <2> QED
    BY <1>1, <2>1, RecordsStay
<1>2. PlanTicket(1)' = PlanTicket(1) /\ \A k \in Planned : PlanTicket(k)' = PlanTicket(k)
  BY DEF PlanTicket
<1>3. ASSUME UNCHANGED <<at, schedule>>
      PROVE  StudyInv'
  BY <1>1, <1>2, <1>3, RecordsStay DEF StudyInv
<1>4. ASSUME NEW o \in Operator, StudyOpens(o)
      PROVE  StudyInv'
  BY <1>1, <1>2, <1>4, AuthorityAssumption DEF StudyInv, StudyOpens, Planned, AuthorityTypeOK
<1>5. ASSUME NEW o \in Operator, StudyReserves(o)
      PROVE  StudyInv'
  <2>1. ticket'[at[o]] = PlanTicket(at[o])
    BY <1>5 DEF StudyReserves, Put, AuthorityTypeOK, Execution
  <2>2. at' = [at EXCEPT ![o] = at[o] + 1] /\ at[o] \in Planned
    BY <1>5 DEF StudyReserves
  <2>3. \A k \in Planned : k < at[o] + 1 => ticket'[k] = PlanTicket(k)
    BY <1>1, <2>1, <2>2, AuthorityAssumption DEF StudyInv, Planned
  <2> QED
    BY <1>1, <1>2, <1>5, <2>2, <2>3, AuthorityAssumption
    DEF StudyInv, StudyReserves, Planned, AuthorityTypeOK
<1>6. ASSUME NEW o \in Operator, StudySchedules(o)
      PROVE  StudyInv'
  BY <1>1, <1>2, <1>6, AuthorityAssumption
  DEF StudyInv, StudySchedules, Planned, AuthorityTypeOK
<1>7. ASSUME NEW o \in Operator, StudyStops(o)
      PROVE  StudyInv'
  BY <1>1, <1>2, <1>7, AuthorityAssumption
  DEF StudyInv, StudyStops, Planned, AuthorityTypeOK, records
<1>8. ASSUME \/ \E e \in Execution, slot \in 0..Slots : ReserveInitial(e, slot)
             \/ \E e \in Other, parent \in Execution, recipe \in Recipe :
                   ReserveRepair(e, parent, recipe)
             \/ \E e \in Execution : Issue(e) \/ RecordFailure(e)
             \/ \E e \in Execution, status \in {"completed", "failed"} : Ingest(e, status)
             \/ \E e \in Execution, outcome \in Outcome : StoreAssessment(e, outcome)
             \/ Upgrade
      PROVE  UNCHANGED <<at, schedule>>
  BY <1>8 DEF ReserveInitial, ReserveRepair, Issue, RecordFailure, Ingest, StoreAssessment,
     Upgrade, records
<1> QED
  BY <1>3, <1>4, <1>5, <1>6, <1>7, <1>8 DEF AuthorityNext

-----------------------------------------------------------------------------
\* Repairs

\* The units of a finite set of reserved executions are finitely many.
LEMMA UnitsFinite ==
  ASSUME AuthorityTypeOK, NEW S \in SUBSET Reserved, IsFiniteSet(S)
  PROVE  /\ IsFiniteSet(UNION {{e} \X (1..Requests[ticket[e].recipe]) : e \in S})
         /\ RequestsOf(S) \in Nat
<1> DEFINE U(e) == {e} \X (1..Requests[ticket[e].recipe])
           Parts == {U(e) : e \in S}
           part == [e \in S |-> U(e)]
<1>1. part \in Surjection(S, Parts)
  BY DEF Surjection
<1>2. IsFiniteSet(Parts)
  BY <1>1, FS_Surjection
<1>3. ASSUME NEW T \in Parts
      PROVE  IsFiniteSet(T)
  <2>1. PICK e \in S : T = U(e)
    OBVIOUS
  <2>2. Requests[ticket[e].recipe] \in Int
    BY AuthorityAssumption DEF AuthorityTypeOK, Reserved, Ticket
  <2>3. IsFiniteSet(1..Requests[ticket[e].recipe])
    BY <2>2, FS_Interval
  <2>4. IsFiniteSet({e})
    BY FS_Singleton
  <2> QED
    BY <2>1, <2>3, <2>4, FS_Product
<1>4. IsFiniteSet(UNION Parts)
  BY <1>2, <1>3, FS_UNION
<1> QED
  BY <1>4, FS_CardinalityType DEF RequestsOf

\* An added repair adds its recipe's requests to those of the others.
LEMMA RequestsAdd ==
  ASSUME AuthorityTypeOK, NEW e, NEW t, Added(e, t), NEW S \in SUBSET Reserved, IsFiniteSet(S)
  PROVE  Cardinality(UNION {{f} \X (1..Requests[ticket'[f].recipe]) : f \in S \cup {e}})
           = RequestsOf(S) + Requests[t.recipe]
<1> DEFINE n == Requests[t.recipe]
           Old == UNION {{f} \X (1..Requests[ticket[f].recipe]) : f \in S}
           New == {e} \X (1..n)
<1>1. e \notin S /\ ticket'[e] = t /\ \A f \in S : ticket'[f] = ticket[f]
  BY AddedTicket
<1>2. UNION {{f} \X (1..Requests[ticket'[f].recipe]) : f \in S \cup {e}} = Old \cup New
  BY <1>1
<1>3. n \in Nat
  BY AuthorityAssumption DEF Added, Ticket
<1>4. IsFiniteSet(1..n) /\ Cardinality(1..n) = n
  <2> HIDE DEF n
  <2> QED
    BY <1>3, FS_Interval
<1>5. IsFiniteSet({e}) /\ Cardinality({e}) = 1
  BY FS_Singleton
<1>6. IsFiniteSet(New) /\ Cardinality(New) = Cardinality({e}) * Cardinality(1..n)
  BY <1>4, <1>5, FS_Product
<1>7. Cardinality(New) = n
  BY <1>3, <1>4, <1>5, <1>6
<1>8. IsFiniteSet(Old) /\ Cardinality(Old) \in Nat
  BY UnitsFinite, FS_CardinalityType
<1>9. Old \cap New = {}
  BY <1>1
<1>10. Cardinality(Old \cup New) = Cardinality(Old) + Cardinality(New) - Cardinality(Old \cap New)
  BY <1>6, <1>8, FS_Union
<1>11. Cardinality(Old \cup New) = Cardinality(Old) + n
  <2>1. Cardinality(Old \cap New) = 0
    BY <1>9, FS_EmptySet
  <2> HIDE DEF Old, New, n
  <2> QED
    BY <1>3, <1>7, <1>8, <1>10, <2>1
<1> QED
  BY <1>2, <1>11 DEF RequestsOf

\* Nothing is selected or dropped once the initial cohort is decided.
LEMMA SelectionStays ==
  ASSUME AuthorityTypeOK, OutcomeInv, AuthorityNext, \A k \in Planned : Decided(k)
  PROVE  Selected' = Selected /\ \A k \in Planned : Decided(k)'
<1>1. \A k \in Planned : k \in Execution
  BY DEF Execution
<1>2. OutcomeInv'
  BY OutcomeStep
<1>3. \A k \in Planned : Decided(k)'
  BY <1>1, RecordsStay DEF Decided
<1>4. \A k \in Planned : verdict'[k] = verdict[k]
  BY <1>1, <1>2, RecordsStay DEF Decided, OutcomeInv, OneOutcome
<1>5. \A k \in Planned : Unsuccessful(k)' <=> Unsuccessful(k)
  BY <1>4 DEF Unsuccessful
<1>6. {k \in Planned : Unsuccessful(k)}' = {k \in Planned : Unsuccessful(k)}
  BY <1>5
<1> QED
  BY <1>3, <1>6 DEF Selected

\* While repairs and records stay, so does what was admitted.
LEMMA BudgetKeeps ==
  ASSUME AuthorityTypeOK, OutcomeInv, BudgetInv, AuthorityNext,
         Repairs' = Repairs, early' = early
  PROVE  BudgetInv'
<1>1. \A f \in Repairs : ticket'[f] = ticket[f]
  BY RecordsStay DEF Repairs, Reserved
<1>2. RequestsOf(Repairs)' = RequestsOf(Repairs)
  BY <1>1 DEF RequestsOf
<1>3. AssistedBudget'
  BY <1>2 DEF BudgetInv, AssistedBudget
<1>4. ASSUME Repairs \ early # {}
      PROVE  study' /\ (\A k \in Planned : Decided(k)') /\ SelectionIsFrozen'
  <2>1. study /\ \A k \in Planned : Decided(k)
    BY <1>4 DEF BudgetInv
  <2>2. Selected' = Selected /\ \A k \in Planned : Decided(k)'
    BY <2>1, SelectionStays
  <2> QED
    BY <1>1, <2>1, <2>2, RecordsStay DEF BudgetInv, SelectionIsFrozen
<1>5. Repairs \ early = {} => SelectionIsFrozen'
  BY DEF SelectionIsFrozen
<1> QED
  BY <1>3, <1>4, <1>5 DEF BudgetInv

\* A repair that is admitted now is weighed against all that were before.
LEMMA RepairAdmitted ==
  ASSUME AuthorityTypeOK, OutcomeInv, TicketInv, BudgetInv, AuthorityNext,
         NEW e \in Other, NEW parent \in Execution, NEW recipe \in Recipe, NEW t \in Ticket,
         ReserveRepair(e, parent, recipe), Added(e, t),
         t.parent = parent, t.slot = ticket[parent].slot, t.recipe = recipe
  PROVE  BudgetInv'
<1>1. parent # Missing /\ Repairs' = Repairs \cup {e} /\ e \notin Repairs
  BY AddedTicket, AuthorityAssumption DEF Execution, Planned, Repairs
<1>2. IsFiniteSet(Repairs) /\ IsFiniteSet(Repairs')
  BY <1>1, FS_AddElement DEF BudgetInv
<1>3. ticket'[e] = t /\ \A f \in Repairs : ticket'[f] = ticket[f]
  BY AddedTicket DEF Repairs
<1>4. CASE ~study
  <2>1. Repairs' \ early' = {} /\ early' = early \cup {e}
    BY <1>1, <1>4 DEF BudgetInv, ReserveRepair
  <2> QED
    BY <1>2, <2>1 DEF BudgetInv, SelectionIsFrozen, AssistedBudget
<1>5. CASE study
  <2>1. /\ parent \in Selected
        /\ \A k \in Planned : Decided(k)
        /\ Cardinality(Repairs \ {e}) + 1 <= MaxAssisted
        /\ RequestsOf(Repairs \ {e}) + Requests[recipe] <= MaxAssistedRequests
    BY <1>5 DEF ReserveRepair, MayRepair
  <2>2. Repairs \ {e} = Repairs
    BY <1>1
  <2>3. Cardinality(Repairs') = Cardinality(Repairs) + 1
    BY <1>1, <1>2, FS_AddElement
  <2>4. RequestsOf(Repairs)' = RequestsOf(Repairs) + Requests[recipe]
    <3>1. Repairs \in SUBSET Reserved
      BY DEF Repairs
    <3>2. Cardinality(UNION {{f} \X (1..Requests[ticket'[f].recipe]) : f \in Repairs \cup {e}})
            = RequestsOf(Repairs) + Requests[recipe]
      BY <1>2, <3>1, RequestsAdd
    <3> QED
      BY <1>1, <3>2 DEF RequestsOf
  <2>5. AssistedBudget'
    BY <2>1, <2>2, <2>3, <2>4 DEF AssistedBudget
  <2>6. study' /\ Selected' = Selected /\ \A k \in Planned : Decided(k)'
    BY <1>5, <2>1, SelectionStays, RecordsStay
  <2>7. \A f \in Repairs : ticket[f].parent # parent
    BY DEF Added, Put, TrialIsFree, TicketInv, Repairs
  <2>8. early' = early
    BY <1>5 DEF ReserveRepair
  <2>9. SelectionIsFrozen'
    <3>1. ASSUME NEW f \in Repairs \ early
          PROVE  /\ ticket'[f].parent \in Selected'
                 /\ \A g \in Repairs' \ {f} : ticket'[g].parent # ticket'[f].parent
      <4>1. /\ ticket[f].parent \in Selected
            /\ \A g \in Repairs \ {f} : ticket[g].parent # ticket[f].parent
        BY <3>1 DEF BudgetInv, SelectionIsFrozen
      <4> QED
        BY <1>1, <1>3, <2>6, <2>7, <4>1
    <3>2. /\ ticket'[e].parent \in Selected'
          /\ \A g \in Repairs' \ {e} : ticket'[g].parent # ticket'[e].parent
      BY <1>1, <1>3, <2>1, <2>6, <2>7
    <3> QED
      BY <1>1, <2>8, <3>1, <3>2 DEF SelectionIsFrozen
  <2> QED
    BY <1>2, <2>5, <2>6, <2>9 DEF BudgetInv
<1> QED
  BY <1>4, <1>5

LEMMA BudgetStep ==
  ASSUME AuthorityTypeOK, OutcomeInv, TicketInv, BudgetInv, AuthorityNext
  PROVE  BudgetInv'
<1>1. CASE UNCHANGED <<ticket, early>>
  BY <1>1, SameTickets, BudgetKeeps
<1>2. ASSUME NEW e \in Execution, NEW t \in Ticket,
             Added(e, t), t.parent = Missing, early' = early
      PROVE  BudgetInv'
  BY <1>2, AddedTicket, BudgetKeeps
<1> QED
  BY <1>1, <1>2, RepairAdmitted, TicketChange

-----------------------------------------------------------------------------
\* The theorems

LEMMA AuthorityInitially == AuthorityInit => AuthorityIInv
<1> SUFFICES ASSUME AuthorityInit PROVE AuthorityIInv
  OBVIOUS
<1> USE DEF AuthorityInit
<1>1. AuthorityTypeOK
  <2>1. 0 \in 0..Versions /\ 0 \in 0..Slots + 1
    BY AuthorityAssumption
  <2> QED
    BY <2>1 DEF AuthorityTypeOK
<1>2. Reserved = {} /\ Repairs = {}
  BY DEF Reserved, Repairs
<1>3. OutcomeInv
  BY DEF OutcomeInv, OneOutcome
<1>4. TicketInv /\ StudyInv
  BY <1>2, AuthorityAssumption DEF TicketInv, StudyInv, Planned
<1>5. BudgetInv
  BY <1>2, FS_EmptySet DEF BudgetInv, SelectionIsFrozen, AssistedBudget
<1> QED
  BY <1>1, <1>3, <1>4, <1>5 DEF AuthorityIInv

LEMMA AuthorityStep == AuthorityIInv /\ [AuthorityNext]_authorityVars => AuthorityIInv'
<1> SUFFICES ASSUME AuthorityIInv, [AuthorityNext]_authorityVars PROVE AuthorityIInv'
  OBVIOUS
<1>1. CASE AuthorityNext
  BY <1>1, AuthorityTypeStep, OutcomeStep, TicketStep, StudyStep, BudgetStep DEF AuthorityIInv
<1>2. CASE UNCHANGED authorityVars
  <2> USE <1>2 DEF authorityVars, records
  <2>1. Reserved' = Reserved /\ Repairs' = Repairs /\ Selected' = Selected
    BY DEF Reserved, Repairs, IsRepair, Selected, Unsuccessful
  <2>2. AuthorityTypeOK' /\ OutcomeInv'
    BY DEF AuthorityIInv, AuthorityTypeOK, OutcomeInv, OneOutcome
  <2>3. TicketInv' /\ StudyInv'
    BY <2>1 DEF AuthorityIInv, TicketInv, StudyInv, PlanTicket
  <2>4. BudgetInv'
    BY <2>1 DEF AuthorityIInv, BudgetInv, SelectionIsFrozen, AssistedBudget, Decided, RequestsOf
  <2> QED
    BY <2>2, <2>3, <2>4 DEF AuthorityIInv
<1> QED
  BY <1>1, <1>2

THEOREM AuthorityInvariance == AuthoritySpec => []AuthorityIInv
BY AuthorityInitially, AuthorityStep, PTL DEF AuthoritySpec

THEOREM OneOutcomeEach == AuthoritySpec => []OneOutcome
<1>1. AuthorityIInv => OneOutcome
  BY DEF AuthorityIInv, OutcomeInv
<1> QED
  BY <1>1, AuthorityInvariance, PTL

THEOREM RepairsAreFrozen == AuthoritySpec => []RepairsHold
<1>1. AuthorityIInv => RepairsHold
  BY DEF AuthorityIInv, BudgetInv, RepairsHold
<1> QED
  BY <1>1, AuthorityInvariance, PTL

THEOREM Reportable == AuthoritySpec => []ScheduledIsReportable
<1>1. ASSUME AuthorityIInv, schedule, Initial \subseteq Planned,
             \A e \in Repairs : ticket[e].evaluator = 0
      PROVE  Computable
  <2>1. \A k \in Planned : /\ k \in Reserved /\ k \in Initial
                           /\ ticket[k].recipe = PlanRecipe /\ ticket[k].evaluator = 0
    <3>1. ASSUME NEW k \in Planned
          PROVE  ticket[k] = PlanTicket(k) /\ k \in Execution /\ PlanTicket(k) # Missing
      BY <1>1, PlannedTicket DEF AuthorityIInv, StudyInv
    <3>2. \A k \in Planned : /\ PlanTicket(k).parent = Missing /\ PlanTicket(k).evaluator = 0
                             /\ PlanTicket(k).recipe = PlanRecipe
      BY DEF PlanTicket
    <3> QED
      BY <3>1, <3>2 DEF Initial, Reserved, IsRepair
  <2>2. \A e \in Reserved : ticket[e].evaluator = 0
    BY <1>1, <2>1 DEF Initial, Repairs
  <2>3. \A e \in Reserved :
          /\ ~(failure[e] /\ verdict[e] # Missing)
          /\ verdict[e] # Missing =>
                bound[e] /\ submission[e] # Missing /\ verdict[e] \in Verdicts(submission[e])
    BY <1>1 DEF AuthorityIInv, OutcomeInv, OneOutcome, Reserved
  <2> QED
    BY <1>1, <2>1, <2>2, <2>3 DEF Computable
<1>2. AuthorityIInv => ScheduledIsReportable
  BY <1>1 DEF ScheduledIsReportable
<1> QED
  BY <1>2, AuthorityInvariance, PTL
=============================================================================
