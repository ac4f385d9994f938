--------------------------- MODULE JournalProofs ---------------------------
(***************************************************************************)
(* Proofs about Journal: its safety invariants and action property for     *)
(* every number of trials, set of workers and bound on faults, and that it *)
(* implements TrialLifecycle.  Then about Bridge, which puts the journal   *)
(* in front of the queue and its workers: its safety invariants, whenever  *)
(* execute, submissions, collections and cancellations are run.            *)
(***************************************************************************)
EXTENDS Bridge, TLAPS

-----------------------------------------------------------------------------
\* The inductive invariant

\* Exactly the process that is not idle holds the writer lock.
LockInv == \A w \in Workers : pc[w] # "idle" <=> lock = w

\* What is known of one trial wherever its session is.
TrialOK(t) ==
    /\ calls[t] <= 1
    /\ answered[t].call <= calls[t]
    /\ row[t] \in {"queued", "cancelled"} => calls[t] = 0
    /\ pointer[t] # NoReceipt =>
          /\ <<t, pointer[t]>> \in artifacts
          /\ pointer[t] = answered[t]
    /\ IF row[t] \in {"observed", "completed"}
         THEN pointer[t] # NoReceipt /\ obs[t] = pointer[t]
         ELSE obs[t] = NoReceipt
    /\ IF row[t] = "completed"
         THEN res[t] = ResultOf(pointer[t]) /\ <<t, res[t]>> \in artifacts
         ELSE res[t] = NoResult

TrialInv == \A t \in Trial : TrialOK(t)

\* Trials are taken in order: one that was ever claimed has only completed
\* ones before it.
PrefixInv == \A t, u \in Trial :
    u < t /\ row[t] \notin {"queued", "cancelled"} => row[u] = "completed"

CallLabels == {"claim", "invoke", "calling", "seal", "point", "commit"}
TrialLabels == CallLabels \cup
    {"abandon", "grade", "finalize", "opSeal", "opPoint", "opCommit"}
LoopLabels == CallLabels \cup {"loop", "abandon", "grade", "finalize"}

\* What a session knows at each of its labels about the trial it is at.
SessionOK(w) ==
    LET t == at[w] IN
    /\ pc[w] \in TrialLabels => t \in Trial
    /\ pc[w] \in CallLabels => left[w] > 0
    /\ pc[w] = "claim" => row[t] = "queued"
    /\ pc[w] = "invoke" => row[t] = "running" /\ calls[t] = 0
    /\ pc[w] \in {"calling", "abandon"} =>
          row[t] = "running" /\ calls[t] = 1 /\ pointer[t] = NoReceipt
    /\ pc[w] \in {"seal", "point", "commit"} => row[t] = "running"
    /\ pc[w] \in {"opSeal", "opPoint", "opCommit"} =>
          row[t] = "reconciliation_required"
    /\ pc[w] \in {"seal", "point", "opSeal", "opPoint"} =>
          /\ calls[t] = 1
          /\ held[w] # NoReceipt
          /\ held[w] = answered[t]
          /\ pointer[t] = NoReceipt
    /\ pc[w] \in {"point", "opPoint"} => <<t, held[w]>> \in artifacts
    /\ pc[w] \in {"commit", "opCommit"} =>
          held[w] # NoReceipt /\ pointer[t] = held[w]
    /\ pc[w] \in {"grade", "finalize"} => row[t] = "observed"
    /\ pc[w] = "finalize" => <<t, ResultOf(pointer[t])>> \in artifacts
    /\ pc[w] = "export" => \A u \in Trial : row[u] = "completed"

SessionInv == \A w \in Workers : SessionOK(w)

\* Where recover has passed nothing is running and no receipt is left
\* unread; the loop runs over the rows as it read them, because the journal
\* has a single writer.
ScanOK(w) ==
    /\ pc[w] \in Recovering => \A u \in Trial : u < at[w] =>
          /\ row[u] # "running"
          /\ row[u] = "reconciliation_required" => pointer[u] = NoReceipt
    /\ pc[w] \in {"entry", "sweepIn", "status", "reconcile"} =>
          \A u \in Trial :
              /\ row[u] # "running"
              /\ row[u] = "reconciliation_required" => pointer[u] = NoReceipt
    /\ pc[w] \in LoopLabels => \A u \in Trial :
          /\ u < at[w] => row[u] = "completed"
          /\ u > at[w] \/ (u = at[w] /\ pc[w] = "loop") =>
                /\ row[u] = seen[w][u]
                /\ row[u] \in {"queued", "observed", "completed"}

ScanInv == \A w \in Workers : ScanOK(w)

\* A late claim needs a check of cancel.json that preceded the request.
LateInv ==
    /\ lateClaims <= 1
    /\ ~cancelFile => lateClaims = 0
    /\ lateClaims = 1 => \A w \in Workers : pc[w] # "claim"

ReportInv ==
    report # {} =>
        /\ \A t \in Trial : row[t] = "completed"
        /\ report = {<<t, res[t]>> : t \in Trial}

IInv ==
    /\ TypeOK
    /\ LockInv
    /\ TrialInv
    /\ PrefixInv
    /\ SessionInv
    /\ ScanInv
    /\ LateInv
    /\ ReportInv

-----------------------------------------------------------------------------
\* Which steps change what

\* The rows change only by a conditional transition of one trial.
LEMMA RowFrame ==
  ASSUME [Next]_vars
  PROVE  \/ UNCHANGED <<row, obs, res>>
         \/ \E w \in Workers :
              \/ RecoverRow(w) \/ SweepRow(w) \/ Claim(w) \/ Abandon(w)
              \/ Commit(w) \/ Finalize(w) \/ OpCommit(w)
<1>1. ASSUME NEW w \in Workers, Advance(w)
      PROVE  \/ UNCHANGED <<row, obs, res>>
             \/ RecoverRow(w) \/ SweepRow(w) \/ Claim(w) \/ Abandon(w)
             \/ Commit(w) \/ Finalize(w) \/ OpCommit(w)
  BY <1>1 DEF Advance, durable, Recovered, Entry, Swept, CheckStatus, LoopHead,
              Invoke, Return, CallCancelled, Seal, Point, GradeTrial, Finish,
              Export, Reconcile, GiveUp
<1>2. ASSUME NEW w \in Workers
      PROVE  /\ \A m, n : Resume(w, m, n) => UNCHANGED <<row, obs, res>>
             /\ OpenToReconcile(w) => UNCHANGED <<row, obs, res>>
             /\ Crash(w) => UNCHANGED <<row, obs, res>>
  BY DEF Resume, OpenToReconcile, Crash, durable
<1>3. RequestCancel => UNCHANGED <<row, obs, res>>
  BY DEF RequestCancel
<1> QED
  BY <1>1, <1>2, <1>3 DEF Next, vars, durable

\* The files change only where evidence is stored, exported or cancelled.
LEMMA FileFrame ==
  ASSUME [Next]_vars
  PROVE  \/ UNCHANGED <<artifacts, pointer, cancelFile, report>>
         \/ RequestCancel
         \/ \E w \in Workers : Seal(w) \/ Point(w) \/ GradeTrial(w) \/ Export(w)
<1>1. ASSUME NEW w \in Workers, Advance(w)
      PROVE  \/ UNCHANGED <<artifacts, pointer, cancelFile, report>>
             \/ Seal(w) \/ Point(w) \/ GradeTrial(w) \/ Export(w)
  BY <1>1 DEF Advance, durable, RecoverRow, Recovered, Entry, SweepRow, Swept,
              CheckStatus, LoopHead, Claim, Invoke, Return, CallCancelled,
              Abandon, Commit, Finalize, Finish, Reconcile, OpCommit, GiveUp
<1>2. ASSUME NEW w \in Workers
      PROVE  /\ \A m, n : Resume(w, m, n) => UNCHANGED durable
             /\ OpenToReconcile(w) => UNCHANGED durable
             /\ Crash(w) => UNCHANGED durable
  BY DEF Resume, OpenToReconcile, Crash
<1> QED
  BY <1>1, <1>2 DEF Next, vars, durable

\* The calls and the answers change only where the target is called, answers,
\* or an operator brings its answer.
LEMMA CallFrame ==
  ASSUME [Next]_vars
  PROVE  \/ UNCHANGED <<calls, answered>>
         \/ \E w \in Workers :
              \/ Invoke(w)
              \/ \E a \in Answer : Return(w, a)
              \/ \E t \in Trial, a \in Answer : Reconcile(w, t, a)
<1>1. ASSUME NEW w \in Workers, Advance(w)
      PROVE  \/ UNCHANGED <<calls, answered>>
             \/ Invoke(w)
             \/ \E a \in Answer : Return(w, a)
             \/ \E t \in Trial, a \in Answer : Reconcile(w, t, a)
  BY <1>1 DEF Advance, history, RecoverRow, Recovered, Entry, SweepRow, Swept,
              CheckStatus, LoopHead, Claim, CallCancelled, Abandon, Seal,
              Point, Commit, GradeTrial, Finalize, Finish, Export, OpCommit,
              GiveUp
<1>2. ASSUME NEW w \in Workers
      PROVE  /\ \A m, n : Resume(w, m, n) => UNCHANGED <<calls, answered>>
             /\ OpenToReconcile(w) => UNCHANGED <<calls, answered>>
             /\ Crash(w) => UNCHANGED <<calls, answered>>
  BY DEF Resume, OpenToReconcile, Crash, history
<1>3. RequestCancel => UNCHANGED <<calls, answered>>
  BY DEF RequestCancel, history
<1> QED
  BY <1>1, <1>2, <1>3 DEF Next, vars, history

\* A session moves its own label, keeps the lock while it works and drops it
\* when it ends.
LEMMA SessionFrame ==
  ASSUME TypeOK, NEW w \in Workers, Advance(w) \/ Crash(w)
  PROVE  /\ pc[w] # "idle"
         /\ \/ Leave(w)
            \/ /\ lock' = lock
               /\ \E label \in PC \ {"idle"} : Goto(w, label)
<1> USE DEF TypeOK, PC, Goto
<1>1. CASE \/ RecoverRow(w) \/ Recovered(w) \/ Entry(w) \/ SweepRow(w)
           \/ Swept(w) \/ CheckStatus(w) \/ LoopHead(w)
  BY <1>1 DEF RecoverRow, Recovered, Entry, SweepRow, Swept, CheckStatus,
              LoopHead, LoopChoice, Recovering
<1>2. CASE \/ Claim(w) \/ Invoke(w) \/ (\E a \in Answer : Return(w, a))
           \/ CallCancelled(w) \/ Abandon(w)
  BY <1>2 DEF Claim, Invoke, Return, CallCancelled, Abandon
<1>3. CASE \/ Seal(w) \/ Point(w) \/ Commit(w) \/ GradeTrial(w)
           \/ Finalize(w)
  BY <1>3 DEF Seal, Point, Commit, GradeTrial, Finalize, Sealing, Pointing
<1>4. CASE \/ Finish(w) \/ Export(w) \/ OpCommit(w) \/ GiveUp(w) \/ Crash(w)
           \/ (\E t \in Trial, a \in Answer : Reconcile(w, t, a))
  BY <1>4 DEF Finish, Export, OpCommit, GiveUp, Crash, Reconcile
<1> QED
  BY <1>1, <1>2, <1>3, <1>4 DEF Advance

-----------------------------------------------------------------------------
\* Type correctness, one group of variables at a time

RowTypes ==
    /\ row \in [Trial -> State]
    /\ obs \in [Trial -> Receipt \cup {NoReceipt}]
    /\ res \in [Trial -> Result \cup {NoResult}]

FileTypes ==
    /\ artifacts \subseteq Trial \X (Receipt \cup Result)
    /\ pointer \in [Trial -> Receipt \cup {NoReceipt}]
    /\ cancelFile \in BOOLEAN
    /\ report \subseteq Trial \X Result

SessionTypes ==
    /\ lock \in Workers \cup {NoWorker}
    /\ pc \in [Workers -> PC]
    /\ at \in [Workers -> 1..(N + 1)]
    /\ held \in [Workers -> Receipt \cup {NoReceipt}]
    /\ seen \in [Workers -> [Trial -> State]]
    /\ left \in [Workers -> 0..N]
    /\ end \in [Workers -> 1..N]

HistoryTypes ==
    /\ calls \in [Trial -> Nat]
    /\ answered \in [Trial -> Receipt \cup {NoReceipt}]
    /\ lateClaims \in Nat
    /\ faults \in 0..MaxFaults

\* A graded receipt is a result.
LEMMA ResultTyped == \A r \in Receipt : ResultOf(r) \in Result
  BY DEF ResultOf, Result, Grade, Outcome

\* Every step keeps the types of the trials table.
LEMMA RowTypesStep == IInv /\ [Next]_vars => RowTypes'
<1> SUFFICES ASSUME IInv, [Next]_vars PROVE RowTypes'
  OBVIOUS
<1> USE DEF IInv, TypeOK, RowTypes, State, Transition
<1>1. CASE UNCHANGED <<row, obs, res>>
  BY <1>1
<1>2. ASSUME NEW w \in Workers, RecoverRow(w) PROVE RowTypes'
  BY <1>2 DEF RecoverRow
<1>3. ASSUME NEW w \in Workers, SweepRow(w) PROVE RowTypes'
  BY <1>3 DEF SweepRow
<1>4. ASSUME NEW w \in Workers, Claim(w) \/ Abandon(w) PROVE RowTypes'
  BY <1>4 DEF Claim, Abandon
<1>5. ASSUME NEW w \in Workers, Commit(w) \/ OpCommit(w) PROVE RowTypes'
  BY <1>5 DEF Commit, OpCommit
<1>6. ASSUME NEW w \in Workers, Finalize(w) PROVE RowTypes'
  <2>1. SessionOK(w) /\ TrialOK(at[w]) /\ at[w] \in Trial
    BY <1>6 DEF SessionInv, SessionOK, TrialInv, TrialLabels, Finalize
  <2>2. pointer[at[w]] \in Receipt
    BY <2>1, <1>6 DEF TrialOK, Finalize
  <2> QED
    BY <1>6, <2>2, ResultTyped DEF Finalize
<1> QED
  BY <1>1, <1>2, <1>3, <1>4, <1>5, <1>6, RowFrame

\* Every step keeps the types of the files beside the table.
LEMMA FileTypesStep == IInv /\ [Next]_vars => FileTypes'
<1> SUFFICES ASSUME IInv, [Next]_vars PROVE FileTypes'
  OBVIOUS
<1> USE DEF IInv, TypeOK, FileTypes
<1>1. CASE UNCHANGED <<artifacts, pointer, cancelFile, report>>
  BY <1>1
<1>2. CASE RequestCancel
  BY <1>2 DEF RequestCancel
<1>3. ASSUME NEW w \in Workers, Seal(w) \/ Point(w) PROVE FileTypes'
  <2>1. at[w] \in Trial
    BY <1>3 DEF SessionInv, SessionOK, TrialLabels, CallLabels, Seal, Point,
                Sealing, Pointing
  <2>2. CASE Seal(w)
    <3>1. held[w] \in Receipt
      BY <2>2, ZenonT(60) DEF SessionInv, SessionOK, Seal, Sealing
    <3> QED
      BY <2>1, <2>2, <3>1 DEF Seal
  <2>3. CASE Point(w)
    BY <2>1, <2>3 DEF Point
  <2> QED
    BY <1>3, <2>2, <2>3
<1>4. ASSUME NEW w \in Workers, GradeTrial(w) PROVE FileTypes'
  <2>1. at[w] \in Trial /\ pointer[at[w]] \in Receipt
    BY <1>4 DEF SessionInv, SessionOK, TrialLabels, GradeTrial, Readable
  <2> QED
    BY <1>4, <2>1, ResultTyped DEF GradeTrial
<1>5. ASSUME NEW w \in Workers, Export(w) PROVE FileTypes'
  <2>1. \A t \in Trial : res[t] \in Result
    <3> SUFFICES ASSUME NEW t \in Trial PROVE res[t] \in Result
      OBVIOUS
    <3>1. row[t] = "completed" /\ TrialOK(t)
      BY <1>5 DEF SessionInv, SessionOK, TrialInv, Export
    <3>2. pointer[t] \in Receipt
      BY <3>1 DEF TrialOK
    <3> QED
      BY <3>1, <3>2, ResultTyped DEF TrialOK
  <2> QED
    BY <1>5, <2>1 DEF Export
<1> QED
  BY <1>1, <1>2, <1>3, <1>4, <1>5, FileFrame

\* Every step keeps the types of the calls made and their answers.
LEMMA HistoryTypesStep == IInv /\ [Next]_vars => HistoryTypes'
<1> SUFFICES ASSUME IInv, [Next]_vars PROVE HistoryTypes'
  OBVIOUS
<1> USE DEF IInv, TypeOK, HistoryTypes
<1>1. CASE UNCHANGED history
  BY <1>1 DEF history
<1>2. ASSUME NEW w \in Workers, Claim(w) \/ Invoke(w) PROVE HistoryTypes'
  BY <1>2 DEF Claim, Invoke
<1>3. ASSUME NEW w \in Workers, NEW a \in Answer, Return(w, a)
      PROVE HistoryTypes'
  <2>1. at[w] \in Trial /\ calls[at[w]] = 1
    BY <1>3 DEF SessionInv, SessionOK, TrialLabels, CallLabels, Return
  <2>2. [call |-> calls[at[w]], answer |-> a] \in Receipt
    BY <2>1 DEF Receipt
  <2> QED
    BY <1>3, <2>1, <2>2 DEF Return
<1>4. ASSUME NEW w \in Workers, NEW t \in Trial, NEW a \in Answer,
             Reconcile(w, t, a)
      PROVE HistoryTypes'
  <2>1. [call |-> calls[t], answer |-> a] \in Receipt
    BY <1>4 DEF Receipt, Reconcile
  <2> QED
    BY <1>4, <2>1 DEF Reconcile
<1>5. ASSUME NEW w \in Workers, Crash(w) PROVE HistoryTypes'
  BY <1>5, JournalAssumption DEF Crash
<1>6. \/ UNCHANGED history
      \/ \E w \in Workers :
           \/ Claim(w) \/ Invoke(w) \/ Crash(w)
           \/ (\E a \in Answer : Return(w, a))
           \/ \E t \in Trial, a \in Answer : Reconcile(w, t, a)
  BY DEF Next, Advance, vars, Resume, OpenToReconcile, RequestCancel,
         RecoverRow, Recovered, Entry, SweepRow, Swept, CheckStatus, LoopHead,
         CallCancelled, Abandon, Seal, Point, Commit, GradeTrial, Finalize,
         Finish, Export, OpCommit, GiveUp
<1> QED
  BY <1>1, <1>2, <1>3, <1>4, <1>5, <1>6

\* Every step keeps the types of the sessions.
LEMMA SessionTypesStep == IInv /\ [Next]_vars => SessionTypes'
<1> SUFFICES ASSUME IInv, [Next]_vars PROVE SessionTypes'
  OBVIOUS
<1> USE JournalAssumption DEF IInv, TypeOK, SessionTypes, PC, Goto
<1>1. CASE UNCHANGED process
  BY <1>1 DEF process
<1>2. ASSUME NEW w \in Workers, NEW most \in Limits, NEW last \in Ends,
             Resume(w, most, last)
      PROVE SessionTypes'
  BY <1>2 DEF Resume, Open
<1>3. ASSUME NEW w \in Workers, OpenToReconcile(w) PROVE SessionTypes'
  BY <1>3 DEF OpenToReconcile, Open
<1>4. ASSUME NEW w \in Workers, RecoverRow(w) \/ SweepRow(w)
      PROVE SessionTypes'
  <2>1. /\ at[w] \in Trial
        /\ at' = [at EXCEPT ![w] = @ + 1]
        /\ UNCHANGED <<lock, pc, held, seen, left, end>>
    BY <1>4 DEF RecoverRow, SweepRow
  <2> QED
    BY <2>1, SMTT(30) DEF Trial
<1>5. ASSUME NEW w \in Workers, Recovered(w) \/ Entry(w) \/ Swept(w)
      PROVE SessionTypes'
  <2>1. CASE Recovered(w)
    BY <2>1 DEF Recovered
  <2>2. CASE Entry(w)
    BY <2>2 DEF Entry
  <2>3. CASE Swept(w)
    <3>1. /\ \/ Goto(w, "status")
             \/ Goto(w, "finish")
          /\ at' = [at EXCEPT ![w] = 1]
          /\ UNCHANGED <<lock, held, seen, left, end>>
      BY <2>3 DEF Swept
    <3> QED
      BY <3>1
  <2> QED
    BY <1>5, <2>1, <2>2, <2>3
<1>6. ASSUME NEW w \in Workers, Leave(w) PROVE SessionTypes'
  BY <1>6 DEF Leave, Trial, State
<1>7. ASSUME NEW w \in Workers, CheckStatus(w) PROVE SessionTypes'
  <2>1. CASE Leave(w)
    BY <2>1, <1>6
  <2>2. CASE Goto(w, "export") /\ UNCHANGED <<lock, at, held, seen, left, end>>
    BY <2>2
  <2>3. CASE /\ Goto(w, "loop")
             /\ at' = [at EXCEPT ![w] = 1]
             /\ seen' = [seen EXCEPT ![w] = row]
             /\ UNCHANGED <<lock, held, left, end>>
    BY <2>3
  <2> QED
    BY <1>7, <2>1, <2>2, <2>3 DEF CheckStatus
<1>8. ASSUME NEW w \in Workers, LoopHead(w) PROVE SessionTypes'
  <2>1. LoopChoice(w) \in {"finish", "sweepOut", "loop", "grade", "claim"}
    BY DEF LoopChoice
  <2>2. LoopChoice(w) = "loop" => at[w] + 1 \in 1..(N + 1)
    BY DEF LoopChoice
  <2> QED
    BY <1>8, <2>1, <2>2 DEF LoopHead
<1>9. ASSUME NEW w \in Workers,
             Claim(w) \/ Invoke(w) \/ CallCancelled(w) \/ Abandon(w)
      PROVE SessionTypes'
  <2>1. CASE Claim(w) \/ Invoke(w) \/ CallCancelled(w)
    BY <2>1 DEF Claim, Invoke, CallCancelled
  <2>2. CASE Abandon(w)
    BY <2>2 DEF Abandon
  <2> QED
    BY <1>9, <2>1, <2>2
<1>10. ASSUME NEW w \in Workers, NEW a \in Answer, Return(w, a)
       PROVE SessionTypes'
  <2>1. at[w] \in Trial /\ calls[at[w]] = 1
    BY <1>10 DEF SessionInv, SessionOK, TrialLabels, CallLabels, Return
  <2>2. [call |-> calls[at[w]], answer |-> a] \in Receipt
    BY <2>1 DEF Receipt
  <2> QED
    BY <1>10, <2>2 DEF Return
<1>11. ASSUME NEW w \in Workers, Seal(w) \/ Point(w) \/ GradeTrial(w)
       PROVE SessionTypes'
  BY <1>11 DEF Seal, Point, GradeTrial
<1>12. ASSUME NEW w \in Workers, Commit(w) PROVE SessionTypes'
  <2>1. left[w] > 0
    BY <1>12 DEF SessionInv, SessionOK, CallLabels, Commit
  <2> QED
    BY <1>12, <2>1 DEF Commit
<1>13. ASSUME NEW w \in Workers, Finalize(w) PROVE SessionTypes'
  <2>1. at[w] \in Trial
    BY <1>13 DEF SessionInv, SessionOK, TrialLabels, Finalize
  <2> QED
    BY <1>13, <2>1, SMTT(30) DEF Finalize, Trial
<1>14. ASSUME NEW w \in Workers, Finish(w) PROVE SessionTypes'
  BY <1>14, <1>6 DEF Finish
<1>15. ASSUME NEW w \in Workers, NEW t \in Trial, NEW a \in Answer,
              Reconcile(w, t, a)
       PROVE SessionTypes'
  <2>1. [call |-> calls[t], answer |-> a] \in Receipt
    BY <1>15 DEF Receipt, Reconcile
  <2>2. \E r \in Receipt : held' = [held EXCEPT ![w] = r]
    BY <1>15, <2>1 DEF Reconcile
  <2>3. /\ at' = [at EXCEPT ![w] = t]
        /\ pc' = [pc EXCEPT ![w] = "opSeal"]
        /\ UNCHANGED <<lock, seen, left, end>>
    BY <1>15 DEF Reconcile
  <2>4. t \in 1..(N + 1)
    BY DEF Trial
  <2> QED
    BY <2>2, <2>3, <2>4
<1>16. ASSUME NEW w \in Workers,
              Export(w) \/ OpCommit(w) \/ GiveUp(w) \/ Crash(w)
       PROVE SessionTypes'
  BY <1>16, <1>6 DEF Export, OpCommit, GiveUp, Crash
<1>17. RequestCancel => UNCHANGED process
  BY DEF RequestCancel
<1> QED
  BY <1>1, <1>2, <1>3, <1>4, <1>5, <1>7, <1>8, <1>9, <1>10, <1>11, <1>12,
     <1>13, <1>14, <1>15, <1>16, <1>17 DEF Next, Advance, vars

\* Every step preserves the types.
LEMMA TypeStep == IInv /\ [Next]_vars => TypeOK'
  BY RowTypesStep, FileTypesStep, SessionTypesStep, HistoryTypesStep
  DEF TypeOK, RowTypes, FileTypes, SessionTypes, HistoryTypes

-----------------------------------------------------------------------------
\* The lock

\* One session at a time: the others are idle.
LEMMA Alone ==
  ASSUME LockInv, NEW v \in Workers, NEW w \in Workers,
         pc[v] # "idle", pc[w] # "idle"
  PROVE  v = w
  BY DEF LockInv

\* Every step leaves the writer lock with the one process that is not idle.
LEMMA LockStep == IInv /\ [Next]_vars => LockInv'
<1> SUFFICES ASSUME IInv, [Next]_vars PROVE LockInv'
  OBVIOUS
<1> USE JournalAssumption DEF IInv, TypeOK, LockInv, Goto
<1>1. CASE UNCHANGED process
  BY <1>1 DEF process
<1>2. ASSUME NEW w \in Workers, NEW label \in PC \ {"idle"}, Open(w, label)
      PROVE LockInv'
  BY <1>2 DEF Open
<1>3. ASSUME NEW w \in Workers, Advance(w) \/ Crash(w) PROVE LockInv'
  <2>1. pc[w] # "idle"
    BY <1>3, SessionFrame
  <2>2. CASE Leave(w)
    BY <2>1, <2>2 DEF Leave
  <2>3. ASSUME NEW label \in PC \ {"idle"}, lock' = lock, Goto(w, label)
        PROVE  LockInv'
    BY <2>1, <2>3
  <2> QED
    BY <1>3, <2>2, <2>3, SessionFrame
<1>4. ASSUME NEW w \in Workers, NEW most, NEW last,
             Resume(w, most, last) \/ OpenToReconcile(w)
      PROVE LockInv'
  BY <1>2, <1>4 DEF Resume, OpenToReconcile, PC
<1>5. RequestCancel => UNCHANGED process
  BY DEF RequestCancel
<1> QED
  BY <1>1, <1>3, <1>4, <1>5 DEF Next, vars

-----------------------------------------------------------------------------
\* Trials

\* Every step keeps the agreement of a trial's row, pointer, artifacts and calls.
LEMMA TrialStep == IInv /\ [Next]_vars => TrialInv'
<1> SUFFICES ASSUME IInv, [Next]_vars, NEW u \in Trial PROVE TrialOK(u)'
  BY DEF TrialInv
<1>0. TrialOK(u)
  BY DEF IInv, TrialInv
<1> USE <1>0 DEF IInv, TypeOK, TrialOK
<1>1. CASE UNCHANGED <<row, obs, res, artifacts, pointer, calls, answered>>
  BY <1>1 DEF ResultOf, Grade
<1>2. ASSUME NEW w \in Workers, RecoverRow(w) PROVE TrialOK(u)'
  BY <1>2, ZenonT(60) DEF RecoverRow, Transition, Readable, history, ResultOf, Grade
<1>3. ASSUME NEW w \in Workers, SweepRow(w) PROVE TrialOK(u)'
  BY <1>3, ZenonT(60) DEF SweepRow, Transition, history, ResultOf, Grade
<1>4. ASSUME NEW w \in Workers, Claim(w) \/ Abandon(w) PROVE TrialOK(u)'
  <2>1. SessionOK(w)
    BY DEF SessionInv
  <2> QED
    BY <1>4, <2>1, ZenonT(60) DEF Claim, Abandon, Transition, history, SessionOK
<1>5. ASSUME NEW w \in Workers, Commit(w) \/ OpCommit(w) PROVE TrialOK(u)'
  <2>1. SessionOK(w)
    BY DEF SessionInv
  <2> QED
    BY <1>5, <2>1, ZenonT(60) DEF Commit, OpCommit, Transition, Readable, history, SessionOK
<1>6. ASSUME NEW w \in Workers, Finalize(w) PROVE TrialOK(u)'
  <2>1. SessionOK(w)
    BY DEF SessionInv
  <2> QED
    BY <1>6, <2>1 DEF Finalize, Transition, history, SessionOK
<1>7. ASSUME NEW w \in Workers, Seal(w) \/ GradeTrial(w) PROVE TrialOK(u)'
  BY <1>7 DEF Seal, GradeTrial, history
<1>8. ASSUME NEW w \in Workers, Point(w) PROVE TrialOK(u)'
  <2>1. SessionOK(w)
    BY DEF SessionInv
  <2> QED
    BY <1>8, <2>1 DEF Point, Pointing, history, SessionOK
<1>9. ASSUME NEW w \in Workers, Invoke(w) PROVE TrialOK(u)'
  <2>1. SessionOK(w)
    BY DEF SessionInv
  <2> QED
    BY <1>9, <2>1 DEF Invoke, durable, SessionOK, Receipt, NoReceipt
<1>10. ASSUME NEW w \in Workers, NEW a \in Answer, Return(w, a)
       PROVE TrialOK(u)'
  <2>1. SessionOK(w)
    BY DEF SessionInv
  <2> QED
    BY <1>10, <2>1 DEF Return, durable, SessionOK
<1>11. ASSUME NEW w \in Workers, NEW t \in Trial, NEW a \in Answer,
              Reconcile(w, t, a)
       PROVE TrialOK(u)'
  <2>1. pointer[t] = NoReceipt
    BY <1>11 DEF ScanInv, ScanOK, Reconcile
  <2> QED
    BY <1>11, <2>1 DEF Reconcile, durable
<1>12. \/ UNCHANGED <<row, obs, res, artifacts, pointer, calls, answered>>
       \/ \E w \in Workers :
            \/ RecoverRow(w) \/ SweepRow(w) \/ Claim(w) \/ Abandon(w)
            \/ Commit(w) \/ OpCommit(w) \/ Finalize(w)
            \/ Seal(w) \/ GradeTrial(w) \/ Point(w) \/ Invoke(w)
            \/ (\E a \in Answer : Return(w, a))
            \/ \E t \in Trial, a \in Answer : Reconcile(w, t, a)
  BY RowFrame, FileFrame, CallFrame DEF RequestCancel, Export
<1> QED
  BY <1>1, <1>2, <1>3, <1>4, <1>5, <1>6, <1>7, <1>8, <1>9, <1>10, <1>11, <1>12

-----------------------------------------------------------------------------
\* Order

\* No step takes up a trial while one before it is not completed.
LEMMA PrefixStep == IInv /\ [Next]_vars => PrefixInv'
<1> SUFFICES ASSUME IInv, [Next]_vars PROVE PrefixInv'
  OBVIOUS
<1> USE JournalAssumption DEF IInv, TypeOK, PrefixInv, Trial
<1>1. CASE UNCHANGED <<row, obs, res>>
  BY <1>1
<1>2. ASSUME NEW w \in Workers, RecoverRow(w) PROVE PrefixInv'
  <2>1. /\ at[w] \in Trial
        /\ \/ UNCHANGED row
           \/ /\ row[at[w]] \in {"running", "reconciliation_required"}
              /\ \E s \in State \ {"completed"} : row' = [row EXCEPT ![at[w]] = s]
    BY <1>2 DEF RecoverRow, Transition, State
  <2> QED
    BY <2>1
<1>3. ASSUME NEW w \in Workers, SweepRow(w) PROVE PrefixInv'
  BY <1>3, ZenonT(60) DEF SweepRow, Transition
<1>4. ASSUME NEW w \in Workers, Claim(w) PROVE PrefixInv'
  <2>1. at[w] \in Trial /\ \A u \in Trial : u < at[w] => row[u] = "completed"
    BY <1>4 DEF SessionInv, SessionOK, ScanInv, ScanOK, TrialLabels,
                LoopLabels, CallLabels, Claim
  <2> QED
    BY <1>4, <2>1 DEF Claim, Transition
<1>5. ASSUME NEW w \in Workers, Abandon(w) \/ Commit(w) PROVE PrefixInv'
  BY <1>5 DEF Abandon, Commit, Transition
<1>6. ASSUME NEW w \in Workers, Finalize(w) \/ OpCommit(w) PROVE PrefixInv'
  BY <1>6 DEF Finalize, OpCommit, Transition
<1> QED
  BY <1>1, <1>2, <1>3, <1>4, <1>5, <1>6, RowFrame

-----------------------------------------------------------------------------
\* Late claims and the report

\* No step makes a second late claim.
LEMMA LateStep == IInv /\ [Next]_vars => LateInv'
<1> SUFFICES ASSUME IInv, [Next]_vars PROVE LateInv'
  OBVIOUS
<1> USE DEF IInv, TypeOK, LateInv
<1>1. ASSUME UNCHANGED <<lateClaims, cancelFile>>,
             \A w \in Workers : pc'[w] = "claim" => pc[w] = "claim"
      PROVE  LateInv'
  BY <1>1
<1>2. ASSUME NEW w \in Workers, Claim(w) PROVE LateInv'
  <2>1. \A v \in Workers : pc'[v] # "claim"
    BY <1>2, Alone DEF Claim, Goto
  <2>2. lateClaims = 0
    BY <1>2 DEF Claim
  <2> QED
    BY <1>2, <2>1, <2>2 DEF Claim
<1>3. ASSUME NEW w \in Workers, LoopHead(w) PROVE LateInv'
  <2>1. UNCHANGED <<lateClaims, cancelFile>>
    BY <1>3 DEF LoopHead, durable, history
  <2>2. cancelFile => \A v \in Workers : pc'[v] = "claim" => pc[v] = "claim"
    BY <1>3 DEF LoopHead, LoopChoice, Goto
  <2> QED
    BY <1>1, <2>1, <2>2
<1>4. CASE RequestCancel
  BY <1>4 DEF RequestCancel, process, history
<1>5. ASSUME NEW w \in Workers,
             \/ Crash(w)
             \/ \E m, n : Resume(w, m, n)
             \/ OpenToReconcile(w)
      PROVE  LateInv'
  BY <1>5 DEF Crash, Leave, Resume, OpenToReconcile, Open, Goto, durable, history
<1>6. ASSUME NEW w \in Workers, Advance(w), ~Claim(w), ~LoopHead(w)
      PROVE  LateInv'
  <2>1. UNCHANGED lateClaims
    BY <1>6 DEF Advance, history, RecoverRow, Recovered, Entry, SweepRow,
                Swept, CheckStatus, Invoke, Return, CallCancelled, Abandon,
                Seal, Point, Commit, GradeTrial, Finalize, Finish, Export,
                Reconcile, OpCommit, GiveUp
  <2>2. UNCHANGED cancelFile
    BY <1>6 DEF Advance, durable, RecoverRow, Recovered, Entry, SweepRow,
                Swept, CheckStatus, Invoke, Return, CallCancelled, Abandon,
                Seal, Point, Commit, GradeTrial, Finalize, Finish, Export,
                Reconcile, OpCommit, GiveUp
  <2>3. \A v \in Workers : pc'[v] = "claim" => pc[v] = "claim"
    BY <1>6 DEF Advance, Goto, Leave, RecoverRow, Recovered, Entry, SweepRow,
                Swept, CheckStatus, Invoke, Return, CallCancelled, Abandon,
                Seal, Point, Commit, GradeTrial, Finalize, Finish, Export,
                Reconcile, OpCommit, GiveUp
  <2> QED
    BY <1>1, <2>1, <2>2, <2>3
<1>7. CASE UNCHANGED vars
  BY <1>7 DEF vars, durable, process, history
<1> QED
  BY <1>2, <1>3, <1>4, <1>5, <1>6, <1>7 DEF Next

\* A step that exports a report does so when every trial is completed.
LEMMA ReportStep == IInv /\ [Next]_vars => ReportInv'
<1> SUFFICES ASSUME IInv, [Next]_vars PROVE ReportInv'
  OBVIOUS
<1> USE DEF IInv, TypeOK, ReportInv
<1>1. ASSUME NEW w \in Workers, Export(w) PROVE ReportInv'
  <2>1. /\ \A t \in Trial : row[t] = "completed"
        /\ UNCHANGED <<row, res>>
        /\ report' = {<<t, res[t]>> : t \in Trial}
    BY <1>1 DEF Export, SessionInv, SessionOK
  <2> QED
    BY <2>1
<1>2. CASE UNCHANGED report
  <2>1. report # {} => UNCHANGED <<row, res>>
    BY RowFrame DEF RecoverRow, SweepRow, Claim, Abandon, Commit, Finalize,
                    OpCommit, Transition, SessionInv, SessionOK, TrialLabels
  <2> QED
    BY <1>2, <2>1
<1> QED
  BY <1>1, <1>2, FileFrame DEF RequestCancel, Seal, Point, GradeTrial

-----------------------------------------------------------------------------
\* Sessions

\* The last status of a session says "completed" only of completed trials.
LEMMA StatusCompleted ==
  (Status = "completed") => \A t \in Trial : row[t] = "completed"
  BY DEF Status

\* A status other than the three that end a session leaves no ambiguous and no
\* cancelled trial.
LEMMA StatusOpen ==
  ASSUME Status \notin {"reconciliation_required", "cancelled", "completed"}
  PROVE  \A t \in Trial : row[t] \notin {"reconciliation_required", "cancelled"}
  BY DEF Status

\* An idle process is in no label's way.
LEMMA IdleOK ==
  ASSUME NEW v \in Workers, pc'[v] = "idle"
  PROVE  SessionOK(v)' /\ ScanOK(v)'
  BY DEF SessionOK, ScanOK, TrialLabels, LoopLabels, CallLabels, Recovering

\* Every step leaves each session right about the trial it is at.
LEMMA SessionStep == IInv /\ [Next]_vars => SessionInv'
<1> SUFFICES ASSUME IInv, [Next]_vars PROVE SessionInv'
  OBVIOUS
<1> USE DEF IInv, TypeOK, CallLabels, TrialLabels, Goto
<1>1. CASE UNCHANGED vars
  BY <1>1 DEF vars, durable, process, history, SessionInv, SessionOK, ResultOf, Grade
<1>2. CASE RequestCancel
  BY <1>2 DEF RequestCancel, process, history, SessionInv, SessionOK, ResultOf, Grade
<1>3. ASSUME NEW w \in Workers, NEW label \in {"recover", "opRecover"}, Open(w, label)
      PROVE  SessionInv'
  <2>1. \A v \in Workers \ {w} : pc'[v] = "idle"
    BY <1>3, JournalAssumption DEF Open, LockInv
  <2>2. SessionOK(w)'
    BY <1>3 DEF Open, SessionOK
  <2> QED
    BY <2>1, <2>2, IdleOK DEF SessionInv
<1>4. ASSUME NEW w \in Workers, Advance(w) \/ Crash(w), SessionOK(w)'
      PROVE  SessionInv'
  <2>1. \A v \in Workers \ {w} : pc'[v] = "idle"
    BY <1>4, SessionFrame, Alone DEF Leave
  <2> QED
    BY <1>4, <2>1, IdleOK DEF SessionInv
<1>5. ASSUME NEW w \in Workers, Leave(w) PROVE SessionOK(w)'
  BY <1>5, IdleOK DEF Leave
<1>6. ASSUME NEW w \in Workers, Advance(w) PROVE SessionOK(w)'
  <2> USE DEF SessionOK
  <2>0. SessionOK(w) /\ ScanOK(w)
    BY DEF SessionInv, ScanInv
  <2>1. CASE RecoverRow(w) \/ Recovered(w) \/ Entry(w)
    BY <2>1 DEF RecoverRow, Recovered, Entry, Recovering
  <2>2. CASE SweepRow(w) \/ Swept(w)
    BY <2>2 DEF SweepRow, Swept
  <2>3. CASE CheckStatus(w) \/ Finish(w)
    BY <2>3, <1>5, StatusCompleted DEF CheckStatus, Finish, durable
  <2>4. CASE LoopHead(w)
    BY <2>4, <2>0, JournalAssumption DEF LoopHead, LoopChoice, ScanOK, LoopLabels, durable, history, Trial
  <2>5. CASE Claim(w)
    BY <2>5, <2>0 DEF Claim, Transition, TrialInv, TrialOK
  <2>6. CASE Invoke(w)
    <3>1. at[w] \in Trial /\ TrialOK(at[w]) /\ calls[at[w]] = 0
      BY <2>0, <2>6 DEF Invoke, TrialInv
    <3>2. pointer[at[w]] = NoReceipt
      BY <3>1 DEF TrialOK, Receipt
    <3> QED
      BY <2>0, <2>6, <3>1, <3>2 DEF Invoke, durable
  <2>7. ASSUME NEW a \in Answer, Return(w, a) PROVE SessionOK(w)'
    BY <2>0, <2>7 DEF Return, durable, NoReceipt
  <2>8. CASE CallCancelled(w) \/ Abandon(w)
    BY <2>8, <2>0 DEF CallCancelled, Abandon, durable, history
  <2>9. CASE Seal(w)
    BY <2>9, <2>0 DEF Seal, Sealing, history
  <2>10. CASE Point(w)
    BY <2>10, <2>0 DEF Point, Pointing, history
  <2>11. CASE Commit(w) \/ GradeTrial(w)
    BY <2>11, <2>0 DEF Commit, GradeTrial, Transition
  <2>12. CASE Finalize(w)
    BY <2>12 DEF Finalize
  <2>13. ASSUME NEW t \in Trial, NEW a \in Answer, Reconcile(w, t, a)
         PROVE  SessionOK(w)'
    <3>1. calls[t] \in Nat /\ calls[t] > 0 /\ calls[t] <= 1
      BY <2>13 DEF Reconcile, TrialInv, TrialOK
    <3>2. pointer[t] = NoReceipt
      BY <2>0, <2>13 DEF Reconcile, ScanOK
    <3> QED
      BY <2>13, <3>1, <3>2 DEF Reconcile, durable, NoReceipt
  <2>14. CASE Export(w) \/ OpCommit(w) \/ GiveUp(w)
    BY <2>14, <1>5 DEF Export, OpCommit, GiveUp
  <2> QED
    BY <1>6, <2>1, <2>2, <2>3, <2>4, <2>5, <2>6, <2>7, <2>8, <2>9, <2>10,
       <2>11, <2>12, <2>13, <2>14 DEF Advance
<1>7. ASSUME NEW w \in Workers, Crash(w) PROVE SessionOK(w)'
  BY <1>5, <1>7 DEF Crash
<1>8. ASSUME NEW w \in Workers, NEW most, NEW last,
             Resume(w, most, last) \/ OpenToReconcile(w)
      PROVE  SessionInv'
  BY <1>3, <1>8 DEF Resume, OpenToReconcile
<1> QED
  BY <1>1, <1>2, <1>4, <1>6, <1>7, <1>8 DEF Next

\* A session's step leaves alone the rows it is not at, whatever its label.
LEMMA ScanStep == IInv /\ [Next]_vars => ScanInv'
<1> SUFFICES ASSUME IInv, [Next]_vars PROVE ScanInv'
  OBVIOUS
<1> USE DEF IInv, TypeOK, CallLabels, LoopLabels, Recovering, Goto
<1>1. CASE UNCHANGED vars
  BY <1>1 DEF vars, durable, process, history, ScanInv, ScanOK
<1>2. CASE RequestCancel
  BY <1>2 DEF RequestCancel, process, history, ScanInv, ScanOK
<1>3. ASSUME NEW w \in Workers, NEW label \in {"recover", "opRecover"},
             Open(w, label)
      PROVE  ScanInv'
  <2>1. \A v \in Workers \ {w} : pc'[v] = "idle"
    BY <1>3, JournalAssumption DEF Open, LockInv
  <2>2. pc'[w] = label /\ at'[w] = 1
    BY <1>3 DEF Open, PC
  <2>3. \A u \in Trial : ~(u < at'[w])
    BY <2>2 DEF Trial
  <2>4. ScanOK(w)'
    BY <1>3, <2>2, <2>3 DEF ScanOK
  <2> QED
    BY <2>1, <2>4, IdleOK DEF ScanInv
<1>4. ASSUME NEW w \in Workers, Advance(w) \/ Crash(w), ScanOK(w)'
      PROVE  ScanInv'
  <2>1. \A v \in Workers \ {w} : pc'[v] = "idle"
    BY <1>4, SessionFrame, Alone DEF Leave
  <2> QED
    BY <1>4, <2>1, IdleOK DEF ScanInv
<1>5. ASSUME NEW w \in Workers, Leave(w) PROVE ScanOK(w)'
  BY <1>5, IdleOK DEF Leave
<1>6. ASSUME NEW w \in Workers, Advance(w) PROVE ScanOK(w)'
  <2> USE JournalAssumption DEF ScanOK, Trial
  <2>0. SessionOK(w) /\ ScanOK(w)
    BY DEF SessionInv, ScanInv
  <2>1. CASE RecoverRow(w)
    <3>1. /\ at[w] \in Trial
          /\ at' = [at EXCEPT ![w] = @ + 1]
          /\ UNCHANGED <<pc, pointer>>
          /\ pc[w] \in Recovering
      BY <2>1 DEF RecoverRow
    <3>2. \A u \in Trial : u # at[w] => row'[u] = row[u]
      BY <2>1 DEF RecoverRow, Transition
    <3>3. /\ row'[at[w]] # "running"
          /\ row'[at[w]] = "reconciliation_required" =>
                pointer[at[w]] = NoReceipt
      BY <2>1 DEF RecoverRow, Transition
    <3>4. at'[w] = at[w] + 1 /\ at[w] \in Nat
      BY <3>1
    <3>5. \A u \in Trial : u < at'[w] => u = at[w] \/ u < at[w]
      BY <3>4
    <3> HIDE DEF Trial
    <3>6. \A u \in Trial : u < at'[w] =>
            /\ row'[u] # "running"
            /\ row'[u] = "reconciliation_required" => pointer'[u] = NoReceipt
      BY <2>0, <3>1, <3>2, <3>3, <3>5
    <3> QED
      BY <3>1, <3>6
  <2>2. CASE Recovered(w) \/ Entry(w)
    <3>1. CASE Recovered(w)
      <4>1. /\ pc[w] \in Recovering /\ at[w] = N + 1
            /\ pc'[w] \in {"entry", "reconcile"}
            /\ UNCHANGED <<row, pointer>>
        BY <3>1 DEF Recovered, durable
      <4>2. \A u \in Trial : u < at[w]
        BY <4>1
      <4>3. \A u \in Trial :
               /\ row[u] # "running"
               /\ row[u] = "reconciliation_required" => pointer[u] = NoReceipt
        BY <2>0, <4>1, <4>2
      <4> HIDE DEF TypeOK, Trial
      <4> QED
        BY <4>1, <4>3
    <3>2. CASE Entry(w)
      BY <2>0, <3>2 DEF Entry, durable
    <3> QED
      BY <2>2, <3>1, <3>2
  <2>3. CASE SweepRow(w)
    BY <2>0, <2>3, ZenonT(60) DEF SweepRow, Transition
  <2>4. CASE Swept(w)
    BY <2>0, <2>4, SMTT(30) DEF Swept, durable
  <2>5. CASE CheckStatus(w)
    <3>1. CASE Leave(w)
      BY <3>1, <1>5
    <3>2. CASE Goto(w, "export")
      BY <3>2
    <3>3. CASE /\ Status \notin {"reconciliation_required", "cancelled", "completed"}
               /\ Goto(w, "loop")
               /\ at' = [at EXCEPT ![w] = 1]
               /\ seen' = [seen EXCEPT ![w] = row]
      <4>1. \A u \in Trial : row[u] \in {"queued", "observed", "completed"}
        BY <2>0, <2>5, <3>3, StatusOpen DEF CheckStatus, State
      <4> QED
        BY <2>5, <3>3, <4>1 DEF CheckStatus, durable
    <3> QED
      BY <2>5, <3>1, <3>2, <3>3 DEF CheckStatus
  <2>6. CASE LoopHead(w)
    BY <2>0, <2>6 DEF LoopHead, LoopChoice, durable
  <2>7. CASE Claim(w)
    BY <2>0, <2>7 DEF Claim, Transition
  <2>8. CASE Invoke(w) \/ CallCancelled(w)
    BY <2>0, <2>8 DEF Invoke, CallCancelled, durable
  <2>9. ASSUME NEW a \in Answer, Return(w, a) PROVE ScanOK(w)'
    BY <2>0, <2>9 DEF Return, durable
  <2>10. CASE Abandon(w)
    BY <2>10 DEF Abandon
  <2>11. CASE Seal(w) \/ Point(w)
    BY <2>0, <2>11, SMTT(30) DEF Seal, Point, Sealing, Pointing
  <2>12. CASE Commit(w)
    BY <2>0, <2>12 DEF Commit, Transition
  <2>13. CASE GradeTrial(w)
    BY <2>0, <2>13 DEF GradeTrial
  <2>14. CASE Finalize(w)
    <3>1. at[w] \in Trial
      BY <2>0, <2>14 DEF Finalize, SessionOK, TrialLabels
    <3>2. /\ row' = [row EXCEPT ![at[w]] = "completed"]
          /\ at'[w] = at[w] + 1 /\ at[w] \in Nat
          /\ pc'[w] = "loop" /\ pc[w] = "finalize"
          /\ UNCHANGED seen
      BY <2>14, <3>1 DEF Finalize, Transition
    <3>3. ASSUME NEW u \in Trial, u < at'[w] PROVE row'[u] = "completed"
      <4>1. u = at[w] \/ u < at[w]
        BY <3>2, <3>3
      <4> QED
        BY <2>0, <3>2, <4>1
    <3>4. ASSUME NEW u \in Trial, u > at'[w] \/ u = at'[w]
          PROVE  /\ row'[u] = seen'[w][u]
                 /\ row'[u] \in {"queued", "observed", "completed"}
      <4>1. u > at[w]
        BY <3>2, <3>4
      <4> QED
        BY <2>0, <3>2, <4>1
    <3> HIDE DEF TypeOK, Trial
    <3> QED
      BY <3>2, <3>3, <3>4, SMTT(30)
  <2>15. ASSUME NEW t \in Trial, NEW a \in Answer, Reconcile(w, t, a)
         PROVE  ScanOK(w)'
    BY <2>15 DEF Reconcile
  <2>16. CASE Finish(w)
    BY <2>16, <1>5, SMTT(30) DEF Finish
  <2>17. CASE Export(w) \/ OpCommit(w) \/ GiveUp(w)
    BY <2>17, <1>5 DEF Export, OpCommit, GiveUp
  <2> QED
    BY <1>6, <2>1, <2>2, <2>3, <2>4, <2>5, <2>6, <2>7, <2>8, <2>9, <2>10,
       <2>11, <2>12, <2>13, <2>14, <2>15, <2>16, <2>17 DEF Advance
<1>7. ASSUME NEW w \in Workers, Crash(w) PROVE ScanOK(w)'
  BY <1>5, <1>7 DEF Crash
<1>8. ASSUME NEW w \in Workers, NEW most, NEW last,
             Resume(w, most, last) \/ OpenToReconcile(w)
      PROVE  ScanInv'
  BY <1>3, <1>8 DEF Resume, OpenToReconcile
<1> QED
  BY <1>1, <1>2, <1>4, <1>6, <1>7, <1>8 DEF Next

-----------------------------------------------------------------------------
\* The invariant

\* A new experiment satisfies the strengthening.
LEMMA IInit == Init => IInv
<1> SUFFICES ASSUME Init PROVE IInv
  OBVIOUS
<1> USE JournalAssumption DEF Init
<1>1. TypeOK
  <2>1. RowTypes /\ FileTypes
    BY DEF RowTypes, FileTypes, State
  <2>2. SessionTypes
    BY DEF SessionTypes, State, PC, Trial
  <2>3. HistoryTypes
    BY DEF HistoryTypes
  <2> QED
    BY <2>1, <2>2, <2>3
       DEF TypeOK, RowTypes, FileTypes, SessionTypes, HistoryTypes
<1>2. LockInv
  BY DEF LockInv
<1>3. TrialInv
  BY DEF TrialInv, TrialOK, NoReceipt
<1>4. PrefixInv
  BY DEF PrefixInv
<1>5. SessionInv /\ ScanInv
  BY DEF SessionInv, SessionOK, ScanInv, ScanOK, TrialLabels, LoopLabels,
         CallLabels, Recovering
<1>6. LateInv /\ ReportInv
  BY DEF LateInv, ReportInv
<1> QED
  BY <1>1, <1>2, <1>3, <1>4, <1>5, <1>6 DEF IInv

\* Every step preserves the strengthening.
LEMMA IStep == IInv /\ [Next]_vars => IInv'
  BY TypeStep, LockStep, TrialStep, PrefixStep, SessionStep, ScanStep,
     LateStep, ReportStep DEF IInv

\* IInv holds in every reachable state, for every number of trials, set of
\* worker processes and bound on crashes.
THEOREM Invariance == Spec => []IInv
  BY IInit, IStep, PTL DEF Spec

-----------------------------------------------------------------------------
\* The safety properties

\* Every variable of the journal keeps its type (the schema of journal.py's
\* trials table, its artifacts and the sessions of execute).
THEOREM TypeCorrect == Spec => []TypeOK
<1>1. IInv => TypeOK
  BY DEF IInv
<1> QED
  BY <1>1, Invariance, PTL

\* No trial's target is ever called twice ("never replay ambiguous calls",
\* executor.py:1).
THEOREM AtMostOneCall == Spec => []CalledAtMostOnce
<1>1. IInv => CalledAtMostOnce
  BY DEF IInv, TrialInv, TrialOK, CalledAtMostOnce
<1> QED
  BY <1>1, Invariance, PTL

\* Sealed receipts are readable and say what the one call answered; a final
\* result grades exactly that (observe, reconcile_observation, complete).
THEOREM EvidenceIsSealed == Spec => []SealedEvidence
<1>1. IInv => SealedEvidence
  <2> SUFFICES ASSUME IInv, NEW t \in Trial, TrialOK(t)
               PROVE  /\ pointer[t] # NoReceipt =>
                            /\ <<t, pointer[t]>> \in artifacts
                            /\ pointer[t] = answered[t]
                            /\ row[t] \notin {"queued", "cancelled"}
                      /\ row[t] \in {"observed", "completed"} =>
                            pointer[t] # NoReceipt /\ obs[t] = pointer[t]
                      /\ row[t] = "completed" =>
                            /\ <<t, res[t]>> \in artifacts
                            /\ res[t] = ResultOf(answered[t])
    BY DEF IInv, TrialInv, SealedEvidence
  <2>1. row[t] \in {"queued", "cancelled"} => pointer[t] = NoReceipt
    BY DEF TrialOK, IInv, TypeOK, Receipt
  <2> QED
    BY <2>1 DEF TrialOK
<1> QED
  BY <1>1, Invariance, PTL

\* report.json holds exactly one result per planned trial, each of a trial
\* that was called exactly once (export_report).
THEOREM CompleteReport == Spec => []ReportIsComplete
<1>1. IInv => ReportIsComplete
  <2> SUFFICES ASSUME IInv, report # {} PROVE
        /\ report = {<<t, ResultOf(answered[t])>> : t \in Trial}
        /\ \A t \in Trial : row[t] = "completed" /\ calls[t] = 1
    BY DEF ReportIsComplete
  <2>1. ASSUME NEW t \in Trial
        PROVE  row[t] = "completed" /\ res[t] = ResultOf(answered[t]) /\ calls[t] = 1
    <3>1. row[t] = "completed" /\ TrialOK(t)
      BY DEF IInv, ReportInv, TrialInv
    <3>2. res[t] = ResultOf(answered[t]) /\ answered[t] \in Receipt
      BY <3>1 DEF TrialOK, IInv, TypeOK
    <3>3. answered[t].call \in Nat \ {0}
      BY <3>2 DEF Receipt
    <3>4. calls[t] \in Nat /\ calls[t] <= 1 /\ answered[t].call <= calls[t]
      BY <3>1 DEF TrialOK, IInv, TypeOK
    <3>5. calls[t] = 1
      BY <3>3, <3>4
    <3> QED
      BY <3>1, <3>2, <3>5
  <2> QED
    BY <2>1 DEF IInv, ReportInv
<1> QED
  BY <1>1, Invariance, PTL

\* At most one trial is ever claimed after cancel.json was written, however
\* often sessions restart (the window between executor.py's check and claim).
THEOREM AtMostOneLateClaim == Spec => []OneLateClaim
<1>1. IInv => OneLateClaim
  BY DEF IInv, LateInv, OneLateClaim
<1> QED
  BY <1>1, Invariance, PTL

\* No call is repeated, and at most one starts after a cancellation.
THEOREM BoundedCalls == Spec => []CallsAreBounded
<1> QED
  BY AtMostOneCall, AtMostOneLateClaim, PTL DEF CallsAreBounded

\* Receipts, results and the report are what each trial's one call answered.
THEOREM StandingEvidence == Spec => []EvidenceStands
<1> QED
  BY EvidenceIsSealed, CompleteReport, PTL DEF EvidenceStands

\* The rows of a reachable journal always pass status()'s verification.
LEMMA AlwaysVerified == IInv => Verified
<1> SUFFICES ASSUME IInv, NEW t \in Trial, TrialOK(t)
             PROVE  /\ row[t] = "completed" => ResultReadable(t)
                    /\ row[t] = "observed" => Readable(t)
                    /\ row[t] = "queued" => pointer[t] = NoReceipt
  BY DEF Verified, IInv, TrialInv
<1>1. row[t] = "queued" => pointer[t] = NoReceipt
  BY DEF TrialOK, IInv, TypeOK, Receipt
<1>2. row[t] \in {"observed", "completed"} => Readable(t)
  BY DEF TrialOK, Readable
<1>3. row[t] = "completed" => ResultReadable(t)
  BY <1>2 DEF TrialOK, ResultReadable, ResultOf
<1> QED
  BY <1>1, <1>2, <1>3

\* No session of execute or of an operator meets one of the journal's own
\* refusals: crashes and cancellation never leave a journal that recover,
\* status, claim, observe, complete or export reject.
THEOREM NothingRefused == Spec => []NeverRefused
<1>1. IInv => NeverRefused
  <2> SUFFICES ASSUME IInv, NEW w \in Workers PROVE ~Raises(w)
    BY DEF NeverRefused
  <2>0. SessionOK(w) /\ TrialInv /\ Verified
    BY AlwaysVerified DEF IInv, SessionInv
  <2>1. \A t \in Trial : pointer[t] # NoReceipt => Readable(t)
    BY <2>0 DEF TrialInv, TrialOK, Readable
  <2>2. pc[w] = "export" => Status = "completed"
    BY <2>0, JournalAssumption DEF SessionOK, Status, Trial
  <2> QED
    BY <2>0, <2>1, <2>2 DEF Raises, SessionOK, TrialLabels, CallLabels,
         Recovering, Pointing, MayPoint, TrialInv, TrialOK
<1> QED
  BY <1>1, Invariance, PTL

\* While any trial is ambiguous, cancelled, running or ungraded, no other is
\* claimed (docs/experiments.md:90).
THEOREM AmbiguityAlwaysHalts == Spec => AmbiguityHalts
<1>1. IInv /\ [Next]_vars =>
        ((\E t \in Trial : row[t] = "queued" /\ row'[t] = "running") =>
            \A u \in Trial : row[u] \in {"queued", "completed"})
  <2> SUFFICES ASSUME IInv, [Next]_vars, NEW t \in Trial,
                      row[t] = "queued", row'[t] = "running"
               PROVE  \A u \in Trial : row[u] \in {"queued", "completed"}
    OBVIOUS
  <2>1. PICK w \in Workers : Claim(w)
    BY RowFrame, SMTT(30) DEF RecoverRow, SweepRow, Abandon, Commit, Finalize, OpCommit,
                    Transition, IInv, TypeOK
  <2>2. SessionOK(w) /\ ScanOK(w) /\ at[w] \in Trial
    BY <2>1 DEF IInv, SessionInv, SessionOK, ScanInv, TrialLabels, CallLabels,
                Claim
  <2>3. row[at[w]] = "queued" /\ pc[w] = "claim"
    BY <2>1 DEF Claim, Transition
  <2>4. \A u \in Trial : u < at[w] => row[u] = "completed"
    BY <2>2, <2>3 DEF ScanOK, LoopLabels, CallLabels
  <2>5. ASSUME NEW u \in Trial, u > at[w] PROVE row[u] \in {"queued", "completed"}
    BY <2>2, <2>3, <2>5 DEF ScanOK, LoopLabels, CallLabels, IInv, PrefixInv
  <2> QED
    BY <2>2, <2>3, <2>4, <2>5, JournalAssumption DEF Trial
<1> QED
  BY <1>1, Invariance, PTL DEF Spec, AmbiguityHalts

-----------------------------------------------------------------------------
\* The refinement

Phases == [t \in Trial |-> PhaseOf(t)]
Called == [t \in Trial |-> calls[t] > 0]

\* The life of one trial changes and no other's does.
LEMMA OneMoves ==
  ASSUME NEW x \in Trial, NEW to, PhaseOf(x)' = to,
         \A u \in Trial \ {x} : row'[u] = row[u] /\ pointer'[u] = pointer[u]
  PROVE  Phases' = [Phases EXCEPT ![x] = to]
  BY ZenonT(60) DEF Phases, PhaseOf

\* When no trial changes phase the abstract phases stay as they are.
LEMMA NoneMoves ==
  ASSUME \A u \in Trial : PhaseOf(u)' = PhaseOf(u)
  PROVE  Phases' = Phases
  BY DEF Phases

\* A step of the journal on trial t moves the abstract trial, or changes
\* nothing the abstract specification sees.
Maps(t) ==
    \/ UNCHANGED <<Phases, pointer, Called>>
    \/ Lifecycle!Withdraw(t) \/ Lifecycle!Commit(t) \/ Lifecycle!Call(t)
    \/ Lifecycle!LoseTrack(t) \/ Lifecycle!Seal(t) \/ Lifecycle!Finalize(t)

\* A queued or a cancelled trial has no receipt.
LEMMA Unsealed ==
  ASSUME IInv, NEW t \in Trial, row[t] \in {"queued", "cancelled"}
  PROVE  pointer[t] = NoReceipt
<1>1. TrialOK(t) /\ calls[t] = 0
  BY DEF IInv, TrialInv, TrialOK
<1> QED
  BY <1>1 DEF TrialOK, IInv, TypeOK, Receipt

\* A session's step on the row it is at is a step of the trial's life.
LEMMA RowMaps ==
  ASSUME IInv, NEW w \in Workers, NEW t \in Trial, t = at[w],
         \/ RecoverRow(w) \/ SweepRow(w) \/ Claim(w) \/ Abandon(w)
         \/ Commit(w) \/ Finalize(w) \/ OpCommit(w)
  PROVE  Maps(t)
<1> USE DEF IInv, TypeOK, Transition, Maps
<1>1. SessionOK(w)
  BY DEF SessionInv
<1>2. UNCHANGED <<pointer, calls>>
  BY DEF RecoverRow, SweepRow, Claim, Abandon, Commit, Finalize, OpCommit,
         history
<1>3. \A u \in Trial \ {t} : row'[u] = row[u] /\ pointer'[u] = pointer[u]
  BY <1>1, <1>2 DEF RecoverRow, SweepRow, Claim, Abandon, Commit, Finalize,
                    OpCommit
<1>4. UNCHANGED Called
  BY <1>2 DEF Called
<1>5. ASSUME PhaseOf(t)' = PhaseOf(t) PROVE Maps(t)
  BY <1>1, <1>2, <1>3, <1>4, <1>5, NoneMoves DEF PhaseOf
<1>6. Phases[t] = PhaseOf(t)
  BY <1>1 DEF Phases
<1>7. CASE RecoverRow(w)
  <2>1. CASE /\ row[t] = "running" /\ pointer[t] = NoReceipt
             /\ row'[t] = "reconciliation_required"
    <3>1. PhaseOf(t) = "committed" /\ PhaseOf(t)' = "unknown"
      BY <2>1, <1>2 DEF PhaseOf
    <3> QED
      BY <1>1, <1>2, <1>3, <1>4, <1>6, <3>1, OneMoves
      DEF Lifecycle!LoseTrack, Lifecycle!Move, Phases, Called
  <2>2. CASE ~(/\ row[t] = "running" /\ pointer[t] = NoReceipt
               /\ row'[t] = "reconciliation_required")
    <3>1. PhaseOf(t)' = PhaseOf(t)
      BY <1>1, <1>2, <1>7, <2>2 DEF PhaseOf, RecoverRow
    <3> QED
      BY <1>5, <3>1
  <2> QED
    BY <2>1, <2>2
<1>8. CASE SweepRow(w)
  <2>1. CASE row[t] = "queued"
    <3>1. PhaseOf(t) = "planned" /\ PhaseOf(t)' = "withdrawn"
      BY <1>1, <1>8, <2>1 DEF PhaseOf, SweepRow
    <3> QED
      BY <1>1, <1>2, <1>3, <1>4, <1>6, <3>1, OneMoves
      DEF Lifecycle!Withdraw, Lifecycle!Move, Phases, Called
  <2>2. CASE row[t] # "queued"
    BY <1>2, <1>5, <1>8, <2>2 DEF PhaseOf, SweepRow
  <2> QED
    BY <2>1, <2>2
<1>9. CASE Claim(w)
  <2>1. PhaseOf(t) = "planned" /\ PhaseOf(t)' = "committed"
    BY <1>1, <1>2, <1>9, Unsealed DEF PhaseOf, Claim
  <2> QED
    BY <1>1, <1>2, <1>3, <1>4, <1>6, <2>1, OneMoves
    DEF Lifecycle!Commit, Lifecycle!Move, Phases, Called
<1>10. CASE Abandon(w)
  <2>1. PhaseOf(t) = "committed" /\ PhaseOf(t)' = "unknown"
    BY <1>1, <1>2, <1>10 DEF PhaseOf, Abandon, SessionOK
  <2> QED
    BY <1>1, <1>2, <1>3, <1>4, <1>6, <2>1, OneMoves
    DEF Lifecycle!LoseTrack, Lifecycle!Move, Phases, Called
<1>11. CASE Commit(w) \/ OpCommit(w)
  <2>1. PhaseOf(t)' = PhaseOf(t)
    BY <1>1, <1>2, <1>11 DEF PhaseOf, Commit, OpCommit, Readable
  <2> QED
    BY <1>5, <2>1
<1>12. CASE Finalize(w)
  <2>1. PhaseOf(t) = "sealed" /\ PhaseOf(t)' = "final"
    BY <1>1, <1>2, <1>12 DEF PhaseOf, Finalize, TrialInv, TrialOK
  <2> QED
    BY <1>1, <1>2, <1>3, <1>4, <1>6, <2>1, OneMoves
    DEF Lifecycle!Finalize, Lifecycle!Move, Phases, Called
<1> QED
  BY <1>1, <1>7, <1>8, <1>9, <1>10, <1>11, <1>12

\* Pointing at the receipt is the sealing of the trial.
LEMMA PointMaps ==
  ASSUME IInv, NEW w \in Workers, NEW t \in Trial, t = at[w], Point(w)
  PROVE  Maps(t)
<1> USE DEF IInv, TypeOK, Point
<1>1. /\ row[t] \in {"running", "reconciliation_required"}
      /\ calls[t] = 1 /\ pointer[t] = NoReceipt
      /\ held[w] \in Receipt \ {NoReceipt}
  BY ZenonT(60) DEF SessionInv, SessionOK, TrialLabels, CallLabels, Pointing
<1>2. PhaseOf(t) \in {"committed", "unknown"} /\ PhaseOf(t)' = "sealed"
  BY <1>1 DEF PhaseOf
<1>3. Phases' = [Phases EXCEPT ![t] = "sealed"] /\ Phases[t] = PhaseOf(t)
  BY <1>1, <1>2, OneMoves DEF Phases
<1>4. UNCHANGED Called /\ Called[t]
  <2>1. UNCHANGED calls
    BY DEF history
  <2>2. UNCHANGED Called
    BY <2>1 DEF Called
  <2>3. (calls[t] > 0) = TRUE
    BY <1>1
  <2>4. Called[t]
    BY <2>3 DEF Called
  <2> QED
    BY <2>2, <2>4
<1>5. pointer' = [pointer EXCEPT ![t] = pointer'[t]] /\ pointer'[t] \in Receipt
  BY <1>1
<1> QED
  BY <1>1, <1>2, <1>3, <1>4, <1>5
  DEF Maps, Lifecycle!Seal, Lifecycle!Move, Phases, Called

\* Starting the agent is the abstract call.
LEMMA InvokeMaps ==
  ASSUME IInv, NEW w \in Workers, NEW t \in Trial, t = at[w], Invoke(w)
  PROVE  Maps(t)
<1> USE DEF IInv, TypeOK, Invoke, durable
<1>1. row[t] = "running" /\ calls[t] = 0 /\ TrialOK(t)
  BY DEF SessionInv, SessionOK, TrialInv, TrialLabels, CallLabels
<1>2. pointer[t] = NoReceipt
  BY <1>1 DEF TrialOK, Receipt
<1>3. PhaseOf(t) = "committed" /\ UNCHANGED Phases
  BY <1>1, <1>2 DEF PhaseOf, Phases
<1>4. Called' = [Called EXCEPT ![t] = TRUE] /\ ~Called[t]
  <2>1. calls'[t] = 1 /\ \A u \in Trial \ {t} : calls'[u] = calls[u]
    BY <1>1
  <2>2. (calls'[t] > 0) = TRUE /\ (calls[t] > 0) = FALSE
    BY <1>1, <2>1
  <2> QED
    BY <2>1, <2>2 DEF Called
<1> QED
  BY <1>1, <1>3, <1>4 DEF Maps, Lifecycle!Call, Phases, Called

\* The journal implements the life of a trial: no crash, resume, cancellation
\* or reconciliation takes a trial off its path.
THEOREM Implementation == Spec => ImplementsLifecycle
<1>1. Init => Lifecycle!Init
  <2> SUFFICES ASSUME Init PROVE Lifecycle!Init
    OBVIOUS
  <2>1. \A t \in Trial : PhaseOf(t) = "planned" /\ (calls[t] > 0) = FALSE
    BY DEF Init, PhaseOf
  <2> QED
    BY <2>1 DEF Init, Lifecycle!Init
<1>2. IInv /\ [Next]_vars => [Lifecycle!Next]_(Lifecycle!vars)
  <2> SUFFICES ASSUME IInv, [Next]_vars
               PROVE  UNCHANGED <<Phases, pointer, Called>> \/ Lifecycle!Next
    BY DEF Lifecycle!vars, Phases, Called
  <2>1. ASSUME NEW t \in Trial, Maps(t)
        PROVE  UNCHANGED <<Phases, pointer, Called>> \/ Lifecycle!Next
    BY <2>1 DEF Maps, Lifecycle!Next
  <2>2. ASSUME UNCHANGED <<row, pointer, calls>>
        PROVE  UNCHANGED <<Phases, pointer, Called>>
    BY <2>2 DEF Phases, Called, PhaseOf
  <2>3. ASSUME NEW w \in Workers,
               \/ RecoverRow(w) \/ SweepRow(w) \/ Claim(w) \/ Abandon(w)
               \/ Commit(w) \/ Finalize(w) \/ OpCommit(w)
        PROVE  UNCHANGED <<Phases, pointer, Called>> \/ Lifecycle!Next
    <3>1. PICK t \in Trial : t = at[w]
      BY <2>3 DEF IInv, SessionInv, SessionOK, TrialLabels, CallLabels,
                  RecoverRow, SweepRow, Claim, Abandon, Commit, Finalize,
                  OpCommit
    <3> QED
      BY <2>1, <2>3, <3>1, RowMaps
  <2>4. ASSUME NEW w \in Workers, Point(w) \/ Invoke(w)
        PROVE  UNCHANGED <<Phases, pointer, Called>> \/ Lifecycle!Next
    <3>1. PICK t \in Trial : t = at[w]
      BY <2>4 DEF IInv, SessionInv, SessionOK, TrialLabels, CallLabels, Point,
                  Invoke, Pointing
    <3> QED
      BY <2>1, <2>4, <3>1, PointMaps, InvokeMaps
  <2>5. \/ UNCHANGED <<row, pointer, calls>>
        \/ \E w \in Workers :
             \/ RecoverRow(w) \/ SweepRow(w) \/ Claim(w) \/ Abandon(w)
             \/ Commit(w) \/ Finalize(w) \/ OpCommit(w)
             \/ Point(w) \/ Invoke(w)
    <3>1. \/ UNCHANGED calls
          \/ \E w \in Workers : Invoke(w)
      BY CallFrame DEF Return, Reconcile
    <3>2. \/ UNCHANGED pointer
          \/ \E w \in Workers : Point(w)
      BY FileFrame DEF RequestCancel, Seal, GradeTrial, Export
    <3> QED
      BY <3>1, <3>2, RowFrame
  <2> QED
    BY <2>2, <2>3, <2>4, <2>5
<1> QED
  BY <1>1, <1>2, Invariance, PTL DEF Spec, ImplementsLifecycle, Lifecycle!Spec

-----------------------------------------------------------------------------
\* Bridge: the inductive invariant.  A row is in the queue only after it was
\* claimed here, and a local call is only made between a claim from queued and the
\* end of its session; so the two sides never call one row at the same time.

\* The labels of a session of execute.
LocalPC == PC \ {"opRecover", "reconcile", "opSeal", "opPoint", "opCommit"}
\* Those at which it knows nothing of the row it is at, but that it is one.
PlainPC == {"recover", "entry", "sweepIn", "status", "loop", "claim", "grade",
            "sweepOut", "finish", "export"}

RemoteReceipt == [epoch : 1..MaxEpoch, answer : Answer]
RemotePC == {"idle", "claimed", "dispatched", "calling", "returned"}

MarkTypes ==
    /\ row \in [Trial -> State]
    /\ obs \in [Trial -> Receipt \cup {NoReceipt}]
    /\ res \in [Trial -> Result \cup {NoResult}]
    /\ pointer \in [Trial -> Receipt \cup {NoReceipt}]
    /\ calls \in [Trial -> {0, 1}]
    /\ answered \in [Trial -> Receipt \cup {NoReceipt}]
SeatTypes ==
    /\ pc \in [Workers -> LocalPC]
    /\ at \in [Workers -> 1..(N + 1)]
    /\ end \in [Workers -> 1..N]
    /\ held \in [Workers -> Receipt \cup {NoReceipt}]
    /\ duty \in [Workers -> Duty]

RemoteTypes ==
    /\ state \in [Trial -> Remote!State]
    /\ epoch \in [Trial -> Nat]
    /\ receipt \in [Trial -> RemoteReceipt \cup {NoRemote}]
    /\ rpc \in [Proc -> RemotePC]
    /\ item \in [Proc -> 0..N]
    /\ ticket \in [Proc -> 0..MaxEpoch]
    /\ kept \in [Proc -> RemoteReceipt \cup {NoRemote}]
    /\ rcalls \in [Trial -> {0, 1}]
    /\ ranswered \in [Trial -> RemoteReceipt \cup {NoRemote}]

\* A process past its dispatch has the row's epoch, or the row is ambiguous;
\* no two processes are past the dispatch of one row.
AtCall(p) == rpc[p] \in {"dispatched", "calling", "returned"}
ProcessOK(p) ==
    /\ rpc[p] # "idle" => item[p] \in Trial /\ ticket[p] \in 1..MaxEpoch
    /\ AtCall(p) =>
          \/ state[item[p]] = "dispatched" /\ ticket[p] = epoch[item[p]]
          \/ state[item[p]] = "reconciliation_required"
    /\ rpc[p] = "dispatched" => rcalls[item[p]] = 0
    /\ rpc[p] \in {"calling", "returned"} => rcalls[item[p]] = 1
    /\ rpc[p] = "returned" =>
          /\ kept[p] \in RemoteReceipt
          /\ ranswered[item[p]] = kept[p] /\ kept[p].epoch = ticket[p]
ProcessInv == \A p \in Proc : ProcessOK(p)
OneCaller == \A p, q \in Proc :
    AtCall(p) /\ AtCall(q) /\ item[p] = item[q] => p = q
RemoteRowInv == \A t \in Trial :
    /\ state[t] \in {"absent", "queued", "leased", "cancelled"} => rcalls[t] = 0
    /\ state[t] = "completed" =>
          /\ rcalls[t] = 1 /\ receipt[t] \in RemoteReceipt
          /\ receipt[t] = ranswered[t] /\ receipt[t].epoch = epoch[t]
RemoteInv == RemoteTypes /\ ProcessInv /\ OneCaller /\ RemoteRowInv

\* One session at a time, of execute or of the bridge, under the lock.
ExclusiveInv == \A w \in Workers :
    /\ pc[w] # "idle" \/ duty[w] # "none" <=> lock = w
    /\ pc[w] = "idle" \/ duty[w] = "none"

\* A row the queue knows was marked here first; a cancelled one is cancelled
\* there, or was never sent.
RowsAgree == \A t \in Trial :
    /\ row[t] = "queued" =>
          state[t] = "absent" /\ calls[t] = 0 /\ pointer[t] = NoReceipt
    /\ row[t] = "cancelled" => state[t] \in {"absent", "cancelled"}

\* What is stored of a trial is what its call here answered, or what came back.
HomeInv == \A t \in Trial :
    /\ pointer[t] # NoReceipt =>
          /\ \/ calls[t] = 1 /\ pointer[t] = answered[t]
             \/ state[t] = "completed" /\ pointer[t] = Collected(t)
          /\ <<t, pointer[t]>> \in artifacts
    /\ IF row[t] \in {"observed", "completed"}
         THEN pointer[t] # NoReceipt /\ obs[t] = pointer[t]
         ELSE obs[t] = NoReceipt
    /\ row[t] = "completed" =>
          res[t] = ResultOf(pointer[t]) /\ <<t, res[t]>> \in artifacts

Collecting == {"store", "point", "recover", "grade", "finalize"}
\* What a session of execute, and one of the bridge, knows of the row it is at.
Calling == {"invoke", "calling", "abandon", "seal", "point"}
DutyOK(w) ==
    LET t == at[w] IN
    /\ duty[w] \in Collecting \cup {"enqueue", "withdraw"} => t \in Trial
    /\ duty[w] = "enqueue" => row[t] \in {"running", "reconciliation_required"}
    /\ duty[w] \in Collecting => state[t] = "completed"
    /\ duty[w] \in {"store", "point", "recover"} => row[t] # "completed"
    /\ duty[w] = "point" => <<t, Collected(t)>> \in artifacts
    /\ duty[w] \in {"recover", "grade", "finalize"} => pointer[t] # NoReceipt
    /\ duty[w] \in {"grade", "finalize"} => row[t] = "observed"
    /\ duty[w] = "withdraw" =>
          state[t] \in {"absent", "cancelled"} /\ row[t] # "completed"
    /\ pc[w] \in Calling \cup {"claim", "commit", "grade", "finalize"} => t \in Trial
    /\ pc[w] \in Calling =>
          state[t] = "absent" /\ row[t] = "running" /\ pointer[t] = NoReceipt
    /\ pc[w] = "invoke" => calls[t] = 0
    /\ pc[w] \in Calling \ {"invoke"} => calls[t] = 1
    /\ pc[w] \in {"seal", "point"} => held[w] = answered[t] /\ held[w] \in Receipt
    /\ pc[w] = "point" => <<t, held[w]>> \in artifacts
    /\ pc[w] = "commit" =>
          row[t] = "running" /\ held[w] \in Receipt /\ pointer[t] = held[w]
    /\ duty[w] = "finalize" \/ pc[w] = "finalize" =>
          <<t, ResultOf(pointer[t])>> \in artifacts
DutyInv == \A w \in Workers : DutyOK(w)

PublishedInv ==
    report # {} =>
        /\ \A t \in Trial : row[t] = "completed"
        /\ report = {<<t, res[t]>> : t \in Trial}

BridgeIInv ==
    /\ MarkTypes /\ SeatTypes /\ RemoteInv /\ ExclusiveInv
    /\ RowsAgree /\ HomeInv /\ PublishedInv /\ DutyInv

-----------------------------------------------------------------------------
\* The remote side

\* What a settled or unknown row is stays as it is.
RemoteKeeps == \A t \in Trial :
    /\ state[t] \in {"absent", "completed", "cancelled"} => state'[t] = state[t]
    /\ state[t] = "completed" => receipt'[t] = receipt[t] /\ rcalls'[t] = rcalls[t]

LEMMA RemoteStart ==
    ASSUME RemoteInv, NEW p \in Proc, Remote!Start(p)
    PROVE  RemoteInv' /\ RemoteKeeps
<1>1. PICK i \in Trial : Remote!Claim(Name[p], i) /\ item' = [item EXCEPT ![p] = i]
                         /\ ticket' = [ticket EXCEPT ![p] = epoch[i] + 1]
  BY DEF Remote!Start, Remote!Item, Trial
<1>2. /\ state[i] = "queued" /\ epoch[i] < MaxEpoch
      /\ state' = [state EXCEPT ![i] = "leased"]
      /\ epoch' = [epoch EXCEPT ![i] = @ + 1]
      /\ rpc' = [rpc EXCEPT ![p] = "claimed"] /\ rpc[p] = "idle"
      /\ UNCHANGED <<receipt, kept, rcalls, ranswered>>
  BY <1>1 DEF Remote!Start, Remote!Claim, Remote!Claimable, Remote!Become, Remote!Bump,
     Remote!Goto, Remote!world, Remote!settlement
<1>3. RemoteTypes'
  BY <1>1, <1>2, BridgeAssumption, JournalAssumption DEF RemoteInv, RemoteTypes, RemotePC, Remote!State, Trial
<1>4. ASSUME NEW q \in Proc PROVE ProcessOK(q)'
  <2>1. ProcessOK(q)
    BY DEF RemoteInv, ProcessInv
  <2>2. CASE q = p
    <3>1. rpc'[p] = "claimed" /\ item'[p] = i /\ ticket'[p] = epoch[i] + 1
      BY <1>1, <1>2 DEF RemoteInv, RemoteTypes
    <3>2. epoch[i] + 1 \in 1..MaxEpoch
      BY <1>2, BridgeAssumption DEF RemoteInv, RemoteTypes
    <3> QED BY <2>2, <3>1, <3>2 DEF ProcessOK, AtCall
  <2>3. CASE q # p
    BY <1>1, <1>2, <2>1, <2>3 DEF RemoteInv, RemoteTypes, ProcessOK, AtCall
  <2> QED BY <2>2, <2>3
<1>5. OneCaller' /\ RemoteRowInv' /\ RemoteKeeps
  BY <1>1, <1>2 DEF RemoteInv, RemoteTypes, ProcessInv, ProcessOK, OneCaller, RemoteRowInv, AtCall, RemoteKeeps
<1> QED BY <1>3, <1>4, <1>5 DEF RemoteInv, ProcessInv

\* A process that leaves, whatever the reason, leaves the rows behind.
LEMMA RemoteLeave ==
    ASSUME RemoteInv, NEW p \in Proc, Remote!Leave(p),
           UNCHANGED <<state, epoch, receipt, rcalls, ranswered>>
    PROVE  RemoteInv' /\ RemoteKeeps
<1>1. /\ rpc' = [rpc EXCEPT ![p] = "idle"] /\ item' = [item EXCEPT ![p] = 0]
      /\ ticket' = [ticket EXCEPT ![p] = 0] /\ kept' = [kept EXCEPT ![p] = NoRemote]
  BY DEF Remote!Leave, Remote!Goto
<1>2. RemoteTypes'
  BY <1>1, BridgeAssumption, JournalAssumption DEF RemoteInv, RemoteTypes, RemotePC
<1>3. ASSUME NEW q \in Proc PROVE ProcessOK(q)'
  BY <1>1 DEF RemoteInv, RemoteTypes, ProcessInv, ProcessOK, AtCall
<1>4. OneCaller' /\ RemoteRowInv' /\ RemoteKeeps
  BY <1>1 DEF RemoteInv, RemoteTypes, OneCaller, RemoteRowInv, AtCall, RemoteKeeps
<1> QED BY <1>2, <1>3, <1>4 DEF RemoteInv, ProcessInv

\* dispatch(): nobody was past the dispatch of the row before.
LEMMA RemoteDispatch ==
    ASSUME RemoteInv, NEW p \in Proc, Remote!StartDispatch(p)
    PROVE  RemoteInv' /\ RemoteKeeps
<1> DEFINE i == item[p]
<1>1. CASE /\ rpc[p] = "claimed" /\ rpc' = [rpc EXCEPT ![p] = "dispatched"]
           /\ state[i] = "leased" /\ ticket[p] = epoch[i]
           /\ state' = [state EXCEPT ![i] = "dispatched"]
           /\ UNCHANGED <<epoch, receipt, item, ticket, kept, rcalls, ranswered>>
  <2>1. RemoteTypes'
    BY <1>1 DEF RemoteInv, RemoteTypes, RemotePC, Remote!State
  <2>2. i \in Trial /\ ProcessOK(p)
    BY <1>1 DEF RemoteInv, ProcessInv, ProcessOK
  <2>3. ASSUME NEW q \in Proc PROVE ProcessOK(q)' /\ (AtCall(q) => item[q] # i)
    BY <1>1, <2>2 DEF RemoteInv, RemoteTypes, ProcessInv, ProcessOK, RemoteRowInv, AtCall
  <2>4. OneCaller' /\ RemoteRowInv' /\ RemoteKeeps
    BY <1>1, <2>2, <2>3 DEF RemoteInv, RemoteTypes, OneCaller, RemoteRowInv, AtCall, RemoteKeeps
  <2> QED BY <2>1, <2>3, <2>4 DEF RemoteInv, ProcessInv
<1>2. CASE Remote!Leave(p) /\ UNCHANGED <<state, epoch, receipt, rcalls, ranswered>>
  BY <1>2, RemoteLeave
<1> QED BY <1>1, <1>2 DEF Remote!StartDispatch, Remote!Dispatch, Remote!Locked, Remote!Become,
     Remote!Goto, Remote!world, Remote!settlement, Remote!lease, Remote!vars, Remote!work

LEMMA RemoteInvoke ==
    ASSUME RemoteInv, NEW p \in Proc, Remote!Invoke(p)
    PROVE  RemoteInv' /\ RemoteKeeps
<1> DEFINE i == item[p]
<1>1. /\ rpc[p] = "dispatched" /\ rpc' = [rpc EXCEPT ![p] = "calling"]
      /\ rcalls' = [rcalls EXCEPT ![i] = @ + 1]
      /\ UNCHANGED <<state, epoch, receipt, item, ticket, kept, ranswered>>
  BY DEF Remote!Invoke, Remote!Goto, Remote!vars, Remote!work, Remote!lease, Remote!settlement
<1>2. i \in Trial /\ rcalls[i] = 0 /\ state[i] \in {"dispatched", "reconciliation_required"}
  BY <1>1 DEF RemoteInv, ProcessInv, ProcessOK, AtCall
<1>3. RemoteTypes'
  BY <1>1, <1>2 DEF RemoteInv, RemoteTypes, RemotePC
<1>4. ASSUME NEW q \in Proc PROVE ProcessOK(q)'
  BY <1>1, <1>2 DEF RemoteInv, RemoteTypes, ProcessInv, ProcessOK, OneCaller, AtCall
<1>5. OneCaller' /\ RemoteRowInv' /\ RemoteKeeps
  BY <1>1, <1>2 DEF RemoteInv, RemoteTypes, OneCaller, RemoteRowInv, AtCall, RemoteKeeps
<1> QED BY <1>3, <1>4, <1>5 DEF RemoteInv, ProcessInv

LEMMA RemoteReturn ==
    ASSUME RemoteInv, NEW p \in Proc, NEW a \in Answer, Remote!Return(p, a)
    PROVE  RemoteInv' /\ RemoteKeeps
<1> DEFINE i == item[p]
           r == [epoch |-> ticket[p], answer |-> a]
<1>1. /\ rpc[p] = "calling" /\ rpc' = [rpc EXCEPT ![p] = "returned"]
      /\ kept' = [kept EXCEPT ![p] = r]
      /\ ranswered' = [ranswered EXCEPT ![i] = r]
      /\ UNCHANGED <<state, epoch, receipt, item, ticket, rcalls>>
  BY DEF Remote!Return, Remote!Goto, Remote!vars, Remote!work, Remote!lease, Remote!settlement
<1>2. /\ i \in Trial /\ rcalls[i] = 1 /\ state[i] \in {"dispatched", "reconciliation_required"}
      /\ r \in RemoteReceipt /\ r.epoch = ticket[p]
  BY <1>1 DEF RemoteInv, ProcessInv, ProcessOK, AtCall, RemoteReceipt
<1> HIDE DEF r
<1>3. RemoteTypes'
  BY <1>1, <1>2 DEF RemoteInv, RemoteTypes, RemotePC
<1>4. ASSUME NEW q \in Proc PROVE ProcessOK(q)'
  BY <1>1, <1>2 DEF RemoteInv, RemoteTypes, ProcessInv, ProcessOK, OneCaller, AtCall
<1>5. OneCaller' /\ RemoteRowInv' /\ RemoteKeeps
  BY <1>1, <1>2 DEF RemoteInv, RemoteTypes, OneCaller, RemoteRowInv, AtCall, RemoteKeeps
<1> QED BY <1>3, <1>4, <1>5 DEF RemoteInv, ProcessInv

\* complete() stores what the row's only caller was answered.
LEMMA RemoteSettle ==
    ASSUME RemoteInv, NEW p \in Proc, Remote!Settle(p)
    PROVE  RemoteInv' /\ RemoteKeeps
<1> DEFINE i == item[p]
<1>1. CASE /\ rpc[p] = "returned" /\ Remote!Leave(p)
           /\ state[i] = "dispatched" /\ ticket[p] = epoch[i]
           /\ state' = [state EXCEPT ![i] = "completed"]
           /\ receipt' = [receipt EXCEPT ![i] = kept[p]]
           /\ UNCHANGED <<epoch, rcalls, ranswered>>
  <2>1. /\ rpc' = [rpc EXCEPT ![p] = "idle"] /\ item' = [item EXCEPT ![p] = 0]
        /\ ticket' = [ticket EXCEPT ![p] = 0] /\ kept' = [kept EXCEPT ![p] = NoRemote]
    BY <1>1 DEF Remote!Leave, Remote!Goto
  <2>2. /\ i \in Trial /\ rcalls[i] = 1 /\ kept[p] \in RemoteReceipt
        /\ ranswered[i] = kept[p] /\ kept[p].epoch = epoch[i] /\ AtCall(p)
    BY <1>1 DEF RemoteInv, ProcessInv, ProcessOK, AtCall
  <2>3. RemoteTypes'
    BY <1>1, <2>1, <2>2, BridgeAssumption, JournalAssumption
    DEF RemoteInv, RemoteTypes, RemotePC, Remote!State
  <2>4. ASSUME NEW q \in Proc PROVE ProcessOK(q)'
    BY <1>1, <2>1, <2>2 DEF RemoteInv, RemoteTypes, ProcessInv, ProcessOK, OneCaller, AtCall
  <2>5. OneCaller' /\ RemoteRowInv' /\ RemoteKeeps
    BY <1>1, <2>1, <2>2 DEF RemoteInv, RemoteTypes, OneCaller, RemoteRowInv, AtCall, RemoteKeeps
  <2> QED BY <2>3, <2>4, <2>5 DEF RemoteInv, ProcessInv
<1>2. CASE Remote!Leave(p) /\ UNCHANGED <<state, epoch, receipt, rcalls, ranswered>>
  BY <1>2, RemoteLeave
<1> QED BY <1>1, <1>2 DEF Remote!Settle, Remote!NotSettled, Remote!Complete, Remote!Locked, Remote!Become,
     Remote!world, Remote!settlement, Remote!lease, Remote!vars, Remote!work

\* A step of the queue's own on the rows of S: each is counted up and queued,
\* cancelled or found ambiguous, according to what it was.
LEMMA RemoteRelease ==
    ASSUME RemoteInv, NEW S \in SUBSET Trial,
           \A t \in Trial \ S : state'[t] = state[t] /\ epoch'[t] = epoch[t],
           \A t \in S : /\ epoch'[t] = epoch[t] + 1
                        /\ \/ state[t] \in {"queued", "leased"} /\ state'[t] \in {"queued", "cancelled"}
                           \/ /\ state[t] \in {"dispatched", "reconciliation_required"}
                              /\ state'[t] = "reconciliation_required",
           state' \in [Trial -> Remote!State], epoch' \in [Trial -> Nat],
           UNCHANGED <<receipt, rpc, item, ticket, kept, rcalls, ranswered>>
    PROVE  RemoteInv' /\ RemoteKeeps
<1>1. RemoteTypes'
  BY DEF RemoteInv, RemoteTypes
<1>2. ASSUME NEW q \in Proc PROVE ProcessOK(q)'
  BY DEF RemoteInv, RemoteTypes, ProcessInv, ProcessOK, AtCall
<1>3. OneCaller' /\ RemoteRowInv' /\ RemoteKeeps
  BY DEF RemoteInv, RemoteTypes, OneCaller, RemoteRowInv, AtCall, RemoteKeeps
<1> QED BY <1>1, <1>2, <1>3 DEF RemoteInv, ProcessInv

LEMMA RemoteSweep ==
    ASSUME RemoteInv, Remote!Sweep
    PROVE  RemoteInv' /\ RemoteKeeps
<1> DEFINE S == {i \in Trial : state[i] \in {"leased", "dispatched"} /\ ~live[i]}
<1>1. S = Remote!Expired
  BY DEF Remote!Expired, Remote!Item, Trial
<1>2. /\ state' = [i \in Trial |-> IF i \in S
                     THEN IF state[i] = "leased" THEN "queued" ELSE "reconciliation_required"
                     ELSE state[i]]
      /\ epoch' = [i \in Trial |-> IF i \in S THEN epoch[i] + 1 ELSE epoch[i]]
      /\ UNCHANGED <<receipt, rpc, item, ticket, kept, rcalls, ranswered>>
  BY <1>1 DEF Remote!Sweep, Remote!Reconcile, Remote!Item, Trial, Remote!settlement,
     Remote!memory, Remote!world
<1>3. state' \in [Trial -> Remote!State] /\ epoch' \in [Trial -> Nat]
  BY <1>2 DEF RemoteInv, RemoteTypes, Remote!State
<1> QED BY <1>2, <1>3, RemoteRelease DEF RemoteInv, RemoteTypes

LEMMA RemoteCancel ==
    ASSUME RemoteInv, NEW t \in Trial, Remote!Cancel(t),
           UNCHANGED <<rpc, item, ticket, kept, rcalls, ranswered>>
    PROVE  RemoteInv' /\ RemoteKeeps
<1>1. /\ state[t] \in {"queued", "leased", "dispatched", "reconciliation_required"}
      /\ state' = [state EXCEPT ![t] = IF state[t] \in {"queued", "leased"}
                     THEN "cancelled" ELSE "reconciliation_required"]
      /\ epoch' = [epoch EXCEPT ![t] = @ + 1]
      /\ UNCHANGED receipt
  BY DEF Remote!Cancel, Remote!Become, Remote!Bump, Remote!settlement, RemoteInv, RemoteTypes,
     Remote!State
<1>2. state' \in [Trial -> Remote!State] /\ epoch' \in [Trial -> Nat]
  BY <1>1 DEF RemoteInv, RemoteTypes, Remote!State
<1>3. \A u \in Trial \ {t} : state'[u] = state[u] /\ epoch'[u] = epoch[u]
  BY <1>1 DEF RemoteInv, RemoteTypes
<1>4. \A u \in {t} :
          /\ epoch'[u] = epoch[u] + 1
          /\ \/ state[u] \in {"queued", "leased"} /\ state'[u] \in {"queued", "cancelled"}
             \/ /\ state[u] \in {"dispatched", "reconciliation_required"}
                /\ state'[u] = "reconciliation_required"
  BY <1>1 DEF RemoteInv, RemoteTypes
<1>5. {t} \in SUBSET Trial
  OBVIOUS
<1> QED BY <1>1, <1>2, <1>3, <1>4, <1>5, RemoteRelease

\* enqueue(): a row nobody knows of has no process.
LEMMA RemoteEnqueue ==
    ASSUME RemoteInv, NEW t \in Trial, Remote!Enqueue(t),
           UNCHANGED <<rpc, item, ticket, kept, rcalls, ranswered>>
    PROVE  /\ RemoteInv' /\ state' = [state EXCEPT ![t] = "queued"] /\ state[t] = "absent"
           /\ UNCHANGED <<receipt, rcalls>>
<1>1. /\ state[t] = "absent" /\ state' = [state EXCEPT ![t] = "queued"]
      /\ UNCHANGED <<epoch, receipt>>
  BY DEF Remote!Enqueue, Remote!Become, Remote!lease, Remote!settlement
<1>2. RemoteTypes'
  BY <1>1 DEF RemoteInv, RemoteTypes, Remote!State
<1>3. ASSUME NEW q \in Proc PROVE ProcessOK(q)'
  BY <1>1 DEF RemoteInv, RemoteTypes, ProcessInv, ProcessOK, AtCall
<1>4. OneCaller' /\ RemoteRowInv'
  BY <1>1 DEF RemoteInv, RemoteTypes, OneCaller, RemoteRowInv, AtCall
<1> QED BY <1>1, <1>2, <1>3, <1>4 DEF RemoteInv, ProcessInv

\* A step that touches neither a row, but for its lease, nor a process.
LEMMA RemoteStays ==
    ASSUME RemoteInv,
           UNCHANGED <<state, epoch, receipt, rpc, item, ticket, kept, rcalls, ranswered>>
    PROVE  RemoteInv' /\ RemoteKeeps
<1>1. RemoteTypes' /\ OneCaller' /\ RemoteRowInv' /\ RemoteKeeps
  BY DEF RemoteInv, RemoteTypes, OneCaller, AtCall, RemoteRowInv, RemoteKeeps
<1>2. ProcessInv'
  BY DEF RemoteInv, ProcessInv, ProcessOK, AtCall
<1> QED BY <1>1, <1>2 DEF RemoteInv

LEMMA RemoteStep ==
    ASSUME RemoteInv, RemoteRun
    PROVE  RemoteInv' /\ RemoteKeeps
<1> USE DEF Remote!vars, Remote!account, Remote!work, Remote!lease, Remote!settlement,
        Remote!memory, Remote!world
<1>1. ASSUME NEW p \in Proc, Remote!Start(p) PROVE RemoteInv' /\ RemoteKeeps
  BY <1>1, RemoteStart
<1>2. ASSUME NEW p \in Proc, Remote!Advance(p) PROVE RemoteInv' /\ RemoteKeeps
  <2>1. CASE Remote!StartDispatch(p)
    BY <2>1, RemoteDispatch
  <2>2. CASE Remote!Invoke(p)
    BY <2>2, RemoteInvoke
  <2>3. CASE Remote!GiveBack(p)
    BY <2>3 DEF Remote!GiveBack, RemoteInv, RemoteTypes, RemotePC
  <2>4. CASE \E a \in Answer : Remote!Return(p, a)
    BY <2>4, RemoteReturn
  <2>5. CASE Remote!WalkAway(p)
    BY <2>5, RemoteLeave DEF Remote!WalkAway
  <2>6. CASE Remote!Settle(p)
    BY <2>6, RemoteSettle
  <2>7. CASE Remote!CleanUp(p)
    BY <2>7 DEF Remote!CleanUp, RemoteInv, RemoteTypes, RemotePC
  <2> QED BY <1>2, <2>1, <2>2, <2>3, <2>4, <2>5, <2>6, <2>7 DEF Remote!Advance
<1>3. ASSUME NEW p \in Proc, Remote!Notice(p) PROVE RemoteInv' /\ RemoteKeeps
  BY <1>3, RemoteStays DEF Remote!Notice
<1>4. ASSUME NEW p \in Proc, Remote!Crash(p) PROVE RemoteInv' /\ RemoteKeeps
  BY <1>4, RemoteLeave DEF Remote!Crash
<1>5. ASSUME NEW i \in Trial, Remote!RunOut(i) \/ Remote!LateHeartbeat(i)
      PROVE  RemoteInv' /\ RemoteKeeps
  BY <1>5, RemoteStays DEF Remote!RunOut, Remote!LateHeartbeat, Remote!Expire
<1>6. CASE Remote!Sweep
  BY <1>6, RemoteSweep
<1> QED BY <1>1, <1>2, <1>3, <1>4, <1>5, <1>6 DEF RemoteRun
-----------------------------------------------------------------------------
\* The local side

\* The remote variables the invariant speaks of.
far == <<state, epoch, receipt, rpc, item, ticket, kept, rcalls, ranswered>>
\* What is durable here, but for the artifacts.
marks == <<row, obs, res, pointer, calls, answered, report>>

MarksHold == MarkTypes /\ RowsAgree /\ HomeInv /\ PublishedInv

LEMMA CollectedIs ==
    ASSUME MarkTypes, RemoteInv, NEW t \in Trial, state[t] = "completed"
    PROVE  /\ Collected(t) = [call |-> calls[t] + 1, answer |-> receipt[t].answer]
           /\ Collected(t) \in Receipt /\ Collected(t) # NoReceipt
<1>1. calls[t] \in {0, 1} /\ rcalls[t] = 1 /\ receipt[t] \in [epoch : 1..MaxEpoch, answer : Answer]
  BY DEF MarkTypes, RemoteInv, RemoteRowInv, RemoteReceipt
<1>2. Collected(t) = [call |-> calls[t] + 1, answer |-> receipt[t].answer]
  BY <1>1 DEF Collected
<1>3. receipt[t].answer \in Answer
  BY <1>1
<1> QED BY <1>1, <1>2, <1>3 DEF Receipt, NoReceipt

LEMMA ResultOfIs ==
    ASSUME NEW r \in Receipt
    PROVE  ResultOf(r) \in Result /\ ResultOf(r).of = r
BY DEF ResultOf, Result, Outcome, Grade

\* Nothing durable moves here, and what settled remotely stays.
LEMMA MarksStay ==
    ASSUME BridgeIInv, RemoteInv',
           UNCHANGED <<marks>>, artifacts \subseteq artifacts',
           \A t \in Trial : state[t] = "completed" =>
               state'[t] = "completed" /\ receipt'[t] = receipt[t] /\ rcalls'[t] = rcalls[t],
           \A t \in Trial : row[t] \in {"queued", "cancelled"} => state'[t] = state[t]
    PROVE  /\ MarksHold'
           /\ \A t \in Trial : state[t] = "completed" => Collected(t)' = Collected(t)
           /\ \A t \in Trial : ResultOf(pointer[t])' = ResultOf(pointer[t])
<1>1. \A t \in Trial : state[t] = "completed" => Collected(t)' = Collected(t)
  BY DEF Collected, marks
<1>2. \A t \in Trial : ResultOf(pointer[t])' = ResultOf(pointer[t])
  BY DEF ResultOf, Grade, marks
<1>3. MarkTypes' /\ RowsAgree' /\ PublishedInv'
  BY DEF BridgeIInv, MarkTypes, RowsAgree, PublishedInv, marks
<1>4. HomeInv'
  BY <1>1, <1>2 DEF BridgeIInv, HomeInv, marks
<1> QED BY <1>1, <1>2, <1>3, <1>4 DEF MarksHold

\* One row moves, not from completed and not back to queued.
LEMMA MarkMoves ==
    ASSUME BridgeIInv, NEW t \in Trial, NEW to \in State \ {"queued"}, NEW o, NEW r,
           Transition(t, row[t], to, o, r), row[t] # "completed",
           to = "cancelled" => state[t] \in {"absent", "cancelled"},
           IF to \in {"observed", "completed"}
             THEN pointer[t] # NoReceipt /\ o = pointer[t] ELSE o = NoReceipt,
           IF to = "completed"
             THEN r = ResultOf(pointer[t]) /\ <<t, r>> \in artifacts ELSE r = NoResult,
           UNCHANGED <<far, pointer, calls, answered, report, artifacts>>
    PROVE  /\ MarksHold' /\ RemoteInv'
           /\ row' = [row EXCEPT ![t] = to]
           /\ \A u \in Trial : Collected(u)' = Collected(u)
           /\ \A u \in Trial : ResultOf(pointer[u])' = ResultOf(pointer[u])
<1>1. \A u \in Trial : Collected(u)' = Collected(u)
  BY DEF Collected, far
<1>2. \A u \in Trial : ResultOf(pointer[u])' = ResultOf(pointer[u])
  BY DEF ResultOf, Grade
<1>3. RemoteInv'
  BY RemoteStays DEF BridgeIInv, far
<1>4. /\ row' = [row EXCEPT ![t] = to] /\ obs' = [obs EXCEPT ![t] = o]
      /\ res' = [res EXCEPT ![t] = r]
  BY DEF Transition
<1>5. o \in Receipt \cup {NoReceipt} /\ r \in Result \cup {NoResult}
  BY ResultOfIs DEF BridgeIInv, MarkTypes
<1>6. MarkTypes'
  BY <1>4, <1>5 DEF BridgeIInv, MarkTypes
<1>7. RowsAgree'
  BY <1>4 DEF BridgeIInv, MarkTypes, RowsAgree, far
<1>8. HomeInv'
  BY <1>1, <1>2, <1>4 DEF BridgeIInv, MarkTypes, HomeInv, far
<1>9. report = {}
  BY DEF BridgeIInv, PublishedInv
<1>10. PublishedInv'
  BY <1>9 DEF PublishedInv
<1> QED BY <1>1, <1>2, <1>3, <1>4, <1>6, <1>7, <1>8, <1>10 DEF MarksHold

\* The session at work is alone, and stays so.
LEMMA SessionMoves ==
    ASSUME BridgeIInv, NEW w \in Workers,
           lock = NoWorker \/ pc[w] # "idle" \/ duty[w] # "none",
           \A q \in Workers \ {w} : pc'[q] = pc[q] /\ duty'[q] = duty[q],
           \/ lock' = NoWorker /\ pc'[w] = "idle" /\ duty'[w] = "none"
           \/ lock' = w /\ pc'[w] # "idle" /\ duty'[w] = "none"
           \/ lock' = w /\ pc'[w] = "idle" /\ duty'[w] # "none",
           DutyOK(w)'
    PROVE  ExclusiveInv' /\ DutyInv'
<1>1. \A q \in Workers \ {w} : pc'[q] = "idle" /\ duty'[q] = "none"
  BY JournalAssumption DEF BridgeIInv, ExclusiveInv
<1>2. ExclusiveInv'
  BY <1>1, JournalAssumption DEF ExclusiveInv
<1>3. ASSUME NEW q \in Workers PROVE DutyOK(q)'
  <2>1. CASE q = w
    BY <2>1
  <2>2. CASE q # w
    BY <1>1, <2>2 DEF DutyOK, Collecting, Calling
  <2> QED BY <2>1, <2>2
<1> QED BY <1>2, <1>3 DEF DutyInv

\* What is stored can be read, so that no status and no recovery is refused.
LEMMA AlwaysReadable ==
    ASSUME BridgeIInv
    PROVE  /\ \A t \in Trial : pointer[t] # NoReceipt => Readable(t)
           /\ Verified /\ Recoverable
<1>1. \A t \in Trial : pointer[t] # NoReceipt => Readable(t)
  BY DEF BridgeIInv, HomeInv, Readable
<1>2. ASSUME NEW t \in Trial, row[t] = "completed" PROVE ResultReadable(t)
  <2>1. pointer[t] # NoReceipt /\ res[t] = ResultOf(pointer[t]) /\ <<t, res[t]>> \in artifacts
    BY <1>2 DEF BridgeIInv, HomeInv
  <2>2. pointer[t] \in Receipt
    BY <2>1 DEF BridgeIInv, MarkTypes
  <2> QED BY <1>1, <2>1, <2>2, ResultOfIs DEF ResultReadable
<1>3. \A t \in Trial : /\ row[t] = "observed" => Readable(t)
                       /\ row[t] = "queued" => pointer[t] = NoReceipt
  BY <1>1 DEF BridgeIInv, HomeInv, RowsAgree
<1>4. Verified
  BY <1>2, <1>3 DEF Verified
<1>5. Recoverable
  BY <1>1 DEF Recoverable
<1> QED BY <1>1, <1>4, <1>5

LEMMA Holder ==
    ASSUME BridgeIInv, NEW w \in Workers
    PROVE  /\ duty[w] # "none" => lock = w /\ pc[w] = "idle"
           /\ pc[w] # "idle" => lock = w /\ duty[w] = "none"
BY DEF BridgeIInv, ExclusiveInv

\* A session's step that moves no row.
LEMMA QuietStep ==
    ASSUME BridgeIInv, NEW w \in Workers,
           lock = NoWorker \/ pc[w] # "idle" \/ duty[w] # "none",
           \A q \in Workers \ {w} : pc'[q] = pc[q] /\ duty'[q] = duty[q],
           \/ lock' = NoWorker /\ pc'[w] = "idle" /\ duty'[w] = "none"
           \/ lock' = w /\ pc'[w] # "idle" /\ duty'[w] = "none"
           \/ lock' = w /\ pc'[w] = "idle" /\ duty'[w] # "none",
           UNCHANGED <<far, marks>>, artifacts \subseteq artifacts',
           SeatTypes', DutyOK(w)'
    PROVE  BridgeIInv'
<1>1. RemoteInv'
  BY RemoteStays DEF BridgeIInv, far
<1>2. MarksHold'
  BY <1>1, MarksStay DEF far
<1>3. ExclusiveInv' /\ DutyInv'
  BY SessionMoves
<1> QED BY <1>1, <1>2, <1>3 DEF BridgeIInv, MarksHold

\* A session's step that moves one row.
LEMMA RowStep ==
    ASSUME BridgeIInv, NEW w \in Workers, pc[w] # "idle" \/ duty[w] # "none",
           \A q \in Workers \ {w} : pc'[q] = pc[q] /\ duty'[q] = duty[q],
           \/ lock' = w /\ pc'[w] # "idle" /\ duty'[w] = "none"
           \/ lock' = w /\ pc'[w] = "idle" /\ duty'[w] # "none",
           MarksHold', RemoteInv', SeatTypes', DutyOK(w)'
    PROVE  BridgeIInv'
<1>1. ExclusiveInv' /\ DutyInv'
  BY SessionMoves
<1> QED BY <1>1 DEF BridgeIInv, MarksHold

-----------------------------------------------------------------------------
\* Sessions of the bridge

LEMMA BeginStep ==
    ASSUME BridgeIInv, NEW w \in Workers, NEW d \in {"check", "collect", "cancel"},
           Begin(w, d)
    PROVE  BridgeIInv'
<1>1. /\ lock = NoWorker /\ lock' = w /\ pc[w] = "idle"
      /\ at' = [at EXCEPT ![w] = 1] /\ duty' = [duty EXCEPT ![w] = d]
      /\ UNCHANGED <<far, marks, artifacts, pc, held, end>>
  BY DEF Begin, Do, rows, files, local, history, queue, fleet, far, marks
<1>2. SeatTypes'
  BY <1>1, JournalAssumption DEF BridgeIInv, SeatTypes, Duty
<1>3. DutyOK(w)'
  BY <1>1 DEF BridgeIInv, SeatTypes, DutyOK, Collecting, Calling
<1> QED BY <1>1, <1>2, <1>3, QuietStep DEF BridgeIInv, SeatTypes

\* A session that returns, raises or dies leaves nothing undone that matters.
LEMMA EndStep ==
    ASSUME BridgeIInv, NEW w \in Workers, duty[w] # "none", End(w),
           UNCHANGED <<far, marks, artifacts, pc, held, end>>
    PROVE  BridgeIInv'
<1>1. /\ lock' = NoWorker /\ pc[w] = "idle"
      /\ at' = [at EXCEPT ![w] = 1] /\ duty' = [duty EXCEPT ![w] = "none"]
  BY Holder DEF End, Do
<1>2. SeatTypes'
  BY <1>1, JournalAssumption DEF BridgeIInv, SeatTypes, Duty
<1>3. DutyOK(w)'
  BY <1>1 DEF BridgeIInv, SeatTypes, DutyOK, Collecting, Calling
<1> QED BY <1>1, <1>2, <1>3, QuietStep DEF BridgeIInv, SeatTypes

LEMMA SubmitCheckStep ==
    ASSUME BridgeIInv, NEW w \in Workers, SubmitCheck(w)
    PROVE  BridgeIInv'
<1>1. /\ duty[w] = "check" /\ lock = w /\ pc[w] = "idle"
      /\ UNCHANGED <<far, marks, artifacts, pc, held, end>>
  BY Holder DEF SubmitCheck, rows, files, local, history, queue, fleet, far, marks
<1>2. CASE End(w)
  BY <1>1, <1>2, EndStep
<1>3. CASE duty' = [duty EXCEPT ![w] = "submit"] /\ UNCHANGED <<lock, at>>
  <2>1. SeatTypes'
    BY <1>1, <1>3 DEF BridgeIInv, SeatTypes, Duty
  <2>2. DutyOK(w)'
    BY <1>1, <1>3 DEF BridgeIInv, SeatTypes, DutyOK, Collecting, Calling, Trial
  <2> QED BY <1>1, <1>3, <2>1, <2>2, QuietStep DEF BridgeIInv, SeatTypes
<1> QED BY <1>1, <1>2, <1>3 DEF SubmitCheck, Do

LEMMA SubmitRowStep ==
    ASSUME BridgeIInv, NEW w \in Workers, SubmitRow(w)
    PROVE  BridgeIInv'
<1> DEFINE t == at[w]
<1>1. /\ duty[w] = "submit" /\ lock' = w /\ pc[w] = "idle" /\ t \in Trial
      /\ UNCHANGED <<far, pointer, calls, answered, report, artifacts, pc, held, end>>
  BY Holder DEF SubmitRow, rows, files, local, history, queue, fleet, far, BridgeIInv,
     DutyInv, DutyOK
<1>2. CASE /\ row[t] \in {"completed", "observed", "cancelled"}
           /\ at' = [at EXCEPT ![w] = t + 1] /\ UNCHANGED <<row, obs, res, duty>>
  <2>1. SeatTypes'
    BY <1>1, <1>2, JournalAssumption DEF BridgeIInv, SeatTypes, Trial
  <2>2. DutyOK(w)'
    BY <1>1, <1>2 DEF BridgeIInv, SeatTypes, DutyOK, Collecting, Calling, Trial
  <2> QED BY <1>1, <1>2, <2>1, <2>2, QuietStep DEF marks
<1>3. CASE /\ row[t] \in {"running", "reconciliation_required"}
           /\ duty' = [duty EXCEPT ![w] = "enqueue"] /\ UNCHANGED <<row, obs, res, at>>
  <2>1. SeatTypes'
    BY <1>1, <1>3 DEF BridgeIInv, SeatTypes, Duty
  <2>2. DutyOK(w)'
    BY <1>1, <1>3 DEF BridgeIInv, SeatTypes, DutyOK, Collecting, Calling
  <2> QED BY <1>1, <1>3, <2>1, <2>2, QuietStep DEF BridgeIInv, SeatTypes, marks
<1>4. CASE /\ Transition(t, "queued", "running", NoReceipt, NoResult)
           /\ duty' = [duty EXCEPT ![w] = "enqueue"] /\ UNCHANGED at
  <2>1. row[t] = "queued" /\ Transition(t, row[t], "running", NoReceipt, NoResult)
    BY <1>4 DEF Transition
  <2>2. MarksHold' /\ RemoteInv' /\ row' = [row EXCEPT ![t] = "running"]
    BY <1>1, <2>1, MarkMoves DEF State
  <2>3. SeatTypes'
    BY <1>1, <1>4 DEF BridgeIInv, SeatTypes, Duty
  <2>4. DutyOK(w)'
    BY <1>1, <1>4, <2>2 DEF BridgeIInv, SeatTypes, MarkTypes, DutyOK, Collecting, Calling
  <2> QED BY <1>1, <1>4, <2>2, <2>3, <2>4, RowStep DEF BridgeIInv, SeatTypes
<1> QED BY <1>1, <1>2, <1>3, <1>4 DEF SubmitRow, GoOn, Do, rows

LEMMA EnqueueRowStep ==
    ASSUME BridgeIInv, NEW w \in Workers, EnqueueRow(w)
    PROVE  BridgeIInv'
<1> DEFINE t == at[w]
<1>1. /\ duty[w] = "enqueue" /\ lock' = w /\ pc[w] = "idle" /\ t \in Trial
      /\ row[t] \in {"running", "reconciliation_required"}
      /\ at' = [at EXCEPT ![w] = t + 1] /\ duty' = [duty EXCEPT ![w] = "submit"]
      /\ UNCHANGED <<marks, artifacts, pc, held, end>>
      /\ UNCHANGED <<rpc, item, ticket, kept, rcalls, ranswered>>
  BY Holder DEF EnqueueRow, GoOn, Do, rows, files, local, history, fleet, marks, BridgeIInv,
     DutyInv, DutyOK
<1>2. /\ RemoteInv'
      /\ \A u \in Trial \ {t} : state'[u] = state[u]
      /\ \A u \in Trial : state[u] = "completed" =>
             state'[u] = "completed" /\ receipt'[u] = receipt[u] /\ rcalls'[u] = rcalls[u]
  <2>1. CASE Remote!Enqueue(t)
    BY <1>1, <2>1, RemoteEnqueue DEF BridgeIInv, RemoteInv, RemoteTypes
  <2>2. CASE UNCHANGED queue
    BY <1>1, <2>2, RemoteStays DEF BridgeIInv, queue
  <2> QED BY <2>1, <2>2 DEF EnqueueRow
<1>3. MarksHold'
  BY <1>1, <1>2, MarksStay
<1>4. SeatTypes'
  BY <1>1, JournalAssumption DEF BridgeIInv, SeatTypes, Duty, Trial
<1>5. DutyOK(w)'
  BY <1>1 DEF BridgeIInv, SeatTypes, DutyOK, Collecting, Calling, Trial, marks
<1> QED BY <1>1, <1>2, <1>3, <1>4, <1>5, RowStep DEF BridgeIInv, SeatTypes

LEMMA SubmitDoneStep ==
    ASSUME BridgeIInv, NEW w \in Workers, SubmitDone(w)
    PROVE  BridgeIInv'
BY EndStep DEF SubmitDone, rows, files, local, history, queue, fleet, far, marks

LEMMA CollectRowStep ==
    ASSUME BridgeIInv, NEW w \in Workers, CollectRow(w)
    PROVE  BridgeIInv'
<1> DEFINE t == at[w]
<1>1. /\ duty[w] = "collect" /\ lock = w /\ pc[w] = "idle" /\ t \in Trial
      /\ UNCHANGED <<far, marks, artifacts, pc, held, end>>
  BY Holder DEF CollectRow, rows, files, local, history, queue, fleet, far, marks
<1>2. CASE End(w)
  BY <1>1, <1>2, EndStep
<1>3. CASE at' = [at EXCEPT ![w] = t + 1] /\ UNCHANGED <<duty, lock>>
  <2>1. SeatTypes'
    BY <1>1, <1>3, JournalAssumption DEF BridgeIInv, SeatTypes, Trial
  <2>2. DutyOK(w)'
    BY <1>1, <1>3 DEF BridgeIInv, SeatTypes, DutyOK, Collecting, Calling
  <2> QED BY <1>1, <1>3, <2>1, <2>2, QuietStep
<1>4. CASE /\ row[t] # "completed" /\ state[t] = "completed"
           /\ duty' = [duty EXCEPT ![w] = "store"] /\ UNCHANGED <<lock, at>>
  <2>1. SeatTypes'
    BY <1>1, <1>4 DEF BridgeIInv, SeatTypes, Duty
  <2>2. DutyOK(w)'
    BY <1>1, <1>4 DEF BridgeIInv, SeatTypes, DutyOK, Collecting, Calling, far, marks
  <2> QED BY <1>1, <1>4, <2>1, <2>2, QuietStep DEF BridgeIInv, SeatTypes
<1> QED BY <1>1, <1>2, <1>3, <1>4 DEF CollectRow, GoOn, Do

LEMMA CollectStoreStep ==
    ASSUME BridgeIInv, NEW w \in Workers, CollectStore(w)
    PROVE  BridgeIInv'
<1> DEFINE t == at[w]
<1>1. /\ duty[w] = "store" /\ lock = w /\ lock' = w /\ pc[w] = "idle"
      /\ t \in Trial /\ state[t] = "completed" /\ row[t] # "completed"
      /\ artifacts' = artifacts \cup {<<t, Collected(t)>>}
      /\ duty' = [duty EXCEPT ![w] = "point"]
      /\ UNCHANGED <<far, marks, pc, at, held, end>>
  BY Holder DEF CollectStore, Do, rows, local, history, queue, fleet, far, marks, BridgeIInv,
     DutyInv, DutyOK, Collecting, Calling
<1>2. SeatTypes'
  BY <1>1 DEF BridgeIInv, SeatTypes, Duty
<1>3. Collected(t)' = Collected(t)
  BY <1>1 DEF Collected, far, marks
<1>4. DutyOK(w)'
  BY <1>1, <1>3 DEF BridgeIInv, SeatTypes, DutyOK, Collecting, Calling, far, marks
<1> QED BY <1>1, <1>2, <1>4, QuietStep DEF BridgeIInv, SeatTypes

LEMMA CollectPointStep ==
    ASSUME BridgeIInv, NEW w \in Workers, CollectPoint(w),
           MayPoint(at[w], Collected(at[w]))
    PROVE  BridgeIInv'
<1> DEFINE t == at[w]
<1>1. /\ duty[w] = "point" /\ lock' = w /\ pc[w] = "idle"
      /\ t \in Trial /\ state[t] = "completed" /\ row[t] # "completed"
      /\ <<t, Collected(t)>> \in artifacts
      /\ pointer[t] \in {NoReceipt, Collected(t)}
      /\ pointer' = [pointer EXCEPT ![t] = Collected(t)]
      /\ duty' = [duty EXCEPT ![w] = "recover"]
      /\ UNCHANGED <<far, row, obs, res, calls, answered, report, artifacts, pc, at, held, end>>
  BY Holder DEF CollectPoint, MayPoint, Do, rows, local, history, queue, fleet, far, BridgeIInv,
     DutyInv, DutyOK, Collecting, Calling
<1>2. Collected(t) \in Receipt /\ Collected(t) # NoReceipt
  BY <1>1, CollectedIs DEF BridgeIInv
<1>3. \A u \in Trial : Collected(u)' = Collected(u)
  BY <1>1 DEF Collected, far
<1>4. \A u \in Trial : row[u] = "completed" =>
          u # t /\ pointer'[u] = pointer[u] /\ ResultOf(pointer[u])' = ResultOf(pointer[u])
  BY <1>1 DEF BridgeIInv, MarkTypes, ResultOf, Grade
<1>5. MarkTypes' /\ RowsAgree' /\ PublishedInv'
  BY <1>1, <1>2 DEF BridgeIInv, MarkTypes, RowsAgree, PublishedInv, far
<1>6. HomeInv'
  <2>1. ASSUME NEW u \in Trial
        PROVE  /\ pointer'[u] # NoReceipt =>
                     /\ \/ calls'[u] = 1 /\ pointer'[u] = answered'[u]
                        \/ state'[u] = "completed" /\ pointer'[u] = Collected(u)'
                     /\ <<u, pointer'[u]>> \in artifacts'
               /\ IF row'[u] \in {"observed", "completed"}
                    THEN pointer'[u] # NoReceipt /\ obs'[u] = pointer'[u]
                    ELSE obs'[u] = NoReceipt
    BY <1>1, <1>2, <1>3 DEF BridgeIInv, MarkTypes, HomeInv, far
  <2>2. \A u \in Trial : row'[u] = "completed" =>
            res'[u] = ResultOf(pointer[u])' /\ <<u, res'[u]>> \in artifacts'
    BY <1>1, <1>4 DEF BridgeIInv, HomeInv
  <2> QED BY <2>1, <2>2 DEF HomeInv
<1>7. RemoteInv'
  BY <1>1, RemoteStays DEF BridgeIInv, far
<1>8. SeatTypes'
  BY <1>1 DEF BridgeIInv, SeatTypes, Duty
<1>9. DutyOK(w)'
  BY <1>1, <1>2 DEF BridgeIInv, SeatTypes, MarkTypes, DutyOK, Collecting, Calling, far
<1> QED BY <1>1, <1>5, <1>6, <1>7, <1>8, <1>9, RowStep DEF BridgeIInv, SeatTypes, MarksHold

\* A receipt is in the way: the same error, or a conflict.
LEMMA CollectConflictStep ==
    ASSUME BridgeIInv, NEW w \in Workers, CollectPoint(w),
           ~MayPoint(at[w], Collected(at[w]))
    PROVE  BridgeIInv'
<1> DEFINE t == at[w]
<1>1. /\ duty[w] = "point" /\ lock = w /\ pc[w] = "idle"
      /\ t \in Trial /\ state[t] = "completed" /\ row[t] # "completed"
      /\ pointer[t] # NoReceipt
      /\ UNCHANGED <<far, marks, artifacts, pc, held, end>>
  BY Holder DEF CollectPoint, MayPoint, rows, local, history, queue, fleet, far, marks, BridgeIInv,
     DutyInv, DutyOK, Collecting, Calling
<1>2. CASE End(w)
  BY <1>1, <1>2, EndStep
<1>3. CASE duty' = [duty EXCEPT ![w] = "recover"] /\ UNCHANGED <<lock, at>>
  <2>1. SeatTypes'
    BY <1>1, <1>3 DEF BridgeIInv, SeatTypes, Duty
  <2>2. DutyOK(w)'
    BY <1>1, <1>3 DEF BridgeIInv, SeatTypes, DutyOK, Collecting, Calling, far, marks
  <2> QED BY <1>1, <1>3, <2>1, <2>2, QuietStep DEF BridgeIInv, SeatTypes
<1> QED BY <1>2, <1>3 DEF CollectPoint, Do

\* recover() observes what came back, row by row, and what ran and did not is
\* ambiguous.
LEMMA RecoverAllMoves ==
    ASSUME BridgeIInv, RecoverAll,
           UNCHANGED <<far, pointer, calls, answered, report, artifacts>>
    PROVE  /\ MarksHold' /\ RemoteInv'
           /\ \A t \in Trial : /\ row[t] = "observed" => row'[t] = "observed"
                               /\ pointer[t] # NoReceipt /\ state[t] = "completed"
                                  /\ row[t] # "completed" => row'[t] = "observed"
<1> DEFINE To(t) ==
             IF row[t] \in {"running", "reconciliation_required"} /\ pointer[t] # NoReceipt
               THEN "observed"
             ELSE IF row[t] = "running" THEN "reconciliation_required"
             ELSE row[t]
<1>1. /\ row' = [t \in Trial |-> To(t)]
      /\ obs' = [t \in Trial |-> IF To(t) = "observed" THEN pointer[t] ELSE obs[t]]
      /\ res' = res
  BY DEF RecoverAll
<1>2. \A t \in Trial : state[t] = "completed" =>
          row[t] \in {"running", "reconciliation_required", "observed", "completed"}
  BY DEF BridgeIInv, MarkTypes, RowsAgree, State
<1>3. \A u \in Trial : Collected(u)' = Collected(u)
  BY DEF Collected, far
<1>4. \A u \in Trial : ResultOf(pointer[u])' = ResultOf(pointer[u])
  BY DEF ResultOf, Grade
<1>5. MarkTypes' /\ RowsAgree'
  BY <1>1 DEF BridgeIInv, MarkTypes, RowsAgree, State, far
<1>6. HomeInv'
  <2>1. ASSUME NEW t \in Trial
        PROVE  /\ row'[t] = To(t) /\ res'[t] = res[t]
               /\ obs'[t] = IF To(t) = "observed" THEN pointer[t] ELSE obs[t]
    BY <1>1
  <2>2. ASSUME NEW t \in Trial
        PROVE  IF row'[t] \in {"observed", "completed"}
                 THEN pointer'[t] # NoReceipt /\ obs'[t] = pointer'[t]
                 ELSE obs'[t] = NoReceipt
    BY <2>1 DEF BridgeIInv, HomeInv, MarkTypes, State
  <2> QED BY <1>1, <1>3, <1>4, <2>1, <2>2 DEF BridgeIInv, HomeInv, far
<1>7. PublishedInv'
  BY <1>1 DEF BridgeIInv, PublishedInv, MarkTypes
<1>8. RemoteInv'
  BY RemoteStays DEF BridgeIInv, far
<1>9. ASSUME NEW t \in Trial
      PROVE  /\ row[t] = "observed" => row'[t] = "observed"
             /\ pointer[t] # NoReceipt /\ state[t] = "completed" /\ row[t] # "completed" =>
                    row'[t] = "observed"
  BY <1>1, <1>2
<1> QED BY <1>5, <1>6, <1>7, <1>8, <1>9 DEF MarksHold

LEMMA CollectRecoverStep ==
    ASSUME BridgeIInv, NEW w \in Workers, CollectRecover(w)
    PROVE  BridgeIInv'
<1> DEFINE t == at[w]
<1>1. /\ duty[w] = "recover" /\ lock' = w /\ pc[w] = "idle"
      /\ t \in Trial /\ state[t] = "completed" /\ row[t] # "completed"
      /\ pointer[t] # NoReceipt /\ RecoverAll
      /\ duty' = [duty EXCEPT ![w] = "grade"]
      /\ UNCHANGED <<far, pointer, calls, answered, report, artifacts, pc, at, held, end>>
  BY Holder DEF CollectRecover, Do, files, local, history, queue, fleet, far, BridgeIInv,
     DutyInv, DutyOK, Collecting, Calling
<1>2. MarksHold' /\ RemoteInv' /\ row'[t] = "observed"
  BY <1>1, RecoverAllMoves
<1>3. SeatTypes'
  BY <1>1 DEF BridgeIInv, SeatTypes, Duty
<1>4. DutyOK(w)'
  BY <1>1, <1>2 DEF BridgeIInv, SeatTypes, DutyOK, Collecting, Calling, far
<1> QED BY <1>1, <1>2, <1>3, <1>4, RowStep DEF BridgeIInv, SeatTypes

LEMMA CollectGradeStep ==
    ASSUME BridgeIInv, NEW w \in Workers, CollectGrade(w)
    PROVE  BridgeIInv'
<1> DEFINE t == at[w]
<1>1. /\ duty[w] = "grade" /\ lock = w /\ lock' = w /\ pc[w] = "idle"
      /\ t \in Trial /\ state[t] = "completed" /\ row[t] = "observed"
      /\ pointer[t] # NoReceipt
      /\ artifacts' = artifacts \cup {<<t, ResultOf(pointer[t])>>}
      /\ duty' = [duty EXCEPT ![w] = "finalize"]
      /\ UNCHANGED <<far, marks, pc, at, held, end>>
  BY Holder DEF CollectGrade, Do, rows, local, history, queue, fleet, far, marks, BridgeIInv,
     DutyInv, DutyOK, Collecting, Calling
<1>2. SeatTypes'
  BY <1>1 DEF BridgeIInv, SeatTypes, Duty
<1>3. ResultOf(pointer[t])' = ResultOf(pointer[t])
  BY <1>1 DEF ResultOf, Grade, marks
<1>4. DutyOK(w)'
  BY <1>1, <1>3 DEF BridgeIInv, SeatTypes, DutyOK, Collecting, Calling, far, marks
<1> QED BY <1>1, <1>2, <1>4, QuietStep DEF BridgeIInv, SeatTypes

LEMMA CollectFinalizeStep ==
    ASSUME BridgeIInv, NEW w \in Workers, CollectFinalize(w)
    PROVE  BridgeIInv'
<1> DEFINE t == at[w]
<1>1. /\ duty[w] = "finalize" /\ lock' = w /\ pc[w] = "idle"
      /\ t \in Trial /\ row[t] = "observed" /\ pointer[t] # NoReceipt
      /\ <<t, ResultOf(pointer[t])>> \in artifacts
      /\ Transition(t, row[t], "completed", pointer[t], ResultOf(pointer[t]))
      /\ at' = [at EXCEPT ![w] = t + 1]
      /\ duty' = [duty EXCEPT ![w] = "collect"]
      /\ UNCHANGED <<far, pointer, calls, answered, report, artifacts, pc, held, end>>
  BY Holder DEF CollectFinalize, GoOn, Do, Transition, files, local, history, queue, fleet, far,
     BridgeIInv, DutyInv, DutyOK, Collecting, Calling
<1>2. MarksHold' /\ RemoteInv'
  BY <1>1, MarkMoves DEF State
<1>3. SeatTypes'
  BY <1>1, JournalAssumption DEF BridgeIInv, SeatTypes, Duty, Trial
<1>4. DutyOK(w)'
  BY <1>1 DEF BridgeIInv, SeatTypes, DutyOK, Collecting, Calling
<1> QED BY <1>1, <1>2, <1>3, <1>4, RowStep DEF BridgeIInv, SeatTypes

\* Status() says completed only of rows that all are.
LEMMA CompletedMeansAll ==
    ASSUME MarkTypes, Status = "completed"
    PROVE  \A t \in Trial : row[t] = "completed"
<1>1. {row[t] : t \in Trial} = {"completed"}
  BY DEF Status
<1> QED BY <1>1

\* The report is written of completed rows.
LEMMA ReportMoves ==
    ASSUME BridgeIInv, UNCHANGED <<far, row, obs, res, pointer, calls, answered, artifacts>>,
           \/ report' = report
           \/ report' = {<<t, res[t]>> : t \in Trial} /\ Status = "completed"
    PROVE  MarksHold' /\ RemoteInv'
<1>1. RemoteInv'
  BY RemoteStays DEF BridgeIInv, far
<1>2. MarkTypes' /\ RowsAgree' /\ HomeInv'
  BY DEF BridgeIInv, RowsAgree, MarkTypes, HomeInv, Collected, ResultOf, Grade, far
<1>3. PublishedInv'
  BY CompletedMeansAll DEF BridgeIInv, PublishedInv
<1> QED BY <1>1, <1>2, <1>3 DEF MarksHold

LEMMA CollectDoneStep ==
    ASSUME BridgeIInv, NEW w \in Workers, CollectDone(w)
    PROVE  BridgeIInv'
<1>1. /\ duty[w] = "collect" /\ lock' = NoWorker /\ pc[w] = "idle"
      /\ at' = [at EXCEPT ![w] = 1] /\ duty' = [duty EXCEPT ![w] = "none"]
      /\ UNCHANGED <<far, row, obs, res, pointer, calls, answered, artifacts, pc, held, end>>
  BY Holder DEF CollectDone, End, Do, rows, local, history, queue, fleet, far
<1>2. MarksHold' /\ RemoteInv'
  BY <1>1, ReportMoves DEF CollectDone
<1>3. SeatTypes'
  BY <1>1, JournalAssumption DEF BridgeIInv, SeatTypes, Duty
<1>4. DutyOK(w)'
  BY <1>1 DEF BridgeIInv, SeatTypes, DutyOK, Collecting, Calling
<1>5. ExclusiveInv' /\ DutyInv'
  BY <1>1, <1>4, SessionMoves DEF BridgeIInv, SeatTypes
<1> QED BY <1>2, <1>3, <1>5 DEF BridgeIInv, MarksHold

LEMMA CancelDoneStep ==
    ASSUME BridgeIInv, NEW w \in Workers, CancelDone(w)
    PROVE  BridgeIInv'
<1>1. /\ duty[w] = "cancel" /\ lock' = NoWorker /\ pc[w] = "idle" /\ RecoverAll
      /\ at' = [at EXCEPT ![w] = 1] /\ duty' = [duty EXCEPT ![w] = "none"]
      /\ UNCHANGED <<far, pointer, calls, answered, report, artifacts, pc, held, end>>
  BY Holder DEF CancelDone, End, Do, files, local, history, queue, fleet, far
<1>2. MarksHold' /\ RemoteInv'
  BY <1>1, RecoverAllMoves
<1>3. SeatTypes'
  BY <1>1, JournalAssumption DEF BridgeIInv, SeatTypes, Duty
<1>4. DutyOK(w)'
  BY <1>1 DEF BridgeIInv, SeatTypes, DutyOK, Collecting, Calling
<1>5. ExclusiveInv' /\ DutyInv'
  BY <1>1, <1>4, SessionMoves DEF BridgeIInv, SeatTypes
<1> QED BY <1>2, <1>3, <1>5 DEF BridgeIInv, MarksHold

\* cancel() of the row in the queue; only a row that is cancelled there, or was
\* never sent, is withdrawn here.
LEMMA CancelRowStep ==
    ASSUME BridgeIInv, NEW w \in Workers, CancelRow(w)
    PROVE  BridgeIInv'
<1> DEFINE t == at[w]
<1>1. /\ duty[w] = "cancel" /\ lock' = w /\ pc[w] = "idle" /\ t \in Trial
      /\ UNCHANGED <<marks, artifacts, pc, held, end>>
      /\ UNCHANGED <<rpc, item, ticket, kept, rcalls, ranswered>>
      /\ \/ at' = [at EXCEPT ![w] = t + 1] /\ duty' = duty
         \/ /\ at' = at /\ duty' = [duty EXCEPT ![w] = "withdraw"]
            /\ state'[t] \in {"absent", "cancelled"} /\ row[t] # "completed"
  BY Holder DEF CancelRow, GoOn, Do, rows, files, local, history, fleet, marks
<1>2. RemoteInv' /\ RemoteKeeps
  <2>1. CASE Remote!Cancel(t)
    BY <1>1, <2>1, RemoteCancel DEF BridgeIInv
  <2>2. CASE UNCHANGED queue
    BY <1>1, <2>2, RemoteStays DEF BridgeIInv, queue
  <2> QED BY <2>1, <2>2 DEF CancelRow
<1>3. \A u \in Trial : row[u] \in {"queued", "cancelled"} => state'[u] = state[u]
  BY <1>2 DEF BridgeIInv, RowsAgree, RemoteKeeps
<1>4. MarksHold'
  BY <1>1, <1>2, <1>3, MarksStay DEF RemoteKeeps, BridgeIInv, RemoteInv, RemoteTypes
<1>5. SeatTypes'
  <2>1. t + 1 \in 1..(N + 1)
    BY <1>1, JournalAssumption DEF Trial
  <2>2. at' \in [Workers -> 1..(N + 1)]
    BY <1>1, <2>1 DEF BridgeIInv, SeatTypes
  <2>3. duty' \in [Workers -> Duty]
    BY <1>1 DEF BridgeIInv, SeatTypes, Duty
  <2> QED BY <1>1, <2>2, <2>3 DEF BridgeIInv, SeatTypes
<1>6. DutyOK(w)'
  BY <1>1 DEF BridgeIInv, SeatTypes, DutyOK, Collecting, Calling, marks
<1> QED BY <1>1, <1>2, <1>4, <1>5, <1>6, RowStep DEF BridgeIInv, SeatTypes

LEMMA CancelLocalStep ==
    ASSUME BridgeIInv, NEW w \in Workers, CancelLocal(w)
    PROVE  BridgeIInv'
<1> DEFINE t == at[w]
<1>1. /\ duty[w] = "withdraw" /\ lock' = w /\ pc[w] = "idle"
      /\ t \in Trial /\ state[t] \in {"absent", "cancelled"} /\ row[t] # "completed"
      /\ Transition(t, row[t], "cancelled", NoReceipt, NoResult)
      /\ at' = [at EXCEPT ![w] = t + 1]
      /\ duty' = [duty EXCEPT ![w] = "cancel"]
      /\ UNCHANGED <<far, pointer, calls, answered, report, artifacts, pc, held, end>>
  BY Holder DEF CancelLocal, GoOn, Do, files, local, history, queue, fleet, far,
     BridgeIInv, DutyInv, DutyOK, Collecting, Calling
<1>2. MarksHold' /\ RemoteInv'
  BY <1>1, MarkMoves DEF State
<1>3. SeatTypes'
  BY <1>1, JournalAssumption DEF BridgeIInv, SeatTypes, Duty, Trial
<1>4. DutyOK(w)'
  BY <1>1 DEF BridgeIInv, SeatTypes, DutyOK, Collecting, Calling
<1> QED BY <1>1, <1>2, <1>3, <1>4, RowStep DEF BridgeIInv, SeatTypes

LEMMA BridgeCrashStep ==
    ASSUME BridgeIInv, NEW w \in Workers, BridgeCrash(w)
    PROVE  BridgeIInv'
BY EndStep DEF BridgeCrash, rows, files, queue, fleet, far, marks

-----------------------------------------------------------------------------
\* Sessions of execute

\* A session of execute that returns or dies.
LEMMA LeaveStep ==
    ASSUME BridgeIInv, NEW w \in Workers, pc[w] # "idle", Leave(w),
           UNCHANGED <<far, marks, artifacts, duty>>
    PROVE  BridgeIInv'
<1>1. /\ lock' = NoWorker /\ duty[w] = "none"
      /\ pc' = [pc EXCEPT ![w] = "idle"] /\ at' = [at EXCEPT ![w] = 1]
      /\ held' = [held EXCEPT ![w] = NoReceipt]
      /\ end' = [end EXCEPT ![w] = N]
  BY Holder DEF Leave, Goto
<1>2. SeatTypes'
  BY <1>1, JournalAssumption DEF BridgeIInv, SeatTypes, LocalPC, PC
<1>3. DutyOK(w)'
  BY <1>1 DEF BridgeIInv, SeatTypes, DutyOK, Collecting, Calling
<1> QED BY <1>1, <1>2, <1>3, QuietStep DEF BridgeIInv, SeatTypes

\* One that goes on to a label where nothing is known.
LEMMA GoOnStep ==
    ASSUME BridgeIInv, NEW w \in Workers, NEW label \in PlainPC,
           \/ pc[w] # "idle"
           \/ lock = NoWorker /\ duty[w] = "none",
           lock' = w, pc' = [pc EXCEPT ![w] = label],
           at' \in [Workers -> 1..(N + 1)], end' \in [Workers -> 1..N],
           label \in {"claim", "grade"} => at'[w] \in Trial,
           UNCHANGED <<far, marks, artifacts, held, duty>>
    PROVE  BridgeIInv'
<1>1. duty[w] = "none"
  BY Holder
<1>2. SeatTypes'
  BY DEF BridgeIInv, SeatTypes, PlainPC, LocalPC, PC
<1>3. pc'[w] = label /\ label # "idle"
  BY DEF BridgeIInv, SeatTypes, PlainPC
<1>4. DutyOK(w)'
  BY <1>1, <1>3 DEF DutyOK, Collecting, Calling, PlainPC
<1> QED BY <1>1, <1>2, <1>3, <1>4, QuietStep DEF BridgeIInv, SeatTypes

\* One that goes on at the row it is at, and moves none.
LEMMA StayStep ==
    ASSUME BridgeIInv, NEW w \in Workers, NEW label \in LocalPC \ {"idle"},
           pc[w] # "idle", lock' = lock, pc' = [pc EXCEPT ![w] = label],
           artifacts \subseteq artifacts',
           UNCHANGED <<far, marks, at, end, held, duty>>,
           DutyOK(w)'
    PROVE  BridgeIInv'
<1>1. lock = w /\ duty[w] = "none"
  BY Holder
<1>2. SeatTypes'
  BY DEF BridgeIInv, SeatTypes
<1> QED BY <1>1, <1>2, QuietStep DEF BridgeIInv, SeatTypes

LEMMA ResumeStep ==
    ASSUME BridgeIInv, NEW w \in Workers, duty[w] = "none", NEW m, NEW last \in Ends,
           Resume(w, m, last), UNCHANGED <<queue, fleet, duty>>
    PROVE  BridgeIInv'
<1>1. /\ lock = NoWorker /\ lock' = w /\ pc' = [pc EXCEPT ![w] = "recover"]
      /\ at' = [at EXCEPT ![w] = 1] /\ end' = [end EXCEPT ![w] = last]
      /\ UNCHANGED <<far, marks, artifacts, held>>
  BY DEF Resume, Open, Goto, durable, history, queue, fleet, far, marks
<1>2. at' \in [Workers -> 1..(N + 1)] /\ end' \in [Workers -> 1..N]
  BY <1>1, JournalAssumption DEF BridgeIInv, SeatTypes
<1> QED BY <1>1, <1>2, GoOnStep DEF BridgeIInv, SeatTypes, PlainPC

LEMMA RecoverRowStep ==
    ASSUME BridgeIInv, NEW w \in Workers, RecoverRow(w),
           UNCHANGED <<queue, fleet, duty>>
    PROVE  BridgeIInv'
<1> DEFINE t == at[w]
<1>1. /\ pc[w] = "recover" /\ lock = w /\ lock' = w /\ duty[w] = "none" /\ t \in Trial
      /\ at' = [at EXCEPT ![w] = t + 1]
      /\ UNCHANGED <<far, pointer, calls, answered, report, artifacts, pc, held, end, duty>>
  BY Holder DEF RecoverRow, Recovering, history, queue, fleet, far, BridgeIInv, SeatTypes,
     LocalPC
<1>2. at' \in [Workers -> 1..(N + 1)]
  BY <1>1, JournalAssumption DEF BridgeIInv, SeatTypes, Trial
<1>3. CASE UNCHANGED <<row, obs, res>>
  <2>1. pc' = [pc EXCEPT ![w] = "recover"]
    BY <1>1 DEF BridgeIInv, SeatTypes
  <2> QED BY <1>1, <1>2, <1>3, <2>1, GoOnStep DEF BridgeIInv, SeatTypes, PlainPC, marks
<1>4. ASSUME \/ /\ row[t] \in {"running", "reconciliation_required"} /\ pointer[t] # NoReceipt
                /\ Transition(t, row[t], "observed", pointer[t], NoResult)
             \/ /\ row[t] = "running"
                /\ Transition(t, row[t], "reconciliation_required", NoReceipt, NoResult)
      PROVE  BridgeIInv'
  <2>1. MarksHold' /\ RemoteInv'
    BY <1>1, <1>4, MarkMoves DEF State
  <2>2. SeatTypes'
    BY <1>1, <1>2 DEF BridgeIInv, SeatTypes
  <2>3. DutyOK(w)'
    BY <1>1 DEF DutyOK, Collecting, Calling
  <2> QED BY <1>1, <2>1, <2>2, <2>3, RowStep
<1> QED BY <1>1, <1>3, <1>4 DEF RecoverRow

\* cancel_queued(): what is queued here was never sent.
LEMMA SweepRowStep ==
    ASSUME BridgeIInv, NEW w \in Workers, SweepRow(w),
           UNCHANGED <<queue, fleet, duty>>
    PROVE  BridgeIInv'
<1> DEFINE t == at[w]
<1>1. /\ pc[w] \in {"sweepIn", "sweepOut"} /\ lock = w /\ lock' = w /\ duty[w] = "none"
      /\ t \in Trial /\ at' = [at EXCEPT ![w] = t + 1]
      /\ UNCHANGED <<far, pointer, calls, answered, report, artifacts, pc, held, end, duty>>
  BY Holder DEF SweepRow, history, queue, fleet, far
<1>2. at' \in [Workers -> 1..(N + 1)]
  BY <1>1, JournalAssumption DEF BridgeIInv, SeatTypes, Trial
<1>3. CASE UNCHANGED <<row, obs, res>>
  <2>1. pc' = [pc EXCEPT ![w] = pc[w]]
    BY <1>1 DEF BridgeIInv, SeatTypes
  <2> QED BY <1>1, <1>2, <1>3, <2>1, GoOnStep DEF BridgeIInv, SeatTypes, PlainPC, marks
<1>4. CASE row[t] = "queued" /\ Transition(t, "queued", "cancelled", NoReceipt, NoResult)
  <2>1. state[t] = "absent"
    BY <1>1, <1>4 DEF BridgeIInv, RowsAgree
  <2>2. MarksHold' /\ RemoteInv'
    BY <1>1, <1>4, <2>1, MarkMoves DEF State
  <2>3. SeatTypes'
    BY <1>1, <1>2 DEF BridgeIInv, SeatTypes
  <2>4. DutyOK(w)'
    BY <1>1 DEF DutyOK, Collecting, Calling
  <2> QED BY <1>1, <2>2, <2>3, <2>4, RowStep
<1> QED BY <1>3, <1>4 DEF SweepRow

LEMMA CheckStatusStep ==
    ASSUME BridgeIInv, NEW w \in Workers, CheckStatus(w),
           UNCHANGED <<queue, fleet, duty>>
    PROVE  BridgeIInv'
<1>1. /\ pc[w] = "status" /\ lock = w
      /\ UNCHANGED <<far, marks, artifacts>>
  BY Holder DEF CheckStatus, durable, history, queue, fleet, far, marks
<1>2. CASE Leave(w)
  BY <1>1, <1>2, LeaveStep
<1>3. CASE Goto(w, "export") /\ UNCHANGED <<lock, at, held, seen, left, end>>
  BY <1>1, <1>3, GoOnStep DEF Goto, BridgeIInv, SeatTypes, PlainPC
<1>4. CASE Goto(w, "loop") /\ at' = [at EXCEPT ![w] = 1] /\ UNCHANGED <<lock, held, left, end>>
  <2>1. at' \in [Workers -> 1..(N + 1)]
    BY <1>4, JournalAssumption DEF BridgeIInv, SeatTypes
  <2> QED BY <1>1, <1>4, <2>1, GoOnStep DEF Goto, BridgeIInv, SeatTypes, PlainPC
<1> QED BY <1>2, <1>3, <1>4 DEF CheckStatus

LEMMA LoopHeadStep ==
    ASSUME BridgeIInv, NEW w \in Workers, LoopHead(w),
           UNCHANGED <<queue, fleet, duty>>
    PROVE  BridgeIInv'
<1>1. /\ pc[w] = "loop" /\ lock = w
      /\ pc' = [pc EXCEPT ![w] = LoopChoice(w)]
      /\ UNCHANGED <<far, marks, artifacts, lock, held, end>>
  BY Holder DEF LoopHead, Goto, durable, history, queue, fleet, far, marks
<1>2. at[w] \in 1..(N + 1) /\ end[w] \in 1..N
  BY DEF BridgeIInv, SeatTypes
<1>3. /\ LoopChoice(w) \in {"finish", "sweepOut", "loop", "grade", "claim"}
      /\ LoopChoice(w) \in {"loop", "grade", "claim"} => at[w] \in Trial
  BY <1>1, <1>2, JournalAssumption DEF LoopChoice, Trial
<1>4. /\ at' \in [Workers -> 1..(N + 1)]
      /\ LoopChoice(w) \in {"grade", "claim"} => at'[w] = at[w]
  <2>1. at' = [at EXCEPT ![w] = CASE LoopChoice(w) = "loop"     -> at[w] + 1
                                  [] LoopChoice(w) = "sweepOut" -> 1
                                  [] OTHER                      -> at[w]]
    BY DEF LoopHead
  <2>2. CASE LoopChoice(w) = "loop"
    BY <1>2, <1>3, <2>1, <2>2, JournalAssumption DEF BridgeIInv, SeatTypes, Trial
  <2>3. CASE LoopChoice(w) # "loop"
    BY <1>2, <2>1, <2>3, JournalAssumption DEF BridgeIInv, SeatTypes
  <2> QED BY <2>2, <2>3
<1> QED BY <1>1, <1>3, <1>4, GoOnStep DEF BridgeIInv, SeatTypes, PlainPC

\* claim(): a queued row was neither called nor sent.
LEMMA ClaimStep ==
    ASSUME BridgeIInv, NEW w \in Workers, Claim(w),
           UNCHANGED <<queue, fleet, duty>>
    PROVE  BridgeIInv'
<1> DEFINE t == at[w]
<1>1. /\ pc[w] = "claim" /\ lock = w /\ lock' = w /\ duty[w] = "none" /\ t \in Trial
      /\ row[t] = "queued" /\ Transition(t, row[t], "running", NoReceipt, NoResult)
      /\ pc' = [pc EXCEPT ![w] = "invoke"]
      /\ UNCHANGED <<far, pointer, calls, answered, report, artifacts, at, held, end, duty>>
  BY Holder DEF Claim, Transition, Goto, queue, fleet, far, BridgeIInv, DutyInv, DutyOK
<1>2. state[t] = "absent" /\ calls[t] = 0 /\ pointer[t] = NoReceipt
  BY <1>1 DEF BridgeIInv, RowsAgree
<1>3. MarksHold' /\ RemoteInv' /\ row' = [row EXCEPT ![t] = "running"]
  BY <1>1, MarkMoves DEF State
<1>4. SeatTypes'
  BY <1>1 DEF BridgeIInv, SeatTypes, LocalPC, PC
<1>5. DutyOK(w)'
  BY <1>1, <1>2, <1>3 DEF BridgeIInv, SeatTypes, MarkTypes, DutyOK, Collecting, Calling, far
<1> QED BY <1>1, <1>3, <1>4, <1>5, RowStep DEF BridgeIInv, SeatTypes

\* The target is called, or answers: nothing is stored of the row yet.
LEMMA CallMoves ==
    ASSUME BridgeIInv, NEW t \in Trial, row[t] = "running",
           state[t] = "absent", pointer[t] = NoReceipt,
           calls' \in [Trial -> {0, 1}], answered' \in [Trial -> Receipt \cup {NoReceipt}],
           \A u \in Trial \ {t} : calls'[u] = calls[u] /\ answered'[u] = answered[u],
           UNCHANGED <<far, row, obs, res, pointer, report, artifacts>>
    PROVE  MarksHold' /\ RemoteInv'
<1>1. RemoteInv'
  BY RemoteStays DEF BridgeIInv, far
<1>2. \A u \in Trial \ {t} : Collected(u)' = Collected(u)
  BY DEF Collected, far
<1>3. MarkTypes' /\ RowsAgree' /\ PublishedInv'
  BY DEF BridgeIInv, MarkTypes, RowsAgree, PublishedInv, far
<1>4. \A u \in Trial : ResultOf(pointer[u])' = ResultOf(pointer[u])
  BY DEF ResultOf, Grade
<1>5. HomeInv'
  BY <1>2, <1>4 DEF BridgeIInv, HomeInv, far
<1> QED BY <1>1, <1>3, <1>5 DEF MarksHold

LEMMA InvokeStep ==
    ASSUME BridgeIInv, NEW w \in Workers, Invoke(w),
           UNCHANGED <<queue, fleet, duty>>
    PROVE  BridgeIInv'
<1> DEFINE t == at[w]
<1>1. /\ pc[w] = "invoke" /\ lock = w /\ lock' = w /\ duty[w] = "none" /\ t \in Trial
      /\ state[t] = "absent" /\ row[t] = "running" /\ pointer[t] = NoReceipt /\ calls[t] = 0
      /\ calls' = [calls EXCEPT ![t] = @ + 1] /\ pc' = [pc EXCEPT ![w] = "calling"]
      /\ UNCHANGED <<far, row, obs, res, pointer, answered, report, artifacts, at, held, end, duty>>
  BY Holder DEF Invoke, Goto, durable, queue, fleet, far, BridgeIInv, DutyInv, DutyOK, Calling
<1>2. /\ calls' \in [Trial -> {0, 1}] /\ calls'[t] = 1
      /\ \A u \in Trial \ {t} : calls'[u] = calls[u]
  BY <1>1 DEF BridgeIInv, MarkTypes
<1>3. MarksHold' /\ RemoteInv'
  BY <1>1, <1>2, CallMoves DEF BridgeIInv, MarkTypes
<1>4. SeatTypes'
  BY <1>1 DEF BridgeIInv, SeatTypes, LocalPC, PC
<1>5. DutyOK(w)'
  BY <1>1, <1>2 DEF BridgeIInv, SeatTypes, DutyOK, Collecting, Calling, far
<1> QED BY <1>1, <1>3, <1>4, <1>5, RowStep DEF BridgeIInv, SeatTypes

LEMMA ReturnStep ==
    ASSUME BridgeIInv, NEW w \in Workers, NEW a \in Answer, Return(w, a),
           UNCHANGED <<queue, fleet, duty>>
    PROVE  BridgeIInv'
<1> DEFINE t == at[w]
           r == [call |-> calls[t], answer |-> a]
<1>1. /\ pc[w] = "calling" /\ lock = w /\ lock' = w /\ duty[w] = "none" /\ t \in Trial
      /\ state[t] = "absent" /\ row[t] = "running" /\ pointer[t] = NoReceipt /\ calls[t] = 1
      /\ held' = [held EXCEPT ![w] = r] /\ answered' = [answered EXCEPT ![t] = r]
      /\ pc' = [pc EXCEPT ![w] = "seal"]
      /\ UNCHANGED <<far, row, obs, res, pointer, calls, report, artifacts, at, end, duty>>
  BY Holder DEF Return, Goto, durable, queue, fleet, far, BridgeIInv, DutyInv, DutyOK, Calling
<1>2. r \in Receipt
  BY <1>1 DEF Receipt
<1> HIDE DEF r
<1>3. /\ answered' \in [Trial -> Receipt \cup {NoReceipt}] /\ answered'[t] = r
      /\ \A u \in Trial \ {t} : answered'[u] = answered[u]
  BY <1>1, <1>2 DEF BridgeIInv, MarkTypes
<1>4. MarksHold' /\ RemoteInv'
  BY <1>1, <1>3, CallMoves DEF BridgeIInv, MarkTypes
<1>5. SeatTypes' /\ held'[w] = r
  BY <1>1, <1>2 DEF BridgeIInv, SeatTypes, LocalPC, PC
<1>6. DutyOK(w)'
  BY <1>1, <1>2, <1>3, <1>5 DEF BridgeIInv, SeatTypes, DutyOK, Collecting, Calling, far
<1> QED BY <1>1, <1>4, <1>5, <1>6, RowStep DEF BridgeIInv, SeatTypes

LEMMA CallCancelledStep ==
    ASSUME BridgeIInv, NEW w \in Workers, CallCancelled(w),
           UNCHANGED <<queue, fleet, duty>>
    PROVE  BridgeIInv'
<1>1. /\ pc[w] = "calling" /\ lock' = lock /\ pc' = [pc EXCEPT ![w] = "abandon"]
      /\ UNCHANGED <<far, marks, artifacts, at, end, held, duty>>
  BY DEF CallCancelled, Goto, durable, history, queue, fleet, far, marks
<1>2. duty[w] = "none" /\ DutyOK(w)
  BY <1>1, Holder DEF BridgeIInv, DutyInv
<1>3. DutyOK(w)'
  BY <1>1, <1>2 DEF BridgeIInv, SeatTypes, DutyOK, Collecting, Calling, far, marks
<1> QED BY <1>1, <1>3, StayStep DEF LocalPC, PC

LEMMA AbandonStep ==
    ASSUME BridgeIInv, NEW w \in Workers, Abandon(w),
           UNCHANGED <<queue, fleet, duty>>
    PROVE  BridgeIInv'
<1> DEFINE t == at[w]
<1>1. /\ pc[w] = "abandon" /\ lock = w /\ lock' = w /\ duty[w] = "none" /\ t \in Trial
      /\ row[t] = "running"
      /\ Transition(t, row[t], "reconciliation_required", NoReceipt, NoResult)
      /\ at' = [at EXCEPT ![w] = 1] /\ pc' = [pc EXCEPT ![w] = "sweepOut"]
      /\ UNCHANGED <<far, pointer, calls, answered, report, artifacts, held, end, duty>>
  BY Holder DEF Abandon, Transition, Goto, history, queue, fleet, far, BridgeIInv, DutyInv,
     DutyOK, Calling
<1>2. MarksHold' /\ RemoteInv'
  BY <1>1, MarkMoves DEF State
<1>3. SeatTypes'
  BY <1>1, JournalAssumption DEF BridgeIInv, SeatTypes, LocalPC, PC
<1>4. DutyOK(w)'
  BY <1>1 DEF BridgeIInv, SeatTypes, DutyOK, Collecting, Calling
<1> QED BY <1>1, <1>2, <1>3, <1>4, RowStep DEF BridgeIInv, SeatTypes

LEMMA SealStep ==
    ASSUME BridgeIInv, NEW w \in Workers, Seal(w),
           UNCHANGED <<queue, fleet, duty>>
    PROVE  BridgeIInv'
<1>1. /\ pc[w] = "seal" /\ lock' = lock /\ pc' = [pc EXCEPT ![w] = "point"]
      /\ artifacts' = artifacts \cup {<<at[w], held[w]>>}
      /\ UNCHANGED <<far, marks, at, end, held, duty>>
  BY DEF Seal, Sealing, Goto, history, queue, fleet, far, marks, BridgeIInv, SeatTypes, LocalPC
<1>2. duty[w] = "none" /\ DutyOK(w)
  BY <1>1, Holder DEF BridgeIInv, DutyInv
<1>3. DutyOK(w)'
  BY <1>1, <1>2 DEF BridgeIInv, SeatTypes, DutyOK, Collecting, Calling, far, marks
<1> QED BY <1>1, <1>3, StayStep DEF LocalPC, PC

LEMMA PointStep ==
    ASSUME BridgeIInv, NEW w \in Workers, Point(w),
           UNCHANGED <<queue, fleet, duty>>
    PROVE  BridgeIInv'
<1> DEFINE t == at[w]
<1>1. /\ pc[w] = "point" /\ lock = w /\ lock' = w /\ duty[w] = "none" /\ t \in Trial
      /\ row[t] = "running" /\ calls[t] = 1
      /\ held[w] = answered[t] /\ held[w] \in Receipt /\ <<t, held[w]>> \in artifacts
      /\ pointer' = [pointer EXCEPT ![t] = held[w]]
      /\ pc' = [pc EXCEPT ![w] = "commit"]
      /\ UNCHANGED <<far, row, obs, res, calls, answered, report, artifacts, at, held, end, duty>>
  BY Holder DEF Point, Pointing, Goto, history, queue, fleet, far, BridgeIInv, SeatTypes, LocalPC,
     DutyInv, DutyOK, Calling
<1>2. MarkTypes' /\ RowsAgree' /\ PublishedInv'
  BY <1>1 DEF BridgeIInv, MarkTypes, RowsAgree, PublishedInv, far
<1>3. \A u \in Trial : Collected(u)' = Collected(u)
  BY <1>1 DEF Collected, far
<1>4. \A u \in Trial \ {t} :
          pointer'[u] = pointer[u] /\ ResultOf(pointer[u])' = ResultOf(pointer[u])
  BY <1>1 DEF BridgeIInv, MarkTypes, ResultOf, Grade
<1>5. pointer'[t] = held[w]
  BY <1>1 DEF BridgeIInv, MarkTypes
<1>6. HomeInv'
  <2> SUFFICES ASSUME NEW u \in Trial
               PROVE  /\ pointer'[u] # NoReceipt =>
                           /\ \/ calls'[u] = 1 /\ pointer'[u] = answered'[u]
                              \/ state'[u] = "completed" /\ pointer'[u] = Collected(u)'
                           /\ <<u, pointer'[u]>> \in artifacts'
                      /\ IF row'[u] \in {"observed", "completed"}
                           THEN pointer'[u] # NoReceipt /\ obs'[u] = pointer'[u]
                           ELSE obs'[u] = NoReceipt
                      /\ row'[u] = "completed" =>
                           res'[u] = ResultOf(pointer[u])' /\ <<u, res'[u]>> \in artifacts'
    BY DEF HomeInv
  <2>1. CASE u = t
    <3>1. /\ calls'[u] = 1 /\ pointer'[u] = held[w] /\ answered'[u] = held[w]
          /\ <<u, held[w]>> \in artifacts' /\ row'[u] = "running"
      BY <1>1, <1>5, <2>1
    <3>2. obs'[u] = NoReceipt
      BY <1>1, <2>1 DEF BridgeIInv, HomeInv
    <3> QED BY <3>1, <3>2
  <2>2. CASE u # t
    <3>1. /\ pointer'[u] = pointer[u] /\ ResultOf(pointer[u])' = ResultOf(pointer[u])
          /\ Collected(u)' = Collected(u)
      BY <1>3, <1>4, <2>2
    <3> QED BY <1>1, <3>1 DEF BridgeIInv, HomeInv, far
  <2> QED BY <2>1, <2>2
<1>7. RemoteInv'
  BY <1>1, RemoteStays DEF BridgeIInv, far
<1>8. SeatTypes'
  BY <1>1 DEF BridgeIInv, SeatTypes, LocalPC, PC
<1>9. DutyOK(w)'
  BY <1>1, <1>5 DEF BridgeIInv, SeatTypes, DutyOK, Collecting, Calling, far
<1> QED BY <1>1, <1>2, <1>6, <1>7, <1>8, <1>9, RowStep DEF BridgeIInv, SeatTypes, MarksHold

LEMMA CommitStep ==
    ASSUME BridgeIInv, NEW w \in Workers, Commit(w),
           UNCHANGED <<queue, fleet, duty>>
    PROVE  BridgeIInv'
<1> DEFINE t == at[w]
<1>1. /\ pc[w] = "commit" /\ lock = w /\ lock' = w /\ duty[w] = "none" /\ t \in Trial
      /\ row[t] = "running" /\ held[w] \in Receipt /\ pointer[t] = held[w]
      /\ Transition(t, row[t], "observed", pointer[t], NoResult)
      /\ pc' = [pc EXCEPT ![w] = "grade"]
      /\ UNCHANGED <<far, pointer, calls, answered, report, artifacts, at, held, end, duty>>
  BY Holder DEF Commit, Transition, Goto, history, queue, fleet, far, BridgeIInv, DutyInv, DutyOK
<1>2. pointer[t] # NoReceipt
  BY <1>1 DEF Receipt, NoReceipt
<1>3. MarksHold' /\ RemoteInv'
  BY <1>1, <1>2, MarkMoves DEF State
<1>4. SeatTypes'
  BY <1>1 DEF BridgeIInv, SeatTypes, LocalPC, PC
<1>5. DutyOK(w)'
  BY <1>1 DEF BridgeIInv, SeatTypes, DutyOK, Collecting, Calling
<1> QED BY <1>1, <1>3, <1>4, <1>5, RowStep DEF BridgeIInv, SeatTypes

LEMMA GradeTrialStep ==
    ASSUME BridgeIInv, NEW w \in Workers, GradeTrial(w),
           UNCHANGED <<queue, fleet, duty>>
    PROVE  BridgeIInv'
<1> DEFINE t == at[w]
<1>1. /\ pc[w] = "grade" /\ lock' = lock /\ duty[w] = "none" /\ t \in Trial
      /\ artifacts' = artifacts \cup {<<t, ResultOf(pointer[t])>>}
      /\ pc' = [pc EXCEPT ![w] = "finalize"]
      /\ UNCHANGED <<far, marks, at, held, end, duty>>
  BY Holder DEF GradeTrial, Goto, history, queue, fleet, far, marks, BridgeIInv, DutyInv, DutyOK
<1>2. ResultOf(pointer[t])' = ResultOf(pointer[t])
  BY <1>1 DEF ResultOf, Grade, marks
<1>3. DutyOK(w)'
  BY <1>1, <1>2 DEF BridgeIInv, SeatTypes, DutyOK, Collecting, Calling, marks
<1> QED BY <1>1, <1>3, StayStep DEF LocalPC, PC

LEMMA FinalizeStep ==
    ASSUME BridgeIInv, NEW w \in Workers, Finalize(w),
           UNCHANGED <<queue, fleet, duty>>
    PROVE  BridgeIInv'
<1> DEFINE t == at[w]
<1>1. /\ pc[w] = "finalize" /\ lock = w /\ lock' = w /\ duty[w] = "none" /\ t \in Trial
      /\ <<t, ResultOf(pointer[t])>> \in artifacts /\ row[t] = "observed"
      /\ Transition(t, row[t], "completed", pointer[t], ResultOf(pointer[t]))
      /\ at' = [at EXCEPT ![w] = t + 1] /\ pc' = [pc EXCEPT ![w] = "loop"]
      /\ UNCHANGED <<far, pointer, calls, answered, report, artifacts, held, end, duty>>
  BY Holder DEF Finalize, Transition, Goto, history, queue, fleet, far, BridgeIInv, DutyInv, DutyOK
<1>2. pointer[t] # NoReceipt
  BY <1>1 DEF BridgeIInv, HomeInv
<1>3. MarksHold' /\ RemoteInv'
  BY <1>1, <1>2, MarkMoves DEF State
<1>4. SeatTypes'
  BY <1>1, JournalAssumption DEF BridgeIInv, SeatTypes, LocalPC, PC, Trial
<1>5. DutyOK(w)'
  BY <1>1 DEF BridgeIInv, SeatTypes, DutyOK, Collecting, Calling
<1> QED BY <1>1, <1>3, <1>4, <1>5, RowStep DEF BridgeIInv, SeatTypes

LEMMA ExportStep ==
    ASSUME BridgeIInv, NEW w \in Workers, Export(w),
           UNCHANGED <<queue, fleet, duty>>
    PROVE  BridgeIInv'
<1>1. /\ pc[w] = "export" /\ lock' = NoWorker /\ duty[w] = "none"
      /\ pc' = [pc EXCEPT ![w] = "idle"] /\ at' = [at EXCEPT ![w] = 1]
      /\ held' = [held EXCEPT ![w] = NoReceipt]
      /\ end' = [end EXCEPT ![w] = N]
      /\ UNCHANGED <<far, row, obs, res, pointer, calls, answered, artifacts, duty>>
  BY Holder DEF Export, Leave, Goto, history, queue, fleet, far
<1>2. MarksHold' /\ RemoteInv'
  BY <1>1, ReportMoves DEF Export
<1>3. SeatTypes'
  BY <1>1, JournalAssumption DEF BridgeIInv, SeatTypes, LocalPC, PC
<1>4. DutyOK(w)'
  BY <1>1 DEF BridgeIInv, SeatTypes, DutyOK, Collecting, Calling
<1>5. ExclusiveInv' /\ DutyInv'
  BY <1>1, <1>4, SessionMoves DEF BridgeIInv, SeatTypes
<1> QED BY <1>2, <1>3, <1>5 DEF BridgeIInv, MarksHold

\* The steps of a session that only go from label to label.
LEMMA LabelStep ==
    ASSUME BridgeIInv, NEW w \in Workers,
           Recovered(w) \/ Entry(w) \/ Swept(w) \/ Finish(w),
           UNCHANGED <<queue, fleet, duty>>
    PROVE  BridgeIInv'
<1>1. /\ pc[w] # "idle" /\ lock = w
      /\ UNCHANGED <<far, marks, artifacts>>
  BY Holder DEF Recovered, Recovering, Entry, Swept, Finish, durable, history, queue, fleet, far, marks
<1>2. \A f : f = [at EXCEPT ![w] = 1] => f \in [Workers -> 1..(N + 1)]
  BY JournalAssumption DEF BridgeIInv, SeatTypes
<1>3. CASE Recovered(w)
  <2>1. /\ pc' = [pc EXCEPT ![w] = "entry"] /\ at' = [at EXCEPT ![w] = 1]
        /\ UNCHANGED <<lock, held, end>>
    BY <1>3 DEF Recovered, Recovering, Goto, BridgeIInv, SeatTypes, LocalPC
  <2> QED BY <1>1, <1>2, <2>1, GoOnStep DEF BridgeIInv, SeatTypes, PlainPC
<1>4. CASE Entry(w)
  <2>1. PICK label \in {"sweepIn", "status"} : pc' = [pc EXCEPT ![w] = label]
    BY <1>4 DEF Entry, Goto
  <2>2. UNCHANGED <<lock, at, held, end>>
    BY <1>4 DEF Entry
  <2> QED BY <1>1, <2>1, <2>2, GoOnStep DEF BridgeIInv, SeatTypes, PlainPC
<1>5. CASE Swept(w)
  <2>1. PICK label \in {"status", "finish"} : pc' = [pc EXCEPT ![w] = label]
    BY <1>5 DEF Swept, Goto
  <2>2. at' = [at EXCEPT ![w] = 1] /\ UNCHANGED <<lock, held, end>>
    BY <1>5 DEF Swept
  <2> QED BY <1>1, <1>2, <2>1, <2>2, GoOnStep DEF BridgeIInv, SeatTypes, PlainPC
<1>6. CASE Finish(w)
  <2>1. CASE Leave(w)
    BY <1>1, <2>1, LeaveStep
  <2>2. CASE Goto(w, "export") /\ UNCHANGED <<lock, at, held, seen, left, end>>
    BY <1>1, <2>2, GoOnStep DEF Goto, BridgeIInv, SeatTypes, PlainPC
  <2> QED BY <1>6, <2>1, <2>2 DEF Finish
<1> QED BY <1>3, <1>4, <1>5, <1>6

LEMMA LocalStep ==
    ASSUME BridgeIInv, NEW w \in Workers, LocalRun(w)
    PROVE  BridgeIInv'
<1>1. duty[w] = "none" /\ UNCHANGED <<queue, fleet, duty>>
  BY DEF LocalRun
<1>2. CASE \E m \in Limits, last \in Ends : Resume(w, m, last)
  BY <1>1, <1>2, ResumeStep
<1>3. CASE Advance(w)
  <2>1. pc[w] \in LocalPC
    BY DEF BridgeIInv, SeatTypes
  <2>2. ~(\/ (\E t \in Trial, a \in Answer : Reconcile(w, t, a)) \/ OpCommit(w) \/ GiveUp(w))
    BY <2>1 DEF LocalPC, Reconcile, OpCommit, GiveUp
  <2>3. CASE RecoverRow(w) \/ SweepRow(w) \/ CheckStatus(w) \/ LoopHead(w)
    BY <1>1, <2>3, RecoverRowStep, SweepRowStep, CheckStatusStep, LoopHeadStep
  <2>4. CASE \/ Claim(w) \/ Invoke(w) \/ (\E a \in Answer : Return(w, a)) \/ CallCancelled(w)
             \/ Abandon(w)
    BY <1>1, <2>4, ClaimStep, InvokeStep, ReturnStep, CallCancelledStep, AbandonStep
  <2>5. CASE Seal(w) \/ Point(w) \/ Commit(w)
    BY <1>1, <2>5, SealStep, PointStep, CommitStep
  <2>6. CASE GradeTrial(w) \/ Finalize(w) \/ Export(w)
    BY <1>1, <2>6, GradeTrialStep, FinalizeStep, ExportStep
  <2>7. CASE Recovered(w) \/ Entry(w) \/ Swept(w) \/ Finish(w)
    BY <1>1, <2>7, LabelStep
  <2> QED BY <1>3, <2>2, <2>3, <2>4, <2>5, <2>6, <2>7 DEF Advance
<1>4. CASE Crash(w)
  BY <1>1, <1>4, LeaveStep DEF Crash, durable, queue, fleet, far, marks
<1> QED BY <1>2, <1>3, <1>4 DEF LocalRun

-----------------------------------------------------------------------------
\* The whole

LEMMA BridgeStarts == BridgeInit => BridgeIInv
<1> SUFFICES ASSUME BridgeInit PROVE BridgeIInv
  OBVIOUS
<1>1. /\ state = [t \in Trial |-> "absent"] /\ epoch = [t \in Trial |-> 0]
      /\ receipt = [t \in Trial |-> NoRemote]
      /\ rpc = [p \in Proc |-> "idle"] /\ item = [p \in Proc |-> 0]
      /\ ticket = [p \in Proc |-> 0] /\ kept = [p \in Proc |-> NoRemote]
      /\ rcalls = [t \in Trial |-> 0] /\ ranswered = [t \in Trial |-> NoRemote]
  BY DEF BridgeInit, Remote!FleetInit, Remote!Init, Remote!Item, Trial
<1>2. RemoteTypes
  BY <1>1, BridgeAssumption, JournalAssumption DEF RemoteTypes, RemotePC, Remote!State
<1>3. RemoteInv
  BY <1>1, <1>2 DEF RemoteInv, ProcessInv, ProcessOK, OneCaller, RemoteRowInv, AtCall
<1>4. MarkTypes /\ SeatTypes
  BY JournalAssumption DEF BridgeInit, Init, MarkTypes, SeatTypes, LocalPC, PC, State, Duty
<1>5. ExclusiveInv
  BY JournalAssumption DEF BridgeInit, Init, ExclusiveInv
<1>6. RowsAgree /\ HomeInv /\ PublishedInv
  BY <1>1 DEF BridgeInit, Init, RowsAgree, HomeInv, PublishedInv
<1>7. DutyInv
  BY DEF BridgeInit, Init, DutyInv, DutyOK, Collecting, Calling
<1> QED BY <1>3, <1>4, <1>5, <1>6, <1>7 DEF BridgeIInv

\* A step elsewhere: no session moves, and no row of this journal.
LEMMA ElsewhereStep ==
    ASSUME BridgeIInv, RemoteInv', RemoteKeeps,
           UNCHANGED <<marks, artifacts, lock, pc, at, held, end, duty>>
    PROVE  BridgeIInv'
<1>1. \A t \in Trial : row[t] \in {"queued", "cancelled"} => state'[t] = state[t]
  BY DEF BridgeIInv, RowsAgree, RemoteKeeps
<1>2. /\ MarksHold'
      /\ \A t \in Trial : state[t] = "completed" => Collected(t)' = Collected(t)
      /\ \A t \in Trial : ResultOf(pointer[t])' = ResultOf(pointer[t])
  BY <1>1, MarksStay DEF RemoteKeeps, BridgeIInv, RemoteInv, RemoteTypes
<1>3. SeatTypes' /\ ExclusiveInv'
  BY DEF BridgeIInv, SeatTypes, ExclusiveInv
<1>4. ASSUME NEW w \in Workers PROVE DutyOK(w)'
  <2>1. DutyOK(w)
    BY DEF BridgeIInv, DutyInv
  <2>2. at[w] \in Trial /\ state[at[w]] = "completed" => Collected(at[w])' = Collected(at[w])
    BY DEF Collected, marks, RemoteKeeps
  <2>3. ResultOf(pointer[at[w]])' = ResultOf(pointer[at[w]])
    BY DEF ResultOf, Grade, marks
  <2> QED BY <2>1, <2>2, <2>3 DEF DutyOK, Collecting, Calling, RemoteKeeps, marks
<1> QED BY <1>2, <1>3, <1>4 DEF BridgeIInv, MarksHold, DutyInv

LEMMA BridgeStep == BridgeIInv /\ [BridgeNext]_bridgeVars => BridgeIInv'
<1> SUFFICES ASSUME BridgeIInv, [BridgeNext]_bridgeVars PROVE BridgeIInv'
  OBVIOUS
<1>1. ASSUME NEW w \in Workers, Submit(w) \/ Collect(w) \/ CancelBoth(w) PROVE BridgeIInv'
  BY <1>1, BeginStep DEF Submit, Collect, CancelBoth
<1>2. ASSUME NEW w \in Workers, BridgeAdvance(w) PROVE BridgeIInv'
  <2>1. CASE SubmitCheck(w) \/ SubmitRow(w) \/ EnqueueRow(w) \/ SubmitDone(w)
    BY <2>1, SubmitCheckStep, SubmitRowStep, EnqueueRowStep, SubmitDoneStep
  <2>2. CASE CollectRow(w) \/ CollectStore(w) \/ CollectPoint(w) \/ CollectRecover(w)
    BY <2>2, CollectRowStep, CollectStoreStep, CollectPointStep, CollectConflictStep,
       CollectRecoverStep
  <2>3. CASE CollectGrade(w) \/ CollectFinalize(w) \/ CollectDone(w)
    BY <2>3, CollectGradeStep, CollectFinalizeStep, CollectDoneStep
  <2>4. CASE CancelRow(w) \/ CancelLocal(w) \/ CancelDone(w)
    BY <2>4, CancelRowStep, CancelLocalStep, CancelDoneStep
  <2> QED BY <1>2, <2>1, <2>2, <2>3, <2>4 DEF BridgeAdvance
<1>3. ASSUME NEW w \in Workers, BridgeCrash(w) PROVE BridgeIInv'
  BY <1>3, BridgeCrashStep
<1>4. ASSUME NEW w \in Workers, LocalRun(w) PROVE BridgeIInv'
  BY <1>4, LocalStep
<1>5. CASE RequestCancellation
  <2>1. /\ UNCHANGED <<marks, artifacts, lock, pc, at, held, end, duty>>
        /\ UNCHANGED far
    BY <1>5 DEF RequestCancellation, RequestCancel, process, history, queue, fleet, marks, far
  <2> QED BY <2>1, RemoteStays, ElsewhereStep DEF BridgeIInv, far
<1>6. CASE RemoteRun
  <2>1. UNCHANGED <<marks, artifacts, lock, pc, at, held, end, duty>>
    BY <1>6 DEF RemoteRun, vars, durable, process, history, marks
  <2> QED BY <1>6, <2>1, RemoteStep, ElsewhereStep DEF BridgeIInv
<1>7. CASE UNCHANGED bridgeVars
  <2>1. /\ UNCHANGED <<marks, artifacts, lock, pc, at, held, end, duty>>
        /\ UNCHANGED far
    BY <1>7 DEF bridgeVars, vars, durable, process, history, queue, fleet, marks, far
  <2> QED BY <2>1, RemoteStays, ElsewhereStep DEF BridgeIInv, far
<1> QED BY <1>1, <1>2, <1>3, <1>4, <1>5, <1>6, <1>7 DEF BridgeNext

\* The inductive invariant always holds of the journal, the queue, the workers
\* and the bridge together, in whatever order the experiment is executed,
\* submitted, collected and cancelled (enqueue_experiment, collect_experiment,
\* cancel_experiment, execute).
THEOREM BridgeInvariance == BridgeSpec => []BridgeIInv
<1>1. BridgeInit => BridgeIInv
  BY BridgeStarts
<1>2. BridgeIInv /\ [BridgeNext]_bridgeVars => BridgeIInv'
  BY BridgeStep
<1> QED BY <1>1, <1>2, PTL DEF BridgeSpec

\* Neither side calls an attempt twice, and this side calls only what the queue
\* does not have, whatever dies between the journal's mark and the queue's row:
\* enqueue() never queues a row again, and execute claims only what was never
\* submitted.
THEOREM SidesStayApart == BridgeSpec => []CallsStayApart
<1>1. ASSUME BridgeIInv PROVE CallsStayApart
  <2>1. \A t \in Trial : calls[t] <= 1 /\ rcalls[t] <= 1
    BY <1>1 DEF BridgeIInv, MarkTypes, RemoteInv, RemoteTypes
  <2>2. \A w \in Workers : pc[w] \in {"invoke", "calling"} => state[at[w]] = "absent"
    BY <1>1 DEF BridgeIInv, DutyInv, DutyOK, Calling
  <2> QED BY <2>1, <2>2 DEF CallsStayApart
<1> QED BY <1>1, BridgeInvariance, PTL

\* A trial the journal calls cancelled is called by nobody any more and was never
\* called remotely, and its row in the queue, if there is one, is cancelled:
\* cancel_experiment withdraws a trial only on the queue's own word.
THEOREM CancelledStaysUnsent == BridgeSpec => []CancelledNeverSent
<1>1. ASSUME BridgeIInv PROVE CancelledNeverSent
  <2>1. ASSUME NEW t \in Trial, row[t] = "cancelled"
        PROVE  state[t] \in {"absent", "cancelled"} /\ rcalls[t] = 0
    BY <1>1, <2>1 DEF BridgeIInv, RowsAgree, RemoteInv, RemoteRowInv
  <2>2. ASSUME NEW w \in Workers, row[at[w]] = "cancelled"
        PROVE  pc[w] \notin {"invoke", "calling"}
    BY <1>1, <2>2 DEF BridgeIInv, DutyInv, DutyOK, Calling
  <2> QED BY <2>1, <2>2 DEF CancelledNeverSent
<1> QED BY <1>1, BridgeInvariance, PTL

\* What is stored of a trial is what its call here answered, or exactly what the
\* remote call answered under the epoch it was made in, wherever a session or a
\* collection died, and no step of a collection is refused but for the receipt
\* of a local call (collect_experiment).
THEOREM CollectionIsTrue == BridgeSpec => []CollectionHolds
<1>1. ASSUME BridgeIInv PROVE CollectedTruly
  <2>1. ASSUME NEW t \in Trial, pointer[t] # NoReceipt, ~(calls[t] = 1 /\ pointer[t] = answered[t])
        PROVE  /\ state[t] = "completed" /\ Bound(t)
               /\ pointer[t] = [call |-> calls[t] + 1, answer |-> ranswered[t].answer]
    <3>1. state[t] = "completed" /\ pointer[t] = Collected(t)
      BY <1>1, <2>1 DEF BridgeIInv, HomeInv
    <3>2. receipt[t] = ranswered[t] /\ receipt[t].epoch = epoch[t]
      BY <1>1, <3>1 DEF BridgeIInv, RemoteInv, RemoteRowInv
    <3> QED BY <1>1, <3>1, <3>2, CollectedIs DEF BridgeIInv, Bound
  <2>2. report # {} => report = {<<t, ResultOf(pointer[t])>> : t \in Trial}
    <3>1. SUFFICES ASSUME report # {}
                   PROVE  report = {<<t, ResultOf(pointer[t])>> : t \in Trial}
      OBVIOUS
    <3>2. \A t \in Trial : res[t] = ResultOf(pointer[t])
      BY <1>1, <3>1 DEF BridgeIInv, PublishedInv, HomeInv
    <3>3. {<<t, res[t]>> : t \in Trial} = {<<t, ResultOf(pointer[t])>> : t \in Trial}
      BY <3>2
    <3> QED BY <1>1, <3>1, <3>3 DEF BridgeIInv, PublishedInv
  <2> QED BY <2>1, <2>2 DEF CollectedTruly
<1>2. ASSUME BridgeIInv, NEW w \in Workers
      PROVE  /\ duty[w] = "store" => Bound(at[w])
             /\ duty[w] = "point" =>
                   \/ MayPoint(at[w], Collected(at[w]))
                   \/ calls[at[w]] = 1 /\ pointer[at[w]] = answered[at[w]]
             /\ duty[w] = "grade" => Readable(at[w])
             /\ duty[w] = "finalize" => row[at[w]] = "observed"
  <2>1. DutyOK(w)
    BY <1>2 DEF BridgeIInv, DutyInv
  <2>2. CASE duty[w] \in Collecting
    <3>1. at[w] \in Trial /\ state[at[w]] = "completed"
      BY <2>1, <2>2 DEF DutyOK
    <3>2. Bound(at[w])
      BY <1>2, <3>1 DEF BridgeIInv, RemoteInv, RemoteRowInv, Bound
    <3>3. \/ MayPoint(at[w], Collected(at[w]))
          \/ calls[at[w]] = 1 /\ pointer[at[w]] = answered[at[w]]
      BY <1>2, <3>1 DEF BridgeIInv, HomeInv, MayPoint
    <3>4. duty[w] = "grade" => Readable(at[w])
      BY <1>2, <2>1, <3>1, AlwaysReadable DEF DutyOK
    <3> QED BY <2>1, <3>2, <3>3, <3>4 DEF DutyOK
  <2>3. CASE duty[w] \notin Collecting
    BY <2>3 DEF Collecting
  <2> QED BY <2>2, <2>3
<1>3. BridgeIInv => CollectionHolds
  BY <1>1, <1>2, AlwaysReadable DEF CollectionHolds, CollectNeverRefused
<1> QED BY <1>3, BridgeInvariance, PTL
=============================================================================
