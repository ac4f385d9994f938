------------------------------ MODULE Journal ------------------------------
(***************************************************************************)
(* The experiment journal (experiments/journal.py) and the executor that   *)
(* drains it (experiments/executor.py): one SQLite row per planned trial,  *)
(* content-addressed artifacts, one named receipt pointer per attempt, an  *)
(* OS writer lock, and worker processes that may die between any two       *)
(* durable writes.                                                         *)
(*                                                                         *)
(* Grain.  An action is one durable effect of the code (one transaction,   *)
(* one atomic_write_private, one target call) or the reads between two of  *)
(* them.  atomic_write_private fsyncs a temporary file, renames it and     *)
(* fsyncs the directory, and the writer's connection has synchronous=FULL, *)
(* so each is all or nothing and survives a crash.  Ordinals are 1..N      *)
(* (the code counts from 0).                                               *)
(*                                                                         *)
(* Data.  A receipt is the number of the call it saw and what the target   *)
(* answered; that number stands for the latency and the output that tell   *)
(* two calls apart.  A digest is the content it addresses.                 *)
(***************************************************************************)
EXTENDS Naturals, FiniteSets

CONSTANTS N,         \* planned trials: plan.trials * len(plan.suite.cases)
          Workers,   \* processes that may open the journal for writing
          NoWorker,  \* the writer lock is free
          Limits,    \* values of execute's max_new_trials (N: no limit)
          Ends,      \* values of execute's end_ordinal (N: no end)
          MaxFaults  \* bound on the crashes and refusals of a behaviour

ASSUME JournalAssumption ==
    /\ N \in Nat \ {0}
    /\ NoWorker \notin Workers
    /\ Limits \subseteq 1..N
    /\ Ends \subseteq 1..N
    /\ MaxFaults \in Nat

Trial == 1..N

State == {"queued", "running", "observed", "completed",
          "reconciliation_required", "cancelled"}

\* What a call comes to: an output the suite accepts, one it rejects, or a
\* TargetError (any other exception is recorded as "target_transport").
Answer == {"good", "bad", "error"}

Receipt == [call : Nat \ {0}, answer : Answer]
NoReceipt == [call |-> 0, answer |-> "none"]

\* grade_observation with deterministic metrics: a function of the receipt.
Grade(r) == CASE r.answer = "good"  -> "accepted"
              [] r.answer = "bad"   -> "rejected"
              [] OTHER              -> "infra_error"

Outcome == {"accepted", "rejected", "infra_error"}
Result == [of : Receipt, outcome : Outcome]
NoResult == [of |-> NoReceipt, outcome |-> "none"]
ResultOf(r) == [of |-> r, outcome |-> Grade(r)]

VARIABLES
    \* durable
    row,         \* trials.state
    obs,         \* trials.observation_sha256
    res,         \* trials.result_sha256
    artifacts,   \* artifacts/<sha>.json, with the trial it is bound to
    pointer,     \* receipts/<attempt>.json
    cancelFile,  \* cancel.json exists
    report,      \* report.json: {} or the set of <<trial, result>> exported
    \* processes
    lock,        \* who holds the flock on writer.lock
    pc,          \* where each process is
    at,          \* the ordinal its loop is at
    held,        \* the receipt it has in memory
    seen,        \* the row states its loop iterates over
    left,        \* new trials it may still dispatch
    end,         \* its end_ordinal
    \* history
    calls,       \* target calls made for each trial
    answered,    \* the receipt of what the last call of each trial answered
    lateClaims,  \* claims made once cancel.json existed
    faults       \* crashes and refusals so far

durable == <<row, obs, res, artifacts, pointer, cancelFile, report>>
process == <<lock, pc, at, held, seen, left, end>>
history == <<calls, answered, lateClaims, faults>>
vars == <<durable, process, history>>

PC == {"idle", "recover", "entry", "sweepIn", "status", "loop", "claim",
       "invoke", "calling", "abandon", "sweepOut", "seal", "point", "commit",
       "grade", "finalize", "finish", "export",
       "opRecover", "reconcile", "opSeal", "opPoint", "opCommit"}

TypeOK ==
    /\ row \in [Trial -> State]
    /\ obs \in [Trial -> Receipt \cup {NoReceipt}]
    /\ res \in [Trial -> Result \cup {NoResult}]
    /\ artifacts \subseteq Trial \X (Receipt \cup Result)
    /\ pointer \in [Trial -> Receipt \cup {NoReceipt}]
    /\ cancelFile \in BOOLEAN
    /\ report \subseteq Trial \X Result
    /\ lock \in Workers \cup {NoWorker}
    /\ pc \in [Workers -> PC]
    /\ at \in [Workers -> 1..(N + 1)]
    /\ held \in [Workers -> Receipt \cup {NoReceipt}]
    /\ seen \in [Workers -> [Trial -> State]]
    /\ left \in [Workers -> 0..N]
    /\ end \in [Workers -> 1..N]
    /\ calls \in [Trial -> Nat]
    /\ answered \in [Trial -> Receipt \cup {NoReceipt}]
    /\ lateClaims \in Nat
    /\ faults \in 0..MaxFaults

\* A journal as Journal.create leaves it, and nobody at work.
Init ==
    /\ row = [t \in Trial |-> "queued"]
    /\ obs = [t \in Trial |-> NoReceipt]
    /\ res = [t \in Trial |-> NoResult]
    /\ artifacts = {}
    /\ pointer = [t \in Trial |-> NoReceipt]
    /\ cancelFile = FALSE
    /\ report = {}
    /\ lock = NoWorker
    /\ pc = [w \in Workers |-> "idle"]
    /\ at = [w \in Workers |-> 1]
    /\ held = [w \in Workers |-> NoReceipt]
    /\ seen = [w \in Workers |-> [t \in Trial |-> "queued"]]
    /\ left = [w \in Workers |-> 0]
    /\ end = [w \in Workers |-> N]
    /\ calls = [t \in Trial |-> 0]
    /\ answered = [t \in Trial |-> NoReceipt]
    /\ lateClaims = 0
    /\ faults = 0

-----------------------------------------------------------------------------
\* The journal's own operations

\* _transition: the UPDATE is conditional on the previous state and on
\* having changed one row; the CHECK clause ties the digests to the state.
Transition(t, from, to, o, r) ==
    /\ row[t] = from
    /\ row' = [row EXCEPT ![t] = to]
    /\ obs' = [obs EXCEPT ![t] = o]
    /\ res' = [res EXCEPT ![t] = r]

\* receipt(): the pointer names a stored receipt, which is the observed one.
Readable(t) ==
    /\ pointer[t] # NoReceipt
    /\ <<t, pointer[t]>> \in artifacts
    /\ obs[t] \in {NoReceipt, pointer[t]}

\* result(): the stored result is bound to the receipt.
ResultReadable(t) ==
    /\ Readable(t)
    /\ <<t, res[t]>> \in artifacts
    /\ res[t].of = pointer[t]

\* immutable_json on the pointer: absent, or already the same.
MayPoint(t, r) == pointer[t] \in {NoReceipt, r}

\* status() verifies every row ...
Verified ==
    \A t \in Trial :
        CASE row[t] = "completed" -> ResultReadable(t)
          [] row[t] = "observed"  -> Readable(t)
          [] row[t] = "queued"    -> pointer[t] = NoReceipt
          [] OTHER                -> TRUE

\* Mutant of Status: cancelled trials do not count against completion.
StatusIgnoringCancelled ==
    LET states == {row[t] : t \in Trial} \ {"cancelled"} IN
    IF states = {"completed"}                         THEN "completed"
    ELSE IF "reconciliation_required" \in states THEN "reconciliation_required"
    ELSE IF states = {"queued"}                       THEN "queued"
    ELSE "in_progress"

\* ... and then says the first state that applies.
Status ==
    LET states == {row[t] : t \in Trial} IN
    IF states = {"completed"}                         THEN "completed"
    ELSE IF "reconciliation_required" \in states THEN "reconciliation_required"
    ELSE IF "cancelled" \in states                    THEN "cancelled"
    ELSE IF states = {"queued"}                       THEN "queued"
    ELSE "in_progress"

-----------------------------------------------------------------------------
\* Sessions of one process

Goto(w, label) == pc' = [pc EXCEPT ![w] = label]

\* The process returns or dies: the kernel drops its flock and its memory.
Leave(w) ==
    /\ Goto(w, "idle")
    /\ lock' = NoWorker
    /\ at' = [at EXCEPT ![w] = 1]
    /\ held' = [held EXCEPT ![w] = NoReceipt]
    /\ seen' = [seen EXCEPT ![w] = [t \in Trial |-> "queued"]]
    /\ left' = [left EXCEPT ![w] = 0]
    /\ end' = [end EXCEPT ![w] = N]

\* Journal.open(write=True): a held lock is ExperimentBusy.
Open(w, label) ==
    /\ pc[w] = "idle"
    /\ lock = NoWorker
    /\ lock' = w
    /\ Goto(w, label)
    /\ at' = [at EXCEPT ![w] = 1]

\* execute(max_new_trials=limit, end_ordinal=last)
Resume(w, limit, last) ==
    /\ Open(w, "recover")
    /\ left' = [left EXCEPT ![w] = limit]
    /\ end' = [end EXCEPT ![w] = last]
    /\ UNCHANGED <<durable, held, seen, history>>

\* An operator opens the journal to reconcile an ambiguous trial.
OpenToReconcile(w) ==
    /\ Open(w, "opRecover")
    /\ UNCHANGED <<durable, held, seen, left, end, history>>

\* A session of execute and one of an operator share recover() and the way
\* evidence is stored.
Recovering == {"recover", "opRecover"}
Sealing == {"seal", "opSeal"}
Pointing == {"point", "opPoint"}

\* Mutant of RecoverRow: an abandoned dispatch is queued again.
RecoverRowByRetry(w) ==
    /\ pc[w] \in Recovering
    /\ at[w] \in Trial
    /\ at' = [at EXCEPT ![w] = @ + 1]
    /\ LET t == at[w] IN
       IF row[t] = "running" /\ pointer[t] = NoReceipt
         THEN Transition(t, "running", "queued", NoReceipt, NoResult)
         ELSE UNCHANGED <<row, obs, res>>
    /\ UNCHANGED <<artifacts, pointer, cancelFile, report,
                   lock, pc, held, seen, left, end, history>>

\* Mutant of RecoverRow: an abandoned dispatch is left running.
RecoverRowSealedOnly(w) ==
    /\ pc[w] \in Recovering
    /\ at[w] \in Trial
    /\ at' = [at EXCEPT ![w] = @ + 1]
    /\ LET t == at[w] IN
       IF row[t] \in {"running", "reconciliation_required"} /\ Readable(t)
         THEN Transition(t, row[t], "observed", pointer[t], NoResult)
         ELSE UNCHANGED <<row, obs, res>>
    /\ UNCHANGED <<artifacts, pointer, cancelFile, report,
                   lock, pc, held, seen, left, end, history>>

\* recover(): one transaction per row, in order.
RecoverRow(w) ==
    /\ pc[w] \in Recovering
    /\ at[w] \in Trial
    /\ at' = [at EXCEPT ![w] = @ + 1]
    /\ LET t == at[w] IN
       \/ /\ row[t] \in {"running", "reconciliation_required"}
          /\ pointer[t] # NoReceipt
          /\ Readable(t)
          /\ Transition(t, row[t], "observed", pointer[t], NoResult)
       \/ /\ row[t] = "running"
          /\ pointer[t] = NoReceipt
          /\ Transition(t, "running", "reconciliation_required", NoReceipt, NoResult)
       \/ /\ row[t] # "running"
          /\ row[t] = "reconciliation_required" => pointer[t] = NoReceipt
          /\ UNCHANGED <<row, obs, res>>
    /\ UNCHANGED <<artifacts, pointer, cancelFile, report,
                   lock, pc, held, seen, left, end, history>>

Recovered(w) ==
    /\ pc[w] \in Recovering
    /\ at[w] = N + 1
    /\ at' = [at EXCEPT ![w] = 1]
    /\ Goto(w, IF pc[w] = "recover" THEN "entry" ELSE "reconcile")
    /\ UNCHANGED <<durable, lock, held, seen, left, end, history>>

\* Mutant of Entry: cancellation is only looked at in the loop.
EntryWithoutCancel(w) ==
    /\ pc[w] = "entry"
    /\ Goto(w, "status")
    /\ UNCHANGED <<durable, lock, at, held, seen, left, end, history>>

\* execute: cancel_requested() before the first status.
Entry(w) ==
    /\ pc[w] = "entry"
    /\ Goto(w, IF cancelFile THEN "sweepIn" ELSE "status")
    /\ UNCHANGED <<durable, lock, at, held, seen, left, end, history>>

\* cancel_queued(): one transaction per queued row.
SweepRow(w) ==
    /\ pc[w] \in {"sweepIn", "sweepOut"}
    /\ at[w] \in Trial
    /\ at' = [at EXCEPT ![w] = @ + 1]
    /\ IF row[at[w]] = "queued"
         THEN Transition(at[w], "queued", "cancelled", NoReceipt, NoResult)
         ELSE UNCHANGED <<row, obs, res>>
    /\ UNCHANGED <<artifacts, pointer, cancelFile, report,
                   lock, pc, held, seen, left, end, history>>

Swept(w) ==
    /\ at[w] = N + 1
    /\ \/ pc[w] = "sweepIn" /\ Goto(w, "status")
       \/ pc[w] = "sweepOut" /\ Goto(w, "finish")
    /\ at' = [at EXCEPT ![w] = 1]
    /\ UNCHANGED <<durable, lock, held, seen, left, end, history>>

\* Mutant of CheckStatus: ambiguous trials are skipped and the rest is run.
CheckStatusSkippingAmbiguous(w) ==
    /\ pc[w] = "status"
    /\ Goto(w, "loop")
    /\ at' = [at EXCEPT ![w] = 1]
    /\ seen' = [seen EXCEPT ![w] = [t \in Trial |->
           IF row[t] \in {"reconciliation_required", "cancelled"}
             THEN "completed" ELSE row[t]]]
    /\ UNCHANGED <<durable, lock, held, left, end, history>>

\* execute: an ambiguous or cancelled experiment is left as it is, a
\* completed one only exports; otherwise the loop iterates over these rows.
CheckStatus(w) ==
    /\ pc[w] = "status"
    /\ Verified
    /\ \/ /\ Status \in {"reconciliation_required", "cancelled"}
          /\ Leave(w)
       \/ /\ Status = "completed"
          /\ Goto(w, "export")
          /\ UNCHANGED <<lock, at, held, seen, left, end>>
       \/ /\ Status \notin {"reconciliation_required", "cancelled", "completed"}
          /\ Goto(w, "loop")
          /\ at' = [at EXCEPT ![w] = 1]
          /\ seen' = [seen EXCEPT ![w] = row]
          /\ UNCHANGED <<lock, held, left, end>>
    /\ UNCHANGED <<durable, history>>

\* Mutants of LoopChoice: the pause boundary is not tested; cancel.json is not
\* looked at before a claim; a trial that is not queued is taken for done.
LoopChoiceWithoutLimit(w) ==
    LET t == at[w] IN
    IF t > end[w]                      THEN "finish"
    ELSE IF cancelFile                 THEN "sweepOut"
    ELSE IF seen[w][t] = "completed"   THEN "loop"
    ELSE IF seen[w][t] # "queued"      THEN "grade"
    ELSE "claim"

LoopChoiceWithoutCancel(w) ==
    LET t == at[w] IN
    IF t > end[w]                      THEN "finish"
    ELSE IF seen[w][t] = "completed"   THEN "loop"
    ELSE IF seen[w][t] # "queued"      THEN "grade"
    ELSE IF left[w] = 0                THEN "finish"
    ELSE "claim"

LoopChoiceSkippingObserved(w) ==
    LET t == at[w] IN
    IF t > end[w]                      THEN "finish"
    ELSE IF cancelFile                 THEN "sweepOut"
    ELSE IF seen[w][t] # "queued"      THEN "loop"
    ELSE IF left[w] = 0                THEN "finish"
    ELSE "claim"

\* What the head of the loop decides: end_ordinal, cancel_requested, then
\* the state of the row as it was when the loop began.
LoopChoice(w) ==
    LET t == at[w] IN
    IF t > end[w]                      THEN "finish"
    ELSE IF cancelFile                 THEN "sweepOut"
    ELSE IF seen[w][t] = "completed"   THEN "loop"
    ELSE IF seen[w][t] # "queued"      THEN "grade"
    ELSE IF left[w] = 0                THEN "finish"
    ELSE "claim"

LoopHead(w) ==
    /\ pc[w] = "loop"
    /\ Goto(w, LoopChoice(w))
    /\ at' = [at EXCEPT ![w] = CASE LoopChoice(w) = "loop"     -> @ + 1
                                 [] LoopChoice(w) = "sweepOut" -> 1
                                 [] OTHER                      -> @]
    /\ UNCHANGED <<durable, lock, held, seen, left, end, history>>

\* verify_target, then claim: cancel.json is not looked at again.
Claim(w) ==
    /\ pc[w] = "claim"
    /\ Transition(at[w], "queued", "running", NoReceipt, NoResult)
    /\ Goto(w, "invoke")
    /\ lateClaims' = IF cancelFile THEN lateClaims + 1 ELSE lateClaims
    /\ UNCHANGED <<artifacts, pointer, cancelFile, report,
                   lock, at, held, seen, left, end, calls, answered, faults>>

\* target.invoke: from here on the target may have changed something.
Invoke(w) ==
    /\ pc[w] = "invoke"
    /\ calls' = [calls EXCEPT ![at[w]] = @ + 1]
    /\ Goto(w, "calling")
    /\ UNCHANGED <<durable, lock, at, held, seen, left, end,
                   answered, lateClaims, faults>>

\* The call returns, raises TargetError or anything else: a receipt either way.
Return(w, a) ==
    /\ pc[w] = "calling"
    /\ LET r == [call |-> calls[at[w]], answer |-> a] IN
       /\ held' = [held EXCEPT ![w] = r]
       /\ answered' = [answered EXCEPT ![at[w]] = r]
    /\ Goto(w, "seal")
    /\ UNCHANGED <<durable, lock, at, seen, left, end, calls, lateClaims, faults>>

\* cancel_check saw cancel.json during the call: TargetCancelled.
CallCancelled(w) ==
    /\ pc[w] = "calling"
    /\ cancelFile
    /\ Goto(w, "abandon")
    /\ UNCHANGED <<durable, lock, at, held, seen, left, end, history>>

\* Mutant of Abandon: a cancelled call makes the trial cancelled.
AbandonAsCancelled(w) ==
    /\ pc[w] = "abandon"
    /\ Transition(at[w], "running", "cancelled", NoReceipt, NoResult)
    /\ Goto(w, "sweepOut")
    /\ at' = [at EXCEPT ![w] = 1]
    /\ UNCHANGED <<artifacts, pointer, cancelFile, report,
                   lock, held, seen, left, end, history>>

Abandon(w) ==
    /\ pc[w] = "abandon"
    /\ Transition(at[w], "running", "reconciliation_required", NoReceipt, NoResult)
    /\ Goto(w, "sweepOut")
    /\ at' = [at EXCEPT ![w] = 1]
    /\ UNCHANGED <<artifacts, pointer, cancelFile, report,
                   lock, held, seen, left, end, history>>

\* Mutant of Seal: the pointer is written without its artifact.
SealWithoutArtifact(w) ==
    /\ pc[w] \in Sealing
    /\ Goto(w, IF pc[w] = "seal" THEN "point" ELSE "opPoint")
    /\ UNCHANGED <<durable, lock, at, held, seen, left, end, history>>

\* observe() and reconcile_observation(): the artifact, then the pointer,
\* then the row.
Seal(w) ==
    /\ pc[w] \in Sealing
    /\ artifacts' = artifacts \cup {<<at[w], held[w]>>}
    /\ Goto(w, IF pc[w] = "seal" THEN "point" ELSE "opPoint")
    /\ UNCHANGED <<row, obs, res, pointer, cancelFile, report,
                   lock, at, held, seen, left, end, history>>

Point(w) ==
    /\ pc[w] \in Pointing
    /\ MayPoint(at[w], held[w])
    /\ pointer' = [pointer EXCEPT ![at[w]] = held[w]]
    /\ Goto(w, IF pc[w] = "point" THEN "commit" ELSE "opCommit")
    /\ UNCHANGED <<row, obs, res, artifacts, cancelFile, report,
                   lock, at, held, seen, left, end, history>>

Commit(w) ==
    /\ pc[w] = "commit"
    /\ Readable(at[w])
    /\ Transition(at[w], "running", "observed", held[w], NoResult)
    /\ left' = [left EXCEPT ![w] = @ - 1]
    /\ Goto(w, "grade")
    /\ UNCHANGED <<artifacts, pointer, cancelFile, report,
                   lock, at, held, seen, end, history>>

\* grade_observation on the stored receipt, then complete()'s result artifact.
GradeTrial(w) ==
    /\ pc[w] = "grade"
    /\ Readable(at[w])
    /\ artifacts' = artifacts \cup {<<at[w], ResultOf(pointer[at[w]])>>}
    /\ Goto(w, "finalize")
    /\ UNCHANGED <<row, obs, res, pointer, cancelFile, report,
                   lock, at, held, seen, left, end, history>>

\* The rest of complete(): the conditional transition to a final result.
Finalize(w) ==
    /\ pc[w] = "finalize"
    /\ LET t == at[w]
           r == ResultOf(pointer[t])
       IN  Transition(t, "observed", "completed", pointer[t], r)
    /\ at' = [at EXCEPT ![w] = @ + 1]
    /\ Goto(w, "loop")
    /\ UNCHANGED <<artifacts, pointer, cancelFile, report,
                   lock, held, seen, left, end, history>>

\* The last status of execute, whichever way its loop ended.
Finish(w) ==
    /\ pc[w] = "finish"
    /\ Verified
    /\ IF Status = "completed"
         THEN Goto(w, "export") /\ UNCHANGED <<lock, at, held, seen, left, end>>
         ELSE Leave(w)
    /\ UNCHANGED <<durable, history>>

\* export_report(): replaces report.json with the journal's results.
Export(w) ==
    /\ pc[w] = "export"
    /\ Verified
    /\ Status = "completed"
    /\ report' = {<<t, res[t]>> : t \in Trial}
    /\ Leave(w)
    /\ UNCHANGED <<row, obs, res, artifacts, pointer, cancelFile, history>>

\* reconcile_observation(): under the writer lock an operator brings evidence
\* of the call that was made (candidates/execution.py collects it from the
\* container it owns); the target is not called.
Reconcile(w, t, a) ==
    /\ pc[w] = "reconcile"
    /\ row[t] = "reconciliation_required"
    /\ calls[t] > 0
    /\ answered[t].call = calls[t] => a = answered[t].answer
    /\ LET r == [call |-> calls[t], answer |-> a] IN
       /\ held' = [held EXCEPT ![w] = r]
       /\ answered' = [answered EXCEPT ![t] = r]
    /\ at' = [at EXCEPT ![w] = t]
    /\ Goto(w, "opSeal")
    /\ UNCHANGED <<durable, lock, seen, left, end, calls, lateClaims, faults>>

OpCommit(w) ==
    /\ pc[w] = "opCommit"
    /\ Readable(at[w])
    /\ Transition(at[w], "reconciliation_required", "observed", held[w], NoResult)
    /\ Leave(w)
    /\ UNCHANGED <<artifacts, pointer, cancelFile, report, history>>

\* The operator leaves without evidence.
GiveUp(w) ==
    /\ pc[w] = "reconcile"
    /\ Leave(w)
    /\ UNCHANGED <<durable, history>>

\* SIGKILL, Ctrl-C, a changed evaluator or target identity, a failing disk: the
\* session ends where it stands and only the durable state is left.  A target
\* in flight is not waited for.
Crash(w) ==
    /\ pc[w] # "idle"
    /\ faults < MaxFaults
    /\ faults' = faults + 1
    /\ Leave(w)
    /\ UNCHANGED <<durable, calls, answered, lateClaims>>

\* request_cancel(): any process, without the writer lock.
RequestCancel ==
    /\ ~cancelFile
    /\ cancelFile' = TRUE
    /\ UNCHANGED <<row, obs, res, artifacts, pointer, report, process, history>>

\* The steps a session takes on its own once it is open.
Advance(w) ==
    \/ RecoverRow(w) \/ Recovered(w) \/ Entry(w) \/ SweepRow(w) \/ Swept(w)
    \/ CheckStatus(w) \/ LoopHead(w) \/ Claim(w) \/ Invoke(w)
    \/ (\E a \in Answer : Return(w, a)) \/ CallCancelled(w) \/ Abandon(w)
    \/ Seal(w) \/ Point(w) \/ Commit(w) \/ GradeTrial(w) \/ Finalize(w)
    \/ Finish(w) \/ Export(w)
    \/ (\E t \in Trial, a \in Answer : Reconcile(w, t, a))
    \/ OpCommit(w) \/ GiveUp(w)

Next ==
    \/ \E w \in Workers :
        \/ \E limit \in Limits, last \in Ends : Resume(w, limit, last)
        \/ OpenToReconcile(w)
        \/ Advance(w)
        \/ Crash(w)
    \/ RequestCancel

Spec == Init /\ [][Next]_vars

-----------------------------------------------------------------------------
\* Fairness.  A live process takes its next step and a call ends (every target
\* has a deadline); an operator who keeps resuming sometimes resumes without
\* a pause boundary.  Nothing is assumed of crashes, of cancellation, or of an
\* operator's evidence.
ResumeInFull == \E w \in Workers : Resume(w, N, N)

Fairness ==
    /\ \A w \in Workers : WF_vars(Advance(w))
    /\ SF_vars(ResumeInFull)

LiveSpec == Spec /\ Fairness

-----------------------------------------------------------------------------
\* Safety

\* The target of a trial is called at most once, whatever crashes, pauses,
\* resumes, cancellations and reconciliations happen ("never replay ambiguous
\* calls", executor.py:1).
CalledAtMostOnce == \A t \in Trial : calls[t] <= 1

\* A sealed receipt can be read back and says what the one call of its trial
\* answered, a final result grades exactly that, and no row without a call
\* has one.
SealedEvidence == \A t \in Trial :
    /\ pointer[t] # NoReceipt =>
          /\ <<t, pointer[t]>> \in artifacts
          /\ pointer[t] = answered[t]
          /\ row[t] \notin {"queued", "cancelled"}
    /\ row[t] \in {"observed", "completed"} =>
          /\ pointer[t] # NoReceipt
          /\ obs[t] = pointer[t]
    /\ row[t] = "completed" =>
          /\ <<t, res[t]>> \in artifacts
          /\ res[t] = ResultOf(answered[t])

\* report.json, once written, holds one result for every planned trial, and
\* each grades the answer of a call that was made exactly once.
ReportIsComplete ==
    report # {} =>
        /\ report = {<<t, ResultOf(answered[t])>> : t \in Trial}
        /\ \A t \in Trial : row[t] = "completed" /\ calls[t] = 1

\* Between the check of cancel.json and the claim another process may cancel:
\* one claim can slip through, however often sessions restart, never two.
OneLateClaim == lateClaims <= 1

\* However sessions crash, resume and race a cancellation, no call is repeated
\* and at most one starts after the cancellation ("never replay ambiguous
\* calls", executor.py:1).
CallsAreBounded == CalledAtMostOnce /\ OneLateClaim

\* From the receipt to the report, the evidence of a trial is what its one call
\* answered, complete and never changed.
EvidenceStands == SealedEvidence /\ ReportIsComplete

\* The conditions under which the journal's own operations raise JournalError
\* in a session: a refused transition, an unreadable receipt, an immutable
\* pointer conflict, a row that fails status().
Raises(w) ==
    \/ /\ pc[w] \in Recovering
       /\ at[w] \in Trial
       /\ row[at[w]] \in {"running", "reconciliation_required"}
       /\ pointer[at[w]] # NoReceipt
       /\ ~Readable(at[w])
    \/ pc[w] \in {"status", "finish", "export"} /\ ~Verified
    \/ pc[w] = "claim" /\ row[at[w]] # "queued"
    \/ pc[w] = "abandon" /\ row[at[w]] # "running"
    \/ pc[w] \in Pointing /\ ~MayPoint(at[w], held[w])
    \/ pc[w] = "commit" /\ ~(Readable(at[w]) /\ row[at[w]] = "running")
    \/ pc[w] = "opCommit"
       /\ ~(Readable(at[w]) /\ row[at[w]] = "reconciliation_required")
    \/ pc[w] = "grade" /\ ~Readable(at[w])
    \/ pc[w] = "finalize" /\ row[at[w]] # "observed"
    \/ pc[w] = "export" /\ Status # "completed"

\* Crashes, cancellation and reconciliation never leave a journal that a later
\* session refuses: none of those errors is reachable through these operations.
NeverRefused == \A w \in Workers : ~Raises(w)

\* An ambiguous trial stops the whole experiment, and so does a cancelled one:
\* while there is one, no other trial is claimed (docs/experiments.md:90).
AmbiguityHalts == [][
    (\E t \in Trial : row[t] = "queued" /\ row'[t] = "running") =>
        \A u \in Trial : row[u] \in {"queued", "completed"}]_vars

-----------------------------------------------------------------------------
\* Refinement: a trial is sealed by its receipt pointer, before the row says
\* so.

PhaseOf(t) ==
    CASE row[t] = "queued"    -> "planned"
      [] row[t] = "cancelled" -> "withdrawn"
      [] row[t] = "completed" -> "final"
      [] OTHER -> IF pointer[t] # NoReceipt   THEN "sealed"
                  ELSE IF row[t] = "running" THEN "committed"
                  ELSE "unknown"

Lifecycle == INSTANCE TrialLifecycle WITH
    Evidence   <- Receipt,
    NoEvidence <- NoReceipt,
    phase      <- [t \in Trial |-> PhaseOf(t)],
    evidence   <- pointer,
    called     <- [t \in Trial |-> calls[t] > 0]

\* Every step of the journal is a step of one trial's life, or none.
ImplementsLifecycle == Lifecycle!Spec

-----------------------------------------------------------------------------
\* Liveness

\* Once crashes stop, an experiment that is resumed and that nobody cancels
\* completes, or stands ambiguous for good.
Settles == <>[](cancelFile \/ Status \in {"completed", "reconciliation_required"})

\* A persisted cancellation leaves no trial queued or running.
CancelDrains ==
    cancelFile ~> [](\A t \in Trial : row[t] \notin {"queued", "running"})

\* "Resume grades any saved observations" (docs/experiments.md:42).
SavedObservationsGraded ==
    \A t \in Trial : (row[t] = "observed") ~> (row[t] = "completed")
=============================================================================
