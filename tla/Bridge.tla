------------------------------- MODULE Bridge -------------------------------
(***************************************************************************)
(* Distributed experiments (distributed/bridge.py): the local journal of   *)
(* Journal.tla, whose trials are submitted under their attempt IDs to the  *)
(* queue and workers of Fleet.tla, collected back, and cancelled in both.  *)
(*                                                                         *)
(* A submission, a collection and a cancellation are sessions of a local   *)
(* process under the journal's writer lock, like a session of execute; its *)
(* steps alternate between the journal's durable writes and the queue's    *)
(* transactions, and it can die between any two.                           *)
(*                                                                         *)
(* Row i of the queue is trial i.  A collected receipt is numbered by the  *)
(* calls its attempt has had, local and remote.                            *)
(***************************************************************************)
EXTENDS Journal

CONSTANTS Proc, Worker, Name,  \* the remote workers (see Fleet)
          Reservation, RemoteLimits, MaxEpoch, Unmeasured, NoRemote,
          MaxRemoteFaults

ASSUME BridgeAssumption ==
    /\ NoWorker \notin Worker
    /\ Name \in [Proc -> Worker]
    /\ Reservation \in [Trial -> Nat]
    /\ RemoteLimits \subseteq Nat
    /\ Unmeasured \notin Nat
    /\ NoRemote \notin [epoch : 1..MaxEpoch, answer : Answer]
    /\ MaxEpoch \in Nat
    /\ MaxRemoteFaults \in Nat

VARIABLES
    limit, reserved, spent, peak, state, epoch, worker, live, cancelRequested,
    receipt, measured, told,                             \* the queue
    rpc, item, ticket, lost, kept, rcalls, ranswered, rfaults,  \* its workers
    duty       \* what each local process is doing with the bridge

Remote == INSTANCE Fleet WITH
    pc <- rpc, calls <- rcalls, answered <- ranswered, faults <- rfaults,
    Limits <- RemoteLimits, Jobs <- {}, Measures <- {},
    Receipt <- [epoch : 1..MaxEpoch, answer : Answer],
    NoReceipt <- NoRemote, MaxFaults <- MaxRemoteFaults

queue == <<limit, reserved, spent, peak, state, epoch, worker, live,
           cancelRequested, receipt, measured, told>>
fleet == <<rpc, item, ticket, lost, kept, rcalls, ranswered, rfaults>>
files == <<artifacts, pointer, cancelFile, report>>
rows == <<row, obs, res>>
local == <<held, seen, left, end, history>>
bridgeVars == <<vars, queue, fleet, duty>>

Duty == {"none", "check", "submit", "enqueue", "collect", "store", "point",
         "recover", "grade", "finalize", "export", "cancel", "withdraw"}

BridgeTypeOK ==
    /\ TypeOK
    /\ Remote!TypeOK
    /\ Remote!FleetTypeOK
    /\ duty \in [Workers -> Duty]

BridgeInit ==
    /\ Init
    /\ Remote!FleetInit
    /\ duty = [w \in Workers |-> "none"]

-----------------------------------------------------------------------------
\* Sessions

Do(w, d) == duty' = [duty EXCEPT ![w] = d]
GoOn(w) == at' = [at EXCEPT ![w] = @ + 1]

\* The session takes the writer lock and starts at the first row.
Begin(w, d) ==
    /\ pc[w] = "idle" /\ duty[w] = "none" /\ lock = NoWorker
    /\ lock' = w
    /\ at' = [at EXCEPT ![w] = 1]
    /\ Do(w, d)
    /\ UNCHANGED <<rows, files, pc, local, queue, fleet>>

\* It returns or raises.
End(w) ==
    /\ Do(w, "none")
    /\ lock' = NoWorker
    /\ at' = [at EXCEPT ![w] = 1]

\* recover() reads the receipt of every row it is to observe.
Recoverable == \A t \in Trial :
    row[t] \in {"running", "reconciliation_required"} /\ pointer[t] # NoReceipt
        => Readable(t)

\* recover(): all its rows.  Each is a transaction of its own; Journal.tla
\* interrupts it between them, here it is one step.
RecoverAll ==
    /\ Recoverable
    /\ LET To(t) ==
             IF row[t] \in {"running", "reconciliation_required"} /\ pointer[t] # NoReceipt
               THEN "observed"
             ELSE IF row[t] = "running" THEN "reconciliation_required"
             ELSE row[t]
       IN  /\ row' = [t \in Trial |-> To(t)]
           /\ obs' = [t \in Trial |->
                  IF To(t) = "observed" THEN pointer[t] ELSE obs[t]]
           /\ UNCHANGED res

-----------------------------------------------------------------------------
\* enqueue_experiment

Submit(w) == Begin(w, "check")

\* status(), and no new work once cancel.json exists.
SubmitCheck(w) ==
    /\ duty[w] = "check"
    /\ \/ /\ Verified /\ ~cancelFile
          /\ Do(w, "submit")
          /\ UNCHANGED <<lock, at>>
       \/ (~Verified \/ cancelFile) /\ End(w)
    /\ UNCHANGED <<rows, files, pc, local, queue, fleet>>

SubmitRow(w) ==
    /\ duty[w] = "submit" /\ at[w] \in Trial
    /\ \/ /\ row[at[w]] \in {"completed", "observed", "cancelled"}
          /\ GoOn(w)
          /\ UNCHANGED <<rows, duty>>
       \/ /\ Transition(at[w], "queued", "running", NoReceipt, NoResult)
          /\ Do(w, "enqueue")
          /\ UNCHANGED at
       \/ /\ row[at[w]] \in {"running", "reconciliation_required"}
          /\ Do(w, "enqueue")
          /\ UNCHANGED <<rows, at>>
    /\ UNCHANGED <<files, lock, pc, local, queue, fleet>>

\* Mutant of EnqueueRow: a row that exists is queued afresh.
EnqueueRowAfresh(w) ==
    /\ duty[w] = "enqueue"
    /\ \/ Remote!Enqueue(at[w])
       \/ /\ state[at[w]] = "dispatched"
          /\ Remote!Become(at[w], "queued")
          /\ UNCHANGED <<limit, reserved, spent, peak, epoch, worker, live,
                         cancelRequested, receipt, measured, told>>
       \/ state[at[w]] \notin {"absent", "dispatched"} /\ UNCHANGED queue
    /\ GoOn(w)
    /\ Do(w, "submit")
    /\ UNCHANGED <<rows, files, lock, pc, local, fleet>>

\* queue.enqueue: inserts the row, or finds the same one.
EnqueueRow(w) ==
    /\ duty[w] = "enqueue"
    /\ Remote!Enqueue(at[w]) \/ (state[at[w]] # "absent" /\ UNCHANGED queue)
    /\ GoOn(w)
    /\ Do(w, "submit")
    /\ UNCHANGED <<rows, files, lock, pc, local, fleet>>

SubmitDone(w) ==
    /\ duty[w] = "submit" /\ at[w] = N + 1
    /\ End(w)
    /\ UNCHANGED <<rows, files, pc, local, queue, fleet>>

-----------------------------------------------------------------------------
\* collect_experiment

Collect(w) == Begin(w, "collect")

\* A completed row is skipped, an unknown one raises KeyError, one that is not
\* settled remotely is left for later.
CollectRow(w) ==
    /\ duty[w] = "collect" /\ at[w] \in Trial
    /\ \/ /\ row[at[w]] # "completed" /\ state[at[w]] = "absent"
          /\ End(w)
       \/ /\ row[at[w]] = "completed" \/ state[at[w]] \notin {"absent", "completed"}
          /\ GoOn(w)
          /\ UNCHANGED <<duty, lock>>
       \/ /\ row[at[w]] # "completed" /\ state[at[w]] = "completed"
          /\ Do(w, "store")
          /\ UNCHANGED <<lock, at>>
    /\ UNCHANGED <<rows, files, pc, local, queue, fleet>>

\* Mutants of Collected: the attempt's own calls only; an error is taken for
\* an output.
CollectedUncounted(t) == [call |-> calls[t], answer |-> receipt[t].answer]
CollectedAsOutput(t) ==
    [call |-> calls[t] + rcalls[t],
     answer |-> IF receipt[t].answer = "error" THEN "bad" ELSE receipt[t].answer]

\* The worker's receipt as a local one.  Its epoch must be the row's.
Collected(t) == [call |-> calls[t] + rcalls[t], answer |-> receipt[t].answer]
Bound(t) == receipt[t].epoch = epoch[t]

CollectStore(w) ==
    /\ duty[w] = "store"
    /\ Bound(at[w])
    /\ artifacts' = artifacts \cup {<<at[w], Collected(at[w])>>}
    /\ Do(w, "point")
    /\ UNCHANGED <<rows, pointer, cancelFile, report, lock, pc, at, local,
                   queue, fleet>>

\* immutable_json finds no receipt of the attempt, or the same one; another,
\* which a local call left, is a conflict and raises.  The receipts of two calls
\* differ in their latency, but an error has none: two may be the same.
CollectPoint(w) ==
    /\ duty[w] = "point"
    /\ LET t == at[w] IN
       \/ /\ MayPoint(t, Collected(t))
          /\ pointer' = [pointer EXCEPT ![t] = Collected(t)]
          /\ Do(w, "recover")
          /\ UNCHANGED <<lock, at>>
       \/ /\ ~MayPoint(t, Collected(t))
          /\ pointer[t].answer = "error" /\ receipt[t].answer = "error"
          /\ Do(w, "recover")
          /\ UNCHANGED <<pointer, lock, at>>
       \/ /\ ~MayPoint(t, Collected(t))
          /\ End(w)
          /\ UNCHANGED pointer
    /\ UNCHANGED <<rows, artifacts, cancelFile, report, pc, local, queue, fleet>>

\* Mutant of CollectRecover: the row is not observed before it is completed.
CollectWithoutRecover(w) ==
    /\ duty[w] = "recover"
    /\ Do(w, "grade")
    /\ UNCHANGED <<rows, files, lock, pc, at, local, queue, fleet>>

CollectRecover(w) ==
    /\ duty[w] = "recover"
    /\ RecoverAll
    /\ Do(w, "grade")
    /\ UNCHANGED <<files, lock, pc, at, local, queue, fleet>>

CollectGrade(w) ==
    /\ duty[w] = "grade"
    /\ Readable(at[w])
    /\ artifacts' = artifacts \cup {<<at[w], ResultOf(pointer[at[w]])>>}
    /\ Do(w, "finalize")
    /\ UNCHANGED <<rows, pointer, cancelFile, report, lock, pc, at, local,
                   queue, fleet>>

CollectFinalize(w) ==
    /\ duty[w] = "finalize"
    /\ Transition(at[w], "observed", "completed", pointer[at[w]],
                  ResultOf(pointer[at[w]]))
    /\ GoOn(w)
    /\ Do(w, "collect")
    /\ UNCHANGED <<files, lock, pc, local, queue, fleet>>

\* The last status, and the report when every row is completed.
CollectDone(w) ==
    /\ duty[w] = "collect" /\ at[w] = N + 1
    /\ Verified
    /\ report' = IF Status = "completed" THEN {<<t, res[t]>> : t \in Trial}
                 ELSE report
    /\ End(w)
    /\ UNCHANGED <<rows, artifacts, pointer, cancelFile, pc, local, queue, fleet>>

-----------------------------------------------------------------------------
\* cancel_experiment: request_cancel() is Journal's RequestCancel; a journal
\* that is busy is cancelled by calling it again.

CancelBoth(w) == cancelFile /\ Begin(w, "cancel")

\* Mutant of CancelRow: the row is cancelled whatever the queue answered.
CancelRowAnyway(w) ==
    /\ duty[w] = "cancel" /\ at[w] \in Trial
    /\ LET t == at[w] IN
       \/ /\ row[t] \in {"completed", "observed", "cancelled"}
          /\ GoOn(w)
          /\ UNCHANGED <<queue, duty>>
       \/ /\ row[t] \notin {"completed", "observed", "cancelled"}
          /\ \/ Remote!Cancel(t) /\ ~cancelRequested[t]
             \/ UNCHANGED queue /\
                  (state[t] \in {"absent", "completed", "cancelled"} \/ cancelRequested[t])
          /\ Do(w, "withdraw") /\ UNCHANGED at
    /\ UNCHANGED <<rows, files, lock, pc, local, fleet>>

\* queue.cancel() of every row that is not settled locally.  A row the queue
\* does not know was never sent; one it already settled keeps its outcome; a
\* repeated cancellation only counts the epoch up (see WorkQueue).
CancelRow(w) ==
    /\ duty[w] = "cancel" /\ at[w] \in Trial
    /\ LET t == at[w] IN
       \/ /\ row[t] \in {"completed", "observed", "cancelled"}
          /\ GoOn(w)
          /\ UNCHANGED <<queue, duty>>
       \/ /\ row[t] \notin {"completed", "observed", "cancelled"}
          /\ \/ Remote!Cancel(t) /\ ~cancelRequested[t]
             \/ UNCHANGED queue /\
                  (state[t] \in {"absent", "completed", "cancelled"} \/ cancelRequested[t])
          /\ IF state'[t] \in {"absent", "cancelled"}
               THEN Do(w, "withdraw") /\ UNCHANGED at
               ELSE GoOn(w) /\ UNCHANGED duty
    /\ UNCHANGED <<rows, files, lock, pc, local, fleet>>

CancelLocal(w) ==
    /\ duty[w] = "withdraw"
    /\ Transition(at[w], row[at[w]], "cancelled", NoReceipt, NoResult)
    /\ GoOn(w)
    /\ Do(w, "cancel")
    /\ UNCHANGED <<files, lock, pc, local, queue, fleet>>

CancelDone(w) ==
    /\ duty[w] = "cancel" /\ at[w] = N + 1
    /\ RecoverAll
    /\ End(w)
    /\ UNCHANGED <<files, pc, local, queue, fleet>>

-----------------------------------------------------------------------------
\* The whole

\* A bridge session dies.
BridgeCrash(w) ==
    /\ duty[w] # "none"
    /\ faults < MaxFaults
    /\ faults' = faults + 1
    /\ End(w)
    /\ UNCHANGED <<rows, files, pc, held, seen, left, end, calls, answered,
                   lateClaims, queue, fleet>>

BridgeAdvance(w) ==
    \/ SubmitCheck(w) \/ SubmitRow(w) \/ EnqueueRow(w) \/ SubmitDone(w)
    \/ CollectRow(w) \/ CollectStore(w) \/ CollectPoint(w) \/ CollectRecover(w)
    \/ CollectGrade(w) \/ CollectFinalize(w) \/ CollectDone(w)
    \/ CancelRow(w) \/ CancelLocal(w) \/ CancelDone(w)

\* execute may be run on the experiment at any time, before it is submitted,
\* between two submissions or after them; it may pause (reconcile_observation is
\* for candidates only).
LocalRun(w) ==
    /\ duty[w] = "none"
    /\ \/ \E m \in Limits, last \in Ends : Resume(w, m, last)
       \/ Advance(w)
       \/ Crash(w)
    /\ UNCHANGED <<queue, fleet, duty>>

RequestCancellation == RequestCancel /\ UNCHANGED <<queue, fleet, duty>>

\* The queue's workers, leases and reconciliation.
RemoteRun ==
    /\ \/ \E p \in Proc :
            \/ Remote!Start(p) \/ Remote!Advance(p)
            \/ Remote!Notice(p) \/ Remote!Crash(p)
       \/ \E i \in Trial : Remote!RunOut(i) \/ Remote!LateHeartbeat(i)
       \/ Remote!Sweep
    /\ UNCHANGED <<vars, duty>>

BridgeNext ==
    \/ \E w \in Workers :
        \/ Submit(w) \/ Collect(w) \/ CancelBoth(w)
        \/ BridgeAdvance(w) \/ BridgeCrash(w)
        \/ LocalRun(w)
    \/ RequestCancellation
    \/ RemoteRun

BridgeSpec == BridgeInit /\ [][BridgeNext]_bridgeVars

-----------------------------------------------------------------------------
\* Properties

\* An attempt is called at most once by this side and at most once by the
\* other, and this side never calls what the queue has: whatever dies between a
\* claim and its submission, is submitted again or executed afterwards, "the
\* queue cannot dispatch an existing work record a second time"
\* (bridge.py:38-39) and execute does not dispatch it either.
CallsStayApart ==
    /\ \A t \in Trial : calls[t] <= 1 /\ rcalls[t] <= 1
    /\ \A w \in Workers :
          pc[w] \in {"invoke", "calling"} => state[at[w]] = "absent"

\* Violated: an ambiguous dispatch is never retried (docs/experiments.md:99-103,
\* "never replay ambiguous calls", executor.py:1).  enqueue_experiment sends a
\* row that execute claimed, called and did not live to seal.
AttemptCalledAtMostOnce == \A t \in Trial : calls[t] + rcalls[t] <= 1

\* A trial the journal calls cancelled was never called remotely and never will
\* be, whatever worker held it when the cancellation came, and nobody is about to
\* call it here: its queue row, if it has one, is cancelled too (bridge.py:119-125).
CancelledNeverSent == \A t \in Trial :
    row[t] = "cancelled" =>
        /\ rcalls[t] = 0
        /\ state[t] \in {"absent", "cancelled"}
        /\ \A w \in Workers : at[w] = t => pc[w] \notin {"invoke", "calling"}

\* Violated: a trial called cancelled was not called at all ("A stopped active
\* invocation without a sealed observation becomes reconciliation-required",
\* docs/experiments.md:197-199).  cancel_experiment takes a row the queue does
\* not know for one that never ran, and cancels what execute called.
CancelledNeverCalled == \A t \in Trial :
    row[t] = "cancelled" => calls[t] + rcalls[t] = 0

\* Evidence is what one call answered: the local one, or the remote one, settled
\* there under the epoch it was made in and not mixed up with a local call that
\* was made before it; the report grades nothing else.
CollectedTruly ==
    /\ \A t \in Trial :
          pointer[t] # NoReceipt =>
              \/ calls[t] = 1 /\ pointer[t] = answered[t]
              \/ /\ state[t] = "completed" /\ Bound(t)
                 /\ pointer[t] =
                       [call |-> calls[t] + 1, answer |-> ranswered[t].answer]
    /\ report # {} => report = {<<t, ResultOf(pointer[t])>> : t \in Trial}

\* No collection meets a binding mismatch or a refused transition, whatever died
\* before it, and no receipt but that of a local call is in its way.
CollectNeverRefused == \A w \in Workers :
    /\ duty[w] = "store" => Bound(at[w])
    /\ duty[w] = "point" =>
          \/ MayPoint(at[w], Collected(at[w]))
          \/ calls[at[w]] = 1 /\ pointer[at[w]] = answered[at[w]]
    /\ duty[w] = "grade" => Readable(at[w])
    /\ duty[w] = "finalize" => row[at[w]] = "observed"
    /\ duty[w] = "collect" => Verified
    /\ duty[w] \in {"recover", "cancel"} => Recoverable

\* Collection, whenever it dies and is repeated, brings home exactly what the
\* remote calls answered, and nothing but a receipt that execute had sealed of the
\* same attempt stops it (collect_experiment).
CollectionHolds == CollectedTruly /\ CollectNeverRefused
=============================================================================
