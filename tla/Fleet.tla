------------------------------- MODULE Fleet -------------------------------
(***************************************************************************)
(* Worker processes (distributed/worker.py) on the queue of WorkQueue.tla: *)
(* each run of work_once claims one row, keeps a heartbeat thread beside   *)
(* it, dispatches, calls the target or creates the Kubernetes Job          *)
(* (distributed/kubernetes.py), and completes or walks away.               *)
(*                                                                         *)
(* Every step on the queue is one of WorkQueue's transactions; a step of   *)
(* the process between two of them touches only its own memory or the      *)
(* target.  Two processes may run under one worker name: nothing in the    *)
(* code keeps names apart, only epochs do.                                 *)
(*                                                                         *)
(* A transaction whose reply is lost is one after which the process dies.  *)
(***************************************************************************)
EXTENDS WorkQueue

CONSTANTS Proc,      \* worker processes
          Name,      \* the worker_id each is started with
          Jobs,      \* the rows whose payload is a Kubernetes Job
          Answer,    \* what a target can answer (an output or an error code)
          MaxFaults  \* bound on crashes, late or failed heartbeats, refused
                     \* Jobs and changes of the limit

ASSUME FleetAssumption ==
    /\ Name \in [Proc -> Worker]
    /\ Jobs \subseteq Item
    /\ Receipt = [epoch : 1..MaxEpoch, answer : Answer]
    /\ MaxFaults \in Nat

VARIABLES
    pc,        \* where each process is in work_once
    item,      \* the row it claimed
    ticket,    \* the epoch its claim returned
    lost,      \* the Event its heartbeat thread sets
    kept,      \* the receipt it built
    calls,     \* history: calls of each row's target, or Jobs created
    answered,  \* history: the receipt of what the last call answered
    faults

memory == <<pc, item, ticket, lost, kept>>
world == <<calls, answered>>
fleetVars == <<vars, memory, world, faults>>

FleetTypeOK ==
    /\ pc \in [Proc -> {"idle", "claimed", "dispatched", "calling", "returned", "refused",
                   "settled"}]
    /\ item \in [Proc -> Item \cup {0}]
    /\ ticket \in [Proc -> 0..MaxEpoch]
    /\ lost \in [Proc -> BOOLEAN]
    /\ kept \in [Proc -> Receipt \cup {NoReceipt}]
    /\ calls \in [Item -> Nat]
    /\ answered \in [Item -> Receipt \cup {NoReceipt}]
    /\ faults \in 0..MaxFaults

FleetInit ==
    /\ Init
    /\ pc = [p \in Proc |-> "idle"]
    /\ item = [p \in Proc |-> 0]
    /\ ticket = [p \in Proc |-> 0]
    /\ lost = [p \in Proc |-> FALSE]
    /\ kept = [p \in Proc |-> NoReceipt]
    /\ calls = [i \in Item |-> 0]
    /\ answered = [i \in Item |-> NoReceipt]
    /\ faults = 0

Goto(p, label) == pc' = [pc EXCEPT ![p] = label]
Fault == faults < MaxFaults /\ faults' = faults + 1

\* work_once returns or raises: its thread stops and its memory is gone.
Leave(p) ==
    /\ Goto(p, "idle")
    /\ item' = [item EXCEPT ![p] = 0]
    /\ ticket' = [ticket EXCEPT ![p] = 0]
    /\ lost' = [lost EXCEPT ![p] = FALSE]
    /\ kept' = [kept EXCEPT ![p] = NoReceipt]

\* The lease of its claim is still the process's own.
Holds(p) == Locked(item[p], Name[p], ticket[p])

-----------------------------------------------------------------------------
\* work_once

Start(p) ==
    /\ pc[p] = "idle"
    /\ \E i \in Item :
        /\ Claim(Name[p], i)
        /\ item' = [item EXCEPT ![p] = i]
        /\ ticket' = [ticket EXCEPT ![p] = epoch[i] + 1]
    /\ Goto(p, "claimed")
    /\ UNCHANGED <<lost, kept, world, faults>>

\* dispatch() succeeds, or raises LeaseLost and the process returns.
StartDispatch(p) ==
    /\ pc[p] = "claimed"
    /\ \/ /\ Dispatch(item[p], Name[p], ticket[p])
          /\ Goto(p, "dispatched")
          /\ UNCHANGED <<item, ticket, lost, kept>>
       \/ /\ ~Holds(p) \/ cancelRequested[item[p]] \/ state[item[p]] # "leased"
          /\ Leave(p)
          /\ UNCHANGED vars
    /\ UNCHANGED <<world, faults>>

\* target.invoke or kubectl create: the outside world has been touched.
Invoke(p) ==
    /\ pc[p] = "dispatched"
    /\ calls' = [calls EXCEPT ![item[p]] = @ + 1]
    /\ Goto(p, "calling")
    /\ UNCHANGED <<vars, item, ticket, lost, kept, answered, faults>>

\* The quota refuses the Job: AdmissionDelayed, nothing was created.
Refused(p) ==
    /\ pc[p] = "dispatched"
    /\ item[p] \in Jobs
    /\ Fault
    /\ Goto(p, "refused")
    /\ UNCHANGED <<vars, item, ticket, lost, kept, world>>

\* defer_uncreated() puts the row back, or raises LeaseLost out of work_once.
GiveBack(p) ==
    /\ pc[p] = "refused"
    /\ \/ Defer(item[p], Name[p], ticket[p])
       \/ ~Holds(p) /\ UNCHANGED vars
    /\ Leave(p)
    /\ UNCHANGED <<world, faults>>

\* Mutant of Return: the receipt is stamped with the row's epoch, not the
\* claim's.
ReturnRowEpoch(p, a) ==
    /\ pc[p] = "calling"
    /\ ~lost[p]
    /\ LET r == [epoch |-> epoch[item[p]], answer |-> a] IN
       /\ kept' = [kept EXCEPT ![p] = r]
       /\ answered' = [answered EXCEPT ![item[p]] = r]
    /\ Goto(p, "returned")
    /\ UNCHANGED <<vars, item, ticket, lost, calls, faults>>

\* The call ends with an output or an error while the lease is not known to be
\* lost: the receipt carries the epoch of the claim.
Return(p, a) ==
    /\ pc[p] = "calling"
    /\ ~lost[p]
    /\ LET r == [epoch |-> ticket[p], answer |-> a] IN
       /\ kept' = [kept EXCEPT ![p] = r]
       /\ answered' = [answered EXCEPT ![item[p]] = r]
    /\ Goto(p, "returned")
    /\ UNCHANGED <<vars, item, ticket, lost, calls, faults>>

\* TargetCancelled, or the check of lost after the call.
WalkAway(p) ==
    /\ pc[p] = "calling"
    /\ lost[p]
    /\ Leave(p)
    /\ UNCHANGED <<vars, world, faults>>

\* complete() raises LeaseLost.
NotSettled(p) ==
    /\ \/ ~Holds(p)
       \/ state[item[p]] # "dispatched"
       \/ cancelRequested[item[p]]
    /\ UNCHANGED vars

\* Mutant of Settle: the Job is cleaned up after a refused completion as well.
SettleRegardless(p) ==
    /\ pc[p] = "returned"
    /\ \/ Complete(item[p], Name[p], ticket[p], kept[p], Unmeasured)
       \/ NotSettled(p)
    /\ IF item[p] \in Jobs
          THEN Goto(p, "settled") /\ UNCHANGED <<item, ticket, lost, kept>>
          ELSE Leave(p)
    /\ UNCHANGED <<world, faults>>

\* complete() settles the row, and a Job is left to be removed; or it raises
\* and the answer is dropped.
Settle(p) ==
    /\ pc[p] = "returned"
    /\ \/ /\ Complete(item[p], Name[p], ticket[p], kept[p], Unmeasured)
          /\ IF item[p] \in Jobs
                THEN Goto(p, "settled") /\ UNCHANGED <<item, ticket, lost, kept>>
                ELSE Leave(p)
       \/ NotSettled(p) /\ Leave(p)
    /\ UNCHANGED <<world, faults>>

\* cleanup_job() removes the Job, or the worker says that it could not.
CleanUp(p) ==
    /\ pc[p] = "settled"
    /\ CleanupRequired(item[p], ticket[p]) \/ UNCHANGED vars
    /\ Leave(p)
    /\ UNCHANGED <<world, faults>>

\* The heartbeat thread finds the lease gone ...
Notice(p) ==
    /\ pc[p] # "idle"
    /\ ~lost[p]
    /\ ~Holds(p)
    /\ lost' = [lost EXCEPT ![p] = TRUE]
    /\ UNCHANGED <<vars, pc, item, ticket, kept, world, faults>>

\* ... or cannot reach the database, and gives up what it still holds.
LoseContact(p) ==
    /\ pc[p] # "idle"
    /\ ~lost[p]
    /\ Holds(p)
    /\ Fault
    /\ lost' = [lost EXCEPT ![p] = TRUE]
    /\ UNCHANGED <<vars, pc, item, ticket, kept, world>>

\* The process is killed, or an error that is neither LeaseLost nor
\* AdmissionDelayed (a bad payload, a changed file, an uncertain kubectl)
\* escapes work_once.  A call that was made stays made.
Crash(p) ==
    /\ pc[p] # "idle"
    /\ Fault
    /\ Leave(p)
    /\ UNCHANGED <<vars, world>>

\* The steps of a process that need no fault.
Advance(p) ==
    \/ StartDispatch(p) \/ Invoke(p) \/ GiveBack(p)
    \/ (\E a \in Answer : Return(p, a)) \/ WalkAway(p) \/ Settle(p)
    \/ CleanUp(p)

-----------------------------------------------------------------------------
\* Operators and time

\* Some process still prolongs the lease of this row's epoch.
Attended(i) == \E p \in Proc :
    /\ pc[p] # "idle"
    /\ item[p] = i
    /\ ticket[p] = epoch[i]
    /\ ~lost[p]

\* A lease nobody prolongs runs out; one that is prolonged runs out only if
\* its heartbeats come too late.
RunOut(i) ==
    /\ ~Attended(i)
    /\ Expire(i)
    /\ UNCHANGED <<memory, world, faults>>

LateHeartbeat(i) ==
    /\ Attended(i)
    /\ Expire(i)
    /\ Fault
    /\ UNCHANGED <<memory, world>>

SetLimit(l) ==
    /\ l # limit
    /\ Account(l)
    /\ Fault
    /\ UNCHANGED <<memory, world>>

Submit(i) == Enqueue(i) /\ UNCHANGED <<memory, world, faults>>

\* A repeated cancellation only counts the epoch up (see WorkQueue).
Withdraw(i) ==
    /\ ~cancelRequested[i]
    /\ Cancel(i)
    /\ UNCHANGED <<memory, world, faults>>

Sweep == Reconcile /\ UNCHANGED <<memory, world, faults>>

FleetNext ==
    \/ \E p \in Proc :
        \/ Start(p) \/ Advance(p) \/ Refused(p)
        \/ Notice(p) \/ LoseContact(p) \/ Crash(p)
    \/ \E i \in Item : RunOut(i) \/ LateHeartbeat(i) \/ Submit(i) \/ Withdraw(i)
    \/ \E l \in Limits : SetLimit(l)
    \/ Sweep

FleetSpec == FleetInit /\ [][FleetNext]_fleetVars

\* A supervisor keeps starting workers and running reconcile, as
\* docs/workbench.md:124-128 asks of the operator; a running worker goes on,
\* its call has a deadline, its thread beats, and time passes.  Nothing is
\* assumed of submissions, cancellations or faults.
FleetFairness ==
    /\ \A p \in Proc :
        /\ WF_fleetVars(Start(p))
        /\ WF_fleetVars(Advance(p))
        /\ WF_fleetVars(Notice(p))
    /\ \A i \in Item : WF_fleetVars(RunOut(i))
    /\ WF_fleetVars(Sweep)

LiveFleetSpec == FleetSpec /\ FleetFairness

-----------------------------------------------------------------------------
\* Properties

\* However claims expire, are deferred, cancelled or reconciled, and however
\* late a process acts on an old claim, the target of a row is called (its Job
\* created) at most once: "uncertain external effects are never retried"
\* (postgres.py:1-5, worker.py:1).
InvokedAtMostOnce == \A i \in Item : calls[i] <= 1

\* A row that says nothing was dispatched has no call behind it and none
\* coming: in particular a cancelled row's target is never called, even by
\* a process that claimed it before the cancellation.
UndispatchedNeverCalled == \A i \in Item :
    state[i] \in {"absent", "queued", "leased", "cancelled"} =>
        /\ calls[i] = 0
        /\ \A p \in Proc : item[p] = i => pc[p] = "claimed"

\* A completed row carries the answer of the one call that was made, under the
\* epoch the row still has.
ReceiptIsTrue == \A i \in Item :
    state[i] = "completed" =>
        /\ calls[i] = 1
        /\ receipt[i] = answered[i]
        /\ receipt[i].epoch = epoch[i]

\* Rows tell the truth about calls: none they do not know of, one at most, and
\* its own answer.
CallsAsRecorded == InvokedAtMostOnce /\ UndispatchedNeverCalled /\ ReceiptIsTrue

\* What the outbox says last of a row is true of it, the worker's own later
\* event included: whatever lease was lost, cancelled or reconciled before the
\* worker got there, a cleanup is asked for only of a Job that was created, by
\* the claim whose completion the row carries ("Completed Jobs are deleted ...
\* only after the receipt commits; failed cleanup emits an outbox event",
\* docs/workbench.md:134).
OutboxIsTrue ==
    /\ OutboxAgrees
    /\ \A i \in Item : told[i][1] = "cleanup_required" =>
          /\ i \in Jobs
          /\ calls[i] = 1
          /\ receipt[i] = answered[i]

\* Once faults stop, no row stays leased or dispatched, and a row stays queued
\* only when the budget that is left does not cover it.
WorkSettles == <>[](\A i \in Item :
    /\ state[i] \notin {"leased", "dispatched"}
    /\ ~Claimable(i))
=============================================================================
