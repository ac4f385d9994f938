----------------------------- MODULE WorkQueue -----------------------------
(***************************************************************************)
(* The PostgreSQL work queue (distributed/postgres.py) of one tenant: an   *)
(* account with a budget, and rows of work that workers claim under a      *)
(* lease with an epoch, dispatch, complete, or lose.                       *)
(*                                                                         *)
(* Grain.  Every operation is one transaction that first locks the account *)
(* row FOR UPDATE, so operations on one tenant are serial and one action   *)
(* each; row-level security keeps tenants apart.  A call that raises       *)
(* (LeaseLost, KeyError, "conflicting completion") rolls back and is no    *)
(* step.                                                                   *)
(*                                                                         *)
(* Callers.  Any worker may call any operation with any epoch at any time: *)
(* a stale, duplicated or late call is a call with an old epoch.  What the *)
(* real workers do is in Fleet.tla; everything here holds whatever they do.*)
(* One event is not an operation's but a worker's own: CleanupRequired,    *)
(* which Next allows of completed rows only.  That the workers keep to     *)
(* this is shown in Fleet.tla.                                             *)
(*                                                                         *)
(* Time.  live[i] is expires > clock_timestamp(); a lease may expire at    *)
(* any moment, and a heartbeat can only prolong one that has not.          *)
(***************************************************************************)
EXTENDS Integers, FiniteSets

CONSTANTS N,            \* rows of work; their ids sort as 1..N
          Worker,       \* worker names
          NoWorker,     \* the column is NULL
          Reservation,  \* the reservation each row is enqueued with
          Limits,       \* values of limit_micros an operator sets
          Measures,     \* values of measured_micros a caller reports
          Unmeasured,   \* measured_micros is NULL
          Receipt,      \* receipts a caller may bring
          NoReceipt,    \* the column is NULL
          MaxEpoch      \* bound on the epoch a row is still claimed at

ASSUME WorkQueueAssumption ==
    /\ N \in Nat
    /\ NoWorker \notin Worker
    /\ Reservation \in [1..N -> Nat]
    /\ Limits \subseteq Nat
    /\ Measures \subseteq Nat
    /\ Unmeasured \notin Nat
    /\ NoReceipt \notin Receipt
    /\ MaxEpoch \in Nat

Item == 1..N

State == {"absent", "queued", "leased", "dispatched", "completed",
          "reconciliation_required", "cancelled"}

Action == {"none", "leased", "dispatched", "completed", "admission_delayed",
           "cancelled", "reconciliation_required", "queued", "cleanup_required"}

VARIABLES
    limit, reserved, spent,   \* the ae_accounts row
    state, epoch, worker, live, cancelRequested, receipt, measured,  \* ae_work
    told,   \* the last event of each row in ae_outbox
    peak    \* history: the highest limit there has been

account == <<limit, reserved, spent, peak>>
lease == <<epoch, worker, live>>
settlement == <<receipt, measured>>
work == <<state, lease, cancelRequested, settlement>>
vars == <<account, work, told>>

TypeOK ==
    /\ limit \in Nat /\ reserved \in Nat /\ spent \in Nat /\ peak \in Nat
    /\ state \in [Item -> State]
    /\ epoch \in [Item -> Nat]
    /\ worker \in [Item -> Worker \cup {NoWorker}]
    /\ live \in [Item -> BOOLEAN]
    /\ cancelRequested \in [Item -> BOOLEAN]
    /\ receipt \in [Item -> Receipt \cup {NoReceipt}]
    /\ measured \in [Item -> Measures \cup {Unmeasured}]
    /\ told \in [Item -> Action \X Nat]

\* migrate() and one account().
Init ==
    /\ limit \in Limits
    /\ peak = limit
    /\ reserved = 0
    /\ spent = 0
    /\ state = [i \in Item |-> "absent"]
    /\ epoch = [i \in Item |-> 0]
    /\ worker = [i \in Item |-> NoWorker]
    /\ live = [i \in Item |-> FALSE]
    /\ cancelRequested = [i \in Item |-> FALSE]
    /\ receipt = [i \in Item |-> NoReceipt]
    /\ measured = [i \in Item |-> Unmeasured]
    /\ told = [i \in Item |-> <<"none", 0>>]

-----------------------------------------------------------------------------
\* Parts of a transaction

Become(i, s) == state' = [state EXCEPT ![i] = s]
Bump(i) == epoch' = [epoch EXCEPT ![i] = @ + 1]
Event(i, action, e) == told' = [told EXCEPT ![i] = <<action, e>>]
Reserve(amount) ==
    reserved' = reserved + amount /\ UNCHANGED <<limit, spent, peak>>

\* What a completed row is debited.
Debit(i, m) == IF m = Unmeasured THEN Reservation[i] ELSE m

\* Mutants of Locked: only name and epoch are compared; only the name is.
LockedByEpoch(i, w, e) ==
    /\ worker[i] = w
    /\ epoch[i] = e

LockedByName(i, w, e) ==
    /\ worker[i] = w
    /\ live[i]
    /\ state[i] \in {"leased", "dispatched"}

\* _locked(): the caller still holds a live lease of this epoch.
Locked(i, w, e) ==
    /\ worker[i] = w
    /\ epoch[i] = e
    /\ live[i]
    /\ state[i] \in {"leased", "dispatched"}

-----------------------------------------------------------------------------
\* Operations

\* account(): provisions the tenant, or sets its limit anew.
Account(l) ==
    /\ limit' = l
    /\ peak' = IF l > peak THEN l ELSE peak
    /\ UNCHANGED <<reserved, spent, work, told>>

\* enqueue(): an existing row is left as it is.
Enqueue(i) ==
    /\ state[i] = "absent"
    /\ Become(i, "queued")
    /\ UNCHANGED <<account, lease, cancelRequested, settlement, told>>

\* Mutant of Claimable: capacity is compared without what is reserved.
ClaimableIgnoringReserved(i) ==
    /\ state[i] = "queued"
    /\ ~cancelRequested[i]
    /\ Reservation[i] <= limit - spent

\* What claim() selects from: queued rows the remaining capacity covers.
Claimable(i) ==
    /\ state[i] = "queued"
    /\ ~cancelRequested[i]
    /\ Reservation[i] <= limit - reserved - spent

\* claim(): the first claimable row, ORDER BY id.
Claim(w, i) ==
    /\ Claimable(i)
    /\ \A j \in Item : Claimable(j) => i <= j
    /\ epoch[i] < MaxEpoch
    /\ Become(i, "leased")
    /\ Bump(i)
    /\ worker' = [worker EXCEPT ![i] = w]
    /\ live' = [live EXCEPT ![i] = TRUE]
    /\ Reserve(Reservation[i])
    /\ Event(i, "leased", epoch[i] + 1)
    /\ UNCHANGED <<cancelRequested, settlement>>

\* The lease time runs out.
Expire(i) ==
    /\ live[i]
    /\ live' = [live EXCEPT ![i] = FALSE]
    /\ UNCHANGED <<account, state, epoch, worker, cancelRequested, settlement, told>>

\* dispatch()
Dispatch(i, w, e) ==
    /\ Locked(i, w, e)
    /\ ~cancelRequested[i]
    /\ state[i] = "leased"
    /\ Become(i, "dispatched")
    /\ Event(i, "dispatched", e)
    /\ UNCHANGED <<account, lease, cancelRequested, settlement>>

\* complete(), the call that settles; a repetition only compares the receipt.
Complete(i, w, e, r, m) ==
    /\ Locked(i, w, e)
    /\ state[i] = "dispatched"
    /\ ~cancelRequested[i]
    /\ Become(i, "completed")
    /\ receipt' = [receipt EXCEPT ![i] = r]
    /\ measured' = [measured EXCEPT ![i] = m]
    /\ reserved' = reserved - Reservation[i]
    /\ spent' = spent + Debit(i, m)
    /\ Event(i, "completed", e)
    /\ UNCHANGED <<limit, peak, lease, cancelRequested>>

\* Mutant of Defer: the event names the epoch the claim had.
DeferOldEpoch(i, w, e) ==
    /\ Locked(i, w, e)
    /\ Become(i, "queued")
    /\ Bump(i)
    /\ worker' = [worker EXCEPT ![i] = NoWorker]
    /\ live' = [live EXCEPT ![i] = FALSE]
    /\ Reserve(-Reservation[i])
    /\ Event(i, "admission_delayed", e)
    /\ UNCHANGED <<cancelRequested, settlement>>

\* defer_uncreated(): from leased or dispatched, when creation was refused.
Defer(i, w, e) ==
    /\ Locked(i, w, e)
    /\ Become(i, "queued")
    /\ Bump(i)
    /\ worker' = [worker EXCEPT ![i] = NoWorker]
    /\ live' = [live EXCEPT ![i] = FALSE]
    /\ Reserve(-Reservation[i])
    /\ Event(i, "admission_delayed", e + 1)
    /\ UNCHANGED <<cancelRequested, settlement>>

\* What a worker writes through event(), in a transaction of its own and without
\* looking at the row, when the Job of a claim it completed would not go away.
CleanupRequired(i, e) ==
    /\ Event(i, "cleanup_required", e)
    /\ UNCHANGED <<account, work>>

\* Mutants of Cancel: a dispatched row gives its reservation back too; a
\* completed row is not left alone; a dispatched row is cancelled.
CancelReleasing(i) ==
    /\ state[i] \notin {"absent", "completed", "cancelled"}
    /\ state[i] = "reconciliation_required" => epoch[i] <= MaxEpoch
    /\ cancelRequested' = [cancelRequested EXCEPT ![i] = TRUE]
    /\ LET s == IF state[i] \in {"queued", "leased"}
                  THEN "cancelled" ELSE "reconciliation_required"
       IN  Become(i, s) /\ Event(i, s, epoch[i] + 1)
    /\ Bump(i)
    /\ Reserve(IF state[i] \in {"leased", "dispatched"} THEN -Reservation[i] ELSE 0)
    /\ UNCHANGED <<worker, live, settlement>>

CancelCompleted(i) ==
    /\ state[i] \notin {"absent", "cancelled"}
    /\ epoch[i] <= MaxEpoch
    /\ cancelRequested' = [cancelRequested EXCEPT ![i] = TRUE]
    /\ LET s == IF state[i] \in {"queued", "leased"}
                  THEN "cancelled" ELSE "reconciliation_required"
       IN  Become(i, s) /\ Event(i, s, epoch[i] + 1)
    /\ Bump(i)
    /\ Reserve(IF state[i] = "leased" THEN -Reservation[i] ELSE 0)
    /\ UNCHANGED <<worker, live, settlement>>

CancelDispatched(i) ==
    /\ state[i] \notin {"absent", "completed", "cancelled", "reconciliation_required"}
    /\ cancelRequested' = [cancelRequested EXCEPT ![i] = TRUE]
    /\ Become(i, "cancelled")
    /\ Event(i, "cancelled", epoch[i] + 1)
    /\ Bump(i)
    /\ Reserve(IF state[i] = "queued" THEN 0 ELSE -Reservation[i])
    /\ UNCHANGED <<worker, live, settlement>>

\* cancel(): what was not dispatched is cancelled, what was is ambiguous.  It
\* may be called again and again on an ambiguous row, up to the epoch bound.
Cancel(i) ==
    /\ state[i] \notin {"absent", "completed", "cancelled"}
    /\ state[i] = "reconciliation_required" => epoch[i] <= MaxEpoch
    /\ cancelRequested' = [cancelRequested EXCEPT ![i] = TRUE]
    /\ LET s == IF state[i] \in {"queued", "leased"}
                  THEN "cancelled" ELSE "reconciliation_required"
       IN  Become(i, s) /\ Event(i, s, epoch[i] + 1)
    /\ Bump(i)
    /\ Reserve(IF state[i] = "leased" THEN -Reservation[i] ELSE 0)
    /\ UNCHANGED <<worker, live, settlement>>

\* Microdollars as a set, so that a sum is a cardinality: f[i] of them for
\* every row of S.
Micros(S, f) == UNION {{i} \X (1..f[i]) : i \in S}
Total(S, f) == Cardinality(Micros(S, f))

\* Mutant of Expired: only claims are looked at.
ExpiredClaims == {i \in Item : state[i] = "leased" /\ ~live[i]}

\* The rows reconcile() selects.
Expired == {i \in Item : state[i] \in {"leased", "dispatched"} /\ ~live[i]}

\* Mutant of Reconcile: an expired dispatch is retried like an expired claim.
ReconcileByRetry ==
    /\ Expired # {}
    /\ state' = [i \in Item |-> IF i \in Expired THEN "queued" ELSE state[i]]
    /\ epoch' = [i \in Item |-> IF i \in Expired THEN epoch[i] + 1 ELSE epoch[i]]
    /\ told' = [i \in Item |->
           IF i \in Expired THEN <<"queued", epoch[i] + 1>> ELSE told[i]]
    /\ Reserve(-Total(Expired, Reservation))
    /\ UNCHANGED <<worker, live, cancelRequested, settlement>>

\* reconcile(): every expired row, in one transaction.
Reconcile ==
    /\ Expired # {}
    /\ LET After(i) == IF state[i] = "leased" THEN "queued"
                       ELSE "reconciliation_required"
       IN
       /\ state' = [i \in Item |-> IF i \in Expired THEN After(i) ELSE state[i]]
       /\ epoch' = [i \in Item |-> IF i \in Expired THEN epoch[i] + 1 ELSE epoch[i]]
       /\ told' = [i \in Item |->
              IF i \in Expired THEN <<After(i), epoch[i] + 1>> ELSE told[i]]
    /\ Reserve(-Total({i \in Expired : state[i] = "leased"}, Reservation))
    /\ UNCHANGED <<worker, live, cancelRequested, settlement>>

Next ==
    \/ \E l \in Limits : Account(l)
    \/ \E i \in Item : Enqueue(i) \/ Expire(i) \/ Cancel(i)
    \/ \E w \in Worker, i \in Item : Claim(w, i)
    \/ \E i \in Item, w \in Worker, e \in 0..MaxEpoch :
        \/ Dispatch(i, w, e)
        \/ Defer(i, w, e)
        \/ \E r \in Receipt, m \in Measures \cup {Unmeasured} :
              Complete(i, w, e, r, m)
    \/ Reconcile
    \/ \E i \in Item : state[i] = "completed" /\ CleanupRequired(i, epoch[i])

Spec == Init /\ [][Next]_vars

-----------------------------------------------------------------------------
\* Properties

\* The rows whose reservation the account still holds: a claim that is out, a
\* dispatch, and a dispatch nobody can account for.
Holding == {i \in Item :
    state[i] \in {"leased", "dispatched", "reconciliation_required"}}

Settled == {i \in Item : state[i] = "completed"}

Debits == [i \in Item |-> Debit(i, measured[i])]

\* The account is the sum of its rows: every reservation is held exactly once
\* while its work is out or unaccounted for, and every completed row is debited
\* exactly once ("duplicate identical completion settles once",
\* docs/workbench.md:126).
LedgerBalances ==
    /\ reserved = Total(Holding, Reservation)
    /\ spent = Total(Settled, Debits)

\* What the completed rows were debited within their reservations.
Covered == [i \in Item |->
    IF Debits[i] > Reservation[i] THEN Reservation[i] ELSE Debits[i]]

\* Concurrent claims never commit more than the highest limit the account has
\* had; only a measured overrun of a reservation can exceed it.
BudgetHolds == reserved + Total(Settled, Covered) <= peak

\* Completed and cancelled rows are final, an ambiguous row stays ambiguous
\* and keeps its reservation, and no row's epoch ever goes back.
Decided == [][\A i \in Item :
    /\ state[i] \in {"completed", "cancelled", "reconciliation_required"} =>
          state'[i] = state[i]
    /\ state[i] = "completed" =>
          receipt'[i] = receipt[i] /\ measured'[i] = measured[i]
    /\ epoch'[i] >= epoch[i]]_vars

\* The events that may be the last of a row in state s.
LastEvents(s) ==
    CASE s = "absent" -> {"none"}
      [] s = "queued" -> {"none", "queued", "admission_delayed"}
      [] s = "completed" -> {"completed", "cleanup_required"}
      [] OTHER -> {s}

\* The last event of a row names its epoch, and what became of it ("dispatch,
\* completion, settlement, and outbox records use conditional fenced
\* transactions", docs/workbench.md:126).  After the completion one more may
\* follow, that the Job was not removed (worker.py:86-88).
OutboxAgrees == \A i \in Item :
    /\ told[i][2] = epoch[i]
    /\ told[i][1] \in LastEvents(state[i])

\* Whatever callers do, what the queue writes next to its rows agrees with them:
\* the account, within its budget, and the events (account, claim, complete,
\* reconcile, cancel, defer_uncreated, and the worker's own event).
BooksAgree == LedgerBalances /\ BudgetHolds /\ OutboxAgrees
=============================================================================
