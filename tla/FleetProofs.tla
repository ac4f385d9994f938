---------------------------- MODULE FleetProofs ----------------------------
(***************************************************************************)
(* Proofs about WorkQueue and Fleet.  For any number of rows, any          *)
(* reservations, limits, measured spend and workers, the account balances, *)
(* the budget holds, outcomes are final and the outbox agrees, whatever    *)
(* callers do.  For any number of processes and names, any bounds on       *)
(* epochs and faults, the workers use the queue as WorkQueue allows        *)
(* callers to, and rows and events tell the truth about calls; what is     *)
(* proved of the queue then holds of it under the workers.                 *)
(***************************************************************************)
EXTENDS Fleet, FiniteSetTheorems, TLAPS

-----------------------------------------------------------------------------
\* Sums as cardinalities

\* A sum of naturals over rows counts a finite set.
LEMMA MicrosFinite ==
  ASSUME NEW S \in SUBSET Item, NEW f \in [Item -> Nat]
  PROVE  IsFiniteSet(Micros(S, f))
<1> DEFINE Parts == {{i} \X (1..f[i]) : i \in S}
           part == [i \in S |-> {i} \X (1..f[i])]
<1>1. IsFiniteSet(S)
  <2>1. N \in Int
    BY WorkQueueAssumption
  <2>2. IsFiniteSet(Item)
    BY <2>1, FS_Interval DEF Item
  <2> QED
    BY <2>2, FS_Subset
<1>2. part \in Surjection(S, Parts)
  BY DEF Surjection
<1>3. IsFiniteSet(Parts)
  BY <1>1, <1>2, FS_Surjection
<1>4. ASSUME NEW T \in Parts
      PROVE  IsFiniteSet(T)
  <2>1. PICK i \in S : T = {i} \X (1..f[i])
    OBVIOUS
  <2>2. f[i] \in Int
    OBVIOUS
  <2>3. IsFiniteSet(1..f[i])
    BY <2>2, FS_Interval
  <2>4. IsFiniteSet({i})
    BY FS_Singleton
  <2> QED
    BY <2>1, <2>3, <2>4, FS_Product
<1>5. IsFiniteSet(UNION Parts)
  BY <1>3, <1>4, FS_UNION
<1> QED
  BY <1>5 DEF Micros

\* A sum of naturals over rows is a natural.
LEMMA TotalType ==
  ASSUME NEW S \in SUBSET Item, NEW f \in [Item -> Nat]
  PROVE  Total(S, f) \in Nat
BY MicrosFinite, FS_CardinalityType DEF Total

\* Nothing sums to zero.
LEMMA TotalEmpty == \A f : Total({}, f) = 0
BY FS_EmptySet DEF Total, Micros

\* The sum over one row is its term.
LEMMA TotalOne ==
  ASSUME NEW i \in Item, NEW f \in [Item -> Nat]
  PROVE  Total({i}, f) = f[i]
<1>1. Micros({i}, f) = {i} \X (1..f[i])
  BY DEF Micros
<1>2. f[i] \in Nat
  OBVIOUS
<1>3. IsFiniteSet(1..f[i]) /\ Cardinality(1..f[i]) = f[i]
  BY <1>2, FS_Interval
<1>4. IsFiniteSet({i}) /\ Cardinality({i}) = 1
  BY FS_Singleton
<1>5. Cardinality({i} \X (1..f[i])) = Cardinality({i}) * Cardinality(1..f[i])
  BY <1>3, <1>4, FS_Product
<1>6. Cardinality({i} \X (1..f[i])) = f[i]
  BY <1>2, <1>3, <1>4, <1>5
<1> QED
  BY <1>1, <1>6, Zenon DEF Total

\* The sum over two sets of rows without a common row is the sum of the sums.
LEMMA TotalUnion ==
  ASSUME NEW S \in SUBSET Item, NEW T \in SUBSET Item, S \cap T = {},
         NEW f \in [Item -> Nat]
  PROVE  Total(S \cup T, f) = Total(S, f) + Total(T, f)
<1>1. Micros(S \cup T, f) = Micros(S, f) \cup Micros(T, f)
  BY DEF Micros
<1>2. Micros(S, f) \cap Micros(T, f) = {}
  BY DEF Micros
<1>3. IsFiniteSet(Micros(S, f)) /\ IsFiniteSet(Micros(T, f))
  BY MicrosFinite
<1>4. Cardinality(Micros(S, f) \cap Micros(T, f)) = 0
  BY <1>2, FS_EmptySet
<1>5. Cardinality(Micros(S, f)) \in Nat /\ Cardinality(Micros(T, f)) \in Nat
  BY <1>3, FS_CardinalityType
<1>6. Cardinality(Micros(S, f) \cup Micros(T, f)) =
        Cardinality(Micros(S, f)) + Cardinality(Micros(T, f))
          - Cardinality(Micros(S, f) \cap Micros(T, f))
  BY <1>3, FS_Union
<1>7. Cardinality(Micros(S \cup T, f)) =
        Cardinality(Micros(S, f)) + Cardinality(Micros(T, f))
  <2> DEFINE s == Cardinality(Micros(S, f))
             t == Cardinality(Micros(T, f))
             b == Cardinality(Micros(S, f) \cap Micros(T, f))
             u == Cardinality(Micros(S, f) \cup Micros(T, f))
  <2>1. u = s + t - b /\ b = 0 /\ s \in Nat /\ t \in Nat
    BY <1>4, <1>5, <1>6
  <2>2. u = s + t
    <3> HIDE DEF s, t, b, u
    <3> QED BY <2>1
  <2> QED
    BY <1>1, <2>2, Zenon
<1> QED
  BY <1>7, Zenon DEF Total

\* Equal terms have equal sums.
LEMMA TotalSame ==
  ASSUME NEW S \in SUBSET Item, NEW f, NEW g, \A i \in S : f[i] = g[i]
  PROVE  Total(S, f) = Total(S, g)
<1>1. Micros(S, f) = Micros(S, g)
  BY DEF Micros
<1> QED
  BY <1>1 DEF Total

\* Terms that are not larger do not have a larger sum.
LEMMA TotalBelow ==
  ASSUME NEW S \in SUBSET Item, NEW f \in [Item -> Nat], NEW g \in [Item -> Nat],
         \A i \in S : f[i] <= g[i]
  PROVE  Total(S, f) <= Total(S, g)
<1>1. \A i \in S : 1..f[i] \subseteq 1..g[i]
  OBVIOUS
<1>2. Micros(S, f) \subseteq Micros(S, g)
  BY <1>1 DEF Micros
<1>3. IsFiniteSet(Micros(S, g))
  BY MicrosFinite
<1> QED
  BY <1>2, <1>3, FS_Subset DEF Total

-----------------------------------------------------------------------------
\* The queue: the inductive invariant

\* Columns and account, without what the ledger says of reserved.
ColumnTypes ==
    /\ limit \in Nat /\ peak \in Nat
    /\ state \in [Item -> State]
    /\ epoch \in [Item -> Nat]
    /\ worker \in [Item -> Worker \cup {NoWorker}]
    /\ live \in [Item -> BOOLEAN]
    /\ cancelRequested \in [Item -> BOOLEAN]
    /\ receipt \in [Item -> Receipt \cup {NoReceipt}]
    /\ measured \in [Item -> Measures \cup {Unmeasured}]
    /\ told \in [Item -> Action \X Nat]

\* The highest limit is one.
PeakInv == limit <= peak

IInv ==
    /\ ColumnTypes
    /\ PeakInv
    /\ LedgerBalances
    /\ BudgetHolds
    /\ OutboxAgrees

\* Every row reserves a natural.
LEMMA Reservations == Reservation \in [Item -> Nat]
BY WorkQueueAssumption DEF Item

\* What a completion debits the account is a natural.
LEMMA DebitType ==
  ASSUME NEW i \in Item, NEW m \in Measures \cup {Unmeasured}
  PROVE  Debit(i, m) \in Nat
BY Reservations, WorkQueueAssumption DEF Debit

\* The sums of the account are over sets of rows and functions of naturals.
LEMMA Sums ==
  ASSUME ColumnTypes
  PROVE  /\ Holding \in SUBSET Item
         /\ Settled \in SUBSET Item
         /\ Debits \in [Item -> Nat]
         /\ Covered \in [Item -> Nat]
         /\ \A i \in Item : Covered[i] <= Debits[i] /\ Covered[i] <= Reservation[i]
<1>1. Debits \in [Item -> Nat]
  BY DebitType DEF Debits, ColumnTypes
<1>2. \A i \in Item : Covered[i] =
        IF Debits[i] > Reservation[i] THEN Reservation[i] ELSE Debits[i]
  BY DEF Covered
<1>3. \A i \in Item : Debits[i] \in Nat /\ Reservation[i] \in Nat
  BY <1>1, Reservations
<1>4. \A i \in Item : Covered[i] \in Nat
                      /\ Covered[i] <= Debits[i] /\ Covered[i] <= Reservation[i]
  BY <1>2, <1>3
<1>5. Covered \in [Item -> Nat]
  BY <1>4 DEF Covered
<1> QED
  BY <1>1, <1>4, <1>5 DEF Holding, Settled

\* So the account is never negative.
LEMMA NumberTypes ==
  ASSUME ColumnTypes, LedgerBalances
  PROVE  reserved \in Nat /\ spent \in Nat
BY Sums, Reservations, TotalType DEF LedgerBalances

\* The columns and the ledger give the type invariant of WorkQueue.
LEMMA TypesFollow == ColumnTypes /\ LedgerBalances => TypeOK
BY NumberTypes DEF ColumnTypes, TypeOK

-----------------------------------------------------------------------------
\* Columns

\* Every step keeps the types of the columns.
LEMMA ColumnStep == IInv /\ [Next]_vars => ColumnTypes'
<1> SUFFICES ASSUME IInv, [Next]_vars PROVE ColumnTypes'
  OBVIOUS
<1> USE WorkQueueAssumption DEF IInv, ColumnTypes, account, lease, settlement,
        work, Become, Bump, Event, Reserve, State, Action
<1>1. CASE UNCHANGED vars
  BY <1>1 DEF vars
<1>2. ASSUME NEW l \in Limits, Account(l) PROVE ColumnTypes'
  BY <1>2 DEF Account
<1>3. ASSUME NEW i \in Item, Enqueue(i) \/ Expire(i) PROVE ColumnTypes'
  BY <1>3 DEF Enqueue, Expire
<1>4. ASSUME NEW i \in Item, Cancel(i) PROVE ColumnTypes'
  BY <1>4 DEF Cancel
<1>5. ASSUME NEW w \in Worker, NEW i \in Item, Claim(w, i) PROVE ColumnTypes'
  BY <1>5 DEF Claim
<1>6. ASSUME NEW i \in Item, NEW w \in Worker, NEW e \in 0..MaxEpoch,
             Dispatch(i, w, e) \/ Defer(i, w, e)
      PROVE  ColumnTypes'
  <2>1. e \in Nat /\ e + 1 \in Nat
    BY WorkQueueAssumption
  <2>2. CASE Dispatch(i, w, e)
    BY <2>1, <2>2 DEF Dispatch
  <2>3. CASE Defer(i, w, e)
    <3>1. told' = [told EXCEPT ![i] = <<"admission_delayed", e + 1>>]
      BY <2>3 DEF Defer
    <3>2. told' \in [Item -> Action \X Nat]
      BY <2>1, <3>1
    <3> QED
      BY <2>3, <3>2 DEF Defer
  <2> QED
    BY <1>6, <2>2, <2>3
<1>7. ASSUME NEW i \in Item, NEW w \in Worker, NEW e \in 0..MaxEpoch,
             NEW r \in Receipt, NEW m \in Measures \cup {Unmeasured},
             Complete(i, w, e, r, m)
      PROVE  ColumnTypes'
  BY <1>7 DEF Complete
<1>8. CASE Reconcile
  BY <1>8 DEF Reconcile, Expired
<1>9. ASSUME NEW i \in Item, CleanupRequired(i, epoch[i]) PROVE ColumnTypes'
  BY <1>9 DEF CleanupRequired
<1> QED
  BY <1>1, <1>2, <1>3, <1>4, <1>5, <1>6, <1>7, <1>8, <1>9 DEF Next

\* Every step keeps the limit at or below the highest one.
LEMMA PeakStep == IInv /\ [Next]_vars => PeakInv'
<1> SUFFICES ASSUME IInv, [Next]_vars PROVE PeakInv'
  OBVIOUS
<1> USE DEF IInv, ColumnTypes, PeakInv
<1>1. ASSUME NEW l \in Limits, Account(l) PROVE PeakInv'
  BY <1>1, WorkQueueAssumption DEF Account
<1>2. CASE UNCHANGED <<limit, peak>>
  BY <1>2
<1> QED
  BY <1>1, <1>2 DEF Next, vars, account, Enqueue, Expire, Cancel, Claim,
                    Dispatch, Defer, Complete, Reconcile, Reserve, CleanupRequired

-----------------------------------------------------------------------------
\* The ledger

\* A row that starts holding adds what it reserves.
LEMMA HoldMore ==
  ASSUME ColumnTypes, NEW i \in Item, i \notin Holding
  PROVE  Total(Holding \cup {i}, Reservation)
           = Total(Holding, Reservation) + Reservation[i]
<1>1. Holding \in SUBSET Item /\ {i} \in SUBSET Item
  BY Sums
<1>2. Holding \cap {i} = {}
  OBVIOUS
<1>3. Total(Holding \cup {i}, Reservation)
        = Total(Holding, Reservation) + Total({i}, Reservation)
  BY <1>1, <1>2, Reservations, TotalUnion
<1> QED
  BY <1>3, Reservations, TotalOne

\* Rows that stop holding give back exactly what they reserve.
LEMMA HoldFewer ==
  ASSUME ColumnTypes, NEW E \in SUBSET Holding
  PROVE  Total(Holding \ E, Reservation)
           = Total(Holding, Reservation) - Total(E, Reservation)
<1>1. Holding \ E \in SUBSET Item /\ E \in SUBSET Item
  BY Sums
<1>2. (Holding \ E) \cap E = {} /\ (Holding \ E) \cup E = Holding
  OBVIOUS
<1>3. Total(Holding, Reservation)
        = Total(Holding \ E, Reservation) + Total(E, Reservation)
  BY <1>1, <1>2, Reservations, TotalUnion
<1>4. Total(Holding \ E, Reservation) \in Nat /\ Total(E, Reservation) \in Nat
  BY <1>1, Reservations, TotalType
<1> QED
  BY <1>3, <1>4

\* The same for a single row.
LEMMA HoldOneFewer ==
  ASSUME ColumnTypes, NEW i \in Holding
  PROVE  Total(Holding \ {i}, Reservation)
           = Total(Holding, Reservation) - Reservation[i]
BY HoldFewer, Sums, Reservations, TotalOne

\* What the account is debited changes only with a completion.
LEMMA SameDebits ==
  ASSUME ColumnTypes, LedgerBalances, UNCHANGED <<measured, spent>>,
         Settled' = Settled
  PROVE  spent' = Total(Settled, Debits)'
<1>1. Debits' = Debits
  BY DEF Debits, Debit
<1> QED
  BY <1>1 DEF LedgerBalances, Total, Micros

\* Every step keeps the account equal to the sums over the rows.
LEMMA LedgerStep == IInv /\ [Next]_vars => LedgerBalances'
<1> SUFFICES ASSUME IInv, [Next]_vars PROVE LedgerBalances'
  OBVIOUS
<1>0. /\ ColumnTypes /\ LedgerBalances
      /\ reserved = Total(Holding, Reservation)
      /\ spent = Total(Settled, Debits)
  BY DEF IInv, LedgerBalances
<1>s. ASSUME UNCHANGED <<measured, spent>>, Settled' = Settled,
             reserved' = Total(Holding', Reservation)
      PROVE  LedgerBalances'
  BY <1>0, <1>s, SameDebits DEF LedgerBalances
<1> USE DEF lease, settlement, work, Become, Reserve
<1>1. CASE UNCHANGED <<state, measured, reserved, spent>>
  <2>1. Holding' = Holding /\ Settled' = Settled
    BY <1>1 DEF Holding, Settled
  <2> QED
    BY <1>0, <1>1, <1>s, <2>1
<1>2. ASSUME NEW i \in Item, Enqueue(i) PROVE LedgerBalances'
  <2>1. Holding' = Holding /\ Settled' = Settled
    BY <1>0, <1>2 DEF Enqueue, Holding, Settled, ColumnTypes
  <2> QED
    BY <1>0, <1>2, <1>s, <2>1 DEF Enqueue, account
<1>3. ASSUME NEW w \in Worker, NEW i \in Item, Claim(w, i) PROVE LedgerBalances'
  <2>1. Holding' = Holding \cup {i} /\ i \notin Holding /\ Settled' = Settled
    BY <1>0, <1>3 DEF Claim, Claimable, Holding, Settled, ColumnTypes
  <2>2. reserved' = reserved + Reservation[i] /\ UNCHANGED <<measured, spent>>
    BY <1>3 DEF Claim
  <2> QED
    BY <1>0, <1>s, <2>1, <2>2, HoldMore
<1>4. ASSUME NEW i \in Item, NEW w \in Worker, NEW e \in 0..MaxEpoch,
             Dispatch(i, w, e)
      PROVE  LedgerBalances'
  <2>1. Holding' = Holding /\ Settled' = Settled
    BY <1>0, <1>4 DEF Dispatch, Holding, Settled, ColumnTypes
  <2> QED
    BY <1>0, <1>4, <1>s, <2>1 DEF Dispatch, account
<1>5. ASSUME NEW i \in Item, NEW w \in Worker, NEW e \in 0..MaxEpoch,
             Defer(i, w, e)
      PROVE  LedgerBalances'
  <2>1. Holding' = Holding \ {i} /\ i \in Holding /\ Settled' = Settled
    BY <1>0, <1>5 DEF Defer, Locked, Holding, Settled, ColumnTypes
  <2>2. reserved' = reserved + (-Reservation[i]) /\ UNCHANGED <<measured, spent>>
    BY <1>5 DEF Defer
  <2>3. reserved' = reserved - Reservation[i]
    BY <1>0, <2>2, Reservations, NumberTypes
  <2> QED
    BY <1>0, <1>s, <2>1, <2>2, <2>3, HoldOneFewer
<1>6. ASSUME NEW i \in Item, Cancel(i) PROVE LedgerBalances'
  <2>1. UNCHANGED <<measured, spent>> /\ Settled' = Settled
    BY <1>0, <1>6 DEF Cancel, Settled, ColumnTypes
  <2>2. CASE state[i] = "leased"
    <3>1. Holding' = Holding \ {i} /\ i \in Holding
      BY <1>0, <1>6, <2>2 DEF Cancel, Holding, ColumnTypes
    <3>2. reserved' = reserved + (-Reservation[i])
      BY <1>6, <2>2 DEF Cancel
    <3>3. reserved' = reserved - Reservation[i]
      BY <1>0, <3>2, Reservations, NumberTypes
    <3> QED
      BY <1>0, <1>s, <2>1, <3>1, <3>3, HoldOneFewer
  <2>3. CASE state[i] # "leased"
    <3>1. Holding' = Holding
      BY <1>0, <1>6, <2>3 DEF Cancel, Holding, ColumnTypes, State
    <3>2. reserved' = reserved
      BY <1>0, <1>6, <2>3, NumberTypes DEF Cancel
    <3> QED
      BY <1>0, <1>s, <2>1, <3>1, <3>2
  <2> QED
    BY <2>2, <2>3
<1>7. CASE Reconcile
  <2> DEFINE Back == {i \in Expired : state[i] = "leased"}
  <2>1. UNCHANGED <<measured, spent>> /\ Settled' = Settled
    BY <1>0, <1>7 DEF Reconcile, Expired, Settled, ColumnTypes
  <2>2. Holding' = Holding \ Back /\ Back \in SUBSET Holding
    BY <1>0, <1>7 DEF Reconcile, Expired, Holding, ColumnTypes
  <2>3. Total(Back, Reservation) \in Nat
    BY <1>0, <2>2, Sums, Reservations, TotalType
  <2>4. reserved' = reserved + (-Total(Back, Reservation))
    BY <1>7 DEF Reconcile
  <2>5. reserved' = reserved - Total(Back, Reservation)
    <3> HIDE DEF Back
    <3> QED BY <1>0, <2>3, <2>4, NumberTypes
  <2>6. Total(Holding \ Back, Reservation)
          = Total(Holding, Reservation) - Total(Back, Reservation)
    BY <1>0, <2>2, HoldFewer
  <2> QED
    BY <1>0, <1>s, <2>1, <2>2, <2>5, <2>6
<1>8. ASSUME NEW i \in Item, NEW w \in Worker, NEW e \in 0..MaxEpoch,
             NEW r \in Receipt, NEW m \in Measures \cup {Unmeasured},
             Complete(i, w, e, r, m)
      PROVE  LedgerBalances'
  <2>1. /\ Holding' = Holding \ {i} /\ i \in Holding
        /\ Settled' = Settled \cup {i} /\ i \notin Settled
    BY <1>0, <1>8 DEF Complete, Holding, Settled, ColumnTypes
  <2>2. /\ reserved' = reserved - Reservation[i]
        /\ spent' = spent + Debit(i, m)
        /\ measured' = [measured EXCEPT ![i] = m]
    BY <1>8 DEF Complete
  <2>3. ColumnTypes'
    BY ColumnStep
  <2>4. Debits' \in [Item -> Nat] /\ Debits'[i] = Debit(i, m)
    <3>1. measured'[i] = m
      BY <1>0, <2>2 DEF ColumnTypes
    <3>2. Debits' \in [Item -> Nat]
      BY <2>3, DebitType DEF Debits, ColumnTypes
    <3> QED
      BY <3>1, <3>2 DEF Debits
  <2>5. Total(Settled, Debits') = Total(Settled, Debits)
    <3>1. \A j \in Settled : Debits'[j] = Debits[j]
      BY <1>0, <2>1, <2>2 DEF Debits, ColumnTypes, Settled, Debit
    <3> QED
      BY <1>0, <3>1, Sums, TotalSame
  <2>6. Total(Settled \cup {i}, Debits') = Total(Settled, Debits') + Debit(i, m)
    <3>1. Settled \in SUBSET Item /\ {i} \in SUBSET Item /\ Settled \cap {i} = {}
      BY <1>0, <2>1, Sums
    <3>2. Total(Settled \cup {i}, Debits') = Total(Settled, Debits') + Total({i}, Debits')
      BY <2>4, <3>1, TotalUnion
    <3>3. Total({i}, Debits') = Debits'[i]
      BY <2>4, TotalOne
    <3> QED
      BY <2>4, <3>2, <3>3
  <2>7. spent' = Total(Settled, Debits)'
    <3>1. Total(Settled, Debits)' = Total(Settled', Debits')
      BY DEF Total, Micros
    <3> QED
      BY <1>0, <2>1, <2>2, <2>5, <2>6, <3>1
  <2>8. reserved' = Total(Holding', Reservation)
    BY <1>0, <2>1, <2>2, HoldOneFewer
  <2> QED
    BY <2>7, <2>8 DEF LedgerBalances
<1> QED
  BY <1>1, <1>2, <1>3, <1>4, <1>5, <1>6, <1>7, <1>8
  DEF Next, vars, Account, Expire, CleanupRequired, account

-----------------------------------------------------------------------------
\* The budget

\* Every step keeps what is reserved and covered within the highest limit.
LEMMA BudgetStep == IInv /\ [Next]_vars => BudgetHolds'
<1> SUFFICES ASSUME IInv, [Next]_vars PROVE BudgetHolds'
  OBVIOUS
<1>0. /\ ColumnTypes /\ LedgerBalances /\ PeakInv
      /\ reserved \in Nat /\ spent \in Nat /\ limit \in Nat /\ peak \in Nat
      /\ Total(Settled, Covered) \in Nat
      /\ reserved + Total(Settled, Covered) <= peak
  BY NumberTypes, Sums, TotalType DEF IInv, ColumnTypes, BudgetHolds
<1>1. /\ ColumnTypes' /\ LedgerBalances'
      /\ reserved' \in Nat /\ peak' \in Nat
  <2>1. ColumnTypes' /\ LedgerBalances'
    BY ColumnStep, LedgerStep
  <2>2. reserved' \in Nat
    <3>1. Holding' \in SUBSET Item
      BY DEF Holding
    <3> QED
      BY <2>1, <3>1, Reservations, TotalType DEF LedgerBalances
  <2> QED
    BY <2>1, <2>2 DEF ColumnTypes
<1>2. Total(Settled, Covered)' = Total(Settled', Covered')
  BY DEF Total, Micros
<1>s. ASSUME UNCHANGED measured, Settled' = Settled, reserved' <= reserved, peak' >= peak
      PROVE  BudgetHolds'
  <2>1. Covered' = Covered
    BY <1>s DEF Covered, Debits, Debit
  <2>2. Total(Settled, Covered)' = Total(Settled, Covered)
    BY <1>2, <1>s, <2>1
  <2> QED
    BY <1>0, <1>1, <1>s, <2>2 DEF BudgetHolds
<1> USE DEF lease, settlement, work, Become, Reserve
<1>3. CASE UNCHANGED <<state, measured, reserved, spent, peak>>
  <2>1. Settled' = Settled
    BY <1>3 DEF Settled
  <2> QED
    BY <1>0, <1>3, <1>s, <2>1
<1>4. ASSUME NEW l \in Limits, Account(l) PROVE BudgetHolds'
  <2>1. Settled' = Settled
    BY <1>4 DEF Settled, Account
  <2>2. peak' >= peak
    BY <1>0, <1>4, WorkQueueAssumption DEF Account
  <2> QED
    BY <1>0, <1>4, <1>s, <2>1, <2>2 DEF Account
<1>5. ASSUME NEW i \in Item, Enqueue(i) PROVE BudgetHolds'
  <2>1. Settled' = Settled
    BY <1>0, <1>5 DEF Settled, Enqueue, ColumnTypes
  <2> QED
    BY <1>0, <1>5, <1>s, <2>1 DEF Enqueue, account
<1>6. ASSUME NEW w \in Worker, NEW i \in Item, Claim(w, i) PROVE BudgetHolds'
  <2>1. /\ reserved' = reserved + Reservation[i]
        /\ UNCHANGED <<measured, spent, peak>>
        /\ Reservation[i] <= limit - reserved - spent
        /\ Reservation[i] \in Nat
    BY <1>6, Reservations DEF Claim, Claimable
  <2>2. Settled' = Settled
    BY <1>0, <1>6 DEF Settled, Claim, Claimable, ColumnTypes
  <2>3. Covered' = Covered
    BY <2>1 DEF Covered, Debits, Debit
  <2>4. Total(Settled, Covered) <= spent
    <3>1. Total(Settled, Covered) <= Total(Settled, Debits)
      BY <1>0, Sums, TotalBelow
    <3> QED
      BY <1>0, <3>1 DEF LedgerBalances
  <2>5. reserved' + Total(Settled, Covered) <= peak'
    BY <1>0, <2>1, <2>4 DEF PeakInv
  <2> QED
    BY <1>2, <2>2, <2>3, <2>5 DEF BudgetHolds
<1>7. ASSUME NEW i \in Item, NEW w \in Worker, NEW e \in 0..MaxEpoch,
             Dispatch(i, w, e)
      PROVE  BudgetHolds'
  <2>1. Settled' = Settled
    BY <1>0, <1>7 DEF Dispatch, Settled, ColumnTypes
  <2> QED
    BY <1>0, <1>7, <1>s, <2>1 DEF Dispatch, account
<1>8. ASSUME NEW i \in Item, NEW w \in Worker, NEW e \in 0..MaxEpoch,
             Defer(i, w, e)
      PROVE  BudgetHolds'
  <2>1. Settled' = Settled
    BY <1>0, <1>8 DEF Defer, Locked, Settled, ColumnTypes
  <2>2. reserved' = reserved + (-Reservation[i]) /\ UNCHANGED <<measured, peak>>
    BY <1>8 DEF Defer
  <2>3. Reservation[i] \in Nat
    BY Reservations
  <2> QED
    BY <1>0, <1>s, <2>1, <2>2, <2>3
<1>9. ASSUME NEW i \in Item, Cancel(i) PROVE BudgetHolds'
  <2>1. Settled' = Settled
    BY <1>0, <1>9 DEF Cancel, Settled, ColumnTypes
  <2>2. /\ reserved' = reserved + (IF state[i] = "leased" THEN -Reservation[i] ELSE 0)
        /\ UNCHANGED <<measured, peak>>
    BY <1>9 DEF Cancel
  <2>3. Reservation[i] \in Nat
    BY Reservations
  <2> QED
    BY <1>0, <1>s, <2>1, <2>2, <2>3
<1>10. CASE Reconcile
  <2> DEFINE Back == {i \in Expired : state[i] = "leased"}
  <2>1. Settled' = Settled
    BY <1>0, <1>10 DEF Reconcile, Expired, Settled, ColumnTypes
  <2>2. reserved' = reserved + (-Total(Back, Reservation)) /\ UNCHANGED <<measured, peak>>
    BY <1>10 DEF Reconcile
  <2>3. Total(Back, Reservation) \in Nat
    BY Reservations, TotalType DEF Expired
  <2> HIDE DEF Back
  <2> QED
    BY <1>0, <1>s, <2>1, <2>2, <2>3
<1>11. ASSUME NEW i \in Item, NEW w \in Worker, NEW e \in 0..MaxEpoch,
              NEW r \in Receipt, NEW m \in Measures \cup {Unmeasured},
              Complete(i, w, e, r, m)
       PROVE  BudgetHolds'
  <2>1. Settled' = Settled \cup {i} /\ i \notin Settled
    BY <1>0, <1>11 DEF Complete, Settled, ColumnTypes
  <2>2. /\ reserved' = reserved - Reservation[i]
        /\ peak' = peak
        /\ measured' = [measured EXCEPT ![i] = m]
    BY <1>11 DEF Complete
  <2>3. Covered' \in [Item -> Nat] /\ Covered'[i] <= Reservation[i]
    <3>1. Debits' \in [Item -> Nat]
      BY <1>1, DebitType DEF Debits, ColumnTypes
    <3>2. \A j \in Item : Covered'[j] =
            IF Debits'[j] > Reservation[j] THEN Reservation[j] ELSE Debits'[j]
      BY DEF Covered
    <3>3. \A j \in Item : Debits'[j] \in Nat /\ Reservation[j] \in Nat
      BY <3>1, Reservations
    <3>4. \A j \in Item : Covered'[j] \in Nat /\ Covered'[j] <= Reservation[j]
      BY <3>2, <3>3
    <3> QED
      BY <3>4 DEF Covered
  <2>4. Total(Settled, Covered') = Total(Settled, Covered)
    <3>1. \A j \in Settled : Covered'[j] = Covered[j]
      BY <1>0, <2>1, <2>2 DEF Covered, Debits, ColumnTypes, Settled, Debit
    <3> QED
      BY <1>0, <3>1, Sums, TotalSame
  <2>5. Total(Settled \cup {i}, Covered') = Total(Settled, Covered') + Covered'[i]
    <3>1. Settled \in SUBSET Item /\ {i} \in SUBSET Item /\ Settled \cap {i} = {}
      BY <1>0, <2>1, Sums
    <3>2. Total(Settled \cup {i}, Covered')
            = Total(Settled, Covered') + Total({i}, Covered')
      BY <2>3, <3>1, TotalUnion
    <3> QED
      BY <2>3, <3>2, TotalOne
  <2>6. Total(Settled, Covered)' = Total(Settled, Covered) + Covered'[i]
    BY <1>2, <2>1, <2>4, <2>5
  <2>7. Covered'[i] \in Nat /\ Reservation[i] \in Nat
    BY <2>3, Reservations
  <2>8. reserved' + Total(Settled, Covered)' <= peak'
    BY <1>0, <2>2, <2>3, <2>6, <2>7
  <2> QED
    BY <2>8 DEF BudgetHolds
<1> QED
  BY <1>3, <1>4, <1>5, <1>6, <1>7, <1>8, <1>9, <1>10, <1>11
  DEF Next, vars, Expire, CleanupRequired, account

-----------------------------------------------------------------------------
\* Rows, events and outcomes

\* Every step that changes a row or its epoch tells the outbox.
LEMMA OutboxStep == IInv /\ [Next]_vars => OutboxAgrees'
<1> DEFINE Agrees(j) ==
      /\ told[j][2] = epoch[j]
      /\ told[j][1] \in LastEvents(state[j])
<1> SUFFICES ASSUME IInv, [Next]_vars, NEW j \in Item
             PROVE  Agrees(j)'
  BY DEF OutboxAgrees
<1> USE DEF IInv, ColumnTypes, OutboxAgrees, lease, settlement, work, Become,
            Bump, Event, Action, State, LastEvents
<1>1. CASE UNCHANGED <<state, epoch, told>>
  BY <1>1
<1>2. ASSUME NEW i \in Item, Enqueue(i) PROVE Agrees(j)'
  BY <1>2 DEF Enqueue
<1>3. ASSUME NEW i \in Item, Cancel(i) PROVE Agrees(j)'
  BY <1>3 DEF Cancel
<1>4. ASSUME NEW w \in Worker, NEW i \in Item, Claim(w, i) PROVE Agrees(j)'
  BY <1>4 DEF Claim
<1>5. ASSUME NEW i \in Item, NEW w \in Worker, NEW e \in 0..MaxEpoch,
             Dispatch(i, w, e)
      PROVE  Agrees(j)'
  BY <1>5 DEF Dispatch, Locked
<1>6. ASSUME NEW i \in Item, NEW w \in Worker, NEW e \in 0..MaxEpoch,
             Defer(i, w, e)
      PROVE  Agrees(j)'
  BY <1>6 DEF Defer, Locked
<1>7. ASSUME NEW i \in Item, NEW w \in Worker, NEW e \in 0..MaxEpoch,
             NEW r \in Receipt, NEW m \in Measures \cup {Unmeasured},
             Complete(i, w, e, r, m)
      PROVE  Agrees(j)'
  BY <1>7 DEF Complete, Locked
<1>8. CASE Reconcile
  BY <1>8 DEF Reconcile, Expired
<1>9. ASSUME NEW i \in Item, Expire(i) PROVE Agrees(j)'
  BY <1>1, <1>9 DEF Expire
<1>10. ASSUME NEW l \in Limits, Account(l) PROVE Agrees(j)'
  BY <1>1, <1>10 DEF Account
<1>11. CASE UNCHANGED vars
  BY <1>1, <1>11 DEF vars
<1>12. ASSUME NEW i \in Item, state[i] = "completed", CleanupRequired(i, epoch[i])
       PROVE  Agrees(j)'
  BY <1>12 DEF CleanupRequired
<1> HIDE DEF Agrees
<1> QED
  BY <1>2, <1>3, <1>4, <1>5, <1>6, <1>7, <1>8, <1>9, <1>10, <1>11, <1>12, Zenon DEF Next

\* No step changes a decided row, its receipt or its bill, or lowers an epoch.
LEMMA DecidedStep ==
  ASSUME IInv, [Next]_vars, NEW j \in Item
  PROVE  /\ state[j] \in {"completed", "cancelled", "reconciliation_required"} =>
               state'[j] = state[j]
         /\ state[j] = "completed" =>
               receipt'[j] = receipt[j] /\ measured'[j] = measured[j]
         /\ epoch'[j] >= epoch[j]
<1> USE DEF IInv, ColumnTypes, lease, settlement, work, Become, Bump
<1>1. CASE UNCHANGED <<state, epoch, receipt, measured>>
  BY <1>1
<1>2. ASSUME NEW i \in Item, Enqueue(i) \/ Cancel(i)
      PROVE  /\ state[j] \in {"completed", "cancelled", "reconciliation_required"} =>
                   state'[j] = state[j]
             /\ UNCHANGED <<receipt, measured>>
             /\ epoch'[j] >= epoch[j]
  BY <1>2 DEF Enqueue, Cancel
<1>3. ASSUME NEW w \in Worker, NEW i \in Item, Claim(w, i)
      PROVE  /\ state[j] \in {"completed", "cancelled", "reconciliation_required"} =>
                   state'[j] = state[j]
             /\ UNCHANGED <<receipt, measured>>
             /\ epoch'[j] >= epoch[j]
  BY <1>3 DEF Claim, Claimable
<1>4. ASSUME NEW i \in Item, NEW w \in Worker, NEW e \in 0..MaxEpoch,
             Dispatch(i, w, e) \/ Defer(i, w, e)
      PROVE  /\ state[j] \in {"completed", "cancelled", "reconciliation_required"} =>
                   state'[j] = state[j]
             /\ UNCHANGED <<receipt, measured>>
             /\ epoch'[j] >= epoch[j]
  BY <1>4 DEF Dispatch, Defer, Locked
<1>5. ASSUME NEW i \in Item, NEW w \in Worker, NEW e \in 0..MaxEpoch,
             NEW r \in Receipt, NEW m \in Measures \cup {Unmeasured},
             Complete(i, w, e, r, m)
      PROVE  /\ state[j] \in {"completed", "cancelled", "reconciliation_required"} =>
                   state'[j] = state[j]
             /\ state[j] = "completed" =>
                   receipt'[j] = receipt[j] /\ measured'[j] = measured[j]
             /\ epoch'[j] >= epoch[j]
  BY <1>5 DEF Complete
<1>6. CASE Reconcile
  BY <1>6 DEF Reconcile, Expired
<1> QED
  BY <1>1, <1>2, <1>3, <1>4, <1>5, <1>6 DEF Next, vars, account, Account, Expire,
     CleanupRequired

-----------------------------------------------------------------------------
\* The theorems

\* An empty queue satisfies the strengthening.
LEMMA IInit == Init => IInv
<1> SUFFICES ASSUME Init PROVE IInv
  OBVIOUS
<1> USE DEF Init
<1>1. ColumnTypes
  BY WorkQueueAssumption DEF ColumnTypes, State, Action
<1>2. Holding = {} /\ Settled = {}
  BY DEF Holding, Settled
<1>3. LedgerBalances
  BY <1>2, TotalEmpty DEF LedgerBalances
<1>4. BudgetHolds
  BY <1>1, <1>2, TotalEmpty DEF BudgetHolds, ColumnTypes
<1>5. PeakInv
  BY <1>1 DEF PeakInv, ColumnTypes
<1>6. OutboxAgrees
  BY DEF OutboxAgrees, LastEvents
<1> QED
  BY <1>1, <1>3, <1>4, <1>5, <1>6 DEF IInv

\* Every step preserves the strengthening.
LEMMA IStep == IInv /\ [Next]_vars => IInv'
BY ColumnStep, PeakStep, LedgerStep, BudgetStep, OutboxStep DEF IInv

\* Every conjunct of the strengthening holds whatever the queue's callers do.
THEOREM QueueInvariance == Spec => []IInv
<1> QED
  BY IInit, IStep, PTL DEF Spec

\* The account's numbers never go below zero, and the columns keep their types
\* (the CHECK clauses of postgres.py:17-24 never abort a transaction).
THEOREM QueueTypes == Spec => []TypeOK
<1>1. IInv => TypeOK
  BY TypesFollow DEF IInv
<1> QED
  BY <1>1, QueueInvariance, PTL

\* What is reserved is the sum over the rows that are out or unaccounted for, and
\* what is spent the sum over the completed ones.
THEOREM AccountBalances == Spec => []LedgerBalances
<1>1. IInv => LedgerBalances
  BY DEF IInv
<1> QED
  BY <1>1, QueueInvariance, PTL

\* Reservations and what was spent within them never exceed the highest limit.
THEOREM BudgetIsKept == Spec => []BudgetHolds
<1>1. IInv => BudgetHolds
  BY DEF IInv
<1> QED
  BY <1>1, QueueInvariance, PTL

\* The last event of every row names its state and its epoch.
THEOREM EventsAgree == Spec => []OutboxAgrees
<1>1. IInv => OutboxAgrees
  BY DEF IInv
<1> QED
  BY <1>1, QueueInvariance, PTL

\* Account, budget and events agree with the rows at any time.
THEOREM BooksAlwaysAgree == Spec => []BooksAgree
<1>1. IInv => BooksAgree
  BY DEF IInv, BooksAgree
<1> QED
  BY <1>1, QueueInvariance, PTL

\* No step reopens, rewrites or replays a decided row, or takes an epoch back.
THEOREM OutcomesAreFinal == Spec => Decided
<1>1. IInv /\ [Next]_vars => [\A i \in Item :
        /\ state[i] \in {"completed", "cancelled", "reconciliation_required"} =>
              state'[i] = state[i]
        /\ state[i] = "completed" =>
              receipt'[i] = receipt[i] /\ measured'[i] = measured[i]
        /\ epoch'[i] >= epoch[i]]_vars
  BY DecidedStep
<1> QED
  BY <1>1, QueueInvariance, PTL DEF Spec, Decided

-----------------------------------------------------------------------------
\* The workers: the inductive invariant

\* A process that is past its dispatch.
Beyond(p) == pc[p] \in {"dispatched", "calling", "returned", "refused"}

\* A process at work has a row, and the epoch of a claim on it.
MemoryInv == \A p \in Proc :
    /\ pc[p] = "idle" => item[p] = 0
    /\ pc[p] # "idle" => item[p] \in Item /\ ticket[p] \in 1..MaxEpoch
    /\ pc[p] \in {"returned", "settled"} => kept[p] \in Receipt

\* A process past its dispatch has the row's present epoch, or the row has
\* been found ambiguous, which it will remain.
BeyondInv == \A p \in Proc : Beyond(p) =>
    \/ state[item[p]] = "dispatched" /\ ticket[p] = epoch[item[p]]
    \/ state[item[p]] = "reconciliation_required"

\* A process that has a Job to remove has completed its row, under the epoch
\* the row still has.
SettledInv == \A p \in Proc : pc[p] = "settled" =>
    /\ item[p] \in Jobs
    /\ state[item[p]] = "completed"
    /\ ticket[p] = epoch[item[p]]

\* Only a row with a Job is ever said to need a cleanup.
CleanupInv == \A i \in Item : told[i][1] = "cleanup_required" => i \in Jobs

\* One process at most is past the dispatch of a row.
SoleInv == \A p, q \in Proc : Beyond(p) /\ Beyond(q) /\ item[p] = item[q] => p = q

\* The calls made of a row, by its state and by where its process is.
CallInv ==
    /\ \A i \in Item :
        /\ calls[i] \in {0, 1}
        /\ state[i] \in {"absent", "queued", "leased", "cancelled"} => calls[i] = 0
    /\ \A p \in Proc :
        /\ pc[p] \in {"dispatched", "refused"} => calls[item[p]] = 0
        /\ pc[p] \in {"calling", "returned"} => calls[item[p]] = 1
        /\ pc[p] = "returned" => answered[item[p]] = kept[p] /\ kept[p].epoch = ticket[p]

FleetInv ==
    /\ IInv /\ FleetTypeOK
    /\ MemoryInv /\ BeyondInv /\ SettledInv /\ CleanupInv /\ SoleInv /\ CallInv
    /\ ReceiptIsTrue

-----------------------------------------------------------------------------
\* The workers implement the queue

LEMMA QueueTyped == FleetInv => TypeOK
  BY TypesFollow DEF FleetInv, IInv

\* A step of a process is a transaction of the queue, or leaves it alone.
LEMMA ProcessMaps ==
  ASSUME FleetInv, NEW p \in Proc,
         Start(p) \/ Advance(p) \/ Refused(p) \/ Notice(p) \/ LoseContact(p) \/ Crash(p)
  PROVE  [Next]_vars
<1>1. Name[p] \in Worker
  BY FleetAssumption
<1>2. ASSUME Start(p)
      PROVE  Next
  <2>1. PICK i \in Item : Claim(Name[p], i)
    BY <1>2 DEF Start
  <2>2. \E w \in Worker, j \in Item : Claim(w, j)
    BY <1>1, <2>1
  <2> QED
    BY <2>2 DEF Next
<1>3. ASSUME pc[p] # "idle", Dispatch(item[p], Name[p], ticket[p])
      PROVE  Next
  BY <1>1, <1>3, WorkQueueAssumption DEF Next, FleetInv, MemoryInv
<1>4. ASSUME pc[p] # "idle", Defer(item[p], Name[p], ticket[p])
      PROVE  Next
  BY <1>1, <1>4, WorkQueueAssumption DEF Next, FleetInv, MemoryInv
<1>5. ASSUME pc[p] = "returned", Complete(item[p], Name[p], ticket[p], kept[p], Unmeasured)
      PROVE  Next
  <2>1. item[p] \in Item /\ ticket[p] \in 0..MaxEpoch /\ kept[p] \in Receipt
    BY <1>5, WorkQueueAssumption DEF FleetInv, MemoryInv
  <2>2. \E i \in Item, w \in Worker, e \in 0..MaxEpoch :
          \E r \in Receipt, m \in Measures \cup {Unmeasured} : Complete(i, w, e, r, m)
    BY <1>1, <1>5, <2>1
  <2> QED
    BY <2>2 DEF Next
<1>8. ASSUME pc[p] = "settled", CleanupRequired(item[p], ticket[p])
      PROVE  Next
  <2>1. item[p] \in Item /\ state[item[p]] = "completed" /\ ticket[p] = epoch[item[p]]
    BY <1>8 DEF FleetInv, MemoryInv, SettledInv
  <2> QED
    BY <1>8, <2>1 DEF Next
<1>6. ASSUME Advance(p)
      PROVE  Next \/ UNCHANGED vars
  BY <1>3, <1>4, <1>5, <1>6, <1>8 DEF Advance, StartDispatch, Invoke, GiveBack, Return, WalkAway, Settle,
     NotSettled, CleanUp
<1>7. ASSUME Refused(p) \/ Notice(p) \/ LoseContact(p) \/ Crash(p)
      PROVE  UNCHANGED vars
  BY <1>7 DEF Refused, Notice, LoseContact, Crash
<1> QED
  BY <1>2, <1>6, <1>7

\* Every step of the fleet is a transaction of the queue, or leaves it alone.
LEMMA StepMaps == FleetInv /\ [FleetNext]_fleetVars => [Next]_vars
<1> SUFFICES ASSUME FleetInv, [FleetNext]_fleetVars
             PROVE  [Next]_vars
  OBVIOUS
<1>1. ASSUME NEW i \in Item, RunOut(i) \/ LateHeartbeat(i) \/ Submit(i) \/ Withdraw(i)
      PROVE  Next
  BY <1>1 DEF RunOut, LateHeartbeat, Submit, Withdraw, Next
<1>2. ASSUME NEW l \in Limits, SetLimit(l)
      PROVE  Next
  BY <1>2 DEF SetLimit, Next
<1>3. ASSUME Sweep
      PROVE  Next
  BY <1>3 DEF Sweep, Next
<1> QED
  BY <1>1, <1>2, <1>3, ProcessMaps DEF FleetNext, fleetVars

-----------------------------------------------------------------------------
\* The invariant is inductive

\* What a transaction that comes from elsewhere may do to a row.
Outside(i) ==
    /\ state[i] = "dispatched" =>
          \/ state'[i] = "dispatched" /\ epoch'[i] = epoch[i]
          \/ state'[i] = "reconciliation_required"
    /\ state[i] = "reconciliation_required" => state'[i] = "reconciliation_required"
    /\ state'[i] \in {"absent", "queued", "leased", "cancelled"} =>
          state[i] \in {"absent", "queued", "leased", "cancelled"}
    /\ state'[i] = "completed" =>
          state[i] = "completed" /\ epoch'[i] = epoch[i] /\ receipt'[i] = receipt[i]
    /\ state[i] = "completed" => state'[i] = "completed"
    /\ told'[i][1] = "cleanup_required" => told[i][1] = "cleanup_required"

\* Operators, time and new claims move a row only so.
LEMMA Elsewhere ==
  ASSUME TypeOK, NEW i \in Item
  PROVE  /\ \A l : Account(l) => Outside(i)
         /\ \A j \in Item : Enqueue(j) \/ Expire(j) \/ Cancel(j) => Outside(i)
         /\ \A j \in Item : \A w : Claim(w, j) => Outside(i)
         /\ Reconcile => Outside(i)
         /\ UNCHANGED vars => Outside(i)
<1> USE DEF Event
<1>1. \A l : Account(l) => Outside(i)
  BY DEF Account, Outside, work, lease, settlement
<1>2. ASSUME NEW j \in Item, Enqueue(j) \/ Expire(j) \/ Cancel(j)
      PROVE  Outside(i)
  BY <1>2 DEF Enqueue, Expire, Cancel, Become, Bump, Outside, TypeOK, State, lease, settlement
<1>3. ASSUME NEW j \in Item, NEW w, Claim(w, j)
      PROVE  Outside(i)
  BY <1>3 DEF Claim, Claimable, Become, Bump, Outside, TypeOK, State, settlement
<1>4. Reconcile => Outside(i)
  BY DEF Reconcile, Expired, Outside, TypeOK, State, settlement
<1>5. UNCHANGED vars => Outside(i)
  BY DEF Outside, vars, work, lease, settlement
<1> QED
  BY <1>1, <1>2, <1>3, <1>4, <1>5

Kept == MemoryInv /\ BeyondInv /\ SettledInv /\ CleanupInv /\ SoleInv /\ CallInv
        /\ ReceiptIsTrue

\* What such a step leaves true of processes that stay where they are.
LEMMA OutsideKeeps ==
  ASSUME FleetInv, FleetTypeOK', \A i \in Item : Outside(i), UNCHANGED <<memory, world>>
  PROVE  Kept'
<1>1. MemoryInv' /\ SoleInv'
  BY DEF FleetInv, MemoryInv, SoleInv, Beyond, memory
<1>2. BeyondInv'
  BY DEF FleetInv, MemoryInv, BeyondInv, Beyond, Outside, memory
<1>3. CallInv'
  BY DEF FleetInv, MemoryInv, CallInv, Outside, memory, world
<1>4. ReceiptIsTrue'
  BY DEF FleetInv, ReceiptIsTrue, Outside, memory, world
<1>5. SettledInv' /\ CleanupInv'
  BY DEF FleetInv, MemoryInv, SettledInv, CleanupInv, Outside, memory
<1> QED
  BY <1>1, <1>2, <1>3, <1>4, <1>5 DEF Kept

Promises == FleetTypeOK /\ Kept

\* Steps of operators and time.
LEMMA OthersKeep ==
  ASSUME FleetInv,
         \/ \E i \in Item : RunOut(i) \/ LateHeartbeat(i) \/ Submit(i) \/ Withdraw(i)
         \/ \E l \in Limits : SetLimit(l)
         \/ Sweep
         \/ UNCHANGED fleetVars
  PROVE  Promises'
<1>1. UNCHANGED <<memory, world>>
  BY DEF RunOut, LateHeartbeat, Submit, Withdraw, SetLimit, Sweep, fleetVars
<1>2. faults' \in 0..MaxFaults
  BY FleetAssumption DEF RunOut, LateHeartbeat, Submit, Withdraw, SetLimit, Sweep, Fault, fleetVars,
     FleetInv, FleetTypeOK
<1>3. FleetTypeOK'
  BY <1>1, <1>2 DEF FleetInv, FleetTypeOK, memory, world
<1>4. \A i \in Item : Outside(i)
  BY QueueTyped, Elsewhere DEF RunOut, LateHeartbeat, Submit, Withdraw, SetLimit, Sweep, fleetVars
<1> QED
  BY <1>1, <1>3, <1>4, OutsideKeeps DEF Promises

\* The memory of one process, as it goes on or leaves.
LEMMA TypesKept ==
  ASSUME FleetInv, NEW p \in Proc,
         Start(p) \/ Advance(p) \/ Refused(p) \/ Notice(p) \/ LoseContact(p) \/ Crash(p)
  PROVE  FleetTypeOK' /\ MemoryInv'
<1> USE DEF FleetInv, FleetTypeOK, MemoryInv, Goto
<1>0. TypeOK /\ 0 \in 0..MaxEpoch /\ MaxEpoch \in Nat
  BY QueueTyped, WorkQueueAssumption
<1>1. ASSUME Start(p)
      PROVE  FleetTypeOK' /\ MemoryInv'
  BY <1>0, <1>1 DEF Start, Claim, TypeOK, world
<1>2. ASSUME Leave(p), UNCHANGED <<world>>, faults' \in 0..MaxFaults
      PROVE  FleetTypeOK' /\ MemoryInv'
  BY <1>0, <1>2 DEF Leave, world
<1>3. ASSUME StartDispatch(p)
      PROVE  FleetTypeOK' /\ MemoryInv'
  BY <1>2, <1>3 DEF StartDispatch, world
<1>4. ASSUME Invoke(p)
      PROVE  FleetTypeOK' /\ MemoryInv'
  BY <1>4 DEF Invoke
<1>5. ASSUME NEW a \in Answer, Return(p, a)
      PROVE  FleetTypeOK' /\ MemoryInv'
  <2>1. [epoch |-> ticket[p], answer |-> a] \in Receipt
    BY <1>5, FleetAssumption DEF Return
  <2> QED
    BY <1>5, <2>1 DEF Return
<1>6. ASSUME GiveBack(p) \/ WalkAway(p) \/ Settle(p) \/ CleanUp(p)
      PROVE  FleetTypeOK' /\ MemoryInv'
  <2>1. CASE Leave(p)
    BY <1>2, <1>6, <2>1 DEF GiveBack, WalkAway, Settle, CleanUp
  <2>2. CASE /\ pc[p] = "returned" /\ Goto(p, "settled")
             /\ UNCHANGED <<item, ticket, lost, kept, world, faults>>
    BY <2>2 DEF world
  <2> QED
    BY <1>6, <2>1, <2>2 DEF GiveBack, WalkAway, Settle, CleanUp
<1>7. ASSUME Refused(p) \/ Notice(p) \/ LoseContact(p)
      PROVE  FleetTypeOK' /\ MemoryInv'
  <2>1. faults' \in 0..MaxFaults
    BY <1>7, FleetAssumption DEF Refused, Notice, LoseContact, Fault
  <2>2. CASE Refused(p)
    BY <2>1, <2>2 DEF Refused, world
  <2>3. CASE Notice(p) \/ LoseContact(p)
    BY <2>1, <2>3 DEF Notice, LoseContact, world
  <2> QED
    BY <1>7, <2>2, <2>3
<1>8. ASSUME Crash(p)
      PROVE  FleetTypeOK' /\ MemoryInv'
  BY <1>2, <1>8, FleetAssumption DEF Crash, Fault, world
<1> QED
  BY <1>1, <1>3, <1>4, <1>5, <1>6, <1>7, <1>8 DEF Advance

\* A process that leaves takes nothing with it but its own claim.
LEMMA LeavingKeeps ==
  ASSUME FleetInv, MemoryInv', NEW p \in Proc, Leave(p), UNCHANGED world, \A i \in Item : Outside(i)
  PROVE  Kept'
<1>1. \A q \in Proc : \/ q # p /\ UNCHANGED <<pc[q], item[q], ticket[q], kept[q]>>
                      \/ q = p /\ pc'[q] = "idle"
  BY DEF Leave, Goto, FleetInv, FleetTypeOK
<1>2. BeyondInv' /\ SoleInv'
  BY <1>1 DEF FleetInv, MemoryInv, BeyondInv, SoleInv, Beyond, Outside
<1>3. CallInv'
  BY <1>1 DEF FleetInv, MemoryInv, CallInv, Outside, world
<1>4. ReceiptIsTrue'
  BY DEF FleetInv, ReceiptIsTrue, Outside, world
<1>5. SettledInv' /\ CleanupInv'
  BY <1>1 DEF FleetInv, MemoryInv, SettledInv, CleanupInv, Outside
<1> QED
  BY <1>2, <1>3, <1>4, <1>5 DEF Kept

\* The steps of a process.
LEMMA ProcessKeeps ==
  ASSUME FleetInv, NEW p \in Proc,
         Start(p) \/ Advance(p) \/ Refused(p) \/ Notice(p) \/ LoseContact(p) \/ Crash(p)
  PROVE  Promises'
<1> DEFINE Rest == BeyondInv /\ SettledInv /\ CleanupInv /\ SoleInv /\ CallInv
                   /\ ReceiptIsTrue
<1>1. FleetTypeOK' /\ MemoryInv' /\ TypeOK
  BY TypesKept, QueueTyped
<1>2. UNCHANGED vars => \A i \in Item : Outside(i)
  BY <1>1, Elsewhere
<1>3. ASSUME Start(p)
      PROVE  Rest'
  <2>1. \A i \in Item : Outside(i)
    BY <1>1, <1>3, Elsewhere DEF Start
  <2>2. \A q \in Proc : \/ q # p /\ UNCHANGED <<pc[q], item[q], ticket[q], kept[q]>>
                        \/ q = p /\ pc'[q] = "claimed"
    BY <1>3 DEF Start, Goto, FleetInv, FleetTypeOK
  <2>3. UNCHANGED world
    BY <1>3 DEF Start
  <2>4. BeyondInv' /\ SoleInv'
    BY <2>1, <2>2 DEF FleetInv, MemoryInv, BeyondInv, SoleInv, Beyond, Outside
  <2>5. CallInv' /\ ReceiptIsTrue'
    BY <2>1, <2>2, <2>3 DEF FleetInv, MemoryInv, CallInv, ReceiptIsTrue, Outside, world
  <2>6. SettledInv' /\ CleanupInv'
    BY <2>1, <2>2 DEF FleetInv, MemoryInv, SettledInv, CleanupInv, Outside
  <2> QED
    BY <2>4, <2>5, <2>6
<1>4. ASSUME pc[p] = "claimed", Dispatch(item[p], Name[p], ticket[p]), Goto(p, "dispatched"),
             UNCHANGED <<item, ticket, lost, kept, world>>
      PROVE  Rest'
  <2>1. /\ item[p] \in Item /\ state[item[p]] = "leased" /\ epoch[item[p]] = ticket[p]
        /\ state' = [state EXCEPT ![item[p]] = "dispatched"] /\ epoch' = epoch /\ receipt' = receipt
    BY <1>4 DEF Dispatch, Locked, Become, lease, settlement, FleetInv, MemoryInv
  <2>2. \A q \in Proc : Beyond(q) => item[q] # item[p]
    BY <2>1 DEF FleetInv, BeyondInv
  <2>3. pc' = [pc EXCEPT ![p] = "dispatched"]
    BY <1>4 DEF Goto
  <2>4. BeyondInv' /\ SoleInv'
    BY <1>1, <1>4, <2>1, <2>2, <2>3 DEF FleetInv, FleetTypeOK, MemoryInv, BeyondInv, SoleInv, Beyond, TypeOK
  <2>5. CallInv' /\ ReceiptIsTrue'
    BY <1>1, <1>4, <2>1, <2>2, <2>3 DEF FleetInv, FleetTypeOK, MemoryInv, CallInv, Beyond, ReceiptIsTrue, TypeOK, world
  <2>6. told' = [told EXCEPT ![item[p]] = <<"dispatched", ticket[p]>>]
    BY <1>4 DEF Dispatch, Event
  <2>7. SettledInv' /\ CleanupInv'
    BY <1>1, <1>4, <2>1, <2>3, <2>6 DEF FleetInv, FleetTypeOK, MemoryInv, SettledInv, CleanupInv, TypeOK
  <2> QED
    BY <2>4, <2>5, <2>7
<1>5. ASSUME Leave(p), UNCHANGED vars, UNCHANGED world
      PROVE  Rest'
  BY <1>1, <1>2, <1>5, LeavingKeeps DEF Kept
<1>6. ASSUME Invoke(p)
      PROVE  Rest'
  <2>1. /\ pc[p] = "dispatched" /\ pc' = [pc EXCEPT ![p] = "calling"] /\ item[p] \in Item
        /\ calls' = [calls EXCEPT ![item[p]] = calls[item[p]] + 1] /\ calls[item[p]] = 0
        /\ UNCHANGED <<state, epoch, receipt, told, item, ticket, kept, answered>>
    BY <1>6 DEF Invoke, Goto, FleetInv, MemoryInv, CallInv, vars, work, lease, settlement
  <2>2. BeyondInv' /\ SoleInv'
    BY <2>1 DEF FleetInv, FleetTypeOK, BeyondInv, SoleInv, Beyond
  <2>3. \A q \in Proc : q # p /\ Beyond(q) => item[q] # item[p]
    BY <2>1 DEF FleetInv, SoleInv, Beyond
  <2>4. state[item[p]] \in {"dispatched", "reconciliation_required"}
    BY <2>1 DEF FleetInv, BeyondInv, Beyond
  <2>5. CallInv'
    BY <2>1, <2>3, <2>4 DEF FleetInv, FleetTypeOK, MemoryInv, CallInv, Beyond
  <2>6. ReceiptIsTrue'
    BY <2>1, <2>4 DEF FleetInv, FleetTypeOK, ReceiptIsTrue
  <2>7. SettledInv' /\ CleanupInv'
    BY <2>1 DEF FleetInv, FleetTypeOK, SettledInv, CleanupInv
  <2> QED
    BY <2>2, <2>5, <2>6, <2>7
<1>7. ASSUME Refused(p)
      PROVE  Rest'
  <2>1. /\ pc[p] = "dispatched" /\ pc' = [pc EXCEPT ![p] = "refused"] /\ item[p] \in Item
        /\ UNCHANGED <<state, epoch, receipt, told, item, ticket, kept, calls, answered>>
    BY <1>7 DEF Refused, Goto, FleetInv, MemoryInv, vars, work, lease, settlement, world
  <2> QED
    BY <2>1 DEF FleetInv, FleetTypeOK, BeyondInv, SoleInv, Beyond, CallInv, ReceiptIsTrue,
       SettledInv, CleanupInv
<1>8. ASSUME pc[p] = "refused", Defer(item[p], Name[p], ticket[p]), Leave(p), UNCHANGED world
      PROVE  Rest'
  <2>1. /\ item[p] \in Item /\ state' = [state EXCEPT ![item[p]] = "queued"]
        /\ epoch' = [epoch EXCEPT ![item[p]] = epoch[item[p]] + 1] /\ receipt' = receipt
        /\ calls[item[p]] = 0
        /\ told' = [told EXCEPT ![item[p]] = <<"admission_delayed", ticket[p] + 1>>]
        /\ state[item[p]] # "completed"
    BY <1>8 DEF Defer, Locked, Become, Bump, Event, settlement, FleetInv, MemoryInv, CallInv
  <2>2. \A q \in Proc : \/ q # p /\ UNCHANGED <<pc[q], item[q], ticket[q], kept[q]>>
                        \/ q = p /\ pc'[q] = "idle"
    BY <1>8 DEF Leave, Goto, FleetInv, FleetTypeOK
  <2>3. \A q \in Proc : q # p /\ Beyond(q) => item[q] # item[p]
    BY <1>8 DEF FleetInv, SoleInv, Beyond
  <2>7. \A q \in Proc : Beyond(q)' =>
          q # p /\ Beyond(q) /\ item'[q] = item[q] /\ ticket'[q] = ticket[q]
    BY <2>2 DEF Beyond
  <2>4. BeyondInv' /\ SoleInv'
    BY <1>1, <2>1, <2>3, <2>7 DEF FleetInv, MemoryInv, BeyondInv, SoleInv, TypeOK
  <2>5. CallInv' /\ ReceiptIsTrue'
    BY <1>1, <1>8, <2>1, <2>2, <2>3 DEF FleetInv, MemoryInv, CallInv, ReceiptIsTrue, Beyond, TypeOK, world
  <2>6. SettledInv' /\ CleanupInv'
    BY <1>1, <2>1, <2>2 DEF FleetInv, MemoryInv, SettledInv, CleanupInv, TypeOK
  <2> QED
    BY <2>4, <2>5, <2>6
<1>9. ASSUME NEW a \in Answer, Return(p, a)
      PROVE  Rest'
  <2> DEFINE r == [epoch |-> ticket[p], answer |-> a]
  <2>1. /\ pc[p] = "calling" /\ pc' = [pc EXCEPT ![p] = "returned"] /\ item[p] \in Item
        /\ kept' = [kept EXCEPT ![p] = r] /\ answered' = [answered EXCEPT ![item[p]] = r]
        /\ UNCHANGED <<state, epoch, receipt, told, item, ticket, calls>>
    BY <1>9 DEF Return, Goto, FleetInv, MemoryInv, vars, work, lease, settlement
  <2>2. BeyondInv' /\ SoleInv'
    BY <2>1 DEF FleetInv, FleetTypeOK, BeyondInv, SoleInv, Beyond
  <2>3. \A q \in Proc : q # p /\ Beyond(q) => item[q] # item[p]
    BY <2>1 DEF FleetInv, SoleInv, Beyond
  <2>4. state[item[p]] \in {"dispatched", "reconciliation_required"}
    BY <2>1 DEF FleetInv, BeyondInv, Beyond
  <2>5. CallInv'
    BY <2>1, <2>3 DEF FleetInv, FleetTypeOK, MemoryInv, CallInv, Beyond
  <2>6. ReceiptIsTrue'
    BY <2>1, <2>4 DEF FleetInv, FleetTypeOK, ReceiptIsTrue
  <2>7. SettledInv' /\ CleanupInv'
    BY <2>1 DEF FleetInv, FleetTypeOK, SettledInv, CleanupInv
  <2> QED
    BY <2>2, <2>5, <2>6, <2>7
<1>10. ASSUME pc[p] = "returned", Complete(item[p], Name[p], ticket[p], kept[p], Unmeasured),
              \/ Leave(p)
              \/ item[p] \in Jobs /\ Goto(p, "settled") /\ UNCHANGED <<item, ticket, kept>>,
              UNCHANGED world
       PROVE  Rest'
  <2>1. /\ item[p] \in Item /\ epoch[item[p]] = ticket[p] /\ state[item[p]] = "dispatched"
        /\ state' = [state EXCEPT ![item[p]] = "completed"] /\ epoch' = epoch
        /\ receipt' = [receipt EXCEPT ![item[p]] = kept[p]]
        /\ told' = [told EXCEPT ![item[p]] = <<"completed", ticket[p]>>]
        /\ calls[item[p]] = 1 /\ answered[item[p]] = kept[p] /\ kept[p].epoch = ticket[p]
    BY <1>10 DEF Complete, Locked, Become, Event, lease, FleetInv, MemoryInv, CallInv
  <2>2. \A q \in Proc : \/ q # p /\ UNCHANGED <<pc[q], item[q], ticket[q], kept[q]>>
                        \/ q = p /\ pc'[q] = "idle"
                        \/ /\ q = p /\ pc'[q] = "settled" /\ item[q] \in Jobs
                           /\ UNCHANGED <<item[q], ticket[q]>>
    BY <1>10 DEF Leave, Goto, FleetInv, FleetTypeOK
  <2>3. \A q \in Proc : q # p /\ Beyond(q) => item[q] # item[p]
    BY <1>10 DEF FleetInv, SoleInv, Beyond
  <2>9. \A q \in Proc : Beyond(q)' =>
          q # p /\ Beyond(q) /\ item'[q] = item[q] /\ ticket'[q] = ticket[q]
    BY <2>2 DEF Beyond
  <2>4. BeyondInv' /\ SoleInv'
    BY <2>1, <2>3, <2>9 DEF FleetInv, BeyondInv, SoleInv, TypeOK
  <2>5. CallInv'
    BY <1>1, <1>10, <2>1, <2>2 DEF FleetInv, MemoryInv, CallInv, TypeOK, world
  <2>6. ReceiptIsTrue'
    BY <1>1, <1>10, <2>1 DEF FleetInv, ReceiptIsTrue, TypeOK, world
  <2>7. SettledInv'
    BY <1>1, <2>1, <2>2 DEF FleetInv, MemoryInv, SettledInv, TypeOK
  <2>8. CleanupInv'
    BY <1>1, <2>1 DEF FleetInv, CleanupInv, TypeOK
  <2> QED
    BY <2>4, <2>5, <2>6, <2>7, <2>8
<1>14. ASSUME pc[p] = "settled", CleanupRequired(item[p], ticket[p]), Leave(p), UNCHANGED world
       PROVE  Rest'
  <2>1. /\ item[p] \in Item /\ item[p] \in Jobs
        /\ UNCHANGED <<state, epoch, receipt>>
        /\ told' = [told EXCEPT ![item[p]] = <<"cleanup_required", ticket[p]>>]
    BY <1>14 DEF CleanupRequired, Event, work, lease, settlement, FleetInv, MemoryInv, SettledInv
  <2>2. \A q \in Proc : \/ q # p /\ UNCHANGED <<pc[q], item[q], ticket[q], kept[q]>>
                        \/ q = p /\ pc'[q] = "idle"
    BY <1>14 DEF Leave, Goto, FleetInv, FleetTypeOK
  <2>3. BeyondInv' /\ SettledInv' /\ SoleInv'
    BY <1>1, <2>1, <2>2 DEF FleetInv, MemoryInv, BeyondInv, SettledInv, SoleInv, Beyond
  <2>4. CallInv' /\ ReceiptIsTrue'
    BY <1>1, <1>14, <2>1, <2>2 DEF FleetInv, MemoryInv, CallInv, ReceiptIsTrue, world
  <2>5. CleanupInv'
    BY <1>1, <2>1 DEF FleetInv, CleanupInv, TypeOK
  <2> QED
    BY <2>3, <2>4, <2>5
<1>11. ASSUME Notice(p) \/ LoseContact(p)
       PROVE  Rest'
  BY <1>11 DEF Notice, LoseContact, vars, work, lease, settlement, world, FleetInv, BeyondInv, SoleInv,
     Beyond, CallInv, ReceiptIsTrue, SettledInv, CleanupInv
<1>12. ASSUME Advance(p)
       PROVE  Rest'
  BY <1>4, <1>5, <1>6, <1>8, <1>9, <1>10, <1>12, <1>14 DEF Advance, StartDispatch, GiveBack,
     WalkAway, Settle, NotSettled, CleanUp
<1>13. Crash(p) => Rest'
  BY <1>5 DEF Crash
<1> QED
  BY <1>1, <1>3, <1>7, <1>11, <1>12, <1>13 DEF Promises, Kept

LEMMA FleetStep == FleetInv /\ [FleetNext]_fleetVars => FleetInv'
<1> SUFFICES ASSUME FleetInv, [FleetNext]_fleetVars
             PROVE  FleetInv'
  OBVIOUS
<1>1. IInv'
  BY StepMaps, IStep DEF FleetInv
<1>2. Promises'
  BY ProcessKeeps, OthersKeep DEF FleetNext
<1> QED
  BY <1>1, <1>2 DEF Promises, Kept, FleetInv

LEMMA FleetStarts == FleetInit => FleetInv
<1> SUFFICES ASSUME FleetInit
             PROVE  FleetInv
  OBVIOUS
<1>1. IInv
  BY IInit DEF FleetInit
<1>2. FleetTypeOK /\ MemoryInv
  BY FleetAssumption, WorkQueueAssumption DEF FleetInit, FleetTypeOK, MemoryInv
<1>3. BeyondInv /\ SettledInv /\ CleanupInv /\ SoleInv /\ CallInv /\ ReceiptIsTrue
  BY DEF FleetInit, Init, BeyondInv, SettledInv, CleanupInv, SoleInv, Beyond, CallInv,
     ReceiptIsTrue
<1> QED
  BY <1>1, <1>2, <1>3 DEF FleetInv

-----------------------------------------------------------------------------
\* The theorems

\* The inductive invariant holds in every reachable state.
THEOREM FleetInvariance == FleetSpec => []FleetInv
  BY FleetStarts, FleetStep, PTL DEF FleetSpec

\* A run of the fleet is one of WorkQueue, so what is proved there holds here.
LEMMA FleetIsQueue == FleetSpec => Spec
<1>1. FleetInit => Init
  BY DEF FleetInit
<1> QED
  BY <1>1, StepMaps, FleetInvariance, PTL DEF FleetSpec, Spec

\* However claims expire, are deferred, cancelled or reconciled, and however
\* late a process acts on an old claim, the target of a row is called at most
\* once, one that was not dispatched never, and a completed row has the answer.
THEOREM TrueCalls == FleetSpec => []CallsAsRecorded
<1>1. FleetInv => CallsAsRecorded
  <2> SUFFICES ASSUME FleetInv
               PROVE  CallsAsRecorded
    OBVIOUS
  <2>1. InvokedAtMostOnce
    BY DEF FleetInv, CallInv, InvokedAtMostOnce
  <2>2. UndispatchedNeverCalled
    <3>1. ASSUME NEW i \in Item, NEW p \in Proc, item[p] = i,
                 state[i] \in {"absent", "queued", "leased", "cancelled"}
          PROVE  pc[p] = "claimed"
      <4>1. i # 0
        BY DEF Item
      <4>2. pc[p] \notin {"idle", "settled"} /\ ~Beyond(p)
        BY <3>1, <4>1 DEF FleetInv, MemoryInv, BeyondInv, SettledInv
      <4> QED
        BY <4>2 DEF FleetInv, FleetTypeOK, Beyond
    <3> QED
      BY <3>1 DEF FleetInv, CallInv, UndispatchedNeverCalled
  <2> QED
    BY <2>1, <2>2 DEF FleetInv, CallsAsRecorded
<1> QED
  BY <1>1, FleetInvariance, PTL

\* So the account and the outbox are as BooksAlwaysAgree says, whatever the
\* workers do.
THEOREM FleetBooks == FleetSpec => []BooksAgree
  BY FleetIsQueue, BooksAlwaysAgree, PTL

\* What the outbox says last of a row is true of it under the workers, the
\* cleanup a worker asks for after its completion included (worker.py:77-88).
THEOREM EventsAreTrue == FleetSpec => []OutboxIsTrue
<1>1. FleetInv => OutboxIsTrue
  <2> SUFFICES ASSUME FleetInv, NEW i \in Item, told[i][1] = "cleanup_required"
               PROVE  i \in Jobs /\ calls[i] = 1 /\ receipt[i] = answered[i]
    BY DEF FleetInv, IInv, OutboxIsTrue
  <2>1. state[i] = "completed"
    BY DEF FleetInv, IInv, OutboxAgrees, LastEvents, ColumnTypes, State
  <2> QED
    BY <2>1 DEF FleetInv, CleanupInv, ReceiptIsTrue
<1> QED
  BY <1>1, FleetInvariance, PTL
=============================================================================
