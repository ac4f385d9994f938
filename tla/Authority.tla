----------------------------- MODULE Authority -----------------------------
(***************************************************************************)
(* The candidate authority (candidates/authority.py) and its paired        *)
(* studies (candidates/studies.py): which executions are reserved, bound   *)
(* to a candidate, submitted, failed and assessed, and what a study may    *)
(* reserve, repair and report.                                             *)
(*                                                                         *)
(* Grain.  Every record is put once into the catalogue (Store.put: equal   *)
(* bytes again are no change, other bytes raise), and Store.db() is        *)
(* BEGIN IMMEDIATE, so a transaction is one action.  What a call reads     *)
(* before its transaction are such records and the evaluator's identity,   *)
(* which later writes do not change; only that there is no study yet may   *)
(* change, and is read again inside.  A call that raises is no step.       *)
(* reserve_study is one transaction per record, and may stop between two.  *)
(*                                                                         *)
(* Abstractions.  One project, one study, one task family.  The order of   *)
(* the schedule, fixed by the plan's seed, is 1..Slots.  Both arms of a    *)
(* task have equal budgets, so one recipe stands for the plan's; requests  *)
(* and tokens are limited alike, so one number stands for both.  Bytes     *)
(* that do not match what they claim to be (manifest_for, read_artifact)   *)
(* make a call raise.                                                      *)
(***************************************************************************)
EXTENDS Integers, FiniteSets, FiniteSetsExt

CONSTANTS Slots,        \* trials the plan schedules; k is also the id of k's execution
          Other,        \* ids of executions reserved by hand
          Operator,     \* processes that may run reserve_study
          Recipe,       \* registered recipes
          PlanRecipe,   \* the one the plan names
          Requests,     \* max_model_requests of each recipe
          MaxRepairs,   \* max_repairs of each recipe
          MaxAssisted,          \* the plan's max_assisted_executions
          MaxAssistedRequests,  \* and its max_assisted_model_requests
          Versions,     \* bound on the evaluators that are ever installed
          Missing       \* there is no such record

ASSUME AuthorityAssumption ==
    /\ Slots \in Nat /\ MaxAssisted \in Nat /\ MaxAssistedRequests \in Nat
    /\ Versions \in Nat
    /\ Other \cap Nat = {} /\ Missing \notin Nat \cup Other
    /\ PlanRecipe \in Recipe
    /\ Requests \in [Recipe -> Nat] /\ MaxRepairs \in [Recipe -> Nat]

Planned == 1..Slots
Execution == Planned \cup Other

\* Slot 0 is a trial of the cohort that the plan does not schedule.
Ticket == [slot : 0..Slots, parent : Execution \cup {Missing}, recipe : Recipe,
           evaluator : 0..Versions]
Outcome == {"pass", "fail", "inconclusive"}

ASSUME MissingAssumption == Missing \notin Ticket \cup Outcome \cup {"completed", "failed"}

VARIABLES
    evaluator,    \* identity() of the installed evaluator
    study,        \* the candidate-study record exists
    schedule,     \* the candidate-schedule record exists
    ticket,       \* trial-ticket-v2, with reserved-trial
    bound,        \* execution-v2: the ticket has its candidate
    submission,   \* submission-v2: the status the producer reports
    failure,      \* production-failure-v2 exists
    verdict,      \* assessment-v2: its outcome
    at,           \* where an operator's reserve_study is in the schedule
    early         \* history: repairs reserved before there was a study

records == <<study, schedule, ticket, bound, submission, failure, verdict>>
authorityVars == <<evaluator, records, at, early>>

AuthorityTypeOK ==
    /\ evaluator \in 0..Versions
    /\ study \in BOOLEAN /\ schedule \in BOOLEAN
    /\ ticket \in [Execution -> Ticket \cup {Missing}]
    /\ bound \in [Execution -> BOOLEAN]
    /\ submission \in [Execution -> {"completed", "failed", Missing}]
    /\ failure \in [Execution -> BOOLEAN]
    /\ verdict \in [Execution -> Outcome \cup {Missing}]
    /\ at \in [Operator -> 0..Slots + 1]
    /\ early \subseteq Execution

AuthorityInit ==
    /\ evaluator = 0
    /\ study = FALSE
    /\ schedule = FALSE
    /\ ticket = [e \in Execution |-> Missing]
    /\ bound = [e \in Execution |-> FALSE]
    /\ submission = [e \in Execution |-> Missing]
    /\ failure = [e \in Execution |-> FALSE]
    /\ verdict = [e \in Execution |-> Missing]
    /\ at = [o \in Operator |-> 0]
    /\ early = {}

-----------------------------------------------------------------------------
\* Reservation

Reserved == {e \in Execution : ticket[e] # Missing}
IsRepair(e) == ticket[e].parent # Missing
Repairs == {e \in Reserved : IsRepair(e)}
Initial == {e \in Reserved : ~IsRepair(e)}

\* What a set of executions may request: a sum, as the number of its units.
RequestsOf(S) == Cardinality(UNION {{e} \X (1..Requests[ticket[e].recipe]) : e \in S})

\* The repair chain above an execution, and the execution it starts from.
Depth[e \in Execution] ==
    IF ticket[e] = Missing \/ ~IsRepair(e) THEN 0 ELSE 1 + Depth[ticket[e].parent]
Root[e \in Execution] ==
    IF ticket[e] = Missing \/ ~IsRepair(e) THEN e ELSE Root[ticket[e].parent]

\* reserved-trial: one execution per trial identity.
TrialIsFree(slot, parent) ==
    \A f \in Reserved : ticket[f].slot # slot \/ ticket[f].parent # parent

PlanTicket(k) ==
    [slot |-> k, parent |-> Missing, recipe |-> PlanRecipe, evaluator |-> 0]

Put(e, t) ==
    /\ ticket[e] = Missing
    /\ TrialIsFree(t.slot, t.parent)
    /\ ticket' = [ticket EXCEPT ![e] = t]

\* reserve() of a first attempt, by hand: of the study's own executions ahead
\* of it, perhaps with another evaluator, or of others for a trial of its cohort.
\* Nothing compares them with the plan.
ReserveInitial(e, slot) ==
    /\ e \in Planned => slot = e
    /\ Put(e, [PlanTicket(slot) EXCEPT !.evaluator = evaluator])
    /\ UNCHANGED <<evaluator, study, schedule, bound, submission, failure,
                   verdict, at, early>>

\* What reserve() asks of the parent of a repair.
Unsuccessful(e) == verdict[e] \in {"fail", "inconclusive"}

AllowedRepairs(parent, recipe) ==
    IF study THEN (IF MaxAssisted > 0 THEN 1 ELSE 0)
    ELSE Min({MaxRepairs[recipe], MaxRepairs[ticket[Root[parent]].recipe]})

\* The failures of the complete initial cohort that come first in the schedule.
Decided(e) == verdict[e] # Missing \/ failure[e]
Selected ==
    LET eligible == {e \in Planned : Unsuccessful(e)} IN
    {e \in eligible : Cardinality({f \in eligible : f < e}) < MaxAssisted}

\* Mutant of MayRepair: the initial cohort need not be complete.
MayRepairEarly(e, parent, recipe) ==
    study =>
        /\ schedule
        /\ parent \in Selected
        /\ Cardinality(Repairs) + 1 <= MaxAssisted
        /\ RequestsOf(Repairs) + Requests[recipe] <= MaxAssistedRequests

\* Mutant of MayRepair: a repair is weighed alone, not with the others.
MayRepairAlone(e, parent, recipe) ==
    study =>
        /\ schedule
        /\ \A k \in Planned : Decided(k)
        /\ parent \in Selected
        /\ Requests[recipe] <= MaxAssistedRequests

\* reserve_repair_budget(), in the transaction that stores the ticket.
MayRepair(e, parent, recipe) ==
    study =>
        /\ schedule
        /\ \A k \in Planned : Decided(k)
        /\ parent \in Selected
        /\ Cardinality(Repairs \ {e}) + 1 <= MaxAssisted
        /\ RequestsOf(Repairs \ {e}) + Requests[recipe] <= MaxAssistedRequests

\* reserve() of an assisted correction.  The parent's suite, base and policy
\* are compared with the repair's; its evaluator is not.
ReserveRepair(e, parent, recipe) ==
    /\ parent # e
    /\ Unsuccessful(parent)
    /\ Depth[parent] + 1 <= AllowedRepairs(parent, recipe)
    /\ MayRepair(e, parent, recipe)
    /\ Put(e, [slot |-> ticket[parent].slot, parent |-> parent,
               recipe |-> recipe, evaluator |-> evaluator])
    /\ early' = IF study THEN early ELSE early \cup {e}
    /\ UNCHANGED <<evaluator, study, schedule, bound, submission, failure,
                   verdict, at>>

-----------------------------------------------------------------------------
\* The study

\* reserve_study() stores the plan first.
StudyOpens(o) ==
    /\ at[o] = 0
    /\ evaluator = 0
    /\ study' = TRUE
    /\ at' = [at EXCEPT ![o] = 1]
    /\ UNCHANGED <<evaluator, schedule, ticket, bound, submission, failure,
                   verdict, early>>

\* Then one ticket after the other: one that is there already is left alone.
StudyReserves(o) ==
    /\ at[o] \in Planned
    /\ evaluator = 0
    /\ \/ ticket[at[o]] = PlanTicket(at[o]) /\ UNCHANGED ticket
       \/ Put(at[o], PlanTicket(at[o]))
    /\ at' = [at EXCEPT ![o] = @ + 1]
    /\ UNCHANGED <<evaluator, study, schedule, bound, submission, failure,
                   verdict, early>>

\* Mutant of StudySchedules: the schedule is stored with the plan.
StudySchedulesFirst(o) ==
    /\ at[o] > 0
    /\ schedule' = TRUE
    /\ at' = [at EXCEPT ![o] = 0]
    /\ UNCHANGED <<evaluator, study, ticket, bound, submission, failure,
                   verdict, early>>

\* Mutant of StudySchedules: the session does not end with it.
StudySchedulesOn(o) ==
    /\ at[o] = Slots + 1
    /\ schedule' = TRUE
    /\ at' = [at EXCEPT ![o] = @ + 1]
    /\ UNCHANGED <<evaluator, study, ticket, bound, submission, failure,
                   verdict, early>>

\* And the schedule last.
StudySchedules(o) ==
    /\ at[o] = Slots + 1
    /\ schedule' = TRUE
    /\ at' = [at EXCEPT ![o] = 0]
    /\ UNCHANGED <<evaluator, study, ticket, bound, submission, failure,
                   verdict, early>>

\* The session dies, or raises: a conflicting ticket, a changed evaluator.
StudyStops(o) ==
    /\ at[o] # 0
    /\ at' = [at EXCEPT ![o] = 0]
    /\ UNCHANGED <<evaluator, records, early>>

-----------------------------------------------------------------------------
\* Executions

\* Mutant of Issue: a recorded failure does not stop it.
IssueAnyway(e) ==
    /\ ticket[e] # Missing
    /\ ticket[e].evaluator = evaluator
    /\ ~bound[e]
    /\ bound' = [bound EXCEPT ![e] = TRUE]
    /\ UNCHANGED <<evaluator, study, schedule, ticket, submission, failure,
                   verdict, at, early>>

\* issue(): the ticket gets its single candidate.
Issue(e) ==
    /\ ticket[e] # Missing
    /\ ticket[e].evaluator = evaluator
    /\ ~failure[e]
    /\ ~bound[e]
    /\ bound' = [bound EXCEPT ![e] = TRUE]
    /\ UNCHANGED <<evaluator, study, schedule, ticket, submission, failure,
                   verdict, at, early>>

\* ingest(): intake, which is not acceptance.
Ingest(e, status) ==
    /\ bound[e]
    /\ ticket[e].evaluator = evaluator
    /\ submission[e] = Missing
    /\ submission' = [submission EXCEPT ![e] = status]
    /\ UNCHANGED <<evaluator, study, schedule, ticket, bound, failure,
                   verdict, at, early>>

\* record_failure(): the reserved invocation ended without a candidate.
RecordFailure(e) ==
    /\ ticket[e] # Missing
    /\ ~bound[e]
    /\ ~failure[e]
    /\ failure' = [failure EXCEPT ![e] = TRUE]
    /\ UNCHANGED <<evaluator, study, schedule, ticket, bound, submission,
                   verdict, at, early>>

\* policy_decision(): checks and measurements decide, but a producer that did
\* not complete never passes.
Verdicts(status) == IF status = "completed" THEN Outcome ELSE Outcome \ {"pass"}

\* evaluate(), from its inputs to its assessment; Evaluation.tla takes it apart.
StoreAssessment(e, outcome) ==
    /\ bound[e]
    /\ submission[e] # Missing
    /\ ticket[e].evaluator = evaluator
    /\ verdict[e] = Missing
    /\ outcome \in Verdicts(submission[e])
    /\ verdict' = [verdict EXCEPT ![e] = outcome]
    /\ UNCHANGED <<evaluator, study, schedule, ticket, bound, submission,
                   failure, at, early>>

\* Another version of the evaluator is installed.
Upgrade ==
    /\ evaluator < Versions
    /\ evaluator' = evaluator + 1
    /\ UNCHANGED <<records, at, early>>

AuthorityNext ==
    \/ \E e \in Execution, slot \in 0..Slots : ReserveInitial(e, slot)
    \/ \E e \in Other, parent \in Execution, recipe \in Recipe :
          ReserveRepair(e, parent, recipe)
    \/ \E o \in Operator :
          StudyOpens(o) \/ StudyReserves(o) \/ StudySchedules(o) \/ StudyStops(o)
    \/ \E e \in Execution : Issue(e) \/ RecordFailure(e)
    \/ \E e \in Execution, status \in {"completed", "failed"} : Ingest(e, status)
    \/ \E e \in Execution, outcome \in Outcome : StoreAssessment(e, outcome)
    \/ Upgrade

AuthoritySpec == AuthorityInit /\ [][AuthorityNext]_authorityVars

-----------------------------------------------------------------------------
\* Properties

\* A reserved trial ends one way: as a production failure, or as the assessment
\* of the candidate it was bound to, never as both (issue and record_failure
\* each read the other's record in their own transaction).
OneOutcome ==
    \A e \in Execution :
        failure[e] => ~bound[e] /\ submission[e] = Missing /\ verdict[e] = Missing

\* Every repair a study has admitted corrects a different initial failure among
\* the first of the schedule, and that selection never changes afterwards,
\* whatever is reserved, assessed or failed later (reserve_repair_budget).
SelectionIsFrozen ==
    \A e \in Repairs \ early :
        /\ ticket[e].parent \in Selected
        /\ \A f \in Repairs \ {e} : ticket[f].parent # ticket[e].parent

\* Once a study has admitted a repair, all repairs of its cohort together,
\* those reserved before it included, stay within its assisted budget.
AssistedBudget ==
    Repairs \ early # {} =>
        /\ Cardinality(Repairs) <= MaxAssisted
        /\ RequestsOf(Repairs) <= MaxAssistedRequests

\* What a study admits as repairs stays selected and within its budget.
RepairsHold == SelectionIsFrozen /\ AssistedBudget

\* The conditions under which study_report() and the replay of each recorded
\* assessment do not raise.
Computable ==
    /\ schedule
    /\ Initial = Planned
    /\ \A e \in Planned : ticket[e].recipe = PlanRecipe
    /\ \A e \in Reserved :
        /\ ticket[e].evaluator = 0
        /\ ~(failure[e] /\ verdict[e] # Missing)
        /\ verdict[e] # Missing =>
              /\ bound[e]
              /\ submission[e] # Missing
              /\ verdict[e] \in Verdicts(submission[e])

\* However its reservation was interrupted and resumed, a study with a schedule
\* can be reported, unless an operator reserved another first attempt of its
\* cohort, or a repair with a later evaluator.
ScheduledIsReportable ==
    (/\ schedule
     /\ Initial \subseteq Planned
     /\ \A e \in Repairs : ticket[e].evaluator = 0) => Computable

\* "Repair attempts link to a prior execution and remain separate from
\* first-attempt comparisons" (contracts/v2/README.md): admitting a repair
\* does not cost a study its report.
RepairKeepsReport ==
    [][(Computable /\ Repairs' # Repairs) => Computable']_authorityVars
=============================================================================
