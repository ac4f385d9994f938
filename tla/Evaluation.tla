----------------------------- MODULE Evaluation -----------------------------
(***************************************************************************)
(* The independent evaluation of one candidate execution: evaluate()       *)
(* (candidates/execution.py) with the owned container that runs submitted  *)
(* code (candidates/boundary.py).  It is the action StoreAssessment of     *)
(* Authority, taken apart.                                                 *)
(*                                                                         *)
(* Grain.  One durable write, one catalogue transaction, one docker        *)
(* command, or the reads between them.  Any process may die at any label   *)
(* and any docker command may fail or time out, before or after its        *)
(* effect.  Processes are the API's evaluation jobs and the command line.  *)
(*                                                                         *)
(* The journal of the one trial (Journal.tla) is reduced to its row, the   *)
(* receipt the row points to, and the writer lock.  Its clock is late: the *)
(* container has run for more than timeout_seconds.                        *)
(***************************************************************************)
EXTENDS Naturals, FiniteSets

CONSTANTS Process,   \* sessions of evaluate()
          Free,      \* nobody holds the writer lock
          None       \* no such file or record

ASSUME EvaluationAssumption ==
    /\ Free \notin Process
    /\ None \notin {"good", "bad", "killed", "error"}

\* What a container leaves behind: it ran to its end, well or not, or was killed.
Run == {"good", "bad", "killed"}

VARIABLES
    experiment,   \* the candidate-experiment record and its journal
    lock,         \* the journal's writer
    row,          \* the trial's state in the journal
    sealed,       \* the journal's receipt: an observation, or "error"
    cancelFile,   \* cancel.json
    tree,         \* what there is of candidate/
    dispatch,     \* dispatch.json
    box,          \* the container
    late,         \* it has run for longer than the suite allows
    receipt,      \* observation.json
    usage,        \* the candidate-usage record exists
    assessment,   \* assessment-v2: the observation and usage it is made of
    pc, back,     \* per process: its label, and where boundary.execute returns to
    held,         \*   the observation it holds
    measured,     \*   the usage it read
    starts, ran   \* history: starts of the container, and what became of it

journal == <<experiment, lock, row, sealed, cancelFile>>
boundary == <<tree, dispatch, box, late, receipt>>
catalogue == <<usage, assessment>>
session == <<pc, back, held, measured>>
history == <<starts, ran>>
vars == <<journal, boundary, catalogue, session, history>>

\* Labels at which a session is about to run docker.
DockerLabels == {"inspect", "create", "start", "poll", "kill", "collect", "cleanup"}
\* Labels at which it works on a container without a saved observation.
BoxLabels == (DockerLabels \ {"cleanup"}) \cup {"materialize", "fill", "dispatch"}
Labels == BoxLabels \cup {"idle", "plan", "open", "saved", "reconcile", "rcommit",
    "close", "reopen", "loop", "seal", "commit", "grade", "done", "final",
    "assess", "cleanup"}

TypeOK ==
    /\ experiment \in BOOLEAN /\ cancelFile \in BOOLEAN /\ dispatch \in BOOLEAN
    /\ late \in BOOLEAN /\ usage \in BOOLEAN
    /\ lock \in Process \cup {Free}
    /\ row \in {"queued", "running", "reconciliation_required", "observed",
                "completed", "cancelled"}
    /\ sealed \in Run \cup {"error", None}
    /\ tree \in {"absent", "partial", "whole"}
    /\ box \in {"absent", "created", "running", "exited"}
    /\ receipt \in Run \cup {None}
    /\ assessment \in (Run \X BOOLEAN) \cup {None}
    /\ pc \in [Process -> Labels]
    /\ back \in [Process -> {"reconcile", "seal", "final"}]
    /\ held \in [Process -> Run \cup {"error", None}]
    /\ measured \in [Process -> BOOLEAN]
    /\ starts \in Nat
    /\ ran \in Run \cup {None}

Init ==
    /\ experiment = FALSE /\ cancelFile = FALSE /\ dispatch = FALSE
    /\ late = FALSE /\ usage = FALSE
    /\ lock = Free
    /\ row = "queued"
    /\ sealed = None
    /\ tree = "absent"
    /\ box = "absent"
    /\ receipt = None
    /\ assessment = None
    /\ pc = [p \in Process |-> "idle"]
    /\ back = [p \in Process |-> "seal"]
    /\ held = [p \in Process |-> None]
    /\ measured = [p \in Process |-> FALSE]
    /\ starts = 0
    /\ ran = None

Goto(p, label) == pc' = [pc EXCEPT ![p] = label]
Unlocked(p) == lock' = IF lock = p THEN Free ELSE lock

\* The session ends; what it held is gone.
Ends(p) ==
    /\ Goto(p, "idle")
    /\ held' = [held EXCEPT ![p] = None]
    /\ UNCHANGED <<back, measured>>

\* boundary.execute is called, to return to a label of evaluate.
Execute(p, label) ==
    /\ Goto(p, "saved")
    /\ back' = [back EXCEPT ![p] = label]

-----------------------------------------------------------------------------
\* evaluate(): inputs and plan

\* A saved assessment is returned as it is.
Begin(p) ==
    /\ pc[p] = "idle"
    /\ assessment = None
    /\ Goto(p, "plan")
    /\ UNCHANGED <<journal, boundary, catalogue, back, held, measured, history>>

\* plan(): one experiment per execution, in one transaction.
Plan(p) ==
    /\ pc[p] = "plan"
    /\ experiment' = TRUE
    /\ Goto(p, "open")
    /\ UNCHANGED <<lock, row, sealed, cancelFile, boundary, catalogue, back,
                   held, measured, history>>

-----------------------------------------------------------------------------
\* evaluate(): the journal, opened once to reconcile and once to run

\* recover(), by the exclusive writer.
Recovered ==
    IF row \in {"running", "reconciliation_required"}
    THEN IF sealed # None THEN "observed" ELSE "reconciliation_required"
    ELSE row

\* Mutant of Opens: the lock is not exclusive.
OpensShared(p) ==
    /\ lock' = p
    /\ row' = Recovered
    /\ UNCHANGED <<experiment, sealed, cancelFile>>

Opens(p) ==
    /\ lock = Free
    /\ lock' = p
    /\ row' = Recovered
    /\ UNCHANGED <<experiment, sealed, cancelFile>>

Open(p) ==
    /\ pc[p] = "open"
    /\ Opens(p)
    /\ IF row' = "reconciliation_required"
       THEN Execute(p, "reconcile")
       ELSE Goto(p, "close") /\ UNCHANGED back
    /\ UNCHANGED <<boundary, catalogue, held, measured, history>>

\* A journal that is in use raises.
Busy(p) ==
    /\ pc[p] \in {"open", "reopen"}
    /\ lock # Free
    /\ Ends(p)
    /\ UNCHANGED <<journal, boundary, catalogue, history>>

\* reconcile_observation(), or observe(): the receipt, and then the row.
Seal(p) ==
    /\ pc[p] \in {"reconcile", "seal"}
    /\ sealed' = held[p]
    /\ Goto(p, IF pc[p] = "seal" THEN "commit" ELSE "rcommit")
    /\ UNCHANGED <<experiment, lock, row, cancelFile, boundary, catalogue, back,
                   held, measured, history>>

Commit(p) ==
    /\ pc[p] \in {"rcommit", "commit"}
    /\ row' = "observed"
    /\ Goto(p, IF pc[p] = "commit" THEN "grade" ELSE "close")
    /\ UNCHANGED <<experiment, lock, sealed, cancelFile, boundary, catalogue,
                   back, held, measured, history>>

Close(p) ==
    /\ pc[p] = "close"
    /\ Unlocked(p)
    /\ Goto(p, "reopen")
    /\ UNCHANGED <<experiment, row, sealed, cancelFile, boundary, catalogue,
                   back, held, measured, history>>

Reopen(p) ==
    /\ pc[p] = "reopen"
    /\ Opens(p)
    /\ Goto(p, "loop")
    /\ UNCHANGED <<boundary, catalogue, back, held, measured, history>>

\* execute_journal() returns a state that is not completed.
GivesUp(p) ==
    /\ pc[p] = "loop"
    /\ \/ row \in {"reconciliation_required", "cancelled"}
       \/ cancelFile /\ row # "completed"
    /\ row' = IF row = "queued" THEN "cancelled" ELSE row
    /\ Unlocked(p)
    /\ Ends(p)
    /\ UNCHANGED <<experiment, sealed, cancelFile, boundary, catalogue, history>>

\* It claims the trial and calls the observer.
Claim(p) ==
    /\ pc[p] = "loop"
    /\ row = "queued"
    /\ ~cancelFile
    /\ row' = "running"
    /\ Execute(p, "seal")
    /\ UNCHANGED <<experiment, lock, sealed, cancelFile, boundary, catalogue,
                   held, measured, history>>

\* Or finds the trial observed, or completed.
Skip(p) ==
    /\ pc[p] = "loop"
    /\ \/ row = "observed" /\ ~cancelFile /\ Goto(p, "grade")
       \/ row = "completed" /\ Goto(p, "done")
    /\ UNCHANGED <<journal, boundary, catalogue, back, held, measured, history>>

Grade(p) ==
    /\ pc[p] = "grade"
    /\ row' = "completed"
    /\ Goto(p, "done")
    /\ UNCHANGED <<experiment, lock, sealed, cancelFile, boundary, catalogue,
                   back, held, measured, history>>

\* The journal is closed.  A trial without an observation is unavailable.
Done(p) ==
    /\ pc[p] = "done"
    /\ Unlocked(p)
    /\ IF sealed = "error"
       THEN Ends(p)
       ELSE Execute(p, "final") /\ UNCHANGED <<held, measured>>
    /\ UNCHANGED <<experiment, row, sealed, cancelFile, boundary, catalogue,
                   history>>

-----------------------------------------------------------------------------
\* boundary.execute()

\* A saved observation is returned; otherwise the container is looked for.
Saved(p) ==
    /\ pc[p] = "saved"
    /\ IF receipt # None
       THEN Goto(p, back[p]) /\ held' = [held EXCEPT ![p] = receipt]
       ELSE Goto(p, "inspect") /\ UNCHANGED held
    /\ UNCHANGED <<journal, boundary, catalogue, back, measured, history>>

\* The session raises, and its journal is closed.
Raise(p) == Unlocked(p) /\ Ends(p) /\ UNCHANGED <<experiment, row, sealed, cancelFile>>

\* Mutant of Inspect: a missing container is created anew.
InspectAndReplace(p) ==
    /\ pc[p] = "inspect"
    /\ IF ~dispatch /\ box # "absent"
       THEN Raise(p)
       ELSE /\ Goto(p, CASE box = "absent" -> "materialize"
                         [] box = "created" -> "start"
                         [] OTHER -> "poll")
            /\ UNCHANGED <<journal, back, held, measured>>
    /\ UNCHANGED <<boundary, catalogue, history>>

\* Without its container a dispatch is ambiguous, without its dispatch a
\* container is not ours.
Inspect(p) ==
    /\ pc[p] = "inspect"
    /\ IF dispatch = (box = "absent")
       THEN Raise(p)
       ELSE /\ Goto(p, CASE box = "absent" -> "materialize"
                         [] box = "created" -> "start"
                         [] OTHER -> "poll")
            /\ UNCHANGED <<journal, back, held, measured>>
    /\ UNCHANGED <<boundary, catalogue, history>>

\* The submitted tree is copied file by file, where there is no directory of it.
Materialize(p) ==
    /\ pc[p] = "materialize"
    /\ IF tree = "absent"
       THEN tree' = "partial" /\ Goto(p, "fill")
       ELSE Goto(p, "dispatch") /\ UNCHANGED tree
    /\ UNCHANGED <<journal, dispatch, box, late, receipt, catalogue, back, held,
                   measured, history>>

Fill(p) ==
    /\ pc[p] = "fill"
    /\ tree' = "whole"
    /\ Goto(p, "dispatch")
    /\ UNCHANGED <<journal, dispatch, box, late, receipt, catalogue, back, held,
                   measured, history>>

\* The intent is recorded before the container exists.
Dispatch(p) ==
    /\ pc[p] = "dispatch"
    /\ dispatch' = TRUE
    /\ Goto(p, "create")
    /\ UNCHANGED <<journal, tree, box, late, receipt, catalogue, back, held, measured,
                   history>>

Create(p) ==
    /\ pc[p] = "create"
    /\ box = "absent"
    /\ box' = "created"
    /\ Goto(p, "start")
    /\ UNCHANGED <<journal, tree, dispatch, late, receipt, catalogue, back, held,
                   measured, history>>

Started ==
    /\ box = "created"
    /\ box' = "running"
    /\ starts' = starts + 1

Start(p) ==
    /\ pc[p] = "start"
    /\ Started
    /\ Goto(p, "poll")
    /\ UNCHANGED <<journal, tree, dispatch, late, receipt, catalogue, back, held,
                   measured, ran>>

\* Mutant of Poll: an observation is collected from a container that is late.
PollImpatient(p) ==
    /\ pc[p] = "poll"
    /\ box = "exited" \/ late
    /\ Goto(p, "collect")
    /\ UNCHANGED <<journal, boundary, catalogue, back, held, measured, history>>

\* Mutant of Poll: it waits for a container that never stops.
PollForever(p) ==
    /\ pc[p] = "poll"
    /\ box = "exited"
    /\ Goto(p, "collect")
    /\ UNCHANGED <<journal, boundary, catalogue, back, held, measured, history>>

\* It waits until the container has stopped, or is late.
Poll(p) ==
    /\ pc[p] = "poll"
    /\ \/ box = "exited" /\ Goto(p, "collect")
       \/ box = "running" /\ late /\ Goto(p, "kill")
    /\ UNCHANGED <<journal, boundary, catalogue, back, held, measured, history>>

Killed ==
    /\ box = "running"
    /\ box' = "exited"
    /\ ran' = "killed"

Kill(p) ==
    /\ pc[p] = "kill"
    /\ Killed
    /\ Goto(p, "collect")
    /\ UNCHANGED <<journal, tree, dispatch, late, receipt, catalogue, back, held,
                   measured, starts>>

\* Its output and its final state, saved once.  What a container shows that has
\* not stopped is not what it ends with.
Collect(p) ==
    /\ pc[p] = "collect"
    /\ box # "absent"
    /\ receipt' = IF box = "running" THEN "bad" ELSE ran
    /\ held' = [held EXCEPT ![p] = receipt']
    /\ Goto(p, back[p])
    /\ UNCHANGED <<journal, tree, dispatch, box, late, catalogue, back, measured,
                   history>>

\* A container that is gone, or that stopped by itself before it was killed.
Gone(p) ==
    /\ \/ pc[p] \in {"start", "poll", "kill", "collect"} /\ box = "absent"
       \/ pc[p] = "kill" /\ box = "exited"
    /\ Raise(p)
    /\ UNCHANGED <<boundary, catalogue, history>>

\* A docker command has no effect, or has one although its caller never learns.
Effect(p) ==
    \/ UNCHANGED <<box, starts, ran>>
    \/ pc[p] = "create" /\ box = "absent" /\ box' = "created" /\ UNCHANGED history
    \/ pc[p] = "start" /\ Started /\ UNCHANGED ran
    \/ pc[p] = "kill" /\ Killed /\ UNCHANGED starts
    \/ pc[p] = "cleanup" /\ box = "exited" /\ box' = "absent" /\ UNCHANGED history

\* It fails: a JournalError, which the journal's loop lets through.
DockerFails(p) ==
    /\ pc[p] \in DockerLabels
    /\ Effect(p)
    /\ Raise(p)
    /\ UNCHANGED <<tree, dispatch, late, receipt, catalogue>>

\* Mutant of DockerTimesOut: the error is saved as the observation.
DockerTimesOutSaved(p) ==
    /\ pc[p] \in BoxLabels
    /\ back[p] = "seal"
    /\ Effect(p)
    /\ receipt' = "error"
    /\ held' = [held EXCEPT ![p] = "error"]
    /\ Goto(p, "seal")
    /\ UNCHANGED <<journal, tree, dispatch, late, catalogue, back, measured>>

\* It times out, an inspection finds nothing where there was a container, or a
\* file cannot be written: to the journal's loop any other exception is an
\* error of the target (target_transport), which is sealed as the trial's
\* receipt.  Elsewhere it ends the session as a failure does.
DockerTimesOut(p) ==
    /\ pc[p] \in BoxLabels
    /\ back[p] = "seal"
    /\ Effect(p)
    /\ held' = [held EXCEPT ![p] = "error"]
    /\ Goto(p, "seal")
    /\ UNCHANGED <<journal, tree, dispatch, late, receipt, catalogue, back, measured>>

-----------------------------------------------------------------------------
\* evaluate(): the assessment

\* The journal's observation must be the saved one; usage is read as it is now.
Final(p) ==
    /\ pc[p] = "final"
    /\ IF held[p] = sealed
       THEN /\ measured' = [measured EXCEPT ![p] = usage]
            /\ Goto(p, "assess")
            /\ UNCHANGED <<journal, back, held>>
       ELSE Raise(p)
    /\ UNCHANGED <<boundary, catalogue, history>>

\* A different assessment is already there: the catalogue raises.
Assess(p) ==
    /\ pc[p] = "assess"
    /\ LET value == <<held[p], measured[p]>> IN
       IF assessment \in {None, value}
       THEN /\ assessment' = value
            /\ Goto(p, "cleanup")
            /\ UNCHANGED <<journal, back, held, measured>>
       ELSE Raise(p) /\ UNCHANGED assessment
    /\ UNCHANGED <<boundary, usage, history>>

\* cleanup() of a container that is not running.
Cleanup(p) ==
    /\ pc[p] = "cleanup"
    /\ box' = IF box = "exited" THEN "absent" ELSE box
    /\ Ends(p)
    /\ UNCHANGED <<journal, tree, dispatch, late, receipt, catalogue, history>>

-----------------------------------------------------------------------------
\* The world

\* A session dies and its lock with it.
Crash(p) ==
    /\ pc[p] # "idle"
    /\ Raise(p)
    /\ UNCHANGED <<boundary, catalogue, history>>

\* The candidate ends by itself, well or not.
Exits ==
    /\ box = "running"
    /\ box' = "exited"
    /\ ran' \in {"good", "bad"}
    /\ UNCHANGED <<journal, tree, dispatch, late, receipt, catalogue, session, starts>>

TimePasses ==
    /\ box = "running"
    /\ late' = TRUE
    /\ UNCHANGED <<journal, tree, dispatch, box, receipt, catalogue, session, history>>

\* Somebody else removes the container.
Removed ==
    /\ box # "absent"
    /\ box' = "absent"
    /\ UNCHANGED <<journal, tree, dispatch, late, receipt, catalogue, session, history>>

\* An operator cancels the experiment, or records independent measurements.
RequestCancel ==
    /\ experiment /\ ~cancelFile
    /\ cancelFile' = TRUE
    /\ UNCHANGED <<experiment, lock, row, sealed, boundary, catalogue, session,
                   history>>

RecordUsage ==
    /\ ~usage
    /\ usage' = TRUE
    /\ UNCHANGED <<journal, boundary, assessment, session, history>>

\* What a session does when nothing goes wrong around it.
Step(p) ==
    \/ Plan(p) \/ Open(p) \/ Busy(p) \/ Seal(p) \/ Commit(p) \/ Close(p)
    \/ Reopen(p) \/ GivesUp(p) \/ Claim(p) \/ Skip(p) \/ Grade(p) \/ Done(p)
    \/ Saved(p) \/ Inspect(p) \/ Materialize(p) \/ Fill(p) \/ Dispatch(p)
    \/ Create(p) \/ Start(p) \/ Poll(p)
    \/ Kill(p) \/ Collect(p) \/ Gone(p) \/ Final(p) \/ Assess(p) \/ Cleanup(p)

Next ==
    \/ \E p \in Process :
          Begin(p) \/ Step(p) \/ DockerFails(p) \/ DockerTimesOut(p) \/ Crash(p)
    \/ Exits \/ TimePasses \/ Removed \/ RequestCancel \/ RecordUsage

Spec == Init /\ [][Next]_vars

\* A session that is not killed goes on, and time passes for a container.
FairSpec ==
    /\ Spec
    /\ \A p \in Process : WF_vars(Step(p))
    /\ WF_vars(TimePasses)

-----------------------------------------------------------------------------
\* Properties

\* However often evaluation is repeated, by whoever and after whatever failure,
\* submitted code is started at most once (dispatch.json before docker create).
StartedOnce == starts <= 1

\* Two sessions never work on the container at the same time, although the
\* writer lock is given back before the observation is read a last time.
OneHandler ==
    \A p, q \in Process :
        (pc[p] \in BoxLabels /\ pc[q] \in BoxLabels) => p = q

\* An assessment is made of what the one run of the container left behind after
\* it had stopped, and of nothing the journal does not hold as well.
Grounded ==
    assessment # None =>
        /\ starts = 1
        /\ row = "completed"
        /\ assessment[1] = ran /\ assessment[1] = receipt /\ assessment[1] = sealed

\* One run, one session at a time with it, and an assessment of that run alone.
RunIsGrounded == StartedOnce /\ OneHandler /\ Grounded

\* Every session of evaluate() that is not killed comes to an end, even if the
\* candidate never does.
SessionsEnd == \A p \in Process : pc[p] # "idle" ~> pc[p] = "idle"

\* "An owned container can be reconciled without restarting it"
\* (contracts/v2/README.md): no trial is closed without an observation while
\* its container is there to be observed.
OwnedContainerReconciles ==
    row = "completed" /\ sealed = "error" => box \notin {"running", "exited"}

\* "`agent-eval.assessment/v2` binds the exact submission, candidate, ... and
\* observed evidence" (contracts/v2/README.md): what ran was the whole tree.
AssessedAsSubmitted == assessment # None => tree = "whole"
=============================================================================
