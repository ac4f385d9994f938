----------------------------- MODULE GovernedRun -----------------------------
(***************************************************************************)
(* One trial of a coding agent (runner.py): an agent pod with a credential *)
(* Secret and an egress proxy is created, used, and taken down; its        *)
(* workspace is evaluated by hidden tests in other pods, scanned and       *)
(* judged; the record is decided, saved and attested, and a governed run   *)
(* keeps an audit trail all the while.  Verifies is what verify_run asks   *)
(* of the saved evidence.  The cluster, the agent, the graders, the disk   *)
(* and the process may fail at every step.                                 *)
(***************************************************************************)
EXTENDS Naturals, Sequences, Scanners

CONSTANTS
    Task,       \* the trials that may be asked for
    MaxFault    \* bound: how many steps fail

ASSUME TaskAssumption ==
    /\ MaxFault \in Nat
    /\ Task \subseteq [governed : BOOLEAN, isolated : BOOLEAN, scans : BOOLEAN,
                       judge : BOOLEAN, secret : BOOLEAN, proxy : BOOLEAN,
                       strict : BOOLEAN]
    /\ \A t \in Task : t.governed => t.isolated

VARIABLES
    task,       \* the trial: what was admitted, and what its task needs
    pc,         \* where the process is
    inside,     \* evaluate_workspace is on the stack
    raised,     \* an exception waits for a finally block to end
    redactor,   \* the trial's credential is known and kept out of what is saved
    snapshot,   \* what became of the agent's workspace
    cluster,    \* what the trial has in the cluster
    record,     \* the RunRecord in memory
    log,        \* audit.jsonl
    saved,      \* results.json
    attested,   \* what attestation.json binds: the record and the trail
    fault       \* how many steps failed (history)

process == <<pc, inside, raised, redactor>>
disk == <<saved, attested>>
vars == <<task, process, snapshot, cluster, record, log, disk, fault>>

Resource == {"secret", "proxy", "agent", "submission", "evaluator", "link"}
\* What makes a submission unsafe: its snapshot, its tree, an archive, its diff.
Integrity == {"snapshot", "tree", "archive", "diff"}
Status == {"accepted", "rejected", "infra_error"}

\* held: the process has a handle; stray: it may exist and nobody will delete it.
Presence == {"absent", "held", "stray"}

Code == {None, 0, 1}

AgentResult == [infra : BOOLEAN, digest : BOOLEAN, wall : BOOLEAN,
                model : {"none", "admitted", "other"}, code : Code]
TestResult == [mode : {"cooperative", "isolated"}, code : Code, passed : BOOLEAN,
               integrity : Integrity \cup {None}, infra : BOOLEAN,
               digest : BOOLEAN, sub : BOOLEAN]
Record == [agent : AgentResult, tests : TestResult, diff : BOOLEAN,
           scans : Phases \cup {None}, judge : {"none", "scored", "unscored"},
           challenge : {"none", "passed", "failed"}, outcome : Status \cup {None},
           auditError : BOOLEAN, attestationError : BOOLEAN, count : Nat \cup {None}]

EventStatus == Status \cup {"none", "completed", "failed", "infrastructure_error", "skipped",
                            "integrity_rejected", "integrity", "disabled",
                            "secret_screen_incomplete"}
EventName == {"evaluation.requested", "policy.admitted", "agent.started",
              "agent.completed", "cleanup.completed", "evaluation.started",
              "tests.completed", "scanners.completed", "judge.completed", "judge.skipped",
              "evaluation.failed", "outcome.decided", "run.completed"}
AuditEvent == [type : EventName, status : EventStatus, flag : BOOLEAN]
AuditTrail == Seq(AuditEvent)

\* What an attestation binds.
Attestation == [record : Record, log : AuditTrail]
ASSUME NoneAssumption ==
    None \notin BOOLEAN /\ None \notin Integrity /\ None \notin Attestation

Label == {"request", "unstarted", "start", "secret", "proxy", "agent", "run",
          "snapshot", "finish", "reap", "missing", "evaluate", "screen", "submission",
          "evaluator", "link", "tests", "teardown", "report", "diff", "scan", "judge",
          "challenge", "failed", "complete", "close", "contain", "persist", "attest",
          "correct", "done", "dead", "killed"}

\* A run ends with a record, by an exception, or killed.
End == {"done", "dead", "killed"}

-----------------------------------------------------------------------------
\* Evidence

NoTests == [mode |-> "cooperative", code |-> None, passed |-> FALSE, integrity |-> None,
            infra |-> FALSE, digest |-> FALSE, sub |-> FALSE]

Resolved(t) == ~t.infra /\ t.integrity = None /\ t.code = 0 /\ t.passed

\* What the acceptance policy of a task with optional gates asks besides.
Gates(r) ==
    task.strict =>
        r.judge = "scored" /\ r.scans # None /\ r.scans.clean /\ r.challenge = "passed"

Outcome(r) ==
    IF r.tests.infra \/ r.agent.infra THEN "infra_error"
    ELSE IF r.agent.code \in {None, 0} /\ Resolved(r.tests) /\ Gates(r)
         THEN "accepted" ELSE "rejected"

Decide(r) == [r EXCEPT !.outcome = Outcome(r)]

\* n things fail in a step.
Faults(n) == fault + n <= MaxFault /\ fault' = fault + n

Fails(condition) == IF condition THEN 1 ELSE 0

\* An error of the agent phase, or of the evidence as a whole.
Spoilt(r) == [r EXCEPT !.agent.infra = TRUE]

Evaluated(r) == ~r.tests.infra /\ r.tests.integrity = None /\ r.tests.code # None

ImageFault(r) ==
    \/ r.tests.mode # "isolated"
    \/ ~r.agent.infra /\ ~r.agent.digest
    \/ Evaluated(r) /\ ~(r.tests.digest /\ r.tests.sub)

ScannerFault(r, required) ==
    \/ ~task.scans /\ r.scans # None
    \/ task.scans /\ r.scans = None /\ required
    \/ task.scans /\ r.scans # None /\ ~r.scans.assured

\* Mutant of EvidenceFault: nobody looks at the task's snapshot again.
EvidenceFaultButTree(r, tree) ==
    \/ ImageFault(r)
    \/ task.judge /\ r.judge # "scored"
    \/ ScannerFault(r, TRUE)

\* The evidence a governed record may not lack, tree being the state of the
\* task's private snapshot.
EvidenceFault(r, tree) ==
    \/ ImageFault(r)
    \/ task.judge /\ r.judge # "scored"
    \/ ScannerFault(r, TRUE)
    \/ tree = "changed"

ModelFault(r) == task.governed /\ r.agent.wall /\ r.agent.model # "admitted"

-----------------------------------------------------------------------------
\* The audit trail

Event(type, status, flag) == [type |-> type, status |-> status, flag |-> flag]
Plain(type) == Event(type, "none", FALSE)

\* Appends events to the trail of a governed run, with r as the record, in a step
\* in which n other things fail; the first event that cannot be written spoils the
\* record and silences the trail, and a closed trail takes none.
Audit(r, events, n) ==
    LET Silent == ~task.governed \/ r.auditError
    IN  \/ Silent /\ record' = r /\ log' = log /\ Faults(n)
        \/ /\ ~Silent /\ r.count = None
           /\ record' = r /\ log' = log \o events /\ Faults(n)
        \/ \E k \in 0 .. Len(events) - 1 :
           /\ ~Silent /\ (r.count # None => k = 0)
           /\ record' = [Spoilt(r) EXCEPT !.auditError = TRUE]
           /\ log' = log \o SubSeq(events, 1, k)
           /\ Faults(1)

-----------------------------------------------------------------------------
\* The verifier

Positions(type) == {i \in DOMAIN log : log[i].type = type}
Once(type) == \E i \in DOMAIN log : Positions(type) = {i}
At(type) == CHOOSE i \in DOMAIN log : log[i].type = type
Ordered(types) ==
    \A i, j \in DOMAIN types : i < j => At(types[i]) < At(types[j])

Required == <<"evaluation.requested", "policy.admitted", "agent.started",
              "agent.completed", "cleanup.completed", "outcome.decided", "run.completed">>

JudgeEvents == Positions("judge.completed") \cup Positions("judge.skipped")
WasEvaluated == Positions("evaluation.started") # {}

\* The stages of an evaluation that did not fail, each once and in their order.
StagesOK ==
    /\ \A s \in {"evaluation.started", "tests.completed", "scanners.completed"} : Once(s)
    /\ \E j \in DOMAIN log :
        /\ JudgeEvents = {j}
        /\ Ordered(<<"cleanup.completed", "evaluation.started", "tests.completed",
                     "scanners.completed">>)
        /\ At("scanners.completed") < j /\ j < At("outcome.decided")

\* What the events say of r.
EventsAgree(r) ==
    /\ \A i \in Positions("agent.completed") :
        /\ log[i].flag = WasEvaluated
        /\ log[i].status = "infrastructure_error" => r.agent.infra
    /\ \A i \in Positions("cleanup.completed") : log[i].status = "failed" => r.agent.infra
    /\ \A i \in Positions("tests.completed") :
        IF log[i].status = "integrity_rejected"
        THEN r.tests.integrity # None
        ELSE /\ log[i].status = IF r.tests.infra THEN "infrastructure_error" ELSE "completed"
             /\ log[i].flag = Resolved(r.tests)
    /\ \A i \in Positions("outcome.decided") \cup Positions("run.completed") :
        log[i].status = r.outcome

\* What the events say of the graders that were admitted.
GradersAgree(r) ==
    /\ \A i \in Positions("scanners.completed") :
        /\ task.scans = (log[i].status = "completed")
        /\ task.scans => ~ScannerFault(r, TRUE)
    /\ \A i \in JudgeEvents :
        IF task.judge
        THEN log[i].type = "judge.completed" /\ log[i].flag /\ r.judge = "scored"
        ELSE log[i].type = "judge.skipped" /\ log[i].status = "disabled"

\* audit_lifecycle_failures has nothing to say.
LifecycleOK(r) ==
    /\ \A i \in DOMAIN Required : Once(Required[i])
    /\ \A i \in 1 .. 3 : log[i].type = Required[i]
    /\ Ordered(Required)
    /\ At("outcome.decided") = Len(log) - 1
    /\ WasEvaluated =>
        IF Positions("evaluation.failed") # {}
        THEN Once("evaluation.failed")
             /\ Ordered(<<"evaluation.started", "evaluation.failed", "outcome.decided">>)
        ELSE StagesOK
    /\ EventsAgree(r)
    /\ GradersAgree(r)

\* The governed statement agrees with the record.
StatementOK(r) ==
    /\ r.agent.wall \/ r.outcome # "infra_error" => r.agent.model = "admitted"
    /\ ~ImageFault(r)
    /\ ~ScannerFault(r, r.outcome # "infra_error")

\* verify_run has nothing to say of the saved run.
Verifies ==
    /\ attested # None
    /\ attested = [record |-> saved, log |-> log]
    /\ ~saved.attestationError
    /\ saved.outcome = Outcome(saved)
    /\ task.governed =>
        /\ ~saved.auditError
        /\ saved.count = Len(log)
        /\ LifecycleOK(saved)
        /\ StatementOK(saved)

-----------------------------------------------------------------------------
\* The agent phase

Init ==
    /\ task \in Task
    /\ pc = IF task.governed THEN "request" ELSE "start"
    /\ inside = FALSE /\ raised = FALSE /\ redactor = FALSE
    /\ snapshot = "none"
    /\ cluster = [x \in Resource |-> "absent"]
    /\ record = [agent |-> [infra |-> FALSE, digest |-> FALSE, wall |-> FALSE,
                            model |-> "none", code |-> None],
                 tests |-> NoTests, diff |-> TRUE, scans |-> None, judge |-> "none",
                 challenge |-> "none", outcome |-> None, auditError |-> FALSE,
                 attestationError |-> FALSE, count |-> None]
    /\ log = <<>>
    /\ saved = None /\ attested = None
    /\ fault = 0

Goto(l) == pc' = l /\ UNCHANGED <<inside, raised, redactor>>

\* A step that only moves the process and the record.
Steps(l, r, n) ==
    /\ Goto(l) /\ record' = r /\ Faults(n)
    /\ UNCHANGED <<task, snapshot, cluster, log, disk>>

\* A step that appends to the trail.
Records(l, r, events) ==
    /\ Goto(l) /\ Audit(r, events, 0)
    /\ UNCHANGED <<task, snapshot, cluster, disk>>

\* The record when the trail failed before the agent phase began.
Unstarted(r) == [r EXCEPT !.tests = [NoTests EXCEPT !.infra = TRUE]]

Request ==
    /\ pc = "request"
    /\ Audit(record, <<Plain("evaluation.requested"), Plain("policy.admitted")>>, 0)
    /\ Goto(IF record'.auditError THEN "unstarted" ELSE "start")
    /\ UNCHANGED <<task, snapshot, cluster, disk>>

Start ==
    /\ pc = "start"
    /\ Audit(record, <<Plain("agent.started")>>, 0)
    /\ Goto(IF record'.auditError THEN "unstarted" ELSE "secret")
    /\ UNCHANGED <<task, snapshot, cluster, disk>>

Abandon ==
    /\ pc = "unstarted"
    /\ Steps("complete", Unstarted(record), 0)

\* Creates x, if it is needed, and goes on to l; or fails, whatever became of x.
Provision(x, needed, l) ==
    /\ pc = x
    /\ \/ /\ cluster' = [cluster EXCEPT ![x] = IF needed THEN "held" ELSE @]
          /\ Goto(l)
          /\ UNCHANGED <<record, fault>>
       \/ \E s \in IF needed THEN Presence ELSE {"absent"} :
          /\ cluster' = [cluster EXCEPT ![x] = s]
          /\ record' = Spoilt(record) /\ Faults(1)
          /\ Goto("finish")
    /\ UNCHANGED <<task, snapshot, log, disk>>

\* The image, the namespace and the credential come first.
Credential ==
    /\ pc = "secret"
    /\ \E known \in {FALSE, task.secret} :
        /\ redactor' = known
        /\ \/ /\ known = task.secret
              /\ cluster' = [cluster EXCEPT !.secret = IF known THEN "held" ELSE @]
              /\ pc' = "proxy"
              /\ UNCHANGED <<record, fault>>
           \/ \E s \in IF known THEN Presence ELSE {"absent"} :
              /\ cluster' = [cluster EXCEPT !.secret = s]
              /\ pc' = "finish"
              /\ record' = Spoilt(record) /\ Faults(1)
    /\ UNCHANGED <<task, inside, raised, snapshot, log, disk>>

Proxy == Provision("proxy", task.proxy, "agent")
AgentPod == Provision("agent", TRUE, "run")

\* The agent's command ends by itself, or by its timeout, its output's limit or
\* its sandbox.
RunAgent ==
    /\ pc = "run"
    /\ \E model \in {"admitted", "other"}, code \in {0, 1, None} :
        LET r == [record EXCEPT !.agent = [infra |-> code = None, digest |-> TRUE,
                                           wall |-> TRUE, model |-> model, code |-> code]]
        IN Steps("snapshot", r, Fails(code = None))

\* What the pod is to be given is refused.
Refused ==
    /\ pc = "run"
    /\ snapshot' = "unsafe"
    /\ Goto("finish")
    /\ UNCHANGED <<task, cluster, record, log, disk, fault>>

\* The workspace is copied once nothing runs in the pod, and promoted unless it
\* holds the credential.
Snapshot ==
    /\ pc = "snapshot"
    /\ \/ snapshot' \in {"taken", "unsafe"} /\ UNCHANGED <<record, fault>>
       \/ snapshot' = "none" /\ record' = Spoilt(record) /\ Faults(1)
    /\ Goto("finish")
    /\ UNCHANGED <<task, cluster, log, disk>>

\* An exception the agent phase does not expect, or an interrupt: the finally
\* block runs.
AgentRaises ==
    /\ pc \in {"secret", "proxy", "agent", "run", "snapshot"}
    /\ pc' = "finish" /\ raised' = TRUE /\ Faults(1)
    /\ \/ UNCHANGED cluster
       \/ pc \in Resource /\ cluster' = [cluster EXCEPT ![pc] = "stray"]
    /\ UNCHANGED <<task, inside, redactor, snapshot, record, log, disk>>

Finish ==
    /\ pc = "finish"
    /\ LET r == IF ModelFault(record) THEN Spoilt(record) ELSE record
           status == IF r.agent.infra THEN "infrastructure_error" ELSE "completed"
       IN Records("reap", r, <<Event("agent.completed", status, snapshot = "taken")>>)

Held(xs) == {x \in xs : cluster[x] = "held"}

\* Deletes what the process holds of xs; those of F resist every attempt.
Deletes(xs, F) ==
    cluster' = [x \in Resource |-> IF x \notin Held(xs) THEN cluster[x]
                                   ELSE IF x \in F THEN "stray" ELSE "absent"]

Reap ==
    /\ pc = "reap"
    /\ \E F \in SUBSET Held({"agent", "proxy", "secret"}), logs \in BOOLEAN :
        LET lost == cluster.proxy = "held" /\ ~logs
            r == IF lost \/ F # {} THEN Spoilt(record) ELSE record
            status == IF F # {} THEN "failed" ELSE "completed"
        IN  /\ Deletes({"agent", "proxy", "secret"}, F)
            /\ Audit(r, <<Event("cleanup.completed", status, FALSE)>>,
                     Fails(lost \/ F # {}))
    /\ Goto(IF raised THEN "dead" ELSE IF snapshot = "taken" THEN "evaluate" ELSE "missing")
    /\ UNCHANGED <<task, snapshot, disk>>

\* There is no workspace to evaluate.
Missing ==
    /\ pc = "missing"
    /\ LET t == IF snapshot = "unsafe"
                THEN [NoTests EXCEPT !.code = 1, !.integrity = "snapshot"]
                ELSE [NoTests EXCEPT !.infra = TRUE]
       IN Steps("complete", [record EXCEPT !.tests = t], 0)

-----------------------------------------------------------------------------
\* The evaluation

Mode == IF task.isolated THEN "isolated" ELSE "cooperative"

\* An exception leaves evaluate_workspace: a governed run records it, another one
\* ends without a record.
Throws ==
    /\ pc' = IF inside /\ task.governed THEN "failed" ELSE "dead"
    /\ inside' = FALSE /\ raised' = FALSE /\ Faults(1)
    /\ UNCHANGED <<task, redactor, snapshot, cluster, record, log, disk>>

Evaluate ==
    /\ pc = "evaluate"
    /\ pc' = "screen" /\ inside' = TRUE
    /\ Audit(record, <<Plain("evaluation.started")>>, 0)
    /\ UNCHANGED <<task, raised, redactor, snapshot, cluster, disk>>

\* A tree that is not safe to evaluate is rejected at once.
Reject ==
    /\ pc = "screen"
    /\ LET t == [NoTests EXCEPT !.mode = Mode, !.code = 1, !.integrity = "tree"]
       IN Records("complete", [record EXCEPT !.tests = t],
                  <<Event("tests.completed", "integrity_rejected", FALSE),
                    Event("scanners.completed", "skipped", FALSE),
                    Event("judge.skipped", "integrity", FALSE)>>)

Admit ==
    /\ pc = "screen"
    /\ LET t == [NoTests EXCEPT !.mode = Mode]
       IN Steps(IF task.isolated THEN "submission" ELSE "evaluator",
                [record EXCEPT !.tests = t], 0)

\* Creates x of the evaluation and goes on; or fails, or is refused an archive.
Prepare(x, l, t) ==
    /\ pc = x
    /\ \/ /\ cluster' = [cluster EXCEPT ![x] = "held"]
          /\ Goto(l) /\ record' = [record EXCEPT !.tests = t] /\ Faults(0)
       \/ \E s \in Presence :
          /\ cluster' = [cluster EXCEPT ![x] = s]
          /\ Goto("teardown") /\ record' = [record EXCEPT !.tests.infra = TRUE]
          /\ Faults(1)
       \/ /\ cluster' = [cluster EXCEPT ![x] = "held"]
          /\ Goto("teardown")
          /\ record' = [record EXCEPT !.tests.code = 1, !.tests.integrity = "archive"]
          /\ Faults(0)
    /\ UNCHANGED <<task, snapshot, log, disk>>

Submission == Prepare("submission", "evaluator", [record.tests EXCEPT !.sub = TRUE])
Evaluator ==
    Prepare("evaluator", IF task.isolated THEN "link" ELSE "tests",
            [record.tests EXCEPT !.digest = TRUE])
Link == Prepare("link", "tests", record.tests)

\* The hidden tests pass, fail, stall, spoil their own results, or are lost.
Tests ==
    /\ pc = "tests"
    /\ \/ \E passed \in BOOLEAN :
          Steps("teardown", [record EXCEPT !.tests.code = IF passed THEN 0 ELSE 1,
                                           !.tests.passed = passed], 0)
       \/ Steps("teardown", [record EXCEPT !.tests.code = 1,
                                           !.tests.integrity = "archive"], 0)
       \/ Steps("teardown", [record EXCEPT !.tests.infra = TRUE], 1)

\* An exception the evaluation does not expect: the finally block runs and the
\* result is lost.
TestsRaise ==
    /\ pc \in {"submission", "evaluator", "link", "tests"}
    /\ pc' = "teardown" /\ raised' = TRUE /\ Faults(1)
    /\ record' = [record EXCEPT !.tests = NoTests]
    /\ \/ UNCHANGED cluster
       \/ pc \in Resource /\ cluster' = [cluster EXCEPT ![pc] = "stray"]
    /\ UNCHANGED <<task, inside, redactor, snapshot, log, disk>>

EvaluationPods == {"evaluator", "link", "submission"}

\* Mutant of Teardown: what could not be deleted is only logged.
TeardownQuiet ==
    /\ pc = "teardown" /\ ~raised
    /\ \E F \in SUBSET Held(EvaluationPods) :
        Deletes(EvaluationPods, F) /\ Faults(Fails(F # {}))
    /\ Goto("report")
    /\ UNCHANGED <<task, snapshot, record, log, disk>>

Teardown ==
    /\ pc = "teardown" /\ ~raised
    /\ \E F \in SUBSET Held(EvaluationPods) :
        /\ Deletes(EvaluationPods, F)
        /\ record' = [record EXCEPT !.tests.infra = @ \/ F # {}]
        /\ Faults(Fails(F # {}))
    /\ Goto("report")
    /\ UNCHANGED <<task, snapshot, log, disk>>

TeardownRaising ==
    /\ pc = "teardown" /\ raised
    /\ \E F \in SUBSET Held(EvaluationPods) :
        Deletes(EvaluationPods, F) /\ Faults(Fails(F # {}))
    /\ pc' = IF inside /\ task.governed THEN "failed" ELSE "dead"
    /\ inside' = FALSE /\ raised' = FALSE
    /\ UNCHANGED <<task, redactor, snapshot, record, log, disk>>

\* What the deletion of x comes before.
Behind(x) == [evaluator |-> {"link", "submission"}, link |-> {"submission"},
             submission |-> {}][x]

\* x resists, and its error cannot be written to eval-output.txt: what comes after x
\* is not tried any more, and the result is lost.
TeardownFails ==
    /\ pc = "teardown"
    /\ \E x \in Held(EvaluationPods), F \in SUBSET Held(EvaluationPods) :
        /\ x \in F /\ F \cap Behind(x) = {}
        /\ Deletes(EvaluationPods \ Behind(x), F)
    /\ Faults(2)
    /\ pc' = IF inside /\ task.governed THEN "failed" ELSE "dead"
    /\ inside' = FALSE /\ raised' = FALSE
    /\ record' = [record EXCEPT !.tests = NoTests]
    /\ UNCHANGED <<task, redactor, snapshot, log, disk>>

Report ==
    /\ pc = "report"
    /\ LET t == [record.tests EXCEPT !.infra = @ \/ record.agent.infra]
           status == IF t.infra THEN "infrastructure_error" ELSE "completed"
       IN Records("diff", [record EXCEPT !.tests = t],
                  <<Event("tests.completed", status, Resolved(t))>>)

\* A diff that was cut short is held against the submission.
Diff ==
    /\ pc = "diff"
    /\ \E complete \in BOOLEAN :
        Steps("scan",
              [record EXCEPT !.diff = complete,
                             !.tests.integrity = IF complete \/ @ # None THEN @ ELSE "diff"],
              0)

Scan ==
    /\ pc = "scan"
    /\ \/ /\ ~task.scans
          /\ Records("judge", record, <<Event("scanners.completed", "skipped", FALSE)>>)
       \/ \E s \in Phases :
          /\ task.scans
          /\ Goto("judge")
          /\ Audit([record EXCEPT !.scans = s],
                   <<Event("scanners.completed", "completed", FALSE)>>, Fails(~s.assured))
          /\ UNCHANGED <<task, snapshot, cluster, disk>>

\* Only a whole diff without secrets goes to a model.
JudgeInputIsSafe == record.diff /\ record.scans # None /\ record.scans.screened

Judge ==
    /\ pc = "judge"
    /\ \/ /\ task.judge /\ JudgeInputIsSafe
          /\ \E scored \in BOOLEAN :
              /\ Goto("challenge")
              /\ Audit([record EXCEPT !.judge = IF scored THEN "scored" ELSE "unscored"],
                       <<Event("judge.completed", "completed", scored)>>, Fails(~scored))
              /\ UNCHANGED <<task, snapshot, cluster, disk>>
       \/ /\ task.judge /\ (~JudgeInputIsSafe \/ redactor)
          /\ Records("challenge", record,
                     <<Event("judge.skipped", "secret_screen_incomplete", FALSE)>>)
       \/ /\ ~task.judge
          /\ Records("challenge", record, <<Event("judge.skipped", "disabled", FALSE)>>)

Challenge ==
    /\ pc = "challenge"
    /\ \E result \in IF task.strict THEN {"passed", "failed"} ELSE {"none"} :
        Steps("complete", [record EXCEPT !.challenge = result], 0)

\* Its image, its diff, its scanners, its judge or its challenges can throw.
EvaluationThrows == pc \in {"screen", "diff", "scan", "judge", "challenge"} /\ Throws

Failed ==
    /\ pc = "failed"
    /\ Records("complete", [record EXCEPT !.tests.infra = TRUE],
               <<Plain("evaluation.failed")>>)

-----------------------------------------------------------------------------
\* The record

Complete ==
    /\ pc = "complete"
    /\ \E tree \in {"admitted", "changed"} :
        LET wrong == task.governed /\ EvidenceFault(record, tree)
            r == Decide(IF wrong THEN Spoilt(record) ELSE record)
        IN  /\ Audit(r, <<Event("outcome.decided", r.outcome, FALSE),
                          Event("run.completed", r.outcome, FALSE)>>,
                     Fails(tree = "changed"))
            /\ tree = "changed" => task.governed
    /\ Goto("close")
    /\ UNCHANGED <<task, snapshot, cluster, disk>>

\* Mutants of Close: a trail that cannot be closed does not spoil the record; the
\* outcome stays as it was decided.
CloseUnspoilt ==
    /\ pc = "close"
    /\ \E fails \in {FALSE, task.governed} :
        LET c == IF task.governed /\ record.count = None THEN Len(log) ELSE record.count
            r == [record EXCEPT !.count = c, !.auditError = @ \/ fails]
        IN Steps("contain", IF r.auditError THEN Decide(r) ELSE r, Fails(fails))
CloseUndecided ==
    /\ pc = "close"
    /\ \E fails \in {FALSE, task.governed} :
        LET c == IF task.governed /\ record.count = None THEN Len(log) ELSE record.count
            r == [record EXCEPT !.count = c, !.auditError = @ \/ fails,
                                !.agent.infra = @ \/ fails]
        IN Steps("contain", r, Fails(fails))

\* The trail is closed; if it failed, the outcome is decided again.
Close ==
    /\ pc = "close"
    /\ \E fails \in {FALSE, task.governed} :
        LET c == IF task.governed /\ record.count = None THEN Len(log) ELSE record.count
            r == [record EXCEPT !.count = c, !.auditError = @ \/ fails,
                                !.agent.infra = @ \/ fails]
        IN Steps("contain", IF r.auditError THEN Decide(r) ELSE r, Fails(fails))

Unattested(r) == Decide([Spoilt(r) EXCEPT !.attestationError = TRUE])

\* Artifacts that hold the credential are removed before anything is saved.
Contain ==
    /\ pc = "contain"
    /\ \/ Steps("persist", record, 0)
       \/ redactor /\ Steps("persist", Unattested(record), 1)

Persist ==
    /\ pc = "persist"
    /\ \/ /\ saved' = record /\ Goto("attest") /\ Faults(0)
       \/ /\ redactor /\ Goto("correct") /\ Faults(1) /\ UNCHANGED saved
    /\ UNCHANGED <<task, snapshot, cluster, record, log, attested>>

Attest ==
    /\ pc = "attest"
    /\ \E fails \in BOOLEAN :
        /\ attested' = IF fails THEN attested ELSE [record |-> record, log |-> log]
        /\ Faults(Fails(fails))
        /\ Goto(IF record.attestationError \/ (fails /\ task.governed)
                THEN "correct" ELSE "done")
    /\ UNCHANGED <<task, snapshot, cluster, record, log, saved>>

\* The record is saved again, with what kept it from being attested.
Correct ==
    /\ pc = "correct"
    /\ record' = Unattested(record)
    /\ saved' = record'
    /\ Goto("done")
    /\ UNCHANGED <<task, snapshot, cluster, log, attested, fault>>

\* Redaction or the disk can refuse the record.
CompletionThrows ==
    \/ pc \in {"contain", "correct"} /\ redactor /\ Throws
    \/ pc \in {"persist", "correct"} /\ Throws

\* The process is killed.
Crash ==
    /\ pc \notin End
    /\ pc' = "killed"
    /\ UNCHANGED <<task, inside, raised, redactor, snapshot, cluster, record, log,
                   disk, fault>>

Ended == pc \in End /\ UNCHANGED vars

Next ==
    \/ Request \/ Start \/ Abandon \/ Credential \/ Proxy \/ AgentPod \/ RunAgent
    \/ Refused \/ Snapshot \/ AgentRaises \/ Finish \/ Reap \/ Missing
    \/ Evaluate \/ Reject \/ Admit \/ Submission \/ Evaluator \/ Link \/ Tests
    \/ TestsRaise \/ Teardown \/ TeardownRaising \/ TeardownFails \/ Report
    \/ Diff \/ Scan \/ Judge \/ Challenge \/ EvaluationThrows \/ Failed
    \/ Complete \/ Close \/ Contain \/ Persist \/ Attest \/ Correct \/ CompletionThrows
    \/ Crash \/ Ended

Spec == Init /\ [][Next]_vars

-----------------------------------------------------------------------------
\* Properties

\* Every variable keeps its type; what silences the trail also spoils the record
\* (runner.py _record_audit_failure).
TypeOK ==
    /\ task \in Task
    /\ pc \in Label
    /\ inside \in BOOLEAN /\ raised \in BOOLEAN /\ redactor \in BOOLEAN
    /\ snapshot \in {"none", "unsafe", "taken"}
    /\ cluster \in [Resource -> Presence]
    /\ record \in Record
    /\ log \in AuditTrail
    /\ saved \in Record \cup {None}
    /\ attested \in Attestation \cup {None}
    /\ fault \in 0 .. MaxFault
    /\ record.auditError => record.agent.infra

\* A saved record that verifies as accepted was earned: no step of its run failed,
\* nothing of it is left in the cluster, the admitted model did the work, its hidden
\* tests passed, and every grader that was admitted had its say; wherever the
\* process may have died since (runner.py _complete_record, verification.py
\* verify_run).
AcceptedIsEarned ==
    task.governed /\ Verifies /\ saved.outcome = "accepted" =>
        /\ fault = 0
        /\ \A x \in Resource : cluster[x] = "absent"
        /\ saved.agent.model = "admitted" /\ Resolved(saved.tests)
        /\ task.scans => saved.scans # None /\ saved.scans.assured
        /\ task.judge => saved.judge = "scored"

\* A governed run that ends with a decision on sound evidence leaves a record, a
\* trail and an attestation that verify (runner.py 1136-1349 against
\* verification.py 62-367).
DecisionVerifies ==
    /\ pc = "done" /\ task.governed
    /\ saved.outcome \in {"accepted", "rejected"}
    /\ saved.tests.integrity \notin {"tree", "diff"}
    => Verifies

\* The scans of a record that verifies, accepted or rejected, were made by every
\* tool to its end, over the whole of the workspace, with the materials that were
\* admitted: whatever was replaced while the pool was running (evaluators/scanners.py
\* run_scanners, runner.py _governed_scanner_assurance_error).
VerifiedScansAreSound ==
    task.governed /\ Verifies /\ saved.outcome # "infra_error" /\ saved.scans # None
    => saved.scans.sound

\* A run that ends, and is not killed, has tried to delete everything it held in the
\* cluster; except what comes after a pod that resisted and whose error could not be
\* written down.  If anything may be left there, tried or not, its record says
\* infra_error (runner.py 1759-1784, 2132-2142, 2463-2478, 3399-3424).
NothingLeftSilently ==
    /\ pc \in {"done", "dead"} =>
        \A x \in Held(Resource) :
            fault >= 2 /\ \E y \in EvaluationPods : cluster[y] = "stray" /\ x \in Behind(y)
    /\ pc = "done" /\ (\E x \in Resource : cluster[x] # "absent") =>
        saved.outcome = "infra_error"

\* "A hostile or structurally unsafe submission is a rejected result, not an
\* infrastructure outage" (evaluators/tests.py 121-122); here for governed runs
\* whose only grader are the tests, and for all others.
HostileIsRejected ==
    /\ pc = "done" /\ fault = 0
    /\ task.governed => ~task.scans /\ ~task.judge
    /\ saved.agent.model = "admitted" /\ saved.tests.integrity # None
    => saved.outcome = "rejected"
=============================================================================
