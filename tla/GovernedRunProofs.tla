-------------------------- MODULE GovernedRunProofs --------------------------
(***************************************************************************)
(* Proofs about GovernedRun and Scanners: for any trials and any number of *)
(* failing steps, a run lets go of what it held, or says so; what verifies *)
(* as accepted was earned; and a decision on sound evidence verifies.      *)
(***************************************************************************)
EXTENDS GovernedRun, SequenceTheorems, TLAPS

-----------------------------------------------------------------------------
\* The inductive invariant, by how far the trial has come.

AgentPhase == {"start", "secret", "proxy", "agent", "run", "snapshot", "finish", "reap"}
Early  == AgentPhase \cup {"request", "unstarted", "missing", "evaluate", "screen"}
Pods   == {"submission", "evaluator", "link", "tests", "teardown"}
Graded == {"report", "diff", "scan", "judge", "challenge"}
Middle == Pods \cup Graded \cup {"complete"}
Settled == {"contain", "persist", "attest", "correct", "done"}
Late   == Settled \cup {"close"}

Infra(r) == r.agent.infra \/ r.tests.infra

USE DEF AgentPhase, Early, Pods, Graded, Middle, Settled, Late, Infra

\* Every error of the trail and of the attestation is an error of the record, and
\* an exception waits only for a finally block.
FlagInv ==
  /\ record.auditError => record.agent.infra
  /\ record.attestationError => record.agent.infra
  /\ raised => pc \in {"finish", "reap", "teardown", "dead", "killed"}
  /\ pc = "unstarted" => record.agent.infra
  /\ pc \in {"request", "start", "secret", "proxy", "agent", "run"} => ~record.agent.infra

\* Where the process can have a handle on what.
AgentPods == {"secret", "proxy", "agent"}
Untried(x) ==
  fault >= 2 /\ \E y \in EvaluationPods : cluster[y] = "stray" /\ x \in Behind(y)
USE DEF Untried
HeldInv ==
  /\ \A x \in AgentPods : cluster[x] = "held" =>
       pc \in {"proxy", "agent", "run", "snapshot", "finish", "reap", "killed"}
  /\ \A x \in EvaluationPods : cluster[x] = "held" =>
       \/ pc \in {"evaluator", "link", "tests", "teardown", "killed"}
       \/ pc \in {"failed", "complete", "dead"} \cup Late /\ Untried(x)

\* What may be left behind is known to the record, unless an exception takes the
\* record away.
Stray == \E x \in Resource : cluster[x] = "stray"
StrayInv ==
  Stray =>
    /\ fault > 0
    /\ pc \in Early => record.agent.infra \/ raised
    /\ pc \in Middle \cup Late => Infra(record) \/ raised

\* A step of a governed run that failed is known to the record, or to the evidence
\* it is completed with.
Suspect ==
  \/ Infra(record) \/ raised
  \/ pc \in {"judge", "challenge", "complete"} /\ ScannerFault(record, TRUE)
  \/ pc \in {"challenge", "complete"} /\ task.judge /\ record.judge # "scored"

FaultInv ==
  task.governed /\ fault > 0 =>
    /\ pc \in Early => record.agent.infra \/ raised
    /\ pc \in Middle => Suspect
    /\ pc \in Late \ {"correct", "done"} => Infra(record)

\* What the evidence is made of.
Admitted1(r) == r.agent.wall => r.agent.model = "admitted"
GradeInv ==
  /\ snapshot = "taken" \/ pc = "snapshot" => record.agent.wall
  /\ pc \in Early \ {"unstarted", "finish", "reap", "missing", "evaluate", "screen"} =>
       snapshot = "none"
  /\ record.tests.mode = "isolated" => snapshot = "taken"
  /\ pc \in {"evaluate", "screen"} \cup Pods \cup Graded => snapshot = "taken"
  /\ pc \in Pods => record.tests.integrity # "tree"
  /\ task.governed /\ ~Admitted1(record) =>
       record.agent.infra \/ pc \in {"snapshot", "finish", "killed"}
  /\ pc \in Early \cup Pods \cup {"report", "diff", "scan", "judge"} => record.judge = "none"
  /\ task.governed /\ pc \in Late /\ ~Infra(record) =>
       /\ ~ImageFault(record)
       /\ ~ScannerFault(record, TRUE)
       /\ task.judge => record.judge = "scored"

\* The outcome, and what is saved.
OutcomeInv ==
  /\ pc = "close" => record.auditError \/ record.outcome = Outcome(record)
  /\ pc \in Settled => record.outcome = Outcome(record)
  /\ pc \in {"attest", "done"} => saved = record
  /\ task.governed /\ pc = "done" =>
       record.attestationError \/ attested = [record |-> record, log |-> log]
  /\ pc \in Early \cup Pods \cup Graded => record.count = None
  /\ pc \in {"complete", "close"} => record.count = None \/ Infra(record)
  /\ task.governed /\ pc \in Settled => record.count = Len(log) \/ Infra(record)

\* What is attested.  A run that was refused its record after the attestation may
\* complete it a second time.
AttestedInv ==
  attested # None =>
    /\ pc \in {"failed", "complete", "dead", "killed"} \cup Late
    /\ \A x \in Resource : cluster[x] = "held" => fault >= 2
    /\ pc \in {"failed", "complete"} \cup (Late \ {"done"}) => Infra(record)
    /\ pc \notin {"done", "dead", "killed"} => Infra(saved)
    /\ task.governed /\ fault > 0 => Infra(saved)
    /\ task.governed /\ ~Infra(saved) /\ task.judge => saved.judge = "scored"

-----------------------------------------------------------------------------
\* The trail of a governed run that nothing has gone wrong with.

JudgeFits(e) ==
  /\ e.type \in {"judge.completed", "judge.skipped"}
  /\ ~task.judge => e = Event("judge.skipped", "disabled", FALSE)
  /\ task.judge /\ record.judge = "scored" => e = Event("judge.completed", "completed", TRUE)

TestsFit(e) ==
  /\ e.type = "tests.completed"
  /\ e.status = "completed"
  /\ record.tests.integrity # "diff" => e.flag = Resolved(record.tests)

Fits(i, e) ==
  /\ i = 1 => e = Plain("evaluation.requested")
  /\ i = 2 => e = Plain("policy.admitted")
  /\ i = 3 => e = Plain("agent.started")
  /\ i = 4 => e = Event("agent.completed", "completed", snapshot = "taken")
  /\ i = 5 => e = Event("cleanup.completed", "completed", FALSE)
  /\ i = 6 => e = Plain("evaluation.started")
  /\ i = 7 => TestsFit(e)
  /\ i = 8 => e = Event("scanners.completed",
                        IF task.scans THEN "completed" ELSE "skipped", FALSE)
  /\ i = 9 => JudgeFits(e)
  /\ i = 10 => e.type = "outcome.decided" /\ e.status = record.outcome
  /\ i = 11 => e.type = "run.completed" /\ e.status = record.outcome

Told(n) == Len(log) = n /\ \A i \in 1 .. n : Fits(i, log[i])

\* Decidable evidence: an isolated evaluation whose tree was safe.
Clear == ~Infra(record) /\ ~raised /\ record.tests.mode = "isolated"
         /\ record.tests.integrity # "tree"

TrailInv ==
  task.governed =>
    /\ ~record.agent.infra /\ ~raised =>
         /\ pc = "request" => Told(0)
         /\ pc = "start" => Told(2)
         /\ pc \in AgentPhase \ {"start", "reap"} => Told(3)
         /\ pc = "reap" => Told(4)
         /\ pc = "evaluate" => Told(5)
         /\ pc = "screen" => Told(6)
    /\ Clear =>
         /\ pc \in Pods \cup {"report"} => Told(6)
         /\ pc \in {"diff", "scan"} => Told(7)
         /\ pc = "judge" => Told(8)
         /\ pc \in {"challenge", "complete"} => Told(9)
         /\ pc \in Late => Told(11)

CoreInv == /\ FlagInv /\ HeldInv /\ StrayInv /\ FaultInv
           /\ GradeInv /\ OutcomeInv /\ AttestedInv

IInv == TypeOK /\ CoreInv /\ TrailInv
-----------------------------------------------------------------------------
\* The record and the trail.

\* s is r, but for an error of the agent phase or of the trail.
Keeps(s, r) ==
  /\ s.agent.wall = r.agent.wall /\ s.agent.model = r.agent.model
  /\ s.agent.digest = r.agent.digest /\ s.agent.code = r.agent.code
  /\ s.tests = r.tests /\ s.diff = r.diff /\ s.scans = r.scans
  /\ s.judge = r.judge /\ s.challenge = r.challenge /\ s.outcome = r.outcome
  /\ s.attestationError = r.attestationError /\ s.count = r.count

LEMMA SpoiltFields ==
  ASSUME NEW r \in Record
  PROVE  /\ Spoilt(r) \in Record /\ Spoilt(r).agent.infra
         /\ Spoilt(r).auditError = r.auditError /\ Keeps(Spoilt(r), r)
BY DEF Spoilt, Record, AgentResult, Keeps

Marred(r) == [Spoilt(r) EXCEPT !.auditError = TRUE]

LEMMA MarredFields ==
  ASSUME NEW r \in Record
  PROVE  /\ Marred(r) \in Record /\ Marred(r).agent.infra
         /\ Marred(r).auditError /\ Keeps(Marred(r), r)
<1> DEFINE s == Spoilt(r)
<1>1. s \in Record /\ s.agent.infra /\ Keeps(s, r)
  BY SpoiltFields
<1>2. Marred(r) = [s EXCEPT !.auditError = TRUE]
  BY DEF Marred
<1> HIDE DEF s
<1>3. Marred(r) \in Record
  BY <1>1, <1>2 DEF Record
<1>4. /\ Marred(r).agent = s.agent /\ Marred(r).tests = s.tests /\ Marred(r).diff = s.diff
      /\ Marred(r).scans = s.scans /\ Marred(r).judge = s.judge
      /\ Marred(r).challenge = s.challenge /\ Marred(r).outcome = s.outcome
      /\ Marred(r).attestationError = s.attestationError /\ Marred(r).count = s.count
      /\ Marred(r).auditError
  BY <1>1, <1>2 DEF Record
<1> QED BY <1>1, <1>3, <1>4 DEF Keeps

\* What an attempt to append events leaves: all of them, or a record that is
\* spoilt by the failure.
Tells(r, events, n) ==
  /\ record' = r /\ fault' = fault + n
  /\ ~task.governed \/ r.auditError => log' = log
  /\ task.governed /\ ~r.auditError => r.count = None /\ log' = log \o events
Loses(r) ==
  /\ Keeps(record', r) /\ record'.agent.infra /\ record'.auditError
  /\ fault' = fault + 1 /\ task.governed

LEMMA AuditCases ==
  ASSUME TypeOK, NEW r \in Record, NEW events \in AuditTrail, NEW n \in Nat,
         Audit(r, events, n)
  PROVE  /\ log' \in AuditTrail /\ record' \in Record
         /\ fault' \in 0 .. MaxFault
         /\ Tells(r, events, n) \/ Loses(r)
<1> USE TaskAssumption
<1> DEFINE m == Marred(r)
<1>m. m \in Record /\ m.agent.infra /\ m.auditError /\ Keeps(m, r)
  BY MarredFields
<1>d. m = [Spoilt(r) EXCEPT !.auditError = TRUE]
  BY DEF Marred
<1> HIDE DEF m
<1>1. CASE (~task.governed \/ r.auditError) /\ record' = r /\ log' = log /\ Faults(n)
  BY <1>1 DEF TypeOK, Faults, Tells
<1>2. CASE /\ task.governed /\ ~r.auditError /\ r.count = None /\ record' = r
           /\ log' = log \o events /\ Faults(n)
  BY <1>2 DEF TypeOK, Faults, Tells, AuditTrail
<1>3. ASSUME NEW k \in 0 .. Len(events) - 1, task.governed, ~r.auditError,
             record' = m, log' = log \o SubSeq(events, 1, k), Faults(1)
      PROVE  /\ log' \in AuditTrail /\ record' \in Record
             /\ fault' \in 0 .. MaxFault /\ Loses(r)
  <2>1. SubSeq(events, 1, k) \in AuditTrail
    <3>1. \A i \in 1 .. k : events[i] \in AuditEvent
      BY DEF AuditTrail
    <3> QED BY <3>1, SubSeqProperties DEF AuditTrail
  <2>2. log' \in AuditTrail
    BY <1>3, <2>1 DEF TypeOK, AuditTrail
  <2> QED BY <1>m, <1>3, <2>2 DEF TypeOK, Faults, Loses
<1> QED BY <1>1, <1>2, <1>3, <1>d DEF Audit

\* Every event of the program is an entry of a trail, and a trail may be one long.
LEMMA EventType ==
  ASSUME NEW type \in EventName, NEW status \in EventStatus, NEW flag \in BOOLEAN
  PROVE  Event(type, status, flag) \in AuditEvent
BY DEF Event, AuditEvent

LEMMA Singleton == ASSUME NEW e \in AuditEvent PROVE <<e>> \in AuditTrail
BY DEF AuditTrail

LEMMA Appended ==
  ASSUME NEW s \in AuditTrail, NEW e \in AuditEvent PROVE s \o <<e>> = Append(s, e)
BY DEF AuditTrail

-----------------------------------------------------------------------------
\* What the trail tells stays told, as long as what it is about does, and an event
\* that fits goes on from there.
LEMMA ToldStays ==
  ASSUME NEW n \in 0 .. 11, Told(n), log' = log, task' = task,
         n >= 4 => snapshot' = snapshot,
         n >= 7 => record'.tests = record.tests \/ record'.tests.integrity = "diff",
         n >= 9 => record'.judge = record.judge,
         n >= 10 => record'.outcome = record.outcome
  PROVE  Told(n)'
<1> SUFFICES ASSUME NEW i \in 1 .. n PROVE Fits(i, log[i])'
  BY DEF Told
<1>1. Fits(i, log[i])
  BY DEF Told
<1> QED BY <1>1 DEF Fits, TestsFit, JudgeFits, Event, Plain

LEMMA ToldMore ==
  ASSUME NEW n \in 0 .. 10, Told(n), NEW e, log \in AuditTrail, e \in AuditEvent,
         log' = Append(log, e), task' = task,
         n >= 4 => snapshot' = snapshot,
         n >= 7 => record'.tests = record.tests \/ record'.tests.integrity = "diff",
         n >= 9 => record'.judge = record.judge,
         n >= 10 => record'.outcome = record.outcome,
         Fits(n + 1, e)'
  PROVE  Told(n + 1)'
<1>1. /\ Len(log') = n + 1 /\ log'[n + 1] = e
      /\ \A i \in 1 .. n : log'[i] = log[i]
  BY DEF Told, AuditTrail
<1> SUFFICES ASSUME NEW i \in 1 .. n + 1 PROVE Fits(i, log[i])'
  BY <1>1 DEF Told
<1>2. CASE i = n + 1
  BY <1>1, <1>2
<1>3. CASE i \in 1 .. n
  <2>1. Fits(i, log[i]) /\ log'[i] = log[i] /\ n >= i
    BY <1>1, <1>3 DEF Told
  <2> QED BY <2>1 DEF Fits, TestsFit, JudgeFits, Event, Plain
<1>4. i = n + 1 \/ i \in 1 .. n
  OBVIOUS
<1> QED BY <1>2, <1>3, <1>4

LEMMA ToldTwo ==
  ASSUME Told(9), NEW a \in AuditEvent, NEW b \in AuditEvent, log \in AuditTrail,
         log' = log \o <<a, b>>, task' = task, snapshot' = snapshot,
         record'.tests = record.tests, record'.judge = record.judge,
         Fits(10, a)', Fits(11, b)'
  PROVE  Told(11)'
<1>1. /\ Len(log') = 11 /\ log'[10] = a /\ log'[11] = b
      /\ \A i \in 1 .. 9 : log'[i] = log[i]
  <2> DEFINE two == <<a, b>>
  <2>1. log \in Seq(AuditEvent) /\ Len(log) = 9
    BY DEF Told, AuditTrail
  <2>2. two \in Seq(AuditEvent) /\ Len(two) = 2 /\ two[1] = a /\ two[2] = b
    OBVIOUS
  <2>3. log' = log \o two
    OBVIOUS
  <2> HIDE DEF two
  <2>4. /\ Len(log \o two) = 11
        /\ \A i \in 1 .. 11 : (log \o two)[i] = IF i <= 9 THEN log[i] ELSE two[i - 9]
    <3>1. /\ Len(log \o two) = Len(log) + Len(two)
          /\ \A i \in 1 .. Len(log) + Len(two) : (log \o two)[i] =
               IF i <= Len(log) THEN log[i] ELSE two[i - Len(log)]
      BY <2>1, <2>2, ConcatProperties
    <3>2. Len(log) + Len(two) = 11
      BY <2>1, <2>2
    <3>3. ASSUME NEW i \in 1 .. 11
          PROVE  (log \o two)[i] = IF i <= 9 THEN log[i] ELSE two[i - 9]
      <4>1. (log \o two)[i] = IF i <= Len(log) THEN log[i] ELSE two[i - Len(log)]
        BY <3>1, <3>2
      <4> QED BY <2>1, <4>1
    <3> QED BY <3>1, <3>2, <3>3
  <2> QED BY <2>2, <2>3, <2>4
<1> SUFFICES ASSUME NEW i \in 1 .. 11 PROVE Fits(i, log[i])'
  BY <1>1 DEF Told
<1>2. CASE i \in 1 .. 9
  <2>1. PICK e : e = log[i]
    OBVIOUS
  <2>2. Fits(i, e) /\ log'[i] = e /\ i # 10 /\ i # 11
    BY <1>1, <1>2, <2>1 DEF Told
  <2>3. TestsFit(e) => TestsFit(e)'
    BY DEF TestsFit
  <2>4. JudgeFits(e) => JudgeFits(e)'
    BY DEF JudgeFits, Event
  <2>5. Fits(i, e)'
    BY <2>2, <2>3, <2>4 DEF Fits, Event, Plain
  <2> QED BY <2>2, <2>5 DEF Fits
<1>3. CASE i = 10
  BY <1>1, <1>3
<1>4. CASE i = 11
  BY <1>1, <1>4
<1>5. i \in 1 .. 9 \/ i = 10 \/ i = 11
  OBVIOUS
<1> QED BY <1>2, <1>3, <1>4, <1>5

-----------------------------------------------------------------------------
\* The agent phase.

LEMMA RequestStep == ASSUME IInv, Request PROVE IInv'
<1> DEFINE first == Plain("evaluation.requested")
           second == Plain("policy.admitted")
           events == <<first, second>>
<1>e. events \in AuditTrail
  <2>1. first \in AuditEvent /\ second \in AuditEvent
    BY EventType DEF Plain, EventName, EventStatus
  <2> HIDE DEF first, second
  <2> QED BY <2>1 DEF AuditTrail
<1>a. /\ log' \in AuditTrail /\ record' \in Record /\ fault' \in 0 .. MaxFault
      /\ Tells(record, events, 0) \/ Loses(record)
  <2>1. TypeOK /\ record \in Record /\ Audit(record, events, 0)
    BY DEF Request, IInv, TypeOK
  <2> HIDE DEF events
  <2> QED BY <2>1, <1>e, AuditCases
<1> HIDE DEF events
<1>u. /\ pc = "request"
      /\ pc' = IF record'.auditError THEN "unstarted" ELSE "start"
      /\ UNCHANGED <<inside, raised, redactor, task, snapshot, cluster, saved, attested>>
  BY DEF Request, Goto, disk
<1> USE DEF Tells, Loses, Keeps
<1>t. Told(0) /\ log' = log \o events => Told(2)'
  <2> SUFFICES ASSUME Told(0), log' = log \o events PROVE Told(2)'
    OBVIOUS
  <2>1. log \in Seq(AuditEvent) /\ Len(log) = 0
    BY DEF Told, IInv, TypeOK, AuditTrail
  <2>2. Len(log') = 2 /\ log'[1] = first /\ log'[2] = second
    BY <2>1 DEF events
  <2>3. \A i \in 1 .. 2 : i = 1 \/ i = 2
    OBVIOUS
  <2>4. Fits(1, first)' /\ Fits(2, second)'
    BY DEF Fits
  <2> QED BY <2>2, <2>3, <2>4 DEF Told
<1>1. TypeOK'
  BY <1>a, <1>u DEF IInv, TypeOK, Label
<1>2. CoreInv'
  BY <1>a, <1>u DEF IInv, TypeOK, CoreInv, FlagInv, HeldInv, StrayInv, Stray, FaultInv, Suspect,
     GradeInv, Admitted1, OutcomeInv, AttestedInv
<1>3. TrailInv'
  BY <1>t, <1>a, <1>u DEF IInv, TypeOK, CoreInv, FlagInv, GradeInv, TrailInv, Clear
<1> QED BY <1>1, <1>2, <1>3 DEF IInv

LEMMA StartStep == ASSUME IInv, Start PROVE IInv'
<1> DEFINE e == Plain("agent.started")
<1>e. e \in AuditEvent
  BY EventType DEF Plain, EventName, EventStatus
<1>a. /\ log' \in AuditTrail /\ record' \in Record /\ fault' \in 0 .. MaxFault
      /\ Tells(record, <<e>>, 0) \/ Loses(record)
  BY <1>e, AuditCases, Singleton DEF Start, IInv, TypeOK
<1>u. /\ pc = "start"
      /\ pc' = IF record'.auditError THEN "unstarted" ELSE "secret"
      /\ UNCHANGED <<inside, raised, redactor, task, snapshot, cluster, saved, attested>>
  BY DEF Start, Goto, disk
<1>f. Fits(3, e)'
  BY DEF Fits
<1> HIDE DEF e
<1> USE DEF Tells, Loses, Keeps
<1>t. Told(2) /\ log' = log \o <<e>> => Told(3)'
  BY <1>e, <1>f, <1>u, Appended, ToldMore DEF IInv, TypeOK
<1>1. TypeOK'
  BY <1>a, <1>u DEF IInv, TypeOK, Label
<1>2. CoreInv'
  BY <1>a, <1>u DEF IInv, TypeOK, CoreInv, FlagInv, HeldInv, StrayInv, Stray, FaultInv, Suspect,
     GradeInv, Admitted1, OutcomeInv, AttestedInv
<1>3. TrailInv'
  BY <1>t, <1>a, <1>u DEF IInv, TypeOK, CoreInv, FlagInv, GradeInv, TrailInv, Clear
<1> QED BY <1>1, <1>2, <1>3 DEF IInv

LEMMA AbandonStep == ASSUME IInv, Abandon PROVE IInv'
<1> DEFINE t == [NoTests EXCEPT !.infra = TRUE]
<1>t. t \in TestResult /\ t.infra /\ t.mode = "cooperative"
  BY DEF NoTests, TestResult, Code
<1>u. /\ pc = "unstarted" /\ pc' = "complete"
      /\ record' = [record EXCEPT !.tests = t]
      /\ UNCHANGED <<inside, raised, redactor, task, snapshot, cluster, log, saved, attested,
                     fault>>
  BY DEF Abandon, Steps, Unstarted, Goto, Faults, disk, IInv, TypeOK
<1> HIDE DEF t
<1>1. TypeOK'
  BY <1>t, <1>u DEF IInv, TypeOK, Record, Label
<1>2. CoreInv'
  <2>1. FlagInv'
    BY <1>t, <1>u DEF IInv, TypeOK, CoreInv, FlagInv, Record
  <2>2. HeldInv'
    BY <1>t, <1>u DEF IInv, TypeOK, CoreInv, FlagInv, HeldInv, AgentPods, EvaluationPods, Record
  <2>3. StrayInv'
    BY <1>t, <1>u DEF IInv, TypeOK, CoreInv, FlagInv, StrayInv, Stray, Record
  <2>4. FaultInv'
    BY <1>t, <1>u DEF IInv, TypeOK, CoreInv, FlagInv, FaultInv, Suspect, Record
  <2>5. GradeInv'
    BY <1>t, <1>u DEF IInv, TypeOK, CoreInv, FlagInv, GradeInv, Admitted1, Record
  <2>6. OutcomeInv'
    BY <1>t, <1>u DEF IInv, TypeOK, CoreInv, FlagInv, OutcomeInv, Record
  <2>7. AttestedInv'
    BY <1>t, <1>u DEF IInv, TypeOK, CoreInv, FlagInv, AttestedInv, Record
  <2> QED BY <2>1, <2>2, <2>3, <2>4, <2>5, <2>6, <2>7 DEF CoreInv
<1>3. TrailInv'
  BY <1>t, <1>u DEF IInv, TypeOK, CoreInv, FlagInv, GradeInv, TrailInv, Clear, Record
<1> QED BY <1>1, <1>2, <1>3 DEF IInv

LEMMA CredentialStep == ASSUME IInv, Credential PROVE IInv'
<1> DEFINE s == Spoilt(record)
<1>s. s \in Record /\ s.agent.infra /\ s.auditError = record.auditError /\ Keeps(s, record)
  BY SpoiltFields DEF IInv, TypeOK
<1>p. PICK known \in {FALSE, task.secret} :
        /\ redactor' = known
        /\ \/ /\ known = task.secret
              /\ cluster' = [cluster EXCEPT !.secret = IF known THEN "held" ELSE @]
              /\ pc' = "proxy"
              /\ UNCHANGED <<record, fault>>
           \/ \E p \in IF known THEN Presence ELSE {"absent"} :
              /\ cluster' = [cluster EXCEPT !.secret = p]
              /\ pc' = "finish"
              /\ record' = s /\ Faults(1)
  BY DEF Credential
<1>k. known \in BOOLEAN /\ task.secret \in BOOLEAN /\ "absent" \in Presence
  BY TaskAssumption DEF IInv, TypeOK, Presence
<1>u. /\ pc = "secret" /\ redactor' \in BOOLEAN
      /\ \/ /\ cluster' = [cluster EXCEPT !.secret = IF task.secret THEN "held" ELSE @]
            /\ pc' = "proxy" /\ UNCHANGED <<record, fault>>
         \/ /\ \E p \in Presence : cluster' = [cluster EXCEPT !.secret = p]
            /\ pc' = "finish" /\ record' = s /\ fault' = fault + 1 /\ fault' \in 0 .. MaxFault
      /\ UNCHANGED <<inside, raised, task, snapshot, log, saved, attested>>
  BY <1>p, <1>k, TaskAssumption DEF Credential, Faults, disk, IInv, TypeOK
<1> HIDE DEF s
<1> USE DEF Keeps
<1>t. Told(3) => Told(3)'
  BY <1>u, ToldStays
<1>1. TypeOK'
  BY <1>s, <1>u DEF IInv, TypeOK, Label, Resource, Presence
<1>2. CoreInv'
  <2>1. FlagInv'
    BY <1>s, <1>u DEF IInv, TypeOK, CoreInv, FlagInv, Resource
  <2>2. HeldInv'
    BY <1>s, <1>u DEF IInv, TypeOK, CoreInv, FlagInv, HeldInv, AgentPods, EvaluationPods,
       Resource
  <2>3. StrayInv'
    BY <1>s, <1>u DEF IInv, TypeOK, CoreInv, FlagInv, StrayInv, Stray, Resource
  <2>4. FaultInv'
    BY <1>s, <1>u DEF IInv, TypeOK, CoreInv, FlagInv, FaultInv, Suspect, Resource
  <2>5. GradeInv'
    BY <1>s, <1>u DEF IInv, TypeOK, CoreInv, FlagInv, GradeInv, Admitted1, Resource
  <2>6. OutcomeInv'
    BY <1>s, <1>u DEF IInv, TypeOK, CoreInv, FlagInv, OutcomeInv, Resource
  <2>7. AttestedInv'
    BY <1>s, <1>u DEF IInv, TypeOK, CoreInv, FlagInv, AttestedInv, Resource
  <2> QED BY <2>1, <2>2, <2>3, <2>4, <2>5, <2>6, <2>7 DEF CoreInv
<1>3. TrailInv'
  BY <1>t, <1>s, <1>u DEF IInv, TypeOK, CoreInv, FlagInv, GradeInv, TrailInv, Clear
<1> QED BY <1>1, <1>2, <1>3 DEF IInv

LEMMA ProvisionStep ==
  ASSUME IInv, NEW x \in {"proxy", "agent"}, NEW needed \in BOOLEAN,
         Provision(x, needed, IF x = "proxy" THEN "agent" ELSE "run")
  PROVE  IInv'
<1> DEFINE s == Spoilt(record)
<1>s. s \in Record /\ s.agent.infra /\ s.auditError = record.auditError /\ Keeps(s, record)
  BY SpoiltFields DEF IInv, TypeOK
<1>u. /\ pc = x
      /\ \/ /\ cluster' = [cluster EXCEPT ![x] = IF needed THEN "held" ELSE @]
            /\ pc' = IF x = "proxy" THEN "agent" ELSE "run"
            /\ UNCHANGED <<record, fault>>
         \/ /\ \E p \in Presence : cluster' = [cluster EXCEPT ![x] = p]
            /\ pc' = "finish" /\ record' = s /\ fault' = fault + 1 /\ fault' \in 0 .. MaxFault
      /\ UNCHANGED <<inside, raised, redactor, task, snapshot, log, saved, attested>>
  BY TaskAssumption DEF Provision, Goto, Faults, disk, IInv, TypeOK, Presence
<1> HIDE DEF s
<1> USE DEF Keeps
<1>t. Told(3) => Told(3)'
  BY <1>u, ToldStays
<1>1. TypeOK'
  BY <1>s, <1>u DEF IInv, TypeOK, Label, Resource, Presence
<1>2. CoreInv'
  <2>1. FlagInv'
    BY <1>s, <1>u DEF IInv, TypeOK, CoreInv, FlagInv, Resource
  <2>2. HeldInv'
    BY <1>s, <1>u DEF IInv, TypeOK, CoreInv, FlagInv, HeldInv, AgentPods, EvaluationPods,
       Resource
  <2>3. StrayInv'
    BY <1>s, <1>u DEF IInv, TypeOK, CoreInv, FlagInv, StrayInv, Stray, Resource
  <2>4. FaultInv'
    BY <1>s, <1>u DEF IInv, TypeOK, CoreInv, FlagInv, FaultInv, Suspect, Resource
  <2>5. GradeInv'
    BY <1>s, <1>u DEF IInv, TypeOK, CoreInv, FlagInv, GradeInv, Admitted1, Resource
  <2>6. OutcomeInv'
    BY <1>s, <1>u DEF IInv, TypeOK, CoreInv, FlagInv, OutcomeInv, Resource
  <2>7. AttestedInv'
    BY <1>s, <1>u DEF IInv, TypeOK, CoreInv, FlagInv, AttestedInv, Resource
  <2> QED BY <2>1, <2>2, <2>3, <2>4, <2>5, <2>6, <2>7 DEF CoreInv
<1>3. TrailInv'
  BY <1>t, <1>s, <1>u DEF IInv, TypeOK, CoreInv, FlagInv, GradeInv, TrailInv, Clear
<1> QED BY <1>1, <1>2, <1>3 DEF IInv

LEMMA RunAgentStep == ASSUME IInv, RunAgent PROVE IInv'
<1> DEFINE a(model, code) == [infra |-> code = None, digest |-> TRUE, wall |-> TRUE,
                              model |-> model, code |-> code]
<1>p. PICK model \in {"admitted", "other"}, code \in {0, 1, None} :
        Steps("snapshot", [record EXCEPT !.agent = a(model, code)], Fails(code = None))
  BY DEF RunAgent
<1>s. /\ a(model, code) \in AgentResult /\ a(model, code).wall
      /\ a(model, code).infra <=> code = None
  BY DEF AgentResult, Code
<1> DEFINE result == a(model, code)
<1>f. fault' \in 0 .. MaxFault /\ (fault' = fault \/ (fault' = fault + 1 /\ result.infra))
  BY <1>p, <1>s, TaskAssumption DEF Steps, Faults, Fails, IInv, TypeOK
<1>u. /\ pc = "run" /\ pc' = "snapshot"
      /\ record' = [record EXCEPT !.agent = result]
      /\ UNCHANGED <<inside, raised, redactor, task, snapshot, cluster, log, saved, attested>>
  BY <1>p DEF RunAgent, Steps, Goto, disk
<1>r. result \in AgentResult /\ result.wall
  BY <1>s
<1> HIDE DEF a, result
<1>t. Told(3) => Told(3)'
  BY <1>u, ToldStays
<1>1. TypeOK'
  BY <1>f, <1>r, <1>u DEF IInv, TypeOK, CoreInv, FlagInv, Label, Record
<1>2. CoreInv'
  <2>1. FlagInv'
    BY <1>f, <1>r, <1>u DEF IInv, TypeOK, CoreInv, FlagInv, Record
  <2>2. HeldInv'
    BY <1>f, <1>r, <1>u DEF IInv, TypeOK, CoreInv, FlagInv, HeldInv, AgentPods,
       EvaluationPods, Record
  <2>3. StrayInv'
    BY <1>f, <1>r, <1>u DEF IInv, TypeOK, CoreInv, FlagInv, StrayInv, Stray, Record
  <2>4. FaultInv'
    BY <1>f, <1>r, <1>u DEF IInv, TypeOK, CoreInv, FlagInv, FaultInv, Suspect, Record
  <2>5. GradeInv'
    BY <1>f, <1>r, <1>u DEF IInv, TypeOK, CoreInv, FlagInv, GradeInv, Admitted1, Record
  <2>6. OutcomeInv'
    BY <1>f, <1>r, <1>u DEF IInv, TypeOK, CoreInv, FlagInv, OutcomeInv, Record
  <2>7. AttestedInv'
    BY <1>f, <1>r, <1>u DEF IInv, TypeOK, CoreInv, FlagInv, AttestedInv, Record
  <2> QED BY <2>1, <2>2, <2>3, <2>4, <2>5, <2>6, <2>7 DEF CoreInv
<1>3. TrailInv'
  BY <1>t, <1>f, <1>r, <1>u DEF IInv, TypeOK, CoreInv, FlagInv, GradeInv, TrailInv, Clear,
     Record
<1> QED BY <1>1, <1>2, <1>3 DEF IInv

LEMMA RefusedStep == ASSUME IInv, Refused PROVE IInv'
<1>u. /\ pc = "run" /\ pc' = "finish" /\ snapshot' = "unsafe"
      /\ UNCHANGED <<inside, raised, redactor, task, cluster, record, log, saved, attested,
                     fault>>
  BY DEF Refused, Goto, disk
<1>t. Told(3) => Told(3)'
  BY <1>u, ToldStays
<1>1. TypeOK'
  BY <1>u DEF IInv, TypeOK, Label
<1>2. CoreInv'
  BY <1>u DEF IInv, TypeOK, CoreInv, FlagInv, HeldInv, StrayInv, Stray, FaultInv, Suspect,
     GradeInv, Admitted1, OutcomeInv, AttestedInv
<1>3. TrailInv'
  BY <1>t, <1>u DEF IInv, TypeOK, CoreInv, FlagInv, GradeInv, TrailInv, Clear
<1> QED BY <1>1, <1>2, <1>3 DEF IInv

LEMMA SnapshotStep == ASSUME IInv, Snapshot PROVE IInv'
<1> DEFINE s == Spoilt(record)
<1>s. s \in Record /\ s.agent.infra /\ s.auditError = record.auditError /\ Keeps(s, record)
  BY SpoiltFields DEF IInv, TypeOK
<1>u. /\ pc = "snapshot" /\ pc' = "finish"
      /\ \/ snapshot' \in {"taken", "unsafe"} /\ UNCHANGED <<record, fault>>
         \/ /\ snapshot' = "none" /\ record' = s
            /\ fault' = fault + 1 /\ fault' \in 0 .. MaxFault
      /\ UNCHANGED <<inside, raised, redactor, task, cluster, log, saved, attested>>
  BY TaskAssumption DEF Snapshot, Goto, Faults, disk, IInv, TypeOK
<1> HIDE DEF s
<1> USE DEF Keeps
<1>t. Told(3) => Told(3)'
  BY <1>u, ToldStays
<1>1. TypeOK'
  BY <1>s, <1>u DEF IInv, TypeOK, Label
<1>2. CoreInv'
  BY <1>s, <1>u DEF IInv, TypeOK, CoreInv, FlagInv, HeldInv, StrayInv, Stray, FaultInv, Suspect,
     GradeInv, Admitted1, OutcomeInv, AttestedInv
<1>3. TrailInv'
  BY <1>t, <1>s, <1>u DEF IInv, TypeOK, CoreInv, FlagInv, GradeInv, TrailInv, Clear
<1> QED BY <1>1, <1>2, <1>3 DEF IInv

LEMMA AgentRaisesStep == ASSUME IInv, AgentRaises PROVE IInv'
<1>u. /\ pc \in {"secret", "proxy", "agent", "run", "snapshot"} /\ pc' = "finish"
      /\ raised' /\ raised' \in BOOLEAN /\ fault' = fault + 1 /\ fault' \in 0 .. MaxFault
      /\ \/ UNCHANGED cluster
         \/ pc \in Resource /\ cluster' = [cluster EXCEPT ![pc] = "stray"]
      /\ UNCHANGED <<inside, redactor, task, snapshot, record, log, saved, attested>>
  BY TaskAssumption DEF AgentRaises, Faults, disk, IInv, TypeOK
<1>1. TypeOK'
  BY <1>u DEF IInv, TypeOK, Label, Resource, Presence
<1>2. CoreInv'
  <2>1. FlagInv'
    BY <1>u DEF IInv, TypeOK, CoreInv, FlagInv, Resource
  <2>2. HeldInv'
    BY <1>u DEF IInv, TypeOK, CoreInv, FlagInv, HeldInv, AgentPods, EvaluationPods, Resource
  <2>3. StrayInv'
    BY <1>u DEF IInv, TypeOK, CoreInv, FlagInv, StrayInv, Stray, Resource
  <2>4. FaultInv'
    BY <1>u DEF IInv, TypeOK, CoreInv, FlagInv, FaultInv, Suspect, Resource
  <2>5. GradeInv'
    BY <1>u DEF IInv, TypeOK, CoreInv, FlagInv, GradeInv, Admitted1, Resource
  <2>6. OutcomeInv'
    BY <1>u DEF IInv, TypeOK, CoreInv, FlagInv, OutcomeInv, Resource
  <2>7. AttestedInv'
    BY <1>u DEF IInv, TypeOK, CoreInv, FlagInv, AttestedInv, Resource
  <2> QED BY <2>1, <2>2, <2>3, <2>4, <2>5, <2>6, <2>7 DEF CoreInv
<1>3. TrailInv'
  BY <1>u DEF IInv, TypeOK, CoreInv, FlagInv, GradeInv, TrailInv, Clear
<1> QED BY <1>1, <1>2, <1>3 DEF IInv

LEMMA FinishStep == ASSUME IInv, Finish PROVE IInv'
<1> DEFINE r == IF ModelFault(record) THEN Spoilt(record) ELSE record
           e == Event("agent.completed",
                      IF r.agent.infra THEN "infrastructure_error" ELSE "completed",
                      snapshot = "taken")
<1>r. /\ r \in Record /\ r.auditError = record.auditError /\ Keeps(r, record)
      /\ record.agent.infra \/ ModelFault(record) => r.agent.infra
      /\ r.agent.infra => record.agent.infra \/ ModelFault(record)
  BY SpoiltFields DEF IInv, TypeOK, Keeps
<1>e. e \in AuditEvent
  BY EventType DEF EventName, EventStatus
<1>a. /\ log' \in AuditTrail /\ record' \in Record /\ fault' \in 0 .. MaxFault
      /\ Tells(r, <<e>>, 0) \/ Loses(r)
  BY <1>r, <1>e, AuditCases, Singleton DEF Finish, Records, IInv
<1>u. /\ pc = "finish" /\ pc' = "reap"
      /\ UNCHANGED <<inside, raised, redactor, task, snapshot, cluster, saved, attested>>
  BY DEF Finish, Records, Goto, disk
<1>c. PICK c \in AuditEvent : c = e
  BY <1>e
<1>f. ~r.agent.infra => Fits(4, c)'
  BY <1>u, <1>c DEF Fits, Event
<1> HIDE DEF r, e
<1> USE DEF Tells, Loses, Keeps
<1>t. Told(3) /\ log' = log \o <<e>> /\ ~r.agent.infra => Told(4)'
  BY <1>c, <1>f, <1>u, Appended, ToldMore DEF IInv, TypeOK
<1>1. TypeOK'
  BY <1>r, <1>a, <1>u DEF IInv, TypeOK, CoreInv, FlagInv, Label
<1>2. CoreInv'
  BY <1>r, <1>a, <1>u DEF IInv, TypeOK, CoreInv, FlagInv, HeldInv, StrayInv, Stray, FaultInv,
     Suspect,
     GradeInv, Admitted1, OutcomeInv, AttestedInv, ModelFault
<1>3. TrailInv'
  BY <1>t, <1>r, <1>a, <1>u DEF IInv, TypeOK, CoreInv, FlagInv, GradeInv, TrailInv, Clear
<1> QED BY <1>1, <1>2, <1>3 DEF IInv

LEMMA ReapStep == ASSUME IInv, Reap PROVE IInv'
<1>p. PICK F \in SUBSET Held({"agent", "proxy", "secret"}), logs \in BOOLEAN :
        LET lost == cluster.proxy = "held" /\ ~logs
            r == IF lost \/ F # {} THEN Spoilt(record) ELSE record
            status == IF F # {} THEN "failed" ELSE "completed"
        IN  /\ Deletes({"agent", "proxy", "secret"}, F)
            /\ Audit(r, <<Event("cleanup.completed", status, FALSE)>>,
                     Fails(lost \/ F # {}))
  BY DEF Reap
<1> DEFINE wrong == (cluster.proxy = "held" /\ ~logs) \/ F # {}
           r == IF wrong THEN Spoilt(record) ELSE record
           e == Event("cleanup.completed", IF F # {} THEN "failed" ELSE "completed", FALSE)
<1>r. /\ r \in Record /\ r.auditError = record.auditError /\ Keeps(r, record)
      /\ record.agent.infra \/ wrong => r.agent.infra
      /\ F # {} => wrong
  BY SpoiltFields DEF IInv, TypeOK, Keeps
<1>n. Fails(wrong) \in Nat /\ (Fails(wrong) > 0 => wrong) /\ (wrong => Fails(wrong) = 1)
  BY DEF Fails
<1>e. e \in AuditEvent
  BY EventType DEF EventName, EventStatus
<1>a. /\ log' \in AuditTrail /\ record' \in Record /\ fault' \in 0 .. MaxFault
      /\ Tells(r, <<e>>, Fails(wrong)) \/ Loses(r)
  BY <1>p, <1>r, <1>n, <1>e, AuditCases, Singleton DEF IInv
<1>u. /\ pc = "reap"
      /\ pc' = IF raised THEN "dead" ELSE IF snapshot = "taken" THEN "evaluate" ELSE "missing"
      /\ UNCHANGED <<inside, raised, redactor, task, snapshot, saved, attested>>
  BY DEF Reap, Goto, disk
<1>c. /\ cluster' \in [Resource -> Presence]
      /\ \A x \in AgentPods : cluster'[x] # "held"
      /\ \A x \in Resource \ AgentPods : cluster'[x] = cluster[x]
      /\ F = {} => \A x \in Resource : cluster'[x] = "stray" => cluster[x] = "stray"
  BY <1>p DEF Deletes, Held, Resource, Presence, AgentPods, IInv, TypeOK
<1>g. PICK g \in AuditEvent : g = e
  BY <1>e
<1>h. ~wrong => g = Event("cleanup.completed", "completed", FALSE)
  BY <1>g
<1>f. ~wrong => Fits(5, g)'
  <2> HIDE DEF wrong
  <2> SUFFICES ASSUME ~wrong PROVE Fits(5, g)'
    OBVIOUS
  <2> QED BY <1>h DEF Fits
<1> HIDE DEF wrong, r, e
<1> USE DEF Tells, Loses, Keeps
<1>t. Told(4) /\ log' = log \o <<e>> /\ ~wrong => Told(5)'
  BY <1>g, <1>f, <1>u, Appended, ToldMore DEF IInv, TypeOK
<1>1. TypeOK'
  BY <1>r, <1>n, <1>a, <1>u, <1>c DEF IInv, TypeOK, CoreInv, FlagInv, Label
<1>2. CoreInv'
  <2>1. FlagInv'
    BY <1>r, <1>n, <1>a, <1>u, <1>c DEF IInv, TypeOK, CoreInv, FlagInv, Resource
  <2>2. HeldInv'
    BY <1>r, <1>n, <1>a, <1>u, <1>c DEF IInv, TypeOK, CoreInv, FlagInv, HeldInv, AgentPods,
       EvaluationPods, Resource
  <2>3. StrayInv'
    BY <1>r, <1>n, <1>a, <1>u, <1>c DEF IInv, TypeOK, CoreInv, FlagInv, StrayInv, Stray,
       Resource
  <2>4. FaultInv'
    BY <1>r, <1>n, <1>a, <1>u, <1>c DEF IInv, TypeOK, CoreInv, FlagInv, FaultInv, Suspect,
       Resource
  <2>5. GradeInv'
    BY <1>r, <1>n, <1>a, <1>u, <1>c DEF IInv, TypeOK, CoreInv, FlagInv, GradeInv, Admitted1,
       Resource
  <2>6. OutcomeInv'
    BY <1>r, <1>n, <1>a, <1>u, <1>c DEF IInv, TypeOK, CoreInv, FlagInv, OutcomeInv, Resource
  <2>7. AttestedInv'
    BY <1>r, <1>n, <1>a, <1>u, <1>c DEF IInv, TypeOK, CoreInv, FlagInv, AttestedInv, Resource
  <2> QED BY <2>1, <2>2, <2>3, <2>4, <2>5, <2>6, <2>7 DEF CoreInv
<1>3. TrailInv'
  BY <1>t, <1>r, <1>n, <1>a, <1>u, <1>c DEF IInv, TypeOK, CoreInv, FlagInv, GradeInv,
     TrailInv, Clear
<1> QED BY <1>1, <1>2, <1>3 DEF IInv

LEMMA MissingStep == ASSUME IInv, Missing PROVE IInv'
<1> DEFINE t == IF snapshot = "unsafe"
                THEN [NoTests EXCEPT !.code = 1, !.integrity = "snapshot"]
                ELSE [NoTests EXCEPT !.infra = TRUE]
<1>r. t \in TestResult /\ t.mode = "cooperative"
  BY DEF NoTests, TestResult, Code, Integrity
<1>u. /\ pc = "missing" /\ pc' = "complete"
      /\ record' = [record EXCEPT !.tests = t]
      /\ UNCHANGED <<inside, raised, redactor, task, snapshot, cluster, log, saved, attested,
                     fault>>
  BY DEF Missing, Steps, Goto, Faults, disk, IInv, TypeOK
<1> HIDE DEF t
<1>1. TypeOK'
  BY <1>r, <1>u DEF IInv, TypeOK, CoreInv, FlagInv, Record, Label
<1>2. CoreInv'
  <2>1. FlagInv'
    BY <1>r, <1>u DEF IInv, TypeOK, CoreInv, FlagInv, Record
  <2>2. HeldInv'
    BY <1>r, <1>u DEF IInv, TypeOK, CoreInv, FlagInv, HeldInv, AgentPods, EvaluationPods, Record
  <2>3. StrayInv'
    BY <1>r, <1>u DEF IInv, TypeOK, CoreInv, FlagInv, StrayInv, Stray, Record
  <2>4. FaultInv'
    BY <1>r, <1>u DEF IInv, TypeOK, CoreInv, FlagInv, FaultInv, Suspect, Record
  <2>5. GradeInv'
    BY <1>r, <1>u DEF IInv, TypeOK, CoreInv, FlagInv, GradeInv, Admitted1, Record
  <2>6. OutcomeInv'
    BY <1>r, <1>u DEF IInv, TypeOK, CoreInv, FlagInv, OutcomeInv, Record
  <2>7. AttestedInv'
    BY <1>r, <1>u DEF IInv, TypeOK, CoreInv, FlagInv, AttestedInv, Record
  <2> QED BY <2>1, <2>2, <2>3, <2>4, <2>5, <2>6, <2>7 DEF CoreInv
<1>3. TrailInv'
  BY <1>r, <1>u DEF IInv, TypeOK, CoreInv, FlagInv, GradeInv, TrailInv, Clear, Record
<1> QED BY <1>1, <1>2, <1>3 DEF IInv

-----------------------------------------------------------------------------
\* The evaluation.

LEMMA EvaluateStep == ASSUME IInv, Evaluate PROVE IInv'
<1> DEFINE e == Plain("evaluation.started")
<1>e. e \in AuditEvent
  BY EventType DEF Plain, EventName, EventStatus
<1>a. /\ log' \in AuditTrail /\ record' \in Record /\ fault' \in 0 .. MaxFault
      /\ Tells(record, <<e>>, 0) \/ Loses(record)
  BY <1>e, AuditCases, Singleton DEF Evaluate, IInv, TypeOK
<1>u. /\ pc = "evaluate" /\ pc' = "screen" /\ inside' \in BOOLEAN
      /\ UNCHANGED <<raised, redactor, task, snapshot, cluster, saved, attested>>
  BY DEF Evaluate, disk
<1>f. Fits(6, e)'
  BY DEF Fits
<1> HIDE DEF e
<1> USE DEF Tells, Loses, Keeps
<1>t. Told(5) /\ log' = log \o <<e>> => Told(6)'
  BY <1>e, <1>f, <1>u, Appended, ToldMore DEF IInv, TypeOK
<1>1. TypeOK'
  BY <1>a, <1>u DEF IInv, TypeOK, Label
<1>2. CoreInv'
  BY <1>a, <1>u DEF IInv, TypeOK, CoreInv, FlagInv, HeldInv, StrayInv, Stray, FaultInv, Suspect,
     GradeInv, Admitted1, OutcomeInv, AttestedInv
<1>3. TrailInv'
  BY <1>t, <1>a, <1>u DEF IInv, TypeOK, CoreInv, FlagInv, GradeInv, TrailInv, Clear
<1> QED BY <1>1, <1>2, <1>3 DEF IInv

LEMMA RejectStep == ASSUME IInv, Reject PROVE IInv'
<1> DEFINE t == [NoTests EXCEPT !.mode = Mode, !.code = 1, !.integrity = "tree"]
           r == [record EXCEPT !.tests = t]
           a == Event("tests.completed", "integrity_rejected", FALSE)
           b == Event("scanners.completed", "skipped", FALSE)
           c == Event("judge.skipped", "integrity", FALSE)
           events == <<a, b, c>>
<1>t. t \in TestResult /\ t.integrity = "tree" /\ ~t.infra
  BY DEF NoTests, TestResult, Code, Integrity, Mode
<1>e. events \in AuditTrail
  <2>1. a \in AuditEvent /\ b \in AuditEvent /\ c \in AuditEvent
    BY EventType DEF EventName, EventStatus
  <2> HIDE DEF a, b, c
  <2> QED BY <2>1 DEF AuditTrail
<1>d. Audit(r, events, 0)
  BY DEF Reject, Records
<1>u. /\ pc = "screen" /\ pc' = "complete"
      /\ UNCHANGED <<inside, raised, redactor, task, snapshot, cluster, saved, attested>>
  BY DEF Reject, Records, Goto, disk
<1> HIDE DEF t, events
<1>r. /\ r \in Record /\ r.tests = t
      /\ Keeps(r, [record EXCEPT !.tests = t]) /\ r.auditError = record.auditError
      /\ r.agent = record.agent /\ r.scans = record.scans /\ r.judge = record.judge
      /\ r.count = record.count /\ r.outcome = record.outcome
      /\ r.attestationError = record.attestationError
  BY <1>t DEF Record, Keeps, IInv, TypeOK
<1> HIDE DEF r
<1>a. /\ log' \in AuditTrail /\ record' \in Record /\ fault' \in 0 .. MaxFault
      /\ Tells(r, events, 0) \/ Loses(r)
  BY <1>d, <1>e, <1>r, AuditCases DEF IInv
<1> USE DEF Tells, Loses, Keeps
<1>f. task.governed /\ fault' > 0 => record'.agent.infra
  BY <1>r, <1>a, <1>u DEF IInv, TypeOK, CoreInv, FlagInv, FaultInv
<1>1. TypeOK'
  BY <1>t, <1>r, <1>a, <1>u DEF IInv, TypeOK, CoreInv, FlagInv, Label
<1>2. CoreInv'
  <2>1. FlagInv'
    BY <1>t, <1>r, <1>a, <1>u DEF IInv, TypeOK, CoreInv, FlagInv
  <2>2. HeldInv'
    BY <1>t, <1>r, <1>a, <1>u DEF IInv, TypeOK, CoreInv, FlagInv, HeldInv, AgentPods,
       EvaluationPods
  <2>3. StrayInv'
    BY <1>t, <1>r, <1>a, <1>u DEF IInv, TypeOK, CoreInv, FlagInv, StrayInv, Stray
  <2>4. FaultInv'
    BY <1>f, <1>u DEF FaultInv, Suspect
  <2>5. GradeInv'
    BY <1>t, <1>r, <1>a, <1>u DEF IInv, TypeOK, CoreInv, FlagInv, GradeInv, Admitted1
  <2>6. OutcomeInv'
    BY <1>t, <1>r, <1>a, <1>u DEF IInv, TypeOK, CoreInv, FlagInv, OutcomeInv
  <2>7. AttestedInv'
    BY <1>t, <1>r, <1>a, <1>u DEF IInv, TypeOK, CoreInv, FlagInv, AttestedInv
  <2> QED BY <2>1, <2>2, <2>3, <2>4, <2>5, <2>6, <2>7 DEF CoreInv
<1>3. TrailInv'
  BY <1>t, <1>r, <1>a, <1>u DEF IInv, TypeOK, CoreInv, FlagInv, GradeInv, TrailInv, Clear
<1> QED BY <1>1, <1>2, <1>3 DEF IInv

LEMMA AdmitStep == ASSUME IInv, Admit PROVE IInv'
<1> DEFINE t == [NoTests EXCEPT !.mode = Mode]
<1>r. t \in TestResult /\ ~t.infra /\ t.integrity # "tree"
  BY NoneAssumption DEF NoTests, TestResult, Code, Mode, Integrity
<1>u. /\ pc = "screen" /\ pc' \in {"submission", "evaluator"}
      /\ record' = [record EXCEPT !.tests = t]
      /\ UNCHANGED <<inside, raised, redactor, task, snapshot, cluster, log, saved, attested,
                     fault>>
  BY DEF Admit, Steps, Goto, Faults, disk, IInv, TypeOK
<1> HIDE DEF t
<1>t. Told(6) => Told(6)'
  BY <1>u, ToldStays
<1>1. TypeOK'
  BY <1>r, <1>u DEF IInv, TypeOK, CoreInv, FlagInv, Record, Label
<1>2. CoreInv'
  <2>1. FlagInv'
    BY <1>r, <1>u DEF IInv, TypeOK, CoreInv, FlagInv, Record
  <2>2. HeldInv'
    BY <1>r, <1>u DEF IInv, TypeOK, CoreInv, FlagInv, HeldInv, AgentPods, EvaluationPods, Record
  <2>3. StrayInv'
    BY <1>r, <1>u DEF IInv, TypeOK, CoreInv, FlagInv, StrayInv, Stray, Record
  <2>4. FaultInv'
    BY <1>r, <1>u DEF IInv, TypeOK, CoreInv, FlagInv, FaultInv, Suspect, Record
  <2>5. GradeInv'
    BY <1>r, <1>u DEF IInv, TypeOK, CoreInv, FlagInv, GradeInv, Admitted1, Record
  <2>6. OutcomeInv'
    BY <1>r, <1>u DEF IInv, TypeOK, CoreInv, FlagInv, OutcomeInv, Record
  <2>7. AttestedInv'
    BY <1>r, <1>u DEF IInv, TypeOK, CoreInv, FlagInv, AttestedInv, Record
  <2> QED BY <2>1, <2>2, <2>3, <2>4, <2>5, <2>6, <2>7 DEF CoreInv
<1>3. TrailInv'
  BY <1>t, <1>r, <1>u DEF IInv, TypeOK, CoreInv, FlagInv, GradeInv, TrailInv, Clear, Record
<1> QED BY <1>1, <1>2, <1>3 DEF IInv

LEMMA ThrowsStep ==
  ASSUME IInv, Throws,
         pc \in {"screen", "diff", "scan", "judge", "challenge", "contain", "persist", "correct"}
  PROVE  IInv'
<1>f. fault' = fault + 1 /\ fault' \in 0 .. MaxFault
  BY TaskAssumption DEF Throws, Faults, IInv, TypeOK
<1>u. /\ pc' \in {"failed", "dead"} /\ inside' = FALSE /\ raised' = FALSE
      /\ UNCHANGED <<redactor, task, snapshot, cluster, record, log, saved, attested>>
  BY DEF Throws, disk
<1>1. TypeOK'
  BY <1>f, <1>u DEF IInv, TypeOK, Label
<1>2. CoreInv'
  <2>1. FlagInv'
    BY <1>f, <1>u DEF IInv, TypeOK, CoreInv, FlagInv
  <2>2. HeldInv'
    BY <1>f, <1>u DEF IInv, TypeOK, CoreInv, FlagInv, HeldInv, AgentPods, EvaluationPods
  <2>3. StrayInv'
    BY <1>f, <1>u DEF IInv, TypeOK, CoreInv, FlagInv, StrayInv, Stray
  <2>4. FaultInv'
    BY <1>f, <1>u DEF IInv, TypeOK, CoreInv, FlagInv, FaultInv, Suspect
  <2>5. GradeInv'
    BY <1>f, <1>u DEF IInv, TypeOK, CoreInv, FlagInv, GradeInv, Admitted1
  <2>6. OutcomeInv'
    BY <1>f, <1>u DEF IInv, TypeOK, CoreInv, FlagInv, OutcomeInv
  <2>7. AttestedInv'
    BY <1>f, <1>u DEF IInv, TypeOK, CoreInv, FlagInv, AttestedInv
  <2> QED BY <2>1, <2>2, <2>3, <2>4, <2>5, <2>6, <2>7 DEF CoreInv
<1>3. TrailInv'
  BY <1>f, <1>u DEF IInv, TypeOK, CoreInv, FlagInv, GradeInv, TrailInv, Clear
<1> QED BY <1>1, <1>2, <1>3 DEF IInv

\* The pods of an evaluation, l being where it goes on and t the result so far.
LEMMA PrepareStep ==
  ASSUME IInv, NEW x \in EvaluationPods, NEW l \in {"evaluator", "link", "tests"},
         NEW t \in TestResult, t.infra = record.tests.infra,
         t.integrity = record.tests.integrity, t.mode = record.tests.mode,
         Prepare(x, l, t)
  PROVE  IInv'
<1> DEFINE failed == [record.tests EXCEPT !.infra = TRUE]
           refused == [record.tests EXCEPT !.code = 1, !.integrity = "archive"]
<1>1. record.tests \in TestResult
  BY DEF IInv, TypeOK, Record
<1>2. /\ failed \in TestResult /\ failed.infra
      /\ failed.integrity = record.tests.integrity /\ failed.mode = record.tests.mode
  BY <1>1 DEF TestResult
<1>3. /\ refused \in TestResult /\ refused.infra = record.tests.infra
      /\ refused.integrity = "archive" /\ refused.mode = record.tests.mode
  BY <1>1 DEF TestResult, Integrity, Code
<1>f. \/ /\ record' = [record EXCEPT !.tests = t] \/ record' = [record EXCEPT !.tests = refused]
         /\ pc' \in {l, "teardown"} /\ Faults(0)
      \/ record' = [record EXCEPT !.tests = failed] /\ pc' = "teardown" /\ Faults(1)
  BY DEF Prepare, Goto
<1>u. /\ pc = x /\ pc' \in {l, "teardown"}
      /\ \/ \E s \in {t, refused} :
              record' = [record EXCEPT !.tests = s] /\ fault' = fault
         \/ /\ record' = [record EXCEPT !.tests = failed] /\ pc' = "teardown"
            /\ fault' = fault + 1 /\ fault' \in 0 .. MaxFault
      /\ UNCHANGED <<inside, raised, redactor, task, snapshot, log, saved, attested>>
  <2> HIDE DEF failed, refused
  <2>1. fault \in 0 .. MaxFault /\ MaxFault \in Nat
    BY TaskAssumption DEF IInv, TypeOK
  <2>2. pc = x /\ UNCHANGED <<inside, raised, redactor, task, snapshot, log, saved, attested>>
    BY DEF Prepare, Goto, disk
  <2> QED BY <1>f, <2>1, <2>2 DEF Faults
<1>c. /\ \E s \in Presence :
           cluster' = [cluster EXCEPT ![x] = s] /\ (s = "stray" => record'.tests.infra /\ fault' > 0)
  BY DEF Prepare, Presence, Faults, IInv, TypeOK, Record, TestResult
<1> HIDE DEF failed, refused
<1>t. Told(6) => Told(6)'
  BY <1>u, ToldStays
<1>s. PICK s \in {t, refused, failed} : record' = [record EXCEPT !.tests = s]
  BY <1>u
<1>g. record'.tests = s /\ record'.agent = record.agent /\ record'.judge = record.judge
  BY <1>s, <1>u DEF Record, IInv, TypeOK
<1>i. record.tests.integrity # "tree" /\ s.integrity # "tree"
  BY <1>2, <1>3, <1>1, <1>u DEF IInv, CoreInv, GradeInv, EvaluationPods
<1>j. /\ s.mode = record.tests.mode /\ (record.tests.infra => s.infra)
  BY <1>2, <1>3
<1>k. Clear' => Clear
  BY <1>g, <1>i, <1>j, <1>u DEF Clear
<1> USE DEF EvaluationPods
<1>4. TypeOK'
  BY <1>1, <1>2, <1>3, <1>u, <1>c DEF IInv, TypeOK, CoreInv, FlagInv, Record, Label,
     Resource, Presence
<1>5. CoreInv'
  <2>1. FlagInv'
    BY <1>2, <1>3, <1>u, <1>c DEF IInv, TypeOK, CoreInv, FlagInv, Record, Resource
  <2>2. HeldInv'
    BY <1>2, <1>3, <1>u, <1>c DEF IInv, TypeOK, CoreInv, FlagInv, HeldInv, AgentPods,
       EvaluationPods, Record, Resource
  <2>3. StrayInv'
    BY <1>2, <1>3, <1>u, <1>c DEF IInv, TypeOK, CoreInv, FlagInv, StrayInv, Stray, Record,
       Resource
  <2>4. FaultInv'
    BY <1>2, <1>3, <1>u, <1>c DEF IInv, TypeOK, CoreInv, FlagInv, FaultInv, Suspect, Record,
       Resource
  <2>5. GradeInv'
    BY <1>g, <1>i, <1>j, <1>u DEF IInv, TypeOK, CoreInv, GradeInv, Admitted1
  <2>6. OutcomeInv'
    BY <1>2, <1>3, <1>u, <1>c DEF IInv, TypeOK, CoreInv, FlagInv, OutcomeInv, Record, Resource
  <2>7. AttestedInv'
    BY <1>2, <1>3, <1>u, <1>c DEF IInv, TypeOK, CoreInv, FlagInv, AttestedInv, Record, Resource
  <2> QED BY <2>1, <2>2, <2>3, <2>4, <2>5, <2>6, <2>7 DEF CoreInv
<1>6. TrailInv'
  BY <1>k, <1>t, <1>u DEF IInv, TrailInv
<1> QED BY <1>4, <1>5, <1>6 DEF IInv

LEMMA TestsStep == ASSUME IInv, Tests PROVE IInv'
<1>0. record \in Record /\ record.tests \in TestResult /\ fault \in 0 .. MaxFault /\ MaxFault \in Nat
  BY TaskAssumption DEF IInv, TypeOK, Record
<1> DEFINE Ran(pass) == [record.tests EXCEPT !.code = IF pass THEN 0 ELSE 1,
                                              !.passed = pass]
           spoils == [record.tests EXCEPT !.code = 1, !.integrity = "archive"]
           lost == [record.tests EXCEPT !.infra = TRUE]
           Tested(x, k) == /\ x \in TestResult /\ (record.tests.infra => x.infra)
                           /\ k \in {0, 1} /\ (k = 1 => x.infra)
                           /\ x.mode = record.tests.mode
                           /\ x.integrity \in {record.tests.integrity, "archive"}
<1>a. ASSUME NEW passed \in BOOLEAN PROVE Tested(Ran(passed), 0)
  <2>1. /\ Ran(passed) \in TestResult /\ Ran(passed).infra = record.tests.infra
        /\ Ran(passed).mode = record.tests.mode
        /\ Ran(passed).integrity = record.tests.integrity
    BY <1>0 DEF TestResult, Code
  <2> HIDE DEF Ran
  <2> QED BY <2>1
<1>b. Tested(spoils, 0)
  <2>1. /\ spoils \in TestResult /\ spoils.infra = record.tests.infra
        /\ spoils.mode = record.tests.mode /\ spoils.integrity = "archive"
    BY <1>0 DEF TestResult, Code, Integrity
  <2> HIDE DEF spoils
  <2> QED BY <2>1
<1>c. Tested(lost, 1)
  BY <1>0 DEF TestResult
<1>d. \/ \E passed \in BOOLEAN : Steps("teardown", [record EXCEPT !.tests = Ran(passed)], 0)
      \/ Steps("teardown", [record EXCEPT !.tests = spoils], 0)
      \/ Steps("teardown", [record EXCEPT !.tests = lost], 1)
  BY <1>0 DEF Tests, Record, TestResult
<1>1. PICK t, n : Tested(t, n) /\ Steps("teardown", [record EXCEPT !.tests = t], n)
  <2> HIDE DEF Ran, spoils, lost, Tested
  <2> QED BY <1>a, <1>b, <1>c, <1>d
<1>r. t \in TestResult
  BY <1>1
<1>u. /\ pc = "tests" /\ pc' = "teardown" /\ record' = [record EXCEPT !.tests = t]
      /\ UNCHANGED <<inside, raised, redactor, task, snapshot, cluster, log, saved, attested>>
  BY <1>1 DEF Tests, Steps, Goto, disk
<1>f. fault' = fault + n /\ fault' \in 0 .. MaxFault
  BY <1>0, <1>1 DEF Steps, Faults
<1>t. Told(6) => Told(6)'
  BY <1>u, ToldStays
<1>k. Clear' => Clear
  <2>1. record.tests.integrity # "tree"
    BY <1>u DEF IInv, CoreInv, GradeInv
  <2> QED BY <1>0, <1>1, <1>u, <2>1 DEF Clear, Record
<1>2. TypeOK'
  BY <1>r, <1>u, <1>f DEF IInv, TypeOK, Label, Record
<1>3. CoreInv'
  BY <1>1, <1>u, <1>f DEF IInv, TypeOK, CoreInv, FlagInv, HeldInv, StrayInv, Stray, FaultInv,
     Suspect,
     GradeInv, Admitted1, OutcomeInv, AttestedInv, Record
<1>4. TrailInv'
  BY <1>k, <1>t, <1>u DEF IInv, TrailInv
<1> QED BY <1>2, <1>3, <1>4 DEF IInv

LEMMA TestsRaiseStep == ASSUME IInv, TestsRaise PROVE IInv'
<1>r. /\ NoTests \in TestResult /\ NoTests.mode = "cooperative"
      /\ NoTests.integrity # "tree"
  BY NoneAssumption DEF NoTests, TestResult, Code, Integrity
<1>u. /\ pc \in {"submission", "evaluator", "link", "tests"} /\ pc' = "teardown"
      /\ raised' = TRUE /\ record' = [record EXCEPT !.tests = NoTests]
      /\ \/ UNCHANGED cluster
         \/ pc \in Resource /\ cluster' = [cluster EXCEPT ![pc] = "stray"]
      /\ UNCHANGED <<inside, redactor, task, snapshot, log, saved, attested>>
  BY DEF TestsRaise, disk
<1>f. fault' = fault + 1 /\ fault' \in 0 .. MaxFault
  BY TaskAssumption DEF TestsRaise, Faults, IInv, TypeOK
<1>1. TypeOK'
  BY <1>r, <1>u, <1>f DEF IInv, TypeOK, Label, Record, Resource, Presence
<1>2. CoreInv'
  <2>1. FlagInv'
    BY <1>r, <1>u, <1>f DEF IInv, TypeOK, CoreInv, FlagInv, Record, Resource
  <2>2. HeldInv'
    BY <1>r, <1>u, <1>f DEF IInv, TypeOK, CoreInv, FlagInv, HeldInv, AgentPods,
       EvaluationPods, Record, Resource
  <2>3. StrayInv'
    BY <1>r, <1>u, <1>f DEF IInv, TypeOK, CoreInv, FlagInv, StrayInv, Stray, Record, Resource
  <2>4. FaultInv'
    BY <1>r, <1>u, <1>f DEF IInv, TypeOK, CoreInv, FlagInv, FaultInv, Suspect, Record, Resource
  <2>5. GradeInv'
    BY <1>r, <1>u, <1>f DEF IInv, TypeOK, CoreInv, FlagInv, GradeInv, Admitted1, Record,
       Resource
  <2>6. OutcomeInv'
    BY <1>r, <1>u, <1>f DEF IInv, TypeOK, CoreInv, FlagInv, OutcomeInv, Record, Resource
  <2>7. AttestedInv'
    BY <1>r, <1>u, <1>f DEF IInv, TypeOK, CoreInv, FlagInv, AttestedInv, Record, Resource
  <2> QED BY <2>1, <2>2, <2>3, <2>4, <2>5, <2>6, <2>7 DEF CoreInv
<1>3. TrailInv'
  BY <1>r, <1>u, <1>f DEF IInv, TypeOK, CoreInv, FlagInv, GradeInv, TrailInv, Clear
<1> QED BY <1>1, <1>2, <1>3 DEF IInv

\* What the deletion of an evaluation's pods leaves.
LEMMA DeletesPods ==
  ASSUME TypeOK, NEW F \in SUBSET Held(EvaluationPods), Deletes(EvaluationPods, F)
  PROVE  /\ cluster' \in [Resource -> Presence]
         /\ \A x \in EvaluationPods : cluster'[x] # "held"
         /\ \A x \in Resource \ EvaluationPods : cluster'[x] = cluster[x]
         /\ F = {} => \A x \in Resource : cluster'[x] = "stray" => cluster[x] = "stray"
BY DEF Deletes, Held, Resource, Presence, EvaluationPods, TypeOK

LEMMA TeardownStep == ASSUME IInv, Teardown PROVE IInv'
<1>p. PICK F \in SUBSET Held(EvaluationPods) :
        /\ Deletes(EvaluationPods, F)
        /\ record' = [record EXCEPT !.tests.infra = @ \/ F # {}]
        /\ Faults(Fails(F # {}))
  BY DEF Teardown
<1>0. record \in Record /\ record.tests \in TestResult /\ fault \in 0 .. MaxFault /\ MaxFault \in Nat
  BY TaskAssumption DEF IInv, TypeOK, Record
<1>c. /\ cluster' \in [Resource -> Presence]
      /\ \A x \in EvaluationPods : cluster'[x] # "held"
      /\ \A x \in Resource \ EvaluationPods : cluster'[x] = cluster[x]
      /\ F = {} => \A x \in Resource : cluster'[x] = "stray" => cluster[x] = "stray"
  BY <1>p, DeletesPods DEF IInv
<1> DEFINE t == [record.tests EXCEPT !.infra = record.tests.infra \/ F # {}]
<1>r. /\ t \in TestResult /\ t.mode = record.tests.mode /\ t.integrity = record.tests.integrity
      /\ t.infra <=> record.tests.infra \/ F # {}
      /\ record' = [record EXCEPT !.tests = t]
  BY <1>0, <1>p DEF TestResult, Record
<1>f. fault' \in 0 .. MaxFault /\ fault' = IF F # {} THEN fault + 1 ELSE fault
  BY <1>0, <1>p DEF Faults, Fails
<1>u. /\ pc = "teardown" /\ ~raised /\ pc' = "report"
      /\ UNCHANGED <<inside, raised, redactor, task, snapshot, log, saved, attested>>
  BY DEF Teardown, Goto, disk
<1> HIDE DEF t
<1>t. Told(6) => Told(6)'
  BY <1>r, <1>u, ToldStays
<1>k. Clear' => Clear
  BY <1>0, <1>r, <1>u DEF Clear, Record
<1>1. TypeOK'
  BY <1>0, <1>c, <1>r, <1>f, <1>u DEF IInv, TypeOK, Label, Record
<1>2. CoreInv'
  <2>1. FlagInv'
    BY <1>c, <1>r, <1>f, <1>u DEF IInv, TypeOK, CoreInv, FlagInv, Record, Resource
  <2>2. HeldInv'
    BY <1>c, <1>r, <1>f, <1>u DEF IInv, TypeOK, CoreInv, FlagInv, HeldInv, AgentPods,
       EvaluationPods, Record, Resource
  <2>3. StrayInv'
    BY <1>c, <1>r, <1>f, <1>u DEF IInv, TypeOK, CoreInv, FlagInv, StrayInv, Stray, Record,
       Resource
  <2>4. FaultInv'
    BY <1>c, <1>r, <1>f, <1>u DEF IInv, TypeOK, CoreInv, FlagInv, FaultInv, Suspect, Record,
       Resource
  <2>5. GradeInv'
    BY <1>c, <1>r, <1>f, <1>u DEF IInv, TypeOK, CoreInv, FlagInv, GradeInv, Admitted1,
       Record, Resource
  <2>6. OutcomeInv'
    BY <1>c, <1>r, <1>f, <1>u DEF IInv, TypeOK, CoreInv, FlagInv, OutcomeInv, Record, Resource
  <2>7. AttestedInv'
    BY <1>c, <1>r, <1>f, <1>u DEF IInv, TypeOK, CoreInv, FlagInv, AttestedInv, Record, Resource
  <2> QED BY <2>1, <2>2, <2>3, <2>4, <2>5, <2>6, <2>7 DEF CoreInv
<1>3. TrailInv'
  BY <1>k, <1>t, <1>u DEF IInv, TrailInv
<1> QED BY <1>1, <1>2, <1>3 DEF IInv

LEMMA TeardownRaisingStep == ASSUME IInv, TeardownRaising PROVE IInv'
<1>p. PICK F \in SUBSET Held(EvaluationPods) :
        Deletes(EvaluationPods, F) /\ Faults(Fails(F # {}))
  BY DEF TeardownRaising
<1>c. /\ cluster' \in [Resource -> Presence]
      /\ \A x \in EvaluationPods : cluster'[x] # "held"
      /\ \A x \in Resource \ EvaluationPods : cluster'[x] = cluster[x]
      /\ F = {} => \A x \in Resource : cluster'[x] = "stray" => cluster[x] = "stray"
  BY <1>p, DeletesPods DEF IInv
<1>f. fault' \in 0 .. MaxFault /\ fault' = IF F # {} THEN fault + 1 ELSE fault
  BY <1>p, TaskAssumption DEF Faults, Fails, IInv, TypeOK
<1>u. /\ pc = "teardown" /\ pc' \in {"failed", "dead"} /\ inside' = FALSE /\ raised' = FALSE
      /\ UNCHANGED <<redactor, task, snapshot, record, log, saved, attested>>
  BY DEF TeardownRaising, disk
<1>1. TypeOK'
  BY <1>c, <1>f, <1>u DEF IInv, TypeOK, Label
<1>2. CoreInv'
  <2>1. FlagInv'
    BY <1>c, <1>f, <1>u DEF IInv, TypeOK, CoreInv, FlagInv, Resource
  <2>2. HeldInv'
    BY <1>c, <1>f, <1>u DEF IInv, TypeOK, CoreInv, FlagInv, HeldInv, AgentPods,
       EvaluationPods, Resource
  <2>3. StrayInv'
    BY <1>c, <1>f, <1>u DEF IInv, TypeOK, CoreInv, FlagInv, StrayInv, Stray, Resource
  <2>4. FaultInv'
    BY <1>c, <1>f, <1>u DEF IInv, TypeOK, CoreInv, FlagInv, FaultInv, Suspect, Resource
  <2>5. GradeInv'
    BY <1>c, <1>f, <1>u DEF IInv, TypeOK, CoreInv, FlagInv, GradeInv, Admitted1, Resource
  <2>6. OutcomeInv'
    BY <1>c, <1>f, <1>u DEF IInv, TypeOK, CoreInv, FlagInv, OutcomeInv, Resource
  <2>7. AttestedInv'
    BY <1>c, <1>f, <1>u DEF IInv, TypeOK, CoreInv, FlagInv, AttestedInv, Resource
  <2> QED BY <2>1, <2>2, <2>3, <2>4, <2>5, <2>6, <2>7 DEF CoreInv
<1>3. TrailInv'
  BY <1>c, <1>f, <1>u DEF IInv, TypeOK, CoreInv, FlagInv, GradeInv, TrailInv, Clear
<1> QED BY <1>1, <1>2, <1>3 DEF IInv

LEMMA TeardownFailsStep == ASSUME IInv, TeardownFails PROVE IInv'
<1>p. PICK x \in Held(EvaluationPods), F \in SUBSET Held(EvaluationPods) :
        /\ x \in F /\ F \cap Behind(x) = {}
        /\ Deletes(EvaluationPods \ Behind(x), F)
  BY DEF TeardownFails
<1>0. /\ fault \in Nat /\ fault' = fault + 2 /\ fault' \in 0 .. MaxFault
      /\ record \in Record /\ record.agent \in AgentResult
  BY TaskAssumption DEF TeardownFails, Faults, IInv, TypeOK, Record
<1>c. /\ cluster' \in [Resource -> Presence]
      /\ x \in EvaluationPods /\ cluster'[x] = "stray"
      /\ \A y \in EvaluationPods : cluster'[y] = "held" => y \in Behind(x)
      /\ \A y \in Resource \ EvaluationPods : cluster'[y] = cluster[y]
  <2>1. Behind(x) \subseteq EvaluationPods /\ x \notin Behind(x)
    BY DEF Behind, EvaluationPods, Held
  <2> QED BY <1>p, <2>1 DEF Deletes, Held, Resource, Presence, EvaluationPods, IInv, TypeOK
<1>r. /\ NoTests \in TestResult
      /\ record' = [record EXCEPT !.tests = NoTests] /\ record' \in Record
  BY <1>0, NoneAssumption DEF TeardownFails, NoTests, TestResult, Code, Record
<1>u. /\ pc = "teardown" /\ pc' \in {"failed", "dead"} /\ inside' = FALSE /\ raised' = FALSE
      /\ UNCHANGED <<redactor, task, snapshot, log, saved, attested>>
  BY DEF TeardownFails, disk
<1>1. TypeOK'
  <2>1. record'.auditError => record'.agent.infra
    BY <1>0, <1>r DEF IInv, TypeOK, Record
  <2> QED BY <1>0, <1>c, <1>r, <1>u, <2>1 DEF IInv, TypeOK, Label
<1>2. CoreInv'
  <2>1. FlagInv'
    BY <1>0, <1>r, <1>u DEF IInv, TypeOK, CoreInv, FlagInv, Record
  <2>2. HeldInv'
    BY <1>0, <1>c, <1>u DEF IInv, TypeOK, CoreInv, HeldInv, AgentPods, EvaluationPods,
       Resource
  <2>3. StrayInv'
    BY <1>0, <1>u DEF StrayInv, Stray
  <2>4. FaultInv'
    BY <1>0, <1>u DEF FaultInv
  <2>5. GradeInv'
    BY <1>0, <1>r, <1>u DEF IInv, TypeOK, CoreInv, FlagInv, GradeInv, Admitted1, Record, NoTests
  <2>6. OutcomeInv'
    BY <1>0, <1>r, <1>u DEF IInv, TypeOK, CoreInv, FlagInv, OutcomeInv, Record
  <2>7. AttestedInv'
    BY <1>u DEF IInv, CoreInv, AttestedInv
  <2> QED BY <2>1, <2>2, <2>3, <2>4, <2>5, <2>6, <2>7 DEF CoreInv
<1>3. TrailInv'
  BY <1>u DEF TrailInv, Clear
<1> QED BY <1>1, <1>2, <1>3 DEF IInv

LEMMA ReportStep == ASSUME IInv, Report PROVE IInv'
<1> DEFINE t == [record.tests EXCEPT !.infra = record.tests.infra \/ record.agent.infra]
           r == [record EXCEPT !.tests = t]
           e == Event("tests.completed",
                      IF t.infra THEN "infrastructure_error" ELSE "completed", Resolved(t))
<1>0. record \in Record /\ record.tests \in TestResult
  BY DEF IInv, TypeOK, Record
<1>t. /\ t \in TestResult /\ t.mode = record.tests.mode /\ t.integrity = record.tests.integrity
      /\ t.infra <=> record.tests.infra \/ record.agent.infra
  BY <1>0 DEF TestResult, Record, AgentResult
<1>d. Audit(r, <<e>>, 0)
  BY <1>0 DEF Report, Records, Record, TestResult
<1>e. e \in AuditEvent
  <2> HIDE DEF t
  <2>1. Resolved(t) \in BOOLEAN
    BY <1>t DEF Resolved, TestResult
  <2> QED BY <2>1, EventType DEF EventName, EventStatus
<1>u. /\ pc = "report" /\ pc' = "diff"
      /\ UNCHANGED <<inside, raised, redactor, task, snapshot, cluster, saved, attested>>
  BY DEF Report, Records, Goto, disk
<1>c. PICK c \in AuditEvent : c = e
  BY <1>e
<1>g. c.type = "tests.completed" /\ c.flag = Resolved(t) /\ (~t.infra => c.status = "completed")
  BY <1>c DEF Event
<1> HIDE DEF t, e
<1>r. /\ r \in Record /\ r.tests = t /\ r.auditError = record.auditError
      /\ r.agent = record.agent /\ r.scans = record.scans /\ r.judge = record.judge
      /\ r.count = record.count /\ r.outcome = record.outcome
      /\ r.attestationError = record.attestationError
  BY <1>0, <1>t DEF Record
<1> HIDE DEF r
<1>a. /\ log' \in AuditTrail /\ record' \in Record /\ fault' \in 0 .. MaxFault
      /\ Tells(r, <<c>>, 0) \/ Loses(r)
  BY <1>c, <1>d, <1>r, AuditCases, Singleton DEF IInv
<1> USE DEF Tells, Loses, Keeps
<1>k. Clear' => Clear
  BY <1>t, <1>r, <1>a, <1>u DEF Clear
<1>n. Told(6) /\ log' = log \o <<c>> /\ ~t.infra => Told(7)'
  <2>1. ~t.infra => Fits(7, c)'
    BY <1>g, <1>r, <1>a DEF Fits, TestsFit
  <2> QED BY <1>u, <2>1, Appended, ToldMore DEF IInv, TypeOK
<1>1. TypeOK'
  BY <1>r, <1>a, <1>u DEF IInv, TypeOK, CoreInv, FlagInv, Label
<1>2. CoreInv'
  <2>1. FlagInv'
    BY <1>t, <1>r, <1>a, <1>u DEF IInv, TypeOK, CoreInv, FlagInv
  <2>2. HeldInv'
    BY <1>t, <1>r, <1>a, <1>u DEF IInv, TypeOK, CoreInv, FlagInv, HeldInv, AgentPods,
       EvaluationPods
  <2>3. StrayInv'
    BY <1>t, <1>r, <1>a, <1>u DEF IInv, TypeOK, CoreInv, FlagInv, StrayInv, Stray
  <2>4. FaultInv'
    BY <1>t, <1>r, <1>a, <1>u DEF IInv, TypeOK, CoreInv, FlagInv, FaultInv, Suspect
  <2>5. GradeInv'
    BY <1>t, <1>r, <1>a, <1>u DEF IInv, TypeOK, CoreInv, FlagInv, GradeInv, Admitted1
  <2>6. OutcomeInv'
    BY <1>t, <1>r, <1>a, <1>u DEF IInv, TypeOK, CoreInv, FlagInv, OutcomeInv
  <2>7. AttestedInv'
    BY <1>t, <1>r, <1>a, <1>u DEF IInv, TypeOK, CoreInv, FlagInv, AttestedInv
  <2> QED BY <2>1, <2>2, <2>3, <2>4, <2>5, <2>6, <2>7 DEF CoreInv
<1>3. TrailInv'
  <2>1. task.governed /\ Clear' => Told(7)'
    BY <1>k, <1>n, <1>r, <1>a, <1>u DEF IInv, TrailInv, CoreInv, FlagInv, Clear
  <2> QED BY <1>u, <2>1 DEF TrailInv
<1> QED BY <1>1, <1>2, <1>3 DEF IInv

LEMMA DiffStep == ASSUME IInv, Diff PROVE IInv'
<1>0. record \in Record /\ record.tests \in TestResult
  BY DEF IInv, TypeOK, Record
<1>p. PICK complete \in BOOLEAN :
        Steps("scan", [record EXCEPT !.diff = complete,
                          !.tests.integrity = IF complete \/ @ # None THEN @ ELSE "diff"], 0)
  BY DEF Diff
<1> DEFINE t == [record.tests EXCEPT !.integrity =
                   IF complete \/ record.tests.integrity # None
                   THEN record.tests.integrity ELSE "diff"]
<1>t. /\ t \in TestResult /\ t.mode = record.tests.mode /\ t.infra = record.tests.infra
      /\ t = record.tests \/ t.integrity = "diff"
      /\ t.integrity # "tree" => record.tests.integrity # "tree"
  BY <1>0, NoneAssumption DEF TestResult, Integrity
<1>u. /\ pc = "diff" /\ pc' = "scan"
      /\ record' = [record EXCEPT !.diff = complete, !.tests = t]
      /\ UNCHANGED <<inside, raised, redactor, task, snapshot, cluster, log, saved, attested,
                     fault>>
  BY <1>0, <1>p DEF Diff, Steps, Goto, Faults, disk, IInv, TypeOK, Record, TestResult
<1> HIDE DEF t
<1>r. /\ record' \in Record /\ record'.tests = t /\ record'.auditError = record.auditError
      /\ record'.agent = record.agent /\ record'.scans = record.scans
      /\ record'.judge = record.judge
      /\ record'.count = record.count /\ record'.outcome = record.outcome
      /\ record'.attestationError = record.attestationError
  BY <1>0, <1>t, <1>u DEF Record
<1>k. Clear' => Clear
  BY <1>t, <1>r, <1>u DEF Clear
<1>n. Told(7) => Told(7)'
  BY <1>t, <1>r, <1>u, ToldStays
<1>1. TypeOK'
  BY <1>r, <1>u DEF IInv, TypeOK, Label
<1>2. CoreInv'
  <2>1. FlagInv'
    BY <1>t, <1>r, <1>u DEF IInv, TypeOK, CoreInv, FlagInv
  <2>2. HeldInv'
    BY <1>t, <1>r, <1>u DEF IInv, TypeOK, CoreInv, FlagInv, HeldInv, AgentPods, EvaluationPods
  <2>3. StrayInv'
    BY <1>t, <1>r, <1>u DEF IInv, TypeOK, CoreInv, FlagInv, StrayInv, Stray
  <2>4. FaultInv'
    BY <1>t, <1>r, <1>u DEF IInv, TypeOK, CoreInv, FlagInv, FaultInv, Suspect
  <2>5. GradeInv'
    BY <1>t, <1>r, <1>u DEF IInv, TypeOK, CoreInv, FlagInv, GradeInv, Admitted1
  <2>6. OutcomeInv'
    BY <1>t, <1>r, <1>u DEF IInv, TypeOK, CoreInv, FlagInv, OutcomeInv
  <2>7. AttestedInv'
    BY <1>t, <1>r, <1>u DEF IInv, TypeOK, CoreInv, FlagInv, AttestedInv
  <2> QED BY <2>1, <2>2, <2>3, <2>4, <2>5, <2>6, <2>7 DEF CoreInv
<1>3. TrailInv'
  BY <1>k, <1>n, <1>u DEF IInv, TrailInv
<1> QED BY <1>1, <1>2, <1>3 DEF IInv

\* A record that is to be scanned, or judged, but for what a grader has said; n says
\* whether the grader failed.
Same(r, s) ==
  /\ r.tests = s.tests /\ r.agent = s.agent
  /\ r.auditError = s.auditError /\ r.count = s.count /\ r.outcome = s.outcome
  /\ r.attestationError = s.attestationError
Scanned(r, n) ==
  /\ Same(r, record) /\ r.judge = record.judge
  /\ n = 1 => ScannerFault(r, TRUE)
Judged(r, n, e) ==
  /\ Same(r, record) /\ r.scans = record.scans
  /\ n = 1 => task.judge /\ r.judge # "scored"
  /\ e.type \in {"judge.completed", "judge.skipped"}
  /\ ~task.judge => e = Event("judge.skipped", "disabled", FALSE)
  /\ task.judge /\ r.judge = "scored" => e = Event("judge.completed", "completed", TRUE)

LEMMA ScanStep == ASSUME IInv, Scan PROVE IInv'
<1>0. record \in Record
  BY DEF IInv, TypeOK
<1> DEFINE R(phases) == [record EXCEPT !.scans = phases]
           e == Event("scanners.completed", IF task.scans THEN "completed" ELSE "skipped", FALSE)
<1>s. ASSUME NEW s \in Phases, task.scans
      PROVE  /\ R(s) \in Record /\ Fails(~s.assured) \in {0, 1}
             /\ Scanned(R(s), Fails(~s.assured))
  <2>1. R(s) \in Record /\ R(s).scans = s
    BY <1>0 DEF Record
  <2>2. Fails(~s.assured) = 1 => ScannerFault(R(s), TRUE)
    BY <1>s, <2>1 DEF Fails, ScannerFault
  <2> QED BY <1>0, <2>1, <2>2 DEF Record, Fails, Scanned, Same
<1>w. Scanned(record, 0)
  BY <1>0 DEF Scanned, Same
<1>e. e \in AuditEvent
  BY EventType DEF EventName, EventStatus
<1>d. \/ ~task.scans /\ Audit(record, <<e>>, 0)
      \/ task.scans /\ \E s \in Phases : Audit(R(s), <<e>>, Fails(~s.assured))
  BY DEF Scan, Records
<1>u. /\ pc = "scan" /\ pc' = "judge"
      /\ UNCHANGED <<inside, raised, redactor, task, snapshot, cluster, saved, attested>>
  BY DEF Scan, Records, Goto, disk
<1>c. PICK c \in AuditEvent : c = e
  BY <1>e
<1>f. Fits(8, c)'
  BY <1>c, <1>u DEF Fits
<1> HIDE DEF e, R
<1>p. PICK r \in Record, n \in {0, 1} : Scanned(r, n) /\ Audit(r, <<c>>, n)
  <2>1. CASE ~task.scans /\ Audit(record, <<e>>, 0)
    BY <1>0, <1>w, <1>c, <2>1
  <2>2. ASSUME NEW s \in Phases, task.scans, Audit(R(s), <<e>>, Fails(~s.assured))
        PROVE  \E r \in Record, n \in {0, 1} : Scanned(r, n) /\ Audit(r, <<c>>, n)
    <3> DEFINE q == R(s)
               k == Fails(~s.assured)
    <3>1. q \in Record /\ k \in {0, 1} /\ Scanned(q, k)
      BY <1>s, <2>2
    <3>2. Audit(q, <<c>>, k)
      BY <1>c, <2>2
    <3> HIDE DEF q, k
    <3> QED BY <3>1, <3>2
  <2> QED BY <1>d, <2>1, <2>2
<1>r. Scanned(r, n) /\ n \in Nat
  BY <1>p
<1>a. /\ log' \in AuditTrail /\ record' \in Record /\ fault' \in 0 .. MaxFault
      /\ Tells(r, <<c>>, n) \/ Loses(r)
  BY <1>c, <1>p, <1>r, AuditCases, Singleton DEF IInv
<1> USE DEF Tells, Loses, Keeps, Scanned, Same
<1>k. Clear' => Clear
  BY <1>r, <1>a, <1>u DEF Clear
<1>n. Told(7) /\ log' = log \o <<c>> => Told(8)'
  BY <1>u, <1>f, <1>r, <1>a, Appended, ToldMore DEF IInv, TypeOK
<1>1. TypeOK'
  BY <1>r, <1>a, <1>u DEF IInv, TypeOK, CoreInv, FlagInv, Label
<1>2. CoreInv'
  <2>1. FlagInv'
    BY <1>r, <1>a, <1>u DEF IInv, TypeOK, CoreInv, FlagInv
  <2>2. HeldInv'
    BY <1>r, <1>a, <1>u DEF IInv, TypeOK, CoreInv, FlagInv, HeldInv, AgentPods, EvaluationPods
  <2>3. StrayInv'
    BY <1>r, <1>a, <1>u DEF IInv, TypeOK, CoreInv, FlagInv, StrayInv, Stray
  <2>4. FaultInv'
    BY <1>r, <1>a, <1>u DEF IInv, TypeOK, CoreInv, FlagInv, FaultInv, Suspect, ScannerFault
  <2>5. GradeInv'
    BY <1>r, <1>a, <1>u DEF IInv, TypeOK, CoreInv, FlagInv, GradeInv, Admitted1
  <2>6. OutcomeInv'
    BY <1>r, <1>a, <1>u DEF IInv, TypeOK, CoreInv, FlagInv, OutcomeInv
  <2>7. AttestedInv'
    BY <1>r, <1>a, <1>u DEF IInv, TypeOK, CoreInv, FlagInv, AttestedInv
  <2> QED BY <2>1, <2>2, <2>3, <2>4, <2>5, <2>6, <2>7 DEF CoreInv
<1>3. TrailInv'
  BY <1>k, <1>n, <1>r, <1>a, <1>u DEF IInv, TrailInv, CoreInv, FlagInv, Clear
<1> QED BY <1>1, <1>2, <1>3 DEF IInv

LEMMA JudgeStep == ASSUME IInv, Judge PROVE IInv'
<1>0. record \in Record /\ pc = "judge" /\ record.judge = "none"
  BY DEF IInv, TypeOK, CoreInv, GradeInv, Judge
<1> DEFINE R(given) == [record EXCEPT !.judge = IF given THEN "scored" ELSE "unscored"]
<1>s. ASSUME NEW scored \in BOOLEAN, task.judge
      PROVE  /\ R(scored) \in Record /\ Fails(~scored) \in {0, 1}
             /\ Event("judge.completed", "completed", scored) \in AuditEvent
             /\ Judged(R(scored), Fails(~scored), Event("judge.completed", "completed", scored))
  <2>1. R(scored) \in Record /\ R(scored).judge = IF scored THEN "scored" ELSE "unscored"
    BY <1>0 DEF Record
  <2>2. /\ R(scored).tests = record.tests /\ R(scored).auditError = record.auditError
        /\ R(scored).agent = record.agent /\ R(scored).scans = record.scans
        /\ R(scored).count = record.count /\ R(scored).outcome = record.outcome
        /\ R(scored).attestationError = record.attestationError
    BY <1>0 DEF Record
  <2>3. /\ Event("judge.completed", "completed", scored) \in AuditEvent
        /\ Event("judge.completed", "completed", scored).type = "judge.completed"
    BY EventType DEF Event, EventName, EventStatus
  <2> HIDE DEF R
  <2>4. Same(R(scored), record) /\ R(scored).scans = record.scans
    BY <2>2 DEF Same
  <2>5. R(scored).judge = "scored" => scored
    BY <2>1
  <2>6. scored => Event("judge.completed", "completed", scored) = Event("judge.completed", "completed", TRUE)
    OBVIOUS
  <2>7. Fails(~scored) \in {0, 1} /\ (Fails(~scored) = 1 => ~scored)
    BY DEF Fails
  <2>8. ~scored => R(scored).judge # "scored"
    BY <2>1
  <2> DEFINE q == R(scored)
             k == Fails(~scored)
             d == Event("judge.completed", "completed", scored)
  <2> HIDE DEF q, k, d
  <2>9. Judged(q, k, d)
    BY <1>s, <2>3, <2>4, <2>5, <2>6, <2>7, <2>8 DEF Judged, q, k, d
  <2> QED BY <2>1, <2>3, <2>7, <2>9 DEF q, k, d
<1>w. ASSUME NEW status \in {"secret_screen_incomplete", "disabled"},
             task.judge \/ status = "disabled"
      PROVE  /\ Event("judge.skipped", status, FALSE) \in AuditEvent
             /\ Judged(record, 0, Event("judge.skipped", status, FALSE))
  <2>1. /\ Event("judge.skipped", status, FALSE) \in AuditEvent
        /\ Event("judge.skipped", status, FALSE).type = "judge.skipped"
    BY EventType DEF Event, EventName, EventStatus
  <2>2. Same(record, record) /\ record.scans = record.scans
    BY DEF Same
  <2>3. task.judge => record.judge # "scored"
    BY <1>0
  <2>4. ~task.judge => Event("judge.skipped", status, FALSE) = Event("judge.skipped", "disabled", FALSE)
    BY <1>w
  <2> DEFINE d == Event("judge.skipped", status, FALSE)
  <2>5. Judged(record, 0, d)
    <3>1. 0 # 1
      OBVIOUS
    <3>2. d.type \in {"judge.completed", "judge.skipped"}
      BY <2>1
    <3>3. ~task.judge => d = Event("judge.skipped", "disabled", FALSE)
      BY <2>4
    <3> HIDE DEF d
    <3> QED BY <2>2, <2>3, <3>1, <3>2, <3>3 DEF Judged
  <2> QED BY <2>1, <2>5
<1>p. PICK r \in Record, n \in {0, 1}, c \in AuditEvent : Judged(r, n, c) /\ Audit(r, <<c>>, n)
  <2> HIDE DEF R
  <2>1. \/ /\ task.judge
           /\ \E scored \in BOOLEAN :
                Audit(R(scored), <<Event("judge.completed", "completed", scored)>>, Fails(~scored))
        \/ /\ task.judge
           /\ Audit(record, <<Event("judge.skipped", "secret_screen_incomplete", FALSE)>>, 0)
        \/ Audit(record, <<Event("judge.skipped", "disabled", FALSE)>>, 0)
    BY DEF Judge, Records, R
  <2>2. ASSUME NEW scored \in BOOLEAN, task.judge,
               Audit(R(scored), <<Event("judge.completed", "completed", scored)>>, Fails(~scored))
        PROVE  \E r \in Record, n \in {0, 1}, c \in AuditEvent : Judged(r, n, c) /\ Audit(r, <<c>>, n)
    <3> DEFINE q == R(scored)
               k == Fails(~scored)
               d == Event("judge.completed", "completed", scored)
    <3>1. /\ q \in Record /\ k \in {0, 1} /\ d \in AuditEvent /\ Judged(q, k, d)
          /\ Audit(q, <<d>>, k)
      BY <1>s, <2>2
    <3> HIDE DEF q, k, d
    <3> QED BY <3>1
  <2>3. ASSUME NEW status \in {"secret_screen_incomplete", "disabled"},
               task.judge \/ status = "disabled",
               Audit(record, <<Event("judge.skipped", status, FALSE)>>, 0)
        PROVE  \E r \in Record, n \in {0, 1}, c \in AuditEvent : Judged(r, n, c) /\ Audit(r, <<c>>, n)
    <3> DEFINE d == Event("judge.skipped", status, FALSE)
    <3>1. d \in AuditEvent /\ Judged(record, 0, d) /\ Audit(record, <<d>>, 0)
      BY <1>w, <2>3
    <3> HIDE DEF d
    <3> QED BY <1>0, <3>1
  <2> QED BY <2>1, <2>2, <2>3
<1>u. /\ pc = "judge" /\ pc' = "challenge"
      /\ UNCHANGED <<inside, raised, redactor, task, snapshot, cluster, saved, attested>>
  BY DEF Judge, Records, Goto, disk
<1>r. Judged(r, n, c) /\ n \in Nat
  BY <1>p
<1> HIDE DEF R
<1>a. /\ log' \in AuditTrail /\ record' \in Record /\ fault' \in 0 .. MaxFault
      /\ Tells(r, <<c>>, n) \/ Loses(r)
  BY <1>p, <1>r, AuditCases, Singleton DEF IInv
<1> USE DEF Tells, Loses, Keeps, Judged, Same
<1>k. Clear' => Clear
  BY <1>r, <1>a, <1>u DEF Clear
<1>n. Told(8) /\ log' = log \o <<c>> => Told(9)'
  <2>1. record'.judge = r.judge /\ task' = task
    BY <1>a, <1>u
  <2>2. JudgeFits(c)'
    BY <1>r, <2>1 DEF JudgeFits
  <2>3. Fits(9, c)'
    BY <2>2 DEF Fits
  <2> QED BY <1>u, <2>3, <1>r, <1>a, Appended, ToldMore DEF IInv, TypeOK
<1>1. TypeOK'
  BY <1>r, <1>a, <1>u DEF IInv, TypeOK, CoreInv, FlagInv, Label
<1>2. CoreInv'
  <2>1. FlagInv'
    BY <1>r, <1>a, <1>u DEF IInv, TypeOK, CoreInv, FlagInv
  <2>2. HeldInv'
    BY <1>r, <1>a, <1>u DEF IInv, TypeOK, CoreInv, FlagInv, HeldInv, AgentPods, EvaluationPods
  <2>3. StrayInv'
    BY <1>r, <1>a, <1>u DEF IInv, TypeOK, CoreInv, FlagInv, StrayInv, Stray
  <2>4. FaultInv'
    BY <1>r, <1>a, <1>u DEF IInv, TypeOK, CoreInv, FlagInv, FaultInv, Suspect, ScannerFault
  <2>5. GradeInv'
    BY <1>r, <1>a, <1>u DEF IInv, TypeOK, CoreInv, FlagInv, GradeInv, Admitted1
  <2>6. OutcomeInv'
    BY <1>r, <1>a, <1>u DEF IInv, TypeOK, CoreInv, FlagInv, OutcomeInv
  <2>7. AttestedInv'
    BY <1>r, <1>a, <1>u DEF IInv, TypeOK, CoreInv, FlagInv, AttestedInv
  <2> QED BY <2>1, <2>2, <2>3, <2>4, <2>5, <2>6, <2>7 DEF CoreInv
<1>3. TrailInv'
  BY <1>k, <1>n, <1>r, <1>a, <1>u DEF IInv, TrailInv, CoreInv, FlagInv, Clear
<1> QED BY <1>1, <1>2, <1>3 DEF IInv

LEMMA ChallengeStep == ASSUME IInv, Challenge PROVE IInv'
<1>0. record \in Record
  BY DEF IInv, TypeOK
<1>p. PICK result \in {"none", "passed", "failed"} :
        Steps("complete", [record EXCEPT !.challenge = result], 0)
  BY DEF Challenge
<1>u. /\ pc = "challenge" /\ pc' = "complete"
      /\ UNCHANGED <<inside, raised, redactor, task, snapshot, cluster, log, saved, attested,
                     fault>>
  BY <1>p DEF Challenge, Steps, Goto, Faults, disk, IInv, TypeOK
<1>r. /\ record' \in Record /\ Same(record', record)
      /\ record'.judge = record.judge /\ record'.scans = record.scans
  BY <1>0, <1>p DEF Steps, Record, Same
<1> USE DEF Same
<1>k. Clear' => Clear
  BY <1>r, <1>u DEF Clear
<1>n. Told(9) => Told(9)'
  BY <1>r, <1>u, ToldStays
<1>1. TypeOK'
  BY <1>r, <1>u DEF IInv, TypeOK, Label
<1>2. CoreInv'
  <2>1. FlagInv'
    BY <1>r, <1>u DEF IInv, TypeOK, CoreInv, FlagInv
  <2>2. HeldInv'
    BY <1>r, <1>u DEF IInv, TypeOK, CoreInv, FlagInv, HeldInv, AgentPods, EvaluationPods
  <2>3. StrayInv'
    BY <1>r, <1>u DEF IInv, TypeOK, CoreInv, FlagInv, StrayInv, Stray
  <2>4. FaultInv'
    BY <1>r, <1>u DEF IInv, TypeOK, CoreInv, FlagInv, FaultInv, Suspect, ScannerFault
  <2>5. GradeInv'
    BY <1>r, <1>u DEF IInv, TypeOK, CoreInv, FlagInv, GradeInv, Admitted1
  <2>6. OutcomeInv'
    BY <1>r, <1>u DEF IInv, TypeOK, CoreInv, FlagInv, OutcomeInv
  <2>7. AttestedInv'
    BY <1>r, <1>u DEF IInv, TypeOK, CoreInv, FlagInv, AttestedInv
  <2> QED BY <2>1, <2>2, <2>3, <2>4, <2>5, <2>6, <2>7 DEF CoreInv
<1>3. TrailInv'
  BY <1>k, <1>n, <1>u DEF IInv, TrailInv
<1> QED BY <1>1, <1>2, <1>3 DEF IInv

LEMMA FailedStep == ASSUME IInv, Failed PROVE IInv'
<1> DEFINE t == [record.tests EXCEPT !.infra = TRUE]
           r == [record EXCEPT !.tests = t]
           e == Plain("evaluation.failed")
<1>0. record \in Record /\ record.tests \in TestResult
  BY DEF IInv, TypeOK, Record
<1>t. t \in TestResult /\ t.infra /\ t.mode = record.tests.mode
  BY <1>0 DEF TestResult
<1>d. Audit(r, <<e>>, 0)
  BY <1>0 DEF Failed, Records, Record
<1>e. e \in AuditEvent
  BY EventType DEF Plain, EventName, EventStatus
<1>u. /\ pc = "failed" /\ pc' = "complete"
      /\ UNCHANGED <<inside, raised, redactor, task, snapshot, cluster, saved, attested>>
  BY DEF Failed, Records, Goto, disk
<1> HIDE DEF t, e
<1>r. /\ r \in Record /\ r.tests = t /\ r.auditError = record.auditError
      /\ r.agent = record.agent /\ r.scans = record.scans /\ r.judge = record.judge
      /\ r.count = record.count /\ r.outcome = record.outcome
      /\ r.attestationError = record.attestationError
  BY <1>0, <1>t DEF Record
<1> HIDE DEF r
<1>a. /\ log' \in AuditTrail /\ record' \in Record /\ fault' \in 0 .. MaxFault
      /\ Tells(r, <<e>>, 0) \/ Loses(r)
  BY <1>d, <1>e, <1>r, AuditCases, Singleton DEF IInv
<1> USE DEF Tells, Loses, Keeps
<1>1. TypeOK'
  BY <1>t, <1>r, <1>a, <1>u DEF IInv, TypeOK, CoreInv, FlagInv, Label
<1>2. CoreInv'
  <2>1. FlagInv'
    BY <1>t, <1>r, <1>a, <1>u DEF IInv, TypeOK, CoreInv, FlagInv
  <2>2. HeldInv'
    BY <1>t, <1>r, <1>a, <1>u DEF IInv, TypeOK, CoreInv, FlagInv, HeldInv, AgentPods,
       EvaluationPods
  <2>3. StrayInv'
    BY <1>t, <1>r, <1>a, <1>u DEF IInv, TypeOK, CoreInv, FlagInv, StrayInv, Stray
  <2>4. FaultInv'
    BY <1>t, <1>r, <1>a, <1>u DEF IInv, TypeOK, CoreInv, FlagInv, FaultInv, Suspect
  <2>5. GradeInv'
    BY <1>t, <1>r, <1>a, <1>u DEF IInv, TypeOK, CoreInv, FlagInv, GradeInv, Admitted1
  <2>6. OutcomeInv'
    BY <1>t, <1>r, <1>a, <1>u DEF IInv, TypeOK, CoreInv, FlagInv, OutcomeInv
  <2>7. AttestedInv'
    BY <1>t, <1>r, <1>a, <1>u DEF IInv, TypeOK, CoreInv, FlagInv, AttestedInv
  <2> QED BY <2>1, <2>2, <2>3, <2>4, <2>5, <2>6, <2>7 DEF CoreInv
<1>3. TrailInv'
  BY <1>t, <1>r, <1>a, <1>u DEF IInv, TypeOK, CoreInv, FlagInv, GradeInv, TrailInv, Clear
<1> QED BY <1>1, <1>2, <1>3 DEF IInv

-----------------------------------------------------------------------------
\* The record.

\* The outcome is of the evidence alone.
LEMMA OutcomeOf ==
  ASSUME NEW r, NEW s, r.agent = s.agent, r.tests = s.tests, r.judge = s.judge,
         r.scans = s.scans, r.challenge = s.challenge
  PROVE  Outcome(r) = Outcome(s)
BY DEF Outcome, Gates

LEMMA Decided ==
  ASSUME NEW r \in Record
  PROVE  /\ Decide(r) \in Record /\ Decide(r).outcome = Outcome(r)
         /\ Outcome(r) \in Status /\ Outcome(Decide(r)) = Outcome(r)
         /\ Decide(r).agent = r.agent /\ Decide(r).tests = r.tests
         /\ Decide(r).scans = r.scans /\ Decide(r).judge = r.judge
         /\ Decide(r).count = r.count /\ Decide(r).auditError = r.auditError
         /\ Decide(r).attestationError = r.attestationError
<1>1. Outcome(r) \in Status
  BY DEF Outcome, Status
<1> DEFINE o == Outcome(r)
<1>2. Decide(r) = [r EXCEPT !.outcome = o]
  BY DEF Decide
<1> HIDE DEF o
<1>3. /\ Decide(r) \in Record /\ Decide(r).outcome = o
      /\ Decide(r).agent = r.agent /\ Decide(r).tests = r.tests
      /\ Decide(r).scans = r.scans /\ Decide(r).judge = r.judge
      /\ Decide(r).count = r.count /\ Decide(r).auditError = r.auditError
      /\ Decide(r).attestationError = r.attestationError
      /\ Decide(r).challenge = r.challenge
  BY <1>1, <1>2 DEF Record, o
<1>4. Outcome(Decide(r)) = Outcome(r)
  BY <1>3, OutcomeOf
<1> QED BY <1>1, <1>3, <1>4 DEF o

LEMMA UnattestedFields ==
  ASSUME NEW r \in Record
  PROVE  /\ Unattested(r) \in Record /\ Unattested(r).agent.infra
         /\ Unattested(r).attestationError
         /\ Unattested(r).outcome = Outcome(Unattested(r))
         /\ Unattested(r).agent.wall = r.agent.wall
         /\ Unattested(r).agent.model = r.agent.model
         /\ Unattested(r).tests = r.tests
         /\ Unattested(r).count = r.count /\ Unattested(r).judge = r.judge
<1> DEFINE s == Spoilt(r)
           u == [s EXCEPT !.attestationError = TRUE]
<1>1. s \in Record /\ s.agent.infra /\ Keeps(s, r)
  BY SpoiltFields
<1> HIDE DEF s
<1>2. /\ u \in Record /\ u.agent = s.agent /\ u.tests = s.tests /\ u.count = s.count
      /\ u.judge = s.judge /\ u.attestationError
  BY <1>1 DEF Record
<1>3. Unattested(r) = Decide(u)
  BY DEF Unattested, s
<1> HIDE DEF u
<1> QED BY <1>1, <1>2, <1>3, Decided DEF Keeps

LEMMA CompleteStep == ASSUME IInv, Complete PROVE IInv'
<1>0. record \in Record
  BY DEF IInv, TypeOK
<1>p. PICK tree \in {"admitted", "changed"} :
        LET wrong == task.governed /\ EvidenceFault(record, tree)
            r == Decide(IF wrong THEN Spoilt(record) ELSE record)
        IN  /\ Audit(r, <<Event("outcome.decided", r.outcome, FALSE),
                          Event("run.completed", r.outcome, FALSE)>>,
                     Fails(tree = "changed"))
            /\ tree = "changed" => task.governed
  BY DEF Complete
<1> DEFINE wrong == task.governed /\ EvidenceFault(record, tree)
           q == IF wrong THEN Spoilt(record) ELSE record
           r == Decide(q)
           d == Event("outcome.decided", r.outcome, FALSE)
           e == Event("run.completed", r.outcome, FALSE)
           events == <<d, e>>
           n == Fails(tree = "changed")
<1>1. Audit(r, events, n) /\ (tree = "changed" => task.governed)
  BY <1>p
<1>2. /\ tree = "changed" => wrong
      /\ task.governed /\ task.judge /\ record.judge # "scored" => wrong
      /\ task.governed /\ ScannerFault(record, TRUE) => wrong
      /\ task.governed /\ ImageFault(record) => wrong
  BY <1>1 DEF EvidenceFault
<1>n. n \in Nat /\ (n > 0 => wrong)
  BY <1>2 DEF Fails
<1>q. /\ q \in Record /\ Keeps(q, record) /\ q.auditError = record.auditError
      /\ record.agent.infra \/ wrong => q.agent.infra
      /\ ~wrong => q.agent = record.agent
  BY <1>0, SpoiltFields DEF Keeps
<1> HIDE DEF wrong, q, n
<1>r. /\ r \in Record /\ Keeps(r, [record EXCEPT !.outcome = r.outcome])
      /\ r.auditError = record.auditError
      /\ record.agent.infra \/ wrong => r.agent.infra
      /\ ~wrong => r.agent = record.agent
      /\ r.outcome = Outcome(r) /\ r.outcome \in Status
  <2>1. /\ r \in Record /\ r.agent = q.agent /\ r.tests = q.tests /\ r.scans = q.scans
        /\ r.judge = q.judge /\ r.count = q.count /\ r.auditError = q.auditError
        /\ r.attestationError = q.attestationError
        /\ r.outcome = Outcome(r) /\ r.outcome \in Status
    BY <1>q, Decided
  <2>2. r.diff = q.diff /\ r.challenge = q.challenge
    BY <1>q DEF Decide, Record
  <2> HIDE DEF r
  <2> QED BY <1>0, <1>q, <2>1, <2>2 DEF Keeps, Record
<1> HIDE DEF r
<1>e. d \in AuditEvent /\ e \in AuditEvent
  BY <1>r, EventType DEF EventName, EventStatus, Status
<1>b. PICK a \in AuditEvent, b \in AuditEvent : a = d /\ b = e
  BY <1>e
<1>f. /\ a.type = "outcome.decided" /\ a.status = r.outcome
      /\ b.type = "run.completed" /\ b.status = r.outcome
  BY <1>b DEF Event
<1>g. events = <<a, b>>
  BY <1>b
<1> HIDE DEF d, e, events
<1>t. events \in AuditTrail
  BY <1>g DEF AuditTrail
<1>a. /\ log' \in AuditTrail /\ record' \in Record /\ fault' \in 0 .. MaxFault
      /\ Tells(r, events, n) \/ Loses(r)
  BY <1>1, <1>n, <1>r, <1>t, AuditCases DEF IInv
<1>u. /\ pc = "complete" /\ pc' = "close"
      /\ UNCHANGED <<inside, raised, redactor, task, snapshot, cluster, saved, attested>>
  BY DEF Complete, Goto, disk
<1>k. /\ record'.tests = record.tests /\ record'.judge = record.judge
      /\ record'.scans = record.scans /\ record'.count = record.count
      /\ record'.agent.wall = record.agent.wall /\ record'.agent.model = record.agent.model
      /\ record'.agent.digest = record.agent.digest
      /\ record'.attestationError = record.attestationError
      /\ record.agent.infra \/ wrong => record'.agent.infra
      /\ record'.auditError => record'.agent.infra
      /\ record'.auditError \/ record'.outcome = Outcome(record')
  BY <1>0, <1>r, <1>a DEF Tells, Loses, Keeps, Record, IInv, TypeOK
<1>h. Told(9) /\ log' = log \o events /\ record'.outcome = r.outcome => Told(11)'
  <2>1. record'.outcome = r.outcome => Fits(10, a)' /\ Fits(11, b)'
    BY <1>f DEF Fits
  <2> QED BY <1>g, <1>k, <1>u, <2>1, ToldTwo DEF IInv, TypeOK
<1>v. Outcome(record)' = Outcome(record') /\ ScannerFault(record, TRUE)' = ScannerFault(record', TRUE)
  BY <1>u DEF Outcome, Gates, ScannerFault
<1>3. TypeOK'
  BY <1>a, <1>k, <1>u DEF IInv, TypeOK, Label
<1>4. CoreInv'
  <2>0. fault' >= fault /\ fault' \in Nat
    BY <1>a, <1>n, TaskAssumption DEF Tells, Loses, IInv, TypeOK
  <2>1. FlagInv' /\ HeldInv'
    <3>1. FlagInv'
      BY <1>k, <1>u DEF IInv, CoreInv, FlagInv
    <3>2. HeldInv'
      BY <1>u, <2>0 DEF IInv, TypeOK, CoreInv, HeldInv, AgentPods, EvaluationPods
    <3> QED BY <3>1, <3>2
  <2>5. StrayInv'
    <3>1. Stray' => Stray /\ fault' > 0
      BY <1>a, <1>u, <2>0 DEF IInv, TypeOK, CoreInv, StrayInv, Stray
    <3> QED BY <1>k, <1>u, <3>1 DEF IInv, CoreInv, StrayInv
  <2>2. FaultInv'
    <3>1. task.governed /\ fault > 0 => record'.agent.infra \/ record.tests.infra
      BY <1>2, <1>k, <1>u DEF IInv, CoreInv, FlagInv, FaultInv, Suspect
    <3>2. fault' > 0 => fault > 0 \/ record'.agent.infra
      BY <1>a, <1>k, <1>n DEF Tells, Loses, IInv, TypeOK
    <3> QED BY <1>k, <1>u, <3>1, <3>2 DEF FaultInv
  <2>3. GradeInv'
    <3>1. ~Infra(record') /\ task.governed =>
            /\ ~ImageFault(record') /\ ~ScannerFault(record', TRUE)
            /\ task.judge => record'.judge = "scored"
      BY <1>2, <1>k DEF ImageFault, ScannerFault, Evaluated
    <3>2. /\ snapshot = "taken" => record.agent.wall
          /\ record.tests.mode = "isolated" => snapshot = "taken"
          /\ task.governed /\ ~Admitted1(record) => record.agent.infra
      BY <1>u DEF IInv, CoreInv, GradeInv
    <3> QED BY <1>k, <1>u, <1>v, <3>1, <3>2 DEF GradeInv, Admitted1
  <2>4. OutcomeInv'
    BY <1>k, <1>u, <1>v DEF IInv, CoreInv, OutcomeInv
  <2>6. AttestedInv'
    BY <1>a, <1>k, <1>u, <2>0 DEF IInv, TypeOK, CoreInv, AttestedInv
  <2> QED BY <2>1, <2>2, <2>3, <2>4, <2>5, <2>6 DEF CoreInv
<1>5. TrailInv'
  <2>1. Clear' => Clear /\ ~record'.agent.infra
    BY <1>k, <1>u DEF Clear
  <2>2. task.governed /\ ~record'.agent.infra => log' = log \o events /\ record'.outcome = r.outcome
    BY <1>a, <1>k DEF Tells, Loses
  <2> QED BY <1>h, <1>u, <2>1, <2>2 DEF IInv, TrailInv
<1> QED BY <1>3, <1>4, <1>5 DEF IInv

LEMMA CloseStep == ASSUME IInv, Close PROVE IInv'
<1>0. record \in Record /\ record.agent \in AgentResult
  BY DEF IInv, TypeOK, Record
<1>p. PICK fails \in {FALSE, task.governed} :
        LET c == IF task.governed /\ record.count = None THEN Len(log) ELSE record.count
            r == [record EXCEPT !.count = c, !.auditError = @ \/ fails,
                                !.agent.infra = @ \/ fails]
        IN Steps("contain", IF r.auditError THEN Decide(r) ELSE r, Fails(fails))
  BY DEF Close
<1>b. fails \in BOOLEAN
  BY TaskAssumption DEF IInv, TypeOK
<1> DEFINE c == IF task.governed /\ record.count = None THEN Len(log) ELSE record.count
           a == [record.agent EXCEPT !.infra = record.agent.infra \/ fails]
           r == [record EXCEPT !.count = c, !.auditError = record.auditError \/ fails,
                               !.agent = a]
           s == IF r.auditError THEN Decide(r) ELSE r
<1>c. /\ c \in Nat \cup {None}
      /\ task.governed => c = Len(log) \/ record.count # None
      /\ c = None => record.count = None
  BY <1>0 DEF IInv, TypeOK, Record, AuditTrail
<1>s. a \in AgentResult /\ (a.infra <=> record.agent.infra \/ fails)
      /\ a.wall = record.agent.wall /\ a.model = record.agent.model
      /\ a.digest = record.agent.digest /\ a.code = record.agent.code
  BY <1>0, <1>b DEF AgentResult
<1>1. Steps("contain", s, Fails(fails))
  BY <1>0, <1>p DEF Record, AgentResult
<1> HIDE DEF c, a
<1>r. /\ r \in Record /\ r.agent = a /\ r.count = c /\ r.tests = record.tests
      /\ (r.auditError <=> record.auditError \/ fails)
      /\ r.scans = record.scans /\ r.judge = record.judge /\ r.challenge = record.challenge
      /\ r.attestationError = record.attestationError /\ r.outcome = record.outcome
  BY <1>0, <1>b, <1>c, <1>s DEF Record
<1> HIDE DEF r
<1>d. ~r.auditError => record.outcome = Outcome(r)
  <2> SUFFICES ASSUME ~r.auditError PROVE record.outcome = Outcome(r)
    OBVIOUS
  <2>1. record.outcome = Outcome(record) /\ ~fails
    BY <1>1, <1>r DEF IInv, CoreInv, OutcomeInv, Close
  <2> QED BY <1>r, <1>s, <2>1 DEF Outcome, Gates
<1>t. /\ s \in Record /\ s.agent = a /\ s.count = c /\ s.tests = record.tests
      /\ (s.auditError <=> record.auditError \/ fails)
      /\ s.scans = record.scans /\ s.judge = record.judge
      /\ s.attestationError = record.attestationError /\ s.outcome = Outcome(s)
      /\ ~fails /\ ~record.auditError => s.outcome = record.outcome
  <2>1. CASE r.auditError
    BY <1>r, <2>1, Decided
  <2>2. CASE ~r.auditError
    BY <1>r, <1>d, <2>2
  <2> QED BY <2>1, <2>2
<1> HIDE DEF s
<1>u. /\ pc = "close" /\ pc' = "contain" /\ record' = s
      /\ UNCHANGED <<inside, raised, redactor, task, snapshot, cluster, log, saved, attested>>
  BY <1>1 DEF Close, Steps, Goto, disk
<1>f. /\ fault' \in 0 .. MaxFault /\ fault' >= fault
      /\ fault' > fault => s.agent.infra
  BY <1>1, <1>s, <1>t, TaskAssumption DEF Steps, Faults, Fails, IInv, TypeOK
<1>v. Outcome(record)' = Outcome(record') /\ ScannerFault(record, TRUE)' = ScannerFault(record', TRUE)
  BY <1>u DEF Outcome, Gates, ScannerFault
<1>k. /\ record'.tests = record.tests /\ record'.judge = record.judge
      /\ record'.scans = record.scans /\ record'.count = c
      /\ record'.agent.wall = record.agent.wall /\ record'.agent.model = record.agent.model
      /\ record'.agent.digest = record.agent.digest
      /\ record'.attestationError = record.attestationError
      /\ (record'.agent.infra <=> record.agent.infra \/ fails)
      /\ record'.auditError => record'.agent.infra
      /\ record'.outcome = Outcome(record')
      /\ ~record'.agent.infra => record'.outcome = record.outcome
  BY <1>s, <1>t, <1>u DEF IInv, TypeOK
<1>3. TypeOK'
  BY <1>f, <1>k, <1>t, <1>u DEF IInv, TypeOK, Label
<1>4. CoreInv'
  <2>1. FlagInv' /\ HeldInv'
    <3>1. FlagInv'
      BY <1>k, <1>u DEF IInv, CoreInv, FlagInv
    <3>2. HeldInv'
      BY <1>f, <1>u DEF IInv, TypeOK, CoreInv, HeldInv, AgentPods, EvaluationPods
    <3> QED BY <3>1, <3>2
  <2>2. StrayInv'
    <3>1. Stray' => Stray /\ fault' > 0
      BY <1>f, <1>u DEF IInv, TypeOK, CoreInv, StrayInv, Stray
    <3> QED BY <1>k, <1>u, <3>1 DEF IInv, CoreInv, StrayInv
  <2>3. FaultInv'
    <3>1. task.governed /\ fault > 0 => record.agent.infra \/ record.tests.infra
      BY <1>u DEF IInv, CoreInv, FaultInv
    <3>2. fault' > 0 => fault > 0 \/ record'.agent.infra
      BY <1>f, <1>u DEF IInv, TypeOK
    <3> QED BY <1>k, <1>u, <3>1, <3>2 DEF FaultInv
  <2>4. GradeInv'
    <3>1. ~Infra(record') /\ task.governed =>
            /\ ~ImageFault(record') /\ ~ScannerFault(record', TRUE)
            /\ task.judge => record'.judge = "scored"
      BY <1>k, <1>u DEF IInv, CoreInv, GradeInv, ImageFault, ScannerFault, Evaluated
    <3>2. /\ snapshot = "taken" => record.agent.wall
          /\ record.tests.mode = "isolated" => snapshot = "taken"
          /\ task.governed /\ ~Admitted1(record) => record.agent.infra
      BY <1>u DEF IInv, CoreInv, GradeInv
    <3> QED BY <1>k, <1>u, <1>v, <3>1, <3>2 DEF GradeInv, Admitted1
  <2>5. OutcomeInv'
    BY <1>c, <1>k, <1>u, <1>v DEF IInv, CoreInv, OutcomeInv
  <2>6. AttestedInv'
    <3>1. attested # None => Infra(record) /\ Infra(saved)
      BY <1>u DEF IInv, CoreInv, AttestedInv
    <3>2. attested # None => \A x \in Resource : cluster[x] = "held" => fault' >= 2
      BY <1>f, <1>u DEF IInv, TypeOK, CoreInv, AttestedInv
    <3> QED BY <1>k, <1>u, <3>1, <3>2 DEF AttestedInv
  <2> QED BY <2>1, <2>2, <2>3, <2>4, <2>5, <2>6 DEF CoreInv
<1>5. TrailInv'
  <2>1. Clear' => Clear /\ ~record'.agent.infra
    BY <1>k, <1>u DEF Clear
  <2>2. ~record'.agent.infra /\ Told(11) => Told(11)'
    BY <1>k, <1>u, ToldStays
  <2> QED BY <1>u, <2>1, <2>2 DEF IInv, TrailInv
<1> QED BY <1>3, <1>4, <1>5 DEF IInv

LEMMA ContainStep == ASSUME IInv, Contain PROVE IInv'
<1> DEFINE s == Unattested(record)
<1>s. /\ s \in Record /\ s.agent.infra /\ s.attestationError
      /\ s.agent.wall = record.agent.wall /\ s.agent.model = record.agent.model
      /\ s.tests = record.tests /\ s.count = record.count /\ s.judge = record.judge
      /\ s.outcome = Outcome(s)
  BY UnattestedFields DEF IInv, TypeOK
<1>u. /\ pc = "contain" /\ pc' = "persist"
      /\ UNCHANGED <<inside, raised, redactor, task, snapshot, cluster, log, saved, attested>>
  BY DEF Contain, Steps, Goto, disk
<1>f. \/ record' = record /\ fault' = fault
      \/ record' = s /\ fault' = fault + 1 /\ fault' \in 0 .. MaxFault
  BY TaskAssumption DEF Contain, Steps, Faults, IInv, TypeOK
<1> HIDE DEF s
<1>v. Outcome(record)' = Outcome(record') /\ ScannerFault(record, TRUE)' = ScannerFault(record', TRUE)
  BY <1>u DEF Outcome, Gates, ScannerFault
<1>n. Told(11) /\ record' = record => Told(11)'
  BY <1>u, ToldStays
<1>1. TypeOK'
  BY <1>s, <1>u, <1>f DEF IInv, TypeOK, Label
<1>2. CoreInv'
  <2>1. FlagInv'
    BY <1>s, <1>u, <1>f, <1>v DEF IInv, TypeOK, CoreInv, FlagInv
  <2>2. HeldInv'
    BY <1>s, <1>u, <1>f, <1>v DEF IInv, TypeOK, CoreInv, FlagInv, HeldInv, AgentPods,
       EvaluationPods
  <2>3. StrayInv'
    BY <1>s, <1>u, <1>f, <1>v DEF IInv, TypeOK, CoreInv, FlagInv, StrayInv, Stray
  <2>4. FaultInv'
    BY <1>s, <1>u, <1>f, <1>v DEF IInv, TypeOK, CoreInv, FlagInv, FaultInv, Suspect
  <2>5. GradeInv'
    BY <1>s, <1>u, <1>f, <1>v DEF IInv, TypeOK, CoreInv, FlagInv, GradeInv, Admitted1
  <2>6. OutcomeInv'
    BY <1>s, <1>u, <1>f, <1>v DEF IInv, TypeOK, CoreInv, FlagInv, OutcomeInv
  <2>7. AttestedInv'
    BY <1>s, <1>u, <1>f, <1>v DEF IInv, TypeOK, CoreInv, FlagInv, AttestedInv
  <2> QED BY <2>1, <2>2, <2>3, <2>4, <2>5, <2>6, <2>7 DEF CoreInv
<1>3. TrailInv'
  BY <1>n, <1>s, <1>u, <1>f DEF IInv, TrailInv, Clear
<1> QED BY <1>1, <1>2, <1>3 DEF IInv

LEMMA PersistStep == ASSUME IInv, Persist PROVE IInv'
<1>u. /\ pc = "persist"
      /\ \/ saved' = record /\ pc' = "attest" /\ fault' = fault
         \/ saved' = saved /\ pc' = "correct" /\ fault' = fault + 1 /\ fault' \in 0 .. MaxFault
      /\ UNCHANGED <<inside, raised, redactor, task, snapshot, cluster, record, log, attested>>
  BY TaskAssumption DEF Persist, Goto, Faults, IInv, TypeOK
<1>v. Outcome(record)' = Outcome(record') /\ ScannerFault(record, TRUE)' = ScannerFault(record', TRUE)
  BY <1>u DEF Outcome, Gates, ScannerFault
<1>n. Told(11) => Told(11)'
  BY <1>u, ToldStays
<1>1. TypeOK'
  BY <1>u DEF IInv, TypeOK, Label
<1>2. CoreInv'
  <2>1. FlagInv'
    BY <1>u, <1>v DEF IInv, TypeOK, CoreInv, FlagInv
  <2>2. HeldInv'
    BY <1>u, <1>v DEF IInv, TypeOK, CoreInv, FlagInv, HeldInv, AgentPods, EvaluationPods
  <2>3. StrayInv'
    BY <1>u, <1>v DEF IInv, TypeOK, CoreInv, FlagInv, StrayInv, Stray
  <2>4. FaultInv'
    BY <1>u, <1>v DEF IInv, TypeOK, CoreInv, FlagInv, FaultInv, Suspect
  <2>5. GradeInv'
    BY <1>u, <1>v DEF IInv, TypeOK, CoreInv, FlagInv, GradeInv, Admitted1
  <2>6. OutcomeInv'
    BY <1>u, <1>v DEF IInv, TypeOK, CoreInv, FlagInv, OutcomeInv
  <2>7. AttestedInv'
    BY <1>u, <1>v DEF IInv, TypeOK, CoreInv, FlagInv, AttestedInv
  <2> QED BY <2>1, <2>2, <2>3, <2>4, <2>5, <2>6, <2>7 DEF CoreInv
<1>3. TrailInv'
  BY <1>n, <1>u DEF IInv, TrailInv, Clear
<1> QED BY <1>1, <1>2, <1>3 DEF IInv

LEMMA AttestStep == ASSUME IInv, Attest PROVE IInv'
<1> DEFINE bound == [record |-> record, log |-> log]
<1>p. PICK fails \in BOOLEAN :
        /\ attested' = IF fails THEN attested ELSE [record |-> record, log |-> log]
        /\ Faults(Fails(fails))
        /\ Goto(IF record.attestationError \/ (fails /\ task.governed)
                THEN "correct" ELSE "done")
  BY DEF Attest
<1>b. bound \in Attestation
  BY DEF Attestation, IInv, TypeOK
<1>f. fault' \in 0 .. MaxFault /\ fault' = IF fails THEN fault + 1 ELSE fault
  BY <1>p, TaskAssumption DEF Faults, Fails, IInv, TypeOK
<1>a. attested' = IF fails THEN attested ELSE bound
  BY <1>p
<1>u. /\ pc = "attest" /\ pc' = IF record.attestationError \/ (fails /\ task.governed)
                                THEN "correct" ELSE "done"
      /\ UNCHANGED <<inside, raised, redactor, task, snapshot, cluster, record, log, saved>>
  BY <1>p DEF Attest, Goto
<1>v. Outcome(record)' = Outcome(record') /\ ScannerFault(record, TRUE)' = ScannerFault(record', TRUE)
  BY <1>u DEF Outcome, Gates, ScannerFault
<1>n. Told(11) => Told(11)'
  BY <1>u, ToldStays
<1>h. \A x \in Resource : cluster[x] = "held" => fault >= 2 /\ fault' >= 2
  BY <1>f, <1>u DEF IInv, TypeOK, CoreInv, HeldInv, AgentPods, EvaluationPods, Resource
<1>1. TypeOK'
  <2> HIDE DEF bound
  <2> QED BY <1>a, <1>b, <1>f, <1>u DEF IInv, TypeOK, Label
<1>2. CoreInv'
  <2>1. FlagInv'
    BY <1>u DEF IInv, CoreInv, FlagInv
  <2>6. HeldInv'
    BY <1>f, <1>u DEF IInv, TypeOK, CoreInv, HeldInv, AgentPods, EvaluationPods
  <2>2. StrayInv'
    BY <1>f, <1>u DEF IInv, TypeOK, CoreInv, StrayInv, Stray
  <2>3. FaultInv' /\ GradeInv'
    BY <1>u, <1>v DEF IInv, CoreInv, FaultInv, GradeInv, Admitted1
  <2>4. OutcomeInv'
    BY <1>a, <1>u, <1>v DEF IInv, CoreInv, OutcomeInv
  <2>5. AttestedInv'
    <3>1. saved = record /\ (record.attestationError => record.agent.infra)
      BY <1>u DEF IInv, CoreInv, OutcomeInv, FlagInv
    <3>2. task.governed /\ ~Infra(record) => fault = 0 /\ (task.judge => record.judge = "scored")
      BY <1>u DEF IInv, TypeOK, CoreInv, FaultInv, GradeInv
    <3>3. CASE fails
      BY <1>a, <1>h, <1>u, <3>1, <3>3 DEF IInv, CoreInv, AttestedInv
    <3>4. CASE ~fails
      BY <1>f, <1>h, <1>u, <3>1, <3>2, <3>4 DEF AttestedInv, IInv, TypeOK
    <3> QED BY <3>3, <3>4
  <2> QED BY <2>1, <2>2, <2>3, <2>4, <2>5, <2>6 DEF CoreInv
<1>3. TrailInv'
  BY <1>n, <1>u DEF IInv, TrailInv, Clear
<1> QED BY <1>1, <1>2, <1>3 DEF IInv

LEMMA CorrectStep == ASSUME IInv, Correct PROVE IInv'
<1> DEFINE s == Unattested(record)
<1>s. /\ s \in Record /\ s.agent.infra /\ s.attestationError
      /\ s.agent.wall = record.agent.wall /\ s.agent.model = record.agent.model
      /\ s.tests = record.tests /\ s.count = record.count /\ s.judge = record.judge
      /\ s.outcome = Outcome(s)
  BY UnattestedFields DEF IInv, TypeOK
<1>u. /\ pc = "correct" /\ pc' = "done" /\ record' = s /\ saved' = s
      /\ UNCHANGED <<inside, raised, redactor, task, snapshot, cluster, log, attested, fault>>
  BY DEF Correct, Goto
<1> HIDE DEF s
<1>v. Outcome(record)' = Outcome(record') /\ ScannerFault(record, TRUE)' = ScannerFault(record', TRUE)
  BY <1>u DEF Outcome, Gates, ScannerFault
<1>1. TypeOK'
  BY <1>s, <1>u DEF IInv, TypeOK, Label
<1>2. CoreInv'
  <2>1. FlagInv'
    BY <1>s, <1>u, <1>v DEF IInv, TypeOK, CoreInv, FlagInv
  <2>2. HeldInv'
    BY <1>s, <1>u, <1>v DEF IInv, TypeOK, CoreInv, FlagInv, HeldInv, AgentPods, EvaluationPods
  <2>3. StrayInv'
    BY <1>s, <1>u, <1>v DEF IInv, TypeOK, CoreInv, FlagInv, StrayInv, Stray
  <2>4. FaultInv'
    BY <1>s, <1>u, <1>v DEF IInv, TypeOK, CoreInv, FlagInv, FaultInv, Suspect
  <2>5. GradeInv'
    BY <1>s, <1>u, <1>v DEF IInv, TypeOK, CoreInv, FlagInv, GradeInv, Admitted1
  <2>6. OutcomeInv'
    BY <1>s, <1>u, <1>v DEF IInv, TypeOK, CoreInv, FlagInv, OutcomeInv
  <2>7. AttestedInv'
    BY <1>s, <1>u, <1>v DEF IInv, TypeOK, CoreInv, FlagInv, AttestedInv
  <2> QED BY <2>1, <2>2, <2>3, <2>4, <2>5, <2>6, <2>7 DEF CoreInv
<1>3. TrailInv'
  BY <1>s, <1>u DEF IInv, TypeOK, CoreInv, FlagInv, GradeInv, TrailInv, Clear
<1> QED BY <1>1, <1>2, <1>3 DEF IInv

LEMMA CrashStep == ASSUME IInv, Crash PROVE IInv'
<1>u. /\ pc \notin End /\ pc' = "killed"
      /\ UNCHANGED <<inside, raised, redactor, task, snapshot, cluster, record, log, saved,
                     attested, fault>>
  BY DEF Crash, disk
<1>1. TypeOK'
  BY <1>u DEF IInv, TypeOK, Label
<1>2. CoreInv'
  <2>1. FlagInv'
    BY <1>u DEF IInv, TypeOK, CoreInv, FlagInv, End
  <2>2. HeldInv'
    BY <1>u DEF IInv, TypeOK, CoreInv, FlagInv, HeldInv, AgentPods, EvaluationPods, End
  <2>3. StrayInv'
    BY <1>u DEF IInv, TypeOK, CoreInv, FlagInv, StrayInv, Stray, End
  <2>4. FaultInv'
    BY <1>u DEF IInv, TypeOK, CoreInv, FlagInv, FaultInv, Suspect, End
  <2>5. GradeInv'
    BY <1>u DEF IInv, TypeOK, CoreInv, FlagInv, GradeInv, Admitted1, End
  <2>6. OutcomeInv'
    BY <1>u DEF IInv, TypeOK, CoreInv, FlagInv, OutcomeInv, End
  <2>7. AttestedInv'
    BY <1>u DEF IInv, TypeOK, CoreInv, FlagInv, AttestedInv, End
  <2> QED BY <2>1, <2>2, <2>3, <2>4, <2>5, <2>6, <2>7 DEF CoreInv
<1>3. TrailInv'
  BY <1>u DEF IInv, TypeOK, CoreInv, FlagInv, GradeInv, TrailInv, Clear
<1> QED BY <1>1, <1>2, <1>3 DEF IInv

LEMMA StutterStep == ASSUME IInv, UNCHANGED vars PROVE IInv'
<1>u. UNCHANGED <<pc, inside, raised, redactor, task, snapshot, cluster, record, log, saved,
                  attested, fault>>
  BY DEF vars, process, disk
<1>v. Outcome(record)' = Outcome(record') /\ ScannerFault(record, TRUE)' = ScannerFault(record', TRUE)
  BY <1>u DEF Outcome, Gates, ScannerFault
<1>n. \A n \in 0 .. 11 : Told(n) => Told(n)'
  BY <1>u, ToldStays
<1>1. TypeOK'
  BY <1>u DEF IInv, TypeOK, Label
<1>2. CoreInv'
  <2>1. FlagInv'
    BY <1>u, <1>v DEF IInv, TypeOK, CoreInv, FlagInv
  <2>2. HeldInv'
    BY <1>u, <1>v DEF IInv, TypeOK, CoreInv, FlagInv, HeldInv, AgentPods, EvaluationPods
  <2>3. StrayInv'
    BY <1>u, <1>v DEF IInv, TypeOK, CoreInv, FlagInv, StrayInv, Stray
  <2>4. FaultInv'
    BY <1>u, <1>v DEF IInv, TypeOK, CoreInv, FlagInv, FaultInv, Suspect
  <2>5. GradeInv'
    BY <1>u, <1>v DEF IInv, TypeOK, CoreInv, FlagInv, GradeInv, Admitted1
  <2>6. OutcomeInv'
    BY <1>u, <1>v DEF IInv, TypeOK, CoreInv, FlagInv, OutcomeInv
  <2>7. AttestedInv'
    BY <1>u, <1>v DEF IInv, TypeOK, CoreInv, FlagInv, AttestedInv
  <2> QED BY <2>1, <2>2, <2>3, <2>4, <2>5, <2>6, <2>7 DEF CoreInv
<1>3. TrailInv'
  BY <1>n, <1>u DEF IInv, TrailInv, Clear
<1> QED BY <1>1, <1>2, <1>3 DEF IInv

-----------------------------------------------------------------------------
\* The invariant.

LEMMA Initial == ASSUME Init PROVE IInv
<1> USE TaskAssumption
<1>0. /\ NoTests \in TestResult
      /\ [infra |-> FALSE, digest |-> FALSE, wall |-> FALSE,
          model |-> "none", code |-> None] \in AgentResult
  BY DEF NoTests, TestResult, AgentResult, Code
<1>r. record \in Record
  BY <1>0 DEF Init, Record
<1>1. TypeOK
  <2>1. task \in Task /\ pc \in Label /\ log \in AuditTrail
    BY DEF Init, Label, AuditTrail
  <2>2. cluster \in [Resource -> Presence]
    BY DEF Init, Presence
  <2>3. /\ inside \in BOOLEAN /\ raised \in BOOLEAN /\ redactor \in BOOLEAN
    BY DEF Init
  <2>4. /\ snapshot \in {"none", "unsafe", "taken"}
        /\ saved \in Record \cup {None} /\ attested \in Attestation \cup {None}
        /\ fault \in 0 .. MaxFault
    BY DEF Init
  <2>5. ~record.auditError
    BY DEF Init
  <2> QED BY <1>r, <2>1, <2>2, <2>3, <2>4, <2>5 DEF TypeOK
<1>2. /\ pc \in {"request", "start"} /\ ~record.agent.infra /\ ~record.auditError /\ ~raised
      /\ ~record.attestationError /\ record.judge = "none" /\ record.count = None
      /\ snapshot = "none" /\ record.tests.mode = "cooperative" /\ ~record.agent.wall
      /\ fault = 0 /\ attested = None /\ log = <<>>
      /\ (task.governed => pc = "request")
      /\ \A x \in Resource : cluster[x] = "absent"
  BY DEF Init, NoTests
<1>3. CoreInv
  <2>1. FlagInv /\ GradeInv
    BY <1>2 DEF FlagInv, GradeInv, Admitted1
  <2>2. HeldInv /\ StrayInv
    BY <1>2 DEF HeldInv, AgentPods, EvaluationPods, Resource, StrayInv, Stray
  <2>3. FaultInv /\ OutcomeInv /\ AttestedInv
    BY <1>2 DEF FaultInv, OutcomeInv, AttestedInv
  <2> QED BY <2>1, <2>2, <2>3 DEF CoreInv
<1>4. TrailInv
  <2>1. Told(0)
    BY <1>2 DEF Told
  <2> QED BY <1>2, <2>1 DEF TrailInv
<1> QED BY <1>1, <1>3, <1>4 DEF IInv

LEMMA Inductive == ASSUME IInv, [Next]_vars PROVE IInv'
<1>1. CASE Proxy
  <2>1. task.proxy \in BOOLEAN
    BY TaskAssumption DEF IInv, TypeOK
  <2> QED BY <1>1, <2>1, ProvisionStep DEF Proxy
<1>2. CASE AgentPod
  BY <1>2, ProvisionStep DEF AgentPod
<1>3. CASE Submission
  <2> DEFINE t == [record.tests EXCEPT !.sub = TRUE]
  <2>1. t \in TestResult /\ t.infra = record.tests.infra
        /\ t.integrity = record.tests.integrity /\ t.mode = record.tests.mode
    BY DEF IInv, TypeOK, Record, TestResult
  <2>2. Prepare("submission", "evaluator", t)
    BY <1>3 DEF Submission
  <2> HIDE DEF t
  <2> QED BY <2>1, <2>2, PrepareStep DEF EvaluationPods
<1>4. CASE Evaluator
  <2> DEFINE t == [record.tests EXCEPT !.digest = TRUE]
  <2>1. t \in TestResult /\ t.infra = record.tests.infra
        /\ t.integrity = record.tests.integrity /\ t.mode = record.tests.mode
    BY DEF IInv, TypeOK, Record, TestResult
  <2>2. Prepare("evaluator", "link", t) \/ Prepare("evaluator", "tests", t)
    BY <1>4 DEF Evaluator
  <2> HIDE DEF t
  <2> QED BY <2>1, <2>2, PrepareStep DEF EvaluationPods
<1>5. CASE Link
  <2>1. record.tests \in TestResult
    BY DEF IInv, TypeOK, Record
  <2> QED BY <1>5, <2>1, PrepareStep DEF Link, EvaluationPods
<1>6. CASE EvaluationThrows
  BY <1>6, ThrowsStep DEF EvaluationThrows
<1>7. CASE CompletionThrows
  BY <1>7, ThrowsStep DEF CompletionThrows
<1>8. CASE Ended
  BY <1>8, StutterStep DEF Ended
<1>9. CASE Request \/ Start \/ Abandon \/ Credential \/ RunAgent \/ Refused \/ Snapshot
           \/ AgentRaises \/ Finish \/ Reap \/ Missing
  BY <1>9, RequestStep, StartStep, AbandonStep, CredentialStep, RunAgentStep, RefusedStep,
     SnapshotStep, AgentRaisesStep, FinishStep, ReapStep, MissingStep
<1>10. CASE Evaluate \/ Reject \/ Admit \/ Tests \/ TestsRaise \/ Teardown \/ TeardownRaising
           \/ TeardownFails \/ Report \/ Diff \/ Scan \/ Judge \/ Challenge \/ Failed
  BY <1>10, EvaluateStep, RejectStep, AdmitStep, TestsStep, TestsRaiseStep, TeardownStep,
     TeardownRaisingStep, TeardownFailsStep, ReportStep, DiffStep, ScanStep, JudgeStep, ChallengeStep, FailedStep
<1>11. CASE Complete \/ Close \/ Contain \/ Persist \/ Attest \/ Correct \/ Crash
  BY <1>11, CompleteStep, CloseStep, ContainStep, PersistStep, AttestStep, CorrectStep,
     CrashStep
<1>12. CASE UNCHANGED vars
  BY <1>12, StutterStep
<1> QED BY <1>1, <1>2, <1>3, <1>4, <1>5, <1>6, <1>7, <1>8, <1>9, <1>10, <1>11, <1>12 DEF Next

\* Wherever a trial stands, its record, its trail and what it holds in the cluster
\* agree as the invariant says; in particular every variable keeps its type.
THEOREM GovernedInvariance == Spec => []IInv
<1>1. Init => IInv
  BY Initial
<1>2. IInv /\ [Next]_vars => IInv'
  BY Inductive
<1> QED BY <1>1, <1>2, PTL DEF Spec

\* Every variable keeps its type, and what silences the trail also spoils the
\* record (runner.py _record_audit_failure).
THEOREM GovernedTypes == Spec => []TypeOK
<1>1. IInv => TypeOK
  BY DEF IInv
<1> QED BY <1>1, GovernedInvariance, PTL

-----------------------------------------------------------------------------
\* The scanners: what is assured is sound.

LEMMA MomentFacts == Begins = 1 /\ Before = 2 /\ Runs = 3 /\ After = 4 /\ Ends = 5 /\ Never = 6
BY DEF Begins, Before, Runs, After, Ends, Never

LEMMA ChangeFacts ==
  /\ NoChange \in Change
  /\ \A c \in Change :
       /\ \A t \in Tool : c.cut[t] \in 1 .. 6
       /\ \A t, u \in Users(c.material) : c.cut[t] = 6 => c.cut[u] = 6
<1>1. NoChange \in Change
  <2>1. NoChange.material = "bundle" /\ NoChange.version = FALSE
        /\ NoChange.cut = [t \in Tool |-> 6]
    BY MomentFacts DEF NoChange
  <2>2. NoChange \in [material : Material, cut : [Tool -> Begins .. Never], version : BOOLEAN]
    BY MomentFacts DEF NoChange, Material
  <2>3. Users(NoChange.material) \subseteq Tool
    BY DEF Users
  <2> QED BY <2>1, <2>2, <2>3, MomentFacts DEF Change
<1>2. ASSUME NEW c \in Change
      PROVE  /\ \A t \in Tool : c.cut[t] \in 1 .. 6
             /\ \A t, u \in Users(c.material) : c.cut[t] = 6 => c.cut[u] = 6
  BY MomentFacts DEF Change
<1> QED BY <1>1, <1>2

\* What was still there after the tool was there while it ran.
LEMMA StillAdmitted ==
  ASSUME NEW c \in Change, NEW t \in Tool, NEW m, Admitted(c, t, m, After)
  PROVE  Admitted(c, t, m, Runs)
<1>1. c.cut[t] \in 1 .. 6
  BY ChangeFacts
<1> QED BY <1>1, MomentFacts DEF Admitted

\* What was there to the end of the phase was there for every tool that uses it.
LEMMA AdmittedThroughout ==
  ASSUME NEW c \in Change, NEW m \in Material, "semgrep" \in Users(m),
         Admitted(c, "semgrep", m, Ends), NEW t \in Users(m)
  PROVE  Admitted(c, t, m, Runs)
<1>1. CASE m = c.material
  <2>1. "semgrep" \in Tool /\ t \in Tool
    BY DEF Tool, Users
  <2>2. c.cut["semgrep"] = 6
    BY <1>1, <2>1, ChangeFacts, MomentFacts DEF Admitted
  <2>3. c.cut[t] = 6
    BY <1>1, <2>2, ChangeFacts
  <2> QED BY <2>3, MomentFacts DEF Admitted
<1>2. CASE m # c.material
  BY <1>2 DEF Admitted
<1> QED BY <1>1, <1>2

LEMMA StableTrue ==
  ASSUME NEW c, NEW t, NEW m, NEW from, NEW to, Stable(c, t, m, from, to) = TRUE
  PROVE  Admitted(c, t, m, to)
<1>1. CASE Admitted(c, t, m, from) = Admitted(c, t, m, to)
  BY <1>1 DEF Stable
<1>2. CASE Admitted(c, t, m, from) # Admitted(c, t, m, to)
  <2>1. Stable(c, t, m, from, to) = None
    BY <1>2 DEF Stable
  <2> QED BY <2>1, NoneAssumption
<1> QED BY <1>1, <1>2

LEMMA ReportedOk ==
  ASSUME NEW t \in Tool, NEW ending \in Ending, Reported(t, ending) = "ok"
  PROVE  /\ ending \in {"whole", "partial", "missing"}
         /\ t = "semgrep" => ending # "partial"
BY DEF Reported, Executed, Acceptable, Retained, Ending

LEMMA LockedOk ==
  ASSUME NEW c, NEW t \in Locked, NEW w, NEW ending \in Ending, NEW found,
         SemgrepResult(c, t, w, ending, found).status = "ok"
  PROVE  /\ ending \in {"whole"} \cup (IF t = "semgrep" THEN {} ELSE {"partial"})
         /\ Input(t, w) # None
<1> DEFINE version == IF ending = "missing" THEN None ELSE Version(c, t, Before)
           ready == version = TRUE /\ InvocationPolicy(c, t) /\ Input(t, w) # None
           status == IF ready THEN Reported(t, ending) ELSE "error"
<1>1. status = "ok"
  BY DEF SemgrepResult, Result
<1>2. ready /\ Reported(t, ending) = "ok"
  <2> HIDE DEF ready
  <2> QED BY <1>1
<1>3. ending # "missing"
  BY <1>2, NoneAssumption
<1>4. t \in Tool
  BY DEF Tool, Locked
<1> QED BY <1>2, <1>3, <1>4, ReportedOk

LEMMA GitleaksOk ==
  ASSUME NEW c \in Change, NEW w, NEW ending \in Ending, NEW found,
         GitleaksResult(c, w, ending, found).status = "ok",
         GitleaksResult(c, w, ending, found).executable = TRUE
  PROVE  /\ ending \in {"whole", "partial"} /\ Input("gitleaks", w) # None
         /\ Admitted(c, "gitleaks", "gitleaks", Runs) /\ Admitted(c, "gitleaks", "ignore", Runs)
<1> DEFINE t == "gitleaks"
           same == /\ Stable(c, t, t, Before, After) # None
                   /\ IgnorePolicy(c, t, After) /\ Version(c, t, Before)
           status == IF same /\ Input(t, w) # None THEN Reported(t, ending) ELSE "error"
           whole == Result(status, Version(c, t, Before), Stable(c, t, t, Before, After), None,
                           IF status = "ok" THEN found ELSE None)
<1>1. ending # "missing" /\ GitleaksResult(c, w, ending, found) = whole
  BY DEF GitleaksResult, Result
<1>2. whole.status = status /\ whole.executable = Stable(c, t, t, Before, After)
  BY DEF Result
<1>3. status = "ok" /\ Stable(c, t, t, Before, After) = TRUE
  BY <1>1, <1>2
<1>4. same /\ Input(t, w) # None /\ Reported(t, ending) = "ok"
  <2> HIDE DEF same
  <2> QED BY <1>3
<1>5. Admitted(c, t, t, After)
  BY <1>3, StableTrue
<1>6. Admitted(c, t, "ignore", After)
  BY <1>4 DEF IgnorePolicy
<1> QED BY <1>1, <1>4, <1>5, <1>6, StillAdmitted, ReportedOk DEF Tool

LEMMA TrivyOk ==
  ASSUME NEW c \in Change, NEW w, NEW ending \in Ending, NEW found,
         TrivyResult(c, w, ending, found).status = "ok",
         TrivyResult(c, w, ending, found).executable = TRUE,
         TrivyResult(c, w, ending, found).database = TRUE
  PROVE  /\ ending \in {"whole", "partial"} /\ Input("trivy", w) # None
         /\ \A m \in {"trivy", "ignore", "database"} : Admitted(c, "trivy", m, Runs)
<1> DEFINE t == "trivy"
           same == /\ Stable(c, t, t, Before, After) # None
                   /\ IgnorePolicy(c, t, After) /\ Version(c, t, After)
                   /\ Database(c, Before) = Database(c, After)
           status == IF same /\ Input(t, w) # None THEN Reported(t, ending) ELSE "error"
           whole == Result(status, Version(c, t, After), Stable(c, t, t, Before, After),
                           Database(c, After), IF status = "ok" THEN found ELSE None)
<1>1. ending # "missing" /\ TrivyResult(c, w, ending, found) = whole
  BY DEF TrivyResult, Result
<1>2. /\ whole.status = status /\ whole.executable = Stable(c, t, t, Before, After)
      /\ whole.database = Database(c, After)
  BY DEF Result
<1>3. status = "ok" /\ Stable(c, t, t, Before, After) = TRUE /\ Database(c, After) = TRUE
  BY <1>1, <1>2
<1>4. same /\ Input(t, w) # None /\ Reported(t, ending) = "ok"
  <2> HIDE DEF same
  <2> QED BY <1>3
<1>5. Admitted(c, t, t, After)
  BY <1>3, StableTrue
<1>6. Admitted(c, t, "ignore", After)
  BY <1>4 DEF IgnorePolicy
<1>7. Admitted(c, t, "database", After)
  BY <1>3 DEF Database
<1> QED BY <1>1, <1>4, <1>5, <1>6, <1>7, StillAdmitted, ReportedOk DEF Tool

LEMMA InputIsWhole ==
  ASSUME NEW t \in Tool, NEW w, Input(t, w) # None PROVE Input(t, w) = Whole(t, w)
BY DEF Input, Whole, Targets, Staged, LooksLikePython

LEMMA AssuredIsSound == \A s \in Phases : s.assured => s.sound
<1>1. ASSUME NEW c \in Change, NEW w, NEW odd \in Tool, NEW ending \in Ending, NEW finds,
             NEW language \in {"python", "other"}, Phase(c, w, odd, ending, finds, language).assured
      PROVE  Phase(c, w, odd, ending, finds, language).sound
  <2> DEFINE endings == [t \in Tool |-> IF t = odd THEN ending ELSE "whole"]
             results == [t \in Tool |-> ToolResult(c, t, w, endings[t], finds = t, language)]
  <2>1. Assured(c, results)
    BY <1>1 DEF Phase
  <2>2. \A t \in Tool : endings[t] \in Ending
    BY DEF Ending
  <2> HIDE DEF endings
  <2>3. /\ "semgrep" \in Tool /\ "ruff" \in Tool /\ "gitleaks" \in Tool /\ "trivy" \in Tool
        /\ results["semgrep"] = SemgrepResult(c, "semgrep", w, endings["semgrep"], finds = "semgrep")
        /\ results["ruff"] = RuffResult(c, w, endings["ruff"], finds = "ruff", language)
        /\ results["gitleaks"] = GitleaksResult(c, w, endings["gitleaks"], finds = "gitleaks")
        /\ results["trivy"] = TrivyResult(c, w, endings["trivy"], finds = "trivy")
    BY DEF Tool, ToolResult
  <2>s. Phase(c, w, odd, ending, finds, language).sound = Sound(c, w, endings, language)
    BY DEF Phase, endings
  <2> HIDE DEF results
  <2>4. /\ \A t \in Tool \ {"ruff"} : results[t].status = "ok"
        /\ results["ruff"].status \in {"ok", "not_applicable"}
        /\ results["gitleaks"].executable = TRUE /\ results["trivy"].executable = TRUE
        /\ results["trivy"].database = TRUE
        /\ AroundPhase(c, "uv") = TRUE /\ AroundPhase(c, "environment") = TRUE
        /\ Admitted(c, "semgrep", "bundle", Ends)
    BY <2>1, <2>3 DEF Assured, Blockers, IsAdmitted, Own
  <2>5. /\ \A t \in Tool : "bundle" \in Uses(t) /\ t \in Users("bundle")
        /\ \A t \in Locked, m \in {"uv", "environment"} : t \in Users(m)
        /\ {"bundle", "uv", "environment"} \subseteq Material
    BY DEF Users, Uses, Locked, Tool, Material
  <2>6. \A t \in Tool : Admitted(c, t, "bundle", Runs)
    BY <2>3, <2>4, <2>5, AdmittedThroughout
  <2>7. \A t \in Locked, m \in {"uv", "environment"} : Admitted(c, t, m, Runs)
    <3>1. Admitted(c, "semgrep", "uv", Ends) /\ Admitted(c, "semgrep", "environment", Ends)
      BY <2>4, StableTrue DEF AroundPhase
    <3>2. "semgrep" \in Locked
      BY DEF Locked
    <3> QED BY <2>5, <3>1, <3>2, AdmittedThroughout
  <2>8. /\ endings["semgrep"] = "whole" /\ Input("semgrep", w) # None
    BY <2>2, <2>3, <2>4, LockedOk DEF Locked
  <2>9. language = "python" =>
          endings["ruff"] \in {"whole", "partial"} /\ Input("ruff", w) # None
    <3> SUFFICES ASSUME language = "python"
                 PROVE  endings["ruff"] \in {"whole", "partial"} /\ Input("ruff", w) # None
      OBVIOUS
    <3> DEFINE q == SemgrepResult(c, "ruff", w, endings["ruff"], finds = "ruff")
    <3>1. results["ruff"] = q
      BY <2>3 DEF RuffResult
    <3>2. q.status # "not_applicable"
      BY DEF SemgrepResult, Result, Reported, Executed
    <3>3. q.status = "ok"
      BY <2>4, <3>1, <3>2
    <3> HIDE DEF q
    <3> QED BY <2>2, <2>3, <3>3, LockedOk DEF Locked, q
  <2>10. /\ endings["gitleaks"] \in {"whole", "partial"} /\ Input("gitleaks", w) # None
         /\ \A m \in {"gitleaks", "ignore"} : Admitted(c, "gitleaks", m, Runs)
    <3> DEFINE f == finds = "gitleaks"
               e == endings["gitleaks"]
    <3>1. /\ e \in Ending /\ GitleaksResult(c, w, e, f).status = "ok"
          /\ GitleaksResult(c, w, e, f).executable = TRUE
      BY <2>2, <2>3, <2>4
    <3> HIDE DEF f
    <3>2. /\ e \in {"whole", "partial"} /\ Input("gitleaks", w) # None
          /\ Admitted(c, "gitleaks", "gitleaks", Runs) /\ Admitted(c, "gitleaks", "ignore", Runs)
      BY <3>1, GitleaksOk
    <3> QED BY <3>2
  <2>11. /\ endings["trivy"] \in {"whole", "partial"} /\ Input("trivy", w) # None
         /\ \A m \in {"trivy", "ignore", "database"} : Admitted(c, "trivy", m, Runs)
    <3> DEFINE f == finds = "trivy"
               e == endings["trivy"]
    <3>1. /\ e \in Ending /\ TrivyResult(c, w, e, f).status = "ok"
          /\ TrivyResult(c, w, e, f).executable = TRUE
          /\ TrivyResult(c, w, e, f).database = TRUE
      BY <2>2, <2>3, <2>4
    <3> HIDE DEF f
    <3>2. /\ e \in {"whole", "partial"} /\ Input("trivy", w) # None
          /\ \A m \in {"trivy", "ignore", "database"} : Admitted(c, "trivy", m, Runs)
      BY <3>1, TrivyOk
    <3> QED BY <3>2
  <2>12. ASSUME NEW t \in Tool \ (IF language = "python" THEN {} ELSE {"ruff"})
         PROVE  /\ \A m \in Uses(t) : Admitted(c, t, m, Runs)
                /\ endings[t] \in {"whole"} \cup (IF t = "semgrep" THEN {} ELSE {"partial"})
                /\ Input(t, w) = Whole(t, w)
    <3>1. Input(t, w) # None
      BY <2>8, <2>9, <2>10, <2>11 DEF Tool
    <3>2. \A m \in Uses(t) : Admitted(c, t, m, Runs)
      BY <2>6, <2>7, <2>10, <2>11 DEF Uses, Tool, Locked
    <3>3. endings[t] \in {"whole"} \cup (IF t = "semgrep" THEN {} ELSE {"partial"})
      BY <2>8, <2>9, <2>10, <2>11 DEF Tool
    <3> QED BY <3>1, <3>2, <3>3, InputIsWhole
  <2> QED BY <2>s, <2>12 DEF Sound
<1> SUFFICES ASSUME NEW s \in Phases, s.assured PROVE s.sound
  OBVIOUS
<1> DEFINE changed ==
             {Phase(c, {"python"}, odd, ending, finds, "python") :
                c \in Change, odd \in Tool, ending \in Ending, finds \in {None, "gitleaks"}}
           Mixed(e, odd, ending, finds, language) ==
             Phase(NoChange, {"python", e}, odd, ending, finds, language)
           mixed ==
             {Mixed(e, odd, ending, finds, language) :
                e \in Entry, odd \in Tool, ending \in Ending, finds \in Tool \cup {None},
                language \in {"python", "other"}}
<1>2. CASE s \in changed
  BY <1>1, <1>2
<1>3. CASE s \in mixed
  <2>1. ASSUME NEW e, NEW odd \in Tool, NEW ending \in Ending, NEW finds,
               NEW language \in {"python", "other"}, Mixed(e, odd, ending, finds, language).assured
        PROVE  Mixed(e, odd, ending, finds, language).sound
    BY <1>1, <2>1, ChangeFacts
  <2> HIDE DEF Mixed
  <2> QED BY <1>3, <2>1
<1>4. Phases = changed \cup mixed
  BY DEF Phases
<1> HIDE DEF changed, mixed
<1> QED BY <1>2, <1>3, <1>4

-----------------------------------------------------------------------------
\* The properties.

\* A run that ends, and is not killed, has tried to delete everything it held in the
\* cluster; except what comes after a pod that resisted and whose error could not be
\* written down.  If anything may be left there, tried or not, its record says
\* infra_error (runner.py 1759-1784, 2132-2142, 2463-2478, 3399-3424).
THEOREM LetsGo == Spec => []NothingLeftSilently
<1>1. IInv => NothingLeftSilently
  <2> SUFFICES ASSUME IInv PROVE NothingLeftSilently
    OBVIOUS
  <2>1. ASSUME pc \in {"done", "dead"}, NEW x \in Held(Resource) PROVE Untried(x)
    BY <2>1 DEF IInv, CoreInv, HeldInv, AgentPods, EvaluationPods, Resource, Held
  <2>2. ASSUME pc = "done", NEW x \in Resource, cluster[x] # "absent" PROVE Stray
    <3>1. CASE cluster[x] = "stray"
      BY <3>1 DEF Stray
    <3>2. CASE cluster[x] = "held"
      <4>1. Untried(x)
        BY <2>1, <2>2, <3>2 DEF Held
      <4> QED BY <4>1 DEF Stray, EvaluationPods, Resource
    <3> QED BY <2>2, <3>1, <3>2 DEF IInv, TypeOK, Presence
  <2>3. ASSUME pc = "done", Stray PROVE saved.outcome = "infra_error"
    BY <2>3 DEF IInv, CoreInv, FlagInv, StrayInv, OutcomeInv, Outcome
  <2> QED BY <2>1, <2>2, <2>3 DEF NothingLeftSilently, Untried
<1> QED BY <1>1, GovernedInvariance, PTL

\* What is attested is a record, and its status is decided.
LEMMA VerifiedRecord ==
  ASSUME IInv, Verifies, task.governed
  PROVE  /\ saved \in Record /\ saved.outcome = Outcome(saved)
         /\ attested # None
         /\ ~ScannerFault(saved, saved.outcome # "infra_error")
         /\ saved.outcome # "infra_error" => saved.agent.model = "admitted" /\ ~Infra(saved)
<1>1. attested \in Attestation /\ attested.record = saved
  BY DEF Verifies, IInv, TypeOK
<1>2. saved \in Record
  BY <1>1 DEF Attestation
<1>3. saved.outcome = Outcome(saved) /\ StatementOK(saved) /\ attested # None
  BY DEF Verifies
<1> QED BY <1>2, <1>3 DEF StatementOK, Outcome

\* A saved record that verifies as accepted was earned: no step of its run failed,
\* nothing of it is left in the cluster, the admitted model did the work, its hidden
\* tests passed, and every grader that was admitted had its say (runner.py
\* _complete_record, verification.py verify_run).
THEOREM Earned == Spec => []AcceptedIsEarned
<1>1. IInv => AcceptedIsEarned
  <2> SUFFICES ASSUME IInv, task.governed, Verifies, saved.outcome = "accepted"
               PROVE  /\ fault = 0
                      /\ \A x \in Resource : cluster[x] = "absent"
                      /\ saved.agent.model = "admitted" /\ Resolved(saved.tests)
                      /\ task.scans => saved.scans # None /\ saved.scans.assured
                      /\ task.judge => saved.judge = "scored"
    BY DEF AcceptedIsEarned
  <2>1. /\ saved.agent.model = "admitted" /\ ~Infra(saved) /\ attested # None
        /\ ~ScannerFault(saved, TRUE) /\ Outcome(saved) = "accepted"
    BY VerifiedRecord
  <2>2. Resolved(saved.tests)
    BY <2>1 DEF Outcome
  <2>3. fault = 0
    BY <2>1 DEF IInv, TypeOK, CoreInv, AttestedInv
  <2>4. \A x \in Resource : cluster[x] = "absent"
    BY <2>1, <2>3 DEF IInv, TypeOK, CoreInv, AttestedInv, StrayInv, Stray, Presence
  <2>5. task.judge => saved.judge = "scored"
    BY <2>1 DEF IInv, CoreInv, AttestedInv
  <2>6. task.scans => saved.scans # None /\ saved.scans.assured
    BY <2>1 DEF ScannerFault
  <2> QED BY <2>1, <2>2, <2>3, <2>4, <2>5, <2>6
<1> QED BY <1>1, GovernedInvariance, PTL

\* The scans of a record that verifies were made by every tool to its end, over the
\* whole of the workspace, with the materials that were admitted
\* (evaluators/scanners.py run_scanners, runner.py _governed_scanner_assurance_error).
THEOREM SoundScans == Spec => []VerifiedScansAreSound
<1>1. IInv => VerifiedScansAreSound
  <2> SUFFICES ASSUME IInv, task.governed, Verifies, saved.outcome # "infra_error",
                      saved.scans # None
               PROVE  saved.scans.sound
    BY DEF VerifiedScansAreSound
  <2>1. saved.scans \in Phases
    BY VerifiedRecord DEF Record
  <2>2. ~ScannerFault(saved, TRUE)
    BY VerifiedRecord
  <2>3. saved.scans.assured
    BY <2>2 DEF ScannerFault
  <2> QED BY <2>1, <2>3, AssuredIsSound
<1> QED BY <1>1, GovernedInvariance, PTL

\* Where the events of a trail are that is told to its end.
LEMMA ToldPositions ==
  ASSUME log \in AuditTrail, Told(11)
  PROVE  /\ Len(log) = 11 /\ DOMAIN log = 1 .. 11
         /\ log[1].type = "evaluation.requested" /\ log[2].type = "policy.admitted"
         /\ log[3].type = "agent.started" /\ log[4].type = "agent.completed"
         /\ log[5].type = "cleanup.completed" /\ log[6].type = "evaluation.started"
         /\ log[7].type = "tests.completed" /\ log[8].type = "scanners.completed"
         /\ log[9].type \in {"judge.completed", "judge.skipped"}
         /\ log[10].type = "outcome.decided" /\ log[11].type = "run.completed"
<1>1. Len(log) = 11 /\ DOMAIN log = 1 .. 11
  BY DEF Told, AuditTrail
<1>2. ASSUME NEW i \in 1 .. 11 PROVE Fits(i, log[i])
  BY DEF Told
<1>3. /\ Fits(1, log[1]) /\ Fits(2, log[2]) /\ Fits(3, log[3]) /\ Fits(4, log[4])
      /\ Fits(5, log[5]) /\ Fits(6, log[6]) /\ Fits(7, log[7]) /\ Fits(8, log[8])
      /\ Fits(9, log[9]) /\ Fits(10, log[10]) /\ Fits(11, log[11])
  BY <1>2
<1>4. /\ log[1].type = "evaluation.requested" /\ log[2].type = "policy.admitted"
      /\ log[3].type = "agent.started" /\ log[4].type = "agent.completed"
      /\ log[5].type = "cleanup.completed" /\ log[6].type = "evaluation.started"
  BY <1>3 DEF Fits, Event, Plain
<1>5. log[7].type = "tests.completed" /\ log[8].type = "scanners.completed"
  BY <1>3 DEF Fits, TestsFit, Event
<1>6. log[9].type \in {"judge.completed", "judge.skipped"}
  BY <1>3 DEF Fits, JudgeFits
<1>7. log[10].type = "outcome.decided" /\ log[11].type = "run.completed"
  BY <1>3 DEF Fits
<1> QED BY <1>1, <1>4, <1>5, <1>6, <1>7

\* The event of a type, where there is one.
LEMMA ToldOnce ==
  ASSUME log \in AuditTrail, Told(11)
  PROVE  /\ Positions("evaluation.requested") = {1} /\ Positions("policy.admitted") = {2}
         /\ Positions("agent.started") = {3} /\ Positions("agent.completed") = {4}
         /\ Positions("cleanup.completed") = {5} /\ Positions("evaluation.started") = {6}
         /\ Positions("tests.completed") = {7} /\ Positions("scanners.completed") = {8}
         /\ JudgeEvents = {9} /\ Positions("evaluation.failed") = {}
         /\ Positions("outcome.decided") = {10} /\ Positions("run.completed") = {11}
<1>1. \A i \in DOMAIN log : \/ i = 1 \/ i = 2 \/ i = 3 \/ i = 4 \/ i = 5 \/ i = 6
                            \/ i = 7 \/ i = 8 \/ i = 9 \/ i = 10 \/ i = 11
  BY ToldPositions
<1>2. \A i \in 1 .. 11 : i \in DOMAIN log
  BY ToldPositions
<1>3. 1 \in 1 .. 11 /\ 2 \in 1 .. 11 /\ 3 \in 1 .. 11 /\ 4 \in 1 .. 11 /\ 5 \in 1 .. 11
      /\ 6 \in 1 .. 11 /\ 7 \in 1 .. 11 /\ 8 \in 1 .. 11 /\ 9 \in 1 .. 11 /\ 10 \in 1 .. 11
      /\ 11 \in 1 .. 11
  OBVIOUS
<1>4. /\ Positions("evaluation.requested") = {1} /\ Positions("policy.admitted") = {2}
      /\ Positions("agent.started") = {3} /\ Positions("agent.completed") = {4}
  BY <1>1, <1>2, <1>3, ToldPositions DEF Positions
<1>5. /\ Positions("cleanup.completed") = {5} /\ Positions("evaluation.started") = {6}
      /\ Positions("tests.completed") = {7} /\ Positions("scanners.completed") = {8}
  BY <1>1, <1>2, <1>3, ToldPositions DEF Positions
<1>6. /\ JudgeEvents = {9} /\ Positions("evaluation.failed") = {}
  BY <1>1, <1>2, <1>3, ToldPositions DEF Positions, JudgeEvents
<1>7. Positions("outcome.decided") = {10} /\ Positions("run.completed") = {11}
  BY <1>1, <1>2, <1>3, ToldPositions DEF Positions
<1> QED BY <1>4, <1>5, <1>6, <1>7

LEMMA AtPosition ==
  ASSUME NEW type, NEW k, Positions(type) = {k} PROVE At(type) = k /\ Once(type)
<1>1. k \in DOMAIN log /\ log[k].type = type
  BY DEF Positions
<1>2. \A i \in DOMAIN log : log[i].type = type => i = k
  BY DEF Positions
<1>3. At(type) = k
  BY <1>1, <1>2 DEF At
<1> QED BY <1>1, <1>3 DEF Once

\* A trail that is told to its end is a lifecycle that the verifier accepts.
LEMMA ToldVerifies ==
  ASSUME log \in AuditTrail, Told(11), record \in Record, snapshot = "taken", ~Infra(record),
         record.tests.integrity \notin {"tree", "diff"}, ~ScannerFault(record, TRUE),
         task.judge \in BOOLEAN, task.scans \in BOOLEAN,
         task.judge => record.judge = "scored"
  PROVE  LifecycleOK(record)
<1>0. /\ Len(log) = 11 /\ DOMAIN log = 1 .. 11
      /\ log[1].type = "evaluation.requested" /\ log[2].type = "policy.admitted"
      /\ log[3].type = "agent.started"
  BY ToldPositions
<1>1. /\ At("evaluation.requested") = 1 /\ At("policy.admitted") = 2 /\ At("agent.started") = 3
      /\ At("agent.completed") = 4 /\ At("cleanup.completed") = 5
      /\ At("evaluation.started") = 6 /\ At("tests.completed") = 7
      /\ At("scanners.completed") = 8 /\ At("outcome.decided") = 10 /\ At("run.completed") = 11
  <2>1. At("evaluation.requested") = 1
    <3>1. Positions("evaluation.requested") = {1}
      BY ToldOnce
    <3> QED BY ONLY <3>1, AtPosition
  <2>2. At("policy.admitted") = 2
    <3>1. Positions("policy.admitted") = {2}
      BY ToldOnce
    <3> QED BY ONLY <3>1, AtPosition
  <2>3. At("agent.started") = 3
    <3>1. Positions("agent.started") = {3}
      BY ToldOnce
    <3> QED BY ONLY <3>1, AtPosition
  <2>4. At("agent.completed") = 4
    <3>1. Positions("agent.completed") = {4}
      BY ToldOnce
    <3> QED BY ONLY <3>1, AtPosition
  <2>5. At("cleanup.completed") = 5
    <3>1. Positions("cleanup.completed") = {5}
      BY ToldOnce
    <3> QED BY ONLY <3>1, AtPosition
  <2>6. At("evaluation.started") = 6
    <3>1. Positions("evaluation.started") = {6}
      BY ToldOnce
    <3> QED BY ONLY <3>1, AtPosition
  <2>7. At("tests.completed") = 7
    <3>1. Positions("tests.completed") = {7}
      BY ToldOnce
    <3> QED BY ONLY <3>1, AtPosition
  <2>8. At("scanners.completed") = 8
    <3>1. Positions("scanners.completed") = {8}
      BY ToldOnce
    <3> QED BY ONLY <3>1, AtPosition
  <2>9. At("outcome.decided") = 10
    <3>1. Positions("outcome.decided") = {10}
      BY ToldOnce
    <3> QED BY ONLY <3>1, AtPosition
  <2>10. At("run.completed") = 11
    <3>1. Positions("run.completed") = {11}
      BY ToldOnce
    <3> QED BY ONLY <3>1, AtPosition
  <2> QED BY <2>1, <2>2, <2>3, <2>4, <2>5, <2>6, <2>7, <2>8, <2>9, <2>10
<1>2. /\ Once("evaluation.requested") /\ Once("policy.admitted") /\ Once("agent.started")
      /\ Once("agent.completed") /\ Once("cleanup.completed") /\ Once("evaluation.started")
      /\ Once("tests.completed") /\ Once("scanners.completed")
      /\ Once("outcome.decided") /\ Once("run.completed")
  BY ToldOnce, AtPosition
<1>3. /\ DOMAIN Required = 1 .. 7
      /\ Required[1] = "evaluation.requested" /\ Required[2] = "policy.admitted"
      /\ Required[3] = "agent.started" /\ Required[4] = "agent.completed"
      /\ Required[5] = "cleanup.completed" /\ Required[6] = "outcome.decided"
      /\ Required[7] = "run.completed"
  BY DEF Required
<1>4. \A i \in 1 .. 7 : i = 1 \/ i = 2 \/ i = 3 \/ i = 4 \/ i = 5 \/ i = 6 \/ i = 7
  OBVIOUS
<1>5. \A i \in DOMAIN Required : Once(Required[i])
  BY <1>2, <1>3, <1>4
<1>6. Ordered(Required)
  <2> SUFFICES ASSUME NEW i \in 1 .. 7, NEW j \in 1 .. 7, i < j
               PROVE  At(Required[i]) < At(Required[j])
    BY <1>3 DEF Ordered
  <2>1. /\ At(Required[1]) = 1 /\ At(Required[2]) = 2 /\ At(Required[3]) = 3
        /\ At(Required[4]) = 4 /\ At(Required[5]) = 5 /\ At(Required[6]) = 10
        /\ At(Required[7]) = 11
    BY <1>1, <1>3
  <2>2. At(Required[i]) = IF i <= 5 THEN i ELSE i + 4
    BY <1>4, <2>1
  <2>3. At(Required[j]) = IF j <= 5 THEN j ELSE j + 4
    BY <1>4, <2>1
  <2> QED BY <2>2, <2>3
<1>7. \A i \in 1 .. 3 : log[i].type = Required[i]
  <2>1. \A i \in 1 .. 3 : i = 1 \/ i = 2 \/ i = 3
    OBVIOUS
  <2> QED BY <1>0, <1>3, <2>1
<1>8. StagesOK
  <2> DEFINE stages == <<"cleanup.completed", "evaluation.started", "tests.completed",
                         "scanners.completed">>
  <2>1. Ordered(stages)
    <3> SUFFICES ASSUME NEW i \in 1 .. 4, NEW j \in 1 .. 4, i < j
                 PROVE  At(stages[i]) < At(stages[j])
      BY DEF Ordered
    <3>1. /\ stages[1] = "cleanup.completed" /\ stages[2] = "evaluation.started"
          /\ stages[3] = "tests.completed" /\ stages[4] = "scanners.completed"
      OBVIOUS
    <3> HIDE DEF stages
    <3>2. /\ At(stages[1]) = 5 /\ At(stages[2]) = 6 /\ At(stages[3]) = 7 /\ At(stages[4]) = 8
      BY <1>1, <3>1
    <3>3. \A k \in 1 .. 4 : k = 1 \/ k = 2 \/ k = 3 \/ k = 4
      OBVIOUS
    <3>4. At(stages[i]) = i + 4 /\ At(stages[j]) = j + 4
      BY <3>2, <3>3
    <3> QED BY <3>4
  <2>2. JudgeEvents = {9} /\ 9 \in DOMAIN log
    BY <1>0, ToldOnce
  <2>3. At("scanners.completed") < 9 /\ 9 < At("outcome.decided")
    BY <1>1
  <2> QED BY <1>2, <2>1, <2>2, <2>3 DEF StagesOK
<1>9. \A i \in 1 .. 11 : Fits(i, log[i])
  BY DEF Told
<1>10. EventsAgree(record)
  <2>1. WasEvaluated
    BY ToldOnce DEF WasEvaluated
  <2>2. log[4].flag = TRUE /\ log[4].status = "completed" /\ log[5].status = "completed"
    <3>1. /\ log[4] = Event("agent.completed", "completed", snapshot = "taken")
          /\ log[5] = Event("cleanup.completed", "completed", FALSE)
      <4>1. Fits(4, log[4]) /\ Fits(5, log[5])
        BY <1>9
      <4> QED BY <4>1 DEF Fits
    <3>2. (snapshot = "taken") = TRUE
      OBVIOUS
    <3>3. log[4] = Event("agent.completed", "completed", TRUE)
      BY <3>1, <3>2
    <3> QED BY <3>1, <3>3 DEF Event
  <2>3. log[7].status = "completed" /\ log[7].flag = Resolved(record.tests)
    BY <1>9 DEF Fits, TestsFit
  <2>4. log[10].status = record.outcome /\ log[11].status = record.outcome
    BY <1>9 DEF Fits
  <2>5. \A i \in Positions("agent.completed") :
          /\ log[i].flag = WasEvaluated
          /\ log[i].status = "infrastructure_error" => record.agent.infra
    BY <2>1, <2>2, ToldOnce
  <2>6. \A i \in Positions("cleanup.completed") : log[i].status = "failed" => record.agent.infra
    BY <2>2, ToldOnce
  <2>7. \A i \in Positions("tests.completed") :
          IF log[i].status = "integrity_rejected"
          THEN record.tests.integrity # None
          ELSE /\ log[i].status = IF record.tests.infra THEN "infrastructure_error" ELSE "completed"
               /\ log[i].flag = Resolved(record.tests)
    BY <2>3, ToldOnce
  <2>8. \A i \in Positions("outcome.decided") \cup Positions("run.completed") :
          log[i].status = record.outcome
    BY <2>4, ToldOnce
  <2> QED BY <2>5, <2>6, <2>7, <2>8 DEF EventsAgree
<1>11. GradersAgree(record)
  <2>1. log[8].status = IF task.scans THEN "completed" ELSE "skipped"
    BY <1>9 DEF Fits, Event
  <2>2. JudgeFits(log[9])
    BY <1>9 DEF Fits
  <2>3. \A i \in Positions("scanners.completed") :
          /\ task.scans = (log[i].status = "completed")
          /\ task.scans => ~ScannerFault(record, TRUE)
    BY <2>1, ToldOnce
  <2>4. \A i \in JudgeEvents :
          IF task.judge
          THEN log[i].type = "judge.completed" /\ log[i].flag /\ record.judge = "scored"
          ELSE log[i].type = "judge.skipped" /\ log[i].status = "disabled"
    BY <2>2, ToldOnce DEF JudgeFits, Event
  <2> QED BY <2>3, <2>4 DEF GradersAgree
<1>12. Positions("evaluation.failed") = {}
  BY ToldOnce
<1> QED BY <1>0, <1>1, <1>5, <1>6, <1>7, <1>8, <1>10, <1>11, <1>12 DEF LifecycleOK

\* A governed run that ends with a decision on sound evidence leaves a record, a
\* trail and an attestation that verify (runner.py 1136-1349 against
\* verification.py 62-367).
THEOREM SoundDecisions == Spec => []DecisionVerifies
<1>1. IInv => DecisionVerifies
  <2> SUFFICES ASSUME IInv, pc = "done", task.governed,
                      saved.outcome \in {"accepted", "rejected"},
                      saved.tests.integrity \notin {"tree", "diff"}
               PROVE  Verifies
    BY DEF DecisionVerifies
  <2>1. saved = record /\ record.outcome = Outcome(record) /\ ~Infra(record)
    BY DEF IInv, CoreInv, OutcomeInv, Outcome
  <2>2. /\ ~record.auditError /\ ~record.attestationError /\ ~raised
        /\ attested = [record |-> record, log |-> log] /\ record.count = Len(log)
    BY <2>1 DEF IInv, CoreInv, FlagInv, OutcomeInv
  <2>3. /\ ~ImageFault(record) /\ ~ScannerFault(record, TRUE)
        /\ task.judge => record.judge = "scored"
        /\ record.tests.mode = "isolated"
        /\ snapshot = "taken" /\ record.agent.wall /\ record.agent.model = "admitted"
    BY <2>1 DEF IInv, CoreInv, GradeInv, Admitted1, ImageFault
  <2>4. Told(11)
    BY <2>1, <2>2, <2>3 DEF IInv, TrailInv, Clear
  <2>5. LifecycleOK(record)
    BY <2>1, <2>3, <2>4, ToldVerifies, TaskAssumption DEF IInv, TypeOK
  <2>6. StatementOK(record)
    BY <2>1, <2>3 DEF StatementOK
  <2>7. attested # None
    BY <2>2, NoneAssumption DEF IInv, TypeOK, Attestation
  <2> QED BY <2>1, <2>2, <2>5, <2>6, <2>7 DEF Verifies
<1> QED BY <1>1, GovernedInvariance, PTL
=============================================================================
