# Formal specification of the agent evaluation platform

TLA+ specifications of the parts of this repository whose correctness is about
*order*: who may call an agent, when, how often, what survives a crash, and
what the saved evidence and the accounts say afterwards. TLC checks small
instances; TLAPS proves every safety property the passing runs check, for every
value of the constants: of the journal, the work queue, its workers and
the bridge between them, of a candidate's records, repairs and evaluation, of governed admission
and the governed run, of its audit trail and attestation, of the workbench, and of the saving and
migration of the state directory.

    tlc -workers 2 -config MCJournal.cfg MCJournal     # any run of the table below
    tlapm JournalProofs.tla                            # the proofs about the journal and the bridge
    tlapm FleetProofs.tla                              # about the queue and its workers
    tlapm CandidateProofs.tla                          # about a candidate's records and evaluation
    tlapm AdmissionProofs.tla                          # about governed admission
    tlapm WorkbenchProofs.tla                          # about the workbench
    tlapm MigrationProofs.tla                          # about saving and migrating the state
    tlapm AttestationProofs.tla                        # about the audit trail and the attestation
    tlapm GovernedRunProofs.tla                        # about one trial, from its request to its record

Paths below are relative to `src/`, the repository; `experiments/`,
`distributed/`, `candidates/`, `workbench/`, `blackbox/` stand for the
directories of those names in `src/agent_eval/`.

## 1. The system

The platform evaluates agents: it plans *trials* (a case of a suite, repeated),
calls a target (a command, an HTTP service, a container, a Kubernetes Job) once
per trial, seals what it answered, grades that evidence and publishes a report.
The guarantees its documentation insists on are that a call is never repeated
when nobody knows what it did, that evidence never changes, and that an
incomplete cohort never passes.

### 1.1 Inventory

| Component (source) | State it keeps | Operations | Hard behaviour | Correct when |
|---|---|---|---|---|
| **Experiment journal** (`experiments/journal.py`) | SQLite row per trial, content-addressed artifacts, one receipt pointer per attempt, `cancel.json`, `report.json`, `flock` on `writer.lock` | create, open, claim, observe, reconcile_observation, recover, complete, status, export_report, cancel_queued, request_cancel | crash between two durable writes; cancellation without the lock | evidence sealed once; no legal history makes a later session fail; report complete |
| **Executor** (`experiments/executor.py`) | none beyond the session | execute (resume), with pause boundaries | stale row snapshot; cancellation between check and claim; early returns | each trial called at most once; ambiguity stops everything; resuming ends |
| **Work queue** (`distributed/postgres.py`) | account (limit, reserved, spent), rows with state, epoch, worker, expiry, receipt; outbox | account, enqueue, claim, heartbeat, dispatch, complete, defer_uncreated, cancel, reconcile, status, outbox | leases that expire at any time, stale epochs, duplicated completions, changing limits | ledger = sum of rows; budget holds; final is final; a row's last event names its epoch and what became of it |
| **Queue workers** (`distributed/worker.py`) | claim, epoch, `lost` event set by a heartbeat thread | work_once | two threads, a late answer against an expired lease, a refused Job, death anywhere | one call per row; receipt true; no row stuck |
| **Kubernetes Jobs** (`distributed/kubernetes.py`) | the Job and its pods (external) | execute_job, cleanup_job | quota refusal, cancellation by UID, unknown outcome | nothing retried after creation; Jobs removed |
| **Distributed experiments** (`distributed/bridge.py`) | none of its own: journal rows and queue rows of the same attempt | enqueue_experiment, collect_experiment, cancel_experiment | two stores without a common transaction; crash between them; cancellation racing completion | neither side repeats a call, and none is made here of what the queue knows; what is cancelled is never sent; only a local receipt stops a collection |
| **Candidate evaluation** (`candidates/`) | tickets, execution contracts, submissions, failures, studies, assessments in the catalogue; container evidence on disk | reserve, issue, ingest, record_failure, reserve_study, evaluate, boundary.execute, cleanup, study_report | crash between evidence file and container; concurrent reservations of a shared budget; failure against execution | a schedule is filled exactly; one assessment per execution; budget of repairs holds |
| **Workbench catalogue** (`workbench/store.py`, `submissions.py`, `datasets.py`) | SQLite objects, hash-chained audit, annotations with revisions, grants, tokens | put, get, annotate, grant, authenticate, ingest | optimistic concurrency, append-only chain | an object never changes; one annotation wins; the chain verifies |
| **Workbench lifecycle** (`workbench/lifecycle.py`) | backups, tombstones | backup, restore, expire | locks of catalogue and journals; crash inside a removal | backup is a consistent cut of what it locked; expiry ends |
| **Workbench service and API** (`workbench/service.py`, `api.py`, `analysis.py`) | world state files beside a journal; a pool with one thread | launch, start, run, state_evidence, detail, comparison, gate, paired_run | retried launches; a journal that moves between two reads of a decision; evidence missing after a failed call | one experiment per key; a pass rests on complete evidence that holds together |
| **State worlds** (`environments/world.py`) | a scripted service, its journal of calls | operations with injected faults | independent observation | observed state is what was done |
| **Black-box runner** (`blackbox/`) | a report per run | run, replay, score, store | target deadlines, output limits | grade is a function of the evidence |
| **Source and trace inspection** (`blackbox/inspection*.py`, ...) | a report | inspect | bounded parsing | bounded, no effect on the score |
| **Governed runner** (`runner.py`, `verification.py`, `outcome.py`, `task.py`) | the record in memory and saved, audit trail, attestation; Secret, proxy, pods, link in the cluster | run_agent_trial, evaluate_workspace, _complete_record, verify_run | any step fails or takes effect although it failed; exceptions through two finally blocks; death between save, attestation and correction | accepted and verified only if earned; nothing left behind silently; what is decided verifies |
| **Governance and admission** (`governance.py`, `cli.py`, parts of `runner.py`) | admission directory: request, bundle, two decisions | preflight, prepare_governed_execution, image check and import, replay before every trial, stop rule | the host changes between any two reads | what runs is what was approved, within every budget |
| **Audit trail and attestation** (`audit.py`, `attestation.py`, `verification.py`) | hash-chained log; statement and its sidecar | append, verify_audit_chain, capture, attest, verify_run | a write that fails after it took effect; files read one by one while they change | what verifies is whole; of what was attested, the verifier asks for nothing more than was bound |
| **State directory** (`metrics.py`, `state.py`) | `metrics.db`, one directory per run | save_run, schema upgrade, migrate_legacy_state | file and row without a common transaction; a migration under concurrent saves | neither is lost; a migration installs one moment |
| **Scanners** (`evaluators/scanners.py`) | none: materials and reports of one phase | run the tools, promote evidence | executables, rules and databases replaced under four concurrent tools | promoted evidence comes from admitted materials and whole input |
| **Credentials** (`credentials.py`) | leases | lease, redact | expiry | nothing of them is left |
| **Cluster operations** (`kube.py`, `cluster.py`) | external | governed kubectl | external API | approved commands only |
| **Reviewer benchmarks, metrics, reports** (`review_*.py`, `external_review_eval.py`, `corpus.py`, `metrics.py`, ...) | stored results | match, compare, aggregate | pure algorithms with boundaries | formulas equal their definitions |
| **Agents, evaluators** (`agents/`, `evaluators/`) | external processes | start, parse | fail closed | no verdict without completed evidence |

`PROJECT.json` lists every component with its status, and every hazard with the
line at which it bites.

### 1.2 Interactions

* `execute` and an operator's reconciliation are *sessions* on one journal; the
  OS lock makes them exclusive. `request_cancel` and every reader bypass the
  lock.
* `candidates/execution.py:evaluate` opens a session, reconciles an ambiguous
  trial with evidence of the container it owns, closes it, and runs `execute`.
* `distributed/bridge.py` opens sessions of its own, and inside them runs
  queue transactions. The attempt ID of a journal row is the key of the queue row.
* `work_once` runs queue transactions from two threads and calls the target
  between them. The queue's only time is the database clock.
* `runner.py` drives one trial alone: it calls the cluster through `kube.py`, writes the trail
  through `audit.py`, decides with `outcome.py` and saves through `metrics.py` and `attestation.py`;
  `verification.py` reads all of it back later and in another process.
* `cli.py run` decides the admission, `runner.py` replays it before every trial with `governance.py`, copies the
  task, imports the image, and only then is there a first event of the trail.
* `metrics.py:save_run` writes the directory of one run and the database that all runs share; `state.py` reads both
  without a lock, by fingerprints, while runs are being saved.
* The scanners run as a phase of `runner.py`; `outcome.py` and `verification.py` decide with what they promote.
* The workbench stores plans, profiles and candidate records in the catalogue and
  runs experiments through the journal; its lifecycle takes both kinds of locks. `agent-eval experiment run` makes a
  journal, and `request_cancel` writes `cancel.json`, without either. An annotation reads the journal and
  then writes the catalogue; a decision reads the journals twice.

## 2. The modules

| Module | Models | Grain |
|---|---|---|
| `TrialLifecycle` | the abstract promise about one trial: planned, withdrawn or committed, called at most once, sealed once, final; unknown when nobody can tell | the promise itself |
| `Journal` | journal and executor, with processes that compete for the lock and die anywhere | one durable write, one transaction, one call, or the reads between them |
| `WorkQueue` | the queue's transactions for one tenant, called in any order with any epoch | one transaction |
| `Fleet` | worker processes, their heartbeat threads, Jobs and their removal, operators and time on `WorkQueue` | one transaction or one step between two |
| `Bridge` | submission, collection and cancellation next to `execute`: `Journal` composed with `Fleet` | one durable write or one transaction |
| `Authority` | candidate tickets, contracts, submissions, failures, repairs and one study, with the records each call reads | one catalogue transaction |
| `Evaluation` | `evaluate` for one execution and the container it owns; the action `StoreAssessment` of `Authority`, taken apart | one durable write, one transaction, one docker command; the copying of the submitted tree in two steps |
| `GovernedRun` | one trial of a coding agent: the agent phase, the evaluation, the record, the audit trail, the attestation, and what the verifier says of them | one cluster call, one event or group of events, one durable write |
| `Scanners` | the scan phase: who read which material when, what a tool was shown, how it ended, what is promoted | one operator per function; `Phases` is every summary the phase can leave, and `GovernedRun` chooses among them |
| `Admission` | governed admission from the command line to the next trial, while other programs change task, scanners and images | one read of the host, one decision, one write |
| `Trail` | `AuditChain` and `verify_audit_chain`, and what may happen to the file | write and acknowledgement are two steps |
| `Attestation` | capture, end of trail, saving, statement and sidecar, and `verify_run` over all of it; extends `Trail` | one call |
| `StateStore` | `save_run` by one process per run, the schema and its upgrades | one call on the file system or the database |
| `Migration` | `migrate_legacy_state` on a `StateStore` in use; extends it | one entry of a scan, of the copy, of a check |
| `Workbench` | launch, start and run, annotations, decisions, backup and retention of the local workbench, with what is made, run or cancelled outside of it | one catalogue transaction, one lock, one file read or removed |
| `JournalProofs`, `FleetProofs`, `CandidateProofs`, `AdmissionProofs`, `GovernedRunProofs`, `AttestationProofs`, `MigrationProofs`, `WorkbenchProofs` | theorems about `Journal` and `Bridge`, `WorkQueue` and `Fleet`, `Evaluation` and `Authority`, `Admission`, `GovernedRun` with its `Scanners`, `Attestation` with its `Trail`, `Migration` with its `StateStore`, and `Workbench` | |
| `MCJournal`, `MCWorkQueue`, `MCFleet`, `MCBridge`, `MCAuthority`, `MCEvaluation`, `MCGovernedRun`, `MCAdmission`, `MCAttestation`, `MCMigration`, `MCWorkbench` | the small instances | |

`Fleet` extends `WorkQueue` and takes its transactions as they are, so what is proved of arbitrary callers
holds of the workers. `TrialLifecycle` is the abstract specification of `Journal`
(`ImplementsLifecycle`). `Bridge` extends `Journal` and instantiates `Fleet`
with its own variables, so both are used unchanged. The governed runner is one program in four
modules, cut where little passes from one to the next: `Admission` ends where the first trial starts, `GovernedRun` takes a trial
from its first event to its saved record with `Scanners` inside, `Attestation` looks at the end of a run call by call, which
`GovernedRun` takes in three steps, and `StateStore` at the one step in which `Attestation` saves.

### 2.1 `Journal`

*Durable state.* `row`, `obs` and `res` are the columns of `trials`; `artifacts`
the files under `artifacts/` with the trial they are bound to; `pointer` the files
under `receipts/`; `cancelFile` and `report` the two JSON files. *Process state.*
`lock` is the flock; `pc` says where a process is, `at` which ordinal its loop is at,
`held` the receipt in its memory, `seen` the rows as the loop read them, `left`
and `end` the two pause boundaries. *History.* `calls`, `answered`,
`lateClaims`, `faults` exist for the properties and the bound.

A session of `execute` runs `Resume`, `RecoverRow`*, `Recovered`, `Entry`, (`SweepRow`*,
`Swept`), `CheckStatus`, then per trial `LoopHead`, `Claim`, `Invoke`, `Return`, `Seal`,
`Point`, `Commit`, `GradeTrial`, `Finalize`, and ends in `Finish` and `Export`;
a cancelled call goes `CallCancelled`, `Abandon`, `SweepRow`*. An operator runs
`OpenToReconcile`, `RecoverRow`*, `Reconcile`, `Seal`, `Point`, `OpCommit`.
`Crash` ends any session anywhere and keeps exactly the durable state.

*Abstractions.* A receipt is the number of the call it saw and one of three
answers (accepted output, rejected output, error); the number stands for the
latency and the output that tell two calls apart. A digest is its content.
`Grade` is a function of the receipt because the executor only supports
deterministic metrics and refuses a grader that disagrees (`executor.py:117`). All-or-nothing
writes are what `atomic_write_private` (temporary file, fsync, rename, fsync of
the directory) and `synchronous=FULL` give. Operations whose errors would
be raised in the code have no step where their guard fails; `Raises` names those
conditions and `NeverRefused` says they are never met.

### 2.2 `WorkQueue` and `Fleet`

`limit`, `reserved`, `spent` are the account; `state`, `epoch`, `worker`, `live`,
`cancelRequested`, `receipt`, `measured` the columns of `ae_work`, with state
`absent` for a row that is not there; `told` is the last outbox event of a row.
`live` stands for `expires > clock_timestamp()`. All operations lock the account row
first (an enqueue takes a share of it through the foreign key), so operations of one
tenant are serial and each is one action; an operation that raises rolls back and
is no step. `CleanupRequired` is the one event that is not an operation's: a worker writes it through `event()`, without looking
at the row, so the last event of a completed row may be either. Row-level security keeps tenants apart, so one tenant is modelled.

`Fleet` adds the processes: `pc`, `item`, `ticket` (the epoch its claim returned),
`lost` (the heartbeat thread's event), `kept` (the receipt it built). A lease nobody
prolongs may run out (`RunOut`); one that is prolonged runs out only if a
heartbeat is late (`LateHeartbeat`, a fault). After a completed Job comes `CleanUp`, a transaction
of its own, which a crash leaves out. Two processes may have the same
worker name. Not part of `Fleet`: that the outbox is read and acknowledged, and the life of a Job on the cluster.

### 2.3 `Bridge`

Adds `duty`, what a local process is doing with the bridge. A bridge
session holds the same `lock` as a session of `execute`, and the two may follow each other in any order. `recover()` inside a bridge
session is one step (`RecoverAll`); its row-by-row interruption is `Journal`'s subject.
A receipt is numbered by the calls its attempt has had, so a collected one differs from a local one of the same attempt, as their
contents do in the code. That is how a second call shows: `immutable_json` refuses to seal another receipt (`CollectPoint`), and the collection ends
until `execute` has recovered the row from the local one.

What holds is what the order of the two stores guarantees: a row is claimed here before it is sent, so `execute` never calls what the queue
knows (`CallsStayApart`). What does not hold is what the documents say of the other order: an attempt that `execute` called and did not live to seal
is sent all the same (finding 3), and is cancelled as if it had never run where the queue does not know it (finding 9).
Not part of `Bridge`: an operator's `Reconcile` of a local row
while remote work is out, quota refusals, and changes of the limit (both are in `Fleet`).

### 2.4 `Authority`

The catalogue only grows: `study`, `schedule`, `ticket`, `bound`, `submission`, `failure`,
`verdict` say which records exist for the one study and for each execution, and what in
them a later guard reads. `at` is where an operator's `reserve_study` is: `StudyOpens` puts the plan,
`StudyReserves` a ticket at a time, `StudySchedules` the schedule, and `StudyStops` ends it anywhere.
`ReserveInitial` and `ReserveRepair` are `reserve` by hand; what the latter reads inside its
transaction is `MayRepair`. `evaluator` is `identity()`, a digest of the program's own
files, which `Upgrade` changes. `early` remembers which repairs were reserved before there was a study.
`Computable` collects the conditions under which `study_report` and the replay of recorded
assessments do not raise.

*Abstractions.* One project, one study, one task family. The shuffled schedule is 1..`Slots`. Requests and tokens
are limited alike, so one number stands for both. First attempts by hand use the plan's recipe
and, under an id of the plan, the plan's trial: a ticket of the plan that differs does so in its evaluator.
The bytes of candidates and patches, and the statistics of a report, are left out.

### 2.5 `Evaluation`

`dispatch`, `box` and `receipt` are `dispatch.json`, the container and `observation.json`;
`usage` and `assessment` catalogue records; `experiment`, `lock`, `row`, `sealed`, `cancelFile` what `evaluate`
sees of its journal of one trial; `tree` what there is of `candidate/`: nothing, a part of the submitted files, or all. Per session: its label, where `boundary.execute` returns to (`back`),
the observation it `held` and the usage it `measured`. `starts` and `ran` are history.

A session runs `Begin`, `Plan`, `Open`, (`Saved`...`Seal`, `Commit`), `Close`, `Reopen`, `Claim`, `Saved`, `Inspect`,
(`Materialize`, `Fill`), `Dispatch`, `Create`, `Start`, `Poll`, (`Kill`), `Collect`, `Seal`, `Commit`, `Grade`, `Done`, `Saved`,
`Final`, `Assess`, `Cleanup`. It may die anywhere; any docker command may fail
(`DockerFails`) or time out (`DockerTimesOut`) with or without its effect, copying may fail, and anybody
may remove the container, cancel, or record measurements. An observation is what the container left
behind: it ended well, badly, or was killed. `Materialize` looks for the directory only, as the code does, so what a session that died left of
it is what the next one runs (finding 11).

### 2.6 `GovernedRun`

`record` is the `RunRecord`, reduced to what decides: for the agent phase whether it failed, its image digest,
whether it ran (`wall`), the observed model and the exit code; for the tests their mode, exit code, result,
integrity and infrastructure errors and image digests; diff, scans, judge and challenges; the outcome and the
errors of trail and attestation. `log` is `audit.jsonl`, `saved` `results.json`, `attested` what `attestation.json`
binds. `cluster` says of each resource whether it is absent, held by the process, or stray: it may exist and nobody will
delete it. `inside` and `raised` stand for the call stack: an exception travels through a `finally` block
first, and out of `evaluate_workspace` only a governed run turns it into a record.

A run goes `Request`, `Start`, `Credential`, `Proxy`, `AgentPod`, `RunAgent`, `Snapshot`, `Finish`, `Reap`, then `Missing` or
`Evaluate`, (`Reject`), `Admit`, `Submission`, `Evaluator`, `Link`, `Tests`, `Teardown`, `Report`, `Diff`, `Scan`, `Judge`,
`Challenge`, then `Complete`, `Close`, `Contain`, `Persist`, `Attest`, (`Correct`). `AgentRaises`, `TestsRaise`,
`EvaluationThrows` and `CompletionThrows` are the exceptions, `Crash` the death of the process. The loop that deletes the pods of an
evaluation writes down what it could not delete, and that may fail as well: `TeardownFails` ends it with the pods after that one (`Behind`) never tried, as an exception
that only the run around it turns into a record. An interrupt inside a `finally` block counts as the death of the process. `Audit` is `_audit_event`: the first
event that cannot be written makes the run an infrastructure error and silences the trail. `Verifies` and its parts translate
`verify_run`; they are evaluated on what is saved, not by an action.

*Abstractions.* The hash chain is the sequence, a digest its content; a digest is present or not, because one that differs is an
error on the spot. Events that nothing reads in between are written in one step. The policy requires resolved tests, its default, and
`strict` stands for all optional gates together. The tests of one run are one command with one result.

### 2.7 `Scanners`

Four tools run in a pool over one workspace. A `Change` is one material (an executable, the prepared environment, the
vulnerability database, the ignore policy, the bundle of rules) replaced once, at a moment that may lie differently for each
tool; `Stable` is what two readings of it say. `Targets`, `Staged` and `Input` say what of a workspace a tool is shown, with entries that look like Python or
not, that a tool would obey, that cannot be staged; the rest are the ends a tool may have, its report, the assurance identity, the
blockers of promotion and what `outcome.py` and `verification.py` make of a summary. Nothing here has steps: the phase is started and waited for, so `GovernedRun`'s
`Scan` takes any element of `Phases`.

### 2.8 `Admission`

The host is `tree` (the content of the task directory), `scanner`, `daemon` and `nodes` (what image a reference names in
Docker and in the cluster) and `platform`. The process has `loaded`, `request`, `bundle`, the last `hash_tree` it `seen`, the `snapshot` it copied, the two decisions
and the number of its `trial`; `admission` is what is on disk, `ran` which trials started with what. `Admit` is
`evaluate_admission`, one operator per group of its checks, each the set of reason codes it adds; a decision carries
its own inputs, as the code's does by digest, so that `Replays` can decide again and compare. A run goes `Load`, `Hash`, `Preflight`, `Persist`, `Hash`,
`ValidatePreflight`, `TakeSnapshot`, `Finalize`, `LocalImage`, (`Import`, `Imported`), `RecordExecution`, then per trial `Hash`,
`ValidatePreflight`, `TakeSnapshot`, `StartTrial`, `EndTrial`. `EditTask`, `ChangeScanner`, `ChangeImage` are everybody else.

*Abstractions.* A digest is what it is a digest of. Token and cost thresholds are one quantity. A copy of a directory that changes under the copying is
a `Foreign` tree. The agent itself and what it is told are `GovernedRun`'s subject.

### 2.9 `Trail` and `Attestation`

`file` is `audit.jsonl`, `chain` the writer's memory, `pending` the line between its write and its acknowledgement, `error` the run's
`audit_error`, `acked` the events `append` returned for. A line on disk is canonical, torn or garbled; the hash of a line is the sequence of the payloads up to it, so hashing is injective.
Afterwards the file may be cut, lose, double, swap or alter lines, be another run's, a link, or missing (`Damaged`). `ChainVerifies` is
`verify_audit_chain`, line by line, with the schema checks that relate fields (`Fits`).

`Attestation` adds the `task` directory, the git `repo` and further artifacts, each read in as many steps as the code takes (HEAD, staged, unstaged, untracked; `task.yaml` for its id, for
its digest, with the tree; each subject), `results` and its `row`, `statement` and `sidecar`. Any call may fail, the process may be
killed between any two, and others may change anything in between up to `MaxDamage` times; `quiet` remembers that nobody has. `RunVerifies`
is `verify_run`, over what is there at the moment it is asked. `Extra` are the run's further artifacts, and those in `Nested` have, in some directory of the workspace, the name of an
attestation: the runner leaves them out (`Attestable`), the verifier does not (`Uncovered`). `RunVerifiesBut(F)` is the same verdict with complaints about the files in `F` not
counted; `AttestedButNested` says that the two programs differ in nothing but `Nested`, and finding 7 that in this they do.

### 2.10 `StateStore` and `Migration`

`row` is `runs.results_json`, `projected` what the columns and assessments derived from it show, `file` and `backup` the two names the record may have in
its directory, `tx` whose write transaction is open. `schema` may be an older release's; whoever opens the database upgrades it (`Upgraded`), unless there
is an object in it that no release created (`odd`). `save_run` goes `PrepareRunDir`, `Stage`, `Connect`, `Begin`,
(`Reserve`, `Unlink`, `BackUp`), `Publish`, `Commit`, `Clean`, `Secure`; when a call raises, `Rollback`, `Restore`, `Unstage`; `Killed` anywhere. `Reserve` makes
the empty file that `mkstemp` leaves under the backup's name and `Unlink` takes it away; if that raises, `Restore` finds a file of that name and moves it over the record
(`Emptied`, finding 10), which the two safety properties therefore except by name.

`Migration` goes `Begins`, `ScanEntry`\*, `RescanEntry`\* (descending), `SnapshotRows`, `ReadResults`\*, `RescanEntry`\*,
`CopyEntry`\*, `RescanEntry`\*, `UpgradeCopy`, `ValidateCopy`, `Install`, which may fail after the rename (`unsynced`: the migration raises, the copy is there). A fingerprint is whether the entry was `changed` since the first
scan looked at it: every change gives it a new inode, size or time. `cut` remembers what the source was when the last entry had been copied.

### 2.11 `Workbench`

*Catalogue*: `records`, `requests` (idempotency keys), `notes`, `inspection`, `tombstone`, `decisions`; a transaction is `BEGIN IMMEDIATE`, so one step, except those
of launch and backup, which reach beyond the catalogue and hold it (`held`) meanwhile. *Journals*: `disk` says how much of a directory is there, `writer` who has its
lock, `row` the state, outcome and state receipt of its one trial, `cancelled` which have a `cancel.json`. *Processes*: `worker` (the pool's thread), `launch`, `reviewer`, `backup`, `expiry`, `gate`,
`outside`.

A launch is `LaunchBegin`, `LaunchMade` (the directory is complete), `LaunchCommit`, and `LaunchAnswer` any number of times. A run is `Start`, `Run`, `Call`, `Grade`, `Release`, `RunEnds`; the role of
the subject is asked at both of the first two. A note is `Read`, `LookUp`, `Annotate`. A decision is `Compare`, then `Decide`, which reads the candidate again. A backup is
`BackupBegin`, `BackupLock`\*, `BackupLocked`, `BackupList`\*, `BackupCopy`\*, `BackupDone`, or `BackupRefused` or `BackupFails`; retention `ExpireBegin`, `Bury`, `Purge`, `Remove`\*,
`ExpireEnds`. Each may die; its locks and transaction go with it. Beside them, and without the catalogue, go `OutsideMake`, `OutsideMade`, `OutsideRun`, `OutsideEnds`
(`agent-eval experiment run`, which takes the journal's lock only when it executes) and `RequestCancel`, which takes no lock at all.

`BackupIsOneMoment` is what a backup's locks are worth: the catalogue, and of every journal it found, the files and the row, as they were when the last lock was taken.
A request to cancel may still arrive, before or after that journal is listed; one that was there is never missing. A journal made after the names were listed is nobody's to lock: it is copied in
whatever state it is, and the property says nothing of it.

*Abstractions.* An experiment plans one trial; the run itself is `Journal`'s subject and is here its effect on the row. The interval of the paired effect is above the margin, across it or below it. `worn` is a directory
that lost files and still opens, `torn` one that does not, for files that are gone or not there yet. Backups to a second destination, restore and paired runs are not there.

## 3. Runs

| Run | Instance | States | Shows |
|---|---|---|---|
| `journal` | 2 trials, 2 processes, pauses {1, none}, ends {1, none}, 2 faults | 64,527 | `CallsAreBounded`, `EvidenceStands`, `NeverRefused`, `AmbiguityHalts`, the refinement, and that every resumed or cancelled experiment settles |
| `work_queue` | 2 rows with reservations 2 and 3, limits {3, 5}, measured {1, 4, none}, 2 worker names, epochs up to 3 | 26,323 | `BooksAgree` (ledger, budget, outbox) and `Decided` for arbitrary callers |
| `fleet` | 2 processes under one name, one command row and one Job row, epochs up to 5, 2 faults | 220,970 | `CallsAsRecorded`, `OutboxIsTrue`, every row settles |
| `bridge` | 2 trials, 1 local process, 1 remote worker, epochs up to 3, 1 local and 1 remote fault | 3,100,131 | `CallsStayApart`, what is cancelled is never sent, `CollectionHolds`, for `execute` and submissions in any order |
| `authority` | 2 trials, 2 more executions, 1 operator, recipes of 1 and 2 requests, an assisted budget of 1 execution and 1 request, 1 upgrade | 1,449,976 | one outcome, `RepairsHold` (frozen selection, assisted budget), a computable report |
| `evaluation` | 2 sessions, any number of crashes and failed docker commands | 146,536 | `RunIsGrounded` (one start, one handler, grounded assessment), every session ends |
| `governed` | every grader and gate; every grader; none; a cooperative run without governance; 2 faults; every scan phase | 2,855,701 | earned acceptance, decided records verify, nothing left silently, verified scans are sound |
| `admission` | 1 task in two states of its directory, 2 platforms, 8 bundles, 2 requests, 5 command lines, up to 3 trials of usage 1 to 3, 3 changes | 1,940,100 | what runs was approved, spending is bounded, admission comes first, evidence replays |
| `evidence` | 3 kinds of events, one of them refused, trails of up to 2 lines, 2 further artifacts, one of them named `attestation.json`, 2 changes by others | 3,127,214 | an accepted trail is the acknowledged one, a verified run is whole, an attested run verifies but for the artifact of that name |
| `migration` | 1 run saved again, 1 saved first, a database of schema 2 or 3 with or without an odd object, 2 failing calls, any number of kills | 514,558 | committed bytes survive and saving is all or nothing unless a failed unlink empties the file, what is installed is one moment, a destination is never replaced |
| `workbench` | 1 experiment in a world, 1 without, 1 key, 2 reviewers, 1 note per trial, 4 commands, 1 death | 4,862,926 | all of `Workbench`'s safety |
| `workbench_state` | the same | | finding 1 |

Several properties are conjunctions of named parts (`CallsAreBounded` is `CalledAtMostOnce` and `OneLateClaim`, and so on): a part that fails
is found by checking it alone. The counterexamples of the other findings come from instances that the listed runs do not
include, each checking the one property the finding names:

    tlc -config MCJournalGrading.cfg MCJournal             # finding 2
    tlc -config MCBridgeReplay.cfg MCBridge                # finding 3
    tlc -config MCAuthorityUpgrade.cfg MCAuthority         # finding 4
    tlc -config MCEvaluationTimeout.cfg MCEvaluation       # finding 5
    tlc -config MCGovernedRunHostile.cfg MCGovernedRun     # finding 6
    tlc -config MCAttestationNested.cfg MCAttestation      # finding 7
    tlc -config MCWorkbenchRetention.cfg MCWorkbench       # finding 8
    tlc -config MCBridgeCancel.cfg MCBridge                # finding 9
    tlc -config MCMigrationEmptied.cfg MCMigration         # finding 10
    tlc -config MCEvaluationTree.cfg MCEvaluation          # finding 11

*Why these bounds are enough to see the interesting cases.* Two trials are the
least with an order between them (one ambiguous, another still queued). Two
processes are the least that compete for a lock, or act on one row with an old and a new
claim; under one name only the epoch tells them apart. Reservations 2 and 3 fit a
limit of 5 together and one of 3 only singly; lowering the limit below what is
reserved and measured overruns (4 over 2 and 3) are included. Two faults allow a
crash, its recovery, and a crash of the recovery. `MaxEpoch` bounds how often a row is claimed and
cancelled; 5 in `fleet` is more than the faults and the cancellation of a row can
use up, so liveness is not cut off by it. Bounds named in guards: `MaxFaults`,
`MaxRemoteFaults`, `MaxEpoch`, `MaxFault`, `MaxChanges`, `MaxEvents`, `MaxDamage`, `MaxNotes`, `MaxCommands`, `MaxCrash`; repeated cancellations of an ambiguous row, which only
count its epoch up, stop at `MaxEpoch` (`WorkQueue`) or are left out (`Fleet`, `Bridge`).

In `authority` two failures compete for one correction, a dear recipe does not fit the budget, and two
executions by hand can be repairs of the same or of different trials, or first attempts. `evaluation` has no
bound on crashes, failures or repetitions: its states are finite as they are. In `governed` two faults are a failure and the failure
of what handles it (a creation and its rollback, an exception and a deletion, a deletion and writing down that it failed, an attestation and a trail); death is not
counted and may come at any step. A material of a scan is replaced once: one that is replaced and put back between the two times it is hashed is outside of the bound, and of what
hashing can see.

In `admission` three changes are one between the preflight and the copy, one between the copy and the trial, and one that undoes the first, which
is how a stale digest would go unnoticed; the bundles and command lines differ from good ones in one respect each, so that every
group of checks both passes and refuses. In `evidence` a second change can repair or hide the first, and two lines are the least that can be swapped; one artifact in `Nested` and one
that is not tell the two sets of artifacts apart. In `migration` the
first save of a run (nothing to restore) and a later one (a backup) run against each other and against the migration; two failing calls are a
failure and that of its undoing. In `workbench` four commands let a decision, a backup, an expiry, a request to cancel, a journal made outside and the start of a run overlap pairwise, in a world and outside, and two reviewers edit
one trial; one death is enough for a lost launch to be retried and for an interrupted run to be resumed. The proofs of section 4 have none of these bounds.

`fleet`, `authority`, `evaluation`, `admission`, `evidence`, `migration` and `workbench` run with `CHECK_DEADLOCK FALSE`: when every row is settled and the
budget is used up, every record or the assessment is there, the run or the migration is over, or the commands are used up, nothing is left to do. The
other runs check deadlock. `authority` uses the symmetry of the two further executions and `workbench` that of the two reviewers, which are
sound because these runs check invariants and an action property, no liveness.

### 3.1 Fairness

*`Journal`*: weak fairness of the steps of an open session (`Advance`): a live
process goes on, and every target has a deadline. Strong fairness of `ResumeInFull`: an operator
who keeps resuming sometimes resumes without a pause boundary (the lock may be
taken in between, hence strong). Nothing is assumed of crashes, cancellation or
operator evidence. *`Fleet`*: weak fairness of `Start`, `Advance` and `Notice` per process,
of `RunOut` per row and of `Sweep`: a supervisor keeps starting workers and runs
`distributed reconcile`, as `docs/workbench.md:122-128` asks; threads run and time
passes. Nothing is assumed of submissions, cancellations or faults. *`Evaluation`* (`FairSpec`): weak fairness of the steps of each session, which is not killed for ever, and of
`TimePasses`: a container that keeps running becomes late. Nothing is assumed of the candidate, of docker's
success or of anybody else. `WorkQueue`, `Bridge`, `Authority`, `GovernedRun`, `Admission`, `Attestation`, `Migration` and `Workbench` state
safety only: each is one program that ends or raises, or operators nobody obliges to go on.

### 3.2 Mutants

Every property of a passing run has a mutant in the module it guards: an operator
with the same parameters, defined just before the one it replaces, that is a
plausible slip of the code (a dropped guard, a retry, a missing reset, a stale
epoch). `PROJECT.json` pairs them; TLC finds the property violated under each. Where a property is a conjunction, the module may hold
a mutant of each part; one of them is paired.

## 4. Proofs

`JournalProofs` proves, for any number of trials, set of workers, sets of
pause boundaries and bound on faults (`JournalAssumption`):

| Theorem | States |
|---|---|
| `Invariance` | `Spec => []IInv` |
| `TypeCorrect` | `Spec => []TypeOK` |
| `AtMostOneCall` | `Spec => []CalledAtMostOnce` |
| `BoundedCalls` | `Spec => []CallsAreBounded` |
| `StandingEvidence` | `Spec => []EvidenceStands` |
| `EvidenceIsSealed` | `Spec => []SealedEvidence` |
| `CompleteReport` | `Spec => []ReportIsComplete` |
| `AtMostOneLateClaim` | `Spec => []OneLateClaim` |
| `NothingRefused` | `Spec => []NeverRefused` |
| `AmbiguityAlwaysHalts` | `Spec => AmbiguityHalts` |
| `Implementation` | `Spec => ImplementsLifecycle` |

None of these properties is inductive. `IInv` adds what makes them so:
`LockInv` (exactly the process that is not idle holds the lock, so at most one
session is open); `TrialInv` (per trial: at most one call, none while queued or
cancelled, pointer stored and equal to the answer, digests as the state says);
`PrefixInv` (a trial that was ever claimed has only completed ones before it);
`SessionInv` (what a session knows at each label about the trial it is at, for instance
that a call in progress is the trial's only one and nothing is sealed yet); `ScanInv` (where recovery
has passed nothing is running; the loop's snapshot is still true from
its position on, because there is a single writer); `LateInv` (a late claim needs
a check that preceded the request, and there is one session); `ReportInv`.

The step lemmas go conjunct by conjunct (`TypeStep`, `LockStep`, `TrialStep`, ...), each over
frame lemmas (`RowFrame`, `FileFrame`, `CallFrame`, `SessionFrame`) that say which actions
touch which variables, so that a conjunct is only argued about where it can be disturbed. The
refinement maps a trial to "sealed" from its receipt pointer on, before the row says
so; `RowMaps`, `PointMaps` and `InvokeMaps` show that each step is one step
of one trial's life or a stutter.

**The bridge.** `JournalProofs` goes on with `Bridge`, for any number of trials, local processes, remote workers and names, any
reservations and limits, any number of faults on either side, and any order of `execute`, submissions, collections and cancellations (`BridgeAssumption`):

| Theorem | States |
|---|---|
| `BridgeInvariance` | `BridgeSpec => []BridgeIInv` |
| `SidesStayApart` | `BridgeSpec => []CallsStayApart` |
| `CancelledStaysUnsent` | `BridgeSpec => []CancelledNeverSent` |
| `CollectionIsTrue` | `BridgeSpec => []CollectionHolds` |

The argument has three parts. *Far away*, `RemoteInv` says of the rows and processes of the queue what makes a call unique: a process past
its dispatch has the row's epoch or the row is ambiguous, there is one such process per row, and a completed row has the receipt of its call.
Every step of the queue and of its workers keeps it and keeps unknown, completed and cancelled rows as they are (`RemoteKeeps`). The instance
`Remote` brings no theorems with it, so these facts about `Fleet`'s actions are proved here once more, in the few variables the bridge reads.
*At home*, `DutyInv` says what a session knows of the row it is at, one of `execute` from its claim to its commit as well as one of the bridge at each of
its steps: while a local call is prepared, made or being sealed, its row runs here, is unknown there and has no receipt. That is so because a session of `execute` claims only what is queued, and
because one session at a time holds the lock (`ExclusiveInv`), so nobody submits meanwhile. *Between them*, `RowsAgree` (a row that is
queued here is unknown there and was not called; one cancelled here is cancelled or unknown there) and `HomeInv` (a pointer holds what the local call answered or what the completed row's call did,
and digests follow the pointer) tie the stores together.
`MarksStay`, `MarkMoves` and `CallMoves` argue once about steps that move no row, one row, or a call, `SessionMoves` once about the lock, so each action only has to say what
its own session knows.

**The queue and its workers.** `FleetProofs` first proves of `WorkQueue`, for any number of rows, any reservations, account limits,
measured spends, workers and bound on epochs (`WorkQueueAssumption`):

| Theorem | States |
|---|---|
| `QueueInvariance` | `Spec => []IInv` |
| `QueueTypes` | `Spec => []TypeOK` |
| `AccountBalances` | `Spec => []LedgerBalances` |
| `BudgetIsKept` | `Spec => []BudgetHolds` |
| `EventsAgree` | `Spec => []OutboxAgrees` |
| `BooksAlwaysAgree` | `Spec => []BooksAgree` |
| `OutcomesAreFinal` | `Spec => Decided` |

`TypeOK` is not inductive: that `reserved` stays a natural when a reservation is given
back follows only from the ledger. Nor is the budget: a claim is admitted against
`limit - reserved - spent`, so its step needs `limit <= peak` (`PeakInv`) and that what is
covered by reservations is at most what was debited, which is the ledger again. `IInv`
therefore joins the column types, `PeakInv`, `LedgerBalances`, `BudgetHolds` and
`OutboxAgrees`, which knows the one event that may follow a completion (`LastEvents`). The ledger speaks of sums over rows. `WorkQueue` writes a sum as the cardinality
of a set with one element per micro-unit (`Micros`), so `TotalUnion`, `TotalOne`,
`TotalSame` and `TotalBelow` follow from the library's facts on finite sets, without
recursion; `HoldMore` and `HoldFewer` say what a step that moves rows in or out
of the holding states does to the sum. The workers are not assumed to be well behaved: any caller
may present any name, epoch, receipt and spend at any time.

Then of `Fleet`, for any number of rows, processes, worker names and faults (`FleetAssumption`):

| Theorem | States |
|---|---|
| `FleetInvariance` | `FleetSpec => []FleetInv` |
| `TrueCalls` | `FleetSpec => []CallsAsRecorded` |
| `FleetBooks` | `FleetSpec => []BooksAgree` |
| `EventsAreTrue` | `FleetSpec => []OutboxIsTrue` |

The queue promises nothing about calls; that there is one per row is the workers' doing and the queue's together. `FleetInv` therefore contains the
queue's `IInv` and adds `MemoryInv` (what a process at a label remembers), `BeyondInv` (a process past its dispatch holds the row's present
epoch, or the row has been found ambiguous, which is for good), `SettledInv` (one that is about to remove a Job has seen its completion committed, and the row is still
at that epoch), `CleanupInv` (only Jobs are asked to be cleaned up), `SoleInv` (there is at most one process past its dispatch per row) and `CallInv` (a row
that was never dispatched has no call; one that was has at most one, and none yet while its process is still to make it). `ProcessMaps` and
`StepMaps` show that each step of a worker is one transaction of the queue or touches nothing of it; the lemma `FleetIsQueue` says so of whole behaviours, which holds by construction
and is no result of its own, but it is why `FleetBooks`
follows from what was proved of arbitrary callers. What a step does to the calls is argued once for the rows
it leaves alone (`OutsideKeeps`), once for a process that leaves its row (`LeavingKeeps`) and label by label for the rest (`ProcessKeeps`).

**Candidates.** `CandidateProofs` proves of `Evaluation`, for any set of sessions (`EvaluationAssumption`: `None` is none of them):

| Theorem | States |
|---|---|
| `EvaluationInvariance` | `Spec => []IInv` |
| `EvaluationTypes` | `Spec => []TypeOK` |
| `OneStart` | `Spec => []StartedOnce` |
| `SingleHandler` | `Spec => []OneHandler` |
| `GroundedAssessment` | `Spec => []Grounded` |
| `GroundedRun` | `Spec => []RunIsGrounded` |

`StartedOnce` counts what happened to one container; why a second start cannot happen is spread over sessions that have died
since. `IInv` says it with `LockInv` (whoever is at a label of the writer has the lock, so there is one), `SealInv` (until the receipt is
sealed the trial waits, runs or is ambiguous, and a sealed observation is the saved one), `SessionInv` (what a session knows of
the trial at each label: before the sealing nothing is sealed, at the boundary nothing is saved either, after the journal is closed the trial is completed),
`BoxInv` (the container comes after its dispatch file, which is not there while the tree is copied; it is started once, and what it left behind stays) and `Grounded` itself. Each step lemma
lists the actions with the facts each needs; docker's failures and time-outs are steps like any other.

Then of `Authority`, for any number of trials, other executions, operators, recipes, versions of the evaluator and any budget
(`AuthorityAssumption`, and `MissingAssumption`: `Missing` is no ticket, outcome or status):

| Theorem | States |
|---|---|
| `AuthorityInvariance` | `AuthoritySpec => []AuthorityIInv` |
| `OneOutcomeEach` | `AuthoritySpec => []OneOutcome` |
| `RepairsAreFrozen` | `AuthoritySpec => []RepairsHold` |
| `Reportable` | `AuthoritySpec => []ScheduledIsReportable` |

`OutcomeInv` puts the records of one execution in their order (ticket, candidate, submission, verdict, or a failure instead), `TicketInv` says that a trial of the
cohort has one ticket and a repair is of its parent's trial, `StudyInv` that what a session of `reserve_study` has behind it is in the catalogue, so that a schedule, whoever
writes it, is of planned tickets. `BudgetInv` is what makes the frozen selection inductive: a repair reserved under a study means that the whole initial cohort is decided,
and decided records are never added to or taken away (`SelectionStays`). The assisted budget is a sum over repairs; as in the queue it is the
cardinality of a set with one element per request (`RequestsAdd`).

**Admission.** `AdmissionProofs` proves, for any task directories, request and policy documents, command lines and number of changes by other programs
(`AdmissionAssumption` and `DocumentsAssumption` give the fields of the documents their types; `RegistryAssumption`: a registry that approves a tree lists the
specifications of that very tree, which `RunsTheApproved` needs: only
with it is the manifest that was loaded at the start the one of the tree that was approved and runs):

| Theorem | States |
|---|---|
| `AdmissionInvariance` | `Spec => []IInv` |
| `NothingBeforeAdmission` | `Spec => []AdmittedFirst` |
| `RunsTheApproved` | `Spec => []RunsWhatWasApproved` |
| `SpendingStaysBounded` | `Spec => []SpendingIsBounded` |
| `EvidenceAlwaysReplays` | `Spec => []EvidenceReplays` |

The invariant goes with the labels: `PreflightInv` (the preflight decision is `Admit` of its own input), `AdmittedInv` (it admits and is written before anything
else happens), `ExecutionInv` (the execution decision admits, `Continues` the preflight one and names an image of the platform), `NodesInv` (the nodes hold that image), `TrialInv` (trials
before this one stayed within the usage). `RanInv` is the point of the second validation before each trial: what was hashed, scanned and imported may have changed since, and the replay
(`ReplaySays`) shows that the decision is still the one the host as it is now would get. `SpendingStaysBounded` also needs that a limit is the least of the thresholds there are
(`MinOfThree`, `LeastThreshold`).

`WorkbenchProofs` proves, for any experiments, worlds among them, keys, reviewers and bounds (`WorkbenchAssumption`: finitely many
experiments, and `None` is none of the values used):

| Theorem | States |
|---|---|
| `WorkbenchInvariance` | `Spec => []IInv` |
| `NoteIsRead` | `Spec => []ReadBeforeWritten` |
| `OneLaunch` | `Spec => []OneExperimentPerKey` |
| `EarnedPass` | `Spec => []PassIsEarned` |
| `BackupOfOneMoment` | `Spec => []BackupIsOneMoment` |
| `UnconfirmedIsKept` | `Spec => KeepsUnconfirmed` |

`IInv` says who has which lock and what follows. `LaunchInv`: a launch or backup under way has the catalogue, so between its two halves no record
or key appears. `WorkerInv`: the worker has the lock of its journal, whose directory is there and whose trial runs. `ExpiryInv`: retention has the
lock, its trial is not unconfirmed, and from the purge on there is a tombstone; this is why removing file by file stays
sound although the state was only read at the beginning. `OutsideInv`: what `agent-eval experiment run` executes it has the lock of. `GateInv`: what a decision read of an ended trial is still so when it is stored, because an ended
trial never changes (`EndedStays`), and of one that had not ended it is inconclusive anyway. `BackupInv` follows a backup: while it takes its locks (`LockingInv`), what it has locked opens, and
what it found and has not locked is still to do; with the last lock (`MomentInv`), the catalogue, rows and files of what it found are those of that moment, but for requests to
cancel, which are only added; what it lists and copies agrees with that (`ListInv`, `CopyInv`). `DiskMoves`, `RowMoves` and `LockStays` say who can move a directory, a row or a
lock: for what the backup has locked, nobody; journals made, run or cancelled outside are not among it, or only gain a `cancel.json`. The frame lemmas (`RecordFrame`, `JournalFrame`, `ProcessFrame`,
`LockFrame`) say which actions touch which of these.

`MigrationProofs` proves, for any runs, any releases the stored state may come from, and any number of failing calls and kills
(`StateStoreAssumption`: neither the database nor `None` is a run):

| Theorem | States |
|---|---|
| `MigrationInvariance` | `Spec => []IInv` |
| `CommittedSurvives` | `Spec => []CommittedBytesSurvive` |
| `AllOrNothing` | `Spec => []SaveIsAllOrNothing` |
| `OneMoment` | `Spec => []InstalledIsOneMoment` |
| `NeverReplaced` | `Spec => DestinationIsNeverReplaced` |

The part about saving, `StoreInv`, says what there is of a run by how far its process has come: as before (`Untouched`), with an empty file under the backup's name (`Reserved`), moved aside
(`Aside`), the new one published (`Shown`), committed (`Kept`), or taken back (`Undone`, where only a failed undoing leaves the old record under another name, and only a failed `Unlink` the record lost, `Lost`); a
killed process leaves one of these, hence `Standing`. A step of one process touches no other run (`Elsewhere`), so the argument is about one run. The part about the migration is a chain
of three: what was listed is there and is looked at (`ScanInv`); an entry that was copied and has not changed since is that of the source (`CopyInv`); it was
that of the source when the copying ended, for sure once the second look found it unchanged (`CutInv`). The last one is the point of the double check of fingerprints: a change behind the copier's
back is either seen or came after the cut. It rests on `SavingShows`: whatever a save does to an entry gives it another fingerprint, and directories stay.

`AttestationProofs` proves, for any events, any length of a trail, any further files and any number of changes by others:

| Theorem | States |
|---|---|
| `AttestationInvariance` | `Spec => []IInv` |
| `AcceptedIsAcknowledged` | `Spec => []AcceptedTrailIsAcknowledged` |
| `VerifiedIsWhole` | `Spec => []VerifiedRunIsWhole` |
| `AttestedVerifies` | `Spec => []AttestedButNested` |

The heart is `HashDeterminesTrail`, a fact about sequences: lines that continue one another and end in the hash of some events are the lines written for
those events. It is an induction from the last line to the first, done by the last counterexample (`Greatest`): were some line not as written, its successor is, and holds
its hash. Conversely `WrittenVerifies`. `IInv` then only has to say that the recorded hash and count are those of the acknowledged events (`ChainInv`, `SavedInv`); nothing about the
file is needed, which is why any damage is covered. For `AttestedVerifies` it also says that until an error or a change by others the file is what was
acknowledged (`FileInv`), and what the runner noted and bound is what is there (`NoteInv`, `BoundInv`, under `quiet`): all regular files but those in `Nested`, so that these are
all the verifier can miss. All of it rests on SHA-256 being injective, which is how `Trail` models it.

`GovernedRunProofs` proves, for any trials (what is admitted, what its task needs) and any number of failing steps
(`TaskAssumption`: a governed trial is isolated; `NoneAssumption`: `None` is no Boolean, no error and no attestation):

| Theorem | States |
|---|---|
| `GovernedInvariance` | `Spec => []IInv` |
| `GovernedTypes` | `Spec => []TypeOK` |
| `LetsGo` | `Spec => []NothingLeftSilently` |
| `Earned` | `Spec => []AcceptedIsEarned` |
| `SoundScans` | `Spec => []VerifiedScansAreSound` |
| `SoundDecisions` | `Spec => []DecisionVerifies` |

`IInv` follows the trial by its label. `HeldInv` says where the process may have a handle on what, and that it still has one at the end only of pods that come after one that
resisted and whose error could not be written down (`TeardownFailsStep`), `StrayInv` that what may be left behind is known to the record,
unless an exception takes the record away; together they give `LetsGo`. `FaultInv` does the same for every failure, and is where the order of the code shows: a
scanner that failed or a judge that gave no score is known to the *evidence* only, until `Complete` looks at it (`Suspect`). `AttestedInv` carries this over the
attestation, beyond which a run may still throw, be completed a second time or be killed; with it and the verifier's own checks follows `Earned`.
`TrailInv` is the converse: while nothing has gone wrong, the trail has been `Told` exactly so far, each event fitting what the record says of it, and `ToldVerifies` shows
that a trail told to its end is what `audit_lifecycle_failures` accepts. `SoundScans` needs no behaviour but a fact about the phase, `AssuredIsSound`: each
conjunct of the assurance and each check of a tool is used for one reason why what was scanned is what was admitted. It holds of every summary in `Phases`, whose
bounds (one change, one tool that ends badly) it keeps; nothing in its argument counts changes of different materials.

*Only model-checked:* liveness (`Settles`, `CancelDrains`, `WorkSettles`, `SessionsEnd`), which is out of the prover's reach. The inductive invariants
of `Bridge`, `Authority` and `Admission` were checked by TLC on the instances of their runs before they were proved. The type
invariants of the modules whose proofs use another one are definitions a reader can add to a run; the listed runs spend their properties elsewhere.

## 5. Where the code and its documentation disagree

1. **A completed experiment may be undecidable** (run `workbench_state`). `docs/workbench.md:103`: "Missing evidence and insufficient families are inconclusive."
   A trial of a state world whose call raised completes without a state receipt (`service.py:128-152`, `executor.py:95-120`); `state_evidence` then raises for the whole experiment
   (`service.py:88-95`), and with it `detail`, `comparison` and `gate`: it can no longer be shown, compared or decided.
2. **A saved observation may never be graded** (`MCJournalGrading.cfg`). `docs/experiments.md:42`:
   "Resume grades any saved observations and then runs cases that have never
   started." A session stops after sealing an answer and before grading it; someone
   cancels; every later resume returns (`executor.py:41`) or breaks (`executor.py:56-58`) before
   the row is graded.
3. **Submitting can repeat a call** (`MCBridgeReplay.cfg`). `executor.py:1` "never replay ambiguous
   calls", `docs/experiments.md:100` "No force-retry command is provided." `enqueue_experiment`
   also enqueues rows a crashed local `execute` left `running` or
   `reconciliation_required` (`bridge.py:35-40`).
4. **Admitting a repair can cost a study its report** (`MCAuthorityUpgrade.cfg`). `contracts/v2/README.md:54`:
   "Repair attempts link to a prior execution and remain separate from first-attempt comparisons."
   `reserve` does not compare a repair's evaluator with its parent's or the study's
   (`authority.py:266-276`); once the evaluator was upgraded, an admitted repair makes `study_report` raise
   (`studies.py:361-370`), and a ticket is never removed.
5. **A docker time-out hides an owned container** (`MCEvaluationTimeout.cfg`). `contracts/v2/README.md:15`: "An owned
   container can be reconciled without restarting it." A `TimeoutExpired` inside the observer is taken for an error of
   the target (`executor.py:95-96`) and sealed; every later `evaluate` is `evaluation_unavailable`
   (`execution.py:163-170`) while the container is there.
6. **A hostile workspace is an outage** (`MCGovernedRunHostile.cfg`). `evaluators/tests.py:121-122`: "A hostile or structurally unsafe
   submission is a rejected result, not an infrastructure outage." A workspace that cannot be copied safely gets a result
   without an evaluation mode (`runner.py:3443`); for a governed run the default, cooperative, is missing evidence
   (`runner.py:1150-1153`), and the outcome is `infra_error`.
7. **An attested run may never verify** (`MCAttestationNested.cfg`). `attestation.py:891-892`: "every regular file under ``artifact_root`` is included
   except the output statement and sidecar." The runner leaves out every file of that name at any depth (`runner.py:912-923`), so also
   one in the agent's workspace, which the verifier then reports as unattested.
8. **A note may outlive its experiment** (`MCWorkbenchRetention.cfg`). `docs/workbench.md:156`: "`--execute` deletes that specific idle experiment's journal, annotations, ...".
   The annotation route looks the trial up and inserts the note later (`api.py:409-419`); between the purge and the end of the removal (`lifecycle.py:149-178`) the note is stored,
   and a repeated expire returns at once (`lifecycle.py:124-126`).
9. **Cancelling can hide a call** (`MCBridgeCancel.cfg`). `docs/experiments.md:197-199`: "A stopped active invocation without a sealed observation becomes
   reconciliation-required because external effects may already have occurred." `cancel_experiment` takes a row the queue does not know for one that
   never ran, and marks it cancelled (`bridge.py:119-122`), also when `execute` had called it and made it `reconciliation_required`.
10. **A save that fails can empty the record** (`MCMigrationEmptied.cfg`). `tests/test_state.py:947` asserts that a save which fails before its commit leaves
    `results.read_bytes() == original_file`. If removing the empty file that reserves the backup's name raises (`metrics.py:1107`), the undoing takes that file for the
    backup and moves it over `results.json` (`metrics.py:1129-1130`): the database keeps the old record, the file is empty.
11. **A part of a candidate can be assessed as the whole** (`MCEvaluationTree.cfg`). `contracts/v2/README.md:13`: an assessment "binds the exact submission, candidate, ...".
    The submitted tree is copied file by file, and only where `candidate/` is not there yet (`boundary.py:71-75`); after a crash in between, the next session runs and assesses
    what there is.

The runner writes down each pod of an evaluation it could not delete; where that fails too, the pods after it are never tried (`runner.py:2463-2475`). The run
is then an infrastructure error, and no document promises more; `NothingLeftSilently` names the case.

Met while modelling `GovernedRun`, and left out of what `DecisionVerifies` claims: a governed record that is rejected because its tree is unsafe
never verifies, since `judge.skipped` then says "integrity" where the verifier of a run without a judge wants "disabled" (`runner.py:2733`,
`verification.py` 336-343); nor does one whose diff was cut short, since `tests.completed` was written before (`runner.py:2797-2808`). An
unverifiable rejection errs on the safe side, and no document promises more.

Met while modelling the workbench: a process that dies while `expire` removes files, or while a launch or `agent-eval experiment run` makes them, may leave a directory that `Journal.open` refuses; no later expire of that experiment
gets past it, and no later backup either, since both open every journal they lock (`lifecycle.py:39`, `lifecycle.py:178`). Expiring again with another reason than the tombstone's is a
conflict of an immutable record. In the queue: `claim` takes the first row by id that fits, so a row whose Job the quota refuses again and
again is served before others (`postgres.py:166`); a worker that dies between the settlement of a row and the removal of its Job leaves the Job without an event that says so (`worker.py:77-88`), to its TTL; a refused Job whose lease was lost
meanwhile becomes ambiguous although nothing ran (`worker.py:128`). In an evaluation: a crash between assessment and cleanup leaves an exited container (`execution.py:222`). None of
these repeats a call or loses evidence.

## 6. What is not modelled

* Changes by others: outside of `Trail`, `Attestation` and `Admission`, files and rows are only changed by the
  program. Digest and identity checks of the other modules therefore never fail, except through the program's own histories
  (`NeverRefused`, `CollectNeverRefused`).
* Changed evaluators, targets and files: the session ends (`Crash`).
* The journal's migration from schema 1, SQLite's and PostgreSQL's own recovery.
* Candidates: registration of bases, recipes, suites and policies; patch verification; the paired statistics of a
  report; `bundles.py`. `study_report` reads three kinds of records in transactions of their own: a report made during
  other writes is not modelled, only whether one can be made. A first attempt reserved by hand in a study's
  cohort makes the report raise for good (`studies.py:320-323`); `ScheduledIsReportable` names that as
  an exception, as it does a repair with a later evaluator. A crash between the assessment and `cleanup`
  leaves the exited container, because a later `evaluate` returns early.
* The governed runner: building images, parsing `task.yaml`, judge prompts and the findings of a scanner, leases of
  credentials, the protocol of exec and copy in a pod, paths and permissions of run directories.
* State and metrics: the readers and reports over stored results, the modes of files.
* A backup copies all of the state directory. What is not an experiment's journal or the catalogue (runs, results) is under no lock of it and in no module;
  `docs/workbench.md:154` promises locks for idle journals only.
* Workbench: `restore` (it refuses an existing directory and checks digests), paired runs, the catalogue's own audit chain, bearer tokens and OIDC, datasets
  and their quarantine, imported reports, rendering and routing.
* Roles, credentials and row-level security of the queue; outbox acknowledgement.
* Candidate bundles and their investigation, source and trace inspection, `blackbox/` apart from what a call and a grade are, reviewer benchmarks, metrics and
  statistics, agents, scripts: parsing, formatting and pure computation over stored evidence, external processes, and build tooling. They keep no state that
  several actors share; what is worth stating about them are formulas.

## 7. Plan

1. *(done)* `TrialLifecycle`, `Journal`, `WorkQueue`, `Fleet`, `Bridge`, with `JournalProofs` and `FleetProofs`.
2. *(done)* `Authority` and `Evaluation`, with `CandidateProofs`. Left: `Evaluation` as an instance of `Journal` instead of its reduction,
   and as the refinement of `Authority`'s `StoreAssessment`.
3. *(done)* `Workbench`, `WorkbenchProofs`. Left: the catalogue's audit chain, datasets, restore, paired runs.
4. `Jobs`: the life of a Kubernetes Job (creation refused or uncertain, UID-fenced
   deletion, evidence), refining the single calls of `Fleet`.
5. *(done)* `GovernedRun`, `Scanners`, `Admission`, `Trail`, `Attestation`, `StateStore`, `Migration`. Left: their composition into one behaviour.
6. `Algorithms`: matching of findings, paired statistics and metric formulas as operators
   against reference definitions on bounded inputs.
7. Proofs: *(done)* every safety invariant, action property and refinement the passing runs check. Left: that `Bridge` uses the queue within `WorkQueue`'s contract, and the
   refinements of points 2 and 4 once they are stated.
