------------------------------ MODULE Admission ------------------------------
(***************************************************************************)
(* Governed admission: `agent-eval run` with a request and a policy bundle *)
(* (cli.py, governance.py, runner.py).  Admission is decided twice, before *)
(* anything is touched and again for the exact image; both decisions are   *)
(* replayed before every trial, from what the host holds at that moment.   *)
(* Other programs may change the task directory, the scanners and the      *)
(* Docker images between any two reads.  A digest stands for what it is    *)
(* the digest of.  Token and cost thresholds are treated alike in the      *)
(* code: one quantity, usage, stands for both.                             *)
(***************************************************************************)
EXTENDS Naturals, Sequences, FiniteSets, FiniteSetsExt

CONSTANTS Requests,    \* request documents
          Bundles,     \* policy documents
          Commands,    \* command lines: [agent, model, trials, scan, judge, broker]
          Manifests,   \* [content of task.yaml -> the task it describes]
          Platforms,   \* what the Docker server may run on
          Usage,       \* what a trial may turn out to have used
          MaxChanges,  \* bound: changes made by other programs
          None

Content == DOMAIN Manifests
Foreign == 0           \* an image nobody approved, a tree copied half way

ASSUME AdmissionAssumption ==
  /\ Foreign \notin Content /\ MaxChanges \in Nat /\ Usage \subseteq Nat /\ None \notin Nat
  /\ \A c \in Commands : c.trials \in Nat

(* What the fields of the documents are; a judge's entry has no thresholds. *)
ASSUME DocumentsAssumption ==
  /\ \A q \in Requests :
       q \in [schema : {"v1", "v2"}, task : {q.task}, agent : {q.agent}, model : {q.model},
             class : {q.class}, maxUsage : Nat \cup {None}]
  /\ \A c \in Content : LET t == Manifests[c] IN
       t.agentSeconds \in Nat /\ t.evalSeconds \in Nat /\ t.maxUsage \in Nat \cup {None}
  /\ \A b \in Bundles :
       /\ b.rules.maxTrials \in Nat /\ b.rules.maxUsage \in Nat
       /\ b.rules.maxAgentSeconds \in Nat /\ b.rules.maxEvalSeconds \in Nat
       /\ \A m \in b.models : m # None /\ (m.adapter # "judge:claude" => m.maxUsage \in Nat)
       /\ \A e \in b.tasks : e # None /\ \A i \in e.images :
            i # None /\ i = [digest |-> i.digest, ref |-> i.ref, platform |-> i.platform]

(* A registry lists the specifications of the very tree it approves.       *)
ASSUME RegistryAssumption ==
  \A b \in Bundles : \A e \in b.tasks : \A s \in e.specs : s.manifest = s.tree

VARIABLES tree, scanner, daemon, nodes, platform, changes,  \* the host
          pc, command, loaded, request, bundle, seen, snapshot, trial,
          preflight, execution,                             \* the process
          admission,   \* the admission directory: what of it is written
          ran          \* history: the trials that started

host    == <<tree, scanner, daemon, nodes, platform, changes>>
asked   == <<command, loaded, request, bundle>>
vars    == <<host, pc, asked, seen, snapshot, trial, preflight, execution,
             admission, ran>>

-----------------------------------------------------------------------------
(* Documents.                                                              *)

(* EvaluationRequest: a v1 document is read under the v2 names.            *)
Normalised(q) == [q EXCEPT !.schema = "v2"]

(* The validators of GovernanceRules, TaskRegistryEntry and its images,    *)
(* TaskRegistry and ModelRegistry.                                         *)
RulesOK(r) == r.scansRequired => r.scanners # {}
ImageOK(i, t) == i.ref = <<t, i.digest>>
EntryOK(e) ==
  /\ e.specs # {} /\ e.images # {}
  /\ \A i \in e.images : ImageOK(i, e.task)
  /\ \A i, j \in e.images : i.platform = j.platform => i = j
TasksOK(tasks) ==
  tasks # {} /\ \A e, f \in tasks : EntryOK(e) /\ (e.task = f.task => e = f)
ModelsOK(models) ==
  \A m, n \in models : m.adapter = n.adapter /\ m.model = n.model => m = n
BundleOK(b) == b.schema = "v2" /\ RulesOK(b.rules) /\ TasksOK(b.tasks) /\ ModelsOK(b.models)

(* The one element of S, or None. *)
Only(S) == IF S = {} THEN None ELSE CHOOSE x \in S : TRUE

-----------------------------------------------------------------------------
(* Admission: the codes a request is refused with, none of which admits.   *)

Unless(condition, code) == IF condition THEN {} ELSE {code}

StageDenials(stage, in) ==
  IF stage = "preflight" THEN Unless(in.image = None, "image_digest_unexpected")
  ELSE IF in.image = None THEN {"image_digest_invalid", "image_identity_invalid"}
  ELSE Unless(ImageOK(in.image, in.task), "image_identity_mismatch")

MatchedTask(b, in) == Only({e \in b.tasks : e.task = in.task})
TaskDenials(stage, e, in) ==
  IF e = None THEN {"task_not_registered"}
  ELSE Unless(e.status = "approved", "task_unapproved")
       \cup Unless(in.tree = e.tree, "task_tree_not_approved")
       \cup Unless(in.spec \in e.specs, "execution_spec_not_approved")
       \cup Unless(stage = "execution" => in.image \in e.images, "task_image_not_approved")

(* Mutant of BindingDenials: a --model other than the request's goes by. *)
BindingDenialsButModel(q, r, in) ==
  Unless(in.task = q.task, "task_mismatch")
  \cup Unless(in.agent = q.agent, "agent_mismatch")
  \cup Unless(in.agent # "codex", "coding_model_observation_unsupported")
  \cup Unless(in.task \in r.tasks, "task_not_allowed")
  \cup Unless(q.class \in r.classes, "data_classification_not_allowed")
  \cup Unless(in.network \in r.networks, "network_mode_not_allowed")

BindingDenials(q, r, in) ==
  Unless(in.task = q.task, "task_mismatch")
  \cup Unless(in.agent = q.agent, "agent_mismatch")
  \cup Unless(in.model = q.model, "model_mismatch")
  \cup Unless(in.agent # "codex", "coding_model_observation_unsupported")
  \cup Unless(in.task \in r.tasks, "task_not_allowed")
  \cup Unless(q.class \in r.classes, "data_classification_not_allowed")
  \cup Unless(in.network \in r.networks, "network_mode_not_allowed")

EgressDenials(r, in) ==
  IF in.network # "proxy" THEN {}
  ELSE Unless(in.domains \subseteq r.domains, "egress_domain_not_allowed")
       \cup Unless(in.proxy \in r.proxies, "proxy_image_not_allowed")

ScannerDenials(r, in) ==
  IF in.scans
  THEN Unless(in.scanner.id \in r.scanners, "scanner_identity_not_allowed")
       \cup Unless(in.scanner.ready, "scanner_identity_incomplete")
  ELSE Unless(~r.scansRequired, "scans_required")

MatchedJudge(b, in) ==
  IF ~in.judge \/ in.judgeBackend # "claude" THEN None
  ELSE Only({m \in b.models : m.adapter = "judge:claude" /\ m.model = in.judgeModel})
EntryDenials(e, q) ==
  IF e = None THEN {"not_registered"}
  ELSE Unless(e.status = "approved", "model_unapproved")
       \cup Unless(q.class \in e.classes, "model_classification_not_allowed")
JudgeDenials(q, r, e, in) ==
  IF in.judge
  THEN Unless(in.scans, "judge_requires_scans")
       \cup IF in.judgeBackend = "codex" THEN {"judge_model_observation_unsupported"}
            ELSE EntryDenials(e, q)
  ELSE Unless(~r.judgeRequired, "judge_required")

ResourceDenials(r, in) ==
  Unless(r.brokerRequired => in.broker, "broker_credentials_required")
  \cup Unless(in.trials \in 1..r.maxTrials, "trial_limit_exceeded")
  \cup Unless(in.agentSeconds <= r.maxAgentSeconds, "agent_timeout_exceeded")
  \cup Unless(in.evalSeconds <= r.maxEvalSeconds, "eval_timeout_exceeded")

MatchedModel(b, in) == Only({m \in b.models : m.adapter = in.agent /\ m.model = in.model})

(* Mutant of Thresholds: the request's own threshold is forgotten. *)
ThresholdsOfPolicy(q, r, e) == {r.maxUsage} \cup (IF e = None THEN {} ELSE {e.maxUsage})

Thresholds(q, r, e) ==
  {r.maxUsage} \cup ({q.maxUsage} \ {None}) \cup (IF e = None THEN {} ELSE {e.maxUsage})
EffectiveLimits(q, r, e) ==
  [trials |-> r.maxTrials, agentSeconds |-> r.maxAgentSeconds,
   evalSeconds |-> r.maxEvalSeconds, usage |-> Min(Thresholds(q, r, e))]

(* evaluate_admission: the decision carries what it was decided from.      *)
Admit(stage, q, b, in, parent) ==
  LET e == MatchedTask(b, in)
      m == MatchedModel(b, in)
      j == MatchedJudge(b, in)
      denials == StageDenials(stage, in) \cup TaskDenials(stage, e, in)
                 \cup BindingDenials(q, b.rules, in) \cup EgressDenials(b.rules, in)
                 \cup ScannerDenials(b.rules, in) \cup JudgeDenials(q, b.rules, j, in)
                 \cup ResourceDenials(b.rules, in) \cup EntryDenials(m, q)
  IN [stage |-> stage, parent |-> parent, request |-> q, bundle |-> b, input |-> in,
      reasons |-> denials, limits |-> EffectiveLimits(q, b.rules, m),
      task |-> e, model |-> m, judgeEntry |-> j]

Allowed(d) == d.reasons = {}

(* validate_execution_continuity: the image is all that is new. *)
Continues(p, e) ==
  /\ p.stage = "preflight" /\ Allowed(p) /\ p.input.image = None
  /\ e.stage = "execution" /\ e.parent = p
  /\ [e EXCEPT !.stage = p.stage, !.parent = p.parent, !.input.image = None] = p

-----------------------------------------------------------------------------
(* What the host says of a run: the task as it was loaded, its tree, and   *)
(* the scanners as they are.                                               *)

Judged(cmd, t) == cmd.judge /\ t.judge # None
ExecutionSpec(cmd, manifest, files) ==
  [manifest |-> manifest, tree |-> files, scans |-> cmd.scan,
   judge |-> Judged(cmd, Manifests[manifest])]

Evidence(cmd, model, manifest, files, scan, image, trials) ==
  LET t == Manifests[manifest] IN
  [task |-> t.task, agent |-> cmd.agent, model |-> model, trials |-> trials,
   network |-> t.network,
   domains |-> IF t.network = "proxy" THEN {cmd.agent} \cup t.domains ELSE {},
   proxy |-> IF t.network = "proxy" THEN t.proxy ELSE None,
   scans |-> cmd.scan, scanner |-> IF cmd.scan THEN scan ELSE None,
   judge |-> Judged(cmd, t),
   judgeBackend |-> IF Judged(cmd, t) THEN t.judge.backend ELSE None,
   judgeModel |-> IF Judged(cmd, t) THEN t.judge.model ELSE None,
   broker |-> cmd.broker, agentSeconds |-> t.agentSeconds, evalSeconds |-> t.evalSeconds,
   tree |-> files, spec |-> ExecutionSpec(cmd, manifest, files), image |-> image]

SelectedModel == IF command.model = None THEN request.model ELSE command.model
Observed(files, image, trials) ==
  Evidence(command, SelectedModel, loaded, files, scanner, image, trials)

(* Mutant of Replays: the decision is believed without a look at the host. *)
ReplaysOnTrust(d, files, n) == Allowed(d) /\ n <= d.limits.trials /\ n <= d.input.trials

(* _validate_governance_decision: the decision, replayed from the files    *)
(* and the scanners of now, is the one it was.                             *)
Replays(d, files, n) ==
  /\ Allowed(d)
  /\ n <= d.limits.trials /\ n <= d.input.trials
  /\ Admit(d.stage, request, bundle, Observed(files, d.input.image, d.input.trials),
           d.parent) = d
(* _governed_task: what the task asks for, cut to what was admitted.       *)
Least(a, limit) == IF a = None THEN limit ELSE Min({a, limit})
Governed(t, d) ==
  [agentSeconds |-> Least(t.agentSeconds, d.limits.agentSeconds),
   evalSeconds |-> Least(t.evalSeconds, d.limits.evalSeconds),
   usage |-> Least(t.maxUsage, d.limits.usage)]

-----------------------------------------------------------------------------
Init ==
  /\ tree \in Content /\ scanner \in [id : {1}, ready : BOOLEAN]
  /\ platform \in Platforms
  /\ daemon = <<>> /\ nodes = <<>> /\ changes = 0
  /\ pc = "load" /\ command \in Commands /\ loaded = None
  /\ request \in Requests /\ bundle \in Bundles
  /\ seen = None /\ snapshot = None /\ trial = 0
  /\ preflight = None /\ execution = None /\ admission = {} /\ ran = {}

Goto(from, to) == pc = from /\ pc' = to
Stop(from) == Goto(from, "stopped")

(* The command line: both files or neither, a built-in adapter, a task     *)
(* scored by an isolated black box; then the two documents.                *)
Load ==
  /\ pc = "load"
  /\ loaded' = tree
  /\ IF Manifests[tree].isolated /\ command.agent \in {"claude-code", "codex"} /\ BundleOK(bundle)
     THEN pc' = "cli.hash" /\ request' = Normalised(request)
     ELSE pc' = "stopped" /\ UNCHANGED request
  /\ UNCHANGED <<host, command, bundle, seen, snapshot, trial, preflight, execution,
                 admission, ran>>

(* hash_tree, wherever it is called on the task directory. *)
Hash(from, to) ==
  /\ Goto(from, to)
  /\ seen' = tree
  /\ UNCHANGED <<host, asked, snapshot, trial, preflight, execution, admission, ran>>

Preflight ==
  /\ Goto("cli.hash1", "persist")
  /\ preflight' = Admit("preflight", request, bundle, Observed(seen, None, command.trials), None)
  /\ UNCHANGED <<host, asked, seen, snapshot, trial, execution, admission, ran>>

(* _persist_admission writes request, bundle and decision in turn, and the *)
(* cli the execution decision later: any write may fail.                   *)
Persist ==
  /\ pc = "persist"
  /\ \E written \in {{}, {"request"}, {"request", "bundle"},
                     {"request", "bundle", "preflight"}} :
       /\ admission' = written
       /\ pc' = IF "preflight" \in written /\ Allowed(preflight) THEN "prepare.hash"
                ELSE "stopped"
  /\ UNCHANGED <<host, asked, seen, snapshot, trial, preflight, execution, ran>>

(* prepare_governed_execution. *)
ValidatePreflight(from, n, next) ==
  /\ pc = from
  /\ pc' = IF Replays(preflight, seen, n) THEN next ELSE "stopped"
  /\ UNCHANGED <<host, asked, seen, snapshot, trial, preflight, execution, admission, ran>>

(* _snapshot_governed_task: a copy of the directory, which may change      *)
(* under the copy, hashed after it.                                        *)
TakeSnapshot(from, next) ==
  /\ pc = from
  /\ \E copy \in {tree, Foreign} :
       /\ snapshot' = copy
       /\ pc' = IF /\ copy = preflight.input.tree
                   /\ ExecutionSpec(command, loaded, copy) = preflight.input.spec
                THEN next ELSE "stopped"
  /\ UNCHANGED <<host, asked, seen, trial, preflight, execution, admission, ran>>

ApprovedImage == Only({i \in preflight.task.images : i.platform = platform})

(* _finalize_execution_decision, on the snapshot and the approved image.   *)
Finalize ==
  /\ pc = "finalize"
  /\ LET d == Admit("execution", request, bundle,
                    Observed(snapshot, ApprovedImage, preflight.input.trials), preflight)
     IN IF ApprovedImage # None /\ Allowed(d) /\ Continues(preflight, d)
        THEN execution' = d /\ pc' = "image"
        ELSE pc' = "stopped" /\ UNCHANGED execution
  /\ UNCHANGED <<host, asked, seen, snapshot, trial, preflight, admission, ran>>

Held(images, ref) == IF ref \in DOMAIN images THEN images[ref] ELSE None
With(images, ref, digest) ==
  [r \in DOMAIN images \cup {ref} |-> IF r = ref THEN digest ELSE images[r]]
Wanted == execution.input.image

(* ensure_image: the daemon must hold the approved manifest; the nodes     *)
(* hold it already or are given what the daemon holds by then, and must    *)
(* hold it after.                                                          *)
LocalImage ==
  /\ pc = "image"
  /\ pc' = IF Held(daemon, Wanted.ref) # Wanted.digest THEN "stopped"
           ELSE IF Held(nodes, Wanted.ref) = Wanted.digest THEN "record" ELSE "import"
  /\ UNCHANGED <<host, asked, seen, snapshot, trial, preflight, execution, admission, ran>>

(* Mutant of NodesAccept: an import that succeeded is taken to be right. *)
NodesAcceptImport == Wanted.ref \in DOMAIN nodes

NodesAccept == Held(nodes, Wanted.ref) = Wanted.digest
Import ==
  /\ pc = "import"
  /\ \/ /\ Wanted.ref \in DOMAIN daemon
        /\ nodes' = With(nodes, Wanted.ref, daemon[Wanted.ref])
        /\ pc' = "imported"
     \/ pc' = "stopped" /\ UNCHANGED nodes
  /\ UNCHANGED <<tree, scanner, daemon, platform, changes, asked, seen, snapshot, trial,
                 preflight, execution, admission, ran>>

Imported ==
  /\ pc = "imported"
  /\ pc' = IF NodesAccept THEN "record" ELSE "stopped"
  /\ UNCHANGED <<host, asked, seen, snapshot, trial, preflight, execution, admission, ran>>

(* Mutant of RecordExecution: a failed write does not stop the run. *)
RecordExecutionIfPossible ==
  /\ pc = "record"
  /\ pc' = "trial.hash" /\ trial' = 1
  /\ admission' \in {admission, admission \cup {"execution"}}
  /\ UNCHANGED <<host, asked, seen, snapshot, preflight, execution, ran>>

RecordExecution ==
  /\ pc = "record"
  /\ \/ admission' = admission \cup {"execution"} /\ pc' = "trial.hash" /\ trial' = 1
     \/ pc' = "stopped" /\ UNCHANGED <<admission, trial>>
  /\ UNCHANGED <<host, asked, seen, snapshot, preflight, execution, ran>>

(* _run_agent_trial_impl: the preflight is replayed on the directory, the  *)
(* execution decision on the trial's own snapshot, and evidence made of it.*)
EvidenceOK(d) ==
  /\ Allowed(d) /\ d.stage = "execution" /\ d.parent # None /\ d.input.image # None
  /\ d.task # None /\ d.task.status = "approved" /\ d.task.tree = d.input.tree
  /\ d.input.spec \in d.task.specs
  /\ d.input.scans => d.input.scanner.ready
  /\ d.input.judge => d.judgeEntry # None

StartTrial ==
  /\ pc = "trial.start"
  /\ IF /\ Replays(execution, snapshot, trial) /\ Continues(preflight, execution)
        /\ EvidenceOK(execution)
     THEN /\ ran' = ran \cup
               {[trial |-> trial, tree |-> snapshot, manifest |-> loaded, scanner |-> scanner,
                 node |-> Held(nodes, Wanted.ref),
                 limits |-> Governed(Manifests[loaded], execution), used |-> None]}
          /\ pc' = "trial.run"
     ELSE pc' = "stopped" /\ UNCHANGED ran
  /\ UNCHANGED <<host, asked, seen, snapshot, trial, preflight, execution, admission>>

(* Mutant of MayGoOn: usage nobody observed counts as none. *)
MayGoOnUnobserved(used) == used = None \/ used <= execution.limits.usage

(* _governed_usage_stop_reason: usage nobody observed stops the run too.   *)
MayGoOn(used) == used # None /\ used <= execution.limits.usage
EndTrial ==
  /\ pc = "trial.run"
  /\ \E used \in Usage \cup {None} :
       /\ ran' = {IF r.trial = trial THEN [r EXCEPT !.used = used] ELSE r : r \in ran}
       /\ IF trial < command.trials /\ MayGoOn(used)
          THEN pc' = "trial.hash" /\ trial' = trial + 1
          ELSE pc' = "stopped" /\ UNCHANGED trial
  /\ UNCHANGED <<host, asked, seen, snapshot, preflight, execution, admission>>

-----------------------------------------------------------------------------
(* Other programs.                                                         *)

Changed == pc # "stopped" /\ changes < MaxChanges /\ changes' = changes + 1
Rest == UNCHANGED <<nodes, platform, pc, asked, seen, snapshot, trial, preflight,
                    execution, admission, ran>>

EditTask == Changed /\ tree' \in Content \ {tree} /\ Rest /\ UNCHANGED <<scanner, daemon>>
ChangeScanner ==
  /\ Changed /\ scanner' \in [id : {1, 2}, ready : BOOLEAN] \ {scanner}
  /\ Rest /\ UNCHANGED <<tree, daemon>>
(* An image is built, loaded or retagged; a content-derived reference may  *)
(* come to name something else.                                            *)
Refs == UNION {UNION {{i.ref : i \in e.images} : e \in b.tasks} : b \in Bundles}
ChangeImage ==
  /\ pc # "stopped"
  /\ \E ref \in Refs, right \in BOOLEAN :
       /\ daemon' = With(daemon, ref, IF right THEN ref[2] ELSE Foreign)
       /\ daemon' # daemon
       /\ IF right /\ ref \notin DOMAIN daemon THEN UNCHANGED changes ELSE Changed
  /\ Rest /\ UNCHANGED <<tree, scanner>>

Next ==
  \/ Load \/ Preflight \/ Persist \/ Finalize
  \/ Hash("cli.hash", "cli.hash1")
  \/ Hash("prepare.hash", "prepare") \/ ValidatePreflight("prepare", 1, "prepare.copy")
  \/ TakeSnapshot("prepare.copy", "finalize")
  \/ LocalImage \/ Import \/ Imported \/ RecordExecution
  \/ Hash("trial.hash", "trial") \/ ValidatePreflight("trial", trial, "trial.copy")
  \/ TakeSnapshot("trial.copy", "trial.start") \/ StartTrial \/ EndTrial
  \/ EditTask \/ ChangeScanner \/ ChangeImage

Spec == Init /\ [][Next]_vars

-----------------------------------------------------------------------------
(* Whatever changed on the host meanwhile, a trial that starts runs the    *)
(* task the registry approves, loaded and copied from the same content,    *)
(* with the scanners and the image the policy approves; what was admitted  *)
(* before anything was touched is what runs.                               *)
RunsWhatWasApproved ==
  \A r \in ran : \E e \in bundle.tasks :
    LET t == Manifests[r.manifest] IN
    /\ e.task = t.task /\ e.status = "approved"
    /\ r.tree = e.tree /\ r.manifest = r.tree
    /\ [digest |-> r.node, ref |-> <<t.task, r.node>>, platform |-> platform] \in e.images
    /\ bundle.rules.scansRequired => command.scan
    /\ command.scan => r.scanner.id \in bundle.rules.scanners /\ r.scanner.ready
    /\ preflight.input.tree = r.tree /\ preflight.input.scans = command.scan

(* No trial may spend more than the policy, the request, the model's entry *)
(* or the task itself allows, and none follows a trial that overspent, or  *)
(* whose usage nobody observed.                                            *)
SpendingIsBounded ==
  \A r \in ran :
    LET t == Manifests[r.manifest]
        m == CHOOSE x \in bundle.models : x.adapter = command.agent /\ x.model = SelectedModel
        most == {bundle.rules.maxUsage, m.maxUsage} \cup ({request.maxUsage, t.maxUsage} \ {None})
    IN /\ \A limit \in most : r.limits.usage <= limit
       /\ r.limits.agentSeconds <= Min({t.agentSeconds, bundle.rules.maxAgentSeconds})
       /\ r.trial <= command.trials /\ r.trial <= bundle.rules.maxTrials
       /\ \A s \in ran : s.trial < r.trial =>
            /\ s.used # None
            /\ \A limit \in most \ {t.maxUsage} : s.used <= limit

(* The cluster is given nothing, and no trial starts, before an admission  *)
(* that allows it is on disk; a trial's has both of its decisions.         *)
AdmittedFirst ==
  /\ nodes # <<>> =>
       {"request", "bundle", "preflight"} \subseteq admission /\ Allowed(preflight)
  /\ ran # {} => "execution" \in admission /\ Allowed(execution)

(* verify_run replays the governance of a trial with nothing but the files *)
(* kept in its run directory and the task they attest: both decisions come *)
(* out as they were.                                                       *)
VerifiedView(r, stage, d) ==
  Admit(stage, request, bundle,
        Evidence(command, request.model, r.manifest, r.tree, execution.input.scanner,
                 d.input.image, d.input.trials), d.parent)
EvidenceReplays ==
  \A r \in ran :
    /\ r.trial <= preflight.input.trials /\ r.trial <= execution.input.trials
    /\ VerifiedView(r, "preflight", preflight) = preflight
    /\ VerifiedView(r, "execution", execution) = execution
    /\ r.limits = Governed(Manifests[r.manifest], VerifiedView(r, "execution", execution))
=============================================================================
