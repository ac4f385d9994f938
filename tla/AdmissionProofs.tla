--------------------------- MODULE AdmissionProofs ---------------------------
(***************************************************************************)
(* Proofs about Admission: for any documents, any command line, any task   *)
(* and any number of changes by other programs, a trial that starts runs   *)
(* what was approved, within every budget, after the decisions that allow  *)
(* it were written, and its evidence replays.                              *)
(***************************************************************************)
EXTENDS Admission, TLAPS

-----------------------------------------------------------------------------
(* The inductive invariant                                                 *)

TrialLabels == {"trial.hash", "trial", "trial.copy", "trial.start", "trial.run"}
(* From the recording of the execution decision on, the nodes are ready.   *)
ReadyLabels == {"record"} \cup TrialLabels
(* From its making on, there is an execution decision.                     *)
FinalLabels == {"image", "import", "imported"} \cup ReadyLabels
(* From the writing of the preflight decision on, it admits.               *)
AdmittedLabels == {"prepare.hash", "prepare", "prepare.copy", "finalize"} \cup FinalLabels
Labels == {"load", "cli.hash", "cli.hash1", "persist", "stopped"} \cup AdmittedLabels

(* The process is at one of these labels, or a trial has been started.     *)
From(labels) == pc \in labels \/ ran # {}

(* Trials come last, and the nodes are only given something once decided.  *)
PlaceInv ==
  /\ pc \in Labels
  /\ ran # {} => pc \in {"stopped"} \cup TrialLabels
  /\ nodes # <<>> => pc \in {"stopped"} \cup FinalLabels

(* The documents are those that were given, as they are read.              *)
AskedInv ==
  /\ tree \in Content
  /\ command \in Commands /\ bundle \in Bundles
  /\ \E q \in Requests : request = q \/ request = Normalised(q)
  /\ From(Labels \ {"load", "stopped"}) =>
       loaded \in Content /\ BundleOK(bundle) /\ command.agent \in {"claude-code", "codex"}

(* The preflight decision, whatever it says.                               *)
PreflightInv ==
  From({"persist"} \cup AdmittedLabels) =>
    /\ preflight = Admit("preflight", request, bundle, preflight.input, None)
    /\ preflight.input.image = None /\ preflight.input.trials = command.trials

(* It admits and is written before anything else happens.                  *)
AdmittedInv ==
  From(AdmittedLabels) \/ nodes # <<>> =>
    {"request", "bundle", "preflight"} \subseteq admission /\ Allowed(preflight)

(* The execution decision goes on from it with an image of the platform.   *)
ExecutionInv ==
  From(FinalLabels) =>
    /\ Allowed(execution) /\ Continues(preflight, execution)
    /\ Wanted # None /\ Wanted.platform = platform

(* The nodes hold that image.                                              *)
NodesInv == From(ReadyLabels) => Held(nodes, Wanted.ref) = Wanted.digest

(* A trial only starts after that decision was written too; those before   *)
(* it were observed to have stayed within its limit.                       *)
Frugal(r) == r.used # None /\ r.used <= execution.limits.usage
TrialInv ==
  /\ From(TrialLabels) => "execution" \in admission
  /\ pc \in TrialLabels => trial \in Nat
  /\ \A r \in ran :
       /\ r.trial \in Nat /\ r.used \in Usage \cup {None}
       /\ pc \in TrialLabels => r.trial <= trial /\ (r.trial < trial => Frugal(r))
       /\ pc \in TrialLabels \ {"trial.run"} => r.trial < trial
       /\ \A s \in ran : s.trial < r.trial => Frugal(s)

(* Once a trial has started, both decisions are known to be what the host  *)
(* was then, and it runs what they say.                                    *)
ReplayedInput(scan) ==
  Evidence(command, SelectedModel, loaded, execution.input.tree, scan, Wanted, command.trials)
Replayed(scan) ==
  /\ execution = Admit("execution", request, bundle, ReplayedInput(scan), preflight)
  /\ execution.input = ReplayedInput(scan)
RanInv ==
  \A r \in ran :
    /\ Replayed(r.scanner)
    /\ r = [trial |-> r.trial, tree |-> execution.input.tree, manifest |-> loaded,
            scanner |-> r.scanner, node |-> Wanted.digest,
            limits |-> Governed(Manifests[loaded], execution), used |-> r.used]
    /\ r.trial <= execution.limits.trials /\ r.trial <= execution.input.trials

IInv ==
  /\ PlaceInv /\ AskedInv /\ PreflightInv /\ AdmittedInv /\ ExecutionInv /\ NodesInv
  /\ TrialInv /\ RanInv

-----------------------------------------------------------------------------
(* Steps that only move the process along, or touch nothing of it          *)

(* Whatever other programs change, the process and the nodes stay.         *)
LEMMA OthersKeep ==
  ASSUME IInv, tree' \in Content, UNCHANGED <<nodes, platform, pc, asked, trial, preflight,
                                              execution, admission, ran>>
  PROVE  IInv'
<1> USE DEF asked
<1>1. PlaceInv' /\ AskedInv'
  BY DEF IInv, PlaceInv, AskedInv, From
<1>2. PreflightInv' /\ AdmittedInv' /\ ExecutionInv' /\ NodesInv'
  BY DEF IInv, PreflightInv, AdmittedInv, ExecutionInv, NodesInv, From, Wanted
<1>3. TrialInv'
  BY DEF IInv, TrialInv, From, Frugal
<1>4. RanInv'
  BY DEF IInv, RanInv, Replayed, ReplayedInput, SelectedModel, Wanted
<1> QED
  BY <1>1, <1>2, <1>3, <1>4 DEF IInv

(* A step to a later label that needs no more than there was.              *)
Along ==
  /\ UNCHANGED <<tree, nodes, platform, asked, trial, preflight, execution, admission, ran>>
  /\ pc \in Labels \ {"load", "stopped"} /\ pc' \in Labels \ {"load", "persist", "trial.run"}
  /\ pc' \in AdmittedLabels => pc \in AdmittedLabels
  /\ pc' \in FinalLabels => pc \in FinalLabels
  /\ pc' \in ReadyLabels => pc \in ReadyLabels \/ Held(nodes, Wanted.ref) = Wanted.digest
  /\ pc' \in TrialLabels => pc \in TrialLabels \ {"trial.run"}
  /\ pc \in FinalLabels => pc' \in FinalLabels \cup {"stopped"}
  /\ pc \in TrialLabels => pc' \in TrialLabels \cup {"stopped"}

(* Such a step keeps the invariant.                                        *)
LEMMA AlongKeeps == ASSUME IInv, Along PROVE IInv'
<1> USE DEF Along, asked
<1>1. PlaceInv'
  BY DEF IInv, PlaceInv
<1>2. AskedInv'
  BY DEF IInv, AskedInv, From
<1>3. PreflightInv' /\ AdmittedInv' /\ ExecutionInv'
  BY DEF IInv, PreflightInv, AdmittedInv, ExecutionInv, From, Wanted
<1>4. NodesInv'
  BY DEF IInv, NodesInv, From, Wanted
<1>5. TrialInv'
  BY DEF IInv, TrialInv, From, Frugal
<1>6. RanInv'
  BY DEF IInv, RanInv, Replayed, ReplayedInput, SelectedModel, Wanted
<1> QED
  BY <1>1, <1>2, <1>3, <1>4, <1>5, <1>6 DEF IInv

(* The later the labels, the fewer.                                        *)
LEMMA LabelNames ==
  /\ TrialLabels \subseteq ReadyLabels /\ ReadyLabels \subseteq FinalLabels
  /\ FinalLabels \subseteq AdmittedLabels /\ AdmittedLabels \subseteq Labels
  /\ {"load", "stopped", "persist", "cli.hash", "cli.hash1"} \cap AdmittedLabels = {}
BY DEF TrialLabels, ReadyLabels, FinalLabels, AdmittedLabels, Labels

(* Hashing, copying, replaying and looking at images are such steps.       *)
LEMMA MovesAlong ==
  ASSUME IInv,
         \/ Hash("cli.hash", "cli.hash1")
         \/ Hash("prepare.hash", "prepare") \/ ValidatePreflight("prepare", 1, "prepare.copy")
         \/ TakeSnapshot("prepare.copy", "finalize")
         \/ LocalImage \/ Imported
         \/ Hash("trial.hash", "trial") \/ ValidatePreflight("trial", trial, "trial.copy")
         \/ TakeSnapshot("trial.copy", "trial.start")
  PROVE  Along
<1> USE DEF Along, host, TrialLabels, ReadyLabels, FinalLabels, AdmittedLabels, Labels
<1>1. ASSUME Hash("cli.hash", "cli.hash1") PROVE Along
  BY <1>1 DEF Hash, Goto
<1>2. ASSUME Hash("prepare.hash", "prepare") PROVE Along
  BY <1>2 DEF Hash, Goto
<1>3. ASSUME ValidatePreflight("prepare", 1, "prepare.copy") PROVE Along
  BY <1>3 DEF ValidatePreflight
<1>4. ASSUME TakeSnapshot("prepare.copy", "finalize") PROVE Along
  BY <1>4 DEF TakeSnapshot
<1>5. ASSUME LocalImage PROVE Along
  BY <1>5 DEF LocalImage
<1>6. ASSUME Imported PROVE Along
  BY <1>6 DEF Imported, NodesAccept
<1>7. ASSUME Hash("trial.hash", "trial") PROVE Along
  BY <1>7 DEF Hash, Goto
<1>8. ASSUME ValidatePreflight("trial", trial, "trial.copy") PROVE Along
  BY <1>8 DEF ValidatePreflight
<1>9. ASSUME TakeSnapshot("trial.copy", "trial.start") PROVE Along
  BY <1>9 DEF TakeSnapshot
<1> QED
  BY <1>1, <1>2, <1>3, <1>4, <1>5, <1>6, <1>7, <1>8, <1>9

-----------------------------------------------------------------------------
(* The other steps                                                         *)

(* The documents are read, or the command line is refused.                 *)
LEMMA LoadStep == ASSUME IInv, Load PROVE IInv'
<1> USE DEF Load, host
<1>1. ran = {} /\ nodes = <<>> /\ pc' \in {"cli.hash", "stopped"}
  BY DEF IInv, PlaceInv, TrialLabels, FinalLabels, ReadyLabels
<1>2. UNCHANGED <<ran, nodes, tree, command, bundle, preflight, execution, platform>>
  BY DEF IInv
<1>3. PlaceInv'
  BY <1>1, <1>2 DEF PlaceInv, Labels
<1>4. AskedInv'
  <2>1. \E q \in Requests : request' = q \/ request' = Normalised(q)
    <3>1. PICK q \in Requests : request = q \/ request = Normalised(q)
      BY DEF IInv, AskedInv
    <3>2. Normalised(Normalised(q)) = Normalised(q)
      BY DEF Normalised
    <3> QED
      BY <3>1, <3>2
  <2> QED
    BY <1>1, <1>2, <2>1 DEF IInv, AskedInv, From
<1>5. pc' \notin {"persist"} \cup AdmittedLabels
  BY <1>1 DEF AdmittedLabels, FinalLabels, ReadyLabels, TrialLabels
<1>6. PreflightInv' /\ AdmittedInv' /\ ExecutionInv' /\ NodesInv' /\ TrialInv' /\ RanInv'
  BY <1>1, <1>2, <1>5, LabelNames
  DEF PreflightInv, AdmittedInv, ExecutionInv, NodesInv, TrialInv, RanInv, From
<1> QED
  BY <1>3, <1>4, <1>6 DEF IInv

(* The first decision is made of what was seen, and made to be replayed.   *)
LEMMA PreflightStep == ASSUME IInv, Preflight PROVE IInv'
<1> USE DEF Preflight, host, asked, Goto
<1>1. ran = {} /\ nodes = <<>> /\ pc = "cli.hash1" /\ pc' = "persist"
  BY DEF IInv, PlaceInv, TrialLabels, FinalLabels, ReadyLabels
<1>2. UNCHANGED <<ran, nodes, tree, command, bundle, request, loaded>>
  OBVIOUS
<1>3. PlaceInv' /\ AskedInv'
  BY <1>1, <1>2 DEF IInv, PlaceInv, AskedInv, From, Labels
<1>4. PreflightInv'
  BY <1>1, <1>2 DEF PreflightInv, Admit, Observed, Evidence
<1>5. pc' \notin AdmittedLabels
  BY <1>1, LabelNames
<1>6. AdmittedInv' /\ ExecutionInv' /\ NodesInv' /\ TrialInv' /\ RanInv'
  BY <1>1, <1>2, <1>5, LabelNames
  DEF AdmittedInv, ExecutionInv, NodesInv, TrialInv, RanInv, From
<1> QED
  BY <1>3, <1>4, <1>6 DEF IInv

(* Only a decision that is written and admits goes on.                     *)
LEMMA PersistStep == ASSUME IInv, Persist PROVE IInv'
<1> USE DEF Persist, host, asked
<1>1. ran = {} /\ nodes = <<>> /\ pc = "persist" /\ pc' \in {"prepare.hash", "stopped"}
  BY DEF IInv, PlaceInv, TrialLabels, FinalLabels, ReadyLabels
<1>2. UNCHANGED <<ran, nodes, tree, command, bundle, request, loaded, preflight>>
  OBVIOUS
<1>3. PlaceInv' /\ AskedInv' /\ PreflightInv'
  BY <1>1, <1>2 DEF IInv, PlaceInv, AskedInv, PreflightInv, From, Labels, AdmittedLabels
<1>4. AdmittedInv'
  <2>1. PICK written \in {{}, {"request"}, {"request", "bundle"},
                          {"request", "bundle", "preflight"}} :
          /\ admission' = written
          /\ pc' = IF "preflight" \in written /\ Allowed(preflight) THEN "prepare.hash"
                   ELSE "stopped"
    OBVIOUS
  <2>2. CASE "preflight" \in written
    BY <1>1, <1>2, <2>1, <2>2, LabelNames DEF AdmittedInv, From, Allowed
  <2>3. CASE "preflight" \notin written
    BY <1>1, <1>2, <2>1, <2>3, LabelNames DEF AdmittedInv, From
  <2> QED
    BY <2>2, <2>3
<1>5. pc' \notin FinalLabels
  BY <1>1 DEF FinalLabels, ReadyLabels, TrialLabels
<1>6. ExecutionInv' /\ NodesInv' /\ TrialInv' /\ RanInv'
  BY <1>1, <1>2, <1>5, LabelNames DEF ExecutionInv, NodesInv, TrialInv, RanInv, From
<1> QED
  BY <1>3, <1>4, <1>6 DEF IInv

(* The approved image is one of the entry's, for the platform.             *)
LEMMA ApprovedIsOfPlatform ==
  ASSUME ApprovedImage # None
  PROVE  ApprovedImage \in preflight.task.images /\ ApprovedImage.platform = platform
BY DEF ApprovedImage, Only

(* The second decision goes on from the first, or the run stops.           *)
LEMMA FinalizeStep == ASSUME IInv, Finalize PROVE IInv'
<1> USE DEF Finalize, host, asked
<1>1. ran = {} /\ nodes = <<>> /\ pc = "finalize" /\ pc' \in {"image", "stopped"}
  BY DEF IInv, PlaceInv, TrialLabels, FinalLabels, ReadyLabels
<1>2. UNCHANGED <<ran, nodes, tree, command, bundle, request, loaded, preflight, admission,
                  platform>>
  OBVIOUS
<1>3. PlaceInv' /\ AskedInv' /\ PreflightInv' /\ AdmittedInv'
  BY <1>1, <1>2 DEF IInv, PlaceInv, AskedInv, PreflightInv, AdmittedInv, From, Labels,
     AdmittedLabels, FinalLabels
<1>4. ExecutionInv'
  <2> DEFINE d == Admit("execution", request, bundle,
                    Observed(snapshot, ApprovedImage, preflight.input.trials), preflight)
  <2>1. d.input.image = ApprovedImage
    BY DEF Admit, Observed, Evidence
  <2>2. CASE pc' = "image"
    <3>1. ApprovedImage # None /\ Allowed(d) /\ Continues(preflight, d) /\ execution' = d
      BY <2>2
    <3> HIDE DEF d
    <3>2. Wanted' = ApprovedImage /\ (Allowed(execution))' /\ (Continues(preflight, execution))'
      BY <1>2, <2>1, <3>1 DEF Wanted, Allowed, Continues
    <3> QED
      BY <1>2, <3>1, <3>2, ApprovedIsOfPlatform DEF ExecutionInv
  <2>3. CASE pc' = "stopped"
    BY <1>1, <1>2, <2>3, LabelNames DEF ExecutionInv, From
  <2> QED
    BY <1>1, <2>2, <2>3
<1>5. pc' \notin ReadyLabels
  BY <1>1 DEF ReadyLabels, TrialLabels
<1>6. NodesInv' /\ TrialInv' /\ RanInv'
  BY <1>1, <1>2, <1>5, LabelNames DEF NodesInv, TrialInv, RanInv, From
<1> QED
  BY <1>3, <1>4, <1>6 DEF IInv

(* The nodes are given what the daemon holds; they are not ready yet.      *)
LEMMA ImportStep == ASSUME IInv, Import PROVE IInv'
<1> USE DEF Import, asked
<1>1. ran = {} /\ pc = "import" /\ pc' \in {"imported", "stopped"}
  BY DEF IInv, PlaceInv, TrialLabels
<1>2. UNCHANGED <<ran, tree, command, bundle, request, loaded, preflight, execution, admission,
                  platform>>
  OBVIOUS
<1>3. pc \in FinalLabels /\ pc \in AdmittedLabels /\ pc' \notin ReadyLabels
  BY <1>1 DEF AdmittedLabels, FinalLabels, ReadyLabels, TrialLabels
<1>4. PlaceInv' /\ AskedInv'
  BY <1>1, <1>2, <1>3, LabelNames DEF IInv, PlaceInv, AskedInv, From, Labels, FinalLabels
<1>5. PreflightInv' /\ AdmittedInv' /\ ExecutionInv'
  BY <1>1, <1>2, <1>3 DEF IInv, PreflightInv, AdmittedInv, ExecutionInv, From, Wanted
<1>6. NodesInv' /\ TrialInv' /\ RanInv'
  BY <1>1, <1>2, <1>3, LabelNames DEF NodesInv, TrialInv, RanInv, From
<1> QED
  BY <1>4, <1>5, <1>6 DEF IInv

(* The second decision is written before the first trial.                  *)
LEMMA RecordExecutionStep == ASSUME IInv, RecordExecution PROVE IInv'
<1> USE DEF RecordExecution, host, asked
<1>1. ran = {} /\ pc = "record" /\ pc' \in {"trial.hash", "stopped"}
  BY DEF IInv, PlaceInv, TrialLabels
<1>2. UNCHANGED <<ran, tree, nodes, command, bundle, request, loaded, preflight, execution,
                  platform>>
  OBVIOUS
<1>3. pc \in ReadyLabels
  BY <1>1 DEF ReadyLabels
<1>4. PlaceInv' /\ AskedInv'
  BY <1>1, <1>2, <1>3, LabelNames
  DEF IInv, PlaceInv, AskedInv, From, Labels, FinalLabels, ReadyLabels, TrialLabels,
      AdmittedLabels
<1>5. PreflightInv' /\ ExecutionInv' /\ NodesInv'
  BY <1>1, <1>2, <1>3, LabelNames DEF IInv, PreflightInv, ExecutionInv, NodesInv, From, Wanted
<1>6. AdmittedInv' /\ TrialInv' /\ RanInv'
  BY <1>1, <1>2, <1>3, LabelNames
  DEF IInv, AdmittedInv, TrialInv, RanInv, From, Allowed
<1> QED
  BY <1>4, <1>5, <1>6 DEF IInv

(* Replaying the execution decision says what the host holds now.          *)
LEMMA ReplaySays ==
  ASSUME IInv, pc = "trial.start", Replays(execution, snapshot, trial),
         Continues(preflight, execution)
  PROVE  /\ Replayed(scanner)
         /\ execution.input.tree = snapshot
         /\ trial <= execution.limits.trials /\ trial <= execution.input.trials
<1>1. execution.stage = "execution" /\ execution.parent = preflight
  BY DEF Continues
<1>2. execution.input.trials = command.trials
  <2>1. preflight.input.trials = command.trials
    BY DEF IInv, PreflightInv, From, AdmittedLabels, FinalLabels, ReadyLabels, TrialLabels
  <2> DEFINE in == Observed(snapshot, Wanted, execution.input.trials)
  <2>2. execution = Admit("execution", request, bundle, in, preflight)
    BY <1>1 DEF Replays, Wanted
  <2>3. execution.input = in
    BY <2>2 DEF Admit
  <2>4. [execution EXCEPT !.stage = preflight.stage, !.parent = preflight.parent,
                          !.input.image = None].input.trials = in.trials
    BY <2>2, <2>3 DEF Admit, Observed, Evidence
  <2>5. in.trials = execution.input.trials
    BY <2>3
  <2> QED
    BY <2>1, <2>4, <2>5 DEF Continues
<1>3. execution = Admit("execution", request, bundle,
                        Observed(snapshot, Wanted, command.trials), preflight)
  BY <1>1, <1>2 DEF Replays, Wanted
<1>4. execution.input = Observed(snapshot, Wanted, command.trials)
  BY <1>3 DEF Admit
<1>5. execution.input.tree = snapshot
  BY <1>4 DEF Observed, Evidence
<1> QED
  BY <1>3, <1>4, <1>5 DEF Replays, Replayed, ReplayedInput, Observed

(* A trial starts on what the replay found, and on nodes that are ready.   *)
LEMMA StartTrialStep == ASSUME IInv, StartTrial PROVE IInv'
<1> USE DEF StartTrial, host, asked
<1>1. pc = "trial.start" /\ pc' \in {"trial.run", "stopped"}
  OBVIOUS
<1>2. UNCHANGED <<tree, nodes, command, bundle, request, loaded, preflight, execution, trial,
                  admission, platform>>
  OBVIOUS
<1>3. pc \in TrialLabels /\ pc' \in {"stopped"} \cup TrialLabels
  BY <1>1 DEF TrialLabels
<1>4. PlaceInv' /\ AskedInv' /\ PreflightInv' /\ AdmittedInv' /\ ExecutionInv' /\ NodesInv'
  <2>1. From(TrialLabels) /\ pc \in Labels \ {"load", "stopped"}
    BY <1>3, LabelNames DEF From
  <2> QED
    BY <1>2, <1>3, <2>1, LabelNames
    DEF IInv, PlaceInv, AskedInv, PreflightInv, AdmittedInv, ExecutionInv, NodesInv, From,
        Wanted, Allowed, Labels
<1>5. CASE pc' = "stopped"
  <2>1. ran' = ran
    BY <1>5
  <2>2. TrialInv' /\ RanInv'
    BY <1>2, <1>3, <1>5, <2>1, LabelNames
    DEF IInv, TrialInv, RanInv, From, Frugal, Replayed, ReplayedInput, SelectedModel, Wanted
  <2> QED
    BY <1>4, <2>2 DEF IInv
<1>6. CASE pc' = "trial.run"
  <2> DEFINE new == [trial |-> trial, tree |-> snapshot, manifest |-> loaded,
                     scanner |-> scanner, node |-> Held(nodes, Wanted.ref),
                     limits |-> Governed(Manifests[loaded], execution), used |-> None]
  <2>1. ran' = ran \cup {new} /\ Replays(execution, snapshot, trial)
        /\ Continues(preflight, execution)
    BY <1>6
  <2>2. TrialInv'
    <3>1. trial \in Nat /\ "execution" \in admission
      BY <1>3, LabelNames DEF IInv, TrialInv, From
    <3>2. \A r \in ran : r.trial \in Nat /\ r.used \in Usage \cup {None}
                         /\ r.trial < trial /\ Frugal(r) /\ Frugal(r)'
      BY <1>1, <1>2, <1>3 DEF IInv, TrialInv, Frugal
    <3>3. \A r \in ran' : r \in ran \/ (r.trial = trial /\ r.used = None)
      BY <2>1
    <3>4. \A r \in ran' : \A s \in ran' : s.trial < r.trial => Frugal(s)'
      BY <3>1, <3>2, <3>3
    <3>5. \A r \in ran' : /\ r.trial \in Nat /\ r.used \in Usage \cup {None}
                          /\ r.trial <= trial /\ (r.trial < trial => Frugal(r)')
      BY <3>1, <3>2, <3>3
    <3> QED
      BY <1>2, <1>3, <1>6, <3>1, <3>4, <3>5 DEF TrialInv
  <2>3. RanInv'
    <3>1. Replayed(scanner) /\ execution.input.tree = snapshot
          /\ trial <= execution.limits.trials /\ trial <= execution.input.trials
      BY <1>1, <2>1, ReplaySays
    <3>2. Held(nodes, Wanted.ref) = Wanted.digest
      BY <1>3, LabelNames DEF IInv, NodesInv, From
    <3>3. ASSUME NEW r \in ran'
          PROVE  /\ Replayed(r.scanner)
                 /\ r = [trial |-> r.trial, tree |-> execution.input.tree, manifest |-> loaded,
                         scanner |-> r.scanner, node |-> Wanted.digest,
                         limits |-> Governed(Manifests[loaded], execution), used |-> r.used]
                 /\ r.trial <= execution.limits.trials /\ r.trial <= execution.input.trials
      BY <2>1, <3>1, <3>2, <3>3 DEF IInv, RanInv
    <3> QED
      BY <1>2, <3>3 DEF RanInv, Replayed, ReplayedInput, SelectedModel, Wanted
  <2> QED
    BY <1>4, <2>2, <2>3 DEF IInv
<1> QED
  BY <1>1, <1>5, <1>6

(* A trial is followed by another only if its usage was seen and allowed.  *)
LEMMA EndTrialStep == ASSUME IInv, EndTrial PROVE IInv'
<1> USE DEF EndTrial, host, asked
<1>1. pc = "trial.run" /\ pc' \in {"trial.hash", "stopped"}
  OBVIOUS
<1>2. UNCHANGED <<tree, nodes, command, bundle, request, loaded, preflight, execution,
                  admission, platform>>
  OBVIOUS
<1>3. pc \in TrialLabels /\ pc' \in {"stopped"} \cup TrialLabels
  BY <1>1 DEF TrialLabels
<1>4. PlaceInv' /\ AskedInv' /\ PreflightInv' /\ AdmittedInv' /\ ExecutionInv' /\ NodesInv'
  <2>1. From(TrialLabels) /\ pc \in Labels \ {"load", "stopped"}
    BY <1>3, LabelNames DEF From
  <2> QED
    BY <1>2, <1>3, <2>1, LabelNames
    DEF IInv, PlaceInv, AskedInv, PreflightInv, AdmittedInv, ExecutionInv, NodesInv, From,
        Wanted, Allowed, Labels
<1>5. PICK used \in Usage \cup {None} :
        /\ ran' = {IF r.trial = trial THEN [r EXCEPT !.used = used] ELSE r : r \in ran}
        /\ IF trial < command.trials /\ MayGoOn(used)
           THEN pc' = "trial.hash" /\ trial' = trial + 1
           ELSE pc' = "stopped" /\ UNCHANGED trial
  OBVIOUS
<1>6. ASSUME NEW s \in ran'
      PROVE  \E r \in ran :
               /\ s.trial = r.trial /\ s.scanner = r.scanner
               /\ s = [trial |-> s.trial, tree |-> execution.input.tree, manifest |-> loaded,
                       scanner |-> s.scanner, node |-> Wanted.digest,
                       limits |-> Governed(Manifests[loaded], execution), used |-> s.used]
               /\ s.used = IF r.trial = trial THEN used ELSE r.used
  <2>1. PICK r \in ran : s = IF r.trial = trial THEN [r EXCEPT !.used = used] ELSE r
    BY <1>5
  <2>2. r = [trial |-> r.trial, tree |-> execution.input.tree, manifest |-> loaded,
             scanner |-> r.scanner, node |-> Wanted.digest,
             limits |-> Governed(Manifests[loaded], execution), used |-> r.used]
    BY DEF IInv, RanInv
  <2>3. s = [trial |-> r.trial, tree |-> execution.input.tree, manifest |-> loaded,
             scanner |-> r.scanner, node |-> Wanted.digest,
             limits |-> Governed(Manifests[loaded], execution),
             used |-> IF r.trial = trial THEN used ELSE r.used]
    BY <2>1, <2>2
  <2> QED
    BY <2>3
<1>7. RanInv'
  <2>1. ASSUME NEW s \in ran'
        PROVE  /\ Replayed(s.scanner)
               /\ s = [trial |-> s.trial, tree |-> execution.input.tree, manifest |-> loaded,
                       scanner |-> s.scanner, node |-> Wanted.digest,
                       limits |-> Governed(Manifests[loaded], execution), used |-> s.used]
               /\ s.trial <= execution.limits.trials /\ s.trial <= execution.input.trials
    BY <1>6 DEF IInv, RanInv
  <2> QED
    BY <1>2, <2>1 DEF RanInv, Replayed, ReplayedInput, SelectedModel, Wanted
<1>8. TrialInv'
  <2>1. trial \in Nat /\ "execution" \in admission
    BY <1>3, LabelNames DEF IInv, TrialInv, From
  <2>2. ASSUME NEW s \in ran'
        PROVE  /\ s.trial \in Nat /\ s.used \in Usage \cup {None} /\ s.trial <= trial
               /\ s.trial < trial => Frugal(s)
               /\ s.trial = trial => s.used = used
    <3>1. PICK r \in ran :
            s.trial = r.trial /\ s.used = IF r.trial = trial THEN used ELSE r.used
      BY <1>6
    <3>2. /\ r.trial \in Nat /\ r.used \in Usage \cup {None}
          /\ r.trial <= trial /\ (r.trial < trial => Frugal(r))
      BY <1>3 DEF IInv, TrialInv
    <3> QED
      BY <2>1, <3>1, <3>2 DEF Frugal
  <2>3. \A r \in ran' : \A s \in ran' : s.trial < r.trial => Frugal(s)'
    BY <1>2, <2>1, <2>2 DEF Frugal
  <2>4. CASE pc' = "stopped"
    BY <1>2, <2>1, <2>2, <2>3, <2>4 DEF TrialInv, TrialLabels
  <2>5. CASE pc' = "trial.hash"
    <3>1. MayGoOn(used) /\ trial' = trial + 1
      BY <1>5, <2>5
    <3>2. \A s \in ran' : s.trial < trial' /\ s.trial <= trial' /\ Frugal(s)'
      BY <1>2, <2>1, <2>2, <3>1 DEF Frugal, MayGoOn
    <3> QED
      BY <1>2, <2>1, <2>2, <2>3, <2>5, <3>1, <3>2 DEF TrialInv, From
  <2> QED
    BY <1>1, <2>4, <2>5
<1> QED
  BY <1>4, <1>7, <1>8 DEF IInv

-----------------------------------------------------------------------------
(* The invariant                                                           *)

LEMMA Initially == Init => IInv
<1> SUFFICES ASSUME Init PROVE IInv
  OBVIOUS
<1> USE DEF Init
<1>1. pc \notin {"persist"} \cup AdmittedLabels /\ pc \in Labels
  BY LabelNames DEF Labels
<1> QED
  BY <1>1, LabelNames
  DEF IInv, PlaceInv, AskedInv, PreflightInv, AdmittedInv, ExecutionInv, NodesInv, TrialInv,
      RanInv, From

LEMMA InductiveStep == IInv /\ [Next]_vars => IInv'
<1> SUFFICES ASSUME IInv, [Next]_vars PROVE IInv'
  OBVIOUS
<1>1. tree \in Content
  BY DEF IInv, AskedInv
<1>2. CASE EditTask
  BY <1>2, OthersKeep DEF EditTask, Changed, Rest, asked
<1>3. CASE ChangeScanner
  BY <1>1, <1>3, OthersKeep DEF ChangeScanner, Changed, Rest, asked
<1>4. CASE ChangeImage
  BY <1>1, <1>4, OthersKeep DEF ChangeImage, Rest, asked
<1>5. CASE UNCHANGED vars
  BY <1>1, <1>5, OthersKeep DEF vars, host, asked
<1> QED
  BY <1>2, <1>3, <1>4, <1>5, MovesAlong, AlongKeeps, LoadStep, PreflightStep, PersistStep,
     FinalizeStep, ImportStep, RecordExecutionStep, StartTrialStep, EndTrialStep DEF Next

(* The invariant holds of every reachable state.                           *)
THEOREM AdmissionInvariance == Spec => []IInv
BY Initially, InductiveStep, PTL DEF Spec

(* AdmittedFirst: nothing is given to the cluster, and no trial starts,    *)
(* before an admission that allows it is on disk.                          *)
THEOREM NothingBeforeAdmission == Spec => []AdmittedFirst
<1>1. IInv => AdmittedFirst
  BY DEF IInv, AdmittedInv, ExecutionInv, TrialInv, From, AdmittedFirst
<1> QED
  BY <1>1, AdmissionInvariance, PTL

-----------------------------------------------------------------------------
(* What an admission says                                                  *)

(* What Only finds is in the set.                                          *)
LEMMA OnlyOne ==
  ASSUME NEW S, Only(S) # None PROVE Only(S) \in S
BY DEF Only

(* No reason to refuse means that every check passed.                      *)
LEMMA ExecutionAdmits ==
  ASSUME NEW q, NEW b, NEW in, NEW parent, NEW d,
         d = Admit("execution", q, b, in, parent), Allowed(d)
  PROVE  /\ in.image # None => ImageOK(in.image, in.task)
         /\ MatchedTask(b, in) # None
         /\ MatchedTask(b, in).status = "approved"
         /\ in.tree = MatchedTask(b, in).tree /\ in.spec \in MatchedTask(b, in).specs
         /\ in.image \in MatchedTask(b, in).images
         /\ in.model = q.model
         /\ in.scans => in.scanner.id \in b.rules.scanners /\ in.scanner.ready
         /\ b.rules.scansRequired => in.scans
         /\ in.agentSeconds <= b.rules.maxAgentSeconds
         /\ MatchedModel(b, in) # None
         /\ d.limits = EffectiveLimits(q, b.rules, MatchedModel(b, in))
<1> DEFINE e == MatchedTask(b, in)
           m == MatchedModel(b, in)
           j == MatchedJudge(b, in)
<1>1. /\ StageDenials("execution", in) = {} /\ TaskDenials("execution", e, in) = {}
      /\ BindingDenials(q, b.rules, in) = {} /\ ScannerDenials(b.rules, in) = {}
      /\ ResourceDenials(b.rules, in) = {} /\ EntryDenials(m, q) = {}
      /\ d.limits = EffectiveLimits(q, b.rules, m)
  BY DEF Admit, Allowed
<1>2. \A condition \in BOOLEAN : \A code : Unless(condition, code) = {} => condition
  BY DEF Unless
<1>3. in.image # None => ImageOK(in.image, in.task)
  BY <1>1 DEF StageDenials, Unless
<1>4. /\ e # None /\ e.status = "approved" /\ in.tree = e.tree /\ in.spec \in e.specs
      /\ in.image \in e.images
  BY <1>1 DEF TaskDenials, Unless
<1>5. in.model = q.model
  BY <1>1 DEF BindingDenials, Unless
<1>6. /\ in.scans => in.scanner.id \in b.rules.scanners /\ in.scanner.ready
      /\ b.rules.scansRequired => in.scans
  BY <1>1 DEF ScannerDenials, Unless
<1>7. in.agentSeconds <= b.rules.maxAgentSeconds
  BY <1>1 DEF ResourceDenials, Unless
<1>8. m # None
  BY <1>1 DEF EntryDenials
<1> QED
  BY <1>1, <1>3, <1>4, <1>5, <1>6, <1>7, <1>8

(* What is known once a trial has started.                                 *)
LEMMA Started ==
  ASSUME IInv, NEW r \in ran
  PROVE  /\ execution = Admit("execution", request, bundle, execution.input, preflight)
         /\ execution.input = ReplayedInput(r.scanner)
         /\ Allowed(execution) /\ Continues(preflight, execution)
         /\ loaded \in Content /\ BundleOK(bundle) /\ bundle \in Bundles
         /\ command \in Commands /\ command.agent \in {"claude-code", "codex"}
         /\ Wanted # None /\ Wanted.platform = platform
         /\ Wanted = execution.input.image
<1>1. From(FinalLabels) /\ From(Labels \ {"load", "stopped"})
  BY DEF From
<1> QED
  BY <1>1 DEF IInv, AskedInv, ExecutionInv, RanInv, Replayed, Wanted

(* RunsWhatWasApproved: the task, the tree, the image and the scanners of  *)
(* a trial are those that the registry and the policy approve.             *)
THEOREM RunsTheApproved == Spec => []RunsWhatWasApproved
<1>1. ASSUME IInv, NEW r \in ran
      PROVE  \E e \in bundle.tasks :
               LET t == Manifests[r.manifest] IN
               /\ e.task = t.task /\ e.status = "approved"
               /\ r.tree = e.tree /\ r.manifest = r.tree
               /\ [digest |-> r.node, ref |-> <<t.task, r.node>>, platform |-> platform]
                    \in e.images
               /\ bundle.rules.scansRequired => command.scan
               /\ command.scan => r.scanner.id \in bundle.rules.scanners /\ r.scanner.ready
               /\ preflight.input.tree = r.tree /\ preflight.input.scans = command.scan
  <2> DEFINE in == execution.input
             e == MatchedTask(bundle, in)
             t == Manifests[loaded]
  <2>1. /\ execution = Admit("execution", request, bundle, in, preflight)
        /\ in = ReplayedInput(r.scanner) /\ Allowed(execution)
        /\ Continues(preflight, execution)
        /\ bundle \in Bundles /\ Wanted # None /\ Wanted.platform = platform
        /\ in.image = Wanted
    BY <1>1, Started
  <2>2. /\ e # None /\ e.status = "approved" /\ in.tree = e.tree /\ in.spec \in e.specs
        /\ Wanted \in e.images /\ ImageOK(Wanted, in.task)
        /\ in.scans => in.scanner.id \in bundle.rules.scanners /\ in.scanner.ready
        /\ bundle.rules.scansRequired => in.scans
    BY <2>1, ExecutionAdmits
  <2>3. e \in bundle.tasks /\ e.task = in.task
    BY <2>2, OnlyOne DEF MatchedTask
  <2>4. /\ in.task = t.task /\ in.scans = command.scan
        /\ in.scans => in.scanner = r.scanner
        /\ in.spec.manifest = loaded /\ in.spec.tree = in.tree
    <3> HIDE DEF in
    <3> QED BY <2>1 DEF ReplayedInput, Evidence, ExecutionSpec
  <2>5. r.tree = in.tree /\ r.manifest = loaded /\ r.node = Wanted.digest
    BY <1>1 DEF IInv, RanInv
  <2>6. in.spec.manifest = in.spec.tree
    BY <2>1, <2>2, <2>3, RegistryAssumption
  <2>7. [digest |-> r.node, ref |-> <<t.task, r.node>>, platform |-> platform] \in e.images
    <3>1. Wanted = [digest |-> Wanted.digest, ref |-> Wanted.ref, platform |-> Wanted.platform]
      BY <2>1, <2>2, <2>3, DocumentsAssumption
    <3>2. Wanted.ref = <<t.task, Wanted.digest>>
      BY <2>2, <2>4 DEF ImageOK
    <3> QED
      BY <2>1, <2>2, <2>5, <3>1, <3>2
  <2>8. preflight.input.tree = in.tree /\ preflight.input.scans = in.scans
    <3>1. DOMAIN in = DOMAIN ReplayedInput(r.scanner)
      BY <2>1
    <3>2. preflight = [execution EXCEPT !.stage = preflight.stage, !.parent = preflight.parent,
                                        !.input.image = None]
      BY <2>1 DEF Continues
    <3>3. [execution EXCEPT !.stage = preflight.stage, !.parent = preflight.parent,
                            !.input.image = None].input = [in EXCEPT !.image = None]
      BY <2>1 DEF Admit
    <3>4. [in EXCEPT !.image = None].tree = in.tree /\ [in EXCEPT !.image = None].scans = in.scans
      <4>1. "tree" \in DOMAIN in /\ "scans" \in DOMAIN in
        BY <3>1 DEF ReplayedInput, Evidence
      <4> HIDE DEF in
      <4> QED BY <4>1
    <3> QED
      BY <3>2, <3>3, <3>4
  <2> HIDE DEF in, e
  <2> QED
    BY <2>2, <2>3, <2>4, <2>5, <2>6, <2>7, <2>8
<1>2. IInv => RunsWhatWasApproved
  BY <1>1 DEF RunsWhatWasApproved
<1> QED
  BY <1>2, AdmissionInvariance, PTL

-----------------------------------------------------------------------------
(* What a trial may spend                                                  *)

(* The least of up to three naturals.                                      *)
LEMMA MinOfThree ==
  ASSUME NEW a \in Nat, NEW b \in Nat, NEW c \in Nat
  PROVE  Min({a, b, c}) \in {a, b, c} /\ \A n \in {a, b, c} : Min({a, b, c}) <= n
<1> DEFINE least(x) == x \in {a, b, c} /\ \A n \in {a, b, c} : x <= n
<1>1. least(a) \/ least(b) \/ least(c)
  OBVIOUS
<1>2. \E x \in {a, b, c} : least(x)
  BY <1>1
<1>3. Min({a, b, c}) = CHOOSE x \in {a, b, c} : \A n \in {a, b, c} : x <= n
  BY DEF Min
<1> QED
  BY <1>2, <1>3

(* The admitted usage is none of the thresholds exceeded.                  *)
LEMMA LeastThreshold ==
  ASSUME NEW q, NEW rules, NEW m, rules.maxUsage \in Nat, m # None, m.maxUsage \in Nat,
         q.maxUsage \in Nat \cup {None}
  PROVE  LET limit == Min(Thresholds(q, rules, m)) IN
         /\ limit \in Nat /\ limit <= rules.maxUsage /\ limit <= m.maxUsage
         /\ q.maxUsage # None => limit <= q.maxUsage
<1> DEFINE a == rules.maxUsage
           c == m.maxUsage
           b == IF q.maxUsage = None THEN a ELSE q.maxUsage
<1>1. a \in Nat /\ b \in Nat /\ c \in Nat
  OBVIOUS
<1>2. Thresholds(q, rules, m) = {a, b, c}
  BY AdmissionAssumption DEF Thresholds
<1>3. \A n \in {a, b, c} : Min({a, b, c}) <= n /\ Min({a, b, c}) \in Nat
  <2> HIDE DEF a, b, c
  <2> QED
    BY <1>1, MinOfThree
<1> QED
  BY <1>2, <1>3

(* A task gets no more than it asks for, nor than was admitted.            *)
LEMMA LeastBounds ==
  ASSUME NEW a \in Nat \cup {None}, NEW limit \in Nat
  PROVE  /\ Least(a, limit) \in Nat /\ Least(a, limit) <= limit
         /\ a # None => Least(a, limit) <= a /\ Least(a, limit) = Min({a, limit})
<1>1. CASE a = None
  BY <1>1 DEF Least
<1>2. CASE a # None
  <2>1. Min({a, limit, limit}) \in {a, limit, limit}
        /\ \A n \in {a, limit, limit} : Min({a, limit, limit}) <= n
    BY <1>2, MinOfThree
  <2>2. {a, limit, limit} = {a, limit}
    OBVIOUS
  <2> QED
    BY <1>2, <2>1, <2>2 DEF Least
<1> QED
  BY <1>1, <1>2

(* The model's entry is the one of the registry for the command.           *)
LEMMA ModelOfTheCommand ==
  ASSUME IInv, ran # {},
         NEW m, m = CHOOSE x \in bundle.models :
                      x.adapter = command.agent /\ x.model = SelectedModel
  PROVE  /\ m # None /\ m.maxUsage \in Nat
         /\ execution.limits = EffectiveLimits(request, bundle.rules, m)
<1> PICK r \in ran : TRUE
  OBVIOUS
<1> DEFINE in == execution.input
           found == MatchedModel(bundle, in)
           matching == {x \in bundle.models : x.adapter = in.agent /\ x.model = in.model}
<1>1. /\ execution = Admit("execution", request, bundle, in, preflight)
      /\ in = ReplayedInput(r.scanner) /\ Allowed(execution)
      /\ BundleOK(bundle) /\ bundle \in Bundles /\ command.agent \in {"claude-code", "codex"}
  BY Started
<1>2. found # None /\ execution.limits = EffectiveLimits(request, bundle.rules, found)
  BY <1>1, ExecutionAdmits
<1>3. in.agent = command.agent /\ in.model = SelectedModel
  <2> HIDE DEF in
  <2> QED
    BY <1>1 DEF ReplayedInput, Evidence
<1>4. found \in bundle.models /\ found.adapter = in.agent /\ found.model = in.model
  <2>1. found \in matching
    BY <1>2, OnlyOne DEF MatchedModel
  <2> QED
    BY <2>1
<1> HIDE DEF in, found
<1>5. m \in bundle.models /\ m.adapter = in.agent /\ m.model = in.model
  BY <1>3, <1>4
<1>6. m = found
  BY <1>1, <1>4, <1>5 DEF BundleOK, ModelsOK
<1>7. m # None /\ m.maxUsage \in Nat
  BY <1>1, <1>3, <1>5, DocumentsAssumption
<1> QED
  BY <1>2, <1>6, <1>7

(* The request, as it was given or as it is read, has a threshold or none. *)
LEMMA RequestThreshold == ASSUME IInv PROVE request.maxUsage \in Nat \cup {None}
<1>1. PICK q \in Requests : request = q \/ request = Normalised(q)
  BY DEF IInv, AskedInv
<1>2. q \in [schema : {"v1", "v2"}, task : {q.task}, agent : {q.agent}, model : {q.model},
             class : {q.class}, maxUsage : Nat \cup {None}]
  BY DocumentsAssumption
<1>3. q.maxUsage \in Nat \cup {None} /\ Normalised(q).maxUsage = q.maxUsage
  BY <1>2 DEF Normalised
<1> QED
  BY <1>1, <1>3

(* SpendingIsBounded: no trial may spend more than anyone allows, and none *)
(* follows one that overspent or whose usage nobody observed.              *)
THEOREM SpendingStaysBounded == Spec => []SpendingIsBounded
<1>1. ASSUME IInv, NEW r \in ran
      PROVE  LET t == Manifests[r.manifest]
                 m == CHOOSE x \in bundle.models :
                        x.adapter = command.agent /\ x.model = SelectedModel
                 most == {bundle.rules.maxUsage, m.maxUsage}
                         \cup ({request.maxUsage, t.maxUsage} \ {None})
             IN /\ \A limit \in most : r.limits.usage <= limit
                /\ r.limits.agentSeconds <= Min({t.agentSeconds, bundle.rules.maxAgentSeconds})
                /\ r.trial <= command.trials /\ r.trial <= bundle.rules.maxTrials
                /\ \A s \in ran : s.trial < r.trial =>
                     /\ s.used # None
                     /\ \A limit \in most \ {t.maxUsage} : s.used <= limit
  <2> DEFINE rules == bundle.rules
             t == Manifests[loaded]
             m == CHOOSE x \in bundle.models :
                    x.adapter = command.agent /\ x.model = SelectedModel
             usage == Min(Thresholds(request, rules, m))
  <2>1. /\ m # None /\ m.maxUsage \in Nat
        /\ execution.limits = EffectiveLimits(request, rules, m)
    BY <1>1, ModelOfTheCommand
  <2>2. /\ r.manifest = loaded /\ r.limits = Governed(t, execution)
        /\ r.trial <= execution.limits.trials /\ r.trial <= execution.input.trials
    BY <1>1 DEF IInv, RanInv
  <2>3. /\ bundle \in Bundles /\ loaded \in Content
        /\ execution.input = ReplayedInput(r.scanner)
    BY <1>1, Started
  <2>4. /\ t.agentSeconds \in Nat /\ t.evalSeconds \in Nat /\ t.maxUsage \in Nat \cup {None}
        /\ rules.maxTrials \in Nat /\ rules.maxUsage \in Nat /\ rules.maxAgentSeconds \in Nat
    BY <2>3, DocumentsAssumption
  <2>5. request.maxUsage \in Nat \cup {None}
    BY <1>1, RequestThreshold
  <2> HIDE DEF m, rules, t
  <2>6. /\ usage \in Nat /\ usage <= rules.maxUsage /\ usage <= m.maxUsage
        /\ request.maxUsage # None => usage <= request.maxUsage
    BY <2>1, <2>4, <2>5, LeastThreshold
  <2> HIDE DEF usage
  <2>7. /\ execution.limits.trials = rules.maxTrials /\ execution.limits.usage = usage
        /\ execution.limits.agentSeconds = rules.maxAgentSeconds
    BY <2>1 DEF EffectiveLimits, usage
  <2>8. /\ r.limits.usage = Least(t.maxUsage, usage)
        /\ r.limits.agentSeconds = Least(t.agentSeconds, rules.maxAgentSeconds)
    BY <2>2, <2>7 DEF Governed
  <2>9. /\ r.limits.usage \in Nat /\ r.limits.usage <= usage
        /\ t.maxUsage # None => r.limits.usage <= t.maxUsage
    BY <2>4, <2>6, <2>8, LeastBounds
  <2>10. \A limit \in {rules.maxUsage, m.maxUsage} \cup ({request.maxUsage, t.maxUsage} \ {None}) :
           r.limits.usage <= limit
    BY <2>1, <2>4, <2>5, <2>6, <2>9
  <2>11. r.limits.agentSeconds <= Min({t.agentSeconds, rules.maxAgentSeconds})
    <3>1. t.agentSeconds # None
      BY <2>4, AdmissionAssumption
    <3>2. r.limits.agentSeconds \in Nat
          /\ r.limits.agentSeconds = Min({t.agentSeconds, rules.maxAgentSeconds})
      BY <2>4, <2>8, <3>1, LeastBounds
    <3> QED
      BY <3>2
  <2>12. r.trial <= command.trials /\ r.trial <= rules.maxTrials
    <3>1. execution.input.trials = command.trials
      BY <2>3 DEF ReplayedInput, Evidence
    <3> QED
      BY <2>2, <2>7, <3>1
  <2>13. ASSUME NEW s \in ran, s.trial < r.trial
         PROVE  /\ s.used # None
                /\ \A limit \in ({rules.maxUsage, m.maxUsage}
                                  \cup ({request.maxUsage, t.maxUsage} \ {None})) \ {t.maxUsage} :
                     s.used <= limit
    <3>1. s.used \in Nat /\ s.used # None /\ s.used <= usage
      BY <1>1, <2>7, <2>13, AdmissionAssumption DEF IInv, TrialInv, Frugal
    <3> QED
      BY <2>1, <2>4, <2>5, <2>6, <3>1
  <2> QED
    BY <2>2, <2>10, <2>11, <2>12, <2>13 DEF m, rules, t
<1>2. IInv => SpendingIsBounded
  BY <1>1 DEF SpendingIsBounded
<1> QED
  BY <1>2, AdmissionInvariance, PTL

-----------------------------------------------------------------------------
(* What the evidence of a trial says                                       *)

(* The evidence speaks of the scanner only where there was a scan.         *)
LEMMA EvidenceOfEvidence ==
  ASSUME NEW cmd, NEW model, NEW manifest, NEW files, NEW scan, NEW image, NEW trials
  PROVE  LET in == Evidence(cmd, model, manifest, files, scan, image, trials) IN
         /\ in.trials = trials /\ in.image = image /\ in.model = model /\ in.tree = files
         /\ Evidence(cmd, model, manifest, files, in.scanner, image, trials) = in
         /\ [in EXCEPT !.image = None]
              = Evidence(cmd, model, manifest, files, in.scanner, None, trials)
BY DEF Evidence

(* The preflight decision saw what the execution decision saw, without the *)
(* image.                                                                  *)
LEMMA PreflightSaw ==
  ASSUME IInv, NEW r \in ran
  PROVE  /\ preflight = Admit("preflight", request, bundle,
                              [execution.input EXCEPT !.image = None], None)
         /\ preflight.input = [execution.input EXCEPT !.image = None]
         /\ preflight.input.trials = command.trials
<1>1. /\ execution = Admit("execution", request, bundle, execution.input, preflight)
      /\ Continues(preflight, execution)
  BY Started
<1>2. /\ preflight = Admit("preflight", request, bundle, preflight.input, None)
      /\ preflight.input.trials = command.trials
  BY DEF IInv, PreflightInv, From
<1>3. preflight = [execution EXCEPT !.stage = preflight.stage, !.parent = preflight.parent,
                                    !.input.image = None]
  BY <1>1 DEF Continues
<1>4. [execution EXCEPT !.stage = preflight.stage, !.parent = preflight.parent,
                        !.input.image = None].input = [execution.input EXCEPT !.image = None]
  BY <1>1 DEF Admit
<1>5. preflight.input = [execution.input EXCEPT !.image = None]
  BY <1>3, <1>4
<1> QED
  BY <1>2, <1>5

(* EvidenceReplays: the files kept of a trial and the task they attest are *)
(* enough to come to both of its decisions again.                          *)
THEOREM EvidenceAlwaysReplays == Spec => []EvidenceReplays
<1>1. ASSUME IInv, NEW r \in ran
      PROVE  /\ r.trial <= preflight.input.trials /\ r.trial <= execution.input.trials
             /\ VerifiedView(r, "preflight", preflight) = preflight
             /\ VerifiedView(r, "execution", execution) = execution
             /\ r.limits = Governed(Manifests[r.manifest],
                                    VerifiedView(r, "execution", execution))
  <2> DEFINE in == execution.input
             seenAgain(image) == Evidence(command, request.model, loaded, in.tree, in.scanner,
                                          image, command.trials)
  <2>1. /\ execution = Admit("execution", request, bundle, in, preflight)
        /\ in = ReplayedInput(r.scanner) /\ Allowed(execution)
        /\ Continues(preflight, execution) /\ in.image = Wanted
    BY <1>1, Started
  <2>2. r.tree = in.tree /\ r.manifest = loaded /\ r.trial <= in.trials
        /\ r.limits = Governed(Manifests[loaded], execution)
    BY <1>1 DEF IInv, RanInv
  <2>3. in.model = request.model
    BY <2>1, ExecutionAdmits
  <2>4. /\ preflight = Admit("preflight", request, bundle, [in EXCEPT !.image = None], None)
        /\ preflight.input = [in EXCEPT !.image = None]
        /\ preflight.input.trials = command.trials
    BY <1>1, PreflightSaw
  <2> HIDE DEF in
  <2>5. in.model = SelectedModel /\ in.trials = command.trials
    BY <2>1 DEF ReplayedInput, Evidence
  <2>6. in = seenAgain(Wanted) /\ [in EXCEPT !.image = None] = seenAgain(None)
    BY <2>1, <2>3, <2>5, EvidenceOfEvidence DEF ReplayedInput
  <2>7. preflight.input.image = None /\ preflight.parent = None
    <3>1. seenAgain(None).image = None
      BY DEF Evidence
    <3>2. preflight.parent = None
      BY <2>4 DEF Admit
    <3> QED
      BY <2>4, <2>6, <3>1, <3>2
  <2>8. execution.parent = preflight
    BY <2>1 DEF Continues
  <2>9. VerifiedView(r, "execution", execution) = execution
    BY <2>1, <2>2, <2>5, <2>6, <2>8 DEF VerifiedView, in
  <2>10. VerifiedView(r, "preflight", preflight) = preflight
    BY <2>2, <2>4, <2>6, <2>7 DEF VerifiedView, in
  <2>11. r.trial <= preflight.input.trials /\ r.trial <= execution.input.trials
    BY <2>2, <2>4, <2>5 DEF in
  <2> QED
    BY <2>2, <2>9, <2>10, <2>11
<1>2. IInv => EvidenceReplays
  BY <1>1 DEF EvidenceReplays
<1> QED
  BY <1>2, AdmissionInvariance, PTL

=============================================================================
