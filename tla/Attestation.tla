----------------------------- MODULE Attestation -----------------------------
(***************************************************************************)
(* The end of a run, from its last audit event to its verification: the    *)
(* provenance is captured, the trail closed, the record saved to           *)
(* results.json and the database, and the run directory, task and harness  *)
(* are bound into attestation.json with its digest beside it (runner.py,   *)
(* attestation.py).  verify_run (verification.py) recomputes all of it.    *)
(*                                                                         *)
(* Everything is read one call at a time while other programs may change   *)
(* the artifacts, the task and the repository, any call may fail, and the  *)
(* process may be killed between any two of them.  A digest stands for     *)
(* what was digested.                                                      *)
(***************************************************************************)
EXTENDS Trail, FiniteSets, FiniteSetsExt

CONSTANTS Extra,         \* further files of the run directory
          Nested         \* those whose own name is attestation.json

ASSUME AttestationAssumption ==
  Nested \subseteq Extra /\ Extra \cap {"audit.jsonl", "results.json"} = {}

VARIABLES extra,         \* [Extra -> Absent, a content, or Link]
          task,          \* the task directory: [id, manifest, rest]
          repo,          \* the harness: [sha, staged, unstaged, untracked]
          results, row,  \* results.json and its row: None or a record
          statement,     \* attestation.json: None or a statement
          sidecar,       \* attestation.json.sha256: None or what it digests
          phase, note,   \* the runner: where it is, what it has read
          quiet          \* history: nothing changed since the first read

worldVars  == <<extra, task, repo>>
storedVars == <<results, row, statement, sidecar>>
vars == <<trailVars, worldVars, storedVars, phase, note, quiet>>

Absent  == [is |-> "absent"]
Link    == [is |-> "link"]          \* a symbolic link
Holds(c) == [is |-> "file", of |-> c]
Audit   == "audit.jsonl"
Results == "results.json"
Names   == {Audit, Results} \cup Extra

Tree == [n \in Names |->
           CASE n = Audit   -> [missing |-> Absent, link |-> Link, regular |-> Holds(file.lines)][file.kind]
             [] n = Results -> IF results = None THEN Absent ELSE Holds(results)
             [] OTHER       -> extra[n]]
(* The digest of an artifact: it is opened beneath the root, no component  *)
(* of its name being a link, and hashed as a regular file.                 *)
SubjectDigest(n) == Tree[n]

(* _scan_artifact_tree: the regular files, and the unsafe rest. *)
Files == {n \in Names : Tree[n].is = "file"}
Links == {n \in Names : Tree[n].is = "link"}

(* capture_git_state: the worktree digest covers the two diffs and every   *)
(* untracked path.                                                         *)
Clean == <<0, 0, 0>>
Worktree(r) == <<r.staged, r.unstaged, r.untracked>>
GitState(r) == [sha |-> r.sha, dirty |-> Worktree(r) # Clean, worktree |-> Worktree(r)]

(* hash_tree: names, types, modes and contents of the whole task directory. *)
TreeDigest(t) == t

NoGit  == [sha |-> 0, staged |-> 0, unstaged |-> 0, untracked |-> 0]
NoNote == [git |-> NoGit, tree |-> None, names |-> {}, identity |-> 0, manifest |-> None,
           taskTree |-> None, subject |-> <<>>]

Init ==
  /\ TrailInit
  /\ extra = [n \in Extra |-> Holds(1)]
  /\ task = [id |-> 1, manifest |-> 1, rest |-> 1]
  /\ repo \in {NoGit, [NoGit EXCEPT !.unstaged = 1]}
  /\ results = None /\ row = None /\ statement = None /\ sidecar = None
  /\ phase = "run" /\ note = NoNote /\ quiet = FALSE

Step(from, to) == phase = from /\ phase' = to
Noted(field, value) == note' = [note EXCEPT ![field] = value]

-----------------------------------------------------------------------------
(* The runner.                                                             *)

AppendEvents ==
  /\ phase \in {"run", "end"} /\ WriteTrail
  /\ UNCHANGED <<worldVars, storedVars, phase, note, quiet>>

(* capture_git_state: HEAD, the staged and the unstaged diff and the       *)
(* untracked files are four calls of git.                                  *)
ReadHead ==
  /\ Step("run", "staged") /\ chain.state # "new" /\ pending = None
  /\ Noted("git", [NoGit EXCEPT !.sha = repo.sha]) /\ quiet' = TRUE
  /\ UNCHANGED <<trailVars, worldVars, storedVars>>

Reads(field, to) ==
  /\ Step(field, to) /\ note' = [note EXCEPT !.git[field] = repo[field]]
  /\ UNCHANGED <<trailVars, worldVars, storedVars, quiet>>

ReadStaged    == Reads("staged", "unstaged")
ReadUnstaged  == Reads("unstaged", "untracked")
ReadUntracked == Reads("untracked", "tree")

(* _capture_provenance: what raises is left out of the provenance.         *)
CaptureTask ==
  /\ Step("tree", "end") /\ Noted("tree", TreeDigest(task))
  /\ UNCHANGED <<trailVars, worldVars, storedVars, quiet>>

CaptureFails ==
  /\ phase \in {"staged", "unstaged", "untracked", "tree"} /\ phase' = "end"
  /\ IF phase = "tree" THEN UNCHANGED note ELSE Noted("git", None)
  /\ UNCHANGED <<trailVars, worldVars, storedVars, quiet>>

EndTrail ==
  /\ Step("end", "save") /\ CloseTrail
  /\ UNCHANGED <<worldVars, storedVars, note, quiet>>

Record(attestationError) ==
  [final |-> chain.final, count |-> chain.count, error |-> error, task |-> task.id,
   outcome |-> IF error \/ attestationError THEN "infra_error" ELSE "decided",
   git |-> IF note.git = None THEN None ELSE GitState(note.git), tree |-> note.tree,
   unattested |-> attestationError]

(* save_run: file and row (their steps are in StateStore); a run directory *)
(* with a link in it is refused (secure_run_tree).                         *)
Saves(attestationError) ==
  IF Links = {} THEN results' = Record(attestationError) /\ row' = Record(attestationError)
  ELSE UNCHANGED <<results, row>>

SaveRecord ==
  /\ phase = "save" /\ phase' = IF Links = {} THEN "list" ELSE "ended"
  /\ Saves(FALSE)
  /\ UNCHANGED <<trailVars, worldVars, statement, sidecar, note, quiet>>

(* _persist_run without the prerequisites, or create_attestation raised:   *)
(* the error is put into the record, and the record saved again.           *)
Unattested ==
  /\ phase' = "ended" /\ Saves(TRUE)
  /\ UNCHANGED <<trailVars, worldVars, statement, sidecar, note, quiet>>

Prerequisites == note.git # None

NotAttestable == phase = "list" /\ ~Prerequisites /\ Unattested

AttestationRaises ==
  /\ phase \in {"identity", "manifest", "taskTree", "subjects", "statement", "sidecar"} /\ Unattested

(* mutant: only the files of the run directory itself, not those below it. *)
AttestableOnTop == {n \in Files : n \notin Extra}

(* _attestable_artifacts: regular files at any depth, but none that is     *)
(* called attestation.json.                                                *)
Attestable == {n \in Files : n \notin Nested}

ListArtifacts ==
  /\ Step("list", "identity") /\ Prerequisites /\ Noted("names", Attestable)
  /\ UNCHANGED <<trailVars, worldVars, storedVars, quiet>>

(* build_statement: task.yaml is read for its id, then for its digest,     *)
(* then with the whole tree; then the subjects one after the other.        *)
IdentifyTask ==
  /\ Step("identity", "manifest") /\ Noted("identity", task.id)
  /\ UNCHANGED <<trailVars, worldVars, storedVars, quiet>>

HashManifest ==
  /\ Step("manifest", "taskTree") /\ Noted("manifest", task.manifest)
  /\ UNCHANGED <<trailVars, worldVars, storedVars, quiet>>

HashTaskTree ==
  /\ Step("taskTree", "subjects") /\ Noted("taskTree", TreeDigest(task))
  /\ UNCHANGED <<trailVars, worldVars, storedVars, quiet>>

HashSubject ==
  /\ phase = "subjects" /\ note.names # DOMAIN note.subject
  /\ LET name == CHOOSE n \in note.names \ DOMAIN note.subject : TRUE IN
       /\ name \in Files
       /\ note' = [note EXCEPT !.subject = [n \in DOMAIN @ \cup {name} |->
                                              IF n = name THEN SubjectDigest(n) ELSE @[n]]]
  /\ UNCHANGED <<trailVars, worldVars, storedVars, phase, quiet>>

Statement ==
  [shape |-> "v1", subject |-> note.subject, git |-> GitState(note.git), outcome |-> Record(FALSE).outcome,
   task |-> [id |-> note.identity, manifest |-> note.manifest, tree |-> note.taskTree]]

(* write_attestation: two files, each written atomically, one after the other. *)
BuildStatement ==
  /\ Step("subjects", "statement") /\ note.names = DOMAIN note.subject
  /\ UNCHANGED <<trailVars, worldVars, storedVars, note, quiet>>

WriteStatement ==
  /\ Step("statement", "sidecar") /\ statement' = Statement
  /\ UNCHANGED <<trailVars, worldVars, results, row, sidecar, note, quiet>>

WriteSidecar ==
  /\ Step("sidecar", "attested") /\ sidecar' = Statement
  /\ UNCHANGED <<trailVars, worldVars, results, row, statement, note, quiet>>

Killed ==
  /\ phase \notin {"ended", "attested"} /\ phase' = "ended"
  /\ chain' = [chain EXCEPT !.state = "done"] /\ pending' = None
  /\ UNCHANGED <<file, error, acked, damage, worldVars, storedVars, note, quiet>>

Runner ==
  \/ AppendEvents \/ ReadHead \/ ReadStaged \/ ReadUnstaged \/ ReadUntracked \/ CaptureTask \/ CaptureFails
  \/ EndTrail \/ SaveRecord \/ NotAttestable \/ AttestationRaises \/ ListArtifacts \/ IdentifyTask
  \/ HashManifest \/ HashTaskTree \/ HashSubject \/ BuildStatement \/ WriteStatement \/ WriteSidecar \/ Killed

-----------------------------------------------------------------------------
(* Everybody else.                                                         *)

Changes == damage < MaxDamage /\ damage' = damage + 1 /\ quiet' = FALSE
KeepTrail == UNCHANGED <<file, chain, pending, error, acked>>

LateDamage == DamageTrail /\ quiet' = FALSE /\ UNCHANGED <<worldVars, storedVars, phase, note>>

ChangeExtra ==
  /\ Changes /\ KeepTrail
  /\ \E n \in Extra, c \in {Absent, Holds(1), Holds(2), Link} : extra' = [extra EXCEPT ![n] = c] /\ extra[n] # c
  /\ UNCHANGED <<task, repo, storedVars, phase, note>>

ChangeTask ==
  /\ Changes /\ KeepTrail
  /\ \/ task' = [task EXCEPT !.rest = 3 - @]
     \/ task' = [task EXCEPT !.manifest = 3 - @]
     \/ task' = [task EXCEPT !.id = 3 - @, !.manifest = 3 - @]
  /\ UNCHANGED <<extra, repo, storedVars, phase, note>>

(* An edit, git add, git commit, git checkout. *)
ChangeRepo ==
  /\ Changes /\ KeepTrail
  /\ \/ \E part \in {"unstaged", "untracked"} : repo' = [repo EXCEPT ![part] = 1 - @]
     \/ repo.unstaged = 1 /\ repo' = [repo EXCEPT !.staged = 1, !.unstaged = 0]
     \/ repo.staged = 1 /\ repo' = [repo EXCEPT !.sha = 1, !.staged = 0]
     \/ repo' = [repo EXCEPT !.sha = 1 - @]
  /\ UNCHANGED <<extra, task, storedVars, phase, note>>

(* A stored file is replaced by what is not the runner's: an old backup of *)
(* results.json, a statement of another version; or it is lost.            *)
LoseStored ==
  /\ phase \in {"ended", "attested"} /\ Changes /\ KeepTrail
  /\ \/ results # None /\ \E r \in {None, [results EXCEPT !.count = 0]} : results' = r
        /\ UNCHANGED <<row, statement, sidecar>>
     \/ statement # None /\ statement' \in {None, [statement EXCEPT !.shape = "v0"]}
        /\ UNCHANGED <<results, row, sidecar>>
     \/ sidecar # None /\ sidecar' = None /\ UNCHANGED <<results, row, statement>>
  /\ UNCHANGED <<worldVars, phase, note>>

Others == LateDamage \/ ChangeExtra \/ ChangeTask \/ ChangeRepo \/ LoseStored

Next == Runner \/ Others

Spec == Init /\ [][Next]_vars

-----------------------------------------------------------------------------
(* The verifier: verify_attestation and verify_run on what is there now.   *)

SidecarVerifies == sidecar = statement

SubjectsVerify ==
  /\ DOMAIN statement.subject \subseteq Files
  /\ \A n \in DOMAIN statement.subject : SubjectDigest(n) = statement.subject[n]

(* require_complete_artifact_set: no link, no file the statement lacks.    *)
Uncovered == Files \ DOMAIN statement.subject

TaskVerifies ==
  /\ statement.task.manifest = task.manifest /\ statement.task.id = task.id
  /\ statement.task.tree = TreeDigest(task)

ConsistentGit(g) == g.dirty <=> g.worktree # Clean
HarnessVerifies  == ConsistentGit(statement.git) /\ statement.git = GitState(repo)

(* _verify_predicate_shape and the types of the envelope. *)
IsStatement == statement.shape = "v1"

AttestationVerifiesBut(files) ==
  /\ SidecarVerifies /\ IsStatement /\ SubjectsVerify /\ Links = {} /\ Uncovered = files
  /\ TaskVerifies /\ HarnessVerifies

(* _statement_failures: the statement says what the record says. *)
StatementAgrees(r) ==
  /\ statement.task.id = r.task /\ statement.task.tree = r.tree
  /\ statement.git = r.git /\ statement.outcome = r.outcome

(* mutant: the recorded audit error is not asked for. *)
AuditVerifiesAnyway(r) ==
  /\ r.final # Genesis /\ Audit \in DOMAIN statement.subject
  /\ ChainVerifies(file, r.final, Run) /\ Len(file.lines) = r.count

(* _audit_and_governance_failures, the part about the trail. *)
AuditVerifies(r) ==
  /\ ~r.error /\ r.final # Genesis
  /\ Audit \in DOMAIN statement.subject
  /\ ChainVerifies(file, r.final, Run) /\ Len(file.lines) = r.count

RunVerifiesBut(files) ==
  /\ row # None /\ results # None /\ statement # None
  /\ AttestationVerifiesBut(files)
  /\ results = row /\ StatementAgrees(results)
  /\ ~results.unattested /\ AuditVerifies(results)

RunVerifies == RunVerifiesBut({})

-----------------------------------------------------------------------------
TypeOK ==
  /\ file.kind \in {"missing", "regular", "link"} /\ Len(file.lines) <= MaxEvents + 1 + MaxDamage
  /\ chain.state \in {"new", "open", "closed", "done"} /\ chain.count \in 0..MaxEvents
  /\ error \in BOOLEAN /\ damage \in 0..MaxDamage /\ quiet \in BOOLEAN
  /\ extra \in [Extra -> {Absent, Holds(1), Holds(2), Link}]

(* The trail that the recorded hash and count accept is, event by event,   *)
(* what append returned for: no event that was lost, doubled, reordered or *)
(* changed, none of a write that failed, none of another run.              *)
AcceptedTrailIsAcknowledged ==
  row # None /\ row.final # Genesis /\ ChainVerifies(file, row.final, Run) =>
    /\ file.lines = Written(Run, acked)
    /\ Len(file.lines) = row.count

(* A run that verifies has the complete trail of a run whose every append  *)
(* and whose attestation succeeded, and its task and harness are the ones  *)
(* recorded before the last event, though each was read at another moment. *)
VerifiedRunIsWhole ==
  RunVerifies =>
    /\ acked # <<>> /\ file.lines = Written(Run, acked) /\ ~error
    /\ row.git = GitState(repo) /\ row.tree = task
    /\ phase \in {"attested", "ended"}

(* A run that was attested passes every check for as long as nothing is    *)
(* changed, but for the files that have the name of a statement and are    *)
(* none: the verifier misses those and no other (runner.py                 *)
(* _attestable_artifacts, verification.py verify_run).                     *)
AttestedButNested ==
  phase = "attested" /\ quiet /\ ~error /\ acked # <<>> /\ note.tree # None =>
    RunVerifiesBut(Files \cap Nested)

(* A run that was attested verifies for as long as nothing is changed:     *)
(* "every regular file under artifact_root is included except the output   *)
(* statement and sidecar" (attestation.py 891-892).                        *)
AttestedRunVerifies ==
  phase = "attested" /\ quiet /\ ~error /\ acked # <<>> /\ note.tree # None => RunVerifies
=============================================================================
