------------------------------ MODULE Workbench ------------------------------
(***************************************************************************)
(* The local workbench (workbench/): a private catalogue of experiments    *)
(* whose evidence stays in each experiment's own journal directory.        *)
(* Clients launch experiments under idempotency keys and start them;       *)
(* one pool thread runs them, in a disposable world where the profile asks *)
(* for one; reviewers annotate trials; decisions compare journals; a       *)
(* backup copies everything; retention removes an experiment.              *)
(*                                                                         *)
(* A catalogue transaction (BEGIN IMMEDIATE) excludes every other; those   *)
(* of launch and backup reach beyond the catalogue and are taken apart.    *)
(* A journal directory has one writer's lock; `agent-eval experiment run`  *)
(* makes and runs one without the catalogue, and a request to cancel is    *)
(* written without any lock.  Any process may die at any step: its locks   *)
(* and its open transaction go with it.  An experiment here plans one      *)
(* trial.                                                                  *)
(***************************************************************************)
EXTENDS Naturals, Sequences, FiniteSets

CONSTANTS Id,         \* experiments
          InWorld,    \* those whose profile has a state world
          Key,        \* idempotency keys
          Reviewer,
          MaxNotes,   \* bound: annotations of a trial
          MaxCommands,\* bound: commands issued, launches aside
          MaxCrash,   \* bound: processes that die
          None

ASSUME WorkbenchAssumption ==
  /\ IsFiniteSet(Id) /\ InWorld \subseteq Id /\ {MaxNotes, MaxCommands, MaxCrash} \subseteq Nat
  /\ None \notin Id \cup Key \cup {"launch", "backup", "worker", "expire", "outside", "r1", "r2"}
  /\ None \notin {"accepted", "rejected", "invalid", "infra_error"}

VARIABLES
    held,         \* who is inside a long catalogue transaction: None, launch or backup
    records,      \* catalogued experiments
    requests,     \* [Key -> None or the experiment it launched]
    notes,        \* [Id -> annotations of its trial, in order of revision]
    inspection,   \* [Id -> None or the status of the attached inspection]
    tombstone,    \* [Id -> None or the reason given]
    decisions,    \* decisions stored
    disk,         \* [Id -> what there is of its directory]
    writer,       \* [Id -> None or who holds writer.lock]
    row,          \* [Id -> the trial: its state, outcome and state receipt]
    cancelled,    \* experiments with a cancel.json
    member,       \* the role of the subject who starts experiments allows "run"
    job,          \* [Id -> none, queued or running]
    worker, launch, reviewer, backup, expiry, gate, outside,    \* the processes
    crashes, commands,  \* counters, bounded
    told          \* history: [Key -> the experiments clients were told of]

catalogue == <<records, requests, notes, inspection, tombstone, decisions>>
journals  == <<disk, writer, row, cancelled>>
process   == <<worker, launch, reviewer, backup, expiry, gate, outside>>
vars == <<held, catalogue, journals, member, job, process, crashes, commands, told>>

\* worn: some of its files are gone, and it still opens; torn: it does not
\* open, for files that are gone or not there yet.
Disk    == {"absent", "whole", "worn", "torn"}
Verdict == {"accepted", "rejected", "invalid"}
Fresh   == [state |-> "queued", outcome |-> None, world |-> None]
Idle    == [at |-> "idle", id |-> None]
NoBackup == [at |-> "idle", listed |-> {}, todo |-> {}, moment |-> None, files |-> <<>>, copy |-> <<>>]

Init ==
  /\ held = None /\ records = {} /\ requests = [k \in Key |-> None]
  /\ notes = [i \in Id |-> <<>>] /\ inspection = [i \in Id |-> None]
  /\ tombstone = [i \in Id |-> None] /\ decisions = {}
  /\ disk = [i \in Id |-> "absent"] /\ writer = [i \in Id |-> None]
  /\ row = [i \in Id |-> Fresh] /\ cancelled = {}
  /\ member = TRUE /\ job = [i \in Id |-> "none"]
  /\ worker = Idle /\ launch = [key |-> None, id |-> None]
  /\ reviewer = [r \in Reviewer |-> [at |-> "idle", id |-> None, basis |-> 0]]
  /\ backup = NoBackup
  /\ expiry = [at |-> "idle", id |-> None, reason |-> None]
  /\ gate = [at |-> "idle", id |-> None, cohort |-> None] /\ outside = Idle
  /\ crashes = 0 /\ commands = 0 /\ told = [k \in Key |-> {}]

Free == held = None                  \* a transaction can begin
Issue == commands < MaxCommands /\ commands' = commands + 1
Opens(i) == disk[i] \in {"whole", "worn"}
Takes(who, i) == Opens(i) /\ writer[i] = None /\ writer' = [writer EXCEPT ![i] = who]
Frees(i) == writer' = [writer EXCEPT ![i] = None]

-----------------------------------------------------------------------------
(* Journal.create: a directory's files are made one after the other.       *)
Make(i)   == disk[i] = "absent" /\ i \notin records /\ disk' = [disk EXCEPT ![i] = "torn"]
Finish(i) == disk[i] = "torn" /\ disk' = [disk EXCEPT ![i] = "whole"]

(* launch_experiment: within one transaction the key is looked up, the     *)
(* experiment's directory created, and record and key inserted.            *)

(* The answer to a launch or to a repeated one: it may never arrive.       *)
LaunchAnswer(k) ==
  /\ Free /\ requests[k] # None /\ requests[k] \notin told[k]
  /\ told' = [told EXCEPT ![k] = @ \cup {requests[k]}]
  /\ UNCHANGED <<held, catalogue, journals, member, job, process, crashes, commands>>

(* Mutant of LaunchBegin: the key is looked up before the transaction. *)
LaunchBeginUnlocked(k) ==
  /\ launch.key = None /\ requests[k] \in {None} \cup Id
  /\ \E i \in Id : Make(i) /\ launch' = [key |-> k, id |-> i]
  /\ held' = "launch"
  /\ UNCHANGED <<catalogue, writer, row, member, job, worker, reviewer, backup, expiry,
                 gate, crashes, told, commands, outside, cancelled>>
LaunchBegin(k) ==
  /\ Free /\ launch.key = None /\ requests[k] = None
  /\ \E i \in Id : Make(i) /\ launch' = [key |-> k, id |-> i]
  /\ held' = "launch"
  /\ UNCHANGED <<catalogue, writer, row, member, job, worker, reviewer, backup, expiry,
                 gate, crashes, told, commands, outside, cancelled>>

LaunchMade ==
  /\ launch.key # None /\ Finish(launch.id)
  /\ UNCHANGED <<held, catalogue, writer, row, cancelled, member, job, process, crashes,
                 told, commands>>

LaunchCommit ==
  /\ launch.key # None /\ disk[launch.id] = "whole"
  /\ records' = records \cup {launch.id}
  /\ requests' = [requests EXCEPT ![launch.key] = launch.id]
  /\ launch' = [key |-> None, id |-> None] /\ held' = None
  /\ UNCHANGED <<notes, inspection, tombstone, decisions, journals, member, job, worker,
                 reviewer, backup, expiry, gate, crashes, told, commands, outside>>

(* state_evidence: every completed trial of a world has a state receipt.   *)
StateReadable(i) ==
  i \in InWorld /\ row[i].state = "completed" => row[i].world # None

(* detail: what every view, start and decision of an experiment opens with. *)
Detail(i) == i \in records /\ disk[i] = "whole" /\ StateReadable(i)

-----------------------------------------------------------------------------
(* start_run, and the pool's one thread: the subject's role is asked again *)
(* when the job gets its turn.                                             *)

Start(i) ==
  /\ Free /\ Issue /\ Detail(i) /\ member /\ job[i] = "none"
  /\ job' = [job EXCEPT ![i] = "queued"]
  /\ UNCHANGED <<held, catalogue, journals, member, process, crashes, told>>

ChangeMember ==
  /\ Free /\ Issue /\ member' = ~member
  /\ UNCHANGED <<held, catalogue, journals, job, process, crashes, told>>

MayRun == member

Drop(i) == job' = [job EXCEPT ![i] = "none"]

(* What the journal's worker finds (execute): an interrupted call is never *)
(* repeated, and a cancelled trial not begun.                              *)
Claimed(i) ==
  CASE row[i].state = "running" -> "reconciliation_required"
    [] row[i].state = "queued" -> IF i \in cancelled THEN "cancelled" ELSE "running"
    [] OTHER -> row[i].state
Run(i) ==
  /\ Free /\ worker.at = "idle" /\ job[i] = "queued"
  /\ IF ~MayRun \/ ~Opens(i) \/ disk[i] # "whole" \/ writer[i] # None
     THEN Drop(i) /\ UNCHANGED <<writer, row, worker>>
     ELSE /\ Takes("worker", i)
          /\ job' = [job EXCEPT ![i] = "running"]
          /\ row' = [row EXCEPT ![i].state = Claimed(i)]
          /\ worker' = [at |-> IF Claimed(i) = "running" THEN "call" ELSE "release", id |-> i]
  /\ UNCHANGED <<held, catalogue, disk, member, launch, reviewer, backup, expiry, gate,
                 crashes, told, commands, outside, cancelled>>

W == worker.id
Goes(to) == worker' = [worker EXCEPT !.at = to]

(* The call returns or raises; in a world, the state after a call that     *)
(* returned is assessed and kept, by itself and before the receipt.  A     *)
(* call that is cancelled is left to the operator.                         *)
Call ==
  /\ worker.at = "call"
  /\ \/ /\ W \in InWorld
        /\ \E v \in Verdict : row' = [row EXCEPT ![W].world = v]
        /\ Goes("grade")
     \/ W \notin InWorld /\ Goes("grade") /\ UNCHANGED row
     \/ Goes("error") /\ UNCHANGED row
     \/ /\ W \in cancelled /\ Goes("release")
        /\ row' = [row EXCEPT ![W].state = "reconciliation_required"]
  /\ UNCHANGED <<held, catalogue, disk, writer, member, job, launch, reviewer, backup,
                 expiry, gate, crashes, told, commands, outside, cancelled>>

(* The receipt is sealed and graded. *)
Grade ==
  /\ worker.at \in {"grade", "error"}
  /\ \E o \in IF worker.at = "error" THEN {"infra_error"} ELSE {"accepted", "rejected"} :
       row' = [row EXCEPT ![W].state = "completed", ![W].outcome = o]
  /\ Goes("release")
  /\ UNCHANGED <<held, catalogue, disk, writer, member, job, launch, reviewer, backup,
                 expiry, gate, crashes, told, commands, outside, cancelled>>

Release ==
  /\ worker.at = "release"
  /\ Frees(W) /\ Goes("audit")
  /\ UNCHANGED <<held, catalogue, disk, row, member, job, launch, reviewer, backup, expiry,
                 gate, crashes, told, commands, outside, cancelled>>

RunEnds ==
  /\ Free /\ worker.at = "audit"
  /\ Drop(W) /\ worker' = Idle
  /\ UNCHANGED <<held, catalogue, journals, member, launch, reviewer, backup, expiry, gate,
                 crashes, told, commands, outside>>

-----------------------------------------------------------------------------
(* What takes no lock of the catalogue.                                    *)

(* request_cancel, of the command line, the bridge, a server that closes,  *)
(* or the API, which starts the experiment after it: cancel.json is        *)
(* written by whoever can open the journal.                                *)
RequestCancel(i) ==
  /\ Issue /\ Opens(i) /\ i \notin cancelled
  /\ cancelled' = cancelled \cup {i}
  /\ UNCHANGED <<held, catalogue, disk, writer, row, member, job, process, crashes, told>>

(* `agent-eval experiment run`: a journal is made, and unless it was only  *)
(* to be prepared, or somebody else has its lock, executed.                *)
OutsideMake(i) ==
  /\ Issue /\ outside.at = "idle" /\ i \notin InWorld
  /\ Make(i) /\ outside' = [at |-> "make", id |-> i]
  /\ UNCHANGED <<held, catalogue, writer, row, cancelled, member, job, worker, launch,
                 reviewer, backup, expiry, gate, crashes, told>>

O == outside.id
OutsideMade ==
  /\ outside.at = "make" /\ Finish(O) /\ outside' = [outside EXCEPT !.at = "made"]
  /\ UNCHANGED <<held, catalogue, writer, row, cancelled, member, job, worker, launch,
                 reviewer, backup, expiry, gate, crashes, told, commands>>

OutsideRun ==
  /\ outside.at = "made"
  /\ \/ /\ Takes("outside", O)
        /\ row' = [row EXCEPT ![O].state = Claimed(O)]
        /\ outside' = [outside EXCEPT !.at = "run"]
     \/ outside' = Idle /\ UNCHANGED <<writer, row>>
  /\ UNCHANGED <<held, catalogue, disk, cancelled, member, job, worker, launch, reviewer,
                 backup, expiry, gate, crashes, told, commands>>

OutsideEnds ==
  /\ outside.at = "run"
  /\ IF row[O].state # "running" THEN UNCHANGED row
     ELSE \/ \E o \in {"accepted", "rejected", "infra_error"} :
               row' = [row EXCEPT ![O].state = "completed", ![O].outcome = o]
          \/ O \in cancelled /\ row' = [row EXCEPT ![O].state = "reconciliation_required"]
  /\ Frees(O) /\ outside' = Idle
  /\ UNCHANGED <<held, catalogue, disk, cancelled, member, job, worker, launch, reviewer,
                 backup, expiry, gate, crashes, told, commands>>

-----------------------------------------------------------------------------
(* Annotations: a reviewer reads a trial and its notes, and sends a note   *)
(* for the revision read; the trial is looked up in the journal, and the   *)
(* note inserted in a transaction of its own.                              *)

Read(r, i) ==
  /\ Free /\ Issue /\ Detail(i) /\ reviewer[r].at = "idle"
  /\ Len(notes[i]) < MaxNotes
  /\ reviewer' = [reviewer EXCEPT ![r] = [at |-> "editing", id |-> i, basis |-> Len(notes[i])]]
  /\ UNCHANGED <<held, catalogue, journals, member, job, worker, launch, backup, expiry,
                 gate, crashes, told, outside>>

LookUp(r) ==
  /\ reviewer[r].at = "editing"
  /\ reviewer' = [reviewer EXCEPT ![r].at = IF Opens(reviewer[r].id) THEN "found" ELSE "idle"]
  /\ UNCHANGED <<held, catalogue, journals, member, job, worker, launch, backup, expiry,
                 gate, crashes, told, commands, outside>>

(* Mutant of Expected: the last note wins. *)
ExpectedAnything(i, basis) == TRUE
Expected(i, basis) == Len(notes[i]) = basis

Annotate(r) ==
  /\ Free /\ reviewer[r].at = "found"
  /\ LET i == reviewer[r].id IN
       notes' = IF Expected(i, reviewer[r].basis)
                THEN [notes EXCEPT ![i] = Append(@, [by |-> r, read |-> reviewer[r].basis])]
                ELSE notes
  /\ reviewer' = [reviewer EXCEPT ![r] = [at |-> "idle", id |-> None, basis |-> 0]]
  /\ UNCHANGED <<held, records, requests, inspection, tombstone, decisions, journals,
                 member, job, worker, launch, backup, expiry, gate, crashes, told, commands,
                 outside>>

(* attach-inspection: a report that agrees with every result.              *)
Attach(i, s) ==
  /\ Free /\ Issue /\ i \in records /\ disk[i] = "whole" /\ row[i].state = "completed"
  /\ inspection[i] = None
  /\ inspection' = [inspection EXCEPT ![i] = s]
  /\ UNCHANGED <<held, records, requests, notes, tombstone, decisions, journals, member,
                 job, process, crashes, told>>

-----------------------------------------------------------------------------
(* gate: the journals are compared, then the candidate is read again and   *)
(* the decision stored.                                                    *)

(* cohort: what a trial counts as.  Mutant of Effective: an output that was *)
(* accepted counts as accepted.                                            *)
EffectiveOutput(i) == row[i].outcome
Effective(i) ==
  IF i \in InWorld /\ row[i].world \notin {None, "accepted"}
  THEN IF row[i].world = "rejected" THEN "rejected" ELSE "infra_error"
  ELSE row[i].outcome

Cohort(i) == [done |-> row[i].state = "completed", outcome |-> Effective(i)]

Compare(i) ==
  /\ Free /\ Issue /\ gate.at = "idle" /\ Detail(i)
  /\ gate' = [at |-> "decide", id |-> i, cohort |-> Cohort(i)]
  /\ UNCHANGED <<held, catalogue, journals, member, job, worker, launch, reviewer, backup,
                 expiry, crashes, told, outside>>

(* The state that a policy may require: of a complete set of valid ones.   *)
StateOf(i) == IF row[i].state # "completed" \/ row[i].world = "invalid" THEN None ELSE row[i].world

(* decide: what leaves the verdict open, what fails it, and the interval   *)
(* of the effect, above or below the margin or across it.                  *)
Open(c, i, policy) ==
  \/ ~c.done \/ c.outcome = "infra_error"
  \/ policy.inspection /\ inspection[i] \notin {"accepted", "rejected"}
  \/ policy.state /\ StateOf(i) \notin {"accepted", "rejected"}
Fails(i) == inspection[i] = "rejected" \/ StateOf(i) = "rejected"

Decide ==
  /\ Free /\ gate.at = "decide"
  /\ LET i == gate.id IN
     \E policy \in [state : BOOLEAN, inspection : BOOLEAN],
        interval \in {"above", "across", "below"} :
       decisions' =
         IF ~Detail(i) THEN decisions
         ELSE decisions \cup
           {[id |-> i, policy |-> policy, outcome |-> row[i].outcome, world |-> row[i].world,
             inspection |-> inspection[i],
             verdict |-> CASE Fails(i) -> "fail"
                           [] ~Fails(i) /\ Open(gate.cohort, i, policy) -> "inconclusive"
                           [] OTHER -> [above |-> "pass", across |-> "inconclusive",
                                        below |-> "fail"][interval]]}
  /\ gate' = [at |-> "idle", id |-> None, cohort |-> None]
  /\ UNCHANGED <<held, records, requests, notes, inspection, tombstone, journals, member,
                 job, worker, launch, reviewer, backup, expiry, crashes, told, commands,
                 outside>>

-----------------------------------------------------------------------------
(* backup: the catalogue's transaction and the lock of every journal found *)
(* are held while the files are first listed and then read, one after the  *)
(* other.                                                                  *)

Catalogued == [records |-> records, notes |-> notes, tombstone |-> tombstone]
Listing(i) == [disk |-> disk[i], cancelled |-> i \in cancelled]
Directory(i) == [files |-> Listing(i), row |-> row[i]]

BackupBegin ==
  /\ Free /\ Issue /\ backup.at = "idle"
  /\ held' = "backup"
  /\ LET found == {i \in Id : disk[i] # "absent"} IN
       backup' = [NoBackup EXCEPT !.at = "lock", !.listed = found, !.todo = found]
  /\ UNCHANGED <<catalogue, journals, member, job, worker, launch, reviewer, expiry, gate,
                 outside, crashes, told>>

(* Mutant of BackupLocks: the journals are opened for reading. *)
BackupLocksNothing(i) == Opens(i) /\ UNCHANGED writer
BackupLocks(i) == Takes("backup", i)

BackupLock ==
  /\ backup.at = "lock"
  /\ \E i \in backup.todo : BackupLocks(i) /\ backup' = [backup EXCEPT !.todo = @ \ {i}]
  /\ UNCHANGED <<held, catalogue, disk, row, cancelled, member, job, worker, launch,
                 reviewer, expiry, gate, outside, crashes, told, commands>>

BackupEnds(to) ==
  /\ writer' = [i \in Id |-> IF writer[i] = "backup" THEN None ELSE writer[i]]
  /\ held' = None /\ backup' = to

(* A journal in use, or one that does not open, ends the backup. *)
BackupRefused ==
  /\ backup.at = "lock"
  /\ \E i \in backup.todo : ~Opens(i) \/ writer[i] # None
  /\ BackupEnds(NoBackup)
  /\ UNCHANGED <<catalogue, disk, row, cancelled, member, job, worker, launch, reviewer,
                 expiry, gate, outside, crashes, told, commands>>

(* With the last lock, the moment that the backup is to be of.             *)
BackupLocked ==
  /\ backup.at = "lock" /\ backup.todo = {}
  /\ backup' = [backup EXCEPT !.at = "list",
                  !.moment = [catalogue |-> Catalogued, of |-> [i \in Id |-> Directory(i)]]]
  /\ UNCHANGED <<held, catalogue, journals, member, job, worker, launch, reviewer, expiry,
                 gate, outside, crashes, told, commands>>

(* rglob: one directory after the other, in the order of an enumeration.   *)
BackupList(order) ==
  /\ backup.at = "list"
  /\ backup' = IF Len(backup.files) = Cardinality(Id)
               THEN [backup EXCEPT !.at = "copy", !.copy = <<Catalogued>>]
               ELSE [backup EXCEPT !.files = Append(@, Listing(order[Len(@) + 1]))]
  /\ UNCHANGED <<held, catalogue, journals, member, job, worker, launch, reviewer, expiry,
                 gate, outside, crashes, told, commands>>

(* The files listed are read as they are by now.                           *)
BackupCopy(order) ==
  /\ backup.at = "copy" /\ Len(backup.copy) <= Cardinality(Id)
  /\ LET n == Len(backup.copy) IN
     backup' = [backup EXCEPT !.copy = Append(@, [files |-> backup.files[n], row |-> row[order[n]]])]
  /\ UNCHANGED <<held, catalogue, journals, member, job, worker, launch, reviewer, expiry,
                 gate, outside, crashes, told, commands>>

(* Where a directory has changed since, a file may be gone: of a journal   *)
(* that was removed, or that a request to cancel was about to rename.      *)
BackupFails(order) ==
  /\ backup.at = "copy"
  /\ \E n \in DOMAIN backup.files : Listing(order[n]) # backup.files[n]
  /\ BackupEnds(NoBackup)
  /\ UNCHANGED <<catalogue, disk, row, cancelled, member, job, worker, launch, reviewer,
                 expiry, gate, outside, crashes, told, commands>>

BackupDone ==
  /\ backup.at = "copy" /\ Len(backup.copy) > Cardinality(Id)
  /\ BackupEnds([backup EXCEPT !.at = "done"])
  /\ UNCHANGED <<catalogue, disk, row, cancelled, member, job, worker, launch, reviewer,
                 expiry, gate, outside, crashes, told, commands>>

-----------------------------------------------------------------------------
(* expire: under the journal's lock, a tombstone, then the derived records *)
(* in another transaction, then the directory, file by file.               *)

Unconfirmed(i) == row[i].state \in {"running", "reconciliation_required"}
(* Mutant of ExpireLocks: the journal is only read. *)
ExpireLocksNothing(i) == Opens(i) /\ UNCHANGED writer
ExpireLocks(i) == Takes("expire", i)

ExpireBegin(i, reason) ==
  /\ Free /\ Issue /\ expiry.at = "idle" /\ i \in records /\ ~Unconfirmed(i)
  /\ ExpireLocks(i)
  /\ expiry' = [at |-> "bury", id |-> i, reason |-> reason]
  /\ UNCHANGED <<held, catalogue, disk, row, member, job, worker, launch, reviewer, backup,
                 gate, crashes, told, outside, cancelled>>

X == expiry.id
ExpireGivesUp == Frees(X) /\ expiry' = [at |-> "idle", id |-> None, reason |-> None]

Bury ==
  /\ Free /\ expiry.at = "bury"
  /\ IF tombstone[X] \in {None, expiry.reason}
     THEN /\ tombstone' = [tombstone EXCEPT ![X] = expiry.reason]
          /\ expiry' = [expiry EXCEPT !.at = "purge"] /\ UNCHANGED writer
     ELSE ExpireGivesUp /\ UNCHANGED tombstone
  /\ UNCHANGED <<held, records, requests, notes, inspection, decisions, disk, row, member,
                 job, worker, launch, reviewer, backup, gate, crashes, told, commands,
                 outside, cancelled>>

Purge ==
  /\ Free /\ expiry.at = "purge"
  /\ notes' = [notes EXCEPT ![X] = <<>>]
  /\ inspection' = [inspection EXCEPT ![X] = None]
  /\ expiry' = [expiry EXCEPT !.at = "remove"]
  /\ UNCHANGED <<held, records, requests, tombstone, decisions, journals, member, job,
                 worker, launch, reviewer, backup, gate, crashes, told, commands, outside>>

Remove ==
  /\ expiry.at = "remove" /\ disk[X] # "absent"
  /\ \E next \in CASE disk[X] = "whole" -> {"worn", "torn"}
                   [] disk[X] = "worn" -> {"torn"}
                   [] disk[X] = "torn" -> {"absent"} :
       disk' = [disk EXCEPT ![X] = next]
  /\ UNCHANGED <<held, catalogue, writer, row, member, job, process, crashes, told,
                 commands, cancelled>>

ExpireEnds ==
  /\ expiry.at = "remove" /\ disk[X] = "absent"
  /\ ExpireGivesUp
  /\ UNCHANGED <<held, catalogue, disk, row, member, job, worker, launch, reviewer, backup,
                 gate, crashes, told, commands, outside, cancelled>>

-----------------------------------------------------------------------------
(* A process dies.                                                         *)

Dies == crashes < MaxCrash /\ crashes' = crashes + 1

LaunchDies ==     \* the transaction is rolled back, what there is of the directory stays
  /\ Dies /\ launch.key # None /\ launch' = [key |-> None, id |-> None] /\ held' = None
  /\ UNCHANGED <<catalogue, journals, member, job, worker, reviewer, backup, expiry, gate,
                 told, commands, outside>>
ServerDies ==     \* its queue is lost
  /\ Dies /\ worker.at # "idle" /\ worker' = Idle
  /\ IF writer[W] = "worker" THEN Frees(W) ELSE UNCHANGED writer
  /\ job' = [i \in Id |-> "none"]
  /\ UNCHANGED <<held, catalogue, disk, row, member, launch, reviewer, backup, expiry, gate,
                 told, commands, outside, cancelled>>
BackupDies ==
  /\ Dies /\ backup.at \in {"lock", "list", "copy"} /\ BackupEnds(NoBackup)
  /\ UNCHANGED <<catalogue, disk, row, member, job, worker, launch, reviewer, expiry, gate,
                 told, commands, outside, cancelled>>
OutsideDies ==
  /\ Dies /\ outside.at # "idle" /\ outside' = Idle
  /\ IF writer[O] = "outside" THEN Frees(O) ELSE UNCHANGED writer
  /\ UNCHANGED <<held, catalogue, disk, row, cancelled, member, job, worker, launch,
                 reviewer, backup, expiry, gate, told, commands>>
ExpiryDies ==
  /\ Dies /\ expiry.at # "idle" /\ ExpireGivesUp
  /\ UNCHANGED <<held, catalogue, disk, row, member, job, worker, launch, reviewer, backup,
                 gate, told, commands, outside, cancelled>>

Order == CHOOSE s \in [1..Cardinality(Id) -> Id] : \A i, j \in DOMAIN s : s[i] = s[j] => i = j

Next ==
  \/ \E k \in Key : LaunchAnswer(k) \/ LaunchBegin(k)
  \/ LaunchMade \/ LaunchCommit
  \/ \E i \in Id : RequestCancel(i) \/ OutsideMake(i)
  \/ OutsideMade \/ OutsideRun \/ OutsideEnds
  \/ \E i \in Id : Start(i) \/ Run(i)
  \/ ChangeMember \/ Call \/ Grade \/ Release \/ RunEnds
  \/ \E r \in Reviewer : LookUp(r) \/ Annotate(r) \/ \E i \in Id : Read(r, i)
  \/ \E i \in Id, s \in {"accepted", "rejected"} : Attach(i, s)
  \/ (\E i \in Id : Compare(i)) \/ Decide
  \/ BackupBegin \/ BackupLock \/ BackupRefused \/ BackupLocked
  \/ BackupList(Order) \/ BackupCopy(Order) \/ BackupFails(Order) \/ BackupDone
  \/ \E i \in Id, reason \in {"r1", "r2"} : ExpireBegin(i, reason)
  \/ Bury \/ Purge \/ Remove \/ ExpireEnds
  \/ LaunchDies \/ ServerDies \/ BackupDies \/ ExpiryDies \/ OutsideDies

Spec == Init /\ [][Next]_vars

-----------------------------------------------------------------------------
(* Two reviewers who edit the same trial never overwrite one another: each *)
(* note of a trial was written by one who had read the note before it.     *)
ReadBeforeWritten ==
  \A i \in Id : \A n \in DOMAIN notes[i] : notes[i][n].read = n - 1

(* However often a launch is retried, and wherever it dies, its clients    *)
(* hear of one experiment, whose directory was there before its record.    *)
OneExperimentPerKey ==
  /\ \A k \in Key : told[k] \subseteq {requests[k]}
  /\ \A i \in records : disk[i] = "absent" => tombstone[i] # None

(* A finished backup holds the catalogue and every journal that it found   *)
(* as they were together when the last lock was taken, although journals   *)
(* are made, run and cancelled beside it; of every experiment catalogued   *)
(* by then it found the journal, unless that was buried; and it has every  *)
(* cancellation of then, so that what it has restored stays cancelled.     *)
BackupIsOneMoment ==
  backup.at = "done" =>
    LET then == backup.moment IN
    /\ backup.copy[1] = then.catalogue
    /\ \A n \in 1..Cardinality(Id) : Order[n] \in backup.listed =>
         LET copied == backup.copy[n + 1]
             was == then.of[Order[n]]
         IN /\ copied.files.disk = was.files.disk /\ copied.row = was.row
            /\ was.files.cancelled \/ was.row.state = "cancelled" => copied.files.cancelled
    /\ \A i \in then.catalogue.records : i \in backup.listed \/ then.catalogue.tombstone[i] # None

(* Retention never removes a file of an experiment whose trial may be      *)
(* under way, or was interrupted and waits for its operator.               *)
KeepsUnconfirmed ==
  [][\A i \in Id : disk[i] # "absent" /\ disk'[i] # disk[i] /\ disk'[i] # "whole" =>
       ~Unconfirmed(i) /\ tombstone[i] # None]_vars

(* A decision passes a candidate only on a trial that ended with a verdict *)
(* on its output, in an accepted final state where there is a world, that  *)
(* no inspection attached by then rejected, and with what the policy       *)
(* requires; although outputs are read before the rest, and the trial may  *)
(* move in between.                                                        *)
PassIsEarned ==
  \A d \in decisions : d.verdict = "pass" =>
    /\ d.outcome \in {"accepted", "rejected"}
    /\ d.id \in InWorld => d.world = "accepted"
    /\ d.inspection # "rejected"
    /\ d.policy.inspection => d.inspection = "accepted"
    /\ d.policy.state => d.world = "accepted"

(* docs/workbench.md:156 says of retention that it deletes the experiment's*)
(* journal, annotations and linked inspection, and records a tombstone.    *)
NothingDerivedSurvives ==
  \A i \in Id : tombstone[i] # None /\ disk[i] = "absent" =>
    notes[i] = <<>> /\ inspection[i] = None

(* docs/workbench.md:103 says that missing evidence is inconclusive: a     *)
(* completed experiment can be compared and decided.                       *)
CompletedIsDecidable ==
  \A i \in Id : row[i].state = "completed" => StateReadable(i)
=============================================================================
