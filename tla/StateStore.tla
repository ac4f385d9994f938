----------------------------- MODULE StateStore -----------------------------
(***************************************************************************)
(* The state directory of the governed runner: metrics.db beside one       *)
(* directory per run with its results.json (metrics.py).  save_run writes  *)
(* the same record into both: the file under the protection of an open     *)
(* SQLite transaction, with a backup of the previous file to undo with.    *)
(*                                                                         *)
(* Every run is saved by one process of its own, concurrently with the     *)
(* others; each call the code makes on the file system or the database is  *)
(* a step, may fail, and may be the last before the process is killed.     *)
(* The database may have been written by an older release: schema 1 has no *)
(* table of assessments, schema 2 none with datasets, and opening it       *)
(* upgrades it.                                                            *)
(***************************************************************************)
EXTENDS Naturals, FiniteSets

CONSTANTS Runs,          \* run ids
          Saved,         \* the runs a previous release has saved, at version 1
          Releases,      \* the schemas the database may have been left in
          MaxFault       \* how many system calls fail, in total

Absent  == 0
Empty   == 3             \* a file without bytes
Current == 3             \* len(_SCHEMA_MIGRATIONS)
Database == "metrics.db"
None     == "none"

\* No run directory has the name of the database beside it.
ASSUME StateStoreAssumption ==
  /\ Saved # {} /\ Saved \subseteq Runs /\ MaxFault \in Nat
  /\ Releases # {} /\ Releases \subseteq 1..Current
  /\ Database \notin Runs /\ None \notin Runs

VARIABLES schema,        \* rows of schema_migrations
          odd,           \* sqlite_schema has an object no release created
          row,           \* per run: the version in runs.results_json
          projected,     \* per run: the version its columns and assessments show
          dir,           \* the run directories that exist
          file,          \* per run: what results.json holds
          backup,        \* per run: what its .results.json.backup-* holds
          staged,        \* the runs with a .results.json.stage-* file
          tx,            \* the run whose process has the write transaction
          pc, published,    \* the local state of each save_run
          changed,       \* metrics.db, or a run's tree, has another fingerprint
                         \* than when it was last looked at (state.py)
          faults, undoFailed            \* history

saveVars == <<pc, published, tx, faults, undoFailed>>
dbVars   == <<schema, odd, row, projected>>
treeVars == <<dir, file, backup, staged>>
storeVars == <<saveVars, dbVars, treeVars>>

Version(r) == IF r \in Saved THEN 2 ELSE 1     \* what its process saves
Before(r)  == IF r \in Saved THEN 1 ELSE Absent
Versions   == 0..2
Contents   == Versions \cup {Empty}

Backing   == {"backup", "unlink", "aside"}
Connected == {"begin", "publish", "commit"} \cup Backing
Labels == Connected \cup {"idle", "stage", "connect", "clean", "secure", "done",
                          "rollback", "restore", "unstage", "raised", "dead"}

StoreTypeOK ==
  /\ schema \in 1..Current /\ odd \in BOOLEAN /\ tx \in Runs \cup {None} /\ faults \in 0..MaxFault
  /\ row \in [Runs -> Versions] /\ projected \in [Runs -> Versions]
  /\ dir \subseteq Runs /\ staged \subseteq Runs
  /\ file \in [Runs -> Contents] /\ backup \in [Runs -> Contents]
  /\ pc \in [Runs -> Labels] /\ published \subseteq Runs
  /\ changed \subseteq Runs \cup {Database} /\ undoFailed \subseteq Runs

StoreInit ==
  /\ schema \in Releases /\ odd \in BOOLEAN
  /\ row = [r \in Runs |-> Before(r)]
  /\ projected = [r \in Runs |-> IF schema = Current THEN Before(r) ELSE Absent]
  /\ dir = Saved /\ staged = {}
  /\ file = [r \in Runs |-> Before(r)] /\ backup = [r \in Runs |-> Absent]
  /\ tx = None /\ pc = [r \in Runs |-> "idle"]
  /\ published = {}
  /\ changed = Runs \cup {Database}
  /\ faults = 0 /\ undoFailed = {}

Go(r, label) == pc' = [pc EXCEPT ![r] = label]
Touch(e)     == changed' = changed \cup {e}

-----------------------------------------------------------------------------
(* The steps of save_run when nothing fails.                               *)

(* prepare_run_dir and secure_run_tree. *)
PrepareRunDir(r) ==
  /\ pc[r] = "idle" /\ Go(r, "stage")
  /\ dir' = dir \cup {r}
  /\ IF r \in dir THEN UNCHANGED changed ELSE Touch(r)
  /\ UNCHANGED <<dbVars, file, backup, staged, published, tx, faults, undoFailed>>

Stage(r) ==
  /\ pc[r] = "stage" /\ Go(r, "connect")
  /\ staged' = staged \cup {r} /\ Touch(r)
  /\ UNCHANGED <<dbVars, dir, file, backup, published, tx, faults, undoFailed>>

(* The steps of an upgrade look at sqlite_schema before they rebuild a      *)
(* table, and whoever opens the database requires the exact current schema  *)
(* in the end: an object nobody knows makes either raise, and the           *)
(* transaction of the upgrade is rolled back.                               *)
KnownObjects(extra) == ~extra

(* _apply_schema_migrations: a database that was behind gets every          *)
(* projection rebuilt from its results_json, in the same transaction.       *)
Upgraded(version, rows, shown) ==
  [schema |-> Current, shown |-> IF version < Current THEN rows ELSE shown]

(* An upgrade needs the write lock, opening a current database does not. *)
Opens ==
  /\ schema < Current => tx = None
  /\ KnownObjects(odd)
  /\ LET up == Upgraded(schema, row, projected) IN
       schema' = up.schema /\ projected' = up.shown
  /\ Touch(Database)

(* _connect of a save. *)
Connect(r) ==
  /\ pc[r] = "connect" /\ Go(r, "begin")
  /\ Opens
  /\ UNCHANGED <<odd, row, treeVars, published, tx, faults, undoFailed>>

(* load_run, load_runs and load_assessments upgrade the database too. *)
Load ==
  /\ schema < Current /\ Opens
  /\ UNCHANGED <<odd, row, treeVars, pc, published, tx, faults, undoFailed>>

(* BEGIN IMMEDIATE and _write_record_rows: nobody else sees the rows yet.  *)
Begin(r) ==
  /\ pc[r] = "begin" /\ tx = None /\ tx' = r
  /\ Go(r, IF file[r] # Absent THEN "backup" ELSE "publish")
  /\ UNCHANGED <<dbVars, treeVars, published, changed, faults, undoFailed>>

(* mkstemp and close: an empty file reserves the name of the backup. *)
Reserve(r) ==
  /\ pc[r] = "backup" /\ Go(r, "unlink")
  /\ backup' = [backup EXCEPT ![r] = Empty] /\ Touch(r)
  /\ UNCHANGED <<dbVars, dir, file, staged, published, tx, faults, undoFailed>>

Unlink(r) ==
  /\ pc[r] = "unlink" /\ Go(r, "aside")
  /\ backup' = [backup EXCEPT ![r] = Absent] /\ Touch(r)
  /\ UNCHANGED <<dbVars, dir, file, staged, published, tx, faults, undoFailed>>

(* mutant: the previous file is removed instead of being kept aside. *)
BackUpDropped(r) ==
  /\ pc[r] = "aside" /\ Go(r, "publish")
  /\ file' = [file EXCEPT ![r] = Absent] /\ Touch(r)
  /\ UNCHANGED <<dbVars, dir, backup, staged, published, tx, faults, undoFailed>>

BackUp(r) ==
  /\ pc[r] = "aside" /\ Go(r, "publish")
  /\ backup' = [backup EXCEPT ![r] = file[r]]
  /\ file' = [file EXCEPT ![r] = Absent] /\ Touch(r)
  /\ UNCHANGED <<dbVars, dir, staged, published, tx, faults, undoFailed>>

Publish(r) ==
  /\ pc[r] = "publish" /\ Go(r, "commit")
  /\ file' = [file EXCEPT ![r] = Version(r)] /\ staged' = staged \ {r}
  /\ published' = published \cup {r} /\ Touch(r)
  /\ UNCHANGED <<dbVars, dir, backup, tx, faults, undoFailed>>

Commit(r) ==
  /\ pc[r] = "commit" /\ Go(r, "clean")
  /\ row' = [row EXCEPT ![r] = Version(r)]
  /\ projected' = [projected EXCEPT ![r] = Version(r)]
  /\ tx' = None /\ Touch(Database)
  /\ UNCHANGED <<schema, odd, treeVars, published, faults, undoFailed>>

(* The backup goes; an error leaves it, and is no error of the save.       *)
Clean(r) ==
  /\ pc[r] = "clean" /\ Go(r, "secure")
  /\ \/ backup' = [backup EXCEPT ![r] = Absent] /\ UNCHANGED faults
        /\ IF backup[r] # Absent THEN Touch(r) ELSE UNCHANGED changed
     \/ backup[r] # Absent /\ faults < MaxFault /\ faults' = faults + 1
        /\ UNCHANGED <<backup, changed>>
  /\ UNCHANGED <<dbVars, dir, file, staged, published, tx, undoFailed>>

(* _secure_sqlite_files: a sidecar that was there is gone when it is       *)
(* opened, because another connection closed: the save raises, committed.  *)
Secure(r) ==
  /\ pc[r] = "secure"
  /\ \/ Go(r, "done")
     \/ Go(r, "raised") /\ \E q \in Runs \ {r} : pc[q] \in Connected
  /\ UNCHANGED <<dbVars, treeVars, published, tx, changed, faults, undoFailed>>

-----------------------------------------------------------------------------
(* What happens when a call raises.                                        *)

(* _connect raises whenever the schema is not the exact one. *)
ConnectRefused(r) ==
  /\ pc[r] = "connect" /\ ~KnownObjects(odd) /\ Go(r, "unstage")
  /\ UNCHANGED <<dbVars, treeVars, published, tx, changed, faults, undoFailed>>

Fails(r) ==
  /\ faults < MaxFault /\ faults' = faults + 1
  /\ \/ pc[r] = "idle" /\ Go(r, "raised")                 \* nothing begun
     \/ pc[r] \in {"stage", "connect"} /\ Go(r, "unstage")
     \/ pc[r] = "begin" /\ Go(r, "unstage")               \* locked for too long
     \/ pc[r] \in Backing \cup {"publish", "commit"} /\ Go(r, "rollback")
     \/ pc[r] = "secure" /\ Go(r, "raised")
  /\ UNCHANGED <<dbVars, treeVars, published, tx, changed, undoFailed>>

Rollback(r) ==
  /\ pc[r] = "rollback" /\ Go(r, "restore") /\ tx' = None /\ Touch(Database)
  /\ UNCHANGED <<dbVars, treeVars, published, faults, undoFailed>>

(* mutant: what was published is removed, whether or not there is a backup. *)
RestoredByRemoval(r) ==
  /\ file' = [file EXCEPT ![r] = IF r \in published THEN Absent ELSE backup[r]]
  /\ UNCHANGED backup

(* not committed: whatever has the name of the backup is moved back, or a   *)
(* first file removed.                                                     *)
Restored(r) ==
  IF backup[r] # Absent
  THEN file' = [file EXCEPT ![r] = backup[r]] /\ backup' = [backup EXCEPT ![r] = Absent]
  ELSE file' = [file EXCEPT ![r] = IF r \in published THEN Absent ELSE @] /\ UNCHANGED backup

Restore(r) ==
  /\ pc[r] = "restore" /\ Go(r, "unstage")
  /\ \/ Restored(r) /\ Touch(r) /\ UNCHANGED <<faults, undoFailed>>
     \/ faults < MaxFault /\ faults' = faults + 1 /\ undoFailed' = undoFailed \cup {r}
        /\ UNCHANGED <<file, backup, changed>>
  /\ UNCHANGED <<dbVars, dir, staged, published, tx>>

Unstage(r) ==
  /\ pc[r] = "unstage" /\ Go(r, "raised")
  /\ staged' = staged \ {r}
  /\ IF r \in staged THEN Touch(r) ELSE UNCHANGED changed
  /\ UNCHANGED <<dbVars, dir, file, backup, published, tx, faults, undoFailed>>

(* The process is killed: SQLite rolls its transaction back, files stay.   *)
Killed(r) ==
  /\ pc[r] \notin {"idle", "done", "raised", "dead"} /\ Go(r, "dead")
  /\ tx' = IF tx = r THEN None ELSE tx
  /\ UNCHANGED <<dbVars, treeVars, published, changed, faults, undoFailed>>

Save(r) ==
  \/ PrepareRunDir(r) \/ Stage(r) \/ Connect(r) \/ Begin(r)
  \/ Reserve(r) \/ Unlink(r) \/ BackUp(r) \/ Publish(r) \/ Commit(r) \/ Clean(r) \/ Secure(r)
  \/ ConnectRefused(r) \/ Fails(r) \/ Rollback(r) \/ Restore(r) \/ Unstage(r) \/ Killed(r)

-----------------------------------------------------------------------------
(* When the name reserved for a backup cannot be freed, its empty file is   *)
(* taken for the backup: the save raises and leaves an empty results.json. *)
Emptied(r) ==
  /\ pc[r] \in {"unstage", "raised", "dead"} /\ faults > 0
  /\ file[r] = Empty /\ row[r] = Before(r) /\ r \in Saved

(* What the database says of a run is on disk too: in results.json, or in  *)
(* the backup save_run made of it, whatever failed and whoever was killed; *)
(* only an emptied file loses it, and no run loses it to another record.   *)
CommittedBytesSurvive ==
  \A r \in Runs : row[r] # Absent => row[r] \in {file[r], backup[r]} \/ Emptied(r)

(* A save_run that raised has left row and file as they were, or both as   *)
(* they were to become, unless it emptied the file or the undoing failed   *)
(* as well.                                                                *)
SaveIsAllOrNothing ==
  \A r \in Runs : pc[r] \in {"raised", "done"} /\ r \notin undoFailed /\ ~Emptied(r) =>
    /\ row[r] = file[r] /\ row[r] \in {Before(r), Version(r)}
    /\ pc[r] = "done" => row[r] = Version(r)

(* A save that raises before its commit has restored the previous file     *)
(* (test_state.py 929, test_save_run_restores_existing_file_when_           *)
(* publication_fails), when nothing failed but one call.                   *)
FailedSaveRestores ==
  \A r \in Saved : pc[r] = "raised" /\ faults = 1 /\ row[r] = Before(r) => file[r] = Before(r)
=============================================================================
