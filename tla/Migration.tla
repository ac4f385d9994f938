------------------------------ MODULE Migration ------------------------------
(***************************************************************************)
(* agent-eval state migrate (state.py): one legacy state tree, which       *)
(* programs may still be saving runs into, is copied to a state root that  *)
(* must not exist.  The tree is read entry by entry, each entry with a     *)
(* fingerprint; any entry that no longer has the fingerprint of the first  *)
(* scan stops the migration.  The copy is validated, upgraded, validated   *)
(* again and published by one exclusive rename.                            *)
(*                                                                         *)
(* An entry is metrics.db with its sidecars, or the tree of one run; the   *)
(* entries of a scan are read in any order.  A fingerprint (device, inode, *)
(* mode, size, mtime, ctime, links) is new after every change: what matters *)
(* is whether the entry was changed since the first scan.                  *)
(***************************************************************************)
EXTENDS StateStore

VARIABLES step,          \* where migrate_legacy_state is
          left,          \* the entries this phase has yet to read
          seen,          \* the entries the first scan found
          copy,          \* the temporary tree beside the destination
          target,        \* the destination: NoTree, someone else's, or a copy
          cut            \* history: the source when the copying had ended

mineVars == <<step, left, seen, copy, target, cut>>
vars == <<storeVars, changed, mineVars>>

Entries == Runs \cup {Database}
NoTree  == [schema |-> 0, odd |-> FALSE, row |-> [r \in Runs |-> Absent], projected |-> [r \in Runs |-> Absent],
            dir |-> {}, file |-> [r \in Runs |-> Absent]]
Foreign == [NoTree EXCEPT !.schema = Current + 1]     \* another program's state
Source  == [schema |-> schema, odd |-> odd, row |-> row, projected |-> projected, dir |-> dir, file |-> file]

(* The first-level names of the source, as _scan_source lists them. *)
Listed == dir \cup {Database}

Phases == {"idle", "scan", "descend", "database", "results", "rescan", "copying", "recheck",
           "upgrade", "validate", "install", "installed", "unsynced",
           "refused", "dead"}

TypeOK ==
  /\ StoreTypeOK
  /\ step \in Phases /\ left \subseteq Entries /\ seen \subseteq Entries

Init ==
  /\ StoreInit
  /\ step = "idle" /\ left = {} /\ seen = {}
  /\ copy = NoTree /\ target = NoTree /\ cut = NoTree

-----------------------------------------------------------------------------
(* mutant: a fingerprint without the times: a file that is replaced keeps it. *)
UnchangedName(e) == e \in Listed

Unchanged(e) == e \in Listed /\ e \notin changed

(* What the process knew, and its temporary tree, are gone. *)
Forget == left' = {} /\ seen' = {} /\ copy' = NoTree /\ changed' = Entries

(* Every raise removes the temporary tree. *)
Refuse == step' = "refused" /\ Forget /\ cut' = NoTree /\ UNCHANGED target

(* A phase reads the entries of left one at a time and goes on when none is left. *)
NextPhase(label, entries) ==
  step' = label /\ left' = entries

(* The destination is looked at, and a temporary directory made beside it. *)
Begins ==
  /\ step = "idle"
  /\ IF target # NoTree THEN Refuse
     ELSE NextPhase("scan", Listed) /\ UNCHANGED <<changed, seen, copy, target, cut>>
  /\ UNCHANGED storeVars

(* _scan_source, the first time: the names of the root are listed, then    *)
(* looked at one by one.                                                   *)
ScanEntry(e) ==
  /\ step = "scan" /\ e \in left
  /\ seen' = seen \cup {e} /\ changed' = changed \ {e}
  /\ IF left = {e} THEN NextPhase("descend", seen') ELSE left' = left \ {e} /\ UNCHANGED step
  /\ UNCHANGED <<storeVars, copy, target, cut>>

(* _snapshot_run_rows: the database files are copied aside, read, upgraded *)
(* in the copy and validated.                                              *)
SnapshotRows ==
  /\ step = "database"
  /\ IF Unchanged(Database) /\ KnownObjects(odd)
     THEN /\ copy' = [copy EXCEPT !.row = row]
          /\ NextPhase("results", {r \in Runs : row[r] # Absent})
          /\ UNCHANGED <<changed, seen, target, cut>>
     ELSE Refuse
  /\ UNCHANGED storeVars

(* _validate_run_tree: the directories are exactly the runs of the rows,   *)
(* each results.json says what its row says.                               *)
NoOrphans == {r \in Runs : copy.row[r] # Absent} = seen \ {Database}

ReadResults(r) ==
  /\ step = "results" /\ r \in left
  /\ IF NoOrphans /\ Unchanged(r) /\ file[r] = copy.row[r]
     THEN /\ IF left = {r} THEN NextPhase("rescan", seen)
             ELSE left' = left \ {r} /\ UNCHANGED step
          /\ UNCHANGED <<changed, seen, copy, target, cut>>
     ELSE Refuse
  /\ UNCHANGED storeVars

(* A directory that is read must be the one that was listed; and the scans *)
(* after the validation and after the copying must find what the first     *)
(* one found.                                                              *)
AfterScan == [descend |-> "database", rescan |-> "copying", recheck |-> "upgrade"]

RescanEntry(e) ==
  /\ step \in DOMAIN AfterScan /\ e \in left
  /\ IF Unchanged(e) /\ (step # "descend" => Listed = seen)
     THEN /\ IF left = {e}
             THEN NextPhase(AfterScan[step], IF step = "rescan" THEN seen ELSE {})
             ELSE left' = left \ {e} /\ UNCHANGED step
          /\ UNCHANGED <<changed, seen, copy, target, cut>>
     ELSE Refuse
  /\ UNCHANGED storeVars

CopiedEntry(e) ==
  IF e = Database
  THEN [copy EXCEPT !.schema = schema, !.odd = odd, !.row = row, !.projected = projected]
  ELSE [copy EXCEPT !.dir = @ \cup {e}, !.file[e] = file[e]]

(* _copy_file of every file of an entry, its fingerprint before and after. *)
CopyEntry(e) ==
  /\ step = "copying" /\ e \in left
  /\ IF Unchanged(e)
     THEN /\ copy' = CopiedEntry(e)
          /\ IF left = {e} THEN NextPhase("recheck", seen) /\ cut' = Source
             ELSE left' = left \ {e} /\ UNCHANGED <<step, cut>>
          /\ UNCHANGED <<changed, seen, target>>
     ELSE Refuse
  /\ UNCHANGED storeVars

(* _upgrade_database of the copy. *)
UpgradeCopy ==
  /\ step = "upgrade" /\ step' = "validate"
  /\ LET up == Upgraded(copy.schema, copy.row, copy.projected) IN
       copy' = [copy EXCEPT !.schema = up.schema, !.projected = up.shown]
  /\ UNCHANGED <<storeVars, changed, left, seen, target, cut>>

(* _validate_run_projection and _validate_assessment_rows. *)
ProjectionsAgree(tree) == \A r \in tree.dir : tree.projected[r] = tree.row[r]

(* What _validated_entries(require_current) asks of a tree. *)
Validated(tree) ==
  /\ tree.schema = Current /\ KnownObjects(tree.odd)
  /\ tree.dir = {r \in Runs : tree.row[r] # Absent}
  /\ \A r \in tree.dir : tree.file[r] = tree.row[r]
  /\ ProjectionsAgree(tree)

ValidateCopy ==
  /\ step = "validate"
  /\ IF Validated(copy) THEN step' = "install" /\ UNCHANGED <<changed, left, seen, copy, target, cut>>
     ELSE Refuse
  /\ UNCHANGED storeVars

(* mutant: os.replace instead of the exclusive rename. *)
InstallOver ==
  /\ step = "install" /\ target' = copy /\ step' = "installed" /\ Forget
  /\ UNCHANGED <<storeVars, cut>>

(* _install_state: a rename that refuses a destination that has appeared;  *)
(* when the fsync after it fails, the migration raises, having installed.  *)
Install ==
  /\ step = "install"
  /\ IF target = NoTree
     THEN target' = copy /\ step' \in {"installed", "unsynced"} /\ Forget /\ UNCHANGED cut
     ELSE Refuse
  /\ UNCHANGED storeVars

(* Killed: the temporary tree stays behind, under a random name nothing reads. *)
MigrationKilled ==
  /\ step \notin {"idle", "installed", "unsynced", "refused", "dead"} /\ step' = "dead"
  /\ Forget /\ cut' = NoTree /\ UNCHANGED <<storeVars, target>>

(* Another program opens the destination for itself. *)
SomeoneCreatesTarget ==
  /\ target = NoTree /\ target' = Foreign
  /\ step \notin {"refused", "dead"}
  /\ UNCHANGED <<storeVars, changed, step, left, seen, copy, cut>>

Migrate ==
  \/ Begins \/ SnapshotRows
  \/ \E e \in Entries : ScanEntry(e) \/ RescanEntry(e) \/ CopyEntry(e)
  \/ \E r \in Runs : ReadResults(r)
  \/ UpgradeCopy \/ ValidateCopy \/ Install \/ MigrationKilled

Next ==
  \/ (Load \/ \E r \in Runs : Save(r)) /\ UNCHANGED mineVars
  \/ Migrate \/ SomeoneCreatesTarget

Spec == Init /\ [][Next]_vars

-----------------------------------------------------------------------------
(* What is installed is one moment of the source: database and files are   *)
(* what they were together when the copying ended, though each was read at *)
(* a time of its own while runs were being saved; and it is consistent:    *)
(* a run has a directory exactly if it has a row, results.json, row and    *)
(* projections show the same record.                                       *)
InstalledIsOneMoment ==
  step \in {"installed", "unsynced"} =>
    /\ target.row = cut.row /\ target.file = cut.file /\ target.dir = cut.dir
    /\ Validated(target)

(* A destination, once it exists, is never replaced by a migration, not    *)
(* even when it appeared after the migration had found none.               *)
DestinationIsNeverReplaced == [][target # NoTree => target' = target]_vars
=============================================================================
