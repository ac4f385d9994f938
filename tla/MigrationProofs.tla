-------------------------- MODULE MigrationProofs --------------------------
(***************************************************************************)
(* Proofs about StateStore and Migration: for any runs, any releases the   *)
(* database may come from, any number of failing calls and of kills, a run *)
(* is saved in both places or in neither, what was committed is on disk,   *)
(* and a migration installs what the source was at one moment, or nothing. *)
(***************************************************************************)
EXTENDS Migration, TLAPS

-----------------------------------------------------------------------------
\* The inductive invariant, the part about saving: what there is of a run,
\* by how far its process has come.

Untouched(r) ==
  /\ row[r] = Before(r) /\ file[r] = Before(r) /\ backup[r] = Absent
  /\ r \notin published /\ r \notin undoFailed
Reserved(r) ==
  /\ row[r] = Before(r) /\ file[r] = Before(r) /\ backup[r] = Empty /\ r \in Saved
  /\ r \notin published /\ r \notin undoFailed
Aside(r) ==
  /\ row[r] = Before(r) /\ file[r] = Absent /\ backup[r] = Before(r)
  /\ r \notin published /\ r \notin undoFailed
Shown(r) ==
  /\ row[r] = Before(r) /\ file[r] = Version(r) /\ backup[r] = Before(r)
  /\ r \in published /\ r \notin undoFailed
Kept(r) == row[r] = Version(r) /\ file[r] = Version(r)

\* Only a failed undoing leaves the previous record under another name; an empty
\* backup that is moved back leaves none.
Lost(r) == file[r] = Empty /\ row[r] = Before(r) /\ r \in Saved /\ faults > 0
Undone(r) ==
  /\ row[r] = Before(r)
  /\ r \notin undoFailed => file[r] = Before(r) \/ Lost(r)
  /\ Before(r) # Absent => Before(r) \in {file[r], backup[r]} \/ Lost(r)
Standing(r) == row[r] # Absent => row[r] \in {file[r], backup[r]} \/ Lost(r)

SavingInv(r) ==
  /\ pc[r] \in {"idle", "stage", "connect", "begin", "backup"} => Untouched(r)
  /\ pc[r] = "unlink" => Reserved(r)
  /\ pc[r] = "aside" => Untouched(r) /\ r \in Saved
  /\ pc[r] = "backup" => r \in Saved
  /\ pc[r] = "publish" => Aside(r)
  /\ pc[r] = "commit" => Shown(r)
  /\ pc[r] \in {"clean", "secure", "done"} => Kept(r)
  /\ pc[r] \in {"rollback", "restore"} =>
       Untouched(r) \/ Aside(r) \/ Shown(r) \/ (Reserved(r) /\ faults > 0)
  /\ pc[r] = "unstage" => Undone(r)
  /\ pc[r] = "raised" => Kept(r) \/ Undone(r)
  /\ pc[r] = "dead" => Standing(r)

\* A record is in the directory of its run, which exists from the first step
\* of a save on.
HoldsIn(r) ==
  file[r] # Absent \/ pc[r] \notin {"idle", "raised", "done", "dead"} => r \in dir

StoreInv == \A r \in Runs : SavingInv(r) /\ HoldsIn(r)

-----------------------------------------------------------------------------
\* The inductive invariant, the part about the migration.

Tree == [schema : Nat, odd : BOOLEAN, row : [Runs -> Versions], projected : [Runs -> Versions],
         dir : SUBSET Runs, file : [Runs -> Contents]]

Reading == {"scan", "descend", "database", "results", "rescan"}
Busy    == Reading \cup {"copying", "recheck"}

\* What was listed is there, and every entry is looked at.
ScanInv ==
  /\ step \in Busy => seen \subseteq Listed
  /\ step = "idle" => seen = {}
  /\ step = "scan" => left \subseteq Listed /\ Database \in seen \cup left
  /\ step \in Busy \ {"scan"} => Database \in seen
  /\ step \in {"copying", "recheck"} => left \subseteq seen

\* A tree has no records outside of its directories.
Tidy(tree) == \A r \in Runs : tree.file[r] # Absent => r \in tree.dir

\* What a tree has of an entry is what another one has.
Same(e, tree, other) ==
  IF e = Database THEN tree.row = other.row
  ELSE e \in tree.dir /\ e \in other.dir /\ tree.file[e] = other.file[e]

\* An entry that was copied is still that of the source, unless it has changed.
CopyInv ==
  /\ step \in Reading \cup {"idle"} => copy.dir = {}
  /\ step = "copying" =>
       /\ copy.dir = (seen \ left) \ {Database}
       /\ \A e \in seen \ left : e \notin changed => Same(e, copy, Source)
  /\ step \in Busy \cup {"idle"} => Tidy(copy)

\* It was that of the source when the copying ended: for sure once it has been
\* found unchanged since.
CutInv ==
  /\ step = "recheck" =>
       /\ copy.dir = seen \ {Database} /\ copy.dir \subseteq cut.dir /\ cut.dir \subseteq dir
       /\ Tidy(cut)
       /\ \A e \in seen : e \notin left \/ e \notin changed => Same(e, copy, cut)
  /\ step \in {"upgrade", "validate", "install"} =>
       copy.row = cut.row /\ copy.file = cut.file /\ copy.dir = cut.dir
  /\ step = "install" => Validated(copy)

TreeTypes == copy \in Tree /\ target \in Tree /\ cut \in Tree

MigrationInv == TypeOK /\ TreeTypes /\ ScanInv /\ CopyInv /\ CutInv /\ InstalledIsOneMoment

IInv == StoreInv /\ MigrationInv

-----------------------------------------------------------------------------
\* Saving

\* A migration only reads.
LEMMA MigrationReads ==
  ASSUME Migrate \/ SomeoneCreatesTarget
  PROVE  UNCHANGED storeVars
BY DEF Migrate, SomeoneCreatesTarget, Begins, SnapshotRows, ScanEntry, RescanEntry, CopyEntry, ReadResults,
   UpgradeCopy, ValidateCopy, Install, MigrationKilled

\* The labels a process goes through, whatever it does.
LEMMA SaveTypes ==
  ASSUME StoreTypeOK, NEW r \in Runs, Save(r)
  PROVE  StoreTypeOK'
<1>1. /\ Version(r) \in Versions /\ Absent \in Versions /\ Before(r) \in Versions
      /\ Versions \subseteq Contents /\ Empty \in Contents
  BY DEF Version, Versions, Absent, Before, Contents
<1>2. CASE PrepareRunDir(r) \/ Stage(r) \/ Begin(r) \/ Reserve(r) \/ Unlink(r) \/ BackUp(r)
           \/ Publish(r) \/ Commit(r)
  BY <1>1, <1>2 DEF PrepareRunDir, Stage, Begin, Reserve, Unlink, BackUp, Publish, Commit, Go, Touch, StoreTypeOK,
     Labels, Connected, Backing, dbVars, treeVars
<1>3. CASE Connect(r)
  <2>1. schema' \in 1..Current /\ projected' \in [Runs -> Versions]
    BY <1>3 DEF Connect, Opens, Upgraded, StoreTypeOK, Current
  <2> QED
    BY <1>3, <2>1 DEF Connect, Opens, Go, Touch, StoreTypeOK, Labels, Connected, Backing, treeVars
<1>4. CASE Clean(r) \/ Secure(r) \/ ConnectRefused(r) \/ Fails(r)
  BY <1>1, <1>4, StateStoreAssumption DEF Clean, Secure, ConnectRefused, Fails, Go, Touch, StoreTypeOK,
     Labels, Connected, Backing, dbVars, treeVars
<1>5. CASE Rollback(r) \/ Unstage(r) \/ Killed(r)
  BY <1>5 DEF Rollback, Unstage, Killed, Go, Touch, StoreTypeOK, Labels, Connected, Backing, dbVars, treeVars
<1>6. CASE Restore(r)
  BY <1>1, <1>6, StateStoreAssumption DEF Restore, Restored, Go, Touch, StoreTypeOK, Labels, Connected, Backing, dbVars
<1> QED
  BY <1>2, <1>3, <1>4, <1>5, <1>6 DEF Save

\* A process changes what there is of its own run only.
LEMMA Elsewhere ==
  ASSUME StoreTypeOK, NEW r \in Runs, Save(r), NEW q \in Runs, q # r
  PROVE  /\ faults' >= faults /\ pc'[q] = pc[q] /\ row'[q] = row[q] /\ file'[q] = file[q] /\ backup'[q] = backup[q]
         /\ q \in published' <=> q \in published
         /\ q \in undoFailed' <=> q \in undoFailed
         /\ q \in dir => q \in dir'
<1> USE DEF StoreTypeOK, Go, dbVars, treeVars
<1>1. CASE PrepareRunDir(r) \/ Stage(r) \/ Connect(r) \/ Begin(r) \/ Reserve(r) \/ Unlink(r)
           \/ BackUp(r) \/ Publish(r)
  BY <1>1 DEF PrepareRunDir, Stage, Connect, Opens, Begin, Reserve, Unlink, BackUp, Publish
<1>2. CASE Commit(r) \/ Clean(r) \/ Secure(r) \/ ConnectRefused(r) \/ Fails(r)
  BY <1>2 DEF Commit, Clean, Secure, ConnectRefused, Fails
<1>3. CASE Rollback(r) \/ Restore(r) \/ Unstage(r) \/ Killed(r)
  BY <1>3 DEF Rollback, Restore, Restored, Unstage, Killed
<1> QED
  BY <1>1, <1>2, <1>3 DEF Save

\* What there is of its own run follows how far it has come.
LEMMA SaveKeeps ==
  ASSUME StoreTypeOK, NEW r \in Runs, Save(r), SavingInv(r), HoldsIn(r)
  PROVE  SavingInv(r)' /\ HoldsIn(r)'
<1> USE DEF StoreTypeOK, Go, dbVars, treeVars, Before, Version, Absent, Empty, Lost
<1>1. CASE PrepareRunDir(r) \/ Stage(r) \/ Connect(r)
  BY <1>1 DEF PrepareRunDir, Stage, Connect, Opens, SavingInv, HoldsIn, Untouched
<1>2. CASE Begin(r)
  BY <1>2 DEF Begin, SavingInv, HoldsIn, Untouched, Aside
<1>3. CASE Reserve(r) \/ Unlink(r) \/ BackUp(r)
  BY <1>3 DEF Reserve, Unlink, BackUp, SavingInv, HoldsIn, Untouched, Reserved, Aside
<1>4. CASE Publish(r)
  BY <1>4 DEF Publish, SavingInv, HoldsIn, Aside, Shown
<1>5. CASE Commit(r)
  BY <1>5 DEF Commit, SavingInv, HoldsIn, Shown, Kept
<1>6. CASE Clean(r)
  BY <1>6 DEF Clean, SavingInv, HoldsIn, Kept
<1>7. CASE Secure(r)
  BY <1>7 DEF Secure, SavingInv, HoldsIn, Kept, Undone
<1>8. CASE ConnectRefused(r)
  BY <1>8 DEF ConnectRefused, SavingInv, HoldsIn, Untouched, Undone
<1>9. CASE Fails(r)
  BY <1>9 DEF Fails, Backing, SavingInv, HoldsIn, Untouched, Reserved, Aside, Shown, Kept, Undone
<1>10. CASE Rollback(r)
  BY <1>10 DEF Rollback, SavingInv, HoldsIn, Untouched, Reserved, Aside, Shown
<1>11. CASE Restore(r)
  BY <1>11 DEF Restore, Restored, SavingInv, HoldsIn, Untouched, Reserved, Aside, Shown, Undone
<1>12. CASE Unstage(r)
  BY <1>12 DEF Unstage, SavingInv, HoldsIn, Undone, Kept
<1>13. CASE Killed(r)
  BY <1>13 DEF Killed, Labels, Connected, Backing, SavingInv, HoldsIn, Untouched, Reserved, Aside, Shown,
     Kept, Undone, Standing
<1> QED
  BY <1>1, <1>2, <1>3, <1>4, <1>5, <1>6, <1>7, <1>8, <1>9, <1>10, <1>11, <1>12, <1>13 DEF Save

LEMMA SavingStep ==
  ASSUME TypeOK, StoreInv, Next
  PROVE  StoreInv'
<1> SUFFICES ASSUME NEW q \in Runs PROVE SavingInv(q)' /\ HoldsIn(q)'
  BY DEF StoreInv
<1>1. SavingInv(q) /\ HoldsIn(q)
  BY DEF StoreInv
<1>2. ASSUME UNCHANGED <<pc, published, row, file, backup, dir, undoFailed, faults>>
      PROVE  SavingInv(q)' /\ HoldsIn(q)'
  BY <1>1, <1>2 DEF SavingInv, HoldsIn, Untouched, Reserved, Aside, Shown,
        Kept, Undone, Standing, Lost
<1>3. ASSUME NEW r \in Runs, Save(r) PROVE SavingInv(q)' /\ HoldsIn(q)'
  <2>1. CASE q = r
    BY <1>1, <1>3, <2>1, SaveKeeps DEF TypeOK
  <2>2. CASE q # r
    <3>1. /\ pc'[q] = pc[q] /\ row'[q] = row[q] /\ file'[q] = file[q] /\ backup'[q] = backup[q]
          /\ q \in published' <=> q \in published
          /\ q \in undoFailed' <=> q \in undoFailed
          /\ q \in dir => q \in dir'
      BY <1>3, <2>2, Elsewhere DEF TypeOK
    <3>2. faults > 0 => faults' > 0
      <4>1. faults' >= faults /\ faults \in Nat /\ faults' \in Nat
        BY <1>3, <2>2, Elsewhere, SaveTypes, StateStoreAssumption DEF TypeOK, StoreTypeOK
      <4> QED
        BY <4>1
    <3>3. /\ Untouched(q)' <=> Untouched(q)
          /\ Reserved(q)' <=> Reserved(q)
          /\ Aside(q)' <=> Aside(q)
          /\ Shown(q)' <=> Shown(q)
          /\ Kept(q)' <=> Kept(q)
      BY <3>1 DEF Untouched, Reserved, Aside, Shown, Kept
    <3>4. /\ Lost(q) => Lost(q)'
          /\ Undone(q) => Undone(q)'
          /\ Standing(q) => Standing(q)'
      BY <3>1, <3>2 DEF Undone, Standing, Lost
    <3> QED
      BY <1>1, <3>1, <3>2, <3>3, <3>4 DEF SavingInv, HoldsIn
  <2> QED
    BY <2>1, <2>2
<1>4. CASE Load
  BY <1>2, <1>4 DEF Load, Opens, treeVars
<1>5. CASE Migrate \/ SomeoneCreatesTarget
  BY <1>2, <1>5, MigrationReads DEF storeVars, saveVars, dbVars, treeVars
<1> QED
  BY <1>3, <1>4, <1>5 DEF Next

-----------------------------------------------------------------------------
\* What the migration may rely on

\* Whatever changes an entry gives it another fingerprint; a directory that is
\* there stays.
LEMMA SavingShows ==
  ASSUME StoreTypeOK, Load \/ \E r \in Runs : Save(r)
  PROVE  /\ changed \subseteq changed' /\ dir \subseteq dir'
         /\ Database \notin changed' => row' = row
         /\ \A q \in Runs : q \notin changed' => file'[q] = file[q]
<1> USE DEF StoreTypeOK, Go, Touch, dbVars, treeVars
<1>1. CASE Load
  BY <1>1 DEF Load, Opens
<1>2. ASSUME NEW r \in Runs, Save(r)
      PROVE  /\ changed \subseteq changed' /\ dir \subseteq dir'
             /\ Database \notin changed' => row' = row
             /\ \A q \in Runs : q \notin changed' => file'[q] = file[q]
  <2>1. CASE PrepareRunDir(r) \/ Stage(r) \/ Connect(r) \/ Begin(r) \/ Reserve(r) \/ Unlink(r)
           \/ BackUp(r) \/ Publish(r)
    BY <2>1 DEF PrepareRunDir, Stage, Connect, Opens, Begin, Reserve, Unlink, BackUp, Publish
  <2>2. CASE Commit(r) \/ Clean(r) \/ Secure(r) \/ ConnectRefused(r) \/ Fails(r)
    BY <2>2 DEF Commit, Clean, Secure, ConnectRefused, Fails
  <2>3. CASE Rollback(r) \/ Restore(r) \/ Unstage(r) \/ Killed(r)
    BY <2>3 DEF Rollback, Restore, Restored, Unstage, Killed
  <2> QED
    BY <1>2, <2>1, <2>2, <2>3 DEF Save
<1> QED
  BY <1>1, <1>2

\* The trees that are made are trees.
LEMMA TreesMade ==
  ASSUME TypeOK, TreeTypes
  PROVE  /\ NoTree \in Tree /\ Foreign \in Tree /\ Source \in Tree
         /\ [copy EXCEPT !.row = row] \in Tree
         /\ \A e \in Entries : CopiedEntry(e) \in Tree
<1>1. Absent \in Versions /\ 0 \in Nat /\ Current + 1 \in Nat
  BY DEF Absent, Versions, Current
<1>2. NoTree \in Tree /\ Source \in Tree
  BY <1>1 DEF NoTree, Source, Tree, TypeOK, StoreTypeOK, Current, Contents
<1>3. Foreign \in Tree
  BY <1>1, <1>2 DEF Foreign, Tree
<1>4. [copy EXCEPT !.row = row] \in Tree
  BY DEF Tree, TreeTypes, TypeOK, StoreTypeOK
<1>5. ASSUME NEW e \in Entries PROVE CopiedEntry(e) \in Tree
  <2>1. CASE e = Database
    <3>1. CopiedEntry(e) = [schema |-> schema, odd |-> odd, row |-> row, projected |-> projected,
                            dir |-> copy.dir, file |-> copy.file]
      BY <2>1 DEF CopiedEntry, Tree, TreeTypes
    <3>2. schema \in Nat
      BY DEF TypeOK, StoreTypeOK, Current
    <3> QED
      BY <3>1, <3>2 DEF Tree, TreeTypes, TypeOK, StoreTypeOK
  <2>2. CASE e # Database
    <3>1. e \in Runs
      BY <2>2 DEF Entries
    <3>2. /\ copy.dir \cup {e} \in SUBSET Runs /\ [copy.file EXCEPT ![e] = file[e]] \in [Runs -> Contents]
      BY <3>1 DEF Tree, TreeTypes, TypeOK, StoreTypeOK
    <3>3. CopiedEntry(e) = [copy EXCEPT !.dir = copy.dir \cup {e}, !.file = [copy.file EXCEPT ![e] = file[e]]]
      BY <2>2, <3>1 DEF CopiedEntry, Tree, TreeTypes
    <3> QED
      BY <3>2, <3>3 DEF Tree, TreeTypes
  <2> QED
    BY <2>1, <2>2
<1> QED
  BY <1>2, <1>3, <1>4, <1>5

-----------------------------------------------------------------------------
\* Migrating

\* While a migration reads, runs are saved and the database is upgraded.
LEMMA SavingLeaves ==
  ASSUME MigrationInv, Load \/ \E r \in Runs : Save(r), UNCHANGED mineVars
  PROVE  MigrationInv'
<1> USE DEF MigrationInv, mineVars
<1>1. StoreTypeOK'
  <2>1. CASE Load
    <3>1. schema' \in 1..Current /\ projected' \in [Runs -> Versions]
      BY <2>1 DEF Load, Opens, Upgraded, TypeOK, StoreTypeOK, Current
    <3> QED
      BY <2>1, <3>1 DEF Load, Opens, Touch, TypeOK, StoreTypeOK, treeVars
  <2> QED
    BY <2>1, SaveTypes DEF TypeOK
<1>2. /\ changed \subseteq changed' /\ dir \subseteq dir'
      /\ Database \notin changed' => row' = row
      /\ \A q \in Runs : q \notin changed' => file'[q] = file[q]
  BY SavingShows DEF TypeOK
<1>3. TypeOK' /\ TreeTypes'
  BY <1>1 DEF TypeOK, TreeTypes
<1>4. ScanInv'
  BY <1>2 DEF ScanInv, Listed
<1>5. CopyInv'
  <2>1. Tidy(copy)' = Tidy(copy)
    BY DEF Tidy
  <2>2. ASSUME step = "copying", NEW e \in seen \ left, e \notin changed'
        PROVE  Same(e, copy, Source)'
    <3>1. Same(e, copy, Source)
      BY <1>2, <2>2 DEF CopyInv
    <3>2. CASE e = Database
      BY <1>2, <2>2, <3>1, <3>2 DEF Same, Source
    <3>3. CASE e # Database
      <4>1. e \in Runs
        BY <3>3 DEF TypeOK, Entries
      <4> QED
        BY <1>2, <2>2, <3>1, <3>3, <4>1 DEF Same, Source
    <3> QED
      BY <3>2, <3>3
  <2> QED
    BY <2>1, <2>2 DEF CopyInv
<1>6. CutInv'
  <2>1. Tidy(cut)' = Tidy(cut) /\ Validated(copy)' = Validated(copy)
    BY DEF Tidy, Validated, ProjectionsAgree
  <2>2. \A e : Same(e, copy, cut)' = Same(e, copy, cut)
    BY DEF Same
  <2> QED
    BY <1>2, <2>1, <2>2 DEF CutInv
<1>7. InstalledIsOneMoment'
  BY DEF InstalledIsOneMoment, Validated, ProjectionsAgree
<1> QED
  BY <1>3, <1>4, <1>5, <1>6, <1>7

\* A migration that gives up leaves nothing to rely on.
LEMMA GivesUp ==
  ASSUME MigrationInv, UNCHANGED storeVars, Forget, step' \in {"refused", "dead"}, cut' = NoTree,
         UNCHANGED target
  PROVE  MigrationInv'
<1>1. TypeOK'
  BY DEF MigrationInv, TypeOK, StoreTypeOK, Forget, storeVars, saveVars, dbVars, treeVars, Phases, Entries
<1>2. TreeTypes'
  BY TreesMade DEF MigrationInv, TreeTypes, Forget
<1> QED
  BY <1>1, <1>2 DEF MigrationInv, ScanInv, CopyInv, CutInv, InstalledIsOneMoment, Busy, Reading

LEMMA BeginsKeeps ==
  ASSUME MigrationInv, Begins
  PROVE  MigrationInv'
<1> USE DEF MigrationInv, storeVars, saveVars, dbVars, treeVars
<1>1. CASE target # NoTree
  BY <1>1, GivesUp DEF Begins, Refuse
<1>2. CASE target = NoTree
  <2>1. TypeOK' /\ TreeTypes'
    BY <1>2 DEF Begins, NextPhase, TypeOK, StoreTypeOK, Listed, Entries, Phases, TreeTypes
  <2>2. ScanInv'
    BY <1>2 DEF Begins, NextPhase, ScanInv, Listed, Busy, Reading
  <2>3. CopyInv'
    BY <1>2 DEF Begins, NextPhase, CopyInv, Busy, Reading, Tidy
  <2>4. CutInv' /\ InstalledIsOneMoment'
    BY <1>2 DEF Begins, NextPhase, CutInv, InstalledIsOneMoment
  <2> QED
    BY <2>1, <2>2, <2>3, <2>4
<1> QED
  BY <1>1, <1>2

LEMMA ScanEntryKeeps ==
  ASSUME MigrationInv, NEW e \in Entries, ScanEntry(e)
  PROVE  MigrationInv'
<1> USE DEF MigrationInv, storeVars, saveVars, dbVars, treeVars, ScanEntry, NextPhase
<1>1. TypeOK' /\ TreeTypes'
  BY DEF TypeOK, StoreTypeOK, Phases, Entries, TreeTypes
<1>2. ScanInv'
  BY DEF ScanInv, Listed, Busy, Reading
<1>3. CopyInv'
  BY DEF CopyInv, Busy, Reading, Tidy
<1>4. CutInv' /\ InstalledIsOneMoment'
  BY DEF CutInv, InstalledIsOneMoment
<1> QED
  BY <1>1, <1>2, <1>3, <1>4

LEMMA SnapshotKeeps ==
  ASSUME MigrationInv, SnapshotRows
  PROVE  MigrationInv'
<1> USE DEF MigrationInv, storeVars, saveVars, dbVars, treeVars
<1>1. CASE ~(Unchanged(Database) /\ KnownObjects(odd))
  BY <1>1, GivesUp DEF SnapshotRows, Refuse
<1>2. CASE Unchanged(Database) /\ KnownObjects(odd)
  <2>0. /\ step = "database" /\ step' = "results" /\ copy' = [copy EXCEPT !.row = row]
        /\ left' = {r \in Runs : row[r] # Absent}
        /\ UNCHANGED <<storeVars, changed, seen, target, cut>>
    BY <1>2 DEF SnapshotRows, NextPhase
  <2>1. TypeOK'
    BY <2>0 DEF TypeOK, StoreTypeOK, Phases, Entries
  <2>2. TreeTypes'
    BY <2>0, TreesMade DEF TreeTypes
  <2>3. ScanInv'
    BY <2>0 DEF ScanInv, Listed, Busy, Reading
  <2>4. CopyInv'
    BY <2>0 DEF CopyInv, Busy, Reading, Tidy, TreeTypes, Tree
  <2>5. CutInv' /\ InstalledIsOneMoment'
    BY <2>0 DEF CutInv, InstalledIsOneMoment
  <2> QED
    BY <2>1, <2>2, <2>3, <2>4, <2>5
<1> QED
  BY <1>1, <1>2

LEMMA ReadKeeps ==
  ASSUME MigrationInv, NEW r \in Runs, ReadResults(r)
  PROVE  MigrationInv'
<1> USE DEF MigrationInv, storeVars, saveVars, dbVars, treeVars
<1>1. CASE ~(NoOrphans /\ Unchanged(r) /\ file[r] = copy.row[r])
  BY <1>1, GivesUp DEF ReadResults, Refuse
<1>2. CASE NoOrphans /\ Unchanged(r) /\ file[r] = copy.row[r]
  <2>0. /\ step = "results" /\ UNCHANGED <<storeVars, changed, seen, copy, target, cut>>
        /\ \/ step' = "results" /\ left' = left \ {r}
           \/ step' = "rescan" /\ left' = seen
    BY <1>2 DEF ReadResults, NextPhase
  <2>1. TypeOK' /\ TreeTypes'
    BY <2>0 DEF TypeOK, StoreTypeOK, Phases, Entries, TreeTypes
  <2>2. ScanInv'
    BY <2>0 DEF ScanInv, Listed, Busy, Reading
  <2>3. CopyInv'
    BY <2>0 DEF CopyInv, Busy, Reading, Tidy
  <2>4. CutInv' /\ InstalledIsOneMoment'
    BY <2>0 DEF CutInv, InstalledIsOneMoment
  <2> QED
    BY <2>1, <2>2, <2>3, <2>4
<1> QED
  BY <1>1, <1>2

LEMMA RescanKeeps ==
  ASSUME MigrationInv, NEW e \in Entries, RescanEntry(e)
  PROVE  MigrationInv'
<1> USE DEF MigrationInv, storeVars, saveVars, dbVars, treeVars
<1>1. CASE ~(Unchanged(e) /\ (step # "descend" => Listed = seen))
  BY <1>1, GivesUp DEF RescanEntry, Refuse
<1>2. CASE Unchanged(e) /\ (step # "descend" => Listed = seen)
  <2>0. /\ step \in {"descend", "rescan", "recheck"} /\ e \in left /\ e \notin changed
        /\ step # "descend" => Listed = seen
        /\ UNCHANGED <<storeVars, changed, seen, copy, target, cut>>
        /\ \/ left # {e} /\ left' = left \ {e} /\ step' = step
           \/ left = {e} /\ step = "descend" /\ step' = "database" /\ left' = {}
           \/ left = {e} /\ step = "rescan" /\ step' = "copying" /\ left' = seen
           \/ left = {e} /\ step = "recheck" /\ step' = "upgrade" /\ left' = {}
    BY <1>2 DEF RescanEntry, NextPhase, AfterScan, Unchanged
  <2>1. TypeOK' /\ TreeTypes'
    BY <2>0 DEF TypeOK, StoreTypeOK, Phases, Entries, TreeTypes
  <2>2. ScanInv'
    BY <2>0 DEF ScanInv, Listed, Busy, Reading
  <2>3. CopyInv'
    BY <2>0 DEF CopyInv, Busy, Reading, Tidy
  <2>4. CASE step' # "upgrade"
    <3>1. CutInv'
      <4>1. Tidy(cut)' = Tidy(cut)
        BY <2>0 DEF Tidy
      <4>2. \A x : Same(x, copy, cut)' = Same(x, copy, cut)
        BY <2>0 DEF Same
      <4> QED
        BY <2>0, <2>4, <4>1, <4>2 DEF CutInv
    <3> QED
      BY <2>0, <2>1, <2>2, <2>3, <2>4, <3>1 DEF InstalledIsOneMoment
  <2>5. CASE step' = "upgrade"
    <3>1. \A x \in seen : Same(x, copy, cut)
      BY <2>0, <2>5 DEF CutInv
    <3>2. copy.row = cut.row
      BY <2>0, <2>5, <3>1 DEF Same, ScanInv, Busy, Reading
    <3>3. copy.dir = cut.dir
      <4>1. dir = seen \ {Database}
        BY <2>0, <2>5, StateStoreAssumption DEF Listed, TypeOK, StoreTypeOK
      <4> QED
        BY <2>0, <2>5, <4>1 DEF CutInv
    <3>4. ASSUME NEW r \in Runs PROVE copy.file[r] = cut.file[r]
      <4>1. CASE r \in copy.dir
        BY <2>0, <2>5, <3>1, <4>1 DEF CutInv, Same
      <4>2. CASE r \notin copy.dir
        BY <2>0, <2>5, <3>3, <4>2 DEF CutInv, CopyInv, Tidy, Busy
      <4> QED
        BY <4>1, <4>2
    <3>5. copy.file = cut.file
      BY <3>4 DEF TreeTypes, Tree
    <3> QED
      BY <2>0, <2>1, <2>2, <2>3, <2>5, <3>2, <3>3, <3>5 DEF CutInv, InstalledIsOneMoment
  <2> QED
    BY <2>4, <2>5
<1> QED
  BY <1>1, <1>2

LEMMA CopyKeeps ==
  ASSUME MigrationInv, StoreInv, NEW e \in Entries, CopyEntry(e)
  PROVE  MigrationInv'
<1> USE DEF MigrationInv, storeVars, saveVars, dbVars, treeVars
<1>1. CASE ~Unchanged(e)
  BY <1>1, GivesUp DEF CopyEntry, Refuse
<1>2. CASE Unchanged(e)
  <2>0. /\ step = "copying" /\ e \in left /\ e \in Listed /\ e \notin changed
        /\ copy' = CopiedEntry(e)
        /\ UNCHANGED <<storeVars, changed, seen, target>>
        /\ \/ left # {e} /\ left' = left \ {e} /\ step' = step /\ cut' = cut
           \/ left = {e} /\ left' = seen /\ step' = "recheck" /\ cut' = Source
    BY <1>2 DEF CopyEntry, NextPhase, Unchanged
  <2>1. TypeOK' /\ TreeTypes'
    BY <2>0, TreesMade DEF TypeOK, StoreTypeOK, Phases, Entries, TreeTypes
  <2>2. ScanInv'
    BY <2>0 DEF ScanInv, Listed, Busy, Reading
  \* What was copied of the entry is what is there, the rest is as it was.
  <2>3. /\ Same(e, copy', Source)
        /\ copy'.dir = copy.dir \cup ({e} \ {Database})
        /\ \A x \in Entries : x # e => (Same(x, copy', Source) <=> Same(x, copy, Source))
        /\ Tidy(copy')
    <3>1. CASE e = Database
      <4>1. copy' = [schema |-> schema, odd |-> odd, row |-> row, projected |-> projected,
                     dir |-> copy.dir, file |-> copy.file]
        BY <2>0, <3>1 DEF CopiedEntry, Tree, TreeTypes
      <4> QED
        BY <2>0, <3>1, <4>1 DEF Same, Source, Tidy, CopyInv, Busy
    <3>2. CASE e # Database
      <4>1. e \in Runs /\ e \in dir
        BY <2>0, <3>2 DEF Entries, Listed
      <4>2. copy' = [copy EXCEPT !.dir = copy.dir \cup {e}, !.file = [copy.file EXCEPT ![e] = file[e]]]
        BY <2>0, <3>2 DEF CopiedEntry, Tree, TreeTypes
      <4>3. copy'.dir = copy.dir \cup {e} /\ copy'.file = [copy.file EXCEPT ![e] = file[e]] /\ copy'.row = copy.row
        BY <4>2 DEF Tree, TreeTypes
      <4> QED
        BY <2>0, <3>2, <4>1, <4>3 DEF Same, Source, Tidy, CopyInv, Busy, Tree, TreeTypes, Entries
    <3> QED
      BY <3>1, <3>2
  <2>4. copy'.dir = (seen \ (left \ {e})) \ {Database}
    BY <2>0, <2>3 DEF CopyInv, ScanInv
  <2>5. \A x \in seen \ (left \ {e}) : x \notin changed => Same(x, copy', Source)
    BY <2>0, <2>3 DEF CopyInv, TypeOK
  <2>6. Source' = Source
    BY <2>0 DEF Source
  <2>7. CASE left # {e}
    <3>1. CopyInv'
      BY <2>0, <2>3, <2>4, <2>5, <2>6, <2>7 DEF CopyInv, Busy, Reading, Same, Tidy
    <3> QED
      BY <2>0, <2>1, <2>2, <2>7, <3>1 DEF CutInv, InstalledIsOneMoment
  <2>8. CASE left = {e}
    <3>1. CopyInv'
      BY <2>0, <2>3, <2>8 DEF CopyInv, Busy, Reading, Tidy
    <3>2. copy'.dir = seen \ {Database} /\ copy'.dir \subseteq dir
      BY <2>0, <2>4, <2>8 DEF ScanInv, Listed, Busy, Reading
    <3>3. cut'.dir = dir /\ cut'.file = file /\ Tidy(cut')
      BY <2>0, <2>8 DEF Source, Tidy, StoreInv, HoldsIn
    <3>4. \A x \in seen : x \notin changed => Same(x, copy', cut')
      BY <2>0, <2>5, <2>8 
    <3>5. CutInv'
      BY <2>0, <2>8, <3>2, <3>3, <3>4 DEF CutInv, Tidy, Same
    <3> QED
      BY <2>0, <2>1, <2>2, <2>8, <3>1, <3>5 DEF InstalledIsOneMoment
  <2> QED
    BY <2>7, <2>8
<1> QED
  BY <1>1, <1>2

LEMMA EndKeeps ==
  ASSUME MigrationInv, UpgradeCopy \/ ValidateCopy \/ Install \/ MigrationKilled
  PROVE  MigrationInv'
<1> USE DEF MigrationInv, storeVars, saveVars, dbVars, treeVars
<1>1. CASE UpgradeCopy
  <2>1. /\ copy' = [copy EXCEPT !.schema = Upgraded(copy.schema, copy.row, copy.projected).schema,
                                !.projected = Upgraded(copy.schema, copy.row, copy.projected).shown]
        /\ step = "upgrade" /\ step' = "validate"
        /\ UNCHANGED <<storeVars, changed, left, seen, target, cut>>
    BY <1>1 DEF UpgradeCopy
  <2>2. copy' \in Tree /\ copy'.row = copy.row /\ copy'.file = copy.file /\ copy'.dir = copy.dir
    BY <2>1 DEF Upgraded, Current, Tree, TreeTypes
  <2>3. TypeOK' /\ TreeTypes'
    BY <2>1, <2>2 DEF TypeOK, StoreTypeOK, Phases, TreeTypes
  <2> QED
    BY <2>1, <2>2, <2>3 DEF ScanInv, CopyInv, CutInv, InstalledIsOneMoment, Busy, Reading
<1>2. CASE ValidateCopy
  <2>1. CASE ~Validated(copy)
    BY <1>2, <2>1, GivesUp DEF ValidateCopy, Refuse
  <2>2. CASE Validated(copy)
    <3>1. /\ step = "validate" /\ step' = "install"
          /\ UNCHANGED <<storeVars, changed, left, seen, copy, target, cut>>
      BY <1>2, <2>2 DEF ValidateCopy
    <3>2. TypeOK' /\ TreeTypes'
      BY <3>1 DEF TypeOK, StoreTypeOK, Phases, TreeTypes
    <3>3. Validated(copy)'
      BY <2>2, <3>1 DEF Validated, ProjectionsAgree
    <3> QED
      BY <3>1, <3>2, <3>3 DEF ScanInv, CopyInv, CutInv, InstalledIsOneMoment, Busy, Reading
  <2> QED
    BY <2>1, <2>2
<1>3. CASE Install
  <2>1. CASE target # NoTree
    BY <1>3, <2>1, GivesUp DEF Install, Refuse
  <2>2. CASE target = NoTree
    <3>1. /\ step = "install" /\ step' \in {"installed", "unsynced"} /\ target' = copy /\ Forget
          /\ UNCHANGED <<storeVars, cut>>
      BY <1>3, <2>2 DEF Install
    <3>2. TypeOK' /\ TreeTypes'
      BY <3>1, TreesMade DEF TypeOK, StoreTypeOK, Phases, TreeTypes, Forget, Entries
    <3>3. InstalledIsOneMoment'
      BY <3>1 DEF InstalledIsOneMoment, CutInv, Validated, ProjectionsAgree
    <3> QED
      BY <3>1, <3>2, <3>3 DEF ScanInv, CopyInv, CutInv, Busy, Reading
  <2> QED
    BY <2>1, <2>2
<1>4. CASE MigrationKilled
  BY <1>4, GivesUp DEF MigrationKilled
<1> QED
  BY <1>1, <1>2, <1>3, <1>4

LEMMA SomeoneKeeps ==
  ASSUME MigrationInv, SomeoneCreatesTarget
  PROVE  MigrationInv'
<1> USE DEF MigrationInv, storeVars, saveVars, dbVars, treeVars
<1>1. UNCHANGED <<storeVars, changed, step, left, seen, copy, cut>> /\ target = NoTree /\ target' = Foreign
  BY DEF SomeoneCreatesTarget
<1>2. TypeOK' /\ TreeTypes'
  BY <1>1, TreesMade DEF TypeOK, StoreTypeOK, TreeTypes
<1>3. step \notin {"installed", "unsynced"}
  BY <1>1 DEF InstalledIsOneMoment, Validated, NoTree, Current
<1>4. ScanInv' /\ CopyInv'
  <2>1. Tidy(copy)' = Tidy(copy) /\ \A e : Same(e, copy, Source)' = Same(e, copy, Source)
    BY <1>1 DEF Tidy, Same, Source
  <2> QED
    BY <1>1, <2>1 DEF ScanInv, CopyInv, Listed
<1>5. CutInv'
  <2>1. /\ Tidy(cut)' = Tidy(cut) /\ Validated(copy)' = Validated(copy)
        /\ \A e : Same(e, copy, cut)' = Same(e, copy, cut)
    BY <1>1 DEF Tidy, Same, Validated, ProjectionsAgree
  <2> QED
    BY <1>1, <2>1 DEF CutInv
<1> QED
  BY <1>1, <1>2, <1>3, <1>4, <1>5 DEF InstalledIsOneMoment

-----------------------------------------------------------------------------
\* The theorems

LEMMA Starts == Init => IInv
<1> SUFFICES ASSUME Init PROVE IInv
  OBVIOUS
<1> USE StateStoreAssumption DEF Init, StoreInit
<1>1. \A r \in Runs : Before(r) \in Versions
  BY DEF Before, Versions, Absent
<1>2. TypeOK
  BY <1>1 DEF TypeOK, StoreTypeOK, Versions, Contents, Absent, Labels, Connected, Phases, Entries
<1>3. TreeTypes
  BY DEF TreeTypes, NoTree, Tree, Versions, Contents, Absent
<1>4. StoreInv
  BY DEF StoreInv, SavingInv, HoldsIn, Untouched, Before, Absent
<1> QED
  BY <1>2, <1>3, <1>4 DEF IInv, MigrationInv, ScanInv, CopyInv, CutInv, InstalledIsOneMoment, Tidy, NoTree,
     Busy, Reading, Absent

LEMMA Step == IInv /\ [Next]_vars => IInv'
<1> SUFFICES ASSUME IInv, [Next]_vars PROVE IInv'
  OBVIOUS
<1>1. CASE Next
  <2>1. StoreInv'
    BY <1>1, SavingStep DEF IInv, MigrationInv
  <2>2. CASE (Load \/ \E r \in Runs : Save(r)) /\ UNCHANGED mineVars
    BY <2>1, <2>2, SavingLeaves DEF IInv
  <2>3. CASE Migrate
    BY <2>1, <2>3, BeginsKeeps, ScanEntryKeeps, SnapshotKeeps, ReadKeeps, RescanKeeps, CopyKeeps, EndKeeps
       DEF Migrate, IInv
  <2>4. CASE SomeoneCreatesTarget
    BY <2>1, <2>4, SomeoneKeeps DEF IInv
  <2> QED
    BY <1>1, <2>1, <2>2, <2>3, <2>4 DEF Next, IInv
<1>2. CASE UNCHANGED vars
  <2>0. /\ UNCHANGED <<pc, published, tx, faults, undoFailed, schema, odd, row, projected, dir, file, backup, staged>>
        /\ UNCHANGED <<changed, step, left, seen, copy, target, cut>>
    BY <1>2 DEF vars, storeVars, saveVars, dbVars, treeVars, mineVars
  <2>1. StoreInv'
    BY <2>0 DEF IInv, StoreInv, SavingInv, HoldsIn, Untouched, Reserved, Aside, Shown,
        Kept, Undone, Standing, Lost
  <2>2. TypeOK' /\ TreeTypes' /\ ScanInv'
    BY <2>0 DEF IInv, MigrationInv, TypeOK, StoreTypeOK, TreeTypes, ScanInv, Listed
  <2>3. /\ Tidy(copy)' = Tidy(copy) /\ Tidy(cut)' = Tidy(cut) /\ Validated(copy)' = Validated(copy)
        /\ Validated(target)' = Validated(target)
    BY <2>0 DEF Tidy, Validated, ProjectionsAgree
  <2>4. \A e : Same(e, copy, cut)' = Same(e, copy, cut) /\ Same(e, copy, Source)' = Same(e, copy, Source)
    BY <2>0 DEF Same, Source
  <2>5. CopyInv'
    BY <2>0, <2>3, <2>4 DEF IInv, MigrationInv, CopyInv
  <2>6. CutInv' /\ InstalledIsOneMoment'
    BY <2>0, <2>3, <2>4 DEF IInv, MigrationInv, CutInv, InstalledIsOneMoment
  <2> QED
    BY <2>1, <2>2, <2>5, <2>6 DEF IInv, MigrationInv
<1> QED
  BY <1>1, <1>2

\* The inductive invariant: what there is of a run by how far its process has
\* come, and what of the copy is still, or was when it ended, the source.
THEOREM MigrationInvariance == Spec => []IInv
  BY Starts, Step, PTL DEF Spec

\* Whatever fails and whoever is killed, what the database says of a run is in
\* its results.json or in the backup of it, unless a save that raised has left an
\* empty file (metrics.py, save_run).
THEOREM CommittedSurvives == Spec => []CommittedBytesSurvive
<1>1. IInv => CommittedBytesSurvive
  <2> SUFFICES ASSUME IInv, NEW r \in Runs, row[r] # Absent
               PROVE  row[r] \in {file[r], backup[r]} \/ Emptied(r)
    BY DEF CommittedBytesSurvive
  <2>1. SavingInv(r) /\ pc[r] \in Labels
    BY DEF IInv, StoreInv, MigrationInv, TypeOK, StoreTypeOK
  <2> QED
    BY <2>1 DEF SavingInv, Labels, Connected, Backing, Untouched, Reserved, Aside, Shown, Kept, Undone,
       Standing, Lost, Emptied, Version, Empty
<1> QED
  BY <1>1, MigrationInvariance, PTL

\* A save that ended has changed the row and the file of its run, or neither,
\* unless it left an empty file or even the undoing failed.
THEOREM AllOrNothing == Spec => []SaveIsAllOrNothing
<1>1. IInv => SaveIsAllOrNothing
  <2> SUFFICES ASSUME IInv, NEW r \in Runs, pc[r] \in {"raised", "done"}, r \notin undoFailed, ~Emptied(r)
               PROVE  /\ row[r] = file[r] /\ row[r] \in {Before(r), Version(r)}
                      /\ pc[r] = "done" => row[r] = Version(r)
    BY DEF SaveIsAllOrNothing
  <2> QED
    BY DEF IInv, StoreInv, SavingInv, Kept, Undone, Lost, Emptied
<1> QED
  BY <1>1, MigrationInvariance, PTL

\* What migrate_legacy_state installs is the source as it was when the copying
\* ended, complete and consistent, however runs were saved meanwhile.
THEOREM OneMoment == Spec => []InstalledIsOneMoment
<1>1. IInv => InstalledIsOneMoment
  BY DEF IInv, MigrationInv
<1> QED
  BY <1>1, MigrationInvariance, PTL

\* A destination that exists is never replaced.
THEOREM NeverReplaced == Spec => DestinationIsNeverReplaced
<1>1. [Next]_vars => [target # NoTree => target' = target]_vars
  BY DEF Next, mineVars, Migrate, SomeoneCreatesTarget, Begins, SnapshotRows, ScanEntry, RescanEntry, CopyEntry,
     ReadResults, UpgradeCopy, ValidateCopy, Install, MigrationKilled, Refuse
<1> QED
  BY <1>1, PTL DEF Spec, DestinationIsNeverReplaced
=============================================================================
