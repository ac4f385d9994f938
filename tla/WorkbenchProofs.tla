-------------------------- MODULE WorkbenchProofs --------------------------
(***************************************************************************)
(* Proofs about Workbench: for any sets of experiments, keys and           *)
(* reviewers, any bound on commands and on deaths of processes, no note    *)
(* overwrites another, a key has one experiment, retention leaves alone    *)
(* what is not confirmed, and a decision passes only what was earned.      *)
(***************************************************************************)
EXTENDS Workbench, FiniteSetTheorems, TLAPS

-----------------------------------------------------------------------------
\* The inductive invariant

States   == {"queued", "running", "reconciliation_required", "completed", "cancelled"}
Outcomes == {None, "accepted", "rejected", "infra_error"}
Trials   == [state : States, outcome : Outcomes, world : Verdict \cup {None}]

\* The records and the journals.
StoreTypes ==
    /\ records \subseteq Id
    /\ requests \in [Key -> Id \cup {None}]
    /\ inspection \in [Id -> {None, "accepted", "rejected"}]
    /\ tombstone \in [Id -> {None, "r1", "r2"}]
    /\ disk \in [Id -> Disk]
    /\ writer \in [Id -> {None, "worker", "backup", "expire", "outside"}]
    /\ row \in [Id -> Trials]
    /\ cancelled \subseteq Id
    /\ told \in [Key -> SUBSET Id]

NoteTypes == notes \in [Id -> Seq([by : Reviewer, read : Nat])]

\* The processes.
ReviewerTypes ==
    /\ reviewer \in [Reviewer -> [at : {"idle", "editing", "found"}, id : Id \cup {None}, basis : Nat]]
    /\ \A r \in Reviewer : reviewer[r].at # "idle" => reviewer[r].id \in Id

ProcessTypes ==
    /\ worker \in [at : {"idle", "call", "grade", "error", "release", "audit"}, id : Id \cup {None}]
    /\ worker.at # "idle" => W \in Id
    /\ launch \in [key : Key \cup {None}, id : Id \cup {None}]
    /\ launch.key # None => launch.id \in Id
    /\ expiry \in [at : {"idle", "bury", "purge", "remove"}, id : Id \cup {None}, reason : {None, "r1", "r2"}]
    /\ expiry.at # "idle" => X \in Id /\ expiry.reason # None
    /\ DOMAIN backup = {"at", "listed", "todo", "moment", "files", "copy"}
    /\ outside \in [at : {"idle", "make", "made", "run"}, id : Id \cup {None}]
    /\ outside.at # "idle" => O \in Id

\* A backup is under way.
Reading == backup.at \in {"lock", "list", "copy"}

\* A launch has the catalogue for itself until its record is there, and so
\* has a backup until it has ended.
LaunchInv ==
    /\ launch.key # None =>
          /\ held = "launch"
          /\ requests[launch.key] = None
          /\ launch.id \notin records
          /\ disk[launch.id] # "absent"
    /\ Reading => held = "backup"

\* The worker has its journal's lock as long as it has something to write,
\* and its trial is under way as long as it may end.
WorkerInv ==
    /\ worker.at \in {"call", "grade", "error", "release"} => writer[W] = "worker" /\ disk[W] # "absent"
    /\ worker.at \in {"call", "grade", "error"} => row[W].state = "running"

\* So has the command line's.
OutsideInv == outside.at = "run" => writer[O] = "outside"

\* A completed trial has an outcome, a cancelled one the request; only a
\* world leaves a state.
RowInv ==
    \A i \in Id :
        /\ row[i].state = "completed" => row[i].outcome # None
        /\ row[i].state = "cancelled" => i \in cancelled
        /\ i \notin InWorld => row[i].world = None

\* Retention has the journal's lock, so its trial stays as it was found.
ExpiryInv ==
    /\ expiry.at # "idle" =>
          /\ X \in records
          /\ writer[X] = "expire"
          /\ ~Unconfirmed(X)
    /\ expiry.at \in {"purge", "remove"} => tombstone[X] # None

\* What a backup has locked, and what it may come to hold.
Locked   == {i \in Id : writer[i] = "backup"}
Listings == [disk : Disk, cancelled : BOOLEAN]
Copies   == [records : SUBSET Id, notes : [Id -> Seq([by : Reviewer, read : Nat])],
             tombstone : [Id -> {None, "r1", "r2"}]]
            \cup [files : Listings, row : Trials]

\* What a backup has locked opens; the journals it found and has not locked
\* are to do; and it found those of the catalogue.
LockingInv ==
    /\ ~Reading => Locked = {}
    /\ \A i \in Locked : Opens(i)
    /\ Reading =>
          /\ backup.listed \subseteq Id
          /\ \A i \in backup.listed : i \in backup.todo \/ i \in Locked
          /\ \A i \in records : i \in backup.listed \/ tombstone[i] # None

\* With every lock, what it found is still as it was then; requests to
\* cancel are only added.
MomentInv ==
    backup.at \in {"list", "copy"} =>
        /\ backup.todo = {}
        /\ backup.moment.catalogue = Catalogued
        /\ \A i \in backup.listed :
              /\ backup.moment.of[i].row = row[i]
              /\ backup.moment.of[i].files.disk = disk[i]
              /\ row[i].state = "cancelled" => backup.moment.of[i].files.cancelled
              /\ backup.moment.of[i].files.cancelled => i \in cancelled

\* What was listed and copied of it agrees with that.
ListInv ==
  /\ backup.at = "lock" => backup.files = <<>>
  /\ backup.at \in {"list", "copy"} =>
        /\ backup.files \in Seq(Listings)
        /\ Len(backup.files) <= Cardinality(Id)
        /\ \A n \in 1..Len(backup.files) : Order[n] \in backup.listed =>
              /\ backup.files[n].disk = disk[Order[n]]
              /\ backup.moment.of[Order[n]].files.cancelled => backup.files[n].cancelled

CopyInv ==
    backup.at = "copy" =>
        /\ Len(backup.files) = Cardinality(Id)
        /\ backup.copy \in Seq(Copies)
        /\ Len(backup.copy) \in 1..(Cardinality(Id) + 1)
        /\ backup.copy[1] = Catalogued
        /\ \A n \in 1..(Len(backup.copy) - 1) :
              /\ backup.copy[n + 1].files = backup.files[n]
              /\ Order[n] \in backup.listed => backup.copy[n + 1].row = row[Order[n]]

BackupInv == LockingInv /\ MomentInv /\ ListInv /\ CopyInv

\* What was read of a trial that had ended is still so: an ended trial stays.
GateInv ==
    gate.at # "idle" =>
        /\ gate.id \in Id
        /\ gate.cohort.done =>
              /\ row[gate.id].state = "completed"
              /\ gate.cohort.outcome = Effective(gate.id)

IInv ==
    /\ StoreTypes /\ NoteTypes /\ ReviewerTypes /\ ProcessTypes
    /\ LaunchInv /\ WorkerInv /\ OutsideInv /\ RowInv /\ ExpiryInv /\ GateInv
    /\ BackupInv
    /\ ReadBeforeWritten /\ OneExperimentPerKey /\ PassIsEarned /\ BackupIsOneMoment

-----------------------------------------------------------------------------
\* Which steps touch what

\* Records and requests change where a launch commits, tombstones where
\* retention buries, decisions where one is taken.
LEMMA RecordFrame ==
  ASSUME [Next]_vars
  PROVE  /\ UNCHANGED <<records, requests>> \/ LaunchCommit
         /\ UNCHANGED tombstone \/ Bury
         /\ UNCHANGED decisions \/ Decide
         /\ UNCHANGED inspection \/ Purge \/ \E i \in Id, s \in {"accepted", "rejected"} : Attach(i, s)
         /\ UNCHANGED notes \/ Purge \/ \E r \in Reviewer : Annotate(r)
  BY DEF Next, vars, catalogue, process, journals, LaunchAnswer, LaunchBegin, LaunchCommit, Start, Run,
     ChangeMember, Call, Grade, Release, RunEnds, LookUp, Annotate, Read, Attach, Compare, Decide,
     BackupBegin, BackupLock, BackupRefused, BackupLocked, BackupList, BackupCopy, BackupFails,
     BackupDone, ExpireBegin, Bury, Purge, Remove, ExpireEnds, LaunchDies, ServerDies, BackupDies,
     ExpiryDies, LaunchMade, RequestCancel, OutsideMake, OutsideMade, OutsideRun, OutsideEnds, OutsideDies

\* Directories are made by a launch or the command line and go in retention;
\* a trial changes in a run; requests to cancel are added.
LEMMA JournalFrame ==
  ASSUME [Next]_vars
  PROVE  /\ \/ UNCHANGED disk \/ Remove \/ (\E k \in Key : LaunchBegin(k)) \/ LaunchMade
            \/ (\E i \in Id : OutsideMake(i)) \/ OutsideMade
         /\ UNCHANGED row \/ Call \/ Grade \/ OutsideRun \/ OutsideEnds \/ \E i \in Id : Run(i)
         /\ UNCHANGED cancelled \/ \E i \in Id : RequestCancel(i)
  BY DEF Next, vars, catalogue, process, journals, LaunchAnswer, LaunchBegin, LaunchCommit, Start, Run,
     ChangeMember, Call, Grade, Release, RunEnds, LookUp, Annotate, Read, Attach, Compare, Decide,
     BackupBegin, BackupLock, BackupRefused, BackupLocked, BackupList, BackupCopy, BackupFails,
     BackupDone, ExpireBegin, Bury, Purge, Remove, ExpireEnds, LaunchDies, ServerDies, BackupDies,
     ExpiryDies, LaunchMade, RequestCancel, OutsideMake, OutsideMade, OutsideRun, OutsideEnds, OutsideDies

\* Every process changes in its own steps.
LEMMA ProcessFrame ==
  ASSUME [Next]_vars
  PROVE  /\ \/ UNCHANGED worker \/ Call \/ Grade \/ Release \/ RunEnds \/ ServerDies
            \/ \E i \in Id : Run(i)
         /\ UNCHANGED launch \/ LaunchCommit \/ LaunchDies \/ \E k \in Key : LaunchBegin(k)
         /\ UNCHANGED reviewer \/ \E r \in Reviewer : LookUp(r) \/ Annotate(r) \/ \E i \in Id : Read(r, i)
         /\ \/ UNCHANGED expiry \/ Bury \/ Purge \/ ExpireEnds \/ ExpiryDies
            \/ \E i \in Id, reason \in {"r1", "r2"} : ExpireBegin(i, reason)
         /\ UNCHANGED gate \/ Decide \/ \E i \in Id : Compare(i)
         /\ \/ UNCHANGED outside \/ OutsideMade \/ OutsideRun \/ OutsideEnds \/ OutsideDies
            \/ \E i \in Id : OutsideMake(i)
  BY DEF Next, vars, catalogue, process, journals, LaunchAnswer, LaunchBegin, LaunchCommit, Start, Run,
     ChangeMember, Call, Grade, Release, RunEnds, LookUp, Annotate, Read, Attach, Compare, Decide,
     BackupBegin, BackupLock, BackupRefused, BackupLocked, BackupList, BackupCopy, BackupFails,
     BackupDone, ExpireBegin, Bury, Purge, Remove, ExpireEnds, LaunchDies, ServerDies, BackupDies,
     ExpiryDies, LaunchMade, RequestCancel, OutsideMake, OutsideMade, OutsideRun, OutsideEnds, OutsideDies

\* The locks of journals and catalogue are taken and given back by the same
\* process.
LEMMA LockFrame ==
  ASSUME [Next]_vars
  PROVE  /\ \/ UNCHANGED writer
            \/ \E i \in Id : Run(i) \/ \E reason \in {"r1", "r2"} : ExpireBegin(i, reason)
            \/ Release \/ ServerDies \/ Bury \/ ExpireEnds \/ ExpiryDies
            \/ OutsideRun \/ OutsideEnds \/ OutsideDies
            \/ BackupLock \/ BackupRefused \/ BackupFails(Order) \/ BackupDone \/ BackupDies
         /\ \/ UNCHANGED <<held, backup>>
            \/ (UNCHANGED backup /\ (LaunchCommit \/ LaunchDies \/ \E k \in Key : LaunchBegin(k)))
            \/ BackupBegin \/ BackupRefused \/ BackupFails(Order) \/ BackupDone \/ BackupDies
            \/ UNCHANGED held /\ (BackupLock \/ BackupLocked \/ BackupList(Order) \/ BackupCopy(Order))
         /\ UNCHANGED told \/ \E k \in Key : LaunchAnswer(k)
  BY DEF Next, vars, catalogue, process, journals, LaunchAnswer, LaunchBegin, LaunchCommit, Start, Run,
     ChangeMember, Call, Grade, Release, RunEnds, LookUp, Annotate, Read, Attach, Compare, Decide,
     BackupBegin, BackupLock, BackupRefused, BackupLocked, BackupList, BackupCopy, BackupFails,
     BackupDone, ExpireBegin, Bury, Purge, Remove, ExpireEnds, LaunchDies, ServerDies, BackupDies,
     ExpiryDies, LaunchMade, RequestCancel, OutsideMake, OutsideMade, OutsideRun, OutsideEnds, OutsideDies

-----------------------------------------------------------------------------
\* The steps

\* A trial that is moved on, or ended, is one.
LEMMA Moved ==
  ASSUME row \in [Id -> Trials], NEW i \in Id, NEW s \in States, row' = [row EXCEPT ![i].state = s]
  PROVE  row' \in [Id -> Trials]
  BY DEF Trials

LEMMA Ended ==
  ASSUME row \in [Id -> Trials], NEW i \in Id, NEW o \in Outcomes,
         row' = [row EXCEPT ![i].state = "completed", ![i].outcome = o]
  PROVE  row' \in [Id -> Trials]
  BY DEF Trials, States

\* The store keeps its types.
LEMMA StoreStep ==
  ASSUME StoreTypes, ProcessTypes, [Next]_vars
  PROVE  StoreTypes'
<1>1. records' \subseteq Id /\ requests' \in [Key -> Id \cup {None}]
  BY RecordFrame DEF StoreTypes, ProcessTypes, LaunchCommit
<1>2. inspection' \in [Id -> {None, "accepted", "rejected"}]
  BY RecordFrame DEF StoreTypes, ProcessTypes, Purge, Attach
<1>3. tombstone' \in [Id -> {None, "r1", "r2"}]
  BY RecordFrame DEF StoreTypes, ProcessTypes, Bury
<1>4. disk' \in [Id -> Disk]
  <2>1. ASSUME NEW i \in Id, Make(i) \/ Finish(i)
        PROVE  disk' \in [Id -> Disk]
    BY <2>1 DEF StoreTypes, Make, Finish, Disk
  <2>2. ASSUME Remove
        PROVE  disk' \in [Id -> Disk]
    BY <2>2 DEF StoreTypes, ProcessTypes, Remove, Disk
  <2>3. \/ UNCHANGED disk \/ Remove
        \/ \E i \in Id : Make(i) \/ Finish(i)
    BY JournalFrame, WorkbenchAssumption DEF StoreTypes, ProcessTypes, LaunchBegin, LaunchMade, OutsideMake,
       OutsideMade
  <2> QED
    BY <2>1, <2>2, <2>3 DEF StoreTypes
<1>5. writer' \in [Id -> {None, "worker", "backup", "expire", "outside"}]
  BY LockFrame DEF StoreTypes, Run, Takes, ExpireBegin, ExpireLocks, Release, Frees, ServerDies,
     Bury, ExpireEnds, ExpiryDies, ExpireGivesUp, BackupLock, BackupLocks, BackupRefused,
     BackupFails, BackupDone, BackupDies, BackupEnds, OutsideRun, OutsideEnds, OutsideDies
<1>6. row' \in [Id -> Trials]
  <2>1. ASSUME NEW i \in Id, Run(i)
        PROVE  row' \in [Id -> Trials]
    <3>1. row' = row \/ \E s \in States : row' = [row EXCEPT ![i].state = s]
      BY <2>1 DEF Run, Claimed, StoreTypes, Trials, States
    <3> QED
      BY <3>1, Moved DEF StoreTypes
  <2>2. ASSUME Call
        PROVE  row' \in [Id -> Trials]
    BY <2>2 DEF StoreTypes, ProcessTypes, Call, Trials, States
  <2>3. ASSUME Grade
        PROVE  row' \in [Id -> Trials]
    BY <2>3, Ended DEF StoreTypes, ProcessTypes, Grade, Outcomes
  <2>4. ASSUME OutsideRun
        PROVE  row' \in [Id -> Trials]
    <3>1. row' = row \/ \E s \in States : row' = [row EXCEPT ![O].state = s]
      BY <2>4 DEF OutsideRun, Claimed, StoreTypes, ProcessTypes, Trials, States
    <3> QED
      BY <2>4, <3>1, Moved DEF OutsideRun, StoreTypes, ProcessTypes
  <2>5. ASSUME OutsideEnds
        PROVE  row' \in [Id -> Trials]
    <3>1. O \in Id /\ row \in [Id -> Trials]
      BY <2>5 DEF OutsideEnds, StoreTypes, ProcessTypes
    <3>2. \/ UNCHANGED row
          \/ \E o \in Outcomes : row' = [row EXCEPT ![O].state = "completed", ![O].outcome = o]
          \/ row' = [row EXCEPT ![O].state = "reconciliation_required"]
      BY <2>5 DEF OutsideEnds, Outcomes
    <3> QED
      BY <3>1, <3>2, Moved, Ended DEF States
  <2> QED
    BY <2>1, <2>2, <2>3, <2>4, <2>5, JournalFrame DEF StoreTypes
<1>7. told' \in [Key -> SUBSET Id]
  BY LockFrame DEF StoreTypes, LaunchAnswer
<1>8. cancelled' \subseteq Id
  BY JournalFrame DEF StoreTypes, RequestCancel
<1> QED
  BY <1>1, <1>2, <1>3, <1>4, <1>5, <1>6, <1>7, <1>8 DEF StoreTypes

\* A note is a reviewer's, for the revision that was read.
LEMMA NoteStep ==
  ASSUME NoteTypes, ReviewerTypes, [Next]_vars
  PROVE  NoteTypes'
<1>1. ASSUME NEW r \in Reviewer, Annotate(r)
      PROVE  NoteTypes'
  BY <1>1 DEF NoteTypes, ReviewerTypes, Annotate
<1>2. ASSUME Purge
      PROVE  NoteTypes'
  <2> DEFINE S == Seq([by : Reviewer, read : Nat])
  <2>1. <<>> \in S
    OBVIOUS
  <2>2. notes \in [Id -> S] /\ notes' = [notes EXCEPT ![X] = <<>>]
    BY <1>2 DEF NoteTypes, Purge
  <2> HIDE DEF S
  <2>3. notes' \in [Id -> S]
    BY <2>1, <2>2
  <2> QED
    BY <2>3 DEF NoteTypes, S
<1> QED
  BY <1>1, <1>2, RecordFrame DEF NoteTypes

LEMMA ReviewerStep ==
  ASSUME NoteTypes, ReviewerTypes, [Next]_vars
  PROVE  ReviewerTypes'
<1>1. ASSUME NEW r \in Reviewer, LookUp(r)
      PROVE  ReviewerTypes'
  BY <1>1 DEF ReviewerTypes, LookUp
<1>2. ASSUME NEW r \in Reviewer, Annotate(r)
      PROVE  ReviewerTypes'
  BY <1>2 DEF ReviewerTypes, Annotate
<1>3. ASSUME NEW r \in Reviewer, NEW i \in Id, Read(r, i)
      PROVE  ReviewerTypes'
  BY <1>3 DEF NoteTypes, ReviewerTypes, Read
<1> QED
  BY <1>1, <1>2, <1>3, ProcessFrame DEF ReviewerTypes

LEMMA ProcessStep ==
  ASSUME ProcessTypes, [Next]_vars
  PROVE  ProcessTypes'
<1>1. (/\ worker \in [at : {"idle", "call", "grade", "error", "release", "audit"}, id : Id \cup {None}]
       /\ worker.at # "idle" => W \in Id)'
  BY ProcessFrame DEF ProcessTypes, Run, Call, Grade, Release, RunEnds, ServerDies, Goes, Idle, W
<1>2. (/\ launch \in [key : Key \cup {None}, id : Id \cup {None}]
       /\ launch.key # None => launch.id \in Id)'
  BY ProcessFrame DEF ProcessTypes, LaunchBegin, LaunchCommit, LaunchDies
<1>3. (/\ expiry \in [at : {"idle", "bury", "purge", "remove"}, id : Id \cup {None}, reason : {None, "r1", "r2"}]
       /\ expiry.at # "idle" => X \in Id /\ expiry.reason # None)'
  BY ProcessFrame, WorkbenchAssumption DEF ProcessTypes, ExpireBegin, Bury, Purge, ExpireEnds,
     ExpiryDies, ExpireGivesUp, X
<1>4. DOMAIN backup' = {"at", "listed", "todo", "moment", "files", "copy"}
  BY LockFrame DEF ProcessTypes, BackupBegin, BackupRefused, BackupFails, BackupDone, BackupDies,
     BackupLock, BackupLocked, BackupList, BackupCopy, BackupEnds, NoBackup
<1>5. (/\ outside \in [at : {"idle", "make", "made", "run"}, id : Id \cup {None}]
       /\ outside.at # "idle" => O \in Id)'
  BY ProcessFrame DEF ProcessTypes, OutsideMake, OutsideMade, OutsideRun, OutsideEnds, OutsideDies, Idle, O
<1> QED
  BY <1>1, <1>2, <1>3, <1>4, <1>5 DEF ProcessTypes

\* A directory appears where there was none, becomes whole, or is removed by
\* retention.
LEMMA DiskMoves ==
  ASSUME StoreTypes, ProcessTypes, [Next]_vars, NEW i \in Id, disk'[i] # disk[i]
  PROVE  \/ disk[i] = "absent" /\ disk'[i] = "torn"
         \/ disk[i] = "torn" /\ disk'[i] = "whole"
         \/ Remove /\ i = X
<1>1. ASSUME Remove
      PROVE  i = X
  BY <1>1 DEF Remove, StoreTypes, ProcessTypes
<1>2. ASSUME NEW j \in Id, Make(j)
      PROVE  disk[i] = "absent" /\ disk'[i] = "torn"
  BY <1>2 DEF Make, StoreTypes
<1>3. ASSUME NEW j, Finish(j)
      PROVE  disk[i] = "torn" /\ disk'[i] = "whole"
  BY <1>3 DEF Finish, StoreTypes
<1> QED
  BY <1>1, <1>2, <1>3, JournalFrame DEF LaunchBegin, LaunchMade, OutsideMake, OutsideMade

\* A trial changes under its journal's lock.
LEMMA RowMoves ==
  ASSUME StoreTypes, ProcessTypes, WorkerInv, OutsideInv, [Next]_vars, NEW i \in Id, row'[i] # row[i]
  PROVE  \/ writer[i] = None /\ (Run(i) \/ (OutsideRun /\ i = O))
         \/ writer[i] = "worker" /\ i = W /\ row[i].state = "running" /\ (Call \/ Grade)
         \/ writer[i] = "outside" /\ i = O /\ row[i].state = "running" /\ OutsideEnds
<1>1. ASSUME NEW j \in Id, Run(j)
      PROVE  j = i /\ writer[i] = None
  BY <1>1 DEF Run, Takes, StoreTypes
<1>2. ASSUME Call \/ Grade
      PROVE  writer[i] = "worker" /\ i = W /\ row[i].state = "running"
  BY <1>2 DEF Call, Grade, StoreTypes, ProcessTypes, WorkerInv
<1>3. ASSUME OutsideRun
      PROVE  i = O /\ writer[i] = None
  BY <1>3 DEF OutsideRun, Takes, StoreTypes, ProcessTypes
<1>4. ASSUME OutsideEnds
      PROVE  writer[i] = "outside" /\ i = O /\ row[i].state = "running"
  BY <1>4 DEF OutsideEnds, StoreTypes, ProcessTypes, OutsideInv
<1> QED
  BY <1>1, <1>2, <1>3, <1>4, JournalFrame

\* Whoever has a journal's lock gives it back in its own steps.
LEMMA LockStays ==
  ASSUME StoreTypes, ProcessTypes, WorkerInv, OutsideInv, ExpiryInv, [Next]_vars, NEW i \in Id
  PROVE  /\ writer[i] = "worker" => writer'[i] = "worker" \/ Release \/ ServerDies
         /\ writer[i] = "expire" => writer'[i] = "expire" \/ Bury \/ ExpireEnds \/ ExpiryDies
         /\ writer[i] = "outside" => writer'[i] = "outside" \/ OutsideEnds \/ OutsideDies
         /\ writer[i] = "backup" => \/ writer'[i] = "backup" \/ BackupRefused \/ BackupFails(Order)
                                    \/ BackupDone \/ BackupDies
         /\ writer[i] # "backup" /\ writer'[i] = "backup" => BackupLock
<1>1. ASSUME NEW who, NEW j, Takes(who, j), writer[i] # None
      PROVE  writer'[i] = writer[i]
  BY <1>1 DEF Takes, StoreTypes
<1>2. ASSUME NEW who, NEW j, Takes(who, j), who # "backup", writer[i] = None
      PROVE  writer'[i] # "backup"
  BY <1>2, WorkbenchAssumption DEF Takes, StoreTypes
<1>3. ASSUME BackupEnds(NoBackup) \/ BackupEnds([backup EXCEPT !.at = "done"])
      PROVE  writer[i] # "backup" => writer'[i] = writer[i]
  BY <1>3 DEF BackupEnds
<1>4. ASSUME Release \/ ServerDies
      PROVE  writer[i] # "worker" => writer'[i] = writer[i]
  BY <1>4 DEF Release, ServerDies, Frees, StoreTypes, ProcessTypes, WorkerInv
<1>5. ASSUME Bury \/ ExpireEnds \/ ExpiryDies
      PROVE  writer[i] # "expire" => writer'[i] = writer[i]
  BY <1>5 DEF Bury, ExpireEnds, ExpiryDies, ExpireGivesUp, Frees, StoreTypes, ProcessTypes, ExpiryInv
<1>6. ASSUME OutsideEnds \/ OutsideDies
      PROVE  writer[i] # "outside" => writer'[i] = writer[i]
  BY <1>6 DEF OutsideEnds, OutsideDies, Frees, StoreTypes, ProcessTypes, OutsideInv
<1>7. ASSUME NEW j \in Id, Run(j)
      PROVE  UNCHANGED writer \/ Takes("worker", j)
  BY <1>7 DEF Run
<1>8. ASSUME NEW j \in Id, NEW reason \in {"r1", "r2"}, ExpireBegin(j, reason)
      PROVE  Takes("expire", j)
  BY <1>8 DEF ExpireBegin, ExpireLocks
<1>9. ASSUME OutsideRun
      PROVE  UNCHANGED writer \/ Takes("outside", O)
  BY <1>9 DEF OutsideRun
<1>10. ASSUME BackupLock
       PROVE  \E j : Takes("backup", j)
  BY <1>10 DEF BackupLock, BackupLocks
<1>11. \/ UNCHANGED writer \/ BackupLock
       \/ (\E who \in {"worker", "expire", "outside"}, j \in Id \cup {O} : Takes(who, j))
       \/ Release \/ ServerDies \/ Bury \/ ExpireEnds \/ ExpiryDies \/ OutsideEnds \/ OutsideDies
       \/ BackupRefused \/ BackupFails(Order) \/ BackupDone \/ BackupDies
  BY <1>7, <1>8, <1>9, LockFrame
<1>12. CASE UNCHANGED writer
  BY <1>12
<1>13. CASE BackupLock
  BY <1>1, <1>10, <1>13, WorkbenchAssumption
<1>14. CASE \E who \in {"worker", "expire", "outside"}, j \in Id \cup {O} : Takes(who, j)
  BY <1>1, <1>2, <1>14, WorkbenchAssumption
<1>15. CASE Release \/ ServerDies
  BY <1>4, <1>15, WorkbenchAssumption DEF Release, ServerDies, Frees, StoreTypes, ProcessTypes
<1>16. CASE Bury \/ ExpireEnds \/ ExpiryDies
  BY <1>5, <1>16, WorkbenchAssumption DEF Bury, ExpireEnds, ExpiryDies, ExpireGivesUp, Frees,
     StoreTypes, ProcessTypes
<1>17. CASE OutsideEnds \/ OutsideDies
  BY <1>6, <1>17, WorkbenchAssumption DEF OutsideEnds, OutsideDies, Frees, StoreTypes, ProcessTypes
<1>18. CASE BackupRefused \/ BackupFails(Order) \/ BackupDone \/ BackupDies
  <2>1. BackupEnds(NoBackup) \/ BackupEnds([backup EXCEPT !.at = "done"])
    BY <1>18 DEF BackupRefused, BackupFails, BackupDone, BackupDies
  <2> QED
    BY <1>3, <1>18, <2>1, WorkbenchAssumption
<1> QED
  BY <1>11, <1>12, <1>13, <1>14, <1>15, <1>16, <1>17, <1>18

\* While a launch is under way nobody else gets into the catalogue, and
\* retention does not reach a directory without a record.
LEMMA LaunchStep ==
  ASSUME StoreTypes, ProcessTypes, LaunchInv, ExpiryInv, [Next]_vars
  PROVE  LaunchInv'
<1>1. ASSUME NEW k \in Key, LaunchBegin(k)
      PROVE  LaunchInv'
  BY <1>1, WorkbenchAssumption DEF StoreTypes, LaunchInv, LaunchBegin, Make, Free, catalogue, Reading
<1>2. ASSUME LaunchCommit \/ LaunchDies
      PROVE  LaunchInv'
  BY <1>2, WorkbenchAssumption DEF LaunchInv, LaunchCommit, LaunchDies, Reading
<1>3. ASSUME UNCHANGED <<launch, requests, records>>
      PROVE  LaunchInv'
  <2>1. launch.key # None => disk'[launch.id] # "absent"
    BY DiskMoves DEF LaunchInv, ProcessTypes, ExpiryInv, Remove
  <2>2. launch.key # None => held' = "launch"
    BY <1>3, LockFrame, WorkbenchAssumption DEF LaunchInv, ProcessTypes, LaunchBegin, LaunchCommit,
       LaunchDies, BackupBegin, BackupRefused, BackupFails, BackupDone, BackupDies, Reading, Free
  <2>3. Reading' => held' = "backup"
    <3>1. CASE UNCHANGED <<held, backup>>
      BY <3>1 DEF LaunchInv, Reading
    <3>2. CASE UNCHANGED backup /\ (LaunchCommit \/ LaunchDies \/ \E k \in Key : LaunchBegin(k))
      BY <1>3, <3>2, WorkbenchAssumption DEF LaunchInv, ProcessTypes, LaunchBegin, LaunchCommit, LaunchDies,
         Reading, Free
    <3>3. CASE BackupBegin
      BY <3>3 DEF BackupBegin
    <3>4. CASE BackupRefused \/ BackupFails(Order) \/ BackupDone \/ BackupDies
      BY <3>4 DEF BackupRefused, BackupFails, BackupDone, BackupDies, BackupEnds, NoBackup, Reading, ProcessTypes
    <3>5. CASE UNCHANGED held /\ (BackupLock \/ BackupLocked \/ BackupList(Order) \/ BackupCopy(Order))
      BY <3>5 DEF LaunchInv, BackupLock, BackupLocked, BackupList, BackupCopy, Reading, ProcessTypes
    <3> QED
      BY <3>1, <3>2, <3>3, <3>4, <3>5, LockFrame
  <2> QED
    BY <1>3, <2>1, <2>2, <2>3 DEF LaunchInv
<1> QED
  BY <1>1, <1>2, <1>3, RecordFrame, ProcessFrame

\* The worker's trial is its own.
LEMMA WorkerStep ==
  ASSUME StoreTypes, ProcessTypes, WorkerInv, OutsideInv, ExpiryInv, [Next]_vars
  PROVE  WorkerInv'
<1>1. ASSUME NEW i \in Id, Run(i)
      PROVE  WorkerInv'
  <2>1. CASE UNCHANGED <<worker, writer, row>>
    BY <1>1, <2>1 DEF Run, WorkerInv, W
  <2>2. CASE /\ Takes("worker", i) /\ row' = [row EXCEPT ![i].state = Claimed(i)]
             /\ worker' = [at |-> IF Claimed(i) = "running" THEN "call" ELSE "release", id |-> i]
    BY <1>1, <2>2 DEF Run, StoreTypes, WorkerInv, Takes, Opens, W, Trials
  <2> QED
    BY <1>1, <2>1, <2>2 DEF Run
<1>2. ASSUME Call \/ Grade
      PROVE  WorkerInv'
  BY <1>2 DEF Call, Grade, Goes, StoreTypes, ProcessTypes, WorkerInv, W, Trials
<1>3. ASSUME Release \/ RunEnds \/ ServerDies
      PROVE  WorkerInv'
  BY <1>3 DEF Release, RunEnds, ServerDies, Goes, Idle, ProcessTypes, WorkerInv, W
<1>4. ASSUME UNCHANGED worker, ~(Call \/ Grade \/ Release \/ ServerDies)
      PROVE  WorkerInv'
  <2>1. worker.at \in {"call", "grade", "error", "release"} => writer'[W] = "worker"
    BY <1>4, LockStays DEF WorkerInv, ProcessTypes
  <2>2. worker.at \in {"call", "grade", "error", "release"} => disk'[W] # "absent"
    BY DiskMoves DEF WorkerInv, ProcessTypes, ExpiryInv, Remove
  <2>3. worker.at \in {"call", "grade", "error"} => row'[W] = row[W]
    BY <1>4, RowMoves, WorkbenchAssumption DEF WorkerInv, ProcessTypes
  <2> QED
    BY <1>4, <2>1, <2>2, <2>3 DEF WorkerInv, W
<1> QED
  BY <1>1, <1>2, <1>3, <1>4, ProcessFrame

LEMMA OutsideStep ==
  ASSUME StoreTypes, ProcessTypes, WorkerInv, OutsideInv, ExpiryInv, [Next]_vars
  PROVE  OutsideInv'
<1>1. ASSUME OutsideMade \/ OutsideEnds \/ OutsideDies \/ \E i \in Id : OutsideMake(i)
      PROVE  OutsideInv'
  BY <1>1 DEF OutsideMade, OutsideEnds, OutsideDies, OutsideMake, Idle, OutsideInv, ProcessTypes
<1>2. ASSUME OutsideRun
      PROVE  OutsideInv'
  BY <1>2 DEF OutsideRun, Takes, Idle, OutsideInv, StoreTypes, ProcessTypes, O
<1>3. ASSUME UNCHANGED outside, ~(OutsideEnds \/ OutsideDies)
      PROVE  OutsideInv'
  BY <1>3, LockStays DEF OutsideInv, ProcessTypes, O
<1> QED
  BY <1>1, <1>2, <1>3, ProcessFrame

LEMMA RowStep ==
  ASSUME StoreTypes, ProcessTypes, RowInv, [Next]_vars
  PROVE  RowInv'
<1>1. cancelled \subseteq cancelled'
  BY JournalFrame DEF RequestCancel
<1>2. ASSUME NEW i \in Id, row' = row \/ row' = [row EXCEPT ![i].state = Claimed(i)]
      PROVE  RowInv'
  BY <1>1, <1>2 DEF Claimed, StoreTypes, RowInv, Trials
<1>3. ASSUME Call \/ Grade
      PROVE  RowInv'
  BY <1>1, <1>3, WorkbenchAssumption DEF Call, Grade, StoreTypes, ProcessTypes, RowInv, Trials, W
<1>5. ASSUME OutsideEnds
      PROVE  RowInv'
  <2>1. O \in Id /\ row \in [Id -> Trials]
    BY <1>5 DEF OutsideEnds, StoreTypes, ProcessTypes
  <2>2. CASE \E o \in {"accepted", "rejected", "infra_error"} :
               row' = [row EXCEPT ![O].state = "completed", ![O].outcome = o]
    BY <1>1, <2>1, <2>2, WorkbenchAssumption DEF RowInv, Trials
  <2>3. CASE row' = [row EXCEPT ![O].state = "reconciliation_required"]
    BY <1>1, <2>1, <2>3 DEF RowInv, Trials
  <2> QED
    BY <1>1, <1>5, <2>2, <2>3 DEF OutsideEnds, RowInv
<1>4. CASE UNCHANGED row
  BY <1>1, <1>4 DEF RowInv
<1> QED
  BY <1>2, <1>3, <1>4, <1>5, JournalFrame DEF Run, OutsideRun, ProcessTypes

\* A trial that has ended stays as it is.
LEMMA EndedStays ==
  ASSUME StoreTypes, ProcessTypes, WorkerInv, OutsideInv, [Next]_vars,
         NEW i \in Id, row[i].state = "completed"
  PROVE  row'[i] = row[i]
<1>1. ASSUME NEW j \in Id, row' = row \/ row' = [row EXCEPT ![j].state = Claimed(j)]
      PROVE  row'[i] = row[i]
  BY <1>1 DEF Claimed, StoreTypes, Trials
<1> QED
  BY <1>1, RowMoves DEF Run, OutsideRun, ProcessTypes

\* What retention holds neither runs nor moves.
LEMMA ExpiryStep ==
  ASSUME StoreTypes, ProcessTypes, WorkerInv, OutsideInv, ExpiryInv, [Next]_vars
  PROVE  ExpiryInv'
<1>1. ASSUME NEW i \in Id, NEW reason \in {"r1", "r2"}, ExpireBegin(i, reason)
      PROVE  ExpiryInv'
  BY <1>1 DEF ExpireBegin, ExpireLocks, Takes, catalogue, StoreTypes, ExpiryInv, Unconfirmed, X
<1>2. ASSUME Bury
      PROVE  ExpiryInv'
  BY <1>2, WorkbenchAssumption DEF Bury, ExpireGivesUp, Frees, StoreTypes, ProcessTypes, ExpiryInv, Unconfirmed, X
<1>3. ASSUME Purge \/ ExpireEnds \/ ExpiryDies
      PROVE  ExpiryInv'
  BY <1>3 DEF Purge, ExpireEnds, ExpiryDies, ExpireGivesUp, journals, ProcessTypes, ExpiryInv,
     Unconfirmed, X
<1>4. ASSUME UNCHANGED <<expiry, tombstone>>, expiry.at # "idle"
      PROVE  ExpiryInv'
  <2>1. X \in records'
    BY <1>4, RecordFrame DEF ExpiryInv, LaunchCommit
  <2>2. writer'[X] = "expire" \/ Bury \/ ExpireEnds \/ ExpiryDies
    BY <1>4, LockStays DEF ProcessTypes, ExpiryInv
  <2>3. row'[X] = row[X]
    BY <1>4, RowMoves, WorkbenchAssumption DEF ProcessTypes, ExpiryInv
  <2> QED
    BY <1>2, <1>3, <1>4, <2>1, <2>2, <2>3 DEF ExpiryInv, Unconfirmed, X
<1>5. ASSUME UNCHANGED expiry, expiry.at = "idle"
      PROVE  ExpiryInv'
  BY <1>5 DEF ExpiryInv
<1> QED
  BY <1>1, <1>2, <1>3, <1>4, <1>5, ProcessFrame, RecordFrame

\* What was read of an ended trial remains true of it.
LEMMA GateStep ==
  ASSUME StoreTypes, ProcessTypes, WorkerInv, OutsideInv, GateInv, [Next]_vars
  PROVE  GateInv'
<1>1. ASSUME NEW i \in Id, Compare(i)
      PROVE  GateInv'
  BY <1>1 DEF Compare, GateInv, Cohort, Effective, journals
<1>2. ASSUME Decide
      PROVE  GateInv'
  BY <1>2 DEF Decide, GateInv
<1>3. ASSUME UNCHANGED gate
      PROVE  GateInv'
  BY <1>3, EndedStays DEF GateInv, Effective
<1> QED
  BY <1>1, <1>2, <1>3, ProcessFrame

\* A note is inserted only over the revision it was written for.
LEMMA ReadStep ==
  ASSUME NoteTypes, ReviewerTypes, ReadBeforeWritten, [Next]_vars
  PROVE  ReadBeforeWritten'
<1>1. ASSUME NEW r \in Reviewer, Annotate(r)
      PROVE  ReadBeforeWritten'
  <2> DEFINE i == reviewer[r].id
             note == [by |-> r, read |-> reviewer[r].basis]
  <2>1. /\ i \in Id
        /\ Len(notes[i]) \in Nat
    BY <1>1 DEF Annotate, ReviewerTypes, NoteTypes
  <2>2. CASE notes' = notes
    BY <2>2 DEF ReadBeforeWritten
  <2>3. CASE /\ Len(notes[i]) = reviewer[r].basis
             /\ notes' = [notes EXCEPT ![i] = Append(notes[i], note)]
    <3>1. ASSUME NEW j \in Id, NEW n \in DOMAIN notes'[j], j # i
          PROVE  notes'[j][n].read = n - 1
      BY <2>1, <2>3, <3>1 DEF ReadBeforeWritten, NoteTypes
    <3>2. ASSUME NEW n \in DOMAIN notes'[i]
          PROVE  notes'[i][n].read = n - 1
      <4>1. /\ notes'[i] = Append(notes[i], note)
            /\ notes[i] \in Seq([by : Reviewer, read : Nat])
            /\ note \in [by : Reviewer, read : Nat]
        BY <2>1, <2>3 DEF NoteTypes, ReviewerTypes
      <4>2. CASE n = Len(notes[i]) + 1
        BY <2>1, <2>3, <4>1, <4>2
      <4>3. CASE n # Len(notes[i]) + 1
        <5>1. n \in DOMAIN notes[i] /\ notes'[i][n] = notes[i][n]
          BY <3>2, <4>1, <4>3
        <5> QED
          BY <2>1, <5>1 DEF ReadBeforeWritten
      <4> QED
        BY <4>2, <4>3
    <3> QED
      BY <3>1, <3>2 DEF ReadBeforeWritten
  <2> QED
    BY <1>1, <2>2, <2>3 DEF Annotate, Expected
<1>2. ASSUME Purge
      PROVE  ReadBeforeWritten'
  <2>1. \A i \in Id : notes'[i] = notes[i] \/ notes'[i] = <<>>
    BY <1>2 DEF Purge, NoteTypes
  <2> QED
    BY <2>1 DEF ReadBeforeWritten
<1> QED
  BY <1>1, <1>2, RecordFrame DEF ReadBeforeWritten

\* A client is told of the experiment its key has, and that one stays.
LEMMA KeyStep ==
  ASSUME StoreTypes, ProcessTypes, LaunchInv, ExpiryInv, OneExperimentPerKey, [Next]_vars
  PROVE  OneExperimentPerKey'
<1>1. ASSUME NEW k \in Key
      PROVE  told'[k] \subseteq {requests'[k]}
  <2>1. ASSUME LaunchCommit
        PROVE  told'[k] \subseteq {requests'[k]}
    <3>1. told' = told
      BY <2>1 DEF LaunchCommit
    <3>2. requests[k] = None => told[k] = {}
      BY WorkbenchAssumption DEF StoreTypes, OneExperimentPerKey
    <3> QED
      BY <2>1, <3>1, <3>2 DEF LaunchCommit, StoreTypes, ProcessTypes, LaunchInv, OneExperimentPerKey
  <2>2. ASSUME NEW j \in Key, LaunchAnswer(j)
        PROVE  told'[k] \subseteq {requests'[k]}
    BY <2>2 DEF LaunchAnswer, catalogue, StoreTypes, OneExperimentPerKey
  <2>3. ASSUME UNCHANGED <<told, requests>>
        PROVE  told'[k] \subseteq {requests'[k]}
    BY <2>3 DEF OneExperimentPerKey
  <2> QED
    BY <2>1, <2>2, <2>3, RecordFrame, LockFrame
<1>2. ASSUME NEW i \in records', disk'[i] = "absent"
      PROVE  tombstone'[i] # None
  <2>1. ASSUME LaunchCommit
        PROVE  tombstone'[i] # None
    BY <1>2, <2>1 DEF LaunchCommit, journals, LaunchInv, OneExperimentPerKey
  <2>2. ASSUME Remove
        PROVE  tombstone'[i] # None
    BY <1>2, <2>2 DEF Remove, catalogue, StoreTypes, ProcessTypes, ExpiryInv, OneExperimentPerKey
  <2>3. ASSUME UNCHANGED <<records, tombstone>>, ~Remove
        PROVE  tombstone'[i] # None
    <3>1. disk[i] = "absent"
      BY <1>2, <2>3, DiskMoves DEF StoreTypes
    <3> QED
      BY <1>2, <2>3, <3>1 DEF OneExperimentPerKey
  <2>4. ASSUME Bury
        PROVE  tombstone'[i] # None
    BY <1>2, <2>4 DEF Bury, StoreTypes, ProcessTypes, OneExperimentPerKey
  <2> QED
    BY <2>1, <2>2, <2>3, <2>4, RecordFrame
<1> QED
  BY <1>1, <1>2 DEF OneExperimentPerKey

\* What a decision passes when it is taken, it has earned.
LEMMA DecisionIsEarned ==
  ASSUME StoreTypes, RowInv, GateInv, PassIsEarned, Decide
  PROVE  PassIsEarned'
<1> DEFINE i == gate.id
           Earned(d) == /\ d.outcome \in {"accepted", "rejected"}
                        /\ d.id \in InWorld => d.world = "accepted"
                        /\ d.inspection # "rejected"
                        /\ d.policy.inspection => d.inspection = "accepted"
                        /\ d.policy.state => d.world = "accepted"
<1>1. i \in Id /\ row[i] \in Trials /\ gate.at = "decide"
  BY DEF Decide, GateInv, StoreTypes
<1>2. ASSUME NEW policy \in [state : BOOLEAN, inspection : BOOLEAN], Detail(i),
             ~Fails(i), ~Open(gate.cohort, i, policy)
      PROVE  /\ row[i].outcome \in {"accepted", "rejected"}
             /\ i \in InWorld => row[i].world = "accepted"
             /\ inspection[i] # "rejected"
             /\ policy.inspection => inspection[i] = "accepted"
             /\ policy.state => row[i].world = "accepted"
  <2>1. /\ row[i].state = "completed"
        /\ Effective(i) # "infra_error"
        /\ row[i].outcome # None
        /\ StateOf(i) # "rejected"
    BY <1>1, <1>2 DEF Open, Fails, GateInv, RowInv
  <2>2. i \in InWorld => row[i].world = "accepted"
    BY <1>1, <1>2, <2>1 DEF Detail, StateReadable, Effective, StateOf, Trials, Verdict
  <2>3. row[i].outcome \in {"accepted", "rejected"}
    BY <1>1, <2>1, <2>2 DEF Effective, RowInv, Trials, Outcomes
  <2>4. policy.state => row[i].world = "accepted"
    BY <1>1, <1>2, <2>1, WorkbenchAssumption DEF Open, StateOf, Trials, Verdict
  <2> QED
    BY <1>2, <2>2, <2>3, <2>4 DEF Open, Fails
<1>3. ASSUME NEW d \in decisions', d.verdict = "pass", d \notin decisions
      PROVE  Earned(d)
  <2>1. PICK policy \in [state : BOOLEAN, inspection : BOOLEAN], interval \in {"above", "across", "below"} :
          /\ Detail(i)
          /\ d = [id |-> i, policy |-> policy, outcome |-> row[i].outcome, world |-> row[i].world,
                  inspection |-> inspection[i],
                  verdict |-> CASE Fails(i) -> "fail"
                                [] ~Fails(i) /\ Open(gate.cohort, i, policy) -> "inconclusive"
                                [] OTHER -> [above |-> "pass", across |-> "inconclusive",
                                             below |-> "fail"][interval]]
    BY <1>3 DEF Decide
  <2>2. ~Fails(i) /\ ~Open(gate.cohort, i, policy)
    BY <1>3, <2>1
  <2> QED
    BY <1>2, <2>1, <2>2
<1> QED
  BY <1>3 DEF PassIsEarned

-----------------------------------------------------------------------------
\* Backup

\* The enumeration a backup follows names experiments.
LEMMA OrderNames == \A n \in 1..Cardinality(Id) : Order[n] \in Id
<1>1. PICK s \in [1..Cardinality(Id) -> Id] : \A i, j \in DOMAIN s : s[i] = s[j] => i = j
  <2>1. PICK s : s \in Bijection(1..Cardinality(Id), Id)
    BY WorkbenchAssumption, FS_CardinalityType DEF ExistsBijection
  <2> QED
    BY <2>1 DEF Bijection, Injection, IsInjective
<1> QED
  BY <1>1 DEF Order

\* What a backup has locked keeps its files and its trial; requests to
\* cancel only come.
LEMMA LockedStays ==
  ASSUME StoreTypes, ProcessTypes, WorkerInv, OutsideInv, ExpiryInv, LockingInv, [Next]_vars, NEW i \in Locked
  PROVE  disk'[i] = disk[i] /\ row'[i] = row[i]
<1>1. i \in Id /\ writer[i] = "backup" /\ disk[i] \in {"whole", "worn"}
  BY DEF Locked, LockingInv, Opens
<1>2. disk'[i] = disk[i]
  BY <1>1, DiskMoves DEF Remove, ExpiryInv
<1>3. row'[i] = row[i]
  BY <1>1, RowMoves, WorkbenchAssumption
<1> QED
  BY <1>2, <1>3

\* The catalogue stands still meanwhile.
LEMMA CatalogueStays ==
  ASSUME LaunchInv, Reading, [Next]_vars
  PROVE  /\ UNCHANGED <<records, tombstone, notes>>
         /\ Catalogued' = Catalogued
<1>1. held = "backup" /\ launch.key = None /\ ~Free
  BY WorkbenchAssumption DEF LaunchInv, Free
<1>2. UNCHANGED <<records, tombstone, notes>>
  BY <1>1, RecordFrame DEF LaunchCommit, Bury, Purge, Annotate
<1> QED
  BY <1>2 DEF Catalogued

LEMMA CancelStays == ASSUME [Next]_vars PROVE cancelled \subseteq cancelled'
  BY JournalFrame DEF RequestCancel

\* How a backup moves.
LEMMA BackupMoves ==
  ASSUME ProcessTypes, [Next]_vars
  PROVE  \/ UNCHANGED backup
         \/ BackupBegin /\ backup'.at = "lock"
         \/ BackupLock /\ backup.at = "lock" /\ backup'.at = "lock"
         \/ BackupLocked /\ backup.at = "lock" /\ backup'.at = "list"
         \/ BackupList(Order) /\ backup.at = "list" /\ backup'.at \in {"list", "copy"}
         \/ BackupCopy(Order) /\ backup.at = "copy" /\ backup'.at = "copy"
         \/ BackupRefused \/ BackupFails(Order) \/ BackupDone \/ BackupDies
<1>1. BackupBegin => backup'.at = "lock"
  BY DEF BackupBegin, NoBackup
<1>2. BackupLock => backup.at = "lock" /\ backup'.at = "lock"
  BY DEF BackupLock, ProcessTypes
<1>3. BackupLocked => backup.at = "lock" /\ backup'.at = "list"
  BY DEF BackupLocked, ProcessTypes
<1>4. BackupList(Order) => backup.at = "list" /\ backup'.at \in {"list", "copy"}
  BY DEF BackupList, ProcessTypes
<1>5. BackupCopy(Order) => backup.at = "copy" /\ backup'.at = "copy"
  BY DEF BackupCopy, ProcessTypes
<1> QED
  BY <1>1, <1>2, <1>3, <1>4, <1>5, LockFrame

LEMMA BackupOver ==
  ASSUME ProcessTypes, BackupRefused \/ BackupFails(Order) \/ BackupDone \/ BackupDies
  PROVE  backup'.at \in {"idle", "done"} /\ Locked' = {}
<1>1. BackupEnds(NoBackup) \/ BackupEnds([backup EXCEPT !.at = "done"])
  BY DEF BackupRefused, BackupFails, BackupDone, BackupDies
<1> QED
  BY <1>1, WorkbenchAssumption DEF BackupEnds, NoBackup, ProcessTypes, Locked

LEMMA LockingStep ==
  ASSUME StoreTypes, ProcessTypes, LaunchInv, WorkerInv, OutsideInv, ExpiryInv, OneExperimentPerKey,
         LockingInv, [Next]_vars
  PROVE  LockingInv'
<1>1. ASSUME BackupRefused \/ BackupFails(Order) \/ BackupDone \/ BackupDies
      PROVE  LockingInv'
  BY <1>1, BackupOver DEF LockingInv, Reading
<1>2. ASSUME BackupBegin
      PROVE  LockingInv'
  <2>1. Locked' = Locked /\ Locked = {}
    BY <1>2 DEF BackupBegin, journals, Locked, LockingInv, Reading
  <2>2. /\ backup'.listed = {i \in Id : disk[i] # "absent"} /\ backup'.todo = backup'.listed
        /\ backup'.at = "lock" /\ UNCHANGED <<records, tombstone>>
    BY <1>2 DEF BackupBegin, NoBackup, catalogue
  <2>3. \A i \in records : i \in backup'.listed \/ tombstone[i] # None
    BY <2>2 DEF OneExperimentPerKey, StoreTypes
  <2> QED
    BY <1>2, <2>1, <2>2, <2>3 DEF LockingInv, Reading
<1>3. ASSUME ~(BackupRefused \/ BackupFails(Order) \/ BackupDone \/ BackupDies), ~BackupBegin
      PROVE  LockingInv'
  <2>1. Reading' <=> Reading
    BY <1>3, BackupMoves DEF Reading
  <2>2. Locked \subseteq Locked'
    BY <1>3, LockStays DEF Locked
  <2>3. ~BackupLock => Locked' = Locked
    BY <2>2, LockStays DEF Locked
  <2>4. ASSUME NEW i \in Locked'
        PROVE  Opens(i)'
    <3>1. CASE i \in Locked
      BY <3>1, LockedStays DEF LockingInv, Opens
    <3>2. CASE i \notin Locked
      <4>1. PICK j : Takes("backup", j) /\ UNCHANGED disk
        BY <2>3, <2>4, <3>2 DEF BackupLock, BackupLocks
      <4>2. i = j
        BY <2>4, <3>2, <4>1 DEF Locked, Takes, StoreTypes
      <4> QED
        BY <4>1, <4>2 DEF Takes, Opens
    <3> QED
      BY <3>1, <3>2
  <2>5. ~Reading => Locked' = {}
    BY <2>3 DEF LockingInv, Reading, BackupLock
  <2>6. CASE Reading
    <3>1. /\ \A i \in records' : i \in backup.listed \/ tombstone'[i] # None
          /\ backup'.listed = backup.listed
      BY <1>3, <2>6, CatalogueStays, BackupMoves DEF LockingInv, ProcessTypes, BackupLock, BackupLocked,
         BackupList, BackupCopy
    <3>2. \A i \in backup.listed : i \in backup'.todo \/ i \in Locked'
      <4>1. ASSUME BackupLock, NEW i \in backup.listed
            PROVE  i \in backup'.todo \/ i \in Locked'
        <5>1. PICK j \in backup.todo : /\ Takes("backup", j)
                                      /\ backup'.todo = backup.todo \ {j}
          BY <4>1 DEF BackupLock, BackupLocks, ProcessTypes
        <5>2. i = j => i \in Locked'
          BY <2>6, <4>1, <5>1 DEF Takes, Locked, StoreTypes, LockingInv
        <5> QED
          BY <2>2, <2>6, <4>1, <5>1, <5>2 DEF LockingInv
      <4>2. ASSUME ~BackupLock
            PROVE  backup'.todo = backup.todo
        BY <1>3, <4>2, BackupMoves DEF ProcessTypes, BackupLocked, BackupList, BackupCopy
      <4> QED
        BY <2>2, <2>6, <4>1, <4>2 DEF LockingInv
    <3> QED
      BY <2>1, <2>4, <2>6, <3>1, <3>2 DEF LockingInv
  <2> QED
    BY <2>1, <2>4, <2>5, <2>6 DEF LockingInv
<1> QED
  BY <1>1, <1>2, <1>3, BackupMoves

\* What a listing says of a request to cancel.
LEMMA ListedRequest ==
  ASSUME NEW r, NEW d, NEW i, NEW S, r = [disk |-> d, cancelled |-> i \in S]
  PROVE  r.cancelled <=> i \in S
  OBVIOUS

\* Once the locks are had, what was found stands still.
LEMMA FoundStays ==
  ASSUME StoreTypes, ProcessTypes, WorkerInv, OutsideInv, ExpiryInv, LockingInv, [Next]_vars,
         Reading, backup.todo = {}, NEW i \in backup.listed
  PROVE  i \in Id /\ disk'[i] = disk[i] /\ row'[i] = row[i]
  BY LockedStays DEF LockingInv

LEMMA MomentStep ==
  ASSUME StoreTypes, ProcessTypes, LaunchInv, WorkerInv, OutsideInv, ExpiryInv, RowInv, LockingInv,
         MomentInv, [Next]_vars
  PROVE  MomentInv'
<1>1. ASSUME BackupLocked, backup'.at = "list"
      PROVE  MomentInv'
  <2>1. /\ UNCHANGED <<records, notes, tombstone, disk, row, cancelled>>
        /\ backup'.todo = {} /\ backup'.listed = backup.listed
        /\ backup'.moment = [catalogue |-> Catalogued, of |-> [i \in Id |-> Directory(i)]]
    BY <1>1 DEF BackupLocked, ProcessTypes, catalogue, journals
  <2>2. Catalogued' = Catalogued
    BY <2>1 DEF Catalogued
  <2>3. backup.listed \subseteq Id
    BY <1>1 DEF LockingInv, Reading, BackupLocked
  <2>4. ASSUME NEW i \in backup.listed
        PROVE  /\ backup'.moment.of[i].row = row[i]
               /\ backup'.moment.of[i].files.disk = disk[i]
               /\ backup'.moment.of[i].files.cancelled <=> i \in cancelled
    <3>1. backup'.moment.of[i] = Directory(i)
      BY <2>1, <2>3, <2>4
    <3>2. Directory(i) = [files |-> [disk |-> disk[i], cancelled |-> i \in cancelled], row |-> row[i]]
      BY DEF Directory, Listing
    <3>3. Directory(i).row = row[i] /\ Directory(i).files.disk = disk[i]
      BY <3>2
    <3>4. Directory(i).files = [disk |-> disk[i], cancelled |-> i \in cancelled]
      BY <3>2
    <3>5. Directory(i).files.cancelled <=> i \in cancelled
      BY <3>4, ListedRequest
    <3> QED
      BY <3>1, <3>3, <3>5
  <2>5. \A i \in backup.listed : row[i].state = "cancelled" => i \in cancelled
    BY <2>3 DEF RowInv
  <2>6. backup'.moment.catalogue = Catalogued
    BY <2>1
  <2> QED
    BY <2>1, <2>2, <2>4, <2>5, <2>6 DEF MomentInv
<1>2. ASSUME backup.at \in {"list", "copy"}, backup'.at \in {"list", "copy"},
             UNCHANGED <<backup.listed, backup.todo, backup.moment>>
      PROVE  MomentInv'
  <2>1. Catalogued' = Catalogued
    BY <1>2, CatalogueStays DEF Reading
  <2>2. \A i \in backup.listed : disk'[i] = disk[i] /\ row'[i] = row[i]
    BY <1>2, FoundStays DEF Reading, MomentInv
  <2> QED
    BY <1>2, <2>1, <2>2, CancelStays DEF MomentInv
<1>3. ASSUME backup'.at \notin {"list", "copy"}
      PROVE  MomentInv'
  BY <1>3 DEF MomentInv
<1> QED
  BY <1>1, <1>2, <1>3, BackupMoves, BackupOver DEF ProcessTypes, BackupLock, BackupList, BackupCopy

LEMMA ListStep ==
  ASSUME StoreTypes, ProcessTypes, LaunchInv, WorkerInv, OutsideInv, ExpiryInv, LockingInv, MomentInv,
         ListInv, [Next]_vars
  PROVE  ListInv'
<1> DEFINE Good(f, n) == Order[n] \in backup.listed =>
             /\ f.disk = disk[Order[n]]
             /\ backup.moment.of[Order[n]].files.cancelled => f.cancelled
           Still == UNCHANGED <<backup.listed, backup.moment>>
<1>1. Cardinality(Id) \in Nat
  BY WorkbenchAssumption, FS_CardinalityType
<1>2. ASSUME BackupLocked, backup'.at = "list"
      PROVE  ListInv'
  <2>1. backup'.files = <<>>
    BY <1>2 DEF BackupLocked, ListInv, ProcessTypes
  <2>2. <<>> \in Seq(Listings) /\ Len(<<>>) = 0 /\ 1..0 = {}
    OBVIOUS
  <2> QED
    BY <1>1, <1>2, <2>1, <2>2 DEF ListInv
<1>3. ASSUME backup.at \in {"list", "copy"}, backup'.at \in {"list", "copy"}, Still,
             UNCHANGED backup.files
      PROVE  ListInv'
  <2>1. \A i \in backup.listed : disk'[i] = disk[i]
    BY <1>3, FoundStays DEF Reading, MomentInv
  <2> QED
    BY <1>3, <2>1 DEF ListInv
<1>4. ASSUME backup.at = "list", BackupList(Order), Len(backup.files) # Cardinality(Id)
      PROVE  ListInv'
  <2> DEFINE n == Len(backup.files) + 1
             f == Listing(Order[n])
  <2>1. n \in 1..Cardinality(Id) /\ Order[n] \in Id
    BY <1>1, <1>4, OrderNames DEF ListInv
  <2>2. f \in Listings
    BY <2>1 DEF Listing, Listings, StoreTypes
  <2>3. /\ Still /\ backup'.at = "list" /\ backup'.files = Append(backup.files, f)
        /\ UNCHANGED disk
    BY <1>4 DEF BackupList, ProcessTypes, journals
  <2>4. /\ backup'.files \in Seq(Listings) /\ Len(backup'.files) = n
        /\ backup'.files[n] = f
        /\ \A m \in 1..(n - 1) : backup'.files[m] = backup.files[m]
    BY <1>4, <2>2, <2>3 DEF ListInv
  <2>5. Good(f, n)
    BY <1>4, <2>1 DEF Listing, MomentInv
  <2>6. \A m \in 1..n : Good(backup'.files[m], m)
    <3>1. \A m \in 1..(n - 1) : Good(backup.files[m], m)
      BY <1>4, <2>1 DEF ListInv
    <3> HIDE DEF Good, f
    <3>2. \A m \in 1..n : m = n \/ m \in 1..(n - 1)
      BY <2>1
    <3> QED
      BY <2>4, <2>5, <3>1, <3>2
  <2> QED
    BY <1>1, <2>1, <2>3, <2>4, <2>6 DEF ListInv
<1>5. ASSUME backup'.at \notin {"lock", "list", "copy"}
      PROVE  ListInv'
  BY <1>5 DEF ListInv
<1>8. ASSUME BackupBegin \/ BackupLock \/ UNCHANGED backup, backup'.at = "lock"
      PROVE  ListInv'
  BY <1>8 DEF BackupBegin, BackupLock, NoBackup, ListInv, ProcessTypes
<1>6. ASSUME backup.at = "list", BackupList(Order), Len(backup.files) = Cardinality(Id)
      PROVE  backup'.at = "copy" /\ Still /\ UNCHANGED backup.files
  BY <1>6 DEF BackupList, ProcessTypes
<1>7. ASSUME BackupCopy(Order)
      PROVE  Still /\ UNCHANGED backup.files
  BY <1>7 DEF BackupCopy, ProcessTypes
<1> QED
  BY <1>2, <1>3, <1>4, <1>5, <1>6, <1>7, <1>8, BackupMoves, BackupOver

LEMMA CopyStep ==
  ASSUME StoreTypes, NoteTypes, ProcessTypes, LaunchInv, WorkerInv, OutsideInv, ExpiryInv, LockingInv,
         MomentInv, ListInv, CopyInv, [Next]_vars
  PROVE  CopyInv'
<1> DEFINE Good(c, n) == /\ c.files = backup.files[n]
                         /\ Order[n] \in backup.listed => c.row = row[Order[n]]
<1>1. Cardinality(Id) \in Nat
  BY WorkbenchAssumption, FS_CardinalityType
<1>2. ASSUME BackupList(Order), backup.at = "list", backup'.at = "copy"
      PROVE  CopyInv'
  <2>1. /\ Len(backup.files) = Cardinality(Id) /\ backup'.files = backup.files
        /\ backup'.copy = <<Catalogued>> /\ Catalogued' = Catalogued
    BY <1>2, CatalogueStays DEF BackupList, ProcessTypes, Reading
  <2>2. Catalogued \in Copies
    BY DEF Catalogued, Copies, StoreTypes, NoteTypes
  <2>3. /\ <<Catalogued>> \in Seq(Copies) /\ Len(<<Catalogued>>) = 1
        /\ <<Catalogued>>[1] = Catalogued
    BY <2>2
  <2>4. 1 \in 1..(Cardinality(Id) + 1) /\ 1..(1 - 1) = {}
    BY <1>1
  <2> QED
    BY <2>1, <2>3, <2>4 DEF CopyInv
<1>3. ASSUME BackupCopy(Order), backup.at = "copy"
      PROVE  CopyInv'
  <2> DEFINE n == Len(backup.copy)
             c == [files |-> backup.files[n], row |-> row[Order[n]]]
  <2>1. n \in 1..Cardinality(Id) /\ Order[n] \in Id
    BY <1>1, <1>3, OrderNames DEF BackupCopy, CopyInv
  <2>2. c \in Copies
    BY <1>3, <2>1 DEF Copies, StoreTypes, ListInv, CopyInv
  <2>3. /\ backup'.at = "copy" /\ backup'.copy = Append(backup.copy, c)
        /\ UNCHANGED <<backup.files, backup.listed, row>> /\ Catalogued' = Catalogued
    BY <1>3, CatalogueStays DEF BackupCopy, ProcessTypes, journals, Reading
  <2>4. /\ backup'.copy \in Seq(Copies) /\ Len(backup'.copy) = n + 1
        /\ backup'.copy[n + 1] = c
        /\ \A m \in 1..n : backup'.copy[m] = backup.copy[m]
    BY <1>3, <2>2, <2>3 DEF CopyInv
  <2>5. backup'.copy[1] = Catalogued'
    BY <1>3, <2>1, <2>3, <2>4 DEF CopyInv
  <2>6. \A m \in 1..n : Good(backup'.copy[m + 1], m)
    <3>1. \A m \in 1..(n - 1) : Good(backup.copy[m + 1], m)
      BY <1>3 DEF CopyInv
    <3>2. Good(c, n)
      OBVIOUS
    <3> HIDE DEF Good, c
    <3>3. \A m \in 1..n : m = n \/ (m \in 1..(n - 1) /\ m + 1 \in 1..n)
      BY <2>1
    <3> QED
      BY <2>4, <3>1, <3>2, <3>3
  <2>7. Len(backup'.copy) \in 1..(Cardinality(Id) + 1) /\ Len(backup'.copy) - 1 = n
    BY <1>1, <2>1, <2>4
  <2>8. Len(backup'.files) = Cardinality(Id)
    BY <1>3, <2>3 DEF CopyInv
  <2>9. \A m \in 1..(Len(backup'.copy) - 1) :
          /\ backup'.copy[m + 1].files = backup'.files[m]
          /\ Order[m] \in backup'.listed => backup'.copy[m + 1].row = row'[Order[m]]
    BY <2>3, <2>6, <2>7
  <2> QED
    BY <2>3, <2>4, <2>5, <2>7, <2>8, <2>9 DEF CopyInv
<1>4. ASSUME UNCHANGED backup, backup.at = "copy"
      PROVE  CopyInv'
  <2>1. Catalogued' = Catalogued
    BY <1>4, CatalogueStays DEF Reading
  <2>2. \A i \in backup.listed : row'[i] = row[i]
    BY <1>4, FoundStays DEF Reading, MomentInv
  <2> QED
    BY <1>4, <2>1, <2>2 DEF CopyInv
<1>5. ASSUME backup'.at # "copy"
      PROVE  CopyInv'
  BY <1>5 DEF CopyInv
<1> QED
  BY <1>2, <1>3, <1>4, <1>5, BackupMoves, BackupOver

\* What there is when a backup ends is as it was at its moment.
LEMMA DoneStep ==
  ASSUME ProcessTypes, BackupInv, BackupIsOneMoment, [Next]_vars
  PROVE  BackupIsOneMoment'
<1>1. ASSUME BackupDone
      PROVE  BackupIsOneMoment'
  <2>1. /\ backup.at = "copy" /\ Len(backup.copy) > Cardinality(Id)
        /\ UNCHANGED <<backup.copy, backup.moment, backup.listed>>
    BY <1>1 DEF BackupDone, BackupEnds, ProcessTypes
  <2>2. backup.copy[1] = backup.moment.catalogue
    BY <2>1 DEF BackupInv, MomentInv, CopyInv
  <2>3. ASSUME NEW n \in 1..Cardinality(Id), Order[n] \in backup.listed
        PROVE  /\ backup.copy[n + 1].files.disk = backup.moment.of[Order[n]].files.disk
               /\ backup.copy[n + 1].row = backup.moment.of[Order[n]].row
               /\ \/ backup.moment.of[Order[n]].files.cancelled
                  \/ backup.moment.of[Order[n]].row.state = "cancelled"
                  => backup.copy[n + 1].files.cancelled
    <3>1. n \in 1..(Len(backup.copy) - 1) /\ n \in 1..Len(backup.files)
      BY <2>1, WorkbenchAssumption, FS_CardinalityType DEF BackupInv, CopyInv
    <3>2. backup.copy[n + 1].files = backup.files[n] /\ backup.copy[n + 1].row = row[Order[n]]
      BY <2>1, <2>3, <3>1 DEF BackupInv, CopyInv
    <3>3. /\ backup.files[n].disk = disk[Order[n]]
          /\ backup.moment.of[Order[n]].files.cancelled => backup.files[n].cancelled
      BY <2>1, <2>3, <3>1 DEF BackupInv, ListInv
    <3> QED
      BY <2>1, <2>3, <3>2, <3>3 DEF BackupInv, MomentInv
  <2>4. \A i \in backup.moment.catalogue.records :
          i \in backup.listed \/ backup.moment.catalogue.tombstone[i] # None
    BY <2>1 DEF BackupInv, LockingInv, MomentInv, Reading, Catalogued
  <2> QED
    BY <2>1, <2>2, <2>3, <2>4 DEF BackupIsOneMoment
<1>2. ASSUME UNCHANGED backup
      PROVE  BackupIsOneMoment'
  BY <1>2 DEF BackupIsOneMoment
<1>3. ASSUME backup'.at # "done"
      PROVE  BackupIsOneMoment'
  BY <1>3 DEF BackupIsOneMoment
<1>4. ASSUME BackupRefused \/ BackupFails(Order) \/ BackupDies
      PROVE  backup'.at # "done"
  BY <1>4 DEF BackupRefused, BackupFails, BackupDies, BackupEnds, NoBackup
<1> QED
  BY <1>1, <1>2, <1>3, <1>4, BackupMoves

-----------------------------------------------------------------------------
\* The theorems

LEMMA Initially == Init => IInv
  BY WorkbenchAssumption DEF Init, IInv, StoreTypes, NoteTypes, ReviewerTypes, ProcessTypes, LaunchInv,
     WorkerInv, OutsideInv, RowInv, ExpiryInv, GateInv, ReadBeforeWritten, OneExperimentPerKey, PassIsEarned,
     BackupInv, LockingInv, MomentInv, ListInv, CopyInv, Reading, NoBackup, O, BackupIsOneMoment, Locked, Idle, Fresh, Disk, Trials, States, Outcomes, W, X

LEMMA Inductive == IInv /\ [Next]_vars => IInv'
<1> SUFFICES ASSUME IInv, [Next]_vars
             PROVE  IInv'
  OBVIOUS
<1>1. StoreTypes' /\ NoteTypes' /\ ReviewerTypes' /\ ProcessTypes'
  BY StoreStep, NoteStep, ReviewerStep, ProcessStep DEF IInv
<1>2. LaunchInv' /\ WorkerInv' /\ OutsideInv' /\ RowInv' /\ ExpiryInv' /\ GateInv'
  BY LaunchStep, WorkerStep, OutsideStep, RowStep, ExpiryStep, GateStep DEF IInv
<1>3. ReadBeforeWritten' /\ OneExperimentPerKey'
  BY ReadStep, KeyStep DEF IInv
<1>4. PassIsEarned'
  BY DecisionIsEarned, RecordFrame DEF IInv, PassIsEarned
<1>5. BackupInv' /\ BackupIsOneMoment'
  BY LockingStep, MomentStep, ListStep, CopyStep, DoneStep DEF IInv, BackupInv
<1> QED
  BY <1>1, <1>2, <1>3, <1>4, <1>5 DEF IInv

\* The inductive invariant holds in every reachable state.
THEOREM WorkbenchInvariance == Spec => []IInv
  BY Initially, Inductive, PTL DEF Spec

\* However many reviewers edit one trial (store.py:annotate), each note was
\* written by one who had read the note before it.
THEOREM NoteIsRead == Spec => []ReadBeforeWritten
<1>1. IInv => ReadBeforeWritten
  BY DEF IInv
<1> QED
  BY <1>1, WorkbenchInvariance, PTL

\* However often a launch is retried and wherever it dies (service.py:launch_experiment),
\* clients hear of one experiment per key, and its directory is there or was buried.
THEOREM OneLaunch == Spec => []OneExperimentPerKey
<1>1. IInv => OneExperimentPerKey
  BY DEF IInv
<1> QED
  BY <1>1, WorkbenchInvariance, PTL

\* A passing decision (analysis.py:decide) rests on an outcome, a world, an
\* inspection and a policy that were there together when it was stored,
\* although the outputs were read before.
THEOREM EarnedPass == Spec => []PassIsEarned
<1>1. IInv => PassIsEarned
  BY DEF IInv
<1> QED
  BY <1>1, WorkbenchInvariance, PTL

\* A finished backup (lifecycle.py:backup) has the catalogue and every journal
\* it found as they were together when it had the last lock, although
\* journals are made (journal.py:create) and cancelled (request_cancel)
\* without any.
THEOREM BackupOfOneMoment == Spec => []BackupIsOneMoment
<1>1. IInv => BackupIsOneMoment
  BY DEF IInv
<1> QED
  BY <1>1, WorkbenchInvariance, PTL

\* Retention (lifecycle.py:expire) takes files only of a buried experiment
\* whose trial neither runs nor waits for an operator.
THEOREM UnconfirmedIsKept == Spec => KeepsUnconfirmed
<1>1. IInv /\ [Next]_vars =>
        [\A i \in Id : disk[i] # "absent" /\ disk'[i] # disk[i] /\ disk'[i] # "whole" =>
           ~Unconfirmed(i) /\ tombstone[i] # None]_vars
  <2> SUFFICES ASSUME IInv, [Next]_vars, NEW i \in Id,
                      disk[i] # "absent", disk'[i] # disk[i], disk'[i] # "whole"
               PROVE  ~Unconfirmed(i) /\ tombstone[i] # None
    OBVIOUS
  <2>1. Remove /\ i = X
    BY DiskMoves DEF IInv
  <2> QED
    BY <2>1 DEF Remove, IInv, ExpiryInv
<1> QED
  BY <1>1, WorkbenchInvariance, PTL DEF Spec, KeepsUnconfirmed
=============================================================================
