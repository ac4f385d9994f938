-------------------------------- MODULE Trail --------------------------------
(***************************************************************************)
(* The audit trail of one governed run (audit.py): AuditChain appends one  *)
(* line per lifecycle event to a file that must not exist before, each line *)
(* holding the hash of its predecessor; verify_audit_chain reads a file    *)
(* line by line up to the first line that is not the next one.             *)
(*                                                                         *)
(* append holds the chain's lock from the validation to the fsync, so two  *)
(* appends never overlap; writing and acknowledging are two steps because  *)
(* an error or a kill between them leaves a line nobody was told of.       *)
(* SHA-256 is taken to be injective: the hash of a line is the sequence of *)
(* the payloads up to it.  Once the writer is gone the file may be damaged: *)
(* truncated, torn, with lines lost, doubled, swapped or altered, or with  *)
(* another run's file in its place.                                        *)
(***************************************************************************)
EXTENDS Naturals, SequencesExt

CONSTANTS Events,        \* the events a run may try to append
          MaxEvents,     \* how many lines a trail has at most
          MaxDamage      \* how many times stored things are changed

ASSUME TrailAssumption == MaxEvents \in Nat /\ MaxDamage \in Nat

VARIABLES file,          \* audit.jsonl: [kind, lines]
          chain,         \* the writer: [state, final, count]
          pending,       \* the line between write and acknowledgement
          error,         \* provenance.audit_error is set
          acked,         \* history: the events append returned for
          damage         \* how often something stored was changed

trailVars == <<file, chain, pending, error, acked, damage>>

Run     == "run"         \* this run's id and trace
Other   == "other"       \* another run's
None    == [none |-> TRUE]
AnyRun  == "any"         \* no run id was asked for
Genesis == <<>>

-----------------------------------------------------------------------------
(* Which events the strict schemas of audit.py admit.  An event carries    *)
(* the facts the schemas relate; fields of no interest hold a default.     *)

Plain == [type |-> "agent.started", group |-> "absent", judge |-> FALSE, identity |-> FALSE,
          ok |-> TRUE, failures |-> 0, passed |-> 0, total |-> 0, rejected |-> FALSE,
          private |-> FALSE, size |-> 1]

Types == {"evaluation.requested", "policy.admitted", "agent.started", "agent.completed",
          "cleanup.completed", "evaluation.started", "evaluation.failed", "tests.completed",
          "scanners.completed", "judge.completed", "judge.skipped", "outcome.decided",
          "run.completed"}

(* _validate_optional_group: present altogether or not at all. *)
WholeGroup(e) == e.group \in {"absent", "whole"}

JudgeIsIdentified(e) ==
  e.type = "evaluation.requested" /\ e.group = "whole" => (e.judge <=> e.identity)

CleanupAddsUp(e) ==
  e.type = "cleanup.completed" /\ e.group = "whole" => (e.ok <=> e.failures = 0)

TestsAddUp(e) ==
  e.type = "tests.completed" =>
    /\ e.group = "whole" => e.passed <= e.total
    /\ e.rejected => ~e.ok

(* _json_attributes: no key that names a secret or content, at any depth.  *)
Private(e) == e.private

Fits(e) ==
  /\ e.type \in Types /\ WholeGroup(e) /\ ~Private(e)
  /\ JudgeIsIdentified(e) /\ CleanupAddsUp(e) /\ TestsAddUp(e)

MaxBytes == 1            \* MAX_AUDIT_EVENT_BYTES

-----------------------------------------------------------------------------
(* Lines and their hashes.                                                 *)

Body(n, run, e) == [sequence |-> n, trace |-> run, run |-> run, event |-> e]
Digest(line)    == Append(line.previous, line.body)
Line(n, run, e, previous) ==
  [form |-> "canonical", body |-> Body(n, run, e), previous |-> previous,
   hash |-> Append(previous, Body(n, run, e))]

(* The lines a run writes for a sequence of events. *)
HashOf(run, events, n) == [i \in 1..n |-> Body(i - 1, run, events[i])]
Written(run, events) ==
  [i \in 1..Len(events) |-> Line(i - 1, run, events[i], HashOf(run, events, i - 1))]

-----------------------------------------------------------------------------
(* The writer.                                                             *)

TrailInit ==
  /\ file = [kind |-> "missing", lines |-> <<>>]
  /\ chain = [state |-> "new", final |-> Genesis, count |-> 0]
  /\ pending = None /\ error = FALSE /\ acked = <<>> /\ damage = 0

(* AuditChain.__init__: O_EXCL. *)
Create ==
  /\ chain.state = "new" /\ file.kind = "missing"
  /\ file' = [kind |-> "regular", lines |-> <<>>]
  /\ chain' = [chain EXCEPT !.state = "open"]
  /\ UNCHANGED <<pending, error, acked, damage>>

Appends == chain.state = "open" /\ pending = None /\ ~error

(* append raises AuditError before anything is written; _audit_event takes *)
(* any exception for the end of the trail.                                 *)
Refuse(e) ==
  /\ Appends /\ ~(Fits(e) /\ e.size <= MaxBytes) /\ error' = TRUE
  /\ UNCHANGED <<file, chain, pending, acked, damage>>

Torn(line) == [line EXCEPT !.form = "torn"]

(* write, flush, fsync: all of the line, a part of it or nothing is on     *)
(* disk when the call ends.                                                *)
Write(e) ==
  /\ Appends /\ Fits(e) /\ e.size <= MaxBytes /\ chain.count < MaxEvents
  /\ LET line == Line(chain.count, Run, e, chain.final) IN
       /\ pending' = line
       /\ \E more \in {<<line>>, <<Torn(line)>>, <<>>} : file' = [file EXCEPT !.lines = @ \o more]
  /\ UNCHANGED <<chain, error, acked, damage>>

(* Only what is whole on disk is acknowledged... *)
Acknowledge ==
  /\ pending # None /\ Len(file.lines) > chain.count /\ Last(file.lines) = pending
  /\ chain' = [chain EXCEPT !.final = pending.hash, !.count = @ + 1]
  /\ acked' = Append(acked, pending.body.event) /\ pending' = None
  /\ UNCHANGED <<file, error, damage>>

(* ... and an error closes the chain, even if the line is on disk. *)
AppendFails ==
  /\ pending # None /\ pending' = None
  /\ chain' = [chain EXCEPT !.state = "closed"] /\ error' = TRUE
  /\ UNCHANGED <<file, acked, damage>>

(* close, which may fail as well. *)
CloseTrail ==
  /\ chain.state \in {"open", "closed"} /\ pending = None
  /\ chain' = [chain EXCEPT !.state = "done"]
  /\ error' \in {error, TRUE}
  /\ UNCHANGED <<file, pending, acked, damage>>

WriteTrail == Create \/ (\E e \in Events : Refuse(e) \/ Write(e)) \/ Acknowledge \/ AppendFails

-----------------------------------------------------------------------------
(* What happens to the file afterwards.                                    *)

Altered(line, e) == [line EXCEPT !.body.event = e]
Garbled(line)    == [line EXCEPT !.form = "garbled"]
OthersTrail(n)   == Written(Other, [i \in 1..n |-> Plain])

Damaged(ls) ==
  {SubSeq(ls, 1, n) : n \in 0..Len(ls)}
  \cup {RemoveAt(ls, i) : i \in 1..Len(ls)}
  \cup {InsertAt(ls, i, ls[i]) : i \in 1..Len(ls)}
  \cup {[ls EXCEPT ![i] = ls[j], ![j] = ls[i]] : i, j \in 1..Len(ls)}
  \cup {[ls EXCEPT ![i] = Altered(ls[i], e)] : i \in 1..Len(ls), e \in Events}
  \cup {[ls EXCEPT ![i] = Garbled(ls[i])] : i \in 1..Len(ls)}
  \cup {OthersTrail(n) : n \in 1..Len(ls)}

DamageTrail ==
  /\ chain.state = "done" /\ damage < MaxDamage /\ damage' = damage + 1
  /\ \/ file.kind = "regular" /\ \E ls \in Damaged(file.lines) \ {file.lines} : file' = [file EXCEPT !.lines = ls]
     \/ \E kind \in {"missing", "link"} \ {file.kind} : file' = [kind |-> kind, lines |-> <<>>]
  /\ UNCHANGED <<chain, pending, error, acked>>

-----------------------------------------------------------------------------
(* The verifier.                                                           *)

(* lstat and open: neither missing, nor a link, nor anything special. *)
Opens(f) == f.kind = "regular"

(* The bytes of a line: bounded, newline-terminated, canonical JSON without *)
(* duplicate keys.                                                         *)
ReadsAsJson(line) == line.form = "canonical" /\ line.body.event.size <= MaxBytes

(* mutant: the hash of the payload is not computed again. *)
IsIntactUnread(line) == Len(line.hash) > 0

(* It is an event of the strict schema; its hash is that of its payload.   *)
IsIntact(line) == line.hash = Digest(line)
IsEvent(line)  == Fits(line.body.event)

InSequence(ls, i) == ls[i].body.sequence = i - 1
SameTrace(ls, i)  == ls[i].body.trace = ls[1].body.trace
SameRun(ls, i, run) == ls[i].body.run = ls[1].body.run /\ (run # AnyRun => ls[1].body.run = run)
Linked(ls, i)     == ls[i].previous = (IF i = 1 THEN Genesis ELSE ls[i - 1].hash)

(* Line i is the next event of a chain whose first i - 1 lines are good.   *)
Continues(ls, i, run) ==
  /\ ReadsAsJson(ls[i]) /\ IsEvent(ls[i])
  /\ InSequence(ls, i) /\ SameTrace(ls, i) /\ SameRun(ls, i, run)
  /\ Linked(ls, i) /\ IsIntact(ls[i])

EndsWith(ls, final) == Len(ls) > 0 /\ (final # Genesis => Last(ls).hash = final)

(* verify_audit_chain; Genesis and AnyRun stand for "not asked". *)
ChainVerifies(f, final, run) ==
  /\ Opens(f)
  /\ \A i \in 1..Len(f.lines) : Continues(f.lines, i, run)
  /\ EndsWith(f.lines, final)
=============================================================================
