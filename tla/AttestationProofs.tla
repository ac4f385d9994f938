-------------------------- MODULE AttestationProofs --------------------------
(***************************************************************************)
(* Proofs about Trail and Attestation: for any events, lengths of a trail, *)
(* further files and number of changes by others, a trail that verifies    *)
(* against the recorded hash is, event for event, what the runner was told *)
(* had been written; a run that verifies is whole; and a run nobody has    *)
(* touched verifies.                                                       *)
(***************************************************************************)
EXTENDS Attestation, SequenceTheorems, FiniteSetTheorems, WellFoundedInduction, TLAPS

Bodies == [sequence : Nat, trace : {Run, Other}, run : {Run, Other}, event : Events \cup {Plain}]
Lines  == [form : {"canonical", "torn", "garbled"}, body : Bodies, previous : Seq(Bodies), hash : Seq(Bodies)]

-----------------------------------------------------------------------------
\* Lines and hashes

\* A set of places in a sequence has a last one.
LEMMA Greatest ==
  ASSUME NEW n \in Nat, NEW T, T \subseteq 1..n, T # {}
  PROVE  \E x \in T : \A y \in T : y <= x
<1> DEFINE F == {x..n : x \in T}
<1>1. F \subseteq SUBSET (1..n) /\ F # {}
  <2>1. \A x \in T : x..n \subseteq 1..n
    OBVIOUS
  <2> QED
    BY <2>1
<1>2. IsWellFoundedOn(StrictSubsetOrdering(1..n), SUBSET (1..n))
  <2>1. IsFiniteSet(1..n)
    BY FS_Interval
  <2>2. FiniteSubsetsOf(1..n) = SUBSET (1..n)
    BY <2>1, FS_FiniteSubsetsOfFinite
  <2>3. IsWellFoundedOn(StrictSubsetOrdering(1..n), FiniteSubsetsOf(1..n))
    BY FS_StrictSubsetOrderingWellFounded
  <2> QED
    BY <2>2, <2>3
<1>3. PICK f \in F : \A g \in F : ~(<<g, f>> \in StrictSubsetOrdering(1..n))
  <2> HIDE DEF F
  <2> QED
    BY <1>1, <1>2, WFMin
<1>4. PICK x \in T : f = x..n
  BY <1>3
<1>5. ASSUME NEW y \in T, x < y PROVE FALSE
  <2>1. y..n \in F
    OBVIOUS
  <2>2. y..n \subseteq x..n /\ y..n # x..n
    BY <1>5
  <2>3. <<y..n, x..n>> \in StrictSubsetOrdering(1..n)
    BY <1>1, <1>4, <2>1, <2>2 DEF StrictSubsetOrdering
  <2> QED
    BY <1>3, <1>4, <2>1, <2>3
<1> QED
  BY <1>5

\* The hash of the first n events, and how it grows.
LEMMA Hashes ==
  ASSUME NEW run \in {Run, Other}, NEW es \in Seq(Events \cup {Plain}), NEW n \in 0..Len(es)
  PROVE  /\ HashOf(run, es, n) \in Seq(Bodies)
         /\ Len(HashOf(run, es, n)) = n
         /\ n > 0 => /\ HashOf(run, es, n) = Append(HashOf(run, es, n - 1), Body(n - 1, run, es[n]))
                     /\ Body(n - 1, run, es[n]) \in Bodies
<1>1. \A i \in 1..Len(es) : Body(i - 1, run, es[i]) \in Bodies
  BY DEF Body, Bodies
<1>2. HashOf(run, es, n) \in Seq(Bodies) /\ Len(HashOf(run, es, n)) = n
  BY <1>1 DEF HashOf
<1>3. ASSUME n > 0 PROVE HashOf(run, es, n) = Append(HashOf(run, es, n - 1), Body(n - 1, run, es[n]))
  <2> DEFINE before == HashOf(run, es, n - 1)
             b      == Body(n - 1, run, es[n])
  <2>1. before \in Seq(Bodies) /\ Len(before) = n - 1 /\ b \in Bodies
    BY <1>1, <1>3 DEF HashOf
  <2>2. /\ Append(before, b) \in Seq(Bodies) /\ Len(Append(before, b)) = n
        /\ \A i \in 1..n - 1 : Append(before, b)[i] = before[i]
        /\ Append(before, b)[n] = b
    <3> HIDE DEF before, b
    <3> QED
      BY <2>1, AppendProperties, <1>3
  <2>3. \A i \in 1..n : HashOf(run, es, n)[i] = IF i = n THEN b ELSE before[i]
    BY <1>3 DEF HashOf
  <2>4. \A i \in 1..n : HashOf(run, es, n)[i] = Append(before, b)[i]
    <3> HIDE DEF before, b
    <3> QED
      BY <2>2, <2>3
  <2> QED
    BY <1>2, <2>2, <2>4, SeqEqual
<1> QED
  BY <1>1, <1>2, <1>3

LEMMA NoHash ==
  ASSUME NEW run, NEW es
  PROVE  HashOf(run, es, 0) = <<>>
<1>1. DOMAIN HashOf(run, es, 0) = {}
  BY DEF HashOf
<1>2. HashOf(run, es, 0) \in Seq({}) /\ Len(HashOf(run, es, 0)) = 0
  BY <1>1 DEF HashOf
<1> QED
  BY <1>2, EmptySeq

\* Events that are added do not change the hash of those before.
LEMMA HashPrefix ==
  ASSUME NEW run, NEW es \in Seq(Events), NEW e \in Events, NEW n \in 0..Len(es)
  PROVE  HashOf(run, Append(es, e), n) = HashOf(run, es, n)
<1>1. \A i \in 1..n : Append(es, e)[i] = es[i]
  BY AppendProperties
<1> QED
  BY <1>1 DEF HashOf

LEMMA EventSeq ==
  ASSUME NEW es \in Seq(Events)
  PROVE  es \in Seq(Events \cup {Plain})
BY SeqMonotonic

LEMMA NothingWritten ==
  ASSUME NEW run
  PROVE  Written(run, <<>>) = <<>>
<1>1. Len(<<>>) = 0
  BY EmptySeq
<1>2. Written(run, <<>>) \in Seq({}) /\ Len(Written(run, <<>>)) = 0
  BY <1>1 DEF Written
<1> QED
  BY <1>2, EmptySeq

LEMMA WrittenLines ==
  ASSUME NEW run \in {Run, Other}, NEW es \in Seq(Events \cup {Plain})
  PROVE  /\ Written(run, es) \in Seq(Lines)
         /\ Len(Written(run, es)) = Len(es)
         /\ \A i \in 1..Len(es) :
              Written(run, es)[i] = [form |-> "canonical", body |-> Body(i - 1, run, es[i]),
                                     previous |-> HashOf(run, es, i - 1), hash |-> HashOf(run, es, i)]
<1>1. \A i \in 1..Len(es) :
        /\ Written(run, es)[i] = [form |-> "canonical", body |-> Body(i - 1, run, es[i]),
                                  previous |-> HashOf(run, es, i - 1), hash |-> HashOf(run, es, i)]
        /\ Written(run, es)[i] \in Lines
  <2> TAKE i \in 1..Len(es)
  <2>0. i \in 0..Len(es) /\ i - 1 \in 0..Len(es) /\ i > 0
    OBVIOUS
  <2>1. /\ HashOf(run, es, i) \in Seq(Bodies) /\ HashOf(run, es, i - 1) \in Seq(Bodies)
        /\ HashOf(run, es, i) = Append(HashOf(run, es, i - 1), Body(i - 1, run, es[i]))
        /\ Body(i - 1, run, es[i]) \in Bodies
    BY <2>0, Hashes
  <2> QED
    BY <2>1 DEF Written, Line, Lines
<1>2. Written(run, es) = [i \in 1..Len(es) |-> Written(run, es)[i]]
  BY DEF Written
<1> QED
  BY <1>1, <1>2

-----------------------------------------------------------------------------
\* The core of the matter: the last hash determines the trail.

\* A hash has one last payload.
LEMMA HashTaken ==
  ASSUME NEW es \in Seq(Events), NEW n \in 0..Len(es), NEW previous \in Seq(Bodies), NEW body \in Bodies,
         Append(previous, body) = HashOf(Run, es, n)
  PROVE  n > 0 /\ previous = HashOf(Run, es, n - 1) /\ body = Body(n - 1, Run, es[n])
<1>1. n # 0
  <2>1. Append(previous, body) # <<>>
    BY AppendProperties
  <2> QED
    BY <2>1, NoHash
<1>2. n \in 0..Len(es) /\ n - 1 \in 0..Len(es) /\ n > 0
  BY <1>1
<1>3. /\ HashOf(Run, es, n) = Append(HashOf(Run, es, n - 1), Body(n - 1, Run, es[n]))
      /\ HashOf(Run, es, n - 1) \in Seq(Bodies) /\ Body(n - 1, Run, es[n]) \in Bodies
  <2>1. es \in Seq(Events \cup {Plain}) /\ Run \in {Run, Other}
    BY EventSeq
  <2> QED
    BY <1>2, <2>1, Hashes
<1>4. Append(previous, body) = Append(HashOf(Run, es, n - 1), Body(n - 1, Run, es[n]))
  BY <1>3
<1> QED
  BY <1>2, <1>3, <1>4, AppendInjective

\* A line of which the hash is known is known, and so is the one before it.
LEMMA KnownLine ==
  ASSUME NEW es \in Seq(Events), NEW ls \in Seq(Lines), NEW i \in 1..Len(ls), NEW n \in 0..Len(es),
         Continues(ls, i, Run), ls[i].hash = HashOf(Run, es, n)
  PROVE  /\ n = i /\ ls[i] = Written(Run, es)[i]
         /\ i > 1 => ls[i - 1].hash = HashOf(Run, es, i - 1)
<1> DEFINE l == ls[i]
<1>1. /\ l \in Lines /\ l.hash = Append(l.previous, l.body) /\ l.form = "canonical" /\ l.body.sequence = i - 1
      /\ l.hash = HashOf(Run, es, n)
  BY DEF Continues, IsIntact, Digest, ReadsAsJson, InSequence
<1>2. l.previous \in Seq(Bodies) /\ l.body \in Bodies
  BY <1>1 DEF Lines
<1>3. Append(l.previous, l.body) = HashOf(Run, es, n)
  BY <1>1
<1>5. n > 0 /\ l.previous = HashOf(Run, es, n - 1) /\ l.body = Body(n - 1, Run, es[n])
  <2> HIDE DEF l
  <2> QED
    BY <1>2, <1>3, HashTaken
<1>6. n = i
  BY <1>1, <1>5 DEF Body
<1>7. l = [form |-> "canonical", body |-> Body(i - 1, Run, es[i]), previous |-> HashOf(Run, es, i - 1),
           hash |-> HashOf(Run, es, i)]
  BY <1>1, <1>5, <1>6 DEF Lines
<1>8. l = Written(Run, es)[i]
  BY <1>6, <1>7, EventSeq, WrittenLines
<1> QED
  BY <1>5, <1>6, <1>8 DEF Continues, Linked

\* Were there a line that is not the one written, take the last such one: its
\* successor is as written, and holds its hash.
LEMMA HashDeterminesTrail ==
  ASSUME NEW es \in Seq(Events), es # <<>>, NEW f, f.lines \in Seq(Lines),
         ChainVerifies(f, HashOf(Run, es, Len(es)), Run)
  PROVE  f.lines = Written(Run, es)
<1> DEFINE ls == f.lines
<1>1. Len(es) \in Nat \ {0} /\ Len(ls) \in Nat
  BY EmptySeq
<1>2. HashOf(Run, es, Len(es)) # Genesis
  BY <1>1, EventSeq, Hashes DEF Genesis
<1>3. Len(ls) > 0 /\ ls[Len(ls)].hash = HashOf(Run, es, Len(es)) /\ \A i \in 1..Len(ls) : Continues(ls, i, Run)
  BY <1>2 DEF ChainVerifies, EndsWith, Last
<1>4. Len(ls) = Len(es) /\ ls[Len(ls)] = Written(Run, es)[Len(ls)]
  BY <1>1, <1>3, KnownLine
<1> DEFINE Wrong == {i \in 1..Len(ls) : ls[i].hash # HashOf(Run, es, i)}
<1>5. Wrong = {}
  <2> SUFFICES ASSUME Wrong # {} PROVE FALSE
    OBVIOUS
  <2>1. PICK i \in Wrong : \A j \in Wrong : j <= i
    <3>1. Wrong \subseteq 1..Len(ls)
      OBVIOUS
    <3> HIDE DEF Wrong
    <3> QED
      BY <1>1, <3>1, Greatest
  <2>2. i < Len(ls)
    BY <1>3, <1>4
  <2>3. i + 1 \in 1..Len(ls) /\ ls[i + 1].hash = HashOf(Run, es, i + 1)
    BY <2>1, <2>2
  <2>4. ls[i].hash = HashOf(Run, es, i)
    BY <1>1, <1>3, <1>4, <2>3, KnownLine
  <2> QED
    BY <2>4
<1>6. \A i \in 1..Len(ls) : ls[i] = Written(Run, es)[i]
  BY <1>1, <1>3, <1>4, <1>5, KnownLine
<1> QED
  BY <1>4, <1>6, EventSeq, WrittenLines, SeqEqual

\* And what is written verifies.
LEMMA WrittenVerifies ==
  ASSUME NEW es \in Seq(Events), es # <<>>, NEW f, Opens(f), f.lines = Written(Run, es),
         \A i \in 1..Len(es) : Fits(es[i]) /\ es[i].size <= MaxBytes
  PROVE  ChainVerifies(f, HashOf(Run, es, Len(es)), Run)
<1> DEFINE ls == f.lines
<1>1. Len(es) \in Nat \ {0} /\ Len(ls) = Len(es) /\ es \in Seq(Events \cup {Plain}) /\ Run \in {Run, Other}
  BY EmptySeq, EventSeq, WrittenLines
<1>2. ASSUME NEW i \in 1..Len(es)
      PROVE  /\ ls[i].form = "canonical" /\ ls[i].body = Body(i - 1, Run, es[i])
             /\ ls[i].previous = HashOf(Run, es, i - 1) /\ ls[i].hash = HashOf(Run, es, i)
             /\ ls[i].body.sequence = i - 1 /\ ls[i].body.trace = Run /\ ls[i].body.run = Run
             /\ ls[i].body.event = es[i]
  <2>1. ls[i] = [form |-> "canonical", body |-> Body(i - 1, Run, es[i]), previous |-> HashOf(Run, es, i - 1),
                 hash |-> HashOf(Run, es, i)]
    BY <1>1, WrittenLines
  <2> QED
    BY <2>1 DEF Body
<1> HIDE DEF ls
<1>3. ASSUME NEW i \in 1..Len(es) PROVE Continues(ls, i, Run)
  <2>0. 1 \in 1..Len(es) /\ i \in 0..Len(es) /\ i > 0
    BY <1>1
  <2>1. ReadsAsJson(ls[i]) /\ IsEvent(ls[i])
    BY <1>2 DEF ReadsAsJson, IsEvent
  <2>2. InSequence(ls, i) /\ SameTrace(ls, i) /\ SameRun(ls, i, Run)
    BY <1>2, <2>0 DEF InSequence, SameTrace, SameRun
  <2>3. IsIntact(ls[i])
    <3>1. HashOf(Run, es, i) = Append(HashOf(Run, es, i - 1), Body(i - 1, Run, es[i]))
      BY <1>1, <2>0, Hashes
    <3> QED
      BY <1>2, <3>1 DEF IsIntact, Digest
  <2>4. Linked(ls, i)
    <3>1. CASE i = 1
      BY <1>2, <3>1, NoHash DEF Linked, Genesis
    <3>2. CASE i > 1
      <4>1. ls[i - 1].hash = HashOf(Run, es, i - 1)
        BY <1>1, <1>2, <3>2
      <4> QED
        BY <1>2, <3>2, <4>1 DEF Linked
    <3> QED
      BY <3>1, <3>2
  <2> QED
    BY <2>1, <2>2, <2>3, <2>4 DEF Continues
<1>4. EndsWith(ls, HashOf(Run, es, Len(es)))
  <2>1. ls[Len(ls)].hash = HashOf(Run, es, Len(es))
    BY <1>1, <1>2
  <2> QED
    BY <1>1, <2>1 DEF EndsWith, Last
<1> QED
  BY <1>1, <1>3, <1>4 DEF ChainVerifies, ls

-----------------------------------------------------------------------------
\* The inductive invariant

Stages == {"staged", "unstaged", "untracked", "tree"}
Before == {"run", "end"} \cup Stages
Stated == {"statement", "sidecar", "attested"}
Bound  == {"subjects"} \cup Stated
Tasked == {"identity", "manifest", "taskTree"} \cup Bound
After  == {"list"} \cup Tasked
Phases == Before \cup {"save", "ended"} \cup After

Repos == [sha : {0, 1}, staged : {0, 1}, unstaged : {0, 1}, untracked : {0, 1}]

StoredTypes ==
  /\ file \in [kind : {"missing", "regular", "link"}, lines : Seq(Lines)]
  /\ chain \in [state : {"new", "open", "closed", "done"}, final : Seq(Bodies), count : Nat]
  /\ error \in BOOLEAN /\ quiet \in BOOLEAN /\ acked \in Seq(Events)
  /\ phase \in Phases /\ repo \in Repos

\* The writer knows what it was told: the hash and the number of the events
\* acknowledged, and the line that comes next.
ChainInv ==
  /\ chain.final = HashOf(Run, acked, Len(acked)) /\ chain.count = Len(acked)
  /\ \A i \in 1..Len(acked) : Fits(acked[i]) /\ acked[i].size <= MaxBytes
  /\ pending # None => \E e \in Events : /\ Fits(e) /\ e.size <= MaxBytes
                                         /\ pending = Line(chain.count, Run, e, chain.final)
  /\ chain.state = "new" => acked = <<>> /\ pending = None
  /\ phase \in Before => chain.state # "done"
  /\ phase \notin {"run", "end"} => pending = None

\* Until somebody else or an error comes in between, the file is what was
\* acknowledged, and what was written since.
FileInv ==
  (quiet \/ chain.state # "done") /\ ~error /\ phase # "ended" =>
    /\ chain.state # "new" => file.kind = "regular"
    /\ \/ file.lines = Written(Run, acked)
       \/ pending # None /\ file.lines \in {Written(Run, acked) \o <<pending>>, Written(Run, acked) \o <<Torn(pending)>>}

\* What is in the record was not to change any more.
SavedInv ==
  /\ row # None =>
       /\ phase \notin Before \cup {"save"}
       /\ row.final = chain.final /\ row.count = chain.count /\ row.error = error
  /\ sidecar # None => phase \in {"attested", "ended"}

\* What the runner has read is what is there.
NoteInv ==
  /\ phase = "staged" => note.git = [sha |-> repo.sha, staged |-> 0, unstaged |-> 0, untracked |-> 0]
  /\ phase = "unstaged" => note.git = [sha |-> repo.sha, staged |-> repo.staged, unstaged |-> 0, untracked |-> 0]
  /\ phase = "untracked" => note.git = [repo EXCEPT !.untracked = 0]
  /\ phase = "tree" => note.git = repo
  /\ phase \in {"end", "save"} \cup After => note.git \in {None, repo}
  /\ phase \in Tasked => note.git = repo /\ note.names = Attestable
  /\ phase \in {"end", "save"} \cup After => note.tree \in {None, task}
  /\ phase \in Tasked \ {"identity"} => note.identity = task.id
  /\ phase \in Tasked \ {"identity", "manifest"} => note.manifest = task.manifest
  /\ phase \in Bound => note.taskTree = task

\* Nothing but what is there goes into the statement.
BoundInv ==
  /\ phase \in After => Links = {} /\ row = Record(FALSE) /\ results = Record(FALSE)
  /\ phase \in Bound =>
       /\ DOMAIN note.subject \subseteq note.names
       /\ \A n \in DOMAIN note.subject : note.subject[n] = SubjectDigest(n)
  /\ phase \in Stated => DOMAIN note.subject = note.names
  /\ phase \in Stated \ {"statement"} => statement = Statement
  /\ phase = "attested" => sidecar = Statement

\* The fields of a note; the artifacts are digested last.
NoteShape ==
  /\ phase \notin Bound \cup {"ended"} => DOMAIN note.subject = {}
  /\ phase \in {"run"} \cup Stages => note.tree = None
  /\ note = [git |-> note.git, tree |-> note.tree, names |-> note.names, identity |-> note.identity,
             manifest |-> note.manifest, taskTree |-> note.taskTree, subject |-> note.subject]

QuietInv == quiet => phase # "run" /\ NoteInv /\ BoundInv

IInv == StoredTypes /\ ChainInv /\ FileInv /\ SavedInv /\ NoteShape /\ QuietInv

-----------------------------------------------------------------------------
\* The writer

LEMMA LineIsSome ==
  ASSUME NEW n, NEW run, NEW e, NEW previous
  PROVE  Line(n, run, e, previous) # None
<1>1. DOMAIN Line(n, run, e, previous) = {"form", "body", "previous", "hash"} /\ DOMAIN None = {"none"}
  BY DEF Line, None
<1> QED
  BY <1>1

LEMMA WrittenGrows ==
  ASSUME NEW es \in Seq(Events), NEW e \in Events
  PROVE  LET l == Line(Len(es), Run, e, HashOf(Run, es, Len(es))) IN
         /\ Written(Run, Append(es, e)) = Written(Run, es) \o <<l>>
         /\ l \in Lines /\ l.hash = HashOf(Run, Append(es, e), Len(es) + 1)
<1> DEFINE n  == Len(es)
           l  == Line(n, Run, e, HashOf(Run, es, n))
           more == Append(es, e)
<1>1. /\ n \in Nat /\ es \in Seq(Events \cup {Plain}) /\ Run \in {Run, Other}
      /\ more \in Seq(Events) /\ more \in Seq(Events \cup {Plain}) /\ Len(more) = n + 1
      /\ more[n + 1] = e /\ \A i \in 1..n : more[i] = es[i]
  BY EventSeq, AppendProperties
<1>2. \A i \in 0..n : HashOf(Run, more, i) = HashOf(Run, es, i)
  BY HashPrefix
<1>3. l = [form |-> "canonical", body |-> Body(n, Run, e), previous |-> HashOf(Run, es, n),
           hash |-> HashOf(Run, more, n + 1)]
  <2>1. n + 1 \in 0..Len(more) /\ n \in 0..n /\ n + 1 > 0 /\ (n + 1) - 1 = n
    BY <1>1
  <2>2. HashOf(Run, more, n + 1) = Append(HashOf(Run, more, (n + 1) - 1), Body((n + 1) - 1, Run, more[n + 1]))
    <3> HIDE DEF more, n
    <3> QED
      BY <1>1, <2>1, Hashes
  <2>3. HashOf(Run, more, n + 1) = Append(HashOf(Run, es, n), Body(n, Run, e))
    BY <1>1, <1>2, <2>1, <2>2
  <2> QED
    BY <2>3 DEF Line
<1>4. l = Written(Run, more)[n + 1] /\ l \in Lines
  <2>1. n + 1 \in 1..Len(more) /\ (n + 1) - 1 = n /\ n \in 0..n
    BY <1>1
  <2>2. /\ Written(Run, more) \in Seq(Lines) /\ Len(Written(Run, more)) = Len(more)
        /\ Written(Run, more)[n + 1]
             = [form |-> "canonical", body |-> Body((n + 1) - 1, Run, more[n + 1]),
                previous |-> HashOf(Run, more, (n + 1) - 1), hash |-> HashOf(Run, more, n + 1)]
    <3> HIDE DEF more, n
    <3> QED
      BY <1>1, <2>1, WrittenLines
  <2>3. Written(Run, more)[n + 1] \in Lines
    <3> HIDE DEF more, n
    <3> QED
      BY <2>1, <2>2, ElementOfSeq
  <2>4. HashOf(Run, more, (n + 1) - 1) = HashOf(Run, es, n)
    BY <1>2, <2>1
  <2> HIDE DEF l, more, n
  <2> QED
    BY <1>1, <1>3, <2>1, <2>2, <2>3, <2>4
<1>5. Written(Run, more) = Written(Run, es) \o <<l>>
  <2> DEFINE w == Written(Run, es)
             v == Written(Run, more)
  <2>1. /\ w \in Seq(Lines) /\ Len(w) = n /\ v \in Seq(Lines) /\ Len(v) = n + 1
        /\ \A i \in 1..n : w[i] = [form |-> "canonical", body |-> Body(i - 1, Run, es[i]),
                                   previous |-> HashOf(Run, es, i - 1), hash |-> HashOf(Run, es, i)]
        /\ \A i \in 1..n + 1 : v[i] = [form |-> "canonical", body |-> Body(i - 1, Run, more[i]),
                                       previous |-> HashOf(Run, more, i - 1), hash |-> HashOf(Run, more, i)]
    <3> HIDE DEF more
    <3> QED
      BY <1>1, WrittenLines
  <2>2. \A i \in 1..n : v[i] = w[i]
    <3> TAKE i \in 1..n
    <3>1. i \in 0..n /\ i - 1 \in 0..n /\ i \in 1..n + 1
      BY <1>1
    <3>2. more[i] = es[i] /\ HashOf(Run, more, i) = HashOf(Run, es, i) /\ HashOf(Run, more, i - 1) = HashOf(Run, es, i - 1)
      BY <1>1, <1>2, <3>1
    <3> HIDE DEF more, n, w, v
    <3> QED
      BY <2>1, <3>1, <3>2
  <2>3. v = w \o <<l>>
    <3> HIDE DEF w, v, l, n
    <3>1. Append(w, l) \in Seq(Lines) /\ Len(Append(w, l)) = n + 1 /\ Append(w, l) = w \o <<l>>
          /\ Append(w, l)[n + 1] = l /\ \A i \in 1..n : Append(w, l)[i] = w[i]
      BY <1>4, <2>1, AppendProperties, AppendIsConcat
    <3>2. v[n + 1] = l
      BY <1>4 DEF v
    <3>3. \A i \in 1..n + 1 : v[i] = Append(w, l)[i]
      BY <1>1, <2>2, <3>1, <3>2
    <3> QED
      BY <2>1, <3>1, <3>3, SeqEqual
  <2> QED
    BY <2>3
<1>6. l.hash = HashOf(Run, more, n + 1)
  <2> HIDE DEF l, more, n
  <2> QED
    BY <1>3
<1> QED
  BY <1>4, <1>5, <1>6

LEMMA DamagedLines ==
  ASSUME NEW ls \in Seq(Lines)
  PROVE  Damaged(ls) \subseteq Seq(Lines)
<1>1. Len(ls) \in Nat /\ ls \in [1..Len(ls) -> Lines] /\ \A i \in 1..Len(ls) : ls[i] \in Lines
  BY LenProperties, ElementOfSeq
<1>2. \A a, b \in Int : 1 <= a /\ b <= Len(ls) => SubSeq(ls, a, b) \in Seq(Lines)
  <2> TAKE a, b \in Int
  <2> HAVE 1 <= a /\ b <= Len(ls)
  <2>1. \A i \in a..b : ls[i] \in Lines
    BY <1>1
  <2> QED
    BY <1>1, <2>1, SubSeqProperties
<1>3. \A i \in 1..Len(ls) : RemoveAt(ls, i) \in Seq(Lines)
  <2> TAKE i \in 1..Len(ls)
  <2>1. SubSeq(ls, 1, i - 1) \in Seq(Lines) /\ SubSeq(ls, i + 1, Len(ls)) \in Seq(Lines)
    BY <1>1, <1>2
  <2> QED
    BY <2>1, ConcatProperties DEF RemoveAt
<1>4. \A i \in 1..Len(ls) : InsertAt(ls, i, ls[i]) \in Seq(Lines)
  <2> TAKE i \in 1..Len(ls)
  <2>1. SubSeq(ls, 1, i - 1) \in Seq(Lines) /\ SubSeq(ls, i, Len(ls)) \in Seq(Lines) /\ <<ls[i]>> \in Seq(Lines)
    BY <1>1, <1>2
  <2>2. SubSeq(ls, 1, i - 1) \o <<ls[i]>> \in Seq(Lines)
    BY <2>1, ConcatProperties
  <2> QED
    BY <2>1, <2>2, ConcatProperties DEF InsertAt
<1>5. \A i, j \in 1..Len(ls) : [ls EXCEPT ![i] = ls[j], ![j] = ls[i]] \in Seq(Lines)
  BY <1>1, ExceptSeq
<1>6. \A i \in 1..Len(ls), e \in Events : [ls EXCEPT ![i] = Altered(ls[i], e)] \in Seq(Lines)
  <2> TAKE i \in 1..Len(ls), e \in Events
  <2>1. Altered(ls[i], e) \in Lines
    BY <1>1 DEF Altered, Lines, Bodies
  <2> QED
    BY <2>1, ExceptSeq
<1>7. \A i \in 1..Len(ls) : [ls EXCEPT ![i] = Garbled(ls[i])] \in Seq(Lines)
  <2> TAKE i \in 1..Len(ls)
  <2>1. Garbled(ls[i]) \in Lines
    BY <1>1 DEF Garbled, Lines
  <2> QED
    BY <2>1, ExceptSeq
<1>8. \A n \in 1..Len(ls) : OthersTrail(n) \in Seq(Lines)
  <2> TAKE n \in 1..Len(ls)
  <2>1. [i \in 1..n |-> Plain] \in Seq(Events \cup {Plain})
    BY IsASeq
  <2> QED
    BY <2>1, WrittenLines DEF OthersTrail
<1>9. \A n \in 0..Len(ls) : SubSeq(ls, 1, n) \in Seq(Lines)
  BY <1>1, <1>2
<1> QED
  <2> SUFFICES ASSUME NEW d \in Damaged(ls) PROVE d \in Seq(Lines)
    OBVIOUS
  <2>1. \/ \E n \in 0..Len(ls) : d = SubSeq(ls, 1, n)
        \/ \E i \in 1..Len(ls) : d = RemoveAt(ls, i)
        \/ \E i \in 1..Len(ls) : d = InsertAt(ls, i, ls[i])
        \/ \E i, j \in 1..Len(ls) : d = [ls EXCEPT ![i] = ls[j], ![j] = ls[i]]
        \/ \E i \in 1..Len(ls), e \in Events : d = [ls EXCEPT ![i] = Altered(ls[i], e)]
        \/ \E i \in 1..Len(ls) : d = [ls EXCEPT ![i] = Garbled(ls[i])]
        \/ \E n \in 1..Len(ls) : d = OthersTrail(n)
    BY DEF Damaged
  <2> QED
    BY <1>3, <1>4, <1>5, <1>6, <1>7, <1>8, <1>9, <2>1, Zenon

-----------------------------------------------------------------------------
\* What each part of the behaviour leaves alone

Captures == ReadHead \/ ReadStaged \/ ReadUnstaged \/ ReadUntracked \/ CaptureTask \/ CaptureFails
Saving   == SaveRecord \/ NotAttestable \/ AttestationRaises
Binds    == ListArtifacts \/ IdentifyTask \/ HashManifest \/ HashTaskTree \/ HashSubject \/ BuildStatement
Attests  == WriteStatement \/ WriteSidecar

\* Capturing is before the end of the trail, binding and attesting after the
\* record; only EndTrail, Killed and AppendEvents touch the trail.
LEMMA CapturesFrame ==
  ASSUME Captures
  PROVE  /\ UNCHANGED <<trailVars, worldVars, storedVars>>
         /\ phase \in Before /\ phase' \in Before /\ phase' # "run"
         /\ ReadHead \/ UNCHANGED quiet
         /\ ReadHead \/ phase # "run"
         /\ phase # "end" /\ (ReadHead => pending = None)
BY DEF Captures, ReadHead, ReadStaged, ReadUnstaged, ReadUntracked, Reads, CaptureTask, CaptureFails, Step,
   Before, Stages

LEMMA SavingFrame ==
  ASSUME Saving
  PROVE  /\ UNCHANGED <<trailVars, worldVars, statement, sidecar, note, quiet>>
         /\ phase \in {"save"} \cup (After \ {"attested"}) /\ phase' \in {"list", "ended"}
         /\ phase' = "list" => phase = "save" /\ SaveRecord
BY DEF Saving, SaveRecord, NotAttestable, AttestationRaises, Unattested, After, Tasked, Bound, Stated

LEMMA BindsFrame ==
  ASSUME Binds
  PROVE  /\ UNCHANGED <<trailVars, worldVars, storedVars, quiet>>
         /\ phase \in After \ {"sidecar", "attested"} /\ phase' \in After \ {"list", "sidecar", "attested"}
<1>1. CASE ListArtifacts \/ IdentifyTask \/ HashManifest \/ HashTaskTree
  BY <1>1 DEF ListArtifacts, IdentifyTask, HashManifest, HashTaskTree, Step, After, Tasked, Bound, Stated
<1>2. CASE HashSubject \/ BuildStatement
  BY <1>2 DEF HashSubject, BuildStatement, Step, After, Tasked, Bound, Stated
<1> QED
  BY <1>1, <1>2 DEF Binds

LEMMA AttestsFrame ==
  ASSUME Attests
  PROVE  /\ UNCHANGED <<trailVars, worldVars, results, row, note, quiet>>
         /\ phase \in {"statement", "sidecar"} /\ phase' \in {"sidecar", "attested"}
BY DEF Attests, WriteStatement, WriteSidecar, Step

LEMMA OthersFrame ==
  ASSUME Others
  PROVE  /\ quiet' = FALSE
         /\ UNCHANGED <<chain, pending, error, acked, row, phase, note>>
         /\ sidecar' \in {sidecar, None}
         /\ UNCHANGED file \/ DamageTrail
BY DEF Others, LateDamage, DamageTrail, ChangeExtra, ChangeTask, ChangeRepo, LoseStored, Changes, KeepTrail,
   worldVars, storedVars

LEMMA Cases ==
  ASSUME Next
  PROVE  \/ AppendEvents \/ Captures \/ EndTrail \/ Saving \/ Binds \/ Attests \/ Killed \/ Others
BY DEF Next, Runner, Captures, Saving, Binds, Attests

-----------------------------------------------------------------------------
\* Appending

LEMMA AppendFrame ==
  ASSUME IInv, AppendEvents
  PROVE  /\ UNCHANGED <<worldVars, storedVars, phase, note, quiet>>
         /\ phase \in {"run", "end"} /\ phase \in Before /\ chain.state # "done"
BY DEF IInv, ChainInv, AppendEvents, Before

\* The next line, and the trail with it.
LEMMA NextLine ==
  ASSUME StoredTypes, ChainInv, NEW e \in Events
  PROVE  LET l == Line(chain.count, Run, e, chain.final) IN
         /\ l \in Lines /\ l # None /\ Torn(l) \in Lines /\ Torn(l) # l
         /\ l.hash = HashOf(Run, Append(acked, e), Len(acked) + 1) /\ l.hash \in Seq(Bodies)
         /\ l.body.event = e
         /\ Written(Run, Append(acked, e)) = Written(Run, acked) \o <<l>>
<1> DEFINE l == Line(chain.count, Run, e, chain.final)
<1>1. l = Line(Len(acked), Run, e, HashOf(Run, acked, Len(acked))) /\ acked \in Seq(Events)
  BY DEF StoredTypes, ChainInv
<1>2. /\ Written(Run, Append(acked, e)) = Written(Run, acked) \o <<l>>
      /\ l \in Lines /\ l.hash = HashOf(Run, Append(acked, e), Len(acked) + 1)
  BY <1>1, WrittenGrows
<1>3. l # None
  BY LineIsSome
<1>4. l.form = "canonical" /\ l.body.event = e
  BY DEF Line, Body
<1>5. Torn(l) \in Lines /\ Torn(l).form = "torn" /\ l.hash \in Seq(Bodies)
  <2> HIDE DEF l
  <2> QED
    BY <1>2 DEF Torn, Lines
<1> HIDE DEF l
<1> QED
  BY <1>2, <1>3, <1>4, <1>5 DEF l

LEMMA WriteKeeps ==
  ASSUME StoredTypes, ChainInv, FileInv, NEW e \in Events, Write(e),
         phase \in {"run", "end"}, UNCHANGED <<phase, quiet, repo>>
  PROVE  StoredTypes' /\ ChainInv' /\ FileInv'
<1> DEFINE l == Line(chain.count, Run, e, chain.final)
           w == Written(Run, acked)
<1>1. l \in Lines /\ l # None /\ Torn(l) \in Lines
  BY NextLine
<1>2. pending = None /\ pending' = l /\ UNCHANGED <<chain, error, acked, phase, quiet, repo>>
      /\ chain.state = "open" /\ Fits(e) /\ e.size <= MaxBytes
  BY DEF Write, Appends
<1>3. PICK more \in {<<l>>, <<Torn(l)>>, <<>>} : file' = [file EXCEPT !.lines = @ \o more]
  BY DEF Write
<1> HIDE DEF l
<1>4. /\ file.lines \in Seq(Lines) /\ more \in Seq(Lines)
      /\ file.lines \o more \in Seq(Lines) /\ file.lines \o <<>> = file.lines
  <2>1. file.lines \in Seq(Lines)
    BY DEF StoredTypes
  <2>2. more \in Seq(Lines)
    <3>1. <<l>> \in Seq(Lines) /\ <<Torn(l)>> \in Seq(Lines) /\ <<>> \in Seq(Lines)
      BY <1>1
    <3> QED
      BY <1>3, <3>1
  <2> QED
    BY <2>1, <2>2, ConcatProperties, ConcatEmptySeq
<1>5. StoredTypes'
  BY <1>2, <1>3, <1>4 DEF StoredTypes
<1>6. ChainInv'
  BY <1>2 DEF ChainInv, l
<1>7. FileInv'
  <2> SUFFICES ASSUME quiet \/ chain.state # "done", ~error, phase # "ended"
               PROVE  /\ file'.kind = "regular"
                      /\ \/ file'.lines = w
                         \/ pending' # None /\ file'.lines \in {w \o <<l>>, w \o <<Torn(l)>>}
    BY <1>2 DEF FileInv
  <2>1. file.kind = "regular" /\ file.lines = w
    BY <1>2 DEF FileInv
  <2>2. file'.kind = file.kind /\ file'.lines = file.lines \o more
    BY <1>3 DEF StoredTypes
  <2> HIDE DEF w
  <2> QED
    BY <1>1, <1>2, <1>3, <1>4, <2>1, <2>2
<1> QED
  BY <1>5, <1>6, <1>7

LEMMA AcknowledgeKeeps ==
  ASSUME StoredTypes, ChainInv, FileInv, Acknowledge, chain.state # "done", UNCHANGED <<phase, quiet, repo>>
  PROVE  StoredTypes' /\ ChainInv' /\ FileInv'
<1>1. PICK e \in Events : Fits(e) /\ e.size <= MaxBytes /\ pending = Line(chain.count, Run, e, chain.final)
  BY DEF Acknowledge, ChainInv
<1> DEFINE more == Append(acked, e)
           w    == Written(Run, acked)
<1>2. /\ pending \in Lines /\ pending # None /\ Torn(pending) # pending /\ pending.hash \in Seq(Bodies)
      /\ pending.hash = HashOf(Run, more, Len(acked) + 1) /\ pending.body.event = e
      /\ Written(Run, more) = w \o <<pending>>
  BY <1>1, NextLine
<1>3. more \in Seq(Events) /\ Len(more) = Len(acked) + 1 /\ Len(acked) \in Nat /\ more[Len(acked) + 1] = e
      /\ \A i \in 1..Len(acked) : more[i] = acked[i]
  BY AppendProperties DEF StoredTypes
<1> HIDE DEF more
<1>4. /\ acked' = more /\ pending' = None /\ UNCHANGED <<file, error, phase, quiet, repo>>
      /\ chain'.final = pending.hash /\ chain'.count = chain.count + 1 /\ chain'.state = chain.state
      /\ Len(file.lines) > chain.count /\ Last(file.lines) = pending
      /\ chain' \in [state : {"new", "open", "closed", "done"}, final : Seq(Bodies), count : Nat]
  <2>1. /\ acked' = Append(acked, pending.body.event) /\ pending' = None
        /\ UNCHANGED <<file, error, phase, quiet, repo>>
        /\ chain' = [chain EXCEPT !.final = pending.hash, !.count = @ + 1]
        /\ Len(file.lines) > chain.count /\ Last(file.lines) = pending
    BY DEF Acknowledge
  <2>2. acked' = more
    BY <1>2, <2>1 DEF more
  <2>3. chain \in [state : {"new", "open", "closed", "done"}, final : Seq(Bodies), count : Nat]
    BY DEF StoredTypes
  <2>4. chain.count + 1 \in Nat
    BY <2>3
  <2> DEFINE h == pending.hash
  <2> HIDE DEF h
  <2>5. chain' = [chain EXCEPT !.final = h, !.count = @ + 1] /\ h \in Seq(Bodies)
    BY <1>2, <2>1 DEF h
  <2>6. /\ chain'.final = h /\ chain'.count = chain.count + 1 /\ chain'.state = chain.state
        /\ chain' \in [state : {"new", "open", "closed", "done"}, final : Seq(Bodies), count : Nat]
    BY <2>3, <2>4, <2>5
  <2> QED
    BY <2>1, <2>2, <2>6 DEF h
<1>5. StoredTypes'
  BY <1>3, <1>4 DEF StoredTypes
<1>6. ChainInv'
  <2>1. chain'.final = HashOf(Run, more, Len(more)) /\ chain'.count = Len(more)
    BY <1>2, <1>3, <1>4 DEF ChainInv
  <2>2. \A i \in 1..Len(more) : Fits(more[i]) /\ more[i].size <= MaxBytes
    BY <1>1, <1>3 DEF ChainInv
  <2>3. chain'.state # "new"
    BY <1>2, <1>4 DEF ChainInv
  <2> QED
    BY <1>4, <2>1, <2>2, <2>3 DEF ChainInv
<1>7. FileInv'
  <2> SUFFICES ASSUME quiet \/ chain.state # "done", ~error, phase # "ended"
               PROVE  /\ chain.state # "new" => file.kind = "regular"
                      /\ file.lines = Written(Run, more)
    BY <1>4 DEF FileInv
  <2>1. /\ chain.state # "new" => file.kind = "regular"
        /\ file.lines = w \/ file.lines \in {w \o <<pending>>, w \o <<Torn(pending)>>}
    BY DEF FileInv
  <2>2. w \in Seq(Lines) /\ Len(w) = Len(acked)
    BY EventSeq, WrittenLines DEF StoredTypes
  <2>3. file.lines # w
    BY <1>4, <2>2 DEF ChainInv
  <2>4. file.lines # w \o <<Torn(pending)>>
    <3>1. Torn(pending) \in Lines
      BY <1>2 DEF Torn, Lines
    <3>2. w \o <<Torn(pending)>> = Append(w, Torn(pending)) /\ Len(w) \in Nat
          /\ Len(Append(w, Torn(pending))) = Len(w) + 1 /\ Append(w, Torn(pending))[Len(w) + 1] = Torn(pending)
      BY <2>2, <3>1, AppendIsConcat, AppendProperties
    <3> QED
      BY <1>2, <1>4, <3>2 DEF Last
  <2> QED
    BY <1>2, <2>1, <2>3, <2>4
<1> QED
  BY <1>5, <1>6, <1>7

LEMMA AppendKeeps ==
  ASSUME IInv, AppendEvents
  PROVE  IInv'
<1>0. StoredTypes /\ ChainInv /\ FileInv /\ SavedInv /\ NoteShape /\ QuietInv
  BY DEF IInv
<1>1. /\ UNCHANGED <<extra, task, repo, results, row, statement, sidecar, phase, note, quiet>>
      /\ phase \in {"run", "end"} /\ phase \in Before /\ chain.state # "done"
  BY AppendFrame DEF worldVars, storedVars
<1>2. StoredTypes' /\ ChainInv' /\ FileInv'
  <2>1. CASE Create
    <3>1. /\ file' = [kind |-> "regular", lines |-> <<>>] /\ chain' = [chain EXCEPT !.state = "open"]
          /\ UNCHANGED <<pending, error, acked>> /\ chain.state = "new"
      BY <2>1 DEF Create
    <3>2. /\ chain' \in [state : {"new", "open", "closed", "done"}, final : Seq(Bodies), count : Nat]
          /\ chain'.state = "open" /\ chain'.final = chain.final /\ chain'.count = chain.count
      BY <1>0, <3>1 DEF StoredTypes
    <3>3. StoredTypes'
      BY <1>0, <1>1, <3>1, <3>2 DEF StoredTypes
    <3>4. ChainInv'
      BY <1>0, <1>1, <3>1, <3>2 DEF ChainInv
    <3>5. Written(Run, acked) = <<>>
      BY <1>0, <3>1, NothingWritten DEF ChainInv
    <3>6. FileInv'
      BY <3>1, <3>5 DEF FileInv
    <3> QED
      BY <3>3, <3>4, <3>6
  <2>2. CASE (\E e \in Events : Refuse(e)) \/ AppendFails
    <3>1. UNCHANGED <<file, acked, chain.final, chain.count>> /\ error' = TRUE
      BY <1>0, <2>2 DEF Refuse, AppendFails, StoredTypes
    <3> QED
      BY <1>0, <1>1, <2>2, <3>1 DEF Refuse, AppendFails, StoredTypes, ChainInv, FileInv, Before
  <2>3. CASE \E e \in Events : Write(e)
    BY <1>0, <1>1, <2>3, WriteKeeps
  <2>4. CASE Acknowledge
    BY <1>0, <1>1, <2>4, AcknowledgeKeeps
  <2> QED
    BY <2>1, <2>2, <2>3, <2>4 DEF AppendEvents, WriteTrail
<1>3. SavedInv' /\ NoteShape'
  BY <1>0, <1>1 DEF SavedInv, NoteShape
<1>4. QuietInv'
  BY <1>0, <1>1 DEF QuietInv, NoteInv, BoundInv, After, Tasked, Bound, Stated, Attestable, Files
<1> QED
  BY <1>2, <1>3, <1>4 DEF IInv

-----------------------------------------------------------------------------
\* The end of the trail, a kill, and everybody else

LEMMA EndKeeps ==
  ASSUME IInv, EndTrail
  PROVE  IInv'
<1>0. StoredTypes /\ ChainInv /\ FileInv /\ SavedInv /\ NoteShape /\ QuietInv
  BY DEF IInv
<1>1. /\ phase = "end" /\ phase' = "save" /\ UNCHANGED <<extra, task, repo, results, row, statement, sidecar, note, quiet>>
      /\ chain.state \in {"open", "closed"} /\ pending = None /\ chain' = [chain EXCEPT !.state = "done"]
      /\ error' \in {error, TRUE} /\ UNCHANGED <<file, pending, acked>>
  BY DEF EndTrail, Step, CloseTrail, worldVars, storedVars
<1>2. /\ chain' \in [state : {"new", "open", "closed", "done"}, final : Seq(Bodies), count : Nat]
      /\ chain'.state = "done" /\ chain'.final = chain.final /\ chain'.count = chain.count
  BY <1>0, <1>1 DEF StoredTypes
<1>3. StoredTypes'
  BY <1>0, <1>1, <1>2 DEF StoredTypes, Phases
<1>4. ChainInv'
  BY <1>0, <1>1, <1>2 DEF ChainInv, Before, Stages
<1>5. FileInv'
  <2>1. /\ ~error => /\ file.kind = "regular"
                     /\ file.lines = Written(Run, acked)
    BY <1>0, <1>1 DEF FileInv
  <2>2. ~error' => ~error
    BY <1>1
  <2> QED
    BY <1>1, <2>1, <2>2 DEF FileInv
<1>6. SavedInv' /\ NoteShape'
  BY <1>0, <1>1 DEF SavedInv, NoteShape, Before, Stages, Bound, Stated
<1>7. QuietInv'
  BY <1>0, <1>1 DEF QuietInv, NoteInv, BoundInv, After, Tasked, Bound, Stated
<1> QED
  BY <1>3, <1>4, <1>5, <1>6, <1>7 DEF IInv

LEMMA KilledKeeps ==
  ASSUME IInv, Killed
  PROVE  IInv'
<1>0. StoredTypes /\ ChainInv /\ FileInv /\ SavedInv /\ NoteShape /\ QuietInv
  BY DEF IInv
<1>1. /\ phase' = "ended" /\ UNCHANGED <<extra, task, repo, results, row, statement, sidecar, note, quiet>>
      /\ chain' = [chain EXCEPT !.state = "done"] /\ pending' = None /\ UNCHANGED <<file, error, acked>>
      /\ phase # "attested"
  BY DEF Killed, worldVars, storedVars
<1>2. /\ chain' \in [state : {"new", "open", "closed", "done"}, final : Seq(Bodies), count : Nat]
      /\ chain'.state = "done" /\ chain'.final = chain.final /\ chain'.count = chain.count
  BY <1>0, <1>1 DEF StoredTypes
<1>3. StoredTypes'
  BY <1>0, <1>1, <1>2 DEF StoredTypes, Phases
<1>4. ChainInv' /\ FileInv'
  BY <1>0, <1>1, <1>2 DEF ChainInv, FileInv, Before, Stages
<1>5. SavedInv' /\ NoteShape'
  BY <1>0, <1>1 DEF SavedInv, NoteShape, Before, Stages, Bound, Stated
<1>6. QuietInv'
  BY <1>0, <1>1 DEF QuietInv, NoteInv, BoundInv, After, Tasked, Bound, Stated
<1> QED
  BY <1>3, <1>4, <1>5, <1>6 DEF IInv

\* Whatever others change, nothing is claimed about it any more.
LEMMA OthersKeep ==
  ASSUME IInv, Others
  PROVE  IInv'
<1>0. StoredTypes /\ ChainInv /\ FileInv /\ SavedInv /\ NoteShape
  BY DEF IInv
<1>1. /\ quiet' = FALSE /\ UNCHANGED <<chain, pending, error, acked, row, phase, note>>
      /\ sidecar' \in {sidecar, None} /\ (UNCHANGED file \/ DamageTrail)
  BY OthersFrame
<1>2. repo' \in Repos
  <2>1. CASE ChangeRepo
    <3>1. repo \in [sha : {0, 1}, staged : {0, 1}, unstaged : {0, 1}, untracked : {0, 1}]
      BY <1>0 DEF StoredTypes, Repos
    <3>2. CASE repo' = [repo EXCEPT !.staged = 1, !.unstaged = 0] \/ repo' = [repo EXCEPT !.sha = 1, !.staged = 0]
      BY <3>1, <3>2 DEF Repos
    <3>3. CASE repo' = [repo EXCEPT !.sha = 1 - @]
      BY <3>1, <3>3 DEF Repos
    <3>4. CASE repo' = [repo EXCEPT !.unstaged = 1 - @] \/ repo' = [repo EXCEPT !.untracked = 1 - @]
      BY <3>1, <3>4 DEF Repos
    <3> QED
      BY <2>1, <3>2, <3>3, <3>4 DEF ChangeRepo
  <2>2. CASE LateDamage \/ ChangeExtra \/ ChangeTask \/ LoseStored
    BY <1>0, <2>2 DEF LateDamage, ChangeExtra, ChangeTask, LoseStored, worldVars, StoredTypes
  <2> QED
    BY <2>1, <2>2 DEF Others
<1>3. /\ file' \in [kind : {"missing", "regular", "link"}, lines : Seq(Lines)]
      /\ UNCHANGED file \/ chain.state = "done"
  <2>1. CASE DamageTrail
    <3>1. file.lines \in Seq(Lines) /\ <<>> \in Seq(Lines)
      BY <1>0 DEF StoredTypes
    <3>2. CASE \E ls \in Damaged(file.lines) \ {file.lines} : file' = [file EXCEPT !.lines = ls]
      <4>1. PICK ls \in Damaged(file.lines) : file' = [file EXCEPT !.lines = ls]
        BY <3>2
      <4>2. ls \in Seq(Lines) /\ chain.state = "done"
        BY <2>1, <3>1, DamagedLines DEF DamageTrail
      <4> QED
        BY <1>0, <4>1, <4>2 DEF StoredTypes
    <3>3. CASE \E kind \in {"missing", "link"} \ {file.kind} : file' = [kind |-> kind, lines |-> <<>>]
      BY <2>1, <3>1, <3>3 DEF DamageTrail
    <3> QED
      BY <2>1, <3>2, <3>3 DEF DamageTrail
  <2> QED
    BY <1>0, <1>1, <2>1 DEF StoredTypes
<1>4. StoredTypes'
  BY <1>0, <1>1, <1>2, <1>3 DEF StoredTypes
<1>5. ChainInv' /\ FileInv'
  BY <1>0, <1>1, <1>3 DEF ChainInv, FileInv
<1>6. SavedInv' /\ NoteShape' /\ QuietInv'
  BY <1>0, <1>1 DEF SavedInv, NoteShape, QuietInv
<1> QED
  BY <1>4, <1>5, <1>6 DEF IInv

-----------------------------------------------------------------------------
\* Capturing, saving, binding and attesting

\* As long as the files are the same, so is what is derived from them.
LEMMA TreeSame ==
  ASSUME UNCHANGED <<file, extra, results>>
  PROVE  UNCHANGED <<Files, Links, Attestable>> /\ \A n : UNCHANGED SubjectDigest(n)
BY DEF Tree, Files, Links, Attestable, SubjectDigest

LEMMA RecordSame ==
  ASSUME UNCHANGED <<chain, error, task, note.git, note.tree>>
  PROVE  UNCHANGED Record(FALSE)
BY DEF Record, GitState, Worktree

\* Steps that leave the trail alone.
LEMMA TrailSame ==
  ASSUME StoredTypes, ChainInv, FileInv, UNCHANGED <<trailVars, repo>>,
         phase' \in Phases, quiet' \in BOOLEAN, phase' \in Before => phase \in Before,
         phase # "ended", phase' \notin {"run", "end"} => pending = None,
         quiet' => quiet \/ phase \in Before
  PROVE  StoredTypes' /\ ChainInv' /\ FileInv'
<1>1. UNCHANGED <<file, chain, pending, error, acked, repo>>
  BY DEF trailVars
<1> QED
  BY <1>1 DEF StoredTypes, ChainInv, FileInv

LEMMA CapturesKeep ==
  ASSUME IInv, Captures
  PROVE  IInv'
<1>0. StoredTypes /\ ChainInv /\ FileInv /\ SavedInv /\ NoteShape /\ QuietInv
  BY DEF IInv
<1>1. /\ UNCHANGED <<trailVars, file, chain, pending, error, acked, extra, task, repo, results, row, statement, sidecar>>
      /\ phase \in Before /\ phase' \in Before /\ phase' # "run" /\ (ReadHead \/ UNCHANGED quiet)
      /\ pending = None
  BY <1>0, CapturesFrame DEF trailVars, worldVars, storedVars, ChainInv
<1>2. quiet' \in BOOLEAN /\ phase' \in Phases /\ phase # "ended"
  BY <1>0, <1>1 DEF ReadHead, StoredTypes, Phases, Before, Stages
<1>3. StoredTypes' /\ ChainInv' /\ FileInv'
  BY <1>0, <1>1, <1>2, TrailSame
<1>4. SavedInv'
  BY <1>0, <1>1 DEF SavedInv, Before, Stages
<1>5. NoteShape'
  <2> USE DEF NoteShape, Before, Stages, Bound, Stated
  <2>1. CASE ReadHead \/ CaptureTask \/ CaptureFails
    BY <1>0, <1>1, <2>1 DEF ReadHead, CaptureTask, CaptureFails, Noted, Step
  <2>2. CASE ReadStaged \/ ReadUnstaged \/ ReadUntracked
    <3>1. PICK g : note' = [note EXCEPT !.git = g]
      BY <2>2 DEF ReadStaged, ReadUnstaged, ReadUntracked, Reads
    <3>2. \A h : LET m == [note EXCEPT !.git = h] IN
            /\ m.tree = note.tree /\ m.subject = note.subject
            /\ m = [git |-> m.git, tree |-> m.tree, names |-> m.names, identity |-> m.identity,
                    manifest |-> m.manifest, taskTree |-> m.taskTree, subject |-> m.subject]
      BY <1>0
    <3>3. phase \in {"staged", "unstaged", "untracked"} /\ phase' \notin Bound \cup {"ended"}
      BY <2>2, <1>1 DEF ReadStaged, ReadUnstaged, ReadUntracked, Reads, Step
    <3>4. note'.tree = note.tree /\ note'.subject = note.subject
      BY <3>1, <3>2
    <3>5. note' = [git |-> note'.git, tree |-> note'.tree, names |-> note'.names, identity |-> note'.identity,
                   manifest |-> note'.manifest, taskTree |-> note'.taskTree, subject |-> note'.subject]
      BY <3>1, <3>2
    <3> QED
      BY <1>0, <3>3, <3>4, <3>5
  <2> QED
    BY <2>1, <2>2 DEF Captures
<1>6. QuietInv'
  <2> SUFFICES ASSUME quiet' PROVE NoteInv' /\ BoundInv'
    BY <1>1 DEF QuietInv
  <2> USE DEF After, Tasked, Bound, Stated, Before, Stages
  <2>1. BoundInv'
    BY <1>1 DEF BoundInv
  <2>2. CASE ReadHead
    <3>1. phase' = "staged" /\ note'.git = [sha |-> repo.sha, staged |-> 0, unstaged |-> 0, untracked |-> 0]
      BY <1>0, <2>2 DEF ReadHead, Step, Noted, NoteShape, NoGit
    <3> QED
      BY <1>1, <2>1, <3>1 DEF NoteInv
  <2>3. CASE ~ReadHead
    <3>1. NoteInv
      BY <1>0, <1>1, <2>3 DEF QuietInv
    <3>2. CASE ReadStaged
      <4>1. phase = "staged" /\ phase' = "unstaged" /\ note'.git = [note.git EXCEPT !.staged = repo.staged]
        BY <1>0, <3>2 DEF ReadStaged, Reads, Step, NoteShape
      <4>2. note'.git = [sha |-> repo.sha, staged |-> repo.staged, unstaged |-> 0, untracked |-> 0]
        BY <3>1, <4>1 DEF NoteInv
      <4> QED
        BY <1>1, <2>1, <4>1, <4>2 DEF NoteInv
    <3>3. CASE ReadUnstaged
      <4>1. phase = "unstaged" /\ phase' = "untracked" /\ note'.git = [note.git EXCEPT !.unstaged = repo.unstaged]
        BY <1>0, <3>3 DEF ReadUnstaged, Reads, Step, NoteShape
      <4>3. [repo EXCEPT !.untracked = 0]
              = [sha |-> repo.sha, staged |-> repo.staged, unstaged |-> repo.unstaged, untracked |-> 0]
        BY <1>0 DEF StoredTypes, Repos
      <4>4. note'.git = [repo EXCEPT !.untracked = 0]
        BY <3>1, <4>1, <4>3 DEF NoteInv
      <4> QED
        BY <1>1, <2>1, <4>1, <4>4 DEF NoteInv
    <3>4. CASE ReadUntracked
      <4>1. phase = "untracked" /\ phase' = "tree" /\ note'.git = [note.git EXCEPT !.untracked = repo.untracked]
        BY <1>0, <3>4 DEF ReadUntracked, Reads, Step, NoteShape
      <4>2. note'.git = repo
        BY <1>0, <3>1, <4>1 DEF NoteInv, StoredTypes, Repos
      <4> QED
        BY <1>1, <2>1, <4>1, <4>2 DEF NoteInv
    <3>5. CASE CaptureTask
      <4>1. phase = "tree" /\ phase' = "end" /\ note'.git = note.git /\ note'.tree = task
        BY <1>0, <3>5 DEF CaptureTask, Step, Noted, NoteShape, TreeDigest
      <4> QED
        BY <1>1, <2>1, <3>1, <4>1 DEF NoteInv
    <3>6. CASE CaptureFails
      <4>1. phase' = "end" /\ note.tree = None /\ note'.tree = note.tree
        BY <1>0, <3>6 DEF CaptureFails, Noted, NoteShape
      <4>2. note'.git = None \/ (phase = "tree" /\ note'.git = note.git)
        BY <1>0, <3>6 DEF CaptureFails, Noted, NoteShape
      <4> QED
        BY <1>1, <2>1, <3>1, <4>1, <4>2 DEF NoteInv
    <3> QED
      BY <2>3, <3>2, <3>3, <3>4, <3>5, <3>6 DEF Captures
  <2> QED
    BY <2>1, <2>2, <2>3
<1> QED
  BY <1>3, <1>4, <1>5, <1>6 DEF IInv

LEMMA SavingKeeps ==
  ASSUME IInv, Saving
  PROVE  IInv'
<1>0. StoredTypes /\ ChainInv /\ FileInv /\ SavedInv /\ NoteShape /\ QuietInv
  BY DEF IInv
<1>1. /\ UNCHANGED <<trailVars, file, chain, pending, error, acked, extra, task, repo, statement, sidecar, note, quiet>>
      /\ phase \in {"save"} \cup (After \ {"attested"}) /\ phase' \in {"list", "ended"}
      /\ phase' = "list" => phase = "save" /\ SaveRecord
      /\ pending = None
  BY <1>0, SavingFrame DEF trailVars, worldVars, ChainInv, After, Tasked, Bound, Stated
<1>2. quiet' \in BOOLEAN /\ phase' \in Phases /\ phase' \notin Before /\ phase # "ended"
  BY <1>0, <1>1 DEF StoredTypes, Phases, Before, Stages, After, Tasked, Bound, Stated
<1>3. StoredTypes' /\ ChainInv' /\ FileInv'
  BY <1>0, <1>1, <1>2, TrailSame
<1>4. SavedInv'
  <2>1. \/ row' = row \/ row' = Record(FALSE) \/ row' = Record(TRUE)
    BY DEF Saving, SaveRecord, NotAttestable, AttestationRaises, Unattested, Saves
  <2>2. \A b : Record(b).final = chain.final /\ Record(b).count = chain.count /\ Record(b).error = error
    BY DEF Record
  <2>3. sidecar = None \/ phase' = "ended"
    BY <1>0, <1>1 DEF SavedInv
  <2>4. row' # None => row'.final = chain.final /\ row'.count = chain.count /\ row'.error = error
    BY <1>0, <2>1, <2>2 DEF SavedInv
  <2> QED
    BY <1>1, <1>2, <2>3, <2>4 DEF SavedInv
<1>5. NoteShape'
  BY <1>0, <1>1 DEF NoteShape, Stages, After, Tasked, Bound, Stated
<1>6. QuietInv'
  <2> SUFFICES ASSUME quiet, phase' = "list" PROVE NoteInv' /\ BoundInv'
    BY <1>1 DEF QuietInv, NoteInv, BoundInv, After, Tasked, Bound, Stated, Stages
  <2>1. /\ phase = "save" /\ Links = {} /\ row' = Record(FALSE) /\ results' = Record(FALSE)
    BY <1>1 DEF SaveRecord, Saves
  <2>2. Record(FALSE)' = Record(FALSE)
    BY <1>1, RecordSame
  <2>3. results' # None
    <3>1. DOMAIN results' # DOMAIN None
      BY <2>1 DEF Record, None
    <3> QED
      BY <3>1
  <2>4. Links' = {}
    <3>1. \A n \in Names : Tree'[n] = IF n = Results THEN Holds(results') ELSE Tree[n]
      BY <1>1, <2>3 DEF Tree, Audit, Results
    <3>2. \A n \in Names : Tree[n].is # "link"
      BY <2>1 DEF Links
    <3> QED
      BY <3>1, <3>2 DEF Links, Holds
  <2>5. NoteInv'
    BY <1>0, <1>1, <2>1 DEF QuietInv, NoteInv, After, Tasked, Bound, Stated
  <2>6. BoundInv'
    BY <2>1, <2>2, <2>4 DEF BoundInv, Bound, Stated
  <2> QED
    BY <2>5, <2>6
<1> QED
  BY <1>3, <1>4, <1>5, <1>6 DEF IInv

LEMMA BindsKeep ==
  ASSUME IInv, Binds
  PROVE  IInv'
<1>0. StoredTypes /\ ChainInv /\ FileInv /\ SavedInv /\ NoteShape /\ QuietInv
  BY DEF IInv
<1>1. /\ UNCHANGED <<trailVars, file, chain, pending, error, acked, extra, task, repo, results, row, statement,
                     sidecar, quiet>>
      /\ phase \in After \ {"sidecar", "attested"} /\ phase' \in After \ {"list", "sidecar", "attested"}
      /\ pending = None
  BY <1>0, BindsFrame DEF trailVars, worldVars, storedVars, ChainInv, After, Tasked, Bound, Stated
<1> USE DEF After, Tasked, Bound, Stated
<1>2. phase' \in Phases /\ phase' \notin Before /\ phase # "ended" /\ quiet' \in BOOLEAN
  BY <1>0, <1>1 DEF Phases, Before, Stages, StoredTypes
<1>3. StoredTypes' /\ ChainInv' /\ FileInv'
  BY <1>0, <1>1, <1>2, TrailSame
<1>4. SavedInv'
  BY <1>0, <1>1 DEF SavedInv, Before, Stages
<1>5. UNCHANGED <<Files, Links, Attestable>> /\ \A n : UNCHANGED SubjectDigest(n)
  BY <1>1, TreeSame
\* What a step makes of the note.
<1>6. CASE ListArtifacts
  <2>1. /\ phase = "list" /\ phase' = "identity" /\ note.git # None /\ note' = [note EXCEPT !.names = Attestable]
    BY <1>6 DEF ListArtifacts, Step, Noted, Prerequisites
  <2>2. /\ note'.names = Attestable /\ note'.subject = note.subject
        /\ UNCHANGED <<note.git, note.tree, note.identity, note.manifest, note.taskTree>>
        /\ NoteShape'
    BY <1>0, <2>1 DEF NoteShape, Stages
  <2>3. Record(FALSE)' = Record(FALSE)
    BY <1>1, <2>2, RecordSame
  <2>4. QuietInv'
    BY <1>0, <1>1, <1>5, <2>1, <2>2, <2>3 DEF QuietInv, NoteInv, BoundInv
  <2> QED
    BY <1>3, <1>4, <2>2, <2>4 DEF IInv
<1>7. CASE IdentifyTask \/ HashManifest
  <2>1. \/ /\ phase = "identity" /\ phase' = "manifest" /\ note' = [note EXCEPT !.identity = task.id]
        \/ /\ phase = "manifest" /\ phase' = "taskTree" /\ note' = [note EXCEPT !.manifest = task.manifest]
    BY <1>7 DEF IdentifyTask, HashManifest, Step, Noted
  <2>2. /\ UNCHANGED <<note.git, note.tree, note.names, note.subject, note.taskTree>>
        /\ phase = "identity" => note'.identity = task.id
        /\ phase = "manifest" => note'.manifest = task.manifest /\ note'.identity = note.identity
        /\ NoteShape'
    BY <1>0, <2>1 DEF NoteShape, Stages
  <2>3. Record(FALSE)' = Record(FALSE)
    BY <1>1, <2>2, RecordSame
  <2>4. QuietInv'
    BY <1>0, <1>1, <1>5, <2>1, <2>2, <2>3 DEF QuietInv, NoteInv, BoundInv
  <2> QED
    BY <1>3, <1>4, <2>2, <2>4 DEF IInv
<1>8. CASE HashTaskTree
  <2>1. phase = "taskTree" /\ phase' = "subjects" /\ note' = [note EXCEPT !.taskTree = task]
    BY <1>8 DEF HashTaskTree, Step, Noted, TreeDigest
  <2>2. /\ UNCHANGED <<note.git, note.tree, note.names, note.subject, note.identity, note.manifest>>
        /\ note'.taskTree = task /\ NoteShape' /\ DOMAIN note.subject = {}
    BY <1>0, <2>1 DEF NoteShape, Stages
  <2>3. Record(FALSE)' = Record(FALSE)
    BY <1>1, <2>2, RecordSame
  <2>4. QuietInv'
    BY <1>0, <1>1, <1>5, <2>1, <2>2, <2>3 DEF QuietInv, NoteInv, BoundInv
  <2> QED
    BY <1>3, <1>4, <2>2, <2>4 DEF IInv
<1>9. CASE BuildStatement
  <2>1. phase = "subjects" /\ phase' = "statement" /\ note.names = DOMAIN note.subject /\ note' = note
    BY <1>9 DEF BuildStatement, Step
  <2>2. Record(FALSE)' = Record(FALSE)
    BY <1>1, <2>1, RecordSame
  <2>3. QuietInv' /\ NoteShape'
    BY <1>0, <1>1, <1>5, <2>1, <2>2 DEF QuietInv, NoteInv, BoundInv, NoteShape, Stages
  <2> QED
    BY <1>3, <1>4, <2>3 DEF IInv
<1>10. CASE HashSubject
  <2>1. PICK name :
          /\ phase = "subjects" /\ phase' = "subjects"
          /\ quiet => name \in note.names
          /\ note' = [note EXCEPT !.subject = [n \in DOMAIN @ \cup {name} |->
                                                 IF n = name THEN SubjectDigest(n) ELSE @[n]]]
    <3> DEFINE name == CHOOSE n \in note.names \ DOMAIN note.subject : TRUE
    <3>1. /\ phase = "subjects" /\ phase' = phase /\ note.names # DOMAIN note.subject
          /\ note' = [note EXCEPT !.subject = [n \in DOMAIN @ \cup {name} |->
                                                 IF n = name THEN SubjectDigest(n) ELSE @[n]]]
      BY <1>10 DEF HashSubject
    <3>2. quiet => name \in note.names
      <4>1. quiet => note.names \ DOMAIN note.subject # {}
        BY <1>0, <3>1 DEF QuietInv, BoundInv
      <4> QED
        BY <4>1
    <3> HIDE DEF name
    <3> QED
      BY <3>1, <3>2
  <2>2. /\ UNCHANGED <<note.git, note.tree, note.names, note.identity, note.manifest, note.taskTree>>
        /\ note'.subject = [n \in DOMAIN note.subject \cup {name} |->
                              IF n = name THEN SubjectDigest(n) ELSE note.subject[n]]
        /\ NoteShape'
    BY <1>0, <2>1 DEF NoteShape, Stages
  <2>3. Record(FALSE)' = Record(FALSE)
    BY <1>1, <2>2, RecordSame
  <2>4. \A n \in DOMAIN note'.subject : note'.subject[n] = IF n = name THEN SubjectDigest(n) ELSE note.subject[n]
    BY <2>2
  <2>5. DOMAIN note'.subject = DOMAIN note.subject \cup {name}
    BY <2>2
  <2>6. ASSUME quiet PROVE BoundInv'
    <3>1. /\ DOMAIN note.subject \subseteq note.names
          /\ \A n \in DOMAIN note.subject : note.subject[n] = SubjectDigest(n)
          /\ Links = {} /\ row = Record(FALSE) /\ results = Record(FALSE)
      BY <1>0, <2>1, <2>6 DEF QuietInv, BoundInv
    <3>2. /\ DOMAIN note'.subject \subseteq note'.names
          /\ \A n \in DOMAIN note'.subject : note'.subject[n] = SubjectDigest(n)'
      BY <1>5, <2>1, <2>2, <2>4, <2>5, <2>6, <3>1
    <3> QED
      BY <1>1, <1>5, <2>1, <2>3, <3>1, <3>2 DEF BoundInv
  <2>7. quiet => NoteInv'
    BY <1>0, <1>1, <1>5, <2>1, <2>2 DEF QuietInv, NoteInv
  <2>8. QuietInv'
    BY <1>1, <2>1, <2>6, <2>7 DEF QuietInv
  <2> QED
    BY <1>3, <1>4, <2>2, <2>8 DEF IInv
<1> QED
  BY <1>6, <1>7, <1>8, <1>9, <1>10 DEF Binds

LEMMA AttestsKeep ==
  ASSUME IInv, Attests
  PROVE  IInv'
<1>0. StoredTypes /\ ChainInv /\ FileInv /\ SavedInv /\ NoteShape /\ QuietInv
  BY DEF IInv
<1>1. /\ UNCHANGED <<trailVars, file, chain, pending, error, acked, extra, task, repo, results, row, note, quiet>>
      /\ phase \in {"statement", "sidecar"} /\ phase' \in {"sidecar", "attested"}
      /\ pending = None
  BY <1>0, AttestsFrame DEF trailVars, worldVars, ChainInv
<1> USE DEF After, Tasked, Bound, Stated
<1>2. phase' \in Phases /\ phase' \notin Before /\ phase # "ended" /\ quiet' \in BOOLEAN
  BY <1>0, <1>1 DEF Phases, Before, Stages, StoredTypes
<1>3. StoredTypes' /\ ChainInv' /\ FileInv'
  BY <1>0, <1>1, <1>2, TrailSame
<1>4. SavedInv' /\ NoteShape'
  BY <1>0, <1>1 DEF SavedInv, NoteShape, Before, Stages, Attests, WriteStatement, WriteSidecar, Step
<1>5. UNCHANGED <<Files, Links, Attestable>> /\ \A n : UNCHANGED SubjectDigest(n)
  BY <1>1, TreeSame
<1>6. Record(FALSE)' = Record(FALSE) /\ Statement' = Statement
  BY <1>1, RecordSame DEF Statement, GitState, Worktree
<1>7. NoteInv' \/ ~quiet
  BY <1>0, <1>1, <1>5 DEF QuietInv, NoteInv
<1>8. BoundInv' \/ ~quiet
  BY <1>0, <1>1, <1>5, <1>6 DEF QuietInv, BoundInv, Attests, WriteStatement, WriteSidecar, Step
<1> QED
  BY <1>1, <1>3, <1>4, <1>7, <1>8 DEF IInv, QuietInv

-----------------------------------------------------------------------------
\* The theorems

LEMMA Starts == Init => IInv
<1> SUFFICES ASSUME Init PROVE IInv
  OBVIOUS
<1> USE DEF Init, TrailInit
<1>1. StoredTypes
  <2>1. <<>> \in Seq(Lines) /\ <<>> \in Seq(Bodies) /\ <<>> \in Seq(Events)
    BY EmptySeq
  <2>2. repo \in Repos
    BY DEF NoGit, Repos
  <2> QED
    BY <2>1, <2>2 DEF StoredTypes, Phases, Before, Stages, Genesis
<1>2. ChainInv
  <2>1. Len(<<>>) = 0 /\ HashOf(Run, <<>>, 0) = <<>>
    BY EmptySeq, NoHash
  <2> QED
    BY <2>1 DEF ChainInv, Genesis, Before, Stages
<1>3. FileInv
  BY NothingWritten DEF FileInv
<1>4. SavedInv /\ QuietInv
  BY DEF SavedInv, QuietInv
<1>5. NoteShape
  <2>1. DOMAIN note.subject = {}
    BY DEF NoNote
  <2> QED
    BY <2>1 DEF NoteShape, NoNote
<1> QED
  BY <1>1, <1>2, <1>3, <1>4, <1>5 DEF IInv

LEMMA StepKeeps == IInv /\ [Next]_vars => IInv'
<1> SUFFICES ASSUME IInv, [Next]_vars PROVE IInv'
  OBVIOUS
<1>1. CASE Next
  BY <1>1, Cases, AppendKeeps, CapturesKeep, EndKeeps, SavingKeeps, BindsKeep, AttestsKeep, KilledKeeps, OthersKeep
<1>2. CASE UNCHANGED vars
  <2>1. UNCHANGED <<file, chain, pending, error, acked, extra, task, repo, results, row, statement, sidecar, phase,
                    note, quiet>>
    BY <1>2 DEF vars, trailVars, worldVars, storedVars
  <2>2. UNCHANGED <<Files, Links, Attestable>> /\ \A n : UNCHANGED SubjectDigest(n)
    BY <2>1, TreeSame
  <2>3. Record(FALSE)' = Record(FALSE) /\ Statement' = Statement
    BY <2>1, RecordSame DEF Statement, GitState, Worktree
  <2>4. StoredTypes' /\ ChainInv' /\ FileInv' /\ SavedInv' /\ NoteShape'
    BY <2>1 DEF IInv, StoredTypes, ChainInv, FileInv, SavedInv, NoteShape
  <2>5. QuietInv'
    BY <2>1, <2>2, <2>3 DEF IInv, QuietInv, NoteInv, BoundInv
  <2> QED
    BY <2>4, <2>5 DEF IInv
<1> QED
  BY <1>1, <1>2

\* The inductive invariant: what the writer was told is what the file holds
\* until somebody else comes in, and what was read is what is there.
THEOREM AttestationInvariance == Spec => []IInv
  BY Starts, StepKeeps, PTL DEF Spec

\* The trail that the recorded hash accepts is what append returned for, event
\* for event, whatever became of the file (audit.py, verify_audit_chain).
THEOREM AcceptedIsAcknowledged == Spec => []AcceptedTrailIsAcknowledged
<1>1. IInv => AcceptedTrailIsAcknowledged
  <2> SUFFICES ASSUME IInv, row # None, row.final # Genesis, ChainVerifies(file, row.final, Run)
               PROVE  file.lines = Written(Run, acked) /\ Len(file.lines) = row.count
    BY DEF AcceptedTrailIsAcknowledged
  <2>1. /\ file.lines \in Seq(Lines) /\ acked \in Seq(Events)
        /\ row.final = HashOf(Run, acked, Len(acked)) /\ row.count = Len(acked)
    BY DEF IInv, StoredTypes, ChainInv, SavedInv
  <2>2. acked # <<>>
    BY <2>1, NoHash, EmptySeq DEF Genesis
  <2>3. file.lines = Written(Run, acked)
    BY <2>1, <2>2, HashDeterminesTrail
  <2>4. Len(Written(Run, acked)) = Len(acked)
    BY <2>1, EventSeq, WrittenLines
  <2> QED
    BY <2>1, <2>3, <2>4
<1> QED
  BY <1>1, AttestationInvariance, PTL

\* A run that verifies has its whole trail, of a run in which nothing failed, and
\* the task and the harness are still those recorded (verification.py).
THEOREM VerifiedIsWhole == Spec => []VerifiedRunIsWhole
<1>1. IInv /\ AcceptedTrailIsAcknowledged => VerifiedRunIsWhole
  <2> SUFFICES ASSUME IInv, AcceptedTrailIsAcknowledged, RunVerifies
               PROVE  /\ acked # <<>> /\ file.lines = Written(Run, acked) /\ ~error
                      /\ row.git = GitState(repo) /\ row.tree = task
                      /\ phase \in {"attested", "ended"}
    BY DEF VerifiedRunIsWhole
  <2>1. /\ row # None /\ results = row /\ statement # None /\ sidecar = statement
        /\ ~row.error /\ row.final # Genesis /\ ChainVerifies(file, row.final, Run)
        /\ statement.git = row.git /\ statement.git = GitState(repo)
        /\ statement.task.tree = row.tree /\ statement.task.tree = task
    BY DEF RunVerifies, RunVerifiesBut, AttestationVerifiesBut, SidecarVerifies, StatementAgrees, AuditVerifies, HarnessVerifies,
       TaskVerifies, TreeDigest
  <2>2. file.lines = Written(Run, acked)
    BY <2>1 DEF AcceptedTrailIsAcknowledged
  <2>3. acked # <<>>
    <3>1. row.final = HashOf(Run, acked, Len(acked))
      BY <2>1 DEF IInv, ChainInv, SavedInv
    <3> QED
      BY <2>1, <3>1, NoHash, EmptySeq DEF Genesis
  <2>4. ~error /\ phase \in {"attested", "ended"}
    BY <2>1 DEF IInv, SavedInv
  <2> QED
    BY <2>1, <2>2, <2>3, <2>4
<1> QED
  BY <1>1, AttestationInvariance, AcceptedIsAcknowledged, PTL

\* What was bound is what is there.
LEMMA StatementHolds ==
  ASSUME IInv, phase = "attested", quiet
  PROVE  /\ statement = Statement /\ sidecar = statement /\ results = Record(FALSE) /\ row = results
         /\ DOMAIN statement.subject = Attestable /\ Links = {}
         /\ \A n \in Attestable : SubjectDigest(n) = statement.subject[n]
         /\ note.git = repo /\ note.identity = task.id /\ note.manifest = task.manifest /\ note.taskTree = task
         /\ note.tree \in {None, task}
<1>1. NoteInv /\ BoundInv
  BY DEF IInv, QuietInv
<1> USE DEF After, Tasked, Bound, Stated
<1>3. /\ statement = Statement /\ sidecar = Statement /\ results = Record(FALSE) /\ row = Record(FALSE) /\ Links = {}
      /\ DOMAIN note.subject = note.names /\ \A n \in DOMAIN note.subject : note.subject[n] = SubjectDigest(n)
  BY <1>1 DEF BoundInv
<1>4. /\ note.git = repo /\ note.names = Attestable /\ note.identity = task.id /\ note.manifest = task.manifest
      /\ note.taskTree = task /\ note.tree \in {None, task}
  BY <1>1 DEF NoteInv
<1>5. statement.subject = note.subject
  BY <1>3 DEF Statement
<1> QED
  BY <1>3, <1>4, <1>5

LEMMA TrailHolds ==
  ASSUME IInv, phase = "attested", quiet, ~error, acked # <<>>
  PROVE  /\ Audit \in Files /\ ChainVerifies(file, chain.final, Run)
         /\ Len(file.lines) = chain.count /\ chain.final # Genesis
<1>1. /\ acked \in Seq(Events) /\ chain.final = HashOf(Run, acked, Len(acked)) /\ chain.count = Len(acked)
      /\ \A i \in 1..Len(acked) : Fits(acked[i]) /\ acked[i].size <= MaxBytes
      /\ file.kind = "regular" /\ file.lines = Written(Run, acked)
  BY DEF IInv, StoredTypes, ChainInv, FileInv
<1>2. ChainVerifies(file, chain.final, Run)
  BY <1>1, WrittenVerifies DEF Opens
<1>3. Audit \in Files
  <2>1. Audit \in Names
    BY DEF Names
  <2>2. Tree[Audit] = Holds(file.lines)
    BY <1>1, <2>1 DEF Tree, Audit, Results
  <2> QED
    BY <2>1, <2>2 DEF Files, Holds
<1>4. Len(file.lines) = chain.count
  BY <1>1, EventSeq, WrittenLines
<1>5. chain.final # Genesis
  <2>1. Len(acked) \in Nat \ {0}
    BY <1>1, EmptySeq
  <2>2. Len(HashOf(Run, acked, Len(acked))) = Len(acked)
    BY <1>1, <2>1, EventSeq, Hashes
  <2> QED
    BY <1>1, <2>1, <2>2, EmptySeq DEF Genesis
<1> QED
  BY <1>2, <1>3, <1>4, <1>5

\* A run that was attested passes every check as long as nobody touches anything,
\* but for the files that have the name of a statement and are none (runner.py
\* _attestable_artifacts, verification.py verify_run).
THEOREM AttestedVerifies == Spec => []AttestedButNested
<1>1. IInv => AttestedButNested
  <2> SUFFICES ASSUME IInv, phase = "attested", quiet, ~error, acked # <<>>, note.tree # None
               PROVE  RunVerifiesBut(Files \cap Nested)
    BY DEF AttestedButNested
  <2>1. /\ statement = Statement /\ sidecar = statement /\ results = Record(FALSE) /\ row = results
        /\ DOMAIN statement.subject = Attestable /\ Links = {}
        /\ \A n \in Attestable : SubjectDigest(n) = statement.subject[n]
        /\ note.git = repo /\ note.identity = task.id /\ note.manifest = task.manifest /\ note.taskTree = task
        /\ note.tree = task
    BY StatementHolds
  <2>2. /\ Audit \in Files /\ ChainVerifies(file, chain.final, Run)
        /\ Len(file.lines) = chain.count /\ chain.final # Genesis
    BY TrailHolds
  <2>3. /\ statement.shape = "v1" /\ statement.git = GitState(repo) /\ statement.outcome = Record(FALSE).outcome
        /\ statement.task = [id |-> task.id, manifest |-> task.manifest, tree |-> task]
    BY <2>1 DEF Statement
  <2>4. /\ results.final = chain.final /\ results.count = chain.count /\ results.error = error
        /\ results.task = task.id /\ results.tree = task /\ results.unattested = FALSE
        /\ results.git = IF repo = None THEN None ELSE GitState(repo)
        /\ results.outcome = Record(FALSE).outcome
    BY <2>1 DEF Record
  <2>5. repo # None
    <3>1. repo \in Repos
      BY DEF IInv, StoredTypes
    <3>2. DOMAIN repo # DOMAIN None
      BY <3>1 DEF Repos, None
    <3> QED
      BY <3>2
  <2>6. results # None /\ statement # None
    <3>1. DOMAIN results # DOMAIN None
      BY <2>1 DEF Record, None
    <3>2. DOMAIN statement # DOMAIN None
      BY <2>1 DEF Statement, None
    <3> QED
      BY <3>1, <3>2
  <2>7. AttestationVerifiesBut(Files \cap Nested)
    <3>1. SidecarVerifies /\ IsStatement /\ SubjectsVerify /\ Uncovered = Files \cap Nested
      BY <2>1, <2>3 DEF SidecarVerifies, IsStatement, SubjectsVerify, Uncovered, Attestable
    <3>2. TaskVerifies
      BY <2>3 DEF TaskVerifies, TreeDigest
    <3>3. HarnessVerifies
      <4>1. ConsistentGit(GitState(repo))
        BY DEF ConsistentGit, GitState
      <4> QED
        BY <2>3, <4>1 DEF HarnessVerifies
    <3> QED
      BY <2>1, <3>1, <3>2, <3>3 DEF AttestationVerifiesBut
  <2>8. StatementAgrees(results)
    BY <2>3, <2>4, <2>5 DEF StatementAgrees
  <2>9. AuditVerifies(results)
    <3>1. Audit \in DOMAIN statement.subject
      BY <2>1, <2>2, AttestationAssumption DEF Attestable, Audit
    <3> QED
      BY <2>2, <2>4, <3>1 DEF AuditVerifies
  <2> QED
    BY <2>1, <2>4, <2>6, <2>7, <2>8, <2>9 DEF RunVerifiesBut
<1> QED
  BY <1>1, AttestationInvariance, PTL
=============================================================================
