------------------------------ MODULE Scanners ------------------------------
(***************************************************************************)
(* The scan phase (evaluators/scanners.py): four tools look at a workspace *)
(* in a pool, each with materials that others may replace at any time: its *)
(* executable, the prepared environment, the vulnerability database, the   *)
(* bundled rules and policies.  The phase hashes them before and after,    *)
(* and only evidence whose materials stayed those that were admitted may   *)
(* be promoted.  Phases is every summary the phase can leave, over what    *)
(* may change when, what the workspace holds and how a tool may end.       *)
(***************************************************************************)
EXTENDS Naturals

CONSTANT None

Tool   == {"ruff", "semgrep", "gitleaks", "trivy"}
Locked == {"ruff", "semgrep"}        \* run from the prepared environment
Own    == {"gitleaks", "trivy"}      \* executables of the host

Material == {"uv", "environment", "gitleaks", "trivy", "database", "ignore", "bundle"}

\* What decides what t finds.
Uses(t) == {"bundle"} \cup IF t \in Locked THEN {"uv", "environment"}
           ELSE {t, "ignore"} \cup IF t = "trivy" THEN {"database"} ELSE {}

\* The moments of the phase, as t goes through them.
Begins == 1
Before == 2
Runs   == 3
After  == 4
Ends   == 5

\* One material may be replaced, once, at a moment that lies differently for
\* each tool of the pool; its successor reports the version wanted, or another.
Never == Ends + 1
Users(m) == {t \in Tool : m \in Uses(t)}
Change ==
    {c \in [material : Material, cut : [Tool -> Begins .. Never], version : BOOLEAN] :
       /\ \A t, u \in Users(c.material) : c.cut[t] \in {Begins, Never} => c.cut[u] = c.cut[t]
       /\ \A t \in Tool \ Users(c.material) : c.cut[t] = Never
       /\ c.version => c.material \in Own \cup {"environment"}}
NoChange == [material |-> "bundle", cut |-> [t \in Tool |-> Never], version |-> FALSE]

\* What a reader of m sees at a moment of t: TRUE for what was admitted.
Admitted(c, t, m, moment) == m = c.material => moment < c.cut[t]

\* Read before and after: the value if it stayed the same, or None.
\* Mutant of Stable: it is read before only.
StableUnread(c, t, m, from, to) == Admitted(c, t, m, from)
Stable(c, t, m, from, to) ==
    IF Admitted(c, t, m, from) = Admitted(c, t, m, to) THEN Admitted(c, t, m, from) ELSE None

\* A tool's version, as its executable or its environment has it at a moment.
Version(c, t, moment) ==
    c.material \in (IF t \in Locked THEN {"environment"} ELSE {t}) =>
        moment < c.cut[t] \/ c.version

\* The empty ignore policy has one digest that is accepted; the invocation
\* policy of the bundle must be that of the release.
IgnorePolicy(c, t, moment) == Admitted(c, t, "ignore", moment)
InvocationPolicy(c, t) == Admitted(c, t, "bundle", Before)

-----------------------------------------------------------------------------
\* The workspace: what it may hold.  python: sources by name; disguised: Python
\* without a suffix that says so; control: a name that a tool obeys or skips;
\* collision: the name such a one is given; special: not a regular file;
\* oversized: too large to be classified.

Entry == {"python", "disguised", "text", "control", "collision", "special", "oversized"}

LooksLikePython(e) == e \in {"python", "disguised"}

\* The inventory of sources, None if it cannot be taken.
Targets(w) ==
    IF w \cap {"special", "oversized"} # {} THEN None ELSE {e \in w : LooksLikePython(e)}

\* The private copy for a tool of the host, and what of it the tool looks at.
Staged(w) == IF w \cap {"special", "collision"} # {} THEN None ELSE w

Input(t, w) == IF t \in Locked THEN Targets(w) ELSE Staged(w)
Whole(t, w) == IF t \in Locked THEN {e \in w : e \in {"python", "disguised"}} ELSE w

-----------------------------------------------------------------------------
\* One tool.  Its process ends by itself, or at its time or output limit; its
\* report is whole, is not one, leaves files or rules out, or is too long to keep.

Ending == {"whole", "missing", "timeout", "truncated", "failed", "malformed", "partial", "long"}

\* _execute_bounded, and the exit code.
Executed(ending) ==
    CASE ending \in {"timeout", "truncated"} -> ending
      [] ending = "failed" -> "error"
      [] OTHER -> "ok"

\* A report that says what was looked at, with nothing left out; only semgrep's does.
Acceptable(t, ending) ==
    ending # "malformed" /\ (t = "semgrep" => ending # "partial")

\* Findings are kept whole: each with its place, its line, and no secret in it.
Retained(ending) == ending # "long"

Reported(t, ending) ==
    IF Executed(ending) # "ok" THEN Executed(ending)
    ELSE IF ~Acceptable(t, ending) THEN "error"
    ELSE IF ~Retained(ending) THEN "truncated" ELSE "ok"

Result(status, version, executable, database, found) ==
    [status |-> status, version |-> version, executable |-> executable,
     database |-> database, found |-> found]

\* semgrep, and ruff, which looks at a Python project only: a version, a policy and
\* sources; the phase hashes the rest.
SemgrepResult(c, t, w, ending, found) ==
    LET version == IF ending = "missing" THEN None ELSE Version(c, t, Before)
        ready == version = TRUE /\ InvocationPolicy(c, t) /\ Input(t, w) # None
        status == IF ready THEN Reported(t, ending) ELSE "error"
    IN  Result(status, version, None, None, IF status = "ok" THEN found ELSE None)

RuffResult(c, w, ending, found, language) ==
    LET result == SemgrepResult(c, "ruff", w, ending, found)
    IN  IF language = "python" THEN result
        ELSE [result EXCEPT !.status = "not_applicable", !.found = None]

\* gitleaks: between two looks at the executable and at the policy.
GitleaksResult(c, w, ending, found) ==
    LET t == "gitleaks"
        same == /\ Stable(c, t, t, Before, After) # None
                /\ IgnorePolicy(c, t, After) /\ Version(c, t, Before)
        status == IF same /\ Input(t, w) # None THEN Reported(t, ending) ELSE "error"
    IN  IF ending = "missing" THEN Result("unavailable", None, None, None, None)
        ELSE IF ~(IgnorePolicy(c, t, Before) /\ InvocationPolicy(c, t))
        THEN Result("error", None, None, None, None)
        ELSE Result(status, Version(c, t, Before), Stable(c, t, t, Before, After), None,
                    IF status = "ok" THEN found ELSE None)

\* trivy: and at its database.
Database(c, moment) == Admitted(c, "trivy", "database", moment)

TrivyResult(c, w, ending, found) ==
    LET t == "trivy"
        same == /\ Stable(c, t, t, Before, After) # None
                /\ IgnorePolicy(c, t, After) /\ Version(c, t, After)
                /\ Database(c, Before) = Database(c, After)
        status == IF same /\ Input(t, w) # None THEN Reported(t, ending) ELSE "error"
    IN  IF ending = "missing" THEN Result("unavailable", None, None, None, None)
        ELSE IF ~(IgnorePolicy(c, t, Before) /\ InvocationPolicy(c, t) /\ Version(c, t, Before))
        THEN Result("error", Version(c, t, Before), None, None, None)
        ELSE Result(status, Version(c, t, After), Stable(c, t, t, Before, After),
                    Database(c, After),
                    IF status = "ok" THEN found ELSE None)

ToolResult(c, t, w, ending, found, language) ==
    CASE t = "ruff" -> RuffResult(c, w, ending, found, language)
      [] t = "semgrep" -> SemgrepResult(c, t, w, ending, found)
      [] t = "gitleaks" -> GitleaksResult(c, w, ending, found)
      [] t = "trivy" -> TrivyResult(c, w, ending, found)

-----------------------------------------------------------------------------
\* The phase: the results by tool, whatever the order in which they came.

\* What the phase itself hashes at both ends: the same for every tool.
AroundPhase(c, m) == Stable(c, "semgrep", m, Begins, Ends)

Blockers(c, results) ==
    {m \in {"uv", "environment"} : AroundPhase(c, m) = None}
    \cup {t \in Tool : \/ results[t].status \notin IF t = "ruff" THEN {"ok", "not_applicable"}
                                                  ELSE {"ok"}
                       \/ results[t].version # TRUE
                       \/ t \in Own /\ results[t].executable = None}
    \cup (IF results["trivy"].database = None THEN {"database"} ELSE {})

\* scanner_assurance_identity: the materials, the bundle as it is in the end.
IsAdmitted(c, results) ==
    /\ AroundPhase(c, "uv") = TRUE /\ AroundPhase(c, "environment") = TRUE
    /\ Admitted(c, "semgrep", "bundle", Ends)
    /\ \A t \in Own : results[t].executable = TRUE
    /\ results["trivy"].database = TRUE

Assured(c, results) == Blockers(c, results) = {} /\ IsAdmitted(c, results)

\* The gates of a strict task, and the screen before a model sees the diff.
Clean(results, language) ==
    \A t \in Tool :
        \/ t = "ruff" /\ language # "python"
        \/ results[t].status = "ok" /\ results[t].found = FALSE
Screened(results) == results["gitleaks"].status = "ok" /\ results["gitleaks"].found = FALSE

\* History: every tool that applies ran to its end, on all that it is for, with
\* what was admitted, and said what it found.
Sound(c, w, endings, language) ==
    \A t \in Tool \ (IF language = "python" THEN {} ELSE {"ruff"}) :
        /\ \A m \in Uses(t) : Admitted(c, t, m, Runs)
        /\ endings[t] \in {"whole"} \cup IF t = "semgrep" THEN {} ELSE {"partial"}
        /\ Input(t, w) = Whole(t, w)

Phase(c, w, odd, ending, finds, language) ==
    LET endings == [t \in Tool |-> IF t = odd THEN ending ELSE "whole"]
        results == [t \in Tool |->
                      ToolResult(c, t, w, endings[t], finds = t, language)]
    IN  [assured |-> Assured(c, results), clean |-> Clean(results, language),
         screened |-> Screened(results), sound |-> Sound(c, w, endings, language)]

\* Bounds: one material changes, or the workspace has one entry of another kind
\* than sources; one tool ends badly, and one tool finds something.
Phases ==
    {Phase(c, {"python"}, odd, ending, finds, "python") :
       c \in Change, odd \in Tool, ending \in Ending, finds \in {None, "gitleaks"}}
    \cup
    {Phase(NoChange, {"python", e}, odd, ending, finds, language) :
       e \in Entry, odd \in Tool, ending \in Ending, finds \in Tool \cup {None},
       language \in {"python", "other"}}
=============================================================================
