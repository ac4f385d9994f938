----------------------------- MODULE MCAdmission -----------------------------
(* Admission on one registered task in two states of its directory, one of *)
(* them approved, two platforms with an approved image each, and documents *)
(* that differ from a good one in one respect.                             *)
EXTENDS Admission

MCManifests ==
  [c \in {1, 2} |->
     [task |-> "t", isolated |-> TRUE, network |-> IF c = 1 THEN "proxy" ELSE "none",
      domains |-> {"registry"}, proxy |-> "p", judge |-> [backend |-> "claude", model |-> "j"],
      agentSeconds |-> 3, evalSeconds |-> 2, maxUsage |-> None]]

Image(d, on) == [digest |-> d, ref |-> <<"t", d>>, platform |-> on]
Good ==
  [schema |-> "v2",
   rules |-> [tasks |-> {"t"}, networks |-> {"none", "proxy"},
              domains |-> {"registry", "claude-code"}, proxies |-> {"p"}, scanners |-> {1},
              classes |-> {"internal"}, scansRequired |-> TRUE, judgeRequired |-> FALSE,
              brokerRequired |-> TRUE, maxTrials |-> 2, maxAgentSeconds |-> 3,
              maxEvalSeconds |-> 3, maxUsage |-> 3],
   tasks |-> {[task |-> "t", tree |-> 1, status |-> "approved", images |-> {Image(1, "amd64"), Image(2, "arm64")},
               specs |-> [manifest : {1}, tree : {1}, scans : {TRUE}, judge : BOOLEAN]]},
   models |-> {[adapter |-> "claude-code", model |-> "m", status |-> "approved",
                classes |-> {"internal"}, maxUsage |-> 2],
               [adapter |-> "claude-code", model |-> "n", status |-> "approved",
                classes |-> {"internal"}, maxUsage |-> 2],
               [adapter |-> "judge:claude", model |-> "j", status |-> "approved",
                classes |-> {"internal"}, maxUsage |-> None]}]

MCBundles ==
  {Good, [Good EXCEPT !.schema = "v1"],
   [Good EXCEPT !.rules.maxAgentSeconds = 2], [Good EXCEPT !.rules.maxUsage = 1],
   [Good EXCEPT !.tasks = {[e EXCEPT !.status = "revoked"] : e \in @}],
   [Good EXCEPT !.tasks = {[e EXCEPT !.images = {Image(1, "amd64")}] : e \in @}],
   [Good EXCEPT !.tasks = {[e EXCEPT !.images = @ \cup {Image(3, "amd64")}] : e \in @}],
   [Good EXCEPT !.models = {m \in @ : m.adapter = "claude-code"}]}

MCRequests ==
  {[schema |-> s, task |-> "t", agent |-> "claude-code", model |-> "m", class |-> "internal",
    maxUsage |-> u] : s \in {"v1"}, u \in {None, 1}}

MCCommands ==
  [agent : {"claude-code"}, model : {None}, trials : {2}, scan : {TRUE}, judge : BOOLEAN,
   broker : {TRUE}]
  \cup {[agent |-> "claude-code", model |-> "n", trials |-> 1, scan |-> TRUE,
         judge |-> TRUE, broker |-> TRUE],
        [agent |-> "codex", model |-> None, trials |-> 3, scan |-> FALSE, judge |-> TRUE,
         broker |-> FALSE],
        [agent |-> "plugin", model |-> None, trials |-> 1, scan |-> TRUE, judge |-> FALSE,
         broker |-> TRUE]}
=============================================================================
