---- MODULE MCWorkbench ----
(* One experiment in a world and one without, one key, two reviewers.     *)
EXTENDS Workbench, TLC
Reviewers == Permutations(Reviewer)
====
