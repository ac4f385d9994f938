---------------------------- MODULE MCAuthority ----------------------------
(***************************************************************************)
(* Authority on a small instance: a study of two trials that may have one  *)
(* correction of one request, two more executions, one operator, a cheap   *)
(* recipe and one too dear for the assisted budget, one upgrade.           *)
(***************************************************************************)
EXTENDS Authority, TLC

CONSTANTS x1, x2, o1, cheap, dear

MCOther == {x1, x2}
MCOperator == {o1}
MCRecipe == {cheap, dear}
MCRequests == (cheap :> 1) @@ (dear :> 2)
MCMaxRepairs == (cheap :> 1) @@ (dear :> 2)
Others == Permutations(MCOther)
=============================================================================
