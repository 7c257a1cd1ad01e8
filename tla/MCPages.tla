------------------------------- MODULE MCPages -------------------------------
(***************************************************************************)
(* A page, for TLC: the one that watches a run while its job goes on       *)
(* (`card' is "run"), or the cards of a task's page.                       *)
(***************************************************************************)
EXTENDS RunView, TaskPage, TLC

CkptSymmetry == Permutations(Ckpts)

VARIABLE card

MCInit ==
    /\ ViewInit /\ PageInit
    /\ card \in {"run", "task"} /\ (card = "run" => runs = 0)

MCNext ==
    \/ card = "run" /\ ViewNext /\ UNCHANGED <<card, pageVars>>
    \/ card = "task" /\ PageNext /\ UNCHANGED <<card, vars, viewVars>>

MCSpec == MCInit /\ [][MCNext]_<<card, vars, viewVars, pageVars>>
=============================================================================
