---------------------------- MODULE MCSeedSuite ----------------------------
(***************************************************************************)
(* Lesson 19 for TLC: its training suite, or the evaluation of a           *)
(* checkpoint, which by SeedsAreSaved has a residual of every seed; each   *)
(* job has a directory and workers of its own.                             *)
(***************************************************************************)
EXTENDS SeedSuite, SeedEval

VARIABLE job

suiteAll == <<job, seedVars, seedEvalVars>>

MCInit ==
    /\ SeedInit /\ SeedEvalInit
    /\ job = "eval" \/ (job = "train" /\ film = "off")

MCNext ==
    \/ job = "train" /\ SeedNext /\ UNCHANGED <<job, seedEvalVars>>
    \/ job = "eval" /\ SeedEvalNext /\ UNCHANGED <<job, seedVars>>

MCSpec == MCInit /\ [][MCNext]_suiteAll
=============================================================================
