----------------------------- MODULE SeedSuite -----------------------------
(***************************************************************************)
(* Lesson 19's training suite (lab/tasks/task_nfv4.py, train): one residual *)
(* RL worker per seed, all at once; the parent adds a median row for every *)
(* evaluation that all of the seeds have made, and one checkpoint of all.  *)
(***************************************************************************)
EXTENDS Workers

CONSTANT Every   \* a worker evaluates each so many steps
ASSUME SeedAssumption == Every \in Nat \ {0} /\ Quiet = {}

VARIABLES
    saved,  \* saved[p]: the step of p's residual in the suite's checkpoint
    label   \* that checkpoint's label, or "none"

suiteVars == <<saved, label>>
seedVars == <<workerVars, stopFile, told, parentPc, parentVars, asked, suiteVars>>

SeedInit ==
    /\ WorkersInit
    /\ saved = [p \in {} |-> 0]
    /\ label = "none"

-----------------------------------------------------------------------------
(***************************************************************************)
(* nfv.rl.worker: the base's evaluation; then rounds, before each of which *)
(* it looks for STOP, with evaluations whose best weights are saved; then  *)
(* the final evaluation, wherever it was stopped, and the final weights.   *)
(* Of its rows only those of evaluations are kept here.                    *)
(***************************************************************************)
Evaluates(k) == k % Every = 0 /\ k < TrainSteps

Round(p) == Train(p, IF Evaluates(trained[p] + 1) THEN "row" ELSE "check")

EvalRow(p) ==
    \/ trained[p] > 0 /\ RowEnds(p, "row", "best")
    \/ (trained[p] = 0 \/ p \in DOMAIN model) /\ RowEnds(p, "row", "check")

SaveBest(p) == SaveModel(p, "best", "check")

CheckStop(p) ==
    /\ Moves(p, "check", IF p \in stopFile \/ trained[p] = TrainSteps THEN "lastrow" ELSE "run")
    /\ UNCHANGED <<trained, log, model, result, grace>>

FinalRow(p) == RowEnds(p, "lastrow", "save")

SaveResidual(p) == SaveModel(p, "save", "result")

WorkerStep(p) ==
    \/ Round(p) \/ EvalRow(p) \/ SaveBest(p) \/ CheckStop(p)
    \/ FinalRow(p) \/ SaveResidual(p) \/ SaveResult(p)

-----------------------------------------------------------------------------
(***************************************************************************)
(* The suite.                                                              *)
(***************************************************************************)
Unspawned == {p \in Procs : worker[p] = "none"}

Spawn ==
    /\ parentPc = "spawn"
    /\ worker' = [worker EXCEPT ![First(Unspawned)] = "row"]
    /\ waiting' = waiting \cup {First(Unspawned)}
    /\ parentPc' = IF Cardinality(Unspawned) = 1 THEN "wait" ELSE "spawn"
    /\ UNCHANGED <<trained, log, model, result, grace, stopFile, told, asked, todo,
                   stopped, state, merged, off, suiteVars>>

\* A Popen that raises leaves the workers before it running.
Raise ==
    /\ parentPc \in {"spawn", "last", "judge"}
    /\ state' = "failed"
    /\ parentPc' = "raised"
    /\ UNCHANGED <<workerVars, stopFile, told, asked, waiting, todo, stopped,
                   merged, off, suiteVars>>

\* evals and logged_eval_steps: the steps every seed has a row of, new ones first.
Seen(p) == {log[p][i] : i \in 1..off[p]}
Logged == {merged[i][2] : i \in RowsOf(0)}
\* Mutant: the steps already logged are not left out.
MutDue == {k \in 0..TrainSteps : \A p \in Procs : k \in Seen(p)}

Due == {k \in 0..TrainSteps : \A p \in Procs : k \in Seen(p)} \ Logged
Medians == [n \in 1..Cardinality(Due) |-> <<0, CHOOSE k \in Due : Place(Due, k) = n>>]

Failed == \E p \in Procs : worker[p] = "bad"

\* One failed seed fails the suite, after a stop too.
JudgeFailed ==
    /\ Failed
    /\ End("failed")
    /\ UNCHANGED suiteVars

\* Mutant: the checkpoint is labelled final whatever happened.
MutJudgeTrained ==
    /\ ~Failed
    /\ saved' = [p \in Procs |-> model[p]]
    /\ label' = "final"
    /\ parentPc' = "after"
    /\ UNCHANGED state

JudgeTrained ==
    /\ ~Failed
    /\ saved' = [p \in Procs |-> model[p]]
    /\ label' = IF stopped THEN "stopped" ELSE "final"
    /\ parentPc' = "after"
    /\ UNCHANGED state

Judge ==
    /\ parentPc = "judge"
    /\ JudgeFailed \/ JudgeTrained
    /\ UNCHANGED <<workerVars, stopFile, told, asked, waiting, todo, stopped,
                   merged, off>>

After ==
    /\ parentPc = "after"
    /\ End(IF stopped THEN "stopped" ELSE "done")
    /\ UNCHANGED <<workerVars, stopFile, told, asked, waiting, todo, stopped,
                   merged, off, suiteVars>>

Parent ==
    \/ Spawn \/ Judge \/ After
    \/ WaitStep(Medians) /\ UNCHANGED <<workerVars, asked, suiteVars>>

Worker(p) ==
    WorkerStep(p) /\ UNCHANGED <<stopFile, told, parentPc, parentVars, asked, suiteVars>>

SeedNext ==
    \/ Parent
    \/ \E p \in Procs : Worker(p)
    \/ \E p \in Procs :
         Dies(p) /\ UNCHANGED <<stopFile, told, parentPc, parentVars, asked, suiteVars>>
    \/ Raise
    \/ WaitRaises /\ UNCHANGED <<workerVars, asked, suiteVars>>
    \/ (Command \/ ParentKilled) /\ UNCHANGED suiteVars

SeedSpec == SeedInit /\ [][SeedNext]_seedVars

-----------------------------------------------------------------------------
(***************************************************************************)
(* No evaluation step has two median rows; a median row comes after the    *)
(* rows of all the seeds for its step; and a suite that is done has one    *)
(* for every evaluation of the workers, whatever order they made them in.  *)
(***************************************************************************)
MediansAreRight ==
    /\ \A i, j \in RowsOf(0) : merged[i][2] = merged[j][2] => i = j
    /\ \A i \in RowsOf(0), p \in Procs : \E j \in 1..(i - 1) : merged[j] = <<p, merged[i][2]>>
    /\ state = "done" => Logged = {k \in 0..TrainSteps : Evaluates(k)} \cup {TrainSteps}

(***************************************************************************)
(* The checkpoint of a suite that is done or stopped holds the residual of *)
(* every seed, each of the step its result speaks of and not an earlier    *)
(* best; and one labelled final holds only seeds trained in full.          *)
(***************************************************************************)
SeedsAreSaved ==
    /\ state \in {"done", "stopped"} => saved = result /\ DOMAIN saved = Procs
    /\ label = "final" => \A p \in Procs : saved[p] = TrainSteps
    /\ state = "done" => label = "final"
=============================================================================
