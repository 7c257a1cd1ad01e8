------------------------------- MODULE TD3Run -------------------------------
(***************************************************************************)
(* The lab's TD3 tasks (lab/tasks/task6_td3.py, _train_loop and _save): an *)
(* environment loop polled for a stop every few steps, an evaluation on    *)
(* held-out seeds every EvalEvery steps, and a checkpoint directory pruned *)
(* after every save to the newest "best" and the newest checkpoint.        *)
(*                                                                         *)
(* A model is the pair of the step it was saved at and its evaluation.     *)
(***************************************************************************)
EXTENDS CkptDir, FiniteSets

CONSTANTS
    EnvSteps, EvalEvery, PollEvery,
    Scores      \* the (success, return) keys an evaluation can have, in order

ASSUME RunAssumption ==
    /\ {EnvSteps, EvalEvery} \subseteq Nat \ {0}
    /\ PollEvery \in Nat \ {0, 1}
    /\ Scores \subseteq Nat \ {0}

VARIABLES
    t,        \* environment steps
    pc,       \* where the process is
    stopping, \* a poll saw the stop
    control,  \* "run", or "stop" once the user asked for it
    best,     \* the best key so far, 0 before the first evaluation
    savedT,   \* the step of the last evaluation's checkpoint, 0 at first
    taken,    \* environment steps that were really taken (history)
    keep,     \* _save's keep: the files the running prune spares
    listed    \* the keys of all evaluations that were ever listed (history)

runVars == <<t, pc, stopping, control, best, savedT, taken, keep, listed>>
vars == <<runVars, ckptVars>>

NoScore == 0
Model(at, score) == [t |-> at, eval |-> score]

Init ==
    /\ t = 0
    /\ pc = "loop"
    /\ stopping = "no"
    /\ control = "run"
    /\ best = NoScore
    /\ savedT = 0
    /\ taken = 0
    /\ keep = {}
    /\ listed = {}
    /\ CkptInit(Model(0, NoScore))

-----------------------------------------------------------------------------
AskStop ==
    /\ control = "run"
    /\ control' = "stop"
    /\ UNCHANGED <<t, pc, stopping, best, savedT, taken, keep, listed, ckptVars>>

LoopStep ==
    /\ pc = "loop"
    /\ IF t < EnvSteps THEN t' = t + 1 /\ pc' = "poll" ELSE pc' = "ended" /\ UNCHANGED t
    /\ UNCHANGED <<stopping, control, best, savedT, taken, keep, listed, ckptVars>>

PollDue == t % PollEvery = 1

\* No poll due, or should_continue does not see a stop: act, learn, and
\* evaluate when it is time.
EnvStep ==
    /\ pc = "poll"
    /\ pc' = IF t % EvalEvery = 0 \/ t = EnvSteps THEN "eval" ELSE "loop"
    /\ taken' = t
    /\ UNCHANGED <<t, stopping, control, best, savedT, keep, listed, ckptVars>>

\* Mutant: saved without asking whether the evaluation at t - 1 just was.
MutStopAtPoll ==
    /\ pc = "poll" /\ PollDue
    /\ control = "stop"
    /\ stopping' = "yes"
    /\ IF t > 1
       THEN BeginSave(t - 1, "last", Model(t - 1, NoScore)) /\ pc' = "save"
       ELSE pc' = "ended" /\ UNCHANGED ckptVars
    /\ UNCHANGED <<t, control, best, savedT, taken, keep, listed>>

\* A poll saw the stop before step t: what steps 1..t-1 trained is saved,
\* unless the evaluation at t-1 just did.
StopAtPoll ==
    /\ pc = "poll" /\ PollDue
    /\ control = "stop"
    /\ stopping' = "yes"
    /\ IF t > 1 /\ savedT # t - 1
       THEN BeginSave(t - 1, "last", Model(t - 1, NoScore)) /\ pc' = "save"
       ELSE pc' = "ended" /\ UNCHANGED ckptVars
    /\ UNCHANGED <<t, control, best, savedT, taken, keep, listed>>

\* Mutant: a stop inside an evaluation returns at once.
MutStopInEval ==
    /\ pc = "eval"
    /\ control = "stop"
    /\ stopping' = "yes"
    /\ pc' = "ended"
    /\ UNCHANGED <<t, control, best, savedT, taken, keep, listed, ckptVars>>

\* should_continue between two evaluation episodes saw the stop.
StopInEval ==
    /\ pc = "eval"
    /\ control = "stop"
    /\ stopping' = "yes"
    /\ BeginSave(t, "last", Model(t, NoScore))
    /\ pc' = "save"
    /\ UNCHANGED <<t, control, best, savedT, taken, keep, listed>>

Evaluate ==
    /\ pc = "eval"
    /\ \E key \in Scores :
         /\ best' = IF key > best THEN key ELSE best
         /\ BeginSave(t, IF key > best THEN "best" ELSE "last", Model(t, key))
    /\ pc' = "save"
    /\ UNCHANGED <<t, stopping, control, savedT, taken, keep, listed>>

ContinueSave ==
    /\ pc = "save"
    /\ SaveStep
    /\ listed' = IF Saving' THEN listed ELSE listed \cup {saving.model.eval}
    /\ UNCHANGED <<t, pc, stopping, control, best, savedT, taken, keep>>

-----------------------------------------------------------------------------
\* _save: re-read the index and keep the new file and that of the last "best".
Bests == {i \in DOMAIN index : index[i].label = "best"}

\* Mutant: only the new file is kept.
MutToKeep == {saving.step}

ToKeep ==
    {saving.step} \cup
        {index[i].step : i \in {b \in Bests : \A c \in Bests : c <= b}}

PruneBegins ==
    /\ pc = "save" /\ ~Saving
    /\ keep' = ToKeep
    /\ pc' = "prune"
    /\ UNCHANGED <<t, stopping, control, best, savedT, taken, listed, ckptVars>>

Pruned == Listed \ keep

Unlink ==
    /\ pc = "prune"
    /\ \E n \in Pruned \cap DOMAIN files :
         files' = [m \in DOMAIN files \ {n} |-> files[m]]
    /\ UNCHANGED <<runVars, index, saves, saving>>

\* The files are gone; the index follows, and the loop goes on or returns.
PruneEnds ==
    /\ pc = "prune"
    /\ Pruned \cap DOMAIN files = {}
    /\ index' = [i \in {k \in DOMAIN index : index[k].step \in keep} |-> index[i]]
    /\ IF stopping = "yes" THEN pc' = "ended" /\ UNCHANGED savedT
       ELSE pc' = "loop" /\ savedT' = t
    /\ UNCHANGED <<t, stopping, control, best, taken, keep, listed, files, saves, saving>>

Killed ==
    /\ pc \notin {"ended", "dead"}
    /\ pc' = "dead"
    /\ UNCHANGED <<t, stopping, control, best, savedT, taken, keep, listed, ckptVars>>

Next ==
    \/ AskStop \/ LoopStep \/ EnvStep \/ StopAtPoll \/ StopInEval \/ Evaluate
    \/ ContinueSave \/ PruneBegins \/ Unlink \/ PruneEnds \/ Killed

Spec == Init /\ [][Next]_vars

-----------------------------------------------------------------------------
Keys == Scores \cup {NoScore}
Models == [t : 0..EnvSteps, eval : Keys]

TypeOK ==
    /\ t \in 0..EnvSteps
    /\ pc \in {"loop", "poll", "eval", "save", "prune", "ended", "dead"}
    /\ stopping \in {"no", "yes"}
    /\ control \in {"run", "stop"}
    /\ best \in Keys
    /\ savedT \in 0..EnvSteps
    /\ taken \in 0..t
    /\ keep \subseteq 0..EnvSteps
    /\ listed \subseteq Keys
    /\ saving.at \in {"idle", "file", "filed", "last", "lasted"}
    /\ saving.step \in 0..EnvSteps /\ saving.model \in Models
    /\ DOMAIN files \subseteq 0..EnvSteps \cup {LastPt}
    /\ \A n \in DOMAIN files : files[n] \in Models \cup {Torn}
    /\ saves \in Nat /\ DOMAIN index \subseteq 1..saves
    /\ \A i \in DOMAIN index :
          index[i] \in [step : 0..EnvSteps, label : {"best", "last"}, model : Models]

(***************************************************************************)
(* No checkpoint of this loop is ever written over: a listed file is whole *)
(* until the prune removes it, wherever the process dies.                  *)
(***************************************************************************)
ListedNeverTorn ==
    \A i \in DOMAIN index :
        Whole(index[i]) \/ (index[i].step \notin DOMAIN files /\ index[i].step \notin keep)

(***************************************************************************)
(* The best evaluated policy is never lost: from the moment it is listed,  *)
(* the index lists an intact checkpoint with the best key of the run so    *)
(* far, through every save, prune, stop and kill.                          *)
(***************************************************************************)
BestIsKept ==
    listed \ {NoScore} # {} =>
        \E i \in DOMAIN index :
            /\ index[i].label = "best" /\ Whole(index[i])
            /\ \A key \in listed : index[i].model.eval >= key

(***************************************************************************)
(* A run that returned lost no training and leaves no more than it should: *)
(* its newest checkpoint, also last.pt, is the policy after the last step  *)
(* taken, whether it ran to its end or was stopped at a poll or inside an  *)
(* evaluation; the only other file that may be there is the newest best.   *)
(***************************************************************************)
NothingUnsaved ==
    pc = "ended" /\ taken > 0 =>
        /\ saves \in DOMAIN index /\ Newest.step = taken /\ Whole(Newest)
        /\ files[LastPt] = Newest.model
        /\ DOMAIN files \ {LastPt} = Listed /\ Cardinality(DOMAIN index) <= 2
=============================================================================
