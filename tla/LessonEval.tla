----------------------------- MODULE LessonEval -----------------------------
(***************************************************************************)
(* An evaluation of a listed checkpoint, by a process of its own and       *)
(* perhaps while the run goes on saving (lab/server/app.py and the         *)
(* evaluate functions of the lessons of module Lessons, none of which      *)
(* polls): the page lists index.json, the server looks for the file the    *)
(* user picked, and the process loads it some time later.                  *)
(***************************************************************************)
EXTENDS ForceToken

VARIABLES
    reader,  \* where the evaluation is
    picked,  \* the index entry it was asked for
    want,    \* the encoding it was asked for (embeddings), 0 for "best"
    loaded,  \* what torch.load returned, Torn if it raised
    arm      \* the arm that was evaluated (embeddings)

readVars == <<reader, picked, want, loaded, arm>>

ReadInit ==
    /\ reader = "idle"
    /\ picked = [step |-> 0, label |-> "none", model |-> <<>>]
    /\ want \in IF lesson = "embeddings" THEN 0..Phases ELSE {0}
    /\ loaded = Torn
    /\ arm = 0

Pick ==
    /\ reader = "idle"
    /\ \E i \in DOMAIN index : picked' = index[i]
    /\ reader' = "posted"
    /\ UNCHANGED <<want, loaded, arm>>

Resolve ==
    /\ reader = "posted"
    /\ reader' = IF picked.step \in DOMAIN files THEN "started" ELSE "refused"
    /\ UNCHANGED <<picked, want, loaded, arm>>

Load ==
    /\ reader = "started"
    /\ loaded' = files[picked.step]
    /\ reader' = IF loaded' = Torn THEN "failed" ELSE "loaded"
    /\ UNCHANGED <<picked, want, arm>>

-----------------------------------------------------------------------------
\* evaluate rebuilds the parts it shows, whether or not the checkpoint has them.
Rebuild(l, needs) ==
    /\ lesson = l /\ reader = "loaded"
    /\ reader' = IF needs \subseteq DOMAIN loaded THEN "done" ELSE "failed"
    /\ UNCHANGED <<picked, want, loaded, arm>>

EvaluateBcMse == Rebuild("bc-mse", {1, 2})
EvaluateFlow == Rebuild("flow", {1, 2})
EvaluateFlowBc == Rebuild("flow-bc", {1})
EvaluateTaVla == Rebuild("ta-vla", {1})
EvaluateTokenize == Rebuild("tokenize", {1, 2, 3})
EvaluateAttention == Rebuild("attention", {1})
EvaluateVit == Rebuild("vit", {1})
EvaluateCrossAttn == Rebuild("crossattn", {1})
EvaluateFindDigit == Rebuild("finddigit", {1})

\* The score saved with an arm is -1 before its first measurement.
Measured(a) == loaded[a] >= EvalEvery \/ loaded[a] = Steps
Best == {a \in DOMAIN loaded : Measured(a) \/ \A b \in DOMAIN loaded : ~Measured(b)}

EvaluateEmbeddings ==
    /\ lesson = "embeddings" /\ reader = "loaded"
    /\ \E a \in IF want = 0 THEN Best ELSE {want} :
          IF a \in DOMAIN loaded THEN arm' = a /\ reader' = "done"
          ELSE reader' = "failed" /\ UNCHANGED arm
    /\ UNCHANGED <<picked, want, loaded>>

EvalNext ==
    /\ lesson # "force-token"
    /\ \/ Pick \/ Resolve \/ Load
       \/ EvaluateBcMse \/ EvaluateFlow \/ EvaluateFlowBc \/ EvaluateTaVla \/ EvaluateTokenize
       \/ EvaluateAttention \/ EvaluateVit \/ EvaluateCrossAttn \/ EvaluateFindDigit
       \/ EvaluateEmbeddings
    /\ UNCHANGED <<vars, lessonsVars, tokenVars>>

-----------------------------------------------------------------------------
(***************************************************************************)
(* A lesson in its process, with an evaluation beside it.                  *)
(***************************************************************************)
trainVars == <<vars, lessonsVars, tokenVars, readVars>>

TrainInit ==
    /\ \/ TokenInit
       \/ LessonsInit(Looped \cup Heads) /\ collected = 0 /\ vals = <<>> /\ savedEp = 0
    /\ ReadInit

TrainNext ==
    \/ lesson = "force-token" /\ TokenNext /\ UNCHANGED readVars
    \/ lesson # "force-token" /\ LessonsNext /\ UNCHANGED <<tokenVars, readVars>>
    \/ EvalNext

TrainSpec == TrainInit /\ [][TrainNext]_trainVars

-----------------------------------------------------------------------------
(***************************************************************************)
(* An evaluation reads, in every part, the weights it was asked for,       *)
(* though a stop may save the same file again with a part more.  It finds  *)
(* the file torn only if the run saves that step twice; and the last       *)
(* checkpoint of a lesson that is done can be evaluated.                   *)
(***************************************************************************)
EvaluatesTheListed ==
    /\ loaded # Torn => \A p \in DOMAIN picked.model :
                           p \in DOMAIN loaded /\ loaded[p] = picked.model[p]
    /\ reader = "failed" /\ loaded = Torn =>
          \/ Saving /\ saving.step = picked.step
          \/ \E i, k \in DOMAIN index : i # k /\ {index[i].step, index[k].step} = {picked.step}
    /\ pc = "ended" /\ completed = "all" /\ picked = Newest /\ want <= parts =>
          reader \notin {"failed", "refused"}

(***************************************************************************)
(* What a lesson saves is what it trained and measured: its final models   *)
(* are in last.pt and listed (LessonIsSaved of Lessons), an encoding's     *)
(* score is that of the weights saved with it (ScoresAreFresh of Lessons), *)
(* and of the force-token epochs the best and the last one are there, each *)
(* once (BestEpochIsKept of ForceToken).                                   *)
(***************************************************************************)
SavedAsMeasured == LessonIsSaved /\ ScoresAreFresh /\ BestEpochIsKept
=============================================================================
