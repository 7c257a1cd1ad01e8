----------------------------- MODULE MCImitation -----------------------------
(***************************************************************************)
(* The programs that learn from demonstrations, for TLC: a lesson that     *)
(* trains in one process, with an evaluation beside it; lesson 20 with its *)
(* worker processes and their evaluation; or the episodes of               *)
(* demonstrations and the force prompt learned from them.  A behaviour is  *)
(* one of them (`program'); the variables of the others stay as they are.  *)
(***************************************************************************)
EXTENDS LessonEval, ArmLesson, ForcePrompt

VARIABLE program

demoVars == <<gantryVars, promptVars>>
mcVars == <<program, trainVars, lessonVars, demoVars>>

MCInit ==
    \/ program = "train" /\ TrainInit /\ LessonInit /\ PromptInit
    \/ program \in {"arms", "episodes"} /\ TokenInit /\ ReadInit /\ LessonInit /\ PromptInit

MCNext ==
    \/ program = "train" /\ TrainNext /\ UNCHANGED <<program, lessonVars, demoVars>>
    \/ program = "arms" /\ LessonNext /\ UNCHANGED <<program, trainVars, demoVars>>
    \/ program = "episodes" /\ PromptNext /\ UNCHANGED <<program, trainVars, lessonVars>>

\* The fairness of LessonSpec.
MCSpec ==
    /\ MCInit /\ [][MCNext]_mcVars
    /\ WF_mcVars(program = "arms" /\ LessonParent /\ UNCHANGED <<program, trainVars, demoVars>>)
    /\ WF_mcVars(program = "arms" /\ LessonPool /\ UNCHANGED <<program, trainVars, demoVars>>)
    /\ \A p \in Procs :
          WF_mcVars(program = "arms" /\ LessonWorker(p) /\ UNCHANGED <<program, trainVars, demoVars>>)

(***************************************************************************)
(* JobEnds of ArmLesson, where a lesson runs: a suite or evaluation that   *)
(* is not left paused for ever ends, whatever its workers do.              *)
(***************************************************************************)
LessonEnds == program = "arms" => JobEnds
=============================================================================
