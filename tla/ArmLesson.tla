----------------------------- MODULE ArmLesson -----------------------------
(***************************************************************************)
(* Lesson 20 as a whole (lab/tasks/task_nfv5.py): the suite that trains the *)
(* arms, and the evaluation of the checkpoint it left, however it ended.   *)
(* `kind' says whose processes and files the variables of Workers speak of. *)
(***************************************************************************)
EXTENDS ArmSuite

CONSTANT Par
ASSUME ParAssumption == Par \in Nat \ {0}

VARIABLES kind, arms, pending, evs, video, written

E == INSTANCE EvalPool

evalVars == <<arms, pending, evs, video, written>>
lessonVars == <<armVars, kind, evalVars>>

LessonInit == ArmInit /\ kind = "arms" /\ E!PoolInit

\* Bound: an evaluation starts once the suite's processes are gone.
EvaluationStarts ==
    /\ kind = "arms" /\ saved # <<>>
    /\ parentPc \in {"ended", "raised", "killed"} /\ \A p \in Procs : ~Alive(p)
    /\ kind' = "evals"
    /\ E!PoolStarts(saved[Len(saved)])
    /\ UNCHANGED suiteVars

Training == kind = "arms" /\ UNCHANGED <<kind, evalVars>>
Evaluating == kind = "evals" /\ UNCHANGED <<kind, suiteVars>>

LessonNext ==
    \/ Training /\ ArmNext
    \/ EvaluationStarts
    \/ Evaluating /\ (E!Pool \/ E!SpawnRaises)
    \/ Evaluating /\ \E p \in Procs : E!EvalEnds(p)
    \/ /\ Evaluating /\ UNCHANGED evalVars
       /\ \/ \E p \in Procs : Dies(p) /\ UNCHANGED <<stopFile, told, parentPc, parentVars, asked>>
          \/ Command \/ ParentKilled

\* Processes are scheduled and every worker ends, by its own bound if not
\* earlier.  Nobody has to start an evaluation, and nothing has to fail.
LessonParent == Training /\ Parent
LessonPool == Evaluating /\ E!Pool
LessonWorker(p) ==
    \/ Training /\ Worker(p)
    \/ Evaluating /\ E!EvalEnds(p)

LessonSpec ==
    /\ LessonInit /\ [][LessonNext]_lessonVars
    /\ WF_lessonVars(LessonParent) /\ WF_lessonVars(LessonPool)
    /\ \A p \in Procs : WF_lessonVars(LessonWorker(p))

-----------------------------------------------------------------------------
LessonTypeOK ==
    /\ ArmTypeOK
    /\ kind \in {"arms", "evals"}
    /\ E!PoolTypeOK

(***************************************************************************)
(* Every arm a saved checkpoint lists, and so every arm that is evaluated, *)
(* has its adapter and its result on disk, of the same training; a suite   *)
(* that is done trained all of its arms in full and lists them all.        *)
(***************************************************************************)
ArmsAreThere ==
    /\ kind = "arms" => SavedArmsAreThere
    /\ \A i \in DOMAIN arms :
          arms[i] \in DOMAIN model /\ model[arms[i]] = result[arms[i]]

(***************************************************************************)
(* After the parent saw the stop no further arm or probe is started.       *)
(***************************************************************************)
NoArmAfterStop == [][kind = "arms" => StartsNoArm]_lessonVars

(***************************************************************************)
(* An evaluation's result speaks of every arm of its checkpoint and of     *)
(* workers that ended well only; its video shows all of them or is not     *)
(* there; a stopped or failed evaluation leaves no result and no worker,   *)
(* and no more than Par workers share the GPU.                             *)
(***************************************************************************)
ResultIsWhole ==
    /\ NoWorkerLeft
    /\ kind = "evals" => E!ResultIsWhole

(***************************************************************************)
(* A job that is not left paused for ever, and whose process lives, ends,  *)
(* whatever its workers do: the suite, and an evaluation after it.         *)
(***************************************************************************)
JobEnds == <>[](asked # "pause") => []<>(parentPc \in {"ended", "raised", "killed"})
=============================================================================
