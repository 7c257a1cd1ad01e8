------------------------------ MODULE Lessons ------------------------------
(***************************************************************************)
(* The lessons that train in the lab's own process on data they make or    *)
(* load (lab/tasks: 1, 2, embed, 3, 5, token, attention, vit, crossattn,   *)
(* finddigit).  Five call train_loop once per part of their model; five    *)
(* have a loop of their own, which saves at the end of a part and not at a *)
(* stop.  Three first roll out an expert, unpolled, and fail if it seldom  *)
(* succeeds.  Embeddings keeps, beside each arm of its checkpoint, the     *)
(* success measured last, by which an evaluation picks the best arm.       *)
(***************************************************************************)
EXTENDS TrainLoop

VARIABLES
    lesson,    \* which of them runs
    parts,     \* the parts, heads or arms it trains
    measured,  \* the step of the arm's last measurement, 0 for none
    scores     \* scores[p]: that step, as saved with part p

choiceVars == <<lesson, parts>>
scoreVars == <<measured, scores>>
lessonsVars == <<choiceVars, scoreVars>>

\* train_loop's task, with this many calls.
Loop(n) == INSTANCE TrainLoop WITH Phases <- n

TwoParts == {"bc-mse", "flow"}
Looped == TwoParts \cup {"embeddings", "flow-bc", "ta-vla"}
Heads == {"tokenize", "attention", "vit", "crossattn", "finddigit"}
Collecting == {"embeddings", "flow-bc", "ta-vla"}
PartsOf(l) == CASE l \in TwoParts -> {2}
                [] l = "embeddings" -> {1, 4}
                [] l = "tokenize" -> {3}
                [] OTHER -> {1}

LessonsInit(names) ==
    /\ Init
    /\ lesson \in names /\ parts \in PartsOf(lesson)
    /\ measured = 0 /\ scores = <<>>

-----------------------------------------------------------------------------
Calls == \E n \in 1..Phases : n = parts /\ Loop(n)!Next

BcMse == lesson = "bc-mse" /\ Calls /\ UNCHANGED scoreVars
Flow == lesson = "flow" /\ Calls /\ UNCHANGED scoreVars

FlowBc == lesson = "flow-bc" /\ Calls /\ UNCHANGED scoreVars
TaVla == lesson = "ta-vla" /\ Calls /\ UNCHANGED scoreVars

\* eval_fn leaves the success it returns in the holder, wrap saves it with the arm.
Measures == pc = "eval" /\ rows' # rows
NewArm == phase' # phase
Saves == ~Saving /\ Saving'
Score ==
    /\ measured' = IF Measures THEN step ELSE IF NewArm THEN 0 ELSE measured
    /\ scores' = IF Saves THEN Append(SubSeq(scores, 1, phase - 1), measured) ELSE scores

Embeddings == lesson = "embeddings" /\ Calls /\ Score

\* The expert rolls out its episodes before the first poll and is not polled
\* itself; with fewer than two that succeed the job fails.
TooFewDemos ==
    /\ lesson \in Collecting
    /\ phase = 1 /\ step = 0 /\ pc = "poll"
    /\ pc' = "failed"
    /\ UNCHANGED <<phase, step, completed, control, rows, progress, holder, ckptVars, scoreVars>>

-----------------------------------------------------------------------------
\* The loops of their own: every step is polled, and a stop just ends the job.
HeadStep ==
    /\ pc = "poll" /\ ~Saving /\ step < Steps
    /\ step' = step + 1
    /\ IF step' % LogEvery = 0 \/ step' = Steps
       THEN rows' = Append(rows, Offset + step') /\ pc' = "report"
       ELSE UNCHANGED <<rows, pc>>
    /\ UNCHANGED <<phase, completed, control, progress, holder, ckptVars>>

HeadReport ==
    /\ pc = "report"
    /\ progress' = Here
    /\ pc' = IF step = Steps THEN "save" ELSE "poll"
    /\ UNCHANGED <<phase, step, completed, control, rows, holder, ckptVars>>

HeadStops ==
    /\ pc = "poll" /\ ~Saving /\ step < Steps
    /\ control = "stop"
    /\ completed' = "part" /\ pc' = "ended"
    /\ UNCHANGED <<phase, step, control, rows, progress, holder, ckptVars>>

HeadSave ==
    /\ pc = "save"
    /\ Save
    /\ completed' = "all" /\ pc' = "return"
    /\ UNCHANGED <<phase, step, control, rows, progress>>

OwnLoop ==
    /\ \/ AskStop \/ HeadStep \/ HeadReport \/ HeadStops \/ HeadSave \/ ContinueSave \/ Killed
       \/ \E n \in 1..Phases : n = parts /\ Loop(n)!PhaseEnds
    /\ UNCHANGED scoreVars

Tokenize == lesson = "tokenize" /\ OwnLoop
Attention == lesson = "attention" /\ OwnLoop
Vit == lesson = "vit" /\ OwnLoop
CrossAttn == lesson = "crossattn" /\ OwnLoop
FindDigit == lesson = "finddigit" /\ OwnLoop

LessonsNext ==
    /\ pc # "failed"
    /\ \/ BcMse \/ Flow \/ Embeddings \/ FlowBc \/ TaVla
       \/ TooFewDemos \/ Tokenize \/ Attention \/ Vit \/ CrossAttn \/ FindDigit
    /\ UNCHANGED choiceVars

-----------------------------------------------------------------------------
(***************************************************************************)
(* A lesson that returned, but for a stop of one with a loop of its own,   *)
(* has its final models in last.pt and as the newest listed checkpoint, at *)
(* the step it reports.                                                    *)
(***************************************************************************)
LessonIsSaved ==
    lesson \in Looped \/ completed = "all" =>
        \A n \in 1..Phases : n = parts => Loop(n)!EndIsSaved

(***************************************************************************)
(* The score saved with an arm is never that of other weights: a finished  *)
(* arm's is of its last step, that of an arm still trained is younger than *)
(* EvalEvery steps, or missing before its first evaluation.                *)
(***************************************************************************)
ScoresAreFresh ==
    lesson = "embeddings" =>
        /\ DOMAIN scores = DOMAIN holder
        /\ \A p \in DOMAIN scores :
              /\ scores[p] <= holder[p] /\ holder[p] < scores[p] + EvalEvery
              /\ holder[p] = Steps => scores[p] = Steps
=============================================================================
