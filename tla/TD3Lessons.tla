----------------------------- MODULE TD3Lessons -----------------------------
(***************************************************************************)
(* The three lessons with a TD3 agent: TD3 from scratch (task6_td3.py),    *)
(* which is TD3Run; TD3 with demonstrations (task7_td3bc.py), which        *)
(* collects them under polls before that loop; and the residual on a flow  *)
(* policy (task8_residual.py), whose loop steps all scenes of a round at   *)
(* once and counts those still live, polls before each step and is not     *)
(* polled in an evaluation, and saves and prunes with TD3Run's _save.      *)
(***************************************************************************)
EXTENDS TD3Run

CONSTANTS
    BCDemos,  \* demonstration episodes of td3-bc
    Scenes    \* parallel scenes of a residual round, 16 in the code

ASSUME TD3LessonsAssumption == BCDemos \in Nat /\ Scenes \in Nat \ {0}

VARIABLES
    algo,     \* the lesson
    rolled,   \* demonstrations collected
    live,     \* scenes of the round that are not done
    nextEval  \* the step at which the residual is evaluated next

prepVars == <<rolled, live, nextEval>>
td3Vars == <<vars, algo, prepVars>>

TD3Init ==
    /\ Init
    /\ algo \in {"td3", "td3-bc", "residual-rl"}
    /\ rolled = 0
    /\ live = 0
    /\ nextEval = EvalEvery

TD3 == algo = "td3" /\ Next /\ UNCHANGED prepVars

-----------------------------------------------------------------------------
Preparing == pc = "loop" /\ t = 0 /\ rolled < BCDemos

CollectDemo ==
    /\ Preparing
    /\ rolled' = rolled + 1
    /\ UNCHANGED <<vars, live, nextEval>>

StopInPrepare ==
    /\ Preparing
    /\ control = "stop"
    /\ stopping' = "yes" /\ pc' = "ended"
    /\ UNCHANGED <<t, control, best, savedT, taken, keep, listed, ckptVars, prepVars>>

TD3BC ==
    /\ algo = "td3-bc"
    /\ \/ CollectDemo \/ StopInPrepare
       \/ Preparing /\ (AskStop \/ Killed) /\ UNCHANGED prepVars
       \/ ~Preparing /\ Next /\ UNCHANGED prepVars

-----------------------------------------------------------------------------
\* The base checkpoint cannot be read, or is of another lesson.
BaseUnusable ==
    /\ pc = "loop" /\ t = 0 /\ live = 0
    /\ pc' = "failed"
    /\ UNCHANGED <<t, stopping, control, best, savedT, taken, keep, listed, ckptVars, prepVars>>

SceneRound ==
    /\ pc = "loop" /\ t < EnvSteps /\ live = 0
    /\ live' = Scenes
    /\ UNCHANGED <<vars, rolled, nextEval>>

InRound == pc = "loop" /\ t < EnvSteps /\ live > 0

\* Each live scene takes a step; any of them may be done by it.
RoundStep ==
    /\ InRound
    /\ t' = t + live /\ taken' = t'
    /\ live' \in 0..live
    /\ IF t' >= nextEval \/ t' >= EnvSteps
       THEN pc' = "eval" /\ nextEval' = nextEval + EvalEvery
       ELSE pc' = "loop" /\ UNCHANGED nextEval
    /\ UNCHANGED <<stopping, control, best, savedT, keep, listed, ckptVars, rolled>>

StopInRound ==
    /\ InRound
    /\ control = "stop"
    /\ stopping' = "yes"
    /\ IF t > 0 /\ savedT # t
       THEN BeginSave(t, "last", Model(t, NoScore)) /\ pc' = "save"
       ELSE pc' = "ended" /\ UNCHANGED ckptVars
    /\ UNCHANGED <<t, control, best, savedT, taken, keep, listed, prepVars>>

RoundsEnd ==
    /\ pc = "loop" /\ t >= EnvSteps
    /\ pc' = "ended"
    /\ UNCHANGED <<t, stopping, control, best, savedT, taken, keep, listed, ckptVars, prepVars>>

Residual ==
    /\ algo = "residual-rl" /\ pc # "failed"
    /\ \/ BaseUnusable \/ SceneRound \/ RoundStep \/ StopInRound \/ RoundsEnd
       \/ /\ AskStop \/ Evaluate \/ ContinueSave \/ PruneBegins \/ Unlink \/ PruneEnds \/ Killed
          /\ UNCHANGED prepVars

TD3Next == (TD3 \/ TD3BC \/ Residual) /\ UNCHANGED algo
=============================================================================
