---------------------------- MODULE SkillTraining ----------------------------
(***************************************************************************)
(* The script that trains a skill with TD3 (scripts/18_train_td3): expert  *)
(* demonstrations, the training loop, evaluations on the same environment  *)
(* and a final one of the best agent; and the environments of the two      *)
(* sorting skills (fvb/policy/sort_skill_env) and of the arm's hidden hole *)
(* (fvb/policy/rl_env), whose set-ups an expert prepares and a cache keeps.*)
(*                                                                         *)
(* An observation is named by the seed of its episode and the steps taken  *)
(* in it; what the simulator does in a step is a choice, and it does not   *)
(* diverge.                                                                *)
(***************************************************************************)
EXTENDS Integers, Sequences, FiniteSets

CONSTANTS
    SkillSteps, SkillEvery,  \* --steps and --eval-every
    SkillDemos,              \* --demos
    SkillSeeds,              \* --eval-episodes and --final-episodes
    Cache,                   \* --cache
    MaxSkill,                \* max_steps of an episode
    HoldUp,                  \* steps a part is held up, 10 in the code
    EvalKeys                     \* the (success, return) keys an evaluation can have

\* With fewer steps nothing is evaluated and best.pt may be an earlier run's.
ASSUME SkillAssumption ==
    /\ SkillEvery \in 1..SkillSteps /\ SkillDemos \in Nat
    /\ {SkillSeeds, Cache, MaxSkill, HoldUp} \subseteq Nat \ {0}
    /\ EvalKeys \subseteq Nat

VARIABLES
    skill,           \* "insert", "pick" or "arm"
    who, place,      \* whose episode runs, and where the script is in it
    nth,             \* demonstrations or evaluation episodes ended
    nEp, env,        \* training episodes ended; environment steps of the training loop
    seed, clock,     \* of the running episode
    item, grip,      \* is the part "held", "in" or "loose"; the hand's command
    heldUp, simEnd,  \* the pick's counter; the simulator's outcome
    reason,          \* the verdict on the step, or "none"
    snap,            \* the snapshots, by key
    seen,            \* the loop's observation o
    added,           \* the transition added last
    evals, bestPt,   \* the evaluations' keys; which of them best.pt is of (0: an earlier run)
    lifted, forced   \* consecutive steps held up; too much force, in this episode (history)

placeVars == <<who, place, nth, nEp, env>>
worldVars == <<item, grip, heldUp, simEnd, reason>>
skillVars == <<skill, placeVars, seed, clock, worldVars, snap, seen, added, evals, bestPt,
               lifted, forced>>

NoReason == "none"
Here == <<seed, clock>>

SkillInit ==
    /\ skill \in {"insert", "pick", "arm"}
    /\ who = (IF SkillDemos > 0 THEN "demo" ELSE "train") /\ place = "reset"
    /\ nth = 0 /\ nEp = 0 /\ env = 0
    /\ seed = 0 /\ clock = 0
    /\ item = "loose" /\ grip = "open" /\ heldUp = 0 /\ simEnd = "running" /\ reason = NoReason
    /\ snap = <<>> /\ seen = <<0, 0>> /\ added = <<>>
    /\ evals = <<>> /\ bestPt = 0
    /\ lifted = 0 /\ forced = FALSE

-----------------------------------------------------------------------------
(***************************************************************************)
(* reset: the set-up of a seed, from the expert or from the cache.         *)
(***************************************************************************)
NextSeed ==
    CASE who = "demo" -> 900000 + nth
      [] who = "train" -> 1000000 + nEp
      [] who = "eval" -> 70000 + nth
      [] who = "final" -> 50000 + nth

Key(s) == IF s < 50000 THEN s % Cache ELSE s

\* Where the expert hands over: a bolt held over its hole, an open hand above a part.
Ready == IF skill = "insert" THEN <<"held", "close">> ELSE <<"loose", "pre">>

\* Mutant: the environment still says how the episode before it ended.
MutRestored(s) ==
    /\ Key(s) \in DOMAIN snap
    /\ item' = snap[Key(s)][1] /\ grip' = snap[Key(s)][2]
    /\ forced' = FALSE
    /\ UNCHANGED <<simEnd, snap>>

Restored(s) ==
    /\ Key(s) \in DOMAIN snap
    /\ item' = snap[Key(s)][1] /\ grip' = snap[Key(s)][2]
    /\ simEnd' = "running" /\ forced' = FALSE
    /\ UNCHANGED snap

\* The outcome keeps that the expert pressed too hard at any time on its way.
Prepared(s) ==
    /\ Key(s) \notin DOMAIN snap
    /\ item' = Ready[1] /\ grip' = Ready[2]
    /\ simEnd' \in {"running", "force_abort"} /\ forced' = (simEnd' = "force_abort")
    /\ snap' = [k \in DOMAIN snap \cup {Key(s)} |-> IF k = Key(s) THEN Ready ELSE snap[k]]

\* A new ArmTask for each seed, settled above the nominal hole.
Placed ==
    /\ item' = "held" /\ grip' = "close"
    /\ simEnd' = "running" /\ forced' = FALSE
    /\ UNCHANGED snap

Reset ==
    /\ place = "reset"
    /\ LET s == NextSeed
       IN  /\ IF skill = "arm" THEN Placed ELSE Restored(s) \/ Prepared(s)
           /\ seed' = s /\ clock' = 0
           /\ seen' = IF who = "train" THEN <<s, 0>> ELSE seen
    /\ heldUp' = 0 /\ lifted' = 0 /\ reason' = NoReason
    /\ place' = IF who = "train" THEN "due" ELSE "step"
    /\ UNCHANGED <<skill, who, nth, nEp, env, added, evals, bestPt>>

\* Ten sub-seeds in turn were none the expert could finish.
SetUpFails ==
    /\ place = "reset" /\ skill # "arm" /\ Key(NextSeed) \notin DOMAIN snap
    /\ place' = "failed"
    /\ UNCHANGED <<skill, who, nth, nEp, env, seed, clock, worldVars, snap, seen, added,
                   evals, bestPt, lifted, forced>>

-----------------------------------------------------------------------------
(***************************************************************************)
(* step: the action, one step of the simulator, and the verdict.           *)
(***************************************************************************)
\* _post_action: a force beyond the limit is kept; hard is that of this step.
Pressed(hard) ==
    /\ simEnd' = IF hard THEN "force_abort" ELSE simEnd
    /\ forced' = (forced \/ hard)

Aborts == simEnd' = "force_abort"
Late == clock' >= MaxSkill

\* The hand holds on; the bolt may enter the hole, slip, or neither.
InsertStep ==
    /\ grip' = "close"
    /\ item' \in {"in", "loose", item}
    /\ reason' = CASE item' = "in" -> "success"
                   [] item' # "in" /\ Aborts -> "force_abort"
                   [] item' = "loose" /\ ~Aborts -> "dropped"
                   [] OTHER -> IF Late THEN "timeout" ELSE NoReason
    /\ UNCHANGED <<heldUp, lifted>>

\* Only a closed hand takes the part; up: above the start by five centimetres.
PickStep ==
    /\ grip' \in {"close", "pre", grip}
    /\ item' \in {"loose"} \cup {p \in {"held"} : grip' = "close"}
    /\ \E up \in BOOLEAN :
          LET lift == item' = "held" /\ up
          IN  /\ heldUp' = IF lift THEN heldUp + 1 ELSE 0
              /\ lifted' = IF lift THEN lifted + 1 ELSE 0
    /\ reason' = CASE heldUp' >= HoldUp -> "success"
                   [] heldUp' < HoldUp /\ Aborts -> "force_abort"
                   [] OTHER -> IF Late THEN "timeout" ELSE NoReason

\* The tip is in when it is deep and over the opening, not only deep.
ArmStep ==
    /\ item' \in {"in", "held"}
    /\ reason' = CASE item' = "in" -> "success"
                   [] item' # "in" /\ Aborts -> "force_abort"
                   [] OTHER -> IF Late THEN "timeout" ELSE NoReason
    /\ UNCHANGED <<grip, heldUp, lifted>>

EpisodeStep ==
    /\ clock' = clock + 1
    /\ \E hard \in BOOLEAN : Pressed(hard)
    /\ CASE skill = "insert" -> InsertStep
         [] skill = "pick" -> PickStep
         [] skill = "arm" -> ArmStep
    /\ UNCHANGED <<seed, snap>>

Add(from) == added' = [from |-> from, to |-> <<seed, clock'>>,
                       terminal |-> reason' \notin {NoReason, "timeout"}]

-----------------------------------------------------------------------------
(***************************************************************************)
(* The script.                                                             *)
(***************************************************************************)
\* What follows the nth episode of a collection or an evaluation.
AfterEpisodes(n, last) ==
    /\ nth' = nth + 1
    /\ place' = IF nth' = n THEN last ELSE "reset"

DemoStep ==
    /\ place = "step" /\ who = "demo"
    /\ EpisodeStep /\ Add(Here)
    /\ IF reason' = NoReason THEN UNCHANGED <<nth, place, who>>
       ELSE /\ AfterEpisodes(SkillDemos, "reset")
            /\ who' = IF nth' = SkillDemos THEN "train" ELSE "demo"
    /\ UNCHANGED <<skill, nEp, env, seen, evals, bestPt>>

TrainStep ==
    /\ place = "step" /\ who = "train"
    /\ EpisodeStep /\ Add(seen)
    /\ env' = env + 1
    /\ seen' = <<seed, clock'>>
    /\ IF reason' = NoReason THEN place' = "due" /\ UNCHANGED nEp
       ELSE place' = "reset" /\ nEp' = nEp + 1
    /\ UNCHANGED <<skill, who, nth, evals, bestPt>>

Due == env > 0 /\ env % SkillEvery = 0 /\ Len(evals) < env \div SkillEvery

LoopGoesOn ==
    /\ place = "due" /\ ~Due /\ env < SkillSteps
    /\ place' = "step"
    /\ UNCHANGED <<skill, who, nth, nEp, env, seed, clock, worldVars, snap, seen, added, evals,
                   bestPt, lifted, forced>>

EvalBegins ==
    /\ place = "due" /\ Due
    /\ who' = "eval" /\ nth' = 0 /\ place' = "reset"
    /\ UNCHANGED <<skill, nEp, env, seed, clock, worldVars, snap, seen, added, evals, bestPt,
                   lifted, forced>>

EvalStep ==
    /\ place = "step" /\ who \in {"eval", "final"}
    /\ EpisodeStep
    /\ IF reason' = NoReason THEN UNCHANGED <<nth, place>>
       ELSE AfterEpisodes(SkillSeeds, IF who = "eval" THEN "judge" ELSE "over")
    /\ UNCHANGED <<skill, who, nEp, env, seen, added, evals, bestPt>>

Beats(key) == \A i \in DOMAIN evals : key > evals[i]

Judged(key) ==
    /\ place = "judge"
    /\ evals' = Append(evals, key)
    /\ bestPt' = IF Beats(key) THEN Len(evals') ELSE bestPt
    /\ who' = "train"
    /\ UNCHANGED <<skill, nth, nEp, env, seed, clock, worldVars, snap, seen, added,
                   lifted, forced>>

\* Mutant: training goes on from the observation it had.
MutEvalEnds == \E key \in EvalKeys : Judged(key) /\ place' = "step"

\* The evaluation used the environment: the training episode starts again.
EvalEnds == \E key \in EvalKeys : Judged(key) /\ place' = "reset"

FinalBegins ==
    /\ place = "due" /\ ~Due /\ env = SkillSteps
    /\ who' = "final" /\ nth' = 0 /\ place' = "reset"
    /\ UNCHANGED <<skill, nEp, env, seed, clock, worldVars, snap, seen, added, evals, bestPt,
                   lifted, forced>>

SkillNext ==
    \/ Reset \/ SetUpFails
    \/ DemoStep \/ TrainStep \/ LoopGoesOn
    \/ EvalBegins \/ EvalStep \/ EvalEnds \/ FinalBegins

SkillSpec == SkillInit /\ [][SkillNext]_skillVars

-----------------------------------------------------------------------------
(***************************************************************************)
(* Every transition the agent learns from is one step of one episode:      *)
(* evaluations share the environment and leave it in an episode of theirs. *)
(***************************************************************************)
TransitionsAreWhole ==
    added # <<>> => /\ added.to[1] = added.from[1]
                    /\ added.to[2] = added.from[2] + 1

VerdictIsItsOwn ==
    /\ reason = "success" => IF skill = "pick" THEN lifted >= HoldUp ELSE item = "in"
    /\ reason = "force_abort" => forced
    /\ reason = "timeout" => clock = MaxSkill

FinalIsTheBest ==
    who = "final" =>
        /\ bestPt \in DOMAIN evals
        /\ \A i \in DOMAIN evals : evals[i] <= evals[bestPt]
        /\ \A i \in 1..bestPt - 1 : evals[i] < evals[bestPt]

(***************************************************************************)
(* The agent is judged by its own episodes.  A verdict is about the one it *)
(* ends, whether its set-up is fresh or a snapshot many episodes old: a    *)
(* pick that succeeded held the part up for HoldUp steps in a row of this  *)
(* episode, and what is aborted had too much force in this episode or in   *)
(* the set-up that was made for it.  And the final evaluation is of the    *)
(* first agent with the highest key of this run.                           *)
(***************************************************************************)
AgentIsJudged == VerdictIsItsOwn /\ FinalIsTheBest
=============================================================================
