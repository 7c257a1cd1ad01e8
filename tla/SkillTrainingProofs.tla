------------------------ MODULE SkillTrainingProofs ------------------------
(***************************************************************************)
(* Proofs about the skills of the sorting cell.  Of SkillTraining, for     *)
(* episodes and trainings of any length, any number of demonstrations and  *)
(* evaluations and any size of the cache; and of SortCell, where what was  *)
(* learned is used, for any parts, any time a bolt has to stand, any       *)
(* number of knocks and whichever skills are learned.                      *)
(***************************************************************************)
EXTENDS SkillTraining, SortCell, TLAPS

USE SkillAssumption, SortAssumption DEF SkillAssumption, SortAssumption

-----------------------------------------------------------------------------
(***************************************************************************)
(* The running episode, and what the loop knows of it.                     *)
(***************************************************************************)
Inside == place \in {"step", "due"}

EpisodeOK ==
    /\ skill \in {"insert", "pick", "arm"} /\ clock \in Nat
    /\ heldUp \in Nat /\ lifted = heldUp
    /\ simEnd = "force_abort" => forced
    /\ Inside => reason = NoReason /\ clock < MaxSkill

SeenIsHere == Inside /\ who = "train" => seen = Here

\* What a step may judge of the episode it is in.
LEMMA StepIsJudged ==
    ASSUME EpisodeOK, Inside, EpisodeStep
    PROVE  /\ seed' = seed /\ clock' = clock + 1 /\ clock' \in Nat
           /\ heldUp' \in Nat /\ lifted' = heldUp'
           /\ simEnd' = "force_abort" => forced'
           /\ reason' = NoReason => clock' < MaxSkill
           /\ skill' = skill => VerdictIsItsOwn'
<1> USE DEF EpisodeOK
<1>1. seed' = seed /\ clock' = clock + 1 /\ clock' \in Nat /\ clock' <= MaxSkill
  BY DEF EpisodeStep
<1>2. simEnd' = "force_abort" => forced'
  <2>1. PICK hard \in BOOLEAN : Pressed(hard)
    BY DEF EpisodeStep
  <2>2. QED
    BY <2>1 DEF Pressed
<1>3. CASE skill = "insert"
  <2>1. InsertStep
    BY <1>3 DEF EpisodeStep
  <2>2. heldUp' = heldUp /\ lifted' = lifted
    BY <2>1 DEF InsertStep
  <2>3. /\ reason' = "success" => item' = "in"
        /\ reason' = "force_abort" => simEnd' = "force_abort"
        /\ reason' = "timeout" => clock' >= MaxSkill
        /\ reason' = NoReason => ~(clock' >= MaxSkill)
    BY <2>1 DEF InsertStep, Aborts, Late, NoReason
  <2>4. QED
    BY <1>1, <1>2, <1>3, <2>2, <2>3 DEF VerdictIsItsOwn
<1>4. CASE skill = "pick"
  <2>1. PickStep
    BY <1>4 DEF EpisodeStep
  <2>2. heldUp' \in Nat /\ lifted' = heldUp'
    BY <2>1 DEF PickStep
  <2>3. /\ reason' = "success" => heldUp' >= HoldUp
        /\ reason' = "force_abort" => simEnd' = "force_abort"
        /\ reason' = "timeout" => clock' >= MaxSkill
        /\ reason' = NoReason => ~(clock' >= MaxSkill)
    BY <2>1, <2>2 DEF PickStep, Aborts, Late, NoReason
  <2>4. QED
    BY <1>1, <1>2, <1>4, <2>2, <2>3 DEF VerdictIsItsOwn
<1>5. CASE skill = "arm"
  <2>1. ArmStep
    BY <1>5 DEF EpisodeStep
  <2>2. heldUp' = heldUp /\ lifted' = lifted
    BY <2>1 DEF ArmStep
  <2>3. /\ reason' = "success" => item' = "in"
        /\ reason' = "force_abort" => simEnd' = "force_abort"
        /\ reason' = "timeout" => clock' >= MaxSkill
        /\ reason' = NoReason => ~(clock' >= MaxSkill)
    BY <2>1 DEF ArmStep, Aborts, Late, NoReason
  <2>4. QED
    BY <1>1, <1>2, <1>5, <2>2, <2>3 DEF VerdictIsItsOwn
<1>6. QED
  BY <1>3, <1>4, <1>5

-----------------------------------------------------------------------------
(***************************************************************************)
(* The evaluations so far and which of them best.pt is of.                 *)
(***************************************************************************)
BestIsFirst ==
    evals # <<>> =>
        /\ bestPt \in DOMAIN evals
        /\ \A i \in DOMAIN evals : evals[i] <= evals[bestPt]
        /\ \A i \in 1..bestPt - 1 : evals[i] < evals[bestPt]

\* Nothing is trained beyond the first evaluation before it was made.
Unjudged ==
    evals = <<>> =>
        /\ env <= SkillEvery /\ who # "final"
        /\ place = "step" /\ who = "train" => env < SkillEvery

ScriptOK ==
    /\ env \in Nat /\ evals \in Seq(Nat) /\ BestIsFirst /\ Unjudged

LEMMA DueAtFirst ==
    ASSUME ScriptOK, evals = <<>>, ~Due PROVE env < SkillEvery
<1> SUFFICES ASSUME env = SkillEvery PROVE FALSE
  BY DEF ScriptOK, Unjudged
<1>1. SkillEvery \in Nat /\ SkillEvery > 0
  OBVIOUS
<1>2. SkillEvery % SkillEvery = 0 /\ SkillEvery \div SkillEvery = 1
  BY <1>1
<1>3. QED
  BY <1>1, <1>2 DEF Due

LEMMA EvalEndsKeeps ==
    ASSUME ScriptOK, EvalEnds PROVE ScriptOK'
<1>1. PICK key \in EvalKeys : Judged(key)
  BY DEF EvalEnds
<1>2. /\ key \in Nat /\ evals \in Seq(Nat) /\ evals' = Append(evals, key)
      /\ bestPt' = IF Beats(key) THEN Len(evals) + 1 ELSE bestPt
      /\ env' = env
  <2>1. evals \in Seq(Nat) /\ evals' = Append(evals, key) /\ env' = env
    BY <1>1 DEF ScriptOK, Judged
  <2>2. Len(evals') = Len(evals) + 1
    BY <2>1
  <2>3. QED
    BY <1>1, <2>1, <2>2 DEF Judged
<1>3. /\ evals' \in Seq(Nat) /\ Len(evals) \in Nat /\ DOMAIN evals = 1..Len(evals)
      /\ DOMAIN evals' = 1..Len(evals) + 1 /\ evals' # <<>>
      /\ \A i \in DOMAIN evals : evals'[i] = evals[i] /\ evals[i] \in Nat
      /\ evals'[Len(evals) + 1] = key
  <2>1. Len(evals) \in Nat /\ DOMAIN evals = 1..Len(evals) /\ \A i \in 1..Len(evals) : evals[i] \in Nat
    BY <1>2
  <2>2. /\ evals' \in Seq(Nat) /\ Len(evals') = Len(evals) + 1
        /\ \A i \in 1..Len(evals) : evals'[i] = evals[i]
        /\ evals'[Len(evals) + 1] = key
    BY <1>2, <2>1
  <2>3. DOMAIN evals' = 1..Len(evals) + 1 /\ evals' # <<>>
    BY <2>1, <2>2
  <2>4. QED
    BY <2>1, <2>2, <2>3
<1>4. CASE Beats(key)
  <2>1. \A i \in DOMAIN evals : key > evals[i]
    BY <1>4 DEF Beats
  <2>2. BestIsFirst'
    <3>1. bestPt' = Len(evals) + 1
      BY <1>2, <1>4
    <3>2. \A i \in DOMAIN evals : evals'[i] \in Nat /\ evals'[i] < key
      BY <1>2, <1>3, <2>1
    <3>3. \A i \in DOMAIN evals' : evals'[i] <= key
      BY <1>2, <1>3, <3>2
    <3>4. bestPt' \in DOMAIN evals' /\ 1..bestPt' - 1 = DOMAIN evals /\ evals'[bestPt'] = key
      BY <1>3, <3>1
    <3>5. QED
      BY <3>2, <3>3, <3>4 DEF BestIsFirst
  <2>3. QED
    BY <1>2, <1>3, <2>2 DEF ScriptOK, Unjudged
<1>5. CASE ~Beats(key)
  <2>1. PICK k \in DOMAIN evals : ~(key > evals[k])
    BY <1>5 DEF Beats
  <2>2. bestPt' = bestPt /\ evals # <<>> /\ bestPt \in DOMAIN evals /\ key <= evals[bestPt]
    BY <1>2, <1>3, <1>5, <2>1 DEF ScriptOK, BestIsFirst
  <2>3. BestIsFirst'
    <3> DEFINE top == evals[bestPt]
    <3>1. /\ \A i \in DOMAIN evals : evals[i] <= top
          /\ \A i \in 1..bestPt - 1 : evals[i] < top
      BY <2>2 DEF ScriptOK, BestIsFirst
    <3>2. /\ bestPt' \in DOMAIN evals' /\ evals'[bestPt'] = top
          /\ 1..bestPt' - 1 \subseteq DOMAIN evals
      <4>1. bestPt \in 1..Len(evals) /\ Len(evals) \in Nat /\ bestPt' = bestPt
        BY <1>3, <2>2
      <4>2. bestPt' \in DOMAIN evals' /\ 1..bestPt - 1 \subseteq 1..Len(evals)
        BY <1>3, <4>1
      <4>3. evals'[bestPt] = top
        BY <1>3, <2>2
      <4>4. QED
        BY <1>3, <4>1, <4>2, <4>3
    <3> HIDE DEF top
    <3>3. \A j \in DOMAIN evals' : evals'[j] <= top
      <4>1. key <= top
        BY <2>2 DEF top
      <4>2. \A j \in DOMAIN evals' : j \in DOMAIN evals \/ j = Len(evals) + 1
        BY <1>3
      <4>3. QED
        BY <1>3, <3>1, <4>1, <4>2
    <3>4. \A i \in 1..bestPt' - 1 : evals'[i] < top
      BY <1>3, <2>2, <3>1, <3>2
    <3>5. QED
      BY <3>2, <3>3, <3>4 DEF BestIsFirst
  <2>4. QED
    BY <1>2, <1>3, <2>3 DEF ScriptOK, Unjudged
<1>6. QED
  BY <1>4, <1>5

-----------------------------------------------------------------------------
SkillInv ==
    EpisodeOK /\ SeenIsHere /\ ScriptOK /\ VerdictIsItsOwn /\ TransitionsAreWhole

LEMMA SkillAtFirst == SkillInit => SkillInv
<1> SUFFICES ASSUME SkillInit PROVE SkillInv
  OBVIOUS
<1> USE DEF SkillInit, NoReason
<1>1. EpisodeOK /\ SeenIsHere
  BY DEF EpisodeOK, SeenIsHere, Inside
<1>2. ScriptOK
  BY DEF ScriptOK, BestIsFirst, Unjudged
<1>3. VerdictIsItsOwn /\ TransitionsAreWhole
  BY DEF VerdictIsItsOwn, TransitionsAreWhole
<1>4. QED
  BY <1>1, <1>2, <1>3 DEF SkillInv

\* A reset begins an episode, whose first observation the training loop takes.
LEMMA ResetKeeps == SkillInv /\ Reset => SkillInv'
<1> SUFFICES ASSUME SkillInv, Reset PROVE SkillInv'
  OBVIOUS
<1> USE DEF SkillInv
<1>1. /\ UNCHANGED <<skill, who, env, added, evals, bestPt>> /\ clock' = 0 /\ reason' = NoReason
      /\ heldUp' = 0 /\ lifted' = 0 /\ seed' = NextSeed
      /\ seen' = IF who = "train" THEN <<NextSeed, 0>> ELSE seen
      /\ place' = IF who = "train" THEN "due" ELSE "step"
  BY Zenon DEF Reset
<1>2. simEnd' = "force_abort" => forced'
  BY DEF Reset, Restored, Prepared, Placed
<1>3. EpisodeOK' /\ SeenIsHere'
  BY <1>1, <1>2 DEF EpisodeOK, SeenIsHere, Inside, Here
<1>4. ScriptOK'
  BY <1>1 DEF ScriptOK, BestIsFirst, Unjudged
<1>5. VerdictIsItsOwn' /\ TransitionsAreWhole'
  BY <1>1 DEF VerdictIsItsOwn, TransitionsAreWhole, NoReason
<1>6. QED
  BY <1>3, <1>4, <1>5

\* A step of a demonstration, of the training loop, or of an evaluation.
LEMMA StepKeeps == SkillInv /\ (DemoStep \/ TrainStep \/ EvalStep) => SkillInv'
<1> SUFFICES ASSUME SkillInv, DemoStep \/ TrainStep \/ EvalStep PROVE SkillInv'
  OBVIOUS
<1> USE DEF SkillInv
<1>1. place = "step" /\ EpisodeStep /\ UNCHANGED <<skill, evals, bestPt>>
  BY DEF DemoStep, TrainStep, EvalStep
<1>2. /\ seed' = seed /\ clock' = clock + 1 /\ clock' \in Nat
      /\ heldUp' \in Nat /\ lifted' = heldUp' /\ (simEnd' = "force_abort" => forced')
      /\ reason' = NoReason => clock' < MaxSkill
      /\ VerdictIsItsOwn'
  BY <1>1, StepIsJudged DEF Inside
<1>3. Inside' => reason' = NoReason
  BY <1>1 DEF DemoStep, TrainStep, EvalStep, AfterEpisodes, Inside
<1>4. EpisodeOK'
  BY <1>1, <1>2, <1>3 DEF EpisodeOK
<1>5. BestIsFirst'
  BY <1>1 DEF ScriptOK, BestIsFirst
<1>6. CASE DemoStep
  <2>1. /\ who = "demo" /\ UNCHANGED <<env, seen>>
        /\ added' = [from |-> Here, to |-> <<seed, clock'>>,
                     terminal |-> reason' \notin {NoReason, "timeout"}]
        /\ who' \in {"demo", "train"} /\ (who' = "train" => place' = "reset")
    BY <1>6 DEF DemoStep, Add, AfterEpisodes
  <2>2. TransitionsAreWhole'
    BY <2>1, <1>2 DEF TransitionsAreWhole, Here
  <2>3. SeenIsHere' /\ Unjudged'
    BY <2>1, <1>1 DEF SeenIsHere, Inside, ScriptOK, Unjudged
  <2>4. QED
    BY <1>1, <1>2, <1>4, <1>5, <2>1, <2>2, <2>3 DEF ScriptOK
<1>7. CASE TrainStep
  <2>1. /\ who = "train" /\ who' = who /\ env' = env + 1 /\ seen' = <<seed, clock'>>
        /\ added' = [from |-> seen, to |-> <<seed, clock'>>,
                     terminal |-> reason' \notin {NoReason, "timeout"}]
        /\ place' \in {"due", "reset"}
    BY <1>7 DEF TrainStep, Add
  <2>2. TransitionsAreWhole'
    BY <2>1, <1>1, <1>2 DEF TransitionsAreWhole, SeenIsHere, Inside, Here
  <2>3. SeenIsHere'
    BY <2>1, <1>2 DEF SeenIsHere, Here
  <2>4. Unjudged' /\ env' \in Nat
    BY <2>1, <1>1 DEF ScriptOK, Unjudged
  <2>5. QED
    BY <1>1, <1>2, <1>4, <1>5, <2>2, <2>3, <2>4 DEF ScriptOK
<1>8. CASE EvalStep
  <2>1. who \in {"eval", "final"} /\ who' = who /\ UNCHANGED <<env, seen, added>>
    BY <1>8 DEF EvalStep
  <2>2. TransitionsAreWhole' /\ SeenIsHere' /\ Unjudged'
    BY <2>1, <1>1 DEF TransitionsAreWhole, SeenIsHere, ScriptOK, Unjudged
  <2>3. QED
    BY <1>1, <1>2, <1>4, <1>5, <2>1, <2>2 DEF ScriptOK
<1>9. QED
  BY <1>6, <1>7, <1>8

\* What the script does between the steps and the episodes.
LEMMA ScriptKeeps ==
    ASSUME SkillInv,
           SetUpFails \/ LoopGoesOn \/ EvalBegins \/ EvalEnds \/ FinalBegins
              \/ UNCHANGED skillVars
    PROVE  SkillInv'
<1> USE DEF SkillInv
<1>1. /\ UNCHANGED <<skill, env, seed, clock, worldVars, seen, added, lifted, forced>>
      /\ Inside' => Inside /\ who' = who
  BY DEF SetUpFails, LoopGoesOn, EvalBegins, EvalEnds, Judged, FinalBegins, skillVars, placeVars,
         worldVars, Inside
<1>2. EpisodeOK' /\ SeenIsHere' /\ VerdictIsItsOwn' /\ TransitionsAreWhole'
  BY <1>1 DEF EpisodeOK, SeenIsHere, VerdictIsItsOwn, TransitionsAreWhole, worldVars, Here
<1>3. ScriptOK'
  <2>1. CASE EvalEnds
    BY <2>1, EvalEndsKeeps
  <2>2. CASE SetUpFails \/ EvalBegins \/ UNCHANGED skillVars
    BY <2>2 DEF SetUpFails, EvalBegins, skillVars, placeVars, ScriptOK, BestIsFirst, Unjudged
  <2>3. CASE LoopGoesOn
    <3>1. evals = <<>> => env < SkillEvery
      BY <2>3, DueAtFirst DEF LoopGoesOn
    <3>2. UNCHANGED <<who, env, evals, bestPt>>
      BY <2>3 DEF LoopGoesOn
    <3>3. QED
      BY <3>1, <3>2 DEF ScriptOK, BestIsFirst, Unjudged
  <2>4. CASE FinalBegins
    <3>1. evals # <<>>
      <4> SUFFICES ASSUME evals = <<>> PROVE FALSE
        OBVIOUS
      <4>1. ~Due /\ env = SkillSteps /\ env \in Nat
        BY <2>4 DEF FinalBegins, ScriptOK
      <4>2. env < SkillEvery
        BY <4>1, DueAtFirst
      <4>3. QED
        BY <4>1, <4>2
    <3>2. UNCHANGED <<env, evals, bestPt>>
      BY <2>4 DEF FinalBegins
    <3>3. QED
      BY <3>1, <3>2 DEF ScriptOK, BestIsFirst, Unjudged
  <2>5. QED
    BY <2>1, <2>2, <2>3, <2>4
<1>4. QED
  BY <1>2, <1>3

LEMMA SkillInvStep == SkillInv /\ [SkillNext]_skillVars => SkillInv'
  BY ResetKeeps, StepKeeps, ScriptKeeps DEF SkillNext

(***************************************************************************)
(* Every transition in the agent's buffer is one step of one episode       *)
(* (scripts/18_train_td3): the loop's observation is the one of the        *)
(* episode that runs, whenever a training step may come next.              *)
(***************************************************************************)
THEOREM WholeTransitions == SkillSpec => []TransitionsAreWhole
<1>1. SkillInv => TransitionsAreWhole
  BY DEF SkillInv
<1>2. QED
  BY <1>1, SkillAtFirst, SkillInvStep, PTL DEF SkillSpec

(***************************************************************************)
(* A verdict is about the episode it ends, prepared or restored, and the   *)
(* agent of the final evaluation is the first with the best key: at least  *)
(* one evaluation comes before it.                                         *)
(***************************************************************************)
THEOREM JudgedByItsOwn == SkillSpec => []AgentIsJudged
<1>1. SkillInv => AgentIsJudged
  BY DEF SkillInv, AgentIsJudged, FinalIsTheBest, ScriptOK, BestIsFirst, Unjudged
<1>2. QED
  BY <1>1, SkillAtFirst, SkillInvStep, PTL DEF SkillSpec

-----------------------------------------------------------------------------
(***************************************************************************)
(* The sorting cell.  Only the target is ever in the hand; from home, and  *)
(* until the fingers close, nothing is; a failure is always one of a part  *)
(* that is not given up; and the environment's clock of a bolt counts the  *)
(* updates it stood.                                                       *)
(***************************************************************************)
Spots == {"bin", "block", "table", "far", "floor", "hole", "mouth", "bucket", "hand"}
PartStates == {"loose", "seated", "vanished", "in_bucket", "dropped"}

BooksTyped ==
    /\ part \in Parts \cup {None}
    /\ attempts \in [Parts -> 0..Tries] /\ skipped \subseteq Parts

WorldTyped ==
    /\ where \in [Parts -> Spots] /\ status \in [Parts -> PartStates]
    /\ since \in [Parts -> Int] /\ stood \in [Parts -> Int]

HandInv ==
    /\ \A i \in Parts : where[i] = "hand" => i = part
    /\ homed \/ part = None \/ phase = "above" => HandEmpty
    /\ phase = "descend" /\ mode = "expert" => HandEmpty
    /\ homed => phase = "select"
    /\ part = None => phase \in {"select", "done"}
    /\ phase = "done" => part = None
    /\ phase = "descend" /\ mode = "expert" => gripper = "pre"

ModeInv ==
    /\ mode \in {"expert", "pick", "insert"}
    /\ mode = "pick" => phase = "descend"
    /\ mode = "insert" => phase = "hover"

AtRest == {"select", "home", "return", "done"}

TriesInv ==
    /\ \A i \in Parts : i \in skipped <=> attempts[i] = Tries
    /\ phase \notin AtRest => part \notin skipped

StandInv ==
    \A i \in Parts : status[i] # "vanished" /\ where[i] # "floor" => stood[i] = since[i] + 1

StatusInv ==
    \A i \in Parts :
        /\ status[i] = "dropped" => where[i] = "floor"
        /\ status[i] = "in_bucket" => where[i] = "bucket"
        /\ status[i] = "seated" => i \in Bolts /\ where[i] = "hole"
        /\ status[i] = "vanished" => i \in Bolts /\ stood[i] > Hold

SuccessInv ==
    outcome = "success" => /\ \A i \in Bolts : status[i] = "vanished"
                           /\ \A i \in Nuts : where[i] = "bucket"

Settled(i) ==
    \/ status[i] \in {"vanished", "seated"}
    \/ attempts[i] = Tries
    \/ where[i] \in {"far", "floor", "bucket"}

DoneInv == phase = "done" => \A i \in Parts : Settled(i)

CellInv ==
    /\ BooksTyped /\ WorldTyped /\ HandInv /\ ModeInv /\ TriesInv
    /\ StandInv /\ StatusInv /\ SuccessInv /\ DoneInv

LEMMA CellAtFirst == SortInit => CellInv
<1> SUFFICES ASSUME SortInit PROVE CellInv
  OBVIOUS
<1>1. BooksTyped /\ WorldTyped
  BY DEF SortInit, BooksTyped, WorldTyped, Tries, Spots, PartStates
<1>2. HandInv /\ ModeInv
  BY DEF SortInit, HandInv, ModeInv, HandEmpty
<1>3. TriesInv /\ StandInv /\ StatusInv /\ SuccessInv /\ DoneInv
  BY DEF SortInit, TriesInv, AtRest, Tries, StandInv, StatusInv, SuccessInv, DoneInv
<1>4. QED
  BY <1>1, <1>2, <1>3 DEF CellInv

(***************************************************************************)
(* The physics: what lies on the floor stays there, only closing fingers   *)
(* take a part, and an empty hand at rest moves nothing.                   *)
(***************************************************************************)
Closing == HandEmpty /\ gripper' = "close" /\ phase' \in {"descend", "close", "lift"}

LEMMA PhysicsEffect ==
    ASSUME WorldTyped, Physics
    PROVE  /\ where' \in [Parts -> Spots]
           /\ \A i \in Parts : where[i] = "floor" => where'[i] = "floor"
           /\ \A i \in Parts : where'[i] = "hand" => where[i] = "hand" \/ (Closing /\ i = part')
           /\ HandEmpty /\ phase' = "done" => where' = where
<1> USE DEF WorldTyped
<1>1. CASE Still
  BY <1>1 DEF Still
<1>2. CASE Grasped
  <2>1. /\ Closing /\ where[part'] # "floor"
        /\ where' = [where EXCEPT ![part'] = "hand"]
    BY <1>2 DEF Grasped, Moved, Closing
  <2>2. phase' # "done" /\ "hand" \in Spots
    BY <2>1 DEF Closing, Spots
  <2>3. QED
    BY <2>1, <2>2
<1>3. ASSUME NEW i \in Parts, NEW to \in Places(i), where' = [where EXCEPT ![i] = to],
             where[i] # "floor"
      PROVE  /\ where' \in [Parts -> Spots]
             /\ \A j \in Parts : where[j] = "floor" => where'[j] = "floor"
             /\ \A j \in Parts : where'[j] = "hand" => where[j] = "hand"
  <2>1. to \in Spots /\ to # "hand"
    BY DEF Places, Spots
  <2>2. QED
    BY <1>3, <2>1
<1>4. CASE Falls
  <2>1. PICK i \in Parts : where[i] = "hand" /\ \E to \in Places(i) : Moved(i, to)
    BY <1>4 DEF Falls
  <2>2. PICK to \in Places(i) : where' = [where EXCEPT ![i] = to]
    BY <2>1 DEF Moved
  <2>3. ~HandEmpty
    BY <2>1 DEF HandEmpty
  <2>4. QED
    BY <1>3, <2>1, <2>2, <2>3
<1>5. CASE Knocked
  <2>1. PICK i \in Parts : /\ where[i] \notin {"hand", "floor"}
                           /\ \E to \in Places(i) : Moved(i, to)
    BY <1>5 DEF Knocked
  <2>2. PICK to \in Places(i) : where' = [where EXCEPT ![i] = to]
    BY <2>1 DEF Moved
  <2>3. phase' # "done"
    BY <1>5 DEF Knocked
  <2>4. QED
    BY <1>3, <2>1, <2>2, <2>3
<1>6. QED
  BY <1>1, <1>2, <1>4, <1>5 DEF Physics

(***************************************************************************)
(* One step of the environment.                                            *)
(***************************************************************************)
LEMMA CellEffect ==
    ASSUME WorldTyped, StandInv, StatusInv, CellStep, phase' # "done" \/ HandEmpty
    PROVE  /\ WorldTyped' /\ StandInv' /\ StatusInv' /\ SuccessInv'
           /\ \A i \in Parts : where'[i] = "hand" => where[i] = "hand" \/ (Closing /\ i = part')
           /\ phase' = "done" =>
                 /\ where' = where
                 /\ \A i \in Parts : status[i] \in {"vanished", "seated"}
                                        => status'[i] \in {"vanished", "seated"}
<1>1. /\ where' \in [Parts -> Spots]
      /\ \A i \in Parts : where[i] = "floor" => where'[i] = "floor"
      /\ \A i \in Parts : where'[i] = "hand" => where[i] = "hand" \/ (Closing /\ i = part')
      /\ phase' = "done" => where' = where
  BY PhysicsEffect DEF CellStep
<1>2. UpdateParts
  BY DEF CellStep, PostAction
<1>3. PICK touched \in SUBSET {i \in Bolts : where'[i] = "hole" /\ ~homed' /\ phase' # "done"},
           slow \in SUBSET {i \in Nuts : where'[i] = "bucket"} :
        /\ since' = [i \in Parts |-> Since(i, touched)]
        /\ status' = [i \in Parts |-> Status(i, touched, slow)]
        /\ stood' = [i \in Parts |-> IF status[i] = "vanished" THEN stood[i]
                                     ELSE IF Seated(i, touched) THEN stood[i] + 1 ELSE 0]
  BY <1>2 DEF UpdateParts
<1>4. \A i \in Parts : since[i] \in Int /\ stood[i] \in Int
  BY DEF WorldTyped
<1>5. \A i \in Parts : since'[i] = Since(i, touched) /\ since'[i] \in Int
  BY <1>3, <1>4 DEF Since
<1>6. \A i \in Parts : status'[i] = Status(i, touched, slow)
  BY <1>3
<1>7. \A i \in Parts : stood'[i] \in Int
  BY <1>3, <1>4
<1>8. WorldTyped'
  <2>1. \A i \in Parts : status'[i] \in PartStates
    BY <1>6 DEF Status, PartStates
  <2>2. QED
    BY <1>1, <1>3, <1>5, <1>7, <2>1 DEF WorldTyped
<1>9. ASSUME NEW i \in Parts, status[i] = "vanished"
      PROVE  status'[i] = "vanished" /\ stood'[i] = stood[i]
  <2>1. status'[i] = Status(i, touched, slow)
    BY <1>6
  <2>2. status'[i] = "vanished"
    BY <1>9, <2>1 DEF Status
  <2>3. QED
    BY <1>3, <1>9, <2>2
<1>10. ASSUME NEW i \in Parts, status[i] # "vanished", where'[i] = "floor"
       PROVE  status'[i] = "dropped"
  <2>1. status'[i] = Status(i, touched, slow)
    BY <1>6
  <2>2. QED
    BY <1>10, <2>1 DEF Status
<1>11. ASSUME NEW i \in Parts, status[i] # "vanished", where'[i] # "floor"
       PROVE  /\ stood'[i] = since'[i] + 1
              /\ Seated(i, touched) =>
                    \/ status'[i] = "vanished" /\ stood'[i] > Hold
                    \/ status'[i] = "seated"
              /\ ~Seated(i, touched) => status'[i] \in {"in_bucket", "loose"}
              /\ status'[i] = "in_bucket" => where'[i] = "bucket"
  <2>1. stood[i] = since[i] + 1
    BY <1>1, <1>11 DEF StandInv
  <2>2. CASE Seated(i, touched)
    <3>1. stood'[i] = stood[i] + 1 /\ since'[i] = since[i] + 1
      BY <1>3, <1>5, <1>11, <2>2 DEF Since
    <3>2. status'[i] = IF since'[i] >= Hold THEN "vanished" ELSE "seated"
      <4>1. status'[i] = Status(i, touched, slow)
        BY <1>6
      <4>2. QED
        BY <1>11, <2>2, <4>1 DEF Status
    <3>3. QED
      BY <1>4, <1>5, <2>1, <2>2, <3>1, <3>2
  <2>3. CASE ~Seated(i, touched)
    <3>1. stood'[i] = 0 /\ since'[i] = -1
      BY <1>3, <1>5, <1>11, <2>3 DEF Since
    <3>2. \/ status'[i] = "in_bucket" /\ where'[i] = "bucket"
          \/ status'[i] = "loose"
      BY <1>6, <1>11, <2>3 DEF Status
    <3>3. QED
      BY <2>3, <3>1, <3>2
  <2>4. QED
    BY <2>2, <2>3
<1>12. StandInv'
  BY <1>9, <1>11 DEF StandInv
<1>13. StatusInv'
  <2> SUFFICES ASSUME NEW i \in Parts
      PROVE /\ status'[i] = "dropped" => where'[i] = "floor"
            /\ status'[i] = "in_bucket" => where'[i] = "bucket"
            /\ status'[i] = "seated" => i \in Bolts /\ where'[i] = "hole"
            /\ status'[i] = "vanished" => i \in Bolts /\ stood'[i] > Hold
    BY DEF StatusInv
  <2>1. CASE status[i] = "vanished"
    BY <1>9, <2>1 DEF StatusInv
  <2>2. CASE status[i] # "vanished" /\ where'[i] = "floor"
    BY <1>10, <2>2
  <2>3. CASE status[i] # "vanished" /\ where'[i] # "floor"
    BY <1>11, <2>3 DEF Seated
  <2>4. QED
    BY <2>1, <2>2, <2>3
<1>14. SuccessInv'
  <2> SUFFICES ASSUME outcome' = "success"
      PROVE  /\ \A i \in Bolts : status'[i] = "vanished"
             /\ \A i \in Nuts : where'[i] = "bucket"
    BY DEF SuccessInv
  <2>1. \A i \in Parts : status'[i] = IF i \in Bolts THEN "vanished" ELSE "in_bucket"
    BY DEF CellStep, PostAction, Success
  <2>2. QED
    BY <1>13, <2>1 DEF StatusInv, Parts
<1>15. ASSUME phase' = "done", NEW i \in Parts, status[i] \in {"vanished", "seated"}
       PROVE  status'[i] \in {"vanished", "seated"}
  <2>1. CASE status[i] = "vanished"
    BY <1>9, <2>1
  <2>2. CASE status[i] = "seated"
    <3>1. i \in Bolts /\ where'[i] = "hole"
      BY <1>1, <1>15, <2>2 DEF StatusInv
    <3>2. touched = {}
      BY <1>15
    <3>3. Seated(i, touched)
      BY <3>1, <3>2 DEF Seated
    <3>4. QED
      BY <1>11, <2>2, <3>1, <3>3
  <2>3. QED
    BY <1>15, <2>1, <2>2
<1>16. QED
  BY <1>1, <1>8, <1>12, <1>13, <1>14, <1>15

(***************************************************************************)
(* What an act of the expert is: a failure, a choice, the end of a way     *)
(* home, or a step that keeps the target.                                  *)
(***************************************************************************)
Fails(from, held) ==
    /\ FailGrasp(from, held) /\ held \in HeldNow
    /\ from \notin AtRest
    /\ held => mode # "expert" \/ from \in {"above", "descend", "hover"}
    /\ mode = "insert" => from = "hover"

Proceeds ==
    /\ UNCHANGED <<part, homed, attempts, skipped>> /\ ~homed
    /\ part = None => phase = "done"
    /\ phase' = "above" => phase = "above"
    /\ phase' = "descend" => phase \in {"above", "descend"} /\ gripper' = "pre"
    /\ phase' = "done" <=> phase = "done"
    /\ phase' \notin AtRest => phase \notin AtRest
    /\ gripper' = "open"
         => gripper = "open" \/ phase' \in {"release", "let_go"}
            \/ phase = "return" \/ HandEmpty

LEMMA ActEffect ==
    ASSUME HandInv, mode = "expert", Act
    PROVE  Select \/ Home \/ Proceeds \/ \E from, held : Fails(from, held)
<1> SUFFICES ASSUME ~Select, ~Home, ~\E from, held : Fails(from, held)
             PROVE  Proceeds
  OBVIOUS
<1>1. ASSUME NEW from \in {"above", "descend", "hover"} PROVE ~TimesOut(from)
  BY <1>1 DEF TimesOut, Fails, AtRest
<1>2. ASSUME NEW from \in {"lift", "carry", "reorient", "rotate", "to_hole", "hover", "enter"}
      PROVE  ~Misses(from)
  BY <1>2 DEF Misses, Fails, AtRest
<1>3. CASE HomeFirst
  BY <1>3 DEF HomeFirst, Go, Proceeds, AtRest, HandInv
<1>4. CASE Above \/ Descend \/ Close
  BY <1>1, <1>4 DEF Above, Descend, Close, Go, Keep, Proceeds, AtRest, HandInv
<1>5. CASE Lift \/ Carry \/ Reorient \/ Rotate \/ ToHole
  BY <1>2, <1>5 DEF Lift, Carry, Reorient, Rotate, ToHole, Carried, Go, Keep, Proceeds, AtRest,
                    HandInv
<1>6. CASE Hover \/ Enter
  BY <1>1, <1>2, <1>6 DEF Hover, Enter, Carried, Go, Keep, Proceeds, AtRest, HandInv
<1>7. CASE Release \/ LetGo \/ Up \/ Return
  BY <1>7 DEF Release, LetGo, Up, Return, Go, Keep, Proceeds, AtRest, HandInv
<1>8. CASE Done \/ Waits
  BY <1>8 DEF Done, Waits, expertVars, Go, Keep, Proceeds, AtRest, HandInv
<1>9. QED
  BY <1>3, <1>4, <1>5, <1>6, <1>7, <1>8 DEF Act

(***************************************************************************)
(* A failure counts against the target and opens the hand only where it    *)
(* does not hold the target, or before anything was lifted.                *)
(***************************************************************************)
LEMMA FailEffect ==
    ASSUME BooksTyped, HandInv, ModeInv, TriesInv, NEW from, NEW held, Fails(from, held)
    PROVE  /\ BooksTyped' /\ part' = part /\ part \in Parts /\ ~homed /\ ~homed'
           /\ phase' \in {"select", "return"}
           /\ \A i \in Parts : i \in skipped' <=> attempts'[i] = Tries
           /\ gripper' = "open" => gripper = "open" \/ HandEmpty \/ mode = "pick"
<1>1. /\ phase = from /\ phase \notin AtRest /\ held \in HeldNow
      /\ attempts' = [attempts EXCEPT ![part] = @ + 1]
      /\ skipped' = IF attempts'[part] >= Tries THEN skipped \cup {part} ELSE skipped
      /\ \/ held /\ from \in {"rotate", "to_hole", "hover", "enter"}
              /\ phase' = "return" /\ gripper' = gripper
         \/ ~(held /\ from \in {"rotate", "to_hole", "hover", "enter"})
              /\ phase' = "select" /\ gripper' = "open"
      /\ part' = part /\ homed' = homed
  BY DEF Fails, FailGrasp
<1>2. part \in Parts /\ part \notin skipped /\ ~homed
  BY <1>1 DEF BooksTyped, HandInv, TriesInv, AtRest
<1>3. attempts[part] \in 0..Tries /\ attempts[part] # Tries /\ Tries = 3
  BY <1>2 DEF BooksTyped, TriesInv, Tries
<1>4. attempts'[part] = attempts[part] + 1 /\ attempts' \in [Parts -> 0..Tries]
  BY <1>1, <1>2, <1>3 DEF BooksTyped
<1>5. BooksTyped'
  BY <1>1, <1>2, <1>4 DEF BooksTyped
<1>6. \A i \in Parts : i \in skipped' <=> attempts'[i] = Tries
  <2> SUFFICES ASSUME NEW i \in Parts PROVE i \in skipped' <=> attempts'[i] = Tries
    OBVIOUS
  <2>1. CASE i = part
    BY <1>1, <1>2, <1>3, <1>4, <2>1
  <2>2. CASE i # part
    <3>1. attempts'[i] = attempts[i] /\ (i \in skipped' <=> i \in skipped)
      BY <1>1, <2>2 DEF BooksTyped
    <3>2. QED
      BY <3>1 DEF TriesInv
  <2>3. QED
    BY <2>1, <2>2
<1>7. gripper' = "open" => gripper = "open" \/ HandEmpty \/ mode = "pick"
  <2> SUFFICES ASSUME gripper' = "open", gripper # "open", mode # "pick", NEW i \in Parts,
                      where[i] = "hand"
               PROVE  FALSE
    BY DEF HandEmpty
  <2>1. i = part
    BY DEF HandInv
  <2>2. held
    BY <1>1, <2>1 DEF HeldNow
  <2>3. from \notin {"rotate", "to_hole", "hover", "enter"}
    BY <1>1, <2>2
  <2>4. mode = "expert" /\ from \in {"above", "descend"}
    BY <2>2, <2>3 DEF Fails, ModeInv
  <2>5. HandEmpty
    BY <1>1, <2>4 DEF HandInv
  <2>6. QED
    BY <2>5 DEF HandEmpty
<1>8. QED
  BY <1>1, <1>2, <1>5, <1>6, <1>7

OpensHere ==
    \A i \in Parts :
        where[i] = "hand" /\ gripper # "open" /\ gripper' = "open" =>
            phase' \in {"release", "let_go", "return"}
            \/ phase = "return" \/ mode = "pick"

LEMMA ExpertKeeps == CellInv /\ ExpertStep => CellInv' /\ OpensHere
<1> SUFFICES ASSUME CellInv, ExpertStep PROVE CellInv' /\ OpensHere
  OBVIOUS
<1> /\ BooksTyped /\ WorldTyped /\ HandInv /\ ModeInv /\ TriesInv
    /\ StandInv /\ StatusInv /\ SuccessInv /\ DoneInv
  BY DEF CellInv
<1>1. mode = "expert" /\ mode' = "expert" /\ Act /\ CellStep
  BY DEF ExpertStep
<1>2. ModeInv'
  BY <1>1 DEF ModeInv
<1>3. ASSUME phase' # "done" \/ HandEmpty
      PROVE  /\ WorldTyped' /\ StandInv' /\ StatusInv' /\ SuccessInv'
             /\ \A i \in Parts : where'[i] = "hand" => where[i] = "hand" \/ (Closing /\ i = part')
             /\ phase' = "done" =>
                   /\ where' = where
                   /\ \A i \in Parts : status[i] \in {"vanished", "seated"}
                                          => status'[i] \in {"vanished", "seated"}
  BY <1>1, <1>3, CellEffect
<1>4. CASE Select
  <2>1. /\ phase = "select" /\ (part = None \/ homed) /\ ~homed' /\ gripper' = "open"
        /\ UNCHANGED <<attempts, skipped>>
        /\ \/ Candidates = {} /\ phase' = "done" /\ part' = None
           \/ phase' = "above" /\ part' \in Candidates
    BY <1>4 DEF Select
  <2>2. HandEmpty
    BY <2>1 DEF HandInv
  <2>3. HandEmpty'
    BY <1>3, <2>1, <2>2 DEF HandEmpty, Closing
  <2>4. /\ BooksTyped' /\ HandInv' /\ TriesInv'
    <3>1. part' \in Parts \cup {None} /\ part' \notin skipped
      BY <2>1 DEF Candidates, BooksTyped
    <3>2. BooksTyped' /\ TriesInv'
      BY <2>1, <3>1 DEF BooksTyped, TriesInv
    <3>3. HandInv'
      <4>1. phase' = "above" => part' # None
        BY <2>1 DEF Candidates
      <4>2. QED
        BY <2>1, <2>3, <4>1 DEF HandInv, HandEmpty
    <3>4. QED
      BY <3>2, <3>3
  <2>5. DoneInv'
    <3> SUFFICES ASSUME phase' = "done", NEW i \in Parts PROVE Settled(i)'
      BY DEF DoneInv
    <3>1. i \notin Candidates
      BY <2>1
    <3>2. /\ where' = where /\ attempts' = attempts
          /\ status[i] \in {"vanished", "seated"} => status'[i] \in {"vanished", "seated"}
      BY <1>3, <2>1, <2>2
    <3>3. \/ attempts[i] = Tries
          \/ status[i] \in {"vanished", "seated"}
          \/ where[i] \in {"far", "floor", "bucket"}
      BY <3>1 DEF Candidates, TriesInv, StatusInv
    <3>4. QED
      BY <3>2, <3>3 DEF Settled
  <2>6. OpensHere
    BY <2>2 DEF OpensHere, HandEmpty
  <2>7. QED
    BY <1>2, <1>3, <2>2, <2>4, <2>5, <2>6 DEF CellInv
<1>5. CASE Home
  <2>1. /\ phase = "home" /\ phase' = "select" /\ HandEmpty /\ homed' = TRUE
        /\ UNCHANGED <<gripper, part, attempts, skipped>>
    BY <1>5 DEF Home, Go
  <2>2. HandEmpty'
    BY <1>3, <2>1 DEF HandEmpty, Closing
  <2>3. BooksTyped' /\ HandInv' /\ TriesInv' /\ DoneInv' /\ OpensHere
    BY <2>1, <2>2 DEF BooksTyped, HandInv, HandEmpty, TriesInv, AtRest, DoneInv, OpensHere
  <2>4. QED
    BY <1>2, <1>3, <2>1, <2>3 DEF CellInv
<1>6. CASE Proceeds
  <2>1. /\ UNCHANGED <<part, homed, attempts, skipped>> /\ ~homed
        /\ phase' = "done" <=> phase = "done"
        /\ phase' = "done" => HandEmpty
        /\ part = None => phase = "done"
    BY <1>6 DEF Proceeds, HandInv
  <2>2. /\ WorldTyped' /\ StandInv' /\ StatusInv' /\ SuccessInv'
        /\ \A i \in Parts : where'[i] = "hand" => where[i] = "hand" \/ (Closing /\ i = part')
    BY <1>3, <2>1
  <2>3. BooksTyped' /\ TriesInv'
    BY <1>6, <2>1 DEF BooksTyped, TriesInv, Proceeds
  <2>4. HandInv'
    <3>1. \A i \in Parts : where'[i] = "hand" => i = part'
      BY <2>1, <2>2 DEF HandInv
    <3>2. /\ phase' = "above" \/ part' = None => HandEmpty /\ ~Closing
          /\ phase' = "descend" => HandEmpty /\ ~Closing /\ gripper' = "pre"
      BY <1>1, <1>6, <2>1 DEF Proceeds, HandInv, Closing
    <3>3. HandEmpty /\ ~Closing => HandEmpty'
      BY <2>2 DEF HandEmpty
    <3>4. QED
      BY <2>1, <3>1, <3>2, <3>3 DEF HandInv
  <2>5. DoneInv'
    <3> SUFFICES ASSUME phase' = "done", NEW i \in Parts PROVE Settled(i)'
      BY DEF DoneInv
    <3>1. /\ where' = where /\ attempts' = attempts
          /\ status[i] \in {"vanished", "seated"} => status'[i] \in {"vanished", "seated"}
      BY <1>3, <2>1
    <3>2. Settled(i)
      BY <2>1 DEF DoneInv
    <3>3. QED
      BY <3>1, <3>2 DEF Settled
  <2>6. OpensHere
    BY <1>6 DEF OpensHere, Proceeds, HandEmpty
  <2>7. QED
    BY <1>2, <2>2, <2>3, <2>4, <2>5, <2>6 DEF CellInv
<1>7. CASE \E from, held : Fails(from, held)
  <2>1. PICK from, held : Fails(from, held)
    BY <1>7
  <2>2. /\ BooksTyped' /\ part' = part /\ part \in Parts /\ ~homed'
        /\ phase' \in {"select", "return"}
        /\ \A i \in Parts : i \in skipped' <=> attempts'[i] = Tries
        /\ gripper' = "open" => gripper = "open" \/ HandEmpty \/ mode = "pick"
    BY <2>1, FailEffect
  <2>3. /\ WorldTyped' /\ StandInv' /\ StatusInv' /\ SuccessInv'
        /\ \A i \in Parts : where'[i] = "hand" => where[i] = "hand" \/ (Closing /\ i = part')
    BY <1>3, <2>2
  <2>4. HandInv'
    <3>1. \A i \in Parts : where'[i] = "hand" => i = part'
      BY <2>2, <2>3 DEF HandInv
    <3>2. QED
      BY <2>2, <3>1 DEF HandInv
  <2>5. TriesInv' /\ DoneInv' /\ OpensHere
    BY <2>2 DEF TriesInv, AtRest, DoneInv, OpensHere, HandEmpty
  <2>6. QED
    BY <1>2, <2>2, <2>3, <2>4, <2>5 DEF CellInv
<1>8. QED
  BY <1>1, <1>4, <1>5, <1>6, <1>7, ActEffect

(***************************************************************************)
(* The skills: they take over where the expert picks or inserts, act while *)
(* its clock stands still, and hand back by a verdict.                     *)
(***************************************************************************)
LEMMA TakesOverKeeps ==
    CellInv /\ (PickAttaches \/ InsertAttaches) => CellInv' /\ OpensHere
<1> SUFFICES ASSUME CellInv, PickAttaches \/ InsertAttaches PROVE CellInv' /\ OpensHere
  OBVIOUS
<1>1. /\ UNCHANGED <<expertVars, where, status, since, outcome, stood>>
      /\ \/ mode' = "pick" /\ phase = "descend"
         \/ mode' = "insert" /\ phase = "hover"
  BY DEF PickAttaches, InsertAttaches, TakesOver
<1>2. /\ UNCHANGED <<phase, part, homed, gripper, attempts, skipped>>
      /\ UNCHANGED <<where, status, since, outcome, stood>> /\ HandEmpty' = HandEmpty
  BY <1>1 DEF expertVars, HandEmpty
<1>3. BooksTyped' /\ WorldTyped' /\ TriesInv' /\ StandInv' /\ StatusInv'
  BY <1>2 DEF CellInv, BooksTyped, WorldTyped, TriesInv, StandInv, StatusInv
<1>4. HandInv' /\ ModeInv'
  BY <1>1, <1>2 DEF CellInv, HandInv, ModeInv
<1>5. SuccessInv' /\ DoneInv' /\ OpensHere
  BY <1>2 DEF CellInv, SuccessInv, DoneInv, Settled, OpensHere
<1>6. QED
  BY <1>3, <1>4, <1>5 DEF CellInv

LEMMA SkillActs == CellInv /\ SkillStep => CellInv' /\ OpensHere
<1> SUFFICES ASSUME CellInv, SkillStep PROVE CellInv' /\ OpensHere
  OBVIOUS
<1> /\ BooksTyped /\ WorldTyped /\ HandInv /\ ModeInv /\ TriesInv
    /\ StandInv /\ StatusInv /\ SuccessInv /\ DoneInv
  BY DEF CellInv
<1>1. /\ UNCHANGED <<phase, part, homed, attempts, skipped, mode>>
      /\ mode # "expert" /\ SkillMoves /\ CellStep
  BY DEF SkillStep
<1>2. \/ mode = "pick" /\ phase = "descend"
      \/ mode = "insert" /\ phase = "hover" /\ gripper' = "close"
  BY <1>1 DEF ModeInv, SkillMoves
<1>3. /\ WorldTyped' /\ StandInv' /\ StatusInv' /\ SuccessInv'
      /\ \A i \in Parts : where'[i] = "hand" => where[i] = "hand" \/ (Closing /\ i = part')
  BY <1>1, <1>2, CellEffect
<1>4. \A i \in Parts : where'[i] = "hand" => i = part'
  BY <1>1, <1>3 DEF HandInv
<1>5. HandInv'
  BY <1>1, <1>2, <1>4 DEF HandInv
<1>6. BooksTyped' /\ ModeInv' /\ TriesInv' /\ DoneInv' /\ OpensHere
  BY <1>1, <1>2 DEF BooksTyped, ModeInv, TriesInv, DoneInv, OpensHere
<1>7. QED
  BY <1>3, <1>5, <1>6 DEF CellInv

LEMMA HandsBackKeeps ==
    CellInv /\ (SkillSucceeds \/ SkillFails) => CellInv' /\ OpensHere
<1> SUFFICES ASSUME CellInv, SkillSucceeds \/ SkillFails PROVE CellInv' /\ OpensHere
  OBVIOUS
<1> /\ BooksTyped /\ WorldTyped /\ HandInv /\ ModeInv /\ TriesInv
    /\ StandInv /\ StatusInv /\ SuccessInv /\ DoneInv
  BY DEF CellInv
<1>1. /\ mode # "expert" /\ mode' = "expert"
      /\ UNCHANGED <<where, status, since, outcome, stood>>
  BY DEF SkillSucceeds, SkillFails
<1>2. \/ mode = "pick" /\ phase = "descend"
      \/ mode = "insert" /\ phase = "hover"
  BY <1>1 DEF ModeInv
<1>3. WorldTyped' /\ ModeInv' /\ StandInv' /\ StatusInv' /\ SuccessInv'
  BY <1>1 DEF WorldTyped, ModeInv, StandInv, StatusInv, SuccessInv
<1>4. CASE SkillSucceeds
  <2>1. /\ phase' \in {"let_go", "carry", "reorient"}
        /\ UNCHANGED <<gripper, part, homed, attempts, skipped>>
    BY <1>4 DEF SkillSucceeds
  <2>2. BooksTyped' /\ HandInv' /\ TriesInv' /\ DoneInv' /\ OpensHere
    BY <1>1, <1>2, <2>1
    DEF BooksTyped, HandInv, TriesInv, AtRest, DoneInv, OpensHere
  <2>3. QED
    BY <1>3, <2>2 DEF CellInv
<1>5. CASE SkillFails
  <2>1. PICK held \in HeldNow : FailGrasp(phase, held)
    BY <1>5 DEF SkillFails, TimesOut
  <2>2. Fails(phase, held)
    BY <1>1, <1>2, <2>1 DEF Fails, AtRest
  <2>3. /\ BooksTyped' /\ part' = part /\ part \in Parts /\ ~homed'
        /\ phase' \in {"select", "return"}
        /\ \A i \in Parts : i \in skipped' <=> attempts'[i] = Tries
        /\ gripper' = "open" => gripper = "open" \/ HandEmpty \/ mode = "pick"
    BY <2>2, FailEffect
  <2>4. HandInv'
    BY <1>1, <2>3 DEF HandInv
  <2>5. TriesInv' /\ DoneInv' /\ OpensHere
    BY <2>3 DEF TriesInv, AtRest, DoneInv, OpensHere, HandEmpty
  <2>6. QED
    BY <1>3, <2>3, <2>4, <2>5 DEF CellInv
<1>6. QED
  BY <1>4, <1>5

LEMMA CellKeeps == CellInv /\ [SortNext]_sortVars => CellInv' /\ [OpensHere]_sortVars
<1> SUFFICES ASSUME CellInv, [SortNext]_sortVars PROVE CellInv' /\ [OpensHere]_sortVars
  OBVIOUS
<1>1. CASE SortNext
  BY <1>1, ExpertKeeps, TakesOverKeeps, SkillActs, HandsBackKeeps DEF SortNext
<1>2. CASE UNCHANGED sortVars
  <2>1. /\ UNCHANGED <<phase, part, homed, gripper, attempts, skipped>>
        /\ UNCHANGED <<mode, where, status, since, outcome, stood>>
        /\ HandEmpty' = HandEmpty
    BY <1>2 DEF sortVars, expertVars, HandEmpty
  <2>2. BooksTyped' /\ WorldTyped' /\ HandInv' /\ ModeInv' /\ TriesInv'
    BY <2>1 DEF CellInv, BooksTyped, WorldTyped, HandInv, ModeInv, TriesInv
  <2>3. StandInv' /\ StatusInv' /\ SuccessInv' /\ DoneInv'
    BY <2>1 DEF CellInv, StandInv, StatusInv, SuccessInv, DoneInv, Settled
  <2>4. QED
    BY <1>2, <2>2, <2>3 DEF CellInv
<1>3. QED
  BY <1>1, <1>2

(***************************************************************************)
(* An end is earned: a bolt counts only after it stood untouched for the   *)
(* whole time in one stretch, success means that all are sorted, and a     *)
(* part that a finished expert leaves is sorted, was failed three times or *)
(* is out of its reach.                                                    *)
(***************************************************************************)
THEOREM SortingIsEarned == SortSpec => []EndIsEarned
<1>1. CellInv => EndIsEarned
  <2> SUFFICES ASSUME CellInv PROVE EndIsEarned
    OBVIOUS
  <2>1. \A i \in Parts : status[i] = "vanished" => i \in Bolts /\ stood[i] > Hold
    BY DEF CellInv, StatusInv
  <2>2. outcome = "success" => /\ \A i \in Bolts : status[i] = "vanished"
                               /\ \A i \in Nuts : where[i] = "bucket"
    BY DEF CellInv, SuccessInv
  <2>3. phase = "done" => \A i \in Parts :
            \/ status[i] \in {"vanished", "seated", "in_bucket"}
            \/ attempts[i] = Tries
            \/ where[i] \in {"far", "floor", "bucket"}
    BY DEF CellInv, DoneInv, Settled
  <2>4. QED
    BY <2>1, <2>2, <2>3 DEF EndIsEarned
<1>2. SortInit => CellInv
  BY CellAtFirst
<1>3. CellInv /\ [SortNext]_sortVars => CellInv'
  BY CellKeeps
<1>4. QED
  BY <1>1, <1>2, <1>3, PTL DEF SortSpec

(***************************************************************************)
(* The hand is opened on a part only over the bucket, in the hole or on    *)
(* its way back; a failed pick may drop it where it picked it.             *)
(***************************************************************************)
THEOREM HandOpensInPlace == SortSpec => OpensInPlace
<1>1. SortInit => CellInv
  BY CellAtFirst
<1>2. CellInv /\ [SortNext]_sortVars => CellInv' /\ [OpensHere]_sortVars
  BY CellKeeps
<1>3. SortSpec => [][OpensHere]_sortVars
  BY <1>1, <1>2, PTL DEF SortSpec
<1>4. QED
  BY <1>3 DEF OpensInPlace, OpensHere
=============================================================================
