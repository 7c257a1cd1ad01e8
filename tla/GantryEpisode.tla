--------------------------- MODULE GantryEpisode ---------------------------
(***************************************************************************)
(* An episode of the gantry with its scripted expert, as record_demos rolls *)
(* it (nfv/sim/env, experts, tasks and data/record): the expert's phases,  *)
(* the control samples of a policy step with the counters of the task, and *)
(* the verdict.  One environment rolls all of the episodes and keeps each  *)
(* task's object between them.  Positions and forces are a choice of the   *)
(* model among the levels that the code tells apart.                       *)
(***************************************************************************)
EXTENDS Integers, Sequences, FiniteSets

CONSTANTS
    Limit,       \* policy steps of an episode (TIME_LIMIT_S, at 10 Hz)
    Samples,     \* control samples of a policy step (CTRL_PER_POLICY)
    GraspSteps,  \* policy steps for which the gripper closes
    EngageMax,   \* and after which the wipe starts, loaded or not
    Cells,       \* coverage cells of the strip
    MinContact,  \* control samples in contact that a wipe needs (MIN_CONTACT_S)
    MaxEpisodes  \* bound: episodes

ASSUME GantryAssumption ==
    /\ Limit \in Nat \ {0} /\ Samples \in Nat \ {0} /\ Cells \in Nat \ {0, 1}
    /\ GraspSteps \in Nat /\ EngageMax \in Nat /\ MinContact \in Nat /\ MaxEpisodes \in Nat

VARIABLES
    task,
    stage,    \* "idle", "act", "ctrl", "verdict" or "done"
    rolled,   \* episodes started
    fsm,      \* the expert's phase (_phase)
    dwell,    \* steps spent closing or engaging (_grasp_i, _engage_i)
    dir, at,  \* wipe: the direction of the sweep and the cell under the tip
    subtask,  \* the labels recorded so far, one for each policy step
    tick,     \* control samples of this policy step
    force, peak,  \* levels of the latest and the highest force of the episode
    gained,   \* height of the cube, or depth of the peg: 0, 1 or 2
    clicked,  \* press: the buttons that clicked
    contact, track, covered,  \* wipe: samples in contact, those of them in the band, cells
    aborted, outcome

gantryVars == <<task, stage, rolled, fsm, dwell, dir, at, subtask, tick, force, peak,
                gained, clicked, contact, track, covered, aborted, outcome>>

Tasks == {"t0", "t1", "t2", "t3"}

(***************************************************************************)
(* The force: none; contact below the wipe's target; in the band around    *)
(* the target (2), the part of it that counts as loaded (3); above the     *)
(* band, which is also 1.5 times a button's threshold; beyond the abort.   *)
(***************************************************************************)
Forces == 0..5
InContact(f) == f > 0
InBand(f) == f \in {2, 3}
Loaded(f) == f >= 3
TooHard(f) == f >= 4
Aborts(f) == f = 5

GantryInit ==
    /\ task = "none" /\ stage = "idle" /\ rolled = 0
    /\ fsm = 0 /\ dwell = 0 /\ dir = 1 /\ at = 1 /\ subtask = <<>>
    /\ tick = 0 /\ force = 0 /\ peak = 0 /\ gained = 0
    /\ clicked = {} /\ contact = 0 /\ track = 0 /\ covered = {}
    /\ aborted = FALSE /\ outcome = "none"

\* Mutant: the counters of the task's object are left from its last episode.
MutReset(t) ==
    /\ rolled < MaxEpisodes
    /\ task' = t /\ stage' = "act" /\ rolled' = rolled + 1
    /\ fsm' = 0 /\ dwell' = 0 /\ dir' = 1 /\ at' = 1 /\ subtask' = <<>>
    /\ tick' = 0 /\ force' = 0 /\ peak' = 0 /\ gained' = 0
    /\ aborted' = FALSE /\ outcome' = "none"
    /\ UNCHANGED <<clicked, contact, track, covered>>

\* Env.reset, the task's randomize and a new expert.
Reset(t) ==
    /\ rolled < MaxEpisodes
    /\ task' = t /\ stage' = "act" /\ rolled' = rolled + 1
    /\ fsm' = 0 /\ dwell' = 0 /\ dir' = 1 /\ at' = 1 /\ subtask' = <<>>
    /\ tick' = 0 /\ force' = 0 /\ peak' = 0 /\ gained' = 0
    /\ clicked' = {} /\ contact' = 0 /\ track' = 0 /\ covered' = {}
    /\ aborted' = FALSE /\ outcome' = "none"

-----------------------------------------------------------------------------
(***************************************************************************)
(* The expert.  One call of act goes through every phase whose goal is     *)
(* reached and answers in the first whose goal is not.  `near' and `low'   *)
(* are the goals of the two approaching phases, as the expert measures     *)
(* them; the tool is not low before it has gone down for a step.           *)
(***************************************************************************)
PhaseSubtask == [t0 |-> <<0, 0, 1, 2>>, t1 |-> <<0, 0, 1, 2>>,
                 t2 |-> <<0, 0, 1>>, t3 |-> <<0, 1, 2, 3>>]
LastPhase(t) == Len(PhaseSubtask[t]) - 1
Label(t, p) == PhaseSubtask[t][p + 1]

Reached(near, low) ==
    {p \in 0..LastPhase(task) - 1 :
       IF p = 0 THEN near ELSE
       CASE task = "t0" -> IF p = 1 THEN low /\ fsm = 1 ELSE dwell + 1 > GraspSteps
         [] task = "t1" -> IF p = 1 THEN low /\ fsm = 1 ELSE "target" \in clicked
         [] task = "t2" -> Loaded(force) \/ dwell + 1 > EngageMax
         [] task = "t3" -> gained > 0 \/ (p = 1 /\ InContact(force))}

NextPhase(reached) ==
    CHOOSE q \in fsm..LastPhase(task) :
        q \notin reached /\ \A p \in fsm..q - 1 : p \in reached

\* The phase whose steps are counted, if the task has one.
Dwells == IF task = "t0" THEN {2} ELSE IF task = "t2" THEN {1} ELSE {}

Missed == 10 * Cardinality(covered) < 9 * Cells
AtEnd == at = IF dir > 0 THEN Cells ELSE 1

\* The end of the strip turns the sweep as long as cells were missed.
Sweep ==
    IF task = "t2" /\ fsm' = 2
    THEN /\ dir' = IF AtEnd /\ Missed THEN -dir ELSE dir
         /\ at' = IF at + dir' \in 1..Cells THEN at + dir' ELSE at
    ELSE UNCHANGED <<dir, at>>

\* record_episode: the expert's decision and its row.
Act ==
    /\ stage = "act"
    /\ \E near, low \in BOOLEAN : fsm' = NextPhase(Reached(near, low))
    /\ dwell' = IF \E p \in Dwells : fsm <= p /\ p <= fsm' THEN dwell + 1 ELSE dwell
    /\ Sweep
    /\ subtask' = Append(subtask, Label(task, fsm'))
    /\ tick' = 0 /\ stage' = "ctrl"
    /\ UNCHANGED <<task, rolled, force, peak, gained, clicked, contact, track, covered,
                   aborted, outcome>>

-----------------------------------------------------------------------------
(***************************************************************************)
(* Env.step.                                                               *)
(***************************************************************************)
(***************************************************************************)
(* What the simulator may do within a sample: nothing touches the tool     *)
(* while it travels at its start height; the cube rises only in the closed *)
(* gripper of a lift; the peg sinks only once the tool goes down, by no    *)
(* more than a level in a policy step; and a cap gives way only to the tip *)
(* that presses it.                                                        *)
(***************************************************************************)
Moved ==
    IF tick = 0 /\ fsm >= (CASE task = "t0" -> 3 [] task = "t3" -> 1 [] OTHER -> 4)
    THEN {gained - 1, gained, gained + 1} \cap 0..2
    ELSE {gained}
Felt == IF fsm = 0 THEN {0} ELSE Forces
Pressed == IF task = "t1" /\ fsm = 2 THEN SUBSET {"target", "other"} ELSE {{}}

\* on_ctrl_sample of the wipe.
Counts(f) ==
    IF task = "t2" /\ InContact(f)
    THEN /\ contact' = contact + 1
         /\ track' = IF InBand(f) THEN track + 1 ELSE track
         /\ \E there \in IF fsm = 2 THEN {{at}} ELSE {{}, {at}} : covered' = covered \cup there
    ELSE UNCHANGED <<contact, track, covered>>

Sample ==
    /\ stage = "ctrl"
    /\ \E f \in Felt, caps \in Pressed :
         /\ force' = f
         /\ peak' = IF f > peak THEN f ELSE peak
         /\ clicked' = clicked \cup caps
         /\ Counts(f)
         /\ aborted' = Aborts(f)
         /\ stage' = IF Aborts(f) \/ tick + 1 = Samples THEN "verdict" ELSE "ctrl"
    /\ gained' \in Moved
    /\ tick' = tick + 1
    /\ UNCHANGED <<task, rolled, fsm, dwell, dir, at, subtask, outcome>>

\* Mutant: a peak of exactly 1.5 times the threshold is neither of the two.
MutFailure ==
    CASE "other" \in clicked -> "wrong_button"
      [] clicked = {"target"} /\ peak > 4 -> "over_force"
      [] OTHER -> "none"

\* The failure of a task: of the press alone.
Failure ==
    CASE "other" \in clicked -> "wrong_button"
      [] clicked = {"target"} /\ TooHard(peak) -> "over_force"
      [] OTHER -> "none"

\* A peg below the surface by its length is in the hole, or beside the block.
Succeeds ==
    CASE task = "t0" -> {gained = 2}
      [] task = "t1" -> {"target" \in clicked /\ ~TooHard(peak) /\ Failure = "none"}
      [] task = "t2" -> {~Missed /\ contact >= MinContact /\ 10 * track >= 8 * contact}
      [] task = "t3" -> IF gained = 2 THEN BOOLEAN ELSE {FALSE}

\* In this order: the abort, the task's failure, its success, the time.
Verdict ==
    /\ stage = "verdict"
    /\ \E success \in Succeeds :
         outcome' = CASE aborted -> "force_abort"
                      [] ~aborted /\ Failure # "none" -> Failure
                      [] ~aborted /\ Failure = "none" /\ success -> "success"
                      [] ~aborted /\ Failure = "none" /\ ~success /\ Len(subtask) >= Limit -> "timeout"
                      [] OTHER -> "none"
    /\ stage' = IF outcome' = "none" THEN "act" ELSE "done"
    /\ UNCHANGED <<task, rolled, fsm, dwell, dir, at, subtask, tick, force, peak, gained,
                   clicked, contact, track, covered, aborted>>

GantryStep == Act \/ Sample \/ Verdict

-----------------------------------------------------------------------------
GantryTypeOK ==
    /\ task \in Tasks \cup {"none"} /\ stage \in {"idle", "act", "ctrl", "verdict", "done"}
    /\ rolled \in 0..MaxEpisodes
    /\ fsm \in 0..3 /\ dwell \in 0..Limit /\ dir \in {-1, 1} /\ at \in 1..Cells
    /\ Len(subtask) <= Limit /\ \A i \in DOMAIN subtask : subtask[i] \in 0..3
    /\ tick \in 0..Samples /\ force \in Forces /\ peak \in Forces /\ gained \in 0..2
    /\ clicked \subseteq {"target", "other"} /\ covered \subseteq 1..Cells
    /\ track <= contact /\ contact <= Limit * Samples
    /\ aborted \in BOOLEAN
    /\ outcome \in {"none", "success", "timeout", "force_abort", "wrong_button", "over_force"}

(***************************************************************************)
(* A press that clicked has ended its episode, as a success or a failure,  *)
(* before its expert acts again: no demo shows the tool backing off.       *)
(***************************************************************************)
ClickDecides == stage = "act" => clicked = {}

(***************************************************************************)
(* An episode that succeeded did so in its task's last part and by what    *)
(* happened in it, not by what the task's object kept of an earlier one:   *)
(* a wipe has lasted for the contact it needs, and a peg that reached the  *)
(* hole's floor was being inserted.                                        *)
(***************************************************************************)
SuccessIsEarned ==
    outcome = "success" =>
        /\ subtask[Len(subtask)] = Label(task, IF task = "t1" THEN 2 ELSE LastPhase(task))
        /\ task = "t2" => Len(subtask) * Samples >= MinContact
=============================================================================
