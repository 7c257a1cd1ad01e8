------------------------------ MODULE SortCell ------------------------------
(***************************************************************************)
(* One episode of sorting bolts and nuts: the environment's book-keeping   *)
(* of the parts (fvb/envs/sort_bolts_nuts), the scripted expert            *)
(* (fvb/policy/sort_expert), and the sequencer that lets learned skills    *)
(* take over the pick and the insertion (scripts/29_skill_sequencer).      *)
(* The physics is a choice: a pose is reached or its time is up, fingers   *)
(* grasp or miss, a part slips, and falls wherever it may.                 *)
(***************************************************************************)
EXTENDS Naturals, Integers, FiniteSets

CONSTANTS
    Bolts, Nuts,   \* the parts
    Hold,          \* steps a bolt stands seated before it vanishes
    Knocks,        \* bound: how often a part that nobody holds is moved
    Learned        \* the learned skills, a subset of {"pick", "insert"}

Parts == Bolts \cup Nuts
None == "none"
Tries == 3   \* failures after which a part is given up

ASSUME SortAssumption ==
    /\ Bolts \cap Nuts = {} /\ None \notin Parts
    /\ Hold \in Nat \ {0} /\ Knocks \in Nat
    /\ Learned \subseteq {"pick", "insert"}

VARIABLES
    phase, part, homed, gripper,  \* the expert's phase, target, flag and command
    attempts, skipped,            \* its failures by part, and the parts given up
    mode,                         \* who acts: "expert", "pick" or "insert"
    where,                        \* where[i]: the place of part i, or "hand"
    status, since,                \* the environment's PartState; since: in steps, or -1
    outcome,                      \* of the episode
    stood,                        \* updates bolt i has stood seated in a row (history)
    knocks

expertVars == <<phase, part, homed, gripper, attempts, skipped>>
sortVars == <<expertVars, mode, where, status, since, outcome, stood, knocks>>

\* "mouth": the tip is in the hole, the bolt not seated.  "far": out of reach.
Places(i) == {"bin", "block", "table", "far", "floor"}
             \cup IF i \in Bolts THEN {"hole", "mouth"} ELSE {"bucket"}

HandEmpty == \A i \in Parts : where[i] # "hand"

\* _held asks whether the part is near the pads: surely when they grip it.
HeldNow == {TRUE} \cup {h \in {FALSE} : where[part] # "hand"}

SortInit ==
    /\ phase = "select" /\ part = None /\ homed = TRUE /\ gripper = "open"
    /\ attempts = [i \in Parts |-> 0] /\ skipped = {}
    /\ mode = "expert"
    /\ where = [i \in Parts |-> "bin"]
    /\ status = [i \in Parts |-> "loose"]
    /\ since = [i \in Parts |-> -1]
    /\ outcome = "running"
    /\ stood = [i \in Parts |-> 0]
    /\ knocks = 0

-----------------------------------------------------------------------------
(***************************************************************************)
(* The expert: one act.  A phase that goes on changes nothing.             *)
(***************************************************************************)
Keep == UNCHANGED <<part, homed, attempts, skipped>>
Go(from, to) == phase = from /\ phase' = to

\* _next_part: the nearest of these; which it is depends on the poses.
Candidates ==
    {i \in Parts \ skipped :
        /\ status[i] \notin {"vanished", "in_bucket", "dropped", "seated"}
        /\ where[i] \notin {"far", "floor", "bucket"}}

HomeFirst ==
    /\ Go("select", "home")
    /\ part # None /\ ~homed
    /\ UNCHANGED <<gripper, part, homed, attempts, skipped>>

\* Sixteen steps at least: the hand has opened by then.
Home ==
    /\ Go("home", "select") /\ HandEmpty
    /\ homed' = TRUE
    /\ UNCHANGED <<gripper, part, attempts, skipped>>

Select ==
    /\ phase = "select" /\ (part = None \/ homed)
    /\ homed' = FALSE
    /\ gripper' = "open"
    /\ IF Candidates = {} THEN phase' = "done" /\ part' = None
       ELSE phase' = "above" /\ part' \in Candidates
    /\ UNCHANGED <<attempts, skipped>>

\* Mutant: whatever the hand holds, it opens and chooses again.
MutFailGrasp(from, held) ==
    /\ phase = from
    /\ attempts' = [attempts EXCEPT ![part] = @ + 1]
    /\ skipped' = IF attempts'[part] >= Tries THEN skipped \cup {part} ELSE skipped
    /\ phase' = "select" /\ gripper' = "open"
    /\ UNCHANGED <<part, homed>>

\* A held bolt is carried back from the hole, not dropped there.
FailGrasp(from, held) ==
    /\ phase = from
    /\ attempts' = [attempts EXCEPT ![part] = @ + 1]
    /\ skipped' = IF attempts'[part] >= Tries THEN skipped \cup {part} ELSE skipped
    /\ IF held /\ from \in {"rotate", "to_hole", "hover", "enter"}
       THEN phase' = "return" /\ UNCHANGED gripper
       ELSE phase' = "select" /\ gripper' = "open"
    /\ UNCHANGED <<part, homed>>

\* The time of a phase is up.
TimesOut(from) == phase = from /\ \E held \in HeldNow : FailGrasp(from, held)

\* The part is found missing.
Misses(from) == phase = from /\ FALSE \in HeldNow /\ FailGrasp(from, FALSE)

Above ==
    \/ phase = "above" /\ phase' \in {"above", "descend"} /\ gripper' = "pre" /\ Keep
    \/ TimesOut("above")

Descend ==
    \/ Go("descend", "close") /\ UNCHANGED gripper /\ Keep
    \/ TimesOut("descend")

Close == phase = "close" /\ phase' \in {"close", "lift"} /\ gripper' = "close" /\ Keep

Lift ==
    \/ /\ Go("lift", IF part \in Nuts THEN "carry" ELSE "reorient")
       /\ UNCHANGED gripper /\ Keep
    \/ Misses("lift")

\* On to the next phase when the pose is reached or late, unless it is missing.
Carried(from, to) ==
    \/ Go(from, to) /\ UNCHANGED gripper /\ Keep
    \/ Misses(from)

Carry == Carried("carry", "release")

\* Thirteen steps: the hand has opened by then.
Release ==
    /\ phase = "release" /\ phase' \in {"release"} \cup {p \in {"select"} : HandEmpty}
    /\ gripper' = "open"
    /\ Keep

\* Upright from the rack it needs no turn; else the first step of the turn.
Reorient ==
    \/ phase = "reorient" /\ phase' \in {"to_hole", "rotate"} /\ UNCHANGED gripper /\ Keep
    \/ Misses("reorient")

Rotate == Carried("rotate", "to_hole")

ToHole == Carried("to_hole", "hover")

\* Aligned, nearly so for long, or neither after 300 steps.
Hover == Carried("hover", "enter") \/ TimesOut("hover")

\* The tip is in or late; or it is caught, and the hover aims at another point.
Enter == Carried("enter", "let_go") \/ (Go("enter", "hover") /\ UNCHANGED gripper /\ Keep)

LetGo ==
    /\ phase = "let_go" /\ phase' \in {"let_go"} \cup {p \in {"up"} : HandEmpty}
    /\ gripper' = "open"
    /\ Keep

Up == Go("up", "select") /\ UNCHANGED gripper /\ Keep

\* Over the tray it opens and leaves in one step; late, it opens where it is.
Return == phase = "return" /\ phase' \in {"return", "select"} /\ gripper' = "open" /\ Keep

Done == Go("done", "done") /\ gripper' = "open" /\ Keep

Waits ==
    /\ phase \notin {"select", "above", "close", "release", "reorient", "let_go", "done"}
    /\ UNCHANGED expertVars

Act ==
    \/ HomeFirst \/ Home \/ Select \/ Above \/ Descend \/ Close \/ Lift
    \/ Carry \/ Release \/ Reorient \/ Rotate \/ ToHole \/ Hover \/ Enter
    \/ LetGo \/ Up \/ Return \/ Done \/ Waits

-----------------------------------------------------------------------------
(***************************************************************************)
(* What the world makes of it: at most one part changes its place.         *)
(***************************************************************************)
Moved(i, to) == where' = [where EXCEPT ![i] = to]

Still == UNCHANGED <<where, knocks>>

Grasped ==
    /\ gripper' = "close" /\ phase' \in {"descend", "close", "lift"} /\ HandEmpty
    /\ status[part'] # "vanished" /\ where[part'] \notin {"far", "floor"}
    /\ Moved(part', "hand")
    /\ UNCHANGED knocks

\* The fingers open, or it slips out of them.
Falls ==
    /\ \E i \in Parts : where[i] = "hand" /\ \E to \in Places(i) : Moved(i, to)
    /\ UNCHANGED knocks

\* Nothing moves the parts once the hand rests.
Knocked ==
    /\ knocks < Knocks /\ phase' # "done"
    /\ knocks' = knocks + 1
    /\ \E i \in Parts : /\ status[i] # "vanished" /\ where[i] \notin {"hand", "floor"}
                        /\ \E to \in Places(i) \ {where[i]} : Moved(i, to)

Physics == Still \/ Grasped \/ Falls \/ Knocked

-----------------------------------------------------------------------------
(***************************************************************************)
(* _update_parts and _post_action, after the physics of each step.         *)
(* touched: bolts in the hole that the gripper touches, never from home;   *)
(* slow: nuts in the bucket that are at rest.                              *)
(***************************************************************************)
Seated(i, touched) == i \in Bolts /\ where'[i] = "hole" /\ i \notin touched

\* Mutant: a bolt that is not seated keeps the time it was first seated.
MutSince(i, touched) ==
    IF status[i] = "vanished" \/ where'[i] = "floor" THEN since[i]
    ELSE IF Seated(i, touched) \/ since[i] >= 0 THEN since[i] + 1 ELSE -1

Since(i, touched) ==
    IF status[i] = "vanished" \/ where'[i] = "floor" THEN since[i]
    ELSE IF Seated(i, touched) THEN since[i] + 1 ELSE -1

Status(i, touched, slow) ==
    IF status[i] = "vanished" THEN "vanished"
    ELSE IF where'[i] = "floor" THEN "dropped"
    ELSE IF Seated(i, touched) THEN IF since'[i] >= Hold THEN "vanished" ELSE "seated"
    ELSE IF where'[i] = "bucket" /\ i \in slow THEN "in_bucket"
    ELSE "loose"

UpdateParts ==
    \E touched \in SUBSET {i \in Bolts : where'[i] = "hole" /\ ~homed' /\ phase' # "done"},
       slow \in SUBSET {i \in Nuts : where'[i] = "bucket"} :
        /\ since' = [i \in Parts |-> Since(i, touched)]
        /\ status' = [i \in Parts |-> Status(i, touched, slow)]
        /\ stood' = [i \in Parts |-> IF status[i] = "vanished" THEN stood[i]
                                     ELSE IF Seated(i, touched) THEN stood[i] + 1 ELSE 0]

Success == \A i \in Parts : status'[i] = IF i \in Bolts THEN "vanished" ELSE "in_bucket"

\* Too much force, an unstable simulation or the horizon may end any step.
PostAction ==
    /\ UpdateParts
    /\ IF Success THEN outcome' \in {"success", "failed"}
       ELSE outcome' \in {"running", "failed"}

CellStep == Physics /\ PostAction

-----------------------------------------------------------------------------
(***************************************************************************)
(* The sequencer.  A skill that takes over stops the expert's clock; what  *)
(* it left decides where the expert goes on.                               *)
(***************************************************************************)
EpisodeRuns == outcome = "running" /\ ~(Learned # {} /\ phase = "done")

TakesOver(skill, at) ==
    /\ skill \in Learned /\ mode = "expert" /\ phase = at
    /\ mode' = skill
    /\ UNCHANGED <<expertVars, where, status, since, outcome, stood, knocks>>

PickAttaches == EpisodeRuns /\ TakesOver("pick", "descend")
InsertAttaches == EpisodeRuns /\ part \in Bolts /\ TakesOver("insert", "hover")

ExpertStep ==
    /\ EpisodeRuns /\ mode = "expert"
    /\ ~("pick" \in Learned /\ phase = "descend")
    /\ Act /\ CellStep
    /\ UNCHANGED mode

\* The skill's action: the pick opens and closes the hand, the insertion holds.
SkillMoves ==
    /\ mode = "pick" => gripper' \in {"pre", "close", gripper}
    /\ mode = "insert" => gripper' = "close"

SkillStep ==
    /\ EpisodeRuns /\ mode # "expert"
    /\ UNCHANGED <<phase, part, homed, attempts, skipped, mode>>
    /\ SkillMoves /\ CellStep

\* A verdict on the step before: lifted and held for ten steps, or the tip in.
SkillSucceeds ==
    /\ EpisodeRuns /\ mode # "expert"
    /\ where[part] \in IF mode = "pick" THEN {"hand"} ELSE {"hand", "mouth", "hole"}
    /\ mode' = "expert"
    /\ phase' = IF mode = "insert" THEN "let_go" ELSE IF part \in Nuts THEN "carry" ELSE "reorient"
    /\ UNCHANGED <<gripper, part, homed, attempts, skipped>>
    /\ UNCHANGED <<where, status, since, outcome, stood, knocks>>

\* Dropped, too much force, or no steps left.
SkillFails ==
    /\ EpisodeRuns /\ mode # "expert"
    /\ TimesOut(phase)
    /\ mode' = "expert"
    /\ UNCHANGED <<where, status, since, outcome, stood, knocks>>

SortNext ==
    \/ ExpertStep \/ PickAttaches \/ InsertAttaches
    \/ SkillStep \/ SkillSucceeds \/ SkillFails

SortSpec == SortInit /\ [][SortNext]_sortVars

-----------------------------------------------------------------------------
SortTypeOK ==
    /\ part \in Parts \cup {None}
    /\ gripper \in {"open", "pre", "close"}
    /\ attempts \in [Parts -> 0..Tries] /\ skipped \subseteq Parts
    /\ \A i \in Parts : where[i] \in Places(i) \cup {"hand"}
    /\ Cardinality({i \in Parts : where[i] = "hand"}) <= 1
    /\ part = None => phase \in {"select", "done"}

(***************************************************************************)
(* An end is earned.  A bolt counts only after it stood in the hole,       *)
(* untouched, for the whole time in one stretch; success means all bolts   *)
(* did and all nuts lie in the bucket; and an expert that is done has left *)
(* only parts that are sorted, failed three times or are out of its reach. *)
(***************************************************************************)
EndIsEarned ==
    /\ \A i \in Parts : status[i] = "vanished" => i \in Bolts /\ stood[i] > Hold
    /\ outcome = "success" => /\ \A i \in Bolts : status[i] = "vanished"
                              /\ \A i \in Nuts : where[i] = "bucket"
    /\ phase = "done" => \A i \in Parts :
            \/ status[i] \in {"vanished", "seated", "in_bucket"}
            \/ attempts[i] = Tries
            \/ where[i] \in {"far", "floor", "bucket"}

(***************************************************************************)
(* The expert opens the hand on a part only over the bucket, in the hole   *)
(* or on its way back to the tray, whatever failed and whichever skill was *)
(* in charge; a pick that failed may drop it where it picked it.           *)
(***************************************************************************)
OpensInPlace ==
    [][\A i \in Parts :
          where[i] = "hand" /\ gripper # "open" /\ gripper' = "open" =>
              phase' \in {"release", "let_go", "return"}
              \/ phase = "return" \/ mode = "pick"]_sortVars
=============================================================================
