---------------------------- MODULE ForcePrompt ----------------------------
(***************************************************************************)
(* The force prompt of lesson 18 (nfv/sim/subtasks): a demo's subtask      *)
(* labels give each step a progress in hindsight, and at run time the      *)
(* progress a policy predicts moves a machine through the subtasks, whose  *)
(* current one completes the prompt.  Here the machine follows the         *)
(* hindsight progress of a recorded demo, a perfect prediction.            *)
(***************************************************************************)
EXTENDS GantryEpisode

VARIABLES
    shown,  \* steps of the demo the machine has followed
    current,  \* the machine's subtask, a position in Prompts(task)
    armed

promptVars == <<shown, current, armed>>

-----------------------------------------------------------------------------
\* hindsight_progress: the steps of the run of equal labels around step t.
Between(i, t) == (IF i < t THEN i ELSE t)..(IF i < t THEN t ELSE i)
Run(ids, t) == {i \in DOMAIN ids : \A j \in Between(i, t) : ids[j] = ids[t]}

\* k of s = k / (n - 1), and n - 1.  A run of one step has s = 1.
Done(ids, t) == Cardinality({i \in Run(ids, t) : i < t})
Span(ids, t) == Cardinality(Run(ids, t)) - 1
AtLeast(ids, t, tenths) == 10 * Done(ids, t) >= tenths * Span(ids, t)

\* s >= ADVANCE_AT and s < REARM_BELOW.
Advances(ids, t) == AtLeast(ids, t, 8)
Rearms(ids, t) == ~AtLeast(ids, t, 3)

-----------------------------------------------------------------------------
\* task_subtasks: the labels some phase of the task's expert maps to, in order.
Subtasks(t) == {PhaseSubtask[t][p] : p \in DOMAIN PhaseSubtask[t]}
Prompts(t) == Cardinality(Subtasks(t))
Rank(t, label) == Cardinality({l \in Subtasks(t) : l < label}) + 1

PromptInit == GantryInit /\ shown = 0 /\ current = 1 /\ armed = TRUE

\* Only the demos of successes are stored; the machine starts at the first subtask.
StoredDemo == stage = "done" /\ outcome = "success"

\* Mutant: the machine does not wait for the progress to fall.
MutUpdateMachine ==
    /\ current' = IF Advances(subtask, shown + 1) /\ current < Prompts(task) THEN current + 1 ELSE current
    /\ armed' = armed

\* SubtaskMachine.update.
UpdateMachine ==
    IF armed
    THEN LET advances == Advances(subtask, shown + 1) /\ current < Prompts(task) IN
         /\ current' = IF advances THEN current + 1 ELSE current
         /\ armed' = ~advances
    ELSE /\ current' = current
         /\ armed' = Rearms(subtask, shown + 1)

Follow ==
    /\ StoredDemo /\ shown < Len(subtask)
    /\ shown' = shown + 1
    /\ UpdateMachine
    /\ UNCHANGED gantryVars

NewEpisode ==
    /\ stage = "idle" \/ (stage = "done" /\ (StoredDemo => shown = Len(subtask)))
    /\ \E t \in Tasks : Reset(t)
    /\ shown' = 0 /\ current' = 1 /\ armed' = TRUE

PromptNext ==
    \/ NewEpisode
    \/ GantryStep /\ UNCHANGED promptVars
    \/ Follow

PromptSpec == PromptInit /\ [][PromptNext]_<<gantryVars, promptVars>>

-----------------------------------------------------------------------------
PromptTypeOK ==
    /\ GantryTypeOK
    /\ shown \in 0..Len(subtask) /\ armed \in BOOLEAN
    /\ current \in 1..IF task = "none" THEN 1 ELSE Prompts(task)

Following == StoredDemo /\ shown < Len(subtask)

(***************************************************************************)
(* A prompt that names a subtask before the expert is in it does so by one *)
(* subtask only, and only after the step of the present one in which its   *)
(* progress reached ADVANCE_AT (docs: a switch 20 % early).                *)
(***************************************************************************)
EarlyOnlyAtTheEnd ==
    Following /\ current > Rank(task, subtask[shown + 1]) =>
        /\ current = Rank(task, subtask[shown + 1]) + 1
        /\ shown > 0 /\ subtask[shown] = subtask[shown + 1] /\ Advances(subtask, shown)

(***************************************************************************)
(* And it names none the expert has left (nfv/sim/subtasks: "early, never  *)
(* late"), as far as the demo went through the subtasks one by one, with   *)
(* more than one step in each.  A demo of the peg that needed no search    *)
(* leaves the prompt at the search while the peg is inserted.              *)
(***************************************************************************)
OneByOne(n) ==
    /\ Rank(task, subtask[1]) = 1
    /\ \A i \in 1..n - 1 :
          /\ Rank(task, subtask[i + 1]) <= Rank(task, subtask[i]) + 1
          /\ Span(subtask, i) > 0

NeverLate == Following /\ OneByOne(shown + 1) => current >= Rank(task, subtask[shown + 1])

\* The two together: what the prompt may be while a demo is followed.
PromptFollows == EarlyOnlyAtTheEnd /\ NeverLate
=============================================================================
