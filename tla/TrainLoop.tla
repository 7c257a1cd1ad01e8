----------------------------- MODULE TrainLoop -----------------------------
(***************************************************************************)
(* A multi-phase training task of the lab (tasks 1, 2 and embed): one call *)
(* of train_loop (lab/core/loop.py) per phase, in one process, with the    *)
(* rows, progress and checkpoints it leaves in the run directory.  Pausing *)
(* and the control file are LabJob's; here a poll may or may not see the   *)
(* stop the user asked for.                                                *)
(***************************************************************************)
EXTENDS CkptDir, Sequences

CONSTANTS
    Phases,     \* train_loop calls of the task
    Steps,      \* optimizer steps of each
    LogEvery, EvalEvery, CkptEvery

ASSUME LoopAssumption ==
    {Phases, Steps, LogEvery, EvalEvery, CkptEvery} \subseteq Nat \ {0}

\* torch.load raises on a torn file: what it returns is never one of these.
ASSUME TornAssumption == \A n \in 0..Phases : Torn \notin [1..n -> 0..Steps]

VARIABLES
    phase, step,  \* the train_loop call and its loop variable
    pc,           \* where the process is
    completed,    \* train_loop's result, "no" until its loop ends
    control,      \* "run", or "stop" once the user asked for it
    rows,         \* metrics.jsonl: the global step of each row
    progress,     \* status.json: step
    holder        \* payload_wrap's holder: trained steps of each part saved

loopVars == <<phase, step, pc, completed, control, rows, progress, holder>>
vars == <<loopVars, ckptVars>>

\* Mutant: the phases are not offset.
MutOffsetNone == 0

Offset == (phase - 1) * Steps
Here == Offset + step

Init ==
    /\ phase = 1 /\ step = 0
    /\ pc = "poll"
    /\ completed = "no"
    /\ control = "run"
    /\ rows = <<>>
    /\ progress = 0
    /\ holder = <<>>
    /\ CkptInit(<<>>)

-----------------------------------------------------------------------------
AskStop ==
    /\ control = "run"
    /\ control' = "stop"
    /\ UNCHANGED <<phase, step, pc, completed, rows, progress, holder, ckptVars>>

\* should_continue says go on: no stop yet, or less than POLL_S since it looked.
\* The optimizer step and its row, if one is due, follow.
TrainStep ==
    /\ pc = "poll" /\ ~Saving
    /\ step < Steps
    /\ step' = step + 1
    /\ IF step' % LogEvery = 0
       THEN rows' = Append(rows, Offset + step') /\ pc' = "report"
       ELSE pc' = "eval" /\ UNCHANGED rows
    /\ UNCHANGED <<phase, completed, control, progress, holder, ckptVars>>

Report ==
    /\ pc = "report"
    /\ progress' = Here
    /\ pc' = "eval"
    /\ UNCHANGED <<phase, step, completed, control, rows, holder, ckptVars>>

Eval ==
    /\ pc = "eval"
    /\ rows' = IF step % EvalEvery = 0 \/ step = Steps THEN Append(rows, Here) ELSE rows
    /\ pc' = "ckpt"
    /\ UNCHANGED <<phase, step, completed, control, progress, holder, ckptVars>>

\* save(): payload_wrap replaces this phase's part and keeps the earlier ones.
Save ==
    /\ holder' = Append(SubSeq(holder, 1, phase - 1), step)
    /\ BeginSave(Here, "none", holder')

\* The final step's checkpoint is left to the save after the loop.
Checkpoint ==
    /\ pc = "ckpt"
    /\ pc' = "poll"
    /\ IF step % CkptEvery = 0 /\ step < Steps THEN Save ELSE UNCHANGED <<holder, ckptVars>>
    /\ UNCHANGED <<phase, step, completed, control, rows, progress>>

\* The loop has run all of its steps, or a poll saw the stop.
LoopEnds ==
    /\ pc = "poll" /\ ~Saving
    /\ \/ step = Steps /\ completed' = "all"
       \/ step < Steps /\ control = "stop" /\ completed' = "part"
    /\ pc' = "final"
    /\ UNCHANGED <<phase, step, control, rows, progress, holder, ckptVars>>

FinalReport ==
    /\ pc = "final"
    /\ progress' = Here
    /\ pc' = "save"
    /\ UNCHANGED <<phase, step, completed, control, rows, holder, ckptVars>>

FinalSave ==
    /\ pc = "save"
    /\ Save
    /\ pc' = "return"
    /\ UNCHANGED <<phase, step, completed, control, rows, progress>>

\* The task: the next phase, or done; a phase cut short ends it as stopped.
PhaseEnds ==
    /\ pc = "return" /\ ~Saving
    /\ IF completed = "all" /\ phase < Phases
       THEN phase' = phase + 1 /\ step' = 0 /\ pc' = "poll" /\ completed' = "no"
       ELSE pc' = "ended" /\ UNCHANGED <<phase, step, completed>>
    /\ UNCHANGED <<control, rows, progress, holder, ckptVars>>

ContinueSave ==
    /\ pc # "dead"
    /\ SaveStep
    /\ UNCHANGED loopVars

Killed ==
    /\ pc \notin {"ended", "dead"}
    /\ pc' = "dead"
    /\ UNCHANGED <<phase, step, completed, control, rows, progress, holder, ckptVars>>

Next ==
    \/ AskStop \/ TrainStep \/ Report \/ Eval \/ Checkpoint \/ LoopEnds
    \/ FinalReport \/ FinalSave \/ PhaseEnds \/ ContinueSave \/ Killed

Spec == Init /\ [][Next]_vars

-----------------------------------------------------------------------------
Total == Phases * Steps
Models == UNION {[1..n -> 0..Steps] : n \in 0..Phases}
SaveStages == {"idle", "file", "filed", "last", "lasted"}

TypeOK ==
    /\ phase \in 1..Phases /\ step \in 0..Steps
    /\ pc \in {"poll", "report", "eval", "ckpt", "final", "save", "return", "ended", "dead"}
    /\ completed \in {"no", "all", "part"}
    /\ control \in {"run", "stop"}
    /\ rows \in Seq(1..Total)
    /\ progress \in 0..Total
    /\ holder \in Models
    /\ saving \in [at : SaveStages, step : 0..Total, label : STRING, model : Models]
    /\ DOMAIN files \subseteq (0..Total) \cup {LastPt}
    /\ \A n \in DOMAIN files : files[n] \in Models \cup {Torn}
    /\ saves \in Nat /\ DOMAIN index \subseteq 1..saves
    /\ \A i \in DOMAIN index :
          index[i] \in [step : 0..Total, label : STRING, model : Models]

(***************************************************************************)
(* The global step of the metric rows stays monotonic across the phases,   *)
(* wherever a stop or the loop's end falls (train_loop's docstring).       *)
(***************************************************************************)
StepsNeverGoBack ==
    \A i, k \in DOMAIN rows : i <= k => rows[i] <= rows[k]

(***************************************************************************)
(* A task that returned has its final model in last.pt and as the newest   *)
(* listed checkpoint, at the step status.json reports: every phase in full *)
(* when it was done, the last phase as far as it got when it was stopped.  *)
(***************************************************************************)
EndIsSaved ==
    pc = "ended" =>
        /\ saves \in DOMAIN index
        /\ Newest.step = progress
        /\ Whole(Newest) /\ files[LastPt] = Newest.model
        /\ Newest.model = [p \in 1..phase |-> IF p < phase THEN Steps ELSE step]
        /\ completed = "all" => phase = Phases /\ step = Steps

(***************************************************************************)
(* step_offset keeps checkpoint file names unique across phases            *)
(* (train_loop's docstring): no file is listed for two phases.             *)
(***************************************************************************)
NamesUniqueAcrossPhases ==
    \A i, k \in DOMAIN index :
        index[i].step = index[k].step => Len(index[i].model) = Len(index[k].model)
=============================================================================
