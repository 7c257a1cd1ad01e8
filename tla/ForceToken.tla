----------------------------- MODULE ForceToken -----------------------------
(***************************************************************************)
(* The force-token lesson (lab/tasks/task4_force_token.py, train): expert  *)
(* episodes collected under polls, then epochs with a validation loss      *)
(* each.  An epoch with the lowest loss so far is saved as "best", unless  *)
(* it is the last one; the last is saved as "last", at a stop too if it    *)
(* was not saved as the best.  An epoch is a step of TrainLoop here.       *)
(***************************************************************************)
EXTENDS Lessons

CONSTANTS
    Episodes,  \* demonstrations
    Losses     \* validation losses, in order

ASSUME ForceTokenAssumption == Episodes \in Nat /\ Losses \subseteq Nat

VARIABLES
    collected, \* demonstrations rolled out
    vals,      \* the validation loss of each epoch
    savedEp    \* saved_ep: the epoch saved last, 0 for none

tokenVars == <<collected, vals, savedEp>>

TokenInit ==
    /\ LessonsInit({"force-token"})
    /\ collected = 0
    /\ vals = <<>>
    /\ savedEp = 0

Logged(n) == rows' = Append(rows, n) /\ progress' = n
SaveEpoch(ep, label) ==
    /\ holder' = <<ep>>
    /\ BeginSave(Episodes + ep, label, <<ep>>)
    /\ savedEp' = ep

-----------------------------------------------------------------------------
Collect ==
    /\ pc = "poll" /\ collected < Episodes
    /\ collected' = collected + 1
    /\ Logged(collected')
    /\ UNCHANGED <<phase, step, pc, completed, control, holder, vals, savedEp, ckptVars>>

StopInCollection ==
    /\ pc = "poll" /\ collected < Episodes
    /\ control = "stop"
    /\ completed' = "part" /\ pc' = "ended"
    /\ UNCHANGED <<phase, step, control, rows, progress, holder, tokenVars, ckptVars>>

Lowest(v) == \A e \in DOMAIN vals : v < vals[e]

Epoch ==
    /\ pc = "poll" /\ collected = Episodes /\ ~Saving /\ step < Steps
    /\ step' = step + 1
    /\ Logged(Episodes + step')
    /\ \E v \in Losses :
         /\ vals' = Append(vals, v)
         /\ IF Lowest(v) /\ step' < Steps THEN SaveEpoch(step', "best")
            ELSE UNCHANGED <<holder, savedEp, ckptVars>>
    /\ UNCHANGED <<phase, pc, completed, control, collected>>

AtStop == pc = "poll" /\ collected = Episodes /\ ~Saving /\ step < Steps /\ control = "stop"

\* Mutant: the last epoch is saved again although it was the best.
MutStopSaves ==
    /\ AtStop
    /\ completed' = "part" /\ pc' = "return"
    /\ IF step > 0 THEN SaveEpoch(step, "last")
       ELSE UNCHANGED <<holder, savedEp, ckptVars>>
    /\ UNCHANGED <<phase, step, control, rows, progress, collected, vals>>

StopSaves ==
    /\ AtStop
    /\ completed' = "part" /\ pc' = "return"
    /\ IF step > 0 /\ savedEp # step THEN SaveEpoch(step, "last")
       ELSE UNCHANGED <<holder, savedEp, ckptVars>>
    /\ UNCHANGED <<phase, step, control, rows, progress, collected, vals>>

LastSave ==
    /\ pc = "poll" /\ ~Saving /\ step = Steps
    /\ completed' = "all" /\ pc' = "return"
    /\ SaveEpoch(step, "last")
    /\ UNCHANGED <<phase, step, control, rows, progress, collected, vals>>

TokenEnds ==
    /\ pc = "return" /\ ~Saving
    /\ pc' = "ended"
    /\ UNCHANGED <<phase, step, completed, control, rows, progress, holder, tokenVars, ckptVars>>

TokenNext ==
    /\ \/ Collect \/ StopInCollection \/ Epoch \/ StopSaves \/ LastSave \/ TokenEnds
       \/ (AskStop \/ ContinueSave \/ Killed) /\ UNCHANGED tokenVars
    /\ UNCHANGED lessonsVars

-----------------------------------------------------------------------------
(***************************************************************************)
(* No epoch is listed, or written, twice; and a run that returned after an *)
(* epoch has its last one as the newest checkpoint and in last.pt, and     *)
(* lists, whole, the first epoch with the lowest validation loss.          *)
(***************************************************************************)
BestEpochIsKept ==
    lesson = "force-token" =>
        /\ \A i, k \in DOMAIN index : index[i].step = index[k].step => i = k
        /\ pc = "ended" /\ step > 0 =>
              /\ saves \in DOMAIN index /\ Newest.model = <<step>>
              /\ files[LastPt] = <<step>>
              /\ \E i \in DOMAIN index :
                    LET ep == index[i].model[1]
                    IN  /\ Whole(index[i])
                        /\ \A e \in DOMAIN vals : vals[ep] <= vals[e]
                        /\ \A e \in 1..ep - 1 : vals[ep] < vals[e]
=============================================================================
