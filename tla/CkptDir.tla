------------------------------ MODULE CkptDir ------------------------------
(***************************************************************************)
(* The checkpoint directory of a run and RunContext.save_ckpt, file        *)
(* operation by file operation: torch.save truncates and fills its file in *)
(* place, first step_<n>.pt, then last.pt; index.json, read and replaced   *)
(* by the same process, is atomic.  The process may die between any two.   *)
(***************************************************************************)
EXTENDS Naturals

CONSTANTS
    LastPt,  \* the name last.pt; the other files are named by their step
    Torn     \* the content of a file that was opened and not completely written

ASSUME NamesAssumption == LastPt \notin Nat

VARIABLES
    files,   \* files[n]: the model in file n, or Torn; DOMAIN files exists
    index,   \* index.json: the listed checkpoints, by the number of their save
    saves,   \* save_ckpt calls that have completed
    saving   \* the save_ckpt call in progress and how far it is

ckptVars == <<files, index, saves, saving>>

Put(f, x, v) == [y \in DOMAIN f \cup {x} |-> IF y = x THEN v ELSE f[y]]
Listed == {index[i].step : i \in DOMAIN index}

CkptInit(anyModel) ==
    /\ files = [n \in {} |-> Torn]
    /\ index = [n \in {} |-> Torn]
    /\ saves = 0
    /\ saving = [at |-> "idle", step |-> 0, label |-> "", model |-> anyModel]

Saving == saving.at # "idle"

BeginSave(step, label, model) ==
    /\ saving' = [at |-> "file", step |-> step, label |-> label, model |-> model]
    /\ files' = Put(files, step, Torn)
    /\ UNCHANGED <<index, saves>>

FileWritten ==
    /\ saving.at = "file"
    /\ files' = Put(files, saving.step, saving.model)
    /\ saving' = [saving EXCEPT !.at = "filed"]
    /\ UNCHANGED <<index, saves>>

LastOpened ==
    /\ saving.at = "filed"
    /\ files' = Put(files, LastPt, Torn)
    /\ saving' = [saving EXCEPT !.at = "last"]
    /\ UNCHANGED <<index, saves>>

LastWritten ==
    /\ saving.at = "last"
    /\ files' = Put(files, LastPt, saving.model)
    /\ saving' = [saving EXCEPT !.at = "lasted"]
    /\ UNCHANGED <<index, saves>>

\* Mutant: the index is replaced before the file is filled.
MutIndexWritten ==
    /\ saving.at = "file"
    /\ saves' = saves + 1
    /\ index' = Put(index, saves',
                    [step |-> saving.step, label |-> saving.label,
                     model |-> saving.model])
    /\ saving' = [saving EXCEPT !.at = "idle"]
    /\ UNCHANGED files

IndexWritten ==
    /\ saving.at = "lasted"
    /\ saves' = saves + 1
    /\ index' = Put(index, saves',
                    [step |-> saving.step, label |-> saving.label,
                     model |-> saving.model])
    /\ saving' = [saving EXCEPT !.at = "idle"]
    /\ UNCHANGED files

SaveStep == FileWritten \/ LastOpened \/ LastWritten \/ IndexWritten

Newest == index[saves]
Whole(e) == e.step \in DOMAIN files /\ files[e.step] = e.model

(***************************************************************************)
(* What index.json lists can be loaded: the newest entry of each file      *)
(* names a file with exactly the model the entry was written for, unless   *)
(* that very file is being saved again (or the process died doing so).     *)
(***************************************************************************)
ListedIsWhole ==
    \A i \in DOMAIN index :
        (\A k \in DOMAIN index : index[k].step = index[i].step => k <= i)
            => Whole(index[i]) \/ (Saving /\ saving.step = index[i].step)
=============================================================================
