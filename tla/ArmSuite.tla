------------------------------ MODULE ArmSuite ------------------------------
(***************************************************************************)
(* Lesson 20's training suite (lab/tasks/task_nfv5.py, train): memory      *)
(* probes, then the arms, one worker at a time on the GPU; the checkpoint  *)
(* of the suite is saved again after every arm.                            *)
(***************************************************************************)
EXTENDS Workers

CONSTANT Window  \* optimizer steps between two looks for STOP (--log-every)

ASSUME WindowAssumption == Window \in Nat \ {0}

VARIABLES
    cur,   \* the process the suite is at
    done,  \* the arms of the payload, in order
    saved  \* the arms listed in each checkpoint that was saved

suiteVars == <<cur, done, saved>>
armVars == <<workerVars, stopFile, told, parentPc, parentVars, asked, suiteVars>>

Size == Cardinality(Procs)
InOrder(s) == \A i, k \in DOMAIN s : i < k => s[i] < s[k]

ArmInit ==
    /\ WorkersInit
    /\ cur = 1
    /\ done = <<>>
    /\ saved = <<>>

(***************************************************************************)
(* lora_worker: a row before the first optimizer step, and one after every *)
(* --log-every of them and after the last; only after those it looks for   *)
(* STOP.  A probe takes its steps and ends.                                *)
(***************************************************************************)
EndsWindow(n) == n % Window = 0 \/ n = TrainSteps

StepLora(p) == Train(p, IF EndsWindow(trained[p] + 1) THEN "row" ELSE "run")

\* Mutant: only the last window looks for STOP.
MutRow(p) == RowEnds(p, "row", IF trained[p] < TrainSteps THEN "run" ELSE "check")

Row(p) == RowEnds(p, "row", IF trained[p] = 0 THEN "run" ELSE "check")

CheckStop(p) ==
    /\ Moves(p, "check", IF p \in stopFile \/ trained[p] = TrainSteps THEN "save" ELSE "run")
    /\ UNCHANGED <<trained, log, model, result, grace>>

SaveAdapter(p) == SaveModel(p, "save", "result")

ProbeEnds(p) ==
    /\ p \in Quiet
    /\ Moves(p, "row", "ok")
    /\ UNCHANGED <<trained, log, model, result, grace>>

WorkerStep(p) ==
    \/ StepLora(p) \/ Row(p) \/ CheckStop(p)
    \/ SaveAdapter(p) \/ SaveResult(p) \/ ProbeEnds(p)

-----------------------------------------------------------------------------
(***************************************************************************)
(* The suite: one process at a time, and what it makes of its end.         *)
(***************************************************************************)
Spawn ==
    /\ parentPc = "spawn"
    /\ worker' = [worker EXCEPT ![cur] = "row"]
    /\ waiting' = {cur}
    /\ parentPc' = "wait"
    /\ UNCHANGED <<trained, log, model, result, grace, stopFile, told, asked, todo,
                   stopped, state, merged, off, suiteVars>>

\* Popen, save_ckpt or another call outside the wait raises.
Raise ==
    /\ parentPc \in {"spawn", "last", "judge"}
    /\ state' = "failed"
    /\ parentPc' = "raised"
    /\ UNCHANGED <<workerVars, stopFile, told, asked, waiting, todo, stopped,
                   merged, off, suiteVars>>

NextOne ==
    /\ cur' = cur + 1
    /\ parentPc' = "spawn"
    /\ UNCHANGED state

\* A probe may fail in any way; only a stop ends the suite here.
JudgeProbe ==
    /\ cur \in Quiet
    /\ IF stopped THEN End("stopped") /\ UNCHANGED cur
       ELSE IF cur < Size THEN NextOne ELSE End("done") /\ UNCHANGED cur
    /\ UNCHANGED <<done, saved>>

\* A worker that failed after the stop is taken for a stopped one.
JudgeFailed ==
    /\ cur \notin Quiet
    /\ worker[cur] = "bad" \/ cur \notin DOMAIN result
    /\ End(IF stopped /\ worker[cur] = "bad" THEN "stopped" ELSE "failed")
    /\ UNCHANGED suiteVars

\* Mutant: the return code is not looked at.
MutJudgeTrained ==
    /\ cur \notin Quiet
    /\ done' = Append(done, cur)
    /\ saved' = Append(saved, done')
    /\ parentPc' = "after"
    /\ UNCHANGED <<cur, state>>

JudgeTrained ==
    /\ cur \notin Quiet
    /\ worker[cur] = "ok" /\ cur \in DOMAIN result
    /\ done' = Append(done, cur)
    /\ saved' = Append(saved, done')
    /\ parentPc' = "after"
    /\ UNCHANGED <<cur, state>>

Judge ==
    /\ parentPc = "judge"
    /\ JudgeProbe \/ JudgeFailed \/ JudgeTrained
    /\ UNCHANGED <<workerVars, stopFile, told, asked, waiting, todo, stopped,
                   merged, off>>

\* Mutant: a stop during an arm only ends that arm.
MutAfter ==
    /\ parentPc = "after"
    /\ IF cur < Size THEN NextOne ELSE End("done") /\ UNCHANGED cur
    /\ UNCHANGED <<workerVars, stopFile, told, asked, waiting, todo, stopped,
                   merged, off, done, saved>>

After ==
    /\ parentPc = "after"
    /\ IF stopped THEN End("stopped") /\ UNCHANGED cur
       ELSE IF cur < Size THEN NextOne ELSE End("done") /\ UNCHANGED cur
    /\ UNCHANGED <<workerVars, stopFile, told, asked, waiting, todo, stopped,
                   merged, off, done, saved>>

Parent ==
    \/ Spawn \/ Judge \/ After
    \/ WaitStep(<<>>) /\ UNCHANGED <<workerVars, asked, suiteVars>>

Worker(p) ==
    WorkerStep(p) /\ UNCHANGED <<stopFile, told, parentPc, parentVars, asked, suiteVars>>

ArmNext ==
    \/ Parent
    \/ \E p \in Procs : Worker(p)
    \/ \E p \in Procs :
         Dies(p) /\ UNCHANGED <<stopFile, told, parentPc, parentVars, asked, suiteVars>>
    \/ Raise
    \/ WaitRaises /\ UNCHANGED <<workerVars, asked, suiteVars>>
    \/ (Command \/ ParentKilled) /\ UNCHANGED suiteVars

-----------------------------------------------------------------------------
ArmTypeOK ==
    /\ WorkersTypeOK
    /\ cur \in Procs
    /\ done \in Seq(Procs \ Quiet)
    /\ \A i \in DOMAIN saved : saved[i] \in Seq(Procs \ Quiet)

(***************************************************************************)
(* Every arm a saved checkpoint lists has its adapter and its result on    *)
(* disk, of the same training; and a suite that is done trained all of its *)
(* arms in full and lists them all, in order, in its last checkpoint.       *)
(***************************************************************************)
SavedArmsAreThere ==
    /\ \A i \in DOMAIN saved : \A k \in DOMAIN saved[i] :
          LET p == saved[i][k] IN
          p \in DOMAIN result /\ p \in DOMAIN model /\ model[p] = result[p]
    /\ state = "done" /\ Procs # Quiet =>
          /\ \A p \in Procs \ Quiet : p \in DOMAIN result /\ result[p] = TrainSteps
          /\ LET last == saved[Len(saved)] IN
             {last[i] : i \in DOMAIN last} = Procs \ Quiet /\ InOrder(last)

(***************************************************************************)
(* Once it was given its STOP a worker trains for no more optimizer steps  *)
(* than lie between two of its rows, wherever in a window, a row or a look *)
(* it was at that moment: the row before its first step, which no look     *)
(* follows, does not make it two windows.                                  *)
(***************************************************************************)
StopCostsOneWindow == \A p \in Procs : grace[p] <= Window

(***************************************************************************)
(* After the parent saw the stop no further arm or probe is started.       *)
(***************************************************************************)
StartsNoArm ==
    \A p \in Procs : stopped /\ worker[p] = "none" => worker'[p] = "none"
=============================================================================
