------------------------------ MODULE EvalPool ------------------------------
(***************************************************************************)
(* Lesson 20's evaluation (lab/tasks/task_nfv5.py, evaluate): one worker    *)
(* per arm of a saved checkpoint, at most Par at a time; then one render    *)
(* after another for the video; then result.json.                          *)
(***************************************************************************)
EXTENDS Workers

CONSTANT Par   \* params.parallel

VARIABLES
    arms,    \* the arms listed in the checkpoint under evaluation
    pending, \* those without a worker yet
    evs,     \* the arms whose eval.json was read
    video,   \* the arms in rollout.mp4
    written  \* result.json is there

poolVars == <<arms, pending, evs, video, written>>
others == <<trained, log, model, result, grace, stopFile, stopped, merged, off>>

Arms == {arms[i] : i \in DOMAIN arms}

PoolInit ==
    /\ arms = <<>> /\ pending = <<>>
    /\ evs = {} /\ video = {} /\ written = FALSE

\* The job of a checkpoint: its list may lack the arms of a stopped suite.
PoolStarts(list) ==
    /\ worker' = [p \in Procs |-> "none"]
    /\ arms' = list /\ pending' = list
    /\ parentPc' = "spawn" /\ state' = "running" /\ asked' = "run"
    /\ told' = {} /\ waiting' = {} /\ todo' = {}
    /\ UNCHANGED <<others, evs, video, written>>

-----------------------------------------------------------------------------
Free == Cardinality(waiting) < Par

SpawnEval ==
    /\ parentPc = "spawn" /\ pending # <<>> /\ Free
    /\ worker' = [worker EXCEPT ![Head(pending)] = "run"]
    /\ waiting' = waiting \cup {Head(pending)}
    /\ pending' = Tail(pending)
    /\ UNCHANGED <<others, told, parentPc, todo, asked, state, arms, evs, video, written>>

\* Only a worker's failure and a stop terminate the others.
SpawnRaises ==
    /\ parentPc = "spawn" /\ pending # <<>> /\ Free
    /\ state' = "failed" /\ parentPc' = "raised"
    /\ UNCHANGED <<others, worker, told, waiting, todo, asked, poolVars>>

Sleep ==
    /\ parentPc = "spawn" /\ waiting # {}
    /\ pending = <<>> \/ ~Free
    /\ parentPc' = "drain"
    /\ todo' = waiting
    /\ UNCHANGED <<others, worker, told, waiting, asked, state, poolVars>>

Terminated == told \cup {q \in waiting : Alive(q)}

StillRuns(p) ==
    /\ Alive(p)
    /\ UNCHANGED <<told, waiting, state, parentPc, evs>>

\* Mutant: the return code is not looked at.
MutEvaluated(p) ==
    /\ worker[p] \in {"ok", "bad"}
    /\ evs' = evs \cup {p}
    /\ waiting' = waiting \ {p}
    /\ UNCHANGED <<told, state, parentPc>>

Evaluated(p) ==
    /\ worker[p] = "ok"
    /\ evs' = evs \cup {p}
    /\ waiting' = waiting \ {p}
    /\ UNCHANGED <<told, state, parentPc>>

OneFailed(p) ==
    /\ worker[p] = "bad"
    /\ told' = Terminated
    /\ End("failed")
    /\ UNCHANGED <<waiting, evs>>

Reap ==
    /\ parentPc = "drain" /\ todo # {}
    /\ LET p == First(todo) IN
         /\ StillRuns(p) \/ Evaluated(p) \/ OneFailed(p)
         /\ todo' = todo \ {p}
    /\ UNCHANGED <<others, worker, asked, arms, pending, video, written>>

\* A stop ends the evaluation although all of its arms may be there.
StopPool ==
    /\ told' = Terminated
    /\ End("stopped")

PollPool ==
    /\ \/ /\ parentPc = "drain" /\ todo = {}
          /\ \/ asked = "stop" /\ StopPool
             \/ asked = "pause" /\ state' = "paused" /\ parentPc' = "held" /\ UNCHANGED told
             \/ asked = "run" /\ parentPc' = "spawn" /\ UNCHANGED <<told, state>>
       \/ /\ parentPc = "held"
          /\ \/ asked = "stop" /\ StopPool
             \/ asked = "run" /\ state' = "running" /\ parentPc' = "spawn" /\ UNCHANGED told
    /\ UNCHANGED <<others, worker, waiting, todo, asked, poolVars>>

-----------------------------------------------------------------------------
(***************************************************************************)
(* The video, which no command can stop and whose failure costs only it.   *)
(***************************************************************************)
RenderStarts ==
    /\ parentPc = "spawn" /\ pending = <<>> /\ waiting = {}
    /\ \/ parentPc' = "render" /\ todo' = Arms
       \/ parentPc' = "judge" /\ UNCHANGED todo   \* no video asked for
    /\ UNCHANGED <<others, worker, told, waiting, asked, state, poolVars>>

Render ==
    /\ parentPc = "render"
    /\ \/ /\ todo # {} /\ todo' = todo \ {First(todo)}
          /\ UNCHANGED <<parentPc, video>>
       \/ /\ todo = {} /\ video' = Arms
          /\ parentPc' = "judge" /\ UNCHANGED todo
       \/ /\ video' = {}
          /\ parentPc' = "judge" /\ todo' = {}
    /\ UNCHANGED <<others, worker, told, waiting, asked, state, arms, pending, evs, written>>

PoolDone ==
    /\ parentPc = "judge"
    /\ written' = TRUE
    /\ End("done")
    /\ UNCHANGED <<others, worker, told, waiting, todo, asked, arms, pending, evs, video>>

Pool ==
    \/ SpawnEval \/ Sleep \/ Reap \/ PollPool
    \/ RenderStarts \/ Render \/ PoolDone

\* cmd_eval: it writes eval.json last; the parent reads nothing before its end.
EvalEnds(p) ==
    /\ Alive(p)
    /\ worker' = [worker EXCEPT ![p] = "ok"]
    /\ UNCHANGED <<others, told, parentPc, waiting, todo, asked, state, poolVars>>

-----------------------------------------------------------------------------
PoolTypeOK ==
    /\ arms \in Seq(Procs \ Quiet) /\ pending \in Seq(Procs \ Quiet)
    /\ evs \subseteq Arms /\ video \in {{}, Arms}
    /\ written \in BOOLEAN

(***************************************************************************)
(* A result speaks of every arm of the checkpoint and only of workers that *)
(* ended well; its video shows all of them or is not there; a stopped or   *)
(* failed evaluation leaves none; no more than Par workers share the GPU.  *)
(***************************************************************************)
ResultIsWhole ==
    /\ written => evs = Arms /\ \A p \in Arms : worker[p] = "ok"
    /\ video \in {{}, Arms}
    /\ state \in {"stopped", "failed"} => ~written
    /\ Cardinality({p \in Procs : Alive(p)}) <= Par
=============================================================================
