------------------------------ MODULE Workers ------------------------------
(***************************************************************************)
(* A lab task whose work is done by other processes (lab/tasks/task_nfv4,  *)
(* task_nfv5 with nfv/rl/worker, nfv/lora_worker): the workers, and the    *)
(* parent's loop that waits for them, copies their metric rows into its    *)
(* own run, and passes the user's stop on as STOP files.  SeedSuite and    *)
(* ArmSuite add what the two tasks spawn and what they make of it.         *)
(***************************************************************************)
EXTENDS Naturals, Sequences, FiniteSets

CONSTANTS
    Procs,   \* the worker processes of the suite, numbered in spawn order
    Quiet,   \* those that log no rows and have no STOP file (memory probes)
    TrainSteps,  \* training steps of a worker that is not stopped
    Cmds     \* the commands users send

ASSUME WorkersAssumption ==
    /\ Cardinality(Procs) \in Nat \ {0} /\ Procs = 1..Cardinality(Procs)
    /\ Quiet \subseteq Procs
    /\ TrainSteps \in Nat \ {0}
    /\ Cmds \subseteq {"run", "pause", "stop"}

VARIABLES
    worker,   \* worker[p]: where process p is
    trained,  \* trained[p]: its training step
    log,      \* log[p]: the steps of the complete rows in its metrics.jsonl
    model,    \* model[p]: the step its adapter or residual file was saved at
    result,   \* result[p]: the step its result.json speaks of
    stopFile, \* the workers that have a STOP file
    grace,    \* grace[p]: training steps taken since then (history)
    told,     \* the workers sent SIGTERM
    parentPc, \* where the parent is
    waiting,  \* the processes it waits for
    todo,     \* those on_poll has still to drain, or to write STOP for
    stopped,  \* the parent saw the stop
    asked,    \* control.json
    state,    \* the state in the parent's status.json
    merged,   \* the rows in the parent's metrics.jsonl
    off       \* off[p]: rows of p the parent has read

workerVars == <<worker, trained, log, model, result, grace>>
parentVars == <<waiting, todo, stopped, state, merged, off>>

Running == {"run", "row", "best", "lastrow", "check", "save", "result"}
Alive(p) == worker[p] \in Running
First(S) == CHOOSE p \in S : \A q \in S : p <= q
With(f, x, v) == [y \in DOMAIN f \cup {x} |-> IF y = x THEN v ELSE f[y]]
Place(S, i) == Cardinality({k \in S : k <= i})

\* The parent's rows of worker p; its own are those of 0.
RowsOf(p) == {i \in DOMAIN merged : merged[i][1] = p}

WorkersInit ==
    /\ worker = [p \in Procs |-> "none"]
    /\ trained = [p \in Procs |-> 0]
    /\ log = [p \in Procs |-> <<>>]
    /\ model = [p \in {} |-> 0]
    /\ result = [p \in {} |-> 0]
    /\ stopFile = {}
    /\ grace = [p \in Procs |-> 0]
    /\ told = {}
    /\ parentPc = "spawn"
    /\ waiting = {}
    /\ todo = {}
    /\ stopped = FALSE
    /\ asked = "run"
    /\ state = "running"
    /\ merged = <<>>
    /\ off = [p \in Procs |-> 0]

-----------------------------------------------------------------------------
(***************************************************************************)
(* What every worker does: it trains a step, it fills and then completes a *)
(* row, it replaces its weights and then result.json, and exits 0.         *)
(***************************************************************************)
Moves(p, from, to) ==
    /\ worker[p] = from
    /\ worker' = [worker EXCEPT ![p] = to]

Train(p, to) ==
    /\ Moves(p, "run", to)
    /\ trained' = [trained EXCEPT ![p] = @ + 1]
    /\ grace' = IF p \in stopFile THEN [grace EXCEPT ![p] = @ + 1] ELSE grace
    /\ UNCHANGED <<log, model, result>>

RowEnds(p, from, to) ==
    /\ p \notin Quiet
    /\ Moves(p, from, to)
    /\ log' = [log EXCEPT ![p] = Append(@, trained[p])]
    /\ UNCHANGED <<trained, model, result, grace>>

SaveModel(p, from, to) ==
    /\ Moves(p, from, to)
    /\ model' = With(model, p, trained[p])
    /\ UNCHANGED <<trained, log, result, grace>>

SaveResult(p) ==
    /\ Moves(p, "result", "ok")
    /\ result' = With(result, p, trained[p])
    /\ UNCHANGED <<trained, log, model, grace>>

\* An exception, or the signal the parent sent.
Dies(p) ==
    /\ Alive(p)
    /\ worker' = [worker EXCEPT ![p] = "bad"]
    /\ UNCHANGED <<trained, log, model, result, grace>>

-----------------------------------------------------------------------------
(***************************************************************************)
(* The parent's wait: sleep, on_poll, should_continue, until no process is *)
(* left; then on_poll once more.                                           *)
(***************************************************************************)
\* Mutant: only the files of workers still alive are drained.
MutWait ==
    /\ parentPc = "wait"
    /\ parentPc' = IF \E p \in waiting : Alive(p) THEN "drain" ELSE "last"
    /\ todo' = {p \in waiting \ Quiet : Alive(p)}
    /\ UNCHANGED <<stopFile, told, waiting, stopped, state, merged, off>>

Wait ==
    /\ parentPc = "wait"
    /\ parentPc' = IF \E p \in waiting : Alive(p) THEN "drain" ELSE "last"
    /\ todo' = waiting \ Quiet
    /\ UNCHANGED <<stopFile, told, waiting, stopped, state, merged, off>>

\* The complete lines after the offset; a partial last line is left for later.
Fresh(p) == SubSeq(log[p], off[p] + 1, Len(log[p]))

Drain ==
    /\ parentPc \in {"drain", "last"}
    /\ todo # {}
    /\ LET p == First(todo) IN
         /\ merged' = merged \o [i \in DOMAIN Fresh(p) |-> <<p, Fresh(p)[i]>>]
         /\ off' = [off EXCEPT ![p] = @ + Len(Fresh(p))]
         /\ todo' = todo \ {p}
    /\ UNCHANGED <<parentPc, stopFile, told, waiting, stopped, state>>

\* The suite may add rows of its own, once every file was read.
DrainEnds(own) ==
    /\ parentPc \in {"drain", "last"}
    /\ todo = {}
    /\ parentPc' = IF parentPc = "drain" THEN "poll" ELSE "judge"
    /\ merged' = merged \o own
    /\ UNCHANGED <<stopFile, told, waiting, todo, stopped, state, off>>

\* should_continue; the loop sleeps longer than POLL_S, so it always looks.
ObeyStop ==
    /\ stopped' = TRUE
    /\ parentPc' = "touch"
    /\ todo' = waiting \ Quiet

Poll ==
    /\ parentPc = "poll"
    /\ \/ /\ ~stopped /\ asked = "stop"
          /\ ObeyStop
          /\ UNCHANGED state
       \/ /\ ~stopped /\ asked = "pause"
          /\ state' = "paused"
          /\ parentPc' = "held"
          /\ UNCHANGED <<stopped, todo>>
       \/ /\ stopped \/ asked = "run"
          /\ parentPc' = "wait"
          /\ UNCHANGED <<stopped, todo, state>>
    /\ UNCHANGED <<stopFile, told, waiting, merged, off>>

\* A pause holds the parent only: its workers go on.
\* Mutant: only a resume ends the pause.
MutResume ==
    /\ parentPc = "held"
    /\ asked = "run"
    /\ state' = "running"
    /\ parentPc' = "wait"
    /\ UNCHANGED <<stopFile, told, waiting, todo, stopped, merged, off>>

Resume ==
    /\ parentPc = "held"
    /\ asked # "pause"
    /\ state' = "running"
    /\ IF asked = "stop" THEN ObeyStop
       ELSE parentPc' = "wait" /\ UNCHANGED <<stopped, todo>>
    /\ UNCHANGED <<stopFile, told, waiting, merged, off>>

TouchStop ==
    /\ parentPc = "touch"
    /\ IF todo = {} THEN parentPc' = "wait" /\ UNCHANGED <<todo, stopFile>>
       ELSE /\ stopFile' = stopFile \cup {First(todo)}
            /\ todo' = todo \ {First(todo)}
            /\ UNCHANGED parentPc
    /\ UNCHANGED <<told, waiting, stopped, state, merged, off>>

\* Anything raised while waiting: the live workers are terminated first.
\* Mutant: the exception is raised without terminating anyone.
MutWaitRaises ==
    /\ parentPc \in {"drain", "poll", "held", "touch"}
    /\ state' = "failed"
    /\ parentPc' = "ended"
    /\ UNCHANGED <<stopFile, told, waiting, todo, stopped, merged, off>>

WaitRaises ==
    /\ parentPc \in {"drain", "poll", "held", "touch"}
    /\ told' = told \cup {p \in waiting : Alive(p)}
    /\ state' = "failed"
    /\ parentPc' = "ended"
    /\ UNCHANGED <<stopFile, waiting, todo, stopped, merged, off>>

WaitStep(own) == Wait \/ Drain \/ DrainEnds(own) \/ Poll \/ Resume \/ TouchStop

End(st) ==
    /\ state' = st
    /\ parentPc' = "ended"

Command ==
    /\ \E c \in Cmds \ {asked} : asked' = c
    /\ parentPc \notin {"ended", "raised", "killed"}
    /\ UNCHANGED <<workerVars, stopFile, told, parentPc, parentVars>>

ParentKilled ==
    /\ parentPc \notin {"ended", "raised", "killed"}
    /\ parentPc' = "killed"
    /\ UNCHANGED <<workerVars, stopFile, told, asked, parentVars>>

-----------------------------------------------------------------------------
WorkersTypeOK ==
    /\ worker \in [Procs -> Running \cup {"none", "ok", "bad"}]
    /\ trained \in [Procs -> 0..TrainSteps] /\ grace \in [Procs -> 0..TrainSteps]
    /\ \A p \in Procs : log[p] \in Seq(0..TrainSteps) /\ off[p] \in 0..Len(log[p])
    /\ DOMAIN result \subseteq DOMAIN model /\ DOMAIN model \subseteq Procs \ Quiet
    /\ \A p \in DOMAIN model : model[p] \in 0..TrainSteps
    /\ \A p \in DOMAIN result : result[p] \in 0..TrainSteps
    /\ {stopFile, told, waiting, todo} \subseteq SUBSET Procs
    /\ parentPc \in {"spawn", "wait", "drain", "last", "poll", "held", "touch", "judge", "render",
               "after", "ended", "raised", "killed"}
    /\ stopped \in BOOLEAN
    /\ asked \in {"run", "pause", "stop"}
    /\ state \in {"running", "paused", "done", "stopped", "failed"}
    /\ merged \in Seq((Procs \cup {0}) \X (0..TrainSteps))

(***************************************************************************)
(* The parent's metrics hold the rows of each worker in order and each     *)
(* once, although its file is read while it grows; and a parent that ended *)
(* as done or stopped has every complete row, those written during its     *)
(* last sleep included.                                                    *)
(***************************************************************************)
RowsAreMerged ==
    \A p \in Procs :
        /\ Cardinality(RowsOf(p)) = off[p]
        /\ \A i \in RowsOf(p) : merged[i] = <<p, log[p][Place(RowsOf(p), i)]>>
        /\ state \in {"done", "stopped"} => off[p] = Len(log[p])

(***************************************************************************)
(* A parent that ended by itself leaves no worker running that it has not   *)
(* told to end, unless a call outside the wait raised.                     *)
(***************************************************************************)
NoWorkerLeft == parentPc = "ended" => \A p \in Procs : Alive(p) => p \in told
=============================================================================
