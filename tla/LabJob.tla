------------------------------- MODULE LabJob -------------------------------
(***************************************************************************)
(* The run-directory contract of the lab: the web server that starts jobs  *)
(* and reads them back (lab/server/app.py, lab/core/jobs.py), the detached *)
(* child that runs one job (lab/run_job.py) and the RunContext through     *)
(* which its task talks to the server (lab/core/runctx.py).  They share    *)
(* nothing but files: status.json, job.pid, control.json and               *)
(* metrics.jsonl of one directory per job.                                 *)
(*                                                                         *)
(* A read of a file and a later write of it are two steps wherever the     *)
(* code has two (set_status, sweep_stale); os.replace makes one write one  *)
(* step (atomic_write_json).                                               *)
(***************************************************************************)
EXTENDS Naturals, FiniteSets

CONSTANTS
    Jobs,         \* the job directories a history may create
    Outside,      \* jobs a driver runs in a container of their own
    None,         \* "no job"
    MaxSteps,     \* bound: metric rows a job logs
    MaxRestarts,  \* bound: crashes or restarts of the lab container
    MaxCmds       \* bound: control commands the user sends

ASSUME JobsAssumption == None \notin Jobs /\ Outside \subseteq Jobs
ASSUME BoundsAssumption ==
    MaxSteps \in Nat \ {0} /\ MaxRestarts \in Nat /\ MaxCmds \in Nat

VARIABLES
    server,    \* the lab container: "down", "sweep" (start-up), "up" (serving)
    todo,      \* job directories sweep_stale has still to visit
    sweeping,  \* the directory whose status it has read and will rewrite
    sweepPid,  \* the pid in that status
    start,     \* start[j]: how far the POST handler (_start, start_job) is
    status,    \* status[j]: status.json
    pidfile,   \* the jobs whose job.pid has been written
    control,   \* control[j]: control.json, "none" while there is no file
    pc,        \* pc[j]: where the child process of j is
    draft,     \* draft[j]: the status a set_status call is about to write
    steps,     \* steps[j]: rows in metrics.jsonl
    reused,    \* the jobs whose pid by now belongs to another process
    outcome,   \* outcome[j]: how the task function of j ended (history)
    restarts, cmds

serverVars == <<server, todo, sweeping, sweepPid, restarts>>
childVars == <<pc, draft, steps, outcome>>
vars == <<server, todo, sweeping, sweepPid, start, status, pidfile, control,
          pc, draft, steps, reused, outcome, restarts, cmds>>

Terminal == {"done", "failed", "stopped"}
Active == {"running", "paused"}
States == {"none", "queued"} \cup Active \cup Terminal
Cmds == {"run", "pause", "stop"}

StartStages == {"idle", "made", "control", "queued", "starting", "spawned",
                "started", "nospawn", "error", "lost"}
Gone == {"exited", "killed"}
ChildPoints == {"none", "boot", "poll", "work", "held", "stopping", "finish",
                "return", "write"} \cup Gone

NoFile == [state |-> "none", pid |-> "nopid"]
NoDraft == [base |-> "none", set |-> "none", to |-> "none"]

Contained == Jobs \ Outside
Alive(j) == pc[j] \notin {"none"} \cup Gone
DirExists(j) == start[j] # "idle"

Init ==
    /\ server = "up"
    /\ todo = {}
    /\ sweeping = None
    /\ sweepPid = "nopid"
    /\ start = [j \in Jobs |-> "idle"]
    /\ status = [j \in Jobs |-> NoFile]
    /\ pidfile = {}
    /\ control = [j \in Jobs |-> "none"]
    /\ pc = [j \in Jobs |-> "none"]
    /\ draft = [j \in Jobs |-> NoDraft]
    /\ steps = [j \in Jobs |-> 0]
    /\ reused = {}
    /\ outcome = [j \in Jobs |-> "none"]
    /\ restarts = 0
    /\ cmds = 0

-----------------------------------------------------------------------------
(***************************************************************************)
(* The server: POST .../runs or .../evals.  Handlers are plain functions   *)
(* run on a thread pool, so the steps of several of them interleave.       *)
(***************************************************************************)
MakeDir(j) ==
    /\ server = "up"
    /\ j \notin Outside
    /\ start[j] = "idle"
    /\ start' = [start EXCEPT ![j] = "made"]
    /\ UNCHANGED <<serverVars, childVars, status, pidfile, control, reused, cmds>>

WriteControl(j) ==
    /\ start[j] = "made"
    /\ start' = [start EXCEPT ![j] = "control"]
    /\ control' = [control EXCEPT ![j] = "run"]
    /\ UNCHANGED <<serverVars, childVars, status, pidfile, reused, cmds>>

WriteQueued(j) ==
    /\ start[j] = "control"
    /\ start' = [start EXCEPT ![j] = "queued"]
    /\ status' = [status EXCEPT ![j] = [state |-> "queued", pid |-> "nopid"]]
    /\ UNCHANGED <<serverVars, childVars, pidfile, control, reused, cmds>>

\* start_job announces the job as running before the child can say so itself.
WriteStarting(j) ==
    /\ start[j] = "queued"
    /\ start' = [start EXCEPT ![j] = "starting"]
    /\ status' = [status EXCEPT ![j] = [state |-> "running", pid |-> "nopid"]]
    /\ UNCHANGED <<serverVars, childVars, pidfile, control, reused, cmds>>

Spawn(j) ==
    /\ start[j] = "starting"
    /\ start' = [start EXCEPT ![j] = "spawned"]
    /\ pc' = [pc EXCEPT ![j] = "boot"]
    /\ UNCHANGED <<serverVars, status, pidfile, control, draft, steps, reused,
                   outcome, cmds>>

\* Popen, or opening job.log, raises OSError.
SpawnFails(j) ==
    /\ start[j] = "starting"
    /\ start' = [start EXCEPT ![j] = "nospawn"]
    /\ UNCHANGED <<serverVars, childVars, status, pidfile, control, reused, cmds>>

\* Mutant: the error is raised, but the status is left as announced.
MutWriteSpawnFailed(j) ==
    /\ start[j] = "nospawn"
    /\ start' = [start EXCEPT ![j] = "error"]
    /\ UNCHANGED <<serverVars, childVars, status, pidfile, control, reused, cmds>>

WriteSpawnFailed(j) ==
    /\ start[j] = "nospawn"
    /\ start' = [start EXCEPT ![j] = "error"]
    /\ status' = [status EXCEPT ![j] = [state |-> "failed", pid |-> "nopid"]]
    /\ UNCHANGED <<serverVars, childVars, pidfile, control, reused, cmds>>

\* Mutant: the parent merges the pid into status.json instead.
MutWritePid(j) ==
    /\ start[j] = "spawned"
    /\ start' = [start EXCEPT ![j] = "started"]
    /\ status' = [status EXCEPT ![j] = [state |-> "running", pid |-> "pid"]]
    /\ UNCHANGED <<serverVars, childVars, pidfile, control, reused, cmds>>

\* After the spawn the parent leaves status.json alone: the pid has a file of
\* its own, with the start time of the process.
WritePid(j) ==
    /\ start[j] = "spawned"
    /\ start' = [start EXCEPT ![j] = "started"]
    /\ pidfile' = pidfile \cup {j}
    /\ UNCHANGED <<serverVars, childVars, status, control, reused, cmds>>

\* A driver outside the lab container writes a standard job directory and runs
\* the same entry point; no job.pid is written for it.
StartOutside(j) ==
    /\ j \in Outside
    /\ start[j] = "idle"
    /\ start' = [start EXCEPT ![j] = "started"]
    /\ status' = [status EXCEPT ![j] = [state |-> "queued", pid |-> "nopid"]]
    /\ control' = [control EXCEPT ![j] = "run"]
    /\ pc' = [pc EXCEPT ![j] = "boot"]
    /\ UNCHANGED <<serverVars, pidfile, draft, steps, reused, outcome, cmds>>

\* POST .../control overwrites control.json: the last command sent is the only
\* one the job can read.
SendControl(j, c) ==
    /\ server = "up"
    /\ DirExists(j)
    /\ cmds < MaxCmds
    /\ cmds' = cmds + 1
    /\ control' = [control EXCEPT ![j] = c]
    /\ UNCHANGED <<serverVars, childVars, start, status, pidfile, reused>>

-----------------------------------------------------------------------------
(***************************************************************************)
(* The container stops (crash, reboot, compose restart) and comes back.    *)
(* Every process in it dies with it; a job outside does not.               *)
(***************************************************************************)
ContainerStops ==
    /\ server # "down"
    /\ restarts < MaxRestarts
    /\ restarts' = restarts + 1
    /\ server' = "down"
    /\ todo' = {}
    /\ sweeping' = None
    /\ sweepPid' = "nopid"
    /\ pc' = [j \in Jobs |-> IF j \in Contained /\ Alive(j) THEN "killed"
                             ELSE pc[j]]
    /\ start' = [j \in Jobs |-> IF start[j] \in {"idle", "started", "error"}
                                THEN start[j] ELSE "lost"]
    /\ UNCHANGED <<status, pidfile, control, draft, steps, reused, outcome, cmds>>

ContainerStarts ==
    /\ server = "down"
    /\ server' = "sweep"
    /\ todo' = {j \in Jobs : DirExists(j)}
    /\ UNCHANGED <<childVars, sweeping, sweepPid, start, status, pidfile, control,
                   reused, restarts, cmds>>

\* Mutant: the sweep does not pass over a terminal status.
MutSweepRead(j) ==
    /\ server = "sweep"
    /\ sweeping = None
    /\ j \in todo
    /\ sweeping' = j
    /\ sweepPid' = status[j].pid
    /\ UNCHANGED <<childVars, server, todo, start, status, pidfile, control,
                   reused, restarts, cmds>>

\* sweep_stale reads one status.json and passes over a terminal one ...
SweepRead(j) ==
    /\ server = "sweep"
    /\ sweeping = None
    /\ j \in todo
    /\ IF status[j].state \in Terminal
       THEN /\ todo' = todo \ {j}
            /\ UNCHANGED <<sweeping, sweepPid>>
       ELSE /\ sweeping' = j
            /\ sweepPid' = status[j].pid
            /\ UNCHANGED todo
    /\ UNCHANGED <<childVars, server, start, status, pidfile, control, reused,
                   restarts, cmds>>

\* ... and replaces any other one, as it read it, with a failed one.
SweepWrite ==
    /\ sweeping \in Jobs
    /\ status' = [status EXCEPT ![sweeping] =
                    [state |-> "failed", pid |-> sweepPid]]
    /\ todo' = todo \ {sweeping}
    /\ sweeping' = None
    /\ sweepPid' = "nopid"
    /\ UNCHANGED <<childVars, server, start, pidfile, control, reused, restarts,
                   cmds>>

\* Requests are served only after the sweep.
SweepEnds ==
    /\ server = "sweep"
    /\ sweeping = None
    /\ todo = {}
    /\ server' = "up"
    /\ UNCHANGED <<childVars, todo, sweeping, sweepPid, start, status, pidfile,
                   control, reused, restarts, cmds>>

\* The kernel hands the pid of a dead, reaped child to an unrelated process.
\* The handler's Popen object keeps the child a zombie until it returns.
PidReused(j) ==
    /\ j \in Contained
    /\ pc[j] \in Gone
    /\ start[j] # "spawned"
    /\ j \notin reused
    /\ reused' = reused \cup {j}
    /\ UNCHANGED <<serverVars, childVars, start, status, pidfile, control, cmds>>

-----------------------------------------------------------------------------
(***************************************************************************)
(* The child.  set_status reads status.json, merges its keywords and the   *)
(* pid, and replaces the file: SetStatus is the read, Write the rest.      *)
(* "keep" stands for a call without state=.                                *)
(***************************************************************************)
SetStatus(j, from, st, to) ==
    /\ pc[j] = from
    /\ draft' = [draft EXCEPT ![j] = [base |-> status[j].state, set |-> st, to |-> to]]
    /\ pc' = [pc EXCEPT ![j] = "write"]

Merged(d) == [state |-> IF d.set = "keep" THEN d.base ELSE d.set, pid |-> "pid"]

Write(j) ==
    /\ pc[j] = "write"
    /\ status' = [status EXCEPT ![j] = Merged(draft[j])]
    /\ pc' = [pc EXCEPT ![j] = draft[j].to]
    /\ draft' = [draft EXCEPT ![j] = NoDraft]
    /\ UNCHANGED <<serverVars, start, pidfile, control, steps, reused, outcome, cmds>>

\* main: imports done, RunContext built, first status of the child itself.
ReportUp(j) ==
    /\ SetStatus(j, "boot", "running", "poll")
    /\ UNCHANGED <<serverVars, start, status, pidfile, control, steps, reused,
                   outcome, cmds>>

\* should_continue less than POLL_S after the last look: go on unread.  The
\* first call always looks (_last_poll is 0.0), and a step follows it.
PollSkips(j) ==
    /\ pc[j] = "poll"
    /\ steps[j] > 0
    /\ pc' = [pc EXCEPT ![j] = "work"]
    /\ UNCHANGED <<serverVars, start, status, pidfile, control, draft, steps,
                   reused, outcome, cmds>>

\* Mutant: only a pause is obeyed.
MutPollReads(j) ==
    /\ pc[j] = "poll"
    /\ \/ /\ control[j] = "pause"
          /\ SetStatus(j, "poll", "paused", "held")
       \/ /\ control[j] # "pause"
          /\ pc' = [pc EXCEPT ![j] = "work"]
          /\ UNCHANGED draft
    /\ UNCHANGED <<serverVars, start, status, pidfile, control, steps, reused,
                   outcome, cmds>>

PollReads(j) ==
    /\ pc[j] = "poll"
    /\ \/ /\ control[j] = "pause"
          /\ SetStatus(j, "poll", "paused", "held")
       \/ /\ control[j] # "pause"
          /\ pc' = [pc EXCEPT ![j] = IF control[j] = "stop" THEN "stopping" ELSE "work"]
          /\ UNCHANGED draft
    /\ UNCHANGED <<serverVars, start, status, pidfile, control, steps, reused,
                   outcome, cmds>>

\* Mutant: a resumed job goes on without reporting running.
MutResume(j) ==
    /\ control[j] # "pause"
    /\ SetStatus(j, "held", "keep",
                 IF control[j] = "stop" THEN "stopping" ELSE "work")
    /\ UNCHANGED <<serverVars, start, status, pidfile, control, steps, reused,
                   outcome, cmds>>

\* The 0.1 s loop of a paused job sees another command: it reports running
\* first and only then obeys the command it saw.
Resume(j) ==
    /\ control[j] # "pause"
    /\ SetStatus(j, "held", "running",
                 IF control[j] = "stop" THEN "stopping" ELSE "work")
    /\ UNCHANGED <<serverVars, start, status, pidfile, control, steps, reused,
                   outcome, cmds>>

\* One step of the task: ctx.log appends a row, then ctx.set_status(step=...)
\* reports progress without touching the state; the loop may be over.
Work(j) ==
    /\ steps' = [steps EXCEPT ![j] = IF @ < MaxSteps THEN @ + 1 ELSE @]
    /\ \E to \in {"poll", "finish"} : SetStatus(j, "work", "keep", to)
    /\ UNCHANGED <<serverVars, start, status, pidfile, control, reused, outcome, cmds>>

\* The task saved its results and either calls ctx.done or just returns.
Finish(j) ==
    /\ pc[j] = "finish"
    /\ outcome' = [outcome EXCEPT ![j] = "done"]
    /\ \/ SetStatus(j, "finish", "done", "return")
       \/ pc' = [pc EXCEPT ![j] = "return"] /\ UNCHANGED draft
    /\ UNCHANGED <<serverVars, start, status, pidfile, control, steps, reused, cmds>>

\* The loop saw False: final save, state="stopped", return.
StopWork(j) ==
    /\ SetStatus(j, "stopping", "stopped", "return")
    /\ outcome' = [outcome EXCEPT ![j] = "stopped"]
    /\ UNCHANGED <<serverVars, start, status, pidfile, control, steps, reused, cmds>>

\* Any exception of the task ends in ctx.fail.
Raise(j) ==
    /\ \E from \in {"work", "stopping", "finish"} :
           SetStatus(j, from, "failed", "exited")
    /\ outcome' = [outcome EXCEPT ![j] = "failed"]
    /\ UNCHANGED <<serverVars, start, status, pidfile, control, steps, reused, cmds>>

\* main after the task: a task that left no terminal state gets "done".
Return(j) ==
    /\ \/ /\ status[j].state \in Terminal
          /\ pc[j] = "return"
          /\ pc' = [pc EXCEPT ![j] = "exited"]
          /\ UNCHANGED draft
       \/ /\ status[j].state \notin Terminal
          /\ SetStatus(j, "return", "done", "exited")
    /\ UNCHANGED <<serverVars, start, status, pidfile, control, steps, reused,
                   outcome, cmds>>

\* SIGKILL, the memory limit, a segfault, or an error before main's try.
Killed(j) ==
    /\ Alive(j)
    /\ pc' = [pc EXCEPT ![j] = "killed"]
    /\ UNCHANGED <<serverVars, start, status, pidfile, control, draft, steps,
                   reused, outcome, cmds>>

-----------------------------------------------------------------------------
Handler(j) ==
    \/ WriteControl(j) \/ WriteQueued(j) \/ WriteStarting(j)
    \/ Spawn(j) \/ SpawnFails(j) \/ WriteSpawnFailed(j) \/ WritePid(j)

Sweep == (\E j \in Jobs : SweepRead(j)) \/ SweepWrite \/ SweepEnds

Child(j) ==
    \/ ReportUp(j) \/ Write(j) \/ PollSkips(j) \/ PollReads(j) \/ Resume(j)
    \/ Work(j) \/ Finish(j) \/ StopWork(j) \/ Raise(j) \/ Return(j)

Environment ==
    \/ ContainerStops
    \/ \E j \in Jobs :
         \/ MakeDir(j) \/ StartOutside(j) \/ PidReused(j) \/ Killed(j)
         \/ \E c \in Cmds : SendControl(j, c)

Next ==
    \/ Environment \/ ContainerStarts \/ Sweep
    \/ \E j \in Jobs : Handler(j) \/ Child(j)

Spec == Init /\ [][Next]_vars

\* Threads and processes are scheduled; compose restarts the container
\* (restart: unless-stopped); wall time passes, so should_continue cannot be
\* throttled at every call.  Nothing is assumed of the user, of Killed, nor
\* that a job's own loop ever ends.
Fairness ==
    /\ WF_vars(ContainerStarts) /\ WF_vars(Sweep)
    /\ \A j \in Jobs : /\ WF_vars(Handler(j)) /\ WF_vars(Child(j))
                       /\ SF_vars(PollReads(j))

FairSpec == Spec /\ Fairness

-----------------------------------------------------------------------------
(***************************************************************************)
(* What GET answers: read_status, taken as one step (RunView splits it).   *)
(***************************************************************************)
HasPid(j) == status[j].pid = "pid" \/ j \in pidfile

\* Mutant: the start time recorded in job.pid is not compared.
MutLooksAlive(j) ==
    \/ j \in Outside
    \/ Alive(j)
    \/ pc[j] \in Gone /\ j \in reused

\* os.kill(pid, 0), the zombie test and the recorded start time.  An outside
\* job reports pid 1, which in the lab container is init.
LooksAlive(j) ==
    \/ j \in Outside
    \/ Alive(j)
    \/ pc[j] \in Gone /\ j \in reused /\ j \notin pidfile

ReadStatus(j) ==
    IF status[j].state \in Active /\ HasPid(j) /\ ~LooksAlive(j)
    THEN "failed" ELSE status[j].state

\* What a user is shown.  While the container is down nothing is served, and a
\* contained job that is not terminal by then is as good as failed.
Shown(j) ==
    IF server # "up" /\ j \in Contained /\ DirExists(j)
       /\ status[j].state \notin Terminal
    THEN "failed" ELSE ReadStatus(j)

-----------------------------------------------------------------------------
StatusRecord == [state : States, pid : {"nopid", "pid"}]
DraftRecord == [base : States, set : States \cup {"keep"}, to : ChildPoints]

TypeOK ==
    /\ server \in {"down", "sweep", "up"}
    /\ todo \in SUBSET Jobs
    /\ sweeping \in Jobs \cup {None}
    /\ sweepPid \in {"nopid", "pid"}
    /\ start \in [Jobs -> StartStages]
    /\ status \in [Jobs -> StatusRecord]
    /\ pidfile \in SUBSET Jobs
    /\ control \in [Jobs -> Cmds \cup {"none"}]
    /\ pc \in [Jobs -> ChildPoints]
    /\ draft \in [Jobs -> DraftRecord]
    /\ steps \in [Jobs -> 0..MaxSteps]
    /\ reused \in SUBSET Jobs
    /\ outcome \in [Jobs -> {"none"} \cup Terminal]
    /\ restarts \in 0..MaxRestarts
    /\ cmds \in 0..MaxCmds

(***************************************************************************)
(* A contained job whose process ran to its end has left, and keeps, the   *)
(* state its task ended with: neither the parent that spawned it, nor the  *)
(* sweep of a later restart, nor its own last main() lines overwrite it.   *)
(***************************************************************************)
EndIsReported ==
    \A j \in Contained : pc[j] = "exited" => status[j].state = outcome[j]

(***************************************************************************)
(* A job whose status.json says paused does no work: it is in the pause    *)
(* loop of should_continue or on its way out of it (resumed jobs report    *)
(* running before they do anything else).                                  *)
(***************************************************************************)
PausedIsIdle ==
    \A j \in Contained :
        status[j].state = "paused" /\ Alive(j)
            => \/ pc[j] = "held"
               \/ pc[j] = "write" /\ draft[j].set = "running"

(***************************************************************************)
(* A stop that is not overwritten ends the job: once control.json stays at *)
(* stop, every contained job that was requested is eventually shown        *)
(* terminal for good, however long its own loop would have run.            *)
(***************************************************************************)
StopEnds ==
    \A j \in Contained :
        <>[](control[j] = "stop") => <>[](Shown(j) \in Terminal)

(***************************************************************************)
(* No job is shown running by mistake for ever: once a contained job's     *)
(* process is gone, or its handler never got to spawn it, the server shows *)
(* a terminal state ("never leave an eternal running dir behind").         *)
(***************************************************************************)
NoEternalRunning ==
    \A j \in Contained :
        (pc[j] \in Gone \/ start[j] \in {"nospawn", "lost"}) ~> Shown(j) \in Terminal

(***************************************************************************)
(* sweep_stale marks the non-terminal directories failed and no other: a   *)
(* job of an outside container that recorded done stays done.              *)
(***************************************************************************)
DoneSurvivesSweep ==
    [][\A j \in Outside : status[j].state = "done" => status'[j].state = "done"]_vars

(***************************************************************************)
(* Every history of the contained jobs, seen through Shown, is one that    *)
(* JobLifecycle allows.  A terminal answer is final: whatever dies,        *)
(* restarts or reuses a pid afterwards, read_status never takes it back,   *)
(* and no job runs before it was queued or ends from a pause unreported.   *)
(***************************************************************************)
Lifecycle == INSTANCE JobLifecycle WITH
    Jobs <- Contained, shown <- [j \in Contained |-> Shown(j)]

ImplementsLifecycle == Lifecycle!Spec
=============================================================================
