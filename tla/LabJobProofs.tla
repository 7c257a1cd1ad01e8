---------------------------- MODULE LabJobProofs ----------------------------
(***************************************************************************)
(* Proofs about LabJob, about RunView which watches its jobs, and about    *)
(* TaskPage with the cards around it, for any set of jobs, any split into  *)
(* contained and outside ones, any checkpoints and any bounds.             *)
(***************************************************************************)
EXTENDS RunView, TaskPage, FiniteSetTheorems, SequenceTheorems, TLAPS

USE JobsAssumption, BoundsAssumption DEF JobsAssumption, BoundsAssumption

(***************************************************************************)
(* The values the code writes into status.json, and the drafts of          *)
(* set_status, are records of the expected kinds.                          *)
(***************************************************************************)
LEMMA StatusValues ==
    /\ \A st \in States, p \in {"nopid", "pid"} : [state |-> st, pid |-> p] \in StatusRecord
    /\ \A r \in StatusRecord : r.state \in States /\ r.pid \in {"nopid", "pid"}
    /\ NoFile \in StatusRecord
  BY DEF StatusRecord, NoFile, States

LEMMA DraftValues ==
    /\ \A b \in States, st \in States \cup {"keep"}, to \in ChildPoints :
          [base |-> b, set |-> st, to |-> to] \in DraftRecord
    /\ \A d \in DraftRecord :
          d.base \in States /\ d.set \in States \cup {"keep"} /\ d.to \in ChildPoints
    /\ \A d \in DraftRecord : Merged(d) \in StatusRecord
    /\ NoDraft \in DraftRecord
  BY DEF DraftRecord, StatusRecord, Merged, NoDraft, States, ChildPoints

LEMMA StateNames ==
    /\ {"none", "queued", "running", "paused", "done", "failed", "stopped"} = States
    /\ {"done", "failed", "stopped"} = Terminal
    /\ {"none", "boot", "poll", "work", "held", "stopping", "finish", "return",
        "write", "exited", "killed"} = ChildPoints
  BY DEF States, Terminal, Active, ChildPoints, Gone

(***************************************************************************)
(* Type correctness: every file and program counter of LabJob keeps to the *)
(* values the code writes.                                                 *)
(***************************************************************************)
LEMMA TypeInit == Init => TypeOK
<1> SUFFICES ASSUME Init PROVE TypeOK
  OBVIOUS
<1> USE DEF Init
<1>1. /\ server \in {"down", "sweep", "up"}
      /\ todo \in SUBSET Jobs
      /\ sweeping \in Jobs \cup {None}
      /\ sweepPid \in {"nopid", "pid"}
      /\ restarts \in 0..MaxRestarts
      /\ cmds \in 0..MaxCmds
      /\ steps \in [Jobs -> 0..MaxSteps]
  OBVIOUS
<1>2. start \in [Jobs -> StartStages] /\ control \in [Jobs -> Cmds \cup {"none"}]
  BY DEF StartStages
<1>3. status \in [Jobs -> StatusRecord] /\ draft \in [Jobs -> DraftRecord]
  BY StatusValues, DraftValues
<1>4. /\ pidfile \in SUBSET Jobs
      /\ reused \in SUBSET Jobs
      /\ outcome \in [Jobs -> {"none"} \cup Terminal]
  OBVIOUS
<1>5. pc \in [Jobs -> ChildPoints]
  BY StateNames
<1>6. QED
  BY <1>1, <1>2, <1>3, <1>4, <1>5 DEF TypeOK

LEMMA SetStatusType ==
    ASSUME TypeOK, NEW j \in Jobs, NEW from, NEW st \in States \cup {"keep"},
           NEW to \in ChildPoints, SetStatus(j, from, st, to)
    PROVE  /\ pc' \in [Jobs -> ChildPoints]
           /\ draft' \in [Jobs -> DraftRecord]
<1>1. status[j].state \in States
  BY StatusValues DEF TypeOK
<1>2. [base |-> status[j].state, set |-> st, to |-> to] \in DraftRecord
  BY <1>1, DraftValues
<1>3. QED
  BY <1>2, StateNames DEF SetStatus, TypeOK

LEMMA TypeStep == TypeOK /\ [Next]_vars => TypeOK'
<1> SUFFICES ASSUME TypeOK, [Next]_vars PROVE TypeOK'
  OBVIOUS
<1> USE StateNames DEF TypeOK, serverVars, childVars
<1>1. ASSUME NEW j \in Jobs, MakeDir(j) PROVE TypeOK'
  BY <1>1 DEF MakeDir, StartStages
<1>2. ASSUME NEW j \in Jobs, Handler(j) PROVE TypeOK'
  <2>1. CASE WriteQueued(j) \/ WriteStarting(j) \/ WriteSpawnFailed(j)
    <3>1. status' \in [Jobs -> StatusRecord]
      <4>1. \A st \in {"queued", "running", "failed"} :
                [state |-> st, pid |-> "nopid"] \in StatusRecord
        BY StatusValues
      <4>2. \E st \in {"queued", "running", "failed"} :
                status' = [status EXCEPT ![j] = [state |-> st, pid |-> "nopid"]]
        BY <2>1 DEF WriteQueued, WriteStarting, WriteSpawnFailed
      <4>3. QED
        BY <4>1, <4>2
    <3>2. start' \in [Jobs -> StartStages]
      BY <2>1 DEF WriteQueued, WriteStarting, WriteSpawnFailed, StartStages
    <3>3. QED
      BY <2>1, <3>1, <3>2 DEF WriteQueued, WriteStarting, WriteSpawnFailed
  <2>2. CASE WriteControl(j) \/ Spawn(j) \/ SpawnFails(j) \/ WritePid(j)
    BY <2>2 DEF WriteControl, Spawn, SpawnFails, WritePid, StartStages, Cmds
  <2>3. QED
    BY <1>2, <2>1, <2>2 DEF Handler
<1>3. ASSUME NEW j \in Jobs, StartOutside(j) PROVE TypeOK'
  BY <1>3, StatusValues DEF StartOutside, StartStages, Cmds
<1>4. ASSUME NEW j \in Jobs, NEW c \in Cmds, SendControl(j, c) PROVE TypeOK'
  BY <1>4 DEF SendControl, DirExists
<1>5. CASE ContainerStops
  BY <1>5 DEF ContainerStops, StartStages
<1>6. CASE ContainerStarts
  BY <1>6 DEF ContainerStarts
<1>7. CASE Sweep
  <2>1. ASSUME NEW j \in Jobs, SweepRead(j) PROVE TypeOK'
    <3>1. status[j].pid \in {"nopid", "pid"}
      BY StatusValues
    <3>2. QED
      BY <2>1, <3>1 DEF SweepRead
  <2>2. CASE SweepWrite
    <3>1. status' \in [Jobs -> StatusRecord]
      BY <2>2, StatusValues DEF SweepWrite
    <3>2. QED
      BY <2>2, <3>1 DEF SweepWrite
  <2>3. CASE SweepEnds
    BY <2>3 DEF SweepEnds
  <2>4. QED
    BY <1>7, <2>1, <2>2, <2>3 DEF Sweep
<1>8. ASSUME NEW j \in Jobs, PidReused(j) PROVE TypeOK'
  BY <1>8 DEF PidReused
<1>9. ASSUME NEW j \in Jobs, Child(j) PROVE TypeOK'
  <2>1. CASE Write(j)
    <3>1. /\ Merged(draft[j]) \in StatusRecord
          /\ draft[j].to \in ChildPoints
      BY DraftValues
    <3>2. QED
      BY <2>1, <3>1, DraftValues DEF Write
  <2>2. CASE PollSkips(j)
    BY <2>2 DEF PollSkips
  <2>3. CASE Work(j)
    <3>1. steps' \in [Jobs -> 0..MaxSteps]
      BY <2>3 DEF Work
    <3>2. pc' \in [Jobs -> ChildPoints] /\ draft' \in [Jobs -> DraftRecord]
      BY <2>3, SetStatusType DEF Work
    <3>3. QED
      BY <2>3, <3>1, <3>2 DEF Work
  <2>4. ASSUME \/ ReportUp(j) \/ PollReads(j) \/ Resume(j) \/ Finish(j)
               \/ StopWork(j) \/ Raise(j) \/ Return(j)
        PROVE  TypeOK'
    <3>1. pc' \in [Jobs -> ChildPoints] /\ draft' \in [Jobs -> DraftRecord]
      <4>1. CASE ReportUp(j)
        BY <4>1, SetStatusType DEF ReportUp
      <4>2. CASE PollReads(j)
        BY <4>2, SetStatusType DEF PollReads
      <4>3. CASE Resume(j)
        BY <4>3, SetStatusType DEF Resume
      <4>4. CASE Finish(j)
        BY <4>4, SetStatusType DEF Finish
      <4>5. CASE StopWork(j) \/ Raise(j)
        BY <4>5, SetStatusType DEF StopWork, Raise
      <4>6. CASE Return(j)
        <5>1. CASE SetStatus(j, "return", "done", "exited")
          BY <5>1, SetStatusType
        <5>2. CASE pc' = [pc EXCEPT ![j] = "exited"] /\ UNCHANGED draft
          BY <5>2
        <5>3. QED
          BY <4>6, <5>1, <5>2 DEF Return
      <4>7. QED
        BY <2>4, <4>1, <4>2, <4>3, <4>4, <4>5, <4>6
    <3>2. outcome' \in [Jobs -> {"none"} \cup Terminal]
      BY <2>4 DEF ReportUp, PollReads, Resume, Finish, StopWork, Raise, Return
    <3>3. UNCHANGED <<serverVars, start, status, pidfile, control, steps, reused, cmds>>
      BY <2>4 DEF ReportUp, PollReads, Resume, Finish, StopWork, Raise, Return
    <3>4. QED
      BY <3>1, <3>2, <3>3
  <2>5. QED
    BY <1>9, <2>1, <2>2, <2>3, <2>4 DEF Child
<1>10. ASSUME NEW j \in Jobs, Killed(j) PROVE TypeOK'
  BY <1>10 DEF Killed
<1>11. CASE UNCHANGED vars
  BY <1>11 DEF vars
<1>12. QED
  BY <1>1, <1>2, <1>3, <1>4, <1>5, <1>6, <1>7, <1>8, <1>9, <1>10, <1>11
     DEF Next, Environment

THEOREM TypeCorrect == Spec => []TypeOK
  BY TypeInit, TypeStep, PTL DEF Spec

-----------------------------------------------------------------------------
(***************************************************************************)
(* The inductive invariant, job by job.                                    *)
(***************************************************************************)
Unspawned == {"idle", "made", "control", "queued", "starting", "nospawn", "error"}

\* Until the child is spawned only the handler has written anything.
HandlerInv(j) ==
    /\ start[j] \in Unspawned
         => pc[j] = "none" /\ j \notin pidfile /\ status[j].pid = "nopid"
    /\ start[j] \in {"idle", "made", "control"} => status[j].state = "none"
    /\ start[j] = "queued" => status[j].state = "queued"
    /\ start[j] \in {"starting", "nospawn"} => status[j].state = "running"
    /\ start[j] = "error" => status[j].state = "failed"

SpawnedInv(j) ==
    /\ start[j] \in {"spawned", "started"} => pc[j] # "none"
    /\ start[j] = "started" => j \in pidfile
    /\ start[j] = "spawned" => j \notin reused
    /\ j \in reused => pc[j] \in Gone

\* Handlers and contained children live in a container that is up, and the
\* sweep leaves no directory of theirs behind.
ContainerInv(j) ==
    /\ Alive(j) \/ start[j] \notin {"idle", "started", "error", "lost"}
         => server = "up"
    /\ start[j] = "lost" => ~Alive(j)
    /\ server = "up" /\ start[j] = "lost" => status[j].state \in Terminal
    /\ server = "sweep" /\ DirExists(j) /\ j \notin todo
         => status[j].state \in Terminal
    /\ sweeping = j => server = "sweep" /\ status[j].state \notin Terminal
    /\ j \in todo \/ sweeping = j => DirExists(j)

\* The update a set_status call is about to write, and where it leads.
DraftInv(j) ==
    LET d == draft[j] IN
    /\ d.base = status[j].state
    /\ \/ d.base = "running" /\ d.set = "running" /\ d.to = "poll"
       \/ d.base = "running" /\ d.set = "keep" /\ d.to \in {"poll", "finish"}
       \/ d.base = "running" /\ d.set = "paused" /\ d.to = "held"
       \/ d.base = "paused" /\ d.set = "running" /\ d.to \in {"work", "stopping"}
       \/ /\ d.base = "running" /\ d.to \in {"return", "exited"}
          /\ d.set \in Terminal /\ d.set = outcome[j]

\* status.json as the child at each of its points knows it to be.
ChildInv(j) ==
    /\ pc[j] \in {"boot", "poll", "work", "stopping", "finish"}
         => status[j].state = "running"
    /\ pc[j] = "held" => status[j].state = "paused"
    /\ pc[j] = "return"
         => /\ outcome[j] \in Terminal
            /\ \/ status[j].state = outcome[j]
               \/ status[j].state = "running" /\ outcome[j] = "done"
    /\ pc[j] = "write" => DraftInv(j)
    /\ pc[j] = "exited"
         => outcome[j] \in Terminal /\ status[j].state = outcome[j]

JobInv(j) == HandlerInv(j) /\ SpawnedInv(j) /\ ContainerInv(j) /\ ChildInv(j)

IInv == TypeOK /\ (\A j \in Contained : JobInv(j))

LEMMA InvInit == Init => IInv
<1> SUFFICES ASSUME Init PROVE IInv
  OBVIOUS
<1>1. TypeOK
  BY TypeInit
<1>2. ASSUME NEW j \in Contained PROVE JobInv(j)
  <2>1. j \in Jobs /\ j # None
    BY DEF Contained
  <2>2. QED
    BY <2>1 DEF Init, JobInv, HandlerInv, SpawnedInv, ContainerInv, ChildInv,
                Unspawned, Alive, DirExists, Gone, NoFile
<1>3. QED
  BY <1>1, <1>2 DEF IInv

(***************************************************************************)
(* A step that touches neither the files and the process of a job nor the  *)
(* server keeps the job's invariant.                                       *)
(***************************************************************************)
JobSame(j) ==
    /\ start'[j] = start[j]
    /\ status'[j] = status[j]
    /\ pc'[j] = pc[j]
    /\ draft'[j] = draft[j]
    /\ outcome'[j] = outcome[j]
    /\ j \in pidfile' <=> j \in pidfile
    /\ j \in reused' <=> j \in reused

ServerSame == server' = server /\ todo' = todo /\ sweeping' = sweeping

LEMMA Undisturbed ==
    ASSUME NEW j \in Contained, JobInv(j), JobSame(j), ServerSame
    PROVE  JobInv(j)'
<1> USE DEF JobSame, ServerSame
<1>1. HandlerInv(j)'
  BY DEF JobInv, HandlerInv, Unspawned
<1>2. SpawnedInv(j)'
  BY DEF JobInv, SpawnedInv, Gone
<1>3. ContainerInv(j)'
  BY DEF JobInv, ContainerInv, Alive, DirExists, Gone
<1>4. ChildInv(j)'
  BY DEF JobInv, ChildInv, DraftInv
<1>5. QED
  BY <1>1, <1>2, <1>3, <1>4 DEF JobInv

(***************************************************************************)
(* The steps of the POST handler of job j.                                 *)
(***************************************************************************)
LEMMA HandlerStep ==
    ASSUME TypeOK, NEW j \in Contained, JobInv(j),
           \/ MakeDir(j) \/ Handler(j)
    PROVE  JobInv(j)'
<1> j \in Jobs
  BY DEF Contained
<1> USE DEF TypeOK, serverVars, childVars, JobInv, HandlerInv, SpawnedInv,
            ContainerInv, Unspawned, Alive, DirExists, Gone
<1>1. CASE MakeDir(j)
  BY <1>1 DEF MakeDir, ChildInv
<1>2. CASE WriteControl(j)
  BY <1>2 DEF WriteControl, ChildInv
<1>3. CASE WriteQueued(j)
  BY <1>3 DEF WriteQueued, ChildInv
<1>4. CASE WriteStarting(j)
  BY <1>4 DEF WriteStarting, ChildInv
<1>5. CASE Spawn(j)
  BY <1>5 DEF Spawn, ChildInv
<1>6. CASE SpawnFails(j)
  BY <1>6 DEF SpawnFails, ChildInv
<1>7. CASE WriteSpawnFailed(j)
  BY <1>7 DEF WriteSpawnFailed, ChildInv, Terminal
<1>8. CASE WritePid(j)
  BY <1>8 DEF WritePid, ChildInv, DraftInv
<1>9. QED
  BY <1>1, <1>2, <1>3, <1>4, <1>5, <1>6, <1>7, <1>8 DEF Handler

(***************************************************************************)
(* The steps of the child of job j.                                        *)
(***************************************************************************)
LEMMA ChildStep ==
    ASSUME TypeOK, NEW j \in Contained, JobInv(j), Child(j)
    PROVE  JobInv(j)'
<1> j \in Jobs
  BY DEF Contained
<1>a. Alive(j)
  BY DEF Alive, Gone, Child, ReportUp, Write, PollSkips, PollReads, Resume,
         Work, Finish, StopWork, Raise, Return, SetStatus
<1>b. /\ server = "up" /\ start[j] \in {"spawned", "started"}
      /\ sweeping # j
  BY <1>a DEF JobInv, HandlerInv, ContainerInv, Unspawned, Alive, TypeOK, StartStages
<1>c. UNCHANGED <<server, todo, sweeping, start, pidfile, reused>>
  BY DEF serverVars, Child, ReportUp, Write, PollSkips, PollReads, Resume,
         Work, Finish, StopWork, Raise, Return
<1>1. ChildInv(j)' /\ pc'[j] # "none" /\ (j \in reused => pc'[j] \in Gone)
  <2> USE DEF JobInv, ChildInv, SetStatus, TypeOK, Gone, SpawnedInv
  <2>1. CASE ReportUp(j)
    BY <2>1 DEF ReportUp, DraftInv
  <2>2. CASE Write(j)
    BY <2>2 DEF Write, DraftInv, Merged, Terminal
  <2>3. CASE PollSkips(j)
    BY <2>3 DEF PollSkips
  <2>4. CASE PollReads(j)
    BY <2>4 DEF PollReads, DraftInv
  <2>5. CASE Resume(j)
    BY <2>5 DEF Resume, DraftInv
  <2>6. CASE Work(j)
    BY <2>6 DEF Work, DraftInv
  <2>7. CASE Finish(j)
    BY <2>7 DEF Finish, DraftInv, Terminal
  <2>8. CASE StopWork(j)
    BY <2>8 DEF StopWork, DraftInv, Terminal
  <2>9. CASE Raise(j)
    BY <2>9 DEF Raise, DraftInv, Terminal
  <2>10. CASE Return(j)
    BY <2>10 DEF Return, DraftInv, Terminal
  <2>11. QED
    BY <2>1, <2>2, <2>3, <2>4, <2>5, <2>6, <2>7, <2>8, <2>9, <2>10 DEF Child
<1>2. HandlerInv(j)'
  BY <1>b, <1>c DEF HandlerInv, Unspawned
<1>3. SpawnedInv(j)'
  BY <1>1, <1>b, <1>c DEF JobInv, SpawnedInv
<1>4. ContainerInv(j)'
  BY <1>b, <1>c DEF JobInv, ContainerInv, DirExists
<1>5. QED
  BY <1>1, <1>2, <1>3, <1>4 DEF JobInv

(***************************************************************************)
(* Steps of the environment and of the sweep.                              *)
(***************************************************************************)
LEMMA KilledStep ==
    ASSUME TypeOK, NEW j \in Contained, JobInv(j), Killed(j) \/ PidReused(j)
    PROVE  JobInv(j)'
<1> j \in Jobs
  BY DEF Contained
<1> USE DEF TypeOK, serverVars, childVars, JobInv, HandlerInv, SpawnedInv,
            ContainerInv, Unspawned, Alive, DirExists, Gone, ChildInv
<1>1. CASE Killed(j)
  BY <1>1 DEF Killed
<1>2. CASE PidReused(j)
  BY <1>2 DEF PidReused, DraftInv
<1>3. QED
  BY <1>1, <1>2

LEMMA ContainerStep ==
    ASSUME TypeOK, NEW j \in Contained, JobInv(j),
           ContainerStops \/ ContainerStarts \/ Sweep
    PROVE  JobInv(j)'
<1> j \in Jobs /\ j # None
  BY DEF Contained
<1> USE DEF TypeOK, childVars, JobInv, HandlerInv, SpawnedInv,
            ContainerInv, Unspawned, DirExists
<1>1. CASE ContainerStops
  <2>1. /\ pc'[j] = IF Alive(j) THEN "killed" ELSE pc[j]
        /\ start'[j] = IF start[j] \in {"idle", "started", "error"}
                       THEN start[j] ELSE "lost"
        /\ server' = "down" /\ sweeping' = None /\ todo' = {}
        /\ UNCHANGED <<status, pidfile, draft, reused, outcome>>
    BY <1>1 DEF ContainerStops
  <2>2. ChildInv(j)'
    BY <2>1 DEF ChildInv, Alive, Gone
  <2>3. HandlerInv(j)' /\ SpawnedInv(j)'
    BY <2>1 DEF Alive, Gone
  <2>4. ContainerInv(j)'
    BY <2>1 DEF Alive, Gone
  <2>5. QED
    BY <2>2, <2>3, <2>4
<1>2. CASE ContainerStarts
  BY <1>2 DEF ContainerStarts, Alive, Gone, ChildInv, DraftInv
<1>3. CASE \E i \in Jobs : SweepRead(i)
  BY <1>3 DEF SweepRead, Alive, Gone, ChildInv, DraftInv
<1>4. CASE SweepWrite
  <2>1. CASE sweeping = j
    <3>1. server = "sweep" /\ status[j].state \notin Terminal /\ ~Alive(j)
      BY <2>1
    <3>2. pc[j] \in {"none", "killed"}
      BY <3>1 DEF Alive, Gone, ChildInv, ChildPoints
    <3>3. start[j] \in {"started", "lost"}
      BY <2>1, <3>1 DEF Terminal
    <3>4. QED
      BY <1>4, <2>1, <3>1, <3>2, <3>3
         DEF SweepWrite, Alive, Gone, ChildInv, Terminal
  <2>2. CASE sweeping # j
    BY <1>4, <2>2 DEF SweepWrite, Alive, Gone, ChildInv, DraftInv
  <2>3. QED
    BY <2>1, <2>2
<1>5. CASE SweepEnds
  BY <1>5 DEF SweepEnds, Alive, Gone, ChildInv, DraftInv
<1>6. QED
  BY <1>1, <1>2, <1>3, <1>4, <1>5 DEF Sweep

(***************************************************************************)
(* What the steps of other jobs, and the user's commands, leave alone.     *)
(***************************************************************************)
LEMMA OthersStep ==
    ASSUME TypeOK, NEW j \in Contained, NEW i \in Jobs,
           \/ /\ i # j
              /\ MakeDir(i) \/ Handler(i) \/ Child(i) \/ Killed(i) \/ PidReused(i)
           \/ StartOutside(i)
           \/ \E c \in Cmds : SendControl(i, c)
    PROVE  JobSame(j) /\ ServerSame
<1> j \in Jobs /\ j \notin Outside
  BY DEF Contained
<1> USE DEF JobSame, ServerSame, TypeOK, serverVars, childVars
<1>1. ASSUME i # j, MakeDir(i) \/ Killed(i) \/ PidReused(i)
      PROVE  JobSame(j) /\ ServerSame
  BY <1>1 DEF MakeDir, Killed, PidReused
<1>2. ASSUME i # j, Handler(i)
      PROVE  JobSame(j) /\ ServerSame
  BY <1>2 DEF Handler, WriteControl, WriteQueued, WriteStarting, Spawn,
              SpawnFails, WriteSpawnFailed, WritePid
<1>3. ASSUME i # j, Child(i)
      PROVE  JobSame(j) /\ ServerSame
  BY <1>3 DEF Child, ReportUp, Write, PollSkips, PollReads, Resume, Work,
              Finish, StopWork, Raise, Return, SetStatus
<1>4. ASSUME StartOutside(i) PROVE JobSame(j) /\ ServerSame
  BY <1>4 DEF StartOutside
<1>5. ASSUME NEW c \in Cmds, SendControl(i, c) PROVE JobSame(j) /\ ServerSame
  BY <1>5 DEF SendControl
<1>6. QED
  BY <1>1, <1>2, <1>3, <1>4, <1>5

LEMMA InvStep == IInv /\ [Next]_vars => IInv'
<1> SUFFICES ASSUME IInv, [Next]_vars PROVE IInv'
  OBVIOUS
<1>1. TypeOK /\ TypeOK'
  BY TypeStep DEF IInv
<1>2. ASSUME NEW j \in Contained PROVE JobInv(j)'
  <2>1. j \in Jobs /\ JobInv(j)
    BY DEF IInv, Contained
  <2>2. CASE UNCHANGED vars
    BY <2>1, <2>2, Undisturbed DEF vars, JobSame, ServerSame
  <2>3. CASE ContainerStops \/ ContainerStarts \/ Sweep
    BY <1>1, <2>1, <2>3, ContainerStep
  <2>4. CASE MakeDir(j) \/ Handler(j)
    BY <1>1, <2>1, <2>4, HandlerStep
  <2>5. CASE Child(j)
    BY <1>1, <2>1, <2>5, ChildStep
  <2>6. CASE Killed(j) \/ PidReused(j)
    BY <1>1, <2>1, <2>6, KilledStep
  <2>7. ASSUME NEW i \in Jobs,
               \/ /\ i # j
                  /\ MakeDir(i) \/ Handler(i) \/ Child(i) \/ Killed(i) \/ PidReused(i)
               \/ StartOutside(i)
               \/ \E c \in Cmds : SendControl(i, c)
        PROVE  JobInv(j)'
    <3>1. JobSame(j) /\ ServerSame
      BY <1>1, <2>7, OthersStep
    <3>2. QED
      BY <2>1, <3>1, Undisturbed
  <2>8. QED
    BY <2>2, <2>3, <2>4, <2>5, <2>6, <2>7 DEF Next, Environment
<1>3. Contained' = Contained
  BY DEF Contained
<1>4. QED
  BY <1>1, <1>2, <1>3 DEF IInv

THEOREM Invariance == Spec => []IInv
  BY InvInit, InvStep, PTL DEF Spec

(***************************************************************************)
(* A contained job whose process ran to its end keeps the state its task   *)
(* ended with: nothing the server does later overwrites it.                *)
(***************************************************************************)
THEOREM EndStaysReported == Spec => []EndIsReported
<1>1. IInv => EndIsReported
  BY DEF IInv, JobInv, ChildInv, EndIsReported
<1>2. QED
  BY <1>1, Invariance, PTL

(***************************************************************************)
(* A job whose status.json says paused is in the pause loop, or leaves it. *)
(***************************************************************************)
THEOREM PausedStaysIdle == Spec => []PausedIsIdle
<1>1. IInv => PausedIsIdle
  <2> SUFFICES ASSUME IInv, NEW j \in Contained, status[j].state = "paused",
                      Alive(j)
               PROVE  pc[j] = "held" \/ (pc[j] = "write" /\ draft[j].set = "running")
    BY DEF PausedIsIdle
  <2>1. JobInv(j) /\ j \in Jobs /\ pc[j] \in ChildPoints
    BY DEF IInv, TypeOK, Contained
  <2>2. QED
    BY <2>1 DEF JobInv, ChildInv, DraftInv, Alive, Gone, ChildPoints, Terminal
<1>2. QED
  BY <1>1, Invariance, PTL

-----------------------------------------------------------------------------
(***************************************************************************)
(* LabJob implements JobLifecycle.                                         *)
(***************************************************************************)
Follows(a, b) == a = b \/ <<a, b>> \in Lifecycle!Moves

\* The moves, as pairs of states before and after a step.
Moved(a, b) ==
    \/ a = b
    \/ a = "none" /\ b = "queued"
    \/ a = "none" /\ b = "failed"
    \/ a = "queued" /\ b = "running"
    \/ a = "queued" /\ b = "failed"
    \/ a = "running" /\ b = "paused"
    \/ a = "running" /\ b \in Terminal
    \/ a = "paused" /\ b = "running"
    \/ a = "paused" /\ b = "failed"

LEMMA MoveNames ==
    ASSUME NEW a, NEW b, Moved(a, b)
    PROVE  Follows(a, b)
  BY DEF Moved, Follows, Lifecycle!Moves, Terminal

LEMMA ShownUndisturbed ==
    ASSUME NEW j \in Contained, JobSame(j), ServerSame
    PROVE  Shown(j)' = Shown(j)
<1>1. j \in Outside' <=> j \in Outside
  OBVIOUS
<1>2. LooksAlive(j)' <=> LooksAlive(j)
  BY DEF LooksAlive, Alive, JobSame, Gone
<1>3. HasPid(j)' <=> HasPid(j)
  BY DEF HasPid, JobSame
<1>4. ReadStatus(j)' = ReadStatus(j)
  BY <1>2, <1>3 DEF ReadStatus, JobSame, Active
<1>5. QED
  BY <1>4 DEF Shown, JobSame, ServerSame, DirExists, Terminal, Contained

LEMMA HandlerShows ==
    ASSUME TypeOK, NEW j \in Contained, JobInv(j), MakeDir(j) \/ Handler(j)
    PROVE  Follows(Shown(j), Shown(j)')
<1> j \in Jobs /\ j \notin Outside
  BY DEF Contained
<1>1. Moved(Shown(j), Shown(j)')
  <2> USE DEF TypeOK, serverVars, childVars, JobInv, HandlerInv,
              SpawnedInv, ContainerInv, Unspawned, Alive, DirExists, Gone,
              Shown, ReadStatus, HasPid, LooksAlive, Active, Terminal, Moved
  <2>1. CASE MakeDir(j)
    BY <2>1 DEF MakeDir
  <2>2. CASE WriteControl(j)
    BY <2>2 DEF WriteControl
  <2>3. CASE WriteQueued(j)
    BY <2>3 DEF WriteQueued
  <2>4. CASE WriteStarting(j)
    BY <2>4 DEF WriteStarting
  <2>5. CASE Spawn(j)
    BY <2>5 DEF Spawn
  <2>6. CASE SpawnFails(j)
    BY <2>6 DEF SpawnFails
  <2>7. CASE WriteSpawnFailed(j)
    BY <2>7 DEF WriteSpawnFailed
  <2>8. CASE WritePid(j)
    BY <2>8 DEF WritePid
  <2>9. QED
    BY <2>1, <2>2, <2>3, <2>4, <2>5, <2>6, <2>7, <2>8 DEF Handler
<1>2. QED
  BY <1>1, MoveNames

LEMMA ChildShows ==
    ASSUME TypeOK, NEW j \in Contained, JobInv(j), Child(j)
    PROVE  Follows(Shown(j), Shown(j)')
<1> j \in Jobs /\ j \notin Outside
  BY DEF Contained
<1>1. pc[j] \notin {"none", "exited", "killed"}
  BY DEF Child, ReportUp, Write, PollSkips, PollReads, Resume, Work, Finish,
         StopWork, Raise, Return, SetStatus
<1>2. server = "up"
  BY <1>1 DEF JobInv, ContainerInv, Alive, Gone
<1>3. Shown(j) = status[j].state
  BY <1>1, <1>2 DEF Shown, ReadStatus, LooksAlive, Alive, Gone
<1>4. server' = server
  BY DEF serverVars, Child, ReportUp, Write, PollSkips, PollReads, Resume,
         Work, Finish, StopWork, Raise, Return
<1>5. \/ pc'[j] \notin {"none", "exited", "killed"}
      \/ status'[j].state \in Terminal
      => Shown(j)' = status'[j].state
  BY <1>2, <1>4 DEF Shown, ReadStatus, LooksAlive, Alive, Gone, Terminal, Active
<1>6. CASE Write(j)
  <2>1. /\ Moved(status[j].state, status'[j].state)
        /\ pc'[j] = "exited" => status'[j].state \in Terminal
        /\ pc'[j] \notin {"none", "killed"}
    BY <1>6 DEF Write, JobInv, ChildInv, DraftInv, Merged, TypeOK, Moved, Terminal
  <2>2. Shown(j)' = status'[j].state
    BY <2>1, <1>5
  <2>3. QED
    BY <2>1, <2>2, <1>3, MoveNames
<1>7. CASE ~Write(j)
  <2>1. status' = status
    BY <1>7 DEF Child, ReportUp, PollSkips, PollReads, Resume, Work, Finish,
                StopWork, Raise, Return
  <2>2. \/ pc'[j] \notin {"none", "exited", "killed"}
        \/ status[j].state \in Terminal
    BY <1>7 DEF Child, ReportUp, PollSkips, PollReads, Resume, Work, Finish,
                StopWork, Raise, Return, SetStatus, TypeOK
  <2>3. Shown(j)' = Shown(j)
    BY <2>1, <2>2, <1>3, <1>5
  <2>4. QED
    BY <2>3, MoveNames DEF Moved
<1>8. QED
  BY <1>6, <1>7

LEMMA KilledShows ==
    ASSUME TypeOK, NEW j \in Contained, JobInv(j), Killed(j) \/ PidReused(j)
    PROVE  Follows(Shown(j), Shown(j)')
<1> j \in Jobs /\ j \notin Outside
  BY DEF Contained
<1>1. Moved(Shown(j), Shown(j)')
  <2> USE DEF TypeOK, serverVars, childVars, JobInv, HandlerInv, SpawnedInv,
              ContainerInv, Unspawned, Alive, DirExists, Gone, Shown,
              ReadStatus, HasPid, LooksAlive, Active, Terminal, Moved
  <2>1. CASE Killed(j)
    BY <2>1 DEF Killed
  <2>2. CASE PidReused(j)
    <3>1. start[j] \in {"started", "lost"}
      BY <2>2 DEF PidReused, StartStages
    <3>2. QED
      BY <2>2, <3>1 DEF PidReused
  <2>3. QED
    BY <2>1, <2>2
<1>2. QED
  BY <1>1, MoveNames

LEMMA ContainerShows ==
    ASSUME TypeOK, NEW j \in Contained, JobInv(j),
           ContainerStops \/ ContainerStarts \/ Sweep
    PROVE  Follows(Shown(j), Shown(j)')
<1> j \in Jobs /\ j \notin Outside /\ j # None
  BY DEF Contained
<1>1. Moved(Shown(j), Shown(j)')
  <2> USE DEF TypeOK, childVars, JobInv, HandlerInv, ContainerInv, Unspawned,
              DirExists, Shown, ReadStatus, Active, Terminal, Moved
  <2>1. CASE ContainerStops
    <3>1. /\ server' = "down" /\ status' = status
          /\ start'[j] = "idle" <=> start[j] = "idle"
      BY <2>1 DEF ContainerStops
    <3>2. QED
      BY <3>1, StatusValues DEF States
  <2>2. CASE ContainerStarts
    BY <2>2 DEF ContainerStarts, HasPid, LooksAlive, Alive
  <2>3. CASE \E i \in Jobs : SweepRead(i)
    BY <2>3 DEF SweepRead, HasPid, LooksAlive, Alive
  <2>4. CASE SweepWrite
    BY <2>4 DEF SweepWrite, HasPid, LooksAlive, Alive
  <2>5. CASE SweepEnds
    BY <2>5 DEF SweepEnds, HasPid, LooksAlive, Alive
  <2>6. QED
    BY <2>1, <2>2, <2>3, <2>4, <2>5 DEF Sweep
<1>2. QED
  BY <1>1, MoveNames

LEMMA StepShows ==
    ASSUME IInv, [Next]_vars, NEW j \in Contained
    PROVE  Follows(Shown(j), Shown(j)')
<1>1. TypeOK /\ JobInv(j) /\ j \in Jobs
  BY DEF IInv, Contained
<1>2. CASE UNCHANGED vars
  <2>1. JobSame(j) /\ ServerSame
    BY <1>2 DEF vars, JobSame, ServerSame
  <2>2. QED
    BY <2>1, ShownUndisturbed, MoveNames DEF Moved
<1>3. CASE ContainerStops \/ ContainerStarts \/ Sweep
  BY <1>1, <1>3, ContainerShows
<1>4. CASE MakeDir(j) \/ Handler(j)
  BY <1>1, <1>4, HandlerShows
<1>5. CASE Child(j)
  BY <1>1, <1>5, ChildShows
<1>6. CASE Killed(j) \/ PidReused(j)
  BY <1>1, <1>6, KilledShows
<1>7. ASSUME NEW i \in Jobs,
             \/ /\ i # j
                /\ MakeDir(i) \/ Handler(i) \/ Child(i) \/ Killed(i) \/ PidReused(i)
             \/ StartOutside(i)
             \/ \E c \in Cmds : SendControl(i, c)
      PROVE  Follows(Shown(j), Shown(j)')
  <2>1. JobSame(j) /\ ServerSame
    BY <1>1, <1>7, OthersStep
  <2>2. QED
    BY <2>1, ShownUndisturbed, MoveNames DEF Moved
<1>8. QED
  BY <1>2, <1>3, <1>4, <1>5, <1>6, <1>7 DEF Next, Environment

ShownOK == \A j \in Contained : Shown(j) \in Lifecycle!ShownStates

LEMMA ShownValues == TypeOK => ShownOK
<1> SUFFICES ASSUME TypeOK, NEW j \in Contained
             PROVE  Shown(j) \in Lifecycle!ShownStates
  BY DEF ShownOK
<1>1. status[j].state \in States
  BY StatusValues DEF TypeOK, Contained
<1>2. Shown(j) \in States
  BY <1>1 DEF Shown, ReadStatus, States, Terminal
<1>3. States \subseteq Lifecycle!ShownStates
  <2>1. \A m \in Lifecycle!Moves : m[2] \in Lifecycle!ShownStates
    BY DEF Lifecycle!ShownStates
  <2>2. /\ \A s \in {"queued", "failed"} : <<"none", s>> \in Lifecycle!Moves
        /\ \A s \in Terminal : <<"running", s>> \in Lifecycle!Moves
        /\ <<"queued", "running">> \in Lifecycle!Moves
        /\ <<"running", "paused">> \in Lifecycle!Moves
    BY DEF Lifecycle!Moves, Terminal
  <2>3. "none" \in Lifecycle!ShownStates
    BY DEF Lifecycle!ShownStates
  <2>4. QED
    BY <2>1, <2>2, <2>3 DEF States, Active, Terminal
<1>4. QED
  BY <1>2, <1>3

(***************************************************************************)
(* What a user is shown of the contained jobs is a history JobLifecycle    *)
(* allows: whatever crashes, restarts, late writes and reused pids do, a   *)
(* terminal answer is final and no job runs before it was queued.          *)
(***************************************************************************)
THEOREM Refinement == Spec => ImplementsLifecycle
<1>1. Init => Lifecycle!Init
  <2> SUFFICES ASSUME Init PROVE Lifecycle!Init
    OBVIOUS
  <2>1. ASSUME NEW j \in Contained PROVE Shown(j) = "none"
    BY DEF Contained, Init, Shown, ReadStatus, NoFile, Active
  <2>2. QED
    BY <2>1 DEF Lifecycle!Init
<1>2. IInv /\ ShownOK' /\ [Next]_vars
        => [Lifecycle!Next]_([j \in Contained |-> Shown(j)])
  <2> SUFFICES ASSUME IInv, ShownOK', [Next]_vars
               PROVE  Lifecycle!Next
    OBVIOUS
  <2>1. \A j \in Contained : Follows(Shown(j), Shown(j)')
    BY StepShows
  <2>2. QED
    BY <2>1 DEF ShownOK, Lifecycle!Next, Follows, Contained
<1>3. IInv => ShownOK
  BY ShownValues DEF IInv
<1>4. QED
  BY <1>1, <1>2, <1>3, Invariance, PTL DEF Spec, ImplementsLifecycle, Lifecycle!Spec

-----------------------------------------------------------------------------
(***************************************************************************)
(* The page that watches a run (RunView).  First what it relies on in the  *)
(* job: a contained job's terminal status stays, its rows are only ever    *)
(* added to, and one that is over gets no more of them.                    *)
(***************************************************************************)
LEMMA TerminalStays ==
    ASSUME IInv, [Next]_vars, NEW j \in Contained, status[j].state \in Terminal
    PROVE  status'[j].state = status[j].state
<1>1. j \in Jobs /\ j # None /\ j \notin Outside /\ JobInv(j) /\ TypeOK
  BY DEF IInv, Contained
<1> USE <1>1
<1>2. start[j] \notin {"made", "control", "queued", "starting", "nospawn"}
  BY DEF JobInv, HandlerInv, Terminal
<1>3. pc[j] \notin {"write", "held", "finish", "work", "stopping", "poll", "boot"}
  BY DEF JobInv, ChildInv, DraftInv, Terminal
<1>4. sweeping # j
  BY DEF JobInv, ContainerInv
<1>5. CASE SweepWrite
  BY <1>4, <1>5 DEF SweepWrite, TypeOK
<1>6. ASSUME NEW i \in Jobs, Handler(i) PROVE status'[j] = status[j]
  BY <1>2, <1>6 DEF Handler, WriteControl, WriteQueued, WriteStarting, Spawn,
                    SpawnFails, WriteSpawnFailed, WritePid, TypeOK
<1>7. ASSUME NEW i \in Jobs, Child(i) PROVE status'[j] = status[j]
  BY <1>3, <1>7 DEF Child, ReportUp, Write, PollSkips, PollReads, Resume, Work,
                    Finish, StopWork, Raise, Return, TypeOK
<1>8. ASSUME NEW i \in Jobs, StartOutside(i) PROVE status'[j] = status[j]
  BY <1>8 DEF StartOutside, TypeOK
<1>9. QED
  BY <1>5, <1>6, <1>7, <1>8
     DEF Next, Environment, Sweep, ContainerStops, ContainerStarts, SweepRead,
         SweepEnds, MakeDir, PidReused, Killed, SendControl, vars

\* No process of j will write another row.
Over(j) ==
    \/ pc[j] \in Gone
    \/ status[j].state \in Terminal
    \/ pc[j] = "none" /\ start[j] = "lost"

LEMMA StepsGrow ==
    ASSUME TypeOK, [Next]_vars, NEW j \in Jobs
    PROVE  /\ steps[j] \in Nat /\ steps'[j] \in Nat
           /\ steps[j] <= steps'[j]
           /\ steps'[j] = steps[j] \/ pc[j] = "work"
<1>1. steps[j] \in Nat
  BY DEF TypeOK
<1>2. ASSUME NEW i \in Jobs, Work(i)
      PROVE  /\ steps'[j] = steps[j] \/ steps'[j] = steps[j] + 1
             /\ steps'[j] = steps[j] \/ pc[j] = "work"
  BY <1>2 DEF Work, SetStatus, TypeOK
<1>3. steps' = steps \/ \E i \in Jobs : Work(i)
  BY DEF Next, Environment, Sweep, ContainerStops, ContainerStarts, SweepRead,
         SweepWrite, SweepEnds, MakeDir, StartOutside, PidReused, Killed,
         SendControl, Handler, WriteControl, WriteQueued, WriteStarting, Spawn,
         SpawnFails, WriteSpawnFailed, WritePid, Child, ReportUp, Write,
         PollSkips, PollReads, Resume, Finish, StopWork, Raise, Return,
         childVars, vars
<1>4. QED
  BY <1>1, <1>2, <1>3

LEMMA OverStays ==
    ASSUME IInv, [Next]_vars, NEW j \in Contained, Over(j)
    PROVE  Over(j)' /\ steps'[j] = steps[j]
<1>1. j \in Jobs /\ j \notin Outside /\ JobInv(j) /\ TypeOK
  BY DEF IInv, Contained
<1>2. pc[j] # "work"
  BY <1>1 DEF Over, JobInv, ChildInv, Terminal, Gone
<1>3. steps'[j] = steps[j]
  BY <1>1, <1>2, StepsGrow
<1>4. CASE status[j].state \in Terminal
  BY <1>3, <1>4, TerminalStays DEF Over
<1>5. CASE pc[j] \in Gone
  <2>1. start[j] \notin Unspawned /\ pc[j] \in {"exited", "killed"}
    BY <1>1, <1>5 DEF JobInv, HandlerInv, Gone
  <2>2. pc'[j] = pc[j]
    BY <1>1, <2>1
       DEF Next, Environment, Sweep, ContainerStops, ContainerStarts, SweepRead,
           SweepWrite, SweepEnds, MakeDir, StartOutside, PidReused, Killed,
           SendControl, Handler, WriteControl, WriteQueued, WriteStarting, Spawn,
           SpawnFails, WriteSpawnFailed, WritePid, Child, ReportUp, Write,
           PollSkips, PollReads, Resume, Work, Finish, StopWork, Raise, Return,
           SetStatus, childVars, vars, Alive, Gone, Unspawned, TypeOK
  <2>3. QED
    BY <1>3, <1>5, <2>2 DEF Over
<1>6. CASE pc[j] = "none" /\ start[j] = "lost"
  <2>1. pc'[j] = pc[j] /\ start'[j] = start[j]
    BY <1>1, <1>6
       DEF Next, Environment, Sweep, ContainerStops, ContainerStarts, SweepRead,
           SweepWrite, SweepEnds, MakeDir, StartOutside, PidReused, Killed,
           SendControl, Handler, WriteControl, WriteQueued, WriteStarting, Spawn,
           SpawnFails, WriteSpawnFailed, WritePid, Child, ReportUp, Write,
           PollSkips, PollReads, Resume, Work, Finish, StopWork, Raise, Return,
           SetStatus, childVars, vars, Alive, Gone, TypeOK
  <2>2. QED
    BY <1>3, <1>6, <2>1 DEF Over
<1>7. QED
  BY <1>4, <1>5, <1>6 DEF Over

\* A run that had ended when a page attached is over, whoever reads it.
LEMMA EndedIsOver ==
    ASSUME IInv, NEW j \in Contained, HasEnded(j), DirExists(j)
    PROVE  Over(j)
<1>1. j \in Jobs /\ j \notin Outside /\ JobInv(j) /\ TypeOK
  BY DEF IInv, Contained
<1>2. CASE pc[j] \in Gone \/ status[j].state \in Terminal
  BY <1>2 DEF Over
<1>3. CASE pc[j] \notin Gone /\ status[j].state \notin Terminal
  <2>1. HasPid(j) /\ ~LooksAlive(j)
    BY <1>3 DEF HasEnded, ReadStatus
  <2>2. pc[j] = "none"
    BY <1>1, <1>3, <2>1 DEF LooksAlive, Alive
  <2>3. start[j] \notin Unspawned \cup {"spawned", "started"}
    BY <1>1, <2>1, <2>2 DEF HasPid, JobInv, HandlerInv, SpawnedInv
  <2>4. start[j] = "lost"
    BY <1>1, <2>3 DEF TypeOK, StartStages, Unspawned
  <2>5. QED
    BY <2>2, <2>4 DEF Over
<1>4. QED
  BY <1>2, <1>3

(***************************************************************************)
(* The invariant of the page.  Only the token of the latest attachRun can  *)
(* change it, and that token's request belongs to the page's run, asks for *)
(* the rows after those on the page and has read a prefix of the run's.    *)
(***************************************************************************)
PollPoints == {"idle", "sent", "metrics", "status", "answered", "timer", "over"}

PollFields ==
    [at : PollPoints, run : Jobs \cup {None}, next : Nat, upto : Nat,
     st : StatusRecord, answer : States]

PollRecord == {p \in PollFields : p.at # "idle" => p.run \in Jobs}

ViewType ==
    /\ token \in 0..MaxAttach
    /\ page \in [run : Jobs \cup {None}, rows : Seq(Jobs \X Nat), state : States]
    /\ poll \in [Tokens -> PollRecord]

Reading == {"metrics", "status", "answered"}

\* The request or timer p of a page pg.
Requests(p, pg) ==
    /\ p.at # "idle" /\ p.run = pg.run /\ pg.run \in Jobs
    /\ p.next = Len(pg.rows) /\ p.next <= steps[pg.run]
    /\ p.at \in Reading => p.next <= p.upto /\ p.upto <= steps[pg.run]

\* What was read of a contained run's end is so.
Believes(p, pg) ==
    pg.run \in Contained =>
        /\ p.at \in {"status", "answered"} /\ p.st.state \in Terminal
             => status[pg.run].state = p.st.state
        /\ p.at = "answered" => p.answer \in {p.st.state, "failed"}

\* A page that came late has read, or will read, all of the rows.
Backfills(p, pg) ==
    pg.run \in Contained =>
        /\ Over(pg.run)
        /\ p.at \in Reading => p.upto = steps[pg.run]
        /\ p.at = "over" => Len(pg.rows) = steps[pg.run]

TokenInv ==
    IF token = 0
    THEN page = NoPage
    ELSE /\ Requests(poll[token], page)
         /\ Believes(poll[token], page)
         /\ token \in late => Backfills(poll[token], page)

\* No token of the future has been used.
FutureInv == late \subseteq 1..token

ViewInv ==
    IInv /\ ViewType /\ TokenInv /\ FutureInv /\ RowsAreThePrefix /\ ShownEndIsTrue

LEMMA PollValues ==
    /\ NoPoll \in PollRecord
    /\ \A p \in PollRecord :
          /\ p.run \in Jobs \cup {None} /\ p.next \in Nat /\ p.upto \in Nat
          /\ p.st \in StatusRecord /\ p.st.state \in States /\ p.answer \in States
          /\ p.at # "idle" => p.run \in Jobs
  BY StatusValues DEF PollRecord, PollFields, PollPoints, NoPoll, States

\* What the steps of a request make of it.
LEMMA PollMoves ==
    ASSUME NEW p \in PollRecord, p.run \in Jobs
    PROVE  /\ \A n \in Nat : [p EXCEPT !.at = "metrics", !.upto = n] \in PollRecord
           /\ \A r \in StatusRecord : [p EXCEPT !.at = "status", !.st = r] \in PollRecord
           /\ \A a \in States : [p EXCEPT !.at = "answered", !.answer = a] \in PollRecord
           /\ [p EXCEPT !.at = "sent"] \in PollRecord
           /\ \A at \in {"over", "timer"}, n \in Nat :
                  [NoPoll EXCEPT !.run = p.run, !.next = n, !.at = at] \in PollRecord
           /\ [NoPoll EXCEPT !.at = "timer", !.run = p.run, !.next = p.next] \in PollRecord
           /\ [NoPoll EXCEPT !.at = "sent", !.run = p.run] \in PollRecord
<1>1. NoPoll \in PollFields /\ p \in PollFields
  BY PollValues DEF PollRecord
<1>2. QED
  BY <1>1 DEF PollRecord, PollFields, PollPoints, NoPoll

LEMMA ViewInvInit == ViewInit => ViewInv
<1> SUFFICES ASSUME ViewInit PROVE ViewInv
  OBVIOUS
<1>1. IInv
  BY InvInit DEF ViewInit
<1>2. NoPage \in [run : Jobs \cup {None}, rows : Seq(Jobs \X Nat), state : States]
  BY DEF NoPage, States
<1>3. ViewType
  BY <1>2, PollValues, AttachAssumption DEF ViewInit, ViewType, AttachAssumption
<1>4. TokenInv /\ FutureInv
  BY DEF ViewInit, TokenInv, FutureInv
<1>5. RowsAreThePrefix /\ ShownEndIsTrue
  BY DEF ViewInit, RowsAreThePrefix, ShownEndIsTrue, NoPage
<1>6. QED
  BY <1>1, <1>3, <1>4, <1>5 DEF ViewInv

\* The job goes on under the page.
LEMMA JobUnderPage ==
    ASSUME ViewInv, [Next]_vars, UNCHANGED viewVars
    PROVE  ViewInv'
<1> USE DEF viewVars
<1>1. IInv' /\ TypeOK
  BY InvStep DEF ViewInv, IInv
<1>2. ViewType' /\ FutureInv' /\ RowsAreThePrefix'
  BY DEF ViewInv, ViewType, FutureInv, RowsAreThePrefix, Tokens
<1>3. ShownEndIsTrue'
  <2> SUFFICES ASSUME page.run \in Contained, page.state \in {"done", "stopped"}
               PROVE  status'[page.run].state = page.state
    BY DEF ShownEndIsTrue, Contained
  <2>1. status[page.run].state = page.state /\ page.state \in Terminal
    BY DEF ViewInv, ShownEndIsTrue, Terminal
  <2>2. QED
    BY <2>1, TerminalStays DEF ViewInv
<1>4. TokenInv'
  <2>1. CASE token = 0
    BY <2>1 DEF ViewInv, TokenInv
  <2>2. CASE token # 0
    <3> DEFINE p == poll[token]
               j == page.run
    <3>1. Requests(p, page) /\ Believes(p, page) /\ (token \in late => Backfills(p, page))
      BY <2>2 DEF ViewInv, TokenInv
    <3>2. j \in Jobs /\ p \in PollRecord
      BY <2>2, <3>1 DEF Requests, ViewInv, ViewType, Tokens
    <3>3. steps[j] \in Nat /\ steps'[j] \in Nat /\ steps[j] <= steps'[j]
      BY <1>1, <3>2, StepsGrow
    <3>4. p.next \in Nat /\ p.upto \in Nat
      BY <3>2, PollValues
    <3>5. /\ Requests(p, page)'
      BY <3>1, <3>2, <3>3, <3>4 DEF Requests
    <3>6. Believes(p, page)'
      BY <3>1, TerminalStays DEF Believes, ViewInv, Contained
    <3>7. token \in late => Backfills(p, page)'
      <4> SUFFICES ASSUME token \in late, j \in Contained
                   PROVE  /\ Over(j)'
                          /\ p.at \in Reading => p.upto = steps'[j]
                          /\ p.at = "over" => Len(page.rows) = steps'[j]
        BY DEF Backfills, Contained
      <4>1. Over(j)' /\ steps'[j] = steps[j]
        BY <3>1, OverStays DEF Backfills, ViewInv
      <4>2. QED
        BY <4>1, <3>1 DEF Backfills
    <3>8. QED
      BY <2>2, <3>5, <3>6, <3>7 DEF TokenInv
  <2>3. QED
    BY <2>1, <2>2
<1>5. QED
  BY <1>1, <1>2, <1>3, <1>4 DEF ViewInv

LEMMA AttachStep ==
    ASSUME ViewInv, NEW j \in Jobs, Attach(j), UNCHANGED vars
    PROVE  ViewInv'
<1>1. IInv'
  BY InvStep DEF ViewInv
<1>2. /\ token \in Nat /\ token' = token + 1 /\ token' \in Tokens
      /\ page' = [run |-> j, rows |-> <<>>, state |-> "none"]
      /\ poll'[token'] = [NoPoll EXCEPT !.at = "sent", !.run = j]
  BY AttachAssumption DEF ViewInv, ViewType, Attach, Tokens, AttachAssumption
<1>3. poll'[token'] \in PollRecord
  BY <1>2, PollValues DEF PollRecord, PollFields, PollPoints, NoPoll
<1>4. ViewType'
  <2>1. [run |-> j, rows |-> <<>>, state |-> "none"]
            \in [run : Jobs \cup {None}, rows : Seq(Jobs \X Nat), state : States]
    BY DEF States
  <2>2. token' \in 0..MaxAttach
    BY <1>2, AttachAssumption DEF Tokens, AttachAssumption
  <2>3. poll' \in [Tokens -> PollRecord]
    BY <1>2, <1>3 DEF ViewInv, ViewType, Attach
  <2>4. QED
    BY <1>2, <2>1, <2>2, <2>3 DEF ViewType, Tokens
<1>5. RowsAreThePrefix' /\ ShownEndIsTrue'
  BY <1>2 DEF RowsAreThePrefix, ShownEndIsTrue
<1>6. FutureInv'
  BY <1>2 DEF ViewInv, FutureInv, Attach, ViewType
<1>7. TokenInv'
  <2>1. Requests(poll[token], page)'
    <3>1. steps[j] \in Nat /\ steps' = steps
      BY DEF ViewInv, IInv, TypeOK, vars
    <3>2. QED
      BY <1>2, <3>1 DEF Requests, NoPoll, Reading
  <2>2. Believes(poll[token], page)'
    BY <1>2 DEF Believes, NoPoll
  <2>3. token' \in late' => Backfills(poll[token], page)'
    <3> SUFFICES ASSUME token' \in late', j \in Contained PROVE Over(j)'
      BY <1>2 DEF Backfills, NoPoll, Reading, Contained
    <3>1. HasEnded(j) /\ DirExists(j)
      BY <1>2 DEF Attach, ViewInv, FutureInv
    <3>2. Over(j)
      BY <3>1, EndedIsOver DEF ViewInv
    <3>3. QED
      BY <3>2 DEF Over, vars
  <2>4. QED
    BY <1>2, <2>1, <2>2, <2>3 DEF TokenInv
<1>8. QED
  BY <1>1, <1>4, <1>5, <1>6, <1>7 DEF ViewInv

\* A step that only moves the request of token t, for the better.
LEMMA RequestStep ==
    ASSUME ViewInv, UNCHANGED <<vars, page, token, late>>,
           NEW t \in Tokens, NEW p \in PollRecord,
           poll' = [poll EXCEPT ![t] = p],
           t = token => /\ Requests(p, page)
                        /\ Believes(p, page)
                        /\ token \in late => Backfills(p, page)
    PROVE  ViewInv'
<1>1. IInv'
  BY InvStep DEF ViewInv
<1>2. ViewType' /\ FutureInv' /\ RowsAreThePrefix' /\ ShownEndIsTrue'
  BY DEF ViewInv, ViewType, FutureInv, RowsAreThePrefix, ShownEndIsTrue, vars, Contained
<1>3. CASE token = 0
  BY <1>1, <1>2, <1>3 DEF ViewInv, TokenInv
<1>4. CASE token # 0
  <2>1. token \in Tokens /\ poll'[token] = IF t = token THEN p ELSE poll[token]
    BY <1>4 DEF ViewInv, ViewType, Tokens
  <2>2. /\ Requests(poll'[token], page) /\ Believes(poll'[token], page)
        /\ token \in late => Backfills(poll'[token], page)
    BY <1>4, <2>1 DEF ViewInv, TokenInv
  <2>3. TokenInv'
    BY <1>4, <2>2 DEF TokenInv, Requests, Believes, Backfills, Over, vars,
                      Contained, Reading, Terminal, Gone
  <2>4. QED
    BY <1>1, <1>2, <2>3 DEF ViewInv
<1>5. QED
  BY <1>1, <1>2, <1>3, <1>4 DEF ViewInv

LEMMA RowsFromIs ==
    ASSUME NEW j \in Jobs, NEW from \in Nat, NEW upto \in Nat, from <= upto
    PROVE  /\ RowsFrom(j, from, upto) \in Seq(Jobs \X Nat)
           /\ Len(RowsFrom(j, from, upto)) = upto - from
           /\ \A i \in 1..(upto - from) : RowsFrom(j, from, upto)[i] = <<j, from + i>>
<1>1. upto - from \in Nat
  OBVIOUS
<1>2. \A i \in 1..(upto - from) : <<j, from + i>> \in Jobs \X Nat
  OBVIOUS
<1>3. QED
  BY <1>1, <1>2 DEF RowsFrom

\* The answer to the page's own request.
LEMMA DeliverStep ==
    ASSUME ViewInv, UNCHANGED <<vars, token, late>>, Deliver(token), token \in Tokens
    PROVE  ViewInv'
<1> DEFINE p == poll[token]
           j == page.run
           new == RowsFrom(p.run, p.next, p.upto)
<1>1. IInv' /\ TypeOK
  BY InvStep DEF ViewInv, IInv
<1>2. token # 0 /\ token \in Nat /\ p \in PollRecord
  BY DEF Tokens, ViewInv, ViewType
<1>3. Requests(p, page) /\ Believes(p, page) /\ (token \in late => Backfills(p, page))
  BY <1>2 DEF ViewInv, TokenInv
<1>4. /\ p.at = "answered" /\ p.run = j /\ j \in Jobs
      /\ p.next = Len(page.rows) /\ p.next <= p.upto /\ p.upto <= steps[j]
  BY <1>3 DEF Requests, Reading, Deliver
<1>5. p.next \in Nat /\ p.upto \in Nat /\ p.answer \in States
  BY <1>2, PollValues
<1>6. /\ new \in Seq(Jobs \X Nat) /\ Len(new) = p.upto - p.next
      /\ \A i \in 1..(p.upto - p.next) : new[i] = <<j, p.next + i>>
  <2>1. new = RowsFrom(j, p.next, p.upto)
    BY <1>4
  <2> HIDE DEF new
  <2>2. j \in Jobs /\ p.next \in Nat /\ p.upto \in Nat /\ p.next <= p.upto
    BY <1>4, <1>5
  <2> HIDE DEF p, j
  <2>3. /\ RowsFrom(j, p.next, p.upto) \in Seq(Jobs \X Nat)
        /\ Len(RowsFrom(j, p.next, p.upto)) = p.upto - p.next
        /\ \A i \in 1..(p.upto - p.next) :
              RowsFrom(j, p.next, p.upto)[i] = <<j, p.next + i>>
    BY <2>2, RowsFromIs, Zenon
  <2>4. QED
    BY <2>1, <2>3
<1>7. /\ page \in [run : Jobs \cup {None}, rows : Seq(Jobs \X Nat), state : States]
      /\ page.rows \in Seq(Jobs \X Nat)
  BY DEF ViewInv, ViewType
<1> HIDE DEF new
<1>8. /\ page' = [page EXCEPT !.rows = page.rows \o new, !.state = p.answer]
      /\ poll'[token] = [NoPoll EXCEPT !.run = p.run, !.next = p.upto,
                            !.at = IF p.answer \in Terminal THEN "over" ELSE "timer"]
      /\ \A t \in Tokens \ {token} : poll'[t] = poll[t]
      /\ poll' = [poll EXCEPT ![token] = poll'[token]]
  BY <1>2 DEF Deliver, ViewInv, ViewType, new
<1>9. /\ page'.run = j /\ page'.state = p.answer /\ page'.rows = page.rows \o new
  BY <1>7, <1>8
<1>10. /\ page'.rows \in Seq(Jobs \X Nat)
       /\ Len(page'.rows) = p.upto
       /\ \A i \in 1..p.upto : page'.rows[i] =
             IF i <= p.next THEN page.rows[i] ELSE new[i - p.next]
  <2>1. /\ page.rows \o new \in Seq(Jobs \X Nat)
        /\ Len(page.rows \o new) = Len(page.rows) + Len(new)
        /\ \A i \in 1..Len(page.rows) + Len(new) :
              (page.rows \o new)[i] = IF i <= Len(page.rows) THEN page.rows[i]
                                     ELSE new[i - Len(page.rows)]
    BY <1>6, <1>7, ConcatProperties
  <2>2. Len(page.rows) + Len(new) = p.upto
    BY <1>4, <1>5, <1>6
  <2>3. QED
    BY <1>4, <1>9, <2>1, <2>2
<1>11. RowsAreThePrefix'
  <2>1. DOMAIN page'.rows = 1..p.upto
    BY <1>10
  <2>2. ASSUME NEW i \in 1..p.upto PROVE page'.rows[i] = <<j, i>>
    <3>1. CASE i <= p.next
      <4>1. i \in DOMAIN page.rows
        BY <3>1, <1>4, <1>7
      <4>2. page.rows[i] = <<page.run, i>>
        BY <4>1 DEF ViewInv, RowsAreThePrefix
      <4>3. page'.rows[i] = page.rows[i]
        BY <3>1, <1>10
      <4>4. QED
        BY <4>2, <4>3
    <3>2. CASE ~(i <= p.next)
      <4>1. i - p.next \in 1..(p.upto - p.next) /\ p.next + (i - p.next) = i
        BY <3>2, <1>5
      <4>2. QED
        BY <3>2, <4>1, <1>6, <1>10
    <3>3. QED
      BY <3>1, <3>2
  <2>3. QED
    BY <2>1, <2>2, <1>9 DEF RowsAreThePrefix
<1>12. poll'[token] \in PollRecord
  <2>1. \A at \in {"over", "timer"} :
            [NoPoll EXCEPT !.run = p.run, !.next = p.upto, !.at = at] \in PollRecord
    BY <1>2, <1>4, <1>5, PollMoves
  <2>2. QED
    BY <1>8, <2>1
<1>13. ViewType'
  BY <1>5, <1>7, <1>8, <1>9, <1>10, <1>12 DEF ViewInv, ViewType, Tokens
<1>14. ShownEndIsTrue'
  <2> SUFFICES ASSUME j \in Contained, p.answer \in {"done", "stopped"}
               PROVE  status[j].state = p.answer
    BY <1>9 DEF ShownEndIsTrue, Contained, vars
  <2>1. QED
    BY <1>3, <1>4 DEF Believes, Terminal
<1>15. TokenInv'
  <2>1. poll'[token].at \in {"over", "timer"} /\ poll'[token].run = j
        /\ poll'[token].next = p.upto
    BY <1>4, <1>8 DEF NoPoll
  <2>2. steps' = steps /\ status' = status /\ pc' = pc /\ start' = start
    BY DEF vars
  <2>3. Requests(poll[token], page)'
    BY <1>4, <1>9, <1>10, <2>1, <2>2 DEF Requests, Reading
  <2>4. Believes(poll[token], page)'
    BY <2>1 DEF Believes
  <2>5. token \in late => Backfills(poll[token], page)'
    <3> SUFFICES ASSUME token \in late, j \in Contained
                 PROVE  Over(j)' /\ Len(page'.rows) = steps'[j]
      BY <1>9, <2>1 DEF Backfills, Reading, Contained
    <3>1. Over(j) /\ p.upto = steps[j]
      BY <1>3, <1>4 DEF Backfills, Reading
    <3>2. QED
      BY <3>1, <2>2, <1>9, <1>10 DEF Over
  <2>6. QED
    BY <1>2, <2>3, <2>4, <2>5 DEF TokenInv
<1>16. FutureInv'
  BY DEF ViewInv, FutureInv
<1>17. QED
  BY <1>1, <1>11, <1>13, <1>14, <1>15, <1>16 DEF ViewInv

LEMMA PageTurns ==
    ASSUME ViewInv, NEW t \in Tokens, PageStep(t), UNCHANGED vars
    PROVE  ViewInv'
<1> DEFINE p == poll[t]
           Good(q) == /\ q \in PollRecord
                      /\ t = token => /\ Requests(q, page) /\ Believes(q, page)
                                      /\ token \in late => Backfills(q, page)
<1>1. /\ p \in PollRecord /\ NoPoll \in PollRecord
      /\ poll \in [Tokens -> PollRecord] /\ TypeOK
  BY PollValues DEF ViewInv, ViewType, IInv
<1>2. t = token => /\ token # 0 /\ Requests(p, page) /\ Believes(p, page)
                   /\ token \in late => Backfills(p, page)
  BY DEF ViewInv, TokenInv, Tokens
<1>3. /\ p.run \in Jobs \cup {None} /\ p.next \in Nat /\ p.upto \in Nat
      /\ p.st \in StatusRecord /\ p.st.state \in States /\ p.answer \in States
      /\ p.at # "idle" => p.run \in Jobs
  BY <1>1, PollValues
<1>4. t = token => p.run = page.run /\ page.run \in Jobs
  BY <1>2 DEF Requests
<1>5. ASSUME NEW q, Good(q), poll' = [poll EXCEPT ![t] = q],
             UNCHANGED <<page, token, late>>
      PROVE  ViewInv'
  BY <1>5, RequestStep
<1>6. CASE ReadMetrics(t)
  <2> DEFINE q == [p EXCEPT !.at = "metrics", !.upto = steps[p.run]]
  <2>1. p.at = "sent" /\ p.run \in Jobs /\ steps[p.run] \in Nat
    BY <1>1, <1>3, <1>6 DEF ReadMetrics, TypeOK
  <2>2. q \in PollRecord
    BY <1>1, <2>1, PollMoves
  <2>3. /\ q.at = "metrics" /\ q.upto = steps[p.run] /\ q.run = p.run /\ q.next = p.next
    BY <1>1 DEF PollRecord, PollFields
  <2> HIDE DEF q
  <2>4. Good(q)
    BY <1>2, <1>3, <1>4, <2>1, <2>2, <2>3 DEF Requests, Believes, Backfills, Reading
  <2>5. poll' = [poll EXCEPT ![t] = q]
    BY <1>1, <1>6 DEF ReadMetrics, q
  <2>6. QED
    BY <1>5, <1>6, <2>4, <2>5 DEF ReadMetrics
<1>7. CASE ReadState(t)
  <2> DEFINE q == [p EXCEPT !.at = "status", !.st = status[p.run]]
  <2>1. p.at = "metrics" /\ p.run \in Jobs /\ status[p.run] \in StatusRecord
    BY <1>1, <1>3, <1>7 DEF ReadState, TypeOK
  <2>2. q \in PollRecord
    BY <1>1, <2>1, PollMoves
  <2>3. /\ q.at = "status" /\ q.st = status[p.run] /\ q.run = p.run
        /\ q.next = p.next /\ q.upto = p.upto
    BY <1>1 DEF PollRecord, PollFields
  <2> HIDE DEF q
  <2>4. Good(q)
    BY <1>2, <1>3, <1>4, <2>1, <2>2, <2>3 DEF Requests, Believes, Backfills, Reading
  <2>5. poll' = [poll EXCEPT ![t] = q]
    BY <1>1, <1>7 DEF ReadState, q
  <2>6. QED
    BY <1>5, <1>7, <2>4, <2>5 DEF ReadState
<1>8. CASE CheckProcess(t)
  <2> DEFINE v == Verdict(p.st, p.run)
             q == [p EXCEPT !.at = "answered", !.answer = v]
  <2>1. p.at = "status" /\ p.run \in Jobs
    BY <1>3, <1>8 DEF CheckProcess
  <2>2. v \in States /\ v \in {p.st.state, "failed"}
    BY <1>3 DEF Verdict, States, Terminal
  <2> HIDE DEF v
  <2>3. q \in PollRecord
    BY <1>1, <2>1, <2>2, PollMoves
  <2>4. /\ q.at = "answered" /\ q.answer = v /\ q.st = p.st /\ q.run = p.run
        /\ q.next = p.next /\ q.upto = p.upto
    BY <1>1 DEF PollRecord, PollFields
  <2> HIDE DEF q
  <2>5. Good(q)
    BY <1>2, <1>4, <2>1, <2>2, <2>3, <2>4 DEF Requests, Believes, Backfills, Reading
  <2>6. poll' = [poll EXCEPT ![t] = q]
    BY <1>1, <1>8 DEF CheckProcess, q, v
  <2>7. QED
    BY <1>5, <1>8, <2>5, <2>6 DEF CheckProcess
<1>9. CASE Deliver(t)
  <2>1. CASE t = token
    BY <1>9, <2>1, DeliverStep DEF Deliver
  <2>2. CASE t # token
    BY <1>1, <1>5, <1>9, <2>2 DEF Deliver
  <2>3. QED
    BY <2>1, <2>2
<1>10. CASE RequestFails(t)
  <2> DEFINE q == [NoPoll EXCEPT !.at = "timer", !.run = p.run, !.next = p.next]
  <2>1. CASE t = token
    <3>1. q \in PollRecord
      BY <1>1, <1>4, <2>1, PollMoves
    <3>2. q.at = "timer" /\ q.run = p.run /\ q.next = p.next
      BY DEF NoPoll
    <3> HIDE DEF q
    <3>3. Good(q)
      BY <1>2, <1>4, <3>1, <3>2 DEF Requests, Believes, Backfills, Reading
    <3>4. poll' = [poll EXCEPT ![t] = q]
      BY <1>10, <2>1 DEF RequestFails, q
    <3>5. QED
      BY <1>5, <1>10, <3>3, <3>4 DEF RequestFails
  <2>2. CASE t # token
    BY <1>1, <1>5, <1>10, <2>2 DEF RequestFails
  <2>3. QED
    BY <2>1, <2>2
<1>11. CASE PollAgain(t)
  <2> DEFINE q == [p EXCEPT !.at = "sent"]
  <2>1. CASE t = token
    <3>1. q \in PollRecord
      BY <1>1, <1>4, <2>1, PollMoves
    <3>2. q.at = "sent" /\ q.run = p.run /\ q.next = p.next
      BY <1>1 DEF PollRecord, PollFields
    <3> HIDE DEF q
    <3>3. Good(q)
      BY <1>2, <1>4, <3>1, <3>2 DEF Requests, Believes, Backfills, Reading
    <3>4. poll' = [poll EXCEPT ![t] = q]
      BY <1>1, <1>11, <2>1 DEF PollAgain, q
    <3>5. QED
      BY <1>5, <1>11, <3>3, <3>4 DEF PollAgain
  <2>2. CASE t # token
    BY <1>1, <1>5, <1>11, <2>2 DEF PollAgain
  <2>3. QED
    BY <2>1, <2>2
<1>12. QED
  BY <1>6, <1>7, <1>8, <1>9, <1>10, <1>11 DEF PageStep

THEOREM ViewInvariance == ViewSpec => []ViewInv
<1>1. ViewInv /\ [ViewNext]_<<vars, viewVars>> => ViewInv'
  <2> SUFFICES ASSUME ViewInv, [ViewNext]_<<vars, viewVars>> PROVE ViewInv'
    OBVIOUS
  <2>1. CASE [Next]_vars /\ UNCHANGED viewVars
    BY <2>1, JobUnderPage
  <2>2. ASSUME NEW j \in Jobs, Attach(j), UNCHANGED vars PROVE ViewInv'
    BY <2>2, AttachStep
  <2>3. ASSUME NEW t \in Tokens, PageStep(t), UNCHANGED vars PROVE ViewInv'
    BY <2>3, PageTurns
  <2>4. QED
    BY <2>1, <2>2, <2>3 DEF ViewNext
<1>2. QED
  BY <1>1, ViewInvInit, PTL DEF ViewSpec

(***************************************************************************)
(* A done or stopped a page shows of a contained run is what its           *)
(* status.json says, and keeps saying.                                     *)
(***************************************************************************)
THEOREM PageTellsTheEnd == ViewSpec => []ShownEndIsTrue
<1>1. ViewInv => ShownEndIsTrue
  BY DEF ViewInv
<1>2. QED
  BY <1>1, ViewInvariance, PTL

(***************************************************************************)
(* The charts show the rows of the attached run, each once and in order,   *)
(* and all of them where the run had ended before the page attached.       *)
(***************************************************************************)
THEOREM ChartsFollow == ViewSpec => []ChartsShowTheRun
<1>1. ViewInv => ChartsShowTheRun
  BY DEF ViewInv, TokenInv, Backfills, ChartsShowTheRun, LateBackfillIsComplete, Tokens
<1>2. QED
  BY <1>1, ViewInvariance, PTL

-----------------------------------------------------------------------------
(***************************************************************************)
(* The cards of a task's page (TaskPage).                                  *)
(***************************************************************************)
AskRecord == [of : Nat, at : {"sent", "answered", "over"}, ckpts : SUBSET Ckpts]
StartRecord == [at : {"posted", "made", "refresh", "over"}, run : Nat]
EvalRecord ==
    [at : {"posted", "timer", "sent", "answered", "over"},
     state : {"none", "running", "done", "failed"},
     answer : {"none", "running", "done", "failed"}]

AsksInv ==
    /\ runs \in Nat /\ saved \subseteq Ckpts
    /\ \E k \in Nat : asks \in [1..k -> AskRecord]

\* A disabled Start waits for a click.
StartInv ==
    /\ \E k \in Nat : started \in [1..k -> StartRecord]
    /\ StartComesBack

\* Where nothing is chosen and nothing vanished, there is nothing to choose.
CkptsInv ==
    /\ options \subseteq Ckpts /\ picked \in Ckpts \cup {NoCkpt}
    /\ picked = NoCkpt => blank \/ options = {}

\* A result seen is on the page, and kept for the next redraw.
EvalsInv ==
    /\ evalToken \in Nat
    /\ evals \in [1..evalToken -> EvalRecord]
    /\ evalToken # 0 =>
         LET e == evals[evalToken] IN
         e.at = "over" /\ e.answer = "done" => shown = evalToken /\ lastShown = evalToken

TaskInv == AsksInv /\ StartInv /\ CkptsInv /\ EvalsInv /\ EvalComesBack

LEMMA ExtendLast ==
    ASSUME NEW k \in Nat, NEW f, DOMAIN f = 1..k, NEW x
    PROVE  /\ Extend(f, x) = [i \in 1..(k + 1) |-> IF i \in 1..k THEN f[i] ELSE x]
           /\ Extend(f, x)[k + 1] = x
<1>1. Cardinality(1..k) = k
  <2>1. Cardinality(1..k) = IF 1 > k THEN 0 ELSE k - 1 + 1
    BY FS_Interval
  <2>2. QED
    BY <2>1
<1>2. QED
  BY <1>1 DEF Extend

LEMMA ExtendIs ==
    ASSUME NEW k \in Nat, NEW S, NEW f \in [1..k -> S], NEW x \in S
    PROVE  Extend(f, x) \in [1..(k + 1) -> S]
<1>1. DOMAIN f = 1..k
  OBVIOUS
<1>2. QED
  BY <1>1, ExtendLast

LEMMA PageValues ==
    /\ \A o \in Nat : [of |-> o, at |-> "sent", ckpts |-> {}] \in AskRecord
    /\ Drawn \in AskRecord /\ Clicked \in StartRecord
    /\ \A a \in {"none", "running", "done", "failed"} : Settled(a) \in EvalRecord
    /\ [at |-> "posted", state |-> "none", answer |-> "none"] \in EvalRecord
    /\ [at |-> "timer", state |-> "running", answer |-> "none"] \in EvalRecord
    /\ [at |-> "posted", run |-> 0] \in StartRecord
    /\ \A n \in Nat : [at |-> "made", run |-> n] \in StartRecord
  BY DEF AskRecord, StartRecord, EvalRecord, Drawn, Clicked, Settled, NoOwner

LEMMA TaskInit == PageInit => TaskInv
<1> SUFFICES ASSUME PageInit PROVE TaskInv
  OBVIOUS
<1> USE DEF PageInit
<1>1. AsksInv
  <2>1. asks \in [1..0 -> AskRecord]
    OBVIOUS
  <2>2. QED
    BY <2>1 DEF AsksInv
<1>2. StartInv
  <2>1. started \in [1..0 -> StartRecord]
    OBVIOUS
  <2>2. QED
    BY <2>1 DEF StartInv, StartComesBack
<1>3. CkptsInv /\ EvalsInv /\ EvalComesBack
  BY DEF CkptsInv, EvalsInv, EvalComesBack
<1>4. QED
  BY <1>1, <1>2, <1>3 DEF TaskInv

\* Asking: the request joins the others, none is drawn.
LEMMA AskKeeps ==
    ASSUME AsksInv, NEW o \in Nat, Ask(o), runs' = runs, saved' = saved
    PROVE  AsksInv'
<1>1. PICK k \in Nat : asks \in [1..k -> AskRecord]
  BY DEF AsksInv
<1>2. asks' \in [1..(k + 1) -> AskRecord]
  BY <1>1, ExtendIs, PageValues DEF Ask
<1>3. QED
  BY <1>2 DEF AsksInv

LEMMA StartSet ==
    ASSUME StartInv, NEW s \in DOMAIN started, NEW r \in StartRecord,
           started' = [started EXCEPT ![s] = r], r.at # "over" \/ startOn',
           startOn' = TRUE \/ UNCHANGED startOn
    PROVE  StartInv'
<1>1. PICK k \in Nat : started \in [1..k -> StartRecord]
  BY DEF StartInv
<1>2. started' \in [1..k -> StartRecord]
  BY <1>1
<1>3. StartComesBack'
  BY <1>1 DEF StartInv, StartComesBack
<1>4. QED
  BY <1>2, <1>3 DEF StartInv

\* The steps of the server and of the run card.
LEMMA RunCardStep ==
    ASSUME TaskInv, UNCHANGED evalCard,
           \/ ServerSaves \/ ClickStart \/ Choose \/ Polled
           \/ \E n \in AskIds : Answered(n)
           \/ \E s \in DOMAIN started : RunMade(s) \/ StartFails(s) \/ StartAnswered(s)
    PROVE  TaskInv'
<1> USE DEF TaskInv
<1>1. CkptsInv' /\ EvalsInv' /\ EvalComesBack'
  BY DEF evalCard, CkptsInv, EvalsInv, EvalComesBack
<1>2. PICK k \in Nat : started \in [1..k -> StartRecord]
  BY DEF StartInv
<1>3. CASE ServerSaves
  BY <1>1, <1>3 DEF ServerSaves, AsksInv, StartInv, StartComesBack, runCard
<1>4. CASE ClickStart
  <2> DEFINE new == [at |-> "posted", run |-> 0]
  <2>1. new \in StartRecord /\ new.at # "over"
    BY PageValues
  <2>2. started' = Extend(started, new)
    BY <1>4 DEF ClickStart
  <2> HIDE DEF new
  <2>3. started' \in [1..(k + 1) -> StartRecord] /\ started'[k + 1] = new
    <3>1. Extend(started, new) \in [1..(k + 1) -> StartRecord]
      BY <1>2, <2>1, ExtendIs
    <3>2. Extend(started, new)[k + 1] = new
      BY <1>2, ExtendLast
    <3>3. QED
      BY <2>2, <3>1, <3>2
  <2>4. StartInv'
    BY <2>1, <2>3 DEF StartInv, StartComesBack
  <2>5. QED
    BY <1>1, <1>4, <2>4 DEF ClickStart, AsksInv
<1>5. CASE Choose
  BY <1>1, <1>5 DEF Choose, AsksInv, StartInv, StartComesBack, AttachTo
<1>6. CASE Polled
  <2>1. AsksInv'
    <3>1. CASE UNCHANGED asks
      BY <1>6, <3>1 DEF Polled, AsksInv
    <3>2. CASE Ask(NoOwner)
      BY <1>6, <3>2, AskKeeps DEF Polled, NoOwner
    <3>3. QED
      BY <1>6, <3>1, <3>2 DEF Polled
  <2>2. QED
    BY <1>1, <1>6, <2>1 DEF Polled, StartInv, StartComesBack
<1>7. ASSUME NEW n \in AskIds, Answered(n) PROVE TaskInv'
  <2>1. PICK m \in Nat : asks \in [1..m -> AskRecord]
    BY DEF AsksInv
  <2>2. asks' \in [1..m -> AskRecord]
    BY <1>7, <2>1 DEF Answered, AskRecord, AsksInv
  <2>3. QED
    BY <1>1, <1>7, <2>2 DEF Answered, AsksInv, StartInv, StartComesBack, runCard
<1>8. ASSUME NEW s \in DOMAIN started, RunMade(s) PROVE TaskInv'
  <2>1. runs' \in Nat /\ [at |-> "made", run |-> runs'] \in StartRecord
    BY <1>8, PageValues DEF RunMade, AsksInv
  <2>2. StartInv'
    BY <1>8, <2>1, StartSet DEF RunMade
  <2>3. QED
    BY <1>1, <1>8, <2>1, <2>2 DEF RunMade, AsksInv
<1>9. ASSUME NEW s \in DOMAIN started, StartFails(s) PROVE TaskInv'
  <2>1. StartInv'
    BY <1>9, PageValues, StartSet DEF StartFails
  <2>2. QED
    BY <1>1, <1>9, <2>1 DEF StartFails, AsksInv
<1>10. ASSUME NEW s \in DOMAIN started, StartAnswered(s) PROVE TaskInv'
  <2>1. s \in Nat /\ [started[s] EXCEPT !.at = "refresh"] \in StartRecord
    BY <1>2 DEF StartRecord
  <2>2. started' = [started EXCEPT ![s] = [started[s] EXCEPT !.at = "refresh"]]
    BY <1>10 DEF StartAnswered
  <2>3. [started[s] EXCEPT !.at = "refresh"].at = "refresh"
    BY <1>2 DEF StartRecord
  <2>4. StartInv'
    BY <1>10, <2>1, <2>2, <2>3, StartSet DEF StartAnswered
  <2>5. AsksInv'
    BY <1>10, <2>1, AskKeeps DEF StartAnswered
  <2>6. QED
    BY <1>1, <2>4, <2>5
<1>11. QED
  BY <1>3, <1>4, <1>5, <1>6, <1>7, <1>8, <1>9, <1>10

\* A list of checkpoints is drawn, or could not be had.
LEMMA DetailStep ==
    ASSUME TaskInv, NEW n \in AskIds, DetailShown(n) \/ DetailFails(n)
    PROVE  TaskInv'
<1> USE DEF TaskInv
<1>1. PICK m \in Nat : asks \in [1..m -> AskRecord]
  BY DEF AsksInv
<1>2. /\ asks' = [asks EXCEPT ![n] = Drawn] /\ UNCHANGED <<runs, saved>>
      /\ Follow(asks[n].of)
      /\ UNCHANGED evalCard \/ RenderCkpts(asks[n].ckpts)
  BY DEF DetailShown, DetailFails
<1>3. asks[n].ckpts \subseteq Ckpts
  BY <1>1 DEF AskRecord, AskIds
<1>4. AsksInv'
  <2>1. asks' \in [1..m -> AskRecord]
    BY <1>1, <1>2, PageValues
  <2>2. QED
    BY <1>2, <2>1 DEF AsksInv
<1>5. StartInv'
  <2>1. CASE UNCHANGED runCard
    BY <2>1 DEF runCard, StartInv, StartComesBack
  <2>2. ASSUME NEW o, startOn' = TRUE, started' = [started EXCEPT ![o] = Clicked]
        PROVE  StartInv'
    <3>1. PICK k \in Nat : started \in [1..k -> StartRecord]
      BY DEF StartInv
    <3>2. started' \in [1..k -> StartRecord]
      BY <2>2, <3>1, PageValues
    <3>3. QED
      BY <2>2, <3>2 DEF StartInv, StartComesBack
  <2>3. QED
    BY <1>2, <2>1, <2>2 DEF Follow
<1>6. CkptsInv' /\ EvalsInv' /\ EvalComesBack'
  <2>1. CASE UNCHANGED evalCard
    BY <2>1 DEF evalCard, CkptsInv, EvalsInv, EvalComesBack
  <2>2. CASE RenderCkpts(asks[n].ckpts)
    <3> DEFINE new == asks[n].ckpts
    <3>1. /\ options' = new /\ picked' \in Chosen(new)
          /\ evalOn' = (picked' # NoCkpt)
          /\ blank' = (picked # NoCkpt /\ picked' = NoCkpt)
          /\ UNCHANGED <<evals, evalToken, shown, lastShown>>
      BY <2>2 DEF RenderCkpts
    <3>2. picked' \in new \/ (picked' = NoCkpt /\ (picked # NoCkpt \/ new = {}))
      BY <3>1 DEF Chosen
    <3>3. CkptsInv'
      BY <1>3, <3>1, <3>2, PageAssumption DEF CkptsInv, PageAssumption
    <3>4. EvalsInv' /\ EvalComesBack'
      BY <3>1 DEF EvalsInv, EvalComesBack
    <3>5. QED
      BY <3>3, <3>4
  <2>3. QED
    BY <1>2, <2>1, <2>2
<1>7. QED
  BY <1>4, <1>5, <1>6

\* A step of evaluation e that leaves the others and the choice alone.
LEMMA EvalSet ==
    ASSUME TaskInv, UNCHANGED evalRest, NEW e \in DOMAIN evals, NEW r \in EvalRecord,
           evals' = [evals EXCEPT ![e] = r],
           \/ UNCHANGED <<shown, lastShown>>
           \/ e = evalToken /\ shown' = e /\ lastShown' = e,
           e = evalToken /\ r.at = "over" /\ r.answer = "done" => shown' = e /\ lastShown' = e,
           \/ evalOn' \/ picked = NoCkpt
           \/ UNCHANGED evalOn /\ (e = evalToken /\ r.at = "over" => evals[e].at = "over")
    PROVE  TaskInv'
<1> USE DEF TaskInv, evalRest
<1>1. evalToken \in Nat /\ evals \in [1..evalToken -> EvalRecord]
  BY DEF EvalsInv
<1>2. evals' \in [1..evalToken -> EvalRecord]
  BY <1>1
<1>3. AsksInv' /\ StartInv' /\ CkptsInv'
  BY DEF AsksInv, StartInv, StartComesBack, CkptsInv, runCard
<1>4. EvalsInv'
  BY <1>1, <1>2 DEF EvalsInv
<1>5. EvalComesBack'
  BY <1>1, <1>2 DEF EvalComesBack
<1>6. QED
  BY <1>3, <1>4, <1>5

LEMMA EvalStep ==
    ASSUME TaskInv, NEW e \in DOMAIN evals,
           \/ EvalMade(e) \/ EvalFails(e) \/ EvalEnds(e) \/ PollEval(e)
           \/ EvalState(e) \/ PollFails(e) \/ EvalAnswer(e)
    PROVE  TaskInv'
<1>1. /\ evalToken \in Nat /\ evals \in [1..evalToken -> EvalRecord]
      /\ evals[e] \in EvalRecord
      /\ e = evalToken /\ evals[e].at = "over" /\ evals[e].answer = "done"
            => shown = e /\ lastShown = e
  BY DEF TaskInv, EvalsInv
<1>2. /\ \A a : Settled(a).at = "over" /\ Settled(a).answer = a
      /\ \A a \in {"none", "running", "done", "failed"} : Settled(a) \in EvalRecord
  BY PageValues DEF Settled
<1>3. CASE EvalMade(e)
  BY <1>1, <1>3, EvalSet, PageValues DEF EvalMade
<1>4. CASE EvalFails(e)
  BY <1>1, <1>2, <1>4, EvalSet DEF EvalFails
<1>5. CASE EvalEnds(e)
  <2>1. PICK x \in {"done", "failed"} : evals' = [evals EXCEPT ![e].state = x]
    BY <1>5 DEF EvalEnds
  <2> DEFINE r == [evals[e] EXCEPT !.state = x]
  <2>2. /\ r \in EvalRecord /\ r.at = evals[e].at /\ r.answer = evals[e].answer
        /\ evals' = [evals EXCEPT ![e] = r]
    BY <1>1, <2>1 DEF EvalRecord
  <2> HIDE DEF r
  <2>3. QED
    BY <1>1, <1>5, <2>2, EvalSet DEF EvalEnds
<1>6. CASE PollEval(e)
  <2> DEFINE r == [evals[e] EXCEPT !.at = "sent"]
  <2>1. r \in EvalRecord /\ r.at = "sent"
    BY <1>1 DEF EvalRecord
  <2>2. evals' = [evals EXCEPT ![e] = IF e = evalToken THEN r ELSE Settled("none")]
    BY <1>1, <1>6 DEF PollEval
  <2> HIDE DEF r
  <2>3. QED
    BY <1>1, <1>2, <1>6, <2>1, <2>2, EvalSet DEF PollEval
<1>7. CASE EvalState(e)
  <2> DEFINE r == [evals[e] EXCEPT !.at = "answered", !.answer = evals[e].state]
  <2>1. /\ r \in EvalRecord /\ r.at = "answered"
        /\ evals' = [evals EXCEPT ![e] = r]
    BY <1>1, <1>7 DEF EvalState, EvalRecord
  <2> HIDE DEF r
  <2>2. QED
    BY <1>1, <1>7, <2>1, EvalSet DEF EvalState
<1>8. CASE PollFails(e)
  BY <1>1, <1>2, <1>8, EvalSet DEF PollFails
<1>9. CASE EvalAnswer(e)
  <2>1. CASE e # evalToken
    BY <1>1, <1>2, <1>9, <2>1, EvalSet DEF EvalAnswer
  <2>2. CASE ShowResult(e) /\ e = evalToken /\ evals[e].answer = "running"
    <3> DEFINE r == [evals[e] EXCEPT !.at = "timer"]
    <3>1. /\ r \in EvalRecord /\ r.at = "timer"
          /\ evals' = [evals EXCEPT ![e] = r]
      BY <1>1, <2>2 DEF ShowResult, EvalRecord
    <3> HIDE DEF r
    <3>2. QED
      BY <1>1, <2>2, <3>1, EvalSet DEF ShowResult
  <2>3. CASE ShowResult(e) /\ e = evalToken /\ evals[e].answer # "running"
    <3>1. evals[e].answer \in {"none", "running", "done", "failed"}
      BY <1>1 DEF EvalRecord
    <3>2. evals' = [evals EXCEPT ![e] = Settled(evals[e].answer)]
      BY <1>1, <2>3 DEF ShowResult
    <3>3. QED
      BY <1>1, <1>2, <2>3, <3>1, <3>2, EvalSet DEF ShowResult
  <2>4. QED
    BY <1>9, <2>1, <2>2, <2>3 DEF EvalAnswer
<1>10. QED
  BY <1>3, <1>4, <1>5, <1>6, <1>7, <1>8, <1>9

LEMMA ChoiceStep ==
    ASSUME TaskInv, PickCkpt \/ ClickEval \/ Redraw
    PROVE  TaskInv'
<1> USE DEF TaskInv
<1>1. AsksInv' /\ StartInv'
  BY DEF PickCkpt, ClickEval, Redraw, evalRest, runCard, AsksInv, StartInv, StartComesBack
<1>2. CASE PickCkpt
  BY <1>1, <1>2, PageAssumption
     DEF PickCkpt, CkptsInv, EvalsInv, EvalComesBack, PageAssumption
<1>3. CASE ClickEval
  <2> DEFINE new == [at |-> "posted", state |-> "none", answer |-> "none"]
  <2>1. new \in EvalRecord /\ new.at # "over"
    BY PageValues
  <2>2. evals' = Extend(evals, new) /\ evalToken' = evalToken + 1
    BY <1>3 DEF ClickEval
  <2> HIDE DEF new
  <2>3. evals' \in [1..evalToken' -> EvalRecord] /\ evals'[evalToken'] = new
        /\ evalToken' \in Nat \ {0}
    <3>1. evalToken \in Nat /\ evals \in [1..evalToken -> EvalRecord]
      BY DEF EvalsInv
    <3>2. Extend(evals, new) \in [1..(evalToken + 1) -> EvalRecord]
      BY <2>1, <3>1, ExtendIs
    <3>3. Extend(evals, new)[evalToken + 1] = new
      BY <3>1, ExtendLast
    <3>4. QED
      BY <2>2, <3>1, <3>2, <3>3
  <2>4. EvalsInv' /\ EvalComesBack'
    BY <2>1, <2>3 DEF EvalsInv, EvalComesBack
  <2>5. QED
    BY <1>1, <1>3, <2>4 DEF ClickEval, CkptsInv
<1>4. CASE Redraw
  BY <1>1, <1>4 DEF Redraw, evalRest, CkptsInv, EvalsInv, EvalComesBack
<1>5. QED
  BY <1>2, <1>3, <1>4

THEOREM TaskInvariance == PageSpec => []TaskInv
<1>1. TaskInv /\ [PageNext]_pageVars => TaskInv'
  <2> SUFFICES ASSUME TaskInv, [PageNext]_pageVars PROVE TaskInv'
    OBVIOUS
  <2>1. CASE UNCHANGED pageVars
    BY <2>1 DEF pageVars, runCard, evalCard, TaskInv, AsksInv, StartInv,
                StartComesBack, CkptsInv, EvalsInv, EvalComesBack
  <2>2. CASE \/ ServerSaves \/ ClickStart \/ Choose \/ Polled
             \/ \E n \in AskIds : Answered(n)
             \/ \E s \in DOMAIN started : RunMade(s) \/ StartFails(s) \/ StartAnswered(s)
    <3>1. UNCHANGED evalCard
      BY <2>2 DEF ServerSaves, ClickStart, Choose, Polled, Answered, RunMade,
                  StartFails, StartAnswered
    <3>2. QED
      BY <2>2, <3>1, RunCardStep
  <2>3. ASSUME NEW n \in AskIds, DetailShown(n) \/ DetailFails(n) PROVE TaskInv'
    BY <2>3, DetailStep
  <2>4. ASSUME NEW e \in DOMAIN evals,
               \/ EvalMade(e) \/ EvalFails(e) \/ EvalEnds(e) \/ PollEval(e)
               \/ EvalState(e) \/ PollFails(e) \/ EvalAnswer(e)
        PROVE  TaskInv'
    BY <2>4, EvalStep
  <2>5. CASE PickCkpt \/ ClickEval \/ Redraw
    BY <2>5, ChoiceStep
  <2>6. QED
    BY <2>1, <2>2, <2>3, <2>4, <2>5 DEF PageNext
<1>2. QED
  BY <1>1, TaskInit, PTL DEF PageSpec

(***************************************************************************)
(* No older result takes a newer one's place, and no request leaves its    *)
(* button disabled, in whatever order any number of answers come in.       *)
(***************************************************************************)
THEOREM PageComesBack == PageSpec => []PageFollows
<1>1. TaskInv => PageFollows
  BY DEF TaskInv, StartInv, EvalsInv, PageFollows, NewestIsShown
<1>2. QED
  BY <1>1, TaskInvariance, PTL
=============================================================================
