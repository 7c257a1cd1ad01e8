# Verification of the force-VLA lab

TLA+ models, TLC runs and TLAPS proofs about the parts of this repository in which
several processes, crashes and long histories meet: the lab (`lab/`) that starts, watches,
pauses, stops and checkpoints training jobs; the lessons it runs; and the robot programs
behind them, with their experts, operators, sequencers and training scripts.

## 1. The system

| Component | Code | State it keeps | Operations | Talks to |
|---|---|---|---|---|
| Job core | `lab/core/jobs.py`, `runctx.py`, `run_job.py` | one directory per job: `status.json`, `control.json`, `job.pid`, `metrics.jsonl`, `ckpt/` | start_job, sweep_stale, read_status, read_metrics, send_control; RunContext.log / set_status / should_continue / save_ckpt / done / fail; main | server and child process, by files only |
| Server | `lab/server/app.py`, `lab/tasks/registry.py` | none of its own | POST runs/evals/control, GET run state and lists, start-up sweep | job core, page |
| Page | `lab/web/app.js` | attached run with token, cursor and charts; start button, chosen checkpoint, evaluation token and result | attachRun and its poll timer, start, pause, stop; the cards of a task | server, by HTTP |
| Training loop and its lessons | `lab/core/loop.py`, lessons 1-5, embed, token, attention, vit, crossattn, finddigit | step, metric rows, checkpoints, parts of earlier phases, scores | train_loop, save, each lesson's `train` and `evaluate` | RunContext |
| TD3 lessons | `lab/tasks/task6_td3.py`, `task7_td3bc.py`, `task8_residual.py` | step, best key, last saved step, checkpoint directory | _train_loop, _run_eval, _save with pruning | RunContext |
| Worker suites (lessons 19, 20) | `lab/tasks/task_nfv4.py`, `task_nfv5.py`, `nfv/rl/worker.py`, `nfv/lora_worker.py` | worker processes, STOP files, per-worker directories | train and evaluate: spawn, wait, drain, stop, terminate | RunContext, child processes |
| Movement suites (lessons 15-18) | `lab/tasks/task_nfv0.py` to `task_nfv3.py`, `nfv/data/*`, `nfv/seeds.py`, `nfv/train.py`, `lab/core/video.py` | shards and `index.json` of the demo set, arms of a checkpoint, rows of an evaluation | a recording, a training and an evaluation job | each other, by files |
| Residual RL, deployment | `nfv/rl/loop.py`, `deploy.py`, `residual.py` | replay buffer, operator state, intervention budget, policy snapshot | environment step, take-over, update, swap, evaluate | simulator |
| nfv simulation and experts | `nfv/sim/*` | expert phase, task counters, subtask labels | reset, step, the four experts, the prompt machine | MuJoCo |
| Sorting policy, sequencer | `fvb/policy/sort_expert.py`, `fvb/envs/sort_bolts_nuts.py`, `scripts/29_skill_sequencer.py` | phase, retries, status of each part, skill in charge | phases of the expert, step of the environment, hand-overs | MuJoCo |
| Skill training | `scripts/18_train_td3.py`, `fvb/policy/sort_skill_env.py`, `rl_env.py`, `arm_task.py` | episode, cache of set-ups, buffer, best agent | demonstrate, train, evaluate, restore | MuJoCo |
| Transport | `fvb/vla/transport.py`, `scripts/24_serve_policy.py` | one socket | request, reply | one client |
| Models, datasets, other scripts, reports, vendored forcevla | the rest | numbers and files | batch computation | - |

(`nfv` and `fvb` are under `src/src/`, the rest under `src/`.)

The server, each job and the page run concurrently and share files; a file is replaced
atomically, but a read and the later write that depends on it are two steps. A container
restart kills every job in it and sweeps the directories. Checkpoints are written in place and
in several files, and are read by evaluations while the run goes on. Users stop, pause and
resume at any time; a page polls and may have been pointed at another run meanwhile. A demo set
is rewritten by one job while others train on it. The robot programs are sequential, but their
histories are long: phases, retries, take-overs, counters that outlive an episode, evaluations
that borrow the environment of the training.
`PROJECT.json` lists each hazard at its line with the properties that cover it.

What makes each part correct: a job is shown to start, run, pause and end exactly as it did,
and an end is final; a stop ends a job and costs little work; nobody is shown running for ever;
the page shows one run, each row once, and the newest answer; whatever the index lists can be
loaded and is what it is labelled; the best policy and the last trained step are never lost; a
result speaks of all of what it claims to be about and of nothing else; an episode's verdict is
earned in that episode; and what an agent learns from is what happened.

## 2. Modules

### The lab

`LabJob` - the run-directory contract. `start[j]` is how far the POST handler is (`MakeDir`,
`WriteControl`, `WriteQueued` of `_start`; `WriteStarting`, `Spawn`, `SpawnFails`,
`WriteSpawnFailed`, `WritePid` of `start_job`). `pc[j]` is where the child is: `ReportUp` and
`Return` are `run_job.main`, `PollSkips`, `PollReads` and `Resume` are `should_continue`, and
`Work`, `Finish`, `StopWork` and `Raise` stand for a task. Every `set_status` is two steps, a
read into `draft[j]` and the atomic replacement (`SetStatus`, `Write`). `ContainerStops`,
`ContainerStarts` and the sweep (`SweepRead`, `SweepWrite`, `SweepEnds`) are a restart.
`Outside` jobs are those a driver runs in a container of its own: they survive the restart
but the sweep sees their directory. `ReadStatus` is what GET answers; `Shown` adds that
nothing is answered while the container is down.

`JobLifecycle` - the abstract specification: what a user may see of a job. `LabJob`
implements it with `shown[j] <- Shown(j)` for the jobs of the container.

`RunView` - composes `LabJob` with the page. A poll is four separate steps (metrics read,
status read, process check, delivery), each of which any step of the job or the server may
come between; `token` and `poll[t]` are attachRun's `runToken` and the outstanding request
of each call.

`TaskPage` - the cards of a task's page: Start, the list of runs, the choice of a checkpoint and
Run evaluation, and the redraws from the task's detail. Every request is answered or fails in its
own time. `startOn`, `evalOn`, `picked` and `evalToken` are the buttons, the chosen option and the token;
what the polling of the attached run does to the buttons is an action of its own.

### Training and its checkpoints

`CkptDir` - `save_ckpt` file by file: open (torn), filled, `last.pt` open, filled, index
replaced. A kill may fall between any two.

`TrainLoop` - a multi-phase task on top of `CkptDir`: one `train_loop` per phase with its
offset, rows, progress, periodic and final saves, and the payload that collects the phases.

`TD3Run` - the TD3 loop on top of `CkptDir`: polls every few steps, evaluations, the save that
follows each, and the prune that keeps the newest best and the newest checkpoint, unlinking
file by file before it rewrites the index.

`Lessons`, `ForceToken`, `LessonEval` - the ten lessons that train in the job's own process,
each extending the former. `Lessons` chooses one and gives `TrainLoop` its parts: five call
train_loop per part, five have a loop of their own that saves nothing at a stop, three roll out an
expert first. `ForceToken` adds the lesson that saves by validation loss. `LessonEval` adds an
evaluation: the page lists the index, the server looks for the file, a second process loads it
later (`Torn` while the run saves that file) and rebuilds the model from it.
`TrainSpec` is a lesson with an evaluation beside it.

`TD3Lessons` - task 7's demonstrations before the loop of `TD3Run`, and task 8's rounds of parallel
scenes, whose steps overshoot the intervals by which saves and evaluations are due.

`Workers` - what the two worker suites share. A worker trains a step, fills a row of its
`metrics.jsonl` and completes it, looks for its STOP file, replaces its weights and its
`result.json`, and may die at any of these points. The parent is `_wait` of `task_nfv5` (the loop
of `task_nfv4` is the same, inline): sleep, drain the files one by one (`Wait`, `Drain`,
`DrainEnds`), `should_continue` (`Poll`, `Resume`), a STOP file for each worker (`TouchStop`), and
SIGTERM for the live ones when anything raises (`WaitRaises`). `off[p]` is the drain offset,
`merged` the parent's own rows.
A pause holds the parent only, its workers go on: `PausedIsIdle` of `LabJob` is about the job's own
process.

`ArmSuite` - `task_nfv5.train`: probes, then one arm after another, each judged by its return code
and its result, and the suite's checkpoint saved after each. Its worker is `lora_worker.cmd_train`,
which takes `TrainSteps` optimizer steps and writes a row before the first, after every `Window` of
them (`--log-every`, `max(10, steps // 200)` in the code) and after the last. It looks for STOP only
after those rows, and not after the one before its first step.

`SeedSuite` - `task_nfv4.train`: all seeds at once, a median row for each evaluation step that
every seed has reported, one checkpoint at the end. Its worker is `run_residual_rl` under the
`FileCtx` of `nfv.rl.worker`, which looks for STOP before each round, evaluates, keeps the best
weights on the way and ends with a final evaluation wherever it was stopped.

`EvalPool`, `ArmLesson`, `SeedEval` - what is evaluated of these suites. `EvalPool` is
`task_nfv5.evaluate`: one worker per arm of the checkpoint, at most `Par` at a time, a failed one
ends the others, then renders for the video. `ArmLesson` composes it with `ArmSuite`: the
evaluation reads the checkpoint and the adapters a suite left, however that ended. `SeedEval` is
`task_nfv4.evaluate`: the base and every seed on the same episodes, then traces of the base and of
the median seed on those episodes that tell most.

`DemoSet`, `ArmTraining`, `ArmEval`, `MovementSuite` - lessons 15-18, again each extending the
former: shards and index written chunk by chunk and read by others; the arms of a training job with
one checkpoint after each; the plan, video, rows and claims of an evaluation job; and
the three kinds of job started and stopped in any order on one disk.

### Robot programs

`ResidualRL` - `run_residual_rl`: slots stepped in turn, take-overs by stall or force
(`deploy.SimOperator`), the budget, the replay buffer with its intervention flags and
`mark_boundary`, updates, snapshot swaps, evaluations, and what a stop saves.

`GantryEpisode`, `ForcePrompt` - an episode of the gantry with its scripted expert, control sample
by control sample, in one environment whose task objects outlive the episode; and the prompt
machine that follows the demo it recorded. Positions and forces are levels the code tells apart.

`SortCell` - the sorting expert, the environment's account of the parts and the sequencer that
hands the pick or the insertion to a learned skill and takes over from it.

`SkillTraining` - 18_train_td3 with its demonstrations, training loop, evaluations on the same
environment and final evaluation, and reset and step of the three skills with the cache of set-ups.

### Instances

`MCPages`, `MCImitation`, `MCReinforcement` and `MCSeedSuite` check several programs that share
nothing in one run: `card`, `program`, `kind` or `job` says which of them a behaviour is about, and
the others keep their initial values. `MCPages` has the attached run or the cards of a task;
`MCImitation` the lessons, lesson 20 or the gantry; `MCReinforcement` the TD3 lessons, residual RL,
sorting or skill training; `MCSeedSuite` lesson 19's training or its evaluation.

The other `MC*` modules only instantiate; `*Proofs` modules hold the theorems. Operators named
`Mut...` are plausible mistakes in the definition that follows them, used to confirm that each
property notices one.

### Bounds

All are constants, and the instances are the smallest in which every case happens.

- lab_job: one job of the container beside one outside it, `MaxSteps` 1, `MaxRestarts` 1, `MaxCmds` 2,
  so that a job survives the restart in which another dies. lab_job_live adds a page that attaches once.
- run_view: `MaxSteps` 2, `MaxRestarts` 1, `MaxAttach` 2, a second attach while an answer to the first is
  outstanding; two checkpoints, two clicks and two redraws, so that each may overtake another. The
  checkpoints are symmetric.
- imitation: up to four phases of four steps (`LogEvery` 2, `EvalEvery` 3, `CkptEvery` 2), so that intervals
  meet and miss each other and a middle phase has both neighbours; one evaluation in a behaviour, its load one
  step; a probe and three arms (`Procs` 1..4) of three steps in windows of two, so that the last window is a partial one, two at a time in an evaluation; two episodes of
  seven policy steps of two samples. `MinContact` 6 leaves a wipe no sample to waste.
- reinforcement: TD3 with seven steps (`EvalEvery` 2, `PollEvery` 2, three scores), enough for two bests and a
  last that is neither, two scenes of task 8; residual RL with nine steps of two slots, segments of two
  and a budget of a quarter, without decay; one bolt and one nut, held for one step and moved once, with both
  skills learned; four training steps of a skill, evaluated every two, episodes of at most three steps.
  `HoldUp` is 2 there instead of 10.
- movement_suite: two demos per task recorded one by one from blocks of three seeds, two steps, two
  episodes per group, two of them rendered, two jobs at a time. `Burst` is 1: one episode of the plan may begin unread, the next poll looks.
- seed_suite: two seeds whose files are read at different moments; three seeds and three episodes in
  the evaluation, so that there is a median, and a trace left out. Only a stop is sent there: the
  parent pauses by the steps that imitation checks with all three commands.

Data are abstracted to what properties tell apart: a model is the number of trained steps of each
phase (`TrainLoop`) or its step and evaluation key (`TD3Run`), a row is its number, a pid is whether
it is known and whether it was reused, an observation is its episode's seed and step. Of time one
thing is assumed: no more than `Burst` episodes begin in the `POLL_S` (0.5 s) after should_continue
looked at the file (a rendered episode takes longer than that, the thirty steps of an unrendered
hold do not), for whatever `Burst` the machine has. Of the gantry's physics two things are assumed: nothing is touched at the height at which an episode
starts, and a peg sinks at most one level in a policy step.

## 3. What TLC checks

| Run | Module, cfg | Shows |
|---|---|---|
| lab_job (pass) | MCLabJob, MCLabJob.cfg | `EndIsReported`, `PausedIsIdle`, `ImplementsLifecycle`. With a container restart and two control commands anywhere, the end of a job is what is reported, a paused job is idle, and the shown states follow the abstract lifecycle. |
| lab_job_live (pass) | MCRunView, MCRunViewLive.cfg | `StopEnds`, `NoEternalRunning`, `PageSettles`. Under fair scheduling an unrevoked stop ends a job, no dead job stays shown as running, and a page that stays on a run comes to show its end although a restart interrupts its requests. |
| lab_job_sweep (violation) | MCLabJob, MCLabJobSweep.cfg | `DoneSurvivesSweep`. The start-up sweep reads and later rewrites a status: a job outside the container that records done in between is stamped failed for good. |
| run_view (pass) | MCPages, MCPages.cfg | `ChartsShowTheRun`, `ShownEndIsTrue`, `PageFollows`. A page that attaches twice to a running, ending, dying job across a restart shows each row once and in order, all of them if it attached after the end of a job of the container (one outside it may go on after a sweep marked it failed), and no untrue end; of overlapping evaluations it shows the newest, and gives its buttons back. |
| run_view_rows (violation) | MCRunView, MCRunViewRows.cfg | `NothingLeftUnread`. run_state reads the metrics before the status and the page stops at the first terminal state, so the last rows of a run may never be shown. |
| run_view_died (violation) | MCRunView, MCRunViewDied.cfg | `DiedMeansUnfinished`. read_status takes a status and looks for the process later: a job that finishes in between is answered as one that died without finishing. |
| imitation (pass) | MCImitation, MCImitation.cfg | Lessons: `StepsNeverGoBack`, `ListedIsWhole`, `SavedAsMeasured`, `EvaluatesTheListed`. With a stop, a kill and an evaluation anywhere, rows come in order, listed checkpoints load, what is saved was trained and measured, and an evaluation reads what was picked. Lesson 20: `StopCostsOneWindow`, `ArmsAreThere`, `NoArmAfterStop`, `ResultIsWhole`, `LessonEnds`. With pauses, stops, exceptions, dying workers and a killed parent, a stop costs a worker at most a window of optimizer steps and starts no further arm, listed arms are on disk, an evaluation's result covers all of them or does not exist, and the lesson ends. Gantry: `ClickDecides`, `SuccessIsEarned`, `PromptFollows`. |
| train_loop_names (violation) | MCTrainLoop, MCTrainLoopNames.cfg | `NamesUniqueAcrossPhases`. A stop at the first poll of the second phase saves under the file name of the first phase's final checkpoint. |
| reinforcement (pass) | MCReinforcement, MCReinforcement.cfg | TD3: `ListedNeverTorn`, `BestIsKept`, `NothingUnsaved`, with stops at polls and inside evaluations and a kill between any two file operations. Residual RL: `BoundaryIsCut`, `BudgetHolds`. Sorting: `EndIsEarned`, `OpensInPlace`. Skills: `TransitionsAreWhole`, `AgentIsJudged`. |
| rl_reads (violation) | MCResidualRL, MCResidualRLReads.cfg | `NoTargetIntoTakeover`. An update made after another slot's step, before the operator's first transition is stored, draws the sample that is cut a moment later. |
| seed_suite (pass) | MCSeedSuite, MCSeedSuite.cfg | `RowsAreMerged`, `NoWorkerLeft`, `MediansAreRight`, `SeedsAreSaved`: two seeds trained side by side while the parent drains their growing files; every row arrives once and in order, medians are logged once and after all their rows, the checkpoint holds every seed, no worker outlives the wait. `ComparesTheSame`: an evaluation compares base and median seed on the same episodes. |
| movement_suite (pass) | MCMovementSuite, MCMovementSuite.cfg | `SetIsWhole`, `OnlyTheLastArmIsPartial`, `EachEpisodeOnce`, `StopCostsFewEpisodes`, `ClaimsAreMeasured`. Two jobs of a lesson overlap in any order, each stopped or killed anywhere: listed demos are on disk, arms are whole but for the one a stop cut, no episode counts twice although its video fails, a stop lets no more begin than should_continue may leave unread and a failed video runs again, and claims are answered from all of their episodes. |

Deadlock checking is off everywhere: jobs end, and a bounded history ends with them.

Fairness. `LabJob!Fairness` is weak fairness of handler threads, child processes, the sweep
and the restart of the container (`restart: unless-stopped` in `docker/compose.yaml`), and
strong fairness of `PollReads`: `should_continue` looks at most every 0.5 s of wall time, so a
job that calls it for ever looks again and again. Nothing is assumed of the user, of kills, or
that a job's own loop ends. `MCRunView!WatchedSpec` adds weak fairness of the steps of a poll
(timers fire, requests are answered or fail). `MCImitation!MCSpec` has the fairness of
`ArmLesson!LessonSpec`: weak fairness of the parent and of each worker, which are ordinary
processes; a worker's loop is bounded, so it ends without a STOP. Nothing is assumed of deaths, and
`LessonEnds` excepts a lesson left paused for ever.

### Disagreements between code and documents

1. `DoneSurvivesSweep` (src/lab/core/jobs.py:122). sweep_stale reads a status (122) and later replaces the file with that copy marked failed (125-127). The docstring says "Mark every non-terminal job dir under roots/<task>/<job> failed" (lab/core/jobs.py:115), but a job of an outside container that records done between the two is marked failed although it is terminal, and nothing repairs it (docs/force_vla_school_techdev.md:145 relies on "own `done()` repaired the status").
2. `NothingLeftUnread` (src/lab/server/app.py:275). run_state reads the metrics (app.py:275) before the status (276), and the page stops polling at the first terminal state (app.js:386-388): rows written in between are never fetched. docs/superpowers/plans/2026-10-22-lab.md:27 says "the tail reader must skip an incomplete last line and pick it up next poll"; there is no next poll.
3. `DiedMeansUnfinished` (src/lab/core/jobs.py:106). read_status takes status.json (99) and tests the process later (106). A job that writes done and exits in between is answered as failed, "process died (pid {pid}) without finishing" (lab/core/jobs.py:107), although it finished; the page then stops polling and keeps showing failed (lab/web/app.js:386-388).
4. `NamesUniqueAcrossPhases` (src/lab/core/loop.py:141). train_loop's docstring says step_offset and total_steps "keep checkpoint file names unique across phases" (lab/core/loop.py:56), but a stop at the first poll of phase 2 breaks out with step 0 (94-98) and save(0) (141) writes step_offset + 0, the file name of phase 1's final checkpoint: that file is overwritten by one that also holds the untrained phase-2 model, and the index lists the name twice.
5. `NoTargetIntoTakeover` (src/src/nfv/rl/loop.py:598). deploy.py says of the cut (src/src/nfv/rl/deploy.py:47) "no TD target ever reads a state whose future belonged to the operator". The loop stores an autonomous transition as a critic sample (loop.py:590, deploy.py:194) and marks it only when its slot is observed again (loop.py:548-554); the update of the same step and those of the other slots' steps (593-599) may draw it before, so targets do bootstrap from the state in which the operator takes over.

Two more that no run is about, met while modelling:

- sort_skill_env.py:48-51 says "``cache`` > 0: training seeds map onto ``cache`` set-ups, each run by the expert once and then restored". `reset` maps seeds below 50,000 only (sort_skill_env.py:200), and 18_train_td3.py trains on 1,000,000 * (seed + 1) + n (line 234) and demonstrates from 900,000: the cache serves nothing but the reset to an earlier training episode after an evaluation, and its snapshots grow with the run.
- lab/README.md:89-91 says a payload is self-describing, so that `evaluate` rebuilds the model from the file alone, and task_token.py:29 says "Mid-run checkpoints hold only the heads trained so far; `evaluate` rebuilds every model from `arch`". The evaluations of lessons 1, 2 and token index parts that such a checkpoint does not have yet (task1_bc_mse.py:71-77, task2_flow.py:149, task_token.py:183-186) and end in a KeyError; embeddings leaves out the missing ones (task_embed.py:295-301). `LessonEval!Rebuild` has this behaviour, and `EvaluatesTheListed` promises an evaluation only for what it does rebuild.

## 4. What is proved

All for every value of the constants the assumptions allow. The inductive invariants are
conjunctions of named parts, with a lemma for each action.

`LabJobProofs`: for all sets of jobs and all bounds, `TypeCorrect`, `EndStaysReported`
(`EndIsReported`), `PausedStaysIdle` (`PausedIsIdle`) and `Refinement`
(`Spec => ImplementsLifecycle`). The inductive invariant relates each child point to the start
stage of its handler, to what status.json and the pending draft may hold there, and to the
sweep: a contained job that is alive excludes a sweep, and the sweep's pending write excludes a
terminal state. The properties alone are not inductive because they say nothing about the
pending drafts. The refinement maps each action to one move of the lifecycle or to a stutter.
Of the page that watches these jobs it proves `PageTellsTheEnd` (`ShownEndIsTrue`) and `ChartsFollow`
(`ChartsShowTheRun`): only the request of the latest token can change the page; it is about
the page's run, asks for the rows after those shown and has read a prefix of the run's rows; the
status it holds on to, once terminal, is the run's own; and an attach that finds the run over
reads all its rows. Of the cards `PageComesBack` (`PageFollows`), for any number of clicks and
redraws: a disabled Start waits for a click, no choice means no checkpoint or one that vanished,
and a result seen is kept for the next redraw.

`CkptDirProofs` proves what the steps of a save keep for any client; `TrainLoopProofs` builds
`RowsInOrder` and `ListedCheckpointsLoad` on it for any number of phases, steps and intervals.
Of the lessons' specification (`TrainSpec`) it proves, for any number of parts, demos and losses,
`LessonRowsInOrder`, `LessonsAreSaved` (`SavedAsMeasured`) and `TheListedIsEvaluated`
(`EvaluatesTheListed`). `TrainInv` says what the payload holds at each point of a loop, that a
save which is not finished belongs to the point at which the loop waits for it, that scores are
as old as the last evaluation, that every listed model is one the training went through, and that
the final step is listed once; for force-token, that the saved epoch follows the lowest loss seen.
The evaluation needs to know which torn or missing file it may meet: a listed file is torn only
while its own step is saved again (`Twice`), and holds at least the parts of the entry.

`TD3RunProofs` proves `NeverTorn` (`ListedNeverTorn`), `BestSurvives` (`BestIsKept`) and `AllIsSaved`
(`NothingUnsaved`) for any run length, intervals and set of keys. The invariant says that a save
never takes the name of a listed file (a poll saves `t - 1` only if the evaluation at `t - 1` did
not), and that the newest `best` entry has the highest key of all listed ones and is spared by the
prune in progress. For what a returned run leaves it adds that no file is left over, that last.pt
is the newest listed one whenever the loop is not saving, and that a prune keeps two at most.

`NfvProofs` is about nfv. For residual RL, any number of slots, length of a segment, and budget,
decaying or not: `BoundaryStaysCut` (`BoundaryIsCut`) and `BudgetIsKept` (`BudgetHolds`). For the
first the invariant says that `last[s]` names the latest transition of the episode of `s`, that no
two slots share an episode, and that an operator in the middle of a segment stored that transition
himself. For the second it counts what was used together with `Rest`, the pairs of a slot with an
operator and a step of its segment to come: a take-over begins only while what was used is within
the budget, and from then on each of his steps takes one pair out of the rest. For the gantry,
demos of any length and number and any count of samples in a step: `PromptFollowsTheDemo`
(`PromptFollows`), `ClickEndsTheEpisode` (`ClickDecides`) and `SuccessStaysEarned`
(`SuccessIsEarned`). The prompt's invariant is `Labels` (which subtask labels an expert can have
written by now), `Machine` (what the machine's position and its armed flag may be given the labels it
has followed), `Early` and `Late` (the bounds on its distance). The distance alone is not
inductive: the machine moves by the hindsight progress of the next step, whose run of equal labels
reaches past the step it has come to. A success is earned because each counter moves in its phase
only, the last row's label is the expert's phase, and each sample adds one of contact at most.

`NfvProofs` then proves lesson 19 for any number of seeds, steps and episodes: of its training
(`SeedSpec`) `RowsStayMerged` (`RowsAreMerged`), `NoSeedIsLeft` (`NoWorkerLeft`), `MediansStayRight`
(`MediansAreRight`) and `SeedsStaySaved` (`SeedsAreSaved`). In `SeedInv` a worker's rows are those of
just the evaluations behind it (`WorkerOK`); the parent waits for all that were spawned, and goes on
when none lives (`ParentOK`); the nth of a worker's merged rows is the nth of its file (`RowsOK`), which
was read to its end once all workers ended (`DrainedOK`), so that the medians of the last drain
complete the log (`MediansOK`). Places are counted, not filtered: the laws of filters need induction
over data, and that every place up to a set's size is taken follows from the pigeonhole principle.
Of its evaluation (`SeedEvalSpec`) it proves `TheSameIsCompared` (`ComparesTheSame`): the workers are all
there once waited for, the pair of the video is begun, filmed or made again (`TracesFollow`), and the
seeds, ordered by success and then by number, have one in the middle (`EveryRankIsTaken`).

`ArmLessonProofs` proves `StopCostsAWindow` (`StopCostsOneWindow`), `StopStartsNoArm`
(`NoArmAfterStop`), `ArmsStayThere` (`ArmsAreThere`) and `ResultStaysWhole` (`ResultIsWhole`) for
any number of probes, arms and steps and any window, evaluations included. The steps a training
worker took since its STOP are no more than those of the window it is in (`trained % Window`), since
it came there without one; and a parent about to spawn has seen no stop. For the results: whoever
runs is waited for, an arm's files agree with its worker's place, the payload lists just the arms
the suite has gone through, and in an evaluation every arm is pending, running or evaluated.

`SkillTrainingProofs` proves `WholeTransitions` (`TransitionsAreWhole`) and `JudgedByItsOwn`
(`AgentIsJudged`) for trainings and episodes of any length. Inside a training episode the loop's
observation is that of the environment; the counters the verdict reads are those of the episode; and
nothing is trained beyond the first interval before it was evaluated, so that the final evaluation
has an agent to choose (it needs `SkillEvery <= SkillSteps`, which `SkillAssumption` states). Of the
sorting cell it proves `SortingIsEarned` (`EndIsEarned`) and `HandOpensInPlace` (`OpensInPlace`) for
any parts and any set of learned skills: only the target is ever in the hand, nothing is from home
until the fingers close, a failure is always one of a part not given up, and the environment's clock
of a bolt counts the updates it stood.

`MovementProofs` proves the five properties of the movement suites (`MovementDemos`,
`MovementArms`, `MovementEpisodes`, `MovementStops`, `MovementClaims`) for any tasks, numbers of
demos, steps and episodes and any length of a video. The three jobs share files, so the invariant is
one for all: `DemoInv` (the demos gathered rise within the block of their task, every index lists
shards that are there, only the shard being written is torn), `TrainInv` and `CkptArms` (the nth
checkpoint of a suite holds the first n arms as they were when they ended; the cache has the datasets
of the arms so far), `EpisodesInv` (rows and what is left to run are disjoint and make up the plan, or
that part of it which may be filmed), `PlanIs` and `ResultIs` (an answer is about groups of the plan
of this lesson). `LateIs` is about a stop: the episodes begun since and the polls still to be answered
unread make up `Burst` at most, to which a failed video adds what is left of its episodes. Those have
different ranks below `MaxVideo`, so that there are at most `MaxVideo` of them.

Assumptions are the named ASSUMEs of the modules: positive steps and intervals, polls more than
one step apart (`POLL_EVERY` is 10), at least one worker, one cell to wipe beyond the first, `None`
and `last.pt` distinct from jobs and steps, what torch.load returns is never what a torn file holds
(`TornAssumption`), tasks with different names of which the suites' three are some, demos that fit
a task's block of seeds, a video of at least one episode.

Only model-checked: all liveness (`ENABLED` and fairness are out of the prover's reach); every
invariant a passing run checks is proved. `TypeCorrect` is proved and not run.

## 5. Not modelled, and why

Numerical code (networks, losses, physics, controllers, aggregates), plots, viewers, reports, and
vendored code hold no control state a model checker helps with; together they are most of the
tree. The server's other read-only endpoints, form validation and estimates are pure. The
transport is a blocking request and reply with one client.

Left out of modelled components:

- evaluations of force-token, the TD3 lessons and the residual. A TD3 checkpoint that is evaluated may
  be pruned before it is loaded; the evaluation then fails.
- `control.json` holds one command, and the last writer wins. The server's control endpoint is for
  runs only, so the polls of an evaluation see a stop only if a driver calls `send_control`; the
  models let it come.
- renders are not polled, and a spawn that raises inside a pool is that of `SeedSuite` (below).
- the hover and enter loop of the sorting expert (sort_expert.py:754) ends by the episode's horizon only.
- a diverging simulator in skill training; hand-written phases in `fvb/control/osc_scripts.py`.
- the precedence of seeds over block bounds in `nfv/seeds.py:32`; training rows of lesson 19's workers,
  which travel as those of evaluations do.

Narrower than the code: in the sorting cell and the skill episodes no bolt lands in the bucket, and
only the target can be grasped.

Behaviour the models have and no document speaks of:

- after a stop lesson 15 may still begin some of its short holds (runctx.py:66); a hold evaluation none
  of whose episodes lasts to its measured window answers no claim (task_nfv0.py:634-637), and neither
  does one of lesson 18 whose gates never decided both in and out of contact.

- a `Popen` that raises after other seeds were started leaves these running (task_nfv4.py:140);
  `NoWorkerLeft` excludes it by name. Lesson 19's evaluation has no try around its wait either: an
  exception leaves its workers, its traces are not polled, and a stop seen in its last poll discards
  a complete evaluation.
- lessons with a loop of their own and stops while demos are collected save nothing, though
  docs/superpowers/specs/2026-10-22-lab-design.md:91 has "stop = graceful save+exit".
- a set-up aborted for force in `sort_skill_env` aborts the first step of its fresh episode and not of
  its restored copies. `best.pt` of an earlier run in the same `--out` is evaluated if the run is too
  short for an evaluation.
- the prompt machine of lesson 18's first task counts a subtask that no demo carries (subtasks.py:56-59);
  demos of the third that need no search let the prompt be late (74-76).
- a chosen checkpoint that was pruned leaves the evaluation's button disabled until the next redraw
  (app.js:465-466); an older detail answer overwrites a newer one; a poll enables Start while a click
  on it waits, so that a second run can be started, and the page follows whichever refresh ends last;
  one failed poll ends an evaluation's polling, and its catch does not look at the token (491-494).

## 6. Plan

Done, in order of importance: the job contract with its lifecycle and proofs; the page; checkpoint
files, the training loop and the TD3 loop with their proofs; the worker suites; the movement suites;
the lessons and the evaluations; residual RL; the gantry with the force prompt; sorting; skill
training; the cards of a task's page; and the proofs about each of these.

Left, modules:

1. evaluations of TD3 checkpoints while the run prunes, and of force-token.
2. The other hand-written experts: `HoleExpert` (`fvb/policy/task.py`), the arm's expert, the phases of
   `osc_scripts.py`.
3. The claims of lesson 20's evaluation, as `ArmEval` has those of lessons 15-18.
4. Pure algorithms as operators against reference definitions: `read_metrics`' tail rule, `budget_at`.

Left, theorems: those of the modules above.
