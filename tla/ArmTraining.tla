---------------------------- MODULE ArmTraining ----------------------------
(***************************************************************************)
(* The training jobs of lessons 16-18 (lab/tasks/task_nfv1, 2, 3, train,   *)
(* with nfv/train.py, fit): the arms of a suite one after the other in one *)
(* process, on the demonstrations that are on disk when an arm starts, and *)
(* one checkpoint of all arms after each; or a single model that fit saves *)
(* itself.  Networks, losses and metric rows are left out.                 *)
(***************************************************************************)
EXTENDS DemoSet
LOCAL INSTANCE FiniteSetsExt

CONSTANTS
    Steps,      \* optimizer steps of an arm
    CkptEvery,  \* periodic checkpoints of the single preset
    Demos       \* the form's "demos": how many of the set to train on

ASSUME TrainAssumption ==
    /\ {Steps, CkptEvery, Demos} \subseteq Nat \ {0}
    /\ {"t0", "t1", "t2"} \subseteq SeqRange(TaskNames)

VARIABLES
    lesson,    \* the lesson whose jobs these are
    preset,    \* "suite" or "single"
    tpc,       \* where the training job is
    arm, step, \* the arm it trains and the steps trained of it
    seen,      \* should_continue has said stop, and says so from then on
    loading,   \* the shards of the dataset still to load
    cache,     \* cache[t]: demos loaded of task t
    captured,  \* steps behind the final weights of each arm so far
    ckpts      \* the checkpoints saved

trainVars == <<lesson, preset, tpc, arm, step, seen, loading, cache, captured, ckpts>>

\* The arms of the suites: label and task.
Arms16 == << <<"A t0 default", "t0">>, <<"B t1 default", "t1">>, <<"C t1 no-language", "t1">> >>
Arms17 == << <<"none", "t1">>, <<"prefix_linear", "t1">>, <<"prefix_moe", "t1">>,
             <<"concat_after", "t1">>, <<"fvlmoe", "t1">> >>
Arms18 == << <<"A fvlmoe+position", "t2">>, <<"B forcevla2+hybrid", "t2">>,
             <<"C forcevla2+position", "t2">> >>

Suite == CASE lesson = 16 -> Arms16 [] lesson = 17 -> Arms17 [] lesson = 18 -> Arms18
              [] OTHER -> <<>>
\* A single model is of one of these kinds too.
Arms == IF preset = "single" THEN <<Suite[IF lesson = 16 THEN 1 ELSE Len(Suite)]>> ELSE Suite
ArmTask == Arms[arm][2]

TrainInit ==
    /\ tpc = "idle"
    /\ arm = 1 /\ step = 0
    /\ seen = FALSE
    /\ loading = <<>>
    /\ cache = [t \in {} |-> 0]
    /\ captured = <<>>
    /\ ckpts = <<>>

-----------------------------------------------------------------------------
\* Polls come closer than POLL_S while training, so one may not look at the file.
PollSees == "train" \in stopAsked /\ seen' = TRUE
PollGoesOn == ~seen /\ UNCHANGED seen

TrainStarts ==
    /\ tpc = "idle" /\ Suite # <<>>
    /\ tpc' = "arm"
    /\ UNCHANGED <<lesson, preset, arm, step, seen, loading, cache, captured, ckpts>>

\* DemoDataset: no index, or one that is being written, raises.  The view of an
\* arm takes the first of the listed demos, as many as there are.
LoadIndex ==
    /\ tpc = "arm"
    /\ LET new == index[ArmTask] IN
       IF ArmTask \in DOMAIN cache THEN tpc' = "fit" /\ UNCHANGED <<loading, cache>>
       ELSE IF new.by \in {"none", "torn"} THEN tpc' = "failed" /\ UNCHANGED <<loading, cache>>
       ELSE /\ tpc' = "load"
            /\ loading' = new.demos
            /\ cache' = [t \in DOMAIN cache \cup {ArmTask} |->
                           IF t = ArmTask THEN Min({Demos, Len(new.demos)}) ELSE cache[t]]
    /\ UNCHANGED <<lesson, preset, arm, step, seen, captured, ckpts>>

LoadShard ==
    /\ tpc = "load"
    /\ loading' = Tail(loading)
    /\ tpc' = IF shard[Head(loading)] \in {"none", "torn"} THEN "failed"
              ELSE IF loading' = <<>> THEN "fit" ELSE "load"
    /\ UNCHANGED <<lesson, preset, arm, step, seen, cache, captured, ckpts>>

Ckpt(label, at) == [lesson |-> lesson, label |-> label, at |-> at,
                    arms |-> [i \in 1..arm |-> Arms[i][1]], trained |-> captured']

\* One step of fit, with the periodic checkpoint of the single preset.
FitStep ==
    /\ tpc = "fit" /\ step < Steps
    /\ PollGoesOn
    /\ step' = step + 1
    /\ IF preset = "single" /\ step' % CkptEvery = 0 /\ step' < Steps
       THEN captured' = <<step'>> /\ ckpts' = Append(ckpts, Ckpt("", step'))
       ELSE UNCHANGED <<captured, ckpts>>
    /\ UNCHANGED <<lesson, preset, tpc, arm, loading, cache>>

\* All steps are done, or a poll before the next one says stop.
FitEnds ==
    /\ tpc = "fit"
    /\ IF step = Steps THEN UNCHANGED seen ELSE PollSees
    /\ tpc' = "save"
    /\ UNCHANGED <<lesson, preset, arm, step, loading, cache, captured, ckpts>>

\* fit's last save: the single preset's checkpoint, or captured for the suite's.
SaveSingle ==
    /\ preset = "single"
    /\ captured' = <<step>>
    /\ ckpts' = Append(ckpts, Ckpt("", step))

SaveSuite(label) ==
    /\ preset = "suite"
    /\ captured' = Append(captured, step)
    /\ ckpts' = Append(ckpts, Ckpt(IF arm = Len(Arms) THEN "final" ELSE label, arm * Steps))

Save16 == lesson = 16 /\ (SaveSingle \/ SaveSuite(Arms[arm][1] \o " trained"))
Save17 == lesson = 17 /\ (SaveSingle \/ SaveSuite(Arms[arm][1] \o " trained"))
Save18 == lesson = 18 /\ (SaveSingle \/ SaveSuite(<<"a", "b", "c">>[arm] \o " trained"))

ArmSaved ==
    /\ tpc = "save"
    /\ Save16 \/ Save17 \/ Save18
    /\ tpc' = "next"
    /\ UNCHANGED <<lesson, preset, arm, step, seen, loading, cache>>

\* Mutant: the stop fit has obeyed ends that arm only.
MutNextArm ==
    /\ tpc = "next"
    /\ IF arm < Len(Arms) THEN arm' = arm + 1 /\ step' = 0 /\ tpc' = "arm"
       ELSE tpc' = "done" /\ UNCHANGED <<arm, step>>
    /\ UNCHANGED <<lesson, preset, seen, loading, cache, captured, ckpts>>

\* The poll between the arms; then the next arm, or done.
NextArm ==
    /\ tpc = "next"
    /\ \/ PollSees /\ tpc' = "stopped" /\ UNCHANGED <<arm, step>>
       \/ /\ PollGoesOn
          /\ IF arm < Len(Arms) THEN arm' = arm + 1 /\ step' = 0 /\ tpc' = "arm"
             ELSE tpc' = "done" /\ UNCHANGED <<arm, step>>
    /\ UNCHANGED <<lesson, preset, loading, cache, captured, ckpts>>

TrainEnded == {"done", "stopped", "failed", "killed"}

TrainKilled ==
    /\ tpc \notin TrainEnded \cup {"idle"}
    /\ tpc' = "killed"
    /\ UNCHANGED <<lesson, preset, arm, step, seen, loading, cache, captured, ckpts>>

Training ==
    /\ \/ TrainStarts \/ LoadIndex \/ LoadShard \/ FitStep \/ FitEnds
       \/ ArmSaved \/ NextArm \/ TrainKilled
    /\ UNCHANGED demoVars

-----------------------------------------------------------------------------
(***************************************************************************)
(* A suite's checkpoint lists the arms begun so far, each with its own     *)
(* weights; all but the last are trained in full, and so is the last,      *)
(* unless a stop cut it short: then it is the last checkpoint of a job     *)
(* that ends as stopped.  (It is still labelled as trained, or final.)     *)
(* A job that is done has trained every arm in full, on demos of the whole *)
(* set unless a recording had begun, and its last checkpoint has them all. *)
(***************************************************************************)
OnlyTheLastArmIsPartial ==
    /\ preset = "suite" => \A n \in DOMAIN ckpts :
        LET c == ckpts[n] IN
        /\ Len(c.trained) = n /\ Len(c.arms) = n /\ c.at = n * Steps
        /\ \A i \in 1..n : c.trained[i] < Steps =>
              i = n /\ n = Len(ckpts) /\ seen /\ tpc \in {"next", "stopped", "killed"}
        /\ c.trained[n] \in {Steps, IF arm = n THEN step ELSE Steps}
    /\ tpc = "done" =>
        /\ ckpts[Len(ckpts)].trained = [i \in DOMAIN Arms |-> Steps]
        /\ DOMAIN cache = {Arms[i][2] : i \in DOMAIN Arms}
        /\ \A t \in DOMAIN cache :
              \/ cache[t] = Min({Demos, PerTask})
              \/ cache[t] > 0 /\ rpc # "idle" /\ t \in SeqRange(RecTasks)
=============================================================================
