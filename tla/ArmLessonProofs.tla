-------------------------- MODULE ArmLessonProofs --------------------------
(***************************************************************************)
(* Proofs about lesson 20: what a stop costs and prevents, what a saved     *)
(* checkpoint lists and what an evaluation's result speaks of, for any     *)
(* number of probes, arms, training steps and parallel workers, wherever   *)
(* workers die, calls raise or the parent is killed.                       *)
(***************************************************************************)
EXTENDS ArmLesson, FiniteSetTheorems, WellFoundedInduction, TLAPS

Places == Running \cup {"none", "ok", "bad"}

Machines ==
    /\ worker \in [Procs -> Places]
    /\ trained \in [Procs -> Nat] /\ grace \in [Procs -> Nat]
    /\ kind \in {"arms", "evals"}

\* A worker that trains on after its STOP is still in the window it was in then.
InItsWindow(p) ==
    /\ p \notin stopFile => grace[p] = 0
    /\ grace[p] <= Window /\ grace[p] <= trained[p]
    /\ worker[p] = "run" /\ kind = "arms" => grace[p] <= trained[p] % Window

StopsAreSeen == \A p \in Procs : InItsWindow(p)

SpawnsUnstopped == kind = "arms" /\ parentPc = "spawn" => ~stopped

LessonInv == Machines /\ StopsAreSeen /\ SpawnsUnstopped

(***************************************************************************)
(* Counted within its window, a step is the first of the next one or one   *)
(* more of the same.                                                       *)
(***************************************************************************)
LEMMA ModIs ==
    ASSUME NEW t \in Nat, NEW w \in Nat \ {0}
    PROVE  t % w \in 0..(w - 1) /\ t \div w \in Int /\ t = w * (t \div w) + (t % w)
<1>1. t % w \in 0..(w - 1)
  OBVIOUS
<1>2. t \div w \in Int
  BY Z3
<1>3. t = w * (t \div w) + (t % w)
  BY Z3
<1>4. QED
  BY <1>1, <1>2, <1>3

LEMMA WindowsFollow ==
    ASSUME NEW a \in Int, NEW b \in Int, NEW w \in Nat \ {0}, a < b
    PROVE  w * a + w <= w * b
<1>1. PICK d \in Nat : b = a + 1 + d
  <2>1. b - a - 1 \in Nat /\ b = a + 1 + (b - a - 1)
    OBVIOUS
  <2>2. QED
    BY <2>1
<1>2. w * b = w * a + w + w * d
  BY <1>1
<1>3. w * d >= 0 /\ w * d \in Int /\ w * a \in Int
  BY Z3
<1>4. QED
  BY <1>2, <1>3

LEMMA ModGoesOn ==
    ASSUME NEW t \in Nat, NEW w \in Nat \ {0}
    PROVE  (t + 1) % w = 0 \/ (t + 1) % w = (t % w) + 1
<1> DEFINE q == t \div w
           r == t % w
           s == (t + 1) \div w
           u == (t + 1) % w
<1>1. r \in 0..(w - 1) /\ q \in Int /\ t = w * q + r
  BY ModIs
<1>2. u \in 0..(w - 1) /\ s \in Int /\ t + 1 = w * s + u
  BY ModIs, t + 1 \in Nat
<1> HIDE DEF q, r, s, u
<1>3. w * q \in Int /\ w * s \in Int
  BY <1>1, <1>2
<1>4. CASE s = q
  BY <1>1, <1>2, <1>3, <1>4 DEF r, u
<1>5. ~(s < q)
  BY <1>1, <1>2, <1>3, WindowsFollow
<1>6. CASE s > q
  BY <1>1, <1>2, <1>3, <1>6, WindowsFollow DEF u
<1>7. QED
  BY <1>1, <1>2, <1>4, <1>5, <1>6

LEMMA LessonAtFirst == LessonInit => LessonInv
<1> SUFFICES ASSUME LessonInit PROVE LessonInv
  OBVIOUS
<1> USE DEF LessonInit, ArmInit, WorkersInit
<1>1. Machines
  BY DEF Machines, Places
<1>2. StopsAreSeen
  BY WindowAssumption DEF StopsAreSeen, InItsWindow
<1>3. QED
  BY <1>1, <1>2 DEF LessonInv, SpawnsUnstopped

\* Steps that leave the workers' steps alone, and may give them their STOP.
Undisturbed ==
    /\ UNCHANGED <<trained, grace>> /\ stopFile \subseteq stopFile'
    /\ kind' \in {"arms", "evals"} /\ (kind' = "arms" => kind = "arms")
    /\ worker' \in [Procs -> Places]
    /\ \A p \in Procs : kind' = "arms" /\ worker'[p] = "run" => worker[p] = "run"

LEMMA UndisturbedKeeps == Machines /\ StopsAreSeen /\ Undisturbed => Machines' /\ StopsAreSeen'
<1> SUFFICES ASSUME Machines, StopsAreSeen, Undisturbed PROVE Machines' /\ StopsAreSeen'
  OBVIOUS
<1>1. Machines'
  BY DEF Machines, Undisturbed
<1>2. ASSUME NEW p \in Procs PROVE InItsWindow(p)'
  BY DEF StopsAreSeen, InItsWindow, Undisturbed
<1>3. QED
  BY <1>1, <1>2 DEF StopsAreSeen

-----------------------------------------------------------------------------
\* A worker's own steps: it looks for its STOP after every window of training.
LEMMA WorkerKeeps ==
    ASSUME Machines, StopsAreSeen, kind = "arms", kind' = kind, stopFile' = stopFile,
           NEW p \in Procs, WorkerStep(p)
    PROVE  /\ Machines' /\ StopsAreSeen' /\ worker[p] # "none"
           /\ \A q \in Procs : q # p => worker'[q] = worker[q]
<1> USE DEF Places, Running
<1>1. CASE StepLora(p)
  <2>1. PICK to \in {"row", "run"} :
           /\ worker[p] = "run" /\ worker' = [worker EXCEPT ![p] = to]
           /\ trained' = [trained EXCEPT ![p] = trained[p] + 1]
           /\ grace' = IF p \in stopFile THEN [grace EXCEPT ![p] = grace[p] + 1] ELSE grace
           /\ to = "run" => (trained[p] + 1) % Window # 0
    BY <1>1, Zenon DEF StepLora, EndsWindow, Train, Moves
  <2>2. Machines' /\ worker[p] # "none" /\ \A q \in Procs : q # p => worker'[q] = worker[q]
    BY <2>1 DEF Machines
  <2>3. /\ Window \in Nat \ {0} /\ trained[p] \in Nat /\ grace[p] \in Nat
        /\ grace[p] <= trained[p] % Window /\ grace[p] <= trained[p]
        /\ p \notin stopFile => grace[p] = 0
    BY <2>1, WindowAssumption DEF StopsAreSeen, InItsWindow, Machines
  <2>4. PICK r \in 0..(Window - 1) : r = trained[p] % Window
    BY <2>3, ModIs
  <2>5. /\ trained'[p] = trained[p] + 1 /\ worker'[p] = to /\ grace'[p] \in Nat
        /\ grace'[p] <= grace[p] + 1 /\ (p \notin stopFile => grace'[p] = 0)
        /\ to = "run" => (trained[p] + 1) % Window = r + 1
    BY <2>1, <2>3, <2>4, ModGoesOn DEF Machines
  <2>6. InItsWindow(p)'
    BY <2>3, <2>4, <2>5 DEF InItsWindow
  <2>7. ASSUME NEW q \in Procs, q # p PROVE InItsWindow(q)'
    BY <2>1, <2>7 DEF StopsAreSeen, InItsWindow, Machines
  <2>8. QED
    BY <2>2, <2>6, <2>7 DEF StopsAreSeen
<1>2. CASE Row(p) \/ CheckStop(p) \/ SaveAdapter(p) \/ SaveResult(p) \/ ProbeEnds(p)
  <2>1. UNCHANGED <<trained, grace>>
    BY <1>2 DEF Row, CheckStop, SaveAdapter, SaveResult, ProbeEnds, RowEnds, SaveModel
  <2>2. PICK to \in Places :
           /\ worker' = [worker EXCEPT ![p] = to]
           /\ to = "run" => \/ worker[p] = "row" /\ trained[p] = 0
                            \/ worker[p] = "check" /\ p \notin stopFile
    BY <1>2, Zenon DEF Row, CheckStop, SaveAdapter, SaveResult, ProbeEnds, RowEnds, SaveModel, Moves
  <2>3. worker[p] # "none"
    BY <1>2 DEF Row, CheckStop, SaveAdapter, SaveResult, ProbeEnds, RowEnds, SaveModel, Moves
  <2>4. Machines' /\ \A q \in Procs : q # p => worker'[q] = worker[q]
    BY <2>1, <2>2 DEF Machines
  <2>5. ASSUME NEW q \in Procs PROVE InItsWindow(q)'
    <3>1. CASE q = p
      <4>1. /\ grace[p] <= Window /\ grace[p] <= trained[p] /\ grace[p] \in Nat
            /\ p \notin stopFile => grace[p] = 0
        BY DEF StopsAreSeen, InItsWindow, Machines
      <4>2. to = "run" => grace[p] = 0
        BY <2>2, <4>1
      <4>3. worker'[p] = to /\ trained[p] \in Nat /\ Window \in Nat \ {0}
        BY <2>2, WindowAssumption DEF Machines
      <4>4. 0 <= trained[p] % Window
        BY <4>3, ModIs
      <4>5. QED
        BY <2>1, <3>1, <4>1, <4>2, <4>3, <4>4 DEF InItsWindow
    <3>2. CASE q # p
      BY <2>1, <2>4, <3>2 DEF StopsAreSeen, InItsWindow
    <3>3. QED
      BY <3>1, <3>2
  <2>6. QED
    BY <2>3, <2>4, <2>5 DEF StopsAreSeen
<1>3. QED
  BY <1>1, <1>2 DEF WorkerStep

-----------------------------------------------------------------------------
\* The parent spawns only while it has not seen the stop.
LEMMA WaitKeeps ==
    ASSUME WaitStep(<<>>)
    PROVE  parentPc' # "spawn" /\ stopFile \subseteq stopFile' /\ parentPc # "spawn"
<1>1. CASE Wait
  BY <1>1 DEF Wait
<1>2. CASE Drain
  BY <1>2 DEF Drain
<1>3. CASE DrainEnds(<<>>)
  BY <1>3 DEF DrainEnds
<1>4. CASE Poll
  BY <1>4 DEF Poll, ObeyStop
<1>5. CASE Resume
  BY <1>5 DEF Resume, ObeyStop
<1>6. CASE TouchStop
  BY <1>6 DEF TouchStop
<1>7. QED
  BY <1>1, <1>2, <1>3, <1>4, <1>5, <1>6 DEF WaitStep

LEMMA ArmStepKeeps ==
    ASSUME LessonInv, kind = "arms", kind' = kind, ArmNext
    PROVE  LessonInv' /\ StartsNoArm
<1> USE DEF LessonInv
<1>1. CASE Spawn
  <2>1. worker' = [worker EXCEPT ![cur] = "row"] /\ ~stopped /\ parentPc' = "wait"
    BY <1>1 DEF Spawn, SpawnsUnstopped
  <2>2. Undisturbed
    BY <1>1, <2>1 DEF Spawn, Undisturbed, Machines, Places, Running
  <2>3. QED
    BY <2>1, <2>2, UndisturbedKeeps DEF SpawnsUnstopped, StartsNoArm
<1>2. CASE Judge \/ After \/ Raise
  <2>1. UNCHANGED <<worker, trained, grace, stopFile, stopped>>
    BY <1>2 DEF Judge, After, Raise, workerVars
  <2>2. parentPc' = "spawn" => ~stopped
    BY <1>2 DEF Judge, After, Raise, JudgeProbe, JudgeFailed, JudgeTrained, End, NextOne
  <2>3. Undisturbed
    BY <2>1 DEF Undisturbed, Machines
  <2>4. QED
    BY <2>1, <2>2, <2>3, UndisturbedKeeps DEF SpawnsUnstopped, StartsNoArm
<1>3. CASE WaitStep(<<>>) /\ UNCHANGED <<workerVars, asked, suiteVars>>
  <2>1. Undisturbed /\ worker' = worker /\ parentPc' # "spawn"
    BY <1>3, WaitKeeps DEF Undisturbed, workerVars, Machines
  <2>2. QED
    BY <2>1, UndisturbedKeeps DEF SpawnsUnstopped, StartsNoArm
<1>4. ASSUME NEW p \in Procs, Worker(p) PROVE LessonInv' /\ StartsNoArm
  <2>1. /\ WorkerStep(p) /\ UNCHANGED <<stopFile, parentPc, stopped>>
    BY <1>4 DEF Worker, parentVars
  <2>2. /\ Machines' /\ StopsAreSeen' /\ worker[p] # "none"
        /\ \A q \in Procs : q # p => worker'[q] = worker[q]
    BY <2>1, WorkerKeeps
  <2>3. QED
    BY <2>1, <2>2 DEF SpawnsUnstopped, StartsNoArm
<1>5. ASSUME NEW p \in Procs, Dies(p),
             UNCHANGED <<stopFile, told, parentPc, parentVars, asked, suiteVars>>
      PROVE  LessonInv' /\ StartsNoArm
  <2>1. /\ worker[p] # "none" /\ worker' = [worker EXCEPT ![p] = "bad"]
        /\ UNCHANGED <<trained, grace, stopFile, parentPc, stopped>>
    BY <1>5 DEF Dies, Alive, Running, parentVars
  <2>2. Undisturbed
    BY <2>1 DEF Undisturbed, Machines, Places
  <2>3. QED
    BY <2>1, <2>2, UndisturbedKeeps DEF SpawnsUnstopped, StartsNoArm, Machines
<1>6. CASE WaitRaises /\ UNCHANGED <<workerVars, asked, suiteVars>>
  <2>1. Undisturbed /\ worker' = worker /\ parentPc' # "spawn"
    BY <1>6 DEF WaitRaises, Undisturbed, workerVars, Machines
  <2>2. QED
    BY <2>1, UndisturbedKeeps DEF SpawnsUnstopped, StartsNoArm
<1>7. CASE (Command \/ ParentKilled) /\ UNCHANGED suiteVars
  <2>1. /\ Undisturbed /\ worker' = worker /\ stopped' = stopped
        /\ parentPc' = "spawn" => parentPc = "spawn"
    BY <1>7 DEF Command, ParentKilled, Undisturbed, workerVars, parentVars, Machines
  <2>2. QED
    BY <2>1, UndisturbedKeeps DEF SpawnsUnstopped, StartsNoArm
<1>8. QED
  BY <1>1, <1>2, <1>3, <1>4, <1>5, <1>6, <1>7 DEF ArmNext, Parent

-----------------------------------------------------------------------------
(***************************************************************************)
(* An evaluation touches neither the steps nor the STOP files of the suite *)
(* whose checkpoint it reads.                                              *)
(***************************************************************************)
LEMMA EvaluationKeeps ==
    ASSUME LessonInv,
           \/ EvaluationStarts
           \/ Evaluating /\ (E!Pool \/ E!SpawnRaises)
           \/ Evaluating /\ \E p \in Procs : E!EvalEnds(p)
           \/ /\ Evaluating /\ UNCHANGED evalVars
              /\ \/ \E p \in Procs : Dies(p) /\ UNCHANGED <<stopFile, told, parentPc, parentVars, asked>>
                 \/ Command \/ ParentKilled
    PROVE  LessonInv'
<1> USE DEF LessonInv
<1>1. kind' = "evals" /\ UNCHANGED <<trained, grace, stopFile>> /\ worker' \in [Procs -> Places]
  <2> USE DEF Machines, Places, Running
  <2>1. CASE EvaluationStarts
    BY <2>1 DEF EvaluationStarts, E!PoolStarts, E!others
  <2>2. CASE Evaluating /\ E!SpawnRaises
    BY <2>2 DEF Evaluating, E!SpawnRaises, E!others
  <2>3. CASE Evaluating /\ E!Pool
    <3>1. kind' = "evals"
      BY <2>3 DEF Evaluating
    <3>2. CASE E!SpawnEval
      BY <3>1, <3>2 DEF E!SpawnEval, E!others
    <3>3. CASE E!Sleep \/ E!Reap \/ E!PollPool
      BY <3>1, <3>3 DEF E!Sleep, E!Reap, E!PollPool, E!others
    <3>4. CASE E!RenderStarts \/ E!Render \/ E!PoolDone
      BY <3>1, <3>4 DEF E!RenderStarts, E!Render, E!PoolDone, E!others
    <3>5. QED
      BY <2>3, <3>2, <3>3, <3>4 DEF E!Pool
  <2>4. CASE Evaluating /\ \E p \in Procs : E!EvalEnds(p)
    BY <2>4 DEF Evaluating, E!EvalEnds, E!others
  <2>5. ASSUME Evaluating, NEW p \in Procs, Dies(p), UNCHANGED stopFile
        PROVE  kind' = "evals" /\ UNCHANGED <<trained, grace, stopFile>>
               /\ worker' \in [Procs -> Places]
    BY <2>5 DEF Evaluating, Dies
  <2>6. CASE Evaluating /\ (Command \/ ParentKilled)
    BY <2>6 DEF Evaluating, Command, ParentKilled, workerVars
  <2>7. QED
    BY <2>1, <2>2, <2>3, <2>4, <2>5, <2>6
<1>2. Undisturbed
  BY <1>1 DEF Undisturbed
<1>3. QED
  BY <1>1, <1>2, UndisturbedKeeps DEF SpawnsUnstopped

LEMMA LessonStep ==
    LessonInv /\ [LessonNext]_lessonVars => LessonInv' /\ [kind = "arms" => StartsNoArm]_lessonVars
<1> SUFFICES ASSUME LessonInv, [LessonNext]_lessonVars
             PROVE  LessonInv' /\ [kind = "arms" => StartsNoArm]_lessonVars
  OBVIOUS
<1>1. CASE Training /\ ArmNext
  BY <1>1, ArmStepKeeps DEF Training
<1>2. CASE EvaluationStarts
  <2>1. StartsNoArm
    BY <1>2 DEF EvaluationStarts, E!PoolStarts, StartsNoArm
  <2>2. QED
    BY <1>2, <2>1, EvaluationKeeps
<1>3. ASSUME Evaluating,
             \/ E!Pool \/ E!SpawnRaises
             \/ \E p \in Procs : E!EvalEnds(p)
             \/ /\ UNCHANGED evalVars
                /\ \/ \E p \in Procs : Dies(p) /\ UNCHANGED <<stopFile, told, parentPc, parentVars, asked>>
                   \/ Command \/ ParentKilled
      PROVE  LessonInv' /\ kind # "arms"
  BY <1>3, EvaluationKeeps DEF Evaluating
<1>4. CASE UNCHANGED lessonVars
  <2>1. UNCHANGED <<worker, trained, grace, stopFile, kind, parentPc, stopped>>
    BY <1>4 DEF lessonVars, armVars, workerVars, parentVars
  <2>2. QED
    BY <1>4, <2>1 DEF LessonInv, Machines, StopsAreSeen, InItsWindow, SpawnsUnstopped
<1>5. QED
  BY <1>1, <1>2, <1>3, <1>4 DEF LessonNext

(***************************************************************************)
(* A worker takes no more optimizer steps than one window has after it was *)
(* given its STOP file (_touch_stop, and lora_worker's training loop),     *)
(* since it looks for it after the last step of every window.              *)
(***************************************************************************)
THEOREM StopCostsAWindow == LessonSpec => []StopCostsOneWindow
<1>1. LessonInv => StopCostsOneWindow
  BY DEF LessonInv, StopsAreSeen, InItsWindow, StopCostsOneWindow
<1>2. QED
  BY <1>1, LessonAtFirst, LessonStep, PTL DEF LessonSpec

(***************************************************************************)
(* The suite starts no probe and no arm after it saw the stop: it judges   *)
(* the process that has ended, and spawns the next unless it was stopped.  *)
(***************************************************************************)
THEOREM StopStartsNoArm == LessonSpec => NoArmAfterStop
<1>1. QED
  BY LessonAtFirst, LessonStep, PTL DEF LessonSpec, NoArmAfterStop
-----------------------------------------------------------------------------
(***************************************************************************)
(* Where the processes are, and what the files and lists say of them.      *)
(***************************************************************************)
Over == {"ended", "raised", "killed"}
AliveIn(S) == \A p \in Procs : Alive(p) => p \in S
Lists == {s \in Seq(Procs \ Quiet) : InOrder(s)}
Of(s) == {s[i] : i \in DOMAIN s}

\* Whoever runs is waited for, and nobody runs while the parent is not waiting.
OneAtATime == kind = "arms" =>
    /\ parentPc \in {"spawn", "last", "judge", "after"} => AliveIn({})
    /\ parentPc \in {"wait", "drain", "poll", "held", "touch"} => AliveIn(waiting)
    /\ parentPc = "ended" => AliveIn(told)

InTurn ==
    /\ cur \in Procs
    /\ kind = "arms" => \A p \in Procs :
          p > cur \/ (p = cur /\ parentPc = "spawn") => worker[p] = "none"

\* No STOP file is there unless the parent saw the stop.
StopsAreAsked == kind = "arms" =>
    /\ parentPc = "touch" => stopped
    /\ ~stopped => stopFile = {}

\* What an arm's files say at each place of its worker.
FilesOf(p) ==
    /\ p \in DOMAIN result => p \in DOMAIN model /\ model[p] = result[p]
    /\ kind = "arms" =>
          /\ p \in DOMAIN result => worker[p] = "ok" /\ result[p] = trained[p]
          /\ worker[p] = "result" => p \in DOMAIN model /\ model[p] = trained[p]
          /\ worker[p] \in {"save", "result", "ok"} /\ p \notin Quiet =>
                p \in stopFile \/ trained[p] = TrainSteps

FilesAgree == \A p \in Procs : FilesOf(p)

\* The arms the payload lists are those the suite has gone through.
DoneIsListed == kind = "arms" =>
    /\ parentPc \notin Over =>
          /\ Of(done) = {p \in Procs \ Quiet : p < cur \/ (p = cur /\ parentPc = "after")}
          /\ state # "done"
    /\ state = "done" => Of(done) = Procs \ Quiet /\ ~stopped

ListsAreKept ==
    /\ done \in Lists /\ saved \in Seq(Lists)
    /\ done # <<>> => saved # <<>>
    /\ saved # <<>> => saved[Len(saved)] = done
    /\ Of(done) \subseteq DOMAIN result
    /\ \A i \in DOMAIN saved : Of(saved[i]) \subseteq DOMAIN result

SuiteInv == OneAtATime /\ InTurn /\ StopsAreAsked /\ FilesAgree /\ DoneIsListed /\ ListsAreKept

(***************************************************************************)
(* An evaluation: each arm is pending, running or evaluated.               *)
(***************************************************************************)
PoolIdle == kind = "arms" => arms = <<>> /\ evs = {} /\ video = {} /\ written = FALSE

ArmsAreShared == kind = "evals" =>
    /\ arms \in Lists /\ pending \in Lists /\ waiting \subseteq Procs
    /\ Of(arms) \subseteq DOMAIN result
    /\ Of(pending) \cup waiting \cup evs = Of(arms)
    /\ Of(pending) \cap (waiting \cup evs) = {}
    /\ AliveIn(waiting) /\ \A p \in evs : worker[p] = "ok"

PoolBounds == kind = "evals" =>
    /\ Cardinality(waiting) <= Par
    /\ parentPc \in {"spawn", "drain", "held", "render", "judge"} \cup Over
    /\ parentPc = "drain" => todo \subseteq waiting
    /\ parentPc \in {"render", "judge"} => pending = <<>> /\ waiting = {}
    /\ parentPc = "ended" => AliveIn(told)

ResultInv == kind = "evals" =>
    /\ written \in BOOLEAN /\ video \in {{}, Of(arms)}
    /\ written => parentPc = "ended" /\ state = "done" /\ evs = Of(arms)

EvalInv == PoolIdle /\ ArmsAreShared /\ PoolBounds /\ ResultInv

LEMMA ProcsAre ==
    /\ Size \in Nat \ {0} /\ Procs = 1..Size /\ Quiet \subseteq Procs
    /\ IsFiniteSet(Procs) /\ Procs \subseteq Nat
<1>1. Size \in Nat \ {0} /\ Procs = 1..Size /\ Quiet \subseteq Procs
  BY WorkersAssumption DEF Size
<1>2. IsFiniteSet(1..Size)
  BY <1>1, FS_Interval
<1>3. QED
  BY <1>1, <1>2

\* The parent's loops take the first of a set that has one.
LEMMA FirstIsIn ==
    ASSUME NEW S, S \subseteq Procs, S # {}
    PROVE  First(S) \in S
<1>1. PICK x \in S : \A y \in S : ~ (<<y, x>> \in OpToRel(<, Nat))
  BY ProcsAre, WFMin, NatLessThanWellFounded
<1>2. OpToRel(<, Nat) = {ss \in Nat \X Nat : ss[1] < ss[2]}
  BY Zenon DEF OpToRel
<1>3. \A y \in S : ~ (<<y, x>> \in {ss \in Nat \X Nat : ss[1] < ss[2]})
  BY <1>1, <1>2, Zenon
<1>4. ASSUME NEW y \in S, y < x PROVE FALSE
  <2>1. <<y, x>> \in Nat \X Nat /\ <<y, x>>[1] < <<y, x>>[2]
    BY <1>4, ProcsAre
  <2>2. QED
    BY <1>3, <2>1, Zenon
<1>5. \A y \in S : x <= y
  BY <1>4, ProcsAre
<1>6. QED
  BY <1>5 DEF First

LEMMA SuiteAtFirst == LessonInit => SuiteInv /\ EvalInv
<1> SUFFICES ASSUME LessonInit PROVE SuiteInv /\ EvalInv
  OBVIOUS
<1> USE DEF LessonInit, ArmInit, WorkersInit
<1>1. OneAtATime /\ StopsAreAsked
  BY DEF OneAtATime, AliveIn, Alive, Running, StopsAreAsked
<1>2. InTurn
  BY ProcsAre DEF InTurn
<1>3. FilesAgree
  BY DEF FilesAgree, FilesOf
<1>4. DoneIsListed /\ ListsAreKept
  <2>1. Of(<<>>) = {} /\ InOrder(<<>>) /\ <<>> \in Lists
    BY DEF Of, InOrder, Lists
  <2>2. {p \in Procs \ Quiet : p < cur \/ (p = cur /\ parentPc = "after")} = {}
    BY ProcsAre
  <2>3. QED
    BY <2>1, <2>2 DEF DoneIsListed, ListsAreKept, Over
<1>5. EvalInv
  BY DEF EvalInv, PoolIdle, ArmsAreShared, PoolBounds, ResultInv, E!PoolInit
<1>6. QED
  BY <1>1, <1>2, <1>3, <1>4, <1>5 DEF SuiteInv

-----------------------------------------------------------------------------
(***************************************************************************)
(* The suite's steps.                                                      *)
(***************************************************************************)
\* What the files say is not touched.
LEMMA FilesKept ==
    ASSUME FilesAgree, UNCHANGED workerVars, stopFile \subseteq stopFile', kind' = kind
    PROVE  FilesAgree'
BY DEF FilesAgree, FilesOf, workerVars

LEMMA ListsKept ==
    ASSUME ListsAreKept, UNCHANGED <<done, saved>>, DOMAIN result \subseteq DOMAIN result'
    PROVE  ListsAreKept'
BY DEF ListsAreKept

\* The parent goes from place to place of its wait.
LEMMA PlacesKept ==
    ASSUME UNCHANGED <<workerVars, kind, suiteVars, stopped>>, stopFile \subseteq stopFile',
           SuiteInv, kind = "arms",
           parentPc \notin Over, parentPc \notin {"after", "spawn"}, parentPc' \notin {"after", "spawn"},
           state' # "done", OneAtATime', StopsAreAsked'
    PROVE  SuiteInv'
<1> USE DEF SuiteInv, workerVars, suiteVars
<1>1. FilesAgree'
  BY FilesKept
<1>2. ListsAreKept'
  BY ListsKept
<1>3. InTurn'
  BY DEF InTurn
<1>4. DoneIsListed'
  BY DEF DoneIsListed
<1>5. QED
  BY <1>1, <1>2, <1>3, <1>4

LEMMA WaitKeepsSuite ==
    ASSUME SuiteInv, kind = "arms", kind' = kind,
           WaitStep(<<>>), UNCHANGED <<workerVars, asked, suiteVars>>
    PROVE  SuiteInv'
<1>1. /\ parentPc \notin Over /\ parentPc \notin {"after", "spawn"}
      /\ parentPc' \notin Over /\ parentPc' \notin {"after", "spawn"}
      /\ state' \in {state, "paused", "running"} /\ told' = told /\ waiting' = waiting
  BY DEF WaitStep, Wait, Drain, DrainEnds, Poll, Resume, ObeyStop, TouchStop, Over
<1>2. state # "done" /\ state' # "done"
  BY <1>1 DEF SuiteInv, DoneIsListed
<1>3. /\ parentPc' \in {"last", "judge"} => AliveIn({})
      /\ parentPc' \in {"wait", "drain", "poll", "held", "touch"} => AliveIn(waiting)
  <2> USE DEF SuiteInv, OneAtATime
  <2>1. CASE Wait
    BY <2>1 DEF Wait, AliveIn
  <2>2. CASE Drain \/ DrainEnds(<<>>)
    BY <2>2 DEF Drain, DrainEnds, AliveIn
  <2>3. CASE Poll \/ Resume \/ TouchStop
    BY <2>3 DEF Poll, Resume, ObeyStop, TouchStop
  <2>4. QED
    BY <2>1, <2>2, <2>3 DEF WaitStep
<1>4. OneAtATime'
  BY <1>1, <1>3 DEF OneAtATime, AliveIn, Alive, workerVars, Over
<1>5. StopsAreAsked' /\ stopFile \subseteq stopFile'
  BY DEF SuiteInv, StopsAreAsked, WaitStep, Wait, Drain, DrainEnds, Poll, Resume, ObeyStop, TouchStop
<1>6. FilesAgree'
  BY <1>5, FilesKept DEF SuiteInv
<1>7. ListsAreKept'
  BY ListsKept DEF SuiteInv, suiteVars, workerVars
<1>8. InTurn'
  BY <1>1 DEF SuiteInv, InTurn, workerVars, suiteVars
<1>9. DoneIsListed'
  BY <1>1, <1>2 DEF SuiteInv, DoneIsListed, suiteVars
<1>10. QED
  BY <1>4, <1>5, <1>6, <1>7, <1>8, <1>9 DEF SuiteInv

LEMMA SpawnKeepsSuite ==
    ASSUME SuiteInv, Machines, kind = "arms", kind' = kind, Spawn
    PROVE  SuiteInv'
<1> USE DEF SuiteInv
<1>1. /\ worker[cur] = "none" /\ cur \in Procs /\ worker' = [worker EXCEPT ![cur] = "row"]
      /\ parentPc = "spawn" /\ parentPc' = "wait" /\ waiting' = {cur} /\ worker \in [Procs -> Places]
      /\ UNCHANGED <<trained, model, result, grace, stopFile, stopped, state, cur, done, saved>>
  BY DEF Spawn, InTurn, Machines, suiteVars
<1>2. OneAtATime'
  BY <1>1 DEF OneAtATime, AliveIn, Alive, Running, Places
<1>3. InTurn' /\ StopsAreAsked' /\ DoneIsListed'
  <2>1. \A p \in Procs : p > cur => p # cur /\ worker[p] = "none"
    BY <1>1, ProcsAre DEF InTurn
  <2>2. InTurn'
    BY <1>1, <2>1 DEF InTurn
  <2>3. StopsAreAsked'
    BY <1>1 DEF StopsAreAsked
  <2>4. DoneIsListed'
    BY <1>1 DEF DoneIsListed, Over, Of
  <2>5. QED
    BY <2>2, <2>3, <2>4
<1>4. ASSUME NEW p \in Procs PROVE FilesOf(p)'
  BY <1>1 DEF FilesAgree, FilesOf
<1>5. ListsAreKept'
  BY <1>1, ListsKept
<1>6. QED
  BY <1>2, <1>3, <1>4, <1>5 DEF FilesAgree

\* What follows an arm or a probe that is over: the end of the suite, or the next.
LEMMA GoesOn ==
    ASSUME SuiteInv, kind = "arms", kind' = kind,
           UNCHANGED <<workerVars, stopFile, told, stopped, done, saved>>,
           parentPc \in {"judge", "after"},
           parentPc = "judge" => cur \in Quiet,
           \/ stopped /\ End("stopped") /\ UNCHANGED cur
           \/ ~stopped /\ cur < Size /\ NextOne
           \/ ~stopped /\ ~(cur < Size) /\ End("done") /\ UNCHANGED cur
    PROVE  SuiteInv'
<1> USE DEF SuiteInv, workerVars
<1>1. AliveIn({}) /\ AliveIn({})'
  BY DEF OneAtATime, AliveIn, Alive
<1>2. FilesAgree' /\ ListsAreKept'
  BY FilesKept, ListsKept
<1>3. cur \in Procs /\ Of(done) = {p \in Procs \ Quiet : p <= cur}
  <2>1. cur \in Procs /\ Of(done) = {p \in Procs \ Quiet : p < cur \/ (p = cur /\ parentPc = "after")}
    BY DEF InTurn, DoneIsListed, Over
  <2>2. QED
    BY <2>1, ProcsAre
<1>4. CASE End("stopped") /\ UNCHANGED cur /\ stopped
  BY <1>1, <1>2, <1>4 DEF End, OneAtATime, AliveIn, InTurn, StopsAreAsked, DoneIsListed, Over
<1>5. CASE ~stopped /\ ~(cur < Size) /\ End("done") /\ UNCHANGED cur
  <2>1. Of(done) = Procs \ Quiet
    BY <1>3, <1>5, ProcsAre
  <2>2. QED
    BY <1>1, <1>2, <1>5, <2>1
       DEF End, OneAtATime, AliveIn, InTurn, StopsAreAsked, DoneIsListed, Over, Of
<1>6. CASE ~stopped /\ cur < Size /\ NextOne
  <2>1. cur' = cur + 1 /\ parentPc' = "spawn" /\ state' = state /\ cur' \in Procs
    BY <1>3, <1>6, ProcsAre DEF NextOne
  <2>2. OneAtATime' /\ StopsAreAsked'
    BY <1>1, <1>6, <2>1 DEF OneAtATime, StopsAreAsked
  <2>3. InTurn'
    BY <1>3, <2>1, ProcsAre DEF InTurn
  <2>4. {p \in Procs \ Quiet : p <= cur} = {p \in Procs \ Quiet : p < cur + 1}
    BY <1>3, ProcsAre
  <2>5. DoneIsListed'
    BY <1>3, <2>1, <2>4 DEF DoneIsListed, Over, Of
  <2>6. QED
    BY <1>2, <2>2, <2>3, <2>5
<1>7. QED
  BY <1>4, <1>5, <1>6

\* The arm that ended well is the last and the greatest of the payload.
LEMMA AppendsInOrder ==
    ASSUME NEW s \in Lists, NEW p \in Procs \ Quiet, \A x \in Of(s) : x < p
    PROVE  Append(s, p) \in Lists /\ Of(Append(s, p)) = Of(s) \cup {p}
<1>1. s \in Seq(Procs \ Quiet) /\ InOrder(s) /\ Append(s, p) \in Seq(Procs \ Quiet)
  BY DEF Lists
<1>2. /\ Len(Append(s, p)) = Len(s) + 1 /\ Len(s) \in Nat
      /\ \A i \in 1..Len(s) : Append(s, p)[i] = s[i]
      /\ Append(s, p)[Len(s) + 1] = p
  BY <1>1
<1>3. DOMAIN s = 1..Len(s) /\ DOMAIN Append(s, p) = 1..(Len(s) + 1)
  BY <1>1, <1>2
<1>4. InOrder(Append(s, p))
  BY <1>1, <1>2, <1>3 DEF InOrder, Of
<1>5. Of(Append(s, p)) = Of(s) \cup {p}
  BY <1>2, <1>3 DEF Of
<1>6. QED
  BY <1>1, <1>4, <1>5 DEF Lists

LEMMA TrainedIsListed ==
    ASSUME SuiteInv, kind = "arms", kind' = kind, parentPc = "judge", JudgeTrained,
           UNCHANGED <<workerVars, stopFile, told, stopped>>
    PROVE  SuiteInv'
<1> USE DEF SuiteInv, workerVars
<1>1. /\ cur \in Procs \ Quiet /\ cur \in DOMAIN result
      /\ done' = Append(done, cur) /\ saved' = Append(saved, done')
      /\ parentPc' = "after" /\ UNCHANGED <<cur, state>>
  BY DEF JudgeTrained, InTurn
<1>2. Of(done) = {p \in Procs \ Quiet : p < cur} /\ state # "done"
  BY <1>1 DEF DoneIsListed, Over
<1>3. done' \in Lists /\ Of(done') = Of(done) \cup {cur}
  BY <1>1, <1>2, AppendsInOrder DEF ListsAreKept
<1>4. OneAtATime' /\ InTurn' /\ StopsAreAsked'
  BY <1>1 DEF OneAtATime, AliveIn, Alive, InTurn, StopsAreAsked
<1>5. {p \in Procs \ Quiet : p < cur} \cup {cur} = {p \in Procs \ Quiet : p < cur \/ p = cur}
  BY <1>1
<1>6. DoneIsListed'
  BY <1>1, <1>2, <1>3, <1>5 DEF DoneIsListed, Of
<1>7. ListsAreKept'
  <2>1. saved \in Seq(Lists) /\ Of(done) \subseteq DOMAIN result
    BY DEF ListsAreKept
  <2>2. /\ saved' \in Seq(Lists) /\ saved' # <<>> /\ saved'[Len(saved')] = done'
        /\ \A i \in DOMAIN saved' : (i \in DOMAIN saved /\ saved'[i] = saved[i]) \/ saved'[i] = done'
    <3> HIDE DEF SuiteInv, workerVars
    <3>1. PICK d \in Lists : d = done'
      BY <1>3
    <3>2. saved' = Append(saved, d)
      BY <1>1, <3>1
    <3>3. /\ saved' \in Seq(Lists) /\ Len(saved') = Len(saved) + 1 /\ Len(saved) \in Nat
          /\ \A i \in 1..Len(saved) : saved'[i] = saved[i]
          /\ saved'[Len(saved) + 1] = d
          /\ DOMAIN saved = 1..Len(saved) /\ DOMAIN saved' = 1..Len(saved')
      BY <2>1, <3>2
    <3>4. saved' # <<>>
      BY <3>3
    <3>5. QED
      BY <3>1, <3>3, <3>4
  <2>3. Of(done') \subseteq DOMAIN result
    BY <1>1, <1>3, <2>1
  <2>4. \A i \in DOMAIN saved' : Of(saved'[i]) \subseteq DOMAIN result
    BY <2>2, <2>3 DEF ListsAreKept, Of
  <2>5. QED
    BY <1>1, <1>3, <2>2, <2>3, <2>4 DEF ListsAreKept, Of
<1>8. FilesAgree'
  BY FilesKept
<1>9. QED
  BY <1>4, <1>6, <1>7, <1>8

\* A worker's own step: it runs before, and its files agree after.
LEMMA WorkerKeepsFiles ==
    ASSUME SuiteInv, Machines, kind = "arms", kind' = kind, stopFile' = stopFile,
           NEW p \in Procs, WorkerStep(p)
    PROVE  /\ FilesAgree' /\ DOMAIN result \subseteq DOMAIN result'
           /\ Alive(p) /\ \A q \in Procs : q # p => worker'[q] = worker[q]
<1> USE DEF SuiteInv
<1>1. worker \in [Procs -> Places] /\ trained \in [Procs -> Nat] /\ TrainSteps \in Nat
  BY WorkersAssumption DEF Machines
<1>2. ASSUME NEW to \in Places, worker' = [worker EXCEPT ![p] = to], Alive(p),
             UNCHANGED <<trained, model, result>>,
             to \notin {"result", "ok"},
             to = "save" => p \in stopFile \/ trained[p] = TrainSteps
      PROVE  FilesAgree'
  <2>1. ASSUME NEW q \in Procs PROVE FilesOf(q)'
    BY <1>1, <1>2 DEF FilesAgree, FilesOf, Alive, Running
  <2>2. QED
    BY <2>1 DEF FilesAgree
<1>3. CASE StepLora(p)
  <2>1. PICK to \in {"row", "run"} :
           /\ worker[p] = "run" /\ worker' = [worker EXCEPT ![p] = to]
           /\ trained' = [trained EXCEPT ![p] = trained[p] + 1] /\ UNCHANGED <<model, result>>
    BY <1>3, Zenon DEF StepLora, Train, Moves
  <2>2. ASSUME NEW q \in Procs PROVE FilesOf(q)'
    BY <1>1, <2>1 DEF FilesAgree, FilesOf
  <2>3. QED
    BY <1>1, <2>1, <2>2 DEF FilesAgree, Alive, Running
<1>4. CASE Row(p) \/ CheckStop(p)
  <2>1. PICK to \in {"run", "check", "save"} :
           /\ worker' = [worker EXCEPT ![p] = to]
           /\ to = "save" => p \in stopFile \/ trained[p] = TrainSteps
    BY <1>4, Zenon DEF Row, CheckStop, RowEnds, Moves
  <2>2. Alive(p) /\ UNCHANGED <<trained, model, result>> /\ to \in Places
    BY <1>4, <2>1 DEF Row, CheckStop, RowEnds, Moves, Alive, Running, Places
  <2>3. QED
    BY <1>1, <1>2, <2>1, <2>2
<1>5. CASE SaveAdapter(p)
  <2>1. /\ worker[p] = "save" /\ worker' = [worker EXCEPT ![p] = "result"]
        /\ model' = With(model, p, trained[p]) /\ UNCHANGED <<trained, result>>
    BY <1>5 DEF SaveAdapter, SaveModel, Moves
  <2>2. p \notin DOMAIN result
    BY <2>1 DEF FilesAgree, FilesOf
  <2>3. /\ DOMAIN model' = DOMAIN model \cup {p} /\ model'[p] = trained[p]
        /\ \A q \in DOMAIN model : q # p => model'[q] = model[q]
    BY <2>1 DEF With
  <2>4. ASSUME NEW q \in Procs PROVE FilesOf(q)'
    BY <1>1, <2>1, <2>2, <2>3 DEF FilesAgree, FilesOf
  <2>5. QED
    BY <1>1, <2>1, <2>4 DEF FilesAgree, Alive, Running
<1>6. CASE SaveResult(p)
  <2>1. /\ worker[p] = "result" /\ worker' = [worker EXCEPT ![p] = "ok"]
        /\ result' = With(result, p, trained[p]) /\ UNCHANGED <<trained, model>>
    BY <1>6 DEF SaveResult, Moves
  <2>2. /\ DOMAIN result' = DOMAIN result \cup {p} /\ result'[p] = trained[p]
        /\ \A q \in DOMAIN result : q # p => result'[q] = result[q]
    BY <2>1 DEF With
  <2>3. ASSUME NEW q \in Procs PROVE FilesOf(q)'
    BY <1>1, <2>1, <2>2 DEF FilesAgree, FilesOf
  <2>4. QED
    BY <1>1, <2>1, <2>2, <2>3 DEF FilesAgree, Alive, Running
<1>7. CASE ProbeEnds(p)
  <2>1. /\ worker[p] = "row" /\ worker' = [worker EXCEPT ![p] = "ok"] /\ p \in Quiet
        /\ UNCHANGED <<trained, model, result>>
    BY <1>7 DEF ProbeEnds, Moves
  <2>2. ASSUME NEW q \in Procs PROVE FilesOf(q)'
    BY <1>1, <2>1 DEF FilesAgree, FilesOf
  <2>3. QED
    BY <1>1, <2>1, <2>2 DEF FilesAgree, Alive, Running
<1>8. QED
  BY <1>3, <1>4, <1>5, <1>6, <1>7 DEF WorkerStep

\* Whoever stops running or goes on running was running before.
LEMMA OneMoves ==
    ASSUME SuiteInv, kind = "arms", kind' = kind, NEW p \in Procs, Alive(p),
           \A q \in Procs : q # p => worker'[q] = worker[q],
           UNCHANGED <<stopFile, told, parentPc, parentVars, suiteVars>>,
           DOMAIN result \subseteq DOMAIN result', FilesAgree'
    PROVE  SuiteInv'
<1> USE DEF SuiteInv, parentVars, suiteVars
<1>1. worker[p] # "none" /\ \A q \in Procs : Alive(q)' => Alive(q)
  BY DEF Alive, Running
<1>2. OneAtATime'
  BY <1>1 DEF OneAtATime, AliveIn
<1>3. InTurn'
  BY <1>1 DEF InTurn
<1>4. StopsAreAsked' /\ DoneIsListed'
  BY DEF StopsAreAsked, DoneIsListed, Of
<1>5. ListsAreKept'
  BY ListsKept
<1>6. QED
  BY <1>2, <1>3, <1>4, <1>5

LEMMA DeathKeepsSuite ==
    ASSUME SuiteInv, Machines, kind = "arms", kind' = kind, NEW p \in Procs, Dies(p),
           UNCHANGED <<stopFile, told, parentPc, parentVars, asked, suiteVars>>
    PROVE  SuiteInv'
<1>1. /\ Alive(p) /\ worker' = [worker EXCEPT ![p] = "bad"] /\ worker \in [Procs -> Places]
      /\ UNCHANGED <<trained, model, result>>
  BY DEF Dies, Machines
<1>2. ASSUME NEW q \in Procs PROVE FilesOf(q)'
  BY <1>1 DEF SuiteInv, FilesAgree, FilesOf, Alive, Running
<1>3. FilesAgree' /\ \A q \in Procs : q # p => worker'[q] = worker[q]
  BY <1>1, <1>2 DEF FilesAgree
<1>4. QED
  BY <1>1, <1>3, OneMoves

\* The end of the suite when something fails, and the steps of its users.
LEMMA EndKeepsSuite ==
    ASSUME SuiteInv, kind = "arms", kind' = kind, parentPc \notin Over,
           UNCHANGED <<workerVars, stopFile, stopped, suiteVars>>,
           parentPc' \in Over, state' # "done", parentPc' = "ended" => AliveIn(told)'
    PROVE  SuiteInv'
<1> USE DEF SuiteInv, suiteVars, workerVars, Over
<1>1. OneAtATime' /\ InTurn'
  BY DEF OneAtATime, AliveIn, InTurn
<1>2. StopsAreAsked' /\ DoneIsListed'
  BY DEF StopsAreAsked, DoneIsListed
<1>3. FilesAgree' /\ ListsAreKept'
  BY FilesKept, ListsKept
<1>4. QED
  BY <1>1, <1>2, <1>3

LEMMA SuiteStep ==
    ASSUME SuiteInv, Machines, kind = "arms", kind' = kind, ArmNext
    PROVE  SuiteInv'
<1>1. CASE Spawn
  BY <1>1, SpawnKeepsSuite
<1>2. CASE Judge
  <2>1. parentPc = "judge" /\ UNCHANGED <<workerVars, stopFile, told, stopped>>
    BY <1>2 DEF Judge
  <2>2. CASE JudgeProbe
    BY <2>1, <2>2, GoesOn DEF JudgeProbe
  <2>3. CASE JudgeFailed
    <3>1. /\ parentPc' = "ended" /\ state' # "done" /\ UNCHANGED suiteVars
          /\ AliveIn(told)'
      BY <2>1, <2>3 DEF JudgeFailed, End, SuiteInv, OneAtATime, AliveIn, Alive, workerVars
    <3>2. QED
      BY <2>1, <3>1, EndKeepsSuite DEF Over
  <2>4. CASE JudgeTrained
    BY <2>1, <2>4, TrainedIsListed
  <2>5. QED
    BY <1>2, <2>2, <2>3, <2>4 DEF Judge
<1>3. CASE After
  BY <1>3, GoesOn DEF After
<1>4. CASE WaitStep(<<>>) /\ UNCHANGED <<workerVars, asked, suiteVars>>
  BY <1>4, WaitKeepsSuite
<1>5. ASSUME NEW p \in Procs, Worker(p) PROVE SuiteInv'
  <2>1. WorkerStep(p) /\ UNCHANGED <<stopFile, told, parentPc, parentVars, suiteVars>>
    BY <1>5 DEF Worker
  <2>2. /\ FilesAgree' /\ DOMAIN result \subseteq DOMAIN result'
        /\ Alive(p) /\ \A q \in Procs : q # p => worker'[q] = worker[q]
    BY <2>1, WorkerKeepsFiles
  <2>3. QED
    BY <2>1, <2>2, OneMoves
<1>6. ASSUME NEW p \in Procs, Dies(p),
             UNCHANGED <<stopFile, told, parentPc, parentVars, asked, suiteVars>>
      PROVE  SuiteInv'
  BY <1>6, DeathKeepsSuite
<1>7. CASE Raise
  BY <1>7, EndKeepsSuite DEF Raise, Over
<1>8. CASE WaitRaises /\ UNCHANGED <<workerVars, asked, suiteVars>>
  <2>1. AliveIn(told)'
    BY <1>8 DEF WaitRaises, SuiteInv, OneAtATime, AliveIn, Alive, workerVars
  <2>2. QED
    BY <1>8, <2>1, EndKeepsSuite DEF WaitRaises, Over
<1>9. CASE Command /\ UNCHANGED suiteVars
  <2>1. UNCHANGED <<workerVars, stopFile, told, parentPc, parentVars, suiteVars>>
    BY <1>9 DEF Command
  <2>2. OneAtATime' /\ InTurn' /\ StopsAreAsked' /\ DoneIsListed'
    BY <2>1 DEF SuiteInv, OneAtATime, AliveIn, Alive, InTurn, StopsAreAsked, DoneIsListed,
                Of, workerVars, parentVars, suiteVars
  <2>3. FilesAgree' /\ ListsAreKept'
    BY <2>1, FilesKept, ListsKept DEF SuiteInv, suiteVars, workerVars
  <2>4. QED
    BY <2>2, <2>3 DEF SuiteInv
<1>10. CASE ParentKilled /\ UNCHANGED suiteVars
  <2>1. parentPc \notin Over /\ state' # "done"
    BY <1>10 DEF ParentKilled, parentVars, Over, SuiteInv, DoneIsListed
  <2>2. QED
    BY <1>10, <2>1, EndKeepsSuite DEF ParentKilled, parentVars, Over
<1>11. QED
  BY <1>1, <1>2, <1>3, <1>4, <1>5, <1>6, <1>7, <1>8, <1>9, <1>10 DEF ArmNext, Parent

-----------------------------------------------------------------------------
(***************************************************************************)
(* The steps of an evaluation, over the files and lists the suite left.    *)
(***************************************************************************)
\* The suite's side of an evaluation's step: nothing moves but its parent.
LEMMA SuiteLeftAlone ==
    ASSUME SuiteInv, kind' = "evals", UNCHANGED <<model, result, cur, done, saved>>
    PROVE  SuiteInv'
<1> USE DEF SuiteInv
<1>1. OneAtATime' /\ InTurn' /\ StopsAreAsked' /\ DoneIsListed'
  BY DEF OneAtATime, InTurn, StopsAreAsked, DoneIsListed
<1>2. FilesAgree'
  BY DEF FilesAgree, FilesOf
<1>3. ListsAreKept'
  BY ListsKept
<1>4. QED
  BY <1>1, <1>2, <1>3

LEMMA EvaluationBegins ==
    ASSUME SuiteInv, EvalInv, EvaluationStarts
    PROVE  SuiteInv' /\ EvalInv'
<1>1. /\ kind = "arms" /\ kind' = "evals" /\ arms' = saved[Len(saved)] /\ pending' = arms'
      /\ saved # <<>> /\ waiting' = {} /\ todo' = {} /\ parentPc' = "spawn"
      /\ worker' = [p \in Procs |-> "none"]
      /\ UNCHANGED <<model, result, cur, done, saved, evs, video, written>>
  BY DEF EvaluationStarts, E!PoolStarts, E!others, suiteVars
<1>2. SuiteInv'
  BY <1>1, SuiteLeftAlone
<1>3. arms' \in Lists /\ Of(arms') \subseteq DOMAIN result /\ evs = {} /\ video = {} /\ ~written
      /\ written = FALSE
  BY <1>1 DEF SuiteInv, ListsAreKept, EvalInv, PoolIdle, Over
<1>4. AliveIn({})'
  BY <1>1 DEF AliveIn, Alive, Running
<1>5. ArmsAreShared'
  BY <1>1, <1>3, <1>4 DEF ArmsAreShared, AliveIn, Of
<1>6. PoolBounds'
  <2>1. Cardinality({}) = 0
    BY FS_EmptySet
  <2>2. QED
    BY <1>1, <2>1, ParAssumption DEF PoolBounds
<1>7. PoolIdle' /\ ResultInv'
  BY <1>1, <1>3 DEF PoolIdle, ResultInv
<1>8. QED
  BY <1>2, <1>5, <1>6, <1>7 DEF EvalInv

\* The first of a list in order is not in the rest of it.
LEMMA HeadGoes ==
    ASSUME NEW s \in Lists, s # <<>>
    PROVE  /\ Head(s) \in Procs /\ Tail(s) \in Lists
           /\ Of(s) = {Head(s)} \cup Of(Tail(s)) /\ Head(s) \notin Of(Tail(s))
<1>1. s \in Seq(Procs \ Quiet) /\ InOrder(s)
  BY DEF Lists
<1>2. /\ Len(s) \in Nat \ {0} /\ DOMAIN s = 1..Len(s)
      /\ Head(s) = s[1] /\ Head(s) \in Procs \ Quiet
      /\ Tail(s) \in Seq(Procs \ Quiet) /\ DOMAIN Tail(s) = 1..(Len(s) - 1)
      /\ \A i \in 1..(Len(s) - 1) : Tail(s)[i] = s[i + 1]
  BY <1>1
<1>3. InOrder(Tail(s))
  BY <1>1, <1>2 DEF InOrder
<1>4. \A i \in 1..(Len(s) - 1) : s[1] < s[i + 1] /\ s[i + 1] \in Nat /\ s[1] \in Nat
  BY <1>1, <1>2, ProcsAre DEF InOrder
<1>5. Head(s) \notin Of(Tail(s))
  BY <1>2, <1>4 DEF Of
<1>6. Of(s) = {Head(s)} \cup Of(Tail(s))
  <2>1. ASSUME NEW i \in 1..Len(s) PROVE s[i] \in {Head(s)} \cup Of(Tail(s))
    <3>1. CASE i = 1
      BY <1>2, <3>1
    <3>2. CASE i # 1
      <4>1. i - 1 \in 1..(Len(s) - 1) /\ Tail(s)[i - 1] = s[i]
        BY <1>2, <3>2
      <4>2. QED
        BY <1>2, <4>1 DEF Of
    <3>3. QED
      BY <3>1, <3>2
  <2>2. ASSUME NEW i \in 1..(Len(s) - 1) PROVE Tail(s)[i] \in Of(s)
    <3>1. i + 1 \in 1..Len(s)
      BY <1>2
    <3>2. QED
      BY <1>2, <3>1 DEF Of
  <2>3. Head(s) \in Of(s)
    BY <1>2 DEF Of
  <2>4. QED
    BY <1>2, <2>1, <2>2, <2>3 DEF Of
<1>7. QED
  BY <1>1, <1>2, <1>3, <1>5, <1>6 DEF Lists

LEMMA SpawnKeepsPool ==
    ASSUME EvalInv, Machines, kind = "evals", kind' = "evals", E!SpawnEval
    PROVE  EvalInv'
<1> DEFINE h == Head(pending)
<1>1. /\ pending # <<>> /\ worker' = [worker EXCEPT ![h] = "run"] /\ waiting' = waiting \cup {h}
      /\ pending' = Tail(pending) /\ parentPc = "spawn" /\ Cardinality(waiting) < Par
      /\ worker \in [Procs -> Places]
      /\ UNCHANGED <<parentPc, state, todo, told, arms, evs, video, written, result>>
  <2>1. /\ pending # <<>> /\ worker' = [worker EXCEPT ![h] = "run"] /\ waiting' = waiting \cup {h}
        /\ pending' = Tail(pending) /\ parentPc = "spawn"
    BY DEF E!SpawnEval
  <2>2. UNCHANGED <<parentPc, state, todo, told, arms, evs, video, written, result>>
    BY DEF E!SpawnEval, E!others
  <2>3. Cardinality(waiting) < Par
    <3>1. E!Free
      BY DEF E!SpawnEval
    <3>2. QED
      BY <3>1 DEF E!Free, E!Cardinality, Cardinality
  <2>4. QED
    BY <2>1, <2>2, <2>3 DEF Machines
<1>2. /\ h \in Procs /\ pending' \in Lists
      /\ Of(pending) = {h} \cup Of(pending') /\ h \notin Of(pending')
  BY <1>1, HeadGoes DEF EvalInv, ArmsAreShared
<1>3. /\ arms \in Lists /\ waiting \subseteq Procs
      /\ Of(arms) \subseteq DOMAIN result
      /\ Of(pending) \cup waiting \cup evs = Of(arms)
      /\ Of(pending) \cap (waiting \cup evs) = {}
      /\ AliveIn(waiting) /\ \A p \in evs : worker[p] = "ok"
  BY DEF EvalInv, ArmsAreShared
<1>4. ArmsAreShared'
  <2> HIDE DEF h
  <2>1. AliveIn(waiting)'
    BY <1>1, <1>2, <1>3 DEF AliveIn, Alive
  <2>2. \A p \in evs' : worker'[p] = "ok"
    BY <1>1, <1>2, <1>3
  <2>3. /\ Of(pending') \cup waiting' \cup evs' = Of(arms')
        /\ Of(pending') \cap (waiting' \cup evs') = {}
    BY <1>1, <1>2, <1>3
  <2>4. Of(arms') = Of(arms) /\ Of(arms') \subseteq DOMAIN result' /\ waiting' \subseteq Procs
    BY <1>1, <1>2, <1>3
  <2>5. QED
    BY <1>1, <1>2, <1>3, <2>1, <2>2, <2>3, <2>4 DEF ArmsAreShared, Of, AliveIn
<1>5. PoolBounds'
  <2>1. IsFiniteSet(waiting)
    BY <1>3, ProcsAre, FS_Subset
  <2> HIDE DEF h
  <2>2. Cardinality(waiting) \in Nat
    BY <2>1, FS_CardinalityType
  <2>3. Cardinality(waiting \cup {h}) = IF h \in waiting THEN Cardinality(waiting)
                                                      ELSE Cardinality(waiting) + 1
    BY <2>1, FS_AddElement
  <2> DEFINE n == Cardinality(waiting)
  <2>5. n \in Nat /\ n < Par
    BY <1>1, <2>2
  <2>6. n <= Par /\ n + 1 <= Par
    <3> HIDE DEF n
    <3>1. QED
      BY <2>5, ParAssumption
  <2>7. Cardinality(waiting') <= Par
    BY <1>1, <2>3, <2>6
  <2>8. QED
    BY <1>1, <2>7 DEF PoolBounds
<1>6. PoolIdle' /\ ResultInv'
  BY <1>1 DEF EvalInv, PoolIdle, ResultInv, Of
<1>7. QED
  BY <1>4, <1>5, <1>6 DEF EvalInv

LEMMA ArmsAreProcs == \A s \in Lists : Of(s) \subseteq Procs
<1> SUFFICES ASSUME NEW s \in Lists, NEW i \in DOMAIN s PROVE s[i] \in Procs
  BY DEF Of
<1>1. s \in Seq(Procs \ Quiet)
  BY DEF Lists
<1>2. QED
  BY <1>1

\* Workers only end, and nobody's share of the arms changes.
LEMMA SharesKept ==
    ASSUME EvalInv, kind = "evals", kind' = "evals",
           UNCHANGED <<arms, pending, evs, waiting, result>>,
           \A p \in Procs : worker'[p] = worker[p] \/ (Alive(p) /\ ~Alive(p)')
    PROVE  ArmsAreShared' /\ \A S : AliveIn(S) => \A p \in Procs : Alive(p)' => p \in S
<1>1. \A S : AliveIn(S) => \A p \in Procs : Alive(p)' => p \in S
  BY DEF AliveIn, Alive
<1>2. evs \subseteq Procs
  BY ArmsAreProcs DEF EvalInv, ArmsAreShared
<1>3. \A p \in evs : worker'[p] = "ok"
  BY <1>2 DEF EvalInv, ArmsAreShared, Alive, Running
<1>4. AliveIn(waiting)'
  BY <1>1 DEF EvalInv, ArmsAreShared, AliveIn
<1>5. ArmsAreShared'
  BY <1>3, <1>4 DEF EvalInv, ArmsAreShared, AliveIn, Of
<1>6. QED
  BY <1>1, <1>5

LEMMA SameNames ==
    /\ \A p : E!Alive(p) <=> Alive(p)
    /\ \A S : E!First(S) = First(S) /\ E!Cardinality(S) = Cardinality(S)
    /\ E!Arms = Of(arms)
    /\ \A S : S \subseteq Procs /\ S # {} => E!First(S) \in S
<1>1. \A p : E!Alive(p) <=> Alive(p)
  BY DEF E!Alive, E!Running, Alive, Running
<1>2. \A S : E!First(S) = First(S)
  BY DEF E!First, First
<1>3. \A S : E!Cardinality(S) = Cardinality(S)
  BY DEF E!Cardinality, Cardinality
<1>4. E!Arms = Of(arms)
  BY DEF E!Arms, Of
<1>5. QED
  BY <1>1, <1>2, <1>3, <1>4, FirstIsIn

LEMMA ReapKeepsPool ==
    ASSUME EvalInv, kind = "evals", kind' = "evals", E!Reap
    PROVE  EvalInv'
<1> DEFINE p == E!First(todo)
<1>1. /\ parentPc = "drain" /\ todo # {} /\ todo' = todo \ {p}
      /\ UNCHANGED <<worker, result, arms, pending, video, written>>
  BY DEF E!Reap, E!others
<1>2. /\ arms \in Lists /\ pending \in Lists /\ waiting \subseteq Procs
      /\ Of(arms) \subseteq DOMAIN result
      /\ Of(pending) \cup waiting \cup evs = Of(arms)
      /\ Of(pending) \cap (waiting \cup evs) = {}
      /\ AliveIn(waiting) /\ \A q \in evs : worker[q] = "ok"
      /\ todo \subseteq waiting /\ Cardinality(waiting) <= Par
      /\ written = FALSE /\ video \in {{}, Of(arms)}
  BY <1>1 DEF EvalInv, ArmsAreShared, PoolBounds, ResultInv
<1>3. p \in todo /\ p \in waiting
  BY <1>1, <1>2, SameNames
<1>4. PoolIdle' /\ ResultInv'
  BY <1>1, <1>2 DEF PoolIdle, ResultInv, Of
<1>5. \/ /\ UNCHANGED <<told, waiting, state, parentPc, evs>>
      \/ /\ worker[p] = "ok" /\ evs' = evs \cup {p} /\ waiting' = waiting \ {p}
         /\ UNCHANGED <<told, state, parentPc>>
      \/ /\ told' = told \cup {q \in waiting : Alive(q)} /\ parentPc' = "ended"
         /\ UNCHANGED <<waiting, evs>>
  <2>1. E!StillRuns(p) \/ E!Evaluated(p) \/ E!OneFailed(p)
    BY DEF E!Reap
  <2>2. QED
    BY <2>1, SameNames DEF E!StillRuns, E!Evaluated, E!OneFailed, E!End, E!Terminated
<1> HIDE DEF p
<1>6. CASE UNCHANGED <<told, waiting, state, parentPc, evs>>
  <2>1. ArmsAreShared'
    BY <1>1, <1>6, SharesKept
  <2>2. PoolBounds'
    BY <1>1, <1>2, <1>6 DEF PoolBounds
  <2>3. QED
    BY <1>4, <2>1, <2>2 DEF EvalInv
<1>7. CASE /\ worker[p] = "ok" /\ evs' = evs \cup {p} /\ waiting' = waiting \ {p}
           /\ UNCHANGED <<told, state, parentPc>>
  <2>1. AliveIn(waiting)'
    BY <1>1, <1>2, <1>7 DEF AliveIn, Alive, Running
  <2>2. ArmsAreShared'
    BY <1>1, <1>2, <1>3, <1>7, <2>1 DEF ArmsAreShared, Of
  <2>3. Cardinality(waiting') <= Par
    <3>1. IsFiniteSet(waiting)
      BY <1>2, ProcsAre, FS_Subset
    <3>2. Cardinality(waiting') = Cardinality(waiting) - 1 /\ Cardinality(waiting) \in Nat
      BY <1>3, <1>7, <3>1, FS_RemoveElement, FS_CardinalityType
    <3> DEFINE n == Cardinality(waiting)
    <3>3. n \in Nat /\ n <= Par /\ Cardinality(waiting') = n - 1
      BY <1>2, <3>2
    <3> HIDE DEF n
    <3>4. QED
      BY <3>3, ParAssumption
  <2>4. PoolBounds'
    BY <1>1, <1>2, <1>7, <2>3 DEF PoolBounds
  <2>5. QED
    BY <1>4, <2>2, <2>4 DEF EvalInv
<1>8. CASE /\ told' = told \cup {q \in waiting : Alive(q)} /\ parentPc' = "ended"
           /\ UNCHANGED <<waiting, evs>>
  <2>1. ArmsAreShared'
    BY <1>1, <1>8, SharesKept
  <2>2. AliveIn(told)'
    BY <1>1, <1>2, <1>8 DEF AliveIn, Alive
  <2>3. PoolBounds'
    BY <1>1, <1>2, <1>8, <2>2 DEF PoolBounds, Over
  <2>4. QED
    BY <1>4, <2>1, <2>3 DEF EvalInv
<1>9. QED
  BY <1>5, <1>6, <1>7, <1>8

\* Steps of the parent between its sleeps, at a stop, and for the video.
LEMMA ParentKeepsPool ==
    ASSUME EvalInv, kind = "evals", kind' = "evals",
           \/ E!Sleep \/ E!PollPool \/ E!RenderStarts \/ E!Render \/ E!PoolDone \/ E!SpawnRaises
    PROVE  EvalInv'
<1>1. UNCHANGED <<worker, waiting, result, arms, pending, evs>>
  <2>1. CASE E!Sleep \/ E!RenderStarts
    BY <2>1 DEF E!Sleep, E!RenderStarts, E!others, E!poolVars
  <2>2. CASE E!PollPool \/ E!SpawnRaises
    BY <2>2 DEF E!PollPool, E!SpawnRaises, E!others, E!poolVars
  <2>3. CASE E!Render \/ E!PoolDone
    BY <2>3 DEF E!Render, E!PoolDone, E!others
  <2>4. QED
    BY <2>1, <2>2, <2>3
<1>2. ArmsAreShared'
  BY <1>1, SharesKept
<1>3. AliveIn(waiting) /\ Cardinality(waiting) <= Par /\ Of(pending) \cup waiting \cup evs = Of(arms)
      /\ Of(<<>>) = {}
  BY DEF EvalInv, ArmsAreShared, PoolBounds, Of
<1>4. PoolBounds'
  <2>1. CASE E!Sleep \/ E!RenderStarts
    BY <1>1, <1>3, <2>1 DEF E!Sleep, E!RenderStarts, PoolBounds
  <2>2. CASE E!SpawnRaises
    BY <1>1, <1>3, <2>2 DEF E!SpawnRaises, PoolBounds, Over
  <2>3. CASE E!PollPool
    <3>1. CASE E!StopPool
      <4>1. told' = told \cup {q \in waiting : Alive(q)} /\ parentPc' = "ended"
        BY <3>1, SameNames DEF E!StopPool, E!End, E!Terminated
      <4>2. AliveIn(told)'
        BY <1>1, <1>3, <4>1 DEF AliveIn, Alive
      <4>3. QED
        BY <1>1, <1>3, <4>1, <4>2 DEF PoolBounds, Over
    <3>2. CASE ~E!StopPool
      <4>1. parentPc' \in {"held", "spawn"}
        BY <2>3, <3>2 DEF E!PollPool
      <4>2. QED
        BY <1>1, <1>3, <4>1 DEF PoolBounds
    <3>3. QED
      BY <3>1, <3>2
  <2>4. CASE E!Render
    <3>1. parentPc = "render" /\ parentPc' \in {"render", "judge"}
      BY <2>4 DEF E!Render
    <3>2. QED
      BY <1>1, <1>3, <3>1 DEF EvalInv, PoolBounds
  <2>5. CASE E!PoolDone
    <3>1. parentPc = "judge" /\ parentPc' = "ended"
      BY <2>5 DEF E!PoolDone, E!End
    <3>2. waiting = {} /\ AliveIn({})
      BY <1>3, <3>1 DEF EvalInv, PoolBounds
    <3>3. AliveIn(told)'
      BY <1>1, <3>2 DEF AliveIn, Alive
    <3>4. QED
      BY <1>1, <1>3, <3>1, <3>3 DEF PoolBounds, Over
  <2>6. QED
    BY <2>1, <2>2, <2>3, <2>4, <2>5
<1>5. ResultInv'
  <2>1. CASE E!PoolDone
    <3>1. /\ parentPc = "judge" /\ parentPc' = "ended" /\ written' = TRUE /\ state' = "done"
          /\ video' = video
      BY <2>1 DEF E!PoolDone, E!End
    <3>2. evs = Of(arms) /\ video \in {{}, Of(arms)}
      BY <1>3, <3>1 DEF EvalInv, PoolBounds, ResultInv
    <3>3. QED
      BY <1>1, <3>1, <3>2 DEF ResultInv, Of
  <2>2. CASE E!Render
    <3>1. parentPc = "render" /\ video' \in {video, Of(arms), {}} /\ written' = written
      BY <2>2, SameNames DEF E!Render
    <3>2. QED
      BY <1>1, <3>1 DEF EvalInv, ResultInv, Of
  <2>3. CASE E!Sleep \/ E!PollPool \/ E!RenderStarts \/ E!SpawnRaises
    <3>1. parentPc # "ended" /\ UNCHANGED <<video, written>>
      BY <2>3 DEF E!Sleep, E!PollPool, E!RenderStarts, E!SpawnRaises, E!poolVars
    <3>2. QED
      BY <1>1, <3>1 DEF EvalInv, ResultInv, Of
  <2>4. QED
    BY <2>1, <2>2, <2>3
<1>6. PoolIdle'
  BY DEF PoolIdle
<1>7. QED
  BY <1>2, <1>4, <1>5, <1>6 DEF EvalInv

\* A worker of the evaluation ends, a user asks, or the parent is killed.
LEMMA OutsideKeepsPool ==
    ASSUME EvalInv, kind = "evals", kind' = "evals",
           UNCHANGED <<arms, pending, evs, waiting, result, todo, told, state, video, written>>,
           \A p \in Procs : worker'[p] = worker[p] \/ (Alive(p) /\ ~Alive(p)'),
           parentPc' = parentPc \/ (parentPc # "ended" /\ parentPc' = "killed")
    PROVE  EvalInv'
<1>1. ArmsAreShared' /\ \A S : AliveIn(S) => \A p \in Procs : Alive(p)' => p \in S
  BY SharesKept
<1>2. AliveIn(told) => AliveIn(told)'
  BY <1>1 DEF AliveIn
<1>3. PoolBounds'
  BY <1>2 DEF EvalInv, PoolBounds, Over
<1>4. ResultInv' /\ PoolIdle'
  BY DEF EvalInv, ResultInv, PoolIdle, Of
<1>5. QED
  BY <1>1, <1>3, <1>4 DEF EvalInv

LEMMA EvaluationSteps ==
    ASSUME SuiteInv, EvalInv, Machines, Evaluating,
           \/ E!Pool \/ E!SpawnRaises
           \/ \E p \in Procs : E!EvalEnds(p)
           \/ /\ UNCHANGED evalVars
              /\ \/ \E p \in Procs : Dies(p) /\ UNCHANGED <<stopFile, told, parentPc, parentVars, asked>>
                 \/ Command \/ ParentKilled
    PROVE  SuiteInv' /\ EvalInv'
<1>1. kind = "evals" /\ kind' = "evals" /\ UNCHANGED <<cur, done, saved>>
  BY DEF Evaluating, suiteVars
<1>2. CASE E!Pool \/ E!SpawnRaises
  <2>1. UNCHANGED <<model, result>>
    BY <1>2 DEF E!Pool, E!SpawnEval, E!SpawnRaises, E!Sleep, E!Reap, E!PollPool,
                E!RenderStarts, E!Render, E!PoolDone, E!others
  <2>2. SuiteInv'
    BY <1>1, <2>1, SuiteLeftAlone
  <2>3. EvalInv'
    BY <1>1, <1>2, SpawnKeepsPool, ReapKeepsPool, ParentKeepsPool DEF E!Pool
  <2>4. QED
    BY <2>2, <2>3
<1>3. ASSUME NEW p \in Procs, E!EvalEnds(p) PROVE SuiteInv' /\ EvalInv'
  <2>1. /\ Alive(p) /\ worker' = [worker EXCEPT ![p] = "ok"] /\ worker \in [Procs -> Places]
        /\ UNCHANGED <<arms, pending, evs, waiting, model, result, todo, told, state, video,
                       written, parentPc>>
    BY <1>3, SameNames DEF E!EvalEnds, E!others, E!poolVars, Machines
  <2>2. \A q \in Procs : worker'[q] = worker[q] \/ (Alive(q) /\ ~Alive(q)')
    BY <2>1 DEF Alive, Running
  <2>3. QED
    BY <1>1, <2>1, <2>2, SuiteLeftAlone, OutsideKeepsPool
<1>4. ASSUME UNCHANGED evalVars, NEW p \in Procs, Dies(p),
             UNCHANGED <<stopFile, told, parentPc, parentVars, asked>>
      PROVE  SuiteInv' /\ EvalInv'
  <2>1. /\ Alive(p) /\ worker' = [worker EXCEPT ![p] = "bad"] /\ worker \in [Procs -> Places]
        /\ UNCHANGED <<arms, pending, evs, waiting, model, result, todo, told, state, video,
                       written, parentPc>>
    BY <1>4 DEF Dies, parentVars, evalVars, Machines
  <2>2. \A q \in Procs : worker'[q] = worker[q] \/ (Alive(q) /\ ~Alive(q)')
    BY <2>1 DEF Alive, Running
  <2>3. QED
    BY <1>1, <2>1, <2>2, SuiteLeftAlone, OutsideKeepsPool
<1>5. CASE UNCHANGED evalVars /\ (Command \/ ParentKilled)
  <2>1. /\ UNCHANGED <<arms, pending, evs, waiting, model, result, todo, told, state, video,
                       written, worker>>
        /\ parentPc' = parentPc \/ (parentPc # "ended" /\ parentPc' = "killed")
    BY <1>5 DEF Command, ParentKilled, parentVars, workerVars, evalVars
  <2>2. QED
    BY <1>1, <2>1, SuiteLeftAlone, OutsideKeepsPool
<1>6. QED
  BY <1>2, <1>3, <1>4, <1>5

WholeInv == LessonInv /\ SuiteInv /\ EvalInv

LEMMA WholeStep == WholeInv /\ [LessonNext]_lessonVars => WholeInv'
<1> SUFFICES ASSUME WholeInv, [LessonNext]_lessonVars PROVE SuiteInv' /\ EvalInv'
  BY LessonStep DEF WholeInv
<1>1. SuiteInv /\ EvalInv /\ Machines
  BY DEF WholeInv, LessonInv
<1>2. CASE Training /\ ArmNext
  <2>1. kind = "arms" /\ kind' = kind /\ UNCHANGED <<arms, pending, evs, video, written>>
    BY <1>2 DEF Training, evalVars
  <2>2. EvalInv'
    BY <1>1, <2>1 DEF EvalInv, PoolIdle, ArmsAreShared, PoolBounds, ResultInv
  <2>3. QED
    BY <1>1, <1>2, <2>1, <2>2, SuiteStep
<1>3. CASE EvaluationStarts
  BY <1>1, <1>3, EvaluationBegins
<1>4. ASSUME Evaluating,
             \/ E!Pool \/ E!SpawnRaises
             \/ \E p \in Procs : E!EvalEnds(p)
             \/ /\ UNCHANGED evalVars
                /\ \/ \E p \in Procs : Dies(p) /\ UNCHANGED <<stopFile, told, parentPc, parentVars, asked>>
                   \/ Command \/ ParentKilled
      PROVE  SuiteInv' /\ EvalInv'
  BY <1>1, <1>4, EvaluationSteps
<1>5. CASE UNCHANGED lessonVars
  <2>1. /\ UNCHANGED <<worker, trained, model, result, stopFile, told, parentPc, waiting, todo>>
        /\ UNCHANGED <<stopped, state, cur, done, saved, kind, arms, pending, evs, video, written>>
    BY <1>5 DEF lessonVars, armVars, workerVars, parentVars, suiteVars, evalVars
  <2>2. EvalInv'
    BY <1>1, <2>1 DEF EvalInv, PoolIdle, ArmsAreShared, PoolBounds, ResultInv, AliveIn, Alive, Of
  <2>3. FilesAgree' /\ ListsAreKept'
    BY <1>1, <2>1 DEF SuiteInv, FilesAgree, FilesOf, ListsAreKept
  <2>4. SuiteInv'
    BY <1>1, <2>1, <2>3 DEF SuiteInv, OneAtATime, AliveIn, Alive, InTurn, StopsAreAsked, DoneIsListed, Of
  <2>5. QED
    BY <2>2, <2>4
<1>6. QED
  BY <1>2, <1>3, <1>4, <1>5 DEF LessonNext

LEMMA WholeInvariance == LessonSpec => []WholeInv
<1>1. LessonInit => WholeInv
  BY LessonAtFirst, SuiteAtFirst DEF WholeInv
<1>2. QED
  BY <1>1, WholeStep, PTL DEF LessonSpec

(***************************************************************************)
(* An arm is listed once its worker has written its adapter and its result *)
(* from the same step, and nobody trains it again; a suite that ends as    *)
(* done has gone through all of them and saw no stop, so that each trained *)
(* all of its steps.                                                       *)
(***************************************************************************)
THEOREM ArmsStayThere == LessonSpec => []ArmsAreThere
<1>1. ASSUME WholeInv PROVE ArmsAreThere
  <2> USE <1>1 DEF WholeInv, SuiteInv
  <2>1. \A p \in Procs : p \in DOMAIN result => p \in DOMAIN model /\ model[p] = result[p]
    BY DEF FilesAgree, FilesOf
  <2>2. ASSUME NEW i \in DOMAIN saved, NEW k \in DOMAIN saved[i]
        PROVE  LET p == saved[i][k] IN
               p \in DOMAIN result /\ p \in DOMAIN model /\ model[p] = result[p]
    <3>1. saved[i] \in Lists /\ Of(saved[i]) \subseteq DOMAIN result
      BY DEF ListsAreKept
    <3>2. saved[i][k] \in Procs /\ saved[i][k] \in DOMAIN result
      BY <3>1, ArmsAreProcs DEF Of
    <3>3. QED
      BY <2>1, <3>2
  <2>3. ASSUME kind = "arms", state = "done", Procs # Quiet
        PROVE  /\ \A p \in Procs \ Quiet : p \in DOMAIN result /\ result[p] = TrainSteps
               /\ LET last == saved[Len(saved)] IN
                  {last[i] : i \in DOMAIN last} = Procs \ Quiet /\ InOrder(last)
    <3>1. Of(done) = Procs \ Quiet /\ stopFile = {} /\ Of(done) \subseteq DOMAIN result
      BY <2>3 DEF DoneIsListed, StopsAreAsked, ListsAreKept
    <3>2. \A p \in Procs \ Quiet : p \in DOMAIN result /\ result[p] = TrainSteps
      BY <2>3, <3>1 DEF FilesAgree, FilesOf
    <3>3. done # <<>> /\ done \in Lists
      <4>1. done \in Lists
        BY DEF ListsAreKept
      <4>2. Of(<<>>) = {}
        BY DEF Of
      <4>3. \E p \in Procs : p \notin Quiet
        <5>1. ASSUME Procs \subseteq Quiet PROVE FALSE
          BY <2>3, <5>1, ProcsAre, Zenon
        <5>2. QED
          BY <5>1
      <4>4. QED
        BY <3>1, <4>1, <4>2, <4>3
    <3>4. saved[Len(saved)] = done
      BY <3>3 DEF ListsAreKept
    <3>5. QED
      BY <3>1, <3>2, <3>3, <3>4 DEF Of, Lists
  <2>4. ASSUME NEW i \in DOMAIN arms
        PROVE  arms[i] \in DOMAIN model /\ model[arms[i]] = result[arms[i]]
    <3>1. kind = "evals"
      BY DEF LessonInv, Machines, EvalInv, PoolIdle
    <3>2. arms \in Lists /\ Of(arms) \subseteq DOMAIN result
      BY <3>1 DEF EvalInv, ArmsAreShared
    <3>3. arms[i] \in Procs /\ arms[i] \in DOMAIN result
      BY <3>2, ArmsAreProcs DEF Of
    <3>4. QED
      BY <2>1, <3>3
  <2>5. QED
    BY <2>2, <2>3, <2>4 DEF ArmsAreThere, SavedArmsAreThere
<1>2. QED
  BY <1>1, WholeInvariance, PTL

(***************************************************************************)
(* Each arm of an evaluation is pending, running or evaluated, so a result *)
(* that is written when nothing is pending or running has them all; who    *)
(* ends earlier has terminated the workers that still run and writes none. *)
(***************************************************************************)
THEOREM ResultStaysWhole == LessonSpec => []ResultIsWhole
<1>1. ASSUME WholeInv PROVE ResultIsWhole
  <2> USE <1>1 DEF WholeInv
  <2>1. NoWorkerLeft
    BY DEF LessonInv, Machines, SuiteInv, OneAtATime, EvalInv, PoolBounds, AliveIn, NoWorkerLeft
  <2>2. ASSUME kind = "evals" PROVE E!ResultIsWhole
    <3>1. /\ waiting \subseteq Procs /\ AliveIn(waiting) /\ \A p \in evs : worker[p] = "ok"
          /\ Cardinality(waiting) <= Par /\ video \in {{}, Of(arms)}
          /\ written => state = "done" /\ evs = Of(arms)
      BY <2>2 DEF EvalInv, ArmsAreShared, PoolBounds, ResultInv
    <3> DEFINE live == {p \in Procs : E!Alive(p)}
    <3>2. live \subseteq waiting
      BY <3>1, SameNames DEF AliveIn
    <3>3. IsFiniteSet(waiting)
      BY <3>1, ProcsAre, FS_Subset
    <3>4. Cardinality(live) <= Cardinality(waiting)
          /\ Cardinality(live) \in Nat /\ Cardinality(waiting) \in Nat
      BY <3>2, <3>3, FS_Subset, FS_CardinalityType
    <3> DEFINE n == Cardinality(live)
               m == Cardinality(waiting)
    <3>5. n <= m /\ n \in Nat /\ m \in Nat /\ m <= Par
      BY <3>1, <3>4
    <3>6. n <= Par
      <4> HIDE DEF n, m
      <4>1. QED
        BY <3>5, ParAssumption
    <3>7. E!Cardinality(live) <= Par
      BY <3>6, SameNames
    <3> HIDE DEF live
    <3>8. /\ written => evs = E!Arms /\ \A p \in E!Arms : worker[p] = "ok"
          /\ video \in {{}, E!Arms}
          /\ state \in {"stopped", "failed"} => ~written
      BY <3>1, SameNames
    <3>9. QED
      BY <3>7, <3>8 DEF E!ResultIsWhole, live
  <2>3. QED
    BY <2>1, <2>2 DEF ResultIsWhole
<1>2. QED
  BY <1>1, WholeInvariance, PTL
=============================================================================
