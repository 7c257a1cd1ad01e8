-------------------------- MODULE TrainLoopProofs --------------------------
(***************************************************************************)
(* Proofs about TrainLoop, for any number of phases and steps and any      *)
(* logging, evaluation and checkpoint intervals; and about the lessons,    *)
(* each in its process with an evaluation beside it (LessonEval), for any  *)
(* number of parts, demonstrations and losses: what they save is what they *)
(* trained and measured, and an evaluation reads what it was asked for.    *)
(***************************************************************************)
EXTENDS LessonEval, CkptDirProofs, SequenceTheorems

\* With a multiple of an interval, the step one interval later is one.
LEMMA NextMultiple ==
    ASSUME NEW m \in Nat, NEW E \in Nat \ {0}, m % E = 0 PROVE (m + E) % E = 0
<1>1. PICK q \in Int : m = E * q
  BY Z3
<1>2. PICK d \in Int, r \in 0..E - 1 : m + E = E * d + r /\ r = (m + E) % E
  BY Z3
<1>3. E * (q + 1 - d) = r /\ q + 1 - d \in Int
  BY <1>1, <1>2, Z3
<1>4. \A j \in Int : j >= 1 => E * j >= E
  BY Z3
<1>5. \A j \in Int : j <= -1 => E * j < 0
  BY Z3
<1>6. ~(q + 1 - d >= 1) /\ ~(q + 1 - d <= -1)
  BY <1>3, <1>4, <1>5
<1>7. QED
  BY <1>2, <1>3, <1>6

USE LoopAssumption DEF LoopAssumption

PhaseInv ==
    /\ phase \in Nat \ {0}
    /\ step \in Nat /\ step <= Steps

\* No row is ahead of the step the loop is at.
RowsInv ==
    /\ rows \in Seq(Nat)
    /\ \A i \in DOMAIN rows : rows[i] <= Here
    /\ StepsNeverGoBack

\* The loop is at none of its own steps while a save_ckpt call runs.
SaveInv == Saving => pc \in {"poll", "return", "dead"}

IInv == PhaseInv /\ RowsInv /\ SaveInv /\ CkptInv

(***************************************************************************)
(* The global step advances with the loop and never falls from a phase to  *)
(* the next.                                                               *)
(***************************************************************************)
LEMMA OffsetNat ==
    ASSUME NEW p \in Nat \ {0}
    PROVE  (p - 1) * Steps \in Nat /\ (p + 1 - 1) * Steps = (p - 1) * Steps + Steps
  OBVIOUS

LEMMA HereAdvances ==
    ASSUME PhaseInv, [Next]_vars
    PROVE  /\ PhaseInv'
           /\ Here \in Nat /\ Here' \in Nat
           /\ Here <= Here'
<1>1. CASE TrainStep
  <2>1. step' = step + 1 /\ phase' = phase /\ step' <= Steps
    BY <1>1 DEF TrainStep, PhaseInv
  <2>2. QED
    BY <2>1, OffsetNat DEF PhaseInv, Here, Offset
<1>2. CASE PhaseEnds
  <2>1. CASE phase' = phase + 1 /\ step' = 0
    BY <2>1, OffsetNat DEF PhaseInv, Here, Offset
  <2>2. CASE phase' = phase /\ step' = step
    BY <2>2, OffsetNat DEF PhaseInv, Here, Offset
  <2>3. QED
    BY <1>2, <2>1, <2>2 DEF PhaseEnds
<1>3. CASE ~TrainStep /\ ~PhaseEnds
  <2>1. phase' = phase /\ step' = step
    BY <1>3 DEF Next, AskStop, Report, Eval, Checkpoint, LoopEnds, FinalReport,
                FinalSave, ContinueSave, Killed, vars, loopVars
  <2>2. QED
    BY <2>1, OffsetNat DEF PhaseInv, Here, Offset
<1>4. QED
  BY <1>1, <1>2, <1>3

(***************************************************************************)
(* A row that no earlier one is ahead of keeps the rows in order.          *)
(***************************************************************************)
LEMMA AppendInOrder ==
    ASSUME NEW c \in Nat, NEW d \in Nat, c <= d,
           rows \in Seq(Nat), \A i \in DOMAIN rows : rows[i] <= c, StepsNeverGoBack,
           rows' = Append(rows, d)
    PROVE  rows' \in Seq(Nat) /\ StepsNeverGoBack' /\ \A i \in DOMAIN rows' : rows'[i] <= d
<1>1. /\ rows' \in Seq(Nat) /\ Len(rows') = Len(rows) + 1
      /\ rows'[Len(rows) + 1] = d
      /\ \A i \in DOMAIN rows : rows'[i] = rows[i] /\ rows[i] \in Nat
  OBVIOUS
<1>2. DOMAIN rows = 1..Len(rows) /\ DOMAIN rows' = 1..(Len(rows) + 1) /\ Len(rows) \in Nat
  BY <1>1
<1>3. \A i \in DOMAIN rows' : i \in DOMAIN rows \/ i = Len(rows) + 1
  BY <1>2
<1>4. \A i \in DOMAIN rows' : rows'[i] <= d
  BY <1>1, <1>3
<1>5. StepsNeverGoBack'
  <2> SUFFICES ASSUME NEW i \in DOMAIN rows', NEW k \in DOMAIN rows', i <= k
               PROVE  rows'[i] <= rows'[k]
    BY DEF StepsNeverGoBack
  <2>1. CASE k = Len(rows) + 1
    BY <2>1, <1>1, <1>4
  <2>2. CASE k \in DOMAIN rows
    <3>1. i \in DOMAIN rows
      BY <2>2, <1>2, <1>3
    <3>2. QED
      BY <2>2, <3>1, <1>1 DEF StepsNeverGoBack
  <2>3. QED
    BY <2>1, <2>2, <1>3
<1>6. QED
  BY <1>1, <1>4, <1>5

LEMMA RowsStep ==
    ASSUME PhaseInv, RowsInv, [Next]_vars PROVE RowsInv'
<1>1. /\ Here \in Nat /\ Here' \in Nat /\ Here <= Here'
  BY HereAdvances
<1>2. CASE rows' = rows
  <2>1. \A i \in DOMAIN rows : rows[i] \in Nat
    BY DEF RowsInv
  <2>2. QED
    BY <1>1, <1>2, <2>1 DEF RowsInv, StepsNeverGoBack
<1>3. CASE rows' = Append(rows, Here')
  BY <1>1, <1>3, AppendInOrder DEF RowsInv
<1>4. rows' = rows \/ rows' = Append(rows, Here')
  BY DEF Next, AskStop, TrainStep, Report, Eval, Checkpoint, LoopEnds,
         FinalReport, FinalSave, PhaseEnds, ContinueSave, Killed, vars,
         loopVars, Here, Offset
<1>5. QED
  BY <1>2, <1>3, <1>4

LEMMA CkptStep ==
    ASSUME IInv, [Next]_vars PROVE CkptInv' /\ SaveInv'
<1> USE DEF IInv
<1>1. CASE UNCHANGED ckptVars
  <2>1. CkptInv'
    BY <1>1 DEF ckptVars, CkptInv, CkptBase, SavingIsRecord, ListedIsWhole, Whole, Saving
  <2>2. pc' = pc \/ ~Saving \/ pc' = "dead"
    BY DEF Next, AskStop, TrainStep, Report, Eval, Checkpoint, LoopEnds,
           FinalReport, FinalSave, PhaseEnds, ContinueSave, Killed, vars,
           loopVars, SaveInv
  <2>3. QED
    BY <1>1, <2>1, <2>2 DEF ckptVars, SaveInv, Saving
<1>2. CASE ContinueSave
  <2>1. pc' = pc /\ Saving
    BY <1>2 DEF ContinueSave, loopVars, SaveStep, FileWritten, LastOpened,
                LastWritten, IndexWritten, Saving
  <2>2. CkptInv'
    BY <1>2, SaveStepInv DEF ContinueSave
  <2>3. QED
    BY <2>1, <2>2 DEF SaveInv
<1>3. ASSUME Save, pc \in {"ckpt", "save"}, pc' \in {"poll", "return"}
      PROVE  CkptInv' /\ SaveInv'
  <2>1. Here \in Nat
    BY HereAdvances
  <2>2. BeginSave(Here, "none", holder')
    BY <1>3 DEF Save
  <2>3. ~Saving
    BY <1>3 DEF SaveInv
  <2>4. QED
    BY <1>3, <2>1, <2>2, <2>3, BeginSaveInv DEF SaveInv
<1>4. QED
  BY <1>1, <1>2, <1>3
     DEF Next, AskStop, TrainStep, Report, Eval, Checkpoint, LoopEnds,
         FinalReport, FinalSave, PhaseEnds, Killed, vars

LEMMA InvInit == Init => IInv
<1> SUFFICES ASSUME Init PROVE IInv
  OBVIOUS
<1>1. CkptInv
  BY CkptInitInv DEF Init
<1>2. SaveInv
  BY DEF Init, SaveInv
<1>3. PhaseInv
  <2>1. Steps \in Nat
    OBVIOUS
  <2>2. phase = 1 /\ step = 0
    BY DEF Init
  <2>3. QED
    BY <2>1, <2>2 DEF PhaseInv
<1>4. RowsInv
  BY DEF Init, RowsInv, StepsNeverGoBack
<1>5. QED
  BY <1>1, <1>2, <1>3, <1>4 DEF IInv

(***************************************************************************)
(* The invariant of a task's train_loop calls, whenever it is stopped,     *)
(* ends or dies.                                                           *)
(***************************************************************************)
THEOREM Invariance == Spec => []IInv
<1>1. IInv /\ [Next]_vars => IInv'
  BY HereAdvances, RowsStep, CkptStep DEF IInv
<1>2. QED
  BY <1>1, InvInit, PTL DEF Spec

(***************************************************************************)
(* The global step of the metric rows stays monotonic across the phases.   *)
(***************************************************************************)
THEOREM RowsInOrder == Spec => []StepsNeverGoBack
<1>1. IInv => StepsNeverGoBack
  BY DEF IInv, RowsInv
<1>2. QED
  BY <1>1, Invariance, PTL

(***************************************************************************)
(* Whenever the process dies, the newest entry of each listed checkpoint   *)
(* file can be loaded and is the model it was listed for, except of a file *)
(* that was just being saved again.                                        *)
(***************************************************************************)
THEOREM ListedCheckpointsLoad == Spec => []ListedIsWhole
<1>1. IInv => ListedIsWhole
  BY DEF IInv, CkptInv
<1>2. QED
  BY <1>1, Invariance, PTL

-----------------------------------------------------------------------------
(***************************************************************************)
(* The lessons, each with an evaluation beside it.  First the models they  *)
(* save: when p parts are begun and the last of these has s steps.         *)
(***************************************************************************)
PartsAt(p, s) == [k \in 1..p |-> IF k < p THEN Steps ELSE s]
At(p, s) == (p - 1) * Steps + s

LEMMA PartsAreSeq ==
    ASSUME NEW p \in Nat, NEW s \in Nat
    PROVE  /\ PartsAt(p, s) \in Seq(Nat) /\ Len(PartsAt(p, s)) = p
           /\ DOMAIN PartsAt(p, s) = 1..p
           /\ \A k \in 1..p : PartsAt(p, s)[k] = IF k < p THEN Steps ELSE s
<1>1. PartsAt(p, s) \in [1..p -> Nat]
  BY DEF PartsAt
<1>2. PartsAt(p, s) \in Seq(Nat)
  BY <1>1
<1>3. QED
  BY <1>1, <1>2 DEF PartsAt

\* Two parts and steps with one name are the same, or one is the end of a part
\* and the other the start of the next.
LEMMA AtUnique ==
    ASSUME NEW p \in Nat \ {0}, NEW q \in Nat \ {0}, NEW s \in 0..Steps, NEW r \in 0..Steps,
           At(p, s) = At(q, r), p <= q
    PROVE  (p = q /\ s = r) \/ (q = p + 1 /\ s = Steps /\ r = 0)
<1> DEFINE d == q - p
<1>1. d \in Nat /\ (p - 1) * Steps + s = (p - 1 + d) * Steps + r
  BY DEF At
<1>2. (p - 1 + d) * Steps = (p - 1) * Steps + d * Steps
  BY <1>1, Z3
<1>3. (p - 1) * Steps \in Int /\ d * Steps \in Int
  BY <1>1, Z3
<1>4. s = d * Steps + r
  BY <1>1, <1>2, <1>3
<1>5. \A j \in Nat : j >= 2 => j * Steps >= Steps + Steps
  BY Z3
<1>6. d = 0 \/ d = 1
  BY <1>1, <1>3, <1>4, <1>5
<1>7. CASE d = 0
  BY <1>4, <1>7
<1>8. CASE d = 1
  BY <1>4, <1>8
<1>9. QED
  BY <1>6, <1>7, <1>8

(***************************************************************************)
(* The steps of a lesson that is not the force-token one: the actions of   *)
(* TrainLoop or those of a loop of its own, and the end of a part.         *)
(***************************************************************************)
PartEnds ==
    /\ parts \in 1..Phases
    /\ pc = "return" /\ ~Saving
    /\ IF completed = "all" /\ phase < parts
       THEN phase' = phase + 1 /\ step' = 0 /\ pc' = "poll" /\ completed' = "no"
       ELSE pc' = "ended" /\ UNCHANGED <<phase, step, completed>>
    /\ UNCHANGED <<control, rows, progress, holder, ckptVars>>

LoopAct ==
    \/ AskStop \/ TrainStep \/ Report \/ Eval \/ Checkpoint \/ LoopEnds
    \/ FinalReport \/ FinalSave \/ ContinueSave \/ Killed

HeadAct ==
    \/ AskStop \/ HeadStep \/ HeadReport \/ HeadStops \/ HeadSave \/ ContinueSave \/ Killed

LEMMA OneLoop ==
    ASSUME NEW n \in 1..Phases, n = parts
    PROVE  /\ Loop(n)!PhaseEnds => PartEnds
           /\ Loop(n)!Next => LoopAct \/ PartEnds
<1> USE DEF Loop!Saving, Saving, Loop!ckptVars, ckptVars, Loop!Offset, Offset, Loop!Here, Here
<1>1. Loop(n)!PhaseEnds => PartEnds
  BY DEF Loop!PhaseEnds, PartEnds
<1>2. \A f, x, v : Loop(n)!Put(f, x, v) = Put(f, x, v)
  BY DEF Loop!Put, Put
<1>3. Loop(n)!SaveStep => SaveStep
  BY <1>2 DEF Loop!SaveStep, SaveStep, Loop!FileWritten, FileWritten, Loop!LastOpened,
              LastOpened, Loop!LastWritten, LastWritten, Loop!IndexWritten, IndexWritten
<1>4. Loop(n)!Save => Save
  BY <1>2 DEF Loop!Save, Save, Loop!BeginSave, BeginSave
<1>5. /\ Loop(n)!AskStop => AskStop
      /\ Loop(n)!TrainStep => TrainStep
      /\ Loop(n)!Report => Report
      /\ Loop(n)!Eval => Eval
      /\ Loop(n)!LoopEnds => LoopEnds
      /\ Loop(n)!FinalReport => FinalReport
      /\ Loop(n)!Killed => Killed
  BY DEF Loop!AskStop, AskStop, Loop!TrainStep, TrainStep, Loop!Report, Report,
         Loop!Eval, Eval, Loop!LoopEnds, LoopEnds, Loop!FinalReport, FinalReport,
         Loop!Killed, Killed
<1>6. /\ Loop(n)!Checkpoint => Checkpoint
      /\ Loop(n)!FinalSave => FinalSave
      /\ Loop(n)!ContinueSave => ContinueSave
  BY <1>3, <1>4 DEF Loop!Checkpoint, Checkpoint, Loop!FinalSave, FinalSave,
              Loop!ContinueSave, ContinueSave, Loop!loopVars, loopVars
<1>7. QED
  BY <1>1, <1>5, <1>6 DEF Loop!Next, LoopAct

LEMMA LessonCases ==
    ASSUME LessonsNext
    PROVE  /\ pc # "failed" /\ UNCHANGED <<lesson, parts>>
           /\ \/ TooFewDemos
              \/ lesson \in Looped /\ (LoopAct \/ PartEnds)
                   /\ (lesson = "embeddings" => Score)
              \/ lesson \in Heads /\ (HeadAct \/ PartEnds)
<1>1. pc # "failed" /\ UNCHANGED <<lesson, parts>>
  BY DEF LessonsNext, choiceVars
<1>2. Calls => LoopAct \/ PartEnds
  BY OneLoop DEF Calls
<1>3. OwnLoop => HeadAct \/ PartEnds
  BY OneLoop DEF OwnLoop, HeadAct
<1>4. CASE BcMse \/ Flow \/ FlowBc \/ TaVla \/ Embeddings
  BY <1>1, <1>2, <1>4 DEF BcMse, Flow, FlowBc, TaVla, Embeddings, Looped, TwoParts
<1>5. CASE Tokenize \/ Attention \/ Vit \/ CrossAttn \/ FindDigit
  BY <1>1, <1>3, <1>5 DEF Tokenize, Attention, Vit, CrossAttn, FindDigit, Heads
<1>6. QED
  BY <1>1, <1>4, <1>5 DEF LessonsNext

-----------------------------------------------------------------------------
(***************************************************************************)
(* The loops of these lessons: where they are, what they have saved of the *)
(* earlier parts, and what is there when they return.                      *)
(***************************************************************************)
Token == lesson = "force-token"

PlaceInv ==
    /\ PhaseInv
    /\ lesson \in Looped \cup Heads \cup {"force-token"}
    /\ ~Token => parts \in PartsOf(lesson) /\ phase <= parts /\ phase <= Phases
    /\ Token => phase = 1

SaveAt == Saving => pc \in {"poll", "return", "dead", "failed"}

HolderInv ==
    \/ \E s \in 0..step : holder = PartsAt(phase, s)
    \/ holder = PartsAt(phase - 1, Steps)

FlowInv ==
    /\ completed = "all" => step = Steps
    /\ pc = "save" => progress = Here
    /\ pc = "save" /\ lesson \in Heads => step = Steps
    /\ pc \in {"final", "save"} /\ lesson \in Looped => (step = Steps <=> completed = "all")
    /\ pc = "return" => lesson \in Looped \/ completed = "all"

NewestIs(n, m) ==
    /\ saves \in DOMAIN index /\ Newest.step = n /\ Newest.model = m /\ Whole(Newest)
    /\ LastPt \in DOMAIN files /\ files[LastPt] = m

LastInv ==
    saving.at = "lasted" => LastPt \in DOMAIN files /\ files[LastPt] = saving.model

Returned == pc = "return" \/ (pc = "ended" /\ (lesson \in Looped \/ completed = "all"))

FinalInv ==
    Returned =>
        /\ progress = Here
        /\ holder = PartsAt(phase, step)
        /\ IF Saving
           THEN pc = "return" /\ saving.step = Here /\ saving.model = PartsAt(phase, step)
           ELSE NewestIs(Here, PartsAt(phase, step))
        /\ pc = "ended" /\ completed = "all" => phase = parts

LEMMA PartsPositive == ASSUME PlaceInv, ~Token PROVE parts \in Nat \ {0}
  BY DEF PlaceInv, PartsOf, Token, TwoParts

LEMMA SaveIsOfHere ==
    ASSUME PlaceInv, HolderInv, Save
    PROVE  holder' = PartsAt(phase, step) /\ BeginSave(Here, "none", PartsAt(phase, step))
<1>1. phase \in Nat /\ phase - 1 \in Nat /\ step \in Nat /\ Steps \in Nat
  BY DEF PlaceInv, PhaseInv
<1>2. /\ holder \in Seq(Nat) /\ Len(holder) >= phase - 1
      /\ \A k \in 1..phase - 1 : holder[k] = Steps
  <2>1. ASSUME NEW s \in 0..step, holder = PartsAt(phase, s) PROVE <1>2
    <3>1. /\ PartsAt(phase, s) \in Seq(Nat) /\ Len(PartsAt(phase, s)) = phase
          /\ \A k \in 1..phase : PartsAt(phase, s)[k] = IF k < phase THEN Steps ELSE s
      <4>1. s \in Nat
        BY <1>1
      <4>2. QED
        BY <1>1, <4>1, PartsAreSeq
    <3>2. \A k \in 1..phase - 1 : k \in 1..phase /\ k < phase
      BY <1>1
    <3>3. QED
      BY <1>1, <2>1, <3>1, <3>2
  <2>2. CASE holder = PartsAt(phase - 1, Steps)
    <3>1. /\ PartsAt(phase - 1, Steps) \in Seq(Nat) /\ Len(PartsAt(phase - 1, Steps)) = phase - 1
          /\ \A k \in 1..phase - 1 : PartsAt(phase - 1, Steps)[k] = Steps
      BY <1>1, PartsAreSeq
    <3>2. QED
      BY <1>1, <2>2, <3>1
  <2>3. QED
    BY <2>1, <2>2 DEF HolderInv
<1>3. /\ SubSeq(holder, 1, phase - 1) \in Seq(Nat) /\ Len(SubSeq(holder, 1, phase - 1)) = phase - 1
      /\ \A k \in 1..phase - 1 : SubSeq(holder, 1, phase - 1)[k] = Steps
  BY <1>1, <1>2
<1> DEFINE b == SubSeq(holder, 1, phase - 1)
<1> HIDE DEF b
<1>4. /\ Append(b, step) \in Seq(Nat) /\ Len(Append(b, step)) = phase
      /\ \A k \in 1..phase : Append(b, step)[k] = IF k < phase THEN Steps ELSE step
  BY <1>1, <1>3 DEF b
<1>5. /\ PartsAt(phase, step) \in Seq(Nat) /\ Len(PartsAt(phase, step)) = phase
      /\ \A k \in 1..phase : PartsAt(phase, step)[k] = IF k < phase THEN Steps ELSE step
  BY <1>1, PartsAreSeq
<1>6. Append(b, step) = PartsAt(phase, step)
  BY <1>4, <1>5, SeqEqual
<1>7. holder' = Append(b, step) /\ BeginSave(Here, "none", holder')
  BY DEF Save, b
<1>8. QED
  BY <1>6, <1>7

(***************************************************************************)
(* A step leaves the models alone, begins a save of the parts as they are, *)
(* or is a file operation of one.                                          *)
(***************************************************************************)
Begins ==
    /\ ~Saving /\ holder' = PartsAt(phase, step)
    /\ BeginSave(Here, "none", PartsAt(phase, step))
    /\ UNCHANGED <<phase, step, progress, rows>>
    /\ \/ pc = "ckpt" /\ pc' = "poll" /\ step < Steps /\ completed' = completed
       \/ pc = "save" /\ pc' = "return" /\ completed' = completed /\ lesson \in Looped
       \/ pc = "save" /\ pc' = "return" /\ completed' = "all" /\ lesson \in Heads

LEMMA LessonKinds ==
    ASSUME PlaceInv, SaveAt, HolderInv, LessonsNext
    PROVE  UNCHANGED <<holder, ckptVars>> \/ Begins \/ ContinueSave
<1>1. CASE UNCHANGED <<holder, ckptVars>>
  BY <1>1
<1>2. CASE Checkpoint /\ step < Steps /\ Save
  BY <1>2, SaveIsOfHere DEF Begins, Checkpoint, SaveAt
<1>3. CASE lesson \in Looped /\ FinalSave
  BY <1>3, SaveIsOfHere DEF Begins, FinalSave, SaveAt
<1>4. CASE lesson \in Heads /\ HeadSave
  BY <1>4, SaveIsOfHere DEF Begins, HeadSave, SaveAt
<1>5. QED
  BY <1>1, <1>2, <1>3, <1>4, LessonCases
  DEF TooFewDemos, LoopAct, HeadAct, AskStop, TrainStep, Report, Eval, Checkpoint, LoopEnds,
      FinalReport, FinalSave, Killed, PartEnds, HeadStep, HeadReport, HeadStops, HeadSave

\* How far a step takes the loop.
LEMMA LessonMoves ==
    ASSUME PlaceInv, ~Token, LessonsNext
    PROVE  /\ PlaceInv' /\ ~Token' /\ parts' = parts /\ lesson' = lesson
           /\ \/ phase' = phase /\ step' = step
              \/ phase' = phase /\ step' = step + 1 /\ pc = "poll" /\ step < Steps
                   /\ UNCHANGED <<completed, holder, ckptVars>> /\ pc' \in {"report", "eval", "poll"}
              \/ phase' = phase + 1 /\ step' = 0 /\ phase < parts /\ pc = "return"
                   /\ completed = "all" /\ UNCHANGED <<holder, ckptVars>> /\ pc' = "poll"
                   /\ completed' = "no"
<1>1. UNCHANGED <<lesson, parts>> /\ ~Token'
  BY LessonCases DEF Token
<1>2. \/ phase' = phase /\ step' = step
      \/ phase' = phase /\ step' = step + 1 /\ pc = "poll" /\ step < Steps
           /\ UNCHANGED <<completed, holder, ckptVars>> /\ pc' \in {"report", "eval", "poll"}
      \/ phase' = phase + 1 /\ step' = 0 /\ phase < parts /\ parts <= Phases /\ pc = "return"
           /\ completed = "all" /\ UNCHANGED <<holder, ckptVars>> /\ pc' = "poll"
           /\ completed' = "no"
  BY LessonCases
  DEF TooFewDemos, LoopAct, HeadAct, AskStop, TrainStep, Report, Eval, Checkpoint, LoopEnds,
      FinalReport, FinalSave, Killed, PartEnds, HeadStep, HeadReport, HeadStops, HeadSave,
      ContinueSave, loopVars
<1>3. parts \in Nat
  BY PartsPositive
<1>4. PlaceInv'
  BY <1>1, <1>2, <1>3 DEF PlaceInv, PhaseInv, Token
<1>5. QED
  BY <1>1, <1>2, <1>4

LEMMA HereIsNat == ASSUME PlaceInv PROVE Here \in Nat /\ Here = At(phase, step)
  BY OffsetNat DEF PlaceInv, PhaseInv, Here, Offset, At

(***************************************************************************)
(* What the lessons, the force-token one included, keep of the directory.  *)
(***************************************************************************)
LEMMA CkptSteps ==
    ASSUME CkptInv, LastInv,
           \/ UNCHANGED ckptVars
           \/ ~Saving /\ \E n \in Nat : \E l, m : BeginSave(n, l, m)
           \/ SaveStep
    PROVE  CkptInv' /\ LastInv'
<1>1. CASE UNCHANGED ckptVars
  BY <1>1 DEF ckptVars, CkptInv, CkptBase, SavingIsRecord, ListedIsWhole, Whole, Saving, LastInv
<1>2. CASE ~Saving /\ \E n \in Nat : \E l, m : BeginSave(n, l, m)
  <2>1. PICK n \in Nat : \E l, m : BeginSave(n, l, m)
    BY <1>2
  <2>2. PICK l, m : BeginSave(n, l, m)
    BY <2>1
  <2>3. CkptInv'
    BY <1>2, <2>2, BeginSaveInv
  <2>4. QED
    BY <2>2, <2>3 DEF BeginSave, LastInv
<1>3. CASE SaveStep
  <2>1. CkptInv'
    BY <1>3, SaveStepInv
  <2>2. LastInv'
    BY <1>3 DEF SaveStep, FileWritten, LastOpened, LastWritten, IndexWritten, LastInv, Put,
                CkptInv, CkptBase, SavingIsRecord
  <2>3. QED
    BY <2>1, <2>2
<1>4. QED
  BY <1>1, <1>2, <1>3

LEMMA LessonCkpt ==
    ASSUME PlaceInv, SaveAt, HolderInv, CkptInv, LastInv, ~Token, LessonsNext
    PROVE  CkptInv' /\ LastInv' /\ SaveAt'
<1>1. CkptInv' /\ LastInv'
  <2>1. \/ UNCHANGED ckptVars
        \/ ~Saving /\ \E n \in Nat : \E l, m : BeginSave(n, l, m)
        \/ SaveStep
    BY LessonKinds, HereIsNat DEF Begins, ContinueSave
  <2>2. QED
    BY <2>1, CkptSteps
<1>2. SaveAt'
  <2>1. CASE Begins
    BY <2>1 DEF Begins, SaveAt
  <2>2. CASE ContinueSave
    <3>1. Saving /\ pc' = pc
      BY <2>2 DEF ContinueSave, loopVars, SaveStep, FileWritten, LastOpened, LastWritten,
                  IndexWritten, Saving
    <3>2. QED
      BY <3>1 DEF SaveAt
  <2>3. CASE UNCHANGED <<holder, ckptVars>>
    <3>1. ~Saving \/ pc' = pc \/ pc' \in {"dead", "failed"}
      BY LessonCases
      DEF TooFewDemos, LoopAct, HeadAct, AskStop, TrainStep, Report, Eval, Checkpoint, LoopEnds,
          FinalReport, FinalSave, Killed, PartEnds, HeadStep, HeadReport, HeadStops, HeadSave,
          ContinueSave, loopVars, SaveAt
    <3>2. Saving' = Saving
      BY <2>3 DEF ckptVars, Saving
    <3>3. QED
      BY <3>1, <3>2 DEF SaveAt
  <2>4. QED
    BY <2>1, <2>2, <2>3, LessonKinds
<1>3. QED
  BY <1>1, <1>2

LEMMA LessonHolder ==
    ASSUME PlaceInv, SaveAt, HolderInv, FlowInv, FinalInv, ~Token, LessonsNext
    PROVE  HolderInv'
<1>1. CASE Begins
  BY <1>1 DEF Begins, HolderInv, PlaceInv, PhaseInv
<1>2. CASE ~Begins
  <2>1. holder' = holder
    BY <1>2, LessonKinds DEF ContinueSave, loopVars
  <2>2. CASE phase' = phase /\ (step' = step \/ step' = step + 1)
    BY <2>1, <2>2 DEF HolderInv, PlaceInv, PhaseInv
  <2>3. CASE phase' = phase + 1 /\ pc = "return" /\ completed = "all"
    <3>1. holder = PartsAt(phase, Steps)
      BY <2>3 DEF FinalInv, Returned, FlowInv
    <3>2. phase' - 1 = phase
      BY <2>3 DEF PlaceInv, PhaseInv
    <3>3. QED
      BY <2>1, <3>1, <3>2 DEF HolderInv
  <2>4. QED
    BY <2>2, <2>3, LessonMoves
<1>3. QED
  BY <1>1, <1>2

LEMMA LessonFlow ==
    ASSUME PlaceInv, FlowInv, ~Token, LessonsNext
    PROVE  FlowInv'
<1>1. lesson' = lesson /\ (lesson \in Looped => lesson \notin Heads)
  BY LessonMoves DEF Looped, TwoParts, Heads
<1>2. CASE TooFewDemos
  BY <1>1, <1>2 DEF TooFewDemos, FlowInv
<1>3. CASE lesson \in Looped /\ LoopAct
  BY <1>1, <1>3
  DEF FlowInv, LoopAct, AskStop, TrainStep, Report, Eval, Checkpoint, LoopEnds, FinalReport,
      FinalSave, Killed, ContinueSave, loopVars, Here, Offset, PlaceInv, PhaseInv
<1>4. CASE lesson \in Heads /\ HeadAct
  BY <1>1, <1>4
  DEF FlowInv, HeadAct, AskStop, HeadStep, HeadReport, HeadStops, HeadSave, Killed,
      ContinueSave, loopVars, Here, Offset, PlaceInv, PhaseInv
<1>5. CASE PartEnds
  BY <1>1, <1>5 DEF FlowInv, PartEnds
<1>6. QED
  BY <1>2, <1>3, <1>4, <1>5, LessonCases

\* The end of a save makes its model the newest and leaves it in last.pt.
LEMMA SaveMakesNewest ==
    ASSUME CkptInv, LastInv, SaveStep
    PROVE  /\ Saving
           /\ saving'.step = saving.step /\ saving'.model = saving.model
           /\ ~Saving' => NewestIs(saving.step, saving.model)'
<1> CkptBase
  BY DEF CkptInv
<1>1. Saving /\ saving'.step = saving.step /\ saving'.model = saving.model
  BY SaveStepEffect
<1>2. ASSUME ~Saving' PROVE NewestIs(saving.step, saving.model)'
  <2>1. /\ Whole(Entry) /\ files' = files /\ saves' = saves + 1
        /\ DOMAIN index' = DOMAIN index \cup {saves + 1}
        /\ index'[saves + 1] = Entry
    BY <1>2, SaveStepEffect
  <2>2. LastPt \in DOMAIN files /\ files[LastPt] = saving.model
    BY <1>2 DEF SaveStep, FileWritten, LastOpened, LastWritten, IndexWritten, LastInv, Saving,
                CkptBase, SavingIsRecord
  <2>3. Entry.step = saving.step /\ Entry.model = saving.model
    BY DEF Entry
  <2>4. QED
    BY <1>1, <2>1, <2>2, <2>3 DEF NewestIs, Newest, Whole
<1>3. QED
  BY <1>1, <1>2

LEMMA LessonFinal ==
    ASSUME PlaceInv, SaveAt, HolderInv, FlowInv, FinalInv, CkptInv, LastInv, ~Token, LessonsNext
    PROVE  FinalInv'
<1>1. lesson' = lesson /\ parts' = parts /\ (lesson \in Looped => lesson \notin Heads)
  BY LessonMoves DEF Looped, TwoParts, Heads
<1>2. CASE Begins
  <2>1. /\ saving'.at = "file" /\ saving'.step = Here /\ saving'.model = PartsAt(phase, step)
    BY <1>2 DEF Begins, BeginSave
  <2>2. /\ UNCHANGED <<phase, step, progress>> /\ holder' = PartsAt(phase, step)
        /\ pc' = "return" => progress = Here
        /\ pc' \in {"poll", "return"}
    BY <1>2 DEF Begins, FlowInv
  <2>3. Here' = Here
    BY <2>2 DEF Here, Offset
  <2>4. QED
    BY <2>1, <2>2, <2>3 DEF FinalInv, Returned, Saving
<1>3. CASE ContinueSave
  <2>1. /\ UNCHANGED <<phase, step, pc, completed, progress, holder>> /\ SaveStep /\ Here' = Here
    BY <1>3 DEF ContinueSave, loopVars, Here, Offset
  <2>2. /\ Saving
        /\ saving'.step = saving.step /\ saving'.model = saving.model
        /\ ~Saving' => NewestIs(saving.step, saving.model)'
    BY <2>1, SaveMakesNewest
  <2>3. CASE ~Returned
    BY <1>1, <2>1, <2>3 DEF FinalInv, Returned
  <2>4. CASE Returned
    <3>1. /\ saving.step = Here /\ saving.model = PartsAt(phase, step) /\ pc = "return"
          /\ progress = Here /\ holder = PartsAt(phase, step)
      BY <2>2, <2>4 DEF FinalInv
    <3>2. /\ PartsAt(phase, step)' = PartsAt(phase, step) /\ pc' = "return"
          /\ progress' = Here' /\ holder' = PartsAt(phase, step)'
      BY <2>1, <3>1 DEF PartsAt
    <3>3. ~Saving' => NewestIs(Here, PartsAt(phase, step))'
      <4>1. saving'.step = Here' /\ saving'.model = PartsAt(phase, step)'
        BY <2>1, <2>2, <3>1, <3>2
      <4>2. QED
        BY <2>2, <4>1 DEF NewestIs
    <3>4. QED
      BY <2>1, <2>2, <3>1, <3>2, <3>3 DEF FinalInv
  <2>5. QED
    BY <2>3, <2>4
<1>4. CASE UNCHANGED <<holder, ckptVars>> /\ ~ContinueSave /\ ~Begins
  <2>1. /\ Saving' = Saving /\ saving' = saving
        /\ \A n, m : NewestIs(n, m)' = NewestIs(n, m)
    BY <1>4 DEF ckptVars, Saving, NewestIs, Newest, Whole
  <2>2. CASE PartEnds
    <3>1. CASE completed = "all" /\ phase < parts
      BY <2>2, <3>1 DEF PartEnds, FinalInv, Returned
    <3>2. CASE ~(completed = "all" /\ phase < parts)
      <4>1. /\ UNCHANGED <<phase, step, completed, progress, holder>> /\ Here' = Here
            /\ ~Saving /\ pc = "return"
        BY <2>2, <3>2 DEF PartEnds, Here, Offset
      <4>2. completed = "all" => phase = parts
        BY <3>2, PartsPositive DEF PlaceInv, PhaseInv
      <4>3. QED
        BY <1>1, <2>1, <4>1, <4>2 DEF FinalInv, Returned
    <3>3. QED
      BY <3>1, <3>2
  <2>3. CASE ~PartEnds
    <3>1. Returned' => Returned /\ UNCHANGED <<phase, step, pc, completed, progress, holder>>
      <4>1. pc = "save" => ~Save
        BY <1>4 DEF Save, BeginSave, ckptVars, Saving, SaveAt
      <4>2. CASE lesson \in Looped /\ LoopAct
        BY <1>1, <1>4, <4>1, <4>2
        DEF LoopAct, AskStop, TrainStep, Report, Eval, Checkpoint, LoopEnds, FinalReport,
            FinalSave, Killed, Returned
      <4>3. CASE lesson \in Heads /\ HeadAct
        BY <1>1, <1>4, <4>1, <4>3
        DEF HeadAct, AskStop, HeadStep, HeadReport, HeadStops, HeadSave, Killed, Returned, FlowInv
      <4>4. CASE TooFewDemos
        BY <4>4 DEF TooFewDemos, Returned
      <4>5. QED
        BY <2>3, <4>2, <4>3, <4>4, LessonCases
    <3>2. Here' = Here \/ ~Returned'
      BY <3>1 DEF Here, Offset
    <3>3. QED
      BY <1>1, <2>1, <3>1, <3>2 DEF FinalInv, Returned
  <2>4. QED
    BY <2>2, <2>3
<1>5. QED
  BY <1>2, <1>3, <1>4, LessonKinds

(***************************************************************************)
(* The score of embeddings is as old as the arm's last evaluation.         *)
(***************************************************************************)
ScoreInv ==
    lesson = "embeddings" =>
        /\ scores \in Seq(Nat)
        /\ measured \in Nat /\ measured <= step
        /\ measured % EvalEvery = 0 \/ measured = Steps
        /\ pc \in {"poll", "ckpt", "final", "save"} =>
              step < measured + EvalEvery /\ (step = Steps => measured = Steps)
        /\ pc \in {"report", "eval"} => step <= measured + EvalEvery /\ measured < step
        /\ ScoresAreFresh

LEMMA LessonScore ==
    ASSUME PlaceInv, SaveAt, HolderInv, ScoreInv, rows \in Seq(Nat), ~Token, LessonsNext
    PROVE  ScoreInv'
<1> SUFFICES ASSUME lesson = "embeddings" PROVE ScoreInv'
  BY LessonMoves DEF ScoreInv
<1>1. /\ lesson' = "embeddings" /\ lesson \in Looped /\ lesson \notin Heads
      /\ {step, measured, Steps} \subseteq Nat /\ EvalEvery \in Nat \ {0} /\ step <= Steps
  BY LessonMoves DEF Looped, TwoParts, Heads, ScoreInv, PlaceInv, PhaseInv
<1>2. /\ scores \in Seq(Nat) /\ DOMAIN scores = DOMAIN holder
      /\ \A p \in DOMAIN scores :
            /\ scores[p] <= holder[p] /\ holder[p] < scores[p] + EvalEvery
            /\ holder[p] = Steps => scores[p] = Steps
  BY DEF ScoreInv, ScoresAreFresh
<1>3. CASE TooFewDemos
  BY <1>1, <1>3 DEF TooFewDemos, scoreVars, ScoreInv, ScoresAreFresh
<1>4. CASE Begins /\ Score
  <2>1. /\ measured' = measured /\ step' = step /\ phase' = phase
        /\ scores' = Append(SubSeq(scores, 1, phase - 1), measured)
        /\ pc \in {"ckpt", "save"} /\ pc' \in {"poll", "return"} /\ holder' = PartsAt(phase, step)
    BY <1>4 DEF Begins, Score, Measures, NewArm, Saves, BeginSave, Saving
  <2>2. /\ step < measured + EvalEvery /\ (step = Steps => measured = Steps) /\ measured <= step
    BY <2>1 DEF ScoreInv
  <2>3. phase \in Nat /\ phase - 1 \in Nat
    BY DEF PlaceInv, PhaseInv
  <2>4. /\ Len(scores) >= phase - 1
        /\ \A k \in 1..phase - 1 : scores[k] = Steps
    <3>1. ASSUME NEW s \in 0..step, holder = PartsAt(phase, s) PROVE <2>4
      <4>1. /\ s \in Nat /\ DOMAIN holder = 1..phase
            /\ \A k \in 1..phase - 1 : k \in 1..phase /\ holder[k] = Steps
        BY <1>1, <2>3, <3>1 DEF PartsAt
      <4>2. Len(scores) = phase
        BY <1>2, <2>3, <4>1
      <4>3. \A k \in 1..phase - 1 : scores[k] = Steps
        BY <1>2, <2>3, <4>1
      <4>4. QED
        BY <2>3, <4>2, <4>3
    <3>2. CASE holder = PartsAt(phase - 1, Steps)
      <4>1. /\ DOMAIN holder = 1..phase - 1 /\ \A k \in 1..phase - 1 : holder[k] = Steps
        BY <2>3, <3>2 DEF PartsAt
      <4>2. Len(scores) = phase - 1
        BY <1>2, <2>3, <4>1
      <4>3. \A k \in 1..phase - 1 : scores[k] = Steps
        BY <1>2, <2>3, <4>1
      <4>4. QED
        BY <2>3, <4>2, <4>3
    <3>3. QED
      BY <3>1, <3>2 DEF HolderInv
  <2>5. /\ SubSeq(scores, 1, phase - 1) \in Seq(Nat) /\ Len(SubSeq(scores, 1, phase - 1)) = phase - 1
        /\ \A k \in 1..phase - 1 : SubSeq(scores, 1, phase - 1)[k] = Steps
    BY <1>2, <2>3, <2>4
  <2> DEFINE b == SubSeq(scores, 1, phase - 1)
  <2> HIDE DEF b
  <2>6. /\ scores' \in Seq(Nat) /\ DOMAIN scores' = 1..phase
        /\ \A k \in 1..phase : scores'[k] = IF k < phase THEN Steps ELSE measured
    BY <1>1, <2>1, <2>3, <2>5 DEF b
  <2>7. DOMAIN holder' = 1..phase
        /\ \A k \in 1..phase : holder'[k] = IF k < phase THEN Steps ELSE step
    BY <2>1 DEF PartsAt
  <2>8. ScoresAreFresh'
    BY <1>1, <2>2, <2>6, <2>7 DEF ScoresAreFresh
  <2>9. QED
    BY <1>1, <2>1, <2>2, <2>6, <2>8 DEF ScoreInv
<1>5. CASE Score /\ ~Begins
  <2>1. scores' = scores /\ holder' = holder
    <3>1. ~Saves
      BY <1>5, LessonKinds DEF Saves, ckptVars, Saving, ContinueSave, SaveStep, FileWritten,
                               LastOpened, LastWritten, IndexWritten
    <3>2. QED
      BY <1>5, <3>1, LessonKinds DEF Score, ContinueSave, loopVars
  <2>2. ScoresAreFresh' /\ scores' \in Seq(Nat)
    BY <1>2, <2>1 DEF ScoresAreFresh
  <2>3. CASE Eval
    <3>1. /\ pc = "eval" /\ pc' = "ckpt" /\ UNCHANGED <<step, phase>> /\ Here \in Nat
          /\ rows' = IF step % EvalEvery = 0 \/ step = Steps THEN Append(rows, Here) ELSE rows
      BY <2>3, HereIsNat DEF Eval
    <3>2. step <= measured + EvalEvery /\ measured < step
          /\ (measured % EvalEvery = 0 \/ measured = Steps)
      BY <3>1 DEF ScoreInv
    <3>3. CASE step % EvalEvery = 0 \/ step = Steps
      <4>1. rows' # rows
        <5>1. Len(rows') = Len(rows) + 1 /\ Len(rows) \in Nat
          BY <3>1, <3>3
        <5>2. QED
          BY <5>1
      <4>2. measured' = step
        BY <1>5, <3>1, <4>1 DEF Score, Measures
      <4>3. QED
        BY <1>1, <2>2, <3>1, <3>3, <4>2 DEF ScoreInv
    <3>4. CASE ~(step % EvalEvery = 0 \/ step = Steps)
      <4>1. measured' = measured
        BY <1>5, <3>1, <3>4 DEF Score, Measures, NewArm
      <4>2. measured % EvalEvery = 0
        BY <1>1, <3>2, <3>4
      <4>3. (measured + EvalEvery) % EvalEvery = 0
        BY <1>1, <4>2, NextMultiple
      <4>4. step # measured + EvalEvery
        BY <3>4, <4>3
      <4>5. step < measured + EvalEvery
        <5>1. step \in Nat /\ measured \in Nat /\ EvalEvery \in Nat
          BY <1>1
        <5>2. step <= measured + EvalEvery /\ step # measured + EvalEvery
          BY <3>2, <4>4
        <5> HIDE LoopAssumption DEF LoopAssumption
        <5>3. QED
          BY <5>1, <5>2
      <4>6. QED
        BY <1>1, <2>2, <3>1, <3>2, <3>4, <4>1, <4>5 DEF ScoreInv
    <3>5. QED
      BY <3>3, <3>4
  <2>4. CASE ~Eval
    <3>1. measured' = IF phase' # phase THEN 0 ELSE measured
      <4>1. ~Measures
        BY <1>1, <1>5, <2>4, LessonCases
        DEF Measures, TooFewDemos, LoopAct, AskStop, TrainStep, Report, Checkpoint, LoopEnds,
            FinalReport, FinalSave, Killed, PartEnds, ContinueSave, loopVars
      <4>2. QED
        BY <1>5, <4>1 DEF Score, NewArm
    <3>2. CASE phase' = phase + 1 /\ step' = 0 /\ pc' = "poll"
      <4>1. measured' = 0 /\ 0 % EvalEvery = 0
        BY <1>1, <3>1, <3>2 DEF PlaceInv, PhaseInv
      <4>2. QED
        BY <1>1, <2>2, <3>2, <4>1 DEF ScoreInv
    <3>3. CASE phase' = phase /\ step' = step + 1 /\ pc = "poll"
      <4>1. pc' \in {"report", "eval"}
        BY <1>1, <2>4, <3>3, LessonCases
        DEF TooFewDemos, LoopAct, AskStop, TrainStep, Report, Checkpoint, LoopEnds,
            FinalReport, FinalSave, Killed, PartEnds, ContinueSave, loopVars
      <4>2. QED
        BY <1>1, <2>2, <3>1, <3>3, <4>1 DEF ScoreInv
    <3>4. CASE phase' = phase /\ step' = step
      <4>1. \/ pc' \in {"poll", "ckpt", "final", "save"} /\ pc \in {"poll", "ckpt", "final", "save"}
            \/ pc' \in {"report", "eval"} /\ pc \in {"report", "eval"}
            \/ pc' \notin {"poll", "ckpt", "final", "save", "report", "eval"}
        <5>1. step + 1 # step /\ phase + 1 # phase
          BY DEF PlaceInv, PhaseInv
        <5>2. ~TrainStep /\ ~(PartEnds /\ pc' # "ended")
          BY <3>4, <5>1 DEF TrainStep, PartEnds
        <5>3. QED
          BY <1>1, <2>4, <3>4, <5>2, LessonCases
          DEF TooFewDemos, LoopAct, AskStop, Report, Checkpoint, LoopEnds,
              FinalReport, FinalSave, Killed, ContinueSave, loopVars
      <4>2. QED
        BY <1>1, <2>2, <3>1, <3>4, <4>1 DEF ScoreInv
    <3>5. QED
      BY <3>2, <3>3, <3>4, LessonMoves
  <2>5. QED
    BY <2>3, <2>4
<1>6. QED
  BY <1>1, <1>3, <1>4, <1>5, LessonCases

(***************************************************************************)
(* The rows of a lesson, against the clock they count in: the force-token  *)
(* one numbers its demonstrations and its epochs on.                       *)
(***************************************************************************)
Clock == IF Token THEN collected + step ELSE Here

RowsRun ==
    /\ rows \in Seq(Nat)
    /\ \A i \in DOMAIN rows : rows[i] <= Clock
    /\ StepsNeverGoBack

LEMMA LessonRows ==
    ASSUME PlaceInv, RowsRun, ~Token, LessonsNext
    PROVE  RowsRun'
<1>1. /\ ~Token' /\ Clock = Here /\ Clock' = Here'
      /\ phase \in Nat \ {0} /\ phase' \in Nat \ {0}
      /\ step \in Nat /\ step' \in Nat /\ step <= Steps
  BY LessonMoves DEF Clock, PlaceInv, PhaseInv
<1>2. Here \in Nat /\ Here' \in Nat /\ Here <= Here'
  <2>1. CASE phase' = phase /\ step' = step
    BY <1>1, <2>1, OffsetNat DEF Here, Offset
  <2>2. CASE phase' = phase /\ step' = step + 1
    BY <1>1, <2>2, OffsetNat DEF Here, Offset
  <2>3. CASE phase' = phase + 1 /\ step' = 0
    BY <1>1, <2>3, OffsetNat DEF Here, Offset
  <2>4. QED
    BY <2>1, <2>2, <2>3, LessonMoves
<1>3. rows' = rows \/ rows' = Append(rows, Here')
  BY LessonCases
  DEF TooFewDemos, LoopAct, HeadAct, AskStop, TrainStep, Report, Eval, Checkpoint, LoopEnds,
      FinalReport, FinalSave, Killed, PartEnds, HeadStep, HeadReport, HeadStops, HeadSave,
      ContinueSave, loopVars, Here, Offset
<1>4. CASE rows' = rows
  <2>1. \A i \in DOMAIN rows : rows[i] \in Nat /\ rows[i] <= Here
    BY <1>1 DEF RowsRun
  <2>2. \A i \in DOMAIN rows' : rows'[i] <= Here'
    BY <1>1, <1>2, <1>4, <2>1
  <2>3. QED
    BY <1>1, <1>4, <2>2 DEF RowsRun, StepsNeverGoBack
<1>5. CASE rows' = Append(rows, Here')
  <2>1. \A i \in DOMAIN rows : rows[i] <= Here
    BY <1>1 DEF RowsRun
  <2>2. /\ rows' \in Seq(Nat) /\ StepsNeverGoBack' /\ \A i \in DOMAIN rows' : rows'[i] <= Here'
    BY <1>1, <1>2, <1>5, <2>1, AppendInOrder DEF RowsRun
  <2>3. QED
    BY <1>1, <2>2 DEF RowsRun
<1>6. QED
  BY <1>3, <1>4, <1>5

-----------------------------------------------------------------------------
(***************************************************************************)
(* What is listed: models of the lesson, each in the file of its name or   *)
(* there with a part more, and the last of the lesson only once.           *)
(***************************************************************************)
Known(e) ==
    \E p \in 1..phase : \E s \in 0..Steps :
        /\ e.model = PartsAt(p, s) /\ e.step = At(p, s)
        /\ p = phase => s <= step

ModelsInv ==
    /\ \A i \in DOMAIN index : Known(index[i])
    /\ Saving => Known(saving)

Extends(m, n) == \A p \in DOMAIN m : p \in DOMAIN n /\ n[p] = m[p]

FilesInv ==
    /\ Saving => saving.model # Torn
    /\ \A i \in DOMAIN index :
          LET n == index[i].step IN
          /\ n \in DOMAIN files
          /\ files[n] = Torn => Saving /\ saving.step = n
          /\ files[n] # Torn => Extends(index[i].model, files[n])
          /\ Saving /\ saving.step = n => Extends(index[i].model, saving.model)

AtLast == phase = parts /\ completed = "all" /\ pc \in {"return", "ended", "dead"}

OnceInv ==
    /\ \A i \in DOMAIN index : index[i].step = At(parts, Steps) => AtLast
    /\ Saving /\ saving.step = At(parts, Steps) =>
          AtLast /\ \A i \in DOMAIN index : index[i].step # At(parts, Steps)
    /\ \A i, k \in DOMAIN index :
          index[i].step = At(parts, Steps) /\ index[k].step = At(parts, Steps) => i = k

\* The index never loses or changes an entry.
LEMMA IndexOnlyGrows ==
    ASSUME CkptBase, UNCHANGED ckptVars \/ SaveStep \/ \E n, l, m : BeginSave(n, l, m)
    PROVE  \A i \in DOMAIN index : i \in DOMAIN index' /\ index'[i] = index[i]
<1>1. CASE UNCHANGED ckptVars
  BY <1>1 DEF ckptVars
<1>2. CASE SaveStep
  BY <1>2, SaveStepEffect
<1>3. CASE \E n, l, m : BeginSave(n, l, m)
  BY <1>3 DEF BeginSave
<1>4. QED
  BY <1>1, <1>2, <1>3

LEMMA FilesSteps ==
    ASSUME CkptInv, FilesInv,
           \/ UNCHANGED ckptVars
           \/ /\ ~Saving
              /\ \E n \in Nat : \E l, m :
                    /\ BeginSave(n, l, m) /\ m # Torn
                    /\ \A i \in DOMAIN index : index[i].step = n => Extends(index[i].model, m)
           \/ SaveStep
    PROVE  FilesInv'
<1> CkptBase
  BY DEF CkptInv
<1>1. CASE UNCHANGED ckptVars
  BY <1>1 DEF ckptVars, FilesInv, Saving
<1>2. CASE /\ ~Saving
           /\ \E n \in Nat : \E l, m :
                 /\ BeginSave(n, l, m) /\ m # Torn
                 /\ \A i \in DOMAIN index : index[i].step = n => Extends(index[i].model, m)
  <2>1. PICK n \in Nat : \E l, m :
                 /\ BeginSave(n, l, m) /\ m # Torn
                 /\ \A i \in DOMAIN index : index[i].step = n => Extends(index[i].model, m)
    BY <1>2
  <2>2. PICK l, m :
                 /\ BeginSave(n, l, m) /\ m # Torn
                 /\ \A i \in DOMAIN index : index[i].step = n => Extends(index[i].model, m)
    BY <2>1
  <2>3. /\ Saving' /\ saving'.step = n /\ saving'.model = m /\ index' = index
        /\ \A y \in DOMAIN files : y # n => y \in DOMAIN files' /\ files'[y] = files[y]
    BY <2>2, BeginSaveEffect
  <2>4. n \in DOMAIN files' /\ files'[n] = Torn
    BY <2>2 DEF BeginSave, Put
  <2>5. QED
    BY <1>2, <2>2, <2>3, <2>4 DEF FilesInv
<1>3. CASE SaveStep
  <2>1. /\ Saving /\ saving'.step = saving.step /\ saving'.model = saving.model
        /\ saving.model # Torn
    BY <1>3, SaveStepEffect DEF FilesInv
  <2>2. CASE Saving'
    <3>1. /\ index' = index
          /\ \A y \in DOMAIN files : y # saving.step /\ y # LastPt
                => y \in DOMAIN files' /\ files'[y] = files[y]
      BY <1>3, <2>2, SaveStepEffect
    <3>2. saving.step \in DOMAIN files' /\ files'[saving.step] = saving.model
      <4>1. saving'.at \in {"filed", "last", "lasted"}
        BY <1>3, <2>2 DEF SaveStep, FileWritten, LastOpened, LastWritten, IndexWritten,
                          CkptBase, SavingIsRecord, Saving
      <4>2. CkptBase'
        BY <1>3, SaveStepEffect
      <4>3. QED
        BY <2>1, <4>1, <4>2 DEF CkptBase
    <3>3. \A i \in DOMAIN index : index[i].step \in Nat
      BY DEF CkptBase
    <3>4. SUFFICES ASSUME NEW i \in DOMAIN index
                   PROVE  LET n == index[i].step IN
                          /\ n \in DOMAIN files'
                          /\ files'[n] = Torn => n = saving.step
                          /\ files'[n] # Torn => Extends(index[i].model, files'[n])
                          /\ saving.step = n => Extends(index[i].model, saving.model)
      BY <2>1, <2>2, <3>1 DEF FilesInv, Extends
    <3>5. CASE index[i].step = saving.step
      BY <2>1, <3>2, <3>5 DEF FilesInv
    <3>6. CASE index[i].step # saving.step
      <4>1. index[i].step \in DOMAIN files' /\ files'[index[i].step] = files[index[i].step]
        BY <3>1, <3>3, <3>6, NamesAssumption DEF FilesInv
      <4>2. QED
        BY <3>6, <4>1 DEF FilesInv
    <3>7. QED
      BY <3>5, <3>6
  <2>3. CASE ~Saving'
    <3>1. /\ Whole(Entry) /\ files' = files
          /\ DOMAIN index' = DOMAIN index \cup {saves + 1}
          /\ index'[saves + 1] = Entry
          /\ \A i \in DOMAIN index : index'[i] = index[i]
      BY <1>3, <2>3, SaveStepEffect
    <3>2. /\ Entry.step = saving.step /\ Entry.model = saving.model
          /\ saving.step \in DOMAIN files /\ files[saving.step] = saving.model
      BY <3>1 DEF Whole, Entry
    <3>3. Extends(saving.model, saving.model)
      BY DEF Extends
    <3>4. QED
      BY <2>1, <2>3, <3>1, <3>2, <3>3 DEF FilesInv
  <2>4. QED
    BY <2>2, <2>3
<1>4. QED
  BY <1>1, <1>2, <1>3

LEMMA PartsAreWhole ==
    ASSUME PlaceInv, ~Token PROVE PartsAt(phase, step) # Torn
<1>1. phase \in 0..Phases /\ step \in 0..Steps /\ Steps \in 0..Steps
  BY DEF PlaceInv, PhaseInv
<1>2. PartsAt(phase, step) \in [1..phase -> 0..Steps]
  BY <1>1 DEF PartsAt
<1>3. QED
  BY <1>1, <1>2, TornAssumption

LEMMA LessonModels ==
    ASSUME PlaceInv, SaveAt, HolderInv, CkptInv, ModelsInv, ~Token, LessonsNext
    PROVE  ModelsInv'
<1> CkptBase
  BY DEF CkptInv
<1>1. /\ phase \in Nat \ {0} /\ step \in Nat /\ step <= Steps
  BY DEF PlaceInv, PhaseInv
<1>2. ASSUME NEW e, NEW d, Known(e), d.step = e.step, d.model = e.model PROVE Known(d)'
  <2>1. PICK p \in 1..phase, s \in 0..Steps :
           e.model = PartsAt(p, s) /\ e.step = At(p, s) /\ (p = phase => s <= step)
    BY <1>2 DEF Known
  <2>2. p \in 1..phase' /\ (p = phase' => s <= step')
    BY <1>1, <2>1, LessonMoves
  <2>3. d.model = PartsAt(p, s) /\ d.step = At(p, s)
    BY <1>2, <2>1
  <2>4. QED
    BY <2>2, <2>3 DEF Known
<1>3. CASE UNCHANGED ckptVars
  BY <1>2, <1>3 DEF ModelsInv, ckptVars, Saving
<1>4. CASE Begins
  <2>1. /\ saving'.step = At(phase, step) /\ saving'.model = PartsAt(phase, step)
        /\ index' = index /\ phase' = phase /\ step' = step
    BY <1>4, HereIsNat DEF Begins, BeginSave
  <2>2. Known(saving)'
    <3>1. phase \in 1..phase' /\ step \in 0..Steps /\ (phase = phase' => step <= step')
      BY <1>1, <2>1
    <3>2. QED
      BY <2>1, <3>1 DEF Known
  <2>3. QED
    BY <1>2, <2>1, <2>2 DEF ModelsInv
<1>5. CASE ContinueSave
  <2>1. SaveStep
    BY <1>5 DEF ContinueSave
  <2>2. Known(saving) /\ saving'.step = saving.step /\ saving'.model = saving.model
    BY <2>1, SaveStepEffect DEF ModelsInv
  <2>3. CASE Saving'
    <3>1. index' = index
      BY <2>1, <2>3, SaveStepEffect
    <3>2. QED
      BY <1>2, <2>2, <3>1 DEF ModelsInv
  <2>4. CASE ~Saving'
    <3>1. /\ DOMAIN index' = DOMAIN index \cup {saves + 1}
          /\ index'[saves + 1] = Entry
          /\ \A i \in DOMAIN index : index'[i] = index[i]
      BY <2>1, <2>4, SaveStepEffect
    <3>2. Entry.step = saving.step /\ Entry.model = saving.model
      BY DEF Entry
    <3>3. QED
      BY <1>2, <2>2, <2>4, <3>1, <3>2 DEF ModelsInv
  <2>5. QED
    BY <2>3, <2>4
<1>6. QED
  BY <1>3, <1>4, <1>5, LessonKinds

LEMMA LessonFiles ==
    ASSUME PlaceInv, SaveAt, HolderInv, CkptInv, ModelsInv, FilesInv, ~Token, LessonsNext
    PROVE  FilesInv'
<1>1. CASE UNCHANGED ckptVars \/ ContinueSave
  BY <1>1, FilesSteps DEF ContinueSave
<1>2. CASE Begins
  <2>1. ASSUME NEW i \in DOMAIN index, index[i].step = Here
        PROVE  Extends(index[i].model, PartsAt(phase, step))
    <3>1. PICK p \in 1..phase, s \in 0..Steps :
             index[i].model = PartsAt(p, s) /\ index[i].step = At(p, s)
      BY DEF ModelsInv, Known
    <3>2. /\ phase \in Nat \ {0} /\ p \in Nat \ {0} /\ p <= phase /\ step \in 0..Steps
          /\ s \in Nat /\ step \in Nat
      BY DEF PlaceInv, PhaseInv
    <3>3. At(p, s) = At(phase, step)
      BY <2>1, <3>1, HereIsNat
    <3>4. (p = phase /\ s = step) \/ (phase = p + 1 /\ s = Steps /\ step = 0)
      BY <3>2, <3>3, AtUnique
    <3>5. CASE p = phase /\ s = step
      BY <3>1, <3>5 DEF Extends
    <3>6. CASE phase = p + 1 /\ s = Steps
      <4>1. /\ DOMAIN PartsAt(p, s) = 1..p /\ \A k \in 1..p : PartsAt(p, s)[k] = Steps
        BY <3>2, <3>6 DEF PartsAt
      <4>2. \A k \in 1..p : k \in 1..phase /\ k < phase
        BY <3>2, <3>6
      <4>3. \A k \in 1..p : k \in DOMAIN PartsAt(phase, step) /\ PartsAt(phase, step)[k] = Steps
        BY <4>2 DEF PartsAt
      <4>4. QED
        BY <3>1, <4>1, <4>3 DEF Extends
    <3>7. QED
      BY <3>4, <3>5, <3>6
  <2>2. Here \in Nat /\ PartsAt(phase, step) # Torn
    BY HereIsNat, PartsAreWhole
  <2>3. ~Saving /\ BeginSave(Here, "none", PartsAt(phase, step))
    BY <1>2 DEF Begins
  <2>4. \E n \in Nat : \E l, m :
            /\ BeginSave(n, l, m) /\ m # Torn
            /\ \A i \in DOMAIN index : index[i].step = n => Extends(index[i].model, m)
    BY <2>1, <2>2, <2>3
  <2>5. QED
    BY <2>3, <2>4, FilesSteps
<1>3. QED
  BY <1>1, <1>2, LessonKinds

\* The last name of a lesson is that of its last part at its last step.
LEMMA AtLastStep ==
    ASSUME PlaceInv, ~Token, Here = At(parts, Steps)
    PROVE  phase = parts /\ step = Steps
<1>1. /\ phase \in Nat \ {0} /\ parts \in Nat \ {0} /\ phase <= parts
      /\ step \in 0..Steps /\ Steps \in 0..Steps /\ Steps # 0
  BY PartsPositive DEF PlaceInv, PhaseInv
<1>2. At(phase, step) = At(parts, Steps)
  BY HereIsNat
<1>3. QED
  BY <1>1, <1>2, AtUnique

LEMMA LessonOnce ==
    ASSUME PlaceInv, SaveAt, HolderInv, FlowInv, CkptInv, OnceInv, ~Token, LessonsNext
    PROVE  OnceInv'
<1> CkptBase
  BY DEF CkptInv
<1>1. parts' = parts /\ At(parts, Steps)' = At(parts, Steps)
  BY LessonMoves DEF At
<1>2. AtLast => AtLast'
  <2>1. SUFFICES ASSUME AtLast PROVE AtLast'
    OBVIOUS
  <2>2. phase = parts /\ completed = "all" /\ pc \in {"return", "ended", "dead"}
    BY <2>1 DEF AtLast
  <2>3. ~(phase < parts)
    BY <2>2, PartsPositive
  <2>4. phase' = phase /\ completed' = "all" /\ pc' \in {"return", "ended", "dead"}
    BY <2>2, <2>3, LessonCases
    DEF TooFewDemos, LoopAct, HeadAct, AskStop, TrainStep, Report, Eval, Checkpoint, LoopEnds,
        FinalReport, FinalSave, Killed, PartEnds, HeadStep, HeadReport, HeadStops, HeadSave,
        ContinueSave, loopVars
  <2>5. QED
    BY <1>1, <2>2, <2>4 DEF AtLast
<1>3. CASE UNCHANGED ckptVars
  BY <1>1, <1>2, <1>3 DEF OnceInv, ckptVars, Saving
<1>4. CASE Begins
  <2>1. saving'.step = Here /\ index' = index
    BY <1>4 DEF Begins, BeginSave
  <2>2. ASSUME Here = At(parts, Steps) PROVE AtLast' /\ ~AtLast
    <3>1. phase = parts /\ step = Steps
      BY <2>2, AtLastStep
    <3>2. pc = "save" /\ pc' = "return" /\ completed' = "all" /\ phase' = phase
      BY <1>4, <3>1 DEF Begins, FlowInv
    <3>3. QED
      BY <1>1, <3>1, <3>2 DEF AtLast
  <2>3. QED
    BY <1>1, <1>2, <2>1, <2>2 DEF OnceInv
<1>5. CASE ContinueSave
  <2>1. SaveStep
    BY <1>5 DEF ContinueSave
  <2>2. Saving /\ saving'.step = saving.step
    BY <2>1, SaveStepEffect
  <2>3. CASE Saving'
    <3>1. index' = index
      BY <2>1, <2>3, SaveStepEffect
    <3>2. QED
      BY <1>1, <1>2, <2>2, <3>1 DEF OnceInv
  <2>4. CASE ~Saving'
    <3>1. /\ DOMAIN index' = DOMAIN index \cup {saves + 1}
          /\ index'[saves + 1].step = saving.step
          /\ \A i \in DOMAIN index : index'[i] = index[i]
      BY <2>1, <2>4, SaveStepEffect DEF Entry
    <3>2. QED
      BY <1>1, <1>2, <2>2, <2>4, <3>1 DEF OnceInv
  <2>5. QED
    BY <2>3, <2>4
<1>6. QED
  BY <1>3, <1>4, <1>5, LessonKinds

-----------------------------------------------------------------------------
(***************************************************************************)
(* The force-token lesson: what it counts, the epochs it has saved, and    *)
(* where the first epoch with the lowest loss is.                          *)
(***************************************************************************)
TokenCounts ==
    /\ parts = 1 /\ step \in Nat
    /\ collected \in 0..Episodes /\ (collected < Episodes => step = 0)
    /\ vals \in Seq(Nat) /\ Len(vals) = step
    /\ savedEp \in 0..step
    /\ progress = collected + step
    /\ pc \in {"poll", "return", "ended", "dead"}
    /\ completed = "all" => step = Steps

TokenSaves ==
    /\ Saving => savedEp > 0 /\ saving.step = Episodes + savedEp /\ saving.model = <<savedEp>>
    /\ \A i \in DOMAIN index :
          \E ep \in 1..savedEp :
             /\ index[i].step = Episodes + ep /\ index[i].model = <<ep>>
             /\ Saving => ep < savedEp
    /\ \A i, k \in DOMAIN index : index[i].step = index[k].step => i = k
    /\ ~Saving /\ savedEp > 0 => NewestIs(Episodes + savedEp, <<savedEp>>)
    /\ pc \in {"return", "ended"} /\ step > 0 => savedEp = step
    /\ pc = "poll" /\ step = Steps => savedEp < step

LowestFirst(ep) ==
    /\ ep \in 1..step
    /\ \A e \in 1..step : vals[ep] <= vals[e]
    /\ \A e \in 1..ep - 1 : vals[ep] < vals[e]

Kept(ep) ==
    \/ \E i \in DOMAIN index : index[i].model = <<ep>>
    \/ Saving /\ saving.model = <<ep>>
    \/ ep = Steps /\ pc \in {"poll", "dead"}

BestInv == step > 0 => \E ep \in 1..step : LowestFirst(ep) /\ Kept(ep)

TokenInv == TokenCounts /\ TokenSaves /\ BestInv

\* A step of the lesson that leaves its epochs, and what is saved of them, alone.
LEMMA TokenStill ==
    ASSUME PlaceInv, TokenInv, UNCHANGED <<parts, step, vals, savedEp, ckptVars>>,
           collected' \in 0..Episodes, collected' < Episodes => step = 0,
           progress' = collected' + step,
           completed' = "all" => step = Steps,
           \/ pc' = pc
           \/ pc' = "dead"
           \/ pc' = "ended" /\ pc = "return"
           \/ pc' = "ended" /\ step = 0
           \/ pc' = "return" /\ (step = 0 \/ savedEp = step) /\ step # Steps
    PROVE  TokenInv'
<1>1. TokenCounts'
  BY DEF TokenInv, TokenCounts
<1>2. /\ Saving' = Saving /\ saving' = saving /\ index' = index
      /\ NewestIs(Episodes + savedEp, <<savedEp>>)' = NewestIs(Episodes + savedEp, <<savedEp>>)
  BY DEF ckptVars, Saving, NewestIs, Newest, Whole
<1>3. step \in Nat /\ Steps > 0 /\ pc \in {"poll", "return", "ended", "dead"}
  BY DEF TokenInv, TokenCounts
<1>4. TokenSaves'
  BY <1>2, <1>3 DEF TokenInv, TokenSaves
<1>5. BestInv'
  <2> SUFFICES ASSUME step > 0 PROVE \E ep \in 1..step : LowestFirst(ep)' /\ Kept(ep)'
    BY DEF BestInv
  <2>1. PICK ep \in 1..step : LowestFirst(ep) /\ Kept(ep)
    BY DEF TokenInv, BestInv
  <2>2. LowestFirst(ep)'
    BY <2>1 DEF LowestFirst
  <2>3. Kept(ep)'
    <3>1. CASE \E i \in DOMAIN index : index[i].model = <<ep>>
      BY <1>2, <3>1 DEF Kept
    <3>2. CASE Saving /\ saving.model = <<ep>>
      BY <1>2, <3>2 DEF Kept
    <3>3. CASE ep = Steps /\ pc \in {"poll", "dead"}
      <4>1. step = 0 => FALSE
        BY <1>3
      <4>2. ~(savedEp = step /\ step # Steps /\ pc' = "return")
        BY <1>3, <2>1, <3>3 DEF PlaceInv, PhaseInv
      <4>3. pc' \in {"poll", "dead"}
        BY <3>3, <4>1, <4>2
      <4>4. QED
        BY <3>3, <4>3 DEF Kept
    <3>4. QED
      BY <2>1, <3>1, <3>2, <3>3 DEF Kept
  <2>4. QED
    BY <2>1, <2>2, <2>3
<1>6. QED
  BY <1>1, <1>4, <1>5 DEF TokenInv

\* An epoch later than the last one saved begins to be saved.
LEMMA TokenBegins ==
    ASSUME TokenInv, CkptInv, ~Saving, NEW ep \in Nat, savedEp < ep, NEW l, SaveEpoch(ep, l),
           pc' = "poll" => step' < Steps, step' = ep
    PROVE  /\ index' = index /\ Saving' /\ saving'.model = <<ep>> /\ savedEp' = ep
           /\ TokenSaves'
<1>1. /\ index' = index /\ saves' = saves /\ savedEp' = ep
      /\ Saving' /\ saving'.step = Episodes + ep /\ saving'.model = <<ep>>
  BY DEF SaveEpoch, BeginSave, Saving
<1>2. /\ savedEp \in Nat /\ ep > 0
  BY DEF TokenInv, TokenCounts
<1>3. \A i \in DOMAIN index : \E k \in 1..ep :
         index[i].step = Episodes + k /\ index[i].model = <<k>> /\ k < ep
  <2> SUFFICES ASSUME NEW i \in DOMAIN index
               PROVE  \E k \in 1..ep : /\ index[i].step = Episodes + k
                                       /\ index[i].model = <<k>> /\ k < ep
    OBVIOUS
  <2>1. PICK k \in 1..savedEp : index[i].step = Episodes + k /\ index[i].model = <<k>>
    BY DEF TokenInv, TokenSaves
  <2>2. k \in 1..ep /\ k < ep
    BY <1>2
  <2>3. QED
    BY <2>1, <2>2
<1>4. \A i, k \in DOMAIN index : index[i].step = index[k].step => i = k
  BY DEF TokenInv, TokenSaves
<1>5. ~(pc' = "poll" /\ step' = Steps)
  OBVIOUS
<1>6. TokenSaves'
  BY <1>1, <1>2, <1>3, <1>4, <1>5 DEF TokenSaves
<1>7. QED
  BY <1>1, <1>6

LEMMA TokenEpoch ==
    ASSUME PlaceInv, TokenInv, CkptInv, Epoch, parts' = parts
    PROVE  TokenInv'
<1>1. /\ pc = "poll" /\ pc' = "poll" /\ ~Saving /\ step < Steps /\ step' = step + 1
      /\ collected = Episodes /\ collected' = collected /\ completed' = completed
      /\ progress' = Episodes + step' /\ step \in Nat /\ Steps \in Nat /\ Episodes \in Nat
  BY ForceTokenAssumption DEF Epoch, Logged, TokenInv, TokenCounts
<1>2. PICK v \in Losses :
         /\ vals' = Append(vals, v)
         /\ IF Lowest(v) /\ step' < Steps THEN SaveEpoch(step', "best")
            ELSE UNCHANGED <<holder, savedEp, ckptVars>>
  BY DEF Epoch
<1>3. v \in Nat /\ vals \in Seq(Nat) /\ Len(vals) = step /\ savedEp \in 0..step
  BY ForceTokenAssumption DEF TokenInv, TokenCounts
<1>4. /\ vals' \in Seq(Nat) /\ Len(vals') = step' /\ vals'[step'] = v
      /\ \A e \in 1..step : vals'[e] = vals[e] /\ vals[e] \in Nat
  BY <1>1, <1>2, <1>3
<1>5. ~(completed = "all")
  BY <1>1 DEF TokenInv, TokenCounts
<1>6. ASSUME savedEp' \in 0..step' PROVE TokenCounts'
  BY <1>1, <1>4, <1>5, <1>6 DEF TokenInv, TokenCounts
<1>7. CASE Lowest(v)
  <2>0. PICK d \in Nat \ {0} : d = step'
    BY <1>1
  <2>1. LowestFirst(d)'
    <3>1. \A e \in 1..step : v < vals[e]
      BY <1>3, <1>7 DEF Lowest
    <3>2. \A e \in 1..step' : e \in 1..step \/ e = step'
      BY <1>1
    <3>3. \A e \in 1..step' - 1 : e \in 1..step
      BY <1>1
    <3>4. \A e \in 1..step' : vals'[d] <= vals'[e]
      BY <1>3, <1>4, <2>0, <3>1, <3>2
    <3>5. \A e \in 1..d - 1 : vals'[d] < vals'[e]
      BY <1>4, <2>0, <3>1, <3>3
    <3>6. d \in 1..step'
      BY <2>0
    <3>7. QED
      BY <3>4, <3>5, <3>6 DEF LowestFirst
  <2>2. CASE step' < Steps
    <3>1. SaveEpoch(step', "best") /\ savedEp < step' /\ step' \in Nat
      BY <1>1, <1>2, <1>3, <1>7, <2>2
    <3>2. Saving' /\ saving'.model = <<step'>> /\ savedEp' = step' /\ TokenSaves'
      BY <1>1, <2>2, <3>1, TokenBegins
    <3>3. Kept(d)'
      BY <2>0, <3>2 DEF Kept
    <3>4. BestInv'
      BY <2>0, <2>1, <3>3 DEF BestInv, LowestFirst
    <3>5. QED
      BY <1>1, <1>6, <3>2, <3>4 DEF TokenInv
  <2>3. CASE ~(step' < Steps)
    <3>1. UNCHANGED <<holder, savedEp, ckptVars>> /\ step' = Steps
      BY <1>1, <1>2, <2>3
    <3>2. TokenSaves'
      <4>1. /\ Saving' = Saving /\ index' = index
            /\ NewestIs(Episodes + savedEp, <<savedEp>>)' = NewestIs(Episodes + savedEp, <<savedEp>>)
        BY <3>1 DEF ckptVars, Saving, NewestIs, Newest, Whole
      <4>2. savedEp' = savedEp /\ savedEp < step'
        BY <1>1, <1>3, <3>1
      <4>3. QED
        BY <1>1, <4>1, <4>2 DEF TokenInv, TokenSaves
    <3>3. Kept(d)'
      BY <1>1, <2>0, <3>1 DEF Kept
    <3>4. BestInv'
      BY <2>0, <2>1, <3>3 DEF BestInv, LowestFirst
    <3>5. QED
      BY <1>1, <1>3, <1>6, <3>1, <3>2, <3>4 DEF TokenInv
  <2>4. QED
    BY <2>2, <2>3
<1>8. CASE ~Lowest(v)
  <2>1. UNCHANGED <<holder, savedEp, ckptVars>>
    BY <1>2, <1>8
  <2>2. TokenSaves'
    <3>1. /\ Saving' = Saving /\ index' = index
          /\ NewestIs(Episodes + savedEp, <<savedEp>>)' = NewestIs(Episodes + savedEp, <<savedEp>>)
      BY <2>1 DEF ckptVars, Saving, NewestIs, Newest, Whole
    <3>2. savedEp' = savedEp /\ savedEp < step'
      BY <1>1, <1>3, <2>1
    <3>3. QED
      BY <1>1, <3>1, <3>2 DEF TokenInv, TokenSaves
  <2>3. PICK f \in 1..step : ~(v < vals[f])
    BY <1>3, <1>8 DEF Lowest
  <2>4. PICK ep \in 1..step : LowestFirst(ep) /\ Kept(ep)
    BY <1>1 DEF TokenInv, BestInv
  <2>5. vals[ep] <= v
    BY <1>3, <1>4, <2>3, <2>4 DEF LowestFirst
  <2>6. LowestFirst(ep)'
    <3>1. \A e \in 1..step' : e \in 1..step \/ e = step'
      BY <1>1
    <3>2. \A e \in 1..ep - 1 : e \in 1..step
      BY <1>1
    <3>3. \A e \in 1..step' : vals'[ep] <= vals'[e]
      BY <1>4, <2>4, <2>5, <3>1 DEF LowestFirst
    <3>4. \A e \in 1..ep - 1 : vals'[ep] < vals'[e]
      BY <1>4, <2>4, <3>2 DEF LowestFirst
    <3>5. ep \in 1..step'
      BY <1>1
    <3>6. QED
      BY <3>3, <3>4, <3>5 DEF LowestFirst
  <2>7. Kept(ep)'
    <3>1. ep # Steps
      BY <1>1
    <3>2. \E i \in DOMAIN index : index[i].model = <<ep>>
      BY <1>1, <2>4, <3>1 DEF Kept
    <3>3. QED
      BY <2>1, <3>2 DEF Kept, ckptVars
  <2>8. BestInv'
    <3>1. ep \in 1..step'
      BY <1>1
    <3>2. QED
      BY <2>6, <2>7, <3>1 DEF BestInv
  <2>9. QED
    BY <1>1, <1>3, <1>6, <2>1, <2>2, <2>8 DEF TokenInv
<1>9. QED
  BY <1>7, <1>8

\* The last epoch begins to be saved, at a stop or at the end.
LEMMA TokenLastSave ==
    ASSUME PlaceInv, TokenInv, CkptInv, ~Saving, pc = "poll", savedEp < step, pc' = "return",
           SaveEpoch(step, "last"), UNCHANGED <<step, progress, collected, vals, parts>>,
           completed' = "all" => step = Steps
    PROVE  TokenInv'
<1>1. step \in Nat /\ step' = step
  BY DEF TokenInv, TokenCounts
<1>2. /\ index' = index /\ Saving' /\ saving'.model = <<step>> /\ savedEp' = step
      /\ TokenSaves'
  BY <1>1, TokenBegins
<1>3. TokenCounts'
  BY <1>1, <1>2 DEF TokenInv, TokenCounts
<1>4. BestInv'
  <2> SUFFICES ASSUME step > 0 PROVE \E ep \in 1..step : LowestFirst(ep)' /\ Kept(ep)'
    BY <1>1 DEF BestInv
  <2>1. PICK ep \in 1..step : LowestFirst(ep) /\ Kept(ep)
    BY DEF TokenInv, BestInv
  <2>2. LowestFirst(ep)'
    BY <2>1 DEF LowestFirst
  <2>3. Kept(ep)'
    <3>1. CASE \E i \in DOMAIN index : index[i].model = <<ep>>
      BY <1>2, <3>1 DEF Kept
    <3>2. CASE ep = Steps
      <4>1. ep = step
        BY <3>2 DEF PlaceInv, PhaseInv
      <4>2. QED
        BY <1>2, <4>1 DEF Kept
    <3>3. QED
      BY <2>1, <3>1, <3>2 DEF Kept
  <2>4. QED
    BY <2>1, <2>2, <2>3
<1>5. QED
  BY <1>2, <1>3, <1>4 DEF TokenInv

LEMMA TokenSaveStep ==
    ASSUME TokenInv, CkptInv, LastInv, SaveAt, ContinueSave, UNCHANGED tokenVars, parts' = parts
    PROVE  TokenInv'
<1> CkptBase
  BY DEF CkptInv
<1>1. /\ UNCHANGED <<step, pc, completed, progress, collected, vals, savedEp>> /\ SaveStep
  BY DEF ContinueSave, loopVars, tokenVars
<1>2. /\ Saving /\ saving'.step = saving.step /\ saving'.model = saving.model
      /\ ~Saving' => NewestIs(saving.step, saving.model)'
  BY <1>1, SaveMakesNewest
<1>3. /\ savedEp > 0 /\ saving.step = Episodes + savedEp /\ saving.model = <<savedEp>>
      /\ pc # "ended" /\ savedEp \in Nat /\ Episodes \in Nat
  BY <1>2, ForceTokenAssumption DEF TokenInv, TokenSaves, TokenCounts, SaveAt
<1>4. TokenCounts'
  BY <1>1 DEF TokenInv, TokenCounts
<1>5. CASE Saving'
  <2>1. index' = index
    BY <1>1, <1>5, SaveStepEffect
  <2>2. TokenSaves'
    BY <1>1, <1>2, <1>5, <2>1 DEF TokenInv, TokenSaves
  <2>3. \A ep : Kept(ep) => Kept(ep)'
    BY <1>1, <1>2, <1>5, <2>1 DEF Kept
  <2>4. \A ep : LowestFirst(ep) => LowestFirst(ep)'
    BY <1>1 DEF LowestFirst
  <2>5. BestInv'
    BY <1>1, <2>3, <2>4 DEF TokenInv, BestInv
  <2>6. QED
    BY <1>4, <2>2, <2>5 DEF TokenInv
<1>6. CASE ~Saving'
  <2>1. /\ DOMAIN index' = DOMAIN index \cup {saves + 1}
        /\ index'[saves + 1].step = saving.step /\ index'[saves + 1].model = saving.model
        /\ \A i \in DOMAIN index : index'[i] = index[i]
    BY <1>1, <1>6, SaveStepEffect DEF Entry
  <2>2. \A i \in DOMAIN index : \E ep \in 1..savedEp :
           index[i].step = Episodes + ep /\ index[i].model = <<ep>> /\ ep < savedEp
    BY <1>2 DEF TokenInv, TokenSaves
  <2>3. \A i \in DOMAIN index : index[i].step # Episodes + savedEp
    BY <1>3, <2>2
  <2>4. \A i \in DOMAIN index' : \E ep \in 1..savedEp :
           index'[i].step = Episodes + ep /\ index'[i].model = <<ep>>
    <3> SUFFICES ASSUME NEW i \in DOMAIN index'
                 PROVE  \E ep \in 1..savedEp :
                           index'[i].step = Episodes + ep /\ index'[i].model = <<ep>>
      OBVIOUS
    <3>1. CASE i \in DOMAIN index
      BY <2>1, <2>2, <3>1
    <3>2. CASE i = saves + 1
      <4>1. savedEp \in 1..savedEp
        BY <1>3
      <4>2. QED
        BY <1>3, <2>1, <3>2, <4>1
    <3>3. QED
      BY <2>1, <3>1, <3>2
  <2>5. \A i, k \in DOMAIN index' : index'[i].step = index'[k].step => i = k
    BY <1>3, <2>1, <2>3 DEF TokenInv, TokenSaves
  <2>6. NewestIs(Episodes + savedEp, <<savedEp>>)'
    <3>1. saving'.step = Episodes + savedEp' /\ saving'.model = <<savedEp'>>
      BY <1>1, <1>2, <1>3
    <3>2. QED
      BY <1>2, <1>6, <3>1 DEF NewestIs
  <2>7. TokenSaves'
    <3>1. /\ pc' \in {"return", "ended"} /\ step' > 0 => savedEp' = step'
          /\ pc' = "poll" /\ step' = Steps => savedEp' < step'
      BY <1>1 DEF TokenInv, TokenSaves
    <3>2. QED
      BY <1>1, <1>6, <2>4, <2>5, <2>6, <3>1 DEF TokenSaves
  <2>8. \A ep : Kept(ep) => Kept(ep)'
    BY <1>1, <2>1 DEF Kept
  <2>9. \A ep : LowestFirst(ep) => LowestFirst(ep)'
    BY <1>1 DEF LowestFirst
  <2>10. BestInv'
    BY <1>1, <2>8, <2>9 DEF TokenInv, BestInv
  <2>11. QED
    BY <1>4, <2>7, <2>10 DEF TokenInv
<1>7. QED
  BY <1>5, <1>6

LEMMA TokenStep ==
    ASSUME PlaceInv, TokenInv, CkptInv, LastInv, SaveAt, TokenNext
    PROVE  TokenInv'
<1>1. /\ parts' = parts /\ step \in Nat /\ Steps \in Nat \ {0} /\ Episodes \in Nat
      /\ step <= Steps /\ savedEp \in 0..step
      /\ collected \in 0..Episodes /\ (collected < Episodes => step = 0)
      /\ progress = collected + step /\ (completed = "all" => step = Steps)
  BY ForceTokenAssumption
  DEF TokenNext, lessonsVars, choiceVars, TokenInv, TokenCounts, PlaceInv, PhaseInv
<1>2. CASE Collect
  <2>1. /\ collected' = collected + 1 /\ collected < Episodes /\ progress' = collected' /\ pc' = pc
        /\ UNCHANGED <<step, completed, vals, savedEp, ckptVars>>
    BY <1>2 DEF Collect, Logged
  <2>2. collected' \in 0..Episodes /\ step = 0 /\ progress' = collected' + step
    BY <1>1, <2>1
  <2>3. QED
    BY <1>1, <2>1, <2>2, TokenStill
<1>3. CASE StopInCollection
  <2>1. /\ pc' = "ended" /\ completed' = "part" /\ step = 0
        /\ UNCHANGED <<step, vals, savedEp, ckptVars, collected, progress>>
    BY <1>1, <1>3 DEF StopInCollection, tokenVars
  <2>2. QED
    BY <1>1, <2>1, TokenStill
<1>4. CASE Epoch
  BY <1>1, <1>4, TokenEpoch
<1>5. CASE StopSaves
  <2>1. /\ pc = "poll" /\ ~Saving /\ step < Steps /\ completed' = "part" /\ pc' = "return"
        /\ UNCHANGED <<step, progress, collected, vals>>
        /\ IF step > 0 /\ savedEp # step THEN SaveEpoch(step, "last")
           ELSE UNCHANGED <<holder, savedEp, ckptVars>>
    BY <1>5 DEF StopSaves, AtStop
  <2>2. CASE step > 0 /\ savedEp # step
    <3>1. savedEp < step
      BY <1>1, <2>2
    <3>2. QED
      BY <1>1, <2>1, <2>2, <3>1, TokenLastSave
  <2>3. CASE ~(step > 0 /\ savedEp # step)
    <3>1. (step = 0 \/ savedEp = step) /\ step # Steps
      BY <1>1, <2>1, <2>3
    <3>2. UNCHANGED <<savedEp, ckptVars>>
      BY <2>1, <2>3
    <3>3. QED
      BY <1>1, <2>1, <3>1, <3>2, TokenStill
  <2>4. QED
    BY <2>2, <2>3
<1>6. CASE LastSave
  <2>1. /\ pc = "poll" /\ ~Saving /\ step = Steps /\ pc' = "return" /\ SaveEpoch(step, "last")
        /\ UNCHANGED <<step, progress, collected, vals>>
    BY <1>6 DEF LastSave
  <2>2. savedEp < step
    BY <2>1 DEF TokenInv, TokenSaves
  <2>3. QED
    BY <1>1, <2>1, <2>2, TokenLastSave
<1>7. CASE TokenEnds
  BY <1>1, <1>7, TokenStill DEF TokenEnds, tokenVars
<1>8. CASE AskStop /\ UNCHANGED tokenVars
  BY <1>1, <1>8, TokenStill DEF AskStop, tokenVars
<1>9. CASE Killed /\ UNCHANGED tokenVars
  BY <1>1, <1>9, TokenStill DEF Killed, tokenVars
<1>10. CASE ContinueSave /\ UNCHANGED tokenVars
  BY <1>1, <1>10, TokenSaveStep
<1>11. QED
  BY <1>2, <1>3, <1>4, <1>5, <1>6, <1>7, <1>8, <1>9, <1>10 DEF TokenNext

\* What the lesson shares with the others.
LEMMA TokenKinds ==
    ASSUME PlaceInv, TokenInv, TokenNext
    PROVE  \/ UNCHANGED ckptVars
           \/ SaveStep
           \/ /\ ~Saving /\ \E ep \in 1..Steps : \E l : savedEp < ep /\ SaveEpoch(ep, l)
<1>1. /\ step \in Nat /\ step <= Steps /\ savedEp \in 0..step
  BY DEF TokenInv, TokenCounts, PlaceInv, PhaseInv
<1>2. CASE Epoch
  <2>1. step' \in 1..Steps /\ savedEp < step' /\ ~Saving
    BY <1>1, <1>2 DEF Epoch
  <2>2. UNCHANGED ckptVars \/ SaveEpoch(step', "best")
    BY <1>2 DEF Epoch
  <2>3. QED
    BY <2>1, <2>2
<1>3. CASE StopSaves
  <2>1. ~Saving /\ (UNCHANGED ckptVars \/ (step > 0 /\ savedEp # step /\ SaveEpoch(step, "last")))
    BY <1>3 DEF StopSaves, AtStop
  <2>2. step > 0 /\ savedEp # step => step \in 1..Steps /\ savedEp < step
    BY <1>1
  <2>3. QED
    BY <2>1, <2>2
<1>4. CASE LastSave
  <2>1. ~Saving /\ SaveEpoch(step, "last") /\ savedEp < step
    BY <1>4 DEF LastSave, TokenInv, TokenSaves
  <2>2. step \in 1..Steps
    BY <1>1, <2>1
  <2>3. QED
    BY <2>1, <2>2
<1>5. CASE ContinueSave
  BY <1>5 DEF ContinueSave
<1>6. QED
  BY <1>2, <1>3, <1>4, <1>5
  DEF TokenNext, Collect, StopInCollection, TokenEnds, AskStop, Killed

LEMMA TokenDir ==
    ASSUME PlaceInv, TokenInv, CkptInv, LastInv, FilesInv, TokenNext
    PROVE  CkptInv' /\ LastInv' /\ FilesInv'
<1>1. CASE UNCHANGED ckptVars \/ SaveStep
  BY <1>1, CkptSteps, FilesSteps
<1>2. CASE ~Saving /\ \E ep \in 1..Steps : \E l : savedEp < ep /\ SaveEpoch(ep, l)
  <2>1. PICK ep \in 1..Steps : \E l : savedEp < ep /\ SaveEpoch(ep, l)
    BY <1>2
  <2>2. PICK l : savedEp < ep /\ SaveEpoch(ep, l)
    BY <2>1
  <2>3. BeginSave(Episodes + ep, l, <<ep>>) /\ Episodes + ep \in Nat /\ Episodes \in Nat
    BY <2>2, ForceTokenAssumption DEF SaveEpoch
  <2>4. <<ep>> # Torn
    <3>1. <<ep>> \in [1..1 -> 0..Steps] /\ 1 \in 0..Phases
      OBVIOUS
    <3>2. QED
      BY <3>1, TornAssumption
  <2>5. \A i \in DOMAIN index : index[i].step # Episodes + ep
    <3> SUFFICES ASSUME NEW i \in DOMAIN index PROVE index[i].step # Episodes + ep
      OBVIOUS
    <3>1. PICK k \in 1..savedEp : index[i].step = Episodes + k
      BY DEF TokenInv, TokenSaves
    <3>2. savedEp \in Nat
      BY DEF TokenInv, TokenCounts
    <3>3. QED
      BY <2>2, <2>3, <3>1, <3>2
  <2>6. \E n \in Nat : \E b, m :
            /\ BeginSave(n, b, m) /\ m # Torn
            /\ \A i \in DOMAIN index : index[i].step = n => Extends(index[i].model, m)
    BY <2>3, <2>4, <2>5
  <2>7. \E n \in Nat : \E b, m : BeginSave(n, b, m)
    BY <2>3
  <2>8. CkptInv' /\ LastInv'
    BY <1>2, <2>7, CkptSteps
  <2>9. FilesInv'
    BY <1>2, <2>6, FilesSteps
  <2>10. QED
    BY <2>8, <2>9
<1>3. QED
  BY <1>1, <1>2, TokenKinds

LEMMA TokenPlace ==
    ASSUME PlaceInv, TokenInv, SaveAt, RowsRun, Token, TokenNext
    PROVE  PlaceInv' /\ SaveAt' /\ RowsRun' /\ Token'
<1>1. /\ step \in Nat /\ step <= Steps /\ savedEp \in 0..step /\ Episodes \in Nat /\ Steps \in Nat
      /\ collected \in 0..Episodes /\ (collected < Episodes => step = 0)
      /\ Saving => savedEp > 0
      /\ UNCHANGED <<lesson, parts>>
  BY ForceTokenAssumption
  DEF TokenInv, TokenCounts, TokenSaves, PlaceInv, PhaseInv, TokenNext, lessonsVars, choiceVars
<1>2. Token'
  BY <1>1 DEF Token
<1>3. /\ phase' = phase
      /\ \/ step' = step /\ collected' = collected /\ rows' = rows
         \/ step' = step /\ collected' = collected + 1 /\ rows' = Append(rows, collected')
         \/ /\ step' = step + 1 /\ step < Steps /\ collected' = collected /\ collected = Episodes
            /\ rows' = Append(rows, Episodes + step')
  BY DEF TokenNext, Collect, StopInCollection, Epoch, StopSaves, LastSave, TokenEnds, AskStop,
         ContinueSave, Killed, Logged, tokenVars, loopVars
<1>4. PlaceInv'
  BY <1>1, <1>2, <1>3 DEF PlaceInv, PhaseInv, Token
<1>5. SaveAt'
  <2>1. CASE StopInCollection
    <3>1. ~Saving /\ UNCHANGED ckptVars
      BY <1>1, <2>1 DEF StopInCollection
    <3>2. QED
      BY <3>1 DEF SaveAt, ckptVars, Saving
  <2>2. CASE TokenEnds
    BY <2>2 DEF TokenEnds, ckptVars, Saving, SaveAt
  <2>3. CASE Epoch \/ StopSaves \/ LastSave
    BY <2>3 DEF Epoch, StopSaves, AtStop, LastSave, SaveAt
  <2>4. CASE ContinueSave
    <3>1. Saving /\ pc' = pc
      BY <2>4 DEF ContinueSave, loopVars, SaveStep, FileWritten, LastOpened, LastWritten,
                  IndexWritten, Saving
    <3>2. QED
      BY <3>1 DEF SaveAt
  <2>5. CASE Collect \/ AskStop \/ Killed
    BY <2>5 DEF Collect, AskStop, Killed, ckptVars, Saving, SaveAt
  <2>6. QED
    BY <2>1, <2>2, <2>3, <2>4, <2>5 DEF TokenNext
<1>6. RowsRun'
  <2>1. /\ Clock = collected + step /\ Clock' = collected' + step'
        /\ rows \in Seq(Nat) /\ StepsNeverGoBack /\ \A i \in DOMAIN rows : rows[i] <= collected + step
    BY <1>2 DEF Clock, RowsRun
  <2>2. CASE step' = step /\ collected' = collected /\ rows' = rows
    BY <2>1, <2>2 DEF RowsRun, StepsNeverGoBack
  <2>3. CASE step' = step /\ collected' = collected + 1 /\ rows' = Append(rows, collected')
    <3>1. /\ collected + step \in Nat /\ collected' \in Nat /\ collected + step <= collected'
          /\ Clock' = collected'
      <4>1. CASE collected < Episodes
        BY <1>1, <2>1, <2>3, <4>1
      <4>2. CASE ~(collected < Episodes)
        <5>1. ~Collect
          BY <4>2 DEF Collect
        <5>2. collected' = collected
          BY <5>1
          DEF TokenNext, StopInCollection, Epoch, StopSaves, LastSave, TokenEnds, tokenVars
        <5>3. QED
          BY <1>1, <2>3, <5>2
      <4>3. QED
        BY <4>1, <4>2
    <3>2. /\ rows' \in Seq(Nat) /\ StepsNeverGoBack' /\ \A i \in DOMAIN rows' : rows'[i] <= collected'
      BY <2>1, <2>3, <3>1, AppendInOrder
    <3>3. QED
      BY <3>1, <3>2 DEF RowsRun
  <2>4. CASE /\ step' = step + 1 /\ step < Steps /\ collected' = collected /\ collected = Episodes
             /\ rows' = Append(rows, Episodes + step')
    <3>1. /\ collected + step \in Nat /\ Episodes + step' \in Nat
          /\ collected + step <= Episodes + step' /\ Clock' = Episodes + step'
      BY <1>1, <2>1, <2>4
    <3>2. /\ rows' \in Seq(Nat) /\ StepsNeverGoBack'
          /\ \A i \in DOMAIN rows' : rows'[i] <= Episodes + step'
      BY <2>1, <2>4, <3>1, AppendInOrder
    <3>3. QED
      BY <3>1, <3>2 DEF RowsRun
  <2>5. QED
    BY <1>3, <2>2, <2>3, <2>4
<1>7. QED
  BY <1>2, <1>4, <1>5, <1>6

-----------------------------------------------------------------------------
(***************************************************************************)
(* The whole process of a lesson, and the evaluation beside it.            *)
(***************************************************************************)
DirInv == PlaceInv /\ SaveAt /\ CkptInv /\ LastInv /\ FilesInv /\ RowsRun

LessonInv == HolderInv /\ FlowInv /\ FinalInv /\ ScoreInv /\ ModelsInv /\ OnceInv

TrainInv ==
    /\ DirInv
    /\ ~Token => LessonInv
    /\ Token => TokenInv

LEMMA TrainInvStep ==
    ASSUME TrainInv, (~Token /\ LessonsNext) \/ (Token /\ TokenNext)
    PROVE  TrainInv'
<1>1. CASE ~Token /\ LessonsNext
  <2>1. /\ PlaceInv /\ SaveAt /\ CkptInv /\ LastInv /\ FilesInv /\ RowsRun /\ rows \in Seq(Nat)
        /\ HolderInv /\ FlowInv /\ FinalInv /\ ScoreInv /\ ModelsInv /\ OnceInv
    BY <1>1 DEF TrainInv, DirInv, LessonInv, RowsRun
  <2>2. PlaceInv' /\ ~Token'
    BY <1>1, <2>1, LessonMoves
  <2>3. SaveAt' /\ CkptInv' /\ LastInv'
    BY <1>1, <2>1, LessonCkpt
  <2>4. FilesInv' /\ RowsRun'
    BY <1>1, <2>1, LessonFiles, LessonRows
  <2>5. HolderInv' /\ FlowInv' /\ FinalInv'
    BY <1>1, <2>1, LessonHolder, LessonFlow, LessonFinal
  <2>6. ScoreInv' /\ ModelsInv' /\ OnceInv'
    BY <1>1, <2>1, LessonScore, LessonModels, LessonOnce
  <2>7. QED
    BY <2>2, <2>3, <2>4, <2>5, <2>6 DEF TrainInv, DirInv, LessonInv
<1>2. CASE Token /\ TokenNext
  <2>1. /\ PlaceInv /\ SaveAt /\ CkptInv /\ LastInv /\ FilesInv /\ RowsRun /\ TokenInv
    BY <1>2 DEF TrainInv, DirInv
  <2>2. PlaceInv' /\ SaveAt' /\ RowsRun' /\ Token'
    BY <1>2, <2>1, TokenPlace
  <2>3. CkptInv' /\ LastInv' /\ FilesInv'
    BY <1>2, <2>1, TokenDir
  <2>4. TokenInv'
    BY <1>2, <2>1, TokenStep
  <2>5. QED
    BY <2>2, <2>3, <2>4 DEF TrainInv, DirInv
<1>3. QED
  BY <1>1, <1>2

LEMMA TrainInvKept ==
    ASSUME TrainInv, UNCHANGED <<vars, lessonsVars, tokenVars>> PROVE TrainInv'
<1>1. /\ UNCHANGED <<phase, step, pc, completed, control, rows, progress, holder, lesson, parts,
                     measured, scores, collected, vals, savedEp>>
      /\ UNCHANGED <<files, index, saves, saving>>
  BY DEF vars, loopVars, ckptVars, lessonsVars, choiceVars, scoreVars, tokenVars
<1>2. /\ Saving' = Saving /\ Token' = Token /\ Here' = Here /\ Clock' = Clock
      /\ \A n, m : NewestIs(n, m)' = NewestIs(n, m)
  BY <1>1 DEF Saving, Token, Here, Offset, Clock, NewestIs, Newest, Whole
<1>3. DirInv => DirInv'
  <2>1. PlaceInv' = PlaceInv /\ SaveAt' = SaveAt /\ LastInv' = LastInv
    BY <1>1, <1>2 DEF PlaceInv, PhaseInv, SaveAt, LastInv
  <2>2. CkptInv => CkptInv'
    BY <1>1, <1>2 DEF CkptInv, CkptBase, SavingIsRecord, ListedIsWhole, Whole
  <2>3. FilesInv => FilesInv'
    BY <1>1, <1>2 DEF FilesInv, Extends
  <2>4. RowsRun => RowsRun'
    BY <1>1, <1>2 DEF RowsRun, StepsNeverGoBack
  <2>5. QED
    BY <2>1, <2>2, <2>3, <2>4 DEF DirInv
<1>4. LessonInv => LessonInv'
  <2>1. HolderInv' = HolderInv /\ FlowInv' = FlowInv
    BY <1>1, <1>2 DEF HolderInv, FlowInv
  <2>2. FinalInv => FinalInv'
    BY <1>1, <1>2 DEF FinalInv, Returned
  <2>3. ScoreInv => ScoreInv'
    BY <1>1 DEF ScoreInv, ScoresAreFresh
  <2>4. ModelsInv => ModelsInv'
    BY <1>1, <1>2 DEF ModelsInv, Known
  <2>5. OnceInv => OnceInv'
    BY <1>1, <1>2 DEF OnceInv, AtLast
  <2>6. QED
    BY <2>1, <2>2, <2>3, <2>4, <2>5 DEF LessonInv
<1>5. TokenInv => TokenInv'
  <2>1. TokenCounts => TokenCounts'
    BY <1>1 DEF TokenCounts
  <2>2. TokenSaves => TokenSaves'
    BY <1>1, <1>2 DEF TokenSaves
  <2>3. \A ep : Kept(ep)' = Kept(ep) /\ LowestFirst(ep)' = LowestFirst(ep)
    BY <1>1, <1>2 DEF Kept, LowestFirst
  <2>4. BestInv => BestInv'
    BY <1>1, <2>3 DEF BestInv
  <2>5. QED
    BY <2>1, <2>2, <2>4 DEF TokenInv
<1>6. QED
  BY <1>2, <1>3, <1>4, <1>5 DEF TrainInv

LEMMA TrainInvInit == TrainInit => TrainInv
<1> SUFFICES ASSUME TrainInit PROVE TrainInv
  OBVIOUS
<1>1. /\ Init /\ lesson \in Looped \cup Heads \cup {"force-token"} /\ parts \in PartsOf(lesson)
      /\ measured = 0 /\ scores = <<>> /\ collected = 0 /\ vals = <<>> /\ savedEp = 0
  BY DEF TrainInit, TokenInit, LessonsInit
<1>2. /\ phase = 1 /\ step = 0 /\ pc = "poll" /\ completed = "no" /\ rows = <<>> /\ progress = 0
      /\ holder = <<>> /\ saving.at = "idle" /\ index = [n \in {} |-> Torn] /\ ~Saving
      /\ saves = 0
  BY <1>1 DEF Init, CkptInit, Saving
<1>3. Steps \in Nat \ {0} /\ Phases \in Nat \ {0} /\ Episodes \in Nat /\ EvalEvery \in Nat \ {0}
  BY ForceTokenAssumption
<1>4. parts \in {1, 2, 3, 4} /\ (Token => parts = 1)
  BY <1>1 DEF PartsOf, TwoParts, Token
<1>5. DirInv
  <2>1. PlaceInv
    BY <1>1, <1>2, <1>3, <1>4 DEF PlaceInv, PhaseInv, Token
  <2>2. CkptInv
    BY <1>1, CkptInitInv DEF Init
  <2>3. SaveAt /\ LastInv /\ FilesInv
    BY <1>2 DEF SaveAt, LastInv, FilesInv
  <2>4. RowsRun
    BY <1>2 DEF RowsRun, StepsNeverGoBack
  <2>5. QED
    BY <2>1, <2>2, <2>3, <2>4 DEF DirInv
<1>6. LessonInv
  <2>1. HolderInv
    <3>1. PartsAt(0, Steps) = <<>>
      <4>1. PartsAt(0, Steps) \in Seq(Nat) /\ Len(PartsAt(0, Steps)) = 0
        BY <1>3, PartsAreSeq
      <4>2. QED
        BY <4>1
    <3>2. phase - 1 = 0
      BY <1>2
    <3>3. QED
      BY <1>2, <3>1, <3>2 DEF HolderInv
  <2>2. FlowInv /\ FinalInv
    BY <1>2 DEF FlowInv, FinalInv, Returned
  <2>3. ScoreInv
    BY <1>1, <1>2, <1>3 DEF ScoreInv, ScoresAreFresh
  <2>4. ModelsInv /\ OnceInv
    BY <1>2 DEF ModelsInv, OnceInv
  <2>5. QED
    BY <2>1, <2>2, <2>3, <2>4 DEF LessonInv
<1>7. Token => TokenInv
  <2>1. SUFFICES ASSUME Token PROVE TokenInv
    OBVIOUS
  <2>2. TokenCounts
    BY <1>1, <1>2, <1>3, <1>4, <2>1 DEF TokenCounts
  <2>3. TokenSaves /\ BestInv
    BY <1>1, <1>2, <1>3 DEF TokenSaves, BestInv
  <2>4. QED
    BY <2>2, <2>3 DEF TokenInv
<1>8. QED
  BY <1>5, <1>6, <1>7 DEF TrainInv

(***************************************************************************)
(* The invariant holds of every lesson, an evaluation beside it or not:    *)
(* train_loop's, the loops of their own, and the force-token one's.        *)
(***************************************************************************)
THEOREM TrainInvariance == TrainSpec => []TrainInv
<1>1. TrainInv /\ [TrainNext]_trainVars => TrainInv'
  <2> SUFFICES ASSUME TrainInv, [TrainNext]_trainVars PROVE TrainInv'
    OBVIOUS
  <2>1. CASE (~Token /\ LessonsNext) \/ (Token /\ TokenNext)
    BY <2>1, TrainInvStep
  <2>2. CASE UNCHANGED <<vars, lessonsVars, tokenVars>>
    BY <2>2, TrainInvKept
  <2>3. QED
    BY <2>1, <2>2 DEF TrainNext, EvalNext, trainVars, Token
<1>2. QED
  BY <1>1, TrainInvInit, PTL DEF TrainSpec

(***************************************************************************)
(* The rows of every lesson's chart never go back, and what its index      *)
(* lists can be loaded, an evaluation beside it or not.                    *)
(***************************************************************************)
THEOREM LessonRowsInOrder == TrainSpec => [](StepsNeverGoBack /\ ListedIsWhole)
<1>1. TrainInv => StepsNeverGoBack /\ ListedIsWhole
  BY DEF TrainInv, DirInv, RowsRun, CkptInv
<1>2. QED
  BY <1>1, TrainInvariance, PTL

\* A lesson that returned has its final models where it reports them.
LEMMA FinalIsSaved == TrainInv => LessonIsSaved
<1> SUFFICES ASSUME TrainInv, lesson \in Looped \/ completed = "all",
                    NEW n \in 1..Phases, n = parts, pc = "ended"
             PROVE  Loop(n)!EndIsSaved
  BY DEF LessonIsSaved, Loop!EndIsSaved
<1>1. PlaceInv /\ step \in Nat /\ phase \in Nat \ {0} /\ ~Saving
  BY DEF TrainInv, DirInv, PlaceInv, PhaseInv, SaveAt
<1>2. /\ NewestIs(progress, PartsAt(phase, step))
      /\ completed = "all" => phase = parts /\ step = Steps
  <2>1. CASE ~Token
    <3>1. LessonInv /\ Returned
      BY <2>1 DEF TrainInv, Returned
    <3>2. progress = Here /\ NewestIs(Here, PartsAt(phase, step))
      BY <1>1, <3>1 DEF LessonInv, FinalInv
    <3>3. completed = "all" => phase = parts /\ step = Steps
      BY <3>1 DEF LessonInv, FinalInv, FlowInv
    <3>4. QED
      BY <3>2, <3>3
  <2>2. CASE Token
    <3>1. TokenCounts /\ TokenSaves /\ phase = 1 /\ parts = 1
      BY <1>1, <2>2 DEF TrainInv, TokenInv, TokenCounts, PlaceInv
    <3>2. completed = "all" /\ step = Steps
      BY <2>2, <3>1 DEF Token, TokenCounts, Looped, TwoParts
    <3>3. /\ step > 0 /\ savedEp = step /\ collected = Episodes /\ progress = Episodes + savedEp
      BY <1>1, <3>1, <3>2, ForceTokenAssumption DEF TokenCounts, TokenSaves
    <3>4. NewestIs(Episodes + savedEp, <<savedEp>>)
      BY <1>1, <3>1, <3>3 DEF TokenSaves
    <3>5. <<savedEp>> = PartsAt(phase, step)
      <4>1. /\ PartsAt(1, step) \in Seq(Nat) /\ Len(PartsAt(1, step)) = 1 /\ PartsAt(1, step)[1] = step
        <5>1. /\ PartsAt(1, step) \in Seq(Nat) /\ Len(PartsAt(1, step)) = 1
              /\ \A k \in 1..1 : PartsAt(1, step)[k] = IF k < 1 THEN Steps ELSE step
          <6>1. 1 \in Nat /\ step \in Nat
            BY <1>1
          <6>2. QED
            BY <6>1, PartsAreSeq
        <5>2. QED
          BY <5>1
      <4>2. <<step>> \in Seq(Nat) /\ Len(<<step>>) = 1 /\ <<step>>[1] = step
        BY <1>1
      <4>3. <<step>> = PartsAt(1, step)
        BY <4>1, <4>2, SeqEqual
      <4>4. QED
        BY <3>1, <3>3, <4>3
    <3>6. QED
      BY <3>1, <3>2, <3>3, <3>4, <3>5
  <2>3. QED
    BY <2>1, <2>2
<1>3. QED
  BY <1>2 DEF Loop!EndIsSaved, Loop!Newest, Loop!Whole, NewestIs, Newest, Whole, PartsAt

\* Of the force-token epochs the best and the last are listed, whole.
LEMMA BestIsSaved == TrainInv => BestEpochIsKept
<1> SUFFICES ASSUME TrainInv, Token PROVE BestEpochIsKept
  BY DEF BestEpochIsKept, Token
<1>1. TokenInv /\ CkptInv /\ SaveAt /\ PlaceInv
  BY DEF TrainInv, DirInv
<1>2. \A i, k \in DOMAIN index : index[i].step = index[k].step => i = k
  BY <1>1 DEF TokenInv, TokenSaves
<1>3. ASSUME pc = "ended", step > 0
      PROVE  /\ saves \in DOMAIN index /\ Newest.model = <<step>> /\ files[LastPt] = <<step>>
             /\ \E i \in DOMAIN index :
                    LET ep == index[i].model[1]
                    IN  /\ Whole(index[i])
                        /\ \A e \in DOMAIN vals : vals[ep] <= vals[e]
                        /\ \A e \in 1..ep - 1 : vals[ep] < vals[e]
  <2>1. ~Saving
    BY <1>1, <1>3 DEF SaveAt
  <2>2. savedEp = step /\ NewestIs(Episodes + step, <<step>>)
    BY <1>1, <1>3, <2>1 DEF TokenInv, TokenSaves
  <2>3. PICK ep \in 1..step : LowestFirst(ep) /\ Kept(ep)
    BY <1>1, <1>3 DEF TokenInv, BestInv
  <2>4. PICK i \in DOMAIN index : index[i].model = <<ep>>
    BY <1>3, <2>1, <2>3 DEF Kept
  <2>5. Whole(index[i])
    <3>1. \A k \in DOMAIN index : index[k].step = index[i].step => k = i
      BY <1>2
    <3>2. i \in Nat
      BY <1>1 DEF CkptInv, CkptBase
    <3>3. \A k \in DOMAIN index : index[k].step = index[i].step => k <= i
      BY <3>1, <3>2
    <3>4. QED
      BY <1>1, <2>1, <3>3 DEF CkptInv, ListedIsWhole
  <2>6. DOMAIN vals = 1..step
    BY <1>1 DEF TokenInv, TokenCounts
  <2>7. index[i].model[1] = ep
    BY <2>4
  <2>8. /\ Whole(index[i])
        /\ \A e \in DOMAIN vals : vals[index[i].model[1]] <= vals[e]
        /\ \A e \in 1..index[i].model[1] - 1 : vals[index[i].model[1]] < vals[e]
    BY <2>3, <2>5, <2>6, <2>7 DEF LowestFirst
  <2>9. QED
    BY <2>2, <2>8 DEF NewestIs
<1>4. QED
  BY <1>2, <1>3 DEF BestEpochIsKept

(***************************************************************************)
(* What a lesson saves is what it trained and measured: its final models   *)
(* are in last.pt and listed, an encoding's score is that of the weights   *)
(* saved with it, and the best and the last force-token epoch are there.   *)
(***************************************************************************)
THEOREM LessonsAreSaved == TrainSpec => []SavedAsMeasured
<1>1. TrainInv => ScoresAreFresh
  BY DEF TrainInv, LessonInv, ScoreInv, ScoresAreFresh, Token
<1>2. TrainInv => SavedAsMeasured
  BY <1>1, FinalIsSaved, BestIsSaved DEF SavedAsMeasured
<1>3. QED
  BY <1>2, TrainInvariance, PTL

-----------------------------------------------------------------------------
(***************************************************************************)
(* The evaluation.  A file is found torn only when it is being saved for   *)
(* the second time, and from then on it is.                                *)
(***************************************************************************)
Twice(n) ==
    \/ Saving /\ saving.step = n
    \/ \E i, k \in DOMAIN index : i # k /\ index[i].step = n /\ index[k].step = n

ReadInv ==
    /\ reader \in {"idle", "posted", "started", "loaded", "failed", "done"}
    /\ Token => reader = "idle"
    /\ want \in Nat
    /\ reader # "idle" => \E i \in DOMAIN index : index[i] = picked
    /\ reader \in {"idle", "posted", "started"} => loaded = Torn
    /\ reader = "loaded" => loaded # Torn
    /\ loaded # Torn => Extends(picked.model, loaded)
    /\ reader = "failed" /\ loaded = Torn => Twice(picked.step)
    /\ reader = "failed" /\ loaded # Torn /\ want <= parts => DOMAIN picked.model # 1..parts

LEMMA SavesOnlyAdd ==
    ASSUME TrainInv, (~Token /\ LessonsNext) \/ (Token /\ TokenNext)
    PROVE  /\ \A i \in DOMAIN index : i \in DOMAIN index' /\ index'[i] = index[i]
           /\ \A n : (\E i \in DOMAIN index : index[i].step = n) /\ Twice(n) => Twice(n)'
           /\ parts' = parts /\ Token' = Token
<1>1. CkptBase
  BY DEF TrainInv, DirInv, CkptInv
<1>2. parts' = parts /\ Token' = Token
  BY LessonCases DEF TokenNext, lessonsVars, choiceVars, Token
<1>3. \/ UNCHANGED ckptVars
      \/ SaveStep
      \/ ~Saving /\ \E n, l, m : BeginSave(n, l, m)
  <2>1. CASE ~Token /\ LessonsNext
    BY <2>1, LessonKinds DEF TrainInv, DirInv, LessonInv, Begins, ContinueSave
  <2>2. CASE Token /\ TokenNext
    BY <2>2, TokenKinds DEF TrainInv, DirInv, SaveEpoch
  <2>3. QED
    BY <2>1, <2>2
<1>4. \A i \in DOMAIN index : i \in DOMAIN index' /\ index'[i] = index[i]
  BY <1>1, <1>3, IndexOnlyGrows
<1>5. ASSUME NEW n, NEW i \in DOMAIN index, index[i].step = n, Twice(n) PROVE Twice(n)'
  <2>1. CASE \E j, k \in DOMAIN index : j # k /\ index[j].step = n /\ index[k].step = n
    BY <1>4, <2>1 DEF Twice
  <2>2. CASE Saving /\ saving.step = n
    <3>1. CASE UNCHANGED ckptVars
      BY <2>2, <3>1 DEF Twice, ckptVars, Saving
    <3>2. CASE SaveStep /\ Saving'
      BY <1>1, <2>2, <3>2, SaveStepEffect DEF Twice
    <3>3. CASE SaveStep /\ ~Saving'
      <4>1. /\ saves + 1 \notin DOMAIN index /\ saves + 1 \in DOMAIN index'
            /\ index'[saves + 1].step = n
        BY <1>1, <2>2, <3>3, SaveStepEffect DEF Entry
      <4>2. i \in DOMAIN index' /\ index'[i].step = n /\ i # saves + 1
        BY <1>4, <1>5, <4>1
      <4>3. QED
        BY <4>1, <4>2 DEF Twice
    <3>4. QED
      BY <1>3, <2>2, <3>1, <3>2, <3>3
  <2>3. QED
    BY <1>5, <2>1, <2>2 DEF Twice
<1>6. QED
  BY <1>2, <1>4, <1>5

LEMMA ReadKept ==
    ASSUME TrainInv, ReadInv, (~Token /\ LessonsNext) \/ (Token /\ TokenNext), UNCHANGED readVars
    PROVE  ReadInv'
<1>1. /\ reader' = reader /\ picked' = picked /\ want' = want /\ loaded' = loaded
  BY DEF readVars
<1>2. /\ \A i \in DOMAIN index : i \in DOMAIN index' /\ index'[i] = index[i]
      /\ \A n : (\E i \in DOMAIN index : index[i].step = n) /\ Twice(n) => Twice(n)'
      /\ parts' = parts /\ Token' = Token
  BY SavesOnlyAdd
<1>3. reader # "idle" => \E i \in DOMAIN index' : index'[i] = picked
  BY <1>2 DEF ReadInv
<1>4. reader = "failed" /\ loaded = Torn => Twice(picked.step)'
  <2>1. SUFFICES ASSUME reader = "failed", loaded = Torn PROVE Twice(picked.step)'
    OBVIOUS
  <2>2. /\ \E i \in DOMAIN index : index[i].step = picked.step
        /\ Twice(picked.step)
    BY <2>1 DEF ReadInv
  <2>3. PICK n : n = picked.step
    OBVIOUS
  <2>4. Twice(n)'
    BY <1>2, <2>2, <2>3
  <2>5. QED
    BY <1>1, <2>3, <2>4 DEF Twice
<1>5. QED
  BY <1>1, <1>2, <1>3, <1>4 DEF ReadInv, Extends

LEMMA RebuildsAll ==
    ASSUME ~Token, PlaceInv, NEW l, NEW needs, lesson = l, needs \subseteq 1..parts,
           ReadInv, Rebuild(l, needs), UNCHANGED <<vars, lessonsVars, tokenVars>>
    PROVE  ReadInv'
<1>1. /\ reader = "loaded" /\ UNCHANGED <<picked, want, loaded>> /\ loaded # Torn
      /\ reader' = IF needs \subseteq DOMAIN loaded THEN "done" ELSE "failed"
      /\ parts' = parts /\ index' = index /\ Token' = Token
  BY DEF Rebuild, ReadInv, lessonsVars, choiceVars, vars, ckptVars, Token
<1>2. ~(needs \subseteq DOMAIN loaded) => DOMAIN picked.model # 1..parts
  BY <1>1 DEF ReadInv, Extends
<1>3. QED
  BY <1>1, <1>2 DEF ReadInv, Extends

LEMMA ReadStep ==
    ASSUME TrainInv, ReadInv, EvalNext
    PROVE  ReadInv'
<1>1. /\ UNCHANGED <<vars, lessonsVars, tokenVars>> /\ ~Token
      /\ CkptInv /\ FilesInv /\ PlaceInv
  BY DEF EvalNext, TrainInv, DirInv, Token
<1>2. /\ parts' = parts /\ index' = index /\ files' = files /\ saving' = saving /\ ~Token'
      /\ Saving' = Saving /\ UNCHANGED lesson
  BY <1>1 DEF lessonsVars, choiceVars, vars, ckptVars, Token, Saving
<1>3. CASE Pick
  BY <1>2, <1>3 DEF Pick, ReadInv, Extends
<1>4. CASE Resolve
  <2>1. picked.step \in DOMAIN files
    BY <1>1, <1>4 DEF Resolve, ReadInv, FilesInv
  <2>2. QED
    BY <1>2, <1>4, <2>1 DEF Resolve, ReadInv, Extends
<1>5. CASE Load
  <2>1. /\ reader = "started" /\ loaded' = files[picked.step] /\ UNCHANGED <<picked, want>>
        /\ reader' = IF loaded' = Torn THEN "failed" ELSE "loaded"
    BY <1>5 DEF Load
  <2>2. PICK i \in DOMAIN index : index[i] = picked
    BY <2>1 DEF ReadInv
  <2>3. /\ loaded' # Torn => Extends(picked.model, loaded)'
        /\ loaded' = Torn => Twice(picked.step)'
    BY <1>1, <1>2, <2>1, <2>2 DEF FilesInv, Extends, Twice
  <2>4. QED
    BY <1>2, <2>1, <2>3 DEF ReadInv
<1>6. CASE EvaluateEmbeddings
  <2>1. /\ reader = "loaded" /\ UNCHANGED <<picked, want, loaded>> /\ loaded # Torn
        /\ reader' \in {"done", "failed"}
    BY <1>6 DEF EvaluateEmbeddings, ReadInv
  <2>2. reader' = "failed" /\ want <= parts => DOMAIN picked.model # 1..parts
    <3>1. SUFFICES ASSUME reader' = "failed", want <= parts, DOMAIN picked.model = 1..parts
                   PROVE  FALSE
      OBVIOUS
    <3>2. PICK a \in IF want = 0 THEN Best ELSE {want} : a \notin DOMAIN loaded
      BY <1>6, <3>1 DEF EvaluateEmbeddings
    <3>3. want # 0 /\ a = want
      BY <3>2 DEF Best
    <3>4. want \in 1..parts
      BY <1>1, <3>1, <3>3, PartsPositive DEF ReadInv
    <3>5. QED
      BY <2>1, <3>1, <3>2, <3>3, <3>4 DEF ReadInv, Extends
  <2>3. QED
    BY <1>2, <2>1, <2>2 DEF ReadInv, Extends
<1>7. CASE EvaluateBcMse
  <2>1. lesson = "bc-mse" /\ Rebuild("bc-mse", {1, 2})
    BY <1>7 DEF EvaluateBcMse, Rebuild
  <2>2. parts = 2
    BY <1>1, <2>1 DEF PlaceInv, PartsOf, TwoParts
  <2>3. QED
    BY <1>1, <2>1, <2>2, RebuildsAll
<1>8. CASE EvaluateFlow
  <2>1. lesson = "flow" /\ Rebuild("flow", {1, 2})
    BY <1>8 DEF EvaluateFlow, Rebuild
  <2>2. parts = 2
    BY <1>1, <2>1 DEF PlaceInv, PartsOf, TwoParts
  <2>3. QED
    BY <1>1, <2>1, <2>2, RebuildsAll
<1>9. CASE EvaluateTokenize
  <2>1. lesson = "tokenize" /\ Rebuild("tokenize", {1, 2, 3})
    BY <1>9 DEF EvaluateTokenize, Rebuild
  <2>2. parts = 3
    BY <1>1, <2>1 DEF PlaceInv, PartsOf, TwoParts
  <2>3. QED
    BY <1>1, <2>1, <2>2, RebuildsAll
<1>10. CASE \/ EvaluateFlowBc \/ EvaluateTaVla \/ EvaluateAttention \/ EvaluateVit
            \/ EvaluateCrossAttn \/ EvaluateFindDigit
  <2>1. Rebuild(lesson, {1})
    BY <1>10 DEF EvaluateFlowBc, EvaluateTaVla, EvaluateAttention, EvaluateVit,
                 EvaluateCrossAttn, EvaluateFindDigit, Rebuild
  <2>2. {1} \subseteq 1..parts
    BY <1>1, PartsPositive
  <2>3. QED
    BY <1>1, <2>1, <2>2, RebuildsAll
<1>11. QED
  BY <1>3, <1>4, <1>5, <1>6, <1>7, <1>8, <1>9, <1>10 DEF EvalNext

LEMMA ListedIsRead == TrainInv /\ ReadInv => EvaluatesTheListed
<1> SUFFICES ASSUME TrainInv, ReadInv PROVE EvaluatesTheListed
  OBVIOUS
<1>1. loaded # Torn => \A p \in DOMAIN picked.model :
                           p \in DOMAIN loaded /\ loaded[p] = picked.model[p]
  BY DEF ReadInv, Extends
<1>2. ASSUME reader = "failed", loaded = Torn
      PROVE  \/ Saving /\ saving.step = picked.step
             \/ \E i, k \in DOMAIN index : i # k /\ {index[i].step, index[k].step} = {picked.step}
  BY <1>2 DEF ReadInv, Twice
<1>3. ASSUME pc = "ended", completed = "all", picked = Newest, want <= parts
      PROVE  reader \notin {"failed", "refused"}
  <2>1. CASE Token
    BY <2>1 DEF ReadInv
  <2>2. CASE ~Token
    <3>1. PlaceInv /\ LessonInv /\ Returned /\ ~Saving
      BY <1>3, <2>2 DEF TrainInv, DirInv, Returned, SaveAt
    <3>2. /\ NewestIs(Here, PartsAt(phase, step)) /\ phase = parts /\ step = Steps
      BY <1>3, <3>1 DEF LessonInv, FinalInv, FlowInv
    <3>3. picked.step = At(parts, Steps) /\ picked.model = PartsAt(parts, Steps)
      BY <1>3, <3>1, <3>2, HereIsNat DEF NewestIs
    <3>4. DOMAIN picked.model = 1..parts
      BY <3>3 DEF PartsAt
    <3>5. ~Twice(picked.step)
      BY <3>1, <3>3 DEF Twice, LessonInv, OnceInv
    <3>6. QED
      BY <1>3, <3>4, <3>5 DEF ReadInv
  <2>3. QED
    BY <2>1, <2>2
<1>4. QED
  BY <1>1, <1>2, <1>3 DEF EvaluatesTheListed

(***************************************************************************)
(* An evaluation reads the weights it was asked for in every part, finds   *)
(* the file torn only if the run saves that step twice, and can evaluate   *)
(* the last checkpoint of a lesson that is done.                           *)
(***************************************************************************)
THEOREM TheListedIsEvaluated == TrainSpec => []EvaluatesTheListed
<1>1. TrainInit => ReadInv
  <2> SUFFICES ASSUME TrainInit PROVE ReadInv
    OBVIOUS
  <2>1. /\ reader = "idle" /\ loaded = Torn /\ want \in Nat
    BY DEF TrainInit, ReadInit
  <2>2. QED
    BY <2>1 DEF ReadInv
<1>2. TrainInv /\ ReadInv /\ [TrainNext]_trainVars => ReadInv'
  <2> SUFFICES ASSUME TrainInv, ReadInv, [TrainNext]_trainVars PROVE ReadInv'
    OBVIOUS
  <2>1. CASE ((~Token /\ LessonsNext) \/ (Token /\ TokenNext)) /\ UNCHANGED readVars
    BY <2>1, ReadKept
  <2>2. CASE EvalNext
    BY <2>2, ReadStep
  <2>3. CASE UNCHANGED trainVars
    BY <2>3 DEF trainVars, readVars, vars, ckptVars, lessonsVars, choiceVars, ReadInv, Extends,
                Twice, Saving, Token
  <2>4. QED
    BY <2>1, <2>2, <2>3 DEF TrainNext, Token
<1>3. QED
  BY <1>1, <1>2, TrainInvariance, ListedIsRead, PTL DEF TrainSpec
=============================================================================
