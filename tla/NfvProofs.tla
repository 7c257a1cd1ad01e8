----------------------------- MODULE NfvProofs -----------------------------
(***************************************************************************)
(* Proofs about nfv: of ResidualRL and the simulated deployment, for any   *)
(* number of slots, any length of a segment and any budget, decaying or    *)
(* not; of ForcePrompt, what the prompt may be while a demo of any length  *)
(* is followed, and what a success of the gantry takes, for any number of  *)
(* control samples, dwelling steps and coverage cells; and of lesson 19's  *)
(* suite and its evaluation, for any number of seeds.                      *)
(***************************************************************************)
EXTENDS ResidualRL, ForcePrompt, SeedSuite, SeedEval,
        FiniteSetTheorems, SequenceTheorems, WellFoundedInduction, TLAPS

USE RLAssumption DEF RLAssumption, Envs

-----------------------------------------------------------------------------
(***************************************************************************)
(* The slots' episodes and what the buffer holds of them.                  *)
(***************************************************************************)
Rows == [intervened : BOOLEAN, ok : BOOLEAN, ep : Nat]

SlotsOK ==
    /\ turn \in 0..Slots
    /\ active \in [Envs -> BOOLEAN] /\ seg \in [Envs -> Nat]
    /\ last \in [Envs -> Nat] /\ ep \in [Envs -> Nat] /\ episodes \in Nat
    /\ buf \in Seq(Rows) /\ opSteps \in Nat

\* Every slot has an episode of its own, and so has every slot to come.
OwnEpisodes ==
    /\ \A s \in Envs : ep[s] <= episodes
    /\ \A s, r \in Envs : s # r => ep[s] # ep[r]
    /\ \A i \in DOMAIN buf : buf[i].ep <= episodes

\* last[s] is the latest transition of the episode of s, if it has one yet.
LatestIs(s) ==
    /\ last[s] \in 0..now
    /\ last[s] # 0 => buf[last[s]].ep = ep[s]
    /\ \A i \in DOMAIN buf : i > last[s] => buf[i].ep # ep[s]

LastIsLatest == \A s \in Envs : LatestIs(s)

\* An operator in the middle of a segment has stored the step before.
OperatorStored ==
    \A s \in Envs : active[s] => last[s] # 0 /\ buf[last[s]].intervened

NoneOfHis == \A i \in DOMAIN buf : buf[i].intervened => ~buf[i].ok

CutInv ==
    SlotsOK /\ OwnEpisodes /\ LastIsLatest /\ OperatorStored /\ NoneOfHis /\ BoundaryIsCut

LEMMA CutAtFirst == RLInit => CutInv
<1> SUFFICES ASSUME RLInit PROVE CutInv
  OBVIOUS
<1> USE DEF RLInit
<1>1. SlotsOK
  BY DEF SlotsOK
<1>2. buf = <<>> /\ DOMAIN buf = {} /\ now = 0
  BY DEF now
<1>3. OwnEpisodes
  BY <1>2 DEF OwnEpisodes
<1>4. LastIsLatest
  BY <1>2 DEF LastIsLatest, LatestIs
<1>5. OperatorStored /\ NoneOfHis /\ BoundaryIsCut
  BY <1>2 DEF OperatorStored, NoneOfHis, BoundaryIsCut
<1>6. QED
  BY <1>1, <1>3, <1>4, <1>5 DEF CutInv

\* Marking keeps every transition but for its eligibility, which it only takes.
LEMMA MarkedIsCut ==
    ASSUME buf \in Seq(Rows), NEW s \in Envs
    PROVE  /\ Marked(s) \in Seq(Rows) /\ Len(Marked(s)) = Len(buf)
           /\ \A i \in DOMAIN buf :
                 /\ Marked(s)[i].intervened = buf[i].intervened
                 /\ Marked(s)[i].ep = buf[i].ep
                 /\ Marked(s)[i].ok => buf[i].ok
                 /\ i = last[s] => buf[i].intervened \/ ~Marked(s)[i].ok
<1>1. DOMAIN buf = 1..Len(buf) /\ Len(buf) \in Nat
  OBVIOUS
<1>2. \A i \in DOMAIN buf : buf[i] \in Rows
  OBVIOUS
<1>3. \A i \in DOMAIN buf : [buf[i] EXCEPT !.ok = FALSE] \in Rows
  BY <1>2 DEF Rows
<1>4. Marked(s) \in [1..Len(buf) -> Rows]
  BY <1>1, <1>2, <1>3 DEF Marked
<1>5. Marked(s) \in Seq(Rows) /\ Len(Marked(s)) = Len(buf)
  BY <1>1, <1>4
<1>6. ASSUME NEW i \in DOMAIN buf
      PROVE  /\ Marked(s)[i].intervened = buf[i].intervened
             /\ Marked(s)[i].ep = buf[i].ep
             /\ Marked(s)[i].ok => buf[i].ok
             /\ i = last[s] => buf[i].intervened \/ ~Marked(s)[i].ok
  <2>1. buf[i] \in Rows
    BY <1>2
  <2>2. CASE i = last[s] /\ ~buf[i].intervened
    BY <2>1, <2>2 DEF Marked, Rows
  <2>3. CASE ~(i = last[s] /\ ~buf[i].intervened)
    BY <2>1, <2>3 DEF Marked
  <2>4. QED
    BY <2>2, <2>3
<1>7. QED
  BY <1>5, <1>6

(***************************************************************************)
(* What a step makes of the buffer: one transition more, and the last of   *)
(* its episode loses its eligibility if the operator takes over after it.  *)
(***************************************************************************)
Grows(s, iv, begins) ==
    /\ buf' \in Seq(Rows) /\ Len(buf') = Len(buf) + 1
    /\ buf'[Len(buf) + 1] = Transition(s, iv)
    /\ \A i \in DOMAIN buf :
          /\ i \in DOMAIN buf'
          /\ buf'[i].intervened = buf[i].intervened
          /\ buf'[i].ep = buf[i].ep
          /\ buf'[i].ok => buf[i].ok
          /\ begins /\ i = last[s] => buf[i].intervened \/ ~buf'[i].ok

LEMMA StoredGrows ==
    ASSUME SlotsOK, NEW s \in Envs, NEW iv \in BOOLEAN, NEW begins \in BOOLEAN,
           Stored(s, iv, begins)
    PROVE  Grows(s, iv, begins)
<1> DEFINE b == IF begins THEN Marked(s) ELSE buf
<1>1. buf \in Seq(Rows) /\ Len(buf) \in Nat /\ DOMAIN buf = 1..Len(buf)
  BY DEF SlotsOK
<1>2. /\ b \in Seq(Rows) /\ Len(b) = Len(buf)
      /\ \A i \in DOMAIN buf :
            /\ b[i].intervened = buf[i].intervened
            /\ b[i].ep = buf[i].ep
            /\ b[i].ok => buf[i].ok
            /\ begins /\ i = last[s] => buf[i].intervened \/ ~b[i].ok
  BY <1>1, MarkedIsCut
<1>3. Transition(s, iv) \in Rows
  BY DEF Transition, Rows, SlotsOK
<1>4. buf' = Append(b, Transition(s, iv))
  BY DEF Stored
<1> HIDE DEF b
<1>5. /\ buf' \in Seq(Rows) /\ Len(buf') = Len(buf) + 1
      /\ buf'[Len(buf) + 1] = Transition(s, iv)
      /\ \A i \in 1..Len(buf) : buf'[i] = b[i]
  BY <1>1, <1>2, <1>3, <1>4
<1>6. DOMAIN buf' = 1..Len(buf) + 1
  BY <1>1, <1>5
<1>7. QED
  BY <1>1, <1>2, <1>5, <1>6 DEF Grows

LEMMA GrowthKeepsTheCut ==
    ASSUME CutInv, NEW s \in Envs, NEW iv \in BOOLEAN, NEW begins \in BOOLEAN,
           Grows(s, iv, begins), iv => active[s] \/ begins
    PROVE  NoneOfHis' /\ BoundaryIsCut'
<1>1. buf \in Seq(Rows) /\ Len(buf) \in Nat /\ DOMAIN buf = 1..Len(buf)
  BY DEF CutInv, SlotsOK
<1>2. DOMAIN buf' = 1..Len(buf) + 1
  BY <1>1 DEF Grows
<1>3. /\ buf'[Len(buf) + 1].ep = ep[s] /\ buf'[Len(buf) + 1].intervened = iv
      /\ buf'[Len(buf) + 1].ok = ~iv
  BY DEF Grows, Transition
<1>4. NoneOfHis'
  <2> SUFFICES ASSUME NEW i \in DOMAIN buf', buf'[i].intervened PROVE ~buf'[i].ok
    BY DEF NoneOfHis
  <2>1. CASE i \in DOMAIN buf
    BY <2>1 DEF CutInv, NoneOfHis, Grows
  <2>2. CASE i = Len(buf) + 1
    BY <2>2, <1>3
  <2>3. QED
    BY <2>1, <2>2, <1>1, <1>2
<1>5. BoundaryIsCut'
  <2> SUFFICES ASSUME NEW i \in DOMAIN buf', NEW j \in DOMAIN buf',
                      Follows(i, j)', buf'[j].intervened
               PROVE  ~buf'[i].ok
    BY DEF BoundaryIsCut
  <2>1. i < j /\ buf'[i].ep = buf'[j].ep /\ \A k \in i+1..j-1 : buf'[k].ep # buf'[i].ep
    BY DEF Follows
  <2>2. i \in DOMAIN buf
    BY <2>1, <1>1, <1>2
  <2>3. CASE j \in DOMAIN buf
    <3>1. \A k \in i+1..j-1 : k \in DOMAIN buf
      BY <2>2, <2>3, <1>1
    <3>2. Follows(i, j) /\ buf[j].intervened
      BY <2>1, <2>2, <2>3, <3>1 DEF Follows, Grows
    <3>3. ~buf[i].ok
      BY <2>2, <2>3, <3>2 DEF CutInv, BoundaryIsCut
    <3>4. QED
      BY <2>2, <3>3 DEF Grows
  <2>4. CASE j = Len(buf) + 1
    <3>1. buf[i].ep = ep[s] /\ iv
      BY <2>1, <2>2, <2>4, <1>3 DEF Grows
    <3>2. LatestIs(s)
      BY DEF CutInv, LastIsLatest
    <3>3. i <= last[s] /\ last[s] \in 0..Len(buf)
      BY <2>2, <3>1, <3>2, <1>1 DEF LatestIs, now
    <3>4. i = last[s]
      <4> SUFFICES ASSUME i < last[s] PROVE FALSE
        BY <3>3, <2>2, <1>1
      <4>1. last[s] \in DOMAIN buf /\ last[s] \in i+1..j-1
        BY <3>3, <2>2, <2>4, <1>1
      <4>2. buf[last[s]].ep = ep[s]
        BY <4>1, <3>2, <1>1 DEF LatestIs
      <4>3. buf'[last[s]].ep = ep[s] /\ buf'[i].ep = ep[s]
        BY <4>1, <4>2, <3>1, <2>2 DEF Grows
      <4>4. QED
        BY <4>1, <4>3, <2>1
    <3>5. CASE active[s]
      <4>1. buf[i].intervened
        BY <3>4, <3>5 DEF CutInv, OperatorStored
      <4>2. ~buf[i].ok
        BY <4>1, <2>2 DEF CutInv, NoneOfHis
      <4>3. QED
        BY <4>2, <2>2 DEF Grows
    <3>6. CASE begins
      <4>1. buf[i].intervened \/ ~buf'[i].ok
        BY <3>4, <3>6, <2>2 DEF Grows
      <4>2. buf[i].intervened => ~buf[i].ok
        BY <2>2 DEF CutInv, NoneOfHis
      <4>3. buf'[i].ok => buf[i].ok
        BY <2>2 DEF Grows
      <4>4. QED
        BY <4>1, <4>2, <4>3
    <3>7. QED
      BY <3>1, <3>5, <3>6
  <2>5. QED
    BY <2>3, <2>4, <1>1, <1>2
<1>6. QED
  BY <1>4, <1>5

-----------------------------------------------------------------------------
(***************************************************************************)
(* A step of a slot that ends its episode, and one that does not.          *)
(***************************************************************************)
\* The other slots' episodes are not disturbed.
LEMMA OthersAreLatest ==
    ASSUME buf \in Seq(Rows), NEW s \in Envs, NEW iv \in BOOLEAN, NEW begins \in BOOLEAN,
           Grows(s, iv, begins), NEW r \in Envs, LatestIs(r), ep[r] # ep[s],
           last'[r] = last[r], ep'[r] = ep[r]
    PROVE  LatestIs(r)'
<1>1. /\ Len(buf) \in Nat /\ DOMAIN buf = 1..Len(buf)
      /\ DOMAIN buf' = 1..Len(buf) + 1 /\ Len(buf') = Len(buf) + 1
  BY DEF Grows
<1>2. /\ \A i \in DOMAIN buf : buf'[i].ep = buf[i].ep
      /\ buf'[Len(buf) + 1].ep = ep[s]
  BY DEF Grows, Transition
<1>3. last[r] \in 0..Len(buf)
  BY DEF LatestIs, now
<1>4. last'[r] \in 0..now'
  BY <1>1, <1>3 DEF now
<1>5. last'[r] # 0 => buf'[last'[r]].ep = ep'[r]
  BY <1>1, <1>2, <1>3 DEF LatestIs
<1>6. ASSUME NEW i \in DOMAIN buf', i > last'[r] PROVE buf'[i].ep # ep'[r]
  <2>1. CASE i \in DOMAIN buf
    BY <2>1, <1>2, <1>6 DEF LatestIs
  <2>2. CASE i = Len(buf) + 1
    BY <2>2, <1>2
  <2>3. QED
    BY <2>1, <2>2, <1>1
<1>7. QED
  BY <1>4, <1>5, <1>6 DEF LatestIs

LEMMA EpisodeEndsKeeps ==
    ASSUME CutInv, NEW s \in Envs, NEW iv \in BOOLEAN, NEW begins \in BOOLEAN,
           Grows(s, iv, begins), StartTrain(s)
    PROVE  OwnEpisodes' /\ LastIsLatest' /\ OperatorStored'
<1>1. /\ buf \in Seq(Rows) /\ Len(buf) \in Nat /\ DOMAIN buf = 1..Len(buf)
      /\ DOMAIN buf' = 1..Len(buf) + 1 /\ now' = Len(buf) + 1
  BY DEF CutInv, SlotsOK, Grows, now
<1>2. /\ episodes \in Nat /\ episodes' = episodes + 1
      /\ ep \in [Envs -> Nat] /\ ep' = [ep EXCEPT ![s] = episodes + 1]
      /\ last \in [Envs -> Nat] /\ last' = [last EXCEPT ![s] = 0]
      /\ active \in [Envs -> BOOLEAN] /\ active' = [active EXCEPT ![s] = FALSE]
  BY DEF CutInv, SlotsOK, StartTrain
<1>3. /\ \A i \in DOMAIN buf : buf'[i].ep = buf[i].ep
      /\ \A i \in DOMAIN buf : buf'[i].intervened = buf[i].intervened
      /\ buf'[Len(buf) + 1].ep = ep[s]
  BY DEF Grows, Transition
<1>4. /\ \A r \in Envs : ep[r] <= episodes
      /\ \A r, q \in Envs : r # q => ep[r] # ep[q]
      /\ \A i \in DOMAIN buf : buf[i].ep <= episodes
  BY DEF CutInv, OwnEpisodes
<1>5. \A i \in DOMAIN buf' : buf'[i].ep \in Nat /\ buf'[i].ep <= episodes
  <2>1. \A i \in DOMAIN buf : buf[i].ep \in Nat
    <3>1. \A i \in DOMAIN buf : buf[i] \in Rows
      BY <1>1
    <3>2. QED
      BY <3>1 DEF Rows
  <2>2. CutInv /\ ep[s] \in Nat /\ ep[s] <= episodes
    BY <1>2, <1>4
  <2>3. QED
    BY <1>1, <1>3, <1>4, <2>1, <2>2
<1>6. OwnEpisodes'
  <2>1. \A r \in Envs : ep'[r] <= episodes'
    BY <1>2, <1>4
  <2>2. \A r, q \in Envs : r # q => ep'[r] # ep'[q]
    BY <1>2, <1>4
  <2>3. \A i \in DOMAIN buf' : buf'[i].ep <= episodes'
    BY <1>2, <1>5
  <2>4. QED
    BY <2>1, <2>2, <2>3 DEF OwnEpisodes
<1>7. ASSUME NEW r \in Envs PROVE LatestIs(r)'
  <2>1. CASE r = s
    <3>1. last'[r] = 0 /\ ep'[r] = episodes + 1
      BY <2>1, <1>2
    <3>2. QED
      BY <3>1, <1>1, <1>2, <1>5 DEF LatestIs
  <2>2. CASE r # s
    <3>1. last'[r] = last[r] /\ ep'[r] = ep[r] /\ ep[r] # ep[s]
      BY <2>2, <1>2, <1>4
    <3>2. LatestIs(r)
      BY DEF CutInv, LastIsLatest
    <3>3. QED
      BY <3>1, <3>2, <1>1, <1>2, OthersAreLatest
  <2>3. QED
    BY <2>1, <2>2
<1>8. OperatorStored'
  <2> SUFFICES ASSUME NEW r \in Envs, active'[r]
               PROVE  last'[r] # 0 /\ buf'[last'[r]].intervened
    BY DEF OperatorStored
  <2>1. r # s /\ active[r] /\ last'[r] = last[r]
    BY <1>2
  <2>2. last[r] # 0 /\ buf[last[r]].intervened /\ last[r] \in DOMAIN buf
    BY <2>1, <1>1 DEF CutInv, OperatorStored, LastIsLatest, LatestIs, now
  <2>3. QED
    BY <2>1, <2>2, <1>3
<1>9. QED
  BY <1>6, <1>7, <1>8 DEF LastIsLatest

LEMMA EpisodeGoesOnKeeps ==
    ASSUME CutInv, NEW s \in Envs, NEW iv \in BOOLEAN, NEW begins \in BOOLEAN,
           NEW stuck \in BOOLEAN, Grows(s, iv, begins), Operated(s, iv, begins, stuck),
           last' = [last EXCEPT ![s] = Len(buf')], UNCHANGED <<ep, episodes>>
    PROVE  OwnEpisodes' /\ LastIsLatest' /\ OperatorStored'
<1>1. /\ buf \in Seq(Rows) /\ Len(buf) \in Nat /\ DOMAIN buf = 1..Len(buf)
      /\ DOMAIN buf' = 1..Len(buf) + 1 /\ Len(buf') = Len(buf) + 1 /\ now' = Len(buf) + 1
  BY DEF CutInv, SlotsOK, Grows, now
<1>2. /\ last \in [Envs -> Nat] /\ active \in [Envs -> BOOLEAN] /\ ep \in [Envs -> Nat]
      /\ \A r \in Envs : r # s => last'[r] = last[r] /\ active'[r] = active[r]
      /\ last'[s] = Len(buf) + 1 /\ (active'[s] => iv)
  BY <1>1 DEF CutInv, SlotsOK, Operated
<1>3. /\ \A i \in DOMAIN buf : buf'[i].ep = buf[i].ep
      /\ \A i \in DOMAIN buf : buf'[i].intervened = buf[i].intervened
      /\ buf'[Len(buf) + 1].ep = ep[s] /\ buf'[Len(buf) + 1].intervened = iv
  BY DEF Grows, Transition
<1>4. /\ \A r \in Envs : ep[r] <= episodes
      /\ \A r, q \in Envs : r # q => ep[r] # ep[q]
      /\ \A i \in DOMAIN buf : buf[i].ep <= episodes
  BY DEF CutInv, OwnEpisodes
<1>5. OwnEpisodes'
  BY <1>1, <1>3, <1>4 DEF OwnEpisodes
<1>6. ASSUME NEW r \in Envs PROVE LatestIs(r)'
  <2>1. CASE r = s
    BY <2>1, <1>1, <1>2, <1>3 DEF LatestIs
  <2>2. CASE r # s
    <3>1. last'[r] = last[r] /\ ep[r] # ep[s]
      BY <2>2, <1>2, <1>4
    <3>2. LatestIs(r)
      BY DEF CutInv, LastIsLatest
    <3>3. QED
      BY <3>1, <3>2, <1>1, <1>2, OthersAreLatest
  <2>3. QED
    BY <2>1, <2>2
<1>7. OperatorStored'
  <2> SUFFICES ASSUME NEW r \in Envs, active'[r]
               PROVE  last'[r] # 0 /\ buf'[last'[r]].intervened
    BY DEF OperatorStored
  <2>1. CASE r = s
    BY <2>1, <1>1, <1>2, <1>3
  <2>2. CASE r # s
    <3>1. active[r] /\ last'[r] = last[r]
      BY <2>2, <1>2
    <3>2. last[r] # 0 /\ buf[last[r]].intervened /\ last[r] \in DOMAIN buf
      BY <3>1, <1>1 DEF CutInv, OperatorStored, LastIsLatest, LatestIs, now
    <3>3. QED
      BY <3>1, <3>2, <1>3
  <2>3. QED
    BY <2>1, <2>2
<1>8. QED
  BY <1>5, <1>6, <1>7 DEF LastIsLatest

\* What an env step does, with the operator's part named.
Stepped(s, stuck, hard, done, begins, iv) ==
    /\ begins = Begins(s, stuck, hard) /\ iv = (active[s] \/ begins)
    /\ Stored(s, iv, begins)
    /\ opSteps' = IF iv THEN opSteps + 1 ELSE opSteps
    /\ IF done THEN StartTrain(s)
       ELSE /\ Operated(s, iv, begins, stuck)
            /\ last' = [last EXCEPT ![s] = Len(buf')]
            /\ UNCHANGED <<ep, episodes>>
    /\ turn' \in 0..Slots

LEMMA SlotStepIs ==
    ASSUME SlotsOK, SlotStep
    PROVE  \E s \in Envs, stuck, hard, done, begins, iv \in BOOLEAN :
               Stepped(s, stuck, hard, done, begins, iv)
<1>1. turn \in Envs /\ turn' \in 0..Slots
  BY DEF SlotsOK, SlotStep, NextTurn
<1> DEFINE B(stuck, hard) == Begins(turn, stuck, hard)
           V(stuck, hard) == active[turn] \/ B(stuck, hard)
<1>2. PICK stuck \in BOOLEAN, hard \in BOOLEAN, done \in BOOLEAN :
        /\ Stored(turn, V(stuck, hard), B(stuck, hard))
        /\ opSteps' = IF V(stuck, hard) THEN opSteps + 1 ELSE opSteps
        /\ IF done THEN StartTrain(turn)
           ELSE /\ Operated(turn, V(stuck, hard), B(stuck, hard), stuck)
                /\ last' = [last EXCEPT ![turn] = Len(buf')]
                /\ UNCHANGED <<ep, episodes>>
  BY Zenon DEF SlotStep
<1>3. B(stuck, hard) \in BOOLEAN /\ V(stuck, hard) \in BOOLEAN
  BY DEF Begins, WantsIn
<1> HIDE DEF B
<1>4. Stepped(turn, stuck, hard, done, B(stuck, hard), V(stuck, hard))
  BY <1>1, <1>2, Zenon DEF Stepped, B
<1>5. QED
  BY <1>1, <1>3, <1>4, Zenon

LEMMA SteppedTypes ==
    ASSUME SlotsOK, NEW s \in Envs, NEW stuck \in BOOLEAN, NEW hard \in BOOLEAN,
           NEW done \in BOOLEAN, NEW begins \in BOOLEAN, NEW iv \in BOOLEAN,
           Stepped(s, stuck, hard, done, begins, iv)
    PROVE  SlotsOK'
<1>1. buf' \in Seq(Rows) /\ Len(buf') \in Nat
  <2>1. Stored(s, iv, begins)
    BY DEF Stepped
  <2>2. Grows(s, iv, begins)
    BY <2>1, StoredGrows
  <2>3. QED
    BY <2>2 DEF Grows
<1>2. opSteps' \in Nat /\ turn' \in 0..Slots
  BY DEF Stepped, SlotsOK
<1>3. CASE done
  <2>1. StartTrain(s)
    BY <1>3 DEF Stepped
  <2>2. active' \in [Envs -> BOOLEAN] /\ seg' \in [Envs -> Nat] /\ last' \in [Envs -> Nat]
    BY <2>1 DEF StartTrain, SlotsOK
  <2>3. ep' \in [Envs -> Nat] /\ episodes' \in Nat
    BY <2>1 DEF StartTrain, SlotsOK
  <2>4. QED
    BY <2>2, <2>3, <1>1, <1>2 DEF SlotsOK
<1>4. CASE ~done
  <2>1. /\ Operated(s, iv, begins, stuck) /\ last' = [last EXCEPT ![s] = Len(buf')]
        /\ ep' = ep /\ episodes' = episodes
    BY <1>4 DEF Stepped
  <2>2. active' \in [Envs -> BOOLEAN] /\ seg' \in [Envs -> Nat]
    <3>1. /\ active \in [Envs -> BOOLEAN] /\ seg \in [Envs -> Nat]
          /\ (IF begins THEN 1 ELSE seg[s] + 1) \in Nat
      BY DEF SlotsOK
    <3>2. /\ \E b \in BOOLEAN : active' = [active EXCEPT ![s] = b]
          /\ \E n \in Nat : seg' = [seg EXCEPT ![s] = n]
      BY <2>1, <3>1 DEF Operated
    <3>3. QED
      BY <3>1, <3>2
  <2>3. QED
    BY <2>1, <2>2, <1>1, <1>2 DEF SlotsOK
<1>5. QED
  BY <1>3, <1>4

LEMMA CutStep == CutInv /\ [RLNext]_rlVars => CutInv'
<1> SUFFICES ASSUME CutInv, [RLNext]_rlVars PROVE CutInv'
  OBVIOUS
<1>1. CASE RoundStarts \/ Finish \/ UNCHANGED rlVars
  <2>1. /\ UNCHANGED <<active, seg, last, ep, episodes, buf, opSteps>> /\ turn' \in 0..Slots
    BY <1>1 DEF RoundStarts, Finish, rlVars, CutInv, SlotsOK
  <2>2. SlotsOK'
    BY <2>1 DEF CutInv, SlotsOK
  <2>3. OwnEpisodes' /\ LastIsLatest'
    BY <2>1 DEF CutInv, OwnEpisodes, LastIsLatest, LatestIs, now
  <2>4. OperatorStored' /\ NoneOfHis' /\ BoundaryIsCut'
    BY <2>1 DEF CutInv, OperatorStored, NoneOfHis, BoundaryIsCut, Follows
  <2>5. QED
    BY <2>2, <2>3, <2>4 DEF CutInv
<1>2. CASE SlotStep
  <2>1. PICK s \in Envs, stuck \in BOOLEAN, hard \in BOOLEAN, done \in BOOLEAN,
             begins \in BOOLEAN, iv \in BOOLEAN : Stepped(s, stuck, hard, done, begins, iv)
    BY <1>2, SlotStepIs DEF CutInv
  <2>2. SlotsOK'
    BY <2>1, SteppedTypes DEF CutInv
  <2>3. Grows(s, iv, begins) /\ (iv => active[s] \/ begins)
    <3>1. Stored(s, iv, begins) /\ (iv => active[s] \/ begins)
      BY <2>1 DEF Stepped
    <3>2. QED
      BY <3>1, StoredGrows DEF CutInv
  <2>4. NoneOfHis' /\ BoundaryIsCut'
    BY <2>3, GrowthKeepsTheCut
  <2>5. OwnEpisodes' /\ LastIsLatest' /\ OperatorStored'
    <3>1. CASE done
      BY <3>1, <2>1, <2>3, EpisodeEndsKeeps DEF Stepped
    <3>2. CASE ~done
      <4>1. /\ Operated(s, iv, begins, stuck) /\ last' = [last EXCEPT ![s] = Len(buf')]
            /\ UNCHANGED <<ep, episodes>>
        BY <3>2, <2>1 DEF Stepped
      <4>2. QED
        BY <4>1, <2>3, EpisodeGoesOnKeeps
    <3>3. QED
      BY <3>1, <3>2
  <2>6. QED
    BY <2>2, <2>4, <2>5 DEF CutInv
<1>3. QED
  BY <1>1, <1>2 DEF RLNext

(***************************************************************************)
(* No transition from which the operator took over stays a sample of the   *)
(* critics (mark_boundary of deploy.py): the latest transition of an       *)
(* episode is the one that last_idx names, whatever the other slots have   *)
(* stored since, and an operator in a segment has stored it himself.       *)
(***************************************************************************)
THEOREM BoundaryStaysCut == RLSpec => []BoundaryIsCut
<1>1. CutInv => BoundaryIsCut
  BY DEF CutInv
<1>2. QED
  BY <1>1, CutAtFirst, CutStep, PTL DEF RLSpec

-----------------------------------------------------------------------------
(***************************************************************************)
(* The budget.  Rest is what the segments under way may still take: the    *)
(* pairs of a slot with an operator and a step of its segment to come.     *)
(***************************************************************************)
AllSteps == Envs \X (1..Segment)
Rest == {p \in AllSteps : active[p[1]] /\ seg[p[1]] < p[2]}

SegmentsGoOn == \A s \in Envs : active[s] => seg[s] < Segment

BudgetInv ==
    /\ SlotsOK /\ SegmentsGoOn
    /\ (opSteps + Cardinality(Rest)) * BudgetDen
          <= BudgetNum * now + BudgetDen * Slots * Segment

LEMMA StepsAreFinite ==
    /\ IsFiniteSet(AllSteps) /\ Cardinality(AllSteps) = Slots * Segment
    /\ IsFiniteSet(Rest) /\ Cardinality(Rest) \in Nat
<1>1. /\ IsFiniteSet(1..Slots) /\ Cardinality(1..Slots) = Slots
      /\ IsFiniteSet(1..Segment) /\ Cardinality(1..Segment) = Segment
  BY FS_Interval
<1>2. IsFiniteSet(AllSteps) /\ Cardinality(AllSteps) = Slots * Segment
  BY <1>1, FS_Product DEF AllSteps
<1>3. Rest \subseteq AllSteps
  BY DEF Rest
<1>4. QED
  BY <1>2, <1>3, FS_Subset, FS_CardinalityType

\* A step of the operator takes one of the rest, or the budget allowed it.
LEMMA RestShrinks ==
    ASSUME SlotsOK, SegmentsGoOn, NEW s \in Envs, NEW stuck \in BOOLEAN, NEW hard \in BOOLEAN,
           NEW done \in BOOLEAN, NEW begins \in BOOLEAN, NEW iv \in BOOLEAN,
           Stepped(s, stuck, hard, done, begins, iv)
    PROVE  /\ SegmentsGoOn'
           /\ begins => Rest' \subseteq AllSteps \ {<<s, 1>>}
           /\ ~begins /\ iv => /\ <<s, seg[s] + 1>> \in Rest
                               /\ Rest' \subseteq Rest \ {<<s, seg[s] + 1>>}
           /\ ~iv => Rest' \subseteq Rest
<1>1. /\ active \in [Envs -> BOOLEAN] /\ seg \in [Envs -> Nat]
      /\ iv = (active[s] \/ begins) /\ (begins => ~active[s])
  BY DEF SlotsOK, Stepped, Begins, WantsIn
<1>2. \A r \in Envs : r # s => active'[r] = active[r] /\ seg'[r] = seg[r]
  BY <1>1 DEF Stepped, StartTrain, Operated
<1>3. active'[s] => /\ iv /\ seg'[s] < Segment
                    /\ seg'[s] = IF begins THEN 1 ELSE seg[s] + 1
  <2>1. CASE done
    BY <2>1, <1>1 DEF Stepped, StartTrain
  <2>2. CASE ~done
    <3>1. Operated(s, iv, begins, stuck)
      BY <2>2 DEF Stepped
    <3>2. QED
      BY <3>1, <1>1 DEF Operated
  <2>3. QED
    BY <2>1, <2>2
<1>4. SegmentsGoOn'
  BY <1>1, <1>2, <1>3 DEF SegmentsGoOn
<1>5. ASSUME NEW r \in Envs, NEW k \in 1..Segment
      PROVE  /\ <<r, k>> \in Rest <=> active[r] /\ seg[r] < k
             /\ <<r, k>> \in Rest' <=> active'[r] /\ seg'[r] < k
  BY DEF Rest, AllSteps
<1>6. Rest \subseteq AllSteps /\ Rest' \subseteq AllSteps
  BY DEF Rest, AllSteps
<1>7. \A p \in AllSteps : \E r \in Envs, k \in 1..Segment : p = <<r, k>>
  BY DEF AllSteps
<1>8. ASSUME begins PROVE <<s, 1>> \notin Rest'
  BY <1>3, <1>5, <1>8
<1>9. ASSUME ~begins, iv
      PROVE  <<s, seg[s] + 1>> \in Rest /\ <<s, seg[s] + 1>> \notin Rest'
  <2>1. active[s] /\ seg[s] + 1 \in 1..Segment
    BY <1>1, <1>9 DEF SegmentsGoOn
  <2>2. QED
    BY <2>1, <1>1, <1>3, <1>5, <1>9
<1>10. ASSUME ~begins PROVE Rest' \subseteq Rest
  <2>1. ASSUME NEW r \in Envs, NEW k \in 1..Segment, <<r, k>> \in Rest'
        PROVE  <<r, k>> \in Rest
    <3>1. active'[r] /\ seg'[r] < k
      BY <2>1, <1>5
    <3>2. active[r] /\ seg[r] < k
      BY <3>1, <1>1, <1>2, <1>3, <1>10
    <3>3. QED
      BY <3>2, <1>5
  <2>2. QED
    BY <2>1, <1>6, <1>7
<1>11. begins => Rest' \subseteq AllSteps \ {<<s, 1>>}
  BY <1>6, <1>8, Zenon
<1>12. ~begins /\ iv => Rest' \subseteq Rest \ {<<s, seg[s] + 1>>}
  BY <1>9, <1>10, Zenon
<1>13. begins => iv
  BY <1>1
<1>14. QED
  BY <1>4, <1>9, <1>10, <1>11, <1>12, <1>13, Zenon

\* The budget allows a take-over only while the steps so far are within it.
LEMMA AllowedIsWithin ==
    ASSUME SlotsOK, Allowed
    PROVE  opSteps * BudgetDen <= BudgetNum * now
<1> DEFINE a == opSteps * BudgetDen
           b == BudgetNum * now
<1>1. opSteps \in Nat /\ now \in Nat /\ a \in Nat /\ b \in Nat
  BY DEF SlotsOK, now
<1>2. a * RLSteps <= BudgetNum * (RLSteps - Decay * now) * now
  BY DEF Allowed
<1>3. BudgetNum * (RLSteps - Decay * now) * now <= b * RLSteps
  <2>1. CASE Decay = 0
    BY <2>1, <1>1
  <2>2. CASE Decay = 1
    <3>1. BudgetNum * now * now \in Nat
      BY <1>1
    <3>2. BudgetNum * (RLSteps - Decay * now) * now = b * RLSteps - BudgetNum * now * now
      BY <2>2, <1>1
    <3>3. QED
      BY <1>1, <3>1, <3>2
  <2>3. QED
    BY <2>1, <2>2
<1> HIDE DEF a, b
<1>4. a * RLSteps <= b * RLSteps
  <2>1. BudgetNum * (RLSteps - Decay * now) * now \in Int /\ b * RLSteps \in Int /\ a * RLSteps \in Int
    BY <1>1
  <2>2. QED
    BY <1>2, <1>3, <2>1
<1>5. a <= b
  <2> SUFFICES ASSUME b + 1 <= a PROVE FALSE
    BY <1>1
  <2>1. (b + 1) * RLSteps <= a * RLSteps
    BY <1>1
  <2>2. (b + 1) * RLSteps = b * RLSteps + RLSteps /\ b * RLSteps \in Nat /\ a * RLSteps \in Nat
    BY <1>1
  <2>3. QED
    BY <2>1, <2>2, <1>4
<1>6. QED
  BY <1>5 DEF a, b

LEMMA BudgetAtFirst == RLInit => BudgetInv
<1> SUFFICES ASSUME RLInit PROVE BudgetInv
  OBVIOUS
<1>1. SlotsOK
  BY CutAtFirst DEF CutInv
<1>2. SegmentsGoOn
  BY DEF RLInit, SegmentsGoOn
<1>3. Rest = {} /\ opSteps = 0 /\ now = 0
  BY DEF RLInit, Rest, AllSteps, now
<1>4. Cardinality(Rest) = 0
  BY <1>3, FS_EmptySet
<1>5. BudgetDen * Slots * Segment \in Nat
  OBVIOUS
<1>6. QED
  BY <1>1, <1>2, <1>3, <1>4, <1>5 DEF BudgetInv

LEMMA BudgetStep == BudgetInv /\ [RLNext]_rlVars => BudgetInv'
<1> SUFFICES ASSUME BudgetInv, [RLNext]_rlVars PROVE BudgetInv'
  OBVIOUS
<1> DEFINE Held(steps, rest, n) ==
             (steps + rest) * BudgetDen <= BudgetNum * n + BudgetDen * Slots * Segment
<1>1. SlotsOK /\ SegmentsGoOn
  BY DEF BudgetInv
<1>2. Held(opSteps, Cardinality(Rest), now)
  BY DEF BudgetInv
<1> HIDE DEF Held
<1>3. CASE RoundStarts \/ Finish \/ UNCHANGED rlVars
  <2>1. /\ UNCHANGED <<active, seg, last, ep, episodes, buf, opSteps>> /\ turn' \in 0..Slots
    BY <1>1, <1>3 DEF RoundStarts, Finish, rlVars, SlotsOK
  <2>2. SlotsOK' /\ SegmentsGoOn'
    BY <1>1, <2>1 DEF SlotsOK, SegmentsGoOn
  <2>3. Rest' = Rest /\ now' = now
    BY <2>1 DEF Rest, now
  <2>4. QED
    BY <1>2, <2>1, <2>2, <2>3 DEF BudgetInv, Held
<1>4. CASE SlotStep
  <2>1. PICK s \in Envs, stuck \in BOOLEAN, hard \in BOOLEAN, done \in BOOLEAN,
             begins \in BOOLEAN, iv \in BOOLEAN : Stepped(s, stuck, hard, done, begins, iv)
    BY <1>1, <1>4, SlotStepIs
  <2>2. SlotsOK'
    BY <1>1, <2>1, SteppedTypes
  <2>3. now' = now + 1 /\ now \in Nat /\ opSteps \in Nat
    <3>1. Grows(s, iv, begins)
      <4>1. Stored(s, iv, begins)
        BY <2>1 DEF Stepped
      <4>2. QED
        BY <4>1, <1>1, StoredGrows
    <3>2. Len(buf') = Len(buf) + 1
      BY <3>1 DEF Grows
    <3>3. Len(buf) \in Nat /\ opSteps \in Nat
      BY <1>1 DEF SlotsOK
    <3>4. QED
      BY <3>2, <3>3 DEF now
  <2>4. /\ SegmentsGoOn'
        /\ begins => Rest' \subseteq AllSteps \ {<<s, 1>>}
        /\ ~begins /\ iv => /\ <<s, seg[s] + 1>> \in Rest
                            /\ Rest' \subseteq Rest \ {<<s, seg[s] + 1>>}
        /\ ~iv => Rest' \subseteq Rest
    BY <1>1, <2>1, RestShrinks
  <2>5. /\ IsFiniteSet(AllSteps) /\ Cardinality(AllSteps) = Slots * Segment
        /\ IsFiniteSet(Rest) /\ Cardinality(Rest) \in Nat
    BY StepsAreFinite
  <2>6. /\ iv = (active[s] \/ begins) /\ opSteps' = (IF iv THEN opSteps + 1 ELSE opSteps)
        /\ begins => Allowed
    BY <2>1 DEF Stepped, Begins
  <2>7. CASE begins
    <3>1. Cardinality(AllSteps \ {<<s, 1>>}) = Slots * Segment - 1 /\ IsFiniteSet(AllSteps \ {<<s, 1>>})
      <4>1. <<s, 1>> \in AllSteps
        BY DEF AllSteps
      <4>2. QED
        BY <4>1, <2>5, FS_RemoveElement
    <3>2. Cardinality(Rest') <= Slots * Segment - 1 /\ Cardinality(Rest') \in Nat
      BY <3>1, <2>4, <2>7, FS_Subset, FS_CardinalityType
    <3>3. opSteps * BudgetDen <= BudgetNum * now
      BY <1>1, <2>6, <2>7, AllowedIsWithin
    <3>4. QED
      <4>1. opSteps' = opSteps + 1
        BY <2>6, <2>7
      <4>2. (1 + Cardinality(Rest')) * BudgetDen <= BudgetDen * Slots * Segment
        <5> DEFINE c == Cardinality(Rest')
                   n == Slots * Segment
        <5>1. c \in Nat /\ n \in Nat /\ 1 + c <= n
          BY <3>2
        <5> HIDE DEF c, n
        <5>2. (1 + c) * BudgetDen <= n * BudgetDen
          BY <5>1
        <5>3. n * BudgetDen = BudgetDen * Slots * Segment
          BY DEF n
        <5>4. QED
          BY <5>2, <5>3 DEF c
      <4>3. Held(opSteps', Cardinality(Rest'), now')
        <5> DEFINE c == Cardinality(Rest')
                   m == BudgetDen * Slots * Segment
        <5>1. /\ c \in Nat /\ m \in Nat
              /\ (1 + c) * BudgetDen <= m /\ opSteps * BudgetDen <= BudgetNum * now
          BY <3>2, <3>3, <4>2
        <5>2. (opSteps' + c) * BudgetDen <= BudgetNum * now' + m
          <6> HIDE DEF c, m
          <6>1. (opSteps + 1 + c) * BudgetDen = opSteps * BudgetDen + (1 + c) * BudgetDen
            BY <5>1, <2>3
          <6>2. BudgetNum * (now + 1) = BudgetNum * now + BudgetNum
            BY <2>3
          <6>3. /\ opSteps * BudgetDen \in Nat /\ (1 + c) * BudgetDen \in Nat /\ BudgetNum * now \in Nat
            BY <5>1, <2>3
          <6>4. QED
            BY <5>1, <6>1, <6>2, <6>3, <4>1, <2>3
        <5>3. QED
          BY <5>2 DEF Held
      <4>4. QED
        BY <4>3, <2>2, <2>4 DEF BudgetInv, Held
  <2>8. CASE ~begins
    <3>1. Cardinality(Rest') \in Nat /\ opSteps' + Cardinality(Rest') <= opSteps + Cardinality(Rest)
      <4>1. CASE iv
        <5>1. IsFiniteSet(Rest \ {<<s, seg[s] + 1>>})
              /\ Cardinality(Rest \ {<<s, seg[s] + 1>>}) = Cardinality(Rest) - 1
          BY <2>4, <2>5, <2>8, <4>1, FS_RemoveElement
        <5>2. Cardinality(Rest') \in Nat /\ Cardinality(Rest') <= Cardinality(Rest) - 1
          BY <5>1, <2>4, <2>8, <4>1, FS_Subset, FS_CardinalityType
        <5>3. QED
          BY <5>2, <4>1, <2>3, <2>5, <2>6
      <4>2. CASE ~iv
        <5>1. Cardinality(Rest') \in Nat /\ Cardinality(Rest') <= Cardinality(Rest)
          BY <2>4, <2>5, <4>2, FS_Subset, FS_CardinalityType
        <5>2. QED
          BY <5>1, <4>2, <2>3, <2>5, <2>6
      <4>3. QED
        BY <4>1, <4>2
    <3>2. Held(opSteps', Cardinality(Rest'), now')
      <4> DEFINE x == opSteps' + Cardinality(Rest')
                 y == opSteps + Cardinality(Rest)
                 m == BudgetDen * Slots * Segment
      <4>1. opSteps' \in Nat
        BY <2>2 DEF SlotsOK
      <4>2. x \in Nat /\ y \in Nat /\ x <= y /\ m \in Nat
        BY <3>1, <4>1, <2>3, <2>5
      <4>3. y * BudgetDen <= BudgetNum * now + m
        BY <1>2 DEF Held
      <4> HIDE DEF x, y, m
      <4>4. x * BudgetDen <= y * BudgetDen
        BY <4>2
      <4>5. BudgetNum * (now + 1) = BudgetNum * now + BudgetNum /\ BudgetNum * now \in Nat
        BY <2>3
      <4>6. x * BudgetDen \in Nat /\ y * BudgetDen \in Nat
        BY <4>2
      <4>7. x * BudgetDen <= BudgetNum * now' + m
        BY <4>2, <4>4, <4>5, <4>6, <4>3, <2>3
      <4>8. QED
        BY <4>7 DEF x, m, Held
    <3>3. QED
      BY <3>2, <2>2, <2>4 DEF BudgetInv, Held
  <2>9. QED
    BY <2>7, <2>8
<1>5. QED
  BY <1>3, <1>4 DEF RLNext

(***************************************************************************)
(* Operators exceed their budget by a segment for each slot at most        *)
(* (budget_at and op_steps of loop.py), decaying or not: what counts is    *)
(* what was used and what the segments under way may still take, and a     *)
(* take-over begins only while what was used is within the budget.         *)
(***************************************************************************)
THEOREM BudgetIsKept == RLSpec => []BudgetHolds
<1>1. BudgetInv => BudgetHolds
  <2> SUFFICES ASSUME BudgetInv PROVE BudgetHolds
    OBVIOUS
  <2>1. opSteps \in Nat /\ now \in Nat /\ Cardinality(Rest) \in Nat
    BY StepsAreFinite DEF BudgetInv, SlotsOK, now
  <2> DEFINE c == Cardinality(Rest)
  <2>2. (opSteps + c) * BudgetDen <= BudgetNum * now + BudgetDen * Slots * Segment
    BY DEF BudgetInv
  <2> HIDE DEF c
  <2>3. (opSteps + c) * BudgetDen = opSteps * BudgetDen + c * BudgetDen /\ c * BudgetDen \in Nat
    BY <2>1 DEF c
  <2>4. /\ opSteps * BudgetDen \in Nat /\ BudgetNum * now \in Nat
        /\ BudgetDen * Slots * Segment \in Nat
    BY <2>1
  <2>5. QED
    BY <2>2, <2>3, <2>4 DEF BudgetHolds
<1>2. QED
  BY <1>1, BudgetAtFirst, BudgetStep, PTL DEF RLSpec

HIDE RLAssumption DEF RLAssumption, Envs

USE GantryAssumption DEF GantryAssumption

-----------------------------------------------------------------------------
(***************************************************************************)
(* Runs of equal labels.                                                   *)
(***************************************************************************)
LEMMA RunIsFinite ==
    ASSUME NEW ids \in Seq(Int), NEW t \in DOMAIN ids
    PROVE  /\ IsFiniteSet(Run(ids, t)) /\ t \in Run(ids, t)
           /\ Done(ids, t) \in Nat /\ Span(ids, t) \in Nat
<1>1. IsFiniteSet(1..Len(ids)) /\ Run(ids, t) \subseteq 1..Len(ids)
  BY FS_Interval DEF Run
<1>2. IsFiniteSet(Run(ids, t)) /\ IsFiniteSet({i \in Run(ids, t) : i < t})
  BY <1>1, FS_Subset
<1>3. t \in Run(ids, t)
  BY DEF Run, Between
<1>4. Cardinality(Run(ids, t)) \in Nat /\ Cardinality(Run(ids, t)) # 0
  BY <1>2, <1>3, FS_CardinalityType, FS_EmptySet
<1>5. Done(ids, t) \in Nat
  BY <1>2, FS_CardinalityType DEF Done
<1>6. QED
  BY <1>2, <1>3, <1>4, <1>5 DEF Span

\* Within a run the progress grows by a step.
LEMMA RunGoesOn ==
    ASSUME NEW ids \in Seq(Int), NEW t \in DOMAIN ids, t + 1 \in DOMAIN ids,
           ids[t + 1] = ids[t]
    PROVE  /\ Span(ids, t + 1) = Span(ids, t)
           /\ Done(ids, t + 1) = Done(ids, t) + 1
<1>1. Run(ids, t + 1) = Run(ids, t)
  <2>1. ASSUME NEW i \in Run(ids, t + 1) PROVE i \in Run(ids, t)
    BY <2>1 DEF Run, Between
  <2>2. ASSUME NEW i \in Run(ids, t) PROVE i \in Run(ids, t + 1)
    BY <2>2 DEF Run, Between
  <2>3. QED
    BY <2>1, <2>2
<1>2. {i \in Run(ids, t + 1) : i < t + 1} = {i \in Run(ids, t) : i < t} \cup {t}
  <2>1. t \in Run(ids, t) /\ t \in Int /\ \A i \in Run(ids, t) : i \in Int
    <3>1. DOMAIN ids = 1..Len(ids)
      OBVIOUS
    <3>2. t \in Run(ids, t)
      BY RunIsFinite
    <3>3. QED
      BY <3>1, <3>2 DEF Run
  <2>2. {i \in Run(ids, t) : i < t + 1} = {i \in Run(ids, t) : i < t} \cup {t}
    BY <2>1, Z3
  <2>3. QED
    BY <1>1, <2>2
<1>3. IsFiniteSet({i \in Run(ids, t) : i < t})
  BY RunIsFinite, FS_Subset
<1>4. Cardinality({i \in Run(ids, t) : i < t} \cup {t}) = Cardinality({i \in Run(ids, t) : i < t}) + 1
  <2>1. t \in Int
    BY DEF Run
  <2>2. t \notin {i \in Run(ids, t) : i < t}
    BY <2>1
  <2>3. QED
    BY <1>3, <2>2, FS_AddElement
<1>5. QED
  BY <1>1, <1>2, <1>4 DEF Done, Span

\* A run ends with its progress at the top, and the next begins at zero.
LEMMA RunEnds ==
    ASSUME NEW ids \in Seq(Int), NEW t \in DOMAIN ids, t + 1 \in DOMAIN ids,
           ids[t + 1] # ids[t]
    PROVE  /\ Done(ids, t) = Span(ids, t)
           /\ Done(ids, t + 1) = 0
<1>1. \A i \in Run(ids, t) : i <= t
  BY DEF Run, Between
<1>2. {i \in Run(ids, t) : i < t} = Run(ids, t) \ {t}
  BY <1>1 DEF Run
<1>3. Cardinality(Run(ids, t) \ {t}) = Cardinality(Run(ids, t)) - 1
  BY RunIsFinite, FS_RemoveElement
<1>4. {i \in Run(ids, t + 1) : i < t + 1} = {}
  BY DEF Run, Between
<1>5. QED
  BY <1>2, <1>3, <1>4, FS_EmptySet DEF Done, Span

LEMMA FirstRun ==
    ASSUME NEW ids \in Seq(Int), 1 \in DOMAIN ids
    PROVE  Done(ids, 1) = 0
<1>1. {i \in Run(ids, 1) : i < 1} = {}
  BY DEF Run
<1>2. QED
  BY <1>1, FS_EmptySet DEF Done

-----------------------------------------------------------------------------
(***************************************************************************)
(* The labels of an expert, and their positions.                           *)
(***************************************************************************)
LEMMA LabelsRise ==
    ASSUME NEW t \in Tasks, NEW p \in 0..LastPhase(t), NEW q \in 0..LastPhase(t), p <= q
    PROVE  /\ LastPhase(t) \in {2, 3}
           /\ Label(t, p) \in Subtasks(t) /\ Label(t, q) \in Subtasks(t)
           /\ Label(t, p) \in Int /\ Label(t, q) \in Int
           /\ Label(t, p) <= Label(t, q)
<1>1. CASE t = "t0"
  BY <1>1 DEF LastPhase, Label, PhaseSubtask, Subtasks
<1>2. CASE t = "t1"
  BY <1>2 DEF LastPhase, Label, PhaseSubtask, Subtasks
<1>3. CASE t = "t2"
  BY <1>3 DEF LastPhase, Label, PhaseSubtask, Subtasks
<1>4. CASE t = "t3"
  BY <1>4 DEF LastPhase, Label, PhaseSubtask, Subtasks
<1>5. QED
  BY <1>1, <1>2, <1>3, <1>4 DEF Tasks

LEMMA SubtasksAreFinite ==
    ASSUME NEW t \in Tasks
    PROVE  IsFiniteSet(Subtasks(t)) /\ Subtasks(t) \subseteq 0..3
<1>1. Subtasks(t) \subseteq 0..3
  BY DEF Tasks, Subtasks, PhaseSubtask
<1>2. IsFiniteSet(0..3)
  <2>1. 0 \in Int /\ 3 \in Int
    OBVIOUS
  <2>2. QED
    BY <2>1, FS_Interval, Zenon
<1>3. QED
  BY <1>1, <1>2, FS_Subset

LEMMA RankRises ==
    ASSUME NEW t \in Tasks, NEW l \in Subtasks(t), NEW m \in Subtasks(t)
    PROVE  /\ Rank(t, l) \in 1..Prompts(t) /\ Prompts(t) \in Nat
           /\ l < m => Rank(t, l) + 1 <= Rank(t, m)
<1> DEFINE Below(x) == {y \in Subtasks(t) : y < x}
<1>1. IsFiniteSet(Subtasks(t)) /\ IsFiniteSet(Below(l)) /\ IsFiniteSet(Below(m))
  BY SubtasksAreFinite, FS_Subset
<1>2. Cardinality(Below(l)) \in Nat /\ Cardinality(Below(m)) \in Nat /\ Prompts(t) \in Nat
  BY <1>1, FS_CardinalityType DEF Prompts
<1>3. Cardinality(Below(l) \cup {l}) = Cardinality(Below(l)) + 1
  <2>1. l \notin Below(l)
    BY SubtasksAreFinite
  <2>2. QED
    BY <1>1, <2>1, FS_AddElement
<1>4. Cardinality(Below(l) \cup {l}) <= Prompts(t)
  BY <1>1, FS_Subset DEF Prompts
<1>5. ASSUME l < m PROVE Cardinality(Below(l) \cup {l}) <= Cardinality(Below(m))
  <2>1. Below(l) \cup {l} \subseteq Below(m)
    BY <1>5, SubtasksAreFinite
  <2>2. QED
    BY <2>1, <1>1, FS_Subset
<1>6. QED
  BY <1>2, <1>3, <1>4, <1>5 DEF Rank

\* The expert's next phase is at or after its present one.
LEMMA PhasesRise ==
    ASSUME task \in Tasks, fsm \in 0..LastPhase(task), NEW reached \in SUBSET (0..LastPhase(task) - 1)
    PROVE  NextPhase(reached) \in fsm..LastPhase(task)
<1> DEFINE Good(q) == q \notin reached /\ \A p \in fsm..q - 1 : p \in reached
<1>1. LastPhase(task) \in {2, 3}
  BY LabelsRise
<1>2. \E q \in fsm..LastPhase(task) : Good(q)
  <2>1. CASE Good(fsm)
    BY <1>1, <2>1
  <2>2. CASE ~Good(fsm) /\ Good(fsm + 1)
    BY <1>1, <2>2
  <2>3. CASE ~Good(fsm) /\ ~Good(fsm + 1) /\ Good(fsm + 2)
    BY <1>1, <2>3
  <2>4. CASE ~Good(fsm) /\ ~Good(fsm + 1) /\ ~Good(fsm + 2)
    BY <1>1, <2>4
  <2>5. QED
    BY <2>1, <2>2, <2>3, <2>4
<1>3. QED
  BY <1>2 DEF NextPhase

-----------------------------------------------------------------------------
(***************************************************************************)
(* The invariant: the labels of a demo rise with its expert's phase; the   *)
(* machine has moved only along a stored demo, and is at most one subtask  *)
(* ahead of it (Early), which it waits for disarmed; and in a demo that    *)
(* goes through its subtasks one by one the position and the arming are    *)
(* those that the progress of the present run says (Late).                 *)
(***************************************************************************)
R(i) == Rank(task, subtask[i])

Labels ==
    /\ subtask \in Seq(Int)
    /\ task \in Tasks \/ (task = "none" /\ stage = "idle" /\ subtask = <<>>)
    /\ task \in Tasks =>
         /\ fsm \in 0..LastPhase(task)
         /\ \A i \in DOMAIN subtask : subtask[i] \in Subtasks(task) /\ subtask[i] <= Label(task, fsm)
         /\ \A i \in DOMAIN subtask : i + 1 \in DOMAIN subtask => subtask[i] <= subtask[i + 1]

Machine ==
    /\ shown \in 0..Len(subtask) /\ current \in Int /\ armed \in BOOLEAN
    /\ ~StoredDemo => shown = 0
    /\ shown = 0 => current = 1 /\ armed = TRUE

Early ==
    shown > 0 =>
        /\ current <= R(shown) + 1
        /\ current = R(shown) + 1 => Advances(subtask, shown) /\ armed = FALSE

Late ==
    shown > 0 /\ OneByOne(shown) /\ Span(subtask, shown) > 0 =>
        /\ ~Advances(subtask, shown) => armed = TRUE /\ current = R(shown)
        /\ Advances(subtask, shown) =>
             current = R(shown) + 1 \/ (current = R(shown) /\ R(shown) = Prompts(task))

IInv == Labels /\ Machine /\ Early /\ Late

LEMMA PromptHoldsAtFirst == PromptInit => IInv
<1> SUFFICES ASSUME PromptInit PROVE IInv
  OBVIOUS
<1> USE DEF PromptInit, GantryInit
<1>1. Labels
  BY DEF Labels, Tasks
<1>2. Machine
  BY DEF Machine
<1>3. QED
  BY <1>1, <1>2 DEF IInv, Early, Late

LEMMA NewEpisodeKeeps == IInv /\ NewEpisode => IInv'
<1> SUFFICES ASSUME IInv, NewEpisode PROVE IInv'
  OBVIOUS
<1>1. PICK t \in Tasks : Reset(t)
  BY DEF NewEpisode
<1>2. shown' = 0 /\ current' = 1 /\ armed' = TRUE
  BY DEF NewEpisode
<1>3. task' = t /\ fsm' = 0 /\ subtask' = <<>>
  BY <1>1 DEF Reset
<1>4. Labels'
  <2>1. LastPhase(t) \in {2, 3}
    <3>1. Len(PhaseSubtask[t]) \in {3, 4}
      BY DEF Tasks, PhaseSubtask
    <3>2. QED
      BY <3>1 DEF LastPhase
  <2>2. DOMAIN <<>> = {} /\ <<>> \in Seq(Int)
    OBVIOUS
  <2>3. QED
    BY <1>3, <2>1, <2>2 DEF Labels
<1>5. QED
  BY <1>2, <1>3, <1>4 DEF IInv, Machine, Early, Late

\* A row of the demo.
LEMMA ActKeeps == Labels /\ Act => Labels'
<1> SUFFICES ASSUME Labels, Act PROVE Labels'
  OBVIOUS
<1>1. task \in Tasks /\ task' = task /\ fsm \in 0..LastPhase(task) /\ subtask \in Seq(Int)
  BY DEF Labels, Act
<1>2. fsm' \in fsm..LastPhase(task)
  <2>1. PICK near \in BOOLEAN, low \in BOOLEAN : fsm' = NextPhase(Reached(near, low))
    BY DEF Act
  <2>2. Reached(near, low) \subseteq 0..LastPhase(task) - 1
    BY DEF Reached
  <2>3. QED
    BY <1>1, <2>1, <2>2, PhasesRise
<1>3. LastPhase(task) \in {2, 3} /\ fsm' \in 0..LastPhase(task) /\ fsm <= fsm'
  BY <1>1, <1>2, LabelsRise
<1>4. /\ Label(task, fsm') \in Subtasks(task) /\ Label(task, fsm') \in Int
      /\ Label(task, fsm) \in Int /\ Label(task, fsm) <= Label(task, fsm')
  BY <1>1, <1>3, LabelsRise
<1>5. subtask' = Append(subtask, Label(task, fsm'))
  BY DEF Act
<1>6. subtask' \in Seq(Int) /\ Len(subtask') = Len(subtask) + 1
  BY <1>1, <1>4, <1>5
<1>7. /\ \A i \in 1..Len(subtask) : subtask'[i] = subtask[i]
      /\ subtask'[Len(subtask) + 1] = Label(task, fsm')
  BY <1>1, <1>5
<1>8. \A i \in 1..Len(subtask) : subtask[i] \in Int /\ subtask[i] \in Subtasks(task) /\ subtask[i] <= Label(task, fsm)
  BY <1>1 DEF Labels
<1>9. \A i \in DOMAIN subtask' : subtask'[i] \in Subtasks(task') /\ subtask'[i] <= Label(task', fsm')
  BY <1>1, <1>4, <1>6, <1>7, <1>8
<1>10. ASSUME NEW i \in DOMAIN subtask', i + 1 \in DOMAIN subtask' PROVE subtask'[i] <= subtask'[i + 1]
  <2>1. i \in 1..Len(subtask)
    BY <1>1, <1>6, <1>10
  <2>2. CASE i = Len(subtask)
    BY <1>1, <1>4, <1>7, <1>8, <2>1, <2>2
  <2>3. CASE i # Len(subtask)
    <3>1. i + 1 \in 1..Len(subtask) /\ DOMAIN subtask = 1..Len(subtask)
      BY <1>1, <2>1, <2>3
    <3>2. subtask[i] <= subtask[i + 1]
      BY <1>1, <2>1, <3>1 DEF Labels
    <3>3. QED
      BY <1>7, <2>1, <3>1, <3>2
  <2>4. QED
    BY <2>2, <2>3
<1>11. QED
  BY <1>1, <1>3, <1>6, <1>9, <1>10 DEF Labels

LEMMA GantryStepKeeps == IInv /\ GantryStep /\ UNCHANGED promptVars => IInv'
<1> SUFFICES ASSUME IInv, GantryStep, UNCHANGED promptVars PROVE IInv'
  OBVIOUS
<1>1. shown = 0 /\ stage \notin {"idle", "done"}
  BY DEF IInv, Machine, StoredDemo, GantryStep, Act, Sample, Verdict
<1>2. shown' = shown /\ current' = current /\ armed' = armed
  BY DEF promptVars
<1>3. Labels'
  <2>1. CASE Act
    BY <2>1, ActKeeps DEF IInv
  <2>2. CASE Sample \/ Verdict
    <3>1. task' = task /\ fsm' = fsm /\ subtask' = subtask
      BY <2>2 DEF Sample, Verdict
    <3>2. task \in Tasks
      BY <1>1 DEF IInv, Labels
    <3>3. QED
      BY <3>1, <3>2 DEF IInv, Labels
  <2>3. QED
    BY <2>1, <2>2 DEF GantryStep
<1>4. Machine'
  BY <1>1, <1>2, <1>3 DEF IInv, Machine, Labels
<1>5. QED
  BY <1>1, <1>2, <1>3, <1>4 DEF IInv, Early, Late

\* What the labels of two steps of a demo, one after the other, may be.
LEMMA RanksRise ==
    ASSUME Labels, task \in Tasks, NEW i \in DOMAIN subtask
    PROVE  /\ R(i) \in 1..Prompts(task) /\ Prompts(task) \in Nat
           /\ Done(subtask, i) \in Nat /\ Span(subtask, i) \in Nat
           /\ i + 1 \in DOMAIN subtask =>
                IF subtask[i + 1] = subtask[i]
                THEN /\ R(i + 1) = R(i)
                     /\ Span(subtask, i + 1) = Span(subtask, i)
                     /\ Done(subtask, i + 1) = Done(subtask, i) + 1
                ELSE /\ R(i + 1) \in 1..Prompts(task) /\ R(i + 1) >= R(i) + 1
                     /\ Done(subtask, i) = Span(subtask, i) /\ Done(subtask, i + 1) = 0
                     /\ Span(subtask, i + 1) \in Nat
<1>1. subtask \in Seq(Int) /\ subtask[i] \in Subtasks(task)
  BY DEF Labels
<1>2. R(i) \in 1..Prompts(task) /\ Prompts(task) \in Nat
  BY <1>1, RankRises DEF R
<1>3. Done(subtask, i) \in Nat /\ Span(subtask, i) \in Nat
  BY <1>1, RunIsFinite
<1>4. ASSUME i + 1 \in DOMAIN subtask, subtask[i + 1] = subtask[i]
      PROVE  /\ R(i + 1) = R(i)
             /\ Span(subtask, i + 1) = Span(subtask, i)
             /\ Done(subtask, i + 1) = Done(subtask, i) + 1
  BY <1>1, <1>4, RunGoesOn DEF R
<1>5. ASSUME i + 1 \in DOMAIN subtask, subtask[i + 1] # subtask[i]
      PROVE  /\ R(i + 1) \in 1..Prompts(task) /\ R(i + 1) >= R(i) + 1
             /\ Done(subtask, i) = Span(subtask, i) /\ Done(subtask, i + 1) = 0
             /\ Span(subtask, i + 1) \in Nat
  <2>1. subtask[i + 1] \in Subtasks(task) /\ subtask[i] <= subtask[i + 1]
    BY <1>5 DEF Labels
  <2>2. subtask[i] \in Int /\ subtask[i + 1] \in Int
    BY <1>1, <1>5
  <2>3. subtask[i] < subtask[i + 1]
    BY <1>5, <2>1, <2>2
  <2>4. R(i + 1) \in 1..Prompts(task) /\ R(i) + 1 <= R(i + 1)
    BY <1>1, <2>1, <2>3, RankRises DEF R
  <2>5. Done(subtask, i) = Span(subtask, i) /\ Done(subtask, i + 1) = 0
    BY <1>1, <1>5, RunEnds
  <2>6. Span(subtask, i + 1) \in Nat
    BY <1>1, <1>5, RunIsFinite
  <2>7. QED
    BY <1>2, <2>4, <2>5, <2>6
<1>6. QED
  BY <1>2, <1>3, <1>4, <1>5

\* A step of the demo, followed.
LEMMA FollowKeeps == IInv /\ Follow => IInv'
<1> SUFFICES ASSUME IInv, Follow PROVE IInv'
  OBVIOUS
<1> DEFINE t == shown + 1
           S(i) == Span(subtask, i)
           D(i) == Done(subtask, i)
<1>1. /\ task' = task /\ stage' = stage /\ fsm' = fsm /\ subtask' = subtask /\ outcome' = outcome
      /\ shown' = t /\ StoredDemo /\ UpdateMachine /\ shown \in Nat /\ current \in Int /\ armed \in BOOLEAN
      /\ t \in DOMAIN subtask /\ subtask \in Seq(Int) /\ Labels /\ Machine /\ Early /\ Late
  BY DEF Follow, gantryVars, IInv, Machine, Labels
<1>2. task \in Tasks
  BY <1>1 DEF Labels, StoredDemo
<1>3. shown > 0 => shown \in DOMAIN subtask
  BY <1>1
<1>4. shown \in Nat /\ current \in Int /\ (shown = 0 \/ shown > 0)
  BY <1>1
<1>5. shown = 0 => current = 1 /\ armed = TRUE
  BY <1>1 DEF Machine
<1>6. /\ R(t) \in 1..Prompts(task) /\ Prompts(task) \in Nat
      /\ D(t) \in Nat /\ S(t) \in Nat
  BY <1>1, <1>2, RanksRise
<1>7. /\ Advances(subtask, t) <=> 10 * D(t) >= 8 * S(t)
      /\ Rearms(subtask, t) <=> ~(10 * D(t) >= 3 * S(t))
      /\ Advances(subtask, shown) <=> 10 * D(shown) >= 8 * S(shown)
  BY DEF Advances, Rearms, AtLeast
<1>8. /\ armed = TRUE /\ Advances(subtask, t) /\ current < Prompts(task) => current' = current + 1 /\ armed' = FALSE
      /\ armed = TRUE /\ ~(Advances(subtask, t) /\ current < Prompts(task)) => current' = current /\ armed' = TRUE
      /\ armed = FALSE => current' = current /\ armed' = Rearms(subtask, t)
      /\ current' \in Int /\ armed' \in BOOLEAN
  <2>1. Advances(subtask, t) \in BOOLEAN /\ Rearms(subtask, t) \in BOOLEAN
    BY DEF Advances, Rearms, AtLeast
  <2>2. CASE armed = TRUE
    <3> DEFINE advances == Advances(subtask, t) /\ current < Prompts(task)
    <3>1. current' = (IF advances THEN current + 1 ELSE current) /\ armed' = ~advances
      BY <1>1, <2>2, Zenon DEF UpdateMachine
    <3>2. CASE advances
      <4>1. current' = current + 1 /\ armed' = FALSE
        BY <3>1, <3>2
      <4>2. armed # FALSE /\ current' \in Int
        BY <1>4, <2>2, <4>1
      <4>3. QED
        BY <3>2, <4>1, <4>2
    <3>3. CASE ~advances
      BY <1>4, <2>2, <3>1, <3>3
    <3>4. QED
      BY <3>2, <3>3
  <2>3. CASE armed = FALSE
    <3>1. current' = current /\ armed' = Rearms(subtask, t)
      BY <1>1, <2>3, Zenon DEF UpdateMachine
    <3>2. QED
      BY <1>4, <2>1, <2>3, <3>1
  <2>4. QED
    BY <1>1, <2>2, <2>3
<1>9. current' \in Int /\ armed' \in BOOLEAN /\ Labels'
  BY <1>1, <1>8 DEF Labels
<1>10. Machine'
  BY <1>1, <1>9 DEF Machine, StoredDemo
<1>11. /\ current' <= R(t) + 1
       /\ current' = R(t) + 1 => Advances(subtask, t) /\ armed' = FALSE
  <2>1. CASE shown = 0
    BY <1>8, <1>4, <1>5, <1>6, <2>1
  <2>2. CASE shown > 0 /\ subtask[t] = subtask[shown]
    <3>1. R(t) = R(shown) /\ S(t) = S(shown) /\ D(t) = D(shown) + 1 /\ D(shown) \in Nat
      BY <1>1, <1>2, <1>3, <2>2, RanksRise
    <3>2. Advances(subtask, shown) => Advances(subtask, t) /\ ~Rearms(subtask, t)
      BY <1>6, <1>7, <3>1
    <3>3. /\ current <= R(t) + 1
          /\ current = R(t) + 1 => Advances(subtask, shown) /\ armed = FALSE
      BY <1>1, <2>2, <3>1 DEF Early
    <3>4. QED
      BY <1>8, <1>4, <1>6, <3>2, <3>3
  <2>3. CASE shown > 0 /\ subtask[t] # subtask[shown]
    <3>1. R(t) >= R(shown) + 1 /\ R(shown) \in Int
      <4>1. shown \in DOMAIN subtask /\ shown + 1 \in DOMAIN subtask
        BY <1>1, <1>2, <1>3, <2>3
      <4>2. subtask[shown + 1] # subtask[shown]
        BY <2>3
      <4>3. R(shown) \in 1..Prompts(task) /\ R(shown + 1) >= R(shown) + 1
        <5>1. Labels /\ task \in Tasks
          BY <1>1, <1>2, <1>3
        <5>2. /\ R(shown) \in 1..Prompts(task)
              /\ IF subtask[shown + 1] = subtask[shown] THEN TRUE ELSE R(shown + 1) >= R(shown) + 1
          BY <4>1, <5>1, RanksRise
        <5>3. QED
          BY <4>2, <5>2
      <4>4. QED
        BY <4>3
    <3>2. current <= R(t)
      BY <1>1, <1>6, <2>3, <3>1 DEF Early
    <3>3. QED
      BY <1>8, <1>4, <1>6, <3>2
  <2>4. QED
    BY <1>4, <2>1, <2>2, <2>3
<1>12. ASSUME OneByOne(t), S(t) > 0
      PROVE  /\ ~Advances(subtask, t) => armed' = TRUE /\ current' = R(t)
             /\ Advances(subtask, t) =>
                  current' = R(t) + 1 \/ (current' = R(t) /\ R(t) = Prompts(task))
  <2>1. CASE shown = 0
    <3>1. D(t) = 0 /\ R(t) = 1
      BY <1>1, <1>12, <2>1, FirstRun DEF OneByOne, R
    <3>2. QED
      BY <1>8, <1>4, <1>5, <1>6, <1>7, <1>12, <2>1, <3>1
  <2>2. ASSUME shown > 0
        PROVE  OneByOne(shown) /\ S(shown) > 0 /\ R(t) <= R(shown) + 1
    BY <1>1, <1>12, <2>2 DEF OneByOne, R
  <2>3. CASE shown > 0 /\ subtask[t] = subtask[shown]
    <3>1. R(t) = R(shown) /\ S(t) = S(shown) /\ D(t) = D(shown) + 1 /\ D(shown) \in Nat
      BY <1>1, <1>2, <1>3, <2>3, RanksRise
    <3>2. /\ ~Advances(subtask, shown) => armed = TRUE /\ current = R(t)
          /\ Advances(subtask, shown) =>
               current = R(t) + 1 \/ (current = R(t) /\ R(t) = Prompts(task))
      BY <1>1, <2>2, <2>3, <3>1 DEF Late
    <3>3. current = R(t) + 1 => armed = FALSE
      BY <1>1, <2>3, <3>1 DEF Early
    <3>4. Advances(subtask, shown) => Advances(subtask, t)
      BY <1>6, <1>7, <3>1
    <3>5. QED
      BY <1>8, <1>4, <1>6, <3>2, <3>3, <3>4
  <2>4. CASE shown > 0 /\ subtask[t] # subtask[shown]
    <3>1. /\ R(t) >= R(shown) + 1 /\ R(shown) \in Int
          /\ D(shown) = S(shown) /\ S(shown) \in Nat /\ D(t) = 0
      <4>1. R(shown) \in Int /\ S(shown) \in Nat
        BY <1>1, <1>2, <1>3, <2>4, RanksRise
      <4>2. R(t) >= R(shown) + 1 /\ D(shown) = S(shown) /\ D(t) = 0
        BY <1>1, <1>2, <1>3, <2>4, RanksRise
      <4>3. QED
        BY <4>1, <4>2
    <3>2. current = R(t)
      <4>1. Advances(subtask, shown)
        BY <1>7, <3>1
      <4>2. current = R(shown) + 1 \/ (current = R(shown) /\ R(shown) = Prompts(task))
        BY <1>1, <2>2, <2>4, <4>1 DEF Late
      <4>3. R(t) = R(shown) + 1
        BY <1>6, <2>2, <2>4, <3>1
      <4>4. QED
        BY <1>6, <3>1, <4>2, <4>3
    <3>3. armed = FALSE
      BY <1>1, <2>2, <2>4, <1>6, <3>1, <3>2 DEF Early
    <3>4. Rearms(subtask, t) /\ ~Advances(subtask, t)
      BY <1>6, <1>7, <1>12, <3>1
    <3>5. QED
      BY <1>8, <1>4, <3>2, <3>3, <3>4
  <2>5. QED
    BY <1>4, <2>1, <2>3, <2>4
<1>13. Early' /\ Late'
  <2>1. R(shown)' = R(t) /\ S(shown)' = S(t) /\ Prompts(task)' = Prompts(task)
    BY <1>1 DEF R
  <2>2. Advances(subtask, shown)' <=> Advances(subtask, t)
    BY <1>1
  <2>3. OneByOne(shown)' => OneByOne(t)
    BY <1>1 DEF OneByOne
  <2>4. Early'
    BY <1>11, <2>1, <2>2 DEF Early
  <2>5. Late'
    BY <1>12, <2>1, <2>2, <2>3 DEF Late
  <2>6. QED
    BY <2>4, <2>5
<1>14. QED
  BY <1>9, <1>10, <1>13 DEF IInv

-----------------------------------------------------------------------------
LEMMA PromptInvariant == PromptSpec => []IInv
<1>1. IInv /\ UNCHANGED <<gantryVars, promptVars>> => IInv'
  BY DEF IInv, Labels, Machine, Early, Late, StoredDemo, R, OneByOne, gantryVars, promptVars
<1>2. IInv /\ [PromptNext]_<<gantryVars, promptVars>> => IInv'
  BY <1>1, NewEpisodeKeeps, GantryStepKeeps, FollowKeeps DEF PromptNext
<1>3. QED
  BY PromptHoldsAtFirst, <1>2, PTL DEF PromptSpec

LEMMA InvariantFollows == IInv => PromptFollows
<1> SUFFICES ASSUME IInv, Following PROVE
      /\ current > R(shown + 1) =>
           /\ current = R(shown + 1) + 1
           /\ shown > 0 /\ subtask[shown] = subtask[shown + 1] /\ Advances(subtask, shown)
      /\ OneByOne(shown + 1) => current >= R(shown + 1)
  BY DEF PromptFollows, EarlyOnlyAtTheEnd, NeverLate, R
<1> DEFINE t == shown + 1
<1>1. /\ shown \in Nat /\ current \in Int /\ t \in DOMAIN subtask /\ subtask \in Seq(Int)
      /\ task \in Tasks /\ (shown > 0 => shown \in DOMAIN subtask)
      /\ Labels /\ Machine /\ Early /\ Late
  BY DEF IInv, Labels, Machine, Following, StoredDemo
<1>2. R(t) \in 1..Prompts(task) /\ Prompts(task) \in Nat
  BY <1>1, RanksRise
<1>3. CASE shown = 0
  BY <1>1, <1>2, <1>3 DEF Machine, OneByOne, R
<1>4. CASE shown > 0
  <2>1. R(shown) \in 1..Prompts(task)
    BY <1>1, <1>4, RanksRise
  <2>2. IF subtask[t] = subtask[shown] THEN R(t) = R(shown)
        ELSE /\ R(t) >= R(shown) + 1
             /\ Done(subtask, shown) = Span(subtask, shown) /\ Span(subtask, shown) \in Nat
    BY <1>1, <1>4, RanksRise
  <2>3. current > R(t) =>
          current = R(t) + 1 /\ subtask[shown] = subtask[t] /\ Advances(subtask, shown)
    BY <1>1, <1>2, <1>4, <2>1, <2>2 DEF Early
  <2>4. ASSUME OneByOne(t) PROVE current >= R(t)
    <3>1. OneByOne(shown) /\ Span(subtask, shown) > 0 /\ R(t) <= R(shown) + 1
      BY <1>1, <1>4, <2>4 DEF OneByOne, R
    <3>2. /\ ~Advances(subtask, shown) => current = R(shown)
          /\ Advances(subtask, shown) =>
               current = R(shown) + 1 \/ (current = R(shown) /\ R(shown) = Prompts(task))
      BY <1>1, <1>4, <3>1 DEF Late
    <3>3. subtask[t] # subtask[shown] => Advances(subtask, shown)
      BY <2>2 DEF Advances, AtLeast
    <3>4. QED
      BY <1>1, <1>2, <2>1, <2>2, <3>1, <3>2, <3>3
  <2>5. QED
    BY <1>4, <2>3, <2>4
<1>5. QED
  BY <1>1, <1>3, <1>4

(***************************************************************************)
(* The prompt of subtasks.py names a subtask early only by one and only in *)
(* the end of the present one, and never late in a demo that goes through  *)
(* its subtasks one by one, whatever the number and length of the demos.   *)
(***************************************************************************)
THEOREM PromptFollowsTheDemo == PromptSpec => []PromptFollows
  BY PromptInvariant, InvariantFollows, PTL

-----------------------------------------------------------------------------
(***************************************************************************)
(* A cap gives way in the descent of a press alone, and the verdict on the *)
(* step in which it does ends the episode.                                 *)
(***************************************************************************)
Clicks ==
    /\ clicked \subseteq {"target", "other"}
    /\ clicked # {} => task = "t1" /\ stage \in {"ctrl", "verdict", "done"}

LEMMA VerdictDecides == Clicks /\ Verdict => stage' = "done" \/ clicked' = {}
<1> SUFFICES ASSUME Clicks, Verdict, clicked # {} PROVE outcome' # "none"
  BY DEF Verdict
<1>1. PICK success \in Succeeds :
        outcome' = CASE aborted -> "force_abort"
                     [] ~aborted /\ Failure # "none" -> Failure
                     [] ~aborted /\ Failure = "none" /\ success -> "success"
                     [] ~aborted /\ Failure = "none" /\ ~success /\ Len(subtask) >= Limit -> "timeout"
                     [] OTHER -> "none"
  BY DEF Verdict
<1>2. CASE aborted
  BY <1>1, <1>2
<1>3. CASE ~aborted /\ Failure # "none"
  BY <1>1, <1>3
<1>4. CASE ~aborted /\ Failure = "none"
  <2>1. clicked = {"target"} /\ task = "t1"
    BY <1>4 DEF Clicks, Failure
  <2>2. ~TooHard(peak)
    BY <1>4, <2>1 DEF Failure
  <2>3. success
    BY <1>1, <1>4, <2>1, <2>2 DEF Succeeds
  <2>4. QED
    BY <1>1, <1>4, <2>3
<1>5. QED
  BY <1>2, <1>3, <1>4

LEMMA ClicksInvariant == PromptSpec => []Clicks
<1>1. PromptInit => Clicks
  BY DEF PromptInit, GantryInit, Clicks
<1>2. Clicks /\ [PromptNext]_<<gantryVars, promptVars>> => Clicks'
  <2> SUFFICES ASSUME Clicks, [PromptNext]_<<gantryVars, promptVars>> PROVE Clicks'
    OBVIOUS
  <2>1. CASE NewEpisode
    BY <2>1 DEF NewEpisode, Reset, Clicks
  <2>2. CASE Act
    BY <2>2 DEF Act, Clicks
  <2>3. CASE Sample
    <3>1. PICK f \in Felt, caps \in Pressed :
            clicked' = clicked \cup caps /\ stage' \in {"ctrl", "verdict"} /\ task' = task
      BY <2>3 DEF Sample
    <3>2. caps \subseteq {"target", "other"} /\ (caps # {} => task = "t1")
      BY <3>1 DEF Pressed
    <3>3. QED
      BY <3>1, <3>2 DEF Clicks
  <2>4. CASE Verdict
    BY <2>4, VerdictDecides DEF Verdict, Clicks
  <2>5. CASE Follow \/ UNCHANGED <<gantryVars, promptVars>>
    BY <2>5 DEF Follow, gantryVars, Clicks
  <2>6. QED
    BY <2>1, <2>2, <2>3, <2>4, <2>5 DEF PromptNext, GantryStep
<1>3. QED
  BY <1>1, <1>2, PTL DEF PromptSpec

(***************************************************************************)
(* No press acts again after a click: the tool is never recorded backing   *)
(* off (env.py and tasks.py; the "done" of subtasks.py has no rows).       *)
(***************************************************************************)
THEOREM ClickEndsTheEpisode == PromptSpec => []ClickDecides
<1>1. Clicks => ClickDecides
  BY DEF Clicks, ClickDecides
<1>2. QED
  BY <1>1, ClicksInvariant, PTL

-----------------------------------------------------------------------------
(***************************************************************************)
(* What an episode has gone through: the last row's label is the expert's  *)
(* phase; a cube or peg has moved, a cap has clicked and cells beyond the  *)
(* first are covered in their phases only; and each sample adds one of     *)
(* contact at most.                                                        *)
(***************************************************************************)
RowsSay ==
    stage \in {"ctrl", "verdict", "done"} =>
        subtask # <<>> /\ subtask[Len(subtask)] = Label(task, fsm)

CubeRises == task = "t0" /\ gained > 0 => fsm = 3

PegSinks == task = "t3" =>
    /\ gained > 0 => fsm >= 1
    /\ gained = 2 => fsm = 3
    /\ gained > 0 /\ stage = "ctrl" /\ tick = 0 => fsm = 3

CapGives == clicked # {} => fsm = 2

StripIsWiped == task = "t2" /\ fsm < 2 => at = 1 /\ covered \subseteq {1}

ContactIsCounted ==
    /\ contact \in Nat /\ tick \in Nat
    /\ stage # "ctrl" => contact <= Len(subtask) * Samples
    /\ stage = "ctrl" => tick < Samples /\ contact + Samples <= Len(subtask) * Samples + tick

Earned == outcome = "success" => stage = "done" /\ SuccessIsEarned

EarnInv ==
    /\ gained \in 0..2 /\ covered \subseteq 1..Cells /\ at \in 1..Cells
    /\ RowsSay /\ CubeRises /\ PegSinks /\ CapGives /\ StripIsWiped /\ ContactIsCounted /\ Earned

LEMMA LastPhases ==
    /\ LastPhase("t0") = 3 /\ LastPhase("t1") = 3 /\ LastPhase("t2") = 2 /\ LastPhase("t3") = 3
BY DEF LastPhase, PhaseSubtask

LEMMA EarnedAtFirst == PromptInit => EarnInv
BY DEF PromptInit, GantryInit, EarnInv, RowsSay, CubeRises, PegSinks, CapGives, StripIsWiped,
       ContactIsCounted, Earned

LEMMA NewEpisodeEarns == NewEpisode => EarnInv'
<1> SUFFICES ASSUME NewEpisode PROVE EarnInv'
  OBVIOUS
<1>1. PICK t \in Tasks : Reset(t)
  BY DEF NewEpisode
<1>2. /\ stage' = "act" /\ fsm' = 0 /\ at' = 1 /\ subtask' = <<>> /\ tick' = 0 /\ gained' = 0
      /\ clicked' = {} /\ contact' = 0 /\ covered' = {} /\ outcome' = "none"
  BY <1>1 DEF Reset
<1>3. QED
  BY <1>2 DEF EarnInv, RowsSay, CubeRises, PegSinks, CapGives, StripIsWiped, ContactIsCounted, Earned

\* The expert's search is over where the peg has begun to sink.
LEMMA SunkenPegIsInserted ==
    ASSUME task = "t3", fsm \in 1..3, gained > 0, gained \in 0..2,
           NEW near \in BOOLEAN, NEW low \in BOOLEAN
    PROVE  NextPhase(Reached(near, low)) = 3
<1>1. LastPhase(task) = 3
  BY LastPhases
<1>2. \A p \in {1, 2} : p \in Reached(near, low)
  BY <1>1 DEF Reached
<1>3. Reached(near, low) \subseteq 0..2
  BY <1>1 DEF Reached
<1>4. NextPhase(Reached(near, low)) \in fsm..LastPhase(task)
  BY <1>1, <1>3, PhasesRise DEF Tasks
<1>5. 3 \notin Reached(near, low) /\ \A p \in fsm..3 - 1 : p \in Reached(near, low)
  BY <1>2, <1>3
<1>6. NextPhase(Reached(near, low)) \notin Reached(near, low)
  BY <1>1, <1>5 DEF NextPhase
<1>7. QED
  BY <1>1, <1>2, <1>4, <1>6

LEMMA ActEarns == Labels /\ EarnInv /\ Clicks /\ Act => EarnInv'
<1> SUFFICES ASSUME Labels, EarnInv, Clicks, Act PROVE EarnInv'
  OBVIOUS
<1>1. /\ stage = "act" /\ stage' = "ctrl" /\ tick' = 0 /\ subtask' = Append(subtask, Label(task, fsm'))
      /\ UNCHANGED <<task, gained, clicked, contact, covered, outcome>>
  BY DEF Act
<1>2. PICK near \in BOOLEAN, low \in BOOLEAN : fsm' = NextPhase(Reached(near, low))
  BY DEF Act
<1>3. task \in Tasks /\ fsm \in 0..LastPhase(task) /\ subtask \in Seq(Int)
  BY <1>1 DEF Labels
<1>4. fsm' \in fsm..LastPhase(task)
  <2>1. Reached(near, low) \subseteq 0..LastPhase(task) - 1
    BY DEF Reached
  <2>2. QED
    BY <1>2, <1>3, <2>1, PhasesRise
<1>5. LastPhase(task) \in {2, 3} /\ fsm \in Nat /\ fsm' \in Nat /\ fsm <= fsm'
  BY <1>3, <1>4, LabelsRise
<1>6. subtask' # <<>> /\ Len(subtask') = Len(subtask) + 1 /\ subtask'[Len(subtask')] = Label(task, fsm')
      /\ Len(subtask) \in Nat
  <2>1. Label(task, fsm') \in Int
    BY <1>3, <1>4, <1>5, LabelsRise
  <2>2. QED
    BY <1>1, <1>3, <2>1
<1>7. RowsSay'
  BY <1>1, <1>6 DEF RowsSay
<1>8. CubeRises' /\ StripIsWiped' /\ at' \in 1..Cells
  <2>1. task = "t0" /\ gained > 0 => fsm' = 3
    BY <1>3, <1>4, <1>5, LastPhases DEF EarnInv, CubeRises
  <2>2. at' \in 1..Cells /\ (task = "t2" /\ fsm' < 2 => at' = at)
    BY DEF Act, Sweep, EarnInv
  <2>3. QED
    BY <1>1, <1>5, <2>1, <2>2 DEF EarnInv, CubeRises, StripIsWiped
<1>9. PegSinks'
  <2>1. ASSUME task = "t3", gained > 0 PROVE fsm' = 3
    <3>1. fsm \in 1..3
      BY <1>3, <2>1, LastPhases DEF EarnInv, PegSinks
    <3>2. QED
      BY <1>2, <2>1, <3>1, SunkenPegIsInserted DEF EarnInv
  <2>2. QED
    BY <1>1, <2>1 DEF EarnInv, PegSinks
<1>10. CapGives'
  BY <1>1 DEF Clicks, CapGives
<1>11. ContactIsCounted'
  <2> DEFINE l == Len(subtask)
  <2>1. l \in Nat /\ contact \in Nat /\ contact <= l * Samples
    BY <1>1, <1>6 DEF EarnInv, ContactIsCounted
  <2>2. (l + 1) * Samples = l * Samples + Samples /\ l * Samples \in Nat
    BY <2>1
  <2>3. contact + Samples <= (l + 1) * Samples + 0
    <3> DEFINE m == l * Samples
               n == (l + 1) * Samples
    <3>1. n = m + Samples /\ m \in Nat /\ contact <= m /\ contact \in Nat
      BY <2>1, <2>2
    <3> HIDE DEF m, n
    <3>2. contact + Samples <= n + 0
      BY <3>1
    <3>3. QED
      BY <3>2 DEF n
  <2>4. QED
    BY <1>1, <1>6, <2>1, <2>3 DEF ContactIsCounted
<1>12. QED
  BY <1>1, <1>7, <1>8, <1>9, <1>10, <1>11 DEF EarnInv, Earned

LEMMA SampleEarns == Labels /\ EarnInv /\ Clicks /\ Sample => EarnInv'
<1> SUFFICES ASSUME Labels, EarnInv, Clicks, Sample PROVE EarnInv'
  OBVIOUS
<1>1. PICK f \in Felt, caps \in Pressed :
         /\ clicked' = clicked \cup caps /\ Counts(f)
         /\ stage' = IF Aborts(f) \/ tick + 1 = Samples THEN "verdict" ELSE "ctrl"
  BY DEF Sample
<1>2. /\ stage = "ctrl" /\ gained' \in Moved /\ tick' = tick + 1
      /\ UNCHANGED <<task, fsm, at, subtask, outcome>>
  BY DEF Sample
<1>3. task \in Tasks /\ fsm \in 0..LastPhase(task) /\ LastPhase(task) \in {2, 3}
  BY <1>2, LabelsRise DEF Labels
<1>4. gained' \in 0..2 /\ gained' \in {gained - 1, gained, gained + 1}
      /\ (gained' # gained => tick = 0 /\ fsm >= (CASE task = "t0" -> 3 [] task = "t3" -> 1 [] OTHER -> 4))
  BY <1>2 DEF Moved, EarnInv
<1>5. RowsSay' /\ Earned'
  BY <1>1, <1>2 DEF EarnInv, RowsSay, Earned
<1>6. CubeRises'
  BY <1>2, <1>3, <1>4, LastPhases DEF EarnInv, CubeRises
<1>7. PegSinks'
  <2> SUFFICES ASSUME task = "t3" PROVE PegSinks'
    BY <1>2 DEF PegSinks
  <2>1. fsm \in 0..3 /\ tick \in Nat
    BY <1>3, LastPhases DEF EarnInv, ContactIsCounted
  <2>2. CASE gained' = gained
    BY <1>2, <2>1, <2>2 DEF EarnInv, PegSinks
  <2>3. CASE gained' # gained
    <3>1. tick = 0 /\ fsm >= 1
      BY <1>4, <2>3
    <3>2. gained > 0 => fsm = 3
      BY <1>2, <3>1 DEF EarnInv, PegSinks
    <3>3. gained' = 2 => gained > 0
      BY <1>4, <2>3 DEF EarnInv
    <3>4. QED
      BY <1>2, <2>1, <3>1, <3>2, <3>3 DEF PegSinks
  <2>4. QED
    BY <2>2, <2>3
<1>8. CapGives'
  <2>1. caps # {} => fsm = 2
    BY <1>1 DEF Pressed
  <2>2. QED
    BY <1>1, <1>2, <2>1 DEF EarnInv, CapGives
<1>9. StripIsWiped' /\ covered' \subseteq 1..Cells
  BY <1>1, <1>2 DEF Counts, EarnInv, StripIsWiped
<1>10. ContactIsCounted'
  <2> DEFINE m == Len(subtask) * Samples
  <2>1. /\ contact \in Nat /\ tick \in Nat /\ tick < Samples /\ contact + Samples <= m + tick
        /\ m \in Nat
    BY <1>2 DEF EarnInv, ContactIsCounted, Labels
  <2>2. contact' \in {contact, contact + 1}
    BY <1>1 DEF Counts
  <2>3. m' = m
    BY <1>2
  <2> HIDE DEF m
  <2>4. contact' \in Nat /\ tick' \in Nat /\ contact' <= m /\ contact' + Samples <= m + tick'
    <3>1. tick' = tick + 1 /\ Samples \in Nat
      BY <1>2
    <3>2. CASE contact' = contact
      BY <2>1, <3>1, <3>2
    <3>3. CASE contact' = contact + 1
      BY <2>1, <3>1, <3>3
    <3>4. QED
      BY <2>2, <3>2, <3>3
  <2>5. stage' = "ctrl" => tick' < Samples
    BY <1>1, <1>2, <2>1
  <2>6. QED
    BY <2>3, <2>4, <2>5 DEF ContactIsCounted, m
<1>11. QED
  BY <1>2, <1>4, <1>5, <1>6, <1>7, <1>8, <1>9, <1>10 DEF EarnInv

\* The strip's first cell alone is no wiped strip.
LEMMA OneCellIsNotEnough == covered \subseteq {1} => Missed
<1> SUFFICES ASSUME covered \subseteq {1} PROVE Missed
  OBVIOUS
<1>1. IsFiniteSet({1}) /\ Cardinality({1}) = 1
  BY FS_Singleton
<1>2. Cardinality(covered) <= 1 /\ Cardinality(covered) \in Nat
  BY <1>1, FS_Subset, FS_CardinalityType
<1> DEFINE n == Cardinality(covered)
<1>3. n \in Nat /\ n <= 1
  BY <1>2
<1>4. 10 * n < 9 * Cells
  <2> HIDE DEF n
  <2>1. QED
    BY <1>3
<1>5. QED
  BY <1>4 DEF Missed

LEMMA VerdictEarns == Labels /\ EarnInv /\ Clicks /\ Verdict => EarnInv'
<1> SUFFICES ASSUME Labels, EarnInv, Clicks, Verdict PROVE EarnInv'
  OBVIOUS
<1>1. /\ stage = "verdict" /\ stage' = IF outcome' = "none" THEN "act" ELSE "done"
      /\ UNCHANGED <<task, fsm, at, subtask, tick, gained, clicked, contact, track, covered>>
  BY DEF Verdict
<1>2. task \in Tasks /\ fsm \in 0..LastPhase(task)
  BY <1>1 DEF Labels
<1>3. RowsSay' /\ CubeRises' /\ CapGives' /\ StripIsWiped'
  BY <1>1 DEF EarnInv, RowsSay, CubeRises, CapGives, StripIsWiped
<1>4. PegSinks' /\ ContactIsCounted'
  BY <1>1 DEF EarnInv, PegSinks, ContactIsCounted
<1>5. ASSUME outcome' = "success" PROVE stage' = "done" /\ SuccessIsEarned'
  <2>1. TRUE \in Succeeds
    <3>1. PICK success \in Succeeds :
            outcome' = CASE aborted -> "force_abort"
                         [] ~aborted /\ Failure # "none" -> Failure
                         [] ~aborted /\ Failure = "none" /\ success -> "success"
                         [] ~aborted /\ Failure = "none" /\ ~success /\ Len(subtask) >= Limit -> "timeout"
                         [] OTHER -> "none"
      BY DEF Verdict
    <3>2. Failure # "success" /\ success \in BOOLEAN
      BY <1>2 DEF Failure, Succeeds, Tasks
    <3>3. ~aborted
      BY <1>5, <3>1
    <3>4. Failure = "none"
      BY <1>5, <3>1, <3>2, <3>3
    <3>5. success
      BY <1>5, <3>1, <3>3, <3>4
    <3>6. QED
      BY <3>2, <3>5
  <2>2. fsm = IF task = "t1" THEN 2 ELSE LastPhase(task)
    <3>1. CASE task = "t0"
      <4>1. gained = 2
        BY <2>1, <3>1 DEF Succeeds
      <4>2. QED
        BY <3>1, <4>1, LastPhases DEF EarnInv, CubeRises
    <3>2. CASE task = "t1"
      BY <2>1, <3>2 DEF Succeeds, EarnInv, CapGives
    <3>3. CASE task = "t2"
      <4>1. ~Missed
        BY <2>1, <3>3 DEF Succeeds
      <4>2. ~(fsm < 2)
        BY <3>3, <4>1, OneCellIsNotEnough DEF EarnInv, StripIsWiped
      <4>3. QED
        BY <1>2, <3>3, <4>2, LastPhases
    <3>4. CASE task = "t3"
      BY <2>1, <3>4, LastPhases DEF Succeeds, EarnInv, PegSinks
    <3>5. QED
      BY <1>2, <3>1, <3>2, <3>3, <3>4 DEF Tasks
  <2>3. subtask[Len(subtask)] = Label(task, IF task = "t1" THEN 2 ELSE LastPhase(task))
    BY <1>1, <2>2 DEF EarnInv, RowsSay
  <2>4. ASSUME task = "t2" PROVE Len(subtask) * Samples >= MinContact
    <3>1. contact >= MinContact
      BY <2>1, <2>4 DEF Succeeds
    <3> DEFINE m == Len(subtask) * Samples
    <3>2. contact \in Nat /\ contact <= m /\ m \in Nat
      BY <1>1 DEF EarnInv, ContactIsCounted, Labels
    <3> HIDE DEF m
    <3>3. m >= MinContact
      BY <3>1, <3>2
    <3>4. QED
      BY <3>3 DEF m
  <2>5. QED
    BY <1>1, <1>5, <2>3, <2>4 DEF SuccessIsEarned
<1>6. QED
  BY <1>1, <1>3, <1>4, <1>5 DEF EarnInv, Earned

(***************************************************************************)
(* A success is the episode's own: the verdict asks for what only the last *)
(* part of the task does to the object, which each reset puts back.        *)
(***************************************************************************)
THEOREM SuccessStaysEarned == PromptSpec => []SuccessIsEarned
<1>1. Labels /\ Clicks /\ EarnInv /\ [PromptNext]_<<gantryVars, promptVars>> => EarnInv'
  <2> SUFFICES ASSUME Labels, Clicks, EarnInv, [PromptNext]_<<gantryVars, promptVars>> PROVE EarnInv'
    OBVIOUS
  <2>1. CASE NewEpisode
    BY <2>1, NewEpisodeEarns
  <2>2. CASE GantryStep
    BY <2>2, ActEarns, SampleEarns, VerdictEarns DEF GantryStep
  <2>3. CASE Follow \/ UNCHANGED <<gantryVars, promptVars>>
    <3>1. UNCHANGED gantryVars
      BY <2>3 DEF Follow
    <3>2. QED
      BY <3>1 DEF gantryVars, EarnInv, RowsSay, CubeRises, PegSinks, CapGives, StripIsWiped,
                  ContactIsCounted, Earned, SuccessIsEarned
  <2>4. QED
    BY <2>1, <2>2, <2>3 DEF PromptNext
<1>2. IInv => Labels
  BY DEF IInv
<1>3. EarnInv => SuccessIsEarned
  BY DEF EarnInv, Earned, SuccessIsEarned
<1>4. QED
  BY <1>1, <1>2, <1>3, PromptInvariant, ClicksInvariant, EarnedAtFirst, PTL DEF PromptSpec

HIDE GantryAssumption DEF GantryAssumption

USE WorkersAssumption, SeedAssumption DEF WorkersAssumption, SeedAssumption

-----------------------------------------------------------------------------
(***************************************************************************)
(* Lesson 19's suite: what each worker has trained, logged and saved.      *)
(***************************************************************************)
\* The steps up to t at which a worker evaluates.
Evals(t) == {k \in 0..t : Evaluates(k)}
StepsOf(s) == {s[i] : i \in 1..Len(s)}

SeedType ==
    /\ worker \in [Procs -> {"none", "run", "row", "best", "lastrow", "check", "save", "result",
                             "ok", "bad"}]
    /\ trained \in [Procs -> 0..TrainSteps]
    /\ log \in [Procs -> Seq(0..TrainSteps)]
    /\ off \in [Procs -> Nat]
    /\ merged \in Seq((Procs \cup {0}) \X (0..TrainSteps))
    /\ stopFile \subseteq Procs /\ todo \subseteq waiting /\ stopped \in BOOLEAN
    /\ DOMAIN model \subseteq Procs /\ DOMAIN result \subseteq Procs
    /\ result = [q \in DOMAIN result |-> result[q]]

\* Its rows are those of the evaluations behind it; it ends before TrainSteps
\* only with a STOP; what it saved at its end is of the step it came to.
WorkerOK(p) ==
    LET w == worker[p]
        t == trained[p]
    IN  /\ w = "none" => t = 0 /\ log[p] = <<>>
        /\ w \in {"row", "best"} => Evaluates(t)
        /\ w = "row" => StepsOf(log[p]) = Evals(t - 1)
        /\ w \in {"best", "check", "run", "lastrow"} => StepsOf(log[p]) = Evals(t)
        /\ w = "run" => t < TrainSteps
        /\ w \in {"lastrow", "save", "result", "ok"} => t = TrainSteps \/ p \in stopFile
        /\ w \in {"save", "result", "ok"} => StepsOf(log[p]) = Evals(t) \cup {t}
        /\ w \in {"result", "ok"} => p \in DOMAIN model /\ model[p] = t
        /\ p \in DOMAIN result <=> w = "ok"
        /\ w = "ok" => result[p] = t

\* The parent waits for all that were spawned, and goes on when all have ended.
Quietened == parentPc \in {"last", "judge", "after"} \/ state \in {"done", "stopped"}
ParentOK ==
    /\ parentPc \in {"spawn", "wait", "drain", "last", "poll", "held", "touch", "judge", "after",
                     "ended", "raised", "killed"}
    /\ state \in {"running", "paused", "done", "stopped", "failed"}
    /\ waiting = {p \in Procs : worker[p] # "none"}
    /\ parentPc = "spawn" => Unspawned # {}
    /\ parentPc \notin {"spawn", "raised", "killed"} => Unspawned = {}
    /\ state \in {"done", "stopped"} => parentPc = "ended"
    /\ Quietened => waiting = Procs /\ \A p \in Procs : ~Alive(p)
    /\ stopFile # {} \/ parentPc = "touch" => stopped
    /\ parentPc = "ended" => \A p \in Procs : Alive(p) => p \in told

\* What is drained is read to its end, and stays so once all workers ended.
RowsOK(p) ==
    /\ off[p] <= Len(log[p])
    /\ Cardinality(RowsOf(p)) = off[p]
    /\ \A i \in RowsOf(p) : merged[i] = <<p, log[p][Place(RowsOf(p), i)]>>
DrainedOK ==
    /\ parentPc = "last" => \A p \in Procs \ todo : off[p] = Len(log[p])
    /\ parentPc \in {"judge", "after"} \/ state \in {"done", "stopped"} =>
          \A p \in Procs : off[p] = Len(log[p])

SeenByAll == {k \in 0..TrainSteps : \A p \in Procs : k \in Seen(p)}
MediansOK ==
    /\ \A i, j \in RowsOf(0) : merged[i][2] = merged[j][2] => i = j
    /\ \A i \in RowsOf(0), p \in Procs : \E j \in 1..(i - 1) : merged[j] = <<p, merged[i][2]>>
    /\ parentPc \in {"judge", "after"} \/ state \in {"done", "stopped"} => SeenByAll \subseteq Logged

SavedOK ==
    /\ label = "none" => parentPc # "after" /\ state \notin {"done", "stopped"}
    /\ label # "none" => /\ parentPc \in {"after", "ended", "killed"}
                         /\ saved = result /\ DOMAIN saved = Procs
                         /\ \A p \in Procs : worker[p] = "ok"
    /\ label = "final" => ~stopped
    /\ parentPc = "after" /\ ~stopped => label = "final"
    /\ state = "done" => label = "final"

SeedInv ==
    /\ SeedType /\ ParentOK /\ DrainedOK /\ MediansOK /\ SavedOK
    /\ \A p \in Procs : WorkerOK(p) /\ RowsOK(p)

-----------------------------------------------------------------------------
LEMMA ProcsAre ==
    /\ IsFiniteSet(Procs) /\ Procs \subseteq Nat \ {0} /\ Quiet = {} /\ Procs # {}
    /\ TrainSteps \in Nat \ {0} /\ Every \in Nat \ {0}
<1>1. Cardinality(Procs) \in Nat \ {0} /\ Procs = 1..Cardinality(Procs)
  OBVIOUS
<1>2. IsFiniteSet(1..Cardinality(Procs))
  BY <1>1, FS_Interval
<1>3. 1..Cardinality(Procs) \subseteq Nat \ {0} /\ 1 \in 1..Cardinality(Procs)
  BY <1>1
<1>4. QED
  BY <1>1, <1>2, <1>3

\* The parent's loops take the first of a set that has one.
LEMMA LeastIsThere ==
    ASSUME NEW S, S \subseteq Nat, S # {}
    PROVE  \E x \in S : \A y \in S : x <= y
<1>1. PICK x \in S : \A y \in S : ~ (<<y, x>> \in OpToRel(<, Nat))
  BY WFMin, NatLessThanWellFounded
<1>2. OpToRel(<, Nat) = {ss \in Nat \X Nat : ss[1] < ss[2]}
  BY Zenon DEF OpToRel
<1>3. \A y \in S : ~ (<<y, x>> \in {ss \in Nat \X Nat : ss[1] < ss[2]})
  BY <1>1, <1>2, Zenon
<1>4. ASSUME NEW y \in S, y < x PROVE FALSE
  <2>1. <<y, x>> \in Nat \X Nat /\ <<y, x>>[1] < <<y, x>>[2]
    BY <1>4
  <2>2. QED
    BY <1>3, <2>1, Zenon
<1>5. \A y \in S : x <= y
  BY <1>4
<1>6. QED
  BY <1>5

LEMMA FirstIsIn ==
    ASSUME NEW S, S \subseteq Procs, S # {}
    PROVE  First(S) \in S /\ \A q \in S : First(S) <= q
BY LeastIsThere, ProcsAre DEF First

\* One more row is one more step.
LEMMA StepsGrow ==
    ASSUME NEW s \in Seq(0..TrainSteps), NEW x \in 0..TrainSteps
    PROVE  /\ Append(s, x) \in Seq(0..TrainSteps)
           /\ StepsOf(Append(s, x)) = StepsOf(s) \cup {x}
           /\ Len(Append(s, x)) = Len(s) + 1 /\ Len(s) \in Nat
           /\ \A i \in 1..Len(s) : Append(s, x)[i] = s[i]
<1> DEFINE T == 0..TrainSteps
<1>1. s \in Seq(T) /\ x \in T
  OBVIOUS
<1> HIDE DEF T
<1>2. /\ Append(s, x) \in Seq(T) /\ Len(Append(s, x)) = Len(s) + 1 /\ Len(s) \in Nat
      /\ \A i \in 1..Len(s) : Append(s, x)[i] = s[i]
      /\ Append(s, x)[Len(s) + 1] = x
  BY <1>1
<1>3. ASSUME NEW y PROVE y \in StepsOf(Append(s, x)) <=> y \in StepsOf(s) \cup {x}
  <2>1. ASSUME y \in StepsOf(Append(s, x)) PROVE y \in StepsOf(s) \cup {x}
    <3>1. PICK i \in 1..Len(s) + 1 : y = Append(s, x)[i]
      BY <1>2, <2>1 DEF StepsOf
    <3>2. CASE i = Len(s) + 1
      BY <1>2, <3>1, <3>2
    <3>3. CASE i # Len(s) + 1
      <4>1. i \in 1..Len(s)
        BY <1>2, <3>3
      <4>2. QED
        BY <1>2, <3>1, <4>1 DEF StepsOf
    <3>4. QED
      BY <3>2, <3>3
  <2>2. ASSUME y \in StepsOf(s) PROVE y \in StepsOf(Append(s, x))
    <3>1. PICK i \in 1..Len(s) : y = s[i]
      BY <2>2 DEF StepsOf
    <3>2. i \in 1..Len(Append(s, x)) /\ y = Append(s, x)[i]
      BY <1>2, <3>1
    <3>3. QED
      BY <3>2 DEF StepsOf
  <2>3. x \in StepsOf(Append(s, x))
    <3>1. Len(s) + 1 \in 1..Len(Append(s, x))
      BY <1>2
    <3>2. QED
      BY <1>2, <3>1, Zenon DEF StepsOf
  <2>4. QED
    BY <2>1, <2>2, <2>3
<1>4. QED
  BY <1>2, <1>3 DEF T

\* One more step is an evaluation, or not.
LEMMA EvalsGrow ==
    ASSUME NEW t \in 0..TrainSteps
    PROVE  /\ Evaluates(t) => Evals(t) = Evals(t - 1) \cup {t}
           /\ ~Evaluates(t) => Evals(t) = Evals(t - 1)
           /\ Evaluates(0) /\ Evals(-1) = {} /\ ~Evaluates(TrainSteps)
<1>1. TrainSteps \in Nat \ {0} /\ Every \in Nat \ {0} /\ t \in Nat
  BY ProcsAre
<1>2. \A k : k \in 0..t <=> k \in 0..(t - 1) \/ k = t
  BY <1>1
<1>3. Evaluates(t) => Evals(t) = Evals(t - 1) \cup {t}
  BY <1>2 DEF Evals
<1>4. ~Evaluates(t) => Evals(t) = Evals(t - 1)
  BY <1>2 DEF Evals
<1>5. Evaluates(0) /\ ~Evaluates(TrainSteps)
  BY <1>1 DEF Evaluates
<1>6. Evals(-1) = {}
  BY DEF Evals
<1>7. QED
  BY <1>3, <1>4, <1>5, <1>6

-----------------------------------------------------------------------------
\* A step of worker p.
Step(p) ==
    /\ Alive(p)
    /\ \E w \in Running \cup {"ok", "bad"} : worker' = [worker EXCEPT ![p] = w]
    /\ \E t \in 0..TrainSteps : trained' = [trained EXCEPT ![p] = t]
    /\ \/ log' = log
       \/ \E x \in 0..TrainSteps : log' = [log EXCEPT ![p] = Append(@, x)]
    /\ \A q \in Procs \ {p} : /\ q \in DOMAIN model' <=> q \in DOMAIN model
                              /\ q \in DOMAIN model => model'[q] = model[q]
                              /\ q \in DOMAIN result' <=> q \in DOMAIN result
                              /\ q \in DOMAIN result => result'[q] = result[q]
    /\ DOMAIN model' \subseteq Procs /\ DOMAIN result' \subseteq Procs
    /\ result' = [q \in DOMAIN result' |-> result'[q]]
    /\ UNCHANGED <<stopFile, told, parentPc, parentVars, asked, suiteVars>>

LEMMA LogsGrow ==
    ASSUME SeedType, NEW p \in Procs, Step(p)
    PROVE  /\ log' \in [Procs -> Seq(0..TrainSteps)]
           /\ \A q \in Procs : /\ Len(log[q]) \in Nat /\ Len(log'[q]) \in Nat
                               /\ Len(log[q]) <= Len(log'[q])
                               /\ \A i \in 1..Len(log[q]) : log'[q][i] = log[q][i]
                               /\ q # p => log'[q] = log[q]
<1> DEFINE T == 0..TrainSteps
<1>1. log \in [Procs -> Seq(T)]
  BY DEF SeedType
<1>2. CASE log' = log
  <2>1. log' \in [Procs -> Seq(T)]
    BY <1>1, <1>2
  <2>2. QED
    BY <1>1, <1>2, <2>1
<1>3. ASSUME NEW x \in T, log' = [log EXCEPT ![p] = Append(@, x)]
      PROVE  /\ log' \in [Procs -> Seq(T)]
             /\ \A q \in Procs : /\ Len(log[q]) \in Nat /\ Len(log'[q]) \in Nat
                                 /\ Len(log[q]) <= Len(log'[q])
                                 /\ \A i \in 1..Len(log[q]) : log'[q][i] = log[q][i]
                                 /\ q # p => log'[q] = log[q]
  <2>1. /\ Append(log[p], x) \in Seq(T) /\ Len(Append(log[p], x)) = Len(log[p]) + 1
        /\ Len(log[p]) \in Nat /\ \A i \in 1..Len(log[p]) : Append(log[p], x)[i] = log[p][i]
    BY <1>1, StepsGrow
  <2> HIDE DEF T
  <2>2. log' \in [Procs -> Seq(T)] /\ log'[p] = Append(log[p], x)
        /\ \A q \in Procs : q # p => log'[q] = log[q]
    BY <1>1, <1>3, <2>1
  <2>3. \A q \in Procs : Len(log[q]) \in Nat
    BY <1>1
  <2>4. ASSUME NEW q \in Procs
        PROVE  /\ Len(log'[q]) \in Nat /\ Len(log[q]) <= Len(log'[q])
               /\ \A i \in 1..Len(log[q]) : log'[q][i] = log[q][i]
    <3>1. CASE q = p
      BY <2>1, <2>2, <2>3, <3>1
    <3>2. CASE q # p
      BY <2>2, <2>3, <3>2
    <3>3. QED
      BY <3>1, <3>2
  <2>5. QED
    BY <2>2, <2>3, <2>4
<1>4. QED
  BY <1>2, <1>3 DEF Step

\* The step of a worker that stays true to what it has done keeps the invariant.
LEMMA StepKeeps ==
    ASSUME SeedInv, NEW p \in Procs, Step(p), WorkerOK(p)'
    PROVE  SeedInv'
<1>1. /\ UNCHANGED <<stopFile, told, parentPc, waiting, todo, stopped, state, merged, off, saved, label>>
      /\ Alive(p)
  BY DEF Step, parentVars, suiteVars
<1>2. PICK w \in Running \cup {"ok", "bad"} : worker' = [worker EXCEPT ![p] = w]
  BY DEF Step
<1>3. PICK t \in 0..TrainSteps : trained' = [trained EXCEPT ![p] = t]
  BY DEF Step
<1>4. SeedType /\ ParentOK /\ DrainedOK /\ MediansOK /\ SavedOK
  BY DEF SeedInv
<1>5. /\ log' \in [Procs -> Seq(0..TrainSteps)]
      /\ \A q \in Procs : /\ Len(log[q]) \in Nat /\ Len(log'[q]) \in Nat
                          /\ Len(log[q]) <= Len(log'[q])
                          /\ \A i \in 1..Len(log[q]) : log'[q][i] = log[q][i]
                          /\ q # p => log'[q] = log[q]
  BY <1>4, LogsGrow
<1>6. worker[p] \in Running /\ w # "none" /\ worker'[p] = w
      /\ \A q \in Procs : q # p => worker'[q] = worker[q] /\ trained'[q] = trained[q]
  <2>1. DOMAIN worker = Procs /\ DOMAIN trained = Procs
    BY <1>4 DEF SeedType
  <2>2. worker[p] \in Running
    BY <1>1 DEF Alive
  <2>3. w # "none"
    BY DEF Running
  <2>4. QED
    BY <1>2, <1>3, <2>1, <2>2, <2>3
<1>7. SeedType'
  <2>1. worker' \in [Procs -> {"none", "run", "row", "best", "lastrow", "check", "save", "result",
                               "ok", "bad"}]
    BY <1>2, <1>4 DEF SeedType, Running
  <2>2. trained' \in [Procs -> 0..TrainSteps]
    BY <1>3, <1>4 DEF SeedType
  <2>3. /\ DOMAIN model' \subseteq Procs /\ DOMAIN result' \subseteq Procs
        /\ result' = [q \in DOMAIN result' |-> result'[q]]
    BY DEF Step
  <2>4. QED
    BY <1>1, <1>4, <1>5, <2>1, <2>2, <2>3 DEF SeedType
<1>8. ~Quietened
  BY <1>1, <1>4 DEF ParentOK
<1>9. ParentOK'
  <2>1. \A q \in Procs : worker'[q] # "none" <=> worker[q] # "none"
    BY <1>6 DEF Running
  <2>2. Unspawned' = Unspawned
    BY <2>1 DEF Unspawned
  <2>3. waiting' = {q \in Procs : worker'[q] # "none"}
    BY <1>1, <1>4, <2>1 DEF ParentOK
  <2>4. \A q \in Procs : Alive(q)' => Alive(q)
    BY <1>1, <1>6 DEF Alive
  <2>5. ~Quietened'
    BY <1>1, <1>8 DEF Quietened
  <2>6. QED
    BY <1>1, <1>4, <2>2, <2>3, <2>4, <2>5 DEF ParentOK
<1>10. DrainedOK'
  BY <1>1, <1>8 DEF DrainedOK, Quietened
<1>11. MediansOK'
  <2>1. RowsOf(0)' = RowsOf(0)
    BY <1>1 DEF RowsOf
  <2>2. QED
    BY <1>1, <1>4, <1>8, <2>1 DEF MediansOK, Quietened
<1>12. SavedOK'
  <2>1. label = "none"
    BY <1>1, <1>4 DEF SavedOK, Alive, Running
  <2>2. QED
    BY <1>1, <1>4, <2>1 DEF SavedOK
<1>13. ASSUME NEW q \in Procs PROVE RowsOK(q)'
  <2>1. RowsOK(q) /\ off[q] \in Nat
    BY <1>4 DEF SeedInv, SeedType
  <2>2. RowsOf(q)' = RowsOf(q) /\ off'[q] = off[q]
    BY <1>1 DEF RowsOf
  <2>3. off[q] <= Len(log'[q])
    BY <1>5, <2>1 DEF RowsOK
  <2>4. ASSUME NEW i \in RowsOf(q) PROVE merged'[i] = <<q, log'[q][Place(RowsOf(q), i)]>>
    <3>1. Place(RowsOf(q), i) \in 1..off[q]
      <4>1. IsFiniteSet(RowsOf(q))
        <5>1. DOMAIN merged = 1..Len(merged) /\ Len(merged) \in Nat
          BY <1>4 DEF SeedType
        <5>2. IsFiniteSet(1..Len(merged)) /\ RowsOf(q) \in SUBSET (1..Len(merged))
          BY <5>1, FS_Interval DEF RowsOf
        <5>3. QED
          BY <5>2, FS_Subset
      <4> DEFINE before == {k \in RowsOf(q) : k <= i}
      <4>2. IsFiniteSet(before) /\ Cardinality(before) <= Cardinality(RowsOf(q))
        BY <4>1, FS_Subset
      <4>3. i \in before
        BY <1>4 DEF RowsOf, SeedType
      <4>4. Cardinality(before) \in Nat \ {0}
        BY <4>2, <4>3, FS_CardinalityType, FS_EmptySet
      <4>5. QED
        BY <2>1, <4>2, <4>4 DEF Place, RowsOK
    <3>2. Place(RowsOf(q), i) \in 1..Len(log[q])
      BY <1>5, <2>1, <3>1 DEF RowsOK
    <3>3. merged[i] = <<q, log[q][Place(RowsOf(q), i)]>>
      BY <2>1 DEF RowsOK
    <3>4. QED
      BY <1>1, <1>5, <3>2, <3>3
  <2>5. Place(RowsOf(q), 0)' = Place(RowsOf(q), 0)
    BY <2>2 DEF Place
  <2>6. \A i : Place(RowsOf(q), i)' = Place(RowsOf(q), i)
    BY <2>2 DEF Place
  <2>7. QED
    BY <2>1, <2>2, <2>3, <2>4, <2>6 DEF RowsOK
<1>14. ASSUME NEW q \in Procs, q # p PROVE WorkerOK(q)'
  <2>1. WorkerOK(q)
    BY DEF SeedInv
  <2>2. worker'[q] = worker[q] /\ trained'[q] = trained[q] /\ log'[q] = log[q] /\ stopFile' = stopFile
    BY <1>1, <1>5, <1>6, <1>14
  <2>3. /\ q \in DOMAIN model' <=> q \in DOMAIN model
        /\ q \in DOMAIN model => model'[q] = model[q]
        /\ q \in DOMAIN result' <=> q \in DOMAIN result
        /\ q \in DOMAIN result => result'[q] = result[q]
    BY <1>14 DEF Step
  <2>4. QED
    BY <2>1, <2>2, <2>3 DEF WorkerOK
<1>15. QED
  BY <1>7, <1>9, <1>10, <1>11, <1>12, <1>13, <1>14 DEF SeedInv

-----------------------------------------------------------------------------
\* The parent's side of a worker's step.
Alone == UNCHANGED <<stopFile, told, parentPc, parentVars, asked, suiteVars>>

LEMMA StopsAreAsBefore == Alone => stopFile' = stopFile
BY DEF Alone

LEMMA RoundKeeps ==
    ASSUME SeedInv, NEW p \in Procs, Round(p), Alone
    PROVE  SeedInv'
<1> DEFINE t == trained[p]
           to == IF Evaluates(t + 1) THEN "row" ELSE "check"
<1>1. /\ worker[p] = "run" /\ worker' = [worker EXCEPT ![p] = to]
      /\ trained' = [trained EXCEPT ![p] = @ + 1]
      /\ UNCHANGED <<log, model, result>>
  BY DEF Round, Train, Moves
<1>2. SeedType /\ WorkerOK(p)
  BY DEF SeedInv
<1>3. t \in 0..TrainSteps /\ t < TrainSteps /\ t + 1 \in 0..TrainSteps
      /\ StepsOf(log[p]) = Evals(t)
  BY <1>1, <1>2, ProcsAre DEF SeedType, WorkerOK
<1>4. worker'[p] = to /\ trained'[p] = t + 1 /\ trained' = [trained EXCEPT ![p] = t + 1]
  BY <1>1, <1>2 DEF SeedType
<1>5. Step(p)
  <2>1. /\ DOMAIN model' \subseteq Procs /\ DOMAIN result' \subseteq Procs
        /\ result' = [q \in DOMAIN result' |-> result'[q]]
    BY <1>1, <1>2, Zenon DEF SeedType
  <2>2. QED
    BY <1>1, <1>2, <1>3, <1>4, <2>1 DEF Step, Alone, Alive, Running
<1>6. /\ Evaluates(t + 1) => Evals(t + 1) = Evals(t) \cup {t + 1}
      /\ ~Evaluates(t + 1) => Evals(t + 1) = Evals(t)
      /\ (t + 1) - 1 = t
  BY <1>3, EvalsGrow
<1>7. WorkerOK(p)'
  <2>1. StepsOf(log'[p]) = Evals(t) /\ (p \in DOMAIN result' <=> p \in DOMAIN result)
    BY <1>1, <1>3
  <2>2. p \notin DOMAIN result
    BY <1>1, <1>2 DEF WorkerOK
  <2>3. CASE Evaluates(t + 1)
    BY <1>4, <1>6, <2>1, <2>2, <2>3 DEF WorkerOK
  <2>4. CASE ~Evaluates(t + 1)
    BY <1>4, <1>6, <2>1, <2>2, <2>4 DEF WorkerOK
  <2>5. QED
    BY <2>3, <2>4
<1>8. QED
  BY <1>5, <1>7, StepKeeps

\* A row is complete.
LEMMA RowKeeps ==
    ASSUME SeedInv, NEW p \in Procs, EvalRow(p) \/ FinalRow(p), Alone
    PROVE  SeedInv'
<1> DEFINE t == trained[p]
           x == Append(log[p], t)
<1>1. /\ \/ worker[p] = "row" /\ worker' = [worker EXCEPT ![p] = "best"]
         \/ worker[p] = "row" /\ worker' = [worker EXCEPT ![p] = "check"]
         \/ worker[p] = "lastrow" /\ worker' = [worker EXCEPT ![p] = "save"]
      /\ log' = [log EXCEPT ![p] = Append(@, t)]
      /\ UNCHANGED <<trained, model, result>>
  BY DEF EvalRow, FinalRow, RowEnds, Moves
<1>2. SeedType /\ WorkerOK(p)
  BY DEF SeedInv
<1>3. t \in 0..TrainSteps /\ log[p] \in Seq(0..TrainSteps)
  BY <1>2 DEF SeedType
<1>4. Step(p)
  <2>1. trained' = [trained EXCEPT ![p] = t]
    BY <1>1, <1>2 DEF SeedType
  <2>2. /\ DOMAIN model' \subseteq Procs /\ DOMAIN result' \subseteq Procs
        /\ result' = [q \in DOMAIN result' |-> result'[q]]
    BY <1>1, <1>2, Zenon DEF SeedType
  <2>3. Alive(p)
    BY <1>1 DEF Alive, Running
  <2>4. \E w \in Running \cup {"ok", "bad"} : worker' = [worker EXCEPT ![p] = w]
    BY <1>1 DEF Running
  <2>5. \A q \in Procs \ {p} : /\ q \in DOMAIN model' <=> q \in DOMAIN model
                               /\ model'[q] = model[q]
                               /\ q \in DOMAIN result' <=> q \in DOMAIN result
                               /\ result'[q] = result[q]
    BY <1>1
  <2>6. QED
    BY <1>1, <1>3, <2>1, <2>2, <2>3, <2>4, <2>5 DEF Step, Alone
<1>5. StepsOf(log'[p]) = StepsOf(log[p]) \cup {t}
  <2>1. log'[p] = Append(log[p], t)
    BY <1>1, <1>2 DEF SeedType
  <2>2. QED
    BY <1>3, <2>1, StepsGrow
<1>6. Evaluates(t) => Evals(t) = Evals(t - 1) \cup {t}
  BY <1>3, EvalsGrow
<1>7. WorkerOK(p)'
  <2>1. /\ trained'[p] = t /\ stopFile' = stopFile
        /\ worker'[p] \in {"best", "check", "save"}
        /\ worker[p] = "row" => worker'[p] \in {"best", "check"}
        /\ worker[p] = "lastrow" => worker'[p] = "save"
        /\ worker[p] \in {"row", "lastrow"}
    BY <1>1, <1>2, StopsAreAsBefore DEF SeedType
  <2>2. p \notin DOMAIN result /\ result' = result
    BY <1>1, <1>2 DEF WorkerOK
  <2>3. CASE worker[p] = "row"
    BY <1>2, <1>5, <1>6, <2>1, <2>2, <2>3 DEF WorkerOK
  <2>4. CASE worker[p] = "lastrow"
    BY <1>2, <1>5, <2>1, <2>2, <2>4 DEF WorkerOK
  <2>5. QED
    BY <2>1, <2>3, <2>4
<1>8. QED
  BY <1>4, <1>7, StepKeeps

\* It looks for its STOP, or it dies.
LEMMA CheckKeeps ==
    ASSUME SeedInv, NEW p \in Procs, CheckStop(p) \/ Dies(p), Alone
    PROVE  SeedInv'
<1> DEFINE t == trained[p]
<1>1. /\ UNCHANGED <<trained, log, model, result>>
      /\ \/ /\ worker[p] = "check" /\ (p \in stopFile \/ t = TrainSteps)
            /\ worker' = [worker EXCEPT ![p] = "lastrow"]
         \/ /\ worker[p] = "check" /\ t # TrainSteps
            /\ worker' = [worker EXCEPT ![p] = "run"]
         \/ Alive(p) /\ worker' = [worker EXCEPT ![p] = "bad"]
  BY DEF CheckStop, Dies, Moves
<1>2. SeedType /\ WorkerOK(p)
  BY DEF SeedInv
<1>3. t \in 0..TrainSteps /\ TrainSteps \in Nat
  BY <1>2, ProcsAre DEF SeedType
<1>4. Step(p)
  <2>1. trained' = [trained EXCEPT ![p] = t]
    BY <1>1, <1>2 DEF SeedType
  <2>2. /\ DOMAIN model' \subseteq Procs /\ DOMAIN result' \subseteq Procs
        /\ result' = [q \in DOMAIN result' |-> result'[q]]
    BY <1>1, <1>2, Zenon DEF SeedType
  <2>3. Alive(p)
    BY <1>1 DEF Alive, Running
  <2>4. \E w \in Running \cup {"ok", "bad"} : worker' = [worker EXCEPT ![p] = w]
    BY <1>1 DEF Running
  <2>5. \A q \in Procs \ {p} : /\ q \in DOMAIN model' <=> q \in DOMAIN model
                               /\ model'[q] = model[q]
                               /\ q \in DOMAIN result' <=> q \in DOMAIN result
                               /\ result'[q] = result[q]
    BY <1>1
  <2>6. QED
    BY <1>1, <1>3, <2>1, <2>2, <2>3, <2>4, <2>5 DEF Step, Alone
<1>5. WorkerOK(p)'
  <2>1. /\ trained'[p] = t /\ stopFile' = stopFile /\ log'[p] = log[p]
        /\ result' = result /\ p \notin DOMAIN result
    <3>1. worker[p] # "ok"
      BY <1>1 DEF Alive, Running
    <3>2. QED
      BY <1>1, <1>2, <3>1, StopsAreAsBefore DEF WorkerOK
  <2>2. CASE worker'[p] = "bad"
    BY <2>1, <2>2 DEF WorkerOK
  <2>3. CASE worker'[p] = "lastrow" /\ worker[p] = "check" /\ (p \in stopFile \/ t = TrainSteps)
    BY <1>2, <2>1, <2>3 DEF WorkerOK
  <2>4. CASE worker'[p] = "run" /\ worker[p] = "check" /\ t # TrainSteps
    BY <1>2, <1>3, <2>1, <2>4 DEF WorkerOK
  <2>5. QED
    BY <1>1, <1>2, <2>2, <2>3, <2>4 DEF SeedType
<1>6. QED
  BY <1>4, <1>5, StepKeeps

\* It replaces its weights, and then its result.
LEMMA SaveKeeps ==
    ASSUME SeedInv, NEW p \in Procs, SaveBest(p) \/ SaveResidual(p) \/ SaveResult(p), Alone
    PROVE  SeedInv'
<1> DEFINE t == trained[p]
<1>1. /\ UNCHANGED <<trained, log>>
      /\ \/ /\ \/ worker[p] = "best" /\ worker' = [worker EXCEPT ![p] = "check"]
               \/ worker[p] = "save" /\ worker' = [worker EXCEPT ![p] = "result"]
            /\ model' = With(model, p, t) /\ result' = result
         \/ /\ worker[p] = "result" /\ worker' = [worker EXCEPT ![p] = "ok"]
            /\ result' = With(result, p, t) /\ model' = model
  BY DEF SaveBest, SaveResidual, SaveModel, SaveResult, Moves
<1>2. SeedType /\ WorkerOK(p)
  BY DEF SeedInv
<1>3. t \in 0..TrainSteps /\ TrainSteps \in Nat
  BY <1>2, ProcsAre DEF SeedType
<1>4. \A f : /\ DOMAIN With(f, p, t) = DOMAIN f \cup {p} /\ With(f, p, t)[p] = t
             /\ \A q \in DOMAIN f \ {p} : With(f, p, t)[q] = f[q]
  BY DEF With
<1>5. Step(p)
  <2>1. trained' = [trained EXCEPT ![p] = t]
    BY <1>1, <1>2 DEF SeedType
  <2>2. /\ DOMAIN model' \subseteq Procs /\ DOMAIN result' \subseteq Procs
        /\ result' = [q \in DOMAIN result' |-> result'[q]]
    <3>1. /\ DOMAIN model \subseteq Procs /\ DOMAIN model' \in {DOMAIN model, DOMAIN model \cup {p}}
          /\ DOMAIN result \subseteq Procs /\ DOMAIN result' \in {DOMAIN result, DOMAIN result \cup {p}}
      BY <1>1, <1>2, <1>4 DEF SeedType
    <3>2. With(result, p, t) = [q \in DOMAIN With(result, p, t) |-> With(result, p, t)[q]]
      BY DEF With
    <3>3. result' = [q \in DOMAIN result' |-> result'[q]]
      BY <1>1, <1>2, <3>2, Zenon DEF SeedType
    <3>4. QED
      BY <3>1, <3>3
  <2>3. Alive(p)
    BY <1>1 DEF Alive, Running
  <2>4. \E w \in Running \cup {"ok", "bad"} : worker' = [worker EXCEPT ![p] = w]
    BY <1>1 DEF Running
  <2>5. \A q \in Procs \ {p} : /\ q \in DOMAIN model' <=> q \in DOMAIN model
                               /\ q \in DOMAIN model => model'[q] = model[q]
                               /\ q \in DOMAIN result' <=> q \in DOMAIN result
                               /\ q \in DOMAIN result => result'[q] = result[q]
    BY <1>1, <1>4
  <2>6. QED
    BY <1>1, <1>3, <2>1, <2>2, <2>3, <2>4, <2>5 DEF Step, Alone
<1>6. WorkerOK(p)'
  <2>1. trained'[p] = t /\ stopFile' = stopFile /\ log'[p] = log[p]
    BY <1>1, StopsAreAsBefore
  <2>2. CASE worker[p] = "best" /\ worker'[p] = "check" /\ result' = result
    BY <1>2, <2>1, <2>2 DEF WorkerOK
  <2>3. CASE worker[p] = "save" /\ worker'[p] = "result" /\ result' = result /\ model' = With(model, p, t)
    BY <1>2, <1>4, <2>1, <2>3 DEF WorkerOK
  <2>4. CASE worker[p] = "result" /\ worker'[p] = "ok" /\ result' = With(result, p, t) /\ model' = model
    BY <1>2, <1>4, <2>1, <2>4 DEF WorkerOK
  <2>5. QED
    BY <1>1, <1>2, <2>2, <2>3, <2>4 DEF SeedType
<1>7. QED
  BY <1>5, <1>6, StepKeeps

-----------------------------------------------------------------------------
(***************************************************************************)
(* Places in a set of numbers.                                             *)
(***************************************************************************)
\* As many ranks as elements: every rank is somebody's.
LEMMA RanksHit ==
    ASSUME NEW S, IsFiniteSet(S), NEW T, IsFiniteSet(T), Cardinality(T) = Cardinality(S),
           NEW f \in [S -> T], \A i, k \in S : f[i] = f[k] => i = k
    PROVE  \A n \in T : \E k \in S : f[k] = n
<1> SUFFICES ASSUME NEW n \in T, \A k \in S : f[k] # n PROVE FALSE
  OBVIOUS
<1> DEFINE U == T \ {n}
<1>1. f \in [S -> U]
  OBVIOUS
<1>2. Cardinality(S) \in Nat
  BY FS_CardinalityType
<1>3. IsFiniteSet(U) /\ Cardinality(U) = Cardinality(T) - 1
  BY FS_RemoveElement
<1>4. Cardinality(U) < Cardinality(S)
  BY <1>2, <1>3
<1> HIDE DEF U
<1>5. \E x, y \in S : x # y /\ f[x] = f[y]
  BY <1>1, <1>3, <1>4, FS_PigeonHole
<1>6. QED
  BY <1>5

\* Elements whose sets of predecessors grow strictly have ranks of their own.
LEMMA RanksDiffer ==
    ASSUME NEW S, NEW D, IsFiniteSet(D), NEW f \in [S -> SUBSET D],
           \A i, k \in S : i # k => \/ f[i] \subseteq f[k] /\ f[i] # f[k]
                                    \/ f[k] \subseteq f[i] /\ f[k] # f[i]
    PROVE  \A i, k \in S : Cardinality(f[i]) = Cardinality(f[k]) => i = k
<1>1. SUFFICES ASSUME NEW i \in S, NEW k \in S, i # k, f[i] \subseteq f[k], f[i] # f[k]
               PROVE  Cardinality(f[i]) # Cardinality(f[k])
  BY Zenon
<1>2. IsFiniteSet(f[k])
  BY FS_Subset
<1>3. QED
  BY <1>1, <1>2, FS_Subset

\* As many numbers as elements: each is somebody's.
LEMMA RanksAre ==
    ASSUME NEW S, IsFiniteSet(S), NEW f \in [S -> 1..Cardinality(S)],
           \A i, k \in S : f[i] = f[k] => i = k
    PROVE  \A n \in 1..Cardinality(S) : \E k \in S : f[k] = n
<1> DEFINE T == 1..Cardinality(S)
<1>1. Cardinality(S) \in Nat
  BY FS_CardinalityType
<1>2. IsFiniteSet(T) /\ Cardinality(T) = Cardinality(S)
  BY <1>1, FS_Interval
<1>3. f \in [S -> T]
  OBVIOUS
<1> HIDE DEF T
<1>4. \A n \in T : \E k \in S : f[k] = n
  BY <1>2, <1>3, RanksHit
<1>5. QED
  BY <1>4 DEF T

LEMMA PlacesAre ==
    ASSUME NEW S, S \subseteq Nat, IsFiniteSet(S)
    PROVE  /\ \A k \in S : Place(S, k) \in 1..Cardinality(S)
           /\ \A i, k \in S : Place(S, i) = Place(S, k) => i = k
           /\ \A n \in 1..Cardinality(S) : \E k \in S : Place(S, k) = n
<1> DEFINE upTo == [k \in S |-> {i \in S : i <= k}]
           c == Cardinality(S)
           place == [k \in S |-> Place(S, k)]
<1>1. c \in Nat
  BY FS_CardinalityType
<1>2. \A k \in S : place[k] = Cardinality(upTo[k])
  BY DEF Place
<1>3. ASSUME NEW k \in S PROVE place[k] \in 1..c
  <2>1. IsFiniteSet(upTo[k]) /\ Cardinality(upTo[k]) <= c
    BY FS_Subset
  <2>2. Cardinality(upTo[k]) \in Nat /\ upTo[k] # {}
    BY <2>1, FS_CardinalityType
  <2>3. Cardinality(upTo[k]) # 0
    BY <2>1, <2>2, FS_EmptySet
  <2>4. QED
    BY <1>1, <1>2, <2>1, <2>2, <2>3
<1>4. upTo \in [S -> SUBSET S]
  OBVIOUS
<1>5. ASSUME NEW a \in S, NEW b \in S, a < b PROVE upTo[a] \subseteq upTo[b] /\ upTo[a] # upTo[b]
  <2>1. a \in Nat /\ b \in Nat /\ \A x \in S : x \in Nat
    OBVIOUS
  <2>2. b \in upTo[b] /\ b \notin upTo[a]
    BY <1>5, <2>1
  <2>3. ASSUME NEW x \in S, x <= a PROVE x <= b
    <3>1. x \in Nat
      BY <2>1
    <3>2. QED
      BY <1>5, <2>1, <2>3, <3>1
  <2>4. upTo[a] \subseteq upTo[b]
    BY <2>3
  <2>5. QED
    BY <2>2, <2>4
<1>6. \A a, b \in S : a # b => a < b \/ b < a
  OBVIOUS
<1>7. \A k \in S : place[k] = Place(S, k)
  OBVIOUS
<1>8. DOMAIN place = S
  OBVIOUS
<1> HIDE DEF upTo
<1>9. \A i, k \in S : Cardinality(upTo[i]) = Cardinality(upTo[k]) => i = k
  BY <1>4, <1>5, <1>6, RanksDiffer
<1>10. \A i, k \in S : place[i] = place[k] => i = k
  BY <1>2, <1>9
<1> HIDE DEF place
<1>11. \A n \in 1..c : \E k \in S : place[k] = n
  <2>1. place = [k \in S |-> place[k]]
    BY DEF place
  <2>2. place \in [S -> 1..c]
    BY <1>3, <2>1
  <2>3. PICK f : f = place
    OBVIOUS
  <2>4. f \in [S -> 1..Cardinality(S)]
    BY <2>2, <2>3
  <2>5. \A i, k \in S : f[i] = f[k] => i = k
    BY <1>10, <2>3
  <2>6. \A n \in 1..Cardinality(S) : \E k \in S : f[k] = n
    BY <2>4, <2>5, RanksAre
  <2>7. QED
    BY <2>3, <2>6
<1>12. QED
  BY <1>3, <1>7, <1>10, <1>11

-----------------------------------------------------------------------------
(***************************************************************************)
(* The rows that are added to the parent's.                                *)
(***************************************************************************)
Entries == (Procs \cup {0}) \X (0..TrainSteps)

LEMMA RowsAreFinite ==
    ASSUME SeedType, NEW q
    PROVE  /\ RowsOf(q) \subseteq 1..Len(merged) /\ Len(merged) \in Nat
           /\ RowsOf(q) \subseteq Nat /\ IsFiniteSet(RowsOf(q))
           /\ merged \in Seq(Entries) /\ DOMAIN merged = 1..Len(merged)
<1>1. merged \in Seq(Entries)
  BY DEF SeedType, Entries
<1>2. Len(merged) \in Nat /\ DOMAIN merged = 1..Len(merged)
  BY <1>1
<1>3. RowsOf(q) \subseteq 1..Len(merged)
  BY <1>2 DEF RowsOf
<1>4. IsFiniteSet(1..Len(merged))
  BY <1>2, FS_Interval
<1>5. QED
  BY <1>1, <1>2, <1>3, <1>4, FS_Subset

\* Where the rows of a longer file are.
LEMMA RowsExtend ==
    ASSUME SeedType, NEW n \in Nat, NEW r \in Seq(Entries), Len(r) = n, merged' = merged \o r
    PROVE  /\ merged' \in Seq(Entries) /\ Len(merged') = Len(merged) + n
           /\ DOMAIN merged' = 1..(Len(merged) + n)
           /\ \A i \in 1..Len(merged) : merged'[i] = merged[i]
           /\ \A i \in 1..n : merged'[Len(merged) + i] = r[i]
<1>1. merged \in Seq(Entries) /\ Len(merged) \in Nat
  BY RowsAreFinite
<1>2. merged \o r \in Seq(Entries)
  BY <1>1, ConcatProperties
<1>6. Len(merged \o r) = Len(merged) + n
  BY <1>1, ConcatProperties
<1>7. DOMAIN (merged \o r) = 1..(Len(merged) + n)
  BY <1>2, <1>6
<1>3. \A i \in 1..Len(merged) : (merged \o r)[i] = merged[i]
  BY <1>1
<1>4. \A i \in 1..n : (merged \o r)[Len(merged) + i] = r[i]
  BY <1>1
<1>5. QED
  BY <1>2, <1>3, <1>4, <1>6, <1>7

LEMMA OthersKeepTheirRows ==
    ASSUME SeedType, NEW n \in Nat, NEW r \in Seq(Entries), Len(r) = n, merged' = merged \o r,
           NEW q, \A i \in 1..n : r[i][1] # q
    PROVE  RowsOf(q)' = RowsOf(q)
<1> DEFINE m == Len(merged)
<1>1. /\ m \in Nat /\ DOMAIN merged = 1..m /\ DOMAIN merged' = 1..(m + n)
      /\ \A i \in 1..m : merged'[i] = merged[i]
      /\ \A i \in 1..n : merged'[m + i] = r[i]
  BY RowsAreFinite, RowsExtend
<1> HIDE DEF m
<1>2. ASSUME NEW i \in 1..(m + n), i \notin 1..m PROVE merged'[i][1] # q
  <2>1. i - m \in 1..n /\ i = m + (i - m)
    BY <1>1, <1>2
  <2>2. merged'[i] = r[i - m]
    BY <1>1, <2>1
  <2>3. QED
    BY <2>1, <2>2
<1>3. \A i \in 1..m : i \in 1..(m + n)
  BY <1>1
<1>4. QED
  BY <1>1, <1>2, <1>3 DEF RowsOf

\* Of the places Q, the n that follow a file of m rows are behind the older ones, S.
GoOn(Q, S, m, n) ==
    /\ Cardinality(Q) = Cardinality(S) + n
    /\ \A i \in Q : i \in S \/ \E k \in 1..n : i = m + k
    /\ \A i \in S : Place(Q, i) = Place(S, i)
    /\ \A k \in 1..n : m + k \in Q /\ Place(Q, m + k) = Cardinality(S) + k

\* The rows of p take the places behind those it had.
LEMMA ItsRowsFollow ==
    ASSUME SeedType, NEW n \in Nat, NEW r \in Seq(Entries), Len(r) = n, merged' = merged \o r,
           NEW p, \A i \in 1..n : r[i][1] = p
    PROVE  GoOn(RowsOf(p)', RowsOf(p), Len(merged), n)
<1> DEFINE m == Len(merged)
           Q == RowsOf(p)
           c == Cardinality(Q)
<1>1. /\ m \in Nat /\ DOMAIN merged = 1..m /\ DOMAIN merged' = 1..(m + n)
      /\ \A i \in 1..m : merged'[i] = merged[i]
      /\ \A i \in 1..n : merged'[m + i] = r[i]
      /\ Q \subseteq 1..m /\ IsFiniteSet(Q) /\ c \in Nat
  BY RowsAreFinite, RowsExtend, FS_CardinalityType
<1>2. RowsOf(p)' = Q \cup (m + 1)..(m + n)
  <2>1. ASSUME NEW i \in (m + 1)..(m + n) PROVE i \in 1..(m + n) /\ merged'[i][1] = p
    <3>1. i - m \in 1..n /\ i = m + (i - m) /\ i \in 1..(m + n)
      BY <1>1
    <3>2. merged'[i] = r[i - m]
      BY <1>1, <3>1
    <3>3. QED
      BY <3>1, <3>2
  <2>2. \A i \in 1..(m + n) : i \in 1..m \/ i \in (m + 1)..(m + n)
    BY <1>1
  <2>3. \A i \in 1..m : i \in 1..(m + n)
    BY <1>1
  <2>4. \A i : i \in RowsOf(p)' <=> i \in 1..(m + n) /\ merged'[i][1] = p
    BY <1>1 DEF RowsOf
  <2>5. \A i : i \in Q <=> i \in 1..m /\ merged[i][1] = p
    BY <1>1 DEF RowsOf
  <2> HIDE DEF Q, m
  <2>6. \A i : i \in RowsOf(p)' <=> i \in Q \/ i \in (m + 1)..(m + n)
    BY <1>1, <2>1, <2>2, <2>3, <2>4, <2>5
  <2>7. QED
    BY <2>6
<1> HIDE DEF Q, m, c
<1>3. ASSUME NEW k \in 0..n
      PROVE  /\ {i \in Q \cup (m + 1)..(m + n) : i <= m + k} = Q \cup (m + 1)..(m + k)
             /\ Cardinality(Q \cup (m + 1)..(m + k)) = c + k
  <2>1. \A i \in Q : i \in Int /\ 1 <= i /\ i <= m
    BY <1>1
  <2>2. \A i : i \in (m + 1)..(m + n) /\ i <= m + k <=> i \in (m + 1)..(m + k)
    BY <1>1
  <2>3. {i \in Q \cup (m + 1)..(m + n) : i <= m + k} = Q \cup (m + 1)..(m + k)
    <3>1. \A i \in Q : i <= m + k
      BY <1>1, <2>1
    <3>2. QED
      BY <2>2, <3>1
  <2>4. IsFiniteSet((m + 1)..(m + k)) /\ Cardinality((m + 1)..(m + k)) = k
    <3>1. m + 1 \in Int /\ m + k \in Int /\ k \in Nat
      BY <1>1
    <3>2. /\ IsFiniteSet((m + 1)..(m + k))
          /\ Cardinality((m + 1)..(m + k)) = IF m + 1 > m + k THEN 0 ELSE (m + k) - (m + 1) + 1
      BY <3>1, FS_Interval
    <3>3. QED
      BY <1>1, <3>1, <3>2
  <2>5. Q \cap (m + 1)..(m + k) = {}
    BY <1>1, <2>1
  <2>6. Cardinality(Q \cup (m + 1)..(m + k)) = c + k - Cardinality({})
    BY <1>1, <2>4, <2>5, FS_Union DEF c
  <2>7. QED
    BY <1>1, <2>3, <2>6, FS_EmptySet
<1>4. Cardinality(RowsOf(p)') = c + n
  <2>1. n \in 0..n
    OBVIOUS
  <2>2. QED
    BY <1>2, <1>3, <2>1
<1>5. ASSUME NEW i \in Q PROVE Place(RowsOf(p), i)' = Place(Q, i)
  <2>1. i \in Int /\ i <= m
    BY <1>1
  <2>2. {k \in Q \cup (m + 1)..(m + n) : k <= i} = {k \in Q : k <= i}
    BY <1>1, <2>1
  <2>3. QED
    BY <1>2, <2>2 DEF Place
<1>6. ASSUME NEW k \in 1..n PROVE Place(RowsOf(p)', m + k) = c + k
  <2>1. k \in 0..n
    OBVIOUS
  <2>2. Cardinality({i \in Q \cup (m + 1)..(m + n) : i <= m + k}) = c + k
    BY <1>3, <2>1
  <2>3. QED
    BY <1>2, <2>2 DEF Place
<1>7. ASSUME NEW i \in (m + 1)..(m + n) PROVE \E k \in 1..n : i = m + k
  <2>1. i - m \in 1..n /\ i = m + (i - m)
    BY <1>1
  <2>2. QED
    BY <2>1
<1>8. QED
  <2>1. \A i \in Q : Place(RowsOf(p)', i) = Place(Q, i)
    BY <1>5
  <2>2. \A k \in 1..n : m + k \in RowsOf(p)'
    BY <1>1, <1>2
  <2>3. \A i \in RowsOf(p)' : i \in Q \/ \E k \in 1..n : i = m + k
    BY <1>2, <1>7
  <2>4. QED
    BY <1>4, <1>6, <2>1, <2>2, <2>3, Zenon DEF Q, m, c, GoOn

-----------------------------------------------------------------------------
(***************************************************************************)
(* The steps of the parent that read and write no rows.                    *)
(***************************************************************************)
\* The parent has all rows, and is about to say so.
Through == parentPc \in {"judge", "after"} \/ state \in {"done", "stopped"}

LEMMA FilesStay ==
    ASSUME SeedInv, UNCHANGED workerVars, stopFile \subseteq stopFile', NEW p \in Procs
    PROVE  WorkerOK(p)'
<1>1. WorkerOK(p) /\ UNCHANGED <<worker, trained, log, model, result>>
  BY DEF SeedInv, workerVars
<1>2. QED
  BY <1>1 DEF WorkerOK

LEMMA ControlKeeps ==
    ASSUME SeedInv, UNCHANGED <<workerVars, merged, off>>, stopFile \subseteq stopFile',
           stopFile' \subseteq Procs, todo' \subseteq waiting', stopped' \in BOOLEAN,
           ParentOK', SavedOK', Through' => Through,
           parentPc' = "last" => \/ Procs \subseteq todo'
                                 \/ parentPc = "last" /\ todo' = todo
    PROVE  SeedInv'
<1>1. /\ UNCHANGED <<worker, trained, log, model, result, merged, off>>
      /\ SeedType /\ DrainedOK /\ MediansOK
  BY DEF workerVars, SeedInv
<1>2. SeedType'
  BY <1>1 DEF SeedType
<1>3. DrainedOK'
  BY <1>1 DEF DrainedOK, Through
<1>4. MediansOK'
  <2>1. RowsOf(0)' = RowsOf(0) /\ SeenByAll' = SeenByAll /\ Logged' = Logged
    BY <1>1 DEF RowsOf, SeenByAll, Seen, Logged
  <2>2. /\ \A i, j \in RowsOf(0) : merged[i][2] = merged[j][2] => i = j
        /\ \A i \in RowsOf(0), p \in Procs : \E j \in 1..(i - 1) : merged[j] = <<p, merged[i][2]>>
        /\ Through => SeenByAll \subseteq Logged
    BY <1>1, Zenon DEF MediansOK, Through
  <2>3. merged' = merged
    BY <1>1
  <2>4. \A i, j \in RowsOf(0)' : merged'[i][2] = merged'[j][2] => i = j
    <3>1. \A i, j \in RowsOf(0) : merged'[i][2] = merged'[j][2] => i = j
      BY <2>2, <2>3, Zenon
    <3>2. QED
      BY <2>1, <3>1, Zenon
  <2>5. \A i \in RowsOf(0)', p \in Procs : \E j \in 1..(i - 1) : merged'[j] = <<p, merged'[i][2]>>
    <3>1. \A i \in RowsOf(0), p \in Procs : \E j \in 1..(i - 1) : merged'[j] = <<p, merged'[i][2]>>
      BY <2>2, <2>3, Zenon
    <3>2. QED
      BY <2>1, <3>1, Zenon
  <2>6. Through' => SeenByAll' \subseteq Logged'
    BY <2>1, <2>2
  <2>7. QED
    BY <2>4, <2>5, <2>6, Zenon DEF MediansOK, Through
<1>5. ASSUME NEW p \in Procs PROVE RowsOK(p)'
  <2>1. RowsOK(p) /\ RowsOf(p)' = RowsOf(p)
    BY <1>1 DEF SeedInv, RowsOf
  <2>2. QED
    BY <1>1, <2>1 DEF RowsOK
<1>6. QED
  BY <1>2, <1>3, <1>4, <1>5, FilesStay DEF SeedInv

\* What is alive is waited for.
LEMMA AliveIsWaitedFor ==
    ASSUME SeedInv
    PROVE  /\ \A p \in Procs : Alive(p) => p \in waiting
           /\ waiting \subseteq Procs /\ waiting \ Quiet = waiting
BY ProcsAre DEF SeedInv, ParentOK, Alive, Running

LEMMA WaitKeeps ==
    ASSUME SeedInv, Wait, UNCHANGED <<workerVars, asked, suiteVars>>
    PROVE  SeedInv'
<1>1. /\ parentPc = "wait" /\ todo' = waiting
      /\ parentPc' = IF \E p \in waiting : Alive(p) THEN "drain" ELSE "last"
      /\ UNCHANGED <<worker, result, stopFile, told, waiting, stopped, state, merged, off, saved, label>>
  BY AliveIsWaitedFor DEF Wait, workerVars, suiteVars
<1>2. ParentOK /\ SavedOK /\ SeedType /\ Unspawned = {} /\ waiting = Procs /\ Unspawned' = {}
  BY <1>1 DEF SeedInv, ParentOK, Unspawned
<1>3. \A p \in Procs : Alive(p)' <=> Alive(p)
  BY <1>1 DEF Alive
<1>4. ParentOK'
  BY <1>1, <1>2, <1>3 DEF ParentOK, Quietened
<1>5. SavedOK'
  BY <1>1, <1>2 DEF SavedOK
<1>6. ~Through'
  BY <1>1, <1>2 DEF Through, ParentOK
<1>7. QED
  BY <1>1, <1>2, <1>4, <1>5, <1>6, ControlKeeps DEF Wait, SeedType

\* The parent polls, holds, touches STOP files or fails.
LEMMA LoopKeeps ==
    ASSUME SeedInv, parentPc \in {"drain", "poll", "held", "touch"},
           UNCHANGED <<workerVars, asked, suiteVars, waiting, merged, off>>,
           stopFile \subseteq stopFile', stopFile' \subseteq Procs, todo' \subseteq waiting,
           stopped' \in BOOLEAN, stopped => stopped',
           stopFile' # {} \/ parentPc' = "touch" => stopped',
           parentPc' \in {"wait", "held", "touch"} \/ (parentPc' = "ended" /\ state' = "failed"),
           state' \in {"running", "paused", "failed"} \cup {state},
           parentPc' = "ended" => \A p \in Procs : Alive(p) => p \in told'
    PROVE  SeedInv'
<1>1. UNCHANGED <<worker, result, waiting, merged, off, saved, label>>
  BY DEF workerVars, suiteVars
<1>2. ParentOK /\ SavedOK /\ SeedType /\ Unspawned = {} /\ Unspawned' = {}
      /\ state \notin {"done", "stopped"}
  BY <1>1 DEF SeedInv, ParentOK, Unspawned
<1>3. \A p \in Procs : Alive(p)' <=> Alive(p)
  BY <1>1 DEF Alive
<1>4. label = "none"
  BY <1>2 DEF SavedOK
<1>5. ParentOK'
  BY <1>1, <1>2, <1>3 DEF ParentOK, Quietened
<1>6. SavedOK'
  BY <1>1, <1>2, <1>4 DEF SavedOK
<1>7. ~Through'
  BY <1>2 DEF Through, ParentOK
<1>8. QED
  BY <1>1, <1>5, <1>6, <1>7, ControlKeeps DEF Wait, SeedType

LEMMA PollKeeps ==
    ASSUME SeedInv, Poll \/ Resume \/ TouchStop \/ WaitRaises,
           UNCHANGED <<workerVars, asked, suiteVars>>
    PROVE  SeedInv'
<1>1. /\ SeedType /\ ParentOK /\ waiting \subseteq Procs /\ waiting \ Quiet = waiting
      /\ stopFile \subseteq Procs /\ todo \subseteq waiting /\ stopped \in BOOLEAN
      /\ stopFile # {} => stopped
  BY AliveIsWaitedFor DEF SeedInv, SeedType, ParentOK
<1>2. CASE Poll
  <2>1. UNCHANGED <<stopFile, told, waiting, merged, off>> /\ parentPc = "poll"
    BY <1>2 DEF Poll
  <2>2. \/ /\ stopped' = TRUE /\ parentPc' = "touch" /\ todo' = waiting /\ state' = state
        \/ /\ state' = "paused" /\ parentPc' = "held" /\ UNCHANGED <<stopped, todo>>
        \/ parentPc' = "wait" /\ UNCHANGED <<stopped, todo, state>>
    BY <1>1, <1>2 DEF Poll, ObeyStop
  <2>3. QED
    BY <1>1, <2>1, <2>2, LoopKeeps
<1>3. CASE Resume
  <2>1. UNCHANGED <<stopFile, told, waiting, merged, off>> /\ parentPc = "held" /\ state' = "running"
    BY <1>3 DEF Resume
  <2>2. \/ stopped' = TRUE /\ parentPc' = "touch" /\ todo' = waiting
        \/ parentPc' = "wait" /\ UNCHANGED <<stopped, todo>>
    BY <1>1, <1>3 DEF Resume, ObeyStop
  <2>3. QED
    BY <1>1, <2>1, <2>2, LoopKeeps
<1>4. CASE TouchStop
  <2>1. UNCHANGED <<told, waiting, stopped, state, merged, off>> /\ parentPc = "touch" /\ stopped
    BY <1>1, <1>4 DEF TouchStop, ParentOK
  <2>2. \/ parentPc' = "wait" /\ UNCHANGED <<todo, stopFile>>
        \/ /\ parentPc' = "touch" /\ todo # {} /\ stopFile' = stopFile \cup {First(todo)}
           /\ todo' = todo \ {First(todo)}
    BY <1>4, <2>1 DEF TouchStop
  <2>3. todo # {} => First(todo) \in todo
    <3>1. todo \subseteq Procs
      BY <1>1
    <3>2. QED
      BY <3>1, FirstIsIn
  <2>4. stopFile \subseteq stopFile' /\ stopFile' \subseteq Procs /\ todo' \subseteq waiting
    BY <1>1, <2>2, <2>3
  <2>5. QED
    BY <1>1, <2>1, <2>2, <2>4, LoopKeeps
<1>5. CASE WaitRaises
  <2>1. /\ UNCHANGED <<stopFile, waiting, todo, stopped, merged, off>>
        /\ parentPc \in {"drain", "poll", "held", "touch"} /\ parentPc' = "ended" /\ state' = "failed"
        /\ told' = told \cup {p \in waiting : Alive(p)}
    BY <1>5 DEF WaitRaises
  <2>2. \A p \in Procs : Alive(p) => p \in told'
    BY <2>1, AliveIsWaitedFor
  <2>3. QED
    BY <1>1, <2>1, <2>2, LoopKeeps
<1>6. QED
  BY <1>2, <1>3, <1>4, <1>5

\* A call outside the wait raises, a command comes, or the parent is killed.
LEMMA OtherKeeps ==
    ASSUME SeedInv, Raise \/ ((Command \/ ParentKilled) /\ UNCHANGED suiteVars)
    PROVE  SeedInv'
<1>1. /\ UNCHANGED <<worker, result, stopFile, told, waiting, todo, stopped, merged, off, saved, label>>
      /\ UNCHANGED workerVars
      /\ \/ parentPc' = "raised" /\ state' = "failed" /\ parentPc \in {"spawn", "last", "judge"}
         \/ parentPc' = parentPc /\ state' = state
         \/ parentPc' = "killed" /\ state' = state /\ parentPc \notin {"ended", "raised", "killed"}
  BY DEF Raise, Command, ParentKilled, workerVars, parentVars, suiteVars
<1>2. ParentOK /\ SavedOK /\ SeedType /\ Unspawned' = Unspawned
  BY <1>1 DEF SeedInv, Unspawned
<1>3. \A p \in Procs : Alive(p)' <=> Alive(p)
  BY <1>1 DEF Alive
<1>4. ParentOK'
  BY <1>1, <1>2, <1>3 DEF ParentOK, Quietened
<1>5. SavedOK'
  BY <1>1, <1>2 DEF SavedOK, ParentOK
<1>6. Through' => Through
  BY <1>1, <1>2 DEF Through, ParentOK
<1>7. QED
  BY <1>1, <1>2, <1>4, <1>5, <1>6, ControlKeeps DEF SeedType

\* The checkpoint holds what the results speak of.
LEMMA JudgeKeeps ==
    ASSUME SeedInv, Judge
    PROVE  SeedInv'
<1>1. /\ UNCHANGED <<worker, model, result, stopFile, told, waiting, todo, stopped, merged, off>>
      /\ UNCHANGED workerVars /\ parentPc = "judge"
      /\ \/ parentPc' = "ended" /\ state' = "failed" /\ UNCHANGED <<saved, label>>
         \/ /\ ~Failed /\ saved' = [p \in Procs |-> model[p]] /\ state' = state
            /\ label' = IF stopped THEN "stopped" ELSE "final"
            /\ parentPc' = "after"
  BY DEF Judge, JudgeFailed, JudgeTrained, End, workerVars, suiteVars
<1>2. ParentOK /\ SavedOK /\ SeedType /\ Unspawned' = Unspawned
      /\ waiting = Procs /\ \A p \in Procs : ~Alive(p)
  BY <1>1 DEF SeedInv, Unspawned, ParentOK, Quietened
<1>3. \A p \in Procs : Alive(p)' <=> Alive(p)
  BY <1>1 DEF Alive
<1>4. ParentOK'
  BY <1>1, <1>2, <1>3 DEF ParentOK, Quietened
<1>5. label = "none"
  BY <1>1, <1>2 DEF SavedOK
<1>6. SavedOK'
  <2>1. CASE parentPc' = "ended" /\ state' = "failed" /\ UNCHANGED <<saved, label>>
    BY <1>5, <2>1 DEF SavedOK
  <2>2. CASE /\ ~Failed /\ saved' = [p \in Procs |-> model[p]] /\ state' = state
             /\ label' = IF stopped THEN "stopped" ELSE "final"
             /\ parentPc' = "after"
    <3>1. \A p \in Procs : worker[p] = "ok"
      BY <1>2, <2>2 DEF Failed, SeedType, ParentOK, Alive, Running
    <3>2. \A p \in Procs : p \in DOMAIN result /\ result[p] = model[p]
      BY <3>1 DEF SeedInv, WorkerOK
    <3>3. DOMAIN result = Procs
      BY <1>2, <3>2 DEF SeedType
    <3>4. result = [p \in Procs |-> result[p]]
      BY <1>2, <3>3, Zenon DEF SeedType
    <3>5. saved' = result
      BY <2>2, <3>2, <3>4
    <3>6. state \notin {"done", "stopped"}
      BY <1>1, <1>2 DEF ParentOK
    <3>7. QED
      BY <1>1, <2>2, <3>1, <3>3, <3>5, <3>6 DEF SavedOK
  <2>3. QED
    BY <1>1, <2>1, <2>2
<1>7. Through
  BY <1>1 DEF Through
<1>8. QED
  BY <1>1, <1>2, <1>4, <1>6, <1>7, ControlKeeps DEF SeedType

LEMMA AfterKeeps ==
    ASSUME SeedInv, After
    PROVE  SeedInv'
<1>1. /\ UNCHANGED <<worker, result, stopFile, told, waiting, todo, stopped, merged, off, saved, label>>
      /\ UNCHANGED workerVars /\ parentPc = "after" /\ parentPc' = "ended"
      /\ state' = IF stopped THEN "stopped" ELSE "done"
  BY DEF After, End, workerVars, suiteVars
<1>2. ParentOK /\ SavedOK /\ SeedType /\ Unspawned' = Unspawned
      /\ waiting = Procs /\ \A p \in Procs : ~Alive(p)
  BY <1>1 DEF SeedInv, Unspawned, ParentOK, Quietened
<1>3. \A p \in Procs : Alive(p)' <=> Alive(p)
  BY <1>1 DEF Alive
<1>4. ParentOK'
  BY <1>1, <1>2, <1>3 DEF ParentOK, Quietened
<1>5. SavedOK'
  BY <1>1, <1>2 DEF SavedOK
<1>6. Through
  BY <1>1 DEF Through
<1>7. QED
  BY <1>1, <1>2, <1>4, <1>5, <1>6, ControlKeeps DEF SeedType

-----------------------------------------------------------------------------
(***************************************************************************)
(* A worker is spawned; the parent drains a file; it adds the medians.     *)
(***************************************************************************)
LEMMA SpawnKeeps ==
    ASSUME SeedInv, Spawn
    PROVE  SeedInv'
<1> DEFINE p == First(Unspawned)
<1>1. /\ UNCHANGED <<trained, log, model, result, stopFile, told, todo, stopped, state, merged,
                     off, saved, label>>
      /\ parentPc = "spawn" /\ worker' = [worker EXCEPT ![p] = "row"]
      /\ waiting' = waiting \cup {p}
      /\ parentPc' = IF Cardinality(Unspawned) = 1 THEN "wait" ELSE "spawn"
  BY DEF Spawn, suiteVars
<1>2. SeedType /\ ParentOK /\ DrainedOK /\ MediansOK /\ SavedOK
  BY DEF SeedInv
<1>3. p \in Procs /\ worker[p] = "none" /\ p \in Unspawned
  <2>1. Unspawned # {} /\ Unspawned \subseteq Procs
    BY <1>1, <1>2 DEF ParentOK, Unspawned
  <2>2. p \in Unspawned
    BY <2>1, FirstIsIn
  <2>3. QED
    BY <2>2 DEF Unspawned
<1> HIDE DEF p
<1>4. worker'[p] = "row" /\ \A q \in Procs : q # p => worker'[q] = worker[q]
  BY <1>1, <1>2, <1>3 DEF SeedType
<1>5. SeedType'
  <2>1. worker' \in [Procs -> {"none", "run", "row", "best", "lastrow", "check", "save", "result",
                               "ok", "bad"}]
    BY <1>1, <1>2, <1>3 DEF SeedType
  <2>2. todo' \subseteq waiting'
    BY <1>1, <1>2 DEF SeedType
  <2>3. QED
    BY <1>1, <1>2, <2>1, <2>2 DEF SeedType
<1>6. Unspawned' = Unspawned \ {p}
  BY <1>4 DEF Unspawned
<1>7. Cardinality(Unspawned) = 1 => Unspawned' = {}
  <2>1. IsFiniteSet(Unspawned)
    BY ProcsAre, FS_Subset DEF Unspawned
  <2>2. IsFiniteSet(Unspawned \ {p}) /\ Cardinality(Unspawned \ {p}) = Cardinality(Unspawned) - 1
    BY <1>3, <2>1, FS_RemoveElement
  <2>3. QED
    BY <1>6, <2>2, FS_EmptySet
<1>8. Cardinality(Unspawned) # 1 => Unspawned' # {}
  <2>1. Unspawned' = {} => Unspawned = {p}
    BY <1>3, <1>6
  <2>2. Cardinality({p}) = 1
    BY FS_Singleton
  <2>3. QED
    BY <2>1, <2>2
<1>9. ParentOK'
  <2>1. waiting' = {q \in Procs : worker'[q] # "none"}
    BY <1>1, <1>2, <1>3, <1>4 DEF ParentOK
  <2>2. state \notin {"done", "stopped"}
    BY <1>1, <1>2 DEF ParentOK
  <2>3. QED
    BY <1>1, <1>2, <1>7, <1>8, <2>1, <2>2 DEF ParentOK, Quietened
<1>10. DrainedOK' /\ MediansOK'
  <2>1. RowsOf(0)' = RowsOf(0) /\ state \notin {"done", "stopped"}
    BY <1>1, <1>2 DEF RowsOf, ParentOK
  <2>2. QED
    BY <1>1, <1>2, <2>1 DEF DrainedOK, MediansOK
<1>11. SavedOK'
  BY <1>1, <1>2 DEF SavedOK
<1>12. ASSUME NEW q \in Procs PROVE RowsOK(q)' /\ WorkerOK(q)'
  <2>1. RowsOK(q) /\ WorkerOK(q) /\ RowsOf(q)' = RowsOf(q)
    BY <1>1 DEF SeedInv, RowsOf
  <2>2. RowsOK(q)'
    BY <1>1, <2>1 DEF RowsOK
  <2>3. CASE q # p
    BY <1>1, <1>4, <2>1, <2>2, <2>3 DEF WorkerOK
  <2>4. CASE q = p
    <3>1. trained[q] = 0 /\ log[q] = <<>> /\ q \notin DOMAIN result
      BY <1>3, <2>1, <2>4 DEF WorkerOK
    <3>2. Evaluates(0) /\ Evals(0 - 1) = {}
      BY EvalsGrow, ProcsAre
    <3>3. StepsOf(<<>>) = {}
      BY DEF StepsOf
    <3>4. QED
      BY <1>1, <1>4, <2>2, <2>4, <3>1, <3>2, <3>3 DEF WorkerOK
  <2>5. QED
    BY <2>2, <2>3, <2>4
<1>13. QED
  BY <1>5, <1>9, <1>10, <1>11, <1>12 DEF SeedInv

\* What follows the first k elements.
LEMMA RestIs ==
    ASSUME NEW S, NEW s \in Seq(S), NEW k \in Nat, k <= Len(s)
    PROVE  LET f == SubSeq(s, k + 1, Len(s)) IN
           /\ f \in Seq(S) /\ Len(f) = Len(s) - k
           /\ \A i \in 1..(Len(s) - k) : f[i] = s[k + i]
<1> DEFINE m == k + 1
           l == Len(s)
           f == SubSeq(s, m, l)
<1>1. m \in Int /\ l \in Nat /\ l \in Int /\ \A i \in m..l : s[i] \in S
  <2>1. l \in Nat
    BY LenProperties
  <2>2. \A i \in m..l : i \in 1..Len(s)
    BY <2>1
  <2>3. QED
    BY <2>1, <2>2, ElementOfSeq
<1>2. l - m + 1 = l - k /\ \A i \in 1..(l - k) : m + i - 1 = k + i
  BY <1>1
<1>3. m > l => l - k = 0
  BY <1>1
<1> HIDE DEF m, l
<1>4. /\ f \in Seq(S) /\ Len(f) = IF m <= l THEN l - m + 1 ELSE 0
      /\ \A i \in 1..(l - m + 1) : f[i] = s[m + i - 1]
  BY <1>1, SubSeqProperties
<1> HIDE DEF f
<1>5. Len(f) = l - k
  BY <1>1, <1>2, <1>3, <1>4
<1>6. \A i \in 1..(l - k) : f[i] = s[k + i]
  BY <1>1, <1>2, <1>4
<1>7. QED
  BY <1>4, <1>5, <1>6 DEF f, m, l

\* The rows of p not yet read, as the parent writes them.
LEMMA FreshIs ==
    ASSUME SeedInv, NEW p \in Procs
    PROVE  LET n == Len(log[p]) - off[p]
               r == [i \in DOMAIN Fresh(p) |-> <<p, Fresh(p)[i]>>]
           IN  /\ n \in Nat /\ Len(Fresh(p)) = n
               /\ r \in Seq(Entries) /\ Len(r) = n
               /\ \A i \in 1..n : r[i] = <<p, log[p][off[p] + i]>>
<1> DEFINE T == 0..TrainSteps
           n == Len(log[p]) - off[p]
           f == Fresh(p)
           r == [i \in DOMAIN f |-> <<p, f[i]>>]
<1>1. log[p] \in Seq(T) /\ off[p] \in Nat /\ off[p] <= Len(log[p]) /\ Len(log[p]) \in Nat
  BY DEF SeedInv, SeedType, RowsOK
<1> HIDE DEF T
<1>2. n \in Nat /\ off[p] + 1 \in Nat
  BY <1>1
<1>3. /\ Len(f) = n /\ f \in Seq(T)
      /\ \A i \in 1..n : f[i] = log[p][off[p] + i]
  BY <1>1, RestIs DEF Fresh
<1> HIDE DEF n, f
<1>4. DOMAIN f = 1..n
  BY <1>2, <1>3
<1>5. r \in [1..n -> Entries]
  <2>1. \A i \in 1..n : f[i] \in T
    BY <1>3, <1>4, ElementOfSeq
  <2>2. QED
    BY <1>4, <2>1 DEF Entries, T
<1>6. r \in Seq(Entries) /\ Len(r) = n
  BY <1>2, <1>5
<1>7. QED
  BY <1>2, <1>3, <1>4, <1>6 DEF n, f

LEMMA DrainKeeps ==
    ASSUME SeedInv, Drain, UNCHANGED <<workerVars, asked, suiteVars>>
    PROVE  SeedInv'
<1>0. PICK p : p = First(todo)
  OBVIOUS
<1> DEFINE n == Len(log[p]) - off[p]
           r == [i \in DOMAIN Fresh(p) |-> <<p, Fresh(p)[i]>>]
           m == Len(merged)
<1>1. /\ UNCHANGED <<worker, trained, log, model, result, parentPc, stopFile, told, waiting,
                     stopped, state, saved, label>>
      /\ parentPc \in {"drain", "last"} /\ todo # {}
      /\ merged' = merged \o r /\ off' = [off EXCEPT ![p] = @ + Len(Fresh(p))]
      /\ todo' = todo \ {p}
  BY <1>0 DEF Drain, workerVars, suiteVars
<1>2. SeedType /\ ParentOK /\ DrainedOK /\ MediansOK /\ SavedOK
  BY DEF SeedInv
<1>3. p \in Procs /\ p \in todo /\ p # 0 /\ 0 \notin Procs
  <2>1. todo \subseteq Procs
    BY <1>1, <1>2 DEF SeedType, ParentOK
  <2>2. QED
    BY <1>0, <1>1, <2>1, FirstIsIn, ProcsAre
<1>4. /\ n \in Nat /\ Len(Fresh(p)) = n /\ r \in Seq(Entries) /\ Len(r) = n
      /\ \A i \in 1..n : r[i] = <<p, log[p][off[p] + i]>>
  BY <1>3, FreshIs
<1>5. /\ off \in [Procs -> Nat] /\ off[p] \in Nat /\ Len(log[p]) \in Nat
      /\ off' \in [Procs -> Nat] /\ off'[p] = Len(log[p]) /\ off[p] + n = Len(log[p])
      /\ \A q \in Procs : q # p => off'[q] = off[q]
  <2>1. off \in [Procs -> Nat] /\ log[p] \in Seq(0..TrainSteps)
    BY <1>2, <1>3 DEF SeedType
  <2>2. Len(log[p]) \in Nat /\ off[p] \in Nat
    BY <1>3, <2>1
  <2>3. off[p] + n = Len(log[p])
    BY <2>2
  <2> HIDE DEF n
  <2>4. off' = [off EXCEPT ![p] = off[p] + n]
    BY <1>1, <1>3, <1>4, <2>1
  <2>5. QED
    BY <1>3, <1>4, <2>1, <2>2, <2>3, <2>4
<1> HIDE DEF n, r
<1>6. \A i \in 1..n : r[i][1] = p
  BY <1>4
<1>7. /\ merged' \in Seq(Entries) /\ \A i \in 1..m : merged'[i] = merged[i]
      /\ \A i \in 1..n : merged'[m + i] = r[i]
  BY <1>1, <1>2, <1>4, RowsExtend
<1>8. SeedType'
  <2>1. merged' \in Seq((Procs \cup {0}) \X (0..TrainSteps))
    BY <1>7 DEF Entries
  <2>2. QED
    BY <1>1, <1>2, <1>5, <2>1 DEF SeedType
<1>9. ParentOK' /\ SavedOK'
  <2>1. Unspawned' = Unspawned /\ \A q \in Procs : Alive(q)' <=> Alive(q)
    BY <1>1 DEF Unspawned, Alive
  <2>2. QED
    BY <1>1, <1>2, <2>1 DEF ParentOK, SavedOK, Quietened
<1>10. state \notin {"done", "stopped"}
  BY <1>1, <1>2 DEF ParentOK
<1>11. DrainedOK'
  <2>1. ASSUME parentPc = "last", NEW q \in Procs, q \notin todo \/ q = p PROVE off'[q] = Len(log[q])
    BY <1>2, <1>5, <2>1 DEF DrainedOK
  <2>2. QED
    BY <1>1, <1>10, <2>1 DEF DrainedOK
<1>12. ASSUME NEW q, q # p
       PROVE  RowsOf(q)' = RowsOf(q) /\ \A i \in RowsOf(q) : merged'[i] = merged[i] /\ i \in 1..m
  <2>1. RowsOf(q)' = RowsOf(q)
    <3>1. SeedType /\ n \in Nat /\ r \in Seq(Entries) /\ Len(r) = n /\ merged' = merged \o r
      BY <1>1, <1>2, <1>4
    <3>2. \A i \in 1..n : r[i][1] # q
      BY <1>6, <1>12
    <3>3. QED
      BY <3>1, <3>2, OthersKeepTheirRows
  <2>2. RowsOf(q) \subseteq 1..m
    BY <1>2, RowsAreFinite
  <2>3. QED
    BY <1>7, <2>1, <2>2
<1>13. MediansOK'
  <2>1. RowsOf(0)' = RowsOf(0) /\ \A i \in RowsOf(0) : merged'[i] = merged[i] /\ i \in 1..m
    BY <1>3, <1>12
  <2>2. ASSUME NEW i \in RowsOf(0), NEW q \in Procs
        PROVE  \E j \in 1..(i - 1) : merged'[j] = <<q, merged'[i][2]>>
    <3>1. PICK j \in 1..(i - 1) : merged[j] = <<q, merged[i][2]>>
      BY <1>2 DEF MediansOK
    <3>2. j \in 1..m
      <4>1. i \in 1..m /\ m \in Nat
        BY <1>2, <2>1, RowsAreFinite
      <4> HIDE DEF m
      <4>2. QED
        BY <4>1
    <3>3. QED
      BY <1>7, <2>1, <3>1, <3>2
  <2>3. \A i, j \in RowsOf(0) : merged'[i][2] = merged'[j][2] => i = j
    BY <1>2, <2>1 DEF MediansOK
  <2>4. ~Through /\ ~Through'
    BY <1>1, <1>10 DEF Through
  <2>5. \A i \in RowsOf(0), q \in Procs : \E j \in 1..(i - 1) : merged'[j] = <<q, merged'[i][2]>>
    BY <2>2
  <2>6. (\A i, j \in RowsOf(0) : merged[i][2] = merged[j][2] => i = j)'
    BY <2>1, <2>3
  <2>7. (\A i \in RowsOf(0), q \in Procs : \E j \in 1..(i - 1) : merged[j] = <<q, merged[i][2]>>)'
    BY <2>1, <2>5
  <2>8. QED
    BY <2>4, <2>6, <2>7, Zenon DEF MediansOK, Through
<1>14. ASSUME NEW q \in Procs PROVE RowsOK(q)'
  <2>1. RowsOK(q)
    BY DEF SeedInv
  <2>2. CASE q # p
    BY <1>1, <1>5, <1>12, <2>1, <2>2 DEF RowsOK
  <2>3. CASE q = p
    <3>8. (SeedType /\ n \in Nat /\ r \in Seq(Entries) /\ Len(r) = n /\ merged' = merged \o r)
      BY <1>1, <1>2, <1>4
    <3>9. GoOn(RowsOf(p)', RowsOf(p), m, n)
      BY <1>6, <3>8, ItsRowsFollow
    <3>1. /\ Cardinality(RowsOf(p)') = Cardinality(RowsOf(p)) + n
          /\ \A i \in RowsOf(p)' : i \in RowsOf(p) \/ \E k \in 1..n : i = m + k
          /\ \A i \in RowsOf(p) : Place(RowsOf(p)', i) = Place(RowsOf(p), i)
          /\ \A k \in 1..n : Place(RowsOf(p)', m + k) = Cardinality(RowsOf(p)) + k
      BY <3>9 DEF GoOn
    <3>2. Cardinality(RowsOf(p)) = off[p] /\ RowsOf(p) \subseteq 1..m
      BY <1>2, <2>1, <2>3, RowsAreFinite DEF RowsOK
    <3>3. ASSUME NEW i \in RowsOf(p) PROVE merged'[i] = <<p, log[p][Place(RowsOf(p)', i)]>>
      BY <1>7, <2>1, <2>3, <3>1, <3>2 DEF RowsOK
    <3>4. ASSUME NEW k \in 1..n PROVE merged'[m + k] = <<p, log[p][Place(RowsOf(p)', m + k)]>>
      BY <1>4, <1>7, <3>1, <3>2
    <3>5. \A i \in RowsOf(p)' : merged'[i] = <<p, log[p][Place(RowsOf(p)', i)]>>
      BY <3>1, <3>3, <3>4
    <3>6. off'[p] <= Len(log'[p]) /\ Cardinality(RowsOf(p)') = off'[p]
      BY <1>1, <1>5, <3>1, <3>2
    <3>7. QED
      BY <1>1, <2>3, <3>5, <3>6 DEF RowsOK
  <2>4. QED
    BY <2>2, <2>3
<1>15. ASSUME NEW q \in Procs PROVE WorkerOK(q)'
  <2>1. UNCHANGED workerVars /\ stopFile \subseteq stopFile'
    BY <1>1
  <2>2. QED
    BY <2>1, FilesStay
<1>16. QED
  BY <1>8, <1>9, <1>11, <1>13, <1>14, <1>15 DEF SeedInv

\* The steps every seed has reported and no median speaks of yet, in their order.
LEMMA MediansAre ==
    ASSUME SeedInv
    PROVE  LET c == Cardinality(Due) IN
           /\ Due \subseteq 0..TrainSteps /\ Due \subseteq SeenByAll /\ Due \cap Logged = {}
           /\ c \in Nat /\ Medians \in Seq(Entries) /\ Len(Medians) = c
           /\ \A n \in 1..c : Medians[n][1] = 0 /\ Medians[n][2] \in Due
           /\ \A n, l \in 1..c : Medians[n][2] = Medians[l][2] => n = l
           /\ \A k \in Due : \E n \in 1..c : Medians[n][2] = k
<1> DEFINE c == Cardinality(Due)
           med(n) == CHOOSE k \in Due : Place(Due, k) = n
<1>1. Due \subseteq 0..TrainSteps /\ Due \subseteq SeenByAll /\ Due \cap Logged = {}
  BY DEF Due, SeenByAll
<1>2. IsFiniteSet(Due) /\ Due \subseteq Nat
  <2>1. IsFiniteSet(0..TrainSteps) /\ 0..TrainSteps \subseteq Nat
    BY ProcsAre, FS_Interval
  <2>2. QED
    BY <1>1, <2>1, FS_Subset
<1>3. /\ \A k \in Due : Place(Due, k) \in 1..Cardinality(Due)
      /\ \A i, k \in Due : Place(Due, i) = Place(Due, k) => i = k
      /\ \A n \in 1..Cardinality(Due) : \E k \in Due : Place(Due, k) = n
  BY <1>2, PlacesAre
<1>4. c \in Nat
  BY <1>2, FS_CardinalityType
<1>5. ASSUME NEW n \in 1..c PROVE med(n) \in Due /\ Place(Due, med(n)) = n
  <2>1. \E k \in Due : Place(Due, k) = n
    BY <1>3
  <2>2. QED
    BY <2>1
<1>6. Medians = [n \in 1..c |-> <<0, med(n)>>]
  BY DEF Medians
<1> HIDE DEF c, med
<1>7. \A n \in 1..c : Medians[n] = <<0, med(n)>> /\ Medians[n][1] = 0 /\ Medians[n][2] = med(n)
  BY <1>6
<1>8. Medians \in [1..c -> Entries]
  <2>1. \A n \in 1..c : <<0, med(n)>> \in Entries
    BY <1>1, <1>5 DEF Entries
  <2>2. QED
    BY <1>6, <2>1
<1>9. Medians \in Seq(Entries) /\ Len(Medians) = c
  BY <1>4, <1>8
<1>10. ASSUME NEW n \in 1..c, NEW l \in 1..c, Medians[n][2] = Medians[l][2] PROVE n = l
  BY <1>5, <1>7, <1>10
<1>11. ASSUME NEW k \in Due PROVE \E n \in 1..c : Medians[n][2] = k
  <2>1. PICK n \in 1..c : n = Place(Due, k)
    BY <1>3 DEF c
  <2>2. med(n) \in Due /\ Place(Due, med(n)) = Place(Due, k)
    BY <1>5, <2>1
  <2>3. med(n) = k
    BY <1>3, <2>2
  <2>4. QED
    BY <1>7, <2>3
<1>12. \A n \in 1..c : Medians[n][1] = 0 /\ Medians[n][2] \in Due
  BY <1>5, <1>7
<1>13. QED
  BY <1>1, <1>4, <1>9, <1>10, <1>11, <1>12 DEF c

\* A step a seed has been heard of has a row.
LEMMA SeenHasARow ==
    ASSUME SeedInv, NEW p \in Procs, NEW k \in Seen(p)
    PROVE  \E j \in 1..Len(merged) : merged[j] = <<p, k>>
<1>1. PICK i \in 1..off[p] : k = log[p][i]
  BY DEF Seen
<1>2. SeedType /\ RowsOK(p)
  BY DEF SeedInv
<1>3. RowsOf(p) \subseteq Nat /\ IsFiniteSet(RowsOf(p)) /\ RowsOf(p) \subseteq 1..Len(merged)
  BY <1>2, RowsAreFinite
<1>4. \A n \in 1..Cardinality(RowsOf(p)) : \E j \in RowsOf(p) : Place(RowsOf(p), j) = n
  BY <1>3, PlacesAre
<1>5. PICK j \in RowsOf(p) : Place(RowsOf(p), j) = i
  BY <1>2, <1>4 DEF RowsOK
<1>6. merged[j] = <<p, k>>
  BY <1>1, <1>2, <1>5 DEF RowsOK
<1>7. QED
  BY <1>3, <1>6

LEMMA DrainEndsKeeps ==
    ASSUME SeedInv, DrainEnds(Medians), UNCHANGED <<workerVars, asked, suiteVars>>
    PROVE  SeedInv'
<1> DEFINE r == Medians
           c == Cardinality(Due)
           m == Len(merged)
<1>1. /\ UNCHANGED <<worker, trained, log, model, result, stopFile, told, waiting, todo,
                     stopped, state, off, saved, label>>
      /\ parentPc \in {"drain", "last"} /\ todo = {}
      /\ parentPc' = IF parentPc = "drain" THEN "poll" ELSE "judge"
      /\ merged' = merged \o r
  BY DEF DrainEnds, workerVars, suiteVars
<1>2. SeedType /\ ParentOK /\ DrainedOK /\ MediansOK /\ SavedOK
  BY DEF SeedInv
<1>3. 0 \notin Procs
  BY ProcsAre
<1>4. /\ Due \subseteq 0..TrainSteps /\ Due \subseteq SeenByAll /\ Due \cap Logged = {}
      /\ c \in Nat /\ r \in Seq(Entries) /\ Len(r) = c
      /\ \A n \in 1..c : r[n][1] = 0 /\ r[n][2] \in Due
      /\ \A n, l \in 1..c : r[n][2] = r[l][2] => n = l
      /\ \A k \in Due : \E n \in 1..c : r[n][2] = k
  BY MediansAre
<1> HIDE DEF r, c
<1>5. SeedType /\ c \in Nat /\ r \in Seq(Entries) /\ Len(r) = c /\ merged' = merged \o r
  BY <1>1, <1>2, <1>4
<1>6. /\ merged' \in Seq(Entries) /\ \A i \in 1..m : merged'[i] = merged[i]
      /\ \A n \in 1..c : merged'[m + n] = r[n]
  BY <1>5, RowsExtend
<1>7. SeedType'
  <2>1. merged' \in Seq((Procs \cup {0}) \X (0..TrainSteps))
    BY <1>6 DEF Entries
  <2>2. QED
    BY <1>1, <1>2, <2>1 DEF SeedType
<1>8. state \notin {"done", "stopped"} /\ label = "none"
  BY <1>1, <1>2 DEF ParentOK, SavedOK
<1>9. ParentOK' /\ SavedOK'
  <2>1. Unspawned' = Unspawned /\ \A q \in Procs : Alive(q)' <=> Alive(q)
    BY <1>1 DEF Unspawned, Alive
  <2>2. ParentOK'
    BY <1>1, <1>2, <1>8, <2>1 DEF ParentOK, Quietened
  <2>3. SavedOK'
    BY <1>1, <1>2, <1>8 DEF SavedOK
  <2>4. QED
    BY <2>2, <2>3
<1>10. DrainedOK'
  BY <1>1, <1>2, <1>8 DEF DrainedOK
<1>11. ASSUME NEW q \in Procs PROVE RowsOK(q)' /\ WorkerOK(q)'
  <2>1. \A i \in 1..c : r[i][1] # q
    BY <1>3, <1>4
  <2>2. RowsOf(q)' = RowsOf(q)
    BY <1>5, <2>1, OthersKeepTheirRows
  <2>3. RowsOK(q) /\ RowsOf(q) \subseteq 1..m
    BY <1>2, RowsAreFinite DEF SeedInv
  <2>4. RowsOK(q)'
    BY <1>1, <1>6, <2>2, <2>3 DEF RowsOK
  <2>5. UNCHANGED workerVars /\ stopFile \subseteq stopFile'
    BY <1>1
  <2>6. QED
    BY <2>4, <2>5, FilesStay
<1>12. /\ \A i \in RowsOf(0)' : i \in RowsOf(0) \/ \E n \in 1..c : i = m + n
       /\ RowsOf(0) \subseteq 1..m /\ RowsOf(0) \subseteq RowsOf(0)'
       /\ \A n \in 1..c : m + n \in RowsOf(0)'
       /\ m \in Nat
  <2>1. GoOn(RowsOf(0)', RowsOf(0), m, c)
    <3>1. \A i \in 1..c : r[i][1] = 0
      BY <1>4
    <3>2. QED
      BY <1>5, <3>1, ItsRowsFollow
  <2>2. RowsOf(0) \subseteq 1..m /\ m \in Nat
    BY <1>2, RowsAreFinite
  <2>3. RowsOf(0) \subseteq RowsOf(0)'
    <3>1. DOMAIN merged' = 1..(m + c)
      BY <1>5, RowsExtend
    <3>2. ASSUME NEW i \in RowsOf(0) PROVE i \in DOMAIN merged' /\ merged'[i][1] = 0
      <4>1. i \in 1..m /\ merged[i][1] = 0
        BY <2>2 DEF RowsOf
      <4>2. i \in 1..(m + c)
        BY <1>5, <2>2, <4>1
      <4>3. QED
        BY <1>6, <3>1, <4>1, <4>2
    <3>3. QED
      BY <3>2 DEF RowsOf
  <2>4. QED
    BY <2>1, <2>2, <2>3, Zenon DEF GoOn
<1> HIDE DEF m
<1>13. \A i \in RowsOf(0) : merged'[i] = merged[i] /\ merged[i][2] \in Logged
  BY <1>6, <1>12 DEF Logged
<1>14. \A n \in 1..c : merged'[m + n][2] \in Due /\ merged'[m + n][2] = r[n][2]
  BY <1>4, <1>6
<1>15. \A i, j \in RowsOf(0)' : merged'[i][2] = merged'[j][2] => i = j
  <2> SUFFICES ASSUME NEW i \in RowsOf(0)', NEW j \in RowsOf(0)', merged'[i][2] = merged'[j][2]
               PROVE  i = j
    OBVIOUS
  <2>1. CASE i \in RowsOf(0) /\ j \in RowsOf(0)
    BY <1>2, <1>13, <2>1 DEF MediansOK
  <2>2. CASE \E n, l \in 1..c : i = m + n /\ j = m + l
    BY <1>4, <1>14, <2>2
  <2>3. CASE i \in RowsOf(0) /\ \E l \in 1..c : j = m + l
    BY <1>4, <1>13, <1>14, <2>3
  <2>4. CASE j \in RowsOf(0) /\ \E n \in 1..c : i = m + n
    BY <1>4, <1>13, <1>14, <2>4
  <2>5. QED
    BY <1>12, <2>1, <2>2, <2>3, <2>4
<1>16. ASSUME NEW i \in RowsOf(0)', NEW q \in Procs
       PROVE  \E j \in 1..(i - 1) : merged'[j] = <<q, merged'[i][2]>>
  <2>1. CASE i \in RowsOf(0)
    <3>1. PICK j \in 1..(i - 1) : merged[j] = <<q, merged[i][2]>>
      BY <1>2, <2>1 DEF MediansOK
    <3>2. j \in 1..m
      BY <1>12, <2>1
    <3>3. QED
      BY <1>6, <1>13, <2>1, <3>1, <3>2
  <2>2. ASSUME NEW n \in 1..c, i = m + n PROVE \E j \in 1..(i - 1) : merged'[j] = <<q, merged'[i][2]>>
    <3>1. merged'[i][2] \in Seen(q)
      BY <1>4, <1>14, <2>2 DEF SeenByAll
    <3>2. PICK j \in 1..m : merged[j] = <<q, merged'[i][2]>>
      BY <3>1, SeenHasARow DEF m
    <3>3. j \in 1..(i - 1)
      BY <1>12, <2>2
    <3>4. QED
      BY <1>6, <3>2, <3>3
  <2>3. QED
    BY <1>12, <2>1, <2>2
<1>17. SeenByAll' \subseteq Logged'
  <2>1. SeenByAll' = SeenByAll
    BY <1>1 DEF SeenByAll, Seen
  <2>2. ASSUME NEW k \in SeenByAll PROVE \E i \in RowsOf(0)' : merged'[i][2] = k
    <3>1. CASE k \in Logged
      <4>1. PICK i \in RowsOf(0) : merged[i][2] = k
        BY <3>1 DEF Logged
      <4>2. QED
        BY <1>12, <1>13, <4>1
    <3>2. CASE k \notin Logged
      <4>1. k \in Due
        BY <3>2 DEF SeenByAll, Due
      <4>2. PICK n \in 1..c : r[n][2] = k
        BY <1>4, <4>1
      <4>3. QED
        BY <1>12, <1>14, <4>2
    <3>3. QED
      BY <3>1, <3>2
  <2>3. QED
    BY <2>1, <2>2 DEF Logged
<1>18. MediansOK'
  BY <1>15, <1>16, <1>17, Zenon DEF MediansOK
<1>19. QED
  BY <1>7, <1>9, <1>10, <1>11, <1>18 DEF SeedInv

-----------------------------------------------------------------------------
LEMMA SeedHoldsAtFirst == SeedInit => SeedInv
<1> SUFFICES ASSUME SeedInit PROVE SeedInv
  OBVIOUS
<1>1. /\ worker = [p \in Procs |-> "none"] /\ trained = [p \in Procs |-> 0]
      /\ log = [p \in Procs |-> <<>>] /\ off = [p \in Procs |-> 0] /\ merged = <<>>
      /\ DOMAIN model = {} /\ DOMAIN result = {} /\ stopFile = {} /\ waiting = {} /\ todo = {}
      /\ stopped = FALSE /\ state = "running" /\ parentPc = "spawn" /\ label = "none"
      /\ result = [q \in DOMAIN result |-> result[q]]
  BY DEF SeedInit, WorkersInit
<1>2. SeedType
  <2>1. <<>> \in Seq(0..TrainSteps) /\ <<>> \in Seq((Procs \cup {0}) \X (0..TrainSteps))
    OBVIOUS
  <2>2. log \in [Procs -> Seq(0..TrainSteps)]
    BY <1>1, <2>1
  <2>3. off \in [Procs -> Nat] /\ trained \in [Procs -> 0..TrainSteps]
    BY <1>1
  <2>4. worker \in [Procs -> {"none", "run", "row", "best", "lastrow", "check", "save", "result",
                              "ok", "bad"}]
    BY <1>1
  <2>5. merged \in Seq((Procs \cup {0}) \X (0..TrainSteps))
    BY <1>1, <2>1
  <2>6. /\ stopFile \subseteq Procs /\ todo \subseteq waiting /\ stopped \in BOOLEAN
        /\ DOMAIN model \subseteq Procs /\ DOMAIN result \subseteq Procs
        /\ result = [q \in DOMAIN result |-> result[q]]
    BY <1>1, Zenon
  <2>7. QED
    BY <2>2, <2>3, <2>4, <2>5, <2>6 DEF SeedType
<1>3. ParentOK
  <2>1. Unspawned = Procs /\ \A p \in Procs : worker[p] = "none"
    BY <1>1 DEF Unspawned
  <2>2. QED
    BY <1>1, <2>1, ProcsAre DEF ParentOK, Quietened
<1>4. \A q : RowsOf(q) = {}
  BY <1>1 DEF RowsOf
<1>5. DrainedOK /\ MediansOK
  BY <1>1, <1>4 DEF DrainedOK, MediansOK
<1>6. SavedOK
  BY <1>1 DEF SavedOK
<1>7. ASSUME NEW p \in Procs PROVE RowsOK(p) /\ WorkerOK(p)
  <2>1. Cardinality(RowsOf(p)) = 0 /\ off[p] = 0 /\ Len(log[p]) = 0
    BY <1>1, <1>4, FS_EmptySet
  <2>2. RowsOK(p)
    BY <1>4, <2>1 DEF RowsOK
  <2>3. WorkerOK(p)
    BY <1>1 DEF WorkerOK
  <2>4. QED
    BY <2>2, <2>3
<1>8. QED
  BY <1>2, <1>3, <1>5, <1>6, <1>7 DEF SeedInv

LEMMA SeedStepKeeps == SeedInv /\ [SeedNext]_seedVars => SeedInv'
<1> SUFFICES ASSUME SeedInv, [SeedNext]_seedVars PROVE SeedInv'
  OBVIOUS
<1>1. CASE Parent
  <2>1. CASE Spawn \/ Judge \/ After
    BY <2>1, SpawnKeeps, JudgeKeeps, AfterKeeps
  <2>2. CASE WaitStep(Medians) /\ UNCHANGED <<workerVars, asked, suiteVars>>
    BY <2>2, WaitKeeps, DrainKeeps, DrainEndsKeeps, PollKeeps DEF WaitStep
  <2>3. QED
    BY <1>1, <2>1, <2>2 DEF Parent
<1>2. ASSUME NEW p \in Procs, Worker(p) PROVE SeedInv'
  <2>1. WorkerStep(p) /\ Alone
    BY <1>2 DEF Worker, Alone
  <2>2. QED
    BY <2>1, RoundKeeps, RowKeeps, CheckKeeps, SaveKeeps DEF WorkerStep
<1>3. ASSUME NEW p \in Procs, Dies(p),
             UNCHANGED <<stopFile, told, parentPc, parentVars, asked, suiteVars>>
      PROVE  SeedInv'
  BY <1>3, CheckKeeps DEF Alone
<1>4. CASE Raise \/ ((Command \/ ParentKilled) /\ UNCHANGED suiteVars)
  BY <1>4, OtherKeeps
<1>5. CASE WaitRaises /\ UNCHANGED <<workerVars, asked, suiteVars>>
  BY <1>5, PollKeeps
<1>6. CASE UNCHANGED seedVars
  <2>1. /\ UNCHANGED <<workerVars, merged, off, stopFile, todo, waiting, stopped>>
        /\ UNCHANGED <<worker, parentPc, state, told, saved, label, result>>
    BY <1>6 DEF seedVars, workerVars, parentVars, suiteVars
  <2>2. ParentOK' /\ SavedOK' /\ Through' = Through
    <3>1. Unspawned' = Unspawned /\ \A q \in Procs : Alive(q)' <=> Alive(q)
      BY <2>1 DEF Unspawned, Alive
    <3>2. QED
      BY <2>1, <3>1 DEF SeedInv, ParentOK, SavedOK, Quietened, Through
  <2>3. QED
    BY <2>1, <2>2, ControlKeeps DEF SeedInv, SeedType
<1>7. QED
  BY <1>1, <1>2, <1>3, <1>4, <1>5, <1>6 DEF SeedNext

LEMMA SeedInvariance == SeedSpec => []SeedInv
<1>1. QED
  BY SeedHoldsAtFirst, SeedStepKeeps, PTL DEF SeedSpec

(***************************************************************************)
(* The parent's metrics hold the rows of each seed, once and in order, and *)
(* all of them when it ended by itself.                                    *)
(***************************************************************************)
THEOREM RowsStayMerged == SeedSpec => []RowsAreMerged
<1>1. SeedInv => RowsAreMerged
  BY DEF SeedInv, RowsOK, DrainedOK, RowsAreMerged
<1>2. QED
  BY <1>1, SeedInvariance, PTL

(***************************************************************************)
(* A suite that ended leaves no seed training that was not told to end.    *)
(***************************************************************************)
THEOREM NoSeedIsLeft == SeedSpec => []NoWorkerLeft
<1>1. SeedInv => NoWorkerLeft
  BY DEF SeedInv, ParentOK, NoWorkerLeft
<1>2. QED
  BY <1>1, SeedInvariance, PTL

(***************************************************************************)
(* A median row follows the rows of all seeds, there is one for a step at  *)
(* most, and one for each evaluation when the suite is done.               *)
(***************************************************************************)
THEOREM MediansStayRight == SeedSpec => []MediansAreRight
<1>1. SeedInv => MediansAreRight
  <2> SUFFICES ASSUME SeedInv PROVE MediansAreRight
    OBVIOUS
  <2>1. SeedType /\ ParentOK /\ DrainedOK /\ MediansOK /\ SavedOK
    BY DEF SeedInv
  <2>2. ASSUME state = "done" PROVE Logged = {k \in 0..TrainSteps : Evaluates(k)} \cup {TrainSteps}
    <3>1. /\ ~stopped /\ stopFile = {} /\ label # "none"
      BY <2>1, <2>2 DEF SavedOK, ParentOK
    <3>2. ASSUME NEW p \in Procs PROVE Seen(p) = Evals(TrainSteps) \cup {TrainSteps}
      <4>1. worker[p] = "ok" /\ WorkerOK(p)
        BY <2>1, <3>1 DEF SavedOK, SeedInv
      <4>2. StepsOf(log[p]) = Evals(TrainSteps) \cup {TrainSteps}
        BY <3>1, <4>1 DEF WorkerOK
      <4>3. off[p] = Len(log[p])
        BY <2>1, <2>2 DEF DrainedOK
      <4>4. QED
        BY <4>2, <4>3 DEF Seen, StepsOf
    <3>3. PICK p \in Procs : TRUE
      BY ProcsAre
    <3>4. SeenByAll = Evals(TrainSteps) \cup {TrainSteps}
      <4>1. Evals(TrainSteps) \cup {TrainSteps} \subseteq 0..TrainSteps
        BY ProcsAre DEF Evals
      <4>2. QED
        BY <3>2, <3>3, <4>1 DEF SeenByAll
    <3>5. SeenByAll \subseteq Logged
      BY <2>1, <2>2 DEF MediansOK
    <3>6. ASSUME NEW i \in RowsOf(0) PROVE merged[i][2] \in Seen(p)
      <4>1. PICK j \in 1..(i - 1) : merged[j] = <<p, merged[i][2]>>
        BY <2>1 DEF MediansOK
      <4>2. j \in RowsOf(p) /\ merged[j][2] = merged[i][2]
        <5>1. i \in 1..Len(merged) /\ DOMAIN merged = 1..Len(merged) /\ Len(merged) \in Nat
          BY <2>1, RowsAreFinite
        <5>2. j \in DOMAIN merged
          BY <5>1
        <5>3. QED
          BY <4>1, <5>2 DEF RowsOf
      <4>3. RowsOf(p) \subseteq Nat /\ IsFiniteSet(RowsOf(p)) /\ RowsOK(p)
        BY <2>1, RowsAreFinite DEF SeedInv
      <4>4. Place(RowsOf(p), j) \in 1..Cardinality(RowsOf(p))
        BY <4>2, <4>3, PlacesAre
      <4>5. merged[j][2] = log[p][Place(RowsOf(p), j)]
        BY <4>2, <4>3 DEF RowsOK
      <4>6. QED
        BY <4>2, <4>3, <4>4, <4>5 DEF Seen, RowsOK
    <3>7. Logged \subseteq Evals(TrainSteps) \cup {TrainSteps}
      BY <3>2, <3>6 DEF Logged
    <3>8. QED
      BY <3>4, <3>5, <3>7 DEF Evals
  <2>3. QED
    BY <2>1, <2>2 DEF MediansAreRight, MediansOK
<1>2. QED
  BY <1>1, SeedInvariance, PTL

(***************************************************************************)
(* The checkpoint of a suite that ended by itself has the last residual of *)
(* every seed, and one labelled final only of seeds trained in full.       *)
(***************************************************************************)
THEOREM SeedsStaySaved == SeedSpec => []SeedsAreSaved
<1>1. SeedInv => SeedsAreSaved
  <2> SUFFICES ASSUME SeedInv PROVE SeedsAreSaved
    OBVIOUS
  <2>1. ParentOK /\ SavedOK
    BY DEF SeedInv
  <2>2. ASSUME label = "final", NEW p \in Procs PROVE saved[p] = TrainSteps
    <3>1. ~stopped /\ stopFile = {} /\ saved = result /\ worker[p] = "ok"
      BY <2>1, <2>2 DEF SavedOK, ParentOK
    <3>2. QED
      BY <3>1 DEF SeedInv, WorkerOK
  <2>3. QED
    BY <2>1, <2>2 DEF SavedOK, SeedsAreSaved
<1>2. QED
  BY <1>1, SeedInvariance, PTL

HIDE WorkersAssumption DEF WorkersAssumption

HIDE SeedAssumption DEF SeedAssumption

USE SeedEvalAssumption DEF SeedEvalAssumption, Base, Which

-----------------------------------------------------------------------------
(***************************************************************************)
(* Lesson 19's evaluation: what is shown of its workers' results.          *)
(***************************************************************************)
Shows == {"trace", "film", "rerun", "result", "done"}
TheOthers ==
    [i \in 1..2 * (Len(TraceSeeds) - 1) |-> Both(TraceSeeds[((i + 1) \div 2) + 1])[((i + 1) % 2) + 1]]

\* The workers are all there once waited for, all ended once judged, and all well when shown.
WorkersSpeak ==
    /\ epc \in {"spawn", "wait", "poll", "held", "judge", "stopped", "failed", "raised"} \cup Shows
    /\ ev \in [Which -> {"none", "run", "ok", "bad"}]
    /\ epc \notin {"spawn", "raised"} => \A w \in Which : ev[w] # "none"
    /\ epc \in {"judge", "failed"} => \A w \in Which : ev[w] # "run"
    /\ epc \in Shows => \A w \in Which : ev[w] = "ok"
    /\ epc = "stopped" => \A w \in Which : ev[w] = "run" => w \in signed

Filmed == {<<>>, <<Episode(Base, Pick)>>, Both(Pick)}

\* The pair of the video is begun, or filmed, or made without a film.
TracesFollow ==
    /\ won \in [Which -> SUBSET EvalSeeds]
    /\ epc = "film" => pair \in Filmed
    /\ epc \notin {"film", "result", "done"} => pair = <<>>
    /\ epc = "result" => pair = Both(Pick)
    /\ epc \in {"film", "rerun", "result"} => traces = TheOthers
    /\ epc = "done" => traces = Both(Pick) \o TheOthers

SeedEvalInv == WorkersSpeak /\ TracesFollow

LEMMA WhichIs == Which \subseteq Nat /\ Base \in Which /\ Seeds \subseteq Which /\ IsFiniteSet(Seeds)
  OBVIOUS

\* The trace's episodes are those of the results, as long as these stay.
LEMMA TheyStay ==
    ASSUME won' = won
    PROVE  Pick' = Pick /\ TheOthers' = TheOthers /\ Both(Pick)' = Both(Pick) /\ Filmed' = Filmed
<1>1. Median' = Median
  BY DEF Median, Better
<1>2. Pick' = Pick
  BY <1>1 DEF Pick
<1>3. TraceSeeds' = TraceSeeds
  BY <1>2 DEF TraceSeeds
<1>4. \A k : Both(k)' = Both(k)
  BY <1>1 DEF Both, Episode
<1>5. QED
  BY <1>1, <1>2, <1>3 DEF TheOthers, Both, Episode, Filmed

LEMMA SecondFollows == ASSUME NEW a, NEW b PROVE Append(<<a>>, <<a, b>>[Len(<<a>>) + 1]) = <<a, b>>
<1>1. Len(<<a>>) = 1 /\ <<a, b>>[2] = b
  OBVIOUS
<1>2. Append(<<a>>, b) = <<a, b>>
  <2> DEFINE s == <<a>>
             r == Append(s, b)
             u == <<a, b>>
  <2>1. s \in Seq({a, b}) /\ Len(s) = 1 /\ s[1] = a
    OBVIOUS
  <2> HIDE DEF s
  <2>2. r \in Seq({a, b}) /\ Len(r) = 2 /\ r[1] = a /\ r[2] = b
    <3> DEFINE S == {a, b}
    <3>1. s \in Seq(S) /\ b \in S
      BY <2>1
    <3> HIDE DEF S
    <3>2. r \in Seq(S) /\ Len(r) = Len(s) + 1 /\ r[Len(s) + 1] = b
      BY <3>1, AppendProperties
    <3>3. \A i \in 1..Len(s) : r[i] = s[i]
      BY <3>1, AppendProperties
    <3>4. Len(r) = 2 /\ r[2] = b
      BY <2>1, <3>2
    <3>5. r[1] = a
      BY <2>1, <3>3
    <3>6. QED
      BY <3>2, <3>4, <3>5 DEF S
  <2>3. u \in Seq({a, b}) /\ Len(u) = 2 /\ u[1] = a /\ u[2] = b
    OBVIOUS
  <2> HIDE DEF r, u
  <2>4. r = u
    <3>1. DOMAIN r = 1..2 /\ DOMAIN u = 1..2 /\ \A i \in 1..2 : r[i] = u[i]
      BY <2>2, <2>3
    <3>2. r = [i \in 1..2 |-> r[i]] /\ u = [i \in 1..2 |-> u[i]]
      BY <2>2, <2>3, <3>1
    <3>3. QED
      BY <3>1, <3>2
  <2>5. QED
    BY <2>4 DEF r, s, u
<1>3. QED
  BY <1>1, <1>2

LEMMA SeedEvalAtFirst == SeedEvalInit => SeedEvalInv
BY DEF SeedEvalInit, SeedEvalInv, WorkersSpeak, TracesFollow, Shows

LEMMA SpeakersStay ==
    ASSUME SeedEvalInv, [SeedEvalNext]_seedEvalVars
    PROVE  WorkersSpeak'
<1>1. WorkersSpeak
  BY DEF SeedEvalInv
<1>2. CASE SpawnEval
  <2> DEFINE w == Least({v \in Which : ev[v] = "none"})
  <2>1. /\ ev' = [ev EXCEPT ![w] = "run"] /\ epc = "spawn" /\ signed' = signed
        /\ epc' = IF \E v \in Which \ {w} : ev[v] = "none" THEN "spawn" ELSE "wait"
    BY <1>2 DEF SpawnEval
  <2> HIDE DEF w
  <2>2. ev' \in [Which -> {"none", "run", "ok", "bad"}]
    BY <1>1, <2>1 DEF WorkersSpeak
  <2>3. epc' # "spawn" => \A v \in Which : ev'[v] # "none"
    BY <1>1, <2>1 DEF WorkersSpeak
  <2>4. QED
    BY <2>1, <2>2, <2>3 DEF WorkersSpeak, Shows
<1>3. ASSUME NEW w \in Which, EvalWorker(w) \/ EvalWorkerDies(w) PROVE WorkersSpeak'
  BY <1>1, <1>3 DEF EvalWorker, EvalWorkerDies, WorkersSpeak, Shows
<1>4. CASE WaitEval \/ PollEval
  BY <1>1, <1>4 DEF WaitEval, PollEval, WorkersSpeak, Shows
<1>5. CASE StopEval
  BY <1>1, <1>5 DEF StopEval, WorkersSpeak, Shows
<1>6. CASE JudgeEval
  <2>1. \A w \in Which : ev[w] \in {"ok", "bad"}
    BY <1>1, <1>6 DEF JudgeEval, WorkersSpeak
  <2>2. QED
    BY <1>1, <1>6, <2>1 DEF JudgeEval, WorkersSpeak, Shows
<1>7. CASE TraceRest \/ FilmEpisode \/ FilmEnds
  BY <1>1, <1>7 DEF TraceRest, FilmEpisode, FilmEnds, WorkersSpeak, Shows
<1>8. CASE FilmFails \/ Unfilmed \/ EvalResult
  BY <1>1, <1>8 DEF FilmFails, Unfilmed, EvalResult, WorkersSpeak, Shows
<1>9. CASE SeedEvalRaises \/ AskEval \/ UNCHANGED seedEvalVars
  BY <1>1, <1>9 DEF SeedEvalRaises, AskEval, seedEvalVars, WorkersSpeak, Shows
<1>10. QED
  BY <1>2, <1>3, <1>4, <1>5, <1>6, <1>7, <1>8, <1>9 DEF SeedEvalNext

LEMMA TracesStay ==
    ASSUME SeedEvalInv, [SeedEvalNext]_seedEvalVars
    PROVE  TracesFollow'
<1>1. TracesFollow
  BY DEF SeedEvalInv
<1>2. CASE JudgeEval
  BY <1>1, <1>2 DEF JudgeEval, TracesFollow
<1>3. ASSUME won' = won PROVE TracesFollow'
  <2> DEFINE both == Both(Pick)
             rest == TheOthers
             filmed == Filmed
             one == <<Episode(Base, Pick)>>
  <2>1. /\ both' = both /\ rest' = rest /\ filmed' = filmed
        /\ <<>> \in filmed /\ both \in filmed /\ one \in filmed
    BY <1>3, TheyStay DEF Filmed
  <2>2. /\ won \in [Which -> SUBSET EvalSeeds]
        /\ epc = "film" => pair \in filmed
        /\ epc \notin {"film", "result", "done"} => pair = <<>>
        /\ epc = "result" => pair = both
        /\ epc \in {"film", "rerun", "result"} => traces = rest
        /\ epc = "done" => traces = both \o rest
    BY <1>1 DEF TracesFollow
  <2>3. CASE TraceRest
    <3>1. traces' = rest /\ epc' \in {"film", "rerun"} /\ pair' = pair /\ epc = "trace"
      BY <2>3 DEF TraceRest, TheOthers
    <3>2. QED
      BY <1>3, <2>1, <2>2, <3>1 DEF TracesFollow
  <2>4. CASE FilmEpisode
    <3>1. epc = "film" /\ Len(pair) < 2 /\ pair' = Append(pair, Both(Pick)[Len(pair) + 1])
          /\ epc' = epc /\ traces' = traces
      BY <2>4 DEF FilmEpisode
    <3>2. Both(Pick) = <<Episode(Base, Pick), Episode(Median, Pick)>>
      BY DEF Both
    <3>3. pair = <<>> => pair' = one
      BY <3>1, <3>2
    <3>4. ASSUME pair = one PROVE pair' = both
      <4> DEFINE a == Episode(Base, Pick)
                 b == Episode(Median, Pick)
      <4>1. Both(Pick) = <<a, b>> /\ pair = <<a>> /\ pair' = Append(pair, Both(Pick)[Len(pair) + 1])
        BY <3>1, <3>2, <3>4
      <4> HIDE DEF a, b, both
      <4>2. pair' = Append(<<a>>, <<a, b>>[Len(<<a>>) + 1])
        BY <4>1
      <4>3. Append(<<a>>, <<a, b>>[Len(<<a>>) + 1]) = <<a, b>>
        BY SecondFollows
      <4>4. pair' = <<a, b>>
        BY <4>2, <4>3
      <4>5. QED
        BY <4>1, <4>4 DEF both
    <3>5. pair # both
      BY <3>1, <3>2
    <3>6. pair' \in filmed
      BY <2>1, <2>2, <3>1, <3>3, <3>4, <3>5 DEF Filmed
    <3>7. QED
      BY <1>3, <2>1, <2>2, <3>1, <3>6 DEF TracesFollow
  <2>5. CASE FilmEnds
    <3>1. epc = "film" /\ Len(pair) = 2 /\ epc' = "result" /\ pair' = pair /\ traces' = traces
      BY <2>5 DEF FilmEnds
    <3>2. Len(<<>>) # 2 /\ Len(one) # 2
      OBVIOUS
    <3>3. pair = both
      BY <2>2, <3>1, <3>2 DEF Filmed
    <3>4. QED
      BY <1>3, <2>1, <2>2, <3>1, <3>3 DEF TracesFollow
  <2> HIDE DEF both, rest, filmed, one
  <2>6. CASE FilmFails
    <3>1. epc = "film" /\ epc' = "rerun" /\ pair' = <<>> /\ traces' = traces
      BY <2>6 DEF FilmFails
    <3>2. QED
      BY <1>3, <2>1, <2>2, <3>1 DEF TracesFollow, both, rest, filmed
  <2>7. CASE Unfilmed
    <3>1. epc = "rerun" /\ epc' = "result" /\ pair' = both /\ traces' = traces
      BY <2>7 DEF Unfilmed, both
    <3>2. QED
      BY <1>3, <2>1, <2>2, <3>1 DEF TracesFollow, both, rest, filmed
  <2>8. CASE EvalResult
    <3>1. epc = "result" /\ epc' = "done" /\ pair' = pair /\ traces' = pair \o traces
      BY <2>8 DEF EvalResult
    <3>2. QED
      BY <1>3, <2>1, <2>2, <3>1 DEF TracesFollow, both, rest, filmed
  <2>9. CASE /\ UNCHANGED <<pair, traces>>
             /\ \/ epc' = epc
                \/ epc' \notin {"film", "rerun", "result", "done"} /\ epc \notin {"film", "result", "done"}
    BY <1>3, <2>1, <2>2, <2>9 DEF TracesFollow, both, rest, filmed
  <2>10. CASE SpawnEval \/ WaitEval \/ StopEval \/ PollEval
    <3>1. UNCHANGED <<pair, traces>>
      BY <2>10 DEF SpawnEval, WaitEval, StopEval, PollEval
    <3>2. /\ epc \in {"spawn", "wait", "poll", "held"}
          /\ epc' \in {"spawn", "wait", "poll", "judge", "stopped", "held"}
      BY <2>10 DEF SpawnEval, WaitEval, StopEval, PollEval
    <3>3. QED
      BY <2>9, <3>1, <3>2
  <2>11. CASE SeedEvalRaises
    BY <2>9, <2>11 DEF SeedEvalRaises
  <2>12. CASE AskEval \/ UNCHANGED seedEvalVars \/ \E w \in Which : EvalWorker(w) \/ EvalWorkerDies(w)
    BY <2>9, <2>12 DEF AskEval, seedEvalVars, EvalWorker, EvalWorkerDies
  <2>13. QED
    BY <1>2, <2>3, <2>4, <2>5, <2>6, <2>7, <2>8, <2>10, <2>11, <2>12 DEF SeedEvalNext
<1>4. JudgeEval \/ won' = won
  BY DEF SeedEvalNext, SpawnEval, WaitEval, StopEval, PollEval, EvalWorker, EvalWorkerDies,
         TraceRest, FilmEpisode, FilmEnds, FilmFails, Unfilmed, EvalResult, SeedEvalRaises,
         AskEval, seedEvalVars
<1>5. QED
  BY <1>2, <1>3, <1>4

LEMMA SeedEvalInvariance == SeedEvalSpec => []SeedEvalInv
<1>1. SeedEvalInv /\ [SeedEvalNext]_seedEvalVars => SeedEvalInv'
  BY SpeakersStay, TracesStay DEF SeedEvalInv
<1>2. QED
  BY <1>1, SeedEvalAtFirst, PTL DEF SeedEvalSpec

-----------------------------------------------------------------------------
(***************************************************************************)
(* The median seed: as many rank below each as it is better than.          *)
(***************************************************************************)
Wins(s) == Cardinality(won[s])
Beaten(s) == {r \in Seeds : Better(s, r)}
Half == (Cardinality(Seeds) - 1) \div 2

LEMMA WinsAreCounted ==
    ASSUME won \in [Which -> SUBSET EvalSeeds]
    PROVE  \A s \in Seeds : Wins(s) \in Nat
<1>1. IsFiniteSet(EvalSeeds)
  BY FS_Interval DEF EvalSeeds
<1>2. \A s \in Seeds : won[s] \subseteq EvalSeeds
  OBVIOUS
<1>3. QED
  BY <1>1, <1>2, FS_Subset, FS_CardinalityType DEF Wins

\* Of two seeds one is better, and it is better than all that the other is.
LEMMA OneIsBetter ==
    ASSUME won \in [Which -> SUBSET EvalSeeds], NEW i \in Seeds, NEW k \in Seeds, i # k
    PROVE  \/ Beaten(i) \subseteq Beaten(k) /\ Beaten(i) # Beaten(k)
           \/ Beaten(k) \subseteq Beaten(i) /\ Beaten(k) # Beaten(i)
<1> DEFINE w == [s \in Seeds |-> Wins(s)]
<1>1. \A s \in Seeds : w[s] \in Nat /\ s \in Nat
  BY WinsAreCounted
<1>2. \A r, s \in Seeds : Better(r, s) <=> w[r] > w[s] \/ (w[r] = w[s] /\ r > s)
  BY DEF Better, Wins
<1> HIDE DEF w
<1>3. \A r, s \in Seeds : Better(r, s) => Beaten(s) \subseteq Beaten(r) /\ Beaten(s) # Beaten(r)
  <2>1. SUFFICES ASSUME NEW r \in Seeds, NEW s \in Seeds, Better(r, s)
                 PROVE  Beaten(s) \subseteq Beaten(r) /\ Beaten(s) # Beaten(r)
    OBVIOUS
  <2>2. s \in Beaten(r) /\ s \notin Beaten(s)
    BY <1>1, <1>2, <2>1 DEF Beaten
  <2>3. \A q \in Seeds : Better(s, q) => Better(r, q)
    BY <1>1, <1>2, <2>1
  <2>4. QED
    BY <2>2, <2>3 DEF Beaten
<1>4. Better(i, k) \/ Better(k, i)
  BY <1>1, <1>2
<1>5. QED
  BY <1>3, <1>4

\* Of elements ranked by the sets of those below them, one is at every place.
LEMMA EveryRankIsTaken ==
    ASSUME NEW S, IsFiniteSet(S), NEW b \in [S -> SUBSET S], \A s \in S : s \notin b[s],
           \A i, k \in S : i # k => \/ b[i] \subseteq b[k] /\ b[i] # b[k]
                                    \/ b[k] \subseteq b[i] /\ b[k] # b[i]
    PROVE  \A n \in 0..(Cardinality(S) - 1) : \E s \in S : Cardinality(b[s]) = n
<1> DEFINE c == Cardinality(S)
           T == 0..(c - 1)
           f == [s \in S |-> Cardinality(b[s])]
<1>1. c \in Nat
  BY FS_CardinalityType
<1>2. IsFiniteSet(T) /\ Cardinality(T) = c
  <2>1. PICK d : d = c - 1
    OBVIOUS
  <2>2. d \in Int /\ c = d + 1 /\ (0 > d => c = 0)
    BY <1>1, <2>1
  <2> HIDE DEF c
  <2>3. IsFiniteSet(0..d)
    BY <2>2, FS_Interval
  <2>4. Cardinality(0..d) = IF 0 > d THEN 0 ELSE d - 0 + 1
    BY <2>2, FS_Interval
  <2>5. Cardinality(0..d) = c
    BY <2>2, <2>4
  <2>6. QED
    BY <2>1, <2>3, <2>5
<1>3. \A s \in S : f[s] \in T
  <2>1. SUFFICES ASSUME NEW s \in S PROVE Cardinality(b[s]) \in T
    OBVIOUS
  <2>2. b[s] \subseteq S \ {s}
    OBVIOUS
  <2>3. IsFiniteSet(S \ {s}) /\ Cardinality(S \ {s}) = c - 1
    BY FS_RemoveElement
  <2>4. IsFiniteSet(b[s]) /\ Cardinality(b[s]) <= c - 1
    BY <2>2, <2>3, FS_Subset
  <2>5. QED
    BY <1>1, <2>4, FS_CardinalityType
<1>4. f \in [S -> T]
  BY <1>3
<1>5. \A i, k \in S : f[i] = f[k] => i = k
  <2>1. \A i, k \in S : Cardinality(b[i]) = Cardinality(b[k]) => i = k
    BY RanksDiffer
  <2>2. QED
    BY <2>1
<1>6. \A s \in S : f[s] = Cardinality(b[s])
  OBVIOUS
<1> HIDE DEF f, T
<1>7. \A n \in T : \E s \in S : f[s] = n
  BY <1>2, <1>4, <1>5, RanksHit
<1>8. QED
  BY <1>6, <1>7 DEF T

LEMMA MedianIs ==
    ASSUME won \in [Which -> SUBSET EvalSeeds]
    PROVE  Median \in Seeds /\ Cardinality(Beaten(Median)) = Half
<1> DEFINE c == Cardinality(Seeds)
           beaten == [s \in Seeds |-> Beaten(s)]
<1>1. IsFiniteSet(Seeds) /\ c \in Nat \ {0}
  BY FS_CardinalityType, FS_EmptySet
<1>2. \A s \in Seeds : s \notin beaten[s]
  <2>1. SUFFICES ASSUME NEW s \in Seeds PROVE ~Better(s, s)
    BY DEF Beaten
  <2>2. Wins(s) \in Nat /\ s \in Nat
    BY WinsAreCounted
  <2>3. QED
    BY <2>2 DEF Better, Wins
<1>3. beaten \in [Seeds -> SUBSET Seeds]
  BY DEF Beaten
<1>4. \A i, k \in Seeds : i # k => \/ beaten[i] \subseteq beaten[k] /\ beaten[i] # beaten[k]
                                   \/ beaten[k] \subseteq beaten[i] /\ beaten[k] # beaten[i]
  BY OneIsBetter
<1>5. PICK b : b = beaten
  OBVIOUS
<1> HIDE DEF beaten
<1>6. \A n \in 0..(c - 1) : \E s \in Seeds : Cardinality(b[s]) = n
  <2>1. /\ IsFiniteSet(Seeds) /\ b \in [Seeds -> SUBSET Seeds] /\ \A s \in Seeds : s \notin b[s]
        /\ \A i, k \in Seeds : i # k => \/ b[i] \subseteq b[k] /\ b[i] # b[k]
                                        \/ b[k] \subseteq b[i] /\ b[k] # b[i]
    BY <1>1, <1>2, <1>3, <1>4, <1>5
  <2>2. QED
    BY <2>1, EveryRankIsTaken
<1>7. Half \in 0..(c - 1)
  BY <1>1, Z3 DEF Half
<1>8. \E s \in Seeds : Cardinality({r \in Seeds : Better(s, r)}) = (Cardinality(Seeds) - 1) \div 2
  BY <1>5, <1>6, <1>7 DEF Beaten, Half, beaten
<1>9. QED
  BY <1>8 DEF Median, Beaten, Half

\* No better than half of the others, nor worse.
LEMMA HalfAreOnEachSide ==
    ASSUME won \in [Which -> SUBSET EvalSeeds]
    PROVE  /\ 2 * Cardinality({s \in Seeds : Wins(s) > Wins(Median)}) <= Cardinality(Seeds)
           /\ 2 * Cardinality({s \in Seeds : Wins(s) < Wins(Median)}) <= Cardinality(Seeds)
<1> DEFINE c == Cardinality(Seeds)
           m == Median
           B == Beaten(m)
           above == {s \in Seeds : Wins(s) > Wins(m)}
           below == {s \in Seeds : Wins(s) < Wins(m)}
<1>1. IsFiniteSet(Seeds) /\ c \in Nat \ {0}
  BY FS_CardinalityType, FS_EmptySet
<1>2. m \in Seeds /\ Cardinality(B) = Half
  BY MedianIs
<1> HIDE DEF m
<1>3. \A s \in Seeds : Wins(s) \in Nat /\ s \in Nat
  BY WinsAreCounted
<1>4. \A s \in Seeds : Better(m, s) <=> Wins(m) > Wins(s) \/ (Wins(m) = Wins(s) /\ m > s)
  BY DEF Better, Wins
<1>14. \A s : s \in B <=> s \in Seeds /\ Better(m, s)
  BY DEF Beaten
<1>15. /\ \A s : s \in above <=> s \in Seeds /\ Wins(s) > Wins(m)
       /\ \A s : s \in below <=> s \in Seeds /\ Wins(s) < Wins(m)
  OBVIOUS
<1> HIDE DEF B, above, below
<1>5. below \subseteq B /\ B \subseteq Seeds /\ m \notin B
  <2>1. \A s \in below : s \in B
    BY <1>2, <1>3, <1>4, <1>14, <1>15
  <2>2. m \notin B
    BY <1>2, <1>3, <1>4, <1>14
  <2>3. QED
    BY <1>14, <2>1, <2>2
<1>6. above \subseteq (Seeds \ {m}) \ B
  <2>1. SUFFICES ASSUME NEW s \in above PROVE s \in (Seeds \ {m}) \ B
    OBVIOUS
  <2>2. s \in Seeds /\ Wins(s) > Wins(m) /\ Wins(s) \in Nat /\ Wins(m) \in Nat
    BY <1>2, <1>3, <1>15
  <2>3. ~(Wins(m) > Wins(s)) /\ Wins(m) # Wins(s) /\ s # m
    BY <2>2
  <2>4. QED
    BY <1>4, <1>14, <2>2, <2>3
<1>7. IsFiniteSet(B) /\ Cardinality(B) \in Nat
  BY <1>1, <1>5, FS_Subset, FS_CardinalityType
<1>8. Cardinality((Seeds \ {m}) \ B) = c - 1 - Half
  <2> DEFINE S == Seeds \ {m}
  <2>1. IsFiniteSet(S) /\ Cardinality(S) = c - 1
    BY <1>1, <1>2, FS_RemoveElement
  <2>2. B = S \cap B
    BY <1>5
  <2> HIDE DEF S, B
  <2>3. Cardinality(S \ B) = Cardinality(S) - Cardinality(S \cap B)
    BY <1>7, <2>1, FS_Difference
  <2>4. QED
    BY <1>2, <2>1, <2>2, <2>3 DEF S
<1>9. Cardinality(above) <= c - 1 - Half /\ Cardinality(above) \in Nat
  <2>1. IsFiniteSet((Seeds \ {m}) \ B)
    BY <1>1, FS_Subset
  <2>2. IsFiniteSet(above) /\ Cardinality(above) <= Cardinality((Seeds \ {m}) \ B)
    BY <1>6, <2>1, FS_Subset
  <2>3. Cardinality(above) \in Nat
    BY <2>2, FS_CardinalityType
  <2>4. QED
    BY <1>8, <2>2, <2>3
<1>10. Cardinality(below) <= Half /\ Cardinality(below) \in Nat
  BY <1>2, <1>5, <1>7, FS_Subset, FS_CardinalityType
<1>11. 2 * Half <= c /\ 2 * (c - 1 - Half) <= c /\ Half \in Nat
  BY <1>1, Z3 DEF Half
<1>12. 2 * Cardinality(above) <= c /\ 2 * Cardinality(below) <= c
  <2> HIDE DEF above, below, c
  <2>1. QED
    BY <1>1, <1>9, <1>10, <1>11
<1>13. QED
  BY <1>12 DEF m, above, below

-----------------------------------------------------------------------------
(***************************************************************************)
(* The episodes that are shown.                                            *)
(***************************************************************************)
LEMMA LeastIs == ASSUME NEW S, S \subseteq Nat, S # {} PROVE Least(S) \in S /\ \A x \in S : Least(S) <= x
BY LeastIsThere DEF Least

LEMMA PickIs ==
    ASSUME won \in [Which -> SUBSET EvalSeeds]
    PROVE  /\ Pick \in EvalSeeds
           /\ won[Median] \subseteq won[Base] \/ Pick \in won[Median] \ won[Base]
<1> DEFINE only == won[Median] \ won[Base]
<1>1. Median \in Seeds
  BY MedianIs
<1>2. only \subseteq EvalSeeds /\ EvalSeeds \subseteq Nat /\ 1 \in EvalSeeds
  BY <1>1 DEF EvalSeeds
<1>3. Pick = IF only # {} THEN Least(only) ELSE 1
  BY DEF Pick
<1>4. CASE only = {}
  BY <1>2, <1>3, <1>4
<1>5. CASE only # {}
  <2>1. Least(only) \in only
    BY <1>2, <1>5, LeastIs
  <2>2. QED
    BY <1>2, <1>3, <1>5, <2>1
<1>6. QED
  BY <1>4, <1>5

Shown == Least({Traced, Shared})

LEMMA TraceSeedsAre ==
    ASSUME won \in [Which -> SUBSET EvalSeeds]
    PROVE  /\ Shown \in Nat \ {0} /\ Len(TraceSeeds) = Shown /\ DOMAIN TraceSeeds = 1..Shown
           /\ TraceSeeds[1] = Pick
           /\ \A i, k \in 1..Shown : TraceSeeds[i] = TraceSeeds[k] => i = k
<1>1. Shown \in {Traced, Shared}
  <2>1. {Traced, Shared} \subseteq Nat /\ {Traced, Shared} # {}
    OBVIOUS
  <2>2. QED
    BY <2>1, LeastIs DEF Shown
<1>2. Shown \in Nat \ {0}
  BY <1>1
<1>3. Pick \in Nat
  BY PickIs DEF EvalSeeds
<1> DEFINE row == [i \in 1..Shown |-> IF i = 1 THEN Pick ELSE IF i - 1 < Pick THEN i - 1 ELSE i]
<1>4. TraceSeeds = row
  BY DEF TraceSeeds, Shown
<1>5. Len(row) = Shown /\ DOMAIN row = 1..Shown
  BY <1>2
<1>6. row[1] = Pick
  BY <1>2
<1>7. \A i, k \in 1..Shown : row[i] = row[k] => i = k
  BY <1>2, <1>3
<1>8. QED
  BY <1>2, <1>4, <1>5, <1>6, <1>7

\* The base and the median seed on each, one after the other.
LEMMA EachIsShownTwice ==
    ASSUME won \in [Which -> SUBSET EvalSeeds], traces = Both(Pick) \o TheOthers
    PROVE  /\ Len(traces) = 2 * Shown
           /\ \A i \in 1..Shown : /\ traces[2 * i] = Episode(Median, TraceSeeds[i])
                                  /\ traces[2 * i - 1] = Episode(Base, TraceSeeds[i])
<1> DEFINE L == Shown
           b == Both(Pick)
           row(m) == Both(TraceSeeds[((m + 1) \div 2) + 1])[((m + 1) % 2) + 1]
           r == [m \in 1..2 * (L - 1) |-> row(m)]
<1>1. L \in Nat \ {0} /\ Len(TraceSeeds) = L /\ TraceSeeds[1] = Pick
  BY TraceSeedsAre
<1>2. \A k : Both(k)[1] = Episode(Base, k) /\ Both(k)[2] = Episode(Median, k) /\ Len(Both(k)) = 2
  BY DEF Both
<1>3. traces = b \o r
  BY <1>1 DEF TheOthers
<1>4. \A k : DOMAIN Both(k) = 1..2
  BY DEF Both
<1>5. Len(r) = 2 * (L - 1) /\ DOMAIN r = 1..2 * (L - 1)
  BY <1>1
<1>6. \A m \in 1..2 * (L - 1) : r[m] = row(m)
  OBVIOUS
<1> HIDE DEF r, row, L, b
<1>7. /\ Len(b \o r) = Len(b) + Len(r)
      /\ \A m \in 1..Len(b) + Len(r) : (b \o r)[m] = IF m <= Len(b) THEN b[m] ELSE r[m - Len(b)]
  OBVIOUS
<1>8. Len(b) = 2 /\ b[1] = Episode(Base, Pick) /\ b[2] = Episode(Median, Pick)
  BY <1>2 DEF b
<1>9. Len(traces) = 2 * L
  BY <1>1, <1>3, <1>5, <1>7, <1>8
<1>10. ASSUME NEW i \in 1..L, i # 1
       PROVE  /\ traces[2 * i] = Episode(Median, TraceSeeds[i])
              /\ traces[2 * i - 1] = Episode(Base, TraceSeeds[i])
  <2>1. i \in Nat /\ i >= 2 /\ i <= L
    BY <1>1, <1>10
  <2>2. 2 * i - 2 \in 1..2 * (L - 1) /\ 2 * i - 3 \in 1..2 * (L - 1)
    BY <1>1, <2>1
  <2>3. traces[2 * i] = r[2 * i - 2] /\ traces[2 * i - 1] = r[2 * i - 3]
    <3>1. Len(b) + Len(r) = 2 * L /\ Len(b) = 2
      BY <1>1, <1>5, <1>8
    <3>2. 2 * i \in 1..2 * L /\ 2 * i - 1 \in 1..2 * L /\ ~(2 * i <= 2) /\ ~(2 * i - 1 <= 2)
      BY <1>1, <2>1
    <3>3. (b \o r)[2 * i] = r[2 * i - 2]
      BY <1>7, <3>1, <3>2
    <3>4. (b \o r)[2 * i - 1] = r[(2 * i - 1) - 2] /\ (2 * i - 1) - 2 = 2 * i - 3
      BY <1>7, <2>1, <3>1, <3>2
    <3>5. QED
      BY <1>3, <3>3, <3>4
  <2>4. (((2 * i - 2) + 1) \div 2) + 1 = i /\ (((2 * i - 2) + 1) % 2) + 1 = 2
    BY <2>1, Z3
  <2>5. (((2 * i - 3) + 1) \div 2) + 1 = i /\ (((2 * i - 3) + 1) % 2) + 1 = 1
    BY <2>1, Z3
  <2>6. r[2 * i - 2] = Both(TraceSeeds[i])[2] /\ r[2 * i - 3] = Both(TraceSeeds[i])[1]
    BY <1>6, <2>2, <2>4, <2>5 DEF row
  <2>7. QED
    BY <1>2, <2>3, <2>6
<1>11. traces[2 * 1] = Episode(Median, TraceSeeds[1]) /\ traces[2 * 1 - 1] = Episode(Base, TraceSeeds[1])
  BY <1>1, <1>3, <1>5, <1>7, <1>8
<1>12. QED
  BY <1>9, <1>10, <1>11 DEF L

LEMMA ShownIsTheSame == SeedEvalInv => ComparesTheSame
<1> SUFFICES ASSUME SeedEvalInv PROVE ComparesTheSame
  OBVIOUS
<1>1. WorkersSpeak /\ TracesFollow
  BY DEF SeedEvalInv
<1>2. won \in [Which -> SUBSET EvalSeeds]
  BY <1>1 DEF TracesFollow
<1>3. ASSUME epc = "done"
      PROVE  LET n == Len(traces) \div 2
                 those == [i \in 1..n |-> traces[2 * i]]
                 by == those[1].who
             IN  /\ \A w \in Which : ev[w] = "ok"
                 /\ n = Least({Traced, Shared}) /\ Len(traces) = 2 * n
                 /\ \A i \in 1..n : those[i].who = by /\ traces[2 * i - 1] = Episode(Base, those[i].seed)
                 /\ \A i, k \in 1..n : those[i].seed = those[k].seed => i = k
                 /\ 2 * Cardinality({s \in Seeds : Cardinality(won[s]) > Cardinality(won[by])})
                        <= Cardinality(Seeds)
                 /\ 2 * Cardinality({s \in Seeds : Cardinality(won[s]) < Cardinality(won[by])})
                        <= Cardinality(Seeds)
                 /\ won[by] \subseteq won[Base] \/ those[1].seed \in won[by] \ won[Base]
  <2> DEFINE n == Len(traces) \div 2
             those == [i \in 1..n |-> traces[2 * i]]
             by == those[1].who
  <2>1. traces = Both(Pick) \o TheOthers
    BY <1>1, <1>3 DEF TracesFollow
  <2>2. /\ Len(traces) = 2 * Shown
        /\ \A i \in 1..Shown : /\ traces[2 * i] = Episode(Median, TraceSeeds[i])
                               /\ traces[2 * i - 1] = Episode(Base, TraceSeeds[i])
    BY <1>2, <2>1, EachIsShownTwice
  <2>3. /\ Shown \in Nat \ {0} /\ TraceSeeds[1] = Pick
        /\ \A i, k \in 1..Shown : TraceSeeds[i] = TraceSeeds[k] => i = k
    BY <1>2, TraceSeedsAre
  <2>4. n = Shown /\ Len(traces) = 2 * n
    BY <2>2, <2>3, Z3
  <2>5. \A i \in 1..Shown : those[i] = Episode(Median, TraceSeeds[i])
    BY <2>2, <2>4
  <2> HIDE DEF n, those
  <2>6. \A i \in 1..n : those[i].who = Median /\ those[i].seed = TraceSeeds[i]
    <3>1. \A w, k : Episode(w, k).who = w /\ Episode(w, k).seed = k
      BY DEF Episode
    <3>2. QED
      BY <2>4, <2>5, <3>1
  <2>7. by = Median /\ those[1].seed = Pick
    BY <2>3, <2>4, <2>6
  <2> HIDE DEF by
  <2>8. \A i \in 1..n : those[i].who = by /\ traces[2 * i - 1] = Episode(Base, those[i].seed)
    BY <2>2, <2>4, <2>6, <2>7
  <2>9. \A i, k \in 1..n : those[i].seed = those[k].seed => i = k
    BY <2>3, <2>4, <2>6
  <2>10. /\ 2 * Cardinality({s \in Seeds : Cardinality(won[s]) > Cardinality(won[by])}) <= Cardinality(Seeds)
         /\ 2 * Cardinality({s \in Seeds : Cardinality(won[s]) < Cardinality(won[by])}) <= Cardinality(Seeds)
    BY <1>2, <2>7, HalfAreOnEachSide DEF Wins
  <2>11. won[by] \subseteq won[Base] \/ those[1].seed \in won[by] \ won[Base]
    BY <1>2, <2>7, PickIs
  <2>12. \A w \in Which : ev[w] = "ok"
    BY <1>1, <1>3 DEF WorkersSpeak, Shows
  <2>13. n = Least({Traced, Shared})
    BY <2>4 DEF Shown
  <2>14. QED
    BY <2>4, <2>8, <2>9, <2>10, <2>11, <2>12, <2>13 DEF n, those, by
<1>4. epc \in {"stopped", "failed"} => \A w \in Which : ev[w] = "run" => w \in signed
  BY <1>1 DEF WorkersSpeak
<1>5. QED
  BY <1>3, <1>4 DEF ComparesTheSame

(***************************************************************************)
(* A finished evaluation of lesson 19 shows the base and a median seed on  *)
(* the same episodes, for any number of seeds, workers that die and a      *)
(* video that fails at any moment.                                         *)
(***************************************************************************)
THEOREM TheSameIsCompared == SeedEvalSpec => []ComparesTheSame
<1>1. SeedEvalInv => ComparesTheSame
  BY ShownIsTheSame
<1>2. QED
  BY <1>1, SeedEvalInvariance, PTL
=============================================================================
