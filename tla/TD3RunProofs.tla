---------------------------- MODULE TD3RunProofs ----------------------------
(***************************************************************************)
(* Proofs about TD3Run, for any run length, intervals and score keys: no   *)
(* listed checkpoint is ever torn, the best evaluated policy is never      *)
(* lost, and a run that returned has saved all it trained and leaves at    *)
(* most two checkpoints.                                                   *)
(***************************************************************************)
EXTENDS TD3Run, CkptDirProofs, FiniteSetTheorems

USE RunAssumption, NamesAssumption DEF RunAssumption, NamesAssumption

PCs == {"loop", "poll", "eval", "save", "prune", "ended", "dead"}

\* The loop counter, the steps really taken and the last saved step.
LoopInv ==
    /\ {t, taken, savedT, best} \subseteq Nat
    /\ pc \in PCs /\ stopping \in {"no", "yes"}
    /\ savedT <= taken /\ taken <= t
    /\ pc \in {"loop", "eval"} => taken = t
    /\ pc = "poll" => taken + 1 = t
    /\ pc = "eval" => savedT < t
    /\ pc \in {"loop", "poll", "eval"} => stopping = "no"
    /\ pc \in {"save", "prune"} => saving.step = taken
    /\ pc \in {"save", "prune"} /\ stopping = "no" => taken = t
    /\ Saving => pc \in {"save", "dead"}

\* A save never takes the name of a listed file.
NamesInv ==
    /\ pc \in {"loop", "poll", "eval"}
         => \A i \in DOMAIN index : index[i].step <= savedT
    /\ pc = "save" /\ Saving
         => \A i \in DOMAIN index : index[i].step < saving.step
    /\ pc \in {"save", "prune"}
         => \A i \in DOMAIN index : index[i].step <= saving.step

\* Outside a prune every listed file is whole.
WholeInv ==
    /\ pc \notin {"prune", "dead"} => \A i \in DOMAIN index : Whole(index[i])
    /\ pc = "prune"
         => \A i \in DOMAIN index :
               \/ Whole(index[i])
               \/ index[i].step \notin DOMAIN files /\ index[i].step \notin keep
    /\ ListedNeverTorn

\* The newest "best" entry has the highest key of all that were listed.
NewestBest(w) == w \in Bests /\ \A b \in Bests : b <= w

Top(w) ==
    /\ NewestBest(w)
    /\ Whole(index[w])
    /\ index[w].model.eval \in Nat
    /\ \A key \in listed : key <= index[w].model.eval

BestInFlight == Saving /\ saving.label = "best"

BestInv ==
    /\ listed \subseteq Nat
    /\ saving.model.eval \in Nat
    /\ listed \subseteq {NoScore} \/ \E w \in DOMAIN index : Top(w)
    /\ pc # "dead" /\ ~BestInFlight
         => \/ best = NoScore /\ listed \subseteq {NoScore}
            \/ \E w \in DOMAIN index : Top(w) /\ index[w].model.eval = best
    /\ pc # "dead" /\ BestInFlight
         => saving.model.eval = best /\ \A key \in listed : key < best
    /\ pc # "dead" /\ Saving => saving.model.eval <= best
    /\ pc = "prune"
         => \A w \in DOMAIN index : NewestBest(w) => index[w].step \in keep

IInv == CkptBase /\ LoopInv /\ NamesInv /\ WholeInv /\ BestInv

LEMMA InvInit == Init => IInv
<1> SUFFICES ASSUME Init PROVE IInv
  OBVIOUS
<1>1. CkptBase
  BY CkptInitInv DEF Init, CkptInv
<1>2. /\ DOMAIN index = {} /\ saving.at = "idle" /\ saving.step = 0
      /\ saving.model = Model(0, NoScore)
  BY DEF Init, CkptInit
<1>3. LoopInv
  <2>1. {t, taken, savedT, best} \subseteq Nat
    BY DEF Init, NoScore
  <2>2. QED
    BY <1>2, <2>1 DEF Init, LoopInv, Saving, PCs
<1>4. NamesInv /\ WholeInv
  BY <1>2 DEF Init, NamesInv, WholeInv, ListedNeverTorn
<1>5. BestInv
  <2>1. saving.model.eval = 0
    BY <1>2 DEF Model, NoScore
  <2>2. QED
    BY <1>2, <2>1 DEF Init, BestInv, BestInFlight, Saving, NoScore
<1>6. QED
  BY <1>1, <1>3, <1>4, <1>5 DEF IInv

(***************************************************************************)
(* Steps that leave the checkpoint directory alone.                        *)
(***************************************************************************)
LEMMA CkptSame ==
    ASSUME IInv, UNCHANGED <<ckptVars, best, listed, keep>>,
           \/ pc' = pc
           \/ pc' = "dead"
           \/ pc \in {"loop", "poll"} /\ pc' \notin {"prune", "dead"}
    PROVE  CkptBase' /\ WholeInv' /\ BestInv'
<1> USE DEF IInv, ckptVars
<1>1. CkptBase'
  BY DEF CkptBase, SavingIsRecord
<1>2. \A i \in DOMAIN index : Whole(index[i])' <=> Whole(index[i])
  BY DEF Whole
<1>3. WholeInv'
  BY <1>2 DEF WholeInv, ListedNeverTorn
<1>4. \A w \in DOMAIN index : (Top(w)' <=> Top(w)) /\ (NewestBest(w)' <=> NewestBest(w))
  BY <1>2 DEF Top, NewestBest, Bests
<1>5. BestInFlight' = BestInFlight /\ Saving' = Saving
  BY DEF BestInFlight, Saving
<1>6. BestInv'
  BY <1>4, <1>5 DEF BestInv
<1>7. QED
  BY <1>1, <1>3, <1>6

(***************************************************************************)
(* The start of a save, from a poll or an evaluation.                      *)
(***************************************************************************)
LEMMA BeginSaveKeeps ==
    ASSUME IInv, pc \in {"poll", "eval"}, pc' = "save",
           NEW n \in Nat, NEW label, NEW m, BeginSave(n, label, m),
           \A i \in DOMAIN index : index[i].step < n,
           UNCHANGED <<listed, keep>>, m.eval \in Nat, best' \in Nat,
           \/ label = "best" /\ m.eval = best' /\ best < best'
           \/ label = "last" /\ m.eval <= best /\ best' = best
    PROVE  CkptBase' /\ NamesInv' /\ WholeInv' /\ BestInv' /\ saving'.step = n
<1>1. CkptBase /\ ~Saving /\ LoopInv
  BY DEF IInv, LoopInv
<1>2. /\ CkptBase' /\ Saving'
      /\ saving'.step = n /\ saving'.label = label /\ saving'.model = m
      /\ index' = index /\ saves' = saves
      /\ \A y \in DOMAIN files : y # n => y \in DOMAIN files' /\ files'[y] = files[y]
  BY <1>1, BeginSaveEffect
<1>3. \A i \in DOMAIN index : index[i].step \in Nat /\ index[i].step # n
  BY DEF IInv, CkptBase
<1>4. \A i \in DOMAIN index : Whole(index[i]) /\ Whole(index[i])'
  BY <1>2, <1>3 DEF IInv, WholeInv, Whole
<1>5. NamesInv'
  <2>1. \A i \in DOMAIN index' : index'[i].step < saving'.step /\ index'[i].step <= saving'.step
    BY <1>2, <1>3
  <2>2. QED
    BY <2>1 DEF NamesInv
<1>6. WholeInv'
  BY <1>2, <1>4 DEF WholeInv, ListedNeverTorn
<1>7. \A w \in DOMAIN index : Top(w)' <=> Top(w)
  BY <1>2, <1>4 DEF Top, NewestBest, Bests
<1>8. BestInv'
  <2>1. \/ best = NoScore /\ listed \subseteq {NoScore}
        \/ \E w \in DOMAIN index : Top(w) /\ index[w].model.eval = best
    BY <1>1 DEF IInv, BestInv, BestInFlight
  <2>2. listed \subseteq Nat /\ best \in Nat
    BY <1>1 DEF IInv, BestInv, LoopInv
  <2>3. CASE label = "best" /\ m.eval = best' /\ best < best'
    <3>1. \A key \in listed : key < best'
      <4> TAKE key \in listed
      <4> key \in Nat /\ best \in Nat /\ best' \in Nat /\ best < best'
        BY <2>2, <2>3
      <4>1. key <= best
        <5>1. CASE listed \subseteq {NoScore}
          BY <5>1 DEF NoScore
        <5>2. CASE \E w \in DOMAIN index : Top(w) /\ index[w].model.eval = best
          BY <5>2 DEF Top
        <5>3. QED
          BY <2>1, <5>1, <5>2
      <4>2. QED
        BY <4>1
    <3>2. listed \subseteq {NoScore} \/ \E w \in DOMAIN index : Top(w)
      BY <2>1
    <3>3. QED
      BY <1>2, <1>7, <2>2, <2>3, <3>1, <3>2 DEF BestInv, BestInFlight
  <2>4. CASE label = "last" /\ m.eval <= best /\ best' = best
    BY <1>2, <1>7, <2>1, <2>2, <2>4 DEF BestInv, BestInFlight
  <2>5. QED
    BY <2>3, <2>4
<1>9. QED
  BY <1>2, <1>5, <1>6, <1>8

(***************************************************************************)
(* A file operation of a save.  The last one lists the new checkpoint: it  *)
(* is the new top if it is a "best", and below the top otherwise.          *)
(***************************************************************************)
LEMMA SaveKeeps ==
    ASSUME IInv, ContinueSave
    PROVE  IInv'
<1> /\ CkptBase /\ LoopInv /\ NamesInv /\ WholeInv /\ BestInv
    /\ pc = "save" /\ SaveStep
  BY DEF IInv, ContinueSave
<1>1. UNCHANGED <<t, pc, stopping, control, best, savedT, taken, keep>>
  BY DEF ContinueSave
<1>2. /\ CkptBase' /\ Saving
      /\ saving'.step = saving.step /\ saving'.label = saving.label
      /\ saving'.model = saving.model
  BY SaveStepEffect
<1>3. LoopInv'
  BY <1>1, <1>2 DEF LoopInv
<1>4. \A i \in DOMAIN index : index[i].step \in Nat /\ index[i].step < saving.step
  BY <1>2 DEF NamesInv, CkptBase
<1>5. ASSUME NEW i \in DOMAIN index
      PROVE  index[i].step # saving.step /\ index[i].step # LastPt
  <2>1. index[i].step \in Nat /\ index[i].step < saving.step /\ saving.step \in Nat
    BY <1>4 DEF CkptBase
  <2>2. index[i].step # saving.step
    BY <2>1
  <2>3. index[i].step # LastPt
    BY <2>1
  <2>4. QED
    BY <2>2, <2>3
<1>6. \A i \in DOMAIN index : Whole(index[i])
  BY DEF WholeInv
<1>7. listed \subseteq Nat /\ saving.model.eval \in Nat /\ best \in Nat
  BY DEF BestInv, LoopInv
<1>8. CASE Saving'
  <2>1. /\ index' = index /\ saves' = saves
        /\ \A y \in DOMAIN files : y # saving.step /\ y # LastPt
              => y \in DOMAIN files' /\ files'[y] = files[y]
    BY <1>8, SaveStepEffect
  <2>2. \A i \in DOMAIN index : Whole(index[i])'
    BY <1>5, <1>6, <2>1 DEF Whole
  <2>3. NamesInv'
    BY <1>1, <1>2, <1>8, <2>1 DEF NamesInv
  <2>4. WholeInv'
    BY <1>1, <2>1, <2>2 DEF WholeInv, ListedNeverTorn
  <2>5. \A w \in DOMAIN index : Top(w)' <=> Top(w)
    BY <1>6, <1>8, <2>1, <2>2 DEF Top, NewestBest, Bests, ContinueSave
  <2>6. BestInv'
    BY <1>1, <1>2, <1>8, <2>1, <2>5 DEF BestInv, BestInFlight, ContinueSave
  <2>7. QED
    BY <1>2, <1>3, <2>3, <2>4, <2>6 DEF IInv
<1>9. CASE ~Saving'
  <2>0. PICK new \in Nat : new = saves + 1
    BY DEF CkptBase
  <2>1. /\ Whole(Entry) /\ files' = files /\ saves' = new /\ new \notin DOMAIN index
        /\ DOMAIN index' = DOMAIN index \cup {new}
        /\ index'[new] = Entry
        /\ \A i \in DOMAIN index : index'[i] = index[i]
    BY <1>9, <2>0, SaveStepEffect
  <2>2. listed' = listed \cup {saving.model.eval}
    BY <1>9 DEF ContinueSave
  <2>3. \A i \in DOMAIN index : Whole(index[i])' /\ i <= new
    BY <1>6, <2>0, <2>1 DEF Whole, CkptBase
  <2>4. /\ Whole(index[new])' /\ index'[new].label = saving.label
        /\ index'[new].model = saving.model
    <3>1. /\ index'[new].step = saving.step /\ index'[new].model = saving.model
          /\ index'[new].label = saving.label
      BY <2>1 DEF Entry
    <3>2. saving.step \in DOMAIN files /\ files[saving.step] = saving.model
      BY <2>1 DEF Whole, Entry
    <3>3. QED
      BY <2>1, <3>1, <3>2 DEF Whole
  <2>5. NamesInv'
    <3>1. \A i \in DOMAIN index' : index'[i].step <= saving'.step
      BY <1>2, <1>4, <2>1 DEF CkptBase, Entry
    <3>2. QED
      BY <1>1, <1>9, <3>1 DEF NamesInv
  <2>6. WholeInv'
    <3>1. ASSUME NEW i \in DOMAIN index' PROVE Whole(index[i])'
      BY <2>1, <2>3, <2>4
    <3>2. QED
      BY <1>1, <3>1 DEF WholeInv, ListedNeverTorn
  <2>7. ~BestInFlight' /\ pc' = "save" /\ best' = best /\ saving'.model.eval \in Nat
        /\ listed' \subseteq Nat
    BY <1>1, <1>2, <1>7, <1>9, <2>2 DEF BestInFlight
  <2>8. CASE saving.label = "best"
    <3>1. saving.model.eval = best /\ \A key \in listed : key < best
      BY <1>2, <2>8 DEF BestInv, BestInFlight
    <3>2. index'[new].model.eval = best /\ new \in Bests'
      BY <2>1, <2>4, <2>8, <3>1 DEF Bests
    <3>3. \A b \in Bests' : b <= new
      BY <2>1, <2>3 DEF Bests
    <3>4. \A key \in listed' : key <= best
      BY <1>7, <2>2, <3>1
    <3>5. Top(new)'
      BY <1>7, <2>4, <3>2, <3>3, <3>4 DEF Top, NewestBest
    <3>6. \E w \in DOMAIN index' : Top(w)' /\ index'[w].model.eval = best'
      BY <2>1, <2>7, <3>2, <3>5
    <3>7. BestInv'
      BY <1>2, <2>7, <3>6 DEF BestInv
    <3>8. QED
      BY <1>2, <1>3, <2>5, <2>6, <3>7 DEF IInv
  <2>9. CASE saving.label # "best"
    <3>1. saving.model.eval <= best
      BY <1>2 DEF BestInv
    <3>2. Bests' = Bests
      BY <2>1, <2>9 DEF Bests, Entry
    <3>3. \A w \in DOMAIN index :
             Top(w) /\ index[w].model.eval = best => Top(w)' /\ index'[w].model.eval = best
      BY <1>7, <2>1, <2>2, <2>3, <3>1, <3>2 DEF Top, NewestBest
    <3>4. \/ best = NoScore /\ listed \subseteq {NoScore}
          \/ \E w \in DOMAIN index : Top(w) /\ index[w].model.eval = best
      BY <2>9 DEF BestInv, BestInFlight
    <3>5. CASE best = NoScore /\ listed \subseteq {NoScore}
      <4>1. listed' \subseteq {NoScore}
        <5>1. saving.model.eval = NoScore
          BY <1>7, <3>1, <3>5 DEF NoScore
        <5>2. QED
          BY <2>2, <3>5, <5>1
      <4>2. BestInv'
        BY <1>9, <2>7, <3>5, <4>1 DEF BestInv
      <4>3. QED
        BY <1>2, <1>3, <2>5, <2>6, <4>2 DEF IInv
    <3>6. CASE \E w \in DOMAIN index : Top(w) /\ index[w].model.eval = best
      <4>1. \E w \in DOMAIN index' : Top(w)' /\ index'[w].model.eval = best'
        BY <2>1, <2>7, <3>3, <3>6
      <4>2. BestInv'
        BY <1>9, <2>7, <4>1 DEF BestInv
      <4>3. QED
        BY <1>2, <1>3, <2>5, <2>6, <4>2 DEF IInv
    <3>7. QED
      BY <3>4, <3>5, <3>6
  <2>10. QED
    BY <2>8, <2>9
<1>10. QED
  BY <1>8, <1>9

(***************************************************************************)
(* The prune: what it spares includes the top entry, so neither a removed  *)
(* file nor the rewritten index takes it away.                             *)
(***************************************************************************)
LEMMA PruneBeginsKeeps ==
    ASSUME IInv, PruneBegins
    PROVE  IInv'
<1> /\ CkptBase /\ LoopInv /\ NamesInv /\ WholeInv /\ BestInv
    /\ pc = "save" /\ ~Saving /\ pc' = "prune" /\ keep' = ToKeep
  BY DEF IInv, PruneBegins
<1>1. UNCHANGED <<t, stopping, control, best, savedT, taken, listed, ckptVars>>
  BY DEF PruneBegins
<1>2. UNCHANGED <<files, index, saves, saving>>
  BY <1>1 DEF ckptVars
<1>3. CkptBase'
  BY <1>2 DEF CkptBase, SavingIsRecord
<1>4. Saving' = Saving /\ BestInFlight' = BestInFlight
  BY <1>2 DEF Saving, BestInFlight
<1>5. LoopInv'
  BY <1>1, <1>2, <1>4 DEF LoopInv, PCs
<1>6. NamesInv'
  BY <1>2, <1>4 DEF NamesInv
<1>7. \A i \in DOMAIN index : Whole(index[i])'
  BY <1>2 DEF WholeInv, Whole
<1>8. WholeInv'
  BY <1>2, <1>7 DEF WholeInv, ListedNeverTorn
<1>9. \A w \in DOMAIN index : Top(w)' <=> Top(w)
  BY <1>1, <1>2 DEF Top, NewestBest, Bests, Whole
<1>10. \A w \in DOMAIN index : NewestBest(w)' => index[w].step \in keep'
  BY <1>2 DEF NewestBest, Bests, ToKeep
<1>11. BestInv'
  BY <1>1, <1>2, <1>4, <1>9, <1>10 DEF BestInv
<1>12. QED
  BY <1>3, <1>5, <1>6, <1>8, <1>11 DEF IInv

LEMMA UnlinkKeeps ==
    ASSUME IInv, Unlink
    PROVE  IInv'
<1> /\ CkptBase /\ LoopInv /\ NamesInv /\ WholeInv /\ BestInv /\ pc = "prune"
  BY DEF IInv, Unlink
<1>1. PICK n \in Listed \ keep :
         files' = [m \in DOMAIN files \ {n} |-> files[m]]
  BY DEF Unlink, Pruned
<1>2. /\ UNCHANGED <<t, pc, stopping, control, best, savedT, taken, keep, listed>>
      /\ UNCHANGED <<index, saves, saving>>
  BY DEF Unlink, runVars
<1>3. ~Saving /\ Saving' = Saving /\ BestInFlight' = BestInFlight
  BY <1>2 DEF LoopInv, Saving, BestInFlight
<1>4. CkptBase'
  BY <1>2, <1>3 DEF CkptBase, SavingIsRecord, Saving
<1>5. LoopInv' /\ NamesInv'
  BY <1>2, <1>3 DEF LoopInv, NamesInv
<1>6. ASSUME NEW i \in DOMAIN index
      PROVE  /\ index[i].step \in keep /\ Whole(index[i]) => Whole(index[i])'
             /\ \/ Whole(index[i])'
                \/ index[i].step \notin DOMAIN files' /\ index[i].step \notin keep
  <2>1. \/ Whole(index[i])
        \/ index[i].step \notin DOMAIN files /\ index[i].step \notin keep
    BY DEF WholeInv
  <2>2. index'[i] = index[i]
    BY <1>2
  <2>3. CASE index[i].step = n
    BY <1>1, <2>3
  <2>4. CASE index[i].step # n /\ Whole(index[i])
    BY <1>1, <2>2, <2>4 DEF Whole
  <2>5. CASE index[i].step \notin DOMAIN files /\ index[i].step \notin keep
    BY <1>1, <2>5
  <2>6. QED
    BY <2>1, <2>3, <2>4, <2>5
<1>7. WholeInv'
  BY <1>2, <1>6 DEF WholeInv, ListedNeverTorn
<1>8. \A w \in DOMAIN index : Top(w) => Top(w)'
  BY <1>2, <1>6 DEF Top, NewestBest, Bests, BestInv
<1>9. \A w \in DOMAIN index : NewestBest(w)' <=> NewestBest(w)
  BY <1>2 DEF NewestBest, Bests
<1>10. BestInv'
  BY <1>2, <1>3, <1>8, <1>9 DEF BestInv
<1>11. QED
  BY <1>4, <1>5, <1>7, <1>10 DEF IInv

LEMMA PruneEndsKeeps ==
    ASSUME IInv, PruneEnds
    PROVE  IInv'
<1> /\ CkptBase /\ LoopInv /\ NamesInv /\ WholeInv /\ BestInv /\ pc = "prune"
  BY DEF IInv, PruneEnds
<1> DEFINE Kept == {k \in DOMAIN index : index[k].step \in keep}
<1>1. /\ UNCHANGED <<t, stopping, control, best, taken, keep, listed>>
      /\ UNCHANGED <<files, saves, saving>>
      /\ index' = [i \in Kept |-> index[i]]
      /\ \/ stopping = "yes" /\ pc' = "ended" /\ UNCHANGED savedT
         \/ stopping = "no" /\ pc' = "loop" /\ savedT' = t
  BY DEF PruneEnds, LoopInv
<1>2. ~Saving /\ Saving' = Saving /\ BestInFlight' = BestInFlight
  BY <1>1 DEF LoopInv, Saving, BestInFlight
<1>3. DOMAIN index' = Kept /\ \A i \in Kept : index'[i] = index[i]
  BY <1>1
<1>4. CkptBase'
  BY <1>1, <1>2, <1>3 DEF CkptBase, SavingIsRecord, Saving
<1>5. LoopInv'
  BY <1>1, <1>2 DEF LoopInv, PCs
<1>6. NamesInv'
  BY <1>1, <1>2, <1>3 DEF NamesInv, LoopInv
<1>7. ASSUME NEW i \in Kept PROVE Whole(index[i]) /\ Whole(index[i])'
  <2>1. Whole(index[i])
    BY DEF WholeInv
  <2>2. QED
    BY <1>1, <1>3, <2>1 DEF Whole
<1>8. WholeInv'
  BY <1>1, <1>3, <1>7 DEF WholeInv, ListedNeverTorn
<1>9. \A w \in DOMAIN index :
         Top(w) => w \in Kept /\ Top(w)' /\ index'[w].model = index[w].model
  <2>1. \A w \in DOMAIN index : Top(w) => w \in Kept
    BY DEF Top, BestInv
  <2>2. Bests' \subseteq Bests /\ \A w \in Kept : w \in Bests => w \in Bests'
    BY <1>3 DEF Bests
  <2>3. QED
    BY <1>1, <1>3, <1>7, <2>1, <2>2 DEF Top, NewestBest
<1>10. BestInv'
  BY <1>1, <1>2, <1>3, <1>9 DEF BestInv
<1>11. QED
  BY <1>4, <1>5, <1>6, <1>8, <1>10 DEF IInv

(***************************************************************************)
(* The loop's own steps, and the process's end.                            *)
(***************************************************************************)
LEMMA LoopKeeps ==
    ASSUME IInv, AskStop \/ LoopStep \/ EnvStep \/ Killed
    PROVE  IInv'
<1>1. /\ CkptBase' /\ WholeInv' /\ BestInv'
  <2>1. UNCHANGED <<ckptVars, best, listed, keep>>
    BY DEF AskStop, LoopStep, EnvStep, Killed
  <2>2. \/ pc' = pc
        \/ pc' = "dead"
        \/ pc \in {"loop", "poll"} /\ pc' \notin {"prune", "dead"}
    BY DEF AskStop, LoopStep, EnvStep, Killed
  <2>3. QED
    BY <2>1, <2>2, CkptSame
<1>2. LoopInv' /\ NamesInv'
  <2> UNCHANGED <<files, index, saves, saving>> /\ Saving' = Saving
    BY DEF AskStop, LoopStep, EnvStep, Killed, ckptVars, Saving
  <2> /\ LoopInv /\ NamesInv
    BY DEF IInv
  <2>1. CASE AskStop
    BY <2>1 DEF AskStop, LoopInv, NamesInv
  <2>2. CASE LoopStep
    BY <2>2 DEF LoopStep, LoopInv, NamesInv, PCs
  <2>3. CASE EnvStep
    BY <2>3 DEF EnvStep, LoopInv, NamesInv, PCs
  <2>4. CASE Killed
    BY <2>4 DEF Killed, LoopInv, NamesInv, PCs
  <2>5. QED
    BY <2>1, <2>2, <2>3, <2>4
<1>3. QED
  BY <1>1, <1>2 DEF IInv

LEMMA SaveBegins ==
    ASSUME IInv, StopAtPoll \/ StopInEval \/ Evaluate
    PROVE  IInv'
<1> /\ CkptBase /\ LoopInv /\ NamesInv /\ WholeInv /\ BestInv
  BY DEF IInv
<1>1. CASE StopAtPoll /\ t > 1 /\ savedT # t - 1
  <2> DEFINE n == t - 1  m == Model(t - 1, NoScore)
  <2>1. /\ pc = "poll" /\ pc' = "save" /\ stopping' = "yes"
        /\ BeginSave(n, "last", m)
        /\ UNCHANGED <<t, control, best, savedT, taken, keep, listed>>
    BY <1>1 DEF StopAtPoll
  <2>2. /\ n \in Nat /\ n = taken /\ m.eval \in Nat /\ m.eval <= best /\ best \in Nat
        /\ \A i \in DOMAIN index : index[i].step < n
    <3>1. n \in Nat /\ n = taken /\ savedT < n /\ {best, savedT} \subseteq Nat
      BY <1>1, <2>1 DEF LoopInv
    <3>2. \A i \in DOMAIN index : index[i].step \in Nat /\ index[i].step <= savedT
      BY <2>1 DEF NamesInv, CkptBase
    <3>3. m.eval = 0
      BY DEF Model, NoScore
    <3>4. QED
      BY <3>1, <3>2, <3>3
  <2> HIDE DEF n, m
  <2>3. CkptBase' /\ NamesInv' /\ WholeInv' /\ BestInv' /\ saving'.step = n
    BY <2>1, <2>2, BeginSaveKeeps
  <2>4. LoopInv'
    BY <2>1, <2>2, <2>3 DEF LoopInv, PCs
  <2>5. QED
    BY <2>3, <2>4 DEF IInv
<1>2. CASE StopAtPoll /\ ~(t > 1 /\ savedT # t - 1)
  <2>1. /\ pc = "poll" /\ pc' = "ended" /\ stopping' = "yes" /\ UNCHANGED ckptVars
        /\ UNCHANGED <<t, control, best, savedT, taken, keep, listed>>
    BY <1>2 DEF StopAtPoll
  <2>2. CkptBase' /\ WholeInv' /\ BestInv'
    BY <2>1, CkptSame
  <2>3. LoopInv' /\ NamesInv'
    BY <2>1 DEF LoopInv, NamesInv, PCs, ckptVars, Saving
  <2>4. QED
    BY <2>2, <2>3 DEF IInv
<1>3. CASE StopInEval
  <2> DEFINE m == Model(t, NoScore)
  <2>1. /\ pc = "eval" /\ pc' = "save" /\ stopping' = "yes"
        /\ BeginSave(t, "last", m)
        /\ UNCHANGED <<t, control, best, savedT, taken, keep, listed>>
    BY <1>3 DEF StopInEval
  <2>2. /\ t \in Nat /\ t = taken /\ m.eval \in Nat /\ m.eval <= best /\ best \in Nat
        /\ \A i \in DOMAIN index : index[i].step < t
    <3>1. t \in Nat /\ t = taken /\ savedT < t /\ {best, savedT} \subseteq Nat
      BY <2>1 DEF LoopInv
    <3>2. \A i \in DOMAIN index : index[i].step \in Nat /\ index[i].step <= savedT
      BY <2>1 DEF NamesInv, CkptBase
    <3>3. m.eval = 0
      BY DEF Model, NoScore
    <3>4. QED
      BY <3>1, <3>2, <3>3
  <2> HIDE DEF m
  <2>3. CkptBase' /\ NamesInv' /\ WholeInv' /\ BestInv' /\ saving'.step = t
    BY <2>1, <2>2, BeginSaveKeeps
  <2>4. LoopInv'
    BY <2>1, <2>2, <2>3 DEF LoopInv, PCs
  <2>5. QED
    BY <2>3, <2>4 DEF IInv
<1>4. CASE Evaluate
  <2>1. PICK key \in Scores :
           /\ best' = IF key > best THEN key ELSE best
           /\ BeginSave(t, IF key > best THEN "best" ELSE "last", Model(t, key))
    BY <1>4 DEF Evaluate
  <2>2. /\ pc = "eval" /\ pc' = "save"
        /\ UNCHANGED <<t, stopping, control, savedT, taken, keep, listed>>
    BY <1>4 DEF Evaluate
  <2> DEFINE m == Model(t, key)  label == IF key > best THEN "best" ELSE "last"
  <2>3. t \in Nat /\ t = taken /\ \A i \in DOMAIN index : index[i].step < t
    <3>1. t \in Nat /\ t = taken /\ savedT < t /\ savedT \in Nat
      BY <2>2 DEF LoopInv
    <3>2. \A i \in DOMAIN index : index[i].step \in Nat /\ index[i].step <= savedT
      BY <2>2 DEF NamesInv, CkptBase
    <3>3. QED
      BY <3>1, <3>2
  <2>4. /\ m.eval = key /\ key \in Nat /\ best \in Nat
    BY DEF Model, LoopInv
  <2>5. /\ m.eval \in Nat /\ best' \in Nat
        /\ \/ label = "best" /\ m.eval = best' /\ best < best'
           \/ label = "last" /\ m.eval <= best /\ best' = best
    <3>1. CASE key > best
      BY <2>1, <2>4, <3>1
    <3>2. CASE ~(key > best)
      BY <2>1, <2>4, <3>2
    <3>3. QED
      BY <3>1, <3>2
  <2>6. BeginSave(t, label, m)
    BY <2>1
  <2> HIDE DEF m, label
  <2>7. CkptBase' /\ NamesInv' /\ WholeInv' /\ BestInv' /\ saving'.step = t
    BY <2>2, <2>3, <2>5, <2>6, BeginSaveKeeps
  <2>8. LoopInv'
    BY <2>2, <2>3, <2>5, <2>7 DEF LoopInv, PCs
  <2>9. QED
    BY <2>7, <2>8 DEF IInv
<1>5. QED
  BY <1>1, <1>2, <1>3, <1>4

LEMMA StepInv == IInv /\ [Next]_vars => IInv'
<1> SUFFICES ASSUME IInv, [Next]_vars PROVE IInv'
  OBVIOUS
<1>1. CASE AskStop \/ LoopStep \/ EnvStep \/ Killed
  BY <1>1, LoopKeeps
<1>2. CASE StopAtPoll \/ StopInEval \/ Evaluate
  BY <1>2, SaveBegins
<1>3. CASE ContinueSave
  BY <1>3, SaveKeeps
<1>4. CASE PruneBegins
  BY <1>4, PruneBeginsKeeps
<1>5. CASE Unlink
  BY <1>5, UnlinkKeeps
<1>6. CASE PruneEnds
  BY <1>6, PruneEndsKeeps
<1>7. CASE UNCHANGED vars
  <2>1. CkptBase' /\ WholeInv' /\ BestInv'
    BY <1>7, CkptSame DEF vars, runVars
  <2>2. LoopInv' /\ NamesInv'
    BY <1>7 DEF IInv, vars, runVars, ckptVars, LoopInv, NamesInv, Saving
  <2>3. QED
    BY <2>1, <2>2 DEF IInv
<1>8. QED
  BY <1>1, <1>2, <1>3, <1>4, <1>5, <1>6, <1>7 DEF Next

LEMMA Invariance == Spec => []IInv
<1>1. Init => IInv
  BY InvInit
<1>2. IInv /\ [Next]_vars => IInv'
  BY StepInv
<1>3. QED
  BY <1>1, <1>2, PTL DEF Spec

(***************************************************************************)
(* No listed checkpoint is ever torn: a listed file is whole until the     *)
(* prune has removed it, whatever the lengths, intervals and scores, and   *)
(* wherever the process dies.                                              *)
(***************************************************************************)
THEOREM NeverTorn == Spec => []ListedNeverTorn
<1>1. IInv => ListedNeverTorn
  BY DEF IInv, WholeInv
<1>2. QED
  BY <1>1, Invariance, PTL

(***************************************************************************)
(* The best evaluated policy is never lost: once any evaluation was listed,*)
(* an intact listed "best" checkpoint has the highest key of them all.     *)
(***************************************************************************)
THEOREM BestSurvives == Spec => []BestIsKept
<1>1. IInv => BestIsKept
  <2> SUFFICES ASSUME IInv, listed \ {NoScore} # {}
      PROVE  \E i \in DOMAIN index :
                /\ index[i].label = "best" /\ Whole(index[i])
                /\ \A key \in listed : index[i].model.eval >= key
    BY DEF BestIsKept
  <2>1. PICK w \in DOMAIN index : Top(w)
    BY DEF IInv, BestInv
  <2>2. /\ index[w].label = "best" /\ Whole(index[w])
        /\ \A key \in listed : key <= index[w].model.eval
    BY <2>1 DEF Top, NewestBest, Bests
  <2>3. QED
    BY <2>2
<1>2. QED
  BY <1>1, Invariance, PTL

(***************************************************************************)
(* What a returned run leaves.  The directory is tidy: the files are the   *)
(* listed ones, last.pt is the newest, and a prune spares the new file and *)
(* one more.                                                               *)
(***************************************************************************)
EndInv ==
    /\ t <= EnvSteps
    /\ pc = "loop" /\ t = EnvSteps => savedT = t

StepsDiffer ==
    \A i, k \in DOMAIN index : index[i].step = index[k].step => i = k

NoStray ==
    pc # "dead" =>
        \A n \in DOMAIN files :
            n # LastPt => n \in Listed \/ (Saving /\ n = saving.step)

Current(n) ==
    /\ saves \in DOMAIN index /\ Newest.step = n
    /\ LastPt \in DOMAIN files /\ files[LastPt] = Newest.model

NewestInv ==
    /\ pc \in {"loop", "poll", "eval"} /\ savedT > 0 => Current(savedT)
    /\ pc = "ended" /\ taken > 0 => Current(taken)
    /\ pc \in {"save", "prune"} /\ ~Saving => Current(saving.step)
    /\ pc = "save" /\ saving.at = "lasted"
         => LastPt \in DOMAIN files /\ files[LastPt] = saving.model

FewInv ==
    /\ pc \in {"loop", "poll", "eval", "ended"}
         => \E a, c \in Nat : DOMAIN index \subseteq {a, c}
    /\ pc = "prune"
         => saving.step \in keep /\ \E b \in Nat : keep \subseteq {saving.step, b}

TidyInv == EndInv /\ StepsDiffer /\ NoStray /\ NewestInv /\ FewInv

LEMMA TidyInit == Init => TidyInv
<1> SUFFICES ASSUME Init PROVE TidyInv
  OBVIOUS
<1>1. /\ DOMAIN index = {} /\ DOMAIN files = {} /\ t = 0 /\ pc = "loop" /\ savedT = 0
  BY DEF Init, CkptInit
<1>2. QED
  BY <1>1 DEF TidyInv, EndInv, StepsDiffer, NoStray, NewestInv, FewInv

(***************************************************************************)
(* The loop's own steps.  It ends at the last environment step, where an   *)
(* evaluation has just been saved.                                         *)
(***************************************************************************)
LEMMA LoopTidy ==
    ASSUME IInv, TidyInv, AskStop \/ LoopStep \/ EnvStep \/ Killed \/ UNCHANGED vars
    PROVE  TidyInv'
<1> /\ LoopInv /\ EndInv /\ StepsDiffer /\ NoStray /\ NewestInv /\ FewInv
  BY DEF IInv, TidyInv
<1>1. UNCHANGED <<files, index, saves, saving>> /\ UNCHANGED <<keep, savedT>>
  BY DEF AskStop, LoopStep, EnvStep, Killed, vars, runVars, ckptVars
<1>2. Saving' = Saving /\ Listed' = Listed /\ \A n : Current(n)' = Current(n)
  BY <1>1 DEF Saving, Listed, Current, Newest
<1>3. StepsDiffer'
  BY <1>1 DEF StepsDiffer
<1>4. CASE AskStop \/ UNCHANGED vars
  <2>1. UNCHANGED <<t, pc, taken>>
    BY <1>4 DEF AskStop, vars, runVars
  <2>2. EndInv' /\ NoStray' /\ NewestInv' /\ FewInv'
    BY <1>1, <1>2, <2>1 DEF EndInv, NoStray, NewestInv, FewInv
  <2>3. QED
    BY <1>3, <2>2 DEF TidyInv
<1>5. CASE LoopStep
  <2>1. /\ pc = "loop" /\ UNCHANGED taken
        /\ \/ t < EnvSteps /\ t' = t + 1 /\ pc' = "poll"
           \/ t >= EnvSteps /\ t' = t /\ pc' = "ended" /\ taken = savedT
    <3>1. t \in Nat /\ taken = t /\ t <= EnvSteps
      BY <1>5 DEF LoopStep, LoopInv, EndInv
    <3>2. QED
      BY <1>5, <3>1 DEF LoopStep, EndInv
  <2>2. EndInv' /\ NoStray' /\ NewestInv' /\ FewInv'
    BY <1>1, <1>2, <2>1 DEF EndInv, NoStray, NewestInv, FewInv, LoopInv
  <2>3. QED
    BY <1>3, <2>2 DEF TidyInv
<1>6. CASE EnvStep
  <2>1. /\ pc = "poll" /\ t' = t /\ taken' = t
        /\ \/ pc' = "eval"
           \/ pc' = "loop" /\ t # EnvSteps
    BY <1>6 DEF EnvStep
  <2>2. EndInv' /\ NoStray' /\ NewestInv' /\ FewInv'
    BY <1>1, <1>2, <2>1 DEF EndInv, NoStray, NewestInv, FewInv
  <2>3. QED
    BY <1>3, <2>2 DEF TidyInv
<1>7. CASE Killed
  <2>1. pc' = "dead" /\ t' = t
    BY <1>7 DEF Killed
  <2>2. EndInv' /\ NoStray' /\ NewestInv' /\ FewInv'
    BY <2>1 DEF EndInv, NoStray, NewestInv, FewInv
  <2>3. QED
    BY <1>3, <2>2 DEF TidyInv
<1>8. QED
  BY <1>4, <1>5, <1>6, <1>7

(***************************************************************************)
(* A save begins, or a stop finds everything saved already.                *)
(***************************************************************************)
LEMMA BeginTidy ==
    ASSUME IInv, TidyInv, StopAtPoll \/ StopInEval \/ Evaluate
    PROVE  TidyInv'
<1> /\ LoopInv /\ EndInv /\ StepsDiffer /\ NoStray /\ NewestInv /\ FewInv
  BY DEF IInv, TidyInv
<1>1. UNCHANGED <<t, savedT, taken, keep, index, saves>>
  BY DEF StopAtPoll, StopInEval, Evaluate, BeginSave, ckptVars
<1>2. StepsDiffer' /\ Listed' = Listed
  BY <1>1 DEF StepsDiffer, Listed
<1>3. CASE \E n, label, m : BeginSave(n, label, m) /\ pc' = "save" /\ pc # "dead"
  <2>1. PICK n, label, m : BeginSave(n, label, m) /\ pc' = "save" /\ pc # "dead"
    BY <1>3
  <2>2. /\ saving'.at = "file" /\ saving'.step = n
        /\ DOMAIN files' = DOMAIN files \cup {n}
    BY <2>1 DEF BeginSave, Put
  <2>3. ~Saving
    BY <2>1 DEF LoopInv, StopAtPoll, StopInEval, Evaluate
  <2>4. NoStray'
    BY <1>2, <2>1, <2>2, <2>3 DEF NoStray, Saving
  <2>5. EndInv' /\ NewestInv' /\ FewInv'
    BY <1>1, <2>1, <2>2 DEF EndInv, NewestInv, FewInv, Saving
  <2>6. QED
    BY <1>2, <2>4, <2>5 DEF TidyInv
<1>4. CASE ~\E n, label, m : BeginSave(n, label, m) /\ pc' = "save" /\ pc # "dead"
  <2>1. /\ pc = "poll" /\ pc' = "ended" /\ UNCHANGED <<files, saving>>
        /\ ~(t > 1 /\ savedT # t - 1)
    BY <1>4 DEF StopAtPoll, StopInEval, Evaluate, ckptVars
  <2>2. taken > 0 => savedT = taken
    BY <2>1 DEF LoopInv
  <2>3. Saving' = Saving /\ \A n : Current(n)' = Current(n)
    BY <1>1, <2>1 DEF Saving, Current, Newest
  <2>4. EndInv' /\ NoStray' /\ NewestInv' /\ FewInv'
    BY <1>1, <1>2, <2>1, <2>2, <2>3 DEF EndInv, NoStray, NewestInv, FewInv
  <2>5. QED
    BY <1>2, <2>4 DEF TidyInv
<1>5. QED
  BY <1>3, <1>4

(***************************************************************************)
(* A file operation of a save: last.pt is filled before the index lists    *)
(* the new checkpoint, under a step above all the listed ones.             *)
(***************************************************************************)
LEMMA SaveTidy ==
    ASSUME IInv, TidyInv, ContinueSave
    PROVE  TidyInv'
<1> /\ CkptBase /\ LoopInv /\ NamesInv
    /\ EndInv /\ StepsDiffer /\ NoStray /\ NewestInv /\ FewInv
    /\ pc = "save" /\ pc' = "save" /\ UNCHANGED <<t, savedT, taken, keep>> /\ SaveStep
  BY DEF IInv, TidyInv, ContinueSave
<1>1. Saving /\ saving'.step = saving.step /\ saving'.model = saving.model
  BY SaveStepEffect
<1>2. EndInv' /\ FewInv'
  BY DEF EndInv, FewInv
<1>3. CASE FileWritten \/ LastOpened \/ LastWritten
  <2>1. /\ index' = index /\ Saving'
        /\ DOMAIN files' \subseteq DOMAIN files \cup {saving.step, LastPt}
    BY <1>3 DEF FileWritten, LastOpened, LastWritten, Put, Saving, CkptBase, SavingIsRecord
  <2>2. StepsDiffer' /\ Listed' = Listed
    BY <2>1 DEF StepsDiffer, Listed
  <2>3. NoStray'
    BY <1>1, <2>1, <2>2 DEF NoStray
  <2>4. saving'.at = "lasted"
          => LastPt \in DOMAIN files' /\ files'[LastPt] = saving'.model
    BY <1>1, <1>3 DEF FileWritten, LastOpened, LastWritten, Put, CkptBase, SavingIsRecord
  <2>5. NewestInv'
    BY <2>1, <2>4 DEF NewestInv
  <2>6. QED
    BY <1>2, <2>2, <2>3, <2>5 DEF TidyInv
<1>4. CASE IndexWritten
  <2>1. saving'.at = "idle" /\ ~Saving' /\ saving.at = "lasted"
    BY <1>4 DEF IndexWritten, CkptBase, SavingIsRecord, Saving
  <2>2. /\ Whole(Entry) /\ files' = files /\ saves' = saves + 1
        /\ DOMAIN index' = DOMAIN index \cup {saves + 1}
        /\ index'[saves + 1] = Entry
        /\ \A i \in DOMAIN index : index'[i] = index[i]
    BY <2>1, SaveStepEffect
  <2>3. Entry.step = saving.step /\ Entry.model = saving.model
    BY DEF Entry
  <2>4. StepsDiffer'
    <3>1. \A i \in DOMAIN index : index'[i].step # index'[saves + 1].step
      BY <1>1, <2>2, <2>3 DEF NamesInv, CkptBase
    <3>2. QED
      BY <2>2, <3>1 DEF StepsDiffer
  <2>5. Listed' = Listed \cup {saving.step}
    BY <2>2, <2>3 DEF Listed
  <2>6. NoStray'
    BY <2>2, <2>5 DEF NoStray
  <2>7. Current(saving.step)'
    <3>1. LastPt \in DOMAIN files /\ files[LastPt] = saving.model
      BY <2>1 DEF NewestInv
    <3>2. QED
      BY <1>1, <2>2, <2>3, <3>1 DEF Current, Newest
  <2>8. NewestInv'
    BY <2>1, <2>7 DEF NewestInv
  <2>9. QED
    BY <1>2, <2>4, <2>6, <2>8 DEF TidyInv
<1>5. QED
  BY <1>3, <1>4 DEF SaveStep

(***************************************************************************)
(* The prune: it spares the new file, which is the newest entry's, and the *)
(* one of the newest "best"; the files it leaves are those of the index it *)
(* rewrites, and steps that differ make that two entries at most.          *)
(***************************************************************************)
LEMMA PruneBeginsTidy ==
    ASSUME IInv, TidyInv, PruneBegins
    PROVE  TidyInv'
<1> /\ CkptBase /\ LoopInv
    /\ EndInv /\ StepsDiffer /\ NoStray /\ NewestInv /\ FewInv
    /\ pc = "save" /\ pc' = "prune" /\ ~Saving /\ keep' = ToKeep
    /\ UNCHANGED <<t, savedT, taken, files, index, saves, saving>>
  BY DEF IInv, TidyInv, PruneBegins, ckptVars
<1>1. Saving' = Saving /\ Listed' = Listed /\ \A n : Current(n)' = Current(n)
  BY DEF Saving, Listed, Current, Newest
<1>2. EndInv' /\ StepsDiffer' /\ NoStray' /\ NewestInv'
  BY <1>1 DEF EndInv, StepsDiffer, NoStray, NewestInv
<1>3. saving.step \in keep' /\ \E b \in Nat : keep' \subseteq {saving.step, b}
  <2>1. saving.step \in Nat
    BY DEF CkptBase
  <2>2. \A b, c \in Bests : b \in Nat /\ c \in Nat
    BY DEF Bests, CkptBase
  <2>3. CASE \E b \in Bests : \A c \in Bests : c <= b
    <3>1. PICK b \in Bests : \A c \in Bests : c <= b
      BY <2>3
    <3>2. \A d \in Bests : (\A c \in Bests : c <= d) => d = b
      BY <2>2, <3>1
    <3>3. keep' \subseteq {saving.step, index[b].step}
      BY <3>2 DEF ToKeep
    <3>4. index[b].step \in Nat
      BY <3>1 DEF Bests, CkptBase
    <3>5. QED
      BY <3>3, <3>4 DEF ToKeep
  <2>4. CASE ~\E b \in Bests : \A c \in Bests : c <= b
    <3>1. keep' = {saving.step}
      BY <2>4 DEF ToKeep
    <3>2. QED
      BY <2>1, <3>1
  <2>5. QED
    BY <2>3, <2>4
<1>4. FewInv'
  BY <1>3 DEF FewInv
<1>5. QED
  BY <1>2, <1>4 DEF TidyInv

LEMMA UnlinkTidy ==
    ASSUME IInv, TidyInv, Unlink
    PROVE  TidyInv'
<1> /\ CkptBase /\ LoopInv
    /\ EndInv /\ StepsDiffer /\ NoStray /\ NewestInv /\ FewInv /\ pc = "prune"
  BY DEF IInv, TidyInv, Unlink
<1>1. PICK n \in Listed \ keep :
         files' = [m \in DOMAIN files \ {n} |-> files[m]]
  BY DEF Unlink, Pruned
<1>2. /\ UNCHANGED <<t, pc, savedT, taken, keep, index, saves, saving>>
      /\ Saving' = Saving /\ Listed' = Listed /\ ~Saving
  BY DEF Unlink, runVars, Saving, Listed, LoopInv
<1>3. n # LastPt
  <2>1. n \in Nat
    BY DEF Listed, CkptBase
  <2>2. QED
    BY <2>1
<1>4. NoStray'
  BY <1>1, <1>2 DEF NoStray
<1>5. NewestInv'
  BY <1>1, <1>2, <1>3 DEF NewestInv, Current, Newest
<1>6. EndInv' /\ StepsDiffer' /\ FewInv'
  BY <1>2 DEF EndInv, StepsDiffer, FewInv
<1>7. QED
  BY <1>4, <1>5, <1>6 DEF TidyInv

LEMMA PruneEndsTidy ==
    ASSUME IInv, TidyInv, PruneEnds
    PROVE  TidyInv'
<1> /\ CkptBase /\ LoopInv
    /\ EndInv /\ StepsDiffer /\ NoStray /\ NewestInv /\ FewInv /\ pc = "prune"
  BY DEF IInv, TidyInv, PruneEnds
<1> DEFINE Kept == {k \in DOMAIN index : index[k].step \in keep}
<1>1. /\ UNCHANGED <<t, stopping, taken, keep, files, saves, saving>>
      /\ Pruned \cap DOMAIN files = {}
      /\ index' = [i \in Kept |-> index[i]]
      /\ \/ stopping = "yes" /\ pc' = "ended" /\ UNCHANGED savedT
         \/ stopping = "no" /\ pc' = "loop" /\ savedT' = t
  BY DEF PruneEnds, LoopInv
<1>2. /\ DOMAIN index' = Kept /\ Kept \subseteq DOMAIN index
      /\ \A i \in Kept : index'[i] = index[i]
  BY <1>1
<1>3. /\ ~Saving /\ ~Saving' /\ saving.step = taken
      /\ stopping = "no" => taken = t
  BY <1>1 DEF LoopInv, Saving
<1>4. EndInv'
  BY <1>1 DEF EndInv
<1>5. StepsDiffer'
  BY <1>2 DEF StepsDiffer
<1>6. NoStray'
  <2> SUFFICES ASSUME NEW n \in DOMAIN files, n # LastPt PROVE n \in Listed'
    BY <1>1 DEF NoStray
  <2>1. n \in Listed /\ n \in keep
    BY <1>1, <1>3 DEF NoStray, Pruned
  <2>2. PICK i \in DOMAIN index : index[i].step = n
    BY <2>1 DEF Listed
  <2>3. i \in Kept
    BY <2>1, <2>2
  <2>4. QED
    BY <1>2, <2>2, <2>3 DEF Listed
<1>7. Current(saving.step)' /\ saves \in Kept
  <2>1. Current(saving.step) /\ saving.step \in keep
    BY <1>3 DEF NewestInv, FewInv
  <2>2. saves \in Kept
    BY <2>1 DEF Current, Newest
  <2>3. QED
    BY <1>1, <1>2, <2>1, <2>2 DEF Current, Newest
<1>8. NewestInv'
  BY <1>1, <1>3, <1>7 DEF NewestInv
<1>9. FewInv'
  <2>1. PICK b \in Nat : keep \subseteq {saving.step, b}
    BY DEF FewInv
  <2>2. saves \in Nat /\ \A i \in Kept : i \in Nat
    BY DEF CkptBase
  <2>3. index[saves].step = saving.step
    BY <1>3 DEF NewestInv, Current, Newest
  <2>4. \E c \in Nat : Kept \subseteq {saves, c}
    <3>1. CASE \E c \in Kept : index[c].step = b
      <4>1. PICK c \in Kept : index[c].step = b
        BY <3>1
      <4>2. \A i \in Kept : i \in {saves, c}
        BY <1>7, <2>1, <2>3, <4>1 DEF StepsDiffer
      <4>3. QED
        BY <2>2, <4>2
    <3>2. CASE ~\E c \in Kept : index[c].step = b
      <4>1. \A i \in Kept : i = saves
        BY <1>7, <2>1, <2>3, <3>2 DEF StepsDiffer
      <4>2. QED
        BY <2>2, <4>1
    <3>3. QED
      BY <3>1, <3>2
  <2>5. QED
    BY <1>1, <1>2, <2>2, <2>4 DEF FewInv
<1>10. QED
  BY <1>4, <1>5, <1>6, <1>8, <1>9 DEF TidyInv

LEMMA TidyStep == IInv /\ TidyInv /\ [Next]_vars => TidyInv'
  BY LoopTidy, BeginTidy, SaveTidy, PruneBeginsTidy, UnlinkTidy, PruneEndsTidy
  DEF Next

(***************************************************************************)
(* A run that returned has saved everything it trained, as its newest      *)
(* checkpoint and as last.pt, and leaves at most one other file: whether   *)
(* it ran to its end or was stopped at a poll or inside an evaluation.     *)
(***************************************************************************)
THEOREM AllIsSaved == Spec => []NothingUnsaved
<1>1. IInv /\ TidyInv => NothingUnsaved
  <2> SUFFICES ASSUME IInv, TidyInv, pc = "ended", taken > 0
               PROVE  /\ Current(taken) /\ Whole(Newest)
                      /\ DOMAIN files \ {LastPt} = Listed
                      /\ Cardinality(DOMAIN index) <= 2
    BY DEF NothingUnsaved, Current
  <2> /\ CkptBase /\ LoopInv /\ WholeInv /\ NoStray /\ NewestInv /\ FewInv
    BY DEF IInv, TidyInv
  <2>1. Current(taken) /\ Whole(Newest)
    BY DEF NewestInv, WholeInv, Current, Newest
  <2>2. DOMAIN files \ {LastPt} \subseteq Listed
    BY DEF NoStray, LoopInv
  <2>3. Listed \subseteq DOMAIN files \ {LastPt}
    <3>1. ASSUME NEW i \in DOMAIN index
          PROVE  index[i].step \in DOMAIN files /\ index[i].step # LastPt
      <4>1. index[i].step \in DOMAIN files
        BY DEF WholeInv, Whole
      <4>2. index[i].step \in Nat
        BY DEF CkptBase
      <4>3. QED
        BY <4>1, <4>2
    <3>2. QED
      BY <3>1 DEF Listed
  <2>4. Cardinality(DOMAIN index) <= 2
    <3>1. PICK a, c \in Nat : DOMAIN index \subseteq {a, c}
      BY DEF FewInv
    <3>2. /\ IsFiniteSet({a}) /\ Cardinality({a}) = 1
      BY FS_Singleton
    <3>3. /\ IsFiniteSet({a} \cup {c})
          /\ Cardinality({a} \cup {c})
                = IF c \in {a} THEN Cardinality({a}) ELSE Cardinality({a}) + 1
      BY <3>2, FS_AddElement
    <3>4. DOMAIN index \subseteq {a} \cup {c}
      BY <3>1
    <3>5. /\ IsFiniteSet(DOMAIN index) /\ Cardinality(DOMAIN index) <= Cardinality({a} \cup {c})
      BY <3>3, <3>4, FS_Subset
    <3>6. Cardinality(DOMAIN index) \in Nat
      BY <3>5, FS_CardinalityType
    <3>7. QED
      BY <3>2, <3>3, <3>5, <3>6
  <2>5. QED
    BY <2>1, <2>2, <2>3, <2>4
<1>2. Init => IInv /\ TidyInv
  BY InvInit, TidyInit
<1>3. (IInv /\ TidyInv) /\ [Next]_vars => (IInv /\ TidyInv)'
  BY StepInv, TidyStep
<1>4. QED
  BY <1>1, <1>2, <1>3, PTL DEF Spec
=============================================================================
