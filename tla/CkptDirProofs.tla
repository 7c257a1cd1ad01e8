--------------------------- MODULE CkptDirProofs ---------------------------
(***************************************************************************)
(* What save_ckpt keeps true of the checkpoint directory, step by step, for*)
(* every client: the lemmas the proofs of TrainLoop and TD3Run rest on.    *)
(***************************************************************************)
EXTENDS CkptDir, TLAPS

USE NamesAssumption DEF NamesAssumption

SavingIsRecord ==
    saving = [at |-> saving.at, step |-> saving.step, label |-> saving.label,
              model |-> saving.model]

CkptBase ==
    /\ saves \in Nat /\ DOMAIN index \subseteq 1..saves
    /\ \A i \in DOMAIN index : index[i].step \in Nat
    /\ SavingIsRecord /\ saving.step \in Nat
    /\ saving.at \in {"idle", "file", "filed", "last", "lasted"}
    /\ saving.at \in {"filed", "last", "lasted"}
         => saving.step \in DOMAIN files /\ files[saving.step] = saving.model

CkptInv == CkptBase /\ ListedIsWhole

Entry == [step |-> saving.step, label |-> saving.label, model |-> saving.model]

LEMMA CkptInitInv ==
    ASSUME NEW m, CkptInit(m) PROVE CkptInv
  BY DEF CkptInit, CkptInv, CkptBase, SavingIsRecord, ListedIsWhole

(***************************************************************************)
(* The start of a save tears its own file and touches no other.            *)
(***************************************************************************)
LEMMA BeginSaveEffect ==
    ASSUME CkptBase, NEW n \in Nat, NEW label, NEW m, BeginSave(n, label, m)
    PROVE  /\ CkptBase' /\ Saving'
           /\ saving'.step = n /\ saving'.label = label /\ saving'.model = m
           /\ index' = index /\ saves' = saves
           /\ \A y \in DOMAIN files : y # n => y \in DOMAIN files' /\ files'[y] = files[y]
<1>1. /\ saving'.at = "file" /\ saving'.step = n /\ SavingIsRecord'
      /\ saving'.label = label /\ saving'.model = m
      /\ index' = index /\ saves' = saves
  BY DEF BeginSave, SavingIsRecord
<1>2. \A y \in DOMAIN files : y # n => y \in DOMAIN files' /\ files'[y] = files[y]
  BY DEF BeginSave, Put
<1>3. CkptBase'
  BY <1>1 DEF CkptBase
<1>4. QED
  BY <1>1, <1>2, <1>3 DEF Saving

LEMMA BeginSaveInv ==
    ASSUME CkptInv, ~Saving, NEW n \in Nat, NEW label, NEW m,
           BeginSave(n, label, m)
    PROVE  CkptInv'
<1>1. CkptBase
  BY DEF CkptInv
<1>2. /\ CkptBase' /\ Saving' /\ saving'.step = n
      /\ index' = index /\ saves' = saves
      /\ \A y \in DOMAIN files : y # n => y \in DOMAIN files' /\ files'[y] = files[y]
  BY <1>1, BeginSaveEffect
<1>3. ListedIsWhole'
  BY <1>2 DEF CkptInv, ListedIsWhole, Whole
<1>4. QED
  BY <1>2, <1>3 DEF CkptInv

(***************************************************************************)
(* The file operations of a save write its own file and last.pt only; the  *)
(* last of them lists a file that is whole by then.                        *)
(***************************************************************************)
LEMMA SaveStepEffect ==
    ASSUME CkptBase, SaveStep
    PROVE  /\ CkptBase' /\ Saving
           /\ saving'.step = saving.step /\ saving'.label = saving.label
           /\ saving'.model = saving.model
           /\ \/ /\ Saving' /\ index' = index /\ saves' = saves
                 /\ \A y \in DOMAIN files : y # saving.step /\ y # LastPt
                       => y \in DOMAIN files' /\ files'[y] = files[y]
              \/ /\ ~Saving' /\ Whole(Entry) /\ files' = files
                 /\ saves' = saves + 1 /\ saves + 1 \notin DOMAIN index
                 /\ DOMAIN index' = DOMAIN index \cup {saves + 1}
                 /\ index'[saves + 1] = Entry
                 /\ \A i \in DOMAIN index : index'[i] = index[i]
<1>1. CASE FileWritten
  <2>1. /\ saving'.at = "filed" /\ saving'.step = saving.step /\ SavingIsRecord'
        /\ saving'.label = saving.label
        /\ saving'.model = saving.model /\ index' = index /\ saves' = saves
    BY <1>1 DEF FileWritten, CkptBase, SavingIsRecord
  <2>2. /\ saving.step \in DOMAIN files' /\ files'[saving.step] = saving.model
        /\ \A y \in DOMAIN files : y # saving.step
              => y \in DOMAIN files' /\ files'[y] = files[y]
    BY <1>1 DEF FileWritten, Put
  <2>3. CkptBase'
    BY <2>1, <2>2 DEF CkptBase
  <2>4. QED
    BY <1>1, <2>1, <2>2, <2>3 DEF FileWritten, Saving
<1>2. CASE LastOpened \/ LastWritten
  <2>1. /\ saving.at \in {"filed", "last"} /\ saving'.at \in {"last", "lasted"}
        /\ saving'.step = saving.step /\ SavingIsRecord'
        /\ saving'.label = saving.label
        /\ saving'.model = saving.model /\ index' = index /\ saves' = saves
    BY <1>2 DEF LastOpened, LastWritten, CkptBase, SavingIsRecord
  <2>2. \A y \in DOMAIN files : y # LastPt => y \in DOMAIN files' /\ files'[y] = files[y]
    BY <1>2 DEF LastOpened, LastWritten, Put
  <2>3. CkptBase'
    BY <2>1, <2>2 DEF CkptBase
  <2>4. QED
    BY <2>1, <2>2, <2>3 DEF Saving
<1>3. CASE IndexWritten
  <2>1. /\ saving.at = "lasted" /\ saving'.at = "idle"
        /\ saving'.step = saving.step /\ SavingIsRecord'
        /\ saving'.label = saving.label /\ saving'.model = saving.model
        /\ files' = files /\ saves' = saves + 1
    BY <1>3 DEF IndexWritten, CkptBase, SavingIsRecord
  <2>2. saves + 1 \notin DOMAIN index
    BY DEF CkptBase
  <2>3. /\ DOMAIN index' = DOMAIN index \cup {saves + 1}
        /\ index'[saves + 1] = Entry
        /\ \A i \in DOMAIN index : index'[i] = index[i]
    <3>1. index' = Put(index, saves + 1, Entry)
      BY <1>3 DEF IndexWritten, Entry
    <3>2. QED
      BY <2>2, <3>1 DEF Put
  <2>4. Whole(Entry)
    BY <2>1 DEF CkptBase, Whole, Entry
  <2>5. CkptBase'
    BY <2>1, <2>3 DEF CkptBase, Entry
  <2>6. QED
    BY <2>1, <2>2, <2>3, <2>4, <2>5 DEF Saving
<1>4. QED
  BY <1>1, <1>2, <1>3 DEF SaveStep

LEMMA SaveStepInv ==
    ASSUME CkptInv, SaveStep PROVE CkptInv'
<1> CkptBase
  BY DEF CkptInv
<1>1. CkptBase' /\ Saving /\ saving'.step = saving.step
  BY SaveStepEffect
<1>2. CASE Saving'
  <2>1. /\ index' = index
        /\ \A y \in DOMAIN files : y # saving.step /\ y # LastPt
              => y \in DOMAIN files' /\ files'[y] = files[y]
    BY <1>2, SaveStepEffect
  <2>2. ListedIsWhole'
    BY <1>1, <1>2, <2>1 DEF CkptInv, CkptBase, ListedIsWhole, Whole
  <2>3. QED
    BY <1>1, <2>2 DEF CkptInv
<1>3. CASE ~Saving'
  <2>1. /\ Whole(Entry) /\ files' = files
        /\ DOMAIN index' = DOMAIN index \cup {saves + 1}
        /\ index'[saves + 1] = Entry
        /\ \A i \in DOMAIN index : index'[i] = index[i]
    BY <1>3, SaveStepEffect
  <2>2. ListedIsWhole'
    <3> SUFFICES ASSUME NEW i \in DOMAIN index',
                        \A k \in DOMAIN index' : index'[k].step = index'[i].step => k <= i
                 PROVE  Whole(index[i])'
      BY DEF ListedIsWhole
    <3>1. CASE i = saves + 1
      BY <3>1, <2>1 DEF Whole
    <3>2. CASE i \in DOMAIN index
      <4>1. index[i].step # saving.step
        BY <3>2, <2>1 DEF CkptBase, Entry
      <4>2. Whole(index[i])
        BY <3>2, <4>1, <2>1 DEF CkptInv, ListedIsWhole
      <4>3. QED
        BY <3>2, <4>2, <2>1 DEF Whole
    <3>3. QED
      BY <3>1, <3>2, <2>1
  <2>3. QED
    BY <1>1, <2>2 DEF CkptInv
<1>4. QED
  BY <1>2, <1>3
=============================================================================
