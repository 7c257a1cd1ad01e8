----------------------------- MODULE ResidualRL -----------------------------
(***************************************************************************)
(* Residual RL with a simulated operator (nfv/rl/loop and nfv/rl/deploy):  *)
(* episodes stepped in turn, take-overs under a budget, the replay buffer  *)
(* with its intervention flags, the updates that draw from it, the         *)
(* snapshot that acts, evaluations and checkpoints.  What the simulator    *)
(* shows the operator, and how an episode ends, is a choice.               *)
(***************************************************************************)
EXTENDS Integers, Sequences, FiniteSets

CONSTANTS
    Slots,                \* n_envs: episodes stepped in turn
    RLSteps,             \* env_steps
    Warmup,               \* transitions before the first update
    Segment, StallSteps,  \* SEGMENT_STEPS and STALL_STEPS
    BudgetNum, BudgetDen, \* intervention_budget, as a fraction
    Decay,                \* intervention_decay, 0 or 1
    SwapEvery, RLEvalEvery

ASSUME RLAssumption ==
    /\ Slots \in Nat \ {0} /\ RLSteps \in Nat \ {0} /\ Warmup \in Nat
    /\ Segment \in Nat \ {0} /\ StallSteps \in Nat \ {0}
    /\ BudgetNum \in Nat /\ BudgetDen \in Nat \ {0} /\ Decay \in {0, 1}
    /\ SwapEvery \in Nat \ {0} /\ RLEvalEvery \in Nat \ {0}

VARIABLES
    turn,              \* the slot to step; 0: between two rounds
    over,
    active, seg, stall, \* each slot's operator
    last,              \* last_idx: index of the episode's latest transition, 0 if none
    ep, episodes,      \* each slot's ep_id; ep_counter
    buf,               \* the replay buffer, in the order of the env steps
    opSteps,
    credit, updates,   \* credit: the update budget, in halves (utd = 1/2)
    acting,            \* updates in the weights that act (deploy mode)
    bestScore, ckpt,        \* ckpt: the step and the updates of the newest checkpoint
    drawn              \* transitions the critics may have been trained on (history)

rlVars == <<turn, over, active, seg, stall, last, ep, episodes, buf, opSteps,
            credit, updates, acting, bestScore, ckpt, drawn>>

Envs == 1..Slots
now == Len(buf)
Successes == 0..1   \* successes an evaluation may count

RLInit ==
    /\ turn = 0 /\ over = FALSE
    /\ active = [s \in Envs |-> FALSE] /\ seg = [s \in Envs |-> 0] /\ stall = [s \in Envs |-> 0]
    /\ last = [s \in Envs |-> 0]
    /\ ep = [s \in Envs |-> s] /\ episodes = Slots
    /\ buf = <<>> /\ opSteps = 0
    /\ credit = 0 /\ updates = 0 /\ acting = 0
    /\ bestScore = -1 /\ ckpt = <<>> /\ drawn = {}

-----------------------------------------------------------------------------
(***************************************************************************)
(* The operator of one slot.  An observation shows contact without         *)
(* progress ("stuck") or not, and a force beyond the warning or not.       *)
(***************************************************************************)
Observed(s, stuck) ==
    IF ~stuck THEN 0 ELSE IF stall[s] < StallSteps THEN stall[s] + 1 ELSE StallSteps

WantsIn(s, stuck, hard) == ~active[s] /\ (hard \/ Observed(s, stuck) >= StallSteps)

\* Mutant: whoever is wanted may come.
MutAllowed == TRUE

\* op_steps <= budget_at(now) * now
Allowed == opSteps * BudgetDen * RLSteps <= BudgetNum * (RLSteps - Decay * now) * now

Begins(s, stuck, hard) == WantsIn(s, stuck, hard) /\ Allowed

\* Mutant: the transition stored last, whichever slot's it is.
MutMarked(s) == [i \in DOMAIN buf |-> IF i = now THEN [buf[i] EXCEPT !.ok = FALSE] ELSE buf[i]]

\* mark_boundary: this episode's transition before the take-over.
Marked(s) ==
    [i \in DOMAIN buf |-> IF i = last[s] /\ ~buf[i].intervened THEN [buf[i] EXCEPT !.ok = FALSE]
                          ELSE buf[i]]

Transition(s, iv) == [intervened |-> iv, ok |-> ~iv, ep |-> ep[s]]

\* tick: one step of a segment, of which the last gives the robot back.
Operated(s, iv, begins, stuck) ==
    LET len == IF begins THEN 1 ELSE seg[s] + 1
        ends == iv /\ len >= Segment
    IN  /\ active' = [active EXCEPT ![s] = iv /\ ~ends]
        /\ seg' = [seg EXCEPT ![s] = IF iv /\ ~ends THEN len ELSE 0]
        /\ stall' = [stall EXCEPT ![s] = IF ends THEN 0 ELSE Observed(s, stuck)]

\* start_train: the next episode, with an operator of its own.
StartTrain(s) ==
    /\ active' = [active EXCEPT ![s] = FALSE]
    /\ seg' = [seg EXCEPT ![s] = 0]
    /\ stall' = [stall EXCEPT ![s] = 0]
    /\ last' = [last EXCEPT ![s] = 0]
    /\ ep' = [ep EXCEPT ![s] = episodes + 1]
    /\ episodes' = episodes + 1

Stored(s, iv, begins) ==
    buf' = Append(IF begins THEN Marked(s) ELSE buf, Transition(s, iv))

-----------------------------------------------------------------------------
\* CriticView: the eligible transitions, or all when none is.
Eligible(b) ==
    LET ok == {i \in DOMAIN b : b[i].ok} IN IF ok = {} THEN DOMAIN b ELSE ok

\* Every transition it may draw is taken as drawn; a batch is one transition.
Update ==
    IF Len(buf') > Warmup
    THEN LET due == credit + 1 >= 2
         IN  /\ credit' = (credit + 1) % 2
             /\ updates' = IF due THEN updates + 1 ELSE updates
             /\ acting' = IF due /\ (updates' % SwapEvery) = 0 THEN updates' ELSE acting
             /\ drawn' = IF due THEN drawn \cup Eligible(buf') ELSE drawn
    ELSE UNCHANGED <<credit, updates, acting, drawn>>

EvaluateResidual ==
    IF (Len(buf') % RLEvalEvery) = 0 /\ Len(buf') < RLSteps
    THEN \E score \in Successes :
            IF score > bestScore THEN bestScore' = score /\ ckpt' = <<Len(buf'), updates'>>
            ELSE UNCHANGED <<bestScore, ckpt>>
    ELSE UNCHANGED <<bestScore, ckpt>>

NextTurn == turn' = IF turn = Slots \/ Len(buf') = RLSteps THEN 0 ELSE turn + 1

-----------------------------------------------------------------------------
RoundStarts ==
    /\ turn = 0 /\ ~over /\ now < RLSteps
    /\ turn' = 1
    /\ UNCHANGED <<over, active, seg, stall, last, ep, episodes, buf, opSteps,
                   credit, updates, acting, bestScore, ckpt, drawn>>

\* One env step of one slot, and all that follows it.
SlotStep ==
    /\ turn # 0
    /\ \E stuck, hard, done \in BOOLEAN :
        LET begins == Begins(turn, stuck, hard)
            iv == active[turn] \/ begins
        IN  /\ Stored(turn, iv, begins)
            /\ opSteps' = IF iv THEN opSteps + 1 ELSE opSteps
            /\ IF done THEN StartTrain(turn)
               ELSE /\ Operated(turn, iv, begins, stuck)
                    /\ last' = [last EXCEPT ![turn] = Len(buf')]
                    /\ UNCHANGED <<ep, episodes>>
    /\ Update /\ EvaluateResidual /\ NextTurn
    /\ UNCHANGED over

\* Out of steps, or stopped at the start of a round.
Finish ==
    /\ turn = 0 /\ ~over
    /\ over' = TRUE
    /\ ckpt' = <<now, updates>>
    /\ UNCHANGED <<turn, active, seg, stall, last, ep, episodes, buf, opSteps,
                   credit, updates, acting, bestScore, drawn>>

RLNext == RoundStarts \/ SlotStep \/ Finish

RLSpec == RLInit /\ [][RLNext]_rlVars

-----------------------------------------------------------------------------
RLTypeOK ==
    /\ turn \in 0..Slots /\ over \in BOOLEAN
    /\ \A s \in Envs : seg[s] < Segment /\ stall[s] <= StallSteps /\ last[s] \in 0..now
    /\ \A s \in Envs : active[s] <=> seg[s] > 0
    /\ opSteps = Cardinality({i \in DOMAIN buf : buf[i].intervened})
    /\ acting = updates - (updates % SwapEvery)

\* The transitions of one episode, one after the other.
Follows(i, j) == i < j /\ buf[i].ep = buf[j].ep /\ \A k \in i+1..j-1 : buf[k].ep # buf[i].ep

(***************************************************************************)
(* No transition from which the operator took over stays a sample of the   *)
(* critics, though other slots stored theirs in between.                   *)
(***************************************************************************)
BoundaryIsCut ==
    \A i, j \in DOMAIN buf : Follows(i, j) /\ buf[j].intervened => ~buf[i].ok

(***************************************************************************)
(* Only the segments under way when the budget was used up exceed it: one  *)
(* for each slot at most (the budget as it is without decay).              *)
(***************************************************************************)
BudgetHolds == opSteps * BudgetDen <= BudgetNum * now + BudgetDen * Slots * Segment

(***************************************************************************)
(* deploy.py:47: no TD target ever reads a state whose future belonged to  *)
(* the operator.                                                           *)
(***************************************************************************)
NoTargetIntoTakeover ==
    \A i, j \in DOMAIN buf :
        Follows(i, j) /\ buf[j].intervened /\ ~buf[i].intervened => i \notin drawn
=============================================================================
