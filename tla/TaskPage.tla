------------------------------ MODULE TaskPage ------------------------------
(***************************************************************************)
(* The cards of a task's page (lab/web/app.js, taskPage): runs are started *)
(* and chosen in one, checkpoints chosen and evaluated in the other, and   *)
(* both are redrawn from GET /api/tasks/<task>.  Every request is answered *)
(* or fails in its own time; buttons can be pressed in between.            *)
(*                                                                         *)
(* The polling of the attached run is RunView's; here it is what it does   *)
(* to the buttons.  A page that was left does nothing more.                *)
(***************************************************************************)
EXTENDS Naturals, FiniteSets

CONSTANTS
    Ckpts,      \* checkpoints that may be listed
    NoCkpt,     \* the option "no checkpoints yet", or a blank choice
    MaxClicks,  \* bound: clicks on Start and Run evaluation together
    MaxAsks     \* bound: GETs of the task's detail

ASSUME PageAssumption ==
    /\ NoCkpt \notin Ckpts
    /\ {MaxClicks, MaxAsks} \subseteq Nat

VARIABLES
    runs, saved,      \* on the server: the number of runs, the checkpoints listed
    started,          \* the clicks on Start: what each waits for, and its run
    asks,             \* the GETs of the detail: whose, and the answer
    attached, ended,  \* the run attached, 0 for none; its last state is terminal
    startOn,          \* the Start button
    options, picked,  \* the checkpoints offered, and the one chosen
    evalOn,           \* the evaluation button
    evals, evalToken, \* the evaluations asked for; the number of the newest
    shown, lastShown, \* the evaluation whose result is on the page; kept for a redraw
    blank             \* the chosen checkpoint was gone when last redrawn (history)

runCard == <<started, attached, ended, startOn>>
evalCard == <<options, picked, evalOn, evals, evalToken, shown, lastShown, blank>>
pageVars == <<runs, saved, asks, runCard, evalCard>>

AskIds == DOMAIN asks
Clicks == Cardinality(DOMAIN started) + evalToken
NoOwner == 0

PageInit ==
    /\ runs \in 0..1 /\ saved = {}
    /\ started = <<>> /\ asks = <<>>
    /\ attached = runs /\ ended = FALSE /\ startOn = TRUE
    /\ options = {} /\ picked = NoCkpt /\ evalOn = FALSE /\ blank = FALSE
    /\ evals = <<>> /\ evalToken = 0 /\ shown = 0 /\ lastShown = 0

Extend(f, x) == [i \in 1..Cardinality(DOMAIN f) + 1 |->
                    IF i \in DOMAIN f THEN f[i] ELSE x]

-----------------------------------------------------------------------------
\* A run saves a checkpoint, or removes one that is neither its best nor last.
ServerSaves ==
    /\ \E c \in Ckpts : saved' \in {saved \cup {c}, saved \ {c}}
    /\ saved' # saved
    /\ UNCHANGED <<runs, asks, runCard, evalCard>>

\* refreshDetail, for the click on Start that waits for it or for nobody.
Ask(owner) == asks' = Extend(asks, [of |-> owner, at |-> "sent", ckpts |-> {}])

\* What is left of a request that is over.
Drawn == [of |-> NoOwner, at |-> "over", ckpts |-> {}]
Clicked == [at |-> "over", run |-> 0]
Settled(answer) == [at |-> "over", state |-> "none", answer |-> answer]

Answered(n) ==
    /\ asks[n].at = "sent"
    /\ asks' = [asks EXCEPT ![n].at = "answered", ![n].ckpts = saved]
    /\ UNCHANGED <<runs, saved, runCard, evalCard>>

\* The first option where there is one and nothing was chosen.
Chosen(new) ==
    IF picked # NoCkpt
    THEN {IF picked \in new THEN picked ELSE NoCkpt}
    ELSE IF new = {} THEN {NoCkpt} ELSE new

RenderCkpts(new) ==
    /\ options' = new
    /\ picked' \in Chosen(new)
    /\ evalOn' = (picked' # NoCkpt)
    /\ blank' = (picked # NoCkpt /\ picked' = NoCkpt)
    /\ UNCHANGED <<evals, evalToken, shown, lastShown>>

AttachTo(run) ==
    /\ attached' = run /\ ended' = FALSE

\* The click goes on after its refresh, whether that failed or not.
Follow(owner) ==
    IF owner = NoOwner THEN UNCHANGED runCard
    ELSE /\ AttachTo(started[owner].run)
         /\ startOn' = TRUE
         /\ started' = [started EXCEPT ![owner] = Clicked]

\* Answers are drawn in the order they arrive, an old one over a newer.
DetailShown(n) ==
    /\ asks[n].at = "answered"
    /\ RenderCkpts(asks[n].ckpts)
    /\ Follow(asks[n].of)
    /\ asks' = [asks EXCEPT ![n] = Drawn]
    /\ UNCHANGED <<runs, saved>>

DetailFails(n) ==
    /\ asks[n].at \in {"sent", "answered"}
    /\ Follow(asks[n].of)
    /\ asks' = [asks EXCEPT ![n] = Drawn]
    /\ UNCHANGED <<runs, saved, evalCard>>

-----------------------------------------------------------------------------
ClickStart ==
    /\ startOn /\ Clicks < MaxClicks
    /\ started' = Extend(started, [at |-> "posted", run |-> 0])
    /\ startOn' = FALSE
    /\ UNCHANGED <<runs, saved, asks, attached, ended, evalCard>>

RunMade(s) ==
    /\ started[s].at = "posted"
    /\ runs' = runs + 1
    /\ started' = [started EXCEPT ![s] = [at |-> "made", run |-> runs']]
    /\ UNCHANGED <<saved, asks, attached, ended, startOn, evalCard>>

\* The answer may be lost after the run was made.
StartFails(s) ==
    /\ started[s].at \in {"posted", "made"}
    /\ started' = [started EXCEPT ![s] = Clicked]
    /\ startOn' = TRUE
    /\ UNCHANGED <<runs, saved, asks, attached, ended, evalCard>>

StartAnswered(s) ==
    /\ started[s].at = "made" /\ Cardinality(AskIds) < MaxAsks
    /\ Ask(s)
    /\ started' = [started EXCEPT ![s].at = "refresh"]
    /\ UNCHANGED <<runs, saved, attached, ended, startOn, evalCard>>

\* Another run is chosen, or the form reset: no run.
Choose ==
    /\ \E run \in 0..runs : AttachTo(run)
    /\ startOn' = TRUE
    /\ UNCHANGED <<runs, saved, asks, started, evalCard>>

\* An answer about the attached run enables Start, also while one is waited for.
Polled ==
    /\ attached # 0 /\ ~ended
    /\ startOn' = TRUE
    /\ \/ ended' = FALSE /\ UNCHANGED asks
       \/ ended' = TRUE /\ Cardinality(AskIds) < MaxAsks /\ Ask(NoOwner)
    /\ UNCHANGED <<runs, saved, started, attached, evalCard>>

-----------------------------------------------------------------------------
PickCkpt ==
    /\ picked' \in options
    /\ UNCHANGED <<runs, saved, asks, runCard, options, evalOn, evals, evalToken,
                   shown, lastShown, blank>>

ClickEval ==
    /\ evalOn /\ picked # NoCkpt /\ Clicks < MaxClicks
    /\ evalToken' = evalToken + 1
    /\ evals' = Extend(evals, [at |-> "posted", state |-> "none", answer |-> "none"])
    /\ evalOn' = FALSE /\ shown' = 0
    /\ UNCHANGED <<runs, saved, asks, runCard, options, picked, lastShown, blank>>

evalRest == <<runs, saved, asks, runCard, options, picked, evalToken, blank>>

\* start_eval made the job, and the page begins to poll.
EvalMade(e) ==
    /\ evals[e].at = "posted"
    /\ evals' = [evals EXCEPT ![e] = [at |-> "timer", state |-> "running", answer |-> "none"]]
    /\ UNCHANGED <<evalRest, evalOn, shown, lastShown>>

\* No such checkpoint any more, or no answer.
EvalFails(e) ==
    /\ evals[e].at = "posted"
    /\ evals' = [evals EXCEPT ![e] = Settled("none")]
    /\ evalOn' = (picked # NoCkpt)
    /\ UNCHANGED <<evalRest, shown, lastShown>>

EvalEnds(e) ==
    /\ evals[e].state = "running"
    /\ \E end \in {"done", "failed"} : evals' = [evals EXCEPT ![e].state = end]
    /\ UNCHANGED <<evalRest, evalOn, shown, lastShown>>

PollEval(e) ==
    /\ evals[e].at = "timer"
    /\ evals' = [evals EXCEPT ![e] = IF e = evalToken THEN [@ EXCEPT !.at = "sent"]
                                     ELSE Settled("none")]
    /\ UNCHANGED <<evalRest, evalOn, shown, lastShown>>

EvalState(e) ==
    /\ evals[e].at = "sent"
    /\ evals' = [evals EXCEPT ![e].at = "answered", ![e].answer = evals[e].state]
    /\ UNCHANGED <<evalRest, evalOn, shown, lastShown>>

\* Unlike the run's, this polling ends with the first request that fails, and
\* the button is enabled even if a newer evaluation is under way.
PollFails(e) ==
    /\ evals[e].at \in {"sent", "answered"}
    /\ evals' = [evals EXCEPT ![e] = Settled("none")]
    /\ evalOn' = TRUE
    /\ UNCHANGED <<evalRest, shown, lastShown>>

ShowResult(e) ==
    /\ evals[e].at = "answered"
    /\ IF evals[e].answer = "running"
       THEN evals' = [evals EXCEPT ![e].at = "timer"] /\ UNCHANGED <<evalOn, shown, lastShown>>
       ELSE /\ evals' = [evals EXCEPT ![e] = Settled(@.answer)]
            /\ evalOn' = TRUE
            /\ IF evals[e].answer = "done" THEN shown' = e /\ lastShown' = e
               ELSE UNCHANGED <<shown, lastShown>>
    /\ UNCHANGED evalRest

\* Mutant: the token of the answer is not compared.
MutEvalAnswer(e) == ShowResult(e)

\* An answer about an older evaluation is dropped.
EvalAnswer(e) ==
    \/ e = evalToken /\ ShowResult(e)
    \/ /\ e # evalToken /\ evals[e].at = "answered"
       /\ evals' = [evals EXCEPT ![e] = Settled("none")]
       /\ UNCHANGED <<evalRest, evalOn, shown, lastShown>>

\* The vector-grid toggle draws the last result again.
Redraw ==
    /\ lastShown # 0 /\ shown' = lastShown
    /\ UNCHANGED <<evalRest, evalOn, evals, lastShown>>

-----------------------------------------------------------------------------
PageNext ==
    \/ ServerSaves \/ ClickStart \/ Choose \/ Polled
    \/ \E n \in AskIds : Answered(n) \/ DetailShown(n) \/ DetailFails(n)
    \/ \E s \in DOMAIN started : RunMade(s) \/ StartFails(s) \/ StartAnswered(s)
    \/ PickCkpt \/ ClickEval \/ Redraw
    \/ \E e \in DOMAIN evals :
          \/ EvalMade(e) \/ EvalFails(e) \/ EvalEnds(e) \/ PollEval(e)
          \/ EvalState(e) \/ PollFails(e) \/ EvalAnswer(e)

PageSpec == PageInit /\ [][PageNext]_pageVars

-----------------------------------------------------------------------------
\* An evaluation that was seen to be done is shown unless a newer one was asked for.
NewestIsShown ==
    \A e \in DOMAIN evals :
        e = evalToken /\ evals[e].at = "over" /\ evals[e].answer = "done" => shown = e

StartComesBack == (\A s \in DOMAIN started : started[s].at = "over") => startOn

EvalComesBack ==
    (\A e \in DOMAIN evals : e = evalToken => evals[e].at = "over")
        => evalOn \/ picked = NoCkpt \/ blank

(***************************************************************************)
(* Whatever order the answers come in, no result of an older evaluation    *)
(* takes the place of a newer one's, and no request leaves its button      *)
(* disabled: Start when no click waits, the evaluation's when the newest   *)
(* one is over - unless the checkpoint chosen had been removed when the    *)
(* list was last drawn.                                                    *)
(***************************************************************************)
PageFollows == NewestIsShown /\ StartComesBack /\ EvalComesBack
=============================================================================
