------------------------------ MODULE RunView ------------------------------
(***************************************************************************)
(* How a run is watched: the page (lab/web/app.js, attachRun) polls        *)
(* GET /api/runs/<task>/<run>?since=n (run_state in lab/server/app.py),    *)
(* which reads the metrics, then the status, then whether the process is   *)
(* alive, while the job of LabJob goes on.                                 *)
(*                                                                         *)
(* A token is one attachRun call; each has at most one request or timer    *)
(* outstanding.  Answers of an older token may still arrive.               *)
(***************************************************************************)
EXTENDS LabJob, Sequences

CONSTANT MaxAttach  \* bound: attachRun calls of the page

ASSUME AttachAssumption == MaxAttach \in Nat

VARIABLES
    page,  \* what the page shows: run, rows pushed to the charts, state
    token, \* runToken: the number of the current attachRun
    poll,  \* poll[t]: the request or timer of token t
    late   \* the tokens whose run had already ended when they attached (history)

viewVars == <<page, token, poll, late>>
Tokens == 1..MaxAttach

NoPage == [run |-> None, rows |-> <<>>, state |-> "none"]

\* at: idle -> sent -> metrics -> status -> answered -> (timer -> sent)* -> over
NoPoll == [at |-> "idle", run |-> None, next |-> 0, upto |-> 0, st |-> NoFile,
           answer |-> "none"]

ViewInit ==
    /\ Init
    /\ page = NoPage
    /\ token = 0
    /\ poll = [t \in Tokens |-> NoPoll]
    /\ late = {}

HasEnded(j) == pc[j] \in Gone \/ ReadStatus(j) \in Terminal

\* attachRun: the page starts from nothing and asks at once, since = 0.
Attach(j) ==
    /\ DirExists(j)
    /\ token < MaxAttach
    /\ token' = token + 1
    /\ page' = [run |-> j, rows |-> <<>>, state |-> "none"]
    /\ poll' = [poll EXCEPT ![token + 1] = [NoPoll EXCEPT !.at = "sent", !.run = j]]
    /\ late' = IF HasEnded(j) THEN late \cup {token + 1} ELSE late

\* run_state: read_metrics first; a partial last line is not counted.
ReadMetrics(t) ==
    /\ poll[t].at = "sent"
    /\ server = "up"
    /\ poll' = [poll EXCEPT ![t].at = "metrics", ![t].upto = steps[poll[t].run]]
    /\ UNCHANGED <<page, token, late>>

\* read_status, first half: status.json.
ReadState(t) ==
    /\ poll[t].at = "metrics"
    /\ server = "up"
    /\ poll' = [poll EXCEPT ![t].at = "status", ![t].st = status[poll[t].run]]
    /\ UNCHANGED <<page, token, late>>

\* read_status, second half: job.pid and the process table, later.
Verdict(st, j) ==
    IF st.state \in Active /\ (st.pid = "pid" \/ j \in pidfile) /\ ~LooksAlive(j)
    THEN "failed" ELSE st.state

CheckProcess(t) ==
    /\ poll[t].at = "status"
    /\ server = "up"
    /\ poll' = [poll EXCEPT ![t].at = "answered",
                            ![t].answer = Verdict(poll[t].st, poll[t].run)]
    /\ UNCHANGED <<page, token, late>>

RowsFrom(j, from, upto) == [i \in 1..(upto - from) |-> <<j, from + i>>]

\* Mutant: the token of the answer is not compared.
MutDeliver(t) ==
    /\ poll[t].at = "answered"
    /\ page' = [page EXCEPT
                  !.rows = @ \o RowsFrom(poll[t].run, poll[t].next, poll[t].upto),
                  !.state = poll[t].answer]
    /\ poll' = [poll EXCEPT ![t] =
                  [NoPoll EXCEPT
                     !.run = poll[t].run, !.next = poll[t].upto,
                     !.at = IF poll[t].answer \in Terminal THEN "over" ELSE "timer"]]
    /\ UNCHANGED <<token, late>>

\* The answer reaches the page.  One of an older token is dropped, for good.
Deliver(t) ==
    /\ poll[t].at = "answered"
    /\ IF t = token
       THEN /\ page' = [page EXCEPT
                          !.rows = @ \o RowsFrom(poll[t].run, poll[t].next, poll[t].upto),
                          !.state = poll[t].answer]
            /\ poll' = [poll EXCEPT ![t] =
                          [NoPoll EXCEPT
                             !.run = poll[t].run, !.next = poll[t].upto,
                             !.at = IF poll[t].answer \in Terminal THEN "over"
                                    ELSE "timer"]]
       ELSE /\ poll' = [poll EXCEPT ![t] = NoPoll]
            /\ UNCHANGED page
    /\ UNCHANGED <<token, late>>

\* Mutant: a failed request ends the polling.
MutRequestFails(t) ==
    /\ poll[t].at \in {"sent", "metrics", "status"}
    /\ server # "up"
    /\ poll' = [poll EXCEPT ![t] = NoPoll]
    /\ UNCHANGED <<page, token, late>>

\* A request the server never answers: shown as an error, tried again in 3 s.
RequestFails(t) ==
    /\ poll[t].at \in {"sent", "metrics", "status"}
    /\ server # "up"
    /\ poll' = [poll EXCEPT ![t] = IF t = token THEN [NoPoll EXCEPT !.at = "timer", !.run = poll[t].run,
                                                !.next = poll[t].next]
                                   ELSE NoPoll]
    /\ UNCHANGED <<page, token, late>>

PollAgain(t) ==
    /\ poll[t].at = "timer"
    /\ poll' = [poll EXCEPT ![t] = IF t = token THEN [@ EXCEPT !.at = "sent"]
                                   ELSE NoPoll]
    /\ UNCHANGED <<page, token, late>>

PageStep(t) ==
    \/ ReadMetrics(t) \/ ReadState(t) \/ CheckProcess(t)
    \/ Deliver(t) \/ RequestFails(t) \/ PollAgain(t)

ViewNext ==
    \/ Next /\ UNCHANGED viewVars
    \/ /\ (\E j \in Jobs : Attach(j)) \/ (\E t \in Tokens : PageStep(t))
       /\ UNCHANGED vars

ViewSpec == ViewInit /\ [][ViewNext]_<<vars, viewVars>>

\* The page's timers fire and the server answers; SF where a restart of the
\* server can interrupt a request over and over.
FairViewSpec ==
    /\ ViewSpec
    /\ WF_vars(ContainerStarts) /\ WF_vars(Sweep)
    /\ \A t \in Tokens : WF_viewVars(PageStep(t) /\ UNCHANGED vars)

-----------------------------------------------------------------------------
(***************************************************************************)
(* A done or stopped shown by the page is what status.json says, and       *)
(* keeps saying, for a contained job.                                      *)
(***************************************************************************)
ShownEndIsTrue ==
    page.run \in Contained /\ page.state \in {"done", "stopped"}
        => status[page.run].state = page.state

RowsAreThePrefix ==
    \A i \in DOMAIN page.rows : page.rows[i] = <<page.run, i>>

LateBackfillIsComplete ==
    \A t \in Tokens :
        t = token /\ t \in late /\ poll[t].at = "over" /\ page.run \in Contained
            => Len(page.rows) = steps[page.run]

(***************************************************************************)
(* The charts show rows 1, 2, ... of the attached run, each once and in    *)
(* order, and rows of no other run: late answers of an earlier attachRun   *)
(* (the run selector was changed meanwhile) never mix in.  And a page that *)
(* was attached after its contained run had ended (a reload, or another    *)
(* choice of the run selector) stops polling only with all of the run's    *)
(* rows.  A run outside may go on after a sweep has marked it failed.      *)
(***************************************************************************)
ChartsShowTheRun == RowsAreThePrefix /\ LateBackfillIsComplete

(***************************************************************************)
(* A page that stays on a contained run whose end is there to be read      *)
(* comes to show a terminal state, whatever restarts of the server         *)
(* interrupted its requests.                                               *)
(***************************************************************************)
PageSettles ==
    \A j \in Contained :
        <>[](page.run = j /\ Shown(j) \in Terminal) => <>(page.state \in Terminal)

(***************************************************************************)
(* The tail reader must skip an incomplete last line and pick it up next   *)
(* poll: a page that stopped polling has every row of its run.             *)
(***************************************************************************)
NothingLeftUnread ==
    \A t \in Tokens : t = token /\ poll[t].at = "over" /\ pc[page.run] = "exited"
        => Len(page.rows) = steps[page.run]

(***************************************************************************)
(* An answer "process died (pid ...) without finishing" is given only for  *)
(* a process that left no final state.                                     *)
(***************************************************************************)
DiedMeansUnfinished ==
    \A t \in Tokens :
        poll[t].at = "answered" /\ poll[t].answer = "failed"
            /\ poll[t].st.state \in Active
        => status[poll[t].run].state \notin {"done", "stopped"}
=============================================================================
