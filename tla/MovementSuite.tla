--------------------------- MODULE MovementSuite ---------------------------
(***************************************************************************)
(* Lessons 15-18 as their users run them: a job that records demos, one    *)
(* that trains on what is on disk and one that evaluates a checkpoint,     *)
(* each a process of its own, started and stopped at any time.             *)
(***************************************************************************)
EXTENDS ArmEval

CONSTANTS
    Lessons,  \* lessons whose jobs are run, one of them in a behaviour
    MaxJobs   \* bound: jobs running at a time

VARIABLES jobs  \* the jobs started so far

vars == <<demoVars, trainVars, evalVars, jobs>>

Init ==
    /\ DemoInit /\ TrainInit /\ EvalInit
    /\ lesson \in Lessons
    /\ preset \in IF lesson = 15 THEN {"none"} ELSE {"suite", "single"}
    /\ jobs = {}

Ended == {"done", "stopped", "failed", "killed"}
Running == {j \in jobs : CASE j = "record" -> rpc \notin Ended
                           [] j = "train" -> tpc \notin Ended
                           [] j = "eval" -> epc \notin Ended}

Start(j) ==
    /\ Cardinality(Running) < MaxJobs /\ "eval" \notin jobs
    /\ jobs' = jobs \cup {j}

\* Bound: an evaluation runs alone, last, and after no recording.  It reads one
\* checkpoint before its first episode, and nothing of the other jobs after that.
Alone(j) == "record" \notin jobs /\ Running = {} /\ Start(j)

AskStop ==
    /\ \E j \in Running \ stopAsked : stopAsked' = stopAsked \cup {j}
    /\ UNCHANGED <<recVars, diskVars, trainVars, evalVars, jobs>>

Works ==
    \/ Record /\ rpc # "idle" /\ UNCHANGED <<trainVars, evalVars, jobs>>
    \/ Training /\ tpc # "idle" /\ UNCHANGED <<evalVars, jobs>>
    \/ Evaluate /\ UNCHANGED jobs

Next ==
    \/ Record /\ rpc = "idle" /\ Start("record") /\ UNCHANGED <<trainVars, evalVars>>
    \/ Training /\ tpc = "idle" /\ Start("train") /\ UNCHANGED evalVars
    \/ EvalStarts /\ Alone("eval")
    \/ Works
    \/ AskStop

Spec == Init /\ [][Next]_vars

=============================================================================
