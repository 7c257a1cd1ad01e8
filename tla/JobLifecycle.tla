---------------------------- MODULE JobLifecycle ----------------------------
(***************************************************************************)
(* What the lab promises of a job, as a user of the page sees it: a job is *)
(* asked for, waits, runs, may be paused and resumed, and ends once.       *)
(***************************************************************************)
CONSTANT Jobs
VARIABLE shown

Moves ==
    {<<"none", "queued">>, <<"none", "failed">>,
     <<"queued", "running">>, <<"queued", "failed">>,
     <<"running", "paused">>, <<"paused", "running">>, <<"paused", "failed">>}
    \cup {<<"running", end>> : end \in {"done", "failed", "stopped"}}

Init == shown = [j \in Jobs |-> "none"]

ShownStates == {"none"} \cup {m[2] : m \in Moves}

\* Several jobs may move at once: a stopping container ends all of its jobs.
Next ==
    /\ shown' \in [Jobs -> ShownStates]
    /\ \A j \in Jobs : shown'[j] = shown[j] \/ <<shown[j], shown'[j]>> \in Moves

Spec == Init /\ [][Next]_shown
=============================================================================
