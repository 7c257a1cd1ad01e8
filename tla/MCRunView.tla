----------------------------- MODULE MCRunView -----------------------------
\* Instances of RunView for TLC.
EXTENDS RunView

\* The page, and the fairness of the jobs it watches.
WatchedSpec == FairViewSpec /\ Fairness
=============================================================================
