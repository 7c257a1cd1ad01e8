-------------------------- MODULE MCMovementSuite --------------------------
\* Instances of MovementSuite for TLC.
EXTENDS MovementSuite
MCTaskNames == <<"t0", "t1", "t2", "t3">>
MCRecTasks == <<"t1", "t2">>
=============================================================================
