---------------------------- MODULE MCTrainLoop ----------------------------
\* Instances of TrainLoop for TLC.
EXTENDS TrainLoop
=============================================================================
