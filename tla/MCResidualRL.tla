---------------------------- MODULE MCResidualRL ----------------------------
\* Instances of ResidualRL for TLC.
EXTENDS ResidualRL
=============================================================================
