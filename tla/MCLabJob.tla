------------------------------ MODULE MCLabJob ------------------------------
\* Instances of LabJob for TLC.
EXTENDS LabJob
=============================================================================
