------------------------------ MODULE MCDriver ------------------------------
\* Instances of Driver for TLC: the bounds are in Driver_*.cfg.
EXTENDS Driver
=============================================================================
