------------------------ MODULE MCEnvironmentLifetime ------------------------
(* EnvironmentLifetime for TLC: every program of a few calls.               *)
EXTENDS EnvironmentLifetime
=============================================================================
