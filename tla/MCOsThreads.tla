---------------------------- MODULE MCOsThreads -----------------------------
(* OsThreads for TLC.  Its run checks liveness, so no symmetry is declared.  *)
EXTENDS OsThreads

=============================================================================
