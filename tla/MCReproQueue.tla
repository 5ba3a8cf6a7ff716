---------------------------- MODULE MCReproQueue ----------------------------
(* ReproQueue for TLC: names for findings and workers.                     *)
EXTENDS ReproQueue

CONSTANTS f1, f2, w1, w2

=============================================================================
