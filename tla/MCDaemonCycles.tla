-------------------------- MODULE MCDaemonCycles ---------------------------
(* DaemonCycles for TLC: names for paths.                                  *)
EXTENDS DaemonCycles

CONSTANTS here, there

=============================================================================
