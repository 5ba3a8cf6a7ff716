----------------------------- MODULE MCSchedule ----------------------------
(* Schedule for TLC: three timers, in the order of run.go:54-58.           *)
EXTENDS Schedule

CONSTANTS sweep, drain, poll

MCRank     == [t \in Timers |-> CASE t = sweep -> 1 [] t = drain -> 2 [] OTHER -> 3]
MCInterval == [t \in Timers |-> CASE t = sweep -> 3 [] t = drain -> 2 [] OTHER -> 1]

=============================================================================
