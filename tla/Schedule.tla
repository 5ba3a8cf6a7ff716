------------------------------ MODULE Schedule ------------------------------
(* The daemon's scheduler: one goroutine that waits for the nearest of     *)
(* several deadlines and runs that timer's cycle to its end. What a cycle  *)
(* does is not told apart: that is DaemonCycles. An interruption is a job  *)
(* the goroutine runs for the control socket between two cycles.           *)
EXTENDS Integers

CONSTANTS
  Timers,         (* the enabled timers                                    *)
  Poll,           (* the one that backs off while the repository is idle   *)
  Sweep,          (* the one due at once when the store has no sweep       *)
  Rank,           (* priority of equal deadlines: the lower goes first     *)
  Interval,       (* ticks between the end of a cycle and the next         *)
  IdleBackoff,    (* ticks an idle poll adds                               *)
  MaxMultiplier,  (* maxBackoffMultiplier                                  *)
  MaxNow          (* bound: the clock stops here                           *)

ASSUME ScheduleAssumption ==
  /\ Poll \in Timers /\ Sweep \in Timers
  /\ Rank \in [Timers -> Nat]
  /\ Interval \in [Timers -> Nat \ {0}]
  /\ IdleBackoff \in Nat /\ MaxMultiplier \in Nat /\ MaxNow \in Nat

VARIABLES
  now,
  deadline,       (* schedule: when each timer is due                      *)
  fired,          (* the timer the goroutine waits for or runs             *)
  at,             (* where the goroutine is                                *)
  idle,           (* idleMultiplier                                        *)
  passed          (* history: how often each timer ran while t was due     *)

schedule == <<deadline, fired, at, idle, passed>>
vars     == <<now, deadline, fired, at, idle, passed>>

Places == {"loop", "select", "cycle", "busy", "stopped"}

TypeOK ==
  /\ now \in Nat
  /\ deadline \in [Timers -> Nat]
  /\ fired \in Timers
  /\ at \in Places
  /\ idle \in 0..MaxMultiplier
  /\ passed \in [Timers -> [Timers -> Nat]]

NobodyPassed == [u \in Timers |-> 0]
Due(t) == deadline[t] <= now

(* hasSweepRun decides about the sweep; every other timer is due one       *)
(* interval from now.                                                      *)
Init ==
  /\ now = 0
  /\ deadline \in {Interval, [Interval EXCEPT ![Sweep] = 0]}
  /\ fired = Poll /\ at = "loop" /\ idle = 0
  /\ passed = [t \in Timers |-> NobodyPassed]

Tick ==
  /\ now < MaxNow /\ now' = now + 1
  /\ UNCHANGED schedule

(* earliest: the nearest deadline, and of equal ones the first in rank.    *)
Earliest(t) ==
  \A u \in Timers : \/ deadline[t] < deadline[u]
                    \/ deadline[t] = deadline[u] /\ Rank[t] <= Rank[u]

Arm ==
  /\ at = "loop" /\ at' = "select"
  /\ \E t \in Timers : Earliest(t) /\ fired' = t
  /\ UNCHANGED <<now, deadline, idle, passed>>

(* The timer fires: the cycle begins.                                      *)
StartCycle ==
  /\ at = "select" /\ Due(fired) /\ at' = "cycle"
  /\ passed' = [t \in Timers |->
                  IF t = fired THEN NobodyPassed
                  ELSE IF Due(t) THEN [passed[t] EXCEPT ![fired] = @ + 1]
                  ELSE passed[t]]
  /\ UNCHANGED <<now, deadline, fired, idle>>

Least(a, b) == IF a <= b THEN a ELSE b

(* nextPollDelay, for the multiplier the poll has left behind.             *)
PollDelay(mult) ==
  IF IdleBackoff = 0 \/ mult = 0 THEN Interval[Poll]
  ELSE LET most == MaxMultiplier * Interval[Poll] IN
       Interval[Poll] + Least(mult * IdleBackoff, most)
Delay(t) == IF t = Poll THEN PollDelay(idle') ELSE Interval[t]

(* One more idle poll.                                                     *)
GrowsForEver == idle + 1                                        \* mutant
Grown == Least(idle + 1, MaxMultiplier)

(* The cycle is over, run, failed or skipped for the day's budget: its     *)
(* timer counts from now. An idle poll grows the backoff, one that found   *)
(* commits resets it, one that failed leaves it.                           *)
KeepsBeat(t) == deadline[t] + Delay(t)                          \* mutant
NextDeadline(t) == now + Delay(t)

EndCycle ==
  /\ at = "cycle" /\ at' = "loop"
  /\ IF fired = Poll THEN idle' \in {idle, Grown, 0}
                     ELSE idle' = idle
  /\ deadline' = [deadline EXCEPT ![fired] = NextDeadline(fired)]
  /\ UNCHANGED <<now, fired, passed>>

Interrupt ==
  /\ at = "select" /\ at' = "busy"
  /\ UNCHANGED <<now, deadline, fired, idle, passed>>

Resume ==
  /\ at = "busy" /\ at' = "loop"
  /\ UNCHANGED <<now, deadline, fired, idle, passed>>

Stop ==
  /\ at = "select" /\ at' = "stopped"
  /\ UNCHANGED <<now, deadline, fired, idle, passed>>

Next ==
  Tick \/ Arm \/ StartCycle \/ EndCycle \/ Interrupt \/ Resume \/ Stop

Spec == Init /\ [][Next]_vars

(* However long cycles and interruptions take and however late the clock   *)
(* is noticed, a timer that is due is overtaken at most once by each other *)
(* one: ties, backlogs and the idle backoff starve nobody (run.go:63-87    *)
(* and the reschedule from the end of the cycle, 213-277).                 *)
BoundedOvertaking == \A t, u \in Timers : passed[t][u] <= 1

=============================================================================
