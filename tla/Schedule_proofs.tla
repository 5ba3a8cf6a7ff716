-------------------------- MODULE Schedule_proofs --------------------------
(* Proofs about Schedule: type correctness, and that a timer that is due   *)
(* is overtaken at most once by each other timer.                          *)
EXTENDS Schedule, TLAPS

(* The goroutine waits for a deadline that no other is before.             *)
WaitsForNearest ==
  at = "select" => \A u \in Timers : deadline[fired] <= deadline[u]

(* The timer that runs starts its count afresh.                            *)
RunnerUnpassed ==
  at = "cycle" => \A u \in Timers : passed[fired][u] = 0

(* Who has overtaken a due timer is due after it, or is running still.     *)
PassersWait ==
  \A t, u \in Timers :
    /\ passed[t][u] <= 1
    /\ passed[t][u] > 0 =>
         /\ Due(t)
         /\ deadline[t] < deadline[u] \/ (at = "cycle" /\ fired = u)

IInv == TypeOK /\ WaitsForNearest /\ RunnerUnpassed /\ PassersWait

-----------------------------------------------------------------------------
(* A poll is put off by at least an interval, so the next deadline lies in *)
(* the future.                                                             *)
LEMMA PollDelayPositive ==
  ASSUME NEW mult \in Nat
  PROVE  PollDelay(mult) \in Nat \ {0}
<1> DEFINE extra == mult * IdleBackoff
           most  == MaxMultiplier * Interval[Poll]
<1>1. Interval[Poll] \in Nat \ {0} /\ IdleBackoff \in Nat /\ MaxMultiplier \in Nat
  BY ScheduleAssumption
<1>2. extra \in Nat /\ most \in Nat
  BY <1>1, SMT
<1>3. Least(extra, most) \in Nat
  BY <1>2 DEF Least
<1> HIDE DEF extra, most
<1>4. Interval[Poll] + Least(extra, most) \in Nat \ {0}
  BY <1>1, <1>3
<1>5. QED
  BY <1>1, <1>4 DEF PollDelay, extra, most

LEMMA DelayPositive ==
  ASSUME NEW t \in Timers, idle' \in Nat
  PROVE  Delay(t) \in Nat \ {0}
BY PollDelayPositive, ScheduleAssumption DEF Delay

LEMMA InitIInv == Init => IInv
<1> SUFFICES ASSUME Init PROVE IInv
  OBVIOUS
<1>1. Interval \in [Timers -> Nat] /\ [Interval EXCEPT ![Sweep] = 0] \in [Timers -> Nat]
  BY ScheduleAssumption
<1>2. \A t, u \in Timers : passed[t][u] = 0
  BY DEF Init, NobodyPassed
<1>3. TypeOK
  BY <1>1, ScheduleAssumption DEF Init, TypeOK, Places, NobodyPassed
<1>4. QED
  BY <1>2, <1>3 DEF IInv, WaitsForNearest, RunnerUnpassed, PassersWait, Init

LEMMA TickKeeps == IInv /\ Tick => IInv'
<1> SUFFICES ASSUME IInv, Tick PROVE IInv'
  OBVIOUS
<1>1. TypeOK'
  BY DEF IInv, TypeOK, Tick, schedule
<1>2. WaitsForNearest' /\ RunnerUnpassed'
  BY DEF IInv, WaitsForNearest, RunnerUnpassed, Tick, schedule
<1>3. PassersWait'
  BY DEF IInv, PassersWait, TypeOK, Due, Tick, schedule
<1>4. QED
  BY <1>1, <1>2, <1>3 DEF IInv

LEMMA ArmKeeps == IInv /\ Arm => IInv'
<1> SUFFICES ASSUME IInv, Arm PROVE IInv'
  OBVIOUS
<1>1. PICK t \in Timers : Earliest(t) /\ fired' = t
  BY DEF Arm
<1>2. TypeOK'
  BY <1>1 DEF IInv, TypeOK, Arm, Places
<1>3. WaitsForNearest'
  BY <1>1 DEF IInv, TypeOK, WaitsForNearest, Earliest, Arm
<1>4. RunnerUnpassed' /\ PassersWait'
  BY DEF IInv, RunnerUnpassed, PassersWait, Due, Arm
<1>5. QED
  BY <1>2, <1>3, <1>4 DEF IInv

LEMMA StartCycleKeeps == IInv /\ StartCycle => IInv'
<1> SUFFICES ASSUME IInv, StartCycle PROVE IInv'
  OBVIOUS
<1>1. /\ at = "select" /\ at' = "cycle" /\ Due(fired) /\ fired' = fired
      /\ now' = now /\ deadline' = deadline /\ idle' = idle
  BY DEF StartCycle
<1>2. \A u \in Timers : passed'[fired][u] = 0
  BY DEF StartCycle, IInv, TypeOK, NobodyPassed
<1>3. \A t, u \in Timers :
        t # fired => passed'[t][u] = IF u = fired /\ Due(t) THEN passed[t][u] + 1
                                     ELSE passed[t][u]
  BY DEF StartCycle, IInv, TypeOK
<1>4. \A t \in Timers : passed[t][fired] = 0
  BY <1>1 DEF IInv, TypeOK, WaitsForNearest, PassersWait
<1>5. passed' \in [Timers -> [Timers -> Nat]]
  BY DEF StartCycle, IInv, TypeOK, NobodyPassed
<1>6. TypeOK'
  BY <1>1, <1>5 DEF IInv, TypeOK, Places
<1>7. PassersWait'
  <2> SUFFICES ASSUME NEW t \in Timers, NEW u \in Timers
               PROVE  /\ passed'[t][u] <= 1
                      /\ passed'[t][u] > 0 =>
                           /\ Due(t)'
                           /\ deadline'[t] < deadline'[u] \/ (at' = "cycle" /\ fired' = u)
    BY DEF PassersWait
  <2>1. CASE t = fired
    BY <1>2, <2>1
  <2>2. CASE t # fired /\ u = fired
    BY <1>1, <1>3, <1>4, <2>2 DEF Due
  <2>3. CASE t # fired /\ u # fired
    BY <1>1, <1>3, <2>3 DEF IInv, PassersWait, Due
  <2>4. QED
    BY <2>1, <2>2, <2>3
<1>8. QED
  BY <1>1, <1>2, <1>6, <1>7 DEF IInv, WaitsForNearest, RunnerUnpassed

LEMMA EndCycleKeeps == IInv /\ EndCycle => IInv'
<1> SUFFICES ASSUME IInv, EndCycle PROVE IInv'
  OBVIOUS
<1> DEFINE next == NextDeadline(fired)
<1>1. /\ at = "cycle" /\ at' = "loop" /\ now' = now /\ fired' = fired
      /\ passed' = passed /\ deadline' = [deadline EXCEPT ![fired] = next]
  BY DEF EndCycle
<1>2. idle' \in 0..MaxMultiplier
  BY ScheduleAssumption DEF EndCycle, IInv, TypeOK, Grown, Least
<1>3. next \in Nat /\ next > now
  <2>1. idle' \in Nat
    BY <1>2, ScheduleAssumption
  <2>2. Delay(fired) \in Nat \ {0}
    BY <2>1, DelayPositive DEF IInv, TypeOK
  <2>3. QED
    BY <2>2 DEF NextDeadline, IInv, TypeOK
<1> HIDE DEF next
<1>4. TypeOK'
  BY <1>1, <1>2, <1>3 DEF IInv, TypeOK, Places
<1>5. PassersWait'
  <2> SUFFICES ASSUME NEW t \in Timers, NEW u \in Timers
               PROVE  /\ passed[t][u] <= 1
                      /\ passed[t][u] > 0 =>
                           /\ Due(t)'
                           /\ deadline'[t] < deadline'[u] \/ (at' = "cycle" /\ fired' = u)
    BY <1>1 DEF PassersWait
  <2>1. CASE t = fired
    BY <1>1, <2>1 DEF IInv, RunnerUnpassed
  <2>2. CASE t # fired /\ u = fired
    BY <1>1, <1>3, <2>2 DEF IInv, TypeOK, PassersWait, Due
  <2>3. CASE t # fired /\ u # fired
    BY <1>1, <2>3 DEF IInv, TypeOK, PassersWait, Due
  <2>4. QED
    BY <2>1, <2>2, <2>3
<1>6. QED
  BY <1>1, <1>4, <1>5 DEF IInv, WaitsForNearest, RunnerUnpassed

LEMMA OthersKeep == IInv /\ (Interrupt \/ Resume \/ Stop) => IInv'
<1> SUFFICES ASSUME IInv, Interrupt \/ Resume \/ Stop PROVE IInv'
  OBVIOUS
<1>1. /\ at # "cycle" /\ at' \in {"busy", "loop", "stopped"}
      /\ UNCHANGED <<now, deadline, fired, idle, passed>>
  BY DEF Interrupt, Resume, Stop
<1>2. TypeOK'
  BY <1>1 DEF IInv, TypeOK, Places
<1>3. PassersWait'
  BY <1>1 DEF IInv, PassersWait, Due
<1>4. QED
  BY <1>1, <1>2, <1>3 DEF IInv, WaitsForNearest, RunnerUnpassed

LEMMA StutterKeeps == IInv /\ UNCHANGED vars => IInv'
BY DEF IInv, TypeOK, WaitsForNearest, RunnerUnpassed, PassersWait, Due, vars

(* The invariant holds in every reachable state.                           *)
LEMMA IInvHolds == Spec => []IInv
<1>1. IInv /\ [Next]_vars => IInv'
  BY TickKeeps, ArmKeeps, StartCycleKeeps, EndCycleKeeps, OthersKeep, StutterKeeps
  DEF Next
<1>2. QED
  BY <1>1, InitIInv, PTL DEF Spec

(* The deadlines, the goroutine's place and the backoff stay what they     *)
(* should be for every set of timers, every interval and every bound.      *)
THEOREM TypeCorrect == Spec => []TypeOK
<1>1. IInv => TypeOK
  BY DEF IInv
<1>2. QED
  BY <1>1, IInvHolds, PTL

(* No timer starves: whatever the number of timers, their intervals and    *)
(* the time cycles take, a due timer is overtaken at most once by each     *)
(* other one (run.go:63-87, 213-277).                                      *)
THEOREM NoStarvation == Spec => []BoundedOvertaking
<1>1. IInv => BoundedOvertaking
  BY DEF IInv, PassersWait, BoundedOvertaking
<1>2. QED
  BY <1>1, IInvHolds, PTL

=============================================================================
