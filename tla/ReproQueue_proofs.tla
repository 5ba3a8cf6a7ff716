-------------------------- MODULE ReproQueue_proofs --------------------------
(***************************************************************************)
(* Theorems about ReproQueue, for every number of findings, workers,       *)
(* attempts, faults, interrupts and reopened rows: type correctness, that  *)
(* its rows implement ReproLifecycle, and, when no attempt outlives its    *)
(* lease, that claims are exclusive, the retry budget is exact and no      *)
(* demonstrated bug is settled without evidence.                           *)
(***************************************************************************)
EXTENDS ReproQueue, TLAPS

(* TypeOK in three parts, each disturbed by its own group of statements.   *)
RowsOK ==
  /\ state \in [Fingerprints -> States \cup {"absent"}]
  /\ count \in [Fingerprints -> 0..MaxAttempts]
  /\ stale \in [Fingerprints -> BOOLEAN]

WorkersOK ==
  /\ pc \in [Workers -> PcLabels]
  /\ job \in [Workers -> Fingerprints \cup {NoFp}]
  /\ \A w \in Workers : job[w] = NoFp <=> pc[w] = "idle"

RestOK ==
  /\ exitZero \in [Fingerprints -> 0..ContradictionThreshold]
  /\ evidence \in [Fingerprints -> SUBSET Evidence]
  /\ missing \in SUBSET Gated
  /\ proc \in {"up", "stopping", "down"}
  /\ infra \in [Fingerprints -> Nat]
  /\ lost \in [Fingerprints -> Nat]
  /\ demo \in [Fingerprints -> BOOLEAN]
  /\ faults \in 0..MaxFaults
  /\ interrupts \in 0..MaxInterrupts
  /\ reopens \in 0..MaxReopens

(* The type invariant is the conjunction of the three parts, in both states*)
(* of a step.                                                              *)
LEMMA TypeParts ==
  /\ TypeOK <=> RowsOK /\ WorkersOK /\ RestOK
  /\ TypeOK' <=> RowsOK' /\ WorkersOK' /\ RestOK'
BY DEF TypeOK, RowsOK, WorkersOK, RestOK

(* Writing one row with a legal state and count keeps the rows well typed. *)
LEMMA SetRowType ==
  ASSUME RowsOK, NEW f \in Fingerprints, NEW s \in States,
         NEW c \in 0..MaxAttempts, SetRow(f, s, c)
  PROVE  RowsOK'
BY DEF RowsOK, SetRow

(* So does INSERT OR IGNORE.                                               *)
LEMMA EnqueueType ==
  ASSUME RowsOK, NEW f \in Fingerprints, EnqueueRepro(f)
  PROVE  RowsOK'
<1>1. CASE state[f] = "absent"
  <2>1. SetRow(f, "pending", 0)
    BY <1>1 DEF EnqueueRepro
  <2>2. "pending" \in States /\ 0 \in 0..MaxAttempts
    BY ReproQueueAssumption DEF States
  <2>3. QED
    BY <2>1, <2>2, SetRowType
<1>2. CASE state[f] # "absent"
  BY <1>2 DEF EnqueueRepro, RowsOK, rows
<1>3. QED
  BY <1>1, <1>2

(* Rows that do not change stay well typed.                                *)
LEMMA SameRows == RowsOK /\ UNCHANGED rows => RowsOK'
BY DEF RowsOK, rows

(* A busy worker that moves to its next statement stays busy.              *)
LEMMA GotoType ==
  ASSUME WorkersOK, NEW w \in Workers, job[w] # NoFp,
         NEW label \in PcLabels \ {"idle"}, Goto(w, label)
  PROVE  WorkersOK'
BY DEF WorkersOK, Goto

(* A worker that takes a finding becomes busy.                             *)
LEMMA TakeType ==
  ASSUME WorkersOK, NEW w \in Workers, NEW f \in Fingerprints,
         NEW label \in PcLabels \ {"idle"}, Take(w, f, label)
  PROVE  WorkersOK'
BY ReproQueueAssumption DEF WorkersOK, Take

(* A worker that returns is idle and has no finding.                       *)
LEMMA ReturnType ==
  ASSUME WorkersOK, NEW w \in Workers, Return(w)
  PROVE  WorkersOK'
BY DEF WorkersOK, Return, PcLabels, Owning

(* A worker at a statement other than "idle" works on a finding.           *)
LEMMA BusyJob ==
  ASSUME WorkersOK, NEW w \in Workers, pc[w] # "idle"
  PROVE  job[w] \in Fingerprints /\ job[w] # NoFp
BY DEF WorkersOK

-----------------------------------------------------------------------------
(* Dispatching: an idle worker takes a finding by one of the three paths.   *)
LEMMA DispatchType ==
  ASSUME TypeOK, NEW w \in Workers, NEW f \in Fingerprints, Pick(w, f)
  PROVE  TypeOK'
<1> USE TypeParts
<1>1. CASE HookAdmit(w, f)
  <2>1. RowsOK'
    <3>1. EnqueueRepro(f) \/ UNCHANGED rows
      BY <1>1 DEF HookAdmit
    <3>2. QED
      BY <3>1, EnqueueType, SameRows
  <2>2. WorkersOK'
    <3>1. CASE UNCHANGED <<pc, job>>
      BY <3>1 DEF WorkersOK
    <3>2. CASE Take(w, f, "slot")
      BY <3>2, TakeType DEF PcLabels
    <3>3. QED
      BY <1>1, <3>1, <3>2 DEF HookAdmit, Admit
  <2>3. RestOK'
    BY <1>1, ReproQueueAssumption DEF HookAdmit, RestOK, DatabaseFails, hist
  <2>4. QED
    BY <2>1, <2>2, <2>3
<1>2. CASE BacklogPick(w, f) \/ AttendedPick(w, f)
  <2>1. Take(w, f, "gate") /\ UNCHANGED rows
    BY <1>2 DEF BacklogPick, AttendedPick
  <2>2. RestOK'
    BY <1>2 DEF BacklogPick, AttendedPick, RestOK, hist, bounds
  <2>3. QED
    BY <2>1, <2>2, TakeType, SameRows DEF PcLabels
<1>3. QED
  BY <1>1, <1>2 DEF Pick

(* promoteOne's statements, when they succeed, keep the types.             *)
LEMMA ProceedType ==
  ASSUME TypeOK, NEW w \in Workers, Proceed(w)
  PROVE  TypeOK'
<1> USE TypeParts DEF At
<1>0. job[w] \in Fingerprints /\ job[w] # NoFp /\ pc[w] # "idle"
  <2>1. pc[w] # "idle"
    BY DEF Proceed, HookSlot, Gate, BlockReproAttemptOnToolchain,
           ReclaimStale, ClaimReproAttempt, ReadBack, AttemptFails,
           AttemptDemonstrates, AttemptRefutes, ReleaseReproAttempt,
           RequeueReproAttemptOnInfraError, ZeroExitZeroCount,
           PersistOutcome, FinishReproAttempt, RecordExitZeroAttempt,
           ProvePatch
  <2>2. QED
    BY <2>1, BusyJob
<1>00. /\ state[job[w]] \in States \cup {"absent"}
       /\ count[job[w]] \in 0..MaxAttempts
  BY <1>0 DEF RowsOK
<1> USE <1>0, <1>00
(* Statements that leave the rows alone.                                   *)
<1>1. CASE HookSlot(w) \/ ReadBack(w) \/ AttemptFails(w) \/ AttemptRefutes(w)
           \/ AttemptDemonstrates(w) \/ PersistOutcome(w) \/ ProvePatch(w)
  <2> USE DEF HookSlot, ReadBack, AttemptFails, AttemptRefutes,
              AttemptDemonstrates, PersistOutcome, ProvePatch,
              AfterPersistFails, StatementFails, DatabaseFails
  <2>1. RowsOK'
    BY <1>1, SameRows
  <2>2. Return(w) \/ \E label \in PcLabels \ {"idle"} : Goto(w, label)
    BY <1>1 DEF PcLabels, Owning
  <2>3. WorkersOK'
    BY <2>2, GotoType, ReturnType
  <2>4. RestOK'
    <3>1. CASE PersistOutcome(w)
      <4>1. evidence' \in [Fingerprints -> SUBSET Evidence]
        BY <3>1 DEF RestOK, Evidence
      <4>2. faults' \in 0..MaxFaults
        BY <3>1, ReproQueueAssumption DEF RestOK
      <4>3. QED
        BY <3>1, <4>1, <4>2 DEF RestOK, hist
    <3>2. CASE ProvePatch(w)
      <4>1. evidence' \in [Fingerprints -> SUBSET Evidence]
        BY <3>2 DEF RestOK, Evidence
      <4>2. QED
        BY <3>2, <4>1 DEF RestOK, hist, bounds
    <3>3. CASE HookSlot(w)
      BY <3>3, ReproQueueAssumption DEF RestOK, hist, bounds
    <3>4. CASE ReadBack(w) \/ AttemptFails(w) \/ AttemptRefutes(w)
               \/ AttemptDemonstrates(w)
      BY <3>4 DEF RestOK, hist, bounds
    <3>5. QED
      BY <1>1, <3>1, <3>2, <3>3, <3>4
  <2>5. QED
    BY <2>1, <2>3, <2>4
(* Statements that write at most one row of attempt_count and state.       *)
<1>2. CASE Gate(w)
  <2>1. EnqueueRepro(job[w]) /\ RestOK'
    BY <1>2 DEF Gate, RestOK, hist, bounds
  <2>2. \E label \in PcLabels \ {"idle"} : Goto(w, label)
    BY <1>2 DEF Gate, PcLabels
  <2>3. QED
    BY <2>1, <2>2, EnqueueType, GotoType
<1>3. CASE BlockReproAttemptOnToolchain(w)
  <2>1. \/ SetRow(job[w], "blocked_toolchain", count[job[w]])
        \/ UNCHANGED rows
    BY <1>3 DEF BlockReproAttemptOnToolchain
  <2>2. RowsOK'
    BY <2>1, SetRowType, SameRows DEF States
  <2>3. Return(w) /\ RestOK'
    BY <1>3 DEF BlockReproAttemptOnToolchain, RestOK, hist, bounds
  <2>4. QED
    BY <2>2, <2>3, ReturnType
<1>4. CASE ReclaimStale(w)
  <2>1. SetRow(job[w], "infra_retry", count[job[w]]) \/ UNCHANGED rows
    BY <1>4 DEF ReclaimStale
  <2>2. RowsOK'
    BY <2>1, SetRowType, SameRows DEF States
  <2>3. Goto(w, "claim") /\ RestOK'
    BY <1>4 DEF ReclaimStale, RestOK, hist, bounds
  <2>4. QED
    BY <2>2, <2>3, GotoType DEF PcLabels
<1>5. CASE ClaimReproAttempt(w)
  <2>1. \/ /\ count[job[w]] + 1 \in 0..MaxAttempts
           /\ SetRow(job[w], "running", count[job[w]] + 1)
        \/ UNCHANGED rows
    BY <1>5, ReproQueueAssumption DEF ClaimReproAttempt, ClaimGate
  <2>2. RowsOK'
    BY <2>1, SetRowType, SameRows DEF States
  <2>3. Goto(w, "readback") \/ Return(w)
    BY <1>5 DEF ClaimReproAttempt
  <2>4. WorkersOK'
    BY <2>3, GotoType, ReturnType DEF PcLabels, Owning
  <2>5. RestOK'
    BY <1>5 DEF ClaimReproAttempt, RestOK, bounds
  <2>6. QED
    BY <2>2, <2>4, <2>5
<1>6. CASE ReleaseReproAttempt(w)
  <2>1. \/ \E n \in 0..MaxAttempts : SetRow(job[w], "pending", n)
        \/ UNCHANGED rows
    <3>1. Refunded(job[w]) \in 0..MaxAttempts
      BY ReproQueueAssumption DEF Refunded
    <3>2. QED
      BY <3>1, <1>6 DEF ReleaseReproAttempt
  <2>2. RowsOK'
    BY <2>1, SetRowType, SameRows DEF States
  <2>3. Return(w) /\ RestOK'
    BY <1>6 DEF ReleaseReproAttempt, RestOK, hist, bounds
  <2>4. QED
    BY <2>2, <2>3, ReturnType
<1>7. CASE RequeueReproAttemptOnInfraError(w)
  <2>1. \/ \E s \in {"infra_retry", "abandoned"} :
               SetRow(job[w], s, count[job[w]])
        \/ UNCHANGED rows
    BY <1>7 DEF RequeueReproAttemptOnInfraError
  <2>2. RowsOK'
    BY <2>1, SetRowType, SameRows DEF States
  <2>3. Return(w) /\ RestOK'
    BY <1>7 DEF RequeueReproAttemptOnInfraError, RestOK, bounds
  <2>4. QED
    BY <2>2, <2>3, ReturnType
<1>8. CASE ZeroExitZeroCount(w) \/ RecordExitZeroAttempt(w)
  <2> USE DEF ZeroExitZeroCount, RecordExitZeroAttempt
  <2>1. RowsOK'
    BY <1>8 DEF RowsOK
  <2>2. Goto(w, "persist") \/ Return(w)
    BY <1>8
  <2>3. WorkersOK'
    BY <2>2, GotoType, ReturnType DEF PcLabels, Owning
  <2>4. RestOK'
    BY <1>8 DEF RestOK, ContradictionThreshold, hist, bounds
  <2>5. QED
    BY <2>1, <2>3, <2>4
<1>9. CASE FinishReproAttempt(w)
  <2>1. SetRow(job[w], "done", count[job[w]]) \/ UNCHANGED rows
    BY <1>9 DEF FinishReproAttempt
  <2>2. RowsOK'
    BY <2>1, SetRowType, SameRows DEF States
  <2>3. Goto(w, "prove") \/ Goto(w, "record") \/ Return(w)
    BY <1>9 DEF FinishReproAttempt
  <2>4. WorkersOK'
    BY <2>3, GotoType, ReturnType DEF PcLabels
  <2>5. RestOK'
    BY <1>9 DEF FinishReproAttempt, RestOK, hist, bounds
  <2>6. QED
    BY <2>2, <2>4, <2>5
<1>10. QED
  BY <1>1, <1>2, <1>3, <1>4, <1>5, <1>6, <1>7, <1>8, <1>9 DEF Proceed

(* So do its failures: a failed statement writes no row.                   *)
LEMMA DisturbType ==
  ASSUME TypeOK, NEW w \in Workers, Disturb(w)
  PROVE  TypeOK'
<1> USE TypeParts DEF FailBeforeClaim, ReadBackFails, WriteLost, At,
                     StatementFails, DatabaseFails
<1>1. job[w] \in Fingerprints /\ job[w] # NoFp
  <2>1. pc[w] # "idle"
    BY DEF Disturb
  <2>2. QED
    BY <2>1, BusyJob
<1>2. RowsOK'
  BY SameRows DEF Disturb
<1>3. Return(w) \/ \E label \in PcLabels \ {"idle"} : Goto(w, label)
  BY DEF Disturb, PcLabels, Owning
<1>4. WorkersOK'
  BY <1>1, <1>3, GotoType, ReturnType
<1>5. RestOK'
  BY <1>1, ReproQueueAssumption DEF Disturb, RestOK, hist
<1>6. QED
  BY <1>2, <1>4, <1>5

(* So do the process's interrupts, crashes and restarts and the other      *)
(* writers of a row.                                                       *)
LEMMA EnvironmentType ==
  ASSUME TypeOK, Environment
  PROVE  TypeOK'
<1> USE TypeParts
<1>1. CASE Interrupt \/ Exit \/ Restart \/ Crash
  <2> USE DEF Interrupt, Exit, Restart, Crash
  <2>1. RowsOK'
    BY <1>1, SameRows
  <2>2. WorkersOK'
    BY <1>1 DEF WorkersOK, PcLabels
  <2>3. RestOK'
    BY <1>1, ReproQueueAssumption DEF RestOK, hist, bounds
  <2>4. QED
    BY <2>1, <2>2, <2>3
<1>2. ASSUME NEW f \in Fingerprints, Reopen(f)
      PROVE  TypeOK'
  <2>1. RowsOK'
    BY <1>2, ReproQueueAssumption, SetRowType DEF Reopen, States
  <2>2. WorkersOK'
    BY <1>2 DEF Reopen, WorkersOK
  <2>3. RestOK'
    BY <1>2, ReproQueueAssumption DEF Reopen, RestOK
  <2>4. QED
    BY <2>1, <2>2, <2>3
<1>3. ASSUME NEW f \in Fingerprints,
             MarkReproAttemptUnsandboxed(f) \/ LeaseExpires(f)
      PROVE  TypeOK'
  BY <1>3 DEF MarkReproAttemptUnsandboxed, LeaseExpires,
              RowsOK, WorkersOK, RestOK, hist, bounds
<1>4. QED
  BY <1>1, <1>2, <1>3 DEF Environment

(* Type correctness: in particular attempt_count never leaves              *)
(* 0..MaxAttempts, whatever workers, crashes and stale leases do.          *)
THEOREM TypeCorrect == Spec => []TypeOK
<1>1. Init => TypeOK
  BY ReproQueueAssumption
     DEF Init, TypeOK, PcLabels, States, ContradictionThreshold
<1>2. TypeOK /\ [Next]_vars => TypeOK'
  <2>1. TypeOK /\ Next => TypeOK'
    BY DispatchType, ProceedType, DisturbType, EnvironmentType DEF Next, Step
  <2>2. TypeOK /\ UNCHANGED vars => TypeOK'
    BY DEF vars, TypeOK
  <2>3. QED
    BY <2>1, <2>2
<1>3. QED
  BY <1>1, <1>2, PTL DEF Spec

-----------------------------------------------------------------------------
(* The rows implement ReproLifecycle, whatever the workers do and however  *)
(* late: here the claims need not be exclusive. All the refinement needs   *)
(* besides the types is that a running row has been charged.               *)
RunningCharged == \A f \in Fingerprints : state[f] = "running" => count[f] > 0

(* The phase of each state.                                               *)
LEMMA PhaseOf ==
  /\ Phase("absent") = "unknown"
  /\ \A s \in Claimable : Phase(s) = "waiting"
  /\ Phase("running") = "owned"
  /\ \A s \in Settled : Phase(s) = "settled"
BY DEF Phase, Claimable, Settled

(* What a step does to the rows: nothing, or one write to one row.         *)
RowWrite(f) ==
  \/ state[f] = "absent" /\ SetRow(f, "pending", 0)
  \/ /\ state[f] \in Claimable
     /\ SetRow(f, "blocked_toolchain", count[f])
  \/ /\ state[f] \in Claimable /\ count[f] < MaxAttempts
     /\ SetRow(f, "running", count[f] + 1)
  \/ /\ state[f] = "running" /\ count[f] < MaxAttempts
     /\ SetRow(f, "infra_retry", count[f])
  \/ /\ state[f] = "running"
     /\ SetRow(f, "pending", Refunded(f))
  \/ /\ state[f] = "running"
     /\ \E s \in Settled : SetRow(f, s, count[f])
  \/ state[f] \in Settled /\ SetRow(f, "pending", 0)

(* Every step of the queue, its workers and its environment is one of these*)
(* writes or leaves states and counts alone.                               *)
LEMMA StepWrites ==
  ASSUME TypeOK, Next
  PROVE  UNCHANGED <<state, count>> \/ \E f \in Fingerprints : RowWrite(f)
<1>1. ASSUME NEW w \in Workers, NEW f \in Fingerprints, Pick(w, f)
      PROVE  UNCHANGED <<state, count>> \/ RowWrite(f)
  BY <1>1 DEF Pick, HookAdmit, BacklogPick, AttendedPick, EnqueueRepro,
              RowWrite, rows
<1>2. ASSUME NEW w \in Workers, Proceed(w), job[w] \in Fingerprints
      PROVE  UNCHANGED <<state, count>> \/ RowWrite(job[w])
  <2>1. CASE HookSlot(w) \/ ReadBack(w) \/ AttemptFails(w)
             \/ AttemptDemonstrates(w) \/ AttemptRefutes(w)
             \/ ZeroExitZeroCount(w) \/ PersistOutcome(w)
             \/ RecordExitZeroAttempt(w) \/ ProvePatch(w)
    BY <2>1 DEF HookSlot, ReadBack, AttemptFails, AttemptDemonstrates,
                AttemptRefutes, ZeroExitZeroCount, PersistOutcome,
                RecordExitZeroAttempt, ProvePatch, rows
  <2>2. CASE Gate(w) \/ BlockReproAttemptOnToolchain(w) \/ ReclaimStale(w)
             \/ ClaimReproAttempt(w) \/ ReleaseReproAttempt(w)
    BY <2>2 DEF Gate, EnqueueRepro, BlockReproAttemptOnToolchain,
                ReclaimStale, ReclaimGate, ClaimReproAttempt, ClaimGate,
                ReleaseReproAttempt, StillRunning, RowWrite, rows
  <2>3. CASE RequeueReproAttemptOnInfraError(w) \/ FinishReproAttempt(w)
    BY <2>3 DEF RequeueReproAttemptOnInfraError, FinishReproAttempt,
                StillRunning, RowWrite, Settled, rows
  <2>4. QED
    BY <1>2, <2>1, <2>2, <2>3 DEF Proceed
<1>3. ASSUME NEW w \in Workers, Proceed(w)
      PROVE  job[w] \in Fingerprints
  <2>1. pc[w] # "idle"
    BY <1>3 DEF Proceed, HookSlot, Gate, BlockReproAttemptOnToolchain,
         ReclaimStale, ClaimReproAttempt, ReadBack, AttemptFails,
         AttemptDemonstrates, AttemptRefutes, ReleaseReproAttempt,
         RequeueReproAttemptOnInfraError, ZeroExitZeroCount,
         PersistOutcome, FinishReproAttempt, RecordExitZeroAttempt,
         ProvePatch, At
  <2>2. QED
    BY <2>1, BusyJob, TypeParts
<1>4. ASSUME NEW w \in Workers, Disturb(w)
      PROVE  UNCHANGED <<state, count>>
  BY <1>4 DEF Disturb, FailBeforeClaim, ReadBackFails, WriteLost, rows
<1>5. ASSUME Environment
      PROVE  UNCHANGED <<state, count>> \/ \E f \in Fingerprints : RowWrite(f)
  BY <1>5 DEF Environment, Interrupt, Exit, Crash, Restart, Reopen,
              MarkReproAttemptUnsandboxed, LeaseExpires, RowWrite, rows
<1>6. QED
  BY <1>1, <1>2, <1>3, <1>4, <1>5 DEF Next, Step

(* A running row was charged by its claim, and a refund ends the running.  *)
LEMMA ChargedHolds == Spec => []RunningCharged
<1>1. Init => RunningCharged
  BY DEF Init, RunningCharged
<1>2. TypeOK /\ RunningCharged /\ [Next]_vars => RunningCharged'
  <2>1. ASSUME TypeOK, RunningCharged, NEW f \in Fingerprints, RowWrite(f)
        PROVE  RunningCharged'
    BY <2>1 DEF RowWrite, SetRow, RunningCharged, TypeOK, Settled
  <2>2. RunningCharged /\ UNCHANGED <<state, count>> => RunningCharged'
    BY DEF RunningCharged
  <2>3. QED
    BY <2>1, <2>2, StepWrites DEF vars
<1>3. QED
  BY <1>1, <1>2, TypeCorrect, PTL DEF Spec

(* Each write is a step of the abstract lifecycle or a stutter.            *)
LEMMA WriteIsLifecycle ==
  ASSUME TypeOK, RunningCharged, NEW f \in Fingerprints, RowWrite(f)
  PROVE  [Lifecycle!LifecycleNext]_(Lifecycle!lifecycleVars)
<1>1. ASSUME NEW s \in States, NEW n \in Nat, SetRow(f, s, n),
             Phase(state[f]) = Phase(s), n = count[f]
      PROVE  UNCHANGED Lifecycle!lifecycleVars
  BY <1>1 DEF SetRow, TypeOK, Lifecycle!lifecycleVars
<1>2. ASSUME NEW s \in States, NEW n \in Nat, SetRow(f, s, n)
      PROVE  Lifecycle!Move(f, Phase(state[f]), Phase(s), n)
  BY <1>2 DEF SetRow, TypeOK, Lifecycle!Move
<1>3. count[f] \in 0..MaxAttempts /\ MaxAttempts \in Nat
  BY ReproQueueAssumption DEF TypeOK
<1>4. CASE state[f] = "absent" /\ SetRow(f, "pending", 0)
  <2>1. Lifecycle!Offer(f)
    BY <1>2, <1>4, PhaseOf DEF Lifecycle!Offer, States, Claimable
  <2>2. QED
    BY <2>1 DEF Lifecycle!LifecycleNext
<1>5. CASE state[f] \in Claimable /\ SetRow(f, "blocked_toolchain", count[f])
  BY <1>1, <1>3, <1>5, PhaseOf DEF States, Claimable
<1>6. CASE /\ state[f] \in Claimable /\ count[f] < MaxAttempts
           /\ SetRow(f, "running", count[f] + 1)
  <2>1. Lifecycle!Lease(f)
    BY <1>2, <1>3, <1>6, PhaseOf DEF Lifecycle!Lease, States
  <2>2. QED
    BY <2>1 DEF Lifecycle!LifecycleNext
<1>7. CASE /\ state[f] = "running" /\ count[f] < MaxAttempts
           /\ SetRow(f, "infra_retry", count[f])
  <2>1. Lifecycle!Strike(f)
    BY <1>2, <1>3, <1>7, PhaseOf DEF Lifecycle!Strike, States, Claimable
  <2>2. QED
    BY <2>1 DEF Lifecycle!LifecycleNext
<1>8. CASE state[f] = "running" /\ SetRow(f, "pending", Refunded(f))
  <2>1. count[f] > 0 /\ Refunded(f) = count[f] - 1 /\ Refunded(f) \in Nat
    BY <1>3, <1>8 DEF RunningCharged, Refunded
  <2>2. Lifecycle!Refund(f)
    BY <1>2, <1>8, <2>1, PhaseOf DEF Lifecycle!Refund, States, Claimable
  <2>3. QED
    BY <2>2 DEF Lifecycle!LifecycleNext
<1>9. ASSUME state[f] = "running", NEW s \in Settled, SetRow(f, s, count[f])
      PROVE  Lifecycle!LifecycleNext
  <2>1. Lifecycle!Settle(f)
    BY <1>2, <1>3, <1>9, PhaseOf DEF Lifecycle!Settle, States, Settled
  <2>2. QED
    BY <2>1 DEF Lifecycle!LifecycleNext
<1>10. CASE state[f] \in Settled /\ SetRow(f, "pending", 0)
  <2>1. Lifecycle!Reoffer(f)
    BY <1>2, <1>10, PhaseOf DEF Lifecycle!Reoffer, States, Claimable
  <2>2. QED
    BY <2>1 DEF Lifecycle!LifecycleNext
<1>11. QED
  BY <1>4, <1>5, <1>6, <1>7, <1>8, <1>9, <1>10 DEF RowWrite

(* The refinement: with the budget MaxAttempts, the rows behave as         *)
(* ReproLifecycle prescribes in every behaviour of the queue.              *)
THEOREM LifecycleImplemented == Spec => RowsImplementLifecycle
<1>1. Init => Lifecycle!LifecycleInit
  BY PhaseOf DEF Init, Lifecycle!LifecycleInit
<1>2. TypeOK /\ RunningCharged /\ [Next]_vars
        => [Lifecycle!LifecycleNext]_(Lifecycle!lifecycleVars)
  <2>1. UNCHANGED <<state, count>> => UNCHANGED Lifecycle!lifecycleVars
    BY DEF Lifecycle!lifecycleVars
  <2>2. QED
    BY <2>1, StepWrites, WriteIsLifecycle DEF vars
<1>3. QED
  BY <1>1, <1>2, TypeCorrect, ChargedHolds, PTL
     DEF Spec, RowsImplementLifecycle, Lifecycle!LifecycleSpec

-----------------------------------------------------------------------------
(* When no attempt outlives its lease (~SlowAttempts).                     *)

(* Why a claim is exclusive: a worker that owns a row finds it running and *)
(* its lease fresh, so no WHERE clause lets another worker take it.        *)
OwnersRun ==
  \A w \in Workers :
    pc[w] \in Owning => state[job[w]] = "running" /\ ~stale[job[w]]

OneOwner ==
  \A v, w \in Workers :
    pc[v] \in Owning /\ pc[w] \in Owning /\ job[v] = job[w] => v = w

ClaimsInv == OwnersRun /\ OneOwner

(* A dispatch takes no row, and writes at most one that was absent.        *)
LEMMA ClaimsPick ==
  ASSUME TypeOK, ClaimsInv, NEW w \in Workers, NEW f \in Fingerprints,
         Pick(w, f)
  PROVE  ClaimsInv'
<1> USE DEF TypeOK, ClaimsInv, OwnersRun, OneOwner, Owning, At, rows
<1>1. CASE HookAdmit(w, f)
  BY <1>1 DEF HookAdmit, EnqueueRepro, SetRow, Admit, Take
<1>2. CASE BacklogPick(w, f) \/ AttendedPick(w, f)
  BY <1>2 DEF BacklogPick, AttendedPick, Take
<1>3. QED
  BY <1>1, <1>2 DEF Pick

(* promoteOne's statements write a row their worker owns, or one that is   *)
(* claimable or stale and therefore has no owner.                          *)
LEMMA ClaimsProceed ==
  ASSUME TypeOK, ClaimsInv, NEW w \in Workers, Proceed(w)
  PROVE  ClaimsInv'
<1> USE DEF TypeOK, ClaimsInv, OwnersRun, OneOwner, Owning, At, rows, Goto,
            Return
<1>1. CASE HookSlot(w)
  BY <1>1 DEF HookSlot
<1>2. CASE Gate(w)
  BY <1>2 DEF Gate, EnqueueRepro, SetRow
<1>3. CASE BlockReproAttemptOnToolchain(w)
  BY <1>3 DEF BlockReproAttemptOnToolchain, SetRow, Claimable
<1>4. CASE ReclaimStale(w)
  BY <1>4 DEF ReclaimStale, ReclaimGate, SetRow
<1>5. CASE ClaimReproAttempt(w)
  BY <1>5 DEF ClaimReproAttempt, ClaimGate, SetRow, Claimable
<1>6. CASE ReadBack(w) \/ AttemptFails(w) \/ AttemptDemonstrates(w)
           \/ AttemptRefutes(w) \/ PersistOutcome(w) \/ ProvePatch(w)
  BY <1>6 DEF ReadBack, AttemptFails, AttemptDemonstrates, AttemptRefutes,
              PersistOutcome, AfterPersistFails, ProvePatch
<1>7. CASE ReleaseReproAttempt(w)
  BY <1>7 DEF ReleaseReproAttempt, SetRow
<1>8. CASE RequeueReproAttemptOnInfraError(w)
  BY <1>8 DEF RequeueReproAttemptOnInfraError, SetRow
<1>9. CASE ZeroExitZeroCount(w)
  BY <1>9 DEF ZeroExitZeroCount
<1>10. CASE FinishReproAttempt(w)
  BY <1>10 DEF FinishReproAttempt, SetRow
<1>11. CASE RecordExitZeroAttempt(w)
  BY <1>11 DEF RecordExitZeroAttempt
<1>12. QED
  BY <1>1, <1>2, <1>3, <1>4, <1>5, <1>6, <1>7, <1>8, <1>9, <1>10, <1>11
     DEF Proceed

(* A failed statement gives a row up, or passes it on to the next one.     *)
LEMMA ClaimsDisturb ==
  ASSUME TypeOK, ClaimsInv, NEW w \in Workers, Disturb(w)
  PROVE  ClaimsInv'
BY DEF TypeOK, ClaimsInv, OwnersRun, OneOwner, Owning, At, rows, Goto, Return,
       Disturb, FailBeforeClaim, ReadBackFails, WriteLost

(* A lease expires only without an owner: here ~SlowAttempts is needed.    *)
LEMMA ClaimsEnvironment ==
  ASSUME TypeOK, ClaimsInv, ~SlowAttempts, Environment
  PROVE  ClaimsInv'
<1> USE DEF TypeOK, ClaimsInv, OwnersRun, OneOwner, Owning, rows
<1>1. CASE Interrupt \/ Exit \/ Crash \/ Restart
  BY <1>1 DEF Interrupt, Exit, Crash, Restart
<1>2. ASSUME NEW f \in Fingerprints,
             Reopen(f) \/ MarkReproAttemptUnsandboxed(f)
      PROVE  ClaimsInv'
  BY <1>2 DEF Reopen, MarkReproAttemptUnsandboxed, SetRow, Settled
<1>3. ASSUME NEW f \in Fingerprints, LeaseExpires(f)
      PROVE  ClaimsInv'
  BY <1>3 DEF LeaseExpires, Held, Holds
<1>4. QED
  BY <1>1, <1>2, <1>3 DEF Environment

(* So the claims are exclusive in every reachable state.                   *)
LEMMA ClaimsHold ==
  ASSUME ~SlowAttempts
  PROVE  Spec => []ClaimsInv
<1>1. Init => ClaimsInv
  BY DEF Init, ClaimsInv, OwnersRun, OneOwner, Owning
<1>2. TypeOK /\ ClaimsInv /\ [Next]_vars => ClaimsInv'
  <2>1. TypeOK /\ ClaimsInv /\ Next => ClaimsInv'
    BY ClaimsPick, ClaimsProceed, ClaimsDisturb, ClaimsEnvironment
       DEF Next, Step
  <2>2. ClaimsInv /\ UNCHANGED vars => ClaimsInv'
    BY DEF vars, ClaimsInv, OwnersRun, OneOwner
  <2>3. QED
    BY <2>1, <2>2
<1>3. QED
  BY <1>1, <1>2, TypeCorrect, PTL DEF Spec

(* Exclusive claim, when no attempt outlives its lease: at most one worker *)
(* owns a row, and the row it owns is running.                             *)
THEOREM ClaimsExclusive ==
  ASSUME ~SlowAttempts
  PROVE  Spec => []ExclusiveClaim
<1>1. ClaimsInv => ExclusiveClaim
  BY DEF ClaimsInv, OwnersRun, OneOwner, ExclusiveClaim, Holds
<1>2. QED
  BY <1>1, ClaimsHold, PTL

-----------------------------------------------------------------------------
(* The budget of one finding: its attempt_count is explained by strikes,   *)
(* vanished holders and the attempt that runs or settled it; an abandoned  *)
(* row has used it up; a row that was never queued has no history.         *)
BudgetOf(f) ==
  /\ count[f] = Charged(f)
  /\ state[f] = "abandoned" => infra[f] + lost[f] = MaxAttempts
  /\ state[f] = "absent" => infra[f] = 0 /\ lost[f] = 0

BudgetInv == \A f \in Fingerprints : BudgetOf(f)

(* A worker that moves on affects only who owns its own finding, and gives *)
(* that up for everybody.                                                  *)
HeldMoves(w, f) ==
  /\ \A g \in Fingerprints \ {f} : Held(g)' <=> Held(g)
  /\ pc[w] \in Owning => Held(f)
  /\ pc'[w] \in Owning => Held(f)'
  /\ pc[w] \in Owning /\ pc'[w] \notin Owning => ~Held(f)'
  /\ pc[w] \notin Owning /\ pc'[w] \notin Owning => (Held(f)' <=> Held(f))

(* Moving to another statement, or returning, is such a move.              *)
LEMMA MoveHeld ==
  ASSUME TypeOK, ClaimsInv, NEW w \in Workers, NEW f \in Fingerprints,
         job[w] = f,
         Return(w) \/ \E label \in PcLabels : Goto(w, label)
  PROVE  HeldMoves(w, f)
<1> USE DEF TypeOK, ClaimsInv, OneOwner, Held, Holds
<1>1. \A g \in Fingerprints \ {f} : Held(g)' <=> Held(g)
  BY ReproQueueAssumption DEF Goto, Return, Owning
<1>2. pc[w] \in Owning => Held(f)
  OBVIOUS
<1>3. pc'[w] \in Owning => Held(f)'
  BY DEF Goto, Return, Owning
<1>4. pc[w] \in Owning /\ pc'[w] \notin Owning => ~Held(f)'
  BY DEF Goto, Return, Owning
<1>5. pc[w] \notin Owning /\ pc'[w] \notin Owning => (Held(f)' <=> Held(f))
  BY DEF Goto, Return, Owning
<1>6. QED
  BY <1>1, <1>2, <1>3, <1>4, <1>5 DEF HeldMoves

(* A finding that a step leaves alone keeps its budget.                    *)
LEMMA SameBudget ==
  ASSUME NEW g \in Fingerprints, BudgetOf(g), Held(g)' <=> Held(g),
         state'[g] = state[g], count'[g] = count[g],
         infra'[g] = infra[g], lost'[g] = lost[g]
  PROVE  BudgetOf(g)'
BY DEF BudgetOf, Charged

(* A dispatch may create the row, with nothing charged.                    *)
LEMMA BudgetPick ==
  ASSUME TypeOK, ClaimsInv, BudgetInv, NEW w \in Workers,
         NEW f \in Fingerprints, Pick(w, f)
  PROVE  BudgetInv'
<1> USE DEF TypeOK
<1>1. \A g \in Fingerprints : Held(g)' <=> Held(g)
  BY DEF Pick, HookAdmit, BacklogPick, AttendedPick, Admit, Take, At,
         Held, Holds, Owning
<1>2. /\ EnqueueRepro(f) \/ UNCHANGED rows
      /\ UNCHANGED <<infra, lost>>
  BY DEF Pick, HookAdmit, BacklogPick, AttendedPick, hist
<1>3. SUFFICES ASSUME NEW g \in Fingerprints PROVE BudgetOf(g)'
  BY DEF BudgetInv
<1>4. CASE state[g] = "absent" /\ state'[g] # "absent"
  <2>1. state'[g] = "pending" /\ count'[g] = 0
    BY <1>2, <1>4 DEF EnqueueRepro, SetRow, rows
  <2>2. ~Held(g)
    BY <1>4 DEF ClaimsInv, OwnersRun, Held, Holds
  <2>3. QED
    BY <1>1, <1>2, <1>4, <2>1, <2>2 DEF BudgetInv, BudgetOf, Charged
<1>5. CASE ~(state[g] = "absent" /\ state'[g] # "absent")
  <2>1. state'[g] = state[g] /\ count'[g] = count[g]
    BY <1>2, <1>5 DEF EnqueueRepro, SetRow, rows
  <2>2. QED
    BY <1>1, <1>2, <2>1, SameBudget DEF BudgetInv
<1>6. QED
  BY <1>4, <1>5

(* promoteOne's statements keep the account of their own finding, and leave*)
(* the others alone.                                                       *)
LEMMA BudgetProceed ==
  ASSUME TypeOK, ClaimsInv, BudgetInv, NEW w \in Workers, Proceed(w)
  PROVE  BudgetInv'
<1>1. pc[w] \in PcLabels /\ pc[w] # "idle"
  BY DEF TypeOK, Proceed, HookSlot, Gate, BlockReproAttemptOnToolchain,
         ReclaimStale, ClaimReproAttempt, ReadBack, AttemptFails,
         AttemptDemonstrates, AttemptRefutes, ReleaseReproAttempt,
         RequeueReproAttemptOnInfraError, ZeroExitZeroCount,
         PersistOutcome, FinishReproAttempt, RecordExitZeroAttempt,
         ProvePatch, At
<1>2. PICK f \in Fingerprints : f = job[w]
  BY <1>1, BusyJob, TypeParts
<1>3. /\ pc'[w] \in PcLabels
      /\ Return(w) \/ \E label \in PcLabels : Goto(w, label)
  <2>1. Return(w) \/ \E label \in PcLabels : Goto(w, label)
    BY DEF Proceed, HookSlot, Gate, BlockReproAttemptOnToolchain,
           ReclaimStale, ClaimReproAttempt, ReadBack, AttemptFails,
           AttemptDemonstrates, AttemptRefutes, ReleaseReproAttempt,
           RequeueReproAttemptOnInfraError, ZeroExitZeroCount,
           PersistOutcome, AfterPersistFails, FinishReproAttempt,
           RecordExitZeroAttempt, ProvePatch, PcLabels, Owning
  <2>2. QED
    BY <2>1 DEF Return, Goto, TypeOK, PcLabels
<1>4. HeldMoves(w, f)
  BY <1>2, <1>3, MoveHeld
<1>5. pc[w] \in Owning => state[f] = "running" /\ ~stale[f]
  BY <1>2 DEF ClaimsInv, OwnersRun
<1>6. SUFFICES ASSUME NEW g \in Fingerprints PROVE BudgetOf(g)'
  BY DEF BudgetInv
<1>7. BudgetOf(g)
  BY DEF BudgetInv
<1>8. CASE g # f
  <2>1. /\ state'[g] = state[g] /\ count'[g] = count[g]
        /\ infra'[g] = infra[g] /\ lost'[g] = lost[g]
    BY <1>2, <1>8
       DEF TypeOK, Proceed, HookSlot, Gate, BlockReproAttemptOnToolchain,
           ReclaimStale, ClaimReproAttempt, ReadBack, AttemptFails,
           AttemptDemonstrates, AttemptRefutes, ReleaseReproAttempt,
           RequeueReproAttemptOnInfraError, ZeroExitZeroCount,
           PersistOutcome, FinishReproAttempt, RecordExitZeroAttempt,
           ProvePatch, EnqueueRepro, SetRow, rows, hist
  <2>2. QED
    BY <1>4, <1>7, <1>8, <2>1, SameBudget DEF HeldMoves
<1>9. CASE g = f
  <2> USE <1>2, <1>4, <1>5, <1>7, <1>9 DEF HeldMoves, TypeOK, At
  (* Statements that write no row, and pass the ownership on.              *)
  <2>1. CASE HookSlot(w) \/ ReadBack(w) \/ AttemptFails(w)
             \/ AttemptDemonstrates(w) \/ AttemptRefutes(w)
             \/ ZeroExitZeroCount(w) \/ PersistOutcome(w)
             \/ RecordExitZeroAttempt(w) \/ ProvePatch(w)
    <3>1. UNCHANGED <<state, count, infra, lost>>
      BY <2>1 DEF HookSlot, ReadBack, AttemptFails, AttemptDemonstrates,
                  AttemptRefutes, ZeroExitZeroCount, PersistOutcome,
                  RecordExitZeroAttempt, ProvePatch, rows, hist
    <3>2. pc[w] \in Owning <=> pc'[w] \in Owning
      BY <2>1 DEF HookSlot, ReadBack, AttemptFails, AttemptDemonstrates,
                  AttemptRefutes, ZeroExitZeroCount, PersistOutcome,
                  AfterPersistFails, RecordExitZeroAttempt, ProvePatch,
                  Goto, Return, Owning
    <3>3. QED
      BY <3>1, <3>2, SameBudget
  (* Statements of a worker that owns nothing: the row they write is free. *)
  <2>2. CASE Gate(w) \/ BlockReproAttemptOnToolchain(w) \/ ReclaimStale(w)
    <3>1. pc[w] \notin Owning /\ pc'[w] \notin Owning
      BY <2>2 DEF Gate, BlockReproAttemptOnToolchain, ReclaimStale, Goto,
                  Return, Owning
    <3>2. \/ UNCHANGED <<state, count, infra, lost>>
          \/ /\ UNCHANGED <<infra, lost>>
             /\ ~Held(f)
             /\ state[f] \in {"absent", "running"} \cup Claimable
             /\ state'[f] \in Claimable
             /\ count'[f] = IF state[f] = "absent" THEN 0 ELSE count[f]
      <4>1. state[f] \in {"absent"} \cup Claimable \/ stale[f] => ~Held(f)
        BY DEF ClaimsInv, OwnersRun, Held, Holds, Claimable
      <4>2. QED
        BY <2>2, <4>1 DEF Gate, BlockReproAttemptOnToolchain, ReclaimStale,
             ReclaimGate, EnqueueRepro, SetRow, Claimable, rows, hist
    <3>3. QED
      BY <3>1, <3>2, SameBudget DEF BudgetOf, Charged, Claimable
  (* The claim charges an attempt; every way out of an attempt accounts for*)
  (* it: gives it back, counts a strike, or settles the row.               *)
  <2>3. CASE ClaimReproAttempt(w)
    <3>1. state[f] \in Claimable => ~Held(f)
      BY DEF ClaimsInv, OwnersRun, Held, Holds, Claimable
    <3>2. QED
      BY <2>3, <3>1 DEF ClaimReproAttempt, ClaimGate, SetRow, Goto, Return,
                        BudgetOf, Charged, Claimable, Owning, rows
  <2>4. CASE ReleaseReproAttempt(w)
    BY <2>4 DEF ReleaseReproAttempt, StillRunning, Refunded, SetRow, Return,
                BudgetOf, Charged, Owning, hist
  <2>5. CASE RequeueReproAttemptOnInfraError(w)
    <3>1. pc[w] \in Owning /\ pc'[w] \notin Owning
      BY <2>5 DEF RequeueReproAttemptOnInfraError, Return, Owning
    <3>2. /\ count'[f] = count[f] /\ infra'[f] = infra[f] + 1
          /\ lost'[f] = lost[f]
          /\ state'[f] \in {"infra_retry", "abandoned"}
          /\ state'[f] = "abandoned" => count[f] = MaxAttempts
      BY <2>5, <3>1, ReproQueueAssumption
         DEF RequeueReproAttemptOnInfraError, StillRunning, SetRow
    <3>3. QED
      BY <3>1, <3>2 DEF BudgetOf, Charged
  <2>6. CASE FinishReproAttempt(w)
    <3>1. pc[w] \in Owning /\ pc'[w] \notin Owning
      BY <2>6 DEF FinishReproAttempt, Goto, Return, Owning
    <3>2. SetRow(f, "done", count[f]) /\ UNCHANGED <<infra, lost>>
      BY <2>6, <3>1 DEF FinishReproAttempt, StillRunning, hist
    <3>3. QED
      BY <3>1, <3>2 DEF SetRow, BudgetOf, Charged
  <2>7. QED
    BY <2>1, <2>2, <2>3, <2>4, <2>5, <2>6 DEF Proceed
<1>10. QED
  BY <1>8, <1>9

(* A failed statement writes no row; when it loses the claim, the attempt  *)
(* is charged to its vanished holder.                                      *)
LEMMA BudgetDisturb ==
  ASSUME TypeOK, ClaimsInv, BudgetInv, NEW w \in Workers, Disturb(w)
  PROVE  BudgetInv'
<1>1. PICK f \in Fingerprints : f = job[w]
  <2>1. pc[w] # "idle"
    BY DEF Disturb, FailBeforeClaim, ReadBackFails, WriteLost, At
  <2>2. QED
    BY <2>1, BusyJob, TypeParts
<1>2. UNCHANGED <<state, count, infra>>
  BY DEF Disturb, FailBeforeClaim, ReadBackFails, WriteLost, rows, hist
<1>3. Return(w) \/ \E label \in PcLabels : Goto(w, label)
  BY DEF Disturb, FailBeforeClaim, ReadBackFails, WriteLost, PcLabels, Owning
<1>4. HeldMoves(w, f)
  BY <1>1, <1>3, MoveHeld
<1>5. \/ /\ UNCHANGED lost
         /\ pc[w] \in Owning <=> pc'[w] \in Owning
      \/ /\ lost' = [lost EXCEPT ![f] = @ + 1]
         /\ pc[w] \in Owning /\ pc'[w] \notin Owning
  <2>1. CASE FailBeforeClaim(w)
    BY <2>1 DEF FailBeforeClaim, hist, Return, Owning, At, TypeOK
  <2>2. CASE ReadBackFails(w)
    BY <1>1, <2>2 DEF ReadBackFails, Return, Owning, At, TypeOK
  <2>3. CASE WriteLost(w) /\ At(w, "zero")
    <3>1. Goto(w, "persist") /\ UNCHANGED lost
      BY <2>3 DEF WriteLost, At
    <3>2. QED
      BY <2>3, <3>1 DEF Goto, Owning, At, TypeOK
  <2>4. CASE WriteLost(w) /\ At(w, "record")
    <3>1. Return(w) /\ UNCHANGED lost
      BY <2>4 DEF WriteLost, At
    <3>2. QED
      BY <2>4, <3>1 DEF Return, Owning, At, TypeOK
  <2>5. CASE WriteLost(w) /\ pc[w] \notin {"zero", "record"}
    <3>1. /\ Return(w) \/ Goto(w, "prove") \/ Goto(w, "record")
          /\ lost' = [lost EXCEPT ![f] = @ + 1]
      BY <1>1, <2>5 DEF WriteLost, At
    <3>2. pc[w] \in Owning
      BY <2>5 DEF WriteLost, Owning
    <3>3. QED
      BY <3>1, <3>2 DEF Return, Goto, Owning, TypeOK
  <2>6. QED
    BY <2>1, <2>2, <2>3, <2>4, <2>5 DEF Disturb, At
<1>6. SUFFICES ASSUME NEW g \in Fingerprints PROVE BudgetOf(g)'
  BY DEF BudgetInv
<1>7. BudgetOf(g)
  BY DEF BudgetInv
<1>8. CASE UNCHANGED lost \/ g # f
  BY <1>1, <1>2, <1>4, <1>5, <1>7, <1>8, SameBudget DEF HeldMoves, TypeOK
<1>9. CASE ~(UNCHANGED lost) /\ g = f
  <2>1. state[f] = "running"
    BY <1>1, <1>5, <1>9 DEF ClaimsInv, OwnersRun
  <2>2. QED
    BY <1>2, <1>4, <1>5, <1>7, <1>9, <2>1
       DEF HeldMoves, BudgetOf, Charged, TypeOK
<1>10. QED
  BY <1>8, <1>9

(* A crash charges the attempts it interrupts; a reopened row starts anew. *)
LEMMA BudgetEnvironment ==
  ASSUME TypeOK, ClaimsInv, BudgetInv, Environment
  PROVE  BudgetInv'
<1> SUFFICES ASSUME NEW g \in Fingerprints PROVE BudgetOf(g)'
  BY DEF BudgetInv
<1>1. BudgetOf(g)
  BY DEF BudgetInv
<1>2. CASE Interrupt \/ Exit \/ Restart
  BY <1>1, <1>2, SameBudget
     DEF Interrupt, Exit, Restart, rows, hist, Held, Holds
<1>3. CASE Crash
  <2>1. ~Held(g)'
    BY <1>3 DEF Crash, Held, Holds, Owning
  <2>2. /\ UNCHANGED <<state, count, infra>>
        /\ lost'[g] = IF Held(g) THEN lost[g] + 1 ELSE lost[g]
    BY <1>3 DEF Crash, rows
  <2>3. Held(g) => state[g] = "running"
    BY DEF ClaimsInv, OwnersRun, Held, Holds
  <2>4. QED
    BY <1>1, <2>1, <2>2, <2>3 DEF BudgetOf, Charged, TypeOK
<1>4. ASSUME NEW f \in Fingerprints,
             MarkReproAttemptUnsandboxed(f) \/ LeaseExpires(f)
      PROVE  BudgetOf(g)'
  BY <1>1, <1>4, SameBudget
     DEF MarkReproAttemptUnsandboxed, LeaseExpires, hist, Held, Holds
<1>5. ASSUME NEW f \in Fingerprints, Reopen(f)
      PROVE  BudgetOf(g)'
  <2>1. Held(g)' <=> Held(g)
    BY <1>5 DEF Reopen, Held, Holds
  <2>2. CASE g # f
    BY <1>1, <1>5, <2>1, <2>2, SameBudget DEF Reopen, SetRow, TypeOK
  <2>3. CASE g = f
    <3>1. ~Held(f)
      BY <1>5 DEF Reopen, Settled, ClaimsInv, OwnersRun, Held, Holds
    <3>2. QED
      BY <1>5, <2>1, <2>3, <3>1
         DEF Reopen, SetRow, BudgetOf, Charged, TypeOK
  <2>4. QED
    BY <2>2, <2>3
<1>6. QED
  BY <1>2, <1>3, <1>4, <1>5 DEF Environment

(* The retry budget is exact, when no attempt outlives its lease: an       *)
(* attempt given back, blocked or lost to another claimer costs nothing,   *)
(* and a row is abandoned only after MaxAttempts real failures.            *)
THEOREM BudgetExact ==
  ASSUME ~SlowAttempts
  PROVE  Spec => []BudgetAccounting
<1>1. Init => BudgetInv
  BY DEF Init, BudgetInv, BudgetOf, Charged, Held, Holds, Owning
<1>2. TypeOK /\ ClaimsInv /\ BudgetInv /\ [Next]_vars => BudgetInv'
  <2>1. TypeOK /\ ClaimsInv /\ BudgetInv /\ Next => BudgetInv'
    BY BudgetPick, BudgetProceed, BudgetDisturb, BudgetEnvironment
       DEF Next, Step
  <2>2. BudgetInv /\ UNCHANGED vars => BudgetInv'
    BY DEF vars, BudgetInv, BudgetOf, Charged, Held, Holds
  <2>3. QED
    BY <2>1, <2>2
<1>3. BudgetInv => BudgetAccounting
  BY DEF BudgetInv, BudgetOf, BudgetAccounting
<1>4. QED
  BY <1>1, <1>2, <1>3, TypeCorrect, ClaimsHold, PTL DEF Spec

-----------------------------------------------------------------------------
(* No burned attempt: a worker whose attempt demonstrated the bug is on the*)
(* path that persists it, and settles the row only when it is persisted;   *)
(* evidence never goes away.                                               *)
Artifact(f) == evidence[f] \cap {"repro", "witness"} # {}

DemoPersists ==
  \A w \in Workers, f \in Fingerprints :
    Holds(w, f) /\ demo[f] =>
      \/ pc[w] \in {"zero", "persist", "requeue"}
      \/ pc[w] = "finish" /\ Artifact(f)

NoBurnInv == NoBurnedAttempt /\ DemoPersists

(* A dispatch neither settles a row nor touches the evidence.              *)
LEMMA NoBurnPick ==
  ASSUME TypeOK, ClaimsInv, NoBurnInv, NEW w \in Workers,
         NEW f \in Fingerprints, Pick(w, f)
  PROVE  NoBurnInv'
<1>1. /\ UNCHANGED <<evidence, demo>>
      /\ \A g \in Fingerprints : state'[g] = "done" => state[g] = "done"
  BY DEF Pick, HookAdmit, BacklogPick, AttendedPick, EnqueueRepro, SetRow,
         rows, hist, TypeOK
<1>2. NoBurnedAttempt'
  BY <1>1 DEF NoBurnInv, NoBurnedAttempt
<1>3. DemoPersists'
  BY <1>1 DEF NoBurnInv, DemoPersists, Artifact, Holds, Pick, HookAdmit,
              BacklogPick, AttendedPick, Admit, Take, TypeOK, Owning, At
<1>4. QED
  BY <1>2, <1>3 DEF NoBurnInv

(* promoteOne's statements follow the order persist, then finish.          *)
LEMMA NoBurnProceed ==
  ASSUME TypeOK, ClaimsInv, NoBurnInv, NEW w \in Workers, Proceed(w)
  PROVE  NoBurnInv'
<1>1. PICK f \in Fingerprints : f = job[w]
  <2>1. pc[w] # "idle"
    BY DEF Proceed, HookSlot, Gate, BlockReproAttemptOnToolchain,
           ReclaimStale, ClaimReproAttempt, ReadBack, AttemptFails,
           AttemptDemonstrates, AttemptRefutes, ReleaseReproAttempt,
           RequeueReproAttemptOnInfraError, ZeroExitZeroCount,
           PersistOutcome, FinishReproAttempt, RecordExitZeroAttempt,
           ProvePatch, At
  <2>2. QED
    BY <2>1, BusyJob, TypeParts
<1> USE <1>1 DEF TypeOK, NoBurnInv, At, Holds
<1>2. CASE HookSlot(w) \/ Gate(w) \/ BlockReproAttemptOnToolchain(w)
           \/ ReclaimStale(w) \/ ReadBack(w) \/ AttemptFails(w)
           \/ ReleaseReproAttempt(w) \/ RequeueReproAttemptOnInfraError(w)
           \/ ZeroExitZeroCount(w) \/ RecordExitZeroAttempt(w)
  <2> USE DEF HookSlot, Gate, BlockReproAttemptOnToolchain, ReclaimStale,
              ReadBack, AttemptFails, ReleaseReproAttempt,
              RequeueReproAttemptOnInfraError, ZeroExitZeroCount,
              RecordExitZeroAttempt, EnqueueRepro, SetRow, rows, hist
  <2>1. /\ UNCHANGED <<evidence, demo>>
        /\ \A g \in Fingerprints : state'[g] = "done" => state[g] = "done"
    BY <1>2
  <2>2. NoBurnedAttempt'
    BY <2>1 DEF NoBurnedAttempt
  <2>3. \/ \E label \in PcLabels : Goto(w, label)
        \/ Return(w)
    BY <1>2 DEF PcLabels, Owning
  <2>4. pc'[w] \in Owning /\ demo[f] => pc'[w] = "persist"
    BY <1>2 DEF DemoPersists, Goto, Return, Owning
  <2>5. DemoPersists'
    BY <2>1, <2>3, <2>4 DEF DemoPersists, Artifact, Goto, Return, Owning
  <2>6. QED
    BY <2>2, <2>5
<1>3. CASE ClaimReproAttempt(w)
  <2>1. state[f] \in Claimable =>
          \A v \in Workers : pc[v] \in Owning => job[v] # f
    BY DEF ClaimsInv, OwnersRun, Claimable
  <2>2. NoBurnedAttempt'
    BY <1>3 DEF ClaimReproAttempt, SetRow, rows, NoBurnedAttempt
  <2>3. DemoPersists'
    BY <1>3, <2>1 DEF ClaimReproAttempt, ClaimGate, Goto, Return,
                      DemoPersists, Artifact, Owning
  <2>4. QED
    BY <2>2, <2>3
(* The attempt demonstrates the bug: the row is running, so not settled,   *)
(* and has no other owner.                                                 *)
<1>4. CASE AttemptDemonstrates(w)
  <2>1. /\ state[f] = "running"
        /\ \A v \in Workers : pc[v] \in Owning /\ job[v] = f => v = w
    BY <1>4 DEF AttemptDemonstrates, ClaimsInv, OwnersRun, OneOwner, Owning
  <2>2. NoBurnedAttempt'
    BY <1>4, <2>1 DEF AttemptDemonstrates, rows, NoBurnedAttempt
  <2>3. DemoPersists'
    BY <1>4, <2>1 DEF AttemptDemonstrates, Goto, DemoPersists, Artifact, Owning
  <2>4. QED
    BY <2>2, <2>3
<1>5. CASE AttemptRefutes(w)
  <2>1. NoBurnedAttempt'
    BY <1>5 DEF AttemptRefutes, rows, hist, NoBurnedAttempt
  <2>2. DemoPersists'
    BY <1>5 DEF AttemptRefutes, hist, Goto, DemoPersists, Artifact, Owning
  <2>3. QED
    BY <2>1, <2>2
<1>6. CASE PersistOutcome(w) \/ ProvePatch(w)
  <2>1. \A g \in Fingerprints : Artifact(g) => Artifact(g)'
    BY <1>6 DEF PersistOutcome, ProvePatch, Artifact
  <2>2. UNCHANGED <<state, demo>>
    BY <1>6 DEF PersistOutcome, ProvePatch, rows, hist
  <2>3. NoBurnedAttempt'
    BY <2>1, <2>2 DEF NoBurnedAttempt, Artifact
  <2>4. CASE PersistOutcome(w)
    <3>1. \/ Goto(w, "finish") /\ Artifact(f)'
          \/ Goto(w, "requeue")
      BY <2>4 DEF PersistOutcome, AfterPersistFails, Artifact
    <3>2. QED
      BY <2>1, <2>2, <2>3, <3>1 DEF Goto, DemoPersists, Owning
  <2>5. CASE ProvePatch(w)
    <3>1. Return(w)
      BY <2>5 DEF ProvePatch
    <3>2. QED
      BY <2>1, <2>2, <2>3, <3>1 DEF Return, DemoPersists, Owning
  <2>6. QED
    BY <1>6, <2>3, <2>4, <2>5
(* Settling: the only owner is past persisting, or refuted the bug.        *)
<1>7. CASE FinishReproAttempt(w)
  <2>1. UNCHANGED <<evidence, demo>>
    BY <1>7 DEF FinishReproAttempt, hist
  <2>2. \A g \in Fingerprints \ {f} : state'[g] = state[g]
    BY <1>7 DEF FinishReproAttempt, SetRow, rows
  <2>3. demo[f] => Artifact(f)
    BY <1>7 DEF FinishReproAttempt, DemoPersists, Owning
  <2>4. NoBurnedAttempt'
    BY <2>1, <2>2, <2>3 DEF NoBurnedAttempt, Artifact
  <2>5. Return(w) \/ Goto(w, "prove") \/ Goto(w, "record")
    BY <1>7 DEF FinishReproAttempt
  <2>6. DemoPersists'
    BY <2>1, <2>5 DEF Return, Goto, DemoPersists, Artifact, Owning
  <2>7. QED
    BY <2>4, <2>6
<1>8. QED
  BY <1>2, <1>3, <1>4, <1>5, <1>6, <1>7 DEF Proceed

(* A failed statement settles nothing; past "finish" nothing is owned.     *)
LEMMA NoBurnDisturb ==
  ASSUME TypeOK, ClaimsInv, NoBurnInv, NEW w \in Workers, Disturb(w)
  PROVE  NoBurnInv'
<1>1. UNCHANGED <<state, evidence, demo>>
  BY DEF Disturb, FailBeforeClaim, ReadBackFails, WriteLost, rows, hist
<1>2. \/ Return(w)
      \/ Goto(w, "persist") \/ Goto(w, "prove") \/ Goto(w, "record")
  BY DEF Disturb, FailBeforeClaim, ReadBackFails, WriteLost
<1>3. NoBurnedAttempt'
  BY <1>1 DEF NoBurnInv, NoBurnedAttempt
<1>4. DemoPersists'
  BY <1>1, <1>2
     DEF NoBurnInv, DemoPersists, Artifact, Holds, Return, Goto, Owning, TypeOK
<1>5. QED
  BY <1>3, <1>4 DEF NoBurnInv

(* Crashes, restarts and reopened rows settle nothing.                     *)
LEMMA NoBurnEnvironment ==
  ASSUME TypeOK, ClaimsInv, NoBurnInv, Environment
  PROVE  NoBurnInv'
<1>1. /\ UNCHANGED <<evidence, demo>>
      /\ \A g \in Fingerprints : state'[g] = "done" => state[g] = "done"
  BY DEF Environment, Interrupt, Exit, Crash, Restart, Reopen,
         MarkReproAttemptUnsandboxed, LeaseExpires, SetRow, rows, hist, TypeOK
<1>2. UNCHANGED <<pc, job>> \/ \A w \in Workers : pc'[w] = "idle"
  BY DEF Environment, Interrupt, Exit, Crash, Restart, Reopen,
         MarkReproAttemptUnsandboxed, LeaseExpires
<1>3. NoBurnedAttempt'
  BY <1>1 DEF NoBurnInv, NoBurnedAttempt
<1>4. DemoPersists'
  BY <1>1, <1>2 DEF NoBurnInv, DemoPersists, Artifact, Holds, Owning
<1>5. QED
  BY <1>3, <1>4 DEF NoBurnInv

(* No burned attempt, when no attempt outlives its lease: whatever fails or*)
(* crashes between persisting and finishing, a row settled by an attempt   *)
(* that demonstrated the bug belongs to a finding that shows it.           *)
THEOREM NothingBurned ==
  ASSUME ~SlowAttempts
  PROVE  Spec => []NoBurnedAttempt
<1>1. Init => NoBurnInv
  BY DEF Init, NoBurnInv, NoBurnedAttempt, DemoPersists, Holds, Owning
<1>2. TypeOK /\ ClaimsInv /\ NoBurnInv /\ [Next]_vars => NoBurnInv'
  <2>1. TypeOK /\ ClaimsInv /\ NoBurnInv /\ Next => NoBurnInv'
    BY NoBurnPick, NoBurnProceed, NoBurnDisturb, NoBurnEnvironment
       DEF Next, Step
  <2>2. NoBurnInv /\ UNCHANGED vars => NoBurnInv'
    BY DEF vars, NoBurnInv, NoBurnedAttempt, DemoPersists, Artifact, Holds
  <2>3. QED
    BY <2>1, <2>2
<1>3. NoBurnInv => NoBurnedAttempt
  BY DEF NoBurnInv
<1>4. QED
  BY <1>1, <1>2, <1>3, TypeCorrect, ClaimsHold, PTL DEF Spec

=============================================================================
