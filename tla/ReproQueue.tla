----------------------------- MODULE ReproQueue -----------------------------
(***************************************************************************)
(* The durable reproduction queue: one row of table repro_attempts per     *)
(* finding fingerprint (store/repro_queue.go, store/repro_contradiction.go)*)
(* and the workers that claim, attempt and settle rows (promoteOne in      *)
(* repro/promote.go), reached from the in-run hook, the daemon's backlog   *)
(* drain and the attended `bugbot repro <id>`.                             *)
(*                                                                         *)
(* Every SQL statement is one atomic step (MaxOpenConns(1) serialises      *)
(* them); a worker's program counter names the statement it runs next.     *)
(* The process may be interrupted (its context cancelled), crash, and be   *)
(* restarted; rows survive, workers do not.                                *)
(***************************************************************************)
EXTENDS Integers, FiniteSets

CONSTANTS
  Fingerprints,   (* the findings' fingerprints: keys of repro_attempts    *)
  Workers,        (* concurrent promoteOne calls                           *)
  NoFp,           (* the job of an idle worker                             *)
  NeedsHuman,     (* findings flagged needs_human (below quorum)           *)
  WitnessOnly,    (* findings whose ecosystem has no execution witness     *)
  Gated,          (* findings whose toolchain the capability probe covers  *)
  MaxAttempts,    (* DefaultReproMaxAttempts                               *)
  SlowAttempts,   (* may an attempt outlive ReproStaleLeaseDuration?       *)
  AttendedRuns,   (* does an operator run `bugbot repro <id> [--rerun]`?   *)
  MaxFaults,      (* bound: crashes and failed statements                  *)
  MaxInterrupts,  (* bound: cancellations of the process context           *)
  MaxReopens      (* bound: settled rows put back (code change, --rerun)   *)

ASSUME ReproQueueAssumption ==
  /\ NoFp \notin Fingerprints
  /\ NeedsHuman \subseteq Fingerprints
  /\ WitnessOnly \subseteq Fingerprints
  /\ Gated \subseteq Fingerprints
  /\ MaxAttempts \in Nat \ {0}
  /\ SlowAttempts \in BOOLEAN
  /\ AttendedRuns \in BOOLEAN
  /\ MaxFaults \in Nat
  /\ MaxInterrupts \in Nat
  /\ MaxReopens \in Nat

VARIABLES
  state,      (* repro_attempts.state, or "absent": no row                 *)
  count,      (* repro_attempts.attempt_count                              *)
  stale,      (* is updated_at older than ReproStaleLeaseDuration?         *)
  exitZero,   (* exit_zero_count, saturating at the threshold              *)
  evidence,   (* what the finding row shows: see Evidence                  *)
  missing,    (* findings whose toolchain this process's probe found absent*)
  proc,       (* the process: "up", "stopping" (ctx cancelled), "down"     *)
  pc, job,    (* each worker's next statement and its finding              *)
  infra,      (* history: attempts charged as infrastructure strikes       *)
  lost,       (* history: attempts charged though their holder vanished    *)
  demo,       (* history: the last claimed attempt demonstrated the bug    *)
  faults, interrupts, reopens      (* counters of the bounded events       *)

rows    == <<state, count, stale>>
hist    == <<infra, lost, demo>>
bounds  == <<faults, interrupts, reopens>>
vars    == <<state, count, stale, exitZero, evidence, missing, proc, pc, job,
             infra, lost, demo, faults, interrupts, reopens>>

States    == {"pending", "running", "done", "infra_retry", "abandoned",
              "blocked_toolchain"}
Claimable == {"pending", "infra_retry", "blocked_toolchain"}
Settled   == {"done", "abandoned"}

(* repro_path, repro_witness, fix_patch at tier 0, prover-exhausted flag.  *)
Evidence == {"repro", "witness", "fix", "exhausted"}

ContradictionThreshold == 2

(* A worker owns its row from the claim's UPDATE to the statement that     *)
(* gives the row up.                                                       *)
Owning == {"readback", "attempt", "release", "requeue", "zero", "persist",
           "finish", "settle", "settleZero"}
PcLabels == Owning \cup {"idle", "slot", "gate", "block",
                         "reclaim", "claim", "prove", "record"}

Holds(w, f) == job[w] = f /\ pc[w] \in Owning
Held(f)     == \E w \in Workers : Holds(w, f)

TypeOK ==
  /\ state \in [Fingerprints -> States \cup {"absent"}]
  /\ count \in [Fingerprints -> 0..MaxAttempts]
  /\ stale \in [Fingerprints -> BOOLEAN]
  /\ exitZero \in [Fingerprints -> 0..ContradictionThreshold]
  /\ evidence \in [Fingerprints -> SUBSET Evidence]
  /\ missing \in SUBSET Gated
  /\ proc \in {"up", "stopping", "down"}
  /\ pc \in [Workers -> PcLabels]
  /\ job \in [Workers -> Fingerprints \cup {NoFp}]
  /\ \A w \in Workers : job[w] = NoFp <=> pc[w] = "idle"
  /\ infra \in [Fingerprints -> Nat]
  /\ lost \in [Fingerprints -> Nat]
  /\ demo \in [Fingerprints -> BOOLEAN]
  /\ faults \in 0..MaxFaults
  /\ interrupts \in 0..MaxInterrupts
  /\ reopens \in 0..MaxReopens

Init ==
  /\ state = [f \in Fingerprints |-> "absent"]
  /\ count = [f \in Fingerprints |-> 0]
  /\ stale = [f \in Fingerprints |-> FALSE]
  /\ exitZero = [f \in Fingerprints |-> 0]
  /\ evidence = [f \in Fingerprints |-> {}]
  /\ missing \in SUBSET Gated
  /\ proc = "up"
  /\ pc = [w \in Workers |-> "idle"]
  /\ job = [w \in Workers |-> NoFp]
  /\ infra = [f \in Fingerprints |-> 0]
  /\ lost = [f \in Fingerprints |-> 0]
  /\ demo = [f \in Fingerprints |-> FALSE]
  /\ faults = 0
  /\ interrupts = 0
  /\ reopens = 0

-----------------------------------------------------------------------------
(* Worker bookkeeping.                                                     *)

At(w, label) == pc[w] = label
Goto(w, label) == pc' = [pc EXCEPT ![w] = label] /\ UNCHANGED job
Take(w, f, label) ==
  pc' = [pc EXCEPT ![w] = label] /\ job' = [job EXCEPT ![w] = f]
Return(w) ==
  pc' = [pc EXCEPT ![w] = "idle"] /\ job' = [job EXCEPT ![w] = NoFp]

(* An UPDATE of row f also sets updated_at, so the lease is fresh again.   *)
SetRow(f, s, c) ==
  /\ state' = [state EXCEPT ![f] = s]
  /\ count' = [count EXCEPT ![f] = c]
  /\ stale' = [stale EXCEPT ![f] = FALSE]

(* INSERT OR IGNORE of EnqueueRepro.                                       *)
EnqueueRepro(f) ==
  IF state[f] = "absent" THEN SetRow(f, "pending", 0) ELSE UNCHANGED rows

(* Mutants: each stands for a bug in the statement it is named after.      *)
ClaimGateUnsettled(f)  == state[f] \notin Settled
ClaimGateRunning(f)    == state[f] \in Claimable \cup {"running"}
                          /\ count[f] < MaxAttempts
ReclaimGateOffByOne(f) == state[f] = "running" /\ stale[f]
                          /\ count[f] + 1 < MaxAttempts
NotRefunded(f)         == count[f]
PersistErrorIgnored    == "finish"

(* WHERE clauses: what a statement requires of the row it updates.         *)
ClaimGate(f)   == state[f] \in Claimable /\ count[f] < MaxAttempts
ReclaimGate(f) == state[f] = "running" /\ stale[f] /\ count[f] < MaxAttempts
StillRunning(f) == state[f] = "running"

(* attempt_count after an interrupt gives its attempt back.                *)
Refunded(f) == IF count[f] > 0 THEN count[f] - 1 ELSE 0

(* Where promoteOne goes when persisting the outcome fails.                *)
AfterPersistFails == "requeue"

(* A statement under the caller's context succeeds only while the context  *)
(* is live; it fails when the context was cancelled, or when the database  *)
(* fails it (a bounded fault).                                             *)
CtxLive == proc = "up"
DatabaseFails  == faults < MaxFaults /\ faults' = faults + 1
StatementFails == (~CtxLive /\ UNCHANGED faults) \/ DatabaseFails

-----------------------------------------------------------------------------
(* The dispatch paths.                                                     *)

(* runReproAttempt: enqueue the survivor (best effort), skip it when its   *)
(* row is running, done or abandoned (or, when the row cannot be read, when*)
(* the finding shows an artifact), then wait for an idle-class slot.       *)
Admit(w, f, wanted) ==
  IF wanted THEN Take(w, f, "slot") ELSE UNCHANGED <<pc, job>>

HookAdmit(w, f) ==
  LET unclaimed == state[f] \notin Settled \cup {"running"}
      unproved  == evidence[f] \cap {"repro", "witness"} = {}
  IN
  /\ CtxLive /\ At(w, "idle")
  /\ \/ EnqueueRepro(f) /\ UNCHANGED faults /\ Admit(w, f, unclaimed)
     \/ UNCHANGED rows /\ DatabaseFails /\ Admit(w, f, unclaimed)
     \/ EnqueueRepro(f) /\ DatabaseFails /\ Admit(w, f, unproved)
  /\ UNCHANGED <<exitZero, evidence, missing, proc, hist,
                 interrupts, reopens>>

(* ... once it has the slot it re-reads the finding and gives way to an    *)
(* artifact that appeared meanwhile; a failed read does not stop it.       *)
HookSlot(w) ==
  /\ At(w, "slot")
  /\ \/ /\ CtxLive /\ UNCHANGED faults
        /\ IF evidence[job[w]] \cap {"repro", "witness"} = {}
           THEN Goto(w, "gate")
           ELSE Return(w)
     \/ StatementFails /\ Goto(w, "gate")
  /\ UNCHANGED <<rows, exitZero, evidence, missing, proc, hist,
                 interrupts, reopens>>

(* OpenBacklog + PromoteAll: an open finding with no artifact, not         *)
(* needs-human, whose row is not unclaimable for good.                     *)
BacklogPick(w, f) ==
  /\ CtxLive /\ At(w, "idle")
  /\ f \notin NeedsHuman
  /\ evidence[f] \cap {"repro", "witness"} = {}
  /\ state[f] \notin Settled
  /\ count[f] < MaxAttempts
  /\ Take(w, f, "gate")
  /\ UNCHANGED <<rows, exitZero, evidence, missing, proc, hist, bounds>>

(* reproOne: the operator names the finding; no eligibility check.         *)
AttendedPick(w, f) ==
  /\ AttendedRuns
  /\ CtxLive /\ At(w, "idle")
  /\ Take(w, f, "gate")
  /\ UNCHANGED <<rows, exitZero, evidence, missing, proc, hist, bounds>>

-----------------------------------------------------------------------------
(* promoteOne, statement by statement.                                     *)

(* gateEcosystem consults the capability set probed for this process; both *)
(* branches begin by making sure the row exists.                           *)
Gate(w) ==
  /\ CtxLive /\ At(w, "gate")
  /\ EnqueueRepro(job[w])
  /\ Goto(w, IF job[w] \in missing THEN "block" ELSE "reclaim")
  /\ UNCHANGED <<exitZero, evidence, missing, proc, hist, bounds>>

BlockReproAttemptOnToolchain(w) ==
  LET f == job[w] IN
  /\ CtxLive /\ At(w, "block")
  /\ IF state[f] \in Claimable
     THEN SetRow(f, "blocked_toolchain", count[f])
     ELSE UNCHANGED rows
  /\ Return(w)
  /\ UNCHANGED <<exitZero, evidence, missing, proc, hist, bounds>>

(* First UPDATE of ClaimReproAttempt: a stale lease under budget is taken  *)
(* from its presumed-dead holder.                                          *)
ReclaimStale(w) ==
  LET f == job[w] IN
  /\ CtxLive /\ At(w, "reclaim")
  /\ IF ReclaimGate(f)
     THEN SetRow(f, "infra_retry", count[f])
     ELSE UNCHANGED rows
  /\ Goto(w, "claim")
  /\ UNCHANGED <<exitZero, evidence, missing, proc, hist, bounds>>

(* Second UPDATE: the claim gate; no row affected is ErrReproAlreadyClaimed*)
ClaimReproAttempt(w) ==
  LET f == job[w] IN
  /\ CtxLive /\ At(w, "claim")
  /\ IF ClaimGate(f)
     THEN /\ SetRow(f, "running", count[f] + 1)
          /\ demo' = [demo EXCEPT ![f] = FALSE]
          /\ Goto(w, "readback")
     ELSE /\ UNCHANGED <<rows, demo>>
          /\ Return(w)
  /\ UNCHANGED <<exitZero, evidence, missing, proc, infra, lost, bounds>>

(* A statement before the claim fails and promoteOne returns its error, or *)
(* the wait for a slot is cancelled.                                       *)
FailBeforeClaim(w) ==
  /\ \/ pc[w] \in {"gate", "block", "reclaim", "claim"} /\ StatementFails
     \/ At(w, "slot") /\ ~CtxLive /\ UNCHANGED faults
  /\ Return(w)
  /\ UNCHANGED <<rows, exitZero, evidence, missing, proc, hist,
                 interrupts, reopens>>

(* ClaimReproAttempt ends with GetReproAttempt under the caller's context. *)
ReadBack(w) ==
  /\ CtxLive /\ At(w, "readback")
  /\ Goto(w, "attempt")
  /\ UNCHANGED <<rows, exitZero, evidence, missing, proc, hist, bounds>>

(* ... when that read fails the claim has been committed, but promoteOne   *)
(* sees a claim error and returns without giving the row up.               *)
ReadBackFails(w) ==
  /\ At(w, "readback")
  /\ StatementFails
  /\ lost' = [lost EXCEPT ![job[w]] = @ + 1]
  /\ Return(w)
  /\ UNCHANGED <<rows, exitZero, evidence, missing, proc, infra, demo,
                 interrupts, reopens>>

(* Attempt returns an error: an interrupt when the context is cancelled,   *)
(* an infrastructure strike otherwise.                                     *)
AttemptFails(w) ==
  /\ At(w, "attempt")
  /\ Goto(w, IF proc = "stopping" THEN "release" ELSE "requeue")
  /\ UNCHANGED <<rows, exitZero, evidence, missing, proc, hist, bounds>>

AttemptDemonstrates(w) ==
  /\ At(w, "attempt")
  /\ demo' = [demo EXCEPT ![job[w]] = TRUE]
  /\ Goto(w, "zero")
  /\ UNCHANGED <<rows, exitZero, evidence, missing, proc, infra, lost, bounds>>

(* The attempt completed without demonstrating the bug: exit zero (the     *)
(* test ran, nothing manifested) or any other reason.                      *)
AttemptRefutes(w) ==
  /\ At(w, "attempt")
  /\ \E next \in {"settle", "settleZero"} : Goto(w, next)
  /\ UNCHANGED <<rows, exitZero, evidence, missing, proc, hist, bounds>>

ReleaseReproAttempt(w) ==
  LET f == job[w] IN
  /\ At(w, "release")
  /\ IF StillRunning(f)
     THEN SetRow(f, "pending", Refunded(f))
     ELSE UNCHANGED rows
  /\ Return(w)
  /\ UNCHANGED <<exitZero, evidence, missing, proc, hist, bounds>>

RequeueReproAttemptOnInfraError(w) ==
  LET f == job[w] IN
  /\ At(w, "requeue")
  /\ IF StillRunning(f)
     THEN /\ SetRow(f, IF count[f] < MaxAttempts THEN "infra_retry"
                                                 ELSE "abandoned", count[f])
          /\ infra' = [infra EXCEPT ![f] = @ + 1]
     ELSE UNCHANGED <<rows, infra>>
  /\ Return(w)
  /\ UNCHANGED <<exitZero, evidence, missing, proc, lost, demo, bounds>>

ZeroExitZeroCount(w) ==
  LET f == job[w] IN
  /\ At(w, "zero")
  /\ exitZero' = [exitZero EXCEPT ![f] = 0]
  /\ stale' = [stale EXCEPT ![f] = FALSE]
  /\ Goto(w, "persist")
  /\ UNCHANGED <<state, count, evidence, missing, proc, hist, bounds>>

(* witnessFinding for a needs-human or witness-only finding, promoteFinding*)
(* otherwise; a persist failure is an infrastructure strike.               *)
PersistOutcome(w) ==
  LET f == job[w]
      kind == IF f \in NeedsHuman \cup WitnessOnly THEN "witness" ELSE "repro"
  IN
  /\ At(w, "persist")
  /\ \/ /\ evidence' = [evidence EXCEPT ![f] = @ \cup {kind}]
        /\ Goto(w, "finish")
        /\ UNCHANGED faults
     \/ /\ DatabaseFails
        /\ Goto(w, AfterPersistFails)
        /\ UNCHANGED evidence
  /\ UNCHANGED <<rows, exitZero, missing, proc, hist, interrupts, reopens>>

(* FinishReproAttempt; a promoted finding goes on to the patch prover, an  *)
(* exit-zero one to the contradiction counter.                             *)
FinishReproAttempt(w) ==
  LET f == job[w] IN
  /\ pc[w] \in {"finish", "settle", "settleZero"}
  /\ IF StillRunning(f) THEN SetRow(f, "done", count[f])
                        ELSE UNCHANGED rows
  /\ CASE At(w, "finish") /\ f \notin NeedsHuman \cup WitnessOnly
            -> Goto(w, "prove")
       [] At(w, "settleZero") -> Goto(w, "record")
       [] OTHER -> Return(w)
  /\ UNCHANGED <<exitZero, evidence, missing, proc, hist, bounds>>

RecordExitZeroAttempt(w) ==
  LET f == job[w] IN
  /\ At(w, "record")
  /\ exitZero' = [exitZero EXCEPT ![f] =
                    IF @ < ContradictionThreshold THEN @ + 1 ELSE @]
  /\ stale' = [stale EXCEPT ![f] = FALSE]
  /\ Return(w)
  /\ UNCHANGED <<state, count, evidence, missing, proc, hist, bounds>>

(* provePatch, after the row is done: a witnessed fix (tier 0), an         *)
(* exhausted prover (needs human), or neither. ValidateFindingState refuses*)
(* tier 0 together with needs-human, so either excludes the other.         *)
ProvePatch(w) ==
  LET f == job[w] IN
  /\ At(w, "prove")
  /\ \/ UNCHANGED evidence
     \/ \E r \in {"fix", "exhausted"} :
          /\ CtxLive
          /\ evidence[f] \cap ({"fix", "exhausted"} \ {r}) = {}
          /\ evidence' = [evidence EXCEPT ![f] = @ \cup {r}]
  /\ Return(w)
  /\ UNCHANGED <<rows, exitZero, missing, proc, hist, bounds>>

(* promoteOne ignores the error of every detached write after the attempt  *)
(* (`_ = st.Finish...`): a failed one is skipped, the row stays running.   *)
WriteLost(w) ==
  LET f == job[w]
      next == CASE At(w, "zero") -> "persist"
                [] At(w, "finish") /\ f \notin NeedsHuman \cup WitnessOnly
                     -> "prove"
                [] At(w, "settleZero") -> "record"
                [] OTHER -> "idle"
  IN
  /\ pc[w] \in {"release", "requeue", "zero", "finish", "settle",
                "settleZero", "record"}
  /\ DatabaseFails
  /\ IF next = "idle" THEN Return(w) ELSE Goto(w, next)
  /\ IF pc[w] \in {"zero", "record"}
     THEN UNCHANGED lost
     ELSE lost' = [lost EXCEPT ![f] = @ + 1]
  /\ UNCHANGED <<rows, exitZero, evidence, missing, proc, infra, demo,
                 interrupts, reopens>>

-----------------------------------------------------------------------------
(* The row's other writers and the environment.                            *)

(* A settled row returns to the queue with a fresh budget: UpsertFinding   *)
(* when the anchored file's hash changed, or ResetReproAttempt for         *)
(* `bugbot repro --rerun`.                                                 *)
Reopen(f) ==
  /\ reopens < MaxReopens /\ reopens' = reopens + 1
  /\ proc = "up"
  /\ state[f] \in Settled
  /\ SetRow(f, "pending", 0)
  /\ infra' = [infra EXCEPT ![f] = 0]
  /\ lost' = [lost EXCEPT ![f] = 0]
  /\ UNCHANGED <<exitZero, evidence, missing, proc, pc, job, demo,
                 faults, interrupts>>

(* MarkReproAttemptUnsandboxed: reproOne --unsandboxed stamps the row in   *)
(* whatever state it is, and so refreshes updated_at.                      *)
MarkReproAttemptUnsandboxed(f) ==
  /\ AttendedRuns /\ proc = "up"
  /\ state[f] # "absent"
  /\ stale' = [stale EXCEPT ![f] = FALSE]
  /\ UNCHANGED <<state, count, exitZero, evidence, missing, proc, pc, job,
                 hist, bounds>>

(* Thirty minutes pass without a write to a running row.                   *)
LeaseExpires(f) ==
  /\ state[f] = "running" /\ ~stale[f]
  /\ SlowAttempts \/ ~Held(f)
  /\ stale' = [stale EXCEPT ![f] = TRUE]
  /\ UNCHANGED <<state, count, exitZero, evidence, missing, proc, pc, job,
                 hist, bounds>>

Interrupt ==
  /\ proc = "up" /\ proc' = "stopping"
  /\ interrupts < MaxInterrupts /\ interrupts' = interrupts + 1
  /\ UNCHANGED <<rows, exitZero, evidence, missing, pc, job, hist,
                 faults, reopens>>

(* PromoteAll and the funnel wait for their workers before returning.      *)
Exit ==
  /\ proc = "stopping" /\ proc' = "down"
  /\ \A w \in Workers : At(w, "idle")
  /\ UNCHANGED <<rows, exitZero, evidence, missing, pc, job, hist, bounds>>

Crash ==
  /\ proc \in {"up", "stopping"} /\ proc' = "down"
  /\ faults < MaxFaults /\ faults' = faults + 1
  /\ pc' = [w \in Workers |-> "idle"]
  /\ job' = [w \in Workers |-> NoFp]
  /\ lost' = [f \in Fingerprints |-> IF Held(f) THEN lost[f] + 1 ELSE lost[f]]
  /\ UNCHANGED <<rows, exitZero, evidence, missing, infra, demo,
                 interrupts, reopens>>

(* A new process probes the sandbox image afresh.                          *)
Restart ==
  /\ proc = "down" /\ proc' = "up"
  /\ missing' \in SUBSET Gated
  /\ UNCHANGED <<rows, exitZero, evidence, pc, job, hist, bounds>>

-----------------------------------------------------------------------------

Pick(w, f) == HookAdmit(w, f) \/ BacklogPick(w, f) \/ AttendedPick(w, f)

(* The steps of promoteOne when its statements succeed, and when one fails.*)
Proceed(w) ==
  \/ HookSlot(w) \/ Gate(w) \/ BlockReproAttemptOnToolchain(w)
  \/ ReclaimStale(w) \/ ClaimReproAttempt(w) \/ ReadBack(w)
  \/ AttemptFails(w) \/ AttemptDemonstrates(w) \/ AttemptRefutes(w)
  \/ ReleaseReproAttempt(w) \/ RequeueReproAttemptOnInfraError(w)
  \/ ZeroExitZeroCount(w) \/ PersistOutcome(w) \/ FinishReproAttempt(w)
  \/ RecordExitZeroAttempt(w) \/ ProvePatch(w)

Disturb(w) == FailBeforeClaim(w) \/ ReadBackFails(w) \/ WriteLost(w)

Step(w) == Proceed(w) \/ Disturb(w)

Environment ==
  \/ Interrupt \/ Exit \/ Crash \/ Restart
  \/ \E f \in Fingerprints :
       Reopen(f) \/ MarkReproAttemptUnsandboxed(f) \/ LeaseExpires(f)

Next ==
  \/ \E w \in Workers, f \in Fingerprints : Pick(w, f)
  \/ \E w \in Workers : Step(w)
  \/ Environment

Spec == Init /\ [][Next]_vars

(* Fairness: a started statement or attempt ends (well or not), leases age,*)
(* the process is restarted, and the backlog timer keeps firing: the       *)
(* rotation of TouchBacklogFailures reaches every eligible finding again   *)
(* and again.                                                              *)
Fairness ==
  /\ \A w \in Workers : WF_vars(Step(w))
  /\ \A f \in Fingerprints :
       /\ WF_vars(LeaseExpires(f))
       /\ SF_vars(\E w \in Workers : BacklogPick(w, f))
  /\ WF_vars(Exit)
  /\ WF_vars(Restart)

FairSpec == Spec /\ Fairness

-----------------------------------------------------------------------------
(* Properties.                                                             *)

(* Exclusive claim: at most one worker owns a fingerprint's row at a time, *)
(* and only while the row is running ("exactly one wins per fingerprint",  *)
(* ClaimReproAttempt). Holds when no attempt outlives its lease.           *)
ExclusiveClaim ==
  \A v, w \in Workers, f \in Fingerprints :
    Holds(v, f) /\ Holds(w, f) => v = w /\ state[f] = "running"

(* A row left running by a worker that is gone.                            *)
Orphan(f) == state[f] = "running" /\ ~Held(f)

(* Attempts of f that attempt_count must account for: strikes, leases whose*)
(* holder vanished, and the attempt that runs or that settled the row.     *)
Charged(f) == infra[f] + lost[f]
              + (IF Held(f) \/ state[f] = "done" THEN 1 ELSE 0)

(* The retry budget counts exactly the charged attempts: interrupts that   *)
(* release their claim, capability blocks and lost claim races cost        *)
(* nothing, and a row is abandoned only after MaxAttempts real failures.   *)
BudgetAccounting ==
  \A f \in Fingerprints :
    /\ count[f] = Charged(f)
    /\ state[f] = "abandoned" => infra[f] + lost[f] = MaxAttempts

(* No burned attempt: when the attempt that settled a row had demonstrated *)
(* the bug, the finding shows it; promoteOne persists before it finishes,  *)
(* whatever crash or failed write comes between.                           *)
NoBurnedAttempt ==
  \A f \in Fingerprints :
    state[f] = "done" /\ demo[f] => evidence[f] \cap {"repro", "witness"} # {}

(* The row's lifecycle, whatever the workers do and however late: the rows *)
(* implement ReproLifecycle.                                               *)
Phase(s) == CASE s = "absent" -> "unknown"
              [] s \in Claimable -> "waiting"
              [] s = "running" -> "owned"
              [] s \in Settled -> "settled"

Lifecycle == INSTANCE ReproLifecycle
               WITH Budget <- MaxAttempts, spent <- count,
                    phase <- [f \in Fingerprints |-> Phase(state[f])]

RowsImplementLifecycle == Lifecycle!LifecycleSpec

(* Every queued finding the backlog accepts is eventually settled, given an*)
(* artifact, held up by a missing toolchain, or lost with its budget spent.*)
QueueDrains ==
  \A f \in Fingerprints \ NeedsHuman :
    state[f] \in {"pending", "infra_retry"} ~>
      \/ state[f] \in Settled
      \/ evidence[f] # {} \/ f \in missing
      \/ Orphan(f) /\ count[f] = MaxAttempts

(* What the comment on ReproStaleLeaseDuration says: the timeout bounds the*)
(* time that a row a crash left running is lost to reproduction.           *)
OrphanRecovered ==
  \A f \in Fingerprints : Orphan(f) /\ evidence[f] = {} ~> ~Orphan(f)

=============================================================================
