------------------------------ MODULE Pipeline ------------------------------
(* One scan run of the funnel: the hypothesize stage and its finder units, *)
(* the triage consumer, the verify dispatcher and its panels, the in-run   *)
(* repro consumer and its workers, the channels between them, the order in *)
(* which they close and join, and the token pools they share under a       *)
(* downstream reservation. What triage and verify do to the store is       *)
(* TriageVerify, how slots are handed out SlotPool, and the claim of an    *)
(* attempt ReproQueue.                                                     *)
EXTENDS Integers, Sequences, FiniteSets

CONSTANTS
  Units,          (* the finder units, launched in any order               *)
  Finds,          (* Finds[u]: the candidates u may report                 *)
  Replayed,       (* the candidates resumed from the write-ahead log       *)
  Slots,          (* MaxParallel                                           *)
  Room,           (* Room[ch]: the buffer of channel ch                    *)
  Budget,         (* Budget[p]: the reserve of pool p                      *)
  MaxCost,        (* bound: the most one completion costs                  *)
  BreakerAt       (* the finder breaker's threshold, scaled as the buffers *)

Pools    == {"finder", "verify"}
Channels == {"cand", "ver", "repro"}
Cands    == Replayed \cup UNION {Finds[u] : u \in Units}

Finders == {"find"} \X Units
Panels  == {"verify"} \X Cands
Workers == {"repro"} \X Cands
Jobs    == Finders \cup Panels \cup Workers

ASSUME PipelineAssumption ==
  /\ IsFiniteSet(Units) /\ "replay" \notin Units
  /\ Slots \in Nat \ {0} /\ MaxCost \in Nat \ {0} /\ BreakerAt \in Nat \ {0}
  /\ Room \in [Channels -> Nat \ {0}] /\ Budget \in [Pools -> Nat \ {0}]
  /\ \A u, v \in Units : u # v => Finds[u] \cap Finds[v] = {}
  /\ \A u \in Units : Finds[u] \cap Replayed = {}

VARIABLES
  at,             (* where the hyp, tri, main and consumer goroutines are  *)
  job,            (* where each agent's goroutine is                       *)
  todo,           (* the candidates a unit, or the replay, has yet to emit *)
  held,           (* the candidate triage has in hand, as a set            *)
  chan, closed,   (* the channels                                          *)
  overflow,       (* reproQueue.overflow                                   *)
  cancelled,      (* the run's context                                     *)
  breaker,        (* anySucceeded, transportFailures, breakerTripped       *)
  errs,           (* hypothesizeErr, triageErr, verifyErr                  *)
  spent,          (* the tokens charged to each pool                       *)
  result,         (* what run returned                                     *)
  fate,           (* history: what became of each candidate                *)
  tried,          (* history: the findings whose repro hook ran            *)
  paid,           (* history: what each stage's completions cost           *)
  broken,         (* history: some stage failed                            *)
  panicked        (* history: a send on a closed channel                   *)

flow    == <<held, chan, closed, overflow, fate, panicked>>
faults  == <<cancelled, breaker, errs, broken>>
purse   == <<spent, paid>>
vars    == <<at, job, todo, flow, faults, purse, result, tried>>

Stages == {"hyp", "tri", "main", "consumer"}
Places == {"replay", "launch", "wait", "done", "recv", "holding", "asking",
           "forward", "drain", "leaving", "range", "collect", "overflow"}
Fates  == {"none", "found", "lost", "dropped", "killed", "suspected",
           "orphaned", "capped", "unsaved", "verified"}

TypeOK ==
  /\ at \in [Stages -> Places]
  /\ job \in [Jobs -> {"new", "waiting", "ready", "calling", "thinking",
                       "emitting", "done"}]
  /\ todo \in [Units \cup {"replay"} -> SUBSET Cands]
  /\ held \subseteq Cands /\ Cardinality(held) <= 1
  /\ \A ch \in Channels : chan[ch] \in Seq(Cands) /\ Len(chan[ch]) <= Room[ch]
  /\ closed \subseteq Channels /\ overflow \in Seq(Cands)
  /\ cancelled \in BOOLEAN /\ broken \in BOOLEAN /\ panicked \in BOOLEAN
  /\ breaker \in [ok : BOOLEAN, failures : 0..Cardinality(Units), tripped : BOOLEAN]
  /\ errs \subseteq {"hyp", "tri", "ver"}
  /\ spent \in [Pools -> Nat] /\ paid \in [Pools -> Nat]
  /\ result \in {"none", "ok", "aborted", "interrupted"}
  /\ fate \in [Cands -> Fates] /\ tried \subseteq Cands

Untripped == [ok |-> FALSE, failures |-> 0, tripped |-> FALSE]

Init ==
  /\ at = [hyp |-> "replay", tri |-> "recv", main |-> "range", consumer |-> "recv"]
  /\ job = [j \in Jobs |-> "new"]
  /\ todo = [p \in Units \cup {"replay"} |-> IF p = "replay" THEN Replayed ELSE {}]
  /\ held = {} /\ chan = [ch \in Channels |-> <<>>] /\ closed = {}
  /\ overflow = <<>> /\ cancelled = FALSE
  /\ breaker = Untripped
  /\ errs = {} /\ broken = FALSE /\ panicked = FALSE
  /\ spent = [p \in Pools |-> 0] /\ paid = [p \in Pools |-> 0]
  /\ fate = [c \in Cands |-> IF c \in Replayed THEN "found" ELSE "none"]
  /\ tried = {} /\ result = "none"

-----------------------------------------------------------------------------
(* Channels, jobs and pools.                                               *)

Goto(s, place) == at' = [at EXCEPT ![s] = place]
Become(j, label) == job' = [job EXCEPT ![j] = label]
Settle(c, f) == fate' = [fate EXCEPT ![c] = f]

NeverFull(ch) == TRUE                                           \* mutant
HasRoom(ch)   == Len(chan[ch]) < Room[ch]

(* A blocking send. A send on a closed channel panics.                     *)
Send(ch, c) ==
  /\ HasRoom(ch) /\ chan' = [chan EXCEPT ![ch] = Append(@, c)]
  /\ panicked' = (panicked \/ ch \in closed)

Arrives(ch, c) == chan[ch] # <<>> /\ c = Head(chan[ch])
Taken(ch)      == [chan EXCEPT ![ch] = Tail(@)]
Ended(ch)      == ch \in closed /\ chan[ch] = <<>>
AllDone(js)    == \A j \in js : job[j] \in {"new", "done"}

(* fanout.spawn: the job's own goroutine takes a slot, or gives up when the*)
(* run, or for a finder the stage, is stopped while it waits.              *)
Holding == {j \in Jobs : job[j] \in {"ready", "calling", "thinking", "emitting"}}
Stopped(j) == cancelled \/ (j \in Finders /\ breaker.tripped)

Acquire(j) ==
  /\ job[j] = "waiting" /\ Cardinality(Holding) < Slots
  /\ Become(j, "ready")
  /\ UNCHANGED <<at, todo, flow, faults, purse, result, tried>>

GiveUp(j) ==
  /\ job[j] = "waiting" /\ Stopped(j)
  /\ Become(j, "done")
  /\ UNCHANGED <<at, todo, flow, faults, purse, result, tried>>

(* finderOverHard and verifyOverHard, the runner's check before each turn, *)
(* and the soft gate at 7/10.                                              *)
ChecksLate(p) == spent[p] <= Budget[p]                          \* mutant
SharesPool(p) ==                                                \* mutant
  /\ spent[p] < Budget[p]
  /\ spent["finder"] + spent["verify"] < Budget["finder"] + Budget["verify"]
Open(p)     == spent[p] < Budget[p]
OverSoft(p) == spent[p] * 10 > Budget[p] * 7

(* record: the recorder charges the pool of the completion's role; a finder*)
(* unit also pays for the package summaries it asks for.                   *)
PoolOf(role) ==
  IF role \in {"finder", "cartographer"} THEN "finder" ELSE "verify"

Charge(stage, role) ==
  \E cost \in 1..MaxCost :
    /\ spent' = [spent EXCEPT ![PoolOf(role)] = @ + cost]
    /\ paid' = [paid EXCEPT ![stage] = @ + cost]

StageOf(j) == IF j \in Finders THEN "finder" ELSE "verify"

(* An agent's turn: past the gate, one completion is requested; it returns *)
(* and is charged.                                                         *)
Ask(j) ==
  /\ j \in Finders \cup Panels
  /\ job[j] \in {"ready", "thinking"} /\ Open(StageOf(j))
  /\ Become(j, "calling")
  /\ UNCHANGED <<at, todo, flow, faults, purse, result, tried>>

Answer(j) ==
  /\ job[j] = "calling"
  /\ \E role \in IF j \in Finders THEN {"finder", "cartographer"}
                                  ELSE {"verifier", "arbiter"} :
       Charge(StageOf(j), role)
  /\ Become(j, "thinking")
  /\ UNCHANGED <<at, todo, flow, faults, result, tried>>

-----------------------------------------------------------------------------
(* Hypothesize: the replayed candidates, then the units.                   *)

(* emit: the send, or the candidate dropped on a cancelled context.        *)
Emit(p, c) ==
  /\ c \in todo[p] /\ todo' = [todo EXCEPT ![p] = @ \ {c}]
  /\ \/ Send("cand", c) /\ UNCHANGED fate
     \/ /\ cancelled /\ Settle(c, "lost")
        /\ UNCHANGED <<chan, panicked>>
  /\ UNCHANGED <<at, job, held, closed, overflow, faults, purse, result, tried>>

Replay == at["hyp"] = "replay" /\ \E c \in Replayed : Emit("replay", c)

StartFinders ==
  /\ at["hyp"] = "replay" /\ todo["replay"] = {}
  /\ \/ Goto("hyp", "launch") /\ UNCHANGED <<errs, broken>>
     \/ /\ Goto("hyp", "wait") /\ errs' = errs \cup {"hyp"} /\ broken' = TRUE
  /\ UNCHANGED <<job, todo, flow, cancelled, breaker, purse, result, tried>>

(* The launch loop, which an error or the breaker ends.                    *)
Launch(u) ==
  /\ at["hyp"] = "launch" /\ "hyp" \notin errs /\ ~breaker.tripped
  /\ job[<<"find", u>>] = "new" /\ Become(<<"find", u>>, "waiting")
  /\ UNCHANGED <<at, todo, flow, faults, purse, result, tried>>

LaunchEnds ==
  /\ at["hyp"] = "launch"
  /\ \/ "hyp" \in errs \/ breaker.tripped
     \/ \A j \in Finders : job[j] # "new"
  /\ Goto("hyp", "wait")
  /\ UNCHANGED <<job, todo, flow, faults, purse, result, tried>>

CloseCandidates ==
  /\ at["hyp"] = "wait" /\ AllDone(Finders)
  /\ Goto("hyp", "done") /\ closed' = closed \cup {"cand"}
  /\ UNCHANGED <<job, todo, held, chan, overflow, fate, panicked, faults,
                 purse, result, tried>>

(* The gates of a unit that has its slot.                                  *)
SkipUnit(u) ==
  /\ job[<<"find", u>>] = "ready" /\ (~Open("finder") \/ OverSoft("finder"))
  /\ Become(<<"find", u>>, "done")
  /\ UNCHANGED <<at, todo, flow, faults, purse, result, tried>>

(* finderOK: the unit emits what it found while it holds its slot.         *)
UnitFinds(u) ==
  /\ job[<<"find", u>>] = "thinking" /\ Become(<<"find", u>>, "emitting")
  /\ breaker' = [breaker EXCEPT !.ok = TRUE]
  /\ \E S \in SUBSET Finds[u] :
       /\ todo' = [todo EXCEPT ![u] = S]
       /\ fate' = [c \in Cands |-> IF c \in S THEN "found" ELSE fate[c]]
  /\ UNCHANGED <<at, held, chan, closed, overflow, panicked, cancelled, errs,
                 broken, purse, result, tried>>

UnitEmits(u) ==
  job[<<"find", u>>] = "emitting" /\ \E c \in Finds[u] : Emit(u, c)

UnitEnds(u) ==
  /\ job[<<"find", u>>] = "emitting" /\ todo[u] = {}
  /\ Become(<<"find", u>>, "done")
  /\ UNCHANGED <<at, todo, flow, faults, purse, result, tried>>

(* No output that parses, a rate limit or a budget stop.                   *)
UnitFails(u) ==
  /\ job[<<"find", u>>] \in {"calling", "thinking"}
  /\ Become(<<"find", u>>, "done")
  /\ UNCHANGED <<at, todo, flow, faults, purse, result, tried>>

(* A transport failure, which counts while no unit has succeeded.          *)
UnitUnreachable(u) ==
  /\ job[<<"find", u>>] = "calling" /\ Become(<<"find", u>>, "done")
  /\ LET n == breaker.failures + 1 IN
     breaker' = IF breaker.ok THEN breaker
                ELSE [breaker EXCEPT !.failures = n,
                                     !.tripped = @ \/ n >= BreakerAt]
  /\ UNCHANGED <<at, todo, flow, cancelled, errs, broken, purse, result, tried>>

(* The runner returns its context's error, swallowed when the breaker is   *)
(* what cancelled it.                                                      *)
FinderErrs == IF breaker.tripped THEN errs ELSE errs \cup {"hyp"}

UnitInterrupted(u) ==
  /\ job[<<"find", u>>] \in {"calling", "thinking"} /\ Stopped(<<"find", u>>)
  /\ Become(<<"find", u>>, "done") /\ errs' = FinderErrs
  /\ UNCHANGED <<at, todo, flow, cancelled, breaker, broken, purse, result, tried>>

FinderStep(u) ==
  \/ SkipUnit(u) \/ UnitFinds(u) \/ UnitEmits(u) \/ UnitEnds(u)
  \/ UnitFails(u) \/ UnitUnreachable(u) \/ UnitInterrupted(u)

HypothesizeStep ==
  Replay \/ StartFinders \/ (\E u \in Units : Launch(u)) \/ LaunchEnds
  \/ CloseCandidates

-----------------------------------------------------------------------------
(* Triage: one goroutine between candCh and verCh.                         *)

TakeCandidate(c) ==
  /\ at["tri"] \in {"recv", "drain"} /\ Arrives("cand", c)
  /\ chan' = Taken("cand")
  /\ IF at["tri"] = "recv"
     THEN Goto("tri", "holding") /\ held' = {c} /\ UNCHANGED fate
     ELSE Settle(c, "lost") /\ UNCHANGED <<at, held>>
  /\ UNCHANGED <<job, todo, closed, overflow, panicked, faults, purse, result,
                 tried>>

(* The dedup arbiter: a runner of the verify pool that holds no slot.      *)
AskArbiter ==
  /\ at["tri"] = "holding" /\ Open("verify") /\ Goto("tri", "asking")
  /\ UNCHANGED <<job, todo, flow, faults, purse, result, tried>>

ArbiterAnswers ==
  /\ at["tri"] = "asking" /\ Goto("tri", "holding")
  /\ Charge("verify", "verifier")
  /\ UNCHANGED <<job, todo, flow, faults, result, tried>>

(* process: dropped or merged, or a primary to forward.                    *)
Judge ==
  /\ at["tri"] = "holding"
  /\ \/ Goto("tri", "recv") /\ held' = {}
        /\ \E c \in held : Settle(c, "dropped")
     \/ Goto("tri", "forward") /\ UNCHANGED <<held, fate>>
  /\ UNCHANGED <<job, todo, chan, closed, overflow, panicked, faults, purse,
                 result, tried>>

JustLeaves   == "leaving"                                       \* mutant
AfterFailure == "drain"

(* A store error, or the context's.                                        *)
TriageFails ==
  /\ at["tri"] \in {"holding", "asking"} /\ Goto("tri", AfterFailure)
  /\ \E c \in held : Settle(c, "lost")
  /\ held' = {} /\ errs' = errs \cup {"tri"} /\ broken' = (broken \/ ~cancelled)
  /\ UNCHANGED <<job, todo, chan, closed, overflow, panicked, cancelled, breaker,
                 purse, result, tried>>

Forward ==
  /\ at["tri"] = "forward" /\ held' = {}
  /\ \E c \in held :
       \/ Send("ver", c) /\ Goto("tri", "recv") /\ UNCHANGED fate
       \/ /\ cancelled /\ Goto("tri", AfterFailure) /\ Settle(c, "lost")
          /\ UNCHANGED <<chan, panicked>>
  /\ UNCHANGED <<job, todo, closed, overflow, faults, purse, result, tried>>

(* candCh is closed and empty, or the goroutine leaves: verCh closes.      *)
TriageEnds ==
  /\ \/ at["tri"] \in {"recv", "drain"} /\ Ended("cand")
     \/ at["tri"] = "leaving"
  /\ Goto("tri", "done") /\ closed' = closed \cup {"ver"}
  /\ UNCHANGED <<job, todo, held, chan, overflow, fate, panicked, faults, purse,
                 result, tried>>

TriageStep ==
  \/ \E c \in Cands : TakeCandidate(c)
  \/ AskArbiter \/ ArbiterAnswers \/ Judge \/ TriageFails \/ Forward
  \/ TriageEnds

-----------------------------------------------------------------------------
(* Verify and repro: the dispatcher is run's own goroutine.                *)

Dispatch(c) ==
  /\ at["main"] = "range" /\ Arrives("ver", c) /\ chan' = Taken("ver")
  /\ Become(<<"verify", c>>, "waiting")
  /\ UNCHANGED <<at, todo, held, closed, overflow, fate, panicked, faults, purse,
                 result, tried>>

(* The hard gate, a runner stopped by the pool: kept as suspected, for     *)
(* want of budget.                                                         *)
PanelStopped(c) ==
  /\ job[<<"verify", c>>] \in {"ready", "thinking"} /\ ~Open("verify")
  /\ Become(<<"verify", c>>, "done") /\ Settle(c, "orphaned")
  /\ UNCHANGED <<at, todo, held, chan, closed, overflow, panicked, faults, purse,
                 result, tried>>

(* The panel's verdict kills the candidate; or every seat failed, or one   *)
(* was stopped by the limit of its own run, and the candidate is kept as   *)
(* suspected, for want of verdicts or of budget, or not even that.         *)
PanelDecides(c) ==
  /\ job[<<"verify", c>>] = "thinking" /\ Become(<<"verify", c>>, "done")
  /\ \E f \in {"killed", "suspected", "capped", "unsaved"} : Settle(c, f)
  /\ UNCHANGED <<at, todo, held, chan, closed, overflow, panicked, faults, purse,
                 result, tried>>

(* Tools that cannot be built, a cancelled run, a finding not stored.      *)
PanelFails(c) ==
  /\ job[<<"verify", c>>] \in {"ready", "calling", "thinking"}
  /\ job[<<"verify", c>>] = "calling" => cancelled
  /\ Become(<<"verify", c>>, "done") /\ Settle(c, "lost")
  /\ errs' = errs \cup {"ver"} /\ broken' = (broken \/ ~cancelled)
  /\ UNCHANGED <<at, todo, held, chan, closed, overflow, panicked, cancelled,
                 breaker, purse, result, tried>>

(* enqueue never blocks: the channel, or the overflow slice when it is full.*)
Enqueue(c) ==
  \/ Send("repro", c) /\ UNCHANGED overflow
  \/ /\ ~HasRoom("repro") /\ overflow' = Append(overflow, c)
     /\ UNCHANGED <<chan, panicked>>

Survives(c) ==
  /\ job[<<"verify", c>>] = "thinking" /\ Become(<<"verify", c>>, "done")
  /\ Settle(c, "verified") /\ Enqueue(c)
  /\ UNCHANGED <<at, todo, held, closed, faults, purse, result, tried>>

PanelStep(c) ==
  PanelStopped(c) \/ PanelDecides(c) \/ PanelFails(c) \/ Survives(c)

Consume(c) ==
  /\ at["consumer"] = "recv" /\ Arrives("repro", c) /\ chan' = Taken("repro")
  /\ Become(<<"repro", c>>, "waiting")
  /\ UNCHANGED <<at, todo, held, closed, overflow, fate, panicked, faults, purse,
                 result, tried>>

ConsumerEnds ==
  /\ at["consumer"] = "recv" /\ Ended("repro") /\ Goto("consumer", "done")
  /\ UNCHANGED <<job, todo, flow, faults, purse, result, tried>>

(* runReproAttempt once it holds its slot: the hook runs.                  *)
Attempt(c) ==
  /\ job[<<"repro", c>>] = "ready" /\ Become(<<"repro", c>>, "done")
  /\ tried' = tried \cup {c}
  /\ UNCHANGED <<at, todo, flow, faults, purse, result>>

(* The join of the panels, before reproQ.ch closes.                        *)
NeverWaits   == Ended("ver")                                    \* mutant
PanelsJoined == Ended("ver") /\ AllDone(Panels)

CloseRepro ==
  /\ at["main"] = "range" /\ PanelsJoined /\ Goto("main", "collect")
  /\ closed' = closed \cup {"repro"}
  /\ UNCHANGED <<job, todo, held, chan, overflow, fate, panicked, faults, purse,
                 result, tried>>

(* The join of consumer and workers, before the overflow.                  *)
WorkersJoin ==
  /\ at["main"] = "collect" /\ at["consumer"] = "done" /\ AllDone(Workers)
  /\ Goto("main", "overflow")
  /\ UNCHANGED <<job, todo, flow, faults, purse, result, tried>>

(* The overflow is attempted one finding after the other.                  *)
AttemptNext ==
  /\ at["main"] = "overflow" /\ overflow # <<>> /\ AllDone(Workers)
  /\ Become(<<"repro", Head(overflow)>>, "waiting") /\ overflow' = Tail(overflow)
  /\ UNCHANGED <<at, todo, held, chan, closed, fate, panicked, faults, purse,
                 result, tried>>

(* The error classification.                                               *)
TrustsStages == IF errs = {} THEN "ok"
                ELSE IF cancelled THEN "interrupted" ELSE "aborted" \* mutant
Classified == IF cancelled THEN "interrupted"
              ELSE IF errs # {} THEN "aborted" ELSE "ok"

Return ==
  /\ at["main"] = "overflow" /\ overflow = <<>> /\ AllDone(Workers)
  /\ at["tri"] = "done" /\ at["hyp"] = "done"
  /\ Goto("main", "done") /\ result' = Classified
  /\ UNCHANGED <<job, todo, flow, faults, purse, tried>>

DispatcherStep ==
  (\E c \in Cands : Dispatch(c)) \/ CloseRepro \/ WorkersJoin \/ AttemptNext
  \/ Return

ConsumerStep == (\E c \in Cands : Consume(c)) \/ ConsumerEnds

Cancel ==
  /\ ~cancelled /\ at["main"] # "done" /\ cancelled' = TRUE
  /\ UNCHANGED <<at, job, todo, flow, breaker, errs, broken, purse, result, tried>>

-----------------------------------------------------------------------------

JobStep(j) ==
  \/ Acquire(j) \/ GiveUp(j) \/ Ask(j) \/ Answer(j)
  \/ \E u \in Units : j = <<"find", u>> /\ FinderStep(u)
  \/ \E c \in Cands : \/ j = <<"verify", c>> /\ PanelStep(c)
                      \/ j = <<"repro", c>> /\ Attempt(c)

Progress ==
  \/ \E j \in Jobs : JobStep(j)
  \/ HypothesizeStep \/ TriageStep \/ DispatcherStep \/ ConsumerStep

Next == Progress \/ Cancel

Spec == Init /\ [][Next]_vars

(* A goroutine that can run is scheduled in the end, and agents end: they  *)
(* run under turn, time and token limits. Nobody has to cancel. A run is a *)
(* finite amount of work, so that some goroutine moves is all it takes.    *)
Fairness == WF_vars(Progress)

FairSpec == Spec /\ Fairness

-----------------------------------------------------------------------------
(* Properties.                                                             *)

(* No stage sends on a channel another has closed, whatever ends early:    *)
(* each closes its output after its last sender is joined                  *)
(* (run_pipeline.go:407, 426, 516-521).                                    *)
NoSendAfterClose == ~panicked

(* What run reports is what happened: a run that returns no error settled  *)
(* every candidate it found and tried to reproduce every finding it        *)
(* verified, through the channel or the overflow; an aborted one had a     *)
(* failing stage, not just a tripped breaker; an interrupted one was       *)
(* cancelled (run_pipeline.go:516-581, hypothesize.go:525-531).            *)
Settled == {"none", "dropped", "killed", "suspected", "orphaned", "capped",
            "unsaved", "verified"}
HonestResult ==
  /\ result = "ok" => \A c \in Cands :
       fate[c] \in Settled /\ (fate[c] = "verified" => c \in tried)
  /\ result = "aborted" => broken
  /\ result = "interrupted" => cancelled

(* The reserve: however much discovery and its summaries spend, a candidate*)
(* is kept unverified for want of budget, its seats within their own limits*)
(* ("capped" else), only when verification itself has used its pool up     *)
(* (budget.go:209-241, 363-379).                                           *)
ReserveForVerify ==
  (\E c \in Cands : fate[c] = "orphaned") => paid["verify"] >= Budget["verify"]

(* The gates read the pools while other runners spend: a stage overshoots  *)
(* by at most one completion per runner, a slot each and, for verify, the  *)
(* dedup arbiter, which holds none (budget.go:329-379).                    *)
Runners == [finder |-> Slots, verify |-> Slots + 1]
BoundedOvershoot ==
  \A p \in Pools : paid[p] <= Budget[p] - 1 + Runners[p] * MaxCost

(* The run returns: no stage waits for ever on another, whichever fails,   *)
(* is cancelled or fills its channel.                                      *)
RunReturns == <>(at["main"] = "done")

=============================================================================
