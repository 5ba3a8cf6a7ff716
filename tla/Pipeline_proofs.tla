--------------------------- MODULE Pipeline_proofs ---------------------------
(***************************************************************************)
(* Theorems about Pipeline, for any finder units, candidates, buffers,     *)
(* slots and budgets.                                                      *)
(***************************************************************************)
EXTENDS Pipeline, FiniteSetTheorems, SequenceTheorems, TLAPS

Labels == {"new", "waiting", "ready", "calling", "thinking", "emitting", "done"}

(* The three kinds of goroutines are told apart by their names.            *)
LEMMA JobKinds ==
  /\ \A u \in Units : <<"find", u>> \in Finders
  /\ \A c \in Cands : <<"verify", c>> \in Panels /\ <<"repro", c>> \in Workers
  /\ \A j \in Finders : \E u \in Units : j = <<"find", u>>
  /\ \A j \in Panels : \E c \in Cands : j = <<"verify", c>>
  /\ \A j \in Workers : \E c \in Cands : j = <<"repro", c>>
  /\ Finders \subseteq Jobs /\ Panels \subseteq Jobs /\ Workers \subseteq Jobs
  /\ \A j \in Jobs : j \in Finders \/ j \in Panels \/ j \in Workers
  /\ \A j \in Finders : j \notin Panels /\ j \notin Workers
  /\ \A j \in Panels : j \notin Workers
BY DEF Finders, Panels, Workers, Jobs

(* What a goroutine becomes, and the rest stays.                           *)
LEMMA BecomeFacts ==
  ASSUME job \in [Jobs -> Labels], NEW j \in Jobs, NEW l \in Labels, Become(j, l)
  PROVE  /\ job' \in [Jobs -> Labels] /\ job'[j] = l
         /\ \A k \in Jobs \ {j} : job'[k] = job[k]
BY DEF Become

(* A stage moves, and the rest stays.                                      *)
LEMMA GotoFacts ==
  ASSUME at \in [Stages -> Places], NEW s \in Stages, NEW p \in Places, Goto(s, p)
  PROVE  /\ at' \in [Stages -> Places] /\ at'[s] = p
         /\ \A t \in Stages \ {s} : at'[t] = at[t]
BY DEF Goto

-----------------------------------------------------------------------------
(* Types.                                                                  *)

(* Where each stage can be, and when triage has a candidate in hand.       *)
StagesOK ==
  /\ at["hyp"] \in {"replay", "launch", "wait", "done"}
  /\ \/ at["tri"] \in {"holding", "asking", "forward"} /\ \E c \in Cands : held = {c}
     \/ at["tri"] \in {"recv", "drain", "done"} /\ held = {}
  /\ at["main"] \in {"range", "collect", "overflow", "done"}
  /\ at["consumer"] \in {"recv", "done"}

EndedUnits == {u \in Units : job[<<"find", u>>] = "done"}

(* A unit counts as a transport failure once, when it ends.                *)
FailuresOK == breaker.failures <= Cardinality(EndedUnits)

TypeInv ==
  /\ at \in [Stages -> Places]
  /\ job \in [Jobs -> Labels]
  /\ todo \in [Units \cup {"replay"} -> SUBSET Cands]
  /\ held \subseteq Cands
  /\ chan \in [Channels -> Seq(Cands)]
  /\ \A ch \in Channels : Len(chan[ch]) <= Room[ch]
  /\ closed \subseteq Channels /\ overflow \in Seq(Cands)
  /\ cancelled \in BOOLEAN /\ broken \in BOOLEAN /\ panicked \in BOOLEAN
  /\ breaker \in [ok : BOOLEAN, failures : Nat, tripped : BOOLEAN]
  /\ errs \subseteq {"hyp", "tri", "ver"}
  /\ spent \in [Pools -> Nat] /\ paid \in [Pools -> Nat]
  /\ result \in {"none", "ok", "aborted", "interrupted"}
  /\ fate \in [Cands -> Fates] /\ tried \subseteq Cands
  /\ StagesOK

LEMMA InitTyped == Init => TypeInv /\ FailuresOK
<1> SUFFICES ASSUME Init PROVE TypeInv /\ FailuresOK
  OBVIOUS
<1>1. at \in [Stages -> Places] /\ StagesOK
  BY DEF Init, Stages, Places, StagesOK
<1>2. EndedUnits = {} /\ Cardinality(EndedUnits) = 0
  BY FS_EmptySet, JobKinds DEF Init, EndedUnits
<1>3. FailuresOK
  BY <1>2 DEF Init, FailuresOK, Untripped
<1>4. <<>> \in Seq(Cands) /\ Len(<<>>) = 0
  BY EmptySeq
<1>5. Replayed \subseteq Cands
  BY DEF Cands
<1>6. todo \in [Units \cup {"replay"} -> SUBSET Cands]
  BY <1>5 DEF Init
<1>7. job \in [Jobs -> Labels]
  BY DEF Init, Labels
<1>8. breaker \in [ok : BOOLEAN, failures : Nat, tripped : BOOLEAN]
  BY DEF Init, Untripped
<1>9. fate \in [Cands -> Fates] /\ chan \in [Channels -> Seq(Cands)]
  BY <1>4 DEF Init, Fates
<1>10. \A ch \in Channels : Len(chan[ch]) <= Room[ch]
  BY <1>4, PipelineAssumption DEF Init
<1>11. QED
  BY <1>1, <1>3, <1>4, <1>6, <1>7, <1>8, <1>9, <1>10 DEF Init, TypeInv

(* What is in a sequence.                                                  *)
Elems(s) == {s[i] : i \in 1..Len(s)}

LEMMA AppendElems ==
  ASSUME NEW S, NEW s \in Seq(S), NEW e \in S
  PROVE  /\ Append(s, e) \in Seq(S) /\ Len(Append(s, e)) = Len(s) + 1 /\ Len(s) \in Nat
         /\ Elems(Append(s, e)) = Elems(s) \cup {e}
<1>1. /\ Append(s, e) \in Seq(S) /\ Len(Append(s, e)) = Len(s) + 1
      /\ \A i \in 1..Len(s) : Append(s, e)[i] = s[i]
      /\ Append(s, e)[Len(s) + 1] = e
  BY AppendProperties
<1>2. Len(s) \in Nat
  BY LenProperties
<1>3. QED
  BY <1>1, <1>2 DEF Elems

LEMMA TailElems ==
  ASSUME NEW S, NEW s \in Seq(S), s # <<>>
  PROVE  /\ Head(s) \in S /\ Tail(s) \in Seq(S)
         /\ Len(Tail(s)) = Len(s) - 1 /\ Len(s) \in Nat
         /\ Elems(s) = Elems(Tail(s)) \cup {Head(s)}
<1>1. /\ Head(s) \in S /\ Tail(s) \in Seq(S) /\ Len(Tail(s)) = Len(s) - 1
      /\ \A i \in 1..Len(Tail(s)) : Tail(s)[i] = s[i + 1]
  BY HeadTailProperties
<1>2. Len(s) \in Nat \ {0} /\ Head(s) = s[1]
  BY EmptySeq, LenProperties
<1>3. Elems(s) \subseteq Elems(Tail(s)) \cup {Head(s)}
  <2> SUFFICES ASSUME NEW i \in 1..Len(s) PROVE s[i] \in Elems(Tail(s)) \cup {Head(s)}
    BY DEF Elems
  <2>1. CASE i = 1
    BY <1>2, <2>1
  <2>2. CASE i # 1
    <3>1. i - 1 \in 1..Len(Tail(s)) /\ (i - 1) + 1 = i
      BY <1>1, <1>2, <2>2
    <3>2. Tail(s)[i - 1] = s[i]
      BY <1>1, <3>1
    <3>3. QED
      BY <3>1, <3>2 DEF Elems
  <2>3. QED
    BY <2>1, <2>2
<1>4. Elems(Tail(s)) \subseteq Elems(s)
  BY <1>1, <1>2 DEF Elems
<1>5. Head(s) \in Elems(s)
  BY <1>2 DEF Elems
<1>6. QED
  BY <1>1, <1>2, <1>3, <1>4, <1>5

LEMMA EmptyElems == Elems(<<>>) = {}
BY EmptySeq DEF Elems

(* A send puts one candidate in one channel.                               *)
LEMMA SendFacts ==
  ASSUME TypeInv, NEW ch \in Channels, NEW c \in Cands, Send(ch, c)
  PROVE  /\ chan' \in [Channels -> Seq(Cands)] /\ panicked' \in BOOLEAN
         /\ \A d \in Channels : Len(chan'[d]) <= Room[d]
         /\ Elems(chan'[ch]) = Elems(chan[ch]) \cup {c}
         /\ \A d \in Channels \ {ch} : chan'[d] = chan[d]
<1>1. chan' = [chan EXCEPT ![ch] = Append(@, c)] /\ panicked' \in BOOLEAN
  BY DEF Send, TypeInv
<1>2. Len(chan[ch]) < Room[ch]
  BY DEF Send, HasRoom
<1>3. chan[ch] \in Seq(Cands)
  BY DEF TypeInv
<1>4. /\ Append(chan[ch], c) \in Seq(Cands)
      /\ Len(Append(chan[ch], c)) = Len(chan[ch]) + 1 /\ Len(chan[ch]) \in Nat
      /\ Elems(Append(chan[ch], c)) = Elems(chan[ch]) \cup {c}
  BY <1>3, AppendElems
<1>5. chan'[ch] = Append(chan[ch], c) /\ \A d \in Channels \ {ch} : chan'[d] = chan[d]
  BY <1>1 DEF TypeInv
<1>6. Room[ch] \in Nat
  BY PipelineAssumption
<1>7. QED
  BY <1>1, <1>2, <1>4, <1>5, <1>6 DEF TypeInv

(* A receive takes the first one.                                          *)
LEMMA TakenFacts ==
  ASSUME TypeInv, NEW ch \in Channels, NEW c, Arrives(ch, c), chan' = Taken(ch)
  PROVE  /\ chan' \in [Channels -> Seq(Cands)] /\ c \in Cands
         /\ \A d \in Channels : Len(chan'[d]) <= Room[d]
         /\ Elems(chan[ch]) = Elems(chan'[ch]) \cup {c}
         /\ \A d \in Channels \ {ch} : chan'[d] = chan[d]
<1>1. chan[ch] \in Seq(Cands) /\ chan[ch] # <<>> /\ c = Head(chan[ch])
  BY DEF TypeInv, Arrives
<1>2. /\ c \in Cands /\ Tail(chan[ch]) \in Seq(Cands)
      /\ Len(Tail(chan[ch])) = Len(chan[ch]) - 1 /\ Len(chan[ch]) \in Nat
      /\ Elems(chan[ch]) = Elems(Tail(chan[ch])) \cup {c}
  BY <1>1, TailElems
<1>3. chan'[ch] = Tail(chan[ch]) /\ \A d \in Channels \ {ch} : chan'[d] = chan[d]
  BY DEF TypeInv, Taken
<1>4. Room[ch] \in Nat
  BY PipelineAssumption
<1>5. QED
  BY <1>2, <1>3, <1>4 DEF TypeInv, Taken

(* What a completion costs is charged to both purses.                      *)
LEMMA ChargeFacts ==
  ASSUME spent \in [Pools -> Nat], paid \in [Pools -> Nat],
         NEW p \in Pools, NEW role, PoolOf(role) = p, Charge(p, role)
  PROVE  /\ spent' \in [Pools -> Nat] /\ paid' \in [Pools -> Nat]
         /\ \E cost \in 1..MaxCost :
              /\ paid' = [paid EXCEPT ![p] = @ + cost]
              /\ spent' = [spent EXCEPT ![p] = @ + cost]
<1>1. PICK cost \in 1..MaxCost :
        /\ spent' = [spent EXCEPT ![p] = @ + cost]
        /\ paid' = [paid EXCEPT ![p] = @ + cost]
  BY DEF Charge
<1>2. cost \in Nat /\ spent[p] + cost \in Nat /\ paid[p] + cost \in Nat
  BY PipelineAssumption
<1>3. spent' \in [Pools -> Nat] /\ paid' \in [Pools -> Nat]
  BY <1>1, <1>2
<1>4. QED
  BY <1>1, <1>3

LEMMA JobTyped ==
  ASSUME TypeInv, NEW j \in Jobs, Acquire(j) \/ GiveUp(j) \/ Ask(j) \/ Answer(j)
  PROVE  TypeInv'
<1>1. CASE Acquire(j) \/ GiveUp(j) \/ Ask(j)
  BY <1>1, BecomeFacts DEF Acquire, GiveUp, Ask, TypeInv, StagesOK, flow, faults, purse, Labels
<1>2. CASE Answer(j)
  <2>1. job' \in [Jobs -> Labels]
    BY <1>2, BecomeFacts DEF Answer, TypeInv, Labels
  <2>2. spent' \in [Pools -> Nat] /\ paid' \in [Pools -> Nat]
    BY <1>2, ChargeFacts DEF Answer, TypeInv, StageOf, PoolOf, Pools
  <2>3. QED
    BY <1>2, <2>1, <2>2 DEF Answer, TypeInv, StagesOK, flow, faults
<1>3. QED
  BY <1>1, <1>2

LEMMA EmitTyped ==
  ASSUME TypeInv, NEW p \in Units \cup {"replay"}, NEW c, Emit(p, c)
  PROVE  TypeInv'
<1>1. c \in Cands /\ todo' \in [Units \cup {"replay"} -> SUBSET Cands]
  BY DEF Emit, TypeInv
<1>2. CASE Send("cand", c) /\ UNCHANGED fate
  BY <1>1, <1>2, SendFacts DEF Emit, TypeInv, StagesOK, faults, purse, Channels
<1>3. CASE Settle(c, "lost") /\ UNCHANGED <<chan, panicked>>
  BY <1>1, <1>3 DEF Emit, TypeInv, StagesOK, faults, purse, Settle, Fates
<1>4. QED
  BY <1>2, <1>3 DEF Emit

LEMMA HypothesizeTyped ==
  ASSUME TypeInv, HypothesizeStep
  PROVE  TypeInv'
<1>1. CASE Replay
  BY <1>1, EmitTyped DEF Replay
<1>2. CASE StartFinders
  BY <1>2, GotoFacts DEF StartFinders, TypeInv, StagesOK, flow, purse, Stages, Places
<1>3. ASSUME NEW u \in Units, Launch(u)
      PROVE  TypeInv'
  BY <1>3, BecomeFacts, JobKinds DEF Launch, TypeInv, StagesOK, flow, faults, purse, Labels
<1>4. CASE LaunchEnds
  BY <1>4, GotoFacts DEF LaunchEnds, TypeInv, StagesOK, flow, faults, purse, Stages, Places
<1>5. CASE CloseCandidates
  BY <1>5, GotoFacts
     DEF CloseCandidates, TypeInv, StagesOK, faults, purse, Stages, Places, Channels
<1>6. QED
  BY <1>1, <1>2, <1>3, <1>4, <1>5 DEF HypothesizeStep

LEMMA FinderTyped ==
  ASSUME TypeInv, NEW u \in Units, FinderStep(u)
  PROVE  TypeInv'
<1>1. /\ <<"find", u>> \in Jobs
      /\ \A l \in Labels : Become(<<"find", u>>, l) => job' \in [Jobs -> Labels]
  BY BecomeFacts, JobKinds DEF TypeInv
<1>2. CASE SkipUnit(u) \/ UnitEnds(u) \/ UnitFails(u)
  BY <1>1, <1>2 DEF SkipUnit, UnitEnds, UnitFails, TypeInv, StagesOK, flow, faults, purse, Labels
<1>3. CASE UnitFinds(u)
  <2>1. PICK S \in SUBSET Finds[u] :
          /\ todo' = [todo EXCEPT ![u] = S]
          /\ fate' = [c \in Cands |-> IF c \in S THEN "found" ELSE fate[c]]
    BY <1>3 DEF UnitFinds
  <2>2. S \subseteq Cands
    BY DEF Cands
  <2>3. todo' \in [Units \cup {"replay"} -> SUBSET Cands] /\ fate' \in [Cands -> Fates]
    BY <2>1, <2>2 DEF TypeInv, Fates
  <2>4. job' \in [Jobs -> Labels] /\ breaker' \in [ok : BOOLEAN, failures : Nat, tripped : BOOLEAN]
    BY <1>1, <1>3 DEF UnitFinds, TypeInv, Labels
  <2>5. QED
    BY <1>3, <2>3, <2>4 DEF UnitFinds, TypeInv, StagesOK, purse
<1>4. CASE UnitEmits(u)
  BY <1>4, EmitTyped DEF UnitEmits
<1>5. CASE UnitUnreachable(u)
  <2>1. breaker' \in [ok : BOOLEAN, failures : Nat, tripped : BOOLEAN]
    <3> DEFINE n == breaker.failures + 1
               b == [breaker EXCEPT !.failures = n, !.tripped = @ \/ n >= BreakerAt]
    <3>1. breaker' = breaker \/ breaker' = b
      BY <1>5 DEF UnitUnreachable
    <3>2. breaker.failures \in Nat /\ breaker \in [ok : BOOLEAN, failures : Nat, tripped : BOOLEAN]
      BY DEF TypeInv
    <3>3. n \in Nat /\ (breaker.tripped \/ n >= BreakerAt) \in BOOLEAN
      BY <3>2
    <3>4. b \in [ok : BOOLEAN, failures : Nat, tripped : BOOLEAN]
      BY <3>2, <3>3
    <3>5. QED
      BY <3>1, <3>2, <3>4
  <2>2. QED
    BY <1>1, <1>5, <2>1 DEF UnitUnreachable, TypeInv, StagesOK, flow, purse, Labels
<1>6. CASE UnitInterrupted(u)
  BY <1>1, <1>6 DEF UnitInterrupted, FinderErrs, TypeInv, StagesOK, flow, purse, Labels
<1>7. QED
  BY <1>2, <1>3, <1>4, <1>5, <1>6 DEF FinderStep

LEMMA TriageTyped ==
  ASSUME TypeInv, TriageStep
  PROVE  TypeInv'
<1>1. \A p \in Places : Goto("tri", p) =>
        /\ at' \in [Stages -> Places] /\ at'["tri"] = p
        /\ at'["hyp"] = at["hyp"] /\ at'["main"] = at["main"]
        /\ at'["consumer"] = at["consumer"]
  BY GotoFacts DEF TypeInv, Stages
<1>2. ASSUME NEW c \in Cands, TakeCandidate(c)
      PROVE  TypeInv'
  <2>1. /\ chan' \in [Channels -> Seq(Cands)] /\ \A d \in Channels : Len(chan'[d]) <= Room[d]
    BY <1>2, TakenFacts DEF TakeCandidate, Channels
  <2>2. QED
    BY <1>1, <1>2, <2>1
       DEF TakeCandidate, Settle, TypeInv, StagesOK, faults, purse, Places, Fates
<1>3. CASE AskArbiter
  BY <1>1, <1>3 DEF AskArbiter, TypeInv, StagesOK, flow, faults, purse, Places
<1>4. CASE ArbiterAnswers
  <2>1. spent' \in [Pools -> Nat] /\ paid' \in [Pools -> Nat]
    BY <1>4, ChargeFacts DEF ArbiterAnswers, TypeInv, PoolOf, Pools
  <2>2. QED
    BY <1>1, <1>4, <2>1 DEF ArbiterAnswers, TypeInv, StagesOK, flow, faults, Places
<1>5. CASE Judge
  BY <1>1, <1>5 DEF Judge, Settle, TypeInv, StagesOK, faults, purse, Places, Fates
<1>6. CASE TriageFails
  BY <1>1, <1>6
     DEF TriageFails, AfterFailure, Settle, TypeInv, StagesOK, purse, Places, Fates
<1>7. CASE Forward
  <2>1. PICK c \in Cands : held = {c}
    BY <1>7 DEF Forward, TypeInv, StagesOK
  <2>2. CASE Send("ver", c) /\ Goto("tri", "recv") /\ UNCHANGED fate
    BY <1>1, <1>7, <2>2, SendFacts
       DEF Forward, TypeInv, StagesOK, faults, purse, Places, Channels
  <2>3. CASE Goto("tri", AfterFailure) /\ Settle(c, "lost") /\ UNCHANGED <<chan, panicked>>
    BY <1>1, <1>7, <2>1, <2>3
       DEF Forward, AfterFailure, Settle, TypeInv, StagesOK, faults, purse, Places, Fates
  <2>4. QED
    BY <1>7, <2>1, <2>2, <2>3 DEF Forward
<1>8. CASE TriageEnds
  BY <1>1, <1>8 DEF TriageEnds, TypeInv, StagesOK, faults, purse, Places, Channels
<1>9. QED
  BY <1>2, <1>3, <1>4, <1>5, <1>6, <1>7, <1>8 DEF TriageStep

LEMMA PanelTyped ==
  ASSUME TypeInv, NEW c \in Cands, PanelStep(c) \/ Attempt(c)
  PROVE  TypeInv'
<1>1. /\ <<"verify", c>> \in Jobs /\ <<"repro", c>> \in Jobs
      /\ \A l \in Labels : Become(<<"verify", c>>, l) \/ Become(<<"repro", c>>, l) =>
           job' \in [Jobs -> Labels]
  BY BecomeFacts, JobKinds DEF TypeInv
<1>2. \A f \in Fates : Settle(c, f) => fate' \in [Cands -> Fates]
  BY DEF TypeInv, Settle
<1>3. CASE PanelStopped(c)
  BY <1>1, <1>2, <1>3 DEF PanelStopped, TypeInv, StagesOK, faults, purse, Labels, Fates
<1>4. CASE PanelDecides(c)
  BY <1>1, <1>2, <1>4 DEF PanelDecides, TypeInv, StagesOK, faults, purse, Labels, Fates
<1>5. CASE PanelFails(c)
  BY <1>1, <1>2, <1>5 DEF PanelFails, TypeInv, StagesOK, purse, Labels, Fates
<1>6. CASE Survives(c)
  <2>1. CASE Send("repro", c) /\ UNCHANGED overflow
    BY <1>1, <1>2, <1>6, <2>1, SendFacts
       DEF Survives, TypeInv, StagesOK, faults, purse, Labels, Fates, Channels
  <2>2. CASE overflow' = Append(overflow, c) /\ UNCHANGED <<chan, panicked>>
    <3>1. overflow' \in Seq(Cands)
      BY <2>2, AppendElems DEF TypeInv
    <3>2. QED
      BY <1>1, <1>2, <1>6, <2>2, <3>1
         DEF Survives, TypeInv, StagesOK, faults, purse, Labels, Fates
  <2>3. QED
    BY <1>6, <2>1, <2>2 DEF Survives, Enqueue
<1>7. CASE Attempt(c)
  BY <1>1, <1>7 DEF Attempt, TypeInv, StagesOK, flow, faults, purse, Labels
<1>8. QED
  BY <1>3, <1>4, <1>5, <1>6, <1>7 DEF PanelStep

LEMMA DispatcherTyped ==
  ASSUME TypeInv, DispatcherStep \/ ConsumerStep \/ Cancel
  PROVE  TypeInv'
<1>1. ASSUME NEW c \in Cands, Become(<<"verify", c>>, "waiting") \/ Become(<<"repro", c>>, "waiting")
      PROVE  job' \in [Jobs -> Labels]
  BY <1>1, BecomeFacts, JobKinds DEF TypeInv, Labels
<1>2. \A s \in Stages, p \in Places : Goto(s, p) =>
        /\ at' \in [Stages -> Places] /\ at'[s] = p
        /\ \A t \in Stages \ {s} : at'[t] = at[t]
  BY GotoFacts DEF TypeInv
<1>3. ASSUME NEW c \in Cands, Dispatch(c)
      PROVE  TypeInv'
  <2>1. job' \in [Jobs -> Labels]
    BY <1>1, <1>3 DEF Dispatch
  <2>2. QED
    BY <1>3, <2>1, TakenFacts DEF Dispatch, TypeInv, StagesOK, faults, purse, Channels
<1>4. CASE CloseRepro
  BY <1>2, <1>4 DEF CloseRepro, TypeInv, StagesOK, faults, purse, Stages, Places, Channels
<1>5. CASE WorkersJoin
  BY <1>2, <1>5 DEF WorkersJoin, TypeInv, StagesOK, flow, faults, purse, Stages, Places
<1>6. CASE AttemptNext
  <2>1. Head(overflow) \in Cands /\ overflow' \in Seq(Cands)
    BY <1>6, TailElems DEF AttemptNext, TypeInv
  <2>2. job' \in [Jobs -> Labels]
    BY <1>1, <1>6, <2>1 DEF AttemptNext
  <2>3. QED
    BY <1>6, <2>1, <2>2 DEF AttemptNext, TypeInv, StagesOK, faults, purse
<1>7. CASE Return
  BY <1>2, <1>7 DEF Return, Classified, TypeInv, StagesOK, flow, faults, purse, Stages, Places
<1>8. ASSUME NEW c \in Cands, Consume(c)
      PROVE  TypeInv'
  <2>1. job' \in [Jobs -> Labels]
    BY <1>1, <1>8 DEF Consume
  <2>2. QED
    BY <1>8, <2>1, TakenFacts DEF Consume, TypeInv, StagesOK, faults, purse, Channels
<1>9. CASE ConsumerEnds
  BY <1>2, <1>9 DEF ConsumerEnds, TypeInv, StagesOK, flow, faults, purse, Stages, Places
<1>10. CASE Cancel
  BY <1>10 DEF Cancel, TypeInv, StagesOK, flow, purse
<1>11. QED
  BY <1>3, <1>4, <1>5, <1>6, <1>7, <1>8, <1>9, <1>10 DEF DispatcherStep, ConsumerStep

(* Every step is one of these, and none disturbs the types.                *)
LEMMA StepTyped ==
  ASSUME TypeInv, [Next]_vars
  PROVE  TypeInv'
<1>1. ASSUME NEW j \in Jobs, JobStep(j)
      PROVE  TypeInv'
  BY <1>1, JobTyped, FinderTyped, PanelTyped DEF JobStep
<1>2. CASE UNCHANGED vars
  BY <1>2 DEF vars, flow, faults, purse, TypeInv, StagesOK
<1>3. QED
  BY <1>1, <1>2, HypothesizeTyped, TriageTyped, DispatcherTyped DEF Next, Progress

(* What a step does to the goroutines: one is started, or a started one    *)
(* goes on; one that enters a slot found it free.                          *)
InSlot == {"ready", "calling", "thinking", "emitting"}
JobMove(j, l) ==
  /\ Become(j, l)
  /\ \/ /\ l = "waiting"
        /\ \/ j \in Finders /\ job[j] = "new" /\ at["hyp"] = "launch"
           \/ j \in Panels /\ at["main"] = "range"
           \/ j \in Workers /\ (at["consumer"] = "recv" \/ at["main"] = "overflow")
     \/ /\ job[j] \notin {"new", "done"} /\ l \notin {"new", "waiting"}
        /\ l \in InSlot => job[j] \in InSlot \/ Cardinality(Holding) < Slots

LEMMA JobMoves ==
  ASSUME TypeInv, [Next]_vars
  PROVE  UNCHANGED job \/ \E j \in Jobs, l \in Labels : JobMove(j, l)
<1>1. ASSUME NEW j \in Jobs, Acquire(j) \/ GiveUp(j) \/ Ask(j) \/ Answer(j)
      PROVE  \E l \in Labels : JobMove(j, l)
  BY <1>1 DEF Acquire, GiveUp, Ask, Answer, JobMove, InSlot, Labels
<1>2. ASSUME NEW u \in Units, FinderStep(u)
      PROVE  UNCHANGED job \/ \E l \in Labels : JobMove(<<"find", u>>, l)
  BY <1>2 DEF FinderStep, SkipUnit, UnitFinds, UnitEmits, Emit, UnitEnds, UnitFails,
              UnitUnreachable, UnitInterrupted, JobMove, InSlot, Labels
<1>3. ASSUME NEW c \in Cands, PanelStep(c)
      PROVE  \E l \in Labels : JobMove(<<"verify", c>>, l)
  BY <1>3 DEF PanelStep, PanelStopped, PanelDecides, PanelFails, Survives, JobMove, InSlot,
              Labels
<1>4. ASSUME NEW c \in Cands, Attempt(c)
      PROVE  \E l \in Labels : JobMove(<<"repro", c>>, l)
  BY <1>4 DEF Attempt, JobMove, InSlot, Labels
<1>5. ASSUME NEW u \in Units, Launch(u)
      PROVE  \E l \in Labels : JobMove(<<"find", u>>, l)
  BY <1>5, JobKinds DEF Launch, JobMove, Labels
<1>6. ASSUME HypothesizeStep, \A u \in Units : ~Launch(u)
      PROVE  UNCHANGED job
  BY <1>6 DEF HypothesizeStep, Replay, Emit, StartFinders, LaunchEnds, CloseCandidates
<1>7. ASSUME TriageStep
      PROVE  UNCHANGED job
  BY <1>7 DEF TriageStep, TakeCandidate, AskArbiter, ArbiterAnswers, Judge, TriageFails,
              Forward, TriageEnds
<1>8. ASSUME NEW c \in Cands, Dispatch(c)
      PROVE  \E l \in Labels : JobMove(<<"verify", c>>, l)
  BY <1>8, JobKinds DEF Dispatch, JobMove, Labels
<1>9. ASSUME NEW c \in Cands, Consume(c)
      PROVE  \E l \in Labels : JobMove(<<"repro", c>>, l)
  BY <1>9, JobKinds DEF Consume, JobMove, Labels
<1>10. ASSUME AttemptNext
       PROVE  \E c \in Cands, l \in Labels : JobMove(<<"repro", c>>, l)
  <2>1. Head(overflow) \in Cands
    BY <1>10, TailElems DEF AttemptNext, TypeInv
  <2>2. JobMove(<<"repro", Head(overflow)>>, "waiting")
    BY <1>10, <2>1, JobKinds DEF AttemptNext, JobMove
  <2>3. QED
    BY <2>1, <2>2 DEF Labels
<1>11. ASSUME CloseRepro \/ WorkersJoin \/ Return \/ ConsumerEnds \/ Cancel \/ UNCHANGED vars
       PROVE  UNCHANGED job
  BY <1>11 DEF CloseRepro, WorkersJoin, Return, ConsumerEnds, Cancel, vars
<1>12. QED
  BY <1>1, <1>2, <1>3, <1>4, <1>5, <1>6, <1>7, <1>8, <1>9, <1>10, <1>11, JobKinds
     DEF Next, Progress, JobStep, DispatcherStep, ConsumerStep

(* Only a unit that cannot reach its model counts as a failure.            *)
LEMMA BreakerMoves ==
  ASSUME TypeInv, [Next]_vars
  PROVE  \/ breaker'.failures = breaker.failures
         \/ \E u \in Units : UnitUnreachable(u)
<1>1. ASSUME NEW u \in Units, FinderStep(u), ~UnitUnreachable(u)
      PROVE  breaker'.failures = breaker.failures
  BY <1>1 DEF TypeInv, FinderStep, SkipUnit, UnitFinds, UnitEmits, Emit, UnitEnds, UnitFails,
              UnitInterrupted, faults
<1>2. ASSUME NEW j \in Jobs, Acquire(j) \/ GiveUp(j) \/ Ask(j) \/ Answer(j)
      PROVE  UNCHANGED breaker
  BY <1>2 DEF Acquire, GiveUp, Ask, Answer, faults
<1>3. ASSUME NEW c \in Cands, PanelStep(c) \/ Attempt(c)
      PROVE  UNCHANGED breaker
  BY <1>3 DEF PanelStep, PanelStopped, PanelDecides, PanelFails, Survives, Attempt, faults
<1>4. ASSUME HypothesizeStep \/ TriageStep
      PROVE  UNCHANGED breaker
  BY <1>4 DEF HypothesizeStep, Replay, Emit, StartFinders, Launch, LaunchEnds, CloseCandidates,
              TriageStep, TakeCandidate, AskArbiter, ArbiterAnswers, Judge, TriageFails,
              Forward, TriageEnds, faults
<1>5. ASSUME DispatcherStep \/ ConsumerStep \/ Cancel \/ UNCHANGED vars
      PROVE  UNCHANGED breaker
  BY <1>5 DEF DispatcherStep, ConsumerStep, Dispatch, CloseRepro, WorkersJoin, AttemptNext,
              Return, Consume, ConsumerEnds, Cancel, vars, faults
<1>6. QED
  BY <1>1, <1>2, <1>3, <1>4, <1>5 DEF Next, Progress, JobStep

(* A unit that failed to reach its model has ended, and stays ended.       *)
LEMMA FailuresCounted ==
  ASSUME TypeInv, FailuresOK, [Next]_vars
  PROVE  FailuresOK'
<1>1. IsFiniteSet(Units) /\ EndedUnits \subseteq Units /\ EndedUnits' \subseteq Units
  BY PipelineAssumption DEF EndedUnits
<1>2. /\ IsFiniteSet(EndedUnits') /\ IsFiniteSet(EndedUnits)
      /\ Cardinality(EndedUnits) \in Nat /\ Cardinality(EndedUnits') \in Nat
  BY <1>1, FS_Subset, FS_CardinalityType
<1>3. EndedUnits \subseteq EndedUnits'
  <2>1. ASSUME NEW j \in Finders, job[j] = "done"
        PROVE  job'[j] = "done"
    BY <2>1, JobMoves, BecomeFacts, JobKinds DEF JobMove, TypeInv
  <2>2. QED
    BY <2>1, JobKinds DEF EndedUnits
<1>4. Cardinality(EndedUnits) <= Cardinality(EndedUnits')
  BY <1>2, <1>3, FS_Subset
<1>5. CASE breaker'.failures = breaker.failures
  BY <1>2, <1>4, <1>5 DEF FailuresOK, TypeInv
<1>6. ASSUME NEW u \in Units, UnitUnreachable(u)
      PROVE  FailuresOK'
  <2>1. u \notin EndedUnits /\ u \in EndedUnits'
    BY <1>6, BecomeFacts, JobKinds DEF UnitUnreachable, EndedUnits, TypeInv, Labels
  <2>2. Cardinality(EndedUnits \cup {u}) = Cardinality(EndedUnits) + 1
    BY <1>2, <2>1, FS_AddElement
  <2>3. Cardinality(EndedUnits \cup {u}) <= Cardinality(EndedUnits')
    BY <1>2, <1>3, <2>1, FS_Subset
  <2>4. breaker'.failures \in {breaker.failures, breaker.failures + 1}
    BY <1>6 DEF UnitUnreachable, TypeInv
  <2>5. QED
    BY <1>2, <1>4, <2>2, <2>3, <2>4 DEF FailuresOK, TypeInv
<1>7. QED
  BY <1>5, <1>6, BreakerMoves

-----------------------------------------------------------------------------
LEMMA TypedHolds == Spec => [](TypeInv /\ FailuresOK)
<1>1. TypeInv /\ FailuresOK /\ [Next]_vars => (TypeInv /\ FailuresOK)'
  BY StepTyped, FailuresCounted
<1>2. QED
  BY <1>1, InitTyped, PTL DEF Spec

(* The pipeline's state is well typed: no channel holds more than its      *)
(* buffer, triage has one candidate in hand at most, and no unit counts    *)
(* twice towards the breaker (run_pipeline.go:201-229, hypothesize.go:513).*)
THEOREM TypeCorrect == Spec => []TypeOK
<1>1. TypeInv /\ FailuresOK => TypeOK
  <2> SUFFICES ASSUME TypeInv, FailuresOK PROVE TypeOK
    OBVIOUS
  <2>1. Cardinality(held) <= 1
    <3>1. Cardinality({}) = 0 /\ \A c \in Cands : Cardinality({c}) = 1
      BY FS_EmptySet, FS_Singleton
    <3>2. held = {} \/ \E c \in Cands : held = {c}
      BY DEF TypeInv, StagesOK
    <3>3. QED
      BY <3>1, <3>2
  <2>2. breaker \in [ok : BOOLEAN, failures : 0..Cardinality(Units), tripped : BOOLEAN]
    <3>1. Cardinality(Units) \in Nat /\ Cardinality(EndedUnits) \in Nat
          /\ Cardinality(EndedUnits) <= Cardinality(Units)
      BY PipelineAssumption, FS_Subset, FS_CardinalityType DEF EndedUnits
    <3>2. breaker.failures \in 0..Cardinality(Units)
      BY <3>1 DEF FailuresOK, TypeInv
    <3>3. QED
      BY <3>2 DEF TypeInv
  <2>3. QED
    BY <2>1, <2>2 DEF TypeInv, TypeOK, Labels
<1>2. QED
  BY <1>1, TypedHolds, PTL

-----------------------------------------------------------------------------
(* The purses.                                                             *)

SlotsOK == IsFiniteSet(Holding) /\ Cardinality(Holding) <= Slots

(* The completions a stage has requested and not been charged for.         *)
Callers(p) == {j \in Jobs : job[j] = "calling" /\ StageOf(j) = p}
Arbiter(p) == IF p = "verify" /\ at["tri"] = "asking" THEN 1 ELSE 0
Pending(p) == Cardinality(Callers(p)) + Arbiter(p)

(* A stage's spend, with a full price for each completion it awaits, stays *)
(* within the bound.                                                       *)
DebtOK ==
  \A p \in Pools : paid[p] <= Budget[p] - 1 + (Runners[p] - Pending(p)) * MaxCost

PurseInv == SlotsOK /\ paid = spent /\ DebtOK /\ ReserveForVerify

LEMMA SlotsKept ==
  ASSUME TypeInv, SlotsOK, [Next]_vars
  PROVE  SlotsOK'
<1>1. CASE UNCHANGED job
  BY <1>1 DEF SlotsOK, Holding
<1>2. ASSUME NEW j \in Jobs, NEW l \in Labels, JobMove(j, l)
      PROVE  SlotsOK'
  <2>1. /\ job'[j] = l /\ \A k \in Jobs \ {j} : job'[k] = job[k]
    BY <1>2, BecomeFacts DEF JobMove, TypeInv
  <2>2. Cardinality(Holding) \in Nat
    BY FS_CardinalityType DEF SlotsOK
  <2>3. CASE l \in InSlot /\ j \notin Holding
    <3>1. Holding' = Holding \cup {j}
      BY <2>1, <2>3 DEF Holding, InSlot
    <3>2. Cardinality(Holding) < Slots
      BY <1>2, <2>3 DEF JobMove, Holding, InSlot
    <3>3. IsFiniteSet(Holding') /\ Cardinality(Holding') = Cardinality(Holding) + 1
      BY <2>3, <3>1, FS_AddElement DEF SlotsOK
    <3>4. QED
      BY <2>2, <3>2, <3>3, PipelineAssumption DEF SlotsOK
  <2>4. CASE l \notin InSlot \/ j \in Holding
    <3>1. Holding' \subseteq Holding
      BY <2>1, <2>4 DEF Holding, InSlot
    <3>2. IsFiniteSet(Holding') /\ Cardinality(Holding') <= Cardinality(Holding)
      BY <3>1, FS_Subset DEF SlotsOK
    <3>3. Cardinality(Holding') \in Nat
      BY <3>2, FS_CardinalityType
    <3>4. QED
      BY <2>2, <3>2, <3>3, PipelineAssumption DEF SlotsOK
  <2>5. QED
    BY <2>3, <2>4
<1>3. QED
  BY <1>1, <1>2, JobMoves

(* The steps that request a completion or are charged for one.             *)
LEMMA PurseMoves ==
  ASSUME TypeInv, [Next]_vars
  PROVE  \/ \E j \in Jobs : Ask(j) \/ Answer(j)
         \/ AskArbiter \/ ArbiterAnswers
         \/ /\ UNCHANGED <<spent, paid>>
            /\ at'["tri"] = "asking" => at["tri"] = "asking"
            /\ \A k \in Jobs : job'[k] = "calling" => job[k] = "calling"
<1> DEFINE Calm == /\ UNCHANGED <<spent, paid>>
                   /\ at'["tri"] = "asking" => at["tri"] = "asking"
                   /\ \A k \in Jobs : job'[k] = "calling" => job[k] = "calling"
<1>1. ASSUME NEW j \in Jobs, NEW l \in Labels \ {"calling"}, Become(j, l)
      PROVE  \A k \in Jobs : job'[k] = "calling" => job[k] = "calling"
  BY <1>1, BecomeFacts DEF TypeInv
<1>2. ASSUME NEW s \in Stages, NEW p \in Places \ {"asking"}, Goto(s, p)
      PROVE  at'["tri"] = "asking" => at["tri"] = "asking"
  BY <1>2, GotoFacts DEF TypeInv, Stages
<1>3. ASSUME NEW j \in Jobs, Acquire(j) \/ GiveUp(j)
      PROVE  Calm
  BY <1>1, <1>3 DEF Acquire, GiveUp, purse, Labels
<1>4. ASSUME NEW u \in Units, FinderStep(u) \/ Launch(u)
      PROVE  Calm
  <2>1. <<"find", u>> \in Jobs
    BY JobKinds
  <2>2. QED
    BY <1>1, <1>4, <2>1
       DEF FinderStep, SkipUnit, UnitFinds, UnitEmits, Emit, UnitEnds, UnitFails,
           UnitUnreachable, UnitInterrupted, Launch, purse, Labels
<1>5. ASSUME NEW c \in Cands, PanelStep(c) \/ Attempt(c) \/ Dispatch(c) \/ Consume(c)
      PROVE  Calm
  <2>1. <<"verify", c>> \in Jobs /\ <<"repro", c>> \in Jobs
    BY JobKinds
  <2>2. QED
    BY <1>1, <1>5, <2>1
       DEF PanelStep, PanelStopped, PanelDecides, PanelFails, Survives, Attempt, Dispatch,
           Consume, purse, Labels
<1>6. ASSUME AttemptNext
      PROVE  Calm
  <2>1. <<"repro", Head(overflow)>> \in Jobs
    BY <1>6, TailElems, JobKinds DEF AttemptNext, TypeInv
  <2>2. QED
    BY <1>1, <1>6, <2>1 DEF AttemptNext, purse, Labels
<1>7. ASSUME HypothesizeStep \/ TriageStep, \A u \in Units : ~Launch(u),
             ~AskArbiter, ~ArbiterAnswers
      PROVE  Calm
  BY <1>2, <1>7 DEF HypothesizeStep, Replay, Emit, StartFinders, LaunchEnds, CloseCandidates,
              TriageStep, TakeCandidate, Judge, TriageFails, AfterFailure,
              Forward, TriageEnds, purse, Stages, Places
<1>8. ASSUME CloseRepro \/ WorkersJoin \/ Return \/ ConsumerEnds \/ Cancel \/ UNCHANGED vars
       PROVE Calm
  BY <1>2, <1>8 DEF CloseRepro, WorkersJoin, Return, ConsumerEnds, Cancel, vars, purse, Stages,
              Places
<1>9. QED
  BY <1>3, <1>4, <1>5, <1>6, <1>7, <1>8
     DEF Next, Progress, JobStep, HypothesizeStep, DispatcherStep, ConsumerStep

(* What is pending is at most one completion per runner.                   *)
PendingOK ==
  \A p \in Pools :
    /\ IsFiniteSet(Callers(p)) /\ Cardinality(Callers(p)) \in Nat
    /\ Arbiter(p) \in {0, 1} /\ Pending(p) \in Nat
    /\ Pending(p) <= Runners[p] /\ Runners[p] \in Nat

LEMMA PendingBounded == TypeInv /\ SlotsOK => PendingOK
<1> SUFFICES ASSUME TypeInv, SlotsOK, NEW p \in Pools
             PROVE  /\ IsFiniteSet(Callers(p)) /\ Cardinality(Callers(p)) \in Nat
                    /\ Arbiter(p) \in {0, 1} /\ Pending(p) \in Nat
                    /\ Pending(p) <= Runners[p] /\ Runners[p] \in Nat
  BY DEF PendingOK
<1>1. Callers(p) \subseteq Holding
  BY DEF Callers, Holding
<1>2. IsFiniteSet(Callers(p)) /\ Cardinality(Callers(p)) <= Cardinality(Holding)
  BY <1>1, FS_Subset DEF SlotsOK
<1>3. Cardinality(Callers(p)) \in Nat /\ Cardinality(Holding) \in Nat
  BY <1>2, FS_CardinalityType DEF SlotsOK
<1>4. Arbiter(p) \in {0, 1} /\ (p = "finder" => Arbiter(p) = 0)
  BY DEF Arbiter
<1>5. Runners[p] = IF p = "finder" THEN Slots ELSE Slots + 1
  BY DEF Runners, Pools
<1>6. QED
  BY <1>2, <1>3, <1>4, <1>5, PipelineAssumption DEF Pending, SlotsOK

LEMMA PendingBoundedNext == (TypeInv /\ SlotsOK)' => PendingOK'
BY PendingBounded, PTL

LEMMA Multiples ==
  ASSUME NEW a \in Int, NEW b \in Int, NEW m \in Nat, a <= b
  PROVE  a * m <= b * m /\ (a + 1) * m = a * m + m /\ (0 <= a => 0 <= a * m)
         /\ a * m \in Int /\ b * m \in Int
OBVIOUS

(* Fewer completions are pending and nothing was charged.                  *)
LEMMA DebtEased ==
  ASSUME TypeInv, TypeInv', PendingOK, PendingOK', NEW p \in Pools,
         paid[p] <= Budget[p] - 1 + (Runners[p] - Pending(p)) * MaxCost,
         paid'[p] = paid[p], Callers(p)' \subseteq Callers(p), Arbiter(p)' <= Arbiter(p)
  PROVE  paid'[p] <= Budget[p] - 1 + (Runners[p] - Pending(p)') * MaxCost
<1>1. Cardinality(Callers(p)') <= Cardinality(Callers(p))
  BY FS_Subset DEF PendingOK
<1>2. /\ Pending(p)' <= Pending(p) /\ Pending(p)' \in Nat /\ Pending(p) \in Nat
      /\ Runners[p] \in Nat
  BY <1>1 DEF PendingOK, Pending
<1>3. (Runners[p] - Pending(p)) * MaxCost <= (Runners[p] - Pending(p)') * MaxCost
  BY <1>2, Multiples, PipelineAssumption
<1>4. /\ (Runners[p] - Pending(p)) * MaxCost \in Int
      /\ (Runners[p] - Pending(p)') * MaxCost \in Int
  BY <1>2, Multiples, PipelineAssumption
<1>5. paid[p] \in Int /\ Budget[p] \in Int
  BY PipelineAssumption DEF TypeInv
<1>6. QED
  BY <1>3, <1>4, <1>5

(* A stage asks with its gate open: it has not used its budget up.         *)
LEMMA DebtAsked ==
  ASSUME TypeInv, PendingOK', NEW p \in Pools, paid = spent, Open(p), paid'[p] = paid[p]
  PROVE  paid'[p] <= Budget[p] - 1 + (Runners[p] - Pending(p)') * MaxCost
<1>1. Pending(p)' \in Nat /\ Pending(p)' <= Runners[p] /\ Runners[p] \in Nat
  BY DEF PendingOK
<1>2. 0 <= (Runners[p] - Pending(p)') * MaxCost /\ (Runners[p] - Pending(p)') * MaxCost \in Int
  BY <1>1, Multiples, PipelineAssumption
<1>3. paid[p] < Budget[p] /\ paid[p] \in Int /\ Budget[p] \in Int
  BY PipelineAssumption DEF TypeInv, Open
<1>4. QED
  BY <1>2, <1>3

(* A completion is charged, and is pending no more.                        *)
LEMMA DebtPaid ==
  ASSUME TypeInv, PendingOK, NEW p \in Pools,
         paid[p] <= Budget[p] - 1 + (Runners[p] - Pending(p)) * MaxCost,
         NEW cost \in 1..MaxCost, paid' = [paid EXCEPT ![p] = @ + cost],
         Pending(p)' = Pending(p) - 1
  PROVE  paid'[p] <= Budget[p] - 1 + (Runners[p] - Pending(p)') * MaxCost
<1> DEFINE free == Runners[p] - Pending(p)
<1>1. /\ paid'[p] = paid[p] + cost /\ paid[p] \in Int /\ Budget[p] \in Int
      /\ cost \in Int /\ cost <= MaxCost /\ MaxCost \in Nat
  <2>1. MaxCost \in Nat /\ Budget[p] \in Nat
    BY PipelineAssumption
  <2>2. paid \in [Pools -> Nat]
    BY DEF TypeInv
  <2>3. paid'[p] = paid[p] + cost
    BY <2>2
  <2>4. QED
    BY <2>1, <2>2, <2>3
<1>2. free \in Int /\ Runners[p] - Pending(p)' = free + 1
  BY DEF PendingOK
<1> HIDE DEF free
<1>3. (free + 1) * MaxCost = free * MaxCost + MaxCost /\ free * MaxCost \in Int
  BY <1>1, <1>2, Multiples
<1>4. QED
  BY <1>1, <1>2, <1>3 DEF free

LEMMA DebtKept ==
  ASSUME TypeInv, TypeInv', SlotsOK, SlotsOK', paid = spent, DebtOK, [Next]_vars
  PROVE  DebtOK' /\ paid' = spent' /\ \A p \in Pools : paid[p] <= paid'[p]
<1>1. PendingOK /\ PendingOK'
  BY PendingBounded, PendingBoundedNext
<1>2. ASSUME NEW j \in Jobs, Ask(j)
      PROVE  DebtOK' /\ paid' = spent'
  <2>1. /\ UNCHANGED <<at, spent, paid>> /\ Become(j, "calling") /\ Open(StageOf(j))
        /\ \A k \in Jobs \ {j} : job'[k] = job[k]
    BY <1>2, BecomeFacts DEF Ask, purse, TypeInv, Labels
  <2>2. ASSUME NEW p \in Pools
        PROVE  paid'[p] <= Budget[p] - 1 + (Runners[p] - Pending(p)') * MaxCost
    <3>1. CASE p = StageOf(j)
      BY <1>1, <2>1, <3>1, DebtAsked
    <3>2. CASE p # StageOf(j)
      <4>1. Callers(p)' \subseteq Callers(p) /\ Arbiter(p)' <= Arbiter(p)
        BY <2>1, <3>2 DEF Callers, StageOf, Arbiter
      <4>2. QED
        BY <1>1, <2>1, <4>1, DebtEased DEF DebtOK
    <3>3. QED
      BY <3>1, <3>2
  <2>3. QED
    BY <2>1, <2>2 DEF DebtOK
<1>3. ASSUME NEW j \in Jobs, Answer(j)
      PROVE  DebtOK' /\ paid' = spent' /\ \A p \in Pools : paid[p] <= paid'[p]
  <2> DEFINE q == StageOf(j)
  <2>1. /\ q \in Pools /\ job[j] = "calling" /\ UNCHANGED at
        /\ job'[j] = "thinking" /\ \A k \in Jobs \ {j} : job'[k] = job[k]
    BY <1>3, BecomeFacts DEF Answer, TypeInv, Labels, StageOf, Pools
  <2>2. PICK cost \in 1..MaxCost : /\ paid' = [paid EXCEPT ![q] = @ + cost]
                                   /\ spent' = [spent EXCEPT ![q] = @ + cost]
    <3>1. PICK role : PoolOf(role) = q /\ Charge(q, role)
      BY <1>3 DEF Answer, StageOf, PoolOf
    <3>2. QED
      BY <2>1, <3>1, ChargeFacts DEF TypeInv
  <2>3. /\ \A p \in Pools \ {q} : paid'[p] = paid[p] /\ Callers(p)' = Callers(p)
        /\ Callers(q)' = Callers(q) \ {j} /\ j \in Callers(q)
        /\ \A p \in Pools : Arbiter(p)' = Arbiter(p)
    BY <2>1, <2>2 DEF Callers, Arbiter, StageOf, TypeInv
  <2>4. Pending(q)' = Pending(q) - 1
    <3>1. Cardinality(Callers(q)') = Cardinality(Callers(q)) - 1
      BY <1>1, <2>1, <2>3, FS_RemoveElement DEF PendingOK
    <3>2. Cardinality(Callers(q)) \in Nat /\ Arbiter(q) \in {0, 1}
      BY <1>1, <2>1 DEF PendingOK
    <3>3. QED
      BY <2>1, <2>3, <3>1, <3>2 DEF Pending
  <2> HIDE DEF q
  <2>5. ASSUME NEW p \in Pools
        PROVE  /\ paid'[p] <= Budget[p] - 1 + (Runners[p] - Pending(p)') * MaxCost
               /\ paid[p] <= paid'[p]
    <3>1. CASE p = q
      <4>1. paid'[q] <= Budget[q] - 1 + (Runners[q] - Pending(q)') * MaxCost
        BY <1>1, <2>1, <2>2, <2>4, DebtPaid DEF DebtOK
      <4>2. paid[q] <= paid'[q]
        BY <2>1, <2>2, PipelineAssumption DEF TypeInv
      <4>3. QED
        BY <3>1, <4>1, <4>2
    <3>2. CASE p # q
      <4>1. paid'[p] = paid[p] /\ paid[p] \in Nat
        BY <2>3, <3>2 DEF TypeInv
      <4>2. Callers(p)' \subseteq Callers(p) /\ Arbiter(p)' <= Arbiter(p)
        BY <1>1, <2>3, <3>2 DEF PendingOK
      <4>3. QED
        BY <1>1, <4>1, <4>2, DebtEased DEF DebtOK
    <3>3. QED
      BY <3>1, <3>2
  <2>6. paid' = spent'
    BY <2>2
  <2>7. QED
    BY <2>5, <2>6 DEF DebtOK
<1>4. ASSUME AskArbiter
      PROVE  DebtOK' /\ paid' = spent'
  <2>1. /\ UNCHANGED <<job, spent, paid>> /\ Open("verify")
    BY <1>4 DEF AskArbiter, purse
  <2>2. ASSUME NEW p \in Pools
        PROVE  paid'[p] <= Budget[p] - 1 + (Runners[p] - Pending(p)') * MaxCost
    <3>1. CASE p = "verify"
      BY <1>1, <2>1, <3>1, DebtAsked
    <3>2. CASE p # "verify"
      <4>1. Callers(p)' \subseteq Callers(p) /\ Arbiter(p)' <= Arbiter(p)
        BY <2>1, <3>2 DEF Callers, StageOf, Arbiter
      <4>2. QED
        BY <1>1, <2>1, <4>1, DebtEased DEF DebtOK
    <3>3. QED
      BY <3>1, <3>2
  <2>3. QED
    BY <2>1, <2>2 DEF DebtOK
<1>5. ASSUME ArbiterAnswers
      PROVE  DebtOK' /\ paid' = spent' /\ \A p \in Pools : paid[p] <= paid'[p]
  <2>1. /\ at["tri"] = "asking" /\ at'["tri"] = "holding" /\ UNCHANGED job
    BY <1>5, GotoFacts DEF ArbiterAnswers, TypeInv, Stages, Places
  <2>2. PICK cost \in 1..MaxCost : /\ paid' = [paid EXCEPT !["verify"] = @ + cost]
                                   /\ spent' = [spent EXCEPT !["verify"] = @ + cost]
    BY <1>5, ChargeFacts DEF ArbiterAnswers, TypeInv, PoolOf, Pools
  <2>3. /\ \A p \in Pools : Callers(p)' = Callers(p)
        /\ Arbiter("verify") = 1 /\ Arbiter("verify")' = 0
        /\ Arbiter("finder") = 0 /\ Arbiter("finder")' = 0
    BY <2>1 DEF Callers, Arbiter, StageOf
  <2>4. Pending("verify")' = Pending("verify") - 1
    BY <1>1, <2>3 DEF Pending, PendingOK, Pools
  <2>5. ASSUME NEW p \in Pools
        PROVE  /\ paid'[p] <= Budget[p] - 1 + (Runners[p] - Pending(p)') * MaxCost
               /\ paid[p] <= paid'[p]
    <3>1. CASE p = "verify"
      <4>1. paid'[p] <= Budget[p] - 1 + (Runners[p] - Pending(p)') * MaxCost
        BY <1>1, <2>2, <2>4, <3>1, DebtPaid DEF DebtOK
      <4>2. paid[p] <= paid'[p]
        BY <2>2, <3>1, PipelineAssumption DEF TypeInv
      <4>3. QED
        BY <4>1, <4>2
    <3>2. CASE p = "finder"
      <4>1. paid'[p] = paid[p] /\ paid[p] \in Nat
        BY <2>2, <3>2 DEF TypeInv
      <4>2. Callers(p)' \subseteq Callers(p) /\ Arbiter(p)' <= Arbiter(p)
        BY <2>3, <3>2
      <4>3. QED
        BY <1>1, <4>1, <4>2, DebtEased DEF DebtOK
    <3>3. QED
      BY <3>1, <3>2 DEF Pools
  <2>6. paid' = spent'
    BY <2>2
  <2>7. QED
    BY <2>5, <2>6 DEF DebtOK
<1>6. ASSUME UNCHANGED <<spent, paid>>, at'["tri"] = "asking" => at["tri"] = "asking",
             \A k \in Jobs : job'[k] = "calling" => job[k] = "calling"
      PROVE  DebtOK' /\ paid' = spent'
  <2>1. ASSUME NEW p \in Pools
        PROVE  paid'[p] <= Budget[p] - 1 + (Runners[p] - Pending(p)') * MaxCost
    <3>1. Callers(p)' \subseteq Callers(p) /\ Arbiter(p)' <= Arbiter(p)
      BY <1>6 DEF Callers, StageOf, Arbiter
    <3>2. QED
      BY <1>1, <1>6, <3>1, DebtEased DEF DebtOK
  <2>2. QED
    BY <1>6, <2>1 DEF DebtOK
<1>7. UNCHANGED paid => \A p \in Pools : paid[p] <= paid'[p]
  BY DEF TypeInv
<1>8. QED
  BY <1>2, <1>3, <1>4, <1>5, <1>6, <1>7, PurseMoves DEF Ask, AskArbiter, purse

(* Only a panel that finds the verify pool used up leaves an orphan.       *)
LEMMA OrphanMoves ==
  ASSUME TypeInv, [Next]_vars, NEW c \in Cands, fate'[c] = "orphaned"
  PROVE  fate[c] = "orphaned" \/ spent["verify"] >= Budget["verify"]
<1>1. ASSUME NEW d, NEW f, Settle(d, f), f # "orphaned"
      PROVE  fate[c] = "orphaned"
  BY <1>1 DEF Settle, TypeInv
<1>2. ASSUME NEW j \in Jobs, Acquire(j) \/ GiveUp(j) \/ Ask(j) \/ Answer(j)
      PROVE  UNCHANGED fate
  BY <1>2 DEF Acquire, GiveUp, Ask, Answer, flow
<1>3. ASSUME NEW p, NEW d, Emit(p, d)
      PROVE  fate[c] = "orphaned"
  BY <1>1, <1>3 DEF Emit
<1>4. ASSUME NEW u \in Units, FinderStep(u)
      PROVE  fate[c] = "orphaned"
  <2>1. CASE UnitFinds(u)
    BY <2>1 DEF UnitFinds, TypeInv
  <2>2. CASE UnitEmits(u)
    BY <1>3, <2>2 DEF UnitEmits
  <2>3. QED
    BY <1>4, <2>1, <2>2
       DEF FinderStep, SkipUnit, UnitEnds, UnitFails, UnitUnreachable, UnitInterrupted, flow
<1>5. ASSUME NEW d \in Cands, PanelStep(d) \/ Attempt(d)
      PROVE  fate[c] = "orphaned" \/ spent["verify"] >= Budget["verify"]
  <2>1. CASE PanelStopped(d)
    <3>1. spent["verify"] \in Nat /\ Budget["verify"] \in Nat
      BY PipelineAssumption DEF TypeInv, Pools
    <3>2. QED
      BY <2>1, <3>1 DEF PanelStopped, Open
  <2>2. CASE PanelDecides(d)
    BY <1>1, <2>2 DEF PanelDecides
  <2>3. CASE PanelFails(d)
    BY <1>1, <2>3 DEF PanelFails
  <2>4. CASE Survives(d)
    BY <1>1, <2>4 DEF Survives
  <2>5. CASE Attempt(d)
    BY <2>5 DEF Attempt, flow
  <2>6. QED
    BY <1>5, <2>1, <2>2, <2>3, <2>4, <2>5 DEF PanelStep
<1>6. ASSUME HypothesizeStep
      PROVE  fate[c] = "orphaned"
  BY <1>3, <1>6
     DEF HypothesizeStep, Replay, StartFinders, Launch, LaunchEnds, CloseCandidates, flow
<1>7. ASSUME TriageStep
      PROVE  fate[c] = "orphaned"
  <2>1. ASSUME NEW d \in Cands, TakeCandidate(d)
        PROVE  fate[c] = "orphaned"
    BY <1>1, <2>1 DEF TakeCandidate
  <2>2. CASE Judge
    BY <1>1, <2>2 DEF Judge, TypeInv, StagesOK
  <2>3. CASE TriageFails
    BY <1>1, <2>3 DEF TriageFails, TypeInv, StagesOK
  <2>4. CASE Forward
    BY <1>1, <2>4 DEF Forward
  <2>5. QED
    BY <1>7, <2>1, <2>2, <2>3, <2>4
       DEF TriageStep, AskArbiter, ArbiterAnswers, TriageEnds, flow
<1>8. ASSUME DispatcherStep \/ ConsumerStep \/ Cancel \/ UNCHANGED vars
      PROVE  UNCHANGED fate
  BY <1>8 DEF DispatcherStep, ConsumerStep, Dispatch, CloseRepro, WorkersJoin, AttemptNext,
              Return, Consume, ConsumerEnds, Cancel, vars, flow
<1>9. QED
  BY <1>2, <1>4, <1>5, <1>6, <1>7, <1>8 DEF Next, Progress, JobStep

LEMMA PurseHolds == Spec => []PurseInv
<1>1. Init => PurseInv
  <2> SUFFICES ASSUME Init PROVE PurseInv
    OBVIOUS
  <2>1. Holding = {} /\ Cardinality({}) = 0 /\ IsFiniteSet({})
    BY FS_EmptySet DEF Init, Holding
  <2>2. SlotsOK
    BY <2>1, PipelineAssumption DEF SlotsOK
  <2>3. DebtOK
    <3>1. PendingOK
      BY <2>2, InitTyped, PendingBounded
    <3>2. ASSUME NEW p \in Pools
          PROVE  paid[p] <= Budget[p] - 1 + (Runners[p] - Pending(p)) * MaxCost
      <4>1. /\ 0 <= (Runners[p] - Pending(p)) * MaxCost
            /\ (Runners[p] - Pending(p)) * MaxCost \in Int
        BY <3>1, Multiples, PipelineAssumption DEF PendingOK
      <4>2. paid[p] = 0 /\ Budget[p] \in Nat /\ Budget[p] >= 1
        BY PipelineAssumption DEF Init
      <4>3. QED
        BY <4>1, <4>2
    <3>3. QED
      BY <3>2 DEF DebtOK
  <2>4. ReserveForVerify
    BY DEF Init, ReserveForVerify
  <2>5. QED
    BY <2>2, <2>3, <2>4 DEF Init, PurseInv
<1>2. TypeInv /\ TypeInv' /\ PurseInv /\ [Next]_vars => PurseInv'
  <2> SUFFICES ASSUME TypeInv, TypeInv', PurseInv, [Next]_vars PROVE PurseInv'
    OBVIOUS
  <2>1. SlotsOK'
    BY SlotsKept DEF PurseInv
  <2>2. DebtOK' /\ paid' = spent' /\ \A p \in Pools : paid[p] <= paid'[p]
    BY <2>1, DebtKept DEF PurseInv
  <2>3. ReserveForVerify'
    <3> SUFFICES ASSUME NEW c \in Cands, fate'[c] = "orphaned"
                 PROVE  paid'["verify"] >= Budget["verify"]
      BY DEF ReserveForVerify
    <3>1. paid["verify"] >= Budget["verify"]
      BY OrphanMoves DEF PurseInv, ReserveForVerify
    <3>2. paid["verify"] \in Nat /\ paid'["verify"] \in Nat /\ Budget["verify"] \in Nat
      BY PipelineAssumption DEF TypeInv, Pools
    <3>3. QED
      BY <2>2, <3>1, <3>2 DEF Pools
  <2>4. QED
    BY <2>1, <2>2, <2>3 DEF PurseInv
<1>3. QED
  BY <1>1, <1>2, TypedHolds, PTL DEF Spec

(* Whatever discovery and its package summaries spend, a candidate is kept *)
(* unverified for want of budget only once verification has used up its own*)
(* reserve (budget.go:209-241, 363-379).                                   *)
THEOREM ReserveKept == Spec => []ReserveForVerify
<1>1. PurseInv => ReserveForVerify
  BY DEF PurseInv
<1>2. QED
  BY <1>1, PurseHolds, PTL

(* However many runners read the gates at once, a stage overshoots its     *)
(* budget by at most one completion per runner (budget.go:329-379).        *)
THEOREM OvershootBounded == Spec => []BoundedOvershoot
<1>1. TypeInv /\ PurseInv => BoundedOvershoot
  <2> SUFFICES ASSUME TypeInv, PurseInv, NEW p \in Pools
               PROVE  paid[p] <= Budget[p] - 1 + Runners[p] * MaxCost
    BY DEF BoundedOvershoot
  <2>1. Pending(p) \in Nat /\ Runners[p] \in Nat
    BY PendingBounded DEF PurseInv, PendingOK
  <2>2. /\ (Runners[p] - Pending(p)) * MaxCost <= Runners[p] * MaxCost
        /\ (Runners[p] - Pending(p)) * MaxCost \in Int /\ Runners[p] * MaxCost \in Int
    BY <2>1, Multiples, PipelineAssumption
  <2>3. paid[p] <= Budget[p] - 1 + (Runners[p] - Pending(p)) * MaxCost
    BY DEF PurseInv, DebtOK
  <2>4. paid[p] \in Nat /\ Budget[p] \in Nat
    BY PipelineAssumption DEF TypeInv
  <2>5. QED
    BY <2>2, <2>3, <2>4
<1>2. QED
  BY <1>1, TypedHolds, PurseHolds, PTL

-----------------------------------------------------------------------------
(* The order in which the stages end.                                      *)

JoinedInOrder ==
  /\ at["hyp"] = "done" => AllDone(Finders)
  /\ at["main"] # "range" => AllDone(Panels)
  /\ at["main"] = "done" => AllDone(Workers)

ClosedInOrder ==
  /\ "cand" \in closed <=> at["hyp"] = "done"
  /\ "ver" \in closed <=> at["tri"] = "done"
  /\ "repro" \in closed <=> at["main"] # "range"
  /\ at["tri"] = "done" => at["hyp"] = "done" /\ chan["cand"] = <<>>
  /\ at["main"] # "range" => at["tri"] = "done" /\ chan["ver"] = <<>>
  /\ at["consumer"] = "done" => at["main"] # "range" /\ chan["repro"] = <<>>
  /\ at["main"] \in {"overflow", "done"} => at["consumer"] = "done"
  /\ ~panicked

CloseInv == JoinedInOrder /\ ClosedInOrder

(* A joined stage stays joined: nothing starts a goroutine any more.       *)
LEMMA JoinedStays ==
  ASSUME TypeInv, CloseInv, [Next]_vars
  PROVE  /\ at["hyp"] = "done" => AllDone(Finders)'
         /\ at["main"] # "range" => AllDone(Panels)'
         /\ at["main"] = "done" => AllDone(Workers)'
<1>1. CASE UNCHANGED job
  BY <1>1 DEF CloseInv, JoinedInOrder, AllDone
<1>2. ASSUME NEW j \in Jobs, NEW l \in Labels, JobMove(j, l)
      PROVE  /\ at["hyp"] = "done" => AllDone(Finders)'
             /\ at["main"] # "range" => AllDone(Panels)'
             /\ at["main"] = "done" => AllDone(Workers)'
  <2>1. \A k \in Jobs \ {j} : job'[k] = job[k]
    BY <1>2, BecomeFacts DEF JobMove, TypeInv
  <2>2. /\ at["hyp"] = "done" => j \notin Finders
        /\ at["main"] # "range" => j \notin Panels
        /\ at["main"] = "done" => j \notin Workers
    BY <1>2, JobKinds DEF JobMove, CloseInv, JoinedInOrder, ClosedInOrder, AllDone
  <2>3. QED
    BY <2>1, <2>2, JobKinds DEF CloseInv, JoinedInOrder, AllDone
<1>3. QED
  BY <1>1, <1>2, JobMoves

(* A candidate is emitted on an open channel.                              *)
LEMMA EmitCloses ==
  ASSUME TypeInv, CloseInv, NEW p \in Units \cup {"replay"}, NEW c, Emit(p, c),
         at["hyp"] # "done"
  PROVE  ClosedInOrder'
<1>1. c \in Cands /\ UNCHANGED <<at, closed>>
  BY DEF Emit, TypeInv
<1>2. CASE Send("cand", c)
  BY <1>1, <1>2, SendFacts DEF Send, TypeInv, CloseInv, ClosedInOrder, StagesOK, Channels
<1>3. CASE UNCHANGED <<chan, panicked>>
  BY <1>1, <1>3 DEF CloseInv, ClosedInOrder
<1>4. QED
  BY <1>2, <1>3 DEF Emit

(* The steps that move no stage, close nothing and send or receive nothing.*)
LEMMA StillCloses ==
  ASSUME CloseInv, UNCHANGED <<at, chan, closed, panicked>>
  PROVE  ClosedInOrder'
BY DEF CloseInv, ClosedInOrder

LEMMA ClosesKept ==
  ASSUME TypeInv, CloseInv, [Next]_vars
  PROVE  CloseInv'
<1> USE DEF CloseInv
<1>1. \A s \in Stages, p \in Places : Goto(s, p) =>
        at'[s] = p /\ \A t \in Stages \ {s} : at'[t] = at[t]
  BY GotoFacts DEF TypeInv
<1>2. ASSUME NEW j \in Jobs, Acquire(j) \/ GiveUp(j) \/ Ask(j) \/ Answer(j)
      PROVE  CloseInv'
  <2>1. UNCHANGED <<at, chan, closed, panicked>>
    BY <1>2 DEF Acquire, GiveUp, Ask, Answer, flow
  <2>2. QED
    BY <2>1, StillCloses, JoinedStays DEF JoinedInOrder
<1>3. ASSUME NEW u \in Units, FinderStep(u)
      PROVE  CloseInv'
  <2>1. CASE UnitEmits(u)
    <3>1. at["hyp"] # "done"
      BY <2>1, JobKinds DEF UnitEmits, JoinedInOrder, AllDone
    <3>2. ClosedInOrder' /\ UNCHANGED at
      BY <2>1, <3>1, EmitCloses DEF UnitEmits, Emit
    <3>3. QED
      BY <3>2, JoinedStays DEF JoinedInOrder
  <2>2. CASE ~UnitEmits(u)
    <3>1. UNCHANGED <<at, chan, closed, panicked>>
      BY <1>3, <2>2 DEF FinderStep, SkipUnit, UnitFinds, UnitEnds, UnitFails,
                        UnitUnreachable, UnitInterrupted, flow
    <3>2. QED
      BY <3>1, StillCloses, JoinedStays DEF JoinedInOrder
  <2>3. QED
    BY <2>1, <2>2
<1>4. ASSUME NEW c \in Cands, PanelStep(c) \/ Attempt(c)
      PROVE  CloseInv'
  <2>1. CASE Survives(c) /\ Send("repro", c)
    <3>1. at["main"] = "range" /\ UNCHANGED <<at, closed>>
      BY <2>1, JobKinds DEF Survives, JoinedInOrder, AllDone, TypeInv, StagesOK
    <3>2. ClosedInOrder'
      BY <2>1, <3>1, SendFacts DEF Send, TypeInv, ClosedInOrder, StagesOK, Channels
    <3>3. QED
      BY <3>1, <3>2, JoinedStays DEF JoinedInOrder
  <2>2. CASE ~(Survives(c) /\ Send("repro", c))
    <3>1. UNCHANGED <<at, chan, closed, panicked>>
      BY <1>4, <2>2 DEF PanelStep, PanelStopped, PanelDecides, PanelFails, Survives, Enqueue,
                        Attempt, flow
    <3>2. QED
      BY <3>1, StillCloses, JoinedStays DEF JoinedInOrder
  <2>3. QED
    BY <2>1, <2>2
<1>5. ASSUME HypothesizeStep
      PROVE  CloseInv'
  <2>1. CASE Replay
    <3>1. ClosedInOrder' /\ UNCHANGED at
      BY <2>1, EmitCloses DEF Replay, Emit
    <3>2. QED
      BY <3>1, JoinedStays DEF JoinedInOrder
  <2>2. CASE StartFinders \/ LaunchEnds
    <3>1. /\ UNCHANGED <<chan, closed, panicked>>
          /\ at["hyp"] # "done" /\ at'["hyp"] # "done"
          /\ at'["tri"] = at["tri"] /\ at'["main"] = at["main"]
          /\ at'["consumer"] = at["consumer"]
      BY <1>1, <2>2 DEF StartFinders, LaunchEnds, flow, Stages, Places
    <3>2. QED
      BY <3>1, JoinedStays DEF JoinedInOrder, ClosedInOrder
  <2>3. ASSUME NEW u \in Units, Launch(u)
        PROVE  CloseInv'
    <3>1. UNCHANGED <<at, chan, closed, panicked>>
      BY <2>3 DEF Launch, flow
    <3>2. QED
      BY <3>1, StillCloses, JoinedStays DEF JoinedInOrder
  <2>4. CASE CloseCandidates
    <3>1. /\ UNCHANGED <<chan, panicked, job>> /\ AllDone(Finders)
          /\ at["hyp"] = "wait" /\ at'["hyp"] = "done" /\ closed' = closed \cup {"cand"}
          /\ at'["tri"] = at["tri"] /\ at'["main"] = at["main"]
          /\ at'["consumer"] = at["consumer"]
      BY <1>1, <2>4 DEF CloseCandidates, Stages, Places
    <3>2. QED
      BY <3>1, JoinedStays DEF JoinedInOrder, ClosedInOrder, AllDone
  <2>5. QED
    BY <1>5, <2>1, <2>2, <2>3, <2>4 DEF HypothesizeStep
<1>6. ASSUME TriageStep
      PROVE  CloseInv'
  <2>1. ASSUME NEW c \in Cands, TakeCandidate(c)
        PROVE  CloseInv'
    <3>1. /\ UNCHANGED <<closed, panicked>> /\ at["tri"] # "done" /\ at'["tri"] # "done"
          /\ at'["hyp"] = at["hyp"] /\ at'["main"] = at["main"]
          /\ at'["consumer"] = at["consumer"]
      BY <1>1, <2>1 DEF TakeCandidate, Stages, Places
    <3>2. /\ chan'["ver"] = chan["ver"] /\ chan'["repro"] = chan["repro"]
      BY <2>1, TakenFacts DEF TakeCandidate, Channels
    <3>3. QED
      BY <3>1, <3>2, JoinedStays DEF JoinedInOrder, ClosedInOrder
  <2>2. CASE AskArbiter \/ ArbiterAnswers \/ Judge \/ TriageFails
    <3>1. /\ UNCHANGED <<chan, closed, panicked>> /\ at["tri"] # "done" /\ at'["tri"] # "done"
          /\ at'["hyp"] = at["hyp"] /\ at'["main"] = at["main"]
          /\ at'["consumer"] = at["consumer"]
      BY <1>1, <2>2 DEF AskArbiter, ArbiterAnswers, Judge, TriageFails, AfterFailure, flow,
                        Stages, Places
    <3>2. QED
      BY <3>1, JoinedStays DEF JoinedInOrder, ClosedInOrder
  <2>3. CASE Forward
    <3>1. /\ UNCHANGED closed /\ at["tri"] # "done" /\ at'["tri"] # "done"
          /\ at'["hyp"] = at["hyp"] /\ at'["main"] = at["main"]
          /\ at'["consumer"] = at["consumer"]
      BY <1>1, <2>3 DEF Forward, AfterFailure, Stages, Places
    <3>2. chan'["repro"] = chan["repro"] /\ ~panicked'
      BY <2>3, <3>1, SendFacts DEF Forward, Send, TypeInv, ClosedInOrder, Channels
    <3>3. at["main"] = "range"
      BY <3>1 DEF ClosedInOrder, TypeInv, StagesOK
    <3>4. QED
      BY <3>1, <3>2, <3>3, JoinedStays DEF JoinedInOrder, ClosedInOrder
  <2>4. CASE TriageEnds
    <3>1. /\ UNCHANGED <<chan, panicked>> /\ Ended("cand") /\ at'["tri"] = "done"
          /\ closed' = closed \cup {"ver"} /\ at["tri"] # "done"
          /\ at'["hyp"] = at["hyp"] /\ at'["main"] = at["main"]
          /\ at'["consumer"] = at["consumer"]
      BY <1>1, <2>4 DEF TriageEnds, TypeInv, StagesOK, Stages, Places
    <3>2. QED
      BY <3>1, JoinedStays DEF JoinedInOrder, ClosedInOrder, Ended
  <2>5. QED
    BY <1>6, <2>1, <2>2, <2>3, <2>4 DEF TriageStep
<1>7. ASSUME DispatcherStep
      PROVE  CloseInv'
  <2>1. ASSUME NEW c \in Cands, Dispatch(c)
        PROVE  CloseInv'
    <3>1. /\ UNCHANGED <<at, closed, panicked>> /\ at["main"] = "range"
          /\ chan'["cand"] = chan["cand"] /\ chan'["repro"] = chan["repro"]
      BY <2>1, TakenFacts DEF Dispatch, Channels
    <3>2. QED
      BY <3>1, JoinedStays DEF JoinedInOrder, ClosedInOrder
  <2>2. CASE CloseRepro
    <3>1. /\ UNCHANGED <<chan, panicked, job>> /\ PanelsJoined
          /\ at["main"] = "range" /\ at'["main"] = "collect"
          /\ closed' = closed \cup {"repro"}
          /\ at'["hyp"] = at["hyp"] /\ at'["tri"] = at["tri"]
          /\ at'["consumer"] = at["consumer"]
      BY <1>1, <2>2 DEF CloseRepro, Stages, Places
    <3>2. QED
      BY <3>1, JoinedStays DEF JoinedInOrder, ClosedInOrder, PanelsJoined, Ended, AllDone
  <2>3. CASE WorkersJoin
    <3>1. /\ UNCHANGED <<chan, closed, panicked>> /\ at["consumer"] = "done"
          /\ at["main"] = "collect" /\ at'["main"] = "overflow"
          /\ at'["hyp"] = at["hyp"] /\ at'["tri"] = at["tri"]
          /\ at'["consumer"] = at["consumer"]
      BY <1>1, <2>3 DEF WorkersJoin, flow, Stages, Places
    <3>2. QED
      BY <3>1, JoinedStays DEF JoinedInOrder, ClosedInOrder
  <2>4. CASE AttemptNext
    <3>1. UNCHANGED <<at, chan, closed, panicked>>
      BY <2>4 DEF AttemptNext
    <3>2. QED
      BY <3>1, StillCloses, JoinedStays DEF JoinedInOrder
  <2>5. CASE Return
    <3>1. /\ UNCHANGED <<chan, closed, panicked, job>> /\ AllDone(Workers)
          /\ at["main"] = "overflow" /\ at'["main"] = "done"
          /\ at'["hyp"] = at["hyp"] /\ at'["tri"] = at["tri"]
          /\ at'["consumer"] = at["consumer"]
      BY <1>1, <2>5 DEF Return, flow, Stages, Places
    <3>2. QED
      BY <3>1, JoinedStays DEF JoinedInOrder, ClosedInOrder, AllDone
  <2>6. QED
    BY <1>7, <2>1, <2>2, <2>3, <2>4, <2>5 DEF DispatcherStep
<1>8. ASSUME ConsumerStep
      PROVE  CloseInv'
  <2>1. ASSUME NEW c \in Cands, Consume(c)
        PROVE  CloseInv'
    <3>1. /\ UNCHANGED <<at, closed, panicked>> /\ at["consumer"] = "recv"
          /\ chan'["cand"] = chan["cand"] /\ chan'["ver"] = chan["ver"]
      BY <2>1, TakenFacts DEF Consume, Channels
    <3>2. QED
      BY <3>1, JoinedStays DEF JoinedInOrder, ClosedInOrder
  <2>2. CASE ConsumerEnds
    <3>1. /\ UNCHANGED <<chan, closed, panicked>> /\ Ended("repro")
          /\ at["consumer"] = "recv" /\ at'["consumer"] = "done"
          /\ at'["hyp"] = at["hyp"] /\ at'["tri"] = at["tri"] /\ at'["main"] = at["main"]
      BY <1>1, <2>2 DEF ConsumerEnds, flow, Stages, Places
    <3>2. QED
      BY <3>1, JoinedStays DEF JoinedInOrder, ClosedInOrder, Ended
  <2>3. QED
    BY <1>8, <2>1, <2>2 DEF ConsumerStep
<1>9. ASSUME Cancel \/ UNCHANGED vars
      PROVE  CloseInv'
  <2>1. UNCHANGED <<at, chan, closed, panicked, job>>
    BY <1>9 DEF Cancel, vars, flow
  <2>2. QED
    BY <2>1, StillCloses, JoinedStays DEF JoinedInOrder
<1>10. QED
  BY <1>2, <1>3, <1>4, <1>5, <1>6, <1>7, <1>8, <1>9 DEF Next, Progress, JobStep

LEMMA CloseHolds == Spec => []CloseInv
<1>1. Init => CloseInv
  BY DEF Init, CloseInv, JoinedInOrder, ClosedInOrder
<1>2. TypeInv /\ CloseInv /\ [Next]_vars => CloseInv'
  BY ClosesKept
<1>3. QED
  BY <1>1, <1>2, TypedHolds, PTL DEF Spec

(* No stage sends on a channel another has closed, whatever fails, is      *)
(* cancelled or ends early (run_pipeline.go:407, 426, 516-521).            *)
THEOREM NeverSendsAfterClose == Spec => []NoSendAfterClose
<1>1. CloseInv => NoSendAfterClose
  BY DEF CloseInv, ClosedInOrder, NoSendAfterClose
<1>2. QED
  BY <1>1, CloseHolds, PTL

-----------------------------------------------------------------------------
(* What becomes of the candidates.                                         *)

(* What run will report as more than "ok".                                 *)
Trouble == cancelled \/ errs # {}

(* Where a found candidate is while nothing has settled it, and a verified *)
(* one while nothing has tried to reproduce it.                            *)
InFlight(c) ==
  \/ \E p \in Units \cup {"replay"} : c \in todo[p]
  \/ c \in Elems(chan["cand"]) \/ c \in held \/ c \in Elems(chan["ver"])
  \/ job[<<"verify", c>>] \notin {"new", "done"}

Queued(c) ==
  \/ c \in tried \/ c \in Elems(chan["repro"]) \/ c \in Elems(overflow)
  \/ job[<<"repro", c>>] \in {"waiting", "ready"}

Traced ==
  \A c \in Cands :
    /\ fate[c] = "lost" => Trouble
    /\ fate[c] = "found" => Trouble \/ InFlight(c)
    /\ fate[c] = "verified" => Trouble \/ Queued(c)

EmittersOK ==
  /\ todo["replay"] # {} => at["hyp"] = "replay"
  /\ \A u \in Units : todo[u] # {} => job[<<"find", u>>] = "emitting"

BlameOK ==
  /\ at["tri"] = "drain" => Trouble
  /\ errs # {} => broken \/ cancelled
  /\ result # "none" => at["main"] = "done"

ResultInv == Traced /\ EmittersOK /\ BlameOK /\ HonestResult

(* Once run has returned, nothing moves.                                   *)
LEMMA NothingAfterReturn ==
  ASSUME TypeInv, CloseInv, at["main"] = "done"
  PROVE  ~Next
<1>1. /\ at["hyp"] = "done" /\ at["tri"] = "done" /\ at["consumer"] = "done"
      /\ \A j \in Jobs : job[j] \in {"new", "done"}
  BY JobKinds DEF CloseInv, ClosedInOrder, JoinedInOrder, AllDone
<1>2. \A j \in Jobs : ~Acquire(j) /\ ~GiveUp(j) /\ ~Ask(j) /\ ~Answer(j)
  BY <1>1 DEF Acquire, GiveUp, Ask, Answer
<1>3. \A u \in Units : ~FinderStep(u)
  <2> SUFFICES ASSUME NEW u \in Units PROVE ~FinderStep(u)
    OBVIOUS
  <2>1. job[<<"find", u>>] \in {"new", "done"}
    BY <1>1, JobKinds
  <2>2. QED
    BY <2>1 DEF FinderStep, SkipUnit, UnitFinds, UnitEmits, UnitEnds, UnitFails,
                UnitUnreachable, UnitInterrupted
<1>4. \A c \in Cands : ~PanelStep(c) /\ ~Attempt(c)
  <2> SUFFICES ASSUME NEW c \in Cands PROVE ~PanelStep(c) /\ ~Attempt(c)
    OBVIOUS
  <2>1. job[<<"verify", c>>] \in {"new", "done"} /\ job[<<"repro", c>>] \in {"new", "done"}
    BY <1>1, JobKinds
  <2>2. QED
    BY <2>1 DEF PanelStep, PanelStopped, PanelDecides, PanelFails, Survives, Attempt
<1>5. ~HypothesizeStep
  BY <1>1 DEF HypothesizeStep, Replay, StartFinders, Launch, LaunchEnds, CloseCandidates
<1>6. ~TriageStep
  BY <1>1 DEF TriageStep, TakeCandidate, AskArbiter, ArbiterAnswers, Judge, TriageFails, Forward,
              TriageEnds
<1>7. ~DispatcherStep /\ ~ConsumerStep /\ ~Cancel
  BY <1>1 DEF DispatcherStep, ConsumerStep, Dispatch, CloseRepro, WorkersJoin, AttemptNext,
              Return, Consume, ConsumerEnds, Cancel
<1>8. QED
  BY <1>2, <1>3, <1>4, <1>5, <1>6, <1>7 DEF Next, Progress, JobStep

(* Trouble is never forgotten, and comes with a failing stage or a         *)
(* cancelled run; only Return sets the result.                             *)
LEMMA BlameMoves ==
  ASSUME TypeInv, [Next]_vars
  PROVE  /\ cancelled => cancelled'
         /\ errs \subseteq errs' /\ (broken => broken')
         /\ errs' # errs => broken' \/ cancelled'
         /\ UNCHANGED result \/ Return
<1> DEFINE Blamed == /\ cancelled => cancelled'
                     /\ errs \subseteq errs' /\ (broken => broken')
                     /\ errs' # errs => broken' \/ cancelled'
                     /\ UNCHANGED result
<1>1. ASSUME NEW j \in Jobs, Acquire(j) \/ GiveUp(j) \/ Ask(j) \/ Answer(j)
      PROVE  Blamed
  BY <1>1 DEF Acquire, GiveUp, Ask, Answer, faults
<1>2. ASSUME NEW u \in Units, FinderStep(u)
      PROVE  Blamed
  BY <1>2 DEF FinderStep, SkipUnit, UnitFinds, UnitEmits, Emit, UnitEnds, UnitFails,
              UnitUnreachable, UnitInterrupted, FinderErrs, Stopped, faults
<1>3. ASSUME NEW c \in Cands, PanelStep(c) \/ Attempt(c)
      PROVE  Blamed
  BY <1>3 DEF PanelStep, PanelStopped, PanelDecides, PanelFails, Survives, Attempt, faults,
              TypeInv
<1>4. ASSUME HypothesizeStep \/ TriageStep
      PROVE  Blamed
  BY <1>4 DEF HypothesizeStep, Replay, Emit, StartFinders, Launch, LaunchEnds, CloseCandidates,
              TriageStep, TakeCandidate, AskArbiter, ArbiterAnswers, Judge, TriageFails,
              Forward, TriageEnds, faults, TypeInv
<1>5. ASSUME DispatcherStep \/ ConsumerStep, ~Return
      PROVE  Blamed
  <2>1. UNCHANGED <<cancelled, errs, broken, result>>
    BY <1>5 DEF DispatcherStep, ConsumerStep, Dispatch, CloseRepro, WorkersJoin, AttemptNext,
                Consume, ConsumerEnds, faults
  <2>2. QED
    BY <2>1
<1>6. ASSUME Cancel
      PROVE  Blamed
  BY <1>6 DEF Cancel
<1>7. ASSUME UNCHANGED vars
      PROVE  Blamed
  BY <1>7 DEF vars, faults
<1>8. Return => cancelled' = cancelled /\ errs' = errs /\ broken' = broken
  BY DEF Return, faults
<1>9. QED
  BY <1>1, <1>2, <1>3, <1>4, <1>5, <1>6, <1>7, <1>8 DEF Next, Progress, JobStep

LEMMA TroubleStays ==
  ASSUME TypeInv, [Next]_vars, Trouble
  PROVE  Trouble'
BY BlameMoves DEF Trouble

(* Emitters: who has candidates left to send is at work.                   *)
LEMMA EmittersKept ==
  ASSUME TypeInv, EmittersOK, [Next]_vars
  PROVE  EmittersOK'
<1>1. \A j \in Finders, k \in Panels \cup Workers : j # k
  BY JobKinds
<1>2. ASSUME UNCHANGED <<todo, job>>, at'["hyp"] = at["hyp"]
      PROVE  EmittersOK'
  BY <1>2 DEF EmittersOK
<1>3. ASSUME NEW j \in Jobs, NEW l \in Labels, Become(j, l), UNCHANGED <<todo, at>>,
             j \in Finders => job[j] # "emitting"
      PROVE  EmittersOK'
  <2>1. \A k \in Jobs \ {j} : job'[k] = job[k]
    BY <1>3, BecomeFacts DEF TypeInv
  <2>2. ASSUME NEW u \in Units, todo'[u] # {}
        PROVE  job'[<<"find", u>>] = "emitting"
    BY <1>3, <2>1, <2>2, JobKinds DEF EmittersOK
  <2>3. QED
    BY <1>3, <2>2 DEF EmittersOK
<1>4. ASSUME NEW j \in Jobs, Acquire(j) \/ GiveUp(j) \/ Ask(j) \/ Answer(j)
      PROVE  EmittersOK'
  BY <1>3, <1>4 DEF Acquire, GiveUp, Ask, Answer, Labels
<1>5. ASSUME NEW p \in Units \cup {"replay"}, NEW c, Emit(p, c)
      PROVE  EmittersOK'
  <2>1. UNCHANGED <<at, job>> /\ \A q \in Units \cup {"replay"} : todo'[q] \subseteq todo[q]
    BY <1>5 DEF Emit, TypeInv
  <2>2. QED
    BY <2>1 DEF EmittersOK
<1>6. ASSUME NEW u \in Units, FinderStep(u)
      PROVE  EmittersOK'
  <2>1. <<"find", u>> \in Jobs
    BY JobKinds
  <2>2. CASE SkipUnit(u) \/ UnitFails(u) \/ UnitUnreachable(u) \/ UnitInterrupted(u)
    BY <1>3, <2>1, <2>2 DEF SkipUnit, UnitFails, UnitUnreachable, UnitInterrupted, Labels
  <2>3. CASE UnitFinds(u)
    <3>1. /\ job'[<<"find", u>>] = "emitting" /\ UNCHANGED at
          /\ \A v \in Units \ {u} : job'[<<"find", v>>] = job[<<"find", v>>]
      BY <2>1, <2>3, BecomeFacts, JobKinds DEF UnitFinds, TypeInv, Labels
    <3>2. \A q \in (Units \cup {"replay"}) \ {u} : todo'[q] = todo[q]
      BY <2>3 DEF UnitFinds, TypeInv
    <3>3. QED
      BY <3>1, <3>2, PipelineAssumption DEF EmittersOK
  <2>4. CASE UnitEmits(u)
    BY <1>5, <2>4 DEF UnitEmits
  <2>5. CASE UnitEnds(u)
    <3>1. /\ UNCHANGED <<at, todo>> /\ todo[u] = {}
          /\ \A v \in Units \ {u} : job'[<<"find", v>>] = job[<<"find", v>>]
      BY <2>1, <2>5, BecomeFacts, JobKinds DEF UnitEnds, TypeInv, Labels
    <3>2. QED
      BY <3>1 DEF EmittersOK
  <2>6. QED
    BY <1>6, <2>2, <2>3, <2>4, <2>5 DEF FinderStep
<1>7. ASSUME NEW c \in Cands, PanelStep(c) \/ Attempt(c) \/ Dispatch(c) \/ Consume(c)
      PROVE  EmittersOK'
  <2>1. /\ <<"verify", c>> \in Jobs /\ <<"repro", c>> \in Jobs
        /\ <<"verify", c>> \notin Finders /\ <<"repro", c>> \notin Finders
    BY <1>1, JobKinds
  <2>2. QED
    BY <1>3, <1>7, <2>1 DEF PanelStep, PanelStopped, PanelDecides, PanelFails, Survives,
                            Attempt, Dispatch, Consume, Labels
<1>8. CASE AttemptNext
  <2>1. /\ <<"repro", Head(overflow)>> \in Jobs /\ <<"repro", Head(overflow)>> \notin Finders
    BY <1>1, <1>8, TailElems, JobKinds DEF AttemptNext, TypeInv
  <2>2. QED
    BY <1>3, <1>8, <2>1 DEF AttemptNext, Labels
<1>9. CASE HypothesizeStep
  <2>1. CASE Replay
    BY <1>5, <2>1 DEF Replay
  <2>2. CASE StartFinders \/ LaunchEnds \/ CloseCandidates
    BY <2>2, GotoFacts
       DEF StartFinders, LaunchEnds, CloseCandidates, EmittersOK, TypeInv, Stages, Places
  <2>3. ASSUME NEW u \in Units, Launch(u)
        PROVE  EmittersOK'
    BY <1>3, <2>3, JobKinds DEF Launch, Labels
  <2>4. QED
    BY <1>9, <2>1, <2>2, <2>3 DEF HypothesizeStep
<1>10. CASE TriageStep
  <2>1. UNCHANGED <<todo, job>> /\ at'["hyp"] = at["hyp"]
    BY <1>10, GotoFacts
       DEF TriageStep, TakeCandidate, AskArbiter, ArbiterAnswers, Judge, TriageFails,
           AfterFailure, Forward, TriageEnds, TypeInv, Stages, Places
  <2>2. QED
    BY <1>2, <2>1
<1>11. CASE CloseRepro \/ WorkersJoin \/ Return \/ ConsumerEnds \/ Cancel \/ UNCHANGED vars
  <2>1. UNCHANGED <<todo, job>> /\ at'["hyp"] = at["hyp"]
    BY <1>11, GotoFacts
       DEF CloseRepro, WorkersJoin, Return, ConsumerEnds, Cancel, vars, TypeInv, Stages, Places
  <2>2. QED
    BY <1>2, <2>1
<1>12. QED
  BY <1>4, <1>6, <1>7, <1>8, <1>9, <1>10, <1>11
     DEF Next, Progress, JobStep, DispatcherStep, ConsumerStep

(* One candidate's trace.                                                  *)
TracedAt(c) ==
  /\ fate[c] = "lost" => Trouble
  /\ fate[c] = "found" => Trouble \/ InFlight(c)
  /\ fate[c] = "verified" => Trouble \/ Queued(c)

(* A step that settles nothing about it leaves it somewhere.               *)
LEMMA StaysTraced ==
  ASSUME TypeInv, [Next]_vars, NEW c \in Cands, TracedAt(c), fate'[c] = fate[c],
         InFlight(c) => InFlight(c)' \/ Trouble',
         Queued(c) => Queued(c)' \/ Trouble'
  PROVE  TracedAt(c)'
BY TroubleStays DEF TracedAt

LEMMA JobTraced ==
  ASSUME TypeInv, [Next]_vars, NEW c \in Cands, TracedAt(c), NEW j \in Jobs,
         Acquire(j) \/ GiveUp(j) \/ Ask(j) \/ Answer(j)
  PROVE  TracedAt(c)'
<1>1. UNCHANGED <<todo, held, chan, overflow, fate, tried>>
  BY DEF Acquire, GiveUp, Ask, Answer, flow
<1>2. <<"verify", c>> \in Panels /\ <<"repro", c>> \in Workers /\ <<"verify", c>> \notin Finders
      /\ <<"repro", c>> \notin Finders /\ <<"repro", c>> \notin Panels
      /\ <<"verify", c>> \in Jobs /\ <<"repro", c>> \in Jobs
  BY JobKinds
<1>3. PICK l \in Labels : Become(j, l) /\ job'[j] = l /\ \A k \in Jobs \ {j} : job'[k] = job[k]
  BY BecomeFacts DEF Acquire, GiveUp, Ask, Answer, TypeInv, Labels
<1>4. CASE GiveUp(j)
  <2>1. j \notin Finders => Trouble'
    BY <1>4 DEF GiveUp, Stopped, faults, Trouble
  <2>2. j \in Finders => job'[<<"verify", c>>] = job[<<"verify", c>>]
                         /\ job'[<<"repro", c>>] = job[<<"repro", c>>]
    BY <1>2, <1>3
  <2>3. QED
    BY <1>1, <2>1, <2>2, StaysTraced DEF InFlight, Queued
<1>5. CASE ~GiveUp(j)
  <2>1. /\ job[<<"verify", c>>] \notin {"new", "done"} => job'[<<"verify", c>>] \notin {"new", "done"}
        /\ job[<<"repro", c>>] \in {"waiting", "ready"} => job'[<<"repro", c>>] \in {"waiting", "ready"}
    BY <1>2, <1>3, <1>5, BecomeFacts DEF Acquire, Ask, Answer, TypeInv, Labels
  <2>2. QED
    BY <1>1, <2>1, StaysTraced DEF InFlight, Queued
<1>6. QED
  BY <1>4, <1>5

LEMMA EmitTraced ==
  ASSUME TypeInv, [Next]_vars, NEW c \in Cands, TracedAt(c),
         NEW p \in Units \cup {"replay"}, NEW d, Emit(p, d)
  PROVE  TracedAt(c)'
<1>1. /\ UNCHANGED <<job, held, overflow, tried, cancelled, errs>> /\ d \in Cands
      /\ \A q \in Units \cup {"replay"} : todo[q] \subseteq todo'[q] \cup {d}
  BY DEF Emit, TypeInv, faults
<1>2. CASE Send("cand", d) /\ UNCHANGED fate
  <2>1. /\ Elems(chan'["cand"]) = Elems(chan["cand"]) \cup {d}
        /\ chan'["ver"] = chan["ver"] /\ chan'["repro"] = chan["repro"]
    BY <1>1, <1>2, SendFacts DEF Channels
  <2>2. QED
    BY <1>1, <1>2, <2>1, StaysTraced DEF InFlight, Queued
<1>3. CASE cancelled /\ Settle(d, "lost") /\ UNCHANGED <<chan, panicked>>
  <2>1. Trouble'
    BY <1>1, <1>3 DEF Trouble
  <2>2. QED
    BY <2>1 DEF TracedAt
<1>4. QED
  BY <1>2, <1>3 DEF Emit

LEMMA FinderTraced ==
  ASSUME TypeInv, EmittersOK, [Next]_vars, NEW c \in Cands, TracedAt(c),
         NEW u \in Units, FinderStep(u)
  PROVE  TracedAt(c)'
<1>1. \A l \in Labels : Become(<<"find", u>>, l) =>
        /\ job'[<<"verify", c>>] = job[<<"verify", c>>]
        /\ job'[<<"repro", c>>] = job[<<"repro", c>>]
  BY BecomeFacts, JobKinds DEF TypeInv
<1>2. CASE UnitFinds(u)
  <2>1. PICK S \in SUBSET Finds[u] :
          /\ todo' = [todo EXCEPT ![u] = S]
          /\ fate' = [d \in Cands |-> IF d \in S THEN "found" ELSE fate[d]]
    BY <1>2 DEF UnitFinds
  <2>2. /\ todo[u] = {} /\ todo'[u] = S
        /\ \A q \in (Units \cup {"replay"}) \ {u} : todo'[q] = todo[q]
    BY <1>2, <2>1 DEF UnitFinds, EmittersOK, TypeInv
  <2>3. /\ UNCHANGED <<held, chan, overflow, tried>>
        /\ job'[<<"verify", c>>] = job[<<"verify", c>>]
        /\ job'[<<"repro", c>>] = job[<<"repro", c>>]
    BY <1>1, <1>2 DEF UnitFinds, Labels
  <2>4. CASE c \in S
    BY <2>1, <2>2, <2>4 DEF TracedAt, InFlight
  <2>5. CASE c \notin S
    BY <2>1, <2>2, <2>3, <2>5, StaysTraced DEF InFlight, Queued
  <2>6. QED
    BY <2>4, <2>5
<1>3. CASE UnitEmits(u)
  BY <1>3, EmitTraced DEF UnitEmits
<1>4. CASE SkipUnit(u) \/ UnitEnds(u) \/ UnitFails(u) \/ UnitUnreachable(u) \/ UnitInterrupted(u)
  <2>1. /\ UNCHANGED <<todo, held, chan, overflow, fate, tried>>
        /\ job'[<<"verify", c>>] = job[<<"verify", c>>]
        /\ job'[<<"repro", c>>] = job[<<"repro", c>>]
    BY <1>1, <1>4 DEF SkipUnit, UnitEnds, UnitFails, UnitUnreachable, UnitInterrupted, flow, Labels
  <2>2. QED
    BY <2>1, StaysTraced DEF InFlight, Queued
<1>5. QED
  BY <1>2, <1>3, <1>4 DEF FinderStep

LEMMA PanelTraced ==
  ASSUME TypeInv, [Next]_vars, NEW c \in Cands, TracedAt(c),
         NEW d \in Cands, PanelStep(d) \/ Attempt(d)
  PROVE  TracedAt(c)'
<1>1. \A l \in Labels :
        /\ Become(<<"verify", d>>, l) =>
             /\ d # c => job'[<<"verify", c>>] = job[<<"verify", c>>]
             /\ job'[<<"repro", c>>] = job[<<"repro", c>>]
        /\ Become(<<"repro", d>>, l) =>
             /\ d # c => job'[<<"repro", c>>] = job[<<"repro", c>>]
             /\ job'[<<"verify", c>>] = job[<<"verify", c>>]
  BY BecomeFacts, JobKinds DEF TypeInv
<1>2. \A f : Settle(d, f) => fate'[c] = IF d = c THEN f ELSE fate[c]
  BY DEF Settle, TypeInv
<1>3. CASE PanelStopped(d) \/ PanelDecides(d) \/ PanelFails(d)
  <2>1. PICK f \in Fates \ {"found", "verified"} : Settle(d, f) /\ (f = "lost" => Trouble')
    BY <1>3 DEF PanelStopped, PanelDecides, PanelFails, Fates, Trouble
  <2>2. UNCHANGED <<todo, held, chan, overflow, tried>> /\ Become(<<"verify", d>>, "done")
    BY <1>3 DEF PanelStopped, PanelDecides, PanelFails
  <2>3. CASE d = c
    BY <1>2, <2>1, <2>3 DEF TracedAt, Fates
  <2>4. CASE d # c
    BY <1>1, <1>2, <2>1, <2>2, <2>4, StaysTraced DEF InFlight, Queued, Labels
  <2>5. QED
    BY <2>3, <2>4
<1>4. CASE Survives(d)
  <2>1. /\ UNCHANGED <<todo, held, tried>> /\ Become(<<"verify", d>>, "done")
        /\ fate'[c] = IF d = c THEN "verified" ELSE fate[c]
    BY <1>2, <1>4 DEF Survives
  <2>2. /\ chan'["cand"] = chan["cand"] /\ chan'["ver"] = chan["ver"]
        /\ Elems(chan'["repro"]) \cup Elems(overflow')
             = (Elems(chan["repro"]) \cup Elems(overflow)) \cup {d}
    <3>1. CASE Send("repro", d) /\ UNCHANGED overflow
      BY <3>1, SendFacts DEF Channels
    <3>2. CASE overflow' = Append(overflow, d) /\ UNCHANGED chan
      <4>1. Elems(overflow') = Elems(overflow) \cup {d}
        BY <3>2, AppendElems DEF TypeInv
      <4>2. QED
        BY <3>2, <4>1
    <3>3. QED
      BY <1>4, <3>1, <3>2 DEF Survives, Enqueue
  <2>3. CASE d = c
    BY <2>1, <2>2, <2>3 DEF TracedAt, Queued
  <2>4. CASE d # c
    <3>1. /\ job'[<<"verify", c>>] = job[<<"verify", c>>]
          /\ job'[<<"repro", c>>] = job[<<"repro", c>>]
      BY <1>1, <2>1, <2>4 DEF Labels
    <3>2. InFlight(c) => InFlight(c)'
      BY <2>1, <2>2, <3>1 DEF InFlight
    <3>3. Queued(c) => Queued(c)'
      BY <2>1, <2>2, <3>1 DEF Queued
    <3>4. QED
      BY <2>1, <2>4, <3>2, <3>3, StaysTraced
  <2>5. QED
    BY <2>3, <2>4
<1>5. CASE Attempt(d)
  <2>1. /\ UNCHANGED <<todo, held, chan, overflow, fate>> /\ tried' = tried \cup {d}
        /\ Become(<<"repro", d>>, "done")
    BY <1>5 DEF Attempt, flow
  <2>2. /\ d # c => job'[<<"repro", c>>] = job[<<"repro", c>>]
        /\ job'[<<"verify", c>>] = job[<<"verify", c>>]
    BY <1>1, <2>1 DEF Labels
  <2>3. QED
    BY <2>1, <2>2, StaysTraced DEF InFlight, Queued
<1>6. QED
  BY <1>3, <1>4, <1>5 DEF PanelStep

LEMMA TriageTraced ==
  ASSUME TypeInv, BlameOK, [Next]_vars, NEW c \in Cands, TracedAt(c), TriageStep
  PROVE  TracedAt(c)'
<1>1. UNCHANGED <<job, todo, overflow, tried>>
  BY DEF TriageStep, TakeCandidate, AskArbiter, ArbiterAnswers, Judge, TriageFails, Forward,
         TriageEnds, flow
<1>2. \A d, f : Settle(d, f) => fate'[c] = IF d = c THEN f ELSE fate[c]
  BY DEF Settle, TypeInv
<1>3. ASSUME NEW d \in Cands, TakeCandidate(d)
      PROVE  TracedAt(c)'
  <2>1. /\ Elems(chan["cand"]) = Elems(chan'["cand"]) \cup {d}
        /\ chan'["ver"] = chan["ver"] /\ chan'["repro"] = chan["repro"]
    BY <1>3, TakenFacts DEF TakeCandidate, Channels
  <2>2. CASE at["tri"] = "recv"
    <3>1. held = {} /\ held' = {d} /\ UNCHANGED fate
      BY <1>3, <2>2 DEF TakeCandidate, TypeInv, StagesOK
    <3>2. QED
      BY <1>1, <2>1, <3>1, StaysTraced DEF InFlight, Queued
  <2>3. CASE at["tri"] = "drain"
    <3>1. Trouble' /\ fate'[c] = IF d = c THEN "lost" ELSE fate[c]
      BY <1>2, <1>3, <2>3, TroubleStays DEF TakeCandidate, BlameOK
    <3>2. QED
      BY <3>1 DEF TracedAt
  <2>4. QED
    BY <1>3, <2>2, <2>3 DEF TakeCandidate
<1>4. CASE AskArbiter \/ ArbiterAnswers \/ TriageEnds
  <2>1. UNCHANGED <<held, chan, fate>>
    BY <1>4 DEF AskArbiter, ArbiterAnswers, TriageEnds, flow
  <2>2. QED
    BY <1>1, <2>1, StaysTraced DEF InFlight, Queued
<1>5. CASE Judge
  <2>1. CASE UNCHANGED <<held, fate>>
    BY <1>1, <1>5, <2>1, StaysTraced DEF Judge, InFlight, Queued
  <2>2. CASE held' = {} /\ \E d \in held : Settle(d, "dropped")
    <3>1. PICK d \in Cands : held = {d} /\ Settle(d, "dropped")
      BY <1>5, <2>2 DEF Judge, TypeInv, StagesOK
    <3>2. CASE d = c
      BY <1>2, <3>1, <3>2 DEF TracedAt
    <3>3. CASE d # c
      <4>1. UNCHANGED chan /\ c \notin held
        BY <1>5, <3>1, <3>3 DEF Judge
      <4>2. QED
        BY <1>1, <1>2, <3>1, <3>3, <4>1, StaysTraced DEF InFlight, Queued
    <3>4. QED
      BY <3>2, <3>3
  <2>3. QED
    BY <1>5, <2>1, <2>2 DEF Judge
<1>6. CASE TriageFails
  <2>1. Trouble'
    BY <1>6 DEF TriageFails, Trouble
  <2>2. QED
    BY <2>1 DEF TracedAt
<1>7. CASE Forward
  <2>1. PICK d \in Cands : held = {d}
    BY <1>7 DEF Forward, TypeInv, StagesOK
  <2>2. CASE Send("ver", d) /\ UNCHANGED fate
    <3>1. /\ Elems(chan'["ver"]) = Elems(chan["ver"]) \cup {d}
          /\ chan'["cand"] = chan["cand"] /\ chan'["repro"] = chan["repro"]
      BY <2>2, SendFacts DEF Channels
    <3>2. QED
      BY <1>1, <2>1, <2>2, <3>1, StaysTraced DEF InFlight, Queued
  <2>3. CASE cancelled
    <3>1. Trouble'
      BY <2>3, TroubleStays DEF Trouble
    <3>2. QED
      BY <3>1 DEF TracedAt
  <2>4. QED
    BY <1>7, <2>1, <2>2, <2>3 DEF Forward
<1>8. QED
  BY <1>3, <1>4, <1>5, <1>6, <1>7 DEF TriageStep

LEMMA RestTraced ==
  ASSUME TypeInv, [Next]_vars, NEW c \in Cands, TracedAt(c),
         HypothesizeStep \/ DispatcherStep \/ ConsumerStep \/ Cancel \/ UNCHANGED vars
  PROVE  TracedAt(c)'
<1>1. ASSUME NEW j \in Jobs, Become(j, "waiting"), UNCHANGED <<todo, held, fate, tried>>,
             j \in Finders \/ j = <<"verify", c>> \/ j = <<"repro", c>>
               \/ (j # <<"verify", c>> /\ j # <<"repro", c>>)
      PROVE  /\ job[<<"verify", c>>] \notin {"new", "done"} => job'[<<"verify", c>>] \notin {"new", "done"}
             /\ job[<<"repro", c>>] \in {"waiting", "ready"} => job'[<<"repro", c>>] \in {"waiting", "ready"}
             /\ j = <<"verify", c>> => job'[<<"verify", c>>] = "waiting"
             /\ j = <<"repro", c>> => job'[<<"repro", c>>] = "waiting"
  BY <1>1, BecomeFacts, JobKinds DEF TypeInv, Labels
<1>2. CASE Replay
  BY <1>2, EmitTraced DEF Replay
<1>3. ASSUME NEW u \in Units, Launch(u)
      PROVE  TracedAt(c)'
  <2>1. /\ UNCHANGED <<todo, held, chan, overflow, fate, tried>>
        /\ Become(<<"find", u>>, "waiting") /\ <<"find", u>> \in Jobs
    BY <1>3, JobKinds DEF Launch, flow
  <2>2. QED
    BY <1>1, <2>1, StaysTraced DEF InFlight, Queued
<1>4. ASSUME NEW d \in Cands, Dispatch(d)
      PROVE  TracedAt(c)'
  <2>1. /\ UNCHANGED <<todo, held, overflow, fate, tried>>
        /\ Become(<<"verify", d>>, "waiting") /\ <<"verify", d>> \in Jobs
        /\ Elems(chan["ver"]) = Elems(chan'["ver"]) \cup {d}
        /\ chan'["cand"] = chan["cand"] /\ chan'["repro"] = chan["repro"]
    BY <1>4, JobKinds, TakenFacts DEF Dispatch, Channels
  <2>2. QED
    BY <1>1, <2>1, StaysTraced DEF InFlight, Queued
<1>5. ASSUME NEW d \in Cands, Consume(d)
      PROVE  TracedAt(c)'
  <2>1. /\ UNCHANGED <<todo, held, overflow, fate, tried>>
        /\ Become(<<"repro", d>>, "waiting") /\ <<"repro", d>> \in Jobs
        /\ Elems(chan["repro"]) = Elems(chan'["repro"]) \cup {d}
        /\ chan'["cand"] = chan["cand"] /\ chan'["ver"] = chan["ver"]
    BY <1>5, JobKinds, TakenFacts DEF Consume, Channels
  <2>2. QED
    BY <1>1, <2>1, StaysTraced DEF InFlight, Queued
<1>6. CASE AttemptNext
  <2> DEFINE d == Head(overflow)
  <2>1. /\ UNCHANGED <<todo, held, chan, fate, tried>>
        /\ Become(<<"repro", d>>, "waiting") /\ <<"repro", d>> \in Jobs
        /\ Elems(overflow) = Elems(overflow') \cup {d}
    BY <1>6, JobKinds, TailElems DEF AttemptNext, TypeInv
  <2> HIDE DEF d
  <2>2. QED
    BY <1>1, <2>1, StaysTraced DEF InFlight, Queued
<1>7. CASE StartFinders \/ LaunchEnds \/ CloseCandidates \/ CloseRepro \/ WorkersJoin \/ Return
           \/ ConsumerEnds \/ Cancel \/ UNCHANGED vars
  <2>1. UNCHANGED <<todo, job, held, chan, overflow, fate, tried>>
    BY <1>7 DEF StartFinders, LaunchEnds, CloseCandidates, CloseRepro, WorkersJoin, Return,
                ConsumerEnds, Cancel, vars, flow
  <2>2. QED
    BY <2>1, StaysTraced DEF InFlight, Queued
<1>8. QED
  BY <1>2, <1>3, <1>4, <1>5, <1>6, <1>7 DEF HypothesizeStep, DispatcherStep, ConsumerStep

LEMMA TracedKept ==
  ASSUME TypeInv, Traced, EmittersOK, BlameOK, [Next]_vars
  PROVE  Traced'
<1> SUFFICES ASSUME NEW c \in Cands PROVE TracedAt(c)'
  BY DEF Traced, TracedAt
<1>1. TracedAt(c)
  BY DEF Traced, TracedAt
<1>2. QED
  BY <1>1, JobTraced, FinderTraced, PanelTraced, TriageTraced, RestTraced
     DEF Next, Progress, JobStep

(* A run that returns tells the truth.                                     *)
LEMMA ReturnHonest ==
  ASSUME TypeInv, CloseInv, ResultInv, Return
  PROVE  HonestResult'
<1>1. /\ at["tri"] = "done" /\ at["hyp"] = "done" /\ at["main"] = "overflow"
      /\ overflow = <<>> /\ AllDone(Workers) /\ result' = Classified
      /\ UNCHANGED <<fate, tried, cancelled, errs, broken>>
  BY DEF Return, flow, faults
<1>2. /\ AllDone(Finders) /\ AllDone(Panels) /\ held = {}
      /\ chan["cand"] = <<>> /\ chan["ver"] = <<>> /\ chan["repro"] = <<>>
  BY <1>1 DEF CloseInv, JoinedInOrder, ClosedInOrder, TypeInv, StagesOK
<1>3. ASSUME NEW c \in Cands
      PROVE  ~InFlight(c) /\ (Queued(c) => c \in tried)
  <2>1. \A p \in Units \cup {"replay"} : c \notin todo[p]
    BY <1>1, <1>2, JobKinds DEF ResultInv, EmittersOK, AllDone
  <2>2. job[<<"verify", c>>] \in {"new", "done"} /\ job[<<"repro", c>>] \in {"new", "done"}
    BY <1>1, <1>2, JobKinds DEF AllDone
  <2>3. QED
    BY <1>1, <1>2, <2>1, <2>2, EmptyElems DEF InFlight, Queued
<1>4. result' = "ok" => \A c \in Cands :
        fate'[c] \in Settled /\ (fate'[c] = "verified" => c \in tried')
  <2> SUFFICES ASSUME result' = "ok", NEW c \in Cands
               PROVE  fate[c] \in Settled /\ (fate[c] = "verified" => c \in tried)
    BY <1>1
  <2>1. ~Trouble
    BY <1>1 DEF Classified, Trouble
  <2>2. QED
    BY <1>3, <2>1 DEF ResultInv, Traced, TypeInv, Fates, Settled
<1>5. /\ result' = "aborted" => broken'
      /\ result' = "interrupted" => cancelled'
  BY <1>1 DEF Classified, ResultInv, BlameOK
<1>6. QED
  BY <1>4, <1>5 DEF HonestResult

(* Triage drains its channel only after a failure.                         *)
LEMMA DrainMoves ==
  ASSUME TypeInv, Next, ~TriageFails, ~Forward, at["tri"] # "drain"
  PROVE  at'["tri"] # "drain"
<1>1. ASSUME NEW s \in Stages, NEW p \in Places \ {"drain"}, Goto(s, p)
      PROVE  at'["tri"] # "drain"
  BY <1>1, GotoFacts DEF TypeInv, Stages
<1>2. ASSUME NEW j \in Jobs, JobStep(j)
      PROVE  UNCHANGED at
  BY <1>2 DEF JobStep, Acquire, GiveUp, Ask, Answer, FinderStep, SkipUnit, UnitFinds, UnitEmits,
              Emit, UnitEnds, UnitFails, UnitUnreachable, UnitInterrupted, PanelStep,
              PanelStopped, PanelDecides, PanelFails, Survives, Attempt
<1>3. CASE HypothesizeStep
  BY <1>1, <1>3 DEF HypothesizeStep, Replay, Emit, StartFinders, Launch, LaunchEnds,
                    CloseCandidates, Stages, Places
<1>4. CASE TriageStep
  BY <1>1, <1>4 DEF TriageStep, TakeCandidate, AskArbiter, ArbiterAnswers, Judge, TriageEnds,
                    Stages, Places
<1>5. CASE DispatcherStep \/ ConsumerStep \/ Cancel
  BY <1>1, <1>5 DEF DispatcherStep, ConsumerStep, Dispatch, CloseRepro, WorkersJoin, AttemptNext,
                    Return, Consume, ConsumerEnds, Cancel, Stages, Places
<1>6. QED
  BY <1>2, <1>3, <1>4, <1>5 DEF Next, Progress

LEMMA ResultKept ==
  ASSUME TypeInv, CloseInv, ResultInv, [Next]_vars
  PROVE  ResultInv'
<1>1. Traced' /\ EmittersOK'
  BY TracedKept, EmittersKept DEF ResultInv
<1>2. CASE UNCHANGED vars
  BY <1>2 DEF vars, flow, faults, ResultInv, Traced, EmittersOK, BlameOK, HonestResult, Trouble,
              InFlight, Queued
<1>3. CASE Next
  <2>1. at["main"] # "done"
    BY <1>3, NothingAfterReturn
  <2>2. result = "none"
    BY <2>1 DEF ResultInv, BlameOK
  <2>3. HonestResult' /\ (result' # "none" => at'["main"] = "done")
    <3>1. CASE Return
      BY <3>1, ReturnHonest, GotoFacts DEF Return, TypeInv, Stages, Places
    <3>2. CASE ~Return
      BY <2>2, <3>2, BlameMoves DEF HonestResult
    <3>3. QED
      BY <3>1, <3>2
  <2>4. errs' # {} => broken' \/ cancelled'
    BY BlameMoves DEF ResultInv, BlameOK
  <2>5. at'["tri"] = "drain" => Trouble'
    <3>1. CASE at["tri"] = "drain"
      BY <3>1, TroubleStays DEF ResultInv, BlameOK
    <3>2. CASE at["tri"] # "drain"
      <4>1. CASE TriageFails
        BY <4>1 DEF TriageFails, Trouble
      <4>2. CASE Forward
        BY <4>2, GotoFacts, TroubleStays
           DEF Forward, AfterFailure, Trouble, TypeInv, Stages, Places
      <4>3. CASE ~TriageFails /\ ~Forward
        <5>1. at'["tri"] # "drain"
          BY <3>2, <4>3, <1>3, DrainMoves
        <5>2. QED
          BY <5>1
      <4>4. QED
        BY <4>1, <4>2, <4>3
    <3>3. QED
      BY <3>1, <3>2
  <2>6. QED
    BY <1>1, <2>3, <2>4, <2>5 DEF ResultInv, BlameOK
<1>4. QED
  BY <1>2, <1>3

LEMMA ResultHolds == Spec => []ResultInv
<1>1. Init => ResultInv
  <2> SUFFICES ASSUME Init PROVE ResultInv
    OBVIOUS
  <2>1. ASSUME NEW c \in Cands
        PROVE  /\ fate[c] \in {"none", "found"} /\ (fate[c] = "found" => InFlight(c))
    BY <2>1 DEF Init, InFlight
  <2>2. Traced
    BY <2>1 DEF Traced
  <2>3. EmittersOK
    BY PipelineAssumption DEF Init, EmittersOK
  <2>4. BlameOK /\ HonestResult
    BY DEF Init, BlameOK, HonestResult
  <2>5. QED
    BY <2>2, <2>3, <2>4 DEF ResultInv
<1>2. TypeInv /\ CloseInv /\ ResultInv /\ [Next]_vars => ResultInv'
  BY ResultKept
<1>3. QED
  BY <1>1, <1>2, TypedHolds, CloseHolds, PTL DEF Spec

(* A run that returns no error has settled every candidate it found and    *)
(* tried to reproduce every finding it verified; an aborted one had a      *)
(* failing stage and an interrupted one was cancelled                      *)
(* (run_pipeline.go:516-581, hypothesize.go:525-531).                      *)
THEOREM RunReportsHonestly == Spec => []HonestResult
<1>1. ResultInv => HonestResult
  BY DEF ResultInv
<1>2. QED
  BY <1>1, ResultHolds, PTL

=============================================================================
