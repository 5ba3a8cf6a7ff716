--------------------------- MODULE SlotPool_proofs ---------------------------
(***************************************************************************)
(* Theorems about SlotPool, for any fan-outs, units, classes and size: no  *)
(* slot is lost or duplicated, every waiter has exactly one hand-over      *)
(* coming, and the pool implements PrioritySemaphore.                      *)
(***************************************************************************)
EXTENDS SlotPool, FiniteSetTheorems, SequenceTheorems, TLAPS

(* The first of the equal elements of a sequence is taken out; where all   *)
(* elements differ, the only one.                                          *)
LEMMA RemoveFirstProperties ==
  ASSUME NEW S, NEW s \in Seq(S), NEW i \in 1..Len(s),
         \A j \in 1..Len(s) : s[j] = s[i] => j = i
  PROVE  /\ RemoveFirst(s, s[i]) \in Seq(S)
         /\ Len(RemoveFirst(s, s[i])) = Len(s) - 1
         /\ \A j \in 1..(Len(s) - 1) :
              RemoveFirst(s, s[i])[j] = IF j < i THEN s[j] ELSE s[j + 1]
<1> DEFINE found == {j \in 1..Len(s) : s[j] = s[i]}
<1>1. Len(s) \in Nat /\ \A j \in 1..Len(s) : s[j] \in S
  BY LenProperties, ElementOfSeq
<1>2. found = {i}
  BY <1>1
<1>3. Min(found) = i
  BY <1>1, <1>2 DEF Min
<1>4. SelectInSeq(s, LAMBDA v : v = s[i]) = i
  BY <1>2, <1>3 DEF SelectInSeq
<1>5. RemoveFirst(s, s[i]) = SubSeq(s, 1, i - 1) \o SubSeq(s, i + 1, Len(s))
  BY <1>4 DEF RemoveFirst, RemoveAt
<1>6. /\ SubSeq(s, 1, i - 1) \in Seq(S) /\ Len(SubSeq(s, 1, i - 1)) = i - 1
      /\ \A j \in 1..(i - 1) : SubSeq(s, 1, i - 1)[j] = s[j]
  BY <1>1, SubSeqProperties
<1>7. /\ SubSeq(s, i + 1, Len(s)) \in Seq(S)
      /\ Len(SubSeq(s, i + 1, Len(s))) = Len(s) - i
      /\ \A j \in 1..(Len(s) - i) : SubSeq(s, i + 1, Len(s))[j] = s[j + i]
  BY <1>1, SubSeqProperties
<1> DEFINE t == SubSeq(s, 1, i - 1)
           w == SubSeq(s, i + 1, Len(s))
<1> HIDE DEF t, w
<1>8. t \in Seq(S) /\ w \in Seq(S) /\ Len(t) = i - 1 /\ Len(w) = Len(s) - i
  BY <1>6, <1>7 DEF t, w
<1>9. /\ t \o w \in Seq(S) /\ Len(t \o w) = Len(t) + Len(w)
      /\ \A j \in 1..(Len(t) + Len(w)) :
           (t \o w)[j] = IF j <= Len(t) THEN t[j] ELSE w[j - Len(t)]
  BY <1>8, ConcatProperties
<1>10. Len(t) + Len(w) = Len(s) - 1
  BY <1>1, <1>8
<1>11. ASSUME NEW j \in 1..(Len(s) - 1)
      PROVE  (t \o w)[j] = IF j < i THEN s[j] ELSE s[j + 1]
  <2>1. (t \o w)[j] = IF j <= Len(t) THEN t[j] ELSE w[j - Len(t)]
    BY <1>9, <1>10
  <2>2. CASE j < i
    BY <1>1, <1>6, <1>8, <2>1, <2>2 DEF t
  <2>3. CASE ~(j < i)
    <3>1. j - (i - 1) \in 1..(Len(s) - i) /\ (j - (i - 1)) + i = j + 1
      BY <1>1, <2>3
    <3>2. w[j - (i - 1)] = s[j + 1]
      BY <1>7, <3>1 DEF w
    <3>3. (t \o w)[j] = w[j - (i - 1)]
      BY <1>1, <1>8, <2>1, <2>3
    <3>4. QED
      BY <2>3, <3>2, <3>3
  <2>4. QED
    BY <2>2, <2>3
<1>12. QED
  BY <1>5, <1>9, <1>10, <1>11 DEF t, w

-----------------------------------------------------------------------------
(* The inductive invariant.                                                *)

(* The waiters a releaser has dequeued and not yet sent a token.           *)
Awarded == {target[v] : v \in Sending}

(* A queue holds waiters of its class, each once and with no token coming. *)
QueuesOK ==
  \A c \in Classes : \A i \in 1..Len(queue[c]) :
    /\ ClassOf[queue[c][i]] = c
    /\ pc[queue[c][i]] \in {"waiting", "cancelled"}
    /\ queue[c][i] \notin chan
    /\ \A v \in Sending : target[v] # queue[c][i]
    /\ \A j \in 1..Len(queue[c]) : queue[c][j] = queue[c][i] => j = i

(* A token in a channel, or about to be sent, is for somebody who takes it,*)
(* and nobody gets two.                                                    *)
TokensOK ==
  /\ chan \subseteq Awaiting
  /\ \A v \in Sending :
       /\ target[v] \in Awaiting /\ target[v] \notin chan
       /\ \A w \in Sending : target[w] = target[v] => w = v

Queued(u) == Contains(queue[ClassOf[u]], u)

(* Nobody waits in vain.                                                   *)
TokenComing ==
  \A u \in Awaiting : u \in chan \/ Queued(u) \/ \E v \in Sending : target[v] = u

(* The slots that are not free are held or travelling.                     *)
SlotsCounted ==
  /\ IsFiniteSet(Holding) /\ IsFiniteSet(chan) /\ IsFiniteSet(Sending)
  /\ free + Cardinality(Holding) + Cardinality(chan) + Cardinality(Sending) = Size

(* Nobody waits while a slot is free.                                      *)
NoneIdle == free > 0 => NobodyWaits

(* What a fanout has yet to spawn has not begun.                           *)
RestUnborn ==
  \A g \in Groups :
    /\ next[g] <= Len(Batch[g])
    /\ \A i \in (next[g] + 1)..Len(Batch[g]) : pc[Batch[g][i]] = "new"

Shape == QueuesOK /\ TokensOK /\ TokenComing
IInv == TypeOK /\ Shape /\ SlotsCounted /\ NoneIdle /\ RestUnborn

-----------------------------------------------------------------------------
(* What the helpers do.                                                    *)

(* A batch is a sequence of units, each of which it holds once.            *)
LEMMA BatchFacts ==
  ASSUME NEW g \in Groups
  PROVE  /\ Len(Batch[g]) \in Nat
         /\ \A i \in 1..Len(Batch[g]) : Batch[g][i] \in Units
         /\ \A i, j \in 1..Len(Batch[g]) : Batch[g][i] = Batch[g][j] => i = j
         /\ \A h \in Groups : h # g =>
              \A i \in 1..Len(Batch[g]), j \in 1..Len(Batch[h]) : Batch[g][i] # Batch[h][j]
<1>1. \A h \in Groups : /\ Batch[h] \in Seq(BatchUnits(h))
                        /\ DOMAIN Batch[h] = 1..Len(Batch[h]) /\ Len(Batch[h]) \in Nat
                        /\ \A i \in 1..Len(Batch[h]) : Batch[h][i] \in BatchUnits(h)
  BY SlotPoolAssumption, LenProperties, ElementOfSeq
<1>2. IsInjective(Batch[g])
  BY SlotPoolAssumption
<1>3. QED
  BY <1>1, <1>2, SlotPoolAssumption DEF Units, IsInjective

(* A goroutine that moves enters and leaves these sets by its label.       *)
LEMMA GotoSets ==
  ASSUME TypeOK, NEW u \in Units, NEW l \in PcLabels, Goto(u, l)
  PROVE  /\ pc' \in [Units -> PcLabels] /\ pc'[u] = l
         /\ \A v \in Units \ {u} : pc'[v] = pc[v]
         /\ Holding' = IF l \in {"running", "returning"} THEN Holding \cup {u}
                       ELSE Holding \ {u}
         /\ Sending' = IF l = "sending" THEN Sending \cup {u} ELSE Sending \ {u}
         /\ Awaiting' = IF l \in {"waiting", "cancelled", "owed"} THEN Awaiting \cup {u}
                        ELSE Awaiting \ {u}
<1>1. /\ pc' \in [Units -> PcLabels] /\ pc'[u] = l
      /\ \A v \in Units \ {u} : pc'[v] = pc[v]
  BY DEF TypeOK, Goto
<1>2. QED
  BY <1>1 DEF Holding, Sending, Awaiting

(* Counting one more, or one fewer.                                        *)
LEMMA OneMore ==
  ASSUME NEW S, NEW x, IsFiniteSet(S), x \notin S
  PROVE  /\ IsFiniteSet(S \cup {x}) /\ Cardinality(S) \in Nat
         /\ Cardinality(S \cup {x}) = Cardinality(S) + 1
BY FS_AddElement, FS_CardinalityType

LEMMA OneFewer ==
  ASSUME NEW S, NEW x, IsFiniteSet(S), x \in S
  PROVE  /\ IsFiniteSet(S \ {x}) /\ Cardinality(S) \in Nat \ {0}
         /\ Cardinality(S \ {x}) = Cardinality(S) - 1
<1>1. Cardinality(S) \in Nat /\ Cardinality(S) # 0
  BY FS_CardinalityType, FS_EmptySet
<1>2. QED
  BY <1>1, FS_RemoveElement

(* How many slots are free is a number of slots.                           *)
LEMMA FreeInRange ==
  ASSUME SlotsCounted, free \in Int, free >= 0
  PROVE  free \in 0..Size
<1>1. /\ Cardinality(Holding) \in Nat /\ Cardinality(chan) \in Nat
      /\ Cardinality(Sending) \in Nat
  BY FS_CardinalityType DEF SlotsCounted
<1>2. QED
  BY <1>1, SlotPoolAssumption DEF SlotsCounted

(* The waiters of a class, in terms of the sequence.                       *)
LEMMA QueueFacts ==
  ASSUME TypeOK, NEW c \in Classes
  PROVE  /\ queue[c] \in Seq(Units) /\ Len(queue[c]) \in Nat
         /\ \A i \in 1..Len(queue[c]) : queue[c][i] \in Units
<1>1. queue[c] \in Seq(Units)
  BY DEF TypeOK
<1>2. QED
  BY <1>1, LenProperties, ElementOfSeq

LEMMA InitIInv == Init => IInv
<1> SUFFICES ASSUME Init PROVE IInv
  OBVIOUS
<1>1. Holding = {} /\ Sending = {} /\ Awaiting = {} /\ chan = {}
  BY DEF Init, Holding, Sending, Awaiting
<1>2. \A c \in Classes : queue[c] = <<>> /\ Len(queue[c]) = 0 /\ queue[c] \in Seq(Units)
  BY EmptySeq DEF Init
<1>3. TypeOK
  BY <1>2, SlotPoolAssumption DEF Init, TypeOK, PcLabels
<1>4. Shape
  BY <1>1, <1>2 DEF Shape, QueuesOK, TokensOK, TokenComing
<1>5. SlotsCounted
  BY <1>1, FS_EmptySet, SlotPoolAssumption DEF Init, SlotsCounted
<1>6. NoneIdle
  BY <1>2 DEF NoneIdle, NobodyWaits
<1>7. RestUnborn
  BY BatchFacts DEF Init, RestUnborn
<1>8. QED
  BY <1>3, <1>4, <1>5, <1>6, <1>7 DEF IInv

(* A goroutine that was spawned goes on: the unspawned ones do not notice. *)
LEMMA RestKept ==
  ASSUME TypeOK, RestUnborn, NEW u \in Units, NEW l \in PcLabels, pc[u] # "new",
         Goto(u, l), UNCHANGED next
  PROVE  RestUnborn'
BY BatchFacts, GotoSets DEF RestUnborn, TypeOK

-----------------------------------------------------------------------------
(* Each action keeps the invariant.                                        *)

LEMMA SpawnKeeps ==
  ASSUME IInv, NEW g \in Groups, Spawn(g)
  PROVE  IInv'
<1> DEFINE n == next[g] + 1
           u == Batch[g][n]
<1>1. /\ next \in [Groups -> Nat] /\ n \in 1..Len(Batch[g]) /\ n \in Nat
      /\ next' = [next EXCEPT ![g] = n]
      /\ Goto(u, "acquire")
      /\ UNCHANGED <<free, queue, chan, target, stopped, ran>>
  BY BatchFacts DEF IInv, TypeOK, Spawn
<1>2. u \in Units /\ pc[u] = "new" /\ "acquire" \in PcLabels
  BY <1>1, BatchFacts DEF IInv, RestUnborn, PcLabels
<1> HIDE DEF u
<1>3. /\ pc' \in [Units -> PcLabels] /\ pc'[u] = "acquire"
      /\ \A v \in Units \ {u} : pc'[v] = pc[v]
      /\ Holding' = Holding /\ Sending' = Sending /\ Awaiting' = Awaiting
  BY <1>1, <1>2, GotoSets DEF IInv, Holding, Sending, Awaiting
<1>4. TypeOK'
  BY <1>1, <1>3 DEF IInv, TypeOK
<1>5. Shape'
  <2>1. QueuesOK'
    BY <1>1, <1>2, <1>3, QueueFacts DEF IInv, Shape, QueuesOK
  <2>2. TokensOK' /\ TokenComing'
    BY <1>1, <1>3 DEF IInv, Shape, TokensOK, TokenComing, Queued
  <2>3. QED
    BY <2>1, <2>2 DEF Shape
<1>6. SlotsCounted' /\ NoneIdle'
  BY <1>1, <1>3 DEF IInv, SlotsCounted, NoneIdle, NobodyWaits
<1>7. RestUnborn'
  <2> SUFFICES ASSUME NEW h \in Groups
               PROVE  /\ next'[h] <= Len(Batch[h])
                      /\ \A i \in (next'[h] + 1)..Len(Batch[h]) : pc'[Batch[h][i]] = "new"
    BY DEF RestUnborn
  <2>1. CASE h = g
    BY <1>1, <1>3, <2>1, BatchFacts DEF IInv, RestUnborn, u
  <2>2. CASE h # g
    BY <1>1, <1>3, <2>2, BatchFacts DEF IInv, RestUnborn, u
  <2>3. QED
    BY <2>1, <2>2
<1>8. QED
  BY <1>4, <1>5, <1>6, <1>7 DEF IInv

LEMMA StopKeeps ==
  ASSUME IInv, NEW g \in Groups, Stop(g)
  PROVE  IInv'
<1>1. UNCHANGED <<free, queue, chan, pc, target, next, ran>> /\ stopped' \subseteq Groups
  BY DEF IInv, TypeOK, Stop
<1>2. QED
  BY <1>1 DEF IInv, TypeOK, Shape, QueuesOK, TokensOK, TokenComing, Queued, SlotsCounted,
              NoneIdle, NobodyWaits, RestUnborn, Holding, Sending, Awaiting

(* A waiter joins the end of the queue of its class.                       *)
LEMMA JoinKeeps ==
  ASSUME IInv, NEW u \in Units, Acquire(u), ~(free > 0)
  PROVE  IInv'
<1> DEFINE c == ClassOf[u]
<1>1. /\ c \in Classes /\ pc[u] = "acquire" /\ "waiting" \in PcLabels
      /\ queue' = [queue EXCEPT ![c] = Append(@, u)]
      /\ Goto(u, "waiting") /\ UNCHANGED <<free, ran, chan, target, next, stopped>>
  BY SlotPoolAssumption DEF Acquire, PcLabels
<1>2. /\ pc' \in [Units -> PcLabels] /\ pc'[u] = "waiting"
      /\ \A v \in Units \ {u} : pc'[v] = pc[v]
      /\ Holding' = Holding /\ Sending' = Sending /\ Awaiting' = Awaiting \cup {u}
  BY <1>1, GotoSets DEF IInv, Holding, Sending
<1>3. /\ queue'[c] \in Seq(Units) /\ Len(queue'[c]) = Len(queue[c]) + 1
      /\ \A i \in 1..Len(queue[c]) : queue'[c][i] = queue[c][i]
      /\ queue'[c][Len(queue[c]) + 1] = u
      /\ \A d \in Classes \ {c} : queue'[d] = queue[d]
  BY <1>1, QueueFacts, AppendProperties DEF IInv, TypeOK
<1>4. u \notin chan /\ \A v \in Sending : target[v] # u
  BY <1>1 DEF IInv, Shape, TokensOK, Awaiting
<1>5. \A d \in Classes : \A i \in 1..Len(queue[d]) : queue[d][i] # u
  BY <1>1 DEF IInv, Shape, QueuesOK
<1> HIDE DEF c
<1>6. TypeOK'
  BY <1>1, <1>2, <1>3 DEF IInv, TypeOK
<1>7. QueuesOK'
  <2> SUFFICES ASSUME NEW d \in Classes, NEW i \in 1..Len(queue'[d])
               PROVE  /\ ClassOf[queue'[d][i]] = d
                      /\ pc'[queue'[d][i]] \in {"waiting", "cancelled"}
                      /\ queue'[d][i] \notin chan'
                      /\ \A v \in Sending' : target'[v] # queue'[d][i]
                      /\ \A j \in 1..Len(queue'[d]) : queue'[d][j] = queue'[d][i] => j = i
    BY DEF QueuesOK
  <2>1. CASE d # c
    BY <1>1, <1>2, <1>3, <1>5, <2>1, QueueFacts DEF IInv, Shape, QueuesOK
  <2>2. CASE d = c /\ i = Len(queue[c]) + 1
    BY <1>1, <1>2, <1>3, <1>4, <1>5, <2>2, QueueFacts DEF IInv, c
  <2>3. CASE d = c /\ i # Len(queue[c]) + 1
    <3>1. i \in 1..Len(queue[c]) /\ Len(queue[c]) \in Nat
      BY <1>1, <1>3, <2>3, QueueFacts DEF IInv
    <3>2. \A j \in 1..Len(queue'[c]) : queue'[c][j] = queue'[c][i] => j = i
      BY <1>1, <1>3, <1>5, <3>1 DEF IInv, Shape, QueuesOK
    <3>3. QED
      BY <1>1, <1>2, <1>3, <1>5, <2>3, <3>1, <3>2, QueueFacts DEF IInv, Shape, QueuesOK
  <2>4. QED
    BY <2>1, <2>2, <2>3
<1>8. TokensOK'
  BY <1>1, <1>2 DEF IInv, Shape, TokensOK
<1>9. TokenComing'
  <2> SUFFICES ASSUME NEW v \in Awaiting'
               PROVE  v \in chan' \/ Queued(v)' \/ \E w \in Sending' : target'[w] = v
    BY DEF TokenComing
  <2>1. CASE v = u
    BY <1>1, <1>3, <2>1, QueueFacts DEF IInv, Queued, Contains, c
  <2>2. CASE v # u
    <3>1. v \in Awaiting /\ ClassOf[v] \in Classes
      BY <1>2, <2>2, SlotPoolAssumption DEF Awaiting
    <3>2. Queued(v) => Queued(v)'
      <4>1. CASE ClassOf[v] = c
        BY <1>1, <1>3, <3>1, <4>1, QueueFacts DEF IInv, Queued, Contains
      <4>2. CASE ClassOf[v] # c
        BY <1>3, <3>1, <4>2 DEF Queued, Contains
      <4>3. QED
        BY <4>1, <4>2
    <3>3. QED
      BY <1>1, <1>2, <3>1, <3>2 DEF IInv, Shape, TokenComing
  <2>3. QED
    BY <2>1, <2>2
<1>10. SlotsCounted' /\ NoneIdle'
  BY <1>1, <1>2 DEF IInv, SlotsCounted, NoneIdle
<1>11. RestUnborn'
  BY <1>1, RestKept DEF IInv
<1>12. QED
  BY <1>6, <1>7, <1>8, <1>9, <1>10, <1>11 DEF IInv, Shape

(* A free slot is taken.                                                   *)
LEMMA TakeKeeps ==
  ASSUME IInv, NEW u \in Units, Acquire(u), free > 0
  PROVE  IInv'
<1>1. /\ pc[u] = "acquire" /\ "running" \in PcLabels /\ free' = free - 1
      /\ Goto(u, "running") /\ ran' = ran \cup {u}
      /\ UNCHANGED <<queue, chan, target, next, stopped>>
  BY DEF Acquire, PcLabels
<1>2. /\ pc' \in [Units -> PcLabels] /\ pc'[u] = "running"
      /\ \A v \in Units \ {u} : pc'[v] = pc[v]
      /\ Holding' = Holding \cup {u} /\ u \notin Holding
      /\ Sending' = Sending /\ Awaiting' = Awaiting
  BY <1>1, GotoSets DEF IInv, Holding, Sending, Awaiting
<1>3. TypeOK'
  BY <1>1, <1>2, SlotPoolAssumption DEF IInv, TypeOK
<1>4. QueuesOK'
  BY <1>1, <1>2, QueueFacts DEF IInv, Shape, QueuesOK
<1>5. TokensOK' /\ TokenComing'
  BY <1>1, <1>2 DEF IInv, Shape, TokensOK, TokenComing, Queued
<1>6. SlotsCounted'
  <2>1. /\ IsFiniteSet(Holding') /\ Cardinality(Holding') = Cardinality(Holding) + 1
        /\ Cardinality(Holding) \in Nat /\ Cardinality(chan) \in Nat
        /\ Cardinality(Sending) \in Nat
    BY <1>2, OneMore, FS_CardinalityType DEF IInv, SlotsCounted
  <2>2. QED
    BY <1>1, <1>2, <2>1, SlotPoolAssumption DEF IInv, SlotsCounted, TypeOK
<1>7. NoneIdle'
  BY <1>1 DEF IInv, TypeOK, NoneIdle, NobodyWaits
<1>8. RestUnborn'
  BY <1>1, RestKept DEF IInv
<1>9. QED
  BY <1>3, <1>4, <1>5, <1>6, <1>7, <1>8 DEF IInv, Shape

(* A waiter takes the token from its channel, to run or to release it.     *)
LEMMA ReceiveKeeps ==
  ASSUME IInv, NEW u \in Units, Receive(u) \/ ReceiveOwed(u)
  PROVE  IInv'
<1>1. PICK l \in {"running", "returning"} :
        /\ Goto(u, l) /\ pc[u] \in {"waiting", "owed"} /\ u \in chan
        /\ chan' = chan \ {u} /\ ran' \subseteq Units
        /\ UNCHANGED <<free, queue, target, next, stopped>>
  BY DEF IInv, TypeOK, Receive, ReceiveOwed
<1>2. /\ l \in PcLabels
      /\ pc' \in [Units -> PcLabels] /\ pc'[u] = l
      /\ \A v \in Units \ {u} : pc'[v] = pc[v]
      /\ Holding' = Holding \cup {u} /\ u \notin Holding
      /\ Sending' = Sending /\ Awaiting' = Awaiting \ {u}
  BY <1>1, GotoSets DEF IInv, Holding, Sending, PcLabels
<1>3. TypeOK'
  BY <1>1, <1>2 DEF IInv, TypeOK
<1>4. QueuesOK'
  BY <1>1, <1>2, QueueFacts DEF IInv, Shape, QueuesOK
<1>5. TokensOK' /\ TokenComing'
  BY <1>1, <1>2 DEF IInv, Shape, TokensOK, TokenComing, Queued
<1>6. SlotsCounted'
  <2>1. /\ IsFiniteSet(Holding') /\ Cardinality(Holding') = Cardinality(Holding) + 1
        /\ IsFiniteSet(chan') /\ Cardinality(chan') = Cardinality(chan) - 1
        /\ Cardinality(Holding) \in Nat /\ Cardinality(chan) \in Nat
        /\ Cardinality(Sending) \in Nat
    BY <1>1, <1>2, OneMore, OneFewer, FS_CardinalityType DEF IInv, SlotsCounted
  <2>2. QED
    BY <1>1, <1>2, <2>1, SlotPoolAssumption DEF IInv, SlotsCounted, TypeOK
<1>7. NoneIdle'
  BY <1>1 DEF IInv, NoneIdle, NobodyWaits
<1>8. RestUnborn'
  BY <1>1, <1>2, RestKept DEF IInv
<1>9. QED
  BY <1>3, <1>4, <1>5, <1>6, <1>7, <1>8 DEF IInv, Shape

(* A waiter hears of the cancelled context; its token may be there already.*)
LEMMA CtxDoneKeeps ==
  ASSUME IInv, NEW u \in Units, CtxDone(u)
  PROVE  IInv'
<1>1. /\ pc[u] = "waiting" /\ "cancelled" \in PcLabels /\ Goto(u, "cancelled")
      /\ UNCHANGED <<free, queue, chan, target, next, stopped, ran>>
  BY DEF CtxDone, PcLabels
<1>2. /\ pc' \in [Units -> PcLabels] /\ pc'[u] = "cancelled"
      /\ \A v \in Units \ {u} : pc'[v] = pc[v]
      /\ Holding' = Holding /\ Sending' = Sending /\ Awaiting' = Awaiting
  BY <1>1, GotoSets DEF IInv, Holding, Sending, Awaiting
<1>3. TypeOK'
  BY <1>1, <1>2 DEF IInv, TypeOK
<1>4. QueuesOK'
  BY <1>1, <1>2, QueueFacts DEF IInv, Shape, QueuesOK
<1>5. TokensOK' /\ TokenComing'
  BY <1>1, <1>2 DEF IInv, Shape, TokensOK, TokenComing, Queued
<1>6. SlotsCounted' /\ NoneIdle'
  BY <1>1, <1>2 DEF IInv, SlotsCounted, NoneIdle, NobodyWaits
<1>7. RestUnborn'
  BY <1>1, RestKept DEF IInv
<1>8. QED
  BY <1>3, <1>4, <1>5, <1>6, <1>7 DEF IInv, Shape

(* A cancelled waiter that is in its queue no more waits for its token.    *)
LEMMA OwedKeeps ==
  ASSUME IInv, NEW u \in Units, RemoveSelf(u), ~Queued(u)
  PROVE  IInv'
<1>1. /\ pc[u] = "cancelled" /\ "owed" \in PcLabels /\ Goto(u, "owed")
      /\ UNCHANGED <<free, chan, target, next, stopped, ran>>
  BY DEF RemoveSelf, Queued, AfterDequeued, PcLabels
<1>2. UNCHANGED queue
  <2>1. RemoveFirst(queue[ClassOf[u]], u) = queue[ClassOf[u]]
    BY DEF Queued, Contains, RemoveFirst
  <2>2. QED
    BY <2>1, SlotPoolAssumption DEF RemoveSelf, IInv, TypeOK
<1>3. /\ pc' \in [Units -> PcLabels] /\ pc'[u] = "owed"
      /\ \A v \in Units \ {u} : pc'[v] = pc[v]
      /\ Holding' = Holding /\ Sending' = Sending /\ Awaiting' = Awaiting
  BY <1>1, GotoSets DEF IInv, Holding, Sending, Awaiting
<1>4. TypeOK'
  BY <1>1, <1>2, <1>3 DEF IInv, TypeOK
<1>5. \A c \in Classes : \A i \in 1..Len(queue[c]) : queue[c][i] # u
  BY DEF IInv, Shape, QueuesOK, Queued, Contains
<1>6. QueuesOK'
  BY <1>1, <1>2, <1>3, <1>5, QueueFacts DEF IInv, Shape, QueuesOK
<1>7. TokensOK' /\ TokenComing'
  BY <1>1, <1>2, <1>3 DEF IInv, Shape, TokensOK, TokenComing, Queued
<1>8. SlotsCounted' /\ NoneIdle'
  BY <1>1, <1>2, <1>3 DEF IInv, SlotsCounted, NoneIdle, NobodyWaits
<1>9. RestUnborn'
  BY <1>1, RestKept DEF IInv
<1>10. QED
  BY <1>4, <1>6, <1>7, <1>8, <1>9 DEF IInv, Shape

(* A queue loses the waiter at place i and nobody else.                    *)
LosesAt(c, i) ==
  LET q == queue'[c] IN
  /\ queue' = [queue EXCEPT ![c] = q]
  /\ q \in Seq(Units) /\ Len(q) = Len(queue[c]) - 1
  /\ \A j \in 1..Len(q) : q[j] = IF j < i THEN queue[c][j] ELSE queue[c][j + 1]

(* What it leaves in the queues was there before, each waiter once.        *)
LEMMA WithoutQueues ==
  ASSUME IInv, NEW c \in Classes, NEW i \in 1..Len(queue[c]), LosesAt(c, i),
         NEW u \in Units, queue[c][i] = u
  PROVE  /\ queue' \in [Classes -> Seq(Units)]
         /\ \A d \in Classes : \A j \in 1..Len(queue'[d]) :
              /\ queue'[d][j] # u /\ queue'[d][j] \in Units
              /\ \E k \in 1..Len(queue[d]) : queue'[d][j] = queue[d][k]
              /\ \A k \in 1..Len(queue'[d]) : queue'[d][k] = queue'[d][j] => k = j
         /\ \A v \in Units \ {u} : Queued(v) => Queued(v)'
<1> DEFINE q == queue'[c]
<1>1. /\ queue' \in [Classes -> Seq(Units)]
      /\ q \in Seq(Units) /\ Len(q) = Len(queue[c]) - 1
      /\ \A j \in 1..Len(q) : q[j] = IF j < i THEN queue[c][j] ELSE queue[c][j + 1]
  BY DEF IInv, TypeOK, LosesAt
<1>2. \A d \in Classes \ {c} : queue'[d] = queue[d]
  BY DEF IInv, TypeOK, LosesAt
<1> HIDE DEF q
<1>3. /\ Len(queue[c]) \in Nat
      /\ \A j \in 1..Len(queue[c]) : queue[c][j] = queue[c][i] => j = i
      /\ \A j, k \in 1..Len(queue[c]) : queue[c][j] = queue[c][k] => j = k
      /\ \A d \in Classes : \A j \in 1..Len(queue[d]) : queue[d][j] \in Units
  BY QueueFacts DEF IInv, Shape, QueuesOK
<1>4. ASSUME NEW d \in Classes, NEW j \in 1..Len(queue'[d])
      PROVE  /\ queue'[d][j] # u /\ queue'[d][j] \in Units
             /\ \E k \in 1..Len(queue[d]) : queue'[d][j] = queue[d][k]
             /\ \A k \in 1..Len(queue'[d]) : queue'[d][k] = queue'[d][j] => k = j
  <2>1. CASE d = c
    <3> DEFINE At(n) == IF n < i THEN n ELSE n + 1
    <3>1. \A n \in 1..Len(q) : At(n) \in 1..Len(queue[c]) /\ At(n) # i /\ q[n] = queue[c][At(n)]
      BY <1>1, <1>3
    <3>2. \A n, m \in 1..Len(q) : At(n) = At(m) => n = m
      BY <1>1, <1>3
    <3> HIDE DEF At
    <3>3. QED
      BY <1>3, <2>1, <3>1, <3>2 DEF q
  <2>2. CASE d # c
    <3>1. queue'[d] = queue[d]
      BY <1>2, <2>2
    <3>2. ClassOf[queue[d][j]] = d /\ ClassOf[u] = c
      BY <3>1 DEF IInv, Shape, QueuesOK
    <3>3. QED
      BY <1>3, <2>2, <3>1, <3>2 DEF IInv, Shape, QueuesOK
  <2>3. QED
    BY <2>1, <2>2
<1>5. ASSUME NEW v \in Units \ {u}, Queued(v)
      PROVE  Queued(v)'
  <2>1. CASE ClassOf[v] = c
    <3>1. PICK j \in 1..Len(queue[c]) : queue[c][j] = v
      BY <1>5, <2>1 DEF Queued, Contains
    <3>2. CASE j < i
      <4>1. j \in 1..Len(q) /\ q[j] = v
        BY <1>1, <1>3, <3>1, <3>2
      <4>2. QED
        BY <2>1, <4>1 DEF Queued, Contains, q
    <3>3. CASE j > i
      <4>1. j - 1 \in 1..Len(q) /\ ~(j - 1 < i) /\ (j - 1) + 1 = j
        BY <1>1, <1>3, <3>3
      <4>2. q[j - 1] = v
        BY <1>1, <3>1, <4>1
      <4>3. QED
        BY <2>1, <4>1, <4>2 DEF Queued, Contains, q
    <3>4. QED
      BY <1>3, <3>1, <3>2, <3>3
  <2>2. CASE ClassOf[v] # c
    BY <1>2, <1>5, <2>2, SlotPoolAssumption DEF Queued, Contains
  <2>3. QED
    BY <2>1, <2>2
<1>6. QED
  BY <1>1, <1>4, <1>5

(* A cancelled waiter leaves its queue and gives up.                       *)
LEMMA LeaveKeeps ==
  ASSUME IInv, NEW u \in Units, RemoveSelf(u), Queued(u)
  PROVE  IInv'
<1> DEFINE c == ClassOf[u]
<1>1. /\ c \in Classes /\ pc[u] = "cancelled" /\ "done" \in PcLabels /\ Goto(u, "done")
      /\ queue' = [queue EXCEPT ![c] = RemoveFirst(@, u)]
      /\ UNCHANGED <<free, chan, target, next, stopped, ran>>
  BY SlotPoolAssumption DEF RemoveSelf, Queued, AfterRemoved, PcLabels
<1>2. PICK i \in 1..Len(queue[c]) : queue[c][i] = u
  BY DEF Queued, Contains
<1>3. LosesAt(c, i)
  <2>1. \A j \in 1..Len(queue[c]) : queue[c][j] = queue[c][i] => j = i
    BY <1>1 DEF IInv, Shape, QueuesOK
  <2>2. queue[c] \in Seq(Units)
    BY <1>1, QueueFacts DEF IInv
  <2> DEFINE q == RemoveFirst(queue[c], queue[c][i])
  <2>3. /\ q \in Seq(Units) /\ Len(q) = Len(queue[c]) - 1
        /\ \A j \in 1..(Len(queue[c]) - 1) :
             q[j] = IF j < i THEN queue[c][j] ELSE queue[c][j + 1]
    BY <2>1, <2>2, RemoveFirstProperties
  <2> HIDE DEF q
  <2>4. queue' = [queue EXCEPT ![c] = q] /\ queue'[c] = q
    BY <1>1, <1>2 DEF IInv, TypeOK, q
  <2>5. QED
    BY <2>3, <2>4 DEF LosesAt
<1>5. u \notin chan /\ \A v \in Sending : target[v] # u
  BY <1>1, <1>2 DEF IInv, Shape, QueuesOK
<1> HIDE DEF c
<1>6. /\ queue' \in [Classes -> Seq(Units)]
      /\ \A d \in Classes : \A j \in 1..Len(queue'[d]) :
           /\ queue'[d][j] # u /\ queue'[d][j] \in Units
           /\ \E k \in 1..Len(queue[d]) : queue'[d][j] = queue[d][k]
           /\ \A k \in 1..Len(queue'[d]) : queue'[d][k] = queue'[d][j] => k = j
      /\ \A v \in Units \ {u} : Queued(v) => Queued(v)'
  BY <1>1, <1>2, <1>3, WithoutQueues DEF Queued
<1>7. /\ pc' \in [Units -> PcLabels] /\ pc'[u] = "done"
      /\ \A v \in Units \ {u} : pc'[v] = pc[v]
      /\ Holding' = Holding /\ Sending' = Sending /\ Awaiting' = Awaiting \ {u}
  BY <1>1, GotoSets DEF IInv, Holding, Sending, Awaiting
<1>8. TypeOK'
  BY <1>1, <1>6, <1>7 DEF IInv, TypeOK
<1>9. QueuesOK'
  <2>1. \A d \in Classes : \A j \in 1..Len(queue'[d]) :
          /\ queue'[d][j] \in Units \ {u}
          /\ \E k \in 1..Len(queue[d]) : queue'[d][j] = queue[d][k]
    BY <1>6
  <2>2. ASSUME NEW d \in Classes, NEW j \in 1..Len(queue'[d])
        PROVE  /\ ClassOf[queue'[d][j]] = d
               /\ pc[queue'[d][j]] \in {"waiting", "cancelled"}
               /\ queue'[d][j] \notin chan
               /\ \A v \in Sending : target[v] # queue'[d][j]
    BY <2>1 DEF IInv, Shape, QueuesOK
  <2>3. ASSUME NEW d \in Classes, NEW j \in 1..Len(queue'[d])
        PROVE  /\ pc'[queue'[d][j]] \in {"waiting", "cancelled"}
               /\ \A v \in Sending' : target'[v] # queue'[d][j]
               /\ queue'[d][j] \notin chan'
    <3>1. pc'[queue'[d][j]] = pc[queue'[d][j]]
      BY <1>7, <2>1
    <3>2. QED
      BY <1>1, <1>7, <2>2, <3>1
  <2>4. QED
    BY <1>6, <2>2, <2>3 DEF QueuesOK
<1>10. TokensOK' /\ TokenComing'
  BY <1>1, <1>5, <1>6, <1>7 DEF IInv, Shape, TokensOK, TokenComing, Awaiting
<1>11. SlotsCounted'
  BY <1>1, <1>7 DEF IInv, SlotsCounted
<1>12. NoneIdle'
  BY <1>1, <1>2, EmptySeq DEF IInv, NoneIdle, NobodyWaits, TypeOK
<1>13. RestUnborn'
  BY <1>1, RestKept DEF IInv
<1>14. QED
  BY <1>8, <1>9, <1>10, <1>11, <1>12, <1>13 DEF IInv, Shape

(* A released slot goes to the head of the most urgent queue.              *)
LEMMA HandOverKeeps ==
  ASSUME IInv, NEW u \in Units, pc[u] \in {"running", "returning"},
         NEW c \in Classes, Urgent(c),
         target' = [target EXCEPT ![u] = Head(queue[c])],
         queue' = Dequeued(c), Goto(u, "sending"),
         UNCHANGED <<free, chan, next, stopped, ran>>
  PROVE  IInv'
<1> DEFINE h == queue[c][1]
<1>1. /\ queue[c] # <<>> /\ 1 \in 1..Len(queue[c]) /\ Len(queue[c]) \in Nat \ {0}
      /\ Head(queue[c]) = h /\ h \in Units
  BY QueueFacts, EmptySeq DEF IInv, Urgent
<1>2. LosesAt(c, 1)
  <2> DEFINE q == Tail(queue[c])
  <2>1. /\ q \in Seq(Units) /\ Len(q) = Len(queue[c]) - 1
        /\ \A j \in 1..Len(q) : q[j] = queue[c][j + 1]
    BY <1>1, QueueFacts, HeadTailProperties DEF IInv
  <2>2. queue' = [queue EXCEPT ![c] = q] /\ queue'[c] = q
    BY DEF Dequeued, IInv, TypeOK
  <2> HIDE DEF q
  <2>3. \A j \in 1..Len(q) : q[j] = IF j < 1 THEN queue[c][j] ELSE queue[c][j + 1]
    BY <2>1
  <2>4. QED
    BY <2>1, <2>2, <2>3 DEF LosesAt
<1>3. /\ queue' \in [Classes -> Seq(Units)]
      /\ \A d \in Classes : \A j \in 1..Len(queue'[d]) :
           /\ queue'[d][j] # h /\ queue'[d][j] \in Units
           /\ \E k \in 1..Len(queue[d]) : queue'[d][j] = queue[d][k]
           /\ \A k \in 1..Len(queue'[d]) : queue'[d][k] = queue'[d][j] => k = j
      /\ \A v \in Units \ {h} : Queued(v) => Queued(v)'
  BY <1>1, <1>2, WithoutQueues DEF Queued
<1>4. /\ pc[h] \in {"waiting", "cancelled"} /\ h \notin chan
      /\ \A v \in Sending : target[v] # h
  BY <1>1 DEF IInv, Shape, QueuesOK
<1> HIDE DEF h
<1>5. /\ pc' \in [Units -> PcLabels] /\ pc'[u] = "sending" /\ "sending" \in PcLabels
      /\ \A v \in Units \ {u} : pc'[v] = pc[v]
      /\ Holding' = Holding \ {u} /\ u \in Holding
      /\ Sending' = Sending \cup {u} /\ u \notin Sending /\ Awaiting' = Awaiting
  BY GotoSets DEF IInv, Holding, Sending, Awaiting, PcLabels
<1>6. /\ target' \in [Units -> Units] /\ target'[u] = h
      /\ \A v \in Units \ {u} : target'[v] = target[v]
  BY <1>1 DEF IInv, TypeOK
<1>7. TypeOK'
  BY <1>3, <1>5, <1>6 DEF IInv, TypeOK
<1>8. QueuesOK'
  <2>1. ASSUME NEW d \in Classes, NEW j \in 1..Len(queue'[d])
        PROVE  /\ ClassOf[queue'[d][j]] = d
               /\ pc[queue'[d][j]] \in {"waiting", "cancelled"}
               /\ queue'[d][j] \notin chan
               /\ \A v \in Sending : target[v] # queue'[d][j]
    BY <1>3 DEF IInv, Shape, QueuesOK
  <2>2. ASSUME NEW d \in Classes, NEW j \in 1..Len(queue'[d])
        PROVE  /\ pc'[queue'[d][j]] \in {"waiting", "cancelled"}
               /\ queue'[d][j] \notin chan'
               /\ \A v \in Sending' : target'[v] # queue'[d][j]
    <3>1. pc'[queue'[d][j]] = pc[queue'[d][j]]
      BY <1>3, <1>5, <2>1
    <3>2. \A v \in Sending : v \in Units \ {u}
      BY <1>5 DEF Sending
    <3>3. QED
      BY <1>3, <1>5, <1>6, <2>1, <3>1, <3>2
  <2>3. QED
    BY <1>3, <2>1, <2>2 DEF QueuesOK
<1>9. TokensOK'
  <2>1. \A v \in Sending : v \in Units \ {u} /\ target'[v] = target[v]
    BY <1>5, <1>6 DEF Sending
  <2>2. h \in Awaiting
    BY <1>1, <1>4 DEF Awaiting, h
  <2>3. QED
    BY <1>4, <1>5, <1>6, <2>1, <2>2 DEF IInv, Shape, TokensOK
<1>10. TokenComing'
  <2>1. \A v \in Sending : target'[v] = target[v]
    BY <1>5, <1>6 DEF Sending
  <2>2. Awaiting \subseteq Units
    BY DEF Awaiting
  <2>3. ASSUME NEW v \in Awaiting
        PROVE  v \in chan \/ Queued(v)' \/ \E w \in Sending' : target'[w] = v
    BY <1>3, <1>5, <1>6, <2>1, <2>2 DEF IInv, Shape, TokenComing
  <2>4. QED
    BY <1>5, <2>3 DEF TokenComing
<1>11. SlotsCounted'
  <2>1. /\ IsFiniteSet(Holding') /\ Cardinality(Holding') = Cardinality(Holding) - 1
        /\ IsFiniteSet(Sending') /\ Cardinality(Sending') = Cardinality(Sending) + 1
        /\ Cardinality(Holding) \in Nat /\ Cardinality(chan) \in Nat
        /\ Cardinality(Sending) \in Nat
    BY <1>5, OneMore, OneFewer, FS_CardinalityType DEF IInv, SlotsCounted
  <2>2. QED
    BY <2>1, SlotPoolAssumption DEF IInv, SlotsCounted, TypeOK
<1>12. NoneIdle'
  BY <1>1 DEF IInv, NoneIdle, NobodyWaits
<1>13. RestUnborn'
  BY <1>5, RestKept DEF IInv
<1>14. QED
  BY <1>7, <1>8, <1>9, <1>10, <1>11, <1>12, <1>13 DEF IInv, Shape

(* With nobody waiting it becomes free.                                    *)
LEMMA FreeKeeps ==
  ASSUME IInv, NEW u \in Units, pc[u] \in {"running", "returning"}, NobodyWaits,
         free' = free + 1, Goto(u, "done"),
         UNCHANGED <<queue, target, chan, next, stopped, ran>>
  PROVE  IInv'
<1>1. /\ pc' \in [Units -> PcLabels] /\ pc'[u] = "done" /\ "done" \in PcLabels
      /\ \A v \in Units \ {u} : pc'[v] = pc[v]
      /\ Holding' = Holding \ {u} /\ u \in Holding
      /\ Sending' = Sending /\ Awaiting' = Awaiting
  BY GotoSets DEF IInv, Holding, Sending, Awaiting, PcLabels
<1>2. SlotsCounted'
  <2>1. /\ IsFiniteSet(Holding') /\ Cardinality(Holding') = Cardinality(Holding) - 1
        /\ Cardinality(Holding) \in Nat /\ Cardinality(chan) \in Nat
        /\ Cardinality(Sending) \in Nat
    BY <1>1, OneFewer, FS_CardinalityType DEF IInv, SlotsCounted
  <2>2. QED
    BY <1>1, <2>1, SlotPoolAssumption DEF IInv, SlotsCounted, TypeOK
<1>3. TypeOK'
  <2>1. free' \in 0..Size
    <3>1. /\ Cardinality(Holding') \in Nat /\ Cardinality(chan') \in Nat
          /\ Cardinality(Sending') \in Nat
      BY <1>2, FS_CardinalityType DEF SlotsCounted
    <3>2. QED
      BY <1>2, <3>1, SlotPoolAssumption DEF IInv, TypeOK, SlotsCounted
  <2>2. QED
    BY <1>1, <2>1 DEF IInv, TypeOK
<1>4. QueuesOK'
  BY <1>1, QueueFacts DEF IInv, Shape, QueuesOK
<1>5. TokensOK' /\ TokenComing'
  BY <1>1 DEF IInv, Shape, TokensOK, TokenComing, Queued
<1>6. NoneIdle'
  BY DEF NoneIdle, NobodyWaits
<1>7. RestUnborn'
  BY <1>1, RestKept DEF IInv
<1>8. QED
  BY <1>2, <1>3, <1>4, <1>5, <1>6, <1>7 DEF IInv, Shape

(* The token leaves the releaser's hands for the channel.                  *)
LEMMA SendKeeps ==
  ASSUME IInv, NEW u \in Units, Send(u)
  PROVE  IInv'
<1>1. /\ pc[u] = "sending" /\ "done" \in PcLabels /\ Goto(u, "done")
      /\ chan' = chan \cup {target[u]} /\ target[u] \in Units
      /\ UNCHANGED <<free, queue, target, next, stopped, ran>>
  BY DEF IInv, TypeOK, Send, PcLabels
<1>2. /\ pc' \in [Units -> PcLabels] /\ pc'[u] = "done"
      /\ \A v \in Units \ {u} : pc'[v] = pc[v]
      /\ Holding' = Holding /\ Sending' = Sending \ {u} /\ u \in Sending
      /\ Awaiting' = Awaiting
  BY <1>1, GotoSets DEF IInv, Holding, Sending, Awaiting
<1>3. /\ target[u] \in Awaiting /\ target[u] \notin chan
      /\ \A v \in Sending \ {u} : target[v] # target[u]
  BY <1>2 DEF IInv, Shape, TokensOK
<1>4. TypeOK'
  BY <1>1, <1>2 DEF IInv, TypeOK
<1>5. QueuesOK'
  BY <1>1, <1>2, QueueFacts DEF IInv, Shape, QueuesOK
<1>6. TokensOK' /\ TokenComing'
  BY <1>1, <1>2, <1>3 DEF IInv, Shape, TokensOK, TokenComing, Queued
<1>7. SlotsCounted'
  <2>1. /\ IsFiniteSet(chan') /\ Cardinality(chan') = Cardinality(chan) + 1
        /\ IsFiniteSet(Sending') /\ Cardinality(Sending') = Cardinality(Sending) - 1
        /\ Cardinality(Holding) \in Nat /\ Cardinality(chan) \in Nat
        /\ Cardinality(Sending) \in Nat
    BY <1>1, <1>2, <1>3, OneMore, OneFewer, FS_CardinalityType DEF IInv, SlotsCounted
  <2>2. QED
    BY <1>1, <1>2, <2>1, SlotPoolAssumption DEF IInv, SlotsCounted, TypeOK
<1>8. NoneIdle'
  BY <1>1 DEF IInv, NoneIdle, NobodyWaits
<1>9. RestUnborn'
  BY <1>1, RestKept DEF IInv
<1>10. QED
  BY <1>4, <1>5, <1>6, <1>7, <1>8, <1>9 DEF IInv, Shape

LEMMA StutterKeeps == IInv /\ UNCHANGED vars => IInv'
BY DEF vars, IInv, TypeOK, Shape, QueuesOK, TokensOK, TokenComing, Queued, SlotsCounted,
       NoneIdle, NobodyWaits, RestUnborn, Holding, Sending, Awaiting

LEMMA UnitStepKeeps ==
  ASSUME IInv, NEW u \in Units, UnitStep(u)
  PROVE  IInv'
<1>1. CASE Acquire(u)
  BY <1>1, JoinKeeps, TakeKeeps
<1>2. CASE Receive(u) \/ ReceiveOwed(u)
  BY <1>2, ReceiveKeeps
<1>3. CASE CtxDone(u)
  BY <1>3, CtxDoneKeeps
<1>4. CASE RemoveSelf(u)
  BY <1>4, OwedKeeps, LeaveKeeps
<1>5. CASE Release(u)
  BY <1>5, HandOverKeeps, FreeKeeps DEF Release
<1>6. CASE Send(u)
  BY <1>6, SendKeeps
<1>7. QED
  BY <1>1, <1>2, <1>3, <1>4, <1>5, <1>6 DEF UnitStep

(* The invariant holds in every reachable state.                           *)
LEMMA IInvHolds == Spec => []IInv
<1>1. IInv /\ [Next]_vars => IInv'
  BY UnitStepKeeps, SpawnKeeps, StopKeeps, StutterKeeps DEF Next
<1>2. QED
  BY <1>1, InitIInv, PTL DEF Spec

-----------------------------------------------------------------------------
(* Theorems.                                                               *)

(* The pool's state is well typed: in particular there are never more free *)
(* slots than MaxParallel nor fewer than none (slotpool.go:66-146).        *)
THEOREM TypeCorrect == Spec => []TypeOK
<1>1. IInv => TypeOK
  BY DEF IInv
<1>2. QED
  BY <1>1, IInvHolds, PTL

(* No slot is lost or duplicated, for any number of goroutines and in any  *)
(* interleaving of releases and cancellations.                             *)
THEOREM NoSlotLost == Spec => []SlotConservation
<1>1. IInv => SlotConservation
  <2> SUFFICES ASSUME IInv PROVE SlotConservation
    OBVIOUS
  <2>1. chan \cap Awaiting = chan /\ {v \in Sending : target[v] \in Awaiting} = Sending
    BY DEF IInv, Shape, TokensOK
  <2>2. QED
    BY <2>1 DEF IInv, SlotsCounted, SlotConservation
<1>2. QED
  BY <1>1, IInvHolds, PTL

(* Every goroutine that waits has exactly one hand-over coming, in its     *)
(* queue, in a releaser's hands or in its channel: a cancelled waiter that *)
(* is no more in its queue can block on the channel safely.                *)
THEOREM OneHandoffComing == Spec => []HandoffComing
<1>1. IInv => HandoffComing
  <2> SUFFICES ASSUME IInv, NEW u \in Awaiting
               PROVE  Cardinality({v \in Sending : target[v] = u})
                        + (IF u \in chan THEN 1 ELSE 0)
                        + (IF Queued(u) THEN 1 ELSE 0) = 1
    BY DEF HandoffComing, Queued
  <2> DEFINE senders == {v \in Sending : target[v] = u}
  <2>1. senders # {} => u \notin chan /\ \E v : senders = {v}
    BY DEF IInv, Shape, TokensOK
  <2>2. Cardinality(senders) = IF senders = {} THEN 0 ELSE 1
    <3>1. CASE senders = {}
      BY <3>1, FS_EmptySet
    <3>2. CASE senders # {}
      <4>1. PICK v : senders = {v}
        BY <2>1, <3>2
      <4>2. Cardinality({v}) = 1
        BY FS_Singleton
      <4>3. QED
        BY <3>2, <4>1, <4>2
    <3>3. QED
      BY <3>1, <3>2
  <2>3. Queued(u) => u \notin chan /\ senders = {}
    BY SlotPoolAssumption DEF IInv, Shape, QueuesOK, Queued, Contains, Awaiting
  <2>4. u \in chan \/ Queued(u) \/ senders # {}
    BY DEF IInv, Shape, TokenComing
  <2>5. QED
    BY <2>1, <2>2, <2>3, <2>4
<1>2. QED
  BY <1>1, IInvHolds, PTL

-----------------------------------------------------------------------------
(* The refinement: a slot belongs to a waiter from the moment a releaser   *)
(* has dequeued it.                                                        *)

Owners == Holding \cup chan \cup Awarded

(* The mapping, with the owners named.                                     *)
LEMMA MappedActions ==
  /\ Semaphore!SemaphoreInit <=> free = Size /\ Owners = {} /\ queue = [c \in Classes |-> <<>>]
  /\ UNCHANGED Semaphore!semaphoreVars <=> UNCHANGED <<free, Owners, queue>>
  /\ \A u \in Units :
       /\ Semaphore!Grab(u) <=>
            /\ free > 0 /\ NobodyWaits /\ u \notin Owners
            /\ free' = free - 1 /\ Owners' = Owners \cup {u} /\ UNCHANGED queue
       /\ Semaphore!Queue(u) <=>
            /\ free = 0 /\ u \notin Owners
            /\ queue' = [queue EXCEPT ![ClassOf[u]] = Append(@, u)]
            /\ UNCHANGED <<free, Owners>>
       /\ Semaphore!GiveUp(u) <=>
            /\ Queued(u) /\ queue' = [queue EXCEPT ![ClassOf[u]] = RemoveFirst(@, u)]
            /\ UNCHANGED <<free, Owners>>
       /\ Semaphore!HandOver(u) <=>
            /\ u \in Owners
            /\ \E c \in Classes :
                 /\ Urgent(c) /\ Owners' = (Owners \ {u}) \cup {Head(queue[c])}
                 /\ queue' = Dequeued(c)
            /\ UNCHANGED free
       /\ Semaphore!PutBack(u) <=>
            /\ u \in Owners /\ NobodyWaits /\ Owners' = Owners \ {u} /\ free' = free + 1
            /\ UNCHANGED queue
<1> USE DEF Owners, Awarded
<1>1. Semaphore!SemaphoreInit <=> free = Size /\ Owners = {} /\ queue = [c \in Classes |-> <<>>]
  BY DEF Semaphore!SemaphoreInit
<1>2. UNCHANGED Semaphore!semaphoreVars <=> UNCHANGED <<free, Owners, queue>>
  BY DEF Semaphore!semaphoreVars
<1>3. ASSUME NEW u \in Units
      PROVE  Semaphore!Grab(u) <=>
               /\ free > 0 /\ NobodyWaits /\ u \notin Owners
               /\ free' = free - 1 /\ Owners' = Owners \cup {u} /\ UNCHANGED queue
  BY DEF Semaphore!Grab, NobodyWaits, Semaphore!NobodyWaits
<1>4. ASSUME NEW u \in Units
      PROVE  Semaphore!Queue(u) <=>
               /\ free = 0 /\ u \notin Owners
               /\ queue' = [queue EXCEPT ![ClassOf[u]] = Append(@, u)]
               /\ UNCHANGED <<free, Owners>>
  BY DEF Semaphore!Queue
<1>5. ASSUME NEW u \in Units
      PROVE  Semaphore!GiveUp(u) <=>
               /\ Queued(u) /\ queue' = [queue EXCEPT ![ClassOf[u]] = RemoveFirst(@, u)]
               /\ UNCHANGED <<free, Owners>>
  BY DEF Semaphore!GiveUp, Queued, Contains, Semaphore!Contains, RemoveFirst, Semaphore!RemoveFirst,
         RemoveAt, Semaphore!RemoveAt, SelectInSeq, Semaphore!SelectInSeq, Min, Semaphore!Min
<1>6. ASSUME NEW u \in Units
      PROVE  Semaphore!HandOver(u) <=>
               /\ u \in Owners
               /\ \E c \in Classes :
                    /\ Urgent(c) /\ Owners' = (Owners \ {u}) \cup {Head(queue[c])}
                    /\ queue' = Dequeued(c)
               /\ UNCHANGED free
  BY DEF Semaphore!HandOver, Urgent, Dequeued, Semaphore!Foremost
<1>7. ASSUME NEW u \in Units
      PROVE  Semaphore!PutBack(u) <=>
               /\ u \in Owners /\ NobodyWaits /\ Owners' = Owners \ {u} /\ free' = free + 1
               /\ UNCHANGED queue
  BY DEF Semaphore!PutBack, NobodyWaits, Semaphore!NobodyWaits
<1>8. QED
  BY <1>1, <1>2, <1>3, <1>4, <1>5, <1>6, <1>7

(* The steps nobody else sees: fanout, a waiter's select, the send.        *)
LEMMA HiddenSteps ==
  ASSUME IInv,
         \/ \E g \in Groups : Spawn(g) \/ Stop(g)
         \/ \E u \in Units : Receive(u) \/ ReceiveOwed(u) \/ CtxDone(u) \/ Send(u)
         \/ \E u \in Units : RemoveSelf(u) /\ ~Queued(u)
         \/ UNCHANGED vars
  PROVE  UNCHANGED <<free, Owners, queue>>
<1>1. ASSUME NEW g \in Groups, Spawn(g)
      PROVE  UNCHANGED <<free, Owners, queue>>
  <2> DEFINE u == Batch[g][next[g] + 1]
  <2>1. /\ next[g] + 1 \in 1..Len(Batch[g]) /\ next'[g] = next[g] + 1
        /\ Goto(u, "acquire") /\ UNCHANGED <<free, queue, chan, target>>
    BY <1>1, BatchFacts DEF IInv, TypeOK, Spawn
  <2>2. u \in Units /\ pc[u] = "new" /\ "acquire" \in PcLabels
    BY <2>1, BatchFacts DEF IInv, RestUnborn, PcLabels
  <2> HIDE DEF u
  <2>3. Holding' = Holding /\ Sending' = Sending
    BY <2>1, <2>2, GotoSets DEF IInv, Holding, Sending
  <2>4. QED
    BY <2>1, <2>3 DEF Owners, Awarded
<1>2. ASSUME NEW g \in Groups, Stop(g)
      PROVE  UNCHANGED <<free, Owners, queue>>
  BY <1>2 DEF Stop, Owners, Awarded, Holding, Sending
<1>3. ASSUME NEW u \in Units, Receive(u) \/ ReceiveOwed(u)
      PROVE  UNCHANGED <<free, Owners, queue>>
  <2>1. PICK l \in {"running", "returning"} :
          /\ Goto(u, l) /\ pc[u] \in {"waiting", "owed"} /\ u \in chan
          /\ chan' = chan \ {u} /\ UNCHANGED <<free, queue, target>>
    BY <1>3 DEF Receive, ReceiveOwed
  <2>2. Holding' = Holding \cup {u} /\ Sending' = Sending
    BY <2>1, GotoSets DEF IInv, Sending, PcLabels
  <2>3. QED
    BY <2>1, <2>2 DEF Owners, Awarded
<1>4. ASSUME NEW u \in Units, CtxDone(u) \/ RemoveSelf(u), CtxDone(u) \/ ~Queued(u)
      PROVE  UNCHANGED <<free, Owners, queue>>
  <2>1. UNCHANGED queue
    <3>1. CASE CtxDone(u)
      BY <3>1 DEF CtxDone
    <3>2. CASE ~CtxDone(u)
      <4>1. RemoveFirst(queue[ClassOf[u]], u) = queue[ClassOf[u]]
        BY <1>4, <3>2 DEF Queued, Contains, RemoveFirst
      <4>2. QED
        BY <1>4, <3>2, <4>1, SlotPoolAssumption DEF RemoveSelf, IInv, TypeOK
    <3>3. QED
      BY <3>1, <3>2
  <2>2. PICK l \in {"cancelled", "owed"} :
          Goto(u, l) /\ pc[u] \in {"waiting", "cancelled"} /\ UNCHANGED <<free, chan, target>>
    BY <1>4 DEF CtxDone, RemoveSelf, Queued, AfterDequeued
  <2>3. Holding' = Holding /\ Sending' = Sending
    BY <2>2, GotoSets DEF IInv, Holding, Sending, PcLabels
  <2>4. QED
    BY <2>1, <2>2, <2>3 DEF Owners, Awarded
<1>5. ASSUME NEW u \in Units, Send(u)
      PROVE  UNCHANGED <<free, Owners, queue>>
  <2>1. /\ pc[u] = "sending" /\ Goto(u, "done") /\ chan' = chan \cup {target[u]}
        /\ UNCHANGED <<free, queue, target>>
    BY <1>5 DEF Send
  <2>2. Holding' = Holding /\ Sending' = Sending \ {u} /\ u \in Sending
    BY <2>1, GotoSets DEF IInv, Holding, Sending, PcLabels
  <2>3. chan' \cup Awarded' = chan \cup Awarded
    BY <2>1, <2>2 DEF Awarded
  <2>4. QED
    BY <2>1, <2>2, <2>3 DEF Owners
<1>6. CASE UNCHANGED vars
  BY <1>6 DEF vars, Owners, Awarded, Holding, Sending
<1>7. QED
  BY <1>1, <1>2, <1>3, <1>4, <1>5, <1>6

(* The steps that move a slot or a waiter.                                 *)
LEMMA SeenSteps ==
  ASSUME IInv, NEW u \in Units,
         Acquire(u) \/ (RemoveSelf(u) /\ Queued(u)) \/ Release(u)
  PROVE  Semaphore!SemaphoreNext
<1>1. CASE Acquire(u)
  <2>1. u \notin Owners
    BY <1>1 DEF Acquire, IInv, Shape, TokensOK, Owners, Awarded, Holding, Awaiting
  <2>2. CASE free > 0
    <3>1. Goto(u, "running") /\ UNCHANGED <<queue, chan, target>> /\ free' = free - 1
      BY <1>1, <2>2 DEF Acquire
    <3>2. Holding' = Holding \cup {u} /\ Sending' = Sending
      BY <1>1, <3>1, GotoSets DEF Acquire, IInv, Sending, PcLabels
    <3>3. Owners' = Owners \cup {u}
      BY <3>1, <3>2 DEF Owners, Awarded
    <3>4. Semaphore!Grab(u)
      BY <2>1, <2>2, <3>1, <3>3, MappedActions DEF IInv, NoneIdle
    <3>5. QED
      BY <3>4 DEF Semaphore!SemaphoreNext
  <2>3. CASE ~(free > 0)
    <3>1. /\ queue' = [queue EXCEPT ![ClassOf[u]] = Append(@, u)]
          /\ Goto(u, "waiting") /\ UNCHANGED <<free, chan, target>>
      BY <1>1, <2>3 DEF Acquire
    <3>2. Holding' = Holding /\ Sending' = Sending
      BY <1>1, <3>1, GotoSets DEF Acquire, IInv, Holding, Sending, PcLabels
    <3>3. UNCHANGED Owners /\ free = 0
      BY <2>3, <3>1, <3>2, SlotPoolAssumption DEF IInv, TypeOK, Owners, Awarded
    <3>4. Semaphore!Queue(u)
      BY <2>1, <3>1, <3>3, MappedActions
    <3>5. QED
      BY <3>4 DEF Semaphore!SemaphoreNext
  <2>4. QED
    BY <2>2, <2>3
<1>2. CASE RemoveSelf(u) /\ Queued(u)
  <2>1. /\ queue' = [queue EXCEPT ![ClassOf[u]] = RemoveFirst(@, u)]
        /\ pc[u] = "cancelled" /\ Goto(u, "done") /\ UNCHANGED <<free, chan, target>>
    BY <1>2 DEF RemoveSelf, Queued, AfterRemoved
  <2>2. Holding' = Holding /\ Sending' = Sending
    BY <2>1, GotoSets DEF IInv, Holding, Sending, PcLabels
  <2>3. UNCHANGED Owners
    BY <2>1, <2>2 DEF Owners, Awarded
  <2>4. Semaphore!GiveUp(u)
    BY <1>2, <2>1, <2>3, MappedActions
  <2>5. QED
    BY <2>4 DEF Semaphore!SemaphoreNext
<1>3. CASE Release(u)
  <2>1. /\ u \in Holding /\ u \notin Sending /\ u \notin Awaiting
        /\ UNCHANGED chan
    BY <1>3 DEF Release, Holding, Sending, Awaiting
  <2>2. u \in Owners /\ u \notin chan /\ u \notin Awarded
    BY <2>1 DEF IInv, Shape, TokensOK, Owners, Awarded
  <2>3. ASSUME NEW c \in Classes, Urgent(c), target' = [target EXCEPT ![u] = Head(queue[c])],
               queue' = Dequeued(c), Goto(u, "sending"), UNCHANGED free
        PROVE  Semaphore!HandOver(u)
    <3>1. Head(queue[c]) \in Units
      BY <2>3, QueueFacts, EmptySeq, HeadTailProperties DEF IInv, Urgent
    <3>2. Holding' = Holding \ {u} /\ Sending' = Sending \cup {u}
      BY <2>3, GotoSets DEF IInv, PcLabels
    <3>3. target'[u] = Head(queue[c]) /\ \A v \in Sending : target'[v] = target[v]
      BY <2>1, <2>3 DEF IInv, TypeOK, Sending
    <3>4. Awarded' = Awarded \cup {Head(queue[c])}
      BY <3>2, <3>3 DEF Awarded
    <3>5. Owners' = (Owners \ {u}) \cup {Head(queue[c])}
      BY <2>1, <2>2, <3>2, <3>4 DEF Owners
    <3>6. QED
      BY <2>2, <2>3, <3>5, MappedActions
  <2>4. ASSUME NobodyWaits, free' = free + 1, Goto(u, "done"), UNCHANGED <<queue, target>>
        PROVE  Semaphore!PutBack(u)
    <3>1. Holding' = Holding \ {u} /\ Sending' = Sending
      BY <2>1, <2>4, GotoSets DEF IInv, PcLabels
    <3>2. Owners' = Owners \ {u}
      BY <2>1, <2>2, <2>4, <3>1 DEF Owners, Awarded
    <3>3. QED
      BY <2>2, <2>4, <3>2, MappedActions
  <2>5. QED
    BY <1>3, <2>3, <2>4 DEF Release, Semaphore!SemaphoreNext
<1>4. QED
  BY <1>1, <1>2, <1>3

(* The pool implements the priority semaphore: a returned slot goes to the *)
(* longest waiter of the most urgent class, nobody overtakes a waiter, and *)
(* a waiter that gives up gives up its place and nothing else.             *)
THEOREM PoolIsASemaphore == Spec => ImplementsSemaphore
<1>1. Init => Semaphore!SemaphoreInit
  <2> SUFFICES ASSUME Init PROVE free = Size /\ Owners = {} /\ queue = [c \in Classes |-> <<>>]
    BY MappedActions
  <2>1. QED
    BY DEF Init, Owners, Awarded, Holding, Sending
<1>2. IInv /\ [Next]_vars => [Semaphore!SemaphoreNext]_(Semaphore!semaphoreVars)
  <2> SUFFICES ASSUME IInv, [Next]_vars
               PROVE  Semaphore!SemaphoreNext \/ UNCHANGED Semaphore!semaphoreVars
    OBVIOUS
  <2>1. ASSUME NEW u \in Units, UnitStep(u)
        PROVE  Semaphore!SemaphoreNext \/ UNCHANGED <<free, Owners, queue>>
    BY <2>1, HiddenSteps, SeenSteps DEF UnitStep
  <2>2. Semaphore!SemaphoreNext \/ UNCHANGED <<free, Owners, queue>>
    BY <2>1, HiddenSteps DEF Next
  <2>3. QED
    BY <2>2, MappedActions
<1>3. QED
  BY <1>1, <1>2, IInvHolds, PTL DEF Spec, ImplementsSemaphore, Semaphore!SemaphoreSpec

=============================================================================
