------------------------------ MODULE SlotPool ------------------------------
(***************************************************************************)
(* The funnel-wide agent concurrency bound (funnel/slotpool.go) and the    *)
(* fan-out scaffold over it (funnel/fanout.go): every finder unit,         *)
(* verifier panel, package summary and reproduction runs in its own        *)
(* goroutine inside one slot.                                              *)
(*                                                                         *)
(* A step is one critical section of p.mu, one channel operation or one    *)
(* choice of the waiter's select, so release's unlock-then-send window and *)
(* the cancelled waiter's lock-and-remove are visible.                     *)
(***************************************************************************)
EXTENDS Integers, Sequences, FiniteSets, SequencesExt

CONSTANTS
  Groups,     (* the fanouts, each with its own derived context            *)
  Batch,      (* Batch[g]: the units g spawns, in spawn order              *)
  ClassOf,    (* ClassOf[u]: 1 slotHigh, 2 slotLow, 3 slotIdle             *)
  Serial,     (* the fanouts that use spawnSerial                          *)
  Size        (* MaxParallel                                               *)

Classes == 1..3
BatchUnits(g) == ToSet(Batch[g])
Units == UNION {BatchUnits(g) : g \in Groups}

ASSUME SlotPoolAssumption ==
  /\ Size \in Nat \ {0}
  /\ Serial \subseteq Groups
  /\ ClassOf \in [Units -> Classes]
  /\ \A g \in Groups : Batch[g] \in Seq(BatchUnits(g)) /\ IsInjective(Batch[g])
  /\ \A g, h \in Groups : g # h => BatchUnits(g) \cap BatchUnits(h) = {}

VARIABLES
  free,       (* p.free                                                    *)
  queue,      (* p.waitHigh, p.waitLow, p.waitIdle                         *)
  chan,       (* the waiters whose channel holds a token                   *)
  pc,         (* where each unit's goroutine is                            *)
  target,     (* whom a releaser in its unlock-send window will send to    *)
  next,       (* how many units of its batch a fanout has spawned          *)
  stopped,    (* fanouts whose context is cancelled                        *)
  ran         (* the units whose acquire succeeded                         *)

vars == <<free, queue, chan, pc, target, next, stopped, ran>>

GroupOf(u) == CHOOSE g \in Groups : u \in BatchUnits(g)

PcLabels == {"new", "acquire", "waiting", "cancelled", "owed", "running",
             "returning", "sending", "done"}

TypeOK ==
  /\ free \in 0..Size
  /\ queue \in [Classes -> Seq(Units)]
  /\ chan \subseteq Units
  /\ pc \in [Units -> PcLabels]
  /\ target \in [Units -> Units]
  /\ next \in [Groups -> Nat]
  /\ stopped \subseteq Groups
  /\ ran \subseteq Units

Init ==
  /\ free = Size
  /\ queue = [c \in Classes |-> <<>>]
  /\ chan = {}
  /\ pc = [u \in Units |-> "new"]
  /\ target = [u \in Units |-> u]
  /\ next = [g \in Groups |-> 0]
  /\ stopped = {}
  /\ ran = {}

Goto(u, label) == pc' = [pc EXCEPT ![u] = label]

-----------------------------------------------------------------------------
(* fanout.                                                                 *)

(* spawnSerial returned true for u: its slot is held, or was.              *)
Admitted(u) == u \in ran

(* spawn starts the unit's goroutine; spawnSerial acquires in the caller's *)
(* goroutine, so it is reached only once the previous unit was admitted.   *)
Spawn(g) ==
  /\ next[g] < Len(Batch[g])
  /\ g \in Serial /\ next[g] > 0 => Admitted(Batch[g][next[g]])
  /\ next' = [next EXCEPT ![g] = @ + 1]
  /\ Goto(Batch[g][next'[g]], "acquire")
  /\ UNCHANGED <<free, queue, chan, target, stopped, ran>>

(* stop, wait's final cancel, or the caller's context.                     *)
Stop(g) ==
  /\ g \notin stopped
  /\ stopped' = stopped \cup {g}
  /\ UNCHANGED <<free, queue, chan, pc, target, next, ran>>

-----------------------------------------------------------------------------
(* slotPool.acquire.                                                       *)

(* The first critical section. A free slot is taken whatever the context.  *)
Acquire(u) ==
  /\ pc[u] = "acquire"
  /\ IF free > 0
     THEN /\ free' = free - 1
          /\ Goto(u, "running")
          /\ ran' = ran \cup {u}
          /\ UNCHANGED queue
     ELSE /\ queue' = [queue EXCEPT ![ClassOf[u]] = Append(@, u)]
          /\ Goto(u, "waiting")
          /\ UNCHANGED <<free, ran>>
  /\ UNCHANGED <<chan, target, next, stopped>>

(* select: case <-ch.                                                      *)
Receive(u) ==
  /\ pc[u] = "waiting" /\ u \in chan
  /\ chan' = chan \ {u}
  /\ Goto(u, "running")
  /\ ran' = ran \cup {u}
  /\ UNCHANGED <<free, queue, target, next, stopped>>

(* select: case <-ctx.Done(), chosen even when a token is ready.           *)
CtxDone(u) ==
  /\ pc[u] = "waiting" /\ GroupOf(u) \in stopped
  /\ Goto(u, "cancelled")
  /\ UNCHANGED <<free, queue, chan, target, next, stopped, ran>>

(* Mutants: a dequeued waiter returns at once; a removed one releases a    *)
(* slot it never got, or waits for a token nobody sends.                   *)
GivesUpSlot     == "done"
ReleasesNothing == "returning"
WaitsForever    == "owed"

(* Where a cancelled waiter goes when release had dequeued it already, and *)
(* when it had not.                                                        *)
AfterDequeued == "owed"
AfterRemoved  == "done"

(* removeFirst under the lock.                                             *)
RemoveSelf(u) ==
  /\ pc[u] = "cancelled"
  /\ queue' = [queue EXCEPT ![ClassOf[u]] = RemoveFirst(@, u)]
  /\ Goto(u, IF Contains(queue[ClassOf[u]], u) THEN AfterRemoved
                                               ELSE AfterDequeued)
  /\ UNCHANGED <<free, chan, target, next, stopped, ran>>

(* The handed-over slot arrives after all, to be released.                 *)
ReceiveOwed(u) ==
  /\ pc[u] = "owed" /\ u \in chan
  /\ chan' = chan \ {u}
  /\ Goto(u, "returning")
  /\ UNCHANGED <<free, queue, target, next, stopped, ran>>

-----------------------------------------------------------------------------
(* slotPool.release.                                                       *)

(* Mutants: idle waiters first; a served waiter left in its queue.         *)
LeastUrgent(c)    ==
  queue[c] # <<>> /\ \A d \in Classes : queue[d] # <<>> => d <= c
NotDequeued(c)    == queue

Urgent(c)   == queue[c] # <<>> /\ \A d \in Classes : queue[d] # <<>> => c <= d
NobodyWaits == \A c \in Classes : queue[c] = <<>>
Dequeued(c) == [queue EXCEPT ![c] = Tail(@)]

(* The critical section: dequeue a waiter or free the slot. The releaser   *)
(* is a unit that ended or a cancelled waiter that was handed a slot.      *)
Release(u) ==
  /\ pc[u] \in {"running", "returning"}
  /\ \/ \E c \in Classes :
          /\ Urgent(c)
          /\ target' = [target EXCEPT ![u] = Head(queue[c])]
          /\ queue' = Dequeued(c)
          /\ Goto(u, "sending")
          /\ UNCHANGED free
     \/ /\ NobodyWaits
        /\ free' = free + 1
        /\ Goto(u, "done")
        /\ UNCHANGED <<queue, target>>
  /\ UNCHANGED <<chan, next, stopped, ran>>

(* The send into the dequeued waiter's buffered channel.                   *)
Send(u) ==
  /\ pc[u] = "sending"
  /\ chan' = chan \cup {target[u]}
  /\ Goto(u, "done")
  /\ UNCHANGED <<free, queue, target, next, stopped, ran>>

-----------------------------------------------------------------------------

(* What a unit's goroutine does once spawned.                              *)
UnitStep(u) ==
  \/ Acquire(u) \/ Receive(u) \/ CtxDone(u) \/ RemoveSelf(u)
  \/ ReceiveOwed(u) \/ Release(u) \/ Send(u)

(* A fanout that has spawned what it will and joined its units is spent.   *)
Quiet == \A u \in Units : pc[u] \in {"new", "done"}
Next ==
  \/ \E u \in Units : UnitStep(u)
  \/ \E g \in Groups : Spawn(g) \/ Stop(g)
  \/ Quiet /\ UNCHANGED vars

Spec == Init /\ [][Next]_vars

(* Goroutines are scheduled, a ready select case is taken, and every unit's*)
(* body ends: agents run under turn, time and token limits.                *)
Fairness == \A u \in Units : WF_vars(UnitStep(u))

FairSpec == Spec /\ Fairness

-----------------------------------------------------------------------------
(* Properties.                                                             *)

Awaiting == {u \in Units : pc[u] \in {"waiting", "cancelled", "owed"}}
Holding == {u \in Units : pc[u] \in {"running", "returning"}}
Sending == {u \in Units : pc[u] = "sending"}

(* No slot is lost or duplicated, in any interleaving of releases and      *)
(* cancellations: a slot is free, held, or on its way to a goroutine that  *)
(* still takes it.                                                         *)
SlotConservation ==
  free + Cardinality(Holding) + Cardinality(chan \cap Awaiting)
  + Cardinality({v \in Sending : target[v] \in Awaiting}) = Size

(* A waiter is in its queue, or is about to be sent a token, or has it, and*)
(* only one of them: what lets a cancelled waiter that is not in its queue *)
(* block on the channel without a default branch.                          *)
HandoffComing ==
  \A u \in Awaiting :
    Cardinality({v \in Sending : target[v] = u})
      + (IF u \in chan THEN 1 ELSE 0)
      + (IF Contains(queue[ClassOf[u]], u) THEN 1 ELSE 0) = 1

(* The pool is a priority semaphore: a slot belongs to the waiter it is    *)
(* being handed to from the moment release dequeues it.                    *)
Semaphore == INSTANCE PrioritySemaphore
               WITH Users <- Units, avail <- free, line <- queue,
                    owners <- Holding \cup chan \cup {target[u] : u \in Sending}

ImplementsSemaphore == Semaphore!SemaphoreSpec

(* fanout.wait returns: every spawned unit runs or gives up, whatever is   *)
(* cancelled and however the wait raced with a hand-over.                  *)
UnitsJoin == \A u \in Units : pc[u] = "acquire" ~> pc[u] = "done"

=============================================================================
