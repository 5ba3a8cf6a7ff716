------------------------- MODULE PrioritySemaphore -------------------------
(***************************************************************************)
(* What the funnel's slot pool promises its callers: a counting semaphore  *)
(* that hands a returned slot over to the longest waiter of the most       *)
(* urgent class, never lets a newcomer overtake a waiter, and lets a       *)
(* waiter give up.                                                         *)
(***************************************************************************)
EXTENDS Integers, Sequences, SequencesExt

CONSTANTS Users, Classes, ClassOf, Size

VARIABLES
  avail,    (* slots nobody owns                                           *)
  owners,   (* users that own a slot                                       *)
  line      (* users waiting for one, per class                            *)

semaphoreVars == <<avail, owners, line>>

SemaphoreInit ==
  /\ avail = Size
  /\ owners = {}
  /\ line = [c \in Classes |-> <<>>]

NobodyWaits == \A c \in Classes : line[c] = <<>>

(* Class 1 is the most urgent.                                             *)
Foremost(c) == line[c] # <<>> /\ \A d \in Classes : line[d] # <<>> => c <= d

Grab(u) ==
  /\ avail > 0 /\ NobodyWaits /\ u \notin owners
  /\ avail' = avail - 1
  /\ owners' = owners \cup {u}
  /\ UNCHANGED line

Queue(u) ==
  /\ avail = 0 /\ u \notin owners
  /\ line' = [line EXCEPT ![ClassOf[u]] = Append(@, u)]
  /\ UNCHANGED <<avail, owners>>

GiveUp(u) ==
  /\ Contains(line[ClassOf[u]], u)
  /\ line' = [line EXCEPT ![ClassOf[u]] = RemoveFirst(@, u)]
  /\ UNCHANGED <<avail, owners>>

HandOver(u) ==
  /\ u \in owners
  /\ \E c \in Classes :
       /\ Foremost(c)
       /\ owners' = (owners \ {u}) \cup {Head(line[c])}
       /\ line' = [line EXCEPT ![c] = Tail(@)]
  /\ UNCHANGED avail

PutBack(u) ==
  /\ u \in owners /\ NobodyWaits
  /\ owners' = owners \ {u}
  /\ avail' = avail + 1
  /\ UNCHANGED line

SemaphoreNext ==
  \E u \in Users : Grab(u) \/ Queue(u) \/ GiveUp(u) \/ HandOver(u) \/ PutBack(u)

SemaphoreSpec == SemaphoreInit /\ [][SemaphoreNext]_semaphoreVars

=============================================================================
