----------------------------- MODULE MCSlotPool -----------------------------
(* SlotPool for TLC: a verifier, a reproducer and a cartographer that      *)
(* admits its packages in order, competing for fewer slots than units.     *)
EXTENDS SlotPool

CONSTANTS v1, p1, p2, p3, r1

MCGroups  == {"verify", "cartograph", "repro"}
MCBatch   == [verify |-> <<v1>>, cartograph |-> <<p1, p2, p3>>, repro |-> <<r1>>]
MCClassOf == (v1 :> 1 @@ p1 :> 2 @@ p2 :> 2 @@ p3 :> 2 @@ r1 :> 3)

=============================================================================
