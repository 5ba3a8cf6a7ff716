--------------------------- MODULE ReproLifecycle ---------------------------
(***************************************************************************)
(* What the reproduction queue promises about one repro_attempts row,      *)
(* whoever drives it: a row is waiting, owned or settled; attempts are     *)
(* spent from a budget and may be refunded; only an owned row can be       *)
(* settled; a settled row comes back only with its whole budget.           *)
(***************************************************************************)
EXTENDS Integers

CONSTANTS Fingerprints, Budget

VARIABLES phase, spent

lifecycleVars == <<phase, spent>>

LifecycleInit ==
  /\ phase = [f \in Fingerprints |-> "unknown"]
  /\ spent = [f \in Fingerprints |-> 0]

Move(f, from, to, n) ==
  /\ phase[f] = from
  /\ phase' = [phase EXCEPT ![f] = to]
  /\ spent' = [spent EXCEPT ![f] = n]

Offer(f)  == Move(f, "unknown", "waiting", 0)
Lease(f)  == spent[f] < Budget /\ Move(f, "waiting", "owned", spent[f] + 1)
Refund(f) == spent[f] > 0 /\ Move(f, "owned", "waiting", spent[f] - 1)
Strike(f) == spent[f] < Budget /\ Move(f, "owned", "waiting", spent[f])
Settle(f) == Move(f, "owned", "settled", spent[f])
Reoffer(f) == Move(f, "settled", "waiting", 0)

LifecycleNext ==
  \E f \in Fingerprints :
    Offer(f) \/ Lease(f) \/ Refund(f) \/ Strike(f) \/ Settle(f) \/ Reoffer(f)

LifecycleSpec == LifecycleInit /\ [][LifecycleNext]_lifecycleVars

=============================================================================
