--------------------------- MODULE ClusterRegistry ---------------------------
(***************************************************************************)
(* clusterRegistry (funnel/triage_streaming.go): the only state the triage *)
(* goroutine and the verifiers of cluster primaries share. One entry per   *)
(* primary fingerprint; every method runs under one mutex, so each is an   *)
(* operator from an entry to an entry. Lens and site lists are sets: each  *)
(* of their readers deduplicates.                                          *)
(***************************************************************************)

EntryStatus == {"none", "live", "persisted", "killed"}

Entry(lenses, sites) ==
  [status : EntryStatus,
   stagedLenses : SUBSET lenses, attachedLate : SUBSET lenses,
   stagedSites : SUBSET sites, lateSites : SUBSET sites]

NoEntry == [status |-> "none", stagedLenses |-> {}, attachedLate |-> {},
            stagedSites |-> {}, lateSites |-> {}]

Registered == [NoEntry EXCEPT !.status = "live"]

(* Neither staged nor killed: the caller must write the finding row itself. *)
CallerWrites(e) == e.status \in {"none", "persisted"}

ForgetsAttached(e, lens) ==                                     \* mutant
  IF e.status = "live" THEN [e EXCEPT !.stagedLenses = @ \cup {lens}] ELSE e
AddStagedLens(e, lens) ==
  CASE e.status = "live"      -> [e EXCEPT !.stagedLenses = @ \cup {lens}]
    [] e.status = "persisted" -> [e EXCEPT !.attachedLate = @ \cup {lens}]
    [] OTHER                  -> e

AddStagedSite(e, site) ==
  CASE e.status = "live"      -> [e EXCEPT !.stagedSites = @ \cup {site}]
    [] e.status = "persisted" -> [e EXCEPT !.lateSites = @ \cup {site}]
    [] OTHER                  -> e

DrainStagedLenses(e) == [e EXCEPT !.stagedLenses = {}]
DrainStagedSites(e)  == [e EXCEPT !.stagedSites = {}]
DrainLateSites(e)    == [e EXCEPT !.lateSites = {}]

StrandsLate(e) ==                                               \* mutant
  [e EXCEPT !.status = "persisted"]

(* What was staged after the drains becomes late: the lenses are returned  *)
(* to the caller, the sites wait for DrainLateSites.                       *)
SignalPersisted(e) ==
  [e EXCEPT !.status = "persisted",
            !.attachedLate = @ \cup e.stagedLenses, !.stagedLenses = {},
            !.lateSites = @ \cup e.stagedSites,     !.stagedSites = {}]

SignalKilled(e) ==
  [e EXCEPT !.status = "killed", !.stagedLenses = {}, !.stagedSites = {}]
=============================================================================
