------------------------- MODULE TriageVerify_proofs -------------------------
(***************************************************************************)
(* Theorems about TriageVerify, for any candidates, lenses, loci, kinds    *)
(* and relations of likeness, and any number of runs, crashes, faults and  *)
(* commands.                                                               *)
(***************************************************************************)
EXTENDS TriageVerify, FiniteSetTheorems, SequenceTheorems, TLAPS

Working   == tri.pc \notin {"idle", "dead"}
FoldPcs   == {"fold", "suppress", "reopen", "foldLens", "foldSite"}
StagePcs  == {"memberDrop", "site", "siteStore", "lens", "lensStore"}
TargetPcs == StagePcs \cup {"reopen", "foldLens", "foldSite"}

Rows == [status : {"absent", "open", "fixed", "dismissed"},
         cand : Cands \cup {NoCand}, tier : {2, 3},
         lenses : SUBSET Lenses, sites : SUBSET Cands]
Verifiers == [pc : VerifyPcs, item : Items \cup {NoItem}, tier : {2, 3},
              lenses : SUBSET Lenses, late : SUBSET Lenses, sites : SUBSET Cands]
Triages == [pc : TriagePcs, item : Items \cup {NoItem}, target : Fps \cup {NoFp}]

(* The parts of the type invariant that steps disturb together: the tables *)
(* and what a row names,                                                   *)
StoreOK ==
  /\ wal \in Seq(Cands) /\ finding \in [Fps -> Rows] /\ suppressed \subseteq Fps
  /\ \A f \in Fps : Stored(f) => finding[f].cand \in Cands
(* the run and the histories,                                              *)
RunOK ==
  /\ found \subseteq Cands /\ walled \subseteq Cands
  /\ phase \in {"idle", "scan", "reverify", "reported", "aborted"}
  /\ discovering \in BOOLEAN /\ errored \in BOOLEAN
  /\ heir \in [Cands -> Cands]
  /\ fate \in [Cands -> {"open", "dropped", "killed", "recorded"}]
  /\ result \in [Fps -> [lenses : SUBSET Lenses, sites : SUBSET Cands]]
  /\ runs \in 0..MaxRuns /\ crashes \in 0..MaxCrashes
  /\ faults \in 0..MaxFaults /\ commands \in 0..MaxCommands
(* triage, with an item while it works and a row where it needs one,       *)
TriageOK ==
  /\ candCh \in Seq(Items) /\ tri \in Triages
  /\ tri.pc = "idle" => tri.item = NoItem
  /\ Working => tri.item \in Items
  /\ tri.pc \in TargetPcs => tri.target \in Fps
  /\ seen \in [Fps -> Cands \cup {NoCand}]
  /\ member \subseteq [item : Items, cluster : Fps]
  /\ \A cl \in Clusters : seen[cl] # NoCand
  /\ tri.pc \in FoldPcs => seen[tri.item.fp] = tri.item.cand
(* and the verifiers, one for each registered primary.                     *)
VerOK ==
  /\ reg \in [Fps -> Entry(Lenses, Cands)] /\ ver \in [Fps -> Verifiers]
  /\ \A f \in Fps : reg[f].status = "none" <=> ver[f].pc = "none"
  /\ \A f \in Fps : ver[f].pc # "none" =>
       ver[f].item \in Items /\ ver[f].item.fp = f /\ seen[f] # NoCand

(* No candidate has two rows, and a run knows the candidates of all rows;  *)
WalOK ==
  /\ \A i, j \in 1..Len(wal) : wal[i] = wal[j] => i = j
  /\ Running => ToSet(wal) \subseteq found
(* a fold goes to a stored row; and between runs nobody works.             *)
FoldTargetOK == tri.pc \in {"reopen", "foldLens", "foldSite"} => Stored(tri.target)
QuietOK ==
  ~Running => tri.pc \in {"idle", "dead"} /\ \A f \in Fps : ver[f].pc \in {"none", "done"}

TypeInv ==
  StoreOK /\ RunOK /\ TriageOK /\ VerOK /\ WalOK /\ FoldTargetOK /\ QuietOK

LEMMA TypeInvGivesTypeOK == TypeInv => TypeOK
BY DEF TypeInv, TypeOK, StoreOK, RunOK, TriageOK, VerOK, Rows, Verifiers, Triages

-----------------------------------------------------------------------------
(* Candidates, fingerprints and items.                                     *)

LEMMA Constants ==
  /\ NoCand \notin Cands /\ NoItem \notin Items
  /\ NoKind \in Kinds /\ \A c \in Cands : Kind[c] \in Kinds /\ Lens[c] \in Lenses
  /\ \A c \in Cands, k \in Kinds : <<Locus[c], k>> \in Fps
<1>1. NoCand \notin Cands
  BY TriageVerifyAssumption
<1>2. NoItem \notin Items
  BY <1>1 DEF NoItem, Item, Items
<1>3. QED
  BY <1>1, <1>2 DEF Kinds, Lenses, Fps

LEMMA Bounds ==
  /\ MaxRuns \in Nat /\ MaxCrashes \in Nat /\ MaxFaults \in Nat /\ MaxCommands \in Nat
BY TriageVerifyAssumption

LEMMA NewItems ==
  /\ \A c \in Cands : Replayed(c) \in Items
  /\ \A c \in Cands, row \in BOOLEAN : Fresh(c, row) \in Items
<1>1. \A c \in Cands : Replayed(c) \in Items
  BY Constants DEF Replayed, Item, Items
<1>2. \A c \in Cands, row \in BOOLEAN : Fresh(c, row) \in Items
  BY Constants DEF Fresh, Item, Items
<1>3. QED
  BY <1>1, <1>2

LEMMA ReverifiedItems ==
  ASSUME StoreOK, NEW f \in Fps, Stored(f)
  PROVE  Reverified(f) \in Items
BY Constants DEF StoreOK, Rows, Reverified, Item, Items

LEMMA FiniteFps == IsFiniteSet(Fps)
<1> DEFINE loci  == {Locus[c] : c \in Cands}
           kinds == {Kind[c] : c \in Cands}
<1>1. IsFiniteSet(Cands)
  BY TriageVerifyAssumption
<1>2. IsFiniteSet(loci) /\ IsFiniteSet(kinds)
  <2>1. [c \in Cands |-> Locus[c]] \in Surjection(Cands, loci)
    BY DEF Surjection
  <2>2. [c \in Cands |-> Kind[c]] \in Surjection(Cands, kinds)
    BY DEF Surjection
  <2>3. QED
    BY <1>1, <2>1, <2>2, FS_Surjection
<1>3. IsFiniteSet(Kinds)
  BY <1>2, FS_AddElement DEF Kinds
<1>4. QED
  BY <1>2, <1>3, FS_Product DEF Fps

-----------------------------------------------------------------------------
(* The write-ahead log.                                                    *)

LEMMA SeqFacts ==
  ASSUME NEW S, NEW s \in Seq(S)
  PROVE  /\ Len(s) \in Nat /\ DOMAIN s = 1..Len(s) /\ \A i \in 1..Len(s) : s[i] \in S
         /\ ToSet(s) = {s[i] : i \in 1..Len(s)}
         /\ s # <<>> => /\ Len(s) >= 1 /\ Head(s) = s[1]
                        /\ Tail(s) \in Seq(S) /\ Len(Tail(s)) = Len(s) - 1
                        /\ \A i \in 1..(Len(s) - 1) : Tail(s)[i] = s[i + 1]
<1>1. Len(s) \in Nat /\ DOMAIN s = 1..Len(s) /\ \A i \in 1..Len(s) : s[i] \in S
  BY LenProperties, ElementOfSeq
<1>2. s # <<>> => Len(s) # 0
  BY EmptySeq
<1>3. s # <<>> => /\ Head(s) = s[1] /\ Tail(s) \in Seq(S) /\ Len(Tail(s)) = Len(s) - 1
                  /\ \A i \in 1..(Len(s) - 1) : Tail(s)[i] = s[i + 1]
  BY HeadTailProperties, <1>1
<1>4. QED
  BY <1>1, <1>2, <1>3 DEF ToSet

LEMMA AppendFacts ==
  ASSUME NEW S, NEW s \in Seq(S), NEW e \in S
  PROVE  /\ Append(s, e) \in Seq(S) /\ Len(Append(s, e)) = Len(s) + 1
         /\ Append(s, e)[Len(s) + 1] = e
         /\ \A i \in 1..Len(s) : Append(s, e)[i] = s[i]
         /\ ToSet(Append(s, e)) = ToSet(s) \cup {e}
<1> DEFINE a == Append(s, e)
<1>1. /\ a \in Seq(S) /\ Len(a) = Len(s) + 1 /\ a[Len(s) + 1] = e
      /\ \A i \in 1..Len(s) : a[i] = s[i]
  BY AppendProperties
<1> HIDE DEF a
<1>2. Len(s) \in Nat /\ ToSet(s) = {s[i] : i \in 1..Len(s)}
  BY SeqFacts
<1>3. ToSet(a) = {a[i] : i \in 1..(Len(s) + 1)}
  BY <1>1, SeqFacts
<1>4. 1..(Len(s) + 1) = 1..Len(s) \cup {Len(s) + 1}
  BY <1>2
<1>5. ToSet(a) = ToSet(s) \cup {e}
  BY <1>1, <1>2, <1>3, <1>4
<1>6. QED
  BY <1>1, <1>5 DEF a

(* A row that occurs once is deleted, and no other; the order stays.       *)
LEMMA RemoveFirstFacts ==
  ASSUME NEW S, NEW s \in Seq(S), NEW e,
         \A i, j \in 1..Len(s) : s[i] = s[j] => i = j
  PROVE  /\ RemoveFirst(s, e) \in Seq(S)
         /\ ToSet(RemoveFirst(s, e)) = ToSet(s) \ {e}
         /\ \A i, j \in 1..Len(RemoveFirst(s, e)) :
              RemoveFirst(s, e)[i] = RemoveFirst(s, e)[j] => i = j
<1> DEFINE r == RemoveFirst(s, e)
<1>1. Len(s) \in Nat /\ (\A i \in 1..Len(s) : s[i] \in S) /\ ToSet(s) = {s[i] : i \in 1..Len(s)}
  BY SeqFacts
<1>2. CASE \E k \in 1..Len(s) : s[k] = e
  <2>1. PICK k \in 1..Len(s) : s[k] = e
    BY <1>2
  <2> DEFINE hits == {i \in 1..Len(s) : s[i] = e}
             t == SubSeq(s, 1, k - 1)
             w == SubSeq(s, k + 1, Len(s))
  <2>2. hits = {k}
    BY <2>1
  <2>3. Min(hits) = k
    BY <1>1, <2>2 DEF Min
  <2>4. SelectInSeq(s, LAMBDA v : v = e) = k
    BY <2>2, <2>3 DEF SelectInSeq
  <2>5. r = t \o w
    BY <1>2, <2>4 DEF RemoveFirst, RemoveAt
  <2>6. /\ t \in Seq(S) /\ Len(t) = k - 1 /\ \A i \in 1..(k - 1) : t[i] = s[i]
    BY <1>1, SubSeqProperties
  <2>7. /\ w \in Seq(S) /\ Len(w) = Len(s) - k
        /\ \A i \in 1..(Len(s) - k) : w[i] = s[i + k]
    BY <1>1, SubSeqProperties
  <2> HIDE DEF t, w, r
  <2>8. /\ t \o w \in Seq(S) /\ Len(t \o w) = Len(t) + Len(w)
         /\ \A i \in 1..(Len(t) + Len(w)) :
              (t \o w)[i] = IF i <= Len(t) THEN t[i] ELSE w[i - Len(t)]
    <3>1. t \in Seq(S) /\ w \in Seq(S)
      BY <2>6, <2>7
    <3>2. QED
      BY <3>1, ConcatProperties
  <2>9. Len(t) + Len(w) = Len(s) - 1
    BY <1>1, <2>6, <2>7
  <2>10. /\ r \in Seq(S) /\ Len(r) = Len(s) - 1
        /\ \A i \in 1..(Len(t) + Len(w)) : r[i] = IF i <= Len(t) THEN t[i] ELSE w[i - Len(t)]
    BY <2>5, <2>8, <2>9
  <2>11. ASSUME NEW i \in 1..(Len(s) - 1)
        PROVE  r[i] = s[IF i < k THEN i ELSE i + 1]
    <3>1. i \in 1..(Len(t) + Len(w))
      BY <1>1, <2>6, <2>7
    <3>2. CASE i < k
      BY <1>1, <2>6, <2>10, <3>1, <3>2
    <3>3. CASE ~(i < k)
      <4>1. i - (k - 1) \in 1..(Len(s) - k) /\ (i - (k - 1)) + k = i + 1
        BY <1>1, <3>3
      <4>2. w[i - (k - 1)] = s[i + 1]
        BY <2>7, <4>1
      <4>3. r[i] = w[i - (k - 1)]
        BY <1>1, <2>6, <2>10, <3>1, <3>3
      <4>4. QED
        BY <3>3, <4>2, <4>3
    <3>4. QED
      BY <3>2, <3>3
  <2>12. \A i \in 1..(Len(s) - 1) : (IF i < k THEN i ELSE i + 1) \in 1..Len(s) \ {k}
    BY <1>1
  <2>13. \A i, j \in 1..Len(r) : r[i] = r[j] => i = j
    BY <1>1, <2>10, <2>11, <2>12
  <2>14. ToSet(r) = {r[i] : i \in 1..(Len(s) - 1)}
    BY <2>10, SeqFacts
  <2>15. ASSUME NEW i \in 1..Len(s) \ {k}
         PROVE  \E j \in 1..(Len(s) - 1) : r[j] = s[i]
    <3>1. CASE i < k
      <4>1. i \in 1..(Len(s) - 1) /\ r[i] = s[i]
        BY <1>1, <2>11, <3>1
      <4>2. QED
        BY <4>1
    <3>2. CASE i > k
      <4>1. i - 1 \in 1..(Len(s) - 1) /\ ~(i - 1 < k) /\ (i - 1) + 1 = i
        BY <1>1, <3>2
      <4>2. r[i - 1] = s[i]
        BY <2>11, <4>1
      <4>3. QED
        BY <4>1, <4>2
    <3>3. QED
      BY <1>1, <3>1, <3>2
  <2>16. ToSet(r) = ToSet(s) \ {e}
    <3>1. ToSet(r) \subseteq ToSet(s) \ {e}
      BY <1>1, <2>1, <2>11, <2>12, <2>14
    <3>2. ToSet(s) \ {e} \subseteq ToSet(r)
      BY <1>1, <2>1, <2>14, <2>15
    <3>3. QED
      BY <3>1, <3>2
  <2>17. QED
    BY <2>10, <2>13, <2>16 DEF r
<1>3. CASE ~ \E k \in 1..Len(s) : s[k] = e
  BY <1>1, <1>3 DEF RemoveFirst
<1>4. QED
  BY <1>2, <1>3

-----------------------------------------------------------------------------
(* Statements on rows.                                                     *)

(* What every statement leaves of the findings: typed rows, and no row     *)
(* that vanishes.                                                          *)
Table(new) ==
  /\ new \in [Fps -> Rows]
  /\ \A f \in Fps : /\ Stored(f) => new[f].status # "absent"
                    /\ new[f].status # "absent" => new[f].cand \in Cands

LEMMA SameTable == StoreOK => Table(finding)
BY DEF StoreOK, Table, Stored

LEMMA UpsertedTable ==
  ASSUME StoreOK, NEW f \in Fps, NEW c \in Cands, NEW tier \in {2, 3},
         NEW lenses \in SUBSET Lenses, NEW sites \in SUBSET Cands
  PROVE  /\ Table(Upserted(f, c, tier, lenses, sites))
         /\ \A g \in Fps \ {f} : Upserted(f, c, tier, lenses, sites)[g] = finding[g]
         /\ Upserted(f, c, tier, lenses, sites)[f].status =
              IF f \in suppressed THEN "dismissed" ELSE "open"
<1> DEFINE new == [status |-> IF f \in suppressed THEN "dismissed" ELSE "open",
                   cand   |-> c,
                   tier   |-> IF finding[f].status # "absent" /\ finding[f].tier < tier
                              THEN finding[f].tier ELSE tier,
                   lenses |-> lenses, sites |-> sites]
<1>1. Upserted(f, c, tier, lenses, sites) = [finding EXCEPT ![f] = new]
  BY DEF Upserted, StoreOK
<1>2. new \in Rows
  BY DEF StoreOK, Rows
<1>3. new.status # "absent" /\ new.cand = c
  OBVIOUS
<1>4. new.status = IF f \in suppressed THEN "dismissed" ELSE "open"
  OBVIOUS
<1> HIDE DEF new
<1>5. QED
  BY <1>1, <1>2, <1>3, <1>4 DEF StoreOK, Table, Stored

(* A statement that adds to a row leaves its status.                       *)
LEMMA WithLensesTable ==
  ASSUME StoreOK, NEW f \in Fps, NEW lenses \in SUBSET Lenses
  PROVE  Table(WithLenses(f, lenses))
         /\ \A g \in Fps : WithLenses(f, lenses)[g].status = finding[g].status
<1> DEFINE new == [finding[f] EXCEPT !.lenses = finding[f].lenses \cup lenses]
<1>1. new \in Rows /\ new.status = finding[f].status /\ new.cand = finding[f].cand
  BY DEF StoreOK, Rows
<1>2. WithLenses(f, lenses) = IF Stored(f) THEN [finding EXCEPT ![f] = new] ELSE finding
  BY DEF WithLenses, StoreOK
<1> HIDE DEF new
<1>3. QED
  BY <1>1, <1>2 DEF StoreOK, Table, Stored

LEMMA WithSitesTable ==
  ASSUME StoreOK, NEW f \in Fps, NEW sites \in SUBSET Cands
  PROVE  Table(WithSites(f, sites))
         /\ \A g \in Fps : WithSites(f, sites)[g].status = finding[g].status
<1> DEFINE new == [finding[f] EXCEPT !.sites = finding[f].sites \cup sites]
<1>1. new \in Rows /\ new.status = finding[f].status /\ new.cand = finding[f].cand
  BY DEF StoreOK, Rows
<1>2. WithSites(f, sites) = IF Stored(f) THEN [finding EXCEPT ![f] = new] ELSE finding
  BY DEF WithSites, StoreOK
<1> HIDE DEF new
<1>3. QED
  BY <1>1, <1>2 DEF StoreOK, Table, Stored

LEMMA WithStatusTable ==
  ASSUME StoreOK, NEW f \in Fps, NEW status \in {"open", "fixed", "dismissed"}
  PROVE  /\ Table(WithStatus(f, status))
         /\ \A g \in Fps \ {f} : WithStatus(f, status)[g] = finding[g]
         /\ WithStatus(f, status)[f].status = IF Stored(f) THEN status ELSE "absent"
<1> DEFINE new == [finding[f] EXCEPT !.status = status]
<1>1. new \in Rows /\ new.status = status /\ new.cand = finding[f].cand
  BY DEF StoreOK, Rows
<1>2. WithStatus(f, status) = IF Stored(f) THEN [finding EXCEPT ![f] = new] ELSE finding
  BY DEF WithStatus, StoreOK
<1> HIDE DEF new
<1>3. QED
  BY <1>1, <1>2 DEF StoreOK, Table, Stored

(* What a registry method returns.                                         *)
LEMMA RegistryTypes ==
  ASSUME NEW e \in Entry(Lenses, Cands)
  PROVE  /\ \A l \in Lenses : AddStagedLens(e, l) \in Entry(Lenses, Cands)
                              /\ AddStagedLens(e, l).status = e.status
         /\ \A c \in Cands : AddStagedSite(e, c) \in Entry(Lenses, Cands)
                             /\ AddStagedSite(e, c).status = e.status
         /\ DrainStagedLenses(e) \in Entry(Lenses, Cands) /\ DrainStagedLenses(e).status = e.status
         /\ DrainStagedSites(e) \in Entry(Lenses, Cands) /\ DrainStagedSites(e).status = e.status
         /\ DrainLateSites(e) \in Entry(Lenses, Cands) /\ DrainLateSites(e).status = e.status
         /\ SignalPersisted(e) \in Entry(Lenses, Cands) /\ SignalPersisted(e).status = "persisted"
         /\ SignalKilled(e) \in Entry(Lenses, Cands) /\ SignalKilled(e).status = "killed"
<1>1. \A l \in Lenses : AddStagedLens(e, l) \in Entry(Lenses, Cands)
                        /\ AddStagedLens(e, l).status = e.status
  BY DEF AddStagedLens, Entry, EntryStatus
<1>2. \A c \in Cands : AddStagedSite(e, c) \in Entry(Lenses, Cands)
                       /\ AddStagedSite(e, c).status = e.status
  BY DEF AddStagedSite, Entry, EntryStatus
<1>3. /\ DrainStagedLenses(e) \in Entry(Lenses, Cands) /\ DrainStagedLenses(e).status = e.status
      /\ DrainStagedSites(e) \in Entry(Lenses, Cands) /\ DrainStagedSites(e).status = e.status
      /\ DrainLateSites(e) \in Entry(Lenses, Cands) /\ DrainLateSites(e).status = e.status
  BY DEF DrainStagedLenses, DrainStagedSites, DrainLateSites, Entry, EntryStatus
<1>4. /\ SignalPersisted(e) \in Entry(Lenses, Cands) /\ SignalPersisted(e).status = "persisted"
      /\ SignalKilled(e) \in Entry(Lenses, Cands) /\ SignalKilled(e).status = "killed"
  BY DEF SignalPersisted, SignalKilled, Entry, EntryStatus
<1>5. QED
  BY <1>1, <1>2, <1>3, <1>4

-----------------------------------------------------------------------------
(* What steps leave alone.                                                 *)

(* The log loses at most the rows of cs.                                   *)
WalLoses(cs) ==
  /\ wal' \in Seq(Cands)
  /\ \A i, j \in 1..Len(wal') : wal'[i] = wal'[j] => i = j
  /\ ToSet(wal') \subseteq ToSet(wal) /\ ToSet(wal) \subseteq ToSet(wal') \cup cs

LEMMA SameWal ==
  ASSUME StoreOK, WalOK, UNCHANGED wal, NEW cs
  PROVE  WalLoses(cs)
BY DEF StoreOK, WalOK, WalLoses

LEMMA FaultBound ==
  ASSUME RunOK, Unfaulted \/ Fault
  PROVE  faults' \in 0..MaxFaults
<1>1. MaxFaults \in Nat /\ faults \in 0..MaxFaults
  BY TriageVerifyAssumption DEF RunOK
<1>2. CASE Unfaulted
  BY <1>1, <1>2 DEF Unfaulted
<1>3. CASE Fault
  BY <1>1, <1>3 DEF Fault
<1>4. QED
  BY <1>2, <1>3

LEMMA DeletePendingFacts ==
  ASSUME StoreOK, WalOK, RunOK, NEW it \in Items, DeletePending(it)
  PROVE  WalLoses({it.cand}) /\ faults' \in 0..MaxFaults
<1>1. CASE UNCHANGED wal /\ (Unfaulted \/ Fault)
  BY <1>1, SameWal, FaultBound
<1>2. CASE wal' = RemoveFirst(wal, it.cand) /\ Unfaulted
  <2>1. /\ RemoveFirst(wal, it.cand) \in Seq(Cands)
        /\ ToSet(RemoveFirst(wal, it.cand)) = ToSet(wal) \ {it.cand}
        /\ \A i, j \in 1..Len(RemoveFirst(wal, it.cand)) :
             RemoveFirst(wal, it.cand)[i] = RemoveFirst(wal, it.cand)[j] => i = j
    BY RemoveFirstFacts DEF StoreOK, WalOK
  <2>2. WalLoses({it.cand})
    BY <1>2, <2>1 DEF WalLoses
  <2>3. QED
    BY <1>2, <2>2, FaultBound
<1>3. QED
  BY <1>1, <1>2 DEF DeletePending

LEMMA SettledTypes ==
  ASSUME RunOK, NEW it \in Items, NEW what \in {"dropped", "killed", "recorded"}
  PROVE  Settled(it, what) \in [Cands -> {"open", "dropped", "killed", "recorded"}]
BY DEF RunOK, Settled, Items

LEMMA InheritTypes ==
  ASSUME RunOK, NEW it \in Items, NEW p \in Cands, Inherit(it, p)
  PROVE  heir' \in [Cands -> Cands]
BY DEF RunOK, Inherit

(* The store and the run's own state, after a step of triage or of a       *)
(* verifier that may delete the rows of cs.                                *)
RestTyped(cs) ==
  /\ Running /\ UNCHANGED <<found, phase, discovering, walled, runs, crashes, commands>>
  /\ WalLoses(cs) /\ Table(finding') /\ suppressed' \subseteq Fps
  /\ errored' \in BOOLEAN /\ faults' \in 0..MaxFaults
  /\ heir' \in [Cands -> Cands]
  /\ fate' \in [Cands -> {"open", "dropped", "killed", "recorded"}]
  /\ result' \in [Fps -> [lenses : SUBSET Lenses, sites : SUBSET Cands]]

LEMMA RestGives ==
  ASSUME TypeInv, NEW cs, RestTyped(cs)
  PROVE  StoreOK' /\ RunOK' /\ WalOK' /\ QuietOK'
<1>1. StoreOK'
  BY DEF TypeInv, RestTyped, WalLoses, Table, StoreOK, Stored
<1>2. RunOK'
  BY DEF TypeInv, RestTyped, RunOK
<1>3. WalOK'
  BY DEF TypeInv, RestTyped, WalLoses, WalOK, Running
<1>4. QuietOK'
  BY DEF RestTyped, QuietOK, Running
<1>5. QED
  BY <1>1, <1>2, <1>3, <1>4

-----------------------------------------------------------------------------
(* A verifier.                                                             *)

VerifierMoved(f) ==
  /\ ver[f].pc # "none" /\ ver[f].item \in Items
  /\ ver' \in [Fps -> Verifiers] /\ reg' \in [Fps -> Entry(Lenses, Cands)]
  /\ ver'[f].pc # "none" /\ ver'[f].item = ver[f].item /\ reg'[f].status # "none"
  /\ \A g \in Fps \ {f} : ver'[g] = ver[g] /\ reg'[g] = reg[g]

LEMMA MovedBy ==
  ASSUME VerOK, NEW f \in Fps, ver[f].pc # "none",
         NEW v \in Verifiers, v.pc # "none", v.item = ver[f].item,
         NEW e \in Entry(Lenses, Cands), e.status # "none",
         ver' = [ver EXCEPT ![f] = v], reg' = [reg EXCEPT ![f] = e] \/ (UNCHANGED reg /\ e = reg[f])
  PROVE  VerifierMoved(f)
BY DEF VerOK, VerifierMoved

LEMMA VerifierAt ==
  ASSUME NEW u \in Verifiers, NEW pc \in VerifyPcs
  PROVE  /\ [u EXCEPT !.pc = pc] \in Verifiers
         /\ [u EXCEPT !.pc = pc].pc = pc /\ [u EXCEPT !.pc = pc].item = u.item
BY DEF Verifiers

LEMMA GotoMoves ==
  ASSUME VerOK, NEW f \in Fps, ver[f].pc # "none",
         NEW pc \in VerifyPcs \ {"none"}, Goto(f, pc), UNCHANGED reg
  PROVE  VerifierMoved(f)
<1> DEFINE v == [ver[f] EXCEPT !.pc = pc]
<1>1. v \in Verifiers /\ v.pc # "none" /\ v.item = ver[f].item
  BY VerifierAt DEF VerOK
<1>2. ver' = [ver EXCEPT ![f] = v]
  BY DEF Goto
<1>3. reg[f] \in Entry(Lenses, Cands) /\ reg[f].status # "none"
  BY DEF VerOK
<1> HIDE DEF v
<1>4. QED
  BY <1>1, <1>2, <1>3, MovedBy

LEMMA GotoMovesReg ==
  ASSUME VerOK, NEW f \in Fps, ver[f].pc # "none",
         NEW pc \in VerifyPcs \ {"none"}, Goto(f, pc),
         NEW e \in Entry(Lenses, Cands), e.status # "none", reg' = [reg EXCEPT ![f] = e]
  PROVE  VerifierMoved(f)
<1> DEFINE v == [ver[f] EXCEPT !.pc = pc]
<1>1. v \in Verifiers /\ v.pc # "none" /\ v.item = ver[f].item
  BY VerifierAt DEF VerOK
<1>2. ver' = [ver EXCEPT ![f] = v]
  BY DEF Goto
<1> HIDE DEF v
<1>3. QED
  BY <1>1, <1>2, MovedBy

LEMMA VerifyRest ==
  ASSUME TypeInv, Running, VerifyFrame, NEW f \in Fps, ver[f].pc # "none"
  PROVE  /\ ver[f].item \in Items /\ ver[f].item.cand \in Cands /\ ver[f].item.lenses \subseteq Lenses
         /\ UNCHANGED wal => WalLoses({ver[f].item.cand})
         /\ DeletePending(ver[f].item) =>
              WalLoses({ver[f].item.cand}) /\ faults' \in 0..MaxFaults
         /\ UNCHANGED finding => Table(finding')
         /\ UNCHANGED suppressed => suppressed' \subseteq Fps
         /\ errored' \in {errored, TRUE} => errored' \in BOOLEAN
         /\ Unfaulted \/ Fault => faults' \in 0..MaxFaults
         /\ \A what \in {"killed", "recorded"} :
              fate' \in {fate, Settled(ver[f].item, what)} =>
                fate' \in [Cands -> {"open", "dropped", "killed", "recorded"}]
         /\ UNCHANGED result =>
              result' \in [Fps -> [lenses : SUBSET Lenses, sites : SUBSET Cands]]
<1>1. ver[f].item \in Items
  BY DEF TypeInv, VerOK
<1>2. ver[f].item.cand \in Cands /\ ver[f].item.lenses \subseteq Lenses
  BY <1>1 DEF Items
<1>3. UNCHANGED wal => WalLoses({ver[f].item.cand})
  BY SameWal DEF TypeInv
<1>4. DeletePending(ver[f].item) =>
        WalLoses({ver[f].item.cand}) /\ faults' \in 0..MaxFaults
  BY <1>1, DeletePendingFacts DEF TypeInv
<1>5. UNCHANGED finding => Table(finding')
  BY SameTable DEF TypeInv
<1>6. UNCHANGED suppressed => suppressed' \subseteq Fps
  BY DEF TypeInv, StoreOK
<1>7. errored' \in {errored, TRUE} => errored' \in BOOLEAN
  BY DEF TypeInv, RunOK
<1>8. Unfaulted \/ Fault => faults' \in 0..MaxFaults
  BY FaultBound DEF TypeInv
<1>9. ASSUME NEW what \in {"killed", "recorded"}, fate' \in {fate, Settled(ver[f].item, what)}
      PROVE  fate' \in [Cands -> {"open", "dropped", "killed", "recorded"}]
  BY <1>1, <1>9, SettledTypes DEF TypeInv, RunOK
<1>10. UNCHANGED result => result' \in [Fps -> [lenses : SUBSET Lenses, sites : SUBSET Cands]]
  BY DEF TypeInv, RunOK
<1>11. QED
  BY <1>1, <1>2, <1>3, <1>4, <1>5, <1>6, <1>7, <1>8, <1>9, <1>10

LEMMA VerifyRestTyped ==
  ASSUME TypeInv, Running, VerifyFrame, NEW cs, WalLoses(cs), Table(finding'),
         suppressed' \subseteq Fps, errored' \in BOOLEAN, faults' \in 0..MaxFaults,
         fate' \in [Cands -> {"open", "dropped", "killed", "recorded"}],
         result' \in [Fps -> [lenses : SUBSET Lenses, sites : SUBSET Cands]]
  PROVE  RestTyped(cs) /\ UNCHANGED <<candCh, tri, seen, member>>
BY DEF RestTyped, VerifyFrame, triage, bounds, TypeInv, RunOK

LEMMA VerifyMoves ==
  ASSUME TypeInv, NEW f \in Fps, Verify(f)
  PROVE  /\ RestTyped({ver[f].item.cand}) /\ VerifierMoved(f)
         /\ UNCHANGED <<candCh, tri, seen, member>>
<1> DEFINE it == ver[f].item
           copies == [lenses : SUBSET Lenses, sites : SUBSET Cands]
           Typed ==
             /\ WalLoses({it.cand}) /\ Table(finding') /\ suppressed' \subseteq Fps
             /\ errored' \in BOOLEAN /\ faults' \in 0..MaxFaults
             /\ fate' \in [Cands -> {"open", "dropped", "killed", "recorded"}]
             /\ result' \in [Fps -> copies]
<1>1. Running /\ VerifyFrame /\ ver[f].pc # "none"
  BY DEF Verify, Verifier, Panel, PersistOrphan, Unkept, Kill, DismissRefuted, ForgetKilled,
         DrainLenses, DrainSites, PersistSurvivor, DeleteRow, Signal, AttachLateLenses,
         AttachLateSites
<1>2. /\ it \in Items /\ it.cand \in Cands /\ it.lenses \subseteq Lenses
      /\ UNCHANGED wal => WalLoses({it.cand})
      /\ DeletePending(it) => WalLoses({it.cand}) /\ faults' \in 0..MaxFaults
      /\ UNCHANGED finding => Table(finding')
      /\ UNCHANGED suppressed => suppressed' \subseteq Fps
      /\ errored' \in {errored, TRUE} => errored' \in BOOLEAN
      /\ Unfaulted \/ Fault => faults' \in 0..MaxFaults
      /\ \A what \in {"killed", "recorded"} :
           fate' \in {fate, Settled(it, what)} =>
             fate' \in [Cands -> {"open", "dropped", "killed", "recorded"}]
      /\ UNCHANGED result => result' \in [Fps -> copies]
  BY <1>1, VerifyRest
<1>3. /\ VerOK /\ StoreOK
      /\ ver[f] \in Verifiers /\ reg[f] \in Entry(Lenses, Cands) /\ reg[f].status # "none"
  BY <1>1 DEF TypeInv, VerOK
<1>4. /\ ver[f].lenses \subseteq Lenses /\ ver[f].late \subseteq Lenses /\ ver[f].sites \subseteq Cands
      /\ reg[f].stagedLenses \subseteq Lenses /\ reg[f].stagedSites \subseteq Cands
      /\ reg[f].lateSites \subseteq Cands
  BY <1>3 DEF Verifiers, Entry
<1>5. \A sites \in SUBSET Cands :
        [result EXCEPT ![f] = [lenses |-> ver[f].lenses, sites |-> sites]] \in [Fps -> copies]
  BY <1>4 DEF TypeInv, RunOK
<1>6. /\ SignalKilled(reg[f]) \in Entry(Lenses, Cands) /\ SignalKilled(reg[f]).status # "none"
      /\ SignalPersisted(reg[f]) \in Entry(Lenses, Cands) /\ SignalPersisted(reg[f]).status # "none"
      /\ DrainStagedLenses(reg[f]) \in Entry(Lenses, Cands) /\ DrainStagedLenses(reg[f]).status # "none"
      /\ DrainStagedSites(reg[f]) \in Entry(Lenses, Cands) /\ DrainStagedSites(reg[f]).status # "none"
      /\ DrainLateSites(reg[f]) \in Entry(Lenses, Cands) /\ DrainLateSites(reg[f]).status # "none"
  BY <1>3, RegistryTypes
<1>7. SUFFICES Typed /\ VerifierMoved(f)
  BY <1>1, VerifyRestTyped
<1> HIDE DEF it
<1>8. CASE Panel(f)
  <2>1. Typed
    BY <1>2, <1>8 DEF Panel, durable
  <2>2. VerifierMoved(f)
    <3>1. UNCHANGED reg /\ \E pc \in {"orphan", "kill", "lenses", "done"} : Goto(f, pc)
      BY <1>8 DEF Panel
    <3>2. QED
      BY <1>1, <1>3, <3>1, GotoMoves DEF VerifyPcs
  <2>3. QED
    BY <2>1, <2>2
<1>9. CASE PersistOrphan(f)
  <2> DEFINE kept == f \notin suppressed
             v == [ver[f] EXCEPT !.pc = IF kept THEN "delete" ELSE "unkept", !.tier = 3]
             copy == [lenses |-> it.lenses, sites |-> {it.cand}]
  <2>1. CASE /\ finding' = Upserted(f, it.cand, 3, it.lenses, {it.cand})
             /\ result' = IF kept THEN [result EXCEPT ![f] = copy] ELSE result
             /\ fate' = Settled(it, "recorded") /\ Unfaulted
             /\ ver' = [ver EXCEPT ![f] = v]
    <3>1. Table(finding')
      BY <1>2, <1>3, <2>1, UpsertedTable
    <3>2. result' \in [Fps -> copies]
      BY <1>2, <2>1 DEF TypeInv, RunOK
    <3>3. Typed
      BY <1>2, <1>9, <2>1, <3>1, <3>2 DEF PersistOrphan
    <3>4. v \in Verifiers /\ v.pc # "none" /\ v.item = ver[f].item
      BY <1>3 DEF Verifiers, VerifyPcs
    <3>5. UNCHANGED reg
      BY <1>9 DEF PersistOrphan
    <3> HIDE DEF v
    <3>6. VerifierMoved(f)
      BY <1>1, <1>3, <2>1, <3>4, <3>5, MovedBy
    <3>7. QED
      BY <3>3, <3>6
  <2>2. CASE Goto(f, "unkept") /\ Fault /\ UNCHANGED <<finding, result, fate>>
    <3>1. Typed
      BY <1>2, <1>9, <2>2 DEF PersistOrphan
    <3>2. VerifierMoved(f)
      BY <1>1, <1>3, <1>9, <2>2, GotoMoves DEF PersistOrphan, VerifyPcs
    <3>3. QED
      BY <3>1, <3>2
  <2>3. QED
    BY <1>9, <2>1, <2>2 DEF PersistOrphan, it
<1>10. CASE Unkept(f)
  <2>1. Typed
    BY <1>2, <1>10 DEF Unkept, durable, Unfaulted
  <2>2. VerifierMoved(f)
    BY <1>1, <1>3, <1>6, <1>10, GotoMovesReg DEF Unkept, VerifyPcs
  <2>3. QED
    BY <2>1, <2>2
<1>11. CASE Kill(f)
  <2>1. Typed
    BY <1>2, <1>11 DEF Kill, durable, Unfaulted, it
  <2>2. VerifierMoved(f)
    <3>1. AfterKill(ver[f].item) \in VerifyPcs \ {"none"}
      BY DEF AfterKill, VerifyPcs
    <3>2. QED
      BY <1>1, <1>3, <1>6, <1>11, <3>1, GotoMovesReg DEF Kill
  <2>3. QED
    BY <2>1, <2>2
<1>12. CASE DismissRefuted(f)
  <2>1. Table(finding')
    BY <1>2, <1>3, <1>12, WithStatusTable DEF DismissRefuted
  <2>2. suppressed' \subseteq Fps
    BY <1>3, <1>12 DEF DismissRefuted, StoreOK
  <2>3. Typed
    BY <1>2, <1>12, <2>1, <2>2 DEF DismissRefuted
  <2>4. VerifierMoved(f)
    BY <1>1, <1>3, <1>12, GotoMoves DEF DismissRefuted, VerifyPcs
  <2>5. QED
    BY <2>3, <2>4
<1>13. CASE ForgetKilled(f)
  <2>1. Typed
    BY <1>2, <1>13 DEF ForgetKilled, it
  <2>2. VerifierMoved(f)
    BY <1>1, <1>3, <1>13, GotoMoves DEF ForgetKilled, VerifyPcs
  <2>3. QED
    BY <2>1, <2>2
<1>14. CASE DrainLenses(f)
  <2> DEFINE v == [ver[f] EXCEPT !.pc = "sites", !.lenses = it.lenses \cup reg[f].stagedLenses]
  <2>1. Typed
    BY <1>2, <1>14 DEF DrainLenses, durable, Unfaulted
  <2>2. v \in Verifiers /\ v.pc # "none" /\ v.item = ver[f].item
    BY <1>2, <1>3, <1>4 DEF Verifiers, VerifyPcs
  <2>3. ver' = [ver EXCEPT ![f] = v]
    BY <1>14 DEF DrainLenses, SurvivorStep, it
  <2> HIDE DEF v
  <2>4. VerifierMoved(f)
    BY <1>1, <1>3, <1>6, <1>14, <2>2, <2>3, MovedBy DEF DrainLenses
  <2>5. QED
    BY <2>1, <2>4
<1>15. CASE DrainSites(f)
  <2> DEFINE v == [ver[f] EXCEPT !.pc = "upsert", !.sites = {it.cand} \cup reg[f].stagedSites]
  <2>1. Typed
    BY <1>2, <1>15 DEF DrainSites, durable, Unfaulted
  <2>2. v \in Verifiers /\ v.pc # "none" /\ v.item = ver[f].item
    BY <1>2, <1>3, <1>4 DEF Verifiers, VerifyPcs
  <2>3. ver' = [ver EXCEPT ![f] = v]
    BY <1>15 DEF DrainSites, SurvivorStep, it
  <2> HIDE DEF v
  <2>4. VerifierMoved(f)
    BY <1>1, <1>3, <1>6, <1>15, <2>2, <2>3, MovedBy DEF DrainSites
  <2>5. QED
    BY <2>1, <2>4
<1>16. CASE PersistSurvivor(f)
  <2>1. CASE /\ finding' = Upserted(f, it.cand, 2, ver[f].lenses, ver[f].sites)
             /\ fate' = Settled(it, "recorded")
             /\ Goto(f, "delete") /\ Unfaulted /\ UNCHANGED <<reg, errored>>
    <3>1. Table(finding')
      BY <1>2, <1>3, <1>4, <2>1, UpsertedTable
    <3>2. Typed
      BY <1>2, <1>16, <2>1, <3>1 DEF PersistSurvivor
    <3>3. VerifierMoved(f)
      BY <1>1, <1>3, <2>1, GotoMoves DEF VerifyPcs
    <3>4. QED
      BY <3>2, <3>3
  <2>2. CASE /\ Goto(f, "done") /\ Fault /\ errored' = TRUE /\ UNCHANGED <<finding, fate>>
             /\ reg' = [reg EXCEPT ![f] = SignalKilled(reg[f])]
    <3>1. Typed
      BY <1>2, <1>16, <2>2 DEF PersistSurvivor
    <3>2. VerifierMoved(f)
      BY <1>1, <1>3, <1>6, <2>2, GotoMovesReg DEF VerifyPcs
    <3>3. QED
      BY <3>1, <3>2
  <2>3. QED
    BY <1>16, <2>1, <2>2 DEF PersistSurvivor, SurvivorStep, it
<1>17. CASE DeleteRow(f)
  <2>1. Typed
    BY <1>2, <1>17 DEF DeleteRow, it
  <2>2. VerifierMoved(f)
    <3>1. UNCHANGED reg /\ \E pc \in {"unkept", "signal"} : Goto(f, pc)
      BY <1>17 DEF DeleteRow, SurvivorStep
    <3>2. QED
      BY <1>1, <1>3, <3>1, GotoMoves DEF VerifyPcs
  <2>3. QED
    BY <2>1, <2>2
<1>18. CASE Signal(f)
  <2> DEFINE v == [ver[f] EXCEPT !.pc = "lateLenses", !.late = reg[f].stagedLenses,
                                 !.lenses = ver[f].lenses \cup reg[f].stagedLenses]
  <2>1. Typed
    BY <1>2, <1>18 DEF Signal, durable, Unfaulted
  <2>2. v \in Verifiers /\ v.pc # "none" /\ v.item = ver[f].item
    BY <1>3, <1>4 DEF Verifiers, VerifyPcs
  <2>3. ver' = [ver EXCEPT ![f] = v]
    BY <1>18 DEF Signal, SurvivorStep
  <2> HIDE DEF v
  <2>4. VerifierMoved(f)
    BY <1>1, <1>3, <1>6, <1>18, <2>2, <2>3, MovedBy DEF Signal
  <2>5. QED
    BY <2>1, <2>4
<1>19. CASE AttachLateLenses(f)
  <2>1. Table(finding')
    BY <1>2, <1>3, <1>4, <1>19, WithLensesTable DEF AttachLateLenses
  <2>2. Typed
    BY <1>2, <1>19, <2>1 DEF AttachLateLenses
  <2>3. VerifierMoved(f)
    <3>1. UNCHANGED reg /\ \E pc \in {"lateSites", "done"} : Goto(f, pc)
      BY <1>19 DEF AttachLateLenses
    <3>2. QED
      BY <1>1, <1>3, <3>1, GotoMoves DEF VerifyPcs
  <2>4. QED
    BY <2>2, <2>3
<1>20. CASE AttachLateSites(f)
  <2>1. Table(finding')
    BY <1>2, <1>3, <1>4, <1>20, WithSitesTable DEF AttachLateSites
  <2>2. result' \in [Fps -> copies]
    <3>1. ver[f].sites \cup reg[f].lateSites \in SUBSET Cands /\ ver[f].sites \in SUBSET Cands
      BY <1>4
    <3>2. \/ result' = [result EXCEPT ![f] =
                [lenses |-> ver[f].lenses, sites |-> ver[f].sites \cup reg[f].lateSites]]
          \/ result' = [result EXCEPT ![f] = [lenses |-> ver[f].lenses, sites |-> ver[f].sites]]
      BY <1>20 DEF AttachLateSites
    <3>3. QED
      BY <1>5, <3>1, <3>2
  <2>3. Typed
    BY <1>2, <1>20, <2>1, <2>2 DEF AttachLateSites
  <2>4. VerifierMoved(f)
    BY <1>1, <1>3, <1>6, <1>20, GotoMovesReg DEF AttachLateSites, VerifyPcs
  <2>5. QED
    BY <2>3, <2>4
<1>21. QED
  BY <1>8, <1>9, <1>10, <1>11, <1>12, <1>13, <1>14, <1>15, <1>16, <1>17, <1>18, <1>19, <1>20
     DEF Verify

-----------------------------------------------------------------------------
(* Triage.                                                                 *)

LEMMA TriageRest ==
  ASSUME TypeInv
  PROVE  /\ UNCHANGED wal => WalLoses({tri.item.cand})
         /\ tri.item \in Items /\ DeletePending(tri.item) =>
              WalLoses({tri.item.cand}) /\ faults' \in 0..MaxFaults
         /\ UNCHANGED finding => Table(finding')
         /\ UNCHANGED suppressed => suppressed' \subseteq Fps
         /\ errored' \in {errored, TRUE} => errored' \in BOOLEAN
         /\ Unfaulted \/ Fault => faults' \in 0..MaxFaults
         /\ UNCHANGED fate => fate' \in [Cands -> {"open", "dropped", "killed", "recorded"}]
         /\ UNCHANGED heir => heir' \in [Cands -> Cands]
<1>1. UNCHANGED wal => WalLoses({tri.item.cand})
  BY SameWal DEF TypeInv
<1>2. tri.item \in Items /\ DeletePending(tri.item) =>
        WalLoses({tri.item.cand}) /\ faults' \in 0..MaxFaults
  BY DeletePendingFacts DEF TypeInv
<1>3. UNCHANGED finding => Table(finding')
  BY SameTable DEF TypeInv
<1>4. /\ UNCHANGED suppressed => suppressed' \subseteq Fps
      /\ errored' \in {errored, TRUE} => errored' \in BOOLEAN
      /\ UNCHANGED fate => fate' \in [Cands -> {"open", "dropped", "killed", "recorded"}]
      /\ UNCHANGED heir => heir' \in [Cands -> Cands]
  BY DEF TypeInv, StoreOK, RunOK
<1>5. Unfaulted \/ Fault => faults' \in 0..MaxFaults
  BY FaultBound DEF TypeInv
<1>6. QED
  BY <1>1, <1>2, <1>3, <1>4, <1>5

LEMMA TriageRestTyped ==
  ASSUME TypeInv, Running, NEW cs, WalLoses(cs), Table(finding'),
         UNCHANGED <<found, phase, discovering, result, walled, bounds>>,
         suppressed' \subseteq Fps, errored' \in BOOLEAN, faults' \in 0..MaxFaults,
         heir' \in [Cands -> Cands],
         fate' \in [Cands -> {"open", "dropped", "killed", "recorded"}]
  PROVE  RestTyped(cs)
BY DEF RestTyped, bounds, TypeInv, RunOK

(* A verifier's entry keeps its status, and a fingerprint its candidate.   *)
LEMMA RegKeeps ==
  ASSUME VerOK, UNCHANGED ver, \A f \in Fps : seen[f] # NoCand => seen'[f] # NoCand,
         \/ UNCHANGED reg
         \/ \E f \in Fps : \E e \in Entry(Lenses, Cands) :
              e.status = reg[f].status /\ reg' = [reg EXCEPT ![f] = e]
  PROVE  VerOK'
<1>1. CASE UNCHANGED reg
  BY <1>1 DEF VerOK
<1>2. CASE \E f \in Fps : \E e \in Entry(Lenses, Cands) :
              e.status = reg[f].status /\ reg' = [reg EXCEPT ![f] = e]
  <2>1. PICK f \in Fps, e \in Entry(Lenses, Cands) :
              e.status = reg[f].status /\ reg' = [reg EXCEPT ![f] = e]
    BY <1>2
  <2>2. reg' \in [Fps -> Entry(Lenses, Cands)] /\ \A g \in Fps : reg'[g].status = reg[g].status
    BY <2>1 DEF VerOK
  <2>3. QED
    BY <2>2 DEF VerOK
<1>3. QED
  BY <1>1, <1>2

(* The next statement on the same item.                                    *)
LEMMA StepKeeps ==
  ASSUME TriageOK, Working, NEW pc \in TriagePcs \ {"idle"}, Step(pc),
         UNCHANGED <<candCh, seen, member>>,
         pc \in TargetPcs => tri.target \in Fps, pc \in FoldPcs => tri.pc \in FoldPcs
  PROVE  TriageOK' /\ tri'.pc = pc /\ tri'.item = tri.item /\ tri'.target = tri.target
<1>1. tri' \in Triages /\ tri'.pc = pc /\ tri'.item = tri.item /\ tri'.target = tri.target
  BY DEF TriageOK, Triages, Step
<1>2. tri.item \in Items
  BY DEF TriageOK
<1>3. QED
  BY <1>1, <1>2 DEF TriageOK, Clusters, Working

(* The item is done with.                                                  *)
LEMMA IdleKeeps ==
  ASSUME TriageOK, tri' = IdleTriage, UNCHANGED <<candCh, seen>>,
         \/ UNCHANGED member
         \/ /\ Working /\ tri.pc \in FoldPcs
            /\ member' = member \cup {[item |-> tri.item, cluster |-> tri.item.fp]}
  PROVE  TriageOK'
<1>1. tri' \in Triages /\ tri'.pc = "idle" /\ tri'.item = NoItem
  BY DEF IdleTriage, Triages, TriagePcs
<1>2. member' \subseteq [item : Items, cluster : Fps] /\ \A m \in member' : seen[m.cluster] # NoCand
  <2>1. CASE UNCHANGED member
    BY <2>1 DEF TriageOK, Clusters
  <2>2. CASE /\ Working /\ tri.pc \in FoldPcs
             /\ member' = member \cup {[item |-> tri.item, cluster |-> tri.item.fp]}
    <3>1. tri.item \in Items /\ tri.item.fp \in Fps /\ tri.item.cand \in Cands
      BY <2>2 DEF TriageOK, Items
    <3>2. seen[tri.item.fp] # NoCand
      BY <2>2, <3>1, Constants DEF TriageOK
    <3>3. QED
      BY <2>2, <3>1, <3>2 DEF TriageOK, Clusters
  <2>3. QED
    BY <2>1, <2>2
<1>3. QED
  BY <1>1, <1>2 DEF TriageOK, Clusters, Working, TargetPcs, StagePcs, FoldPcs

LEMMA ArrivingItem ==
  ASSUME TriageOK, NEW it, Arriving(it)
  PROVE  /\ it \in Items /\ it.cand \in Cands /\ it.fp \in Fps
         /\ Len(candCh) >= 1 /\ it = candCh[1]
         /\ Tail(candCh) \in Seq(Items) /\ Len(Tail(candCh)) = Len(candCh) - 1
         /\ \A i \in 1..(Len(candCh) - 1) : Tail(candCh)[i] = candCh[i + 1]
<1>1. candCh \in Seq(Items) /\ candCh # <<>> /\ it = Head(candCh)
  BY DEF TriageOK, Arriving
<1>2. /\ Len(candCh) >= 1 /\ Len(candCh) \in Nat /\ it = candCh[1]
      /\ Tail(candCh) \in Seq(Items) /\ Len(Tail(candCh)) = Len(candCh) - 1
      /\ \A i \in 1..(Len(candCh) - 1) : Tail(candCh)[i] = candCh[i + 1]
  BY <1>1, SeqFacts
<1>3. it \in Items
  BY <1>1, <1>2, SeqFacts
<1>4. QED
  BY <1>2, <1>3 DEF Items

LEMMA DequeueKeeps ==
  ASSUME TriageOK, NEW it, Arriving(it),
         NEW pc \in TriagePcs \ {"idle"}, NEW target \in Fps \cup {NoFp}, Dequeue(pc, it, target),
         pc \in TargetPcs => target \in Fps,
         \/ UNCHANGED seen
         \/ seen[it.fp] = NoCand /\ seen' = [seen EXCEPT ![it.fp] = it.cand],
         pc \in FoldPcs => seen'[it.fp] = it.cand,
         \/ UNCHANGED member
         \/ target \in Clusters /\ member' = member \cup {[item |-> it, cluster |-> target]}
  PROVE  TriageOK'
<1>1. it \in Items /\ it.cand \in Cands /\ it.fp \in Fps /\ Tail(candCh) \in Seq(Items)
  BY ArrivingItem
<1>2. /\ candCh' \in Seq(Items) /\ tri' \in Triages
      /\ tri'.pc = pc /\ tri'.item = it /\ tri'.target = target
  BY <1>1 DEF Dequeue, Triages
<1>3. /\ seen' \in [Fps -> Cands \cup {NoCand}]
      /\ \A f \in Fps : seen[f] # NoCand => seen'[f] # NoCand
  BY <1>1 DEF TriageOK
<1>4. member' \subseteq [item : Items, cluster : Fps] /\ \A m \in member' : seen'[m.cluster] # NoCand
  <2>1. \A cl \in Clusters : cl \in Fps /\ seen'[cl] # NoCand
    BY <1>3 DEF TriageOK, Clusters
  <2>2. \A m \in member : m \in [item : Items, cluster : Fps] /\ seen'[m.cluster] # NoCand
    BY <2>1 DEF TriageOK, Clusters
  <2>3. CASE target \in Clusters /\ member' = member \cup {[item |-> it, cluster |-> target]}
    <3>1. target \in Fps /\ seen'[target] # NoCand
      BY <2>1, <2>3
    <3>2. QED
      BY <1>1, <2>2, <2>3, <3>1
  <2>4. QED
    BY <2>2, <2>3
<1>5. QED
  BY <1>1, <1>2, <1>3, <1>4 DEF TriageOK, Clusters

LEMMA TakeMoves ==
  ASSUME TypeInv, NEW it,
         \/ TakeUnfit(it) \/ TakeDuplicate(it) \/ TakeSuppressed(it)
         \/ TakeMember(it) \/ TakeUnclustered(it)
  PROVE  RestTyped({tri.item.cand}) /\ TriageOK' /\ VerOK' /\ FoldTargetOK'
<1>1. Arriving(it) /\ Running /\ TriageFrame /\ UNCHANGED <<durable, reg, errored, faults>>
  BY DEF TakeUnfit, TakeDuplicate, TakeSuppressed, TakeMember, TakeUnclustered, New, Arriving
<1>2. it \in Items /\ it.cand \in Cands /\ it.fp \in Fps /\ it.cand # NoCand
  BY <1>1, ArrivingItem, Constants DEF TypeInv
<1>3. /\ WalLoses({tri.item.cand}) /\ Table(finding') /\ suppressed' \subseteq Fps
      /\ errored' \in BOOLEAN /\ faults' \in 0..MaxFaults
      /\ UNCHANGED heir => heir' \in [Cands -> Cands]
      /\ UNCHANGED fate => fate' \in [Cands -> {"open", "dropped", "killed", "recorded"}]
  BY <1>1, TriageRest DEF durable, Unfaulted
<1>4. ASSUME heir' \in [Cands -> Cands],
             fate' \in [Cands -> {"open", "dropped", "killed", "recorded"}]
      PROVE  RestTyped({tri.item.cand})
  BY <1>1, <1>3, <1>4, TriageRestTyped DEF TriageFrame
<1>5. ASSUME \/ UNCHANGED seen
             \/ seen[it.fp] = NoCand /\ seen' = [seen EXCEPT ![it.fp] = it.cand]
      PROVE  VerOK'
  <2>1. \A f \in Fps : seen[f] # NoCand => seen'[f] # NoCand
    BY <1>2, <1>5 DEF TypeInv, TriageOK
  <2>2. QED
    BY <1>1, <2>1, RegKeeps DEF TypeInv, TriageFrame
<1>6. ASSUME NEW pc \in {"drop", "site", "memberDrop", "fold"}, NEW target, Dequeue(pc, it, target)
      PROVE  FoldTargetOK'
  BY <1>6 DEF FoldTargetOK, Dequeue
<1>7. /\ TriageOK /\ RunOK /\ {"drop", "site", "memberDrop", "fold"} \subseteq TriagePcs \ {"idle"}
      /\ "drop" \notin TargetPcs \cup FoldPcs /\ "fold" \notin TargetPcs
      /\ "site" \notin FoldPcs /\ "memberDrop" \notin FoldPcs
  BY DEF TypeInv, TriagePcs, TargetPcs, StagePcs, FoldPcs
<1>8. CASE TakeUnfit(it)
  <2>1. Dequeue("drop", it, NoFp) /\ UNCHANGED <<seen, member, heir>> /\ fate' = Settled(it, "dropped")
    BY <1>8 DEF TakeUnfit
  <2>2. TriageOK'
    BY <1>1, <1>7, <2>1, DequeueKeeps
  <2>3. QED
    BY <1>2, <1>3, <1>4, <1>5, <1>6, <1>7, <2>1, <2>2, SettledTypes
<1>9. CASE TakeDuplicate(it)
  <2>1. /\ Dequeue("site", it, it.fp) /\ UNCHANGED <<seen, member, fate>>
        /\ seen[it.fp] # NoCand /\ Inherit(it, StandsWith(seen[it.fp]))
    BY <1>9 DEF TakeDuplicate
  <2>2. TriageOK'
    BY <1>1, <1>2, <1>7, <2>1, DequeueKeeps
  <2>3. StandsWith(seen[it.fp]) \in Cands
    BY <1>2, <1>7, <2>1 DEF StandsWith, RunOK, TriageOK
  <2>4. QED
    BY <1>2, <1>3, <1>4, <1>5, <1>6, <1>7, <2>1, <2>2, <2>3, InheritTypes
<1>10. CASE TakeSuppressed(it)
  <2>1. /\ Dequeue("drop", it, NoFp) /\ UNCHANGED <<member, heir>> /\ fate' = Settled(it, "dropped")
        /\ seen[it.fp] = NoCand /\ seen' = [seen EXCEPT ![it.fp] = it.cand]
    BY <1>10 DEF TakeSuppressed, New
  <2>2. TriageOK'
    BY <1>1, <1>7, <2>1, DequeueKeeps
  <2>3. QED
    BY <1>2, <1>3, <1>4, <1>5, <1>6, <1>7, <2>1, <2>2, SettledTypes
<1>11. CASE TakeMember(it)
  <2>1. PICK cl \in Clusters : /\ Dequeue("memberDrop", it, cl) /\ Inherit(it, Primary(cl))
                               /\ member' = member \cup {[item |-> it, cluster |-> cl]}
    BY <1>11 DEF TakeMember
  <2>2. /\ UNCHANGED fate
        /\ seen[it.fp] = NoCand /\ seen' = [seen EXCEPT ![it.fp] = it.cand]
    BY <1>11 DEF TakeMember, New
  <2>3. cl \in Fps /\ Primary(cl) \in Cands
    BY <1>7 DEF TriageOK, Clusters, Primary
  <2>4. TriageOK'
    BY <1>1, <1>7, <2>1, <2>2, <2>3, DequeueKeeps
  <2>5. QED
    BY <1>2, <1>3, <1>4, <1>5, <1>6, <1>7, <2>1, <2>2, <2>3, <2>4, InheritTypes
<1>12. CASE TakeUnclustered(it)
  <2>1. /\ Dequeue("fold", it, NoFp) /\ UNCHANGED <<member, heir, fate>>
        /\ seen[it.fp] = NoCand /\ seen' = [seen EXCEPT ![it.fp] = it.cand]
    BY <1>12 DEF TakeUnclustered, New
  <2>2. seen'[it.fp] = it.cand
    BY <1>2, <1>7, <2>1 DEF TriageOK
  <2>3. TriageOK'
    BY <1>1, <1>7, <2>1, <2>2, DequeueKeeps
  <2>4. QED
    BY <1>3, <1>4, <1>5, <1>6, <2>1, <2>3
<1>13. QED
  BY <1>8, <1>9, <1>10, <1>11, <1>12

LEMMA WorkMoves ==
  ASSUME TypeInv,
         \/ MemberDrop \/ StageSite \/ StoreSite \/ StageLens \/ StoreLens
         \/ Fold \/ SuppressCandidate \/ ReopenFixed \/ FoldLens \/ FoldSite
         \/ DropPending
  PROVE  RestTyped({tri.item.cand}) /\ TriageOK' /\ VerOK' /\ FoldTargetOK'
<1> DEFINE it == tri.item
           Typed ==
             /\ WalLoses({it.cand}) /\ Table(finding') /\ suppressed' \subseteq Fps
             /\ errored' \in BOOLEAN /\ faults' \in 0..MaxFaults
             /\ heir' \in [Cands -> Cands]
             /\ fate' \in [Cands -> {"open", "dropped", "killed", "recorded"}]
<1>1. Running /\ TriageFrame /\ Working /\ UNCHANGED <<candCh, seen, member>>
  BY DEF MemberDrop, StageSite, StoreSite, StageLens, StoreLens, Fold, SuppressCandidate,
         ReopenFixed, FoldLens, FoldSite, DropPending, At, Working
<1>2. /\ StoreOK /\ RunOK /\ TriageOK /\ VerOK
      /\ it \in Items /\ it.cand \in Cands /\ it.fp \in Fps /\ Lens[it.cand] \in Lenses
      /\ tri.pc \in TargetPcs => tri.target \in Fps /\ reg[tri.target] \in Entry(Lenses, Cands)
  BY <1>1, Constants DEF TypeInv, TriageOK, VerOK, Items
<1>3. /\ UNCHANGED wal => WalLoses({it.cand})
      /\ DeletePending(it) => WalLoses({it.cand}) /\ faults' \in 0..MaxFaults
      /\ UNCHANGED finding => Table(finding')
      /\ UNCHANGED suppressed => suppressed' \subseteq Fps
      /\ UNCHANGED errored => errored' \in BOOLEAN
      /\ Unfaulted \/ Fault => faults' \in 0..MaxFaults
      /\ UNCHANGED heir => heir' \in [Cands -> Cands]
      /\ UNCHANGED fate => fate' \in [Cands -> {"open", "dropped", "killed", "recorded"}]
  BY <1>2, TriageRest
<1>4. Typed => RestTyped({it.cand})
  BY <1>1, TriageRestTyped DEF TriageFrame
<1>5. UNCHANGED reg => VerOK'
  BY <1>1, <1>2, RegKeeps DEF TriageFrame
<1>6. tri'.pc \notin {"reopen", "foldLens", "foldSite"} => FoldTargetOK'
  BY DEF FoldTargetOK
<1>7. /\ tri.pc \in {"reopen", "foldLens"} => tri.target \in Fps /\ Stored(tri.target)
      /\ Table(finding') /\ tri'.target \in Fps /\ Stored(tri'.target) => FoldTargetOK'
  BY DEF TypeInv, TriageOK, TargetPcs, FoldTargetOK, Table, Stored
<1>8. TargetPcs \cap FoldPcs = {"reopen", "foldLens", "foldSite"}
      /\ {"memberDrop", "site", "siteStore", "lens", "lensStore"} \subseteq TargetPcs \ FoldPcs
      /\ "drop" \notin TargetPcs \cup FoldPcs /\ "suppress" \notin TargetPcs
      /\ TargetPcs \cup FoldPcs \cup {"drop"} \subseteq TriagePcs \ {"idle"}
      /\ "suppress" \in FoldPcs /\ "fold" \in FoldPcs
  BY DEF TargetPcs, StagePcs, FoldPcs, TriagePcs
<1> HIDE DEF it
<1>9. CASE MemberDrop
  <2>1. Typed
    BY <1>3, <1>9 DEF MemberDrop, it
  <2>2. tri.pc = "memberDrop" /\ tri' = [tri EXCEPT !.pc = "site", !.item.row = FALSE]
    BY <1>9 DEF MemberDrop, At
  <2>3. [it EXCEPT !.row = FALSE] \in Items
    BY <1>2 DEF Items
  <2>4. tri' = [tri EXCEPT !.pc = "site", !.item = [it EXCEPT !.row = FALSE]]
    BY <2>2 DEF it
  <2>5. /\ tri' \in Triages /\ tri'.pc = "site" /\ tri'.item \in Items /\ tri'.target = tri.target
        /\ tri.target \in Fps
    <3>1. tri \in Triages
      BY <1>2 DEF TriageOK
    <3> DEFINE other == [it EXCEPT !.row = FALSE]
    <3>2. other \in Items /\ tri' = [tri EXCEPT !.pc = "site", !.item = other]
      BY <2>3, <2>4
    <3> HIDE DEF other
    <3>3. tri' \in Triages /\ tri'.pc = "site" /\ tri'.item = other /\ tri'.target = tri.target
      BY <3>1, <3>2 DEF Triages, TriagePcs
    <3>4. QED
      BY <1>2, <1>8, <2>2, <3>2, <3>3
  <2>6. TriageOK'
    BY <1>1, <1>2, <1>8, <2>5 DEF TriageOK, Clusters, Working
  <2>7. QED
    BY <1>4, <1>5, <1>6, <1>9, <2>1, <2>5, <2>6 DEF MemberDrop, it
<1>10. CASE StageSite
  <2>1. Typed
    BY <1>3, <1>10 DEF StageSite, durable, Unfaulted
  <2>2. PICK pc \in {"siteStore", "lens"} : Step(pc)
    BY <1>10 DEF StageSite
  <2>3. tri.pc = "site" /\ tri.target \in Fps
    BY <1>2, <1>8, <1>10 DEF StageSite, At
  <2>4. TriageOK' /\ tri'.pc = pc
    BY <1>1, <1>2, <1>8, <2>2, <2>3, StepKeeps
  <2>5. VerOK'
    <3>1. /\ AddStagedSite(reg[tri.target], it.cand) \in Entry(Lenses, Cands)
          /\ AddStagedSite(reg[tri.target], it.cand).status = reg[tri.target].status
      BY <1>2, <1>8, <2>3, RegistryTypes
    <3>2. reg' = [reg EXCEPT ![tri.target] = AddStagedSite(reg[tri.target], it.cand)]
      BY <1>10 DEF StageSite, it
    <3>3. QED
      BY <1>1, <1>2, <2>3, <3>1, <3>2, RegKeeps DEF TriageFrame
  <2>6. QED
    BY <1>4, <1>6, <2>1, <2>2, <2>4, <2>5 DEF it
<1>11. CASE StoreSite
  <2>1. tri.pc = "siteStore" /\ tri.target \in Fps /\ Step("lens") /\ UNCHANGED reg
    BY <1>2, <1>8, <1>11 DEF StoreSite, At
  <2>2. Table(finding')
    BY <1>2, <1>3, <1>11, <2>1, WithSitesTable DEF StoreSite, it
  <2>3. Typed
    BY <1>3, <1>11, <2>2 DEF StoreSite
  <2>4. TriageOK' /\ tri'.pc = "lens"
    BY <1>1, <1>2, <1>8, <2>1, StepKeeps
  <2>5. QED
    BY <1>4, <1>5, <1>6, <2>1, <2>3, <2>4 DEF it
<1>12. CASE StageLens
  <2>1. Typed
    BY <1>3, <1>12 DEF StageLens, durable, Unfaulted
  <2>2. PICK pc \in {"lensStore", "drop"} : Step(pc)
    BY <1>12 DEF StageLens
  <2>3. tri.pc = "lens" /\ tri.target \in Fps
    BY <1>2, <1>8, <1>12 DEF StageLens, At
  <2>4. TriageOK' /\ tri'.pc = pc
    BY <1>1, <1>2, <1>8, <2>2, <2>3, StepKeeps
  <2>5. VerOK'
    <3>1. /\ AddStagedLens(reg[tri.target], Lens[it.cand]) \in Entry(Lenses, Cands)
          /\ AddStagedLens(reg[tri.target], Lens[it.cand]).status = reg[tri.target].status
      BY <1>2, <1>8, <2>3, RegistryTypes
    <3>2. \/ UNCHANGED reg
          \/ reg' = [reg EXCEPT ![tri.target] = AddStagedLens(reg[tri.target], Lens[it.cand])]
      BY <1>12 DEF StageLens, it
    <3>3. QED
      BY <1>1, <1>2, <1>5, <2>3, <3>1, <3>2, RegKeeps DEF TriageFrame
  <2>6. QED
    BY <1>4, <1>6, <2>1, <2>2, <2>4, <2>5 DEF it
<1>13. CASE StoreLens
  <2>1. tri.pc = "lensStore" /\ tri.target \in Fps /\ Step("drop") /\ UNCHANGED reg
    BY <1>2, <1>8, <1>13 DEF StoreLens, At
  <2>2. Table(finding')
    BY <1>2, <1>3, <1>13, <2>1, WithLensesTable DEF StoreLens, it
  <2>3. Typed
    BY <1>3, <1>13, <2>2 DEF StoreLens
  <2>4. TriageOK' /\ tri'.pc = "drop"
    BY <1>1, <1>2, <1>8, <2>1, StepKeeps
  <2>5. QED
    BY <1>4, <1>5, <1>6, <2>1, <2>3, <2>4 DEF it
<1>14. CASE Fold
  <2>1. PICK f \in FoldRows : tri' = [tri EXCEPT !.pc = FoldStep(finding[f].status), !.target = f]
    BY <1>14 DEF Fold
  <2>2. f \in Fps /\ Stored(f)
    BY DEF FoldRows, Stored
  <2>3. FoldStep(finding[f].status) \in {"suppress", "reopen", "foldLens"}
    BY <1>2, <2>2 DEF FoldStep, Stored, StoreOK, Rows
  <2>4. Typed
    BY <1>3, <1>14 DEF Fold, durable, Unfaulted
  <2>5. tri.pc = "fold" /\ UNCHANGED reg
    BY <1>14 DEF Fold, At
  <2>6. /\ tri' \in Triages /\ tri'.pc \in {"suppress", "reopen", "foldLens"}
        /\ tri'.item = tri.item /\ tri'.target = f
    <3> DEFINE pc == FoldStep(finding[f].status)
    <3>1. tri \in Triages /\ pc \in TriagePcs
      BY <1>2, <2>3 DEF TriageOK, TriagePcs
    <3>2. tri' = [tri EXCEPT !.pc = pc, !.target = f] /\ pc \in {"suppress", "reopen", "foldLens"}
      BY <2>1, <2>3
    <3> HIDE DEF pc
    <3>3. QED
      BY <2>2, <3>1, <3>2 DEF Triages
  <2>7. TriageOK'
    BY <1>1, <1>2, <1>8, <2>2, <2>5, <2>6 DEF TriageOK, Clusters, Working, it
  <2>8. QED
    BY <1>4, <1>5, <1>7, <2>2, <2>4, <2>5, <2>6, <2>7 DEF it
<1>15. CASE SuppressCandidate
  <2>1. tri.pc = "suppress" /\ Step("drop") /\ UNCHANGED reg
    BY <1>15 DEF SuppressCandidate, At
  <2>2. Table(finding')
    BY <1>2, <1>15, WithStatusTable DEF SuppressCandidate, it
  <2>3. suppressed' \subseteq Fps /\ fate' \in [Cands -> {"open", "dropped", "killed", "recorded"}]
    BY <1>2, <1>15 DEF SuppressCandidate, it, StoreOK, RunOK
  <2>4. Typed
    BY <1>3, <1>15, <2>2, <2>3 DEF SuppressCandidate, Unfaulted
  <2>5. TriageOK' /\ tri'.pc = "drop"
    BY <1>1, <1>2, <1>8, <2>1, StepKeeps
  <2>6. QED
    BY <1>4, <1>5, <1>6, <2>1, <2>4, <2>5 DEF it
<1>16. CASE ReopenFixed
  <2>1. tri.pc = "reopen" /\ Step("foldLens") /\ UNCHANGED reg
    BY <1>16 DEF ReopenFixed, At
  <2>2. tri.target \in Fps /\ Stored(tri.target)
    BY <1>7, <2>1
  <2>3. Table(finding')
    BY <1>2, <1>16, <2>2, WithStatusTable DEF ReopenFixed
  <2>4. Typed
    BY <1>3, <1>16, <2>3 DEF ReopenFixed, Unfaulted
  <2>5. TriageOK' /\ tri'.target = tri.target
    BY <1>1, <1>2, <1>8, <2>1, <2>2, StepKeeps
  <2>6. QED
    BY <1>4, <1>5, <1>7, <2>1, <2>2, <2>3, <2>4, <2>5 DEF it
<1>17. CASE FoldLens
  <2>1. tri.pc = "foldLens" /\ Step("foldSite") /\ UNCHANGED reg
    BY <1>17 DEF FoldLens, At
  <2>2. tri.target \in Fps /\ Stored(tri.target)
    BY <1>7, <2>1
  <2>3. Table(finding')
    BY <1>2, <1>17, <2>2, WithLensesTable DEF FoldLens, it
  <2>4. Typed
    BY <1>3, <1>17, <2>3 DEF FoldLens, Unfaulted
  <2>5. TriageOK' /\ tri'.target = tri.target
    BY <1>1, <1>2, <1>8, <2>1, <2>2, StepKeeps
  <2>6. QED
    BY <1>4, <1>5, <1>7, <2>1, <2>2, <2>3, <2>4, <2>5 DEF it
<1>18. CASE FoldSite
  <2>1. tri.pc = "foldSite" /\ Step("drop") /\ UNCHANGED reg
    BY <1>18 DEF FoldSite, At
  <2>2. tri.target \in Fps /\ finding[tri.target].cand \in Cands
    BY <1>2, <1>8, <2>1 DEF TypeInv, FoldTargetOK, StoreOK
  <2>3. Table(finding')
    BY <1>2, <1>18, <2>2, WithSitesTable DEF FoldSite, it
  <2>4. heir' \in [Cands -> Cands] /\ fate' \in [Cands -> {"open", "dropped", "killed", "recorded"}]
    BY <1>2, <1>18, <2>2 DEF FoldSite, it, RunOK
  <2>5. Typed
    BY <1>3, <1>18, <2>3, <2>4 DEF FoldSite, Unfaulted
  <2>6. TriageOK' /\ tri'.pc = "drop"
    BY <1>1, <1>2, <1>8, <2>1, StepKeeps
  <2>7. QED
    BY <1>4, <1>5, <1>6, <2>1, <2>5, <2>6 DEF it
<1>19. CASE DropPending
  <2>1. tri' = IdleTriage /\ UNCHANGED reg
    BY <1>19 DEF DropPending
  <2>2. Typed
    BY <1>3, <1>19 DEF DropPending, it
  <2>3. TriageOK' /\ tri'.pc = "idle"
    BY <1>1, <1>2, <2>1, IdleKeeps DEF IdleTriage
  <2>4. QED
    BY <1>4, <1>5, <1>6, <2>1, <2>2, <2>3 DEF it
<1>20. QED
  BY <1>9, <1>10, <1>11, <1>12, <1>13, <1>14, <1>15, <1>16, <1>17, <1>18, <1>19

LEMMA RegisterMoves ==
  ASSUME TypeInv, RegisterPrimary \/ TriageFails
  PROVE  RestTyped({tri.item.cand}) /\ TriageOK' /\ VerOK' /\ FoldTargetOK'
<1>1. CASE RegisterPrimary
  <2> DEFINE it == tri.item
             v == [IdleVerifier EXCEPT !.pc = "panel", !.item = it]
  <2>1. /\ Running /\ tri.pc = "fold" /\ tri' = IdleTriage
        /\ reg' = [reg EXCEPT ![it.fp] = Registered] /\ ver' = [ver EXCEPT ![it.fp] = v]
        /\ member' = member \cup {[item |-> it, cluster |-> it.fp]} /\ Inherit(it, it.cand)
        /\ UNCHANGED <<durable, found, phase, discovering, candCh, seen, result,
                       errored, walled, fate, bounds, faults>>
    BY <1>1 DEF RegisterPrimary, Register, At
  <2>2. Working /\ tri.pc \in FoldPcs
    BY <2>1 DEF Working, FoldPcs
  <2>3. it \in Items /\ it.cand \in Cands /\ it.fp \in Fps /\ seen[it.fp] # NoCand
    BY <2>2, Constants DEF TypeInv, TriageOK, Items
  <2>4. v \in Verifiers /\ v.pc = "panel" /\ v.item = it
    BY <2>3 DEF IdleVerifier, Verifiers, VerifyPcs
  <2>5. Registered \in Entry(Lenses, Cands) /\ Registered.status = "live"
    BY DEF Registered, NoEntry, Entry, EntryStatus
  <2> HIDE DEF it, v
  <2>6. VerOK'
    BY <2>1, <2>3, <2>4, <2>5 DEF TypeInv, VerOK
  <2>7. TriageOK'
    BY <2>1, <2>2, IdleKeeps DEF TypeInv, it
  <2>8. FoldTargetOK'
    BY <2>1 DEF FoldTargetOK, IdleTriage
  <2>9. heir' \in [Cands -> Cands]
    BY <2>1, <2>3, InheritTypes DEF TypeInv
  <2>10. /\ WalLoses({tri.item.cand}) /\ Table(finding') /\ suppressed' \subseteq Fps
         /\ errored' \in BOOLEAN /\ faults' \in 0..MaxFaults
         /\ fate' \in [Cands -> {"open", "dropped", "killed", "recorded"}]
    BY <2>1, TriageRest DEF durable, Unfaulted
  <2>11. RestTyped({tri.item.cand})
    BY <2>1, <2>9, <2>10, TriageRestTyped
  <2>12. QED
    BY <2>6, <2>7, <2>8, <2>11
<1>2. CASE TriageFails
  <2>1. /\ Running /\ Fault /\ tri' = [tri EXCEPT !.pc = "dead"] /\ candCh' = <<>> /\ errored' = TRUE
        /\ UNCHANGED <<durable, seen, member, reg, heir, fate>> /\ TriageFrame
    BY <1>2 DEF TriageFails
  <2>2. tri' \in Triages /\ tri'.pc = "dead" /\ candCh' \in Seq(Items)
    BY <2>1 DEF TypeInv, TriageOK, Triages, TriagePcs
  <2>3. TriageOK'
    BY <2>1, <2>2 DEF TypeInv, TriageOK, Clusters, Working, TargetPcs, StagePcs, FoldPcs
  <2>4. VerOK'
    BY <2>1, RegKeeps DEF TypeInv, TriageFrame
  <2>5. FoldTargetOK'
    BY <2>2 DEF FoldTargetOK
  <2>6. /\ WalLoses({tri.item.cand}) /\ Table(finding') /\ suppressed' \subseteq Fps
        /\ errored' \in BOOLEAN /\ faults' \in 0..MaxFaults /\ heir' \in [Cands -> Cands]
        /\ fate' \in [Cands -> {"open", "dropped", "killed", "recorded"}]
    BY <2>1, TriageRest DEF durable
  <2>7. RestTyped({tri.item.cand})
    BY <2>1, <2>6, TriageRestTyped DEF TriageFrame
  <2>8. QED
    BY <2>3, <2>4, <2>5, <2>7
<1>3. QED
  BY <1>1, <1>2

LEMMA TriageMoves ==
  ASSUME TypeInv, Triage
  PROVE  RestTyped({tri.item.cand}) /\ TriageOK' /\ VerOK' /\ FoldTargetOK'
BY TakeMoves, WorkMoves, RegisterMoves DEF Triage

-----------------------------------------------------------------------------
(* Runs, finders and operators.                                            *)

LEMMA FreshStart ==
  ASSUME NEW q \in Seq(Items), StartWith(q)
  PROVE  /\ TriageOK' /\ VerOK' /\ FoldTargetOK' /\ errored' \in BOOLEAN
         /\ result' \in [Fps -> [lenses : SUBSET Lenses, sites : SUBSET Cands]]
         /\ tri'.pc = "idle" /\ \A f \in Fps : ver'[f].pc = "none"
<1>1. /\ candCh' = q /\ tri' = IdleTriage /\ seen' = [f \in Fps |-> NoCand] /\ member' = {}
      /\ reg' = [f \in Fps |-> NoEntry] /\ ver' = [f \in Fps |-> IdleVerifier]
      /\ result' = [f \in Fps |-> NoCopy] /\ errored' = FALSE
  BY DEF StartWith
<1>2. IdleTriage \in Triages /\ IdleTriage.pc = "idle" /\ IdleTriage.item = NoItem
  BY DEF IdleTriage, Triages, TriagePcs
<1>3. IdleVerifier \in Verifiers /\ IdleVerifier.pc = "none"
  BY DEF IdleVerifier, Verifiers, VerifyPcs
<1>4. NoEntry \in Entry(Lenses, Cands) /\ NoEntry.status = "none"
  BY DEF NoEntry, Entry, EntryStatus
<1>5. NoCopy \in [lenses : SUBSET Lenses, sites : SUBSET Cands]
  BY DEF NoCopy
<1>6. TriageOK'
  BY <1>1, <1>2 DEF TriageOK, Clusters, Working, TargetPcs, StagePcs, FoldPcs
<1>7. VerOK'
  BY <1>1, <1>3, <1>4 DEF VerOK
<1>8. FoldTargetOK'
  BY <1>1, <1>2 DEF FoldTargetOK
<1>9. QED
  BY <1>1, <1>2, <1>3, <1>5, <1>6, <1>7, <1>8

LEMMA InitTypeInv == Init => TypeInv
<1> SUFFICES ASSUME Init PROVE TypeInv
  OBVIOUS
<1>1. wal = <<>> /\ wal \in Seq(Cands) /\ Len(wal) = 0
  BY EmptySeq DEF Init
<1>2. NoRow \in Rows /\ NoRow.status = "absent"
  BY DEF NoRow, Rows
<1>3. StoreOK
  BY <1>1, <1>2 DEF Init, StoreOK, Stored
<1>4. NoCopy \in [lenses : SUBSET Lenses, sites : SUBSET Cands]
  BY DEF NoCopy
<1>5. RunOK
  <2>1. runs \in 0..MaxRuns /\ crashes \in 0..MaxCrashes /\ faults \in 0..MaxFaults
        /\ commands \in 0..MaxCommands
    BY Bounds DEF Init
  <2>2. /\ heir \in [Cands -> Cands]
        /\ fate \in [Cands -> {"open", "dropped", "killed", "recorded"}]
        /\ result \in [Fps -> [lenses : SUBSET Lenses, sites : SUBSET Cands]]
    BY <1>4 DEF Init
  <2>3. QED
    BY <2>1, <2>2 DEF Init, RunOK
<1>6. IdleTriage \in Triages /\ IdleTriage.pc = "idle" /\ IdleTriage.item = NoItem
  BY DEF IdleTriage, Triages, TriagePcs
<1>7. candCh \in Seq(Items)
  BY EmptySeq DEF Init
<1>8. TriageOK
  BY <1>6, <1>7 DEF Init, TriageOK, Clusters, Working, TargetPcs, StagePcs, FoldPcs
<1>9. IdleVerifier \in Verifiers /\ IdleVerifier.pc = "none"
  BY DEF IdleVerifier, Verifiers, VerifyPcs
<1>10. NoEntry \in Entry(Lenses, Cands) /\ NoEntry.status = "none"
  BY DEF NoEntry, Entry, EntryStatus
<1>11. VerOK
  BY <1>9, <1>10 DEF Init, VerOK
<1>12. WalOK
  BY <1>1 DEF Init, WalOK, Running
<1>13. FoldTargetOK /\ QuietOK
  BY <1>6, <1>9 DEF Init, FoldTargetOK, QuietOK
<1>14. QED
  BY <1>3, <1>5, <1>8, <1>11, <1>12, <1>13 DEF TypeInv

LEMMA ReplaysTyped ==
  ASSUME StoreOK, NEW q \in Replays
  PROVE  /\ q \in Seq(Items) /\ Len(q) = Len(wal)
         /\ \A i \in 1..Len(wal) : q[i] = Replayed(wal[i])
<1>1. q = [i \in 1..Len(wal) |-> Replayed(wal[i])]
  BY DEF Replays
<1>2. Len(wal) \in Nat /\ \A i \in 1..Len(wal) : wal[i] \in Cands
  BY SeqFacts DEF StoreOK
<1>3. \A i \in 1..Len(wal) : Replayed(wal[i]) \in Items
  BY <1>2, NewItems
<1>4. q \in Seq(Items)
  BY <1>1, <1>2, <1>3, SeqDef
<1>5. Len(q) = Len(wal)
  BY <1>1, <1>2, <1>4, LenProperties
<1>6. QED
  BY <1>1, <1>4, <1>5

LEMMA ReverifiesTyped ==
  ASSUME StoreOK, NEW q \in Reverifies
  PROVE  /\ q \in Seq(Items)
         /\ \A i \in 1..Len(q) : \E f \in Fps : Stored(f) /\ q[i] = Reverified(f)
<1> DEFINE stale == {f \in Fps : finding[f].status = "open" /\ finding[f].tier = 3}
<1>1. PICK r \in SetToSeqs(stale) : q = [i \in 1..Len(r) |-> Reverified(r[i])]
  BY DEF Reverifies
<1>2. r \in [1..Cardinality(stale) -> stale]
  BY DEF SetToSeqs, IsInjective
<1>3. Cardinality(stale) \in Nat
  <2>1. IsFiniteSet(stale)
    BY FiniteFps, FS_Subset
  <2>2. QED
    BY <2>1, FS_CardinalityType
<1>4. r \in Seq(stale)
  BY <1>2, <1>3, SeqDef
<1>5. Len(r) \in Nat /\ \A i \in 1..Len(r) : r[i] \in stale
  BY <1>4, SeqFacts
<1>6. \A f \in stale : f \in Fps /\ Stored(f)
  BY DEF Stored
<1> HIDE DEF stale
<1>7. \A i \in 1..Len(r) : Reverified(r[i]) \in Items
  BY <1>5, <1>6, ReverifiedItems
<1>8. q \in Seq(Items)
  BY <1>1, <1>5, <1>7, SeqDef
<1>9. Len(q) = Len(r)
  BY <1>1, <1>5, <1>8, LenProperties
<1>10. QED
  BY <1>1, <1>5, <1>6, <1>8, <1>9

LEMMA StartRunTyped ==
  ASSUME TypeInv, StartRun
  PROVE  TypeInv'
<1>1. PICK q \in Seq(Items) : StartWith(q)
  BY ReplaysTyped, ReverifiesTyped DEF StartRun, TypeInv
<1>2. /\ phase' \in {"scan", "reverify"} /\ discovering' \in BOOLEAN /\ runs < MaxRuns
      /\ runs' = runs + 1 /\ found' = ToSet(wal)
      /\ UNCHANGED <<wal, finding, suppressed, walled, heir, fate, crashes, faults, commands>>
  BY DEF StartRun, durable, history
<1>3. /\ TriageOK' /\ VerOK' /\ FoldTargetOK' /\ errored' \in BOOLEAN
      /\ result' \in [Fps -> [lenses : SUBSET Lenses, sites : SUBSET Cands]]
      /\ tri'.pc = "idle" /\ \A f \in Fps : ver'[f].pc = "none"
  BY <1>1, FreshStart
<1>4. StoreOK'
  BY <1>2 DEF TypeInv, StoreOK, Stored
<1>5. ToSet(wal) \subseteq Cands
  BY SeqFacts DEF TypeInv, StoreOK
<1>6. RunOK'
  BY <1>2, <1>3, <1>5, Bounds DEF TypeInv, RunOK
<1>7. WalOK'
  BY <1>2 DEF TypeInv, WalOK
<1>8. QuietOK'
  BY <1>3 DEF QuietOK
<1>9. QED
  BY <1>3, <1>4, <1>6, <1>7, <1>8 DEF TypeInv

LEMMA DiscoverTyped ==
  ASSUME TypeInv, NEW c \in Cands, Discover(c)
  PROVE  TypeInv'
<1>1. /\ Running /\ discovering /\ c \notin found /\ found' = found \cup {c}
      /\ fate' = [fate EXCEPT ![c] = "open"] /\ heir' = [heir EXCEPT ![c] = c]
      /\ UNCHANGED <<finding, suppressed, phase, discovering, tri, seen, member,
                     reg, ver, result, errored, runs, crashes, commands>>
  BY DEF Discover, shared, bounds
<1>2. wal' = Append(wal, c) \/ UNCHANGED wal
  BY DEF Discover
<1>3. walled' \in {walled \cup {c}, walled \ {c}} /\ faults' \in 0..MaxFaults
  BY FaultBound DEF Discover, TypeInv
<1>4. candCh' \in Seq(Items)
  <2>1. PICK row \in BOOLEAN : Emit(Fresh(c, row))
    BY DEF Discover
  <2>2. Fresh(c, row) \in Items
    BY NewItems
  <2>3. QED
    BY <2>1, <2>2, AppendFacts DEF Emit, TypeInv, TriageOK
<1>5. /\ wal \in Seq(Cands) /\ ToSet(wal) \subseteq found
      /\ \A i, j \in 1..Len(wal) : wal[i] = wal[j] => i = j
  BY <1>1 DEF TypeInv, StoreOK, WalOK
<1>6. /\ wal' \in Seq(Cands) /\ ToSet(wal') \subseteq found'
      /\ \A i, j \in 1..Len(wal') : wal'[i] = wal'[j] => i = j
  <2>1. CASE UNCHANGED wal
    BY <1>1, <1>5, <2>1
  <2>2. CASE wal' = Append(wal, c)
    <3>1. /\ wal' \in Seq(Cands) /\ Len(wal') = Len(wal) + 1 /\ wal'[Len(wal) + 1] = c
          /\ \A i \in 1..Len(wal) : wal'[i] = wal[i]
          /\ ToSet(wal') = ToSet(wal) \cup {c}
      BY <1>5, <2>2, AppendFacts
    <3>2. Len(wal) \in Nat /\ \A i \in 1..Len(wal) : wal[i] # c
      BY <1>1, <1>5, SeqFacts
    <3>3. 1..Len(wal') = 1..Len(wal) \cup {Len(wal) + 1}
      BY <3>1, <3>2
    <3>4. \A i, j \in 1..Len(wal') : wal'[i] = wal'[j] => i = j
      BY <1>5, <3>1, <3>2, <3>3
    <3>5. QED
      BY <1>1, <1>5, <3>1, <3>4
  <2>3. QED
    BY <1>2, <2>1, <2>2
<1>7. StoreOK'
  BY <1>1, <1>6 DEF TypeInv, StoreOK, Stored
<1>8. RunOK'
  BY <1>1, <1>3 DEF TypeInv, RunOK
<1>9. TriageOK'
  BY <1>1, <1>4 DEF TypeInv, TriageOK, Clusters, Working
<1>10. VerOK'
  BY <1>1 DEF TypeInv, VerOK
<1>11. WalOK'
  BY <1>6 DEF WalOK
<1>12. FoldTargetOK' /\ QuietOK'
  BY <1>1 DEF TypeInv, FoldTargetOK, QuietOK, Stored, Running
<1>13. QED
  BY <1>7, <1>8, <1>9, <1>10, <1>11, <1>12 DEF TypeInv

LEMMA CommandTyped ==
  ASSUME TypeInv, NEW f \in Fps, Command(f)
  PROVE  TypeInv'
<1>1. /\ ~Running /\ commands < MaxCommands /\ commands' = commands + 1
      /\ suppressed' \in {suppressed, suppressed \cup {f}}
      /\ finding' \in {WithStatus(f, "dismissed"), WithStatus(f, "fixed")}
      /\ UNCHANGED <<wal, found, phase, discovering, candCh, tri, seen, member,
                     reg, ver, result, errored, walled, heir, fate, runs, crashes, faults>>
  BY DEF Command, triage, shared, history
<1>2. Table(finding')
  BY <1>1, WithStatusTable DEF TypeInv
<1>3. StoreOK'
  BY <1>1, <1>2 DEF TypeInv, StoreOK, Table, Stored
<1>4. RunOK'
  BY <1>1, Bounds DEF TypeInv, RunOK
<1>5. TriageOK' /\ VerOK'
  BY <1>1 DEF TypeInv, TriageOK, VerOK, Clusters, Working
<1>6. WalOK' /\ QuietOK'
  BY <1>1 DEF TypeInv, WalOK, QuietOK, Running
<1>7. FoldTargetOK'
  BY <1>1, <1>2 DEF TypeInv, TriageOK, TargetPcs, FoldTargetOK, Table, Stored
<1>8. QED
  BY <1>3, <1>4, <1>5, <1>6, <1>7 DEF TypeInv

(* A late site is added to rows that are stored, one by one.               *)
LEMMA ReportTable ==
  ASSUME TypeInv, Report
  PROVE  /\ Table(finding') /\ \A f \in Fps : finding'[f].status = finding[f].status
         /\ result' \in [Fps -> [lenses : SUBSET Lenses, sites : SUBSET Cands]]
<1>1. PICK failed \in {{}} \cup {{f} : f \in Returned} :
        /\ finding' = [f \in Fps |->
             WithSites(f, IF f \in Returned \ failed THEN reg[f].lateSites ELSE {})[f]]
        /\ result' = [f \in Fps |->
             IF f \in Returned
             THEN [lenses |-> result[f].lenses \cup reg[f].attachedLate,
                   sites  |-> result[f].sites \cup
                                (IF f \in Returned \ failed THEN reg[f].lateSites ELSE {})]
             ELSE result[f]]
  BY DEF Report
<1> DEFINE Late(f) == IF f \in Returned \ failed THEN reg[f].lateSites ELSE {}
<1>2. \A f \in Fps : /\ Late(f) \subseteq Cands /\ reg[f].attachedLate \subseteq Lenses
                     /\ result[f] \in [lenses : SUBSET Lenses, sites : SUBSET Cands]
  BY DEF TypeInv, VerOK, RunOK, Entry
<1>3. \A f \in Fps : finding'[f] = WithSites(f, Late(f))[f]
  BY <1>1
<1>4. ASSUME NEW f \in Fps
      PROVE  /\ finding'[f] \in Rows /\ finding'[f].status = finding[f].status
             /\ Stored(f) => finding'[f].status # "absent"
             /\ finding'[f].status # "absent" => finding'[f].cand \in Cands
  <2>1. Table(WithSites(f, Late(f))) /\ WithSites(f, Late(f))[f].status = finding[f].status
    BY <1>2, WithSitesTable DEF TypeInv
  <2> HIDE DEF Late
  <2>2. QED
    BY <1>3, <2>1 DEF Table
<1>5. Table(finding')
  BY <1>1, <1>4 DEF Table
<1>6. result' \in [Fps -> [lenses : SUBSET Lenses, sites : SUBSET Cands]]
  BY <1>1, <1>2
<1>7. QED
  BY <1>4, <1>5, <1>6

LEMMA EndTyped ==
  ASSUME TypeInv, FindersEnd \/ Report \/ Abort
  PROVE  TypeInv'
<1>1. /\ UNCHANGED <<wal, suppressed, found, candCh, tri, seen, member, reg, ver, errored,
                     walled, heir, fate, runs, crashes, commands>>
      /\ discovering' \in BOOLEAN
      /\ phase' \in {phase, "reported", "aborted"}
  BY DEF FindersEnd, Report, Abort, durable, triage, shared, history, bounds, TypeInv, RunOK
<1>2. Table(finding') /\ result' \in [Fps -> [lenses : SUBSET Lenses, sites : SUBSET Cands]]
  <2>1. CASE Report
    BY <2>1, ReportTable
  <2>2. CASE FindersEnd \/ Abort
    BY <2>2, SameTable DEF FindersEnd, Abort, durable, shared, TypeInv, RunOK
  <2>3. QED
    BY <2>1, <2>2
<1>3. faults' \in 0..MaxFaults
  BY FaultBound DEF FindersEnd, Report, Abort, Unfaulted, TypeInv
<1>4. StoreOK'
  BY <1>1, <1>2 DEF TypeInv, StoreOK, Table, Stored
<1>5. RunOK'
  BY <1>1, <1>2, <1>3 DEF TypeInv, RunOK
<1>6. TriageOK' /\ VerOK'
  BY <1>1 DEF TypeInv, TriageOK, VerOK, Clusters, Working
<1>7. WalOK'
  BY <1>1 DEF TypeInv, WalOK, Running
<1>8. FoldTargetOK'
  BY <1>1, <1>2 DEF TypeInv, TriageOK, TargetPcs, FoldTargetOK, Table, Stored
<1>9. QuietOK'
  <2>1. CASE Report \/ Abort
    BY <1>1, <2>1 DEF Report, Abort, Joined, QuietOK
  <2>2. CASE FindersEnd
    BY <2>2 DEF FindersEnd, QuietOK, Running
  <2>3. QED
    BY <2>1, <2>2
<1>10. QED
  BY <1>4, <1>5, <1>6, <1>7, <1>8, <1>9 DEF TypeInv

LEMMA CrashTyped ==
  ASSUME TypeInv, Crash
  PROVE  TypeInv'
<1>1. /\ crashes < MaxCrashes /\ crashes' = crashes + 1 /\ phase' = "idle" /\ discovering' = FALSE
      /\ StartWith(<<>>)
      /\ UNCHANGED <<wal, finding, suppressed, found, walled, heir, fate, runs, faults, commands>>
  BY DEF Crash, durable, history
<1>2. <<>> \in Seq(Items)
  BY EmptySeq
<1>3. /\ TriageOK' /\ VerOK' /\ FoldTargetOK' /\ errored' \in BOOLEAN
      /\ result' \in [Fps -> [lenses : SUBSET Lenses, sites : SUBSET Cands]]
      /\ tri'.pc = "idle" /\ \A f \in Fps : ver'[f].pc = "none"
  BY <1>1, <1>2, FreshStart
<1>4. StoreOK'
  BY <1>1 DEF TypeInv, StoreOK, Stored
<1>5. RunOK'
  <2>1. crashes' \in 0..MaxCrashes
    BY <1>1, Bounds DEF TypeInv, RunOK
  <2>2. QED
    BY <1>1, <1>3, <2>1 DEF TypeInv, RunOK
<1>6. WalOK' /\ QuietOK'
  BY <1>1, <1>3 DEF TypeInv, WalOK, QuietOK, Running
<1>7. QED
  BY <1>3, <1>4, <1>5, <1>6 DEF TypeInv

LEMMA TypeInvStep == TypeInv /\ [Next]_vars => TypeInv'
<1> SUFFICES ASSUME TypeInv, [Next]_vars PROVE TypeInv'
  OBVIOUS
<1>1. CASE StartRun
  BY <1>1, StartRunTyped
<1>2. CASE FindersEnd \/ Report \/ Abort
  BY <1>2, EndTyped
<1>3. CASE Crash
  BY <1>3, CrashTyped
<1>4. CASE \E c \in Cands : Discover(c)
  BY <1>4, DiscoverTyped
<1>5. CASE \E f \in Fps : Command(f)
  BY <1>5, CommandTyped
<1>6. CASE \E f \in Fps : Verify(f)
  <2>1. PICK f \in Fps : Verify(f)
    BY <1>6
  <2>2. /\ RestTyped({ver[f].item.cand}) /\ VerifierMoved(f)
        /\ UNCHANGED <<candCh, tri, seen, member>>
    BY <2>1, VerifyMoves
  <2>3. StoreOK' /\ RunOK' /\ WalOK' /\ QuietOK'
    BY <2>2, RestGives
  <2>4. TriageOK'
    BY <2>2 DEF TypeInv, TriageOK, Clusters, Working
  <2>5. VerOK'
    BY <2>2 DEF TypeInv, VerOK, VerifierMoved
  <2>6. FoldTargetOK'
    BY <2>2 DEF TypeInv, TriageOK, TargetPcs, RestTyped, FoldTargetOK, Table, Stored
  <2>7. QED
    BY <2>3, <2>4, <2>5, <2>6 DEF TypeInv
<1>7. CASE Triage
  <2>1. RestTyped({tri.item.cand}) /\ TriageOK' /\ VerOK' /\ FoldTargetOK'
    BY <1>7, TriageMoves
  <2>2. QED
    BY <2>1, RestGives DEF TypeInv
<1>8. CASE UNCHANGED vars
  BY <1>8 DEF vars, TypeInv, StoreOK, RunOK, TriageOK, VerOK, WalOK, FoldTargetOK, QuietOK,
              Stored, Working, Clusters, Running
<1>9. QED
  BY <1>1, <1>2, <1>3, <1>4, <1>5, <1>6, <1>7, <1>8 DEF Next

LEMMA TypeInvHolds == Spec => []TypeInv
BY InitTypeInv, TypeInvStep, PTL DEF Spec

(* The variables of a run keep their types through any interleaving of the *)
(* finders, triage and the verifiers: an idle triage goroutine holds no    *)
(* item, a fingerprint has a verifier exactly when it has an entry in the  *)
(* registry, and the verifier works on that fingerprint's item             *)
(* (funnel/triage_streaming.go, funnel/verify_stream.go).                  *)
THEOREM TypeCorrect == Spec => []TypeOK
BY TypeInvHolds, TypeInvGivesTypeOK, PTL

-----------------------------------------------------------------------------
(* Suppression.                                                            *)

(* A run is a scan or a re-verification, and so is every item in it.       *)
KindedOK ==
  Running =>
    /\ \A i \in 1..Len(candCh) : candCh[i].reverify = (phase = "reverify")
    /\ Working => tri.item.reverify = (phase = "reverify")
    /\ \A f \in Fps : ver[f].pc # "none" => ver[f].item.reverify = (phase = "reverify")
    /\ phase = "reverify" => ~discovering

(* Suppressed rows are dismissed (or were never stored); what triage is    *)
(* about to reopen or register is unsuppressed, and the candidate it folds *)
(* has no verifier; only a re-verification dismisses.                      *)
ClosedOK == \A f \in suppressed : finding[f].status \in {"absent", "dismissed"}
FoldingOK ==
  /\ tri.pc = "reopen" => tri.target \notin suppressed
  /\ tri.pc \in FoldPcs => ver[tri.item.fp].pc = "none"
  /\ tri.pc = "fold" => tri.item.fp \notin suppressed
  /\ tri.pc \in FoldPcs \ {"fold"} => ~tri.item.reverify
FlightOK ==
  /\ InFlightUnsuppressed
  /\ \A f \in Fps : ver[f].pc = "dismiss" => ver[f].item.reverify

SuppressionInv == KindedOK /\ ClosedOK /\ FoldingOK /\ FlightOK

LEMMA ItemKinds ==
  /\ \A c : Replayed(c).reverify = FALSE /\ Replayed(c).cand = c /\ Replayed(c).row = TRUE
  /\ \A c, row : Fresh(c, row).reverify = FALSE /\ Fresh(c, row).cand = c
  /\ \A c : Fresh(c, TRUE).row = TRUE
  /\ \A f : Reverified(f).reverify = TRUE
BY DEF Replayed, Fresh, Reverified, Item

(* What a verifier's step does to suppressions and statuses.               *)
LEMMA VerifyStatus ==
  ASSUME TypeInv, ClosedOK, FlightOK, NEW f \in Fps, Verify(f)
  PROVE  /\ \/ UNCHANGED suppressed
            \/ suppressed' = suppressed \cup {f} /\ ver[f].pc = "dismiss" /\ ver'[f].pc = "forget"
         /\ \A g \in Fps \ {f} : finding'[g].status = finding[g].status
         /\ f \in suppressed' => finding'[f].status \in {"absent", "dismissed"}
         /\ ver'[f].pc = "done" \/ ver[f].pc \notin {"none", "forget", "done"}
         /\ ver'[f].pc = "dismiss" => ver[f].item.reverify
<1>1. /\ StoreOK /\ VerOK /\ ver \in [Fps -> Verifiers] /\ ver[f] \in Verifiers
      /\ ver[f].item \in Items \/ ver[f].pc = "none"
  BY DEF TypeInv, VerOK
<1>2. f \in suppressed => finding[f].status \in {"absent", "dismissed"}
  BY DEF ClosedOK
<1>3. \A pc : Goto(f, pc) => ver'[f].pc = pc
  BY <1>1, VerifierAt DEF Goto, Verifiers
<1>4. CASE Panel(f)
  BY <1>1, <1>2, <1>3, <1>4 DEF Panel, Verifier, durable
<1>5. CASE PersistOrphan(f)
  <2>1. UNCHANGED suppressed /\ ver[f].pc = "orphan"
    BY <1>5 DEF PersistOrphan, Verifier
  <2>2. ver'[f].pc \in {"delete", "unkept"}
    BY <1>1, <1>5 DEF PersistOrphan, Goto, Verifiers
  <2>3. \/ UNCHANGED finding
        \/ finding' = Upserted(f, ver[f].item.cand, 3, ver[f].item.lenses, {ver[f].item.cand})
    BY <1>5 DEF PersistOrphan
  <2>4. ver[f].item.cand \in Cands /\ ver[f].item.lenses \in SUBSET Lenses
    BY <1>1, <2>1 DEF Items
  <2>5. CASE finding' = Upserted(f, ver[f].item.cand, 3, ver[f].item.lenses, {ver[f].item.cand})
    <3>1. /\ \A g \in Fps \ {f} : finding'[g] = finding[g]
          /\ finding'[f].status = IF f \in suppressed THEN "dismissed" ELSE "open"
      BY <1>1, <2>4, <2>5, UpsertedTable
    <3>2. QED
      BY <2>1, <2>2, <3>1
  <2>6. QED
    BY <1>2, <2>1, <2>2, <2>3, <2>5
<1>6. CASE Unkept(f)
  BY <1>1, <1>2, <1>3, <1>6 DEF Unkept, Verifier, durable
<1>7. CASE Kill(f)
  BY <1>1, <1>2, <1>3, <1>7 DEF Kill, Verifier, durable, AfterKill
<1>8. CASE DismissRefuted(f)
  <2>1. ver[f].pc = "dismiss" /\ ver'[f].pc = "forget"
    BY <1>3, <1>8 DEF DismissRefuted, Verifier
  <2>2. CASE finding' = WithStatus(f, "dismissed") /\ suppressed' = suppressed \cup {f}
    <3>1. /\ \A g \in Fps \ {f} : finding'[g] = finding[g]
          /\ finding'[f].status = IF Stored(f) THEN "dismissed" ELSE "absent"
      BY <1>1, <2>2, WithStatusTable
    <3>2. QED
      BY <2>1, <2>2, <3>1
  <2>3. CASE UNCHANGED <<finding, suppressed>>
    BY <1>2, <2>1, <2>3
  <2>4. QED
    BY <1>8, <2>2, <2>3 DEF DismissRefuted
<1>9. CASE ForgetKilled(f)
  BY <1>2, <1>3, <1>9 DEF ForgetKilled
<1>10. CASE DrainLenses(f)
  <2>1. ver'[f].pc = "sites"
    BY <1>1, <1>10 DEF DrainLenses, SurvivorStep, Verifiers
  <2>2. QED
    BY <1>2, <1>10, <2>1 DEF DrainLenses, Verifier, durable
<1>11. CASE DrainSites(f)
  <2>1. ver'[f].pc = "upsert"
    BY <1>1, <1>11 DEF DrainSites, SurvivorStep, Verifiers
  <2>2. QED
    BY <1>2, <1>11, <2>1 DEF DrainSites, Verifier, durable
<1>12. CASE PersistSurvivor(f)
  <2>1. UNCHANGED suppressed /\ ver[f].pc = "upsert" /\ ver'[f].pc \in {"delete", "done"}
    BY <1>3, <1>12 DEF PersistSurvivor, Verifier, SurvivorStep
  <2>2. \/ UNCHANGED finding
        \/ finding' = Upserted(f, ver[f].item.cand, 2, ver[f].lenses, ver[f].sites)
    BY <1>12 DEF PersistSurvivor
  <2>3. /\ ver[f].item.cand \in Cands /\ ver[f].lenses \in SUBSET Lenses
        /\ ver[f].sites \in SUBSET Cands
    BY <1>1, <2>1 DEF Items, Verifiers
  <2>4. CASE finding' = Upserted(f, ver[f].item.cand, 2, ver[f].lenses, ver[f].sites)
    <3>1. /\ \A g \in Fps \ {f} : finding'[g] = finding[g]
          /\ finding'[f].status = IF f \in suppressed THEN "dismissed" ELSE "open"
      BY <1>1, <2>3, <2>4, UpsertedTable
    <3>2. QED
      BY <2>1, <3>1
  <2>5. QED
    BY <1>2, <2>1, <2>2, <2>4
<1>13. CASE DeleteRow(f)
  <2>1. ver'[f].pc \in {"unkept", "signal"}
    BY <1>3, <1>13 DEF DeleteRow, SurvivorStep
  <2>2. QED
    BY <1>2, <1>13, <2>1 DEF DeleteRow, Verifier
<1>14. CASE Signal(f)
  <2>1. ver'[f].pc = "lateLenses"
    BY <1>1, <1>14 DEF Signal, SurvivorStep, Verifiers
  <2>2. QED
    BY <1>2, <1>14, <2>1 DEF Signal, Verifier, durable
<1>15. CASE AttachLateLenses(f)
  <2>1. ver'[f].pc \in {"lateSites", "done"}
    BY <1>3, <1>15 DEF AttachLateLenses
  <2>2. \A g \in Fps : finding'[g].status = finding[g].status
    BY <1>1, <1>15, WithLensesTable DEF AttachLateLenses, Verifiers
  <2>3. QED
    BY <1>2, <1>15, <2>1, <2>2 DEF AttachLateLenses, Verifier
<1>16. CASE AttachLateSites(f)
  <2>1. reg[f].lateSites \in SUBSET Cands
    BY DEF TypeInv, VerOK, Entry
  <2>2. \A g \in Fps : finding'[g].status = finding[g].status
    BY <1>1, <1>16, <2>1, WithSitesTable DEF AttachLateSites
  <2>3. QED
    BY <1>2, <1>3, <1>16, <2>2 DEF AttachLateSites, Verifier
<1>17. QED
  BY <1>4, <1>5, <1>6, <1>7, <1>8, <1>9, <1>10, <1>11, <1>12, <1>13, <1>14, <1>15, <1>16
     DEF Verify

LEMMA VerifySuppressionInv ==
  ASSUME TypeInv, SuppressionInv, NEW f \in Fps, Verify(f)
  PROVE  SuppressionInv'
<1>1. /\ RestTyped({ver[f].item.cand}) /\ VerifierMoved(f)
      /\ UNCHANGED <<candCh, tri, seen, member>>
  BY VerifyMoves
<1>2. /\ \/ UNCHANGED suppressed
         \/ suppressed' = suppressed \cup {f} /\ ver[f].pc = "dismiss" /\ ver'[f].pc = "forget"
      /\ \A g \in Fps \ {f} : finding'[g].status = finding[g].status
      /\ f \in suppressed' => finding'[f].status \in {"absent", "dismissed"}
      /\ ver'[f].pc = "done" \/ ver[f].pc \notin {"none", "forget", "done"}
      /\ ver'[f].pc = "dismiss" => ver[f].item.reverify
  BY VerifyStatus DEF SuppressionInv
<1>3. KindedOK'
  BY <1>1 DEF SuppressionInv, KindedOK, RestTyped, VerifierMoved, Running, Working
<1>4. ClosedOK'
  BY <1>2 DEF SuppressionInv, ClosedOK, TypeInv, StoreOK
<1>5. FoldingOK'
  <2>1. tri.pc \in FoldPcs => ver'[tri.item.fp].pc = "none"
    <3>1. tri.pc \in FoldPcs => tri.item.fp \in Fps
      BY DEF TypeInv, TriageOK, Working, FoldPcs, Items
    <3>2. QED
      BY <1>1, <3>1 DEF SuppressionInv, FoldingOK, VerifierMoved
  <2>2. tri.pc = "fold" => tri.item.fp \notin suppressed'
    BY <1>2 DEF SuppressionInv, FoldingOK, FoldPcs
  <2>3. tri.pc = "reopen" => UNCHANGED suppressed
    <3>1. Running
      BY <1>1 DEF RestTyped
    <3>2. tri.pc = "reopen" => Working /\ ~tri.item.reverify
      BY DEF SuppressionInv, FoldingOK, FoldPcs, Working
    <3>3. ver[f].pc = "dismiss" => ver[f].item.reverify
      BY DEF SuppressionInv, FlightOK
    <3>4. QED
      BY <1>1, <1>2, <3>1, <3>2, <3>3 DEF SuppressionInv, KindedOK, VerifierMoved
  <2>4. QED
    BY <1>1, <2>1, <2>2, <2>3 DEF SuppressionInv, FoldingOK
<1>6. FlightOK'
  <2>1. ASSUME NEW g \in Fps, ver'[g].pc \notin {"none", "forget", "done"}
        PROVE  g \notin suppressed'
    <3>1. CASE g = f
      BY <1>2, <2>1, <3>1 DEF SuppressionInv, FlightOK, InFlightUnsuppressed
    <3>2. CASE g # f
      BY <1>1, <1>2, <2>1, <3>2 DEF SuppressionInv, FlightOK, InFlightUnsuppressed, VerifierMoved
    <3>3. QED
      BY <3>1, <3>2
  <2>2. \A g \in Fps : ver'[g].pc = "dismiss" => ver'[g].item.reverify
    BY <1>1, <1>2 DEF SuppressionInv, FlightOK, VerifierMoved
  <2>3. QED
    BY <2>1, <2>2 DEF FlightOK, InFlightUnsuppressed
<1>7. QED
  BY <1>3, <1>4, <1>5, <1>6 DEF SuppressionInv

(* A step of triage that touches neither suppressions, statuses nor        *)
(* verifiers, and goes to no folding statement.                            *)
LEMMA QuietTriage ==
  ASSUME SuppressionInv, UNCHANGED <<phase, discovering, suppressed, ver>>,
         \A f \in Fps : finding'[f].status = finding[f].status,
         suppressed \subseteq Fps,
         \/ UNCHANGED candCh
         \/ \A i \in 1..Len(candCh') : \E j \in 1..Len(candCh) : candCh'[i] = candCh[j],
         tri'.pc \notin FoldPcs,
         Running /\ tri'.pc \notin {"idle", "dead"} =>
           tri'.item.reverify = (phase = "reverify")
  PROVE  SuppressionInv'
<1>1. KindedOK'
  BY DEF SuppressionInv, KindedOK, Running, Working
<1>2. ClosedOK'
  BY DEF SuppressionInv, ClosedOK
<1>3. FoldingOK'
  BY DEF FoldingOK, FoldPcs
<1>4. FlightOK'
  BY DEF SuppressionInv, FlightOK, InFlightUnsuppressed
<1>5. QED
  BY <1>1, <1>2, <1>3, <1>4 DEF SuppressionInv

LEMMA TakeSuppressionInv ==
  ASSUME TypeInv, SuppressionInv, NEW it,
         \/ TakeUnfit(it) \/ TakeDuplicate(it) \/ TakeSuppressed(it)
         \/ TakeMember(it) \/ TakeUnclustered(it)
  PROVE  SuppressionInv'
<1>1. Arriving(it) /\ TriageFrame /\ UNCHANGED durable
  BY DEF TakeUnfit, TakeDuplicate, TakeSuppressed, TakeMember, TakeUnclustered, New
<1>2. PICK pc \in {"drop", "site", "memberDrop", "fold"} : \E target : Dequeue(pc, it, target)
  BY DEF TakeUnfit, TakeDuplicate, TakeSuppressed, TakeMember, TakeUnclustered
<1>3. /\ it \in Items /\ it.fp \in Fps /\ Len(candCh) >= 1 /\ it = candCh[1]
      /\ Len(Tail(candCh)) = Len(candCh) - 1 /\ Len(candCh) \in Nat
      /\ \A i \in 1..(Len(candCh) - 1) : Tail(candCh)[i] = candCh[i + 1]
  BY <1>1, ArrivingItem, LenProperties DEF TypeInv, TriageOK
<1>4. candCh' = Tail(candCh) /\ tri'.pc = pc /\ tri'.item = it
  BY <1>2 DEF Dequeue
<1>5. \A i \in 1..Len(candCh') : i + 1 \in 1..Len(candCh) /\ candCh'[i] = candCh[i + 1]
  BY <1>3, <1>4
<1>6. Running /\ it.reverify = (phase = "reverify")
  BY <1>1, <1>3 DEF Arriving, SuppressionInv, KindedOK
<1>7. UNCHANGED <<phase, discovering, suppressed, ver, finding>>
  BY <1>1 DEF TriageFrame, durable
<1>8. CASE pc # "fold"
  BY <1>4, <1>5, <1>6, <1>7, <1>8, QuietTriage DEF TypeInv, StoreOK, FoldPcs
<1>9. CASE pc = "fold"
  <2>1. TakeUnclustered(it)
    BY <1>4, <1>9 DEF TakeUnfit, TakeDuplicate, TakeSuppressed, TakeMember, Dequeue
  <2>2. it.fp \notin suppressed /\ ver[it.fp].pc = "none"
    BY <1>3, <2>1 DEF TakeUnclustered, New, IsSuppressed, TypeInv, VerOK
  <2>3. KindedOK'
    BY <1>4, <1>5, <1>6, <1>7 DEF SuppressionInv, KindedOK, Running, Working
  <2>4. ClosedOK' /\ FlightOK'
    BY <1>7 DEF SuppressionInv, ClosedOK, FlightOK, InFlightUnsuppressed
  <2>5. FoldingOK'
    BY <1>4, <1>7, <1>9, <2>2 DEF FoldingOK
  <2>6. QED
    BY <2>3, <2>4, <2>5 DEF SuppressionInv
<1>10. QED
  BY <1>8, <1>9

LEMMA WorkSuppressionInv ==
  ASSUME TypeInv, SuppressionInv,
         \/ MemberDrop \/ StageSite \/ StoreSite \/ StageLens \/ StoreLens
         \/ Fold \/ SuppressCandidate \/ ReopenFixed \/ FoldLens \/ FoldSite
         \/ DropPending \/ TriageFails
  PROVE  SuppressionInv'
<1> DEFINE it == tri.item
<1>1. Running /\ TriageFrame
  BY DEF MemberDrop, StageSite, StoreSite, StageLens, StoreLens, Fold, SuppressCandidate,
         ReopenFixed, FoldLens, FoldSite, DropPending, TriageFails, At
<1>2. UNCHANGED <<phase, discovering, ver>>
  BY <1>1 DEF TriageFrame
<1>3. /\ StoreOK /\ tri \in Triages /\ suppressed \subseteq Fps
      /\ Working => it \in Items /\ it.cand \in Cands /\ it.fp \in Fps
                    /\ Lens[it.cand] \in Lenses /\ it.reverify = (phase = "reverify")
      /\ tri.pc \in TargetPcs => tri.target \in Fps
  BY <1>1, Constants DEF TypeInv, StoreOK, TriageOK, Items, SuppressionInv, KindedOK
<1>4. \A pc : Step(pc) => tri'.pc = pc /\ tri'.item = it /\ tri'.target = tri.target
  BY <1>3 DEF Step, Triages
<1>5. ASSUME MemberDrop \/ StageSite \/ StoreSite \/ StageLens \/ StoreLens \/ FoldSite \/ DropPending
      PROVE  SuppressionInv'
  <2>1. UNCHANGED <<suppressed, candCh>> /\ Working
    BY <1>5 DEF MemberDrop, StageSite, StoreSite, StageLens, StoreLens, FoldSite, DropPending,
                durable, At, Working
  <2>2. tri'.pc \in {"idle", "drop", "site", "siteStore", "lens", "lensStore"}
    <3>1. CASE MemberDrop
      BY <1>3, <3>1 DEF MemberDrop, Triages
    <3>2. CASE DropPending
      BY <3>2 DEF DropPending, IdleTriage
    <3>3. CASE StageSite \/ StoreSite \/ StageLens \/ StoreLens \/ FoldSite
      <4>1. \E pc \in {"drop", "siteStore", "lens", "lensStore"} : Step(pc)
        BY <3>3 DEF StageSite, StoreSite, StageLens, StoreLens, FoldSite
      <4>2. QED
        BY <1>4, <4>1
    <3>4. QED
      BY <1>5, <3>1, <3>2, <3>3
  <2>3. tri'.pc # "idle" => tri'.item.reverify = it.reverify
    <3>1. CASE MemberDrop
      <4>1. tri' = [tri EXCEPT !.pc = "site", !.item = [it EXCEPT !.row = FALSE]]
        BY <3>1 DEF MemberDrop
      <4>2. [it EXCEPT !.row = FALSE].reverify = it.reverify
        BY <1>3, <2>1 DEF Items
      <4>3. QED
        BY <1>3, <4>1, <4>2 DEF Triages
    <3>2. CASE DropPending
      BY <3>2 DEF DropPending, IdleTriage
    <3>3. CASE StageSite \/ StoreSite \/ StageLens \/ StoreLens \/ FoldSite
      BY <1>4, <3>3 DEF StageSite, StoreSite, StageLens, StoreLens, FoldSite
    <3>4. QED
      BY <1>5, <3>1, <3>2, <3>3
  <2>4. \A f \in Fps : finding'[f].status = finding[f].status
    <3>1. UNCHANGED finding \/ StoreSite \/ StoreLens \/ FoldSite
      BY <1>5 DEF MemberDrop, StageSite, StageLens, DropPending, durable
    <3>2. CASE StoreSite \/ FoldSite
      <4>1. /\ UNCHANGED finding \/ finding' = WithSites(tri.target, {it.cand})
            /\ tri.pc \in {"siteStore", "foldSite"}
        BY <3>2 DEF StoreSite, FoldSite, At
      <4>2. tri.target \in Fps
        BY <1>3, <4>1 DEF TargetPcs, StagePcs
      <4>3. QED
        BY <1>3, <2>1, <4>1, <4>2, WithSitesTable
    <3>3. CASE StoreLens
      <4>1. /\ UNCHANGED finding \/ finding' = WithLenses(tri.target, {Lens[it.cand]})
            /\ tri.pc = "lensStore"
        BY <3>3 DEF StoreLens, At
      <4>2. tri.target \in Fps
        BY <1>3, <4>1 DEF TargetPcs, StagePcs
      <4>3. QED
        BY <1>3, <2>1, <4>1, <4>2, WithLensesTable
    <3>4. QED
      BY <3>1, <3>2, <3>3
  <2>5. tri'.pc \notin FoldPcs
    BY <2>2 DEF FoldPcs
  <2> HIDE DEF it
  <2>6. QED
    BY <1>2, <1>3, <2>1, <2>3, <2>4, <2>5, QuietTriage
<1>6. CASE TriageFails
  <2>1. tri'.pc = "dead" /\ candCh' = <<>> /\ UNCHANGED <<finding, suppressed>>
    BY <1>3, <1>6 DEF TriageFails, Triages, durable
  <2>2. Len(candCh') = 0 /\ 1..0 = {}
    BY <2>1, EmptySeq
  <2>3. QED
    BY <1>2, <1>3, <2>1, <2>2, QuietTriage DEF FoldPcs
<1>7. CASE SuppressCandidate
  <2>1. /\ tri.pc = "suppress" /\ Step("drop") /\ UNCHANGED candCh
        /\ suppressed' = suppressed \cup {it.fp} /\ finding' = WithStatus(it.fp, "dismissed")
    BY <1>7 DEF SuppressCandidate, At
  <2>2. Working /\ tri.pc \in FoldPcs
    BY <2>1 DEF Working, FoldPcs
  <2>3. /\ \A g \in Fps \ {it.fp} : finding'[g] = finding[g]
        /\ finding'[it.fp].status = IF Stored(it.fp) THEN "dismissed" ELSE "absent"
    BY <1>3, <2>1, <2>2, WithStatusTable
  <2>4. KindedOK'
    BY <1>2, <1>3, <1>4, <2>1, <2>2 DEF SuppressionInv, KindedOK, Running, Working
  <2>5. ClosedOK'
    BY <1>3, <2>1, <2>3 DEF SuppressionInv, ClosedOK
  <2>6. FoldingOK'
    BY <1>4, <2>1 DEF FoldingOK, FoldPcs
  <2>7. ver[it.fp].pc = "none"
    BY <2>2 DEF SuppressionInv, FoldingOK
  <2>8. FlightOK'
    BY <1>2, <2>1, <2>7 DEF SuppressionInv, FlightOK, InFlightUnsuppressed
  <2>9. QED
    BY <2>4, <2>5, <2>6, <2>8 DEF SuppressionInv
<1>8. CASE Fold
  <2>1. PICK f \in FoldRows : tri' = [tri EXCEPT !.pc = FoldStep(finding[f].status), !.target = f]
    BY <1>8 DEF Fold
  <2>2. f \in Fps /\ finding[f].status \in {"open", "fixed", "dismissed"}
    BY <1>3 DEF FoldRows, StoreOK, Rows
  <2>3. /\ tri'.pc = FoldStep(finding[f].status) /\ tri'.item = it /\ tri'.target = f
    BY <1>3, <2>1 DEF Triages
  <2>4. /\ tri.pc = "fold" /\ ~it.reverify /\ UNCHANGED <<finding, suppressed, candCh>>
    BY <1>8 DEF Fold, At, durable
  <2>5. Working /\ tri.pc \in FoldPcs
    BY <2>4 DEF Working, FoldPcs
  <2>6. tri'.pc \in {"suppress", "reopen", "foldLens"} /\ (tri'.pc = "reopen" => finding[f].status = "fixed")
    BY <2>2, <2>3 DEF FoldStep
  <2>7. KindedOK'
    BY <1>2, <2>3, <2>4, <2>5 DEF SuppressionInv, KindedOK, Running, Working
  <2>8. ClosedOK' /\ FlightOK'
    BY <1>2, <2>4 DEF SuppressionInv, ClosedOK, FlightOK, InFlightUnsuppressed
  <2>9. FoldingOK'
    <3>1. tri'.pc = "reopen" => f \notin suppressed
      BY <2>6 DEF SuppressionInv, ClosedOK
    <3>2. ver[it.fp].pc = "none"
      BY <2>5 DEF SuppressionInv, FoldingOK
    <3>3. QED
      BY <1>2, <2>3, <2>4, <2>6, <3>1, <3>2 DEF FoldingOK
  <2>10. QED
    BY <2>7, <2>8, <2>9 DEF SuppressionInv
<1>9. CASE ReopenFixed \/ FoldLens
  <2>1. /\ tri.pc \in {"reopen", "foldLens"} /\ UNCHANGED <<suppressed, candCh>>
        /\ \E pc \in {"foldLens", "foldSite"} : Step(pc)
    BY <1>9 DEF ReopenFixed, FoldLens, At
  <2>2. Working /\ tri.pc \in FoldPcs \ {"fold"} /\ tri.pc \in TargetPcs
    BY <2>1 DEF Working, FoldPcs, TargetPcs
  <2>3. tri'.pc \in {"foldLens", "foldSite"} /\ tri'.item = it
    BY <1>4, <2>1
  <2>4. \A f \in suppressed : finding'[f].status = finding[f].status
    <3>1. CASE ReopenFixed
      <4>1. tri.target \in Fps \ suppressed /\ finding' = WithStatus(tri.target, "open")
        BY <1>3, <2>2, <3>1 DEF ReopenFixed, At, SuppressionInv, FoldingOK
      <4>2. QED
        BY <1>3, <4>1, WithStatusTable
    <3>2. CASE FoldLens
      <4>1. tri.target \in Fps /\ finding' = WithLenses(tri.target, {Lens[it.cand]})
        BY <1>3, <2>2, <3>2 DEF FoldLens
      <4>2. QED
        BY <1>3, <2>2, <4>1, WithLensesTable
    <3>3. QED
      BY <1>9, <3>1, <3>2
  <2>5. KindedOK'
    BY <1>2, <2>1, <2>2, <2>3 DEF SuppressionInv, KindedOK, Running, Working
  <2>6. ClosedOK' /\ FlightOK'
    BY <1>2, <2>1, <2>4 DEF SuppressionInv, ClosedOK, FlightOK, InFlightUnsuppressed
  <2>7. FoldingOK'
    <3>1. ver[it.fp].pc = "none" /\ ~it.reverify
      BY <2>2 DEF SuppressionInv, FoldingOK
    <3>2. QED
      BY <1>2, <2>3, <3>1 DEF FoldingOK
  <2>8. QED
    BY <2>5, <2>6, <2>7 DEF SuppressionInv
<1>10. QED
  BY <1>5, <1>6, <1>7, <1>8, <1>9

LEMMA RegisterSuppressionInv ==
  ASSUME TypeInv, SuppressionInv, RegisterPrimary
  PROVE  SuppressionInv'
<1> DEFINE it == tri.item
           v == [IdleVerifier EXCEPT !.pc = "panel", !.item = it]
<1>1. /\ Running /\ tri.pc = "fold" /\ tri' = IdleTriage /\ ver' = [ver EXCEPT ![it.fp] = v]
      /\ UNCHANGED <<finding, suppressed, phase, discovering, candCh>>
  BY DEF RegisterPrimary, At, durable
<1>2. /\ v.pc = "panel" /\ v.item = it /\ tri'.pc = "idle"
  BY <1>1 DEF IdleVerifier, IdleTriage
<1>3. Working /\ tri.pc \in FoldPcs
  BY <1>1 DEF Working, FoldPcs
<1>4. it.fp \in Fps /\ it.fp \notin suppressed /\ it.reverify = (phase = "reverify")
  BY <1>1, <1>3 DEF TypeInv, TriageOK, Items, SuppressionInv, FoldingOK, KindedOK
<1> HIDE DEF it, v
<1>5. /\ ver'[it.fp].pc = "panel" /\ ver'[it.fp].item = it
      /\ \A g \in Fps \ {it.fp} : ver'[g] = ver[g]
  BY <1>1, <1>2, <1>4 DEF TypeInv, VerOK
<1>6. KindedOK'
  BY <1>1, <1>2, <1>4, <1>5 DEF SuppressionInv, KindedOK, Running, Working
<1>7. ClosedOK'
  BY <1>1 DEF SuppressionInv, ClosedOK
<1>8. FoldingOK'
  BY <1>2 DEF FoldingOK, FoldPcs
<1>9. FlightOK'
  BY <1>1, <1>4, <1>5 DEF SuppressionInv, FlightOK, InFlightUnsuppressed
<1>10. QED
  BY <1>6, <1>7, <1>8, <1>9 DEF SuppressionInv

LEMMA RunSuppressionInv ==
  ASSUME TypeInv, SuppressionInv, StartRun \/ Crash
  PROVE  SuppressionInv'
<1>1. PICK q \in Seq(Items) :
        /\ StartWith(q)
        /\ phase' \in {"scan", "reverify"} => \A i \in 1..Len(q) : q[i].reverify = (phase' = "reverify")
        /\ phase' \in {"scan", "reverify"} /\ phase' = "reverify" => ~discovering'
  <2>1. CASE Crash
    <3>1. StartWith(<<>>) /\ phase' = "idle" /\ <<>> \in Seq(Items)
      BY <2>1, EmptySeq DEF Crash
    <3>2. QED
      BY <3>1
  <2>2. CASE StartRun
    <3>1. CASE /\ \E q \in Replays : StartWith(q)
               /\ phase' = "scan" /\ discovering' = TRUE
      <4>1. PICK q \in Replays : StartWith(q)
        BY <3>1
      <4>2. /\ q \in Seq(Items) /\ Len(q) = Len(wal)
            /\ \A i \in 1..Len(wal) : q[i] = Replayed(wal[i]) /\ wal[i] \in Cands
        BY ReplaysTyped, SeqFacts DEF TypeInv, StoreOK
      <4>4. \A i \in 1..Len(q) : q[i].reverify = FALSE
        BY <4>2, ItemKinds
      <4>5. (phase' = "reverify") = FALSE
        BY <3>1
      <4>6. QED
        BY <3>1, <4>1, <4>2, <4>4, <4>5
    <3>2. CASE /\ \E q \in Reverifies : q # <<>> /\ StartWith(q)
               /\ phase' = "reverify" /\ discovering' = FALSE
      <4>1. PICK q \in Reverifies : StartWith(q)
        BY <3>2
      <4>2. /\ q \in Seq(Items)
            /\ \A i \in 1..Len(q) : \E f \in Fps : Stored(f) /\ q[i] = Reverified(f)
        BY ReverifiesTyped DEF TypeInv
      <4>3. \A i \in 1..Len(q) : q[i].reverify = TRUE
        BY <4>2, ItemKinds
      <4>4. QED
        BY <3>2, <4>1, <4>2, <4>3
    <3>3. QED
      BY <2>2, <3>1, <3>2 DEF StartRun
  <2>3. QED
    BY <2>1, <2>2
<1>2. candCh' = q /\ tri'.pc = "idle" /\ \A f \in Fps : ver'[f].pc = "none"
  BY <1>1, FreshStart DEF StartWith
<1>3. UNCHANGED <<finding, suppressed>>
  BY DEF StartRun, Crash, durable
<1>4. KindedOK'
  BY <1>1, <1>2 DEF KindedOK, Running, Working
<1>5. ClosedOK' /\ FoldingOK'
  BY <1>2, <1>3 DEF SuppressionInv, ClosedOK, FoldingOK, FoldPcs
<1>6. FlightOK'
  BY <1>2 DEF FlightOK, InFlightUnsuppressed
<1>7. QED
  BY <1>4, <1>5, <1>6 DEF SuppressionInv

LEMMA DiscoverSuppressionInv ==
  ASSUME TypeInv, SuppressionInv, NEW c \in Cands, Discover(c)
  PROVE  SuppressionInv'
<1>1. /\ Running /\ discovering
      /\ UNCHANGED <<finding, suppressed, phase, discovering, tri, ver>>
  BY DEF Discover, shared
<1>2. PICK row \in BOOLEAN : Emit(Fresh(c, row))
  BY DEF Discover
<1>3. phase # "reverify" /\ Fresh(c, row).reverify = FALSE /\ Fresh(c, row) \in Items
  BY <1>1, NewItems DEF SuppressionInv, KindedOK, Fresh, Item
<1>4. \A i \in 1..Len(candCh') : candCh'[i].reverify = (phase = "reverify")
  <2>1. CASE candCh' = Append(candCh, Fresh(c, row))
    <3>1. /\ Len(candCh') = Len(candCh) + 1 /\ candCh'[Len(candCh) + 1] = Fresh(c, row)
          /\ \A i \in 1..Len(candCh) : candCh'[i] = candCh[i] /\ Len(candCh) \in Nat
      BY <1>3, <2>1, AppendFacts, LenProperties DEF TypeInv, TriageOK
    <3>2. Len(candCh) \in Nat
      BY LenProperties DEF TypeInv, TriageOK
    <3>3. \A i \in 1..Len(candCh) : candCh[i].reverify = (phase = "reverify")
      BY <1>1 DEF SuppressionInv, KindedOK
    <3>4. 1..Len(candCh') = 1..Len(candCh) \cup {Len(candCh) + 1}
      BY <3>1, <3>2
    <3>5. (phase = "reverify") = FALSE
      BY <1>3
    <3>6. QED
      BY <1>3, <3>1, <3>3, <3>4, <3>5
  <2>2. CASE UNCHANGED candCh
    BY <1>1, <2>2 DEF SuppressionInv, KindedOK
  <2>3. QED
    BY <1>2, <2>1, <2>2 DEF Emit
<1>5. KindedOK'
  BY <1>1, <1>4 DEF SuppressionInv, KindedOK, Running, Working
<1>6. ClosedOK' /\ FoldingOK' /\ FlightOK'
  BY <1>1 DEF SuppressionInv, ClosedOK, FoldingOK, FlightOK, InFlightUnsuppressed
<1>7. QED
  BY <1>5, <1>6 DEF SuppressionInv

LEMMA CommandSuppressionInv ==
  ASSUME TypeInv, SuppressionInv, NEW f \in Fps, Command(f)
  PROVE  SuppressionInv'
<1>1. /\ ~Running
      /\ \/ suppressed' = suppressed \cup {f} /\ finding' = WithStatus(f, "dismissed")
         \/ finding[f].status = "open" /\ finding' = WithStatus(f, "fixed") /\ UNCHANGED suppressed
      /\ UNCHANGED <<phase, tri, ver>>
  BY DEF Command, triage, shared
<1>2. KindedOK'
  BY <1>1 DEF KindedOK, Running
<1>3. \A g \in Fps : ver[g].pc \in {"none", "done"}
  BY <1>1 DEF TypeInv, QuietOK
<1>4. tri.pc \in {"idle", "dead"}
  BY <1>1 DEF TypeInv, QuietOK
<1>5. FoldingOK' /\ FlightOK'
  BY <1>1, <1>3, <1>4 DEF FoldingOK, FoldPcs, FlightOK, InFlightUnsuppressed
<1>6. ClosedOK'
  <2>1. CASE suppressed' = suppressed \cup {f} /\ finding' = WithStatus(f, "dismissed")
    <3>1. /\ \A g \in Fps \ {f} : finding'[g] = finding[g]
          /\ finding'[f].status \in {"absent", "dismissed"}
      BY <2>1, WithStatusTable DEF TypeInv
    <3>2. QED
      BY <2>1, <3>1 DEF SuppressionInv, ClosedOK, TypeInv, StoreOK
  <2>2. CASE finding[f].status = "open" /\ finding' = WithStatus(f, "fixed") /\ UNCHANGED suppressed
    <3>1. \A g \in Fps \ {f} : finding'[g] = finding[g]
      BY <2>2, WithStatusTable DEF TypeInv
    <3>2. f \notin suppressed
      BY <2>2 DEF SuppressionInv, ClosedOK
    <3>3. QED
      BY <2>2, <3>1, <3>2 DEF SuppressionInv, ClosedOK, TypeInv, StoreOK
  <2>3. QED
    BY <1>1, <2>1, <2>2
<1>7. QED
  BY <1>2, <1>5, <1>6 DEF SuppressionInv

LEMMA EndSuppressionInv ==
  ASSUME TypeInv, SuppressionInv, FindersEnd \/ Report \/ Abort
  PROVE  SuppressionInv'
<1>1. UNCHANGED <<suppressed, candCh, tri, ver>>
  BY DEF FindersEnd, Report, Abort, durable, triage, shared
<1>2. /\ Running
      /\ \/ UNCHANGED phase /\ discovering' = FALSE
         \/ phase' \in {"reported", "aborted"}
  BY DEF FindersEnd, Report, Abort, Joined
<1>3. \A f \in Fps : finding'[f].status = finding[f].status
  BY ReportTable DEF FindersEnd, Abort, durable
<1>4. KindedOK'
  BY <1>1, <1>2 DEF SuppressionInv, KindedOK, Running, Working
<1>5. ClosedOK' /\ FoldingOK' /\ FlightOK'
  BY <1>1, <1>3 DEF SuppressionInv, ClosedOK, FoldingOK, FlightOK, InFlightUnsuppressed, TypeInv,
                    StoreOK
<1>6. QED
  BY <1>4, <1>5 DEF SuppressionInv

LEMMA InitSuppressionInv == Init => SuppressionInv
<1> SUFFICES ASSUME Init PROVE SuppressionInv
  OBVIOUS
<1>1. tri.pc = "idle" /\ suppressed = {} /\ ~Running
  BY DEF Init, IdleTriage, Running
<1>2. \A f \in Fps : ver[f].pc = "none"
  BY DEF Init, IdleVerifier
<1>3. QED
  BY <1>1, <1>2 DEF SuppressionInv, KindedOK, ClosedOK, FoldingOK, FoldPcs, FlightOK,
                    InFlightUnsuppressed

LEMMA SuppressionInvStep == TypeInv /\ SuppressionInv /\ [Next]_vars => SuppressionInv'
<1> SUFFICES ASSUME TypeInv, SuppressionInv, [Next]_vars PROVE SuppressionInv'
  OBVIOUS
<1>1. CASE StartRun \/ Crash
  BY <1>1, RunSuppressionInv
<1>2. CASE FindersEnd \/ Report \/ Abort
  BY <1>2, EndSuppressionInv
<1>3. CASE \E c \in Cands : Discover(c)
  BY <1>3, DiscoverSuppressionInv
<1>4. CASE \E f \in Fps : Verify(f) \/ Command(f)
  BY <1>4, VerifySuppressionInv, CommandSuppressionInv
<1>5. CASE Triage
  BY <1>5, TakeSuppressionInv, WorkSuppressionInv, RegisterSuppressionInv DEF Triage
<1>6. CASE UNCHANGED vars
  BY <1>6 DEF vars, SuppressionInv, KindedOK, ClosedOK, FoldingOK, FlightOK,
              InFlightUnsuppressed, Running, Working
<1>7. QED
  BY <1>1, <1>2, <1>3, <1>4, <1>5, <1>6 DEF Next

LEMMA SuppressionInvHolds == Spec => []SuppressionInv
<1>1. TypeInv /\ SuppressionInv /\ [Next]_vars => SuppressionInv'
  BY SuppressionInvStep
<1>2. QED
  BY <1>1, InitSuppressionInv, TypeInvHolds, PTL DEF Spec

(* A dismissed bug never resurfaces: whatever verification, a merge into a *)
(* row, a regression or an operator writes, a suppressed fingerprint's row *)
(* is not open (store/findings.go, funnel/triage_streaming.go).            *)
THEOREM SuppressedRowsStayClosed == Spec => []SuppressedStayClosed
<1>1. SuppressionInv => SuppressedStayClosed
  BY DEF SuppressionInv, ClosedOK, SuppressedStayClosed
<1>2. QED
  BY <1>1, SuppressionInvHolds, PTL

(* No panel is spent on a suppressed bug: a suppression comes before a     *)
(* primary is registered or after its verifier has stopped writing         *)
(* (triage_streaming.go:414-434, verify_stream.go:454).                    *)
THEOREM NoPanelOnSuppressed == Spec => []InFlightUnsuppressed
<1>1. SuppressionInv => InFlightUnsuppressed
  BY DEF SuppressionInv, FlightOK
<1>2. QED
  BY <1>1, SuppressionInvHolds, PTL

-----------------------------------------------------------------------------
(* No claim is lost.                                                       *)

Waiting == {candCh[i].cand : i \in 1..Len(candCh)}

(* A candidate is safe while it has no row to lose, its row is there, or   *)
(* its fate is settled; it is placed when its fate is settled or it stands *)
(* with the primary of a cluster; and it is merged from the moment triage  *)
(* gives it to another until its own row is dropped.                       *)
Safe(c)   == c \notin walled \/ c \in ToSet(wal) \/ fate[c] # "open"
Placed(c) == fate[c] # "open" \/ \E cl \in Clusters : heir[c] = seen[cl]
Merged ==
  \/ tri.pc \in StagePcs
  \/ tri.pc = "drop" /\ fate[tri.item.cand] = "open"

SafeNext(c)   == c \notin walled' \/ c \in ToSet(wal') \/ fate'[c] # "open"
PlacedNext(c) == fate'[c] # "open" \/ \E cl \in Clusters' : heir'[c] = seen'[cl]

(* In a scan a candidate is at one place at a time: it waits, or triage    *)
(* works on it, or it has been seen; and no cluster is that of the item at *)
(* work.                                                                   *)
DistinctOK ==
  phase = "scan" =>
    /\ \A i, j \in 1..Len(candCh) : candCh[i].cand = candCh[j].cand => i = j
    /\ Waiting \subseteq found
    /\ \A f \in Fps : seen[f] # NoCand => seen[f] \in found \ Waiting
    /\ Working => tri.item.cand \in found \ Waiting
    /\ Working => \A cl \in Clusters : seen[cl] # tri.item.cand
    /\ \A f \in Fps : ver[f].pc # "none" => ver[f].item.cand \in found

(* What an unsettled candidate stands with is safe;                        *)
HeirsOK == \A c \in Cands : fate[c] = "open" => Safe(heir[c])
(* and so is, in a scan, what waits, what triage may yet register, and the *)
(* primary of each cluster. A verifier deletes only the row of a settled   *)
(* candidate, and nobody stands with a merged one, whose row goes.         *)
ScanOK ==
  phase = "scan" =>
    /\ \A c \in Waiting : Safe(c)
    /\ tri.pc \in FoldPcs => Safe(tri.item.cand)
    /\ \A cl \in Clusters : Safe(seen[cl])
    /\ \A f \in Fps : ver[f].pc \in {"forget", "delete"} => fate[ver[f].item.cand] # "open"
    /\ tri.pc # "dead" =>
         \A f \in Fps : seen[f] # NoCand =>
           Placed(seen[f]) \/ (Working /\ seen[f] = tri.item.cand)
    /\ Merged =>
         /\ \A c \in Cands : heir[c] # tri.item.cand
         /\ \A f \in Fps : seen[f] = tri.item.cand =>
              \E cl \in Clusters : heir[tri.item.cand] = seen[cl]

ClaimInv == DistinctOK /\ HeirsOK /\ ScanOK

LEMMA ClaimInvGivesNeverLost ==
  TypeInv /\ ClaimInv => ClaimNeverLost
<1> SUFFICES ASSUME TypeInv, ClaimInv, NEW c \in walled, heir[c] \in walled
             PROVE  \E own \in {c, heir[c]} : own \in ToSet(wal) \/ fate[own] # "open"
  BY DEF ClaimNeverLost
<1>1. c \in Cands
  BY DEF TypeInv, RunOK
<1>2. CASE fate[c] # "open"
  BY <1>2
<1>3. CASE fate[c] = "open"
  BY <1>1, <1>3 DEF ClaimInv, HeirsOK, Safe
<1>4. QED
  BY <1>2, <1>3

(* Out of a scan only a change of the log or of the histories matters.     *)
LEMMA HistoryKept ==
  ASSUME ClaimInv, UNCHANGED <<wal, walled, heir, fate>>, phase' # "scan"
  PROVE  ClaimInv'
BY DEF ClaimInv, DistinctOK, HeirsOK, ScanOK, Safe

(* A re-verification works on stored rows: no candidate's row or claim is  *)
(* touched.                                                                *)
LEMMA ReverifyQuiet ==
  ASSUME TypeInv, SuppressionInv, phase = "reverify",
         Triage \/ \E f \in Fps : Verify(f)
  PROVE  UNCHANGED <<wal, walled, heir, fate, phase>>
<1>1. /\ Working => tri.item \in Items /\ tri.item.reverify = TRUE
      /\ \A f \in Fps : ver[f].pc # "none" => ver[f].item \in Items /\ ver[f].item.reverify = TRUE
      /\ \A i \in 1..Len(candCh) : candCh[i].reverify = TRUE
  BY DEF TypeInv, TriageOK, VerOK, SuppressionInv, KindedOK, Running
<1>2. ASSUME NEW it \in Items, it.reverify = TRUE
      PROVE  /\ DeletePending(it) => UNCHANGED wal
             /\ \A what : Settled(it, what) = fate
             /\ \A p : Inherit(it, p) => UNCHANGED heir
  BY <1>2 DEF Items, DeletePending, Settled, Inherit
<1>3. CASE \E f \in Fps : Verify(f)
  <2>1. PICK f \in Fps : Verify(f)
    BY <1>3
  <2>2. /\ RestTyped({ver[f].item.cand}) /\ VerifierMoved(f) /\ VerifyFrame
    BY <2>1, VerifyMoves DEF Verify, Panel, PersistOrphan, Unkept, Kill, DismissRefuted,
       ForgetKilled, DrainLenses, DrainSites, PersistSurvivor, DeleteRow, Signal,
       AttachLateLenses, AttachLateSites
  <2>3. /\ DeletePending(ver[f].item) => UNCHANGED wal
        /\ \A what : Settled(ver[f].item, what) = fate
    BY <1>1, <1>2, <2>2 DEF VerifierMoved
  <2>4. UNCHANGED wal
    BY <2>1, <2>3 DEF Verify, Panel, PersistOrphan, Unkept, Kill, DismissRefuted,
       ForgetKilled, DrainLenses, DrainSites, PersistSurvivor, DeleteRow, Signal,
       AttachLateLenses, AttachLateSites, durable
  <2>5. UNCHANGED fate
    BY <2>1, <2>3 DEF Verify, Panel, PersistOrphan, Unkept, Kill, DismissRefuted,
       ForgetKilled, DrainLenses, DrainSites, PersistSurvivor, DeleteRow, Signal,
       AttachLateLenses, AttachLateSites
  <2>6. QED
    BY <2>2, <2>4, <2>5 DEF VerifyFrame
<1>4. CASE \E it \in {candCh[i] : i \in 1..Len(candCh)} :
             \/ TakeUnfit(it) \/ TakeDuplicate(it) \/ TakeSuppressed(it)
             \/ TakeMember(it) \/ TakeUnclustered(it)
  <2>1. PICK it \in {candCh[i] : i \in 1..Len(candCh)} :
             \/ TakeUnfit(it) \/ TakeDuplicate(it) \/ TakeSuppressed(it)
             \/ TakeMember(it) \/ TakeUnclustered(it)
    BY <1>4
  <2>2. Arriving(it) /\ TriageFrame /\ UNCHANGED durable
    BY <2>1 DEF TakeUnfit, TakeDuplicate, TakeSuppressed, TakeMember, TakeUnclustered, New
  <2>3. it \in Items /\ it.reverify = TRUE
    BY <1>1, <2>2, ArrivingItem DEF TypeInv
  <2>4. UNCHANGED <<heir, fate>>
    BY <1>2, <2>1, <2>3 DEF TakeUnfit, TakeDuplicate, TakeSuppressed, TakeMember, TakeUnclustered
  <2>5. QED
    BY <2>2, <2>4 DEF TriageFrame, durable
<1>5. CASE \/ MemberDrop \/ StageSite \/ StoreSite \/ StageLens \/ StoreLens
           \/ Fold \/ SuppressCandidate \/ ReopenFixed \/ FoldLens \/ FoldSite
           \/ DropPending \/ TriageFails
  <2>1. TriageFrame
    BY <1>5 DEF MemberDrop, StageSite, StoreSite, StageLens, StoreLens, Fold, SuppressCandidate,
                ReopenFixed, FoldLens, FoldSite, DropPending, TriageFails
  <2>2. ~SuppressCandidate /\ ~FoldSite
    BY <1>1 DEF SuppressCandidate, FoldSite, At, Working, SuppressionInv, FoldingOK, FoldPcs
  <2>3. UNCHANGED <<heir, fate>>
    BY <1>5, <2>2 DEF MemberDrop, StageSite, StoreSite, StageLens, StoreLens, Fold,
                ReopenFixed, FoldLens, DropPending, TriageFails
  <2>4. UNCHANGED wal
    <3>1. CASE MemberDrop \/ DropPending
      BY <1>1, <1>2, <3>1 DEF MemberDrop, DropPending, At, Working
    <3>2. CASE ~(MemberDrop \/ DropPending)
      BY <1>5, <2>2, <3>2 DEF StageSite, StoreSite, StageLens, StoreLens, Fold,
                ReopenFixed, FoldLens, TriageFails, durable
    <3>3. QED
      BY <3>1, <3>2
  <2>5. QED
    BY <2>1, <2>3, <2>4 DEF TriageFrame
<1>6. CASE RegisterPrimary
  <2>1. Working
    BY <1>6 DEF RegisterPrimary, At, Working
  <2>2. QED
    BY <1>1, <1>2, <1>6, <2>1 DEF RegisterPrimary, durable
<1>7. QED
  BY <1>3, <1>4, <1>5, <1>6 DEF Triage

(* A step of a scan that settles candidates, loses only settled rows or u's *)
(* and touches no other claim keeps what is safe and what is placed.       *)
LEMMA SafeKept ==
  ASSUME NEW u, WalLoses({u}), UNCHANGED walled,
         NEW c, Safe(c), fate[c] # "open" => fate'[c] # "open",
         c # u \/ UNCHANGED wal \/ fate[u] # "open"
  PROVE  SafeNext(c)
BY DEF Safe, SafeNext, WalLoses

LEMMA WorkClaims ==
  ASSUME TypeInv, ClaimInv, phase = "scan", Working, UNCHANGED <<phase, found, walled, candCh>>,
         UNCHANGED <<seen, member, ver>>,
         WalLoses({tri.item.cand}), UNCHANGED wal \/ Merged \/ fate[tri.item.cand] # "open",
         \A c \in Cands \ {tri.item.cand} : fate'[c] = fate[c] /\ heir'[c] = heir[c],
         fate[tri.item.cand] # "open" => fate'[tri.item.cand] # "open",
         heir'[tri.item.cand] = heir[tri.item.cand] \/ fate'[tri.item.cand] # "open",
         \/ tri'.pc = "idle" /\ (Merged \/ fate[tri.item.cand] # "open")
         \/ /\ tri'.pc \in TriagePcs \ {"idle", "dead"} /\ tri'.item.cand = tri.item.cand
            /\ Merged' => Merged /\ heir'[tri.item.cand] = heir[tri.item.cand]
            /\ tri'.pc \in FoldPcs => tri.pc \in FoldPcs
  PROVE  ClaimInv'
<1> DEFINE u == tri.item.cand
<1>1. /\ u \in Cands /\ u \in found /\ u \notin Waiting /\ tri.pc # "dead"
      /\ \A cl \in Clusters : seen[cl] # u /\ seen[cl] \in Cands
  BY DEF TypeInv, TriageOK, Items, ClaimInv, DistinctOK, Working, Clusters
<1>2. \A c \in Cands : fate[c] # "open" => fate'[c] # "open"
  OBVIOUS
<1>3. /\ Clusters' = Clusters /\ Waiting' = Waiting
      /\ Waiting \subseteq Cands
  BY SeqFacts DEF Clusters, Waiting, TypeInv, TriageOK, Items
<1>4. ASSUME NEW c \in Cands, Safe(c), c # u \/ UNCHANGED wal \/ fate[u] # "open"
      PROVE  SafeNext(c)
  BY <1>2, <1>4, SafeKept
<1>5. ASSUME NEW c \in Cands, c # u, Placed(c)
      PROVE  PlacedNext(c)
  BY <1>2, <1>3, <1>5 DEF Placed, PlacedNext
<1> HIDE DEF u
<1>6. HeirsOK'
  <2>1. ASSUME NEW c \in Cands, fate'[c] = "open"
        PROVE  SafeNext(heir'[c])
    <3>1. fate[c] = "open" /\ heir'[c] = heir[c] /\ heir[c] \in Cands
      BY <1>2, <2>1 DEF u, TypeInv, RunOK
    <3>2. Safe(heir[c])
      BY <3>1 DEF ClaimInv, HeirsOK
    <3>3. heir[c] # u \/ UNCHANGED wal \/ fate[u] # "open"
      BY DEF u, ClaimInv, ScanOK
    <3>4. QED
      BY <1>4, <3>1, <3>2, <3>3
  <2>2. QED
    BY <2>1 DEF HeirsOK, Safe, SafeNext
<1>7. DistinctOK'
  BY <1>1, <1>3 DEF u, ClaimInv, DistinctOK, Working
<1>8. ScanOK'
  <2>1. \A c \in Waiting : SafeNext(c)
    BY <1>1, <1>3, <1>4 DEF ClaimInv, ScanOK
  <2>2. tri'.pc \in FoldPcs => SafeNext(tri'.item.cand)
    <3>1. tri.pc \in FoldPcs => ~Merged
      BY DEF FoldPcs, StagePcs, Merged
    <3>2. tri.pc \in FoldPcs => Safe(u) /\ (UNCHANGED wal \/ fate[u] # "open")
      BY <3>1 DEF u, ClaimInv, ScanOK
    <3>3. tri'.pc \in FoldPcs => tri.pc \in FoldPcs /\ tri'.item.cand = u
      BY DEF FoldPcs, u
    <3>4. QED
      BY <1>1, <1>4, <3>2, <3>3
  <2>3. \A cl \in Clusters : SafeNext(seen[cl])
    BY <1>1, <1>4 DEF ClaimInv, ScanOK
  <2>4. \A f \in Fps : ver[f].pc \in {"forget", "delete"} => fate'[ver[f].item.cand] # "open"
    BY <1>2 DEF ClaimInv, ScanOK, TypeInv, VerOK, Items
  <2>5. ASSUME NEW f \in Fps, seen[f] # NoCand
        PROVE  PlacedNext(seen[f]) \/ (tri'.pc \notin {"idle", "dead"} /\ seen[f] = tri'.item.cand)
    <3>1. Placed(seen[f]) \/ seen[f] = u
      BY <1>1, <2>5 DEF u, ClaimInv, ScanOK
    <3>2. CASE seen[f] # u
      BY <1>5, <2>5, <3>1, <3>2 DEF TypeInv, TriageOK
    <3>3. CASE seen[f] = u /\ tri'.pc = "idle"
      <4>1. Merged \/ fate[u] # "open"
        BY <3>3 DEF u
      <4>2. CASE fate[u] # "open"
        BY <1>1, <1>2, <3>3, <4>2 DEF PlacedNext
      <4>3. CASE Merged
        <5>1. \E cl \in Clusters : heir[u] = seen[cl]
          BY <3>3, <4>3 DEF u, ClaimInv, ScanOK
        <5>2. QED
          BY <1>3, <3>3, <5>1 DEF u, PlacedNext
      <4>4. QED
        BY <4>1, <4>2, <4>3
    <3>4. CASE seen[f] = u /\ tri'.pc # "idle"
      BY <3>4 DEF u
    <3>5. QED
      BY <3>2, <3>3, <3>4
  <2>6. ASSUME Merged'
        PROVE  /\ \A c \in Cands : heir'[c] # tri'.item.cand
               /\ \A f \in Fps : seen[f] = tri'.item.cand =>
                    \E cl \in Clusters : heir'[tri'.item.cand] = seen[cl]
    <3>1. Merged /\ heir'[u] = heir[u] /\ tri'.item.cand = u
      BY <2>6 DEF u, Merged, StagePcs
    <3>2. \A c \in Cands : heir'[c] = heir[c]
      BY <3>1 DEF u
    <3>3. QED
      BY <1>1, <3>1, <3>2 DEF u, ClaimInv, ScanOK
  <2>7. QED
    BY <1>3, <2>1, <2>2, <2>3, <2>4, <2>5, <2>6
       DEF u, ScanOK, Safe, SafeNext, Placed, PlacedNext, Working
<1>9. QED
  BY <1>6, <1>7, <1>8 DEF ClaimInv

LEMMA ScanItems ==
  ASSUME TypeInv, SuppressionInv, phase = "scan"
  PROVE  /\ Working => ~tri.item.reverify
         /\ \A f \in Fps : ver[f].pc # "none" => ~ver[f].item.reverify
         /\ \A i \in 1..Len(candCh) : ~candCh[i].reverify
BY DEF SuppressionInv, KindedOK, Running

LEMMA WorkScan ==
  ASSUME TypeInv, SuppressionInv, ClaimInv, phase = "scan",
         \/ MemberDrop \/ StageSite \/ StoreSite \/ StageLens \/ StoreLens
         \/ Fold \/ SuppressCandidate \/ ReopenFixed \/ FoldLens \/ FoldSite
         \/ DropPending
  PROVE  ClaimInv'
<1> DEFINE it == tri.item
<1>1. /\ TriageFrame /\ Working /\ UNCHANGED <<candCh, seen, member>>
  BY DEF MemberDrop, StageSite, StoreSite, StageLens, StoreLens, Fold, SuppressCandidate,
         ReopenFixed, FoldLens, FoldSite, DropPending, At, Working
<1>2. UNCHANGED <<phase, found, walled, candCh, seen, member, ver>>
  BY <1>1 DEF TriageFrame
<1>3. it \in Items /\ it.cand \in Cands /\ tri \in Triages
  BY <1>1 DEF TypeInv, TriageOK, Items
<1>4. WalLoses({it.cand})
  BY WorkMoves DEF RestTyped
<1>5. \A pc : Step(pc) => tri'.pc = pc /\ tri'.item = it
  BY <1>3 DEF Step, Triages
<1>6. heir \in [Cands -> Cands] /\ fate \in [Cands -> {"open", "dropped", "killed", "recorded"}]
  BY DEF TypeInv, RunOK
<1>7. TriagePcs \ {"idle", "dead"} = FoldPcs \cup StagePcs \cup {"drop"}
  BY DEF TriagePcs, FoldPcs, StagePcs
<1>8. CASE MemberDrop \/ StageSite \/ StoreSite \/ StageLens \/ StoreLens
  <2>1. Merged /\ UNCHANGED <<heir, fate>>
    BY <1>8 DEF MemberDrop, StageSite, StoreSite, StageLens, StoreLens, At, Merged, StagePcs
  <2>2. /\ tri'.pc \in StagePcs \cup {"drop"} /\ tri'.item.cand = it.cand
    <3>1. CASE MemberDrop
      <4>1. tri' = [tri EXCEPT !.pc = "site", !.item = [it EXCEPT !.row = FALSE]]
        BY <3>1 DEF MemberDrop
      <4>2. [it EXCEPT !.row = FALSE].cand = it.cand
        BY <1>3 DEF Items
      <4>3. QED
        BY <1>3, <4>1, <4>2 DEF Triages, StagePcs
    <3>2. CASE StageSite \/ StoreSite \/ StageLens \/ StoreLens
      <4>1. \E pc \in {"siteStore", "lens", "lensStore", "drop"} : Step(pc)
        BY <3>2 DEF StageSite, StoreSite, StageLens, StoreLens
      <4>2. QED
        BY <1>5, <4>1 DEF StagePcs
    <3>3. QED
      BY <1>8, <3>1, <3>2
  <2>3. tri'.pc \notin FoldPcs
    BY <2>2 DEF StagePcs, FoldPcs
  <2> HIDE DEF it
  <2>4. QED
    BY <1>1, <1>2, <1>4, <1>7, <2>1, <2>2, <2>3, WorkClaims DEF it
<1>9. CASE Fold \/ ReopenFixed \/ FoldLens
  <2>1. UNCHANGED <<wal, heir, fate>> /\ tri.pc \in FoldPcs
    BY <1>9 DEF Fold, ReopenFixed, FoldLens, durable, At, FoldPcs
  <2>2. tri'.pc \in FoldPcs /\ tri'.item = it
    <3>1. CASE Fold
      <4>1. PICK f \in FoldRows : tri' = [tri EXCEPT !.pc = FoldStep(finding[f].status), !.target = f]
        BY <3>1 DEF Fold
      <4>2. finding[f].status \in {"open", "fixed", "dismissed"}
        BY DEF FoldRows, TypeInv, StoreOK, Rows
      <4>3. FoldStep(finding[f].status) \in FoldPcs
        BY <4>2 DEF FoldStep, FoldPcs
      <4>4. QED
        BY <1>3, <4>1, <4>3 DEF Triages
    <3>2. CASE ReopenFixed \/ FoldLens
      BY <1>5, <3>2 DEF ReopenFixed, FoldLens, FoldPcs
    <3>3. QED
      BY <1>9, <3>1, <3>2
  <2>3. ~Merged'
    BY <2>2 DEF Merged, FoldPcs, StagePcs
  <2> HIDE DEF it
  <2>4. QED
    BY <1>1, <1>2, <1>4, <1>7, <2>1, <2>2, <2>3, WorkClaims DEF it
<1>10. CASE SuppressCandidate \/ FoldSite
  <2>1. UNCHANGED wal /\ tri'.pc = "drop" /\ tri'.item = it
    BY <1>5, <1>10 DEF SuppressCandidate, FoldSite
  <2>2. /\ \A c \in Cands \ {it.cand} : fate'[c] = fate[c] /\ heir'[c] = heir[c]
        /\ fate'[it.cand] # "open"
    BY <1>3, <1>6, <1>10 DEF SuppressCandidate, FoldSite
  <2>3. ~Merged' /\ tri'.pc \notin FoldPcs
    BY <2>1, <2>2 DEF Merged, FoldPcs, StagePcs
  <2> HIDE DEF it
  <2>4. QED
    BY <1>1, <1>2, <1>4, <1>7, <2>1, <2>2, <2>3, WorkClaims DEF it
<1>11. CASE DropPending
  <2>1. UNCHANGED <<heir, fate>> /\ tri.pc = "drop" /\ tri'.pc = "idle"
    BY <1>11 DEF DropPending, At, IdleTriage
  <2>2. Merged \/ fate[it.cand] # "open"
    BY <2>1 DEF Merged
  <2> HIDE DEF it
  <2>3. QED
    BY <1>1, <1>2, <1>4, <2>1, <2>2, WorkClaims DEF it
<1>12. QED
  BY <1>8, <1>9, <1>10, <1>11

LEMMA FailScan ==
  ASSUME TypeInv, ClaimInv, phase = "scan", TriageFails
  PROVE  ClaimInv'
<1>1. /\ tri'.pc = "dead" /\ candCh' = <<>>
      /\ UNCHANGED <<wal, seen, member, heir, fate, found, phase, ver, walled>>
  BY DEF TriageFails, TriageFrame, durable, TypeInv, TriageOK, Triages
<1>2. Len(candCh') = 0 /\ 1..0 = {}
  BY <1>1, EmptySeq
<1>3. Waiting' = {}
  BY <1>2 DEF Waiting
<1>4. DistinctOK'
  BY <1>1, <1>2, <1>3 DEF ClaimInv, DistinctOK, Working
<1>5. HeirsOK'
  BY <1>1 DEF ClaimInv, HeirsOK, Safe
<1>6. ScanOK'
  BY <1>1, <1>3 DEF ClaimInv, ScanOK, Safe, FoldPcs, StagePcs, Merged, Clusters
<1>7. QED
  BY <1>4, <1>5, <1>6 DEF ClaimInv

LEMMA RegisterScan ==
  ASSUME TypeInv, SuppressionInv, ClaimInv, phase = "scan", RegisterPrimary
  PROVE  ClaimInv'
<1> DEFINE it == tri.item
           u  == tri.item.cand
           v  == [IdleVerifier EXCEPT !.pc = "panel", !.item = it]
<1>1. /\ tri.pc = "fold" /\ tri' = IdleTriage /\ ver' = [ver EXCEPT ![it.fp] = v]
      /\ member' = member \cup {[item |-> it, cluster |-> it.fp]} /\ Inherit(it, u)
      /\ UNCHANGED <<wal, phase, found, candCh, seen, walled, fate>>
  BY DEF RegisterPrimary, At, durable
<1>2. v.pc = "panel" /\ v.item = it /\ tri'.pc = "idle"
  BY <1>1 DEF IdleVerifier, IdleTriage
<1>3. Working /\ tri.pc \in FoldPcs
  BY <1>1 DEF Working, FoldPcs
<1>4. it \in Items /\ it.fp \in Fps /\ u \in Cands /\ seen[it.fp] = u /\ ~it.reverify
  BY <1>3, ScanItems DEF TypeInv, TriageOK, Items
<1>5. \A c \in Cands : heir'[c] = IF u \in {c, heir[c]} THEN u ELSE heir[c]
  BY <1>1, <1>4 DEF Inherit
<1>6. Clusters' = Clusters \cup {it.fp}
  <2> DEFINE m == [item |-> it, cluster |-> it.fp]
  <2>1. m.cluster = it.fp /\ member' = member \cup {m}
    BY <1>1
  <2> HIDE DEF m
  <2>2. QED
    BY <2>1 DEF Clusters
<1>7. Waiting' = Waiting
  BY <1>1 DEF Waiting
<1>8. Safe(u) /\ u \in found
  BY <1>3 DEF ClaimInv, ScanOK, DistinctOK
<1> HIDE DEF it, v
<1>9. /\ ver'[it.fp].pc = "panel" /\ ver'[it.fp].item.cand = u
      /\ \A g \in Fps \ {it.fp} : ver'[g] = ver[g]
  BY <1>1, <1>2, <1>4 DEF TypeInv, VerOK, it
<1> HIDE DEF u
<1>10. DistinctOK'
  BY <1>1, <1>2, <1>7, <1>8, <1>9 DEF ClaimInv, DistinctOK, Working
<1>11. \A c \in Cands : Safe(c) => SafeNext(c)
  BY <1>1 DEF Safe, SafeNext
<1>12. HeirsOK'
  <2>1. ASSUME NEW c \in Cands, fate'[c] = "open"
        PROVE  SafeNext(heir'[c])
    <3>1. Safe(heir[c]) /\ heir[c] \in Cands
      BY <1>1, <2>1 DEF ClaimInv, HeirsOK, TypeInv, RunOK
    <3>2. heir'[c] \in {u, heir[c]}
      BY <1>5
    <3>3. QED
      BY <1>4, <1>8, <1>11, <3>1, <3>2
  <2>2. QED
    BY <2>1 DEF HeirsOK, Safe, SafeNext
<1>13. ScanOK'
  <2>1. \A c \in Waiting : SafeNext(c)
    BY <1>1 DEF ClaimInv, ScanOK, Safe, SafeNext
  <2>2. \A cl \in Clusters' : SafeNext(seen[cl])
    BY <1>1, <1>4, <1>6, <1>8 DEF ClaimInv, ScanOK, Safe, SafeNext
  <2>3. \A f \in Fps : ver'[f].pc \in {"forget", "delete"} => fate'[ver'[f].item.cand] # "open"
    BY <1>1, <1>9 DEF ClaimInv, ScanOK
  <2>4. ASSUME NEW f \in Fps, seen[f] # NoCand
        PROVE  PlacedNext(seen[f])
    <3>1. seen[f] \in Cands
      BY <2>4 DEF TypeInv, TriageOK
    <3>2. CASE seen[f] = u
      BY <1>1, <1>4, <1>5, <1>6, <3>2 DEF PlacedNext
    <3>3. CASE seen[f] # u
      <4>1. Placed(seen[f])
        BY <1>3, <2>4, <3>3 DEF ClaimInv, ScanOK, u, Working
      <4>2. CASE fate[seen[f]] # "open"
        BY <1>1, <4>2 DEF PlacedNext
      <4>3. CASE \E cl \in Clusters : heir[seen[f]] = seen[cl]
        <5>1. heir'[seen[f]] = heir[seen[f]] \/ heir'[seen[f]] = seen[it.fp]
          BY <1>4, <1>5, <3>1
        <5>2. QED
          BY <1>1, <1>6, <4>3, <5>1 DEF PlacedNext
      <4>4. QED
        BY <4>1, <4>2, <4>3 DEF Placed
    <3>4. QED
      BY <3>2, <3>3
  <2>5. ~Merged' /\ tri'.pc \notin FoldPcs
    BY <1>2 DEF Merged, StagePcs, FoldPcs
  <2>6. QED
    BY <1>1, <1>7, <2>1, <2>2, <2>3, <2>4, <2>5 DEF ScanOK, Safe, SafeNext, Placed, PlacedNext
<1>14. QED
  BY <1>10, <1>12, <1>13 DEF ClaimInv

(* Triage takes an item: it is dropped, left for a fold, or merged into p. *)
LEMMA TakeClaims ==
  ASSUME TypeInv, ClaimInv, phase = "scan",
         NEW it, Arriving(it), candCh' = Tail(candCh), tri'.item = it,
         UNCHANGED <<wal, phase, found, walled, ver>>,
         \/ UNCHANGED seen
         \/ seen[it.fp] = NoCand /\ seen' = [seen EXCEPT ![it.fp] = it.cand],
         Clusters' = Clusters,
         NEW p,
         \/ /\ tri'.pc = "drop" /\ UNCHANGED heir /\ fate' = [fate EXCEPT ![it.cand] = "dropped"]
         \/ tri'.pc = "fold" /\ UNCHANGED <<heir, fate>>
         \/ /\ tri'.pc \in StagePcs /\ UNCHANGED fate /\ Safe(p) /\ p # it.cand
            /\ heir' = [d \in Cands |-> IF it.cand \in {d, heir[d]} THEN p ELSE heir[d]]
            /\ UNCHANGED seen \/ \E cl \in Clusters : p = seen[cl]
  PROVE  ClaimInv'
<1> DEFINE u == it.cand
<1>1. /\ it \in Items /\ u \in Cands /\ it.fp \in Fps /\ u # NoCand
      /\ Len(candCh) >= 1 /\ it = candCh[1] /\ Len(candCh) \in Nat
      /\ Len(candCh') = Len(candCh) - 1
      /\ \A i \in 1..(Len(candCh) - 1) : candCh'[i] = candCh[i + 1]
  BY ArrivingItem, Constants, LenProperties DEF TypeInv, TriageOK
<1>2. ~Working /\ tri.pc # "dead"
  BY DEF Arriving, Working
<1>3. /\ tri'.pc \notin {"idle", "dead"}
      /\ tri'.pc \in FoldPcs => tri'.pc = "fold"
      /\ Merged' => tri'.pc \in StagePcs
  <2>1. tri'.pc = "drop" => fate'[tri'.item.cand] # "open"
    BY <1>1 DEF TypeInv, RunOK, StagePcs
  <2>2. QED
    BY <2>1 DEF StagePcs, FoldPcs, Merged
<1>4. u \in Waiting /\ u \in found
  BY <1>1 DEF Waiting, ClaimInv, DistinctOK
<1>5. \A i \in 1..Len(candCh') : i + 1 \in 1..Len(candCh) /\ i + 1 # 1 /\ candCh'[i] = candCh[i + 1]
  BY <1>1
<1>6. /\ \A i, j \in 1..Len(candCh') : candCh'[i].cand = candCh'[j].cand => i = j
      /\ Waiting' \subseteq Waiting /\ u \notin Waiting'
  <2>1. \A i, j \in 1..Len(candCh) : candCh[i].cand = candCh[j].cand => i = j
    BY DEF ClaimInv, DistinctOK
  <2>2. \A i, j \in 1..Len(candCh') : candCh'[i].cand = candCh'[j].cand => i = j
    <3>1. ASSUME NEW i \in 1..Len(candCh'), NEW j \in 1..Len(candCh'),
                 candCh'[i].cand = candCh'[j].cand
          PROVE  i = j
      <4>1. i + 1 = j + 1
        BY <1>5, <2>1, <3>1
      <4>2. QED
        BY <1>1, <4>1
    <3>2. QED
      BY <3>1
  <2>3. Waiting' \subseteq Waiting
    BY <1>5 DEF Waiting
  <2>4. \A i \in 1..Len(candCh') : candCh'[i].cand # u
    BY <1>1, <1>5, <2>1
  <2>5. QED
    BY <2>2, <2>3, <2>4 DEF Waiting
<1>7. /\ \A f \in Fps : seen[f] # u /\ (seen[f] # NoCand => seen[f] \in Cands)
      /\ \A f \in Fps : seen'[f] \in {seen[f], u} /\ (seen[f] # NoCand => seen'[f] = seen[f])
      /\ \A cl \in Clusters : cl \in Fps /\ seen[cl] # NoCand /\ seen'[cl] = seen[cl] /\ seen[cl] # u
  <2>1. \A f \in Fps : seen[f] # u
    BY <1>1, <1>4 DEF ClaimInv, DistinctOK
  <2>2. \A f \in Fps : seen[f] \in Cands \cup {NoCand}
    BY DEF TypeInv, TriageOK
  <2>3. \A f \in Fps : seen'[f] \in {seen[f], u} /\ (seen[f] # NoCand => seen'[f] = seen[f])
    BY <1>1 DEF TypeInv, TriageOK
  <2>4. \A cl \in Clusters : cl \in Fps /\ seen[cl] # NoCand
    BY DEF TypeInv, TriageOK, Clusters
  <2>5. QED
    BY <2>1, <2>2, <2>3, <2>4
<1>8. \A c \in Cands : /\ fate[c] # "open" => fate'[c] # "open"
                       /\ c # u => fate'[c] = fate[c]
  BY <1>1 DEF TypeInv, RunOK
<1>9. \A c \in Cands : Safe(c) => SafeNext(c)
  BY <1>8 DEF Safe, SafeNext
<1> HIDE DEF u
<1>10. DistinctOK'
  <2>1. \A f \in Fps : seen'[f] # NoCand => seen'[f] \in found \ Waiting'
    BY <1>4, <1>6, <1>7 DEF ClaimInv, DistinctOK
  <2>2. Waiting' \subseteq found
    BY <1>6 DEF ClaimInv, DistinctOK
  <2>3. \A f \in Fps : ver[f].pc # "none" => ver[f].item.cand \in found
    BY DEF ClaimInv, DistinctOK
  <2>4. \A cl \in Clusters : seen'[cl] # u
    BY <1>7
  <2>5. QED
    BY <1>4, <1>6, <2>1, <2>2, <2>3, <2>4 DEF DistinctOK, Working, u
<1>11. \A f \in Fps : ver'[f].pc \in {"forget", "delete"} => fate'[ver'[f].item.cand] # "open"
  BY <1>8 DEF ClaimInv, ScanOK, TypeInv, VerOK, Items
<1>12. \A c \in Waiting' : SafeNext(c)
  <2>1. Waiting \subseteq Cands
    BY DEF ClaimInv, DistinctOK, TypeInv, RunOK
  <2>2. QED
    BY <1>6, <1>9, <2>1 DEF ClaimInv, ScanOK
<1>13. \A cl \in Clusters : SafeNext(seen'[cl])
  BY <1>7, <1>9 DEF ClaimInv, ScanOK
<1>14. tri'.pc \in FoldPcs => SafeNext(u)
  BY <1>1, <1>4, <1>9 DEF ClaimInv, ScanOK, u
<1>15. ASSUME NEW c \in Cands, c # u, Placed(c), UNCHANGED heir \/ heir[c] # u => heir'[c] = heir[c]
       PROVE  PlacedNext(c)
  <2>1. CASE fate[c] # "open"
    BY <1>8, <1>15, <2>1 DEF PlacedNext
  <2>2. CASE \E cl \in Clusters : heir[c] = seen[cl]
    <3>1. PICK cl \in Clusters : heir[c] = seen[cl]
      BY <2>2
    <3>2. heir'[c] = heir[c] /\ heir'[c] = seen'[cl]
      BY <1>7, <1>15, <3>1
    <3>3. QED
      BY <3>2 DEF PlacedNext
  <2>3. QED
    BY <1>15, <2>1, <2>2 DEF Placed
<1>16. \A c \in Cands : c # u => (UNCHANGED heir \/ heir[c] # u => heir'[c] = heir[c])
  BY DEF TypeInv, RunOK, u
<1>17. \A f \in Fps : seen'[f] # NoCand => PlacedNext(seen'[f]) \/ seen'[f] = u
  <2>1. \A f \in Fps : seen[f] # NoCand => Placed(seen[f])
    BY <1>2 DEF ClaimInv, ScanOK
  <2>2. QED
    BY <1>7, <1>15, <1>16, <2>1
<1>18. HeirsOK'
  <2>1. ASSUME NEW c \in Cands, fate'[c] = "open"
        PROVE  SafeNext(heir'[c])
    <3>1. fate[c] = "open" /\ heir[c] \in Cands /\ Safe(heir[c])
      BY <1>8, <2>1 DEF TypeInv, RunOK, ClaimInv, HeirsOK
    <3>2. CASE heir'[c] = heir[c]
      BY <1>9, <3>1, <3>2
    <3>3. CASE heir'[c] # heir[c]
      <4>1. Safe(p) /\ p # u /\ heir'[c] = p /\ UNCHANGED fate
        BY <3>3 DEF u
      <4>2. QED
        BY <4>1 DEF Safe, SafeNext
    <3>4. QED
      BY <3>2, <3>3
  <2>2. QED
    BY <2>1 DEF HeirsOK, Safe, SafeNext
<1>19. ASSUME Merged'
       PROVE  /\ \A c \in Cands : heir'[c] # u
              /\ \A f \in Fps : seen'[f] = u => \E cl \in Clusters : heir'[u] = seen'[cl]
  <2>1. /\ p # u /\ heir' = [d \in Cands |-> IF u \in {d, heir[d]} THEN p ELSE heir[d]]
        /\ UNCHANGED seen \/ \E cl \in Clusters : p = seen[cl]
    BY <1>3, <1>19 DEF u, StagePcs
  <2>2. \A c \in Cands : heir'[c] # u
    BY <2>1
  <2>3. ASSUME NEW f \in Fps, seen'[f] = u
        PROVE  \E cl \in Clusters : heir'[u] = seen'[cl]
    <3>1. \E cl \in Clusters : p = seen[cl]
      BY <1>7, <2>1, <2>3
    <3>2. heir'[u] = p
      BY <1>1, <2>1 DEF u
    <3>3. QED
      BY <1>7, <3>1, <3>2
  <2>4. QED
    BY <2>2, <2>3
<1>20. ScanOK'
  BY <1>3, <1>11, <1>12, <1>13, <1>14, <1>17, <1>19
     DEF ScanOK, Safe, SafeNext, Placed, PlacedNext, Working, u
<1>21. QED
  BY <1>10, <1>18, <1>20 DEF ClaimInv

LEMMA TakeScan ==
  ASSUME TypeInv, SuppressionInv, ClaimInv, phase = "scan", NEW it,
         \/ TakeUnfit(it) \/ TakeDuplicate(it) \/ TakeSuppressed(it)
         \/ TakeMember(it) \/ TakeUnclustered(it)
  PROVE  ClaimInv'
<1>1. Arriving(it) /\ TriageFrame /\ UNCHANGED durable
  BY DEF TakeUnfit, TakeDuplicate, TakeSuppressed, TakeMember, TakeUnclustered, New
<1>2. UNCHANGED <<wal, phase, found, walled, ver>>
  BY <1>1 DEF TriageFrame, durable
<1>3. /\ it \in Items /\ it.cand \in Cands /\ it.fp \in Fps /\ ~it.reverify
      /\ it.cand \in Waiting
  BY <1>1, ArrivingItem, ScanItems DEF TypeInv, TriageOK, Waiting
<1>4. \A pc, target : Dequeue(pc, it, target) =>
        candCh' = Tail(candCh) /\ tri'.item = it /\ tri'.pc = pc
  BY DEF Dequeue
<1>5. UNCHANGED member => Clusters' = Clusters
  BY DEF Clusters
<1>6. \A f \in Fps : seen[f] # it.cand
  BY <1>3, Constants DEF ClaimInv, DistinctOK
<1>7. CASE TakeUnfit(it) \/ TakeSuppressed(it)
  <2>1. /\ Dequeue("drop", it, NoFp) /\ UNCHANGED <<member, heir>>
        /\ fate' = [fate EXCEPT ![it.cand] = "dropped"]
        /\ \/ UNCHANGED seen
           \/ seen[it.fp] = NoCand /\ seen' = [seen EXCEPT ![it.fp] = it.cand]
    BY <1>3, <1>7 DEF TakeUnfit, TakeSuppressed, New, Settled
  <2>2. QED
    BY <1>1, <1>2, <1>4, <1>5, <2>1, TakeClaims
<1>8. CASE TakeUnclustered(it)
  <2>1. /\ Dequeue("fold", it, NoFp) /\ UNCHANGED <<member, heir, fate>>
        /\ seen[it.fp] = NoCand /\ seen' = [seen EXCEPT ![it.fp] = it.cand]
    BY <1>8 DEF TakeUnclustered, New
  <2>2. QED
    BY <1>1, <1>2, <1>4, <1>5, <2>1, TakeClaims
<1>9. CASE TakeMember(it)
  <2>1. PICK cl \in Clusters :
          /\ Dequeue("memberDrop", it, cl) /\ Inherit(it, Primary(cl))
          /\ member' = member \cup {[item |-> it, cluster |-> cl]}
    BY <1>9 DEF TakeMember
  <2>2. /\ UNCHANGED fate
        /\ seen[it.fp] = NoCand /\ seen' = [seen EXCEPT ![it.fp] = it.cand]
    BY <1>9 DEF TakeMember, New
  <2>3. Clusters' = Clusters
    <3> DEFINE m == [item |-> it, cluster |-> cl]
    <3>1. m.cluster = cl /\ member' = member \cup {m}
      BY <2>1
    <3> HIDE DEF m
    <3>2. QED
      BY <3>1 DEF Clusters
  <2>4. heir' = [d \in Cands |-> IF it.cand \in {d, heir[d]} THEN seen[cl] ELSE heir[d]]
    BY <1>3, <2>1 DEF Inherit, Primary
  <2>5. Safe(seen[cl]) /\ seen[cl] # it.cand
    BY <1>6 DEF ClaimInv, ScanOK, TypeInv, TriageOK, Clusters
  <2>6. "memberDrop" \in StagePcs
    BY DEF StagePcs
  <2>7. tri'.pc \in StagePcs /\ \E other \in Clusters : seen[cl] = seen[other]
    BY <1>4, <2>1, <2>6
  <2>8. QED
    BY <1>1, <1>2, <1>4, <2>1, <2>2, <2>3, <2>4, <2>5, <2>7, TakeClaims
<1>10. CASE TakeDuplicate(it)
  <2>1. /\ Dequeue("site", it, it.fp) /\ UNCHANGED <<seen, member, fate>>
        /\ seen[it.fp] # NoCand /\ Inherit(it, StandsWith(seen[it.fp]))
    BY <1>10 DEF TakeDuplicate
  <2> DEFINE c0 == seen[it.fp]
             p  == StandsWith(c0)
  <2>2. heir' = [d \in Cands |-> IF it.cand \in {d, heir[d]} THEN p ELSE heir[d]]
    BY <1>3, <2>1 DEF Inherit
  <2>3. Placed(c0) /\ c0 # it.cand
    BY <1>1, <1>3, <1>6, <2>1 DEF ClaimInv, ScanOK, Arriving, Working
  <2>4. Safe(p) /\ p # it.cand
    <3>1. CASE fate[c0] # "open"
      BY <2>3, <3>1 DEF StandsWith, Safe
    <3>2. CASE fate[c0] = "open"
      <4>1. PICK cl \in Clusters : heir[c0] = seen[cl]
        BY <2>3, <3>2 DEF Placed
      <4>2. p = seen[cl] /\ cl \in Fps
        BY <3>2, <4>1 DEF StandsWith, TypeInv, TriageOK, Clusters
      <4>3. QED
        BY <1>6, <4>2 DEF ClaimInv, ScanOK
    <3>3. QED
      BY <3>1, <3>2
  <2>5. tri'.pc \in StagePcs
    BY <1>4, <2>1 DEF StagePcs
  <2> HIDE DEF p
  <2>6. QED
    BY <1>1, <1>2, <1>4, <1>5, <2>1, <2>2, <2>4, <2>5, TakeClaims
<1>11. QED
  BY <1>7, <1>8, <1>9, <1>10

(* A verifier settles its own candidate, and deletes a row only after.     *)
LEMMA VerifyFate ==
  ASSUME TypeInv, SuppressionInv, phase = "scan", NEW f \in Fps, Verify(f)
  PROVE  /\ \A c \in Cands : fate[c] # "open" => fate'[c] # "open"
         /\ UNCHANGED wal \/ ver[f].pc \in {"forget", "delete"}
         /\ ver'[f].pc \in {"forget", "delete"} => fate'[ver[f].item.cand] # "open"
<1> DEFINE u == ver[f].item.cand
<1>1. VerifierMoved(f) /\ fate \in [Cands -> {"open", "dropped", "killed", "recorded"}]
  BY VerifyMoves DEF TypeInv, RunOK
<1>2. u \in Cands /\ ~ver[f].item.reverify /\ ver[f] \in Verifiers /\ ver \in [Fps -> Verifiers]
  BY <1>1, ScanItems DEF VerifierMoved, TypeInv, VerOK, Items
<1>3. \A what : Settled(ver[f].item, what) = [fate EXCEPT ![u] = what]
  BY <1>2 DEF Settled
<1>4. \A pc : Goto(f, pc) => ver'[f].pc = pc
  BY <1>2, VerifierAt DEF Goto, Verifiers
<1> HIDE DEF u
<1>5. \A what \in {"killed", "recorded"} : fate' = Settled(ver[f].item, what) =>
        fate'[u] # "open" /\ \A c \in Cands : fate[c] # "open" => fate'[c] # "open"
  <2>1. ASSUME NEW what \in {"killed", "recorded"}, fate' = Settled(ver[f].item, what)
        PROVE  fate'[u] # "open" /\ \A c \in Cands : fate[c] # "open" => fate'[c] # "open"
    <3>1. fate' = [fate EXCEPT ![u] = what] /\ what # "open"
      BY <1>3, <2>1
    <3>2. QED
      BY <1>1, <1>2, <3>1
  <2>2. QED
    BY <2>1
<1>6. CASE PersistOrphan(f)
  <2>1. UNCHANGED wal
    BY <1>6 DEF PersistOrphan
  <2>2. CASE fate' = Settled(ver[f].item, "recorded")
    BY <1>5, <2>1, <2>2 DEF u
  <2>3. CASE Goto(f, "unkept") /\ UNCHANGED fate
    BY <1>4, <2>1, <2>3
  <2>4. QED
    BY <1>6, <2>2, <2>3 DEF PersistOrphan
<1>7. CASE Kill(f)
  BY <1>5, <1>7 DEF Kill, durable, u
<1>8. CASE PersistSurvivor(f)
  <2>1. UNCHANGED wal
    BY <1>8 DEF PersistSurvivor
  <2>2. CASE fate' = Settled(ver[f].item, "recorded")
    BY <1>5, <2>1, <2>2 DEF u
  <2>3. CASE Goto(f, "done") /\ UNCHANGED fate
    BY <1>4, <2>1, <2>3
  <2>4. QED
    BY <1>8, <2>2, <2>3 DEF PersistSurvivor
<1>9. CASE DismissRefuted(f)
  BY <1>2, <1>9 DEF DismissRefuted, Verifier, SuppressionInv, FlightOK
<1>10. CASE ForgetKilled(f) \/ DeleteRow(f)
  <2>1. ver[f].pc \in {"forget", "delete"} /\ UNCHANGED fate
    BY <1>10 DEF ForgetKilled, DeleteRow, Verifier
  <2>2. ver'[f].pc \in {"done", "unkept", "signal"}
    BY <1>4, <1>10 DEF ForgetKilled, DeleteRow, SurvivorStep
  <2>3. QED
    BY <2>1, <2>2
<1>11. CASE Panel(f) \/ Unkept(f) \/ AttachLateLenses(f) \/ AttachLateSites(f)
  <2>1. UNCHANGED <<wal, fate>>
    BY <1>11 DEF Panel, Unkept, AttachLateLenses, AttachLateSites, durable
  <2>2. \E pc \in {"orphan", "kill", "lenses", "done", "lateSites"} : Goto(f, pc)
    BY <1>11 DEF Panel, Unkept, AttachLateLenses, AttachLateSites
  <2>3. QED
    BY <1>4, <2>1, <2>2
<1>12. CASE DrainLenses(f) \/ DrainSites(f) \/ Signal(f)
  <2>1. UNCHANGED <<wal, fate>>
    BY <1>12 DEF DrainLenses, DrainSites, Signal, durable
  <2>2. ver'[f].pc \in {"sites", "upsert", "lateLenses"}
    <3>1. CASE DrainLenses(f)
      BY <1>2, <3>1 DEF DrainLenses, SurvivorStep, Verifiers
    <3>2. CASE DrainSites(f)
      BY <1>2, <3>2 DEF DrainSites, SurvivorStep, Verifiers
    <3>3. CASE Signal(f)
      BY <1>2, <3>3 DEF Signal, SurvivorStep, Verifiers
    <3>4. QED
      BY <1>12, <3>1, <3>2, <3>3
  <2>3. QED
    BY <2>1, <2>2
<1>13. QED
  BY <1>6, <1>7, <1>8, <1>9, <1>10, <1>11, <1>12 DEF Verify

LEMMA VerifyScan ==
  ASSUME TypeInv, SuppressionInv, ClaimInv, phase = "scan", NEW f \in Fps, Verify(f)
  PROVE  ClaimInv'
<1> DEFINE u == ver[f].item.cand
<1>1. /\ RestTyped({u}) /\ VerifierMoved(f) /\ UNCHANGED <<candCh, tri, seen, member>>
      /\ UNCHANGED <<phase, found, walled, heir>>
  <2>1. VerifyFrame
    BY DEF Verify, Panel, PersistOrphan, Unkept, Kill, DismissRefuted,
       ForgetKilled, DrainLenses, DrainSites, PersistSurvivor, DeleteRow, Signal,
       AttachLateLenses, AttachLateSites
  <2>2. QED
    BY <2>1, VerifyMoves DEF VerifyFrame
<1>2. /\ \A c \in Cands : fate[c] # "open" => fate'[c] # "open"
      /\ UNCHANGED wal \/ ver[f].pc \in {"forget", "delete"}
      /\ ver'[f].pc \in {"forget", "delete"} => fate'[u] # "open"
  BY VerifyFate
<1>3. UNCHANGED wal \/ fate[u] # "open"
  BY <1>2 DEF ClaimInv, ScanOK
<1>4. \A c \in Cands : Safe(c) => SafeNext(c)
  BY <1>1, <1>2, <1>3, SafeKept DEF RestTyped
<1>5. /\ Waiting' = Waiting /\ Clusters' = Clusters /\ Waiting \subseteq Cands
      /\ \A cl \in Clusters : seen[cl] \in Cands
  BY <1>1 DEF Waiting, Clusters, ClaimInv, DistinctOK, TypeInv, RunOK, TriageOK
<1>6. \A g \in Fps : ver'[g].item = ver[g].item /\ (ver'[g].pc # "none" <=> ver[g].pc # "none")
  BY <1>1 DEF VerifierMoved
<1>7. DistinctOK'
  BY <1>1, <1>5, <1>6 DEF ClaimInv, DistinctOK, Working
<1>8. HeirsOK'
  <2>1. ASSUME NEW c \in Cands, fate'[c] = "open"
        PROVE  SafeNext(heir'[c])
    BY <1>1, <1>2, <1>4, <2>1 DEF ClaimInv, HeirsOK, TypeInv, RunOK
  <2>2. QED
    BY <2>1 DEF HeirsOK, Safe, SafeNext
<1>9. ScanOK'
  <2>1. /\ \A c \in Waiting : SafeNext(c)
        /\ \A cl \in Clusters : SafeNext(seen[cl])
    BY <1>4, <1>5 DEF ClaimInv, ScanOK
  <2>2. tri.pc \in FoldPcs => SafeNext(tri.item.cand)
    BY <1>4 DEF ClaimInv, ScanOK, TypeInv, TriageOK, Working, FoldPcs, Items
  <2>3. \A g \in Fps : ver'[g].pc \in {"forget", "delete"} => fate'[ver'[g].item.cand] # "open"
    <3>1. ASSUME NEW g \in Fps \ {f}, ver'[g].pc \in {"forget", "delete"}
          PROVE  fate'[ver'[g].item.cand] # "open"
      <4>1. ver[g].pc \in {"forget", "delete"} /\ ver'[g].item = ver[g].item
        BY <1>1, <3>1 DEF VerifierMoved
      <4>2. ver[g].item.cand \in Cands /\ fate[ver[g].item.cand] # "open"
        BY <4>1 DEF ClaimInv, ScanOK, TypeInv, VerOK, Items
      <4>3. QED
        BY <1>2, <4>1, <4>2
    <3>2. QED
      BY <1>2, <1>6, <3>1
  <2>4. \A g \in Fps : seen[g] # NoCand /\ Placed(seen[g]) => PlacedNext(seen[g])
    BY <1>1, <1>2, <1>5 DEF Placed, PlacedNext, TypeInv, TriageOK
  <2>5. Merged' => Merged
    BY <1>1, <1>2 DEF Merged, TypeInv, TriageOK, Working, Items
  <2>6. QED
    BY <1>1, <1>5, <2>1, <2>2, <2>3, <2>4, <2>5
       DEF ClaimInv, ScanOK, Safe, SafeNext, Placed, PlacedNext, Working
<1>10. QED
  BY <1>7, <1>8, <1>9 DEF ClaimInv

LEMMA DiscoverClaims ==
  ASSUME TypeInv, SuppressionInv, ClaimInv, NEW c \in Cands, Discover(c)
  PROVE  ClaimInv'
<1>1. /\ Running /\ discovering /\ c \notin found /\ found' = found \cup {c}
      /\ fate' = [fate EXCEPT ![c] = "open"] /\ heir' = [heir EXCEPT ![c] = c]
      /\ UNCHANGED <<phase, tri, seen, member, ver>>
  BY DEF Discover, shared
<1>2. phase = "scan"
  BY <1>1 DEF SuppressionInv, KindedOK, Running
<1>3. /\ fate'[c] = "open" /\ heir'[c] = c
      /\ \A x \in Cands \ {c} : fate'[x] = fate[x] /\ heir'[x] = heir[x]
  BY <1>1 DEF TypeInv, RunOK
<1>4. /\ wal \in Seq(Cands) /\ candCh \in Seq(Items) /\ found \subseteq Cands
  BY DEF TypeInv, StoreOK, TriageOK, RunOK
<1>5. SafeNext(c) /\ \A x \in Cands \ {c} : Safe(x) => SafeNext(x)
  <2>1. CASE wal' = Append(wal, c) /\ walled' = walled \cup {c}
    <3>1. ToSet(wal') = ToSet(wal) \cup {c}
      BY <1>4, <2>1, AppendFacts
    <3>2. QED
      BY <1>3, <2>1, <3>1 DEF Safe, SafeNext
  <2>2. CASE UNCHANGED wal /\ walled' = walled \ {c}
    BY <1>3, <2>2 DEF Safe, SafeNext
  <2>3. QED
    BY <2>1, <2>2 DEF Discover
<1>6. PICK row \in BOOLEAN : Emit(Fresh(c, row))
  BY DEF Discover
<1>7. /\ \A i, j \in 1..Len(candCh') : candCh'[i].cand = candCh'[j].cand => i = j
      /\ Waiting' \subseteq Waiting \cup {c}
  <2>1. \A i, j \in 1..Len(candCh) : candCh[i].cand = candCh[j].cand => i = j
    BY <1>2 DEF ClaimInv, DistinctOK
  <2>2. CASE UNCHANGED candCh
    BY <2>1, <2>2 DEF Waiting
  <2>3. CASE candCh' = Append(candCh, Fresh(c, row))
    <3>1. /\ Len(candCh') = Len(candCh) + 1 /\ candCh'[Len(candCh) + 1].cand = c
          /\ \A i \in 1..Len(candCh) : candCh'[i] = candCh[i]
      BY <1>4, <2>3, NewItems, AppendFacts, ItemKinds
    <3>2. Len(candCh) \in Nat /\ 1..Len(candCh') = 1..Len(candCh) \cup {Len(candCh) + 1}
      BY <1>4, <3>1, LenProperties
    <3>3. \A i \in 1..Len(candCh) : candCh[i].cand # c
      BY <1>1, <1>2 DEF ClaimInv, DistinctOK, Waiting
    <3>4. \A i, j \in 1..Len(candCh') : candCh'[i].cand = candCh'[j].cand => i = j
      BY <2>1, <3>1, <3>2, <3>3
    <3>5. Waiting' \subseteq Waiting \cup {c}
      BY <3>1, <3>2 DEF Waiting
    <3>6. QED
      BY <3>4, <3>5
  <2>4. QED
    BY <1>6, <2>2, <2>3 DEF Emit
<1>8. /\ \A f \in Fps : seen[f] # NoCand => seen[f] \in found \ Waiting /\ seen[f] \in Cands \ {c}
      /\ \A f \in Fps : ver[f].pc # "none" => ver[f].item.cand \in Cands \ {c}
      /\ Working => tri.item.cand \in Cands \ {c}
      /\ Waiting \subseteq found /\ Waiting \subseteq Cands \ {c}
      /\ Clusters' = Clusters /\ \A cl \in Clusters : cl \in Fps /\ seen[cl] \in Cands \ {c}
  <2>1. /\ \A f \in Fps : seen[f] # NoCand => seen[f] \in found \ Waiting
        /\ \A f \in Fps : ver[f].pc # "none" => ver[f].item.cand \in found
        /\ Working => tri.item.cand \in found
        /\ Waiting \subseteq found
    BY <1>2 DEF ClaimInv, DistinctOK
  <2>2. \A cl \in Clusters : cl \in Fps /\ seen[cl] # NoCand
    BY DEF TypeInv, TriageOK, Clusters
  <2>3. Clusters' = Clusters
    BY <1>1 DEF Clusters
  <2>4. QED
    BY <1>1, <1>4, <2>1, <2>2, <2>3
<1>9. DistinctOK'
  BY <1>1, <1>2, <1>7, <1>8 DEF ClaimInv, DistinctOK, Working
<1>10. HeirsOK'
  <2>1. ASSUME NEW x \in Cands, fate'[x] = "open"
        PROVE  SafeNext(heir'[x])
    <3>1. CASE x = c
      BY <1>3, <1>5, <3>1
    <3>2. CASE x # c
      BY <1>3, <1>5, <2>1, <3>2 DEF ClaimInv, HeirsOK, TypeInv, RunOK
    <3>3. QED
      BY <3>1, <3>2
  <2>2. QED
    BY <2>1 DEF HeirsOK, Safe, SafeNext
<1>11. ScanOK'
  <2>1. \A x \in Waiting' : SafeNext(x)
    BY <1>2, <1>5, <1>7, <1>8 DEF ClaimInv, ScanOK
  <2>2. tri.pc \in FoldPcs => SafeNext(tri.item.cand)
    BY <1>2, <1>5, <1>8 DEF ClaimInv, ScanOK, Working, FoldPcs
  <2>3. \A cl \in Clusters : SafeNext(seen[cl])
    BY <1>2, <1>5, <1>8 DEF ClaimInv, ScanOK
  <2>4. \A f \in Fps : ver[f].pc \in {"forget", "delete"} => fate'[ver[f].item.cand] # "open"
    BY <1>2, <1>3, <1>8 DEF ClaimInv, ScanOK
  <2>5. \A f \in Fps : seen[f] # NoCand /\ Placed(seen[f]) => PlacedNext(seen[f])
    BY <1>1, <1>3, <1>8 DEF Placed, PlacedNext
  <2>6. ASSUME Merged'
        PROVE  /\ \A x \in Cands : heir'[x] # tri.item.cand
               /\ \A f \in Fps : seen[f] = tri.item.cand =>
                    \E cl \in Clusters : heir'[tri.item.cand] = seen[cl]
    <3>1. Working
      BY <1>1, <2>6 DEF Merged, StagePcs, Working
    <3>2. Merged
      BY <1>1, <1>3, <1>8, <2>6, <3>1 DEF Merged
    <3>3. QED
      BY <1>2, <1>3, <1>8, <3>1, <3>2 DEF ClaimInv, ScanOK
  <2>7. QED
    BY <1>1, <1>2, <1>8, <2>1, <2>2, <2>3, <2>4, <2>5, <2>6
       DEF ClaimInv, ScanOK, Safe, SafeNext, Placed, PlacedNext, Working
<1>12. QED
  BY <1>9, <1>10, <1>11 DEF ClaimInv

LEMMA StartClaims ==
  ASSUME TypeInv, ClaimInv, StartRun
  PROVE  ClaimInv'
<1>1. UNCHANGED <<wal, walled, heir, fate>> /\ found' = ToSet(wal)
  BY DEF StartRun, durable, history
<1>2. CASE phase' # "scan"
  BY <1>1, <1>2, HistoryKept
<1>3. CASE phase' = "scan"
  <2>1. PICK q \in Replays : StartWith(q)
    BY <1>3 DEF StartRun
  <2>2. /\ q \in Seq(Items) /\ Len(q) = Len(wal)
        /\ \A i \in 1..Len(wal) : q[i] = Replayed(wal[i])
    BY ReplaysTyped DEF TypeInv
  <2>3. /\ candCh' = q /\ tri'.pc = "idle" /\ seen' = [f \in Fps |-> NoCand] /\ member' = {}
        /\ \A f \in Fps : ver'[f].pc = "none"
    BY <2>1, <2>2, FreshStart DEF StartWith
  <2>4. \A i \in 1..Len(wal) : q[i].cand = wal[i]
    BY <2>2, ItemKinds
  <2>5. /\ Waiting' = ToSet(wal)
        /\ \A i, j \in 1..Len(candCh') : candCh'[i].cand = candCh'[j].cand => i = j
    BY <2>2, <2>3, <2>4, SeqFacts DEF Waiting, TypeInv, StoreOK, WalOK
  <2>6. DistinctOK'
    BY <1>1, <2>3, <2>5 DEF DistinctOK, Working
  <2>7. HeirsOK'
    BY <1>1 DEF ClaimInv, HeirsOK, Safe
  <2>8. ScanOK'
    BY <1>1, <2>3, <2>5 DEF ScanOK, Safe, Clusters, FoldPcs, StagePcs, Merged
  <2>9. QED
    BY <2>6, <2>7, <2>8 DEF ClaimInv
<1>4. QED
  BY <1>2, <1>3

LEMMA ClaimInvStep ==
  TypeInv /\ SuppressionInv /\ ClaimInv /\ [Next]_vars => ClaimInv'
<1> SUFFICES ASSUME TypeInv, SuppressionInv, ClaimInv, [Next]_vars PROVE ClaimInv'
  OBVIOUS
<1>1. CASE StartRun
  BY <1>1, StartClaims
<1>2. CASE Report \/ Abort \/ Crash \/ \E f \in Fps : Command(f)
  <2>1. UNCHANGED <<wal, walled, heir, fate>> /\ phase' # "scan"
    BY <1>2 DEF Report, Abort, Crash, Command, durable, history, Running
  <2>2. QED
    BY <2>1, HistoryKept
<1>3. CASE FindersEnd \/ UNCHANGED vars
  <2>1. UNCHANGED <<wal, walled, heir, fate, phase, found, candCh, tri, seen, member, ver>>
    BY <1>3 DEF FindersEnd, vars, durable, triage, shared, history
  <2>2. QED
    BY <2>1 DEF ClaimInv, DistinctOK, HeirsOK, ScanOK, Waiting, Safe, Placed, Merged, Clusters,
                Working
<1>4. CASE \E c \in Cands : Discover(c)
  BY <1>4, DiscoverClaims
<1>5. CASE Triage \/ \E f \in Fps : Verify(f)
  <2>1. Running
    BY <1>5, TriageMoves, VerifyMoves DEF RestTyped
  <2>2. CASE phase = "reverify"
    <3>1. UNCHANGED <<wal, walled, heir, fate, phase>>
      BY <1>5, <2>2, ReverifyQuiet
    <3>2. QED
      BY <2>2, <3>1, HistoryKept
  <2>3. CASE phase = "scan"
    BY <1>5, <2>3, TakeScan, WorkScan, RegisterScan, FailScan, VerifyScan DEF Triage
  <2>4. QED
    BY <2>1, <2>2, <2>3 DEF Running
<1>6. QED
  BY <1>1, <1>2, <1>3, <1>4, <1>5 DEF Next

LEMMA InitClaimInv == Init => ClaimInv
BY DEF Init, ClaimInv, DistinctOK, HeirsOK, ScanOK, Safe

LEMMA ClaimInvHolds == Spec => []ClaimInv
<1>1. TypeInv /\ SuppressionInv /\ ClaimInv /\ [Next]_vars => ClaimInv'
  BY ClaimInvStep
<1>2. QED
  BY <1>1, InitClaimInv, TypeInvHolds, SuppressionInvHolds, PTL DEF Spec

(* A claim written ahead is not lost, whatever crashes, failed statements, *)
(* merges and replays follow: its own row or that of the primary it was    *)
(* merged into is still in the log, or one of the two was recorded, killed *)
(* or dropped (store/pending.go, funnel/triage_streaming.go,               *)
(* funnel/verify_stream.go).                                               *)
THEOREM ClaimsAreNotLost == Spec => []ClaimNeverLost
BY TypeInvHolds, ClaimInvHolds, ClaimInvGivesNeverLost, PTL

-----------------------------------------------------------------------------
(* A scan without a failed statement empties the log.                      *)

BeforeDelete == {"panel", "orphan", "kill", "forget", "lenses", "sites", "upsert", "delete"}

InChannel(c)  == \E i \in 1..Len(candCh) : candCh[i].cand = c /\ candCh[i].row
AtTriage(c)   == Working /\ tri.item.cand = c /\ tri.item.row
AtVerifier(c) ==
  \E f \in Fps : ver[f].pc \in BeforeDelete /\ ver[f].item.cand = c /\ ver[f].item.row

(* Until a statement fails, somebody who will delete it holds every row.   *)
LocatedOK ==
  phase = "scan" /\ faults = 0 =>
    /\ tri.pc # "dead"
    /\ \A c \in ToSet(wal) : InChannel(c) \/ AtTriage(c) \/ AtVerifier(c)

LEMMA NoFault ==
  ASSUME RunOK, faults' = 0
  PROVE  /\ ~Fault /\ (Unfaulted => faults = 0) /\ (UNCHANGED faults => faults = 0)
         /\ \A it : DeletePending(it) => faults = 0
BY Bounds DEF RunOK, Fault, Unfaulted, DeletePending

LEMMA DeletedRow ==
  ASSUME StoreOK, WalOK, RunOK, NEW it \in Items, DeletePending(it), faults' = 0
  PROVE  /\ ToSet(wal') \subseteq ToSet(wal)
         /\ it.row => it.cand \notin ToSet(wal')
<1>1. ToSet(wal') \subseteq ToSet(wal)
  BY DeletePendingFacts DEF WalLoses
<1>2. ASSUME it.row
      PROVE  it.cand \notin ToSet(wal')
  <2>1. wal' = RemoveFirst(wal, it.cand)
    BY <1>2, NoFault DEF DeletePending
  <2>2. ToSet(RemoveFirst(wal, it.cand)) = ToSet(wal) \ {it.cand}
    BY RemoveFirstFacts DEF StoreOK, WalOK
  <2>3. QED
    BY <2>1, <2>2
<1>3. QED
  BY <1>1, <1>2

LEMMA WorkLocated ==
  ASSUME TypeInv, LocatedOK, phase = "scan", faults' = 0,
         \/ MemberDrop \/ StageSite \/ StoreSite \/ StageLens \/ StoreLens
         \/ Fold \/ SuppressCandidate \/ ReopenFixed \/ FoldLens \/ FoldSite
         \/ DropPending
  PROVE  LocatedOK'
<1> DEFINE it == tri.item
<1>1. TriageFrame /\ Working /\ UNCHANGED candCh
  BY DEF MemberDrop, StageSite, StoreSite, StageLens, StoreLens, Fold, SuppressCandidate,
         ReopenFixed, FoldLens, FoldSite, DropPending, At, Working
<1>2. UNCHANGED <<phase, candCh, ver>>
  BY <1>1 DEF TriageFrame
<1>3. it \in Items /\ tri \in Triages /\ RunOK /\ StoreOK /\ WalOK
  BY <1>1 DEF TypeInv, TriageOK
<1>4. faults = 0
  BY <1>3, NoFault DEF MemberDrop, StageSite, StoreSite, StageLens, StoreLens, Fold,
     SuppressCandidate, ReopenFixed, FoldLens, FoldSite, DropPending
<1>5. \A c \in ToSet(wal) : InChannel(c) \/ (it.cand = c /\ it.row) \/ AtVerifier(c)
  BY <1>4 DEF LocatedOK, AtTriage
<1>6. \A c : /\ InChannel(c) => InChannel(c)'
             /\ AtVerifier(c) => AtVerifier(c)'
  BY <1>2 DEF InChannel, AtVerifier
<1>7. CASE MemberDrop \/ DropPending
  <2>1. ToSet(wal') \subseteq ToSet(wal) /\ (it.row => it.cand \notin ToSet(wal'))
    BY <1>3, <1>7, DeletedRow DEF MemberDrop, DropPending
  <2>2. tri'.pc \in {"site", "idle"}
    <3>1. CASE MemberDrop
      BY <1>3, <3>1 DEF MemberDrop, Triages
    <3>2. CASE DropPending
      BY <3>2 DEF DropPending, IdleTriage
    <3>3. QED
      BY <1>7, <3>1, <3>2
  <2>3. QED
    BY <1>5, <1>6, <2>1, <2>2 DEF LocatedOK
<1>8. CASE ~(MemberDrop \/ DropPending)
  <2>1. UNCHANGED wal
    BY <1>8 DEF StageSite, StoreSite, StageLens, StoreLens, Fold,
       SuppressCandidate, ReopenFixed, FoldLens, FoldSite, durable
  <2>2. tri'.pc \notin {"idle", "dead"} /\ tri'.item = it
    <3>1. CASE Fold
      <4>1. PICK f \in FoldRows : tri' = [tri EXCEPT !.pc = FoldStep(finding[f].status), !.target = f]
        BY <3>1 DEF Fold
      <4>2. finding[f].status \in {"open", "fixed", "dismissed"}
        BY DEF FoldRows, TypeInv, StoreOK, Rows
      <4>3. FoldStep(finding[f].status) \in {"suppress", "reopen", "foldLens"}
        BY <4>2 DEF FoldStep
      <4>4. QED
        BY <1>3, <4>1, <4>3 DEF Triages
    <3>2. CASE ~Fold
      <4>1. \E pc \in TriagePcs \ {"idle", "dead"} : Step(pc)
        BY <1>8, <3>2 DEF StageSite, StoreSite, StageLens, StoreLens,
           SuppressCandidate, ReopenFixed, FoldLens, FoldSite, TriagePcs
      <4>2. QED
        BY <1>3, <4>1 DEF Step, Triages
    <3>3. QED
      BY <3>1, <3>2
  <2>3. \A c : it.cand = c /\ it.row => AtTriage(c)'
    BY <2>2 DEF AtTriage, Working
  <2>4. QED
    BY <1>5, <1>6, <2>1, <2>2, <2>3 DEF LocatedOK
<1>9. QED
  BY <1>7, <1>8

LEMMA TakeLocated ==
  ASSUME TypeInv, LocatedOK, phase = "scan", faults' = 0, NEW it,
         \/ TakeUnfit(it) \/ TakeDuplicate(it) \/ TakeSuppressed(it)
         \/ TakeMember(it) \/ TakeUnclustered(it)
  PROVE  LocatedOK'
<1>1. Arriving(it) /\ TriageFrame /\ UNCHANGED <<durable, faults>>
  BY DEF TakeUnfit, TakeDuplicate, TakeSuppressed, TakeMember, TakeUnclustered, New
<1>2. PICK pc \in {"drop", "site", "memberDrop", "fold"} : \E target : Dequeue(pc, it, target)
  BY DEF TakeUnfit, TakeDuplicate, TakeSuppressed, TakeMember, TakeUnclustered
<1>3. candCh' = Tail(candCh) /\ tri'.item = it /\ tri'.pc = pc
  BY <1>2 DEF Dequeue
<1>4. UNCHANGED <<wal, ver, phase, faults>> /\ ~Working
  BY <1>1 DEF TriageFrame, durable, Arriving, Working
<1>5. /\ Len(candCh) >= 1 /\ it = candCh[1] /\ Len(candCh) \in Nat
      /\ Len(candCh') = Len(candCh) - 1
      /\ \A i \in 1..(Len(candCh) - 1) : candCh'[i] = candCh[i + 1]
  BY <1>1, <1>3, ArrivingItem, LenProperties DEF TypeInv, TriageOK
<1>6. ASSUME NEW c, InChannel(c)
      PROVE  InChannel(c)' \/ AtTriage(c)'
  <2>1. PICK i \in 1..Len(candCh) : candCh[i].cand = c /\ candCh[i].row
    BY <1>6 DEF InChannel
  <2>2. CASE i = 1
    BY <1>3, <1>5, <2>1, <2>2 DEF AtTriage, Working
  <2>3. CASE i # 1
    <3>1. i - 1 \in 1..Len(candCh') /\ candCh'[i - 1] = candCh[i]
      BY <1>5, <2>3
    <3>2. QED
      BY <2>1, <3>1 DEF InChannel
  <2>4. QED
    BY <2>2, <2>3
<1>7. \A c : AtVerifier(c) => AtVerifier(c)'
  BY <1>4 DEF AtVerifier
<1>8. QED
  BY <1>3, <1>4, <1>6, <1>7 DEF LocatedOK, AtTriage

LEMMA RegisterLocated ==
  ASSUME TypeInv, SuppressionInv, LocatedOK, phase = "scan", faults' = 0, RegisterPrimary
  PROVE  LocatedOK'
<1> DEFINE it == tri.item
           v == [IdleVerifier EXCEPT !.pc = "panel", !.item = it]
<1>1. /\ tri.pc = "fold" /\ tri' = IdleTriage /\ ver' = [ver EXCEPT ![it.fp] = v]
      /\ UNCHANGED <<wal, phase, candCh, faults>>
  BY DEF RegisterPrimary, At, durable
<1>2. v.pc = "panel" /\ v.item = it /\ tri'.pc = "idle"
  BY <1>1 DEF IdleVerifier, IdleTriage
<1>3. Working /\ tri.pc \in FoldPcs
  BY <1>1 DEF Working, FoldPcs
<1>4. it.fp \in Fps /\ ver[it.fp].pc = "none"
  BY <1>3 DEF TypeInv, TriageOK, Items, SuppressionInv, FoldingOK
<1> HIDE DEF it, v
<1>5. /\ ver'[it.fp].pc \in BeforeDelete /\ ver'[it.fp].item = it
      /\ \A g \in Fps \ {it.fp} : ver'[g] = ver[g]
  BY <1>1, <1>2, <1>4 DEF TypeInv, VerOK, BeforeDelete
<1>6. ASSUME NEW c
      PROVE  /\ InChannel(c) => InChannel(c)'
             /\ AtTriage(c) \/ AtVerifier(c) => AtVerifier(c)'
  <2>1. InChannel(c) => InChannel(c)'
    BY <1>1 DEF InChannel
  <2>2. AtTriage(c) => AtVerifier(c)'
    BY <1>4, <1>5 DEF AtTriage, AtVerifier, it
  <2>3. AtVerifier(c) => AtVerifier(c)'
    BY <1>4, <1>5 DEF AtVerifier, BeforeDelete
  <2>4. QED
    BY <2>1, <2>2, <2>3
<1>7. QED
  BY <1>1, <1>2, <1>6 DEF LocatedOK

(* The rows a verifier holds it holds until it deletes them: no step of an *)
(* unsuppressed primary in a scan leaves the statements before the delete  *)
(* otherwise.                                                              *)
LEMMA VerifyHolds ==
  ASSUME TypeInv, SuppressionInv, phase = "scan", faults' = 0, NEW f \in Fps, Verify(f)
  PROVE  /\ faults = 0
         /\ ver[f].pc \in BeforeDelete =>
              \/ UNCHANGED wal /\ ver'[f].pc \in BeforeDelete
              \/ ver[f].item.row => ver[f].item.cand \notin ToSet(wal')
<1>1. /\ ver[f] \in Verifiers /\ ver \in [Fps -> Verifiers] /\ RunOK
      /\ VerifierMoved(f) /\ ~ver[f].item.reverify
  BY VerifyMoves, ScanItems DEF TypeInv, VerOK, VerifierMoved
<1>2. \A pc : Goto(f, pc) => ver'[f].pc = pc
  BY <1>1, VerifierAt DEF Goto, Verifiers
<1>3. CASE Panel(f)
  <2>1. UNCHANGED wal /\ Unfaulted /\ \E pc \in {"orphan", "kill", "lenses"} : Goto(f, pc)
    BY <1>1, <1>3, NoFault DEF Panel, durable
  <2>2. QED
    BY <1>1, <1>2, <2>1, NoFault DEF BeforeDelete
<1>4. CASE PersistOrphan(f)
  <2>1. f \notin suppressed
    BY <1>4 DEF PersistOrphan, Verifier, SuppressionInv, FlightOK, InFlightUnsuppressed
  <2>2. /\ UNCHANGED wal /\ Unfaulted
        /\ ver' = [ver EXCEPT ![f] = [ver[f] EXCEPT !.pc = "delete", !.tier = 3]]
    BY <1>1, <1>4, <2>1, NoFault DEF PersistOrphan
  <2>3. ver'[f].pc = "delete"
    BY <1>1, <2>2 DEF Verifiers
  <2>4. QED
    BY <1>1, <2>2, <2>3, NoFault DEF BeforeDelete
<1>5. CASE Kill(f)
  BY <1>1, <1>2, <1>5, NoFault DEF Kill, AfterKill, durable, BeforeDelete
<1>6. CASE DismissRefuted(f) \/ Unkept(f)
  BY <1>1, <1>6, NoFault DEF DismissRefuted, Unkept, Verifier, BeforeDelete
<1>7. CASE ForgetKilled(f) \/ DeleteRow(f)
  BY <1>1, <1>7, NoFault, DeletedRow DEF ForgetKilled, DeleteRow, VerifierMoved, TypeInv
<1>8. CASE DrainLenses(f)
  <2>1. ver'[f].pc = "sites"
    BY <1>1, <1>8 DEF DrainLenses, SurvivorStep, Verifiers
  <2>2. QED
    BY <1>1, <1>8, <2>1, NoFault DEF DrainLenses, durable, BeforeDelete
<1>9. CASE DrainSites(f)
  <2>1. ver'[f].pc = "upsert"
    BY <1>1, <1>9 DEF DrainSites, SurvivorStep, Verifiers
  <2>2. QED
    BY <1>1, <1>9, <2>1, NoFault DEF DrainSites, durable, BeforeDelete
<1>10. CASE PersistSurvivor(f)
  <2>1. UNCHANGED wal /\ Unfaulted /\ Goto(f, "delete")
    BY <1>1, <1>10, NoFault DEF PersistSurvivor, SurvivorStep
  <2>2. QED
    BY <1>1, <1>2, <2>1, NoFault DEF BeforeDelete
<1>11. CASE Signal(f) \/ AttachLateLenses(f) \/ AttachLateSites(f)
  <2>1. ver[f].pc \notin BeforeDelete
    BY <1>11 DEF Signal, AttachLateLenses, AttachLateSites, Verifier, BeforeDelete
  <2>2. QED
    BY <1>1, <1>11, <2>1, NoFault DEF Signal, AttachLateLenses, AttachLateSites
<1>12. QED
  BY <1>3, <1>4, <1>5, <1>6, <1>7, <1>8, <1>9, <1>10, <1>11 DEF Verify

LEMMA VerifyLocated ==
  ASSUME TypeInv, SuppressionInv, LocatedOK, phase = "scan", faults' = 0,
         NEW f \in Fps, Verify(f)
  PROVE  LocatedOK'
<1>1. /\ VerifierMoved(f) /\ UNCHANGED <<candCh, tri, phase>> /\ ToSet(wal') \subseteq ToSet(wal)
  BY VerifyMoves DEF RestTyped, WalLoses
<1>2. /\ faults = 0
      /\ ver[f].pc \in BeforeDelete =>
           \/ UNCHANGED wal /\ ver'[f].pc \in BeforeDelete
           \/ ver[f].item.row => ver[f].item.cand \notin ToSet(wal')
  BY VerifyHolds
<1>3. ASSUME NEW c \in ToSet(wal')
      PROVE  InChannel(c)' \/ AtTriage(c)' \/ AtVerifier(c)'
  <2>1. InChannel(c) \/ AtTriage(c) \/ AtVerifier(c)
    BY <1>1, <1>2, <1>3 DEF LocatedOK
  <2>2. (InChannel(c) => InChannel(c)') /\ (AtTriage(c) => AtTriage(c)')
    BY <1>1 DEF InChannel, AtTriage, Working
  <2>3. AtVerifier(c) => AtVerifier(c)'
    BY <1>1, <1>2, <1>3 DEF AtVerifier, VerifierMoved
  <2>4. QED
    BY <2>1, <2>2, <2>3
<1>4. QED
  BY <1>1, <1>2, <1>3 DEF LocatedOK

LEMMA DiscoverLocated ==
  ASSUME TypeInv, LocatedOK, phase = "scan", faults' = 0, NEW c \in Cands, Discover(c)
  PROVE  LocatedOK'
<1>1. /\ wal' = Append(wal, c) /\ Emit(Fresh(c, TRUE)) /\ Unfaulted
      /\ UNCHANGED <<phase, tri, ver>>
  BY NoFault DEF Discover, shared, TypeInv
<1>2. faults = 0 /\ tri.pc # "dead"
  BY <1>1, NoFault DEF TypeInv, LocatedOK
<1>3. candCh' = Append(candCh, Fresh(c, TRUE)) /\ candCh \in Seq(Items) /\ Fresh(c, TRUE) \in Items
  BY <1>1, <1>2, NewItems DEF Emit, TypeInv, TriageOK
<1>4. /\ Len(candCh') = Len(candCh) + 1 /\ candCh'[Len(candCh) + 1] = Fresh(c, TRUE)
      /\ Len(candCh) \in Nat /\ \A i \in 1..Len(candCh) : candCh'[i] = candCh[i]
  <2> DEFINE new == Fresh(c, TRUE)
  <2>1. candCh' = Append(candCh, new) /\ candCh \in Seq(Items) /\ new \in Items
    BY <1>3
  <2> HIDE DEF new
  <2>2. Len(candCh) \in Nat
    BY <2>1, LenProperties
  <2>3. /\ Len(candCh') = Len(candCh) + 1 /\ candCh'[Len(candCh) + 1] = new
        /\ \A i \in 1..Len(candCh) : candCh'[i] = candCh[i]
    BY <2>1, AppendProperties
  <2>4. QED
    BY <2>2, <2>3 DEF new
<1>5. InChannel(c)'
  <2>1. Len(candCh) + 1 \in 1..Len(candCh')
    BY <1>4
  <2>2. candCh'[Len(candCh) + 1] = Fresh(c, TRUE)
    BY <1>4
  <2>3. Fresh(c, TRUE).cand = c
    BY ItemKinds
  <2>4. Fresh(c, TRUE).row = TRUE
    BY ItemKinds
  <2>5. QED
    BY <2>1, <2>2, <2>3, <2>4 DEF InChannel
<1>6. \A x : InChannel(x) => InChannel(x)'
  BY <1>4 DEF InChannel
<1>7. \A x : (AtTriage(x) => AtTriage(x)') /\ (AtVerifier(x) => AtVerifier(x)')
  BY <1>1 DEF AtTriage, AtVerifier, Working
<1>8. ToSet(wal') = ToSet(wal) \cup {c}
  BY <1>1, AppendFacts DEF TypeInv, StoreOK
<1>9. QED
  BY <1>1, <1>2, <1>5, <1>6, <1>7, <1>8 DEF LocatedOK

LEMMA StartLocated ==
  ASSUME TypeInv, StartRun
  PROVE  LocatedOK'
<1> SUFFICES ASSUME phase' = "scan" PROVE LocatedOK'
  BY DEF LocatedOK
<1>1. PICK q \in Replays : StartWith(q)
  BY DEF StartRun
<1>2. /\ q \in Seq(Items) /\ Len(q) = Len(wal)
      /\ \A i \in 1..Len(wal) : q[i] = Replayed(wal[i])
  BY ReplaysTyped DEF TypeInv
<1>3. candCh' = q /\ tri'.pc = "idle" /\ UNCHANGED wal
  BY <1>1, <1>2, FreshStart DEF StartWith, StartRun, durable
<1>4. \A i \in 1..Len(wal) : q[i].cand = wal[i] /\ q[i].row = TRUE
  BY <1>2, ItemKinds
<1>5. \A c \in ToSet(wal) : InChannel(c)'
  BY <1>2, <1>3, <1>4, SeqFacts DEF InChannel, TypeInv, StoreOK
<1>6. QED
  BY <1>3, <1>5 DEF LocatedOK

LEMMA LocatedStep ==
  TypeInv /\ SuppressionInv /\ LocatedOK /\ [Next]_vars => LocatedOK'
<1> SUFFICES ASSUME TypeInv, SuppressionInv, LocatedOK, [Next]_vars,
                    phase' = "scan", faults' = 0
             PROVE  LocatedOK'
  BY DEF LocatedOK
<1>1. CASE StartRun
  BY <1>1, StartLocated
<1>2. CASE Report \/ Abort \/ Crash \/ \E f \in Fps : Command(f)
  BY <1>2 DEF Report, Abort, Crash, Command, Running
<1>3. CASE FindersEnd \/ UNCHANGED vars
  BY <1>3 DEF FindersEnd, vars, durable, triage, shared, LocatedOK, InChannel, AtTriage,
              AtVerifier, Working
<1>4. CASE \E c \in Cands : Discover(c)
  <2>1. phase = "scan"
    BY <1>4 DEF Discover
  <2>2. QED
    BY <1>4, <2>1, DiscoverLocated
<1>5. CASE \E f \in Fps : Verify(f)
  <2>1. phase = "scan"
    BY <1>5, VerifyMoves DEF RestTyped
  <2>2. QED
    BY <1>5, <2>1, VerifyLocated
<1>6. CASE Triage
  <2>1. phase = "scan"
    BY <1>6, TriageMoves DEF RestTyped
  <2>2. ~TriageFails
    BY NoFault DEF TriageFails, TypeInv
  <2>3. QED
    BY <1>6, <2>1, <2>2, TakeLocated, WorkLocated, RegisterLocated DEF Triage
<1>7. QED
  BY <1>1, <1>2, <1>3, <1>4, <1>5, <1>6 DEF Next

LEMMA LocatedHolds == Spec => []LocatedOK
<1>1. Init => LocatedOK
  BY DEF Init, LocatedOK
<1>2. TypeInv /\ SuppressionInv /\ LocatedOK /\ [Next]_vars => LocatedOK'
  BY LocatedStep
<1>3. QED
  BY <1>1, <1>2, TypeInvHolds, SuppressionInvHolds, PTL DEF Spec

LEMMA ReportEmptiesWal ==
  ASSUME TypeInv, LocatedOK, Next, phase = "scan", phase' = "reported", faults = 0
  PROVE  wal' = <<>>
<1>1. Report
  <2>1. ~StartRun /\ ~FindersEnd /\ ~Abort /\ ~Crash
    BY DEF StartRun, FindersEnd, Abort, Crash
  <2>2. ~(\E c \in Cands : Discover(c)) /\ ~(\E f \in Fps : Command(f))
    BY DEF Discover, Command
  <2>3. ~Triage
    BY TriageMoves DEF RestTyped
  <2>4. ~(\E f \in Fps : Verify(f))
    BY VerifyMoves DEF RestTyped
  <2>5. QED
    BY <2>1, <2>2, <2>3, <2>4 DEF Next
<1>2. /\ UNCHANGED wal /\ candCh = <<>> /\ tri.pc \in {"idle", "dead"}
      /\ \A f \in Fps : ver[f].pc \in {"none", "done"}
  BY <1>1 DEF Report, Joined
<1>3. \A c : ~InChannel(c) /\ ~AtTriage(c) /\ ~AtVerifier(c)
  <2>1. Len(candCh) = 0 /\ 1..0 = {}
    BY <1>2, EmptySeq
  <2>2. QED
    BY <1>2, <2>1 DEF InChannel, AtTriage, AtVerifier, Working, BeforeDelete
<1>4. ToSet(wal) = {}
  BY <1>3 DEF LocatedOK
<1>5. wal = <<>>
  <2>1. wal # <<>> => Len(wal) >= 1
    BY SeqFacts DEF TypeInv, StoreOK
  <2>2. Len(wal) >= 1 => wal[1] \in ToSet(wal)
    BY SeqFacts DEF TypeInv, StoreOK
  <2>3. QED
    BY <1>4, <2>1, <2>2
<1>6. QED
  BY <1>2, <1>5

(* A scan that returns without a failed statement leaves no write-ahead    *)
(* row: each is with triage's channel, triage or a verifier that has yet   *)
(* to delete it, and the run returns when all of them are done             *)
(* (store/pending.go:20-22, funnel/run_pipeline.go).                       *)
THEOREM CleanScansEmptyTheLog == Spec => CleanScanEmptiesWal
<1>1. TypeInv /\ LocatedOK /\ [Next]_vars =>
        [phase = "scan" /\ phase' = "reported" /\ faults = 0 => wal' = <<>>]_vars
  BY ReportEmptiesWal
<1>2. QED
  BY <1>1, TypeInvHolds, LocatedHolds, PTL DEF Spec, CleanScanEmptiesWal

-----------------------------------------------------------------------------
(* Hand-offs between triage and the verifiers.                             *)

(* A row is written once its verifier has upserted it; the copy of a       *)
(* written row is in the run's results when it is an orphan's or when its  *)
(* verifier is done.                                                       *)
LivePcs == {"panel", "orphan", "kill", "lenses", "sites", "upsert", "delete", "signal"}
Written(f) ==
  \/ ver[f].pc \in {"delete", "signal", "lateLenses", "lateSites"}
  \/ ver[f].pc = "done" /\ reg[f].status = "persisted"
Copied(f) == ver[f].tier = 3 \/ ver[f].pc = "done"

(* Until a statement fails: the status of a primary's entry says where its *)
(* verifier is, nothing is late before the signal and nothing staged after *)
(* it;                                                                     *)
EntryOK(f) ==
  /\ ver[f].pc \in LivePcs => reg[f].status = "live"
  /\ ver[f].pc \in {"dismiss", "forget"} => reg[f].status = "killed"
  /\ ver[f].pc \in {"lateLenses", "lateSites"} => reg[f].status = "persisted"
  /\ ver[f].pc = "done" => reg[f].status \in {"persisted", "killed"}
  /\ ver[f].pc # "unkept"
  /\ reg[f].status = "live" => reg[f].attachedLate = {} /\ reg[f].lateSites = {}
  /\ reg[f].status = "persisted" => reg[f].stagedLenses = {} /\ reg[f].stagedSites = {}
(* a verifier's own copy is empty until it drains the registry;            *)
CopyOK(f) ==
  /\ ver[f].pc \in {"panel", "orphan", "lenses"} => ver[f].lenses = {}
  /\ ver[f].pc \in {"panel", "orphan", "lenses", "sites"} => ver[f].sites = {} /\ ver[f].tier = 2
  /\ ver[f].pc \in {"panel", "orphan", "lenses", "sites", "upsert", "delete", "signal"} =>
       ver[f].late = {}
  /\ ver[f].pc \in {"upsert", "lateSites"} => ver[f].tier = 2
  /\ ver[f].pc \in {"upsert", "delete", "signal", "lateLenses", "lateSites"} /\ ver[f].tier = 2 =>
       ver[f].item.cand \in ver[f].sites
  /\ ~Written(f) => result[f].sites = {}
(* a written row is the primary's and holds that copy, but for the lenses  *)
(* yet to be attached; so does the copy in the results;                    *)
RowOK(f) ==
  Written(f) =>
    /\ Stored(f) /\ finding[f].cand = ver[f].item.cand
    /\ ver[f].item.cand \in finding[f].sites /\ ver[f].sites \subseteq finding[f].sites
    /\ ver[f].lenses \subseteq finding[f].lenses \cup ver[f].late
    /\ ver[f].pc # "lateLenses" => ver[f].lenses \cup ver[f].late \subseteq finding[f].lenses
    /\ Copied(f) => /\ ver[f].item.cand \in result[f].sites
                    /\ result[f].sites \subseteq finding[f].sites
                    /\ result[f].lenses \subseteq finding[f].lenses
(* and triage writes a row itself only when the entry told it to.          *)
HandOK ==
  /\ tri.pc \in {"siteStore", "lensStore"} => reg[tri.target].status \in {"none", "persisted"}
  /\ \A m \in member : ver[m.cluster].pc # "none"
DismissedOK == \A f \in Fps : finding[f].status = "dismissed" => f \in suppressed

HandoffInv ==
  faults = 0 =>
    /\ DismissedOK
    /\ Running => HandOK /\ \A f \in Fps : EntryOK(f) /\ CopyOK(f) /\ RowOK(f)

(* What statements do to a row's contents.                                 *)
LEMMA WithLensesRow ==
  ASSUME StoreOK, NEW f \in Fps, NEW lenses \in SUBSET Lenses, NEW g \in Fps
  PROVE  /\ WithLenses(f, lenses)[g].cand = finding[g].cand
         /\ WithLenses(f, lenses)[g].sites = finding[g].sites
         /\ WithLenses(f, lenses)[g].lenses =
              IF g = f /\ Stored(f) THEN finding[g].lenses \cup lenses ELSE finding[g].lenses
         /\ g # f \/ ~Stored(f) => WithLenses(f, lenses)[g] = finding[g]
<1> DEFINE new == [finding[f] EXCEPT !.lenses = finding[f].lenses \cup lenses]
<1>1. /\ new.cand = finding[f].cand /\ new.sites = finding[f].sites
      /\ new.lenses = finding[f].lenses \cup lenses
  BY DEF StoreOK, Rows
<1>2. WithLenses(f, lenses) = IF Stored(f) THEN [finding EXCEPT ![f] = new] ELSE finding
  BY DEF WithLenses, StoreOK
<1> HIDE DEF new
<1>3. QED
  BY <1>1, <1>2 DEF StoreOK

LEMMA WithSitesRow ==
  ASSUME StoreOK, NEW f \in Fps, NEW sites \in SUBSET Cands, NEW g \in Fps
  PROVE  /\ WithSites(f, sites)[g].cand = finding[g].cand
         /\ WithSites(f, sites)[g].lenses = finding[g].lenses
         /\ WithSites(f, sites)[g].sites =
              IF g = f /\ Stored(f) THEN finding[g].sites \cup sites ELSE finding[g].sites
         /\ g # f \/ ~Stored(f) => WithSites(f, sites)[g] = finding[g]
<1> DEFINE new == [finding[f] EXCEPT !.sites = finding[f].sites \cup sites]
<1>1. /\ new.cand = finding[f].cand /\ new.lenses = finding[f].lenses
      /\ new.sites = finding[f].sites \cup sites
  BY DEF StoreOK, Rows
<1>2. WithSites(f, sites) = IF Stored(f) THEN [finding EXCEPT ![f] = new] ELSE finding
  BY DEF WithSites, StoreOK
<1> HIDE DEF new
<1>3. QED
  BY <1>1, <1>2 DEF StoreOK

LEMMA WithStatusRow ==
  ASSUME StoreOK, NEW f \in Fps, NEW status, NEW g \in Fps
  PROVE  /\ WithStatus(f, status)[g].cand = finding[g].cand
         /\ WithStatus(f, status)[g].lenses = finding[g].lenses
         /\ WithStatus(f, status)[g].sites = finding[g].sites
         /\ g # f \/ ~Stored(f) => WithStatus(f, status)[g] = finding[g]
<1> DEFINE new == [finding[f] EXCEPT !.status = status]
<1>1. /\ new.cand = finding[f].cand /\ new.lenses = finding[f].lenses
      /\ new.sites = finding[f].sites
  BY DEF StoreOK, Rows
<1>2. WithStatus(f, status) = IF Stored(f) THEN [finding EXCEPT ![f] = new] ELSE finding
  BY DEF WithStatus, StoreOK
<1> HIDE DEF new
<1>3. QED
  BY <1>1, <1>2 DEF StoreOK

LEMMA UpsertedRow ==
  ASSUME StoreOK, NEW f \in Fps, NEW c, NEW tier, NEW lenses, NEW sites
  PROVE  /\ Upserted(f, c, tier, lenses, sites)[f].cand = c
         /\ Upserted(f, c, tier, lenses, sites)[f].lenses = lenses
         /\ Upserted(f, c, tier, lenses, sites)[f].sites = sites
         /\ Upserted(f, c, tier, lenses, sites)[f].status =
              IF f \in suppressed THEN "dismissed" ELSE "open"
         /\ \A g \in Fps \ {f} : Upserted(f, c, tier, lenses, sites)[g] = finding[g]
<1> DEFINE new == [status |-> IF f \in suppressed THEN "dismissed" ELSE "open",
                   cand   |-> c,
                   tier   |-> IF finding[f].status # "absent" /\ finding[f].tier < tier
                              THEN finding[f].tier ELSE tier,
                   lenses |-> lenses, sites |-> sites]
<1>1. Upserted(f, c, tier, lenses, sites) = [finding EXCEPT ![f] = new]
  BY DEF Upserted, StoreOK
<1>2. /\ new.cand = c /\ new.lenses = lenses /\ new.sites = sites
      /\ new.status = IF f \in suppressed THEN "dismissed" ELSE "open"
  OBVIOUS
<1> HIDE DEF new
<1>3. QED
  BY <1>1, <1>2 DEF StoreOK

(* What an entry holds after a registry method.                            *)
Holds(e, status, stagedLenses, attachedLate, stagedSites, lateSites) ==
  /\ e.status = status /\ e.stagedLenses = stagedLenses /\ e.attachedLate = attachedLate
  /\ e.stagedSites = stagedSites /\ e.lateSites = lateSites

LEMMA RegistryContents ==
  ASSUME NEW e \in Entry(Lenses, Cands)
  PROVE  /\ Holds(SignalKilled(e), "killed", {}, e.attachedLate, {}, e.lateSites)
         /\ Holds(SignalPersisted(e), "persisted", {}, e.attachedLate \cup e.stagedLenses,
                  {}, e.lateSites \cup e.stagedSites)
         /\ Holds(DrainStagedLenses(e), e.status, {}, e.attachedLate, e.stagedSites, e.lateSites)
         /\ Holds(DrainStagedSites(e), e.status, e.stagedLenses, e.attachedLate, {}, e.lateSites)
         /\ Holds(DrainLateSites(e), e.status, e.stagedLenses, e.attachedLate, e.stagedSites, {})
<1>1. Holds(SignalKilled(e), "killed", {}, e.attachedLate, {}, e.lateSites)
  BY DEF SignalKilled, Entry, Holds
<1>2. Holds(SignalPersisted(e), "persisted", {}, e.attachedLate \cup e.stagedLenses,
            {}, e.lateSites \cup e.stagedSites)
  BY DEF SignalPersisted, Entry, Holds
<1>3. /\ Holds(DrainStagedLenses(e), e.status, {}, e.attachedLate, e.stagedSites, e.lateSites)
      /\ Holds(DrainStagedSites(e), e.status, e.stagedLenses, e.attachedLate, {}, e.lateSites)
      /\ Holds(DrainLateSites(e), e.status, e.stagedLenses, e.attachedLate, e.stagedSites, {})
  BY DEF DrainStagedLenses, DrainStagedSites, DrainLateSites, Entry, Holds
<1>4. QED
  BY <1>1, <1>2, <1>3

LEMMA StagedContents ==
  ASSUME NEW e \in Entry(Lenses, Cands)
  PROVE  /\ \A l : Holds(AddStagedLens(e, l), e.status,
                     IF e.status = "live" THEN e.stagedLenses \cup {l} ELSE e.stagedLenses,
                     IF e.status = "persisted" THEN e.attachedLate \cup {l} ELSE e.attachedLate,
                     e.stagedSites, e.lateSites)
         /\ \A c : Holds(AddStagedSite(e, c), e.status, e.stagedLenses, e.attachedLate,
                     IF e.status = "live" THEN e.stagedSites \cup {c} ELSE e.stagedSites,
                     IF e.status = "persisted" THEN e.lateSites \cup {c} ELSE e.lateSites)
<1>1. ASSUME NEW l
      PROVE  Holds(AddStagedLens(e, l), e.status,
               IF e.status = "live" THEN e.stagedLenses \cup {l} ELSE e.stagedLenses,
               IF e.status = "persisted" THEN e.attachedLate \cup {l} ELSE e.attachedLate,
               e.stagedSites, e.lateSites)
  BY DEF AddStagedLens, Entry, Holds
<1>2. ASSUME NEW c
      PROVE  Holds(AddStagedSite(e, c), e.status, e.stagedLenses, e.attachedLate,
               IF e.status = "live" THEN e.stagedSites \cup {c} ELSE e.stagedSites,
               IF e.status = "persisted" THEN e.lateSites \cup {c} ELSE e.lateSites)
  BY DEF AddStagedSite, Entry, Holds
<1>3. QED
  BY <1>1, <1>2

-----------------------------------------------------------------------------
(* The steps of a verifier, by what they leave behind.                     *)

Moves(f, pc, tier, lenses, late, sites) ==
  /\ ver'[f].pc = pc /\ ver'[f].tier = tier
  /\ ver'[f].lenses = lenses /\ ver'[f].late = late /\ ver'[f].sites = sites
Turns(f, pc) == Moves(f, pc, ver[f].tier, ver[f].lenses, ver[f].late, ver[f].sites)
RowBecomes(f, lenses, sites) ==
  /\ finding'[f].cand = finding[f].cand /\ finding'[f].status = finding[f].status
  /\ finding'[f].lenses = lenses /\ finding'[f].sites = sites
RowWritten(f, lenses, sites) ==
  /\ finding'[f].cand = ver[f].item.cand /\ finding'[f].status = "open"
  /\ finding'[f].lenses = lenses /\ finding'[f].sites = sites
CopyBecomes(f, lenses, sites) == result'[f].lenses = lenses /\ result'[f].sites = sites
SameEntry(f) == reg'[f] = reg[f]
SameRow(f)   == finding'[f] = finding[f]
SameCopy(f)  == result'[f] = result[f]

Decided(f) ==
  /\ ver[f].pc = "panel" /\ \E pc \in {"orphan", "kill", "lenses"} : Turns(f, pc)
  /\ SameEntry(f) /\ SameRow(f) /\ SameCopy(f)
Orphaned(f) ==
  /\ ver[f].pc = "orphan"
  /\ Moves(f, "delete", 3, ver[f].lenses, ver[f].late, ver[f].sites)
  /\ RowWritten(f, ver[f].item.lenses, {ver[f].item.cand})
  /\ CopyBecomes(f, ver[f].item.lenses, {ver[f].item.cand}) /\ SameEntry(f)
Refuted(f) ==
  /\ ver[f].pc = "kill"
  /\ \/ Turns(f, "dismiss") /\ ver[f].item.reverify
     \/ Turns(f, "forget")
  /\ Holds(reg'[f], "killed", {}, reg[f].attachedLate, {}, reg[f].lateSites)
  /\ SameRow(f) /\ SameCopy(f)
Dismissed(f) ==
  /\ ver[f].pc = "dismiss" /\ ver[f].item.reverify /\ Turns(f, "forget")
  /\ finding' = WithStatus(f, "dismissed") /\ suppressed' = suppressed \cup {f}
  /\ SameEntry(f) /\ SameCopy(f)
Forgotten(f) ==
  ver[f].pc = "forget" /\ Turns(f, "done") /\ SameEntry(f) /\ SameRow(f) /\ SameCopy(f)
LensesDrained(f) ==
  /\ ver[f].pc = "lenses"
  /\ Moves(f, "sites", ver[f].tier, ver[f].item.lenses \cup reg[f].stagedLenses,
           ver[f].late, ver[f].sites)
  /\ Holds(reg'[f], reg[f].status, {}, reg[f].attachedLate, reg[f].stagedSites, reg[f].lateSites)
  /\ SameRow(f) /\ SameCopy(f)
SitesDrained(f) ==
  /\ ver[f].pc = "sites"
  /\ Moves(f, "upsert", ver[f].tier, ver[f].lenses, ver[f].late,
           {ver[f].item.cand} \cup reg[f].stagedSites)
  /\ Holds(reg'[f], reg[f].status, reg[f].stagedLenses, reg[f].attachedLate, {}, reg[f].lateSites)
  /\ SameRow(f) /\ SameCopy(f)
SurvivorWritten(f) ==
  /\ ver[f].pc = "upsert" /\ Turns(f, "delete")
  /\ RowWritten(f, ver[f].lenses, ver[f].sites) /\ SameEntry(f) /\ SameCopy(f)
Deleted(f) ==
  ver[f].pc = "delete" /\ Turns(f, "signal") /\ SameEntry(f) /\ SameRow(f) /\ SameCopy(f)
Signalled(f) ==
  /\ ver[f].pc = "signal"
  /\ Moves(f, "lateLenses", ver[f].tier, ver[f].lenses \cup reg[f].stagedLenses,
           reg[f].stagedLenses, ver[f].sites)
  /\ Holds(reg'[f], "persisted", {}, reg[f].attachedLate \cup reg[f].stagedLenses,
           {}, reg[f].lateSites \cup reg[f].stagedSites)
  /\ SameRow(f) /\ SameCopy(f)
LensesAttached(f) ==
  /\ ver[f].pc = "lateLenses" /\ Turns(f, IF ver[f].tier = 2 THEN "lateSites" ELSE "done")
  /\ Stored(f) => RowBecomes(f, finding[f].lenses \cup ver[f].late, finding[f].sites)
  /\ SameEntry(f) /\ SameCopy(f)
SitesAttached(f) ==
  /\ ver[f].pc = "lateSites" /\ Turns(f, "done")
  /\ Stored(f) => RowBecomes(f, finding[f].lenses, finding[f].sites \cup reg[f].lateSites)
  /\ CopyBecomes(f, ver[f].lenses, ver[f].sites \cup reg[f].lateSites)
  /\ Holds(reg'[f], reg[f].status, reg[f].stagedLenses, reg[f].attachedLate,
           reg[f].stagedSites, {})

VerifyEffect(f) ==
  \/ Decided(f) \/ Orphaned(f) \/ Refuted(f) \/ Dismissed(f) \/ Forgotten(f)
  \/ LensesDrained(f) \/ SitesDrained(f) \/ SurvivorWritten(f) \/ Deleted(f)
  \/ Signalled(f) \/ LensesAttached(f) \/ SitesAttached(f)

(* The steps of a verifier while no statement fails.                       *)
LEMMA VerifyEffects ==
  ASSUME TypeInv, SuppressionInv, HandoffInv, faults' = 0, NEW f \in Fps, Verify(f)
  PROVE  /\ VerifyEffect(f) /\ faults = 0
         /\ Dismissed(f) \/ UNCHANGED suppressed
         /\ VerifierMoved(f) /\ Running
         /\ UNCHANGED <<found, phase, candCh, tri, seen, member, heir, walled, runs>>
         /\ \A g \in Fps \ {f} : finding'[g] = finding[g] /\ result'[g] = result[g]
<1>1. /\ VerifierMoved(f) /\ Running /\ VerifyFrame /\ RunOK /\ StoreOK
      /\ ver \in [Fps -> Verifiers] /\ ver[f] \in Verifiers /\ reg[f] \in Entry(Lenses, Cands)
      /\ reg \in [Fps -> Entry(Lenses, Cands)]
      /\ ver[f].item \in Items /\ result \in [Fps -> [lenses : SUBSET Lenses, sites : SUBSET Cands]]
  <2>1. VerifyFrame
    BY DEF Verify, Panel, PersistOrphan, Unkept, Kill, DismissRefuted, ForgetKilled, DrainLenses,
           DrainSites, PersistSurvivor, DeleteRow, Signal, AttachLateLenses, AttachLateSites
  <2>2. RestTyped({ver[f].item.cand}) /\ VerifierMoved(f)
    BY VerifyMoves
  <2>3. QED
    BY <2>1, <2>2 DEF TypeInv, VerOK, RunOK, RestTyped, VerifierMoved
<1>2. faults = 0 /\ ~Fault /\ \A it : DeletePending(it) => UNCHANGED faults
  <2>1. faults \in Nat
    BY <1>1, Bounds DEF RunOK
  <2>2. ~Fault
    BY <1>1, NoFault
  <2>3. Unfaulted \/ UNCHANGED faults \/ \E it : DeletePending(it)
    BY <2>2 DEF Verify, Panel, PersistOrphan, Unkept, Kill, DismissRefuted, ForgetKilled,
         DrainLenses, DrainSites, PersistSurvivor, DeleteRow, Signal, AttachLateLenses,
         AttachLateSites
  <2>4. QED
    BY <1>1, <2>2, <2>3, NoFault DEF DeletePending, Unfaulted
<1>3. UNCHANGED <<found, phase, candCh, tri, seen, member, heir, walled, runs>>
  BY <1>1 DEF VerifyFrame, triage, bounds
<1>4. HandOK /\ EntryOK(f) /\ CopyOK(f) /\ RowOK(f)
  BY <1>1, <1>2 DEF HandoffInv
<1>5. /\ ver[f].lenses \in SUBSET Lenses /\ ver[f].late \in SUBSET Lenses
      /\ ver[f].sites \in SUBSET Cands /\ reg[f].lateSites \in SUBSET Cands
      /\ ver[f].item.cand \in Cands /\ ver[f].item.lenses \in SUBSET Lenses
  BY <1>1 DEF Verifiers, Entry, Items
<1>6. ver[f].pc \notin {"none", "forget", "done"} => f \notin suppressed
  BY DEF SuppressionInv, FlightOK, InFlightUnsuppressed
<1>7. \A pc : Goto(f, pc) => Turns(f, pc)
  BY <1>1 DEF Goto, Turns, Moves, Verifiers
<1>8. UNCHANGED reg => SameEntry(f)
  BY DEF SameEntry
<1>9. UNCHANGED finding => SameRow(f) /\ \A g \in Fps \ {f} : finding'[g] = finding[g]
  BY DEF SameRow
<1>10. UNCHANGED result => SameCopy(f) /\ \A g \in Fps \ {f} : result'[g] = result[g]
  BY DEF SameCopy
<1>11. ASSUME NEW e, reg' = [reg EXCEPT ![f] = e]
       PROVE  reg'[f] = e
  BY <1>1, <1>11
<1>12. /\ Holds(SignalKilled(reg[f]), "killed", {}, reg[f].attachedLate, {}, reg[f].lateSites)
       /\ Holds(SignalPersisted(reg[f]), "persisted", {}, reg[f].attachedLate \cup reg[f].stagedLenses,
                {}, reg[f].lateSites \cup reg[f].stagedSites)
       /\ Holds(DrainStagedLenses(reg[f]), reg[f].status, {}, reg[f].attachedLate,
                reg[f].stagedSites, reg[f].lateSites)
       /\ Holds(DrainStagedSites(reg[f]), reg[f].status, reg[f].stagedLenses, reg[f].attachedLate,
                {}, reg[f].lateSites)
       /\ Holds(DrainLateSites(reg[f]), reg[f].status, reg[f].stagedLenses, reg[f].attachedLate,
                reg[f].stagedSites, {})
  BY <1>1, RegistryContents
<1>13. SUFFICES /\ VerifyEffect(f)
                /\ Dismissed(f) \/ UNCHANGED suppressed
                /\ \A g \in Fps \ {f} : finding'[g] = finding[g] /\ result'[g] = result[g]
  BY <1>1, <1>2, <1>3
<1>14. CASE Panel(f)
  <2>1. /\ ver[f].pc = "panel" /\ UNCHANGED <<durable, reg, result>>
        /\ Goto(f, "orphan") \/ Goto(f, "kill") \/ Goto(f, "lenses")
    BY <1>2, <1>14 DEF Panel, Verifier
  <2>2. Decided(f)
    BY <1>7, <1>8, <1>9, <1>10, <2>1 DEF Decided, durable
  <2>3. QED
    BY <1>9, <1>10, <2>1, <2>2 DEF VerifyEffect, durable
<1>15. CASE PersistOrphan(f)
  <2> DEFINE it == ver[f].item
             copy == [lenses |-> it.lenses, sites |-> {it.cand}]
  <2>1. /\ ver[f].pc = "orphan" /\ f \notin suppressed /\ UNCHANGED <<suppressed, reg>>
        /\ finding' = Upserted(f, it.cand, 3, it.lenses, {it.cand})
        /\ result' = [result EXCEPT ![f] = copy]
        /\ ver' = [ver EXCEPT ![f] = [ver[f] EXCEPT !.pc = "delete", !.tier = 3]]
    BY <1>1, <1>2, <1>6, <1>15 DEF PersistOrphan, Verifier
  <2>2. Moves(f, "delete", 3, ver[f].lenses, ver[f].late, ver[f].sites)
    BY <1>1, <2>1 DEF Moves, Verifiers
  <2>3. copy.lenses = it.lenses /\ copy.sites = {it.cand}
    OBVIOUS
  <2> HIDE DEF copy
  <2>4. CopyBecomes(f, it.lenses, {it.cand}) /\ \A g \in Fps \ {f} : result'[g] = result[g]
    BY <1>1, <2>1, <2>3 DEF CopyBecomes
  <2>5. RowWritten(f, it.lenses, {it.cand}) /\ \A g \in Fps \ {f} : finding'[g] = finding[g]
    BY <1>1, <2>1, UpsertedRow DEF RowWritten
  <2>6. Orphaned(f)
    BY <1>8, <2>1, <2>2, <2>4, <2>5 DEF Orphaned
  <2>7. QED
    BY <2>1, <2>4, <2>5, <2>6 DEF VerifyEffect
<1>16. CASE Unkept(f)
  BY <1>4, <1>16 DEF Unkept, Verifier, EntryOK
<1>17. CASE Kill(f)
  <2>1. /\ ver[f].pc = "kill" /\ UNCHANGED <<durable, result>>
        /\ reg' = [reg EXCEPT ![f] = SignalKilled(reg[f])]
        /\ \/ Goto(f, "dismiss") /\ ver[f].item.reverify
           \/ Goto(f, "forget")
    BY <1>17 DEF Kill, Verifier, AfterKill
  <2>2. Refuted(f)
    BY <1>7, <1>9, <1>10, <1>11, <1>12, <2>1 DEF Refuted, durable
  <2>3. QED
    BY <1>9, <1>10, <2>1, <2>2 DEF VerifyEffect, durable
<1>18. CASE DismissRefuted(f)
  <2>1. /\ ver[f].pc = "dismiss" /\ Goto(f, "forget") /\ UNCHANGED <<reg, result>>
        /\ finding' = WithStatus(f, "dismissed") /\ suppressed' = suppressed \cup {f}
    BY <1>2, <1>18 DEF DismissRefuted, Verifier
  <2>2. ver[f].item.reverify
    BY <2>1 DEF SuppressionInv, FlightOK
  <2>3. Dismissed(f)
    BY <1>7, <1>8, <1>10, <2>1, <2>2 DEF Dismissed
  <2>4. \A g \in Fps \ {f} : finding'[g] = finding[g]
    BY <1>1, <2>1, WithStatusRow
  <2>5. QED
    BY <1>10, <2>1, <2>3, <2>4 DEF VerifyEffect
<1>19. CASE ForgetKilled(f)
  <2>1. /\ ver[f].pc = "forget" /\ Goto(f, "done") /\ UNCHANGED <<finding, suppressed, reg, result>>
    BY <1>19 DEF ForgetKilled, Verifier
  <2>2. Forgotten(f)
    BY <1>7, <1>8, <1>9, <1>10, <2>1 DEF Forgotten
  <2>3. QED
    BY <1>9, <1>10, <2>1, <2>2 DEF VerifyEffect
<1>20. CASE DrainLenses(f)
  <2>1. /\ ver[f].pc = "lenses" /\ UNCHANGED <<durable, result>>
        /\ reg' = [reg EXCEPT ![f] = DrainStagedLenses(reg[f])]
        /\ ver' = [ver EXCEPT ![f] = [ver[f] EXCEPT !.pc = "sites",
                     !.lenses = ver[f].item.lenses \cup reg[f].stagedLenses]]
    BY <1>1, <1>20 DEF DrainLenses, Verifier, SurvivorStep
  <2>2. Moves(f, "sites", ver[f].tier, ver[f].item.lenses \cup reg[f].stagedLenses,
              ver[f].late, ver[f].sites)
    BY <1>1, <2>1 DEF Moves, Verifiers
  <2>3. LensesDrained(f)
    BY <1>9, <1>10, <1>11, <1>12, <2>1, <2>2 DEF LensesDrained, durable
  <2>4. QED
    BY <1>9, <1>10, <2>1, <2>3 DEF VerifyEffect, durable
<1>21. CASE DrainSites(f)
  <2>1. /\ ver[f].pc = "sites" /\ UNCHANGED <<durable, result>>
        /\ reg' = [reg EXCEPT ![f] = DrainStagedSites(reg[f])]
        /\ ver' = [ver EXCEPT ![f] = [ver[f] EXCEPT !.pc = "upsert",
                     !.sites = {ver[f].item.cand} \cup reg[f].stagedSites]]
    BY <1>1, <1>21 DEF DrainSites, Verifier, SurvivorStep
  <2>2. Moves(f, "upsert", ver[f].tier, ver[f].lenses, ver[f].late,
              {ver[f].item.cand} \cup reg[f].stagedSites)
    BY <1>1, <2>1 DEF Moves, Verifiers
  <2>3. SitesDrained(f)
    BY <1>9, <1>10, <1>11, <1>12, <2>1, <2>2 DEF SitesDrained, durable
  <2>4. QED
    BY <1>9, <1>10, <2>1, <2>3 DEF VerifyEffect, durable
<1>22. CASE PersistSurvivor(f)
  <2>1. /\ ver[f].pc = "upsert" /\ Goto(f, "delete") /\ UNCHANGED <<suppressed, reg, result>>
        /\ finding' = Upserted(f, ver[f].item.cand, 2, ver[f].lenses, ver[f].sites)
    BY <1>2, <1>22 DEF PersistSurvivor, Verifier, SurvivorStep
  <2>2. f \notin suppressed
    BY <1>6, <2>1
  <2>3. /\ RowWritten(f, ver[f].lenses, ver[f].sites)
        /\ \A g \in Fps \ {f} : finding'[g] = finding[g]
    BY <1>1, <2>1, <2>2, UpsertedRow DEF RowWritten
  <2>4. SurvivorWritten(f)
    BY <1>7, <1>8, <1>10, <2>1, <2>3 DEF SurvivorWritten
  <2>5. QED
    BY <1>10, <2>1, <2>3, <2>4 DEF VerifyEffect
<1>23. CASE DeleteRow(f)
  <2>1. ver[f].pc = "delete" /\ UNCHANGED <<finding, suppressed, reg, result>>
    BY <1>23 DEF DeleteRow, Verifier
  <2>2. finding[f].status # "dismissed"
    BY <1>2, <1>6, <2>1 DEF HandoffInv, DismissedOK
  <2>3. Goto(f, "signal")
    BY <1>23, <2>2 DEF DeleteRow, SurvivorStep
  <2>4. Deleted(f)
    BY <1>7, <1>8, <1>9, <1>10, <2>1, <2>3 DEF Deleted
  <2>5. QED
    BY <1>9, <1>10, <2>1, <2>4 DEF VerifyEffect
<1>24. CASE Signal(f)
  <2>1. /\ ver[f].pc = "signal" /\ UNCHANGED <<durable, result>>
        /\ reg' = [reg EXCEPT ![f] = SignalPersisted(reg[f])]
        /\ ver' = [ver EXCEPT ![f] = [ver[f] EXCEPT !.pc = "lateLenses",
                     !.late = reg[f].stagedLenses,
                     !.lenses = ver[f].lenses \cup reg[f].stagedLenses]]
    BY <1>1, <1>24 DEF Signal, Verifier, SurvivorStep
  <2>2. Moves(f, "lateLenses", ver[f].tier, ver[f].lenses \cup reg[f].stagedLenses,
              reg[f].stagedLenses, ver[f].sites)
    BY <1>1, <2>1 DEF Moves, Verifiers
  <2>3. Signalled(f)
    BY <1>9, <1>10, <1>11, <1>12, <2>1, <2>2 DEF Signalled, durable
  <2>4. QED
    BY <1>9, <1>10, <2>1, <2>3 DEF VerifyEffect, durable
<1>25. CASE AttachLateLenses(f)
  <2>1. /\ ver[f].pc = "lateLenses" /\ UNCHANGED <<suppressed, reg, result>>
        /\ Goto(f, IF ver[f].tier = 2 THEN "lateSites" ELSE "done")
        /\ finding' = WithLenses(f, ver[f].late)
    BY <1>2, <1>25 DEF AttachLateLenses, Verifier
  <2>2. /\ Stored(f) => RowBecomes(f, finding[f].lenses \cup ver[f].late, finding[f].sites)
        /\ \A g \in Fps \ {f} : finding'[g] = finding[g]
    <3>1. \A g \in Fps : finding'[g].status = finding[g].status
      BY <1>1, <1>5, <2>1, WithLensesTable
    <3>2. QED
      BY <1>1, <1>5, <2>1, <3>1, WithLensesRow DEF RowBecomes
  <2>3. LensesAttached(f)
    BY <1>7, <1>8, <1>10, <2>1, <2>2 DEF LensesAttached
  <2>4. QED
    BY <1>10, <2>1, <2>2, <2>3 DEF VerifyEffect
<1>26. CASE AttachLateSites(f)
  <2> DEFINE copy == [lenses |-> ver[f].lenses, sites |-> ver[f].sites \cup reg[f].lateSites]
  <2>1. /\ ver[f].pc = "lateSites" /\ Goto(f, "done") /\ UNCHANGED suppressed
        /\ finding' = WithSites(f, reg[f].lateSites)
        /\ result' = [result EXCEPT ![f] = copy]
        /\ reg' = [reg EXCEPT ![f] = DrainLateSites(reg[f])]
    BY <1>2, <1>26 DEF AttachLateSites, Verifier
  <2>2. /\ Stored(f) => RowBecomes(f, finding[f].lenses, finding[f].sites \cup reg[f].lateSites)
        /\ \A g \in Fps \ {f} : finding'[g] = finding[g]
    <3>1. \A g \in Fps : finding'[g].status = finding[g].status
      BY <1>1, <1>5, <2>1, WithSitesTable
    <3>2. QED
      BY <1>1, <1>5, <2>1, <3>1, WithSitesRow DEF RowBecomes
  <2>3. copy.lenses = ver[f].lenses /\ copy.sites = ver[f].sites \cup reg[f].lateSites
    OBVIOUS
  <2> HIDE DEF copy
  <2>4. /\ CopyBecomes(f, ver[f].lenses, ver[f].sites \cup reg[f].lateSites)
        /\ \A g \in Fps \ {f} : result'[g] = result[g]
    BY <1>1, <2>1, <2>3 DEF CopyBecomes
  <2>5. SitesAttached(f)
    BY <1>7, <1>11, <1>12, <2>1, <2>2, <2>4 DEF SitesAttached
  <2>6. QED
    BY <2>1, <2>2, <2>4, <2>5 DEF VerifyEffect
<1>27. QED
  BY <1>14, <1>15, <1>16, <1>17, <1>18, <1>19, <1>20, <1>21, <1>22, <1>23, <1>24, <1>25, <1>26
     DEF Verify

-----------------------------------------------------------------------------
(* Triage adds to rows and entries, and otherwise leaves them.             *)

RowGrows(f) ==
  /\ finding'[f].cand = finding[f].cand /\ (Stored(f) => finding'[f].status # "absent")
  /\ finding[f].lenses \subseteq finding'[f].lenses /\ finding[f].sites \subseteq finding'[f].sites
  /\ ~Stored(f) => finding'[f] = finding[f]
  /\ finding'[f].status = "dismissed" => finding[f].status = "dismissed" \/ f \in suppressed'
EntryGrows(f) ==
  /\ reg'[f].status = reg[f].status
  /\ reg[f].stagedLenses \subseteq reg'[f].stagedLenses
  /\ reg[f].stagedSites \subseteq reg'[f].stagedSites
  /\ reg[f].attachedLate \subseteq reg'[f].attachedLate
  /\ reg[f].lateSites \subseteq reg'[f].lateSites
  /\ reg[f].status = "live" =>
       reg'[f].attachedLate = reg[f].attachedLate /\ reg'[f].lateSites = reg[f].lateSites
  /\ reg[f].status = "persisted" =>
       reg'[f].stagedLenses = reg[f].stagedLenses /\ reg'[f].stagedSites = reg[f].stagedSites

TriageWorks ==
  \/ MemberDrop \/ StageSite \/ StoreSite \/ StageLens \/ StoreLens
  \/ Fold \/ SuppressCandidate \/ ReopenFixed \/ FoldLens \/ FoldSite \/ DropPending

LEMMA SameGrows ==
  ASSUME NEW f \in Fps
  PROVE  /\ UNCHANGED finding => RowGrows(f)
         /\ UNCHANGED reg => EntryGrows(f)
BY DEF RowGrows, EntryGrows, Stored

LEMMA WorkItem ==
  ASSUME TypeInv, Working
  PROVE  /\ tri.item \in Items /\ tri.item.cand \in Cands /\ tri.item.fp \in Fps
         /\ Lens[tri.item.cand] \in Lenses
         /\ tri.pc \in TargetPcs => tri.target \in Fps
BY Constants DEF TypeInv, TriageOK, Items

LEMMA WorkGrows ==
  ASSUME TypeInv, faults' = 0, TriageWorks
  PROVE  /\ faults = 0 /\ suppressed \subseteq suppressed' /\ Running /\ Working
         /\ UNCHANGED <<found, phase, ver, result, walled, runs, candCh, seen, member>>
         /\ \A f \in Fps : RowGrows(f) /\ EntryGrows(f)
<1>0. \/ MemberDrop \/ StageSite \/ StoreSite \/ StageLens \/ StoreLens
      \/ Fold \/ SuppressCandidate \/ ReopenFixed \/ FoldLens \/ FoldSite \/ DropPending
  BY DEF TriageWorks
<1> HIDE DEF TriageWorks
<1>1. /\ Running /\ Working /\ RunOK /\ StoreOK /\ TriageFrame
      /\ UNCHANGED <<candCh, seen, member>>
      /\ reg \in [Fps -> Entry(Lenses, Cands)]
  <2>1. Running /\ Working /\ TriageFrame /\ UNCHANGED <<candCh, seen, member>>
    <3>1. CASE MemberDrop \/ StageSite \/ StoreSite \/ StageLens \/ StoreLens
      BY <3>1 DEF MemberDrop, StageSite, StoreSite, StageLens, StoreLens, At, Working
    <3>2. CASE SuppressCandidate \/ ReopenFixed \/ FoldLens \/ FoldSite \/ DropPending
      BY <3>2 DEF SuppressCandidate, ReopenFixed, FoldLens, FoldSite, DropPending, At, Working
    <3>3. CASE Fold
      <4>1. Running /\ tri.pc = "fold" /\ TriageFrame /\ UNCHANGED <<candCh, seen, member>>
        BY <3>3 DEF Fold, At
      <4>2. QED
        BY <4>1 DEF Working
    <3>4. QED
      BY <1>0, <3>1, <3>2, <3>3
  <2>2. QED
    BY <2>1 DEF TypeInv, VerOK
<1>2. faults = 0 /\ ~Fault
  <2>1. ~Fault
    BY <1>1, NoFault
  <2>2. Unfaulted \/ UNCHANGED faults \/ \E it : DeletePending(it)
    <3>1. CASE MemberDrop \/ StageSite \/ StoreSite \/ StageLens \/ StoreLens
      BY <2>1, <3>1 DEF MemberDrop, StageSite, StoreSite, StageLens, StoreLens
    <3>2. CASE SuppressCandidate \/ ReopenFixed \/ FoldLens \/ FoldSite \/ DropPending
      BY <3>2 DEF SuppressCandidate, ReopenFixed, FoldLens, FoldSite, DropPending
    <3>3. CASE Fold
      BY <3>3 DEF Fold
    <3>4. QED
      BY <1>0, <3>1, <3>2, <3>3
  <2>3. QED
    BY <1>1, <2>1, <2>2, NoFault
<1>3. UNCHANGED <<found, phase, ver, result, walled, runs, candCh, seen, member>>
  BY <1>1 DEF TriageFrame, bounds
<1>4. /\ tri.item.cand \in Cands /\ Lens[tri.item.cand] \in Lenses /\ tri.item.fp \in Fps
      /\ tri.pc \in TargetPcs => tri.target \in Fps
  BY <1>1, WorkItem
<1>5. SUFFICES /\ suppressed \subseteq suppressed'
               /\ \A f \in Fps : RowGrows(f) /\ EntryGrows(f)
  BY <1>1, <1>2, <1>3
<1>6. ASSUME UNCHANGED <<finding, suppressed, reg>>
      PROVE  suppressed \subseteq suppressed' /\ \A f \in Fps : RowGrows(f) /\ EntryGrows(f)
  BY <1>6, SameGrows
<1>7. CASE MemberDrop \/ Fold \/ DropPending
  <2>1. CASE MemberDrop \/ DropPending
    BY <1>6, <2>1 DEF MemberDrop, DropPending
  <2>2. CASE Fold
    BY <1>6, <2>2 DEF Fold, durable
  <2>3. QED
    BY <1>7, <2>1, <2>2
<1>8. CASE StageSite
  <2>1. /\ tri.target \in Fps /\ UNCHANGED <<finding, suppressed>>
        /\ reg' = [reg EXCEPT ![tri.target] = AddStagedSite(reg[tri.target], tri.item.cand)]
    BY <1>4, <1>8 DEF StageSite, At, TargetPcs, StagePcs, durable
  <2>2. ASSUME NEW f \in Fps
        PROVE  EntryGrows(f)
    <3>1. CASE f = tri.target
      <4>1. reg'[f] = AddStagedSite(reg[f], tri.item.cand) /\ reg[f] \in Entry(Lenses, Cands)
        BY <1>1, <2>1, <3>1
      <4>2. Holds(reg'[f], reg[f].status, reg[f].stagedLenses, reg[f].attachedLate,
              IF reg[f].status = "live" THEN reg[f].stagedSites \cup {tri.item.cand}
                                        ELSE reg[f].stagedSites,
              IF reg[f].status = "persisted" THEN reg[f].lateSites \cup {tri.item.cand}
                                             ELSE reg[f].lateSites)
        BY <4>1, StagedContents
      <4>3. QED
        BY <4>2 DEF EntryGrows, Holds
    <3>2. CASE f # tri.target
      BY <1>1, <2>1, <3>2 DEF EntryGrows
    <3>3. QED
      BY <3>1, <3>2
  <2>3. QED
    BY <2>1, <2>2, SameGrows
<1>9. CASE StageLens
  <2>1. /\ tri.target \in Fps /\ UNCHANGED <<finding, suppressed>>
        /\ \/ UNCHANGED reg
           \/ reg' = [reg EXCEPT ![tri.target] =
                       AddStagedLens(reg[tri.target], Lens[tri.item.cand])]
    BY <1>4, <1>9 DEF StageLens, At, TargetPcs, StagePcs, durable
  <2>2. ASSUME NEW f \in Fps
        PROVE  EntryGrows(f)
    <3>1. CASE UNCHANGED reg
      BY <3>1, SameGrows
    <3>2. CASE /\ f = tri.target
               /\ reg' = [reg EXCEPT ![tri.target] =
                       AddStagedLens(reg[tri.target], Lens[tri.item.cand])]
      <4>1. reg'[f] = AddStagedLens(reg[f], Lens[tri.item.cand]) /\ reg[f] \in Entry(Lenses, Cands)
        BY <1>1, <2>1, <3>2
      <4>2. Holds(reg'[f], reg[f].status,
              IF reg[f].status = "live" THEN reg[f].stagedLenses \cup {Lens[tri.item.cand]}
                                        ELSE reg[f].stagedLenses,
              IF reg[f].status = "persisted" THEN reg[f].attachedLate \cup {Lens[tri.item.cand]}
                                             ELSE reg[f].attachedLate,
              reg[f].stagedSites, reg[f].lateSites)
        BY <4>1, StagedContents
      <4>3. QED
        BY <4>2 DEF EntryGrows, Holds
    <3>3. CASE /\ f # tri.target
               /\ reg' = [reg EXCEPT ![tri.target] =
                       AddStagedLens(reg[tri.target], Lens[tri.item.cand])]
      BY <1>1, <2>1, <3>3 DEF EntryGrows
    <3>4. QED
      BY <2>1, <3>1, <3>2, <3>3
  <2>3. QED
    BY <2>1, <2>2, SameGrows
<1>10. CASE StoreSite \/ FoldSite
  <2>1. /\ tri.target \in Fps /\ UNCHANGED <<suppressed, reg>>
        /\ finding' = WithSites(tri.target, {tri.item.cand})
    BY <1>2, <1>4, <1>10 DEF StoreSite, FoldSite, At, TargetPcs, StagePcs
  <2>2. ASSUME NEW f \in Fps
        PROVE  RowGrows(f)
    <3>1. finding'[f].status = finding[f].status
      BY <1>1, <1>4, <2>1, WithSitesTable
    <3>2. PICK t \in Fps, sites \in SUBSET Cands :
             t = tri.target /\ sites = {tri.item.cand} /\ finding' = WithSites(t, sites)
      BY <1>4, <2>1
    <3>3. /\ finding'[f].cand = finding[f].cand /\ finding'[f].lenses = finding[f].lenses
          /\ finding'[f].sites = IF f = t /\ Stored(t)
                                 THEN finding[f].sites \cup sites ELSE finding[f].sites
          /\ f # t \/ ~Stored(t) => finding'[f] = finding[f]
      <4>1. StoreOK /\ finding' = WithSites(t, sites)
        BY <1>1, <3>2
      <4>2. /\ WithSites(t, sites)[f].cand = finding[f].cand
            /\ WithSites(t, sites)[f].lenses = finding[f].lenses
            /\ WithSites(t, sites)[f].sites = IF f = t /\ Stored(t)
                                 THEN finding[f].sites \cup sites ELSE finding[f].sites
            /\ f # t \/ ~Stored(t) => WithSites(t, sites)[f] = finding[f]
        BY <4>1, WithSitesRow
      <4>3. QED
        BY <4>1, <4>2
    <3>4. QED
      BY <3>1, <3>3 DEF RowGrows, Stored
  <2>3. QED
    BY <2>1, <2>2, SameGrows
<1>11. CASE StoreLens \/ FoldLens
  <2>1. /\ tri.target \in Fps /\ UNCHANGED <<suppressed, reg>>
        /\ finding' = WithLenses(tri.target, {Lens[tri.item.cand]})
    BY <1>2, <1>4, <1>11 DEF StoreLens, FoldLens, At, TargetPcs, StagePcs
  <2>2. ASSUME NEW f \in Fps
        PROVE  RowGrows(f)
    <3>1. finding'[f].status = finding[f].status
      BY <1>1, <1>4, <2>1, WithLensesTable
    <3>2. PICK t \in Fps, lenses \in SUBSET Lenses :
             t = tri.target /\ lenses = {Lens[tri.item.cand]} /\ finding' = WithLenses(t, lenses)
      BY <1>4, <2>1
    <3>3. /\ finding'[f].cand = finding[f].cand /\ finding'[f].sites = finding[f].sites
          /\ finding'[f].lenses = IF f = t /\ Stored(t)
                                  THEN finding[f].lenses \cup lenses ELSE finding[f].lenses
          /\ f # t \/ ~Stored(t) => finding'[f] = finding[f]
      <4>1. StoreOK /\ finding' = WithLenses(t, lenses)
        BY <1>1, <3>2
      <4>2. /\ WithLenses(t, lenses)[f].cand = finding[f].cand
            /\ WithLenses(t, lenses)[f].sites = finding[f].sites
            /\ WithLenses(t, lenses)[f].lenses = IF f = t /\ Stored(t)
                                 THEN finding[f].lenses \cup lenses ELSE finding[f].lenses
            /\ f # t \/ ~Stored(t) => WithLenses(t, lenses)[f] = finding[f]
        BY <4>1, WithLensesRow
      <4>3. QED
        BY <4>1, <4>2
    <3>4. QED
      BY <3>1, <3>3 DEF RowGrows, Stored
  <2>3. QED
    BY <2>1, <2>2, SameGrows
<1>12. CASE SuppressCandidate
  <2>1. /\ UNCHANGED reg /\ suppressed' = suppressed \cup {tri.item.fp}
        /\ finding' = WithStatus(tri.item.fp, "dismissed")
    BY <1>12 DEF SuppressCandidate
  <2>2. ASSUME NEW f \in Fps
        PROVE  RowGrows(f)
    <3>1. /\ Table(finding') /\ \A g \in Fps \ {tri.item.fp} : finding'[g] = finding[g]
      BY <1>1, <1>4, <2>1, WithStatusTable
    <3>2. QED
      BY <1>1, <1>4, <2>1, <3>1, WithStatusRow DEF RowGrows, Stored, Table
  <2>3. QED
    BY <2>1, <2>2, SameGrows
<1>13. CASE ReopenFixed
  <2>1. /\ tri.target \in Fps /\ UNCHANGED <<reg, suppressed>>
        /\ finding' = WithStatus(tri.target, "open")
    BY <1>4, <1>13 DEF ReopenFixed, At, TargetPcs
  <2>2. ASSUME NEW f \in Fps
        PROVE  RowGrows(f)
    <3>1. /\ Table(finding') /\ \A g \in Fps \ {tri.target} : finding'[g] = finding[g]
          /\ finding'[tri.target].status = IF Stored(tri.target) THEN "open" ELSE "absent"
      BY <1>1, <2>1, WithStatusTable
    <3>2. QED
      BY <1>1, <2>1, <3>1, WithStatusRow DEF RowGrows, Stored, Table
  <2>3. QED
    BY <2>1, <2>2, SameGrows
<1>14. QED
  BY <1>0, <1>7, <1>8, <1>9, <1>10, <1>11, <1>12, <1>13

LEMMA GrownHandoff ==
  ASSUME TypeInv, NEW f \in Fps, EntryOK(f), CopyOK(f), RowOK(f),
         UNCHANGED <<ver, result>>, RowGrows(f), EntryGrows(f)
  PROVE  EntryOK(f)' /\ CopyOK(f)' /\ RowOK(f)' /\ Written(f)' = Written(f)
<1>1. Written(f)' = Written(f)
  BY DEF Written, EntryGrows
<1>2. EntryOK(f)'
  BY DEF EntryOK, EntryGrows
<1>3. CopyOK(f)'
  BY <1>1 DEF CopyOK
<1>4. RowOK(f)'
  BY <1>1 DEF RowOK, RowGrows, Stored, Copied
<1>5. QED
  BY <1>1, <1>2, <1>3, <1>4

LEMMA WorkHandoff ==
  ASSUME TypeInv, HandoffInv, faults' = 0, TriageWorks
  PROVE  HandoffInv'
<1>1. /\ faults = 0 /\ suppressed \subseteq suppressed' /\ Running /\ Working
      /\ UNCHANGED <<phase, ver, result, member>>
      /\ \A f \in Fps : RowGrows(f) /\ EntryGrows(f)
  BY WorkGrows
<1>2. /\ DismissedOK /\ HandOK /\ \A f \in Fps : EntryOK(f) /\ CopyOK(f) /\ RowOK(f)
  BY <1>1 DEF HandoffInv
<1>3. DismissedOK'
  BY <1>1, <1>2 DEF DismissedOK, RowGrows
<1>4. \A f \in Fps : EntryOK(f)' /\ CopyOK(f)' /\ RowOK(f)'
  BY <1>1, <1>2, GrownHandoff
<1>5. \A m \in member' : ver'[m.cluster].pc # "none"
  BY <1>1, <1>2 DEF HandOK
<1>6. ASSUME tri'.pc \in {"siteStore", "lensStore"}
      PROVE  reg'[tri'.target].status \in {"none", "persisted"}
  <2>1. tri'.target = tri.target /\ tri.target \in Fps /\ CallerWrites(reg[tri.target])
    <3>1. tri \in Triages /\ (tri.pc \in TargetPcs => tri.target \in Fps)
      BY DEF TypeInv, TriageOK
    <3>2. CASE StageSite \/ StageLens
      BY <1>6, <3>1, <3>2 DEF StageSite, StageLens, Step, Triages, At, TargetPcs, StagePcs
    <3>3. CASE Fold
      <4>1. \E f : FoldStep(finding[f].status) = tri'.pc /\ f \in Fps /\ finding[f].status # "absent"
        BY <3>1, <3>3 DEF Fold, Triages, FoldRows
      <4>2. \A f \in Fps : finding[f].status \in {"absent", "open", "fixed", "dismissed"}
        BY DEF TypeInv, StoreOK, Rows
      <4>3. QED
        BY <1>6, <4>1, <4>2 DEF FoldStep
    <3>4. CASE MemberDrop
      BY <1>6, <3>1, <3>4 DEF MemberDrop, Triages
    <3>5. CASE DropPending
      BY <1>6, <3>5 DEF DropPending, IdleTriage
    <3>6. CASE StoreSite \/ StoreLens \/ SuppressCandidate \/ ReopenFixed \/ FoldLens \/ FoldSite
      BY <1>6, <3>1, <3>6 DEF StoreSite, StoreLens, SuppressCandidate, ReopenFixed, FoldLens,
         FoldSite, Step, Triages
    <3>7. QED
      BY <3>2, <3>3, <3>4, <3>5, <3>6 DEF TriageWorks
  <2>2. EntryGrows(tri.target)
    BY <1>1, <2>1
  <2>3. QED
    BY <2>1, <2>2 DEF EntryGrows, CallerWrites
<1>7. QED
  BY <1>3, <1>4, <1>5, <1>6 DEF HandoffInv, HandOK

Takes(it) ==
  \/ TakeUnfit(it) \/ TakeDuplicate(it) \/ TakeSuppressed(it)
  \/ TakeMember(it) \/ TakeUnclustered(it)

(* What does not change keeps what is said of it.                          *)
LEMMA SameHandoff ==
  ASSUME UNCHANGED <<finding, reg, ver, result>>
  PROVE  \A f \in Fps : /\ EntryOK(f)' = EntryOK(f) /\ CopyOK(f)' = CopyOK(f)
                        /\ RowOK(f)' = RowOK(f) /\ Written(f)' = Written(f)
BY DEF EntryOK, CopyOK, RowOK, Written, Copied, Stored

LEMMA TakeHandoff ==
  ASSUME TypeInv, HandoffInv, faults' = 0, NEW it, Takes(it)
  PROVE  HandoffInv'
<1>1. /\ Running /\ UNCHANGED <<finding, suppressed, phase, reg, ver, result, faults>>
      /\ tri'.pc \notin {"siteStore", "lensStore"}
  BY DEF Takes, TakeUnfit, TakeDuplicate, TakeSuppressed, TakeMember, TakeUnclustered, New,
     Arriving, TriageFrame, durable, Dequeue
<1>2. /\ DismissedOK /\ HandOK /\ \A f \in Fps : EntryOK(f) /\ CopyOK(f) /\ RowOK(f)
  BY <1>1 DEF HandoffInv
<1>3. \A f \in Fps : EntryOK(f)' /\ CopyOK(f)' /\ RowOK(f)'
  BY <1>1, <1>2, SameHandoff
<1>4. ASSUME NEW m \in member'
      PROVE  ver'[m.cluster].pc # "none"
  <2>1. CASE TakeMember(it)
    <3>1. PICK cl \in Clusters : member' = member \cup {[item |-> it, cluster |-> cl]}
      BY <2>1 DEF TakeMember
    <3>2. m.cluster = cl \/ m \in member
      BY <1>4, <3>1
    <3>3. QED
      BY <1>1, <1>2, <3>1, <3>2 DEF HandOK, Clusters
  <2>2. CASE ~TakeMember(it)
    <3>1. UNCHANGED member
      BY <2>2 DEF Takes, TakeUnfit, TakeDuplicate, TakeSuppressed, TakeUnclustered
    <3>2. QED
      BY <1>1, <1>2, <1>4, <3>1 DEF HandOK
  <2>3. QED
    BY <2>1, <2>2
<1>5. QED
  BY <1>1, <1>2, <1>3, <1>4 DEF HandoffInv, HandOK, DismissedOK

(* A new entry and its verifier are empty.                                 *)
LEMMA Registers ==
  ASSUME TypeInv, SuppressionInv, RegisterPrimary
  PROVE  /\ Running /\ tri.pc = "fold" /\ tri'.pc = "idle" /\ tri.item \in Items /\ tri.item.fp \in Fps
         /\ tri.item.cand \in Cands /\ seen[tri.item.fp] = tri.item.cand
         /\ ver[tri.item.fp].pc = "none" /\ reg[tri.item.fp].status = "none"
         /\ Holds(reg'[tri.item.fp], "live", {}, {}, {}, {})
         /\ ver'[tri.item.fp].pc = "panel" /\ ver'[tri.item.fp].item = tri.item
         /\ ver'[tri.item.fp].tier = 2 /\ ver'[tri.item.fp].lenses = {}
         /\ ver'[tri.item.fp].late = {} /\ ver'[tri.item.fp].sites = {}
         /\ \A g \in Fps \ {tri.item.fp} : reg'[g] = reg[g] /\ ver'[g] = ver[g]
         /\ member' = member \cup {[item |-> tri.item, cluster |-> tri.item.fp]}
         /\ UNCHANGED <<finding, suppressed, found, phase, candCh, seen, result, walled, runs, faults>>
<1> DEFINE it == tri.item
           v == [IdleVerifier EXCEPT !.pc = "panel", !.item = it]
<1>1. /\ Running /\ tri.pc = "fold" /\ tri' = IdleTriage
      /\ reg' = [reg EXCEPT ![it.fp] = Registered] /\ ver' = [ver EXCEPT ![it.fp] = v]
      /\ member' = member \cup {[item |-> it, cluster |-> it.fp]}
      /\ UNCHANGED <<finding, suppressed, found, phase, candCh, seen, result, walled, runs, faults>>
  BY DEF RegisterPrimary, Register, At, durable, bounds
<1>2. Working /\ tri.pc \in FoldPcs
  BY <1>1 DEF Working, FoldPcs
<1>3. /\ it \in Items /\ it.cand \in Cands /\ it.fp \in Fps /\ seen[it.fp] = it.cand
      /\ ver[it.fp].pc = "none" /\ reg[it.fp].status = "none"
  BY <1>2 DEF TypeInv, TriageOK, Items, SuppressionInv, FoldingOK, VerOK
<1>4. /\ v.pc = "panel" /\ v.item = it /\ v.tier = 2 /\ v.lenses = {} /\ v.late = {} /\ v.sites = {}
      /\ Holds(Registered, "live", {}, {}, {}, {}) /\ tri'.pc = "idle"
  BY <1>1 DEF IdleVerifier, Registered, NoEntry, Holds, IdleTriage
<1> HIDE DEF v
<1>5. ver'[it.fp] = v /\ reg'[it.fp] = Registered
      /\ \A g \in Fps \ {it.fp} : reg'[g] = reg[g] /\ ver'[g] = ver[g]
  BY <1>1, <1>3 DEF TypeInv, VerOK
<1>6. QED
  BY <1>1, <1>3, <1>4, <1>5

LEMMA RegisterHandoff ==
  ASSUME TypeInv, SuppressionInv, HandoffInv, faults' = 0, RegisterPrimary
  PROVE  HandoffInv'
<1>0. PICK p \in Fps : p = tri.item.fp
  BY Registers
<1>1. /\ Running /\ p \in Fps /\ ver[p].pc = "none" /\ reg[p].status = "none"
      /\ Holds(reg'[p], "live", {}, {}, {}, {}) /\ tri'.pc = "idle"
      /\ ver'[p].pc = "panel" /\ ver'[p].tier = 2 /\ ver'[p].lenses = {}
      /\ ver'[p].late = {} /\ ver'[p].sites = {}
      /\ \A g \in Fps \ {p} : reg'[g] = reg[g] /\ ver'[g] = ver[g]
      /\ member' = member \cup {[item |-> tri.item, cluster |-> p]}
      /\ UNCHANGED <<finding, suppressed, phase, result, faults>>
  BY <1>0, Registers
<1>2. /\ DismissedOK /\ HandOK /\ \A f \in Fps : EntryOK(f) /\ CopyOK(f) /\ RowOK(f)
  BY <1>1 DEF HandoffInv
<1>3. EntryOK(p)' /\ CopyOK(p)' /\ RowOK(p)'
  <2>1. result[p].sites = {}
    BY <1>1, <1>2 DEF CopyOK, Written
  <2>2. ~Written(p)' /\ EntryOK(p)'
    BY <1>1 DEF Written, EntryOK, Holds, LivePcs
  <2>3. QED
    BY <1>1, <2>1, <2>2 DEF CopyOK, RowOK
<1>4. \A g \in Fps \ {p} : EntryOK(g)' /\ CopyOK(g)' /\ RowOK(g)'
  BY <1>1, <1>2 DEF EntryOK, CopyOK, RowOK, Written, Copied, Stored
<1>5. ASSUME NEW m \in member'
      PROVE  ver'[m.cluster].pc # "none"
  <2>1. CASE m \in member
    <3>1. m.cluster \in Fps /\ ver[m.cluster].pc # "none"
      BY <1>2, <2>1 DEF HandOK, TypeInv, TriageOK
    <3>2. QED
      BY <1>1, <3>1
  <2>2. CASE m = [item |-> tri.item, cluster |-> p]
    BY <1>1, <2>2
  <2>3. QED
    BY <1>1, <1>5, <2>1, <2>2
<1>6. QED
  BY <1>1, <1>2, <1>3, <1>4, <1>5 DEF HandoffInv, HandOK, DismissedOK

LEMMA VerifierHandoff ==
  ASSUME NEW f \in Fps, VerifyEffect(f), EntryOK(f), CopyOK(f), RowOK(f),
         ver[f].tier \in {2, 3}, ver'[f].item = ver[f].item
  PROVE  EntryOK(f)' /\ CopyOK(f)' /\ RowOK(f)'
<1>0. /\ ver[f].pc \notin {"none", "done", "unkept"}
      /\ SameCopy(f) => UNCHANGED result[f] /\ (SameRow(f) => UNCHANGED finding[f])
      /\ SameEntry(f) => UNCHANGED reg[f]
  BY DEF VerifyEffect, Decided, Orphaned, Refuted, Dismissed, Forgotten, LensesDrained,
         SitesDrained, SurvivorWritten, Deleted, Signalled, LensesAttached, SitesAttached,
         SameCopy, SameRow, SameEntry
<1>1. CASE Decided(f)
  <2>1. PICK pc \in {"orphan", "kill", "lenses"} : ver[f].pc = "panel" /\ Turns(f, pc)
    BY <1>1 DEF Decided
  <2>2. SameEntry(f) /\ SameRow(f) /\ SameCopy(f)
    BY <1>1 DEF Decided
  <2>3. ~Written(f) /\ ~Written(f)'
    BY <2>1 DEF Written, Turns, Moves
  <2>4. EntryOK(f)' /\ CopyOK(f)'
    BY <2>1, <2>2, <2>3 DEF EntryOK, CopyOK, Turns, Moves, SameEntry, SameCopy, LivePcs
  <2>5. QED
    BY <2>3, <2>4 DEF RowOK
<1>2. CASE Orphaned(f)
  <2>1. /\ ver[f].pc = "orphan" /\ ver'[f].pc = "delete" /\ ver'[f].tier = 3
        /\ ver'[f].lenses = {} /\ ver'[f].late = {} /\ ver'[f].sites = {}
        /\ finding'[f].cand = ver[f].item.cand /\ finding'[f].status = "open"
        /\ finding'[f].lenses = ver[f].item.lenses /\ finding'[f].sites = {ver[f].item.cand}
        /\ result'[f].lenses = ver[f].item.lenses /\ result'[f].sites = {ver[f].item.cand}
        /\ reg'[f] = reg[f]
    BY <1>2 DEF Orphaned, Moves, RowWritten, CopyBecomes, SameEntry, CopyOK
  <2>2. EntryOK(f)' /\ CopyOK(f)'
    BY <2>1 DEF EntryOK, CopyOK, LivePcs, Written
  <2>3. RowOK(f)'
    BY <2>1 DEF RowOK, Stored
  <2>4. QED
    BY <2>2, <2>3
<1>3. CASE Refuted(f) \/ Dismissed(f) \/ Forgotten(f)
  <2>1. /\ ~Written(f) /\ SameCopy(f)
        /\ reg'[f].status = "killed" /\ ver'[f].pc \in {"dismiss", "forget", "done"}
    BY <1>3 DEF Refuted, Dismissed, Forgotten, Written, Turns, Moves, SameEntry, Holds, EntryOK
  <2>2. ~Written(f)' /\ EntryOK(f)'
    BY <2>1 DEF Written, EntryOK, LivePcs
  <2>3. CopyOK(f)' /\ RowOK(f)'
    BY <2>1, <2>2 DEF CopyOK, RowOK, SameCopy
  <2>4. QED
    BY <2>2, <2>3
<1>4. CASE LensesDrained(f)
  <2>1. /\ ver[f].pc = "lenses" /\ ver'[f].pc = "sites" /\ ver'[f].tier = ver[f].tier
        /\ ver'[f].late = ver[f].late /\ ver'[f].sites = ver[f].sites
        /\ Holds(reg'[f], reg[f].status, {}, reg[f].attachedLate, reg[f].stagedSites, reg[f].lateSites)
        /\ result'[f] = result[f]
    BY <1>4 DEF LensesDrained, Moves, SameCopy
  <2>2. ~Written(f) /\ ~Written(f)' /\ EntryOK(f)'
    BY <2>1 DEF Written, EntryOK, LivePcs, Holds
  <2>3. CopyOK(f)' /\ RowOK(f)'
    BY <2>1, <2>2 DEF CopyOK, RowOK
  <2>4. QED
    BY <2>2, <2>3
<1>5. CASE SitesDrained(f)
  <2>1. /\ ver[f].pc = "sites" /\ ver'[f].pc = "upsert" /\ ver'[f].tier = ver[f].tier
        /\ ver'[f].late = ver[f].late /\ ver'[f].sites = {ver[f].item.cand} \cup reg[f].stagedSites
        /\ Holds(reg'[f], reg[f].status, reg[f].stagedLenses, reg[f].attachedLate, {}, reg[f].lateSites)
        /\ result'[f] = result[f]
    BY <1>5 DEF SitesDrained, Moves, SameCopy
  <2>2. ~Written(f) /\ ~Written(f)' /\ EntryOK(f)'
    BY <2>1 DEF Written, EntryOK, LivePcs, Holds
  <2>3. CopyOK(f)' /\ RowOK(f)'
    BY <2>1, <2>2 DEF CopyOK, RowOK
  <2>4. QED
    BY <2>2, <2>3
<1>6. CASE SurvivorWritten(f)
  <2>1. /\ ver[f].pc = "upsert" /\ ver'[f].pc = "delete" /\ ver'[f].tier = 2 /\ ver'[f].late = {}
        /\ ver'[f].lenses = ver[f].lenses /\ ver'[f].sites = ver[f].sites
        /\ ver[f].item.cand \in ver[f].sites
        /\ finding'[f].cand = ver[f].item.cand /\ finding'[f].status = "open"
        /\ finding'[f].lenses = ver[f].lenses /\ finding'[f].sites = ver[f].sites
        /\ reg'[f] = reg[f] /\ result'[f] = result[f]
    BY <1>6 DEF SurvivorWritten, Turns, Moves, RowWritten, SameCopy, SameEntry, CopyOK
  <2>2. EntryOK(f)' /\ CopyOK(f)'
    BY <2>1 DEF EntryOK, CopyOK, LivePcs, Written
  <2>3. RowOK(f)'
    BY <2>1 DEF RowOK, Stored, Copied
  <2>4. QED
    BY <2>2, <2>3
<1>7. CASE Deleted(f)
  <2>1. /\ ver[f].pc = "delete" /\ ver'[f].pc = "signal" /\ ver'[f].tier = ver[f].tier
        /\ ver'[f].lenses = ver[f].lenses /\ ver'[f].late = ver[f].late
        /\ ver'[f].sites = ver[f].sites
        /\ finding'[f] = finding[f] /\ reg'[f] = reg[f] /\ result'[f] = result[f]
    BY <1>7 DEF Deleted, Turns, Moves, SameRow, SameCopy, SameEntry
  <2>2. EntryOK(f)' /\ CopyOK(f)' /\ Written(f)
    BY <2>1 DEF EntryOK, CopyOK, LivePcs, Written
  <2>3. RowOK(f)'
    BY <2>1, <2>2 DEF RowOK, Stored, Copied
  <2>4. QED
    BY <2>2, <2>3
<1>8. CASE Signalled(f)
  <2>1. /\ ver[f].pc = "signal" /\ ver'[f].pc = "lateLenses" /\ ver'[f].tier = ver[f].tier
        /\ ver'[f].lenses = ver[f].lenses \cup reg[f].stagedLenses
        /\ ver'[f].late = reg[f].stagedLenses /\ ver'[f].sites = ver[f].sites
        /\ Holds(reg'[f], "persisted", {}, reg[f].attachedLate \cup reg[f].stagedLenses,
                 {}, reg[f].lateSites \cup reg[f].stagedSites)
        /\ finding'[f] = finding[f] /\ result'[f] = result[f]
    BY <1>8 DEF Signalled, Moves, SameRow, SameCopy
  <2>2. EntryOK(f)' /\ CopyOK(f)' /\ Written(f)
    BY <2>1 DEF EntryOK, CopyOK, LivePcs, Written, Holds
  <2>3. RowOK(f)'
    <3>1. ver[f].late = {} /\ ver[f].lenses \subseteq finding[f].lenses
      BY <2>1, <2>2 DEF CopyOK, RowOK
    <3>2. QED
      BY <2>1, <2>2, <3>1 DEF RowOK, Stored, Copied
  <2>4. QED
    BY <2>2, <2>3
<1>9. CASE LensesAttached(f)
  <2>1. Written(f) /\ Stored(f) /\ reg[f].status = "persisted"
    BY <1>9 DEF LensesAttached, Written, RowOK, EntryOK
  <2>2. /\ ver[f].pc = "lateLenses" /\ ver'[f].pc = (IF ver[f].tier = 2 THEN "lateSites" ELSE "done")
        /\ ver'[f].tier = ver[f].tier /\ ver'[f].lenses = ver[f].lenses
        /\ ver'[f].late = ver[f].late /\ ver'[f].sites = ver[f].sites
        /\ finding'[f].cand = finding[f].cand /\ finding'[f].status = finding[f].status
        /\ finding'[f].lenses = finding[f].lenses \cup ver[f].late
        /\ finding'[f].sites = finding[f].sites
        /\ reg'[f] = reg[f] /\ result'[f] = result[f]
    BY <1>9, <2>1 DEF LensesAttached, Turns, Moves, RowBecomes, SameCopy, SameEntry
  <2>3. Written(f)' /\ ver'[f].pc \in {"lateSites", "done"}
        /\ (Copied(f)' => ver[f].tier # 2)
    BY <2>1, <2>2 DEF Written, Copied
  <2>4. EntryOK(f)' /\ CopyOK(f)'
    BY <2>1, <2>2, <2>3 DEF EntryOK, CopyOK, LivePcs
  <2>5. RowOK(f)'
    <3>1. Copied(f)' => Copied(f)
      BY <2>2 DEF Copied
    <3>2. /\ finding[f].cand = ver[f].item.cand
          /\ ver[f].item.cand \in finding[f].sites /\ ver[f].sites \subseteq finding[f].sites
          /\ ver[f].lenses \subseteq finding[f].lenses \cup ver[f].late
          /\ Copied(f) => /\ ver[f].item.cand \in result[f].sites
                          /\ result[f].sites \subseteq finding[f].sites
                          /\ result[f].lenses \subseteq finding[f].lenses
      BY <2>1 DEF RowOK
    <3>3. QED
      BY <2>1, <2>2, <3>1, <3>2 DEF RowOK, Stored
  <2>6. QED
    BY <2>4, <2>5
<1>10. CASE SitesAttached(f)
  <2>1. Written(f) /\ Stored(f) /\ reg[f].status = "persisted"
    BY <1>10 DEF SitesAttached, Written, RowOK, EntryOK
  <2>2. /\ ver[f].pc = "lateSites" /\ ver'[f].pc = "done"
        /\ ver'[f].tier = ver[f].tier /\ ver'[f].lenses = ver[f].lenses
        /\ ver'[f].late = ver[f].late /\ ver'[f].sites = ver[f].sites
        /\ finding'[f].cand = finding[f].cand /\ finding'[f].status = finding[f].status
        /\ finding'[f].lenses = finding[f].lenses
        /\ finding'[f].sites = finding[f].sites \cup reg[f].lateSites
        /\ result'[f].lenses = ver[f].lenses /\ result'[f].sites = ver[f].sites \cup reg[f].lateSites
        /\ Holds(reg'[f], reg[f].status, reg[f].stagedLenses, reg[f].attachedLate,
                 reg[f].stagedSites, {})
    BY <1>10, <2>1 DEF SitesAttached, Turns, Moves, RowBecomes, CopyBecomes
  <2>3. EntryOK(f)' /\ CopyOK(f)'
    BY <2>1, <2>2 DEF EntryOK, CopyOK, LivePcs, Holds, Written
  <2>4. RowOK(f)'
    <3>1. ver[f].item.cand \in result'[f].sites
      BY <2>2 DEF CopyOK
    <3>2. QED
      BY <2>1, <2>2, <3>1 DEF RowOK, Stored
  <2>5. QED
    BY <2>3, <2>4
<1>11. QED
  BY <1>1, <1>2, <1>3, <1>4, <1>5, <1>6, <1>7, <1>8, <1>9, <1>10 DEF VerifyEffect

LEMMA VerifyHandoff ==
  ASSUME TypeInv, SuppressionInv, HandoffInv, faults' = 0, NEW f \in Fps, Verify(f)
  PROVE  HandoffInv'
<1>1. /\ VerifyEffect(f) /\ faults = 0
      /\ Dismissed(f) \/ UNCHANGED suppressed
      /\ VerifierMoved(f) /\ Running /\ UNCHANGED <<phase, tri, member>>
      /\ \A g \in Fps \ {f} : finding'[g] = finding[g] /\ result'[g] = result[g]
  BY VerifyEffects
<1>2. /\ DismissedOK /\ HandOK /\ \A g \in Fps : EntryOK(g) /\ CopyOK(g) /\ RowOK(g)
  BY <1>1 DEF HandoffInv
<1>3. /\ ver[f].pc # "none" /\ ver'[f].pc # "none" /\ ver'[f].item = ver[f].item
      /\ \A g \in Fps \ {f} : ver'[g] = ver[g] /\ reg'[g] = reg[g]
      /\ reg[f].status # "none" /\ ver[f].tier \in {2, 3} /\ ver[f].pc \in VerifyPcs
  BY <1>1 DEF VerifierMoved, TypeInv, VerOK, Verifiers
<1>4. EntryOK(f)' /\ CopyOK(f)' /\ RowOK(f)'
  BY <1>1, <1>2, <1>3, VerifierHandoff
<1>5. \A g \in Fps \ {f} : EntryOK(g)' /\ CopyOK(g)' /\ RowOK(g)'
  BY <1>1, <1>2, <1>3 DEF EntryOK, CopyOK, RowOK, Written, Copied, Stored
<1>6. finding'[f].status = "dismissed" => finding[f].status = "dismissed" \/ f \in suppressed'
  <2>1. CASE \/ Decided(f) \/ Refuted(f) \/ Forgotten(f) \/ LensesDrained(f)
             \/ SitesDrained(f) \/ Deleted(f) \/ Signalled(f)
    BY <2>1 DEF Decided, Refuted, Forgotten, LensesDrained, SitesDrained, Deleted, Signalled, SameRow
  <2>2. CASE Orphaned(f) \/ SurvivorWritten(f)
    BY <2>2 DEF Orphaned, SurvivorWritten, RowWritten
  <2>3. CASE Dismissed(f)
    BY <2>3 DEF Dismissed
  <2>4. CASE LensesAttached(f) \/ SitesAttached(f)
    <3>1. Stored(f)
      BY <1>2, <2>4 DEF LensesAttached, SitesAttached, RowOK, Written
    <3>2. QED
      BY <2>4, <3>1 DEF LensesAttached, SitesAttached, RowBecomes
  <2>5. QED
    BY <1>1, <2>1, <2>2, <2>3, <2>4 DEF VerifyEffect
<1>7. DismissedOK'
  BY <1>1, <1>2, <1>6 DEF DismissedOK, Dismissed
<1>8. reg[f].status = "persisted" => reg'[f].status = "persisted"
  <2>1. ASSUME reg[f].status = "persisted"
        PROVE  reg'[f].status = "persisted"
    <3>1. ver[f].pc \notin LivePcs \cup {"dismiss", "forget"}
      BY <1>2, <2>1 DEF EntryOK
    <3>2. LensesAttached(f) \/ SitesAttached(f)
      BY <1>1, <3>1 DEF VerifyEffect, Decided, Orphaned, Refuted, Dismissed, Forgotten,
         LensesDrained, SitesDrained, SurvivorWritten, Deleted, Signalled, LivePcs
    <3>3. QED
      BY <2>1, <3>2 DEF LensesAttached, SitesAttached, SameEntry, Holds
  <2>2. QED
    BY <2>1
<1>9. HandOK'
  <2>1. ASSUME NEW m \in member
        PROVE  ver'[m.cluster].pc # "none"
    <3>1. m.cluster \in Fps /\ ver[m.cluster].pc # "none"
      BY <1>2 DEF HandOK, TypeInv, TriageOK
    <3>2. QED
      BY <1>3, <3>1
  <2>2. ASSUME tri.pc \in {"siteStore", "lensStore"}
        PROVE  reg'[tri.target].status \in {"none", "persisted"}
    <3>1. tri.target \in Fps /\ reg[tri.target].status \in {"none", "persisted"}
      BY <1>2, <2>2 DEF HandOK, TypeInv, TriageOK, TargetPcs, StagePcs
    <3>2. QED
      BY <1>3, <1>8, <3>1
  <2>3. QED
    BY <1>1, <2>1, <2>2 DEF HandOK
<1>10. QED
  BY <1>4, <1>5, <1>7, <1>9 DEF HandoffInv

(* A run starts with empty entries, verifiers and copies.                  *)
LEMMA EmptyStart ==
  ASSUME NEW q \in Seq(Items), StartWith(q), NEW f \in Fps
  PROVE  /\ EntryOK(f)' /\ CopyOK(f)' /\ ~Written(f)' /\ tri'.pc = "idle" /\ member' = {}
         /\ seen'[f] = NoCand /\ ver'[f].pc = "none" /\ reg'[f].status = "none"
<1>1. /\ ver'[f].pc = "none" /\ reg'[f].status = "none" /\ result'[f].sites = {}
      /\ tri'.pc = "idle" /\ member' = {} /\ seen'[f] = NoCand
  BY DEF StartWith, IdleVerifier, NoEntry, NoCopy, IdleTriage
<1>2. QED
  BY <1>1 DEF EntryOK, CopyOK, Written, LivePcs

LEMMA RunHandoff ==
  ASSUME TypeInv, SuppressionInv, HandoffInv, faults' = 0,
         \/ StartRun \/ FindersEnd \/ Report \/ Abort \/ Crash
         \/ \E c \in Cands : Discover(c)
         \/ \E f \in Fps : Command(f)
  PROVE  HandoffInv'
<1>1. RunOK /\ StoreOK
  BY DEF TypeInv
<1>2. CASE StartRun
  <2>1. /\ faults = 0 /\ UNCHANGED <<finding, suppressed>>
    BY <1>1, <1>2, NoFault DEF StartRun, durable
  <2>2. PICK q \in Seq(Items) : StartWith(q)
    BY <1>1, <1>2, ReplaysTyped, ReverifiesTyped DEF StartRun
  <2>3. \A f \in Fps : /\ EntryOK(f)' /\ CopyOK(f)' /\ ~Written(f)'
                       /\ tri'.pc = "idle" /\ member' = {}
    BY <2>2, EmptyStart
  <2>4. tri'.pc = "idle" /\ member' = {}
    BY <2>2 DEF StartWith, IdleTriage
  <2>5. QED
    BY <2>1, <2>3, <2>4 DEF HandoffInv, HandOK, DismissedOK, RowOK
<1>3. CASE Crash \/ Abort
  <2>1. faults = 0 /\ ~Running' /\ UNCHANGED <<finding, suppressed>>
    BY <1>1, <1>3, NoFault DEF Crash, Abort, durable, Running
  <2>2. QED
    BY <2>1 DEF HandoffInv, DismissedOK
<1>4. CASE Report
  <2>1. faults = 0 /\ ~Running' /\ UNCHANGED suppressed
    BY <1>1, <1>4, NoFault DEF Report, Running
  <2>2. \A f \in Fps : finding'[f].status = finding[f].status
    BY <1>4, ReportTable
  <2>3. QED
    BY <2>1, <2>2 DEF HandoffInv, DismissedOK
<1>5. CASE FindersEnd
  <2>1. /\ faults = 0
        /\ UNCHANGED <<finding, suppressed, phase, tri, member, reg, ver, result>>
    BY <1>1, <1>5, NoFault DEF FindersEnd, durable, triage, shared
  <2>2. QED
    BY <2>1, SameHandoff DEF HandoffInv, DismissedOK, HandOK, Running
<1>6. CASE \E c \in Cands : Discover(c)
  <2>1. /\ faults = 0
        /\ UNCHANGED <<finding, suppressed, phase, tri, member, reg, ver, result>>
    BY <1>1, <1>6, NoFault DEF Discover, shared
  <2>2. QED
    BY <2>1, SameHandoff DEF HandoffInv, DismissedOK, HandOK, Running
<1>7. CASE \E f \in Fps : Command(f)
  <2>1. PICK f \in Fps : Command(f)
    BY <1>7
  <2>2. faults = 0 /\ ~Running /\ UNCHANGED phase
    BY <1>1, <2>1, NoFault DEF Command
  <2>3. DismissedOK'
    <3>1. \/ suppressed' = suppressed \cup {f} /\ finding' = WithStatus(f, "dismissed")
          \/ UNCHANGED suppressed /\ finding' = WithStatus(f, "fixed")
      BY <2>1 DEF Command
    <3>2. /\ \A g \in Fps \ {f} : finding'[g] = finding[g]
          /\ finding' = WithStatus(f, "fixed") => finding'[f].status \in {"fixed", "absent"}
      BY <1>1, <3>1, WithStatusTable
    <3>3. QED
      BY <2>2, <3>1, <3>2 DEF HandoffInv, DismissedOK
  <2>4. QED
    BY <2>2, <2>3 DEF HandoffInv, Running
<1>8. QED
  BY <1>2, <1>3, <1>4, <1>5, <1>6, <1>7

LEMMA HandoffInvStep == TypeInv /\ SuppressionInv /\ HandoffInv /\ [Next]_vars => HandoffInv'
<1> SUFFICES ASSUME TypeInv, SuppressionInv, HandoffInv, [Next]_vars, faults' = 0
             PROVE  HandoffInv'
  BY DEF HandoffInv
<1>1. CASE \/ StartRun \/ FindersEnd \/ Report \/ Abort \/ Crash
           \/ \E c \in Cands : Discover(c)
           \/ \E f \in Fps : Command(f)
  BY <1>1, RunHandoff
<1>2. CASE \E f \in Fps : Verify(f)
  BY <1>2, VerifyHandoff
<1>3. CASE Triage
  <2>1. CASE \E it \in {candCh[i] : i \in 1..Len(candCh)} : Takes(it)
    BY <2>1, TakeHandoff
  <2>2. CASE TriageWorks
    BY <2>2, WorkHandoff
  <2>3. CASE RegisterPrimary
    BY <2>3, RegisterHandoff
  <2>4. ~TriageFails
    BY NoFault DEF TriageFails, TypeInv
  <2>5. QED
    BY <1>3, <2>1, <2>2, <2>3, <2>4 DEF Triage, Takes, TriageWorks
<1>4. CASE UNCHANGED vars
  <2>1. UNCHANGED <<finding, suppressed, phase, tri, member, reg, ver, result, faults>>
    BY <1>4 DEF vars
  <2>2. QED
    BY <2>1, SameHandoff DEF HandoffInv, DismissedOK, HandOK, Running
<1>5. QED
  BY <1>1, <1>2, <1>3, <1>4 DEF Next

LEMMA HandoffInvHolds == Spec => []HandoffInv
<1>1. Init => HandoffInv
  BY DEF Init, HandoffInv, DismissedOK, Running, NoRow
<1>2. QED
  BY <1>1, HandoffInvStep, TypeInvHolds, SuppressionInvHolds, PTL DEF Spec

-----------------------------------------------------------------------------
(* What triage has seen.                                                   *)

Joining == {m.item.cand : m \in member}
Merges(it, p) == \A d \in Cands : heir'[d] = IF it.cand \in {d, heir[d]} THEN p ELSE heir[d]
Sees(it)      == seen[it.fp] = NoCand /\ seen' = [seen EXCEPT ![it.fp] = it.cand]

(* Triage drops an item, hands a duplicate to its twin, adds a member to a *)
(* cluster, or goes on to fold the item into a row.                        *)
TakesOff(it) ==
  /\ tri'.pc = "drop" /\ UNCHANGED <<member, heir>>
  /\ (it.cand \in Unfit /\ UNCHANGED seen) \/ (it.fp \in suppressed /\ Sees(it))
TakesTwin(it) ==
  /\ tri'.pc = "site" /\ tri'.target = it.fp /\ UNCHANGED <<seen, member>>
  /\ it.cand \notin Unfit /\ seen[it.fp] # NoCand /\ Merges(it, StandsWith(seen[it.fp]))
TakesInto(it, cl) ==
  /\ tri'.pc = "memberDrop" /\ tri'.target = cl /\ Sees(it)
  /\ member' = member \cup {[item |-> it, cluster |-> cl]} /\ Merges(it, seen[cl])
TakesAlone(it) ==
  tri'.pc = "fold" /\ UNCHANGED <<member, heir>> /\ Sees(it)

LEMMA TakeEffect ==
  ASSUME TypeInv, SuppressionInv, ClaimInv, phase = "scan", NEW it, Takes(it)
  PROVE  /\ it \in Items /\ it.cand \in Cands /\ it.fp \in Fps
         /\ tri.pc = "idle" /\ tri'.item = it
         /\ it.cand \in Waiting /\ it.cand \in found /\ Waiting' = Waiting \ {it.cand}
         /\ \E i \in 1..Len(candCh) : it = candCh[i]
         /\ \A i \in 1..Len(candCh') : \E j \in 1..Len(candCh) : candCh'[i] = candCh[j]
         /\ UNCHANGED <<finding, suppressed, found, phase, reg, ver, result, walled, runs, faults>>
         /\ \/ TakesOff(it) \/ TakesTwin(it) \/ TakesAlone(it)
            \/ \E cl \in Clusters : TakesInto(it, cl)
<1>1. /\ Arriving(it) /\ candCh' = Tail(candCh) /\ tri'.item = it
      /\ UNCHANGED <<finding, suppressed, found, phase, reg, ver, result, walled, runs, faults>>
  BY DEF Takes, TakeUnfit, TakeDuplicate, TakeSuppressed, TakeMember, TakeUnclustered, New,
     TriageFrame, durable, bounds, Dequeue
<1>2. /\ it \in Items /\ it.cand \in Cands /\ it.fp \in Fps /\ Len(candCh) \in Nat
      /\ Len(candCh) >= 1 /\ it = candCh[1] /\ Len(candCh') = Len(candCh) - 1
      /\ \A i \in 1..(Len(candCh) - 1) : candCh'[i] = candCh[i + 1]
  BY <1>1, ArrivingItem, LenProperties DEF TypeInv, TriageOK
<1>3. it.cand \in Waiting /\ it.cand \in found /\ ~it.reverify
  BY <1>2, ScanItems DEF Waiting, ClaimInv, DistinctOK
<1>4. Waiting' = Waiting \ {it.cand}
  <2>1. Waiting = {candCh[1].cand} \cup {candCh[i].cand : i \in 2..Len(candCh)}
    <3>1. 1..Len(candCh) = {1} \cup 2..Len(candCh)
      BY <1>2
    <3>2. QED
      BY <3>1 DEF Waiting
  <2>2. \A i \in 2..Len(candCh) : candCh[i].cand # it.cand
    BY <1>2 DEF ClaimInv, DistinctOK
  <2>3. Waiting' = {candCh'[i].cand : i \in 1..(Len(candCh) - 1)}
    BY <1>2 DEF Waiting
  <2>4. \A i \in 1..(Len(candCh) - 1) : i + 1 \in 2..Len(candCh) /\ candCh'[i] = candCh[i + 1]
    BY <1>2
  <2>5. \A i \in 2..Len(candCh) : i - 1 \in 1..(Len(candCh) - 1) /\ candCh'[i - 1] = candCh[i]
    BY <1>2, <2>4
  <2>6. {candCh'[i].cand : i \in 1..(Len(candCh) - 1)} = {candCh[i].cand : i \in 2..Len(candCh)}
    BY <2>4, <2>5
  <2> DEFINE rest == {candCh[i].cand : i \in 2..Len(candCh)}
  <2>7. it.cand \notin rest /\ Waiting = {it.cand} \cup rest /\ Waiting' = rest
    BY <1>2, <2>1, <2>2, <2>3, <2>6
  <2> HIDE DEF rest
  <2>8. QED
    BY <2>7
<1>5. /\ \E i \in 1..Len(candCh) : it = candCh[i]
      /\ \A i \in 1..Len(candCh') : \E j \in 1..Len(candCh) : candCh'[i] = candCh[j]
  <2>1. \A i \in 1..Len(candCh') : i + 1 \in 1..Len(candCh) /\ candCh'[i] = candCh[i + 1]
    BY <1>2
  <2>2. 1 \in 1..Len(candCh) /\ it = candCh[1]
    BY <1>2
  <2>3. ASSUME NEW i \in 1..Len(candCh')
        PROVE  \E j \in 1..Len(candCh) : candCh'[i] = candCh[j]
    <3>1. PICK k \in 1..Len(candCh) : k = i + 1
      BY <2>1
    <3>2. QED
      BY <2>1, <3>1
  <2>4. QED
    BY <2>2, <2>3

<1>6. \A p : Inherit(it, p) => Merges(it, p)
  BY <1>3 DEF Inherit, Merges
<1>7. /\ New(it) => Sees(it)
      /\ \A pc, target : Dequeue(pc, it, target) => tri'.pc = pc /\ tri'.target = target
  BY DEF New, Sees, Dequeue
<1>8. \/ TakesOff(it) \/ TakesTwin(it) \/ TakesAlone(it)
      \/ \E cl \in Clusters : TakesInto(it, cl)
  <2>1. CASE TakeUnfit(it) \/ TakeSuppressed(it)
    BY <1>7, <2>1 DEF TakeUnfit, TakeSuppressed, IsSuppressed, TakesOff
  <2>2. CASE TakeDuplicate(it)
    BY <1>6, <1>7, <2>2 DEF TakeDuplicate, TakesTwin
  <2>3. CASE TakeMember(it)
    <3>1. PICK cl \in Clusters :
            /\ Dequeue("memberDrop", it, cl) /\ Inherit(it, Primary(cl))
            /\ member' = member \cup {[item |-> it, cluster |-> cl]}
      BY <2>3 DEF TakeMember
    <3>2. New(it)
      BY <2>3 DEF TakeMember
    <3>3. TakesInto(it, cl)
      BY <1>6, <1>7, <3>1, <3>2 DEF TakesInto, Primary
    <3>4. QED
      BY <3>3
  <2>4. CASE TakeUnclustered(it)
    BY <1>7, <2>4 DEF TakeUnclustered, TakesAlone
  <2>5. QED
    BY <2>1, <2>2, <2>3, <2>4 DEF Takes
<1>9. tri.pc = "idle"
  BY <1>1 DEF Arriving
<1>10. QED
  BY <1>1, <1>2, <1>3, <1>4, <1>5, <1>8, <1>9

(* In a scan the candidate seen first is the primary; a member has left    *)
(* the channel, and is not the candidate to be folded.                     *)
SeenOK ==
  phase = "scan" =>
    /\ \A f \in Fps : ver[f].pc # "none" => seen[f] = ver[f].item.cand
    /\ Joining \subseteq found \ Waiting
    /\ tri.pc \in FoldPcs => tri.item.cand \notin Joining

LEMMA WorkFoldPcs ==
  ASSUME TypeInv, TriageWorks, tri'.pc \in FoldPcs
  PROVE  tri.pc \in FoldPcs /\ tri'.item.cand = tri.item.cand
<1>1. tri \in Triages
  BY DEF TypeInv, TriageOK
<1>2. CASE StageSite \/ StoreSite \/ StageLens \/ StoreLens
  BY <1>1, <1>2 DEF StageSite, StoreSite, StageLens, StoreLens, Step, Triages, FoldPcs
<1>3. CASE MemberDrop
  <2>1. tri'.pc = "site"
    BY <1>1, <1>3 DEF MemberDrop, Triages
  <2>2. QED
    BY <2>1 DEF FoldPcs
<1>4. CASE DropPending
  BY <1>4 DEF DropPending, IdleTriage, FoldPcs
<1>5. CASE SuppressCandidate \/ ReopenFixed \/ FoldLens \/ FoldSite
  BY <1>1, <1>5 DEF SuppressCandidate, ReopenFixed, FoldLens, FoldSite, Step, Triages, FoldPcs, At
<1>6. CASE Fold
  <2>1. tri.pc = "fold" /\ tri'.item = tri.item
    BY <1>1, <1>6 DEF Fold, At, Triages
  <2>2. QED
    BY <2>1 DEF FoldPcs
<1>7. QED
  BY <1>2, <1>3, <1>4, <1>5, <1>6 DEF TriageWorks

LEMMA WorkSeen ==
  ASSUME TypeInv, SeenOK, TriageWorks
  PROVE  SeenOK'
<1>1. CASE UNCHANGED <<found, phase, ver, candCh, seen, member>>
           /\ (tri'.pc \in FoldPcs => tri.pc \in FoldPcs /\ tri'.item.cand = tri.item.cand)
  BY <1>1 DEF SeenOK, Joining, Waiting
<1>2. UNCHANGED <<found, phase, ver, candCh, seen, member>>
  <2>1.
 CASE MemberDrop \/ StageSite \/ StoreSite \/ StageLens \/ StoreLens
    BY <2>1 DEF MemberDrop, StageSite, StoreSite, StageLens, StoreLens, TriageFrame
  <2>2. CASE SuppressCandidate \/ ReopenFixed \/ FoldLens \/ FoldSite \/ DropPending
    BY <2>2 DEF SuppressCandidate, ReopenFixed, FoldLens, FoldSite, DropPending, TriageFrame
  <2>3. CASE Fold
    BY <2>3 DEF Fold, TriageFrame
  <2>4. QED
    BY <2>1, <2>2, <2>3 DEF TriageWorks
<1>3. QED
  BY <1>1, <1>2, WorkFoldPcs

LEMMA TakeSeen ==
  ASSUME TypeInv, SuppressionInv, ClaimInv, SeenOK, phase = "scan", NEW it, Takes(it)
  PROVE  SeenOK'
<1>1. /\ it.cand \in Waiting /\ it.cand \in found /\ Waiting' = Waiting \ {it.cand}
      /\ tri'.item = it /\ it.fp \in Fps /\ UNCHANGED <<found, phase, ver>>
      /\ \/ TakesOff(it) \/ TakesTwin(it) \/ TakesAlone(it)
         \/ \E cl \in Clusters : TakesInto(it, cl)
  BY TakeEffect
<1>2. \A f \in Fps : seen[f] # NoCand => seen'[f] = seen[f]
  BY <1>1 DEF TakesOff, TakesTwin, TakesAlone, TakesInto, Sees, TypeInv, TriageOK
<1>3. \A f \in Fps : ver'[f].pc # "none" => seen'[f] = ver'[f].item.cand
  BY <1>1, <1>2 DEF SeenOK, TypeInv, VerOK
<1>4. CASE TakesOff(it) \/ TakesTwin(it) \/ TakesAlone(it)
  <2>1. Joining' = Joining /\ Joining \subseteq found \ Waiting
    BY <1>4 DEF TakesOff, TakesTwin, TakesAlone, Joining, SeenOK
  <2>2. QED
    BY <1>1, <1>3, <2>1 DEF SeenOK
<1>5. CASE \E cl \in Clusters : TakesInto(it, cl)
  <2>1. PICK cl \in Clusters : TakesInto(it, cl)
    BY <1>5
  <2>2. Joining' = Joining \cup {it.cand} /\ tri'.pc \notin FoldPcs
    <3> DEFINE m == [item |-> it, cluster |-> cl]
    <3>1. m.item = it /\ member' = member \cup {m}
      BY <2>1 DEF TakesInto
    <3> HIDE DEF m
    <3>2. QED
      BY <2>1, <3>1 DEF Joining, TakesInto, FoldPcs
  <2>3. QED
    BY <1>1, <1>3, <2>2 DEF SeenOK
<1>6. QED
  BY <1>1, <1>4, <1>5

LEMMA SeenOKStep == TypeInv /\ SuppressionInv /\ ClaimInv /\ SeenOK /\ [Next]_vars => SeenOK'
<1> SUFFICES ASSUME TypeInv, SuppressionInv, ClaimInv, SeenOK, [Next]_vars, phase' = "scan"
             PROVE  SeenOK'
  BY DEF SeenOK
<1>1. CASE StartRun
  <2>1. PICK q \in Seq(Items) : StartWith(q)
    BY <1>1, ReplaysTyped, ReverifiesTyped DEF StartRun, TypeInv
  <2>2. member' = {} /\ tri'.pc = "idle" /\ \A f \in Fps : ver'[f].pc = "none"
    BY <2>1, FreshStart DEF StartWith
  <2>3. QED
    BY <2>2 DEF SeenOK, Joining, FoldPcs
<1>2. CASE Report \/ Abort \/ Crash \/ \E f \in Fps : Command(f)
  BY <1>2 DEF Report, Abort, Crash, Command, Running
<1>3. CASE FindersEnd \/ UNCHANGED vars
  BY <1>3 DEF FindersEnd, vars, triage, shared, SeenOK, Joining, Waiting
<1>4. CASE \E c \in Cands : Discover(c)
  <2>1. PICK c \in Cands : Discover(c)
    BY <1>4
  <2>2. /\ c \notin found /\ found' = found \cup {c} /\ UNCHANGED <<phase, tri, seen, member, ver>>
    BY <2>1 DEF Discover, shared
  <2>3. Waiting' \subseteq Waiting \cup {c}
    <3>1. PICK row \in BOOLEAN : Emit(Fresh(c, row))
      BY <2>1 DEF Discover
    <3>2. CASE UNCHANGED candCh
      BY <3>2 DEF Waiting
    <3>3. CASE candCh' = Append(candCh, Fresh(c, row))
      <4>1. /\ Len(candCh') = Len(candCh) + 1 /\ candCh'[Len(candCh) + 1].cand = c
            /\ \A i \in 1..Len(candCh) : candCh'[i] = candCh[i]
        BY <3>3, NewItems, AppendFacts, ItemKinds DEF TypeInv, TriageOK
      <4>2. Len(candCh) \in Nat /\ 1..Len(candCh') = 1..Len(candCh) \cup {Len(candCh) + 1}
        BY <4>1, LenProperties DEF TypeInv, TriageOK
      <4>3. QED
        BY <4>1, <4>2 DEF Waiting
    <3>4. QED
      BY <3>1, <3>2, <3>3 DEF Emit
  <2>4. QED
    BY <2>2, <2>3 DEF SeenOK, Joining
<1>5. CASE \E f \in Fps : Verify(f)
  <2>1. PICK f \in Fps : Verify(f)
    BY <1>5
  <2>2. VerifierMoved(f) /\ UNCHANGED <<candCh, tri, seen, member, found, phase>>
    BY <2>1, VerifyMoves DEF RestTyped
  <2>3. \A g \in Fps : ver'[g].pc # "none" => ver[g].pc # "none" /\ ver'[g].item = ver[g].item
    BY <2>2 DEF VerifierMoved
  <2>4. Joining' = Joining /\ Waiting' = Waiting
    BY <2>2 DEF Joining, Waiting
  <2>5. QED
    BY <2>2, <2>3, <2>4 DEF SeenOK
<1>6. CASE Triage
  <2>1. phase = "scan"
    BY <1>6, TriageMoves DEF RestTyped
  <2>2. CASE \E it \in {candCh[i] : i \in 1..Len(candCh)} : Takes(it)
    BY <2>1, <2>2, TakeSeen
  <2>3. CASE TriageWorks
    BY <2>3, WorkSeen
  <2>4. CASE RegisterPrimary
    <3>1. /\ tri.pc = "fold" /\ tri'.pc = "idle" /\ tri.item.fp \in Fps
          /\ seen[tri.item.fp] = tri.item.cand /\ ver'[tri.item.fp].item = tri.item
          /\ \A g \in Fps \ {tri.item.fp} : ver'[g] = ver[g]
          /\ member' = member \cup {[item |-> tri.item, cluster |-> tri.item.fp]}
          /\ UNCHANGED <<found, phase, candCh, seen>>
      BY <2>4, Registers
    <3>2. Joining' = Joining \cup {tri.item.cand}
      <4> DEFINE m == [item |-> tri.item, cluster |-> tri.item.fp]
      <4>1. m.item = tri.item /\ member' = member \cup {m}
        BY <3>1
      <4> HIDE DEF m
      <4>2. QED
        BY <4>1 DEF Joining
    <3>3. tri.item.cand \in found \ Waiting
      BY <2>1, <3>1 DEF ClaimInv, DistinctOK, Working
    <3>4. QED
      BY <2>1, <3>1, <3>2, <3>3 DEF SeenOK, Waiting, FoldPcs
  <2>5. CASE TriageFails
    <3>1. /\ candCh' = <<>> /\ tri'.pc = "dead" /\ UNCHANGED <<found, phase, ver, seen, member>>
      BY <2>5 DEF TriageFails, TriageFrame, TypeInv, TriageOK, Triages
    <3>2. Waiting' = {}
      BY <3>1 DEF Waiting
    <3>3. QED
      BY <2>1, <3>1, <3>2 DEF SeenOK, Joining, FoldPcs
  <2>6. QED
    BY <1>6, <2>2, <2>3, <2>4, <2>5 DEF Triage, Takes, TriageWorks
<1>7. QED
  BY <1>1, <1>2, <1>3, <1>4, <1>5, <1>6 DEF Next

LEMMA SeenOKHolds == Spec => []SeenOK
<1>1. Init => SeenOK
  BY DEF Init, SeenOK
<1>2. QED
  BY <1>1, SeenOKStep, TypeInvHolds, SuppressionInvHolds, ClaimInvHolds, PTL DEF Spec

-----------------------------------------------------------------------------
(* The copies and the rows.                                                *)

(* A candidate is folded into a row from its lens's statement on: triage   *)
(* still works on it, or it was seen, joined no cluster, and now stands    *)
(* with the row's candidate.                                               *)
Folding(c) == tri.pc \in FoldPcs /\ tri.item.cand = c
FoldedInto(f) ==
  /\ phase = "scan"
  /\ \E g \in Fps : /\ seen[g] # NoCand /\ seen[g] \notin Joining /\ ~Folding(seen[g])
                    /\ heir[seen[g]] = finding[f].cand
Folded(f) == FoldedInto(f) \/ (tri.pc = "foldSite" /\ tri.target = f)

(* What will be in the copy of a row, and what triage is about to write to *)
(* the row: it has told the registry, and so the copy, already.            *)
CopyLenses(f) == IF Copied(f) THEN result[f].lenses ELSE ver[f].lenses
CopySites(f)  == IF Copied(f) THEN result[f].sites ELSE ver[f].sites
Attaching(f) == IF tri.pc = "lensStore" /\ tri.target = f THEN {Lens[tri.item.cand]} ELSE {}
Bringing(f)  == IF tri.pc = "siteStore" /\ tri.target = f THEN {tri.item.cand} ELSE {}

(* Until a statement fails, a lens attached late is in the row or on its   *)
(* way there, and a row nothing was folded into holds no more than its     *)
(* copy and the late attachments.                                          *)
LateOK(f) ==
  /\ ver[f].late \subseteq reg[f].attachedLate
  /\ reg[f].attachedLate \subseteq finding[f].lenses \cup Attaching(f)
       \cup (IF ver[f].pc = "lateLenses" THEN ver[f].late ELSE {})
  /\ Attaching(f) \subseteq reg[f].attachedLate
  /\ Bringing(f) \subseteq CopySites(f) \cup reg[f].lateSites
KnownOK(f) ==
  /\ finding[f].lenses \subseteq CopyLenses(f) \cup reg[f].attachedLate
  /\ finding[f].sites \subseteq CopySites(f) \cup reg[f].lateSites
MirrorOK(f) == Written(f) => LateOK(f) /\ (~Folded(f) => KnownOK(f))

MirrorInv == (Running /\ faults = 0 => \A f \in Fps : MirrorOK(f)) /\ ResultMatchesStore

LEMMA VerifierMirror ==
  ASSUME NEW f \in Fps, VerifyEffect(f), HandOK, EntryOK(f), CopyOK(f), RowOK(f), MirrorOK(f),
         ver[f].tier \in {2, 3}, UNCHANGED tri, Written(f) => (Folded(f) => Folded(f)')
  PROVE  MirrorOK(f)'
<1>1. /\ Attaching(f)' = Attaching(f) /\ Bringing(f)' = Bringing(f)
      /\ reg[f].status = "live" => Attaching(f) = {} /\ Bringing(f) = {}
  BY DEF Attaching, Bringing, HandOK
<1>2. CASE Decided(f) \/ Refuted(f) \/ Dismissed(f) \/ Forgotten(f) \/ LensesDrained(f)
           \/ SitesDrained(f)
  <2>1. ~Written(f)'
    <3>1. CASE Decided(f)
      <4>1. PICK pc \in {"orphan", "kill", "lenses"} : Turns(f, pc)
        BY <3>1 DEF Decided
      <4>2. QED
        BY <4>1 DEF Turns, Moves, Written
    <3>2. CASE Refuted(f) \/ LensesDrained(f) \/ SitesDrained(f) \/ Dismissed(f)
      BY <3>2 DEF Refuted, LensesDrained, SitesDrained, Dismissed, Turns, Moves, Written
    <3>3. CASE Forgotten(f)
      BY <3>3 DEF Forgotten, Turns, Moves, Written, EntryOK, SameEntry
    <3>4. QED
      BY <1>2, <3>1, <3>2, <3>3
  <2>2. QED
    BY <2>1 DEF MirrorOK
<1>3. CASE Orphaned(f)
  <2>1. /\ ver'[f].pc = "delete" /\ ver'[f].tier = 3 /\ ver'[f].late = {} /\ reg[f].status = "live"
        /\ finding'[f].lenses = result'[f].lenses /\ finding'[f].sites = result'[f].sites
        /\ reg'[f] = reg[f] /\ reg[f].attachedLate = {}
    BY <1>3 DEF Orphaned, Moves, RowWritten, CopyBecomes, SameEntry, CopyOK, EntryOK, LivePcs
  <2>2. LateOK(f)'
    BY <1>1, <2>1 DEF LateOK
  <2>3. KnownOK(f)'
    BY <2>1 DEF KnownOK, CopyLenses, CopySites, Copied
  <2>4. QED
    BY <2>2, <2>3 DEF MirrorOK
<1>4. CASE SurvivorWritten(f)
  <2>1. /\ ver'[f].pc = "delete" /\ ver'[f].tier = 2 /\ ver'[f].late = {} /\ reg[f].status = "live"
        /\ finding'[f].lenses = ver'[f].lenses /\ finding'[f].sites = ver'[f].sites
        /\ reg'[f] = reg[f] /\ reg[f].attachedLate = {}
    BY <1>4 DEF SurvivorWritten, Turns, Moves, RowWritten, SameEntry, CopyOK, EntryOK, LivePcs
  <2>2. LateOK(f)'
    BY <1>1, <2>1 DEF LateOK
  <2>3. KnownOK(f)'
    BY <2>1 DEF KnownOK, CopyLenses, CopySites, Copied
  <2>4. QED
    BY <2>2, <2>3 DEF MirrorOK
<1>5. CASE Deleted(f) \/ Signalled(f) \/ LensesAttached(f) \/ SitesAttached(f)
  <2>1. Written(f) /\ Stored(f) /\ LateOK(f) /\ (~Folded(f)' => KnownOK(f))
    BY <1>5 DEF Deleted, Signalled, LensesAttached, SitesAttached, Written, RowOK, MirrorOK
  <2>2. CASE Deleted(f)
    <3>1. /\ ver[f].pc = "delete" /\ ver'[f].pc = "signal" /\ ver'[f].tier = ver[f].tier
          /\ ver'[f].lenses = ver[f].lenses /\ ver'[f].late = ver[f].late
          /\ ver'[f].sites = ver[f].sites
          /\ finding'[f] = finding[f] /\ reg'[f] = reg[f] /\ result'[f] = result[f]
      BY <2>2 DEF Deleted, Turns, Moves, SameRow, SameCopy, SameEntry
    <3>2. CopySites(f)' = CopySites(f) /\ CopyLenses(f)' = CopyLenses(f)
      BY <3>1 DEF CopySites, CopyLenses, Copied
    <3>3. QED
      BY <1>1, <2>1, <3>1, <3>2 DEF MirrorOK, LateOK, KnownOK
  <2>3. CASE Signalled(f)
    <3>1. /\ ver[f].pc = "signal" /\ ver'[f].pc = "lateLenses" /\ ver'[f].tier = ver[f].tier
          /\ ver'[f].lenses = ver[f].lenses \cup reg[f].stagedLenses
          /\ ver'[f].late = reg[f].stagedLenses /\ ver'[f].sites = ver[f].sites
          /\ Holds(reg'[f], "persisted", {}, reg[f].attachedLate \cup reg[f].stagedLenses,
                   {}, reg[f].lateSites \cup reg[f].stagedSites)
          /\ finding'[f] = finding[f] /\ result'[f] = result[f]
          /\ reg[f].status = "live" /\ reg[f].attachedLate = {}
      BY <2>3 DEF Signalled, Moves, SameRow, SameCopy, EntryOK, LivePcs
    <3>2. CopySites(f)' = CopySites(f) /\ CopyLenses(f) \subseteq CopyLenses(f)'
      BY <3>1 DEF CopySites, CopyLenses, Copied
    <3>3. LateOK(f)'
      BY <1>1, <3>1 DEF LateOK, Holds
    <3>4. KnownOK(f) => KnownOK(f)'
      BY <3>1, <3>2 DEF KnownOK, Holds
    <3>5. QED
      BY <2>1, <3>3, <3>4 DEF MirrorOK
  <2>4. CASE LensesAttached(f)
    <3>1. /\ ver[f].pc = "lateLenses" /\ ver'[f].pc = (IF ver[f].tier = 2 THEN "lateSites" ELSE "done")
          /\ ver'[f].tier = ver[f].tier /\ ver'[f].lenses = ver[f].lenses
          /\ ver'[f].late = ver[f].late /\ ver'[f].sites = ver[f].sites
          /\ finding'[f].lenses = finding[f].lenses \cup ver[f].late
          /\ finding'[f].sites = finding[f].sites
          /\ reg'[f] = reg[f] /\ result'[f] = result[f]
      BY <2>1, <2>4 DEF LensesAttached, Turns, Moves, RowBecomes, SameCopy, SameEntry
    <3>2. CopySites(f)' = CopySites(f) /\ CopyLenses(f)' = CopyLenses(f)
      <4>1. Copied(f)' <=> Copied(f)
        BY <3>1 DEF Copied
      <4>2. QED
        BY <3>1, <4>1 DEF CopySites, CopyLenses
    <3>3. LateOK(f)'
      BY <1>1, <2>1, <3>1, <3>2 DEF LateOK
    <3>4. KnownOK(f) => KnownOK(f)'
      BY <2>1, <3>1, <3>2 DEF KnownOK, LateOK
    <3>5. QED
      BY <2>1, <3>3, <3>4 DEF MirrorOK
  <2>5. CASE SitesAttached(f)
    <3>1. /\ ver[f].pc = "lateSites" /\ ver'[f].pc = "done" /\ ver[f].tier = 2
          /\ ver'[f].late = ver[f].late
          /\ finding'[f].lenses = finding[f].lenses
          /\ finding'[f].sites = finding[f].sites \cup reg[f].lateSites
          /\ result'[f].lenses = ver[f].lenses /\ result'[f].sites = ver[f].sites \cup reg[f].lateSites
          /\ Holds(reg'[f], reg[f].status, reg[f].stagedLenses, reg[f].attachedLate,
                   reg[f].stagedSites, {})
      BY <2>1, <2>5 DEF SitesAttached, Turns, Moves, RowBecomes, CopyBecomes, CopyOK
    <3>2. /\ CopySites(f) = ver[f].sites /\ CopySites(f)' = ver[f].sites \cup reg[f].lateSites
          /\ CopyLenses(f) = ver[f].lenses /\ CopyLenses(f)' = ver[f].lenses
      BY <3>1 DEF CopySites, CopyLenses, Copied
    <3>3. LateOK(f)'
      BY <1>1, <2>1, <3>1, <3>2 DEF LateOK, Holds
    <3>4. KnownOK(f) => KnownOK(f)'
      BY <3>1, <3>2 DEF KnownOK, Holds
    <3>5. QED
      BY <2>1, <3>3, <3>4 DEF MirrorOK
  <2>6. QED
    BY <1>5, <2>2, <2>3, <2>4, <2>5
<1>6. QED
  BY <1>2, <1>3, <1>4, <1>5 DEF VerifyEffect

(* A fold that ends leaves the candidate with the row's; no other step of  *)
(* triage on an item touches what a candidate stands with.                 *)
LEMMA WorkFolds ==
  ASSUME TypeInv, SuppressionInv, SeenOK, faults' = 0, TriageWorks, NEW f \in Fps, Folded(f)
  PROVE  Folded(f)'
<1>1. /\ Running /\ Working /\ UNCHANGED <<phase, seen, member>> /\ RowGrows(f)
      /\ tri'.pc \in FoldPcs => tri.pc \in FoldPcs /\ tri'.item.cand = tri.item.cand
  BY WorkGrows, WorkFoldPcs
<1>2. finding'[f].cand = finding[f].cand /\ Joining' = Joining
  BY <1>1 DEF RowGrows, Joining
<1>3. ~FoldSite => UNCHANGED heir
  <2>1. CASE Fold
    BY <2>1 DEF Fold
  <2>2. CASE MemberDrop \/ DropPending
    BY <2>2 DEF MemberDrop, DropPending
  <2>3. CASE StageSite \/ StoreSite \/ StageLens \/ StoreLens
    BY <2>3 DEF StageSite, StoreSite, StageLens, StoreLens
  <2>4. CASE SuppressCandidate \/ ReopenFixed \/ FoldLens
    BY <2>4 DEF SuppressCandidate, ReopenFixed, FoldLens
  <2>5. QED
    BY <2>1, <2>2, <2>3, <2>4 DEF TriageWorks
<1>4. FoldSite => /\ tri.pc = "foldSite" /\ tri'.pc = "drop"
                  /\ heir' = [heir EXCEPT ![tri.item.cand] = finding[tri.target].cand]
  BY DEF FoldSite, At, Step, TypeInv, TriageOK, Triages
<1>5. heir \in [Cands -> Cands] /\ seen \in [Fps -> Cands \cup {NoCand}]
  BY DEF TypeInv, RunOK, TriageOK
<1>6. CASE FoldedInto(f)
  <2>1. PICK g \in Fps : /\ seen[g] # NoCand /\ seen[g] \notin Joining /\ ~Folding(seen[g])
                         /\ heir[seen[g]] = finding[f].cand
    BY <1>6 DEF FoldedInto
  <2>2. ~Folding(seen[g])'
    BY <1>1, <2>1 DEF Folding
  <2>3. heir'[seen[g]] = heir[seen[g]]
    <3>1. CASE FoldSite
      <4>1. seen[g] # tri.item.cand
        BY <1>4, <2>1, <3>1 DEF Folding, FoldPcs
      <4>2. QED
        BY <1>4, <1>5, <2>1, <3>1, <4>1
    <3>2. QED
      BY <1>3, <3>1
  <2>4. FoldedInto(f)'
    BY <1>1, <1>2, <1>6, <2>1, <2>2, <2>3 DEF FoldedInto
  <2>5. QED
    BY <2>4 DEF Folded
<1>7. CASE tri.pc = "foldSite" /\ tri.target = f
  <2>1. FoldSite
    <3>1. ~Fold
      BY <1>7 DEF Fold, At
    <3>2. ~MemberDrop /\ ~DropPending /\ ~StageSite /\ ~StoreSite /\ ~StageLens /\ ~StoreLens
      BY <1>7 DEF MemberDrop, StageSite, StoreSite, StageLens, StoreLens, DropPending, At
    <3>3. ~SuppressCandidate /\ ~ReopenFixed /\ ~FoldLens
      BY <1>7 DEF SuppressCandidate, ReopenFixed, FoldLens, At
    <3>4. QED
      BY <3>1, <3>2, <3>3 DEF TriageWorks
  <2>2. /\ tri.item.cand \in Cands /\ tri.item.fp \in Fps /\ seen[tri.item.fp] = tri.item.cand
        /\ tri.item.cand # NoCand /\ phase = "scan" /\ tri.item.cand \notin Joining
    <3>1. tri.pc \in FoldPcs /\ tri.pc \in FoldPcs \ {"fold"}
      BY <1>7 DEF FoldPcs
    <3>2. /\ tri.item.cand \in Cands /\ tri.item.fp \in Fps /\ seen[tri.item.fp] = tri.item.cand
          /\ tri.item.cand # NoCand
      BY <1>1, <3>1, WorkItem, Constants DEF TypeInv, TriageOK
    <3>3. phase = "scan"
      BY <1>1, <3>1 DEF SuppressionInv, FoldingOK, KindedOK, Running
    <3>4. QED
      BY <3>1, <3>2, <3>3 DEF SeenOK
  <2>3. heir'[tri.item.cand] = finding[f].cand /\ tri'.pc = "drop"
    BY <1>4, <1>5, <1>7, <2>1, <2>2
  <2>4. tri'.pc \notin FoldPcs
    BY <2>3 DEF FoldPcs
  <2>5. PICK g \in Fps : g = tri.item.fp
    BY <2>2
  <2>6. /\ seen'[g] # NoCand /\ seen'[g] \notin Joining' /\ ~Folding(seen[g])'
        /\ heir'[seen'[g]] = finding'[f].cand
    BY <1>1, <1>2, <2>2, <2>3, <2>4, <2>5 DEF Folding
  <2>7. FoldedInto(f)'
    BY <1>1, <2>2, <2>6 DEF FoldedInto
  <2>8. QED
    BY <2>7 DEF Folded
<1>8. QED
  BY <1>6, <1>7 DEF Folded

(* What triage hands over, in the row and the entry of f.                  *)
LEMMA WorkMirror ==
  ASSUME TypeInv, SuppressionInv, SeenOK, HandoffInv, faults' = 0, TriageWorks,
         NEW f \in Fps, MirrorOK(f)
  PROVE  MirrorOK(f)'
<1>1. /\ faults = 0 /\ Running /\ Working /\ UNCHANGED <<ver, result>>
      /\ RowGrows(f) /\ EntryGrows(f)
  BY WorkGrows
<1>2. HandOK /\ EntryOK(f) /\ CopyOK(f) /\ RowOK(f)
  BY <1>1 DEF HandoffInv
<1>3. /\ Written(f)' = Written(f)
      /\ CopyLenses(f)' = CopyLenses(f) /\ CopySites(f)' = CopySites(f)
      /\ Folded(f) => Folded(f)'
  BY <1>1, <1>2, GrownHandoff, WorkFolds DEF CopyLenses, CopySites, Copied
<1>4. SUFFICES ASSUME Written(f)
               PROVE  LateOK(f)' /\ (~Folded(f)' => KnownOK(f)')
  BY <1>3 DEF MirrorOK
<1>5. /\ Stored(f) /\ LateOK(f) /\ (~Folded(f)' => KnownOK(f))
  BY <1>2, <1>3, <1>4 DEF MirrorOK, RowOK
<1>6. /\ tri.item.cand \in Cands /\ Lens[tri.item.cand] \in Lenses /\ tri \in Triages
      /\ tri.pc \in TargetPcs => tri.target \in Fps
      /\ reg \in [Fps -> Entry(Lenses, Cands)] /\ RunOK /\ StoreOK
  BY <1>1, WorkItem DEF TypeInv, TriageOK, VerOK
<1>7. reg[f].status \in {"live", "persisted"}
  BY <1>2, <1>4 DEF EntryOK, Written, LivePcs
<1>8. ASSUME finding'[f].lenses = finding[f].lenses, finding'[f].sites = finding[f].sites,
             reg'[f] = reg[f], tri.pc \notin {"lensStore", "siteStore"},
             tri'.pc \notin {"lensStore", "siteStore"}
      PROVE  LateOK(f)' /\ (~Folded(f)' => KnownOK(f)')
  <2>1. Attaching(f)' = {} /\ Bringing(f)' = {} /\ Attaching(f) = {}
    BY <1>8 DEF Attaching, Bringing
  <2>2. QED
    BY <1>1, <1>3, <1>5, <1>8, <2>1 DEF LateOK, KnownOK
<1>9. CASE MemberDrop \/ DropPending
  <2>1. /\ UNCHANGED <<finding, reg>> /\ tri.pc \in {"memberDrop", "drop"}
    BY <1>9 DEF MemberDrop, DropPending, At
  <2>2. tri'.pc \in {"site", "idle"}
    <3>1. MemberDrop => tri'.pc = "site"
      BY <1>6 DEF MemberDrop, Triages
    <3>2. DropPending => tri'.pc = "idle"
      BY DEF DropPending, IdleTriage
    <3>3. QED
      BY <1>9, <3>1, <3>2
  <2>3. QED
    BY <1>8, <2>1, <2>2
<1>10. CASE Fold
  <2>1. UNCHANGED <<finding, reg>> /\ tri.pc = "fold"
    BY <1>10 DEF Fold, At, durable
  <2>2. tri'.pc \in FoldPcs
    <3>1. \E g \in Fps : FoldStep(finding[g].status) = tri'.pc /\ finding[g].status # "absent"
      BY <1>6, <1>10 DEF Fold, Triages, FoldRows
    <3>2. \A g \in Fps : finding[g].status \in {"absent", "open", "fixed", "dismissed"}
      BY <1>6 DEF StoreOK, Rows
    <3>3. QED
      BY <3>1, <3>2 DEF FoldStep, FoldPcs
  <2>3. QED
    BY <1>8, <2>1, <2>2 DEF FoldPcs
<1>11. CASE SuppressCandidate \/ ReopenFixed
  <2>1. /\ UNCHANGED reg /\ tri.pc \in {"suppress", "reopen"} /\ tri'.pc \in {"drop", "foldLens"}
        /\ \E t \in Fps : \E status : finding' = WithStatus(t, status)
    BY <1>6, <1>11, WorkItem, <1>1 DEF SuppressCandidate, ReopenFixed, At, Step, Triages, TargetPcs
  <2>2. finding'[f].lenses = finding[f].lenses /\ finding'[f].sites = finding[f].sites
    BY <1>6, <2>1, WithStatusRow
  <2>3. QED
    BY <1>8, <2>1, <2>2
<1>12. CASE StageSite
  <2>1. /\ tri.pc = "site" /\ tri.target \in Fps /\ UNCHANGED finding
        /\ reg' = [reg EXCEPT ![tri.target] = AddStagedSite(reg[tri.target], tri.item.cand)]
        /\ tri'.pc = IF CallerWrites(reg[tri.target]) THEN "siteStore" ELSE "lens"
        /\ tri'.target = tri.target /\ tri'.item = tri.item
    BY <1>6, <1>12 DEF StageSite, At, TargetPcs, StagePcs, durable, Step, Triages
  <2>2. Attaching(f)' = {} /\ Attaching(f) = {}
    BY <2>1 DEF Attaching
  <2>3. CASE f = tri.target
    <3>1. Holds(reg'[f], reg[f].status, reg[f].stagedLenses, reg[f].attachedLate,
              IF reg[f].status = "live" THEN reg[f].stagedSites \cup {tri.item.cand}
                                        ELSE reg[f].stagedSites,
              IF reg[f].status = "persisted" THEN reg[f].lateSites \cup {tri.item.cand}
                                             ELSE reg[f].lateSites)
      BY <1>6, <2>1, <2>3, StagedContents
    <3>2. Bringing(f)' \subseteq reg'[f].lateSites
      BY <1>7, <2>1, <2>3, <3>1 DEF Bringing, Holds, CallerWrites
    <3>3. reg'[f].attachedLate = reg[f].attachedLate /\ reg[f].lateSites \subseteq reg'[f].lateSites
      BY <3>1 DEF Holds
    <3>4. QED
      BY <1>1, <1>3, <1>5, <2>1, <2>2, <3>2, <3>3 DEF LateOK, KnownOK
  <2>4. CASE f # tri.target
    <3>1. reg'[f] = reg[f] /\ Bringing(f)' = {}
      BY <1>6, <2>1, <2>4 DEF Bringing
    <3>2. QED
      BY <1>1, <1>3, <1>5, <2>1, <2>2, <3>1 DEF LateOK, KnownOK
  <2>5. QED
    BY <2>3, <2>4
<1>13. CASE StageLens
  <2>1. /\ tri.pc = "lens" /\ tri.target \in Fps /\ UNCHANGED finding
        /\ tri'.target = tri.target /\ tri'.item = tri.item
        /\ \/ UNCHANGED reg /\ tri'.pc = "drop"
           \/ /\ reg' = [reg EXCEPT ![tri.target] =
                          AddStagedLens(reg[tri.target], Lens[tri.item.cand])]
              /\ tri'.pc = IF CallerWrites(reg[tri.target]) THEN "lensStore" ELSE "drop"
    BY <1>6, <1>13 DEF StageLens, At, TargetPcs, StagePcs, durable, Step, Triages
  <2>2. Bringing(f)' = {} /\ Attaching(f) = {}
    BY <2>1 DEF Bringing, Attaching
  <2>3. CASE UNCHANGED reg /\ tri'.pc = "drop"
    BY <1>8, <2>1, <2>3
  <2>4. CASE /\ f = tri.target
             /\ reg' = [reg EXCEPT ![tri.target] =
                          AddStagedLens(reg[tri.target], Lens[tri.item.cand])]
             /\ tri'.pc = IF CallerWrites(reg[tri.target]) THEN "lensStore" ELSE "drop"
    <3>1. Holds(reg'[f], reg[f].status,
              IF reg[f].status = "live" THEN reg[f].stagedLenses \cup {Lens[tri.item.cand]}
                                        ELSE reg[f].stagedLenses,
              IF reg[f].status = "persisted" THEN reg[f].attachedLate \cup {Lens[tri.item.cand]}
                                             ELSE reg[f].attachedLate,
              reg[f].stagedSites, reg[f].lateSites)
      BY <1>6, <2>1, <2>4, StagedContents
    <3>2. CASE reg[f].status = "live"
      <4>1. Attaching(f)' = {} /\ reg'[f].attachedLate = reg[f].attachedLate
            /\ reg'[f].lateSites = reg[f].lateSites
        BY <2>4, <3>1, <3>2 DEF Attaching, Holds, CallerWrites
      <4>2. QED
        BY <1>1, <1>3, <1>5, <2>1, <2>2, <4>1 DEF LateOK, KnownOK
    <3>3. CASE reg[f].status = "persisted"
      <4>1. /\ Attaching(f)' = {Lens[tri.item.cand]}
            /\ reg'[f].attachedLate = reg[f].attachedLate \cup {Lens[tri.item.cand]}
            /\ reg'[f].lateSites = reg[f].lateSites
        BY <2>1, <2>4, <3>1, <3>3 DEF Attaching, Holds, CallerWrites
      <4>2. QED
        BY <1>1, <1>3, <1>5, <2>1, <2>2, <4>1 DEF LateOK, KnownOK
    <3>4. QED
      BY <1>7, <3>2, <3>3
  <2>5. CASE /\ f # tri.target
             /\ reg' = [reg EXCEPT ![tri.target] =
                          AddStagedLens(reg[tri.target], Lens[tri.item.cand])]
    <3>1. reg'[f] = reg[f] /\ Attaching(f)' = {}
      BY <1>6, <2>1, <2>5 DEF Attaching
    <3>2. QED
      BY <1>1, <1>3, <1>5, <2>1, <2>2, <3>1 DEF LateOK, KnownOK
  <2>6. QED
    BY <2>1, <2>3, <2>4, <2>5
<1>14. CASE StoreSite \/ FoldSite
  <2>1. /\ tri.pc \in {"siteStore", "foldSite"} /\ tri.target \in Fps /\ UNCHANGED reg
        /\ StoreSite => tri.pc = "siteStore"
        /\ tri'.pc \in {"lens", "drop"} /\ finding' = WithSites(tri.target, {tri.item.cand})
    BY <1>6, <1>1, <1>14, NoFault DEF StoreSite, FoldSite, At, TargetPcs, StagePcs, Step, Triages
  <2>2. /\ finding'[f].lenses = finding[f].lenses
        /\ f = tri.target => finding'[f].sites = finding[f].sites \cup {tri.item.cand}
        /\ f # tri.target => finding'[f].sites = finding[f].sites
    <3>1. PICK t \in Fps, sites \in SUBSET Cands :
             t = tri.target /\ sites = {tri.item.cand} /\ finding' = WithSites(t, sites)
      BY <1>6, <2>1
    <3>2. /\ WithSites(t, sites)[f].lenses = finding[f].lenses
          /\ WithSites(t, sites)[f].sites = IF f = t /\ Stored(t)
                                 THEN finding[f].sites \cup sites ELSE finding[f].sites
      BY <1>6, WithSitesRow
    <3>3. QED
      BY <1>5, <3>1, <3>2
  <2>3. Attaching(f)' = {} /\ Bringing(f)' = {} /\ Attaching(f) = {}
    BY <2>1 DEF Attaching, Bringing
  <2>4. LateOK(f)'
    BY <1>1, <1>3, <1>5, <2>1, <2>2, <2>3 DEF LateOK
  <2>5. CASE f # tri.target
    BY <1>1, <1>3, <1>5, <2>1, <2>2, <2>4, <2>5 DEF KnownOK
  <2>6. CASE f = tri.target /\ StoreSite
    <3>1. Bringing(f) = {tri.item.cand}
      BY <2>1, <2>6 DEF Bringing
    <3>2. QED
      BY <1>1, <1>3, <1>5, <2>1, <2>2, <2>4, <3>1 DEF LateOK, KnownOK
  <2>7. CASE f = tri.target /\ ~StoreSite
    <3>1. Folded(f)
      BY <1>14, <2>7 DEF FoldSite, At, Folded
    <3>2. QED
      BY <1>3, <2>4, <3>1
  <2>8. QED
    BY <2>5, <2>6, <2>7
<1>15. CASE StoreLens \/ FoldLens
  <2>1. /\ tri.pc \in {"lensStore", "foldLens"} /\ tri.target \in Fps /\ UNCHANGED reg
        /\ StoreLens => tri.pc = "lensStore"
        /\ ~StoreLens => tri'.pc = "foldSite" /\ tri'.target = tri.target
        /\ tri'.pc \in {"drop", "foldSite"} /\ finding' = WithLenses(tri.target, {Lens[tri.item.cand]})
    BY <1>6, <1>1, <1>15, NoFault DEF StoreLens, FoldLens, At, TargetPcs, StagePcs, Step, Triages
  <2>2. /\ finding'[f].sites = finding[f].sites
        /\ f = tri.target => finding'[f].lenses = finding[f].lenses \cup {Lens[tri.item.cand]}
        /\ f # tri.target => finding'[f].lenses = finding[f].lenses
    <3>1. PICK t \in Fps, lenses \in SUBSET Lenses :
             t = tri.target /\ lenses = {Lens[tri.item.cand]} /\ finding' = WithLenses(t, lenses)
      BY <1>6, <2>1
    <3>2. /\ WithLenses(t, lenses)[f].sites = finding[f].sites
          /\ WithLenses(t, lenses)[f].lenses = IF f = t /\ Stored(t)
                                 THEN finding[f].lenses \cup lenses ELSE finding[f].lenses
      BY <1>6, WithLensesRow
    <3>3. QED
      BY <1>5, <3>1, <3>2
  <2>3. Attaching(f)' = {} /\ Bringing(f)' = {}
    BY <2>1 DEF Attaching, Bringing
  <2>4. LateOK(f)'
    <3>1. Attaching(f) \subseteq finding'[f].lenses
      BY <2>2 DEF Attaching
    <3>2. QED
      BY <1>1, <1>3, <1>5, <2>1, <2>2, <2>3, <3>1 DEF LateOK
  <2>5. CASE f # tri.target
    BY <1>1, <1>3, <1>5, <2>1, <2>2, <2>4, <2>5 DEF KnownOK
  <2>6. CASE f = tri.target /\ StoreLens
    <3>1. Attaching(f) = {Lens[tri.item.cand]}
      BY <2>1, <2>6 DEF Attaching
    <3>2. QED
      BY <1>1, <1>3, <1>5, <2>1, <2>2, <2>4, <3>1 DEF LateOK, KnownOK
  <2>7. CASE f = tri.target /\ ~StoreLens
    BY <2>1, <2>4, <2>7 DEF Folded
  <2>8. QED
    BY <2>5, <2>6, <2>7
<1>16. QED
  BY <1>9, <1>10, <1>11, <1>12, <1>13, <1>14, <1>15 DEF TriageWorks

(* What a step leaves alone stays mirrored.                                *)
LEMMA SameMirror ==
  ASSUME NEW f \in Fps, MirrorOK(f), UNCHANGED <<finding[f], reg[f], ver[f], result[f]>>,
         Written(f) => Attaching(f)' = Attaching(f) /\ Bringing(f)' = Bringing(f),
         Written(f) /\ Folded(f) => Folded(f)'
  PROVE  MirrorOK(f)'
<1>1. /\ Written(f)' = Written(f)
      /\ CopyLenses(f)' = CopyLenses(f) /\ CopySites(f)' = CopySites(f)
  BY DEF Written, CopyLenses, CopySites, Copied
<1>2. Written(f) => (LateOK(f) => LateOK(f)') /\ (KnownOK(f) => KnownOK(f)')
  BY <1>1 DEF LateOK, KnownOK
<1>3. QED
  BY <1>1, <1>2 DEF MirrorOK

(* A candidate taken from the channel is none that triage has seen, and so *)
(* none that was folded, nor the candidate of a row of this run.           *)
LEMMA TakeMirror ==
  ASSUME TypeInv, SuppressionInv, ClaimInv, SeenOK, HandoffInv, faults' = 0,
         NEW it, Takes(it), NEW f \in Fps, MirrorOK(f)
  PROVE  MirrorOK(f)'
<1>1. /\ faults = 0 /\ Running /\ tri.pc = "idle"
      /\ UNCHANGED <<finding, phase, reg, ver, result>>
      /\ tri'.pc \notin {"siteStore", "lensStore"}
  BY NoFault DEF Takes, TakeUnfit, TakeDuplicate, TakeSuppressed, TakeMember, TakeUnclustered, New,
     Arriving, TriageFrame, durable, Dequeue, TypeInv
<1>2. Attaching(f) = {} /\ Attaching(f)' = {} /\ Bringing(f) = {} /\ Bringing(f)' = {}
  BY <1>1 DEF Attaching, Bringing
<1>3. ASSUME Written(f), Folded(f)
      PROVE  Folded(f)'
  <2>1. phase = "scan" /\ FoldedInto(f)
    BY <1>1, <1>3 DEF Folded, FoldedInto
  <2>2. PICK g \in Fps : /\ seen[g] # NoCand /\ seen[g] \notin Joining
                         /\ heir[seen[g]] = finding[f].cand
    BY <2>1 DEF FoldedInto
  <2>3. seen[g] \in Cands /\ seen[g] \notin Waiting /\ finding[f].cand \notin Waiting
    <3>1. ver[f].pc # "none"
      BY <1>3 DEF Written
    <3>2. finding[f].cand = seen[f] /\ seen[f] # NoCand
      BY <1>1, <1>3, <2>1, <3>1 DEF SeenOK, HandoffInv, RowOK, TypeInv, VerOK
    <3>3. QED
      BY <2>1, <2>2, <3>2 DEF ClaimInv, DistinctOK, TypeInv, TriageOK
  <2>4. /\ it.cand \in Waiting /\ tri'.item = it
        /\ \/ TakesOff(it) \/ TakesTwin(it) \/ TakesAlone(it)
           \/ \E cl \in Clusters : TakesInto(it, cl)
    BY <2>1, TakeEffect
  <2>5. seen[g] # it.cand /\ finding[f].cand # it.cand
    BY <2>3, <2>4
  <2>6. seen'[g] = seen[g]
    BY <2>2, <2>4 DEF TakesOff, TakesTwin, TakesAlone, TakesInto, Sees, TypeInv, TriageOK
  <2>7. seen[g] \notin Joining'
    <3>1. CASE UNCHANGED member
      BY <2>2, <3>1 DEF Joining
    <3>2. CASE \E cl \in Clusters : TakesInto(it, cl)
      <4>1. PICK cl \in Clusters : TakesInto(it, cl)
        BY <3>2
      <4> DEFINE m == [item |-> it, cluster |-> cl]
      <4>2. m.item = it /\ member' = member \cup {m}
        BY <4>1 DEF TakesInto
      <4> HIDE DEF m
      <4>3. QED
        BY <2>2, <2>5, <4>2 DEF Joining
    <3>3. QED
      BY <2>4, <3>1, <3>2 DEF TakesOff, TakesTwin, TakesAlone
  <2>8. heir'[seen[g]] = heir[seen[g]]
    BY <2>2, <2>3, <2>4, <2>5 DEF TakesOff, TakesTwin, TakesAlone, TakesInto, Merges
  <2>9. ~Folding(seen[g])'
    BY <2>4, <2>5, <2>6 DEF Folding
  <2>10. FoldedInto(f)'
    BY <1>1, <2>1, <2>2, <2>6, <2>7, <2>8, <2>9 DEF FoldedInto
  <2>11. QED
    BY <2>10 DEF Folded
<1>4. QED
  BY <1>1, <1>2, <1>3, SameMirror

(* The candidate that becomes a primary leaves triage for its cluster, and *)
(* takes over none but its own claim.                                      *)
LEMMA RegisterMirror ==
  ASSUME TypeInv, SuppressionInv, RegisterPrimary, NEW f \in Fps, MirrorOK(f)
  PROVE  MirrorOK(f)'
<1>1. PICK p \in Fps, c \in Cands : p = tri.item.fp /\ c = tri.item.cand
  BY Registers
<1>2. /\ tri.pc = "fold" /\ tri'.pc = "idle" /\ ver'[p].pc = "panel"
      /\ \A g \in Fps \ {p} : reg'[g] = reg[g] /\ ver'[g] = ver[g]
      /\ member' = member \cup {[item |-> tri.item, cluster |-> p]}
      /\ UNCHANGED <<finding, phase, seen, result>>
  BY <1>1, Registers
<1>3. CASE f = p
  BY <1>2, <1>3 DEF MirrorOK, Written
<1>4. CASE f # p
  <2>1. Attaching(f) = {} /\ Attaching(f)' = {} /\ Bringing(f) = {} /\ Bringing(f)' = {}
    BY <1>2 DEF Attaching, Bringing
  <2>2. ASSUME Folded(f)
        PROVE  Folded(f)'
    <3>1. phase = "scan" /\ FoldedInto(f)
      BY <1>2, <2>2 DEF Folded, FoldedInto
    <3>2. PICK g \in Fps : /\ seen[g] # NoCand /\ seen[g] \notin Joining /\ ~Folding(seen[g])
                           /\ heir[seen[g]] = finding[f].cand
      BY <3>1 DEF FoldedInto
    <3>3. seen[g] \in Cands /\ seen[g] # c
      BY <1>1, <1>2, <3>2 DEF Folding, FoldPcs, TypeInv, TriageOK
    <3>4. seen[g] \notin Joining'
      <4> DEFINE m == [item |-> tri.item, cluster |-> p]
      <4>1. m.item.cand = c /\ member' = member \cup {m}
        BY <1>1, <1>2
      <4> HIDE DEF m
      <4>2. QED
        BY <3>2, <3>3, <4>1 DEF Joining
    <3>5. heir'[seen[g]] = heir[seen[g]]
      <4>1. \/ UNCHANGED heir
            \/ heir' = [d \in Cands |-> IF c \in {d, heir[d]} THEN c ELSE heir[d]]
        BY <1>1 DEF RegisterPrimary, Inherit
      <4>2. QED
        BY <3>3, <4>1
    <3>6. ~Folding(seen[g])'
      BY <1>2 DEF Folding, FoldPcs
    <3>7. FoldedInto(f)'
      BY <1>2, <3>1, <3>2, <3>4, <3>5, <3>6 DEF FoldedInto
    <3>8. QED
      BY <3>7 DEF Folded
  <2>3. QED
    BY <1>2, <1>4, <2>1, <2>2, SameMirror
<1>5. QED
  BY <1>3, <1>4

LEMMA VerifyMirror ==
  ASSUME TypeInv, SuppressionInv, HandoffInv, faults' = 0, NEW v \in Fps, Verify(v),
         NEW f \in Fps, MirrorOK(f)
  PROVE  MirrorOK(f)'
<1>1. /\ VerifyEffect(v) /\ faults = 0 /\ Running
      /\ UNCHANGED <<phase, tri, seen, member, heir>>
      /\ \A g \in Fps \ {v} : /\ finding'[g] = finding[g] /\ result'[g] = result[g]
                              /\ ver'[g] = ver[g] /\ reg'[g] = reg[g]
  BY VerifyEffects DEF VerifierMoved
<1>2. finding'[f].cand = finding[f].cand => (Folded(f) => Folded(f)')
  BY <1>1 DEF Folded, FoldedInto, Folding, Joining
<1>3. CASE f # v
  <2>1. UNCHANGED <<finding[f], reg[f], ver[f], result[f]>>
    BY <1>1, <1>3
  <2>2. Attaching(f)' = Attaching(f) /\ Bringing(f)' = Bringing(f)
    BY <1>1 DEF Attaching, Bringing
  <2>3. QED
    BY <1>2, <2>1, <2>2, SameMirror
<1>4. CASE f = v
  <2>1. /\ VerifyEffect(f) /\ HandOK /\ EntryOK(f) /\ CopyOK(f) /\ RowOK(f)
        /\ ver[f].tier \in {2, 3}
    BY <1>1, <1>4 DEF HandoffInv, TypeInv, VerOK, Verifiers
  <2>2. Written(f) => finding'[f].cand = finding[f].cand
    <3>1. ASSUME Written(f)
          PROVE  Deleted(f) \/ Signalled(f) \/ LensesAttached(f) \/ SitesAttached(f)
      BY <2>1, <3>1 DEF VerifyEffect, Written, Decided, Orphaned, Refuted, Dismissed, Forgotten,
         LensesDrained, SitesDrained, SurvivorWritten
    <3>2. QED
      BY <2>1, <3>1 DEF Deleted, Signalled, LensesAttached, SitesAttached, SameRow, RowBecomes, RowOK
  <2>3. QED
    BY <1>1, <1>2, <2>1, <2>2, VerifierMirror
<1>5. QED
  BY <1>3, <1>4

LEMMA RunMirror ==
  ASSUME TypeInv, ClaimInv, MirrorInv, faults' = 0, Running',
         StartRun \/ FindersEnd \/ \E c \in Cands : Discover(c)
  PROVE  \A f \in Fps : MirrorOK(f)'
<1>1. CASE StartRun
  <2>1. PICK q \in Seq(Items) : StartWith(q)
    BY <1>1, ReplaysTyped, ReverifiesTyped DEF StartRun, TypeInv
  <2>2. \A f \in Fps : ~Written(f)'
    BY <2>1, EmptyStart
  <2>3. QED
    BY <2>2 DEF MirrorOK
<1>2. CASE FindersEnd \/ \E c \in Cands : Discover(c)
  <2>1. /\ faults = 0 /\ Running
        /\ UNCHANGED <<finding, phase, tri, seen, member, reg, ver, result>>
    BY <1>2, NoFault DEF FindersEnd, Discover, durable, triage, shared, TypeInv
  <2>2. ASSUME NEW f \in Fps
        PROVE  MirrorOK(f)'
    <3>1. MirrorOK(f)
      BY <2>1 DEF MirrorInv
    <3>2. Attaching(f)' = Attaching(f) /\ Bringing(f)' = Bringing(f)
      BY <2>1 DEF Attaching, Bringing
    <3>3. ASSUME phase = "scan", NEW g \in Fps, seen[g] # NoCand
          PROVE  heir'[seen[g]] = heir[seen[g]]
      <4>1. CASE FindersEnd
        BY <4>1 DEF FindersEnd, history
      <4>2. CASE \E c \in Cands : Discover(c)
        <5>1. PICK c \in Cands : Discover(c)
          BY <4>2
        <5>2. c \notin found /\ heir' = [heir EXCEPT ![c] = c] /\ seen[g] \in found /\ seen[g] \in Cands
          BY <3>3, <5>1 DEF Discover, ClaimInv, DistinctOK, TypeInv, TriageOK
        <5>3. QED
          BY <5>2 DEF TypeInv, RunOK
      <4>3. QED
        BY <1>2, <4>1, <4>2
    <3>4. Folded(f) => Folded(f)'
      BY <2>1, <3>3 DEF Folded, FoldedInto, Folding, Joining
    <3>5. QED
      BY <2>1, <3>1, <3>2, <3>4, SameMirror
  <2>3. QED
    BY <2>2
<1>3. QED
  BY <1>1, <1>2

(* A report without a failed statement adds the late attachments to the    *)
(* copies it returns, and their late sites to the rows.                    *)
LEMMA CleanReport ==
  ASSUME TypeInv, Report, faults' = 0, NEW f \in Fps
  PROVE  /\ f \in Returned => /\ result'[f].lenses = result[f].lenses \cup reg[f].attachedLate
                              /\ result'[f].sites = result[f].sites \cup reg[f].lateSites
         /\ f \notin Returned => result'[f] = result[f]
         /\ ~Stored(f) => finding'[f] = finding[f]
         /\ Stored(f) => /\ finding'[f].cand = finding[f].cand
                         /\ finding'[f].lenses = finding[f].lenses
                         /\ finding'[f].sites = finding[f].sites \cup
                              (IF f \in Returned THEN reg[f].lateSites ELSE {})
<1>1. ~Fault
  BY NoFault DEF TypeInv
<1>2. PICK failed \in {{}} \cup {{g} : g \in Returned} :
        /\ IF failed = {} THEN Unfaulted ELSE Fault
        /\ finding' = [g \in Fps |->
             WithSites(g, IF g \in Returned \ failed THEN reg[g].lateSites ELSE {})[g]]
        /\ result' = [g \in Fps |->
             IF g \in Returned
             THEN [lenses |-> result[g].lenses \cup reg[g].attachedLate,
                   sites  |-> result[g].sites \cup
                                (IF g \in Returned \ failed THEN reg[g].lateSites ELSE {})]
             ELSE result[g]]
  BY DEF Report
<1>3. failed = {}
  BY <1>1, <1>2
<1>4. PICK late \in SUBSET Cands : late = IF f \in Returned THEN reg[f].lateSites ELSE {}
  BY DEF TypeInv, VerOK, Entry
<1>5. finding'[f] = WithSites(f, late)[f]
  BY <1>2, <1>3, <1>4
<1>6. /\ ~Stored(f) => WithSites(f, late)[f] = finding[f]
      /\ Stored(f) => /\ WithSites(f, late)[f].cand = finding[f].cand
                      /\ WithSites(f, late)[f].lenses = finding[f].lenses
                      /\ WithSites(f, late)[f].sites = finding[f].sites \cup late
  <2>1. CASE Stored(f)
    BY <2>1, WithSitesRow DEF TypeInv
  <2>2. CASE ~Stored(f)
    BY <2>2 DEF WithSites
  <2>3. QED
    BY <2>1, <2>2
<1>7. /\ f \in Returned => /\ result'[f].lenses = result[f].lenses \cup reg[f].attachedLate
                           /\ result'[f].sites = result[f].sites \cup reg[f].lateSites
      /\ f \notin Returned => result'[f] = result[f]
  BY <1>2, <1>3
<1>8. QED
  BY <1>4, <1>5, <1>6, <1>7

(* With every goroutine joined, nothing is on its way: a returned copy and *)
(* its row differ by the late attachments the report adds.                 *)
LEMMA ReportMirrors ==
  ASSUME TypeInv, HandoffInv, MirrorInv, faults' = 0, Report
  PROVE  ResultMatchesStore'
<1>1. /\ Running /\ faults = 0 /\ tri.pc \in {"idle", "dead"}
      /\ \A f \in Fps : ver[f].pc \in {"none", "done"}
      /\ UNCHANGED <<seen, member, heir>>
  BY NoFault DEF Report, Joined, TypeInv, triage, history
<1>2. ASSUME NEW f \in Fps, f \in Returned', f \notin FoldedThisRun'
      PROVE  result'[f].lenses = finding'[f].lenses /\ result'[f].sites = finding'[f].sites
  <2>1. f \in Returned
    BY <1>2, CleanReport DEF Returned
  <2>2. EntryOK(f) /\ CopyOK(f) /\ RowOK(f) /\ MirrorOK(f)
    BY <1>1 DEF HandoffInv, MirrorInv
  <2>3. Written(f) /\ ver[f].pc = "done" /\ Copied(f)
    BY <1>1, <2>1, <2>2 DEF CopyOK, Returned, Written, Copied
  <2>4. /\ Stored(f) /\ LateOK(f)
        /\ result[f].sites \subseteq finding[f].sites /\ result[f].lenses \subseteq finding[f].lenses
    BY <2>2, <2>3 DEF RowOK, MirrorOK
  <2>5. /\ result'[f].lenses = result[f].lenses \cup reg[f].attachedLate
        /\ result'[f].sites = result[f].sites \cup reg[f].lateSites
    BY <2>1, CleanReport
  <2>6. /\ finding'[f].cand = finding[f].cand /\ finding'[f].lenses = finding[f].lenses
        /\ finding'[f].sites = finding[f].sites \cup reg[f].lateSites
    BY <2>1, <2>4, CleanReport
  <2>7. ~Folded(f)
    <3>1. ASSUME FoldedInto(f)
          PROVE  FALSE
      <4>1. PICK g \in Fps : /\ seen[g] # NoCand /\ seen[g] \notin Joining
                             /\ heir[seen[g]] = finding[f].cand
        BY <3>1 DEF FoldedInto
      <4>2. /\ seen'[g] # NoCand /\ seen'[g] \notin {m.item.cand : m \in member'}
            /\ heir'[seen'[g]] = finding'[f].cand
        BY <1>1, <2>6, <4>1 DEF Joining
      <4>3. f \in FoldedThisRun'
        BY <4>2 DEF FoldedThisRun
      <4>4. QED
        BY <1>2, <4>3
    <3>2. QED
      BY <1>1, <3>1 DEF Folded
  <2>8. /\ KnownOK(f) /\ Attaching(f) = {}
        /\ CopyLenses(f) = result[f].lenses /\ CopySites(f) = result[f].sites
    BY <1>1, <2>2, <2>3, <2>7 DEF MirrorOK, Attaching, CopyLenses, CopySites
  <2>9. /\ reg[f].attachedLate \subseteq finding[f].lenses
        /\ finding[f].lenses \subseteq result[f].lenses \cup reg[f].attachedLate
        /\ finding[f].sites \subseteq result[f].sites \cup reg[f].lateSites
    BY <2>3, <2>4, <2>8 DEF LateOK, KnownOK
  <2>10. QED
    BY <2>4, <2>5, <2>6, <2>9
<1>3. QED
  BY <1>2 DEF ResultMatchesStore, Returned

LEMMA QuietMirror ==
  ASSUME TypeInv, ResultMatchesStore, faults' = 0, UNCHANGED vars \/ \E f \in Fps : Command(f)
  PROVE  ResultMatchesStore'
<1>1. faults = 0 /\ UNCHANGED <<phase, seen, member, heir, result>>
  BY NoFault DEF Command, triage, shared, history, vars, TypeInv
<1>2. ASSUME NEW f \in Fps
      PROVE  /\ finding'[f].cand = finding[f].cand /\ finding'[f].lenses = finding[f].lenses
             /\ finding'[f].sites = finding[f].sites
  <2>1. CASE UNCHANGED vars
    BY <2>1 DEF vars
  <2>2. CASE \E g \in Fps : Command(g)
    <3>1. PICK g \in Fps, status \in {"dismissed", "fixed"} : finding' = WithStatus(g, status)
      BY <2>2 DEF Command
    <3>2. QED
      BY <3>1, WithStatusRow DEF TypeInv
  <2>3. QED
    BY <2>1, <2>2
<1>3. Returned' = Returned /\ FoldedThisRun' = FoldedThisRun
  BY <1>1, <1>2 DEF Returned, FoldedThisRun
<1>4. QED
  BY <1>1, <1>2, <1>3 DEF ResultMatchesStore, Returned

LEMMA MirrorInvStep ==
  TypeInv /\ SuppressionInv /\ ClaimInv /\ SeenOK /\ HandoffInv /\ MirrorInv /\ [Next]_vars
    => MirrorInv'
<1> SUFFICES ASSUME TypeInv, SuppressionInv, ClaimInv, SeenOK, HandoffInv, MirrorInv,
                    [Next]_vars, faults' = 0
             PROVE  MirrorInv'
  BY DEF MirrorInv, ResultMatchesStore
<1>1. CASE StartRun \/ FindersEnd \/ \E c \in Cands : Discover(c)
  <2>1. Running'
    BY <1>1 DEF StartRun, FindersEnd, Discover, Running
  <2>2. QED
    BY <1>1, <2>1, RunMirror DEF MirrorInv, ResultMatchesStore, Running
<1>2. CASE Abort \/ Crash
  BY <1>2 DEF Abort, Crash, MirrorInv, ResultMatchesStore, Running
<1>3. CASE Report
  <2>1. ~Running'
    BY <1>3 DEF Report, Running
  <2>2. QED
    BY <1>3, <2>1, ReportMirrors DEF MirrorInv
<1>4. CASE \E f \in Fps : Command(f)
  <2>1. ~Running'
    BY <1>4 DEF Command, Running
  <2>2. QED
    BY <1>4, <2>1, QuietMirror DEF MirrorInv
<1>5. CASE \E f \in Fps : Verify(f)
  <2>1. faults = 0 /\ Running /\ Running'
    BY <1>5, VerifyEffects DEF Running
  <2>2. \A f \in Fps : MirrorOK(f)'
    BY <1>5, <2>1, VerifyMirror DEF MirrorInv
  <2>3. QED
    BY <2>1, <2>2 DEF MirrorInv, ResultMatchesStore, Running
<1>6. CASE Triage
  <2>1. Running /\ Running' /\ ~TriageFails
    BY <1>6, TriageMoves, NoFault DEF RestTyped, Running, TriageFails, TypeInv
  <2>2. CASE \E it \in {candCh[i] : i \in 1..Len(candCh)} : Takes(it)
    <3>1. PICK it : Takes(it)
      BY <2>2
    <3>2. faults = 0
      BY <3>1, NoFault DEF Takes, TakeUnfit, TakeDuplicate, TakeSuppressed, TakeMember,
         TakeUnclustered, TypeInv
    <3>3. \A f \in Fps : MirrorOK(f)'
      BY <2>1, <3>1, <3>2, TakeMirror DEF MirrorInv
    <3>4. QED
      BY <2>1, <3>3 DEF MirrorInv, ResultMatchesStore, Running
  <2>3. CASE TriageWorks
    <3>1. faults = 0
      BY <2>3, WorkGrows
    <3>2. \A f \in Fps : MirrorOK(f)'
      BY <2>1, <2>3, <3>1, WorkMirror DEF MirrorInv
    <3>3. QED
      BY <2>1, <3>2 DEF MirrorInv, ResultMatchesStore, Running
  <2>4. CASE RegisterPrimary
    <3>1. faults = 0
      BY <2>4, Registers
    <3>2. \A f \in Fps : MirrorOK(f)'
      BY <2>1, <2>4, <3>1, RegisterMirror DEF MirrorInv
    <3>3. QED
      BY <2>1, <3>2 DEF MirrorInv, ResultMatchesStore, Running
  <2>5. QED
    BY <1>6, <2>1, <2>2, <2>3, <2>4 DEF Triage, Takes, TriageWorks
<1>7. CASE UNCHANGED vars
  <2>1. ResultMatchesStore'
    BY <1>7, QuietMirror DEF MirrorInv
  <2>2. ASSUME Running', NEW f \in Fps
        PROVE  MirrorOK(f)'
    <3>1. /\ faults = 0 /\ Running
          /\ UNCHANGED <<finding, phase, tri, seen, member, heir, reg, ver, result>>
      BY <1>7, <2>2 DEF vars, Running
    <3>2. MirrorOK(f)
      BY <3>1 DEF MirrorInv
    <3>3. /\ Attaching(f)' = Attaching(f) /\ Bringing(f)' = Bringing(f)
          /\ Folded(f) => Folded(f)'
      BY <3>1 DEF Attaching, Bringing, Folded, FoldedInto, Folding, Joining
    <3>4. QED
      BY <3>1, <3>2, <3>3, SameMirror
  <2>3. QED
    BY <2>1, <2>2 DEF MirrorInv
<1>8. QED
  BY <1>1, <1>2, <1>3, <1>4, <1>5, <1>6, <1>7 DEF Next

LEMMA MirrorInvHolds == Spec => []MirrorInv
<1>1. Init => MirrorInv
  BY DEF Init, MirrorInv, Running, ResultMatchesStore
<1>2. QED
  BY <1>1, MirrorInvStep, TypeInvHolds, SuppressionInvHolds, ClaimInvHolds, SeenOKHolds,
     HandoffInvHolds, PTL DEF Spec

(* The findings a run returns have the lenses and sites of their rows,     *)
(* however triage and the verifiers interleave, because a late attachment  *)
(* is in the registry before it is in the row, and the report adds what    *)
(* the registry holds (funnel/run_pipeline.go:612-619,                     *)
(* funnel/triage_streaming.go, funnel/verify_stream.go).                   *)
THEOREM ResultsMatchRows == Spec => []ResultMatchesStore
<1>1. MirrorInv => ResultMatchesStore
  BY DEF MirrorInv
<1>2. QED
  BY <1>1, MirrorInvHolds, PTL

-----------------------------------------------------------------------------
(* Corroboration in the first run.                                         *)

FpOf(c)       == <<Locus[c], Kind[c]>>
FreshItem(it) == it.fp = FpOf(it.cand) /\ it.lenses = {}
First         == runs = 1 /\ phase = "scan" /\ faults = 0

(* Before the first run there is nothing to replay and nothing to verify   *)
(* again. During it, and until a statement fails, every item is a          *)
(* finder's, nothing is dismissed or reopened, and a row is written by a   *)
(* verifier of this run before a lens or a site is folded into it.         *)
PristineOK ==
  /\ runs = 0 => /\ phase = "idle" /\ wal = <<>> /\ suppressed = {}
                 /\ \A f \in Fps : finding[f] = NoRow
  /\ runs = 1 => phase # "reverify"
FreshOK ==
  /\ suppressed = {}
  /\ \A f \in Fps : /\ finding[f].status \in {"absent", "open"}
                    /\ ~Written(f) => finding[f] = NoRow
                    /\ ver[f].pc # "none" => FreshItem(ver[f].item)
  /\ \A i \in 1..Len(candCh) : FreshItem(candCh[i])
  /\ Working => FreshItem(tri.item)
  /\ tri.pc \notin {"suppress", "reopen", "dead"}
  /\ tri.pc = "foldSite" => Lens[tri.item.cand] \in finding[tri.target].lenses

(* A candidate in the channel stands for itself, one that left it stands   *)
(* with one that left it, and a primary stands for itself.                 *)
OwnOK ==
  /\ \A c \in Waiting : heir[c] = c
  /\ \A c \in found \ Waiting : heir[c] \in found \ Waiting
  /\ \A f \in Fps : ver[f].pc # "none" => heir[ver[f].item.cand] = ver[f].item.cand

(* The sites and lenses a primary has, wherever they are on their way to   *)
(* its row, and the candidates triage has handed, or is handing, to it.    *)
SitesAt(f) == {ver[f].item.cand} \cup ver[f].sites \cup finding[f].sites
              \cup reg[f].stagedSites \cup reg[f].lateSites
LensesAt(f) == {Lens[ver[f].item.cand]} \cup ver[f].lenses \cup ver[f].late
               \cup finding[f].lenses \cup reg[f].stagedLenses
HasSite(c, p) == reg[p].status = "killed" \/ c \in SitesAt(p)
HasLens(c, p) == reg[p].status = "killed" \/ Lens[c] \in LensesAt(p)
Handing(c, pcs) == tri.pc \in pcs /\ tri.item.cand = c
StandsAt(c, p) ==
  /\ ver[p].pc # "none" /\ ver[p].item.cand = heir[c]
  /\ Handing(c, StagePcs) => tri.target = p
  /\ Handing(c, {"memberDrop", "site"}) \/ HasSite(c, p)
  /\ Handing(c, StagePcs) \/ HasLens(c, p)

(* Every candidate that left the channel is being folded, is shadowed, or  *)
(* stands at a primary.                                                    *)
Shaded(c) ==
  /\ seen[FpOf(c)] \notin {NoCand, c} /\ reg[FpOf(c)].status = "none"
  /\ ~(tri.pc \in FoldPcs /\ tri.item.fp = FpOf(c))
Delivered(c) == Folding(c) \/ Shaded(c) \/ \E p \in Fps : StandsAt(c, p)
DeliveredOK == \A c \in found \ (Unfit \cup Waiting) : Delivered(c)

FirstOK  == First => FreshOK /\ OwnOK /\ DeliveredOK
FirstInv == PristineOK /\ FirstOK /\ CorroborationReachesRow

LEMMA Fingerprints ==
  ASSUME NEW c \in Cands
  PROVE  FpOf(c) \in Fps
BY Constants DEF FpOf

(* A row of the first run is one of its verifiers'.                        *)
LEMMA FreshRow ==
  ASSUME TypeInv, ClaimInv, SeenOK, HandoffInv, FreshOK, First, NEW f \in Fps, Stored(f)
  PROVE  /\ Written(f) /\ ver[f].pc # "none" /\ finding[f].cand = ver[f].item.cand
         /\ ver[f].item.cand \in found \ Waiting
<1>1. Written(f)
  BY DEF FreshOK, Stored, NoRow
<1>2. RowOK(f) /\ ver[f].pc # "none"
  BY <1>1 DEF HandoffInv, First, Running, Written
<1>3. ver[f].item.cand = seen[f] /\ seen[f] # NoCand
  BY <1>2 DEF SeenOK, First, TypeInv, VerOK
<1>4. QED
  BY <1>1, <1>2, <1>3 DEF RowOK, ClaimInv, DistinctOK, First

(* What a primary has, it keeps, unless it is killed.                      *)
Keeps(f) ==
  /\ ver'[f].item = ver[f].item /\ (ver[f].pc # "none" => ver'[f].pc # "none")
  /\ reg[f].status = "killed" => reg'[f].status = "killed"
  /\ reg'[f].status = "killed" \/ (SitesAt(f) \subseteq SitesAt(f)' /\ LensesAt(f) \subseteq LensesAt(f)')

LEMMA KeepsStanding ==
  ASSUME NEW p \in Fps, NEW c \in Cands, Keeps(p), StandsAt(c, p), heir'[c] = heir[c],
         ~Handing(c, StagePcs), ~Handing(c, StagePcs)'
  PROVE  StandsAt(c, p)'
<1>1. HasSite(c, p) /\ HasLens(c, p)
  BY DEF StandsAt, Handing, StagePcs
<1>2. HasSite(c, p)' /\ HasLens(c, p)'
  BY <1>1 DEF HasSite, HasLens, Keeps
<1>3. QED
  BY <1>2 DEF StandsAt, Keeps

LEMMA SameKeeps ==
  ASSUME NEW p \in Fps, UNCHANGED <<finding[p], reg[p], ver[p]>>
  PROVE  Keeps(p)
BY DEF Keeps, SitesAt, LensesAt

LEMMA GrownKeeps ==
  ASSUME NEW p \in Fps, RowGrows(p), EntryGrows(p), UNCHANGED ver
  PROVE  Keeps(p)
BY DEF Keeps, SitesAt, LensesAt, RowGrows, EntryGrows

LEMMA VerifierKeeps ==
  ASSUME NEW f \in Fps, VerifyEffect(f), ~Dismissed(f), VerifierMoved(f),
         EntryOK(f), CopyOK(f), RowOK(f), ver[f].tier \in {2, 3},
         ~Written(f) => finding[f] = NoRow, finding[f].status \in {"absent", "open"}
  PROVE  /\ Keeps(f)
         /\ ~Written(f)' => finding'[f] = NoRow
         /\ finding'[f].status \in {"absent", "open"}
         /\ Written(f) => finding[f].lenses \subseteq finding'[f].lenses
<1>1. ver'[f].pc # "none" /\ ver'[f].item = ver[f].item
  BY DEF VerifierMoved
<1>2. NoRow.sites = {} /\ NoRow.lenses = {}
  BY DEF NoRow
<1>3. CASE Decided(f)
  <2>1. /\ ver[f].pc = "panel" /\ finding'[f] = finding[f] /\ reg'[f] = reg[f]
        /\ ver'[f].lenses = ver[f].lenses /\ ver'[f].late = ver[f].late
        /\ ver'[f].sites = ver[f].sites
    BY <1>3 DEF Decided, Turns, Moves, SameRow, SameEntry
  <2>2. ~Written(f) /\ Keeps(f)
    BY <1>1, <2>1 DEF Written, Keeps, SitesAt, LensesAt
  <2>3. QED
    BY <2>1, <2>2
<1>4. CASE Orphaned(f)
  <2>1. /\ ver[f].pc = "orphan" /\ ver'[f].pc = "delete" /\ reg'[f] = reg[f]
        /\ finding'[f].status = "open" /\ finding'[f].sites = {ver[f].item.cand}
        /\ ver'[f].lenses = ver[f].lenses /\ ver'[f].late = ver[f].late
        /\ ver'[f].sites = ver[f].sites
    BY <1>4 DEF Orphaned, Moves, RowWritten, SameEntry
  <2>2. ~Written(f) /\ Written(f)'
    BY <2>1 DEF Written
  <2>3. Keeps(f)
    BY <1>1, <1>2, <2>1, <2>2 DEF Keeps, SitesAt, LensesAt
  <2>4. QED
    BY <2>1, <2>2, <2>3
<1>5. CASE Refuted(f) \/ Forgotten(f)
  <2>1. /\ ver[f].pc \in {"kill", "forget"} /\ finding'[f] = finding[f] /\ reg'[f].status = "killed"
    BY <1>5 DEF Refuted, Forgotten, SameRow, SameEntry, Holds, EntryOK
  <2>2. ~Written(f) /\ Keeps(f)
    BY <1>1, <2>1 DEF Written, Keeps
  <2>3. QED
    BY <2>1, <2>2
<1>6. CASE LensesDrained(f) \/ SitesDrained(f)
  <2>1. /\ ver[f].pc \in {"lenses", "sites"} /\ finding'[f] = finding[f]
        /\ ver'[f].late = ver[f].late /\ reg'[f].status = reg[f].status
        /\ reg'[f].lateSites = reg[f].lateSites
    BY <1>6 DEF LensesDrained, SitesDrained, SameRow, Moves, Holds
  <2>2. ~Written(f)
    BY <2>1 DEF Written
  <2>3. Keeps(f)
    <3>1. CASE LensesDrained(f)
      <4>1. /\ ver[f].lenses = {} /\ reg[f].stagedLenses \subseteq ver'[f].lenses
            /\ ver'[f].sites = ver[f].sites /\ reg'[f].stagedSites = reg[f].stagedSites
        BY <3>1 DEF LensesDrained, Moves, Holds, CopyOK
      <4>2. QED
        BY <1>1, <2>1, <4>1 DEF Keeps, SitesAt, LensesAt
    <3>2. CASE SitesDrained(f)
      <4>1. /\ ver[f].sites = {} /\ reg[f].stagedSites \subseteq ver'[f].sites
            /\ ver'[f].lenses = ver[f].lenses /\ reg'[f].stagedLenses = reg[f].stagedLenses
        BY <3>2 DEF SitesDrained, Moves, Holds, CopyOK
      <4>2. QED
        BY <1>1, <2>1, <4>1 DEF Keeps, SitesAt, LensesAt
    <3>3. QED
      BY <1>6, <3>1, <3>2
  <2>4. QED
    BY <2>1, <2>2, <2>3
<1>7. CASE SurvivorWritten(f)
  <2>1. /\ ver[f].pc = "upsert" /\ ver'[f].pc = "delete" /\ reg'[f] = reg[f]
        /\ finding'[f].status = "open"
        /\ ver'[f].lenses = ver[f].lenses /\ ver'[f].late = ver[f].late
        /\ ver'[f].sites = ver[f].sites
    BY <1>7 DEF SurvivorWritten, Turns, Moves, RowWritten, SameEntry
  <2>2. ~Written(f) /\ Written(f)'
    BY <2>1 DEF Written
  <2>3. Keeps(f)
    BY <1>1, <1>2, <2>1, <2>2 DEF Keeps, SitesAt, LensesAt
  <2>4. QED
    BY <2>1, <2>2, <2>3
<1>8. CASE Deleted(f)
  <2>1. /\ ver'[f].pc = "signal" /\ finding'[f] = finding[f] /\ reg'[f] = reg[f]
        /\ ver'[f].lenses = ver[f].lenses /\ ver'[f].late = ver[f].late
        /\ ver'[f].sites = ver[f].sites
    BY <1>8 DEF Deleted, Turns, Moves, SameRow, SameEntry
  <2>2. Written(f)' /\ Keeps(f)
    BY <1>1, <2>1 DEF Written, Keeps, SitesAt, LensesAt
  <2>3. QED
    BY <2>1, <2>2
<1>9. CASE Signalled(f)
  <2>1. /\ ver'[f].pc = "lateLenses" /\ finding'[f] = finding[f] /\ ver[f].late = {}
        /\ ver[f].lenses \subseteq ver'[f].lenses /\ ver'[f].sites = ver[f].sites
        /\ ver'[f].late = reg[f].stagedLenses /\ reg[f].status # "killed"
        /\ reg'[f].lateSites = reg[f].lateSites \cup reg[f].stagedSites
    BY <1>9 DEF Signalled, Moves, SameRow, Holds, CopyOK, EntryOK, LivePcs
  <2>2. Written(f)' /\ Keeps(f)
    BY <1>1, <2>1 DEF Written, Keeps, SitesAt, LensesAt
  <2>3. QED
    BY <2>1, <2>2
<1>10. CASE LensesAttached(f) \/ SitesAttached(f)
  <2>1. /\ ver[f].pc \in {"lateLenses", "lateSites"} /\ Written(f)
        /\ ver'[f].pc \in {"lateSites", "done"} /\ reg'[f].status = "persisted"
        /\ reg[f].status = "persisted"
        /\ ver'[f].lenses = ver[f].lenses /\ ver'[f].late = ver[f].late
        /\ ver'[f].sites = ver[f].sites
        /\ reg'[f].stagedLenses = reg[f].stagedLenses /\ reg'[f].stagedSites = reg[f].stagedSites
    BY <1>10 DEF LensesAttached, SitesAttached, Turns, Moves, Written, SameEntry, Holds, EntryOK
  <2>2. Stored(f) /\ Written(f)'
    BY <2>1 DEF RowOK, Written
  <2>3. /\ finding'[f].status = finding[f].status
        /\ finding[f].lenses \subseteq finding'[f].lenses /\ finding[f].sites \subseteq finding'[f].sites
        /\ reg[f].lateSites \subseteq reg'[f].lateSites \cup finding'[f].sites
    BY <1>10, <2>2 DEF LensesAttached, SitesAttached, RowBecomes, SameEntry
  <2>4. Keeps(f)
    BY <1>1, <2>1, <2>3 DEF Keeps, SitesAt, LensesAt
  <2>5. QED
    BY <2>2, <2>3, <2>4
<1>11. QED
  BY <1>3, <1>4, <1>5, <1>6, <1>7, <1>8, <1>9, <1>10 DEF VerifyEffect

LEMMA VerifyFirst ==
  ASSUME TypeInv, SuppressionInv, ClaimInv, SeenOK, HandoffInv, FirstOK, faults' = 0,
         First', NEW v \in Fps, Verify(v)
  PROVE  FirstOK'
<1>1. /\ VerifyEffect(v) /\ faults = 0 /\ VerifierMoved(v) /\ Running
      /\ Dismissed(v) \/ UNCHANGED suppressed
      /\ UNCHANGED <<found, phase, candCh, tri, seen, member, heir, runs>>
      /\ \A g \in Fps \ {v} : finding'[g] = finding[g]
  BY VerifyEffects
<1>2. First /\ FreshOK /\ OwnOK /\ DeliveredOK
  BY <1>1 DEF First, FirstOK
<1>3. /\ EntryOK(v) /\ CopyOK(v) /\ RowOK(v) /\ ver[v].tier \in {2, 3} /\ ver[v].pc # "none"
      /\ ver'[v].item = ver[v].item /\ ver'[v].pc # "none" /\ reg[v].status # "none"
      /\ reg'[v].status # "none"
      /\ \A g \in Fps \ {v} : ver'[g] = ver[g] /\ reg'[g] = reg[g]
  BY <1>1 DEF VerifierMoved, HandoffInv, TypeInv, VerOK, Verifiers
<1>4. ~Dismissed(v)
  BY <1>2, <1>3, ScanItems DEF First, Dismissed
<1>5. /\ \A g \in Fps : Keeps(g)
      /\ \A g \in Fps : ~Written(g)' => finding'[g] = NoRow
      /\ \A g \in Fps : finding'[g].status \in {"absent", "open"}
      /\ \A g \in Fps : Written(g) => finding[g].lenses \subseteq finding'[g].lenses
  <2>1. ASSUME NEW g \in Fps \ {v}
        PROVE  /\ Keeps(g) /\ (~Written(g)' => finding'[g] = NoRow)
               /\ finding'[g].status \in {"absent", "open"}
               /\ finding[g].lenses \subseteq finding'[g].lenses
    BY <1>1, <1>2, <1>3, SameKeeps DEF FreshOK, Written
  <2>2. /\ Keeps(v) /\ (~Written(v)' => finding'[v] = NoRow)
        /\ finding'[v].status \in {"absent", "open"}
        /\ Written(v) => finding[v].lenses \subseteq finding'[v].lenses
    BY <1>1, <1>2, <1>3, <1>4, VerifierKeeps DEF FreshOK
  <2>3. QED
    BY <2>1, <2>2
<1>6. FreshOK'
  <2>1. ASSUME tri.pc = "foldSite"
        PROVE  Lens[tri.item.cand] \in finding'[tri.target].lenses
    <3>1. tri.target \in Fps /\ Stored(tri.target)
      BY <2>1 DEF TypeInv, TriageOK, FoldTargetOK, TargetPcs
    <3>2. Written(tri.target)
      BY <1>2, <3>1, FreshRow
    <3>3. QED
      BY <1>2, <1>5, <2>1, <3>1, <3>2 DEF FreshOK
  <2>2. \A g \in Fps : ver'[g].pc # "none" => FreshItem(ver'[g].item)
    BY <1>2, <1>3 DEF FreshOK
  <2>3. suppressed' = {}
    BY <1>1, <1>2, <1>4 DEF FreshOK
  <2>4. Working' = Working
    BY <1>1 DEF Working
  <2>5. QED
    BY <1>1, <1>2, <1>5, <2>1, <2>2, <2>3, <2>4 DEF FreshOK, FreshItem, FpOf
<1>7. OwnOK'
  BY <1>1, <1>2, <1>3 DEF OwnOK, Waiting
<1>8. ASSUME NEW c \in found \ (Unfit \cup Waiting)
      PROVE  Delivered(c)'
  <2>1. Delivered(c)
    BY <1>2, <1>8 DEF DeliveredOK
  <2>2. Folding(c) => Folding(c)'
    BY <1>1 DEF Folding
  <2>3. Shaded(c) => Shaded(c)'
    <3>1. c \in Cands /\ FpOf(c) \in Fps
      BY Fingerprints DEF TypeInv, RunOK
    <3>2. reg[FpOf(c)].status = "none" => reg'[FpOf(c)] = reg[FpOf(c)]
      BY <1>3, <3>1
    <3>3. QED
      BY <1>1, <3>2 DEF Shaded, FpOf
  <2>4. ASSUME NEW p \in Fps, StandsAt(c, p)
        PROVE  StandsAt(c, p)'
    BY <1>1, <1>3, <1>5, <2>4 DEF StandsAt, Handing, HasSite, HasLens, Keeps
  <2>5. QED
    BY <2>1, <2>2, <2>3, <2>4 DEF Delivered
<1>9. DeliveredOK'
  BY <1>1, <1>8 DEF DeliveredOK, Waiting
<1>10. QED
  BY <1>6, <1>7, <1>9 DEF FirstOK

(* Triage takes a candidate: it is dropped as unfit, handed to the primary *)
(* of its twin or to a cluster's, shadowed by a twin without a cluster, or *)
(* folded. Those taken before it stand as they stood.                      *)
LEMMA TakeDelivers ==
  ASSUME TypeInv, SuppressionInv, ClaimInv, SeenOK, HandoffInv, First, FreshOK, OwnOK, DeliveredOK,
         NEW it, Takes(it), NEW c \in found \ (Unfit \cup Waiting'), NEW d \in Cands, d = it.cand
  PROVE  Delivered(c)'
<1>1. /\ it \in Items /\ it.fp \in Fps /\ tri.pc = "idle" /\ tri'.item = it
      /\ d \in Waiting /\ d \in found /\ Waiting' = Waiting \ {d}
      /\ \E i \in 1..Len(candCh) : it = candCh[i]
      /\ UNCHANGED <<finding, suppressed, found, reg, ver>>
      /\ \/ TakesOff(it) \/ TakesTwin(it) \/ TakesAlone(it)
         \/ \E cl \in Clusters : TakesInto(it, cl)
  BY TakeEffect DEF First
<1>2. it.fp = FpOf(d) /\ suppressed = {} /\ c \in Cands
  BY <1>1 DEF FreshOK, FreshItem, TypeInv, RunOK
<1>3. CASE c # d
  <2>1. c \notin Waiting /\ Delivered(c) /\ heir[c] \notin Waiting
    BY <1>1, <1>3 DEF DeliveredOK, OwnOK
  <2>2. heir'[c] = heir[c]
    <3>1. heir[c] # d
      BY <1>1, <2>1
    <3>2. QED
      BY <1>1, <1>2, <1>3, <3>1 DEF TakesOff, TakesTwin, TakesAlone, TakesInto, Merges
  <2>3. ~Folding(c)
    BY <1>1 DEF Folding, FoldPcs
  <2>4. Shaded(c) => Shaded(c)'
    <3>1. ASSUME Shaded(c)
          PROVE  Shaded(c)'
      <4>1. FpOf(c) \in Fps /\ seen[FpOf(c)] \notin {NoCand, c}
        BY <1>2, <3>1, Fingerprints DEF Shaded
      <4>2. seen'[FpOf(c)] = seen[FpOf(c)]
        BY <1>1, <4>1 DEF TakesOff, TakesTwin, TakesAlone, TakesInto, Sees, TypeInv, TriageOK
      <4>3. tri'.pc \in FoldPcs => it.fp # FpOf(c)
        BY <1>1, <4>1 DEF TakesOff, TakesTwin, TakesAlone, TakesInto, Sees, FoldPcs
      <4>4. reg'[FpOf(c)].status = "none"
        BY <1>1, <3>1 DEF Shaded
      <4>5. FpOf(c)' = FpOf(c)
        BY DEF FpOf
      <4>6. QED
        BY <1>1, <4>1, <4>2, <4>3, <4>4, <4>5 DEF Shaded
    <3>2. QED
      BY <3>1
  <2>5. ASSUME NEW p \in Fps, StandsAt(c, p)
        PROVE  StandsAt(c, p)'
    <3>1. ~Handing(c, StagePcs) /\ ~Handing(c, StagePcs)'
      BY <1>1, <1>3 DEF Handing, StagePcs
    <3>2. QED
      BY <1>1, <1>2, <2>2, <2>5, <3>1, SameKeeps, KeepsStanding
  <2>6. QED
    BY <2>1, <2>3, <2>4, <2>5 DEF Delivered
<1>4. CASE c = d
  <2>1. ~TakesOff(it)
    BY <1>2, <1>4 DEF TakesOff
  <2>2. ASSUME NEW p \in Fps, tri'.pc \in {"memberDrop", "site"}, tri'.target = p,
               ver[p].pc # "none", ver[p].item.cand = heir'[c]
        PROVE  Delivered(c)'
    <3>1. Handing(c, StagePcs)' /\ Handing(c, {"memberDrop", "site"})'
      BY <1>1, <1>4, <2>2 DEF Handing, StagePcs
    <3>2. StandsAt(c, p)'
      BY <1>1, <2>2, <3>1 DEF StandsAt
    <3>3. QED
      BY <3>2 DEF Delivered
  <2>3. CASE TakesTwin(it)
    <3>1. PICK p \in Fps, s \in Cands : p = it.fp /\ s = seen[p]
      BY <1>1, <2>3 DEF TakesTwin, TypeInv, TriageOK
    <3>2. s \notin Waiting /\ s # c /\ UNCHANGED seen /\ tri'.pc = "site" /\ tri'.target = p
      BY <1>1, <1>4, <2>3, <3>1, Constants DEF TakesTwin, ClaimInv, DistinctOK, First
    <3>3. CASE reg[p].status = "none"
      <4>1. FpOf(c) = p /\ FpOf(c)' = p
        BY <1>2, <1>4, <3>1 DEF FpOf
      <4>2. Shaded(c)'
        BY <1>1, <3>1, <3>2, <3>3, <4>1, Constants DEF Shaded, FoldPcs
      <4>3. QED
        BY <4>2 DEF Delivered
    <3>4. CASE reg[p].status # "none"
      <4>1. ver[p].pc # "none" /\ ver[p].item.cand = s /\ heir[s] = s
        BY <3>1, <3>4 DEF TypeInv, VerOK, SeenOK, First, OwnOK
      <4>2. heir'[c] = s
        BY <1>2, <1>4, <2>3, <3>1, <4>1 DEF TakesTwin, Merges, StandsWith
      <4>3. QED
        BY <2>2, <3>2, <4>1, <4>2
    <3>5. QED
      BY <3>3, <3>4
  <2>4. CASE \E cl \in Clusters : TakesInto(it, cl)
    <3>1. PICK cl \in Clusters : TakesInto(it, cl)
      BY <2>4
    <3>2. cl \in Fps /\ ver[cl].pc # "none"
      BY DEF Clusters, HandoffInv, HandOK, First, Running, TypeInv, TriageOK
    <3>3. seen[cl] = ver[cl].item.cand
      BY <3>2 DEF SeenOK, First
    <3>4. heir'[c] = seen[cl] /\ tri'.pc = "memberDrop" /\ tri'.target = cl
      BY <1>2, <1>4, <3>1 DEF TakesInto, Merges
    <3>5. QED
      BY <2>2, <3>2, <3>3, <3>4
  <2>5. CASE TakesAlone(it)
    BY <1>1, <1>4, <2>5 DEF TakesAlone, Delivered, Folding, FoldPcs
  <2>6. QED
    BY <1>1, <2>1, <2>3, <2>4, <2>5
<1>5. QED
  BY <1>3, <1>4

LEMMA TakeOwn ==
  ASSUME TypeInv, SuppressionInv, ClaimInv, SeenOK, HandoffInv, First, FreshOK, OwnOK,
         NEW it, Takes(it)
  PROVE  OwnOK'
<1>1. PICK d \in Cands : d = it.cand
  BY TakeEffect DEF First
<1>2. /\ it.fp \in Fps /\ d \in Waiting /\ d \in found /\ Waiting' = Waiting \ {d}
      /\ UNCHANGED <<found, ver>>
      /\ \/ TakesOff(it) \/ TakesTwin(it) \/ TakesAlone(it)
         \/ \E cl \in Clusters : TakesInto(it, cl)
  BY <1>1, TakeEffect DEF First
<1>3. ASSUME NEW c \in Cands, c # d, heir[c] # d
      PROVE  heir'[c] = heir[c]
  BY <1>1, <1>2, <1>3 DEF TakesOff, TakesTwin, TakesAlone, TakesInto, Merges
<1>4. found \subseteq Cands /\ Waiting \subseteq found /\ found' = found
      /\ \A f \in Fps : ver[f].pc # "none" => ver[f].item.cand \in found \ Waiting
  BY <1>2 DEF TypeInv, RunOK, ClaimInv, DistinctOK, SeenOK, First, VerOK
<1>5. heir'[d] \in found \ Waiting'
  <2>1. CASE TakesOff(it) \/ TakesAlone(it)
    BY <1>2, <2>1 DEF TakesOff, TakesAlone, OwnOK
  <2>2. CASE TakesTwin(it)
    <3>1. PICK s \in Cands : s = seen[it.fp]
      BY <1>2, <2>2 DEF TakesTwin, TypeInv, TriageOK
    <3>2. s \in found \ Waiting
      BY <1>2, <3>1, Constants DEF ClaimInv, DistinctOK, First
    <3>3. heir'[d] = StandsWith(s)
      BY <1>1, <2>2, <3>1 DEF TakesTwin, Merges
    <3>4. StandsWith(s) \in found \ Waiting
      BY <3>2 DEF StandsWith, OwnOK
    <3>5. QED
      BY <1>2, <3>3, <3>4
  <2>3. CASE \E cl \in Clusters : TakesInto(it, cl)
    <3>1. PICK cl \in Clusters : TakesInto(it, cl)
      BY <2>3
    <3>2. cl \in Fps /\ seen[cl] # NoCand
      BY DEF Clusters, TypeInv, TriageOK
    <3>3. heir'[d] = seen[cl] /\ seen[cl] \in found \ Waiting
      BY <1>1, <3>1, <3>2 DEF TakesInto, Merges, ClaimInv, DistinctOK, First
    <3>4. QED
      BY <1>2, <3>3
  <2>4. QED
    BY <1>2, <2>1, <2>2, <2>3
<1>6. \A c \in Waiting' : heir'[c] = c
  BY <1>2, <1>3, <1>4 DEF OwnOK
<1>7. ASSUME NEW c \in found \ Waiting'
      PROVE  heir'[c] \in found \ Waiting'
  <2>1. CASE c = d
    BY <1>5, <2>1
  <2>2. CASE c # d
    <3>1. c \notin Waiting /\ heir[c] \in found \ Waiting
      BY <1>2, <1>7, <2>2 DEF OwnOK
    <3>2. heir'[c] = heir[c]
      BY <1>2, <1>3, <1>4, <2>2, <3>1
    <3>3. QED
      BY <1>2, <3>1, <3>2
  <2>3. QED
    BY <2>1, <2>2
<1>8. ASSUME NEW f \in Fps, ver[f].pc # "none"
      PROVE  heir'[ver[f].item.cand] = ver[f].item.cand
  <2>1. PICK c \in found \ Waiting : c = ver[f].item.cand /\ heir[c] = c
    BY <1>4, <1>8 DEF OwnOK
  <2>2. QED
    BY <1>2, <1>3, <1>4, <2>1
<1>9. QED
  BY <1>2, <1>6, <1>7, <1>8 DEF OwnOK

LEMMA TakeFirst ==
  ASSUME TypeInv, SuppressionInv, ClaimInv, SeenOK, HandoffInv, First, FreshOK, OwnOK, DeliveredOK,
         NEW it, Takes(it)
  PROVE  FreshOK' /\ OwnOK' /\ DeliveredOK'
<1>1. PICK d \in Cands : d = it.cand
  BY TakeEffect DEF First
<1>2. /\ tri'.item = it /\ \E i \in 1..Len(candCh) : it = candCh[i]
      /\ \A i \in 1..Len(candCh') : \E j \in 1..Len(candCh) : candCh'[i] = candCh[j]
      /\ UNCHANGED <<finding, suppressed, found, reg, ver>>
      /\ tri'.pc \in {"drop", "site", "memberDrop", "fold"}
  BY TakeEffect DEF First, TakesOff, TakesTwin, TakesAlone, TakesInto
<1>3. FreshOK'
  <2>1. \A f \in Fps : Written(f)' = Written(f)
    BY <1>2 DEF Written
  <2>2. FreshItem(it) /\ \A i \in 1..Len(candCh') : FreshItem(candCh'[i])
    BY <1>2 DEF FreshOK
  <2>3. QED
    BY <1>2, <2>1, <2>2 DEF FreshOK, FreshItem, FpOf
<1>4. DeliveredOK'
  BY <1>1, <1>2, TakeDelivers DEF DeliveredOK
<1>5. QED
  BY <1>3, <1>4, TakeOwn

(* Triage works on an item: what becomes of the item,                      *)
LEMMA WorkTriage ==
  ASSUME TypeInv, First, FreshOK, faults' = 0, TriageWorks, NEW d \in Cands, d = tri.item.cand
  PROVE  /\ \/ tri'.pc = "idle"
            \/ tri'.item.cand = d /\ FreshItem(tri'.item)
         /\ \/ /\ MemberDrop /\ tri.pc = "memberDrop" /\ tri'.pc = "site"
               /\ tri'.target = tri.target
            \/ /\ StageSite /\ tri.pc = "site" /\ tri'.pc \in {"siteStore", "lens"}
               /\ tri'.target = tri.target
            \/ StoreSite /\ tri.pc = "siteStore" /\ tri'.pc = "lens" /\ tri'.target = tri.target
            \/ /\ StageLens /\ tri.pc = "lens" /\ tri'.pc \in {"lensStore", "drop"}
               /\ tri'.target = tri.target
            \/ StoreLens /\ tri.pc = "lensStore" /\ tri'.pc = "drop"
            \/ DropPending /\ tri.pc = "drop" /\ tri'.pc = "idle"
            \/ Fold /\ tri.pc = "fold" /\ tri'.pc = "foldLens"
            \/ FoldLens /\ tri.pc = "foldLens" /\ tri'.pc = "foldSite" /\ tri'.target = tri.target
            \/ FoldSite /\ tri.pc = "foldSite" /\ tri'.pc = "drop"
<1>1. tri \in Triages /\ Working /\ FreshItem(tri.item) /\ tri.item \in Items
  BY WorkGrows DEF TypeInv, TriageOK, FreshOK
<1>2. CASE MemberDrop
  <2> DEFINE item == [tri.item EXCEPT !.row = FALSE]
  <2>1. item.cand = tri.item.cand /\ item.fp = tri.item.fp /\ item.lenses = tri.item.lenses
    BY <1>1 DEF Items
  <2>2. /\ tri.pc = "memberDrop" /\ tri'.pc = "site" /\ tri'.target = tri.target
        /\ tri'.item = item
    BY <1>1, <1>2 DEF MemberDrop, At, Triages
  <2> HIDE DEF item
  <2>3. QED
    BY <1>1, <1>2, <2>1, <2>2 DEF FreshItem, FpOf
<1>3. CASE DropPending
  BY <1>3 DEF DropPending, At, IdleTriage
<1>4. CASE Fold
  <2>0. PICK f \in FoldRows :
          tri' = [tri EXCEPT !.pc = FoldStep(finding[f].status), !.target = f]
    BY <1>4, Zenon DEF Fold
  <2>1. f \in Fps /\ Stored(f)
    BY DEF FoldRows, Stored
  <2>2. FoldStep(finding[f].status) = "foldLens"
    <3>1. finding[f].status = "open"
      BY <2>1 DEF FreshOK, Stored
    <3>2. QED
      BY <3>1 DEF FoldStep
  <2>3. tri.pc = "fold"
    BY <1>4 DEF Fold, At
  <2>4. QED
    BY <1>1, <1>4, <2>0, <2>2, <2>3 DEF Triages, FreshItem
<1>5. ASSUME NEW pc, Step(pc)
      PROVE  tri'.pc = pc /\ tri'.item = tri.item /\ tri'.target = tri.target
  BY <1>1, <1>5 DEF Step, Triages
<1>6. CASE StageSite \/ StoreSite
  <2>1. PICK pc \in {"siteStore", "lens"} : Step(pc) /\ (StoreSite => pc = "lens")
    BY <1>6 DEF StageSite, StoreSite, At
  <2>2. QED
    BY <1>1, <1>5, <1>6, <2>1 DEF StageSite, StoreSite, At, FreshItem
<1>7. CASE StageLens \/ StoreLens
  <2>1. PICK pc \in {"lensStore", "drop"} : Step(pc) /\ (StoreLens => pc = "drop")
    BY <1>7 DEF StageLens, StoreLens, At
  <2>2. QED
    BY <1>1, <1>5, <1>7, <2>1 DEF StageLens, StoreLens, At, FreshItem
<1>8. CASE FoldLens \/ FoldSite
  <2>1. PICK pc \in {"foldSite", "drop"} : /\ Step(pc)
                                           /\ FoldLens \/ FoldSite
                                           /\ pc = IF FoldLens THEN "foldSite" ELSE "drop"
    BY <1>8 DEF FoldLens, FoldSite
  <2>2. QED
    BY <1>1, <1>5, <2>1 DEF FoldLens, FoldSite, At, FreshItem
<1>9. ~SuppressCandidate /\ ~ReopenFixed
  BY DEF SuppressCandidate, ReopenFixed, At, FreshOK
<1>10. QED
  BY <1>2, <1>3, <1>4, <1>6, <1>7, <1>8, <1>9 DEF TriageWorks

(* and of the rows, the entries and the heirs.                             *)
LEMMA WorkStores ==
  ASSUME TypeInv, First, FreshOK, faults' = 0, TriageWorks, NEW d \in Cands, d = tri.item.cand,
         NEW p, p = tri.target
  PROVE  /\ ~FoldSite => UNCHANGED heir
         /\ UNCHANGED suppressed /\ \A f \in Fps : finding'[f].status = finding[f].status
         /\ FoldSite => /\ heir' = [heir EXCEPT ![d] = finding[p].cand]
                        /\ p \in Fps /\ (Stored(p) => d \in finding'[p].sites)
         /\ StoreSite \/ StageSite \/ StageLens \/ StoreLens \/ FoldLens => p \in Fps
         /\ StoreLens \/ FoldLens => (Stored(p) => Lens[d] \in finding'[p].lenses)
         /\ StageSite => reg' = [reg EXCEPT ![p] = AddStagedSite(reg[p], d)]
         /\ StageLens => \/ Lens[d] = Lens[seen[p]]
                         \/ /\ reg' = [reg EXCEPT ![p] = AddStagedLens(reg[p], Lens[d])]
                            /\ tri'.pc = IF CallerWrites(reg[p]) THEN "lensStore" ELSE "drop"
<1>0. ~Fault /\ StoreOK /\ tri \in Triages
  BY WorkGrows, NoFault DEF TypeInv, TriageOK
<1>1. Lens[d] \in Lenses /\ (tri.pc \in TargetPcs => p \in Fps)
  BY WorkGrows, WorkItem
<1>2. /\ ~FoldSite => UNCHANGED heir
      /\ UNCHANGED suppressed
  <2>1. CASE Fold
    BY <2>1 DEF Fold, durable
  <2>2. CASE MemberDrop \/ DropPending
    BY <2>2 DEF MemberDrop, DropPending
  <2>3. CASE StageSite \/ StoreSite \/ StageLens \/ StoreLens \/ FoldLens \/ FoldSite
    BY <2>3 DEF StageSite, StoreSite, StageLens, StoreLens, FoldLens, FoldSite, durable
  <2>4. QED
    BY <2>1, <2>2, <2>3, WorkTriage
<1>3. CASE MemberDrop \/ DropPending
  <2>1. UNCHANGED finding /\ tri.pc \in {"memberDrop", "drop"}
    BY <1>3 DEF MemberDrop, DropPending, At
  <2>2. QED
    BY <1>2, <2>1 DEF FoldSite, StoreSite, StageSite, StageLens, StoreLens, FoldLens, At
<1>4. CASE Fold
  <2>1. UNCHANGED finding /\ tri.pc = "fold"
    BY <1>4 DEF Fold, At, durable
  <2>2. QED
    BY <1>2, <2>1 DEF FoldSite, StoreSite, StageSite, StageLens, StoreLens, FoldLens, At
<1>5. CASE StageSite \/ StageLens
  <2>1. /\ UNCHANGED finding /\ tri.pc \in {"site", "lens"} /\ p \in Fps
        /\ StageSite => tri.pc = "site" /\ reg' = [reg EXCEPT ![p] = AddStagedSite(reg[p], d)]
        /\ StageLens => tri.pc = "lens"
    BY <1>1, <1>5 DEF StageSite, StageLens, At, durable, TargetPcs, StagePcs
  <2>2. StageLens => \/ Lens[d] = Lens[seen[p]]
                     \/ /\ reg' = [reg EXCEPT ![p] = AddStagedLens(reg[p], Lens[d])]
                        /\ tri'.pc = IF CallerWrites(reg[p]) THEN "lensStore" ELSE "drop"
    BY <1>0 DEF StageLens, SameLens, Step, Triages
  <2>3. QED
    BY <1>2, <2>1, <2>2 DEF FoldSite, StoreSite, StoreLens, FoldLens, At
<1>6. CASE StoreSite \/ FoldSite
  <2>1. /\ tri.pc \in {"siteStore", "foldSite"} /\ p \in Fps /\ finding' = WithSites(p, {d})
        /\ FoldSite => heir' = [heir EXCEPT ![d] = finding[p].cand]
    BY <1>0, <1>1, <1>6 DEF StoreSite, FoldSite, At, TargetPcs, StagePcs
  <2>2. {d} \in SUBSET Cands
    OBVIOUS
  <2>3. \A f \in Fps : WithSites(p, {d})[f].status = finding[f].status
    BY <1>0, <2>1, <2>2, WithSitesTable
  <2>4. Stored(p) => WithSites(p, {d})[p].sites = finding[p].sites \cup {d}
    BY <1>0, <2>1, <2>2, WithSitesRow
  <2>5. QED
    BY <1>2, <2>1, <2>3, <2>4 DEF StageSite, StageLens, StoreLens, FoldLens, At
<1>7. CASE StoreLens \/ FoldLens
  <2>1. tri.pc \in {"lensStore", "foldLens"} /\ p \in Fps /\ finding' = WithLenses(p, {Lens[d]})
    BY <1>0, <1>1, <1>7 DEF StoreLens, FoldLens, At, TargetPcs, StagePcs
  <2>2. {Lens[d]} \in SUBSET Lenses
    BY <1>1
  <2>3. \A f \in Fps : WithLenses(p, {Lens[d]})[f].status = finding[f].status
    BY <1>0, <2>1, <2>2, WithLensesTable
  <2>4. Stored(p) => WithLenses(p, {Lens[d]})[p].lenses = finding[p].lenses \cup {Lens[d]}
    BY <1>0, <2>1, <2>2, WithLensesRow
  <2>5. QED
    BY <1>2, <2>1, <2>3, <2>4 DEF StageSite, StageLens, StoreSite, FoldSite, At
<1>8. QED
  BY <1>3, <1>4, <1>5, <1>6, <1>7, WorkTriage

LEMMA WorkOwn ==
  ASSUME TypeInv, SuppressionInv, ClaimInv, SeenOK, HandoffInv, First, FreshOK, OwnOK,
         faults' = 0, TriageWorks
  PROVE  OwnOK'
<1>1. /\ Working /\ UNCHANGED <<found, candCh, ver>>
  BY WorkGrows
<1>2. PICK d \in Cands, p \in {tri.target} : d = tri.item.cand /\ p = tri.target
  BY <1>1, WorkItem
<1>3. /\ Waiting' = Waiting /\ d \in found \ Waiting /\ heir \in [Cands -> Cands]
      /\ found \subseteq Cands
  BY <1>1, <1>2 DEF Waiting, ClaimInv, DistinctOK, First, TypeInv, RunOK
<1>4. CASE ~FoldSite
  <2>1. UNCHANGED heir
    BY <1>2, <1>4, WorkStores
  <2>2. QED
    BY <1>1, <1>3, <2>1 DEF OwnOK
<1>5. CASE FoldSite
  <2>1. /\ heir' = [heir EXCEPT ![d] = finding[p].cand] /\ p \in Fps /\ tri.pc = "foldSite"
    BY <1>2, <1>5, WorkStores DEF FoldSite, At
  <2>2. Stored(p)
    BY <1>2, <2>1 DEF TypeInv, FoldTargetOK
  <2>3. finding[p].cand \in found \ Waiting
    BY <2>1, <2>2, FreshRow
  <2>4. \A f \in Fps : ver[f].pc # "none" => ver[f].item.cand # d
    <3>1. tri.item.fp = FpOf(d) /\ ver[tri.item.fp].pc = "none"
      BY <1>1, <1>2, <2>1 DEF FreshOK, FreshItem, SuppressionInv, FoldingOK, FoldPcs
    <3>2. \A f \in Fps : ver[f].pc # "none" => f = FpOf(ver[f].item.cand)
      BY DEF FreshOK, FreshItem, TypeInv, VerOK
    <3>3. QED
      BY <3>1, <3>2
  <2>5. heir'[d] \in found \ Waiting /\ \A c \in Cands \ {d} : heir'[c] = heir[c]
    BY <1>3, <2>1, <2>3
  <2>6. \A c \in Waiting : heir'[c] = c
    BY <1>3, <2>5 DEF OwnOK, ClaimInv, DistinctOK, First
  <2>7. \A c \in found \ Waiting : heir'[c] \in found \ Waiting
    BY <1>3, <2>5 DEF OwnOK
  <2>8. ASSUME NEW f \in Fps, ver[f].pc # "none"
        PROVE  heir'[ver[f].item.cand] = ver[f].item.cand
    <3>1. PICK c \in Cands \ {d} : c = ver[f].item.cand /\ heir[c] = c
      BY <2>4, <2>8 DEF OwnOK, TypeInv, VerOK, Items
    <3>2. QED
      BY <2>5, <3>1
  <2>9. QED
    BY <1>1, <1>3, <2>6, <2>7, <2>8 DEF OwnOK
<1>6. QED
  BY <1>4, <1>5

LEMMA WorkFresh ==
  ASSUME TypeInv, SuppressionInv, ClaimInv, SeenOK, HandoffInv, First, FreshOK,
         faults' = 0, TriageWorks
  PROVE  FreshOK'
<1>1. /\ Working /\ UNCHANGED <<candCh, ver, result>>
      /\ \A f \in Fps : RowGrows(f) /\ EntryGrows(f)
  BY WorkGrows
<1>2. PICK d \in Cands, p \in {tri.target} : d = tri.item.cand /\ p = tri.target
  BY <1>1, WorkItem
<1>3. UNCHANGED suppressed /\ \A f \in Fps : finding'[f].status = finding[f].status
  BY <1>2, WorkStores
<1>4. ASSUME NEW f \in Fps, ~Written(f)'
      PROVE  finding'[f] = NoRow
  <2>1. finding[f] = NoRow
    BY <1>1, <1>4 DEF FreshOK, Written, EntryGrows
  <2>2. ~Stored(f)
    BY <2>1 DEF Stored, NoRow
  <2>3. QED
    BY <1>1, <2>1, <2>2 DEF RowGrows
<1>5. Working' => FreshItem(tri'.item)
  BY <1>2, WorkTriage DEF Working
<1>6. tri'.pc \notin {"suppress", "reopen", "dead"}
  BY <1>2, WorkTriage
<1>7. ASSUME tri'.pc = "foldSite"
      PROVE  Lens[tri'.item.cand] \in finding'[tri'.target].lenses
  <2>1. FoldLens /\ tri.pc = "foldLens" /\ tri'.item.cand = d /\ tri'.target = p
    BY <1>2, <1>7, WorkTriage
  <2>2. p \in Fps /\ (Stored(p) => Lens[d] \in finding'[p].lenses)
    BY <1>2, <2>1, WorkStores
  <2>3. Stored(p)
    BY <1>2, <2>1 DEF TypeInv, FoldTargetOK
  <2>4. QED
    BY <2>1, <2>2, <2>3
<1>8. QED
  BY <1>1, <1>3, <1>4, <1>5, <1>6, <1>7 DEF FreshOK, FreshItem, FpOf

(* The candidate in hand reaches its primary step by step: the registry    *)
(* takes its site and then its lens, or triage writes them to the row of a *)
(* primary that is persisted already; a fold ends at the row's primary.    *)
LEMMA WorkDelivers ==
  ASSUME TypeInv, SuppressionInv, ClaimInv, SeenOK, HandoffInv, First, FreshOK, OwnOK,
         faults' = 0, TriageWorks, NEW c \in found \ Waiting, Delivered(c)
  PROVE  Delivered(c)'
<1>1. /\ Working /\ UNCHANGED <<found, candCh, seen, ver, result>>
      /\ \A f \in Fps : RowGrows(f) /\ EntryGrows(f)
  BY WorkGrows
<1>2. PICK d \in Cands, t \in {tri.target} : d = tri.item.cand /\ t = tri.target
  BY <1>1, WorkItem
<1>3. tri'.pc = "idle" \/ tri'.item.cand = d
  BY <1>2, WorkTriage
<1>4. c \in Cands /\ heir \in [Cands -> Cands]
  BY DEF TypeInv, RunOK
<1>5. \A p \in Fps : Keeps(p)
  BY <1>1, GrownKeeps
<1>6. Shaded(c) => Shaded(c)'
  <2>1. ASSUME Shaded(c)
        PROVE  Shaded(c)'
    <3>1. FpOf(c) \in Fps /\ FpOf(c)' = FpOf(c)
      BY <1>4, Fingerprints DEF FpOf
    <3>2. reg'[FpOf(c)].status = "none"
      BY <1>1, <2>1, <3>1 DEF Shaded, EntryGrows
    <3>3. ASSUME tri'.pc \in FoldPcs
          PROVE  tri.pc \in FoldPcs /\ tri'.item.fp = tri.item.fp
      <4>1. tri.pc \in FoldPcs /\ tri'.item.cand = tri.item.cand
        BY <3>3, WorkFoldPcs
      <4>2. FreshItem(tri.item) /\ FreshItem(tri'.item)
        BY <1>1, <1>2, <3>3, WorkTriage DEF FreshOK, FoldPcs
      <4>3. QED
        BY <4>1, <4>2 DEF FreshItem
    <3>4. QED
      BY <1>1, <2>1, <3>1, <3>2, <3>3 DEF Shaded
  <2>2. QED
    BY <2>1
<1>7. CASE c # d
  <2>1. heir'[c] = heir[c]
    <3>1. FoldSite => heir' = [heir EXCEPT ![d] = finding[t].cand]
      BY <1>2, WorkStores
    <3>2. ~FoldSite => UNCHANGED heir
      BY <1>2, WorkStores
    <3>3. QED
      BY <1>4, <1>7, <3>1, <3>2
  <2>2. ~Folding(c) /\ ~Handing(c, StagePcs) /\ ~Handing(c, StagePcs)'
    BY <1>2, <1>3, <1>7 DEF Folding, Handing, StagePcs
  <2>3. ASSUME NEW p \in Fps, StandsAt(c, p)
        PROVE  StandsAt(c, p)'
    BY <1>4, <1>5, <2>1, <2>2, <2>3, KeepsStanding
  <2>4. QED
    BY <1>6, <2>2, <2>3 DEF Delivered
<1>8. CASE c = d /\ tri.pc \in FoldPcs
  <2>1. \/ tri'.pc \in {"foldLens", "foldSite"}
        \/ FoldSite /\ tri'.pc = "drop"
    <3>1. tri.pc \notin {"memberDrop", "site", "siteStore", "lens", "lensStore", "drop"}
      BY <1>8 DEF FoldPcs
    <3>2. QED
      BY <1>2, <3>1, WorkTriage
  <2>2. CASE tri'.pc \in {"foldLens", "foldSite"}
    BY <1>3, <1>8, <2>2 DEF Delivered, Folding, FoldPcs
  <2>3. CASE FoldSite /\ tri'.pc = "drop"
    <3>1. /\ t \in Fps /\ heir' = [heir EXCEPT ![d] = finding[t].cand] /\ tri.pc = "foldSite"
          /\ Stored(t) => d \in finding'[t].sites
      BY <1>2, <2>3, WorkStores DEF FoldSite, At
    <3>2. Stored(t) /\ Lens[d] \in finding[t].lenses
      BY <1>2, <3>1 DEF TypeInv, FoldTargetOK, FreshOK
    <3>3. ver[t].pc # "none" /\ finding[t].cand = ver[t].item.cand
      BY <3>1, <3>2, FreshRow
    <3>4. Lens[d] \in finding'[t].lenses
      BY <1>1, <3>1, <3>2 DEF RowGrows
    <3>5. HasSite(c, t)' /\ HasLens(c, t)'
      BY <1>8, <3>1, <3>2, <3>4 DEF HasSite, HasLens, SitesAt, LensesAt
    <3>6. StandsAt(c, t)'
      BY <1>1, <1>4, <1>8, <2>3, <3>1, <3>3, <3>5 DEF StandsAt, Handing, StagePcs
    <3>7. QED
      BY <3>1, <3>6 DEF Delivered
  <2>4. QED
    BY <2>1, <2>2, <2>3
<1>9. CASE c = d /\ tri.pc \notin FoldPcs /\ ~Shaded(c)
  <2>1. PICK p \in Fps : StandsAt(c, p)
    BY <1>9 DEF Delivered, Folding
  <2>2. UNCHANGED heir /\ ver[p].pc # "none" /\ ver[p].item.cand = heir[c]
    BY <1>2, <1>9, <2>1, WorkStores DEF StandsAt, FoldSite, At, FoldPcs
  <2>3. /\ tri.pc \in StagePcs => t = p
        /\ tri.pc \in {"memberDrop", "site"} \/ HasSite(c, p)
        /\ tri.pc \in StagePcs \/ HasLens(c, p)
    BY <1>2, <1>9, <2>1 DEF StandsAt, Handing
  <2>4. (HasSite(c, p) => HasSite(c, p)') /\ (HasLens(c, p) => HasLens(c, p)')
    BY <1>5 DEF Keeps, HasSite, HasLens
  <2>5. /\ EntryOK(p) /\ RowOK(p) /\ HandOK /\ reg \in [Fps -> Entry(Lenses, Cands)]
        /\ reg[p].status \in {"live", "persisted", "killed"}
        /\ ver[p].pc \in VerifyPcs
    BY <2>2 DEF HandoffInv, First, Running, TypeInv, VerOK, Entry, EntryStatus, Verifiers
  <2>6. CASE MemberDrop \/ StoreSite \/ DropPending
    <3>1. tri.pc \in {"memberDrop", "siteStore", "drop"}
      BY <2>6 DEF MemberDrop, StoreSite, DropPending, At
    <3>2. \/ tri.pc = "memberDrop" /\ tri'.pc = "site" /\ tri'.target = t
          \/ tri.pc = "siteStore" /\ tri'.pc = "lens" /\ tri'.target = t
          \/ tri.pc = "drop" /\ tri'.pc = "idle"
      BY <1>2, <3>1, WorkTriage
    <3>3. StandsAt(c, p)'
      BY <1>1, <1>3, <1>9, <2>2, <2>3, <2>4, <3>2 DEF StandsAt, Handing, StagePcs
    <3>4. QED
      BY <3>3 DEF Delivered
  <2>7. CASE StageSite
    <3>1. /\ tri.pc = "site" /\ tri'.pc \in {"siteStore", "lens"} /\ tri'.target = p /\ t = p
          /\ reg' = [reg EXCEPT ![p] = AddStagedSite(reg[p], d)]
      <4>1. tri.pc = "site" /\ t = p
        BY <2>3, <2>7 DEF StageSite, At, StagePcs
      <4>2. QED
        BY <1>2, <2>7, <4>1, WorkStores, WorkTriage
    <3>2. HasSite(c, p)'
      <4>1. Holds(reg'[p], reg[p].status, reg[p].stagedLenses, reg[p].attachedLate,
                IF reg[p].status = "live" THEN reg[p].stagedSites \cup {d} ELSE reg[p].stagedSites,
                IF reg[p].status = "persisted" THEN reg[p].lateSites \cup {d} ELSE reg[p].lateSites)
        BY <2>5, <3>1, StagedContents
      <4>2. QED
        BY <1>9, <2>5, <4>1 DEF Holds, HasSite, SitesAt
    <3>3. StandsAt(c, p)'
      BY <1>1, <1>3, <1>9, <2>2, <3>1, <3>2 DEF StandsAt, Handing, StagePcs
    <3>4. QED
      BY <3>3 DEF Delivered
  <2>8. CASE StageLens
    <3>1. /\ tri.pc = "lens" /\ tri'.pc \in {"lensStore", "drop"} /\ tri'.target = p /\ t = p
          /\ \/ Lens[d] = Lens[seen[p]]
             \/ /\ reg' = [reg EXCEPT ![p] = AddStagedLens(reg[p], Lens[d])]
                /\ tri'.pc = IF CallerWrites(reg[p]) THEN "lensStore" ELSE "drop"
      <4>1. tri.pc = "lens" /\ t = p
        BY <2>3, <2>8 DEF StageLens, At, StagePcs
      <4>2. QED
        BY <1>2, <2>8, <4>1, WorkStores, WorkTriage
    <3>2. HasSite(c, p)'
      BY <2>3, <2>4, <3>1
    <3>3. tri'.pc = "lensStore" \/ HasLens(c, p)'
      <4>1. CASE Lens[d] = Lens[seen[p]]
        <5>1. seen[p] = ver[p].item.cand
          BY <2>2 DEF SeenOK, First
        <5>2. QED
          BY <1>1, <1>9, <4>1, <5>1 DEF HasLens, LensesAt
      <4>2. CASE /\ reg' = [reg EXCEPT ![p] = AddStagedLens(reg[p], Lens[d])]
                 /\ tri'.pc = IF CallerWrites(reg[p]) THEN "lensStore" ELSE "drop"
        <5>1. Holds(reg'[p], reg[p].status,
                IF reg[p].status = "live" THEN reg[p].stagedLenses \cup {Lens[d]}
                                          ELSE reg[p].stagedLenses,
                IF reg[p].status = "persisted" THEN reg[p].attachedLate \cup {Lens[d]}
                                               ELSE reg[p].attachedLate,
                reg[p].stagedSites, reg[p].lateSites)
          BY <2>5, <4>2, StagedContents
        <5>2. QED
          BY <1>9, <2>5, <4>2, <5>1 DEF Holds, HasLens, LensesAt, CallerWrites
      <4>3. QED
        BY <3>1, <4>1, <4>2
    <3>4. StandsAt(c, p)'
      BY <1>1, <1>3, <1>9, <2>2, <3>1, <3>2, <3>3 DEF StandsAt, Handing, StagePcs
    <3>5. QED
      BY <3>4 DEF Delivered
  <2>9. CASE StoreLens
    <3>1. tri.pc = "lensStore" /\ t = p /\ tri'.pc = "drop"
      <4>1. tri.pc = "lensStore" /\ t = p
        BY <2>3, <2>9 DEF StoreLens, At, StagePcs
      <4>2. QED
        BY <1>2, <4>1, WorkTriage
    <3>2. reg[p].status = "persisted" /\ Written(p)
      BY <1>2, <2>5, <3>1, <2>2 DEF HandOK, EntryOK, LivePcs, Written, VerifyPcs
    <3>3. Lens[d] \in finding'[p].lenses
      BY <1>2, <2>5, <2>9, <3>1, <3>2, WorkStores DEF RowOK
    <3>4. HasSite(c, p)' /\ HasLens(c, p)'
      BY <1>9, <2>3, <2>4, <3>1, <3>3 DEF HasLens, LensesAt
    <3>5. StandsAt(c, p)'
      BY <1>1, <1>3, <1>9, <2>2, <3>1, <3>4 DEF StandsAt, Handing, StagePcs
    <3>6. QED
      BY <3>5 DEF Delivered
  <2>10. QED
    BY <1>2, <1>9, <2>6, <2>7, <2>8, <2>9, WorkTriage DEF FoldPcs
<1>10. QED
  BY <1>6, <1>7, <1>8, <1>9 DEF Delivered

(* A candidate triage registers is a primary of its own from then on.      *)
LEMMA RegisterFirst ==
  ASSUME TypeInv, SuppressionInv, ClaimInv, SeenOK, HandoffInv, First, FreshOK, OwnOK, DeliveredOK,
         RegisterPrimary
  PROVE  FreshOK' /\ OwnOK' /\ DeliveredOK'
<1>1. PICK p \in Fps, d \in Cands : p = tri.item.fp /\ d = tri.item.cand
  BY Registers
<1>2. /\ tri.pc = "fold" /\ tri'.pc = "idle" /\ ver[p].pc = "none" /\ reg[p].status = "none"
      /\ Holds(reg'[p], "live", {}, {}, {}, {})
      /\ ver'[p].pc = "panel" /\ ver'[p].item = tri.item /\ ver'[p].item.cand = d
      /\ \A g \in Fps \ {p} : reg'[g] = reg[g] /\ ver'[g] = ver[g]
      /\ UNCHANGED <<finding, suppressed, found, candCh, seen>>
  BY <1>1, Registers
<1>3. FreshItem(tri.item) /\ p = FpOf(d) /\ d \in found \ Waiting /\ ~tri.item.reverify
  BY <1>1, <1>2, ScanItems DEF FreshOK, Working, FreshItem, ClaimInv, DistinctOK, First
<1>4. \A c \in Cands : heir'[c] = IF c = d THEN d ELSE heir[c]
  BY <1>1, <1>3 DEF RegisterPrimary, Inherit
<1>5. Waiting' = Waiting /\ found \subseteq Cands /\ Waiting \subseteq found
  BY <1>2 DEF Waiting, TypeInv, RunOK, ClaimInv, DistinctOK, First
<1>6. FreshOK'
  <2>1. ~Written(p) /\ ~Written(p)' /\ \A g \in Fps \ {p} : Written(g)' = Written(g)
    BY <1>2 DEF Written
  <2>2. \A g \in Fps : /\ finding'[g].status \in {"absent", "open"}
                       /\ ~Written(g)' => finding'[g] = NoRow
                       /\ ver'[g].pc # "none" => FreshItem(ver'[g].item)
    BY <1>2, <1>3, <2>1 DEF FreshOK
  <2>3. QED
    BY <1>2, <2>2 DEF FreshOK, FreshItem, FpOf, Working
<1>7. OwnOK'
  <2>1. \A f \in Fps : ver'[f].pc # "none" => heir'[ver'[f].item.cand] = ver'[f].item.cand
    <3>1. ASSUME NEW f \in Fps \ {p}, ver[f].pc # "none"
          PROVE  heir'[ver[f].item.cand] = ver[f].item.cand
      BY <1>4, <3>1 DEF OwnOK, TypeInv, VerOK, Items
    <3>2. heir'[d] = d
      BY <1>4
    <3>3. QED
      BY <1>2, <3>1, <3>2
  <2>2. QED
    BY <1>2, <1>3, <1>4, <1>5, <2>1 DEF OwnOK
<1>8. ASSUME NEW c \in found \ (Unfit \cup Waiting)
      PROVE  Delivered(c)'
  <2>1. c \in Cands
    BY <1>5
  <2>2. CASE c = d
    <3>1. HasSite(c, p)' /\ HasLens(c, p)'
      BY <1>2, <2>2 DEF HasSite, HasLens, SitesAt, LensesAt
    <3>2. StandsAt(c, p)'
      BY <1>2, <1>4, <2>2, <3>1 DEF StandsAt, Handing, StagePcs
    <3>3. QED
      BY <3>2 DEF Delivered
  <2>3. CASE c # d
    <3>1. Delivered(c) /\ ~Folding(c) /\ heir'[c] = heir[c]
      BY <1>1, <1>4, <1>8, <2>1, <2>3 DEF DeliveredOK, Folding
    <3>2. ASSUME Shaded(c)
          PROVE  Shaded(c)'
      <4>1. FpOf(c) \in Fps \ {p} /\ FpOf(c)' = FpOf(c)
        BY <1>1, <1>2, <2>1, <3>2, Fingerprints DEF Shaded, FoldPcs, FpOf
      <4>2. QED
        BY <1>2, <3>2, <4>1 DEF Shaded, FoldPcs
    <3>3. ASSUME NEW q \in Fps, StandsAt(c, q)
          PROVE  StandsAt(c, q)'
      <4>1. q # p
        BY <1>2, <3>3 DEF StandsAt
      <4>2. Keeps(q)
        BY <1>2, <4>1, SameKeeps
      <4>3. ~Handing(c, StagePcs) /\ ~Handing(c, StagePcs)'
        BY <1>2 DEF Handing, StagePcs
      <4>4. QED
        BY <2>1, <3>1, <3>3, <4>2, <4>3, KeepsStanding
    <3>4. QED
      BY <3>1, <3>2, <3>3 DEF Delivered
  <2>4. QED
    BY <2>2, <2>3
<1>9. QED
  BY <1>2, <1>5, <1>6, <1>7, <1>8 DEF DeliveredOK

LEMMA SameDelivered ==
  ASSUME NEW c \in Cands, UNCHANGED <<finding, tri, seen, reg, ver>>, heir'[c] = heir[c], Delivered(c)
  PROVE  Delivered(c)'
<1>1. ASSUME NEW p \in Fps, StandsAt(c, p)
      PROVE  StandsAt(c, p)'
  BY <1>1 DEF StandsAt, Handing, HasSite, HasLens, SitesAt, LensesAt
<1>2. QED
  BY <1>1 DEF Delivered, Folding, Shaded, FpOf

LEMMA SameFresh ==
  ASSUME FreshOK, UNCHANGED <<finding, suppressed, tri, reg, ver>>,
         \A i \in 1..Len(candCh') : FreshItem(candCh'[i])
  PROVE  FreshOK'
<1>1. \A f \in Fps : Written(f)' = Written(f)
  BY DEF Written
<1>2. QED
  BY <1>1 DEF FreshOK, FreshItem, FpOf, Working

(* The first run starts with nothing.                                      *)
LEMMA StartFirst ==
  ASSUME TypeInv, PristineOK, StartRun, runs = 0
  PROVE  /\ phase' = "scan"
         /\ First' => FreshOK' /\ OwnOK' /\ DeliveredOK'
<1>1. wal = <<>> /\ suppressed = {} /\ \A f \in Fps : finding[f] = NoRow /\ ~Stored(f)
  <2>1. NoRow.status = "absent"
    BY DEF NoRow
  <2>2. wal = <<>> /\ suppressed = {} /\ \A f \in Fps : finding[f] = NoRow
    BY DEF PristineOK
  <2>3. QED
    BY <2>1, <2>2 DEF Stored
<1>2. \A q \in Reverifies : q = <<>>
  <2>1. ASSUME NEW q \in Reverifies, q # <<>>
        PROVE  FALSE
    <3>1. /\ q \in Seq(Items)
          /\ \A i \in 1..Len(q) : \E f \in Fps : Stored(f) /\ q[i] = Reverified(f)
      BY ReverifiesTyped DEF TypeInv
    <3>2. Len(q) >= 1 /\ Len(q) \in Nat
      BY <2>1, <3>1, SeqFacts
    <3>3. 1 \in 1..Len(q)
      BY <3>2
    <3>4. QED
      BY <1>1, <3>1, <3>3
  <2>2. QED
    BY <2>1
<1>3. PICK q \in Replays : StartWith(q) /\ phase' = "scan"
  BY <1>2 DEF StartRun
<1>4. Len(q) = 0 /\ q \in Seq(Items)
  BY <1>1, <1>3, ReplaysTyped DEF TypeInv
<1>5. /\ candCh' = q /\ found' = ToSet(wal) /\ UNCHANGED <<finding, suppressed>>
      /\ tri'.pc = "idle" /\ \A f \in Fps : ver'[f].pc = "none"
  BY <1>3, <1>4, FreshStart DEF StartRun, StartWith, durable
<1>6. found' = {} /\ Waiting' = {}
  BY <1>1, <1>4, <1>5 DEF Waiting, ToSet
<1>7. FreshOK'
  <2>1. NoRow.status = "absent" /\ 1..Len(candCh') = {}
    BY <1>4, <1>5 DEF NoRow
  <2>2. QED
    BY <1>1, <1>5, <2>1 DEF FreshOK, Working
<1>8. OwnOK' /\ DeliveredOK'
  BY <1>5, <1>6 DEF OwnOK, DeliveredOK
<1>9. QED
  BY <1>3, <1>7, <1>8

(* A finder's candidate waits for triage.                                  *)
LEMMA DiscoverFirst ==
  ASSUME TypeInv, SuppressionInv, ClaimInv, First, FreshOK, OwnOK, DeliveredOK, faults' = 0,
         NEW c \in Cands, Discover(c)
  PROVE  FreshOK' /\ OwnOK' /\ DeliveredOK'
<1>1. PICK row \in BOOLEAN : Emit(Fresh(c, row))
  BY DEF Discover
<1>2. /\ c \notin found /\ found' = found \cup {c} /\ heir' = [heir EXCEPT ![c] = c]
      /\ UNCHANGED <<finding, suppressed, tri, seen, reg, ver>>
  BY DEF Discover, shared
<1>3. candCh' = Append(candCh, Fresh(c, row))
  BY <1>1 DEF Emit, FreshOK
<1>4. FreshItem(Fresh(c, row)) /\ Fresh(c, row).cand = c /\ Fresh(c, row) \in Items
  BY NewItems DEF Fresh, Item, FreshItem, FpOf
<1>5. /\ Len(candCh') = Len(candCh) + 1 /\ candCh'[Len(candCh) + 1] = Fresh(c, row)
      /\ \A i \in 1..Len(candCh) : candCh'[i] = candCh[i]
  BY <1>3, <1>4, AppendFacts DEF TypeInv, TriageOK
<1>6. Len(candCh) \in Nat /\ 1..Len(candCh') = 1..Len(candCh) \cup {Len(candCh) + 1}
  BY <1>5, LenProperties DEF TypeInv, TriageOK
<1>7. Waiting' = Waiting \cup {c} /\ Waiting \subseteq found /\ found \subseteq Cands
  BY <1>4, <1>5, <1>6 DEF Waiting, ClaimInv, DistinctOK, First, TypeInv, RunOK
<1>8. \A d \in found : d # c /\ heir'[d] = heir[d]
  BY <1>2, <1>7 DEF TypeInv, RunOK
<1>9. FreshOK'
  <2>1. \A i \in 1..Len(candCh') : FreshItem(candCh'[i])
    BY <1>4, <1>5, <1>6 DEF FreshOK
  <2>2. QED
    BY <1>2, <2>1, SameFresh
<1>10. OwnOK'
  <2>1. heir'[c] = c
    BY <1>2 DEF TypeInv, RunOK
  <2>2. \A f \in Fps : ver[f].pc # "none" => ver[f].item.cand \in found
    BY DEF ClaimInv, DistinctOK, First
  <2>3. found' \ Waiting' = found \ Waiting
    BY <1>2, <1>7
  <2>4. QED
    BY <1>2, <1>7, <1>8, <2>1, <2>2, <2>3 DEF OwnOK
<1>11. ASSUME NEW d \in found \ (Unfit \cup Waiting)
       PROVE  Delivered(d)'
  <2>1. d \in Cands /\ heir'[d] = heir[d] /\ Delivered(d)
    BY <1>7, <1>8, <1>11 DEF DeliveredOK
  <2>2. QED
    BY <1>2, <2>1, SameDelivered
<1>12. QED
  BY <1>2, <1>7, <1>9, <1>10, <1>11 DEF DeliveredOK

LEMMA QuietFirst ==
  ASSUME TypeInv, FreshOK, OwnOK, DeliveredOK, FindersEnd \/ UNCHANGED vars
  PROVE  FreshOK' /\ OwnOK' /\ DeliveredOK'
<1>1. UNCHANGED <<finding, suppressed, found, candCh, tri, seen, reg, ver, heir>>
  BY DEF FindersEnd, durable, triage, shared, history, vars
<1>2. FreshOK'
  BY <1>1, SameFresh DEF FreshOK
<1>3. Waiting' = Waiting
  BY <1>1 DEF Waiting
<1>4. QED
  BY <1>1, <1>2, <1>3, SameDelivered DEF OwnOK, DeliveredOK, TypeInv, RunOK

LEMMA PristineStep == TypeInv /\ PristineOK /\ [Next]_vars => PristineOK'
<1> SUFFICES ASSUME TypeInv, PristineOK, [Next]_vars
             PROVE  PristineOK'
  OBVIOUS
<1>1. CASE StartRun
  <2>1. runs \in Nat /\ runs' = runs + 1
    BY <1>1, Bounds DEF StartRun, TypeInv, RunOK
  <2>2. QED
    BY <1>1, <2>1, StartFirst DEF PristineOK
<1>2. ASSUME UNCHANGED <<runs, phase>>, Running
      PROVE  PristineOK'
  BY <1>2 DEF PristineOK, Running
<1>3. CASE FindersEnd \/ \E c \in Cands : Discover(c)
  BY <1>2, <1>3 DEF FindersEnd, Discover, bounds
<1>4. CASE Report \/ Abort \/ Crash
  <2>1. runs' = runs /\ Running /\ phase' \in {"reported", "aborted", "idle"}
    BY <1>4 DEF Report, Abort, Crash, Joined, bounds
  <2>2. QED
    BY <2>1 DEF PristineOK, Running
<1>5. CASE \E f \in Fps : Verify(f)
  <2>1. UNCHANGED <<runs, phase>> /\ Running
    BY <1>5, VerifyMoves DEF RestTyped
  <2>2. QED
    BY <1>2, <2>1
<1>6. CASE \E f \in Fps : Command(f)
  <2>1. PICK f \in Fps : Command(f)
    BY <1>6
  <2>2. Stored(f) /\ UNCHANGED <<runs, phase>>
    BY <2>1 DEF Command
  <2>3. runs # 0
    BY <2>2 DEF PristineOK, Stored, NoRow
  <2>4. QED
    BY <2>2, <2>3 DEF PristineOK
<1>7. CASE Triage
  <2>1. UNCHANGED <<runs, phase>> /\ Running
    BY <1>7, TriageMoves DEF RestTyped
  <2>2. QED
    BY <1>2, <2>1
<1>8. CASE UNCHANGED vars
  BY <1>8 DEF vars, PristineOK
<1>9. QED
  BY <1>1, <1>3, <1>4, <1>5, <1>6, <1>7, <1>8 DEF Next

(* With every goroutine joined, what a primary has is in its row, or the   *)
(* report puts it there; so a candidate that stands at a primary is in the *)
(* primary's row, the only one of its candidate.                           *)
LEMMA StandingReported ==
  ASSUME TypeInv, SuppressionInv, ClaimInv, SeenOK, HandoffInv, First, FreshOK, faults' = 0, Report,
         NEW c \in Cands, NEW p \in Fps, StandsAt(c, p),
         NEW f \in Fps, finding'[f].cand = heir[c]
  PROVE  c \in finding'[f].sites /\ Lens[c] \in finding'[f].lenses \cup {Lens[heir[c]]}
<1>1. Running /\ tri.pc \in {"idle", "dead"} /\ \A g \in Fps : ver[g].pc \in {"none", "done"}
  BY DEF Report, Joined
<1>2. Stored(f)
  <2>1. ASSUME ~Stored(f)
        PROVE  FALSE
    <3>1. ~Written(f)
      BY <1>1, <2>1 DEF First, HandoffInv, RowOK
    <3>2. finding'[f] = finding[f] /\ finding[f] = NoRow
      BY <2>1, <3>1, CleanReport DEF FreshOK
    <3>3. NoRow.cand = NoCand /\ heir[c] \in Cands
      BY DEF NoRow, TypeInv, RunOK
    <3>4. QED
      BY <3>2, <3>3, Constants
  <2>2. QED
    BY <2>1
<1>3. Written(f) /\ ver[f].pc # "none" /\ finding[f].cand = ver[f].item.cand
  BY <1>2, FreshRow
<1>4. ver[f].item.cand = heir[c] /\ ver[p].item.cand = heir[c] /\ ver[p].pc # "none"
  BY <1>2, <1>3, CleanReport DEF StandsAt
<1>5. f = p
  <2>1. \A g \in Fps : ver[g].pc # "none" => g = FpOf(ver[g].item.cand)
    BY DEF FreshOK, FreshItem, TypeInv, VerOK
  <2>2. QED
    BY <1>3, <1>4, <2>1
<1>6. /\ EntryOK(f) /\ CopyOK(f) /\ RowOK(f) /\ ver[f].pc = "done" /\ reg[f].status = "persisted"
  BY <1>1, <1>3 DEF First, HandoffInv, Written
<1>7. c \in SitesAt(f) /\ Lens[c] \in LensesAt(f)
  BY <1>1, <1>5, <1>6 DEF StandsAt, Handing, StagePcs, HasSite, HasLens
<1>8. /\ reg[f].stagedSites = {} /\ reg[f].stagedLenses = {}
      /\ ver[f].item.cand \in finding[f].sites /\ ver[f].sites \subseteq finding[f].sites
      /\ ver[f].lenses \cup ver[f].late \subseteq finding[f].lenses
      /\ ver[f].item.cand \in result[f].sites
  BY <1>3, <1>6 DEF EntryOK, RowOK, Copied
<1>9. f \in Returned
  BY <1>8 DEF Returned
<1>10. finding'[f].sites = finding[f].sites \cup reg[f].lateSites /\ finding'[f].lenses = finding[f].lenses
  BY <1>2, <1>9, CleanReport
<1>11. QED
  BY <1>4, <1>7, <1>8, <1>10 DEF SitesAt, LensesAt

LEMMA ReportFirst ==
  ASSUME TypeInv, SuppressionInv, ClaimInv, SeenOK, HandoffInv, PristineOK, FirstOK, faults' = 0,
         Report
  PROVE  CorroborationReachesRow'
<1> SUFFICES ASSUME runs' = 1, NEW c \in found' \ Unfit
             PROVE  (Shadowed(c) \/ Reported(c))'
  BY DEF CorroborationReachesRow, CleanFirstRun
<1>1. /\ Running /\ runs = 1 /\ faults = 0 /\ candCh = <<>> /\ tri.pc \in {"idle", "dead"}
      /\ UNCHANGED <<found, seen, reg, heir>>
  BY NoFault DEF Report, Joined, TypeInv, bounds, triage, history
<1>2. First /\ FreshOK /\ DeliveredOK
  BY <1>1 DEF PristineOK, FirstOK, First, Running
<1>3. Waiting = {}
  <2>1. Len(candCh) = 0
    BY <1>1
  <2>2. QED
    BY <2>1 DEF Waiting
<1>4. c \in Cands /\ Delivered(c) /\ ~Folding(c)
  BY <1>1, <1>2, <1>3 DEF DeliveredOK, Folding, FoldPcs, TypeInv, RunOK
<1>5. ASSUME Shaded(c)
      PROVE  Shadowed(c)'
  BY <1>1, <1>5 DEF Shaded, Shadowed, FpOf
<1>6. ASSUME NEW p \in Fps, StandsAt(c, p)
      PROVE  Reported(c)'
  <2>1. ASSUME NEW f \in Fps, finding'[f].cand = heir[c]
        PROVE  c \in finding'[f].sites /\ Lens[c] \in finding'[f].lenses \cup {Lens[heir[c]]}
    BY <1>2, <1>4, <1>6, <2>1, StandingReported
  <2>2. QED
    BY <1>1, <2>1 DEF Reported
<1>7. QED
  BY <1>4, <1>5, <1>6 DEF Delivered

(* Between runs an operator changes the status of a row, nothing else.     *)
LEMMA QuietCorroboration ==
  ASSUME TypeInv, CorroborationReachesRow, faults' = 0, UNCHANGED vars \/ \E f \in Fps : Command(f)
  PROVE  CorroborationReachesRow'
<1>1. faults = 0 /\ UNCHANGED <<phase, runs, found, seen, reg, heir>>
  BY NoFault DEF Command, triage, shared, history, vars, TypeInv
<1>2. ASSUME NEW f \in Fps
      PROVE  /\ finding'[f].cand = finding[f].cand /\ finding'[f].lenses = finding[f].lenses
             /\ finding'[f].sites = finding[f].sites
  <2>1. CASE UNCHANGED vars
    BY <2>1 DEF vars
  <2>2. CASE \E g \in Fps : Command(g)
    <3>1. PICK g \in Fps, status \in {"dismissed", "fixed"} : finding' = WithStatus(g, status)
      BY <2>2 DEF Command
    <3>2. QED
      BY <3>1, WithStatusRow DEF TypeInv
  <2>3. QED
    BY <2>1, <2>2
<1>3. \A c : /\ Shadowed(c) => Shadowed(c)'
             /\ Reported(c) => Reported(c)'
  BY <1>1, <1>2 DEF Shadowed, Reported
<1>4. QED
  BY <1>1, <1>3 DEF CorroborationReachesRow, CleanFirstRun

(* The actions of the first run's scan,                                    *)
LEMMA FirstOKStep ==
  ASSUME TypeInv, SuppressionInv, ClaimInv, SeenOK, HandoffInv, PristineOK, FirstOK, [Next]_vars
  PROVE  FirstOK'
<1> SUFFICES ASSUME First'
             PROVE  FreshOK' /\ OwnOK' /\ DeliveredOK'
  BY DEF FirstOK
<1>0. faults' = 0 /\ phase' = "scan" /\ runs' = 1
  BY DEF First
<1>1. CASE StartRun
  <2>1. runs = 0
    BY <1>0, <1>1 DEF StartRun, TypeInv, RunOK
  <2>2. QED
    BY <1>1, <2>1, StartFirst
<1>2. CASE FindersEnd \/ UNCHANGED vars
  <2>1. First
    BY <1>0, <1>2, NoFault DEF First, FindersEnd, bounds, vars, TypeInv
  <2>2. QED
    BY <1>2, <2>1, QuietFirst DEF FirstOK
<1>3. ASSUME NEW c \in Cands, Discover(c)
      PROVE  FreshOK' /\ OwnOK' /\ DeliveredOK'
  <2>1. First
    BY <1>0, <1>3, NoFault DEF First, Discover, bounds, TypeInv
  <2>2. QED
    BY <1>0, <1>3, <2>1, DiscoverFirst DEF FirstOK
<1>4. CASE \E f \in Fps : Verify(f)
  BY <1>0, <1>4, VerifyFirst DEF FirstOK
<1>5. CASE Triage
  <2>1. runs' = runs /\ phase' = phase
    BY <1>5, TriageMoves DEF RestTyped
  <2>2. ASSUME faults = 0
        PROVE  First /\ FreshOK /\ OwnOK /\ DeliveredOK
    BY <1>0, <2>1, <2>2 DEF First, FirstOK
  <2>3. ASSUME NEW it, Takes(it)
        PROVE  FreshOK' /\ OwnOK' /\ DeliveredOK'
    <3>1. faults = 0
      BY <1>0, <2>3, NoFault DEF Takes, TakeUnfit, TakeDuplicate, TakeSuppressed, TakeMember,
         TakeUnclustered, TypeInv
    <3>2. QED
      BY <2>2, <2>3, <3>1, TakeFirst
  <2>4. CASE TriageWorks
    <3>1. First /\ FreshOK /\ OwnOK /\ DeliveredOK /\ UNCHANGED <<found, candCh>>
      BY <1>0, <2>2, <2>4, WorkGrows
    <3>2. DeliveredOK'
      BY <1>0, <2>4, <3>1, WorkDelivers DEF DeliveredOK, Waiting
    <3>3. QED
      BY <1>0, <2>4, <3>1, <3>2, WorkFresh, WorkOwn
  <2>5. CASE RegisterPrimary
    <3>1. faults = 0
      BY <1>0, <2>5, Registers
    <3>2. QED
      BY <2>2, <2>5, <3>1, RegisterFirst
  <2>6. ~TriageFails
    BY <1>0, NoFault DEF TriageFails, TypeInv
  <2>7. QED
    BY <1>5, <2>3, <2>4, <2>5, <2>6 DEF Triage, Takes, TriageWorks
<1>6. CASE Report \/ Abort \/ Crash \/ \E f \in Fps : Command(f)
  BY <1>0, <1>6 DEF Report, Abort, Crash, Command, Running
<1>7. QED
  BY <1>1, <1>2, <1>3, <1>4, <1>5, <1>6 DEF Next

(* and the report that ends it.                                            *)
LEMMA CorroborationStep ==
  ASSUME TypeInv, SuppressionInv, ClaimInv, SeenOK, HandoffInv, FirstInv, [Next]_vars
  PROVE  CorroborationReachesRow'
<1> SUFFICES ASSUME faults' = 0, phase' = "reported"
             PROVE  CorroborationReachesRow'
  BY DEF CorroborationReachesRow, CleanFirstRun
<1>1. CASE Report
  BY <1>1, ReportFirst DEF FirstInv
<1>2. CASE UNCHANGED vars \/ \E f \in Fps : Command(f)
  BY <1>2, QuietCorroboration DEF FirstInv
<1>3. ~Running'
  BY DEF Running
<1>4. CASE StartRun \/ FindersEnd \/ Abort \/ Crash \/ \E c \in Cands : Discover(c)
  BY <1>3, <1>4 DEF StartRun, FindersEnd, Abort, Crash, Discover, Running
<1>5. CASE \E f \in Fps : Verify(f)
  BY <1>3, <1>5, VerifyMoves DEF RestTyped, Running
<1>6. CASE Triage
  BY <1>3, <1>6, TriageMoves DEF RestTyped, Running
<1>7. QED
  BY <1>1, <1>2, <1>4, <1>5, <1>6 DEF Next

LEMMA FirstInvHolds == Spec => []FirstInv
<1>1. Init => FirstInv
  BY DEF Init, FirstInv, PristineOK, FirstOK, First, CorroborationReachesRow, CleanFirstRun
<1>2. TypeInv /\ SuppressionInv /\ ClaimInv /\ SeenOK /\ HandoffInv /\ FirstInv /\ [Next]_vars
        => FirstInv'
  BY PristineStep, FirstOKStep, CorroborationStep DEF FirstInv
<1>3. QED
  BY <1>1, <1>2, TypeInvHolds, SuppressionInvHolds, ClaimInvHolds, SeenOKHolds, HandoffInvHolds,
     PTL DEF Spec

(* When the first run reports and no statement failed, the site and the    *)
(* lens of every candidate triage handed to a primary are in the primary's *)
(* row, whether triage came before the drains, between drain and signal,   *)
(* or after the signal: the registry holds what a verifier has yet to take *)
(* and tells triage when it is too late for that (the registry's methods,  *)
(* process and handleMember in funnel/triage_streaming.go,                 *)
(* runVerifyAndPersist in funnel/verify_stream.go, and the folds of late   *)
(* attachments at the end of funnel/run_pipeline.go).                      *)
THEOREM CorroborationIsKept == Spec => []CorroborationReachesRow
<1>1. FirstInv => CorroborationReachesRow
  BY DEF FirstInv
<1>2. QED
  BY <1>1, FirstInvHolds, PTL

=============================================================================
