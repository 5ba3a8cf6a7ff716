---------------------------- MODULE TriageVerify ----------------------------
(***************************************************************************)
(* One bugbot run from finder candidates to stored findings, and the runs  *)
(* after it: the write-ahead rows (store/pending.go), the single triage    *)
(* goroutine (funnel/triage_streaming.go), one verifier per cluster        *)
(* primary (funnel/verify_stream.go), the registry they share, and the     *)
(* findings and suppressions tables they write (store/findings.go).        *)
(*                                                                         *)
(* Each registry call and each SQL transaction is one atomic step. The     *)
(* process may stop between any two; a cancelled run is the same event,    *)
(* because every later statement runs on the cancelled context and fails.  *)
(* Operator commands take the writer lock, so they fall between runs.      *)
(*                                                                         *)
(* A candidate stands for its own location, so sites are sets of           *)
(* candidates. Whether two descriptions agree is data: Near, Alike and     *)
(* RootCause say which pairs of candidates pass those tests.               *)
(***************************************************************************)
EXTENDS Naturals, SequencesExt, ClusterRegistry

CONSTANTS
  Cands, NoCand,  (* finder candidates                                     *)
  Lens,           (* the lens that reports each candidate                  *)
  Locus,          (* its file and enclosing symbol                         *)
  Kind, NoKind,   (* its defect kind and subject; NoKind is the empty one  *)
  Recurring,      (* candidates found again in a later run                 *)
  Unfit,          (* candidates of low confidence or out of scope          *)
  Near, Alike,    (* pairs {c, d} within the window; with like wording     *)
  RootCause,      (* pairs {c, d} the root-cause rules merge               *)
  Arbiter,        (* is the LLM dedup arbiter wired in?                    *)
  MaxRuns, MaxCrashes, MaxFaults, MaxCommands      (* bounds               *)

Kinds  == {Kind[c] : c \in Cands} \cup {NoKind}
Lenses == {Lens[c] : c \in Cands}
Fps    == {Locus[c] : c \in Cands} \X Kinds
NoFp   == <<>>

ASSUME TriageVerifyAssumption ==
  /\ IsFiniteSet(Cands) /\ NoCand \notin Cands
  /\ DOMAIN Lens = Cands /\ DOMAIN Locus = Cands /\ DOMAIN Kind = Cands
  /\ \A c \in Cands : Kind[c] # NoKind
  /\ Unfit \subseteq Cands /\ Recurring \subseteq Cands
  /\ Near \cup Alike \cup RootCause \subseteq SUBSET Cands
  /\ Arbiter \in BOOLEAN
  /\ MaxRuns \in Nat /\ MaxCrashes \in Nat /\ MaxFaults \in Nat /\ MaxCommands \in Nat

VARIABLES
  wal,          (* pending_candidates, in rowid order                      *)
  finding,      (* the findings row of each fingerprint                    *)
  suppressed,   (* fingerprints in suppressions                            *)
  found,        (* candidates this run replays or its finders reported     *)
  phase,        (* a "scan" or "reverify" run; "reported", "aborted" or     *)
                (* "idle" after one                                        *)
  discovering,  (* are the finders of this run still at work?              *)
  candCh,       (* candidates on their way to triage                       *)
  tri,          (* the triage goroutine: next statement, item, target      *)
  seen,         (* per fingerprint, the first candidate that carried it    *)
  member,       (* the items in clusters, each with its cluster            *)
  reg,          (* the cluster registry                                    *)
  ver,          (* per primary fingerprint, its verifier                   *)
  result,       (* allFindings: the run's in-memory copies                 *)
  errored,      (* has triage or a verifier reported a fatal error?        *)
  walled,       (* history: candidates whose write-ahead row was written   *)
  heir,         (* history: the primary a candidate was merged into        *)
  fate,         (* history: what became of a candidate                     *)
  runs, crashes, faults, commands      (* counters of the bounded events   *)

durable == <<wal, finding, suppressed>>
triage  == <<candCh, tri, seen, member>>
shared  == <<reg, ver, result, errored>>
history == <<walled, heir, fate>>
bounds  == <<runs, crashes, commands>>
vars    == <<wal, finding, suppressed, found, phase, discovering, candCh, tri,
             seen, member, reg, ver, result, errored, walled, heir, fate,
             runs, crashes, faults, commands>>

-----------------------------------------------------------------------------
(* A candidate in flight. pendingToCandidate restores neither kind nor     *)
(* subject, which the row does not hold; a stored finding has neither.     *)
Item(c, kind, fp, lenses, reverify, row) ==
  [cand |-> c, kind |-> kind, fp |-> fp, lenses |-> lenses,
   reverify |-> reverify, row |-> row]

Fresh(c, row) == Item(c, Kind[c], <<Locus[c], Kind[c]>>, {}, FALSE, row)
Replayed(c)   == Item(c, NoKind, <<Locus[c], NoKind>>, {}, FALSE, TRUE)
Reverified(f) == Item(finding[f].cand, NoKind, f, finding[f].lenses, TRUE, FALSE)

Items ==
  {it \in [cand : Cands, kind : Kinds, fp : Fps, lenses : SUBSET Lenses,
           reverify : BOOLEAN, row : BOOLEAN] : it.reverify => ~it.row}
NoItem == Item(NoCand, NoKind, NoFp, {}, FALSE, FALSE)

IdleTriage   == [pc |-> "idle", item |-> NoItem, target |-> NoFp]
IdleVerifier == [pc |-> "none", item |-> NoItem, tier |-> 2, lenses |-> {},
                 late |-> {}, sites |-> {}]
NoRow  == [status |-> "absent", cand |-> NoCand, tier |-> 3, lenses |-> {}, sites |-> {}]
NoCopy == [lenses |-> {}, sites |-> {}]

TriagePcs == {"idle", "drop", "site", "siteStore", "lens", "lensStore",
              "memberDrop", "fold", "suppress", "reopen", "foldLens",
              "foldSite", "dead"}
VerifyPcs == {"none", "panel", "orphan", "unkept", "kill", "dismiss", "forget",
              "lenses", "sites", "upsert", "delete", "signal", "lateLenses",
              "lateSites", "done"}

TypeOK ==
  /\ wal \in Seq(Cands) /\ found \in SUBSET Cands /\ walled \in SUBSET Cands
  /\ finding \in [Fps -> [status : {"absent", "open", "fixed", "dismissed"},
                          cand : Cands \cup {NoCand}, tier : {2, 3},
                          lenses : SUBSET Lenses, sites : SUBSET Cands]]
  /\ suppressed \in SUBSET Fps
  /\ phase \in {"idle", "scan", "reverify", "reported", "aborted"}
  /\ discovering \in BOOLEAN /\ errored \in BOOLEAN
  /\ candCh \in Seq(Items)
  /\ tri.pc \in TriagePcs /\ tri.item \in Items \cup {NoItem}
  /\ tri.target \in Fps \cup {NoFp}
  /\ seen \in [Fps -> Cands \cup {NoCand}]
  /\ member \in SUBSET [item : Items, cluster : Fps]
  /\ reg \in [Fps -> Entry(Lenses, Cands)]
  /\ \A f \in Fps : /\ ver[f].pc \in VerifyPcs /\ ver[f].tier \in {2, 3}
                    /\ ver[f].item \in Items \cup {NoItem}
                    /\ ver[f].lenses \subseteq Lenses /\ ver[f].late \subseteq Lenses
                    /\ ver[f].sites \subseteq Cands
  /\ \A f \in Fps : /\ reg[f].status = "none" <=> ver[f].pc = "none"
                    /\ ver[f].pc # "none" => ver[f].item.fp = f
  /\ tri.pc = "idle" => tri.item = NoItem
  /\ result \in [Fps -> [lenses : SUBSET Lenses, sites : SUBSET Cands]]
  /\ heir \in [Cands -> Cands]
  /\ fate \in [Cands -> {"open", "dropped", "killed", "recorded"}]
  /\ runs \in 0..MaxRuns /\ crashes \in 0..MaxCrashes
  /\ faults \in 0..MaxFaults /\ commands \in 0..MaxCommands

(* What a run starts with: nothing in memory but the candidates to replay. *)
StartWith(ch) ==
  /\ candCh' = ch
  /\ tri' = IdleTriage
  /\ seen' = [f \in Fps |-> NoCand]
  /\ member' = {}
  /\ reg' = [f \in Fps |-> NoEntry]
  /\ ver' = [f \in Fps |-> IdleVerifier]
  /\ result' = [f \in Fps |-> NoCopy]
  /\ errored' = FALSE

Init ==
  /\ wal = <<>> /\ found = {} /\ suppressed = {}
  /\ finding = [f \in Fps |-> NoRow]
  /\ phase = "idle" /\ discovering = FALSE
  /\ candCh = <<>>
  /\ tri = IdleTriage
  /\ seen = [f \in Fps |-> NoCand]
  /\ member = {}
  /\ reg = [f \in Fps |-> NoEntry]
  /\ ver = [f \in Fps |-> IdleVerifier]
  /\ result = [f \in Fps |-> NoCopy]
  /\ errored = FALSE
  /\ walled = {}
  /\ heir = [c \in Cands |-> c]
  /\ fate = [c \in Cands |-> "open"]
  /\ runs = 0 /\ crashes = 0 /\ faults = 0 /\ commands = 0

-----------------------------------------------------------------------------
Running == phase \in {"scan", "reverify"}

(* Statements on the findings tables.                                      *)

Stored(f) == finding[f].status # "absent"

(* UpsertFinding: suppression memory decides the status, the stronger tier *)
(* stays, everything else is overwritten.                                  *)
Upserted(f, c, tier, lenses, sites) ==
  [finding EXCEPT ![f] =
    [status |-> IF f \in suppressed THEN "dismissed" ELSE "open",
     cand   |-> c,
     tier   |-> IF @.status # "absent" /\ @.tier < tier THEN @.tier ELSE tier,
     lenses |-> lenses, sites |-> sites]]

(* AddCorroboratingLenses, AppendFindingSites: ErrNotFound changes nothing. *)
WithLenses(f, lenses) ==
  IF Stored(f) THEN [finding EXCEPT ![f].lenses = @ \cup lenses] ELSE finding
WithSites(f, sites) ==
  IF Stored(f) THEN [finding EXCEPT ![f].sites = @ \cup sites] ELSE finding

WithStatus(f, status) ==
  IF Stored(f) THEN [finding EXCEPT ![f].status = status] ELSE finding

Unfaulted == UNCHANGED faults
Fault == faults < MaxFaults /\ faults' = faults + 1

(* DeletePendingCandidate, best effort; a candidate without a row has none *)
(* to delete.                                                              *)
DeletePending(it) ==
  \/ ~it.row /\ Unfaulted /\ UNCHANGED wal
  \/ it.row /\ Unfaulted /\ wal' = RemoveFirst(wal, it.cand)
  \/ it.row /\ Fault /\ UNCHANGED wal

-----------------------------------------------------------------------------
(* Runs, finders, operators.                                               *)

(* A full scan replays the write-ahead rows; a re-verification run replays *)
(* the open tier-3 findings, in no useful order, and has no finders.       *)
Replays ==
  {[i \in 1..Len(wal) |-> Replayed(wal[i])]}
Reverifies ==
  {[i \in 1..Len(q) |-> Reverified(q[i])] :
     q \in SetToSeqs({f \in Fps : finding[f].status = "open" /\ finding[f].tier = 3})}

StartRun ==
  /\ ~Running /\ runs < MaxRuns
  /\ \/ /\ \E q \in Replays : StartWith(q)
        /\ phase' = "scan" /\ discovering' = TRUE
     \/ /\ \E q \in Reverifies : q # <<>> /\ StartWith(q)
        /\ phase' = "reverify" /\ discovering' = FALSE
  /\ runs' = runs + 1 /\ found' = ToSet(wal)
  /\ UNCHANGED <<durable, history, crashes, faults, commands>>

Emit(it) == candCh' = IF tri.pc = "dead" THEN candCh ELSE Append(candCh, it)

(* A finder unit writes its candidates ahead, then emits them; a failed    *)
(* write leaves the candidate volatile. The bounds: a bug of Recurring may *)
(* be found in every run, but not in the one that replays its row.         *)
Discover(c) ==
  /\ Running /\ discovering /\ c \notin found
  /\ c \in walled => c \in Recurring
  /\ found' = found \cup {c}
  /\ fate' = [fate EXCEPT ![c] = "open"] /\ heir' = [heir EXCEPT ![c] = c]
  /\ \/ /\ wal' = Append(wal, c) /\ walled' = walled \cup {c}
        /\ Emit(Fresh(c, TRUE)) /\ Unfaulted
     \/ /\ Emit(Fresh(c, FALSE)) /\ Fault
        /\ walled' = walled \ {c} /\ UNCHANGED wal
  /\ UNCHANGED <<finding, suppressed, phase, discovering, tri, seen, member,
                 shared, bounds>>

FindersEnd ==
  /\ Running /\ discovering
  /\ discovering' = FALSE
  /\ UNCHANGED <<durable, found, phase, triage, shared, history, bounds, faults>>

(* `report dismiss`, publish backsync; the daemon's auto-close of an open  *)
(* finding whose bug is gone.                                              *)
Command(f) ==
  /\ ~Running /\ commands < MaxCommands /\ Stored(f)
  /\ commands' = commands + 1
  /\ \/ /\ suppressed' = suppressed \cup {f}
        /\ finding' = WithStatus(f, "dismissed")
     \/ /\ finding[f].status = "open"
        /\ finding' = WithStatus(f, "fixed") /\ UNCHANGED suppressed
  /\ UNCHANGED <<wal, found, phase, discovering, triage, shared, history,
                 runs, crashes, faults>>

-----------------------------------------------------------------------------
(* The triage goroutine (triageState.process).                             *)

TriageFrame == UNCHANGED <<found, phase, discovering, ver, result, walled, bounds>>

Arriving(it) == Running /\ tri.pc = "idle" /\ candCh # <<>> /\ it = Head(candCh)
Dequeue(pc, it, target) ==
  /\ candCh' = Tail(candCh)
  /\ tri' = [pc |-> pc, item |-> it, target |-> target]

(* The item's claim, and what was merged into it, now stands or falls with *)
(* primary p; a re-verified row stands for itself.                         *)
Inherit(it, p) ==
  heir' = IF it.reverify THEN heir
          ELSE [d \in Cands |-> IF it.cand \in {d, heir[d]} THEN p ELSE heir[d]]
Settled(it, what) == IF it.reverify THEN fate ELSE [fate EXCEPT ![it.cand] = what]
StandsWith(c) == IF fate[c] = "open" THEN heir[c] ELSE c

Compatible(k, l) == k = NoKind \/ l = NoKind \/ k = l       \* sameOrUnknownKind

Clusters   == {m.cluster : m \in member}
Mates(cl)  == {m.item : m \in {n \in member : n.cluster = cl}}
Primary(cl) == seen[cl]

(* clusterAccepts asks for nearness and likeness of any members, not of    *)
(* one and the same; a near compatible member that reads differently goes  *)
(* to the arbiter; the root-cause rules ignore distance.                   *)
Accepts(cl, it) ==
  \/ /\ \E m \in Mates(cl) : {m.cand, it.cand} \in Near
     /\ \E m \in Mates(cl) : Compatible(m.kind, it.kind) /\ {m.cand, it.cand} \in Alike
  \/ \E m \in Mates(cl) : Compatible(m.kind, it.kind) /\ {m.cand, it.cand} \in RootCause
Collides(cl, it) ==
  \E m \in Mates(cl) : /\ Compatible(m.kind, it.kind)
                       /\ {m.cand, it.cand} \in Near \ Alike

TakeUnfit(it) ==
  /\ Arriving(it) /\ it.cand \in Unfit
  /\ Dequeue("drop", it, NoFp)
  /\ fate' = Settled(it, "dropped")
  /\ UNCHANGED <<durable, seen, member, reg, errored, heir, faults>> /\ TriageFrame

TakeDuplicate(it) ==
  /\ Arriving(it) /\ it.cand \notin Unfit /\ seen[it.fp] # NoCand
  /\ Dequeue("site", it, it.fp)
  /\ Inherit(it, StandsWith(seen[it.fp]))
  /\ UNCHANGED <<durable, seen, member, reg, errored, fate, faults>> /\ TriageFrame

NeverSuppressed(fp) == FALSE                                    \* mutant
IsSuppressed(fp) == fp \in suppressed

New(it) ==
  /\ Arriving(it) /\ it.cand \notin Unfit /\ seen[it.fp] = NoCand
  /\ seen' = [seen EXCEPT ![it.fp] = it.cand]

TakeSuppressed(it) ==
  /\ New(it) /\ IsSuppressed(it.fp)
  /\ Dequeue("drop", it, NoFp)
  /\ fate' = Settled(it, "dropped")
  /\ UNCHANGED <<durable, member, reg, errored, heir, faults>> /\ TriageFrame

TakeMember(it) ==
  /\ New(it) /\ ~IsSuppressed(it.fp)
  /\ \E cl \in Clusters :
       /\ Accepts(cl, it) \/ (Arbiter /\ Collides(cl, it))
       /\ Dequeue("memberDrop", it, cl)
       /\ member' = member \cup {[item |-> it, cluster |-> cl]}
       /\ Inherit(it, Primary(cl))
  /\ UNCHANGED <<durable, reg, errored, fate, faults>> /\ TriageFrame

TakeUnclustered(it) ==
  /\ New(it) /\ ~IsSuppressed(it.fp)
  /\ \A cl \in Clusters : ~Accepts(cl, it)
  /\ Dequeue("fold", it, NoFp)
  /\ UNCHANGED <<durable, member, reg, errored, heir, fate, faults>> /\ TriageFrame

(* A failed read or write other than the best-effort ones is fatal: triage *)
(* drains its channel and returns.                                         *)
TriageFails ==
  /\ Running /\ Fault
  /\ \/ tri.pc = "idle" /\ candCh # <<>> /\ Head(candCh).cand \notin Unfit
        /\ seen[Head(candCh).fp] = NoCand
     \/ tri.pc \in {"fold", "suppress", "reopen", "foldLens", "foldSite"}
  /\ tri' = [tri EXCEPT !.pc = "dead"]
  /\ candCh' = <<>>
  /\ errored' = TRUE
  /\ UNCHANGED <<durable, seen, member, reg, heir, fate>> /\ TriageFrame

-----------------------------------------------------------------------------
(* A duplicate or a member hands its site, then its lens, to the primary.  *)

Step(pc) == tri' = [tri EXCEPT !.pc = pc]
At(pc) == Running /\ tri.pc = pc

(* dropPending at a terminal fate, the last statement of process.          *)
DropPending ==
  /\ At("drop")
  /\ DeletePending(tri.item)
  /\ tri' = IdleTriage
  /\ UNCHANGED <<finding, suppressed, candCh, seen, member, reg, errored, heir, fate>>
  /\ TriageFrame

(* handleMember deletes the member's row first, and not again at the end.  *)
MemberDrop ==
  /\ At("memberDrop")
  /\ DeletePending(tri.item)
  /\ tri' = [tri EXCEPT !.pc = "site", !.item.row = FALSE]
  /\ UNCHANGED <<finding, suppressed, candCh, seen, member, reg, errored, heir, fate>>
  /\ TriageFrame

StageSite ==
  /\ At("site")
  /\ reg' = [reg EXCEPT ![tri.target] = AddStagedSite(@, tri.item.cand)]
  /\ Step(IF CallerWrites(reg[tri.target]) THEN "siteStore" ELSE "lens")
  /\ UNCHANGED <<durable, candCh, seen, member, errored, heir, fate, faults>> /\ TriageFrame

StoreSite ==
  /\ At("siteStore")
  /\ \/ finding' = WithSites(tri.target, {tri.item.cand}) /\ Unfaulted
     \/ UNCHANGED finding /\ Fault
  /\ Step("lens")
  /\ UNCHANGED <<wal, suppressed, candCh, seen, member, reg, errored, heir, fate>> /\ TriageFrame

SameLens == Lens[tri.item.cand] = Lens[seen[tri.target]]

StageLens ==
  /\ At("lens")
  /\ \/ SameLens /\ Step("drop") /\ UNCHANGED reg
     \/ /\ ~SameLens
        /\ reg' = [reg EXCEPT ![tri.target] = AddStagedLens(@, Lens[tri.item.cand])]
        /\ Step(IF CallerWrites(reg[tri.target]) THEN "lensStore" ELSE "drop")
  /\ UNCHANGED <<durable, candCh, seen, member, errored, heir, fate, faults>> /\ TriageFrame

StoreLens ==
  /\ At("lensStore")
  /\ \/ finding' = WithLenses(tri.target, {Lens[tri.item.cand]}) /\ Unfaulted
     \/ UNCHANGED finding /\ Fault
  /\ Step("drop")
  /\ UNCHANGED <<wal, suppressed, candCh, seen, member, reg, errored, heir, fate>> /\ TriageFrame

-----------------------------------------------------------------------------
(* durableCrossLensFold: a row of an earlier run, or of this one, takes a  *)
(* candidate that joined no cluster. Stored rows have no kind to compare.  *)

FoldRows ==
  {f \in Fps : /\ finding[f].status # "absent" /\ f # tri.item.fp
               /\ Lens[finding[f].cand] # Lens[tri.item.cand]
               /\ {finding[f].cand, tri.item.cand} \in Near}
SimilarRow(f) == {finding[f].cand, tri.item.cand} \in Alike

ReopensDismissed(status) == IF status = "open" THEN "foldLens" ELSE "reopen"   \* mutant
FoldStep(status) ==
  CASE status = "dismissed" -> "suppress"
    [] status = "fixed"     -> "reopen"
    [] status = "open"      -> "foldLens"

Fold ==
  /\ At("fold") /\ ~tri.item.reverify
  /\ \E f \in FoldRows :
       /\ SimilarRow(f) \/ (Arbiter /\ finding[f].status = "open")
       /\ tri' = [tri EXCEPT !.pc = FoldStep(finding[f].status), !.target = f]
  /\ UNCHANGED <<durable, candCh, seen, member, reg, errored, heir, fate, faults>> /\ TriageFrame

(* AddSuppression of the candidate's own fingerprint.                      *)
SuppressCandidate ==
  /\ At("suppress")
  /\ suppressed' = suppressed \cup {tri.item.fp}
  /\ finding' = WithStatus(tri.item.fp, "dismissed")
  /\ fate' = [fate EXCEPT ![tri.item.cand] = "dropped"]
  /\ Step("drop")
  /\ UNCHANGED <<wal, candCh, seen, member, reg, errored, heir, faults>> /\ TriageFrame

(* ReopenAsRegression accepts any current status.                          *)
ReopenFixed ==
  /\ At("reopen")
  /\ finding' = WithStatus(tri.target, "open")
  /\ Step("foldLens")
  /\ UNCHANGED <<wal, suppressed, candCh, seen, member, reg, errored, heir, fate, faults>>
  /\ TriageFrame

FoldLens ==
  /\ At("foldLens")
  /\ finding' = WithLenses(tri.target, {Lens[tri.item.cand]})
  /\ Step("foldSite")
  /\ UNCHANGED <<wal, suppressed, candCh, seen, member, reg, errored, heir, fate, faults>>
  /\ TriageFrame

FoldSite ==
  /\ At("foldSite")
  /\ finding' = WithSites(tri.target, {tri.item.cand})
  /\ fate' = [fate EXCEPT ![tri.item.cand] = "recorded"]
  /\ heir' = [heir EXCEPT ![tri.item.cand] = finding[tri.target].cand]
  /\ Step("drop")
  /\ UNCHANGED <<wal, suppressed, candCh, seen, member, reg, errored, faults>>
  /\ TriageFrame

RegisterNothing(fp) == reg                                      \* mutant
Register(fp) == [reg EXCEPT ![fp] = Registered]

(* A new cluster: registered, then forwarded to a verifier of its own.     *)
RegisterPrimary ==
  /\ At("fold")
  /\ tri.item.reverify \/ \A f \in FoldRows : ~SimilarRow(f)
  /\ LET it == tri.item IN
       /\ reg' = Register(it.fp)
       /\ ver' = [ver EXCEPT ![it.fp] = [IdleVerifier EXCEPT !.pc = "panel", !.item = it]]
       /\ member' = member \cup {[item |-> it, cluster |-> it.fp]}
       /\ Inherit(it, it.cand)
  /\ tri' = IdleTriage
  /\ UNCHANGED <<durable, found, phase, discovering, candCh, seen, result,
                 errored, walled, fate, bounds, faults>>

-----------------------------------------------------------------------------
(* A primary's verifier (runVerifyAndPersist).                             *)

VerifyFrame == UNCHANGED <<found, phase, discovering, triage, walled, heir, bounds>>
Verifier(f, pc) == Running /\ ver[f].pc = pc
Goto(f, pc) == ver' = [ver EXCEPT ![f].pc = pc]

(* The order of a survivor's statements.                                   *)
DeletesFirst ==                                                 \* mutant
  [lenses |-> "sites", sites |-> "delete", delete |-> "upsert",
   upsert |-> "signal", signal |-> "lateLenses"]
SurvivorStep ==
  [lenses |-> "sites", sites |-> "upsert", upsert |-> "delete",
   delete |-> "signal", signal |-> "lateLenses"]

(* The panel and its arbiter decide: budget stop or no verdict (orphan),   *)
(* refuted (kill), survived, or a fatal runner error, which signals nobody.*)
Panel(f) ==
  /\ Verifier(f, "panel")
  /\ \/ Goto(f, "orphan") /\ UNCHANGED errored /\ Unfaulted
     \/ Goto(f, "kill")   /\ UNCHANGED errored /\ Unfaulted
     \/ Goto(f, "lenses") /\ UNCHANGED errored /\ Unfaulted
     \/ Goto(f, "done")   /\ errored' = TRUE   /\ Fault
  /\ UNCHANGED <<durable, reg, result, fate>> /\ VerifyFrame

(* persistOrphan: tier 3, with the candidate's own lens and site only. A   *)
(* row stored as dismissed is no orphan: nothing is kept.                  *)
PersistOrphan(f) ==
  /\ Verifier(f, "orphan")
  /\ LET it == ver[f].item
         copy == [lenses |-> it.lenses, sites |-> {it.cand}]
         kept == f \notin suppressed
     IN \/ /\ finding' = Upserted(f, it.cand, 3, copy.lenses, copy.sites)
           /\ result' = IF kept THEN [result EXCEPT ![f] = copy] ELSE result
           /\ fate' = Settled(it, "recorded")
           /\ ver' = [ver EXCEPT ![f].pc = IF kept THEN "delete" ELSE "unkept",
                                 ![f].tier = 3]
           /\ Unfaulted
        \/ /\ Goto(f, "unkept") /\ Fault
           /\ UNCHANGED <<finding, result, fate>>
  /\ UNCHANGED <<wal, suppressed, reg, errored>> /\ VerifyFrame

(* Nothing was kept: the members are told that their primary is dead.      *)
Unkept(f) ==
  /\ Verifier(f, "unkept")
  /\ reg' = [reg EXCEPT ![f] = SignalKilled(@)]
  /\ Goto(f, "done")
  /\ UNCHANGED <<durable, result, errored, fate, faults>> /\ VerifyFrame

KeepsKilledRow(it) == IF it.reverify THEN "dismiss" ELSE "done" \* mutant
AfterKill(it) == IF it.reverify THEN "dismiss" ELSE "forget"

Kill(f) ==
  /\ Verifier(f, "kill")
  /\ reg' = [reg EXCEPT ![f] = SignalKilled(@)]
  /\ fate' = Settled(ver[f].item, "killed")
  /\ Goto(f, AfterKill(ver[f].item))
  /\ UNCHANGED <<durable, result, errored, faults>> /\ VerifyFrame

(* A refuted re-verification dismisses its durable row, best effort.       *)
DismissRefuted(f) ==
  /\ Verifier(f, "dismiss")
  /\ \/ /\ finding' = WithStatus(f, "dismissed")
        /\ suppressed' = suppressed \cup {f} /\ Unfaulted
     \/ UNCHANGED <<finding, suppressed>> /\ Fault
  /\ Goto(f, "forget")
  /\ UNCHANGED <<wal, reg, result, errored, fate>> /\ VerifyFrame

ForgetKilled(f) ==
  /\ Verifier(f, "forget")
  /\ DeletePending(ver[f].item)
  /\ Goto(f, "done")
  /\ UNCHANGED <<finding, suppressed, reg, result, errored, fate>> /\ VerifyFrame

DrainLenses(f) ==
  /\ Verifier(f, "lenses")
  /\ reg' = [reg EXCEPT ![f] = DrainStagedLenses(@)]
  /\ ver' = [ver EXCEPT ![f].pc = SurvivorStep["lenses"],
                        ![f].lenses = ver[f].item.lenses \cup reg[f].stagedLenses]
  /\ UNCHANGED <<durable, result, errored, fate, faults>> /\ VerifyFrame

DrainSites(f) ==
  /\ Verifier(f, "sites")
  /\ reg' = [reg EXCEPT ![f] = DrainStagedSites(@)]
  /\ ver' = [ver EXCEPT ![f].pc = SurvivorStep["sites"],
                        ![f].sites = {ver[f].item.cand} \cup reg[f].stagedSites]
  /\ UNCHANGED <<durable, result, errored, fate, faults>> /\ VerifyFrame

(* UpsertFinding of a survivor. A failure is fatal to the run.             *)
PersistSurvivor(f) ==
  /\ Verifier(f, "upsert")
  /\ \/ /\ finding' = Upserted(f, ver[f].item.cand, 2, ver[f].lenses, ver[f].sites)
        /\ fate' = Settled(ver[f].item, "recorded")
        /\ Goto(f, SurvivorStep["upsert"]) /\ Unfaulted /\ UNCHANGED <<reg, errored>>
     \/ /\ Goto(f, "done") /\ Fault
        /\ errored' = TRUE
        /\ reg' = [reg EXCEPT ![f] = SignalKilled(@)]
        /\ UNCHANGED <<finding, fate>>
  /\ UNCHANGED <<wal, suppressed, result>> /\ VerifyFrame

(* A row stored as dismissed is forgotten and its cluster killed.          *)
DeleteRow(f) ==
  /\ Verifier(f, "delete")
  /\ DeletePending(ver[f].item)
  /\ Goto(f, IF finding[f].status = "dismissed" THEN "unkept" ELSE SurvivorStep["delete"])
  /\ UNCHANGED <<finding, suppressed, reg, result, errored, fate>> /\ VerifyFrame

(* Lenses staged since the drain are returned by the signal. A survivor's  *)
(* copy takes them; an orphan's was made when it was upserted.             *)
Signal(f) ==
  /\ Verifier(f, "signal")
  /\ reg' = [reg EXCEPT ![f] = SignalPersisted(@)]
  /\ ver' = [ver EXCEPT ![f].pc = SurvivorStep["signal"], ![f].late = reg[f].stagedLenses,
                        ![f].lenses = @ \cup reg[f].stagedLenses]
  /\ UNCHANGED <<durable, result, errored, fate, faults>> /\ VerifyFrame

AttachLateLenses(f) ==
  /\ Verifier(f, "lateLenses")
  /\ \/ finding' = WithLenses(f, ver[f].late) /\ Unfaulted
     \/ ver[f].late # {} /\ Fault /\ UNCHANGED finding
  /\ Goto(f, IF ver[f].tier = 2 THEN "lateSites" ELSE "done")
  /\ UNCHANGED <<wal, suppressed, reg, result, errored, fate>> /\ VerifyFrame

(* DrainLateSites, AppendFindingSites, then the copy joins allFindings.    *)
AttachLateSites(f) ==
  /\ Verifier(f, "lateSites")
  /\ LET late == reg[f].lateSites
         Copy(sites) == [lenses |-> ver[f].lenses, sites |-> sites]
     IN \/ /\ finding' = WithSites(f, late) /\ Unfaulted
           /\ result' = [result EXCEPT ![f] = Copy(ver[f].sites \cup late)]
        \/ /\ late # {} /\ Fault /\ UNCHANGED finding
           /\ result' = [result EXCEPT ![f] = Copy(ver[f].sites)]
  /\ reg' = [reg EXCEPT ![f] = DrainLateSites(@)]
  /\ Goto(f, "done")
  /\ UNCHANGED <<wal, suppressed, errored, fate>> /\ VerifyFrame

-----------------------------------------------------------------------------
(* The end of a run (Funnel.run after its goroutines have joined).         *)

Joined ==
  /\ Running /\ ~discovering
  /\ candCh = <<>> /\ tri.pc \in {"idle", "dead"}
  /\ \A f \in Fps : ver[f].pc \in {"none", "done"}

Abort ==
  /\ Joined /\ errored
  /\ phase' = "aborted"
  /\ UNCHANGED <<durable, found, discovering, triage, shared, history, bounds, faults>>

(* The late attachments are folded into the findings returned; late sites  *)
(* are written to the rows again, and kept out of memory when that fails.  *)
Returned == {f \in Fps : result[f].sites # {}}

Report ==
  /\ Joined /\ ~errored
  /\ \E failed \in {{}} \cup {{f} : f \in Returned} :
       /\ IF failed = {} THEN Unfaulted ELSE Fault
       /\ LET Late(f) == IF f \in Returned \ failed THEN reg[f].lateSites ELSE {} IN
          /\ finding' = [f \in Fps |-> WithSites(f, Late(f))[f]]
          /\ result' = [f \in Fps |->
               IF f \in Returned
               THEN [lenses |-> result[f].lenses \cup reg[f].attachedLate,
                     sites  |-> result[f].sites \cup Late(f)]
               ELSE result[f]]
  /\ phase' = "reported"
  /\ UNCHANGED <<wal, suppressed, found, discovering, triage, reg, ver, errored,
                 history, bounds>>

(* The process dies, or its context is cancelled.                          *)
Crash ==
  /\ Running /\ crashes < MaxCrashes
  /\ crashes' = crashes + 1
  /\ phase' = "idle" /\ discovering' = FALSE
  /\ StartWith(<<>>)
  /\ UNCHANGED <<durable, found, history, runs, faults, commands>>

Triage ==
  \/ \E it \in {candCh[i] : i \in 1..Len(candCh)} :
       \/ TakeUnfit(it) \/ TakeDuplicate(it) \/ TakeSuppressed(it)
       \/ TakeMember(it) \/ TakeUnclustered(it)
  \/ MemberDrop \/ StageSite \/ StoreSite \/ StageLens \/ StoreLens
  \/ Fold \/ SuppressCandidate \/ ReopenFixed \/ FoldLens \/ FoldSite
  \/ RegisterPrimary \/ DropPending \/ TriageFails

Verify(f) ==
  \/ Panel(f) \/ PersistOrphan(f) \/ Unkept(f)
  \/ Kill(f) \/ DismissRefuted(f) \/ ForgetKilled(f)
  \/ DrainLenses(f) \/ DrainSites(f) \/ PersistSurvivor(f) \/ DeleteRow(f)
  \/ Signal(f) \/ AttachLateLenses(f) \/ AttachLateSites(f)

Next ==
  \/ StartRun \/ FindersEnd \/ Report \/ Abort \/ Crash
  \/ \E c \in Cands : Discover(c)
  \/ \E f \in Fps : Verify(f) \/ Command(f)
  \/ Triage

Spec == Init /\ [][Next]_vars

-----------------------------------------------------------------------------
(* Properties.                                                             *)

(* No claim a finder wrote ahead is lost, however the run ends: it is      *)
(* still in the write-ahead log, or the primary it was merged into is, or  *)
(* one of the two was recorded, killed or dropped. (A primary whose own    *)
(* write-ahead row failed is volatile, and its members with it.)           *)
ClaimNeverLost ==
  \A c \in walled : heir[c] \in walled =>
    \E own \in {c, heir[c]} : own \in ToSet(wal) \/ fate[own] # "open"

(* A dismissed bug never resurfaces: with a suppression on record, no      *)
(* path, the regression path included, leaves the finding open.            *)
SuppressedStayClosed == \A f \in suppressed : finding[f].status # "open"

(* No fingerprint is suppressed while its primary is with a verifier, so   *)
(* no panel is spent on a dismissed bug, and no upsert of a verified claim *)
(* becomes a dismissal (triage_streaming.go:414-434, verify_stream.go:454) *)
InFlightUnsuppressed ==
  \A f \in Fps : ver[f].pc \notin {"none", "forget", "done"} => f \notin suppressed

(* A scan that returns without a failed statement leaves no write-ahead    *)
(* row, rows replayed from an earlier crash included (pending.go:20-22).   *)
CleanScanEmptiesWal ==
  [][phase = "scan" /\ phase' = "reported" /\ faults = 0 => wal' = <<>>]_vars

(* A member or duplicate that reached a registered primary is in the       *)
(* primary's row at the end of the run, whether it arrived before the      *)
(* drains, between drain and signal, or after the signal. Excepted are the *)
(* duplicates of a candidate that was itself merged or folded, for whose   *)
(* fingerprint there is neither cluster nor row (triage_streaming.go:383). *)
Shadowed(c) ==
  LET f == <<Locus[c], Kind[c]>> IN
  seen[f] \notin {NoCand, c} /\ reg[f].status = "none"
Reported(c) ==
  \A f \in Fps : finding[f].cand = heir[c] =>
    /\ c \in finding[f].sites
    /\ Lens[c] \in finding[f].lenses \cup {Lens[heir[c]]}
CleanFirstRun == phase = "reported" /\ runs = 1 /\ faults = 0

CorroborationReachesRow ==
  CleanFirstRun => \A c \in found \ Unfit : Shadowed(c) \/ Reported(c)

(* The findings a run returns say what the store says (run_pipeline.go:    *)
(* 612-619), whatever the order of triage and verification. Excepted are   *)
(* the rows this run folded a candidate into, whose copies do not hear of  *)
(* it (triage_streaming.go:697).                                           *)
FoldedThisRun ==
  {f \in Fps : \E g \in Fps :
     /\ seen[g] \notin {NoCand} \cup {m.item.cand : m \in member}
     /\ heir[seen[g]] = finding[f].cand}

ResultMatchesStore ==
  phase = "reported" /\ faults = 0 =>
    \A f \in Returned \ FoldedThisRun :
                        /\ result[f].lenses = finding[f].lenses
                        /\ result[f].sites = finding[f].sites

=============================================================================
