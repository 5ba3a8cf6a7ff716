--------------------------- MODULE DaemonCycles ----------------------------
(* The daemon's scan cycles against a repository that moves under them:    *)
(* the poll cycle (watermark, renames, targeted scan), the sweep cycle     *)
(* (anti-starvation order, coverage stamps, hash refresh) and the          *)
(* re-verification that ends both. The process may die between any two     *)
(* statements. Finder and verifier agents are nondeterministic outcomes;   *)
(* the verify, severity and publish steps of the post-cycle pass are       *)
(* TriageVerify and Publisher.                                             *)
EXTENDS Integers, Sequences, FiniteSets, SequencesExt

CONSTANTS
  Paths,          (* repository paths                                      *)
  Files,          (* the paths tracked by the first commit                 *)
  Remote,         (* has the clone a remote, so the tree lags the tip?     *)
  NoContent,      (* what an absent path holds                             *)
  MaxCommits, MaxTroubles, MaxDismissals                         (* bounds *)

(* A file keeps its lineage, the path it was created at, when it is        *)
(* renamed; an edit gives it a version of its own. One defect is claimed   *)
(* per lineage, so a fingerprint is a path and a lineage:                  *)
(* domain.FingerprintV3 hashes the path in.                                *)
Content == [file : Paths, ver : 0..MaxCommits]
Trees   == [Paths -> Content \cup {NoContent}]
Fps     == Paths \X Paths
NoFp    == <<>>

ASSUME DaemonCyclesAssumption ==
  /\ Files \subseteq Paths /\ IsFiniteSet(Paths) /\ Remote \in BOOLEAN
  /\ NoContent \notin Content
  /\ MaxCommits \in Nat /\ MaxTroubles \in Nat /\ MaxDismissals \in Nat

VARIABLES
  hist,         (* the commits, each as its tree; the last one is the tip  *)
  tree,         (* index of the commit the working tree is at              *)
  lastSeen,     (* the watermark: index of a commit, 0 is no baseline      *)
  row,          (* findings: status and the content hash it is anchored to *)
  suppressed,   (* fingerprints in suppressions                            *)
  covered,      (* file_state paths with a scan time, the stalest first    *)
  mark,         (* file_state.content_hash                                 *)
  pc,           (* the daemon's next statement                             *)
  sweep,        (* is the cycle a sweep?                                   *)
  from, head,   (* the range of the poll                                   *)
  changed,      (* ... its changed paths                                   *)
  renames,      (* ... its renames still to apply                          *)
  targets,      (* files the scan has still to cover, in order             *)
  ran,          (* has the scan run a unit?                                *)
  fps,          (* fingerprints computed when the scan began               *)
  open,         (* open findings re-verification has still to visit        *)
  cur, curHash, (* the finding before its panel, and the hash read for it  *)
  scanned,      (* history: contents a finder unit read                    *)
  judged,       (* history: contents a panel judged the claim on           *)
  troubles,     (* crashes, failed statements and skipped cycles so far    *)
  dismissals

git     == <<hist, tree>>
store   == <<lastSeen, row, suppressed, covered, mark>>
range   == <<from, head, changed, renames>>
scan    == <<sweep, targets, ran, fps>>
visit   == <<open, cur, curHash>>
history == <<scanned, judged>>
vars    == <<hist, tree, lastSeen, row, suppressed, covered, mark, pc, sweep,
             from, head, changed, renames, targets, ran, fps, open, cur,
             curHash, scanned, judged, troubles, dismissals>>

Pcs == {"down", "idle", "save", "renames", "gate", "scan", "refresh",
        "list", "reverify", "judge", "anchor"}

Tip  == Len(hist)
Tree == hist[tree]
Present == {p \in Paths : Tree[p] # NoContent}

EmptyTree == [p \in Paths |-> NoContent]
NoRow == [status |-> "absent", hash |-> NoContent]

TypeOK ==
  /\ hist \in Seq(Trees) /\ tree \in 1..Tip /\ lastSeen \in 0..Tip
  /\ row \in [Fps -> [status : {"absent", "open", "fixed", "dismissed"},
                      hash : Content \cup {NoContent}]]
  /\ suppressed \subseteq Fps
  /\ covered \in Seq(Paths) /\ IsInjective(covered)
  /\ mark \in Trees
  /\ pc \in Pcs /\ sweep \in BOOLEAN
  /\ from \in 0..Tip /\ head \in 0..Tip
  /\ changed \subseteq Paths /\ renames \subseteq Paths \X Paths
  /\ targets \in Seq(Paths) /\ ran \in BOOLEAN /\ fps \in Trees
  /\ open \subseteq Fps /\ cur \in Fps \cup {NoFp}
  /\ curHash \in Content \cup {NoContent}
  /\ scanned \subseteq Content /\ judged \subseteq Content
  /\ troubles \in 0..MaxTroubles /\ dismissals \in 0..MaxDismissals

(* The process keeps nothing in memory from one cycle to the next.         *)
ForgetRange == from' = 0 /\ head' = 0 /\ changed' = {} /\ renames' = {}
ForgetScan  == sweep' = FALSE /\ targets' = <<>> /\ ran' = FALSE /\ fps' = EmptyTree
ForgetVisit == open' = {} /\ cur' = NoFp /\ curHash' = NoContent
EndCycle(next) == pc' = next /\ ForgetRange /\ ForgetScan /\ ForgetVisit

Init ==
  /\ hist = <<[p \in Paths |-> IF p \in Files THEN [file |-> p, ver |-> 0]
                               ELSE NoContent]>>
  /\ tree = 1 /\ lastSeen = 0
  /\ row = [fp \in Fps |-> NoRow] /\ suppressed = {}
  /\ covered = <<>> /\ mark = EmptyTree
  /\ pc = "idle"
  /\ from = 0 /\ head = 0 /\ changed = {} /\ renames = {}
  /\ sweep = FALSE /\ targets = <<>> /\ ran = FALSE /\ fps = EmptyTree
  /\ open = {} /\ cur = NoFp /\ curHash = NoContent
  /\ scanned = {} /\ judged = {}
  /\ troubles = 0 /\ dismissals = 0

At(label)  == pc = label
Goto(label) == pc' = label
Unfaulted == UNCHANGED troubles
Trouble   == troubles < MaxTroubles /\ troubles' = troubles + 1
Fault     == Trouble    \* a statement of the store, of git or of an agent fails

-----------------------------------------------------------------------------
(* The environment: the developers, the operator, the machine.             *)

Renamed(t, p, q) == [t EXCEPT ![p] = NoContent, ![q] = t[p]]
Edited(t, p)     == [t EXCEPT ![p].ver = Tip]
Deleted(t, p)    == [t EXCEPT ![p] = NoContent]
Created(t, p)    == [t EXCEPT ![p] = [file |-> p, ver |-> Tip]]
Reverted(t, p, i) == [t EXCEPT ![p] = hist[i][p]]

CommitsTo(t) ==
  LET used == {p \in Paths : t[p] # NoContent}  free == Paths \ used IN
       {Edited(t, p) : p \in used} \cup {Deleted(t, p) : p \in used}
  \cup {Created(t, p) : p \in free}
  \cup {Renamed(t, pq[1], pq[2]) : pq \in used \X free}
  \cup ({Reverted(t, p, i) : p \in Paths, i \in 1..Tip} \ {t})

Commit ==
  /\ Tip <= MaxCommits
  /\ \E t \in CommitsTo(hist[Tip]) : hist' = Append(hist, t)
  /\ tree' = IF Remote THEN tree ELSE Tip + 1
  /\ UNCHANGED <<store, pc, range, scan, visit, history, troubles, dismissals>>

(* The tree of a clone follows its remote only when somebody pulls.        *)
Pull ==
  /\ tree < Tip
  /\ tree' = Tip
  /\ UNCHANGED <<hist, store, pc, range, scan, visit, history, troubles, dismissals>>

(* The writer lock admits `report dismiss` only between cycles.            *)
Dismiss(fp) ==
  /\ pc \in {"idle", "down"} /\ dismissals < MaxDismissals
  /\ row[fp].status = "open"
  /\ row' = [row EXCEPT ![fp].status = "dismissed"]
  /\ suppressed' = suppressed \cup {fp}
  /\ dismissals' = dismissals + 1
  /\ UNCHANGED <<git, lastSeen, covered, mark, pc, range, scan, visit, history,
                 troubles>>

Crash ==
  /\ ~At("down") /\ Trouble
  /\ EndCycle("down")
  /\ UNCHANGED <<git, store, history, dismissals>>

Restart ==
  /\ At("down") /\ Goto("idle")
  /\ UNCHANGED <<git, store, range, scan, visit, history, troubles, dismissals>>

-----------------------------------------------------------------------------
(* runPoll: Poll compares the tip with the watermark; a corrupt database,  *)
(* a failed load or a failed poll ends the cycle before it began.          *)

PollStart ==
  /\ At("idle") /\ Goto("save")
  /\ from' = lastSeen /\ head' = Tip
  /\ UNCHANGED <<git, store, changed, renames, scan, visit, history, troubles, dismissals>>

(* git diff -M: a path that vanished and one that appeared with the same   *)
(* lineage are a rename; its two paths are both changed paths.             *)
ChangedFiles(a, b) == {p \in Paths : hist[a][p] # hist[b][p]}
RenamesSince(a, b) ==
  {r \in ChangedFiles(a, b) \X ChangedFiles(a, b) :
     LET old == hist[a][r[1]]  new == hist[b][r[2]] IN
     /\ old # NoContent /\ hist[b][r[1]] = NoContent
     /\ new # NoContent /\ hist[a][r[2]] = NoContent
     /\ old.file = new.file}

(* The watermark moves to the tip before anything is done about its range; *)
(* a failure to save it is not fatal. The range is diffed twice, for the   *)
(* changed paths and for the renames; a diff that fails finds nothing.     *)
AdvanceWatermark ==
  \/ lastSeen' = head /\ Unfaulted
  \/ UNCHANGED lastSeen /\ Fault

SaveLastSeen ==
  /\ At("save") /\ AdvanceWatermark
  /\ IF from \in {0, head}
     THEN EndCycle("idle")
     ELSE /\ Goto("renames")
          /\ changed' \in {ChangedFiles(from, head), {}}
          /\ renames' \in {RenamesSince(from, head), {}}
          /\ UNCHANGED <<from, head, scan, visit>>
  /\ UNCHANGED <<git, row, suppressed, covered, mark, history, dismissals>>

RowsAt(p) == {fp \in Fps : fp[1] = p /\ row[fp].status # "absent"}
Moved(fp, q) == <<q, fp[2]>>

(* Which fingerprint's row or suppression a rewritten one takes over.      *)
Rewrites(p, q, rows) ==
  [fp \in Fps |-> IF fp[1] = q /\ <<p, fp[2]>> \in rows THEN <<p, fp[2]>>
                  ELSE IF fp \in rows THEN NoFp ELSE fp]
ForgetsSuppression(p, q, rows) == suppressed \ rows             \* mutant
CarriedSuppressions(p, q, rows) ==
  (suppressed \ rows) \cup {Moved(fp, q) : fp \in suppressed \cap rows}

(* RenameFindingIdentity, one transaction: every row of the old path moves *)
(* with its suppression; a taken fingerprint rolls all of it back, and the *)
(* daemon goes on to the next rename.                                      *)
ApplyRename ==
  /\ At("renames")
  /\ \E r \in renames :
       LET rows  == RowsAt(r[1])
           moved == Rewrites(r[1], r[2], rows)
           taken == \E fp \in rows : row[Moved(fp, r[2])].status # "absent"
       IN
       /\ renames' = renames \ {r}
       /\ \/ ~taken /\ Unfaulted
             /\ row' = [fp \in Fps |-> IF moved[fp] = NoFp THEN NoRow ELSE row[moved[fp]]]
             /\ suppressed' = CarriedSuppressions(r[1], r[2], rows)
          \/ taken /\ Unfaulted /\ UNCHANGED <<row, suppressed>>
          \/ Fault /\ UNCHANGED <<row, suppressed>>
  /\ UNCHANGED <<git, lastSeen, covered, mark, pc, from, head, changed, scan,
                 visit, history, dismissals>>

RenamesApplied ==
  /\ At("renames") /\ renames = {} /\ Goto("gate")
  /\ UNCHANGED <<git, store, range, scan, visit, history, troubles, dismissals>>

Skip == Trouble         \* the day's tokens are spent

BudgetSkips ==
  /\ At("gate") /\ Skip /\ EndCycle("idle")
  /\ UNCHANGED <<git, store, history, dismissals>>

(* Nothing in scope changed: re-verification only.                         *)
NothingToScan ==
  /\ At("gate") /\ changed = {} /\ Goto("list")
  /\ UNCHANGED <<git, store, range, scan, visit, history, troubles, dismissals>>

BeginScan(isSweep, files) ==
  /\ Goto("scan")
  /\ sweep' = isSweep /\ targets' = files /\ ran' = FALSE /\ fps' = Tree

(* Targeted scans the working tree, whatever the tip: the changed files    *)
(* and whatever depends on them.                                           *)
BlastRadii == {radius \in SUBSET Paths : changed \subseteq radius}

Targeted ==
  /\ At("gate") /\ changed # {}
  /\ \E radius \in BlastRadii : BeginScan(FALSE, SetToSeq(radius \cap Present))
  /\ UNCHANGED <<git, store, range, visit, history, troubles, dismissals>>

-----------------------------------------------------------------------------
(* runSweep.                                                               *)

ScanWatermarks == ToSet(covered)
NeedsScan == {p \in Present : p \notin ScanWatermarks \/ mark[p] # Tree[p]}

(* applySweepOrder: what was never scanned or changed since comes first,   *)
(* in an order of heat; the rest follows, the stalest first.               *)
AlwaysAlphabetical == {SetToSeq(Present)}                       \* mutant
Precedes(s, p, q) == \E i, j \in DOMAIN s : i < j /\ s[i] = p /\ s[j] = q
SweepOrders ==
  {o \in SetToSeqs(Present) : \A i, j \in DOMAIN o : i < j =>
     \/ o[i] \in NeedsScan
     \/ o[j] \notin NeedsScan /\ Precedes(covered, o[i], o[j])}

SweepStart ==
  /\ At("idle")
  /\ \E files \in SweepOrders : BeginScan(TRUE, files)
  /\ UNCHANGED <<git, store, range, visit, history, troubles, dismissals>>

SweepSkipped ==
  /\ At("idle") /\ Skip
  /\ UNCHANGED <<git, store, pc, range, scan, visit, history, dismissals>>

(* A surviving claim is stored with the hash taken when the scan began.    *)
Claim(p, c) ==
  LET fp == <<p, c.file>> IN
  /\ fp \notin suppressed
  /\ row' = [row EXCEPT ![fp] = [status |-> "open", hash |-> fps[p]]]
  /\ judged' = judged \cup {c}

InsertsAgain(p) ==                                              \* mutant
  /\ covered' = Append(covered, p)
  /\ mark' = [mark EXCEPT ![p] = fps[p]]
TouchScanCoverage(p) ==
  /\ covered' = Append(RemoveFirst(covered, p), p)
  /\ mark' = [mark EXCEPT ![p] = fps[p]]

(* One finder unit: it reads a file and may make a claim that survives its *)
(* panel. Only a sweep stamps coverage, and only for a unit that succeeds. *)
(* A file gone since the scan began is read as nothing.                    *)
FinderUnit ==
  /\ At("scan") /\ targets # <<>>
  /\ targets' = Tail(targets) /\ ran' = TRUE
  /\ LET p == Head(targets)  c == Tree[p] IN
     \/ /\ Unfaulted
        /\ scanned' = scanned \cup ({c} \ {NoContent})
        /\ \/ c # NoContent /\ Claim(p, c)
           \/ UNCHANGED <<row, judged>>
        /\ IF sweep THEN TouchScanCoverage(p) ELSE UNCHANGED <<covered, mark>>
     \/ Fault /\ UNCHANGED <<row, covered, mark, history>>
  /\ UNCHANGED <<git, lastSeen, suppressed, pc, range, sweep, fps, visit, dismissals>>

(* All targets are done, or the token budget ends the scan after some.     *)
ScanEnds ==
  /\ At("scan") /\ (ran \/ targets = <<>>)
  /\ IF sweep THEN Goto("refresh") ELSE Goto("list")
  /\ UNCHANGED <<git, store, range, scan, visit, history, troubles, dismissals>>

(* The run returns an error: no refresh, no post-cycle pass.               *)
ScanFails ==
  /\ At("scan") /\ Fault /\ EndCycle("idle")
  /\ UNCHANGED <<git, store, history, dismissals>>

(* refreshWatermarks: the hashes of all files, scanned or not; scan times  *)
(* stay.                                                                   *)
Rehashed == [p \in Paths |-> IF p \in Present THEN Tree[p] ELSE mark[p]]

RefreshContentHashes ==
  /\ At("refresh") /\ Goto("list")
  /\ \/ mark' = Rehashed /\ Unfaulted
     \/ UNCHANGED mark /\ Fault
  /\ UNCHANGED <<git, lastSeen, row, suppressed, covered, range, scan, visit,
                 history, dismissals>>

-----------------------------------------------------------------------------
(* postCycle: reverifyOpenFindings.                                        *)

ListFindings ==
  /\ At("list") /\ Goto("reverify")
  /\ open' = {fp \in Fps : row[fp].status = "open"}
  /\ UNCHANGED <<git, store, range, scan, cur, curHash, history, troubles, dismissals>>

MarkFixed(fp) == row' = [row EXCEPT ![fp].status = "fixed"]

(* What re-verification does about a file that is gone, or about one whose *)
(* hash is not the finding's. `past` says that the claimed line is beyond  *)
(* the end of the new content.                                             *)
SkipsMissing(c, hash, past) ==                                  \* mutant
  CASE c = NoContent -> "keep" [] c = hash -> "keep" [] past -> "fixed" [] OTHER -> "judge"
Verdict(c, hash, past) ==
  CASE c = NoContent -> "fixed"
    [] c = hash      -> "keep"
    [] past          -> "fixed"
    [] OTHER         -> "judge"

Reverify ==
  /\ At("reverify")
  /\ \E fp \in open, past \in BOOLEAN :
       LET c == Tree[fp[1]]  v == Verdict(c, row[fp].hash, past) IN
       /\ open' = open \ {fp}
       /\ \/ v = "keep"  /\ UNCHANGED <<row, pc, cur, curHash>> /\ Unfaulted
          \/ v = "fixed" /\ MarkFixed(fp) /\ UNCHANGED <<pc, cur, curHash>> /\ Unfaulted
          \/ v = "judge" /\ Goto("judge") /\ cur' = fp /\ curHash' = c
             /\ UNCHANGED row /\ Unfaulted
          \/ Fault /\ UNCHANGED <<row, pc, cur, curHash>>
  /\ UNCHANGED <<git, lastSeen, suppressed, covered, mark, range, scan, history, dismissals>>

Visited(label) == Goto(label) /\ cur' = NoFp /\ curHash' = NoContent

(* VerifyFinding: the panel reads the tree as it is by now; one that finds *)
(* the file gone counts as judging the content it was called for.          *)
Judge ==
  /\ At("judge")
  /\ judged' = judged \cup {IF cur[1] \in Present THEN Tree[cur[1]] ELSE curHash}
  /\ \/ MarkFixed(cur) /\ Visited("reverify") /\ Unfaulted
     \/ UNCHANGED row /\ Goto("anchor") /\ UNCHANGED <<cur, curHash>> /\ Unfaulted
     \/ UNCHANGED row /\ Visited("reverify") /\ Fault
  /\ UNCHANGED <<git, lastSeen, suppressed, covered, mark, range, scan, open,
                 scanned, dismissals>>

(* The finding survived: it is anchored to the hash read before the panel. *)
HashOfNow == Tree[cur[1]]                                       \* mutant
AnchorHash == curHash

Anchor ==
  /\ At("anchor") /\ Visited("reverify")
  /\ \/ row' = [row EXCEPT ![cur] = [status |-> "open", hash |-> AnchorHash]] /\ Unfaulted
     \/ UNCHANGED row /\ Fault
  /\ UNCHANGED <<git, lastSeen, suppressed, covered, mark, range, scan, open,
                 history, dismissals>>

CycleDone ==
  /\ At("reverify") /\ open = {} /\ EndCycle("idle")
  /\ UNCHANGED <<git, store, history, troubles, dismissals>>

-----------------------------------------------------------------------------
Cycle ==
  \/ SaveLastSeen \/ ApplyRename \/ RenamesApplied \/ BudgetSkips
  \/ NothingToScan \/ Targeted \/ FinderUnit \/ ScanEnds \/ ScanFails
  \/ RefreshContentHashes \/ ListFindings \/ Reverify \/ Judge \/ Anchor
  \/ CycleDone

Next ==
  \/ Commit \/ Pull \/ (\E fp \in Fps : Dismiss(fp)) \/ Crash \/ Restart
  \/ PollStart \/ SweepStart \/ SweepSkipped \/ Cycle

Spec == Init /\ [][Next]_vars

(* The daemon is restarted, its cycles end, and the sweep timer comes up   *)
(* again and again; who commits, pulls or dismisses owes nothing.          *)
FairSpec ==
  Spec /\ WF_vars(Restart) /\ WF_vars(Cycle) /\ SF_vars(SweepStart)

-----------------------------------------------------------------------------
(* Properties.                                                             *)

(* Re-verification leaves a finding alone whose hash is that of its file   *)
(* (postcycle.go:185). An open finding is anchored to a content that a     *)
(* panel judged the claim on, or to one that its file had lost before the  *)
(* panel met it, however commits and pulls fall between hash, panel and    *)
(* upsert: so the hash protects an unjudged content only if somebody       *)
(* brings that very content back.                                          *)
Displaced(c) ==
  \E i, j \in 1..tree, p \in Paths : i < j /\ hist[i][p] = c /\ hist[j][p] # c
AnchorWasJudged ==
  \A fp \in Fps : row[fp].status = "open" => row[fp].hash \in judged \/ Displaced(row[fp].hash)

(* A dismissal and its suppression move together through every rename,     *)
(* whether it succeeds, collides or dies half way (store/rename.go:81-122).*)
DismissalKeepsSuppression ==
  \A fp \in Fps : row[fp].status = "dismissed" <=> fp \in suppressed

(* Every version that stays in the tree is scanned in the end, although    *)
(* the watermark has moved past commits whose cycle died, was skipped or   *)
(* failed (cycle.go:67), sweeps are cut short, and the refresh demotes     *)
(* changed files (run_sweep.go:28-32).                                     *)
EveryVersionScanned ==
  <>[](\A p \in Present : Tree[p] \in scanned)

(* Open findings end up anchored to the code as it is, or closed.          *)
FindingsFollowCode ==
  <>[](\A fp \in Fps : row[fp].status = "open" =>
         Tree[fp[1]] # NoContent /\ row[fp].hash = Tree[fp[1]])

=============================================================================
