------------------------- MODULE DaemonCycles_proofs -------------------------
(***************************************************************************)
(* Theorems about DaemonCycles, for any set of paths, any number of        *)
(* commits, troubles and dismissals, with and without a remote.            *)
(***************************************************************************)
EXTENDS DaemonCycles, FiniteSetTheorems, SequenceTheorems, TLAPS

(* While a panel judges a finding and its row is written there is one, and *)
(* its file was read.                                                      *)
AtHand  == pc \in {"judge", "anchor"} => cur \in Fps /\ curHash \in Content
TypeInv == TypeOK /\ AtHand

-----------------------------------------------------------------------------
(* Sequences, trees and commits.                                           *)

LEMMA SetToSeqFacts ==
  ASSUME NEW S, NEW T, IsFiniteSet(S), S \subseteq T
  PROVE  SetToSeq(S) \in Seq(T) /\ SetToSeqs(S) \subseteq Seq(T)
<1>1. Cardinality(S) \in Nat /\ ExistsBijection(1..Cardinality(S), S)
  BY FS_CardinalityType
<1>2. \E f \in [1..Cardinality(S) -> S] : IsInjective(f)
  BY <1>1 DEF ExistsBijection, Bijection, Injection
<1>3. SetToSeq(S) \in [1..Cardinality(S) -> S]
  BY <1>2 DEF SetToSeq
<1>4. [1..Cardinality(S) -> S] \subseteq Seq(T)
  BY <1>1, SeqDef
<1>5. SetToSeqs(S) \subseteq [1..Cardinality(S) -> S]
  BY DEF SetToSeqs
<1>6. QED
  BY <1>3, <1>4, <1>5

LEMMA RemoveFirstProperties ==
  ASSUME NEW S, NEW s \in Seq(S), NEW i \in 1..Len(s),
         \A j \in 1..Len(s) : s[j] = s[i] => j = i
  PROVE  /\ RemoveFirst(s, s[i]) \in Seq(S)
         /\ Len(RemoveFirst(s, s[i])) = Len(s) - 1
         /\ \A j \in 1..(Len(s) - 1) :
              RemoveFirst(s, s[i])[j] = IF j < i THEN s[j] ELSE s[j + 1]
<1> DEFINE found == {j \in 1..Len(s) : s[j] = s[i]}
<1>1. Len(s) \in Nat /\ \A j \in 1..Len(s) : s[j] \in S
  BY LenProperties, ElementOfSeq
<1>2. found = {i}
  BY <1>1
<1>3. Min(found) = i
  BY <1>1, <1>2 DEF Min
<1>4. SelectInSeq(s, LAMBDA v : v = s[i]) = i
  BY <1>2, <1>3 DEF SelectInSeq
<1>5. RemoveFirst(s, s[i]) = SubSeq(s, 1, i - 1) \o SubSeq(s, i + 1, Len(s))
  BY <1>4 DEF RemoveFirst, RemoveAt
<1>6. /\ SubSeq(s, 1, i - 1) \in Seq(S) /\ Len(SubSeq(s, 1, i - 1)) = i - 1
      /\ \A j \in 1..(i - 1) : SubSeq(s, 1, i - 1)[j] = s[j]
  BY <1>1, SubSeqProperties
<1>7. /\ SubSeq(s, i + 1, Len(s)) \in Seq(S)
      /\ Len(SubSeq(s, i + 1, Len(s))) = Len(s) - i
      /\ \A j \in 1..(Len(s) - i) : SubSeq(s, i + 1, Len(s))[j] = s[j + i]
  BY <1>1, SubSeqProperties
<1> DEFINE t == SubSeq(s, 1, i - 1)
           w == SubSeq(s, i + 1, Len(s))
<1> HIDE DEF t, w
<1>8. t \in Seq(S) /\ w \in Seq(S) /\ Len(t) = i - 1 /\ Len(w) = Len(s) - i
  BY <1>6, <1>7 DEF t, w
<1>9. /\ t \o w \in Seq(S) /\ Len(t \o w) = Len(t) + Len(w)
      /\ \A j \in 1..(Len(t) + Len(w)) :
           (t \o w)[j] = IF j <= Len(t) THEN t[j] ELSE w[j - Len(t)]
  BY <1>8, ConcatProperties
<1>10. Len(t) + Len(w) = Len(s) - 1
  BY <1>1, <1>8
<1>11. ASSUME NEW j \in 1..(Len(s) - 1)
      PROVE  (t \o w)[j] = IF j < i THEN s[j] ELSE s[j + 1]
  <2>1. (t \o w)[j] = IF j <= Len(t) THEN t[j] ELSE w[j - Len(t)]
    BY <1>9, <1>10
  <2>2. CASE j < i
    BY <1>1, <1>6, <1>8, <2>1, <2>2 DEF t
  <2>3. CASE ~(j < i)
    <3>1. j - (i - 1) \in 1..(Len(s) - i) /\ (j - (i - 1)) + i = j + 1
      BY <1>1, <2>3
    <3>2. w[j - (i - 1)] = s[j + 1]
      BY <1>7, <3>1 DEF w
    <3>3. (t \o w)[j] = w[j - (i - 1)]
      BY <1>1, <1>8, <2>1, <2>3
    <3>4. QED
      BY <2>3, <3>2, <3>3
  <2>4. QED
    BY <2>2, <2>3
<1>12. RemoveFirst(s, s[i]) = t \o w
  BY <1>5 DEF t, w
<1>13. QED
  BY <1>9, <1>10, <1>11, <1>12

LEMMA TreeFacts ==
  ASSUME TypeOK
  PROVE  /\ Tip \in Nat /\ Tip >= 1 /\ tree \in 1..Tip
         /\ \A i \in 1..Tip : hist[i] \in Trees
         /\ Tree \in Trees
         /\ Present \subseteq Paths /\ IsFiniteSet(Present)
         /\ \A p \in Present : Tree[p] \in Content
<1>1. Tip \in Nat /\ \A i \in 1..Tip : hist[i] \in Trees
  BY LenProperties, ElementOfSeq DEF TypeOK, Tip
<1>2. Tip >= 1 /\ tree \in 1..Tip
  BY <1>1 DEF TypeOK
<1>3. Tree \in Trees
  BY <1>1, <1>2 DEF Tree
<1>4. Present \subseteq Paths /\ \A p \in Present : Tree[p] \in Content
  BY <1>3 DEF Present, Trees
<1>5. IsFiniteSet(Present)
  BY <1>4, FS_Subset, DaemonCyclesAssumption
<1>6. QED
  BY <1>1, <1>2, <1>3, <1>4, <1>5

(* What can be committed is a tree.                                        *)
LEMMA CommitsAreTrees ==
  ASSUME TypeOK, Tip <= MaxCommits, NEW t \in CommitsTo(hist[Tip])
  PROVE  t \in Trees
<1> DEFINE old == hist[Tip]
<1>1. old \in Trees /\ \A i \in 1..Tip : hist[i] \in Trees
  BY TreeFacts
<1>2. Tip \in 0..MaxCommits
  BY TreeFacts, DaemonCyclesAssumption
<1>3. \A p \in Paths : old[p] # NoContent => old[p] \in Content
  BY <1>1 DEF Trees
<1> HIDE DEF old
<1>4. ASSUME NEW p \in Paths, old[p] # NoContent PROVE Edited(old, p) \in Trees
  <2>1. [old[p] EXCEPT !.ver = Tip] \in Content
    BY <1>2, <1>3, <1>4 DEF Content
  <2>2. QED
    BY <1>1, <2>1 DEF Edited, Trees
<1>5. ASSUME NEW p \in Paths PROVE Deleted(old, p) \in Trees
  BY <1>1 DEF Deleted, Trees
<1>6. ASSUME NEW p \in Paths PROVE Created(old, p) \in Trees
  BY <1>1, <1>2 DEF Created, Trees, Content
<1>7. ASSUME NEW p \in Paths, NEW q \in Paths PROVE Renamed(old, p, q) \in Trees
  BY <1>1 DEF Renamed, Trees
<1>8. ASSUME NEW p \in Paths, NEW i \in 1..Tip PROVE Reverted(old, p, i) \in Trees
  BY <1>1 DEF Reverted, Trees
<1>9. QED
  BY <1>4, <1>5, <1>6, <1>7, <1>8 DEF CommitsTo, old

(* The history only grows, and the working tree only moves forward.        *)
HistoryGrows ==
  /\ tree' \in Nat /\ tree <= tree' /\ tree' \in 1..Len(hist')
  /\ \A i \in 1..tree : hist'[i] = hist[i]

LEMMA GitGrows ==
  ASSUME TypeInv, [Next]_vars
  PROVE  HistoryGrows /\ Tip <= Tip' /\ hist' \in Seq(Trees)
<1>1. hist \in Seq(Trees) /\ Tip \in Nat /\ tree \in 1..Tip
  BY TreeFacts DEF TypeInv, TypeOK
<1>2. CASE Commit
  <2>1. PICK t \in CommitsTo(hist[Tip]) : hist' = Append(hist, t)
    BY <1>2 DEF Commit
  <2>2. t \in Trees
    BY <1>2, CommitsAreTrees DEF Commit, TypeInv
  <2>3. /\ hist' \in Seq(Trees) /\ Len(hist') = Tip + 1
        /\ \A i \in 1..Tip : hist'[i] = hist[i]
    BY <1>1, <2>1, <2>2, AppendProperties DEF Tip
  <2>4. tree' \in {tree, Tip + 1}
    BY <1>2 DEF Commit
  <2>5. QED
    BY <1>1, <2>3, <2>4 DEF HistoryGrows, Tip
<1>3. CASE Pull
  BY <1>1, <1>3 DEF Pull, HistoryGrows, Tip
<1>4. CASE UNCHANGED <<hist, tree>>
  BY <1>1, <1>4 DEF HistoryGrows, Tip
<1>5. QED
  BY <1>2, <1>3, <1>4
     DEF Next, Cycle, vars, git, Dismiss, Crash, Restart, PollStart,
         SweepStart, SweepSkipped, SaveLastSeen, ApplyRename, RenamesApplied,
         BudgetSkips, NothingToScan, Targeted, FinderUnit, ScanEnds, ScanFails,
         RefreshContentHashes, ListFindings, Reverify, Judge, Anchor, CycleDone

-----------------------------------------------------------------------------
(* Types.                                                                  *)

(* The parts of TypeOK that steps disturb together.                        *)
GitOK ==
  /\ hist \in Seq(Trees) /\ tree \in 1..Tip /\ lastSeen \in 0..Tip
  /\ from \in 0..Tip /\ head \in 0..Tip
RowsOK ==
  /\ row \in [Fps -> [status : {"absent", "open", "fixed", "dismissed"},
                      hash : Content \cup {NoContent}]]
  /\ suppressed \subseteq Fps
CoverageOK ==
  /\ covered \in Seq(Paths) /\ IsInjective(covered) /\ mark \in Trees
ScanOK ==
  /\ sweep \in BOOLEAN
  /\ changed \subseteq Paths /\ renames \subseteq Paths \X Paths
  /\ targets \in Seq(Paths) /\ ran \in BOOLEAN /\ fps \in Trees
VisitOK ==
  /\ pc \in Pcs
  /\ open \subseteq Fps /\ cur \in Fps \cup {NoFp}
  /\ curHash \in Content \cup {NoContent}
  /\ AtHand
HistoryOK ==
  /\ scanned \subseteq Content /\ judged \subseteq Content
  /\ troubles \in 0..MaxTroubles /\ dismissals \in 0..MaxDismissals

LEMMA TypeInvParts ==
  TypeInv <=> GitOK /\ RowsOK /\ CoverageOK /\ ScanOK /\ VisitOK /\ HistoryOK
BY DEF TypeInv, TypeOK, GitOK, RowsOK, CoverageOK, ScanOK, VisitOK, HistoryOK

LEMMA TypeInvPartsNext ==
  TypeInv' <=> GitOK' /\ RowsOK' /\ CoverageOK' /\ ScanOK' /\ VisitOK' /\ HistoryOK'
BY TypeInvParts, PTL

(* What a cycle forgets when it ends has the right types.                  *)
LEMMA EndCycleTypes ==
  ASSUME NEW next \in Pcs \ {"judge", "anchor"}, EndCycle(next), TypeInv,
         hist' = hist
  PROVE  /\ ScanOK' /\ VisitOK'
         /\ tree' = tree /\ lastSeen' \in 0..Tip => GitOK'
<1>1. EmptyTree \in Trees
  BY DEF EmptyTree, Trees
<1>2. <<>> \in Seq(Paths)
  BY EmptySeq
<1>3. Tip' = Tip /\ Tip \in Nat
  BY TreeFacts DEF Tip, TypeInv
<1>4. ScanOK'
  BY <1>1, <1>2 DEF EndCycle, ForgetRange, ForgetScan, ScanOK
<1>5. VisitOK'
  BY DEF EndCycle, ForgetVisit, VisitOK, AtHand
<1>6. ASSUME tree' = tree, lastSeen' \in 0..Tip PROVE GitOK'
  <2>1. from' = 0 /\ head' = 0
    BY DEF EndCycle, ForgetRange
  <2>2. hist' \in Seq(Trees) /\ tree' \in 1..Tip'
    BY <1>3, <1>6 DEF TypeInv, TypeOK
  <2>3. QED
    BY <1>3, <1>6, <2>1, <2>2 DEF GitOK
<1>7. QED
  BY <1>4, <1>5, <1>6

LEMMA InitTyped == Init => TypeInv
<1> SUFFICES ASSUME Init PROVE TypeInv
  OBVIOUS
<1>1. EmptyTree \in Trees
  BY DEF EmptyTree, Trees
<1>2. <<>> \in Seq(Paths) /\ IsInjective(<<>>)
  <2>1. DOMAIN <<>> = {}
    BY EmptySeq, LenProperties
  <2>2. QED
    BY <2>1, EmptySeq DEF IsInjective
<1> DEFINE t == [p \in Paths |-> IF p \in Files THEN [file |-> p, ver |-> 0] ELSE NoContent]
<1>3. t \in Trees
  BY DaemonCyclesAssumption DEF Trees, Content
<1>4. hist \in Seq(Trees) /\ Tip = 1
  BY <1>3 DEF Init, Tip
<1>5. GitOK
  BY <1>4 DEF GitOK, Init
<1>6. RowsOK
  BY DEF RowsOK, Init, NoRow
<1>7. CoverageOK /\ ScanOK
  BY <1>1, <1>2 DEF CoverageOK, ScanOK, Init
<1>8. VisitOK /\ HistoryOK
  BY DaemonCyclesAssumption DEF VisitOK, HistoryOK, AtHand, Init, Pcs
<1>9. QED
  BY <1>5, <1>6, <1>7, <1>8, TypeInvParts

(* The environment, and the daemon between cycles.                         *)
LEMMA OutsideTyped ==
  ASSUME TypeInv, Commit \/ Pull \/ (\E fp \in Fps : Dismiss(fp)) \/ Crash \/ Restart
                  \/ PollStart \/ SweepSkipped
  PROVE  TypeInv'
<1>1. HistoryGrows /\ Tip <= Tip' /\ hist' \in Seq(Trees) /\ Tip \in Nat /\ Tip' \in Nat
  <2>1. [Next]_vars
    BY DEF Next
  <2>2. hist' \in Seq(Trees) /\ HistoryGrows /\ Tip <= Tip' /\ Tip \in Nat
    BY <2>1, GitGrows, TreeFacts DEF TypeInv
  <2>3. QED
    BY <2>2, LenProperties DEF Tip
<1>2. /\ GitOK /\ RowsOK /\ CoverageOK /\ ScanOK /\ VisitOK /\ HistoryOK
  BY TypeInvParts
<1>3. CASE Commit \/ Pull
  <2>1. GitOK'
    <3>1. UNCHANGED <<lastSeen, from, head>>
      BY <1>3 DEF Commit, Pull, store, range
    <3>2. tree' \in 1..Tip'
      BY <1>1 DEF HistoryGrows, Tip
    <3>3. lastSeen' \in 0..Tip' /\ from' \in 0..Tip' /\ head' \in 0..Tip'
      BY <1>1, <1>2, <3>1 DEF GitOK
    <3>4. QED
      BY <1>1, <3>2, <3>3 DEF GitOK
  <2>2. RowsOK' /\ CoverageOK' /\ ScanOK' /\ VisitOK' /\ HistoryOK'
    BY <1>2, <1>3 DEF RowsOK, CoverageOK, ScanOK, VisitOK, HistoryOK, AtHand,
                      Commit, Pull, store, range, scan, visit, history
  <2>3. QED
    BY <2>1, <2>2, TypeInvPartsNext
<1>4. ASSUME NEW fp \in Fps, Dismiss(fp) PROVE TypeInv'
  <2>1. [row[fp] EXCEPT !.status = "dismissed"]
          \in [status : {"absent", "open", "fixed", "dismissed"},
               hash : Content \cup {NoContent}]
    BY <1>2 DEF RowsOK
  <2>2. RowsOK'
    BY <1>2, <1>4, <2>1 DEF RowsOK, Dismiss
  <2>3. GitOK' /\ CoverageOK' /\ ScanOK' /\ VisitOK'
    BY <1>2, <1>4 DEF GitOK, Tip, CoverageOK, ScanOK, VisitOK, AtHand,
                      Dismiss, git, range, scan, visit
  <2>4. HistoryOK'
    BY <1>2, <1>4, DaemonCyclesAssumption DEF HistoryOK, Dismiss, history
  <2>5. QED
    BY <2>2, <2>3, <2>4, TypeInvPartsNext
<1>5. CASE Crash
  <2>1. ScanOK' /\ VisitOK' /\ GitOK'
    BY <1>2, <1>5, EndCycleTypes DEF Crash, git, store, Pcs, GitOK
  <2>2. RowsOK' /\ CoverageOK'
    BY <1>2, <1>5 DEF RowsOK, CoverageOK, Crash, store
  <2>3. HistoryOK'
    BY <1>2, <1>5, DaemonCyclesAssumption DEF HistoryOK, Crash, history, Trouble
  <2>4. QED
    BY <2>1, <2>2, <2>3, TypeInvPartsNext
<1>6. CASE Restart \/ PollStart
  <2>1. GitOK'
    BY <1>1, <1>2, <1>6 DEF GitOK, Tip, Restart, PollStart, git, store, range
  <2>2. RowsOK' /\ CoverageOK' /\ ScanOK' /\ HistoryOK'
    BY <1>2, <1>6 DEF RowsOK, CoverageOK, ScanOK, HistoryOK, Restart, PollStart,
                      store, range, scan, history
  <2>3. VisitOK'
    BY <1>2, <1>6 DEF VisitOK, AtHand, Restart, PollStart, At, Goto, visit, Pcs
  <2>4. QED
    BY <2>1, <2>2, <2>3, TypeInvPartsNext
<1>7. CASE SweepSkipped
  <2>1. GitOK' /\ RowsOK' /\ CoverageOK' /\ ScanOK' /\ VisitOK'
    BY <1>2, <1>7 DEF GitOK, Tip, RowsOK, CoverageOK, ScanOK, VisitOK, AtHand,
                      SweepSkipped, git, store, range, scan, visit
  <2>2. HistoryOK'
    BY <1>2, <1>7, DaemonCyclesAssumption DEF HistoryOK, SweepSkipped, Skip, Trouble, history
  <2>3. QED
    BY <2>1, <2>2, TypeInvPartsNext
<1>8. QED
  BY <1>3, <1>4, <1>5, <1>6, <1>7

(* The statements of a cycle that leave git alone: what is left to show.   *)
LEMMA CycleLeavesGit ==
  ASSUME TypeInv, Cycle \/ SweepStart
  PROVE  /\ UNCHANGED <<hist, tree, dismissals>>
         /\ Tip' = Tip /\ Tree' = Tree /\ Present' = Present
<1>1. UNCHANGED <<hist, tree, dismissals>>
  BY DEF Cycle, SweepStart, git, SaveLastSeen, ApplyRename, RenamesApplied,
         BudgetSkips, NothingToScan, Targeted, FinderUnit, ScanEnds, ScanFails,
         RefreshContentHashes, ListFindings, Reverify, Judge, Anchor, CycleDone
<1>2. QED
  BY <1>1 DEF Tip, Tree, Present

(* Statements that keep rows, coverage and visit.                          *)
LEMMA PollTyped ==
  ASSUME TypeInv, SaveLastSeen \/ RenamesApplied \/ BudgetSkips \/ NothingToScan
                  \/ ScanEnds \/ ScanFails \/ CycleDone
  PROVE  TypeInv'
<1>1. /\ GitOK /\ RowsOK /\ CoverageOK /\ ScanOK /\ VisitOK /\ HistoryOK
  BY TypeInvParts
<1>2. UNCHANGED <<hist, tree, dismissals>> /\ Tip' = Tip /\ Tip \in Nat
  BY CycleLeavesGit, TreeFacts DEF Cycle, TypeInv
<1>3. RowsOK' /\ CoverageOK'
  BY <1>1 DEF RowsOK, CoverageOK, SaveLastSeen, RenamesApplied, BudgetSkips,
              NothingToScan, ScanEnds, ScanFails, CycleDone, store
<1>4. HistoryOK'
  BY <1>1, <1>2, DaemonCyclesAssumption
     DEF HistoryOK, SaveLastSeen, RenamesApplied, BudgetSkips, NothingToScan,
         ScanEnds, ScanFails, CycleDone, history, AdvanceWatermark, Unfaulted,
         Fault, Trouble, Skip
<1>5. CASE SaveLastSeen
  <2>1. lastSeen' \in 0..Tip
    BY <1>1, <1>5 DEF SaveLastSeen, AdvanceWatermark, GitOK
  <2>2. CASE from \in {0, head}
    <3>1. EndCycle("idle")
      BY <1>5, <2>2 DEF SaveLastSeen
    <3>2. ScanOK' /\ VisitOK' /\ GitOK'
      BY <1>2, <2>1, <3>1, EndCycleTypes DEF Pcs
    <3>3. QED
      BY <1>3, <1>4, <3>2, TypeInvPartsNext
  <2>3. CASE from \notin {0, head}
    <3>1. ChangedFiles(from, head) \subseteq Paths
          /\ RenamesSince(from, head) \subseteq Paths \X Paths
      BY DEF ChangedFiles, RenamesSince
    <3>2. changed' \subseteq Paths /\ renames' \subseteq Paths \X Paths
      BY <1>5, <2>3, <3>1 DEF SaveLastSeen
    <3>3. ScanOK'
      BY <1>1, <1>5, <2>3, <3>2 DEF SaveLastSeen, ScanOK, scan
    <3>4. GitOK' /\ VisitOK'
      BY <1>1, <1>2, <1>5, <2>1, <2>3
         DEF SaveLastSeen, GitOK, VisitOK, AtHand, visit, Goto, At, Pcs
    <3>5. QED
      BY <1>3, <1>4, <3>3, <3>4, TypeInvPartsNext
  <2>4. QED
    BY <2>2, <2>3
<1>6. CASE RenamesApplied \/ NothingToScan \/ ScanEnds
  <2>1. GitOK' /\ ScanOK'
    BY <1>1, <1>2, <1>6 DEF GitOK, ScanOK, RenamesApplied, NothingToScan, ScanEnds,
                           store, range, scan
  <2>2. VisitOK'
    BY <1>1, <1>6 DEF VisitOK, AtHand, RenamesApplied, NothingToScan, ScanEnds,
                      visit, Goto, At, Pcs
  <2>3. QED
    BY <1>3, <1>4, <2>1, <2>2, TypeInvPartsNext
<1>7. CASE BudgetSkips \/ ScanFails \/ CycleDone
  <2>1. EndCycle("idle") /\ lastSeen' \in 0..Tip
    BY <1>1, <1>7 DEF BudgetSkips, ScanFails, CycleDone, store, GitOK
  <2>2. ScanOK' /\ VisitOK' /\ GitOK'
    BY <1>2, <2>1, EndCycleTypes DEF Pcs
  <2>3. QED
    BY <1>3, <1>4, <2>2, TypeInvPartsNext
<1>8. QED
  BY <1>5, <1>6, <1>7

(* A scan begins with the files of its list, in an order of its own.       *)
LEMMA ScanStartTyped ==
  ASSUME TypeInv, Targeted \/ SweepStart
  PROVE  TypeInv'
<1>1. /\ GitOK /\ RowsOK /\ CoverageOK /\ ScanOK /\ VisitOK /\ HistoryOK
  BY TypeInvParts
<1>2. UNCHANGED <<hist, tree, dismissals>> /\ Tip' = Tip /\ Tip \in Nat
  BY CycleLeavesGit, TreeFacts DEF Cycle, TypeInv
<1>3. RowsOK' /\ CoverageOK' /\ HistoryOK' /\ GitOK'
  BY <1>1, <1>2 DEF RowsOK, CoverageOK, HistoryOK, GitOK, Targeted, SweepStart,
                    store, history, range
<1>4. PICK isSweep \in BOOLEAN, files \in Seq(Paths) : BeginScan(isSweep, files)
  <2>1. CASE Targeted
    <3>1. PICK radius \in BlastRadii : BeginScan(FALSE, SetToSeq(radius \cap Present))
      BY <2>1 DEF Targeted
    <3>2. /\ IsFiniteSet(radius \cap Present)
          /\ radius \cap Present \subseteq Paths
      BY TreeFacts, FS_Subset DEF TypeInv, BlastRadii
    <3>3. SetToSeq(radius \cap Present) \in Seq(Paths)
      BY <3>2, SetToSeqFacts
    <3>4. QED
      BY <3>1, <3>3
  <2>2. CASE SweepStart
    <3>1. SetToSeqs(Present) \subseteq Seq(Paths)
      BY TreeFacts, SetToSeqFacts DEF TypeInv
    <3>2. QED
      BY <2>2, <3>1 DEF SweepStart, SweepOrders
  <2>3. QED
    BY <2>1, <2>2
<1>5. ScanOK'
  <2>1. Tree \in Trees
    BY TreeFacts DEF TypeInv
  <2>2. UNCHANGED <<changed, renames>>
    BY DEF Targeted, SweepStart, range
  <2>3. QED
    BY <1>1, <1>4, <2>1, <2>2 DEF BeginScan, ScanOK
<1>6. VisitOK'
  BY <1>1, <1>4 DEF VisitOK, AtHand, BeginScan, Targeted, SweepStart, Goto, Pcs, visit
<1>7. QED
  BY <1>3, <1>5, <1>6, TypeInvPartsNext

(* A rename moves whole rows.                                              *)
LEMMA ApplyRenameTyped ==
  ASSUME TypeInv, ApplyRename
  PROVE  TypeInv'
<1>1. /\ GitOK /\ RowsOK /\ CoverageOK /\ ScanOK /\ VisitOK /\ HistoryOK
  BY TypeInvParts
<1>2. UNCHANGED <<hist, tree, dismissals>> /\ Tip' = Tip
  BY CycleLeavesGit DEF Cycle
<1>3. GitOK' /\ CoverageOK' /\ VisitOK'
  BY <1>1, <1>2 DEF GitOK, CoverageOK, VisitOK, AtHand, ApplyRename, visit
<1>4. ScanOK'
  BY <1>1 DEF ScanOK, ApplyRename, scan
<1>5. HistoryOK'
  BY <1>1, <1>2, DaemonCyclesAssumption
     DEF HistoryOK, ApplyRename, history, Unfaulted, Fault, Trouble
<1>6. RowsOK'
  <2>1. PICK r \in renames :
          LET rows  == RowsAt(r[1])
              moved == Rewrites(r[1], r[2], rows)
          IN \/ /\ row' = [fp \in Fps |-> IF moved[fp] = NoFp THEN NoRow ELSE row[moved[fp]]]
                /\ suppressed' = CarriedSuppressions(r[1], r[2], rows)
             \/ UNCHANGED <<row, suppressed>>
    BY DEF ApplyRename
  <2> DEFINE rows  == RowsAt(r[1])
             moved == Rewrites(r[1], r[2], rows)
  <2>2. r[1] \in Paths /\ r[2] \in Paths
    BY <1>1 DEF ScanOK
  <2>3. \A fp \in Fps : Moved(fp, r[2]) \in Fps
    BY <2>2 DEF Moved, Fps
  <2>4. \A fp \in Fps : moved[fp] \in Fps \cup {NoFp}
    BY <2>2 DEF Rewrites, RowsAt, Fps
  <2>5. CarriedSuppressions(r[1], r[2], rows) \subseteq Fps
    BY <1>1, <2>3 DEF CarriedSuppressions, RowsOK
  <2>6. NoRow \in [status : {"absent", "open", "fixed", "dismissed"},
                   hash : Content \cup {NoContent}]
    BY DEF NoRow
  <2> HIDE DEF moved, rows
  <2>7. QED
    BY <1>1, <2>1, <2>4, <2>5, <2>6 DEF RowsOK, moved, rows
<1>7. QED
  BY <1>3, <1>4, <1>5, <1>6, TypeInvPartsNext

(* A stamp moves a path to the end of the order of scan times.             *)
LEMMA TouchTyped ==
  ASSUME CoverageOK, fps \in Trees, NEW p \in Paths, TouchScanCoverage(p)
  PROVE  CoverageOK'
<1> DEFINE rest == RemoveFirst(covered, p)
<1>1. covered \in Seq(Paths) /\ Len(covered) \in Nat
  BY LenProperties DEF CoverageOK
<1>2. \A i, j \in 1..Len(covered) : covered[i] = covered[j] => i = j
  BY <1>1, LenProperties DEF CoverageOK, IsInjective
<1>3. /\ rest \in Seq(Paths) /\ Len(rest) \in Nat
      /\ \A i \in 1..Len(rest) : rest[i] # p
      /\ \A i, j \in 1..Len(rest) : rest[i] = rest[j] => i = j
  <2>1. CASE \E i \in 1..Len(covered) : covered[i] = p
    <3>1. PICK i \in 1..Len(covered) : covered[i] = p
      BY <2>1
    <3>2. /\ RemoveFirst(covered, covered[i]) \in Seq(Paths)
          /\ Len(RemoveFirst(covered, covered[i])) = Len(covered) - 1
          /\ \A j \in 1..(Len(covered) - 1) :
               RemoveFirst(covered, covered[i])[j] =
                 IF j < i THEN covered[j] ELSE covered[j + 1]
      BY <1>1, <1>2, RemoveFirstProperties
    <3>3. /\ rest \in Seq(Paths) /\ Len(rest) = Len(covered) - 1
          /\ \A j \in 1..Len(rest) :
               rest[j] = covered[IF j < i THEN j ELSE j + 1]
      BY <3>1, <3>2
    <3> HIDE DEF rest
    <3>4. \A j \in 1..Len(rest) : (IF j < i THEN j ELSE j + 1) \in 1..Len(covered) \ {i}
      BY <1>1, <3>3
    <3>5. QED
      BY <1>1, <1>2, <3>1, <3>3, <3>4
  <2>2. CASE ~ \E i \in 1..Len(covered) : covered[i] = p
    <3>1. rest = covered
      BY <2>2 DEF RemoveFirst
    <3>2. QED
      BY <1>1, <1>2, <2>2, <3>1
  <2>3. QED
    BY <2>1, <2>2
<1>4. covered' = Append(rest, p)
  BY DEF TouchScanCoverage
<1> HIDE DEF rest
<1>5. /\ covered' \in Seq(Paths) /\ Len(covered') = Len(rest) + 1
      /\ covered'[Len(rest) + 1] = p
      /\ \A i \in 1..Len(rest) : covered'[i] = rest[i]
  BY <1>3, <1>4, AppendProperties
<1>6. DOMAIN covered' = 1..(Len(rest) + 1)
  BY <1>5, LenProperties
<1>7. IsInjective(covered')
  <2>1. \A i, j \in 1..(Len(rest) + 1) : covered'[i] = covered'[j] => i = j
    <3> SUFFICES ASSUME NEW i \in 1..(Len(rest) + 1), NEW j \in 1..(Len(rest) + 1),
                        covered'[i] = covered'[j]
                 PROVE  i = j
      OBVIOUS
    <3>1. \A k \in 1..(Len(rest) + 1) : k \in 1..Len(rest) \/ k = Len(rest) + 1
      BY <1>3
    <3>2. QED
      BY <1>3, <1>5, <3>1
  <2>2. QED
    BY <1>6, <2>1 DEF IsInjective
<1>8. mark' \in Trees
  BY DEF TouchScanCoverage, CoverageOK, Trees
<1>9. QED
  BY <1>5, <1>7, <1>8 DEF CoverageOK

LEMMA FinderUnitTyped ==
  ASSUME TypeInv, FinderUnit
  PROVE  TypeInv'
<1>1. /\ GitOK /\ RowsOK /\ CoverageOK /\ ScanOK /\ VisitOK /\ HistoryOK
  BY TypeInvParts
<1>2. UNCHANGED <<hist, tree, dismissals>> /\ Tip' = Tip
  BY CycleLeavesGit DEF Cycle
<1> DEFINE p == Head(targets)
           c == Tree[p]
<1>3. p \in Paths /\ Tail(targets) \in Seq(Paths)
  BY <1>1, HeadTailProperties DEF ScanOK, FinderUnit
<1>4. c \in Content \cup {NoContent} /\ fps \in Trees
  BY <1>1, <1>3, TreeFacts DEF TypeInv, Trees, ScanOK
<1>5. GitOK' /\ ScanOK' /\ VisitOK'
  BY <1>1, <1>2, <1>3 DEF GitOK, ScanOK, VisitOK, AtHand, FinderUnit, range, visit
<1>6. /\ UNCHANGED <<row, judged>> \/ (c # NoContent /\ Claim(p, c))
      /\ UNCHANGED <<covered, mark>> \/ TouchScanCoverage(p)
      /\ scanned' = scanned \cup ({c} \ {NoContent}) \/ UNCHANGED scanned
      /\ Unfaulted \/ Fault
      /\ UNCHANGED suppressed
  BY DEF FinderUnit, history
<1> HIDE DEF p, c
<1>7. RowsOK' /\ judged' \subseteq Content
  <2>1. CASE UNCHANGED <<row, judged>>
    BY <1>1, <1>6, <2>1 DEF RowsOK, HistoryOK
  <2>2. CASE c # NoContent /\ Claim(p, c)
    <3>1. c \in Content /\ c.file \in Paths
      BY <1>4, <2>2 DEF Content
    <3>2. [status |-> "open", hash |-> fps[p]]
            \in [status : {"absent", "open", "fixed", "dismissed"},
                 hash : Content \cup {NoContent}]
      BY <1>3, <1>4 DEF Trees
    <3>3. QED
      BY <1>1, <1>6, <2>2, <3>1, <3>2 DEF RowsOK, HistoryOK, Claim
  <2>3. QED
    BY <1>6, <2>1, <2>2
<1>8. CoverageOK'
  BY <1>1, <1>3, <1>4, <1>6, TouchTyped DEF CoverageOK
<1>9. HistoryOK'
  BY <1>1, <1>2, <1>4, <1>6, <1>7, DaemonCyclesAssumption
     DEF HistoryOK, Unfaulted, Fault, Trouble
<1>10. QED
  BY <1>5, <1>7, <1>8, <1>9, TypeInvPartsNext

(* The hashes are refreshed, and the findings listed.                      *)
LEMMA RefreshTyped ==
  ASSUME TypeInv, RefreshContentHashes \/ ListFindings
  PROVE  TypeInv'
<1>1. /\ GitOK /\ RowsOK /\ CoverageOK /\ ScanOK /\ VisitOK /\ HistoryOK
  BY TypeInvParts
<1>2. UNCHANGED <<hist, tree, dismissals>> /\ Tip' = Tip
  BY CycleLeavesGit DEF Cycle
<1>3. GitOK' /\ ScanOK' /\ RowsOK'
  BY <1>1, <1>2 DEF GitOK, ScanOK, RowsOK, RefreshContentHashes, ListFindings,
                    range, scan, store
<1>4. VisitOK'
  BY <1>1 DEF VisitOK, AtHand, RefreshContentHashes, ListFindings, visit, Goto, At, Pcs
<1>5. Rehashed \in Trees
  <2>1. Tree \in Trees /\ Present \subseteq Paths
    BY TreeFacts DEF TypeInv
  <2>2. QED
    BY <1>1, <2>1 DEF Rehashed, CoverageOK, Trees
<1>6. CoverageOK'
  BY <1>1, <1>5 DEF CoverageOK, RefreshContentHashes, ListFindings, store
<1>7. HistoryOK'
  BY <1>1, <1>2, DaemonCyclesAssumption
     DEF HistoryOK, RefreshContentHashes, ListFindings, history, Unfaulted, Fault, Trouble
<1>8. QED
  BY <1>3, <1>4, <1>6, <1>7, TypeInvPartsNext

(* The statements of re-verification.                                      *)
LEMMA ReverifyTyped ==
  ASSUME TypeInv, Reverify \/ Judge \/ Anchor
  PROVE  TypeInv'
<1>1. /\ GitOK /\ RowsOK /\ CoverageOK /\ ScanOK /\ VisitOK /\ HistoryOK
  BY TypeInvParts
<1>2. UNCHANGED <<hist, tree, dismissals>> /\ Tip' = Tip
  BY CycleLeavesGit DEF Cycle
<1>3. GitOK' /\ ScanOK' /\ CoverageOK'
  BY <1>1, <1>2 DEF GitOK, ScanOK, CoverageOK, Reverify, Judge, Anchor, range, scan
<1>4. /\ UNCHANGED <<suppressed, scanned>>
      /\ Unfaulted \/ Fault
  BY DEF Reverify, Judge, Anchor, history
<1>5. \A fp \in Fps : MarkFixed(fp) => RowsOK'
  <2> SUFFICES ASSUME NEW fp \in Fps, MarkFixed(fp) PROVE RowsOK'
    OBVIOUS
  <2>1. [row[fp] EXCEPT !.status = "fixed"]
          \in [status : {"absent", "open", "fixed", "dismissed"},
               hash : Content \cup {NoContent}]
    BY <1>1 DEF RowsOK
  <2>2. QED
    BY <1>1, <1>4, <2>1 DEF RowsOK, MarkFixed
<1>6. UNCHANGED row => RowsOK'
  BY <1>1, <1>4 DEF RowsOK
<1>7. Tree \in Trees /\ \A p \in Present : Tree[p] \in Content
  BY TreeFacts DEF TypeInv
<1>8. CASE Reverify
  <2>1. PICK fp \in open, past \in BOOLEAN :
          LET c == Tree[fp[1]]  v == Verdict(c, row[fp].hash, past) IN
          /\ open' = open \ {fp}
          /\ \/ UNCHANGED <<row, pc, cur, curHash>>
             \/ MarkFixed(fp) /\ UNCHANGED <<pc, cur, curHash>>
             \/ v = "judge" /\ Goto("judge") /\ cur' = fp /\ curHash' = c /\ UNCHANGED row
    BY <1>8 DEF Reverify
  <2>2. fp \in Fps /\ fp[1] \in Paths
    BY <1>1 DEF VisitOK, Fps
  <2>3. RowsOK'
    BY <1>5, <1>6, <2>1, <2>2
  <2>4. Verdict(Tree[fp[1]], row[fp].hash, past) = "judge" => Tree[fp[1]] \in Content
    BY <1>7, <2>2 DEF Verdict, Trees
  <2>5. VisitOK'
    BY <1>1, <2>1, <2>2, <2>4 DEF VisitOK, AtHand, Goto, Pcs
  <2>6. HistoryOK'
    BY <1>1, <1>2, <1>4, <1>8, DaemonCyclesAssumption
       DEF HistoryOK, Reverify, history, Unfaulted, Fault, Trouble
  <2>7. QED
    BY <1>3, <2>3, <2>5, <2>6, TypeInvPartsNext
<1>9. CASE Judge
  <2>1. cur \in Fps /\ curHash \in Content
    BY <1>1, <1>9 DEF VisitOK, AtHand, Judge, At
  <2>2. RowsOK'
    BY <1>5, <1>6, <1>9, <2>1 DEF Judge
  <2>3. VisitOK'
    BY <1>1, <1>9, <2>1 DEF VisitOK, AtHand, Judge, Visited, Goto, Pcs
  <2>4. HistoryOK'
    <3>1. judged' \subseteq Content
      BY <1>1, <1>7, <1>9, <2>1 DEF HistoryOK, Judge
    <3>2. QED
      BY <1>1, <1>2, <1>4, <3>1, DaemonCyclesAssumption
         DEF HistoryOK, Unfaulted, Fault, Trouble
  <2>5. QED
    BY <1>3, <2>2, <2>3, <2>4, TypeInvPartsNext
<1>10. CASE Anchor
  <2>1. cur \in Fps /\ curHash \in Content
    BY <1>1, <1>10 DEF VisitOK, AtHand, Anchor, At
  <2>2. RowsOK'
    <3>1. CASE row' = [row EXCEPT ![cur] = [status |-> "open", hash |-> AnchorHash]]
      <4>1. [status |-> "open", hash |-> AnchorHash]
              \in [status : {"absent", "open", "fixed", "dismissed"},
                   hash : Content \cup {NoContent}]
        BY <2>1 DEF AnchorHash
      <4>2. QED
        BY <1>1, <1>4, <2>1, <3>1, <4>1 DEF RowsOK
    <3>2. QED
      BY <1>6, <1>10, <3>1 DEF Anchor
  <2>3. VisitOK'
    BY <1>1, <1>10 DEF VisitOK, AtHand, Anchor, Visited, Goto, Pcs
  <2>4. HistoryOK'
    BY <1>1, <1>2, <1>4, <1>10, DaemonCyclesAssumption
       DEF HistoryOK, Anchor, history, Unfaulted, Fault, Trouble
  <2>5. QED
    BY <1>3, <2>2, <2>3, <2>4, TypeInvPartsNext
<1>11. QED
  BY <1>8, <1>9, <1>10

LEMMA NextTyped == TypeInv /\ [Next]_vars => TypeInv'
<1> SUFFICES ASSUME TypeInv, [Next]_vars PROVE TypeInv'
  OBVIOUS
<1>1. CASE UNCHANGED vars
  BY <1>1 DEF vars, TypeInv, TypeOK, AtHand, Tip
<1>2. CASE Next
  BY <1>2, OutsideTyped, PollTyped, ScanStartTyped, ApplyRenameTyped,
     FinderUnitTyped, RefreshTyped, ReverifyTyped DEF Next, Cycle
<1>3. QED
  BY <1>1, <1>2

LEMMA TypeInvHolds == Spec => []TypeInv
BY InitTyped, NextTyped, PTL DEF Spec

(* Every variable keeps its type: the watermark, the range of a poll and   *)
(* the working tree name commits there are, coverage holds a path once     *)
(* (touch in store/filestate.go:171-196 moves it), and a panel always has  *)
(* a finding and the content that was read for it.                         *)
THEOREM TypeCorrect == Spec => []TypeOK
<1>1. TypeInv => TypeOK
  BY DEF TypeInv
<1>2. QED
  BY <1>1, TypeInvHolds, PTL

-----------------------------------------------------------------------------
(* Dismissals and suppressions.                                            *)

(* Re-verification works on open findings, each of them once; nobody else  *)
(* writes rows meanwhile. A rename has two paths.                          *)
OpenOK ==
  /\ \A fp \in open : row[fp].status = "open"
  /\ open # {} => pc \in {"reverify", "judge", "anchor"}
  /\ pc \in {"judge", "anchor"} => row[cur].status = "open" /\ cur \notin open
  /\ \A r \in renames : r[1] # r[2]

SuppInv == OpenOK /\ DismissalKeepsSuppression

LEMMA InitSupp == Init => SuppInv
BY DEF Init, SuppInv, OpenOK, DismissalKeepsSuppression, NoRow

(* A rename that applies moves each row with its suppression.              *)
LEMMA RenameKeepsSuppression ==
  ASSUME TypeInv, SuppInv, ApplyRename
  PROVE  DismissalKeepsSuppression'
<1>1. PICK r \in renames :
        LET rows  == RowsAt(r[1])
            moved == Rewrites(r[1], r[2], rows)
            taken == \E fp \in rows : row[Moved(fp, r[2])].status # "absent"
        IN \/ /\ ~taken
              /\ row' = [fp \in Fps |-> IF moved[fp] = NoFp THEN NoRow ELSE row[moved[fp]]]
              /\ suppressed' = CarriedSuppressions(r[1], r[2], rows)
           \/ UNCHANGED <<row, suppressed>>
  BY DEF ApplyRename
<1> DEFINE p == r[1]
           q == r[2]
           rows  == RowsAt(p)
           moved == Rewrites(p, q, rows)
<1>2. p \in Paths /\ q \in Paths /\ p # q
  BY DEF SuppInv, OpenOK, TypeInv, TypeOK
<1>3. /\ row \in [Fps -> [status : {"absent", "open", "fixed", "dismissed"},
                          hash : Content \cup {NoContent}]]
      /\ suppressed \subseteq Fps
  BY DEF TypeInv, TypeOK
<1>4. CASE UNCHANGED <<row, suppressed>>
  BY <1>4 DEF SuppInv, DismissalKeepsSuppression
<1>5. CASE /\ \A fp \in rows : row[Moved(fp, q)].status = "absent"
           /\ row' = [fp \in Fps |-> IF moved[fp] = NoFp THEN NoRow ELSE row[moved[fp]]]
           /\ suppressed' = CarriedSuppressions(p, q, rows)
  <2> SUFFICES ASSUME NEW fp \in Fps
               PROVE  row'[fp].status = "dismissed" <=> fp \in suppressed'
    BY DEF DismissalKeepsSuppression
  <2> DEFINE old == <<p, fp[2]>>
  <2>1. /\ fp[1] \in Paths /\ fp[2] \in Paths /\ fp = <<fp[1], fp[2]>>
        /\ old \in Fps /\ fp # NoFp /\ old # NoFp
    <3>1. /\ fp[1] \in Paths /\ fp[2] \in Paths /\ fp = <<fp[1], fp[2]>>
          /\ old \in Fps
      BY <1>2 DEF Fps
    <3>2. \A a, b \in Paths : <<a, b>> # NoFp
      <4> TAKE a, b \in Paths
      <4>1. Len(<<a, b>>) = 2 /\ Len(<<>>) = 0
        OBVIOUS
      <4>2. QED
        BY <4>1 DEF NoFp
    <3>3. QED
      BY <1>2, <3>1, <3>2
  <2>2. rows = {g \in Fps : g[1] = p /\ row[g].status # "absent"}
    BY DEF RowsAt
  <2>3. moved[fp] = IF fp[1] = q /\ old \in rows THEN old
                    ELSE IF fp \in rows THEN NoFp ELSE fp
    BY DEF Rewrites
  <2>4. fp \in suppressed' <=>
          \/ fp \in suppressed /\ fp \notin rows
          \/ \E g \in suppressed \cap rows : fp = <<q, g[2]>>
    BY <1>5 DEF CarriedSuppressions, Moved
  <2>5. row'[fp] = IF moved[fp] = NoFp THEN NoRow ELSE row[moved[fp]]
    BY <1>5
  <2>6. \A g \in Fps : row[g].status = "dismissed" <=> g \in suppressed
    BY DEF SuppInv, DismissalKeepsSuppression
  <2>7. \A g \in rows : g = <<p, g[2]>>
    BY <2>2 DEF Fps
  <2> HIDE DEF moved, rows
  <2>8. (\E g \in suppressed \cap rows : fp = <<q, g[2]>>)
          <=> fp[1] = q /\ old \in suppressed /\ old \in rows
    BY <2>1, <2>7
  <2>9. CASE fp[1] = q /\ old \in rows
    <3>1. row[fp].status = "absent"
      BY <1>5, <2>1, <2>9 DEF Moved
    <3>2. fp \notin suppressed
      BY <2>6, <3>1
    <3>3. row'[fp] = row[old]
      BY <2>1, <2>3, <2>5, <2>9
    <3>4. QED
      BY <2>1, <2>4, <2>6, <2>8, <2>9, <3>2, <3>3
  <2>10. CASE ~(fp[1] = q /\ old \in rows) /\ fp \in rows
    <3>1. row'[fp] = NoRow /\ fp[1] # q
      BY <1>2, <2>2, <2>3, <2>5, <2>10
    <3>2. fp \notin suppressed'
      BY <2>4, <2>8, <2>10, <3>1
    <3>3. QED
      BY <3>1, <3>2 DEF NoRow
  <2>11. CASE ~(fp[1] = q /\ old \in rows) /\ fp \notin rows
    <3>1. row'[fp] = row[fp]
      BY <2>1, <2>3, <2>5, <2>11
    <3>2. QED
      BY <2>4, <2>6, <2>8, <2>11, <3>1
  <2>12. QED
    BY <2>9, <2>10, <2>11
<1>6. QED
  BY <1>1, <1>4, <1>5

LEMMA SuppNext == TypeInv /\ SuppInv /\ [Next]_vars => SuppInv'
<1> SUFFICES ASSUME TypeInv, SuppInv, [Next]_vars PROVE SuppInv'
  OBVIOUS
<1>1. /\ row \in [Fps -> [status : {"absent", "open", "fixed", "dismissed"},
                          hash : Content \cup {NoContent}]]
      /\ suppressed \subseteq Fps /\ open \subseteq Fps
  BY DEF TypeInv, TypeOK
<1>2. /\ \A fp \in Fps : row[fp].status = "dismissed" <=> fp \in suppressed
      /\ OpenOK
  BY DEF SuppInv, DismissalKeepsSuppression
<1>3. CASE UNCHANGED <<row, suppressed, open, cur, pc, renames>>
  BY <1>3 DEF SuppInv, OpenOK, DismissalKeepsSuppression
<1>4. CASE UNCHANGED <<row, suppressed>> /\ \E next \in {"idle", "down"} : EndCycle(next)
  BY <1>4 DEF SuppInv, OpenOK, DismissalKeepsSuppression, EndCycle, ForgetVisit, ForgetRange
<1>5. ASSUME NEW fp \in Fps, Dismiss(fp) PROVE SuppInv'
  <2>1. open = {} /\ pc \in {"idle", "down"}
    BY <1>2, <1>5 DEF OpenOK, Dismiss
  <2>2. OpenOK'
    BY <1>2, <1>5, <2>1 DEF OpenOK, Dismiss, visit, range
  <2>3. DismissalKeepsSuppression'
    BY <1>1, <1>2, <1>5 DEF Dismiss, DismissalKeepsSuppression
  <2>4. QED
    BY <2>2, <2>3 DEF SuppInv
<1>6. CASE /\ UNCHANGED <<row, suppressed, open, cur, renames>>
           /\ open = {} /\ pc' \notin {"judge", "anchor"}
  BY <1>6 DEF SuppInv, OpenOK, DismissalKeepsSuppression
<1>7. CASE SaveLastSeen
  <2>1. open = {} /\ \A r \in RenamesSince(from, head) : r[1] # r[2]
    BY <1>2, <1>7 DEF OpenOK, SaveLastSeen, At, RenamesSince
  <2>2. CASE from \in {0, head}
    BY <1>4, <1>7, <2>2 DEF SaveLastSeen
  <2>3. CASE from \notin {0, head}
    BY <1>2, <1>7, <2>1, <2>3 DEF SaveLastSeen, SuppInv, OpenOK, visit, Goto,
                                  DismissalKeepsSuppression
  <2>4. QED
    BY <2>2, <2>3
<1>8. CASE ApplyRename
  <2>1. open = {} /\ pc = "renames"
    BY <1>2, <1>8 DEF OpenOK, ApplyRename, At
  <2>2. OpenOK'
    BY <1>2, <1>8, <2>1 DEF OpenOK, ApplyRename, visit
  <2>3. QED
    BY <1>8, <2>2, RenameKeepsSuppression DEF SuppInv
<1>9. CASE FinderUnit
  <2>1. open = {} /\ pc = "scan"
    BY <1>2, <1>9 DEF OpenOK, FinderUnit, At
  <2>2. OpenOK'
    BY <1>2, <1>9, <2>1 DEF OpenOK, FinderUnit, visit, range
  <2> DEFINE p == Head(targets)
             c == Tree[p]
  <2>3. UNCHANGED row \/ (c # NoContent /\ Claim(p, c))
    BY <1>9 DEF FinderUnit, history
  <2> HIDE DEF p, c
  <2>4. UNCHANGED suppressed
    BY <1>9 DEF FinderUnit
  <2>5. DismissalKeepsSuppression'
    BY <1>1, <1>2, <2>3, <2>4 DEF DismissalKeepsSuppression, Claim
  <2>6. QED
    BY <2>2, <2>5 DEF SuppInv
<1>10. CASE ListFindings
  BY <1>1, <1>2, <1>10 DEF ListFindings, SuppInv, OpenOK, DismissalKeepsSuppression,
                           At, Goto, store, range
<1>11. CASE Reverify
  <2>1. PICK fp \in open :
          /\ open' = open \ {fp}
          /\ \/ UNCHANGED <<row, pc, cur>>
             \/ MarkFixed(fp) /\ UNCHANGED <<pc, cur>>
             \/ Goto("judge") /\ cur' = fp /\ UNCHANGED row
    BY <1>11 DEF Reverify
  <2>2. pc = "reverify" /\ UNCHANGED <<suppressed, renames>>
    BY <1>11 DEF Reverify, At, range
  <2>3. CASE UNCHANGED <<row, pc, cur>>
    BY <1>2, <2>1, <2>2, <2>3 DEF SuppInv, OpenOK, DismissalKeepsSuppression
  <2>4. CASE MarkFixed(fp) /\ UNCHANGED <<pc, cur>>
    BY <1>1, <1>2, <2>1, <2>2, <2>4 DEF SuppInv, OpenOK, DismissalKeepsSuppression, MarkFixed
  <2>5. CASE Goto("judge") /\ cur' = fp /\ UNCHANGED row
    BY <1>2, <2>1, <2>2, <2>5 DEF SuppInv, OpenOK, DismissalKeepsSuppression, Goto
  <2>6. QED
    BY <2>1, <2>3, <2>4, <2>5
<1>12. CASE Judge
  <2>1. cur \in Fps /\ pc = "judge" /\ UNCHANGED <<suppressed, renames, open>>
    BY <1>12 DEF Judge, At, range, TypeInv, AtHand
  <2>2. CASE MarkFixed(cur) /\ Visited("reverify")
    BY <1>1, <1>2, <2>1, <2>2 DEF SuppInv, OpenOK, DismissalKeepsSuppression, MarkFixed, Visited, Goto
  <2>3. CASE UNCHANGED row /\ Goto("anchor") /\ UNCHANGED cur
    BY <1>2, <2>1, <2>3 DEF SuppInv, OpenOK, DismissalKeepsSuppression, Goto
  <2>4. CASE UNCHANGED row /\ Visited("reverify")
    BY <1>2, <2>1, <2>4 DEF SuppInv, OpenOK, DismissalKeepsSuppression, Goto, Visited
  <2>5. QED
    BY <1>12, <2>2, <2>3, <2>4 DEF Judge
<1>13. CASE Anchor
  <2>1. cur \in Fps /\ pc = "anchor" /\ UNCHANGED <<suppressed, renames, open>>
    BY <1>13 DEF Anchor, At, range, TypeInv, AtHand
  <2>2. CASE row' = [row EXCEPT ![cur] = [status |-> "open", hash |-> AnchorHash]]
    BY <1>1, <1>2, <1>13, <2>1, <2>2
       DEF Anchor, SuppInv, OpenOK, DismissalKeepsSuppression, Visited, Goto
  <2>3. CASE UNCHANGED row
    BY <1>2, <1>13, <2>1, <2>3
       DEF Anchor, SuppInv, OpenOK, DismissalKeepsSuppression, Visited, Goto
  <2>4. QED
    BY <1>13, <2>2, <2>3 DEF Anchor
<1>14. CASE Commit \/ Pull \/ SweepSkipped \/ UNCHANGED vars
  BY <1>3, <1>14 DEF Commit, Pull, SweepSkipped, vars, store, range, scan, visit
<1>15. CASE Crash \/ BudgetSkips \/ ScanFails \/ CycleDone
  BY <1>4, <1>15 DEF Crash, BudgetSkips, ScanFails, CycleDone, store
<1>16. CASE Restart \/ PollStart \/ SweepStart \/ RenamesApplied \/ NothingToScan
            \/ Targeted \/ ScanEnds \/ RefreshContentHashes
  BY <1>2, <1>6, <1>16
     DEF Restart, PollStart, SweepStart, RenamesApplied, NothingToScan, Targeted,
         ScanEnds, RefreshContentHashes, BeginScan, At, Goto, OpenOK,
         store, range, visit
<1>17. QED
  BY <1>5, <1>7, <1>8, <1>9, <1>10, <1>11, <1>12, <1>13, <1>14, <1>15, <1>16
     DEF Next, Cycle

LEMMA SuppInvHolds == Spec => []SuppInv
BY InitSupp, SuppNext, TypeInvHolds, PTL DEF Spec

(* A dismissal and its suppression stay together for any number of paths,  *)
(* renames, collisions and crashes (store/rename.go:81-122), and no claim, *)
(* verdict or new anchor reopens a dismissed finding.                      *)
THEOREM DismissalsKept == Spec => []DismissalKeepsSuppression
<1>1. SuppInv => DismissalKeepsSuppression
  BY DEF SuppInv
<1>2. QED
  BY <1>1, SuppInvHolds, PTL

-----------------------------------------------------------------------------
(* Anchors.                                                                *)

(* The hashes of a scan and of a re-verification were read from a tree the *)
(* working tree has been at; once the panel is done, what the hash stands  *)
(* for was judged, or the file has lost it.                                *)
HashesWereRead ==
  /\ pc = "scan" => \E i \in 1..tree : fps = hist[i]
  /\ pc = "judge" => \E i \in 1..tree : curHash = hist[i][cur[1]]
  /\ pc = "anchor" => curHash \in judged \/ Displaced(curHash)

AnchorInv == HashesWereRead /\ AnchorWasJudged

LEMMA InitAnchor == Init => AnchorInv
BY DEF Init, AnchorInv, HashesWereRead, AnchorWasJudged, NoRow

(* Displaced in the next state, of a content of this or of that state.     *)
DisplacedNext(c) ==
  \E i, j \in 1..tree', p \in Paths : i < j /\ hist'[i][p] = c /\ hist'[j][p] # c

LEMMA StaysDisplaced ==
  ASSUME HistoryGrows, tree \in Nat
  PROVE  \A c : Displaced(c) => DisplacedNext(c)
<1> SUFFICES ASSUME NEW c, Displaced(c) PROVE DisplacedNext(c)
  OBVIOUS
<1>1. PICK i \in 1..tree, j \in 1..tree, p \in Paths : i < j /\ hist[i][p] = c /\ hist[j][p] # c
  BY DEF Displaced
<1>2. i \in 1..tree' /\ j \in 1..tree' /\ hist'[i][p] = c /\ hist'[j][p] # c
  BY <1>1 DEF HistoryGrows
<1>3. QED
  BY <1>1, <1>2 DEF DisplacedNext

(* A content read earlier from a file that holds another one now has been  *)
(* displaced.                                                              *)
LEMMA ReadEarlier ==
  ASSUME tree \in Nat, NEW i \in 1..tree, NEW p \in Paths, hist[i][p] # Tree[p]
  PROVE  Displaced(hist[i][p])
<1>1. i < tree /\ tree \in 1..tree
  BY DEF Tree
<1>2. QED
  BY <1>1 DEF Displaced, Tree

(* What a step must do to its rows to keep every anchor.                   *)
Anchored(c) == c \in judged' \/ DisplacedNext(c)

LEMMA AnchorsKept ==
  ASSUME TypeInv, [Next]_vars, AnchorInv, judged \subseteq judged',
         \A fp \in Fps : row'[fp].status = "open" =>
           \/ \E g \in Fps : row[g].status = "open" /\ row'[fp].hash = row[g].hash
           \/ Anchored(row'[fp].hash)
  PROVE  AnchorWasJudged'
<1>1. HistoryGrows /\ tree \in Nat
  BY GitGrows, TreeFacts DEF TypeInv
<1>2. \A c : Displaced(c) => DisplacedNext(c)
  BY <1>1, StaysDisplaced
<1>3. \A g \in Fps : row[g].status = "open" => Anchored(row[g].hash)
  BY <1>2 DEF AnchorInv, AnchorWasJudged, Anchored
<1>4. \A fp \in Fps : row'[fp].status = "open" =>
        row'[fp].hash \in judged' \/ DisplacedNext(row'[fp].hash)
  BY <1>3 DEF Anchored
<1>5. QED
  BY <1>4 DEF AnchorWasJudged, Displaced, DisplacedNext

(* A step that keeps the rows or at most closes some.                      *)
OpensNothing ==
  \A fp \in Fps : row'[fp].status = "open" => row[fp].status = "open" /\ row'[fp].hash = row[fp].hash

LEMMA AnchorNext == TypeInv /\ AnchorInv /\ [Next]_vars => AnchorInv'
<1> SUFFICES ASSUME TypeInv, AnchorInv, [Next]_vars PROVE AnchorInv'
  OBVIOUS
<1>1. /\ row \in [Fps -> [status : {"absent", "open", "fixed", "dismissed"},
                          hash : Content \cup {NoContent}]]
      /\ HistoryGrows /\ tree \in Nat /\ tree >= 1 /\ Tree \in Trees
  BY GitGrows, TreeFacts DEF TypeInv, TypeOK
<1>2. tree' \in Nat
  BY <1>1 DEF HistoryGrows
<1>3. \A c : Displaced(c) => DisplacedNext(c)
  BY <1>1, StaysDisplaced
<1>4. \A i \in 1..tree : i \in 1..tree' /\ hist'[i] = hist[i]
  BY <1>1, <1>2 DEF HistoryGrows
<1>5. ASSUME OpensNothing, UNCHANGED judged,
             pc' \in {"scan", "judge", "anchor"} => UNCHANGED <<pc, fps, cur, curHash>>
      PROVE  AnchorInv'
  <2>1. AnchorWasJudged'
    BY <1>5, AnchorsKept DEF OpensNothing
  <2>2. pc' = "scan" => \E i \in 1..tree' : fps' = hist'[i]
    BY <1>4, <1>5 DEF AnchorInv, HashesWereRead
  <2>3. pc' = "judge" => \E i \in 1..tree' : curHash' = hist'[i][cur'[1]]
    BY <1>4, <1>5 DEF AnchorInv, HashesWereRead
  <2>4. pc' = "anchor" => curHash' \in judged' \/ DisplacedNext(curHash')
    BY <1>3, <1>5 DEF AnchorInv, HashesWereRead
  <2>5. QED
    BY <2>1, <2>2, <2>3, <2>4 DEF AnchorInv, HashesWereRead, Displaced, DisplacedNext
<1>6. CASE Commit \/ Pull \/ SweepSkipped \/ UNCHANGED vars
  BY <1>5, <1>6 DEF OpensNothing, Commit, Pull, SweepSkipped, vars, store, scan, visit, history
<1>7. ASSUME NEW fp \in Fps, Dismiss(fp) PROVE AnchorInv'
  BY <1>1, <1>5, <1>7 DEF OpensNothing, Dismiss, scan, visit, history
<1>8. CASE Crash \/ BudgetSkips \/ ScanFails \/ CycleDone
  BY <1>5, <1>8 DEF OpensNothing, Crash, BudgetSkips, ScanFails, CycleDone, store,
                    history, EndCycle
<1>9. CASE Restart \/ PollStart \/ RenamesApplied \/ NothingToScan \/ ScanEnds
           \/ RefreshContentHashes \/ ListFindings
  BY <1>5, <1>9 DEF OpensNothing, Restart, PollStart, RenamesApplied, NothingToScan,
                    ScanEnds, RefreshContentHashes, ListFindings, Goto, store, history
<1>10. CASE SaveLastSeen
  <2>1. UNCHANGED <<row, judged>> /\ pc' \in {"idle", "renames"}
    BY <1>10 DEF SaveLastSeen, history, EndCycle, Goto
  <2>2. QED
    BY <1>5, <2>1 DEF OpensNothing
<1>11. CASE ApplyRename
  <2>1. PICK r \in renames :
          LET rows  == RowsAt(r[1])
              moved == Rewrites(r[1], r[2], rows)
          IN \/ row' = [fp \in Fps |-> IF moved[fp] = NoFp THEN NoRow ELSE row[moved[fp]]]
             \/ UNCHANGED row
    BY <1>11 DEF ApplyRename
  <2>2. pc = "renames" /\ UNCHANGED <<pc, judged>>
    BY <1>11 DEF ApplyRename, At, history
  <2>3. CASE UNCHANGED row
    BY <1>5, <2>2, <2>3 DEF OpensNothing
  <2>4. CASE LET rows  == RowsAt(r[1])
                 moved == Rewrites(r[1], r[2], rows)
             IN row' = [fp \in Fps |-> IF moved[fp] = NoFp THEN NoRow ELSE row[moved[fp]]]
    <3> DEFINE rows  == RowsAt(r[1])
               moved == Rewrites(r[1], r[2], rows)
    <3>1. \A fp \in Fps : moved[fp] \in Fps \cup {NoFp}
      BY DEF Rewrites, RowsAt, Fps
    <3> HIDE DEF moved, rows
    <3>2. \A fp \in Fps : row'[fp] = IF moved[fp] = NoFp THEN NoRow ELSE row[moved[fp]]
      BY <2>4 DEF moved, rows
    <3>3. \A fp \in Fps : row'[fp].status = "open" =>
            \E g \in Fps : row[g].status = "open" /\ row'[fp].hash = row[g].hash
      <4> TAKE fp \in Fps
      <4>1. CASE moved[fp] = NoFp
        BY <3>2, <4>1 DEF NoRow
      <4>2. CASE moved[fp] # NoFp
        BY <3>1, <3>2, <4>2
      <4>3. QED
        BY <4>1, <4>2
    <3>4. AnchorWasJudged'
      BY <2>2, <3>3, AnchorsKept
    <3>5. QED
      BY <2>2, <3>4 DEF AnchorInv, HashesWereRead
  <2>5. QED
    BY <2>1, <2>3, <2>4
<1>12. CASE Targeted \/ SweepStart
  <2>1. fps' = Tree /\ pc' = "scan" /\ UNCHANGED <<row, judged>>
    BY <1>12 DEF Targeted, SweepStart, BeginScan, Goto, store, history
  <2>2. AnchorWasJudged'
    BY <2>1, AnchorsKept
  <2>3. \E i \in 1..tree' : fps' = hist'[i]
    BY <1>1, <1>4, <2>1 DEF Tree
  <2>4. QED
    BY <2>1, <2>2, <2>3 DEF AnchorInv, HashesWereRead
<1>13. CASE FinderUnit
  <2> DEFINE p == Head(targets)
             c == Tree[p]
  <2>1. pc = "scan" /\ UNCHANGED <<pc, fps>>
    BY <1>13 DEF FinderUnit, At
  <2>2. UNCHANGED <<row, judged>> \/ (c # NoContent /\ Claim(p, c))
    BY <1>13 DEF FinderUnit, history
  <2>3. p \in Paths
    BY <1>13, HeadTailProperties DEF FinderUnit, TypeInv, TypeOK
  <2> HIDE DEF p
  <2>4. CASE UNCHANGED <<row, judged>>
    BY <1>5, <2>1, <2>4, AnchorsKept, <1>4
       DEF AnchorInv, HashesWereRead, OpensNothing
  <2>5. CASE c # NoContent /\ Claim(p, c)
    <3>1. /\ row' = [row EXCEPT ![<<p, c.file>>] = [status |-> "open", hash |-> fps[p]]]
          /\ judged' = judged \cup {c}
      BY <2>5 DEF Claim
    <3>2. PICK i \in 1..tree : fps = hist[i]
      BY <2>1 DEF AnchorInv, HashesWereRead
    <3>3. Anchored(fps[p])
      <4>1. CASE fps[p] = c
        BY <3>1, <4>1 DEF Anchored
      <4>2. CASE fps[p] # c
        <5>1. Displaced(fps[p])
          BY <1>1, <2>3, <3>2, <4>2, ReadEarlier
        <5>2. QED
          BY <1>3, <5>1 DEF Anchored
      <4>3. QED
        BY <4>1, <4>2
    <3>4. \A fp \in Fps : row'[fp].status = "open" =>
            \/ \E g \in Fps : row[g].status = "open" /\ row'[fp].hash = row[g].hash
            \/ Anchored(row'[fp].hash)
      BY <1>1, <3>1, <3>3
    <3>5. judged \subseteq judged'
      BY <3>1
    <3>6. AnchorWasJudged'
      BY <3>4, <3>5, AnchorsKept
    <3>7. \E k \in 1..tree' : fps' = hist'[k]
      BY <1>4, <2>1, <3>2
    <3>8. QED
      BY <2>1, <3>6, <3>7 DEF AnchorInv, HashesWereRead
  <2>6. QED
    BY <2>2, <2>4, <2>5
<1>14. CASE Reverify
  <2>1. PICK fp \in open :
          \/ UNCHANGED <<row, pc, cur, curHash>>
          \/ MarkFixed(fp) /\ UNCHANGED <<pc, cur, curHash>>
          \/ Goto("judge") /\ cur' = fp /\ curHash' = Tree[fp[1]] /\ UNCHANGED row
    BY <1>14 DEF Reverify
  <2>2. pc = "reverify" /\ UNCHANGED <<judged, fps>> /\ fp \in Fps
    BY <1>14 DEF Reverify, At, scan, history, TypeInv, TypeOK
  <2>3. CASE UNCHANGED <<row, pc, cur, curHash>>
    BY <1>5, <2>2, <2>3 DEF OpensNothing
  <2>4. CASE MarkFixed(fp) /\ UNCHANGED <<pc, cur, curHash>>
    <3>1. OpensNothing
      BY <1>1, <2>2, <2>4 DEF OpensNothing, MarkFixed
    <3>2. QED
      BY <1>5, <2>2, <2>4, <3>1
  <2>5. CASE Goto("judge") /\ cur' = fp /\ curHash' = Tree[fp[1]] /\ UNCHANGED row
    <3>1. AnchorWasJudged'
      BY <2>2, <2>5, AnchorsKept
    <3>2. \E i \in 1..tree' : curHash' = hist'[i][cur'[1]]
      BY <1>1, <1>4, <2>5 DEF Tree
    <3>3. QED
      BY <2>5, <3>1, <3>2 DEF AnchorInv, HashesWereRead, Goto
  <2>6. QED
    BY <2>1, <2>3, <2>4, <2>5
<1>15. CASE Judge
  <2> DEFINE c == IF cur[1] \in Present THEN Tree[cur[1]] ELSE curHash
  <2>1. cur \in Fps /\ cur[1] \in Paths /\ pc = "judge" /\ judged' = judged \cup {c}
    BY <1>15 DEF Judge, At, TypeInv, AtHand, Fps
  <2>2. OpensNothing
    BY <1>1, <1>15, <2>1 DEF OpensNothing, Judge, MarkFixed
  <2>3. AnchorWasJudged'
    BY <2>1, <2>2, AnchorsKept DEF OpensNothing
  <2>4. Anchored(curHash)
    <3>1. CASE c = curHash
      BY <2>1, <3>1 DEF Anchored
    <3>2. CASE c # curHash
      <4>1. c = Tree[cur[1]]
        BY <3>2
      <4>2. PICK i \in 1..tree : curHash = hist[i][cur[1]]
        BY <2>1 DEF AnchorInv, HashesWereRead
      <4>3. Displaced(curHash)
        BY <1>1, <2>1, <3>2, <4>1, <4>2, ReadEarlier
      <4>4. QED
        BY <1>3, <4>3 DEF Anchored
    <3>3. QED
      BY <3>1, <3>2
  <2>5. pc' \in {"reverify", "anchor"} /\ (pc' = "anchor" => curHash' = curHash)
    BY <1>15 DEF Judge, Visited, Goto
  <2>6. HashesWereRead'
    BY <2>4, <2>5 DEF HashesWereRead, Anchored, Displaced, DisplacedNext
  <2>7. QED
    BY <2>3, <2>6 DEF AnchorInv
<1>16. CASE Anchor
  <2>1. cur \in Fps /\ pc = "anchor" /\ UNCHANGED judged /\ pc' = "reverify"
    BY <1>16 DEF Anchor, At, TypeInv, AtHand, Visited, Goto, history
  <2>2. Anchored(curHash)
    BY <1>3, <2>1 DEF AnchorInv, HashesWereRead, Anchored
  <2>3. \A fp \in Fps : row'[fp].status = "open" =>
          \/ \E g \in Fps : row[g].status = "open" /\ row'[fp].hash = row[g].hash
          \/ Anchored(row'[fp].hash)
    BY <1>1, <1>16, <2>1, <2>2 DEF Anchor, AnchorHash
  <2>4. AnchorWasJudged'
    BY <2>1, <2>3, AnchorsKept
  <2>5. QED
    BY <2>1, <2>4 DEF AnchorInv, HashesWereRead
<1>17. QED
  BY <1>6, <1>7, <1>8, <1>9, <1>10, <1>11, <1>12, <1>13, <1>14, <1>15, <1>16
     DEF Next, Cycle

(* An open finding is anchored to a content a panel judged, or to one its  *)
(* file had lost before the panel met it, whatever is committed and pulled *)
(* between hash, panel and upsert (postcycle.go:165-231).                  *)
THEOREM AnchorsWereJudged == Spec => []AnchorWasJudged
<1>1. Spec => []AnchorInv
  BY InitAnchor, AnchorNext, TypeInvHolds, PTL DEF Spec
<1>2. AnchorInv => AnchorWasJudged
  BY DEF AnchorInv
<1>3. QED
  BY <1>1, <1>2, PTL

=============================================================================
