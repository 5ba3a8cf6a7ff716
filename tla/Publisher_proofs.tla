-------------------------- MODULE Publisher_proofs --------------------------
(***************************************************************************)
(* Theorems about Publisher, for any findings, likeness between them and   *)
(* number of issues, changes, crashes and failing calls.                   *)
(***************************************************************************)
EXTENDS Publisher, TLAPS

Closes == {"comment", "closing", "close", "closed", "forget"}
Acting == {"tombstone", "ensure", "post", "search", "adopt", "record", "push",
           "reopen", "stale", "regressed", "labels", "labelled"} \cup Closes
Pcs    == {"idle", "list", "back", "plan", "next"} \cup Acting

Actions == [op : Ops, fp : Findings, key : Keys \cup {NoKey}]

Holds(f, k) == k \in Keys /\ row[f].key = k
Held(k)     == \E f \in Findings : Holds(f, k)

-----------------------------------------------------------------------------
(* The invariant of types.                                                 *)

(* From the plan until its turn comes, an action says how its finding and  *)
(* its row stand: nobody else writes them.                                 *)
Applies(a) ==
  /\ a.op = "create"  => row[a.fp].state = "none"
  /\ a.op = "recover" => row[a.fp].state = "pending"
  /\ a.op = "adopt"   => /\ row[a.fp].state = "none"
                         /\ a.key \in Keys /\ (Gone(a.key) \/ Held(a.key))
  /\ a.op = "reopen"  => row[a.fp].state = "closed" /\ Holds(a.fp, a.key)
  /\ a.op \in {"update", "skip", "close"} => Linked(a.fp) /\ Holds(a.fp, a.key)
Due(a) ==
  IF a.op = "close" THEN CloseOnFixed /\ finding[a.fp].status \in Closed
  ELSE finding[a.fp].status = "open" /\ finding[a.fp].filed

PlanOK ==
  /\ \A a \in plan : Applies(a) /\ Due(a)
  /\ plan # {} => pc \in Acting \cup {"next"}
  /\ pc \in Acting => \A a \in plan : a.fp # cur.fp
  /\ back # {} => pc = "back"
  /\ \A f \in back : Linked(f) /\ issue[row[f].key].state \in {"closed", "gone"}

(* The action at hand, step by step.                                       *)
CurOK ==
  pc \in Acting =>
    /\ cur \in Actions /\ Due(cur)
    /\ cur.op = "close" <=> pc \in Closes
    /\ pc = "tombstone" => row[cur.fp].state = "none"
    /\ pc = "search" => row[cur.fp].state = "pending"
    /\ pc \in {"ensure", "post"} => row[cur.fp].key = NoKey
    /\ pc \in {"adopt", "record"} =>
         minted \in Keys /\ issue[minted].state # "none"
    /\ pc = "adopt" => row[cur.fp].key = NoKey
    /\ pc = "record" => row[cur.fp].key \in {NoKey, minted}
    /\ pc \in {"push", "reopen", "stale", "regressed", "labels"} \cup Closes =>
         Holds(cur.fp, cur.key)
    /\ pc \in {"push", "reopen"} => minted = cur.key
    /\ pc \in {"push", "regressed", "labels", "labelled"} \cup Closes =>
         Linked(cur.fp)
    /\ pc \in {"stale", "forget"} => Gone(cur.key)

(* A row knows only issues that were filed.                                *)
KeysOK == \A f \in Findings, k \in Keys : Holds(f, k) => issue[k].state # "none"

TypeInv == TypeOK /\ pc \in Pcs /\ PlanOK /\ CurOK /\ KeysOK

-----------------------------------------------------------------------------
(* Markers.                                                                *)

(* An issue that was filed bears the marker of a finding. Until somebody   *)
(* deletes it, the row of that finding knows it, or no row does and only a *)
(* person can have closed it.                                              *)
Alive(k) == issue[k].state \in {"open", "closed"}
FiledOK ==
  \A k \in Keys : IF issue[k].state = "none" THEN issue[k].marker = "none"
                  ELSE issue[k].marker \in Findings
HeldOK ==
  \A k \in Keys : Alive(k) => Holds(issue[k].marker, k) \/ ~Held(k)
UnheldOK ==
  \A k \in Keys : issue[k].state = "closed" /\ ~Held(k) => issue[k].last = "human"

(* A row is closed when its issue is, or was until it was reopened.        *)
Shut(k) == \/ issue[k].state \in {"closed", "gone"}
           \/ issue[k].state = "open" /\ issue[k].last = "reopened"
ClosedOK == \A f \in Findings : row[f].state = "closed" => Shut(row[f].key)

(* The issue just created, or found by its marker, bears it; the issue to  *)
(* be recorded as closed is closed.                                        *)
Marked(k) == issue[k].marker = cur.fp /\ issue[k].state # "none"
MintedOK ==
  /\ pc = "record" /\ row[cur.fp].key = NoKey => Marked(minted)
  /\ pc = "adopt" /\ row[cur.fp].state = "pending" => Marked(minted)
  /\ pc = "adopt" /\ row[cur.fp].state = "none" => Gone(minted) \/ Held(minted)
ClosingOK == pc = "closed" => issue[cur.key].state \in {"closed", "gone"}

Marks   == FiledOK /\ HeldOK /\ UnheldOK /\ ClosedOK
MarkInv == Marks /\ MintedOK /\ ClosingOK

(* While no issue is deleted, the marker of an issue leads back to it      *)
(* through the row, or through the search of a pending row.                *)
NoneGone == \A k \in Keys : ~Gone(k)
OneEach ==
  \A j, k \in Keys :
    issue[j].state # "none" /\ issue[j].marker = issue[k].marker => j = k
Traced ==
  \A k \in Keys : issue[k].state # "none" =>
    Holds(issue[k].marker, k) \/ row[issue[k].marker].state = "pending"
Tombstoned ==
  /\ pc \in {"ensure", "post"} =>
       /\ row[cur.fp].state = "pending"
       /\ \A k \in Keys : issue[k].marker # cur.fp
  /\ pc = "record" => row[cur.fp].state # "none"
FiledOnce == NoneGone => OneEach /\ Traced /\ Tombstoned

-----------------------------------------------------------------------------
(* Clean runs.                                                             *)

(* The issue of a row may be left as it is: it is open, gone, another row's*)
(* as well, or closed by a person after the list of closed issues.         *)
KeyOK(f, k) ==
  \/ issue[k].state \in {"open", "gone"}
  \/ \E g \in Findings \ {f} : Holds(g, k)
  \/ issue[k].state = "closed" /\ issue[k].last = "human"

IssuesOK ==
  pc # "list" =>
    /\ \A f \in Findings :
         Linked(f) => f \in back \/ (pc = "closed" /\ cur.fp = f) \/ KeyOK(f, row[f].key)
    /\ pc \in {"adopt", "record"} => KeyOK(cur.fp, minted)

(* The row of every finding is as the finding asks, unless its action is   *)
(* still to come or at hand.                                               *)
RowDone(f) ==
  /\ finding[f].status = "open" /\ finding[f].filed => Linked(f)
  /\ finding[f].status \in Closed /\ CloseOnFixed /\ row[f].key # NoKey =>
       row[f].state = "closed"
RowsDone ==
  pc \in Acting \cup {"idle", "next"} =>
    \A f \in Findings :
      RowDone(f) \/ (\E a \in plan : a.fp = f) \/ (pc \in Acting /\ cur.fp = f)

CleanInv == clean => IssuesOK /\ RowsDone

-----------------------------------------------------------------------------
(* What the writes do to a row.                                            *)

Row == [state : States, key : Keys \cup {NoKey}, pushed : BOOLEAN,
        labelled : BOOLEAN]
Issue == [state : {"none", "open", "closed", "gone"},
          marker : Findings \cup {"none"},
          last : {"filed", "closed", "reopened", "human"}]
RowsTyped ==
  /\ row \in [Findings -> Row]
  /\ \A f \in Findings :
       row[f].key = NoKey <=> row[f].state \in {"none", "pending"}

LEMMA KeyFacts == NoKey \notin Keys
  BY PublisherAssumption, SMT DEF Keys, NoKey

LEMMA TypeFacts ==
  ASSUME TypeOK
  PROVE  RowsTyped /\ issue \in [Keys -> Issue] /\ plan \subseteq Actions
  BY DEF TypeOK, RowsTyped, Row, Issue, Actions

(* An upsert changes one row, as it says, and keeps its labels' flag.      *)
LEMMA UpsertRow ==
  ASSUME RowsTyped, NEW f \in Findings, NEW s \in States,
         NEW k \in Keys \cup {NoKey}, NEW p \in BOOLEAN,
         k = NoKey <=> s \in {"none", "pending"},
         Upsert(f, s, k, p)
  PROVE  /\ RowsTyped'
         /\ finding' = finding /\ (newer \subseteq Findings => newer' \subseteq Findings)
         /\ \A g \in Findings \ {f} : row'[g] = row[g]
         /\ row'[f].state = s /\ row'[f].key = k /\ row'[f].pushed = p
         /\ row'[f].labelled = row[f].labelled
<1> DEFINE r == [row[f] EXCEPT !.state = s, !.key = k, !.pushed = p]
<1>1. row[f] \in Row
  BY DEF RowsTyped
<1>2. /\ r \in Row /\ r.state = s /\ r.key = k /\ r.pushed = p
      /\ r.labelled = row[f].labelled
  BY <1>1 DEF Row
<1>3. row' = [row EXCEPT ![f] = r]
  BY DEF Upsert, RowsTyped
<1> HIDE DEF r
<1>4. row' \in [Findings -> Row] /\ row'[f] = r
      /\ \A g \in Findings \ {f} : row'[g] = row[g]
  BY <1>2, <1>3 DEF RowsTyped
<1>5. \A g \in Findings : row'[g].key = NoKey <=> row'[g].state \in {"none", "pending"}
  BY <1>2, <1>4 DEF RowsTyped
<1> QED
  BY <1>2, <1>4, <1>5 DEF RowsTyped, Upsert

LEMMA DeleteRow ==
  ASSUME RowsTyped, NEW f \in Findings, Delete(f)
  PROVE  /\ RowsTyped'
         /\ finding' = finding /\ (newer \subseteq Findings => newer' \subseteq Findings)
         /\ \A g \in Findings \ {f} : row'[g] = row[g]
         /\ row'[f].state = "none" /\ row'[f].key = NoKey
<1>1. NoRow \in Row /\ NoRow.state = "none" /\ NoRow.key = NoKey
  BY DEF NoRow, Row, States
<1> QED
  BY <1>1 DEF RowsTyped, Delete

(* Flags of a row are not its state nor its key.                           *)
LEMMA FlagRow ==
  ASSUME RowsTyped, NEW f \in Findings, NEW p \in BOOLEAN, NEW l \in BOOLEAN,
         row' = [row EXCEPT ![f].pushed = p, ![f].labelled = l]
  PROVE  /\ RowsTyped'
         /\ \A g \in Findings : row'[g].state = row[g].state /\ row'[g].key = row[g].key
<1> DEFINE r == [row[f] EXCEPT !.pushed = p, !.labelled = l]
<1>1. row[f] \in Row
  BY DEF RowsTyped
<1>2. r \in Row /\ r.state = row[f].state /\ r.key = row[f].key
  BY <1>1 DEF Row
<1>3. row' = [row EXCEPT ![f] = r]
  BY DEF RowsTyped
<1> HIDE DEF r
<1>4. row' \in [Findings -> Row] /\ row'[f] = r
      /\ \A g \in Findings \ {f} : row'[g] = row[g]
  BY <1>2, <1>3 DEF RowsTyped
<1> QED
  BY <1>2, <1>4 DEF RowsTyped

-----------------------------------------------------------------------------
(* Issues, and the environment.                                            *)

(* An issue that is filed stays filed, one that is gone stays gone.        *)
IssuesKept ==
  /\ issue' \in [Keys -> Issue]
  /\ \A k \in Keys :
       /\ issue[k].state # "none" => issue'[k].state # "none"
       /\ Gone(k) => Gone(k)'

LEMMA SameIssues ==
  ASSUME TypeOK, UNCHANGED issue
  PROVE  IssuesKept
  BY TypeFacts DEF IssuesKept, Gone

LEMMA PutIssue ==
  ASSUME TypeOK, NEW k \in Keys, NEW i \in Issue, i.state # "none",
         Gone(k) => i.state = "gone", issue' = [issue EXCEPT ![k] = i]
  PROVE  /\ IssuesKept
         /\ issue'[k] = i /\ \A j \in Keys \ {k} : issue'[j] = issue[j]
  BY TypeFacts DEF IssuesKept, Gone

(* The tracker's own changes: what is closed does not open.                *)
LEMMA IssuesMove ==
  ASSUME TypeInv, UNCHANGED <<store, run>>, IssuesKept,
         {disabled', clean'} \subseteq BOOLEAN,
         \A k \in Keys : issue[k].state \in {"closed", "gone"} =>
                           issue'[k].state \in {"closed", "gone"}
  PROVE  TypeInv'
<1> USE DEF TypeInv, store, run
<1>1. TypeOK'
  BY DEF TypeOK, IssuesKept, Issue
<1>2. KeysOK'
  BY DEF KeysOK, IssuesKept, Holds
<1>3. \A a \in Actions : (Applies(a) => Applies(a)') /\ (Due(a) => Due(a)')
  BY DEF Applies, Due, IssuesKept, Held, Holds, Linked, Actions
<1>4. PlanOK'
  <2>1. plan \subseteq Actions
    BY TypeFacts
  <2>2. \A a \in plan' : Applies(a)' /\ Due(a)'
    BY <1>3, <2>1 DEF PlanOK
  <2>3. \A f \in back' :
          Linked(f)' /\ issue'[row'[f].key].state \in {"closed", "gone"}
    <3> SUFFICES ASSUME NEW f \in back
                 PROVE  Linked(f)' /\ issue'[row[f].key].state \in {"closed", "gone"}
      OBVIOUS
    <3>1. Linked(f) /\ issue[row[f].key].state \in {"closed", "gone"} /\ f \in Findings
      BY DEF PlanOK, TypeOK
    <3>2. row[f].key \in Keys
      BY <3>1, TypeFacts DEF Linked, RowsTyped, Row
    <3> QED
      BY <3>1, <3>2 DEF Linked
  <2> QED
    BY <2>2, <2>3 DEF PlanOK
<1>5. CurOK'
  <2> SUFFICES ASSUME pc \in Acting
               PROVE  CurOK'
    BY DEF CurOK
  <2>1. cur \in Actions /\ Due(cur)'
    BY <1>3 DEF CurOK
  <2> QED
    BY <2>1 DEF CurOK, IssuesKept, Holds, Linked, Gone, Closes
<1> QED
  BY <1>1, <1>2, <1>4, <1>5

LEMMA TypePeople ==
  ASSUME TypeInv, NEW k \in Keys, HumanClose(k) \/ Vanish(k)
  PROVE  TypeInv'
<1>0. issue[k] \in Issue /\ TypeOK /\ issue \in [Keys -> Issue]
  BY TypeFacts DEF TypeInv
<1>1. UNCHANGED <<store, run>> /\ {disabled', clean'} \subseteq BOOLEAN
  BY <1>0 DEF HumanClose, Vanish, Happens, TypeOK
<1>2. CASE HumanClose(k)
  <2> DEFINE i == [issue[k] EXCEPT !.state = "closed", !.last = "human"]
  <2>1. i \in Issue /\ i.state = "closed"
    BY <1>0 DEF Issue
  <2>2. issue' = [issue EXCEPT ![k] = i] /\ ~Gone(k)
    BY <1>0, <1>2 DEF HumanClose, Gone
  <2> HIDE DEF i
  <2>3. IssuesKept /\ issue'[k] = i /\ \A j \in Keys \ {k} : issue'[j] = issue[j]
    BY <1>0, <2>1, <2>2, PutIssue
  <2> QED
    BY <1>1, <2>1, <2>3, IssuesMove
<1>3. CASE Vanish(k)
  <2> DEFINE i == [issue[k] EXCEPT !.state = "gone"]
  <2>1. i \in Issue /\ i.state = "gone"
    BY <1>0 DEF Issue
  <2>2. issue' = [issue EXCEPT ![k] = i]
    BY <1>0, <1>3 DEF Vanish
  <2> HIDE DEF i
  <2>3. IssuesKept /\ issue'[k] = i /\ \A j \in Keys \ {k} : issue'[j] = issue[j]
    BY <1>0, <2>1, <2>2, PutIssue
  <2> QED
    BY <1>1, <2>1, <2>3, IssuesMove
<1> QED
  BY <1>2, <1>3

(* Findings change between runs only, when nothing is planned.             *)
LEMMA TypeScans ==
  ASSUME TypeInv, NEW f \in Findings,
         Find(f) \/ Revise(f) \/ Touch(f) \/ Resolve(f) \/ Regress(f)
  PROVE  TypeInv'
<1> USE DEF TypeInv
<1>1. \E s \in Closed \cup {"absent", "open"}, d \in BOOLEAN : Rewritten(f, s, d)
  <2>1. finding[f].filed \in BOOLEAN
    BY DEF TypeOK
  <2> QED
    BY <2>1 DEF Find, Revise, Touch, Resolve, Regress
<1>2. PICK s \in Closed \cup {"absent", "open"}, d \in BOOLEAN : Rewritten(f, s, d)
  BY <1>1
<1>3. /\ RowsTyped'
      /\ \A g \in Findings : row'[g].state = row[g].state /\ row'[g].key = row[g].key
  <2>1. CASE Revise(f)
    BY <2>1, TypeFacts, FlagRow DEF Revise
  <2>2. CASE UNCHANGED row
    BY <2>2, TypeFacts DEF RowsTyped
  <2> QED
    BY <2>1, <2>2 DEF Find, Touch, Resolve, Regress
<1>4. /\ pc = "idle" /\ UNCHANGED <<issue, pc, back, plan, cur, minted, disabled>>
      /\ clean' = FALSE
  BY <1>2 DEF Rewritten, Happens, run
<1>5. finding' \in [Findings -> [status : Closed \cup {"absent", "open"}, filed : BOOLEAN]]
      /\ newer' \subseteq Findings
  BY <1>2 DEF Rewritten, TypeOK
<1>6. TypeOK'
  BY <1>3, <1>4, <1>5 DEF TypeOK, RowsTyped, Row
<1>7. plan = {} /\ back = {} /\ pc \notin Acting
  BY <1>4 DEF PlanOK, Acting, Closes
<1>8. PlanOK' /\ CurOK'
  BY <1>4, <1>7 DEF PlanOK, CurOK
<1>9. KeysOK'
  BY <1>3, <1>4 DEF KeysOK, Holds
<1> QED
  BY <1>4, <1>6, <1>8, <1>9

LEMMA TypeEnvironment ==
  ASSUME TypeInv, Environment
  PROVE  TypeInv'
  BY TypeScans, TypePeople DEF Environment

-----------------------------------------------------------------------------
(* The action at hand.                                                     *)

Flags == {disabled', clean'} \subseteq BOOLEAN
(* A step of the action writes no other row, and its own row leaves an     *)
(* issue only when that is gone.                                           *)
RowsKept ==
  /\ finding' = finding /\ newer' \subseteq Findings /\ RowsTyped'
  /\ \A g \in Findings \ {cur.fp} : row'[g] = row[g]
  /\ \A k \in Keys : Holds(cur.fp, k) => row'[cur.fp].key = k \/ Gone(k)'
  /\ \A k \in Keys : row'[cur.fp].key = k => issue'[k].state # "none"
GoesOn ==
  /\ pc' \in Acting /\ UNCHANGED <<back, plan, cur>>
  /\ minted' \in Keys \cup {NoKey} /\ CurOK'

LEMMA ActingKeeps ==
  ASSUME TypeInv, pc \in Acting, IssuesKept, RowsKept, Flags,
         NextAction \/ EndRun \/ GoesOn
  PROVE  TypeInv'
<1> USE DEF TypeInv
<1>0. /\ plan \subseteq Actions /\ cur \in Actions /\ back = {}
      /\ pc # "back" /\ "next" \notin Acting /\ "idle" \notin Acting
  BY TypeFacts DEF CurOK, PlanOK, Acting, Closes
<1>1. /\ plan' \subseteq plan /\ back' = {} /\ minted' \in Keys \cup {NoKey}
      /\ pc' \in Pcs /\ (plan' # {} => pc' \in Acting \cup {"next"})
      /\ pc' \in Acting => cur' = cur
  BY <1>0 DEF NextAction, EndRun, GoesOn, Pcs, TypeOK
<1>2. TypeOK'
  <2>1. RowsTyped'
    BY DEF RowsKept
  <2> QED
    BY <1>1, <2>1 DEF TypeOK, IssuesKept, RowsKept, RowsTyped, Row, Issue, Flags
<1>3. KeysOK'
  <2> SUFFICES ASSUME NEW f \in Findings, NEW k \in Keys, Holds(f, k)'
               PROVE  issue'[k].state # "none"
    BY DEF KeysOK
  <2>1. CASE f = cur.fp
    BY <2>1 DEF RowsKept, Holds
  <2>2. CASE f # cur.fp
    BY <2>2 DEF RowsKept, KeysOK, Holds, IssuesKept
  <2> QED
    BY <2>1, <2>2
<1>4. \A k \in Keys : Held(k) => Held(k)' \/ Gone(k)'
  <2> SUFFICES ASSUME NEW k \in Keys, NEW f \in Findings, Holds(f, k)
               PROVE  Held(k)' \/ Gone(k)'
    BY DEF Held
  <2>1. CASE f = cur.fp
    BY <2>1 DEF RowsKept, Held, Holds
  <2>2. CASE f # cur.fp
    <3>1. row'[f] = row[f]
      BY <2>2 DEF RowsKept
    <3> QED
      BY <3>1 DEF Held, Holds
  <2> QED
    BY <2>1, <2>2
<1>5. PlanOK'
  <2>1. ASSUME NEW a \in plan'
        PROVE  Applies(a)' /\ Due(a)' /\ a.fp # cur.fp
    <3>1. Applies(a) /\ Due(a) /\ a.fp # cur.fp /\ a \in Actions
      BY <1>0, <1>1 DEF PlanOK
    <3>2. row'[a.fp] = row[a.fp] /\ finding' = finding
      BY <3>1 DEF RowsKept, Actions
    <3>3. Applies(a)'
      BY <1>4, <3>1, <3>2 DEF Applies, Holds, Linked, Gone, IssuesKept
    <3> QED
      BY <3>1, <3>2, <3>3 DEF Due
  <2> QED
    BY <1>1, <2>1 DEF PlanOK
<1>6. CurOK'
  BY <1>0 DEF NextAction, EndRun, GoesOn, CurOK
<1> QED
  BY <1>1, <1>2, <1>3, <1>5, <1>6

LEMMA SameRows ==
  ASSUME TypeInv, pc \in Acting, UNCHANGED store, IssuesKept
  PROVE  RowsKept
<1>1. cur.fp \in Findings /\ RowsTyped /\ newer \subseteq Findings
  BY TypeFacts DEF TypeInv, CurOK, Actions, TypeOK
<1>2. RowsTyped'
  BY <1>1 DEF RowsTyped, store
<1>3. \A k \in Keys : row[cur.fp].key = k => issue'[k].state # "none"
  BY <1>1 DEF TypeInv, KeysOK, IssuesKept, Holds
<1> QED
  BY <1>1, <1>2, <1>3 DEF store, RowsKept, Holds

LEMMA TypeFails ==
  ASSUME TypeInv, pc \in Acting, UNCHANGED store, IssuesKept, ActionFails
  PROVE  TypeInv'
<1>1. Flags /\ (NextAction \/ EndRun)
  BY DEF TypeInv, TypeOK, ActionFails, Abort, Fails, Flags
<1> QED
  BY <1>1, SameRows, ActingKeeps

LEMMA TypeCallFails ==
  ASSUME TypeInv, pc \in Acting, CallFails(pc)
  PROVE  TypeInv'
  BY SameIssues, TypeFails DEF TypeInv, CallFails

(* A step that only reads.                                                 *)
LEMMA TypeReads ==
  ASSUME TypeInv, pc \in Acting, UNCHANGED <<store, issue>>, Flags,
         NextAction \/ GoesOn
  PROVE  TypeInv'
  BY SameIssues, SameRows, ActingKeeps DEF TypeInv

LEMMA TypeGoneFails ==
  ASSUME TypeInv, pc \in Acting, GoneFails
  PROVE  TypeInv'
  BY TypeReads DEF GoneFails, Flags, TypeInv, TypeOK

(* A step that writes the action's row.                                    *)
LEMMA TypeUpserts ==
  ASSUME TypeInv, pc \in Acting, UNCHANGED issue, Unharmed,
         NEW s \in States, NEW k \in Keys \cup {NoKey}, NEW p \in BOOLEAN,
         k = NoKey <=> s \in {"none", "pending"},
         Upsert(cur.fp, s, k, p),
         row[cur.fp].key \in {NoKey, k},
         k # NoKey => issue[k].state # "none",
         NextAction \/ GoesOn
  PROVE  TypeInv'
<1>1. cur.fp \in Findings /\ RowsTyped /\ newer \subseteq Findings
  BY TypeFacts DEF TypeInv, CurOK, Actions, TypeOK
<1>2. /\ RowsTyped' /\ finding' = finding
      /\ newer' \subseteq Findings
      /\ \A g \in Findings \ {cur.fp} : row'[g] = row[g]
      /\ row'[cur.fp].key = k
  BY <1>1, UpsertRow
<1>3. RowsKept
  BY <1>2, KeyFacts DEF RowsKept, Holds
<1>4. Flags /\ IssuesKept
  BY SameIssues DEF Unharmed, Flags, TypeInv, TypeOK
<1> QED
  BY <1>3, <1>4, ActingKeeps

(* The new issue and the ones changed in place.                            *)
LEMMA FiledIssue ==
  ASSUME TypeInv, pc \in Acting, HasRoom, issue' = Filed
  PROVE  /\ IssuesKept
         /\ FreshKey \in Keys /\ issue[FreshKey].state = "none"
         /\ issue'[FreshKey] = IssueOf(cur.fp, "filed")
         /\ \A j \in Keys \ {FreshKey} : issue'[j] = issue[j]
<1>1. FreshKey \in Keys /\ issue[FreshKey].state = "none"
  BY DEF HasRoom, FreshKey
<1> DEFINE i == IssueOf(cur.fp, "filed")
<1>2. i \in Issue /\ i.state = "open"
  BY DEF TypeInv, CurOK, Actions, IssueOf, Issue
<1>3. issue' = [issue EXCEPT ![FreshKey] = i] /\ ~Gone(FreshKey)
  BY <1>1 DEF Filed, Gone
<1> HIDE DEF i
<1>4. /\ IssuesKept /\ issue'[FreshKey] = i
      /\ \A j \in Keys \ {FreshKey} : issue'[j] = issue[j]
  <2> DEFINE k == FreshKey
  <2>1. k \in Keys /\ issue' = [issue EXCEPT ![k] = i] /\ ~Gone(k)
    BY <1>1, <1>3
  <2> HIDE DEF k
  <2>2. /\ IssuesKept /\ issue'[k] = i
        /\ \A j \in Keys \ {k} : issue'[j] = issue[j]
    BY <1>2, <2>1, PutIssue DEF TypeInv
  <2> QED
    BY <2>2 DEF k
<1> QED
  BY <1>1, <1>4 DEF i

(* The issue of the action, as the tracker changes it.                     *)
LEMMA PushedIssue ==
  ASSUME TypeInv, pc \in Acting, cur.key \in Keys, issue[cur.key].state # "none",
         issue' = [issue EXCEPT ![cur.key].marker = cur.fp]
  PROVE  /\ IssuesKept
         /\ issue'[cur.key] = [issue[cur.key] EXCEPT !.marker = cur.fp]
         /\ issue'[cur.key].state = issue[cur.key].state
         /\ issue'[cur.key].last = issue[cur.key].last
         /\ issue'[cur.key].marker = cur.fp
         /\ \A j \in Keys \ {cur.key} : issue'[j] = issue[j]
<1> DEFINE k == cur.key
           i == [issue[k] EXCEPT !.marker = cur.fp]
<1>1. cur.fp \in Findings /\ issue[k] \in Issue /\ issue \in [Keys -> Issue] /\ TypeOK
  BY TypeFacts DEF TypeInv, CurOK, Actions
<1>2. /\ i \in Issue /\ i.state = issue[k].state /\ i.last = issue[k].last
      /\ i.marker = cur.fp
  BY <1>1 DEF Issue
<1>3. issue' = [issue EXCEPT ![k] = i] /\ k \in Keys
  BY <1>1
<1> HIDE DEF i, k
<1>4. /\ IssuesKept /\ issue'[k] = i
      /\ \A j \in Keys \ {k} : issue'[j] = issue[j]
  <2>1. i.state # "none" /\ (Gone(k) => i.state = "gone")
    BY <1>2 DEF Gone, k
  <2> QED
    BY <1>1, <1>2, <1>3, <2>1, PutIssue
<1> QED
  BY <1>2, <1>4 DEF i, k

LEMMA ReopenedIssue ==
  ASSUME TypeInv, pc \in Acting, cur.key \in Keys, ~Gone(cur.key),
         issue' = [issue EXCEPT ![cur.key] = IssueOf(cur.fp, "reopened")]
  PROVE  /\ IssuesKept
         /\ issue'[cur.key] = IssueOf(cur.fp, "reopened")
         /\ \A j \in Keys \ {cur.key} : issue'[j] = issue[j]
<1> DEFINE k == cur.key
           i == IssueOf(cur.fp, "reopened")
<1>1. i \in Issue /\ i.state = "open"
  BY DEF TypeInv, CurOK, Actions, IssueOf, Issue
<1>2. issue' = [issue EXCEPT ![k] = i] /\ k \in Keys /\ ~Gone(k)
  OBVIOUS
<1> HIDE DEF i, k
<1>3. /\ IssuesKept /\ issue'[k] = i
      /\ \A j \in Keys \ {k} : issue'[j] = issue[j]
  BY <1>1, <1>2, PutIssue DEF TypeInv
<1> QED
  BY <1>3 DEF i, k

LEMMA ClosedIssue ==
  ASSUME TypeInv, pc \in Acting, cur.key \in Keys, ~Gone(cur.key),
         NEW l \in {"closed", issue[cur.key].last},
         issue' = [issue EXCEPT ![cur.key].state = "closed", ![cur.key].last = l]
  PROVE  /\ IssuesKept
         /\ issue'[cur.key].state = "closed" /\ issue'[cur.key].last = l
         /\ issue'[cur.key].marker = issue[cur.key].marker
         /\ \A j \in Keys \ {cur.key} : issue'[j] = issue[j]
<1> DEFINE k == cur.key
           i == [issue[k] EXCEPT !.state = "closed", !.last = l]
<1>1. issue[k] \in Issue /\ issue \in [Keys -> Issue] /\ TypeOK
  BY TypeFacts DEF TypeInv
<1>2. /\ i \in Issue /\ i.state = "closed" /\ i.last = l
      /\ i.marker = issue[k].marker
  BY <1>1 DEF Issue
<1>3. issue' = [issue EXCEPT ![k] = i] /\ k \in Keys /\ ~Gone(k)
  BY <1>1
<1> HIDE DEF i, k
<1>4. /\ IssuesKept /\ issue'[k] = i
      /\ \A j \in Keys \ {k} : issue'[j] = issue[j]
  BY <1>1, <1>2, <1>3, PutIssue
<1> QED
  BY <1>2, <1>4 DEF k

-----------------------------------------------------------------------------
(* The steps of an action.                                                 *)

LEMMA ActingFacts ==
  ASSUME TypeInv, pc \in Acting
  PROVE  /\ cur \in Actions /\ cur.fp \in Findings
         /\ RowsTyped /\ issue \in [Keys -> Issue]
         /\ (Unharmed => Flags)
  BY TypeFacts DEF TypeInv, CurOK, Actions, Unharmed, Flags, TypeOK

LEMMA TypeTombstone ==
  ASSUME TypeInv, Tombstone
  PROVE  TypeInv'
<1>1. pc = "tombstone" /\ pc \in Acting
  BY DEF Tombstone, At, Acting
<1>2. row[cur.fp].state = "none" /\ row[cur.fp].key = NoKey
  BY <1>1, ActingFacts DEF TypeInv, CurOK, RowsTyped
<1>3. cur.fp \in Findings /\ RowsTyped /\ row'[cur.fp].key = NoKey
  BY <1>1, ActingFacts, UpsertRow DEF Tombstone, States
<1>4. GoesOn
  BY <1>1, <1>3 DEF TypeInv, TypeOK, Tombstone, Goto, GoesOn, CurOK, Acting, Closes,
     Due, Upsert
<1> QED
  BY <1>1, <1>2, <1>4, TypeUpserts DEF Tombstone, StoreStep, States

LEMMA TypeEnsureLabels ==
  ASSUME TypeInv, EnsureLabels
  PROVE  TypeInv'
<1>1. pc = "ensure" /\ pc \in Acting
  BY DEF EnsureLabels, CallFails, At, Acting
<1>2. CASE CallFails("ensure")
  BY <1>1, <1>2, TypeCallFails
<1>3. CASE Goto("post") /\ Answered
  <2>1. GoesOn
    BY <1>1, <1>3 DEF TypeInv, TypeOK, Goto, GoesOn, Answered, store, CurOK, Acting,
       Closes, Due
  <2> QED
    BY <1>1, <1>3, <2>1, ActingFacts, TypeReads DEF Answered
<1> QED
  BY <1>2, <1>3 DEF EnsureLabels

LEMMA TypeCreateIssue ==
  ASSUME TypeInv, CreateIssue
  PROVE  TypeInv'
<1>1. pc = "post" /\ pc \in Acting
  BY DEF CreateIssue, CallFails, At, Acting
<1>2. CASE CallFails("post")
  BY <1>1, <1>2, TypeCallFails
<1>3. ASSUME HasRoom, issue' = Filed
      PROVE  /\ IssuesKept /\ FreshKey \in Keys
             /\ issue'[FreshKey].state # "none"
  BY <1>1, <1>3, FiledIssue DEF IssueOf
<1>4. CASE HasRoom /\ issue' = Filed /\ ActionFails /\ UNCHANGED store
  BY <1>1, <1>3, <1>4, TypeFails
<1>5. CASE /\ HasRoom /\ issue' = Filed
           /\ minted' = FreshKey /\ pc' = "record"
           /\ UNCHANGED <<back, plan, cur, store>> /\ Unharmed
  <2>1. row[cur.fp].key = NoKey
    BY <1>1 DEF TypeInv, CurOK
  <2>2. GoesOn
    BY <1>1, <1>3, <1>5, <2>1 DEF TypeInv, GoesOn, store, CurOK, Acting, Closes, Due
  <2> QED
    BY <1>1, <1>3, <1>5, <2>2, ActingFacts, ActingKeeps, SameRows
<1> QED
  BY <1>2, <1>4, <1>5 DEF CreateIssue

LEMMA TypeSearch ==
  ASSUME TypeInv, Search
  PROVE  TypeInv'
<1>1. pc = "search" /\ pc \in Acting
  BY DEF Search, CallFails, At, Acting
<1>2. CASE CallFails("search")
  BY <1>1, <1>2, TypeCallFails
<1> DEFINE hits == {k \in Keys : /\ issue[k].state \in {"open", "closed"}
                                 /\ issue[k].marker = cur.fp}
<1>3. CASE Answered /\ (IF hits = {} THEN Goto("ensure")
                        ELSE /\ minted' \in hits /\ pc' = "adopt"
                             /\ UNCHANGED <<back, plan, cur>>)
  <2>1. row[cur.fp].key = NoKey
    BY <1>1, ActingFacts DEF TypeInv, CurOK, RowsTyped
  <2>2. GoesOn
    BY <1>1, <1>3, <2>1 DEF TypeInv, TypeOK, Goto, GoesOn, Answered, store, CurOK,
       Acting, Closes, Due
  <2> QED
    BY <1>1, <1>3, <2>2, ActingFacts, TypeReads DEF Answered
<1> QED
  BY <1>2, <1>3 DEF Search

LEMMA TypeAdopt ==
  ASSUME TypeInv, Adopt
  PROVE  TypeInv'
<1>1. pc = "adopt" /\ pc \in Acting
  BY DEF Adopt, At, Acting
<1>2. /\ minted \in Keys /\ issue[minted].state # "none"
      /\ row[cur.fp].key = NoKey /\ minted # NoKey
  BY <1>1, KeyFacts DEF TypeInv, CurOK
<1> QED
  BY <1>1, <1>2, TypeUpserts DEF Adopt, StoreStep, States

LEMMA TypeRecord ==
  ASSUME TypeInv, Record
  PROVE  TypeInv'
<1>1. pc = "record" /\ pc \in Acting
  BY DEF Record, At, Acting
<1>2. /\ minted \in Keys /\ issue[minted].state # "none"
      /\ row[cur.fp].key \in {NoKey, minted} /\ minted # NoKey
  BY <1>1, KeyFacts DEF TypeInv, CurOK
<1>3. /\ cur.fp \in Findings /\ row'[cur.fp].key = minted
      /\ row'[cur.fp].state = "open" /\ finding' = finding
  BY <1>1, <1>2, ActingFacts, UpsertRow DEF Record, States
<1>4. GoesOn
  BY <1>1, <1>2, <1>3 DEF TypeInv, Record, StoreStep, Goto, GoesOn, CurOK, Acting,
     Closes, Due, AfterRecord, Holds, Linked
<1> QED
  BY <1>1, <1>2, <1>4, TypeUpserts DEF Record, StoreStep, States

LEMMA TypePushBody ==
  ASSUME TypeInv, PushBody
  PROVE  TypeInv'
<1>1. pc = "push" /\ pc \in Acting
  BY DEF PushBody, CallFails, At, Acting
<1>2. CASE CallFails("push")
  BY <1>1, <1>2, TypeCallFails
<1>3. /\ Holds(cur.fp, cur.key) /\ cur.key \in Keys /\ issue[cur.key].state # "none"
      /\ minted = cur.key
  BY <1>1, ActingFacts DEF TypeInv, CurOK, KeysOK, Holds
<1>4. CASE Gone(cur.key) /\ Goto("stale") /\ Answered
  <2>1. GoesOn
    BY <1>1, <1>3, <1>4 DEF TypeInv, TypeOK, Goto, GoesOn, Answered, store, CurOK,
       Acting, Closes, Due, Holds, Gone
  <2> QED
    BY <1>1, <1>4, <2>1, ActingFacts, TypeReads DEF Answered
<1>5. CASE /\ issue' = [issue EXCEPT ![cur.key].marker = cur.fp]
           /\ (Goto("record") /\ Unharmed) \/ ActionFails
           /\ UNCHANGED store
  <2>1. IssuesKept
    BY <1>1, <1>3, <1>5, PushedIssue
  <2>2. CASE ActionFails
    BY <1>1, <1>5, <2>1, <2>2, TypeFails
  <2>3. CASE Goto("record") /\ Unharmed
    <3>1. GoesOn
      BY <1>1, <1>3, <1>5, <2>1, <2>3 DEF TypeInv, TypeOK, Goto, GoesOn, store, CurOK,
         Acting, Closes, Due, Holds, IssuesKept
    <3> QED
      BY <1>1, <1>5, <2>1, <2>3, <3>1, ActingFacts, SameRows, ActingKeeps
  <2> QED
    BY <1>5, <2>2, <2>3
<1> QED
  BY <1>2, <1>4, <1>5 DEF PushBody

LEMMA TypeReopenIssue ==
  ASSUME TypeInv, ReopenIssue
  PROVE  TypeInv'
<1>1. pc = "reopen" /\ pc \in Acting
  BY DEF ReopenIssue, CallFails, At, Acting
<1>2. CASE CallFails("reopen")
  BY <1>1, <1>2, TypeCallFails
<1>3. /\ Holds(cur.fp, cur.key) /\ cur.key \in Keys /\ issue[cur.key].state # "none"
      /\ minted = cur.key
  BY <1>1, ActingFacts DEF TypeInv, CurOK, KeysOK, Holds
<1>4. CASE Gone(cur.key) /\ Goto("stale") /\ Answered
  <2>1. GoesOn
    BY <1>1, <1>3, <1>4 DEF TypeInv, TypeOK, Goto, GoesOn, Answered, store, CurOK,
       Acting, Closes, Due, Holds, Gone
  <2> QED
    BY <1>1, <1>4, <2>1, ActingFacts, TypeReads DEF Answered
<1>5. CASE /\ ~Gone(cur.key)
           /\ issue' = [issue EXCEPT ![cur.key] = IssueOf(cur.fp, "reopened")]
           /\ (Goto("record") /\ Unharmed) \/ ActionFails
           /\ UNCHANGED store
  <2>1. IssuesKept
    BY <1>1, <1>3, <1>5, ReopenedIssue
  <2>2. CASE ActionFails
    BY <1>1, <1>5, <2>1, <2>2, TypeFails
  <2>3. CASE Goto("record") /\ Unharmed
    <3>1. GoesOn
      BY <1>1, <1>3, <1>5, <2>1, <2>3 DEF TypeInv, TypeOK, Goto, GoesOn, store, CurOK,
         Acting, Closes, Due, Holds, IssuesKept
    <3> QED
      BY <1>1, <1>5, <2>1, <2>3, <3>1, ActingFacts, SameRows, ActingKeeps
  <2> QED
    BY <1>5, <2>2, <2>3
<1> QED
  BY <1>2, <1>4, <1>5 DEF ReopenIssue

LEMMA TypeDrops ==
  ASSUME TypeInv, pc \in {"stale", "forget"}, Delete(cur.fp), UNCHANGED issue,
         Unharmed, NextAction \/ GoesOn
  PROVE  TypeInv'
<1>1. pc \in Acting /\ Gone(cur.key) /\ Holds(cur.fp, cur.key)
  BY DEF Acting, Closes, TypeInv, CurOK
<1>2. cur.fp \in Findings /\ RowsTyped /\ newer \subseteq Findings
  BY <1>1, ActingFacts DEF TypeInv, TypeOK
<1>3. /\ RowsTyped' /\ finding' = finding /\ newer' \subseteq Findings
      /\ \A g \in Findings \ {cur.fp} : row'[g] = row[g]
      /\ row'[cur.fp].key = NoKey
  BY <1>2, DeleteRow
<1>4. RowsKept
  <2>1. \A k \in Keys : Holds(cur.fp, k) => Gone(k)'
    BY <1>1 DEF Holds, Gone
  <2> QED
    BY <1>3, <2>1, KeyFacts DEF RowsKept
<1>5. Flags /\ IssuesKept
  BY <1>1, ActingFacts, SameIssues DEF TypeInv
<1> QED
  BY <1>1, <1>4, <1>5, ActingKeeps

LEMMA TypeDropStale ==
  ASSUME TypeInv, DropStale
  PROVE  TypeInv'
<1>1. pc = "stale" /\ pc \in Acting
  BY DEF DropStale, At, Acting
<1>2. cur.fp \in Findings /\ row'[cur.fp].key = NoKey /\ finding' = finding
  BY <1>1, ActingFacts, DeleteRow DEF DropStale
<1>3. GoesOn
  BY <1>1, <1>2 DEF TypeInv, TypeOK, DropStale, Goto, GoesOn, CurOK, Acting, Closes, Due
<1> QED
  BY <1>1, <1>3, TypeDrops DEF DropStale, StoreStep

LEMMA TypeCommentRegression ==
  ASSUME TypeInv, CommentRegression
  PROVE  TypeInv'
<1>1. pc = "regressed" /\ pc \in Acting
  BY DEF CommentRegression, CallFails, At, Acting
<1>2. CASE CallFails("regressed") \/ GoneFails
  BY <1>1, <1>2, TypeCallFails, TypeGoneFails
<1>3. CASE Goto("labels") /\ Answered
  <2>1. GoesOn
    BY <1>1, <1>3 DEF TypeInv, TypeOK, Goto, GoesOn, Answered, store, CurOK, Acting,
       Closes, Due, Holds, Linked
  <2> QED
    BY <1>1, <1>3, <2>1, ActingFacts, TypeReads DEF Answered
<1> QED
  BY <1>2, <1>3 DEF CommentRegression

LEMMA TypeReconcileLabels ==
  ASSUME TypeInv, ReconcileLabels
  PROVE  TypeInv'
<1>1. pc = "labels" /\ pc \in Acting
  BY DEF ReconcileLabels, CallFails, At, Acting
<1>2. CASE CallFails("labels") \/ GoneFails
  BY <1>1, <1>2, TypeCallFails, TypeGoneFails
<1>3. CASE NextAction /\ Answered
  BY <1>1, <1>3, ActingFacts, TypeReads DEF Answered
<1>4. CASE Goto("labelled") /\ Answered
  <2>1. GoesOn
    BY <1>1, <1>4 DEF TypeInv, TypeOK, Goto, GoesOn, Answered, store, CurOK, Acting,
       Closes, Due, Holds, Linked
  <2> QED
    BY <1>1, <1>4, <2>1, ActingFacts, TypeReads DEF Answered
<1> QED
  BY <1>2, <1>3, <1>4 DEF ReconcileLabels

LEMMA LabelledRow ==
  ASSUME TypeInv, RecordLabels
  PROVE  /\ cur.fp \in Findings /\ RowsTyped'
         /\ \A g \in Findings : row'[g].state = row[g].state /\ row'[g].key = row[g].key
         /\ \A g \in Findings \ {cur.fp} : row'[g] = row[g]
<1>1. pc \in Acting /\ cur.fp \in Findings /\ RowsTyped
  BY ActingFacts DEF RecordLabels, At, Acting
<1> DEFINE f == cur.fp
           l == row[f].state # "none"
           p == row[f].pushed
<1>2. row[f] \in Row /\ f \in Findings
  BY <1>1 DEF RowsTyped
<1>3. p \in BOOLEAN /\ l \in BOOLEAN
  BY <1>2 DEF Row
<1>4. row' = [row EXCEPT ![f].labelled = l]
  BY DEF RecordLabels
<1>5. [row[f] EXCEPT !.labelled = l] = [row[f] EXCEPT !.pushed = p, !.labelled = l]
  BY <1>2 DEF Row
<1>6. row' = [row EXCEPT ![f] = [row[f] EXCEPT !.pushed = p, !.labelled = l]]
  BY <1>1, <1>4, <1>5 DEF RowsTyped
<1>7. row' = [row EXCEPT ![f].pushed = p, ![f].labelled = l]
  BY <1>1, <1>6 DEF RowsTyped
<1> HIDE DEF p, l
<1>8. /\ RowsTyped'
      /\ \A g \in Findings : row'[g].state = row[g].state /\ row'[g].key = row[g].key
  BY <1>1, <1>2, <1>3, <1>7, FlagRow
<1> QED
  BY <1>1, <1>4, <1>8 DEF RowsTyped

LEMMA TypeRecordLabels ==
  ASSUME TypeInv, RecordLabels
  PROVE  TypeInv'
<1>1. pc = "labelled" /\ pc \in Acting
  BY DEF RecordLabels, At, Acting
<1>2. newer \subseteq Findings /\ UNCHANGED <<finding, newer, issue>> /\ NextAction
  BY DEF RecordLabels, StoreStep, TypeInv, TypeOK
<1>3. RowsKept
  BY <1>2, LabelledRow DEF RowsKept, Holds, TypeInv, KeysOK
<1> QED
  BY <1>1, <1>2, <1>3, ActingFacts, SameIssues, ActingKeeps
     DEF RecordLabels, StoreStep, TypeInv

LEMMA ClosingFacts ==
  ASSUME TypeInv, pc \in Closes
  PROVE  /\ pc \in Acting /\ Holds(cur.fp, cur.key) /\ cur.key \in Keys
         /\ cur.key # NoKey /\ issue[cur.key].state # "none"
         /\ row[cur.fp].key = cur.key
  BY ActingFacts, KeyFacts DEF TypeInv, CurOK, KeysOK, Holds, Acting

LEMMA TypeCloseComment ==
  ASSUME TypeInv, CloseComment
  PROVE  TypeInv'
<1>1. pc = "comment" /\ pc \in Acting /\ pc \in Closes
  BY DEF CloseComment, CallFails, At, Acting, Closes
<1>2. CASE CallFails("comment")
  BY <1>1, <1>2, TypeCallFails
<1>3. CASE Goto(IF Gone(cur.key) THEN "forget" ELSE "closing") /\ Answered
  <2>1. GoesOn
    BY <1>1, <1>3, ClosingFacts DEF TypeInv, TypeOK, Goto, GoesOn, Answered, store,
       CurOK, Acting, Closes, Due, Holds, Linked, Gone
  <2> QED
    BY <1>1, <1>3, <2>1, ActingFacts, TypeReads DEF Answered
<1> QED
  BY <1>2, <1>3 DEF CloseComment

LEMMA TypeRecordClosing ==
  ASSUME TypeInv, RecordClosing
  PROVE  TypeInv'
<1>1. pc = "closing" /\ pc \in Closes
  BY DEF RecordClosing, At, Closes
<1>2. /\ cur.fp \in Findings /\ row'[cur.fp].key = cur.key
      /\ row'[cur.fp].state = "closing" /\ finding' = finding
  BY <1>1, ClosingFacts, ActingFacts, UpsertRow DEF RecordClosing, States
<1>3. GoesOn
  BY <1>1, <1>2, ClosingFacts DEF TypeInv, TypeOK, RecordClosing, StoreStep, Goto,
     GoesOn, CurOK, Acting, Closes, Due, Holds, Linked
<1> QED
  BY <1>1, <1>3, ClosingFacts, TypeUpserts DEF RecordClosing, StoreStep, States

LEMMA TypeCloseIssue ==
  ASSUME TypeInv, CloseIssue
  PROVE  TypeInv'
<1>1. pc = "close" /\ pc \in Closes /\ pc \in Acting
  BY DEF CloseIssue, CallFails, At, Closes, Acting
<1>2. CASE CallFails("close")
  BY <1>1, <1>2, TypeCallFails
<1>3. CASE Gone(cur.key) /\ Goto("forget") /\ Answered
  <2>1. GoesOn
    BY <1>1, <1>3, ClosingFacts DEF TypeInv, TypeOK, Goto, GoesOn, Answered, store,
       CurOK, Acting, Closes, Due, Holds, Linked, Gone
  <2> QED
    BY <1>1, <1>3, <2>1, ActingFacts, TypeReads DEF Answered
<1>4. CASE /\ ~Gone(cur.key)
           /\ issue' = [issue EXCEPT ![cur.key].state = "closed",
                          ![cur.key].last = IF Open(cur.key) THEN "closed" ELSE @]
           /\ (Goto("closed") /\ Unharmed) \/ ActionFails
           /\ UNCHANGED store
  <2> DEFINE l == IF Open(cur.key) THEN "closed" ELSE issue[cur.key].last
  <2>1. l \in {"closed", issue[cur.key].last}
        /\ issue' = [issue EXCEPT ![cur.key].state = "closed", ![cur.key].last = l]
    BY <1>1, <1>4, ActingFacts, ClosingFacts
  <2> HIDE DEF l
  <2>2. IssuesKept
    BY <1>1, <1>4, <2>1, ClosingFacts, ClosedIssue
  <2>3. CASE ActionFails
    BY <1>1, <1>4, <2>2, <2>3, TypeFails
  <2>4. CASE Goto("closed") /\ Unharmed
    <3>1. GoesOn
      BY <1>1, <1>4, <2>2, <2>4, ClosingFacts DEF TypeInv, TypeOK, Goto, GoesOn, store,
         CurOK, Acting, Closes, Due, Holds, Linked, IssuesKept
    <3> QED
      BY <1>1, <1>4, <2>2, <2>4, <3>1, ActingFacts, SameRows, ActingKeeps
  <2> QED
    BY <1>4, <2>3, <2>4
<1> QED
  BY <1>2, <1>3, <1>4 DEF CloseIssue

LEMMA TypeRecordClosed ==
  ASSUME TypeInv, RecordClosed
  PROVE  TypeInv'
<1>1. pc = "closed" /\ pc \in Closes
  BY DEF RecordClosed, At, Closes
<1> QED
  BY <1>1, ClosingFacts, TypeUpserts DEF RecordClosed, StoreStep, States

LEMMA TypeForgetRow ==
  ASSUME TypeInv, ForgetRow
  PROVE  TypeInv'
  BY TypeDrops DEF ForgetRow, StoreStep, At

-----------------------------------------------------------------------------
(* The run around the actions.                                             *)

(* A step between actions that leaves the rows and the tracker alone.      *)
LEMMA TypeRun ==
  ASSUME TypeInv, UNCHANGED <<store, issue>>, Flags,
         pc' \in Pcs, minted' \in Keys \cup {NoKey}, plan' \subseteq Actions,
         back' \subseteq Findings, PlanOK', CurOK'
  PROVE  TypeInv'
  BY DEF TypeInv, TypeOK, KeysOK, Holds, Actions, store, Flags

LEMMA TypeEnds ==
  ASSUME TypeInv, UNCHANGED <<store, issue>>, Flags, EndRun
  PROVE  TypeInv'
<1>1. PlanOK' /\ CurOK'
  BY DEF EndRun, PlanOK, CurOK, Acting, Closes
<1> QED
  BY <1>1, TypeRun DEF EndRun, Pcs

LEMMA TypeStop ==
  ASSUME TypeInv, Stop
  PROVE  TypeInv'
  BY TypeEnds DEF Stop, Flags

LEMMA TypeStartRun ==
  ASSUME TypeInv, StartRun
  PROVE  TypeInv'
<1>1. pc = "idle" /\ plan' = {} /\ back' = {} /\ pc' \in {"list", "plan"}
      /\ minted' \in Keys \cup {NoKey} /\ Flags
  BY DEF TypeInv, TypeOK, PlanOK, StartRun, At, Goto, Acting, Closes, Flags
<1>2. PlanOK' /\ CurOK'
  BY <1>1 DEF PlanOK, CurOK, Acting, Closes
<1> QED
  BY <1>1, <1>2, TypeRun DEF Pcs, StartRun

LEMMA TypeListClosed ==
  ASSUME TypeInv, ListClosed
  PROVE  TypeInv'
<1>1. pc = "list" /\ plan = {} /\ UNCHANGED <<store, issue>>
  BY DEF TypeInv, PlanOK, ListClosed, At, Acting, Closes
<1>2. CASE Abort
  BY <1>1, <1>2, TypeEnds DEF Abort, Fails, Flags, TypeInv, TypeOK
<1>3. CASE /\ back' = {f \in Findings :
                        Linked(f) /\ issue[row[f].key].state = "closed"}
           /\ pc' = "back"
           /\ UNCHANGED <<plan, cur, minted>> /\ Unharmed
  <2>1. PlanOK'
    BY <1>1, <1>3 DEF PlanOK, Acting, Closes, Linked, store
  <2>2. CurOK'
    BY <1>3 DEF CurOK, Acting, Closes
  <2>3. Flags /\ minted' \in Keys \cup {NoKey} /\ back' \subseteq Findings
    BY <1>3 DEF Unharmed, Flags, TypeInv, TypeOK
  <2> QED
    BY <1>1, <1>3, <2>1, <2>2, <2>3, TypeRun DEF Pcs
<1> QED
  BY <1>2, <1>3 DEF ListClosed

(* Backsync writes rows and findings, but no row lets go of its issue.     *)
LEMMA TypeBacksync ==
  ASSUME TypeInv, NEW f \in Findings, BacksyncDismiss(f) \/ BacksyncRow(f)
  PROVE  TypeInv'
<1>1. /\ pc = "back" /\ f \in back /\ UNCHANGED <<pc, plan, cur, minted, issue>>
      /\ Unharmed /\ Linked(f) /\ plan = {} /\ back' \subseteq back
  BY DEF TypeInv, PlanOK, BacksyncDismiss, BacksyncRow, At, Goto, StoreStep, Acting,
     Closes
<1>2. /\ finding \in [Findings -> [status : Closed \cup {"absent", "open"},
                                   filed : BOOLEAN]]
      /\ newer \subseteq Findings /\ RowsTyped /\ back \subseteq Findings
  BY TypeFacts DEF TypeInv, TypeOK
<1>3. /\ finding' \in [Findings -> [status : Closed \cup {"absent", "open"},
                                    filed : BOOLEAN]]
      /\ newer' \subseteq Findings /\ RowsTyped'
      /\ \A g \in Findings : row'[g].key = row[g].key
      /\ \A g \in back' : row'[g] = row[g]
  <2>1. CASE BacksyncDismiss(f)
    <3>1. finding[f] \in [status : Closed \cup {"absent", "open"}, filed : BOOLEAN]
      BY <1>2
    <3>2. [finding[f] EXCEPT !.status = "dismissed"]
            \in [status : Closed \cup {"absent", "open"}, filed : BOOLEAN]
      BY <3>1 DEF Closed
    <3>3. finding' = [finding EXCEPT ![f] = [finding[f] EXCEPT !.status = "dismissed"]]
      BY <1>2, <2>1 DEF BacksyncDismiss
    <3> QED
      BY <1>2, <2>1, <3>2, <3>3 DEF BacksyncDismiss, RowsTyped
  <2>2. CASE BacksyncRow(f)
    <3>1. row[f].key \in Keys \cup {NoKey} /\ row[f].key # NoKey
      BY <1>1, <1>2 DEF RowsTyped, Row, Linked
    <3>2. /\ RowsTyped' /\ finding' = finding /\ newer' \subseteq Findings
          /\ \A g \in Findings \ {f} : row'[g] = row[g]
          /\ row'[f].key = row[f].key
      BY <1>2, <2>2, <3>1, UpsertRow DEF BacksyncRow, States
    <3>3. back' = back \ {f}
      BY <2>2 DEF BacksyncRow
    <3> QED
      BY <1>2, <3>2, <3>3
  <2> QED
    BY <2>1, <2>2
<1>4. TypeOK'
  BY <1>1, <1>2, <1>3 DEF TypeInv, TypeOK, RowsTyped, Row, Unharmed
<1>5. PlanOK'
  BY <1>1, <1>2, <1>3 DEF TypeInv, PlanOK, Linked, Acting, Closes
<1>6. CurOK'
  BY <1>1 DEF CurOK, Acting, Closes
<1>7. KeysOK'
  BY <1>1, <1>3 DEF TypeInv, KeysOK, Holds
<1> QED
  BY <1>1, <1>4, <1>5, <1>6, <1>7 DEF TypeInv, Pcs

(* The plan.                                                               *)
LEMMA PlannedOK ==
  ASSUME TypeInv
  PROVE  \A a \in Planned : a \in Actions /\ Applies(a) /\ Due(a)
<1>1. RowsTyped
  BY TypeFacts DEF TypeInv
<1>2. ASSUME NEW f \in Findings, finding[f].status = "open", finding[f].filed,
             NEW a \in OpenPlan(f)
      PROVE  a \in Actions /\ Applies(a) /\ Due(a)
  <2>1. row[f].state \in States /\ row[f].key \in Keys \cup {NoKey}
        /\ (row[f].key = NoKey <=> row[f].state \in {"none", "pending"})
    BY <1>1 DEF RowsTyped, Row
  <2>2. CASE row[f].state = "none" /\ Anchors(f) = {}
    <3>1. a = Do("create", f, NoKey)
      BY <1>2, <2>2 DEF OpenPlan
    <3> QED
      BY <1>2, <2>2, <3>1 DEF Do, Actions, Ops, Applies, Due
  <2>3. CASE row[f].state = "none" /\ Anchors(f) # {}
    <3>1. PICK g \in Anchors(f) : a = Do("adopt", f, row[g].key)
      BY <1>2, <2>3 DEF OpenPlan
    <3>2. g \in Findings /\ Linked(g)
      BY DEF Anchors
    <3>3. row[g].key \in Keys /\ Held(row[g].key)
      BY <1>1, <3>2 DEF RowsTyped, Row, Linked, Held, Holds
    <3> QED
      BY <1>2, <2>3, <3>1, <3>3 DEF Do, Actions, Ops, Applies, Due
  <2>4. CASE row[f].state = "pending"
    <3>1. a = Do("recover", f, NoKey)
      BY <1>2, <2>4 DEF OpenPlan
    <3> QED
      BY <1>2, <2>4, <3>1 DEF Do, Actions, Ops, Applies, Due
  <2>5. CASE row[f].state = "closed"
    <3>1. a = Do("reopen", f, row[f].key)
      BY <1>2, <2>5 DEF OpenPlan
    <3> QED
      BY <1>2, <2>1, <2>5, <3>1 DEF Do, Actions, Ops, Applies, Due, Holds
  <2>6. CASE row[f].state \in {"open", "closing"}
    <3>1. PICK op \in {"update", "skip"} : a = Do(op, f, row[f].key)
      BY <1>2, <2>6 DEF OpenPlan
    <3> QED
      BY <1>2, <2>1, <2>6, <3>1 DEF Do, Actions, Ops, Applies, Due, Holds, Linked
  <2> QED
    BY <2>1, <2>2, <2>3, <2>4, <2>5, <2>6 DEF States
<1>3. ASSUME NEW f \in Findings, finding[f].status \in Closed, NEW a \in ClosePlan(f)
      PROVE  a \in Actions /\ Applies(a) /\ Due(a)
  <2>1. row[f].state \in States /\ row[f].key \in Keys \cup {NoKey}
        /\ (row[f].key = NoKey <=> row[f].state \in {"none", "pending"})
    BY <1>1 DEF RowsTyped, Row
  <2>2. CloseOnFixed /\ Linked(f) /\ a = Do("close", f, row[f].key)
    BY <1>3 DEF ClosePlan
  <2> QED
    BY <1>3, <2>1, <2>2 DEF Do, Actions, Ops, Applies, Due, Holds, Linked
<1>4. ASSUME NEW a \in Planned
      PROVE  \/ \E f \in Findings : /\ finding[f].status = "open" /\ finding[f].filed
                                     /\ a \in OpenPlan(f)
             \/ \E f \in Findings : finding[f].status \in Closed /\ a \in ClosePlan(f)
  BY DEF Planned
<1> QED
  BY <1>2, <1>3, <1>4

LEMMA TypePlan ==
  ASSUME TypeInv, Plan
  PROVE  TypeInv'
<1>1. /\ back' = {} /\ pc' = "next" /\ plan' = Planned /\ UNCHANGED <<cur, minted>>
      /\ UNCHANGED <<store, issue>> /\ Flags
  BY DEF Plan, StoreStep, Unharmed, Flags, TypeInv, TypeOK
<1>2. \A a \in plan' : a \in Actions /\ Applies(a)' /\ Due(a)'
  BY <1>1, PlannedOK DEF Applies, Due, store, Holds, Held, Linked, Gone
<1>3. PlanOK'
  BY <1>1, <1>2 DEF PlanOK, Acting, Closes
<1>4. CurOK'
  BY <1>1 DEF CurOK, Acting, Closes
<1> QED
  BY <1>1, <1>2, <1>3, <1>4, TypeRun DEF Pcs, TypeInv, TypeOK

LEMMA TypeTakeAction ==
  ASSUME TypeInv, TakeAction
  PROVE  TypeInv'
<1>1. PICK a \in plan : /\ plan' = {b \in plan : b.fp # a.fp}
                        /\ cur' = a /\ minted' = a.key /\ pc' = FirstStep(a)
  BY DEF TakeAction
<1>2. /\ pc = "next" /\ UNCHANGED <<back, store, issue>> /\ Flags /\ back = {}
  BY DEF TakeAction, At, StoreStep, Unharmed, Flags, TypeInv, TypeOK, PlanOK
<1>3. a \in Actions /\ Applies(a) /\ Due(a) /\ RowsTyped
  BY TypeFacts DEF TypeInv, PlanOK
<1>4. pc' \in Acting
  BY <1>1, <1>3 DEF FirstStep, FirstStepOf, Actions, Ops, Acting, Closes
<1>5. PlanOK'
  <2>1. \A b \in plan : Applies(b)' /\ Due(b)'
    BY <1>2 DEF TypeInv, PlanOK, Applies, Due, store, Holds, Held, Linked, Gone
  <2> QED
    BY <1>1, <1>2, <1>4, <2>1 DEF PlanOK
<1>6. CurOK'
  <2>1. Due(a)' /\ a.fp \in Findings /\ a.op \in Ops
    BY <1>2, <1>3 DEF Due, store, Actions
  <2>2. a.op \in {"adopt", "reopen", "update", "skip", "close"} =>
          a.key \in Keys /\ issue[a.key].state # "none"
    BY <1>3, <2>1 DEF Applies, TypeInv, KeysOK, Held, Holds, Gone
  <2>3. row[a.fp].state \in {"none", "pending"} => row[a.fp].key = NoKey
    BY <1>3, <2>1 DEF RowsTyped
  <2> QED
    BY <1>1, <1>2, <1>3, <2>1, <2>2, <2>3 DEF CurOK, FirstStep, FirstStepOf, Applies,
       Acting, Closes, Ops, Holds, Linked, store
<1>7. plan' \subseteq Actions /\ minted' \in Keys \cup {NoKey} /\ back' \subseteq Findings
  BY <1>1, <1>2, <1>3, TypeFacts DEF TypeInv, Actions
<1>8. pc' \in Pcs
  BY <1>4 DEF Pcs
<1> QED
  BY <1>2, <1>5, <1>6, <1>7, <1>8, TypeRun

LEMMA TypeFinishRun ==
  ASSUME TypeInv, FinishRun
  PROVE  TypeInv'
  BY TypeEnds DEF FinishRun, StoreStep, Unharmed, Flags, TypeInv, TypeOK

LEMMA TypeInit == Init => TypeInv
<1> SUFFICES ASSUME Init
             PROVE  TypeInv
  OBVIOUS
<1>1. NoRow \in Row /\ NoIssue \in Issue
  BY DEF NoRow, Row, States, NoIssue, Issue
<1>2. TypeOK
  BY <1>1 DEF Init, TypeOK, Row, Issue, NoRow, NoIssue
<1>3. PlanOK /\ CurOK /\ pc \in Pcs
  BY DEF Init, PlanOK, CurOK, Acting, Closes, Pcs
<1>4. KeysOK
  BY KeyFacts DEF Init, KeysOK, Holds, NoRow
<1> QED
  BY <1>2, <1>3, <1>4 DEF TypeInv

LEMMA TypeNext == TypeInv /\ [Next]_vars => TypeInv'
<1> SUFFICES ASSUME TypeInv, [Next]_vars
             PROVE  TypeInv'
  OBVIOUS
<1>1. CASE UNCHANGED vars
  <2>1. UNCHANGED <<finding, newer, row, issue, pc, back, plan, cur, minted,
                    disabled, clean>>
    BY <1>1 DEF vars, store, run
  <2> QED
    BY <2>1 DEF TypeInv, TypeOK, PlanOK, CurOK, KeysOK, Applies, Due, Holds, Held,
       Linked, Gone
<1>2. CASE Stop \/ Environment
  BY <1>2, TypeStop, TypeEnvironment
<1>3. CASE StartRun \/ ListClosed \/ Plan \/ TakeAction \/ FinishRun
  BY <1>3, TypeStartRun, TypeListClosed, TypePlan, TypeTakeAction, TypeFinishRun
<1>4. CASE \E f \in Findings : BacksyncDismiss(f) \/ BacksyncRow(f)
  BY <1>4, TypeBacksync
<1>5. CASE Tombstone \/ EnsureLabels \/ CreateIssue \/ Search \/ Adopt \/ Record
  BY <1>5, TypeTombstone, TypeEnsureLabels, TypeCreateIssue, TypeSearch, TypeAdopt,
     TypeRecord
<1>6. CASE \/ PushBody \/ ReopenIssue \/ DropStale \/ CommentRegression
           \/ ReconcileLabels \/ RecordLabels
  BY <1>6, TypePushBody, TypeReopenIssue, TypeDropStale, TypeCommentRegression,
     TypeReconcileLabels, TypeRecordLabels
<1>7. CASE \/ CloseComment \/ RecordClosing \/ CloseIssue \/ RecordClosed
           \/ ForgetRow
  BY <1>7, TypeCloseComment, TypeRecordClosing, TypeCloseIssue, TypeRecordClosed,
     TypeForgetRow
<1> QED
  BY <1>1, <1>2, <1>3, <1>4, <1>5, <1>6, <1>7 DEF Next, Step

LEMMA TypeHolds == Spec => []TypeInv
  BY TypeInit, TypeNext, PTL DEF Spec

(* The rows, the issues and the run have their types, and a row has a key  *)
(* unless it is a tombstone, through every interleaving of runs, crashes,  *)
(* failing calls and people.                                               *)
THEOREM TypeCorrect == Spec => []TypeOK
<1>1. TypeInv => TypeOK
  BY DEF TypeInv
<1> QED
  BY <1>1, TypeHolds, PTL

-----------------------------------------------------------------------------
(* Markers: what a change of one row, or of one issue, has to keep.        *)

Facts ==
  /\ RowsTyped /\ KeysOK /\ issue \in [Keys -> Issue]

LEMMA FactsOf == TypeInv => Facts
  BY TypeFacts DEF TypeInv, Facts

(* Rows keep their keys and states, or flags only change.                  *)
LEMMA MarksSame ==
  ASSUME Marks, UNCHANGED issue,
         \A g \in Findings : row'[g].state = row[g].state /\ row'[g].key = row[g].key
  PROVE  Marks'
<1>1. \A f \in Findings, k \in Keys : Holds(f, k)' <=> Holds(f, k)
  BY DEF Holds
<1>2. \A k \in Keys : Held(k)' <=> Held(k)
  BY <1>1 DEF Held
<1>3. FiledOK' /\ ClosedOK'
  BY DEF Marks, FiledOK, ClosedOK, Shut
<1>4. HeldOK'
  <2> SUFFICES ASSUME NEW k \in Keys, Alive(k)', Held(k)'
               PROVE  Holds(issue[k].marker, k)'
    BY DEF HeldOK
  <2>1. Holds(issue[k].marker, k) /\ issue[k].marker \in Findings
    BY <1>2 DEF Marks, HeldOK, FiledOK, Alive
  <2> QED
    BY <2>1 DEF Holds
<1>5. UnheldOK'
  BY <1>2 DEF Marks, UnheldOK
<1> QED
  BY <1>3, <1>4, <1>5 DEF Marks

LEMMA MarksRow ==
  ASSUME Facts, Marks, UNCHANGED issue, NEW f \in Findings, RowsTyped',
         \A g \in Findings \ {f} : row'[g] = row[g],
         \A k \in Keys : Holds(f, k) => row'[f].key = k \/ Gone(k),
         \A k \in Keys : row'[f].key = k /\ row[f].key # k /\ Alive(k) =>
                           issue[k].marker = f \/ Held(k),
         row'[f].state = "closed" => Shut(row'[f].key)
  PROVE  Marks'
<1>1. FiledOK'
  BY DEF Marks, FiledOK
<1>2. ClosedOK'
  BY DEF Marks, ClosedOK, Shut
<1>3. ASSUME NEW k \in Keys, NEW g \in Findings, Holds(g, k), ~Gone(k)
      PROVE  row'[g].key = k
  BY <1>3 DEF Holds
<1>4. HeldOK'
  <2> SUFFICES ASSUME NEW k \in Keys, Alive(k), Held(k)'
               PROVE  Holds(issue[k].marker, k)'
    BY DEF HeldOK, Alive
  <2>1. issue[k].marker \in Findings /\ ~Gone(k)
    BY DEF Marks, FiledOK, Alive, Gone
  <2>2. CASE Held(k)
    <3>1. Holds(issue[k].marker, k)
      BY <2>2 DEF Marks, HeldOK
    <3> QED
      BY <1>3, <2>1, <3>1 DEF Holds
  <2>3. CASE ~Held(k)
    <3>1. row'[f].key = k /\ row[f].key # k
      BY <2>3 DEF Held, Holds
    <3>2. issue[k].marker = f
      BY <2>3, <3>1
    <3> QED
      BY <3>1, <3>2 DEF Holds
  <2> QED
    BY <2>2, <2>3
<1>5. UnheldOK'
  <2> SUFFICES ASSUME NEW k \in Keys, issue[k].state = "closed", ~Held(k)'
               PROVE  issue[k].last = "human"
    BY DEF UnheldOK
  <2>1. ~Held(k)
    BY <1>3 DEF Held, Holds, Gone
  <2> QED
    BY <2>1 DEF Marks, UnheldOK
<1> QED
  BY <1>1, <1>2, <1>4, <1>5 DEF Marks

LEMMA MarksIssue ==
  ASSUME Facts, Marks, UNCHANGED row, NEW k \in Keys,
         \A j \in Keys \ {k} : issue'[j] = issue[j],
         issue'[k].marker \in Findings, issue'[k].state # "none",
         Alive(k)' => Holds(issue'[k].marker, k) \/ ~Held(k),
         issue'[k].state = "closed" /\ ~Held(k) => issue'[k].last = "human",
         Shut(k) /\ Held(k) => Shut(k)'
  PROVE  Marks'
<1>1. \A j \in Keys : Held(j)' <=> Held(j)
  BY DEF Held, Holds
<1>2. FiledOK'
  BY DEF Marks, FiledOK
<1>3. HeldOK'
  <2> SUFFICES ASSUME NEW j \in Keys, Alive(j)', Held(j)
               PROVE  Holds(issue[j].marker, j)'
    BY <1>1 DEF HeldOK
  <2>1. CASE j = k
    BY <2>1 DEF Holds
  <2>2. CASE j # k
    BY <2>2 DEF Marks, HeldOK, Holds, Alive
  <2> QED
    BY <2>1, <2>2
<1>4. UnheldOK'
  BY <1>1 DEF Marks, UnheldOK
<1>5. ClosedOK'
  <2> SUFFICES ASSUME NEW f \in Findings, row[f].state = "closed"
               PROVE  Shut(row[f].key)'
    BY DEF ClosedOK
  <2> DEFINE j == row[f].key
  <2>1. j \in Keys /\ Shut(j) /\ Held(j)
    BY DEF Facts, RowsTyped, Row, Marks, ClosedOK, Held, Holds
  <2>2. CASE j = k
    BY <2>1, <2>2 DEF Shut
  <2>3. CASE j # k
    BY <2>1, <2>3 DEF Shut
  <2> QED
    BY <2>2, <2>3
<1> QED
  BY <1>2, <1>3, <1>4, <1>5 DEF Marks

-----------------------------------------------------------------------------
(* Every step keeps the markers.                                           *)

Free == pc' \notin {"adopt", "record", "closed"}

LEMMA MarkFree ==
  ASSUME Marks', Free
  PROVE  MarkInv'
  BY DEF MarkInv, MintedOK, ClosingOK, Free

LEMMA MarkSame ==
  ASSUME MarkInv, UNCHANGED <<row, issue>>, Free
  PROVE  MarkInv'
  BY MarksSame, MarkFree DEF MarkInv

LEMMA EndsFree == NextAction \/ EndRun \/ ActionFails \/ Abort => Free
  BY DEF NextAction, EndRun, ActionFails, Abort, Free

LEMMA MarkPeople ==
  ASSUME TypeInv, MarkInv, NEW k \in Keys, HumanClose(k) \/ Vanish(k)
  PROVE  MarkInv'
<1>0. /\ UNCHANGED <<row, pc, cur, minted>> /\ Facts
      /\ issue[k].state \in {"open", "closed"}
  BY FactsOf DEF HumanClose, Vanish, Happens, store, run
<1>1. /\ \A j \in Keys \ {k} : issue'[j] = issue[j]
      /\ issue'[k].marker = issue[k].marker /\ issue'[k].state \in {"closed", "gone"}
      /\ issue'[k].state = "closed" => issue'[k].last = "human"
      /\ issue[k].state = "closed" => issue'[k].state = "gone"
  <2>1. issue \in [Keys -> Issue] /\ issue[k] \in Issue
    BY <1>0 DEF Facts
  <2> QED
    BY <1>0, <2>1 DEF HumanClose, Vanish, Issue
<1>2. Marks'
  <2>1. issue[k].marker \in Findings /\ (Holds(issue[k].marker, k) \/ ~Held(k))
    BY <1>0 DEF MarkInv, Marks, FiledOK, HeldOK, Alive
  <2>2. Shut(k)'
    BY <1>1 DEF Shut
  <2> QED
    BY <1>0, <1>1, <2>1, <2>2, MarksIssue DEF MarkInv
<1>3. \A j \in Keys : /\ issue[j].state # "none" => issue'[j].state # "none"
                      /\ issue'[j].marker = issue[j].marker
                      /\ Gone(j) => Gone(j)' /\ (Held(j) => Held(j)')
                      /\ issue[j].state \in {"closed", "gone"} =>
                           issue'[j].state \in {"closed", "gone"}
  BY <1>0, <1>1 DEF Gone, Held, Holds
<1>4. MintedOK' /\ ClosingOK'
  <2>1. pc \in {"adopt", "record"} => minted \in Keys
    BY DEF TypeInv, CurOK, Acting
  <2>2. pc = "closed" => cur.key \in Keys
    BY ClosingFacts DEF Closes
  <2>3. CASE pc = "record"
    BY <1>0, <1>3, <2>1, <2>3 DEF MarkInv, MintedOK, ClosingOK, Marked
  <2>4. CASE pc = "adopt"
    BY <1>0, <1>3, <2>1, <2>4 DEF MarkInv, MintedOK, ClosingOK, Marked, Gone, Held, Holds
  <2>5. CASE pc \notin {"record", "adopt"}
    BY <1>0, <1>3, <2>2, <2>5 DEF MarkInv, MintedOK, ClosingOK
  <2> QED
    BY <2>3, <2>4, <2>5
<1> QED
  BY <1>2, <1>4 DEF MarkInv

LEMMA MarkScans ==
  ASSUME TypeInv, MarkInv, NEW f \in Findings,
         Find(f) \/ Revise(f) \/ Touch(f) \/ Resolve(f) \/ Regress(f)
  PROVE  MarkInv'
<1>1. pc' = "idle" /\ UNCHANGED issue
  BY DEF Find, Revise, Touch, Resolve, Regress, Rewritten, Happens, run
<1>2. \A g \in Findings : row'[g].state = row[g].state /\ row'[g].key = row[g].key
  BY FactsOf, FlagRow DEF Facts, Find, Revise, Touch, Resolve, Regress
<1> QED
  BY <1>1, <1>2, MarksSame, MarkFree DEF MarkInv, Free

LEMMA MarkRun ==
  ASSUME TypeInv, MarkInv, Stop \/ StartRun \/ ListClosed \/ Plan \/ FinishRun
  PROVE  MarkInv'
<1>1. UNCHANGED <<row, issue>>
  BY DEF Stop, StartRun, ListClosed, Plan, FinishRun, StoreStep, store
<1>2. Free
  BY EndsFree DEF Stop, StartRun, ListClosed, Plan, FinishRun, Goto, Free
<1> QED
  BY <1>1, <1>2, MarkSame

LEMMA MarkTakeAction ==
  ASSUME TypeInv, MarkInv, TakeAction
  PROVE  MarkInv'
<1>1. PICK a \in plan : cur' = a /\ minted' = a.key /\ pc' = FirstStep(a)
  BY DEF TakeAction
<1>2. UNCHANGED <<row, issue>> /\ Marks'
  BY MarksSame DEF TakeAction, StoreStep, store, MarkInv
<1>3. a \in Actions /\ a.op \in Ops /\ Applies(a) /\ Facts
  BY TypeFacts, FactsOf DEF TypeInv, PlanOK, Actions
<1>4. pc' # "closed"
  BY <1>1, <1>3 DEF FirstStep, FirstStepOf, Ops
<1>5. pc' = "adopt" => a.op = "adopt"
  BY <1>1, <1>3 DEF FirstStep, FirstStepOf, Ops
<1>6. pc' = "record" => a.op = "update"
  BY <1>1, <1>3 DEF FirstStep, FirstStepOf, Ops
<1>7. CASE pc' = "adopt"
  BY <1>1, <1>2, <1>3, <1>5, <1>7 DEF Applies, MarkInv, MintedOK, ClosingOK, Gone,
     Held, Holds
<1>8. CASE pc' = "record"
  BY <1>1, <1>2, <1>3, <1>6, <1>8, KeyFacts DEF Applies, MarkInv, MintedOK, ClosingOK,
     Holds
<1> QED
  BY <1>2, <1>4, <1>7, <1>8, MarkFree DEF Free

LEMMA MarkBacksync ==
  ASSUME TypeInv, MarkInv, NEW f \in Findings, BacksyncDismiss(f) \/ BacksyncRow(f)
  PROVE  MarkInv'
<1>1. /\ pc' = "back" /\ UNCHANGED issue /\ f \in back /\ Facts
  BY FactsOf DEF BacksyncDismiss, BacksyncRow, At, Goto, StoreStep
<1>2. CASE BacksyncDismiss(f)
  BY <1>1, <1>2, MarkSame DEF BacksyncDismiss, Free
<1>3. CASE BacksyncRow(f)
  <2>1. Linked(f) /\ issue[row[f].key].state \in {"closed", "gone"}
    BY <1>1 DEF TypeInv, PlanOK
  <2>2. row[f].key \in Keys \cup {NoKey} /\ row[f].key # NoKey
    BY <1>1, <2>1 DEF Facts, RowsTyped, Row, Linked
  <2>3. /\ RowsTyped' /\ \A g \in Findings \ {f} : row'[g] = row[g]
        /\ row'[f].key = row[f].key
    BY <1>1, <1>3, <2>2, UpsertRow DEF BacksyncRow, States, Facts
  <2>4. Marks'
    BY <1>1, <2>1, <2>3, MarksRow DEF MarkInv, Holds, Shut
  <2> QED
    BY <1>1, <2>4, MarkFree DEF Free
<1> QED
  BY <1>2, <1>3

LEMMA MarkCallFails ==
  ASSUME MarkInv, NEW step, CallFails(step)
  PROVE  MarkInv'
  BY EndsFree, MarkSame DEF CallFails, store

(* The steps of an action that only read, or write a flag.                 *)
LEMMA MarkReads ==
  ASSUME TypeInv, MarkInv,
         \/ EnsureLabels \/ Search \/ CommentRegression \/ ReconcileLabels
         \/ RecordLabels \/ CloseComment
  PROVE  MarkInv'
<1>1. CASE \E step \in Acting : CallFails(step)
  BY <1>1, MarkCallFails
<1>2. CASE UNCHANGED <<row, issue>> /\ Free
  BY <1>2, MarkSame
<1>3. CASE RecordLabels
  <2>1. Free /\ UNCHANGED issue
    BY <1>3, EndsFree DEF RecordLabels, StoreStep
  <2> QED
    BY <1>3, <2>1, LabelledRow, MarksSame, MarkFree DEF MarkInv
<1>4. CASE /\ At("search") /\ Answered /\ pc' = "adopt" /\ UNCHANGED cur
           /\ issue[minted'].state \in {"open", "closed"}
           /\ issue[minted'].marker = cur.fp
  <2>1. UNCHANGED <<row, issue>> /\ Marks'
    BY <1>4, MarksSame DEF Answered, store, MarkInv
  <2>2. row[cur.fp].state = "pending"
    BY <1>4 DEF TypeInv, CurOK, At, Acting
  <2> QED
    BY <1>4, <2>1, <2>2 DEF MarkInv, MintedOK, ClosingOK, Marked
<1>5. CASE EnsureLabels
  BY <1>1, <1>2, <1>5 DEF EnsureLabels, Acting, Goto, Answered, Free, store
<1>6. CASE Search
  BY <1>1, <1>2, <1>4, <1>6 DEF Search, Acting, Goto, Answered, Free, store
<1>7. CASE CommentRegression
  BY <1>1, <1>2, <1>7 DEF CommentRegression, Acting, Goto, Answered, Free, store,
     GoneFails, NextAction
<1>8. CASE ReconcileLabels
  BY <1>1, <1>2, <1>8 DEF ReconcileLabels, Acting, Goto, Answered, Free, store,
     GoneFails, NextAction
<1>9. CASE CloseComment
  BY <1>1, <1>2, <1>9 DEF CloseComment, Acting, Closes, Goto, Answered, Free, store
<1> QED
  BY <1>3, <1>5, <1>6, <1>7, <1>8, <1>9

(* The steps that write the action's row.                                  *)
LEMMA MarkUpserts ==
  ASSUME TypeInv, MarkInv, pc \in Acting, UNCHANGED issue, Free,
         NEW s \in States, NEW k \in Keys \cup {NoKey}, NEW p \in BOOLEAN,
         k = NoKey <=> s \in {"none", "pending"},
         Upsert(cur.fp, s, k, p),
         row[cur.fp].key \in {NoKey, k},
         k # NoKey /\ row[cur.fp].key # k =>
           ~Alive(k) \/ issue[k].marker = cur.fp \/ Held(k),
         s = "closed" => Shut(k)
  PROVE  MarkInv'
<1>1. Facts /\ cur.fp \in Findings /\ NoKey \notin Keys
  BY FactsOf, ActingFacts, KeyFacts
<1>2. /\ RowsTyped' /\ \A g \in Findings \ {cur.fp} : row'[g] = row[g]
      /\ row'[cur.fp].key = k /\ row'[cur.fp].state = s
  BY <1>1, UpsertRow DEF Facts
<1> DEFINE f == cur.fp
<1>3. /\ \A j \in Keys : Holds(f, j) => row'[f].key = j \/ Gone(j)
      /\ \A j \in Keys : row'[f].key = j /\ row[f].key # j /\ Alive(j) =>
                           issue[j].marker = f \/ Held(j)
      /\ row'[f].state = "closed" => Shut(row'[f].key)
  BY <1>1, <1>2 DEF Holds
<1>4. f \in Findings /\ \A g \in Findings \ {f} : row'[g] = row[g]
  BY <1>1, <1>2
<1> HIDE DEF f
<1>5. Marks'
  BY <1>1, <1>2, <1>3, <1>4, MarksRow DEF MarkInv
<1> QED
  BY <1>5, MarkFree

LEMMA MarkDrops ==
  ASSUME TypeInv, MarkInv, pc \in {"stale", "forget"}, Delete(cur.fp),
         UNCHANGED issue, Free
  PROVE  MarkInv'
<1>1. /\ Facts /\ cur.fp \in Findings /\ NoKey \notin Keys
      /\ Gone(cur.key) /\ Holds(cur.fp, cur.key)
  BY FactsOf, ActingFacts, KeyFacts DEF Acting, Closes, TypeInv, CurOK
<1> DEFINE f == cur.fp
<1>2. /\ f \in Findings /\ RowsTyped' /\ \A g \in Findings \ {f} : row'[g] = row[g]
      /\ row'[f].key = NoKey /\ row'[f].state = "none"
  BY <1>1, DeleteRow DEF Facts
<1>3. \A j \in Keys : Holds(f, j) => Gone(j)
  BY <1>1 DEF Holds
<1> HIDE DEF f
<1>4. Marks'
  BY <1>1, <1>2, <1>3, MarksRow DEF MarkInv
<1> QED
  BY <1>4, MarkFree

LEMMA MarkWrites ==
  ASSUME TypeInv, MarkInv,
         \/ Tombstone \/ Adopt \/ Record \/ DropStale \/ RecordClosing
         \/ RecordClosed \/ ForgetRow
  PROVE  MarkInv'
<1>1. CASE Tombstone
  <2>1. pc = "tombstone" /\ pc \in Acting
    BY <1>1 DEF Tombstone, At, Acting
  <2>2. row[cur.fp].key = NoKey
    BY <2>1, ActingFacts DEF TypeInv, CurOK, RowsTyped
  <2> QED
    BY <1>1, <2>1, <2>2, MarkUpserts DEF Tombstone, StoreStep, States, Free, Goto
<1>2. CASE Adopt
  <2>1. pc = "adopt" /\ pc \in Acting
    BY <1>2 DEF Adopt, At, Acting
  <2>2. /\ minted \in Keys /\ row[cur.fp].key = NoKey /\ minted # NoKey
        /\ row[cur.fp].state \in {"none", "pending"}
    BY <2>1, KeyFacts, ActingFacts DEF TypeInv, CurOK, RowsTyped
  <2>3. ~Alive(minted) \/ issue[minted].marker = cur.fp \/ Held(minted)
    BY <2>1, <2>2 DEF MarkInv, MintedOK, Marked, Alive, Gone
  <2> QED
    BY <1>2, <2>1, <2>2, <2>3, EndsFree, MarkUpserts DEF Adopt, StoreStep, States
<1>3. CASE Record
  <2>1. pc = "record" /\ pc \in Acting
    BY <1>3 DEF Record, At, Acting
  <2>2. minted \in Keys /\ row[cur.fp].key \in {NoKey, minted} /\ minted # NoKey
    BY <2>1, KeyFacts DEF TypeInv, CurOK
  <2>3. row[cur.fp].key # minted => issue[minted].marker = cur.fp
    BY <2>1, <2>2 DEF MarkInv, MintedOK, Marked
  <2>4. Free
    BY <1>3 DEF Record, Goto, AfterRecord, Free
  <2> QED
    BY <1>3, <2>1, <2>2, <2>3, <2>4, MarkUpserts DEF Record, StoreStep, States
<1>4. CASE DropStale
  BY <1>4, MarkDrops DEF DropStale, StoreStep, At, Goto, Free
<1>5. CASE ForgetRow
  BY <1>5, EndsFree, MarkDrops DEF ForgetRow, StoreStep, At
<1>6. CASE RecordClosing
  BY <1>6, ClosingFacts, MarkUpserts DEF RecordClosing, StoreStep, States, Free, Goto,
     At, Closes
<1>7. CASE RecordClosed
  <2>1. pc = "closed" /\ pc \in Closes /\ Shut(cur.key)
    BY <1>7 DEF RecordClosed, At, Closes, MarkInv, ClosingOK, Shut
  <2> QED
    BY <1>7, <2>1, ClosingFacts, EndsFree, MarkUpserts
       DEF RecordClosed, StoreStep, States
<1> QED
  BY <1>1, <1>2, <1>3, <1>4, <1>5, <1>6, <1>7

(* The steps that change an issue.                                         *)
LEMMA MarkCreateIssue ==
  ASSUME TypeInv, MarkInv, CreateIssue
  PROVE  MarkInv'
<1>1. pc = "post" /\ pc \in Acting
  BY DEF CreateIssue, CallFails, At, Acting
<1>2. CASE CallFails("post")
  BY <1>2, MarkCallFails
<1>3. CASE /\ HasRoom /\ issue' = Filed /\ UNCHANGED store
           /\ \/ ActionFails
              \/ minted' = FreshKey /\ pc' = "record" /\ UNCHANGED cur
  <2> DEFINE k == FreshKey
  <2>1. /\ k \in Keys /\ issue[k].state = "none" /\ issue'[k] = IssueOf(cur.fp, "filed")
        /\ \A j \in Keys \ {k} : issue'[j] = issue[j]
    BY <1>1, <1>3, FiledIssue
  <2> HIDE DEF k
  <2>2. Facts /\ UNCHANGED row /\ cur.fp \in Findings
    BY <1>1, <1>3, FactsOf, ActingFacts DEF store
  <2>3. ~Held(k)
    BY <2>1, <2>2 DEF Facts, KeysOK, Held
  <2>4. issue'[k].state = "open" /\ issue'[k].marker = cur.fp
    BY <2>1 DEF IssueOf
  <2>5. Marks'
    BY <2>1, <2>2, <2>3, <2>4, MarksIssue DEF MarkInv
  <2>6. CASE ActionFails
    BY <2>5, <2>6, EndsFree, MarkFree
  <2>7. CASE minted' = k /\ pc' = "record" /\ UNCHANGED cur
    BY <2>4, <2>5, <2>7 DEF MarkInv, MintedOK, ClosingOK, Marked
  <2> QED
    BY <1>3, <2>6, <2>7 DEF k
<1> QED
  BY <1>2, <1>3 DEF CreateIssue

LEMMA MarkPushBody ==
  ASSUME TypeInv, MarkInv, PushBody
  PROVE  MarkInv'
<1>1. pc = "push" /\ pc \in Acting
  BY DEF PushBody, CallFails, At, Acting
<1>2. CASE CallFails("push")
  BY <1>2, MarkCallFails
<1>3. CASE Goto("stale") /\ Answered
  BY <1>3, MarkSame DEF Goto, Answered, store, Free
<1>4. CASE /\ ~Gone(cur.key)
           /\ issue' = [issue EXCEPT ![cur.key].marker = cur.fp]
           /\ (Goto("record") /\ Unharmed) \/ ActionFails
           /\ UNCHANGED store
  <2>0. cur.key \in Keys
    BY <1>1, ActingFacts DEF TypeInv, CurOK, Holds
  <2> PICK k \in Keys : k = cur.key
    BY <2>0
  <2>1. /\ k \in Keys /\ Holds(cur.fp, k) /\ issue[k].state # "none" /\ minted = k
        /\ k # NoKey
    BY <1>1, KeyFacts, ActingFacts DEF TypeInv, CurOK, KeysOK, Holds
  <2>2. /\ issue'[k].state = issue[k].state /\ issue'[k].last = issue[k].last
        /\ issue'[k].marker = cur.fp /\ \A j \in Keys \ {k} : issue'[j] = issue[j]
    BY <1>1, <1>4, <2>1, PushedIssue
  <2>3. Facts /\ UNCHANGED row /\ cur.fp \in Findings
    BY <1>1, <1>4, FactsOf, ActingFacts DEF store
  <2>4. Marks'
    <3>1. issue'[k].state = "closed" /\ ~Held(k) => issue'[k].last = "human"
      BY <2>1, <2>3 DEF Held
    <3>2. Shut(k) => Shut(k)'
      BY <2>2 DEF Shut
    <3> QED
      BY <2>1, <2>2, <2>3, <3>1, <3>2, MarksIssue DEF MarkInv
  <2>5. CASE ActionFails
    BY <2>4, <2>5, EndsFree, MarkFree
  <2>6. CASE Goto("record")
    BY <2>1, <2>3, <2>4, <2>6 DEF MarkInv, MintedOK, ClosingOK, Goto, Holds
  <2> QED
    BY <1>4, <2>5, <2>6
<1> QED
  BY <1>2, <1>3, <1>4 DEF PushBody

LEMMA MarkReopenIssue ==
  ASSUME TypeInv, MarkInv, ReopenIssue
  PROVE  MarkInv'
<1>1. pc = "reopen" /\ pc \in Acting
  BY DEF ReopenIssue, CallFails, At, Acting
<1>2. CASE CallFails("reopen")
  BY <1>2, MarkCallFails
<1>3. CASE Goto("stale") /\ Answered
  BY <1>3, MarkSame DEF Goto, Answered, store, Free
<1>4. CASE /\ ~Gone(cur.key)
           /\ issue' = [issue EXCEPT ![cur.key] = IssueOf(cur.fp, "reopened")]
           /\ (Goto("record") /\ Unharmed) \/ ActionFails
           /\ UNCHANGED store
  <2>0. cur.key \in Keys
    BY <1>1, ActingFacts DEF TypeInv, CurOK, Holds
  <2> PICK k \in Keys : k = cur.key
    BY <2>0
  <2>1. k \in Keys /\ Holds(cur.fp, k) /\ minted = k /\ k # NoKey
    BY <1>1, KeyFacts, ActingFacts DEF TypeInv, CurOK, Holds
  <2>2. /\ issue'[k] = IssueOf(cur.fp, "reopened")
        /\ \A j \in Keys \ {k} : issue'[j] = issue[j]
    BY <1>1, <1>4, <2>1, ReopenedIssue
  <2>3. Facts /\ UNCHANGED row /\ cur.fp \in Findings
    BY <1>1, <1>4, FactsOf, ActingFacts DEF store
  <2>4. issue'[k].state = "open" /\ issue'[k].marker = cur.fp /\ Shut(k)'
    BY <2>2 DEF IssueOf, Shut
  <2>5. Marks'
    BY <2>1, <2>2, <2>3, <2>4, MarksIssue DEF MarkInv
  <2>6. CASE ActionFails
    BY <2>5, <2>6, EndsFree, MarkFree
  <2>7. CASE Goto("record")
    BY <2>1, <2>3, <2>5, <2>7 DEF MarkInv, MintedOK, ClosingOK, Goto, Holds
  <2> QED
    BY <1>4, <2>6, <2>7
<1> QED
  BY <1>2, <1>3, <1>4 DEF ReopenIssue

LEMMA MarkCloseIssue ==
  ASSUME TypeInv, MarkInv, CloseIssue
  PROVE  MarkInv'
<1>1. pc = "close" /\ pc \in Closes /\ pc \in Acting
  BY DEF CloseIssue, CallFails, At, Closes, Acting
<1>2. CASE CallFails("close")
  BY <1>2, MarkCallFails
<1>3. CASE Goto("forget") /\ Answered
  BY <1>3, MarkSame DEF Goto, Answered, store, Free
<1>4. CASE /\ ~Gone(cur.key)
           /\ issue' = [issue EXCEPT ![cur.key].state = "closed",
                          ![cur.key].last = IF Open(cur.key) THEN "closed" ELSE @]
           /\ (Goto("closed") /\ Unharmed) \/ ActionFails
           /\ UNCHANGED store
  <2> DEFINE k == cur.key
             l == IF Open(k) THEN "closed" ELSE issue[k].last
  <2>1. k \in Keys /\ Holds(cur.fp, k) /\ issue[k].state # "none"
    BY <1>1, ClosingFacts
  <2>2. l \in {"closed", issue[k].last}
        /\ issue' = [issue EXCEPT ![k].state = "closed", ![k].last = l]
    BY <1>1, <1>4, ActingFacts, ClosingFacts
  <2> HIDE DEF l
  <2>3. /\ issue'[k].state = "closed" /\ issue'[k].marker = issue[k].marker
        /\ \A j \in Keys \ {k} : issue'[j] = issue[j]
    BY <1>1, <1>4, <2>1, <2>2, ClosedIssue
  <2>4. Facts /\ UNCHANGED row /\ cur.fp \in Findings
    BY <1>1, <1>4, FactsOf, ActingFacts DEF store
  <2> HIDE DEF k
  <2>5. Marks'
    <3>1. Held(k) /\ Alive(k)
      <4>1. issue[k].state \in {"open", "closed"}
        BY <1>4, <2>1, <2>4 DEF Facts, Issue, Gone, k
      <4> QED
        BY <2>1, <2>4, <4>1 DEF Held, Alive
    <3>2. issue[k].marker \in Findings /\ Holds(issue[k].marker, k)
      BY <2>1, <3>1 DEF MarkInv, Marks, FiledOK, HeldOK
    <3> QED
      BY <2>1, <2>3, <2>4, <3>1, <3>2, MarksIssue DEF MarkInv, Shut
  <2>6. CASE ActionFails
    BY <2>5, <2>6, EndsFree, MarkFree
  <2>7. CASE Goto("closed")
    BY <2>3, <2>5, <2>7 DEF MarkInv, MintedOK, ClosingOK, Goto, k
  <2> QED
    BY <1>4, <2>6, <2>7
<1> QED
  BY <1>2, <1>3, <1>4 DEF CloseIssue

LEMMA MarkInit == Init => MarkInv
<1> SUFFICES ASSUME Init
             PROVE  MarkInv
  OBVIOUS
<1>1. FiledOK /\ HeldOK /\ UnheldOK
  BY DEF Init, FiledOK, HeldOK, UnheldOK, Alive, NoIssue
<1>2. ClosedOK
  BY DEF Init, ClosedOK, NoRow
<1> QED
  BY <1>1, <1>2 DEF Init, MarkInv, Marks, MintedOK, ClosingOK

LEMMA MarkNext == TypeInv /\ MarkInv /\ [Next]_vars => MarkInv'
<1> SUFFICES ASSUME TypeInv, MarkInv, [Next]_vars
             PROVE  MarkInv'
  OBVIOUS
<1>1. CASE UNCHANGED vars
  <2>1. UNCHANGED <<row, issue, pc, cur, minted>>
    BY <1>1 DEF vars, store, run
  <2> QED
    BY <2>1, MarksSame DEF MarkInv, MintedOK, ClosingOK, Marked, Gone, Held, Holds
<1>2. CASE Environment
  BY <1>2, MarkPeople, MarkScans DEF Environment
<1>3. CASE Stop \/ StartRun \/ ListClosed \/ Plan \/ FinishRun
  BY <1>3, MarkRun
<1>4. CASE \E f \in Findings : BacksyncDismiss(f) \/ BacksyncRow(f)
  BY <1>4, MarkBacksync
<1>5. CASE \/ EnsureLabels \/ Search \/ CommentRegression \/ ReconcileLabels
           \/ RecordLabels \/ CloseComment
  BY <1>5, MarkReads
<1>6. CASE \/ Tombstone \/ Adopt \/ Record \/ DropStale \/ RecordClosing
           \/ RecordClosed \/ ForgetRow
  BY <1>6, MarkWrites
<1> QED
  BY <1>1, <1>2, <1>3, <1>4, <1>5, <1>6, MarkTakeAction, MarkCreateIssue, MarkPushBody,
     MarkReopenIssue, MarkCloseIssue DEF Next, Step

LEMMA MarkHolds == Spec => []MarkInv
  BY MarkInit, MarkNext, TypeHolds, PTL DEF Spec

-----------------------------------------------------------------------------
(* One issue per fingerprint.                                              *)

Once == OneEach /\ Traced
Apart == pc' \notin {"ensure", "post", "record"}

LEMMA OnceRow ==
  ASSUME FiledOK, Once, UNCHANGED issue, NEW f \in Findings,
         \A g \in Findings \ {f} : row'[g] = row[g],
         \A k \in Keys : issue[k].state # "none" /\ issue[k].marker = f =>
                           row'[f].key = k \/ row'[f].state = "pending"
  PROVE  Once'
<1>1. OneEach'
  BY DEF Once, OneEach
<1>2. Traced'
  <2> SUFFICES ASSUME NEW k \in Keys, issue[k].state # "none"
               PROVE  Holds(issue[k].marker, k)' \/ row'[issue[k].marker].state = "pending"
    BY DEF Traced
  <2>1. CASE issue[k].marker = f
    BY <2>1 DEF Holds
  <2>2. CASE issue[k].marker # f
    <3>1. row'[issue[k].marker] = row[issue[k].marker]
      BY <2>2 DEF FiledOK
    <3> QED
      BY <3>1 DEF Once, Traced, Holds
  <2> QED
    BY <2>1, <2>2
<1> QED
  BY <1>1, <1>2 DEF Once

LEMMA OnceSame ==
  ASSUME FiledOK, Once, UNCHANGED issue,
         \A g \in Findings : row'[g].state = row[g].state /\ row'[g].key = row[g].key
  PROVE  Once'
<1>1. OneEach'
  BY DEF Once, OneEach
<1>2. Traced'
  <2> SUFFICES ASSUME NEW k \in Keys, issue[k].state # "none"
               PROVE  Holds(issue[k].marker, k)' \/ row'[issue[k].marker].state = "pending"
    BY DEF Traced
  <2>1. issue[k].marker \in Findings
    BY DEF FiledOK
  <2> QED
    BY <2>1 DEF Once, Traced, Holds
<1> QED
  BY <1>1, <1>2 DEF Once

(* An issue keeps its marker, or gets that of a row which knows it or      *)
(* whose tombstone no issue answers yet.                                   *)
LEMMA OnceIssue ==
  ASSUME Facts, FiledOK, Once, UNCHANGED row, NEW k \in Keys,
         \A j \in Keys \ {k} : issue'[j] = issue[j],
         NEW f \in Findings, issue'[k].marker = f,
         \/ issue[k].state # "none" /\ issue[k].marker = f
         \/ Holds(f, k)
         \/ row[f].state = "pending" /\ \A j \in Keys : issue[j].marker # f
  PROVE  Once'
<1>1. \A j \in Keys \ {k} : issue[j].state # "none" => issue[j].marker # f
  <2> SUFFICES ASSUME NEW j \in Keys \ {k}, issue[j].state # "none", issue[j].marker = f
               PROVE  FALSE
    OBVIOUS
  <2>1. CASE issue[k].state # "none" /\ issue[k].marker = f
    BY <2>1 DEF Once, OneEach
  <2>2. CASE Holds(f, k)
    <3>1. row[f].key = k /\ row[f].state # "pending"
      BY <2>2, KeyFacts DEF Facts, RowsTyped, Holds
    <3>2. Holds(f, j) \/ row[f].state = "pending"
      BY DEF Once, Traced
    <3> QED
      BY <3>1, <3>2 DEF Holds
  <2>3. CASE \A i \in Keys : issue[i].marker # f
    BY <2>3
  <2> QED
    BY <2>1, <2>2, <2>3
<1>2. \A j \in Keys \ {k} : issue[j].marker # f
  BY <1>1, PublisherAssumption DEF FiledOK
<1>3. OneEach'
  BY <1>2 DEF Once, OneEach
<1>4. Traced'
  BY DEF Once, Traced, Holds
<1> QED
  BY <1>3, <1>4 DEF Once

(* What is gone stays gone: no issue was gone before either.               *)
LEMMA OnceStart ==
  ASSUME TypeInv, MarkInv, FiledOnce, NoneGone', IssuesKept
  PROVE  NoneGone /\ Once /\ Tombstoned /\ FiledOK /\ Facts
  BY FactsOf DEF NoneGone, IssuesKept, FiledOnce, Once, MarkInv, Marks

LEMMA OnceEnd ==
  ASSUME NoneGone' => (Once' /\ Tombstoned')
  PROVE  FiledOnce'
  BY DEF FiledOnce, Once

LEMMA OnceApart == Apart => Tombstoned'
  BY DEF Apart, Tombstoned

LEMMA OnceQuiet ==
  ASSUME TypeInv, MarkInv, FiledOnce, UNCHANGED issue, Apart,
         \A g \in Findings : row'[g].state = row[g].state /\ row'[g].key = row[g].key
  PROVE  FiledOnce'
<1> SUFFICES ASSUME NoneGone'
             PROVE  Once' /\ Tombstoned'
  BY OnceEnd
<1>1. Once /\ FiledOK
  BY SameIssues, OnceStart DEF TypeInv
<1> QED
  BY <1>1, OnceSame, OnceApart

LEMMA EndsApart == NextAction \/ EndRun \/ ActionFails \/ Abort => Apart
  BY DEF NextAction, EndRun, ActionFails, Abort, Apart

LEMMA OncePeople ==
  ASSUME TypeInv, MarkInv, FiledOnce, NEW k \in Keys, HumanClose(k) \/ Vanish(k)
  PROVE  FiledOnce'
<1>1. CASE Vanish(k)
  <2>1. Gone(k)'
    BY <1>1, FactsOf DEF Vanish, Gone, Facts
  <2> QED
    BY <2>1 DEF FiledOnce, NoneGone
<1>2. CASE HumanClose(k)
  <2> SUFFICES ASSUME NoneGone'
               PROVE  Once' /\ Tombstoned'
    BY OnceEnd
  <2>1. /\ UNCHANGED <<row, pc, cur, minted>> /\ Facts
        /\ issue[k].state = "open" /\ issue[k] \in Issue
    BY <1>2, FactsOf DEF HumanClose, Happens, store, run, Facts
  <2>2. /\ \A j \in Keys \ {k} : issue'[j] = issue[j]
        /\ issue'[k].marker = issue[k].marker
        /\ \A j \in Keys : Gone(j) => Gone(j)'
    BY <1>2, <2>1 DEF HumanClose, Facts, Issue, Gone
  <2>3. Once /\ Tombstoned /\ FiledOK
    BY <2>2 DEF NoneGone, FiledOnce, Once, MarkInv, Marks
  <2>4. issue[k].marker \in Findings
    BY <2>1, <2>3 DEF FiledOK
  <2>5. Once'
    BY <2>1, <2>2, <2>3, <2>4, OnceIssue
  <2>6. \A j \in Keys : issue'[j].marker = issue[j].marker
    BY <2>2
  <2> QED
    BY <2>1, <2>3, <2>5, <2>6 DEF Tombstoned
<1> QED
  BY <1>1, <1>2

LEMMA OnceScans ==
  ASSUME TypeInv, MarkInv, FiledOnce, NEW f \in Findings,
         Find(f) \/ Revise(f) \/ Touch(f) \/ Resolve(f) \/ Regress(f)
  PROVE  FiledOnce'
<1>1. pc' = "idle" /\ UNCHANGED issue
  BY DEF Find, Revise, Touch, Resolve, Regress, Rewritten, Happens, run
<1>2. \A g \in Findings : row'[g].state = row[g].state /\ row'[g].key = row[g].key
  BY FactsOf, FlagRow DEF Facts, Find, Revise, Touch, Resolve, Regress
<1> QED
  BY <1>1, <1>2, OnceQuiet DEF Apart

LEMMA OnceRun ==
  ASSUME TypeInv, MarkInv, FiledOnce,
         Stop \/ StartRun \/ ListClosed \/ Plan \/ FinishRun
  PROVE  FiledOnce'
<1>1. UNCHANGED <<row, issue>>
  BY DEF Stop, StartRun, ListClosed, Plan, FinishRun, StoreStep, store
<1>2. Apart
  BY EndsApart DEF Stop, StartRun, ListClosed, Plan, FinishRun, Goto, Apart
<1> QED
  BY <1>1, <1>2, OnceQuiet

LEMMA OnceTakeAction ==
  ASSUME TypeInv, MarkInv, FiledOnce, TakeAction
  PROVE  FiledOnce'
<1>1. PICK a \in plan : cur' = a /\ minted' = a.key /\ pc' = FirstStep(a)
  BY DEF TakeAction
<1>2. UNCHANGED <<row, issue>>
  BY DEF TakeAction, StoreStep, store
<1>3. a \in Actions /\ a.op \in Ops /\ Applies(a)
  BY TypeFacts DEF TypeInv, PlanOK, Actions
<1>4. pc' \notin {"ensure", "post"} /\ (pc' = "record" => a.op = "update")
  BY <1>1, <1>3 DEF FirstStep, FirstStepOf, Ops
<1>5. Tombstoned'
  BY <1>1, <1>2, <1>3, <1>4 DEF Tombstoned, Applies, Linked
<1> SUFFICES ASSUME NoneGone'
             PROVE  Once'
  BY <1>5, OnceEnd
<1>6. Once /\ FiledOK
  BY <1>2, SameIssues, OnceStart DEF TypeInv
<1> QED
  BY <1>2, <1>6, OnceSame

(* A row that keeps its key, or gets the one its marker is on.             *)
LEMMA OnceWrites ==
  ASSUME TypeInv, MarkInv, FiledOnce, UNCHANGED issue, NEW f \in Findings,
         \A g \in Findings \ {f} : row'[g] = row[g],
         NoneGone /\ Once => \A k \in Keys :
           issue[k].state # "none" /\ issue[k].marker = f =>
             row'[f].key = k \/ row'[f].state = "pending",
         NoneGone /\ Once => Tombstoned'
  PROVE  FiledOnce'
<1> SUFFICES ASSUME NoneGone'
             PROVE  Once' /\ Tombstoned'
  BY OnceEnd
<1>1. NoneGone /\ Once /\ FiledOK
  BY SameIssues, OnceStart DEF TypeInv
<1> QED
  BY <1>1, OnceRow

LEMMA OnceBacksync ==
  ASSUME TypeInv, MarkInv, FiledOnce, NEW f \in Findings,
         BacksyncDismiss(f) \/ BacksyncRow(f)
  PROVE  FiledOnce'
<1>1. /\ pc' = "back" /\ UNCHANGED issue /\ f \in back /\ Facts
  BY FactsOf DEF BacksyncDismiss, BacksyncRow, At, Goto, StoreStep
<1>2. CASE BacksyncDismiss(f)
  BY <1>1, <1>2, OnceQuiet DEF BacksyncDismiss, Apart
<1>3. CASE BacksyncRow(f)
  <2>1. Linked(f)
    BY <1>1 DEF TypeInv, PlanOK
  <2>2. row[f].key \in Keys \cup {NoKey} /\ row[f].key # NoKey
    BY <1>1, <2>1 DEF Facts, RowsTyped, Row, Linked
  <2>3. /\ \A g \in Findings \ {f} : row'[g] = row[g]
        /\ row'[f].key = row[f].key
    BY <1>1, <1>3, <2>2, UpsertRow DEF BacksyncRow, States, Facts
  <2>4. Once => \A k \in Keys : issue[k].state # "none" /\ issue[k].marker = f =>
                                  row'[f].key = k
    BY <2>1, <2>3 DEF Once, Traced, Holds, Linked
  <2> QED
    BY <1>1, <2>3, <2>4, OnceWrites, OnceApart DEF Apart
<1> QED
  BY <1>2, <1>3

LEMMA OnceCallFails ==
  ASSUME TypeInv, MarkInv, FiledOnce, NEW step, CallFails(step)
  PROVE  FiledOnce'
  BY EndsApart, OnceQuiet DEF CallFails, store

LEMMA OnceReads ==
  ASSUME TypeInv, MarkInv, FiledOnce,
         CommentRegression \/ ReconcileLabels \/ RecordLabels \/ CloseComment
  PROVE  FiledOnce'
<1>1. CASE \E step \in Acting : CallFails(step)
  BY <1>1, OnceCallFails
<1>2. CASE UNCHANGED <<row, issue>> /\ Apart
  BY <1>2, OnceQuiet
<1>3. CASE RecordLabels
  <2>1. Apart /\ UNCHANGED issue
    BY <1>3, EndsApart DEF RecordLabels, StoreStep
  <2> QED
    BY <1>3, <2>1, LabelledRow, OnceQuiet
<1>4. CASE CommentRegression
  BY <1>1, <1>2, <1>4 DEF CommentRegression, Acting, Goto, Answered, Apart, store,
     GoneFails, NextAction
<1>5. CASE ReconcileLabels
  BY <1>1, <1>2, <1>5 DEF ReconcileLabels, Acting, Goto, Answered, Apart, store,
     GoneFails, NextAction
<1>6. CASE CloseComment
  BY <1>1, <1>2, <1>6 DEF CloseComment, Acting, Closes, Goto, Answered, Apart, store
<1> QED
  BY <1>3, <1>4, <1>5, <1>6

LEMMA OnceEnsureLabels ==
  ASSUME TypeInv, MarkInv, FiledOnce, EnsureLabels
  PROVE  FiledOnce'
<1>1. CASE CallFails("ensure")
  BY <1>1, OnceCallFails
<1>2. CASE At("ensure") /\ Goto("post") /\ Answered
  <2>1. UNCHANGED <<row, issue, cur>> /\ pc = "ensure" /\ pc' = "post"
    BY <1>2 DEF At, Goto, Answered, store
  <2> SUFFICES ASSUME NoneGone'
               PROVE  Once' /\ Tombstoned'
    BY OnceEnd
  <2>2. Once /\ Tombstoned /\ FiledOK
    BY <2>1, SameIssues, OnceStart DEF TypeInv
  <2>3. Tombstoned'
    BY <2>1, <2>2 DEF Tombstoned
  <2> QED
    BY <2>1, <2>2, <2>3, OnceSame
<1> QED
  BY <1>1, <1>2 DEF EnsureLabels

LEMMA OnceSearch ==
  ASSUME TypeInv, MarkInv, FiledOnce, Search
  PROVE  FiledOnce'
<1>1. pc = "search" /\ pc \in Acting
  BY DEF Search, CallFails, At, Acting
<1>2. CASE CallFails("search")
  BY <1>2, OnceCallFails
<1> DEFINE hits == {k \in Keys : /\ issue[k].state \in {"open", "closed"}
                                 /\ issue[k].marker = cur.fp}
<1>3. CASE Answered /\ pc' = "adopt"
  BY <1>3, OnceQuiet DEF Answered, store, Apart
<1>4. CASE Answered /\ hits = {} /\ Goto("ensure")
  <2>1. UNCHANGED <<row, issue, cur>> /\ pc' = "ensure"
    BY <1>4 DEF Goto, Answered, store
  <2> SUFFICES ASSUME NoneGone'
               PROVE  Once' /\ Tombstoned'
    BY OnceEnd
  <2>2. NoneGone /\ Once /\ FiledOK /\ Facts
    BY <2>1, SameIssues, OnceStart DEF TypeInv
  <2>3. row[cur.fp].state = "pending" /\ cur.fp \in Findings
    BY <1>1, ActingFacts DEF TypeInv, CurOK
  <2>4. \A k \in Keys : issue[k].marker # cur.fp
    <3> SUFFICES ASSUME NEW k \in Keys, issue[k].marker = cur.fp
                 PROVE  FALSE
      OBVIOUS
    <3>1. issue[k].state # "none"
      BY <2>2, <2>3, PublisherAssumption DEF FiledOK
    <3>2. issue[k].state \in {"open", "closed"}
      BY <2>2, <3>1 DEF Facts, Issue, NoneGone, Gone
    <3> QED
      BY <1>4, <3>2
  <2>5. Tombstoned'
    BY <2>1, <2>3, <2>4 DEF Tombstoned
  <2> QED
    BY <2>1, <2>2, <2>5, OnceSame
<1> QED
  BY <1>2, <1>3, <1>4 DEF Search

LEMMA OnceTombstone ==
  ASSUME TypeInv, MarkInv, FiledOnce, Tombstone
  PROVE  FiledOnce'
<1>1. pc = "tombstone" /\ pc \in Acting /\ pc' = "ensure" /\ UNCHANGED <<cur, issue>>
  BY DEF Tombstone, At, Acting, Goto, StoreStep
<1>2. cur.fp \in Findings /\ Facts /\ row[cur.fp].state = "none" /\ row[cur.fp].key = NoKey
  BY <1>1, ActingFacts, FactsOf DEF TypeInv, CurOK, Facts, RowsTyped
<1>3. /\ \A g \in Findings \ {cur.fp} : row'[g] = row[g]
      /\ row'[cur.fp].state = "pending"
  <2> DEFINE f == cur.fp
             s == "pending"
             k == NoKey
             p == FALSE
  <2>1. f \in Findings /\ RowsTyped /\ Upsert(f, s, k, p)
    BY <1>2 DEF Tombstone, Facts
  <2>2. /\ s \in States /\ k \in Keys \cup {NoKey} /\ p \in BOOLEAN
        /\ k = NoKey <=> s \in {"none", "pending"}
    BY DEF States
  <2> HIDE DEF f, s, k, p
  <2>3. /\ \A g \in Findings \ {f} : row'[g] = row[g]
        /\ row'[f].state = s
    BY <2>1, <2>2, UpsertRow
  <2> QED
    BY <2>3 DEF f, s
<1>4. ASSUME NoneGone, Once
      PROVE  \A k \in Keys : issue[k].marker # cur.fp
  <2> SUFFICES ASSUME NEW k \in Keys, issue[k].marker = cur.fp
               PROVE  FALSE
    OBVIOUS
  <2>1. issue[k].state # "none"
    BY <1>2, PublisherAssumption DEF MarkInv, Marks, FiledOK
  <2>2. Holds(cur.fp, k) \/ row[cur.fp].state = "pending"
    BY <1>4, <2>1 DEF Once, Traced
  <2> QED
    BY <1>2, <2>2, KeyFacts DEF Holds
<1>5. NoneGone /\ Once => Tombstoned'
  BY <1>1, <1>3, <1>4 DEF Tombstoned
<1> QED
  BY <1>1, <1>2, <1>3, <1>5, OnceWrites

(* Adopt and Record write the key of the only issue with the marker.       *)
LEMMA OnceKeyed ==
  ASSUME TypeInv, MarkInv, FiledOnce, Adopt \/ Record
  PROVE  FiledOnce'
<1>1. pc \in {"adopt", "record"} /\ pc \in Acting /\ UNCHANGED issue /\ Apart
  BY EndsApart
     DEF Adopt, Record, At, Acting, StoreStep, Goto, AfterRecord, Apart
<1>2. /\ cur.fp \in Findings /\ Facts /\ minted \in Keys /\ minted # NoKey
      /\ row[cur.fp].key \in {NoKey, minted}
  BY <1>1, ActingFacts, FactsOf, KeyFacts DEF TypeInv, CurOK
<1>3. /\ \A g \in Findings \ {cur.fp} : row'[g] = row[g]
      /\ row'[cur.fp].key = minted
  BY <1>2, UpsertRow DEF Facts, Adopt, Record, States
<1>4. ASSUME NoneGone, Once, NEW k \in Keys, issue[k].state # "none",
             issue[k].marker = cur.fp
      PROVE  k = minted
  <2>1. Holds(cur.fp, k) \/ row[cur.fp].state = "pending"
    BY <1>4 DEF Once, Traced
  <2>2. CASE Holds(cur.fp, k)
    BY <1>2, <2>2, KeyFacts DEF Holds
  <2>3. CASE row[cur.fp].state = "pending"
    <3>1. row[cur.fp].key = NoKey
      BY <1>2, <2>3 DEF Facts, RowsTyped
    <3>2. Marked(minted)
      BY <1>1, <2>3, <3>1 DEF MarkInv, MintedOK
    <3> QED
      BY <1>2, <1>4, <3>2 DEF Once, OneEach, Marked
  <2> QED
    BY <2>1, <2>2, <2>3
<1> QED
  BY <1>1, <1>2, <1>3, <1>4, OnceWrites, OnceApart

LEMMA OnceKept ==
  ASSUME TypeInv, MarkInv, FiledOnce, RecordClosing \/ RecordClosed
  PROVE  FiledOnce'
<1>1. pc \in Closes /\ UNCHANGED issue /\ Apart
  BY EndsApart DEF RecordClosing, RecordClosed, At, Closes, StoreStep, Goto, Apart
<1>2. /\ cur.fp \in Findings /\ Facts /\ cur.key \in Keys /\ cur.key # NoKey
      /\ row[cur.fp].key = cur.key
  BY <1>1, ActingFacts, FactsOf, ClosingFacts
<1>3. /\ \A g \in Findings \ {cur.fp} : row'[g] = row[g]
      /\ row'[cur.fp].key = cur.key
  BY <1>2, UpsertRow DEF Facts, RecordClosing, RecordClosed, States
<1>4. row[cur.fp].state # "pending"
  BY <1>2 DEF Facts, RowsTyped
<1>5. Once => \A k \in Keys : issue[k].state # "none" /\ issue[k].marker = cur.fp =>
                                row'[cur.fp].key = k
  BY <1>2, <1>3, <1>4 DEF Once, Traced, Holds
<1> QED
  BY <1>1, <1>2, <1>3, <1>5, OnceWrites, OnceApart

(* A row is dropped when its issue is gone.                                *)
LEMMA OnceDrops ==
  ASSUME TypeInv, DropStale \/ ForgetRow
  PROVE  FiledOnce'
<1>1. pc \in {"stale", "forget"} /\ UNCHANGED issue
  BY DEF DropStale, ForgetRow, At, StoreStep
<1>2. Gone(cur.key) /\ cur.key \in Keys
  BY <1>1 DEF TypeInv, CurOK, Acting, Closes, Holds
<1> QED
  BY <1>1, <1>2 DEF FiledOnce, NoneGone, Gone

(* The tracker files an issue for a fingerprint that has none.             *)
LEMMA OnceCreateIssue ==
  ASSUME TypeInv, MarkInv, FiledOnce, CreateIssue
  PROVE  FiledOnce'
<1>1. pc = "post" /\ pc \in Acting
  BY DEF CreateIssue, CallFails, At, Acting
<1>2. CASE CallFails("post")
  BY <1>2, OnceCallFails
<1>3. CASE /\ HasRoom /\ issue' = Filed /\ UNCHANGED store
           /\ \/ ActionFails
              \/ minted' = FreshKey /\ pc' = "record" /\ UNCHANGED cur
  <2> SUFFICES ASSUME NoneGone'
               PROVE  Once' /\ Tombstoned'
    BY OnceEnd
  <2>1. FreshKey \in Keys
    BY <1>1, <1>3, FiledIssue
  <2> PICK k \in Keys : k = FreshKey
    BY <2>1
  <2>2. /\ issue'[k] = IssueOf(cur.fp, "filed") /\ IssuesKept
        /\ \A j \in Keys \ {k} : issue'[j] = issue[j]
    BY <1>1, <1>3, FiledIssue
  <2>3. UNCHANGED row /\ cur.fp \in Findings /\ issue'[k].marker = cur.fp
    BY <1>1, <1>3, <2>2, ActingFacts DEF store, IssueOf
  <2>4. Once /\ Tombstoned /\ FiledOK /\ Facts
    BY <2>2, OnceStart
  <2>5. row[cur.fp].state = "pending" /\ \A j \in Keys : issue[j].marker # cur.fp
    BY <1>1, <2>4 DEF Tombstoned
  <2>6. Once'
    BY <2>2, <2>3, <2>4, <2>5, OnceIssue
  <2>7. Tombstoned'
    BY <1>3, <2>3, <2>5, EndsApart, OnceApart DEF Tombstoned
  <2> QED
    BY <2>6, <2>7
<1> QED
  BY <1>2, <1>3 DEF CreateIssue

(* The body, the reopening and the closing reach an issue its row knows.   *)
LEMMA OnceReaches ==
  ASSUME TypeInv, MarkInv, FiledOnce, NEW k \in Keys, k = cur.key,
         pc \in Acting, Holds(cur.fp, k), UNCHANGED store, IssuesKept,
         \A j \in Keys \ {k} : issue'[j] = issue[j],
         issue'[k].marker \in {issue[k].marker, cur.fp},
         Apart \/ (pc' = "record" /\ UNCHANGED cur)
  PROVE  FiledOnce'
<1> SUFFICES ASSUME NoneGone'
             PROVE  Once' /\ Tombstoned'
  BY OnceEnd
<1>1. Once /\ Tombstoned /\ FiledOK /\ Facts
  BY OnceStart
<1>2. UNCHANGED row /\ cur.fp \in Findings
  BY ActingFacts DEF store
<1>3. issue[k].state # "none" /\ issue[k].marker \in Findings
  BY <1>1, <1>2 DEF Facts, KeysOK, FiledOK
<1>4. Once'
  <2>1. CASE issue'[k].marker = issue[k].marker
    BY <1>1, <1>2, <1>3, <2>1, OnceIssue
  <2>2. CASE issue'[k].marker = cur.fp
    BY <1>1, <1>2, <2>2, OnceIssue
  <2> QED
    BY <2>1, <2>2
<1>5. row[cur.fp].state # "none"
  BY <1>1, <1>2, KeyFacts DEF Facts, RowsTyped, Holds
<1>6. Tombstoned'
  BY <1>2, <1>5, OnceApart DEF Tombstoned
<1> QED
  BY <1>4, <1>6

LEMMA OnceCalls ==
  ASSUME TypeInv, MarkInv, FiledOnce, PushBody \/ ReopenIssue \/ CloseIssue
  PROVE  FiledOnce'
<1>1. pc \in {"push", "reopen", "close"} /\ pc \in Acting
  BY DEF PushBody, ReopenIssue, CloseIssue, CallFails, At, Acting, Closes
<1>2. Holds(cur.fp, cur.key) /\ cur.key \in Keys /\ issue[cur.key].state # "none"
  BY <1>1, ActingFacts DEF TypeInv, CurOK, KeysOK, Holds, Closes
<1>3. PICK k \in Keys : k = cur.key
  BY <1>2
<1>4. CASE \E step \in Acting : CallFails(step)
  BY <1>4, OnceCallFails
<1>5. CASE Answered /\ (Goto("stale") \/ Goto("forget"))
  BY <1>5, OnceQuiet DEF Answered, Goto, store, Apart
<1>6. CASE /\ issue' = [issue EXCEPT ![cur.key].marker = cur.fp]
           /\ Goto("record") \/ ActionFails
           /\ UNCHANGED store
  <2>1. /\ IssuesKept /\ issue'[k].marker = cur.fp
        /\ \A j \in Keys \ {k} : issue'[j] = issue[j]
    BY <1>1, <1>2, <1>3, <1>6, PushedIssue
  <2>2. Apart \/ (pc' = "record" /\ UNCHANGED cur)
    BY <1>6, EndsApart DEF Goto
  <2> QED
    BY <1>1, <1>2, <1>3, <1>6, <2>1, <2>2, OnceReaches
<1>7. CASE /\ ~Gone(cur.key)
           /\ issue' = [issue EXCEPT ![cur.key] = IssueOf(cur.fp, "reopened")]
           /\ Goto("record") \/ ActionFails
           /\ UNCHANGED store
  <2>1. /\ IssuesKept /\ issue'[k].marker = cur.fp
        /\ \A j \in Keys \ {k} : issue'[j] = issue[j]
    BY <1>1, <1>2, <1>3, <1>7, ReopenedIssue DEF IssueOf
  <2>2. Apart \/ (pc' = "record" /\ UNCHANGED cur)
    BY <1>7, EndsApart DEF Goto
  <2> QED
    BY <1>1, <1>2, <1>3, <1>7, <2>1, <2>2, OnceReaches
<1>8. CASE /\ ~Gone(cur.key)
           /\ issue' = [issue EXCEPT ![cur.key].state = "closed",
                          ![cur.key].last = IF Open(cur.key) THEN "closed" ELSE @]
           /\ Goto("closed") \/ ActionFails
           /\ UNCHANGED store
  <2> DEFINE l == IF Open(cur.key) THEN "closed" ELSE issue[cur.key].last
  <2>1. l \in {"closed", issue[cur.key].last}
        /\ issue' = [issue EXCEPT ![cur.key].state = "closed", ![cur.key].last = l]
    BY <1>1, <1>2, <1>8, ActingFacts
  <2> HIDE DEF l
  <2>2. /\ IssuesKept /\ issue'[k].marker = issue[k].marker
        /\ \A j \in Keys \ {k} : issue'[j] = issue[j]
    BY <1>1, <1>2, <1>3, <1>8, <2>1, ClosedIssue
  <2>3. Apart
    BY <1>8, EndsApart DEF Goto, Apart
  <2> QED
    BY <1>1, <1>2, <1>3, <1>8, <2>2, <2>3, OnceReaches
<1>9. CASE PushBody
  BY <1>4, <1>5, <1>6, <1>9 DEF PushBody, Acting
<1>10. CASE ReopenIssue
  BY <1>4, <1>5, <1>7, <1>10 DEF ReopenIssue, Acting
<1>11. CASE CloseIssue
  BY <1>4, <1>5, <1>8, <1>11 DEF CloseIssue, Acting, Closes
<1> QED
  BY <1>9, <1>10, <1>11

LEMMA OnceInit == Init => FiledOnce
  BY DEF Init, FiledOnce, OneEach, Traced, Tombstoned, NoIssue

LEMMA OnceNext == TypeInv /\ MarkInv /\ FiledOnce /\ [Next]_vars => FiledOnce'
<1> SUFFICES ASSUME TypeInv, MarkInv, FiledOnce, [Next]_vars
             PROVE  FiledOnce'
  OBVIOUS
<1>1. CASE UNCHANGED vars
  <2>1. UNCHANGED <<row, issue, pc, cur>>
    BY <1>1 DEF vars, store, run
  <2> QED
    BY <2>1 DEF FiledOnce, NoneGone, Gone, OneEach, Traced, Tombstoned, Holds
<1>2. CASE Environment
  BY <1>2, OncePeople, OnceScans DEF Environment
<1>3. CASE Stop \/ StartRun \/ ListClosed \/ Plan \/ FinishRun
  BY <1>3, OnceRun
<1>4. CASE \E f \in Findings : BacksyncDismiss(f) \/ BacksyncRow(f)
  BY <1>4, OnceBacksync
<1>5. CASE CommentRegression \/ ReconcileLabels \/ RecordLabels \/ CloseComment
  BY <1>5, OnceReads
<1>6. CASE Adopt \/ Record \/ RecordClosing \/ RecordClosed
  BY <1>6, OnceKeyed, OnceKept
<1>7. CASE DropStale \/ ForgetRow
  BY <1>7, OnceDrops
<1>8. CASE PushBody \/ ReopenIssue \/ CloseIssue
  BY <1>8, OnceCalls
<1> QED
  BY <1>1, <1>2, <1>3, <1>4, <1>5, <1>6, <1>7, <1>8, OnceTakeAction, OnceEnsureLabels,
     OnceSearch, OnceTombstone, OnceCreateIssue DEF Next, Step

LEMMA OnceHolds == Spec => []FiledOnce
  BY OnceInit, OnceNext, TypeHolds, MarkHolds, PTL DEF Spec

(* The tracker holds one issue per fingerprint as long as nobody deletes   *)
(* one: the tombstone stands before the create is called, and a pending row*)
(* is only ever created after the search found no issue with its marker,   *)
(* whatever calls were carried out and not answered and wherever runs      *)
(* ended (publish.go:76).                                                  *)
THEOREM NeverFiledTwice == Spec => []NoDuplicateIssue
<1>1. FiledOnce => NoDuplicateIssue
  BY DEF FiledOnce, NoneGone, OneEach, NoDuplicateIssue
<1> QED
  BY <1>1, OnceHolds, PTL

-----------------------------------------------------------------------------
(* What a clean run leaves behind.                                         *)

LEMMA KeyOKRow ==
  ASSUME UNCHANGED issue, NEW f \in Findings,
         \A g \in Findings \ {f} : row'[g] = row[g],
         \A k \in Keys : Holds(f, k) => row'[f].key = k \/ Gone(k),
         NEW g \in Findings, NEW k \in Keys, KeyOK(g, k)
  PROVE  KeyOK(g, k)'
<1>1. CASE \E h \in Findings \ {g} : Holds(h, k)
  <2>1. PICK h \in Findings \ {g} : Holds(h, k)
    BY <1>1
  <2>2. Holds(h, k)' \/ Gone(k)
    BY <2>1 DEF Holds
  <2> QED
    BY <2>2 DEF KeyOK, Gone
<1>2. CASE ~\E h \in Findings \ {g} : Holds(h, k)
  BY <1>2 DEF KeyOK
<1> QED
  BY <1>1, <1>2

(* An issue that opens or shuts while a row of another finding knows it.   *)
LEMMA KeyOKIssue ==
  ASSUME UNCHANGED row, NEW j \in Keys,
         \A i \in Keys \ {j} : issue'[i] = issue[i],
         NEW g \in Findings, NEW k \in Keys, KeyOK(g, k),
         k = j => \/ issue'[j].state = "open"
                  \/ issue'[j].state = issue[j].state /\ issue'[j].last = issue[j].last
                  \/ \E h \in Findings \ {g} : Holds(h, j)
  PROVE  KeyOK(g, k)'
<1>1. \A h \in Findings : Holds(h, k)' <=> Holds(h, k)
  BY DEF Holds
<1>2. CASE k = j
  BY <1>1, <1>2 DEF KeyOK
<1>3. CASE k # j
  BY <1>1, <1>3 DEF KeyOK
<1> QED
  BY <1>2, <1>3

(* The frame of a step of an action, f being its finding: the other rows   *)
(* and their issues are as good as they were.                              *)
LEMMA CleanActing ==
  ASSUME TypeInv, IssuesOK, RowsDone, pc \in Acting, NEW f \in Findings, f = cur.fp,
         UNCHANGED <<finding, back, plan>>,
         \A g \in Findings \ {f} : row'[g] = row[g],
         \A g \in Findings \ {f}, k \in Keys : KeyOK(g, k) => KeyOK(g, k)',
         pc' \in Acting \cup {"next"}, pc' \in Acting => UNCHANGED cur,
         Linked(f)' => pc' = "closed" \/ KeyOK(f, row[f].key)',
         pc' \in {"adopt", "record"} => KeyOK(f, minted)',
         pc' = "next" => RowDone(f)'
  PROVE  IssuesOK' /\ RowsDone'
<1>1. Facts /\ back = {} /\ pc # "list" /\ pc \in Acting \cup {"idle", "next"}
  BY FactsOf DEF TypeInv, PlanOK, Acting, Closes
<1>2. ASSUME NEW g \in Findings, Linked(g)'
      PROVE  (pc' = "closed" /\ cur'.fp = g) \/ KeyOK(g, row[g].key)'
  <2>1. CASE g = f
    BY <1>2, <2>1 DEF Acting, Closes
  <2>2. CASE g # f
    <3>1. row'[g] = row[g] /\ Linked(g)
      BY <1>2, <2>2 DEF Linked
    <3>2. KeyOK(g, row[g].key) /\ row[g].key \in Keys
      BY <1>1, <2>2, <3>1 DEF IssuesOK, Linked, Facts, RowsTyped, Row
    <3> QED
      BY <2>2, <3>1, <3>2
  <2> QED
    BY <2>1, <2>2
<1>3. IssuesOK'
  BY <1>2 DEF IssuesOK, Acting, Closes
<1>4. ASSUME NEW g \in Findings
      PROVE  RowDone(g)' \/ (\E a \in plan : a.fp = g) \/ (pc' \in Acting /\ cur'.fp = g)
  <2>1. CASE g = f
    BY <2>1
  <2>2. CASE g # f
    <3>1. row'[g] = row[g] /\ finding' = finding
      BY <2>2
    <3>2. RowDone(g) \/ (\E a \in plan : a.fp = g)
      BY <1>1, <2>2 DEF RowsDone
    <3> QED
      BY <3>1, <3>2 DEF RowDone, Linked
  <2> QED
    BY <2>1, <2>2
<1>5. RowsDone'
  BY <1>4 DEF RowsDone
<1> QED
  BY <1>3, <1>5

LEMMA CleanOr == (clean' => IssuesOK' /\ RowsDone') => CleanInv'
  BY DEF CleanInv

(* Whatever fails or happens, the run is no clean one any more.            *)
LEMMA Harmed ==
  ASSUME \/ Happens \/ Fails \/ Abort \/ ActionFails \/ GoneFails \/ Stop
         \/ \E step \in Acting : CallFails(step)
  PROVE  CleanInv'
<1>1. clean' = FALSE
  BY DEF Happens, Fails, Abort, ActionFails, GoneFails, Stop, CallFails
<1> QED
  BY <1>1 DEF CleanInv

Moves == pc' \in Acting \cup {"next"} /\ (pc' \in Acting => UNCHANGED cur)

LEMMA RunMoves ==
  /\ NextAction => Moves /\ pc' = "next" /\ UNCHANGED <<back, plan>>
  /\ \A step \in Acting :
       Goto(step) => Moves /\ pc' = step /\ UNCHANGED <<back, plan, minted>>
  BY DEF NextAction, Goto, Moves, Acting, Closes

(* A step that writes nothing.                                             *)
LEMMA CleanReads ==
  ASSUME TypeInv, IssuesOK, RowsDone, pc \in Acting, pc # "closed", Moves,
         UNCHANGED <<finding, row, issue, back, plan>>,
         pc' \in {"adopt", "record"} => KeyOK(cur.fp, minted'),
         pc' = "next" => RowDone(cur.fp)
  PROVE  IssuesOK' /\ RowsDone'
<1>1. cur.fp \in Findings /\ Facts /\ back = {} /\ pc # "list"
  BY ActingFacts, FactsOf DEF TypeInv, PlanOK, Acting, Closes
<1> PICK f \in Findings : f = cur.fp
  BY <1>1
<1>2. \A g \in Findings, k \in Keys : KeyOK(g, k) => KeyOK(g, k)'
  BY DEF KeyOK, Holds
<1>3. Linked(f)' => KeyOK(f, row[f].key)'
  <2>1. Linked(f) => row[f].key \in Keys /\ KeyOK(f, row[f].key)
    BY <1>1 DEF IssuesOK, Linked, Facts, RowsTyped, Row
  <2> QED
    BY <1>2, <2>1 DEF Linked
<1>4. pc' \in {"adopt", "record"} => KeyOK(f, minted)'
  BY DEF KeyOK, Holds
<1>5. pc' = "next" => RowDone(f)'
  BY DEF RowDone, Linked
<1> QED
  BY <1>2, <1>3, <1>4, <1>5, CleanActing DEF Moves

(* A step that writes the action's row.                                    *)
LEMMA CleanUpserts ==
  ASSUME TypeInv, IssuesOK, RowsDone, pc \in Acting, Moves,
         UNCHANGED <<issue, back, plan>>, pc' \notin {"adopt", "record"},
         NEW s \in States, NEW k \in Keys \cup {NoKey}, NEW p \in BOOLEAN,
         k = NoKey <=> s \in {"none", "pending"},
         Upsert(cur.fp, s, k, p),
         row[cur.fp].key \in {NoKey, k},
         s \in {"open", "closing"} => KeyOK(cur.fp, k),
         pc' = "next" => s = IF cur.op = "close" THEN "closed" ELSE "open"
  PROVE  IssuesOK' /\ RowsDone'
<1>1. cur.fp \in Findings /\ Facts /\ NoKey \notin Keys /\ Due(cur)
  BY ActingFacts, FactsOf, KeyFacts DEF TypeInv, CurOK
<1> PICK f \in Findings : f = cur.fp
  BY <1>1
<1>2. /\ \A g \in Findings \ {f} : row'[g] = row[g]
      /\ row'[f].key = k /\ row'[f].state = s /\ finding' = finding
  BY <1>1, UpsertRow DEF Facts
<1>3. \A g \in Findings, j \in Keys : KeyOK(g, j) => KeyOK(g, j)'
  <2>1. \A j \in Keys : Holds(f, j) => row'[f].key = j
    BY <1>1, <1>2 DEF Holds
  <2> QED
    BY <1>2, <2>1, KeyOKRow
<1>4. Linked(f)' => KeyOK(f, row[f].key)'
  <2>1. Linked(f)' => s \in {"open", "closing"} /\ k \in Keys
    BY <1>2 DEF Linked
  <2>2. k \in Keys /\ KeyOK(f, k) => KeyOK(f, k)'
    BY <1>3
  <2>3. KeyOK(f, k)' => KeyOK(f, row[f].key)'
    BY <1>2
  <2> QED
    BY <2>1, <2>2, <2>3
<1>5. pc' = "next" => RowDone(f)'
  BY <1>1, <1>2 DEF RowDone, Linked, Due, Closed
<1> QED
  BY <1>2, <1>3, <1>4, <1>5, CleanActing DEF Moves

LEMMA CleanDrops ==
  ASSUME TypeInv, IssuesOK, RowsDone, pc \in {"stale", "forget"}, Moves,
         UNCHANGED <<issue, back, plan>>, pc' \notin {"adopt", "record"},
         Delete(cur.fp), pc' = "next" => pc = "forget"
  PROVE  IssuesOK' /\ RowsDone'
<1>1. /\ pc \in Acting /\ cur.fp \in Findings /\ Facts /\ NoKey \notin Keys
      /\ Due(cur) /\ Gone(cur.key) /\ Holds(cur.fp, cur.key)
      /\ pc = "forget" => cur.op = "close"
  BY ActingFacts, FactsOf, KeyFacts DEF TypeInv, CurOK, Acting, Closes
<1> PICK f \in Findings : f = cur.fp
  BY <1>1
<1>2. /\ \A g \in Findings \ {f} : row'[g] = row[g]
      /\ row'[f].key = NoKey /\ row'[f].state = "none" /\ finding' = finding
  BY <1>1, DeleteRow DEF Facts
<1>3. \A g \in Findings, j \in Keys : KeyOK(g, j) => KeyOK(g, j)'
  <2>1. \A j \in Keys : Holds(f, j) => Gone(j)
    BY <1>1 DEF Holds
  <2> QED
    BY <1>2, <2>1, KeyOKRow
<1>4. ~Linked(f)'
  BY <1>2 DEF Linked
<1>5. pc' = "next" => RowDone(f)'
  BY <1>1, <1>2 DEF RowDone, Linked, Due, Closed
<1> QED
  BY <1>1, <1>2, <1>3, <1>4, <1>5, CleanActing DEF Moves

(* A call that changes an issue.                                           *)
LEMMA CleanCalls ==
  ASSUME TypeInv, IssuesOK, RowsDone, pc \in Acting, pc # "closed", Moves,
         UNCHANGED <<finding, row, back, plan>>, NEW j \in Keys,
         \A i \in Keys \ {j} : issue'[i] = issue[i],
         \/ issue'[j].state = "open"
         \/ issue'[j].state = issue[j].state /\ issue'[j].last = issue[j].last
         \/ Holds(cur.fp, j) /\ pc' = "closed",
         pc' = "record" => minted' = j /\ (Linked(cur.fp) \/ issue'[j].state = "open"),
         pc' = "record" /\ Linked(cur.fp) => Holds(cur.fp, j),
         pc' \notin {"adopt", "next"}
  PROVE  IssuesOK' /\ RowsDone'
<1>1. cur.fp \in Findings /\ Facts /\ back = {} /\ pc # "list"
  BY ActingFacts, FactsOf DEF TypeInv, PlanOK, Acting, Closes
<1> PICK f \in Findings : f = cur.fp
  BY <1>1
<1>2. \A g \in Findings \ {f}, k \in Keys : KeyOK(g, k) => KeyOK(g, k)'
  BY KeyOKIssue
<1>3. pc' # "closed" => \A k \in Keys : KeyOK(f, k) => KeyOK(f, k)'
  BY KeyOKIssue
<1>4. Linked(f) => row[f].key \in Keys /\ KeyOK(f, row[f].key)
  BY <1>1 DEF IssuesOK, Linked, Facts, RowsTyped, Row
<1>5. Linked(f)' => pc' = "closed" \/ KeyOK(f, row[f].key)'
  BY <1>3, <1>4 DEF Linked
<1>6. pc' = "record" => KeyOK(f, minted)'
  <2> SUFFICES ASSUME pc' = "record"
               PROVE  KeyOK(f, j)'
    OBVIOUS
  <2>1. CASE issue'[j].state = "open"
    BY <2>1 DEF KeyOK
  <2>2. CASE Linked(f)
    BY <1>3, <1>4, <2>2 DEF Holds
  <2> QED
    BY <2>1, <2>2
<1> QED
  BY <1>2, <1>5, <1>6, CleanActing DEF Moves

LEMMA CleanWas ==
  ASSUME CleanInv, Unharmed, clean'
  PROVE  IssuesOK /\ RowsDone
  BY DEF CleanInv, Unharmed

LEMMA CleanReading ==
  ASSUME TypeInv, MarkInv, CleanInv,
         \/ EnsureLabels \/ Search \/ CommentRegression \/ ReconcileLabels
         \/ CloseComment
  PROVE  CleanInv'
<1>1. CASE GoneFails \/ \E step \in Acting : CallFails(step)
  BY <1>1, Harmed
<1>2. CASE /\ Answered /\ pc \in {"ensure", "regressed", "labels", "comment"}
           /\ \E step \in Acting \ {"adopt", "record"} : Goto(step)
  <2>1. UNCHANGED <<finding, row, issue, back, plan>> /\ Moves /\ Unharmed
        /\ pc' \notin {"adopt", "record", "next"} /\ pc \in Acting /\ pc # "closed"
    BY <1>2, RunMoves DEF Answered, store, Acting, Closes, Goto
  <2> QED
    BY <2>1, CleanWas, CleanReads, CleanOr
<1>3. CASE pc = "labels" /\ NextAction /\ Answered
  <2>1. /\ UNCHANGED <<finding, row, issue, back, plan>> /\ Moves /\ Unharmed
        /\ pc' = "next" /\ pc \in Acting
    BY <1>3, RunMoves DEF Answered, store, Acting
  <2>2. RowDone(cur.fp)
    BY <1>3, <2>1 DEF TypeInv, CurOK, Due, RowDone, Closes, Closed
  <2> QED
    BY <1>3, <2>1, <2>2, CleanWas, CleanReads, CleanOr
<1>4. CASE Search
  <2>1. pc = "search" /\ pc \in Acting
    BY <1>4 DEF Search, CallFails, At, Acting
  <2>2. CASE CallFails("search")
    BY <1>1, <2>1, <2>2
  <2>3. CASE Answered /\ Goto("ensure")
    <3>1. UNCHANGED <<finding, row, issue, back, plan>> /\ Moves /\ Unharmed
          /\ pc' = "ensure"
      BY <2>3, RunMoves DEF Answered, store, Acting
    <3> QED
      BY <2>1, <3>1, CleanWas, CleanReads, CleanOr
  <2>4. CASE /\ Answered /\ minted' \in Keys /\ pc' = "adopt"
             /\ issue[minted'].state \in {"open", "closed"}
             /\ issue[minted'].marker = cur.fp
             /\ UNCHANGED <<back, plan, cur>>
    <3>1. /\ UNCHANGED <<finding, row, issue, back, plan>> /\ Moves /\ Unharmed
          /\ pc' \in Acting
      BY <2>4 DEF Answered, store, Moves, Acting
    <3>2. row[cur.fp].state = "pending" /\ cur.fp \in Findings /\ Facts
      BY <2>1, ActingFacts, FactsOf DEF TypeInv, CurOK
    <3>3. ~Holds(cur.fp, minted')
      BY <2>4, <3>2, KeyFacts DEF Facts, RowsTyped, Holds
    <3>4. issue[minted'].state = "closed" => issue[minted'].last = "human"
      BY <2>4, <3>3 DEF MarkInv, Marks, HeldOK, UnheldOK, Alive
    <3>5. KeyOK(cur.fp, minted')
      BY <2>4, <3>4 DEF KeyOK
    <3> QED
      BY <2>1, <2>4, <3>1, <3>5, CleanWas, CleanReads, CleanOr
  <2> QED
    BY <1>4, <2>2, <2>3, <2>4 DEF Search
<1>5. CASE EnsureLabels
  BY <1>1, <1>2, <1>5 DEF EnsureLabels, At, Acting
<1>6. CASE CommentRegression
  BY <1>1, <1>2, <1>6 DEF CommentRegression, At, Acting
<1>7. CASE ReconcileLabels
  BY <1>1, <1>2, <1>3, <1>7 DEF ReconcileLabels, At, Acting
<1>8. CASE CloseComment
  BY <1>1, <1>2, <1>8 DEF CloseComment, At, Acting, Closes
<1> QED
  BY <1>4, <1>5, <1>6, <1>7, <1>8

LEMMA CleanRecordLabels ==
  ASSUME TypeInv, CleanInv, RecordLabels
  PROVE  CleanInv'
<1> SUFFICES ASSUME clean'
             PROVE  IssuesOK' /\ RowsDone'
  BY CleanOr
<1>1. /\ pc = "labelled" /\ pc \in Acting /\ pc' = "next" /\ Moves
      /\ UNCHANGED <<finding, issue, back, plan>> /\ Unharmed
  BY RunMoves DEF RecordLabels, At, Acting, StoreStep
<1>2. IssuesOK /\ RowsDone
  BY <1>1, CleanWas
<1>3. /\ cur.fp \in Findings /\ Facts /\ back = {} /\ pc # "list"
      /\ \A g \in Findings : row'[g].state = row[g].state /\ row'[g].key = row[g].key
      /\ \A g \in Findings \ {cur.fp} : row'[g] = row[g]
  BY <1>1, LabelledRow, FactsOf DEF TypeInv, PlanOK
<1> PICK f \in Findings : f = cur.fp
  BY <1>3
<1>4. \A g \in Findings, k \in Keys : KeyOK(g, k) => KeyOK(g, k)'
  BY <1>1, <1>3 DEF KeyOK, Holds
<1>5. Linked(f) /\ row[f].key \in Keys /\ KeyOK(f, row[f].key)
  BY <1>1, <1>2, <1>3 DEF TypeInv, CurOK, IssuesOK, Linked, Facts, RowsTyped, Row
<1>6. KeyOK(f, row[f].key)'
  BY <1>3, <1>4, <1>5
<1>7. RowDone(f)'
  BY <1>1, <1>3, <1>5 DEF TypeInv, CurOK, Due, RowDone, Linked, Closes, Closed
<1> QED
  BY <1>1, <1>2, <1>3, <1>4, <1>6, <1>7, CleanActing DEF Moves

LEMMA CleanWrites ==
  ASSUME TypeInv, CleanInv,
         \/ Tombstone \/ Adopt \/ Record \/ DropStale \/ RecordClosing
         \/ RecordClosed \/ ForgetRow
  PROVE  CleanInv'
<1> SUFFICES ASSUME clean'
             PROVE  IssuesOK' /\ RowsDone'
  BY CleanOr
<1>0. UNCHANGED issue /\ Unharmed /\ IssuesOK /\ RowsDone
  BY CleanWas DEF Tombstone, Adopt, Record, DropStale, RecordClosing, RecordClosed,
     ForgetRow, StoreStep
<1>1. CASE Tombstone
  <2>1. /\ pc = "tombstone" /\ pc \in Acting /\ pc' = "ensure" /\ Moves
        /\ UNCHANGED <<back, plan>>
    BY <1>1, RunMoves DEF Tombstone, At, Acting
  <2>2. row[cur.fp].key = NoKey
    BY <2>1, ActingFacts DEF TypeInv, CurOK, RowsTyped
  <2> QED
    BY <1>0, <1>1, <2>1, <2>2, CleanUpserts DEF Tombstone, States
<1>2. CASE Adopt
  <2>1. /\ pc = "adopt" /\ pc \in Acting /\ pc' = "next" /\ Moves
        /\ UNCHANGED <<back, plan>>
    BY <1>2, RunMoves DEF Adopt, At, Acting
  <2>2. /\ minted \in Keys /\ row[cur.fp].key = NoKey /\ minted # NoKey
        /\ cur.op # "close"
    BY <2>1, KeyFacts DEF TypeInv, CurOK, Closes
  <2>3. KeyOK(cur.fp, minted)
    BY <1>0, <2>1 DEF IssuesOK
  <2> QED
    BY <1>0, <1>2, <2>1, <2>2, <2>3, CleanUpserts DEF Adopt, States
<1>3. CASE Record
  <2>1. /\ pc = "record" /\ pc \in Acting /\ Moves /\ UNCHANGED <<back, plan>>
        /\ pc' \notin {"adopt", "record", "next"}
    BY <1>3, RunMoves DEF Record, At, Acting, AfterRecord, Goto
  <2>2. minted \in Keys /\ row[cur.fp].key \in {NoKey, minted} /\ minted # NoKey
    BY <2>1, KeyFacts DEF TypeInv, CurOK
  <2>3. KeyOK(cur.fp, minted)
    BY <1>0, <2>1 DEF IssuesOK
  <2> QED
    BY <1>0, <1>3, <2>1, <2>2, <2>3, CleanUpserts DEF Record, States
<1>4. CASE DropStale
  <2>1. /\ pc = "stale" /\ pc' = "ensure" /\ Moves /\ UNCHANGED <<back, plan>>
    BY <1>4, RunMoves DEF DropStale, At, Acting
  <2> QED
    BY <1>0, <1>4, <2>1, CleanDrops DEF DropStale
<1>5. CASE ForgetRow
  <2>1. /\ pc = "forget" /\ pc' = "next" /\ Moves /\ UNCHANGED <<back, plan>>
    BY <1>5, RunMoves DEF ForgetRow, At
  <2> QED
    BY <1>0, <1>5, <2>1, CleanDrops DEF ForgetRow
<1>6. CASE RecordClosing
  <2>1. /\ pc = "closing" /\ pc \in Closes /\ pc' = "close" /\ Moves
        /\ UNCHANGED <<back, plan>>
    BY <1>6, RunMoves DEF RecordClosing, At, Acting, Closes
  <2>2. /\ pc \in Acting /\ cur.key \in Keys /\ cur.key # NoKey
        /\ row[cur.fp].key = cur.key /\ cur.fp \in Findings
    BY <2>1, ClosingFacts, ActingFacts
  <2>3. KeyOK(cur.fp, cur.key)
    BY <1>0, <2>1, <2>2 DEF TypeInv, CurOK, PlanOK, IssuesOK
  <2> QED
    BY <1>0, <1>6, <2>1, <2>2, <2>3, CleanUpserts DEF RecordClosing, States
<1>7. CASE RecordClosed
  <2>1. /\ pc = "closed" /\ pc \in Closes /\ pc' = "next" /\ Moves
        /\ UNCHANGED <<back, plan>>
    BY <1>7, RunMoves DEF RecordClosed, At, Closes
  <2>2. /\ pc \in Acting /\ cur.key \in Keys /\ cur.key # NoKey
        /\ row[cur.fp].key = cur.key /\ cur.op = "close"
    BY <2>1, ClosingFacts DEF TypeInv, CurOK
  <2> QED
    BY <1>0, <1>7, <2>1, <2>2, CleanUpserts DEF RecordClosed, States
<1> QED
  BY <1>1, <1>2, <1>3, <1>4, <1>5, <1>6, <1>7

LEMMA CleanCreateIssue ==
  ASSUME TypeInv, CleanInv, CreateIssue
  PROVE  CleanInv'
<1>1. pc = "post" /\ pc \in Acting
  BY DEF CreateIssue, CallFails, At, Acting
<1>2. CASE CallFails("post") \/ ActionFails
  BY <1>1, <1>2, Harmed
<1>3. CASE /\ HasRoom /\ issue' = Filed /\ minted' = FreshKey /\ pc' = "record"
           /\ UNCHANGED <<back, plan, cur, store>> /\ Unharmed
  <2>1. FreshKey \in Keys
    BY <1>1, <1>3, FiledIssue
  <2> PICK k \in Keys : k = FreshKey
    BY <2>1
  <2>2. /\ issue'[k].state = "open" /\ \A j \in Keys \ {k} : issue'[j] = issue[j]
    BY <1>1, <1>3, FiledIssue DEF IssueOf
  <2>3. /\ Moves /\ UNCHANGED <<finding, row, back, plan>>
        /\ pc' \notin {"adopt", "next"}
    BY <1>3 DEF Moves, Acting, store
  <2>4. ~Linked(cur.fp)
    BY <1>1, ActingFacts DEF TypeInv, CurOK, Linked, RowsTyped
  <2> SUFFICES ASSUME clean'
               PROVE  IssuesOK' /\ RowsDone'
    BY CleanOr
  <2>5. IssuesOK /\ RowsDone
    BY <1>3, CleanWas
  <2> QED
    BY <1>1, <1>3, <2>2, <2>3, <2>4, <2>5, CleanCalls
<1> QED
  BY <1>2, <1>3 DEF CreateIssue

LEMMA CleanCalling ==
  ASSUME TypeInv, CleanInv, PushBody \/ ReopenIssue \/ CloseIssue
  PROVE  CleanInv'
<1>1. pc \in {"push", "reopen", "close"} /\ pc \in Acting
  BY DEF PushBody, ReopenIssue, CloseIssue, CallFails, At, Acting, Closes
<1>2. /\ Holds(cur.fp, cur.key) /\ cur.key \in Keys /\ issue[cur.key].state # "none"
      /\ pc \in {"push", "reopen"} => minted = cur.key
      /\ pc = "push" => Linked(cur.fp)
  BY <1>1, ActingFacts DEF TypeInv, CurOK, KeysOK, Holds, Closes
<1>3. PICK k \in Keys : k = cur.key
  BY <1>2
<1>4. CASE ActionFails \/ \E step \in Acting : CallFails(step)
  BY <1>4, Harmed
<1> SUFFICES ASSUME clean'
             PROVE  IssuesOK' /\ RowsDone'
  BY CleanOr
<1>5. CASE Answered /\ (Goto("stale") \/ Goto("forget"))
  <2>1. /\ UNCHANGED <<finding, row, issue, back, plan>> /\ Moves /\ Unharmed
        /\ pc' \in {"stale", "forget"}
    BY <1>5, RunMoves DEF Answered, store, Acting, Closes
  <2> QED
    BY <1>1, <2>1, CleanWas, CleanReads
<1>6. CASE /\ issue' = [issue EXCEPT ![cur.key].marker = cur.fp] /\ pc = "push"
           /\ Goto("record") /\ Unharmed /\ UNCHANGED store
  <2>1. /\ issue'[k].state = issue[k].state /\ issue'[k].last = issue[k].last
        /\ \A j \in Keys \ {k} : issue'[j] = issue[j]
    BY <1>1, <1>2, <1>3, <1>6, PushedIssue
  <2>2. /\ Moves /\ UNCHANGED <<finding, row, back, plan, minted>> /\ pc' = "record"
    BY <1>6, RunMoves DEF store, Acting
  <2>3. IssuesOK /\ RowsDone
    BY <1>6, CleanWas
  <2> QED
    BY <1>1, <1>2, <1>3, <1>6, <2>1, <2>2, <2>3, CleanCalls
<1>7. CASE /\ ~Gone(cur.key) /\ pc = "reopen"
           /\ issue' = [issue EXCEPT ![cur.key] = IssueOf(cur.fp, "reopened")]
           /\ Goto("record") /\ Unharmed /\ UNCHANGED store
  <2>1. /\ issue'[k].state = "open"
        /\ \A j \in Keys \ {k} : issue'[j] = issue[j]
    BY <1>1, <1>2, <1>3, <1>7, ReopenedIssue DEF IssueOf
  <2>2. /\ Moves /\ UNCHANGED <<finding, row, back, plan, minted>> /\ pc' = "record"
    BY <1>7, RunMoves DEF store, Acting
  <2>3. IssuesOK /\ RowsDone
    BY <1>7, CleanWas
  <2> QED
    BY <1>1, <1>2, <1>3, <1>7, <2>1, <2>2, <2>3, CleanCalls
<1>8. CASE /\ ~Gone(cur.key)
           /\ issue' = [issue EXCEPT ![cur.key].state = "closed",
                          ![cur.key].last = IF Open(cur.key) THEN "closed" ELSE @]
           /\ Goto("closed") /\ Unharmed /\ UNCHANGED store
  <2> DEFINE l == IF Open(cur.key) THEN "closed" ELSE issue[cur.key].last
  <2>1. l \in {"closed", issue[cur.key].last}
        /\ issue' = [issue EXCEPT ![cur.key].state = "closed", ![cur.key].last = l]
    BY <1>1, <1>2, <1>8, ActingFacts
  <2> HIDE DEF l
  <2>2. \A j \in Keys \ {k} : issue'[j] = issue[j]
    BY <1>1, <1>2, <1>3, <1>8, <2>1, ClosedIssue
  <2>3. /\ Moves /\ UNCHANGED <<finding, row, back, plan>> /\ pc' = "closed"
    BY <1>8, RunMoves DEF store, Acting, Closes
  <2>4. IssuesOK /\ RowsDone
    BY <1>8, CleanWas
  <2> QED
    BY <1>1, <1>2, <1>3, <2>2, <2>3, <2>4, CleanCalls
<1>9. CASE PushBody
  BY <1>4, <1>5, <1>6, <1>9 DEF PushBody, Acting, At, CleanInv
<1>10. CASE ReopenIssue
  BY <1>4, <1>5, <1>7, <1>10 DEF ReopenIssue, Acting, At, CleanInv
<1>11. CASE CloseIssue
  BY <1>4, <1>5, <1>8, <1>11 DEF CloseIssue, Acting, Closes, CleanInv
<1> QED
  BY <1>9, <1>10, <1>11

LEMMA CleanStartRun ==
  ASSUME TypeInv, StartRun
  PROVE  CleanInv'
<1>1. /\ pc' = IF \E f \in Findings : Linked(f) THEN "list" ELSE "plan"
      /\ UNCHANGED row
  BY DEF StartRun, Goto, store
<1>2. IssuesOK'
  BY <1>1 DEF IssuesOK, Linked
<1>3. RowsDone'
  BY <1>1 DEF RowsDone, Acting, Closes
<1> QED
  BY <1>2, <1>3 DEF CleanInv

(* The list has every closed issue a row knows; people's later closings    *)
(* are theirs.                                                             *)
LEMMA CleanListClosed ==
  ASSUME TypeInv, ListClosed
  PROVE  CleanInv'
<1>1. CASE Abort
  BY <1>1, Harmed
<1>2. CASE /\ back' = {f \in Findings :
                        Linked(f) /\ issue[row[f].key].state = "closed"}
           /\ pc' = "back"
  <2>1. UNCHANGED <<row, issue>> /\ Facts
    BY FactsOf DEF ListClosed, store
  <2>2. ASSUME NEW f \in Findings, Linked(f)
        PROVE  f \in back' \/ KeyOK(f, row[f].key)
    <3>1. row[f].key \in Keys /\ Holds(f, row[f].key)
      BY <2>1, <2>2 DEF Facts, RowsTyped, Row, Linked, Holds
    <3>2. issue[row[f].key].state \in {"open", "closed", "gone"}
      BY <2>1, <3>1 DEF Facts, KeysOK, Issue
    <3> QED
      BY <1>2, <2>2, <3>2 DEF KeyOK
  <2>3. IssuesOK'
    BY <1>2, <2>1, <2>2 DEF IssuesOK, Linked, KeyOK, Holds
  <2>4. RowsDone'
    BY <1>2 DEF RowsDone, Acting, Closes
  <2> QED
    BY <2>3, <2>4 DEF CleanInv
<1> QED
  BY <1>1, <1>2 DEF ListClosed

LEMMA CleanBacksync ==
  ASSUME TypeInv, CleanInv, NEW f \in Findings, BacksyncDismiss(f) \/ BacksyncRow(f)
  PROVE  CleanInv'
<1> SUFFICES ASSUME clean'
             PROVE  IssuesOK' /\ RowsDone'
  BY CleanOr
<1>1. /\ pc = "back" /\ pc' = "back" /\ UNCHANGED issue /\ Unharmed /\ Facts
      /\ f \in back /\ Linked(f)
  BY FactsOf DEF BacksyncDismiss, BacksyncRow, At, Goto, StoreStep, TypeInv, PlanOK
<1>2. IssuesOK
  BY <1>1, CleanWas
<1>3. RowsDone'
  BY <1>1 DEF RowsDone, Acting, Closes
<1>4. CASE BacksyncDismiss(f)
  <2>1. UNCHANGED <<row, back, cur>>
    BY <1>4 DEF BacksyncDismiss, Goto
  <2> QED
    BY <1>1, <1>2, <1>3, <2>1 DEF IssuesOK, Linked, KeyOK, Holds
<1>5. CASE BacksyncRow(f)
  <2>1. row[f].key \in Keys \cup {NoKey} /\ row[f].key # NoKey
    BY <1>1 DEF Facts, RowsTyped, Row, Linked
  <2>2. /\ \A g \in Findings \ {f} : row'[g] = row[g]
        /\ row'[f].key = row[f].key /\ row'[f].state = "closed"
        /\ back' = back \ {f}
    BY <1>1, <1>5, <2>1, UpsertRow DEF BacksyncRow, States, Facts
  <2>3. \A g \in Findings, k \in Keys : KeyOK(g, k) => KeyOK(g, k)'
    BY <1>1, <2>2, KeyOKRow DEF Holds
  <2>4. ASSUME NEW g \in Findings, Linked(g)'
        PROVE  g \in back' \/ KeyOK(g, row[g].key)'
    <3>1. g # f /\ row'[g] = row[g] /\ Linked(g) /\ row[g].key \in Keys
      BY <1>1, <2>2, <2>4 DEF Linked, Facts, RowsTyped, Row
    <3>2. g \in back \/ KeyOK(g, row[g].key)
      BY <1>1, <1>2, <3>1 DEF IssuesOK
    <3> QED
      BY <2>2, <2>3, <3>1, <3>2
  <2>5. IssuesOK'
    BY <1>1, <2>4 DEF IssuesOK
  <2> QED
    BY <1>3, <2>5
<1> QED
  BY <1>4, <1>5

(* The plan has an action for every row that is not as it should be.       *)
LEMMA PlannedAll ==
  ASSUME TypeInv, NEW f \in Findings
  PROVE  RowDone(f) \/ \E a \in Planned : a.fp = f
<1>1. row[f] \in Row /\ (row[f].key = NoKey <=> row[f].state \in {"none", "pending"})
  BY FactsOf DEF Facts, RowsTyped
<1>2. CASE finding[f].status = "open" /\ finding[f].filed
  <2>1. \E a \in OpenPlan(f) : a.fp = f
    <3>1. CASE row[f].state = "none" /\ Anchors(f) = {}
      BY <3>1 DEF OpenPlan, Do
    <3>2. CASE row[f].state = "none" /\ Anchors(f) # {}
      <4>1. PICK b \in Anchors(f) : TRUE
        BY <3>2
      <4>2. Do("adopt", f, row[b].key) \in OpenPlan(f)
        BY <3>2 DEF OpenPlan
      <4> QED
        BY <4>2 DEF Do
    <3>3. CASE row[f].state # "none"
      BY <1>1, <3>3 DEF OpenPlan, Do, Row, States
    <3> QED
      BY <3>1, <3>2, <3>3
  <2>2. OpenPlan(f) \subseteq Planned
    BY <1>2 DEF Planned
  <2> QED
    BY <2>1, <2>2
<1>3. CASE finding[f].status \in Closed /\ ~RowDone(f)
  <2>1. CloseOnFixed /\ Linked(f)
    BY <1>1, <1>3 DEF RowDone, Closed, Linked, Row, States
  <2>2. Do("close", f, row[f].key) \in ClosePlan(f)
    BY <2>1 DEF ClosePlan
  <2>3. ClosePlan(f) \subseteq Planned
    BY <1>3 DEF Planned
  <2> QED
    BY <2>2, <2>3 DEF Do
<1> QED
  BY <1>2, <1>3 DEF RowDone

LEMMA CleanPlan ==
  ASSUME TypeInv, CleanInv, Plan
  PROVE  CleanInv'
<1> SUFFICES ASSUME clean'
             PROVE  IssuesOK' /\ RowsDone'
  BY CleanOr
<1>1. /\ pc' = "next" /\ plan' = Planned /\ UNCHANGED <<back, cur, minted>>
      /\ UNCHANGED <<finding, row, issue>> /\ Unharmed /\ pc \in {"back", "plan"}
  BY DEF Plan, StoreStep, store
<1>2. IssuesOK
  BY <1>1, CleanWas
<1>3. IssuesOK'
  BY <1>1, <1>2 DEF IssuesOK, Linked, KeyOK, Holds
<1>4. RowsDone'
  BY <1>1, PlannedAll DEF RowsDone, RowDone, Linked
<1> QED
  BY <1>3, <1>4

LEMMA CleanTakeAction ==
  ASSUME TypeInv, CleanInv, TakeAction
  PROVE  CleanInv'
<1> SUFFICES ASSUME clean'
             PROVE  IssuesOK' /\ RowsDone'
  BY CleanOr
<1>1. PICK a \in plan : /\ plan' = {b \in plan : b.fp # a.fp}
                        /\ cur' = a /\ minted' = a.key /\ pc' = FirstStep(a)
  BY DEF TakeAction
<1>2. /\ pc = "next" /\ UNCHANGED <<finding, row, issue, back>> /\ Unharmed /\ back = {}
  BY DEF TakeAction, At, StoreStep, store, TypeInv, PlanOK
<1>3. IssuesOK /\ RowsDone
  BY <1>2, CleanWas
<1>4. a \in Actions /\ a.op \in Ops /\ a.fp \in Findings /\ Applies(a) /\ Facts
  BY TypeFacts, FactsOf DEF TypeInv, PlanOK, Actions
<1>5. /\ pc' \in Acting /\ (pc' = "adopt" => a.op = "adopt")
      /\ pc' = "record" => a.op = "update"
  BY <1>1, <1>4 DEF FirstStep, FirstStepOf, Ops, Acting, Closes
<1>6. RowsDone'
  <2>1. \A g \in Findings : RowDone(g)' <=> RowDone(g)
    BY <1>2 DEF RowDone, Linked
  <2>2. \A g \in Findings : RowDone(g) \/ \E b \in plan : b.fp = g
    BY <1>2, <1>3 DEF RowsDone, Acting, Closes
  <2> QED
    BY <1>1, <1>5, <2>1, <2>2 DEF RowsDone
<1>7. ASSUME NEW g \in Findings, NEW k \in Keys, KeyOK(g, k)
      PROVE  KeyOK(g, k)'
  BY <1>2, <1>7 DEF KeyOK, Holds
<1>8. ASSUME NEW g \in Findings, Linked(g)
      PROVE  KeyOK(g, row[g].key) /\ row[g].key \in Keys
  BY <1>2, <1>3, <1>4, <1>8 DEF IssuesOK, Linked, Facts, RowsTyped, Row
<1>9. pc' \in {"adopt", "record"} => a.key \in Keys /\ KeyOK(a.fp, a.key)
  <2>1. CASE a.op = "adopt"
    <3>1. a.key \in Keys /\ (Gone(a.key) \/ Held(a.key)) /\ row[a.fp].state = "none"
      BY <1>4, <2>1 DEF Applies
    <3>2. ~Holds(a.fp, a.key)
      BY <1>4, <3>1, KeyFacts DEF Facts, RowsTyped, Holds
    <3> QED
      BY <3>1, <3>2 DEF KeyOK, Gone, Held
  <2>2. CASE a.op = "update"
    BY <1>4, <1>8, <2>2 DEF Applies, Holds
  <2> QED
    BY <1>5, <2>1, <2>2
<1>10. IssuesOK'
  <2>1. \A g \in Findings : Linked(g)' => KeyOK(g, row[g].key)'
    BY <1>2, <1>7, <1>8 DEF Linked
  <2>2. pc' \in {"adopt", "record"} => KeyOK(cur.fp, minted)'
    <3> PICK f \in Findings, k \in Keys \cup {NoKey} : f = a.fp /\ k = a.key
      BY <1>4 DEF Actions
    <3>1. pc' \in {"adopt", "record"} => KeyOK(f, k)'
      BY <1>7, <1>9
    <3>2. cur'.fp = f /\ minted' = k
      BY <1>1
    <3> QED
      BY <3>1, <3>2 DEF KeyOK, Holds
  <2> QED
    BY <2>1, <2>2 DEF IssuesOK
<1> QED
  BY <1>6, <1>10

LEMMA CleanFinishRun ==
  ASSUME TypeInv, CleanInv, FinishRun
  PROVE  CleanInv'
<1> SUFFICES ASSUME clean'
             PROVE  IssuesOK' /\ RowsDone'
  BY CleanOr
<1>1. /\ pc = "next" /\ pc' = "idle" /\ plan = {} /\ back = {} /\ back' = {}
      /\ UNCHANGED <<finding, row, issue>> /\ Unharmed
  BY DEF FinishRun, At, EndRun, StoreStep, store, TypeInv, PlanOK
<1>2. IssuesOK /\ RowsDone
  BY <1>1, CleanWas
<1>3. IssuesOK'
  BY <1>1, <1>2 DEF IssuesOK, Linked, KeyOK, Holds
<1>4. \A f \in Findings : RowDone(f)
  BY <1>1, <1>2 DEF RowsDone, Acting, Closes
<1>5. RowsDone'
  BY <1>1, <1>4 DEF RowsDone, RowDone, Linked
<1> QED
  BY <1>3, <1>5

LEMMA CleanInit == Init => CleanInv
  BY DEF Init, CleanInv, IssuesOK, RowsDone, RowDone, Linked, NoRow, Closed

LEMMA CleanNext == TypeInv /\ MarkInv /\ CleanInv /\ [Next]_vars => CleanInv'
<1> SUFFICES ASSUME TypeInv, MarkInv, CleanInv, [Next]_vars
             PROVE  CleanInv'
  OBVIOUS
<1>1. CASE UNCHANGED vars
  <2>1. UNCHANGED <<finding, row, issue, pc, back, plan, cur, minted, clean>>
    BY <1>1 DEF vars, store, run
  <2> QED
    BY <2>1 DEF CleanInv, IssuesOK, RowsDone, RowDone, Linked, KeyOK, Holds
<1>2. CASE Environment \/ Stop
  BY <1>2, Harmed DEF Environment, Find, Revise, Touch, Resolve, Regress, Rewritten,
     HumanClose, Vanish
<1>3. CASE \/ EnsureLabels \/ Search \/ CommentRegression \/ ReconcileLabels
           \/ CloseComment
  BY <1>3, CleanReading
<1>4. CASE \/ Tombstone \/ Adopt \/ Record \/ DropStale \/ RecordClosing
           \/ RecordClosed \/ ForgetRow
  BY <1>4, CleanWrites
<1>5. CASE PushBody \/ ReopenIssue \/ CloseIssue
  BY <1>5, CleanCalling
<1>6. CASE \E f \in Findings : BacksyncDismiss(f) \/ BacksyncRow(f)
  BY <1>6, CleanBacksync
<1> QED
  BY <1>1, <1>2, <1>3, <1>4, <1>5, <1>6, CleanStartRun, CleanListClosed, CleanPlan,
     CleanTakeAction, CleanFinishRun, CleanCreateIssue, CleanRecordLabels
     DEF Next, Step

LEMMA CleanHolds == Spec => []CleanInv
  BY CleanInit, CleanNext, TypeHolds, MarkHolds, PTL DEF Spec

(* A run in which nothing failed leaves every issue as its finding is, but *)
(* for an issue that two findings share, one that was reopened and not     *)
(* recorded, and one that a person closed after the run had listed the     *)
(* closed ones: whatever the runs before it left half done, the plan has an*)
(* action for it, and no step of another action undoes it.                 *)
THEOREM CleanRunsMirror == Spec => []CleanRunMirrors
<1>1. TypeInv /\ MarkInv /\ CleanInv => CleanRunMirrors
  <2> SUFFICES ASSUME TypeInv, MarkInv, CleanInv, pc = "idle", clean, NEW f \in Findings
               PROVE  Mirrored(f) \/ ClosedByHand(f)
    BY DEF CleanRunMirrors, At
  <2> DEFINE k == row[f].key
  <2>1. Facts /\ back = {} /\ plan = {}
    BY FactsOf DEF TypeInv, PlanOK, Acting, Closes
  <2>2. (Linked(f) => KeyOK(f, k)) /\ RowDone(f)
    BY <2>1 DEF CleanInv, IssuesOK, RowsDone, Acting, Closes
  <2>3. CASE finding[f].status = "open" /\ finding[f].filed
    <3>1. Linked(f) /\ KeyOK(f, k) /\ k \in Keys /\ k # NoKey
      BY <2>1, <2>2, <2>3, KeyFacts DEF RowDone, Linked, Facts, RowsTyped, Row
    <3>2. CASE issue[k].state \in {"open", "gone"}
      BY <2>3, <3>1, <3>2 DEF Mirrored, Closed
    <3>3. CASE \E g \in Findings \ {f} : Holds(g, k)
      BY <3>1, <3>3 DEF Mirrored, Shares, Holds
    <3>4. CASE issue[k].state = "closed" /\ issue[k].last = "human"
      BY <3>1, <3>4 DEF ClosedByHand
    <3> QED
      BY <3>1, <3>2, <3>3, <3>4 DEF KeyOK
  <2>4. CASE /\ ~(finding[f].status = "open" /\ finding[f].filed)
             /\ finding[f].status \in Closed /\ CloseOnFixed /\ k # NoKey
    <3>1. row[f].state = "closed"
      BY <2>2, <2>4 DEF RowDone
    <3>2. Shut(k)
      BY <3>1 DEF MarkInv, Marks, ClosedOK
    <3>3. CASE issue[k].state \in {"closed", "gone"}
      BY <2>4, <3>1, <3>3 DEF Mirrored
    <3>4. CASE issue[k].state = "open" /\ issue[k].last = "reopened"
      BY <3>1, <3>4 DEF Mirrored, HalfReopened
    <3> QED
      BY <3>2, <3>3, <3>4 DEF Shut
  <2>5. CASE /\ ~(finding[f].status = "open" /\ finding[f].filed)
             /\ ~(finding[f].status \in Closed /\ CloseOnFixed /\ k # NoKey)
    BY <2>5 DEF Mirrored
  <2> QED
    BY <2>3, <2>4, <2>5
<1> QED
  BY <1>1, TypeHolds, MarkHolds, CleanHolds, PTL

=============================================================================
