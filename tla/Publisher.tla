----------------------------- MODULE Publisher -----------------------------
(***************************************************************************)
(* The publish reconciler: open findings become issues on a tracker, and   *)
(* closed ones close them (cli/publish.go, cli/publisher.go,               *)
(* store/published.go).                                                    *)
(*                                                                         *)
(* A run crosses two systems without a transaction: every store statement  *)
(* and every tracker call is a step of its own, and the run may end between*)
(* any two of them. The store has one writer process (store.Open takes the *)
(* writer lock) and the daemon publishes on its loop, so findings change   *)
(* between runs only; people close and delete issues at any moment.        *)
(*                                                                         *)
(* Abstracted: the body is its fingerprint marker, and "the hash of the    *)
(* rendered body is the recorded one" and "the desired labels are the      *)
(* recorded ones" are flags of the row, which a change of the finding's    *)
(* content clears. Both label knobs are on; a dry run changes nothing.     *)
(***************************************************************************)
EXTENDS Integers, FiniteSets

CONSTANTS
  Findings,       (* fingerprints                                          *)
  MaxIssues,      (* bound on the issues the tracker ever holds            *)
  Similar,        (* pairs of fingerprints SimilarFinding takes for one bug*)
  CloseOnFixed,   (* the close_on_fixed knob                               *)
  MaxChanges,     (* bound on what scans, operators and people do          *)
  MaxCrashes,     (* bound on runs that end where they stand               *)
  MaxFaults       (* bound on tracker calls that fail                      *)

ASSUME PublisherAssumption ==
  /\ IsFiniteSet(Findings) /\ "none" \notin Findings
  /\ Similar \subseteq SUBSET Findings
  /\ CloseOnFixed \in BOOLEAN
  /\ {MaxIssues, MaxChanges, MaxCrashes, MaxFaults} \subseteq Nat

VARIABLES
  finding,        (* status of each finding and whether its tier is filed  *)
  newer,          (* findings updated after their published row            *)
  row,            (* published_issues                                      *)
  issue,          (* the tracker's issues, with what last happened to them *)
  pc, back, plan, cur, minted,    (* the run: its next step, rows to       *)
                  (* backsync, actions to apply, the one at hand, its key  *)
  disabled,       (* the daemon's latch for a missing tracker client       *)
  clean,          (* nothing failed or happened since the run began        *)
  changes, crashes, faults

store == <<finding, newer, row>>
run == <<pc, back, plan, cur, minted>>
bounds == <<changes, crashes, faults>>
vars == <<store, issue, run, disabled, clean, bounds>>

Keys == 1..MaxIssues
NoKey == 0
States == {"none", "pending", "open", "closing", "closed"}
NoRow == [state |-> "none", key |-> NoKey, pushed |-> FALSE, labelled |-> FALSE]
NoIssue == [state |-> "none", marker |-> "none", last |-> "filed"]
Closed == {"fixed", "dismissed", "superseded"}
Ops == {"create", "adopt", "recover", "update", "reopen", "close", "skip"}
NoAction == [op |-> "skip", fp |-> "none", key |-> NoKey]

Init ==
  /\ finding = [f \in Findings |-> [status |-> "absent", filed |-> FALSE]]
  /\ newer = {}
  /\ row = [f \in Findings |-> NoRow]
  /\ issue = [k \in Keys |-> NoIssue]
  /\ pc = "idle" /\ back = {} /\ plan = {} /\ cur = NoAction /\ minted = NoKey
  /\ disabled = FALSE
  /\ clean = TRUE
  /\ changes = 0 /\ crashes = 0 /\ faults = 0

-----------------------------------------------------------------------------
(* What happens around a run.                                              *)

Happens ==
  /\ changes < MaxChanges
  /\ changes' = changes + 1 /\ clean' = FALSE
  /\ UNCHANGED <<run, disabled, crashes, faults>>

(* Every write of a finding moves its updated_at past the row's.           *)
Rewritten(f, status, filed) ==
  /\ pc = "idle"
  /\ finding' = [finding EXCEPT ![f] = [status |-> status, filed |-> filed]]
  /\ newer' = newer \cup {f}
  /\ Happens
  /\ UNCHANGED issue

(* A scan stores a finding, or later moves it into the published tiers.    *)
Find(f) ==
  /\ finding[f].status \in {"absent", "open"} /\ ~finding[f].filed
  /\ \E filed \in BOOLEAN : Rewritten(f, "open", filed)
  /\ UNCHANGED row

(* A write that changes what the body and the labels say...                *)
Revise(f) ==
  /\ finding[f].status = "open" /\ Rewritten(f, "open", finding[f].filed)
  /\ row' = [row EXCEPT ![f].pushed = FALSE, ![f].labelled = FALSE]

(* ... and one that does not (a lens, a site, the severity sweep's mark).  *)
Touch(f) ==
  /\ finding[f].status = "open" /\ Rewritten(f, "open", finding[f].filed)
  /\ UNCHANGED row

(* Re-verification, the backlog reconcile or an operator closes it.        *)
Resolve(f) ==
  /\ finding[f].status = "open"
  /\ \E status \in Closed : Rewritten(f, status, finding[f].filed)
  /\ UNCHANGED row

(* ReopenAsRegression.                                                     *)
Regress(f) ==
  /\ finding[f].status = "fixed" /\ Rewritten(f, "open", finding[f].filed)
  /\ UNCHANGED row

(* Somebody closes an issue on the tracker, or deletes or transfers it.    *)
HumanClose(k) ==
  /\ issue[k].state = "open"
  /\ issue' = [issue EXCEPT ![k].state = "closed", ![k].last = "human"]
  /\ Happens /\ UNCHANGED store

Vanish(k) ==
  /\ issue[k].state \in {"open", "closed"}
  /\ issue' = [issue EXCEPT ![k].state = "gone"]
  /\ Happens /\ UNCHANGED store

Environment ==
  \/ \E f \in Findings :
       Find(f) \/ Revise(f) \/ Touch(f) \/ Resolve(f) \/ Regress(f)
  \/ \E k \in Keys : HumanClose(k) \/ Vanish(k)

-----------------------------------------------------------------------------
(* Frames and failures of the steps of a run.                              *)

At(step) == pc = step
Goto(step) == pc' = step /\ UNCHANGED <<back, plan, cur, minted>>
EndRun ==
  pc' = "idle" /\ back' = {} /\ plan' = {} /\ cur' = NoAction /\ minted' = NoKey
NextAction ==
  pc' = "next" /\ cur' = NoAction /\ minted' = NoKey /\ UNCHANGED <<back, plan>>

Unharmed == UNCHANGED <<disabled, clean, bounds>>
StoreStep == UNCHANGED issue /\ Unharmed
Answered == UNCHANGED <<store, issue>> /\ Unharmed

(* applyErr: a failure of one action is logged and the plan goes on; a rate*)
(* limit ends the run; a missing client ends it and latches the publisher. *)
Fails ==
  /\ faults < MaxFaults
  /\ faults' = faults + 1 /\ clean' = FALSE
  /\ UNCHANGED <<changes, crashes>>

Abort == Fails /\ EndRun /\ disabled' \in BOOLEAN
ActionFails == Abort \/ (Fails /\ NextAction /\ UNCHANGED disabled)

CallFails(step) == At(step) /\ ActionFails /\ UNCHANGED <<store, issue>>

(* UpsertPublishedIssue keeps managed_labels and sets everything else, the *)
(* time of the update included.                                            *)
Upsert(f, state, key, pushed) ==
  /\ row' = [row EXCEPT ![f].state = state, ![f].key = key,
                        ![f].pushed = pushed]
  /\ newer' = newer \ {f}
  /\ UNCHANGED finding

Delete(f) ==
  /\ row' = [row EXCEPT ![f] = NoRow]
  /\ newer' = newer \ {f}
  /\ UNCHANGED finding

-----------------------------------------------------------------------------
(* Backsync: what people closed on the tracker is closed here.             *)

Linked(f) == row[f].state \in {"open", "closing"}

StartRun ==
  /\ At("idle") /\ ~disabled
  /\ clean' = TRUE
  /\ Goto(IF \E f \in Findings : Linked(f) THEN "list" ELSE "plan")
  /\ UNCHANGED <<store, issue, disabled, bounds>>

(* ListIssues("closed") and planBacksync; an error there ends the run.     *)
ListClosed ==
  /\ At("list")
  /\ UNCHANGED <<store, issue>>
  /\ \/ /\ back' = {f \in Findings :
                    Linked(f) /\ issue[row[f].key].state = "closed"}
        /\ pc' = "back"
        /\ UNCHANGED <<plan, cur, minted>> /\ Unharmed
     \/ Abort

(* A finding still open is dismissed first, then its row is closed.        *)
BacksyncDismiss(f) ==
  /\ At("back") /\ f \in back /\ finding[f].status = "open"
  /\ finding' = [finding EXCEPT ![f].status = "dismissed"]
  /\ newer' = newer \cup {f}
  /\ UNCHANGED row /\ Goto("back") /\ StoreStep

BacksyncRow(f) ==
  /\ At("back") /\ f \in back /\ finding[f].status # "open"
  /\ Upsert(f, "closed", row[f].key, FALSE)
  /\ back' = back \ {f}
  /\ UNCHANGED <<pc, plan, cur, minted>> /\ StoreStep

-----------------------------------------------------------------------------
(* planPublish.                                                            *)

Anchors(f) ==
  {a \in Findings \ {f} :
     finding[a].status = "open" /\ Linked(a) /\ {a, f} \in Similar}

Do(op, f, key) == [op |-> op, fp |-> f, key |-> key]

OpenPlan(f) ==
  CASE row[f].state = "none" ->
         IF Anchors(f) = {} THEN {Do("create", f, NoKey)}
         ELSE {Do("adopt", f, row[a].key) : a \in Anchors(f)}
    [] row[f].state = "pending" -> {Do("recover", f, NoKey)}
    [] row[f].state = "closed"  -> {Do("reopen", f, row[f].key)}
    [] OTHER -> {Do(IF f \in newer THEN "update" ELSE "skip", f, row[f].key)}

ClosePlanFresh(f) ==                                            \* mutant
  IF CloseOnFixed /\ row[f].state = "open"
  THEN {Do("close", f, row[f].key)} ELSE {}
ClosePlan(f) ==
  IF CloseOnFixed /\ Linked(f) THEN {Do("close", f, row[f].key)} ELSE {}

Planned ==
  LET Within ==
        {f \in Findings : finding[f].status = "open" /\ finding[f].filed}
      Over == {f \in Findings : finding[f].status \in Closed}
  IN (UNION {OpenPlan(f) : f \in Within}) \cup (UNION {ClosePlan(f) : f \in Over})

Plan ==
  /\ pc \in {"back", "plan"} /\ back = {}
  /\ pc' = "next" /\ plan' = Planned
  /\ UNCHANGED <<back, cur, minted, store>> /\ StoreStep

(* The closes come last.                                                   *)
FirstStepOf(a, recover, skip) ==
  CASE a.op = "create"  -> "tombstone"
    [] a.op = "recover" -> recover
    [] a.op = "update"  -> IF row[a.fp].pushed THEN "record" ELSE "push"
    [] a.op = "close"   -> IF row[a.fp].state = "closing" THEN "close"
                           ELSE "comment"
    [] a.op = "skip"    -> skip
    [] OTHER            -> a.op

RecoversBlindly(a) == FirstStepOf(a, "ensure", "labels")        \* mutant
SkipsLabels(a) == FirstStepOf(a, "search", "next")              \* mutant
FirstStep(a) == FirstStepOf(a, "search", "labels")

TakeAction ==
  /\ At("next")
  /\ \E a \in plan :
       /\ a.op = "close" => \A b \in plan : b.op = "close"
       /\ plan' = {b \in plan : b.fp # a.fp}
       /\ cur' = a /\ minted' = a.key
       /\ pc' = FirstStep(a)
  /\ UNCHANGED <<back, store>> /\ StoreStep

FinishRun ==
  /\ At("next") /\ plan = {}
  /\ EndRun /\ UNCHANGED store /\ StoreStep

-----------------------------------------------------------------------------
(* Creating an issue: tombstone, call, record.                             *)

TombstoneOpen ==                                                \* mutant
  /\ At("tombstone")
  /\ Upsert(cur.fp, "open", NoKey, FALSE)
  /\ Goto("ensure") /\ StoreStep
Tombstone ==
  /\ At("tombstone")
  /\ Upsert(cur.fp, "pending", NoKey, FALSE)
  /\ Goto("ensure") /\ StoreStep

EnsureLabels ==
  \/ At("ensure") /\ Goto("post") /\ Answered
  \/ CallFails("ensure")

FreshKey == CHOOSE k \in Keys : issue[k].state = "none"
HasRoom == \E k \in Keys : issue[k].state = "none"
IssueOf(f, last) == [state |-> "open", marker |-> f, last |-> last]
Filed == [issue EXCEPT ![FreshKey] = IssueOf(cur.fp, "filed")]

(* CreateIssue is not idempotent, and like every call it may be carried out*)
(* and yet reported as failed.                                             *)
CreateIssue ==
  \/ /\ At("post") /\ HasRoom /\ issue' = Filed
     /\ minted' = FreshKey /\ pc' = "record"
     /\ UNCHANGED <<back, plan, cur, store>> /\ Unharmed
  \/ /\ At("post") /\ HasRoom /\ issue' = Filed
     /\ ActionFails /\ UNCHANGED store
  \/ CallFails("post")

(* findIssueByMarker: any issue of the tracker, open or closed.            *)
Search ==
  \/ /\ At("search")
     /\ LET hits == {k \in Keys : /\ issue[k].state \in {"open", "closed"}
                                  /\ issue[k].marker = cur.fp}
        IN IF hits = {} THEN Goto("ensure")
           ELSE /\ minted' \in hits /\ pc' = "adopt"
                /\ UNCHANGED <<back, plan, cur>>
     /\ Answered
  \/ CallFails("search")

(* An adopted issue gets no body and no labels now.                        *)
Adopt ==
  /\ At("adopt")
  /\ Upsert(cur.fp, "open", minted, FALSE)
  /\ NextAction /\ StoreStep

(* The row after a create, a push, a reopen, or a push found needless.     *)
AfterRecord ==
  CASE cur.op = "reopen" /\ minted = cur.key -> "regressed"
    [] cur.op = "update" /\ minted = cur.key -> "labels"
    [] OTHER -> "labelled"

Record ==
  /\ At("record")
  /\ Upsert(cur.fp, "open", minted, TRUE)
  /\ Goto(AfterRecord) /\ StoreStep

-----------------------------------------------------------------------------
(* Updating and reopening.                                                 *)

Gone(k) == issue[k].state = "gone"

(* The error of a call about an issue that is gone, where it has no branch.*)
GoneFails ==
  /\ Gone(cur.key)
  /\ NextAction /\ clean' = FALSE
  /\ UNCHANGED <<store, issue, disabled, bounds>>

PushBody ==
  \/ /\ At("push") /\ ~Gone(cur.key)
     /\ issue' = [issue EXCEPT ![cur.key].marker = cur.fp]
     /\ (Goto("record") /\ Unharmed) \/ ActionFails
     /\ UNCHANGED store
  \/ /\ At("push") /\ Gone(cur.key)
     /\ Goto("stale") /\ Answered
  \/ CallFails("push")

ReopenIssue ==
  \/ /\ At("reopen") /\ ~Gone(cur.key)
     /\ issue' = [issue EXCEPT ![cur.key] = IssueOf(cur.fp, "reopened")]
     /\ (Goto("record") /\ Unharmed) \/ ActionFails
     /\ UNCHANGED store
  \/ /\ At("reopen") /\ Gone(cur.key)
     /\ Goto("stale") /\ Answered
  \/ CallFails("reopen")

(* The issue is gone: the row is dropped and a fresh issue created, without*)
(* a tombstone.                                                            *)
DropStale ==
  /\ At("stale")
  /\ Delete(cur.fp) /\ Goto("ensure") /\ StoreStep

CommentRegression ==
  \/ At("regressed") /\ ~Gone(cur.key) /\ Goto("labels") /\ Answered
  \/ At("regressed") /\ GoneFails
  \/ CallFails("regressed")

(* reconcileLabels: nothing to do, or labels are added, then removed, on   *)
(* the tracker and then recorded. With both knobs on, labels differ in a   *)
(* severity or a tier, so that there always is one to add: on an issue that*)
(* is gone this fails, before the removals, which would not, are tried.    *)
ReconcileLabels ==
  \/ At("labels") /\ row[cur.fp].labelled /\ NextAction /\ Answered
  \/ /\ At("labels") /\ ~row[cur.fp].labelled /\ ~Gone(cur.key)
     /\ Goto("labelled") /\ Answered
  \/ At("labels") /\ ~row[cur.fp].labelled /\ GoneFails
  \/ At("labels") /\ ~row[cur.fp].labelled /\ CallFails("labels")

RecordLabels ==
  /\ At("labelled")
  /\ row' = [row EXCEPT ![cur.fp].labelled = row[cur.fp].state # "none"]
  /\ UNCHANGED <<finding, newer>>
  /\ NextAction /\ StoreStep

-----------------------------------------------------------------------------
(* Closing: comment, "closing", close, "closed".                           *)

CloseComment ==
  \/ /\ At("comment")
     /\ Goto(IF Gone(cur.key) THEN "forget" ELSE "closing")
     /\ Answered
  \/ CallFails("comment")

RecordClosing ==
  /\ At("closing")
  /\ Upsert(cur.fp, "closing", cur.key, FALSE)
  /\ Goto("close") /\ StoreStep

Open(k) == issue[k].state = "open"

CloseIssue ==
  \/ /\ At("close") /\ ~Gone(cur.key)
     /\ issue' = [issue EXCEPT ![cur.key].state = "closed",
                    ![cur.key].last = IF Open(cur.key) THEN "closed" ELSE @]
     /\ (Goto("closed") /\ Unharmed) \/ ActionFails
     /\ UNCHANGED store
  \/ /\ At("close") /\ Gone(cur.key)
     /\ Goto("forget") /\ Answered
  \/ CallFails("close")

RecordClosed ==
  /\ At("closed")
  /\ Upsert(cur.fp, "closed", cur.key, FALSE)
  /\ NextAction /\ StoreStep

ForgetRow ==
  /\ At("forget")
  /\ Delete(cur.fp) /\ NextAction /\ StoreStep

-----------------------------------------------------------------------------
(* A crash, a cancelled context or a failed store statement ends the run   *)
(* where it stands; a restarted daemon has a fresh latch.                  *)
Stop ==
  /\ crashes < MaxCrashes /\ ~At("idle")
  /\ crashes' = crashes + 1
  /\ EndRun /\ clean' = FALSE /\ disabled' = FALSE
  /\ UNCHANGED <<store, issue, changes, faults>>

Step ==
  \/ StartRun \/ ListClosed \/ Plan \/ TakeAction \/ FinishRun
  \/ \E f \in Findings : BacksyncDismiss(f) \/ BacksyncRow(f)
  \/ Tombstone \/ EnsureLabels \/ CreateIssue \/ Search \/ Adopt \/ Record
  \/ PushBody \/ ReopenIssue \/ DropStale \/ CommentRegression
  \/ ReconcileLabels \/ RecordLabels
  \/ CloseComment \/ RecordClosing \/ CloseIssue \/ RecordClosed \/ ForgetRow

Next == Step \/ Stop \/ Environment

Spec == Init /\ [][Next]_vars

(* The daemon publishes after every cycle and no step waits for ever.      *)
FairSpec == Spec /\ WF_vars(Step)

-----------------------------------------------------------------------------
(* Properties.                                                             *)

TypeOK ==
  /\ finding \in [Findings -> [status : Closed \cup {"absent", "open"},
                               filed : BOOLEAN]]
  /\ newer \subseteq Findings /\ back \subseteq Findings
  /\ row \in [Findings -> [state : States, key : Keys \cup {NoKey},
                           pushed : BOOLEAN, labelled : BOOLEAN]]
  /\ \A f \in Findings :
       row[f].key = NoKey <=> row[f].state \in {"none", "pending"}
  /\ issue \in [Keys -> [state : {"none", "open", "closed", "gone"},
                         marker : Findings \cup {"none"},
                         last : {"filed", "closed", "reopened", "human"}]]
  /\ plan \subseteq [op : Ops, fp : Findings, key : Keys \cup {NoKey}]
  /\ minted \in Keys \cup {NoKey}
  /\ {disabled, clean} \subseteq BOOLEAN

(* "Re-running files zero duplicates" (publish.go:76): whatever the crashes*)
(* and the lost answers, the tracker holds one issue per fingerprint, as   *)
(* long as nobody deletes an issue.                                        *)
NoDuplicateIssue ==
  (\A k \in Keys : ~Gone(k)) =>
    \A j, k \in Keys :
      issue[j].state # "none" /\ issue[j].marker = issue[k].marker => j = k

(* Two rows may point at one issue once one of them adopted it.            *)
Shares(f) ==
  \E g \in Findings \ {f} : row[g].key = row[f].key /\ row[f].key # NoKey

(* The tracker says of f what the store says. Left out: a finding closed   *)
(* while its create was pending (publish.go:1043-1047), two findings on one*)
(* issue, and a reopen that was carried out but not recorded.              *)
HalfReopened(f) ==
  LET i == issue[row[f].key]
  IN row[f].state = "closed" /\ i.state = "open" /\ i.last = "reopened"

Mirrored(f) ==
  LET r == row[f]
      tracked == IF r.key = NoKey THEN "none" ELSE issue[r.key].state
  IN \/ Shares(f) \/ HalfReopened(f)
     \/ /\ finding[f].status = "open" /\ finding[f].filed =>
             Linked(f) /\ tracked \in {"open", "gone"}
        /\ finding[f].status \in Closed /\ CloseOnFixed /\ r.key # NoKey =>
             r.state = "closed" /\ tracked \in {"closed", "gone"}

(* A run in which nothing failed leaves every issue as its finding is,     *)
(* whatever the interrupted runs before it left behind. The next run's     *)
(* backsync answers for an issue that a person closed before this run's    *)
(* recovery found it.                                                      *)
ClosedByHand(f) ==
  LET i == issue[row[f].key]
  IN Linked(f) /\ i.state = "closed" /\ i.last = "human"

CleanRunMirrors ==
  At("idle") /\ clean => \A f \in Findings : Mirrored(f) \/ ClosedByHand(f)

(* Once people and scans leave them alone, findings and issues agree, and  *)
(* the labels do, unless the tracker's client is missing.                  *)
CaughtUp(f) ==
  /\ Mirrored(f)
  /\ Linked(f) /\ finding[f].status = "open" /\ finding[f].filed =>
       row[f].labelled \/ Gone(row[f].key)

CatchesUp == <>[](disabled \/ \A f \in Findings : CaughtUp(f))

(* Backsync reconciles "a published row whose tracker issue closed without *)
(* our involvement" (publish.go:1072-1073): it dismisses a finding only    *)
(* when a person closed its issue.                                         *)
OnlyPeopleDismiss ==
  [][\A f \in Findings :
       (At("back") /\ finding[f].status = "open" /\ finding'[f] # finding[f])
         => issue[row[f].key].last = "human"]_vars

=============================================================================
