# Bugbot in TLA+

Formal models of bugbot (`internal/`), checked with TLC on small instances and,
where a property matters for every size, proved with TLAPS. Bugbot runs LLM
agents over a repository (find, triage, verify, reproduce), keeps what they
find in one SQLite database, and runs either as a one-shot CLI or as a daemon.

## 1. Inventory

| Part (packages) | State | Operations | Who it talks to | What is hard |
|---|---|---|---|---|
| Reproduction queue (`store/repro_queue.go`, `repro/promote.go`) | one row per fingerprint: state, attempt count, lease age, exit-zero count | enqueue, claim, finish, requeue, release, block, reset | funnel hook, daemon backlog, operator | three dispatch paths race; crash or interrupt mid-attempt; a 30-minute lease; a bounded budget |
| Agent slots and fan-out (`funnel/slotpool.go`, `fanout.go`) | free count, three FIFO queues, one channel per waiter | acquire, release, spawn, spawnSerial, wait | every stage of the funnel | cancellation racing a hand-over, lost wake-ups |
| Finding store (`store/findings.go`, `suppressions.go`, `domain/finding.go`) | one row per fingerprint: status, tier, lenses, sites, evidence, suppression | upsert, status change, supersede, reopen, fold lenses and sites | every stage; CLI | read-then-write in separate statements, memory of suppression, state rules |
| Streaming triage and verify (`funnel/triage_streaming.go`, `verify_stream.go`, `store/pending.go`) | cluster registry, staged lenses and sites, write-ahead rows of pending candidates | register, stage, drain, signal persisted, orphan | finders, verifiers, store | two stages race on a cluster; crash between WAL delete and persist |
| Token budget (`funnel/budget.go`) | spent tokens per role, soft and hard limits, reservations | record, reserve, soft and hard checks | every agent runner | checks and charges interleave; limits and carve-outs |
| Funnel pipeline (`funnel/run_pipeline.go`, `hypothesize.go`, ...) | channels, stage goroutines, first error | run, drain, close in order | all stages | shutdown order, full channels, cancelled stages |
| Cartographer (`funnel/cartographer*.go`) | package summaries and their fingerprints | refresh stale summaries | slot pool, store | interrupted refresh |
| Daemon (`daemon/`) | schedule, watermark of the last seen commit, dispatch queue | poll, cycle, backlog, dispatch, post-cycle reverify | engine, control socket | timers against work, watermark against crash, queue full |
| Engine and owner lock (`engine/`, `store/dblock*.go`) | owner or observer mode, heartbeat | open, escalate, dispatch verbs | CLI, TUI, daemon | two processes on one database |
| Control socket (`control/`) | subscribers, pending requests | serve, subscribe, dispatch | TUI, daemon | slow readers, dropped replies |
| Store base (`store/store.go`, `ops.go`, `migrate.go`, `recover.go`) | the database file | open, migrate, back up, recover | everything | crash mid-migration, corruption |
| Publisher and tracker (`cli/publish.go`, `store/published.go`, `tracker/`) | one row per published fingerprint: state, issue key, body hash, labels | backsync, plan, create, adopt, recover, update, reopen, close | daemon, GitHub | two systems without a transaction; people act on the tracker |
| Leads, dead hypotheses (`store/leads.go`, `dead_hypotheses.go`) | rows | post, claim | finders, triage | best-effort records |
| Sandbox and repro agents (`repro/`, `sandboxenv/`) | workspaces, containers | attempt, interpret, patch | LLM, containers | verdict rules |
| Code intelligence (`lsp/`, `treesitter/`, `miner/`, `ingest/`, `agenttools/`, `analyzer/`, `ecosystem/`) | server processes, indexes | queries | agents | LSP server lifetime |
| Front ends (`cli/`, `tui/`, `progress/`, `report/`, `sarif/`, `config/`) | views | render | user | mostly presentation |
| Evaluation (`eval/`), identity and utilities (`domain/`, `util/`) | fixtures, keys | score, hash | tests | pure |


What makes each core part correct, and where this project says so:

- *Reproduction queue*: one owner per row; the retry budget counts real
  failures only; no demonstrated bug is settled without evidence; every queued
  finding is settled in the end. Modelled, checked, largely proved.
- *Slots*: no slot is lost or handed out twice, nobody waits while one is free,
  everybody who waits is served or gives up. Modelled and checked; all but the
  last proved.
- *Streaming triage and verify*: no claim written ahead is lost, corroboration
  reaches the stored row in every interleaving, what the run returns equals
  what it stored, and a dismissed bug stays closed. Modelled, checked and proved.
- *Token budget and pipeline shutdown*: no stage sends on a closed channel, the
  run returns whatever fails or fills up, what it reports is what happened, and
  discovery cannot spend verification's reserve. Modelled and checked; all but
  the return proved.
- *Daemon*: no timer starves; every version of the code that stays is scanned,
  and findings are re-anchored or closed, although the watermark moves before
  the scan of its range. Modelled and checked; the scheduler, the anchors and the
  suppressions proved.
- *Control socket*: "ok" means the verb ran; calls return, connections are
  forgotten, and shutdown ends, with a full queue and slow readers. Modelled
  and checked; the first proved.
- *Publisher*: no finding gets two issues, an undisturbed run repairs what
  interrupted ones left, and the tracker and the store agree in the end.
  Modelled and checked; all but the last proved.
- *Finding store, owner lock*: section 7 says what is planned.

## 2. The models

| Module | Role |
|---|---|
| `ReproQueue` | the queue rows, the workers of `promoteOne` and their environment |
| `ReproLifecycle` | abstract: the life of one row |
| `MCReproQueue` | model values for TLC |
| `ReproQueue_proofs` | theorems about `ReproQueue` |
| `SlotPool` | slot pool and fan-out |
| `PrioritySemaphore` | abstract: a counting semaphore with three classes |
| `MCSlotPool` | three fan-outs for TLC |
| `SlotPool_proofs` | theorems about `SlotPool` |
| `ClusterRegistry` | the state shared by triage and verifiers, as operators on one entry |
| `TriageVerify` | composes the registry with triage, verifiers, the write-ahead log and the finding rows, over several runs |
| `MCTriageVerify` | the candidates and the relations between them |
| `TriageVerify_proofs` | theorems about `TriageVerify` |
| `Pipeline`, `MCPipeline` | one scan run: stages, channels, closing order, token pools, circuit breaker, repro overflow |
| `Pipeline_proofs` | theorems about `Pipeline` |
| `DaemonCycles`, `MCDaemonCycles` | poll, sweep and re-verification cycles over a repository that moves |
| `DaemonCycles_proofs` | theorems about `DaemonCycles` |
| `Schedule`, `MCSchedule` | the goroutine that runs the daemon's timers in deadline order |
| `Schedule_proofs` | theorems about `Schedule` |
| `ControlSocket`, `MCControlSocket` | clients, connections, requests and the dispatch queue |
| `ControlSocket_proofs` | theorems about `ControlSocket` |
| `Publisher`, `MCPublisher` | the publish reconciler between the store and the tracker |
| `Publisher_proofs` | theorems about `Publisher` |

How they fit together: `Schedule` says which cycle the daemon runs next and
`ControlSocket` what its goroutine does between two cycles. `DaemonCycles` is
the inside of the scan cycles, a whole scan being a sequence of finder units;
`Pipeline` is the inside of one scan, `TriageVerify` what its triage and verify
stages do to the store, `SlotPool` how its agents get slots, and `ReproQueue`
the attempts its repro hook, the backlog cycle and operators start.
`Publisher` runs after each cycle. Where one model abstracts another, the
coarser one allows every outcome the finer one has (a unit may claim or not, a
panel may confirm, refute or fail; a slot goes to any waiter).

Atomicity follows the code. One SQL statement (or one transaction) is one step:
the store has a single connection, and a second writing process is kept out by
the writer lock. One critical section, channel operation or choice of a
`select` is one step. Work that touches no shared state (an agent's
conversation, the sandbox) has no step, or one with a nondeterministic outcome.

### ReproQueue

| Model | Code |
|---|---|
| `state`, `count`, `exitZero` | columns of `repro_attempts`; "absent" is no row |
| `stale` | `updated_at` is older than `ReproStaleLeaseDuration`; every UPDATE clears it |
| `evidence` | what the finding row shows: `repro_path`, `repro_witness`, a witnessed fix, the prover's needs-human flag |
| `missing` | the toolchains this process's capability probe did not find |
| `proc` | the process: live context, cancelled context, gone |
| `pc`, `job` | the next statement of each concurrent `promoteOne` and its finding |
| `infra`, `lost`, `demo` | history of charged attempts and of the last outcome; no action reads them |
| `HookAdmit`, `HookSlot` / `BacklogPick` / `AttendedPick` | the in-run hook, the daemon's backlog, `bugbot repro <id>` |
| `Gate` ... `ProvePatch` | `promoteOne`, one action per statement |
| `ReclaimStale`, `ClaimReproAttempt`, `ReadBack` | the two UPDATEs and the SELECT of the store's `ClaimReproAttempt`, which are not in one transaction |
| `FailBeforeClaim`, `ReadBackFails`, `WriteLost` | a failing statement; after the attempt the errors of the detached writes are ignored |
| `Reopen`, `MarkReproAttemptUnsandboxed`, `LeaseExpires` | the row's other writers and time |
| `Interrupt`, `Exit`, `Crash`, `Restart` | the process |

The writes after the attempt run on a detached context with a limit of thirty
seconds, so an interrupt cannot fail them but the database can.

### SlotPool

| Model | Code |
|---|---|
| `free`, `queue` | `p.free`, `p.waitHigh`, `p.waitLow`, `p.waitIdle` |
| `chan` | the waiters whose buffered channel holds a token |
| `pc`, `target` | where each goroutine stands; whom a releaser is about to send to |
| `next`, `stopped` | what a fan-out has spawned; whether its context is cancelled |
| `Acquire`, `Receive`, `CtxDone`, `RemoveSelf`, `ReceiveOwed` | `slotPool.acquire`, split at its lock, its select and the cancelled branch |
| `Release`, `Send` | `slotPool.release`, split between unlock and send |
| `Spawn`, `Stop` | `spawn` and `spawnSerial`; `stop`, the final cancel of `wait`, the caller's context |

### TriageVerify and ClusterRegistry

| Model | Code |
|---|---|
| `wal` | `pending_candidates` in rowid order |
| `finding`, `suppressed` | rows of `findings` (status, tier, lenses, sites) and of `suppressions` |
| `candCh` | candidates on their way to triage, replayed ones first |
| `tri`, `seen`, `member` | the triage goroutine: its next statement, and its maps of fingerprints and clusters |
| `reg` | the cluster registry; each operator of `ClusterRegistry` is one method under its mutex |
| `ver` | per primary, its verifier: `runVerifyAndPersist` one statement at a time |
| `result`, `errored` | `allFindings`, the run's first error |
| `walled`, `heir`, `fate` | history: written-ahead candidates, the candidate each stands with, what became of it in a scan; no guard reads them |
| `StartRun` | a scan replays the write-ahead rows; a re-verification replays the open tier-3 findings |
| `Take...` and the steps up to `RegisterPrimary` | `triageState.process` and the functions it calls, in their order |
| `Report`, `Abort`, `Crash` | the end of `Funnel.run`; a cancelled run is a crash, as every later statement fails on its context |
| `Command` | `report dismiss`, publish's back-sync, the daemon's auto-close |

A candidate stands for its own location. Whether two descriptions look alike,
lie within the line window, or match the root-cause rules (those that consult
code navigation included) is data: the constant relations `Alike`, `Near` and
`RootCause` decide. `Item` is honest about what a conversion loses: a
write-ahead row and a stored finding have neither defect kind nor subject, so a
replayed candidate has a fingerprint of its own. What a re-verification judges
is a stored finding, not a claim: its items have no write-ahead row, and its
verdicts change no claim's history.

### Pipeline

| Model | Code |
|---|---|
| `at` | the goroutines of `runPipeline`: hypothesize, triage, the dispatcher (`main`), the repro consumer |
| `job` | one goroutine per finder unit, panel and repro worker |
| `chan`, `closed`, `overflow` | `candCh`, `verCh`, the repro queue's channel and its overflow slice |
| `spent`, `paid` | the budget's pools; what each stage's completions cost |
| `breaker`, `errs`, `cancelled` | the finder breaker, each stage's error, the run's context |
| `Acquire`, `GiveUp`, `Ask`, `Answer` | a slot, the cancelled wait, the gate before a completion, its charge |
| `Replay`, `Launch` ... `CloseCandidates`, `Unit...` | `runPipeline`'s producer and `hypothesize` with its units |
| `TakeCandidate` ... `TriageEnds` | the triage consumer, its dedup arbiter and its drain after a failure |
| `Dispatch`, `Panel...`, `Enqueue` | the verify dispatcher, a panel's outcomes, the non-blocking send to the repro queue. The code records both as `orphaned_budget`, the fates keep apart: `orphaned`, the shared pool is used up; `capped`, a seat reached the limit of its own run |
| `Consume`, `CloseRepro`, `WorkersJoin`, `AttemptNext`, `Return` | the repro consumer, the order of joins and closes, `drainOverflow`, the classification of the result |

### DaemonCycles

| Model | Code |
|---|---|
| `hist`, `tree` | commits and the commit the working tree is at; with a remote the tree lags the tip the poller sees |
| `lastSeen` | the watermark in `daemon_state` |
| `row`, `suppressed` | `findings` (status, content hash) and `suppressions`; a fingerprint is a path and a claim |
| `covered`, `mark` | `file_state`: scan times as an order, content hashes |
| `pc` and the range, scan and visit variables | the daemon's goroutine and its locals |
| `PollStart` ... `Targeted` | `runPoll`, one action per statement: the watermark first, the two diffs of its range, either of which may fail, then renames, the day's budget, the scan of a blast radius (any set that holds the changed files: what depends on what is data) |
| `SweepStart`, `FinderUnit`, `ScanEnds`, `ScanFails`, `RefreshContentHashes` | `runSweep`, the sweep's order, its units and stamps, `refreshWatermarks` |
| `ApplyRename` | `RenameFindingIdentity`: one transaction, rolled back on a collision |
| `ListFindings`, `Reverify`, `Judge`, `Anchor` | `reverifyOpenFindings`, split at the hash, the panel and the upsert |
| `Commit`, `Pull`, `Dismiss`, `Crash`, `Restart` | developers, who edit, create, delete, rename and bring old contents back (`Reverted`), the clone, the operator, the process |

### Schedule

`deadline`, `fired`, `idle` are the locals of `Daemon.Run`; `Arm` is the choice
of `earliest`, `StartCycle` ... `EndCycle` the fired timer's cycle and its new
deadline, `Interrupt`/`Resume` a control job, `Stop` the cancelled context,
`Tick` the clock. A deadline is set from the end of the cycle, never from the
deadline before.

### ControlSocket

| Model | Code |
|---|---|
| `at`, `jobs`, `job` | the scheduler's goroutine; `dispatchCh`; the job it runs |
| `call`, `handler`, `reply`, `outcome` | a client's `Dispatch`, the server's goroutine for it, the job's reply channel |
| `client`, `server`, `writer`, `outbox` | both ends of a connection, its writer, its bounded outbox |
| `Call`, `GiveUp`, `ClientDisconnects`, `ReadLoopEnds` | `client.go` |
| `Receive`, `Refuse`, `Enqueue`, `TakeReply`, `SubmitCancelled`, `SendReply` | a request's handler; a wrong version, an unknown verb and a daemon that takes none are answered with an error at once; a reply that finds the outbox full is dropped |
| `Broadcast`, `Deliver`, `ReaderEnds`, `WriterEnds`, `Release` | the hub and a connection's goroutines |
| `CycleStarts` ... `RunStops`, `Cancel`, `ServerCloses` | the select of `Daemon.Run`, shutdown |

### Publisher

| Model | Code |
|---|---|
| `finding`, `newer` | the findings' status and tier; which were written after their published row (`UpdatedAt` compared) |
| `row` | `published_issues`: state, key; `pushed` and `labelled` say whether the recorded body hash and labels are those the finding asks for |
| `issue` | the tracker; `marker` is the fingerprint in the body, `last` who closed or reopened it |
| `pc`, `back`, `plan`, `cur`, `minted` | `runPublish`: its next statement, rows to backsync, the plan, the action at hand, the key of the issue it just made or found |
| `disabled` | the latch of `storePublisher` |
| `StartRun` ... `BacksyncRow` | the closed-issues listing and backsync |
| `Plan` | `planPublish` |
| `Tombstone`, `EnsureLabels`, `CreateIssue`, `Record`, `RecordLabels` | a create; a recover enters at `Search`, a vanished issue at `DropStale` |
| `Adopt`, `PushBody`, `ReopenIssue`, `CommentRegression`, `ReconcileLabels`, `CloseComment` ... `ForgetRow` | the other actions, one step per statement or call |
| `ActionFails`, `Abort`, `Stop` | `applyErr` (the action is skipped, or the run ends), and a crash or failed statement |
| `HumanClose`, `Vanish`, `Find` ... `Regress` | people at the tracker; scans and operators |

A call that is not idempotent or changes an issue may be carried out and yet
reported as failed. The store has one writing process (`store.Open` takes its
lock) and the daemon publishes on its own goroutine, so findings change only
between runs, people act at any time.

## 3. What the runs check

| Run | Instance | Shows |
|---|---|---|
| `ReproQueue_claims` | 1 finding, 2 workers, budget 3, 3 faults, 1 interrupt, 1 reopen | claims are exclusive, the budget is exact, nothing demonstrated is burned, and each row follows `ReproLifecycle` |
| `ReproQueue_drain` | 2 findings (one needs-human, one witness-only), 1 worker, budget 2, 2 faults | every queued finding the backlog accepts is settled, shows evidence, waits for a toolchain or is the orphan of section 4 |
| `SlotPool` | 2 slots, five units of three classes, one serial batch of three | conservation, hand-over, everyone joins, and the pool implements `PrioritySemaphore` (so no slot idles while someone waits and the most urgent is served first) |
| `TriageVerify` | 3 candidates, one unfit, one found in every run; 2 runs, 1 crash, 1 failed statement, 1 operator command | no written-ahead claim is lost; a dismissed bug is neither reopened nor put before a panel; a clean scan leaves no write-ahead row |
| `TriageVerify_race` | 4 candidates of three lenses, a duplicate, one alike, one of the same root cause; 1 run | corroboration reaches the row before, between and after the drains and the signal; the returned findings equal the stored ones |
| `Pipeline` | 2 finder units, 1 replayed candidate, 2 slots, buffers of 1, pools of 1, breaker at 1 | closing order, honest results, the verify reserve, the overshoot bound, and the run returns |
| `DaemonCycles` | 2 paths, 2 commits, a remote, 1 crash, failed statement or skipped cycle, 1 dismissal | an anchor is a content a panel judged or its file has lost; a dismissal keeps its suppression through renames; every version is scanned; findings follow the code |
| `Schedule` | 3 timers with intervals 3, 2, 1, clock to 7 | a due timer is overtaken at most once by each other one |
| `ControlSocket` | 1 connection, 2 requests, queue and outbox of 1, 1 event | "ok" means run; calls return; clients are forgotten; shutdown ends |
| `Publisher` | 2 findings taken for one bug, 4 issues, 4 changes, 1 crash, 1 failed call | no second issue, an undisturbed run mirrors, and both sides agree in the end |
| `ReproQueue_orphan`, `Publisher_backsync` | as `ReproQueue_claims`, `Publisher` | section 4 |

The states are those of a few actors, but they are the actors that can meet:
two claimers are enough for every race on one row (a third only repeats the
second), three attempts separate "first", "middle" and "last"; a serial batch
of three against an urgent and an idle unit makes the queue of every class non
empty while slots are short; a cluster needs a primary and a member before and
one after the signal; a replay needs two runs. In `Pipeline` the code's buffers
of 64, 64 and 16 and its breaker threshold, at least 3, are scaled to 1, so
that every channel fills, the repro queue overflows and the breaker trips; two
slots make finders and panels compete. In `DaemonCycles` two paths give a
rename and a collision with a row at the new path; two commits, an edit before
and one after a hash is taken. A queue and an outbox of one in `ControlSocket`
are full as soon as a second request comes. Two findings in `Publisher` can
adopt each other's issue; four changes are enough to publish, fix, regress and
close by hand. Counters of faults, crashes, interrupts, reopened rows, runs,
commands, commits, changes, events and ticks are bounded by the constants
`Max...`; no run uses symmetry or a state constraint. `TriageVerify`,
`Pipeline`, `ControlSocket`, `Schedule` and `Publisher` run without deadlock
checking, because there the system really stops: the bounded runs are over, the
run returned, the daemon was told to stop, the publisher latched itself off.
`SlotPool` stutters only when all units are done, so a deadlock there would be
found.

Fairness. `ReproQueue`: weak fairness of a worker's steps (a statement or an
attempt ends, well or not), of lease expiry, exit and restart (the daemon runs
under a service manager); strong fairness of `BacklogPick`, because the backlog
timer fires for ever and each firing pushes the batch it tried to the back of
`OpenBacklog`'s oldest-first order (`daemon/backlog.go:120-126`), which makes
the batch rotate over all eligible findings. The hook and the operator owe
nothing. `SlotPool`: weak fairness of each spawned goroutine, whose body ends
because agents run under turn, time and token limits; `Spawn` and `Stop` owe
nothing, so cancellation may come at any time or never. `Pipeline`: a run is a
finite amount of work, so weak fairness of "some goroutine moves" is enough;
cancellation owes nothing. `DaemonCycles`: weak fairness of restart and of a
cycle's steps, strong fairness of `SweepStart`, because the sweep's timer comes
up again and again, which is what `Schedule` shows; commits and dismissals owe
nothing. `ControlSocket`: weak fairness of handlers, connections, reading
clients and the running job; strong fairness of the cases of the scheduler's
select, which Go chooses at random among the ready ones. `Publisher`: weak
fairness of a run's steps, the first of which starts a run: the daemon publishes
after every cycle.

## 4. Where the code and its documentation disagree

Each is a run whose property states the documentation; TLC finds a behaviour of
the code that violates it.

- `ReproQueue_orphan`: "this timeout bounds the permanent-loss window"
  (`store/repro_queue.go:118-121`). Both the reclaim and the backlog's filter
  require `attempt_count` below the maximum, so a row whose last attempt
  crashed stays `running` for ever.
- `Publisher_backsync`: a backsync action is "a published row whose tracker
  issue closed without our involvement" (`cli/publish.go:1072-1073`), for which
  the finding is dismissed as closed by hand. The code infers this from a row
  that is open or closing while its issue is closed, and bugbot's own close
  leaves just that when the run stops between `CloseIssue` and the upsert of
  "closed" (or the call was carried out and reported failed). If the finding
  regresses before the next run, that run dismisses and suppresses it. The same
  happens to a finding that adopted the issue of another one, when that one is
  fixed and its issue closed.

## 5. Seen while modelling, without a run of its own

- *Interrupted read-back.* The claim's UPDATE commits, then
  `GetReproAttempt` fails on the cancelled context (`store/repro_queue.go:188`);
  `promoteOne` returns before the detached writes that release an interrupted
  claim (`repro/promote.go:290-308`). The row stays running, with an attempt
  charged, until its lease ends. The model has it as `ReadBackFails`.
- *Contradicted reproductions.* A promoted finding is never "simultaneously
  Tier<=1 (reproduced) and repro-contradicted"
  (`store/repro_contradiction.go:78-83`). `bugbot repro --rerun` attempts a
  promoted finding again (`engine/repro.go:585`), and two exit-zero outcomes
  contradict it.
- *Kinds.* "Never fold across kinds" (`funnel/triage_streaming.go:628-632`).
  The findings the verifier writes carry no kind (`verify_stream.go:420-446`,
  `522-538`), and an empty kind matches every other, so a stored finding
  absorbs a candidate of another kind.
- *Identity over a replay.* A replayed claim has another fingerprint than the
  fresh one (`funnel/run_replay.go:12-18`), so a crash between upsert and row
  deletion gives one claim two rows.
- *Sites of a re-verified finding.* `Sites` records
  "every code location this finding represents" (`domain/finding.go:151`), but
  the primary built from a tier-3 row starts with
  its own site (`funnel/triage_streaming.go:565`) and its upsert overwrites the
  others.
- *Renames and dismissals.* Renames are applied so that a suppressed finding
  does not resurrect "as open" at the next scan (`daemon/rename.go:32-36`), but
  only by the poll cycle: a sweep that starts after the rename and before the
  poll stores the dismissed claim again, open, under its new path; the poll's
  rewrite then collides with that row and is rolled back (`daemon/cycle.go:99`).
- *Shadowed duplicates.* A duplicate of a candidate that had itself been merged
  or folded stages its lens and site under its own fingerprint,
  which has no cluster and no row (`funnel/triage_streaming.go:383-413`): both
  are dropped. `CorroborationReachesRow` excludes exactly these, as `Shadowed`.
- *Collision on replay.* Two claims of different kinds at one locus get the same
  fingerprint when replayed, as the write-ahead row holds no kind
  (`store/pending.go:14-16`, `funnel/run_replay.go:17-18`): the second becomes a
  duplicate and gets no verdict.
- *Members over a crash.* A member's write-ahead row is deleted when it is
  merged (`funnel/triage_streaming.go:749-752`); until the primary is stored,
  its lens and site are only in memory. `ClaimNeverLost` claims that the
  primary's claim survives, not the corroboration.
- *Result copy after a durable fold.* A candidate folded into a row this run
  stored changes the row, not the copy in `Result.Findings`
  (`funnel/run_pipeline.go:608-614`, `funnel/triage_streaming.go:697`).
  `ResultMatchesStore` excludes these, as `FoldedThisRun`.
- *Lost ranges.* The watermark moves before its range is handled
  (`daemon/cycle.go:67`). What a crashed or skipped cycle should have scanned
  the sweep finds; the renames of that range are never applied, and
  re-verification closes the findings at the old paths. With a remote, renames
  are applied and targets marked from the tip while the local tree may lack it.
- *Hashes of unscanned files.* `refreshWatermarks` stores the hash of every
  file, changed ones that were not scanned included, so they lose their
  precedence in the next sweep's order; their age still brings them up.
- *Anchors over a revert.* "Every finding records the commit_sha and file_hash
  of the code it was found in" (`store/store.go:12-13`). A scan stores the hash it
  took when it began (`funnel/verify_stream.go:433`), but its panels read the tree
  as it is when they run. After a pull during the scan the finding is anchored to
  a content nobody judged, and if a later commit brings that content back,
  re-verification leaves it alone. `AnchorWasJudged` excepts exactly this, as
  `Displaced`. Re-verification has the same window between hash and panel
  (`daemon/postcycle.go:221`).
- *The first sweep.* `Sweep` records its runs as one-shot scans
  (`funnel/run.go:98`), so `hasSweepRun` never finds one, and each restart
  sweeps at once.
- *A panel on a file that is gone* may still confirm and anchor the finding to
  the hash read before.
- *Control socket.* `Listen` removes the path of another daemon's socket against
  its comment (`control/server.go:65-68`); handlers use the server's context, so
  the job of a client that left still runs; a client that does not drain
  `Frames()` blocks its own replies (`control/client.go:159-163`).
- *Backoff.* `daemon/run.go:281-283` says the extra delay is a multiple of the
  poll interval; the code multiplies `IdleBackoff`.
- *Half-recorded reopen.* A reopen that is carried out but not recorded, followed
  by a fix, leaves an issue open whose row says closed, and no run closes it:
  the tombstones of `publish.go:319-324` do not cover reopening. `Mirrored`
  excludes it, as `HalfReopened`.
- *Vanished issues.* The row of a deleted issue is dropped and a new issue
  created without a tombstone (`publish.go:591-603`): after a crash between the
  two the next run files the finding again. `NoDuplicateIssue` claims nothing
  once an issue is gone.
- *Similar newcomers.* Anchors are chosen when the plan is made, so two similar
  new findings of one run get an issue each.
- *Closed while pending.* A finding closed while its create was pending keeps
  its issue open (documented, `publish.go:1049-1051`).
- *Closed by hand, then fixed.* When a person closes an issue and the finding is
  fixed before the next run, its row is closed and nothing dismissed; if the
  bug regresses, bugbot reopens what the person closed (against
  `publish.go:176-179`).

## 6. What is proved

TLAPS checks these theorems for every value of the constants that satisfies the
assumption its module states:

| Module | Assumes |
|---|---|
| `ReproQueue` | budgets and bounds are numbers, the finding sets are sets of findings; no finiteness |
| `SlotPool` | there is a slot; a fan-out's units are its own and come in a sequence without repetition |
| `TriageVerify` | finitely many candidates, and bounds that are numbers; nothing of the relations `Near`, `Alike` and `RootCause` but that they relate sets of candidates |
| `Pipeline` | finitely many units, each finding what no other finds; limits, buffers and prices are positive |
| `DaemonCycles` | finitely many paths, and bounds that are numbers |
| `Schedule` | positive intervals; ranks, backoff and bounds are numbers; no finiteness |
| `ControlSocket` | a request belongs to a connection; buffers have room for one |
| `Publisher` | finitely many findings, none of them the marker of no finding, and bounds that are numbers; nothing of the relation `Similar` |

Finiteness is what the code gives: candidates, findings, units and paths are
rows and files.

| Theorem | States | Argument |
|---|---|---|
| `ReproQueue_proofs!TypeCorrect` | `Spec => []TypeOK` | `TypeOK` is inductive. It is split into rows, workers and the rest; a lemma for each way to write a row or move a worker, then one for each group of actions |
| `LifecycleImplemented` | `Spec => RowsImplementLifecycle` | every step writes nothing or is one of seven writes to one row (`RowWrite`), each a step or a stutter of `ReproLifecycle`; besides the types it needs only that a running row was charged. Holds with late holders too |
| `ClaimsExclusive` | `~SlowAttempts`: `Spec => []ExclusiveClaim` | inductive strengthening `ClaimsInv`: an owner finds its row running *and its lease fresh* (without the latter the reclaim could take it), and owners of one row are equal |
| `BudgetExact` | `~SlowAttempts`: `Spec => []BudgetAccounting` | per finding, relative to `ClaimsInv`; a row never queued must have no history, or its first enqueue would break the account |
| `NothingBurned` | `~SlowAttempts`: `Spec => []NoBurnedAttempt` | relative to `ClaimsInv`; an owner whose attempt demonstrated the bug is on the persisting path, and at `finish` the finding already shows it |
| `NoSlotLost`, `OneHandoffComing` | `Spec => []SlotConservation`, `Spec => []HandoffComing` | one invariant for both. A queue holds waiters of its class, once each, with no token coming (`QueuesOK`); tokens, sent or about to be, go to distinct goroutines that take them (`TokensOK`); every waiter is queued or has one coming. The count of slots follows by cardinalities |
| `PoolIsASemaphore` | `Spec => ImplementsSemaphore` | from the same invariant and that nobody waits while a slot is free (`NoneIdle`), every step of the pool is a step or a stutter of `PrioritySemaphore`; a slot changes owners when release dequeues a waiter, so sending it the token is a stutter |
| `TriageVerify_proofs!TypeCorrect` | `Spec => []TypeOK` | `TypeInv` adds what types alone cannot say: triage has an item while it works and a stored row where it folds, the log holds no row twice, and between runs nobody works |
| `SuppressedRowsStayClosed`, `NoPanelOnSuppressed` | `Spec => []SuppressedStayClosed`, `Spec => []InFlightUnsuppressed` | a run is either a scan or a re-verification, and so is every item in it (`KindedOK`); what triage is about to reopen or register is unsuppressed, and the candidate it folds has no verifier (`FoldingOK`); only the verifier of a re-verification dismisses (`FlightOK`) |
| `ClaimsAreNotLost` | `Spec => []ClaimNeverLost` | a candidate is *safe* while it has no row to lose, its row is there, or its fate is settled. Whatever an unsettled candidate stands with is safe (`HeirsOK`); that needs, of a scan, that each candidate is at one place (`DistinctOK`), that primaries of clusters are safe, and that nobody stands with a candidate whose row is about to go (`ScanOK`) |
| `CleanScansEmptyTheLog` | `Spec => CleanScanEmptiesWal` | until a statement fails, every row of the log is in the channel, in triage's hands or with a verifier that has yet to delete it (`LocatedOK`); when the run ends, those are empty |
| `ResultsMatchRows` | `Spec => []ResultMatchesStore` | two layers. `HandoffInv`: until a statement fails, the status of a registry entry says where its verifier is, nothing is late before the signal and nothing staged after it, and a written row holds its verifier's copy (`EntryOK`, `CopyOK`, `RowOK`). On it and on what triage has seen (`SeenOK`), `MirrorInv`: a late lens is in the row or on its way there, and a row nothing was folded into holds no more than its copy and the late attachments (`LateOK`, `KnownOK`) |
| `CorroborationIsKept` | `Spec => []CorroborationReachesRow` | each candidate that left the channel is being folded, is a shadowed duplicate, or *stands at* a primary: its site and lens are in the primary's claim, its verifier's copy, the registry's staging or the row, unless triage is just handing them over (`StandsAt`). No step takes anything out of the union of these places except a kill (`Keeps`). It needs that in the first run a primary stands for itself and nobody stands with a waiting candidate (`OwnOK`), and that a row is written by its verifier before anything is folded into it (`FreshOK`); when the run ends, only the row and the late sites, which the report writes, are left |
| `NeverSendsAfterClose` | `Spec => []NoSendAfterClose` | what each stage has joined when it ends (`JoinedInOrder`), and that a channel is closed exactly when its owner is past its join (`ClosedInOrder`) |
| `ReserveKept`, `OvershootBounded` | `Spec => []ReserveForVerify`, `Spec => []BoundedOvershoot` | a pool's spend *with a full price for each completion it awaits* stays within the bound (`DebtOK`); at most one completion per slot, and one for the arbiter, is awaited at a time |
| `RunReportsHonestly` | `Spec => []HonestResult` | unless something went wrong (`Trouble`), a found candidate is with an emitter, in a channel, in triage's hand or with a panel, a verified one in the repro queue, its overflow or with a worker (`Traced`); when the run returns all of these are empty |
| `DismissalsKept` | `Spec => []DismissalKeepsSuppression` | re-verification visits open findings, each once, and nobody else writes rows meanwhile (`OpenOK`); a rename moves a row and its suppression together or neither |
| `AnchorsWereJudged` | `Spec => []AnchorWasJudged` | the hashes of a scan or a visit come from a tree the working tree has been at (`HashesWereRead`); what the panel reads later is that content, or the file has lost it |
| `NoStarvation` | `Spec => []BoundedOvertaking` | a timer that overtakes a due one gets a later deadline than that one, so it is behind it until it runs. The invariant says that the goroutine waits for the earliest timer, that the one that runs has not been overtaken, and that whoever overtook a waiting timer is due after it |
| `NeverFiledTwice` | `Spec => []NoDuplicateIssue` | while no issue is deleted, an issue's marker leads back to it, through the row of its finding or because that row is pending and the search will find it (`Traced`), and a create is only called under a pending row when no issue bears the marker (`Tombstoned`). That rests on `MarkInv`: an issue is known by the row of its marker or by none, and what is about to be recorded bears the marker |
| `CleanRunsMirror` | `Spec => []CleanRunMirrors` | in a run where nothing failed, a finding's row is as the finding asks, or its action is planned or at hand (`RowsDone`), and a linked row's issue is open, gone, shared, closed by a person, or still to be backsynced (`IssuesOK`); the plan is empty when the run ends |
| `OkIsTrue` | `Spec => []OkMeansRan` | whatever of an "ok" is on its way, in the job's reply channel or with the handler, was put there by a verb that ran |
| `TypeCorrect` of the `_proofs` modules of `SlotPool`, `Pipeline`, `DaemonCycles`, `Schedule`, `ControlSocket`, `Publisher` | `Spec => []TypeOK` | inductive with small additions (`TypeInv`), such as that a busy scheduler has a job, that the breaker counts no more failures than units have ended, or that an action of the plan still applies to its row when its turn comes |

`~SlowAttempts` says that no attempt outlives the thirty minutes of
`ReproStaleLeaseDuration`; that is what the code assumes when it presumes the
holder of a stale lease dead, and nothing in it renews a lease. The claim is
not exclusive without it, and `LifecycleImplemented`, which allows late holders,
says what remains.

The invariants are layers: each is proved relative to those before it, with one
lemma per actor and one case per action, and the temporal step puts them
together.

What the proofs found about the models:

- `AnchorWasJudged` once said that every open finding's content was judged. It
  is false when a commit brings an old content back, which the model did not
  let happen; developers now revert, and the property says what the code does
  guarantee (section 5, *Anchors over a revert*).
- `ClaimNeverLost` is about scans, but its histories were also written by
  re-verifications, whose items are findings; they no longer are.
- It is not true that a seen, unsettled candidate belongs to a cluster: the
  duplicate of a dropped candidate does not. The invariant says instead with
  whom it stands.
- What a publish run's action knows of its row is weaker than it seems: after an
  adopted issue turns out gone, the row may have no key, or the key just made.
  `CurOK` says for each step what holds there.
- A fingerprint could have been the string that stands for "no marker"; the
  assumption of `Publisher` now excludes it.
- For `CorroborationReachesRow` an absent row must be empty, not only absent: the
  property looks at the candidate of every row. And it holds of a run that
  starts empty only; later, the upsert of a re-verified finding overwrites what
  its row had gathered (section 5, *Sites of a re-verified finding*).

Only model-checked: all liveness (`QueueDrains`, `UnitsJoin`, `RunReturns`,
`EveryVersionScanned`, `FindingsFollowCode`, `CallsReturn`, `ClientsForgotten`,
`ShutdownCompletes`, `CatchesUp`), since fairness is beyond the prover, and the
two properties of section 4, which the code violates. Every safety property of
the passing runs is a theorem.

## 7. Not modelled, and the plan

Prompts, parsing, rendering, sandbox internals, git and language queries are
data or pure functions for these models. Without a module of their own, with the
reason in `PROJECT.json`: the cartographer's refresh, the engine's owner lock
and heartbeat, the engine's verbs, the store's files (migration, backup,
recovery), language servers, parsers and miners, the command line and reports,
the terminal interface, identity hashing, the evaluation harness. Within the
modelled parts these are left out: the severity sweep and backlog
reconciliation, promoters that overwrite what was attached meanwhile
(`repro/promote.go:529`), superseding, the budget's single shared pool, the
daemon's day ledger and digest, the dead-hypotheses audit.

Next, most important first:

1. `FindingStore`: promoters that read a finding, work for minutes and upsert
   the copy, against lens, site and status writers; superseding.
2. `OwnerLock`: owner and observer modes, escalation, the heartbeat that
   resolves its run once (`engine/lock.go:69`).
3. Cartographer refresh, severity sweep to its fixpoint, language servers.

A dozen runs is the size this project keeps to, so that checking it stays a
matter of minutes: a new component takes the place of a run that a wider one
subsumes.

## 8. Running the checks

    tlc -workers 2 -config ReproQueue_claims.cfg MCReproQueue
    tlc -workers 2 -config Publisher.cfg MCPublisher
    tlapm ReproQueue_proofs.tla

and likewise for every run of section 3 (the module is `MC` and the part of the
run's name before the underscore) and every `_proofs` module. A run ends within
a minute or two, a proof module within a few minutes, the longest,
`TriageVerify_proofs`, in about a quarter of an hour.
