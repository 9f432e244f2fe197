# TLA+ models of task-relay

task-relay moves a task from a Forgejo issue through planning, implementation
and review by AI tools, under the commands of people in Forgejo, Discord and a
CLI. This directory models the parts of it where order, crashes and concurrent
processes matter, checks them with TLC on small instances, and proves the main
results with TLAPS for every value of the constants. Paths below are relative to
`src/task-relay/src/task_relay/`; `src/` is the repository.

    tlc -workers 2 -config MCRouter.cfg MCRouter      one run
    tlapm RouterProofs.tla                            one proof module

## 1. The system

Each box is a process; SQLite, the journal files and Redis are what they share.

    Forgejo webhook server --+                                 +-> projection worker(s) --> Forgejo
    Discord bot / gateway ---+-> journal files -> ingester ->  |        (projection_outbox)  Discord
    CLI commands ------------+   (one per day)   event_inbox -> Router -> tasks, outbox
    runner, reconcile -------+                                 |
         ^                                                     v
         +---- append ------ runner: dispatcher, stages <- tasks, plans, branch_waiters
                             |  heartbeat, observer threads
                             +--- Redis lease:branch:<branch>

| component | state | operations | hard behaviour |
|---|---|---|---|
| Router (`router/`) | `tasks`, `plans`, `event_inbox.processed_at`, `projection_outbox` | one transaction per inbox row: look up TRANSITIONS, write the row, its outbox rows and the mark; after the commit, `/unlock` and `/retry-system` handlers | events of five sources in any order, plans inserted meanwhile, flags that must survive many paths |
| Ingress and journal writers (`ingress/`, `journal/writer.py`) | Discord queue of 1024, open daily file | queue, append + fsync, answer | deadline against append, crash, midnight, redelivery |
| Ingester (`ingester/`, `journal/reader.py`) | `journal_ingester_state` | list files, read, insert + cursor in one transaction | crash between steps, files that grow or vanish during a step |
| Journal retention, replica | journal files, database copy | delete by age; restore | deletes without looking at the cursor; restore takes database and cursor back |
| Projection (`projection/worker.py`, `db/queries.py`) | `projection_outbox`, `projection_cursors` | reclaim, claim, check, send, mark, reschedule | several workers, lost answers, crashes after the send, stale claims, backoff |
| projection-rebuild (`projection/rebuild.py`) | outbox | read the task, then insert (and with `--force` delete) | read outside the transaction |
| Dispatcher (`runner/dispatcher.py`) | `branch_waiters`, `branch_tokens`, `plans`, handles in memory | take a token, acquire, append the attempt, mark the waiter; run a stage and append its result | crash between any two; leases are never released; the loop sees a task before its last result is applied, so stages run twice |
| Branch lease (`branch_lease/`) | one Redis key per branch | acquire, renew, assert, force-release; expiry | expiry while used, stale handles |
| Tool runner (`runner/tool_runner.py`, `worktree.py`, `git_safety.py`) | executor child, heartbeat and observer threads; worktree, feature branch | start, renew, watch the task, terminate, classify; make and record the worktree, push | threads race with each other and with the exit of the child; the worktree exists before the row knows it |
| Tool calls, logs and their retention (`runner/adapters/`, `log_writer.py`, `retention/log_retention.py`) | `tool_calls`, log files | open, insert, ask with retries, close, write the path; sweep by age, orphans, stale references | two nested retry loops; the sweep meets calls under way and either may die |
| `/unlock` (`runner/unlock_handler.py`) | waiters, lease | commit, delete the key, commit, append | three steps, crash in between |
| Reconcile (`reconcile/`) | none of its own | one `reconcile_resume` per implementing task | reports on a task that may be at work |
| Circuit breaker, `/retry-system` (`breaker/`, `runner/retry_system_handler.py`) | memory per process, `system_events` | record, open, reset, rebuild; a recovery for every degraded task | one breaker per process; memory and log are written one after the other |
| Rate windows, transports, Discord bot, status, mirror check, CLI | | | sequential, or reports |

What makes each correct is in section 4; `PROJECT.json` lists the hazards at their
lines with the properties that watch them.

## 2. Modules

| module | what it models | extended by |
|---|---|---|
| `Transitions` | the transition table without state: rows, events, guards, `Leads(t, p, e, to)` and what the `on_apply` handlers write | `Router`, `Dispatch`, `Breaker`, `Stages` |
| `Router` | `Router.run_once` over the inbox, creation, skips, plan insertion | `RouterProps`, `RouterProofs`, `MCRouter` |
| `EventPipe` | abstract: what is recorded is delivered, once; a restore takes back a tail | instantiated by `JournalProps` |
| `Journal` | writers, Discord gateway, daily files, ingester, sweep, replica | `JournalProps`, `JournalProofs`, `MCJournal` |
| `JournalFile` | `JournalWriter.append` down to zstd frames, buffer and fsync, for several threads and processes | `JournalFileProps`, `JournalFileProofs`, `MCJournalFile` |
| `Projection` | outbox, workers, remote, rebuild | `ProjectionProps`, `ProjectionProofs`, `MCProjection` |
| `FencedLease` | abstract: a lane is leased to one task at a time, with a token above all before | instantiated by `DispatchProps` |
| `Dispatch` | dispatcher, lease, executor child and its threads, `/unlock`, with the Router applying `Transitions!Leads` | `DispatchProps`, `DispatchProofs`, `MCDispatch` |
| `Stages` | the dispatcher's loop over planning, implementing and reviewing, plans, worktree, push, with results that lag | `StagesProps`, `StagesProofs`, `MCStages` |
| `Breaker` | the runner's circuit breaker, its log, `/retry-system` in the Router | `BreakerProps`, `BreakerProofs`, `MCBreaker` |
| `ToolCalls` | one call of a tool with its retries and its log, and `LogRetention.sweep` | `ToolCallsProps`, `ToolCallsProofs`, `MCToolCalls` |

`*Props` hold the properties, `*Proofs` the theorems, `MC*` the constants of the
runs. Operators named after a plausible mistake (`AutoApproveIgnoringCritical`,
`NeverReleased`, ...) stand before the definition they would replace; nothing uses
them but the mutation check of `PROJECT.json`, which shows that each property
notices the mistake.

**How the modules meet.** The Router's output rows (`Rows`) are the emissions of
`Projection` (`Emission`); `EventPipe` is what `Router` (`Arrive`), `Dispatch`, `Stages` and
`Breaker` (`Emit`) assume of the journal, which is why they have the inbox as a plain
queue. `Dispatch`, `Stages` and `Breaker` are three views of one runner with one
Router: each drives the same `Leads` that `Router` runs, and keeps the part of the
runner that its questions are about. `Dispatch` has leases, the executor's threads and
several tasks of a lane; `Stages` has what happens inside and between the stages of a
task; `Breaker` has their failures. The queue is first in, first out, while the Router
takes inbox rows by `event_id` (`db/queries.py:269`), which follows the order of
creation about, not that of insertion: what people and senders may add, they may add at
any place of either order, and `Router` takes one arbitrary event at a time. `JournalFile` opens up the steps `Write` and
`AppendFails` of `Journal`. `ToolCalls` is what one request to a tool is
inside a stage.

### Transitions and Router

`Leads` has one disjunct per TransitionKey, grouped by state; where a key has
several specs the first whose guard holds wins, which appears as IF or as exclusive
guards. `Bumped` is `bump_state` and `update_task_state`, `Rows` the `_insert_*`
calls of the handlers. An outbox row is identified by the parts of its idempotency
key, and the outbox is a set, as ON CONFLICT DO NOTHING makes it. `RunOnce` is the
whole transaction; a crash before the commit changes nothing and needs no action.
`InsertPlan` is the runner's planning stage, which commits plans in its own
transaction at any time. `sighted` is history: a person's `/approve` or `/retry`
since the task was last planned and last made critical. Payloads keep the fields
the guards read; titles, actors, branch names and times are left out.

### Journal

A delivery is its `(source, delivery_id)`. A writer is idle, has opened the day's
file (the day is taken then), or has written and fsynced and not yet answered. A
Forgejo writer appends at once and may be given the same id again; a Discord
gateway has the bounded queue and the deadline, which may strike a waiting request
(cancelled) or one whose append has just finished (refused and durable: the append
blocks the event loop). The ingester lists the files at the beginning of a step,
reads each listed file whole when it comes to it, and commits entry and cursor
together. `Tick` is midnight. `files` keeps the content of swept files as history;
only days in `present` can be read.

### JournalFile

`append` is `Begin` (the day is taken), `KeepFile` or `CloseFile` and `OpenFile`
(`_rotate_if_needed`), `Write`, `Flush`, `Sync`; between any two of them another thread
of the process or another process may take a step. `Raise` is every way out by an
exception other than a failed flush. `mishaps` is history: a file was closed under a
thread (`moved`), two threads met in a compressor (`mixed`), half a frame was written
(`cut`). `handle` is the process's open file with the buffer of `open("ab")`,
which keeps what a failed flush has left; the operating system has `files`, the disk a
beginning of each (`synced`). A frame is two pieces. `Readable` is `_iterate_file`,
which decompresses a file as a whole. What the libraries do is external: the
decompressor returns what it has at a truncated end and raises behind half a frame;
`ZstdCompressor` is not safe for several threads at a time; a power failure keeps at
least what fsync has written, and the directory entry of the file. Entries larger than
the buffer and the writer's own offset, which nobody reads, are left out.

### Projection

Each action is one transaction or one remote call: `Reclaim`, `Claim`, `Check`
(the supersession read), `Drop`, `Land` (the remote applies), `MarkSent`,
`SendFails` (before or after the remote applied it), `Crash`. Time is two facts per
row: `due` and `stale`. The Router's rows wait a minute from the `received_at` of
their event, which an ingress or runner process sets before it appends, so the rows of a
lane fall due in the order in which their events were received and not in that of their
ids: `Received` says when the event of a task's n-th transition may have been received,
and `WaitsNoLonger` compares two rows. A backoff ends at any time. A rebuild inserts the
rows that are missing; it may insert a second snapshot of a revision that has one, since
the key hashes the payload and a plan may have come since (`replanned`). A claim grows stale only when nobody
works on it, unless `Outlives` (the default limit is ten minutes against an HTTP
timeout of thirty seconds). A lane shows the `state_rev` of the last row applied.

### Dispatch

`TakeToken`, `Acquire`, `RecordAttempt`, `MarkLeased` are the four steps of
`TaskDispatcher.step`, with a possible crash after each; `StartStage`,
`StartExecutor`, `LeaseRefused` begin what `run_task` runs. While the child is
alive `Beat` is one turn of the heartbeat, `Observe` a turn of the state observer
that sees a watched state, `EndExecutor` the exit with any outcome the
classification allows. One `Tick` is `lease_renew_interval_seconds` and the lease
lives `TTL` of them. The `/unlock` handler is three steps of the Router process.
`child.lost` and `child.kept` are history. `RunsNext` allows any runnable task
where the code takes the one with the least `updated_at`: it over-approximates.
`Holder` and `Spent` map this to `FencedLease`: a lane's holder is what its key in Redis
names, whatever time is left to it, and a token is used up when the lease has been
asked for with it (the draw in SQLite comes first and is visible to nobody but
the dispatcher).

### Stages

`runner` is the place of `run_forever`: `Runs(t)` is the choice of the task, then a
stage is a start, a commit (`InsertPlan`, `MakeWorktree`, `RecordWorktree`, `Push`) and
an append, with a possible crash after each. The Router's step is `RouteTask`; between
the append and it the loop runs the stage again, which is what this module is about.
`repo` keeps what the row and the disk know of the worktree: `made` is a worktree that
the row does not name, because the runner died in between or because the Router's
transition to implementing wrote NULL over it (`Dispatched`). The runner then fails in
`git worktree add -b` and `Dies`, at every start. `Summary` is what `summarize_review`
makes of a review and `UncheckedCount` what the Router's guard makes of that. A
timeout event leads where `DefaultEvent` leads and is not told apart. The history
`found` and `current` of a pass, `approved` and `pushed` serve the properties.

### Breaker

`failures` are those that the runner's memory or the log has: `known` says whether it is in
the memory, `row` what has become of it in `system_events`, so that the two can be
compared, and `nr` tells it from others of the same code and age. `Open` is by the memory
and closes the way to `StepDispatches`; `OpenInLog` is by the log, as `status` shows it.
`StageFails`, `LogFailure`, `ReportFailure` are `record` and the append after it.
`RouteRetrySystem`, `LogReset`, `CheckHealth`, `AppendRecovered` are the Router's
handler, after its commit. The Router's own buckets are read by nobody and left out.
Ages are ticks of the window; failures leave it by `Tick`.

### ToolCalls

The runner opens the log, inserts the row, asks, closes and hashes, writes the path.
`Fail` is a turn of `AdapterBase.call`, `TimeOut` a turn of the loop around it; a
sweep is the eight steps of `LogRetention.sweep`, each a SELECT, a transaction or an
unlink. Ages are the three that the sweep tells apart. `overlapped` is history.

## 3. Runs

"V" runs are expected to find a violation: they check what a document says, and
each has an entry under "findings" with the line.

| run | shows | bounds | states |
|---|---|---|---|
| `router` | completion seen, degradation recoverable, gates, labels, rows | one task, plan revisions 2, one unprocessed event | 37 000 |
| `journal` | nothing acknowledged is lost; once, in order; refines `EventPipe`; everything durable arrives | two writers, a redelivered and a Discord event, three days, 2 entries a file, one crash or restore, retention of one day | 576 000 |
| `journal_midnight` V | an append across midnight is lost | `Straddle` | |
| `journal_file` | what `append` has returned for is on the disk and can be read, but for the named mishaps | a process with two threads and one with one, three events (symmetric), two days, a full disk, one fault | 635 000 |
| `projection` | lanes exclusive, sent is shown, acknowledged stands, all sent in the end | two workers, two revisions received in either order, one row each, a failure, a crash, a rebuild | 482 000 |
| `dispatch` | stale tokens, fencing, renewal, waiters; refines `FencedLease` | two tasks in a lane, TTL 3, two mishaps or `/retry` orders | 1 030 000 |
| `dispatch_live` | a queued approved task is dispatched | same, one order or mishap of any kind | 260 000 |
| `breaker` | a restart does not close the breaker; nothing is dispatched while the log shows it open; recoveries arrive | one task, one code, threshold 2, window of one tick, three recent failures, two crashes | 665 000 |
| `stages` | verdicts are of the present work and pushed; plans; no task stays in its stages | one task, plan revisions 3, two orders, one crash, two events in the inbox | 165 000 |
| `stages_plan` V | the executor is given a plan that nobody approved | no order, no crash | |
| `stages_review` V | a pass with unchecked criteria completes the task | no order, no crash | |
| `toolcalls` | requests are bounded; references go before files; logs settle | two calls, one crash | 206 000 |

Why the bounds are enough.

* *One task in Router.* `run_once` reads and writes rows of one task only, so tasks
  do not interact there. `TruthView` merges states that differ only in `state_rev`
  and in outbox rows that no longer decide the projected labels: no guard reads
  them, so their futures are the same. With the view the state space is finite by
  itself: with `MaxRev` 20 every reachable combination of state, flags, plan,
  pending event and projected labels is reached, and a larger bound adds none.
  One pending event suffices because events are handled one by one, and any event
  may arrive at any moment.
* *Journal.* Every hazard needs at most two processes on two files; the third day is
  there so that a file can be swept that both positions have passed.
  `Straddle = FALSE` in `journal` is the assumption under which the code is right;
  `journal_midnight` drops it. The guard of `Tick` assumes that the ingester and
  the replica lag less than the retention time (30 days in the code), which nothing
  in the code checks.
* *JournalFile.* Damage needs an entry that is acknowledged, one that damages and one
  that goes on behind it: three events. Two days are one rotation, and threads of two
  processes are all that can meet. Without the premises of its
  properties the run finds each of the three mishaps at fault.
* *Projection.* A lane needs two rows for an overtaking and two workers for a race;
  lanes meet only in `Claimable`, so alerts, which are worked like labels, are left
  out of `Emission`. Each transition of the run writes a snapshot or a label row, and a
  rebuild the other; with transitions that write both as well the safety properties were
  checked once (3.2 million states). The second event is received before the first or
  after it. `projection` runs without `Forced`.
* *Dispatch.* Two tasks in one lane contend for it. TTL 3 is the default: 30 s
  against 10 s. `MaxToken` 2 lets tokens be burnt on a held lease. The
  only order of `dispatch` is `/retry`, which brings a task back to an executor that
  may still hold its old handle; `dispatch_live` has all orders, one in all.
  `MishapView` merges states that differ only in which mishaps they have had: guards
  read how many there were, invariants whether there were any and whether one was
  an `/unlock`. `dispatch_live` uses no view. Plans pass `auto_approve_ok` and the circuit
  breaker is closed.
* *Stages.* The runner works on one task at a time and waits only for itself, so the
  other tasks are a delay. Two events in the inbox are a result and its repetition,
  or a result and an order; a third plan revision is one that was begun before the
  second was approved. The worktree that a second dispatch loses just before a pass
  needs one more; `MaxInbox` is 1 in the runs (the runner adds one to that), and with 2
  the properties were checked once (725 000 states with two plans, two orders and a crash, 419 000 with
  three plans and no crash). The theorem covers every bound.
* *Breaker.* The threshold is 3 in the code and 2 here: what matters is one failure
  less than it and the last one missing from the log. Three failures of one code are
  one more than the threshold. Codes only meet in the handler; two of them
  were checked once, with as many failures and one crash (1.6 million states). A window of one tick lets the
  failures of a bucket leave it together or one by one. The code's window is ten
  minutes, and any number of steps fits in one tick. Two crashes let a runner rebuild from what
  one before it, and a handler of the Router that died, have left.
* *ToolCalls.* A call and another that is older, younger or deleted meanwhile; rows
  do not interact otherwise. Calls are not repeated, so the second call may be the
  first one's successor after a crash.

**Deadlock** is checked in `toolcalls`, where the timer starts the next sweep. The
other models are bounded by budgets, journals and days and stop.

**Fairness.** Only what the deployment keeps running is fair: the ingester's step, each
projection worker's step and the Router's loop (`run_forever` under units with
`Restart=` in `deploy/systemd`), the daily sweep (a timer), the threads of a live
child, and time. The runner's loop is fair too, with the ends of its stages (each has
a timeout), but that a runner which has died is started again is an assumption:
`deploy/` has no unit for it. Nothing is assumed of people, senders, crashes or
failures, nor, in `Journal`, of the sweep. `ProjectionCatchesUp` is about the time after failures and
crashes stop, since their number is bounded. `Breaker` assumes only the Router's loop.

## 4. Properties

Router: `NoUnseenCompletion`, `DegradedIsRecoverable`, `GateLoweredOnlyOnCompletion`,
`RecoveryRequeues`, `NoRowSwallowed`, `NoLabelMissing`.

Journal: `AckedNeverLost`, `InboxIsBehindCursor`, `InboxInJournalOrder`,
`CursorAdvances`, `ImplementsPipe`, `DurableReachesInbox`.

JournalFile: `AckedIsSynced`, `AckedIsReadable`. The first holds until a thread rotates
the writer under another one, at midnight, or closes it; the second besides until two
threads meet in `compress` or half a frame is written. Within a day, and whatever is
torn, full or killed, an acknowledged entry is on the disk.

Projection: `OneInFlight`, `SentIsShown`, `OvertakenForCause`,
`AcknowledgedSnapshotStands`, `ProjectionCatchesUp`. Lanes are not in order: a row that has
failed is passed while it backs off, and so is a row whose event was received after that of
a later row (section 6). `OvertakenForCause` is that nothing else lets a row pass, no
crash, no stale claim and no race of two workers.

Dispatch: `LeaseOutranks`, `HeartbeatFences`, `OnlyUnlockTakesIt`, `QueueIsLive`,
`ImplementsFencedLease`, `QueuedIsDispatched`. The last has an exception worth knowing: `/unlock` requeues the
head of the lane even when its task is done or cancelled, and such a waiter blocks the
lane for good (`Blocked`).

Stages: `PassIsOfThisWork`, `PlanIsNextToApproved`, `StagesEnd`. A pass applied is of the
executor's last run, and its work is pushed, unless a second dispatch has taken
`worktree_path` from the row: then the push is skipped and the task passes all the
same (section 6). The exceptions of
`StagesEnd` are states in which the code has no way on (`Barren`): the runner raises
for want of a plan (`/retry` before any plan leads to implementing), of a
`lease_branch`, or of a worktree path that a crash or a second dispatch has lost; and
`infra_fatal` in reviewing has no transition, so that it is skipped.
`ExecutesApprovedPlan` and `PassIsChecked` are what the documents say and the code
does not keep.

Breaker: `RestartKeepsBreaker`, `OpenInLogStopsDispatch`, `RetriedIsRecovered`. A crash
costs the breaker at most the one failure whose row was not yet written, and so opens the
way only when that failure was the one that reached the threshold. What the log shows as
open, and `status` to the operator, is open in the runner. The other way round it is not
so: a breaker that `/retry-system` has reset in the log stays open in the runner until its
window ends or the runner restarts. That an open breaker closes by age is what the code
does and no property here, since the design wants a reset (section 6). A Router that dies
during the handler loses the recoveries still to be appended.

ToolCalls: `RequestsBounded`, `DanglingOnlyByOverlap`, `LogsSettle`. A sweep that meets
a call deletes its log, since no row refers to it before the call ends; the runner then
raises in `LogWriter.close`, or writes a path to nothing, which the next sweep clears.

## 5. Proofs

All theorems are `Spec => ...` for arbitrary constants that satisfy the named
ASSUMEs, with no bound on tasks, workers, days, entries or faults.

* **Router** (`RouterProofs`, from `RouterAssumption`). One inductive invariant,
  `Inv`, carries all of it. `NoUnseenCompletion` alone is not inductive: a review
  pass would complete whatever critical task is in `reviewing`. `GatedOrSighted`
  strengthens it to every state past approval: a critical task there has its gate
  raised or was seen. Degradation leaves those states and recovery returns to them,
  so it covers degraded tasks that resume into `implementing` too (`Committed`), and
  `Recoverable` says where a task can resume. `DoneIsUngated` closes the gate half.
  `NoRowSwallowed` needs `RowsBounded`, no outbox row has a `state_rev` above its
  task's: then `NextRev` makes every new row new. `NoLabelMissingHolds` (`LabelsInv`)
  says of all label rows what the property says of the newest: one is the newest, and it
  shows what the state asks for, since a transition that writes none leaves nothing
  more to show.
* **Journal** (`JournalProofs`, from `JournalAssumption`). `JournalImplementsPipe` is
  the refinement: each step is a `Record`, a `Deliver`, a `Rewind` or a stutter. It
  needs `Provenance`: what the ingester has in memory was read from the journal, and
  the replica's inbox is a beginning of the database's. It does not need `Straddle = FALSE`: lateness loses events but invents none.
* **What the journal delivers** (`JournalProofs`). Also for any `Straddle`,
  `OrderInv`: what the ingester has read begins its file, its position is not behind
  the cursor (`ReadAhead`), and every delivery of an inbox, the database's or the
  replica's, has an entry behind its cursor (`Sourced`). That is
  `InboxIsBehindCursorHolds` and `CursorAdvancesHolds`. From `OnTime`
  (`Straddle = FALSE`), `DeliveryInv`: an open file is today's (`Opened`), so writes go
  behind every entry there is and ahead of every cursor; what is behind a cursor is in
  its inbox and what is not is in a file that a sweep keeps (`Good`); and a file that
  the ingester's step passes over, because it was not listed or lies before its
  present one, has been delivered (`StepIsSound`). `AckedNeverLostHolds` follows;
  `InboxInJournalOrderHolds` is then inductive, since a new delivery has no entry
  behind the cursor and each older one has.
* **The journal's files** (`JournalFileProofs`, from `JournalFileAssumption`).
  `AckedIsSynced` says nothing of the way to the disk, so `Held` follows the entry:
  while a thread is past its rotation its process has an open file, and its entry is in
  the buffer or the file, after the flush in the file. A thread's step carries that for
  the other threads of its process (`Carries`: what a flush takes from the buffer is in
  the file, what a failed one leaves is still in the buffer), unless it moves the file.
  `AckedIsReadableHolds` adds that without mishaps every file and buffer is a sequence
  of whole frames (`Tidy`), which a cut between frames keeps on both sides. The types of
  `JournalFile` are proved (`TypeCorrect`) and in no run.
* **Projection** (`ProjectionProofs`, from `ProjectionAssumption` and, beyond types,
  from `Disciplined`: no send outlives the stale-claim limit and no rebuild is
  forced). Whoever works on a row holds a fresh claim on it (`ClaimsHeld`),
  which no reclaim releases, and a claim bars its lane: `OneInFlight`. So what a
  worker has read stays true while it works (`Phases`): a snapshot it sends is above
  the cursor, one it drops is not. With `CursorIsShown` and `SentIsSettled` this
  gives `SentIsShown` and `AcknowledgedSnapshotStands`. `OvertakenForCauseHolds`
  (`OrderInv`), for events received in any order (any `Received`), compares every two rows
  of a lane of which the older one waits no longer: behind it, if it was never tried, a row
  of the Router is waiting, untried and falls due no earlier, and what is claimed is
  due (`ClaimedIsDue`); the older row is then the one `Claim` takes.
* **Dispatch** (`DispatchProofs`, from `DispatchAssumption`). `LeaseOutranksHolds`
  (`TokenInv`): leases and handles are at most `last_token`, the token under way is
  the newest and above every handle of its lane, and the lease it has won is its
  own. `HeartbeatFencesHolds` (`FenceInv`): a child that lost its lease cannot win
  it back, and the intervals it has been without are at most the missed renewals,
  plus one while the heartbeat's turn is still to come. `OnlyUnlockTakesItHolds`
  assumes `TTL > 1`, which holds of the default (30 s against 10 s) and which `config.py`
  does not check: until an `/unlock` is asked for none is under way (`NoUnlockInv`), and
  a renewed lease has a full TTL after the heartbeat's turn and one interval less before
  it (`KeptInv`). `QueueIsLiveHolds` (`QuietInv`): left alone, the inbox
  holds nothing that moves a queued task (`Harmless`), but for the attempt that
  `step` has appended and goes on to mark. `FencedLeaseImplemented` is the
  refinement, step by step (`StepFences`): a draw is hidden (`DrawIsHidden`), an acquire
  is a `Grant` or a `Burn` (`AcquireFences`), a crash between them burns
  (`CrashFences`), and time, `/unlock` and a renewal only release or stutter. It needs
  `TokenInv`: the token under way is the newest. `TokensGrow` is what it is for: no
  lane is leased with a token that is not above all before.
* **Stages** (`StagesProofs`, from `StagesAssumption`). `PlanIsNextToApprovedHolds`
  (`PlanInv`) strengthens it to where the newest plan can be: equal to the approved one
  while a planning run that had begun before the approval is still to insert, at most
  one above afterwards (`NewestIsNext`). No run begins after the approval, because
  nothing is approved in planning or in a degradation that returns to it
  (`NoneApproved`). `NewestRuns` carries that to the executor's plan. For
  `PassIsOfThisWorkHolds` (`ReviewInv`) the results on their way are in order: while a
  task is in review the waiting verdicts are of its present work, and elsewhere no
  verdict waits behind the executor's end that would bring it to review
  (`ResultsInOrder`); a task in reviewing has run (`HasRun`) and came there by no
  recovery (`NoReviewTarget`), and a current pass in the inbox or about to be appended
  is pushed, or its worktree is lost to the row (`PassesArePushed`).
* **ToolCalls** (`ToolCallsProofs`, from `ToolCallsAssumption`). `RequestsBoundedHolds`
  (`CountInv`) counts requests by attempts and timeouts. `DanglingOnlyByOverlapHolds`
  (`FileInv`): what the sweep is about to unlink for its age is referred to by no row
  any more (`OldAreOver`), what it takes for an orphan is one or belongs to a call it has
  met (`OrphansOrOverlapped`), and a row gets its path only after the file was closed
  (`LateReferences`, `ClosedInv`).

* **Breaker** (`BreakerProofs`, from `BreakerAssumption`). `RestartKeepsBreakerHolds` is
  about one step, the start of the runner, but what it finds in memory and log comes
  from many: `LogInv` says that failures differ in number and that at most one is without
  its row, of the stage the runner records or died recording, and that what the runner
  does not know has been reset. The buckets are finite
  (`FinitelyMany`), so a rebuild that leaves out nothing else takes one away at most
  (`RestartTakesOne`). `OpenInLogStopsDispatchHolds` follows from `LogInv` too: what is
  open in the log is a part of the bucket (`LogIsKnown`). The types are proved (`TypeCorrect`) and in no run.

Model-checked only: liveness and everything under fairness, which is out of reach of the
prover, like ENABLED: `ProjectionCatchesUp`, `QueuedIsDispatched`, `DurableReachesInbox`,
`RetriedIsRecovered`, `StagesEnd`, `LogsSettle`. Every other
property of the passing runs is a theorem. The runs marked V refute.

## 6. Not modelled, and disagreements without a run

Not modelled: rate windows (written, read by nobody in the control), the content of
requests and answers of the adapters and the transports' command lines (any result is
possible), authorisation and parsing of commands,
malformed payloads, the executor child that outlives a crashed runner, two runner
processes, a restore of the database under a running dispatcher. Read-only reports and deployment have no state. `enqueue_waiter` and
`cleanup_worktree` have no caller in `src/`: the first is an operator's action in the
models, the second never happens.

Where reading the code for the models showed something else than a document says, and
no run is spent on it (documents relative to `src/`):

* `router/transitions.py:331`: `/retry` out of `human_review_required` writes no label
  row, so the label stays; `detailed-design-v1.0.md:857` has it synchronised.
* `ingress/discord_gateway.py:65`: a command whose deadline passes during its append is
  refused and durable; `detailed-design-v1.0.md:223` says it is not accepted.
* `db/queries.py:345`: a row in backoff is overtaken and applied last, for labels and
  alerts too; `detailed-design-v1.0.md:870` says rows go in `outbox_id` order. No failure
  is needed: `next_attempt_at` is the event's `received_at` plus the initial delay
  (`router/transitions.py:68`), so an event that was received earlier and routed later has
  the newer row and the earlier time, and the older labels are shown last.
* `breaker/circuit_breaker.py:120`: failures leave the buckets by age, and `is_open` is
  false once too few are left, so an open breaker closes by itself after ten minutes;
  `basic-design-v1.0.md:392` has it reset by hand and no half-open by time.
* `router/transitions.py:226`: a second dispatch, whose payload has neither, writes NULL
  over `feature_branch` and `worktree_path`; `detailed-design-v1.0.md:105` says they stay
  in `tasks` for a restart or a reconcile (`Dispatched` in `Stages`). When that happens
  during a review that passes, `runner/tool_runner.py:438` finds no worktree, skips
  the push, and the task leaves review on work that only the local worktree has
  (`PassIsOfThisWork` names the exception).
* `journal/writer.py:39`: after a power failure a file can end in half a frame, which
  `_existing_offset` accepts; the next append goes behind it, and `_iterate_file` raises
  for the whole file, with every event in it that was acknowledged and is not yet in the
  inbox. `runner/tool_runner.py:668`: the heartbeat thread shares the writer with the
  loop; a rotation between one's write and its fsync has the wrong file synced, and two
  in `compress` may write what is no frame. `basic-design-v1.0.md:37` makes append and
  fsync the condition of the ACK, `basic-design-v1.0.md:526` says that what was ACKed is
  never lost.
* `ingester/journal_ingester.py:36`: without a row in `journal_ingester_state` the
  ingester starts at the first file; `docs/reference/failure-injection.md:103` has it
  replay from `max(event_inbox.journal_offset)`. The result is the same, since the
  inbox holds each delivery once.
* `projection/rebuild.py:75`: `--force` deletes rows newer than the task it read;
  `detailed-design-v1.0.md:909` says the newest truth is regenerated.
* `runner/tool_runner.py:438`: the push looks at no lease;
  `docs/reference/failure-injection.md:70` says it is not started without one.
* `router/transitions.py:349`: a recovered task that was implementing is plan_approved
  with a waiter that stays leased; `docs/reference/state-machine.md:105` says it is
  enqueued again.
* `runner/retry_system_handler.py:33`: only the Router's breaker is reset;
  `docs/reference/runbook.md:179` and `detailed-design-v1.0.md:827` call the reset global.
* `retention/log_retention.py:92`: the log of a running call is an orphan to the sweep;
  `detailed-design-v1.0.md:740` and `752` keep full logs for 30 days and allow sweeps at
  any time.

## 7. Plan

Done: `Transitions`, `Router`; `EventPipe`, `Journal`, `JournalFile`; `Projection`; `Dispatch`;
`FencedLease`; `Stages`; `Breaker`; `ToolCalls`; with their properties, runs, and the theorems above.
Next, in this order:

1. Proofs: what `/retry-system` may do while other commands move the same tasks, as an
   action property; that a lane whose child lives and renews is held by nobody
   else, from `FencedLease`.
2. *Relay*: Router and Projection composed, so that the issue body, the labels and
   the alerts follow the task truth (`Rows` as `Emit`, payloads instead of revisions).
3. *Dispatch*, extended: two runner processes, the orphaned child, two lanes, and a
   restore that takes `branch_tokens` back.
4. *Journal*, extended: parse errors, and the ingester that stops at a damaged file.
