----------------------------- MODULE Projection -----------------------------
(***************************************************************************)
(* The projection of the task truth to Forgejo and Discord                 *)
(* (src/task_relay/projection and the projection queries of db/queries.py): *)
(* the Router commits projection_outbox rows, several ProjectionWorker      *)
(* processes claim them lane by lane, send them and mark them sent, and an  *)
(* operator may run projection-rebuild.  Each action is one transaction or  *)
(* one remote call; the processes interleave between them and may crash.    *)
(*                                                                         *)
(* A lane is (task, stream, target); the target is fixed by the other two.  *)
(* A row's payload is the task at its state_rev, so the remote shows a      *)
(* state_rev.  Time appears as two facts per row: whether next_attempt_at   *)
(* has passed and whether the claim is older than the stale-claim limit.    *)
(***************************************************************************)
EXTENDS Naturals, Sequences

CONSTANTS
  Task,
  Worker,
  Emission,     \* the sets of streams one transition emits rows for (Router!Rows)
  Received,     \* when the event of a task's n-th transition may have been received
  Outlives,     \* may a send last longer than projection_stale_claim_seconds?
  Forced,        \* is projection-rebuild run with --force?
  MaxRev,       \* bound on state_rev
  MaxFailures,  \* bound on failed sends
  MaxCrashes,   \* bound on worker crashes
  MaxRebuilds   \* bound on projection-rebuild runs

Stream == {"task_snapshot", "task_label_sync", "discord_alert"}

ASSUME ProjectionAssumption ==
  /\ Emission \subseteq SUBSET Stream
  /\ Received \in [1 .. MaxRev -> SUBSET Nat]
  /\ Outlives \in BOOLEAN
  /\ Forced \in BOOLEAN
  /\ {MaxRev, MaxFailures, MaxCrashes, MaxRebuilds} \subseteq Nat

VARIABLES
  rev,      \* state_rev of the tasks table
  outbox,   \* projection_outbox, indexed by outbox_id
  cursor,   \* projection_cursors.last_sent_state_rev of the snapshot lane, 0 for no row
  job,      \* what each worker is doing, and with which row
  shown,    \* the state_rev each remote lane shows
  rebuild,  \* per task, the state_rev a running projection-rebuild has read, or NoRead
  budget    \* failures, crashes and rebuilds so far

vars == <<rev, outbox, cursor, job, shown, rebuild, budget>>

-----------------------------------------------------------------------------
NoRow == 0
NoRead == 0

Row ==
  [ task: Task, stream: Stream, state_rev: Nat,
    status: {"waiting", "claimed", "sent", "deleted"},
    received: Nat,     \* received_at of the Router's event, from which it waits; 0 for a rebuild
    due: BOOLEAN,      \* next_attempt_at has passed
    stale: BOOLEAN,    \* claimed_at is older than the stale-claim limit
    attempts: Nat,     \* attempt_count
    by_rebuild: BOOLEAN,
    landed: BOOLEAN ]  \* history: the remote has applied it

NewRow(t, s, n, at, due) ==
  [ task |-> t, stream |-> s, state_rev |-> n, status |-> "waiting", received |-> at,
    due |-> due, stale |-> FALSE, attempts |-> 0, by_rebuild |-> due, landed |-> FALSE ]

RowIf(streams, s, t, n, at, due) ==
  IF s \in streams THEN <<NewRow(t, s, n, at, due)>> ELSE << >>

NewRows(streams, t, n, at, due) ==
  RowIf(streams, "task_snapshot", t, n, at, due)
    \o RowIf(streams, "task_label_sync", t, n, at, due)
    \o RowIf(streams, "discord_alert", t, n, at, due)

Job ==
  [at: {"idle", "claimed", "superseded", "sending", "delivered"}, row: Nat]

Idle == [at |-> "idle", row |-> NoRow]
Working(w) == job[w].at # "idle"

SameLane(r, o) == r.task = o.task /\ r.stream = o.stream

-----------------------------------------------------------------------------
Init ==
  /\ rev = [t \in Task |-> 0]
  /\ outbox = << >>
  /\ cursor = [t \in Task |-> 0]
  /\ job = [w \in Worker |-> Idle]
  /\ shown = [t \in Task |-> [s \in Stream |-> 0]]
  /\ rebuild = [t \in Task |-> NoRead]
  /\ budget = [failures |-> 0, crashes |-> 0, rebuilds |-> 0]

Spend(what) == budget' = [budget EXCEPT ![what] = @ + 1]

\* The Router commits a transition of t with its outbox rows.  Events are received by
\* several processes and reach the Router in any order.
Emit(t, streams) ==
  /\ rev[t] < MaxRev
  /\ rev' = [rev EXCEPT ![t] = @ + 1]
  /\ \E at \in Received[rev[t] + 1] :
       outbox' = outbox \o NewRows(streams, t, rev[t] + 1, at, FALSE)
  /\ UNCHANGED <<cursor, job, shown, rebuild, budget>>

\* Untried rows wait the same minute from received_at: o falls due no later than r.
WaitsNoLonger(o, r) == o.received <= r.received

\* next_attempt_at passes.  A backoff runs out at any time.
FallDue(i) ==
  /\ outbox[i].status = "waiting" /\ ~outbox[i].due
  /\ outbox[i].attempts = 0 =>
       \A k \in 1 .. i - 1 :
         /\ SameLane(outbox[k], outbox[i]) /\ WaitsNoLonger(outbox[k], outbox[i])
         /\ outbox[k].status = "waiting" /\ outbox[k].attempts = 0
         => outbox[k].due
  /\ outbox' = [outbox EXCEPT ![i].due = TRUE]
  /\ UNCHANGED <<rev, cursor, job, shown, rebuild, budget>>

\* A claim grows older than the limit.  The default limit is ten minutes
\* against an HTTP timeout of thirty seconds, so the claimant is gone, unless
\* Outlives.
GrowStale(i) ==
  /\ outbox[i].status = "claimed" /\ ~outbox[i].stale
  /\ Outlives \/ \A w \in Worker : job[w].row # i
  /\ outbox' = [outbox EXCEPT ![i].stale = TRUE]
  /\ UNCHANGED <<rev, cursor, job, shown, rebuild, budget>>

-----------------------------------------------------------------------------
(* ProjectionWorker.step *)

Goto(w, at, i) == job' = [job EXCEPT ![w] = [at |-> at, row |-> i]]

ReleasedEvenIfLive(r) ==
  IF r.status = "claimed" THEN [r EXCEPT !.status = "waiting", !.stale = FALSE] ELSE r

NeverReleased(r) == r

Released(r) ==
  IF r.status = "claimed" /\ r.stale
  THEN [r EXCEPT !.status = "waiting", !.stale = FALSE] ELSE r

\* First transaction: reclaim_stale_outbox.  A claim may grow stale between it
\* and the claim, so Claim does not require that nothing is left to reclaim.
Reclaim(w) ==
  /\ job[w].at = "idle"
  /\ outbox # [i \in DOMAIN outbox |-> Released(outbox[i])]
  /\ outbox' = [i \in DOMAIN outbox |-> Released(outbox[i])]
  /\ UNCHANGED <<rev, cursor, job, shown, rebuild, budget>>

\* What claim_next_outbox may take: due, unsent, unclaimed, no claim in its lane.
Claimable ==
  {i \in DOMAIN outbox :
     /\ outbox[i].status = "waiting" /\ outbox[i].due
     /\ \A k \in DOMAIN outbox :
          outbox[k].status = "claimed" => ~SameLane(outbox[k], outbox[i])}

NewestOf(i, ids) == i \in ids /\ \A k \in ids : k <= i

OldestOf(i, ids) == i \in ids /\ \A k \in ids : i <= k

\* Second transaction: claim_next_outbox, oldest outbox_id first.
Claim(w) ==
  /\ job[w].at = "idle"
  /\ \E i \in DOMAIN outbox :
       /\ OldestOf(i, Claimable)
       /\ outbox' = [outbox EXCEPT ![i].status = "claimed", ![i].stale = FALSE]
       /\ Goto(w, "claimed", i)
  /\ UNCHANGED <<rev, cursor, shown, rebuild, budget>>

NeverSuperseded(r) == FALSE

\* _is_superseded, a read outside any transaction.
Superseded(r) == r.stream = "task_snapshot" /\ cursor[r.task] >= r.state_rev

Check(w) ==
  /\ job[w].at = "claimed"
  /\ Goto(w, IF Superseded(outbox[job[w].row]) THEN "superseded" ELSE "sending", job[w].row)
  /\ UNCHANGED <<rev, outbox, cursor, shown, rebuild, budget>>

\* mark_outbox_sent: an UPDATE by outbox_id, of no effect on a deleted row.
SentRow(r) == IF r.status = "deleted" THEN r ELSE [r EXCEPT !.status = "sent"]

Drop(w) ==
  /\ job[w].at = "superseded"
  /\ outbox' = [outbox EXCEPT ![job[w].row] = SentRow(@)]
  /\ job' = [job EXCEPT ![w] = Idle]
  /\ UNCHANGED <<rev, cursor, shown, rebuild, budget>>

\* The remote applies the request of sink.send.
Land(w) ==
  /\ job[w].at = "sending"
  /\ LET r == outbox[job[w].row]
     IN  shown' = [shown EXCEPT ![r.task][r.stream] = r.state_rev]
  /\ outbox' = [outbox EXCEPT ![job[w].row].landed = TRUE]
  /\ Goto(w, "delivered", job[w].row)
  /\ UNCHANGED <<rev, cursor, rebuild, budget>>

\* The closing transaction: mark sent and, for a snapshot, move the cursor.
MarkSent(w) ==
  /\ job[w].at = "delivered"
  /\ LET r == outbox[job[w].row]
     IN  /\ outbox' = [outbox EXCEPT ![job[w].row] = SentRow(@)]
         /\ cursor' = IF r.stream = "task_snapshot"
                      THEN [cursor EXCEPT ![r.task] = r.state_rev] ELSE cursor
  /\ job' = [job EXCEPT ![w] = Idle]
  /\ UNCHANGED <<rev, shown, rebuild, budget>>

RescheduledCountingDown(r) ==
  [r EXCEPT !.due = FALSE, !.attempts = @ - 1, !.stale = FALSE, !.status = "waiting"]

RescheduledAsSent(r) == [SentRow(r) EXCEPT !.attempts = @ + 1]

\* reschedule_outbox.  It leaves sent_at alone.
Rescheduled(r) ==
  IF r.status = "deleted" THEN r
  ELSE [r EXCEPT !.due = FALSE, !.attempts = @ + 1, !.stale = FALSE,
                 !.status = IF @ = "sent" THEN "sent" ELSE "waiting"]

\* The send raises, because the request was not applied or its answer was lost,
\* and _handle_failure reschedules the row.  Reaching the retry limit only adds
\* a system_events row.
SendFails(w) ==
  /\ job[w].at \in {"sending", "delivered"}
  /\ budget.failures < MaxFailures
  /\ Spend("failures")
  /\ outbox' = [outbox EXCEPT ![job[w].row] = Rescheduled(@)]
  /\ job' = [job EXCEPT ![w] = Idle]
  /\ UNCHANGED <<rev, cursor, shown, rebuild>>

\* The process dies or a database error escapes step, and it starts again; the
\* claim stays behind.
Crash(w) ==
  /\ Working(w)
  /\ budget.crashes < MaxCrashes
  /\ Spend("crashes")
  /\ job' = [job EXCEPT ![w] = Idle]
  /\ UNCHANGED <<rev, outbox, cursor, shown, rebuild>>

Step(w) ==
  Reclaim(w) \/ Claim(w) \/ Check(w) \/ Drop(w) \/ Land(w) \/ MarkSent(w)

-----------------------------------------------------------------------------
(* rebuild_for_task: the task is read outside the transaction that writes *)

RebuildRead(t) ==
  /\ rebuild[t] = NoRead /\ rev[t] > 0
  /\ budget.rebuilds < MaxRebuilds
  /\ Spend("rebuilds")
  /\ rebuild' = [rebuild EXCEPT ![t] = rev[t]]
  /\ UNCHANGED <<rev, outbox, cursor, job, shown>>

Deleted(r, t) ==
  IF Forced /\ r.task = t /\ r.status \in {"waiting", "claimed"}
  THEN [r EXCEPT !.status = "deleted"] ELSE r

\* --force deletes the unsent rows of every stream; then a snapshot and a label
\* row for the state read are inserted, ON CONFLICT DO NOTHING.  The key of a snapshot
\* has its payload too, which names the latest plan: where a plan was inserted since the
\* transition there is no conflict.
RebuildWrite(t) ==
  /\ rebuild[t] # NoRead
  /\ LET kept    == [i \in DOMAIN outbox |-> Deleted(outbox[i], t)]
         held(s) == \E i \in DOMAIN kept :
                      /\ kept[i].task = t /\ kept[i].stream = s
                      /\ kept[i].state_rev = rebuild[t] /\ kept[i].status # "deleted"
         missing == {s \in {"task_snapshot", "task_label_sync"} : ~held(s)}
     IN  \E replanned \in {{}, {"task_snapshot"}} :
           outbox' = kept \o NewRows(missing \cup replanned, t, rebuild[t], 0, TRUE)
  /\ rebuild' = [rebuild EXCEPT ![t] = NoRead]
  /\ UNCHANGED <<rev, cursor, job, shown, budget>>

-----------------------------------------------------------------------------
Next ==
  \/ \E t \in Task, streams \in Emission : Emit(t, streams)
  \/ \E i \in DOMAIN outbox : FallDue(i) \/ GrowStale(i)
  \/ \E w \in Worker : Step(w) \/ SendFails(w) \/ Crash(w)
  \/ \E t \in Task : RebuildRead(t) \/ RebuildWrite(t)

Spec == Init /\ [][Next]_vars

\* The bound on outbox_id that FairSpec quantifies over.
MaxRows == 3 * MaxRev + 2 * MaxRebuilds

\* Every worker process keeps running and time passes.
Fairness ==
  /\ \A w \in Worker : WF_vars(Step(w))
  /\ \A i \in 1 .. MaxRows :
       WF_vars(i \in DOMAIN outbox /\ (FallDue(i) \/ GrowStale(i)))

FairSpec == Spec /\ Fairness
=============================================================================
