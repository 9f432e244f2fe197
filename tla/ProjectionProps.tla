--------------------------- MODULE ProjectionProps ---------------------------
(***************************************************************************)
(* What the projection promises to whoever reads Forgejo and Discord.      *)
(***************************************************************************)
EXTENDS Projection

\* Every variable keeps the type of its table.
TypeOK ==
  /\ rev \in [Task -> Nat]
  /\ outbox \in Seq(Row)
  /\ cursor \in [Task -> Nat]
  /\ job \in [Worker -> Job]
  /\ \A w \in Worker : Working(w) => job[w].row \in DOMAIN outbox
  /\ shown \in [Task -> [Stream -> Nat]]
  /\ rebuild \in [Task -> Nat]
  /\ budget \in [failures: Nat, crashes: Nat, rebuilds: Nat]

\* At most one worker is at work in a lane (detailed design 9.2): claims,
\* crashes, stale reclaims and reschedules together never let two workers send
\* for the same task and stream at once.
OneInFlight ==
  \A v, w \in Worker :
    Working(v) /\ Working(w) /\ SameLane(outbox[job[v].row], outbox[job[w].row]) => v = w

\* Nothing is marked sent without being shown: a sent row was applied by the
\* remote, or it is a snapshot and the remote already shows a state_rev at
\* least as new (_is_superseded, mark_outbox_sent).
SentIsShown ==
  \A i \in DOMAIN outbox :
    LET r == outbox[i]
    IN  r.status = "sent" =>
          \/ r.landed
          \/ r.stream = "task_snapshot" /\ shown[r.task]["task_snapshot"] >= r.state_rev

\* Once a snapshot is acknowledged, the issue body never shows an older state
\* again and the cursor never moves back, although failed rows are retried after
\* newer ones and crashed sends are repeated.  (Before the acknowledgement it may
\* go back: a snapshot applied with its answer lost waits for its retry while an
\* older row is sent.)
AcknowledgedSnapshotStands ==
  [][\A t \in Task :
       cursor'[t] >= cursor[t] /\ shown'[t]["task_snapshot"] >= cursor[t]]_vars

\* Among the Router's rows of a lane, a newer row is applied before an older one only
\* after a send of the older one has failed, or if the newer one's event was received
\* earlier, so that its row waited less: neither a crash, a reclaim nor a second worker
\* reorders a lane.
OvertakenForCause ==
  \A k, i \in DOMAIN outbox :
    /\ k < i /\ SameLane(outbox[k], outbox[i])
    /\ ~outbox[k].by_rebuild /\ ~outbox[i].by_rebuild
    /\ outbox[i].landed /\ outbox[k].status \in {"waiting", "claimed"}
    => outbox[k].attempts > 0 \/ outbox[i].received < outbox[k].received

NewestSnapshot(t) ==
  {0} \cup {outbox[i].state_rev : i \in {k \in DOMAIN outbox :
              outbox[k].task = t /\ outbox[k].stream = "task_snapshot"}}

\* Every row is eventually sent and Forgejo ends up showing the newest
\* snapshot, once sends stop failing and workers stop crashing.
ProjectionCatchesUp ==
  <>[](/\ \A i \in DOMAIN outbox : outbox[i].status = "sent"
       /\ \A t \in Task : \A n \in NewestSnapshot(t) : n <= shown[t]["task_snapshot"])
=============================================================================
