-------------------------- MODULE ProjectionProofs --------------------------
(***************************************************************************)
(* Proofs about the projection for any tasks, workers, emissions and       *)
(* bounds.  Types hold unconditionally.  The delivery guarantees hold when *)
(* no send outlives its claim and projection-rebuild runs without --force. *)
(***************************************************************************)
EXTENDS ProjectionProps, SequenceTheorems, TLAPS

\* Whoever works on a row holds its claim, and the claim is fresh.
ClaimsHeld ==
  \A w \in Worker : Working(w) =>
    outbox[job[w].row].status = "claimed" /\ ~outbox[job[w].row].stale

\* What a worker in a phase may rely on about its row r.
PhaseInv(at, r) ==
  /\ at = "superseded" => r.stream = "task_snapshot" /\ cursor[r.task] >= r.state_rev
  /\ at \in {"sending", "delivered"} /\ r.stream = "task_snapshot" =>
       r.state_rev > cursor[r.task]
  /\ at = "delivered" => r.landed
  /\ at = "delivered" /\ r.stream = "task_snapshot" =>
       shown[r.task]["task_snapshot"] = r.state_rev

Phases == \A w \in Worker : Working(w) => PhaseInv(job[w].at, outbox[job[w].row])

\* The cursor only counts what the remote shows.
CursorIsShown == \A t \in Task : cursor[t] <= shown[t]["task_snapshot"]

Settled(r) ==
  r.status = "sent" =>
    \/ r.landed
    \/ r.stream = "task_snapshot" /\ cursor[r.task] >= r.state_rev

SentIsSettled == \A i \in DOMAIN outbox : Settled(outbox[i])

Inv ==
  /\ TypeOK
  /\ ClaimsHeld /\ OneInFlight
  /\ Phases /\ CursorIsShown /\ SentIsSettled

-----------------------------------------------------------------------------
(* Types *)

LEMMA NewRowType ==
  ASSUME NEW t \in Task, NEW s \in Stream, NEW n \in Nat, NEW at \in Nat,
         NEW due \in BOOLEAN
  PROVE  NewRow(t, s, n, at, due) \in Row /\ NewRow(t, s, n, at, due).status = "waiting"
BY DEF NewRow, Row

\* The event of a transition was received at some moment.
LEMMA EmittedAt ==
  ASSUME TypeOK, NEW t \in Task, NEW streams, Emit(t, streams)
  PROVE  \E at \in Nat : outbox' = outbox \o NewRows(streams, t, rev[t] + 1, at, FALSE)
<1>1. rev[t] + 1 \in 1 .. MaxRev
  BY ProjectionAssumption DEF TypeOK, Emit
<1>2. Received[rev[t] + 1] \subseteq Nat
  BY <1>1, ProjectionAssumption
<1> QED
  BY <1>2 DEF Emit

\* The rows an insert adds are typed and waiting.
LEMMA NewRowsType ==
  ASSUME NEW streams, NEW t \in Task, NEW n \in Nat, NEW at \in Nat,
         NEW due \in BOOLEAN
  PROVE  /\ NewRows(streams, t, n, at, due) \in Seq(Row)
         /\ \A i \in DOMAIN NewRows(streams, t, n, at, due) :
              NewRows(streams, t, n, at, due)[i].status = "waiting"
<1> DEFINE Waiting == {r \in Row : r.status = "waiting"}
<1>1. ASSUME NEW s \in Stream PROVE RowIf(streams, s, t, n, at, due) \in Seq(Waiting)
  <2>1. NewRow(t, s, n, at, due) \in Waiting
    BY NewRowType
  <2>2. <<NewRow(t, s, n, at, due)>> \in Seq(Waiting) /\ << >> \in Seq(Waiting)
    BY <2>1
  <2> QED
    BY <2>2 DEF RowIf
<1>2. NewRows(streams, t, n, at, due) \in Seq(Waiting)
  <2>1. {"task_snapshot", "task_label_sync", "discord_alert"} \subseteq Stream
    BY DEF Stream
  <2> HIDE DEF Waiting
  <2> QED
    BY <1>1, <2>1, ConcatProperties DEF NewRows
<1> QED
  BY <1>2

\* Appending rows keeps the old ones at their place.
LEMMA Appended ==
  ASSUME NEW a \in Seq(Row), NEW b \in Seq(Row)
  PROVE  /\ a \o b \in Seq(Row)
         /\ DOMAIN a \subseteq DOMAIN (a \o b)
         /\ \A i \in DOMAIN a : (a \o b)[i] = a[i]
         /\ \A i \in DOMAIN (a \o b) \ DOMAIN a :
              \E k \in DOMAIN b : (a \o b)[i] = b[k]
<1>1. /\ DOMAIN a = 1 .. Len(a) /\ DOMAIN b = 1 .. Len(b)
      /\ DOMAIN (a \o b) = 1 .. Len(a) + Len(b)
      /\ Len(a) \in Nat /\ Len(b) \in Nat
  BY ConcatProperties, LenProperties
<1>2. \A i \in 1 .. Len(a) + Len(b) : (a \o b)[i] = IF i <= Len(a) THEN a[i] ELSE b[i - Len(a)]
  BY ConcatProperties
<1>3. ASSUME NEW i \in DOMAIN (a \o b) \ DOMAIN a
      PROVE  \E k \in DOMAIN b : (a \o b)[i] = b[k]
  <2>1. i - Len(a) \in DOMAIN b /\ ~(i <= Len(a))
    BY <1>1
  <2> QED
    BY <1>1, <1>2, <2>1
<1> QED
  BY <1>1, <1>2, <1>3, ConcatProperties

\* Rewriting each row by a typed function keeps the table's type.
LEMMA RewriteType ==
  ASSUME NEW a \in Seq(Row), NEW F \in [DOMAIN a -> Row]
  PROVE  F \in Seq(Row) /\ DOMAIN F = DOMAIN a
BY LenProperties

LEMMA ExceptType ==
  ASSUME NEW a \in Seq(Row), NEW i \in DOMAIN a, NEW r \in Row
  PROVE  /\ [a EXCEPT ![i] = r] \in Seq(Row)
         /\ DOMAIN [a EXCEPT ![i] = r] = DOMAIN a
         /\ [a EXCEPT ![i] = r][i] = r
         /\ \A k \in DOMAIN a : k # i => [a EXCEPT ![i] = r][k] = a[k]
BY ExceptSeq

LEMMA InitInv == Init => Inv
<1> SUFFICES ASSUME Init PROVE Inv
  OBVIOUS
<1>1. outbox \in Seq(Row) /\ DOMAIN outbox = {}
  BY EmptySeq, LenProperties DEF Init
<1>2. \A w \in Worker : job[w] = Idle /\ Idle \in Job /\ ~Working(w)
  BY DEF Init, Idle, Job, Working, NoRow
<1>3. TypeOK
  BY <1>1, <1>2 DEF Init, TypeOK, Idle, Job, NoRow, NoRead
<1>4. ClaimsHeld /\ OneInFlight /\ Phases
  BY <1>2 DEF ClaimsHeld, OneInFlight, Phases
<1>6. CursorIsShown
  <2>1. "task_snapshot" \in Stream
    BY DEF Stream
  <2>2. \A t \in Task : cursor[t] = 0 /\ shown[t]["task_snapshot"] = 0
    BY <2>1 DEF Init
  <2>3. 0 <= 0
    OBVIOUS
  <2> QED
    BY <2>2, <2>3, Zenon DEF CursorIsShown
<1>7. SentIsSettled
  BY <1>1 DEF SentIsSettled
<1> QED
  BY <1>3, <1>4, <1>6, <1>7 DEF Inv

\* A row stays a row when time or a claim changes its flags.
LEMMA RowFlags ==
  ASSUME NEW r \in Row
  PROVE  /\ [r EXCEPT !.due = TRUE] \in Row
         /\ [r EXCEPT !.stale = TRUE] \in Row
         /\ [r EXCEPT !.status = "claimed", !.stale = FALSE] \in Row
<1>1. [r EXCEPT !.due = TRUE] \in Row
  BY DEF Row
<1>2. [r EXCEPT !.stale = TRUE] \in Row
  BY DEF Row
<1>3. [r EXCEPT !.status = "claimed", !.stale = FALSE] \in Row
  BY DEF Row
<1> QED
  BY <1>1, <1>2, <1>3

\* Two rows of one task, stream and revision.
SameRow(r, o) == r.task = o.task /\ r.stream = o.stream /\ r.state_rev = o.state_rev

\* The row-rewriting operators return rows, and keep what identifies a row.
LEMMA RowOperators ==
  ASSUME NEW r \in Row, NEW t
  PROVE  /\ Released(r) \in Row /\ SameRow(Released(r), r)
         /\ SentRow(r) \in Row /\ SameRow(SentRow(r), r)
         /\ Rescheduled(r) \in Row /\ SameRow(Rescheduled(r), r)
         /\ Deleted(r, t) \in Row /\ SameRow(Deleted(r, t), r)
<1>1. Released(r) \in Row /\ SameRow(Released(r), r)
  BY DEF Row, Released, SameRow
<1>2. SentRow(r) \in Row /\ SameRow(SentRow(r), r)
  BY DEF Row, SentRow, SameRow
<1>3. Rescheduled(r) \in Row /\ SameRow(Rescheduled(r), r)
  <2>1. CASE r.status = "deleted"
    BY <2>1 DEF Rescheduled, SameRow
  <2>2. CASE r.status # "deleted"
    <3> DEFINE st == IF r.status = "sent" THEN "sent" ELSE "waiting"
    <3>1. Rescheduled(r) = [r EXCEPT !.due = FALSE, !.attempts = r.attempts + 1,
                                     !.stale = FALSE, !.status = st]
      BY <2>2 DEF Rescheduled
    <3>2. st \in {"waiting", "claimed", "sent", "deleted"} /\ r.attempts + 1 \in Nat
      BY DEF Row
    <3> HIDE DEF st
    <3> QED
      BY <3>1, <3>2 DEF Row, SameRow
  <2> QED
    BY <2>1, <2>2
<1>4. Deleted(r, t) \in Row /\ SameRow(Deleted(r, t), r)
  BY DEF Row, Deleted, SameRow
<1> QED
  BY <1>1, <1>2, <1>3, <1>4

\* A step that rewrites row i alone.
LEMMA RowUpdate ==
  ASSUME TypeOK, NEW i \in DOMAIN outbox, NEW r \in Row,
         outbox' = [outbox EXCEPT ![i] = r]
  PROVE  /\ outbox' \in Seq(Row) /\ DOMAIN outbox' = DOMAIN outbox
         /\ outbox'[i] = r /\ \A k \in DOMAIN outbox : k # i => outbox'[k] = outbox[k]
BY ExceptType DEF TypeOK

\* Every row of the table is typed.
LEMMA AnyRow ==
  ASSUME TypeOK, NEW i \in DOMAIN outbox
  PROVE  /\ outbox[i] \in Row /\ outbox[i].task \in Task
         /\ outbox[i].stream \in Stream /\ outbox[i].state_rev \in Nat
<1>1. outbox[i] \in Row
  BY LenProperties DEF TypeOK
<1> QED
  BY <1>1 DEF Row

\* The row of a working worker.
LEMMA JobRow ==
  ASSUME TypeOK, NEW w \in Worker, Working(w)
  PROVE  /\ job[w].row \in DOMAIN outbox
         /\ outbox[job[w].row] \in Row
         /\ outbox[job[w].row].task \in Task
         /\ outbox[job[w].row].stream \in Stream
         /\ outbox[job[w].row].state_rev \in Nat
<1>1. job[w].row \in DOMAIN outbox /\ outbox \in Seq(Row)
  BY DEF TypeOK
<1>2. outbox[job[w].row] \in Row
  BY <1>1, LenProperties
<1> QED
  BY <1>1, <1>2 DEF Row

\* Moving one worker to an existing row, or to none, keeps job typed.
LEMMA GotoType ==
  ASSUME TypeOK, NEW w \in Worker,
         DOMAIN outbox \subseteq DOMAIN outbox',
         NEW j \in Job, j.at # "idle" => j.row \in DOMAIN outbox',
         job' = [job EXCEPT ![w] = j]
  PROVE  /\ job' \in [Worker -> Job]
         /\ \A v \in Worker : Working(v)' => job'[v].row \in DOMAIN outbox'
BY DEF TypeOK, Working

\* The type invariant is inductive by itself, one step per action.
LEMMA TypeStep == TypeOK /\ [Next]_vars => TypeOK'
<1> SUFFICES ASSUME TypeOK, [Next]_vars PROVE TypeOK'
  OBVIOUS
<1> USE DEF TypeOK
<1>a. Idle \in Job /\ Idle.at = "idle" /\ NoRead \in Nat
  BY DEF Idle, Job, NoRow, NoRead
<1>b. \A i \in DOMAIN outbox : outbox[i] \in Row /\ i \in Nat
  BY LenProperties
<1>c. ASSUME NEW what \in {"failures", "crashes", "rebuilds"}, Spend(what)
      PROVE  budget' \in [failures: Nat, crashes: Nat, rebuilds: Nat]
  BY <1>c DEF Spend
<1>1. ASSUME NEW t \in Task, NEW streams \in Emission, Emit(t, streams) PROVE TypeOK'
  <2>0. PICK at \in Nat : outbox' = outbox \o NewRows(streams, t, rev[t] + 1, at, FALSE)
    BY <1>1, EmittedAt
  <2> DEFINE new == NewRows(streams, t, rev[t] + 1, at, FALSE)
  <2>1. rev[t] + 1 \in Nat /\ FALSE \in BOOLEAN
    OBVIOUS
  <2>2. new \in Seq(Row)
    BY <2>1, NewRowsType
  <2>3. outbox' = outbox \o new
    BY <2>0
  <2> HIDE DEF new
  <2>4. outbox' \in Seq(Row) /\ DOMAIN outbox \subseteq DOMAIN outbox'
    BY <2>2, <2>3, Appended
  <2>5. rev' \in [Task -> Nat]
    BY <1>1, <2>1 DEF Emit
  <2> QED
    BY <1>1, <2>4, <2>5 DEF Emit, Working
<1>2. ASSUME NEW i \in DOMAIN outbox, FallDue(i) \/ GrowStale(i) PROVE TypeOK'
  <2>1. PICK r \in Row : outbox' = [outbox EXCEPT ![i] = r]
    <3>1. CASE FallDue(i)
      <4>1. [outbox[i] EXCEPT !.due = TRUE] \in Row
        BY <1>b, RowFlags
      <4> QED
        BY <3>1, <4>1 DEF FallDue
    <3>2. CASE GrowStale(i)
      <4>1. [outbox[i] EXCEPT !.stale = TRUE] \in Row
        BY <1>b, RowFlags
      <4> QED
        BY <3>2, <4>1 DEF GrowStale
    <3> QED
      BY <1>2, <3>1, <3>2
  <2>2. outbox' \in Seq(Row) /\ DOMAIN outbox' = DOMAIN outbox
    BY <2>1, RowUpdate
  <2> QED
    BY <1>2, <2>2 DEF FallDue, GrowStale, Working
<1>3. ASSUME NEW w \in Worker, Reclaim(w) PROVE TypeOK'
  <2>1. \A i \in DOMAIN outbox : Released(outbox[i]) \in Row
    BY <1>b, RowOperators
  <2>2. outbox' \in [DOMAIN outbox -> Row]
    BY <1>3, <2>1 DEF Reclaim
  <2>3. outbox' \in Seq(Row) /\ DOMAIN outbox' = DOMAIN outbox
    BY <2>2, RewriteType
  <2> QED
    BY <1>3, <2>3 DEF Reclaim, Working
<1>4. ASSUME NEW w \in Worker, Claim(w) PROVE TypeOK'
  <2>1. PICK i \in DOMAIN outbox :
          /\ outbox' = [outbox EXCEPT ![i] = [outbox[i] EXCEPT !.status = "claimed", !.stale = FALSE]]
          /\ job' = [job EXCEPT ![w] = [at |-> "claimed", row |-> i]]
    BY <1>4 DEF Claim, Goto
  <2>2. [at |-> "claimed", row |-> i] \in Job
    BY <1>b DEF Job
  <2>3. [outbox[i] EXCEPT !.status = "claimed", !.stale = FALSE] \in Row
    BY <1>b, RowFlags
  <2>4. outbox' \in Seq(Row) /\ DOMAIN outbox' = DOMAIN outbox
    BY <2>1, <2>3, RowUpdate
  <2>5. /\ job' \in [Worker -> Job]
        /\ \A v \in Worker : Working(v)' => job'[v].row \in DOMAIN outbox'
    BY <2>1, <2>2, <2>4, GotoType
  <2> QED
    BY <1>4, <2>4, <2>5 DEF Claim
<1>5. ASSUME NEW w \in Worker, Working(w), Check(w) PROVE TypeOK'
  <2> DEFINE j == [at |-> IF Superseded(outbox[job[w].row]) THEN "superseded" ELSE "sending",
                   row |-> job[w].row]
  <2>1. j \in Job /\ j.row \in DOMAIN outbox
    BY <1>5 DEF Job, Working
  <2>2. job' = [job EXCEPT ![w] = j] /\ outbox' = outbox
    BY <1>5 DEF Check, Goto
  <2> HIDE DEF j
  <2>3. /\ job' \in [Worker -> Job]
        /\ \A v \in Worker : Working(v)' => job'[v].row \in DOMAIN outbox'
    BY <2>1, <2>2, GotoType
  <2> QED
    BY <1>5, <2>2, <2>3 DEF Check
<1>6. ASSUME NEW w \in Worker, Working(w), Land(w) PROVE TypeOK'
  <2> DEFINE i == job[w].row
             j == [at |-> "delivered", row |-> i]
  <2>1. i \in DOMAIN outbox /\ outbox[i].task \in Task /\ outbox[i].stream \in Stream
          /\ outbox[i].state_rev \in Nat /\ outbox[i] \in Row
    BY <1>6, JobRow
  <2>2. [outbox[i] EXCEPT !.landed = TRUE] \in Row
    BY <2>1 DEF Row
  <2>3. outbox' = [outbox EXCEPT ![i] = [outbox[i] EXCEPT !.landed = TRUE]]
    BY <1>6 DEF Land
  <2>4. outbox' \in Seq(Row) /\ DOMAIN outbox' = DOMAIN outbox
    BY <2>1, <2>2, <2>3, RowUpdate
  <2>5. j \in Job /\ j.row \in DOMAIN outbox' /\ job' = [job EXCEPT ![w] = j]
    BY <1>6, <2>1, <2>4, <1>b DEF Land, Goto, Job
  <2>6. /\ job' \in [Worker -> Job]
        /\ \A v \in Worker : Working(v)' => job'[v].row \in DOMAIN outbox'
    BY <2>4, <2>5, GotoType
  <2>7. shown' \in [Task -> [Stream -> Nat]]
    BY <1>6, <2>1 DEF Land
  <2> QED
    BY <1>6, <2>4, <2>6, <2>7 DEF Land
<1>7. ASSUME NEW w \in Worker, Working(w), Drop(w) \/ MarkSent(w) \/ SendFails(w) \/ Crash(w)
      PROVE  TypeOK'
  <2> DEFINE i == job[w].row
  <2>1. i \in DOMAIN outbox /\ outbox[i] \in Row /\ outbox[i].task \in Task
          /\ outbox[i].state_rev \in Nat
    BY <1>7, JobRow
  <2>2. SentRow(outbox[i]) \in Row /\ Rescheduled(outbox[i]) \in Row
    BY <2>1, RowOperators
  <2>3. \/ outbox' = [outbox EXCEPT ![i] = SentRow(outbox[i])]
        \/ outbox' = [outbox EXCEPT ![i] = Rescheduled(outbox[i])]
        \/ outbox' = outbox
    BY <1>7 DEF Drop, MarkSent, SendFails, Crash
  <2>4. outbox' \in Seq(Row) /\ DOMAIN outbox' = DOMAIN outbox
    BY <2>1, <2>2, <2>3, RowUpdate
  <2>5. job' = [job EXCEPT ![w] = Idle]
    BY <1>7 DEF Drop, MarkSent, SendFails, Crash
  <2>6. /\ job' \in [Worker -> Job]
        /\ \A v \in Worker : Working(v)' => job'[v].row \in DOMAIN outbox'
    BY <1>a, <2>4, <2>5, GotoType
  <2>7. cursor' \in [Task -> Nat]
    BY <1>7, <2>1 DEF Drop, MarkSent, SendFails, Crash
  <2>8. budget' \in [failures: Nat, crashes: Nat, rebuilds: Nat]
    BY <1>7, <1>c DEF Drop, MarkSent, SendFails, Crash
  <2> QED
    BY <1>7, <2>4, <2>6, <2>7, <2>8 DEF Drop, MarkSent, SendFails, Crash
<1>8. ASSUME NEW t \in Task, RebuildRead(t) PROVE TypeOK'
  BY <1>8, <1>c DEF RebuildRead, Working
<1>9. ASSUME NEW t \in Task, RebuildWrite(t) PROVE TypeOK'
  <2> DEFINE kept == [i \in DOMAIN outbox |-> Deleted(outbox[i], t)]
  <2>1. \A i \in DOMAIN outbox : Deleted(outbox[i], t) \in Row
    BY <1>b, RowOperators
  <2>2. kept \in Seq(Row) /\ DOMAIN kept = DOMAIN outbox
    <3>1. kept \in [DOMAIN outbox -> Row]
      BY <2>1
    <3> QED
      BY <3>1, RewriteType
  <2>3. PICK missing : outbox' = kept \o NewRows(missing, t, rebuild[t], 0, TRUE)
    BY <1>9 DEF RebuildWrite
  <2>4. NewRows(missing, t, rebuild[t], 0, TRUE) \in Seq(Row)
    BY NewRowsType
  <2> HIDE DEF kept
  <2>5. outbox' \in Seq(Row) /\ DOMAIN outbox \subseteq DOMAIN outbox'
    BY <2>2, <2>3, <2>4, Appended
  <2> QED
    BY <1>9, <1>a, <2>5 DEF RebuildWrite, Working
<1>10. CASE UNCHANGED vars
  BY <1>10 DEF vars, Working
<1>11. ASSUME NEW w \in Worker, Step(w) \/ SendFails(w) \/ Crash(w) PROVE TypeOK'
  <2>1. Reclaim(w) \/ Claim(w) \/ Working(w)
    BY <1>11 DEF Step, Check, Drop, Land, MarkSent, SendFails, Crash, Working
  <2> QED
    BY <1>3, <1>4, <1>5, <1>6, <1>7, <1>11, <2>1 DEF Step
<1> QED
  BY <1>1, <1>2, <1>8, <1>9, <1>10, <1>11 DEF Next

\* Every variable keeps its type, whatever is sent, lost, crashed or rebuilt.
THEOREM TypeCorrect == Spec => []TypeOK
<1>1. Init => TypeOK
  BY InitInv DEF Inv
<1> QED
  BY <1>1, TypeStep, PTL DEF Spec

-----------------------------------------------------------------------------
(* The delivery guarantees *)

Disciplined == Outlives = FALSE /\ Forced = FALSE

\* A step that no worker takes: old rows keep what the invariant reads, rows
\* being worked on stay claimed, new rows are waiting.
LEMMA QuietStep ==
  ASSUME Inv, TypeOK', UNCHANGED <<cursor, job, shown>>,
         \A i \in DOMAIN outbox :
           /\ i \in DOMAIN outbox'
           /\ SameRow(outbox'[i], outbox[i])
           /\ outbox'[i].landed = outbox[i].landed
           /\ outbox'[i].status = "sent" => outbox[i].status = "sent",
         \A i \in DOMAIN outbox' \ DOMAIN outbox : outbox'[i].status = "waiting",
         \A w \in Worker : Working(w) =>
           outbox'[job[w].row].status = "claimed" /\ ~outbox'[job[w].row].stale
  PROVE  Inv'
<1>1. \A w \in Worker : Working(w) => job[w].row \in DOMAIN outbox
  BY DEF Inv, TypeOK
<1>2. \A w \in Worker : Working(w)' <=> Working(w)
  BY DEF Working
<1>3. ClaimsHeld'
  BY <1>2 DEF ClaimsHeld
<1>4. OneInFlight'
  BY <1>1, <1>2 DEF Inv, OneInFlight, SameLane, SameRow
<1>5. Phases'
  BY <1>1, <1>2 DEF Inv, Phases, PhaseInv, SameRow
<1>6. CursorIsShown'
  BY DEF Inv, CursorIsShown
<1>7. SentIsSettled'
  <2>1. ASSUME NEW i \in DOMAIN outbox PROVE Settled(outbox[i])'
    BY DEF Inv, SentIsSettled, Settled, SameRow
  <2>2. ASSUME NEW i \in DOMAIN outbox' \ DOMAIN outbox PROVE Settled(outbox[i])'
    BY DEF Settled
  <2> QED
    BY <2>1, <2>2 DEF SentIsSettled
<1> QED
  BY <1>3, <1>4, <1>5, <1>6, <1>7 DEF Inv

\* A step of worker w on row i, alone in i's lane: it may end (j is idle) or
\* go on with the claim, and it touches the cursor and the remote in that lane.
LEMMA WorkerStep ==
  ASSUME Inv, TypeOK', NEW w \in Worker, NEW i \in DOMAIN outbox, NEW j,
         DOMAIN outbox' = DOMAIN outbox,
         SameRow(outbox'[i], outbox[i]),
         \A k \in DOMAIN outbox : k # i => outbox'[k] = outbox[k],
         job' = [job EXCEPT ![w] = j],
         \A v \in Worker : v # w /\ Working(v) => ~SameLane(outbox[job[v].row], outbox[i]),
         \A t \in Task : cursor'[t] >= cursor[t],
         \A t \in Task : ~(outbox[i].task = t /\ outbox[i].stream = "task_snapshot") =>
           cursor'[t] = cursor[t] /\ shown'[t]["task_snapshot"] = shown[t]["task_snapshot"],
         j.at # "idle" =>
           /\ j.row = i
           /\ outbox'[i].status = "claimed" /\ ~outbox'[i].stale
           /\ PhaseInv(j.at, outbox[i])',
         CursorIsShown',
         Settled(outbox[i])'
  PROVE  Inv'
<1>1. \A v \in Worker : v # w =>
        /\ Working(v)' <=> Working(v)
        /\ job'[v] = job[v]
        /\ Working(v) => job[v].row \in DOMAIN outbox /\ job[v].row # i
  BY DEF Inv, TypeOK, Working, SameLane
<1>2. Working(w)' <=> j.at # "idle"
  BY DEF Inv, TypeOK, Working
<1>3. job'[w] = j
  BY DEF Inv, TypeOK
<1>4. ClaimsHeld'
  BY <1>1, <1>2, <1>3 DEF Inv, ClaimsHeld
<1>5. OneInFlight'
  BY <1>1, <1>2, <1>3 DEF Inv, OneInFlight, SameLane, SameRow
<1>6. Phases'
  <2>1. ASSUME NEW v \in Worker, Working(v)', v # w PROVE PhaseInv(job[v].at, outbox[job[v].row])'
    <3> DEFINE r == outbox[job[v].row]
    <3>1. /\ outbox'[job'[v].row] = r /\ job'[v].at = job[v].at
          /\ PhaseInv(job[v].at, r) /\ ~SameLane(r, outbox[i])
      BY <2>1, <1>1 DEF Inv, Phases
    <3>2. r.task \in Task /\ r.stream \in Stream
      BY <2>1, <1>1, JobRow DEF Inv
    <3>3. r.stream = "task_snapshot" =>
            /\ cursor'[r.task] = cursor[r.task]
            /\ shown'[r.task]["task_snapshot"] = shown[r.task]["task_snapshot"]
      BY <3>1, <3>2 DEF SameLane
    <3> QED
      BY <3>1, <3>3, SMTT(30) DEF PhaseInv
  <2>2. Working(w)' => PhaseInv(job[w].at, outbox[job[w].row])'
    BY <1>2, <1>3
  <2> QED
    BY <2>1, <2>2 DEF Phases
<1>7. SentIsSettled'
  <2>1. ASSUME NEW k \in DOMAIN outbox, k # i PROVE Settled(outbox[k])'
    <3>1. outbox'[k] = outbox[k] /\ Settled(outbox[k])
      BY <2>1 DEF Inv, SentIsSettled
    <3>2. outbox[k].task \in Task /\ outbox[k].state_rev \in Nat
      BY AnyRow DEF Inv
    <3>3. cursor[outbox[k].task] \in Nat /\ cursor'[outbox[k].task] \in Nat
            /\ cursor'[outbox[k].task] >= cursor[outbox[k].task]
      BY <3>2 DEF Inv, TypeOK
    <3> QED
      BY <3>1, <3>2, <3>3 DEF Settled
  <2> QED
    BY <2>1 DEF SentIsSettled
<1> QED
  BY <1>4, <1>5, <1>6, <1>7 DEF Inv

\* A worker is alone in the lane of its row.
LEMMA AloneInLane ==
  ASSUME Inv, NEW w \in Worker, Working(w)
  PROVE  \A v \in Worker : v # w /\ Working(v) =>
           ~SameLane(outbox[job[v].row], outbox[job[w].row])
BY DEF Inv, OneInFlight

LEMMA InvStep == Disciplined /\ Inv /\ [Next]_vars => Inv'
<1> SUFFICES ASSUME Disciplined, Inv, [Next]_vars PROVE Inv'
  OBVIOUS
<1>t. TypeOK /\ TypeOK'
  BY TypeStep DEF Inv
<1>h. \A w \in Worker : Working(w) =>
        outbox[job[w].row].status = "claimed" /\ ~outbox[job[w].row].stale
  BY DEF Inv, ClaimsHeld
<1>1. ASSUME NEW t \in Task, NEW new \in Seq(Row),
             \A k \in DOMAIN new : new[k].status = "waiting",
             outbox' = outbox \o new, UNCHANGED <<cursor, job, shown>>
      PROVE  Inv'
  <2>1. /\ DOMAIN outbox \subseteq DOMAIN outbox'
        /\ \A i \in DOMAIN outbox : outbox'[i] = outbox[i]
        /\ \A i \in DOMAIN outbox' \ DOMAIN outbox : outbox'[i].status = "waiting"
    <3>1. outbox \in Seq(Row)
      BY <1>t DEF TypeOK
    <3> QED
      BY <1>1, <3>1, Appended
  <2>2. \A w \in Worker : Working(w) => job[w].row \in DOMAIN outbox
    BY <1>t DEF TypeOK
  <2> QED
    BY <1>1, <1>t, <1>h, <2>1, <2>2, QuietStep DEF SameRow
<1>2. ASSUME NEW t \in Task, NEW streams \in Emission, Emit(t, streams) PROVE Inv'
  <2>0. PICK at \in Nat : outbox' = outbox \o NewRows(streams, t, rev[t] + 1, at, FALSE)
    BY <1>2, <1>t, EmittedAt
  <2> DEFINE new == NewRows(streams, t, rev[t] + 1, at, FALSE)
  <2>1. rev[t] + 1 \in Nat /\ FALSE \in BOOLEAN
    BY <1>t DEF TypeOK
  <2>2. new \in Seq(Row) /\ \A k \in DOMAIN new : new[k].status = "waiting"
    BY <2>1, NewRowsType
  <2>3. outbox' = outbox \o new /\ UNCHANGED <<cursor, job, shown>>
    BY <1>2, <2>0 DEF Emit
  <2> HIDE DEF new
  <2> QED
    BY <1>1, <2>2, <2>3
<1>3. ASSUME NEW i \in DOMAIN outbox, FallDue(i) \/ GrowStale(i) PROVE Inv'
  <2>1. \A w \in Worker : Working(w) => job[w].row # i
    BY <1>3, <1>h DEF FallDue, GrowStale, Disciplined
  <2>2. /\ outbox[i] \in Row
        /\ \/ outbox' = [outbox EXCEPT ![i] = [outbox[i] EXCEPT !.due = TRUE]]
           \/ outbox' = [outbox EXCEPT ![i] = [outbox[i] EXCEPT !.stale = TRUE]]
    BY <1>3, <1>t, AnyRow DEF FallDue, GrowStale
  <2>3. PICK r \in Row : /\ outbox' = [outbox EXCEPT ![i] = r]
                         /\ SameRow(r, outbox[i]) /\ r.landed = outbox[i].landed
                         /\ r.status = outbox[i].status
    BY <2>2 DEF Row, SameRow
  <2>4. /\ DOMAIN outbox' = DOMAIN outbox /\ outbox'[i] = r
        /\ \A k \in DOMAIN outbox : k # i => outbox'[k] = outbox[k]
    BY <2>3, <1>t, RowUpdate
  <2>5. \A w \in Worker : Working(w) => job[w].row \in DOMAIN outbox
    BY <1>t DEF TypeOK
  <2>6. UNCHANGED <<cursor, job, shown>>
    BY <1>3 DEF FallDue, GrowStale
  <2> QED
    BY <1>t, <1>h, <2>1, <2>3, <2>4, <2>5, <2>6, QuietStep DEF SameRow
<1>4. ASSUME NEW w \in Worker, Reclaim(w) PROVE Inv'
  <2>1. /\ outbox' = [i \in DOMAIN outbox |-> Released(outbox[i])]
        /\ UNCHANGED <<cursor, job, shown>>
    BY <1>4 DEF Reclaim
  <2>2. ASSUME NEW i \in DOMAIN outbox
        PROVE  /\ i \in DOMAIN outbox' /\ SameRow(outbox'[i], outbox[i])
               /\ outbox'[i].landed = outbox[i].landed
               /\ outbox'[i].status = "sent" => outbox[i].status = "sent"
    BY <2>1, <1>t, AnyRow DEF Released, Row, SameRow
  <2>3. \A v \in Worker : Working(v) =>
          outbox'[job[v].row].status = "claimed" /\ ~outbox'[job[v].row].stale
    BY <2>1, <1>t, <1>h DEF TypeOK, Released
  <2>4. DOMAIN outbox' = DOMAIN outbox
    BY <2>1
  <2> QED
    BY <1>t, <2>1, <2>2, <2>3, <2>4, QuietStep
<1>5. ASSUME NEW w \in Worker, Claim(w) PROVE Inv'
  <2>1. PICK i \in DOMAIN outbox :
          /\ i \in Claimable
          /\ outbox' = [outbox EXCEPT ![i] = [outbox[i] EXCEPT !.status = "claimed", !.stale = FALSE]]
          /\ job' = [job EXCEPT ![w] = [at |-> "claimed", row |-> i]]
    BY <1>5 DEF Claim, Goto, OldestOf
  <2>2. outbox[i] \in Row
    BY <1>t, AnyRow
  <2> DEFINE r == [outbox[i] EXCEPT !.status = "claimed", !.stale = FALSE]
  <2>3. r \in Row /\ SameRow(r, outbox[i]) /\ r.status = "claimed" /\ ~r.stale
    BY <2>2 DEF Row, SameRow
  <2> HIDE DEF r
  <2>4. /\ DOMAIN outbox' = DOMAIN outbox /\ outbox'[i] = r
        /\ \A k \in DOMAIN outbox : k # i => outbox'[k] = outbox[k]
    BY <2>1, <2>3, <1>t, RowUpdate DEF r
  <2>5. \A v \in Worker : Working(v) => ~SameLane(outbox[job[v].row], outbox[i])
    BY <1>t, <1>h, <2>1 DEF Claimable, TypeOK
  <2>6. UNCHANGED <<cursor, shown>>
    BY <1>5 DEF Claim
  <2>7. CursorIsShown' /\ Settled(outbox[i])' /\ PhaseInv("claimed", outbox[i])'
    BY <2>3, <2>4, <2>6 DEF Inv, CursorIsShown, Settled, PhaseInv
  <2>8. \A t \in Task : cursor'[t] >= cursor[t]
    BY <2>6, <1>t DEF TypeOK
  <2> DEFINE j == [at |-> "claimed", row |-> i]
  <2>9. j.at = "claimed" /\ j.row = i /\ job' = [job EXCEPT ![w] = j]
    BY <2>1
  <2> HIDE DEF j
  <2> QED
    BY <1>t, <2>3, <2>4, <2>5, <2>6, <2>7, <2>8, <2>9, WorkerStep
<1>6. ASSUME NEW w \in Worker, Working(w), Check(w) PROVE Inv'
  <2>1. PICK i \in DOMAIN outbox : i = job[w].row
    BY <1>6, <1>t, JobRow
  <2>2. PICK a : a = IF Superseded(outbox[i]) THEN "superseded" ELSE "sending"
    OBVIOUS
  <2>3. PICK j : j = [at |-> a, row |-> i]
    OBVIOUS
  <2>4. job' = [job EXCEPT ![w] = j] /\ UNCHANGED <<outbox, cursor, shown>>
    BY <1>6, <2>1, <2>2, <2>3 DEF Check, Goto
  <2>5. PhaseInv(a, outbox[i])
    <3>1. cursor[outbox[i].task] \in Nat /\ outbox[i].state_rev \in Nat
      BY <1>t, AnyRow DEF TypeOK
    <3> QED
      BY <2>2, <3>1 DEF PhaseInv, Superseded
  <2>6. j.at = a /\ j.row = i
    BY <2>3
  <2>7. \A v \in Worker : v # w /\ Working(v) => ~SameLane(outbox[job[v].row], outbox[i])
    BY <1>6, <2>1, AloneInLane
  <2>8. \A t \in Task : cursor'[t] >= cursor[t]
    BY <2>4, <1>t DEF TypeOK
  <2>9. CursorIsShown' /\ Settled(outbox[i])' /\ PhaseInv(a, outbox[i])'
    BY <2>4, <2>5 DEF Inv, CursorIsShown, SentIsSettled, Settled, PhaseInv
  <2>10. outbox[i].status = "claimed" /\ ~outbox[i].stale
    BY <1>6, <1>h, <2>1
  <2> QED
    BY <1>t, <2>4, <2>6, <2>7, <2>8, <2>9, <2>10, WorkerStep DEF SameRow
<1>7. ASSUME NEW w \in Worker, Working(w), Land(w) PROVE Inv'
  <2>1. PICK i \in DOMAIN outbox : i = job[w].row
    BY <1>7, <1>t, JobRow
  <2>2. /\ outbox[i] \in Row /\ outbox[i].task \in Task
        /\ outbox[i].stream \in Stream /\ outbox[i].state_rev \in Nat
    BY <1>t, AnyRow
  <2>3. PICK r : r = [outbox[i] EXCEPT !.landed = TRUE]
    OBVIOUS
  <2>4. /\ r \in Row /\ SameRow(r, outbox[i]) /\ r.landed
        /\ r.status = outbox[i].status /\ r.stale = outbox[i].stale
    BY <2>2, <2>3 DEF Row, SameRow
  <2>5. PICK j : j = [at |-> "delivered", row |-> i]
    OBVIOUS
  <2>6. /\ outbox' = [outbox EXCEPT ![i] = r] /\ job' = [job EXCEPT ![w] = j]
        /\ shown' = [shown EXCEPT ![outbox[i].task][outbox[i].stream] = outbox[i].state_rev]
        /\ UNCHANGED cursor /\ job[w].at = "sending"
    BY <1>7, <2>1, <2>3, <2>5 DEF Land, Goto
  <2>7. /\ DOMAIN outbox' = DOMAIN outbox /\ outbox'[i] = r
        /\ \A k \in DOMAIN outbox : k # i => outbox'[k] = outbox[k]
    BY <2>4, <2>6, <1>t, RowUpdate
  <2>8. \A v \in Worker : v # w /\ Working(v) => ~SameLane(outbox[job[v].row], outbox[i])
    BY <1>7, <2>1, AloneInLane
  <2>9. /\ outbox'[i].status = "claimed" /\ ~outbox'[i].stale
        /\ j.at = "delivered" /\ j.row = i
    BY <1>7, <1>h, <2>1, <2>4, <2>5, <2>7
  <2>10. outbox[i].stream = "task_snapshot" => outbox[i].state_rev > cursor[outbox[i].task]
    BY <1>7, <2>1, <2>6 DEF Inv, Phases, PhaseInv
  <2>11. \A t \in Task : \A s \in Stream :
           shown'[t][s] = IF t = outbox[i].task /\ s = outbox[i].stream
                          THEN outbox[i].state_rev ELSE shown[t][s]
    BY <2>2, <2>6, <1>t DEF TypeOK
  <2>12. "task_snapshot" \in Stream
    BY DEF Stream
  <2>13. PhaseInv(j.at, outbox[i])' /\ SameRow(outbox'[i], outbox[i])
    BY <2>2, <2>4, <2>6, <2>7, <2>9, <2>10, <2>11 DEF PhaseInv, SameRow
  <2>14. CursorIsShown'
    <3>1. ASSUME NEW t \in Task PROVE cursor'[t] <= shown'[t]["task_snapshot"]
      <4>1. cursor[t] \in Nat /\ cursor[t] <= shown[t]["task_snapshot"]
        BY <1>t DEF Inv, CursorIsShown, TypeOK
      <4> QED
        BY <4>1, <2>2, <2>6, <2>10, <2>11, <2>12
    <3> QED
      BY <3>1 DEF CursorIsShown
  <2>15. Settled(outbox[i])'
    BY <2>9 DEF Settled
  <2>16. \A t \in Task : cursor'[t] >= cursor[t]
    BY <2>6, <1>t DEF TypeOK
  <2>17. \A t \in Task : ~(outbox[i].task = t /\ outbox[i].stream = "task_snapshot") =>
           cursor'[t] = cursor[t] /\ shown'[t]["task_snapshot"] = shown[t]["task_snapshot"]
    BY <2>6, <2>11, <2>12
  <2>18. job' = [job EXCEPT ![w] = j]
    BY <2>6
  <2>19. j.at # "idle" =>
           /\ j.row = i
           /\ outbox'[i].status = "claimed" /\ ~outbox'[i].stale
           /\ PhaseInv(j.at, outbox[i])'
    BY <2>9, <2>13
  <2>20. /\ DOMAIN outbox' = DOMAIN outbox /\ SameRow(outbox'[i], outbox[i])
         /\ \A k \in DOMAIN outbox : k # i => outbox'[k] = outbox[k]
    BY <2>7, <2>13
  <2> QED
    BY <1>t, <2>8, <2>14, <2>15, <2>16, <2>17, <2>18, <2>19, <2>20, WorkerStep, ZenonT(60)
<1>8. ASSUME NEW w \in Worker, Working(w), Drop(w) \/ SendFails(w) \/ Crash(w) PROVE Inv'
  <2>1. PICK i \in DOMAIN outbox : i = job[w].row
    BY <1>8, <1>t, JobRow
  <2>2. /\ outbox[i] \in Row /\ outbox[i].status = "claimed"
        /\ SentRow(outbox[i]) \in Row /\ SameRow(SentRow(outbox[i]), outbox[i])
        /\ Rescheduled(outbox[i]) \in Row /\ SameRow(Rescheduled(outbox[i]), outbox[i])
    BY <1>8, <1>t, <1>h, <2>1, AnyRow, RowOperators
  <2>3. PICK r \in Row : /\ outbox' = [outbox EXCEPT ![i] = r]
                         /\ SameRow(r, outbox[i]) /\ Settled(r)
    <3>1. CASE Drop(w)
      <4>1. outbox[i].stream = "task_snapshot" /\ cursor[outbox[i].task] >= outbox[i].state_rev
        BY <2>1, <3>1, <1>8 DEF Inv, Phases, PhaseInv, Drop
      <4>2. Settled(SentRow(outbox[i]))
        BY <4>1, <2>2 DEF Settled, SameRow
      <4> QED
        BY <2>1, <2>2, <3>1, <4>2 DEF Drop
    <3>2. CASE SendFails(w)
      <4>1. Rescheduled(outbox[i]).status = "waiting"
        BY <2>2 DEF Rescheduled, Row
      <4>2. Settled(Rescheduled(outbox[i]))
        BY <4>1 DEF Settled
      <4> QED
        BY <2>1, <2>2, <3>2, <4>2 DEF SendFails
    <3>3. CASE Crash(w)
      <4>1. outbox' = [outbox EXCEPT ![i] = outbox[i]]
        BY <3>3, <1>t, LenProperties DEF Crash, TypeOK
      <4> QED
        BY <4>1, <2>2 DEF Settled, SameRow
    <3> QED
      BY <1>8, <3>1, <3>2, <3>3
  <2>4. /\ DOMAIN outbox' = DOMAIN outbox /\ outbox'[i] = r
        /\ \A k \in DOMAIN outbox : k # i => outbox'[k] = outbox[k]
    BY <2>3, <1>t, RowUpdate
  <2>5. job' = [job EXCEPT ![w] = Idle] /\ UNCHANGED <<cursor, shown>> /\ Idle.at = "idle"
    BY <1>8 DEF Drop, SendFails, Crash, Idle
  <2>6. \A v \in Worker : v # w /\ Working(v) => ~SameLane(outbox[job[v].row], outbox[i])
    BY <1>8, <2>1, AloneInLane
  <2>7. \A t \in Task : cursor'[t] >= cursor[t]
    BY <2>5, <1>t DEF TypeOK
  <2>8. CursorIsShown' /\ Settled(outbox[i])'
    BY <2>3, <2>4, <2>5 DEF Inv, CursorIsShown, Settled
  <2> QED
    BY <1>t, <2>3, <2>4, <2>5, <2>6, <2>7, <2>8, WorkerStep
<1>9. ASSUME NEW w \in Worker, Working(w), MarkSent(w) PROVE Inv'
  <2>1. PICK i \in DOMAIN outbox : i = job[w].row
    BY <1>9, <1>t, JobRow
  <2>2. /\ outbox[i] \in Row /\ outbox[i].task \in Task /\ outbox[i].state_rev \in Nat
        /\ SentRow(outbox[i]) \in Row /\ SameRow(SentRow(outbox[i]), outbox[i])
    BY <1>t, AnyRow, RowOperators
  <2>3. PICK r : r = SentRow(outbox[i])
    OBVIOUS
  <2>4. outbox' = [outbox EXCEPT ![i] = r] /\ UNCHANGED shown /\ job' = [job EXCEPT ![w] = Idle]
    BY <1>9, <2>1, <2>3 DEF MarkSent
  <2>5. /\ DOMAIN outbox' = DOMAIN outbox /\ outbox'[i] = r
        /\ \A k \in DOMAIN outbox : k # i => outbox'[k] = outbox[k]
    BY <2>2, <2>3, <2>4, <1>t, RowUpdate
  <2>6. outbox[i].landed
        /\ (outbox[i].stream = "task_snapshot" =>
              /\ outbox[i].state_rev > cursor[outbox[i].task]
              /\ shown[outbox[i].task]["task_snapshot"] = outbox[i].state_rev)
    BY <1>9, <2>1 DEF Inv, Phases, PhaseInv, MarkSent
  <2>7. Settled(outbox[i])'
    <3>1. r.landed
      BY <2>2, <2>3, <2>6 DEF SentRow, Row
    <3> QED
      BY <2>5, <3>1 DEF Settled
  <2>8. \A t \in Task :
          cursor'[t] = IF outbox[i].stream = "task_snapshot" /\ t = outbox[i].task
                       THEN outbox[i].state_rev ELSE cursor[t]
    BY <1>9, <1>t, <2>1, <2>2 DEF MarkSent, TypeOK
  <2>9. \A t \in Task : cursor[t] \in Nat /\ cursor[t] <= shown[t]["task_snapshot"]
    BY <1>t DEF Inv, CursorIsShown, TypeOK
  <2>10. \A t \in Task : cursor'[t] >= cursor[t] /\ cursor'[t] <= shown[t]["task_snapshot"]
    BY <2>2, <2>6, <2>8, <2>9
  <2>11. CursorIsShown'
    BY <2>4, <2>10 DEF CursorIsShown
  <2>12. \A v \in Worker : v # w /\ Working(v) => ~SameLane(outbox[job[v].row], outbox[i])
    BY <1>9, <2>1, AloneInLane
  <2>13. Idle.at = "idle" /\ SameRow(outbox'[i], outbox[i])
    BY <2>2, <2>3, <2>5 DEF Idle
  <2>14. \A t \in Task : ~(outbox[i].task = t /\ outbox[i].stream = "task_snapshot") =>
           cursor'[t] = cursor[t] /\ shown'[t]["task_snapshot"] = shown[t]["task_snapshot"]
    BY <2>4, <2>8
  <2> QED
    BY <1>t, <2>4, <2>5, <2>7, <2>10, <2>11, <2>12, <2>13, <2>14, WorkerStep
<1>10. ASSUME NEW t \in Task, RebuildRead(t) PROVE Inv'
  <2>1. UNCHANGED <<outbox, cursor, job, shown>>
    BY <1>10 DEF RebuildRead
  <2> QED
    BY <1>t, <1>h, <2>1, QuietStep DEF SameRow
<1>11. ASSUME NEW t \in Task, RebuildWrite(t) PROVE Inv'
  <2>1. [i \in DOMAIN outbox |-> Deleted(outbox[i], t)] = outbox
    <3>1. \A i \in DOMAIN outbox : Deleted(outbox[i], t) = outbox[i]
      BY DEF Deleted, Disciplined
    <3> QED
      BY <3>1, <1>t, LenProperties DEF TypeOK
  <2>2. PICK missing : outbox' = outbox \o NewRows(missing, t, rebuild[t], 0, TRUE)
    BY <1>11, <2>1 DEF RebuildWrite
  <2>3. rebuild[t] \in Nat /\ TRUE \in BOOLEAN
    BY <1>t DEF TypeOK
  <2> DEFINE new == NewRows(missing, t, rebuild[t], 0, TRUE)
  <2>4. new \in Seq(Row) /\ \A k \in DOMAIN new : new[k].status = "waiting"
    BY <2>3, NewRowsType
  <2>5. UNCHANGED <<cursor, job, shown>>
    BY <1>11 DEF RebuildWrite
  <2> HIDE DEF new
  <2> QED
    BY <1>1, <2>2, <2>4, <2>5 DEF new
<1>12. CASE UNCHANGED vars
  <2>1. UNCHANGED <<outbox, cursor, job, shown>>
    BY <1>12 DEF vars
  <2> QED
    BY <1>t, <1>h, <2>1, QuietStep DEF SameRow
<1>13. ASSUME NEW w \in Worker, Step(w) \/ SendFails(w) \/ Crash(w) PROVE Inv'
  <2>1. Reclaim(w) \/ Claim(w) \/ Working(w)
    BY <1>13 DEF Step, Check, Drop, Land, MarkSent, SendFails, Crash, Working
  <2> QED
    BY <1>4, <1>5, <1>6, <1>7, <1>8, <1>9, <1>13, <2>1 DEF Step
<1> QED
  BY <1>2, <1>3, <1>10, <1>11, <1>12, <1>13 DEF Next

LEMMA InvHolds == Disciplined /\ Spec => [](Disciplined /\ Inv)
<1>1. Disciplined /\ Init => Disciplined /\ Inv
  BY InitInv
<1>2. Disciplined /\ Inv /\ [Next]_vars => Disciplined' /\ Inv'
  BY InvStep DEF Disciplined
<1> QED
  BY <1>1, <1>2, PTL DEF Spec

\* No two workers are ever at work in one lane, for any number of workers,
\* tasks, crashes, failures and plain rebuilds.
THEOREM OneInFlightHolds == Disciplined /\ Spec => []OneInFlight
<1>1. Inv => OneInFlight
  BY DEF Inv
<1> QED
  BY InvHolds, <1>1, PTL

\* Nothing is marked sent that the remote has not shown.
THEOREM SentIsShownHolds == Disciplined /\ Spec => []SentIsShown
<1>1. Inv => SentIsShown
  <2> SUFFICES ASSUME Inv, NEW i \in DOMAIN outbox, outbox[i].status = "sent",
                      ~outbox[i].landed
               PROVE  /\ outbox[i].stream = "task_snapshot"
                      /\ shown[outbox[i].task]["task_snapshot"] >= outbox[i].state_rev
    BY DEF SentIsShown
  <2>1. /\ outbox[i].stream = "task_snapshot"
        /\ cursor[outbox[i].task] >= outbox[i].state_rev
    BY DEF Inv, SentIsSettled, Settled
  <2>2. /\ outbox[i].task \in Task /\ outbox[i].state_rev \in Nat
        /\ outbox[i].stream \in Stream
    BY AnyRow DEF Inv
  <2>3. /\ cursor[outbox[i].task] \in Nat
        /\ shown[outbox[i].task]["task_snapshot"] \in Nat
        /\ cursor[outbox[i].task] <= shown[outbox[i].task]["task_snapshot"]
    BY <2>1, <2>2 DEF Inv, TypeOK, CursorIsShown
  <2> QED
    BY <2>1, <2>2, <2>3
<1> QED
  BY InvHolds, <1>1, PTL

\* The cursor never moves back: only MarkSent writes it, behind Superseded.
LEMMA CursorStep == Inv /\ [Next]_vars => \A t \in Task : cursor'[t] >= cursor[t]
<1> SUFFICES ASSUME Inv, [Next]_vars, NEW t \in Task PROVE cursor'[t] >= cursor[t]
  OBVIOUS
<1>1. TypeOK /\ cursor[t] \in Nat
  BY DEF Inv, TypeOK
<1>2. ASSUME NEW w \in Worker, MarkSent(w) PROVE cursor'[t] >= cursor[t]
  <2>1. Working(w) /\ job[w].at = "delivered"
    BY <1>2 DEF MarkSent, Working
  <2>2. PICK r : r = outbox[job[w].row]
    OBVIOUS
  <2>3. r.task \in Task /\ r.state_rev \in Nat
    BY <1>1, <2>1, <2>2, JobRow
  <2>4. r.stream = "task_snapshot" => r.state_rev > cursor[r.task]
    BY <2>1, <2>2 DEF Inv, Phases, PhaseInv
  <2>5. cursor' = IF r.stream = "task_snapshot"
                  THEN [cursor EXCEPT ![r.task] = r.state_rev] ELSE cursor
    BY <1>2, <2>2 DEF MarkSent
  <2>6. cursor \in [Task -> Nat]
    BY <1>1 DEF TypeOK
  <2> QED
    BY <1>1, <2>3, <2>4, <2>5, <2>6
<1>3. CASE UNCHANGED cursor
  BY <1>1, <1>3
<1>4. UNCHANGED cursor \/ \E w \in Worker : MarkSent(w)
  BY DEF Next, vars, Emit, FallDue, GrowStale, Step, Reclaim, Claim, Check, Drop, Land,
         SendFails, Crash, RebuildRead, RebuildWrite
<1> QED
  BY <1>2, <1>3, <1>4

\* An acknowledged snapshot is never undone on the issue.
THEOREM AcknowledgedSnapshotStandsHolds == Disciplined /\ Spec => AcknowledgedSnapshotStands
<1>1. Disciplined /\ Inv /\ [Next]_vars =>
        [\A t \in Task :
           cursor'[t] >= cursor[t] /\ shown'[t]["task_snapshot"] >= cursor[t]]_vars
  <2> SUFFICES ASSUME Disciplined, Inv, [Next]_vars, NEW t \in Task
               PROVE  cursor'[t] >= cursor[t] /\ shown'[t]["task_snapshot"] >= cursor[t]
    OBVIOUS
  <2>1. cursor'[t] >= cursor[t]
    BY CursorStep
  <2>2. Inv'
    BY InvStep
  <2>3. "task_snapshot" \in Stream
    BY DEF Stream
  <2>4. /\ cursor[t] \in Nat /\ cursor'[t] \in Nat /\ shown'[t]["task_snapshot"] \in Nat
        /\ cursor'[t] <= shown'[t]["task_snapshot"]
    BY <2>2, <2>3 DEF Inv, TypeOK, CursorIsShown
  <2> QED
    BY <2>1, <2>4
<1> QED
  BY InvHolds, <1>1, PTL DEF Spec, AcknowledgedSnapshotStands
-----------------------------------------------------------------------------
(* The order within a lane *)

\* A row of the Router whose send has never failed and that is still to be sent.
Untried(r) == ~r.by_rebuild /\ r.status \in {"waiting", "claimed"} /\ r.attempts = 0

\* While an older row o of a lane is untried, a newer row n of it that waits no shorter
\* has never been claimed, and falls due after o.
InOrder(o, n) ==
  SameLane(o, n) /\ Untried(o) /\ ~n.by_rebuild /\ WaitsNoLonger(o, n) =>
    /\ n.status = "waiting" /\ n.attempts = 0 /\ ~n.landed
    /\ n.due => o.due

LanesInOrder == \A k, i \in DOMAIN outbox : k < i => InOrder(outbox[k], outbox[i])

ClaimedIsDue == \A i \in DOMAIN outbox : outbox[i].status = "claimed" => outbox[i].due

OrderInv == ClaimedIsDue /\ LanesInOrder

Fresh(r) ==
  /\ r.status = "waiting" /\ r.attempts = 0 /\ ~r.landed
  /\ r.due => r.by_rebuild

LEMMA NewRowsFresh ==
  ASSUME NEW streams, NEW t \in Task, NEW n \in Nat, NEW at \in Nat,
         NEW due \in BOOLEAN
  PROVE  /\ NewRows(streams, t, n, at, due) \in Seq(Row)
         /\ \A i \in DOMAIN NewRows(streams, t, n, at, due) : Fresh(NewRows(streams, t, n, at, due)[i])
<1> DEFINE FreshRow == {r \in Row : Fresh(r)}
<1>1. ASSUME NEW s \in Stream PROVE RowIf(streams, s, t, n, at, due) \in Seq(FreshRow)
  <2>1. Fresh(NewRow(t, s, n, at, due))
    BY DEF NewRow, Fresh
  <2>2. NewRow(t, s, n, at, due) \in FreshRow
    BY <2>1, NewRowType
  <2>3. <<NewRow(t, s, n, at, due)>> \in Seq(FreshRow) /\ << >> \in Seq(FreshRow)
    BY <2>2
  <2> QED
    BY <2>3 DEF RowIf
<1>2. NewRows(streams, t, n, at, due) \in Seq(FreshRow)
  <2>1. {"task_snapshot", "task_label_sync", "discord_alert"} \subseteq Stream
    BY DEF Stream
  <2> HIDE DEF FreshRow
  <2> QED
    BY <1>1, <2>1, ConcatProperties DEF NewRows
<1> QED
  BY <1>2

\* Rows appended fresh come after every row of their lanes.
LEMMA AppendInOrder ==
  ASSUME TypeOK, OrderInv, NEW new \in Seq(Row),
         \A k \in DOMAIN new : Fresh(new[k]), outbox' = outbox \o new
  PROVE  OrderInv'
<1>1. /\ DOMAIN outbox \subseteq DOMAIN outbox'
      /\ \A i \in DOMAIN outbox : outbox'[i] = outbox[i]
      /\ \A i \in DOMAIN outbox' \ DOMAIN outbox : \E k \in DOMAIN new : outbox'[i] = new[k]
  BY Appended DEF TypeOK
<1>2. \A i \in DOMAIN outbox' \ DOMAIN outbox : Fresh(outbox'[i])
  BY <1>1
<1>3. DOMAIN outbox = 1 .. Len(outbox) /\ Len(outbox) \in Nat /\ DOMAIN outbox' \subseteq Nat
  <2>1. outbox' \in Seq(Row)
    BY Appended DEF TypeOK
  <2> QED
    BY <2>1, LenProperties DEF TypeOK
<1>4. ClaimedIsDue'
  BY <1>1, <1>2 DEF OrderInv, ClaimedIsDue, Fresh
<1>5. ASSUME NEW k \in DOMAIN outbox', NEW i \in DOMAIN outbox', k < i
      PROVE  InOrder(outbox'[k], outbox'[i])
  <2>1. CASE i \in DOMAIN outbox
    <3>1. k \in DOMAIN outbox
      BY <1>3, <1>5, <2>1
    <3> QED
      BY <1>1, <1>5, <2>1, <3>1 DEF OrderInv, LanesInOrder
  <2>2. CASE i \notin DOMAIN outbox
    BY <1>2, <2>2 DEF InOrder, Fresh
  <2> QED
    BY <2>1, <2>2
<1> QED
  BY <1>4, <1>5 DEF OrderInv, LanesInOrder

\* A step that rewrites row i alone, to r, keeps the order if r is no worse than
\* before for the newer rows and no older row of its lane forbids it.
LEMMA UpdateInOrder ==
  ASSUME TypeOK, OrderInv, NEW i \in DOMAIN outbox, NEW r \in Row,
         outbox' = [outbox EXCEPT ![i] = r],
         SameLane(r, outbox[i]), r.by_rebuild = outbox[i].by_rebuild,
         r.received = outbox[i].received, r.status = "claimed" => r.due,
         Untried(r) => Untried(outbox[i]) /\ (outbox[i].due => r.due),
         \A k \in DOMAIN outbox : k < i => InOrder(outbox[k], r)
  PROVE  OrderInv'
<1>1. /\ DOMAIN outbox' = DOMAIN outbox /\ outbox'[i] = r
      /\ \A k \in DOMAIN outbox : k # i => outbox'[k] = outbox[k]
  BY RowUpdate
<1>2. ClaimedIsDue'
  BY <1>1 DEF OrderInv, ClaimedIsDue
<1>3. ASSUME NEW k \in DOMAIN outbox, NEW n \in DOMAIN outbox, k < n
      PROVE  InOrder(outbox'[k], outbox'[n])
  <2>1. InOrder(outbox[k], outbox[n])
    BY <1>3 DEF OrderInv, LanesInOrder
  <2>2. k # n
    BY <1>3, LenProperties DEF TypeOK
  <2>3. CASE k = i
    <3>1. outbox'[k] = r /\ outbox'[n] = outbox[n] /\ InOrder(outbox[i], outbox[n])
      BY <1>1, <2>1, <2>2, <2>3
    <3> QED
      BY <3>1 DEF InOrder, SameLane, WaitsNoLonger
  <2>4. CASE n = i
    BY <1>1, <1>3, <2>2, <2>4
  <2>5. CASE k # i /\ n # i
    BY <1>1, <2>1, <2>5
  <2> QED
    BY <2>3, <2>4, <2>5
<1> QED
  BY <1>1, <1>2, <1>3 DEF OrderInv, LanesInOrder

\* No older row of the lane of a claimed row is untried.
LEMMA ClaimedIsFirst ==
  ASSUME OrderInv, NEW i \in DOMAIN outbox, outbox[i].status = "claimed",
         NEW r, SameLane(r, outbox[i]), r.by_rebuild = outbox[i].by_rebuild,
         r.received = outbox[i].received
  PROVE  \A k \in DOMAIN outbox : k < i => InOrder(outbox[k], r)
BY DEF OrderInv, LanesInOrder, InOrder, SameLane, WaitsNoLonger

\* What a send's outcome writes back keeps the lane, and leaves no row untried
\* that was not.
LEMMA OutcomeOfRow ==
  ASSUME NEW o \in Row, o.status = "claimed", o.due,
         NEW r, r = SentRow(o) \/ r = Rescheduled(o) \/ r = [o EXCEPT !.landed = TRUE]
  PROVE  /\ r \in Row /\ SameLane(r, o) /\ r.by_rebuild = o.by_rebuild /\ r.received = o.received
         /\ r.status = "claimed" => r.due
         /\ Untried(r) => Untried(o) /\ (o.due => r.due)
<1>1. CASE r = SentRow(o)
  <2>1. r = [o EXCEPT !.status = "sent"]
    BY <1>1 DEF SentRow
  <2> QED
    BY <2>1 DEF Row, SameLane, Untried
<1>2. CASE r = Rescheduled(o)
  <2>1. r = [o EXCEPT !.due = FALSE, !.attempts = o.attempts + 1, !.stale = FALSE,
                      !.status = "waiting"]
    BY <1>2 DEF Rescheduled
  <2>2. o.attempts + 1 \in Nat /\ o.attempts + 1 # 0
    BY DEF Row
  <2> QED
    BY <2>1, <2>2 DEF Row, SameLane, Untried
<1>3. CASE r = [o EXCEPT !.landed = TRUE]
  BY <1>3 DEF Row, SameLane, Untried
<1> QED
  BY <1>1, <1>2, <1>3

LEMMA OrderStep == Disciplined /\ Inv /\ OrderInv /\ [Next]_vars => OrderInv'
<1> SUFFICES ASSUME Disciplined, Inv, OrderInv, [Next]_vars PROVE OrderInv'
  OBVIOUS
<1>t. TypeOK
  BY DEF Inv
<1>q. CASE UNCHANGED outbox
  BY <1>q DEF OrderInv, ClaimedIsDue, LanesInOrder
<1>1. ASSUME NEW t \in Task, NEW streams \in Emission, Emit(t, streams) PROVE OrderInv'
  <2>0. PICK at \in Nat : outbox' = outbox \o NewRows(streams, t, rev[t] + 1, at, FALSE)
    BY <1>1, <1>t, EmittedAt
  <2> DEFINE new == NewRows(streams, t, rev[t] + 1, at, FALSE)
  <2>1. rev[t] + 1 \in Nat /\ FALSE \in BOOLEAN
    BY <1>t DEF TypeOK
  <2>2. new \in Seq(Row) /\ \A k \in DOMAIN new : Fresh(new[k])
    BY <2>1, NewRowsFresh
  <2>3. outbox' = outbox \o new
    BY <2>0
  <2> HIDE DEF new
  <2> QED
    BY <1>t, <2>2, <2>3, AppendInOrder
<1>2. ASSUME NEW i \in DOMAIN outbox, FallDue(i) PROVE OrderInv'
  <2>1. outbox[i] \in Row
    BY <1>t, AnyRow
  <2>2. PICK r : r = [outbox[i] EXCEPT !.due = TRUE]
    OBVIOUS
  <2>3. /\ r \in Row /\ SameLane(r, outbox[i]) /\ r.by_rebuild = outbox[i].by_rebuild
        /\ r.received = outbox[i].received
        /\ r.due /\ r.status = outbox[i].status /\ r.attempts = outbox[i].attempts
        /\ r.landed = outbox[i].landed
    BY <2>1, <2>2 DEF Row, SameLane
  <2>4. outbox' = [outbox EXCEPT ![i] = r]
    BY <1>2, <2>2 DEF FallDue
  <2>5. ASSUME NEW k \in DOMAIN outbox, k < i PROVE InOrder(outbox[k], r)
    <3> SUFFICES ASSUME SameLane(outbox[k], outbox[i]), Untried(outbox[k]), ~r.by_rebuild,
                        WaitsNoLonger(outbox[k], outbox[i])
                 PROVE  /\ r.status = "waiting" /\ r.attempts = 0 /\ ~r.landed
                        /\ outbox[k].due
      BY <2>3 DEF InOrder, SameLane, WaitsNoLonger
    <3>1. outbox[i].status = "waiting" /\ outbox[i].attempts = 0 /\ ~outbox[i].landed
      BY <2>3, <2>5 DEF OrderInv, LanesInOrder, InOrder
    <3>2. k \in 1 .. i - 1
      BY <2>5, <1>t, LenProperties DEF TypeOK
    <3>3. outbox[k].status = "waiting" => outbox[k].due
      BY <1>2, <3>1, <3>2 DEF FallDue, Untried
    <3>4. outbox[k].status = "claimed" => outbox[k].due
      BY DEF OrderInv, ClaimedIsDue
    <3> QED
      BY <2>3, <3>1, <3>3, <3>4 DEF Untried
  <2>6. Untried(r) => Untried(outbox[i]) /\ (outbox[i].due => r.due)
    BY <2>3 DEF Untried
  <2> QED
    BY <1>t, <2>3, <2>4, <2>5, <2>6, UpdateInOrder
<1>3. ASSUME NEW i \in DOMAIN outbox, GrowStale(i) PROVE OrderInv'
  <2>1. outbox[i] \in Row
    BY <1>t, AnyRow
  <2>2. PICK r : r = [outbox[i] EXCEPT !.stale = TRUE]
    OBVIOUS
  <2>3. /\ r \in Row /\ SameLane(r, outbox[i]) /\ r.by_rebuild = outbox[i].by_rebuild
        /\ r.received = outbox[i].received
        /\ r.due = outbox[i].due /\ r.status = outbox[i].status
        /\ r.attempts = outbox[i].attempts
    BY <2>1, <2>2 DEF Row, SameLane
  <2>4. outbox' = [outbox EXCEPT ![i] = r] /\ outbox[i].status = "claimed"
    BY <1>3, <2>2 DEF GrowStale
  <2>5. \A k \in DOMAIN outbox : k < i => InOrder(outbox[k], r)
    BY <2>3, <2>4, ClaimedIsFirst
  <2>6. r.status = "claimed" => r.due
    BY <2>3 DEF OrderInv, ClaimedIsDue
  <2> QED
    BY <1>t, <2>3, <2>4, <2>5, <2>6, UpdateInOrder DEF Untried
<1>4. ASSUME NEW w \in Worker, Reclaim(w) PROVE OrderInv'
  <2>1. outbox' = [i \in DOMAIN outbox |-> Released(outbox[i])]
    BY <1>4 DEF Reclaim
  <2>2. ASSUME NEW i \in DOMAIN outbox
        PROVE  LET o == outbox[i]  r == outbox'[i]
               IN  /\ r.task = o.task /\ r.stream = o.stream /\ r.by_rebuild = o.by_rebuild
                   /\ r.received = o.received
                   /\ r.due = o.due /\ r.attempts = o.attempts /\ r.landed = o.landed
                   /\ r.status = o.status \/ (o.status = "claimed" /\ r.status = "waiting")
    BY <2>1, <1>t, AnyRow DEF Released, Row
  <2>3. DOMAIN outbox' = DOMAIN outbox
    BY <2>1
  <2>4. ClaimedIsDue'
    BY <2>2, <2>3 DEF OrderInv, ClaimedIsDue
  <2>5. ASSUME NEW k \in DOMAIN outbox, NEW i \in DOMAIN outbox, k < i
        PROVE  InOrder(outbox'[k], outbox'[i])
    <3>1. InOrder(outbox[k], outbox[i])
      BY <2>5 DEF OrderInv, LanesInOrder
    <3> QED
      BY <2>2, <3>1 DEF InOrder, Untried, SameLane, WaitsNoLonger
  <2> QED
    BY <2>3, <2>4, <2>5 DEF OrderInv, LanesInOrder
<1>5. ASSUME NEW w \in Worker, Claim(w) PROVE OrderInv'
  <2>1. PICK i \in DOMAIN outbox :
          /\ OldestOf(i, Claimable)
          /\ outbox' = [outbox EXCEPT ![i] = [outbox[i] EXCEPT !.status = "claimed", !.stale = FALSE]]
    BY <1>5 DEF Claim
  <2>2. outbox[i] \in Row
    BY <1>t, AnyRow
  <2>3. PICK r : r = [outbox[i] EXCEPT !.status = "claimed", !.stale = FALSE]
    OBVIOUS
  <2>4. /\ r \in Row /\ SameLane(r, outbox[i]) /\ r.by_rebuild = outbox[i].by_rebuild
        /\ r.received = outbox[i].received
        /\ r.due = outbox[i].due /\ r.attempts = outbox[i].attempts
    BY <2>2, <2>3 DEF Row, SameLane
  <2>5. /\ outbox[i].status = "waiting" /\ outbox[i].due
        /\ \A k \in DOMAIN outbox : outbox[k].status = "claimed" => ~SameLane(outbox[k], outbox[i])
        /\ \A k \in Claimable : i <= k
    BY <2>1 DEF OldestOf, Claimable
  <2>6. ASSUME NEW k \in DOMAIN outbox, k < i PROVE InOrder(outbox[k], r)
    <3> SUFFICES ASSUME SameLane(outbox[k], outbox[i]), Untried(outbox[k]), ~outbox[i].by_rebuild,
                        WaitsNoLonger(outbox[k], outbox[i])
                 PROVE  FALSE
      BY <2>4 DEF InOrder, SameLane, WaitsNoLonger
    <3>1. outbox[k].due
      BY <2>5, <2>6 DEF OrderInv, LanesInOrder, InOrder
    <3>2. outbox[k].status = "waiting"
      BY <2>5 DEF Untried
    <3>3. k \in Claimable
      BY <2>5, <3>1, <3>2 DEF Claimable, SameLane
    <3> QED
      BY <2>5, <2>6, <3>3, <1>t, LenProperties DEF TypeOK
  <2>7. Untried(r) => Untried(outbox[i]) /\ (outbox[i].due => r.due)
    BY <2>4, <2>5 DEF Untried
  <2> QED
    BY <1>t, <2>1, <2>3, <2>4, <2>5, <2>6, <2>7, UpdateInOrder
<1>6. ASSUME NEW w \in Worker, Drop(w) \/ Land(w) \/ MarkSent(w) \/ SendFails(w) PROVE OrderInv'
  <2>1. Working(w)
    BY <1>6 DEF Drop, Land, MarkSent, SendFails, Working
  <2>2. PICK i \in DOMAIN outbox : i = job[w].row
    BY <2>1, <1>t, JobRow
  <2>3. outbox[i] \in Row /\ outbox[i].status = "claimed" /\ outbox[i].due
    BY <1>t, <2>1, <2>2, AnyRow DEF Inv, ClaimsHeld, OrderInv, ClaimedIsDue
  <2>4. PICK r : /\ outbox' = [outbox EXCEPT ![i] = r]
                 /\ \/ r = SentRow(outbox[i]) \/ r = Rescheduled(outbox[i])
                    \/ r = [outbox[i] EXCEPT !.landed = TRUE]
    BY <1>6, <2>2 DEF Drop, Land, MarkSent, SendFails
  <2>5. /\ r \in Row /\ SameLane(r, outbox[i]) /\ r.by_rebuild = outbox[i].by_rebuild
        /\ r.received = outbox[i].received
        /\ r.status = "claimed" => r.due
        /\ Untried(r) => Untried(outbox[i]) /\ (outbox[i].due => r.due)
    BY <2>3, <2>4, OutcomeOfRow
  <2>6. \A k \in DOMAIN outbox : k < i => InOrder(outbox[k], r)
    BY <2>3, <2>5, ClaimedIsFirst
  <2> QED
    BY <1>t, <2>4, <2>5, <2>6, UpdateInOrder
<1>7. ASSUME NEW t \in Task, RebuildWrite(t) PROVE OrderInv'
  <2>1. [i \in DOMAIN outbox |-> Deleted(outbox[i], t)] = outbox
    <3>1. \A i \in DOMAIN outbox : Deleted(outbox[i], t) = outbox[i]
      BY DEF Deleted, Disciplined
    <3> QED
      BY <3>1, <1>t, LenProperties DEF TypeOK
  <2>2. PICK missing : outbox' = outbox \o NewRows(missing, t, rebuild[t], 0, TRUE)
    BY <1>7, <2>1 DEF RebuildWrite
  <2>3. rebuild[t] \in Nat /\ TRUE \in BOOLEAN
    BY <1>t DEF TypeOK
  <2> DEFINE new == NewRows(missing, t, rebuild[t], 0, TRUE)
  <2>4. new \in Seq(Row) /\ \A k \in DOMAIN new : Fresh(new[k])
    BY <2>3, NewRowsFresh
  <2> HIDE DEF new
  <2> QED
    BY <1>t, <2>2, <2>4, AppendInOrder DEF new
<1>8. \/ UNCHANGED outbox
      \/ \E t \in Task, streams \in Emission : Emit(t, streams)
      \/ \E i \in DOMAIN outbox : FallDue(i) \/ GrowStale(i)
      \/ \E w \in Worker : \/ Reclaim(w) \/ Claim(w) \/ Drop(w) \/ Land(w) \/ MarkSent(w)
                           \/ SendFails(w)
      \/ \E t \in Task : RebuildWrite(t)
  BY DEF Next, vars, Step, Check, Crash, RebuildRead
<1> QED
  BY <1>q, <1>1, <1>2, <1>3, <1>4, <1>5, <1>6, <1>7, <1>8

\* A newer row of the Router that waits no shorter is never applied before an older one
\* of its lane that no failed send has delayed, whatever crashes, claims and reclaims
\* happen, and in whatever order events were received.
THEOREM OvertakenForCauseHolds == Disciplined /\ Spec => []OvertakenForCause
<1>1. Init => OrderInv
  <2>1. Init => DOMAIN outbox = {}
    BY EmptySeq, LenProperties DEF Init
  <2> QED
    BY <2>1 DEF OrderInv, ClaimedIsDue, LanesInOrder
<1>2. Inv /\ OrderInv => OvertakenForCause
  <2> SUFFICES ASSUME Inv, OrderInv, NEW k \in DOMAIN outbox, NEW i \in DOMAIN outbox,
                      k < i, SameLane(outbox[k], outbox[i]),
                      ~outbox[k].by_rebuild, ~outbox[i].by_rebuild, outbox[i].landed,
                      outbox[k].status \in {"waiting", "claimed"},
                      ~(outbox[i].received < outbox[k].received)
               PROVE  outbox[k].attempts > 0
    BY DEF OvertakenForCause
  <2>1. WaitsNoLonger(outbox[k], outbox[i]) /\ outbox[k].attempts \in Nat
    BY AnyRow DEF Inv, Row, WaitsNoLonger
  <2>2. outbox[k].attempts # 0
    BY <2>1 DEF OrderInv, LanesInOrder, InOrder, Untried
  <2> QED
    BY <2>1, <2>2
<1> QED
  BY InvHolds, OrderStep, <1>1, <1>2, PTL DEF Spec
=============================================================================
