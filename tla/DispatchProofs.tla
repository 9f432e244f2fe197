--------------------------- MODULE DispatchProofs ---------------------------
(***************************************************************************)
(* Proofs about dispatch and branch leases, for every set of tasks and     *)
(* lanes and every number of crashes, unlocks and outages.                 *)
(***************************************************************************)
EXTENDS DispatchProps, TLAPS

\* Where the processes are determines what their registers hold.
Shape ==
  /\ runner.at \notin {"poll", "choose"} => runner.task \in Task
  /\ child.alive => runner.at = "executing"
  /\ child.heart => child.misses < MissesAllowed
  /\ unlocking.at # "no" => unlocking.lane \in Lane

Mailed == Event \cup {Unlock(b) : b \in Lane}

TypeInv == TypeOK /\ Shape

-----------------------------------------------------------------------------
(* Types of events and rows *)

\* An event of a task names it, and is no /unlock.
LEMMA EventFields ==
  ASSUME NEW e \in Event
  PROVE  e.type # "/unlock" /\ e.task \in Task
<1>1. CASE e \in PlainEvent
  BY <1>1 DEF PlainEvent
<1>2. CASE e \in ApproveEvent
  BY <1>2 DEF ApproveEvent
<1>3. CASE e \in CritOffEvent
  BY <1>3 DEF CritOffEvent
<1>4. CASE e \in RetryEvent
  BY <1>4 DEF RetryEvent
<1>5. CASE e \in DispatchEvent
  BY <1>5 DEF DispatchEvent
<1>6. CASE e \in ExecutorEvent
  BY <1>6 DEF ExecutorEvent
<1>7. CASE e \in ResumeEvent
  BY <1>7 DEF ResumeEvent
<1>8. CASE e \in ReviewEvent
  BY <1>8 DEF ReviewEvent
<1> QED
  BY <1>1, <1>2, <1>3, <1>4, <1>5, <1>6, <1>7, <1>8 DEF Event

LEMMA MailType ==
  ASSUME NEW e \in Mailed
  PROVE  IF e.type = "/unlock" THEN e.lane \in Lane ELSE e \in Event /\ e.task \in Task
<1>1. ASSUME e \in Event PROVE e.type # "/unlock" /\ e.task \in Task
  BY <1>1, EventFields
<1>2. ASSUME NEW b \in Lane, e = Unlock(b) PROVE e.type = "/unlock" /\ e.lane \in Lane
  BY <1>2 DEF Unlock
<1> QED
  BY <1>1, <1>2 DEF Mailed

LEMMA EventTypes ==
  ASSUME NEW t \in Task
  PROVE  /\ \A b \in BOOLEAN : Attempt(t, b) \in Event
         /\ \A b \in BOOLEAN : Finished(t, b) \in Event
         /\ Passed(t) \in Event
         /\ \A what \in { "internal.plan_ready", "internal.validator_over",
                          "internal.infra_fatal", "internal.lease_lost",
                          "internal.reviewer_fail", "internal.reviewer_human_review" } :
              Plain(what, t) \in Event
         /\ Order(t) \subseteq Event
<1>1. \A b \in BOOLEAN : Attempt(t, b) \in Event
  BY DEF Attempt, Event, DispatchEvent
<1>2. \A b \in BOOLEAN : Finished(t, b) \in Event
  BY DEF Finished, Event, ExecutorEvent
<1>3. Passed(t) \in Event
  BY DEF Passed, Event, ReviewEvent
<1>4. \A what \in { "internal.plan_ready", "internal.validator_over",
                    "internal.infra_fatal", "internal.lease_lost",
                    "internal.reviewer_fail", "internal.reviewer_human_review" } :
        Plain(what, t) \in PlainEvent
  BY DEF Plain, PlainEvent
<1>5. Order(t) \subseteq RetryEvent \cup PlainEvent \cup ResumeEvent
  <2> DEFINE A == [type: {"/retry"}, task: {t}, replan_required: {FALSE}]
             B == [type: {"/retry --replan", "/cancel", "internal.system_recovered"}, task: {t}]
             C == [ type: {"internal.reconcile_resume"}, task: {t}, clean: BOOLEAN,
                    continuable: {FALSE}, plan_rev: {NoPlan}, grace_ok: {FALSE} ]
  <2>1. A \subseteq RetryEvent
    BY DEF RetryEvent
  <2>2. B \subseteq PlainEvent
    BY DEF PlainEvent
  <2>3. C \subseteq ResumeEvent
    <3>1. NoPlan \in 0 .. MaxPlans
      BY DispatchAssumption DEF NoPlan
    <3> QED
      BY <3>1 DEF ResumeEvent
  <2>4. Order(t) = {e \in A \cup B \cup C : e.type \in Orders}
    BY Zenon DEF Order
  <2> HIDE DEF A, B, C
  <2> QED
    BY <2>1, <2>2, <2>3, <2>4
<1> QED
  BY <1>1, <1>2, <1>3, <1>4, <1>5 DEF Event

LEMMA RowType ==
  ASSUME NEW r \in TaskRow, r.state \in TaskState, NEW e, NEW to \in TaskState
  PROVE  /\ [Bumped(r, e, to) EXCEPT !.state_rev = 0] \in TaskRow
         /\ [Bumped(r, e, to) EXCEPT !.state_rev = 0].state \in TaskState
<1>1. /\ r.critical \in BOOLEAN
      /\ r.manual_gate_required \in BOOLEAN
      /\ r.resume_target_state \in TaskState \cup {NoTarget}
  BY DEF TaskRow
<1>2. CriticalAfter(r, e) \in BOOLEAN
  BY <1>1 DEF CriticalAfter
<1>3. GateAfter(r, e, to) \in BOOLEAN
  BY <1>1 DEF GateAfter
<1>4. ResumeTargetAfter(r, e, to) \in TaskState \cup {NoTarget}
  BY <1>1 DEF ResumeTargetAfter
<1> QED
  BY <1>2, <1>3, <1>4 DEF Bumped, TaskRow

LEMMA StageResultType ==
  ASSUME NEW t \in Task, NEW stage, NEW e \in StageResult(t, stage)
  PROVE  e \in Event
BY EventTypes DEF StageResult

LEMMA ExecutorResultType ==
  ASSUME NEW t \in Task, NEW e \in ExecutorResult(t)
  PROVE  e \in Event
BY EventTypes DEF ExecutorResult, FailureEvent

-----------------------------------------------------------------------------
(* The type invariant *)

LEMMA NoChildType == NoChild \in Child
<1>1. 0 \in 0 .. MissesAllowed /\ 0 \in 0 .. MissesAllowed + 1
  BY DEF MissesAllowed
<1> QED
  BY <1>1 DEF NoChild, Child

LEMMA NoLeaseType == NoLease \in Lease
BY DispatchAssumption DEF NoLease, Lease

LEMMA AgedType == ASSUME NEW l \in Lease PROVE Aged(l) \in Lease
<1>1. l.ttl \in 0 .. TTL /\ TTL \in Nat
  BY DispatchAssumption DEF Lease
<1>2. CASE l.ttl <= 1
  BY <1>2, NoLeaseType DEF Aged
<1>3. CASE ~(l.ttl <= 1)
  <2>1. l.ttl - 1 \in 0 .. TTL
    BY <1>1, <1>3
  <2>2. Aged(l) = [l EXCEPT !.ttl = l.ttl - 1]
    BY <1>3 DEF Aged
  <2> QED
    BY <2>1, <2>2 DEF Lease
<1> QED
  BY <1>2, <1>3

LEMMA RenewedType == ASSUME NEW l \in Lease PROVE Renewed(l) \in Lease
<1>1. TTL \in 0 .. TTL
  BY DispatchAssumption
<1> QED
  BY <1>1 DEF Renewed, Lease

LEMMA MissesType ==
  ASSUME NEW c \in Child
  PROVE  /\ c.misses \in 0 .. 2 /\ c.lost \in 0 .. 3
         /\ c.misses < MissesAllowed => c.misses + 1 \in 0 .. MissesAllowed
         /\ c.lost <= MissesAllowed => c.lost + 1 \in 0 .. MissesAllowed + 1
<1>1. c.misses \in 0 .. MissesAllowed /\ c.lost \in 0 .. MissesAllowed + 1
  BY DEF Child
<1> QED
  BY <1>1 DEF MissesAllowed

LEMMA AppendType ==
  ASSUME NEW q \in Seq(Mailed), NEW e \in Mailed
  PROVE  Append(q, e) \in Seq(Mailed)
OBVIOUS

\* What one turn of the heartbeat leaves of the child c.
Beaten(c) ==
  { [c EXCEPT !.beaten = TRUE, !.kept = TRUE, !.misses = 0],
    [c EXCEPT !.beaten = TRUE, !.misses = c.misses + 1],
    [c EXCEPT !.beaten = TRUE, !.misses = c.misses + 1,
              !.heart = FALSE, !.reason = "lease_lost"] }

LEMMA BeatenType ==
  ASSUME NEW c \in Child, c.misses < MissesAllowed, NEW d \in Beaten(c)
  PROVE  d \in Child /\ d.alive = c.alive /\ d.misses \in {0, c.misses + 1}
<1>1. c.misses + 1 \in 0 .. MissesAllowed /\ 0 \in 0 .. MissesAllowed
  BY MissesType DEF MissesAllowed
<1>2. CASE d = [c EXCEPT !.beaten = TRUE, !.kept = TRUE, !.misses = 0]
  BY <1>1, <1>2 DEF Child
<1>3. CASE d = [c EXCEPT !.beaten = TRUE, !.misses = c.misses + 1]
  BY <1>1, <1>3 DEF Child
<1>4. CASE d = [c EXCEPT !.beaten = TRUE, !.misses = c.misses + 1,
                         !.heart = FALSE, !.reason = "lease_lost"]
  BY <1>1, <1>4 DEF Child
<1> QED
  BY <1>2, <1>3, <1>4 DEF Beaten

\* A heartbeat thread that goes on has missed less than it may.
LEMMA HeartType ==
  ASSUME NEW c \in Child, NEW d,
         \/ d = [c EXCEPT !.beaten = TRUE, !.kept = TRUE, !.misses = 0]
         \/ /\ ~GivesUp(c.misses + 1)
            /\ d = [c EXCEPT !.beaten = TRUE, !.misses = c.misses + 1]
         \/ d = [c EXCEPT !.beaten = TRUE, !.misses = c.misses + 1,
                          !.heart = FALSE, !.reason = "lease_lost"]
  PROVE  d.heart => d.misses < MissesAllowed
<1>1. CASE d = [c EXCEPT !.beaten = TRUE, !.kept = TRUE, !.misses = 0]
  <2>1. d.misses = 0
    BY <1>1 DEF Child
  <2> QED
    BY <2>1 DEF MissesAllowed
<1>2. CASE /\ ~GivesUp(c.misses + 1)
           /\ d = [c EXCEPT !.beaten = TRUE, !.misses = c.misses + 1]
  <2>1. d.misses = c.misses + 1 /\ c.misses \in 0 .. 2
    BY <1>2, MissesType DEF Child
  <2> QED
    BY <1>2, <2>1 DEF GivesUp, MissesAllowed
<1>3. CASE d = [c EXCEPT !.beaten = TRUE, !.misses = c.misses + 1,
                         !.heart = FALSE, !.reason = "lease_lost"]
  <2>1. d.heart = FALSE
    BY <1>3 DEF Child
  <2> QED
    BY <2>1
<1> QED
  BY <1>1, <1>2, <1>3

LEMMA TickedType ==
  ASSUME NEW c \in Child, NEW n \in {c.lost, c.lost + 1}, NEW d,
         n = c.lost \/ c.lost <= MissesAllowed,
         d = [c EXCEPT !.beaten = FALSE, !.lost = n]
  PROVE  d \in Child /\ d.alive = c.alive /\ d.heart = c.heart /\ d.misses = c.misses
<1>1. n \in 0 .. MissesAllowed + 1
  BY MissesType DEF Child
<1> QED
  BY <1>1 DEF Child

LEMMA InitType == Init => TypeInv
<1> SUFFICES ASSUME Init PROVE TypeInv
  OBVIOUS
<1> USE DispatchAssumption DEF Init
<1>1. tasks \in [Task -> {r \in TaskRow : r.state \in TaskState}]
  BY DEF AbsentRow, TaskRow, TaskState, NoTarget
<1>2. waiter \in [Task -> {"absent", "queued", "leased"}] /\ queue \in [Lane -> Seq(Task)]
  OBVIOUS
<1>3. last_token \in [Lane -> Nat] /\ lease \in [Lane -> Lease]
  BY DEF NoLease, Lease
<1>4. child \in Child
  BY NoChildType
<1>5. runner \in [at: At, task: Task \cup {NoTask}, token: Nat] /\ handle \in [Task -> Nat]
  BY DEF At
<1>6. Shape
  BY DEF Shape, NoChild
<1>7. inbox \in Seq(Mailed)
  OBVIOUS
<1> QED
  BY <1>1, <1>2, <1>3, <1>4, <1>5, <1>6, <1>7 DEF TypeInv, TypeOK, Mailed

LEMMA EmitType ==
  ASSUME TypeOK, NEW e \in Mailed, Emit(e)
  PROVE  inbox' \in Seq(Mailed)
BY DEF TypeOK, Emit, Mailed

LEMMA SufferType ==
  ASSUME TypeOK, NEW what \in Kind, Suffer(what)
  PROVE  suffered' \in [Kind -> Nat]
<1>1. suffered \in [Kind -> Nat]
  BY DEF TypeOK
<1>2. suffered' = [suffered EXCEPT ![what] = suffered[what] + 1]
  BY DEF Suffer
<1>3. suffered[what] + 1 \in Nat
  BY <1>1
<1> QED
  BY <1>1, <1>2, <1>3, Zenon

LEMMA GotoType ==
  ASSUME NEW at \in At, NEW t \in Task \cup {NoTask}, NEW k \in Nat, Goto(at, t, k)
  PROVE  /\ runner' \in [at: At, task: Task \cup {NoTask}, token: Nat]
         /\ runner'.at = at /\ runner'.task = t
BY DEF Goto

LEMMA NextType == TypeInv /\ [Next]_vars => TypeInv'
<1> SUFFICES ASSUME TypeInv, [Next]_vars PROVE TypeInv'
  OBVIOUS
<1> USE DEF TypeInv, TypeOK, Shape, tables, runtime
<1>1. ASSUME NEW t \in Task, Enqueue(t) PROVE TypeInv'
  <2>1. queue' \in [Lane -> Seq(Task)]
    <3>1. LaneOf[t] \in Lane
      BY DispatchAssumption
    <3>2. Append(queue[LaneOf[t]], t) \in Seq(Task)
      BY <3>1
    <3> QED
      BY <1>1, <3>2 DEF Enqueue
  <2>2. waiter' \in [Task -> {"absent", "queued", "leased"}]
    BY <1>1 DEF Enqueue
  <2> QED
    BY <1>1, <2>1, <2>2 DEF Enqueue
<1>2. ASSUME NEW t \in Task, NEW e \in Order(t), Command(e) PROVE TypeInv'
  <2>1. inbox' \in Seq(Mailed)
    BY <1>2, EventTypes, EmitType DEF Command, Mailed
  <2>2. suffered' \in [Kind -> Nat]
    BY <1>2, SufferType DEF Command, Kind
  <2> QED
    BY <1>2, <2>1, <2>2 DEF Command, Mailed
<1>3. ASSUME NEW b \in Lane, AskUnlock(b) PROVE TypeInv'
  <2>1. inbox' \in Seq(Mailed)
    BY <1>3, EmitType DEF AskUnlock, Mailed
  <2>2. suffered' \in [Kind -> Nat]
    BY <1>3, SufferType DEF AskUnlock, Kind
  <2> QED
    BY <1>3, <2>1, <2>2 DEF AskUnlock, Mailed
<1>4. CASE RouteTask
  <2>1. inbox' \in Seq(Mailed)
    BY <1>4 DEF RouteTask, Mailed
  <2>2. Head(inbox) \in Mailed
    BY <1>4 DEF RouteTask, Mailed
  <2>3. Head(inbox).task \in Task
    BY <1>4, <2>2, MailType DEF RouteTask
  <2>4. tasks' \in [Task -> {r \in TaskRow : r.state \in TaskState}]
    <3>1. CASE UNCHANGED tasks
      BY <3>1
    <3>2. ASSUME NEW to \in TaskState,
                 tasks' = [tasks EXCEPT ![Head(inbox).task] =
                    [Bumped(tasks[Head(inbox).task], Head(inbox), to) EXCEPT !.state_rev = 0]]
          PROVE  tasks' \in [Task -> {r \in TaskRow : r.state \in TaskState}]
      BY <2>3, <3>2, RowType
    <3> QED
      BY <1>4, <3>1, <3>2 DEF RouteTask
  <2> QED
    BY <1>4, <2>1, <2>4 DEF RouteTask, Mailed
<1>5. CASE RouteUnlock
  <2>1. inbox' \in Seq(Mailed) /\ Head(inbox) \in Mailed
    BY <1>5 DEF RouteUnlock, Mailed
  <2>2. Head(inbox).lane \in Lane
    BY <1>5, <2>1, MailType DEF RouteUnlock
  <2> QED
    BY <1>5, <2>1, <2>2 DEF RouteUnlock, Requeued, Mailed
<1>6. CASE ForceRelease
  <2>1. NoLease \in Lease
    BY NoLeaseType
  <2> QED
    BY <1>6, <2>1 DEF ForceRelease
<1>7. CASE FinishUnlock
  <2>1. inbox' \in Seq(Mailed)
    <3>1. CASE queue[unlocking.lane] = << >>
      BY <1>7, <3>1 DEF FinishUnlock, Mailed
    <3>2. CASE queue[unlocking.lane] # << >>
      <4>1. Head(queue[unlocking.lane]) \in Task
        BY <1>7, <3>2 DEF FinishUnlock
      <4>2. Attempt(Head(queue[unlocking.lane]), FALSE) \in Mailed
        BY <4>1, EventTypes DEF Mailed
      <4>3. inbox' = Append(inbox, Attempt(Head(queue[unlocking.lane]), FALSE))
        BY <1>7, <3>2 DEF FinishUnlock
      <4>4. inbox \in Seq(Mailed)
        BY DEF Mailed
      <4> HIDE DEF TypeInv, TypeOK, Shape
      <4> QED
        BY <4>2, <4>3, <4>4, AppendType
    <3> QED
      BY <3>1, <3>2
  <2>2. waiter' \in [Task -> {"absent", "queued", "leased"}]
    BY <1>7 DEF FinishUnlock, Requeued
  <2> QED
    BY <1>7, <2>1, <2>2 DEF FinishUnlock, Mailed
<1>8. CASE RouterCrash
  <2>1. suffered' \in [Kind -> Nat]
    BY <1>8, SufferType DEF RouterCrash, Kind
  <2> QED
    BY <1>8, <2>1 DEF RouterCrash
<1>9. ASSUME NEW t \in Task, TakeToken(t) PROVE TypeInv'
  <2>1. LaneOf[t] \in Lane
    BY DispatchAssumption
  <2>2. NextToken(LaneOf[t]) \in Nat
    BY <2>1 DEF NextToken
  <2>3. last_token' \in [Lane -> Nat]
    BY <1>9, <2>2 DEF TakeToken
  <2>4. /\ runner' \in [at: At, task: Task \cup {NoTask}, token: Nat]
        /\ runner'.at = "token" /\ runner'.task = t
    BY <1>9, <2>2, GotoType DEF TakeToken, At
  <2>5. ~child.alive
    BY <1>9 DEF TakeToken
  <2> QED
    BY <1>9, <2>3, <2>4, <2>5 DEF TakeToken
<1>10. CASE Acquire
  <2>1. runner.task \in Task /\ ~child.alive
    BY <1>10 DEF Acquire
  <2>2. NewLease(runner.task, runner.token) \in Lease
    BY <2>1, DispatchAssumption DEF NewLease, Lease
  <2>3. lease' \in [Lane -> Lease]
    BY <1>10, <2>2 DEF Acquire
  <2>4. /\ runner' \in [at: At, task: Task \cup {NoTask}, token: Nat]
        /\ runner'.at \notin {"poll", "choose"} => runner'.task \in Task
    <3>1. CASE Held(LaneOf[runner.task])
      BY <1>10, <3>1, GotoType DEF Acquire, MayAcquire, At
    <3>2. CASE ~Held(LaneOf[runner.task])
      BY <1>10, <2>1, <3>2 DEF Acquire, MayAcquire, At
    <3> QED
      BY <3>1, <3>2
  <2> QED
    BY <1>10, <2>1, <2>3, <2>4 DEF Acquire
<1>11. CASE RecordAttempt
  <2>1. inbox' \in Seq(Mailed)
    BY <1>11, EventTypes, EmitType DEF RecordAttempt, Mailed
  <2> QED
    BY <1>11, <2>1 DEF RecordAttempt, Mailed, At
<1>12. CASE MarkLeased
  BY <1>12 DEF MarkLeased, StatusLeased, Goto, At
<1>13. CASE NothingToRun
  BY <1>13 DEF NothingToRun, Goto, At
<1>14. ASSUME NEW t \in Task, StartStage(t) PROVE TypeInv'
  BY <1>14 DEF StartStage, RunsNext, Goto, At
<1>15. ASSUME NEW t \in Task, StartExecutor(t) PROVE TypeInv'
  <2>1. child' \in Child
    BY <1>15, NoChildType DEF StartExecutor, Child
  <2>2. child'.alive /\ child'.misses = 0
    BY <1>15 DEF StartExecutor, NoChild
  <2>3. /\ runner' \in [at: At, task: Task \cup {NoTask}, token: Nat]
        /\ runner'.at = "executing" /\ runner'.task = t
    BY <1>15, GotoType DEF StartExecutor, At
  <2> QED
    BY <1>15, <2>1, <2>2, <2>3 DEF StartExecutor, MissesAllowed
<1>16. FreshRunner => handle' \in [Task -> Nat] /\ child' \in Child /\ owed' \subseteq Task
                      /\ runner' \in [at: At, task: Task \cup {NoTask}, token: Nat]
                      /\ runner'.at = "poll" /\ ~child'.alive /\ ~child'.heart
  <2>1. NoChild.alive = FALSE /\ NoChild.heart = FALSE
    BY DEF NoChild
  <2> QED
    BY <2>1, NoChildType DEF FreshRunner, Goto, At
<1>17. ASSUME NEW t \in Task, LeaseRefused(t) PROVE TypeInv'
  BY <1>16, <1>17 DEF LeaseRefused
<1>18. CASE RunnerCrash
  <2>1. suffered' \in [Kind -> Nat]
    BY <1>18, SufferType DEF RunnerCrash, Kind
  <2> QED
    BY <1>16, <1>18, <2>1 DEF RunnerCrash
<1>19. CASE EndStage
  <2>1. inbox' \in Seq(Mailed)
    BY <1>19, StageResultType, EmitType DEF EndStage, Mailed
  <2> QED
    BY <1>19, <2>1 DEF EndStage, Mailed, Goto, At
<1>20. CASE EndExecutor
  <2>1. inbox' \in Seq(Mailed)
    BY <1>20, ExecutorResultType, EmitType DEF EndExecutor, Mailed
  <2> QED
    BY <1>20, <2>1, NoChildType DEF EndExecutor, NoChild, Mailed, Goto, At
<1>21. CASE Beat
  <2>1. runner.task \in Task /\ LaneOf[runner.task] \in Lane /\ child.misses < MissesAllowed
    BY <1>21, DispatchAssumption DEF Beat
  <2>2. lease' \in [Lane -> Lease]
    <3>1. Renewed(lease[LaneOf[runner.task]]) \in Lease
      BY <2>1, RenewedType
    <3>2. \/ lease' = lease
          \/ lease' = [lease EXCEPT ![LaneOf[runner.task]] =
                          Renewed(lease[LaneOf[runner.task]])]
      BY <1>21 DEF Beat
    <3> QED
      BY <3>1, <3>2
  <2>3. child \in Child /\ owed' \subseteq Task
    BY <1>21, <2>1 DEF Beat
  <2>4. child' \in Beaten(child)
    BY <1>21, Zenon DEF Beat, Beaten
  <2>5. child' \in Child /\ child'.alive = child.alive
    BY <2>1, <2>3, <2>4, BeatenType
  <2>6. child'.heart => child'.misses < MissesAllowed
    <3>1. \/ child' = [child EXCEPT !.beaten = TRUE, !.kept = TRUE, !.misses = 0]
          \/ /\ ~GivesUp(child.misses + 1)
             /\ child' = [child EXCEPT !.beaten = TRUE, !.misses = child.misses + 1]
          \/ child' = [child EXCEPT !.beaten = TRUE, !.misses = child.misses + 1,
                                    !.heart = FALSE, !.reason = "lease_lost"]
      BY <1>21, Zenon DEF Beat
    <3> HIDE DEF TypeInv, TypeOK, Shape
    <3> QED
      BY <2>3, <3>1, HeartType
  <2> QED
    BY <1>21, <2>2, <2>3, <2>5, <2>6 DEF Beat
<1>22. CASE Observe
  BY <1>22 DEF Observe, SeesWatched, Child
<1>23. ASSUME NEW t \in Task, AppendLeaseLost(t) PROVE TypeInv'
  <2>1. inbox' \in Seq(Mailed)
    BY <1>23, EventTypes, EmitType DEF AppendLeaseLost, Mailed
  <2> QED
    BY <1>23, <2>1 DEF AppendLeaseLost, Mailed
<1>24. CASE HeartDies
  <2>1. suffered' \in [Kind -> Nat]
    BY <1>24, SufferType DEF HeartDies, Kind
  <2> QED
    BY <1>24, <2>1 DEF HeartDies, Child
<1>25. CASE Tick
  <2>1. lease' \in [Lane -> Lease]
    BY <1>25, AgedType DEF Tick
  <2>2. /\ child' \in Child
        /\ child'.alive = child.alive /\ child'.heart = child.heart
        /\ child'.misses = child.misses
    <3>1. child \in Child
      OBVIOUS
    <3>2. CASE Bereft /\ child.lost <= MissesAllowed
      <4>1. child' = [child EXCEPT !.beaten = FALSE, !.lost = child.lost + 1]
        BY <1>25, <3>2, Zenon DEF Tick
      <4> HIDE DEF TypeInv, TypeOK, Shape
      <4> QED
        BY <3>1, <3>2, <4>1, TickedType
    <3>3. CASE ~(Bereft /\ child.lost <= MissesAllowed)
      <4>1. child' = [child EXCEPT !.beaten = FALSE, !.lost = child.lost]
        BY <1>25, <3>3, Zenon DEF Tick
      <4> HIDE DEF TypeInv, TypeOK, Shape
      <4> QED
        BY <3>1, <4>1, TickedType
    <3> QED
      BY <3>2, <3>3
  <2> QED
    BY <1>25, <2>1, <2>2 DEF Tick
<1>26. CASE UNCHANGED vars
  BY <1>26 DEF vars
<1> QED
  BY <1>1, <1>2, <1>3, <1>4, <1>5, <1>6, <1>7, <1>8, <1>9, <1>10, <1>11, <1>12, <1>13, <1>14,
     <1>15, <1>17, <1>18, <1>19, <1>20, <1>21, <1>22, <1>23, <1>24, <1>25, <1>26
  DEF Next, Route, Poll, Run, End, Threads

\* Every variable keeps its type, whatever crashes and however late.
THEOREM TypeCorrect == Spec => []TypeOK
<1>1. Spec => []TypeInv
  BY InitType, NextType, PTL DEF Spec
<1> QED
  BY <1>1, PTL DEF TypeInv

-----------------------------------------------------------------------------
(* Fencing tokens *)

Dispatching == {"token", "leased", "recorded"}

\* Tokens in use never exceed the counter, the one in flight is the newest and
\* above every handle of its lane, and the lease it has won is its own.
TokenInv ==
  /\ \A b \in Lane : lease[b].token <= last_token[b]
  /\ \A t \in Task : handle[t] <= last_token[LaneOf[t]]
  /\ runner.at \in Dispatching =>
       /\ runner.token = last_token[LaneOf[runner.task]]
       /\ \A t \in Task : LaneOf[t] = LaneOf[runner.task] => handle[t] < runner.token
  /\ runner.at \in {"leased", "recorded"} /\ Held(LaneOf[runner.task]) =>
       Holds(runner.task, runner.token)
  /\ LeaseOutranks

\* A lease that is not won in this step is the one that was there, or gone.
Fades(l, m) == m = NoLease \/ (l # NoLease /\ m.task = l.task /\ m.token = l.token)

LEMMA AgedFades == ASSUME NEW l \in Lease PROVE Fades(l, Aged(l))
<1>1. CASE l.ttl <= 1
  BY <1>1 DEF Aged, Fades
<1>2. CASE ~(l.ttl <= 1)
  <2>1. Aged(l).task = l.task /\ Aged(l).token = l.token
    BY <1>2 DEF Aged, Lease
  <2>2. l # NoLease
    <3>1. NoLease.ttl = 0
      BY DEF NoLease
    <3> QED
      BY <1>2, <3>1
  <2> QED
    BY <2>1, <2>2 DEF Fades
<1> QED
  BY <1>1, <1>2

LEMMA RenewedFades ==
  ASSUME NEW l \in Lease, l.task \in Task
  PROVE  Fades(l, Renewed(l))
<1>1. Renewed(l).task = l.task /\ Renewed(l).token = l.token
  BY DEF Renewed, Lease
<1>2. NoLease.task = NoTask
  BY DEF NoLease
<1>3. l # NoLease
  BY <1>2, DispatchAssumption
<1> QED
  BY <1>1, <1>3 DEF Fades

\* Beat, ForceRelease and Tick leave every lease as it was or gone; no other
\* action but Acquire touches one.
LEMMA LeasesFade ==
  ASSUME TypeInv, Beat \/ ForceRelease \/ Tick \/ UNCHANGED lease, NEW b \in Lane
  PROVE  lease'[b] = lease[b] \/ Fades(lease[b], lease'[b])
<1> USE DEF TypeInv, TypeOK
<1>1. CASE Beat
  <2>1. runner.task \in Task /\ LaneOf[runner.task] \in Lane
    BY <1>1, DispatchAssumption DEF Beat, Shape
  <2>2. CASE Holds(runner.task, child.token)
    <3>1. lease' = [lease EXCEPT ![LaneOf[runner.task]] = Renewed(lease[LaneOf[runner.task]])]
      BY <1>1, <2>2 DEF Beat
    <3>2. Fades(lease[LaneOf[runner.task]], Renewed(lease[LaneOf[runner.task]]))
      BY <2>1, <2>2, RenewedFades DEF Holds
    <3> QED
      BY <2>1, <3>1, <3>2
  <2>3. CASE ~Holds(runner.task, child.token)
    BY <1>1, <2>3 DEF Beat
  <2> QED
    BY <2>2, <2>3
<1>2. CASE ForceRelease
  BY <1>2 DEF ForceRelease, Fades
<1>3. CASE Tick
  BY <1>3, AgedFades DEF Tick
<1>4. CASE UNCHANGED lease
  BY <1>4
<1> QED
  BY <1>1, <1>2, <1>3, <1>4

\* Every step that wins no lease, draws no token and keeps or drops the handles.
LEMMA TokensFade ==
  ASSUME TypeInv, TypeInv', TokenInv,
         \A b \in Lane : lease'[b] = lease[b] \/ Fades(lease[b], lease'[b]),
         last_token' = last_token,
         \A t \in Task : handle'[t] = handle[t] \/ handle'[t] = 0,
         \/ runner' = runner
         \/ runner'.at \notin Dispatching
         \/ runner.at = "leased" /\ runner' = [runner EXCEPT !.at = "recorded"]
  PROVE  TokenInv'
<1>1. NoLease.token = 0 /\ NoLease.task = NoTask
  BY DEF NoLease
<1>2. \A b \in Lane : last_token[b] \in Nat /\ lease[b].token \in Nat
  BY DEF TypeInv, TypeOK, Lease
<1>3. \A t \in Task : LaneOf[t] \in Lane /\ handle[t] \in Nat /\ handle'[t] \in Nat
  BY DispatchAssumption DEF TypeInv, TypeOK
<1>4. \A b \in Lane : lease'[b].token <= last_token'[b]
  BY <1>1, <1>2 DEF TokenInv, Fades
<1>5. \A t \in Task : handle'[t] <= last_token'[LaneOf[t]]
  <2> SUFFICES ASSUME NEW t \in Task PROVE handle'[t] <= last_token[LaneOf[t]]
    OBVIOUS
  <2>1. handle[t] <= last_token[LaneOf[t]] /\ last_token[LaneOf[t]] \in Nat
    BY <1>2, <1>3 DEF TokenInv
  <2> QED
    BY <2>1
<1>a. runner \in [at: At, task: Task \cup {NoTask}, token: Nat]
  BY DEF TypeInv, TypeOK
<1>6. ASSUME runner'.at \in Dispatching
      PROVE  /\ runner.at \in Dispatching
             /\ runner'.task = runner.task /\ runner'.token = runner.token
             /\ runner.task \in Task
             /\ runner'.at \in {"leased", "recorded"} => runner.at \in {"leased", "recorded"}
  <2>1. \/ runner' = runner
        \/ runner.at = "leased" /\ runner' = [runner EXCEPT !.at = "recorded"]
    BY <1>6
  <2>2. runner.at \in Dispatching => runner.task \in Task
    BY DEF TypeInv, Shape, Dispatching
  <2> QED
    BY <1>6, <1>a, <2>1, <2>2 DEF Dispatching
<1>7. ASSUME runner'.at \in Dispatching
      PROVE  /\ runner'.token = last_token'[LaneOf[runner'.task]]
             /\ \A t \in Task : LaneOf[t] = LaneOf[runner'.task] => handle'[t] < runner'.token
  <2>1. \A t \in Task : LaneOf[t] = LaneOf[runner.task] => handle[t] < runner.token
    BY <1>6, <1>7 DEF TokenInv
  <2>2. runner.token \in Nat /\ runner.task \in Task
    BY <1>6, <1>7, <1>a
  <2>3. runner.token > 0
    <3>1. handle[runner.task] < runner.token /\ handle[runner.task] \in Nat
      BY <1>3, <2>1, <2>2
    <3> QED
      BY <2>2, <3>1
  <2>4. runner.token = last_token[LaneOf[runner.task]]
    BY <1>6, <1>7 DEF TokenInv
  <2> QED
    BY <1>3, <1>6, <1>7, <2>1, <2>2, <2>3, <2>4
<1>8. ASSUME runner'.at \in {"leased", "recorded"}, lease'[LaneOf[runner'.task]] # NoLease
      PROVE  /\ lease'[LaneOf[runner'.task]].task = runner'.task
             /\ lease'[LaneOf[runner'.task]].token = runner'.token
  <2>1. runner'.at \in Dispatching
    BY <1>8 DEF Dispatching
  <2>2. Held(LaneOf[runner.task]) => Holds(runner.task, runner.token)
    BY <1>6, <1>8, <2>1 DEF TokenInv
  <2>3. LaneOf[runner.task] \in Lane
    BY <1>3, <1>6, <2>1
  <2>4. /\ lease[LaneOf[runner.task]] # NoLease
        /\ lease'[LaneOf[runner.task]].task = lease[LaneOf[runner.task]].task
        /\ lease'[LaneOf[runner.task]].token = lease[LaneOf[runner.task]].token
    BY <1>6, <1>8, <2>1, <2>3 DEF Fades
  <2> QED
    BY <1>6, <2>1, <2>2, <2>4 DEF Held, Holds
<1>9. LeaseOutranks'
  <2> SUFFICES ASSUME NEW t \in Task, lease'[LaneOf[t]] # NoLease, handle'[t] # 0
               PROVE  \/ handle'[t] < lease'[LaneOf[t]].token
                      \/ /\ lease'[LaneOf[t]].task = t
                         /\ lease'[LaneOf[t]].token = handle'[t]
    BY DEF LeaseOutranks, Held, Holds
  <2>1. handle'[t] = handle[t] /\ handle[t] # 0 /\ LaneOf[t] \in Lane
    BY <1>3
  <2>2. /\ Held(LaneOf[t])
        /\ lease'[LaneOf[t]].task = lease[LaneOf[t]].task
        /\ lease'[LaneOf[t]].token = lease[LaneOf[t]].token
    BY <2>1 DEF Held, Fades
  <2>3. handle[t] < lease[LaneOf[t]].token \/ Holds(t, handle[t])
    BY <2>1, <2>2 DEF TokenInv, LeaseOutranks
  <2> QED
    BY <2>1, <2>2, <2>3 DEF Holds
<1> QED
  BY <1>4, <1>5, <1>7, <1>8, <1>9 DEF TokenInv, Held, Holds

LEMMA TokenInit == Init => TokenInv
<1> SUFFICES ASSUME Init PROVE TokenInv
  OBVIOUS
<1>1. runner.at = "poll" /\ \A b \in Lane : lease[b] = NoLease /\ last_token[b] = 0
  BY DEF Init
<1>2. \A t \in Task : handle[t] = 0 /\ LaneOf[t] \in Lane
  BY DispatchAssumption DEF Init
<1>3. NoLease.token = 0
  BY DEF NoLease
<1> QED
  BY <1>1, <1>2, <1>3 DEF TokenInv, LeaseOutranks, Dispatching

LEMMA TokenNext == TypeInv /\ TypeInv' /\ TokenInv /\ [Next]_vars => TokenInv'
<1> SUFFICES ASSUME TypeInv, TypeInv', TokenInv, [Next]_vars PROVE TokenInv'
  OBVIOUS
<1> USE DEF tables, runtime
<1>a. NoLease.token = 0 /\ NoLease.task = NoTask /\ NoTask \notin Task
  BY DispatchAssumption DEF NoLease
<1>b. \A t \in Task : LaneOf[t] \in Lane /\ handle[t] \in Nat
  BY DispatchAssumption DEF TypeInv, TypeOK
<1>c. \A b \in Lane : last_token[b] \in Nat /\ lease[b].token \in Nat
  BY DEF TypeInv, TypeOK, Lease
<1>d. runner \in [at: At, task: Task \cup {NoTask}, token: Nat]
  BY DEF TypeInv, TypeOK
<1>1. ASSUME NEW t \in Task, TakeToken(t) PROVE TokenInv'
  <2> DEFINE b == LaneOf[t]
  <2>1. b \in Lane /\ last_token \in [Lane -> Nat]
    BY <1>b DEF TypeInv, TypeOK
  <2>2. /\ last_token'[b] = last_token[b] + 1
        /\ \A c \in Lane : c # b => last_token'[c] = last_token[c]
    BY <1>1, <2>1 DEF TakeToken, NextToken
  <2>3. runner'.at = "token" /\ runner'.task = t /\ runner'.token = last_token[b] + 1
    BY <1>1 DEF TakeToken, NextToken, Goto
  <2>4. lease' = lease /\ handle' = handle
    BY <1>1 DEF TakeToken
  <2>5. \A c \in Lane : lease'[c].token <= last_token'[c]
    BY <1>c, <2>1, <2>2, <2>4 DEF TokenInv
  <2>6. \A u \in Task : handle'[u] <= last_token'[LaneOf[u]]
    <3> SUFFICES ASSUME NEW u \in Task PROVE handle[u] <= last_token'[LaneOf[u]]
      BY <2>4
    <3>1. handle[u] <= last_token[LaneOf[u]] /\ handle[u] \in Nat /\ LaneOf[u] \in Lane
      BY <1>b DEF TokenInv
    <3> QED
      BY <1>c, <2>2, <3>1
  <2>7. \A u \in Task : LaneOf[u] = b => handle'[u] < last_token[b] + 1
    <3> SUFFICES ASSUME NEW u \in Task, LaneOf[u] = b PROVE handle[u] < last_token[b] + 1
      BY <2>4
    <3>1. handle[u] <= last_token[LaneOf[u]] /\ handle[u] \in Nat
      BY <1>b DEF TokenInv
    <3> QED
      BY <1>c, <2>1, <3>1
  <2>8. LeaseOutranks'
    BY <2>4 DEF TokenInv, LeaseOutranks, Held, Holds
  <2> HIDE DEF b
  <2>9. b = LaneOf[t]
    BY DEF b
  <2> QED
    BY <2>2, <2>3, <2>5, <2>6, <2>7, <2>8, <2>9 DEF TokenInv
<1>2. CASE Acquire
  <2>1. runner.task \in Task /\ runner.token \in Nat
    BY <1>2, <1>d DEF Acquire, TypeInv, Shape
  <2>2. CASE Held(LaneOf[runner.task])
    <3>1. runner'.at = "choose" /\ UNCHANGED <<lease, last_token, handle>>
      BY <1>2, <2>2 DEF Acquire, MayAcquire, Goto
    <3> QED
      BY <3>1, TokensFade DEF Dispatching
  <2>3. CASE ~Held(LaneOf[runner.task])
    <3> DEFINE b == LaneOf[runner.task]
               n == NewLease(runner.task, runner.token)
    <3>1. b \in Lane /\ lease \in [Lane -> Lease]
      BY <1>b, <2>1 DEF TypeInv, TypeOK
    <3>2. n.task = runner.task /\ n.token = runner.token
      BY DEF NewLease
    <3>3. /\ lease'[b] = n
          /\ \A c \in Lane : c # b => lease'[c] = lease[c]
          /\ runner' = [runner EXCEPT !.at = "leased"]
          /\ UNCHANGED <<last_token, handle>>
      BY <1>2, <2>3, <3>1 DEF Acquire, MayAcquire
    <3>4. runner'.at = "leased" /\ runner'.task = runner.task /\ runner'.token = runner.token
      BY <1>d, <3>3
    <3>5. /\ runner.token = last_token[b]
          /\ \A u \in Task : LaneOf[u] = b => handle[u] < runner.token
      BY <1>2 DEF TokenInv, Acquire, Dispatching
    <3> HIDE DEF b, n
    <3>6. \A c \in Lane : lease'[c].token <= last_token'[c]
      BY <1>c, <2>1, <3>1, <3>2, <3>3, <3>5 DEF TokenInv
    <3>7. LeaseOutranks'
      <4> SUFFICES ASSUME NEW u \in Task, lease'[LaneOf[u]] # NoLease, handle'[u] # 0
                   PROVE  \/ handle'[u] < lease'[LaneOf[u]].token
                          \/ /\ lease'[LaneOf[u]].task = u
                             /\ lease'[LaneOf[u]].token = handle'[u]
        BY DEF LeaseOutranks, Held, Holds
      <4>1. CASE LaneOf[u] = b
        BY <3>2, <3>3, <3>5, <4>1
      <4>2. CASE LaneOf[u] # b
        BY <1>b, <3>3, <4>2 DEF TokenInv, LeaseOutranks, Held, Holds
      <4> QED
        BY <4>1, <4>2
    <3>8. b = LaneOf[runner.task]
      BY DEF b
    <3>9. \A u \in Task : handle'[u] <= last_token'[LaneOf[u]]
      BY <3>3 DEF TokenInv
    <3> QED
      BY <3>2, <3>3, <3>4, <3>5, <3>6, <3>7, <3>8, <3>9 DEF TokenInv, Held, Holds
  <2> QED
    BY <2>2, <2>3
<1>3. CASE MarkLeased
  <2>1. runner.task \in Task /\ runner.token \in Nat /\ handle \in [Task -> Nat]
    BY <1>3, <1>d DEF MarkLeased, TypeInv, TypeOK, Shape
  <2>2. /\ handle'[runner.task] = runner.token
        /\ \A u \in Task : u # runner.task => handle'[u] = handle[u]
        /\ runner'.at = "choose"
        /\ UNCHANGED <<lease, last_token>>
    BY <1>3, <2>1 DEF MarkLeased, Goto
  <2>3. runner.token = last_token[LaneOf[runner.task]]
    BY <1>3 DEF TokenInv, MarkLeased, Dispatching
  <2>4. Held(LaneOf[runner.task]) => Holds(runner.task, runner.token)
    BY <1>3 DEF TokenInv, MarkLeased
  <2>5. \A u \in Task : handle'[u] <= last_token'[LaneOf[u]]
    BY <1>c, <1>b, <2>1, <2>2, <2>3 DEF TokenInv
  <2>6. LeaseOutranks'
    BY <2>2, <2>4 DEF TokenInv, LeaseOutranks, Held, Holds
  <2> QED
    BY <2>2, <2>5, <2>6 DEF TokenInv, Dispatching
<1>4. CASE RecordAttempt
  BY <1>4, TokensFade DEF RecordAttempt
<1>5. ASSUME Beat \/ ForceRelease \/ Tick PROVE TokenInv'
  <2>1. \A b \in Lane : lease'[b] = lease[b] \/ Fades(lease[b], lease'[b])
    BY <1>5, LeasesFade
  <2>2. UNCHANGED <<last_token, handle, runner>>
    BY <1>5 DEF Beat, ForceRelease, Tick
  <2> QED
    BY <2>1, <2>2, TokensFade
<1>6. ASSUME NEW t \in Task, LeaseRefused(t) PROVE TokenInv'
  BY <1>6, TokensFade DEF LeaseRefused, FreshRunner, Goto, Dispatching
<1>7. CASE RunnerCrash
  BY <1>7, TokensFade DEF RunnerCrash, FreshRunner, Goto, Dispatching
<1>8. ASSUME NothingToRun \/ EndStage \/ EndExecutor \/ \E t \in Task : StartStage(t)
      PROVE  TokenInv'
  <2>1. UNCHANGED <<lease, last_token, handle>>
    BY <1>8 DEF NothingToRun, EndStage, EndExecutor, StartStage
  <2>2. runner'.at \notin Dispatching
    BY <1>8 DEF NothingToRun, EndStage, EndExecutor, StartStage, Goto, Dispatching
  <2> QED
    BY <2>1, <2>2, TokensFade
<1>9. ASSUME NEW t \in Task, StartExecutor(t) PROVE TokenInv'
  <2>1. UNCHANGED <<lease, last_token, handle>> /\ runner'.at \notin Dispatching
    BY <1>9 DEF StartExecutor, Goto, Dispatching
  <2> QED
    BY <2>1, TokensFade
<1>10. ASSUME UNCHANGED <<lease, last_token, handle, runner>> PROVE TokenInv'
  BY <1>10, TokensFade
<1>11. ASSUME \/ \E t \in Task : Enqueue(t) \/ AppendLeaseLost(t) \/ \E e \in Order(t) : Command(e)
              \/ \E b \in Lane : AskUnlock(b)
              \/ RouteTask \/ RouteUnlock \/ FinishUnlock \/ RouterCrash
              \/ Observe \/ HeartDies \/ UNCHANGED vars
       PROVE  UNCHANGED <<lease, last_token, handle, runner>>
  BY <1>11 DEF Enqueue, AppendLeaseLost, Command, AskUnlock, RouteTask, RouteUnlock,
     FinishUnlock, RouterCrash, Observe, HeartDies, vars
<1> QED
  BY <1>1, <1>2, <1>3, <1>4, <1>5, <1>6, <1>7, <1>8, <1>9, <1>10, <1>11
  DEF Next, Route, Poll, Run, End, Threads

\* The token in Redis is above every other token the runner remembers for that
\* lane, through unlocks, expiries, restarts and burnt tokens.
THEOREM LeaseOutranksHolds == Spec => []LeaseOutranks
<1>1. Spec => []TypeInv
  BY InitType, NextType, PTL DEF Spec
<1>2. Spec => []TokenInv
  BY <1>1, TokenInit, TokenNext, PTL DEF Spec
<1> QED
  BY <1>2, PTL DEF TokenInv


-----------------------------------------------------------------------------
(* The heartbeat *)

\* A child that has lost its lease cannot win it back, and its heartbeat counts
\* at least every interval but the one that is running.
FenceInv ==
  child.alive =>
    /\ child.lost > 0 => ~Holds(runner.task, child.token)
    /\ child.heart => child.lost <= (IF child.beaten THEN child.misses ELSE child.misses + 1)

LEMMA FenceStays ==
  ASSUME TypeInv, FenceInv, lease' = lease, runner' = runner,
         \/ child' = child
         \/ child' = [child EXCEPT !.heart = FALSE]
         \/ \E why \in Watched : child' = [child EXCEPT !.watch = FALSE, !.reason = why]
  PROVE  FenceInv'
<1>1. child \in Child
  BY DEF TypeInv, TypeOK
<1>2. /\ child'.alive = child.alive /\ child'.lost = child.lost
      /\ child'.token = child.token /\ child'.beaten = child.beaten
      /\ child'.misses = child.misses
      /\ child'.heart => child.heart
  BY <1>1 DEF Child
<1> QED
  BY <1>2 DEF FenceInv, Holds

LEMMA FenceNext == TypeInv /\ TypeInv' /\ FenceInv /\ [Next]_vars => FenceInv'
<1> SUFFICES ASSUME TypeInv, TypeInv', FenceInv, [Next]_vars, child'.alive PROVE FenceInv'
  BY DEF FenceInv
<1> USE DEF tables, runtime
<1>a. child \in Child /\ child.misses \in 0 .. 2 /\ child.lost \in 0 .. 3
  BY MissesType DEF TypeInv, TypeOK
<1>1. ASSUME NEW t \in Task, StartExecutor(t) PROVE FenceInv'
  <2>1. child'.lost = 0 /\ child'.misses = 0 /\ child'.beaten = TRUE
    BY <1>1 DEF StartExecutor, NoChild
  <2> QED
    BY <2>1 DEF FenceInv
<1>2. CASE Beat
  <2>1. UNCHANGED runner /\ child.alive /\ child.heart /\ ~child.beaten
    BY <1>2 DEF Beat
  <2>2. CASE Holds(runner.task, child.token)
    <3>1. child' = [child EXCEPT !.beaten = TRUE, !.kept = TRUE, !.misses = 0]
      BY <1>2, <2>2, Zenon DEF Beat
    <3>2. child'.lost = child.lost /\ child'.misses = 0 /\ child'.beaten = TRUE
      BY <1>a, <3>1 DEF Child
    <3>3. child.lost = 0
      BY <1>a, <2>1, <2>2 DEF FenceInv
    <3> QED
      BY <3>2, <3>3 DEF FenceInv
  <2>3. CASE ~Holds(runner.task, child.token)
    <3>1. /\ lease' = lease
          /\ \/ child' = [child EXCEPT !.beaten = TRUE, !.misses = child.misses + 1]
             \/ child' = [child EXCEPT !.beaten = TRUE, !.misses = child.misses + 1,
                                       !.heart = FALSE, !.reason = "lease_lost"]
      BY <1>2, <2>3, Zenon DEF Beat
    <3>2. /\ child'.lost = child.lost /\ child'.misses = child.misses + 1
          /\ child'.beaten = TRUE /\ child'.token = child.token
      BY <1>a, <3>1 DEF Child
    <3> QED
      BY <1>a, <2>1, <2>3, <3>1, <3>2 DEF FenceInv, Holds
  <2> QED
    BY <2>2, <2>3
<1>3. CASE ForceRelease
  <2>1. runner' = runner /\ child' = child
    BY <1>3 DEF ForceRelease
  <2>2. child.alive => LaneOf[runner.task] \in Lane /\ runner.task \in Task
    BY DispatchAssumption DEF TypeInv, Shape
  <2>3. \A b \in Lane : lease'[b] = lease[b] \/ Fades(lease[b], lease'[b])
    BY <1>3, LeasesFade
  <2>4. NoLease.task \notin Task
    BY DispatchAssumption DEF NoLease
  <2> QED
    BY <2>1, <2>2, <2>3, <2>4 DEF FenceInv, Holds, Fades
<1>4. CASE Tick
  <2>1. runner' = runner
    BY <1>4 DEF Tick
  <2>2. \A b \in Lane : lease'[b] = lease[b] \/ Fades(lease[b], lease'[b])
    BY <1>4, LeasesFade
  <2>3. PICK n \in {child.lost, child.lost + 1} :
          /\ child' = [child EXCEPT !.beaten = FALSE, !.lost = n]
          /\ n # child.lost => Bereft
    <3>1. CASE Bereft /\ child.lost <= MissesAllowed
      <4>1. child' = [child EXCEPT !.beaten = FALSE, !.lost = child.lost + 1]
        BY <1>4, <3>1, Zenon DEF Tick
      <4> QED
        BY <3>1, <4>1
    <3>2. CASE ~(Bereft /\ child.lost <= MissesAllowed)
      <4>1. child' = [child EXCEPT !.beaten = FALSE, !.lost = child.lost]
        BY <1>4, <3>2, Zenon DEF Tick
      <4> QED
        BY <4>1
    <3> QED
      BY <3>1, <3>2
  <2>4. child.alive
    BY <1>a, <2>3 DEF Child
  <2>5. /\ child.heart => child.beaten
        /\ child.heart => child.lost <= (IF child.beaten THEN child.misses ELSE child.misses + 1)
    BY <1>4, <2>4 DEF Tick, FenceInv
  <2>6. /\ child'.lost = n /\ child'.token = child.token
        /\ child'.heart = child.heart /\ child'.beaten = FALSE /\ child'.misses = child.misses
    BY <1>a, <2>3 DEF Child
  <2>7. child'.heart => child'.lost <= child'.misses + 1
    BY <1>a, <2>3, <2>5, <2>6
  <2>8. LaneOf[runner.task] \in Lane /\ runner.task \in Task /\ NoLease.task \notin Task
    BY <2>4, DispatchAssumption DEF TypeInv, Shape, NoLease
  <2>9. n > 0 => ~Holds(runner.task, child.token)
    <3>1. CASE n = child.lost
      BY <2>4, <3>1 DEF FenceInv
    <3>2. CASE n # child.lost
      BY <2>3, <3>2 DEF Bereft
    <3> QED
      BY <3>1, <3>2
  <2> QED
    BY <2>1, <2>2, <2>6, <2>7, <2>8, <2>9 DEF FenceInv, Holds, Fades
<1>5. CASE Observe
  <2>1. PICK why \in Watched : child' = [child EXCEPT !.watch = FALSE, !.reason = why]
    BY <1>5 DEF Observe, SeesWatched
  <2> QED
    BY <1>5, <2>1, FenceStays DEF Observe
<1>6. CASE HeartDies
  BY <1>6, FenceStays DEF HeartDies
<1>7. ASSUME \/ Acquire \/ RecordAttempt \/ MarkLeased \/ NothingToRun \/ EndStage
             \/ EndExecutor \/ RunnerCrash
             \/ \E t \in Task : TakeToken(t) \/ StartStage(t) \/ LeaseRefused(t)
      PROVE  FALSE
  <2>1. child' = NoChild \/ (child' = child /\ runner.at # "executing")
    BY <1>7 DEF Acquire, RecordAttempt, MarkLeased, NothingToRun, EndStage, EndExecutor,
       RunnerCrash, TakeToken, StartStage, LeaseRefused, RunsNext, FreshRunner
  <2>2. NoChild.alive = FALSE
    BY DEF NoChild
  <2> QED
    BY <2>1, <2>2 DEF TypeInv, Shape
<1>8. ASSUME \/ \E t \in Task : Enqueue(t) \/ AppendLeaseLost(t) \/ \E e \in Order(t) : Command(e)
             \/ \E b \in Lane : AskUnlock(b)
             \/ RouteTask \/ RouteUnlock \/ FinishUnlock \/ RouterCrash
             \/ UNCHANGED vars
      PROVE  UNCHANGED <<lease, runner, child>>
  BY <1>8 DEF Enqueue, AppendLeaseLost, Command, AskUnlock, RouteTask, RouteUnlock,
     FinishUnlock, RouterCrash, vars
<1>9. ASSUME UNCHANGED <<lease, runner, child>> PROVE FenceInv'
  BY <1>9, FenceStays
<1> QED
  BY <1>1, <1>2, <1>3, <1>4, <1>5, <1>6, <1>7, <1>8, <1>9
  DEF Next, Route, Poll, Run, End, Threads

\* A child with a live heartbeat thread outlives its lease by at most two renew
\* intervals, however it lost it.
THEOREM HeartbeatFencesHolds == Spec => []HeartbeatFences
<1>1. Spec => []TypeInv
  BY InitType, NextType, PTL DEF Spec
<1>2. Init => FenceInv
  <2>1. NoChild.alive = FALSE
    BY DEF NoChild
  <2> QED
    BY <2>1 DEF Init, FenceInv
<1>3. Spec => []FenceInv
  BY <1>1, <1>2, FenceNext, PTL DEF Spec
<1>4. TypeInv /\ FenceInv => HeartbeatFences
  <2> SUFFICES ASSUME TypeInv, FenceInv, child.alive, child.heart
               PROVE  child.lost <= MissesAllowed
    BY DEF HeartbeatFences
  <2>1. child.misses < MissesAllowed /\ child.misses \in 0 .. 2 /\ child.lost \in 0 .. 3
    BY MissesType DEF TypeInv, TypeOK, Shape
  <2>2. child.lost <= child.misses \/ child.lost <= child.misses + 1
    BY DEF FenceInv
  <2> QED
    BY <2>1, <2>2 DEF MissesAllowed
<1> QED
  BY <1>1, <1>3, <1>4, PTL

-----------------------------------------------------------------------------
(* The lease of a child that keeps it *)

\* Orders and mishaps are counted, each kind by itself.
LEMMA SufferCounts ==
  ASSUME TypeInv, NEW what \in Kind, Suffer(what)
  PROVE  suffered'[what] # 0 /\ \A k \in Kind \ {what} : suffered'[k] = suffered[k]
BY DEF TypeInv, TypeOK, Suffer

\* What has not happened by now had not happened a step ago.
LEMMA SuffersOrNot ==
  ASSUME TypeInv, [Next]_vars
  PROVE  \A k \in Kind : suffered'[k] = 0 => suffered[k] = 0
<1>1. suffered' = suffered \/ \E what \in Kind : Suffer(what)
  <2>1. ASSUME \/ RunnerCrash \/ RouterCrash \/ HeartDies
               \/ \E t \in Task : \E e \in Order(t) : Command(e)
               \/ \E b \in Lane : AskUnlock(b)
        PROVE  \E what \in Kind : Suffer(what)
    BY <2>1 DEF RunnerCrash, RouterCrash, HeartDies, Command, AskUnlock, Kind
  <2>2. ASSUME \/ \E t \in Task : Enqueue(t) \/ AppendLeaseLost(t) \/ TakeToken(t)
                                  \/ StartStage(t) \/ StartExecutor(t) \/ LeaseRefused(t)
               \/ RouteTask \/ RouteUnlock \/ ForceRelease \/ FinishUnlock
               \/ Acquire \/ RecordAttempt \/ MarkLeased \/ NothingToRun \/ EndStage
               \/ EndExecutor \/ Beat \/ Observe \/ Tick \/ UNCHANGED vars
        PROVE  suffered' = suffered
    BY <2>2 DEF Enqueue, AppendLeaseLost, TakeToken, StartStage, StartExecutor, LeaseRefused,
       RouteTask, RouteUnlock, ForceRelease, FinishUnlock, Acquire, RecordAttempt,
       MarkLeased, NothingToRun, EndStage, EndExecutor, Beat, Observe, Tick, vars
  <2> QED
    BY <2>1, <2>2 DEF Next, Route, Poll, Run, End, Threads
<1> QED
  BY <1>1, SufferCounts

\* Until somebody asks for an /unlock, none is on its way to a lease.
NoUnlockInv ==
  suffered["unlock"] = 0 => inbox \in Seq(Event) /\ unlocking.at = "no"

LEMMA EmitKeeps ==
  ASSUME NEW S, inbox \in Seq(S), NEW e \in S, Emit(e)
  PROVE  inbox' \in Seq(S)
BY DEF Emit

LEMMA NoUnlockNext == TypeInv /\ NoUnlockInv /\ [Next]_vars => NoUnlockInv'
<1> SUFFICES ASSUME TypeInv, NoUnlockInv, [Next]_vars, suffered'["unlock"] = 0
             PROVE  inbox' \in Seq(Event) /\ unlocking'.at = "no"
  BY DEF NoUnlockInv
<1> USE DEF tables, runtime
<1>0. inbox \in Seq(Event) /\ unlocking.at = "no"
  BY SuffersOrNot DEF NoUnlockInv, Kind
<1>1. ASSUME NEW t \in Task, NEW e \in Order(t), Command(e)
      PROVE  inbox' \in Seq(Event) /\ unlocking' = unlocking
  BY <1>0, <1>1, EventTypes, EmitKeeps DEF Command
<1>2. ASSUME NEW b \in Lane, AskUnlock(b) PROVE FALSE
  BY <1>2, SufferCounts DEF AskUnlock, Kind
<1>3. ASSUME RouteTask PROVE inbox' \in Seq(Event) /\ unlocking' = unlocking
  BY <1>0, <1>3 DEF RouteTask
<1>4. ASSUME RouteUnlock PROVE FALSE
  <2>1. Head(inbox) \in Event
    BY <1>0, <1>4 DEF RouteUnlock
  <2> QED
    BY <1>4, <2>1, EventFields DEF RouteUnlock
<1>5. ASSUME ForceRelease \/ FinishUnlock \/ RouterCrash PROVE FALSE
  BY <1>0, <1>5 DEF ForceRelease, FinishUnlock, RouterCrash
<1>6. ASSUME RecordAttempt \/ EndStage \/ EndExecutor \/ \E t \in Task : AppendLeaseLost(t)
      PROVE  inbox' \in Seq(Event) /\ unlocking' = unlocking
  <2>1. RecordAttempt \/ EndStage \/ EndExecutor => runner.task \in Task
    BY DEF RecordAttempt, EndStage, EndExecutor, TypeInv, Shape
  <2>2. PICK e \in Event : Emit(e)
    <3>1. CASE RecordAttempt
      BY <2>1, <3>1, EventTypes DEF RecordAttempt
    <3>2. CASE EndStage
      BY <2>1, <3>2, StageResultType DEF EndStage
    <3>3. CASE EndExecutor
      BY <2>1, <3>3, ExecutorResultType DEF EndExecutor
    <3>4. ASSUME NEW t \in Task, AppendLeaseLost(t) PROVE \E e \in Event : Emit(e)
      BY <3>4, EventTypes DEF AppendLeaseLost
    <3> QED
      BY <1>6, <3>1, <3>2, <3>3, <3>4
  <2> QED
    BY <1>0, <1>6, <2>2, EmitKeeps DEF RecordAttempt, EndStage, EndExecutor, AppendLeaseLost
<1>7. ASSUME \/ \E t \in Task : Enqueue(t) \/ TakeToken(t) \/ StartStage(t)
                                \/ StartExecutor(t) \/ LeaseRefused(t)
             \/ Acquire \/ MarkLeased \/ NothingToRun \/ RunnerCrash
             \/ Beat \/ Observe \/ HeartDies \/ Tick \/ UNCHANGED vars
      PROVE  UNCHANGED <<inbox, unlocking>>
  BY <1>7 DEF Enqueue, TakeToken, StartStage, StartExecutor, LeaseRefused, Acquire,
     MarkLeased, NothingToRun, RunnerCrash, Beat, Observe, HeartDies, Tick, vars
<1> QED
  BY <1>0, <1>1, <1>2, <1>3, <1>4, <1>5, <1>6, <1>7
  DEF Next, Route, Poll, Run, End, Threads

\* A child that has renewed its lease holds it with a full TTL after its turn of
\* the interval, and with one interval less before it.
KeptInv ==
  suffered["unlock"] = 0 /\ child.alive /\ child.heart /\ child.kept =>
    /\ Holds(runner.task, child.token)
    /\ lease[LaneOf[runner.task]].ttl = IF child.beaten THEN TTL ELSE TTL - 1

LEMMA KeptNext ==
  TypeInv /\ TypeInv' /\ NoUnlockInv /\ KeptInv /\ [Next]_vars /\ TTL > 1 => KeptInv'
<1> SUFFICES ASSUME TypeInv, TypeInv', NoUnlockInv, KeptInv, [Next]_vars, TTL > 1,
                    suffered'["unlock"] = 0, child'.alive, child'.heart, child'.kept
             PROVE  KeptInv'
  BY DEF KeptInv
<1> USE DEF tables, runtime
<1>0. suffered["unlock"] = 0 /\ unlocking.at = "no"
  BY SuffersOrNot DEF NoUnlockInv, Kind
<1>a. child \in Child /\ lease \in [Lane -> Lease]
  BY DEF TypeInv, TypeOK
<1>1. ASSUME NEW t \in Task, StartExecutor(t) PROVE FALSE
  <2>1. child'.kept = FALSE
    BY <1>1 DEF StartExecutor, NoChild
  <2> QED
    BY <2>1
<1>2. CASE Beat
  <2>1. /\ UNCHANGED <<runner, suffered>>
        /\ child.alive /\ child.heart
        /\ LaneOf[runner.task] \in Lane
    BY <1>2, DispatchAssumption DEF Beat, TypeInv, Shape
  <2>2. CASE Holds(runner.task, child.token)
    <3>1. child' = [child EXCEPT !.beaten = TRUE, !.kept = TRUE, !.misses = 0]
      BY <1>2, <2>2, Zenon DEF Beat
    <3>2. lease' = [lease EXCEPT ![LaneOf[runner.task]] = Renewed(lease[LaneOf[runner.task]])]
      BY <1>2, <2>2 DEF Beat
    <3>3. child'.beaten = TRUE /\ child'.token = child.token
      BY <1>a, <3>1 DEF Child
    <3>4. lease'[LaneOf[runner.task]] = [lease[LaneOf[runner.task]] EXCEPT !.ttl = TTL]
      BY <1>a, <2>1, <3>2 DEF Renewed
    <3>5. lease[LaneOf[runner.task]] \in Lease
      BY <1>a, <2>1
    <3>6. /\ lease'[LaneOf[runner.task]].ttl = TTL
          /\ lease'[LaneOf[runner.task]].task = lease[LaneOf[runner.task]].task
          /\ lease'[LaneOf[runner.task]].token = lease[LaneOf[runner.task]].token
      BY <3>4, <3>5 DEF Lease
    <3> QED
      BY <2>1, <2>2, <3>3, <3>6 DEF KeptInv, Holds
  <2>3. CASE ~Holds(runner.task, child.token)
    <3>1. \/ child' = [child EXCEPT !.beaten = TRUE, !.misses = child.misses + 1]
          \/ child' = [child EXCEPT !.beaten = TRUE, !.misses = child.misses + 1,
                                    !.heart = FALSE, !.reason = "lease_lost"]
      BY <1>2, <2>3, Zenon DEF Beat
    <3>2. child.kept
      BY <1>a, <3>1 DEF Child
    <3> QED
      BY <1>0, <2>1, <2>3, <3>2 DEF KeptInv
  <2> QED
    BY <2>2, <2>3
<1>3. CASE Tick
  <2>1. PICK n : child' = [child EXCEPT !.beaten = FALSE, !.lost = n]
    BY <1>3, Zenon DEF Tick
  <2>2. /\ child.alive /\ child.heart /\ child.kept
        /\ child'.beaten = FALSE /\ child'.token = child.token
    BY <1>a, <2>1 DEF Child
  <2>3. /\ child.beaten /\ UNCHANGED <<runner, suffered>>
        /\ \A b \in Lane : lease'[b] = Aged(lease[b])
    BY <1>3, <2>2 DEF Tick
  <2>4. LaneOf[runner.task] \in Lane
    BY <2>2, DispatchAssumption DEF TypeInv, Shape
  <2> DEFINE l == lease[LaneOf[runner.task]]
  <2>5. l \in Lease /\ l.ttl = TTL /\ Holds(runner.task, child.token)
    BY <1>0, <1>a, <2>2, <2>3, <2>4 DEF KeptInv
  <2>6. TTL \in Nat
    BY DispatchAssumption
  <2>7. Aged(l) = [l EXCEPT !.ttl = TTL - 1]
    BY <2>5, <2>6 DEF Aged
  <2>8. Aged(l).ttl = TTL - 1 /\ Aged(l).task = l.task /\ Aged(l).token = l.token
    BY <2>5, <2>7 DEF Lease
  <2> QED
    BY <2>2, <2>3, <2>4, <2>5, <2>8 DEF KeptInv, Holds
<1>4. CASE Observe
  <2>1. PICK why : child' = [child EXCEPT !.watch = FALSE, !.reason = why]
    BY <1>4 DEF Observe
  <2>2. /\ child.alive /\ child.heart /\ child.kept
        /\ child'.beaten = child.beaten /\ child'.token = child.token
    BY <1>a, <2>1 DEF Child
  <2> QED
    BY <1>0, <1>4, <2>2 DEF Observe, KeptInv, Holds
<1>5. ASSUME HeartDies PROVE FALSE
  <2>1. child'.heart = FALSE
    BY <1>5, <1>a DEF HeartDies, Child
  <2> QED
    BY <2>1
<1>6. ASSUME \/ Acquire \/ RecordAttempt \/ MarkLeased \/ NothingToRun \/ EndStage
             \/ EndExecutor \/ RunnerCrash
             \/ \E t \in Task : TakeToken(t) \/ StartStage(t) \/ LeaseRefused(t)
      PROVE  FALSE
  <2>1. child' = NoChild \/ (child' = child /\ runner.at # "executing")
    BY <1>6 DEF Acquire, RecordAttempt, MarkLeased, NothingToRun, EndStage, EndExecutor,
       RunnerCrash, TakeToken, StartStage, LeaseRefused, RunsNext, FreshRunner
  <2>2. NoChild.alive = FALSE
    BY DEF NoChild
  <2> QED
    BY <2>1, <2>2 DEF TypeInv, Shape
<1>7. ASSUME ForceRelease \/ FinishUnlock \/ RouterCrash PROVE FALSE
  BY <1>0, <1>7 DEF ForceRelease, FinishUnlock, RouterCrash
<1>8. ASSUME \/ \E t \in Task : Enqueue(t) \/ AppendLeaseLost(t) \/ \E e \in Order(t) : Command(e)
             \/ \E b \in Lane : AskUnlock(b)
             \/ RouteTask \/ RouteUnlock \/ UNCHANGED vars
      PROVE  UNCHANGED <<lease, runner, child>>
  BY <1>8 DEF Enqueue, AppendLeaseLost, Command, AskUnlock, RouteTask, RouteUnlock, vars
<1>9. ASSUME UNCHANGED <<lease, runner, child>> PROVE KeptInv'
  BY <1>0, <1>9 DEF KeptInv, Holds
<1> QED
  BY <1>1, <1>2, <1>3, <1>4, <1>5, <1>6, <1>7, <1>8, <1>9
  DEF Next, Route, Poll, Run, End, Threads

\* A lease that lasts for two renew intervals or more never runs out under a
\* child that has renewed it once: only /unlock takes it.
THEOREM OnlyUnlockTakesItHolds == ASSUME TTL > 1 PROVE Spec => []OnlyUnlockTakesIt
<1>1. Spec => []TypeInv
  BY InitType, NextType, PTL DEF Spec
<1>2. Init => NoUnlockInv
  BY DEF Init, NoUnlockInv
<1>3. Spec => []NoUnlockInv
  BY <1>1, <1>2, NoUnlockNext, PTL DEF Spec
<1>4. Init => KeptInv
  <2>1. NoChild.alive = FALSE
    BY DEF NoChild
  <2> QED
    BY <2>1 DEF Init, KeptInv
<1>5. TypeInv /\ TypeInv' /\ NoUnlockInv /\ KeptInv /\ [Next]_vars => KeptInv'
  BY KeptNext
<1>6. Spec => []KeptInv
  BY <1>1, <1>3, <1>4, <1>5, PTL DEF Spec
<1>7. TypeInv /\ KeptInv => OnlyUnlockTakesIt
  <2>1. TypeInv => suffered["unlock"] \in Nat
    BY DEF TypeInv, TypeOK, Kind
  <2> QED
    BY <2>1 DEF KeptInv, OnlyUnlockTakesIt
<1> QED
  BY <1>1, <1>6, <1>7, PTL

-----------------------------------------------------------------------------
(* Queued waiters *)

Quiet == \A what \in Kind : suffered[what] = 0

\* What the runner itself appends.
RunnerTypes ==
  { "internal.dispatch_attempt", "internal.executor_finished", "internal.plan_ready",
    "internal.validator_over", "internal.infra_fatal", "internal.lease_lost",
    "internal.reviewer_pass", "internal.reviewer_fail", "internal.reviewer_human_review" }

\* Step has appended the attempt of t, and has yet to mark its waiter.
Recording(t) == runner.at = "recorded" /\ runner.task = t

\* Events that move no queued task, but for the one whose attempt is on its way
\* while step goes on to mark it leased.
Harmless ==
  {e \in Event :
     /\ e.type \in RunnerTypes
     /\ e.type = "internal.dispatch_attempt" => waiter[e.task] = "leased" \/ Recording(e.task)}

\* Left alone, the inbox holds nothing else, and the runner only works on the
\* waiter of a task that is still queued.
QuietInv ==
  Quiet =>
    /\ unlocking.at = "no"
    /\ inbox \in Seq(Harmless)
    /\ runner.at \in Dispatching => waiter[runner.task] = "queued"
    /\ \A t \in Task :
         waiter[t] = "queued" => tasks[t].state = "plan_approved" \/ Recording(t)

\* Of what the runner appends only an attempt moves an approved task.
LEMMA ApprovedStays ==
  ASSUME NEW r, r.state = "plan_approved", NEW p, NEW e, NEW to,
         e.type \in RunnerTypes \ {"internal.dispatch_attempt"}
  PROVE  ~Leads(r, p, e, to)
BY DEF RunnerTypes, Leads, PlanningLeads, ImplementingLeads, ReviewingLeads, CommandLeads

\* What the stages append is not an attempt.
LEMMA ResultTypes ==
  ASSUME NEW t \in Task
  PROVE  /\ \A stage : \A e \in StageResult(t, stage) :
              e.type \in RunnerTypes \ {"internal.dispatch_attempt"}
         /\ \A e \in ExecutorResult(t) : e.type \in RunnerTypes \ {"internal.dispatch_attempt"}
         /\ Plain("internal.lease_lost", t).type \in RunnerTypes \ {"internal.dispatch_attempt"}
BY DEF StageResult, ExecutorResult, FailureEvent, Finished, Passed, Plain, RunnerTypes

LEMMA SeqOfLarger ==
  ASSUME NEW S, NEW T, S \subseteq T, NEW q \in Seq(S)
  PROVE  q \in Seq(T)
OBVIOUS

\* While nobody interferes: no order is given, nothing crashes, nothing is
\* unlocked.
LEMMA QuietStep ==
  ASSUME TypeInv, [Next]_vars, Quiet'
  PROVE  /\ Quiet
         /\ ~RunnerCrash /\ ~RouterCrash /\ ~HeartDies
         /\ \A t \in Task : \A e \in Order(t) : ~Command(e)
         /\ \A b \in Lane : ~AskUnlock(b)
<1>1. Quiet
  BY SuffersOrNot DEF Quiet
<1>2. \A what \in Kind : ~Suffer(what)
  BY SufferCounts DEF Quiet
<1> QED
  BY <1>1, <1>2 DEF RunnerCrash, RouterCrash, HeartDies, Command, AskUnlock, Kind

\* A step that leaves waiters and the dispatching runner as they are, and adds
\* no attempt, keeps QuietInv.
LEMMA QuietStays ==
  ASSUME TypeInv, QuietInv, Quiet, UNCHANGED <<tasks, waiter, unlocking>>,
         \/ UNCHANGED inbox
         \/ \E e \in Event : /\ e.type \in RunnerTypes \ {"internal.dispatch_attempt"}
                             /\ Emit(e)
         \/ UNCHANGED runner /\ inbox # << >> /\ inbox' = Tail(inbox),
         \/ UNCHANGED runner
         \/ runner.at # "recorded" /\ runner'.at \notin Dispatching
  PROVE  QuietInv'
<1>1. Harmless \subseteq Harmless'
  BY DEF Harmless, Recording
<1>2. inbox \in Seq(Harmless')
  BY <1>1, SeqOfLarger DEF QuietInv
<1>3. inbox' \in Seq(Harmless')
  <2>1. ASSUME NEW e \in Event, e.type \in RunnerTypes \ {"internal.dispatch_attempt"}, Emit(e)
        PROVE  inbox' \in Seq(Harmless')
    <3>1. e \in Harmless'
      BY <2>1 DEF Harmless
    <3> QED
      BY <1>2, <2>1, <3>1, EmitKeeps
  <2>2. ASSUME inbox # << >>, inbox' = Tail(inbox) PROVE inbox' \in Seq(Harmless')
    BY <1>2, <2>2
  <2> QED
    BY <1>2, <2>1, <2>2
<1> QED
  BY <1>3 DEF QuietInv, Recording, Dispatching

LEMMA QuietNext == TypeInv /\ QuietInv /\ [Next]_vars => QuietInv'
<1> SUFFICES ASSUME TypeInv, QuietInv, [Next]_vars, Quiet' PROVE QuietInv'
  BY DEF QuietInv
<1> USE DEF tables, runtime
<1>0. /\ Quiet
      /\ unlocking.at = "no"
      /\ inbox \in Seq(Harmless)
      /\ runner.at \in Dispatching => waiter[runner.task] = "queued"
      /\ \A t \in Task :
           waiter[t] = "queued" => tasks[t].state = "plan_approved" \/ Recording(t)
  BY QuietStep DEF QuietInv
<1>a. waiter \in [Task -> {"absent", "queued", "leased"}] /\ tasks \in [Task -> TaskRow]
  BY DEF TypeInv, TypeOK
<1>1. ASSUME NEW t \in Task, Enqueue(t) PROVE QuietInv'
  <2>1. /\ waiter[t] = "absent" /\ tasks[t].state = "plan_approved"
        /\ waiter' = [waiter EXCEPT ![t] = "queued"]
        /\ UNCHANGED <<tasks, runner, inbox, unlocking>>
    BY <1>1 DEF Enqueue
  <2>2. \A u \in Task : u # t => waiter'[u] = waiter[u]
    BY <1>a, <2>1
  <2>3. waiter'[t] = "queued"
    BY <1>a, <2>1
  <2>4. Harmless \subseteq Harmless'
    BY <2>1, <2>2, EventFields DEF Harmless, Recording
  <2>5. inbox' \in Seq(Harmless')
    BY <1>0, <2>1, <2>4, SeqOfLarger
  <2>6. runner.at \in Dispatching => runner.task \in Task
    BY DEF TypeInv, Shape, Dispatching
  <2> QED
    BY <1>0, <2>1, <2>2, <2>3, <2>5, <2>6 DEF QuietInv, Recording
<1>2. CASE RouteTask
  <2> DEFINE e == Head(inbox)
  <2>1. e \in Harmless /\ inbox # << >> /\ inbox' = Tail(inbox)
    BY <1>0, <1>2 DEF RouteTask
  <2>2. e.task \in Task /\ UNCHANGED <<waiter, runner, unlocking>>
    BY <1>2, <2>1, EventFields DEF RouteTask, Harmless
  <2>3. CASE UNCHANGED tasks
    BY <1>0, <2>1, <2>2, <2>3, QuietStays
  <2>4. ASSUME NEW to \in TaskState, Leads(tasks[e.task], Plan, e, to),
               tasks' = [tasks EXCEPT ![e.task] =
                           [Bumped(tasks[e.task], e, to) EXCEPT !.state_rev = 0]]
        PROVE  QuietInv'
    <3>1. waiter[e.task] = "queued" => Recording(e.task)
      <4> SUFFICES ASSUME waiter[e.task] = "queued", ~Recording(e.task) PROVE FALSE
        OBVIOUS
      <4>1. tasks[e.task].state = "plan_approved"
        BY <1>0, <2>2
      <4>2. e.type \in RunnerTypes \ {"internal.dispatch_attempt"}
        BY <2>1 DEF Harmless
      <4> QED
        BY <2>4, <4>1, <4>2, ApprovedStays
    <3>2. \A t \in Task : t # e.task => tasks'[t] = tasks[t]
      BY <1>a, <2>4
    <3>3. Harmless \subseteq Harmless'
      BY <2>2 DEF Harmless, Recording
    <3>4. inbox' \in Seq(Harmless')
      <4>1. inbox \in Seq(Harmless')
        BY <1>0, <3>3, SeqOfLarger
      <4> QED
        BY <2>1, <4>1
    <3> HIDE DEF e
    <3> QED
      BY <1>0, <2>2, <3>1, <3>2, <3>4 DEF QuietInv, Recording
  <2> QED
    BY <1>2, <2>3, <2>4 DEF RouteTask
<1>3. ASSUME RouteUnlock PROVE FALSE
  <2>1. Head(inbox) \in Harmless
    BY <1>0, <1>3 DEF RouteUnlock
  <2> QED
    BY <1>3, <2>1, EventFields DEF RouteUnlock, Harmless
<1>4. ASSUME ForceRelease \/ FinishUnlock PROVE FALSE
  BY <1>0, <1>4 DEF ForceRelease, FinishUnlock
<1>5. ASSUME NEW t \in Task, TakeToken(t) PROVE QuietInv'
  <2>1. /\ runner.at = "poll" /\ waiter[t] = "queued"
        /\ UNCHANGED <<tasks, waiter, inbox, unlocking>>
        /\ runner'.at = "token" /\ runner'.task = t
    BY <1>5 DEF TakeToken, Candidate, Dispatchable, HeadWaiter, Goto
  <2>2. Harmless \subseteq Harmless'
    BY <2>1 DEF Harmless, Recording
  <2>3. inbox' \in Seq(Harmless')
    BY <1>0, <2>1, <2>2, SeqOfLarger
  <2> QED
    BY <1>0, <2>1, <2>3 DEF QuietInv, Recording
<1>6. CASE Acquire
  <2>1. /\ runner.at = "token" /\ UNCHANGED <<tasks, waiter, inbox, unlocking>>
        /\ \/ runner'.at = "choose"
           \/ runner'.at = "leased" /\ runner'.task = runner.task
    <3>1. runner \in [at: At, task: Task \cup {NoTask}, token: Nat]
      BY DEF TypeInv, TypeOK
    <3> QED
      BY <1>6, <3>1 DEF Acquire, Goto
  <2>2. Harmless \subseteq Harmless'
    BY <2>1 DEF Harmless, Recording
  <2>3. inbox' \in Seq(Harmless')
    BY <1>0, <2>1, <2>2, SeqOfLarger
  <2> QED
    BY <1>0, <2>1, <2>3 DEF QuietInv, Recording, Dispatching
<1>7. CASE RecordAttempt
  <2>1. /\ runner.at = "leased" /\ runner.task \in Task
        /\ UNCHANGED <<tasks, waiter, unlocking>>
        /\ Emit(Attempt(runner.task, TRUE))
        /\ runner'.at = "recorded" /\ runner'.task = runner.task
    <3>1. runner \in [at: At, task: Task \cup {NoTask}, token: Nat]
      BY DEF TypeInv, TypeOK
    <3> QED
      BY <1>7, <3>1 DEF RecordAttempt, TypeInv, Shape
  <2>2. Harmless \subseteq Harmless'
    BY <2>1 DEF Harmless, Recording
  <2>3. Attempt(runner.task, TRUE) \in Harmless'
    <3>1. Attempt(runner.task, TRUE) \in Event
      BY <2>1, EventTypes
    <3>2. Attempt(runner.task, TRUE).type \in RunnerTypes
      BY DEF Attempt, RunnerTypes
    <3>3. Attempt(runner.task, TRUE).task = runner.task
      BY DEF Attempt
    <3> QED
      BY <2>1, <3>1, <3>2, <3>3 DEF Harmless, Recording
  <2>4. inbox' \in Seq(Harmless')
    <3>1. inbox \in Seq(Harmless')
      BY <1>0, <2>2, SeqOfLarger
    <3> QED
      BY <2>1, <2>3, <3>1, EmitKeeps
  <2> QED
    BY <1>0, <2>1, <2>4 DEF QuietInv, Recording, Dispatching
<1>8. CASE MarkLeased
  <2>1. /\ runner.at = "recorded" /\ runner.task \in Task
        /\ waiter' = [waiter EXCEPT ![runner.task] = "leased"]
        /\ UNCHANGED <<tasks, inbox, unlocking>>
        /\ runner'.at = "choose"
    BY <1>8 DEF MarkLeased, StatusLeased, Goto, TypeInv, Shape
  <2>2. waiter'[runner.task] = "leased" /\ \A t \in Task : t # runner.task => waiter'[t] = waiter[t]
    BY <1>a, <2>1
  <2>3. Harmless \subseteq Harmless'
    BY <2>1, <2>2, EventFields DEF Harmless, Recording
  <2>4. inbox' \in Seq(Harmless')
    BY <1>0, <2>1, <2>3, SeqOfLarger
  <2> QED
    BY <1>0, <2>1, <2>2, <2>4 DEF QuietInv, Recording, Dispatching
<1>9. ASSUME NothingToRun \/ \E t \in Task : StartStage(t) \/ StartExecutor(t) \/ LeaseRefused(t)
      PROVE  QuietInv'
  <2>1. UNCHANGED <<tasks, waiter, inbox, unlocking>>
    BY <1>9 DEF NothingToRun, StartStage, StartExecutor, LeaseRefused
  <2>2. runner.at # "recorded"
    BY <1>9 DEF NothingToRun, StartStage, StartExecutor, LeaseRefused, RunsNext
  <2>3. runner'.at \notin Dispatching
    <3>1. ASSUME NEW t \in Task, StartStage(t) PROVE runner'.at \notin Dispatching
      BY <3>1 DEF StartStage, Goto, Dispatching
    <3>2. ASSUME NEW t \in Task, StartExecutor(t) PROVE runner'.at \notin Dispatching
      BY <3>2 DEF StartExecutor, Goto, Dispatching
    <3>3. ASSUME NEW t \in Task, LeaseRefused(t) PROVE runner'.at \notin Dispatching
      BY <3>3 DEF LeaseRefused, FreshRunner, Goto, Dispatching
    <3>4. CASE NothingToRun
      BY <3>4 DEF NothingToRun, Goto, Dispatching
    <3> QED
      BY <1>9, <3>1, <3>2, <3>3, <3>4
  <2> QED
    BY <1>0, <2>1, <2>2, <2>3, QuietStays
<1>10. ASSUME EndStage \/ EndExecutor PROVE QuietInv'
  <2>1. /\ UNCHANGED <<tasks, waiter, unlocking>>
        /\ runner.at # "recorded" /\ runner'.at = "poll" /\ runner.task \in Task
    BY <1>10 DEF EndStage, EndExecutor, Goto, TypeInv, Shape
  <2>2. \E e \in Event : e.type \in RunnerTypes \ {"internal.dispatch_attempt"} /\ Emit(e)
    <3>1. CASE EndStage
      BY <2>1, <3>1, StageResultType, ResultTypes DEF EndStage
    <3>2. CASE EndExecutor
      BY <2>1, <3>2, ExecutorResultType, ResultTypes DEF EndExecutor
    <3> QED
      BY <1>10, <3>1, <3>2
  <2> QED
    BY <1>0, <2>1, <2>2, QuietStays DEF Dispatching
<1>11. ASSUME NEW t \in Task, AppendLeaseLost(t) PROVE QuietInv'
  <2>1. UNCHANGED <<tasks, waiter, unlocking, runner>>
    BY <1>11 DEF AppendLeaseLost
  <2>2. \E e \in Event : e.type \in RunnerTypes \ {"internal.dispatch_attempt"} /\ Emit(e)
    BY <1>11, EventTypes, ResultTypes DEF AppendLeaseLost
  <2> QED
    BY <1>0, <2>1, <2>2, QuietStays
<1>12. ASSUME Beat \/ Observe \/ Tick \/ UNCHANGED vars PROVE QuietInv'
  <2>1. UNCHANGED <<tasks, waiter, inbox, unlocking, runner>>
    BY <1>12 DEF Beat, Observe, Tick, vars
  <2> QED
    BY <1>0, <2>1, QuietStays
<1> QED
  BY QuietStep, <1>1, <1>2, <1>3, <1>4, <1>5, <1>6, <1>7, <1>8, <1>9, <1>10, <1>11, <1>12
  DEF Next, Route, Poll, Run, End, Threads

\* Left alone, every queued waiter belongs to a task the dispatcher may take.
THEOREM QueueIsLiveHolds == Spec => []QueueIsLive
<1>1. Spec => []TypeInv
  BY InitType, NextType, PTL DEF Spec
<1>2. Init => QuietInv
  <2> SUFFICES ASSUME Init PROVE QuietInv
    OBVIOUS
  <2>1. \A t \in Task : tasks[t].state = "plan_approved"
    BY DEF Init, AbsentRow
  <2>2. inbox \in Seq(Harmless)
    BY DEF Init
  <2>3. unlocking.at = "no" /\ runner.at \notin Dispatching
    BY DEF Init, Dispatching
  <2> QED
    BY <2>1, <2>2, <2>3 DEF QuietInv
<1>3. Spec => []QuietInv
  BY <1>1, <1>2, QuietNext, PTL DEF Spec
<1>4. QuietInv => QueueIsLive
  BY DEF QuietInv, Quiet, QueueIsLive, Recording
<1> QED
  BY <1>3, <1>4, PTL

-----------------------------------------------------------------------------
(* The fenced lease *)

\* A step that draws no token and asks for no lease leaves the lanes as they were, but
\* for leases that end.
LEMMA LeasesEnd ==
  ASSUME last_token' = last_token,
         runner' = runner \/ (runner.at # "token" /\ runner'.at # "token"),
         \A b \in Lane : lease'[b] = lease[b] \/ Fades(lease[b], lease'[b])
  PROVE  [Fenced!Next]_Fenced!vars
<1> DEFINE lanes == {b \in Lane : lease'[b] = NoLease}
<1>1. ASSUME NEW b \in Lane PROVE Spent(b)' = Spent(b)
  BY DEF Spent
<1>2. ASSUME NEW b \in Lane
      PROVE  Holder(b)' = IF b \in lanes THEN Fenced!Free ELSE Holder(b)
  BY DEF Holder, Fades, NoLease, Fenced!Free
<1>3. lanes \in SUBSET Lane
  OBVIOUS
<1> HIDE DEF lanes
<1>4. Fenced!Release(lanes)
  BY <1>1, <1>2 DEF Fenced!Release
<1> QED
  BY <1>3, <1>4 DEF Fenced!Next

\* A token that is drawn is not used up before it has been used.
LEMMA DrawIsHidden ==
  ASSUME TypeInv, NEW t \in Task, TakeToken(t)
  PROVE  UNCHANGED Fenced!vars
<1>1. LaneOf[t] \in Lane /\ last_token \in [Lane -> Nat]
  BY DispatchAssumption DEF TypeInv, TypeOK
<1>2. /\ runner.at = "poll" /\ lease' = lease
      /\ last_token' = [last_token EXCEPT ![LaneOf[t]] = last_token[LaneOf[t]] + 1]
      /\ runner' = [at |-> "token", task |-> t, token |-> last_token[LaneOf[t]] + 1]
  BY DEF TakeToken, NextToken, Goto
<1>3. ASSUME NEW b \in Lane PROVE Spent(b)' = Spent(b) /\ Holder(b)' = Holder(b)
  BY <1>1, <1>2 DEF Spent, Holder
<1> QED
  BY <1>3 DEF Fenced!vars

\* With the token at hand used up, the tokens used up are those that were drawn.
LEMMA UsedUp ==
  ASSUME TypeInv, TokenInv, runner.at = "token", runner'.at # "token",
         last_token' = last_token
  PROVE  [b \in Lane |-> Spent(b)'] =
           [[b \in Lane |-> Spent(b)] EXCEPT ![LaneOf[runner.task]] = @ + 1]
<1>1. /\ runner.token = last_token[LaneOf[runner.task]]
      /\ \A b \in Lane : last_token[b] \in Nat
  BY DEF TokenInv, Dispatching, TypeInv, TypeOK
<1>2. ASSUME NEW b \in Lane
      PROVE  Spent(b)' = IF b = LaneOf[runner.task] THEN Spent(b) + 1 ELSE Spent(b)
  BY <1>1 DEF Spent
<1> QED
  BY <1>2

LEMMA AcquireFences ==
  ASSUME TypeInv, TokenInv, Acquire
  PROVE  Fenced!Next
<1>1. /\ runner.task \in Task /\ LaneOf[runner.task] \in Lane
      /\ lease \in [Lane -> Lease]
  BY DispatchAssumption DEF Acquire, TypeInv, TypeOK, Shape
<1>2. runner \in [at: At, task: Task \cup {NoTask}, token: Nat]
  BY DEF TypeInv, TypeOK
<1>3. runner.at = "token" /\ runner'.at # "token" /\ last_token' = last_token
  BY <1>2 DEF Acquire, Goto
<1>4. PICK b \in Lane, t \in Task : t = runner.task /\ b = LaneOf[t]
  BY <1>1
<1>5. [c \in Lane |-> Spent(c)'] = [[c \in Lane |-> Spent(c)] EXCEPT ![b] = @ + 1]
  BY <1>3, <1>4, UsedUp
<1>6. CASE Held(b)
  <2>1. lease' = lease
    BY <1>4, <1>6 DEF Acquire, MayAcquire
  <2>2. Fenced!Burn(b)
    BY <1>5, <2>1 DEF Fenced!Burn, Holder
  <2> QED
    BY <1>4, <2>2 DEF Fenced!Next
<1>7. CASE ~Held(b)
  <2>1. lease' = [lease EXCEPT ![b] = NewLease(t, runner.token)]
    BY <1>4, <1>7 DEF Acquire, MayAcquire
  <2>2. Holder(b) = Fenced!Free
    BY <1>7 DEF Held, NoLease, Holder, Fenced!Free
  <2>3. Spent(b)' = runner.token
    BY <1>3, <1>4 DEF Spent, TokenInv, Dispatching
  <2>4. [c \in Lane |-> Holder(c)'] =
          [[c \in Lane |-> Holder(c)] EXCEPT ![b] = [task |-> t, token |-> Spent(b)']]
    BY <1>1, <1>4, <2>1, <2>3 DEF Holder, NewLease
  <2>5. Fenced!Grant(b, t)
    BY <1>4, <1>5, <2>2, <2>4 DEF Fenced!Grant
  <2> QED
    BY <1>4, <2>5 DEF Fenced!Next
<1> QED
  BY <1>6, <1>7

\* A runner that ends with a token at hand has burnt it.
LEMMA CrashFences ==
  ASSUME TypeInv, TokenInv, RunnerCrash
  PROVE  [Fenced!Next]_Fenced!vars
<1>1. runner'.at = "poll" /\ last_token' = last_token /\ lease' = lease
  BY DEF RunnerCrash, FreshRunner, Goto
<1>2. CASE runner.at = "token"
  <2>1. runner.task \in Task /\ LaneOf[runner.task] \in Lane
    BY <1>2, DispatchAssumption DEF TypeInv, Shape
  <2>2. [b \in Lane |-> Spent(b)'] =
          [[b \in Lane |-> Spent(b)] EXCEPT ![LaneOf[runner.task]] = @ + 1]
    BY <1>1, <1>2, UsedUp
  <2>3. Fenced!Burn(LaneOf[runner.task])
    BY <1>1, <2>2 DEF Fenced!Burn, Holder
  <2> QED
    BY <2>1, <2>3 DEF Fenced!Next
<1>3. CASE runner.at # "token"
  BY <1>1, <1>3, LeasesEnd
<1> QED
  BY <1>2, <1>3

LEMMA StepFences == TypeInv /\ TokenInv /\ [Next]_vars => [Fenced!Next]_Fenced!vars
<1> SUFFICES ASSUME TypeInv, TokenInv, [Next]_vars PROVE [Fenced!Next]_Fenced!vars
  OBVIOUS
<1> USE DEF tables, runtime
<1>1. ASSUME NEW t \in Task, TakeToken(t) PROVE [Fenced!Next]_Fenced!vars
  BY <1>1, DrawIsHidden
<1>2. CASE Acquire
  BY <1>2, AcquireFences
<1>3. CASE RunnerCrash
  BY <1>3, CrashFences
<1>4. CASE Beat \/ ForceRelease \/ Tick
  <2>1. UNCHANGED <<last_token, runner>>
    BY <1>4 DEF Beat, ForceRelease, Tick
  <2> QED
    BY <1>4, <2>1, LeasesFade, LeasesEnd
<1>5. ASSUME UNCHANGED <<lease, last_token>>,
             runner' = runner \/ (runner.at # "token" /\ runner'.at # "token")
      PROVE  [Fenced!Next]_Fenced!vars
  BY <1>5, LeasesEnd
\* The other steps of the runner begin and end elsewhere.
<1>6. CASE RecordAttempt
  <2>1. runner.at = "leased" /\ runner'.at = "recorded"
    BY <1>6 DEF RecordAttempt, TypeInv, TypeOK
  <2> QED
    BY <1>5, <1>6, <2>1 DEF RecordAttempt
<1>13. CASE MarkLeased \/ NothingToRun \/ EndStage
  BY <1>5, <1>13 DEF MarkLeased, NothingToRun, EndStage, Goto
<1>7. CASE EndExecutor
  BY <1>5, <1>7 DEF EndExecutor, Goto, TypeInv, Shape
<1>8. ASSUME NEW t \in Task, StartStage(t) \/ StartExecutor(t) \/ LeaseRefused(t)
      PROVE  [Fenced!Next]_Fenced!vars
  BY <1>5, <1>8 DEF StartStage, StartExecutor, LeaseRefused, FreshRunner, RunsNext, Goto
<1>9. CASE UNCHANGED <<runner, lease, last_token>>
  BY <1>5, <1>9
<1>10. ASSUME NEW t \in Task,
              \/ Enqueue(t) \/ AppendLeaseLost(t)
              \/ \E e \in Order(t) : Command(e)
       PROVE  [Fenced!Next]_Fenced!vars
  BY <1>9, <1>10 DEF Enqueue, AppendLeaseLost, Command
<1>11. CASE \/ RouteTask \/ RouteUnlock \/ FinishUnlock \/ RouterCrash \/ Observe \/ HeartDies
            \/ \E b \in Lane : AskUnlock(b)
  BY <1>9, <1>11 DEF RouteTask, RouteUnlock, FinishUnlock, RouterCrash, Observe, HeartDies,
     AskUnlock
<1>12. CASE UNCHANGED vars
  BY <1>9, <1>12 DEF vars
<1> QED
  BY <1>1, <1>2, <1>3, <1>4, <1>6, <1>7, <1>8, <1>10, <1>11, <1>12, <1>13
  DEF Next, Route, Poll, Run, End, Threads

\* The counter in SQLite and the key in Redis are a fenced lease.
THEOREM FencedLeaseImplemented == Spec => ImplementsFencedLease
<1>1. Init => Fenced!Init
  BY DEF Init, Fenced!Init, Spent, Holder, NoLease, Fenced!Free
<1>2. Init => TypeInv /\ TokenInv
  BY InitType, TokenInit
<1>3. TypeInv /\ TokenInv /\ [Next]_vars => TypeInv' /\ TokenInv'
  BY NextType, TokenNext
<1> QED
  BY <1>1, <1>2, <1>3, StepFences, PTL DEF Spec, Fenced!Spec, ImplementsFencedLease

\* What the fenced lease is for: a lane is never leased twice with one token, and always
\* with one above all that came before, so whoever kept an earlier one is recognised.
THEOREM TokensGrow ==
  Spec => [][\A b \in Lane :
               /\ Spent(b) <= Spent(b)'
               /\ Holder(b)' \in {Holder(b), Fenced!Free}
                  \/ (Holder(b).token <= Spent(b) /\ Spent(b) < Holder(b)'.token)
             ]_(Fenced!vars)
<1> DEFINE Bounded == \A b \in Lane : Spent(b) \in Nat /\ Holder(b).token \in 0 .. Spent(b)
           Grows(b) == /\ Spent(b) <= Spent(b)'
                       /\ Holder(b)' \in {Holder(b), Fenced!Free}
                          \/ (Holder(b).token <= Spent(b) /\ Spent(b) < Holder(b)'.token)
<1>1. Fenced!Init => Bounded
  <2> SUFFICES ASSUME Fenced!Init, NEW b \in Lane
               PROVE  Spent(b) \in Nat /\ Holder(b).token \in 0 .. Spent(b)
    OBVIOUS
  <2>1. Spent(b) = [c \in Lane |-> Spent(c)][b] /\ Holder(b) = [c \in Lane |-> Holder(c)][b]
    OBVIOUS
  <2>2. Spent(b) = 0 /\ Holder(b) = Fenced!Free
    BY <2>1 DEF Fenced!Init
  <2> QED
    BY <2>2 DEF Fenced!Free
<1>2. Bounded /\ Fenced!Next => Bounded' /\ \A b \in Lane : Grows(b)
  <2> SUFFICES ASSUME Bounded, Fenced!Next, NEW b \in Lane
               PROVE  Spent(b)' \in Nat /\ Holder(b)'.token \in 0 .. Spent(b)' /\ Grows(b)
    OBVIOUS
  <2>0. /\ Spent(b) = [c \in Lane |-> Spent(c)][b] /\ Holder(b) = [c \in Lane |-> Holder(c)][b]
        /\ Spent(b)' = [c \in Lane |-> Spent(c)'][b]
        /\ Holder(b)' = [c \in Lane |-> Holder(c)'][b]
    OBVIOUS
  <2>1. ASSUME NEW l \in Lane, Fenced!Burn(l)
        PROVE  Spent(b)' \in {Spent(b), Spent(b) + 1} /\ Holder(b)' = Holder(b)
    BY <2>0, <2>1 DEF Fenced!Burn
  <2>2. ASSUME NEW l \in Lane, NEW t \in Task, Fenced!Grant(l, t)
        PROVE  IF l = b
               THEN /\ Spent(b)' = Spent(b) + 1
                    /\ Holder(b)' = [task |-> t, token |-> Spent(b)']
               ELSE Spent(b)' = Spent(b) /\ Holder(b)' = Holder(b)
    BY <2>0, <2>2 DEF Fenced!Grant
  <2>3. ASSUME NEW lanes \in SUBSET Lane, Fenced!Release(lanes)
        PROVE  Spent(b)' = Spent(b) /\ Holder(b)' \in {Holder(b), Fenced!Free}
    BY <2>0, <2>3 DEF Fenced!Release
  <2>4. Fenced!Free.token = 0
    BY DEF Fenced!Free
  <2> HIDE DEF Bounded
  <2>5. Spent(b) \in Nat /\ Holder(b).token \in 0 .. Spent(b)
    BY DEF Bounded
  <2>6. CASE \E l \in Lane : Fenced!Burn(l)
    BY <2>1, <2>5, <2>6
  <2>7. CASE \E l \in Lane, t \in Task : Fenced!Grant(l, t)
    BY <2>2, <2>5, <2>7
  <2>8. CASE \E lanes \in SUBSET Lane : Fenced!Release(lanes)
    BY <2>3, <2>4, <2>5, <2>8
  <2> QED
    BY <2>6, <2>7, <2>8 DEF Fenced!Next
<1>3. Bounded /\ UNCHANGED Fenced!vars => Bounded'
  <2> SUFFICES ASSUME Bounded, UNCHANGED Fenced!vars, NEW b \in Lane
               PROVE  Spent(b)' = Spent(b) /\ Holder(b)' = Holder(b)
    OBVIOUS
  <2>1. /\ [c \in Lane |-> Spent(c)'] = [c \in Lane |-> Spent(c)]
        /\ [c \in Lane |-> Holder(c)'] = [c \in Lane |-> Holder(c)]
    BY DEF Fenced!vars
  <2>2. /\ Spent(b) = [c \in Lane |-> Spent(c)][b] /\ Holder(b) = [c \in Lane |-> Holder(c)][b]
        /\ Spent(b)' = [c \in Lane |-> Spent(c)'][b]
        /\ Holder(b)' = [c \in Lane |-> Holder(c)'][b]
    OBVIOUS
  <2> QED
    BY <2>1, <2>2
<1> QED
  BY <1>1, <1>2, <1>3, FencedLeaseImplemented, PTL DEF Fenced!Spec, ImplementsFencedLease
=============================================================================
