------------------------------ MODULE Dispatch ------------------------------
(***************************************************************************)
(* Dispatch and branch leases (src/task_relay/runner, branch_lease):  the  *)
(* runner process polls for the head waiter of a lane, takes a fencing     *)
(* token from SQLite and a lease from Redis, and runs one stage of one     *)
(* task at a time; the executor child has a heartbeat and a state observer *)
(* thread beside it.  The Router process applies the runner's events and   *)
(* the commands of people, and runs the /unlock handler after its commit.  *)
(*                                                                         *)
(* A lane is a lease_branch.  Journal and ingester are a queue here (module *)
(* Journal says why).  One Tick is lease_renew_interval_seconds.  Every    *)
(* plan passes auto_approve_ok, worktrees exist, and the circuit breaker   *)
(* is closed: an open one only makes step return 0.                        *)
(***************************************************************************)
EXTENDS Transitions, Sequences

CONSTANTS
  Lane,         \* lease branches, numbered in the order of ORDER BY branch
  LaneOf,       \* the lease_branch of each task
  First,        \* the task that is queued at the start
  NoTask,
  TTL,          \* lease_ttl_seconds, in renew intervals
  Orders,       \* the types of the events that people and reconcile may send
  Mishaps,      \* what else may happen: a subset of {"unlock", "crash", "outage"}
  MaxMishaps,   \* bound on orders and mishaps together
  MaxToken,     \* bound: no token is burnt on a held lease from this one on
  MaxInbox      \* bound on unprocessed events

ASSUME DispatchAssumption ==
  /\ Lane \subseteq Nat
  /\ LaneOf \in [Task -> Lane]
  /\ First \in Task /\ NoTask \notin Task
  /\ TTL \in Nat \ {0}
  /\ {MaxPlans, MaxMishaps, MaxToken, MaxInbox} \subseteq Nat

VARIABLES
  tasks,       \* the tasks table (state_rev and critical stay put)
  waiter,      \* branch_waiters.status, per task
  queue,       \* branch_waiters in queue_order, per lane
  last_token,  \* branch_tokens.last_token
  lease,       \* the Redis key lease:branch:<branch>
  inbox,       \* unprocessed events
  unlocking,   \* the Router's post-commit /unlock handler
  runner,      \* where TaskDispatcher is, with which task and token
  handle,      \* its _lease_handles and _fencing_tokens, 0 for none
  child,       \* the executor child with its two threads
  owed,        \* lease_lost events that heartbeat threads have yet to append
  suffered     \* orders and mishaps so far

tables  == <<tasks, waiter, queue>>
runtime == <<runner, handle, child, owed>>
vars == <<tables, last_token, lease, inbox, unlocking, runtime, suffered>>

-----------------------------------------------------------------------------
NoLease == [task |-> NoTask, token |-> 0, ttl |-> 0]
Lease == [task: Task \cup {NoTask}, token: Nat, ttl: 0 .. TTL]

Held(b) == lease[b] # NoLease
Holds(t, k) == lease[LaneOf[t]].task = t /\ lease[LaneOf[t]].token = k

NoChild ==
  [ alive |-> FALSE, token |-> 0, heart |-> FALSE, watch |-> FALSE, beaten |-> FALSE,
    kept |-> FALSE, misses |-> 0, lost |-> 0, reason |-> "" ]

Watched == {"cancelled", "system_degraded", "human_review_required"}

MissesAllowed == 2

Child ==
  [ alive: BOOLEAN,
    token: Nat,                  \* of its LeaseHandle, 0 for none
    heart: BOOLEAN,              \* the heartbeat thread is running
    watch: BOOLEAN,              \* the state observer thread is running
    beaten: BOOLEAN,             \* the heartbeat has had its turn in this interval
    kept: BOOLEAN,               \* history: a renewal has succeeded
    misses: 0 .. MissesAllowed,  \* consecutive_failures
    lost: 0 .. MissesAllowed + 1, \* history: intervals without lease, capped
    reason: Watched \cup {"", "lease_lost"} ]  \* termination_reason

Kind == {"order", "unlock", "crash", "outage"}

At == {"poll", "token", "leased", "recorded", "choose", "planning", "executing",
       "reviewing"}

Plain(what, t) == [type |-> what, task |-> t]
Attempt(t, acquired) ==
  [type |-> "internal.dispatch_attempt", task |-> t, lease_acquired |-> acquired]
Finished(t, zero) ==
  [ type |-> "internal.executor_finished", task |-> t, exit_zero |-> zero,
    in_scope |-> TRUE, infra |-> FALSE ]
Unlock(b) == [type |-> "/unlock", lane |-> b]

\* What people and ReconcileWorker may send about task t.
Order(t) ==
  { e \in [type: {"/retry"}, task: {t}, replan_required: {FALSE}]
          \cup [type: {"/retry --replan", "/cancel", "internal.system_recovered"}, task: {t}]
          \cup [ type: {"internal.reconcile_resume"}, task: {t}, clean: BOOLEAN,
                 continuable: {FALSE}, plan_rev: {NoPlan}, grace_ok: {FALSE} ] :
      e.type \in Orders }

Passed(t) == [type |-> "internal.reviewer_pass", task |-> t, all_checked |-> TRUE]

\* What a stage of t other than the executor may append.  Events that lead where
\* another one of these leads are left out: the timeouts lead where
\* validator_over and reviewer_human_review do.
StageResult(t, stage) ==
  IF stage = "planning"
  THEN {Plain(what, t) : what \in {"internal.plan_ready", "internal.validator_over",
                                   "internal.infra_fatal"}}
  ELSE {Plain(what, t) : what \in {"internal.reviewer_fail", "internal.reviewer_human_review"}}
       \cup {Passed(t), Plain("internal.infra_fatal", t)}

-----------------------------------------------------------------------------
Init ==
  /\ tasks = [t \in Task |-> [AbsentRow EXCEPT !.state = "plan_approved"]]
  /\ waiter = [t \in Task |-> IF t = First THEN "queued" ELSE "absent"]
  /\ queue = [b \in Lane |-> IF b = LaneOf[First] THEN <<First>> ELSE << >>]
  /\ last_token = [b \in Lane |-> 0]
  /\ lease = [b \in Lane |-> NoLease]
  /\ inbox = << >>
  /\ unlocking = [at |-> "no", lane |-> 0]
  /\ runner = [at |-> "poll", task |-> NoTask, token |-> 0]
  /\ handle = [t \in Task |-> 0]
  /\ child = NoChild
  /\ owed = {}
  /\ suffered = [what \in Kind |-> 0]

Suffer(what) ==
  /\ suffered["order"] + suffered["unlock"] + suffered["crash"] + suffered["outage"]
       < MaxMishaps
  /\ suffered' = [suffered EXCEPT ![what] = @ + 1]

Goto(at, t, k) == runner' = [at |-> at, task |-> t, token |-> k]

\* An append to the journal, which brings the event to the inbox.
Emit(e) == Len(inbox) < MaxInbox /\ inbox' = Append(inbox, e)

-----------------------------------------------------------------------------
(* Around the runner *)

\* enqueue_waiter.  Nothing in src calls it: an operator inserts the row.
Enqueue(t) ==
  /\ waiter[t] = "absent" /\ tasks[t].state = "plan_approved"
  /\ waiter' = [waiter EXCEPT ![t] = "queued"]
  /\ queue' = [queue EXCEPT ![LaneOf[t]] = Append(@, t)]
  /\ UNCHANGED <<tasks, last_token, lease, inbox, unlocking, runtime, suffered>>

Command(e) ==
  /\ Suffer("order")
  /\ Emit(e)
  /\ UNCHANGED <<tables, last_token, lease, unlocking, runtime>>

AskUnlock(b) ==
  /\ "unlock" \in Mishaps /\ Suffer("unlock")
  /\ Emit(Unlock(b))
  /\ UNCHANGED <<tables, last_token, lease, unlocking, runtime>>

-----------------------------------------------------------------------------
(* The Router process *)

Plan == [rev |-> 1, plan_ok |-> TRUE]

\* run_once on an event of a task: it moves the task, or is skipped.
RouteTask ==
  /\ inbox # << >> /\ unlocking.at = "no" /\ Head(inbox).type # "/unlock"
  /\ LET e == Head(inbox)
         t == tasks[e.task]
     IN  \/ \E to \in TaskState :
              /\ Leads(t, Plan, e, to)
              /\ tasks' = [tasks EXCEPT ![e.task] =
                             [Bumped(t, e, to) EXCEPT !.state_rev = 0]]
         \/ /\ \A to \in TaskState : ~Leads(t, Plan, e, to)
            /\ UNCHANGED tasks
  /\ inbox' = Tail(inbox)
  /\ UNCHANGED <<waiter, queue, last_token, lease, unlocking, runtime, suffered>>

\* requeue_branch_head_waiter: whatever state the head task is in.
Requeued(b) ==
  IF queue[b] = << >> THEN waiter ELSE [waiter EXCEPT ![Head(queue[b])] = "queued"]

\* _handle_system_admin_event; then the handler runs after the commit.
RouteUnlock ==
  /\ inbox # << >> /\ unlocking.at = "no" /\ Head(inbox).type = "/unlock"
  /\ waiter' = Requeued(Head(inbox).lane)
  /\ unlocking' = [at |-> "release", lane |-> Head(inbox).lane]
  /\ inbox' = Tail(inbox)
  /\ UNCHANGED <<tasks, queue, last_token, lease, runtime, suffered>>

\* UnlockHandler.handle_unlock: force_release asks for the key and deletes it,
\* whoever holds it by then.
ForceRelease ==
  /\ unlocking.at = "release"
  /\ lease' = [lease EXCEPT ![unlocking.lane] = NoLease]
  /\ unlocking' = [unlocking EXCEPT !.at = "requeue"]
  /\ UNCHANGED <<tables, last_token, inbox, runtime, suffered>>

\* ... then requeue in a transaction of its own, and a deferred attempt.
FinishUnlock ==
  /\ unlocking.at = "requeue"
  /\ waiter' = Requeued(unlocking.lane)
  /\ inbox' = IF queue[unlocking.lane] = << >> THEN inbox
              ELSE Append(inbox, Attempt(Head(queue[unlocking.lane]), FALSE))
  /\ unlocking' = [at |-> "no", lane |-> 0]
  /\ UNCHANGED <<tasks, queue, last_token, lease, runtime, suffered>>

\* The Router process dies after the commit: the handler is never run.
RouterCrash ==
  /\ unlocking.at # "no"
  /\ "crash" \in Mishaps /\ Suffer("crash")
  /\ unlocking' = [at |-> "no", lane |-> 0]
  /\ UNCHANGED <<tables, last_token, lease, inbox, runtime>>

-----------------------------------------------------------------------------
(* TaskDispatcher.step *)

HeadOfAllWaiters(t) ==
  waiter[t] = "queued" /\ Head(queue[LaneOf[t]]) = t

\* The waiter of t is queued and none queued is ahead of it in its lane.
HeadWaiter(t) ==
  /\ waiter[t] = "queued"
  /\ LET q == queue[LaneOf[t]]
     IN  \E i \in DOMAIN q : q[i] = t /\ \A k \in 1 .. i - 1 : waiter[q[k]] # "queued"

Dispatchable(t) == HeadWaiter(t) /\ tasks[t].state = "plan_approved"

\* _select_dispatch_candidate: the first such task in branch order.
Candidate(t) ==
  /\ Dispatchable(t)
  /\ \A u \in Task : Dispatchable(u) => LaneOf[t] <= LaneOf[u]
  /\ Held(LaneOf[t]) => last_token[LaneOf[t]] < MaxToken

TokenReused(b) == IF last_token[b] = 0 THEN 1 ELSE last_token[b]

NextToken(b) == last_token[b] + 1

\* next_branch_token, committed at once.
TakeToken(t) ==
  /\ runner.at = "poll" /\ Candidate(t)
  /\ last_token' = [last_token EXCEPT ![LaneOf[t]] = NextToken(LaneOf[t])]
  /\ Goto("token", t, NextToken(LaneOf[t]))
  /\ UNCHANGED <<tables, lease, inbox, unlocking, handle, child, owed, suffered>>

LeaseOneTooLong(t, k) == [task |-> t, token |-> k, ttl |-> TTL + 1]

NewLease(t, k) == [task |-> t, token |-> k, ttl |-> TTL]

MayAcquireAgain(b) == lease[b].task \in {NoTask, runner.task}

\* LUA_ACQUIRE sets the key only where there is none.
MayAcquire(b) == ~Held(b)

\* RedisLease.acquire; when the key exists the token is burnt and step is over.
Acquire ==
  /\ runner.at = "token"
  /\ IF MayAcquire(LaneOf[runner.task])
     THEN /\ lease' = [lease EXCEPT ![LaneOf[runner.task]] =
                         NewLease(runner.task, runner.token)]
          /\ runner' = [runner EXCEPT !.at = "leased"]
     ELSE Goto("choose", NoTask, 0) /\ UNCHANGED lease
  /\ UNCHANGED <<tables, last_token, inbox, unlocking, handle, child, owed, suffered>>

RecordAttempt ==
  /\ runner.at = "leased"
  /\ Emit(Attempt(runner.task, TRUE))
  /\ runner' = [runner EXCEPT !.at = "recorded"]
  /\ UNCHANGED <<tables, last_token, lease, unlocking, handle, child, owed, suffered>>

StatusLeftQueued(t) == waiter

StatusLeased(t) == [waiter EXCEPT ![t] = "leased"]

\* update_waiter_status and its commit; then the handle is kept in memory.
MarkLeased ==
  /\ runner.at = "recorded"
  /\ waiter' = StatusLeased(runner.task)
  /\ handle' = [handle EXCEPT ![runner.task] = runner.token]
  /\ Goto("choose", runner.task, 0)
  /\ UNCHANGED <<tasks, queue, last_token, lease, inbox, unlocking, child, owed, suffered>>

-----------------------------------------------------------------------------
(* run_forever after step, and run_task *)

Runnable(t) == tasks[t].state \in {"planning", "implementing", "reviewing"}

\* The task just dispatched, or else any that is runnable (the code takes the
\* one with the least updated_at).
RunsNext(t) ==
  \/ runner.at = "choose" /\ runner.task = t
  \/ /\ \/ runner.at = "choose" /\ runner.task = NoTask
        \/ runner.at = "poll" /\ \A u \in Task : ~Candidate(u)
     /\ Runnable(t)

NothingToRun ==
  /\ runner.at = "choose"
  /\ IF runner.task = NoTask THEN \A t \in Task : ~Runnable(t) ELSE ~Runnable(runner.task)
  /\ Goto("poll", NoTask, 0)
  /\ UNCHANGED <<tables, last_token, lease, inbox, unlocking, handle, child, owed, suffered>>

StartStage(t) ==
  /\ RunsNext(t) /\ tasks[t].state \in {"planning", "reviewing"}
  /\ Goto(tasks[t].state, t, 0)
  /\ UNCHANGED <<tables, last_token, lease, inbox, unlocking, handle, child, owed, suffered>>

\* A stage that runs in the runner ends.  When the reviewer passes, the runner
\* pushes the feature branch, with no look at the lease, and then appends Passed.
EndStage ==
  /\ runner.at \in {"planning", "reviewing"}
  /\ \E e \in StageResult(runner.task, runner.at) : Emit(e)
  /\ Goto("poll", NoTask, 0)
  /\ UNCHANGED <<tables, last_token, lease, unlocking, handle, child, owed, suffered>>

\* _assert_lease_before_mutate has nothing to check when no token is kept.
MayMutate(t) == handle[t] = 0 \/ Holds(t, handle[t])

StartExecutor(t) ==
  /\ RunsNext(t) /\ tasks[t].state = "implementing"
  /\ MayMutate(t)
  /\ Goto("executing", t, 0)
  /\ child' = [NoChild EXCEPT !.alive = TRUE, !.token = handle[t], !.heart = handle[t] # 0,
                              !.watch = TRUE, !.beaten = TRUE]
  /\ UNCHANGED <<tables, last_token, lease, inbox, unlocking, handle, owed, suffered>>

\* What a runner process that starts knows, and what one that ends leaves.
FreshRunner ==
  /\ Goto("poll", NoTask, 0)
  /\ handle' = [t \in Task |-> 0]
  /\ child' = NoChild
  /\ owed' = {}

\* LeaseError escapes run_forever; the operator starts the runner again.
LeaseRefused(t) ==
  /\ RunsNext(t) /\ tasks[t].state = "implementing"
  /\ ~MayMutate(t)
  /\ FreshRunner
  /\ UNCHANGED <<tables, last_token, lease, inbox, unlocking, suffered>>

RunnerCrash ==
  /\ runner.at # "poll" \/ \E t \in Task : handle[t] # 0
  /\ "crash" \in Mishaps /\ Suffer("crash")
  /\ FreshRunner
  /\ UNCHANGED <<tables, last_token, lease, inbox, unlocking>>

-----------------------------------------------------------------------------
(* While the executor child runs: run_executor and its two threads *)

GivesUpLate(failures) == failures > MissesAllowed

\* The second failure in a row.
GivesUp(failures) == failures >= MissesAllowed

RenewedForOneInterval(l) == [l EXCEPT !.ttl = 1]

Renewed(l) == [l EXCEPT !.ttl = TTL]

\* One turn of _heartbeat_loop: LUA_RENEW compares task and token first.
Beat ==
  /\ child.alive /\ child.heart /\ ~child.beaten
  /\ LET t == runner.task
         b == LaneOf[t]
     IN  IF Holds(t, child.token)
         THEN /\ lease' = [lease EXCEPT ![b] = Renewed(@)]
              /\ child' = [child EXCEPT !.beaten = TRUE, !.kept = TRUE, !.misses = 0]
              /\ UNCHANGED owed
         ELSE IF ~GivesUp(child.misses + 1)
         THEN /\ child' = [child EXCEPT !.beaten = TRUE, !.misses = @ + 1]
              /\ UNCHANGED <<lease, owed>>
         ELSE /\ child' = [child EXCEPT !.beaten = TRUE, !.misses = @ + 1,
                                        !.heart = FALSE, !.reason = "lease_lost"]
              /\ owed' = owed \cup {t}
              /\ UNCHANGED lease
  /\ UNCHANGED <<tables, last_token, inbox, unlocking, runner, handle, suffered>>

\* renew raises, because Redis does not answer, and the thread ends with it.
HeartDies ==
  /\ child.alive /\ child.heart /\ ~child.beaten
  /\ "outage" \in Mishaps /\ Suffer("outage")
  /\ child' = [child EXCEPT !.heart = FALSE]
  /\ UNCHANGED <<tables, last_token, lease, inbox, unlocking, runner, handle, owed>>

\* Once _terminate_subprocess has seen the child out, the heartbeat thread appends.
AppendLeaseLost(t) ==
  /\ t \in owed
  /\ ~(child.alive /\ child.misses = MissesAllowed)
  /\ Emit(Plain("internal.lease_lost", t))
  /\ owed' = owed \ {t}
  /\ UNCHANGED <<tables, last_token, lease, unlocking, runner, handle, child, suffered>>

\* One turn of _state_observer_loop that sees a watched state; the last of the
\* two threads to give a reason wins.
SeesWatched == child.alive /\ child.watch /\ tasks[runner.task].state \in Watched

Observe ==
  /\ SeesWatched
  /\ child' = [child EXCEPT !.watch = FALSE, !.reason = tasks[runner.task].state]
  /\ UNCHANGED <<tables, last_token, lease, inbox, unlocking, runner, handle, owed, suffered>>

\* _classify_executor_failure and _handle_executor_failure.
FailureEvent(t) ==
  IF child.reason \in {"lease_lost", "system_degraded"}
  THEN Plain("internal.infra_fatal", t) ELSE Finished(t, FALSE)

\* The child exits, by itself, because it was told to or after executor
\* timeout, and its outcome is appended: it may have finished its work, have
\* failed, or report a fatal error of its own.
ExecutorResult(t) ==
  {Finished(t, TRUE), FailureEvent(t), Plain("internal.infra_fatal", t)}

EndExecutor ==
  /\ child.alive
  /\ \E e \in ExecutorResult(runner.task) : Emit(e)
  /\ child' = NoChild
  /\ Goto("poll", NoTask, 0)
  /\ UNCHANGED <<tables, last_token, lease, unlocking, handle, owed, suffered>>

-----------------------------------------------------------------------------
(* Time *)

Aged(l) == IF l.ttl <= 1 THEN NoLease ELSE [l EXCEPT !.ttl = @ - 1]

Bereft == child.alive /\ child.reason = "" /\ ~Holds(runner.task, child.token)

\* One renew interval passes: the heartbeat has had its turn, and the observer,
\* which looks every second, has had several.
Tick ==
  /\ child.alive \/ \E b \in Lane : Held(b)
  /\ child.alive => (child.heart => child.beaten) /\ ~SeesWatched
  /\ lease' = [b \in Lane |-> Aged(lease[b])]
  /\ child' = [child EXCEPT !.beaten = FALSE,
                            !.lost = IF Bereft /\ @ <= MissesAllowed THEN @ + 1 ELSE @]
  /\ UNCHANGED <<tables, last_token, inbox, unlocking, runner, handle, owed, suffered>>

-----------------------------------------------------------------------------
Poll == Acquire \/ RecordAttempt \/ MarkLeased \/ NothingToRun \/ \E t \in Task : TakeToken(t)

Run(t) == StartStage(t) \/ StartExecutor(t) \/ LeaseRefused(t)

End == EndStage \/ EndExecutor

Route == RouteTask \/ RouteUnlock \/ ForceRelease \/ FinishUnlock

Threads == Beat \/ Observe \/ \E t \in Task : AppendLeaseLost(t)

Next ==
  \/ \E t \in Task : Enqueue(t) \/ \E e \in Order(t) : Command(e)
  \/ \E b \in Lane : AskUnlock(b)
  \/ Route \/ RouterCrash
  \/ Poll \/ (\E t \in Task : Run(t)) \/ End \/ RunnerCrash
  \/ Threads \/ HeartDies
  \/ Tick

Spec == Init /\ [][Next]_vars

\* Both processes and the threads keep running, stages end (each has a timeout)
\* and time passes.
Fairness ==
  /\ WF_vars(Route)
  /\ WF_vars(Poll \/ (\E t \in Task : Run(t)) \/ End)
  /\ WF_vars(Threads)
  /\ WF_vars(Tick)

FairSpec == Spec /\ Fairness
=============================================================================
