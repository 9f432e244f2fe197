------------------------------- MODULE Stages -------------------------------
(***************************************************************************)
(* The stages of a task (src/task_relay/runner: dispatcher, tool_runner,   *)
(* worktree; the parts of src/task_relay/router that answer them).  The    *)
(* runner polls for a task in planning, implementing or reviewing, runs    *)
(* that stage to its end and appends the result to the journal; the Router *)
(* applies it later.  Until it has, the runner sees the old state and runs *)
(* the stage again, so that results of one stage may arrive twice, the     *)
(* second time in a later state, and plan revisions pile up.               *)
(*                                                                         *)
(* Journal and ingester are a queue (module Journal says why); leases are  *)
(* free, heartbeat and observer are in module Dispatch and the breaker in  *)
(* module Breaker.  No task is critical.  A request with its retries is    *)
(* one step (module ToolCalls).                                            *)
(***************************************************************************)
EXTENDS Transitions, Sequences, FiniteSets

CONSTANTS
  NoTask,
  Orders,       \* the types of the events that people and reconcile may send
  MaxOrders,    \* bound on what people and reconcile send
  MaxCrashes,   \* bound on crashes of the runner and failed pushes
  MaxInbox      \* bound on unprocessed events: from it on people wait, beyond it the runner

ASSUME StagesAssumption ==
  /\ NoTask \notin Task
  /\ {MaxPlans, MaxOrders, MaxCrashes, MaxInbox} \subseteq Nat
  /\ ApproveRevs \subseteq Nat

VARIABLES
  tasks,     \* the tasks table (state_rev and critical stay put)
  plans,     \* the latest row of the plans table, per task
  approved,  \* history: the newest plan_rev when the task was last approved, since planning
  waiter,    \* branch_waiters.status, per task
  repo,      \* lease_branch, worktree and remote branch, per task
  inbox,     \* unprocessed events
  runner,    \* where TaskDispatcher is, with which task and plan_rev
  orders,    \* how many orders there have been
  crashes    \* how many crashes there have been

truth == <<tasks, plans, approved>>
vars == <<truth, waiter, repo, inbox, runner, orders, crashes>>

-----------------------------------------------------------------------------
Repo ==
  [ lease_branch: BOOLEAN,                       \* tasks.lease_branch is not null
    worktree: {"none", "made", "recorded"},      \* made: on disk, not in the row
    pushed: BOOLEAN ]                            \* history: the remote has all its work

\* Where an iteration of run_forever may be.
At == {"poll", "planning", "planned", "record", "start", "executing", "reviewing",
       "passed", "down"}

Stage == {"planning", "implementing", "reviewing"}

Plain(what, t) == [type |-> what, task |-> t]
Finished(t, good) ==
  [type |-> "internal.executor_finished", task |-> t, exit_zero |-> good,
   in_scope |-> TRUE, infra |-> FALSE]
Attempt(t) == [type |-> "internal.dispatch_attempt", task |-> t, lease_acquired |-> TRUE]

-----------------------------------------------------------------------------
(* What a review says *)

Criterion == [status: {"satisfied", "unsatisfied", "unchecked"}, evidence: BOOLEAN]
Review == [criteria: SUBSET Criterion, decision: {"pass", "fail", "human_review_required"}]

Unchecked(c) == ~c.evidence \/ c.status = "unchecked"

\* summarize_review: the payload it makes has counts, and no criteria.
Summary(r) ==
  [unchecked_count |-> Cardinality({c \in r.criteria : Unchecked(c)}),
   decision |-> r.decision]

\* guards._unchecked_count on a payload.
UncheckedCount(payload) ==
  CASE "unchecked" \in DOMAIN payload -> payload.unchecked
    [] "criteria" \in DOMAIN payload ->
         Cardinality({c \in payload.criteria : c.status = "unchecked"})
    [] OTHER -> 0

\* The event of a pass.  Besides what the guard makes of the payload it carries, as
\* history, what the reviewer found, and whether no executor has run since.
Passed(t, r) ==
  [type |-> "internal.reviewer_pass", task |-> t, all_checked |-> UncheckedCount(Summary(r)) = 0,
   found |-> Summary(r).unchecked_count = 0, current |-> TRUE]

DefaultEventOfPlanning(stage) == "internal.validator_over"

\* The event type of a stage that failed without a FATAL code, as of a timeout: the
\* timeouts lead where these lead.
DefaultEvent(stage) ==
  IF stage = "planning" THEN "internal.validator_over" ELSE "internal.reviewer_human_review"

\* What people and ReconcileWorker may send about t.
Order(t) ==
  { e \in [type: {"/approve"}, task: {t}, plan_rev: ApproveRevs, reviewed: {FALSE}]
          \cup [type: {"/retry"}, task: {t}, replan_required: {FALSE}]
          \cup [type: {"/retry --replan", "/cancel", "internal.system_recovered"}, task: {t}]
          \cup [type: {"internal.reconcile_resume"}, task: {t}, clean: BOOLEAN,
                continuable: {FALSE}, plan_rev: {NoPlan}, grace_ok: {FALSE}] :
      e.type \in Orders }

-----------------------------------------------------------------------------
Init ==
  /\ tasks = [t \in Task |-> [AbsentRow EXCEPT !.state = "planning"]]
  /\ plans = [t \in Task |-> [rev |-> NoPlan, plan_ok |-> FALSE]]
  /\ approved = [t \in Task |-> NoPlan]
  /\ waiter = [t \in Task |-> "absent"]
  /\ \E b \in BOOLEAN :
       repo = [t \in Task |-> [lease_branch |-> b, worktree |-> "none", pushed |-> FALSE]]
  /\ inbox = << >>
  /\ runner = [at |-> "poll", task |-> NoTask, plan |-> NoPlan]
  /\ orders = 0
  /\ crashes = 0

EmitAhead(e) == Len(inbox) <= MaxInbox /\ inbox' = <<e>> \o inbox

\* An append of the runner to the journal, which brings the event to the inbox.
Emit(e) == Len(inbox) <= MaxInbox /\ inbox' = Append(inbox, e)

Goto(at, t, p) == runner' = [at |-> at, task |-> t, plan |-> p]
Poll == Goto("poll", NoTask, NoPlan)

\* An exception that nothing catches ends the process; it is started again.
Dies == Goto("down", NoTask, NoPlan)

-----------------------------------------------------------------------------
(* Around the runner *)

Command(e) ==
  /\ orders < MaxOrders /\ orders' = orders + 1
  /\ Len(inbox) < MaxInbox /\ inbox' = Append(inbox, e)
  /\ UNCHANGED <<truth, waiter, repo, runner, crashes>>

\* enqueue_waiter.  Nothing in src calls it: an operator inserts the row, once.
Enqueue(t) ==
  /\ waiter[t] = "absent" /\ tasks[t].state = "plan_approved"
  /\ waiter' = [waiter EXCEPT ![t] = "queued"]
  /\ UNCHANGED <<truth, repo, inbox, runner, orders, crashes>>

\* /unlock of its lane, of which it is the head (module Dispatch).
Requeue(t) ==
  /\ orders < MaxOrders /\ orders' = orders + 1
  /\ waiter[t] = "leased" /\ waiter' = [waiter EXCEPT ![t] = "queued"]
  /\ UNCHANGED <<truth, repo, inbox, runner, crashes>>

\* The plan_rev a transition approves: whatever is newest when the Router gets there.
ApprovedAfter(t, to) ==
  CASE to = "planning" /\ tasks[t].state # "system_degraded" -> NoPlan
    [] to = "plan_approved" /\ tasks[t].state \in {"planning", "plan_pending_approval"}
         -> plans[t].rev
    [] OTHER -> approved[t]

\* apply_dispatch_to_implementing writes the branch, and the row no longer knows the
\* worktree: the attempt of the dispatcher names none.
Dispatched(r) ==
  [ lease_branch |-> TRUE, pushed |-> r.pushed,
    worktree |-> IF r.worktree = "recorded" THEN "made" ELSE r.worktree ]

\* run_once: the event moves the task, or is skipped.
RouteTask ==
  /\ inbox # << >>
  /\ LET e == Head(inbox)
         t == tasks[e.task]
         p == plans[e.task]
     IN  \/ \E to \in TaskState :
              /\ Leads(t, p, e, to)
              /\ tasks' = [tasks EXCEPT ![e.task] = [Bumped(t, e, to) EXCEPT !.state_rev = 0]]
              /\ approved' = [approved EXCEPT ![e.task] = ApprovedAfter(e.task, to)]
              /\ repo' = IF e.type = "internal.dispatch_attempt"
                         THEN [repo EXCEPT ![e.task] = Dispatched(@)] ELSE repo
         \/ /\ \A to \in TaskState : ~Leads(t, p, e, to)
            /\ UNCHANGED <<tasks, approved, repo>>
  /\ inbox' = Tail(inbox)
  /\ UNCHANGED <<plans, waiter, runner, orders, crashes>>

-----------------------------------------------------------------------------
(* The runner: run_forever *)

Candidate(t) == waiter[t] = "queued" /\ tasks[t].state = "plan_approved"

StepDispatches(t) ==
  /\ runner.at = "poll" /\ Candidate(t)
  /\ Emit(Attempt(t))
  /\ waiter' = [waiter EXCEPT ![t] = "leased"]
  /\ Goto("poll", t, NoPlan)
  /\ UNCHANGED <<truth, repo, orders, crashes>>

\* run_task(t) is next: step has just dispatched t, or found nothing to dispatch.
Runs(t) == runner.at = "poll" /\ (runner.task = t \/ \A u \in Task : ~Candidate(u))

StartPlanning(t) ==
  /\ Runs(t) /\ tasks[t].state = "planning"
  /\ Goto("planning", t, NoPlan)
  /\ UNCHANGED <<truth, waiter, repo, inbox, orders, crashes>>

RevSkipping(p) == p.rev + 2

NextPlanRev(p) == p.rev + 1

\* _insert_plan commits the next revision ...
InsertPlan(ok) ==
  /\ runner.at = "planning" /\ plans[runner.task].rev < MaxPlans
  /\ plans' = [plans EXCEPT ![runner.task] = [rev |-> NextPlanRev(@), plan_ok |-> ok]]
  /\ Goto("planned", runner.task, NoPlan)
  /\ UNCHANGED <<tasks, approved, waiter, repo, inbox, orders, crashes>>

\* ... and then plan_ready is appended.
AppendPlanReady ==
  /\ runner.at = "planned"
  /\ Emit(Plain("internal.plan_ready", runner.task))
  /\ Poll
  /\ UNCHANGED <<truth, waiter, repo, orders, crashes>>

StageFails ==
  /\ runner.at \in {"planning", "reviewing"}
  /\ \E what \in {DefaultEvent(runner.at), "internal.infra_fatal"} :
       Emit(Plain(what, runner.task))
  /\ Poll
  /\ UNCHANGED <<truth, waiter, repo, orders, crashes>>

NeedsWorktree(t) == repo[t].lease_branch /\ repo[t].worktree # "recorded"

\* run_task in implementing: observe_state_change makes the worktree, ...
MakeWorktree(t) ==
  /\ Runs(t) /\ tasks[t].state = "implementing" /\ NeedsWorktree(t)
  /\ IF repo[t].worktree = "none"
     THEN repo' = [repo EXCEPT ![t].worktree = "made"] /\ Goto("record", t, NoPlan)
     ELSE Dies /\ UNCHANGED repo         \* git: the branch exists already
  /\ UNCHANGED <<truth, waiter, inbox, orders, crashes>>

\* ... writes it into the row, ...
RecordWorktree ==
  /\ runner.at = "record"
  /\ repo' = [repo EXCEPT ![runner.task].worktree = "recorded"]
  /\ Goto("start", runner.task, NoPlan)
  /\ UNCHANGED <<truth, waiter, inbox, orders, crashes>>

\* No executor has run since the reviews these events tell of, but one does now.
Outdated(q, t) ==
  [i \in DOMAIN q |-> IF q[i].type = "internal.reviewer_pass" /\ q[i].task = t
                      THEN [q[i] EXCEPT !.current = FALSE] ELSE q[i]]

\* ... and the executor is started with the newest plan.  Without a plan or a
\* worktree the runner raises.
StartExecutor(t) ==
  /\ \/ runner.at = "start" /\ runner.task = t
     \/ Runs(t) /\ tasks[t].state = "implementing" /\ ~NeedsWorktree(t)
  /\ IF plans[t].rev = NoPlan \/ repo[t].worktree = "none"
     THEN Dies /\ UNCHANGED <<repo, inbox>>
     ELSE /\ Goto("executing", t, plans[t].rev)
          /\ repo' = [repo EXCEPT ![t].pushed = FALSE]
          /\ inbox' = Outdated(inbox, t)
  /\ UNCHANGED <<truth, waiter, orders, crashes>>

ExecutorEnds ==
  /\ runner.at = "executing"
  /\ \E e \in {Finished(runner.task, TRUE), Finished(runner.task, FALSE),
               Plain("internal.infra_fatal", runner.task)} : Emit(e)
  /\ Poll
  /\ UNCHANGED <<truth, waiter, repo, orders, crashes>>

StartReview(t) ==
  /\ Runs(t) /\ tasks[t].state = "reviewing"
  /\ Goto("reviewing", t, plans[t].rev)
  /\ UNCHANGED <<truth, waiter, repo, inbox, orders, crashes>>

ReviewObjects ==
  /\ runner.at = "reviewing"
  /\ \E what \in {"internal.reviewer_fail", "internal.reviewer_human_review"} :
       Emit(Plain(what, runner.task))
  /\ Poll
  /\ UNCHANGED <<truth, waiter, repo, orders, crashes>>

\* A pass pushes the feature branch, if the row knows it, before it is told.
Push ==
  /\ runner.at = "reviewing"
  /\ repo' = IF repo[runner.task].worktree = "recorded"
             THEN [repo EXCEPT ![runner.task].pushed = TRUE] ELSE repo
  /\ Goto("passed", runner.task, runner.plan)
  /\ UNCHANGED <<truth, waiter, inbox, orders, crashes>>

AppendPass ==
  /\ runner.at = "passed"
  /\ \E r \in Review : r.decision = "pass" /\ Emit(Passed(runner.task, r))
  /\ Poll
  /\ UNCHANGED <<truth, waiter, repo, orders, crashes>>

\* A crash anywhere; a push that git refuses is one too.
RunnerCrashes ==
  /\ runner.at # "down"
  /\ crashes < MaxCrashes /\ crashes' = crashes + 1
  /\ Dies
  /\ UNCHANGED <<truth, waiter, repo, inbox, orders>>

RunnerStarts ==
  /\ runner.at = "down"
  /\ Poll
  /\ UNCHANGED <<truth, waiter, repo, inbox, orders, crashes>>

-----------------------------------------------------------------------------
RunnerStep ==
  \/ \E t \in Task : \/ StepDispatches(t) \/ StartPlanning(t) \/ MakeWorktree(t)
                     \/ StartExecutor(t) \/ StartReview(t)
  \/ \E ok \in BOOLEAN : InsertPlan(ok)
  \/ AppendPlanReady \/ StageFails \/ RecordWorktree \/ ExecutorEnds
  \/ ReviewObjects \/ Push \/ AppendPass \/ RunnerStarts

Next ==
  \/ RunnerStep \/ RunnerCrashes \/ RouteTask
  \/ \E t \in Task : Enqueue(t) \/ Requeue(t) \/ \E e \in Order(t) : Command(e)

Spec == Init /\ [][Next]_vars

\* Both loops keep running (systemd restarts the Router; for the runner, which has no
\* unit in deploy/, it is an assumption) and stages end (module ToolCalls).
FairSpec == Spec /\ WF_vars(RunnerStep) /\ WF_vars(RouteTask)
=============================================================================
