---------------------------- MODULE StagesProps ----------------------------
(***************************************************************************)
(* What the stages of a task promise while results lag behind the loop.    *)
(***************************************************************************)
EXTENDS Stages

PassEvent ==
  [type: {"internal.reviewer_pass"}, task: Task, all_checked: BOOLEAN, found: BOOLEAN,
   current: BOOLEAN]

Mail ==
  UNION { PlainEvent, ApproveEvent, RetryEvent, DispatchEvent, ExecutorEvent, ResumeEvent,
          PassEvent }

\* Every variable keeps its type.
TypeOK ==
  /\ tasks \in [Task -> {r \in TaskRow : r.state \in TaskState}]
  /\ plans \in [Task -> PlanRow]
  /\ approved \in [Task -> 0 .. MaxPlans]
  /\ waiter \in [Task -> {"absent", "queued", "leased"}]
  /\ repo \in [Task -> Repo]
  /\ runner \in [at: At, task: Task \cup {NoTask}, plan: 0 .. MaxPlans]
  /\ inbox \in Seq(Mail)
  /\ orders \in 0 .. MaxOrders /\ crashes \in 0 .. MaxCrashes

\* What passes review is what was reviewed, and it is on the remote: when a verdict
\* moves a task, no executor has run since that review began and the branch was
\* pushed after the last one, unless the row had lost the path of the worktree, for
\* want of which the push is skipped.  Reviews run twice, verdicts wait in the inbox
\* while people retry, and nothing in reviewer_pass names the commit it is about
\* (dispatcher._run_reviewing_stage, tool_runner.run_review).
PassIsOfThisWork ==
  [][\A t \in Task :
       /\ tasks[t].state = "reviewing" /\ tasks'[t].state # "reviewing"
       /\ Head(inbox).type = "internal.reviewer_pass"
       => /\ Head(inbox).current
          /\ repo[t].pushed \/ repo[t].worktree = "made"]_vars

\* The executor never gets a plan more than one revision after the approved one: a
\* planning run that had begun before the approval may still insert its plan, and no
\* other run begins (dispatcher._require_latest_plan, _next_runnable_task_id).
PlanIsNextToApproved ==
  runner.at = "executing" /\ approved[runner.task] # NoPlan =>
    runner.plan \in {approved[runner.task], approved[runner.task] + 1}

\* The stage of t cannot move it.  In implementing the runner raises every time, for
\* want of a plan, of a lease_branch, or of a worktree that is there but not in the row,
\* which a crash or a second dispatch brings about; in reviewing there is no transition
\* for infra_fatal.
Barren(t) ==
  \/ /\ tasks[t].state = "implementing"
     /\ \/ plans[t].rev = NoPlan \/ ~repo[t].lease_branch
        \/ repo[t].worktree = "made" /\ runner.at # "record"
  \/ /\ tasks[t].state = "reviewing"
     /\ \E i \in DOMAIN inbox : inbox[i] = Plain("internal.infra_fatal", t)

\* No task stays in its stages for ever: again and again it waits for a person, for
\* a lease or for nothing, whatever the stages answer and although results arrive
\* late and twice, unless its stage is barren (dispatcher.run_forever,
\* _handle_stage_failure and the TRANSITIONS of the results).
StagesEnd ==
  \A t \in Task : []<>(tasks[t].state \notin Stage \/ Barren(t))

\* Basic design 5: the executor's input is the approved plan.
ExecutesApprovedPlan ==
  runner.at = "executing" => runner.plan = approved[runner.task]

\* Detailed design 6.4: one unchecked criterion, and the task cannot pass.
PassIsChecked ==
  [][\A t \in Task :
       /\ tasks[t].state = "reviewing" /\ tasks'[t].state = "done"
       => Head(inbox).found]_vars
=============================================================================
