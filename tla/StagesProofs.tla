---------------------------- MODULE StagesProofs ----------------------------
(***************************************************************************)
(* Proofs about the stages of a task, for every set of tasks and orders    *)
(* and every number of orders, crashes, plans and unprocessed events.      *)
(***************************************************************************)
EXTENDS StagesProps, TLAPS

\* Where the runner is determines what it holds, and plans stay within their bound.
Shape ==
  /\ runner.at \notin {"poll", "down"} => runner.task \in Task
  /\ \A t \in Task : plans[t].rev \in 0 .. MaxPlans

TypeInv == TypeOK /\ Shape

-----------------------------------------------------------------------------
(* Types of events and rows *)

LEMMA MailType == ASSUME NEW e \in Mail PROVE e.task \in Task
<1>1. CASE e \in PlainEvent
  BY <1>1 DEF PlainEvent
<1>2. CASE e \in ApproveEvent
  BY <1>2 DEF ApproveEvent
<1>3. CASE e \in RetryEvent
  BY <1>3 DEF RetryEvent
<1>4. CASE e \in DispatchEvent
  BY <1>4 DEF DispatchEvent
<1>5. CASE e \in ExecutorEvent
  BY <1>5 DEF ExecutorEvent
<1>6. CASE e \in ResumeEvent
  BY <1>6 DEF ResumeEvent
<1>7. CASE e \in PassEvent
  BY <1>7 DEF PassEvent
<1> QED
  BY <1>1, <1>2, <1>3, <1>4, <1>5, <1>6, <1>7 DEF Mail

\* What the runner sends.
LEMMA SentType ==
  ASSUME NEW t \in Task
  PROVE  /\ Attempt(t) \in Mail
         /\ \A good \in BOOLEAN : Finished(t, good) \in Mail
         /\ \A what \in { "internal.plan_ready", "internal.validator_over",
                          "internal.infra_fatal", "internal.reviewer_fail",
                          "internal.reviewer_human_review" } : Plain(what, t) \in Mail
         /\ \A r : Passed(t, r) \in Mail
<1>1. Attempt(t) \in DispatchEvent
  BY DEF Attempt, DispatchEvent
<1>2. ASSUME NEW good \in BOOLEAN PROVE Finished(t, good) \in ExecutorEvent
  BY DEF Finished, ExecutorEvent
<1>3. ASSUME NEW what \in { "internal.plan_ready", "internal.validator_over",
                            "internal.infra_fatal", "internal.reviewer_fail",
                            "internal.reviewer_human_review" }
      PROVE  Plain(what, t) \in PlainEvent
  BY DEF Plain, PlainEvent
<1>4. ASSUME NEW r PROVE Passed(t, r) \in PassEvent
  <2> DEFINE a == UncheckedCount(Summary(r)) = 0
             b == Summary(r).unchecked_count = 0
  <2>1. a \in BOOLEAN /\ b \in BOOLEAN
    OBVIOUS
  <2>2. Passed(t, r) = [type |-> "internal.reviewer_pass", task |-> t, all_checked |-> a,
                        found |-> b, current |-> TRUE]
    BY DEF Passed
  <2> HIDE DEF a, b
  <2> QED
    BY <2>1, <2>2 DEF PassEvent
<1> QED
  BY <1>1, <1>2, <1>3, <1>4 DEF Mail

LEMMA OrderType == ASSUME NEW t \in Task, NEW e \in Order(t) PROVE e \in Mail
<1>1. CASE e \in [type: {"/approve"}, task: {t}, plan_rev: ApproveRevs, reviewed: {FALSE}]
  BY <1>1 DEF Mail, ApproveEvent
<1>2. CASE e \in [type: {"/retry"}, task: {t}, replan_required: {FALSE}]
  BY <1>2 DEF Mail, RetryEvent
<1>3. CASE e \in [type: {"/retry --replan", "/cancel", "internal.system_recovered"}, task: {t}]
  BY <1>3 DEF Mail, PlainEvent
<1>4. CASE e \in [type: {"internal.reconcile_resume"}, task: {t}, clean: BOOLEAN,
                  continuable: {FALSE}, plan_rev: {NoPlan}, grace_ok: {FALSE}]
  <2>1. NoPlan \in 0 .. MaxPlans
    BY StagesAssumption DEF NoPlan
  <2> QED
    BY <1>4, <2>1 DEF Mail, ResumeEvent
<1> QED
  BY <1>1, <1>2, <1>3, <1>4 DEF Order

LEMMA RowType ==
  ASSUME NEW r \in TaskRow, r.state \in TaskState, NEW e, NEW to \in TaskState
  PROVE  /\ [Bumped(r, e, to) EXCEPT !.state_rev = 0] \in TaskRow
         /\ [Bumped(r, e, to) EXCEPT !.state_rev = 0].state = to
         /\ [Bumped(r, e, to) EXCEPT !.state_rev = 0].resume_target_state
              = ResumeTargetAfter(r, e, to)
<1>1. /\ r.critical \in BOOLEAN /\ r.manual_gate_required \in BOOLEAN
      /\ r.resume_target_state \in TaskState \cup {NoTarget}
  BY DEF TaskRow
<1>2. CriticalAfter(r, e) \in BOOLEAN
  BY <1>1 DEF CriticalAfter
<1>3. GateAfter(r, e, to) \in BOOLEAN
  BY <1>1 DEF GateAfter
<1>4. ResumeTargetAfter(r, e, to) \in TaskState \cup {NoTarget}
  BY <1>1 DEF ResumeTargetAfter
<1> QED
  BY <1>2, <1>3, <1>4 DEF Bumped, TaskRow

\* What the steps make of a row of the repository stays one.
LEMMA RepoType ==
  ASSUME NEW r \in Repo
  PROVE  /\ [r EXCEPT !.worktree = "made"] \in Repo
         /\ [r EXCEPT !.worktree = "recorded"] \in Repo
         /\ [r EXCEPT !.pushed = FALSE] \in Repo
         /\ [r EXCEPT !.pushed = TRUE] \in Repo
         /\ Dispatched(r) \in Repo
<1>1. /\ [r EXCEPT !.worktree = "made"] \in Repo
      /\ [r EXCEPT !.worktree = "recorded"] \in Repo
  BY DEF Repo
<1>2. /\ [r EXCEPT !.pushed = FALSE] \in Repo
      /\ [r EXCEPT !.pushed = TRUE] \in Repo
  BY DEF Repo
<1>3. Dispatched(r) \in Repo
  BY DEF Dispatched, Repo
<1> QED
  BY <1>1, <1>2, <1>3

\* Only a PassEvent has the type of a pass.
LEMMA PassIsPassEvent ==
  ASSUME NEW e \in Mail, e.type = "internal.reviewer_pass"
  PROVE  e \in PassEvent
<1>1. CASE e \in PlainEvent
  BY <1>1 DEF PlainEvent
<1>2. CASE e \in ApproveEvent
  BY <1>2 DEF ApproveEvent
<1>3. CASE e \in RetryEvent
  BY <1>3 DEF RetryEvent
<1>4. CASE e \in DispatchEvent
  BY <1>4 DEF DispatchEvent
<1>5. CASE e \in ExecutorEvent
  BY <1>5 DEF ExecutorEvent
<1>6. CASE e \in ResumeEvent
  BY <1>6 DEF ResumeEvent
<1> QED
  BY <1>1, <1>2, <1>3, <1>4, <1>5, <1>6 DEF Mail

\* An executor outdates verdicts in place.
LEMMA OutdatedType ==
  ASSUME NEW q \in Seq(Mail), NEW t \in Task
  PROVE  Outdated(q, t) \in Seq(Mail)
<1>1. ASSUME NEW i \in DOMAIN q PROVE Outdated(q, t)[i] \in Mail
  <2>1. q[i] \in Mail
    OBVIOUS
  <2>2. CASE q[i] \in PassEvent
    <3>1. [q[i] EXCEPT !.current = FALSE] \in PassEvent
      BY <2>2 DEF PassEvent
    <3> QED
      BY <2>1, <3>1 DEF Outdated, Mail
  <2>3. CASE q[i] \notin PassEvent
    <3>1. q[i].type # "internal.reviewer_pass"
      BY <2>1, <2>3, PassIsPassEvent
    <3> QED
      BY <2>1, <3>1 DEF Outdated
  <2> QED
    BY <2>2, <2>3
<1> QED
  BY <1>1 DEF Outdated

LEMMA InitType == Init => TypeInv
<1> SUFFICES ASSUME Init PROVE TypeInv
  OBVIOUS
<1> USE StagesAssumption
<1>1. tasks \in [Task -> {r \in TaskRow : r.state \in TaskState}]
  <2>1. [AbsentRow EXCEPT !.state = "planning"] \in {r \in TaskRow : r.state \in TaskState}
    BY DEF AbsentRow, TaskRow, TaskState, NoTarget
  <2> QED
    BY <2>1 DEF Init
<1>2. plans \in [Task -> PlanRow]
  BY DEF Init, PlanRow, NoPlan
<1>3. repo \in [Task -> Repo]
  BY DEF Init, Repo
<1>4. inbox \in Seq(Mail)
  BY DEF Init
<1>5. /\ approved \in [Task -> 0 .. MaxPlans]
      /\ waiter \in [Task -> {"absent", "queued", "leased"}]
      /\ orders \in 0 .. MaxOrders /\ crashes \in 0 .. MaxCrashes
  BY DEF Init, NoPlan
<1>6. /\ runner \in [at: At, task: Task \cup {NoTask}, plan: 0 .. MaxPlans]
      /\ runner.at = "poll"
  BY DEF Init, NoPlan, At
<1>7. \A t \in Task : plans[t].rev \in 0 .. MaxPlans
  <2>1. 0 \in 0 .. MaxPlans
    OBVIOUS
  <2>2. \A t \in Task : plans[t].rev = 0
    BY DEF Init, NoPlan
  <2> QED
    BY <2>1, <2>2
<1> QED
  BY <1>1, <1>2, <1>3, <1>4, <1>5, <1>6, <1>7 DEF TypeInv, TypeOK, Shape

LEMMA EmitType ==
  ASSUME inbox \in Seq(Mail), NEW e \in Mail, Emit(e)
  PROVE  inbox' \in Seq(Mail)
  BY DEF Emit

LEMMA NextType == TypeInv /\ [Next]_vars => TypeInv'
<1> SUFFICES ASSUME TypeInv, [Next]_vars PROVE TypeInv'
  OBVIOUS
<1> USE StagesAssumption
<1>a. /\ tasks \in [Task -> {r \in TaskRow : r.state \in TaskState}]
      /\ plans \in [Task -> PlanRow] /\ approved \in [Task -> 0 .. MaxPlans]
      /\ waiter \in [Task -> {"absent", "queued", "leased"}] /\ repo \in [Task -> Repo]
      /\ runner \in [at: At, task: Task \cup {NoTask}, plan: 0 .. MaxPlans]
      /\ inbox \in Seq(Mail)
      /\ orders \in 0 .. MaxOrders /\ crashes \in 0 .. MaxCrashes
      /\ Shape
  BY DEF TypeInv, TypeOK
<1>b. ASSUME NEW at \in At, NEW t \in Task \cup {NoTask}, NEW p \in 0 .. MaxPlans,
             Goto(at, t, p), at \in {"poll", "down"} \/ t \in Task
      PROVE  /\ runner' \in [at: At, task: Task \cup {NoTask}, plan: 0 .. MaxPlans]
             /\ runner'.at \notin {"poll", "down"} => runner'.task \in Task
  BY <1>b DEF Goto
<1>c. ASSUME Poll \/ Dies
      PROVE  /\ runner' \in [at: At, task: Task \cup {NoTask}, plan: 0 .. MaxPlans]
             /\ runner'.at \notin {"poll", "down"} => runner'.task \in Task
  BY <1>c DEF Poll, Dies, Goto, NoPlan, At
<1>d. NoPlan \in 0 .. MaxPlans
  BY DEF NoPlan
\* A step of the runner that leaves the tables of the tasks and the plans alone.
<1>e. ASSUME UNCHANGED <<truth, orders>>, crashes' \in 0 .. MaxCrashes,
             waiter' \in [Task -> {"absent", "queued", "leased"}], repo' \in [Task -> Repo],
             inbox' \in Seq(Mail),
             runner' \in [at: At, task: Task \cup {NoTask}, plan: 0 .. MaxPlans],
             runner'.at \notin {"poll", "down"} => runner'.task \in Task
      PROVE  TypeInv'
  BY <1>a, <1>e DEF TypeInv, TypeOK, Shape, truth
\* A step that leaves the runner alone too.
<1>f. ASSUME UNCHANGED <<truth, runner, crashes, repo>>, orders' \in 0 .. MaxOrders,
             waiter' \in [Task -> {"absent", "queued", "leased"}], inbox' \in Seq(Mail)
      PROVE  TypeInv'
  BY <1>a, <1>f DEF TypeInv, TypeOK, Shape, truth
<1>1. ASSUME NEW t \in Task, NEW e \in Order(t), Command(e) PROVE TypeInv'
  <2>1. inbox' \in Seq(Mail)
    BY <1>1, <1>a, OrderType DEF Command
  <2>2. orders' \in 0 .. MaxOrders
    BY <1>1, <1>a DEF Command
  <2> QED
    BY <1>1, <1>a, <1>f, <2>1, <2>2 DEF Command
<1>2. ASSUME NEW t \in Task, Enqueue(t) PROVE TypeInv'
  BY <1>2, <1>a, <1>f DEF Enqueue
<1>3. ASSUME NEW t \in Task, Requeue(t) PROVE TypeInv'
  <2>1. orders' \in 0 .. MaxOrders
    BY <1>3, <1>a DEF Requeue
  <2> QED
    BY <1>3, <1>a, <1>f, <2>1 DEF Requeue
<1>4. CASE RouteTask
  <2>1. Head(inbox) \in Mail /\ Tail(inbox) \in Seq(Mail)
    BY <1>4, <1>a DEF RouteTask
  <2> DEFINE e == Head(inbox)
             t == e.task
  <2>2. t \in Task
    BY <2>1, MailType
  <2>3. CASE UNCHANGED <<tasks, approved, repo>>
    BY <1>4, <1>a, <2>1, <2>3 DEF RouteTask, TypeInv, TypeOK, Shape
  <2>4. ASSUME NEW to \in TaskState,
               tasks' = [tasks EXCEPT ![t] = [Bumped(tasks[t], e, to) EXCEPT !.state_rev = 0]],
               approved' = [approved EXCEPT ![t] = ApprovedAfter(t, to)],
               repo' = IF e.type = "internal.dispatch_attempt"
                       THEN [repo EXCEPT ![t] = Dispatched(repo[t])] ELSE repo
        PROVE  TypeInv'
    <3>a. tasks[t] \in TaskRow /\ tasks[t].state \in TaskState /\ repo[t] \in Repo
      BY <1>a, <2>2
    <3> HIDE DEF e, t
    <3>1. [Bumped(tasks[t], e, to) EXCEPT !.state_rev = 0]
            \in {r \in TaskRow : r.state \in TaskState}
      <4> DEFINE new == [Bumped(tasks[t], e, to) EXCEPT !.state_rev = 0]
      <4>1. new \in TaskRow /\ new.state = to
        BY <3>a, RowType, Zenon
      <4> HIDE DEF new
      <4>2. new \in {r \in TaskRow : r.state \in TaskState}
        BY <4>1
      <4> QED
        BY <4>2 DEF new
    <3>2. ApprovedAfter(t, to) \in 0 .. MaxPlans
      BY <1>a, <1>d, <2>2 DEF ApprovedAfter, Shape
    <3>3. repo' \in [Task -> Repo]
      <4>1. Dispatched(repo[t]) \in Repo
        BY <3>a, RepoType
      <4> QED
        BY <1>a, <2>2, <2>4, <4>1
    <3>4. /\ tasks' \in [Task -> {r \in TaskRow : r.state \in TaskState}]
          /\ approved' \in [Task -> 0 .. MaxPlans]
      BY <1>a, <2>2, <2>4, <3>1, <3>2
    <3> QED
      BY <1>4, <1>a, <2>1, <3>3, <3>4 DEF RouteTask, TypeInv, TypeOK, Shape
  <2> QED
    BY <1>4, <2>3, <2>4 DEF RouteTask
<1>5. ASSUME NEW t \in Task, StepDispatches(t) PROVE TypeInv'
  <2>1. inbox' \in Seq(Mail)
    BY <1>5, <1>a, SentType, EmitType DEF StepDispatches
  <2> QED
    BY <1>5, <1>a, <1>b, <1>d, <1>e, <2>1 DEF StepDispatches, At
<1>6. ASSUME NEW t \in Task, StartPlanning(t) PROVE TypeInv'
  BY <1>6, <1>a, <1>b, <1>d, <1>e DEF StartPlanning, At
<1>7. ASSUME NEW ok \in BOOLEAN, InsertPlan(ok) PROVE TypeInv'
  <2>1. runner.task \in Task
    BY <1>7, <1>a DEF InsertPlan, Shape
  <2>2. NextPlanRev(plans[runner.task]) \in 0 .. MaxPlans
    BY <1>7, <1>a, <2>1 DEF InsertPlan, NextPlanRev, Shape
  <2>3. plans' = [plans EXCEPT ![runner.task] =
                    [rev |-> NextPlanRev(plans[runner.task]), plan_ok |-> ok]]
    BY <1>7 DEF InsertPlan
  <2>4. /\ plans' \in [Task -> PlanRow]
        /\ \A t \in Task : plans'[t].rev \in 0 .. MaxPlans
    BY <1>a, <2>1, <2>2, <2>3 DEF PlanRow, Shape
  <2>5. /\ runner' \in [at: At, task: Task \cup {NoTask}, plan: 0 .. MaxPlans]
        /\ runner'.at \notin {"poll", "down"} => runner'.task \in Task
    BY <1>7, <1>b, <1>d, <2>1 DEF InsertPlan, At
  <2> QED
    BY <1>7, <1>a, <2>4, <2>5 DEF InsertPlan, TypeInv, TypeOK, Shape
<1>8. CASE AppendPlanReady
  <2>1. runner.task \in Task
    BY <1>8, <1>a DEF AppendPlanReady, Shape
  <2>2. inbox' \in Seq(Mail)
    BY <1>8, <1>a, <2>1, SentType, EmitType DEF AppendPlanReady
  <2> QED
    BY <1>8, <1>a, <1>c, <1>e, <2>2 DEF AppendPlanReady
<1>9. CASE StageFails
  <2>1. runner.task \in Task
    BY <1>9, <1>a DEF StageFails, Shape
  <2>2. inbox' \in Seq(Mail)
    BY <1>9, <1>a, <2>1, SentType, EmitType DEF StageFails, DefaultEvent
  <2> QED
    BY <1>9, <1>a, <1>c, <1>e, <2>2 DEF StageFails
<1>10. ASSUME NEW t \in Task, MakeWorktree(t) PROVE TypeInv'
  <2>1. repo' \in [Task -> Repo]
    <3>1. [repo[t] EXCEPT !.worktree = "made"] \in Repo
      BY <1>a, RepoType
    <3> QED
      BY <1>10, <1>a, <3>1 DEF MakeWorktree
  <2> QED
    BY <1>10, <1>a, <1>b, <1>c, <1>d, <1>e, <2>1 DEF MakeWorktree, At
<1>11. CASE RecordWorktree
  <2>1. runner.task \in Task
    BY <1>11, <1>a DEF RecordWorktree, Shape
  <2>2. repo' \in [Task -> Repo]
    <3>1. [repo[runner.task] EXCEPT !.worktree = "recorded"] \in Repo
      BY <1>a, <2>1, RepoType
    <3> QED
      BY <1>11, <1>a, <2>1, <3>1 DEF RecordWorktree
  <2> QED
    BY <1>11, <1>a, <1>b, <1>d, <1>e, <2>1, <2>2 DEF RecordWorktree, At
<1>12. ASSUME NEW t \in Task, StartExecutor(t) PROVE TypeInv'
  <2>1. CASE Dies /\ UNCHANGED <<repo, inbox>>
    BY <1>12, <1>a, <1>c, <1>e, <2>1 DEF StartExecutor
  <2>2. CASE /\ Goto("executing", t, plans[t].rev)
             /\ repo' = [repo EXCEPT ![t].pushed = FALSE]
             /\ inbox' = Outdated(inbox, t)
    <3>1. repo' \in [Task -> Repo]
      <4>1. [repo[t] EXCEPT !.pushed = FALSE] \in Repo
        BY <1>a, RepoType
      <4> QED
        BY <1>a, <2>2, <4>1
    <3>2. inbox' \in Seq(Mail)
      BY <1>a, <2>2, OutdatedType
    <3> QED
      BY <1>12, <1>a, <1>b, <1>e, <2>2, <3>1, <3>2 DEF StartExecutor, Shape, At
  <2> QED
    BY <1>12, <2>1, <2>2 DEF StartExecutor
<1>13. CASE ExecutorEnds
  <2>1. runner.task \in Task
    BY <1>13, <1>a DEF ExecutorEnds, Shape
  <2>2. inbox' \in Seq(Mail)
    BY <1>13, <1>a, <2>1, SentType, EmitType DEF ExecutorEnds
  <2> QED
    BY <1>13, <1>a, <1>c, <1>e, <2>2 DEF ExecutorEnds
<1>14. ASSUME NEW t \in Task, StartReview(t) PROVE TypeInv'
  BY <1>14, <1>a, <1>b, <1>e DEF StartReview, Shape, At
<1>15. CASE ReviewObjects
  <2>1. runner.task \in Task
    BY <1>15, <1>a DEF ReviewObjects, Shape
  <2>2. inbox' \in Seq(Mail)
    BY <1>15, <1>a, <2>1, SentType, EmitType DEF ReviewObjects
  <2> QED
    BY <1>15, <1>a, <1>c, <1>e, <2>2 DEF ReviewObjects
<1>16. CASE Push
  <2>1. runner.task \in Task
    BY <1>16, <1>a DEF Push, Shape
  <2>2. repo' \in [Task -> Repo]
    <3>a. repo[runner.task] \in Repo
      BY <1>a, <2>1
    <3>1. [repo[runner.task] EXCEPT !.pushed = TRUE] \in Repo
      BY <3>a, RepoType
    <3> QED
      BY <1>16, <1>a, <2>1, <3>1 DEF Push
  <2>3. runner.plan \in 0 .. MaxPlans
    BY <1>a
  <2> QED
    BY <1>16, <1>a, <1>b, <1>e, <2>1, <2>2, <2>3 DEF Push, At
<1>17. CASE AppendPass
  <2>1. runner.task \in Task
    BY <1>17, <1>a DEF AppendPass, Shape
  <2>2. inbox' \in Seq(Mail)
    BY <1>17, <1>a, <2>1, SentType, EmitType DEF AppendPass
  <2> QED
    BY <1>17, <1>a, <1>c, <1>e, <2>2 DEF AppendPass
<1>18. CASE RunnerCrashes
  <2>1. crashes' \in 0 .. MaxCrashes
    BY <1>18, <1>a DEF RunnerCrashes
  <2> QED
    BY <1>18, <1>a, <1>c, <1>e, <2>1 DEF RunnerCrashes
<1>19. CASE RunnerStarts
  BY <1>19, <1>a, <1>c, <1>e DEF RunnerStarts
<1>20. CASE UNCHANGED vars
  BY <1>20, <1>a, <1>f DEF vars
<1> QED
  BY <1>1, <1>2, <1>3, <1>4, <1>5, <1>6, <1>7, <1>8, <1>9, <1>10, <1>11, <1>12, <1>13,
     <1>14, <1>15, <1>16, <1>17, <1>18, <1>19, <1>20 DEF Next, RunnerStep

\* Every variable keeps its type.
THEOREM TypeCorrect == Spec => []TypeOK
<1>1. Init => TypeInv
  BY InitType
<1>2. TypeInv /\ [Next]_vars => TypeInv'
  BY NextType
<1>3. TypeInv => TypeOK
  BY DEF TypeInv
<1> QED
  BY <1>1, <1>2, <1>3, PTL DEF Spec

-----------------------------------------------------------------------------
(* The plan the executor is given *)

\* While a task is to be planned nothing is approved ...
NoneApproved ==
  \A t \in Task :
    \/ tasks[t].state = "planning"
    \/ tasks[t].state = "system_degraded" /\ tasks[t].resume_target_state = "planning"
    => approved[t] = NoPlan

\* ... and what one planning run may still insert comes right after what is approved.
NewestIsNext ==
  \A t \in Task : approved[t] # NoPlan =>
    /\ plans[t].rev \in {approved[t], approved[t] + 1}
    /\ runner.at = "planning" /\ runner.task = t => plans[t].rev = approved[t]

\* What runs is the newest plan: nobody plans meanwhile.
NewestRuns == runner.at = "executing" => runner.plan = plans[runner.task].rev

PlanInv == NoneApproved /\ NewestIsNext /\ NewestRuns

LEMMA InitPlan == Init => PlanInv
BY DEF Init, PlanInv, NoneApproved, NewestIsNext, NewestRuns

\* A degraded task comes back to planning only if it was there.
LEMMA BackToPlanning ==
  ASSUME NEW r, r.state = "system_degraded", NEW p, NEW e, Leads(r, p, e, "planning")
  PROVE  r.resume_target_state = "planning"
BY DEF Leads, PlanningLeads, ImplementingLeads, ReviewingLeads, CommandLeads,
   RecoveredState, SameState, TaskState

\* A task is degraded by infra_fatal, or was so before.
LEMMA Degrades ==
  ASSUME NEW r, NEW p, NEW e, Leads(r, p, e, "system_degraded")
  PROVE  \/ e.type = "internal.infra_fatal" /\ r.state # "system_degraded"
         \/ /\ e.type \notin {"internal.infra_fatal", "internal.system_recovered"}
            /\ r.state = "system_degraded"
BY DEF Leads, PlanningLeads, ImplementingLeads, ReviewingLeads, CommandLeads,
   RecoveredState, SameState, TaskState

LEMMA RoutePlan == TypeInv /\ PlanInv /\ RouteTask => PlanInv'
<1> SUFFICES ASSUME TypeInv, PlanInv, RouteTask PROVE PlanInv'
  OBVIOUS
<1> DEFINE e == Head(inbox)
           t == e.task
<1>a. /\ tasks \in [Task -> {r \in TaskRow : r.state \in TaskState}]
      /\ plans \in [Task -> PlanRow] /\ approved \in [Task -> 0 .. MaxPlans]
      /\ inbox \in Seq(Mail)
  BY DEF TypeInv, TypeOK
<1>b. t \in Task
  BY <1>a, MailType DEF RouteTask
<1>c. UNCHANGED <<plans, runner>>
  BY DEF RouteTask
<1>1. CASE UNCHANGED <<tasks, approved>>
  BY <1>1, <1>c DEF PlanInv, NoneApproved, NewestIsNext, NewestRuns
<1>2. ASSUME NEW to \in TaskState, Leads(tasks[t], plans[t], e, to),
             tasks' = [tasks EXCEPT ![t] = [Bumped(tasks[t], e, to) EXCEPT !.state_rev = 0]],
             approved' = [approved EXCEPT ![t] = ApprovedAfter(t, to)]
      PROVE  PlanInv'
  <2>a. tasks[t] \in TaskRow /\ tasks[t].state \in TaskState
    BY <1>a, <1>b
  <2> HIDE DEF e, t
  <2>b. tasks'[t].state = to
        /\ tasks'[t].resume_target_state = ResumeTargetAfter(tasks[t], e, to)
    BY <1>a, <1>b, <1>2, <2>a, RowType
  <2>c. approved'[t] = ApprovedAfter(t, to)
    BY <1>a, <1>b, <1>2
  <2>d. \A u \in Task \ {t} : tasks'[u] = tasks[u] /\ approved'[u] = approved[u]
    BY <1>a, <1>2
  <2>1. ASSUME to = "planning" PROVE approved'[t] = NoPlan
    <3>1. CASE tasks[t].state = "system_degraded"
      BY <1>b, <1>2, <2>1, <2>c, <3>1, BackToPlanning
      DEF ApprovedAfter, PlanInv, NoneApproved
    <3> QED
      BY <2>1, <2>c, <3>1 DEF ApprovedAfter
  <2>2. ASSUME to = "system_degraded", tasks'[t].resume_target_state = "planning"
        PROVE  approved'[t] = NoPlan
    <3>1. approved'[t] = approved[t]
      BY <2>2, <2>c DEF ApprovedAfter
    <3>2. Leads(tasks[t], plans[t], e, "system_degraded")
      BY <1>2, <2>2
    <3>3. CASE e.type = "internal.infra_fatal"
      <4>1. tasks[t].state = "planning"
        BY <2>2, <2>b, <3>3 DEF ResumeTargetAfter
      <4> QED
        BY <1>b, <3>1, <4>1 DEF PlanInv, NoneApproved
    <3>4. CASE /\ e.type \notin {"internal.infra_fatal", "internal.system_recovered"}
               /\ tasks[t].state = "system_degraded"
      <4>1. tasks[t].resume_target_state = "planning"
        BY <2>2, <2>b, <3>4 DEF ResumeTargetAfter
      <4> QED
        BY <1>b, <3>1, <3>4, <4>1 DEF PlanInv, NoneApproved
    <3> QED
      BY <3>2, <3>3, <3>4, Degrades
  <2>3. NoneApproved'
    BY <2>1, <2>2, <2>b, <2>d DEF PlanInv, NoneApproved
  <2>4. approved'[t] \in {NoPlan, plans[t].rev, approved[t]}
    BY <2>c DEF ApprovedAfter
  <2>5. plans[t].rev \in Nat
    BY <1>a, <1>b DEF PlanRow
  <2>6. NewestIsNext'
    BY <1>b, <1>c, <2>4, <2>5, <2>d DEF PlanInv, NewestIsNext
  <2>7. NewestRuns'
    BY <1>c DEF PlanInv, NewestRuns
  <2> QED
    BY <2>3, <2>6, <2>7 DEF PlanInv
<1> QED
  BY <1>1, <1>2 DEF RouteTask

LEMMA NextPlan == TypeInv /\ PlanInv /\ [Next]_vars => PlanInv'
<1> SUFFICES ASSUME TypeInv, PlanInv, [Next]_vars PROVE PlanInv'
  OBVIOUS
<1>a. \A t \in Task : plans[t].rev \in Nat
  BY DEF TypeInv, TypeOK, PlanRow
\* Steps that change neither the tables nor start a planning run or an executor.
<1>b. ASSUME UNCHANGED truth,
             runner' = runner \/ runner'.at \notin {"planning", "executing"}
      PROVE  PlanInv'
  BY <1>b DEF truth, PlanInv, NoneApproved, NewestIsNext, NewestRuns
<1>1. CASE RouteTask
  BY <1>1, RoutePlan
<1>2. ASSUME NEW t \in Task, StartPlanning(t) PROVE PlanInv'
  <2>1. approved[t] = NoPlan
    BY <1>2 DEF StartPlanning, PlanInv, NoneApproved
  <2>2. /\ UNCHANGED truth
        /\ runner'.at = "planning" /\ runner'.task = t
    BY <1>2 DEF StartPlanning, Goto
  <2> QED
    BY <2>1, <2>2 DEF truth, PlanInv, NoneApproved, NewestIsNext, NewestRuns
<1>3. ASSUME NEW ok \in BOOLEAN, InsertPlan(ok) PROVE PlanInv'
  <2>1. /\ runner.at = "planning" /\ runner'.at = "planned" /\ runner.task \in Task
        /\ UNCHANGED <<tasks, approved>>
    BY <1>3 DEF InsertPlan, Goto, TypeInv, Shape
  <2>2. plans' = [plans EXCEPT ![runner.task] =
                    [rev |-> plans[runner.task].rev + 1, plan_ok |-> ok]]
    BY <1>3 DEF InsertPlan, NextPlanRev
  <2>3. /\ plans'[runner.task].rev = plans[runner.task].rev + 1
        /\ \A u \in Task \ {runner.task} : plans'[u] = plans[u]
    BY <2>1, <2>2 DEF TypeInv, TypeOK
  <2>4. NewestIsNext'
    BY <2>1, <2>3 DEF PlanInv, NewestIsNext
  <2> QED
    BY <2>1, <2>4 DEF PlanInv, NoneApproved, NewestRuns
<1>4. ASSUME NEW t \in Task, StartExecutor(t) PROVE PlanInv'
  <2>1. CASE Dies
    BY <1>4, <1>b, <2>1 DEF StartExecutor, Dies, Goto
  <2>2. CASE Goto("executing", t, plans[t].rev)
    BY <1>4, <2>2 DEF StartExecutor, Goto, truth, PlanInv, NoneApproved, NewestIsNext,
       NewestRuns
  <2> QED
    BY <1>4, <2>1, <2>2 DEF StartExecutor
<1>5. ASSUME NEW t \in Task, StepDispatches(t) \/ MakeWorktree(t) \/ StartReview(t)
      PROVE  PlanInv'
  BY <1>5, <1>b DEF StepDispatches, MakeWorktree, StartReview, Dies, Goto
<1>6. CASE \/ AppendPlanReady \/ StageFails \/ RecordWorktree \/ ExecutorEnds
           \/ ReviewObjects \/ Push \/ AppendPass \/ RunnerStarts \/ RunnerCrashes
  <2>1. CASE AppendPlanReady \/ StageFails \/ ExecutorEnds \/ ReviewObjects \/ AppendPass
    <3>1. UNCHANGED truth /\ Poll
      BY <2>1 DEF AppendPlanReady, StageFails, ExecutorEnds, ReviewObjects, AppendPass
    <3> QED
      BY <1>b, <3>1 DEF Poll, Goto
  <2>2. CASE RecordWorktree \/ Push
    BY <1>b, <2>2 DEF RecordWorktree, Push, Goto
  <2>3. CASE RunnerStarts \/ RunnerCrashes
    BY <1>b, <2>3 DEF RunnerStarts, RunnerCrashes, Dies, Poll, Goto
  <2> QED
    BY <1>6, <2>1, <2>2, <2>3
<1>7. CASE \/ \E t \in Task : Enqueue(t) \/ Requeue(t) \/ \E e \in Order(t) : Command(e)
           \/ UNCHANGED vars
  BY <1>7, <1>b DEF Enqueue, Requeue, Command, vars
<1> QED
  BY <1>1, <1>2, <1>3, <1>4, <1>5, <1>6, <1>7 DEF Next, RunnerStep

\* The executor never gets a plan more than one revision after the approved one,
\* however late results and approvals are (dispatcher._require_latest_plan).
THEOREM PlanIsNextToApprovedHolds == Spec => []PlanIsNextToApproved
<1>1. Init => TypeInv /\ PlanInv
  BY InitType, InitPlan
<1>2. TypeInv /\ PlanInv /\ [Next]_vars => (TypeInv /\ PlanInv)'
  BY NextType, NextPlan
<1>3. TypeInv /\ PlanInv => PlanIsNextToApproved
  <2>1. TypeInv /\ runner.at = "executing" => runner.task \in Task
    BY DEF TypeInv, Shape
  <2> QED
    BY <2>1 DEF PlanInv, NewestIsNext, NewestRuns, PlanIsNextToApproved
<1> QED
  BY <1>1, <1>2, <1>3, PTL DEF Spec
-----------------------------------------------------------------------------
(* What a verdict is about *)

VerdictType ==
  { "internal.reviewer_pass", "internal.reviewer_fail", "internal.reviewer_human_review",
    "internal.reviewer_timeout" }

IsVerdict(e, t) == e.type \in VerdictType /\ e.task = t
IsPass(e, t) == e.type = "internal.reviewer_pass" /\ e.task = t
IsFinish(e, t) == e.type = "internal.executor_finished" /\ e.task = t

Executes(t) == runner.at \in {"record", "start", "executing"} /\ runner.task = t
Reviews(t) == runner.at \in {"reviewing", "passed"} /\ runner.task = t

\* While a task is in review, the verdicts on it that wait are of its present work:
\* no executor is at it, and none has ended since.
VerdictsAreCurrent(t) ==
  /\ \A i \in DOMAIN inbox : IsPass(inbox[i], t) => inbox[i].current
  /\ \A i \in DOMAIN inbox : IsVerdict(inbox[i], t) =>
       /\ ~Executes(t)
       /\ \A k \in DOMAIN inbox : i < k => ~IsFinish(inbox[k], t)

\* While it is elsewhere, no verdict waits behind an executor's end, and none is to
\* come: the end that brings the task back to review finds no verdict left.
FinishesComeLast(t) ==
  \A k \in DOMAIN inbox : IsFinish(inbox[k], t) =>
    /\ ~Reviews(t)
    /\ \A i \in DOMAIN inbox : k < i => ~IsVerdict(inbox[i], t)

ResultsInOrder ==
  \A t \in Task :
    /\ tasks[t].state = "reviewing" => VerdictsAreCurrent(t)
    /\ tasks[t].state \notin {"reviewing", "cancelled"} => FinishesComeLast(t)

\* No task is degraded out of review, and so none recovers into it.
NoReviewTarget == \A t \in Task : tasks[t].resume_target_state # "reviewing"

\* Work that is reviewed has a worktree on the disk.
HasRun ==
  \A t \in Task :
    \/ tasks[t].state = "reviewing"
    \/ \E i \in DOMAIN inbox : IsFinish(inbox[i], t)
    \/ Executes(t) \/ Reviews(t)
    => repo[t].worktree # "none"

\* The remote has the work, or the push was skipped and none will be made.
PushedOrLost(t) ==
  \/ repo[t].pushed
  \/ repo[t].worktree = "made" /\ ~(runner.at = "record" /\ runner.task = t)

PassesArePushed ==
  \A t \in Task :
    \/ runner.at = "passed" /\ runner.task = t
    \/ \E i \in DOMAIN inbox : IsPass(inbox[i], t) /\ inbox[i].current
    => PushedOrLost(t)

ReviewInv == ResultsInOrder /\ NoReviewTarget /\ HasRun /\ PassesArePushed

LEMMA InitReview == Init => ReviewInv
<1> SUFFICES ASSUME Init PROVE ReviewInv
  OBVIOUS
<1>1. DOMAIN inbox = {} /\ runner.at = "poll"
  BY DEF Init
<1>2. \A t \in Task : tasks[t].state = "planning" /\ tasks[t].resume_target_state = "none"
  BY DEF Init, AbsentRow, NoTarget
<1> QED
  BY <1>1, <1>2 DEF ReviewInv, ResultsInOrder, FinishesComeLast, NoReviewTarget, HasRun,
     PassesArePushed, Executes, Reviews

\* People and reconcile send no results of stages.
LEMMA OrderIsNoResult ==
  ASSUME NEW t \in Task, NEW e \in Order(t), NEW u
  PROVE  ~IsVerdict(e, u) /\ ~IsFinish(e, u) /\ ~IsPass(e, u)
<1>1. e.type \in { "/approve", "/retry", "/retry --replan", "/cancel",
                   "internal.system_recovered", "internal.reconcile_resume" }
  BY DEF Order
<1> QED
  BY <1>1 DEF IsVerdict, IsFinish, IsPass, VerdictType

\* Emit appends.
LEMMA Emitted ==
  ASSUME inbox \in Seq(Mail), NEW e \in Mail, inbox' = Append(inbox, e)
  PROVE  /\ Len(inbox) \in Nat /\ DOMAIN inbox = 1 .. Len(inbox)
         /\ DOMAIN inbox' = 1 .. Len(inbox) + 1
         /\ \A i \in DOMAIN inbox : inbox'[i] = inbox[i]
         /\ inbox'[Len(inbox) + 1] = e
OBVIOUS

\* RouteTask takes the head.
LEMMA Taken ==
  ASSUME inbox \in Seq(Mail), inbox # << >>, inbox' = Tail(inbox)
  PROVE  /\ 1 \in DOMAIN inbox /\ inbox[1] = Head(inbox)
         /\ \A i \in DOMAIN inbox' :
              i \in Nat /\ 1 < i + 1 /\ i + 1 \in DOMAIN inbox /\ inbox'[i] = inbox[i + 1]
OBVIOUS
\* Review is entered by an executor's end, or by the recovery of a task that was
\* degraded in review.
LEMMA EntersReview ==
  ASSUME NEW r, NEW p, NEW e, Leads(r, p, e, "reviewing"), r.state # "reviewing"
  PROVE  \/ r.state = "implementing" /\ e.type = "internal.executor_finished"
         \/ r.resume_target_state = "reviewing"
BY DEF Leads, PlanningLeads, ImplementingLeads, ReviewingLeads, CommandLeads,
   RecoveredState, SameState, TaskState

\* It is left by a verdict or /cancel, and a cancelled task stays so.
LEMMA LeavesReview ==
  ASSUME NEW r, NEW p, NEW e, NEW to, Leads(r, p, e, to)
  PROVE  /\ r.state = "reviewing" =>
              to \in {"reviewing", "cancelled"} \/ e.type \in VerdictType
         /\ r.state = "cancelled" => to = "cancelled"
BY DEF Leads, PlanningLeads, ImplementingLeads, ReviewingLeads, CommandLeads,
   RecoveredState, SameState, TaskState, VerdictType

\* Nothing degrades a task in review.
LEMMA NoneDegradesReview ==
  ASSUME NEW r, NEW p, NEW e, NEW to, Leads(r, p, e, to), e.type = "internal.infra_fatal"
  PROVE  r.state # "reviewing"
BY DEF Leads, PlanningLeads, ImplementingLeads, ReviewingLeads, CommandLeads,
   RecoveredState, SameState, TaskState

\* Taking the head keeps what the queue orders.
LEMMA TakenInOrder ==
  ASSUME inbox \in Seq(Mail), inbox # << >>, inbox' = Tail(inbox), UNCHANGED runner, NEW t
  PROVE  /\ VerdictsAreCurrent(t) => VerdictsAreCurrent(t)'
         /\ FinishesComeLast(t) => FinishesComeLast(t)'
<1>1. \A i \in DOMAIN inbox' :
        i \in Nat /\ i + 1 \in DOMAIN inbox /\ inbox'[i] = inbox[i + 1]
  BY Taken
<1>2. \A i, k \in DOMAIN inbox' : i < k => i + 1 < k + 1
  BY <1>1
<1>3. Executes(t)' = Executes(t) /\ Reviews(t)' = Reviews(t)
  BY DEF Executes, Reviews
<1> QED
  BY <1>1, <1>2, <1>3 DEF VerdictsAreCurrent, FinishesComeLast

\* The head that takes a task into review leaves no verdict behind, ...
LEMMA NoVerdictLeft ==
  ASSUME inbox \in Seq(Mail), inbox # << >>, inbox' = Tail(inbox), UNCHANGED runner,
         NEW t, FinishesComeLast(t), IsFinish(Head(inbox), t)
  PROVE  VerdictsAreCurrent(t)'
<1>1. 1 \in DOMAIN inbox /\ IsFinish(inbox[1], t)
  BY Taken
<1>2. \A i \in DOMAIN inbox' : ~IsVerdict(inbox'[i], t)
  BY <1>1, Taken DEF FinishesComeLast
<1>3. \A e : IsPass(e, t) => IsVerdict(e, t)
  BY DEF IsPass, IsVerdict, VerdictType
<1> QED
  BY <1>2, <1>3 DEF VerdictsAreCurrent

\* ... and the verdict that takes it out leaves no executor's end behind.
LEMMA NoFinishLeft ==
  ASSUME inbox \in Seq(Mail), inbox # << >>, inbox' = Tail(inbox),
         NEW t, VerdictsAreCurrent(t), IsVerdict(Head(inbox), t)
  PROVE  FinishesComeLast(t)'
<1>1. 1 \in DOMAIN inbox /\ IsVerdict(inbox[1], t)
  BY Taken
<1>2. \A k \in DOMAIN inbox' : ~IsFinish(inbox'[k], t)
  BY <1>1, Taken DEF VerdictsAreCurrent
<1> QED
  BY <1>2 DEF FinishesComeLast

\* What RouteTask does to the row of the head's task.
LEMMA Routed ==
  ASSUME TypeInv, RouteTask
  PROVE  /\ inbox \in Seq(Mail) /\ inbox # << >> /\ inbox' = Tail(inbox) /\ UNCHANGED runner
         /\ Head(inbox).task \in Task
         /\ \/ UNCHANGED <<tasks, repo>>
            \/ \E to \in TaskState :
                 LET e == Head(inbox)
                     t == e.task
                 IN  /\ Leads(tasks[t], plans[t], e, to)
                     /\ tasks'[t].state = to
                     /\ tasks'[t].resume_target_state = ResumeTargetAfter(tasks[t], e, to)
                     /\ \A u \in Task \ {t} : tasks'[u] = tasks[u] /\ repo'[u] = repo[u]
                     /\ repo'[t] \in {repo[t], Dispatched(repo[t])}
<1>1. /\ inbox \in Seq(Mail) /\ inbox # << >> /\ inbox' = Tail(inbox) /\ UNCHANGED runner
      /\ tasks \in [Task -> {r \in TaskRow : r.state \in TaskState}]
      /\ repo \in [Task -> Repo]
  BY DEF TypeInv, TypeOK, RouteTask
<1>2. Head(inbox).task \in Task
  <2>1. Head(inbox) \in Mail
    BY <1>1
  <2> QED
    BY <2>1, MailType
<1>3. PICK e : e = Head(inbox)
  OBVIOUS
<1>4. PICK t \in Task : t = e.task
  BY <1>2, <1>3
<1>5. ASSUME NEW to \in TaskState, Leads(tasks[t], plans[t], e, to),
             tasks' = [tasks EXCEPT ![t] = [Bumped(tasks[t], e, to) EXCEPT !.state_rev = 0]],
             repo' = IF e.type = "internal.dispatch_attempt"
                     THEN [repo EXCEPT ![t] = Dispatched(repo[t])] ELSE repo
      PROVE  /\ tasks'[t].state = to
             /\ tasks'[t].resume_target_state = ResumeTargetAfter(tasks[t], e, to)
             /\ \A u \in Task \ {t} : tasks'[u] = tasks[u] /\ repo'[u] = repo[u]
             /\ repo'[t] \in {repo[t], Dispatched(repo[t])}
  <2>1. tasks[t] \in TaskRow /\ tasks[t].state \in TaskState
    BY <1>1
  <2>2. /\ tasks'[t] = [Bumped(tasks[t], e, to) EXCEPT !.state_rev = 0]
        /\ \A u \in Task \ {t} : tasks'[u] = tasks[u]
    BY <1>1, <1>5
  <2>3. /\ tasks'[t].state = to
        /\ tasks'[t].resume_target_state = ResumeTargetAfter(tasks[t], e, to)
    <3> DEFINE new(r) == [Bumped(r, e, to) EXCEPT !.state_rev = 0]
    <3>1. \A r \in TaskRow : r.state \in TaskState =>
            new(r).state = to /\ new(r).resume_target_state = ResumeTargetAfter(r, e, to)
      BY RowType
    <3>2. tasks'[t] = new(tasks[t])
      BY <2>2
    <3> HIDE DEF new
    <3> QED
      BY <2>1, <3>1, <3>2
  <2>4. /\ repo'[t] \in {repo[t], Dispatched(repo[t])}
        /\ \A u \in Task \ {t} : repo'[u] = repo[u]
    BY <1>1, <1>5
  <2> QED
    BY <2>2, <2>3, <2>4
<1>6. \/ UNCHANGED <<tasks, repo>>
      \/ \E to \in TaskState :
           /\ Leads(tasks[t], plans[t], e, to)
           /\ tasks' = [tasks EXCEPT ![t] = [Bumped(tasks[t], e, to) EXCEPT !.state_rev = 0]]
           /\ repo' = IF e.type = "internal.dispatch_attempt"
                      THEN [repo EXCEPT ![t] = Dispatched(repo[t])] ELSE repo
  BY <1>3, <1>4 DEF RouteTask
<1> QED
  BY <1>1, <1>2, <1>3, <1>4, <1>5, <1>6, Zenon
\* Routing keeps the results in order.
LEMMA RouteOrder ==
  ASSUME TypeInv, ResultsInOrder, NoReviewTarget, RouteTask
  PROVE  ResultsInOrder' /\ NoReviewTarget'
<1>a. /\ inbox \in Seq(Mail) /\ inbox # << >> /\ inbox' = Tail(inbox) /\ UNCHANGED runner
      /\ Head(inbox).task \in Task
  BY Routed
<1>1. CASE UNCHANGED tasks
  BY <1>1, <1>a, TakenInOrder DEF ResultsInOrder, NoReviewTarget
<1>2. ASSUME NEW to \in TaskState, NEW e, NEW t \in Task, e = Head(inbox), t = e.task,
             Leads(tasks[t], plans[t], e, to), tasks'[t].state = to,
             tasks'[t].resume_target_state = ResumeTargetAfter(tasks[t], e, to),
             \A u \in Task \ {t} : tasks'[u] = tasks[u]
      PROVE  ResultsInOrder' /\ NoReviewTarget'
  <2>t. tasks[t].resume_target_state # "reviewing"
    BY DEF NoReviewTarget
  <2>1. tasks'[t].resume_target_state # "reviewing"
    <3>1. CASE e.type = "internal.infra_fatal"
      BY <1>2, <3>1, NoneDegradesReview DEF ResumeTargetAfter
    <3>2. CASE e.type # "internal.infra_fatal"
      BY <1>2, <2>t, <3>2 DEF ResumeTargetAfter, NoTarget
    <3> QED
      BY <3>1, <3>2
  <2>2. NoReviewTarget'
    BY <1>2, <2>1 DEF NoReviewTarget
  <2>3. ASSUME NEW u \in Task, tasks'[u].state = tasks[u].state
        PROVE  /\ tasks'[u].state = "reviewing" => VerdictsAreCurrent(u)'
               /\ tasks'[u].state \notin {"reviewing", "cancelled"} => FinishesComeLast(u)'
    BY <1>a, <2>3, TakenInOrder DEF ResultsInOrder
  <2>4. ASSUME to # tasks[t].state, to = "reviewing" PROVE VerdictsAreCurrent(t)'
    <3>1. tasks[t].state = "implementing" /\ IsFinish(e, t)
      BY <1>2, <2>4, <2>t, EntersReview DEF IsFinish
    <3>2. FinishesComeLast(t)
      BY <3>1 DEF ResultsInOrder
    <3> QED
      BY <1>a, <1>2, <3>1, <3>2, NoVerdictLeft
  <2>5. ASSUME to \notin {"reviewing", "cancelled"} PROVE FinishesComeLast(t)'
    <3>1. CASE tasks[t].state = "reviewing"
      <4>1. IsVerdict(e, t)
        BY <1>2, <2>5, <3>1, LeavesReview DEF IsVerdict
      <4>2. VerdictsAreCurrent(t)
        BY <3>1 DEF ResultsInOrder
      <4> QED
        BY <1>a, <1>2, <4>1, <4>2, NoFinishLeft
    <3>2. CASE tasks[t].state = "cancelled"
      BY <1>2, <2>5, <3>2, LeavesReview
    <3>3. CASE tasks[t].state \notin {"reviewing", "cancelled"}
      BY <1>a, <3>3, TakenInOrder DEF ResultsInOrder
    <3> QED
      BY <3>1, <3>2, <3>3
  <2>6. ResultsInOrder'
    BY <1>2, <2>3, <2>4, <2>5 DEF ResultsInOrder
  <2> QED
    BY <2>2, <2>6
<1> QED
  BY <1>1, <1>2, Routed

\* A step that leaves the tasks and the order of the queue alone.  Whoever begins to
\* execute or to review does so in the state for it.
LEMMA QuietOrder ==
  ASSUME ResultsInOrder, UNCHANGED tasks,
         DOMAIN inbox' = DOMAIN inbox,
         \A i \in DOMAIN inbox :
           inbox'[i].type = inbox[i].type /\ inbox'[i].task = inbox[i].task,
         \A u \in Task : tasks[u].state = "reviewing" =>
           \A i \in DOMAIN inbox : IsPass(inbox[i], u) => inbox'[i].current = inbox[i].current,
         \A u \in Task : Executes(u)' => Executes(u) \/ tasks[u].state # "reviewing",
         \A u \in Task : Reviews(u)' => Reviews(u) \/ tasks[u].state = "reviewing"
  PROVE  ResultsInOrder'
<1> SUFFICES ASSUME NEW u \in Task
             PROVE  /\ tasks[u].state = "reviewing" => VerdictsAreCurrent(u)'
                    /\ tasks[u].state \notin {"reviewing", "cancelled"} => FinishesComeLast(u)'
  BY DEF ResultsInOrder
<1>1. \A i \in DOMAIN inbox : /\ IsPass(inbox'[i], u) <=> IsPass(inbox[i], u)
                              /\ IsVerdict(inbox'[i], u) <=> IsVerdict(inbox[i], u)
                              /\ IsFinish(inbox'[i], u) <=> IsFinish(inbox[i], u)
  BY DEF IsPass, IsVerdict, IsFinish
<1>2. tasks[u].state = "reviewing" => VerdictsAreCurrent(u)'
  BY <1>1 DEF ResultsInOrder, VerdictsAreCurrent
<1>3. tasks[u].state \notin {"reviewing", "cancelled"} => FinishesComeLast(u)'
  BY <1>1 DEF ResultsInOrder, FinishesComeLast
<1> QED
  BY <1>2, <1>3

\* An event comes in: an executor's end from the one who executes, a verdict from
\* the one who reviews.
LEMMA EmitOrder ==
  ASSUME ResultsInOrder, inbox \in Seq(Mail), NEW e \in Mail, inbox' = Append(inbox, e),
         UNCHANGED tasks,
         \A u \in Task : Executes(u)' => Executes(u),
         \A u \in Task : Reviews(u)' => Reviews(u),
         \A u \in Task : IsFinish(e, u) => Executes(u) /\ ~Reviews(u)',
         \A u \in Task : IsVerdict(e, u) => Reviews(u) /\ ~Executes(u)',
         \A u \in Task : IsPass(e, u) => e.current
  PROVE  ResultsInOrder'
<1>1. /\ Len(inbox) \in Nat /\ DOMAIN inbox = 1 .. Len(inbox)
      /\ DOMAIN inbox' = 1 .. Len(inbox) + 1
      /\ \A i \in DOMAIN inbox : inbox'[i] = inbox[i]
      /\ inbox'[Len(inbox) + 1] = e
  BY Emitted
<1>2. /\ \A i \in DOMAIN inbox' : i \in DOMAIN inbox \/ i = Len(inbox) + 1
      /\ \A i \in DOMAIN inbox' : ~(Len(inbox) + 1 < i)
      /\ DOMAIN inbox \subseteq DOMAIN inbox'
  BY <1>1
<1> SUFFICES ASSUME NEW u \in Task
             PROVE  /\ tasks[u].state = "reviewing" => VerdictsAreCurrent(u)'
                    /\ tasks[u].state \notin {"reviewing", "cancelled"} => FinishesComeLast(u)'
  BY DEF ResultsInOrder
<1>3. ASSUME VerdictsAreCurrent(u) PROVE VerdictsAreCurrent(u)'
  <2>1. \A i \in DOMAIN inbox' : IsPass(inbox'[i], u) => inbox'[i].current
    BY <1>1, <1>2, <1>3 DEF VerdictsAreCurrent
  <2>2. ASSUME NEW i \in DOMAIN inbox', IsVerdict(inbox'[i], u)
        PROVE  ~Executes(u)' /\ \A k \in DOMAIN inbox' : i < k => ~IsFinish(inbox'[k], u)
    <3>1. CASE i \in DOMAIN inbox
      <4>1. ~Executes(u) /\ \A k \in DOMAIN inbox : i < k => ~IsFinish(inbox[k], u)
        BY <1>1, <1>3, <2>2, <3>1 DEF VerdictsAreCurrent
      <4> QED
        BY <1>1, <1>2, <4>1
    <3>2. CASE i = Len(inbox) + 1
      BY <1>1, <1>2, <2>2, <3>2
    <3> QED
      BY <1>2, <3>1, <3>2
  <2> QED
    BY <2>1, <2>2 DEF VerdictsAreCurrent
<1>4. ASSUME FinishesComeLast(u) PROVE FinishesComeLast(u)'
  <2>1. ASSUME NEW k \in DOMAIN inbox', IsFinish(inbox'[k], u)
        PROVE  ~Reviews(u)' /\ \A i \in DOMAIN inbox' : k < i => ~IsVerdict(inbox'[i], u)
    <3>1. CASE k \in DOMAIN inbox
      <4>1. ~Reviews(u) /\ \A i \in DOMAIN inbox : k < i => ~IsVerdict(inbox[i], u)
        BY <1>1, <1>4, <2>1, <3>1 DEF FinishesComeLast
      <4> QED
        BY <1>1, <1>2, <4>1
    <3>2. CASE k = Len(inbox) + 1
      BY <1>1, <1>2, <2>1, <3>2
    <3> QED
      BY <1>2, <3>1, <3>2
  <2> QED
    BY <2>1 DEF FinishesComeLast
<1> QED
  BY <1>3, <1>4 DEF ResultsInOrder
\* A step that leaves tasks, queue and repository alone and begins no work.
Quiet ==
  /\ UNCHANGED <<tasks, repo, inbox>>
  /\ runner' = runner \/ runner'.at \in {"poll", "down", "planning", "planned"}

\* An event comes in, of a person or of the runner, which goes on to poll.
Sends(e) ==
  /\ UNCHANGED <<tasks, repo>> /\ inbox' = Append(inbox, e)
  /\ \/ /\ runner' = runner
        /\ \A u \in Task : ~IsFinish(e, u) /\ ~IsVerdict(e, u) /\ ~IsPass(e, u)
     \/ /\ runner'.at = "poll"
        /\ \A u \in Task :
             /\ IsFinish(e, u) => runner.at = "executing" /\ runner.task = u
             /\ IsVerdict(e, u) => Reviews(u)
             /\ IsPass(e, u) => runner.at = "passed" /\ runner.task = u /\ e.current

\* The steps that begin work on t.
BeginsWorktree(t) == MakeWorktree(t) /\ repo[t].worktree = "none"
BeginsWork(t) == StartExecutor(t) /\ runner'.at = "executing"

\* Which steps matter to what a verdict is about.
LEMMA StepKinds ==
  ASSUME TypeInv, [Next]_vars
  PROVE  \/ RouteTask \/ Quiet \/ (\E e \in Mail : Sends(e))
         \/ (\E t \in Task : StartReview(t) \/ BeginsWorktree(t) \/ BeginsWork(t))
         \/ RecordWorktree \/ Push
<1>a. inbox \in Seq(Mail) /\ (runner.at \notin {"poll", "down"} => runner.task \in Task)
  BY DEF TypeInv, TypeOK, Shape
<1>1. ASSUME NEW t \in Task, NEW e \in Order(t), Command(e) PROVE \E m \in Mail : Sends(m)
  <2>1. e \in Mail /\ \A u \in Task : ~IsFinish(e, u) /\ ~IsVerdict(e, u) /\ ~IsPass(e, u)
    BY OrderType, OrderIsNoResult
  <2>2. UNCHANGED <<tasks, repo, runner>> /\ inbox' = Append(inbox, e)
    BY <1>1 DEF Command, truth
  <2> QED
    BY <2>1, <2>2 DEF Sends
<1>2. ASSUME NEW t \in Task, Enqueue(t) \/ Requeue(t) \/ StartPlanning(t) PROVE Quiet
  BY <1>2 DEF Enqueue, Requeue, StartPlanning, Goto, Quiet, truth
<1>3. ASSUME NEW t \in Task, StepDispatches(t) PROVE \E m \in Mail : Sends(m)
  <2>1. /\ UNCHANGED <<tasks, repo>> /\ inbox' = Append(inbox, Attempt(t))
        /\ runner'.at = "poll"
    BY <1>3 DEF StepDispatches, Emit, Goto, truth
  <2>2. Attempt(t).type = "internal.dispatch_attempt"
    BY DEF Attempt
  <2>3. Attempt(t) \in Mail
    BY SentType
  <2> QED
    BY <2>1, <2>2, <2>3 DEF Sends, IsFinish, IsVerdict, IsPass, VerdictType
<1>4. ASSUME NEW ok \in BOOLEAN, InsertPlan(ok) PROVE Quiet
  BY <1>4 DEF InsertPlan, Goto, Quiet
<1>5. CASE AppendPlanReady
  <2>1. PICK e : e = Plain("internal.plan_ready", runner.task)
    OBVIOUS
  <2>2. /\ UNCHANGED <<tasks, repo>> /\ inbox' = Append(inbox, e) /\ runner'.at = "poll"
    BY <1>5, <2>1 DEF AppendPlanReady, Emit, Poll, Goto, truth
  <2>3. e \in Mail /\ e.type = "internal.plan_ready"
    <3>1. runner.task \in Task
      BY <1>5, <1>a DEF AppendPlanReady
    <3> QED
      BY <2>1, <3>1, SentType DEF Plain
  <2> QED
    BY <2>2, <2>3 DEF Sends, IsFinish, IsVerdict, IsPass, VerdictType
<1>6. CASE StageFails
  <2>1. PICK what \in {DefaultEvent(runner.at), "internal.infra_fatal"} :
          inbox' = Append(inbox, Plain(what, runner.task))
    BY <1>6 DEF StageFails, Emit
  <2>2. PICK e : e = Plain(what, runner.task)
    OBVIOUS
  <2>3. /\ UNCHANGED <<tasks, repo>> /\ inbox' = Append(inbox, e) /\ runner'.at = "poll"
        /\ runner.at \in {"planning", "reviewing"} /\ runner.task \in Task
    BY <1>6, <1>a, <2>1, <2>2 DEF StageFails, Poll, Goto, truth
  <2>4. /\ what \in { "internal.validator_over", "internal.infra_fatal",
                      "internal.reviewer_human_review" }
        /\ what = "internal.reviewer_human_review" => runner.at = "reviewing"
    BY <2>1, <2>3 DEF DefaultEvent
  <2>5. e \in Mail /\ e.type = what /\ e.task = runner.task
    BY <2>2, <2>3, <2>4, SentType DEF Plain
  <2> QED
    BY <2>3, <2>4, <2>5 DEF Sends, IsFinish, IsVerdict, IsPass, VerdictType, Reviews
<1>7. ASSUME NEW t \in Task, MakeWorktree(t) PROVE Quiet \/ BeginsWorktree(t)
  BY <1>7 DEF MakeWorktree, BeginsWorktree, Quiet, Dies, Goto, truth
<1>8. ASSUME NEW t \in Task, StartExecutor(t) PROVE Quiet \/ BeginsWork(t)
  BY <1>8 DEF StartExecutor, BeginsWork, Quiet, Dies, Goto, truth
<1>9. CASE ExecutorEnds
  <2>1. runner.task \in Task /\ runner.at = "executing"
    BY <1>9, <1>a DEF ExecutorEnds
  <2>2. PICK e \in {Finished(runner.task, TRUE), Finished(runner.task, FALSE),
                    Plain("internal.infra_fatal", runner.task)} : inbox' = Append(inbox, e)
    BY <1>9 DEF ExecutorEnds, Emit
  <2>3. /\ e \in Mail /\ e.task = runner.task
        /\ e.type \in {"internal.executor_finished", "internal.infra_fatal"}
    <3>1. ASSUME NEW good \in BOOLEAN, e = Finished(runner.task, good)
          PROVE  e \in Mail /\ e.task = runner.task /\ e.type = "internal.executor_finished"
      <4>1. e.task = runner.task /\ e.type = "internal.executor_finished"
        BY <3>1 DEF Finished
      <4>2. e \in Mail
        BY <2>1, <3>1, SentType
      <4> QED
        BY <4>1, <4>2
    <3>2. ASSUME e = Plain("internal.infra_fatal", runner.task)
          PROVE  e \in Mail /\ e.task = runner.task /\ e.type = "internal.infra_fatal"
      <4>1. e.task = runner.task /\ e.type = "internal.infra_fatal"
        BY <3>2 DEF Plain
      <4>2. e \in Mail
        BY <2>1, <3>2, SentType
      <4> QED
        BY <4>1, <4>2
    <3> QED
      BY <2>2, <3>1, <3>2
  <2>4. UNCHANGED <<tasks, repo>> /\ runner'.at = "poll"
    BY <1>9 DEF ExecutorEnds, Poll, Goto, truth
  <2> QED
    BY <2>1, <2>2, <2>3, <2>4 DEF Sends, IsFinish, IsVerdict, IsPass, VerdictType
<1>10. CASE ReviewObjects
  <2>1. runner.task \in Task /\ runner.at = "reviewing"
    BY <1>10, <1>a DEF ReviewObjects
  <2>2. PICK what \in {"internal.reviewer_fail", "internal.reviewer_human_review"} :
          inbox' = Append(inbox, Plain(what, runner.task))
    BY <1>10 DEF ReviewObjects, Emit
  <2>3. PICK e : e = Plain(what, runner.task)
    OBVIOUS
  <2>4. e \in Mail /\ e.task = runner.task /\ e.type = what
    BY <2>1, <2>2, <2>3, SentType DEF Plain
  <2>5. UNCHANGED <<tasks, repo>> /\ runner'.at = "poll"
    BY <1>10 DEF ReviewObjects, Poll, Goto, truth
  <2> QED
    BY <2>1, <2>2, <2>3, <2>4, <2>5 DEF Sends, IsFinish, IsVerdict, IsPass, VerdictType, Reviews
<1>11. CASE AppendPass
  <2>1. runner.task \in Task /\ runner.at = "passed"
    BY <1>11, <1>a DEF AppendPass
  <2>2. PICK r \in Review : inbox' = Append(inbox, Passed(runner.task, r))
    BY <1>11 DEF AppendPass, Emit
  <2>3. PICK e : e = Passed(runner.task, r)
    OBVIOUS
  <2>4. e \in Mail /\ e.task = runner.task /\ e.type = "internal.reviewer_pass" /\ e.current
    BY <2>1, <2>3, SentType DEF Passed
  <2>5. UNCHANGED <<tasks, repo>> /\ runner'.at = "poll"
    BY <1>11 DEF AppendPass, Poll, Goto, truth
  <2> QED
    BY <2>1, <2>2, <2>3, <2>4, <2>5 DEF Sends, IsFinish, IsVerdict, IsPass, VerdictType, Reviews
<1>12. CASE RunnerCrashes \/ RunnerStarts
  BY <1>12 DEF RunnerCrashes, RunnerStarts, Dies, Poll, Goto, Quiet, truth
<1>13. CASE UNCHANGED vars
  BY <1>13 DEF vars, truth, Quiet
<1> QED
  BY <1>1, <1>2, <1>3, <1>4, <1>5, <1>6, <1>7, <1>8, <1>9, <1>10, <1>11, <1>12, <1>13
  DEF Next, RunnerStep
\* An executor outdates the passes of its task, and nothing else.
LEMMA KeptByOutdating ==
  ASSUME NEW q, NEW t
  PROVE  /\ DOMAIN Outdated(q, t) = DOMAIN q
         /\ \A i \in DOMAIN q :
              /\ Outdated(q, t)[i].type = q[i].type /\ Outdated(q, t)[i].task = q[i].task
              /\ ~IsPass(q[i], t) => Outdated(q, t)[i] = q[i]
<1>1. DOMAIN Outdated(q, t) = DOMAIN q
  BY DEF Outdated
<1>2. ASSUME NEW i \in DOMAIN q
      PROVE  /\ Outdated(q, t)[i].type = q[i].type /\ Outdated(q, t)[i].task = q[i].task
             /\ ~IsPass(q[i], t) => Outdated(q, t)[i] = q[i]
  <2>1. Outdated(q, t)[i] = IF IsPass(q[i], t)
                            THEN [q[i] EXCEPT !.current = FALSE] ELSE q[i]
    BY DEF Outdated, IsPass
  <2> QED
    BY <2>1
<1> QED
  BY <1>1, <1>2

LEMMA NextOrder ==
  ASSUME TypeInv, ResultsInOrder, NoReviewTarget, [Next]_vars
  PROVE  ResultsInOrder' /\ NoReviewTarget'
<1>a. /\ inbox \in Seq(Mail)
      /\ \A i \in DOMAIN inbox : inbox[i] \in Mail
  BY DEF TypeInv, TypeOK
<1>b. UNCHANGED tasks => NoReviewTarget'
  BY DEF NoReviewTarget
\* Where the queue stays as it is.
<1>c. ASSUME UNCHANGED <<tasks, inbox>>,
             \A u \in Task : Executes(u)' => Executes(u) \/ tasks[u].state # "reviewing",
             \A u \in Task : Reviews(u)' => Reviews(u) \/ tasks[u].state = "reviewing"
      PROVE  ResultsInOrder' /\ NoReviewTarget'
  BY <1>b, <1>c, QuietOrder
<1>1. CASE RouteTask
  BY <1>1, RouteOrder
<1>2. CASE Quiet
  BY <1>2, <1>c DEF Quiet, Executes, Reviews
<1>3. ASSUME NEW e \in Mail, Sends(e) PROVE ResultsInOrder' /\ NoReviewTarget'
  <2>1. /\ \A u \in Task : Executes(u)' => Executes(u)
        /\ \A u \in Task : Reviews(u)' => Reviews(u)
        /\ \A u \in Task : IsFinish(e, u) => Executes(u) /\ ~Reviews(u)'
        /\ \A u \in Task : IsVerdict(e, u) => Reviews(u) /\ ~Executes(u)'
        /\ \A u \in Task : IsPass(e, u) => e.current
    BY <1>3 DEF Sends, Executes, Reviews
  <2>2. UNCHANGED tasks /\ inbox' = Append(inbox, e)
    BY <1>3 DEF Sends
  <2> QED
    BY <1>a, <1>b, <2>1, <2>2, EmitOrder
<1>4. ASSUME NEW t \in Task, StartReview(t) PROVE ResultsInOrder' /\ NoReviewTarget'
  <2>1. UNCHANGED <<tasks, inbox>> /\ tasks[t].state = "reviewing"
        /\ runner'.at = "reviewing" /\ runner'.task = t
    BY <1>4 DEF StartReview, Goto, truth
  <2> QED
    BY <1>c, <2>1 DEF Executes, Reviews
<1>5. ASSUME NEW t \in Task, BeginsWorktree(t) PROVE ResultsInOrder' /\ NoReviewTarget'
  <2>1. UNCHANGED <<tasks, inbox>> /\ tasks[t].state = "implementing"
        /\ runner'.at = "record" /\ runner'.task = t
    BY <1>5 DEF BeginsWorktree, MakeWorktree, Goto, truth
  <2> QED
    BY <1>c, <2>1 DEF Executes, Reviews
<1>6. ASSUME NEW t \in Task, BeginsWork(t) PROVE ResultsInOrder' /\ NoReviewTarget'
  <2>1. /\ UNCHANGED tasks
        /\ Executes(t) \/ tasks[t].state = "implementing"
        /\ runner'.at = "executing" /\ runner'.task = t
        /\ inbox' = Outdated(inbox, t)
    BY <1>6 DEF BeginsWork, StartExecutor, Executes, Dies, Goto, truth
  <2>2. /\ DOMAIN inbox' = DOMAIN inbox
        /\ \A i \in DOMAIN inbox :
             inbox'[i].type = inbox[i].type /\ inbox'[i].task = inbox[i].task
        /\ \A i \in DOMAIN inbox : ~IsPass(inbox[i], t) => inbox'[i] = inbox[i]
    BY <2>1, KeptByOutdating
  <2>3. ASSUME NEW u \in Task, tasks[u].state = "reviewing",
               NEW i \in DOMAIN inbox, IsPass(inbox[i], u)
        PROVE  inbox'[i].current = inbox[i].current
    <3>1. VerdictsAreCurrent(u) /\ IsVerdict(inbox[i], u)
      BY <2>3 DEF ResultsInOrder, IsPass, IsVerdict, VerdictType
    <3>2. u # t
      BY <2>1, <2>3, <3>1 DEF VerdictsAreCurrent
    <3> QED
      BY <2>2, <2>3, <3>2 DEF IsPass
  <2>4. /\ \A u \in Task : Executes(u)' => Executes(u) \/ tasks[u].state # "reviewing"
        /\ \A u \in Task : Reviews(u)' => Reviews(u) \/ tasks[u].state = "reviewing"
    BY <2>1 DEF Executes, Reviews
  <2> QED
    BY <1>b, <2>1, <2>2, <2>3, <2>4, QuietOrder
<1>7. CASE RecordWorktree
  <2>1. UNCHANGED <<tasks, inbox>> /\ runner.at = "record"
        /\ runner'.at = "start" /\ runner'.task = runner.task
    BY <1>7 DEF RecordWorktree, Goto, truth
  <2> QED
    BY <1>c, <2>1 DEF Executes, Reviews
<1>8. CASE Push
  <2>1. UNCHANGED <<tasks, inbox>> /\ runner.at = "reviewing"
        /\ runner'.at = "passed" /\ runner'.task = runner.task
    BY <1>8 DEF Push, Goto, truth
  <2> QED
    BY <1>c, <2>1 DEF Executes, Reviews
<1> QED
  BY <1>1, <1>2, <1>3, <1>4, <1>5, <1>6, <1>7, <1>8, StepKinds
\* What has been made stays made.
LEMMA KeptByRoute ==
  ASSUME NEW r
  PROVE  /\ Dispatched(r).pushed = r.pushed
         /\ r.worktree # "none" => Dispatched(r).worktree # "none"
         /\ r.worktree = "made" => Dispatched(r).worktree = "made"
BY DEF Dispatched

\* The work of t begins: its worktree is there, and verdicts on it are outdated.
LEMMA WorkBegins ==
  ASSUME TypeInv, NEW t \in Task, BeginsWork(t)
  PROVE  /\ UNCHANGED tasks /\ repo[t].worktree # "none"
         /\ repo' = [repo EXCEPT ![t].pushed = FALSE] /\ inbox' = Outdated(inbox, t)
         /\ runner'.at = "executing" /\ runner'.task = t
BY DEF BeginsWork, StartExecutor, Dies, Goto, truth

LEMMA NextHasRun == TypeInv /\ HasRun /\ NoReviewTarget /\ [Next]_vars => HasRun'
<1> SUFFICES ASSUME TypeInv, HasRun, NoReviewTarget, [Next]_vars PROVE HasRun'
  OBVIOUS
<1>a. /\ inbox \in Seq(Mail) /\ repo \in [Task -> Repo]
      /\ runner.at \notin {"poll", "down"} => runner.task \in Task
  BY DEF TypeInv, TypeOK, Shape
<1> DEFINE Ran(u) == \/ tasks[u].state = "reviewing"
                     \/ \E i \in DOMAIN inbox : IsFinish(inbox[i], u)
                     \/ Executes(u) \/ Reviews(u)
<1>b. ASSUME NEW u \in Task, Ran(u) PROVE repo[u].worktree # "none"
  BY <1>b DEF HasRun
<1>c. ASSUME \A u \in Task : repo'[u].worktree = "none" => repo[u].worktree = "none",
             \A u \in Task : Ran(u)' => Ran(u) \/ repo'[u].worktree # "none"
      PROVE  HasRun'
  BY <1>b, <1>c DEF HasRun
<1>1. CASE RouteTask
  <2>1. /\ inbox # << >> /\ inbox' = Tail(inbox) /\ UNCHANGED runner
        /\ Head(inbox).task \in Task
    BY <1>1, Routed
  <2>2. \A i \in DOMAIN inbox' : i + 1 \in DOMAIN inbox /\ inbox'[i] = inbox[i + 1]
    BY <1>a, <2>1, Taken
  <2>3. \A u \in Task : repo'[u].worktree = "none" => repo[u].worktree = "none"
    BY <1>1, Routed, KeptByRoute
  <2>4. ASSUME NEW u \in Task, tasks'[u].state = "reviewing", tasks[u].state # "reviewing"
        PROVE  IsFinish(Head(inbox), u)
    <3>1. PICK e : e = Head(inbox)
      OBVIOUS
    <3>2. /\ u = e.task
          /\ Leads(tasks[u], plans[u], e, "reviewing")
      BY <1>1, <2>4, <3>1, Routed
    <3> QED
      BY <2>4, <3>1, <3>2, EntersReview DEF NoReviewTarget, IsFinish
  <2>5. 1 \in DOMAIN inbox /\ inbox[1] = Head(inbox)
    BY <1>a, <2>1, Taken
  <2>6. ASSUME NEW u \in Task, Ran(u)' PROVE Ran(u)
    <3>1. CASE tasks'[u].state = "reviewing"
      BY <2>4, <2>5, <3>1
    <3>2. CASE \E i \in DOMAIN inbox' : IsFinish(inbox'[i], u)
      BY <2>2, <3>2
    <3>3. CASE Executes(u)' \/ Reviews(u)'
      BY <2>1, <3>3 DEF Executes, Reviews
    <3> QED
      BY <2>6, <3>1, <3>2, <3>3
  <2> QED
    BY <1>c, <2>3, <2>6
<1>2. CASE Quiet
  BY <1>2, <1>c DEF Quiet, Executes, Reviews
<1>3. ASSUME NEW e \in Mail, Sends(e) PROVE HasRun'
  <2>1. /\ DOMAIN inbox' = 1 .. Len(inbox) + 1 /\ DOMAIN inbox = 1 .. Len(inbox)
        /\ \A i \in DOMAIN inbox : inbox'[i] = inbox[i]
        /\ inbox'[Len(inbox) + 1] = e /\ Len(inbox) \in Nat
    BY <1>3, <1>a, Emitted DEF Sends
  <2>2. ASSUME NEW u \in Task, NEW i \in DOMAIN inbox', IsFinish(inbox'[i], u)
        PROVE  Ran(u)
    <3>1. CASE i \in DOMAIN inbox
      BY <2>1, <2>2, <3>1
    <3>2. CASE i = Len(inbox) + 1
      BY <1>3, <2>1, <2>2, <3>2 DEF Sends, Executes
    <3> QED
      BY <2>1, <3>1, <3>2
  <2>3. \A u \in Task : (Executes(u)' => Executes(u)) /\ (Reviews(u)' => Reviews(u))
    BY <1>3 DEF Sends, Executes, Reviews
  <2> QED
    BY <1>3, <1>c, <2>2, <2>3 DEF Sends
<1>4. ASSUME NEW t \in Task, StartReview(t) PROVE HasRun'
  <2>1. /\ UNCHANGED <<tasks, inbox, repo>> /\ tasks[t].state = "reviewing"
        /\ runner'.at = "reviewing" /\ runner'.task = t
    BY <1>4 DEF StartReview, Goto, truth
  <2> QED
    BY <1>c, <2>1 DEF Executes, Reviews
<1>5. ASSUME NEW t \in Task, BeginsWorktree(t) PROVE HasRun'
  <2>1. /\ UNCHANGED <<tasks, inbox>> /\ repo' = [repo EXCEPT ![t].worktree = "made"]
        /\ runner'.at = "record" /\ runner'.task = t
    BY <1>5 DEF BeginsWorktree, MakeWorktree, Goto, truth
  <2>2. repo'[t].worktree = "made" /\ \A u \in Task \ {t} : repo'[u] = repo[u]
    BY <1>a, <2>1 DEF Repo
  <2> QED
    BY <1>c, <2>1, <2>2 DEF Executes, Reviews
<1>6. ASSUME NEW t \in Task, BeginsWork(t) PROVE HasRun'
  <2>1. /\ UNCHANGED tasks /\ repo[t].worktree # "none"
        /\ repo' = [repo EXCEPT ![t].pushed = FALSE] /\ inbox' = Outdated(inbox, t)
        /\ runner'.at = "executing" /\ runner'.task = t
    BY <1>6, WorkBegins
  <2>2. \A u \in Task : repo'[u].worktree = repo[u].worktree
    BY <1>a, <2>1 DEF Repo
  <2>3. /\ DOMAIN inbox' = DOMAIN inbox
        /\ \A i \in DOMAIN inbox : \A u : IsFinish(inbox'[i], u) => IsFinish(inbox[i], u)
    BY <2>1, KeptByOutdating DEF IsFinish
  <2> QED
    BY <1>c, <2>1, <2>2, <2>3 DEF Executes, Reviews
<1>7. CASE RecordWorktree
  <2>1. /\ UNCHANGED <<tasks, inbox>> /\ runner.at = "record" /\ runner.task \in Task
        /\ repo' = [repo EXCEPT ![runner.task].worktree = "recorded"]
        /\ runner'.at = "start" /\ runner'.task = runner.task
    BY <1>7, <1>a DEF RecordWorktree, Goto, truth
  <2>2. /\ repo'[runner.task].worktree = "recorded"
        /\ \A u \in Task \ {runner.task} : repo'[u] = repo[u]
    BY <1>a, <2>1 DEF Repo
  <2> QED
    BY <1>c, <2>1, <2>2 DEF Executes, Reviews
<1>8. CASE Push
  <2>1. /\ UNCHANGED <<tasks, inbox>> /\ runner.at = "reviewing" /\ runner.task \in Task
        /\ repo' \in {repo, [repo EXCEPT ![runner.task].pushed = TRUE]}
        /\ runner'.at = "passed" /\ runner'.task = runner.task
    BY <1>8, <1>a DEF Push, Goto, truth
  <2>2. \A u \in Task : repo'[u].worktree = repo[u].worktree
    BY <1>a, <2>1 DEF Repo
  <2> QED
    BY <1>c, <2>1, <2>2 DEF Executes, Reviews
<1> QED
  BY <1>1, <1>2, <1>3, <1>4, <1>5, <1>6, <1>7, <1>8, StepKinds
LEMMA NextPushed == TypeInv /\ HasRun /\ PassesArePushed /\ [Next]_vars => PassesArePushed'
<1> SUFFICES ASSUME TypeInv, HasRun, PassesArePushed, [Next]_vars PROVE PassesArePushed'
  OBVIOUS
<1>a. /\ inbox \in Seq(Mail) /\ repo \in [Task -> Repo]
      /\ runner.at \notin {"poll", "down"} => runner.task \in Task
  BY DEF TypeInv, TypeOK, Shape
<1> DEFINE Pending(u) == \/ runner.at = "passed" /\ runner.task = u
                         \/ \E i \in DOMAIN inbox : IsPass(inbox[i], u) /\ inbox[i].current
<1>b. \A u \in Task : Pending(u) => PushedOrLost(u)
  BY DEF PassesArePushed
<1>c. ASSUME \A u \in Task : Pending(u)' => PushedOrLost(u)' PROVE PassesArePushed'
  BY <1>c DEF PassesArePushed
\* A step that no push, worktree or executor is involved in.
<1>d. ASSUME UNCHANGED repo, runner' = runner \/ runner'.at # "record", NEW u \in Task,
             PushedOrLost(u)
      PROVE  PushedOrLost(u)'
  BY <1>d DEF PushedOrLost
<1>1. CASE RouteTask
  <2>1. /\ inbox # << >> /\ inbox' = Tail(inbox) /\ UNCHANGED runner
        /\ Head(inbox).task \in Task
    BY <1>1, Routed
  <2>2. \A i \in DOMAIN inbox' : i + 1 \in DOMAIN inbox /\ inbox'[i] = inbox[i + 1]
    BY <1>a, <2>1, Taken
  <2>3. ASSUME NEW u \in Task, Pending(u)' PROVE Pending(u)
    BY <2>1, <2>2, <2>3
  <2>4. ASSUME NEW u \in Task PROVE repo'[u] \in {repo[u], Dispatched(repo[u])}
    BY <1>1, Routed
  <2>5. ASSUME NEW u \in Task, PushedOrLost(u) PROVE PushedOrLost(u)'
    <3>1. /\ repo'[u].pushed = repo[u].pushed
          /\ repo[u].worktree = "made" => repo'[u].worktree = "made"
      BY <2>4, KeptByRoute
    <3> QED
      BY <2>1, <2>5, <3>1 DEF PushedOrLost
  <2> QED
    BY <1>b, <1>c, <2>3, <2>5
<1>2. CASE Quiet
  <2>1. \A u \in Task : Pending(u)' => Pending(u)
    BY <1>2 DEF Quiet
  <2> QED
    BY <1>2, <1>b, <1>c, <1>d, <2>1 DEF Quiet
<1>3. ASSUME NEW e \in Mail, Sends(e) PROVE PassesArePushed'
  <2>1. /\ DOMAIN inbox' = 1 .. Len(inbox) + 1 /\ DOMAIN inbox = 1 .. Len(inbox)
        /\ \A i \in DOMAIN inbox : inbox'[i] = inbox[i]
        /\ inbox'[Len(inbox) + 1] = e /\ Len(inbox) \in Nat
    BY <1>3, <1>a, Emitted DEF Sends
  <2>2. ASSUME NEW u \in Task, NEW i \in DOMAIN inbox', IsPass(inbox'[i], u), inbox'[i].current
        PROVE  Pending(u)
    <3>1. CASE i \in DOMAIN inbox
      BY <2>1, <2>2, <3>1
    <3>2. CASE i = Len(inbox) + 1
      BY <1>3, <2>1, <2>2, <3>2 DEF Sends
    <3> QED
      BY <2>1, <3>1, <3>2
  <2>3. \A u \in Task : Pending(u)' => Pending(u)
    BY <1>3, <2>2 DEF Sends
  <2>4. UNCHANGED repo /\ (runner' = runner \/ runner'.at # "record")
    BY <1>3 DEF Sends
  <2> HIDE DEF Pending
  <2> QED
    BY <1>b, <1>c, <1>d, <2>3, <2>4
<1>4. ASSUME NEW t \in Task, StartReview(t) PROVE PassesArePushed'
  <2>1. UNCHANGED <<repo, inbox>> /\ runner'.at = "reviewing"
    BY <1>4 DEF StartReview, Goto, truth
  <2>2. \A u \in Task : Pending(u)' => Pending(u)
    BY <2>1
  <2> QED
    BY <1>b, <1>c, <1>d, <2>1, <2>2
<1>5. ASSUME NEW t \in Task, BeginsWorktree(t) PROVE PassesArePushed'
  <2>1. /\ UNCHANGED inbox /\ repo' = [repo EXCEPT ![t].worktree = "made"]
        /\ repo[t].worktree = "none" /\ runner'.at = "record" /\ runner'.task = t
    BY <1>5 DEF BeginsWorktree, MakeWorktree, Goto, truth
  <2>2. repo'[t].pushed = repo[t].pushed /\ \A u \in Task \ {t} : repo'[u] = repo[u]
    BY <1>a, <2>1 DEF Repo
  <2>3. ASSUME NEW u \in Task, Pending(u)' PROVE PushedOrLost(u)'
    <3>1. PushedOrLost(u)
      BY <1>b, <2>1, <2>3
    <3>2. CASE u = t
      BY <2>1, <2>2, <3>1, <3>2 DEF PushedOrLost
    <3>3. CASE u # t
      BY <2>1, <2>2, <3>1, <3>3 DEF PushedOrLost
    <3> QED
      BY <3>2, <3>3
  <2> QED
    BY <1>c, <2>3
<1>6. ASSUME NEW t \in Task, BeginsWork(t) PROVE PassesArePushed'
  <2>1. /\ repo' = [repo EXCEPT ![t].pushed = FALSE] /\ inbox' = Outdated(inbox, t)
        /\ runner'.at = "executing"
    BY <1>6, WorkBegins
  <2>2. \A u \in Task \ {t} : repo'[u] = repo[u]
    BY <1>a, <2>1
  <2>3. ASSUME NEW u \in Task, NEW i \in DOMAIN inbox', IsPass(inbox'[i], u), inbox'[i].current
        PROVE  u # t /\ Pending(u)
    <3>1. i \in DOMAIN inbox /\ IsPass(inbox[i], u)
      BY <2>1, <2>3, KeptByOutdating DEF IsPass
    <3>2. u # t
      <4>1. ASSUME u = t PROVE ~inbox'[i].current
        <5>1. inbox[i] \in PassEvent
          <6>1. inbox[i] \in Mail /\ inbox[i].type = "internal.reviewer_pass"
            BY <1>a, <3>1 DEF IsPass
          <6> QED
            BY <6>1, PassIsPassEvent
        <5>2. inbox'[i] = [inbox[i] EXCEPT !.current = FALSE]
          BY <2>1, <3>1, <4>1 DEF Outdated, IsPass
        <5> QED
          BY <5>1, <5>2 DEF PassEvent
      <4> QED
        BY <2>3, <4>1
    <3>3. inbox'[i] = inbox[i]
      BY <2>1, <3>1, <3>2, KeptByOutdating DEF IsPass
    <3> QED
      BY <2>3, <3>1, <3>2, <3>3
  <2>4. ASSUME NEW u \in Task, Pending(u)' PROVE PushedOrLost(u)'
    <3>1. u # t /\ Pending(u)
      BY <2>1, <2>3, <2>4
    <3>2. PushedOrLost(u) /\ repo'[u] = repo[u]
      BY <1>b, <2>2, <3>1
    <3> QED
      BY <2>1, <3>2 DEF PushedOrLost
  <2> QED
    BY <1>c, <2>4
<1>7. CASE RecordWorktree
  <2>1. /\ UNCHANGED inbox /\ runner.at = "record" /\ runner.task \in Task
        /\ repo' = [repo EXCEPT ![runner.task].worktree = "recorded"]
        /\ runner'.at = "start"
    BY <1>7, <1>a DEF RecordWorktree, Goto, truth
  <2>2. /\ repo'[runner.task].pushed = repo[runner.task].pushed
        /\ \A u \in Task \ {runner.task} : repo'[u] = repo[u]
    BY <1>a, <2>1 DEF Repo
  <2>3. ASSUME NEW u \in Task, Pending(u)' PROVE PushedOrLost(u)'
    <3>1. PushedOrLost(u)
      BY <1>b, <2>1, <2>3
    <3> QED
      BY <2>1, <2>2, <3>1 DEF PushedOrLost
  <2> QED
    BY <1>c, <2>3
<1>8. CASE Push
  <2>1. /\ UNCHANGED inbox /\ runner.at = "reviewing" /\ runner.task \in Task
        /\ repo' = IF repo[runner.task].worktree = "recorded"
                   THEN [repo EXCEPT ![runner.task].pushed = TRUE] ELSE repo
        /\ runner'.at = "passed" /\ runner'.task = runner.task
    BY <1>8, <1>a DEF Push, Goto, truth
  <2>2. PushedOrLost(runner.task)'
    <3>1. /\ repo[runner.task].worktree \in {"made", "recorded"}
          /\ repo[runner.task] \in Repo
      BY <1>a, <2>1 DEF HasRun, Reviews, Repo
    <3>2. CASE repo[runner.task].worktree = "recorded"
      <4>1. repo'[runner.task].pushed
        BY <1>a, <2>1, <3>1, <3>2 DEF Repo
      <4> QED
        BY <2>1, <4>1 DEF PushedOrLost
    <3>3. CASE repo[runner.task].worktree = "made"
      BY <2>1, <3>3 DEF PushedOrLost
    <3> QED
      BY <3>1, <3>2, <3>3
  <2>3. ASSUME NEW u \in Task \ {runner.task}, Pending(u)' PROVE PushedOrLost(u)'
    <3>1. PushedOrLost(u) /\ repo'[u] = repo[u]
      BY <1>a, <1>b, <2>1, <2>3
    <3> QED
      BY <2>1, <3>1 DEF PushedOrLost
  <2> QED
    BY <1>c, <2>1, <2>2, <2>3
<1> QED
  BY <1>1, <1>2, <1>3, <1>4, <1>5, <1>6, <1>7, <1>8, StepKinds

\* A verdict that takes a task out of review is about its present work, and the
\* remote has that work unless the row had lost the worktree: for every number of
\* repeated reviews, late results, crashes, retries and dispatches.
THEOREM PassIsOfThisWorkHolds == Spec => PassIsOfThisWork
<1> DEFINE IInv == TypeInv /\ ReviewInv
<1>1. Init => IInv
  BY InitType, InitReview
<1>2. IInv /\ [Next]_vars => IInv'
  BY NextType, NextOrder, NextHasRun, NextPushed DEF ReviewInv
<1>3. IInv /\ [Next]_vars =>
        [\A t \in Task :
           /\ tasks[t].state = "reviewing" /\ tasks'[t].state # "reviewing"
           /\ Head(inbox).type = "internal.reviewer_pass"
           => /\ Head(inbox).current
              /\ repo[t].pushed \/ repo[t].worktree = "made"]_vars
  <2> SUFFICES ASSUME IInv, [Next]_vars, NEW t \in Task,
                      tasks[t].state = "reviewing", tasks'[t].state # "reviewing",
                      Head(inbox).type = "internal.reviewer_pass"
               PROVE  /\ Head(inbox).current
                      /\ repo[t].pushed \/ repo[t].worktree = "made"
    OBVIOUS
  <2>1. RouteTask
    BY StepKinds DEF Quiet, Sends, StartReview, BeginsWorktree, MakeWorktree, BeginsWork,
       StartExecutor, RecordWorktree, Push, truth
  <2>2. /\ inbox \in Seq(Mail) /\ inbox # << >>
        /\ Head(inbox).task = t
    BY <2>1, Routed
  <2>3. 1 \in DOMAIN inbox /\ IsPass(inbox[1], t) /\ inbox[1] = Head(inbox)
    <3>1. 1 \in DOMAIN inbox /\ inbox[1] = Head(inbox)
      BY <2>2
    <3> QED
      BY <2>2, <3>1 DEF IsPass
  <2>4. inbox[1].current
    BY <2>3 DEF ReviewInv, ResultsInOrder, VerdictsAreCurrent
  <2>5. PushedOrLost(t)
    BY <2>3, <2>4 DEF ReviewInv, PassesArePushed
  <2> QED
    BY <2>3, <2>4, <2>5 DEF PushedOrLost
<1> HIDE DEF IInv
<1> QED
  BY <1>1, <1>2, <1>3, PTL DEF Spec, PassIsOfThisWork
=============================================================================
