---------------------------- MODULE RouterProps ----------------------------
(***************************************************************************)
(* What the Router promises, whatever events arrive and in whatever order. *)
(***************************************************************************)
EXTENDS Router

\* Every variable keeps the type of its table.
TypeOK ==
  /\ tasks \in [Task -> TaskRow]
  /\ plans \in [Task -> PlanRow]
  /\ inbox \in Seq(Event)
  /\ outbox \subseteq [task: Task, stream: Stream, state_rev: Nat,
                       shows: (TaskState \cup {""}) \X Nat
                              \X SUBSET {"critical", "human_review_required", "cancelled"}]
  /\ sighted \in [Task -> BOOLEAN]

\* No task finishes unseen: a task that is critical when it becomes done was
\* accepted by a person (/approve or /retry) after /critical on and after its
\* last planning, and no done task still has its manual gate raised.  Auto
\* approval, recovery, resume and review must all respect this together
\* (guards.auto_approve_ok, reviewer_pass_*, transitions.apply_critical_on_*).
NoUnseenCompletion ==
  \A t \in Task : tasks[t].state = "done" =>
    /\ ~tasks[t].manual_gate_required
    /\ tasks[t].critical => sighted[t]

\* A degraded task always knows where to resume, and only a degraded or a
\* cancelled task carries a resume target: otherwise internal.system_recovered
\* finds no transition and the task is stuck (guards.resume_target_present).
DegradedIsRecoverable ==
  \A t \in Task :
    /\ tasks[t].state = "system_degraded" =>
         tasks[t].resume_target_state \in {"planning", "implementing"}
    /\ tasks[t].resume_target_state # NoTarget =>
         tasks[t].state \in {"system_degraded", "cancelled"}

\* The manual gate is lowered only by the /approve that completes the task:
\* replanning, retries, degradation, resume and /critical off all keep it.
GateLoweredOnlyOnCompletion ==
  [][\A t \in Task :
       tasks[t].manual_gate_required /\ ~tasks'[t].manual_gate_required =>
         tasks[t].state = "human_review_required" /\ tasks'[t].state = "done"]_vars

\* No projection row is swallowed by its idempotency key: every applied
\* transition leaves all its rows in the outbox as rows that were not there
\* before, so what insert_outbox drops as a conflict is never news.
NoRowSwallowed ==
  [][\A t \in Task :
       tasks'[t] # tasks[t] =>
         LET news == Rows(Head(inbox), plans[t], tasks'[t])
         IN  news # {} /\ news \subseteq outbox' /\ news \cap outbox = {}]_vars

\* Recovery from system_degraded never puts a task straight back to work: a
\* task that was implementing when the infrastructure failed has lost its
\* lease, so it goes through plan_approved and queues for a new one
\* (transitions.resume_recovered_state).
RecoveryRequeues ==
  [][\A t \in Task :
       tasks[t].state = "system_degraded" =>
         tasks'[t].state \notin {"implementing", "implementing_resume_pending", "reviewing"}]_vars

LabelRows(t) == {r \in outbox : r.task = t /\ r.stream = "task_label_sync"}

\* The labels of the newest task_label_sync row: those Forgejo shows once the
\* projection has caught up.
ProjectedLabels(t) ==
  IF LabelRows(t) = {} THEN {}
  ELSE (CHOOSE r \in LabelRows(t) : \A o \in LabelRows(t) : o.state_rev <= r.state_rev).shows[3]

\* A label the state asks for (critical, human_review_required, cancelled) is
\* never missing from what the outbox will project, on any path into the state.
NoLabelMissing ==
  \A t \in Task :
    tasks[t].state # Absent => DesiredLabels(tasks[t]) \subseteq ProjectedLabels(t)
=============================================================================
