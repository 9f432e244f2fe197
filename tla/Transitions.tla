---------------------------- MODULE Transitions ----------------------------
(***************************************************************************)
(* The transition table of task-relay (src/task_relay/router:              *)
(* state_machine, guards, transitions) as operators without state: the     *)
(* rows and events, TRANSITIONS with its guards, and what the on_apply     *)
(* handlers write.  Router runs the table over the inbox; Dispatch runs    *)
(* the part of it that the runner's events drive.                          *)
(*                                                                         *)
(* Event payloads keep only the fields the guards read.  An absent         *)
(* plan_rev is NoPlan.  Branch and worktree columns, titles, actors and    *)
(* timestamps are left out: no guard that is modelled depends on them.     *)
(***************************************************************************)
EXTENDS Naturals

CONSTANTS
  Task,         \* ids of the tasks that may be created
  MaxPlans,     \* bound on plan revisions per task
  ApproveRevs   \* the plan_rev values that /approve payloads carry

NoPlan == 0

-----------------------------------------------------------------------------
(* Rows and events *)

TaskState ==
  { "new", "planning", "plan_pending_approval", "plan_approved",
    "implementing", "implementing_resume_pending", "needs_fix", "reviewing",
    "human_review_required", "done", "cancelled", "system_degraded" }

Absent == "absent"
NoTarget == "none"

TaskRow ==
  [ state: TaskState \cup {Absent}, state_rev: Nat, critical: BOOLEAN,
    manual_gate_required: BOOLEAN, resume_target_state: TaskState \cup {NoTarget} ]

AbsentRow ==
  [ state |-> Absent, state_rev |-> 0, critical |-> FALSE,
    manual_gate_required |-> FALSE, resume_target_state |-> NoTarget ]

\* plan_ok: no validator error, score >= 85, allowed files and acceptance
\* criteria present.
PlanRow == [rev: Nat, plan_ok: BOOLEAN]

PlainEvent ==
  [ type: { "issues.opened", "internal.plan_ready", "internal.validator_over",
            "internal.planner_timeout", "internal.infra_fatal",
            "internal.lease_lost", "internal.reviewer_fail",
            "internal.reviewer_human_review", "internal.reviewer_timeout",
            "internal.system_recovered", "/critical on", "/retry --replan",
            "/cancel", "issues.closed" },
    task: Task ]
ApproveEvent  == [type: {"/approve"}, task: Task, plan_rev: ApproveRevs, reviewed: BOOLEAN]
CritOffEvent  == [type: {"/critical off"}, task: Task, by_owner: BOOLEAN]
RetryEvent    == [type: {"/retry"}, task: Task, replan_required: BOOLEAN]
DispatchEvent == [type: {"internal.dispatch_attempt"}, task: Task, lease_acquired: BOOLEAN]
ExecutorEvent == [type: {"internal.executor_finished"}, task: Task,
                  exit_zero: BOOLEAN, in_scope: BOOLEAN, infra: BOOLEAN]
ResumeEvent   == [type: {"internal.reconcile_resume"}, task: Task, clean: BOOLEAN,
                  continuable: BOOLEAN, plan_rev: 0 .. MaxPlans, grace_ok: BOOLEAN]
ReviewEvent   == [type: {"internal.reviewer_pass"}, task: Task, all_checked: BOOLEAN]

Event == UNION { PlainEvent, ApproveEvent, CritOffEvent, RetryEvent,
                 DispatchEvent, ExecutorEvent, ResumeEvent, ReviewEvent }

Stream == {"task_snapshot", "task_label_sync", "discord_alert"}

-----------------------------------------------------------------------------
(* Guards: t is a tasks row, p the latest plan row, e an event *)

AutoApproveIgnoringCritical(t, p) == p.rev # NoPlan /\ p.plan_ok

AutoApproveOk(t, p) == p.rev # NoPlan /\ p.plan_ok /\ ~t.critical

PlanRevMatches(p, rev) == p.rev # NoPlan /\ rev # NoPlan /\ p.rev = rev

ManualGateApproved(t, e) == t.manual_gate_required /\ e.reviewed

DirtyOk(p, e) == e.continuable /\ PlanRevMatches(p, e.plan_rev)

RecoveredStateAsItWas(t) == t.resume_target_state

\* resume_recovered_state.  NoTarget cannot occur behind the guard
\* resume_target_present, and neither can implementing_resume_pending (for which
\* the code asks resume_grace_ok): only internal.infra_fatal sets a target.
RecoveredState(t) ==
  CASE t.resume_target_state = "implementing" -> "plan_approved"
    [] t.resume_target_state \in {"done", "cancelled", "system_degraded",
                                  "implementing_resume_pending", NoTarget}
         -> "human_review_required"
    [] OTHER -> t.resume_target_state

-----------------------------------------------------------------------------
(* TRANSITIONS: from row t, event e leads to state `to`.  Each disjunct is  *)
(* a TransitionKey; where a key has several specs, the first whose guard    *)
(* holds is taken.  An event that relates t to no state is skipped.         *)

SameState == {"new", "planning", "implementing", "reviewing"}

PlanningLeads(t, p, e, to) ==
  /\ t.state = "planning"
  /\ \/ /\ e.type = "internal.plan_ready"
        /\ to = IF AutoApproveOk(t, p) THEN "plan_approved" ELSE "plan_pending_approval"
     \/ /\ e.type \in {"internal.validator_over", "internal.planner_timeout"}
        /\ to = "human_review_required"
     \/ e.type = "internal.infra_fatal" /\ to = "system_degraded"

ImplementingLeads(t, p, e, to) ==
  /\ t.state = "implementing"
  /\ \/ /\ e.type = "internal.executor_finished"
        /\ \/ e.exit_zero /\ e.in_scope /\ to = "reviewing"
           \/ ~e.in_scope /\ to = "needs_fix"
           \/ ~e.exit_zero /\ e.in_scope /\ ~e.infra /\ to = "needs_fix"
     \/ /\ e.type = "internal.reconcile_resume"
        /\ to = IF e.clean THEN "plan_approved"
                ELSE IF DirtyOk(p, e) THEN "implementing_resume_pending"
                ELSE "human_review_required"
     \/ e.type = "internal.lease_lost" /\ to = "human_review_required"
     \/ e.type = "internal.infra_fatal" /\ to = "system_degraded"

ReviewingLeads(t, e, to) ==
  /\ t.state = "reviewing"
  /\ \/ /\ e.type = "internal.reviewer_pass" /\ e.all_checked
        /\ to = IF t.manual_gate_required THEN "human_review_required" ELSE "done"
     \/ e.type = "internal.reviewer_fail" /\ to = "needs_fix"
     \/ /\ e.type \in {"internal.reviewer_human_review", "internal.reviewer_timeout"}
        /\ to = "human_review_required"

CommandLeads(t, p, e, to) ==
  \/ /\ e.type = "/approve"
     /\ \/ /\ t.state = "plan_pending_approval" /\ PlanRevMatches(p, e.plan_rev)
           /\ to = "plan_approved"
        \/ /\ t.state = "human_review_required" /\ ManualGateApproved(t, e)
           /\ to = "done"
  \/ /\ e.type = "/critical on"
     /\ \/ t.state \in SameState /\ to = t.state
        \/ t.state = "plan_pending_approval" /\ ~t.critical /\ to = t.state
        \/ t.state = "plan_approved" /\ to = "plan_pending_approval"
  \/ /\ e.type = "/critical off" /\ e.by_owner
     /\ t.state \in TaskState \ {"implementing_resume_pending", "done"}
     /\ to = t.state
  \/ /\ e.type = "/retry" /\ ~e.replan_required
     /\ t.state \in {"needs_fix", "human_review_required"}
     /\ to = "implementing"
  \/ /\ e.type = "/retry --replan"
     /\ t.state \in {"plan_pending_approval", "needs_fix", "human_review_required"}
     /\ to = "planning"
  \/ e.type = "/cancel" /\ t.state \in TaskState \ {"done"} /\ to = "cancelled"

Leads(t, p, e, to) ==
  \/ e.type = "issues.opened" /\ t.state = "new" /\ to = "planning"
  \/ PlanningLeads(t, p, e, to)
  \/ /\ e.type = "internal.dispatch_attempt" /\ t.state = "plan_approved"
     /\ to = IF e.lease_acquired THEN "implementing" ELSE "plan_approved"
  \/ ImplementingLeads(t, p, e, to)
  \/ /\ e.type = "internal.reconcile_resume" /\ t.state = "implementing_resume_pending"
     /\ to = IF e.grace_ok THEN "implementing" ELSE "human_review_required"
  \/ ReviewingLeads(t, e, to)
  \/ /\ e.type = "internal.system_recovered" /\ t.state = "system_degraded"
     /\ t.resume_target_state # NoTarget
     /\ to = RecoveredState(t)
  \/ CommandLeads(t, p, e, to)

-----------------------------------------------------------------------------
(* on_apply: the row bump_state writes and the outbox rows of the handlers *)

FlagCommand(e) == e.type \in {"/critical on", "/critical off"}

RevCountedDown(t, e) == t.state_rev - 1

RevWithoutFlagBump(t, e) == IF FlagCommand(e) THEN t.state_rev ELSE t.state_rev + 1

NextRev(t, e) == t.state_rev + 1

CriticalAfter(t, e) ==
  CASE e.type = "/critical on"  -> TRUE
    [] e.type = "/critical off" -> FALSE
    [] OTHER                    -> t.critical

GateClearedByCriticalOff(t, e, to) ==
  CASE e.type = "/critical on" /\ t.state \in {"implementing", "reviewing"} -> TRUE
    [] e.type = "/critical off"             -> FALSE
    [] e.type = "/approve" /\ to = "done" -> FALSE
    [] OTHER                                -> t.manual_gate_required

GateAfter(t, e, to) ==
  CASE e.type = "/critical on" /\ t.state \in {"implementing", "reviewing"} -> TRUE
    [] e.type = "/approve" /\ to = "done" -> FALSE
    [] OTHER                                -> t.manual_gate_required

ResumeTargetLeftBehind(t, e, to) ==
  IF to = "system_degraded" /\ e.type = "internal.infra_fatal"
  THEN t.state ELSE t.resume_target_state

ResumeTargetNotSaved(t, e, to) ==
  IF e.type = "internal.system_recovered" THEN NoTarget ELSE t.resume_target_state

ResumeTargetAfter(t, e, to) ==
  CASE e.type = "internal.infra_fatal"     -> t.state
    [] e.type = "internal.system_recovered" -> NoTarget
    [] OTHER                                -> t.resume_target_state

Bumped(t, e, to) ==
  [ state |-> to, state_rev |-> NextRev(t, e), critical |-> CriticalAfter(t, e),
    manual_gate_required |-> GateAfter(t, e, to),
    resume_target_state |-> ResumeTargetAfter(t, e, to) ]

DesiredLabels(r) ==
  (IF r.critical THEN {"critical"} ELSE {})
    \cup ({r.state} \cap {"human_review_required", "cancelled"})

LabelledStatesWithoutCancelled == {"done", "human_review_required"}

\* The states whose on_apply handler inserts a task_label_sync row.
LabelledStates == {"done", "human_review_required", "cancelled"}

OutboxRow(e, s, r, shows) ==
  [task |-> e.task, stream |-> s, state_rev |-> r.state_rev, shows |-> shows]

\* The rows on_apply inserts for the new row r.  The fields are the parts of
\* the idempotency key: ON CONFLICT DO NOTHING makes the table a set of them.
\* `shows` is <<state, plan_rev, labels>>.
Rows(e, p, r) ==
  LET snapshot == OutboxRow(e, "task_snapshot", r,
                            <<r.state, p.rev, DesiredLabels(r) \cap {"critical"}>>)
      labels   == OutboxRow(e, "task_label_sync", r, <<"", NoPlan, DesiredLabels(r)>>)
      alert    == OutboxRow(e, "discord_alert", r, <<r.state, NoPlan, {}>>)
  IN  (IF FlagCommand(e) \/ r.state \notin {"human_review_required", "cancelled"}
       THEN {snapshot} ELSE {})
      \cup (IF FlagCommand(e) \/ r.state \in LabelledStates
            THEN {labels} ELSE {})
      \cup (IF ~FlagCommand(e) /\ r.state \in {"system_degraded", "needs_fix",
                                               "human_review_required"}
            THEN {alert} ELSE {})
=============================================================================
