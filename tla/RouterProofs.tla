---------------------------- MODULE RouterProofs ----------------------------
(***************************************************************************)
(* Proofs of the Router's properties for every set of tasks and all bounds. *)
(* RowInv is the inductive part: it follows one task row, and the history  *)
(* of what a person has sighted, through every transition.                 *)
(***************************************************************************)
EXTENDS RouterProps, SequenceTheorems, TLAPS

\* From these states a critical task can reach done without passing the
\* auto-approval guard or a person's command again.
Committed(r) ==
  \/ r.state \in {"plan_approved", "implementing", "implementing_resume_pending",
                  "reviewing", "done"}
  \/ r.state = "system_degraded" /\ r.resume_target_state = "implementing"

Recoverable(r) ==
  /\ r.state = "system_degraded" => r.resume_target_state \in {"planning", "implementing"}
  /\ r.resume_target_state # NoTarget => r.state \in {"system_degraded", "cancelled"}

GatedOrSighted(r, s) == r.critical /\ Committed(r) => r.manual_gate_required \/ s

DoneIsUngated(r) == r.state = "done" => ~r.manual_gate_required

RowInv(r, s) == Recoverable(r) /\ GatedOrSighted(r, s) /\ DoneIsUngated(r)

\* No outbox row is from the future of its task.
RowsBounded == \A o \in outbox : o.state_rev <= tasks[o.task].state_rev

\* The row of an absent task has never been written.
AbsentIsFresh == \A t \in Task : tasks[t].state = Absent => tasks[t] = AbsentRow

Inv ==
  /\ TypeOK
  /\ \A t \in Task : RowInv(tasks[t], sighted[t])
  /\ RowsBounded
  /\ AbsentIsFresh

-----------------------------------------------------------------------------
(* Lemmas about events, rows and transitions *)

\* Every event names a task.
LEMMA EventType == ASSUME NEW e \in Event PROVE e.task \in Task
<1>1. ASSUME e \in PlainEvent PROVE e.task \in Task
  BY <1>1 DEF PlainEvent
<1>2. ASSUME e \in ApproveEvent PROVE e.task \in Task
  BY <1>2 DEF ApproveEvent
<1>3. ASSUME e \in CritOffEvent PROVE e.task \in Task
  BY <1>3 DEF CritOffEvent
<1>4. ASSUME e \in RetryEvent PROVE e.task \in Task
  BY <1>4 DEF RetryEvent
<1>5. ASSUME e \in DispatchEvent PROVE e.task \in Task
  BY <1>5 DEF DispatchEvent
<1>6. ASSUME e \in ExecutorEvent PROVE e.task \in Task
  BY <1>6 DEF ExecutorEvent
<1>7. ASSUME e \in ResumeEvent PROVE e.task \in Task
  BY <1>7 DEF ResumeEvent
<1>8. ASSUME e \in ReviewEvent PROVE e.task \in Task
  BY <1>8 DEF ReviewEvent
<1> QED
  BY <1>1, <1>2, <1>3, <1>4, <1>5, <1>6, <1>7, <1>8 DEF Event

\* The row a transition writes is a tasks row, one revision on.
LEMMA BumpedType ==
  ASSUME NEW r \in TaskRow, NEW e, NEW to \in TaskState, r.state \in TaskState
  PROVE  /\ Bumped(r, e, to) \in TaskRow
         /\ Bumped(r, e, to).state_rev = r.state_rev + 1
<1>1. /\ r.state_rev \in Nat
      /\ r.critical \in BOOLEAN
      /\ r.manual_gate_required \in BOOLEAN
      /\ r.resume_target_state \in TaskState \cup {NoTarget}
  BY DEF TaskRow
<1>2. NextRev(r, e) \in Nat /\ NextRev(r, e) = r.state_rev + 1
  BY <1>1 DEF NextRev
<1>3. CriticalAfter(r, e) \in BOOLEAN
  BY <1>1 DEF CriticalAfter
<1>4. GateAfter(r, e, to) \in BOOLEAN
  BY <1>1 DEF GateAfter
<1>5. ResumeTargetAfter(r, e, to) \in TaskState \cup {NoTarget}
  BY <1>1 DEF ResumeTargetAfter
<1> QED
  BY <1>2, <1>3, <1>4, <1>5 DEF Bumped, TaskRow

\* The rows of a transition carry its task and its new revision.
LEMMA RowsKey ==
  ASSUME NEW e, NEW p, NEW r, NEW o \in Rows(e, p, r)
  PROVE  o.state_rev = r.state_rev /\ o.task = e.task
<1>1. \E q, shows : o = OutboxRow(e, q, r, shows)
  BY Zenon DEF Rows
<1> QED
  BY <1>1 DEF OutboxRow

\* The rows of a transition have the type of the table.
LEMMA RowsType ==
  ASSUME NEW e, e.task \in Task, NEW p \in PlanRow, NEW r \in TaskRow, r.state \in TaskState,
         NEW o \in Rows(e, p, r)
  PROVE  o \in [task: Task, stream: Stream, state_rev: Nat,
                shows: (TaskState \cup {""}) \X Nat
                       \X SUBSET {"critical", "human_review_required", "cancelled"}]
<1>1. r.state_rev \in Nat /\ p.rev \in Nat /\ NoPlan \in Nat
  BY DEF TaskRow, PlanRow, NoPlan
<1>2. DesiredLabels(r) \in SUBSET {"critical", "human_review_required", "cancelled"}
  BY DEF DesiredLabels
<1>3. \E s \in Stream, a \in TaskState \cup {""}, n \in Nat,
         ls \in SUBSET {"critical", "human_review_required", "cancelled"} :
         o = OutboxRow(e, s, r, <<a, n, ls>>)
  <2>1. CASE o = OutboxRow(e, "task_snapshot", r,
                           <<r.state, p.rev, DesiredLabels(r) \cap {"critical"}>>)
    <3>1. DesiredLabels(r) \cap {"critical"}
            \in SUBSET {"critical", "human_review_required", "cancelled"}
      BY <1>2
    <3> QED
      BY <1>1, <2>1, <3>1, Zenon DEF Stream
  <2>2. CASE o = OutboxRow(e, "task_label_sync", r, <<"", NoPlan, DesiredLabels(r)>>)
    BY <1>1, <1>2, <2>2, Zenon DEF Stream
  <2>3. CASE o = OutboxRow(e, "discord_alert", r, <<r.state, NoPlan, {}>>)
    <3>1. {} \in SUBSET {"critical", "human_review_required", "cancelled"}
      OBVIOUS
    <3> QED
      BY <1>1, <2>3, <3>1, Zenon DEF Stream
  <2> QED
    BY <2>1, <2>2, <2>3 DEF Rows
<1>4. PICK q \in Stream, a \in TaskState \cup {""}, n \in Nat,
           ls \in SUBSET {"critical", "human_review_required", "cancelled"} :
           o = OutboxRow(e, q, r, <<a, n, ls>>)
  BY <1>3
<1>5. <<a, n, ls>> \in (TaskState \cup {""}) \X Nat
                      \X SUBSET {"critical", "human_review_required", "cancelled"}
  OBVIOUS
<1> DEFINE shown == <<a, n, ls>>
           Shown == (TaskState \cup {""}) \X Nat
                      \X SUBSET {"critical", "human_review_required", "cancelled"}
<1>6. shown \in Shown
  BY <1>5
<1>7. o = [task |-> e.task, stream |-> q, state_rev |-> r.state_rev, shows |-> shown]
  BY <1>4, Zenon DEF OutboxRow
<1> HIDE DEF shown, Shown
<1>8. o \in [task: Task, stream: Stream, state_rev: Nat, shows: Shown]
  BY <1>1, <1>6, <1>7
<1> QED
  BY <1>8 DEF Shown

\* Every applied event leaves at least one row.
LEMMA RowsNonEmpty == ASSUME NEW e, NEW p, NEW r PROVE Rows(e, p, r) # {}
BY DEF Rows, LabelledStates

\* The heart of the proof: no transition breaks the row invariant.
LEMMA LeadsKeepsRowInv ==
  ASSUME NEW r \in TaskRow, NEW p, NEW e, NEW to \in TaskState, NEW s \in BOOLEAN,
         Leads(r, p, e, to), RowInv(r, s)
  PROVE  RowInv(Bumped(r, e, to), SightedAfter(s, e, to))
<1> DEFINE b == Bumped(r, e, to)
           sb == SightedAfter(s, e, to)
<1> USE DEF NoTarget
<1>0. /\ b.state = to
      /\ b.critical = CriticalAfter(r, e)
      /\ b.manual_gate_required = GateAfter(r, e, to)
      /\ b.resume_target_state = ResumeTargetAfter(r, e, to)
  BY DEF Bumped
<1>a. /\ r.critical \in BOOLEAN /\ r.manual_gate_required \in BOOLEAN
      /\ r.resume_target_state \in TaskState \cup {NoTarget}
  BY DEF TaskRow
<1>1. CASE e.type = "issues.opened" /\ r.state = "new" /\ to = "planning"
  BY <1>0, <1>a, <1>1 DEF RowInv, Recoverable, GatedOrSighted, DoneIsUngated, Committed,
     CriticalAfter, GateAfter, ResumeTargetAfter, SightedAfter
<1>2. CASE PlanningLeads(r, p, e, to)
  BY <1>0, <1>a, <1>2 DEF RowInv, Recoverable, GatedOrSighted, DoneIsUngated, Committed,
     CriticalAfter, GateAfter, ResumeTargetAfter, SightedAfter, PlanningLeads, AutoApproveOk
<1>3. CASE /\ e.type = "internal.dispatch_attempt" /\ r.state = "plan_approved"
           /\ to = IF e.lease_acquired THEN "implementing" ELSE "plan_approved"
  BY <1>0, <1>a, <1>3 DEF RowInv, Recoverable, GatedOrSighted, DoneIsUngated, Committed,
     CriticalAfter, GateAfter, ResumeTargetAfter, SightedAfter
<1>4. CASE ImplementingLeads(r, p, e, to)
  BY <1>0, <1>a, <1>4 DEF RowInv, Recoverable, GatedOrSighted, DoneIsUngated, Committed,
     CriticalAfter, GateAfter, ResumeTargetAfter, SightedAfter, ImplementingLeads
<1>5. CASE /\ e.type = "internal.reconcile_resume" /\ r.state = "implementing_resume_pending"
           /\ to = IF e.grace_ok THEN "implementing" ELSE "human_review_required"
  BY <1>0, <1>a, <1>5 DEF RowInv, Recoverable, GatedOrSighted, DoneIsUngated, Committed,
     CriticalAfter, GateAfter, ResumeTargetAfter, SightedAfter
<1>6. CASE ReviewingLeads(r, e, to)
  BY <1>0, <1>a, <1>6 DEF RowInv, Recoverable, GatedOrSighted, DoneIsUngated, Committed,
     CriticalAfter, GateAfter, ResumeTargetAfter, SightedAfter, ReviewingLeads
<1>7. CASE /\ e.type = "internal.system_recovered" /\ r.state = "system_degraded"
           /\ r.resume_target_state # NoTarget
           /\ to = RecoveredState(r)
  BY <1>0, <1>a, <1>7 DEF RowInv, Recoverable, GatedOrSighted, DoneIsUngated, Committed,
     CriticalAfter, GateAfter, ResumeTargetAfter, SightedAfter, RecoveredState
<1>8. CASE CommandLeads(r, p, e, to)
  BY <1>0, <1>a, <1>8 DEF RowInv, Recoverable, GatedOrSighted, DoneIsUngated, Committed,
     CriticalAfter, GateAfter, ResumeTargetAfter, SightedAfter, CommandLeads, SameState,
     ManualGateApproved, TaskState
<1> QED
  BY <1>1, <1>2, <1>3, <1>4, <1>5, <1>6, <1>7, <1>8 DEF Leads
-----------------------------------------------------------------------------
(* The invariant is inductive *)

\* Whatever a commit does to the tables, it keeps the invariant: the row `old`
\* that e moves to `to` is the task's row, or the new row of a created task.
LEMMA CommitKeepsInv ==
  ASSUME Inv, NEW e \in Event, NEW old \in TaskRow, NEW to \in TaskState, inbox # << >>,
         Leads(old, plans[e.task], e, to), RowInv(old, sighted[e.task]),
         old.state_rev = tasks[e.task].state_rev, Commit(e, old, to)
  PROVE  Inv'
<1> DEFINE r == Bumped(old, e, to)
           p == plans[e.task]
<1>0. e.task \in Task
  BY EventType
<1>1. r \in TaskRow /\ r.state_rev = old.state_rev + 1 /\ r.state = to
  <2>1. old.state \in TaskState
    BY DEF Leads, PlanningLeads, ImplementingLeads, ReviewingLeads, CommandLeads, TaskState,
           SameState
  <2> QED
    BY <2>1, BumpedType DEF Bumped
<1>2. p \in PlanRow /\ sighted[e.task] \in BOOLEAN /\ tasks[e.task].state_rev \in Nat
  BY <1>0 DEF Inv, TypeOK, TaskRow
<1>3. /\ tasks' = [tasks EXCEPT ![e.task] = r]
      /\ outbox' = outbox \cup Rows(e, p, r)
      /\ sighted' = [sighted EXCEPT ![e.task] = SightedAfter(sighted[e.task], e, to)]
      /\ inbox' = Tail(inbox)
      /\ plans' = plans
  BY DEF Commit
<1>4. TypeOK'
  <2>1. tasks' \in [Task -> TaskRow]
    BY <1>0, <1>1, <1>3 DEF Inv, TypeOK
  <2>2. plans' \in [Task -> PlanRow]
    BY <1>3 DEF Inv, TypeOK
  <2>3. inbox' \in Seq(Event)
    BY <1>3, HeadTailProperties DEF Inv, TypeOK
  <2>4. \A o \in Rows(e, p, r) :
          o \in [task: Task, stream: Stream, state_rev: Nat,
                 shows: (TaskState \cup {""}) \X Nat
                        \X SUBSET {"critical", "human_review_required", "cancelled"}]
    BY <1>0, <1>1, <1>2, RowsType, Zenon
  <2>5. outbox' \subseteq [task: Task, stream: Stream, state_rev: Nat,
                           shows: (TaskState \cup {""}) \X Nat
                                  \X SUBSET {"critical", "human_review_required", "cancelled"}]
    BY <1>3, <2>4, Zenon DEF Inv, TypeOK
  <2>6. SightedAfter(sighted[e.task], e, to) \in BOOLEAN
    BY <1>2 DEF SightedAfter
  <2>7. sighted' \in [Task -> BOOLEAN]
    BY <1>0, <1>3, <2>6 DEF Inv, TypeOK
  <2> QED
    BY <2>1, <2>2, <2>3, <2>5, <2>7 DEF TypeOK
<1>5. ASSUME NEW t \in Task PROVE RowInv(tasks[t], sighted[t])'
  <2>1. CASE t = e.task
    <3>1. RowInv(r, SightedAfter(sighted[e.task], e, to))
      BY <1>2, LeadsKeepsRowInv
    <3>2. tasks'[t] = r /\ sighted'[t] = SightedAfter(sighted[e.task], e, to)
      BY <1>3, <2>1 DEF Inv, TypeOK
    <3> QED
      BY <3>1, <3>2 DEF RowInv, Recoverable, GatedOrSighted, DoneIsUngated, Committed
  <2>2. CASE t # e.task
    <3>1. tasks'[t] = tasks[t] /\ sighted'[t] = sighted[t]
      BY <1>3, <2>2 DEF Inv, TypeOK
    <3> QED
      BY <3>1 DEF Inv, RowInv, Recoverable, GatedOrSighted, DoneIsUngated, Committed
  <2> QED
    BY <2>1, <2>2
<1>6. RowsBounded'
  <2>1. ASSUME NEW t \in Task
        PROVE  /\ tasks'[t].state_rev \in Nat /\ tasks[t].state_rev \in Nat
               /\ tasks[t].state_rev <= tasks'[t].state_rev
    <3>a. tasks[t] \in TaskRow /\ tasks'[t] \in TaskRow
      BY <1>4 DEF Inv, TypeOK
    <3>1. tasks[t].state_rev \in Nat /\ tasks'[t].state_rev \in Nat
      BY <3>a DEF TaskRow
    <3>2. CASE t = e.task
      <4>1. tasks'[t] = r
        BY <1>3, <3>2 DEF Inv, TypeOK
      <4> QED
        BY <1>1, <1>2, <3>1, <3>2, <4>1
    <3>3. CASE t # e.task
      <4>1. tasks'[t] = tasks[t]
        BY <1>3, <3>3 DEF Inv, TypeOK
      <4> QED
        BY <3>1, <4>1
    <3> QED
      BY <3>2, <3>3
  <2>2. ASSUME NEW o \in outbox PROVE o.state_rev <= tasks'[o.task].state_rev
    <3>1. o.task \in Task /\ o.state_rev \in Nat /\ o.state_rev <= tasks[o.task].state_rev
      BY DEF Inv, TypeOK, RowsBounded
    <3> QED
      BY <2>1, <3>1
  <2>3. ASSUME NEW o \in Rows(e, p, r) PROVE o.state_rev <= tasks'[o.task].state_rev
    <3>1. o.state_rev = r.state_rev /\ o.task = e.task
      BY <2>3, RowsKey
    <3>2. tasks'[e.task] = r
      BY <1>0, <1>3 DEF Inv, TypeOK
    <3>3. r.state_rev \in Nat
      BY <1>1 DEF TaskRow
    <3> QED
      BY <3>1, <3>2, <3>3
  <2> QED
    BY <1>3, <2>2, <2>3 DEF RowsBounded
<1>7. AbsentIsFresh'
  <2>1. r.state # Absent
    BY <1>1 DEF TaskState, Absent
  <2> QED
    BY <1>0, <1>3, <2>1 DEF Inv, TypeOK, AbsentIsFresh
<1> QED
  BY <1>4, <1>5, <1>6, <1>7 DEF Inv

LEMMA InitInv == Init => Inv
<1> SUFFICES ASSUME Init PROVE Inv
  OBVIOUS
<1>1. AbsentRow \in TaskRow
  BY DEF AbsentRow, TaskRow
<1>2. [rev |-> NoPlan, plan_ok |-> FALSE] \in PlanRow
  BY DEF PlanRow, NoPlan
<1>3. TypeOK
  BY <1>1, <1>2 DEF Init, TypeOK
<1>4. \A t \in Task : RowInv(tasks[t], sighted[t])
  BY DEF Init, AbsentRow, RowInv, Recoverable, GatedOrSighted, DoneIsUngated, Committed,
         Absent, NoTarget
<1>5. RowsBounded
  BY DEF Init, RowsBounded
<1>6. AbsentIsFresh
  BY DEF Init, AbsentRow, AbsentIsFresh
<1> QED
  BY <1>3, <1>4, <1>5, <1>6 DEF Inv

\* The row of a created task, before its first transition.
CreatedRow == [AbsentRow EXCEPT !.state = "new"]

LEMMA CreatedRowInv ==
  ASSUME NEW s \in BOOLEAN
  PROVE  CreatedRow \in TaskRow /\ CreatedRow.state_rev = 0 /\ RowInv(CreatedRow, s)
BY DEF CreatedRow, AbsentRow, TaskRow, RowInv, Recoverable, GatedOrSighted, DoneIsUngated,
       Committed, TaskState, NoTarget

\* Every step keeps the invariant.
LEMMA NextInv == Inv /\ [Next]_vars => Inv'
<1> SUFFICES ASSUME Inv, [Next]_vars PROVE Inv'
  OBVIOUS
<1> USE DEF RowInv, Recoverable, GatedOrSighted, DoneIsUngated, Committed, RowsBounded,
            AbsentIsFresh
<1>1. ASSUME NEW e \in Event, Arrive(e) PROVE Inv'
  <2>1. inbox' \in Seq(Event)
    BY <1>1, AppendProperties DEF Inv, TypeOK, Arrive
  <2> QED
    BY <1>1, <2>1 DEF Inv, TypeOK, Arrive
<1>2. ASSUME NEW t \in Task, NEW ok \in BOOLEAN, InsertPlan(t, ok) PROVE Inv'
  <2>1. [rev |-> plans[t].rev + 1, plan_ok |-> ok] \in PlanRow
    <3>1. plans[t] \in PlanRow
      BY DEF Inv, TypeOK
    <3>2. plans[t].rev \in Nat
      BY <3>1 DEF PlanRow
    <3> QED
      BY <3>2 DEF PlanRow
  <2>2. plans' = [plans EXCEPT ![t] = [rev |-> plans[t].rev + 1, plan_ok |-> ok]]
    BY <1>2 DEF InsertPlan
  <2>3. plans' \in [Task -> PlanRow]
    BY <2>1, <2>2 DEF Inv, TypeOK
  <2> QED
    BY <1>2, <2>3 DEF Inv, TypeOK, InsertPlan
<1> USE DEF Inv
<1>3. CASE RunOnce
  <2> DEFINE e == Head(inbox)
  <2>1. inbox # << >> /\ e \in Event /\ e.task \in Task /\ inbox \in Seq(Event)
    BY <1>3, EventType, HeadTailProperties DEF RunOnce, TypeOK
  <2>2. CASE CreateTask(e)
    <3>1. PICK to \in TaskState :
            Leads(CreatedRow, plans[e.task], e, to) /\ Commit(e, CreatedRow, to)
      BY <2>2, Zenon DEF CreateTask, CreatedRow
    <3>a. tasks[e.task] = AbsentRow
      BY <2>1, <2>2 DEF CreateTask
    <3>b. sighted[e.task] \in BOOLEAN
      BY <2>1 DEF TypeOK
    <3>d. AbsentRow.state_rev = 0
      BY DEF AbsentRow
    <3>c. tasks[e.task].state_rev = 0
      BY <3>a, <3>d, Zenon
    <3>2. sighted[e.task] \in BOOLEAN /\ tasks[e.task].state_rev = 0
      BY <3>b, <3>c
    <3>3. /\ CreatedRow \in TaskRow /\ CreatedRow.state_rev = tasks[e.task].state_rev
          /\ RowInv(CreatedRow, sighted[e.task])
      BY <3>2, CreatedRowInv
    <3> HIDE DEF Inv, RowInv
    <3> QED
      BY <2>1, <3>1, <3>3, CommitKeepsInv
  <2>3. CASE ApplyTransition(e)
    <3>1. PICK to \in TaskState :
            Leads(tasks[e.task], plans[e.task], e, to) /\ Commit(e, tasks[e.task], to)
      BY <2>3, Zenon DEF ApplyTransition
    <3>2. tasks[e.task] \in TaskRow /\ RowInv(tasks[e.task], sighted[e.task])
      BY <2>1 DEF TypeOK
    <3> HIDE DEF Inv, RowInv
    <3> QED
      BY <2>1, <3>1, <3>2, CommitKeepsInv
  <2>4. CASE Skip(e)
    <3>1. inbox' \in Seq(Event)
      BY <2>1, <2>4, HeadTailProperties DEF Skip
    <3> QED
      BY <2>4, <3>1 DEF Skip, TypeOK
  <2> QED
    BY <1>3, <2>2, <2>3, <2>4 DEF RunOnce
<1>4. CASE UNCHANGED vars
  BY <1>4 DEF vars, TypeOK
<1> QED
  BY <1>1, <1>2, <1>3, <1>4 DEF Next

LEMMA SpecInv == Spec => []Inv
BY InitInv, NextInv, PTL DEF Spec

-----------------------------------------------------------------------------
(* Theorems *)

\* Every table keeps its type, for any tasks and bounds.
THEOREM TypeCorrect == Spec => []TypeOK
<1>1. Inv => TypeOK
  BY DEF Inv
<1> QED
  BY <1>1, SpecInv, PTL

\* No critical task is ever done without a person having sighted it, and no
\* done task has its gate raised.
THEOREM NoUnseenCompletionHolds == Spec => []NoUnseenCompletion
<1>1. Inv => NoUnseenCompletion
  BY DEF Inv, TypeOK, TaskRow, NoUnseenCompletion, RowInv, GatedOrSighted, DoneIsUngated,
         Committed
<1> QED
  BY <1>1, SpecInv, PTL

\* A degraded task can always be recovered.
THEOREM DegradedIsRecoverableHolds == Spec => []DegradedIsRecoverable
<1>1. Inv => DegradedIsRecoverable
  BY DEF Inv, DegradedIsRecoverable, RowInv, Recoverable
<1> QED
  BY <1>1, SpecInv, PTL

-----------------------------------------------------------------------------
(* What a step may never do *)

\* What a commit does to the rows of the tasks.
LEMMA StepOfRow ==
  ASSUME Inv, Next, NEW t \in Task, tasks'[t] # tasks[t]
  PROVE  \E old \in TaskRow, to \in TaskState :
           LET e == Head(inbox)
           IN  /\ e.task = t
               /\ old.state_rev = tasks[t].state_rev
               /\ old = tasks[t] \/ (old = CreatedRow /\ tasks[t].state = Absent)
               /\ Leads(old, plans[t], e, to)
               /\ tasks'[t] = Bumped(old, e, to)
               /\ outbox' = outbox \cup Rows(e, plans[t], tasks'[t])
<1> DEFINE e == Head(inbox)
<1>1. RunOnce /\ ~Skip(e)
  BY DEF Next, Arrive, InsertPlan, Skip
<1>2. inbox # << >> /\ e \in Event /\ e.task \in Task
  BY <1>1, EventType, HeadTailProperties DEF RunOnce, Inv, TypeOK
<1>3. PICK old \in TaskRow, to \in TaskState :
        /\ old.state_rev = tasks[e.task].state_rev
        /\ old = tasks[e.task] \/ (old = CreatedRow /\ tasks[e.task].state = Absent)
        /\ Leads(old, plans[e.task], e, to)
        /\ Commit(e, old, to)
  <2>1. CASE CreateTask(e)
    <3>1. PICK to \in TaskState :
            Leads(CreatedRow, plans[e.task], e, to) /\ Commit(e, CreatedRow, to)
      BY <2>1, Zenon DEF CreateTask, CreatedRow
    <3>2. CreatedRow \in TaskRow /\ CreatedRow.state_rev = 0
      BY CreatedRowInv
    <3>3. tasks[e.task].state = Absent /\ tasks[e.task].state_rev = 0
      BY <1>2, <2>1 DEF CreateTask, Inv, AbsentIsFresh, AbsentRow
    <3> QED
      BY <3>1, <3>2, <3>3
  <2>2. CASE ApplyTransition(e)
    <3>1. PICK to \in TaskState :
            Leads(tasks[e.task], plans[e.task], e, to) /\ Commit(e, tasks[e.task], to)
      BY <2>2, Zenon DEF ApplyTransition
    <3>2. tasks[e.task] \in TaskRow
      BY <1>2 DEF Inv, TypeOK
    <3> QED
      BY <3>1, <3>2
  <2> QED
    BY <1>1, <2>1, <2>2 DEF RunOnce
<1>4. /\ tasks' = [tasks EXCEPT ![e.task] = Bumped(old, e, to)]
      /\ outbox' = outbox \cup Rows(e, plans[e.task], Bumped(old, e, to))
  BY <1>3 DEF Commit
<1>5. e.task = t
  BY <1>2, <1>4 DEF Inv, TypeOK
<1>6. tasks'[t] = Bumped(old, e, to)
  BY <1>2, <1>4, <1>5 DEF Inv, TypeOK
<1> QED
  BY <1>3, <1>4, <1>5, <1>6

\* The manual gate is lowered only by the /approve that completes the task.
THEOREM GateLoweredOnlyOnCompletionHolds == Spec => GateLoweredOnlyOnCompletion
<1>1. ASSUME Inv, Next, NEW t \in Task,
             tasks[t].manual_gate_required, ~tasks'[t].manual_gate_required
      PROVE  tasks[t].state = "human_review_required" /\ tasks'[t].state = "done"
  <2>1. tasks'[t] # tasks[t]
    BY <1>1
  <2>2. PICK old \in TaskRow, to \in TaskState :
          LET e == Head(inbox)
          IN  /\ old.state_rev = tasks[t].state_rev
              /\ old = tasks[t] \/ (old = CreatedRow /\ tasks[t].state = Absent)
              /\ Leads(old, plans[t], e, to)
              /\ tasks'[t] = Bumped(old, e, to)
    BY <1>1, <2>1, StepOfRow
  <2> DEFINE e == Head(inbox)
  <2>3. tasks'[t].manual_gate_required = GateAfter(old, e, to) /\ tasks'[t].state = to
    BY <2>2 DEF Bumped
  <2>4. CASE old = CreatedRow /\ tasks[t].state = Absent
    BY <1>1, <2>4 DEF Inv, AbsentIsFresh, AbsentRow
  <2> QED
    BY <1>1, <2>2, <2>3, <2>4 DEF GateAfter, Leads, PlanningLeads, ImplementingLeads,
       ReviewingLeads, CommandLeads
<1>2. Inv /\ [Next]_vars => [\A t \in Task :
        tasks[t].manual_gate_required /\ ~tasks'[t].manual_gate_required =>
          tasks[t].state = "human_review_required" /\ tasks'[t].state = "done"]_vars
  BY <1>1
<1> QED
  BY <1>2, SpecInv, PTL DEF Spec, GateLoweredOnlyOnCompletion

\* Recovery never puts a task straight back to work.
THEOREM RecoveryRequeuesHolds == Spec => RecoveryRequeues
<1> DEFINE Work == {"implementing", "implementing_resume_pending", "reviewing"}
<1>1. ASSUME Inv, Next, NEW t \in Task, tasks[t].state = "system_degraded"
      PROVE  tasks'[t].state \notin Work
  <2>1. CASE tasks'[t] = tasks[t]
    BY <1>1, <2>1
  <2>2. CASE tasks'[t] # tasks[t]
    <3>1. PICK old \in TaskRow, to \in TaskState :
            LET e == Head(inbox)
            IN  /\ old = tasks[t] \/ (old = CreatedRow /\ tasks[t].state = Absent)
                /\ Leads(old, plans[t], e, to)
                /\ tasks'[t] = Bumped(old, e, to)
      BY <1>1, <2>2, StepOfRow
    <3>2. old = tasks[t] /\ tasks'[t].state = to
      BY <1>1, <3>1 DEF Bumped, Absent
    <3>3. tasks[t].resume_target_state \in {"planning", "implementing"}
      BY <1>1 DEF Inv, RowInv, Recoverable
    <3> QED
      BY <1>1, <3>1, <3>2, <3>3 DEF Leads, PlanningLeads, ImplementingLeads, ReviewingLeads,
         CommandLeads, RecoveredState, SameState
  <2> QED
    BY <2>1, <2>2
<1>2. Inv /\ [Next]_vars => [\A t \in Task :
        tasks[t].state = "system_degraded" =>
          tasks'[t].state \notin {"implementing", "implementing_resume_pending", "reviewing"}]_vars
  BY <1>1
<1> QED
  BY <1>2, SpecInv, PTL DEF Spec, RecoveryRequeues

\* No projection row is swallowed by its idempotency key.
THEOREM NoRowSwallowedHolds == Spec => NoRowSwallowed
<1>1. ASSUME Inv, Next, NEW t \in Task, tasks'[t] # tasks[t]
      PROVE  LET news == Rows(Head(inbox), plans[t], tasks'[t])
             IN  news # {} /\ news \subseteq outbox' /\ news \cap outbox = {}
  <2> DEFINE e == Head(inbox)
             news == Rows(e, plans[t], tasks'[t])
  <2>1. PICK old \in TaskRow, to \in TaskState :
          /\ e.task = t
          /\ old.state_rev = tasks[t].state_rev
          /\ tasks'[t] = Bumped(old, e, to)
          /\ outbox' = outbox \cup news
    BY <1>1, StepOfRow
  <2>2. tasks[t].state_rev \in Nat /\ tasks'[t].state_rev = tasks[t].state_rev + 1
    <3>1. tasks[t] \in TaskRow
      BY <1>1 DEF Inv, TypeOK
    <3>2. tasks[t].state_rev \in Nat
      BY <3>1 DEF TaskRow
    <3> QED
      BY <2>1, <3>2 DEF Bumped, NextRev
  <2>3. ASSUME NEW o \in news, o \in outbox PROVE FALSE
    <3>1. o.state_rev = tasks'[t].state_rev /\ o.task = t
      BY <2>1, <2>3, RowsKey
    <3>2. o.state_rev <= tasks[o.task].state_rev
      BY <1>1, <2>3 DEF Inv, RowsBounded
    <3> QED
      BY <2>2, <3>1, <3>2
  <2>4. news # {}
    BY RowsNonEmpty
  <2> QED
    BY <2>1, <2>3, <2>4
<1>2. Inv /\ [Next]_vars => [\A t \in Task :
        tasks'[t] # tasks[t] =>
          LET news == Rows(Head(inbox), plans[t], tasks'[t])
          IN  news # {} /\ news \subseteq outbox' /\ news \cap outbox = {}]_vars
  BY <1>1, Zenon DEF vars
<1> QED
  BY <1>2, SpecInv, PTL DEF Spec, NoRowSwallowed

-----------------------------------------------------------------------------
(* The labels the outbox will show *)

Newest(r, rows) == r \in rows /\ \A o \in rows : o.state_rev <= r.state_rev

\* Some label row of a task is its newest, and every newest one shows at least
\* what the task's state asks for; without a label row the state asks for none.
LabelsInv ==
  \A t \in Task :
    /\ LabelRows(t) # {} => \E r \in LabelRows(t) : Newest(r, LabelRows(t))
    /\ \A r \in LabelRows(t) :
         Newest(r, LabelRows(t)) => DesiredLabels(tasks[t]) \subseteq r.shows[3]
    /\ LabelRows(t) = {} => DesiredLabels(tasks[t]) = {}

\* A step leaves a task and its label rows alone, or is a transition of it.
LEMMA StepOfLabels ==
  ASSUME Inv, Next, NEW t \in Task, tasks'[t] = tasks[t]
  PROVE  LabelRows(t)' = LabelRows(t)
<1> DEFINE e == Head(inbox)
<1>1. CASE outbox' = outbox
  BY <1>1 DEF LabelRows
<1>2. CASE outbox' # outbox
  <2>1. RunOnce /\ ~Skip(e)
    BY <1>2 DEF Next, Arrive, InsertPlan, Skip
  <2>2. e \in Event /\ e.task \in Task
    BY <2>1, EventType, HeadTailProperties DEF RunOnce, Inv, TypeOK
  <2>3. PICK old, to :
          /\ old.state_rev = tasks[e.task].state_rev
          /\ Commit(e, old, to)
    <3>1. CASE CreateTask(e)
      <4>1. PICK to \in TaskState : Commit(e, CreatedRow, to)
        BY <3>1, Zenon DEF CreateTask, CreatedRow
      <4>2. tasks[e.task] = AbsentRow
        BY <2>2, <3>1, Zenon DEF CreateTask, Inv, AbsentIsFresh
      <4>3. CreatedRow.state_rev = AbsentRow.state_rev
        BY DEF CreatedRow, AbsentRow
      <4> QED
        BY <4>1, <4>2, <4>3, Zenon
    <3>2. CASE ApplyTransition(e)
      BY <3>2, Zenon DEF ApplyTransition
    <3> QED
      BY <2>1, <3>1, <3>2 DEF RunOnce
  <2>4. /\ tasks' = [tasks EXCEPT ![e.task] = Bumped(old, e, to)]
        /\ outbox' = outbox \cup Rows(e, plans[e.task], Bumped(old, e, to))
    BY <2>3 DEF Commit
  <2>5. e.task # t
    <3>1. tasks[e.task] \in TaskRow
      BY <2>2 DEF Inv, TypeOK
    <3>2. tasks[e.task].state_rev \in Nat
      BY <3>1 DEF TaskRow
    <3>3. tasks'[e.task].state_rev = tasks[e.task].state_rev + 1
      BY <2>2, <2>3, <2>4 DEF Inv, TypeOK, Bumped, NextRev
    <3> QED
      BY <3>2, <3>3
  <2>6. ASSUME NEW o \in Rows(e, plans[e.task], Bumped(old, e, to)) PROVE o.task = e.task
    BY RowsKey
  <2> QED
    BY <2>4, <2>5, <2>6 DEF LabelRows
<1> QED
  BY <1>1, <1>2

\* The label rows among those a transition inserts.
LEMMA LabelRowsOfRows ==
  ASSUME NEW e, NEW p, NEW r
  PROVE  LET row == OutboxRow(e, "task_label_sync", r, <<"", NoPlan, DesiredLabels(r)>>)
         IN  {o \in Rows(e, p, r) : o.stream = "task_label_sync"}
               = IF FlagCommand(e) \/ r.state \in LabelledStates THEN {row} ELSE {}
<1> DEFINE snapshot == OutboxRow(e, "task_snapshot", r,
                                 <<r.state, p.rev, DesiredLabels(r) \cap {"critical"}>>)
           row   == OutboxRow(e, "task_label_sync", r, <<"", NoPlan, DesiredLabels(r)>>)
           alert == OutboxRow(e, "discord_alert", r, <<r.state, NoPlan, {}>>)
           unlabelled == FlagCommand(e) \/ r.state \notin {"human_review_required", "cancelled"}
           labelled   == FlagCommand(e) \/ r.state \in LabelledStates
           alerted    == ~FlagCommand(e) /\ r.state \in {"system_degraded", "needs_fix",
                                                         "human_review_required"}
<1>1. /\ snapshot.stream = "task_snapshot"
      /\ row.stream = "task_label_sync"
      /\ alert.stream = "discord_alert"
  BY Zenon DEF OutboxRow
<1>2. Rows(e, p, r) = (IF unlabelled THEN {snapshot} ELSE {})
                        \cup (IF labelled THEN {row} ELSE {})
                        \cup (IF alerted THEN {alert} ELSE {})
  BY Zenon DEF Rows
<1>3. {o \in Rows(e, p, r) : o.stream = "task_label_sync"} = IF labelled THEN {row} ELSE {}
  <2> HIDE DEF snapshot, row, alert, unlabelled, labelled, alerted
  <2> QED
    BY <1>1, <1>2
<1> QED
  BY <1>3

\* A transition that inserts no label row asks for no new label.
LEMMA NoNewLabel ==
  ASSUME NEW old, NEW e, NEW to, ~FlagCommand(e), to \notin LabelledStates
  PROVE  DesiredLabels(Bumped(old, e, to)) \subseteq DesiredLabels(old)
BY DEF DesiredLabels, Bumped, FlagCommand, LabelledStates, CriticalAfter

LEMMA InitLabelsInv == Init => LabelsInv
<1> SUFFICES ASSUME Init, NEW t \in Task
             PROVE  LabelRows(t) = {} /\ DesiredLabels(tasks[t]) = {}
  BY DEF LabelsInv
<1>1. LabelRows(t) = {}
  BY DEF Init, LabelRows
<1>2. tasks[t] = AbsentRow
  BY Zenon DEF Init
<1> QED
  BY <1>1, <1>2 DEF AbsentRow, DesiredLabels, Absent

\* Every step keeps the labels: a transition inserts a newest row that shows
\* what is asked for, or asks for nothing more than before.
LEMMA NextLabelsInv == Inv /\ LabelsInv /\ [Next]_vars => LabelsInv'
<1> SUFFICES ASSUME Inv, LabelsInv, [Next]_vars, NEW t \in Task
             PROVE  (/\ LabelRows(t) # {} => \E r \in LabelRows(t) : Newest(r, LabelRows(t))
                     /\ \A r \in LabelRows(t) :
                          Newest(r, LabelRows(t)) =>
                            DesiredLabels(tasks[t]) \subseteq r.shows[3]
                     /\ LabelRows(t) = {} => DesiredLabels(tasks[t]) = {})'
  BY DEF LabelsInv
<1>1. CASE tasks'[t] = tasks[t]
  <2>1. LabelRows(t)' = LabelRows(t)
    BY <1>1, StepOfLabels DEF vars, LabelRows
  <2> QED
    BY <1>1, <2>1 DEF LabelsInv, Newest, DesiredLabels
<1>2. CASE tasks'[t] # tasks[t]
  <2>1. PICK old \in TaskRow, to \in TaskState :
          LET e == Head(inbox)
          IN  /\ e.task = t
              /\ old.state_rev = tasks[t].state_rev
              /\ old = tasks[t] \/ (old = CreatedRow /\ tasks[t].state = Absent)
              /\ tasks'[t] = Bumped(old, e, to)
              /\ outbox' = outbox \cup Rows(e, plans[t], tasks'[t])
    BY <1>2, StepOfRow DEF vars
  <2> DEFINE e == Head(inbox)
             row == OutboxRow(e, "task_label_sync", tasks'[t],
                              <<"", NoPlan, DesiredLabels(tasks'[t])>>)
             labelled == FlagCommand(e) \/ tasks'[t].state \in LabelledStates
  <2>2. LabelRows(t)' = LabelRows(t) \cup (IF labelled THEN {row} ELSE {})
    <3>1. {o \in Rows(e, plans[t], tasks'[t]) : o.stream = "task_label_sync"}
            = IF labelled THEN {row} ELSE {}
      BY LabelRowsOfRows
    <3>2. ASSUME NEW o \in Rows(e, plans[t], tasks'[t]) PROVE o.task = t
      BY <2>1, RowsKey
    <3> QED
      BY <2>1, <3>1, <3>2 DEF LabelRows
  <2>3. /\ tasks[t].state_rev \in Nat
        /\ tasks'[t].state_rev = tasks[t].state_rev + 1
        /\ tasks'[t].state = to
        /\ \A o \in LabelRows(t) : o.state_rev \in Nat /\ o.state_rev <= tasks[t].state_rev
    <3>1. tasks[t] \in TaskRow
      BY DEF Inv, TypeOK
    <3>2. tasks[t].state_rev \in Nat
      BY <3>1 DEF TaskRow
    <3>3. tasks'[t].state_rev = tasks[t].state_rev + 1 /\ tasks'[t].state = to
      BY <2>1 DEF Bumped, NextRev
    <3>4. \A o \in outbox : o.state_rev \in Nat /\ o.state_rev <= tasks[o.task].state_rev
      BY DEF Inv, TypeOK, RowsBounded
    <3>5. \A o \in LabelRows(t) : o \in outbox /\ o.task = t
      BY DEF LabelRows
    <3> QED
      BY <3>2, <3>3, <3>4, <3>5
  <2>4. CASE labelled
    <3>1. /\ row.state_rev = tasks'[t].state_rev
          /\ row.shows[3] = DesiredLabels(tasks'[t])
      BY DEF OutboxRow
    <3>2. LabelRows(t)' = LabelRows(t) \cup {row}
      BY <2>2, <2>4
    <3> HIDE DEF row
    <3>3. \A o \in LabelRows(t)' :
            /\ o.state_rev <= row.state_rev
            /\ row.state_rev <= o.state_rev => o = row
      BY <2>3, <3>1, <3>2
    <3>4. DesiredLabels(tasks[t])' = DesiredLabels(tasks'[t])
      BY DEF DesiredLabels
    <3>5. Newest(row, LabelRows(t)')
      BY <3>2, <3>3 DEF Newest
    <3>6. \A r \in LabelRows(t)' : Newest(r, LabelRows(t)') => r = row
      BY <3>2, <3>3 DEF Newest
    <3> QED
      BY <3>1, <3>2, <3>4, <3>5, <3>6
  <2>5. CASE ~labelled
    <3>1. LabelRows(t)' = LabelRows(t)
      BY <2>2, <2>5
    <3>2. DesiredLabels(tasks'[t]) \subseteq DesiredLabels(old)
      BY <2>1, <2>3, <2>5, NoNewLabel
    <3>3. DesiredLabels(old) \subseteq DesiredLabels(tasks[t])
      BY <2>1 DEF CreatedRow, AbsentRow, DesiredLabels
    <3>4. DesiredLabels(tasks[t])' = DesiredLabels(tasks'[t])
      BY DEF DesiredLabels
    <3> QED
      BY <3>1, <3>2, <3>3, <3>4 DEF LabelsInv, Newest
  <2> QED
    BY <2>4, <2>5
<1> QED
  BY <1>1, <1>2

\* No label a task's state asks for is missing from what the outbox will show.
THEOREM NoLabelMissingHolds == Spec => []NoLabelMissing
<1>1. LabelsInv => NoLabelMissing
  <2> SUFFICES ASSUME LabelsInv, NEW t \in Task
               PROVE  DesiredLabels(tasks[t]) \subseteq ProjectedLabels(t)
    BY DEF NoLabelMissing
  <2>1. CASE LabelRows(t) = {}
    BY <2>1 DEF LabelsInv, ProjectedLabels
  <2>2. CASE LabelRows(t) # {}
    <3> DEFINE newest == CHOOSE r \in LabelRows(t) :
                           \A o \in LabelRows(t) : o.state_rev <= r.state_rev
    <3>1. Newest(newest, LabelRows(t))
      BY <2>2 DEF LabelsInv, Newest
    <3>2. ProjectedLabels(t) = newest.shows[3]
      BY <2>2 DEF ProjectedLabels
    <3> HIDE DEF newest
    <3> QED
      BY <3>1, <3>2 DEF LabelsInv, Newest
  <2> QED
    BY <2>1, <2>2
<1> QED
  BY <1>1, InitInv, NextInv, InitLabelsInv, NextLabelsInv, PTL DEF Spec
=============================================================================
