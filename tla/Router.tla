------------------------------- MODULE Router -------------------------------
(***************************************************************************)
(* The Router of task-relay (src/task_relay/router): the only writer of    *)
(* the task truth.  It takes one unprocessed inbox row at a time, looks up *)
(* TRANSITIONS by (state, event type), applies the first spec whose guard  *)
(* holds, and commits the new task row, its projection_outbox rows and the *)
(* processed mark in one transaction.  A crash before the commit leaves no *)
(* trace, so it needs no action here: the row is still in the inbox.       *)
(***************************************************************************)
EXTENDS Transitions, Sequences

CONSTANTS
  MaxRev,       \* bound: no event arrives once a task has this state_rev
  MaxPending    \* bound on unprocessed inbox rows

ASSUME RouterAssumption ==
  /\ MaxRev \in Nat
  /\ MaxPlans \in Nat
  /\ MaxPending \in Nat
  /\ ApproveRevs \subseteq Nat

VARIABLES
  tasks,    \* the tasks table
  plans,    \* the latest row of the plans table, per task
  inbox,    \* event_inbox rows with processed_at IS NULL, in event_id order
  outbox,   \* every projection_outbox row ever inserted, sent or not
  sighted   \* history: a person has accepted the work as it now stands

vars == <<tasks, plans, inbox, outbox, sighted>>

-----------------------------------------------------------------------------
(* Steps *)

Init ==
  /\ tasks = [t \in Task |-> AbsentRow]
  /\ plans = [t \in Task |-> [rev |-> NoPlan, plan_ok |-> FALSE]]
  /\ inbox = << >>
  /\ outbox = {}
  /\ sighted = [t \in Task |-> FALSE]

\* The ingester commits an event_inbox row.
Arrive(e) ==
  /\ Len(inbox) < MaxPending
  /\ tasks[e.task].state_rev < MaxRev
  /\ inbox' = Append(inbox, e)
  /\ UNCHANGED <<tasks, plans, outbox, sighted>>

\* The runner's planning stage commits a plans row (dispatcher._insert_plan),
\* in a transaction of its own and at any moment: it polls the task state and
\* does not wait for the Router.
InsertPlan(t, ok) ==
  /\ tasks[t].state # Absent
  /\ plans[t].rev < MaxPlans
  /\ plans' = [plans EXCEPT ![t] = [rev |-> @.rev + 1, plan_ok |-> ok]]
  /\ UNCHANGED <<tasks, inbox, outbox, sighted>>

\* A person's /approve or /retry accepts the work; a later /critical on or a
\* return to planning withdraws that.
SightedAfter(old, e, to) ==
  \/ e.type \in {"/approve", "/retry"}
  \/ old /\ e.type # "/critical on" /\ to # "planning"

Commit(e, t, to) ==
  LET r == Bumped(t, e, to)
  IN  /\ tasks' = [tasks EXCEPT ![e.task] = r]
      /\ outbox' = outbox \cup Rows(e, plans[e.task], r)
      /\ sighted' = [sighted EXCEPT ![e.task] = SightedAfter(@, e, to)]
      /\ inbox' = Tail(inbox)
      /\ UNCHANGED plans

\* issues.opened without a task: the row is inserted in state new and moved
\* on in the same transaction.
CreateTask(e) ==
  /\ e.type = "issues.opened"
  /\ tasks[e.task].state = Absent
  /\ LET created == [AbsentRow EXCEPT !.state = "new"]
     IN  \E to \in TaskState : Leads(created, plans[e.task], e, to) /\ Commit(e, created, to)

ApplyTransition(e) ==
  /\ tasks[e.task].state # Absent
  /\ \E to \in TaskState :
       Leads(tasks[e.task], plans[e.task], e, to) /\ Commit(e, tasks[e.task], to)

\* task_not_found, no_transition and no_guard_matched: only the mark is written.
Skip(e) ==
  /\ IF tasks[e.task].state = Absent
     THEN e.type # "issues.opened"
     ELSE \A to \in TaskState : ~Leads(tasks[e.task], plans[e.task], e, to)
  /\ inbox' = Tail(inbox)
  /\ UNCHANGED <<tasks, plans, outbox, sighted>>

\* Router.run_once on the row fetch_next_unprocessed returns.
RunOnce ==
  /\ inbox # << >>
  /\ \/ CreateTask(Head(inbox))
     \/ ApplyTransition(Head(inbox))
     \/ Skip(Head(inbox))

Next ==
  \/ \E e \in Event : Arrive(e)
  \/ \E t \in Task, ok \in BOOLEAN : InsertPlan(t, ok)
  \/ RunOnce

Spec == Init /\ [][Next]_vars
=============================================================================
