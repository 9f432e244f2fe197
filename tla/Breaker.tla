------------------------------ MODULE Breaker ------------------------------
(***************************************************************************)
(* The circuit breaker and /retry-system (src/task_relay/breaker,          *)
(* runner/retry_system_handler, the gate in runner/dispatcher).  The       *)
(* runner keeps the recent FATAL failures in memory and logs each one in   *)
(* system_events before it appends infra_fatal; while enough failures of   *)
(* one code are recent it dispatches nothing, though it goes on running    *)
(* the stages of tasks already at work.  A /retry-system makes the Router  *)
(* log a reset and append a recovery for every degraded task.  A process   *)
(* that starts rebuilds its breaker from the log.                          *)
(*                                                                         *)
(* Journal and ingester are a queue (module Journal says why), leases are  *)
(* free and every stage has its plan (module Dispatch).  The Router has a  *)
(* breaker of its own in memory, which nothing reads: only what it logs is *)
(* kept.  A failure carries whether the runner's memory has it and what    *)
(* has become of it in the log, which is what status shows.  Time is its   *)
(* age, in ticks; it is dropped when it leaves the window, since neither   *)
(* is_open nor rebuild_from_events will look at it again: so an open       *)
(* breaker closes with time, too.                                          *)
(***************************************************************************)
EXTENDS Transitions, Sequences, FiniteSets

CONSTANTS
  Code,         \* the failure codes that are FATAL
  NoTask,
  Atwork,       \* the tasks that are in planning at the start
  Window,       \* WINDOW_SECONDS, in ticks
  Threshold,    \* FATAL_THRESHOLD
  MaxRecent,    \* bound on failures in the window
  MaxCrashes,   \* bound on crashes of the two processes
  MaxInbox      \* bound on unprocessed events: from it on people wait, beyond it the runner

ASSUME BreakerAssumption ==
  /\ Atwork \subseteq Task /\ NoTask \notin Task
  /\ {Window, MaxRecent, MaxCrashes, MaxInbox, MaxPlans} \subseteq Nat
  /\ Threshold \in Nat \ {0}

VARIABLES
  tasks,      \* the tasks table (state_rev and critical stay put)
  waiting,    \* the tasks whose waiter is queued
  inbox,      \* unprocessed events
  failures,   \* the FATAL failures in the window that the runner or the log has
  runner,     \* where TaskDispatcher is, and with which task
  handler,    \* the Router's RetrySystemHandler
  crashes     \* how often each process has died

store == <<tasks, waiting, failures>>
vars == <<store, inbox, runner, handler, crashes>>

-----------------------------------------------------------------------------
\* `known` if it is in the runner's buckets.  `row` is none until the system_events row
\* is there, and reset once a breaker_reset row follows it; `nr` tells two failures of
\* one age apart.
Failure ==
  [nr: 1 .. MaxRecent, code: Code, age: 0 .. Window, known: BOOLEAN,
   row: {"none", "logged", "reset"}]

Plain(what, t) == [type |-> what, task |-> t]
RetrySystem == [type |-> "/retry-system"]

Plan == [rev |-> 1, plan_ok |-> TRUE]

\* What a stage of t appends when it succeeds.
Success(stage, t) ==
  CASE stage = "planning" -> Plain("internal.plan_ready", t)
    [] stage = "implementing" ->
         [type |-> "internal.executor_finished", task |-> t, exit_zero |-> TRUE,
          in_scope |-> TRUE, infra |-> FALSE]
    [] OTHER -> [type |-> "internal.reviewer_pass", task |-> t, all_checked |-> TRUE]

Attempt(t) == [type |-> "internal.dispatch_attempt", task |-> t, lease_acquired |-> TRUE]

Bucket(c) == {f \in failures : f.code = c /\ f.known}

\* is_open, and open_codes as a condition.
Open(c) == Cardinality(Bucket(c)) >= Threshold
AnyOpen == \E c \in Code : Open(c)

NotRebuilt(f) == FALSE

\* What rebuild_from_events finds: the rows in the window that no later row resets.
Replayed(f) == f.row = "logged"

Init ==
  /\ tasks = [t \in Task |->
       [AbsentRow EXCEPT !.state = IF t \in Atwork THEN "planning" ELSE "plan_approved"]]
  /\ waiting = Task \ Atwork
  /\ inbox = << >>
  /\ failures = {}
  /\ runner = [at |-> "poll", task |-> NoTask]
  /\ handler = [at |-> "no", left |-> {}]
  /\ crashes = [router |-> 0, runner |-> 0]

\* enqueue_waiter, which nothing in src calls: an operator inserts the row; later
\* /unlock of the lane puts the waiter back (module Dispatch).
Enqueue(t) ==
  /\ t \notin waiting /\ tasks[t].state = "plan_approved"
  /\ waiting' = waiting \cup {t}
  /\ UNCHANGED <<tasks, failures, inbox, runner, handler, crashes>>

\* An append of the runner to the journal, which brings the event to the inbox.
Emit(e) == Len(inbox) <= MaxInbox /\ inbox' = Append(inbox, e)

Goto(at, t) == runner' = [at |-> at, task |-> t]

-----------------------------------------------------------------------------
(* The runner: run_forever *)

Candidate(t) == t \in waiting /\ tasks[t].state = "plan_approved"

\* step dispatches, unless the breaker is open.
StepDispatches(t) ==
  /\ runner.at = "poll" /\ ~AnyOpen /\ Candidate(t)
  /\ Emit(Attempt(t))
  /\ waiting' = waiting \ {t}
  /\ Goto("poll", t)
  /\ UNCHANGED <<tasks, failures, handler, crashes>>

\* step has just dispatched t, or found nothing; run_task does not ask the breaker.
StartStage(t) ==
  /\ runner.at = "poll" /\ tasks[t].state \in {"planning", "implementing", "reviewing"}
  /\ runner.task = t \/ AnyOpen \/ \A u \in Task : ~Candidate(u)
  /\ Goto(tasks[t].state, t)
  /\ UNCHANGED <<store, inbox, handler, crashes>>

InStage == runner.at \in {"planning", "implementing", "reviewing"}

StageSucceeds ==
  /\ InStage
  /\ Emit(Success(runner.at, runner.task))
  /\ Goto("poll", NoTask)
  /\ UNCHANGED <<store, handler, crashes>>

FreeNr == 1 .. MaxRecent \ {f.nr : f \in failures}

\* CircuitBreaker.record of a FATAL failure of the stage: memory first, ...
StageFails(c) ==
  /\ InStage /\ FreeNr # {}
  /\ LET n == CHOOSE n \in FreeNr : TRUE
     IN  failures' = failures \cup
           {[nr |-> n, code |-> c, age |-> 0, known |-> TRUE, row |-> "none"]}
  /\ Goto("record", runner.task)
  /\ UNCHANGED <<tasks, waiting, inbox, handler, crashes>>

\* Only the failure being recorded has no row.
Logged(f) == [f EXCEPT !.row = IF @ = "none" THEN "logged" ELSE @]

\* ... then the row of system_events, ...
LogFailure ==
  /\ runner.at = "record"
  /\ failures' = {Logged(f) : f \in failures}
  /\ Goto("report", runner.task)
  /\ UNCHANGED <<tasks, waiting, inbox, handler, crashes>>

\* ... and then infra_fatal.
ReportFailure ==
  /\ runner.at = "report"
  /\ Emit(Plain("internal.infra_fatal", runner.task))
  /\ Goto("poll", NoTask)
  /\ UNCHANGED <<store, handler, crashes>>

Crash(p) ==
  /\ crashes.router + crashes.runner < MaxCrashes
  /\ crashes' = [crashes EXCEPT ![p] = @ + 1]

\* What was in memory is gone; it stays known until the process starts again and
\* rebuilds, so that the two can be compared.
RunnerCrashes ==
  /\ runner.at # "down" /\ Crash("runner")
  /\ Goto("down", NoTask)
  /\ UNCHANGED <<store, inbox, handler>>

Rebuilt(f) == [f EXCEPT !.known = Replayed(f)]

RunnerStarts ==
  /\ runner.at = "down"
  /\ failures' = {Rebuilt(f) : f \in {g \in failures : g.row # "none"}}
  /\ Goto("poll", NoTask)
  /\ UNCHANGED <<tasks, waiting, inbox, handler, crashes>>

-----------------------------------------------------------------------------
(* The Router *)

OrderRetrySystem ==
  /\ Len(inbox) < MaxInbox /\ inbox' = Append(inbox, RetrySystem)
  /\ UNCHANGED <<store, runner, handler, crashes>>

\* run_once on an event of a task: it moves the task, or is skipped.
RouteTask ==
  /\ inbox # << >> /\ handler.at = "no" /\ Head(inbox) # RetrySystem
  /\ LET e == Head(inbox)
         t == tasks[e.task]
     IN  \/ \E to \in TaskState :
              /\ Leads(t, Plan, e, to)
              /\ tasks' = [tasks EXCEPT ![e.task] = [Bumped(t, e, to) EXCEPT !.state_rev = 0]]
         \/ (\A to \in TaskState : ~Leads(t, Plan, e, to)) /\ UNCHANGED tasks
  /\ inbox' = Tail(inbox)
  /\ UNCHANGED <<waiting, failures, runner, handler, crashes>>

\* run_once only marks the event; the handler runs after the commit.
RouteRetrySystem ==
  /\ inbox # << >> /\ handler.at = "no" /\ Head(inbox) = RetrySystem
  /\ handler' = [handler EXCEPT !.at = "reset"]
  /\ inbox' = Tail(inbox)
  /\ UNCHANGED <<store, runner, crashes>>

ResetRow(f) == [f EXCEPT !.row = IF @ = "logged" THEN "reset" ELSE @]

\* CircuitBreaker.reset in the Router: the runner's buckets stay as they are.
LogReset ==
  /\ handler.at = "reset"
  /\ failures' = {ResetRow(f) : f \in failures}
  /\ handler' = [handler EXCEPT !.at = "check"]
  /\ UNCHANGED <<tasks, waiting, inbox, runner, crashes>>

\* The SELECT of handle_retry_system.
Degraded == {t \in Task : tasks[t].state = "system_degraded"}

\* The health check fails and the handler returns, or the SELECT follows it.
CheckHealth ==
  /\ handler.at = "check"
  /\ \E found \in {{}, Degraded} :
       handler' = [at |-> IF found = {} THEN "no" ELSE "recover", left |-> found]
  /\ UNCHANGED <<store, inbox, runner, crashes>>

AppendRecovered(t) ==
  /\ handler.at = "recover" /\ t \in handler.left
  /\ inbox' = Append(inbox, Plain("internal.system_recovered", t))
  /\ LET rest == handler.left \ {t}
     IN  handler' = [at |-> IF rest = {} THEN "no" ELSE "recover", left |-> rest]
  /\ UNCHANGED <<store, runner, crashes>>

\* The process dies after the commit: what the handler had left to do is lost.
RouterCrashes ==
  /\ handler.at # "no" /\ Crash("router")
  /\ handler' = [at |-> "no", left |-> {}]
  /\ UNCHANGED <<store, inbox, runner>>

-----------------------------------------------------------------------------
\* What _prune and the SELECT of rebuild_from_events keep when one tick has passed.
StillIn(f) == f.age < Window

Older(f) == [f EXCEPT !.age = IF @ < Window THEN @ + 1 ELSE @]

Tick ==
  /\ failures' = {Older(f) : f \in {g \in failures : StillIn(g)}}
  /\ UNCHANGED <<tasks, waiting, inbox, runner, handler, crashes>>

RunnerStep ==
  \/ StageSucceeds \/ LogFailure \/ ReportFailure
  \/ RunnerStarts
  \/ \E t \in Task : StepDispatches(t) \/ StartStage(t)
  \/ \E c \in Code : StageFails(c)

RouterStep ==
  \/ RouteTask \/ RouteRetrySystem \/ LogReset \/ CheckHealth
  \/ \E t \in Task : AppendRecovered(t)

Next ==
  \/ RunnerStep \/ RunnerCrashes
  \/ OrderRetrySystem \/ (\E t \in Task : Enqueue(t)) \/ RouterStep \/ RouterCrashes
  \/ Tick

Spec == Init /\ [][Next]_vars

\* The Router keeps running (systemd restarts it).
FairSpec == Spec /\ WF_vars(RouterStep)
=============================================================================
