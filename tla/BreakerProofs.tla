--------------------------- MODULE BreakerProofs ----------------------------
(***************************************************************************)
(* Proofs about the circuit breaker, for every set of tasks and codes,     *)
(* every window and threshold and any number of crashes: types, that a     *)
(* restart of the runner keeps the breaker as it was, and that the runner  *)
(* dispatches nothing while the log shows an open breaker.                 *)
(***************************************************************************)
EXTENDS BreakerProps, FiniteSetTheorems, TLAPS

\* The runner in a stage, or recording the failure of one, has a task.
AtTask == runner.at \notin {"poll", "down"} => runner.task \in Task

TypeInv == TypeOK /\ AtTask

\* Two failures are never taken for one, and at most one is without its row: that of
\* the stage the runner records, or died recording.  What the runner does not know of
\* has been reset.
LogInv ==
  /\ \A f, g \in failures : f.nr = g.nr => f = g
  /\ \A f, g \in failures : f.row = "none" /\ g.row = "none" => f = g
  /\ \A f \in failures : f.row = "none" => runner.at \in {"record", "down"}
  /\ \A f \in failures : f.known \/ f.row = "reset"

-----------------------------------------------------------------------------
(* Types *)

LEMMA EventType == ASSUME NEW e \in Event PROVE e.task \in Task
<1>1. CASE e \in PlainEvent
  BY <1>1 DEF PlainEvent
<1>2. CASE e \in ApproveEvent
  BY <1>2 DEF ApproveEvent
<1>3. CASE e \in CritOffEvent
  BY <1>3 DEF CritOffEvent
<1>4. CASE e \in RetryEvent
  BY <1>4 DEF RetryEvent
<1>5. CASE e \in DispatchEvent
  BY <1>5 DEF DispatchEvent
<1>6. CASE e \in ExecutorEvent
  BY <1>6 DEF ExecutorEvent
<1>7. CASE e \in ResumeEvent
  BY <1>7 DEF ResumeEvent
<1>8. CASE e \in ReviewEvent
  BY <1>8 DEF ReviewEvent
<1> QED
  BY <1>1, <1>2, <1>3, <1>4, <1>5, <1>6, <1>7, <1>8 DEF Event

\* What the runner and the handler append.
LEMMA SentType ==
  ASSUME NEW t \in Task
  PROVE  /\ Attempt(t) \in Event
         /\ \A at \in {"planning", "implementing", "reviewing"} : Success(at, t) \in Event
         /\ Plain("internal.infra_fatal", t) \in Event
         /\ Plain("internal.system_recovered", t) \in Event
<1>1. Attempt(t) \in DispatchEvent
  BY DEF Attempt, DispatchEvent
<1>2. \A what \in {"internal.plan_ready", "internal.infra_fatal", "internal.system_recovered"} :
        Plain(what, t) \in PlainEvent
  BY DEF Plain, PlainEvent
<1>3. Success("planning", t) \in PlainEvent
  BY <1>2 DEF Success
<1>4. Success("implementing", t) \in ExecutorEvent
  BY DEF Success, ExecutorEvent
<1>5. Success("reviewing", t) \in ReviewEvent
  BY DEF Success, ReviewEvent
<1> QED
  BY <1>1, <1>2, <1>3, <1>4, <1>5 DEF Event

\* A transition leaves a row.
LEMMA RowType ==
  ASSUME NEW r \in TaskRow, r.state \in TaskState, NEW e, NEW to \in TaskState
  PROVE  [Bumped(r, e, to) EXCEPT !.state_rev = 0] \in {x \in TaskRow : x.state \in TaskState}
<1>1. /\ r.critical \in BOOLEAN /\ r.manual_gate_required \in BOOLEAN
      /\ r.resume_target_state \in TaskState \cup {NoTarget}
  BY DEF TaskRow
<1>2. CriticalAfter(r, e) \in BOOLEAN
  BY <1>1 DEF CriticalAfter
<1>3. GateAfter(r, e, to) \in BOOLEAN
  BY <1>1 DEF GateAfter
<1>4. ResumeTargetAfter(r, e, to) \in TaskState \cup {NoTarget}
  BY <1>1 DEF ResumeTargetAfter
<1>5. /\ [Bumped(r, e, to) EXCEPT !.state_rev = 0] \in TaskRow
      /\ [Bumped(r, e, to) EXCEPT !.state_rev = 0].state = to
  BY <1>2, <1>3, <1>4 DEF Bumped, TaskRow
<1> DEFINE new == [Bumped(r, e, to) EXCEPT !.state_rev = 0]
<1>6. new \in TaskRow /\ new.state = to
  BY <1>5, Zenon
<1> HIDE DEF new
<1>7. new \in {x \in TaskRow : x.state \in TaskState}
  BY <1>6
<1> QED
  BY <1>7 DEF new

\* What becomes of a failure keeps what tells it from others.
LEMMA FailureType ==
  ASSUME NEW f \in Failure
  PROVE  /\ Logged(f) \in Failure /\ Logged(f).nr = f.nr /\ Logged(f).row # "none"
         /\ Logged(f).known = f.known /\ (f.row = "reset" => Logged(f).row = "reset")
         /\ ResetRow(f) \in Failure /\ ResetRow(f).nr = f.nr /\ ResetRow(f).known = f.known
         /\ ResetRow(f).row = "none" <=> f.row = "none"
         /\ f.row = "reset" => ResetRow(f).row = "reset"
         /\ Older(f) \in Failure /\ Older(f).nr = f.nr /\ Older(f).row = f.row
         /\ Older(f).known = f.known
         /\ Rebuilt(f) \in Failure /\ Rebuilt(f).nr = f.nr /\ Rebuilt(f).row = f.row
         /\ Rebuilt(f).code = f.code /\ Rebuilt(f).known = Replayed(f)
<1>1. /\ Logged(f) \in Failure /\ Logged(f).nr = f.nr /\ Logged(f).row # "none"
      /\ Logged(f).known = f.known /\ (f.row = "reset" => Logged(f).row = "reset")
  BY DEF Logged, Failure
<1>2. /\ ResetRow(f) \in Failure /\ ResetRow(f).nr = f.nr /\ ResetRow(f).known = f.known
      /\ ResetRow(f).row = "none" <=> f.row = "none"
      /\ f.row = "reset" => ResetRow(f).row = "reset"
  BY DEF ResetRow, Failure
<1>3. /\ Older(f) \in Failure /\ Older(f).nr = f.nr /\ Older(f).row = f.row
      /\ Older(f).known = f.known
  BY BreakerAssumption DEF Older, Failure
<1>4. /\ Rebuilt(f) \in Failure /\ Rebuilt(f).nr = f.nr /\ Rebuilt(f).row = f.row
      /\ Rebuilt(f).code = f.code /\ Rebuilt(f).known = Replayed(f)
  <2>1. Replayed(f) \in BOOLEAN
    BY DEF Replayed
  <2> QED
    BY <2>1 DEF Rebuilt, Failure
<1> QED
  BY <1>1, <1>2, <1>3, <1>4

LEMMA InitType == Init => TypeInv
<1> SUFFICES ASSUME Init PROVE TypeInv
  OBVIOUS
<1>1. tasks \in [Task -> {r \in TaskRow : r.state \in TaskState}]
  <2> DEFINE row(t) == [AbsentRow EXCEPT !.state = IF t \in Atwork THEN "planning" ELSE "plan_approved"]
  <2>1. ASSUME NEW t \in Task PROVE row(t) \in TaskRow /\ row(t).state \in TaskState
    BY DEF AbsentRow, TaskRow, TaskState, NoTarget
  <2>2. tasks = [t \in Task |-> row(t)]
    BY DEF Init
  <2> HIDE DEF row
  <2> QED
    BY <2>1, <2>2
<1>2. inbox \in Seq(Event \cup {RetrySystem})
  BY DEF Init
<1> QED
  BY <1>1, <1>2, BreakerAssumption DEF Init, TypeInv, TypeOK, AtTask

LEMMA NextType == TypeInv /\ [Next]_vars => TypeInv'
<1> SUFFICES ASSUME TypeInv, [Next]_vars PROVE TypeInv'
  OBVIOUS
<1> DEFINE At == {"poll", "planning", "implementing", "reviewing", "record", "report", "down"}
           Mail == Event \cup {RetrySystem}
           Rows0 == {r \in TaskRow : r.state \in TaskState}
<1>a. /\ tasks \in [Task -> Rows0] /\ waiting \subseteq Task /\ inbox \in Seq(Mail)
      /\ failures \subseteq Failure
      /\ runner \in [at: At, task: Task \cup {NoTask}]
      /\ handler \in [at: {"no", "reset", "check", "recover"}, left: SUBSET Task]
      /\ crashes \in [router: Nat, runner: Nat]
      /\ AtTask
  BY DEF TypeInv, TypeOK
<1>b. ASSUME NEW at \in At, NEW t \in Task \cup {NoTask}, Goto(at, t),
             at \in {"poll", "down"} \/ t \in Task
      PROVE  runner' \in [at: At, task: Task \cup {NoTask}] /\ AtTask'
  BY <1>b DEF Goto, AtTask
<1>c. ASSUME NEW e \in Event, inbox' = Append(inbox, e) PROVE inbox' \in Seq(Mail)
  BY <1>a, <1>c
\* A step of the runner.
<1>d. ASSUME UNCHANGED <<tasks, handler>>, waiting' \subseteq Task, inbox' \in Seq(Mail),
             failures' \subseteq Failure, runner' \in [at: At, task: Task \cup {NoTask}],
             AtTask', crashes' \in [router: Nat, runner: Nat]
      PROVE  TypeInv'
  BY <1>a, <1>d DEF TypeInv, TypeOK
\* A step of the Router.
<1>e. ASSUME UNCHANGED <<waiting, runner>>, tasks' \in [Task -> Rows0], inbox' \in Seq(Mail),
             failures' \subseteq Failure,
             handler' \in [at: {"no", "reset", "check", "recover"}, left: SUBSET Task],
             crashes' \in [router: Nat, runner: Nat]
      PROVE  TypeInv'
  BY <1>a, <1>e DEF TypeInv, TypeOK, AtTask
<1>f. InStage => runner.at \in {"planning", "implementing", "reviewing"} /\ runner.task \in Task
  BY <1>a DEF InStage, AtTask
<1>1. ASSUME NEW t \in Task, Enqueue(t) PROVE TypeInv'
  BY <1>1, <1>a, <1>d DEF Enqueue, AtTask
<1>2. ASSUME NEW t \in Task, StepDispatches(t) PROVE TypeInv'
  <2>1. inbox' \in Seq(Mail)
    BY <1>2, <1>c, SentType DEF StepDispatches, Emit
  <2> QED
    BY <1>2, <1>a, <1>b, <1>d, <2>1 DEF StepDispatches
<1>3. ASSUME NEW t \in Task, StartStage(t) PROVE TypeInv'
  BY <1>3, <1>a, <1>b, <1>d DEF StartStage, store
<1>4. CASE StageSucceeds
  <2>1. inbox' \in Seq(Mail)
    BY <1>4, <1>c, <1>f, SentType DEF StageSucceeds, Emit
  <2> QED
    BY <1>4, <1>a, <1>b, <1>d, <2>1 DEF StageSucceeds, store
<1>5. ASSUME NEW c \in Code, StageFails(c) PROVE TypeInv'
  <2> DEFINE new(n) == [nr |-> n, code |-> c, age |-> 0, known |-> TRUE, row |-> "none"]
  <2>1. PICK n \in FreeNr : failures' = failures \cup {new(n)}
    BY <1>5 DEF StageFails
  <2>2. new(n) \in Failure
    BY <2>1, BreakerAssumption DEF Failure, FreeNr
  <2> QED
    BY <1>5, <1>a, <1>b, <1>d, <1>f, <2>1, <2>2 DEF StageFails
<1>6. CASE LogFailure
  <2>1. failures' \subseteq Failure
    BY <1>6, <1>a, FailureType DEF LogFailure
  <2> QED
    BY <1>6, <1>a, <1>b, <1>d, <2>1 DEF LogFailure, AtTask
<1>7. CASE ReportFailure
  <2>1. inbox' \in Seq(Mail)
    BY <1>7, <1>a, <1>c, SentType DEF ReportFailure, Emit, AtTask
  <2> QED
    BY <1>7, <1>a, <1>b, <1>d, <2>1 DEF ReportFailure, store
<1>8. CASE RunnerCrashes
  <2>1. crashes' \in [router: Nat, runner: Nat]
    BY <1>8, <1>a DEF RunnerCrashes, Crash
  <2> QED
    BY <1>8, <1>a, <1>b, <1>d, <2>1 DEF RunnerCrashes, store
<1>9. CASE RunnerStarts
  <2>1. failures' \subseteq Failure
    BY <1>9, <1>a, FailureType DEF RunnerStarts
  <2> QED
    BY <1>9, <1>a, <1>b, <1>d, <2>1 DEF RunnerStarts
<1>10. CASE OrderRetrySystem
  <2>1. inbox' \in Seq(Mail)
    BY <1>10, <1>a DEF OrderRetrySystem
  <2> QED
    BY <1>10, <1>a, <1>e, <2>1 DEF OrderRetrySystem, store
<1>11. CASE RouteTask
  <2> DEFINE e == Head(inbox)
  <2>1. e \in Mail /\ e # RetrySystem /\ Tail(inbox) \in Seq(Mail)
    BY <1>11, <1>a DEF RouteTask
  <2>2. e.task \in Task
    BY <2>1, EventType
  <2>3. tasks' \in [Task -> Rows0]
    <3>1. CASE UNCHANGED tasks
      BY <1>a, <3>1
    <3>2. ASSUME NEW to \in TaskState,
                 tasks' = [tasks EXCEPT ![e.task] = [Bumped(tasks[e.task], e, to) EXCEPT !.state_rev = 0]]
          PROVE  tasks' \in [Task -> Rows0]
      <4>1. tasks[e.task] \in TaskRow /\ tasks[e.task].state \in TaskState
        BY <1>a, <2>2
      <4> HIDE DEF e
      <4>2. [Bumped(tasks[e.task], e, to) EXCEPT !.state_rev = 0] \in Rows0
        BY <4>1, RowType
      <4> QED
        BY <1>a, <2>2, <3>2, <4>2
    <3> QED
      BY <1>11, <3>1, <3>2 DEF RouteTask
  <2> QED
    BY <1>11, <1>a, <1>e, <2>1, <2>3 DEF RouteTask
<1>12. CASE RouteRetrySystem
  <2>1. Tail(inbox) \in Seq(Mail)
    BY <1>12, <1>a DEF RouteRetrySystem
  <2> QED
    BY <1>12, <1>a, <1>e, <2>1 DEF RouteRetrySystem, store
<1>13. CASE LogReset
  <2>1. failures' \subseteq Failure
    BY <1>13, <1>a, FailureType DEF LogReset
  <2> QED
    BY <1>13, <1>a, <1>e, <2>1 DEF LogReset
<1>14. CASE CheckHealth
  <2>1. Degraded \subseteq Task
    BY DEF Degraded
  <2> QED
    BY <1>14, <1>a, <1>e, <2>1 DEF CheckHealth, store
<1>15. ASSUME NEW t \in Task, AppendRecovered(t) PROVE TypeInv'
  <2>1. inbox' \in Seq(Mail)
    BY <1>15, <1>c, SentType DEF AppendRecovered
  <2> QED
    BY <1>15, <1>a, <1>e, <2>1 DEF AppendRecovered, store
<1>16. CASE RouterCrashes
  <2>1. crashes' \in [router: Nat, runner: Nat]
    BY <1>16, <1>a DEF RouterCrashes, Crash
  <2> QED
    BY <1>16, <1>a, <1>e, <2>1 DEF RouterCrashes, store
<1>17. CASE Tick
  <2>1. failures' \subseteq Failure
    BY <1>17, <1>a, FailureType DEF Tick
  <2> QED
    BY <1>17, <1>a, <1>d, <2>1 DEF Tick, AtTask
<1>18. CASE UNCHANGED vars
  BY <1>18, <1>a, <1>d DEF vars, store, AtTask
<1> QED
  BY <1>1, <1>2, <1>3, <1>4, <1>5, <1>6, <1>7, <1>8, <1>9, <1>10, <1>11, <1>12, <1>13,
     <1>14, <1>15, <1>16, <1>17, <1>18 DEF Next, RunnerStep, RouterStep

\* Every variable keeps its type.
THEOREM TypeCorrect == Spec => []TypeOK
<1>1. TypeInv => TypeOK
  BY DEF TypeInv
<1> QED
  BY InitType, NextType, <1>1, PTL DEF Spec

-----------------------------------------------------------------------------
(* What a restart keeps *)

LEMMA NextLog == TypeInv /\ LogInv /\ [Next]_vars => LogInv'
<1> SUFFICES ASSUME TypeInv, LogInv, [Next]_vars PROVE LogInv'
  OBVIOUS
<1>a. /\ failures \subseteq Failure
      /\ \A f, g \in failures : f.nr = g.nr => f = g
      /\ \A f, g \in failures : f.row = "none" /\ g.row = "none" => f = g
      /\ \A f \in failures : f.row = "none" => runner.at \in {"record", "down"}
      /\ \A f \in failures : f.known \/ f.row = "reset"
  BY DEF TypeInv, TypeOK, LogInv
\* Failures that stay without their row are where they were.
<1>b. ASSUME \A f \in failures' : \E g \in failures :
               /\ f.nr = g.nr /\ f.known = g.known
               /\ f.row = "none" <=> g.row = "none"
               /\ g.row = "reset" => f.row = "reset",
             \A f, g \in failures' : f.nr = g.nr => f = g,
             runner.at \in {"record", "down"} => runner'.at \in {"record", "down"}
      PROVE  LogInv'
  BY <1>a, <1>b DEF LogInv
<1>c. ASSUME UNCHANGED failures,
             runner.at \in {"record", "down"} => runner'.at \in {"record", "down"}
      PROVE  LogInv'
  BY <1>a, <1>c DEF LogInv
<1>1. ASSUME NEW t \in Task, Enqueue(t) PROVE LogInv'
  BY <1>1, <1>c DEF Enqueue
<1>2. ASSUME NEW t \in Task, StepDispatches(t) PROVE LogInv'
  BY <1>2, <1>c DEF StepDispatches
<1>3. ASSUME NEW t \in Task, StartStage(t) PROVE LogInv'
  BY <1>3, <1>c DEF StartStage, store
<1>4. CASE StageSucceeds
  BY <1>4, <1>c DEF StageSucceeds, InStage, store
<1>5. ASSUME NEW c \in Code, StageFails(c) PROVE LogInv'
  <2> DEFINE new(n) == [nr |-> n, code |-> c, age |-> 0, known |-> TRUE, row |-> "none"]
  <2>1. PICK n \in FreeNr : failures' = failures \cup {new(n)}
    BY <1>5 DEF StageFails
  <2>2. \A f \in failures : f.nr # n /\ f.row # "none"
    BY <1>5, <1>a, <2>1 DEF FreeNr, StageFails, InStage
  <2>3. runner'.at = "record"
    BY <1>5 DEF StageFails, Goto
  <2>4. new(n).nr = n /\ new(n).known
    OBVIOUS
  <2> HIDE DEF new
  <2> QED
    BY <1>a, <2>1, <2>2, <2>3, <2>4 DEF LogInv
<1>6. CASE LogFailure
  <2>1. failures' = {Logged(f) : f \in failures}
    BY <1>6 DEF LogFailure
  <2> QED
    BY <1>a, <2>1, FailureType DEF LogInv
<1>7. CASE ReportFailure
  BY <1>7, <1>c DEF ReportFailure, store
<1>8. CASE RunnerCrashes
  BY <1>8, <1>c DEF RunnerCrashes, Goto, store
<1>9. CASE RunnerStarts
  <2>1. failures' = {Rebuilt(f) : f \in {g \in failures : g.row # "none"}}
    BY <1>9 DEF RunnerStarts
  <2>2. \A f \in failures : f.row \in {"none", "logged", "reset"}
    BY <1>a DEF Failure
  <2>3. ASSUME NEW f \in failures'
        PROVE  \E g \in failures : /\ g \in Failure /\ f = Rebuilt(g) /\ f.nr = g.nr
                                   /\ f.row = g.row /\ f.row # "none"
                                   /\ f.known = Replayed(g)
    BY <1>a, <2>1, FailureType
  <2>4. \A f \in failures' : f.row # "none" /\ (f.known \/ f.row = "reset")
    BY <2>2, <2>3 DEF Replayed
  <2>5. \A f, g \in failures' : f.nr = g.nr => f = g
    BY <1>a, <2>3
  <2> QED
    BY <2>4, <2>5 DEF LogInv
<1>10. CASE LogReset
  <2>1. failures' = {ResetRow(f) : f \in failures} /\ UNCHANGED runner
    BY <1>10 DEF LogReset
  <2> QED
    BY <1>a, <1>b, <2>1, FailureType
<1>11. CASE Tick
  <2>1. failures' = {Older(f) : f \in {g \in failures : StillIn(g)}} /\ UNCHANGED runner
    BY <1>11 DEF Tick
  <2> QED
    BY <1>a, <1>b, <2>1, FailureType
<1>12. CASE UNCHANGED <<failures, runner>>
  BY <1>12, <1>c
<1> QED
  BY <1>1, <1>2, <1>3, <1>4, <1>5, <1>6, <1>7, <1>8, <1>9, <1>10, <1>11, <1>12
  DEF Next, RunnerStep, RouterStep, OrderRetrySystem, RouteTask, RouteRetrySystem,
      CheckHealth, AppendRecovered, RouterCrashes, vars, store

\* The failures are numbered, so there are finitely many.
LEMMA FinitelyMany ==
  ASSUME TypeInv, LogInv
  PROVE  IsFiniteSet(failures)
<1> DEFINE number == [f \in failures |-> f.nr]
<1>1. number \in Injection(failures, 1 .. MaxRecent)
  BY DEF TypeInv, TypeOK, LogInv, Failure, Injection, IsInjective
<1>2. IsFiniteSet(1 .. MaxRecent)
  <2>1. 1 \in Int /\ MaxRecent \in Int
    BY BreakerAssumption
  <2> QED
    BY <2>1, FS_Interval
<1> QED
  BY <1>1, <1>2, FS_Injection

\* What a restart takes from a bucket that no reset has touched is the failure that
\* was being recorded.
LEMMA RestartTakesOne ==
  ASSUME TypeInv, LogInv, RunnerStarts, NEW c \in Code, Open(c), ~Open(c)',
         \A f \in Bucket(c) : f.row # "reset"
  PROVE  /\ Cardinality(Bucket(c)) = Threshold
         /\ \E f \in Bucket(c) : f.row = "none"
<1>1. Bucket(c)' = {f \in Bucket(c) : f.row = "logged"}
  <2>1. failures' = {Rebuilt(f) : f \in {g \in failures : g.row # "none"}}
    BY DEF RunnerStarts
  <2>2. /\ failures \subseteq Failure
        /\ \A f \in failures : f.known \/ f.row = "reset"
    BY DEF TypeInv, TypeOK, LogInv
  <2>3. \A f \in failures : f.row = "logged" => Rebuilt(f) = f
    BY <2>2 DEF Rebuilt, Replayed, Failure
  <2>4. Bucket(c)' = {f \in failures' : f.code = c /\ f.known}
    BY DEF Bucket
  <2>5. ASSUME NEW f \in Bucket(c)' PROVE f \in Bucket(c) /\ f.row = "logged"
    <3>1. PICK g \in failures : f = Rebuilt(g)
      BY <2>1, <2>4
    <3>2. g \in Failure /\ f.known /\ f.code = c
      BY <2>2, <2>4, <3>1
    <3>3. g.row = "logged"
      BY <3>1, <3>2, FailureType DEF Replayed
    <3>4. f = g
      BY <2>3, <3>1, <3>3
    <3> QED
      BY <3>2, <3>3, <3>4 DEF Bucket
  <2>6. ASSUME NEW f \in Bucket(c), f.row = "logged" PROVE f \in Bucket(c)'
    <3>1. f \in failures /\ f.code = c /\ f.known /\ Rebuilt(f) = f
      BY <2>3, <2>6 DEF Bucket
    <3>2. f \in failures'
      BY <2>1, <2>6, <3>1
    <3> QED
      BY <2>4, <3>1, <3>2
  <2> QED
    BY <2>5, <2>6
<1>2. \A f \in Bucket(c) : f.row \in {"none", "logged"}
  BY DEF Bucket, TypeInv, TypeOK, Failure
<1>3. PICK f \in Bucket(c) : f.row = "none"
  <2>1. ~(Bucket(c)' = Bucket(c))
    BY DEF Open
  <2> QED
    BY <1>1, <1>2, <2>1
<1>4. Bucket(c)' = Bucket(c) \ {f}
  BY <1>1, <1>2, <1>3 DEF LogInv, Bucket
<1>5. IsFiniteSet(Bucket(c))
  BY FinitelyMany, FS_Subset DEF Bucket
<1>6. /\ Cardinality(Bucket(c)) \in Nat
      /\ Cardinality(Bucket(c)') = Cardinality(Bucket(c)) - 1
  BY <1>3, <1>4, <1>5, FS_CardinalityType, FS_RemoveElement
<1>7. Cardinality(Bucket(c)) >= Threshold /\ ~(Cardinality(Bucket(c)') >= Threshold)
  BY DEF Open
<1> QED
  BY <1>3, <1>6, <1>7, BreakerAssumption

\* Whatever failures, resets and crashes came before, a breaker that a restart of the
\* runner closes had been reset, or had one failure more than was in the log.
THEOREM RestartKeepsBreakerHolds == Spec => RestartKeepsBreaker
<1>1. Init => LogInv
  BY DEF Init, LogInv
<1>2. TypeInv /\ LogInv /\ [Next]_vars =>
        [RunnerStarts =>
           \A c \in Code : Open(c) /\ ~Open(c)' =>
             \/ \E f \in Bucket(c) : f.row = "reset"
             \/ /\ Cardinality(Bucket(c)) = Threshold
                /\ \E f \in Bucket(c) : f.row = "none"]_vars
  BY RestartTakesOne
<1> QED
  BY InitType, NextType, NextLog, <1>1, <1>2, PTL DEF Spec, RestartKeepsBreaker

\* What is open in the log is open in the runner's memory.
LEMMA LogIsKnown ==
  ASSUME TypeInv, LogInv, NEW c \in Code, OpenInLog(c)
  PROVE  Open(c)
<1> DEFINE inLog == {f \in failures : f.code = c /\ f.row = "logged"}
<1>1. inLog \subseteq Bucket(c)
  BY DEF LogInv, Bucket
<1>2. IsFiniteSet(Bucket(c))
  BY FinitelyMany, FS_Subset DEF Bucket
<1>3. /\ Cardinality(inLog) \in Nat /\ Cardinality(Bucket(c)) \in Nat
      /\ Cardinality(inLog) <= Cardinality(Bucket(c))
  BY <1>1, <1>2, FS_Subset, FS_CardinalityType
<1> QED
  BY <1>3, BreakerAssumption DEF OpenInLog, Open

\* While the log, and so status, shows an open breaker the runner dispatches nothing,
\* whatever failures, resets and crashes came before.
THEOREM OpenInLogStopsDispatchHolds == Spec => OpenInLogStopsDispatch
<1>1. Init => LogInv
  BY DEF Init, LogInv
<1>2. TypeInv /\ LogInv =>
        [(\E t \in Task : StepDispatches(t)) => \A c \in Code : ~OpenInLog(c)]_vars
  BY LogIsKnown DEF StepDispatches, AnyOpen
<1> QED
  BY InitType, NextType, NextLog, <1>1, <1>2, PTL DEF Spec, OpenInLogStopsDispatch
=============================================================================
