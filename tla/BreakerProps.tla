---------------------------- MODULE BreakerProps ----------------------------
(***************************************************************************)
(* What the circuit breaker and /retry-system promise.                     *)
(***************************************************************************)
EXTENDS Breaker

\* Every variable keeps its type.
TypeOK ==
  /\ tasks \in [Task -> {r \in TaskRow : r.state \in TaskState}]
  /\ waiting \subseteq Task
  /\ inbox \in Seq(Event \cup {RetrySystem})
  /\ failures \subseteq Failure
  /\ runner \in [at: {"poll", "planning", "implementing", "reviewing", "record",
                      "report", "down"}, task: Task \cup {NoTask}]
  /\ handler \in [at: {"no", "reset", "check", "recover"}, left: SUBSET Task]
  /\ crashes \in [router: Nat, runner: Nat]

\* A restart is no way around the breaker: it closes only if a reset has been logged
\* since, or at the one failure a crash can cost, whose row was not yet written (the
\* reason cli.py gives for rebuilding).
RestartKeepsBreaker ==
  [][RunnerStarts =>
       \A c \in Code : Open(c) /\ ~Open(c)' =>
         \/ \E f \in Bucket(c) : f.row = "reset"
         \/ /\ Cardinality(Bucket(c)) = Threshold
            /\ \E f \in Bucket(c) : f.row = "none"]_vars

\* Open by the log alone, which is what status reports.
OpenInLog(c) == Cardinality({f \in failures : f.code = c /\ f.row = "logged"}) >= Threshold

\* While status reports an open breaker, nothing new is dispatched: through every
\* crash, restart and reset the runner's memory never lags behind the log.
OpenInLogStopsDispatch ==
  [][(\E t \in Task : StepDispatches(t)) => \A c \in Code : ~OpenInLog(c)]_vars

\* A task for which /retry-system has a recovery to append recovers in the end,
\* whatever other failures and commands are under way, unless the Router dies first.
RetriedIsRecovered ==
  \A t \in Task :
    t \in handler.left ~> tasks[t].state # "system_degraded" \/ crashes.router > 0
=============================================================================
