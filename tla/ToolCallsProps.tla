--------------------------- MODULE ToolCallsProps ---------------------------
(***************************************************************************)
(* What tool calls and the retention sweep promise each other.             *)
(***************************************************************************)
EXTENDS ToolCalls

\* Every variable keeps its type, and a log file belongs to a call.
TypeOK ==
  /\ started \subseteq Call /\ files \subseteq started
  /\ row \in [Call -> Row]
  /\ age \in [Call -> 0 .. 2]
  /\ runner \in Runner
  /\ sweep \in [at: {"no", "null", "unlink", "delete", "refs", "list", "orphans", "stale"},
                old: SUBSET Call, ancient: SUBSET Call, left: SUBSET Call]
  /\ overlapped \subseteq Call
  /\ crashes \in 0 .. MaxCrashes

\* The two retry loops multiply to no more than this: a timeout starts the reviewer's
\* attempts afresh, once; the planner is never asked again after a timeout, and the
\* executor, which changes the worktree, is never asked again at all
\* (adapters.base.AdapterBase.call inside tool_runner._run_in_process_stage).
RequestsBounded ==
  runner.call # NoCall =>
    runner.requests <= CASE runner.tool = "reviewer" -> 6
                         [] runner.tool = "planner"  -> 3
                         [] OTHER                    -> 1

\* A row points at a missing file only if its call was under way during a sweep:
\* whatever else the sweep deletes, and wherever it or the runner dies, the reference
\* goes first (log_retention.sweep, tool_runner._record_call_end).
DanglingOnlyByOverlap ==
  \A c \in Call : Refers(c) /\ c \notin files => c \in overlapped

\* Every log and its row come together again and again: what a crash or an
\* overlapping sweep leaves behind, a file that no row knows or a row whose file is
\* gone, the next sweeps clear (log_retention.sweep).
LogsSettle == \A c \in Call : []<>(c \in files <=> Refers(c))
=============================================================================
