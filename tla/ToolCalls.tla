------------------------------ MODULE ToolCalls ------------------------------
(***************************************************************************)
(* One call of a tool, and its log (src/task_relay/runner: tool_runner,    *)
(* adapters, log_writer; src/task_relay/retention/log_retention).  The     *)
(* runner opens a log file, inserts a tool_calls row, asks the tool, with  *)
(* retries of two kinds, closes and hashes the file, and writes its path   *)
(* into the row.  The daily sweep deletes what is old, then every file     *)
(* that no row refers to, and at last every reference without a file; it   *)
(* does not know which calls are under way.                                *)
(*                                                                         *)
(* Only 30 and 180 days are told apart: a call lasts hours and a sweep     *)
(* minutes, so that no call grows old during either.                       *)
(***************************************************************************)
EXTENDS Naturals, FiniteSets

CONSTANTS
  Call,         \* call ids
  NoCall,
  MaxCrashes    \* bound on crashes of the runner and of the sweep

ASSUME ToolCallsAssumption ==
  /\ NoCall \notin Call
  /\ MaxCrashes \in Nat

VARIABLES
  started,   \* the calls there have been
  row,       \* tool_calls
  files,     \* the calls whose log file exists
  age,       \* of a call: 0, 1 from FULL_LOG_RETAIN_DAYS on, 2 from DIGEST_RETAIN_DAYS on
  runner,    \* where ToolRunner is
  sweep,     \* where LogRetention is
  overlapped, \* history: the calls that were under way during a sweep
  crashes    \* how many crashes there have been

table == <<started, row, age>>
vars == <<table, files, runner, sweep, overlapped, crashes>>

-----------------------------------------------------------------------------
Tool == {"planner", "executor", "reviewer"}

\* log_path and the rest of the log columns are set and cleared together.
Row == [is: {"absent", "begun", "ok", "failed"}, log_path: BOOLEAN]

Runner ==
  [ at: {"idle", "opened", "asking", "answered", "closed", "down"}, call: Call \cup {NoCall},
    tool: Tool,
    ok: BOOLEAN,        \* AdapterOutput.ok
    attempts: 0 .. 3,   \* attempt_count of AdapterBase.call
    timeouts: 0 .. 1,   \* attempt_count of _run_in_process_stage
    requests: Nat ]     \* history: requests of this call

Idle ==
  [at |-> "idle", call |-> NoCall, tool |-> "planner", ok |-> FALSE, attempts |-> 0,
   timeouts |-> 0, requests |-> 0]
Down == [Idle EXCEPT !.at = "down"]

Refers(c) == row[c].is # "absent" /\ row[c].log_path

Init ==
  /\ started = {}
  /\ row = [c \in Call |-> [is |-> "absent", log_path |-> FALSE]]
  /\ files = {}
  /\ age = [c \in Call |-> 0]
  /\ runner = Idle
  /\ sweep = [at |-> "no", old |-> {}, ancient |-> {}, left |-> {}]
  /\ overlapped = {}
  /\ crashes = 0

-----------------------------------------------------------------------------
(* The runner *)

\* LogWriter opens the file, ...
OpenLog(c, tool) ==
  /\ runner.at = "idle" /\ c \notin started
  /\ started' = started \cup {c}
  /\ files' = files \cup {c}
  /\ runner' = [Idle EXCEPT !.at = "opened", !.call = c, !.tool = tool]
  /\ UNCHANGED <<row, age, sweep, overlapped, crashes>>

\* ... and only then _insert_tool_call_start inserts the row.
InsertRow ==
  /\ runner.at = "opened"
  /\ row' = [row EXCEPT ![runner.call] = [is |-> "begun", log_path |-> FALSE]]
  /\ runner' = [runner EXCEPT !.at = "asking"]
  /\ UNCHANGED <<started, age, files, sweep, overlapped, crashes>>

MaxTransient == 3

MaxUnknown == 2

\* AdapterBase.call: the failure is returned at this attempt.
GivesUp(class, n) ==
  \/ class = "fatal"
  \/ class = "transient" /\ n >= MaxTransient
  \/ class = "unknown" /\ n >= MaxUnknown

TimeoutRetriedForAll(tool, n) == n >= 1

TimeoutGivesUpLate(tool, n) == tool # "reviewer" \/ n >= 2

\* decide_timeout_retry: only the reviewer supports request ids.
TimeoutGivesUp(tool, n) == tool # "reviewer" \/ n >= 1

Answered(ok) ==
  [runner EXCEPT !.at = "answered", !.ok = ok, !.requests = @ + 1]

Asks(then) ==
  /\ runner.at = "asking"
  /\ runner' = then
  /\ UNCHANGED <<table, files, sweep, overlapped, crashes>>

Respond == \E ok \in BOOLEAN : Asks(Answered(ok))

\* The executor's child is asked once: no adapter is around it.
Fail(class) ==
  /\ runner.at = "asking" /\ runner.tool # "executor"
  /\ Asks(IF GivesUp(class, runner.attempts + 1) THEN Answered(FALSE)
          ELSE [runner EXCEPT !.attempts = @ + 1, !.requests = @ + 1])

TimeOut ==
  Asks(IF TimeoutGivesUp(runner.tool, runner.timeouts) THEN Answered(FALSE)
       ELSE [runner EXCEPT !.timeouts = @ + 1, !.attempts = 0, !.requests = @ + 1])

\* _record_call_end: LogWriter.close reads the file back by its path, which raises
\* when a sweep has deleted it, ...
CloseLog ==
  /\ runner.at = "answered"
  /\ runner' = IF runner.call \in files THEN [runner EXCEPT !.at = "closed"] ELSE Down
  /\ UNCHANGED <<table, files, sweep, overlapped, crashes>>

\* ... and the row gets the path.
EndRow ==
  /\ runner.at = "closed"
  /\ row' = [row EXCEPT ![runner.call] =
               [is |-> IF runner.ok THEN "ok" ELSE "failed", log_path |-> TRUE]]
  /\ overlapped' = IF sweep.at = "no" THEN overlapped ELSE overlapped \cup {runner.call}
  /\ runner' = Idle
  /\ UNCHANGED <<started, age, files, sweep, crashes>>

Crash == crashes < MaxCrashes /\ crashes' = crashes + 1

RunnerCrashes ==
  /\ runner.at # "down" /\ Crash
  /\ runner' = Down
  /\ UNCHANGED <<table, files, sweep, overlapped>>

RunnerStarts ==
  /\ runner.at = "down"
  /\ runner' = Idle
  /\ UNCHANGED <<table, files, sweep, overlapped, crashes>>

-----------------------------------------------------------------------------
(* LogRetention.sweep *)

\* The first SELECT sorts the rows by age.
ReadRows ==
  /\ sweep.at = "no"
  /\ LET rows == {c \in Call : row[c].is # "absent"}
     IN  sweep' = [at |-> "null", left |-> {},
                   old |-> {c \in rows : age[c] = 1 /\ row[c].log_path},
                   ancient |-> {c \in rows : age[c] = 2}]
  /\ UNCHANGED <<table, files, runner, overlapped, crashes>>

Nulled(cs) == [c \in Call |-> IF c \in cs THEN [row[c] EXCEPT !.log_path = FALSE] ELSE row[c]]

NotNulled(cs) == row

\* What the first transaction makes of tool_calls.
WithoutOldPaths(cs) == Nulled(cs)

NullOld ==
  /\ sweep.at = "null"
  /\ row' = WithoutOldPaths(sweep.old)
  /\ sweep' = [sweep EXCEPT !.at = "unlink"]
  /\ UNCHANGED <<started, age, files, runner, overlapped, crashes>>

UnlinkOld ==
  /\ sweep.at = "unlink"
  /\ files' = files \ sweep.old
  /\ sweep' = [sweep EXCEPT !.at = "delete", !.old = {}]
  /\ UNCHANGED <<table, runner, overlapped, crashes>>

DeleteAncient ==
  /\ sweep.at = "delete"
  /\ row' = [c \in Call |-> IF c \in sweep.ancient
                            THEN [is |-> "absent", log_path |-> FALSE] ELSE row[c]]
  /\ sweep' = [sweep EXCEPT !.at = "refs", !.ancient = {}]
  /\ UNCHANGED <<started, age, files, runner, overlapped, crashes>>

\* referenced_existing; kept in `left` until the files are listed.
ReadReferences ==
  /\ sweep.at = "refs"
  /\ sweep' = [sweep EXCEPT !.at = "list", !.left = {c \in Call : Refers(c)}]
  /\ UNCHANGED <<table, files, runner, overlapped, crashes>>

ListFiles ==
  /\ sweep.at = "list"
  /\ sweep' = [sweep EXCEPT !.at = "orphans", !.left = files \ sweep.left]
  /\ overlapped' = overlapped \cup ({runner.call} \cap Call)
  /\ UNCHANGED <<table, files, runner, crashes>>

UnlinkOrphan(c) ==
  /\ sweep.at = "orphans" /\ c \in sweep.left
  /\ files' = files \ {c}
  /\ sweep' = [sweep EXCEPT !.left = @ \ {c}]
  /\ UNCHANGED <<table, runner, overlapped, crashes>>

NoneStale == {}

\* The last SELECT.
MaybeStale == {c \in Call : Refers(c)}

ReadPaths ==
  /\ sweep.at = "orphans" /\ sweep.left = {}
  /\ sweep' = [sweep EXCEPT !.at = "stale", !.left = MaybeStale]
  /\ UNCHANGED <<table, files, runner, overlapped, crashes>>

CheckPath(c) ==
  /\ sweep.at = "stale" /\ c \in sweep.left
  /\ row' = IF c \in files THEN row ELSE Nulled({c})
  /\ sweep' = [sweep EXCEPT !.left = @ \ {c}]
  /\ UNCHANGED <<started, age, files, runner, overlapped, crashes>>

EndSweep ==
  /\ sweep.at = "stale" /\ sweep.left = {}
  /\ sweep' = [sweep EXCEPT !.at = "no"]
  /\ UNCHANGED <<table, files, runner, overlapped, crashes>>

SweepCrashes ==
  /\ sweep.at # "no" /\ Crash
  /\ sweep' = [at |-> "no", old |-> {}, ancient |-> {}, left |-> {}]
  /\ UNCHANGED <<table, files, runner, overlapped>>

\* Another threshold passes, between calls and between sweeps.
Tick ==
  /\ runner.call = NoCall /\ sweep.at = "no"
  /\ age' = [c \in Call |-> IF c \in started /\ age[c] < 2 THEN age[c] + 1 ELSE age[c]]
  /\ UNCHANGED <<started, row, files, runner, sweep, overlapped, crashes>>

-----------------------------------------------------------------------------
RunnerStep ==
  \/ \E c \in Call, tool \in Tool : OpenLog(c, tool)
  \/ \E class \in {"fatal", "transient", "unknown"} : Fail(class)
  \/ InsertRow \/ Respond \/ TimeOut \/ CloseLog \/ EndRow \/ RunnerStarts

SweepStep ==
  \/ ReadRows \/ NullOld \/ UnlinkOld \/ DeleteAncient \/ ReadReferences \/ ListFiles
  \/ ReadPaths \/ EndSweep
  \/ \E c \in Call : UnlinkOrphan(c) \/ CheckPath(c)

Next == RunnerStep \/ RunnerCrashes \/ SweepStep \/ SweepCrashes \/ Tick

Spec == Init /\ [][Next]_vars

\* Requests time out, the runner is started again (an assumption: deploy/ has no unit
\* for it), and the timer starts a sweep every day.
FairSpec == Spec /\ WF_vars(RunnerStep) /\ WF_vars(SweepStep)
=============================================================================
