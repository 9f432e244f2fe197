--------------------------- MODULE ToolCallsProofs ---------------------------
(***************************************************************************)
(* Proofs about tool calls and the retention sweep, for every set of calls *)
(* and every number of crashes.                                            *)
(***************************************************************************)
EXTENDS ToolCallsProps, TLAPS

\* Where the two processes are determines what they hold.
Shape ==
  /\ runner.at \in {"idle", "down"} <=> runner.call = NoCall
  /\ runner.call # NoCall => runner.call \in started

TypeInv == TypeOK /\ Shape

-----------------------------------------------------------------------------
(* Types *)

\* Rows that forget their paths are rows.
LEMMA NulledType ==
  ASSUME row \in [Call -> Row], NEW cs
  PROVE  Nulled(cs) \in [Call -> Row]
<1> SUFFICES ASSUME NEW c \in Call
             PROVE  (IF c \in cs THEN [row[c] EXCEPT !.log_path = FALSE] ELSE row[c]) \in Row
  BY DEF Nulled
<1>1. row[c] \in Row
  OBVIOUS
<1>2. [row[c] EXCEPT !.log_path = FALSE] \in Row
  BY <1>1 DEF Row
<1> QED
  BY <1>1, <1>2

\* A runner that is idle or down has no call.
LEMMA IdleType ==
  /\ Idle \in Runner /\ Idle.at = "idle" /\ Idle.call = NoCall
  /\ Down \in Runner /\ Down.at = "down" /\ Down.call = NoCall
<1>1. Idle \in Runner /\ Idle.at = "idle" /\ Idle.call = NoCall
  BY DEF Idle, Runner, Tool
<1> QED
  BY <1>1 DEF Down, Runner

LEMMA InitType == Init => TypeInv
<1> SUFFICES ASSUME Init PROVE TypeInv
  OBVIOUS
<1>1. runner \in Runner
  BY IdleType DEF Init
<1>2. row \in [Call -> Row]
  BY DEF Init, Row
<1> QED
  BY <1>1, <1>2, ToolCallsAssumption DEF Init, TypeInv, TypeOK, Shape, Idle

\* One request more, or one retry more, leaves the runner in its type.
LEMMA AskedType ==
  ASSUME runner \in Runner, runner.call # NoCall
  PROVE  /\ \A ok \in BOOLEAN : Answered(ok) \in Runner /\ Answered(ok).call = runner.call
                                /\ Answered(ok).at = "answered"
         /\ \A class \in {"fatal", "transient", "unknown"} :
              ~GivesUp(class, runner.attempts + 1) =>
                [runner EXCEPT !.attempts = @ + 1, !.requests = @ + 1] \in Runner
         /\ ~TimeoutGivesUp(runner.tool, runner.timeouts) =>
              [runner EXCEPT !.timeouts = @ + 1, !.attempts = 0, !.requests = @ + 1] \in Runner
<1>1. ASSUME NEW ok \in BOOLEAN
      PROVE  Answered(ok) \in Runner /\ Answered(ok).call = runner.call
             /\ Answered(ok).at = "answered"
  <2>1. runner.requests + 1 \in Nat
    BY DEF Runner
  <2> QED
    BY <2>1 DEF Answered, Runner
<1>2. ASSUME NEW class \in {"fatal", "transient", "unknown"},
             ~GivesUp(class, runner.attempts + 1)
      PROVE  [runner EXCEPT !.attempts = @ + 1, !.requests = @ + 1] \in Runner
  <2>1. runner.attempts + 1 \in 0 .. 3 /\ runner.requests + 1 \in Nat
    BY <1>2 DEF GivesUp, MaxTransient, MaxUnknown, Runner
  <2> QED
    BY <2>1 DEF Runner
<1>3. ASSUME ~TimeoutGivesUp(runner.tool, runner.timeouts)
      PROVE  [runner EXCEPT !.timeouts = @ + 1, !.attempts = 0, !.requests = @ + 1] \in Runner
  <2>1. runner.timeouts + 1 \in 0 .. 1 /\ runner.requests + 1 \in Nat /\ 0 \in 0 .. 3
    BY <1>3 DEF TimeoutGivesUp, Runner
  <2> QED
    BY <2>1 DEF Runner
<1> QED
  BY <1>1, <1>2, <1>3

LEMMA NextType == TypeInv /\ [Next]_vars => TypeInv'
<1> SUFFICES ASSUME TypeInv, [Next]_vars PROVE TypeInv'
  OBVIOUS
<1> USE ToolCallsAssumption
<1>a. /\ started \subseteq Call /\ files \subseteq started
      /\ row \in [Call -> Row] /\ age \in [Call -> 0 .. 2]
      /\ runner \in Runner /\ overlapped \subseteq Call /\ crashes \in 0 .. MaxCrashes
      /\ sweep \in [at: {"no", "null", "unlink", "delete", "refs", "list", "orphans", "stale"},
                    old: SUBSET Call, ancient: SUBSET Call, left: SUBSET Call]
      /\ Shape
  BY DEF TypeInv, TypeOK
<1>b. ASSUME UNCHANGED <<table, files, sweep, overlapped>>, crashes' \in 0 .. MaxCrashes,
             runner' \in Runner, runner'.at \in {"idle", "down"} <=> runner'.call = NoCall,
             runner'.call # NoCall => runner'.call = runner.call
      PROVE  TypeInv'
  BY <1>a, <1>b DEF TypeInv, TypeOK, Shape, table
<1>c. ASSUME UNCHANGED <<started, age, runner>>, crashes' \in 0 .. MaxCrashes,
             files' \subseteq files, row' \in [Call -> Row], overlapped' \subseteq Call,
             sweep' \in [at: {"no", "null", "unlink", "delete", "refs", "list", "orphans",
                              "stale"}, old: SUBSET Call, ancient: SUBSET Call, left: SUBSET Call]
      PROVE  TypeInv'
  BY <1>a, <1>c DEF TypeInv, TypeOK, Shape
<1>1. ASSUME NEW c \in Call, NEW tool \in Tool, OpenLog(c, tool) PROVE TypeInv'
  <2>1. [Idle EXCEPT !.at = "opened", !.call = c, !.tool = tool] \in Runner
    BY IdleType DEF Runner
  <2>2. runner'.at = "opened" /\ runner'.call = c
    BY <1>1, IdleType DEF OpenLog, Runner
  <2> QED
    BY <1>1, <1>a, <2>1, <2>2 DEF OpenLog, TypeInv, TypeOK, Shape
<1>2. CASE InsertRow
  <2>1. [runner EXCEPT !.at = "asking"] \in Runner
    BY <1>a DEF Runner
  <2>2. runner.call # NoCall /\ runner'.at = "asking" /\ runner'.call = runner.call
    BY <1>2, <1>a DEF InsertRow, Shape, Runner
  <2>3. row' \in [Call -> Row]
    BY <1>2, <1>a DEF InsertRow, Row
  <2> QED
    BY <1>2, <1>a, <2>1, <2>2, <2>3 DEF InsertRow, TypeInv, TypeOK, Shape
<1>3. ASSUME NEW class \in {"fatal", "transient", "unknown"}, Fail(class) PROVE TypeInv'
  <2>1. runner.call # NoCall /\ runner.at = "asking"
    BY <1>3, <1>a DEF Fail, Shape
  <2>2. runner' \in Runner
    BY <1>3, <1>a, <2>1, AskedType DEF Fail, Asks
  <2>3. runner'.call = runner.call /\ runner'.at \in {"asking", "answered"}
    BY <1>3, <1>a, <2>1, AskedType DEF Fail, Asks, Runner
  <2> QED
    BY <1>3, <1>a, <1>b, <2>1, <2>2, <2>3 DEF Fail, Asks
<1>4. CASE Respond
  <2>1. runner.call # NoCall /\ runner.at = "asking"
    BY <1>4, <1>a DEF Respond, Asks, Shape
  <2>2. runner' \in Runner /\ runner'.call = runner.call /\ runner'.at = "answered"
    BY <1>4, <1>a, <2>1, AskedType DEF Respond, Asks
  <2> QED
    BY <1>4, <1>a, <1>b, <2>1, <2>2 DEF Respond, Asks
<1>5. CASE TimeOut
  <2>1. runner.call # NoCall /\ runner.at = "asking"
    BY <1>5, <1>a DEF TimeOut, Asks, Shape
  <2>2. runner' \in Runner
    BY <1>5, <1>a, <2>1, AskedType DEF TimeOut, Asks
  <2>3. runner'.call = runner.call /\ runner'.at \in {"asking", "answered"}
    BY <1>5, <1>a, <2>1, AskedType DEF TimeOut, Asks, Runner
  <2> QED
    BY <1>5, <1>a, <1>b, <2>1, <2>2, <2>3 DEF TimeOut, Asks
<1>6. CASE CloseLog
  <2>1. [runner EXCEPT !.at = "closed"] \in Runner
    BY <1>a DEF Runner
  <2>2. runner.call # NoCall
    BY <1>6, <1>a DEF CloseLog, Shape
  <2>3. \/ runner' = Down
        \/ runner' = [runner EXCEPT !.at = "closed"]
    BY <1>6 DEF CloseLog
  <2>4. \/ runner' \in Runner /\ runner'.at = "down" /\ runner'.call = NoCall
        \/ runner' \in Runner /\ runner'.at = "closed" /\ runner'.call = runner.call
    BY <1>a, <2>1, <2>3, IdleType DEF Runner
  <2> QED
    BY <1>6, <1>a, <1>b, <2>2, <2>4 DEF CloseLog
<1>7. CASE EndRow
  <2>1. row' \in [Call -> Row]
    BY <1>7, <1>a DEF EndRow, Row
  <2>2. runner' \in Runner /\ runner'.at = "idle" /\ runner'.call = NoCall
    BY <1>7, IdleType DEF EndRow
  <2>3. runner.call \in Call
    BY <1>7, <1>a DEF EndRow, Shape, Runner
  <2> QED
    BY <1>7, <1>a, <2>1, <2>2, <2>3 DEF EndRow, TypeInv, TypeOK, Shape
<1>8. CASE RunnerStarts
  BY <1>8, <1>a, <1>b, IdleType DEF RunnerStarts
<1>9. CASE RunnerCrashes
  <2>1. crashes' \in 0 .. MaxCrashes
    BY <1>9, <1>a DEF RunnerCrashes, Crash
  <2> QED
    BY <1>9, <1>a, <1>b, <2>1, IdleType DEF RunnerCrashes
<1>10. CASE ReadRows
  BY <1>10, <1>a, <1>c DEF ReadRows, table
<1>11. CASE NullOld
  <2>1. row' \in [Call -> Row]
    BY <1>11, <1>a, NulledType DEF NullOld, WithoutOldPaths
  <2> QED
    BY <1>11, <1>a, <1>c, <2>1 DEF NullOld
<1>12. CASE UnlinkOld
  BY <1>12, <1>a, <1>c DEF UnlinkOld, table
<1>13. CASE DeleteAncient
  <2>1. row' \in [Call -> Row]
    BY <1>13, <1>a DEF DeleteAncient, Row
  <2> QED
    BY <1>13, <1>a, <1>c, <2>1 DEF DeleteAncient
<1>14. CASE ReadReferences
  BY <1>14, <1>a, <1>c DEF ReadReferences, table
<1>15. CASE ListFiles
  BY <1>15, <1>a, <1>c DEF ListFiles, table
<1>16. ASSUME NEW c \in Call, UnlinkOrphan(c) PROVE TypeInv'
  BY <1>16, <1>a, <1>c DEF UnlinkOrphan, table
<1>17. CASE ReadPaths
  BY <1>17, <1>a, <1>c DEF ReadPaths, MaybeStale, table
<1>18. ASSUME NEW c \in Call, CheckPath(c) PROVE TypeInv'
  <2>1. row' \in [Call -> Row]
    <3>1. Nulled({c}) \in [Call -> Row]
      BY <1>a, NulledType
    <3> QED
      BY <1>18, <1>a, <3>1 DEF CheckPath
  <2> QED
    BY <1>18, <1>a, <1>c, <2>1 DEF CheckPath
<1>19. CASE EndSweep
  BY <1>19, <1>a, <1>c DEF EndSweep, table
<1>20. CASE SweepCrashes
  <2>1. crashes' \in 0 .. MaxCrashes
    BY <1>20, <1>a DEF SweepCrashes, Crash
  <2> QED
    BY <1>20, <1>a, <1>c, <2>1 DEF SweepCrashes, table
<1>21. CASE Tick
  <2>1. age' \in [Call -> 0 .. 2]
    BY <1>21, <1>a DEF Tick
  <2> QED
    BY <1>21, <1>a, <2>1 DEF Tick, TypeInv, TypeOK, Shape
<1>22. CASE UNCHANGED vars
  BY <1>22, <1>a DEF vars, table, TypeInv, TypeOK, Shape
<1> QED
  BY <1>1, <1>2, <1>3, <1>4, <1>5, <1>6, <1>7, <1>8, <1>9, <1>10, <1>11, <1>12, <1>13,
     <1>14, <1>15, <1>16, <1>17, <1>18, <1>19, <1>20, <1>21, <1>22
  DEF Next, RunnerStep, SweepStep

\* Every variable keeps its type.
THEOREM TypeCorrect == Spec => []TypeOK
<1>1. Init => TypeInv
  BY InitType
<1>2. TypeInv /\ [Next]_vars => TypeInv'
  BY NextType
<1>3. TypeInv => TypeOK
  BY DEF TypeInv
<1> QED
  BY <1>1, <1>2, <1>3, PTL DEF Spec

-----------------------------------------------------------------------------
(* The two retry loops *)

\* What has been asked so far, by the counters of the two loops.
CountInv ==
  runner.call # NoCall =>
    /\ runner.at = "opened" =>
         runner.requests = 0 /\ runner.attempts = 0 /\ runner.timeouts = 0
    /\ runner.at = "asking" =>
         /\ runner.requests <= 3 * runner.timeouts + runner.attempts
         /\ runner.attempts <= 2
         /\ runner.tool # "reviewer" => runner.timeouts = 0
         /\ runner.tool = "executor" => runner.attempts = 0
    /\ RequestsBounded

LEMMA CountNext == TypeInv /\ CountInv /\ [Next]_vars => CountInv'
<1> SUFFICES ASSUME TypeInv, CountInv, [Next]_vars PROVE CountInv'
  OBVIOUS
<1>a. runner \in Runner /\ (runner.at \in {"idle", "down"} <=> runner.call = NoCall)
  BY DEF TypeInv, TypeOK, Shape
<1>b. /\ runner.at \in {"idle", "opened", "asking", "answered", "closed", "down"}
      /\ runner.tool \in Tool
      /\ runner.attempts \in 0 .. 3 /\ runner.timeouts \in 0 .. 1 /\ runner.requests \in Nat
  BY <1>a DEF Runner
<1>c. ASSUME UNCHANGED runner PROVE CountInv'
  BY <1>c DEF CountInv, RequestsBounded
<1>d. ASSUME runner' \in {Idle, Down} PROVE CountInv'
  BY <1>d, IdleType DEF CountInv, RequestsBounded
<1>1. ASSUME NEW c \in Call, NEW tool \in Tool, OpenLog(c, tool) PROVE CountInv'
  <2>1. /\ runner'.requests = 0 /\ runner'.attempts = 0 /\ runner'.timeouts = 0
        /\ runner'.at = "opened"
    BY <1>1 DEF OpenLog, Idle
  <2> QED
    BY <2>1 DEF CountInv, RequestsBounded
<1>2. CASE InsertRow
  <2>1. runner.call # NoCall
    BY <1>2, <1>a DEF InsertRow
  <2>2. runner' = [runner EXCEPT !.at = "asking"]
    BY <1>2 DEF InsertRow
  <2> QED
    BY <1>2, <1>a, <1>b, <2>1, <2>2 DEF InsertRow, CountInv, RequestsBounded, Runner
<1>e. ASSUME runner.at = "asking" PROVE
        /\ runner.call # NoCall
        /\ runner.requests <= 3 * runner.timeouts + runner.attempts
        /\ runner.attempts <= 2
        /\ runner.tool # "reviewer" => runner.timeouts = 0
        /\ runner.tool = "executor" => runner.attempts = 0
  BY <1>e, <1>a DEF CountInv
<1>f. ASSUME NEW ok \in BOOLEAN, runner.at = "asking", runner' = Answered(ok) PROVE CountInv'
  <2>1. /\ runner'.at = "answered" /\ runner'.tool = runner.tool
        /\ runner'.requests = runner.requests + 1
    BY <1>f, <1>a DEF Answered, Runner
  <2>2. CASE runner.tool = "reviewer"
    BY <1>b, <1>e, <1>f, <2>1, <2>2 DEF CountInv, RequestsBounded
  <2>3. CASE runner.tool = "planner"
    BY <1>b, <1>e, <1>f, <2>1, <2>3 DEF CountInv, RequestsBounded
  <2>4. CASE runner.tool = "executor"
    BY <1>b, <1>e, <1>f, <2>1, <2>4 DEF CountInv, RequestsBounded
  <2> QED
    BY <1>b, <2>2, <2>3, <2>4 DEF Tool
<1>g. ASSUME NEW a, NEW n, runner'.at = "asking", runner'.tool = runner.tool,
             runner'.requests = runner.requests + 1, runner'.attempts = a, runner'.timeouts = n,
             runner.requests + 1 <= 3 * n + a, a \in 0 .. 2, n \in 0 .. 1,
             runner.tool # "reviewer" => n = 0, runner.tool = "executor" => a = 0
      PROVE  CountInv'
  <2>1. CASE runner.tool = "reviewer"
    BY <1>b, <1>g, <2>1 DEF CountInv, RequestsBounded
  <2>2. CASE runner.tool = "planner"
    BY <1>b, <1>g, <2>2 DEF CountInv, RequestsBounded
  <2>3. CASE runner.tool = "executor"
    BY <1>b, <1>g, <2>3 DEF CountInv, RequestsBounded
  <2> QED
    BY <1>b, <2>1, <2>2, <2>3 DEF Tool
<1>3. ASSUME NEW class \in {"fatal", "transient", "unknown"}, Fail(class) PROVE CountInv'
  <2>1. runner.at = "asking" /\ runner.tool # "executor"
    BY <1>3 DEF Fail
  <2>2. CASE GivesUp(class, runner.attempts + 1)
    BY <1>3, <1>f, <2>1, <2>2 DEF Fail, Asks
  <2>3. CASE ~GivesUp(class, runner.attempts + 1)
    <3>1. runner' = [runner EXCEPT !.attempts = @ + 1, !.requests = @ + 1]
      BY <1>3, <2>3 DEF Fail, Asks
    <3>2. /\ runner'.at = "asking" /\ runner'.tool = runner.tool
          /\ runner'.requests = runner.requests + 1
          /\ runner'.attempts = runner.attempts + 1 /\ runner'.timeouts = runner.timeouts
      BY <3>1, <1>a, <2>1 DEF Runner
    <3>3. runner.attempts + 1 \in 0 .. 2
      BY <2>3, <1>b DEF GivesUp, MaxTransient, MaxUnknown
    <3> QED
      BY <1>b, <1>e, <1>g, <2>1, <3>2, <3>3
  <2> QED
    BY <2>2, <2>3
<1>4. CASE Respond
  BY <1>4, <1>f DEF Respond, Asks
<1>5. CASE TimeOut
  <2>1. runner.at = "asking"
    BY <1>5 DEF TimeOut, Asks
  <2>2. CASE TimeoutGivesUp(runner.tool, runner.timeouts)
    BY <1>5, <1>f, <2>1, <2>2 DEF TimeOut, Asks
  <2>3. CASE ~TimeoutGivesUp(runner.tool, runner.timeouts)
    <3>1. runner' = [runner EXCEPT !.timeouts = @ + 1, !.attempts = 0, !.requests = @ + 1]
      BY <1>5, <2>3 DEF TimeOut, Asks
    <3>2. runner.tool = "reviewer" /\ runner.timeouts = 0
      BY <2>3, <1>b DEF TimeoutGivesUp
    <3>3. /\ runner'.at = "asking" /\ runner'.tool = runner.tool
          /\ runner'.requests = runner.requests + 1
          /\ runner'.attempts = 0 /\ runner'.timeouts = 1
      BY <3>1, <3>2, <1>a, <2>1 DEF Runner
    <3>4. runner.requests + 1 <= 3 * 1 + 0
      BY <1>b, <1>e, <2>1, <3>2
    <3> QED
      BY <1>g, <3>2, <3>3, <3>4
  <2> QED
    BY <2>2, <2>3
<1>6. CASE CloseLog
  <2>1. CASE runner.call \notin files
    BY <1>6, <1>d, <2>1 DEF CloseLog
  <2>2. CASE runner.call \in files
    <3>1. runner.call # NoCall /\ runner' = [runner EXCEPT !.at = "closed"]
      BY <1>6, <1>a, <2>2 DEF CloseLog
    <3> QED
      BY <3>1, <1>a DEF CountInv, RequestsBounded, Runner
  <2> QED
    BY <2>1, <2>2
<1>7. CASE EndRow \/ RunnerStarts \/ RunnerCrashes
  BY <1>7, <1>d DEF EndRow, RunnerStarts, RunnerCrashes
<1>8. CASE SweepStep \/ SweepCrashes \/ Tick \/ UNCHANGED vars
  BY <1>8, <1>c DEF SweepStep, ReadRows, NullOld, UnlinkOld, DeleteAncient, ReadReferences,
     ListFiles, UnlinkOrphan, ReadPaths, CheckPath, EndSweep, SweepCrashes, Tick, vars
<1> QED
  BY <1>1, <1>2, <1>3, <1>4, <1>5, <1>6, <1>7, <1>8 DEF Next, RunnerStep

\* The retries of the two loops multiply to six requests at most, and the executor is
\* asked once (AdapterBase.call, decide_timeout_retry).
THEOREM RequestsBoundedHolds == Spec => []RequestsBounded
<1>1. Init => TypeInv /\ CountInv
  BY InitType DEF Init, Idle, CountInv
<1>2. TypeInv /\ CountInv /\ [Next]_vars => TypeInv' /\ CountInv'
  BY NextType, CountNext
<1>3. CountInv => RequestsBounded
  BY DEF CountInv, RequestsBounded
<1> QED
  BY <1>1, <1>2, <1>3, PTL DEF Spec

-----------------------------------------------------------------------------
(* Rows and files *)

\* A log is referred to from the end of its call on.
LateReferences ==
  \A c \in Call : Refers(c) => c \in started /\ c # runner.call

\* The old calls have ended; once their references are gone they stay away.
OldAreOver ==
  /\ sweep.at \in {"null", "unlink"} =>
       runner.call \notin sweep.old /\ sweep.old \subseteq started
  /\ sweep.at = "unlink" => \A c \in sweep.old : ~Refers(c)

\* What the sweep takes for an orphan is one, or was under way.
OrphansOrOverlapped ==
  /\ sweep.at = "list" => \A c \in Call \ sweep.left : Refers(c) => c \in overlapped
  /\ sweep.at = "orphans" =>
       \A c \in sweep.left :
         c \in started /\ (Refers(c) \/ c = runner.call => c \in overlapped)

\* A file that goes after it was closed went in a sweep that the call overlapped.
ClosedInv ==
  runner.at = "closed" /\ runner.call \notin files => runner.call \in overlapped

FileInv ==
  LateReferences /\ OldAreOver /\ OrphansOrOverlapped /\ ClosedInv /\ DanglingOnlyByOverlap

LEMMA FileInit == Init => FileInv
  BY ToolCallsAssumption
  DEF Init, Idle, FileInv, LateReferences, OldAreOver, OrphansOrOverlapped, ClosedInv,
      DanglingOnlyByOverlap, Refers

\* Forgetting paths makes no reference.
LEMMA NulledRefers ==
  ASSUME row \in [Call -> Row], NEW cs, row' = Nulled(cs)
  PROVE  \A c \in Call : Refers(c)' => Refers(c) /\ c \notin cs
<1> SUFFICES ASSUME NEW c \in Call, Refers(c)' PROVE Refers(c) /\ c \notin cs
  OBVIOUS
<1>1. row'[c] = IF c \in cs THEN [row[c] EXCEPT !.log_path = FALSE] ELSE row[c]
  BY DEF Nulled
<1>2. CASE c \in cs
  <2>1. row[c] \in Row
    OBVIOUS
  <2>2. row'[c].log_path = FALSE
    BY <1>1, <1>2, <2>1 DEF Row
  <2> QED
    BY <2>2 DEF Refers
<1> QED
  BY <1>1, <1>2 DEF Refers

LEMMA FileNext == TypeInv /\ FileInv /\ [Next]_vars => FileInv'
<1> SUFFICES ASSUME TypeInv, FileInv, [Next]_vars PROVE FileInv'
  OBVIOUS
<1> USE ToolCallsAssumption
<1>a. /\ started \subseteq Call /\ files \subseteq started /\ row \in [Call -> Row]
      /\ runner \in Runner /\ overlapped \subseteq Call
      /\ sweep \in [at: {"no", "null", "unlink", "delete", "refs", "list", "orphans", "stale"},
                    old: SUBSET Call, ancient: SUBSET Call, left: SUBSET Call]
      /\ runner.at \in {"idle", "down"} <=> runner.call = NoCall
      /\ runner.call # NoCall => runner.call \in started
  BY DEF TypeInv, TypeOK, Shape
<1> USE DEF FileInv, LateReferences, OldAreOver, OrphansOrOverlapped, ClosedInv,
            DanglingOnlyByOverlap
\* The runner goes on with its call, or to no call.
<1>b. ASSUME UNCHANGED <<started, row, files, sweep, overlapped>>,
             \/ runner'.call = NoCall /\ runner'.at # "closed"
             \/ /\ runner'.call = runner.call
                /\ runner'.at = "closed" => runner.at = "closed" \/ runner.call \in files
      PROVE  FileInv'
  BY <1>a, <1>b DEF Refers
\* The sweep goes on and only takes references away.
<1>c. ASSUME UNCHANGED <<started, runner>>, overlapped \subseteq overlapped',
             \A c \in Call : Refers(c)' => Refers(c)
      PROVE  LateReferences'
  BY <1>a, <1>c
<1>d. ASSUME UNCHANGED <<started, runner, files>>, overlapped \subseteq overlapped',
             \A c \in Call : Refers(c)' => Refers(c)
      PROVE  LateReferences' /\ ClosedInv' /\ DanglingOnlyByOverlap'
  BY <1>a, <1>d
<1>1. ASSUME NEW c \in Call, NEW tool \in Tool, OpenLog(c, tool) PROVE FileInv'
  <2>1. /\ runner'.call = c /\ runner'.at = "opened" /\ c \notin started
        /\ started' = started \cup {c} /\ files' = files \cup {c}
        /\ UNCHANGED <<row, sweep, overlapped>>
    BY <1>1, IdleType DEF OpenLog, Runner
  <2>2. \A x \in Call : Refers(x)' <=> Refers(x)
    BY <2>1 DEF Refers
  <2> QED
    BY <1>a, <2>1, <2>2
<1>2. CASE InsertRow
  <2>1. /\ runner.call \in Call /\ runner'.call = runner.call /\ runner'.at = "asking"
        /\ UNCHANGED <<started, files, sweep, overlapped>>
    BY <1>2, <1>a DEF InsertRow, Runner
  <2>2. \A x \in Call : Refers(x)' => Refers(x) /\ x # runner.call
    BY <1>2, <1>a DEF InsertRow, Refers, Row
  <2> QED
    BY <1>a, <2>1, <2>2
<1>3. ASSUME NEW class \in {"fatal", "transient", "unknown"}, Fail(class) PROVE FileInv'
  <2>1. runner.call # NoCall
    BY <1>3, <1>a DEF Fail
  <2>2. runner'.call = runner.call /\ runner'.at \in {"asking", "answered"}
    BY <1>3, <1>a, <2>1, AskedType DEF Fail, Asks, Runner
  <2> QED
    BY <1>3, <1>b, <2>2 DEF Fail, Asks, table
<1>4. CASE Respond
  <2>1. runner.call # NoCall
    BY <1>4, <1>a DEF Respond, Asks
  <2>2. runner'.call = runner.call /\ runner'.at = "answered"
    BY <1>4, <1>a, <2>1, AskedType DEF Respond, Asks
  <2> QED
    BY <1>4, <1>b, <2>2 DEF Respond, Asks, table
<1>5. CASE TimeOut
  <2>1. runner.call # NoCall
    BY <1>5, <1>a DEF TimeOut, Asks
  <2>2. runner'.call = runner.call /\ runner'.at \in {"asking", "answered"}
    BY <1>5, <1>a, <2>1, AskedType DEF TimeOut, Asks, Runner
  <2> QED
    BY <1>5, <1>b, <2>2 DEF TimeOut, Asks, table
<1>6. CASE CloseLog
  <2>1. \/ runner'.call = NoCall /\ runner'.at = "down"
        \/ runner'.call = runner.call /\ runner'.at = "closed" /\ runner.call \in files
    BY <1>6, <1>a, IdleType DEF CloseLog, Runner
  <2> QED
    BY <1>6, <1>b, <2>1 DEF CloseLog, table
<1>7. CASE EndRow
  <2> DEFINE r == runner.call
  <2>1. /\ r \in Call /\ r \in started /\ runner.at = "closed"
        /\ UNCHANGED <<started, files, sweep>>
        /\ runner'.call = NoCall /\ runner'.at = "idle"
        /\ overlapped \subseteq overlapped'
        /\ sweep.at # "no" => r \in overlapped'
    BY <1>7, <1>a, IdleType DEF EndRow, Runner
  <2>2. \A x \in Call : Refers(x)' => Refers(x) \/ x = r
    BY <1>7, <1>a DEF EndRow, Refers
  <2> QED
    BY <1>a, <2>1, <2>2
<1>8. CASE RunnerStarts \/ RunnerCrashes
  <2>1. runner'.call = NoCall /\ runner'.at \in {"idle", "down"}
    BY <1>8, IdleType DEF RunnerStarts, RunnerCrashes
  <2> QED
    BY <1>8, <1>b, <2>1 DEF RunnerStarts, RunnerCrashes, table
<1>9. CASE ReadRows
  <2>1. /\ UNCHANGED <<started, row, files, runner, overlapped>> /\ sweep'.at = "null"
        /\ \A c \in sweep'.old : c \in Call /\ Refers(c)
    BY <1>9 DEF ReadRows, table, Refers
  <2>2. \A c \in Call : Refers(c)' <=> Refers(c)
    BY <2>1 DEF Refers
  <2> QED
    BY <1>a, <2>1, <2>2
<1>10. CASE NullOld
  <2>1. /\ UNCHANGED <<started, files, runner, overlapped>>
        /\ sweep.at = "null" /\ sweep'.at = "unlink" /\ sweep'.old = sweep.old
        /\ row' = Nulled(sweep.old)
    BY <1>10, <1>a DEF NullOld, WithoutOldPaths
  <2>2. \A c \in Call : Refers(c)' => Refers(c) /\ c \notin sweep.old
    BY <1>a, <2>1, NulledRefers
  <2> QED
    BY <1>a, <1>d, <2>1, <2>2
<1>11. CASE UnlinkOld
  <2>1. /\ UNCHANGED <<started, row, runner, overlapped>> /\ files' = files \ sweep.old
        /\ sweep.at = "unlink" /\ sweep'.at = "delete"
    BY <1>11, <1>a DEF UnlinkOld, table
  <2>2. \A c \in Call : Refers(c)' <=> Refers(c)
    BY <2>1 DEF Refers
  <2> QED
    BY <1>a, <2>1, <2>2
<1>12. CASE DeleteAncient
  <2>1. UNCHANGED <<started, files, runner, overlapped>> /\ sweep'.at = "refs"
    BY <1>12, <1>a DEF DeleteAncient
  <2>2. \A c \in Call : Refers(c)' => Refers(c)
    BY <1>12, <1>a DEF DeleteAncient, Refers
  <2> QED
    BY <1>a, <1>d, <2>1, <2>2
<1>13. CASE ReadReferences
  <2>1. /\ UNCHANGED <<started, row, files, runner, overlapped>> /\ sweep'.at = "list"
        /\ sweep'.left = {c \in Call : Refers(c)}
    BY <1>13, <1>a DEF ReadReferences, table
  <2>2. \A c \in Call : Refers(c)' <=> Refers(c)
    BY <2>1 DEF Refers
  <2> QED
    BY <1>a, <1>d, <2>1, <2>2
<1>14. CASE ListFiles
  <2>1. /\ UNCHANGED <<started, row, files, runner>>
        /\ sweep.at = "list" /\ sweep'.at = "orphans" /\ sweep'.left = files \ sweep.left
        /\ overlapped' = overlapped \cup ({runner.call} \cap Call)
    BY <1>14, <1>a DEF ListFiles, table
  <2>2. \A c \in Call : Refers(c)' <=> Refers(c)
    BY <2>1 DEF Refers
  <2> QED
    BY <1>a, <1>d, <2>1, <2>2
<1>15. ASSUME NEW c \in Call, UnlinkOrphan(c) PROVE FileInv'
  <2>1. /\ UNCHANGED <<started, row, runner, overlapped>> /\ files' = files \ {c}
        /\ sweep.at = "orphans" /\ sweep'.at = "orphans"
        /\ sweep'.left = sweep.left \ {c} /\ c \in sweep.left
    BY <1>15, <1>a DEF UnlinkOrphan, table
  <2>2. \A x \in Call : Refers(x)' <=> Refers(x)
    BY <2>1 DEF Refers
  <2>3. DanglingOnlyByOverlap' /\ ClosedInv'
    BY <1>a, <2>1, <2>2
  <2> QED
    BY <1>a, <1>c, <2>1, <2>2, <2>3
<1>16. CASE ReadPaths \/ EndSweep \/ SweepCrashes
  <2>1. /\ UNCHANGED <<started, row, files, runner, overlapped>>
        /\ sweep'.at \in {"stale", "no"}
    <3>1. CASE ReadPaths
      BY <3>1, <1>a DEF ReadPaths, MaybeStale, table
    <3>2. CASE EndSweep
      BY <3>2, <1>a DEF EndSweep, table
    <3>3. CASE SweepCrashes
      BY <3>3 DEF SweepCrashes, table
    <3> QED
      BY <1>16, <3>1, <3>2, <3>3
  <2>2. \A c \in Call : Refers(c)' <=> Refers(c)
    BY <2>1 DEF Refers
  <2> QED
    BY <1>a, <1>d, <2>1, <2>2
<1>17. ASSUME NEW c \in Call, CheckPath(c) PROVE FileInv'
  <2>1. /\ UNCHANGED <<started, files, runner, overlapped>>
        /\ sweep.at = "stale" /\ sweep'.at = sweep.at
    BY <1>17, <1>a DEF CheckPath
  <2>2. \A x \in Call : Refers(x)' => Refers(x)
    <3>1. CASE c \in files
      BY <1>17, <3>1 DEF CheckPath, Refers
    <3>2. CASE c \notin files
      BY <1>17, <1>a, <3>2, NulledRefers DEF CheckPath
    <3> QED
      BY <3>1, <3>2
  <2> QED
    BY <1>a, <1>d, <2>1, <2>2
<1>18. CASE Tick \/ UNCHANGED vars
  <2>1. UNCHANGED <<started, row, files, sweep, overlapped, runner>>
    BY <1>18 DEF Tick, vars, table
  <2> QED
    BY <1>b, <2>1
<1> QED
  BY <1>1, <1>2, <1>3, <1>4, <1>5, <1>6, <1>7, <1>8, <1>9, <1>10, <1>11, <1>12, <1>13,
     <1>14, <1>15, <1>16, <1>17, <1>18 DEF Next, RunnerStep, SweepStep

\* A reference outlives its file only when the call overlapped a sweep: the sweep
\* forgets a path before it deletes, and what it takes for an orphan was under way.
THEOREM DanglingOnlyByOverlapHolds == Spec => []DanglingOnlyByOverlap
<1>1. Init => TypeInv /\ FileInv
  BY InitType, FileInit
<1>2. TypeInv /\ FileInv /\ [Next]_vars => TypeInv' /\ FileInv'
  BY NextType, FileNext
<1>3. FileInv => DanglingOnlyByOverlap
  BY DEF FileInv
<1> QED
  BY <1>1, <1>2, <1>3, PTL DEF Spec
=============================================================================
