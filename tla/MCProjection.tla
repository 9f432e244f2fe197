---------------------------- MODULE MCProjection ----------------------------
EXTENDS ProjectionProps

CONSTANTS t1, w1, w2

\* A transition writes a snapshot, a label row, or both, and often an alert; here one
\* of the two, and a rebuild what is missing.  Lanes meet only in Claimable, and a
\* discord_alert lane is worked like a task_label_sync lane.
SnapshotOrLabels == { {"task_snapshot"}, {"task_label_sync"} }

\* The second event is received before the first, or after it.
EitherOrder == <<{1}, {0, 2}>>
=============================================================================
