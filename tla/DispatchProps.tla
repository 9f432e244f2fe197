--------------------------- MODULE DispatchProps ---------------------------
(***************************************************************************)
(* What dispatch and the branch leases promise.                            *)
(***************************************************************************)
EXTENDS Dispatch

\* Every variable keeps the type of its table, key or field.
TypeOK ==
  /\ tasks \in [Task -> {r \in TaskRow : r.state \in TaskState}]
  /\ waiter \in [Task -> {"absent", "queued", "leased"}]
  /\ queue \in [Lane -> Seq(Task)]
  /\ last_token \in [Lane -> Nat]
  /\ lease \in [Lane -> Lease]
  /\ inbox \in Seq(Event \cup {Unlock(b) : b \in Lane})
  /\ unlocking \in [at: {"no", "release", "requeue"}, lane: Lane \cup {0}]
  /\ runner \in [at: At, task: Task \cup {NoTask}, token: Nat]
  /\ handle \in [Task -> Nat]
  /\ child \in Child
  /\ owed \subseteq Task
  /\ suffered \in [Kind -> Nat]

\* A lease outranks every handle left over from an earlier dispatch of its lane:
\* whatever was unlocked, expired, crashed or burnt in between, the token in
\* Redis is above every other token the runner remembers, so no stale handle
\* can pass assert_readonly or renew (fencing_token, detailed design 5.1).
LeaseOutranks ==
  \A t \in Task : Held(LaneOf[t]) /\ handle[t] # 0 =>
    \/ handle[t] < lease[LaneOf[t]].token
    \/ Holds(t, handle[t])

\* A child that has lost its lease, to /unlock or by expiry, is told to stop within
\* two renew intervals, as long as its heartbeat thread lives: no one else works
\* in the lane for longer beside it (detailed design 5.3, _heartbeat_loop).
HeartbeatFences ==
  child.alive /\ child.heart => child.lost <= MissesAllowed

\* Once a child has renewed its lease it can only lose it to /unlock, never to
\* the clock: two missed turns fit into one TTL (_heartbeat_loop, LUA_RENEW).
OnlyUnlockTakesIt ==
  child.alive /\ child.heart /\ child.kept /\ ~Holds(runner.task, child.token) =>
    suffered["unlock"] > 0

\* Left alone, no lane gets stuck: until there is a crash, an order or an /unlock,
\* a queued waiter always belongs to a task the dispatcher may take, except while
\* step is between its append and its commit (the reason dispatcher.py gives for
\* marking the waiter leased).
QueueIsLive ==
  (\A what \in Kind : suffered[what] = 0) =>
    \A t \in Task :
      waiter[t] = "queued" =>
        \/ tasks[t].state = "plan_approved"
        \/ runner.at = "recorded" /\ runner.task = t

\* The tokens of lane b that are used up: all it has drawn, but the one with which
\* step is about to ask for the lease.
Spent(b) ==
  IF runner.at = "token" /\ LaneOf[runner.task] = b THEN runner.token - 1 ELSE last_token[b]

Holder(b) == [task |-> lease[b].task, token |-> lease[b].token]

Fenced ==
  INSTANCE FencedLease WITH
    spent <- [b \in Lane |-> Spent(b)], holder <- [b \in Lane |-> Holder(b)]

\* The counter in SQLite and the key in Redis, which no transaction spans, are together
\* a lease with fencing tokens that never go back (basic design 4), whatever expires, is
\* unlocked, crashes or is refused between a draw and its use.
ImplementsFencedLease == Fenced!Spec

\* A queued task that the dispatcher cannot take stands ahead of t in its lane.
Blocked(t) ==
  LET q == queue[LaneOf[t]]
  IN  \E i, k \in DOMAIN q :
        /\ i < k /\ q[k] = t
        /\ waiter[q[i]] = "queued" /\ tasks[q[i]].state # "plan_approved"

\* An approved task that is queued is dispatched in the end, though leases are
\* never released and only run out, unless a queued task ahead of it is not
\* dispatchable: such a task stays at the head of the lane.
QueuedIsDispatched ==
  \A t \in Task :
    waiter[t] = "queued" /\ tasks[t].state = "plan_approved"
      ~> waiter[t] # "queued" \/ tasks[t].state # "plan_approved" \/ Blocked(t)
=============================================================================
