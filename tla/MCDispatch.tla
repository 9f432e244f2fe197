----------------------------- MODULE MCDispatch -----------------------------
EXTENDS DispatchProps

CONSTANTS t1, t2

OneLane == {1}

AllInLaneOne == [t \in Task |-> 1]

NoApproveRev == {}

AllOrders == {"/retry", "/retry --replan", "/cancel", "internal.system_recovered",
              "internal.reconcile_resume"}
\* The order that brings a task back to an executor that may still know it.
RetryOnly == {"/retry"}

\* The guards read only how many orders and mishaps there were, and the
\* invariants whether there were any and whether one was an /unlock.
MishapView ==
  << tables, last_token, lease, inbox, unlocking, runtime,
     suffered["order"] + suffered["unlock"] + suffered["crash"] + suffered["outage"],
     suffered["unlock"] > 0 >>

AnyMishap == {"unlock", "crash", "outage"}
NoMishap == {}

Recovery == {"internal.system_recovered"}
=============================================================================
