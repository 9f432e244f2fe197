------------------------------ MODULE MCRouter ------------------------------
EXTENDS RouterProps

CONSTANT t1

\* /approve with no plan_rev, and with each revision the bound allows.
AnyApproveRev == 0 .. MaxPlans

\* No guard reads state_rev or the outbox, and later label rows always have a
\* later state_rev: states that agree on the rest and on the projected labels
\* have the same futures.
TruthView ==
  << [t \in Task |-> [tasks[t] EXCEPT !.state_rev = 0]], plans, inbox, sighted,
     [t \in Task |-> ProjectedLabels(t)] >>
=============================================================================
