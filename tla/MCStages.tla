------------------------------ MODULE MCStages ------------------------------
EXTENDS StagesProps

CONSTANT t1

\* The first revision, or the second.
TwoRevs == {1, 2}
=============================================================================
