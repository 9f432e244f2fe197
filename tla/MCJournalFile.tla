---------------------------- MODULE MCJournalFile ----------------------------
EXTENDS JournalFileProps, TLC

CONSTANTS ingress, runner, gateway, loop, heartbeat, e1, e2, e3

\* The runner has two threads, the ingress process has one.
ProcessOf == (loop :> runner) @@ (heartbeat :> runner) @@ (gateway :> ingress)

Symmetry == Permutations({e1, e2, e3})
=============================================================================
