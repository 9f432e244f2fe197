---------------------------- MODULE FencedLease -----------------------------
(***************************************************************************)
(* What branch leases promise with their fencing tokens: a lane is leased  *)
(* to one task at a time, with a token above every token it was leased     *)
(* with before, whatever is given up, lost or burnt in between.            *)
(***************************************************************************)
EXTENDS Naturals

CONSTANTS Lane, Task, NoTask

VARIABLES
  spent,    \* the greatest token of a lane that is used up, with a lease or without
  holder    \* the task a lane is leased to and its token

vars == <<spent, holder>>

Free == [task |-> NoTask, token |-> 0]

Init ==
  /\ spent = [b \in Lane |-> 0]
  /\ holder = [b \in Lane |-> Free]

Grant(b, t) ==
  /\ holder[b] = Free
  /\ spent' = [spent EXCEPT ![b] = @ + 1]
  /\ holder' = [holder EXCEPT ![b] = [task |-> t, token |-> spent'[b]]]

\* A token is drawn, and no lease taken with it.
Burn(b) ==
  /\ spent' = [spent EXCEPT ![b] = @ + 1]
  /\ UNCHANGED holder

\* Leases run out, and are taken back.
Release(lanes) ==
  /\ holder' = [b \in Lane |-> IF b \in lanes THEN Free ELSE holder[b]]
  /\ UNCHANGED spent

Next ==
  \/ \E b \in Lane : Burn(b) \/ \E t \in Task : Grant(b, t)
  \/ \E lanes \in SUBSET Lane : Release(lanes)

Spec == Init /\ [][Next]_vars
=============================================================================
