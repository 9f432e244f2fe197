----------------------------- MODULE EventPipe ------------------------------
(***************************************************************************)
(* What the journal and its ingester promise together: a queue in which    *)
(* whatever was recorded is delivered, once, whatever is redelivered by    *)
(* the senders; restoring the database from its replica takes back a tail  *)
(* of the deliveries, which are then made again.                           *)
(***************************************************************************)
EXTENDS Naturals, Sequences

CONSTANT Delivery   \* delivery ids, unique per source

VARIABLES
  recorded,   \* deliveries that are durable in the journal
  inbox       \* deliveries in event_inbox, in the order of insertion

vars == <<recorded, inbox>>

Delivered == {inbox[i] : i \in DOMAIN inbox}

Init == recorded = {} /\ inbox = << >>

Record(x) ==
  /\ recorded' = recorded \cup {x}
  /\ UNCHANGED inbox

Deliver(x) ==
  /\ x \in recorded \ Delivered
  /\ inbox' = Append(inbox, x)
  /\ UNCHANGED recorded

Rewind(n) ==
  /\ inbox' = SubSeq(inbox, 1, n)
  /\ UNCHANGED recorded

Next ==
  \/ \E x \in Delivery : Record(x) \/ Deliver(x)
  \/ \E n \in 0 .. Len(inbox) : Rewind(n)

Spec == Init /\ [][Next]_vars
=============================================================================
