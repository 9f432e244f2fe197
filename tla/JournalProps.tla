---------------------------- MODULE JournalProps ----------------------------
(***************************************************************************)
(* What the journal and its ingester promise.                              *)
(***************************************************************************)
EXTENDS Journal

Entry == UNION {{d} \X DOMAIN files[d] : d \in Day}

\* Every variable keeps its type.
TypeOK ==
  /\ day \in Day
  /\ files \in [Day -> Seq(Delivery)]
  /\ present \subseteq Day
  /\ writers \in [Writer -> WriterState]
  /\ acked \subseteq Delivery
  /\ refused \subseteq Delivery
  /\ inbox \in Seq(Delivery)
  /\ cursor \in Cursor
  /\ ing \in [busy: BOOLEAN, left: SUBSET Day, file: Nat, content: Seq(Delivery), pos: Nat]
  /\ replica \in [inbox: Seq(Delivery), cursor: Cursor]
  /\ faults \in Nat

\* No acknowledged event is ever lost, across crashes of either process,
\* redeliveries, midnight, retention and restores: it is in the inbox, or it is
\* in a file that still exists at a position the ingester has yet to reach.
AckedNeverLost ==
  \A x \in acked :
    \/ x \in Items(inbox)
    \/ \E en \in Entry :
         /\ files[en[1]][en[2]] = x
         /\ ~Behind(cursor, en[1], en[2])
         /\ en[1] \in present

\* The inbox holds each delivery once, and only deliveries the cursor has
\* passed: a replay after a crash or a restore neither repeats nor invents one.
InboxIsBehindCursor ==
  /\ \A i, j \in DOMAIN inbox : inbox[i] = inbox[j] => i = j
  /\ \A i \in DOMAIN inbox :
       \E en \in Entry : files[en[1]][en[2]] = inbox[i] /\ Behind(cursor, en[1], en[2])

Precedes(a, b) == a[1] < b[1] \/ (a[1] = b[1] /\ a[2] < b[2])

\* Events enter the inbox in the order in which the journal first recorded them.
InboxInJournalOrder ==
  \A i, j \in DOMAIN inbox : i < j =>
    \E a \in Entry :
      /\ files[a[1]][a[2]] = inbox[i]
      /\ \A b \in Entry : files[b[1]][b[2]] = inbox[j] => Precedes(a, b)

\* The ingester's position only moves forward, except when the database is
\* restored: a step never re-reads from an older place than it committed.
CursorAdvances ==
  [][Precedes(<<cursor'.file, cursor'.offset>>, <<cursor.file, cursor.offset>>) =>
       cursor' = replica.cursor]_vars

\* Every event that is durable in the journal reaches the inbox.
DurableReachesInbox ==
  \A x \in Delivery : x \in Durable ~> x \in Items(inbox)

Pipe == INSTANCE EventPipe WITH recorded <- Durable, inbox <- inbox

\* The journal, its ingester and the replica implement the abstract queue.
ImplementsPipe == Pipe!Spec
=============================================================================
