--------------------------- MODULE JournalProofs ----------------------------
(***************************************************************************)
(* Proofs about the journal for any writers, deliveries and bounds: types; *)
(* that the journal with its ingester and replica implements EventPipe,    *)
(* whether or not writers straddle midnight; that the inbox is what lies   *)
(* behind the cursor, which only moves forward; and, where no append       *)
(* straddles midnight, that nothing acknowledged is lost and events enter  *)
(* the inbox in journal order.                                             *)
(***************************************************************************)
EXTENDS JournalProps, SequenceTheorems, WellFoundedInduction, TLAPS

\* A writer that has opened a file holds a delivery.
HoldsWhenOpen ==
  \A w \in Writer : writers[w].stage # "idle" => writers[w].held \in Delivery

\* What the ingester has in memory was read from the journal, and the
\* replica's inbox is a beginning of the database's.
Provenance ==
  /\ Items(ing.content) \subseteq Durable
  /\ Len(replica.inbox) <= Len(inbox)
  /\ replica.inbox = SubSeq(inbox, 1, Len(replica.inbox))

Inv == TypeOK /\ HoldsWhenOpen /\ Provenance

IngesterState ==
  [busy: BOOLEAN, left: SUBSET Day, file: Nat, content: Seq(Delivery), pos: Nat]

-----------------------------------------------------------------------------
(* Types *)

LEMMA IdleTypes ==
  /\ IdleWriter \in WriterState
  /\ IdleIngester \in IngesterState
  /\ [file |-> NoFile, offset |-> 0] \in Cursor
<1>1. << >> \in Seq(Delivery) /\ NoFile \in Nat
  BY EmptySeq DEF NoFile
<1> QED
  BY <1>1 DEF IdleWriter, WriterState, IdleIngester, IngesterState, Cursor

LEMMA InitInv == Init => Inv
<1> SUFFICES ASSUME Init PROVE Inv
  OBVIOUS
<1>1. << >> \in Seq(Delivery) /\ 1 \in Day
  BY JournalAssumption, EmptySeq DEF Day
<1>2. replica \in [inbox: Seq(Delivery), cursor: Cursor]
  BY <1>1, IdleTypes DEF Init
<1>3. TypeOK
  BY <1>1, <1>2, IdleTypes DEF Init, TypeOK, IngesterState
<1>4. HoldsWhenOpen
  BY DEF Init, HoldsWhenOpen, IdleWriter
<1>5. Items(ing.content) = {}
  BY DEF Init, IdleIngester, Items
<1>6. /\ Len(replica.inbox) <= Len(inbox)
      /\ replica.inbox = SubSeq(inbox, 1, Len(replica.inbox))
  <2>1. replica.inbox = << >> /\ inbox = << >>
    BY DEF Init
  <2>2. SubSeq(<< >>, 1, 0) = << >> /\ Len(<< >>) = 0
    OBVIOUS
  <2> QED
    BY <2>1, <2>2
<1> QED
  BY <1>3, <1>4, <1>5, <1>6 DEF Inv, Provenance

\* A writer's step that leaves the files alone keeps the invariant, if the
\* state it gives the writer is sound.
LEMMA WriterOnly ==
  ASSUME Inv, NEW w \in Writer, NEW s \in WriterState,
         s.stage # "idle" => s.held \in Delivery,
         writers' = [writers EXCEPT ![w] = s],
         acked' \subseteq Delivery, refused' \subseteq Delivery, present' \subseteq Day,
         faults' \in Nat,
         UNCHANGED <<day, files, inbox, cursor, ing, replica>>
  PROVE  Inv'
<1>1. TypeOK'
  BY DEF Inv, TypeOK
<1>2. HoldsWhenOpen'
  BY DEF Inv, TypeOK, HoldsWhenOpen
<1>3. Provenance'
  BY DEF Inv, Provenance, Durable
<1> QED
  BY <1>1, <1>2, <1>3 DEF Inv

LEMMA WriterInv ==
  ASSUME Inv, NEW w \in Writer, WriterStep(w)
  PROVE  Inv'
<1> USE DEF journalVars, databaseVars
<1> DEFINE s == writers[w]
<1>0. /\ s \in WriterState
      /\ s.queue \in Seq(Delivery)
      /\ s.held \in Delivery \cup {None}
      /\ s.heldDay \in Nat
      /\ s.stage \in {"idle", "opened", "written"}
      /\ s.stage # "idle" => s.held \in Delivery
  BY DEF Inv, TypeOK, WriterState, HoldsWhenOpen
<1>a. /\ acked \subseteq Delivery /\ refused \subseteq Delivery /\ present \subseteq Day
      /\ faults \in Nat /\ day \in Day
  BY DEF Inv, TypeOK
<1>b. Released(w) \in WriterState /\ Released(w).stage = "idle"
  BY <1>0 DEF Released, IdleWriter, WriterState, NoFile
<1>1. ASSUME NEW x \in Delivery, Submit(w, x) PROVE Inv'
  <2>1. Append(s.queue, x) \in Seq(Delivery)
    BY <1>0, AppendProperties
  <2>2. CASE writers' = [writers EXCEPT ![w].queue = Append(@, x)] /\ UNCHANGED refused
    <3> DEFINE n == [s EXCEPT !.queue = Append(s.queue, x)]
    <3>1. n \in WriterState /\ n.stage = s.stage /\ n.held = s.held
      BY <1>0, <2>1 DEF WriterState
    <3>2. writers' = [writers EXCEPT ![w] = n]
      BY <2>2
    <3> HIDE DEF n
    <3> QED
      BY <1>0, <1>1, <1>a, <2>2, <3>1, <3>2, WriterOnly DEF Submit
  <2>3. CASE refused' = refused \cup {x} /\ UNCHANGED writers
    <3>1. writers' = [writers EXCEPT ![w] = s]
      BY <2>3 DEF Inv, TypeOK
    <3> QED
      BY <1>0, <1>1, <1>a, <2>3, <3>1, WriterOnly DEF Submit
  <2> QED
    BY <1>1, <2>2, <2>3 DEF Submit
<1>2. CASE Open(w)
  <2> DEFINE n == [queue |-> Tail(s.queue), held |-> Head(s.queue), heldDay |-> day,
                   stage |-> "opened"]
  <2>1. Tail(s.queue) \in Seq(Delivery) /\ Head(s.queue) \in Delivery
    BY <1>0, <1>2, HeadTailProperties DEF Open
  <2>2. n \in WriterState /\ n.held \in Delivery
    BY <1>a, <2>1 DEF WriterState, Day
  <2>3. writers' = [writers EXCEPT ![w] = n]
    BY <1>2 DEF Open
  <2>4. present' \subseteq Day
    BY <1>2, <1>a DEF Open
  <2> HIDE DEF n
  <2> QED
    BY <1>2, <1>a, <2>2, <2>3, <2>4, WriterOnly DEF Open
<1>3. CASE Write(w)
  <2> DEFINE n == [s EXCEPT !.stage = "written"]
  <2>1. s.held \in Delivery
    BY <1>0, <1>3 DEF Write
  <2>2. n \in WriterState /\ n.held = s.held
    BY <1>0 DEF WriterState
  <2>3. writers' = [writers EXCEPT ![w] = n]
    BY <1>3 DEF Write
  <2>4. /\ files' \in [Day -> Seq(Delivery)]
        /\ \A d \in Day : Items(files[d]) \subseteq Items(files'[d])
    <3>1. files' = [files EXCEPT ![s.heldDay] = Append(files[s.heldDay], s.held)]
      BY <1>3 DEF Write
    <3>2. ASSUME NEW d \in Day
          PROVE  files'[d] \in Seq(Delivery) /\ Items(files[d]) \subseteq Items(files'[d])
      <4>1. files[d] \in Seq(Delivery)
        BY DEF Inv, TypeOK
      <4>2. CASE d = s.heldDay
        <5>1. files'[d] = Append(files[d], s.held)
          BY <3>1, <4>2 DEF Inv, TypeOK
        <5>2. /\ files'[d] \in Seq(Delivery)
              /\ DOMAIN files[d] \subseteq DOMAIN files'[d]
              /\ \A i \in DOMAIN files[d] : files'[d][i] = files[d][i]
          BY <2>1, <4>1, <5>1, AppendProperties, LenProperties
        <5> QED
          BY <5>2 DEF Items
      <4>3. CASE d # s.heldDay
        BY <3>1, <4>1, <4>3 DEF Inv, TypeOK
      <4> QED
        BY <4>2, <4>3
    <3>3. DOMAIN files' = Day /\ files' = [d \in Day |-> files'[d]]
      BY <3>1 DEF Inv, TypeOK
    <3> QED
      BY <3>2, <3>3
  <2>5. Durable \subseteq Durable'
    BY <2>4 DEF Durable
  <2>6. TypeOK'
    BY <1>3, <2>2, <2>3, <2>4 DEF Inv, TypeOK, Write
  <2>7. HoldsWhenOpen'
    BY <1>3, <2>1, <2>2, <2>3 DEF Inv, TypeOK, HoldsWhenOpen
  <2>8. Provenance'
    BY <1>3, <2>5 DEF Inv, Provenance, Write
  <2> QED
    BY <2>6, <2>7, <2>8 DEF Inv
<1>4. CASE Answer(w) \/ AppendFails(w) \/ TimeoutWritten(w)
  <2>1. s.held \in Delivery
    BY <1>0, <1>4 DEF Answer, AppendFails, TimeoutWritten
  <2>2. writers' = [writers EXCEPT ![w] = Released(w)]
    BY <1>4 DEF Answer, AppendFails, TimeoutWritten
  <2>3. /\ acked' \subseteq Delivery /\ refused' \subseteq Delivery
        /\ UNCHANGED <<day, files, present, inbox, cursor, ing, replica, faults>>
    BY <1>4, <1>a, <2>1 DEF Answer, AppendFails, TimeoutWritten
  <2>4. present' \subseteq Day /\ faults' \in Nat
    BY <1>a, <2>3
  <2> DEFINE n == Released(w)
  <2>5. n \in WriterState /\ (n.stage # "idle" => n.held \in Delivery)
    BY <1>b
  <2> HIDE DEF n
  <2>6. writers' = [writers EXCEPT ![w] = n]
    BY <2>2 DEF n
  <2>7. UNCHANGED <<day, files, inbox, cursor, ing, replica>>
    BY <2>3
  <2>8. acked' \subseteq Delivery /\ refused' \subseteq Delivery
    BY <2>3
  <2> QED
    BY <2>4, <2>5, <2>6, <2>7, <2>8, WriterOnly
<1>5. ASSUME NEW i \in DOMAIN writers[w].queue, TimeoutQueued(w, i) PROVE Inv'
  <2> DEFINE q == SubSeq(s.queue, 1, i - 1) \o SubSeq(s.queue, i + 1, Len(s.queue))
             n == [s EXCEPT !.queue = q]
  <2>1. i \in 1 .. Len(s.queue) /\ s.queue[i] \in Delivery /\ Len(s.queue) \in Nat
    BY <1>0, LenProperties, ElementOfSeq
  <2>2. q \in Seq(Delivery)
    BY <1>0, <2>1
  <2> HIDE DEF q
  <2>3. n \in WriterState /\ n.stage = s.stage /\ n.held = s.held
    BY <1>0, <2>2 DEF WriterState
  <2>4. writers' = [writers EXCEPT ![w] = n]
    BY <1>5 DEF TimeoutQueued, q
  <2>5. refused' \subseteq Delivery
    BY <1>5, <1>a, <2>1 DEF TimeoutQueued
  <2> HIDE DEF n
  <2> QED
    BY <1>0, <1>5, <1>a, <2>3, <2>4, <2>5, WriterOnly DEF TimeoutQueued
<1>6. CASE CrashWriter(w)
  <2> DEFINE n == IdleWriter
  <2>1. n \in WriterState /\ n.stage = "idle"
    BY IdleTypes DEF IdleWriter
  <2>2. writers' = [writers EXCEPT ![w] = n]
    BY <1>6 DEF CrashWriter
  <2>3. /\ UNCHANGED <<day, files, inbox, cursor, ing, replica>>
        /\ acked' \subseteq Delivery /\ refused' \subseteq Delivery /\ present' \subseteq Day
        /\ faults' \in Nat
    BY <1>6, <1>a DEF CrashWriter
  <2> HIDE DEF n
  <2> QED
    BY <2>1, <2>2, <2>3, WriterOnly
<1> QED
  BY <1>1, <1>2, <1>3, <1>4, <1>5, <1>6 DEF WriterStep

LEMMA DatabaseInv ==
  ASSUME Inv, \/ IngesterStep \/ CrashIngester
              \/ Tick \/ Sweep \/ Replicate \/ Restore
  PROVE  Inv'
<1> USE DEF journalVars, databaseVars
<1>0. /\ ing \in IngesterState /\ cursor \in Cursor
      /\ inbox \in Seq(Delivery) /\ replica \in [inbox: Seq(Delivery), cursor: Cursor]
      /\ present \subseteq Day /\ faults \in Nat
  BY DEF Inv, TypeOK, IngesterState
<1>a. /\ IdleIngester \in IngesterState
      /\ Items(IdleIngester.content) = {}
  BY IdleTypes DEF IdleIngester, Items
<1>1. CASE StartStep
  <2>1. ing' \in IngesterState /\ Items(ing'.content) = {}
    BY <1>0, <1>1, <1>a DEF StartStep, IngesterState, IdleIngester
  <2> QED
    BY <1>1, <2>1 DEF StartStep, Inv, TypeOK, IngesterState, HoldsWhenOpen, Provenance, Durable
<1>2. CASE ReadFile
  <2>1. ing' \in IngesterState /\ Items(ing'.content) \subseteq Durable
    <3>1. CASE ing' = IdleIngester
      BY <1>a, <3>1
    <3>2. CASE ing.left # {} /\ OpenListed(ing.left) /\ ing' # IdleIngester
      <4> DEFINE d == CHOOSE x \in ing.left : \A y \in ing.left : x <= y
      <4>1. d \in Day
        BY <1>0, <3>2 DEF OpenListed
      <4>2. ing' = [busy |-> TRUE, left |-> ing.left \ {d}, file |-> d, content |-> files[d],
                    pos |-> StartOffset(d)]
        BY <3>2 DEF OpenListed
      <4> HIDE DEF d
      <4>3. files[d] \in Seq(Delivery) /\ Items(files[d]) \subseteq Durable
        BY <4>1 DEF Inv, TypeOK, Durable
      <4>4. StartOffset(d) \in Nat
        BY <1>0 DEF StartOffset, Cursor
      <4>5. d \in Nat /\ ing.left \in SUBSET Day
        BY <1>0, <4>1 DEF Day, IngesterState
      <4> QED
        BY <4>2, <4>3, <4>4, <4>5 DEF IngesterState
    <3> QED
      BY <1>2, <3>1, <3>2 DEF ReadFile
  <2> QED
    BY <1>2, <2>1 DEF ReadFile, Inv, TypeOK, IngesterState, HoldsWhenOpen, Provenance, Durable
<1>3. CASE IngestOne
  <2> DEFINE x == ing.content[ing.pos + 1]
  <2>1. x \in Delivery
    BY <1>0, <1>3, ElementOfSeq, LenProperties DEF IngestOne, IngesterState
  <2>2. inbox' = inbox \/ inbox' = Append(inbox, x)
    BY <1>3 DEF IngestOne, Inserted
  <2>3. inbox' \in Seq(Delivery)
    BY <1>0, <2>1, <2>2, AppendProperties
  <2>4. cursor' \in Cursor /\ ing' \in IngesterState /\ ing'.content = ing.content
    <3>1. /\ cursor' = [file |-> ing.file, offset |-> ing.pos + 1]
          /\ ing' = [ing EXCEPT !.pos = ing.pos + 1]
      BY <1>3 DEF IngestOne
    <3>2. ing.file \in Nat /\ ing.pos + 1 \in Nat
      BY <1>0 DEF IngesterState
    <3>3. cursor' \in Cursor
      BY <3>1, <3>2 DEF Cursor
    <3>4. ing' \in IngesterState /\ ing'.content = ing.content
      BY <1>0, <3>1, <3>2 DEF IngesterState
    <3> QED
      BY <3>3, <3>4
  <2>5. /\ Len(replica.inbox) <= Len(inbox')
        /\ replica.inbox = SubSeq(inbox', 1, Len(replica.inbox))
    <3>1. replica.inbox = SubSeq(inbox, 1, Len(replica.inbox)) /\ Len(replica.inbox) <= Len(inbox)
      BY DEF Inv, Provenance
    <3>2. CASE inbox' = Append(inbox, x)
      <4>1. Len(replica.inbox) \in Nat /\ Len(inbox) \in Nat /\ Len(inbox') = Len(inbox) + 1
        BY <1>0, <2>1, <3>2, AppendProperties, LenProperties
      <4>2. SubSeq(Append(inbox, x), 1, Len(replica.inbox)) = SubSeq(inbox, 1, Len(replica.inbox))
        BY <1>0, <2>1, <3>1, <4>1
      <4> QED
        BY <3>1, <3>2, <4>1, <4>2
    <3> QED
      BY <2>2, <3>1, <3>2
  <2>6. TypeOK'
    BY <1>3, <2>3, <2>4 DEF IngestOne, Inv, TypeOK, IngesterState
  <2>7. HoldsWhenOpen' /\ Items(ing'.content) \subseteq Durable'
    BY <1>3, <2>4 DEF IngestOne, Inv, HoldsWhenOpen, Provenance, Durable
  <2>8. replica' = replica
    BY <1>3 DEF IngestOne
  <2> QED
    BY <2>5, <2>6, <2>7, <2>8 DEF Inv, Provenance
<1>4. CASE CrashIngester
  BY <1>0, <1>4, <1>a DEF CrashIngester, Inv, TypeOK, IngesterState, HoldsWhenOpen, Provenance,
     Durable
<1>5. CASE Tick
  <2>1. day' \in Day
    BY <1>5, JournalAssumption DEF Tick, Inv, TypeOK, Day
  <2> QED
    BY <1>5, <2>1 DEF Tick, Inv, TypeOK, HoldsWhenOpen, Provenance, Durable
<1>6. CASE Sweep
  BY <1>0, <1>6 DEF Sweep, Inv, TypeOK, HoldsWhenOpen, Provenance, Durable
<1>7. CASE Replicate
  <2>1. replica'.inbox = inbox /\ replica' \in [inbox: Seq(Delivery), cursor: Cursor]
    BY <1>0, <1>7 DEF Replicate
  <2>2. Len(inbox) <= Len(inbox) /\ inbox = SubSeq(inbox, 1, Len(inbox))
    BY <1>0, SubSeqFull, LenProperties
  <2> QED
    BY <1>7, <2>1, <2>2 DEF Replicate, Inv, TypeOK, HoldsWhenOpen, Provenance, Durable
<1>8. CASE Restore
  <2>1. inbox' = replica.inbox /\ inbox' \in Seq(Delivery) /\ cursor' \in Cursor
    BY <1>0, <1>8 DEF Restore
  <2>2. Len(inbox') <= Len(inbox') /\ inbox' = SubSeq(inbox', 1, Len(inbox'))
    BY <2>1, SubSeqFull, LenProperties
  <2>3. TypeOK'
    BY <1>0, <1>8, <1>a, <2>1 DEF Restore, Inv, TypeOK, IngesterState
  <2>4. HoldsWhenOpen' /\ Items(ing'.content) \subseteq Durable'
    BY <1>8, <1>a DEF Restore, Inv, HoldsWhenOpen
  <2>5. replica' = replica
    BY <1>8 DEF Restore
  <2> QED
    BY <2>1, <2>2, <2>3, <2>4, <2>5 DEF Inv, Provenance
<1> QED
  BY <1>1, <1>2, <1>3, <1>4, <1>5, <1>6, <1>7, <1>8 DEF IngesterStep

LEMMA NextInv == Inv /\ [Next]_vars => Inv'
<1> SUFFICES ASSUME Inv, [Next]_vars PROVE Inv'
  OBVIOUS
<1>1. ASSUME NEW w \in Writer, WriterStep(w) PROVE Inv'
  BY <1>1, WriterInv
<1>2. CASE IngesterStep \/ CrashIngester \/ Tick \/ Sweep \/ Replicate \/ Restore
  BY <1>2, DatabaseInv
<1>3. CASE UNCHANGED vars
  BY <1>3 DEF vars, Inv, TypeOK, HoldsWhenOpen, Provenance, Durable
<1> QED
  BY <1>1, <1>2, <1>3 DEF Next

LEMMA SpecInv == Spec => []Inv
BY InitInv, NextInv, PTL DEF Spec

-----------------------------------------------------------------------------
(* Theorems *)

\* Every variable keeps its type, for any processes, deliveries and bounds.
THEOREM TypeCorrect == Spec => []TypeOK
<1>1. Inv => TypeOK
  BY DEF Inv
<1> QED
  BY <1>1, SpecInv, PTL

\* A step of the journal records at most one delivery, delivers what was
\* recorded and not yet delivered, or takes back a tail of the deliveries.
LEMMA StepRefines ==
  ASSUME Inv, Next
  PROVE  Pipe!Next \/ UNCHANGED <<Durable, inbox>>
<1> USE DEF journalVars, databaseVars
<1>1. CASE \E w \in Writer : Write(w)
  <2>1. PICK w \in Writer : Write(w)
    BY <1>1
  <2> DEFINE x == writers[w].held
             h == writers[w].heldDay
  <2>2. x \in Delivery
    BY <2>1 DEF Write, Inv, HoldsWhenOpen
  <2>3. files' = [files EXCEPT ![h] = Append(files[h], x)] /\ inbox' = inbox
    BY <2>1 DEF Write
  <2>4. ASSUME NEW d \in Day
        PROVE  Items(files'[d]) = IF d = h THEN Items(files[d]) \cup {x} ELSE Items(files[d])
    <3>1. files[d] \in Seq(Delivery)
      BY DEF Inv, TypeOK
    <3>2. CASE d = h
      <4>1. files'[d] = Append(files[d], x)
        BY <2>3, <3>2 DEF Inv, TypeOK
      <4>2. /\ Append(files[d], x) \in Seq(Delivery)
            /\ Len(Append(files[d], x)) = Len(files[d]) + 1
            /\ \A i \in 1 .. Len(files[d]) : Append(files[d], x)[i] = files[d][i]
            /\ Append(files[d], x)[Len(files[d]) + 1] = x
        BY <2>2, <3>1, AppendProperties
      <4>3. /\ DOMAIN files[d] = 1 .. Len(files[d]) /\ Len(files[d]) \in Nat
            /\ DOMAIN Append(files[d], x) = 1 .. Len(files[d]) + 1
        BY <3>1, <4>2, LenProperties
      <4> HIDE DEF x
      <4>4. Items(Append(files[d], x)) = Items(files[d]) \cup {x}
        BY <4>2, <4>3 DEF Items
      <4> QED
        BY <3>2, <4>1, <4>4
    <3>3. CASE d # h
      BY <2>3, <3>3 DEF Inv, TypeOK
    <3> QED
      BY <3>2, <3>3
  <2>5. CASE h \in Day
    <3>1. Durable' = Durable \cup {x}
      BY <2>4, <2>5 DEF Durable
    <3> QED
      BY <2>2, <2>3, <3>1 DEF Pipe!Next, Pipe!Record
  <2>6. CASE h \notin Day
    BY <2>3, <2>4, <2>6 DEF Durable
  <2> QED
    BY <2>5, <2>6
<1>2. CASE IngestOne
  <2> DEFINE x == ing.content[ing.pos + 1]
  <2>1. x \in Items(ing.content) /\ x \in Delivery
    <3>1. ing \in IngesterState
      BY DEF Inv, TypeOK, IngesterState
    <3>2. ing.pos + 1 \in 1 .. Len(ing.content) /\ ing.content \in Seq(Delivery)
      BY <1>2, <3>1, LenProperties DEF IngestOne, IngesterState
    <3> QED
      BY <3>2, ElementOfSeq, LenProperties DEF Items
  <2>2. x \in Durable
    BY <2>1 DEF Inv, Provenance
  <2>3. files' = files /\ inbox' = Inserted(inbox, x)
    BY <1>2 DEF IngestOne
  <2>4. CASE x \in Items(inbox)
    BY <2>3, <2>4 DEF Inserted, Durable
  <2>5. CASE x \notin Items(inbox)
    BY <2>1, <2>2, <2>3, <2>5 DEF Inserted, Items, Durable, Pipe!Next, Pipe!Deliver, Pipe!Delivered
  <2> QED
    BY <2>4, <2>5
<1>3. CASE Restore
  <2>1. inbox' = SubSeq(inbox, 1, Len(replica.inbox)) /\ files' = files
    BY <1>3 DEF Restore, Inv, Provenance
  <2>2. Len(replica.inbox) \in 0 .. Len(inbox)
    BY LenProperties DEF Inv, TypeOK, Provenance
  <2>3. Durable' = Durable
    BY <2>1 DEF Durable
  <2> QED
    BY <2>1, <2>2, <2>3 DEF Pipe!Next, Pipe!Rewind
<1>4. CASE files' = files /\ inbox' = inbox
  BY <1>4 DEF Durable
<1> QED
  BY <1>1, <1>2, <1>3, <1>4 DEF Next, WriterStep, IngesterStep, Submit, Open, Answer,
     AppendFails, TimeoutQueued, TimeoutWritten, CrashWriter, StartStep, ReadFile,
     CrashIngester, Tick, Sweep, Replicate

\* The journal, its ingester and the replica implement the abstract queue.
THEOREM JournalImplementsPipe == Spec => ImplementsPipe
<1>1. Init => Pipe!Init
  <2>1. ASSUME Init PROVE Durable = {} /\ inbox = << >>
    BY <2>1 DEF Init, Durable, Items
  <2> QED
    BY <2>1 DEF Pipe!Init
<1>2. Inv /\ [Next]_vars => [Pipe!Next]_Pipe!vars
  <2>1. ASSUME Inv, Next PROVE [Pipe!Next]_Pipe!vars
    BY <2>1, StepRefines DEF Pipe!vars
  <2>2. ASSUME UNCHANGED vars PROVE [Pipe!Next]_Pipe!vars
    BY <2>2 DEF vars, Pipe!vars, Durable
  <2> QED
    BY <2>1, <2>2
<1> QED
  BY <1>1, <1>2, SpecInv, PTL DEF Spec, Pipe!Spec, ImplementsPipe

-----------------------------------------------------------------------------
(* What the journal delivers *)

Begins(s, t) == Len(s) <= Len(t) /\ \A i \in DOMAIN s : s[i] = t[i]

\* What the ingester has read begins its file, its position is not behind the
\* cursor, and the files it has still to read come later.
ReadAhead ==
  /\ ing.content # << >> => ing.file \in Day /\ Begins(ing.content, files[ing.file])
  /\ ing.file # NoFile =>
       cursor.file < ing.file \/ (cursor.file = ing.file /\ cursor.offset <= ing.pos)
  /\ \A d \in ing.left : ing.file < d /\ cursor.file <= d

\* Every delivery of q has an entry behind c.
Sourced(q, c) ==
  \A n \in DOMAIN q : \E d \in Day : \E i \in DOMAIN files[d] :
    files[d][i] = q[n] /\ Behind(c, d, i)

\* Nothing behind c is ahead of b.
NoLater(c, b) == \A d \in Day, i \in Nat : Behind(c, d, i) => Behind(b, d, i)

Distinct(q) == \A i, j \in DOMAIN q : q[i] = q[j] => i = j

OrderInv ==
  /\ ReadAhead
  /\ Sourced(inbox, cursor) /\ Sourced(replica.inbox, replica.cursor)
  /\ Distinct(inbox)

-----------------------------------------------------------------------------
(* The steps *)

\* A set of days that is not empty has a first one.
LEMMA First ==
  ASSUME NEW T, T \subseteq Nat, T # {}
  PROVE  \E x \in T : \A y \in T : x <= y
<1> DEFINE R == OpToRel(<, Nat)
<1>1. IsWellFoundedOn(R, Nat)
  BY NatLessThanWellFounded
<1>2. \A x, y \in Nat : x < y => <<x, y>> \in R
  BY DEF OpToRel
<1> HIDE DEF R
<1>3. PICK x \in T : \A y \in T : ~ (<<y, x>> \in R)
  BY <1>1, WFMin
<1>4. ASSUME NEW y \in T PROVE x <= y
  <2>1. x \in Nat /\ y \in Nat
    OBVIOUS
  <2>2. ~ (y < x)
    BY <1>2, <1>3, <2>1
  <2> QED
    BY <2>1, <2>2
<1> QED
  BY <1>4

\* The files keep what they have.
Grows ==
  \A d \in Day :
    /\ Len(files'[d]) \in Nat /\ Len(files[d]) <= Len(files'[d])
    /\ \A i \in DOMAIN files[d] : i \in DOMAIN files'[d] /\ files'[d][i] = files[d][i]

\* What Inv says of the ingester, the cursors and the files.
LEMMA Parts ==
  ASSUME Inv
  PROVE  /\ ing \in IngesterState
         /\ ing.left \subseteq Day /\ ing.file \in Nat /\ ing.pos \in Nat
         /\ ing.content \in Seq(Delivery)
         /\ cursor.file \in Nat /\ cursor.offset \in Nat
         /\ replica.cursor.file \in Nat /\ replica.cursor.offset \in Nat
         /\ inbox \in Seq(Delivery) /\ replica.inbox \in Seq(Delivery)
         /\ \A d \in Day : files[d] \in Seq(Delivery) /\ Len(files[d]) \in Nat
                           /\ DOMAIN files[d] = 1 .. Len(files[d])
         /\ day \in Day /\ present \subseteq Day
<1>1. ing \in IngesterState
  BY DEF Inv, TypeOK, IngesterState
<1>2. /\ ing.left \subseteq Day /\ ing.file \in Nat /\ ing.pos \in Nat
      /\ ing.content \in Seq(Delivery)
  BY <1>1 DEF IngesterState
<1>3. cursor.file \in Nat /\ cursor.offset \in Nat
  BY DEF Inv, TypeOK, Cursor
<1>4. /\ replica.cursor.file \in Nat /\ replica.cursor.offset \in Nat
      /\ inbox \in Seq(Delivery) /\ replica.inbox \in Seq(Delivery)
  BY DEF Inv, TypeOK, Cursor
<1>5. ASSUME NEW d \in Day
      PROVE  files[d] \in Seq(Delivery) /\ Len(files[d]) \in Nat
             /\ DOMAIN files[d] = 1 .. Len(files[d])
  <2>1. files[d] \in Seq(Delivery)
    BY DEF Inv, TypeOK
  <2> QED
    BY <2>1, LenProperties
<1>6. day \in Day /\ present \subseteq Day
  BY DEF Inv, TypeOK
<1> QED
  BY <1>1, <1>2, <1>3, <1>4, <1>5, <1>6

\* Opening the next listed file: the step ends, or the file is read whole.
LEMMA OpenFacts ==
  ASSUME Inv, ReadFile
  PROVE  \/ ing' = IdleIngester
         \/ \E d \in ing.left :
              /\ d \in Day /\ d \in present /\ \A y \in ing.left : d <= y
              /\ ing' = [busy |-> TRUE, left |-> ing.left \ {d}, file |-> d,
                         content |-> files[d], pos |-> StartOffset(d)]
<1> SUFFICES ASSUME ing.left # {}, OpenListed(ing.left), ing' # IdleIngester
             PROVE  \E d \in ing.left :
                      /\ d \in Day /\ d \in present /\ \A y \in ing.left : d <= y
                      /\ ing' = [busy |-> TRUE, left |-> ing.left \ {d}, file |-> d,
                                 content |-> files[d], pos |-> StartOffset(d)]
  BY DEF ReadFile
<1> DEFINE d == CHOOSE x \in ing.left : \A y \in ing.left : x <= y
<1>1. ing.left \subseteq Day /\ Day \subseteq Nat
  BY Parts DEF Day
<1>2. \E x \in ing.left : \A y \in ing.left : x <= y
  BY <1>1, First
<1>3. d \in ing.left /\ \A y \in ing.left : d <= y
  BY <1>2
<1>4. /\ d \in present
      /\ ing' = [busy |-> TRUE, left |-> ing.left \ {d}, file |-> d, content |-> files[d],
                 pos |-> StartOffset(d)]
  BY DEF OpenListed
<1> HIDE DEF d
<1> QED
  BY <1>1, <1>3, <1>4

\* A write adds one entry at the end of one file.
LEMMA WriteGrows ==
  ASSUME Inv, NEW w \in Writer, Write(w)
  PROVE  /\ Grows
         /\ \A d \in Day : \A i \in DOMAIN files'[d] :
              \/ i \in DOMAIN files[d]
              \/ /\ d = writers[w].heldDay /\ i = Len(files[d]) + 1
                 /\ files'[d][i] = writers[w].held
         /\ writers[w].heldDay \in Day =>
              writers[w].held \in Items(files'[writers[w].heldDay])
<1> DEFINE x == writers[w].held
           h == writers[w].heldDay
<1>1. x \in Delivery
  BY DEF Write, Inv, HoldsWhenOpen
<1>2. files' = [files EXCEPT ![h] = Append(files[h], x)]
  BY DEF Write
<1>3. ASSUME NEW d \in Day
      PROVE  /\ Len(files'[d]) \in Nat /\ Len(files[d]) <= Len(files'[d])
             /\ \A i \in DOMAIN files[d] : i \in DOMAIN files'[d] /\ files'[d][i] = files[d][i]
             /\ \A i \in DOMAIN files'[d] :
                  \/ i \in DOMAIN files[d]
                  \/ d = h /\ i = Len(files[d]) + 1 /\ files'[d][i] = x
             /\ d = h => x \in Items(files'[d])
  <2>1. /\ files[d] \in Seq(Delivery) /\ Len(files[d]) \in Nat
        /\ DOMAIN files[d] = 1 .. Len(files[d])
    BY Parts
  <2>2. CASE d = h
    <3>1. files'[d] = Append(files[d], x)
      BY <1>2, <2>2 DEF Inv, TypeOK
    <3>2. /\ Append(files[d], x) \in Seq(Delivery)
          /\ Len(Append(files[d], x)) = Len(files[d]) + 1
          /\ \A i \in 1 .. Len(files[d]) : Append(files[d], x)[i] = files[d][i]
          /\ Append(files[d], x)[Len(files[d]) + 1] = x
      BY <1>1, <2>1, AppendProperties
    <3>3. DOMAIN Append(files[d], x) = 1 .. Len(files[d]) + 1
      BY <3>2, LenProperties
    <3> HIDE DEF x, h
    <3>4. \A i \in 1 .. Len(files[d]) + 1 : i \in 1 .. Len(files[d]) \/ i = Len(files[d]) + 1
      BY <2>1
    <3>5. Len(files[d]) + 1 \in DOMAIN files'[d] /\ files'[d][Len(files[d]) + 1] = x
      BY <2>1, <3>1, <3>2, <3>3
    <3>6. x \in Items(files'[d])
      BY <3>5 DEF Items
    <3>7. \A i \in DOMAIN files[d] : i \in DOMAIN files'[d] /\ files'[d][i] = files[d][i]
      BY <2>1, <3>1, <3>2, <3>3
    <3> QED
      BY <2>1, <2>2, <3>1, <3>2, <3>3, <3>4, <3>5, <3>6, <3>7
  <2>3. CASE d # h
    <3>1. files'[d] = files[d]
      BY <1>2, <2>3 DEF Inv, TypeOK
    <3> QED
      BY <2>1, <2>3, <3>1
  <2> QED
    BY <2>2, <2>3
<1> QED
  BY <1>3 DEF Grows

\* Behind a cursor stays behind a later one.
LEMMA BehindLater ==
  ASSUME NEW c, NEW b, c.file \in Nat, c.offset \in Nat, b.file \in Nat, b.offset \in Nat,
         c.file < b.file \/ (c.file = b.file /\ c.offset <= b.offset),
         NEW d \in Nat, NEW i \in Nat, Behind(c, d, i)
  PROVE  Behind(b, d, i)
BY DEF Behind

\* The ingester's transaction: the next entry of its file is behind the new cursor,
\* which is later than the old one.
LEMMA IngestFacts ==
  ASSUME Inv, ReadAhead, IngestOne
  PROVE  LET x == ing.content[ing.pos + 1]
         IN  /\ ing.file \in Day /\ ing.pos + 1 \in DOMAIN files[ing.file]
             /\ x = files[ing.file][ing.pos + 1] /\ x \in Delivery
             /\ cursor' = [file |-> ing.file, offset |-> ing.pos + 1]
             /\ ing' = [ing EXCEPT !.pos = ing.pos + 1]
             /\ inbox' = Inserted(inbox, x)
             /\ \/ cursor.file < ing.file
                \/ cursor.file = ing.file /\ cursor.offset <= ing.pos
             /\ ing.pos < Len(ing.content) /\ Len(ing.content) <= Len(files[ing.file])
             /\ UNCHANGED <<day, files, present, writers, acked, replica>>
<1> DEFINE x == ing.content[ing.pos + 1]
<1>1. /\ ing.pos \in Nat /\ Len(ing.content) \in Nat
      /\ DOMAIN ing.content = 1 .. Len(ing.content) /\ ing.pos < Len(ing.content)
      /\ ing.content \in Seq(Delivery)
  BY Parts, LenProperties DEF IngestOne
<1>2. ing.pos + 1 \in DOMAIN ing.content /\ ing.content # << >>
  BY <1>1
<1>3. ing.file \in Day /\ Begins(ing.content, files[ing.file])
  BY <1>2 DEF ReadAhead
<1>4. x = files[ing.file][ing.pos + 1] /\ Len(ing.content) <= Len(files[ing.file])
  BY <1>2, <1>3 DEF Begins
<1>5. ing.pos + 1 \in DOMAIN files[ing.file]
  BY <1>1, <1>3, <1>4, Parts
<1>6. x \in Delivery
  BY <1>1, <1>2, ElementOfSeq
<1>7. ing.file # NoFile
  BY <1>3 DEF Day, NoFile
<1> QED
  BY <1>1, <1>3, <1>4, <1>5, <1>6, <1>7 DEF ReadAhead, IngestOne, journalVars

-----------------------------------------------------------------------------
(* The inbox lies behind the cursor *)

LEMMA OrderInit == Init => OrderInv
<1> SUFFICES ASSUME Init PROVE OrderInv
  OBVIOUS
<1>1. ing.content = << >> /\ ing.file = NoFile /\ ing.left = {}
  BY DEF Init, IdleIngester
<1>2. inbox = << >> /\ replica.inbox = << >>
  BY DEF Init
<1>3. DOMAIN inbox = {} /\ DOMAIN replica.inbox = {}
  BY <1>2
<1> QED
  BY <1>1, <1>3 DEF OrderInv, ReadAhead, Sourced, Distinct

\* Sources stay when the files grow and the cursor moves on.
LEMMA SourcedLater ==
  ASSUME Inv, Grows, NEW q, NEW c, NEW b, Sourced(q, c), NoLater(c, b)
  PROVE  \A n \in DOMAIN q : \E d \in Day : \E i \in DOMAIN files'[d] :
           files'[d][i] = q[n] /\ Behind(b, d, i)
<1> SUFFICES ASSUME NEW n \in DOMAIN q
             PROVE  \E d \in Day : \E i \in DOMAIN files'[d] :
                      files'[d][i] = q[n] /\ Behind(b, d, i)
  OBVIOUS
<1>1. PICK d \in Day : \E i \in DOMAIN files[d] : files[d][i] = q[n] /\ Behind(c, d, i)
  BY DEF Sourced
<1>2. PICK i \in DOMAIN files[d] : files[d][i] = q[n] /\ Behind(c, d, i)
  BY <1>1
<1>3. i \in DOMAIN files'[d] /\ files'[d][i] = files[d][i]
  BY <1>2 DEF Grows
<1>4. Behind(b, d, i)
  <2>1. i \in Nat
    BY <1>2, Parts
  <2> QED
    BY <1>2, <2>1 DEF NoLater
<1> QED
  BY <1>2, <1>3, <1>4

\* Files that stay have grown.
LEMMA SameGrows == ASSUME Inv, files' = files PROVE Grows
BY Parts DEF Grows

\* A step of the writers or of time.
LEMMA OrderAside ==
  ASSUME Inv, OrderInv, Grows, UNCHANGED <<inbox, cursor, ing, replica>>
  PROVE  OrderInv'
<1>1. ReadAhead'
  <2>1. ASSUME ing.content # << >>
        PROVE  ing.file \in Day /\ Begins(ing.content, files'[ing.file])
    <3>1. ing.file \in Day /\ Begins(ing.content, files[ing.file])
      BY <2>1 DEF OrderInv, ReadAhead
    <3>2. /\ Len(files'[ing.file]) \in Nat /\ Len(files[ing.file]) <= Len(files'[ing.file])
          /\ \A i \in DOMAIN files[ing.file] : files'[ing.file][i] = files[ing.file][i]
      BY <3>1 DEF Grows
    <3>3. /\ Len(files[ing.file]) \in Nat /\ DOMAIN files[ing.file] = 1 .. Len(files[ing.file])
          /\ Len(ing.content) \in Nat /\ DOMAIN ing.content = 1 .. Len(ing.content)
      BY <3>1, Parts, LenProperties
    <3>4. /\ Len(ing.content) <= Len(files[ing.file])
          /\ \A i \in DOMAIN ing.content : ing.content[i] = files[ing.file][i]
      BY <3>1 DEF Begins
    <3>5. Len(ing.content) <= Len(files'[ing.file])
      BY <3>2, <3>3, <3>4
    <3>6. \A i \in DOMAIN ing.content : ing.content[i] = files'[ing.file][i]
      BY <3>2, <3>3, <3>4
    <3> QED
      BY <3>1, <3>5, <3>6 DEF Begins
  <2>2. ing' = ing /\ cursor' = cursor
    OBVIOUS
  <2>3. /\ ing.file # NoFile =>
             cursor.file < ing.file \/ (cursor.file = ing.file /\ cursor.offset <= ing.pos)
        /\ \A d \in ing.left : ing.file < d /\ cursor.file <= d
    BY DEF OrderInv, ReadAhead
  <2> QED
    BY <2>1, <2>2, <2>3 DEF ReadAhead, Begins
<1>2. Sourced(inbox, cursor)'
  <2>1. Sourced(inbox, cursor) /\ inbox' = inbox /\ cursor' = cursor
    BY DEF OrderInv
  <2>2. \A n \in DOMAIN inbox : \E d \in Day : \E i \in DOMAIN files'[d] :
          files'[d][i] = inbox[n] /\ Behind(cursor, d, i)
    BY <2>1, SourcedLater DEF NoLater
  <2> QED
    BY <2>1, <2>2 DEF Sourced, Behind
<1>3. Sourced(replica.inbox, replica.cursor)'
  <2> DEFINE q == replica.inbox
             c == replica.cursor
  <2>1. Sourced(q, c) /\ q' = q /\ c' = c
    BY DEF OrderInv
  <2> HIDE DEF q, c
  <2>2. \A n \in DOMAIN q : \E d \in Day : \E i \in DOMAIN files'[d] :
          files'[d][i] = q[n] /\ Behind(c, d, i)
    BY <2>1, SourcedLater DEF NoLater
  <2>3. Sourced(q, c)'
    BY <2>1, <2>2 DEF Sourced, Behind
  <2> QED
    BY <2>3 DEF q, c
<1>4. Distinct(inbox)'
  BY DEF OrderInv, Distinct
<1> QED
  BY <1>1, <1>2, <1>3, <1>4 DEF OrderInv

\* An ingester that is idle has nothing to keep.
LEMMA IdleReads == ASSUME ing' = IdleIngester PROVE ReadAhead'
BY DEF ReadAhead, IdleIngester

\* A step of the ingester that commits nothing.
LEMMA OrderReads ==
  ASSUME Inv, OrderInv, ReadAhead', UNCHANGED <<files, inbox, cursor, replica>>
  PROVE  OrderInv'
<1>1. Sourced(inbox, cursor)' /\ Sourced(replica.inbox, replica.cursor)'
  BY DEF OrderInv, Sourced, Behind
<1>2. Distinct(inbox)'
  BY DEF OrderInv, Distinct
<1> QED
  BY <1>1, <1>2 DEF OrderInv

\* An insert keeps the inbox free of repetitions and adds at most x.
LEMMA InsertedFacts ==
  ASSUME NEW q \in Seq(Delivery), Distinct(q), NEW x \in Delivery
  PROVE  /\ Distinct(Inserted(q, x))
         /\ \A n \in DOMAIN Inserted(q, x) :
              \/ n \in DOMAIN q /\ Inserted(q, x)[n] = q[n]
              \/ n = Len(q) + 1 /\ Inserted(q, x)[n] = x /\ x \notin Items(q)
         /\ Items(Inserted(q, x)) = Items(q) \cup {x}
<1>1. CASE x \in Items(q)
  <2>1. Inserted(q, x) = q
    BY <1>1 DEF Inserted
  <2> QED
    BY <1>1, <2>1
<1>2. CASE x \notin Items(q)
  <2>1. Inserted(q, x) = Append(q, x)
    BY <1>2 DEF Inserted
  <2>2. /\ Len(q) \in Nat /\ DOMAIN q = 1 .. Len(q)
        /\ DOMAIN Append(q, x) = 1 .. Len(q) + 1
        /\ \A n \in 1 .. Len(q) : Append(q, x)[n] = q[n]
        /\ Append(q, x)[Len(q) + 1] = x
    BY AppendProperties, LenProperties
  <2>3. Distinct(Append(q, x))
    BY <1>2, <2>2 DEF Distinct, Items
  <2>4. Items(Append(q, x)) = Items(q) \cup {x}
    BY <2>2 DEF Items
  <2> QED
    BY <1>2, <2>1, <2>2, <2>3, <2>4
<1> QED
  BY <1>1, <1>2

LEMMA OrderIngest == Inv /\ OrderInv /\ IngestOne => OrderInv'
<1> SUFFICES ASSUME Inv, OrderInv, IngestOne PROVE OrderInv'
  OBVIOUS
<1> DEFINE x == ing.content[ing.pos + 1]
           b == [file |-> ing.file, offset |-> ing.pos + 1]
<1>0. ReadAhead
  BY DEF OrderInv
<1>1. /\ ing.file \in Day /\ ing.pos + 1 \in DOMAIN files[ing.file]
      /\ x = files[ing.file][ing.pos + 1] /\ x \in Delivery
      /\ cursor' = b /\ inbox' = Inserted(inbox, x)
      /\ ing' = [ing EXCEPT !.pos = ing.pos + 1]
      /\ cursor.file < ing.file \/ (cursor.file = ing.file /\ cursor.offset <= ing.pos)
      /\ files' = files /\ replica' = replica
  BY <1>0, IngestFacts
<1>2. /\ cursor.file \in Nat /\ cursor.offset \in Nat /\ ing.file \in Nat /\ ing.pos \in Nat
      /\ b.file = ing.file /\ b.offset = ing.pos + 1 /\ ing \in IngesterState
      /\ inbox \in Seq(Delivery)
  BY Parts
<1>3. NoLater(cursor, b)
  BY <1>1, <1>2 DEF NoLater, Behind, Day
<1>4. Behind(b, ing.file, ing.pos + 1)
  BY <1>2 DEF Behind
<1>5. Distinct(inbox) /\ Sourced(inbox, cursor) /\ Sourced(replica.inbox, replica.cursor)
  BY DEF OrderInv
<1> HIDE DEF x, b
<1>6. \A n \in DOMAIN inbox : \E d \in Day : \E i \in DOMAIN files[d] :
        files[d][i] = inbox[n] /\ Behind(b, d, i)
  <2>1. Grows
    BY <1>1, SameGrows
  <2>2. Sourced(inbox, cursor)
    BY <1>5
  <2>3. \A n \in DOMAIN inbox : \E d \in Day : \E i \in DOMAIN files'[d] :
          files'[d][i] = inbox[n] /\ Behind(b, d, i)
    BY <1>3, <2>1, <2>2, SourcedLater
  <2> QED
    BY <1>1, <2>3
<1>7. /\ Distinct(inbox')
      /\ \A n \in DOMAIN inbox' : (n \in DOMAIN inbox /\ inbox'[n] = inbox[n]) \/ inbox'[n] = x
  BY <1>1, <1>2, <1>5, InsertedFacts
<1>8. Sourced(inbox, cursor)'
  <2>1. \A n \in DOMAIN inbox' : \E d \in Day : \E i \in DOMAIN files[d] :
          files[d][i] = inbox'[n] /\ Behind(b, d, i)
    <3>1. ASSUME NEW n \in DOMAIN inbox'
          PROVE  \E d \in Day : \E i \in DOMAIN files[d] :
                   files[d][i] = inbox'[n] /\ Behind(b, d, i)
      <4>1. CASE n \in DOMAIN inbox /\ inbox'[n] = inbox[n]
        BY <1>6, <4>1
      <4>2. CASE inbox'[n] = x
        BY <1>1, <1>4, <4>2
      <4> QED
        BY <1>7, <4>1, <4>2
    <3> QED
      BY <3>1
  <2> QED
    BY <1>1, <2>1 DEF Sourced, Behind
<1>9. Sourced(replica.inbox, replica.cursor)'
  BY <1>1, <1>5 DEF Sourced, Behind
<1>10. ReadAhead'
  <2>1. /\ ing'.content = ing.content /\ ing'.file = ing.file /\ ing'.left = ing.left
        /\ ing'.pos = ing.pos + 1
    BY <1>1, <1>2 DEF IngesterState
  <2>2. cursor'.file = ing.file /\ cursor'.offset = ing.pos + 1
    BY <1>1, <1>2
  <2>3. \A d \in ing.left : ing.file < d /\ ing.file <= d
    BY <1>0, <1>2, Parts DEF ReadAhead, Day
  <2> QED
    BY <1>0, <1>1, <1>2, <2>1, <2>2, <2>3 DEF ReadAhead
<1> QED
  BY <1>7, <1>8, <1>9, <1>10 DEF OrderInv, Distinct

\* A read moves the ingester to the next file, whose place is not behind the cursor.
LEMMA OrderRead == Inv /\ OrderInv /\ ReadFile => OrderInv'
<1> SUFFICES ASSUME Inv, OrderInv, ReadFile PROVE OrderInv'
  OBVIOUS
<1>1. UNCHANGED <<files, inbox, cursor, replica>>
  BY DEF ReadFile, journalVars
<1>2. ReadAhead'
  <2>1. CASE ing' = IdleIngester
    BY <2>1, IdleReads
  <2>2. ASSUME NEW d \in ing.left,
               d \in Day /\ d \in present /\ \A y \in ing.left : d <= y,
               ing' = [busy |-> TRUE, left |-> ing.left \ {d}, file |-> d,
                       content |-> files[d], pos |-> StartOffset(d)]
        PROVE  ReadAhead'
    <3>1. /\ ing'.content = files[d] /\ ing'.file = d /\ ing'.left = ing.left \ {d}
          /\ ing'.pos = StartOffset(d)
      BY <2>2
    <3>2. \A y \in ing.left : cursor.file <= y /\ y \in Nat
      BY Parts DEF OrderInv, ReadAhead, Day
    <3>3. Begins(files[d], files[d])
      BY <2>2, Parts DEF Begins
    <3>4. cursor.file < d \/ (cursor.file = d /\ cursor.offset <= StartOffset(d))
      BY <3>2, Parts DEF StartOffset
    <3>5. \A y \in ing.left \ {d} : d < y /\ cursor.file <= y
      BY <2>2, <3>2
    <3> QED
      BY <1>1, <2>2, <3>1, <3>3, <3>4, <3>5 DEF ReadAhead
  <2> QED
    BY <2>1, <2>2, OpenFacts
<1> QED
  BY <1>1, <1>2, OrderReads

\* A restore takes the inbox and the cursor back together.
LEMMA OrderRestore == Inv /\ OrderInv /\ Restore => OrderInv'
<1> SUFFICES ASSUME Inv, OrderInv, Restore PROVE OrderInv'
  OBVIOUS
<1>1. /\ inbox' = replica.inbox /\ cursor' = replica.cursor /\ replica' = replica
      /\ files' = files /\ ing' = IdleIngester
  BY DEF Restore, journalVars
<1>2. Sourced(replica.inbox, replica.cursor)
  BY DEF OrderInv
<1>3. Sourced(inbox, cursor)' /\ Sourced(replica.inbox, replica.cursor)'
  BY <1>1, <1>2 DEF Sourced, Behind
<1>4. Distinct(replica.inbox)
  <2>1. /\ Len(replica.inbox) \in Nat /\ DOMAIN replica.inbox = 1 .. Len(replica.inbox)
        /\ Len(inbox) \in Nat /\ DOMAIN inbox = 1 .. Len(inbox)
        /\ inbox \in Seq(Delivery)
    BY Parts, LenProperties
  <2>2. /\ Len(replica.inbox) <= Len(inbox)
        /\ replica.inbox = SubSeq(inbox, 1, Len(replica.inbox))
    BY DEF Inv, Provenance
  <2>3. \A i \in 1 .. Len(replica.inbox) : SubSeq(inbox, 1, Len(replica.inbox))[i] = inbox[i]
    BY <2>1, <2>2
  <2>4. \A i \in DOMAIN replica.inbox : i \in DOMAIN inbox /\ replica.inbox[i] = inbox[i]
    BY <2>1, <2>2, <2>3
  <2> QED
    BY <2>4 DEF OrderInv, Distinct
<1>5. ReadAhead'
  BY <1>1, IdleReads
<1> QED
  BY <1>1, <1>3, <1>4, <1>5 DEF OrderInv, Distinct

LEMMA OrderNext == Inv /\ OrderInv /\ [Next]_vars => OrderInv'
<1> SUFFICES ASSUME Inv, OrderInv, [Next]_vars PROVE OrderInv'
  OBVIOUS
<1>1. CASE \E w \in Writer : Write(w)
  <2>1. PICK w \in Writer : Write(w)
    BY <1>1
  <2>2. Grows
    BY <2>1, WriteGrows
  <2>3. UNCHANGED <<inbox, cursor, ing, replica>>
    BY <2>1 DEF Write, databaseVars
  <2> QED
    BY <2>2, <2>3, OrderAside
<1>2. CASE UNCHANGED <<files, inbox, cursor, ing, replica>>
  BY <1>2, SameGrows, OrderAside
<1>3. CASE StartStep
  <2>1. UNCHANGED <<files, inbox, cursor, replica>>
    BY <1>3 DEF StartStep, journalVars
  <2>2. ReadAhead'
    <3>1. /\ ing'.content = << >> /\ ing'.file = NoFile
          /\ ing'.left = {d \in present : d >= cursor.file}
      BY <1>3 DEF StartStep, IdleIngester
    <3>2. \A d \in present : d \in Nat /\ NoFile < d
      BY Parts DEF Day, NoFile
    <3> QED
      BY <2>1, <3>1, <3>2, Parts DEF ReadAhead
  <2> QED
    BY <2>1, <2>2, OrderReads
<1>4. CASE ReadFile
  BY <1>4, OrderRead
<1>5. CASE IngestOne
  BY <1>5, OrderIngest
<1>6. CASE CrashIngester
  BY <1>6, IdleReads, OrderReads DEF CrashIngester, journalVars
<1>7. CASE Restore
  BY <1>7, OrderRestore
<1>8. CASE Replicate
  <2>1. /\ replica'.inbox = inbox /\ replica'.cursor = cursor
        /\ UNCHANGED <<files, inbox, cursor, ing>>
    BY <1>8 DEF Replicate, journalVars
  <2>2. Sourced(inbox, cursor)' /\ Sourced(replica.inbox, replica.cursor)'
    BY <2>1 DEF OrderInv, Sourced, Behind
  <2>3. ReadAhead' /\ Distinct(inbox)'
    BY <2>1 DEF OrderInv, ReadAhead, Begins, Distinct
  <2> QED
    BY <2>2, <2>3 DEF OrderInv
<1> QED
  BY <1>1, <1>2, <1>3, <1>4, <1>5, <1>6, <1>7, <1>8 DEF vars, Next, WriterStep, IngesterStep,
     Submit, Open, Answer, AppendFails, TimeoutQueued, TimeoutWritten, CrashWriter, Tick, Sweep,
     journalVars, databaseVars

LEMMA SpecOrder == Spec => []OrderInv
BY SpecInv, OrderInit, OrderNext, PTL DEF Spec

\* Whatever the writers do around midnight, the inbox holds each delivery once
\* and only what the cursor has passed.
THEOREM InboxIsBehindCursorHolds == Spec => []InboxIsBehindCursor
<1>1. OrderInv => InboxIsBehindCursor
  <2> SUFFICES ASSUME OrderInv PROVE InboxIsBehindCursor
    OBVIOUS
  <2>1. ASSUME NEW n \in DOMAIN inbox
        PROVE  \E en \in Entry : files[en[1]][en[2]] = inbox[n] /\ Behind(cursor, en[1], en[2])
    <3>1. PICK d \in Day : \E i \in DOMAIN files[d] :
                 files[d][i] = inbox[n] /\ Behind(cursor, d, i)
      BY DEF OrderInv, Sourced
    <3>2. PICK i \in DOMAIN files[d] : files[d][i] = inbox[n] /\ Behind(cursor, d, i)
      BY <3>1
    <3>3. <<d, i>> \in Entry
      BY <3>1, <3>2 DEF Entry
    <3> QED
      BY <3>2, <3>3
  <2> QED
    BY <2>1 DEF InboxIsBehindCursor, OrderInv, Distinct
<1> QED
  BY <1>1, SpecOrder, PTL

\* The ingester's place never goes back, except in a restore.
THEOREM CursorAdvancesHolds == Spec => CursorAdvances
<1> DEFINE A == Precedes(<<cursor'.file, cursor'.offset>>, <<cursor.file, cursor.offset>>) =>
                  cursor' = replica.cursor
<1>1. Inv /\ OrderInv /\ [Next]_vars => [A]_vars
  <2> SUFFICES ASSUME Inv, OrderInv, Next PROVE A
    BY DEF vars
  <2>1. CASE cursor' = cursor
    BY <2>1, Parts DEF Precedes
  <2>2. CASE IngestOne
    <3>1. /\ cursor' = [file |-> ing.file, offset |-> ing.pos + 1]
          /\ cursor.file < ing.file \/ (cursor.file = ing.file /\ cursor.offset <= ing.pos)
      BY <2>2, IngestFacts DEF OrderInv
    <3>2. cursor'.file = ing.file /\ cursor'.offset = ing.pos + 1
      BY <3>1
    <3> QED
      BY <3>1, <3>2, Parts DEF Precedes
  <2>3. CASE Restore
    BY <2>3 DEF Restore
  <2> QED
    BY <2>1, <2>2, <2>3 DEF Next, WriterStep, IngesterStep, Submit, Open, Write, Answer,
       AppendFails, TimeoutQueued, TimeoutWritten, CrashWriter, StartStep, ReadFile,
       CrashIngester, Tick, Sweep, Replicate, journalVars, databaseVars
<1> QED
  BY <1>1, SpecInv, SpecOrder, PTL DEF Spec, CursorAdvances

-----------------------------------------------------------------------------
(* Nothing acknowledged is lost, if no append straddles midnight *)

OnTime == Straddle = FALSE

\* A file being written to is today's, and there.
Opened ==
  \A w \in Writer : writers[w].stage = "opened" => writers[w].heldDay = day /\ day \in present

\* No file is of a later day.
Today ==
  /\ \A d \in Day : d > day => files[d] = << >>
  /\ \A d \in present : d <= day

\* A database with inbox q and cursor c, for the files fs with those in pr still
\* there on day t: what is behind the cursor is in the inbox, and what is not is
\* in a file that is there and that a sweep would keep.
Good(q, c, fs, pr, t) ==
  /\ c.file <= t /\ (c.file \in Day => c.offset <= Len(fs[c.file]))
  /\ \A d \in Day : \A i \in DOMAIN fs[d] :
       /\ Behind(c, d, i) => fs[d][i] \in Items(q)
       /\ ~Behind(c, d, i) => d \in pr /\ d + RetainDays >= t

FileDelivered(d) == \A i \in DOMAIN files[d] : files[d][i] \in Items(inbox)

\* The files that the ingester's step passes over have been delivered, and its
\* own file up to its position; it read that file whole if it goes on to another.
StepIsSound ==
  /\ \A d \in ing.left : d <= day
  /\ \A d \in ing.left, b \in Day :
       b < d /\ b \notin ing.left /\ b # ing.file => FileDelivered(b)
  /\ ing.file = NoFile => ing.content = << >>
  /\ ing.file # NoFile =>
       /\ ing.file \in Day /\ ing.file <= day /\ ing.pos <= Len(ing.content)
       /\ \A b \in Day : b < ing.file => FileDelivered(b)
       /\ \A i \in DOMAIN files[ing.file] : i <= ing.pos => files[ing.file][i] \in Items(inbox)
       /\ ing.left # {} => Len(ing.content) = Len(files[ing.file])

AnsweredIsDurable ==
  /\ acked \subseteq Durable
  /\ \A w \in Writer : writers[w].stage = "written" => writers[w].held \in Durable

DeliveryInv ==
  /\ Opened /\ Today /\ AnsweredIsDurable /\ StepIsSound
  /\ Good(inbox, cursor, files, present, day)
  /\ Good(replica.inbox, replica.cursor, files, present, day)

LEMMA DeliveryInit == Init => DeliveryInv
<1> SUFFICES ASSUME Init PROVE DeliveryInv
  OBVIOUS
<1>1. /\ \A d \in Day : files[d] = << >> /\ DOMAIN files[d] = {}
      /\ day = 1 /\ present = {} /\ acked = {} /\ ing = IdleIngester
      /\ cursor.file = NoFile /\ replica.cursor.file = NoFile
      /\ \A w \in Writer : writers[w] = IdleWriter
  BY DEF Init
<1>2. Opened /\ Today /\ AnsweredIsDurable
  BY <1>1 DEF Opened, Today, AnsweredIsDurable, IdleWriter
<1>3. StepIsSound
  BY <1>1 DEF StepIsSound, IdleIngester
<1>4. \A q, c : c.file = NoFile => Good(q, c, files, present, day)
  BY <1>1 DEF Good, NoFile, Day
<1> QED
  BY <1>1, <1>2, <1>3, <1>4 DEF DeliveryInv

\* A write to today's file is ahead of every cursor.
LEMMA GoodWrite ==
  ASSUME Inv, Today, NEW w \in Writer, Write(w),
         writers[w].heldDay = day, day \in present,
         NEW q, NEW c, c.file \in Nat, c.offset \in Nat, Good(q, c, files, present, day)
  PROVE  Good(q, c, files', present', day')
<1>1. present' = present /\ day' = day /\ day \in Day /\ day \in Nat
  BY Parts DEF Write, Day
<1>2. /\ Grows
      /\ \A d \in Day : \A i \in DOMAIN files'[d] :
           i \in DOMAIN files[d] \/ (d = day /\ i = Len(files[d]) + 1)
  BY WriteGrows
<1>3. c.file <= day /\ (c.file \in Day => c.offset <= Len(files'[c.file]))
  BY <1>2, Parts DEF Good, Grows
<1>4. ASSUME NEW d \in Day, NEW i \in DOMAIN files'[d]
      PROVE  /\ Behind(c, d, i) => files'[d][i] \in Items(q)
             /\ ~Behind(c, d, i) => d \in present /\ d + RetainDays >= day
  <2>1. CASE i \in DOMAIN files[d]
    <3>1. files'[d][i] = files[d][i]
      BY <1>2, <2>1 DEF Grows
    <3> QED
      BY <2>1, <3>1 DEF Good
  <2>2. CASE d = day /\ i = Len(files[d]) + 1
    <3>1. Len(files[d]) \in Nat
      BY Parts
    <3>2. c.file <= day /\ (c.file = day => c.offset <= Len(files[d]))
      BY <1>1, <2>2 DEF Good
    <3>3. ~Behind(c, d, i)
      BY <1>1, <2>2, <3>1, <3>2 DEF Behind
    <3> QED
      BY <1>1, <2>2, <3>3, JournalAssumption
  <2> QED
    BY <1>2, <2>1, <2>2
<1> QED
  BY <1>1, <1>3, <1>4 DEF Good

\* What is durable stays durable.
LEMMA DurableGrows == ASSUME Grows PROVE Durable \subseteq Durable'
<1> SUFFICES ASSUME NEW x \in Durable PROVE x \in Durable'
  OBVIOUS
<1>1. PICK d \in Day : x \in Items(files[d])
  BY DEF Durable
<1>2. PICK i \in DOMAIN files[d] : x = files[d][i]
  BY <1>1 DEF Items
<1>3. i \in DOMAIN files'[d] /\ files'[d][i] = x
  BY <1>2 DEF Grows
<1>4. x \in Items(files'[d])
  BY <1>3 DEF Items
<1> QED
  BY <1>4 DEF Durable

LEMMA DeliveryWrite ==
  ASSUME Inv, OrderInv, DeliveryInv, NEW w \in Writer, Write(w)
  PROVE  DeliveryInv'
<1>0. /\ writers[w].heldDay = day /\ day \in present
      /\ day \in Day /\ day \in Nat
  BY Parts DEF DeliveryInv, Opened, Write, Day
<1>1. /\ UNCHANGED <<day, present, acked, inbox, cursor, ing, replica>>
      /\ writers' = [writers EXCEPT ![w].stage = "written"]
  BY DEF Write, databaseVars
<1>2. /\ Grows
      /\ \A d \in Day : \A i \in DOMAIN files'[d] :
           i \in DOMAIN files[d] \/ (d = day /\ i = Len(files[d]) + 1)
      /\ writers[w].held \in Items(files'[day])
  BY <1>0, WriteGrows
<1>3. \A d \in Day : d # day => files'[d] = files[d]
  BY <1>0 DEF Write, Inv, TypeOK
<1>4. Opened' /\ Today'
  <2>1. \A v \in Writer : v # w => writers'[v] = writers[v]
    BY <1>1 DEF Inv, TypeOK
  <2>2. writers'[w].stage = "written"
    BY <1>1 DEF Inv, TypeOK, WriterState
  <2>3. Opened /\ Today
    BY DEF DeliveryInv
  <2>4. Opened'
    BY <1>0, <1>1, <2>1, <2>2, <2>3 DEF Opened
  <2>5. \A d \in Day : d > day => d # day
    BY <1>0 DEF Day
  <2>6. Today'
    BY <1>1, <1>3, <2>3, <2>5 DEF Today
  <2> QED
    BY <2>4, <2>6
<1>5. AnsweredIsDurable'
  <2>1. \A v \in Writer : writers'[v].held = writers[v].held
    BY <1>1 DEF Inv, TypeOK, WriterState
  <2>2. \A v \in Writer : v # w => writers'[v].stage = writers[v].stage
    BY <1>1 DEF Inv, TypeOK
  <2>3. writers[w].held \in Durable'
    BY <1>0, <1>2 DEF Durable
  <2> QED
    BY <1>1, <1>2, <2>1, <2>2, <2>3, DurableGrows DEF DeliveryInv, AnsweredIsDurable
<1>6. StepIsSound'
  <2>1. \A b \in Day : b < day => (FileDelivered(b) => FileDelivered(b)')
    BY <1>0, <1>1, <1>3 DEF FileDelivered
  <2>2. \A d \in ing.left : d \in Day /\ d <= day
    BY Parts DEF DeliveryInv, StepIsSound
  <2>3. \A d \in ing.left, b \in Day :
          b < d /\ b \notin ing.left /\ b # ing.file => b < day /\ FileDelivered(b)
    BY <1>0, <2>2 DEF DeliveryInv, StepIsSound, Day
  <2>4. ASSUME ing.file # NoFile
        PROVE  /\ ing.file \in Day /\ ing.file <= day /\ ing.pos <= Len(ing.content)
               /\ \A b \in Day : b < ing.file => b < day /\ FileDelivered(b)
               /\ \A i \in DOMAIN files'[ing.file] :
                    i <= ing.pos => files'[ing.file][i] \in Items(inbox)
               /\ ing.left # {} => Len(ing.content) = Len(files'[ing.file])
    <3>1. /\ ing.file \in Day /\ ing.file <= day /\ ing.pos <= Len(ing.content)
          /\ \A b \in Day : b < ing.file => FileDelivered(b)
          /\ \A i \in DOMAIN files[ing.file] :
               i <= ing.pos => files[ing.file][i] \in Items(inbox)
          /\ ing.left # {} => Len(ing.content) = Len(files[ing.file])
      BY <2>4 DEF DeliveryInv, StepIsSound
    <3>2. \A b \in Day : b < ing.file => b < day
      BY <1>0, <3>1 DEF Day
    <3>3. ing.left # {} => ing.file # day
      BY <1>0, <2>2, <3>1 DEF OrderInv, ReadAhead, Day
    <3>4. Len(ing.content) <= Len(files[ing.file])
      <4>1. CASE ing.content = << >>
        BY <3>1, <4>1, Parts
      <4>2. CASE ing.content # << >>
        BY <4>2 DEF OrderInv, ReadAhead, Begins
      <4> QED
        BY <4>1, <4>2
    <3>5. ASSUME NEW i \in DOMAIN files'[ing.file], i <= ing.pos
          PROVE  files'[ing.file][i] \in Items(inbox)
      <4>1. i \in DOMAIN files[ing.file]
        <5>1. Len(ing.content) \in Nat /\ Len(files[ing.file]) \in Nat /\ ing.pos \in Nat
          BY <3>1, Parts, LenProperties
        <5>2. i # Len(files[ing.file]) + 1
          BY <3>1, <3>4, <3>5, <5>1
        <5> QED
          BY <1>2, <3>1, <3>5, <5>2
      <4>2. files'[ing.file][i] = files[ing.file][i]
        BY <1>2, <3>1, <4>1 DEF Grows
      <4> QED
        BY <3>1, <3>5, <4>1, <4>2
    <3>6. ing.left # {} => Len(ing.content) = Len(files'[ing.file])
      BY <1>3, <3>1, <3>3
    <3> QED
      BY <3>1, <3>2, <3>5, <3>6
  <2>5. (\A d \in ing.left : d <= day) /\ (ing.file = NoFile => ing.content = << >>)
    BY DEF DeliveryInv, StepIsSound
  <2>6. ing' = ing /\ inbox' = inbox /\ day' = day
    BY <1>1
  <2> QED
    BY <2>1, <2>3, <2>4, <2>5, <2>6 DEF StepIsSound
<1>7. Good(inbox, cursor, files, present, day)'
  <2>1. Good(inbox, cursor, files', present', day')
    BY <1>0, GoodWrite, Parts DEF DeliveryInv
  <2> QED
    BY <1>1, <2>1
<1>8. Good(replica.inbox, replica.cursor, files, present, day)'
  <2> DEFINE q == replica.inbox
             c == replica.cursor
  <2>1. c.file \in Nat /\ c.offset \in Nat /\ Good(q, c, files, present, day) /\ Today
    BY Parts DEF DeliveryInv
  <2>2. q' = q /\ c' = c
    BY <1>1
  <2> HIDE DEF q, c
  <2>3. Good(q, c, files', present', day')
    BY <1>0, <2>1, GoodWrite
  <2>4. Good(q, c, files, present, day)'
    BY <2>2, <2>3
  <2> QED
    BY <2>4 DEF q, c
<1> QED
  BY <1>4, <1>5, <1>6, <1>7, <1>8 DEF DeliveryInv

\* A step of the writers that writes nothing.
LEMMA DeliveryAside ==
  ASSUME Inv, DeliveryInv, UNCHANGED <<day, files, inbox, cursor, ing, replica>>,
         present \subseteq present', \A d \in present' : d <= day,
         Opened', AnsweredIsDurable'
  PROVE  DeliveryInv'
<1>1. Today'
  BY DEF DeliveryInv, Today
<1>2. StepIsSound'
  BY DEF DeliveryInv, StepIsSound, FileDelivered
<1>3. \A q, c : Good(q, c, files, present, day) => Good(q, c, files, present', day)
  BY DEF Good
<1>4. Good(inbox, cursor, files, present', day) /\ Good(replica.inbox, replica.cursor, files, present', day)
  BY <1>3 DEF DeliveryInv
<1> QED
  BY <1>1, <1>2, <1>4 DEF DeliveryInv

LEMMA DeliveryWriters ==
  ASSUME Inv, OrderInv, DeliveryInv, NEW w \in Writer, WriterStep(w)
  PROVE  DeliveryInv'
<1> DEFINE s == writers[w]
<1>1. Opened /\ AnsweredIsDurable /\ \A d \in present : d <= day
  BY DEF DeliveryInv, Today
<1>2. ASSUME UNCHANGED <<day, files, inbox, cursor, ing, replica, present>>,
             NEW r, writers' = [writers EXCEPT ![w] = r],
             \/ r.stage = "idle"
             \/ r.stage = s.stage /\ r.held = s.held /\ r.heldDay = s.heldDay,
             acked' = acked \/ (s.stage = "written" /\ acked' = acked \cup {s.held})
      PROVE  DeliveryInv'
  <2>1. writers'[w] = r /\ \A v \in Writer : v # w => writers'[v] = writers[v]
    BY <1>2 DEF Inv, TypeOK
  <2>2. Opened'
    BY <1>1, <1>2, <2>1 DEF Opened
  <2>3. AnsweredIsDurable'
    BY <1>1, <1>2, <2>1 DEF AnsweredIsDurable, Durable
  <2> QED
    BY <1>1, <1>2, <2>2, <2>3, DeliveryAside
<1>3. CASE \E x \in Delivery : Submit(w, x)
  <2>1. PICK x \in Delivery : Submit(w, x)
    BY <1>3
  <2>2. CASE writers' = writers
    <3>1. writers' = [writers EXCEPT ![w] = s]
      BY <2>2 DEF Inv, TypeOK
    <3> QED
      BY <1>2, <2>1, <3>1 DEF Submit, databaseVars
  <2>3. CASE writers' = [writers EXCEPT ![w].queue = Append(@, x)]
    <3> DEFINE r == [s EXCEPT !.queue = Append(s.queue, x)]
    <3>1. /\ r.stage = s.stage /\ r.held = s.held /\ r.heldDay = s.heldDay
          /\ writers' = [writers EXCEPT ![w] = r]
      BY <2>3 DEF Inv, TypeOK, WriterState
    <3> HIDE DEF r
    <3> QED
      BY <1>2, <2>1, <3>1 DEF Submit, databaseVars
  <2> QED
    BY <2>1, <2>2, <2>3 DEF Submit
<1>4. CASE Open(w)
  <2>1. /\ writers' = [writers EXCEPT ![w] = [queue |-> Tail(s.queue), held |-> Head(s.queue),
                                             heldDay |-> day, stage |-> "opened"]]
        /\ present' = present \cup {day} /\ acked' = acked
        /\ UNCHANGED <<day, files, inbox, cursor, ing, replica>>
    BY <1>4 DEF Open, databaseVars
  <2>2. /\ writers'[w].stage = "opened" /\ writers'[w].heldDay = day
        /\ \A v \in Writer : v # w => writers'[v] = writers[v]
    BY <2>1 DEF Inv, TypeOK
  <2>3. Opened'
    BY <1>1, <2>1, <2>2 DEF Opened
  <2>4. AnsweredIsDurable'
    BY <1>1, <2>1, <2>2 DEF AnsweredIsDurable, Durable
  <2>5. \A d \in present' : d <= day
    BY <1>1, <2>1, Parts DEF Day
  <2> QED
    BY <2>1, <2>3, <2>4, <2>5, DeliveryAside
<1>5. CASE Write(w)
  BY <1>5, DeliveryWrite
<1>6. CASE Answer(w) \/ AppendFails(w) \/ TimeoutWritten(w)
  <2> DEFINE r == Released(w)
  <2>1. r.stage = "idle"
    BY DEF Released, IdleWriter
  <2>2. writers' = [writers EXCEPT ![w] = r]
    BY <1>6 DEF Answer, AppendFails, TimeoutWritten
  <2>3. /\ acked' = acked \/ (s.stage = "written" /\ acked' = acked \cup {s.held})
        /\ UNCHANGED <<day, files, inbox, cursor, ing, replica, present>>
    BY <1>6 DEF Answer, AppendFails, TimeoutWritten, databaseVars
  <2> HIDE DEF r
  <2> QED
    BY <1>2, <2>1, <2>2, <2>3
<1>7. CASE \E i \in DOMAIN writers[w].queue : TimeoutQueued(w, i)
  <2>1. PICK i \in DOMAIN s.queue : TimeoutQueued(w, i)
    BY <1>7
  <2> DEFINE q == SubSeq(s.queue, 1, i - 1) \o SubSeq(s.queue, i + 1, Len(s.queue))
             r == [s EXCEPT !.queue = q]
  <2> HIDE DEF q
  <2>2. /\ r.stage = s.stage /\ r.held = s.held /\ r.heldDay = s.heldDay
        /\ writers' = [writers EXCEPT ![w] = r]
    BY <2>1 DEF TimeoutQueued, Inv, TypeOK, WriterState, q
  <2> HIDE DEF r
  <2> QED
    BY <1>2, <2>1, <2>2 DEF TimeoutQueued, databaseVars
<1>8. CASE CrashWriter(w)
  <2> DEFINE r == IdleWriter
  <2>1. r.stage = "idle"
    BY DEF IdleWriter
  <2> QED
    BY <1>2, <1>8, <2>1 DEF CrashWriter, databaseVars
<1> QED
  BY <1>3, <1>4, <1>5, <1>6, <1>7, <1>8 DEF WriterStep

\* Midnight, when nobody holds a file open and the cursors are past what is old.
LEMMA DeliveryTick == OnTime /\ Inv /\ DeliveryInv /\ Tick => DeliveryInv'
<1> SUFFICES ASSUME OnTime, Inv, DeliveryInv, Tick PROVE DeliveryInv'
  OBVIOUS
<1>1. /\ day' = day + 1 /\ day \in Nat
      /\ UNCHANGED <<files, present, writers, acked, inbox, cursor, ing, replica>>
      /\ \A w \in Writer : writers[w].stage # "opened"
      /\ \A d \in Day : d + RetainDays < day + 1 =>
           \A i \in DOMAIN files[d] : Behind(cursor, d, i) /\ Behind(replica.cursor, d, i)
  BY Parts DEF Tick, OnTime, Day, journalVars, databaseVars
<1>2. Opened' /\ Today' /\ AnsweredIsDurable'
  BY <1>1, Parts DEF DeliveryInv, Opened, Today, AnsweredIsDurable, Durable, Day
<1>3. StepIsSound'
  <2>1. \A b : FileDelivered(b)' <=> FileDelivered(b)
    BY <1>1 DEF FileDelivered
  <2>2. \A d \in Day : d <= day => d <= day'
    BY <1>1 DEF Day
  <2>3. /\ \A d \in ing.left : d <= day'
        /\ ing.file # NoFile => ing.file <= day'
    BY <2>2, Parts DEF DeliveryInv, StepIsSound
  <2> QED
    BY <1>1, <2>1, <2>3 DEF DeliveryInv, StepIsSound
<1>4. ASSUME NEW q, NEW c, c.file \in Nat, Good(q, c, files, present, day),
             \A d \in Day : d + RetainDays < day + 1 =>
               \A i \in DOMAIN files[d] : Behind(c, d, i)
      PROVE  Good(q, c, files, present, day + 1)
  <2>1. c.file <= day + 1
    BY <1>1, <1>4 DEF Good
  <2>2. \A d \in Day : d + RetainDays < day + 1 \/ d + RetainDays >= day + 1
    BY <1>1, JournalAssumption DEF Day
  <2> QED
    BY <1>4, <2>1, <2>2 DEF Good
<1>5. Good(inbox, cursor, files, present, day)'
  <2>1. Good(inbox, cursor, files, present, day + 1)
    BY <1>1, <1>4, Parts DEF DeliveryInv
  <2> QED
    BY <1>1, <2>1
<1>6. Good(replica.inbox, replica.cursor, files, present, day)'
  <2>1. Good(replica.inbox, replica.cursor, files, present, day + 1)
    BY <1>1, <1>4, Parts DEF DeliveryInv
  <2> QED
    BY <1>1, <2>1
<1> QED
  BY <1>2, <1>3, <1>5, <1>6 DEF DeliveryInv

\* A sweep takes only files that every cursor is past.
LEMMA DeliverySweep == Inv /\ DeliveryInv /\ Sweep => DeliveryInv'
<1> SUFFICES ASSUME Inv, DeliveryInv, Sweep PROVE DeliveryInv'
  OBVIOUS
<1>1. /\ present' = {d \in present : d + RetainDays >= day} /\ day \in Nat
      /\ UNCHANGED <<day, files, writers, acked, inbox, cursor, ing, replica>>
  BY Parts DEF Sweep, Day, databaseVars
<1>2. Opened' /\ Today' /\ AnsweredIsDurable'
  BY <1>1, JournalAssumption DEF DeliveryInv, Opened, Today, AnsweredIsDurable, Durable
<1>3. StepIsSound'
  BY <1>1 DEF DeliveryInv, StepIsSound, FileDelivered
<1>4. \A q, c : Good(q, c, files, present, day) => Good(q, c, files, present', day)
  BY <1>1 DEF Good
<1>5. Good(inbox, cursor, files, present', day) /\ Good(replica.inbox, replica.cursor, files, present', day)
  BY <1>4 DEF DeliveryInv
<1> QED
  BY <1>1, <1>2, <1>3, <1>5 DEF DeliveryInv

\* A step of the ingester that commits nothing.
LEMMA DeliveryReads ==
  ASSUME DeliveryInv, StepIsSound',
         UNCHANGED <<day, files, present, writers, acked, inbox, cursor, replica>>
  PROVE  DeliveryInv'
<1>1. Opened' /\ Today' /\ AnsweredIsDurable'
  BY DEF DeliveryInv, Opened, Today, AnsweredIsDurable, Durable
<1>2. /\ Good(inbox, cursor, files, present, day)'
      /\ Good(replica.inbox, replica.cursor, files, present, day)'
  BY DEF DeliveryInv
<1> QED
  BY <1>1, <1>2 DEF DeliveryInv

LEMMA IdleIsSound == ASSUME ing' = IdleIngester PROVE StepIsSound'
BY DEF StepIsSound, IdleIngester

\* A file that is not listed has been delivered.
LEMMA DeliveryStart == Inv /\ DeliveryInv /\ StartStep => DeliveryInv'
<1> SUFFICES ASSUME Inv, DeliveryInv, StartStep PROVE DeliveryInv'
  OBVIOUS
<1>1. /\ ing'.content = << >> /\ ing'.file = NoFile
      /\ ing'.left = {d \in present : d >= cursor.file}
      /\ UNCHANGED <<day, files, present, writers, acked, inbox, cursor, replica>>
  BY DEF StartStep, IdleIngester, journalVars
<1>2. Good(inbox, cursor, files, present, day)
  BY DEF DeliveryInv
<1>3. ASSUME NEW b \in Day, b \notin ing'.left PROVE FileDelivered(b)
  <2>1. b \notin present \/ b < cursor.file
    BY <1>1, <1>3, Parts DEF Day
  <2>2. \A i \in DOMAIN files[b] : Behind(cursor, b, i)
    BY <1>2, <2>1 DEF Good, Behind
  <2> QED
    BY <1>2, <2>2 DEF Good, FileDelivered
<1>4. \A d \in ing'.left : d <= day
  BY <1>1 DEF DeliveryInv, Today
<1>5. StepIsSound'
  BY <1>1, <1>3, <1>4 DEF StepIsSound, FileDelivered
<1> QED
  BY <1>1, <1>5, DeliveryReads

\* The next file is opened only when those before it have been delivered.
LEMMA DeliveryRead == Inv /\ OrderInv /\ DeliveryInv /\ ReadFile => DeliveryInv'
<1> SUFFICES ASSUME Inv, OrderInv, DeliveryInv, ReadFile PROVE DeliveryInv'
  OBVIOUS
<1>1. /\ UNCHANGED <<day, files, present, writers, acked, inbox, cursor, replica>>
      /\ ing.pos >= Len(ing.content)
  BY DEF ReadFile, journalVars
<1>2. ASSUME NEW d \in ing.left, NEW b \in Day, b < d, b \notin ing.left
      PROVE  FileDelivered(b)
  <2>1. CASE b # ing.file
    BY <1>2, <2>1 DEF DeliveryInv, StepIsSound
  <2>2. CASE b = ing.file
    <3>1. ing.file # NoFile /\ ing.left # {}
      BY <1>2, <2>2 DEF Day, NoFile
    <3>2. /\ Len(ing.content) = Len(files[b])
          /\ \A i \in DOMAIN files[b] : i <= ing.pos => files[b][i] \in Items(inbox)
      BY <2>2, <3>1 DEF DeliveryInv, StepIsSound
    <3>3. \A i \in DOMAIN files[b] : i <= ing.pos
      BY <1>1, <3>2, Parts
    <3> QED
      BY <3>2, <3>3 DEF FileDelivered
  <2> QED
    BY <2>1, <2>2
<1>3. CASE ing' = IdleIngester
  BY <1>1, <1>3, IdleIsSound, DeliveryReads
<1>4. ASSUME NEW d \in ing.left,
             d \in Day /\ d \in present /\ \A y \in ing.left : d <= y,
             ing' = [busy |-> TRUE, left |-> ing.left \ {d}, file |-> d,
                     content |-> files[d], pos |-> StartOffset(d)]
      PROVE  DeliveryInv'
  <2>1. /\ ing'.content = files[d] /\ ing'.file = d /\ ing'.left = ing.left \ {d}
        /\ ing'.pos = StartOffset(d)
    BY <1>4
  <2>2. /\ d # NoFile /\ \A y \in ing.left : y <= day /\ y \in Nat
        /\ \A y \in Day : y < d => y \notin ing.left
    BY <1>4, Parts DEF DeliveryInv, StepIsSound, Day, NoFile
  <2>3. Good(inbox, cursor, files, present, day)
    BY DEF DeliveryInv
  <2>4. StartOffset(d) <= Len(files[d])
    BY <1>4, <2>3, Parts DEF StartOffset, Good
  <2>5. \A i \in DOMAIN files[d] : i <= StartOffset(d) => files[d][i] \in Items(inbox)
    <3>1. ASSUME NEW i \in DOMAIN files[d], i <= StartOffset(d)
          PROVE  files[d][i] \in Items(inbox)
      <4>1. d = cursor.file /\ i <= cursor.offset
        BY <1>4, <3>1, Parts DEF StartOffset
      <4> QED
        BY <1>4, <2>3, <4>1 DEF Good, Behind
    <3> QED
      BY <3>1
  <2>6. \A b \in Day : b < d => FileDelivered(b)
    BY <1>2, <2>2
  <2>7. \A e \in ing.left, b \in Day : b < e /\ b \notin ing.left \ {d} /\ b # d => FileDelivered(b)
    BY <1>2
  <2>8. \A b : FileDelivered(b)' <=> FileDelivered(b)
    BY <1>1 DEF FileDelivered
  <2>9. StepIsSound'
    BY <1>1, <1>4, <2>1, <2>2, <2>4, <2>5, <2>6, <2>7, <2>8 DEF StepIsSound
  <2> QED
    BY <1>1, <2>9, DeliveryReads
<1> QED
  BY <1>3, <1>4, OpenFacts

\* The cursor passes one entry, which is then in the inbox.
LEMMA DeliveryIngest == Inv /\ OrderInv /\ DeliveryInv /\ IngestOne => DeliveryInv'
<1> SUFFICES ASSUME Inv, OrderInv, DeliveryInv, IngestOne PROVE DeliveryInv'
  OBVIOUS
<1> DEFINE x == ing.content[ing.pos + 1]
           f == ing.file
           p == ing.pos
<1>1. /\ f \in Day /\ p + 1 \in DOMAIN files[f]
      /\ x = files[f][p + 1] /\ x \in Delivery
      /\ cursor' = [file |-> f, offset |-> p + 1] /\ inbox' = Inserted(inbox, x)
      /\ ing' = [ing EXCEPT !.pos = p + 1]
      /\ cursor.file < f \/ (cursor.file = f /\ cursor.offset <= p)
      /\ p < Len(ing.content) /\ Len(ing.content) <= Len(files[f])
      /\ UNCHANGED <<day, files, present, writers, acked, replica>>
  BY IngestFacts DEF OrderInv
<1>2. /\ ing'.content = ing.content /\ ing'.file = f /\ ing'.left = ing.left
      /\ ing'.pos = p + 1 /\ cursor'.file = f /\ cursor'.offset = p + 1
      /\ cursor.file \in Nat /\ cursor.offset \in Nat /\ p \in Nat /\ f \in Nat
      /\ Len(ing.content) \in Nat /\ f # NoFile
  BY <1>1, Parts, LenProperties DEF IngesterState, Day, NoFile
<1>3. Items(inbox') = Items(inbox) \cup {x}
  BY <1>1, Parts, InsertedFacts DEF OrderInv
<1>4. /\ f <= day /\ p <= Len(ing.content)
      /\ \A b \in Day : b < f => FileDelivered(b)
      /\ \A i \in DOMAIN files[f] : i <= p => files[f][i] \in Items(inbox)
      /\ ing.left # {} => Len(ing.content) = Len(files[f])
  BY <1>2 DEF DeliveryInv, StepIsSound
<1> HIDE DEF x, f, p
<1>5. \A i \in DOMAIN files[f] : i <= p + 1 => files[f][i] \in Items(inbox')
  <2>1. \A i \in DOMAIN files[f] : i <= p + 1 => i <= p \/ i = p + 1
    BY <1>1, <1>2, Parts
  <2> QED
    BY <1>1, <1>3, <1>4, <2>1
<1>6. \A b : FileDelivered(b) => FileDelivered(b)'
  BY <1>1, <1>3 DEF FileDelivered
<1>7. StepIsSound'
  <2>1. /\ \A d \in ing.left : d <= day
        /\ \A d \in ing.left, b \in Day : b < d /\ b \notin ing.left /\ b # f => FileDelivered(b)
    BY DEF DeliveryInv, StepIsSound, f
  <2>2. p + 1 <= Len(ing.content)
    BY <1>1, <1>2
  <2> QED
    BY <1>1, <1>2, <1>4, <1>5, <1>6, <2>1, <2>2 DEF StepIsSound
<1>8. Good(inbox', cursor', files, present, day)
  <2>1. Good(inbox, cursor, files, present, day)
    BY DEF DeliveryInv
  <2>2. p + 1 <= Len(files[f])
    BY <1>1, Parts
  <2>3. ASSUME NEW d \in Day, NEW i \in DOMAIN files[d]
        PROVE  /\ Behind(cursor', d, i) => files[d][i] \in Items(inbox')
               /\ ~Behind(cursor', d, i) => ~Behind(cursor, d, i)
    <3>1. d \in Nat /\ i \in Nat
      BY Parts DEF Day
    <3>2. ~Behind(cursor', d, i) => ~Behind(cursor, d, i)
      BY <1>1, <1>2, <3>1 DEF Behind
    <3>3. ASSUME Behind(cursor', d, i) PROVE files[d][i] \in Items(inbox')
      <4>1. CASE d < f
        BY <1>3, <1>4, <4>1 DEF FileDelivered
      <4>2. CASE d = f /\ i <= p + 1
        BY <1>5, <4>2
      <4> QED
        BY <1>2, <3>3, <4>1, <4>2 DEF Behind
    <3> QED
      BY <3>2, <3>3
  <2> QED
    BY <1>1, <1>2, <1>4, <2>1, <2>2, <2>3 DEF Good
<1>9. Good(inbox, cursor, files, present, day)'
  BY <1>1, <1>8
<1>10. Good(replica.inbox, replica.cursor, files, present, day)'
  BY <1>1 DEF DeliveryInv
<1>11. Opened' /\ Today' /\ AnsweredIsDurable'
  BY <1>1 DEF DeliveryInv, Opened, Today, AnsweredIsDurable, Durable
<1> QED
  BY <1>7, <1>9, <1>10, <1>11 DEF DeliveryInv

LEMMA DeliveryNext == OnTime /\ Inv /\ OrderInv /\ DeliveryInv /\ [Next]_vars => DeliveryInv'
<1> SUFFICES ASSUME OnTime, Inv, OrderInv, DeliveryInv, [Next]_vars PROVE DeliveryInv'
  OBVIOUS
<1>1. ASSUME NEW w \in Writer, WriterStep(w) PROVE DeliveryInv'
  BY <1>1, DeliveryWriters
<1>2. CASE StartStep
  BY <1>2, DeliveryStart
<1>3. CASE ReadFile
  BY <1>3, DeliveryRead
<1>4. CASE IngestOne
  BY <1>4, DeliveryIngest
<1>5. CASE CrashIngester
  BY <1>5, IdleIsSound, DeliveryReads DEF CrashIngester, journalVars
<1>6. CASE Tick
  BY <1>6, DeliveryTick
<1>7. CASE Sweep
  BY <1>7, DeliverySweep
<1>8. CASE Replicate \/ Restore
  <2>1. /\ UNCHANGED <<day, files, present, writers, acked>>
        /\ \/ inbox' = inbox /\ cursor' = cursor
           \/ inbox' = replica.inbox /\ cursor' = replica.cursor
        /\ \/ replica'.inbox = inbox /\ replica'.cursor = cursor
           \/ replica' = replica
    BY <1>8 DEF Replicate, Restore, journalVars
  <2>2. Opened' /\ Today' /\ AnsweredIsDurable'
    BY <2>1 DEF DeliveryInv, Opened, Today, AnsweredIsDurable, Durable
  <2>3. /\ Good(inbox, cursor, files, present, day)'
        /\ Good(replica.inbox, replica.cursor, files, present, day)'
    BY <2>1 DEF DeliveryInv
  <2>4. StepIsSound'
    <3>1. CASE Replicate
      BY <2>1, <3>1 DEF Replicate, journalVars, DeliveryInv, StepIsSound, FileDelivered
    <3>2. CASE Restore
      BY <3>2, IdleIsSound DEF Restore
    <3> QED
      BY <1>8, <3>1, <3>2
  <2> QED
    BY <2>2, <2>3, <2>4 DEF DeliveryInv
<1>9. CASE UNCHANGED vars
  BY <1>9, DeliveryReads DEF vars, DeliveryInv, StepIsSound, FileDelivered
<1> QED
  BY <1>1, <1>2, <1>3, <1>4, <1>5, <1>6, <1>7, <1>8, <1>9 DEF Next, IngesterStep

LEMMA SpecDelivery == OnTime /\ Spec => []DeliveryInv
<1>1. OnTime /\ Init => OnTime /\ DeliveryInv
  BY DeliveryInit
<1>2. OnTime /\ Inv /\ OrderInv /\ DeliveryInv /\ [Next]_vars => OnTime' /\ DeliveryInv'
  BY DeliveryNext DEF OnTime
<1> QED
  BY <1>1, <1>2, SpecInv, SpecOrder, PTL DEF Spec

\* Where no append straddles midnight, an acknowledged event is in the inbox, or
\* in a file that is still there and that the ingester has yet to reach, whatever
\* crashes, sweeps and restores there are.
THEOREM AckedNeverLostHolds == OnTime /\ Spec => []AckedNeverLost
<1>1. DeliveryInv => AckedNeverLost
  <2> SUFFICES ASSUME DeliveryInv, NEW x \in acked, x \notin Items(inbox)
               PROVE  \E en \in Entry : /\ files[en[1]][en[2]] = x
                                       /\ ~Behind(cursor, en[1], en[2])
                                       /\ en[1] \in present
    BY DEF AckedNeverLost
  <2>1. PICK d \in Day : x \in Items(files[d])
    BY DEF DeliveryInv, AnsweredIsDurable, Durable
  <2>2. PICK i \in DOMAIN files[d] : x = files[d][i]
    BY <2>1 DEF Items
  <2>3. ~Behind(cursor, d, i) /\ d \in present
    BY <2>2 DEF DeliveryInv, Good
  <2>4. <<d, i>> \in Entry
    BY <2>2 DEF Entry
  <2> QED
    BY <2>2, <2>3, <2>4
<1> QED
  BY <1>1, SpecDelivery, PTL

\* An insertion comes after whatever is already in the inbox.
LEMMA InsertedInOrder ==
  ASSUME Inv, OrderInv, DeliveryInv, InboxInJournalOrder, IngestOne
  PROVE  InboxInJournalOrder'
<1> DEFINE x == ing.content[ing.pos + 1]
<1>1. x \in Delivery /\ inbox' = Inserted(inbox, x) /\ files' = files
  BY IngestFacts DEF OrderInv
<1> HIDE DEF x
<1>2. /\ inbox \in Seq(Delivery) /\ Len(inbox) \in Nat /\ DOMAIN inbox = 1 .. Len(inbox)
  BY Parts, LenProperties
<1>3. \A n \in DOMAIN inbox' :
        \/ n \in DOMAIN inbox /\ inbox'[n] = inbox[n]
        \/ n = Len(inbox) + 1 /\ inbox'[n] = x /\ x \notin Items(inbox)
  BY <1>1, <1>2, InsertedFacts DEF OrderInv
<1>4. Entry' = Entry
  BY <1>1 DEF Entry
<1>5. ASSUME NEW n \in DOMAIN inbox, x \notin Items(inbox)
      PROVE  \E a \in Entry :
               /\ files[a[1]][a[2]] = inbox[n]
               /\ \A b \in Entry : files[b[1]][b[2]] = x => Precedes(a, b)
  <2>1. PICK d \in Day : \E i \in DOMAIN files[d] : files[d][i] = inbox[n] /\ Behind(cursor, d, i)
    BY DEF OrderInv, Sourced
  <2>2. PICK i \in DOMAIN files[d] : files[d][i] = inbox[n] /\ Behind(cursor, d, i)
    BY <2>1
  <2>3. <<d, i>> \in Entry
    BY <2>2 DEF Entry
  <2>4. ASSUME NEW b \in Entry, files[b[1]][b[2]] = x PROVE Precedes(<<d, i>>, b)
    <3>1. b[1] \in Day /\ b[2] \in DOMAIN files[b[1]]
      BY DEF Entry
    <3>2. ~Behind(cursor, b[1], b[2])
      BY <1>5, <2>4, <3>1 DEF DeliveryInv, Good
    <3>3. /\ d \in Nat /\ i \in Nat /\ b[1] \in Nat /\ b[2] \in Nat
          /\ cursor.file \in Nat /\ cursor.offset \in Nat
      <4>0. \A e \in Day : DOMAIN files[e] \subseteq Nat
        BY Parts
      <4>1. DOMAIN files[d] \subseteq Nat /\ DOMAIN files[b[1]] \subseteq Nat
        BY <3>1, <4>0
      <4>2. cursor.file \in Nat /\ cursor.offset \in Nat /\ Day \subseteq Nat
        BY Parts DEF Day
      <4> QED
        BY <2>2, <3>1, <4>1, <4>2
    <3> QED
      BY <2>2, <3>2, <3>3 DEF Behind, Precedes
  <2> QED
    BY <2>2, <2>3, <2>4
<1>6. ASSUME NEW i \in DOMAIN inbox', NEW j \in DOMAIN inbox', i < j
      PROVE  \E a \in Entry :
               /\ files[a[1]][a[2]] = inbox'[i]
               /\ \A b \in Entry : files[b[1]][b[2]] = inbox'[j] => Precedes(a, b)
  <2>1. CASE j \in DOMAIN inbox /\ inbox'[j] = inbox[j]
    <3>1. i \in DOMAIN inbox /\ inbox'[i] = inbox[i]
      BY <1>2, <1>3, <1>6, <2>1
    <3> QED
      BY <1>6, <2>1, <3>1 DEF InboxInJournalOrder
  <2>2. CASE j = Len(inbox) + 1 /\ inbox'[j] = x /\ x \notin Items(inbox)
    <3>1. i \in DOMAIN inbox /\ inbox'[i] = inbox[i]
      BY <1>2, <1>3, <1>6, <2>2
    <3> QED
      BY <1>5, <2>2, <3>1
  <2> QED
    BY <1>3, <2>1, <2>2
<1> QED
  BY <1>1, <1>4, <1>6 DEF InboxInJournalOrder

\* A write comes after everything that is in the journal.
LEMMA WrittenInOrder ==
  ASSUME Inv, DeliveryInv, InboxInJournalOrder, NEW w \in Writer, Write(w)
  PROVE  InboxInJournalOrder'
<1>0. writers[w].heldDay = day /\ day \in Day /\ day \in Nat
  BY Parts DEF DeliveryInv, Opened, Write, Day
<1>1. inbox' = inbox
  BY DEF Write, databaseVars
<1>2. /\ Grows
      /\ \A d \in Day : \A i \in DOMAIN files'[d] :
           i \in DOMAIN files[d] \/ (d = day /\ i = Len(files[d]) + 1)
  BY <1>0, WriteGrows
<1>3. ASSUME NEW i \in DOMAIN inbox, NEW j \in DOMAIN inbox, i < j
      PROVE  \E a \in Entry' :
               /\ files'[a[1]][a[2]] = inbox[i]
               /\ \A b \in Entry' : files'[b[1]][b[2]] = inbox[j] => Precedes(a, b)
  <2>1. PICK a \in Entry : /\ files[a[1]][a[2]] = inbox[i]
                          /\ \A b \in Entry : files[b[1]][b[2]] = inbox[j] => Precedes(a, b)
    BY <1>3 DEF InboxInJournalOrder
  <2>2. a = <<a[1], a[2]>> /\ a[1] \in Day /\ a[2] \in DOMAIN files[a[1]]
    BY DEF Entry
  <2>3. a[2] \in DOMAIN files'[a[1]] /\ files'[a[1]][a[2]] = inbox[i]
    BY <1>2, <2>1, <2>2 DEF Grows
  <2>4. a \in Entry'
    BY <2>2, <2>3 DEF Entry
  <2>5. ASSUME NEW b \in Entry', files'[b[1]][b[2]] = inbox[j] PROVE Precedes(a, b)
    <3>1. b = <<b[1], b[2]>> /\ b[1] \in Day /\ b[2] \in DOMAIN files'[b[1]]
      BY DEF Entry
    <3>2. CASE b[2] \in DOMAIN files[b[1]]
      <4>1. b \in Entry
        BY <3>1, <3>2 DEF Entry
      <4>2. files[b[1]][b[2]] = inbox[j]
        BY <1>2, <2>5, <3>1, <3>2 DEF Grows
      <4> QED
        BY <2>1, <4>1, <4>2
    <3>3. CASE b[1] = day /\ b[2] = Len(files[day]) + 1
      <4>0. ASSUME NEW e \in Day, NEW k \in DOMAIN files[e]
            PROVE  e \in Nat /\ k \in Nat /\ k <= Len(files[e]) /\ Len(files[e]) \in Nat
        <5>1. Len(files[e]) \in Nat /\ DOMAIN files[e] = 1 .. Len(files[e])
          BY Parts
        <5> QED
          BY <5>1 DEF Day
      <4>1. a[1] \in Nat /\ a[2] \in Nat /\ a[2] <= Len(files[a[1]]) /\ Len(files[a[1]]) \in Nat
        BY <2>2, <4>0
      <4>2. a[1] <= day
        <5>1. DOMAIN << >> = {}
          OBVIOUS
        <5>2. files[a[1]] # << >>
          BY <2>2, <5>1
        <5> QED
          BY <1>0, <2>2, <4>1, <5>2 DEF DeliveryInv, Today
      <4> QED
        BY <1>0, <3>3, <4>1, <4>2 DEF Precedes
    <3> QED
      BY <1>2, <3>1, <3>2, <3>3
  <2> QED
    BY <2>3, <2>4, <2>5
<1> QED
  BY <1>1, <1>3 DEF InboxInJournalOrder

LEMMA InOrderNext ==
  Inv /\ OrderInv /\ DeliveryInv /\ InboxInJournalOrder /\ [Next]_vars => InboxInJournalOrder'
<1> SUFFICES ASSUME Inv, OrderInv, DeliveryInv, InboxInJournalOrder, [Next]_vars
             PROVE  InboxInJournalOrder'
  OBVIOUS
<1>1. CASE \E w \in Writer : Write(w)
  BY <1>1, WrittenInOrder
<1>2. CASE IngestOne
  BY <1>2, InsertedInOrder
<1>3. CASE files' = files /\ inbox' = inbox
  BY <1>3 DEF InboxInJournalOrder, Entry
<1>4. CASE Restore
  <2>1. inbox' = replica.inbox /\ files' = files
    BY <1>4 DEF Restore, journalVars
  <2>2. /\ Len(replica.inbox) \in Nat /\ DOMAIN replica.inbox = 1 .. Len(replica.inbox)
        /\ Len(inbox) \in Nat /\ DOMAIN inbox = 1 .. Len(inbox) /\ inbox \in Seq(Delivery)
    BY Parts, LenProperties
  <2>3. /\ Len(replica.inbox) <= Len(inbox)
        /\ replica.inbox = SubSeq(inbox, 1, Len(replica.inbox))
    BY DEF Inv, Provenance
  <2>4. \A i \in 1 .. Len(replica.inbox) : SubSeq(inbox, 1, Len(replica.inbox))[i] = inbox[i]
    BY <2>2, <2>3
  <2>5. \A i \in DOMAIN inbox' : i \in DOMAIN inbox /\ inbox'[i] = inbox[i]
    BY <2>1, <2>2, <2>3, <2>4
  <2>6. Entry' = Entry
    BY <2>1 DEF Entry
  <2> QED
    BY <2>1, <2>5, <2>6 DEF InboxInJournalOrder
<1> QED
  BY <1>1, <1>2, <1>3, <1>4 DEF vars, Next, WriterStep, IngesterStep, Submit, Open, Answer,
     AppendFails, TimeoutQueued, TimeoutWritten, CrashWriter, StartStep, ReadFile,
     CrashIngester, Tick, Sweep, Replicate, journalVars, databaseVars

\* Where no append straddles midnight, events enter the inbox in the order in
\* which the journal first recorded them.
THEOREM InboxInJournalOrderHolds == OnTime /\ Spec => []InboxInJournalOrder
<1>1. Init => InboxInJournalOrder
  <2>1. Init => DOMAIN inbox = {}
    BY DEF Init
  <2> QED
    BY <2>1 DEF InboxInJournalOrder
<1> QED
  BY <1>1, InOrderNext, SpecInv, SpecOrder, SpecDelivery, PTL DEF Spec

=============================================================================
