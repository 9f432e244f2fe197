------------------------------ MODULE Journal -------------------------------
(***************************************************************************)
(* The way of an event from an ingress process to event_inbox: the journal *)
(* writers (Forgejo webhook server, Discord gateway, runner), the daily    *)
(* files, the ingester that copies them into SQLite, the retention sweep,  *)
(* and the replica the database is restored from.                          *)
(*                                                                         *)
(* An event is its (source, delivery_id), the key of event_inbox; offsets  *)
(* count entries, not bytes.  A day is a number; file d is YYYYMMDD of day *)
(* d.  The content of a swept file is kept in `files` as history; only     *)
(* days in `present` can be read.                                          *)
(***************************************************************************)
EXTENDS Naturals, Sequences, FiniteSets

CONSTANTS
  Delivery,      \* delivery ids
  Redeliverable, \* those whose sender may deliver again (Forgejo)
  Writer,        \* processes that hold a JournalWriter
  Gateway,       \* those that are Discord gateways: queue, deadline, no retry
  QueueCapacity, \* WRITER_QUEUE_CAPACITY
  RetainDays,    \* RETAIN_DAYS_LOCAL
  Straddle,      \* may midnight fall between clock.now() and the write?
  MaxDay,        \* bound on the days
  MaxEntries,    \* bound on the entries of one file
  MaxFaults      \* bound on process crashes and database restores

None == "none"

ASSUME JournalAssumption ==
  /\ Gateway \subseteq Writer
  /\ Redeliverable \subseteq Delivery
  /\ None \notin Delivery
  /\ QueueCapacity \in Nat \ {0}
  /\ RetainDays \in Nat
  /\ Straddle \in BOOLEAN
  /\ MaxDay \in Nat \ {0}
  /\ MaxEntries \in Nat
  /\ MaxFaults \in Nat

VARIABLES
  day,      \* today, UTC
  files,    \* journal entries per day
  present,  \* days whose file exists
  writers,  \* per process: queue of requests, and the append under way
  acked,    \* history: deliveries answered with success
  refused,  \* history: deliveries answered with failure
  inbox,    \* event_inbox, in order of insertion
  cursor,   \* journal_ingester_state
  ing,      \* the ingester's step under way
  replica,  \* what the database replica holds
  faults    \* how many faults there have been

vars == <<day, files, present, writers, acked, refused, inbox, cursor, ing, replica, faults>>

journalVars == <<files, present, writers, acked, refused>>
databaseVars == <<inbox, cursor, ing, replica>>

Day == 1 .. MaxDay
NoFile == 0

Cursor == [file: Nat, offset: Nat]

\* stage: idle; opened, the day is computed and its file open; written, the
\* entry is fsynced and the answer not yet given.
WriterState ==
  [ queue: Seq(Delivery), held: Delivery \cup {None}, heldDay: Nat,
    stage: {"idle", "opened", "written"} ]

IdleWriter == [queue |-> << >>, held |-> None, heldDay |-> NoFile, stage |-> "idle"]

IdleIngester ==
  [busy |-> FALSE, left |-> {}, file |-> NoFile, content |-> << >>, pos |-> 0]

Items(s) == {s[i] : i \in DOMAIN s}

-----------------------------------------------------------------------------
(* Writers *)

Durable == UNION {Items(files[d]) : d \in Day}

InFlight == UNION {Items(writers[w].queue) \cup {writers[w].held} : w \in Writer}

\* Forgejo may deliver again, under the same id, what it has delivered before;
\* its handler appends at once.  A Discord command has a new id each time, is
\* never sent again, and waits in the gateway's queue.
MaySubmit(w, x) ==
  IF w \in Gateway
  THEN x \notin Redeliverable \cup acked \cup refused \cup InFlight \cup Durable
  ELSE x \in Redeliverable /\ writers[w].queue = << >> /\ writers[w].stage = "idle"

Submit(w, x) ==
  /\ MaySubmit(w, x)
  /\ IF Len(writers[w].queue) < QueueCapacity
     THEN writers' = [writers EXCEPT ![w].queue = Append(@, x)] /\ UNCHANGED refused
     ELSE refused' = refused \cup {x} /\ UNCHANGED writers
  /\ UNCHANGED <<day, faults, files, present, acked, databaseVars>>

\* JournalWriter.append computes the day and opens that day's file.
Open(w) ==
  /\ writers[w].stage = "idle"
  /\ writers[w].queue # << >>
  /\ Len(files[day]) + Cardinality({v \in Writer : writers[v].stage = "opened"}) < MaxEntries
  /\ writers' = [writers EXCEPT ![w] = [queue |-> Tail(@.queue), held |-> Head(@.queue),
                                        heldDay |-> day, stage |-> "opened"]]
  /\ present' = present \cup {day}
  /\ UNCHANGED <<day, faults, files, acked, refused, databaseVars>>

\* write, flush and fsync
Write(w) ==
  /\ writers[w].stage = "opened"
  /\ files' = [files EXCEPT ![writers[w].heldDay] = Append(@, writers[w].held)]
  /\ writers' = [writers EXCEPT ![w].stage = "written"]
  /\ UNCHANGED <<day, faults, present, acked, refused, databaseVars>>

ReleasedAsAnswered(w) == [writers[w] EXCEPT !.held = None, !.stage = "answered"]

Released(w) == [IdleWriter EXCEPT !.queue = writers[w].queue]

\* 202, or "Accepted"
Answer(w) ==
  /\ writers[w].stage = "written"
  /\ acked' = acked \cup {writers[w].held}
  /\ writers' = [writers EXCEPT ![w] = Released(w)]
  /\ UNCHANGED <<day, faults, files, present, refused, databaseVars>>

\* append raises before anything is written
AppendFails(w) ==
  /\ writers[w].stage = "opened"
  /\ refused' = refused \cup {writers[w].held}
  /\ writers' = [writers EXCEPT ![w] = Released(w)]
  /\ UNCHANGED <<day, faults, files, present, acked, databaseVars>>

\* The deadline passes while the request waits: its future is cancelled, and
\* the writer loop passes over it.
TimeoutQueued(w, i) ==
  /\ w \in Gateway
  /\ LET q == writers[w].queue
     IN  /\ refused' = refused \cup {q[i]}
         /\ writers' = [writers EXCEPT ![w].queue =
                          SubSeq(q, 1, i - 1) \o SubSeq(q, i + 1, Len(q))]
  /\ UNCHANGED <<day, faults, files, present, acked, databaseVars>>

\* The deadline passes during the append, which blocks the event loop: when
\* the loop runs again the entry is durable and the timer is due.
TimeoutWritten(w) ==
  /\ w \in Gateway
  /\ writers[w].stage = "written"
  /\ refused' = refused \cup {writers[w].held}
  /\ writers' = [writers EXCEPT ![w] = Released(w)]
  /\ UNCHANGED <<day, faults, files, present, acked, databaseVars>>

CrashWriter(w) ==
  /\ faults < MaxFaults
  /\ faults' = faults + 1
  /\ writers[w] # IdleWriter
  /\ writers' = [writers EXCEPT ![w] = IdleWriter]
  /\ UNCHANGED <<day, files, present, acked, refused, databaseVars>>

-----------------------------------------------------------------------------
(* The ingester *)

\* step: the cursor is read and the files are listed, once.
StartStep ==
  /\ ~ing.busy
  /\ ing' = [IdleIngester EXCEPT !.busy = TRUE, !.left = {d \in present : d >= cursor.file}]
  /\ UNCHANGED <<day, faults, journalVars, inbox, cursor, replica>>

EveryOffsetCarriesOver(d) == cursor.offset

EveryFileFromTheTop(d) == 0

StartOffset(d) == IF d = cursor.file THEN cursor.offset ELSE 0

\* The next listed file is read whole; a file swept since then ends the step.
OpenListed(left) ==
  LET d == CHOOSE x \in left : \A y \in left : x <= y
  IN  IF d \in present
      THEN ing' = [busy |-> TRUE, left |-> left \ {d}, file |-> d, content |-> files[d],
                   pos |-> StartOffset(d)]
      ELSE ing' = IdleIngester

ReadFileRelisting ==
  /\ ing.busy
  /\ ing.pos >= Len(ing.content)
  /\ LET left == {d \in present : d > ing.file /\ d >= cursor.file}
     IN  IF left = {} THEN ing' = IdleIngester ELSE OpenListed(left)
  /\ UNCHANGED <<day, faults, journalVars, inbox, cursor, replica>>

ReadFile ==
  /\ ing.busy
  /\ ing.pos >= Len(ing.content)
  /\ IF ing.left = {} THEN ing' = IdleIngester ELSE OpenListed(ing.left)
  /\ UNCHANGED <<day, faults, journalVars, inbox, cursor, replica>>

InsertedAgain(q, x) == Append(q, x)

\* insert_event: UNIQUE(source, delivery_id) makes a second insert a no-op.
Inserted(q, x) == IF x \in Items(q) THEN q ELSE Append(q, x)

\* One transaction: the row and the cursor.
IngestOne ==
  /\ ing.busy
  /\ ing.pos < Len(ing.content)
  /\ inbox' = Inserted(inbox, ing.content[ing.pos + 1])
  /\ cursor' = [file |-> ing.file, offset |-> ing.pos + 1]
  /\ ing' = [ing EXCEPT !.pos = @ + 1]
  /\ UNCHANGED <<day, faults, journalVars, replica>>

CrashIngester ==
  /\ faults < MaxFaults
  /\ faults' = faults + 1
  /\ ing.busy
  /\ ing' = IdleIngester
  /\ UNCHANGED <<day, journalVars, inbox, cursor, replica>>

-----------------------------------------------------------------------------
(* Time, retention, replication *)

\* Entry i of file d is behind cursor c.
Behind(c, d, i) == d < c.file \/ (d = c.file /\ i <= c.offset)

\* Midnight.  The ingester and the replica are assumed never to lag by
\* RetainDays days.
Tick ==
  /\ day < MaxDay
  /\ Straddle \/ \A w \in Writer : writers[w].stage # "opened"
  /\ \A d \in Day : d + RetainDays < day + 1 =>
       \A i \in DOMAIN files[d] : Behind(cursor, d, i) /\ Behind(replica.cursor, d, i)
  /\ day' = day + 1
  /\ UNCHANGED <<faults, journalVars, databaseVars>>

\* JournalRetention.sweep
Sweep ==
  /\ \E d \in present : d + RetainDays < day
  /\ present' = {d \in present : d + RetainDays >= day}
  /\ UNCHANGED <<day, faults, files, writers, acked, refused, databaseVars>>

\* External: the database is copied, and restored from the copy.
Replicate ==
  /\ replica' = [inbox |-> inbox, cursor |-> cursor]
  /\ UNCHANGED <<day, faults, journalVars, inbox, cursor, ing>>

Restore ==
  /\ faults < MaxFaults
  /\ faults' = faults + 1
  /\ inbox' = replica.inbox
  /\ cursor' = replica.cursor
  /\ ing' = IdleIngester
  /\ UNCHANGED <<day, journalVars, replica>>

-----------------------------------------------------------------------------
Init ==
  /\ day = 1
  /\ files = [d \in Day |-> << >>]
  /\ present = {}
  /\ writers = [w \in Writer |-> IdleWriter]
  /\ acked = {}
  /\ refused = {}
  /\ inbox = << >>
  /\ cursor = [file |-> NoFile, offset |-> 0]
  /\ ing = IdleIngester
  /\ replica = [inbox |-> << >>, cursor |-> [file |-> NoFile, offset |-> 0]]
  /\ faults = 0

WriterStep(w) ==
  \/ \E x \in Delivery : Submit(w, x)
  \/ Open(w) \/ Write(w) \/ Answer(w) \/ AppendFails(w)
  \/ \E i \in DOMAIN writers[w].queue : TimeoutQueued(w, i)
  \/ TimeoutWritten(w) \/ CrashWriter(w)

IngesterStep == StartStep \/ ReadFile \/ IngestOne

Next ==
  \/ \E w \in Writer : WriterStep(w)
  \/ IngesterStep \/ CrashIngester
  \/ Tick \/ Sweep \/ Replicate \/ Restore

Spec == Init /\ [][Next]_vars

\* run_forever keeps stepping, and is restarted when it dies; nothing else is
\* promised to happen.
FairSpec == Spec /\ WF_vars(IngesterStep)
=============================================================================
