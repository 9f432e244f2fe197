---------------------------- MODULE JournalFile -----------------------------
(***************************************************************************)
(* What Journal takes for one step: JournalWriter.append, down to the      *)
(* zstd frames, as the threads of several processes run it on the files of *)
(* the days (src/task_relay/journal: writer, reader).  A runner has two    *)
(* threads on one JournalWriter: the loop and the heartbeat, which reports *)
(* lease_lost and is never joined; an ingress process has one.             *)
(*                                                                         *)
(* A frame is two pieces, so that a full disk or a power failure can part  *)
(* them.  The buffer is that of open("ab"): a flush that fails keeps what  *)
(* it could not write and the next flush goes on with it.                  *)
(***************************************************************************)
EXTENDS Naturals, Sequences, FiniteSets

CONSTANTS
  Event,
  NoEvent,
  Writer,      \* processes that hold a JournalWriter
  Thread,
  WriterOf,    \* the process of a thread
  MaxDay,      \* bound on the days
  MaxFaults    \* bound on killed processes and power failures

Day == 1 .. MaxDay
NoFile == 0

ASSUME JournalFileAssumption ==
  /\ NoEvent \notin Event
  /\ WriterOf \in [Thread -> Writer]
  /\ MaxDay \in Nat \ {0}
  /\ MaxFaults \in Nat

VARIABLES
  day,     \* today, UTC
  begun,   \* history: the events whose append has begun
  thread,  \* per thread: where it is in append
  handle,  \* per process: _journal_file, its day and its buffer
  files,   \* per day: what the operating system has of the file
  synced,  \* per day: how much of it is on the disk
  acked,   \* history: the events whose append has returned
  faults,  \* how many faults there have been
  mishaps  \* history: what has happened to a file or a compressor

vars == <<day, begun, thread, handle, files, synced, acked, faults, mishaps>>

\* What compress makes while another thread is in the same compressor is noise.
Piece == [event: Event, part: {"head", "tail", "noise"}]

Frame(e) == <<[event |-> e, part |-> "head"], [event |-> e, part |-> "tail"]>>

Noise(e) == <<[event |-> e, part |-> "noise"]>>

\* dated: append has today's date; closed: close is done, the file not yet open;
\* ready: _rotate_if_needed has returned.
ThreadState ==
  [at: {"idle", "dated", "closed", "ready", "written", "flushed"},
   event: Event \cup {NoEvent}, day: {NoFile} \cup Day]

Idle == [at |-> "idle", event |-> NoEvent, day |-> NoFile]

NoHandle == [day |-> NoFile, buf |-> << >>]

\* moved: a file was closed under a thread with an entry on its way to it;
\* mixed: two threads were in one compressor; cut: half a frame was written.
Mishap == {"moved", "mixed", "cut"}

Init ==
  /\ day = 1
  /\ begun = {}
  /\ thread = [t \in Thread |-> Idle]
  /\ handle = [w \in Writer |-> NoHandle]
  /\ files = [d \in Day |-> << >>]
  /\ synced = [d \in Day |-> 0]
  /\ acked = {}
  /\ faults = 0
  /\ mishaps = {}

-----------------------------------------------------------------------------
(* The reader *)

Whole(e, f) == \E i \in 1 .. Len(f) - 1 : <<f[i], f[i + 1]>> = Frame(e)

\* Behind half a frame the decompressor takes what follows for the other half.
\* Half a frame at the end is only the end of the data.
Broken(f) ==
  \E i \in DOMAIN f :
    \/ f[i].part = "noise"
    \/ f[i].part = "head" /\ i < Len(f) /\ f[i + 1] # [f[i] EXCEPT !.part = "tail"]

\* _iterate_file decompresses the whole file before it yields an event.
Readable(f) == IF Broken(f) THEN {} ELSE {e \in Event : Whole(e, f)}

-----------------------------------------------------------------------------
(* append *)

Goes(t, at) == thread' = [thread EXCEPT ![t].at = at]

Ends(t) == thread' = [thread EXCEPT ![t] = Idle]

Begin(t, e) ==
  /\ thread[t].at = "idle" /\ e \notin begun
  /\ begun' = begun \cup {e}
  /\ thread' = [thread EXCEPT ![t] = [at |-> "dated", event |-> e, day |-> day]]
  /\ UNCHANGED <<day, handle, files, synced, acked, faults, mishaps>>

\* The file of the day is open.
KeepFile(t) ==
  /\ thread[t].at = "dated"
  /\ handle[WriterOf[t]].day = thread[t].day
  /\ Goes(t, "ready")
  /\ UNCHANGED <<day, begun, handle, files, synced, acked, faults, mishaps>>

OnItsWay == {"ready", "written", "flushed"}

MovedUnder(w) ==
  {m \in {"moved"} : \E t \in Thread : WriterOf[t] = w /\ thread[t].at \in OnItsWay}

\* The first n pieces of f end with half a frame.
CutAt(f, n) == {m \in {"cut"} : n \in DOMAIN f /\ f[n].part = "head"}

\* How much of a buffer a flush can write: all of it, unless the disk is full.
Fits(buf) == 0 .. Len(buf)

\* n pieces of w's buffer go into w's file.
Spilled(w, n) ==
  IF handle[w].day = NoFile
  THEN files
  ELSE [files EXCEPT ![handle[w].day] = @ \o SubSeq(handle[w].buf, 1, n)]

\* The flush of close may fail; then append raises.  The file is closed all the
\* same, and the next append passes over it.
CloseFile(t) ==
  LET w == WriterOf[t]
  IN  /\ thread[t].at = "dated"
      /\ handle[w].day # thread[t].day
      /\ \E n \in Fits(handle[w].buf) :
           /\ files' = Spilled(w, n)
           /\ mishaps' = mishaps \cup MovedUnder(w) \cup CutAt(handle[w].buf, n)
           /\ IF n = Len(handle[w].buf) THEN Goes(t, "closed") ELSE Ends(t)
      /\ handle' = [handle EXCEPT ![w] = NoHandle]
      /\ UNCHANGED <<day, begun, synced, acked, faults>>

\* _existing_offset reads the file first.  What another thread has opened since is
\* dropped, which flushes it.
OpenFile(t) ==
  LET w == WriterOf[t]
  IN  /\ thread[t].at = "closed"
      /\ ~Broken(files[thread[t].day])
      /\ \E n \in Fits(handle[w].buf) :
           /\ files' = Spilled(w, n)
           /\ mishaps' = mishaps \cup MovedUnder(w) \cup CutAt(handle[w].buf, n)
      /\ handle' = [handle EXCEPT ![w] = [day |-> thread[t].day, buf |-> << >>]]
      /\ Goes(t, "ready")
      /\ UNCHANGED <<day, begun, synced, acked, faults>>

InCompress(t) ==
  \E u \in Thread \ {t} : WriterOf[u] = WriterOf[t] /\ thread[u].at = "ready"

MixedBy(t) == {m \in {"mixed"} : InCompress(t)}

Compressed(t) ==
  LET e == thread[t].event
  IN  {Frame(e)} \cup {n \in {Noise(e)} : "mixed" \in mishaps \cup MixedBy(t)}

Write(t) ==
  /\ thread[t].at = "ready"
  /\ handle[WriterOf[t]].day # NoFile
  /\ \E frame \in Compressed(t) : handle' = [handle EXCEPT ![WriterOf[t]].buf = @ \o frame]
  /\ mishaps' = mishaps \cup MixedBy(t)
  /\ Goes(t, "written")
  /\ UNCHANGED <<day, begun, files, synced, acked, faults>>

\* no flush
FlushForgotten(t) ==
  /\ thread[t].at = "written"
  /\ handle[WriterOf[t]].day # NoFile
  /\ Goes(t, "flushed")
  /\ UNCHANGED <<day, begun, handle, files, synced, acked, faults, mishaps>>

\* flush is of the file that is open now.
Flush(t) ==
  LET w == WriterOf[t]
      buf == handle[w].buf
  IN  /\ thread[t].at = "written"
      /\ handle[w].day # NoFile
      /\ \E n \in Fits(buf) :
           /\ files' = Spilled(w, n)
           /\ handle' = [handle EXCEPT ![w].buf = SubSeq(buf, n + 1, Len(buf))]
           /\ mishaps' = mishaps \cup CutAt(buf, n)
           /\ IF n = Len(buf) THEN Goes(t, "flushed") ELSE Ends(t)
      /\ UNCHANGED <<day, begun, synced, acked, faults>>

\* no fsync
SyncForgotten(t) ==
  /\ thread[t].at = "flushed"
  /\ handle[WriterOf[t]].day # NoFile
  /\ acked' = acked \cup {thread[t].event}
  /\ Ends(t)
  /\ UNCHANGED <<day, begun, handle, files, synced, faults, mishaps>>

\* So is fsync.  append returns.
Sync(t) ==
  LET d == handle[WriterOf[t]].day
  IN  /\ thread[t].at = "flushed"
      /\ d # NoFile
      /\ synced' = [synced EXCEPT ![d] = Len(files[d])]
      /\ acked' = acked \cup {thread[t].event}
      /\ Ends(t)
      /\ UNCHANGED <<day, begun, handle, files, faults, mishaps>>

\* The file cannot be read, or another thread has closed it, or fsync fails.
Raise(t) ==
  /\ \/ thread[t].at = "closed" /\ Broken(files[thread[t].day])
     \/ thread[t].at \in {"ready", "written"} /\ handle[WriterOf[t]].day = NoFile
     \/ thread[t].at = "flushed"
  /\ Ends(t)
  /\ UNCHANGED <<day, begun, handle, files, synced, acked, faults, mishaps>>

-----------------------------------------------------------------------------
(* The process and the machine *)

\* The command ends: its main thread closes the writer.
Close(w) ==
  /\ \E t \in Thread : WriterOf[t] = w /\ thread[t].at = "idle"
  /\ \E n \in Fits(handle[w].buf) :
       /\ files' = Spilled(w, n)
       /\ mishaps' = mishaps \cup MovedUnder(w) \cup CutAt(handle[w].buf, n)
  /\ handle' = [handle EXCEPT ![w] = NoHandle]
  /\ UNCHANGED <<day, begun, thread, synced, acked, faults>>

\* The buffer is lost, the file is not.
Kill(w) ==
  /\ faults < MaxFaults
  /\ faults' = faults + 1
  /\ thread' = [t \in Thread |-> IF WriterOf[t] = w THEN Idle ELSE thread[t]]
  /\ handle' = [handle EXCEPT ![w] = NoHandle]
  /\ UNCHANGED <<day, begun, files, synced, acked, mishaps>>

\* What fsync has written stays; of the rest some more may.
PowerFailure ==
  /\ faults < MaxFaults
  /\ faults' = faults + 1
  /\ \E n \in [Day -> 0 .. 2 * Cardinality(begun)] :
       /\ \A d \in Day : n[d] \in synced[d] .. Len(files[d])
       /\ files' = [d \in Day |-> SubSeq(files[d], 1, n[d])]
       /\ synced' = n
       /\ mishaps' = mishaps \cup UNION {CutAt(files[d], n[d]) : d \in Day}
  /\ thread' = [t \in Thread |-> Idle]
  /\ handle' = [w \in Writer |-> NoHandle]
  /\ UNCHANGED <<day, begun, acked>>

NextDay ==
  /\ day < MaxDay
  /\ day' = day + 1
  /\ UNCHANGED <<begun, thread, handle, files, synced, acked, faults, mishaps>>

Next ==
  \/ \E t \in Thread :
       \/ \E e \in Event : Begin(t, e)
       \/ KeepFile(t) \/ CloseFile(t) \/ OpenFile(t)
       \/ Write(t) \/ Flush(t) \/ Sync(t) \/ Raise(t)
  \/ \E w \in Writer : Close(w) \/ Kill(w)
  \/ PowerFailure
  \/ NextDay

Spec == Init /\ [][Next]_vars
=============================================================================
