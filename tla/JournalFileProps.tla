-------------------------- MODULE JournalFileProps --------------------------
(***************************************************************************)
(* What a return of JournalWriter.append promises.                         *)
(***************************************************************************)
EXTENDS JournalFile

\* Every variable keeps its type, and no more of a file is on the disk than it has.
TypeOK ==
  /\ day \in Day
  /\ begun \subseteq Event /\ acked \subseteq begun
  /\ thread \in [Thread -> ThreadState]
  /\ handle \in [Writer -> [day: {NoFile} \cup Day, buf: Seq(Piece)]]
  /\ files \in [Day -> Seq(Piece)]
  /\ synced \in [Day -> Nat]
  /\ \A d \in Day : synced[d] <= Len(files[d])
  /\ faults \in 0 .. MaxFaults
  /\ mishaps \subseteq Mishap

\* All that append made of e is in the first n pieces of f.
IsIn(e, f, n) == \E i \in DOMAIN f : i <= n /\ f[i].event = e /\ f[i].part # "head"

\* When append has returned, the entry is on the disk and no failure takes it away
\* (writer.append: write, flush, fsync), whatever other threads and processes do, unless
\* a thread has rotated or closed the JournalWriter under another one.
AckedIsSynced ==
  "moved" \notin mishaps =>
    \A e \in acked : \E d \in Day : IsIn(e, files[d], synced[d])

\* When append has returned, the reader can read the entry, whatever other processes and
\* failures have put or left next to it (writer.append, reader._iterate_file), unless
\* besides half a frame was written or two threads were in one compressor.
AckedIsReadable ==
  mishaps = {} => \A e \in acked : \E d \in Day : e \in Readable(files[d])
=============================================================================
