-------------------------- MODULE JournalFileProofs -------------------------
(***************************************************************************)
(* Proofs about the append to a journal file, for all events, processes,   *)
(* threads, days and faults: what has been acknowledged is on the disk,    *)
(* until a thread moves the file under another one; and it can be read,    *)
(* until besides two meet in a compressor or half a frame is written.      *)
(***************************************************************************)
EXTENDS JournalFileProps, SequenceTheorems, TLAPS

\* A thread that is in append has a day, and its event has begun.
Busy == \A t \in Thread : thread[t].at # "idle" => thread[t].day \in Day /\ thread[t].event \in begun

TypeInv == TypeOK /\ Busy

\* g is f with more behind it.
Extends(f, g) ==
  /\ f \in Seq(Piece) /\ g \in Seq(Piece) /\ Len(f) <= Len(g)
  /\ \A i \in DOMAIN f : i \in DOMAIN g /\ g[i] = f[i]

-----------------------------------------------------------------------------
(* Sequences of pieces *)

LEMMA ConcatExtends ==
  ASSUME NEW f \in Seq(Piece), NEW g \in Seq(Piece)
  PROVE  f \o g \in Seq(Piece) /\ Len(f \o g) = Len(f) + Len(g) /\ Extends(f, f \o g)
<1>1. f \o g \in Seq(Piece) /\ Len(f \o g) = Len(f) + Len(g)
  BY ConcatProperties
<1>2. \A i \in 1 .. Len(f) + Len(g) : (f \o g)[i] = IF i <= Len(f) THEN f[i] ELSE g[i - Len(f)]
  BY ConcatProperties
<1>3. /\ Len(f) \in Nat /\ Len(g) \in Nat /\ DOMAIN f = 1 .. Len(f)
      /\ DOMAIN (f \o g) = 1 .. Len(f \o g)
  BY <1>1, LenProperties
<1> QED
  BY <1>1, <1>2, <1>3 DEF Extends

LEMMA CutType ==
  ASSUME NEW f \in Seq(Piece), NEW n \in 0 .. Len(f)
  PROVE  /\ SubSeq(f, 1, n) \in Seq(Piece) /\ Len(SubSeq(f, 1, n)) = n
         /\ \A i \in 1 .. n : SubSeq(f, 1, n)[i] = f[i]
<1>1. Len(f) \in Nat /\ \A i \in 1 .. Len(f) : f[i] \in Piece
  BY LenProperties, ElementOfSeq
<1>2. \A i \in 1 .. n : f[i] \in Piece
  BY <1>1
<1>3. /\ SubSeq(f, 1, n) \in Seq(Piece)
      /\ Len(SubSeq(f, 1, n)) = IF 1 <= n THEN n - 1 + 1 ELSE 0
      /\ \A i \in 1 .. n - 1 + 1 : SubSeq(f, 1, n)[i] = f[1 + i - 1]
  BY <1>1, <1>2, SubSeqProperties
<1> QED
  BY <1>1, <1>3

LEMMA RestType ==
  ASSUME NEW f \in Seq(Piece), NEW n \in 0 .. Len(f)
  PROVE  /\ SubSeq(f, n + 1, Len(f)) \in Seq(Piece)
         /\ Len(SubSeq(f, n + 1, Len(f))) = Len(f) - n
         /\ \A i \in 1 .. Len(f) - n : SubSeq(f, n + 1, Len(f))[i] = f[n + i]
<1>1. Len(f) \in Nat /\ \A i \in 1 .. Len(f) : f[i] \in Piece
  BY LenProperties, ElementOfSeq
<1>2. \A i \in n + 1 .. Len(f) : f[i] \in Piece
  BY <1>1
<1>3. n + 1 \in Int /\ Len(f) \in Int
  BY <1>1
<1> DEFINE h == SubSeq(f, n + 1, Len(f))
<1>4. /\ h \in Seq(Piece)
      /\ Len(h) = IF n + 1 <= Len(f) THEN Len(f) - (n + 1) + 1 ELSE 0
      /\ \A i \in 1 .. Len(f) - (n + 1) + 1 : h[i] = f[n + 1 + i - 1]
  BY <1>2, <1>3, SubSeqProperties
<1> HIDE DEF h
<1>5. Len(h) = Len(f) - n
  BY <1>1, <1>4
<1>6. ASSUME NEW i \in 1 .. Len(f) - n PROVE h[i] = f[n + i]
  <2>1. i \in 1 .. Len(f) - (n + 1) + 1 /\ n + 1 + i - 1 = n + i
    BY <1>1
  <2> QED
    BY <1>4, <2>1
<1> QED
  BY <1>4, <1>5, <1>6 DEF h

\* What is in a file stays in what extends it, and in what is cut behind it.
LEMMA IsInExtended ==
  ASSUME NEW e, NEW f, NEW g, Extends(f, g), NEW n \in Nat, NEW m \in Nat, n <= m, IsIn(e, f, n)
  PROVE  IsIn(e, g, m)
<1>1. PICK i \in DOMAIN f : i <= n /\ f[i].event = e /\ f[i].part # "head"
  BY DEF IsIn
<1>2. i \in DOMAIN g /\ g[i] = f[i] /\ i \in Nat
  BY LenProperties DEF Extends
<1> QED
  BY <1>1, <1>2 DEF IsIn

\* What is in a sequence is in its first n pieces or in the rest.
LEMMA IsInParts ==
  ASSUME NEW e, NEW f \in Seq(Piece), NEW n \in 0 .. Len(f), IsIn(e, f, Len(f))
  PROVE  \/ IsIn(e, SubSeq(f, 1, n), Len(SubSeq(f, 1, n)))
         \/ IsIn(e, SubSeq(f, n + 1, Len(f)), Len(SubSeq(f, n + 1, Len(f))))
<1> DEFINE g == SubSeq(f, 1, n)
           h == SubSeq(f, n + 1, Len(f))
<1>1. PICK i \in 1 .. Len(f) : f[i].event = e /\ f[i].part # "head"
  BY LenProperties DEF IsIn
<1>2. Len(f) \in Nat
  BY LenProperties
<1>3. CASE i <= n
  <2>1. g \in Seq(Piece) /\ Len(g) = n /\ i \in 1 .. n /\ g[i] = f[i]
    BY <1>2, <1>3, CutType
  <2>2. i \in DOMAIN g /\ i <= Len(g)
    BY <1>2, <2>1, LenProperties
  <2> QED
    BY <1>1, <2>1, <2>2 DEF IsIn
<1>4. CASE ~(i <= n)
  <2>1. /\ h \in Seq(Piece) /\ Len(h) = Len(f) - n
        /\ \A j \in 1 .. Len(f) - n : h[j] = f[n + j]
    BY RestType
  <2>2. i - n \in 1 .. Len(f) - n /\ n + (i - n) = i
    BY <1>2, <1>4
  <2>3. h[i - n] = f[i]
    BY <2>1, <2>2
  <2>4. i - n \in DOMAIN h /\ i - n <= Len(h)
    BY <1>2, <2>1, <2>2, LenProperties
  <2> QED
    BY <1>1, <2>3, <2>4 DEF IsIn
<1> QED
  BY <1>3, <1>4

LEMMA IsInCut ==
  ASSUME NEW e, NEW f \in Seq(Piece), NEW n \in Nat, NEW m \in n .. Len(f), IsIn(e, f, n)
  PROVE  IsIn(e, SubSeq(f, 1, m), m)
<1>1. PICK i \in DOMAIN f : i <= n /\ f[i].event = e /\ f[i].part # "head"
  BY DEF IsIn
<1>2. Len(f) \in Nat /\ i \in 1 .. Len(f)
  BY LenProperties
<1>3. m \in 0 .. Len(f) /\ i \in 1 .. m
  BY <1>1, <1>2
<1>4. /\ SubSeq(f, 1, m) \in Seq(Piece) /\ Len(SubSeq(f, 1, m)) = m
      /\ SubSeq(f, 1, m)[i] = f[i]
  BY <1>3, CutType
<1>5. i \in DOMAIN SubSeq(f, 1, m)
  BY <1>3, <1>4, LenProperties
<1> QED
  BY <1>1, <1>3, <1>4, <1>5 DEF IsIn

\* What a flush puts into the file goes behind what is there.
LEMMA SpilledFacts ==
  ASSUME TypeInv, NEW w \in Writer, NEW n \in Fits(handle[w].buf)
  PROVE  /\ n \in 0 .. Len(handle[w].buf)
         /\ Spilled(w, n) \in [Day -> Seq(Piece)]
         /\ \A d \in Day : Extends(files[d], Spilled(w, n)[d])
         /\ handle[w].day \in Day =>
              Spilled(w, n)[handle[w].day] =
                files[handle[w].day] \o SubSeq(handle[w].buf, 1, n)
<1> DEFINE buf == handle[w].buf
           h == handle[w].day
<1>1. buf \in Seq(Piece) /\ h \in {NoFile} \cup Day /\ Len(buf) \in Nat
  BY LenProperties DEF TypeInv, TypeOK
<1>2. n \in 0 .. Len(buf)
  BY <1>1 DEF Fits
<1>3. SubSeq(buf, 1, n) \in Seq(Piece)
  BY <1>1, <1>2, CutType
<1>4. files \in [Day -> Seq(Piece)]
  BY DEF TypeInv, TypeOK
<1>5. CASE h = NoFile
  <2>1. NoFile \notin Day /\ Spilled(w, n) = files
    BY <1>5 DEF Spilled, Day, NoFile
  <2>2. ASSUME NEW d \in Day PROVE Extends(files[d], files[d])
    BY <1>4 DEF Extends
  <2> QED
    BY <1>2, <1>4, <1>5, <2>1, <2>2
<1>6. CASE h # NoFile
  <2>1. h \in Day /\ Spilled(w, n) = [files EXCEPT ![h] = @ \o SubSeq(buf, 1, n)]
    BY <1>1, <1>6 DEF Spilled
  <2>2. files[h] \in Seq(Piece)
    BY <1>4, <2>1
  <2>3. files[h] \o SubSeq(buf, 1, n) \in Seq(Piece) /\ Extends(files[h], files[h] \o SubSeq(buf, 1, n))
    BY <1>3, <2>2, ConcatExtends
  <2>4. Spilled(w, n) \in [Day -> Seq(Piece)]
    BY <1>4, <2>1, <2>3
  <2>5. ASSUME NEW d \in Day PROVE Extends(files[d], Spilled(w, n)[d])
    <3>1. CASE d = h
      BY <1>4, <2>1, <2>3, <3>1
    <3>2. CASE d # h
      <4>1. Spilled(w, n)[d] = files[d] /\ files[d] \in Seq(Piece)
        BY <1>4, <2>1, <3>2
      <4> QED
        BY <4>1 DEF Extends
    <3> QED
      BY <3>1, <3>2
  <2>6. Spilled(w, n)[h] = files[h] \o SubSeq(buf, 1, n)
    BY <1>4, <2>1
  <2> QED
    BY <1>2, <2>4, <2>5, <2>6
<1> QED
  BY <1>5, <1>6

-----------------------------------------------------------------------------
(* Types *)

\* The parts of TypeOK that every step keeps in the same way.
LEMMA ThreadType ==
  ASSUME TypeInv, NEW t \in Thread
  PROVE  /\ Ends(t) =>
              thread' \in [Thread -> ThreadState]
              /\ \A u \in Thread : thread'[u].at # "idle" => u # t /\ thread'[u] = thread[u]
         /\ \A at \in {"closed", "ready", "written", "flushed"} : Goes(t, at) =>
              thread' \in [Thread -> ThreadState]
              /\ (\A u \in Thread : thread'[u].day = thread[u].day /\ thread'[u].event = thread[u].event)
              /\ thread'[t].at = at
              /\ \A u \in Thread \ {t} : thread'[u] = thread[u]
<1>1. thread \in [Thread -> ThreadState]
  BY DEF TypeInv, TypeOK
<1>2. Idle \in ThreadState /\ Idle.at = "idle"
  BY DEF Idle, ThreadState
<1>3. ASSUME Ends(t)
      PROVE  thread' \in [Thread -> ThreadState]
             /\ \A u \in Thread : thread'[u].at # "idle" => u # t /\ thread'[u] = thread[u]
  BY <1>1, <1>2, <1>3 DEF Ends
<1>4. ASSUME NEW at \in {"closed", "ready", "written", "flushed"}, Goes(t, at)
      PROVE  thread' \in [Thread -> ThreadState]
             /\ (\A u \in Thread : thread'[u].day = thread[u].day /\ thread'[u].event = thread[u].event)
             /\ thread'[t].at = at
             /\ \A u \in Thread \ {t} : thread'[u] = thread[u]
  <2>1. thread' = [thread EXCEPT ![t] = [thread[t] EXCEPT !.at = at]]
    BY <1>4 DEF Goes
  <2>2. thread[t] \in ThreadState
    BY <1>1
  <2>3. [thread[t] EXCEPT !.at = at] \in ThreadState
        /\ [thread[t] EXCEPT !.at = at].day = thread[t].day
        /\ [thread[t] EXCEPT !.at = at].event = thread[t].event
        /\ [thread[t] EXCEPT !.at = at].at = at
    BY <2>2 DEF ThreadState
  <2> QED
    BY <1>1, <2>1, <2>3
<1> QED
  BY <1>3, <1>4

Handle == [day: {NoFile} \cup Day, buf: Seq(Piece)]

LEMMA FrameType ==
  ASSUME NEW e \in Event
  PROVE  /\ Frame(e) \in Seq(Piece) /\ Len(Frame(e)) = 2
         /\ Noise(e) \in Seq(Piece) /\ Len(Noise(e)) = 1
         /\ IsIn(e, Frame(e), 2) /\ IsIn(e, Noise(e), 1)
<1>1. /\ [event |-> e, part |-> "head"] \in Piece /\ [event |-> e, part |-> "tail"] \in Piece
      /\ [event |-> e, part |-> "noise"] \in Piece
  BY DEF Piece
<1>2. Frame(e) \in Seq(Piece) /\ Len(Frame(e)) = 2 /\ Frame(e)[2] = [event |-> e, part |-> "tail"]
  BY <1>1 DEF Frame
<1>3. Noise(e) \in Seq(Piece) /\ Len(Noise(e)) = 1 /\ Noise(e)[1] = [event |-> e, part |-> "noise"]
  BY <1>1 DEF Noise
<1>4. 2 \in DOMAIN Frame(e) /\ 1 \in DOMAIN Noise(e)
  BY DEF Frame, Noise
<1>5. IsIn(e, Frame(e), 2)
  BY <1>2, <1>4 DEF IsIn
<1>6. IsIn(e, Noise(e), 1)
  BY <1>3, <1>4 DEF IsIn
<1> QED
  BY <1>2, <1>3, <1>5, <1>6

LEMMA NoHandleType == NoHandle \in Handle /\ NoHandle.day = NoFile /\ NoHandle.buf = << >>
<1>1. << >> \in Seq(Piece)
  OBVIOUS
<1> QED
  BY <1>1 DEF NoHandle, Handle

LEMMA InitType == Init => TypeInv
<1> SUFFICES ASSUME Init PROVE TypeInv
  OBVIOUS
<1>1. /\ day \in Day /\ faults \in 0 .. MaxFaults /\ begun \subseteq Event /\ acked \subseteq begun
      /\ mishaps \subseteq Mishap
  BY JournalFileAssumption DEF Init, Day
<1>2. thread \in [Thread -> ThreadState] /\ Busy
  BY DEF Init, Busy, ThreadState, Idle
<1>3. handle \in [Writer -> Handle]
  BY NoHandleType DEF Init
<1>4. files \in [Day -> Seq(Piece)] /\ synced \in [Day -> Nat]
      /\ \A d \in Day : synced[d] <= Len(files[d])
  BY DEF Init
<1> QED
  BY <1>1, <1>2, <1>3, <1>4 DEF TypeInv, TypeOK, Handle

\* Files that only grow keep what is on the disk inside them.
LEMMA GrownType ==
  ASSUME TypeInv, mishaps' \subseteq Mishap, UNCHANGED <<day, begun, synced, acked, faults>>,
         files' \in [Day -> Seq(Piece)], \A d \in Day : Extends(files[d], files'[d]),
         handle' \in [Writer -> Handle], thread' \in [Thread -> ThreadState], Busy'
  PROVE  TypeInv'
<1>1. ASSUME NEW d \in Day PROVE synced'[d] <= Len(files'[d])
  <2>1. synced[d] \in Nat /\ synced[d] <= Len(files[d]) /\ Len(files[d]) <= Len(files'[d])
    BY DEF TypeInv, TypeOK, Extends
  <2>2. Len(files[d]) \in Nat /\ Len(files'[d]) \in Nat
    BY LenProperties DEF TypeInv, TypeOK
  <2> QED
    BY <2>1, <2>2
<1>2. /\ day' \in Day /\ begun' \subseteq Event /\ acked' \subseteq begun'
      /\ synced' \in [Day -> Nat] /\ faults' \in 0 .. MaxFaults
  BY DEF TypeInv, TypeOK
<1> QED
  BY <1>1, <1>2 DEF TypeInv, TypeOK, Handle

LEMMA SameFiles ==
  ASSUME TypeInv, files' = files
  PROVE  files' \in [Day -> Seq(Piece)] /\ \A d \in Day : Extends(files[d], files'[d])
BY DEF TypeInv, TypeOK, Extends

LEMMA MishapType ==
  /\ \A w : MovedUnder(w) \subseteq Mishap
  /\ \A f, n : CutAt(f, n) \subseteq Mishap
  /\ \A t : MixedBy(t) \subseteq Mishap
BY DEF MovedUnder, CutAt, MixedBy, Mishap

\* The steps of append that only a thread takes, and Close: files grow, nothing else
\* of the disk changes.
Appending(t) == KeepFile(t) \/ CloseFile(t) \/ OpenFile(t) \/ Write(t) \/ Flush(t) \/ Raise(t)

LEMMA AppendingFacts ==
  ASSUME TypeInv, NEW t \in Thread, Appending(t)
  PROVE  /\ UNCHANGED <<day, begun, synced, acked, faults>>
         /\ mishaps \subseteq mishaps' /\ mishaps' \subseteq Mishap
         /\ files' \in [Day -> Seq(Piece)] /\ \A d \in Day : Extends(files[d], files'[d])
         /\ handle' \in [Writer -> Handle]
         /\ \A w \in Writer \ {WriterOf[t]} : handle'[w] = handle[w]
         /\ thread' \in [Thread -> ThreadState]
         /\ \A u \in Thread : thread'[u].at # "idle" => thread'[u].day = thread[u].day
                                /\ thread'[u].event = thread[u].event /\ thread[u].at # "idle"
         /\ \A u \in Thread \ {t} : thread'[u] = thread[u]
<1> DEFINE w == WriterOf[t]
           buf == handle[w].buf
<1>1. /\ w \in Writer /\ handle \in [Writer -> Handle] /\ thread \in [Thread -> ThreadState]
      /\ handle[w] \in Handle /\ buf \in Seq(Piece) /\ Len(buf) \in Nat
  BY JournalFileAssumption, LenProperties DEF TypeInv, TypeOK, Handle
<1>2. UNCHANGED <<day, begun, synced, acked, faults>>
  BY DEF Appending, KeepFile, CloseFile, OpenFile, Write, Flush, Raise
<1>3. /\ \/ Ends(t)
         \/ thread[t].at # "idle"
            /\ \E at \in {"closed", "ready", "written", "flushed"} : Goes(t, at)
  BY DEF Appending, KeepFile, CloseFile, OpenFile, Write, Flush, Raise
<1>4. /\ thread' \in [Thread -> ThreadState]
      /\ \A u \in Thread : thread'[u].at # "idle" => thread'[u].day = thread[u].day
                             /\ thread'[u].event = thread[u].event /\ thread[u].at # "idle"
      /\ \A u \in Thread \ {t} : thread'[u] = thread[u]
  <2>1. CASE Ends(t)
    <3>1. \A u \in Thread \ {t} : thread'[u] = thread[u]
      BY <1>1, <2>1 DEF Ends
    <3> QED
      BY <2>1, <3>1, ThreadType
  <2>2. CASE thread[t].at # "idle" /\ \E at \in {"closed", "ready", "written", "flushed"} : Goes(t, at)
    BY <2>2, ThreadType
  <2> QED
    BY <1>3, <2>1, <2>2
<1>5. files' \in [Day -> Seq(Piece)] /\ \A d \in Day : Extends(files[d], files'[d])
  <2>1. files' = files \/ \E n \in Fits(buf) : files' = Spilled(w, n)
    BY DEF Appending, KeepFile, CloseFile, OpenFile, Write, Flush, Raise
  <2>2. ASSUME NEW n \in Fits(buf), files' = Spilled(w, n)
        PROVE  files' \in [Day -> Seq(Piece)] /\ \A d \in Day : Extends(files[d], files'[d])
    BY <1>1, <2>2, SpilledFacts
  <2> QED
    BY <2>1, <2>2, SameFiles
<1>6. handle' = handle \/ \E h \in Handle : handle' = [handle EXCEPT ![w] = h]
  <2>1. CASE KeepFile(t) \/ Raise(t)
    BY <2>1 DEF KeepFile, Raise
  <2>2. CASE CloseFile(t)
    BY <2>2, NoHandleType DEF CloseFile
  <2>3. CASE OpenFile(t)
    <3>1. thread[t] \in ThreadState /\ << >> \in Seq(Piece)
      BY <1>1
    <3>2. [day |-> thread[t].day, buf |-> << >>] \in Handle
      BY <3>1 DEF ThreadState, Handle
    <3> QED
      BY <2>3, <3>2 DEF OpenFile
  <2>4. CASE Write(t)
    <3>1. thread[t].event \in Event
      BY <2>4 DEF Write, TypeInv, TypeOK, Busy
    <3>2. PICK frame \in Compressed(t) : handle' = [handle EXCEPT ![w].buf = @ \o frame]
      BY <2>4 DEF Write
    <3>3. frame \in Seq(Piece)
      BY <3>1, FrameType DEF Compressed
    <3>4. buf \o frame \in Seq(Piece)
      BY <1>1, <3>3, ConcatExtends
    <3>5. [handle[w] EXCEPT !.buf = buf \o frame] \in Handle
      BY <1>1, <3>4 DEF Handle
    <3>6. handle' = [handle EXCEPT ![w] = [handle[w] EXCEPT !.buf = buf \o frame]]
      BY <3>2
    <3> QED
      BY <3>5, <3>6
  <2>5. CASE Flush(t)
    <3>1. PICK n \in Fits(buf) : handle' = [handle EXCEPT ![w].buf = SubSeq(buf, n + 1, Len(buf))]
      BY <2>5 DEF Flush
    <3>2. n \in 0 .. Len(buf)
      BY <1>1 DEF Fits
    <3>3. SubSeq(buf, n + 1, Len(buf)) \in Seq(Piece)
      BY <1>1, <3>2, RestType
    <3>4. [handle[w] EXCEPT !.buf = SubSeq(buf, n + 1, Len(buf))] \in Handle
      BY <1>1, <3>3 DEF Handle
    <3>5. handle' = [handle EXCEPT ![w] = [handle[w] EXCEPT !.buf = SubSeq(buf, n + 1, Len(buf))]]
      BY <3>1
    <3> QED
      BY <3>4, <3>5
  <2> QED
    BY <2>1, <2>2, <2>3, <2>4, <2>5 DEF Appending
<1>7. /\ handle' \in [Writer -> Handle]
      /\ \A v \in Writer \ {w} : handle'[v] = handle[v]
  BY <1>1, <1>6
<1>8. mishaps \subseteq mishaps' /\ mishaps' \subseteq Mishap
  <2>1. mishaps \subseteq Mishap
    BY DEF TypeInv, TypeOK
  <2>2. CASE KeepFile(t) \/ Raise(t)
    BY <2>1, <2>2 DEF KeepFile, Raise
  <2>3. CASE CloseFile(t)
    BY <2>1, <2>3, MishapType DEF CloseFile
  <2>4. CASE OpenFile(t)
    BY <2>1, <2>4, MishapType DEF OpenFile
  <2>5. CASE Write(t)
    BY <2>1, <2>5, MishapType DEF Write
  <2>6. CASE Flush(t)
    BY <2>1, <2>6, MishapType DEF Flush
  <2> QED
    BY <2>2, <2>3, <2>4, <2>5, <2>6 DEF Appending
<1> QED
  BY <1>2, <1>4, <1>5, <1>7, <1>8

LEMMA CloseFacts ==
  ASSUME TypeInv, NEW w \in Writer, Close(w)
  PROVE  /\ UNCHANGED <<day, begun, thread, synced, acked, faults>>
         /\ mishaps \subseteq mishaps' /\ mishaps' \subseteq Mishap
         /\ files' \in [Day -> Seq(Piece)] /\ \A d \in Day : Extends(files[d], files'[d])
         /\ handle' = [handle EXCEPT ![w] = NoHandle]
         /\ handle' \in [Writer -> Handle]
<1>1. handle \in [Writer -> Handle]
  BY DEF TypeInv, TypeOK, Handle
<1>2. PICK n \in Fits(handle[w].buf) : files' = Spilled(w, n)
  BY DEF Close
<1>3. files' \in [Day -> Seq(Piece)] /\ \A d \in Day : Extends(files[d], files'[d])
  BY <1>2, SpilledFacts
<1>4. mishaps \subseteq mishaps' /\ mishaps' \subseteq Mishap
  BY MishapType DEF Close, TypeInv, TypeOK
<1> QED
  BY <1>1, <1>3, <1>4, NoHandleType DEF Close

\* A power failure leaves of a file at least what is on the disk.
LEMMA PowerFacts ==
  ASSUME TypeInv, PowerFailure
  PROVE  /\ mishaps \subseteq mishaps' /\ mishaps' \subseteq Mishap
         /\ \A d \in Day :
              /\ synced'[d] \in synced[d] .. Len(files[d])
              /\ CutAt(files[d], synced'[d]) \subseteq mishaps'
              /\ files'[d] = SubSeq(files[d], 1, synced'[d])
              /\ files'[d] \in Seq(Piece) /\ Len(files'[d]) = synced'[d]
<1>1. PICK n \in [Day -> 0 .. 2 * Cardinality(begun)] :
        /\ \A d \in Day : n[d] \in synced[d] .. Len(files[d])
        /\ files' = [d \in Day |-> SubSeq(files[d], 1, n[d])]
        /\ synced' = n
        /\ mishaps' = mishaps \cup UNION {CutAt(files[d], n[d]) : d \in Day}
  BY DEF PowerFailure
<1>2. mishaps \subseteq mishaps' /\ mishaps' \subseteq Mishap
  BY <1>1, MishapType DEF TypeInv, TypeOK
<1>3. ASSUME NEW d \in Day
      PROVE  /\ synced'[d] \in synced[d] .. Len(files[d])
             /\ CutAt(files[d], synced'[d]) \subseteq mishaps'
             /\ files'[d] = SubSeq(files[d], 1, synced'[d])
             /\ files'[d] \in Seq(Piece) /\ Len(files'[d]) = synced'[d]
  <2>1. files[d] \in Seq(Piece) /\ synced[d] \in Nat /\ Len(files[d]) \in Nat
    BY LenProperties DEF TypeInv, TypeOK
  <2>2. synced'[d] \in synced[d] .. Len(files[d]) /\ files'[d] = SubSeq(files[d], 1, synced'[d])
    BY <1>1
  <2>3. synced'[d] \in 0 .. Len(files[d])
    BY <2>1, <2>2
  <2>4. CutAt(files[d], synced'[d]) \subseteq mishaps'
    BY <1>1
  <2> QED
    BY <2>1, <2>2, <2>3, <2>4, CutType
<1> QED
  BY <1>2, <1>3

LEMMA NextType == TypeInv /\ [Next]_vars => TypeInv'
<1> SUFFICES ASSUME TypeInv, [Next]_vars PROVE TypeInv'
  OBVIOUS
<1>1. /\ handle \in [Writer -> Handle] /\ thread \in [Thread -> ThreadState]
      /\ day \in Day /\ day \in Nat /\ begun \subseteq Event /\ acked \subseteq begun
      /\ files \in [Day -> Seq(Piece)] /\ synced \in [Day -> Nat]
      /\ faults \in 0 .. MaxFaults /\ MaxFaults \in Nat /\ MaxDay \in Nat
      /\ Idle \in ThreadState /\ Idle.at = "idle" /\ mishaps \subseteq Mishap
  BY JournalFileAssumption DEF TypeInv, TypeOK, Handle, Day, Idle, ThreadState
<1>2. ASSUME NEW t \in Thread, NEW e \in Event, Begin(t, e) PROVE TypeInv'
  <2> DEFINE s == [at |-> "dated", event |-> e, day |-> day]
  <2>1. s \in ThreadState /\ s.day = day /\ s.event = e
    BY <1>1 DEF ThreadState
  <2>2. thread' = [thread EXCEPT ![t] = s] /\ begun' = begun \cup {e}
    BY <1>2 DEF Begin
  <2> HIDE DEF s
  <2>3. thread' \in [Thread -> ThreadState] /\ Busy'
    BY <1>1, <2>1, <2>2 DEF Busy, TypeInv
  <2> QED
    BY <1>1, <1>2, <2>2, <2>3 DEF Begin, TypeInv, TypeOK
<1>3. ASSUME NEW t \in Thread, Appending(t) PROVE TypeInv'
  <2>1. Busy'
    BY <1>3, AppendingFacts DEF Busy, TypeInv
  <2> QED
    BY <1>3, <2>1, AppendingFacts, GrownType
<1>4. ASSUME NEW t \in Thread, Sync(t) PROVE TypeInv'
  <2> DEFINE d == handle[WriterOf[t]].day
  <2>1. thread' \in [Thread -> ThreadState] /\ Busy' /\ thread[t].event \in begun
    BY <1>4, ThreadType DEF Sync, Busy, TypeInv
  <2>2. WriterOf[t] \in Writer /\ d \in Day
    BY <1>1, <1>4, JournalFileAssumption DEF Sync, Handle
  <2>3. Len(files[d]) \in Nat /\ Len(files[d]) <= Len(files[d])
    BY <1>1, <2>2, LenProperties
  <2>4. synced' = [synced EXCEPT ![d] = Len(files[d])] /\ files' = files
    BY <1>4 DEF Sync
  <2>5. synced' \in [Day -> Nat] /\ \A x \in Day : synced'[x] <= Len(files'[x])
    BY <1>1, <2>2, <2>3, <2>4 DEF TypeInv, TypeOK
  <2> QED
    BY <1>1, <1>4, <2>1, <2>5 DEF Sync, TypeInv, TypeOK
<1>5. ASSUME NEW w \in Writer, Close(w) PROVE TypeInv'
  <2>1. thread' \in [Thread -> ThreadState] /\ Busy'
    BY <1>1, <1>5, CloseFacts DEF Busy, TypeInv
  <2> QED
    BY <1>5, <2>1, CloseFacts, GrownType
<1>6. ASSUME NEW w \in Writer, Kill(w) PROVE TypeInv'
  <2>1. thread' \in [Thread -> ThreadState] /\ Busy'
    BY <1>1, <1>6 DEF Kill, Busy, TypeInv
  <2>2. handle' \in [Writer -> Handle] /\ faults' \in 0 .. MaxFaults
    BY <1>1, <1>6, NoHandleType DEF Kill
  <2> QED
    BY <1>1, <1>6, <2>1, <2>2 DEF Kill, TypeInv, TypeOK, Handle
<1>7. ASSUME PowerFailure PROVE TypeInv'
  <2>1. thread' \in [Thread -> ThreadState] /\ Busy'
    BY <1>1, <1>7 DEF PowerFailure, Busy
  <2>2. handle' \in [Writer -> Handle] /\ faults' \in 0 .. MaxFaults
    BY <1>1, <1>7, NoHandleType DEF PowerFailure
  <2>3. files' = [d \in Day |-> files'[d]] /\ synced' = [d \in Day |-> synced'[d]]
    BY <1>7 DEF PowerFailure
  <2>4. ASSUME NEW d \in Day
        PROVE  files'[d] \in Seq(Piece) /\ synced'[d] \in Nat /\ synced'[d] <= Len(files'[d])
    <3>1. synced[d] \in Nat /\ Len(files[d]) \in Nat
      BY <1>1, LenProperties
    <3> QED
      BY <1>7, <3>1, PowerFacts
  <2>5. files' \in [Day -> Seq(Piece)] /\ synced' \in [Day -> Nat]
    BY <2>3, <2>4
  <2> QED
    BY <1>1, <1>7, <2>1, <2>2, <2>4, <2>5, PowerFacts DEF PowerFailure, TypeInv, TypeOK, Handle
<1>8. CASE NextDay
  BY <1>1, <1>8 DEF NextDay, TypeInv, TypeOK, Busy, Day
<1>9. CASE UNCHANGED vars
  BY <1>9 DEF vars, TypeInv, TypeOK, Busy
<1> QED
  BY <1>2, <1>3, <1>4, <1>5, <1>6, <1>7, <1>8, <1>9 DEF Next, Appending

\* Every variable keeps its type, however many threads share a JournalWriter.
THEOREM TypeCorrect == Spec => []TypeOK
<1>1. Spec => []TypeInv
  BY InitType, NextType, PTL DEF Spec
<1> QED
  BY <1>1, PTL DEF TypeInv

-----------------------------------------------------------------------------
(* What has been acknowledged is on the disk *)

InFile(e, h, fs) == h.day \in Day /\ IsIn(e, fs[h.day], Len(fs[h.day]))

\* The entry of e is in the open file or on its way to it.
Has(e, h, fs) == InFile(e, h, fs) \/ (h.day \in Day /\ IsIn(e, h.buf, Len(h.buf)))

\* A thread that has rotated has an open file; its entry is then in the buffer or the
\* file, and after the flush in the file.
Held ==
  \A t \in Thread :
    /\ thread[t].at \in OnItsWay => handle[WriterOf[t]].day \in Day
    /\ thread[t].at = "written" => Has(thread[t].event, handle[WriterOf[t]], files)
    /\ thread[t].at = "flushed" => InFile(thread[t].event, handle[WriterOf[t]], files)

SyncedInv == TypeInv /\ ("moved" \notin mishaps => Held) /\ AckedIsSynced

\* What the buffer ends with, the file ends with when the buffer is behind it.
LEMMA IsInConcat ==
  ASSUME NEW e, NEW f \in Seq(Piece), NEW g \in Seq(Piece), IsIn(e, g, Len(g))
  PROVE  IsIn(e, f \o g, Len(f \o g))
<1>1. PICK i \in DOMAIN g : g[i].event = e /\ g[i].part # "head"
  BY DEF IsIn
<1>2. Len(f) \in Nat /\ Len(g) \in Nat /\ i \in 1 .. Len(g)
  BY LenProperties
<1>3. f \o g \in Seq(Piece) /\ Len(f \o g) = Len(f) + Len(g)
  BY ConcatExtends
<1>4. \A j \in 1 .. Len(f) + Len(g) : (f \o g)[j] = IF j <= Len(f) THEN f[j] ELSE g[j - Len(f)]
  BY ConcatProperties
<1>5. Len(f) + i \in 1 .. Len(f) + Len(g) /\ ~(Len(f) + i <= Len(f)) /\ Len(f) + i - Len(f) = i
  BY <1>2
<1>6. (f \o g)[Len(f) + i] = g[i]
  BY <1>4, <1>5
<1>7. Len(f) + i \in DOMAIN (f \o g) /\ Len(f) + i <= Len(f \o g)
  BY <1>3, <1>5, LenProperties
<1> QED
  BY <1>1, <1>6, <1>7 DEF IsIn

\* A step that carries w takes nothing away that a thread of w holds.
Carries(w) ==
  /\ handle'[w].day = handle[w].day
  /\ \A e : /\ Has(e, handle[w], files) => Has(e, handle'[w], files')
            /\ InFile(e, handle[w], files) => InFile(e, handle'[w], files')

LEMMA InFileGrows ==
  ASSUME TypeInv, NEW w \in Writer, handle'[w].day = handle[w].day,
         \A d \in Day : Extends(files[d], files'[d]), NEW e, InFile(e, handle[w], files)
  PROVE  InFile(e, handle'[w], files')
<1> DEFINE d == handle[w].day
<1>1. d \in Day /\ IsIn(e, files[d], Len(files[d]))
  BY DEF InFile
<1>2. /\ Extends(files[d], files'[d]) /\ Len(files[d]) \in Nat /\ Len(files'[d]) \in Nat
      /\ Len(files[d]) <= Len(files'[d])
  BY <1>1, LenProperties DEF Extends
<1>3. IsIn(e, files'[d], Len(files'[d]))
  BY <1>1, <1>2, IsInExtended
<1> QED
  BY <1>1, <1>3 DEF InFile

LEMMA SameHandleCarries ==
  ASSUME TypeInv, NEW w \in Writer, handle'[w] = handle[w],
         \A d \in Day : Extends(files[d], files'[d])
  PROVE  Carries(w)
BY InFileGrows DEF Carries, Has

LEMMA WriteCarries ==
  ASSUME TypeInv, NEW t \in Thread, Write(t)
  PROVE  /\ Carries(WriterOf[t])
         /\ Has(thread[t].event, handle'[WriterOf[t]], files')
<1> DEFINE w == WriterOf[t]
           buf == handle[w].buf
           x == thread[t].event
<1>1. /\ w \in Writer /\ handle \in [Writer -> Handle] /\ handle[w] \in Handle
      /\ buf \in Seq(Piece) /\ Len(buf) \in Nat /\ handle[w].day \in Day /\ x \in Event
  BY JournalFileAssumption, LenProperties DEF Write, TypeInv, TypeOK, Handle, Busy
<1>2. PICK frame \in Compressed(t) : handle' = [handle EXCEPT ![w].buf = @ \o frame]
  BY DEF Write
<1>3. frame \in Seq(Piece) /\ IsIn(x, frame, Len(frame))
  BY <1>1, FrameType DEF Compressed
<1>4. handle'[w].buf = buf \o frame /\ handle'[w].day = handle[w].day
  BY <1>1, <1>2 DEF Handle
<1>5. \A d \in Day : Extends(files[d], files'[d])
  BY SameFiles DEF Write
<1>6. ASSUME NEW e, IsIn(e, buf, Len(buf)) PROVE IsIn(e, handle'[w].buf, Len(handle'[w].buf))
  <2>1. /\ Extends(buf, buf \o frame) /\ Len(buf \o frame) \in Nat
        /\ Len(buf) <= Len(buf \o frame)
    BY <1>1, <1>3, ConcatExtends, LenProperties DEF Extends
  <2> QED
    BY <1>1, <1>4, <1>6, <2>1, IsInExtended
<1>7. Carries(w)
  BY <1>1, <1>4, <1>5, <1>6, InFileGrows DEF Carries, Has
<1>8. IsIn(x, handle'[w].buf, Len(handle'[w].buf))
  BY <1>1, <1>3, <1>4, IsInConcat
<1> QED
  BY <1>1, <1>4, <1>7, <1>8 DEF Has

LEMMA FlushCarries ==
  ASSUME TypeInv, NEW t \in Thread, Flush(t)
  PROVE  /\ Carries(WriterOf[t])
         /\ \A e : Has(e, handle[WriterOf[t]], files) /\ thread'[t].at = "flushed" =>
                     InFile(e, handle'[WriterOf[t]], files')
<1> DEFINE w == WriterOf[t]
           buf == handle[w].buf
           d == handle[w].day
<1>1. /\ w \in Writer /\ handle \in [Writer -> Handle] /\ handle[w] \in Handle
      /\ buf \in Seq(Piece) /\ Len(buf) \in Nat /\ d \in Day
      /\ thread \in [Thread -> ThreadState] /\ files \in [Day -> Seq(Piece)]
  BY JournalFileAssumption, LenProperties DEF Flush, TypeInv, TypeOK, Handle
<1>2. PICK n \in Fits(buf) :
        /\ files' = Spilled(w, n)
        /\ handle' = [handle EXCEPT ![w].buf = SubSeq(buf, n + 1, Len(buf))]
        /\ IF n = Len(buf) THEN Goes(t, "flushed") ELSE Ends(t)
  BY DEF Flush
<1>3. /\ n \in 0 .. Len(buf) /\ files'[d] = files[d] \o SubSeq(buf, 1, n)
      /\ \A x \in Day : Extends(files[x], files'[x])
  BY <1>1, <1>2, SpilledFacts
<1>4. handle'[w].buf = SubSeq(buf, n + 1, Len(buf)) /\ handle'[w].day = d
  BY <1>1, <1>2 DEF Handle
<1>5. ASSUME NEW e, IsIn(e, buf, Len(buf))
      PROVE  \/ IsIn(e, files'[d], Len(files'[d]))
             \/ IsIn(e, handle'[w].buf, Len(handle'[w].buf))
  <2>1. SubSeq(buf, 1, n) \in Seq(Piece) /\ files[d] \in Seq(Piece)
    BY <1>1, <1>3, CutType
  <2>2. CASE IsIn(e, SubSeq(buf, 1, n), Len(SubSeq(buf, 1, n)))
    BY <1>3, <2>1, <2>2, IsInConcat
  <2>3. CASE IsIn(e, SubSeq(buf, n + 1, Len(buf)), Len(SubSeq(buf, n + 1, Len(buf))))
    BY <1>4, <2>3
  <2> QED
    BY <1>1, <1>3, <1>5, <2>2, <2>3, IsInParts
<1>6. Carries(w)
  BY <1>1, <1>3, <1>4, <1>5, InFileGrows DEF Carries, Has, InFile
<1>7. ASSUME NEW e, Has(e, handle[w], files), thread'[t].at = "flushed"
      PROVE  InFile(e, handle'[w], files')
  <2>1. n = Len(buf)
    BY <1>1, <1>2, <1>7 DEF Ends, Idle
  <2>2. handle'[w].buf = << >>
    BY <1>1, <1>4, <2>1, SubSeqEmpty
  <2>3. ~IsIn(e, handle'[w].buf, Len(handle'[w].buf))
    BY <2>2 DEF IsIn
  <2>4. Has(e, handle'[w], files')
    BY <1>6, <1>7 DEF Carries
  <2> QED
    BY <2>3, <2>4 DEF Has
<1> QED
  BY <1>6, <1>7

\* A thread whose process the step carries, or that has nothing on its way, still holds
\* what it held.
LEMMA StillHeld ==
  ASSUME SyncedInv, Held, NEW u \in Thread, thread'[u] = thread[u],
         thread[u].at \in OnItsWay => Carries(WriterOf[u])
  PROVE  /\ thread'[u].at \in OnItsWay => handle'[WriterOf[u]].day \in Day
         /\ thread'[u].at = "written" => Has(thread'[u].event, handle'[WriterOf[u]], files')
         /\ thread'[u].at = "flushed" => InFile(thread'[u].event, handle'[WriterOf[u]], files')
<1>1. /\ thread[u].at \in OnItsWay => handle[WriterOf[u]].day \in Day
      /\ thread[u].at = "written" => Has(thread[u].event, handle[WriterOf[u]], files)
      /\ thread[u].at = "flushed" => InFile(thread[u].event, handle[WriterOf[u]], files)
  BY DEF Held
<1> QED
  BY <1>1 DEF Carries, OnItsWay

\* While files only grow, what is on the disk stays there.
LEMMA StillSynced ==
  ASSUME SyncedInv, "moved" \notin mishaps, \A d \in Day : Extends(files[d], files'[d]),
         UNCHANGED <<synced, acked>>
  PROVE  AckedIsSynced'
<1> SUFFICES ASSUME NEW e \in acked PROVE \E d \in Day : IsIn(e, files'[d], synced[d])
  BY DEF AckedIsSynced
<1>1. PICK d \in Day : IsIn(e, files[d], synced[d])
  BY DEF SyncedInv, AckedIsSynced
<1>2. synced[d] \in Nat /\ synced[d] <= synced[d]
  BY DEF SyncedInv, TypeInv, TypeOK
<1> QED
  BY <1>1, <1>2, IsInExtended

\* The step of append that a thread takes leaves it holding its entry.
LEMMA NowHeld ==
  ASSUME SyncedInv, Held, NEW t \in Thread, Appending(t)
  PROVE  /\ thread'[t].at \in OnItsWay => handle'[WriterOf[t]].day \in Day
         /\ thread'[t].at = "written" => Has(thread'[t].event, handle'[WriterOf[t]], files')
         /\ thread'[t].at = "flushed" => InFile(thread'[t].event, handle'[WriterOf[t]], files')
<1> DEFINE w == WriterOf[t]
           e == thread[t].event
<1>1. /\ TypeInv /\ w \in Writer /\ handle \in [Writer -> Handle]
      /\ thread \in [Thread -> ThreadState]
  BY JournalFileAssumption DEF SyncedInv, TypeInv, TypeOK, Handle
<1>2. ASSUME Ends(t) PROVE thread'[t].at = "idle"
  BY <1>1, <1>2 DEF Ends, Idle
<1>3. CASE KeepFile(t)
  <2>1. thread'[t].at = "ready" /\ handle' = handle /\ handle[w].day \in Day
    BY <1>1, <1>3, ThreadType DEF KeepFile, TypeInv, Busy
  <2> QED
    BY <2>1
<1>4. CASE CloseFile(t)
  <2>1. thread'[t].at \in {"closed", "idle"}
    BY <1>1, <1>2, <1>4, ThreadType DEF CloseFile
  <2> QED
    BY <2>1 DEF OnItsWay
<1>5. CASE OpenFile(t)
  <2>1. thread'[t].at = "ready" /\ thread[t].day \in Day
    BY <1>1, <1>5, ThreadType DEF OpenFile, TypeInv, Busy
  <2>2. handle'[w].day = thread[t].day
    BY <1>1, <1>5 DEF OpenFile
  <2> QED
    BY <2>1, <2>2
<1>6. CASE Write(t)
  <2>1. thread'[t].at = "written" /\ thread'[t].event = e
    BY <1>1, <1>6, ThreadType DEF Write
  <2>2. Has(e, handle'[w], files')
    BY <1>1, <1>6, WriteCarries
  <2> QED
    BY <2>1, <2>2 DEF Has, InFile
<1>7. CASE Flush(t)
  <2>1. thread[t].at = "written" /\ Has(e, handle[w], files)
    BY <1>7 DEF Flush, Held
  <2>2. thread'[t].at = "idle" \/ (thread'[t].at = "flushed" /\ thread'[t].event = e)
    BY <1>1, <1>2, <1>7, ThreadType DEF Flush
  <2>3. thread'[t].at = "flushed" => InFile(e, handle'[w], files')
    BY <1>1, <1>7, <2>1, FlushCarries
  <2> QED
    BY <2>2, <2>3 DEF InFile, OnItsWay
<1>8. CASE Raise(t)
  BY <1>2, <1>8 DEF Raise, OnItsWay
<1> QED
  BY <1>3, <1>4, <1>5, <1>6, <1>7, <1>8 DEF Appending

\* A step of a thread carries the processes of the others, unless it moves a file under
\* them.
LEMMA OthersCarried ==
  ASSUME TypeInv, NEW t \in Thread, Appending(t), "moved" \notin mishaps',
         NEW u \in Thread \ {t}, thread[u].at \in OnItsWay
  PROVE  Carries(WriterOf[u])
<1> DEFINE w == WriterOf[u]
<1>1. w \in Writer /\ \A d \in Day : Extends(files[d], files'[d])
  BY JournalFileAssumption, AppendingFacts
<1>2. CASE w # WriterOf[t]
  <2>1. handle'[w] = handle[w]
    BY <1>1, <1>2, AppendingFacts
  <2> QED
    BY <1>1, <2>1, SameHandleCarries
<1>3. CASE w = WriterOf[t]
  <2>1. CASE KeepFile(t) \/ Raise(t)
    <3>1. handle'[w] = handle[w]
      BY <2>1 DEF KeepFile, Raise
    <3> QED
      BY <1>1, <3>1, SameHandleCarries
  <2>2. "moved" \in MovedUnder(WriterOf[t])
    BY <1>3 DEF MovedUnder
  <2>3. ~CloseFile(t) /\ ~OpenFile(t)
    BY <2>2 DEF CloseFile, OpenFile
  <2> QED
    BY <1>3, <2>1, <2>3, WriteCarries, FlushCarries DEF Appending
<1> QED
  BY <1>2, <1>3

LEMMA InitSynced == Init => SyncedInv
<1>1. Init => Held /\ AckedIsSynced
  BY DEF Init, Held, AckedIsSynced, Idle, OnItsWay
<1> QED
  BY <1>1, InitType DEF SyncedInv

LEMMA NextSynced == SyncedInv /\ [Next]_vars => SyncedInv'
<1> SUFFICES ASSUME SyncedInv, [Next]_vars, "moved" \notin mishaps'
             PROVE  Held' /\ AckedIsSynced'
  BY NextType DEF SyncedInv, AckedIsSynced
<1>1. /\ TypeInv /\ handle \in [Writer -> Handle] /\ thread \in [Thread -> ThreadState]
      /\ \A u \in Thread : WriterOf[u] \in Writer
      /\ files \in [Day -> Seq(Piece)] /\ Idle.at = "idle" /\ "idle" \notin OnItsWay
      /\ \A d \in Day : synced[d] \in Nat /\ Len(files[d]) \in Nat /\ synced[d] <= Len(files[d])
  BY JournalFileAssumption, LenProperties
     DEF SyncedInv, TypeInv, TypeOK, Handle, Idle, OnItsWay
<1>2. ASSUME mishaps \subseteq mishaps'
      PROVE  "moved" \notin mishaps /\ Held
  BY <1>2 DEF SyncedInv
<1>3. ASSUME NEW t \in Thread, NEW e \in Event, Begin(t, e) PROVE Held' /\ AckedIsSynced'
  <2>1. thread'[t].at = "dated" /\ \A u \in Thread \ {t} : thread'[u] = thread[u]
    BY <1>1, <1>3 DEF Begin
  <2>2. UNCHANGED <<handle, files, synced, acked, mishaps>>
    BY <1>3 DEF Begin
  <2>3. \A w \in Writer : Carries(w)
    BY <1>1, <2>2, SameFiles, SameHandleCarries
  <2>4. Held'
    BY <1>1, <1>2, <2>1, <2>2, <2>3, StillHeld DEF Held, OnItsWay
  <2> QED
    BY <1>1, <1>2, <2>2, <2>4, SameFiles, StillSynced
<1>4. ASSUME NEW t \in Thread, Appending(t) PROVE Held' /\ AckedIsSynced'
  <2>1. "moved" \notin mishaps /\ Held
    BY <1>1, <1>2, <1>4, AppendingFacts
  <2>2. ASSUME NEW u \in Thread \ {t}
        PROVE  thread'[u] = thread[u] /\ (thread[u].at \in OnItsWay => Carries(WriterOf[u]))
    BY <1>1, <1>4, AppendingFacts, OthersCarried
  <2>3. Held'
    BY <1>1, <1>4, <2>1, <2>2, StillHeld, NowHeld DEF Held
  <2> QED
    BY <1>1, <1>4, <2>1, <2>3, AppendingFacts, StillSynced
<1>5. ASSUME NEW t \in Thread, Sync(t) PROVE Held' /\ AckedIsSynced'
  <2> DEFINE d == handle[WriterOf[t]].day
  <2>1. UNCHANGED <<handle, files, mishaps>> /\ thread'[t].at = "idle"
        /\ \A u \in Thread \ {t} : thread'[u] = thread[u]
    BY <1>1, <1>5 DEF Sync, Ends
  <2>2. Held /\ "moved" \notin mishaps /\ \A w \in Writer : Carries(w)
    BY <1>1, <1>2, <2>1, SameFiles, SameHandleCarries
  <2>3. Held'
    BY <1>1, <2>1, <2>2, StillHeld DEF Held, OnItsWay
  <2>4. d \in Day /\ IsIn(thread[t].event, files[d], Len(files[d]))
    BY <1>5, <2>2 DEF Sync, Held, InFile
  <2>5. synced' = [synced EXCEPT ![d] = Len(files[d])] /\ acked' = acked \cup {thread[t].event}
    BY <1>5 DEF Sync
  <2>6. synced'[d] = Len(files[d]) /\ \A x \in Day : synced'[x] \in Nat /\ synced[x] <= synced'[x]
    BY <1>1, <2>4, <2>5 DEF TypeInv, TypeOK
  <2>7. ASSUME NEW e \in acked' PROVE \E x \in Day : IsIn(e, files'[x], synced'[x])
    <3>1. CASE e = thread[t].event
      BY <2>1, <2>4, <2>6, <3>1
    <3>2. CASE e \in acked
      <4>1. PICK x \in Day : IsIn(e, files[x], synced[x])
        BY <2>2, <3>2 DEF SyncedInv, AckedIsSynced
      <4>2. Extends(files[x], files'[x])
        BY <1>1, <2>1, SameFiles
      <4> QED
        BY <1>1, <2>6, <4>1, <4>2, IsInExtended
    <3> QED
      BY <2>5, <3>1, <3>2
  <2> QED
    BY <2>3, <2>7 DEF AckedIsSynced
<1>6. ASSUME NEW w \in Writer, Close(w) PROVE Held' /\ AckedIsSynced'
  <2>1. "moved" \notin mishaps /\ Held
    BY <1>1, <1>2, <1>6, CloseFacts
  <2>2. ASSUME NEW u \in Thread
        PROVE  thread'[u] = thread[u] /\ (thread[u].at \in OnItsWay => Carries(WriterOf[u]))
    <3>1. thread[u].at \in OnItsWay => WriterOf[u] # w
      BY <1>6 DEF Close, MovedUnder
    <3>2. WriterOf[u] # w => handle'[WriterOf[u]] = handle[WriterOf[u]]
      BY <1>1, <1>6, CloseFacts
    <3> QED
      BY <1>1, <1>6, <3>1, <3>2, CloseFacts, SameHandleCarries
  <2>3. Held'
    BY <2>1, <2>2, StillHeld DEF Held
  <2> QED
    BY <1>1, <1>6, <2>1, <2>3, CloseFacts, StillSynced
<1>7. ASSUME NEW w \in Writer, Kill(w) PROVE Held' /\ AckedIsSynced'
  <2>1. UNCHANGED <<files, synced, acked, mishaps>> /\ Held /\ "moved" \notin mishaps
    BY <1>2, <1>7 DEF Kill
  <2>2. ASSUME NEW u \in Thread
        PROVE  \/ thread'[u].at = "idle"
               \/ thread'[u] = thread[u] /\ Carries(WriterOf[u])
    <3>1. CASE WriterOf[u] = w
      BY <1>1, <1>7, <3>1 DEF Kill
    <3>2. CASE WriterOf[u] # w
      <4>1. thread'[u] = thread[u] /\ handle'[WriterOf[u]] = handle[WriterOf[u]]
        BY <1>1, <1>7, <3>2 DEF Kill
      <4> QED
        BY <1>1, <2>1, <4>1, SameFiles, SameHandleCarries
    <3> QED
      BY <3>1, <3>2
  <2>3. Held'
    BY <1>1, <2>1, <2>2, StillHeld DEF Held, OnItsWay
  <2> QED
    BY <1>1, <2>1, <2>3, SameFiles, StillSynced
<1>8. ASSUME PowerFailure PROVE Held' /\ AckedIsSynced'
  <2>1. "moved" \notin mishaps /\ \A u \in Thread : thread'[u].at = "idle"
    BY <1>1, <1>2, <1>8, PowerFacts DEF PowerFailure
  <2>2. ASSUME NEW e \in acked' PROVE \E d \in Day : IsIn(e, files'[d], synced'[d])
    <3>1. PICK d \in Day : IsIn(e, files[d], synced[d])
      BY <1>8, <2>1 DEF PowerFailure, SyncedInv, AckedIsSynced
    <3>2. /\ synced'[d] \in synced[d] .. Len(files[d])
          /\ files'[d] = SubSeq(files[d], 1, synced'[d])
      BY <1>1, <1>8, PowerFacts
    <3>3. files[d] \in Seq(Piece) /\ synced[d] \in Nat
      BY <1>1
    <3>4. IsIn(e, SubSeq(files[d], 1, synced'[d]), synced'[d])
      BY <3>1, <3>2, <3>3, IsInCut
    <3> QED
      BY <3>2, <3>4
  <2> QED
    BY <1>1, <2>1, <2>2 DEF Held, AckedIsSynced, OnItsWay
<1>9. CASE NextDay \/ UNCHANGED vars
  <2>1. UNCHANGED <<thread, handle, files, synced, acked, mishaps>>
    BY <1>9 DEF NextDay, vars
  <2> QED
    BY <1>2, <2>1 DEF SyncedInv, Held, AckedIsSynced
<1> QED
  BY <1>3, <1>4, <1>5, <1>6, <1>7, <1>8, <1>9 DEF Next, Appending

\* Whatever processes are killed, disks run full and power fails, what append has
\* returned for is on the disk, until a thread moves the file under another one.
THEOREM AckedIsSyncedHolds == Spec => []AckedIsSynced
<1>1. Spec => []SyncedInv
  BY NextSynced, InitSynced, PTL DEF Spec
<1> QED
  BY <1>1, PTL DEF SyncedInv

-----------------------------------------------------------------------------
(* What has been acknowledged can be read *)

\* f is made of whole frames.
Tidy(f) ==
  \A i \in DOMAIN f :
    /\ f[i].part # "noise"
    /\ f[i].part = "head" => i < Len(f) /\ f[i + 1] = [f[i] EXCEPT !.part = "tail"]
    /\ f[i].part = "tail" => 1 < i /\ f[i - 1] = [f[i] EXCEPT !.part = "head"]

AllTidy == (\A d \in Day : Tidy(files[d])) /\ (\A w \in Writer : Tidy(handle[w].buf))

TidyInv == SyncedInv /\ (mishaps = {} => AllTidy)

LEMMA TidyEmpty == Tidy(<< >>)
BY DEF Tidy

LEMMA TidyFrame ==
  ASSUME NEW e \in Event
  PROVE  Tidy(Frame(e))
<1>1. /\ Frame(e)[1] = [event |-> e, part |-> "head"] /\ Frame(e)[2] = [event |-> e, part |-> "tail"]
      /\ DOMAIN Frame(e) = 1 .. 2 /\ Len(Frame(e)) = 2
  BY DEF Frame
<1>2. ASSUME NEW i \in 1 .. 2
      PROVE  /\ Frame(e)[i].part # "noise"
             /\ Frame(e)[i].part = "head" =>
                  i < 2 /\ Frame(e)[i + 1] = [Frame(e)[i] EXCEPT !.part = "tail"]
             /\ Frame(e)[i].part = "tail" =>
                  1 < i /\ Frame(e)[i - 1] = [Frame(e)[i] EXCEPT !.part = "head"]
  <2>1. i = 1 \/ i = 2
    OBVIOUS
  <2> QED
    BY <1>1, <2>1
<1> QED
  BY <1>1, <1>2 DEF Tidy

LEMMA TidyConcat ==
  ASSUME NEW f \in Seq(Piece), NEW g \in Seq(Piece), Tidy(f), Tidy(g)
  PROVE  Tidy(f \o g)
<1> DEFINE h == f \o g
<1>1. h \in Seq(Piece) /\ Len(h) = Len(f) + Len(g) /\ Len(f) \in Nat /\ Len(g) \in Nat
  BY ConcatExtends, LenProperties
<1>2. /\ \A j \in 1 .. Len(f) : h[j] = f[j]
      /\ \A j \in 1 .. Len(g) : h[Len(f) + j] = g[j]
  <2>1. \A j \in 1 .. Len(f) + Len(g) : h[j] = IF j <= Len(f) THEN f[j] ELSE g[j - Len(f)]
    BY ConcatProperties
  <2>2. ASSUME NEW j \in 1 .. Len(g) PROVE h[Len(f) + j] = g[j]
    <3>1. Len(f) + j \in 1 .. Len(f) + Len(g) /\ ~(Len(f) + j <= Len(f)) /\ Len(f) + j - Len(f) = j
      BY <1>1
    <3> QED
      BY <2>1, <3>1
  <2> QED
    BY <1>1, <2>1, <2>2
<1> HIDE DEF h
<1>3. DOMAIN f = 1 .. Len(f) /\ DOMAIN g = 1 .. Len(g) /\ DOMAIN h = 1 .. Len(h)
  BY <1>1, LenProperties
<1>4. ASSUME NEW i \in DOMAIN h
      PROVE  /\ h[i].part # "noise"
             /\ h[i].part = "head" => i < Len(h) /\ h[i + 1] = [h[i] EXCEPT !.part = "tail"]
             /\ h[i].part = "tail" => 1 < i /\ h[i - 1] = [h[i] EXCEPT !.part = "head"]
  <2>1. CASE i <= Len(f)
    <3>1. i \in 1 .. Len(f) /\ h[i] = f[i] /\ i \in Nat
      BY <1>1, <1>2, <1>3, <2>1
    <3>2. /\ f[i].part # "noise"
          /\ f[i].part = "head" => i < Len(f) /\ f[i + 1] = [f[i] EXCEPT !.part = "tail"]
          /\ f[i].part = "tail" => 1 < i /\ f[i - 1] = [f[i] EXCEPT !.part = "head"]
      BY <1>3, <3>1 DEF Tidy
    <3>3. i < Len(f) => i + 1 \in 1 .. Len(f) /\ i < Len(h)
      BY <1>1, <3>1
    <3>4. 1 < i => i - 1 \in 1 .. Len(f)
      BY <1>1, <3>1
    <3>5. (i < Len(f) => h[i + 1] = f[i + 1]) /\ (1 < i => h[i - 1] = f[i - 1])
      BY <1>2, <3>3, <3>4
    <3> QED
      BY <3>1, <3>2, <3>3, <3>5
  <2>2. CASE ~(i <= Len(f))
    <3> DEFINE j == i - Len(f)
    <3>1. j \in 1 .. Len(g) /\ i = Len(f) + j /\ j \in Nat
      BY <1>1, <1>3, <2>2
    <3>2. h[i] = g[j]
      BY <1>2, <3>1
    <3> HIDE DEF j
    <3>3. /\ g[j].part # "noise"
          /\ g[j].part = "head" => j < Len(g) /\ g[j + 1] = [g[j] EXCEPT !.part = "tail"]
          /\ g[j].part = "tail" => 1 < j /\ g[j - 1] = [g[j] EXCEPT !.part = "head"]
      BY <1>3, <3>1 DEF Tidy
    <3>4. j < Len(g) => j + 1 \in 1 .. Len(g) /\ i + 1 = Len(f) + (j + 1) /\ i < Len(h)
      BY <1>1, <3>1
    <3>5. 1 < j => j - 1 \in 1 .. Len(g) /\ i - 1 = Len(f) + (j - 1) /\ 1 < i
      BY <1>1, <3>1
    <3>6. j < Len(g) => h[i + 1] = g[j + 1]
      BY <1>2, <3>4
    <3>7. 1 < j => h[i - 1] = g[j - 1]
      BY <1>2, <3>5
    <3> QED
      BY <3>2, <3>3, <3>4, <3>5, <3>6, <3>7
  <2> QED
    BY <2>1, <2>2
<1>5. Tidy(h)
  BY <1>4 DEF Tidy
<1> QED
  BY <1>5 DEF h

\* Whole frames cut between two of them are whole frames before and behind the cut.
LEMMA TidyCut ==
  ASSUME NEW f \in Seq(Piece), Tidy(f), NEW n \in 0 .. Len(f), CutAt(f, n) = {}
  PROVE  Tidy(SubSeq(f, 1, n))
<1> DEFINE g == SubSeq(f, 1, n)
<1>1. n \in 0 .. Len(f) /\ Len(f) \in Nat /\ DOMAIN f = 1 .. Len(f)
  BY LenProperties
<1>2. n \in 1 .. Len(f) => f[n].part # "head"
  BY <1>1 DEF CutAt
<1>3. g \in Seq(Piece) /\ Len(g) = n /\ \A i \in 1 .. n : g[i] = f[i]
  BY <1>1, CutType
<1>4. DOMAIN g = 1 .. n
  BY <1>3, LenProperties
<1> HIDE DEF g
<1>5. ASSUME NEW i \in 1 .. n
      PROVE  /\ g[i].part # "noise"
             /\ g[i].part = "head" => i < n /\ g[i + 1] = [g[i] EXCEPT !.part = "tail"]
             /\ g[i].part = "tail" => 1 < i /\ g[i - 1] = [g[i] EXCEPT !.part = "head"]
  <2>1. i \in 1 .. Len(f) /\ i \in Nat /\ n \in Nat /\ i <= n
    BY <1>1
  <2>2. g[i] = f[i]
    BY <1>3
  <2>3. /\ f[i].part # "noise"
        /\ f[i].part = "head" => i < Len(f) /\ f[i + 1] = [f[i] EXCEPT !.part = "tail"]
        /\ f[i].part = "tail" => 1 < i /\ f[i - 1] = [f[i] EXCEPT !.part = "head"]
    BY <1>1, <2>1 DEF Tidy
  <2>4. ASSUME f[i].part = "head" PROVE i < n
    <3>1. i # n
      BY <1>2, <2>1, <2>4
    <3> QED
      BY <2>1, <3>1
  <2>5. i < n => i + 1 \in 1 .. n
    BY <2>1
  <2>6. 1 < i => i - 1 \in 1 .. n
    BY <2>1
  <2>7. (i < n => g[i + 1] = f[i + 1]) /\ (1 < i => g[i - 1] = f[i - 1])
    BY <1>3, <2>5, <2>6
  <2> QED
    BY <2>2, <2>3, <2>4, <2>7
<1>6. Tidy(g)
  BY <1>3, <1>4, <1>5 DEF Tidy
<1> QED
  BY <1>6 DEF g

LEMMA TidyRest ==
  ASSUME NEW f \in Seq(Piece), Tidy(f), NEW n \in 0 .. Len(f), CutAt(f, n) = {}
  PROVE  Tidy(SubSeq(f, n + 1, Len(f)))
<1> DEFINE g == SubSeq(f, n + 1, Len(f))
           m == Len(f) - n
<1>1. Len(f) \in Nat /\ DOMAIN f = 1 .. Len(f) /\ m \in Nat
  BY LenProperties
<1>2. n \in 1 .. Len(f) => f[n].part # "head"
  BY <1>1 DEF CutAt
<1>3. g \in Seq(Piece) /\ Len(g) = m /\ \A i \in 1 .. m : g[i] = f[n + i]
  BY RestType
<1>4. DOMAIN g = 1 .. m
  BY <1>3, LenProperties
<1>5. \A j \in 1 .. Len(f) : f[j] \in Piece
  BY ElementOfSeq
<1> HIDE DEF g
<1>6. ASSUME NEW i \in 1 .. m
      PROVE  /\ g[i].part # "noise"
             /\ g[i].part = "head" => i < m /\ g[i + 1] = [g[i] EXCEPT !.part = "tail"]
             /\ g[i].part = "tail" => 1 < i /\ g[i - 1] = [g[i] EXCEPT !.part = "head"]
  <2> DEFINE k == n + i
  <2>1. k \in 1 .. Len(f) /\ g[i] = f[k]
    BY <1>1, <1>3
  <2>2. /\ f[k].part # "noise"
        /\ f[k].part = "head" => k < Len(f) /\ f[k + 1] = [f[k] EXCEPT !.part = "tail"]
        /\ f[k].part = "tail" => 1 < k /\ f[k - 1] = [f[k] EXCEPT !.part = "head"]
    BY <1>1, <2>1 DEF Tidy
  <2>3. k < Len(f) => i < m /\ i + 1 \in 1 .. m /\ n + (i + 1) = k + 1
    BY <1>1
  <2>4. k < Len(f) => g[i + 1] = f[k + 1]
    BY <1>3, <2>3
  <2>5. ASSUME f[k].part = "tail" PROVE 1 < i
    <3>1. ASSUME i = 1 PROVE FALSE
      <4>1. k - 1 = n /\ n \in 1 .. Len(f)
        BY <1>1, <2>2, <2>5, <3>1
      <4>2. f[n] = [f[k] EXCEPT !.part = "head"]
        BY <2>2, <2>5, <4>1
      <4>3. f[n].part = "head"
        BY <1>5, <2>1, <4>2 DEF Piece
      <4> QED
        BY <1>2, <4>1, <4>3
    <3> QED
      BY <3>1
  <2>6. 1 < i => i - 1 \in 1 .. m /\ n + (i - 1) = k - 1
    BY <1>1
  <2>7. 1 < i => g[i - 1] = f[k - 1]
    BY <1>3, <2>6
  <2> QED
    BY <2>1, <2>2, <2>3, <2>4, <2>5, <2>7
<1>7. Tidy(g)
  BY <1>3, <1>4, <1>6 DEF Tidy
<1> QED
  BY <1>7 DEF g

\* A flush that ends between two frames puts whole frames behind whole frames.
LEMMA TidySpilled ==
  ASSUME TypeInv, AllTidy, NEW w \in Writer, NEW n \in Fits(handle[w].buf),
         CutAt(handle[w].buf, n) = {}
  PROVE  \A d \in Day : Tidy(Spilled(w, n)[d])
<1> DEFINE buf == handle[w].buf
           h == handle[w].day
<1>1. /\ n \in 0 .. Len(buf) /\ buf \in Seq(Piece) /\ h \in {NoFile} \cup Day
      /\ files \in [Day -> Seq(Piece)] /\ Tidy(buf)
  BY DEF Fits, TypeInv, TypeOK, AllTidy
<1>2. Tidy(SubSeq(buf, 1, n)) /\ SubSeq(buf, 1, n) \in Seq(Piece)
  BY <1>1, TidyCut, CutType
<1> SUFFICES ASSUME NEW d \in Day PROVE Tidy(Spilled(w, n)[d])
  OBVIOUS
<1>3. CASE d = h
  <2>1. NoFile \notin Day
    BY DEF Day, NoFile
  <2>2. Spilled(w, n)[d] = files[d] \o SubSeq(buf, 1, n)
    BY <1>1, <1>3, <2>1 DEF Spilled
  <2> QED
    BY <1>1, <1>2, <2>2, TidyConcat DEF AllTidy
<1>4. CASE d # h
  <2>1. Spilled(w, n)[d] = files[d]
    BY <1>1, <1>4 DEF Spilled
  <2> QED
    BY <2>1 DEF AllTidy
<1> QED
  BY <1>3, <1>4

LEMMA NextTidy == TidyInv /\ [Next]_vars => TidyInv'
<1> SUFFICES ASSUME TidyInv, [Next]_vars, mishaps' = {} PROVE AllTidy'
  BY NextSynced DEF TidyInv
<1>1. /\ SyncedInv /\ TypeInv /\ handle \in [Writer -> Handle]
      /\ \A u \in Thread : WriterOf[u] \in Writer
      /\ files \in [Day -> Seq(Piece)] /\ synced \in [Day -> Nat]
      /\ NoHandle.buf = << >>
  BY JournalFileAssumption, NoHandleType
     DEF TidyInv, SyncedInv, TypeInv, TypeOK, Handle
<1>2. ASSUME mishaps \subseteq mishaps' PROVE mishaps = {} /\ AllTidy
  BY <1>2 DEF TidyInv
<1>3. ASSUME NEW t \in Thread, Appending(t) PROVE AllTidy'
  <2> DEFINE w == WriterOf[t]
             buf == handle[w].buf
  <2>1. mishaps = {} /\ AllTidy
    BY <1>1, <1>2, <1>3, AppendingFacts
  <2>2. ASSUME NEW d \in Day PROVE Tidy(files'[d])
    <3>1. files' = files \/ \E n \in Fits(buf) : files' = Spilled(w, n) /\ CutAt(buf, n) = {}
      <4>1. CASE KeepFile(t) \/ Write(t) \/ Raise(t)
        BY <4>1 DEF KeepFile, Write, Raise
      <4>2. CASE CloseFile(t)
        BY <4>2 DEF CloseFile
      <4>3. CASE OpenFile(t)
        BY <4>3 DEF OpenFile
      <4>4. CASE Flush(t)
        BY <4>4 DEF Flush
      <4> QED
        BY <1>3, <4>1, <4>2, <4>3, <4>4 DEF Appending
    <3> QED
      BY <1>1, <2>1, <3>1, TidySpilled DEF AllTidy
  <2>3. Tidy(handle'[w].buf)
    <3>1. CASE KeepFile(t) \/ Raise(t)
      BY <1>1, <2>1, <3>1 DEF KeepFile, Raise, AllTidy
    <3>2. CASE CloseFile(t) \/ OpenFile(t)
      <4>1. handle'[w].buf = << >>
        BY <1>1, <3>2 DEF CloseFile, OpenFile
      <4> QED
        BY <4>1, TidyEmpty
    <3>3. CASE Write(t)
      <4>1. mishaps \cup MixedBy(t) = {}
        BY <3>3 DEF Write
      <4>2. Compressed(t) = {Frame(thread[t].event)}
        BY <4>1 DEF Compressed
      <4>3. thread[t].event \in Event
        BY <1>1, <3>3 DEF Write, TypeInv, TypeOK, Busy
      <4>4. handle' = [handle EXCEPT ![w].buf = @ \o Frame(thread[t].event)]
        BY <3>3, <4>2 DEF Write
      <4>5. handle'[w].buf = buf \o Frame(thread[t].event) /\ buf \in Seq(Piece)
        BY <1>1, <4>4 DEF Handle
      <4> QED
        BY <1>1, <2>1, <4>3, <4>5, FrameType, TidyFrame, TidyConcat DEF AllTidy
    <3>4. CASE Flush(t)
      <4>1. PICK n \in Fits(buf) :
              /\ handle' = [handle EXCEPT ![w].buf = SubSeq(buf, n + 1, Len(buf))]
              /\ CutAt(buf, n) = {}
        BY <3>4 DEF Flush
      <4>2. handle'[w].buf = SubSeq(buf, n + 1, Len(buf))
        BY <1>1, <4>1 DEF Handle
      <4>3. buf \in Seq(Piece) /\ Tidy(buf) /\ n \in 0 .. Len(buf)
        BY <1>1, <2>1 DEF Handle, AllTidy, Fits
      <4> QED
        BY <4>1, <4>2, <4>3, TidyRest
    <3> QED
      BY <1>3, <3>1, <3>2, <3>3, <3>4 DEF Appending
  <2>4. ASSUME NEW v \in Writer \ {w} PROVE Tidy(handle'[v].buf)
    BY <1>1, <1>3, <2>1, AppendingFacts DEF AllTidy
  <2> QED
    BY <2>2, <2>3, <2>4 DEF AllTidy
<1>4. ASSUME NEW w \in Writer, Close(w) PROVE AllTidy'
  <2>1. PICK n \in Fits(handle[w].buf) :
          files' = Spilled(w, n) /\ CutAt(handle[w].buf, n) = {}
    BY <1>4 DEF Close
  <2>2. AllTidy
    BY <1>1, <1>2, <1>4, CloseFacts
  <2>3. \A d \in Day : Tidy(files'[d])
    BY <1>1, <2>1, <2>2, TidySpilled
  <2>4. \A v \in Writer : handle'[v].buf \in {<< >>, handle[v].buf}
    BY <1>1, <1>4 DEF Close
  <2> QED
    BY <1>1, <2>2, <2>3, <2>4, TidyEmpty DEF AllTidy
<1>5. ASSUME NEW w \in Writer, Kill(w) PROVE AllTidy'
  <2>1. files' = files /\ (\A v \in Writer : handle'[v].buf \in {<< >>, handle[v].buf}) /\ AllTidy
    BY <1>1, <1>2, <1>5 DEF Kill
  <2> QED
    BY <1>1, <2>1, TidyEmpty DEF AllTidy
<1>6. ASSUME PowerFailure PROVE AllTidy'
  <2>1. \A v \in Writer : handle'[v].buf = << >>
    BY <1>1, <1>6 DEF PowerFailure
  <2>2. AllTidy
    BY <1>1, <1>2, <1>6, PowerFacts
  <2>3. ASSUME NEW d \in Day PROVE Tidy(files'[d])
    <3>1. /\ synced'[d] \in synced[d] .. Len(files[d]) /\ CutAt(files[d], synced'[d]) = {}
          /\ files'[d] = SubSeq(files[d], 1, synced'[d])
      BY <1>1, <1>6, PowerFacts
    <3>2. synced'[d] \in 0 .. Len(files[d]) /\ files[d] \in Seq(Piece) /\ Tidy(files[d])
      BY <1>1, <2>2, <3>1 DEF AllTidy
    <3> QED
      BY <3>1, <3>2, TidyCut
  <2> QED
    BY <2>1, <2>3, TidyEmpty DEF AllTidy
<1>7. ASSUME UNCHANGED <<handle, files, mishaps>> PROVE AllTidy'
  BY <1>1, <1>2, <1>7 DEF AllTidy
<1>8. ASSUME NEW t \in Thread, NEW e \in Event, Begin(t, e)
      PROVE  UNCHANGED <<handle, files, mishaps>>
  BY <1>8 DEF Begin
<1>9. ASSUME NEW t \in Thread, Sync(t) PROVE UNCHANGED <<handle, files, mishaps>>
  BY <1>9 DEF Sync
<1>10. CASE NextDay \/ UNCHANGED vars
  BY <1>7, <1>10 DEF NextDay, vars
<1> QED
  BY <1>3, <1>4, <1>5, <1>6, <1>7, <1>8, <1>9, <1>10 DEF Next, Appending

\* Whole frames can all be read.
LEMMA TidyReadable ==
  ASSUME TidyInv
  PROVE  AckedIsReadable
<1> SUFFICES ASSUME mishaps = {}, NEW e \in acked PROVE \E d \in Day : e \in Readable(files[d])
  BY DEF AckedIsReadable
<1>1. PICK d \in Day : IsIn(e, files[d], synced[d])
  BY DEF TidyInv, SyncedInv, AckedIsSynced
<1> DEFINE f == files[d]
<1>2. f \in Seq(Piece) /\ Tidy(f) /\ e \in Event
  BY DEF TidyInv, AllTidy, SyncedInv, TypeInv, TypeOK
<1> HIDE DEF f
<1>3. Len(f) \in Nat /\ DOMAIN f = 1 .. Len(f) /\ \A j \in 1 .. Len(f) : f[j] \in Piece
  BY <1>2, LenProperties, ElementOfSeq
<1>4. PICK i \in 1 .. Len(f) : f[i].event = e /\ f[i].part # "head"
  BY <1>1, <1>3 DEF IsIn, f
<1>5. f[i].part = "tail"
  BY <1>2, <1>3, <1>4 DEF Piece, Tidy
<1>6. f[i] = [event |-> e, part |-> "tail"]
  BY <1>3, <1>4, <1>5 DEF Piece
<1>7. 1 < i /\ f[i - 1] = [f[i] EXCEPT !.part = "head"]
  BY <1>2, <1>3, <1>5 DEF Tidy
<1>8. f[i - 1] = [event |-> e, part |-> "head"]
  BY <1>6, <1>7
<1>9. i - 1 \in 1 .. Len(f) - 1 /\ (i - 1) + 1 = i
  BY <1>3, <1>7
<1>10. <<f[i - 1], f[(i - 1) + 1]>> = Frame(e)
  BY <1>6, <1>8, <1>9 DEF Frame
<1>11. Whole(e, f)
  BY <1>9, <1>10 DEF Whole
<1>12. ~Broken(f)
  BY <1>2 DEF Broken, Tidy
<1> QED
  BY <1>2, <1>11, <1>12 DEF Readable, f

\* Whatever processes are killed and power fails, what append has returned for can be
\* read, until a thread moves the file under another one or meets it in the compressor,
\* or half a frame is written.
THEOREM AckedIsReadableHolds == Spec => []AckedIsReadable
<1>1. Init => TidyInv
  <2>1. Init => AllTidy
    BY TidyEmpty, NoHandleType DEF Init, AllTidy
  <2> QED
    BY <2>1, InitSynced DEF TidyInv
<1>2. Spec => []TidyInv
  BY <1>1, NextTidy, PTL DEF Spec
<1> QED
  BY <1>2, TidyReadable, PTL
=============================================================================
