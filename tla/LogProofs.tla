----------------------------- MODULE LogProofs -----------------------------
(***************************************************************************)
(* The execution log implements the abstract evidence log, for any number  *)
(* and length of lines, any frame and page size and any number of faults;  *)
(* a log sealed complete holds all that the agent wrote; an acknowledged   *)
(* line is durable, whole and in order; the index is only a cache; what a  *)
(* consumer confirmed is final; the control allowance is bounded; and the  *)
(* UI's mirror shows durable lines and accounts for every message.         *)
(***************************************************************************)
EXTENDS LogCapture, SequenceTheorems, WellFoundedInduction, FiniteSetTheorems, TLAPS

Byte == Nat \X Nat
Outcomes == {None, "complete", "unavailable"}
Frames == [start : Nat, body : Seq(Byte), control : BOOLEAN, outcome : Outcomes]
Segment == [body : Seq(Byte), control : BOOLEAN, outcome : Outcomes]

(* The fields of an open writer, and where it is inside an append.          *)
Fields == {"pc", "todo", "line", "index", "written", "offset", "control",
           "poisoned", "sealed", "marker"}
Busy == {"write", "flush", "sync", "index"}

(* What is left of an append: only its last segment may seal the log.       *)
Todo == {s \in Seq(Segment) : /\ s # <<>>
                              /\ \A i \in 1..(Len(s) - 1) : s[i].outcome = None}

(* Segments of which none seals the log.                                    *)
Unsealed(s) == \A i \in 1..Len(s) : s[i].outcome = None

(* The file: scan_owner accepts its complete frames.                        *)
OwnerInv ==
  /\ owner \in Seq(Frames)
  /\ synced \in 0..Len(owner)
  /\ Contiguous(owner)

(* The counters of the producer and of the environment, and the reader.     *)
RestInv ==
  /\ torn \in BOOLEAN /\ lines \in 0..Lines /\ acked \subseteq 1..lines
  /\ faults \in 0..MaxFaults
  /\ reader.kind \in {"none", "bytes", "frames", "scan", "snapshot"}

(* The writer's fields.                                                     *)
WriterType ==
  /\ w.pc \in {"closed", "idle"} \cup Busy
  /\ w.pc = "closed" => w = Closed
  /\ w.pc # "closed" => /\ DOMAIN w = Fields
                        /\ w.offset \in Nat /\ w.line \in 0..lines
                        /\ w.poisoned \in BOOLEAN /\ w.sealed \in BOOLEAN
  /\ w.pc = "idle" => w.todo = <<>>
  /\ w.pc \in Busy => w.todo \in Todo

(* What an open writer believes of the file: unless it is poisoned it knows *)
(* where the file ends and whether it is sealed.                            *)
WriterInv ==
  /\ w.pc = "idle" /\ ~w.poisoned =>
       /\ w.offset = EndOf(owner)
       /\ w.sealed <=> Outcome(owner) # None
  /\ w.pc \in {"write", "flush"} => w.offset = EndOf(owner) /\ Outcome(owner) = None
  /\ w.pc \in {"flush", "sync"} => w.poisoned
  /\ w.pc = "sync" => owner # <<>> /\ owner[Len(owner)] = Frame(Head(w.todo))
  /\ w.pc = "index" => /\ ~w.poisoned /\ w.offset = EndOf(owner)
                       /\ Outcome(owner) = Head(w.todo).outcome

LogInv == OwnerInv /\ RestInv /\ WriterType /\ WriterInv

---------------------------------------------------------------------------
(* The operators of the log.                                                *)

(* chunks() of a non-empty buffer gives at least one chunk and never more   *)
(* than fill it.                                                            *)
LEMMA ChunkCount ==
  ASSUME NEW L \in Nat \ {0}, NEW F \in Nat \ {0}
  PROVE  /\ (L + F - 1) \div F \in Nat \ {0}
         /\ F * ((L + F - 1) \div F) <= L + F - 1
OBVIOUS

(* Multiples of the frame size keep their order.                            *)
LEMMA Product ==
  ASSUME NEW a \in Nat, NEW b \in Nat, NEW F \in Nat, a <= b
  PROVE  a * F <= b * F /\ a * F \in Nat /\ b * F \in Nat
OBVIOUS

(* write_frame cuts every record into a proper list of segments, none of    *)
(* which seals the log.                                                     *)
LEMMA SegmentsType ==
  ASSUME NEW bytes \in Seq(Byte), bytes # <<>>, NEW control \in BOOLEAN
  PROVE  Segments(bytes, control) \in Todo /\ Unsealed(Segments(bytes, control))
<1> DEFINE L == Len(bytes)
           F == FrameBytes
           count == (L + F - 1) \div F
           from(k) == (k-1) * F + 1
           to(k) == IF k = count THEN L ELSE k * F
           seg(k) == [body |-> SubSeq(bytes, from(k), to(k)),
                      control |-> control, outcome |-> None]
<1>1. L \in Nat \ {0} /\ F \in Nat \ {0}
  BY EmptySeq, LogAssumption
<1>2. count \in Nat \ {0} /\ F * count <= L + F - 1
  BY <1>1, ChunkCount
<1> HIDE DEF L, F, count
<1>3. ASSUME NEW k \in 1..count PROVE seg(k) \in Segment
  <2>1. (k-1) \in Nat /\ (count-1) \in Nat /\ k - 1 <= count - 1
    BY <1>2
  <2>2. (k-1) * F <= (count-1) * F /\ (k-1) * F \in Nat
    BY <2>1, <1>1, Product
  <2>3. (count-1) * F = F * count - F
    BY <1>1, <1>2
  <2>4. from(k) \in Int /\ from(k) >= 1
    BY <2>2
  <2>5. to(k) \in Int /\ to(k) <= L
    <3>1. CASE k = count
      BY <3>1, <1>1
    <3>2. CASE k # count
      <4>1. k <= count - 1 /\ k \in Nat
        BY <3>2, <1>2
      <4>2. k * F <= (count-1) * F /\ k * F \in Nat
        BY <4>1, <2>1, <1>1, Product
      <4> QED
        BY <4>2, <2>3, <1>1, <1>2, <3>2
    <3> QED
      BY <3>1, <3>2
  <2>6. \A i \in from(k)..to(k) : bytes[i] \in Byte
    <3>1. bytes \in [1..L -> Byte]
      BY LenProperties DEF L
    <3> QED
      BY <2>4, <2>5, <1>1, <3>1
  <2>7. SubSeq(bytes, from(k), to(k)) \in Seq(Byte)
    BY <2>4, <2>5, <2>6, SubSeqProperties
  <2> QED
    BY <2>7 DEF Segment, Outcomes
<1>4. Segments(bytes, control) = [k \in 1..count |-> seg(k)]
  BY DEF Segments, count, L, F
<1> DEFINE s == [k \in 1..count |-> seg(k)]
<1>5. s \in Seq(Segment) /\ Len(s) = count
  <2> HIDE DEF seg
  <2> QED BY <1>2, <1>3
<1>6. s # <<>>
  BY <1>5, <1>2
<1>7. \A i \in 1..Len(s) : s[i].outcome = None
  BY <1>5, <1>2
<1> HIDE DEF s
<1>8. s \in Todo /\ Unsealed(s)
  BY <1>2, <1>5, <1>6, <1>7 DEF Todo, Unsealed
<1> QED
  BY <1>4, <1>8 DEF s

(* A control line and a seal are proper lists of segments as well.          *)
LEMMA BytesType ==
  ASSUME NEW n \in Nat, NEW len \in Nat \ {0}
  PROVE  Bytes(n, len) \in Seq(Byte) /\ Bytes(n, len) # <<>>
<1>1. \A k \in 1..len : <<n, k>> \in Byte
  BY DEF Byte
<1>2. Bytes(n, len) \in Seq(Byte) /\ Len(Bytes(n, len)) = len
  BY <1>1 DEF Bytes
<1> QED
  BY <1>2

(* A control line is cut like any other record.                             *)
LEMMA ControlType == ControlSegments \in Todo /\ Unsealed(ControlSegments)
BY LogAssumption, BytesType, SegmentsType DEF ControlSegments

(* finish writes one segment, the only kind that seals.                     *)
LEMMA SealType ==
  ASSUME NEW outcome \in {"complete", "unavailable"}
  PROVE  Seal(outcome) \in Todo
<1> DEFINE seg == [body |-> <<>>, control |-> TRUE, outcome |-> outcome]
<1>1. seg \in Segment
  BY EmptySeq DEF Segment, Outcomes
<1>2. Seal(outcome) = <<seg>>
  BY DEF Seal
<1> HIDE DEF seg
<1>3. <<seg>> \in Seq(Segment) /\ Len(<<seg>>) = 1 /\ <<seg>> # <<>>
  BY <1>1
<1> QED
  BY <1>2, <1>3 DEF Todo

---------------------------------------------------------------------------
(* The file.                                                                *)

(* No frame before the last one is a seal, so an unsealed log has none.     *)
LEMMA UnsealedPrefix ==
  ASSUME OwnerInv
  PROVE  /\ Len(owner) \in Nat
         /\ \A i \in 1..Len(owner) : /\ owner[i] \in Frames
                                     /\ FrameEnd(owner[i]) \in Nat
         /\ EndOf(owner) \in Nat
         /\ Outcome(owner) = None => \A i \in 1..Len(owner) : owner[i].outcome = None
<1>1. Len(owner) \in Nat /\ owner \in [1..Len(owner) -> Frames]
  BY LenProperties DEF OwnerInv
<1>2. ASSUME NEW i \in 1..Len(owner) PROVE owner[i] \in Frames /\ FrameEnd(owner[i]) \in Nat
  <2>1. owner[i] \in Frames
    BY <1>1
  <2>2. Len(owner[i].body) \in Nat /\ owner[i].start \in Nat
    BY <2>1, LenProperties DEF Frames
  <2> QED
    BY <2>1, <2>2 DEF FrameEnd
<1>3. owner # <<>> => Len(owner) \in 1..Len(owner)
  BY EmptySeq, <1>1 DEF OwnerInv
<1>4. EndOf(owner) \in Nat
  BY <1>2, <1>3 DEF EndOf
<1>5. ASSUME Outcome(owner) = None, NEW i \in 1..Len(owner) PROVE owner[i].outcome = None
  <2>1. owner # <<>>
    BY EmptySeq
  <2>2. owner[Len(owner)].outcome = None
    BY <1>5, <2>1 DEF Outcome
  <2> QED
    BY <2>2, <1>1 DEF OwnerInv, Contiguous
<1> QED
  BY <1>1, <1>2, <1>4, <1>5

(* A frame that starts where an unsealed file ends keeps it contiguous.     *)
LEMMA AppendOwner ==
  ASSUME OwnerInv, NEW f \in Frames, f.start = EndOf(owner), Outcome(owner) = None,
         owner' = Append(owner, f), synced' = synced
  PROVE  OwnerInv' /\ owner' # <<>> /\ owner'[Len(owner')] = f /\ Durable' = Durable
<1>1. Len(owner) \in Nat /\ synced \in 0..Len(owner) /\ owner \in Seq(Frames)
  BY UnsealedPrefix DEF OwnerInv
<1>2. /\ owner' \in Seq(Frames) /\ owner' # <<>> /\ Len(owner') = Len(owner) + 1
      /\ \A i \in 1..Len(owner) : owner'[i] = owner[i]
      /\ owner'[Len(owner) + 1] = f
  BY <1>1, AppendProperties
<1>3. Contiguous(owner')
  <2> SUFFICES ASSUME NEW i \in 1..Len(owner')
               PROVE  /\ owner'[i].start = IF i = 1 THEN 0 ELSE FrameEnd(owner'[i-1])
                      /\ owner'[i].outcome # None => i = Len(owner')
    BY DEF Contiguous
  <2>1. CASE i = Len(owner) + 1
    <3>1. owner'[i].start = EndOf(owner)
      BY <2>1, <1>2
    <3>2. CASE owner = <<>>
      BY <3>1, <3>2, <2>1, <1>2, EmptySeq DEF EndOf
    <3>3. CASE owner # <<>>
      <4>1. Len(owner) \in 1..Len(owner) /\ i # 1 /\ i - 1 = Len(owner)
        BY <3>3, <2>1, EmptySeq, <1>1
      <4>2. EndOf(owner) = FrameEnd(owner[Len(owner)])
        BY <3>3 DEF EndOf
      <4> QED
        BY <4>1, <4>2, <3>1, <1>2, <2>1
    <3> QED
      BY <3>2, <3>3
  <2>2. CASE i # Len(owner) + 1
    <3>1. i \in 1..Len(owner)
      BY <2>2, <1>1, <1>2
    <3>2. owner'[i] = owner[i] /\ (i # 1 => i - 1 \in 1..Len(owner) /\ owner'[i-1] = owner[i-1])
      BY <3>1, <1>1, <1>2
    <3>3. owner[i].outcome = None
      BY <3>1, UnsealedPrefix
    <3>4. owner[i].start = IF i = 1 THEN 0 ELSE FrameEnd(owner[i-1])
      BY <3>1 DEF OwnerInv, Contiguous
    <3> QED
      BY <3>2, <3>3, <3>4
  <2> QED
    BY <2>1, <2>2
<1>4. Durable' = Durable
  <2>1. \A i \in 1..synced : owner[i] \in Frames /\ owner'[i] = owner[i]
    BY <1>1, <1>2, UnsealedPrefix
  <2>2. /\ Durable \in Seq(Frames) /\ Durable' \in Seq(Frames)
        /\ Len(Durable) = synced /\ Len(Durable') = synced
        /\ \A i \in 1..synced : Durable[i] = owner[i] /\ Durable'[i] = owner'[i]
    BY <2>1, <1>1, SubSeqProperties DEF Durable
  <2> QED
    BY <2>1, <2>2, SeqEqual
<1> QED
  BY <1>1, <1>2, <1>3, <1>4 DEF OwnerInv

(* A barrier covers the whole file: the evidence stays or grows.            *)
LEMMA Barrier ==
  ASSUME OwnerInv, owner' = owner, synced' = Len(owner)
  PROVE  OwnerInv' /\ [Evidence!Grow]_Durable
<1>1. Len(owner) \in Nat /\ synced \in 0..Len(owner) /\ owner \in Seq(Frames)
  BY UnsealedPrefix DEF OwnerInv
<1>2. OwnerInv'
  BY <1>1 DEF OwnerInv, Contiguous, FrameEnd
<1>3. \A i \in 1..Len(owner) : owner[i] \in Frames
  BY UnsealedPrefix
<1>4. /\ Durable \in Seq(Frames) /\ Durable' \in Seq(Frames)
      /\ Len(Durable) = synced /\ Len(Durable') = Len(owner)
      /\ \A i \in 1..synced : Durable[i] = owner[i]
      /\ \A i \in 1..Len(owner) : Durable'[i] = owner[i]
  BY <1>1, <1>3, SubSeqProperties DEF Durable
<1>5. CASE synced = Len(owner)
  <2>1. Durable' = Durable
    BY <1>1, <1>4, <1>5, SeqEqual
  <2> QED
    BY <2>1, <1>2
<1>6. CASE synced < Len(owner)
  <2>1. Evidence!Outcome(Durable) = None
    <3>1. CASE Durable = <<>>
      BY <3>1 DEF Evidence!Outcome
    <3>2. CASE Durable # <<>>
      <4>1. synced \in 1..synced /\ Len(Durable) = synced
        BY <3>2, <1>4, <1>1, EmptySeq
      <4>2. Durable[Len(Durable)] = owner[synced]
        BY <4>1, <1>4
      <4>3. owner[synced].outcome = None
        BY <4>1, <1>6, <1>1 DEF OwnerInv, Contiguous
      <4> QED
        BY <3>2, <4>2, <4>3 DEF Evidence!Outcome
    <3> QED
      BY <3>1, <3>2
  <2>2. Durable' = owner
    BY <1>4, <1>1, SeqEqual
  <2>3. Evidence!Contiguous(owner)
    BY DEF OwnerInv, Contiguous, FrameEnd, Evidence!Contiguous, Evidence!FrameEnd
  <2>4. \A i \in 1..Len(Durable) : Durable'[i] = Durable[i]
    BY <1>1, <1>4
  <2>5. Len(Durable) < Len(Durable')
    BY <1>4, <1>6
  <2>6. Evidence!Contiguous(Durable')
    BY <2>2, <2>3
  <2>7. Evidence!Grow
    <3> HIDE DEF Durable
    <3> QED BY <2>1, <2>4, <2>5, <2>6 DEF Evidence!Grow
  <2> QED
    BY <2>7, <1>2
<1> QED
  BY <1>1, <1>2, <1>5, <1>6

(* A crash keeps every frame behind the last barrier.                       *)
LEMMA CutOwner ==
  ASSUME OwnerInv, NEW kept \in synced..Len(owner),
         owner' = SubSeq(owner, 1, kept), synced' = synced
  PROVE  OwnerInv' /\ Durable' = Durable
<1>1. Len(owner) \in Nat /\ synced \in 0..Len(owner) /\ kept \in Nat /\ kept <= Len(owner)
  BY UnsealedPrefix DEF OwnerInv
<1>2. \A i \in 1..kept : owner[i] \in Frames
  BY <1>1, UnsealedPrefix
<1>3. owner' \in Seq(Frames) /\ Len(owner') = kept /\ \A i \in 1..kept : owner'[i] = owner[i]
  BY <1>1, <1>2, SubSeqProperties
<1>4. Contiguous(owner')
  BY <1>1, <1>3 DEF OwnerInv, Contiguous
<1>5. /\ Durable \in Seq(Frames) /\ Durable' \in Seq(Frames)
      /\ Len(Durable) = synced /\ Len(Durable') = synced
      /\ \A i \in 1..synced : Durable[i] = owner[i] /\ Durable'[i] = owner'[i]
  <2>1. \A i \in 1..synced : owner[i] \in Frames /\ owner'[i] \in Frames
    BY <1>1, <1>2, <1>3
  <2> QED
    BY <2>1, <1>1, SubSeqProperties DEF Durable
<1>6. Durable' = Durable
  BY <1>1, <1>3, <1>5, SeqEqual
<1> QED
  BY <1>1, <1>3, <1>4, <1>6 DEF OwnerInv

(* A step that leaves the file and its barrier alone.                       *)
LEMMA SameOwner ==
  ASSUME OwnerInv, owner' = owner, synced' = synced
  PROVE  OwnerInv' /\ Durable' = Durable
BY DEF OwnerInv, Contiguous, FrameEnd, Durable

---------------------------------------------------------------------------
(* Every step keeps the invariant and, seen from the abstract log, either   *)
(* grows the evidence or leaves it.                                         *)

(* An empty log is a proper one.                                            *)
LEMMA InitLog == Init => LogInv
<1> SUFFICES ASSUME Init PROVE LogInv
  OBVIOUS
<1> USE DEF Init
<1>1. OwnerInv
  <2>1. owner \in Seq(Frames) /\ Len(owner) = 0
    BY EmptySeq
  <2> QED
    BY <2>1 DEF OwnerInv, Contiguous
<1>2. RestInv
  <2>1. Lines \in Nat /\ MaxFaults \in Nat
    BY LogAssumption
  <2>2. torn \in BOOLEAN
    OBVIOUS
  <2>3. lines \in 0..Lines /\ faults \in 0..MaxFaults /\ acked \subseteq 1..lines
    BY <2>1
  <2>4. reader.kind = "none"
    BY DEF NoReader
  <2> QED
    BY <2>2, <2>3, <2>4 DEF RestInv
<1>3. WriterType /\ WriterInv
  BY DEF WriterType, WriterInv, Closed, Busy
<1> QED
  BY <1>1, <1>2, <1>3 DEF LogInv

(* open_writer takes its offset and its seal from the file it has synced.   *)
LEMMA OpenStep == LogInv /\ Open => LogInv' /\ [Evidence!Grow]_Durable
<1> SUFFICES ASSUME LogInv, Open PROVE LogInv' /\ [Evidence!Grow]_Durable
  OBVIOUS
<1>1. OwnerInv' /\ [Evidence!Grow]_Durable
  BY Barrier DEF LogInv, Open
<1>2. RestInv'
  BY LogAssumption DEF LogInv, RestInv, Open, Fault, readers
<1>3. PICK idx \in BOOLEAN : w' = IF ScanFails THEN w ELSE Recovered(idx)
  BY DEF Open
<1>4. CASE ScanFails
  BY <1>1, <1>2, <1>3, <1>4 DEF LogInv, WriterType, WriterInv, Open, Closed, Busy
<1>5. CASE ~ScanFails
  <2>1. EndOf(owner) \in Nat /\ EndOf(owner') = EndOf(owner) /\ Outcome(owner') = Outcome(owner)
    BY UnsealedPrefix DEF LogInv, Open
  <2>2. w' = Recovered(idx)
    BY <1>3, <1>5
  <2>3. WriterType'
    <3>1. lines' \in Nat
      BY <1>2, LogAssumption DEF RestInv
    <3> QED
      BY <2>1, <2>2, <3>1 DEF Recovered, WriterType, Busy, Fields
  <2>4. WriterInv'
    BY <2>1, <2>2 DEF Recovered, WriterInv
  <2> QED
    BY <1>1, <1>2, <2>3, <2>4 DEF LogInv
<1> QED
  BY <1>4, <1>5

(* A dropped writer leaves the file as it is.                               *)
LEMMA DropStep == LogInv /\ Drop => LogInv' /\ [Evidence!Grow]_Durable
<1> SUFFICES ASSUME LogInv, Drop PROVE LogInv' /\ [Evidence!Grow]_Durable
  OBVIOUS
<1>1. OwnerInv' /\ Durable' = Durable
  BY SameOwner DEF LogInv, Drop, disk
<1>2. RestInv'
  BY DEF LogInv, RestInv, Drop, readers, disk
<1>3. WriterType' /\ WriterInv'
  BY DEF Drop, WriterType, WriterInv, Closed, Busy
<1> QED
  BY <1>1, <1>2, <1>3 DEF LogInv

(* An append starts on a healthy writer, which knows where the file ends.   *)
LEMMA BeginStep ==
  ASSUME LogInv, Writable, RestInv', owner' = owner, synced' = synced,
         w'.pc = "write", w'.todo \in Todo, w'.line \in 0..lines', DOMAIN w' = Fields,
         w'.offset = w.offset, w'.poisoned = w.poisoned, w'.sealed = w.sealed
  PROVE  LogInv' /\ [Evidence!Grow]_Durable
<1>1. OwnerInv' /\ Durable' = Durable
  BY SameOwner DEF LogInv
<1>2. w.offset = EndOf(owner) /\ Outcome(owner) = None
  BY DEF LogInv, WriterType, WriterInv, Writable
<1>3. WriterType'
  BY DEF LogInv, WriterType, Writable, Busy
<1>4. WriterInv'
  BY <1>2 DEF WriterInv
<1> QED
  BY <1>1, <1>3, <1>4 DEF LogInv

(* append_jsonl_line within the reserve.                                    *)
LEMMA AppendLineStep == LogInv /\ AppendLine => LogInv' /\ [Evidence!Grow]_Durable
<1> SUFFICES ASSUME LogInv, AppendLine PROVE LogInv' /\ [Evidence!Grow]_Durable
  OBVIOUS
<1>1. lines \in Nat /\ lines' = lines + 1 /\ lines' \in 1..Lines
  BY LogAssumption DEF LogInv, RestInv, AppendLine
<1>2. RestInv'
  BY <1>1 DEF LogInv, RestInv, AppendLine, readers, disk
<1> DEFINE bytes == Bytes(lines + 1, LineBytes[lines + 1])
           todo == Segments(bytes, FALSE)
<1>3. todo \in Todo
  <2>1. lines + 1 \in Nat /\ LineBytes[lines + 1] \in Nat \ {0}
    BY <1>1, LogAssumption
  <2>2. bytes \in Seq(Byte) /\ bytes # <<>>
    BY <2>1, BytesType
  <2> HIDE DEF bytes
  <2> QED
    BY <2>2, SegmentsType
<1>4. /\ w' = [w EXCEPT !.pc = "write", !.todo = todo, !.line = lines + 1]
      /\ owner' = owner /\ synced' = synced /\ Writable
  BY DEF AppendLine, Begin, disk
<1> HIDE DEF todo
<1>5. DOMAIN w = Fields
  BY <1>4 DEF LogInv, WriterType, Writable
<1>6. /\ w'.pc = "write" /\ w'.todo = todo /\ w'.line \in 0..lines' /\ DOMAIN w' = Fields
      /\ w'.offset = w.offset /\ w'.poisoned = w.poisoned /\ w'.sealed = w.sealed
  BY <1>1, <1>4, <1>5 DEF Fields
<1> QED
  BY <1>2, <1>3, <1>4, <1>6, BeginStep

(* append_jsonl_line below the reserve: only a marker is written.           *)
LEMMA AppendRefusedStep == LogInv /\ AppendRefused => LogInv' /\ [Evidence!Grow]_Durable
<1> SUFFICES ASSUME LogInv, AppendRefused PROVE LogInv' /\ [Evidence!Grow]_Durable
  OBVIOUS
<1>1. lines \in Nat /\ lines' = lines + 1 /\ lines' \in 1..Lines
  BY LogAssumption DEF LogInv, RestInv, AppendRefused
<1>2. RestInv'
  BY <1>1 DEF LogInv, RestInv, AppendRefused, readers, disk
<1>3. Writable /\ owner' = owner /\ synced' = synced
  BY DEF AppendRefused, disk
<1>4. DOMAIN w = Fields
  BY <1>3 DEF LogInv, WriterType, Writable
<1>5. CASE w' = [w EXCEPT !.pc = "write", !.todo = ControlSegments, !.line = 0, !.marker = TRUE]
  <2>1. /\ w'.pc = "write" /\ w'.todo = ControlSegments /\ w'.line \in 0..lines'
        /\ DOMAIN w' = Fields
        /\ w'.offset = w.offset /\ w'.poisoned = w.poisoned /\ w'.sealed = w.sealed
    BY <1>1, <1>4, <1>5 DEF Fields
  <2> QED
    BY <2>1, <1>2, <1>3, ControlType, BeginStep
<1>6. CASE w' = [w EXCEPT !.marker = TRUE]
  <2>1. OwnerInv' /\ Durable' = Durable
    BY <1>3, SameOwner DEF LogInv
  <2>2. w.pc = "idle"
    BY <1>3 DEF Writable
  <2>3. /\ w'.pc = "idle" /\ w'.todo = w.todo /\ w'.line = w.line /\ DOMAIN w' = Fields
        /\ w'.offset = w.offset /\ w'.poisoned = w.poisoned /\ w'.sealed = w.sealed
    BY <2>2, <1>4, <1>6 DEF Fields
  <2>4. WriterType'
    BY <1>1, <2>2, <2>3 DEF LogInv, WriterType, Busy
  <2>5. WriterInv'
    BY <1>3, <2>2, <2>3 DEF LogInv, WriterInv
  <2> QED
    BY <2>1, <2>4, <2>5, <1>2 DEF LogInv
<1> QED
  BY <1>5, <1>6 DEF AppendRefused

(* append_control_line and finish.                                          *)
LEMMA AppendControlStep == LogInv /\ AppendControl => LogInv' /\ [Evidence!Grow]_Durable
<1> SUFFICES ASSUME LogInv, AppendControl PROVE LogInv' /\ [Evidence!Grow]_Durable
  OBVIOUS
<1>1. RestInv'
  BY DEF LogInv, RestInv, AppendControl, readers, disk
<1>2. /\ w' = [w EXCEPT !.pc = "write", !.todo = ControlSegments, !.line = 0]
      /\ owner' = owner /\ synced' = synced /\ Writable
  BY DEF AppendControl, Begin, disk
<1>3. DOMAIN w = Fields /\ 0 \in 0..lines'
  BY <1>1, <1>2, LogAssumption DEF LogInv, RestInv, WriterType, Writable
<1>4. /\ w'.pc = "write" /\ w'.todo = ControlSegments /\ w'.line \in 0..lines'
      /\ DOMAIN w' = Fields
      /\ w'.offset = w.offset /\ w'.poisoned = w.poisoned /\ w'.sealed = w.sealed
  BY <1>2, <1>3 DEF Fields
<1> QED
  BY <1>1, <1>2, <1>4, ControlType, BeginStep

(* finish starts its seal on a healthy writer.                              *)
LEMMA FinishStep ==
  ASSUME NEW outcome \in {"complete", "unavailable"}, LogInv, Finish(outcome)
  PROVE  LogInv' /\ [Evidence!Grow]_Durable
<1>1. RestInv'
  BY DEF LogInv, RestInv, Finish, readers, disk
<1> DEFINE todo == Seal(outcome)
<1>2. /\ w' = [w EXCEPT !.pc = "write", !.todo = todo, !.line = 0]
      /\ owner' = owner /\ synced' = synced /\ Writable
  BY DEF Finish, Begin, disk
<1>3. todo \in Todo
  BY SealType
<1> HIDE DEF todo
<1>4. DOMAIN w = Fields /\ 0 \in 0..lines'
  BY <1>1, <1>2, LogAssumption DEF LogInv, RestInv, WriterType, Writable
<1>5. /\ w'.pc = "write" /\ w'.todo = todo /\ w'.line \in 0..lines' /\ DOMAIN w' = Fields
      /\ w'.offset = w.offset /\ w'.poisoned = w.poisoned /\ w'.sealed = w.sealed
  BY <1>2, <1>4 DEF Fields
<1> QED
  BY <1>1, <1>2, <1>3, <1>5, BeginStep

(* From the first byte of a frame to its barrier the writer is poisoned.    *)
LEMMA WriteBytesStep == LogInv /\ WriteBytes => LogInv' /\ [Evidence!Grow]_Durable
<1> SUFFICES ASSUME LogInv, WriteBytes PROVE LogInv' /\ [Evidence!Grow]_Durable
  OBVIOUS
<1>1. OwnerInv' /\ Durable' = Durable
  BY SameOwner DEF LogInv, WriteBytes
<1>2. RestInv'
  BY DEF LogInv, RestInv, WriteBytes, readers
<1>3. DOMAIN w = Fields
  BY DEF LogInv, WriterType, WriteBytes
<1>4. /\ w'.pc = "flush" /\ w'.todo = w.todo /\ w'.line = w.line /\ DOMAIN w' = Fields
      /\ w'.offset = w.offset /\ w'.poisoned = TRUE /\ w'.sealed = w.sealed
  BY <1>3 DEF Fields, WriteBytes
<1>5. WriterType'
  BY <1>3, <1>4 DEF LogInv, WriterType, Busy, WriteBytes
<1>6. WriterInv'
  BY <1>3, <1>4 DEF LogInv, WriterInv, WriteBytes
<1> QED
  BY <1>1, <1>2, <1>5, <1>6 DEF LogInv

(* What is left of an append has a first segment.                           *)
LEMMA HeadOfTodo ==
  ASSUME NEW s \in Todo
  PROVE  /\ s \in Seq(Segment) /\ s # <<>> /\ Len(s) \in Nat \ {0}
         /\ Head(s) \in Segment /\ Head(s) = s[1] /\ Len(Head(s).body) \in Nat
<1>1. s \in Seq(Segment) /\ s # <<>>
  BY DEF Todo
<1>2. Len(s) \in Nat \ {0} /\ Head(s) = s[1] /\ Head(s) \in Segment
  BY <1>1, EmptySeq, HeadTailProperties
<1>3. Len(Head(s).body) \in Nat
  BY <1>2 DEF Segment
<1> QED
  BY <1>1, <1>2, <1>3

(* The frame is whole: it starts where the file ended.                      *)
LEMMA FlushStep == LogInv /\ Flush => LogInv' /\ [Evidence!Grow]_Durable
<1> SUFFICES ASSUME LogInv, Flush PROVE LogInv' /\ [Evidence!Grow]_Durable
  OBVIOUS
<1> DEFINE f == Frame(Head(w.todo))
<1>1. /\ DOMAIN w = Fields /\ w.todo \in Todo /\ w.offset \in Nat
      /\ w.offset = EndOf(owner) /\ Outcome(owner) = None /\ w.poisoned
  BY DEF LogInv, WriterType, WriterInv, Flush, Busy
<1>2. f \in Frames /\ f.start = EndOf(owner)
  BY <1>1, HeadOfTodo DEF Frame, Frames, Segment
<1>3. OwnerInv' /\ owner' # <<>> /\ owner'[Len(owner')] = f /\ Durable' = Durable
  <2> HIDE DEF f
  <2>1. owner' = Append(owner, f) /\ synced' = synced
    BY DEF Flush, f
  <2> QED
    BY <2>1, <1>1, <1>2, AppendOwner DEF LogInv
<1>4. RestInv'
  BY DEF LogInv, RestInv, Flush, readers
<1>5. /\ w'.pc = "sync" /\ w'.todo = w.todo /\ w'.line = w.line /\ DOMAIN w' = Fields
      /\ w'.offset = w.offset /\ w'.poisoned = w.poisoned /\ w'.sealed = w.sealed
  BY <1>1 DEF Fields, Flush
<1>6. WriterType'
  BY <1>1, <1>5 DEF LogInv, WriterType, Busy, Flush
<1>7. owner'[Len(owner')] = Frame(Head(w.todo))'
  BY <1>3, <1>5 DEF Frame
<1>8. WriterInv'
  BY <1>1, <1>3, <1>5, <1>7 DEF WriterInv
<1> QED
  BY <1>3, <1>4, <1>6, <1>8 DEF LogInv

(* sync_data: the frame becomes evidence, the writer healthy.               *)
LEMMA SyncStep == LogInv /\ Sync => LogInv' /\ [Evidence!Grow]_Durable
<1> SUFFICES ASSUME LogInv, Sync PROVE LogInv' /\ [Evidence!Grow]_Durable
  OBVIOUS
<1>1. OwnerInv' /\ [Evidence!Grow]_Durable
  BY Barrier DEF LogInv, Sync
<1>2. RestInv'
  BY DEF LogInv, RestInv, Sync, readers
<1>3. /\ DOMAIN w = Fields /\ w.todo \in Todo /\ w.offset \in Nat
      /\ owner # <<>> /\ owner[Len(owner)] = Frame(Head(w.todo))
  BY DEF LogInv, WriterType, WriterInv, Sync, Busy
<1>4. Head(w.todo) \in Segment /\ Len(Head(w.todo).body) \in Nat
  BY <1>3, HeadOfTodo
<1>5. /\ w'.pc = "index" /\ w'.todo = w.todo /\ w'.line = w.line /\ DOMAIN w' = Fields
      /\ w'.offset = w.offset + Len(Head(w.todo).body)
      /\ w'.poisoned = FALSE /\ w'.sealed = w.sealed
  BY <1>3 DEF Fields, Sync
<1>6. WriterType'
  BY <1>3, <1>4, <1>5 DEF LogInv, WriterType, Busy, Sync
<1>7. EndOf(owner) = w.offset + Len(Head(w.todo).body) /\ Outcome(owner) = Head(w.todo).outcome
  BY <1>3, <1>4 DEF EndOf, FrameEnd, Outcome, Frame
<1>8. owner' = owner
  BY DEF Sync
<1>9. WriterInv'
  BY <1>5, <1>7, <1>8 DEF WriterInv
<1> QED
  BY <1>1, <1>2, <1>6, <1>9 DEF LogInv

(* A failed append leaves the writer poisoned.                              *)
LEMMA WriteFailsStep == LogInv /\ WriteFails => LogInv' /\ [Evidence!Grow]_Durable
<1> SUFFICES ASSUME LogInv, WriteFails PROVE LogInv' /\ [Evidence!Grow]_Durable
  OBVIOUS
<1>1. OwnerInv' /\ Durable' = Durable
  BY SameOwner DEF LogInv, WriteFails
<1>2. RestInv'
  <2>1. torn' \in BOOLEAN
    BY DEF WriteFails
  <2>2. faults' \in 0..MaxFaults
    BY LogAssumption DEF LogInv, RestInv, WriteFails, Fault
  <2> QED
    BY <2>1, <2>2 DEF LogInv, RestInv, WriteFails, readers
<1>3. DOMAIN w = Fields /\ w.poisoned
  BY DEF LogInv, WriterType, WriterInv, WriteFails
<1>4. /\ w'.pc = "idle" /\ w'.todo = <<>> /\ w'.line = 0 /\ DOMAIN w' = Fields
      /\ w'.offset = w.offset /\ w'.poisoned = w.poisoned /\ w'.sealed = w.sealed
  BY <1>3 DEF Fields, WriteFails
<1>5. WriterType'
  <2>1. lines' \in Nat
    BY <1>2, LogAssumption DEF RestInv
  <2>2. w.offset \in Nat /\ w.poisoned \in BOOLEAN /\ w.sealed \in BOOLEAN
    BY DEF LogInv, WriterType, WriteFails
  <2>3. w'.line \in 0..lines'
    BY <2>1, <1>4
  <2> QED
    BY <1>4, <2>2, <2>3 DEF WriterType, Busy
<1>6. WriterInv'
  BY <1>3, <1>4 DEF WriterInv
<1> QED
  BY <1>1, <1>2, <1>5, <1>6 DEF LogInv

(* The index line: the append goes on with the next segment or is done.     *)
LEMMA IndexStep == LogInv /\ IndexFrame => LogInv' /\ [Evidence!Grow]_Durable
<1> SUFFICES ASSUME LogInv, IndexFrame PROVE LogInv' /\ [Evidence!Grow]_Durable
  OBVIOUS
<1>1. OwnerInv' /\ Durable' = Durable /\ owner' = owner
  BY SameOwner DEF LogInv, IndexFrame
<1>2. /\ w.pc = "index" /\ DOMAIN w = Fields /\ w.todo \in Todo /\ w.offset \in Nat
      /\ w.line \in 0..lines /\ lines \in Nat /\ ~w.poisoned /\ w.poisoned \in BOOLEAN
      /\ w.offset = EndOf(owner) /\ Outcome(owner) = Head(w.todo).outcome
  BY LogAssumption DEF LogInv, RestInv, WriterType, WriterInv, IndexFrame, Busy
<1>3. RestInv'
  BY <1>2, LogAssumption DEF LogInv, RestInv, IndexFrame, Fault, readers
<1>4. PICK ok \in BOOLEAN :
        w' = [w EXCEPT !.pc = IF Len(w.todo) = 1 THEN "idle" ELSE "write",
                       !.todo = Tail(w.todo), !.written = @ + 1, !.index = ok,
                       !.line = IF Len(w.todo) = 1 THEN 0 ELSE @,
                       !.sealed = Head(w.todo).outcome # None]
  BY DEF IndexFrame
<1>5. /\ w'.pc = (IF Len(w.todo) = 1 THEN "idle" ELSE "write")
      /\ w'.todo = Tail(w.todo) /\ DOMAIN w' = Fields
      /\ w'.line \in {0, w.line} /\ w'.offset = w.offset /\ w'.poisoned = w.poisoned
      /\ w'.sealed = (Head(w.todo).outcome # None)
  BY <1>2, <1>4 DEF Fields
<1>6. /\ Len(w.todo) = 1 => Tail(w.todo) = <<>>
      /\ Len(w.todo) # 1 => Tail(w.todo) \in Todo /\ Head(w.todo).outcome = None
  <2> DEFINE s == w.todo
             t == Tail(w.todo)
  <2>1. /\ s \in Seq(Segment) /\ s # <<>> /\ Len(s) \in Nat \ {0} /\ Head(s) = s[1]
        /\ \A i \in 1..(Len(s) - 1) : s[i].outcome = None
    BY <1>2, HeadOfTodo DEF Todo
  <2> HIDE DEF s
  <2>2. t \in Seq(Segment) /\ Len(t) = Len(s) - 1 /\ \A i \in 1..Len(t) : t[i] = s[i+1]
    BY <2>1, HeadTailProperties DEF s
  <2> HIDE DEF t
  <2>3. Len(s) = 1 => t = <<>>
    BY <2>2, EmptySeq
  <2>4. ASSUME Len(s) # 1 PROVE t \in Todo /\ Head(s).outcome = None
    <3>1. t # <<>> /\ 1 \in 1..(Len(s) - 1)
      BY <2>1, <2>2, <2>4, EmptySeq
    <3>2. \A i \in 1..(Len(t) - 1) : t[i].outcome = None
      BY <2>1, <2>2
    <3> QED
      BY <2>1, <2>2, <3>1, <3>2 DEF Todo
  <2> QED
    BY <2>3, <2>4 DEF s, t
<1>7. lines' = lines
  BY DEF IndexFrame
<1>8. WriterType'
  BY <1>2, <1>5, <1>6, <1>7 DEF WriterType, Busy
<1>9. WriterInv'
  BY <1>1, <1>2, <1>5, <1>6 DEF WriterInv
<1> QED
  BY <1>1, <1>3, <1>8, <1>9 DEF LogInv

(* A reader writes nothing; its confirmation is a barrier.                  *)
LEMMA ReaderSteps == LogInv /\ ReaderStep => LogInv' /\ [Evidence!Grow]_Durable
<1> SUFFICES ASSUME LogInv, ReaderStep PROVE LogInv' /\ [Evidence!Grow]_Durable
  OBVIOUS
<1>1. /\ owner' = owner /\ torn' = torn /\ w' = w /\ lines' = lines /\ acked' = acked /\ faults' = faults
      /\ synced' \in {synced, Len(owner)}
      /\ reader'.kind \in {"none", "bytes", "frames", "scan", "snapshot"}
  <2>1. ASSUME NEW n \in PageSizes, ReadPage(n) \/ ReadProvenance(n) PROVE <1>1!:
    <3>1. CASE ReadPage(n)
      <4>1. reader' = [kind |-> "bytes", value |-> ReadRange(Len(copy.bytes), Len(copy.bytes) + n)]
        BY <3>1 DEF ReadPage
      <4>2. reader'.kind = "bytes"
        BY <4>1
      <4> QED
        BY <3>1, <4>2 DEF ReadPage, disk
    <3>2. CASE ReadProvenance(n)
      <4>1. \E page : reader' = [kind |-> "frames", value |-> page]
        BY <3>2 DEF ReadProvenance
      <4>2. reader'.kind = "frames"
        BY <4>1
      <4> QED
        BY <3>2, <4>2 DEF ReadProvenance, disk
    <3> QED
      BY <2>1, <3>1, <3>2
  <2>2. CASE ScanSnapshot
    BY <2>2 DEF ScanSnapshot, disk
  <2>3. CASE ReadSnapshot
    BY <2>3 DEF ReadSnapshot, disk, NoReader
  <2>4. CASE Confirm
    BY <2>4 DEF Confirm, NoReader
  <2>5. CASE ConfirmFails
    BY <2>5 DEF ConfirmFails, disk, NoReader
  <2> QED
    BY <2>1, <2>2, <2>3, <2>4, <2>5 DEF ReaderStep
<1>2. OwnerInv' /\ [Evidence!Grow]_Durable
  BY <1>1, SameOwner, Barrier DEF LogInv
<1>3. RestInv'
  BY <1>1 DEF LogInv, RestInv
<1>4. WriterType' /\ WriterInv'
  BY <1>1 DEF LogInv, WriterType, WriterInv, Frame
<1> QED
  BY <1>2, <1>3, <1>4 DEF LogInv

(* A crash cuts the file at or behind its last barrier.                     *)
LEMMA CrashStep == LogInv /\ Crash => LogInv' /\ [Evidence!Grow]_Durable
<1> SUFFICES ASSUME LogInv, Crash PROVE LogInv' /\ [Evidence!Grow]_Durable
  OBVIOUS
<1>1. PICK kept \in synced..Len(owner) :
        /\ owner' = SubSeq(owner, 1, kept)
        /\ torn' \in IF torn \/ kept < Len(owner) THEN BOOLEAN ELSE {FALSE}
  BY DEF Crash
<1>2. synced' = synced
  BY DEF Crash
<1>3. OwnerInv' /\ Durable' = Durable
  BY <1>1, <1>2, CutOwner DEF LogInv
<1>4. torn' \in BOOLEAN
  BY <1>1
<1>5. RestInv'
  BY <1>4, LogAssumption DEF LogInv, RestInv, Crash, Fault, NoReader
<1>6. WriterType' /\ WriterInv'
  BY DEF Crash, WriterType, WriterInv, Closed, Busy
<1> QED
  BY <1>3, <1>5, <1>6 DEF LogInv

(* One step of the log, or a stutter.                                       *)
LEMMA LogStep == LogInv /\ [Next]_logVars => LogInv' /\ [Evidence!Grow]_Durable
<1> SUFFICES ASSUME LogInv, [Next]_logVars PROVE LogInv' /\ [Evidence!Grow]_Durable
  OBVIOUS
<1>1. CASE UNCHANGED logVars
  <2>1. /\ owner' = owner /\ synced' = synced /\ torn' = torn /\ w' = w /\ lines' = lines
        /\ acked' = acked /\ faults' = faults /\ reader' = reader
    BY <1>1 DEF logVars, disk, readers
  <2>2. OwnerInv' /\ Durable' = Durable
    BY <2>1, SameOwner DEF LogInv
  <2>3. RestInv'
    BY <2>1 DEF LogInv, RestInv
  <2>4. WriterType' /\ WriterInv'
    BY <2>1 DEF LogInv, WriterType, WriterInv, Frame
  <2> QED
    BY <2>2, <2>3, <2>4 DEF LogInv
<1>2. ASSUME NEW outcome \in {"complete", "unavailable"}, Finish(outcome)
      PROVE  LogInv' /\ [Evidence!Grow]_Durable
  BY <1>2, FinishStep
<1>3. CASE WriterStep
  BY <1>3, WriteBytesStep, FlushStep, SyncStep, WriteFailsStep, IndexStep DEF WriterStep
<1> QED
  BY <1>1, <1>2, <1>3, OpenStep, DropStep, AppendLineStep, AppendRefusedStep,
     AppendControlStep, ReaderSteps, CrashStep DEF Next

(* The invariant holds in every reachable state of the log.                 *)
LEMMA LogInvariant == Spec => []LogInv
<1>1. LogInv /\ [Next]_logVars => LogInv'
  BY LogStep
<1> QED
  BY InitLog, <1>1, PTL DEF Spec

(* Type correctness of the execution log (ExecutionLogWriter and its file): *)
(* the barrier never passes the end of the file, only lines the producer    *)
(* handed over are acknowledged, and an append is under way exactly while   *)
(* segments are left to write.                                              *)
THEOREM LogTypeCorrect == Spec => []TypeOK
<1>1. LogInv => TypeOK
  BY DEF LogInv, OwnerInv, RestInv, WriterType, TypeOK, Closed, Busy, Todo
<1> QED
  BY LogInvariant, <1>1, PTL

(* The execution log implements the evidence log, for every line length,    *)
(* frame size, page size, crash and failed write: what a barrier of         *)
(* write_segment, open_writer or confirm_publication has covered only grows *)
(* at its end, without a gap, and never past a seal.                        *)
THEOREM LogImplementsEvidence == Spec => DurableEvidence
<1>1. Init => Evidence!Init
  <2> SUFFICES ASSUME Init PROVE Durable = <<>>
    BY DEF Evidence!Init
  <2> QED
    BY SubSeqProperties, EmptySeq DEF Init, Durable
<1>2. LogInv /\ [Next]_logVars => [Evidence!Grow]_Durable
  BY LogStep
<1> QED
  BY LogInvariant, <1>1, <1>2, PTL DEF Spec, DurableEvidence, Evidence!Spec

---------------------------------------------------------------------------
(* What a durable consumer accepts (read_execution_log_provenance and       *)
(* confirm_publication).                                                    *)

(* Its frames are the first of the file, behind the barrier.                *)
CopyOK ==
  /\ DOMAIN copy = {"bytes", "frames"} /\ copy.frames \in Seq(Frames)
  /\ Len(copy.frames) <= synced
  /\ \A i \in 1..Len(copy.frames) : copy.frames[i] = owner[i]

(* A page not yet confirmed holds the frames of the file that come next.    *)
PageOK ==
  reader.kind = "frames" =>
    /\ reader.value \in Seq(Frames)
    /\ Len(copy.frames) + Len(reader.value) <= Len(owner)
    /\ \A i \in 1..Len(reader.value) : reader.value[i] = owner[Len(copy.frames) + i]

ConsumerInv == LogInv /\ CopyOK /\ PageOK

(* A writer only adds to the file, and only a crash takes from it, behind   *)
(* the barrier; neither touches a consumer.                                 *)
LEMMA WriterKeepsFrames ==
  ASSUME LogInv, Next, ~ReaderStep
  PROVE  /\ copy' = copy /\ reader' \in {reader, NoReader} /\ synced <= synced'
         /\ \A i \in 1..synced : owner'[i] = owner[i]
         /\ reader' # NoReader => /\ Len(owner) <= Len(owner')
                                  /\ \A i \in 1..Len(owner) : owner'[i] = owner[i]
<1>t. owner \in Seq(Frames) /\ synced \in 0..Len(owner)
  BY DEF LogInv, OwnerInv
<1>1. CASE Flush
  <2>1. owner' = Append(owner, Frame(Head(w.todo)))
    BY <1>1 DEF Flush
  <2>2. /\ Len(owner') = Len(owner) + 1
        /\ \A i \in 1..Len(owner) : owner'[i] = owner[i]
    BY <1>t, <2>1
  <2>3. copy' = copy /\ reader' = reader /\ synced' = synced
    BY <1>1 DEF Flush, readers
  <2> QED
    BY <1>t, <2>2, <2>3
<1>2. CASE Crash
  <2>1. PICK kept \in synced..Len(owner) : owner' = SubSeq(owner, 1, kept)
    BY <1>2 DEF Crash
  <2>2. \A i \in 1..synced : owner'[i] = owner[i]
    BY <1>t, <2>1, SubSeqProperties
  <2>3. copy' = copy /\ reader' = NoReader /\ synced' = synced
    BY <1>2 DEF Crash
  <2> QED
    BY <1>t, <2>2, <2>3
<1>3. CASE ~Flush /\ ~Crash
  <2>1. owner' = owner /\ copy' = copy /\ reader' = reader /\ synced' \in {synced, Len(owner)}
    <3>1. ASSUME NEW o \in {"complete", "unavailable"}, Finish(o) PROVE <2>1!:
      BY <3>1 DEF Finish, disk, readers
    <3> QED
      BY <1>3, <3>1 DEF Next, WriterStep, Open, Drop, AppendLine, AppendRefused, AppendControl,
         WriteBytes, Sync, WriteFails, IndexFrame, disk, readers
  <2> QED
    BY <1>t, <2>1
<1> QED
  BY <1>1, <1>2, <1>3

(* A range of a sequence.                                                   *)
LEMMA RangeOf ==
  ASSUME NEW s \in Seq(Frames), NEW from \in Nat, NEW upto \in Nat, from < upto, upto <= Len(s)
  PROVE  /\ SubSeq(s, from + 1, upto) \in Seq(Frames)
         /\ Len(SubSeq(s, from + 1, upto)) = upto - from
         /\ \A i \in 1..(upto - from) : SubSeq(s, from + 1, upto)[i] = s[from + i]
<1> DEFINE r == SubSeq(s, from + 1, upto)
<1>1. \A i \in (from + 1)..upto : s[i] \in Frames
  OBVIOUS
<1>2. /\ r \in Seq(Frames)
      /\ Len(r) = IF from + 1 <= upto THEN upto - (from + 1) + 1 ELSE 0
      /\ \A i \in 1..(upto - (from + 1) + 1) : r[i] = s[from + 1 + i - 1]
  BY <1>1, SubSeqProperties
<1>3. upto - (from + 1) + 1 = upto - from /\ \A i \in Nat : from + 1 + i - 1 = from + i
  OBVIOUS
<1> HIDE DEF r
<1>4. /\ r \in Seq(Frames) /\ Len(r) = upto - from
      /\ \A i \in 1..(upto - from) : r[i] = s[from + i]
  BY <1>2, <1>3
<1> QED
  BY <1>4 DEF r

(* A prefix of o continued by what comes next in o is a prefix of o.        *)
LEMMA Continued ==
  ASSUME NEW s \in Seq(Frames), NEW t \in Seq(Frames), NEW o,
         \A i \in 1..Len(s) : s[i] = o[i],
         \A i \in 1..Len(t) : t[i] = o[Len(s) + i]
  PROVE  /\ s \o t \in Seq(Frames) /\ Len(s \o t) = Len(s) + Len(t)
         /\ \A i \in 1..(Len(s) + Len(t)) : (s \o t)[i] = o[i]
<1>1. /\ s \o t \in Seq(Frames) /\ Len(s \o t) = Len(s) + Len(t)
      /\ \A i \in 1..(Len(s) + Len(t)) :
           (s \o t)[i] = IF i <= Len(s) THEN s[i] ELSE t[i - Len(s)]
  BY ConcatProperties
<1>2. ASSUME NEW i \in 1..(Len(s) + Len(t)), ~(i <= Len(s))
      PROVE  t[i - Len(s)] = o[i]
  <2>1. i - Len(s) \in 1..Len(t) /\ Len(s) + (i - Len(s)) = i
    BY <1>2
  <2> QED
    BY <2>1
<1> QED
  BY <1>1, <1>2

(* A page is read after the frames accepted so far.                         *)
LEMMA PageRead ==
  ASSUME ConsumerInv, NEW n \in PageSizes, ReadProvenance(n)
  PROVE  CopyOK' /\ PageOK'
<1>t. owner \in Seq(Frames) /\ synced \in 0..Len(owner) /\ n \in Nat
  BY LogAssumption DEF ConsumerInv, LogInv, OwnerInv
<1> DEFINE from == Len(copy.frames)
           upto == IF from + n < Len(owner) THEN from + n ELSE Len(owner)
<1>1. /\ from \in Nat /\ upto \in Nat /\ from < upto /\ upto <= Len(owner)
  BY <1>t DEF ReadProvenance, ConsumerInv, CopyOK
<1>2. /\ reader' = [kind |-> "frames", value |-> SubSeq(owner, from + 1, upto)]
      /\ owner' = owner /\ synced' = synced /\ copy' = copy
  BY DEF ReadProvenance, disk
<1>3. /\ SubSeq(owner, from + 1, upto) \in Seq(Frames)
      /\ Len(SubSeq(owner, from + 1, upto)) = upto - from
      /\ \A i \in 1..(upto - from) : SubSeq(owner, from + 1, upto)[i] = owner[from + i]
  BY <1>t, <1>1, RangeOf
<1>4. PageOK'
  BY <1>1, <1>2, <1>3 DEF PageOK
<1> QED
  BY <1>2, <1>4 DEF ConsumerInv, CopyOK

(* Confirmed frames are durable: the barrier is taken after the read.       *)
LEMMA PageConfirmed ==
  ASSUME ConsumerInv, Confirm
  PROVE  CopyOK' /\ PageOK'
<1>t. owner \in Seq(Frames) /\ synced \in 0..Len(owner)
  BY DEF ConsumerInv, LogInv, OwnerInv
<1>1. synced' = Len(owner) /\ owner' = owner /\ reader'.kind = "none"
  BY DEF Confirm, NoReader
<1>2. CASE reader.kind = "frames"
  <2>1. copy' = [copy EXCEPT !.frames = copy.frames \o reader.value]
    BY <1>2 DEF Confirm
  <2>2. DOMAIN copy' = {"bytes", "frames"} /\ copy'.frames = copy.frames \o reader.value
    BY <2>1 DEF ConsumerInv, CopyOK
  <2>3. copy.frames \in Seq(Frames) /\ reader.value \in Seq(Frames)
    BY <1>2 DEF ConsumerInv, CopyOK, PageOK
  <2>4. /\ \A i \in 1..Len(copy.frames) : copy.frames[i] = owner[i]
        /\ \A i \in 1..Len(reader.value) : reader.value[i] = owner[Len(copy.frames) + i]
        /\ Len(copy.frames) + Len(reader.value) <= Len(owner)
    BY <1>2 DEF ConsumerInv, CopyOK, PageOK
  <2>5. /\ copy'.frames \in Seq(Frames)
        /\ Len(copy'.frames) = Len(copy.frames) + Len(reader.value)
        /\ \A i \in 1..(Len(copy.frames) + Len(reader.value)) : copy'.frames[i] = owner[i]
    <3> DEFINE s == copy.frames
               t == reader.value
    <3>1. /\ s \in Seq(Frames) /\ t \in Seq(Frames)
          /\ \A i \in 1..Len(s) : s[i] = owner[i]
          /\ \A i \in 1..Len(t) : t[i] = owner[Len(s) + i]
      BY <2>3, <2>4
    <3>2. copy'.frames = s \o t
      BY <2>2
    <3> HIDE DEF s, t
    <3>3. /\ s \o t \in Seq(Frames) /\ Len(s \o t) = Len(s) + Len(t)
          /\ \A i \in 1..(Len(s) + Len(t)) : (s \o t)[i] = owner[i]
      BY <3>1, Continued
    <3>4. /\ copy'.frames \in Seq(Frames) /\ Len(copy'.frames) = Len(s) + Len(t)
          /\ \A i \in 1..(Len(s) + Len(t)) : copy'.frames[i] = owner[i]
      BY <3>2, <3>3, Zenon
    <3> QED
      BY <3>4 DEF s, t
  <2> QED
    BY <1>1, <2>2, <2>4, <2>5 DEF CopyOK, PageOK
<1>3. CASE reader.kind # "frames"
  <2>1. DOMAIN copy' = {"bytes", "frames"} /\ copy'.frames = copy.frames
    BY <1>3 DEF Confirm, ConsumerInv, CopyOK
  <2> QED
    BY <1>t, <1>1, <2>1 DEF ConsumerInv, CopyOK, PageOK
<1> QED
  BY <1>2, <1>3

(* One step of the log keeps what was accepted and what is to be confirmed. *)
LEMMA ConsumerStep == ConsumerInv /\ [Next]_logVars => ConsumerInv'
<1> SUFFICES ASSUME ConsumerInv, [Next]_logVars PROVE CopyOK' /\ PageOK'
  BY LogStep DEF ConsumerInv
<1>t. owner \in Seq(Frames) /\ synced \in 0..Len(owner) /\ copy.frames \in Seq(Frames)
  BY DEF ConsumerInv, LogInv, OwnerInv, CopyOK
<1>1. CASE UNCHANGED logVars
  BY <1>1 DEF logVars, disk, readers, ConsumerInv, CopyOK, PageOK
<1>2. CASE Next /\ ~ReaderStep
  <2>1. /\ copy' = copy /\ reader' \in {reader, NoReader} /\ synced <= synced'
        /\ \A i \in 1..synced : owner'[i] = owner[i]
        /\ reader' # NoReader => /\ Len(owner) <= Len(owner')
                                 /\ \A i \in 1..Len(owner) : owner'[i] = owner[i]
    BY <1>2, WriterKeepsFrames DEF ConsumerInv
  <2>2. OwnerInv'
    BY LogStep DEF ConsumerInv, LogInv
  <2>3. CopyOK'
    BY <1>t, <2>1, <2>2 DEF ConsumerInv, CopyOK, OwnerInv
  <2>4. PageOK'
    <3>1. CASE reader' = NoReader
      BY <3>1 DEF PageOK, NoReader
    <3>2. CASE reader' = reader /\ reader' # NoReader
      <4>1. CASE reader.kind # "frames"
        BY <3>2, <4>1 DEF PageOK
      <4>2. CASE reader.kind = "frames"
        <5> DEFINE page == reader.value
                   have == Len(copy.frames)
        <5>1. /\ page \in Seq(Frames) /\ have + Len(page) <= Len(owner)
              /\ \A i \in 1..Len(page) : page[i] = owner[have + i]
          BY <4>2 DEF ConsumerInv, PageOK
        <5>2. have \in Nat /\ Len(owner) \in Nat /\ Len(owner') \in Nat
          BY <1>t, <2>2, LenProperties DEF OwnerInv
        <5>3. Len(owner) <= Len(owner') /\ \A i \in 1..Len(owner) : owner'[i] = owner[i]
          BY <2>1, <3>2
        <5> HIDE DEF page, have
        <5>4. /\ have + Len(page) <= Len(owner')
              /\ \A i \in 1..Len(page) : page[i] = owner'[have + i]
          BY <5>1, <5>2, <5>3
        <5>5. /\ reader.value \in Seq(Frames) /\ Len(copy.frames) + Len(reader.value) <= Len(owner')
              /\ \A i \in 1..Len(reader.value) : reader.value[i] = owner'[Len(copy.frames) + i]
          BY <5>1, <5>4 DEF page, have
        <5> QED
          BY <2>1, <3>2, <5>5 DEF PageOK
      <4> QED
        BY <4>1, <4>2
    <3> QED
      BY <2>1, <3>1, <3>2
  <2> QED
    BY <2>3, <2>4
<1>3. CASE ReaderStep
  <2>1. ASSUME NEW n \in PageSizes, ReadProvenance(n) PROVE CopyOK' /\ PageOK'
    BY <2>1, PageRead
  <2>2. CASE Confirm
    BY <2>2, PageConfirmed
  <2>3. CASE \/ \E n \in PageSizes : ReadPage(n)
             \/ ScanSnapshot \/ ReadSnapshot \/ ConfirmFails
    <3>1. owner' = owner /\ synced' = synced /\ copy' = copy /\ reader'.kind # "frames"
      <4>1. ASSUME NEW n \in PageSizes, ReadPage(n) PROVE <3>1!:
        <5>1. reader' = [kind |-> "bytes", value |-> ReadRange(Len(copy.bytes), Len(copy.bytes) + n)]
          BY <4>1 DEF ReadPage
        <5> QED
          BY <4>1, <5>1 DEF ReadPage, disk
      <4>2. CASE ScanSnapshot
        BY <4>2 DEF ScanSnapshot, disk
      <4>3. CASE ReadSnapshot
        <5>1. \/ reader' = NoReader
              \/ \E bytes : reader' = [kind |-> "snapshot", value |-> bytes, complete |-> reader.complete]
          BY <4>3 DEF ReadSnapshot
        <5> QED
          BY <4>3, <5>1 DEF ReadSnapshot, disk, NoReader
      <4>4. CASE ConfirmFails
        BY <4>4 DEF ConfirmFails, disk, NoReader
      <4> QED
        BY <2>3, <4>1, <4>2, <4>3, <4>4
    <3> QED
      BY <3>1 DEF ConsumerInv, CopyOK, PageOK
  <2> QED
    BY <1>3, <2>1, <2>2, <2>3 DEF ReaderStep
<1> QED
  BY <1>1, <1>2, <1>3

(* The frames a consumer accepted by their provenance, each page after its  *)
(* own confirm_publication, are the first durable frames of the log in      *)
(* every later state: no crash, failed write or reopening makes it take one *)
(* back, however the pages are cut.                                         *)
THEOREM AcceptedFramesAreFinal == Spec => []FramesAreFinal
<1>1. Init => ConsumerInv
  <2> SUFFICES ASSUME Init PROVE CopyOK /\ PageOK
    BY InitLog DEF ConsumerInv
  <2>1. copy.frames = <<>> /\ synced = 0 /\ reader.kind = "none"
        /\ DOMAIN copy = {"bytes", "frames"}
    BY DEF Init, NoReader
  <2> QED
    BY <2>1 DEF CopyOK, PageOK
<1>2. ConsumerInv => FramesAreFinal
  <2> SUFFICES ASSUME ConsumerInv PROVE IsPrefix(copy.frames, Durable)
    BY DEF FramesAreFinal
  <2>t. /\ owner \in Seq(Frames) /\ synced \in 0..Len(owner) /\ copy.frames \in Seq(Frames)
        /\ Len(copy.frames) <= synced
    BY DEF ConsumerInv, LogInv, OwnerInv, CopyOK
  <2>1. /\ Durable \in Seq(Frames) /\ Len(Durable) = synced
        /\ \A i \in 1..synced : Durable[i] = owner[i]
    BY <2>t, SubSeqProperties DEF Durable
  <2>2. \A i \in 1..Len(copy.frames) : copy.frames[i] = Durable[i]
    BY <2>t, <2>1 DEF ConsumerInv, CopyOK
  <2>3. SubSeq(copy.frames, 1, Len(copy.frames)) = SubSeq(Durable, 1, Len(copy.frames))
    BY <2>t, <2>1, <2>2
  <2> QED
    BY <2>t, <2>1, <2>3 DEF IsPrefix
<1> QED
  BY <1>1, <1>2, ConsumerStep, PTL DEF Spec

---------------------------------------------------------------------------
(* The recording of an execution (capture_raw_logs).                        *)

(* A seal of completeness is only written at the end of the output, and a   *)
(* line only by the append of the last line taken.                          *)
SealsComplete == w.pc \in Busy /\ w.todo[Len(w.todo)].outcome = "complete"
AppendOK ==
  /\ SealsComplete => cap = "seal"
  /\ w.pc \in Busy /\ w.line # 0 => cap = "append" /\ w.line = lines

(* Between appends every line taken is acknowledged.                        *)
LinesOK ==
  /\ cap = "start" => lines = 0 /\ acked = {}
  /\ cap = "select" => w.pc = "idle" /\ acked = 1..lines
  /\ cap = "append" => lines > 0 /\ acked \in {1..(lines - 1), 1..lines}

(* While the seal is written nothing is missing; when finish returns with a *)
(* sealed writer the seal has reached the disk.                             *)
SealOK ==
  cap = "seal" =>
    /\ ~pipe /\ acked = 1..emitted /\ w.pc # "closed"
    /\ w.pc \in Busy => w.todo = Seal("complete") /\ ~w.sealed /\ w.line = 0
    /\ w.pc = "index" => synced = Len(owner)
    /\ w.pc = "idle" /\ w.sealed => Outcome(Durable) = "complete"

CompleteOK == cap = "complete" => Outcome(Durable) = "complete"

CaptureInv ==
  LogInv /\ AppendOK /\ LinesOK /\ SealOK /\ CompleteOK /\ CompleteMeansEverything

(* Evidence sealed complete is final.                                       *)
LEMMA CompleteStays ==
  ASSUME [Evidence!Grow]_Durable, Outcome(Durable) = "complete"
  PROVE  Outcome(Durable') = "complete"
<1>1. ~Evidence!Grow
  BY CaptureAssumption DEF Evidence!Grow, Evidence!Outcome, Outcome
<1> QED
  BY <1>1

(* An error that leaves the log alone.                                      *)
LEMMA LogStands ==
  ASSUME LogInv, UNCHANGED <<disk, w, lines, acked, readers>>, faults' = faults \/ Fault(TRUE)
  PROVE  LogInv' /\ Durable' = Durable
<1>1. OwnerInv' /\ Durable' = Durable
  BY SameOwner DEF LogInv, disk
<1>2. RestInv'
  BY LogAssumption DEF LogInv, RestInv, Fault, disk, readers
<1>3. WriterType' /\ WriterInv'
  BY DEF LogInv, WriterType, WriterInv, Frame, disk
<1> QED
  BY <1>1, <1>2, <1>3 DEF LogInv

(* Steps beside the log: what they may change of what the invariant says.   *)
LEMMA BesideTheLog ==
  ASSUME CaptureInv, UNCHANGED <<disk, w, lines, acked, readers>>, faults' = faults \/ Fault(TRUE),
         LinesOK', SealOK', CompleteOK', AppendOK',
         ~pipe => ~pipe' /\ emitted' = emitted,
         verdict' = "completed" => verdict = "completed" \/ cap = "complete"
  PROVE  CaptureInv'
<1>1. LogInv' /\ Durable' = Durable /\ owner' = owner /\ acked' = acked
  BY LogStands DEF CaptureInv, disk
<1>2. Outcome(owner)' = Outcome(owner) /\ Outcome(Durable)' = Outcome(Durable)
  BY <1>1 DEF Outcome
<1>3. CompleteMeansEverything'
  BY <1>1, <1>2 DEF CaptureInv, CompleteMeansEverything, CompleteOK
<1> QED
  BY <1>1, <1>3 DEF CaptureInv

(* The agent, the monitor, the mirror and the ends of an append.            *)
LEMMA QuietSteps ==
  ASSUME CaptureInv,
         \/ Emit \/ ClosePipe \/ ChildExits \/ StartFails \/ LineWritten \/ CaptureFails
         \/ PipeFails \/ SealReturns \/ StopUnrecorded \/ MonitorStep \/ UiStep
  PROVE  CaptureInv'
<1>1. UNCHANGED <<disk, w, lines, acked, readers>> /\ (faults' = faults \/ Fault(TRUE))
  BY DEF Emit, ClosePipe, ChildExits, StartFails, LineWritten, CaptureFails, PipeFails, SealReturns,
         StopUnrecorded, MonitorStep, SeeExit, ExpireDrain, PublishVerdict, FinishStore, UiStep,
         logVars
<1>2. owner' = owner /\ synced' = synced /\ w' = w /\ lines' = lines /\ acked' = acked
  BY <1>1 DEF disk
<1>3. Durable' = Durable /\ Outcome(Durable)' = Outcome(Durable)
  BY <1>2 DEF Durable, Outcome
<1>4. ~pipe => ~pipe' /\ emitted' = emitted
  BY DEF Emit, ClosePipe, ChildExits, StartFails, LineWritten, CaptureFails, PipeFails, SealReturns,
         StopUnrecorded, MonitorStep, SeeExit, ExpireDrain, PublishVerdict, FinishStore, UiStep,
         capVars
<1>5. verdict' = "completed" => verdict = "completed" \/ cap = "complete"
  BY CaptureAssumption
     DEF Emit, ClosePipe, ChildExits, StartFails, LineWritten, CaptureFails, PipeFails, SealReturns,
         StopUnrecorded, MonitorStep, SeeExit, ExpireDrain, PublishVerdict, FinishStore, UiStep,
         capVars, Ended
<1>6. \/ cap' = cap
      \/ /\ cap \in {"start", "select", "append", "stop"}
         /\ cap' \in {"explain", "fail", "unavailable"}
         /\ cap = "append" => w.pc = "idle"
      \/ LineWritten
      \/ SealReturns
  BY DEF Emit, ClosePipe, ChildExits, StartFails, LineWritten, CaptureFails, PipeFails, SealReturns,
         StopUnrecorded, MonitorStep, SeeExit, ExpireDrain, PublishVerdict, FinishStore, UiStep,
         capVars
<1>7. AppendOK' /\ LinesOK' /\ SealOK' /\ CompleteOK'
  <2>1. CASE cap' = cap
    BY <1>2, <1>3, <1>4, <2>1
       DEF CaptureInv, AppendOK, SealsComplete, LinesOK, SealOK, CompleteOK
  <2>2. CASE /\ cap \in {"start", "select", "append", "stop"}
             /\ cap' \in {"explain", "fail", "unavailable"}
             /\ cap = "append" => w.pc = "idle"
    BY <1>2, <2>2 DEF CaptureInv, AppendOK, SealsComplete, LinesOK, SealOK, CompleteOK, Busy
  <2>3. CASE LineWritten
    <3>1. cap = "append" /\ cap' = "select" /\ w.pc = "idle" /\ lines \in acked
      BY <2>3 DEF LineWritten
    <3>2. lines \in Nat /\ acked = 1..lines
      BY <3>1, LogAssumption DEF CaptureInv, LogInv, RestInv, LinesOK
    <3> QED
      BY <1>2, <3>1, <3>2 DEF AppendOK, SealsComplete, LinesOK, SealOK, CompleteOK, Busy
  <2>4. CASE SealReturns
    <3>1. cap = "seal" /\ w.pc = "idle" /\ cap' = (IF w.sealed THEN "complete" ELSE "fail")
      BY <2>4 DEF SealReturns
    <3> QED
      BY <1>2, <1>3, <3>1
         DEF CaptureInv, AppendOK, SealsComplete, LinesOK, SealOK, CompleteOK, Busy
  <2> QED
    BY <1>6, <2>1, <2>2, <2>3, <2>4
<1> QED
  BY <1>1, <1>4, <1>5, <1>7, BesideTheLog

(* Steps of the log, with what each has to show for itself.                 *)
LEMMA WithTheLog ==
  ASSUME CaptureInv, Next, UNCHANGED <<pipe, emitted, verdict>>,
         AppendOK', LinesOK', SealOK', cap' = "complete" => cap = "complete",
         Outcome(owner') = "complete" => ~pipe /\ acked' = 1..emitted
  PROVE  CaptureInv'
<1>1. LogInv' /\ [Evidence!Grow]_Durable
  BY LogStep DEF CaptureInv
<1>2. Outcome(Durable) = "complete" => Outcome(Durable') = "complete"
  BY <1>1, CompleteStays
<1>3. CompleteOK' /\ CompleteMeansEverything'
  BY <1>2 DEF CaptureInv, CompleteOK, CompleteMeansEverything
<1> QED
  BY <1>1, <1>3 DEF CaptureInv

(* A writer that was opened has nothing under way.                          *)
LEMMA OpenedIsIdle ==
  ASSUME CaptureInv, Open
  PROVE  w'.pc \in {"idle", "closed"} /\ UNCHANGED <<owner, lines, acked>>
BY DEF Open, Recovered

(* The recording starts with nothing taken and nothing acknowledged.        *)
LEMMA StartCaptureStep ==
  ASSUME CaptureInv, StartCapture
  PROVE  CaptureInv'
<1>1. /\ cap = "start" /\ cap' = "select" /\ Open /\ w'.pc = "idle"
      /\ UNCHANGED <<pipe, emitted, verdict>>
  BY DEF StartCapture
<1>2. owner' = owner /\ lines' = lines /\ acked' = acked
  BY <1>1, OpenedIsIdle
<1>3. lines = 0 /\ acked = {}
  BY <1>1 DEF CaptureInv, LinesOK
<1>4. AppendOK' /\ LinesOK' /\ SealOK'
  BY <1>1, <1>2, <1>3 DEF AppendOK, SealsComplete, LinesOK, SealOK, Busy
<1>5. Outcome(owner') = "complete" => ~pipe /\ acked' = 1..emitted
  BY <1>2 DEF CaptureInv, CompleteMeansEverything
<1> QED
  BY <1>1, <1>4, <1>5, WithTheLog DEF Next

(* The control lines that explain a start error seal nothing.               *)
LEMMA ExplainStep ==
  ASSUME CaptureInv, Explain
  PROVE  CaptureInv'
<1>1. cap = "explain" /\ cap' = cap /\ UNCHANGED <<pipe, emitted, verdict>>
  BY DEF Explain
<1>2. Open \/ AppendControl \/ Drop
  BY DEF Explain
<1>3. owner' = owner /\ lines' = lines /\ acked' = acked
  BY <1>2, OpenedIsIdle DEF AppendControl, Drop, disk
<1>4. AppendOK'
  <2>1. CASE Open
    BY <2>1, OpenedIsIdle DEF AppendOK, SealsComplete, Busy
  <2>2. CASE Drop
    BY <2>2 DEF Drop, Closed, AppendOK, SealsComplete, Busy
  <2>3. CASE AppendControl
    <3>1. Writable /\ w' = [w EXCEPT !.pc = "write", !.todo = ControlSegments, !.line = 0]
      BY <2>3 DEF AppendControl, Begin
    <3>2. w'.todo = ControlSegments /\ w'.line = 0
      BY <3>1 DEF CaptureInv, LogInv, WriterType, Writable, Fields
    <3>3. ControlSegments[Len(ControlSegments)].outcome = None
      BY ControlType, HeadOfTodo DEF Unsealed
    <3> QED
      BY <3>2, <3>3, CaptureAssumption DEF AppendOK, SealsComplete
  <2> QED
    BY <1>2, <2>1, <2>2, <2>3
<1>5. LinesOK' /\ SealOK'
  BY <1>1 DEF LinesOK, SealOK
<1>6. Outcome(owner') = "complete" => ~pipe /\ acked' = 1..emitted
  BY <1>3 DEF CaptureInv, CompleteMeansEverything
<1> QED
  BY <1>1, <1>2, <1>4, <1>5, <1>6, WithTheLog DEF Next

(* A line is taken when all before it are acknowledged.                     *)
LEMMA TakeLineStep ==
  ASSUME CaptureInv, TakeLine
  PROVE  CaptureInv'
<1>1. cap = "select" /\ cap' = "append" /\ UNCHANGED <<pipe, emitted, verdict>>
  BY DEF TakeLine
<1>2. acked = 1..lines /\ lines \in Nat /\ w.pc = "idle"
  BY <1>1, LogAssumption DEF CaptureInv, LinesOK, LogInv, RestInv
<1>3. AppendLine \/ AppendRefused
  BY DEF TakeLine
<1>4. owner' = owner /\ lines' = lines + 1 /\ acked' = acked /\ lines < Lines /\ Writable
  BY <1>3 DEF AppendLine, AppendRefused, disk
<1>5. DOMAIN w = Fields
  BY <1>4 DEF CaptureInv, LogInv, WriterType, Writable
<1>6. AppendOK'
  <2>1. CASE AppendLine
    <3> DEFINE bytes == Bytes(lines + 1, LineBytes[lines + 1])
               todo == Segments(bytes, FALSE)
    <3>1. lines + 1 \in Nat /\ LineBytes[lines + 1] \in Nat \ {0}
      BY <1>2, <1>4, LogAssumption
    <3>2. bytes \in Seq(Byte) /\ bytes # <<>>
      BY <3>1, BytesType
    <3>3. w' = [w EXCEPT !.pc = "write", !.todo = todo, !.line = lines + 1]
      BY <2>1 DEF AppendLine, Begin
    <3> HIDE DEF bytes
    <3>4. todo \in Todo /\ Unsealed(todo)
      BY <3>2, SegmentsType
    <3> HIDE DEF todo
    <3>5. todo[Len(todo)].outcome = None
      BY <3>4, HeadOfTodo DEF Unsealed
    <3>6. w'.todo = todo /\ w'.line = lines + 1
      BY <1>5, <3>3 DEF Fields
    <3> QED
      BY <1>1, <1>4, <3>5, <3>6, CaptureAssumption DEF AppendOK, SealsComplete
  <2>2. CASE w' = [w EXCEPT !.pc = "write", !.todo = ControlSegments, !.line = 0, !.marker = TRUE]
    <3>1. w'.todo = ControlSegments /\ w'.line = 0
      BY <1>5, <2>2 DEF Fields
    <3>2. ControlSegments[Len(ControlSegments)].outcome = None
      BY ControlType, HeadOfTodo DEF Unsealed
    <3> QED
      BY <3>1, <3>2, CaptureAssumption DEF AppendOK, SealsComplete
  <2>3. CASE w' = [w EXCEPT !.marker = TRUE]
    <3>1. w'.pc = "idle"
      BY <1>2, <1>5, <2>3 DEF Fields
    <3> QED
      BY <3>1 DEF AppendOK, SealsComplete, Busy
  <2> QED
    BY <1>3, <2>1, <2>2, <2>3 DEF AppendRefused
<1>7. LinesOK' /\ SealOK'
  BY <1>1, <1>2, <1>4 DEF LinesOK, SealOK
<1>8. Outcome(owner') = "complete" => ~pipe /\ acked' = 1..emitted
  BY <1>4 DEF CaptureInv, CompleteMeansEverything
<1> QED
  BY <1>1, <1>3, <1>6, <1>7, <1>8, WithTheLog DEF Next

(* What finish starts is its one seal.                                      *)
LEMMA FinishStarts ==
  ASSUME CaptureInv, NEW outcome \in {"complete", "unavailable"}, Finish(outcome)
  PROVE  /\ w'.pc = "write" /\ w'.todo = Seal(outcome) /\ w'.line = 0 /\ ~w'.sealed
         /\ Len(Seal(outcome)) = 1 /\ Seal(outcome)[1].outcome = outcome
         /\ UNCHANGED <<owner, lines, acked>>
<1> DEFINE todo == Seal(outcome)
<1>1. /\ w' = [w EXCEPT !.pc = "write", !.todo = todo, !.line = 0] /\ Writable
      /\ UNCHANGED <<owner, lines, acked>>
  BY DEF Finish, Begin, disk
<1>2. Len(Seal(outcome)) = 1 /\ Seal(outcome)[1].outcome = outcome
  BY DEF Seal
<1> HIDE DEF todo
<1>3. DOMAIN w = Fields /\ ~w.sealed
  BY <1>1 DEF CaptureInv, LogInv, WriterType, Writable
<1>4. w'.pc = "write" /\ w'.todo = todo /\ w'.line = 0 /\ w'.sealed = w.sealed
  BY <1>1, <1>3 DEF Fields
<1> QED
  BY <1>1, <1>2, <1>3, <1>4 DEF todo

(* The output ends when the pipes are closed and every line is taken.       *)
LEMMA OutputEndsStep ==
  ASSUME CaptureInv, OutputEnds
  PROVE  CaptureInv'
<1>1. /\ cap = "select" /\ ~pipe /\ lines = emitted /\ UNCHANGED <<pipe, emitted, verdict>>
  BY DEF OutputEnds
<1>2. acked = 1..lines /\ w.pc = "idle"
  BY <1>1 DEF CaptureInv, LinesOK
<1>3. CASE Finish("complete") /\ cap' = "seal"
  <2>1. /\ w'.pc = "write" /\ w'.todo = Seal("complete") /\ w'.line = 0 /\ ~w'.sealed
        /\ UNCHANGED <<owner, lines, acked>>
    BY <1>3, FinishStarts
  <2>2. AppendOK' /\ LinesOK' /\ SealOK'
    BY <1>1, <1>2, <1>3, <2>1 DEF AppendOK, LinesOK, SealOK
  <2>3. Outcome(owner') = "complete" => ~pipe /\ acked' = 1..emitted
    BY <2>1 DEF CaptureInv, CompleteMeansEverything
  <2>4. Next
    BY <1>3 DEF Next
  <2> QED
    BY <1>1, <1>3, <2>2, <2>3, <2>4, WithTheLog
<1>4. CASE Fault(TRUE) /\ cap' = "fail" /\ UNCHANGED <<disk, w, lines, acked, readers>>
  <2>1. AppendOK' /\ LinesOK' /\ SealOK' /\ CompleteOK'
    BY <1>2, <1>4 DEF AppendOK, SealsComplete, LinesOK, SealOK, CompleteOK, Busy
  <2> QED
    BY <1>1, <1>4, <2>1, BesideTheLog
<1> QED
  BY <1>3, <1>4 DEF OutputEnds

(* A failed recording is never sealed complete.                             *)
LEMMA SealUnavailableStep ==
  ASSUME CaptureInv, SealUnavailable
  PROVE  CaptureInv'
<1>1. cap = "fail" /\ cap' = "stop" /\ UNCHANGED <<pipe, emitted, verdict>>
  BY DEF SealUnavailable
<1>2. LinesOK' /\ SealOK' /\ CompleteOK'
  BY <1>1 DEF LinesOK, SealOK, CompleteOK
<1>3. CASE Finish("unavailable")
  <2>1. /\ w'.todo = Seal("unavailable") /\ w'.line = 0 /\ Len(Seal("unavailable")) = 1
        /\ Seal("unavailable")[1].outcome = "unavailable" /\ UNCHANGED <<owner, lines, acked>>
    BY <1>3, FinishStarts
  <2>2. AppendOK'
    BY <2>1 DEF AppendOK, SealsComplete
  <2>3. Outcome(owner') = "complete" => ~pipe /\ acked' = 1..emitted
    BY <2>1 DEF CaptureInv, CompleteMeansEverything
  <2>4. Next
    BY <1>3 DEF Next
  <2> QED
    BY <1>1, <1>2, <2>2, <2>3, <2>4, WithTheLog
<1>4. CASE UNCHANGED <<disk, w, lines, acked, readers>> /\ (faults' = faults \/ Fault(TRUE))
  <2>1. AppendOK'
    BY <1>1, <1>4 DEF CaptureInv, AppendOK, SealsComplete
  <2> QED
    BY <1>1, <1>2, <1>4, <2>1, BesideTheLog
<1> QED
  BY <1>3, <1>4 DEF SealUnavailable, logVars

(* What is left of a file after a crash is sealed only if the file was.     *)
LEMMA ServerDiesStep ==
  ASSUME CaptureInv, ServerDies
  PROVE  CaptureInv'
<1>1. /\ Crash /\ cap' = "gone" /\ w' = Closed /\ UNCHANGED <<acked, pipe, emitted, verdict>>
  BY DEF ServerDies, Crash
<1>2. PICK kept \in synced..Len(owner) : owner' = SubSeq(owner, 1, kept)
  BY <1>1 DEF Crash
<1>3. Outcome(owner') = "complete" => Outcome(owner) = "complete"
  <2> SUFFICES ASSUME Outcome(owner') = "complete" PROVE Outcome(owner) = "complete"
    OBVIOUS
  <2>1. /\ Len(owner) \in Nat /\ synced \in 0..Len(owner) /\ kept \in Nat /\ kept <= Len(owner)
        /\ \A i \in 1..Len(owner) : owner[i] \in Frames
    BY UnsealedPrefix DEF CaptureInv, LogInv, OwnerInv
  <2>2. owner' \in Seq(Frames) /\ Len(owner') = kept /\ \A i \in 1..kept : owner'[i] = owner[i]
    BY <1>2, <2>1, SubSeqProperties
  <2>3. owner' # <<>> /\ owner'[Len(owner')].outcome = "complete"
    BY CaptureAssumption DEF Outcome
  <2>4. kept \in 1..Len(owner) /\ owner[kept].outcome = "complete"
    BY <2>1, <2>2, <2>3, EmptySeq
  <2>5. kept = Len(owner)
    BY <2>4, CaptureAssumption DEF CaptureInv, LogInv, OwnerInv, Contiguous
  <2>6. owner # <<>>
    BY <2>4, <2>5, EmptySeq
  <2> QED
    BY <2>4, <2>5, <2>6 DEF Outcome
<1>4. AppendOK' /\ LinesOK' /\ SealOK'
  BY <1>1 DEF AppendOK, SealsComplete, LinesOK, SealOK, Closed, Busy
<1>5. Outcome(owner') = "complete" => ~pipe /\ acked' = 1..emitted
  BY <1>1, <1>3 DEF CaptureInv, CompleteMeansEverything
<1> QED
  BY <1>1, <1>4, <1>5, WithTheLog DEF Next

(* Behind a barrier that covers it, the file is its own evidence.           *)
LEMMA AllIsDurable ==
  ASSUME OwnerInv, synced = Len(owner)
  PROVE  Durable = owner
<1>1. Len(owner) \in Nat /\ owner \in Seq(Frames) /\ \A i \in 1..Len(owner) : owner[i] \in Frames
  BY UnsealedPrefix DEF OwnerInv
<1>2. /\ Durable \in Seq(Frames) /\ Len(Durable) = Len(owner)
      /\ \A i \in 1..Len(owner) : Durable[i] = owner[i]
  BY <1>1, SubSeqProperties DEF Durable
<1> QED
  BY <1>1, <1>2, SeqEqual

(* An append of more than one segment has a first one before its last.      *)
LEMMA SeveralLeft ==
  \A n \in Nat \ {0} : n # 1 => 1 \in 1..(n - 1) /\ n - 1 \in 1..(n - 1) /\ (n - 1) + 1 = n
OBVIOUS

(* A frame under way moves through write_segment.                           *)
LEMMA FrameSteps ==
  ASSUME CaptureInv, Record, WriteBytes \/ Flush \/ Sync \/ WriteFails
  PROVE  CaptureInv'
<1>1. UNCHANGED <<cap, pipe, emitted, verdict, lines, acked>> /\ Next
  BY DEF Record, capVars, WriteBytes, Flush, Sync, WriteFails, Next, WriterStep
<1>2. w.pc \in Busy /\ DOMAIN w = Fields /\ w.todo \in Todo
  BY DEF CaptureInv, LogInv, WriterType, WriteBytes, Flush, Sync, WriteFails, Busy
<1>3. /\ \/ w'.pc = "idle"
         \/ w'.pc \in {"flush", "sync"} /\ w'.todo = w.todo /\ w'.line = w.line
         \/ w'.pc = "index" /\ w'.todo = w.todo /\ w'.line = w.line /\ owner' = owner
            /\ synced' = Len(owner)
      /\ w'.sealed = w.sealed
  BY <1>2 DEF WriteBytes, Flush, Sync, WriteFails, Fields
<1>4. AppendOK'
  BY <1>1, <1>2, <1>3 DEF CaptureInv, AppendOK, SealsComplete, Busy
<1>5. LinesOK'
  BY <1>1, <1>2 DEF CaptureInv, LinesOK, Busy
<1>6. SealOK'
  <2>1. CASE cap # "seal"
    BY <1>1, <2>1 DEF SealOK
  <2>2. CASE cap = "seal"
    <3>1. ~pipe /\ acked = 1..emitted /\ w.todo = Seal("complete") /\ ~w.sealed /\ w.line = 0
      BY <1>2, <2>2 DEF CaptureInv, SealOK
    <3> QED
      BY <1>1, <1>3, <3>1 DEF SealOK, Busy
  <2> QED
    BY <2>1, <2>2
<1>7. Outcome(owner') = "complete" => ~pipe /\ acked' = 1..emitted
  <2>1. CASE owner' = owner
    BY <1>1, <2>1 DEF CaptureInv, CompleteMeansEverything
  <2>2. CASE Flush
    <3> SUFFICES ASSUME Outcome(owner') = "complete" PROVE ~pipe /\ acked' = 1..emitted
      OBVIOUS
    <3> DEFINE f == Frame(Head(w.todo))
    <3>1. Head(w.todo) = w.todo[1] /\ Len(w.todo) \in Nat \ {0}
      BY <1>2, HeadOfTodo
    <3>2. owner' = Append(owner, f) /\ owner \in Seq(Frames) /\ f.outcome = w.todo[1].outcome
      BY <2>2, <3>1 DEF Flush, Frame, CaptureInv, LogInv, OwnerInv
    <3> HIDE DEF f
    <3>3. owner' # <<>> /\ owner'[Len(owner')] = f
      BY <3>2
    <3>4. w.todo[1].outcome = "complete"
      BY <3>2, <3>3 DEF Outcome
    <3>5. Len(w.todo) = 1
      <4>1. \A i \in 1..(Len(w.todo) - 1) : w.todo[i].outcome = None
        BY <1>2 DEF Todo
      <4>2. 1 \notin 1..(Len(w.todo) - 1)
        BY <3>4, <4>1, CaptureAssumption
      <4> QED
        BY <3>1, <4>2, SeveralLeft
    <3>6. cap = "seal"
      BY <1>2, <3>4, <3>5 DEF CaptureInv, AppendOK, SealsComplete
    <3> QED
      BY <1>1, <3>6 DEF CaptureInv, SealOK
  <2> QED
    BY <2>1, <2>2 DEF WriteBytes, Sync, WriteFails
<1> QED
  BY <1>1, <1>4, <1>5, <1>6, <1>7, WithTheLog

(* The last frame of an append acknowledges its line, or seals the log.     *)
LEMMA IndexedStep ==
  ASSUME CaptureInv, Record, IndexFrame
  PROVE  CaptureInv'
<1>1. UNCHANGED <<cap, pipe, emitted, verdict, lines, owner, synced>> /\ Next
  BY DEF Record, capVars, IndexFrame, Next, WriterStep
<1>2. /\ w.pc = "index" /\ w.pc \in Busy /\ DOMAIN w = Fields /\ w.todo \in Todo
      /\ Outcome(owner) = Head(w.todo).outcome /\ lines \in Nat /\ w.line \in 0..lines
  BY LogAssumption DEF CaptureInv, LogInv, RestInv, WriterType, WriterInv, IndexFrame, Busy
<1>3. acked' = IF Len(w.todo) = 1 /\ w.line # 0 THEN acked \cup {w.line} ELSE acked
  BY DEF IndexFrame
<1>4. /\ w'.pc = (IF Len(w.todo) = 1 THEN "idle" ELSE "write")
      /\ w'.todo = Tail(w.todo) /\ w'.line = (IF Len(w.todo) = 1 THEN 0 ELSE w.line)
      /\ w'.sealed = (Head(w.todo).outcome # None)
  <2>1. PICK ok \in BOOLEAN :
          w' = [w EXCEPT !.pc = IF Len(w.todo) = 1 THEN "idle" ELSE "write",
                         !.todo = Tail(w.todo), !.written = @ + 1, !.index = ok,
                         !.line = IF Len(w.todo) = 1 THEN 0 ELSE @,
                         !.sealed = Head(w.todo).outcome # None]
    BY DEF IndexFrame
  <2> QED
    BY <1>2, <2>1 DEF Fields
<1>5. /\ Head(w.todo) = w.todo[1] /\ Len(w.todo) \in Nat \ {0}
      /\ Len(w.todo) # 1 => w.todo[1].outcome = None
                            /\ Tail(w.todo)[Len(Tail(w.todo))] = w.todo[Len(w.todo)]
  <2>1. /\ w.todo \in Seq(Segment) /\ w.todo # <<>> /\ Len(w.todo) \in Nat \ {0}
        /\ Head(w.todo) = w.todo[1] /\ \A i \in 1..(Len(w.todo) - 1) : w.todo[i].outcome = None
    BY <1>2, HeadOfTodo DEF Todo
  <2>2. /\ Len(Tail(w.todo)) = Len(w.todo) - 1
        /\ \A i \in 1..Len(Tail(w.todo)) : Tail(w.todo)[i] = w.todo[i+1]
    BY <2>1, HeadTailProperties
  <2>3. ASSUME Len(w.todo) # 1
        PROVE  /\ w.todo[1].outcome = None
               /\ Tail(w.todo)[Len(Tail(w.todo))] = w.todo[Len(w.todo)]
    <3> DEFINE n == Len(w.todo) - 1
    <3>1. n \in 1..n /\ 1 \in 1..n /\ n + 1 = Len(w.todo)
      BY <2>1, <2>3, SeveralLeft
    <3>2. Tail(w.todo)[n] = w.todo[n + 1]
      BY <2>2, <3>1
    <3> QED
      BY <2>1, <2>2, <3>1, <3>2
  <2> QED
    BY <2>1, <2>3
<1>6. AppendOK'
  BY <1>1, <1>2, <1>4, <1>5 DEF CaptureInv, AppendOK, SealsComplete, Busy
<1>7. LinesOK'
  <2>1. cap = "append" => acked' \in {1..(lines - 1), 1..lines}
    <3> SUFFICES ASSUME cap = "append" PROVE acked' \in {1..(lines - 1), 1..lines}
      OBVIOUS
    <3>1. w.line # 0 => w.line = lines
      BY <1>2 DEF CaptureInv, AppendOK
    <3>2. lines > 0 /\ acked \in {1..(lines - 1), 1..lines}
      BY DEF CaptureInv, LinesOK
    <3>3. acked \cup {lines} = 1..lines
      BY <1>2, <3>2
    <3> QED
      BY <1>3, <3>1, <3>2, <3>3
  <2>2. cap = "start" => acked' = acked
    BY <1>2, <1>3 DEF CaptureInv, AppendOK
  <2> QED
    BY <1>1, <1>2, <2>1, <2>2 DEF CaptureInv, LinesOK
<1>8. SealOK'
  <2>1. CASE cap # "seal"
    BY <1>1, <2>1 DEF SealOK
  <2>2. CASE cap = "seal"
    <3>1. /\ ~pipe /\ acked = 1..emitted /\ w.todo = Seal("complete") /\ ~w.sealed /\ w.line = 0
          /\ synced = Len(owner)
      BY <1>2, <2>2 DEF CaptureInv, SealOK
    <3>2. Len(w.todo) = 1 /\ w.todo[1].outcome = "complete"
      BY <3>1 DEF Seal
    <3>3. Outcome(owner) = "complete"
      BY <1>2, <1>5, <3>2
    <3>4. Durable = owner
      BY <3>1, AllIsDurable DEF CaptureInv, LogInv
    <3>5. Durable' = Durable
      BY <1>1 DEF Durable
    <3>6. Outcome(Durable') = "complete"
      BY <3>3, <3>4, <3>5
    <3>7. w'.pc = "idle" /\ acked' = acked
      BY <1>3, <1>4, <3>1, <3>2
    <3> QED
      BY <1>1, <3>1, <3>6, <3>7 DEF SealOK, Busy
  <2> QED
    BY <2>1, <2>2
<1>9. Outcome(owner') = "complete" => ~pipe /\ acked' = 1..emitted
  <2> SUFFICES ASSUME Outcome(owner') = "complete" PROVE ~pipe /\ acked' = 1..emitted
    OBVIOUS
  <2>1. w.todo[1].outcome = "complete"
    BY <1>1, <1>2, <1>5
  <2>2. Len(w.todo) = 1
    BY <1>5, <2>1, CaptureAssumption
  <2>3. cap = "seal"
    BY <1>2, <2>1, <2>2 DEF CaptureInv, AppendOK, SealsComplete
  <2>4. w.line = 0 /\ ~pipe /\ acked = 1..emitted
    BY <1>2, <2>3 DEF CaptureInv, SealOK
  <2> QED
    BY <1>3, <2>4
<1> QED
  BY <1>1, <1>6, <1>7, <1>8, <1>9, WithTheLog

(* The recording starts on an empty log.                                    *)
LEMMA InitCapture == CaptureInit => CaptureInv
<1> SUFFICES ASSUME CaptureInit PROVE CaptureInv
  OBVIOUS
<1>1. LogInv
  BY InitLog DEF CaptureInit
<1>2. w = Closed /\ owner = <<>> /\ lines = 0 /\ acked = {} /\ cap = "start" /\ verdict = None
  BY DEF CaptureInit, Init
<1>3. AppendOK /\ LinesOK /\ SealOK /\ CompleteOK
  BY <1>2 DEF AppendOK, SealsComplete, LinesOK, SealOK, CompleteOK, Closed, Busy
<1>4. CompleteMeansEverything
  BY <1>2, CaptureAssumption DEF CompleteMeansEverything, Outcome
<1> QED
  BY <1>1, <1>3, <1>4 DEF CaptureInv

(* No step of the recording disturbs the invariant.                         *)
LEMMA NextCapture == CaptureInv /\ [CaptureNext]_captureVars => CaptureInv'
<1> SUFFICES ASSUME CaptureInv, [CaptureNext]_captureVars PROVE CaptureInv'
  OBVIOUS
<1>1. CASE UNCHANGED captureVars
  <2>1. UNCHANGED <<disk, w, lines, acked, readers, faults, pipe, emitted, cap, verdict>>
    BY <1>1 DEF captureVars, logVars, capVars
  <2>2. Durable' = Durable /\ Outcome(Durable)' = Outcome(Durable)
    BY <2>1 DEF Durable, Outcome, disk
  <2>3. AppendOK' /\ LinesOK' /\ SealOK' /\ CompleteOK'
    BY <2>1, <2>2 DEF CaptureInv, AppendOK, SealsComplete, LinesOK, SealOK, CompleteOK, disk
  <2> QED
    BY <2>1, <2>3, BesideTheLog
<1>2. CASE Record
  BY <1>2, FrameSteps, IndexedStep DEF Record, WriterStep
<1>3. CASE CaptureStep
  BY <1>2, <1>3, QuietSteps, TakeLineStep, OutputEndsStep, SealUnavailableStep DEF CaptureStep
<1> QED
  BY <1>1, <1>3, QuietSteps, StartCaptureStep, ExplainStep, ServerDiesStep DEF CaptureNext

(* A log sealed complete holds every line the agent wrote, and its pipes    *)
(* are closed; an execution is reported completed only once that seal has   *)
(* reached the disk: for every output, frame size, expiry of the drain,     *)
(* refused line, failed write and crash.                                    *)
THEOREM CompleteIsEverything == CaptureSpec => []CompleteMeansEverything
<1>1. CaptureInv => CompleteMeansEverything
  BY DEF CaptureInv
<1> QED
  BY <1>1, InitCapture, NextCapture, PTL DEF CaptureSpec

---------------------------------------------------------------------------
(* Induction and recursion. The library's induction theorems take an        *)
(* operator, which no installed prover instantiates; that < is well-founded *)
(* on the numbers gives the same for a set.                                 *)

(* A set that has 0 and with a number its successor has every number: the   *)
(* least number it lacks would have a predecessor that it has.              *)
LEMMA SetInduction ==
  ASSUME NEW T, 0 \in T, \A n \in Nat : n \in T => n + 1 \in T
  PROVE  \A n \in Nat : n \in T
<1> SUFFICES ASSUME NEW m \in Nat, m \notin T PROVE FALSE
  OBVIOUS
<1> DEFINE U == {n \in Nat : n \notin T}
           R == OpToRel(<, Nat)
<1>1. PICK x \in U : \A y \in U : ~(<<y, x>> \in R)
  <2>1. U \subseteq Nat /\ U # {}
    OBVIOUS
  <2>2. IsWellFoundedOn(R, Nat)
    BY NatLessThanWellFounded
  <2> HIDE DEF U, R
  <2> QED
    BY <2>1, <2>2, WFMin
<1>2. \A y \in Nat : y < x => <<y, x>> \in R
  BY DEF OpToRel
<1>3. x # 0 /\ x \in Nat
  OBVIOUS
<1>4. x - 1 \in Nat /\ x - 1 < x
  BY <1>3
<1>5. x - 1 \notin U
  BY <1>1, <1>2, <1>4
<1> QED
  BY <1>3, <1>4, <1>5

(* A recursion over 1..N with values in V: its steps, and what it computes. *)
Steps(N, V) == [(1..N) \X V -> V]
Run(f, base, N, V, step) ==
  /\ f \in [0..N -> V] /\ f[0] = base
  /\ \A i \in 1..N : f[i] = step[<<i, f[i-1]>>]

(* Every such recursion computes something.                                 *)
LEMMA Recursion ==
  ASSUME NEW V, NEW base \in V, NEW N \in Nat, NEW step \in Steps(N, V)
  PROVE  \E f : Run(f, base, N, V, step)
<1> DEFINE Q(n) == \E f \in [0..n -> V] : f[0] = base /\ \A i \in 1..n : f[i] = step[<<i, f[i-1]>>]
           T == {n \in Nat : n <= N => Q(n)}
<1>s. step \in [(1..N) \X V -> V]
  BY DEF Steps
<1>1. 0 \in T
  <2> DEFINE g == [i \in 0..0 |-> base]
  <2>1. g \in [0..0 -> V] /\ g[0] = base /\ \A i \in 1..0 : g[i] = step[<<i, g[i-1]>>]
    OBVIOUS
  <2> HIDE DEF g
  <2>2. Q(0)
    BY <2>1
  <2> QED
    BY <2>2
<1>2. ASSUME NEW n \in Nat, n \in T PROVE n + 1 \in T
  <2> SUFFICES ASSUME n + 1 <= N PROVE Q(n+1)
    OBVIOUS
  <2>1. PICK f \in [0..n -> V] : f[0] = base /\ \A i \in 1..n : f[i] = step[<<i, f[i-1]>>]
    BY <1>2
  <2> DEFINE g == [i \in 0..(n+1) |-> IF i <= n THEN f[i] ELSE step[<<n+1, f[n]>>]]
  <2>2. step[<<n+1, f[n]>>] \in V
    <3>1. <<n+1, f[n]>> \in (1..N) \X V
      OBVIOUS
    <3> QED
      BY <3>1, <1>s
  <2>3. g \in [0..(n+1) -> V] /\ g[0] = base
    BY <2>1, <2>2
  <2>4. ASSUME NEW i \in 1..(n+1) PROVE g[i] = step[<<i, g[i-1]>>]
    <3>1. CASE i <= n
      <4>1. i \in 1..n /\ g[i] = f[i] /\ g[i-1] = f[i-1]
        BY <3>1
      <4> QED
        BY <4>1, <2>1
    <3>2. CASE i = n + 1
      <4>1. g[i] = step[<<n+1, f[n]>>] /\ g[i-1] = f[n]
        BY <3>2
      <4> QED
        BY <4>1, <3>2
    <3> QED
      BY <3>1, <3>2
  <2> HIDE DEF g
  <2> QED
    BY <2>3, <2>4
<1>3. N \in T
  <2> HIDE DEF T
  <2> QED
    BY <1>1, <1>2, SetInduction
<1>4. PICK f \in [0..N -> V] : f[0] = base /\ \A i \in 1..N : f[i] = step[<<i, f[i-1]>>]
  BY <1>3
<1> QED
  BY <1>4 DEF Run

(* The stages of FlattenSeq: f[i] joins the first i sequences of ss.        *)
Flattened(f, ss, S) ==
  /\ f \in [0..Len(ss) -> Seq(S)] /\ f[0] = <<>>
  /\ \A i \in 1..Len(ss) : f[i] = f[i-1] \o ss[i]
  /\ FlattenSeq(ss) = f[Len(ss)]

(* FlattenSeq joins one sequence after the other.                           *)
LEMMA FlattenIs ==
  ASSUME NEW S, NEW ss \in Seq(Seq(S))
  PROVE  \E f : Flattened(f, ss, S)
<1> DEFINE N == Len(ss)
           step == [p \in (1..N) \X Seq(S) |-> p[2] \o ss[p[1]]]
<1>n. N \in Nat /\ \A i \in 1..N : ss[i] \in Seq(S)
  OBVIOUS
<1>e. <<>> \in Seq(S)
  OBVIOUS
<1>s. step \in Steps(N, Seq(S))
  BY <1>n, ConcatProperties DEF Steps
<1>0. PICK f : Run(f, <<>>, N, Seq(S), step)
  <2> HIDE DEF step, N
  <2> QED
    BY <1>n, <1>e, <1>s, Recursion
<1>1. /\ f \in [0..N -> Seq(S)] /\ f[0] = <<>>
      /\ \A i \in 1..N : f[i] = step[<<i, f[i-1]>>]
  BY <1>0 DEF Run
<1>2. ASSUME NEW i \in 1..N PROVE f[i] = f[i-1] \o ss[i]
  <2>1. i - 1 \in 0..N
    BY <1>n
  <2>2. f[i-1] \in Seq(S)
    BY <2>1, <1>1
  <2>3. <<i, f[i-1]>> \in (1..N) \X Seq(S)
    BY <2>2
  <2> QED BY <2>3, <1>1
<1>3. CASE N = 0
  BY <1>1, <1>2, <1>3 DEF FlattenSeq, Flattened
<1>4. CASE N # 0
  <2> DEFINE flatten[i \in 1..N] == IF i = 1 THEN ss[i] ELSE flatten[i-1] \o ss[i]
             F(g) == [i \in 1..N |-> IF i = 1 THEN ss[i] ELSE g[i-1] \o ss[i]]
  <2>1. FlattenSeq(ss) = flatten[N]
    BY <1>4 DEF FlattenSeq
  <2> DEFINE h == [i \in 1..N |-> f[i]]
  <2>2. h = F(h)
    <3>1. ASSUME NEW i \in 1..N PROVE h[i] = F(h)[i]
      <4>1. CASE i = 1
        <5>1. f[1] = f[0] \o ss[1]
          BY <1>2, <4>1, 1 - 1 = 0
        <5> QED BY <4>1, <5>1, <1>1, <1>n, ConcatEmptySeq
      <4>2. CASE i # 1
        <5>1. i - 1 \in 1..N
          BY <4>2, <1>n
        <5>2. h[i-1] = f[i-1] /\ h[i] = f[i]
          BY <5>1
        <5> QED BY <4>2, <5>2, <1>2
      <4> QED BY <4>1, <4>2
    <3> QED BY <3>1
  <2>3. flatten = F(flatten)
    <3>1. \E g : g = F(g)
      BY <2>2, Zenon
    <3> QED BY <3>1, Zenon
  <2> DEFINE T == {n \in Nat : n + 1 \in 1..N => flatten[n + 1] = f[n + 1]}
  <2>4. \A i \in 1..N : flatten[i] = IF i = 1 THEN ss[i] ELSE flatten[i-1] \o ss[i]
    <3> HIDE DEF flatten
    <3> QED BY <2>3
  <2> HIDE DEF flatten
  <2>5. 0 \in T
    <3>1. f[1] = <<>> \o ss[1]
      <4>1. 1 \in 1..N /\ 1 - 1 = 0
        BY <1>4, <1>n
      <4>2. f[1] = f[1-1] \o ss[1]
        BY <4>1, <1>2
      <4> QED BY <4>1, <4>2, <1>1
    <3>2. flatten[1] = ss[1]
      BY <2>4, <1>4, <1>n
    <3> QED BY <3>1, <3>2, <1>4, <1>n, ConcatEmptySeq
  <2>6. ASSUME NEW n \in Nat, n \in T PROVE n + 1 \in T
    <3> SUFFICES ASSUME n + 2 \in 1..N PROVE flatten[n + 2] = f[n + 2]
      OBVIOUS
    <3>1. n + 1 \in 1..N /\ n + 2 # 1 /\ (n + 2) - 1 = n + 1
      BY <1>n
    <3>2. flatten[n + 2] = flatten[n + 1] \o ss[n + 2]
      BY <2>4, <3>1
    <3>3. f[n + 2] = f[n + 1] \o ss[n + 2]
      BY <1>2, <3>1
    <3> QED BY <2>6, <3>1, <3>2, <3>3
  <2>7. N - 1 \in T
    <3> HIDE DEF T
    <3>1. N - 1 \in Nat
      BY <1>n, <1>4
    <3> QED BY <3>1, <2>5, <2>6, SetInduction
  <2>8. flatten[N] = f[N]
    BY <2>7, <1>n, <1>4
  <2> QED BY <1>1, <1>2, <2>1, <2>8 DEF Flattened
<1> QED BY <1>3, <1>4

---------------------------------------------------------------------------
(* The stream of bytes that a file of frames decodes to.                    *)

(* The fields of a frame of the log.                                        *)
LEMMA FrameType ==
  ASSUME NEW fr \in Seq(Frames), NEW i \in 1..Len(fr)
  PROVE  /\ fr[i] \in Frames /\ fr[i].start \in Nat /\ fr[i].body \in Seq(Byte)
         /\ fr[i].control \in BOOLEAN
         /\ Len(fr[i].body) \in Nat /\ FrameEnd(fr[i]) \in Nat
<1>1. fr[i] \in Frames
  OBVIOUS
<1>2. fr[i].start \in Nat /\ fr[i].body \in Seq(Byte) /\ fr[i].control \in BOOLEAN
  BY <1>1 DEF Frames
<1>3. Len(fr[i].body) \in Nat
  BY <1>2
<1> QED
  BY <1>1, <1>2, <1>3 DEF FrameEnd

(* The bytes of the frames, each at the offset its frame records.           *)
Laid(b, fr, n) ==
  /\ b \in Seq(Byte) /\ Len(b) = IF n = 0 THEN 0 ELSE FrameEnd(fr[n])
  /\ \A i \in 1..n : /\ FrameEnd(fr[i]) <= Len(b)
                     /\ \A j \in 1..Len(fr[i].body) : b[fr[i].start + j] = fr[i].body[j]

(* One more frame lays its bytes behind those of its predecessors.          *)
LEMMA LaidStep ==
  ASSUME NEW fr \in Seq(Frames), Contiguous(fr), NEW n \in Nat, n + 1 <= Len(fr),
         NEW b, Laid(b, fr, n)
  PROVE  Laid(b \o fr[n+1].body, fr, n + 1)
<1> DEFINE g == fr[n+1].body
           c == b \o g
<1>1. /\ n + 1 \in 1..Len(fr) /\ b \in Seq(Byte) /\ g \in Seq(Byte)
      /\ Len(b) = IF n = 0 THEN 0 ELSE FrameEnd(fr[n])
  <2>1. n + 1 \in 1..Len(fr)
    OBVIOUS
  <2> QED
    BY <2>1, FrameType DEF Laid
<1>2. fr[n+1].start = Len(b)
  <2>1. fr[n+1].start = IF n + 1 = 1 THEN 0 ELSE FrameEnd(fr[(n+1)-1])
    BY <1>1 DEF Contiguous
  <2> QED
    BY <1>1, <2>1
<1>3. /\ c \in Seq(Byte) /\ Len(c) = Len(b) + Len(g)
      /\ \A i \in 1..(Len(b) + Len(g)) : c[i] = IF i <= Len(b) THEN b[i] ELSE g[i - Len(b)]
  <2> HIDE DEF g
  <2> QED
    BY <1>1, ConcatProperties
<1>n. Len(b) \in Nat /\ Len(g) \in Nat
  BY <1>1
<1>4. ASSUME NEW i \in 1..(n + 1)
      PROVE  /\ FrameEnd(fr[i]) <= Len(c)
             /\ \A j \in 1..Len(fr[i].body) : c[fr[i].start + j] = fr[i].body[j]
  <2>1. CASE i = n + 1
    <3>1. FrameEnd(fr[i]) = Len(c) /\ Len(c) \in Nat
      <4>1. FrameEnd(fr[n+1]) = Len(b) + Len(g)
        BY <1>2 DEF FrameEnd
      <4> HIDE DEF c, g
      <4> QED
        BY <1>3, <1>n, <2>1, <4>1
    <3>2. ASSUME NEW j \in 1..Len(g) PROVE c[fr[n+1].start + j] = g[j]
      <4>1. /\ Len(b) + j \in 1..(Len(b) + Len(g)) /\ ~(Len(b) + j <= Len(b))
            /\ (Len(b) + j) - Len(b) = j
        BY <1>n
      <4> HIDE DEF c, g
      <4> QED
        BY <1>2, <1>3, <4>1
    <3> HIDE DEF c
    <3> QED
      BY <2>1, <3>1, <3>2
  <2>2. CASE i # n + 1
    <3>1. i \in 1..n /\ i \in 1..Len(fr)
      BY <2>2, <1>1
    <3>2. /\ FrameEnd(fr[i]) <= Len(b)
          /\ \A j \in 1..Len(fr[i].body) : b[fr[i].start + j] = fr[i].body[j]
      BY <3>1 DEF Laid
    <3>3. fr[i].start \in Nat /\ Len(fr[i].body) \in Nat
      BY <3>1, FrameType
    <3> DEFINE at == fr[i].start
               l == Len(fr[i].body)
               size == Len(b)
    <3>e. FrameEnd(fr[i]) = at + l
      BY DEF FrameEnd
    <3>a. at \in Nat /\ l \in Nat /\ size \in Nat /\ at + l <= size
      BY <1>n, <3>2, <3>3, <3>e
    <3>4. \A j \in 1..l : at + j \in 1..size
      <4> HIDE DEF at, l, size
      <4> QED
        BY <3>a
    <3>5. \A k \in 1..Len(b) : c[k] = b[k]
      <4> HIDE DEF c, g
      <4> QED
        BY <1>3, <1>n
    <3> HIDE DEF c, g
    <3>6. FrameEnd(fr[i]) <= Len(c)
      <4> DEFINE m == Len(g)
      <4>1. m \in Nat /\ Len(c) = size + m
        BY <1>3, <1>n
      <4> HIDE DEF at, l, size, m
      <4>2. at + l <= size + m
        BY <3>a, <4>1
      <4> QED
        BY <3>e, <4>1, <4>2
    <3> QED
      BY <3>2, <3>4, <3>5, <3>6
  <2> QED
    BY <2>1, <2>2
<1>5. Len(c) = FrameEnd(fr[n+1])
  BY <1>2, <1>3 DEF FrameEnd
<1> HIDE DEF c
<1>6. n + 1 # 0
  OBVIOUS
<1>7. Laid(c, fr, n + 1)
  BY <1>3, <1>4, <1>5, <1>6 DEF Laid
<1> QED
  BY <1>7 DEF c

(* The producer bytes of a contiguous file are as many as its last frame    *)
(* says, and each frame's are where its start says.                         *)
LEMMA LogBytes ==
  ASSUME NEW fr \in Seq(Frames), Contiguous(fr)
  PROVE  Laid(BytesOf(fr), fr, Len(fr))
<1> DEFINE ss == [i \in 1..Len(fr) |-> fr[i].body]
<1>1. /\ ss \in Seq(Seq(Byte)) /\ Len(ss) = Len(fr)
      /\ \A i \in 1..Len(fr) : ss[i] = fr[i].body
  <2>1. \A i \in 1..Len(fr) : fr[i].body \in Seq(Byte)
    BY FrameType
  <2> QED
    BY <2>1
<1>2. BytesOf(fr) = FlattenSeq(ss)
  BY DEF BytesOf
<1> HIDE DEF ss
<1>3. PICK f : Flattened(f, ss, Byte)
  BY <1>1, FlattenIs
<1>4. /\ f[0] = <<>> /\ \A i \in 1..Len(fr) : f[i] = f[i-1] \o fr[i].body
      /\ BytesOf(fr) = f[Len(fr)]
  BY <1>1, <1>2, <1>3 DEF Flattened
<1> DEFINE T == {n \in Nat : n <= Len(fr) => Laid(f[n], fr, n)}
<1>5. 0 \in T
  <2>1. <<>> \in Seq(Byte) /\ Len(<<>>) = 0
    OBVIOUS
  <2>2. Laid(<<>>, fr, 0)
    BY <2>1 DEF Laid
  <2> QED
    BY <1>4, <2>2
<1>6. ASSUME NEW n \in Nat, n \in T PROVE n + 1 \in T
  <2> SUFFICES ASSUME n + 1 <= Len(fr) PROVE Laid(f[n+1], fr, n + 1)
    OBVIOUS
  <2>1. n + 1 \in 1..Len(fr) /\ (n + 1) - 1 = n /\ n <= Len(fr)
    OBVIOUS
  <2>2. f[n+1] = f[n] \o fr[n+1].body
    BY <2>1, <1>4
  <2>3. Laid(f[n], fr, n)
    BY <1>6, <2>1
  <2> QED
    BY <2>2, <2>3, LaidStep
<1>7. Len(fr) \in T
  <2> HIDE DEF T
  <2> QED
    BY <1>5, <1>6, SetInduction
<1> QED
  BY <1>4, <1>7

(* s is the beginning of t.                                                 *)
Begins(s, t) == Len(s) <= Len(t) /\ \A i \in 1..Len(s) : s[i] = t[i]

(* The first k sequences join to stage k.                                   *)
LEMMA FlattenCut ==
  ASSUME NEW S, NEW ss \in Seq(Seq(S)), NEW f, Flattened(f, ss, S), NEW k \in 0..Len(ss)
  PROVE  FlattenSeq(SubSeq(ss, 1, k)) = f[k]
<1> DEFINE tt == SubSeq(ss, 1, k)
<1>1. tt \in Seq(Seq(S)) /\ Len(tt) = k /\ \A i \in 1..k : tt[i] = ss[i]
  OBVIOUS
<1> HIDE DEF tt
<1>2. PICK g : Flattened(g, tt, S)
  BY <1>1, FlattenIs
<1>3. /\ g[0] = <<>> /\ \A i \in 1..k : g[i] = g[i-1] \o ss[i]
      /\ FlattenSeq(tt) = g[k]
  BY <1>1, <1>2 DEF Flattened
<1>4. f[0] = <<>> /\ \A i \in 1..k : f[i] = f[i-1] \o ss[i]
  <2>1. \A i \in 1..k : i \in 1..Len(ss)
    OBVIOUS
  <2> QED
    BY <2>1 DEF Flattened
<1> DEFINE T == {n \in Nat : n <= k => g[n] = f[n]}
<1>5. 0 \in T
  BY <1>3, <1>4
<1>6. ASSUME NEW n \in Nat, n \in T PROVE n + 1 \in T
  <2> SUFFICES ASSUME n + 1 <= k PROVE g[n+1] = f[n+1]
    OBVIOUS
  <2>1. n + 1 \in 1..k /\ (n + 1) - 1 = n /\ n <= k
    OBVIOUS
  <2>2. g[n+1] = g[n] \o ss[n+1] /\ f[n+1] = f[n] \o ss[n+1]
    BY <2>1, <1>3, <1>4
  <2> QED
    BY <1>6, <2>1, <2>2
<1>7. k \in T
  <2>1. k \in Nat
    OBVIOUS
  <2> HIDE DEF T
  <2> QED
    BY <1>5, <1>6, <2>1, SetInduction
<1> QED
  BY <1>3, <1>7 DEF tt

(* A stage is the beginning of the whole.                                   *)
LEMMA FlattenGrows ==
  ASSUME NEW S, NEW ss \in Seq(Seq(S)), NEW f, Flattened(f, ss, S), NEW k \in 0..Len(ss)
  PROVE  Begins(f[k], f[Len(ss)])
<1>1. /\ \A i \in 0..Len(ss) : f[i] \in Seq(S)
      /\ \A i \in 1..Len(ss) : f[i] = f[i-1] \o ss[i]
  BY DEF Flattened
<1> DEFINE T == {n \in Nat : k + n <= Len(ss) => Begins(f[k], f[k + n])}
<1>2. 0 \in T
  BY DEF Begins
<1>3. ASSUME NEW n \in Nat, n \in T PROVE n + 1 \in T
  <2> SUFFICES ASSUME k + (n + 1) <= Len(ss) PROVE Begins(f[k], f[k + (n + 1)])
    OBVIOUS
  <2> DEFINE a == f[k]
             b == f[k + n]
             c == ss[k + (n + 1)]
  <2>1. /\ k + (n + 1) \in 1..Len(ss) /\ (k + (n + 1)) - 1 = k + n
        /\ k + n <= Len(ss) /\ k + n \in 0..Len(ss)
    OBVIOUS
  <2>2. f[k + (n + 1)] = b \o c
    BY <1>1, <2>1
  <2>3. a \in Seq(S) /\ b \in Seq(S) /\ c \in Seq(S)
    BY <1>1, <2>1
  <2>4. Begins(a, b)
    BY <1>3, <2>1
  <2> HIDE DEF a, b, c
  <2>5. /\ Len(b \o c) = Len(b) + Len(c)
        /\ \A i \in 1..(Len(b) + Len(c)) : (b \o c)[i] = IF i <= Len(b) THEN b[i] ELSE c[i - Len(b)]
    BY <2>3, ConcatProperties
  <2>6. Len(a) \in Nat /\ Len(b) \in Nat /\ Len(c) \in Nat
    BY <2>3
  <2>7. Begins(a, b \o c)
    BY <2>4, <2>5, <2>6 DEF Begins
  <2> QED
    BY <2>2, <2>7 DEF a
<1>4. Len(ss) - k \in T
  <2>1. Len(ss) - k \in Nat
    OBVIOUS
  <2> HIDE DEF T
  <2> QED
    BY <1>2, <1>3, <2>1, SetInduction
<1>5. k + (Len(ss) - k) = Len(ss)
  OBVIOUS
<1> QED
  BY <1>4, <1>5

(* The bodies of a sequence of frames.                                      *)
Bodies(fr) == [i \in 1..Len(fr) |-> fr[i].body]

(* BytesOf joins them.                                                      *)
LEMMA BodiesType ==
  ASSUME NEW fr \in Seq(Frames)
  PROVE  /\ Bodies(fr) \in Seq(Seq(Byte)) /\ Len(Bodies(fr)) = Len(fr)
         /\ \A i \in 1..Len(fr) : Bodies(fr)[i] = fr[i].body
         /\ BytesOf(fr) = FlattenSeq(Bodies(fr))
<1>1. \A i \in 1..Len(fr) : fr[i].body \in Seq(Byte)
  BY FrameType
<1> QED
  BY <1>1 DEF Bodies, BytesOf

(* A prefix of the frames decodes to a prefix of the bytes.                 *)
LEMMA BytesCut ==
  ASSUME NEW fr \in Seq(Frames), NEW k \in 0..Len(fr)
  PROVE  /\ BytesOf(fr) \in Seq(Byte) /\ BytesOf(SubSeq(fr, 1, k)) \in Seq(Byte)
         /\ Begins(BytesOf(SubSeq(fr, 1, k)), BytesOf(fr))
<1> DEFINE ss == Bodies(fr)
           gr == SubSeq(fr, 1, k)
<1>1. ss \in Seq(Seq(Byte)) /\ Len(ss) = Len(fr) /\ BytesOf(fr) = FlattenSeq(ss)
  BY BodiesType
<1>2. gr \in Seq(Frames) /\ Len(gr) = k /\ \A i \in 1..k : gr[i] = fr[i]
  OBVIOUS
<1>3. BytesOf(gr) = FlattenSeq(SubSeq(ss, 1, k))
  <2>1. Bodies(gr) = SubSeq(ss, 1, k)
    <3>1. Bodies(gr) = [i \in 1..k |-> fr[i].body]
      BY <1>2 DEF Bodies
    <3>2. SubSeq(ss, 1, k) = [i \in 1..k |-> fr[i].body]
      <4>1. SubSeq(ss, 1, k) = [i \in 1..k |-> ss[i]]
        <5> HIDE DEF ss
        <5> QED
          BY <1>1
      <4>2. \A i \in 1..k : ss[i] = fr[i].body
        BY DEF Bodies
      <4> QED
        BY <4>1, <4>2
    <3> QED
      BY <3>1, <3>2
  <2> HIDE DEF gr
  <2> QED
    BY <1>2, <2>1, BodiesType
<1> HIDE DEF ss
<1>4. PICK f : Flattened(f, ss, Byte)
  BY <1>1, FlattenIs
<1>5. k \in 0..Len(ss)
  BY <1>1
<1>6. BytesOf(gr) = f[k] /\ BytesOf(fr) = f[Len(ss)]
  <2>1. FlattenSeq(ss) = f[Len(ss)]
    BY <1>4 DEF Flattened
  <2>2. FlattenSeq(SubSeq(ss, 1, k)) = f[k]
    BY <1>1, <1>4, <1>5, FlattenCut
  <2> QED
    BY <1>1, <1>3, <2>1, <2>2
<1>7. f[k] \in Seq(Byte) /\ f[Len(ss)] \in Seq(Byte)
  BY <1>4, <1>5 DEF Flattened
<1>8. Begins(f[k], f[Len(ss)])
  BY <1>1, <1>4, <1>5, FlattenGrows
<1> QED
  BY <1>6, <1>7, <1>8

(* A frame appends its body.                                                *)
LEMMA BytesAppend ==
  ASSUME NEW fr \in Seq(Frames), NEW x \in Frames
  PROVE  BytesOf(Append(fr, x)) = BytesOf(fr) \o x.body
<1> DEFINE ar == Append(fr, x)
           ss == Bodies(ar)
           n == Len(fr)
<1>1. /\ ar \in Seq(Frames) /\ Len(ar) = n + 1 /\ ar[n+1] = x /\ n \in Nat
      /\ \A i \in 1..n : ar[i] = fr[i]
  OBVIOUS
<1>2. /\ ss \in Seq(Seq(Byte)) /\ Len(ss) = n + 1 /\ BytesOf(ar) = FlattenSeq(ss)
      /\ ss[n+1] = x.body /\ \A i \in 1..n : ss[i] = fr[i].body
  <2> HIDE DEF ar
  <2>1. n + 1 \in 1..(n+1) /\ \A i \in 1..n : i \in 1..(n+1)
    BY <1>1
  <2> QED
    BY <1>1, <2>1, BodiesType
<1>3. BytesOf(fr) = FlattenSeq(SubSeq(ss, 1, n))
  <2>1. Bodies(fr) = [i \in 1..n |-> fr[i].body]
    BY DEF Bodies
  <2> HIDE DEF ss
  <2>2. SubSeq(ss, 1, n) = [i \in 1..n |-> ss[i]]
    BY <1>1, <1>2
  <2>3. Bodies(fr) = SubSeq(ss, 1, n)
    BY <1>2, <2>1, <2>2
  <2> QED
    BY <2>3, BodiesType
<1> HIDE DEF ss, ar
<1>4. PICK f : Flattened(f, ss, Byte)
  BY <1>2, FlattenIs
<1>5. n \in 0..Len(ss)
  BY <1>1, <1>2
<1>6. BytesOf(fr) = f[n] /\ BytesOf(ar) = f[n+1]
  <2>1. FlattenSeq(ss) = f[Len(ss)]
    BY <1>4 DEF Flattened
  <2>2. FlattenSeq(SubSeq(ss, 1, n)) = f[n]
    BY <1>2, <1>4, <1>5, FlattenCut
  <2> QED
    BY <1>2, <1>3, <2>1, <2>2
<1>7. f[n+1] = f[n] \o ss[n+1]
  <2>1. n + 1 \in 1..Len(ss) /\ (n+1)-1 = n
    BY <1>1, <1>2
  <2> QED
    BY <1>4, <2>1 DEF Flattened
<1> QED
  BY <1>2, <1>6, <1>7 DEF ar

(* A range of a sequence of bytes.                                          *)
LEMMA RangeIs ==
  ASSUME NEW b \in Seq(Byte), NEW lo \in Nat, NEW hi \in Nat, lo <= hi, hi <= Len(b)
  PROVE  /\ SubSeq(b, lo + 1, hi) \in Seq(Byte)
         /\ Len(SubSeq(b, lo + 1, hi)) = hi - lo
         /\ \A i \in 1..(hi - lo) : SubSeq(b, lo + 1, hi)[i] = b[lo + i]
<1> DEFINE r == SubSeq(b, lo + 1, hi)
<1>1. \A i \in (lo + 1)..hi : b[i] \in Byte
  OBVIOUS
<1>2. /\ r \in Seq(Byte)
      /\ Len(r) = IF lo + 1 <= hi THEN hi - (lo + 1) + 1 ELSE 0
      /\ \A i \in 1..(hi - (lo + 1) + 1) : r[i] = b[lo + 1 + i - 1]
  BY <1>1, SubSeqProperties
<1>3. hi - (lo + 1) + 1 = hi - lo /\ \A i \in Nat : lo + 1 + i - 1 = lo + i
  OBVIOUS
<1> HIDE DEF r
<1>4. /\ r \in Seq(Byte) /\ Len(r) = hi - lo
      /\ \A i \in 1..(hi - lo) : r[i] = b[lo + i]
  BY <1>2, <1>3
<1> QED
  BY <1>4 DEF r

---------------------------------------------------------------------------
(* What control lines take of their allowance.                              *)

(* The stages of ControlBytesOf.                                            *)
Tallied(f, fr) ==
  /\ f \in [0..Len(fr) -> Nat] /\ f[0] = 0
  /\ \A i \in 1..Len(fr) : f[i] = f[i-1] + ControlLen(fr[i])
  /\ ControlBytesOf(fr) = f[Len(fr)]

(* What a frame takes of the allowance is a number.                         *)
LEMMA ControlLenType ==
  ASSUME NEW fr \in Seq(Frames), NEW i \in 1..Len(fr)
  PROVE  ControlLen(fr[i]) \in Nat
BY FrameType DEF ControlLen

(* ControlBytesOf adds one frame after the other.                           *)
LEMMA TallyIs ==
  ASSUME NEW fr \in Seq(Frames)
  PROVE  \E f : Tallied(f, fr)
<1> DEFINE N == Len(fr)
           step == [p \in (1..N) \X Nat |-> p[2] + ControlLen(fr[p[1]])]
<1>n. N \in Nat /\ \A i \in 1..N : ControlLen(fr[i]) \in Nat
  BY ControlLenType
<1>s. step \in Steps(N, Nat)
  BY <1>n DEF Steps
<1>0. PICK f : Run(f, 0, N, Nat, step)
  <2> HIDE DEF step, N
  <2> QED
    BY <1>n, <1>s, Recursion
<1>1. /\ f \in [0..N -> Nat] /\ f[0] = 0
      /\ \A i \in 1..N : f[i] = step[<<i, f[i-1]>>]
  BY <1>0 DEF Run
<1>2. ASSUME NEW i \in 1..N PROVE f[i] = f[i-1] + ControlLen(fr[i])
  <2>1. i - 1 \in 0..N
    BY <1>n
  <2>2. f[i-1] \in Nat
    BY <2>1, <1>1
  <2>3. <<i, f[i-1]>> \in (1..N) \X Nat
    BY <2>2
  <2> QED
    BY <2>3, <1>1
<1> DEFINE sum[i \in 0..N] == IF i = 0 THEN 0 ELSE sum[i-1] + ControlLen(fr[i])
           F(g) == [i \in 0..N |-> IF i = 0 THEN 0 ELSE g[i-1] + ControlLen(fr[i])]
<1>3. ControlBytesOf(fr) = sum[N]
  BY DEF ControlBytesOf
<1>4. f = F(f)
  <2>1. ASSUME NEW i \in 0..N PROVE f[i] = F(f)[i]
    <3>1. CASE i = 0
      BY <3>1, <1>1
    <3>2. CASE i # 0
      <4>1. i \in 1..N
        BY <3>2, <1>n
      <4> QED
        BY <3>2, <4>1, <1>2
    <3> QED
      BY <3>1, <3>2
  <2> QED
    BY <2>1, <1>1
<1>5. sum = F(sum)
  <2>1. \E g : g = F(g)
    BY <1>4, Zenon
  <2> QED
    BY <2>1, Zenon
<1>6. \A i \in 0..N : sum[i] = IF i = 0 THEN 0 ELSE sum[i-1] + ControlLen(fr[i])
  <2> HIDE DEF sum
  <2> QED
    BY <1>5
<1> HIDE DEF sum
<1> DEFINE T == {n \in Nat : n <= N => sum[n] = f[n]}
<1>7. 0 \in T
  BY <1>1, <1>6, <1>n
<1>8. ASSUME NEW n \in Nat, n \in T PROVE n + 1 \in T
  <2> SUFFICES ASSUME n + 1 <= N PROVE sum[n+1] = f[n+1]
    OBVIOUS
  <2>1. n + 1 \in 0..N /\ n + 1 \in 1..N /\ n + 1 # 0 /\ (n+1) - 1 = n /\ n <= N
    BY <1>n
  <2>2. sum[n+1] = sum[n] + ControlLen(fr[n+1])
    BY <1>6, <2>1
  <2>3. f[n+1] = f[n] + ControlLen(fr[n+1])
    BY <1>2, <2>1
  <2> QED
    BY <1>8, <2>1, <2>2, <2>3
<1>9. N \in T
  <2> HIDE DEF T
  <2> QED
    BY <1>7, <1>8, <1>n, SetInduction
<1> QED
  BY <1>1, <1>2, <1>3, <1>9 DEF Tallied

(* The first k frames add up to stage k.                                    *)
LEMMA TallyCut ==
  ASSUME NEW fr \in Seq(Frames), NEW k \in 0..Len(fr), NEW f, Tallied(f, fr)
  PROVE  ControlBytesOf(SubSeq(fr, 1, k)) = f[k]
<1> DEFINE gr == SubSeq(fr, 1, k)
<1>1. gr \in Seq(Frames) /\ Len(gr) = k /\ \A i \in 1..k : gr[i] = fr[i]
  OBVIOUS
<1> HIDE DEF gr
<1>2. PICK g : Tallied(g, gr)
  BY <1>1, TallyIs
<1>3. /\ g[0] = 0 /\ \A i \in 1..k : g[i] = g[i-1] + ControlLen(fr[i])
      /\ ControlBytesOf(gr) = g[k]
  BY <1>1, <1>2 DEF Tallied
<1>4. f[0] = 0 /\ \A i \in 1..k : f[i] = f[i-1] + ControlLen(fr[i])
  <2>1. \A i \in 1..k : i \in 1..Len(fr)
    OBVIOUS
  <2> QED
    BY <2>1 DEF Tallied
<1> DEFINE T == {n \in Nat : n <= k => g[n] = f[n]}
<1>5. 0 \in T
  BY <1>3, <1>4
<1>6. ASSUME NEW n \in Nat, n \in T PROVE n + 1 \in T
  <2> SUFFICES ASSUME n + 1 <= k PROVE g[n+1] = f[n+1]
    OBVIOUS
  <2>1. n + 1 \in 1..k /\ (n + 1) - 1 = n /\ n <= k
    OBVIOUS
  <2>2. g[n+1] = g[n] + ControlLen(fr[n+1]) /\ f[n+1] = f[n] + ControlLen(fr[n+1])
    BY <2>1, <1>3, <1>4
  <2> QED
    BY <1>6, <2>1, <2>2
<1>7. k \in T
  <2>1. k \in Nat
    OBVIOUS
  <2> HIDE DEF T
  <2> QED
    BY <1>5, <1>6, <2>1, SetInduction
<1> QED
  BY <1>3, <1>7 DEF gr

(* A prefix of the frames takes no more of the allowance than the whole.    *)
LEMMA ControlCut ==
  ASSUME NEW fr \in Seq(Frames), NEW k \in 0..Len(fr)
  PROVE  /\ ControlBytesOf(fr) \in Nat /\ ControlBytesOf(SubSeq(fr, 1, k)) \in Nat
         /\ ControlBytesOf(SubSeq(fr, 1, k)) <= ControlBytesOf(fr)
<1>1. PICK f : Tallied(f, fr)
  BY TallyIs
<1>2. /\ \A i \in 0..Len(fr) : f[i] \in Nat
      /\ \A i \in 1..Len(fr) : f[i] = f[i-1] + ControlLen(fr[i])
      /\ ControlBytesOf(fr) = f[Len(fr)]
  BY <1>1 DEF Tallied
<1>3. ControlBytesOf(SubSeq(fr, 1, k)) = f[k]
  BY <1>1, TallyCut
<1> DEFINE T == {n \in Nat : k + n <= Len(fr) => f[k] <= f[k + n]}
<1>4. 0 \in T
  BY <1>2
<1>5. ASSUME NEW n \in Nat, n \in T PROVE n + 1 \in T
  <2> SUFFICES ASSUME k + (n + 1) <= Len(fr) PROVE f[k] <= f[k + (n + 1)]
    OBVIOUS
  <2>1. /\ k + (n + 1) \in 1..Len(fr) /\ (k + (n + 1)) - 1 = k + n
        /\ k + n <= Len(fr) /\ k + n \in 0..Len(fr)
    OBVIOUS
  <2>2. f[k + (n + 1)] = f[k + n] + ControlLen(fr[k + (n + 1)])
    BY <1>2, <2>1
  <2>3. f[k] \in Nat /\ f[k + n] \in Nat /\ ControlLen(fr[k + (n + 1)]) \in Nat
    BY <1>2, <2>1, ControlLenType
  <2> QED
    BY <1>5, <2>1, <2>2, <2>3
<1>6. Len(fr) - k \in T
  <2>1. Len(fr) - k \in Nat
    OBVIOUS
  <2> HIDE DEF T
  <2> QED
    BY <1>4, <1>5, <2>1, SetInduction
<1>7. k + (Len(fr) - k) = Len(fr) /\ Len(fr) \in 0..Len(fr)
  OBVIOUS
<1> QED
  BY <1>2, <1>3, <1>6, <1>7

(* A frame adds what it takes.                                              *)
LEMMA ControlAppend ==
  ASSUME NEW fr \in Seq(Frames), NEW x \in Frames
  PROVE  ControlBytesOf(Append(fr, x)) = ControlBytesOf(fr) + ControlLen(x)
<1> DEFINE ar == Append(fr, x)
           n == Len(fr)
<1>1. /\ ar \in Seq(Frames) /\ Len(ar) = n + 1 /\ ar[n+1] = x /\ n \in Nat
      /\ SubSeq(ar, 1, n) = fr
  OBVIOUS
<1> HIDE DEF ar
<1>2. PICK f : Tallied(f, ar)
  BY <1>1, TallyIs
<1>3. n \in 0..Len(ar) /\ n + 1 \in 1..Len(ar) /\ (n + 1) - 1 = n
  BY <1>1
<1>4. ControlBytesOf(fr) = f[n]
  BY <1>1, <1>2, <1>3, TallyCut
<1>5. ControlBytesOf(ar) = f[n+1] /\ f[n+1] = f[n] + ControlLen(ar[n+1])
  BY <1>1, <1>2, <1>3 DEF Tallied
<1> QED
  BY <1>1, <1>4, <1>5 DEF ar

---------------------------------------------------------------------------
(* The segments of an append.                                               *)

(* Segments that carry the bytes d + 1 .. e of line n, one after the other; *)
(* o says where each one starts.                                            *)
Cut(s, n, d, e, o) ==
  /\ o \in [1..(Len(s) + 1) -> 0..e] /\ o[1] = d /\ o[Len(s) + 1] = e
  /\ \A i \in 1..Len(s) :
       /\ o[i+1] = o[i] + Len(s[i].body)
       /\ \A j \in 1..Len(s[i].body) : s[i].body[j] = <<n, o[i] + j>>
Pieces(s, n, d, e) == \E o : Cut(s, n, d, e, o)

(* A record is cut into segments that carry all of it.                      *)
LEMMA SegmentsPieces ==
  ASSUME NEW n \in Nat, NEW L \in Nat \ {0}, NEW control \in BOOLEAN
  PROVE  /\ Pieces(Segments(Bytes(n, L), control), n, 0, L)
         /\ \A i \in 1..Len(Segments(Bytes(n, L), control)) :
              Segments(Bytes(n, L), control)[i].control = control
<1> DEFINE F == FrameBytes
           bytes == Bytes(n, L)
           count == (L + F - 1) \div F
           from(k) == (k-1) * F + 1
           to(k) == IF k = count THEN L ELSE k * F
           s == Segments(bytes, control)
           o == [k \in 1..(count + 1) |-> IF k = count + 1 THEN L ELSE (k-1) * F]
<1>1. F \in Nat \ {0}
  BY LogAssumption
<1>2. count \in Nat \ {0} /\ F * count <= L + F - 1
  BY <1>1, ChunkCount
<1>b. /\ bytes \in Seq(Byte) /\ Len(bytes) = L
      /\ \A k \in 1..L : bytes[k] = <<n, k>>
  <2>1. bytes \in Seq(Byte)
    BY BytesType
  <2> QED
    BY <2>1 DEF Bytes
<1>3. s = [k \in 1..count |-> [body |-> SubSeq(bytes, from(k), to(k)),
                               control |-> control, outcome |-> None]]
  <2> HIDE DEF bytes
  <2> QED
    BY <1>b DEF Segments
<1> HIDE DEF s, bytes, count, F
<1>4. /\ Len(s) = count
      /\ \A k \in 1..count : s[k].body = SubSeq(bytes, from(k), to(k)) /\ s[k].control = control
  BY <1>2, <1>3
<1>5. (count-1) * F = F * count - F /\ (count - 1) * F <= L - 1
  BY <1>1, <1>2
<1>6. ASSUME NEW k \in 1..count
      PROVE  /\ (k-1) * F \in 0..L
             /\ to(k) \in 0..L /\ from(k) <= to(k) + 1 /\ from(k) >= 1
             /\ k # count => to(k) = (k - 1) * F + F
  <2>1. (k-1) \in Nat /\ (count-1) \in Nat /\ k - 1 <= count - 1
    BY <1>2
  <2>2. (k-1) * F <= (count-1) * F /\ (k-1) * F \in Nat
    BY <2>1, <1>1, Product
  <2>3. (k-1) * F \in 0..(L - 1)
    BY <2>2, <1>5, <1>1, <1>2
  <2>4. CASE k = count
    BY <2>3, <2>4
  <2>5. CASE k # count
    <3>1. k <= count - 1 /\ k \in Nat
      BY <2>5, <1>2
    <3>2. k * F <= (count-1) * F /\ k * F \in Nat
      BY <3>1, <2>1, <1>1, Product
    <3>3. k * F = (k - 1) * F + F
      BY <3>1, <1>1
    <3> QED
      BY <2>3, <2>5, <3>2, <3>3, <1>5, <1>1, <1>2
  <2> QED
    BY <2>4, <2>5
<1>7. ASSUME NEW k \in 1..count
      PROVE  /\ Len(s[k].body) = to(k) - (k - 1) * F
             /\ \A j \in 1..Len(s[k].body) : s[k].body[j] = <<n, (k - 1) * F + j>>
  <2> DEFINE a == (k - 1) * F
             b == to(k)
  <2>1. a \in 0..L /\ b \in 0..L /\ from(k) = a + 1 /\ a <= b
    BY <1>6
  <2>2. s[k].body = SubSeq(bytes, a + 1, b)
    BY <1>4
  <2> HIDE DEF a, b
  <2>3. /\ Len(SubSeq(bytes, a + 1, b)) = b - a
        /\ \A j \in 1..(b - a) : SubSeq(bytes, a + 1, b)[j] = bytes[a + j]
    <3>1. bytes \in Seq(Byte) /\ a \in Nat /\ b \in Nat /\ a <= b /\ b <= Len(bytes)
      BY <1>b, <2>1
    <3> QED
      BY <3>1, RangeIs
  <2>4. \A j \in 1..(b - a) : a + j \in 1..L
    BY <2>1
  <2>5. \A j \in 1..(b - a) : SubSeq(bytes, a + 1, b)[j] = <<n, a + j>>
    BY <1>b, <2>3, <2>4
  <2>6. Len(s[k].body) = b - a /\ \A j \in 1..(b - a) : s[k].body[j] = <<n, a + j>>
    BY <2>2, <2>3, <2>5
  <2> QED
    BY <2>6 DEF a, b
<1> HIDE DEF from, to
<1>8. o \in [1..(count + 1) -> 0..L] /\ o[1] = 0 /\ o[count + 1] = L
  <2>1. \A k \in 1..(count + 1) : k # count + 1 => k \in 1..count
    BY <1>2
  <2>2. \A k \in 1..(count + 1) : o[k] \in 0..L
    BY <1>6, <2>1
  <2>3. o[1] = 0
    <3>1. 1 \in 1..(count + 1) /\ 1 # count + 1 /\ (1 - 1) * F = 0
      BY <1>1, <1>2
    <3> QED
      BY <3>1
  <2> QED
    BY <1>2, <2>2, <2>3
<1>9. ASSUME NEW k \in 1..count
      PROVE  /\ o[k] = (k - 1) * F /\ o[k+1] = o[k] + Len(s[k].body)
             /\ \A j \in 1..Len(s[k].body) : s[k].body[j] = <<n, o[k] + j>>
  <2>1. o[k] = (k - 1) * F
    BY <1>2
  <2>2. o[k+1] = to(k)
    <3>1. CASE k = count
      BY <1>2, <3>1 DEF to
    <3>2. CASE k # count
      <4>1. k + 1 \in 1..(count + 1) /\ k + 1 # count + 1 /\ (k + 1) - 1 = k
        BY <1>2, <3>2
      <4> QED
        BY <3>2, <4>1 DEF to
    <3> QED
      BY <3>1, <3>2
  <2>3. (k-1)*F \in 0..L /\ to(k) \in 0..L
    BY <1>6
  <2>4. to(k) = (k-1)*F + (to(k) - (k-1)*F)
    BY <2>3
  <2> QED
    BY <1>7, <2>1, <2>2, <2>4
<1> HIDE DEF o
<1>10. Cut(s, n, 0, L, o)
  BY <1>4, <1>8, <1>9 DEF Cut
<1> QED
  BY <1>4, <1>10 DEF Pieces, s, bytes

(* Once the first piece is written, the rest are the pieces that follow.    *)
LEMMA PiecesTail ==
  ASSUME NEW s \in Todo, NEW n, NEW d, NEW e \in Nat, Pieces(s, n, d, e)
  PROVE  /\ d \in 0..e /\ d + Len(Head(s).body) \in 0..e
         /\ Head(s).body \in Seq(Byte)
         /\ \A j \in 1..Len(Head(s).body) : Head(s).body[j] = <<n, d + j>>
         /\ Len(s) = 1 => d + Len(Head(s).body) = e
         /\ Pieces(Tail(s), n, d + Len(Head(s).body), e)
<1>1. PICK o : Cut(s, n, d, e, o)
  BY DEF Pieces
<1>2. s \in Seq(Segment) /\ s # <<>> /\ Len(s) \in Nat \ {0}
  BY EmptySeq DEF Todo
<1>3. Head(s) = s[1] /\ s[1] \in Segment /\ 1 \in 1..Len(s)
  BY <1>2
<1>4. Head(s).body \in Seq(Byte) /\ Len(Head(s).body) \in Nat
  BY <1>3 DEF Segment
<1> DEFINE len == Len(Head(s).body)
           t == Tail(s)
           q == [i \in 1..(Len(t) + 1) |-> o[i+1]]
<1>5. /\ o[1] = d /\ o[2] = d + len /\ o[1] \in 0..e /\ o[2] \in 0..e
      /\ \A j \in 1..len : Head(s).body[j] = <<n, d + j>>
  <2>1. o \in [1..(Len(s) + 1) -> 0..e] /\ o[1] = d
    BY <1>1 DEF Cut
  <2>2. o[1+1] = o[1] + Len(s[1].body) /\ \A j \in 1..Len(s[1].body) : s[1].body[j] = <<n, o[1] + j>>
    BY <1>1, <1>3 DEF Cut
  <2>3. 1 \in 1..(Len(s) + 1) /\ 2 \in 1..(Len(s) + 1) /\ 1 + 1 = 2
    BY <1>2
  <2> QED
    BY <1>3, <2>1, <2>2, <2>3
<1>6. t \in Seq(Segment) /\ Len(t) = Len(s) - 1 /\ \A i \in 1..Len(t) : t[i] = s[i+1]
  BY <1>2
<1> HIDE DEF t
<1>7. Cut(t, n, d + len, e, q)
  <2>1. o \in [1..(Len(s) + 1) -> 0..e] /\ o[Len(s) + 1] = e
    BY <1>1 DEF Cut
  <2>2. \A i \in 1..(Len(t) + 1) : i + 1 \in 1..(Len(s) + 1)
    BY <1>2, <1>6
  <2>3. q \in [1..(Len(t) + 1) -> 0..e]
    BY <2>1, <2>2
  <2>4. q[1] = o[2] /\ q[Len(t) + 1] = o[Len(s) + 1]
    BY <1>2, <1>6
  <2>5. ASSUME NEW i \in 1..Len(t)
        PROVE  /\ q[i+1] = q[i] + Len(t[i].body)
               /\ \A j \in 1..Len(t[i].body) : t[i].body[j] = <<n, q[i] + j>>
    <3>1. i + 1 \in 1..Len(s) /\ i \in 1..(Len(t) + 1) /\ i + 1 \in 1..(Len(t) + 1)
      BY <1>2, <1>6
    <3>2. q[i] = o[i+1] /\ q[i+1] = o[(i+1)+1]
      BY <3>1
    <3>3. /\ o[(i+1)+1] = o[i+1] + Len(s[i+1].body)
          /\ \A j \in 1..Len(s[i+1].body) : s[i+1].body[j] = <<n, o[i+1] + j>>
      BY <1>1, <3>1 DEF Cut
    <3>4. t[i] = s[i+1]
      BY <1>6
    <3> QED
      BY <3>2, <3>3, <3>4
  <2> HIDE DEF q, len
  <2> QED
    BY <1>5, <2>1, <2>3, <2>4, <2>5 DEF Cut
<1>8. Len(s) = 1 => d + len = e
  BY <1>1, <1>5 DEF Cut
<1>9. Pieces(t, n, d + len, e)
  <2> HIDE DEF q, len
  <2> QED
    BY <1>7 DEF Pieces
<1> QED
  BY <1>4, <1>5, <1>8, <1>9 DEF t

(* A seal carries nothing.                                                  *)
LEMMA SealPieces ==
  ASSUME NEW outcome, NEW n
  PROVE  Pieces(Seal(outcome), n, 0, 0)
<1> DEFINE o == [i \in 1..2 |-> 0]
           s == Seal(outcome)
<1>1. Len(s) = 1 /\ Len(s[1].body) = 0
  BY DEF Seal
<1>2. o \in [1..2 -> 0..0] /\ o[1] = 0 /\ o[2] = 0
  OBVIOUS
<1> HIDE DEF s, o
<1>3. Cut(s, n, 0, 0, o)
  BY <1>1, <1>2 DEF Cut
<1> QED
  BY <1>3 DEF Pieces, s

---------------------------------------------------------------------------
(* The allowance of control lines (AllowanceIsBounded).                     *)

(* Segments s of one record, of which the control ones fit into room.       *)
Spends(s) == \E i \in 1..Len(s) : s[i].control
Budgeted(s, room) ==
  \E n, d : \E e \in Nat : Pieces(s, n, d, e) /\ (Spends(s) => e - d <= room)

(* What the writer knows of the allowance, and what its append will spend.  *)
AllowanceKnown ==
  /\ ControlBytesOf(owner) \in Nat /\ ControlBytesOf(owner) <= ControlOverdraft
  /\ w.pc # "closed" => w.control \in Nat
  /\ (w.pc = "idle" /\ ~w.poisoned) \/ w.pc \in {"write", "flush", "index"} =>
       w.control = ControlBytesOf(owner)
  /\ w.pc = "sync" => ControlBytesOf(owner) = w.control + ControlLen(Head(w.todo))

(* The file, with what is under way, stays within the allowance.            *)
AllowanceKept ==
  /\ w.pc \in {"write", "flush"} => Budgeted(w.todo, ControlOverdraft - ControlBytesOf(owner))
  /\ w.pc \in {"sync", "index"} => Budgeted(Tail(w.todo), ControlOverdraft - ControlBytesOf(owner))

(* The inductive invariant behind ControlIsBounded.                         *)
BudgetInv == LogInv /\ AllowanceKnown /\ AllowanceKept

(* A segment written leaves the rest within what is left.                   *)
LEMMA BudgetTail ==
  ASSUME NEW s \in Todo, NEW room \in Nat, Budgeted(s, room)
  PROVE  /\ ControlLen(Head(s)) \in Nat /\ ControlLen(Head(s)) <= room
         /\ Budgeted(Tail(s), room - ControlLen(Head(s)))
<1>0. PICK n, d : \E e \in Nat : Pieces(s, n, d, e) /\ (Spends(s) => e - d <= room)
  BY DEF Budgeted
<1>1. PICK e \in Nat : Pieces(s, n, d, e) /\ (Spends(s) => e - d <= room)
  BY <1>0
<1> DEFINE len == Len(Head(s).body)
           t == Tail(s)
<1>2. /\ s \in Seq(Segment) /\ Len(s) \in Nat \ {0} /\ Head(s) \in Segment
      /\ Head(s) = s[1] /\ len \in Nat
  BY HeadOfTodo
<1>3. d \in 0..e /\ d + len \in 0..e /\ Pieces(t, n, d + len, e)
  BY <1>1, PiecesTail
<1>4. Head(s).control \in BOOLEAN
  BY <1>2 DEF Segment
<1>5. Head(s).control => Spends(s)
  BY <1>2 DEF Spends
<1>6. Spends(t) => Spends(s)
  <2>1. Len(t) = Len(s) - 1 /\ \A i \in 1..Len(t) : t[i] = s[i+1] /\ i + 1 \in 1..Len(s)
    BY <1>2
  <2> HIDE DEF t
  <2> QED
    BY <2>1 DEF Spends
<1> HIDE DEF len, t
<1>7. ControlLen(Head(s)) = IF Head(s).control THEN len ELSE 0
  BY DEF ControlLen, len
<1>8. ControlLen(Head(s)) \in Nat /\ ControlLen(Head(s)) <= room
  BY <1>1, <1>2, <1>3, <1>4, <1>5, <1>7
<1>9. Spends(t) => e - (d + len) <= room - ControlLen(Head(s))
  BY <1>1, <1>2, <1>3, <1>4, <1>5, <1>6, <1>7
<1> QED
  BY <1>3, <1>8, <1>9 DEF Budgeted, t

(* A control line within the allowance, a line and a seal.                  *)
LEMMA BudgetStarts ==
  /\ \A room \in Int : ControlBytes <= room => Budgeted(ControlSegments, room)
  /\ \A room \in Int : \A n \in Nat, L \in Nat \ {0} : Budgeted(Segments(Bytes(n, L), FALSE), room)
  /\ \A room \in Nat : \A outcome : Budgeted(Seal(outcome), room)
<1>1. ControlBytes \in Nat \ {0}
  BY LogAssumption
<1>2. ASSUME NEW room \in Int, ControlBytes <= room PROVE Budgeted(ControlSegments, room)
  <2>1. Pieces(ControlSegments, 0, 0, ControlBytes)
    BY <1>1, SegmentsPieces DEF ControlSegments
  <2>2. ControlBytes - 0 <= room
    BY <1>1, <1>2
  <2> QED
    BY <1>1, <2>1, <2>2 DEF Budgeted
<1>3. ASSUME NEW room \in Int, NEW n \in Nat, NEW L \in Nat \ {0}
      PROVE  Budgeted(Segments(Bytes(n, L), FALSE), room)
  <2> DEFINE s == Segments(Bytes(n, L), FALSE)
  <2>1. Pieces(s, n, 0, L) /\ \A i \in 1..Len(s) : s[i].control = FALSE
    BY SegmentsPieces
  <2> HIDE DEF s
  <2>2. ~Spends(s) /\ L \in Nat
    BY <2>1 DEF Spends
  <2> QED
    BY <2>1, <2>2 DEF Budgeted, s
<1>4. ASSUME NEW room \in Nat, NEW outcome PROVE Budgeted(Seal(outcome), room)
  <2>1. Pieces(Seal(outcome), 0, 0, 0)
    BY SealPieces
  <2>2. 0 - 0 <= room /\ 0 \in Nat
    OBVIOUS
  <2> QED
    BY <2>1, <2>2 DEF Budgeted
<1> QED
  BY <1>2, <1>3, <1>4

(* A new log has spent nothing.                                             *)
LEMMA InitBudget == Init => BudgetInv
<1> SUFFICES ASSUME Init PROVE AllowanceKnown /\ AllowanceKept
  BY InitLog DEF BudgetInv
<1>1. w = Closed /\ owner = <<>>
  BY DEF Init
<1>2. ControlBytesOf(owner) = 0
  <2>1. owner \in Seq(Frames) /\ Len(owner) = 0
    BY <1>1
  <2>2. PICK f : Tallied(f, owner)
    BY <2>1, TallyIs
  <2> QED
    BY <2>1, <2>2 DEF Tallied
<1>3. ControlOverdraft \in Nat
  BY LogAssumption
<1> QED
  BY <1>1, <1>2, <1>3 DEF AllowanceKnown, AllowanceKept, Closed

(* A step that starts no append and ends at most one.                       *)
LEMMA BudgetRests ==
  ASSUME BudgetInv, owner' = owner, w'.pc \in {"closed", "idle"},
         w'.pc = "idle" => w'.control \in Nat,
         w'.pc = "idle" /\ ~w'.poisoned => w'.control = ControlBytesOf(owner)
  PROVE  AllowanceKnown' /\ AllowanceKept'
BY DEF BudgetInv, AllowanceKnown, AllowanceKept

(* An append begins on a budget that it fits.                               *)
LEMMA BudgetBegins ==
  ASSUME BudgetInv, Writable, owner' = owner, w'.pc = "write", w'.control = w.control,
         Budgeted(w'.todo, ControlOverdraft - w.control)
  PROVE  AllowanceKnown' /\ AllowanceKept'
<1>1. w.control = ControlBytesOf(owner) /\ w.control \in Nat
  BY DEF BudgetInv, AllowanceKnown, Writable
<1> QED
  BY <1>1 DEF BudgetInv, AllowanceKnown, AllowanceKept

(* Every way to begin an append checks the allowance where it needs it.     *)
LEMMA BudgetAppends ==
  ASSUME BudgetInv,
         \/ AppendLine \/ AppendRefused \/ AppendControl
         \/ \E outcome \in {"complete", "unavailable"} : Finish(outcome)
  PROVE  AllowanceKnown' /\ AllowanceKept'
<1>1. Writable /\ owner' = owner
  BY DEF AppendLine, AppendRefused, AppendControl, Finish, disk
<1>2. DOMAIN w = Fields /\ w.pc = "idle" /\ lines \in Nat
  BY <1>1, LogAssumption DEF BudgetInv, LogInv, WriterType, RestInv, Writable
<1>3. w.control \in Nat /\ w.control = ControlBytesOf(owner) /\ w.control <= ControlOverdraft
  BY <1>1 DEF BudgetInv, AllowanceKnown, Writable
<1>4. ControlOverdraft \in Nat /\ ControlBytes \in Nat
  BY LogAssumption
<1>5. ControlOverdraft - w.control \in Nat
  BY <1>3, <1>4
<1>6. CASE AppendLine
  <2>1. lines + 1 \in Nat /\ LineBytes[lines + 1] \in Nat \ {0}
    BY <1>6, <1>2, LogAssumption DEF AppendLine, BudgetInv, LogInv, RestInv
  <2> DEFINE todo == Segments(Bytes(lines + 1, LineBytes[lines + 1]), FALSE)
  <2>2. w' = [w EXCEPT !.pc = "write", !.todo = todo, !.line = lines + 1]
    BY <1>6 DEF AppendLine, Begin
  <2>3. Budgeted(todo, ControlOverdraft - w.control)
    <3>1. ControlOverdraft - w.control \in Int
      BY <1>5
    <3> QED
      BY <2>1, <3>1, BudgetStarts, Zenon
  <2> HIDE DEF todo
  <2>4. w'.pc = "write" /\ w'.control = w.control /\ w'.todo = todo
    BY <1>2, <2>2 DEF Fields
  <2> QED
    BY <1>1, <2>3, <2>4, BudgetBegins
<1>7. ASSUME MayOverdraw PROVE Budgeted(ControlSegments, ControlOverdraft - w.control)
  <2>1. ControlBytes <= ControlOverdraft - w.control
    BY <1>3, <1>4, <1>7 DEF MayOverdraw
  <2> QED
    BY <1>5, <2>1, BudgetStarts
<1>8. CASE AppendControl
  <2>1. MayOverdraw /\ w' = [w EXCEPT !.pc = "write", !.todo = ControlSegments, !.line = 0]
    BY <1>8 DEF AppendControl, Begin
  <2>2. w'.pc = "write" /\ w'.control = w.control /\ w'.todo = ControlSegments
    BY <1>2, <2>1 DEF Fields
  <2> QED
    BY <1>1, <1>7, <2>1, <2>2, BudgetBegins
<1>9. CASE AppendRefused
  <2>1. CASE /\ MayOverdraw
             /\ w' = [w EXCEPT !.pc = "write", !.todo = ControlSegments, !.line = 0, !.marker = TRUE]
    <3>1. w'.pc = "write" /\ w'.control = w.control /\ w'.todo = ControlSegments
      BY <1>2, <2>1 DEF Fields
    <3> QED
      BY <1>1, <1>7, <2>1, <3>1, BudgetBegins
  <2>2. CASE w' = [w EXCEPT !.marker = TRUE]
    <3>1. w'.pc = "idle" /\ w'.control = w.control
      BY <1>2, <2>2 DEF Fields
    <3> QED
      BY <1>1, <1>3, <3>1, BudgetRests
  <2> QED
    BY <1>9, <2>1, <2>2 DEF AppendRefused
<1>10. ASSUME NEW outcome \in {"complete", "unavailable"}, Finish(outcome)
       PROVE  AllowanceKnown' /\ AllowanceKept'
  <2> DEFINE todo == Seal(outcome)
  <2>1. w' = [w EXCEPT !.pc = "write", !.todo = todo, !.line = 0]
    BY <1>10 DEF Finish, Begin
  <2>2. Budgeted(todo, ControlOverdraft - w.control)
    BY <1>5, BudgetStarts
  <2> HIDE DEF todo
  <2>3. w'.pc = "write" /\ w'.control = w.control /\ w'.todo = todo
    BY <1>2, <2>1 DEF Fields
  <2> QED
    BY <1>1, <2>2, <2>3, BudgetBegins
<1> QED
  BY <1>6, <1>8, <1>9, <1>10

(* The frames of an append spend what was set aside for them.               *)
LEMMA BudgetFrames ==
  ASSUME BudgetInv, WriterStep
  PROVE  AllowanceKnown' /\ AllowanceKept'
<1>1. w.pc \in Busy /\ DOMAIN w = Fields /\ w.todo \in Todo /\ w.control \in Nat
  BY DEF BudgetInv, LogInv, WriterType, AllowanceKnown, WriterStep, WriteBytes, Flush, Sync,
     WriteFails, IndexFrame, Busy
<1>2. CASE WriteBytes
  <2>1. w'.pc = "flush" /\ w'.todo = w.todo /\ w'.control = w.control /\ owner' = owner /\ w.pc = "write"
    BY <1>1, <1>2 DEF WriteBytes, Fields
  <2> QED
    BY <2>1 DEF BudgetInv, AllowanceKnown, AllowanceKept
<1>3. CASE Flush
  <2> DEFINE f == Frame(Head(w.todo))
             room == ControlOverdraft - ControlBytesOf(owner)
             len == ControlLen(Head(w.todo))
  <2>1. /\ w'.pc = "sync" /\ w'.todo = w.todo /\ w'.control = w.control /\ w.pc = "flush"
        /\ owner' = Append(owner, f) /\ owner \in Seq(Frames) /\ w.offset \in Nat
    BY <1>1, <1>3 DEF Flush, Fields, BudgetInv, LogInv, OwnerInv, WriterType
  <2>2. f \in Frames
    BY <1>1, <2>1, HeadOfTodo DEF Frame, Frames, Segment
  <2>3. ControlLen(f) = len
    BY DEF ControlLen, Frame
  <2>4. room \in Nat /\ ControlOverdraft \in Nat /\ ControlBytesOf(owner) \in Nat
    BY LogAssumption DEF BudgetInv, AllowanceKnown
  <2>5. Budgeted(w.todo, room) /\ w.control = ControlBytesOf(owner)
    BY <2>1 DEF BudgetInv, AllowanceKept, AllowanceKnown
  <2>6. len \in Nat /\ len <= room /\ Budgeted(Tail(w.todo), room - len)
    <3> HIDE DEF room
    <3> QED
      BY <1>1, <2>4, <2>5, BudgetTail
  <2> HIDE DEF f
  <2>7. ControlBytesOf(owner') = ControlBytesOf(owner) + len
    BY <2>1, <2>2, <2>3, ControlAppend
  <2> HIDE DEF len
  <2>8. room - len = ControlOverdraft - ControlBytesOf(owner')
    BY <2>4, <2>6, <2>7
  <2>9. AllowanceKnown'
    BY <1>1, <2>1, <2>4, <2>5, <2>6, <2>7 DEF AllowanceKnown, len
  <2>10. Budgeted(Tail(w.todo), ControlOverdraft - ControlBytesOf(owner'))
    BY <2>6, <2>8
  <2> QED
    BY <2>1, <2>9, <2>10 DEF AllowanceKept
<1>4. CASE Sync
  <2>1. /\ w'.pc = "index" /\ w'.todo = w.todo /\ owner' = owner /\ w.pc = "sync"
        /\ w'.control = w.control + ControlLen(Head(w.todo))
    BY <1>1, <1>4 DEF Sync, Fields, ControlLen
  <2> QED
    BY <2>1 DEF BudgetInv, AllowanceKnown, AllowanceKept
<1>5. CASE WriteFails
  <2>1. w'.pc = "idle" /\ w'.poisoned = w.poisoned /\ w'.control = w.control /\ owner' = owner
    BY <1>1, <1>5 DEF WriteFails, Fields
  <2>2. w.poisoned
    BY <1>5 DEF BudgetInv, LogInv, WriterInv, WriteFails
  <2> QED
    BY <1>1, <2>1, <2>2, BudgetRests
<1>6. CASE IndexFrame
  <2>1. PICK ok \in BOOLEAN :
          w' = [w EXCEPT !.pc = IF Len(w.todo) = 1 THEN "idle" ELSE "write",
                         !.todo = Tail(w.todo), !.written = @ + 1, !.index = ok,
                         !.line = IF Len(w.todo) = 1 THEN 0 ELSE @,
                         !.sealed = Head(w.todo).outcome # None]
    BY <1>6 DEF IndexFrame
  <2>2. /\ w'.pc \in {"idle", "write"} /\ w'.todo = Tail(w.todo) /\ w'.control = w.control
        /\ owner' = owner /\ w.pc = "index"
    BY <1>1, <1>6, <2>1 DEF IndexFrame, Fields
  <2> QED
    BY <2>2 DEF BudgetInv, AllowanceKnown, AllowanceKept
<1> QED
  BY <1>2, <1>3, <1>4, <1>5, <1>6 DEF WriterStep

(* No step overdraws: a reopened log counts again what it has spent.        *)
LEMMA BudgetStep == BudgetInv /\ [Next]_logVars => BudgetInv'
<1> SUFFICES ASSUME BudgetInv, [Next]_logVars PROVE AllowanceKnown' /\ AllowanceKept'
  BY LogStep DEF BudgetInv
<1>1. CASE Open
  <2>1. PICK idx \in BOOLEAN : w' = IF ScanFails THEN w ELSE Recovered(idx)
    BY <1>1 DEF Open
  <2>2. owner' = owner /\ w.pc = "closed"
    BY <1>1 DEF Open
  <2>3. CASE ScanFails
    BY <2>1, <2>2, <2>3, BudgetRests
  <2>4. CASE ~ScanFails
    <3>1. w' = Recovered(idx)
      BY <2>1, <2>4
    <3>2. w'.pc = "idle" /\ w'.control = ControlBytesOf(owner)
      BY <3>1 DEF Recovered
    <3> QED
      BY <2>2, <3>2, BudgetRests DEF BudgetInv, AllowanceKnown
  <2> QED
    BY <2>3, <2>4
<1>2. CASE Drop
  <2>1. owner' = owner /\ w'.pc = "closed"
    BY <1>2 DEF Drop, Closed, disk
  <2> QED
    BY <2>1, BudgetRests
<1>3. CASE Crash
  <2>1. PICK kept \in synced..Len(owner) : owner' = SubSeq(owner, 1, kept)
    BY <1>3 DEF Crash
  <2>2. owner \in Seq(Frames) /\ kept \in 0..Len(owner)
    BY <2>1 DEF BudgetInv, LogInv, OwnerInv
  <2>3. /\ ControlBytesOf(owner) \in Nat /\ ControlBytesOf(owner') \in Nat
        /\ ControlBytesOf(owner') <= ControlBytesOf(owner)
    BY <2>1, <2>2, ControlCut
  <2>4. w'.pc = "closed"
    BY <1>3 DEF Crash, Closed
  <2>5. ControlOverdraft \in Nat /\ ControlBytesOf(owner) <= ControlOverdraft
    BY LogAssumption DEF BudgetInv, AllowanceKnown
  <2> QED
    BY <2>3, <2>4, <2>5 DEF AllowanceKnown, AllowanceKept
<1>4. CASE ReaderStep \/ UNCHANGED logVars
  <2>1. owner' = owner /\ w' = w
    BY <1>4 DEF ReaderStep, ReadPage, ReadProvenance, ScanSnapshot, ReadSnapshot, Confirm,
       ConfirmFails, disk, logVars
  <2> QED
    BY <2>1 DEF BudgetInv, AllowanceKnown, AllowanceKept
<1> QED
  BY <1>1, <1>2, <1>3, <1>4, BudgetAppends, BudgetFrames DEF Next

(* The control lines of a log never take more than CONTROL_OVERDRAFT_BYTES, *)
(* over any number of writers, crashes and reopenings: scan_owner_blocking  *)
(* counts again what earlier writers spent, and a line is blocked before it *)
(* would exceed the rest.                                                   *)
THEOREM AllowanceIsBounded == Spec => []ControlIsBounded
<1>1. BudgetInv => ControlIsBounded
  BY DEF BudgetInv, AllowanceKnown, ControlIsBounded
<1> QED
  BY <1>1, InitBudget, BudgetStep, PTL DEF Spec

---------------------------------------------------------------------------
(* Acknowledged lines (WrittenIsDurable).                                   *)

(* The stream b ends with the first d bytes of line n, and has no others.   *)
Partly(n, d, b) ==
  /\ d \in 0..Len(b)
  /\ \A k \in 1..d : b[(Len(b) - d) + k] = <<n, k>>
  /\ \A k \in 1..Len(b) : b[k][1] = n => k > Len(b) - d

(* No byte of the stream is of a line that was not handed over.             *)
HandedOver(b) == \A k \in 1..Len(b) : b[k][1] \in 0..lines

(* Line n is within the first len bytes of the stream.                      *)
Settled(n, b, len) == \E p \in Nat : p + LineBytes[n] <= len /\ WrittenAt(n, p, b)

(* The segments still to be written, once the frame at hand is in the file. *)
Rest == IF w.pc \in {"write", "flush"} THEN w.todo ELSE Tail(w.todo)

(* An append of a line has put the bytes into the file that Rest is without.*)
Underway ==
  \E d \in Nat : \E e \in Nat :
    /\ Pieces(Rest, w.line, d, e)
    /\ w.line # 0 => /\ w.line = lines /\ lines \notin acked /\ e = LineBytes[w.line]
                     /\ Partly(w.line, d, BytesOf(owner))

(* The stream holds nothing but lines handed over, in order, and every      *)
(* acknowledged line is behind the barrier.                                 *)
StreamOK ==
  /\ HandedOver(BytesOf(owner)) /\ InOrder(BytesOf(owner))
  /\ \A n \in acked : Settled(n, BytesOf(owner), Len(BytesOf(Durable)))
(* What is under way, and that a frame is synced before it is indexed.      *)
PendingOK ==
  /\ w.pc \in Busy => Underway
  /\ w.pc = "index" => synced = Len(owner)
(* The inductive invariant behind AcknowledgedIsDurable.                    *)
LinesInv == LogInv /\ StreamOK /\ PendingOK

(* Two sequences of bytes joined.                                           *)
LEMMA Joined ==
  ASSUME NEW b \in Seq(Byte), NEW s \in Seq(Byte)
  PROVE  /\ b \o s \in Seq(Byte) /\ Len(b) \in Nat /\ Len(s) \in Nat
         /\ Len(b \o s) = Len(b) + Len(s)
         /\ \A k \in 1..Len(b) : (b \o s)[k] = b[k]
         /\ \A k \in 1..Len(b \o s) : k > Len(b) => k - Len(b) \in 1..Len(s) /\ (b \o s)[k] = s[k - Len(b)]
<1>1. /\ b \o s \in Seq(Byte) /\ Len(b \o s) = Len(b) + Len(s)
      /\ \A i \in 1..(Len(b) + Len(s)) :
           (b \o s)[i] = IF i <= Len(b) THEN b[i] ELSE s[i - Len(b)]
  BY ConcatProperties
<1>2. Len(b) \in Nat /\ Len(s) \in Nat
  OBVIOUS
<1> QED
  BY <1>1, <1>2

(* The parts of a byte.                                                     *)
LEMMA ByteType ==
  ASSUME NEW b \in Seq(Byte), NEW k \in 1..Len(b)
  PROVE  b[k][1] \in Nat
BY DEF Byte

(* The next piece of a line continues the line.                             *)
LEMMA PartlyGrows ==
  ASSUME NEW b \in Seq(Byte), NEW s \in Seq(Byte), NEW n \in Nat, NEW d \in Nat, Partly(n, d, b),
         \A j \in 1..Len(s) : s[j] = <<n, d + j>>
  PROVE  Partly(n, d + Len(s), b \o s)
<1> DEFINE c == b \o s
           e == d + Len(s)
<1>1. /\ c \in Seq(Byte) /\ Len(b) \in Nat /\ Len(s) \in Nat /\ Len(c) = Len(b) + Len(s)
      /\ \A k \in 1..Len(b) : c[k] = b[k]
      /\ \A k \in 1..Len(c) : k > Len(b) => k - Len(b) \in 1..Len(s) /\ c[k] = s[k - Len(b)]
  BY Joined
<1> HIDE DEF c
<1>2. /\ d \in 0..Len(b)
      /\ \A k \in 1..d : b[(Len(b) - d) + k] = <<n, k>>
      /\ \A k \in 1..Len(b) : b[k][1] = n => k > Len(b) - d
  BY DEF Partly
<1>3. e \in 0..Len(c) /\ Len(c) - e = Len(b) - d
  BY <1>1, <1>2
<1>4. ASSUME NEW k \in 1..e PROVE c[(Len(c) - e) + k] = <<n, k>>
  <2> DEFINE x == (Len(b) - d) + k
  <2>1. x \in 1..Len(c) /\ (Len(c) - e) + k = x
    BY <1>1, <1>2, <1>3
  <2>2. CASE k <= d
    <3>1. k \in 1..d /\ x \in 1..Len(b)
      BY <1>1, <1>2, <2>2
    <3> QED
      BY <1>1, <1>2, <2>1, <3>1
  <2>3. CASE k > d
    <3>1. x > Len(b) /\ x - Len(b) = k - d /\ d + (k - d) = k
      BY <1>1, <1>2, <2>3
    <3>2. k - d \in 1..Len(s) /\ c[x] = s[k - d]
      BY <1>1, <2>1, <3>1
    <3> QED
      BY <2>1, <3>1, <3>2
  <2> QED
    BY <2>2, <2>3, <1>2
<1>5. ASSUME NEW k \in 1..Len(c), c[k][1] = n PROVE k > Len(c) - e
  <2>1. CASE k <= Len(b)
    <3>1. k \in 1..Len(b) /\ c[k] = b[k]
      BY <1>1, <2>1
    <3> QED
      BY <1>2, <1>3, <1>5, <3>1
  <2>2. CASE k > Len(b)
    BY <1>1, <1>2, <1>3, <2>2
  <2> QED
    BY <1>1, <2>1, <2>2
<1> HIDE DEF e
<1>6. Partly(n, e, c)
  BY <1>3, <1>4, <1>5 DEF Partly
<1> QED
  BY <1>6 DEF c, e

(* Bytes of the newest line keep the order.                                 *)
LEMMA OrderGrows ==
  ASSUME NEW b \in Seq(Byte), NEW s \in Seq(Byte), NEW n \in Nat, InOrder(b),
         n # 0 => \A k \in 1..Len(b) : b[k][1] <= n,
         \A j \in 1..Len(s) : s[j][1] = n
  PROVE  InOrder(b \o s)
<1> DEFINE c == b \o s
<1>1. /\ c \in Seq(Byte) /\ Len(b) \in Nat /\ Len(s) \in Nat /\ Len(c) = Len(b) + Len(s)
      /\ \A k \in 1..Len(b) : c[k] = b[k]
      /\ \A k \in 1..Len(c) : k > Len(b) => k - Len(b) \in 1..Len(s) /\ c[k] = s[k - Len(b)]
  BY Joined
<1> HIDE DEF c
<1>2. SUFFICES ASSUME NEW k \in 1..Len(c), NEW l \in 1..Len(c), k < l, c[k][1] # 0, c[l][1] # 0
               PROVE  c[k][1] <= c[l][1]
  BY DEF InOrder, c
<1>3. CASE l <= Len(b)
  <2>1. k \in 1..Len(b) /\ l \in 1..Len(b)
    BY <1>1, <1>2, <1>3
  <2> QED
    BY <1>1, <1>2, <2>1 DEF InOrder
<1>4. CASE l > Len(b)
  <2>1. c[l][1] = n
    BY <1>1, <1>4
  <2>2. CASE k > Len(b)
    <3>1. c[k][1] = n
      BY <1>1, <2>2
    <3> QED
      BY <2>1, <3>1
  <2>3. CASE k <= Len(b)
    <3>1. k \in 1..Len(b)
      BY <1>1, <2>3
    <3> QED
      BY <1>1, <1>2, <2>1, <3>1
  <2> QED
    BY <1>1, <2>2, <2>3
<1> QED
  BY <1>1, <1>3, <1>4

(* A line that is written stays written when other bytes follow.            *)
LEMMA WrittenStays ==
  ASSUME NEW b \in Seq(Byte), NEW s \in Seq(Byte), NEW m \in 1..Lines, NEW p \in Nat,
         WrittenAt(m, p, b), \A j \in 1..Len(s) : s[j][1] # m
  PROVE  WrittenAt(m, p, b \o s)
<1> DEFINE c == b \o s
           L == LineBytes[m]
<1>1. /\ c \in Seq(Byte) /\ Len(b) \in Nat /\ Len(s) \in Nat /\ Len(c) = Len(b) + Len(s)
      /\ \A k \in 1..Len(b) : c[k] = b[k]
      /\ \A k \in 1..Len(c) : k > Len(b) => k - Len(b) \in 1..Len(s) /\ c[k] = s[k - Len(b)]
  BY Joined
<1>2. L \in Nat
  BY LogAssumption
<1>3. /\ p + L <= Len(b) /\ \A k \in 1..L : b[p + k] = <<m, k>>
      /\ \A k \in 1..Len(b) : b[k][1] = m => k \in (p + 1)..(p + L)
  BY DEF WrittenAt
<1> HIDE DEF c, L
<1>4. p + L <= Len(c)
  BY <1>1, <1>2, <1>3
<1>5. ASSUME NEW k \in 1..L PROVE c[p + k] = <<m, k>>
  <2>1. p + k \in 1..Len(b)
    BY <1>1, <1>2, <1>3
  <2> QED
    BY <1>1, <1>3, <2>1
<1>6. ASSUME NEW k \in 1..Len(c), c[k][1] = m PROVE k \in (p + 1)..(p + L)
  <2>1. ~(k > Len(b))
    BY <1>1, <1>6
  <2>2. k \in 1..Len(b)
    BY <1>1, <2>1
  <2> QED
    BY <1>1, <1>3, <1>6, <2>2
<1> QED
  BY <1>4, <1>5, <1>6 DEF WrittenAt, c, L

(* What a shorter stream keeps of a longer one that it begins.              *)
LEMMA StreamCut ==
  ASSUME NEW b \in Seq(Byte), NEW c \in Seq(Byte), Begins(c, b)
  PROVE  /\ HandedOver(b) => HandedOver(c)
         /\ InOrder(b) => InOrder(c)
         /\ \A m \in 1..Lines : \A p \in Nat :
              WrittenAt(m, p, b) /\ p + LineBytes[m] <= Len(c) => WrittenAt(m, p, c)
<1>1. /\ Len(b) \in Nat /\ Len(c) \in Nat /\ Len(c) <= Len(b)
      /\ \A k \in 1..Len(c) : c[k] = b[k] /\ k \in 1..Len(b)
  BY DEF Begins
<1>2. HandedOver(b) => HandedOver(c)
  BY <1>1 DEF HandedOver
<1>3. InOrder(b) => InOrder(c)
  BY <1>1 DEF InOrder
<1>4. ASSUME NEW m \in 1..Lines, NEW p \in Nat, WrittenAt(m, p, b), p + LineBytes[m] <= Len(c)
      PROVE  WrittenAt(m, p, c)
  <2> DEFINE L == LineBytes[m]
  <2>1. L \in Nat
    BY LogAssumption
  <2>2. /\ \A k \in 1..L : b[p + k] = <<m, k>>
        /\ \A k \in 1..Len(b) : b[k][1] = m => k \in (p + 1)..(p + L)
    BY <1>4 DEF WrittenAt
  <2>3. p + L <= Len(c)
    BY <1>4
  <2> HIDE DEF L
  <2>4. \A k \in 1..L : p + k \in 1..Len(c)
    BY <1>1, <2>1, <2>3
  <2> QED
    BY <1>1, <2>2, <2>3, <2>4 DEF WrittenAt, L
<1> QED
  BY <1>2, <1>3, <1>4

(* After the last piece of a line the whole line is written.                *)
LEMMA NothingLeft ==
  ASSUME NEW n, NEW d, NEW e \in Nat, Pieces(<<>>, n, d, e)
  PROVE  d = e
<1>1. Len(<<>>) + 1 = 1
  OBVIOUS
<1> QED
  BY <1>1 DEF Pieces, Cut

(* A line that ends the stream in full is written.                          *)
LEMMA PartlyAll ==
  ASSUME NEW b \in Seq(Byte), NEW m \in 1..Lines, Partly(m, LineBytes[m], b)
  PROVE  Settled(m, b, Len(b))
<1> DEFINE L == LineBytes[m]
           p == Len(b) - L
<1>1. L \in Nat /\ Len(b) \in Nat
  BY LogAssumption
<1>2. /\ L \in 0..Len(b) /\ \A k \in 1..L : b[(Len(b) - L) + k] = <<m, k>>
      /\ \A k \in 1..Len(b) : b[k][1] = m => k > Len(b) - L
  BY DEF Partly
<1> HIDE DEF L
<1>3. p \in Nat /\ p + L = Len(b)
  BY <1>1, <1>2
<1>4. \A k \in 1..Len(b) : b[k][1] = m => k \in (p + 1)..(p + L)
  BY <1>1, <1>2, <1>3
<1>5. WrittenAt(m, p, b) /\ p + L <= Len(b)
  BY <1>1, <1>2, <1>3, <1>4 DEF WrittenAt, L
<1> HIDE DEF p
<1> QED
  BY <1>3, <1>5 DEF Settled, L

(* What is behind the barrier is the beginning of the stream.               *)
LEMMA DurableBytes ==
  ASSUME OwnerInv
  PROVE  /\ BytesOf(owner) \in Seq(Byte) /\ BytesOf(Durable) \in Seq(Byte)
         /\ Begins(BytesOf(Durable), BytesOf(owner))
         /\ Len(BytesOf(Durable)) \in Nat /\ Len(BytesOf(owner)) \in Nat
         /\ Len(BytesOf(Durable)) <= Len(BytesOf(owner))
<1>1. /\ BytesOf(owner) \in Seq(Byte) /\ BytesOf(Durable) \in Seq(Byte)
      /\ Begins(BytesOf(Durable), BytesOf(owner))
  BY BytesCut DEF OwnerInv, Durable
<1> QED
  BY <1>1 DEF Begins

(* Acknowledged lines are lines of the producer.                            *)
LEMMA Acknowledged ==
  ASSUME LogInv
  PROVE  lines \in Nat /\ lines \in 0..Lines /\ acked \subseteq 1..lines /\ acked \subseteq 1..Lines
BY LogAssumption DEF LogInv, RestInv

(* The stream stays, and its barrier stays or moves to its end.             *)
LEMMA StreamStays ==
  ASSUME LinesInv, owner' = owner, acked' = acked, lines' \in {lines, lines + 1},
         synced' \in {synced, Len(owner)}
  PROVE  StreamOK'
<1> DEFINE b == BytesOf(owner)
<1>1. b \in Seq(Byte) /\ Len(b) \in Nat /\ Len(BytesOf(Durable)) <= Len(b) /\ Len(BytesOf(Durable)) \in Nat
  BY DurableBytes DEF LinesInv, LogInv
<1>2. lines \in Nat /\ acked \subseteq 1..Lines
  BY Acknowledged DEF LinesInv
<1>3. b' = b
  OBVIOUS
<1>4. Len(BytesOf(Durable)) <= Len(BytesOf(Durable')) /\ Len(BytesOf(Durable')) \in Nat
  <2>1. CASE synced' = synced
    <3>1. Durable' = Durable
      BY <2>1 DEF Durable
    <3> QED
      BY <1>1, <3>1
  <2>2. CASE synced' = Len(owner)
    <3>1. Durable' = owner
      <4>1. Durable' = SubSeq(owner, 1, Len(owner))
        BY <2>2 DEF Durable
      <4>2. owner \in Seq(Frames)
        BY DEF LinesInv, LogInv, OwnerInv
      <4> QED
        BY <4>1, <4>2
    <3> QED
      BY <1>1, <3>1
  <2> QED
    BY <2>1, <2>2
<1>5. HandedOver(b)'
  BY <1>2, <1>3 DEF LinesInv, StreamOK, HandedOver
<1>6. InOrder(b)'
  BY <1>3 DEF LinesInv, StreamOK
<1>7. ASSUME NEW n \in acked PROVE Settled(n, b, Len(BytesOf(Durable')))
  <2>1. PICK p \in Nat : p + LineBytes[n] <= Len(BytesOf(Durable)) /\ WrittenAt(n, p, b)
    BY DEF LinesInv, StreamOK, Settled
  <2>2. LineBytes[n] \in Nat
    BY <1>2, LogAssumption
  <2>3. p + LineBytes[n] <= Len(BytesOf(Durable'))
    BY <1>1, <1>4, <2>1, <2>2
  <2> QED
    BY <2>1, <2>3 DEF Settled
<1> QED
  BY <1>3, <1>5, <1>6, <1>7 DEF StreamOK

(* Steps that leave no append under way.                                    *)
LEMMA LinesRest ==
  ASSUME LinesInv, owner' = owner, acked' = acked, lines' \in {lines, lines + 1},
         synced' \in {synced, Len(owner)}, w'.pc \in {"closed", "idle"}
  PROVE  StreamOK' /\ PendingOK'
BY StreamStays DEF PendingOK, Busy

(* An append begins with the whole line still to be written.                *)
LEMMA LinesBegin ==
  ASSUME LinesInv, owner' = owner, acked' = acked, lines' \in {lines, lines + 1}, synced' = synced,
         w'.pc = "write", Pieces(w'.todo, w'.line, 0, IF w'.line = 0 THEN ControlBytes ELSE LineBytes[w'.line])
         \/ (w'.line = 0 /\ Pieces(w'.todo, 0, 0, 0)),
         w'.line # 0 => w'.line = lines' /\ lines' = lines + 1 /\ lines' \in 1..Lines
  PROVE  StreamOK' /\ PendingOK'
<1>1. StreamOK'
  BY StreamStays
<1>2. /\ BytesOf(owner) \in Seq(Byte) /\ lines \in Nat /\ acked \subseteq 1..lines
      /\ HandedOver(BytesOf(owner))
  BY DurableBytes, Acknowledged DEF LinesInv, LogInv, StreamOK
<1>3. ControlBytes \in Nat /\ 0 \in Nat
  BY LogAssumption
<1>4. Rest' = w'.todo
  BY DEF Rest
<1>5. ASSUME w'.line = 0 PROVE Underway'
  <2>1. \E e \in Nat : Pieces(w'.todo, 0, 0, e)
    BY <1>3, <1>5
  <2> QED
    BY <1>3, <1>4, <1>5, <2>1 DEF Underway
<1>6. ASSUME w'.line # 0 PROVE Underway'
  <2>1. w'.line = lines' /\ lines' = lines + 1 /\ LineBytes[w'.line] \in Nat
    BY <1>6, LogAssumption
  <2>2. lines' \notin acked'
    BY <1>2, <2>1
  <2>3. Partly(w'.line, 0, BytesOf(owner'))
    BY <1>2, <2>1 DEF Partly, HandedOver
  <2>4. Pieces(w'.todo, w'.line, 0, LineBytes[w'.line])
    BY <1>6
  <2> QED
    BY <1>4, <2>1, <2>2, <2>3, <2>4, <1>3 DEF Underway
<1>7. Underway'
  BY <1>5, <1>6
<1> QED
  BY <1>1, <1>7 DEF PendingOK

(* Every way to begin an append.                                            *)
LEMMA LinesAppends ==
  ASSUME LinesInv,
         \/ AppendLine \/ AppendRefused \/ AppendControl
         \/ \E outcome \in {"complete", "unavailable"} : Finish(outcome)
  PROVE  StreamOK' /\ PendingOK'
<1>1. Writable /\ owner' = owner /\ synced' = synced /\ acked' = acked
  BY DEF AppendLine, AppendRefused, AppendControl, Finish, disk
<1>2. DOMAIN w = Fields /\ w.pc = "idle"
  BY <1>1 DEF LinesInv, LogInv, WriterType, Writable
<1>3. lines \in Nat
  BY Acknowledged DEF LinesInv
<1>c. Pieces(ControlSegments, 0, 0, ControlBytes)
  BY LogAssumption, SegmentsPieces DEF ControlSegments
<1>4. CASE AppendLine
  <2> DEFINE n == lines + 1
             todo == Segments(Bytes(n, LineBytes[n]), FALSE)
  <2>1. n \in Nat /\ n \in 1..Lines /\ LineBytes[n] \in Nat \ {0} /\ lines' = n /\ n # 0
    BY <1>3, <1>4, LogAssumption DEF AppendLine
  <2>2. w' = [w EXCEPT !.pc = "write", !.todo = todo, !.line = n]
    BY <1>4 DEF AppendLine, Begin
  <2>3. Pieces(todo, n, 0, LineBytes[n])
    <3> HIDE DEF n
    <3> QED
      BY <2>1, SegmentsPieces, Zenon
  <2> HIDE DEF todo, n
  <2>4. w'.pc = "write" /\ w'.todo = todo /\ w'.line = n
    BY <1>2, <2>2 DEF Fields
  <2>5. lines' = lines + 1
    BY <2>1 DEF n
  <2> QED
    BY <1>1, <2>1, <2>3, <2>4, <2>5, LinesBegin
<1>5. CASE AppendControl
  <2>1. w' = [w EXCEPT !.pc = "write", !.todo = ControlSegments, !.line = 0] /\ lines' = lines
    BY <1>5 DEF AppendControl, Begin
  <2>2. w'.pc = "write" /\ w'.todo = ControlSegments /\ w'.line = 0
    BY <1>2, <2>1 DEF Fields
  <2> QED
    BY <1>1, <1>c, <2>1, <2>2, LinesBegin
<1>6. CASE AppendRefused
  <2>0. lines' = lines + 1
    BY <1>6 DEF AppendRefused
  <2>1. CASE w' = [w EXCEPT !.pc = "write", !.todo = ControlSegments, !.line = 0, !.marker = TRUE]
    <3>1. w'.pc = "write" /\ w'.todo = ControlSegments /\ w'.line = 0
      BY <1>2, <2>1 DEF Fields
    <3> QED
      BY <1>1, <1>c, <2>0, <3>1, LinesBegin
  <2>2. CASE w' = [w EXCEPT !.marker = TRUE]
    <3>1. w'.pc = "idle"
      BY <1>2, <2>2 DEF Fields
    <3> QED
      BY <1>1, <2>0, <3>1, LinesRest
  <2> QED
    BY <1>6, <2>1, <2>2 DEF AppendRefused
<1>7. ASSUME NEW outcome \in {"complete", "unavailable"}, Finish(outcome)
      PROVE  StreamOK' /\ PendingOK'
  <2> DEFINE todo == Seal(outcome)
  <2>1. w' = [w EXCEPT !.pc = "write", !.todo = todo, !.line = 0] /\ lines' = lines
    BY <1>7 DEF Finish, Begin
  <2>2. Pieces(todo, 0, 0, 0)
    BY SealPieces
  <2> HIDE DEF todo
  <2>3. w'.pc = "write" /\ w'.todo = todo /\ w'.line = 0
    BY <1>2, <2>1 DEF Fields
  <2> QED
    BY <1>1, <2>1, <2>2, <2>3, LinesBegin
<1> QED
  BY <1>4, <1>5, <1>6, <1>7

(* A frame that reaches the file continues its line.                        *)
LEMMA LinesFlush ==
  ASSUME LinesInv, Flush
  PROVE  StreamOK' /\ PendingOK'
<1> DEFINE f == Frame(Head(w.todo))
           b == BytesOf(owner)
           s == Head(w.todo).body
           n == w.line
<1>1. /\ w.pc = "flush" /\ w.todo \in Todo /\ DOMAIN w = Fields /\ w.offset \in Nat
      /\ w.line \in 0..lines /\ owner \in Seq(Frames)
  BY DEF LinesInv, LogInv, OwnerInv, WriterType, Flush, Busy
<1>2. /\ w'.pc = "sync" /\ w'.todo = w.todo /\ w'.line = w.line /\ owner' = Append(owner, f)
      /\ synced' = synced /\ lines' = lines /\ acked' = acked
  BY <1>1 DEF Flush, Fields
<1>3. f \in Frames /\ f.body = s
  BY <1>1, HeadOfTodo DEF Frame, Frames, Segment
<1>4. /\ lines \in Nat /\ acked \subseteq 1..lines /\ acked \subseteq 1..Lines /\ b \in Seq(Byte)
      /\ Len(b) \in Nat /\ n \in Nat
  BY <1>1, Acknowledged, DurableBytes DEF LinesInv, LogInv
<1> HIDE DEF f
<1>5. BytesOf(owner') = b \o s
  BY <1>1, <1>2, <1>3, BytesAppend
<1>6. Durable' = Durable
  <2>1. LogInv' /\ [Evidence!Grow]_Durable
    BY LogStep DEF LinesInv, Next, WriterStep
  <2>2. f.start = EndOf(owner) /\ Outcome(owner) = None
    BY <1>1 DEF f, Frame, LinesInv, LogInv, WriterInv
  <2> QED
    BY <1>2, <1>3, <2>2, AppendOwner DEF LinesInv, LogInv
<1>7. PICK d \in Nat, e \in Nat :
        /\ Pieces(w.todo, n, d, e)
        /\ n # 0 => n = lines /\ lines \notin acked /\ e = LineBytes[n] /\ Partly(n, d, b)
  BY <1>1 DEF LinesInv, PendingOK, Underway, Rest, Busy
<1>8. /\ s \in Seq(Byte) /\ Len(s) \in Nat /\ \A j \in 1..Len(s) : s[j] = <<n, d + j>>
      /\ Pieces(Tail(w.todo), n, d + Len(s), e) /\ d + Len(s) \in Nat
  <2>1. /\ s \in Seq(Byte) /\ \A j \in 1..Len(s) : s[j] = <<n, d + j>>
        /\ Pieces(Tail(w.todo), n, d + Len(s), e) /\ d + Len(s) \in 0..e
    <3> DEFINE t == w.todo
    <3>1. t \in Todo /\ Pieces(t, n, d, e)
      BY <1>1, <1>7
    <3> HIDE DEF n, t
    <3>2. /\ d + Len(Head(t).body) \in 0..e /\ Head(t).body \in Seq(Byte)
          /\ \A j \in 1..Len(Head(t).body) : Head(t).body[j] = <<n, d + j>>
          /\ Pieces(Tail(t), n, d + Len(Head(t).body), e)
      BY <3>1, PiecesTail
    <3> QED
      BY <3>2 DEF t
  <2>2. Len(s) \in Nat
    BY <2>1
  <2>3. d + Len(s) \in Nat
    BY <2>2
  <2> QED
    BY <2>1, <2>2, <2>3, Zenon
<1> HIDE DEF b, s, n
<1>9. \A j \in 1..Len(s) : s[j][1] = n
  BY <1>8
<1>10. HandedOver(b) /\ InOrder(b) /\ \A m \in acked : Settled(m, b, Len(BytesOf(Durable)))
  BY DEF LinesInv, StreamOK, b
<1>11. /\ b \o s \in Seq(Byte) /\ Len(b \o s) = Len(b) + Len(s)
       /\ \A k \in 1..Len(b) : (b \o s)[k] = b[k]
       /\ \A k \in 1..Len(b \o s) : k > Len(b) => k - Len(b) \in 1..Len(s) /\ (b \o s)[k] = s[k - Len(b)]
  BY <1>4, <1>8, Joined
<1>12. n \in 0..lines
  BY <1>1 DEF n
<1>13. HandedOver(b \o s)
  <2> SUFFICES ASSUME NEW k \in 1..Len(b \o s) PROVE (b \o s)[k][1] \in 0..lines
    BY DEF HandedOver
  <2>1. CASE k > Len(b)
    BY <1>9, <1>11, <1>12, <2>1
  <2>2. CASE k <= Len(b)
    <3>1. k \in 1..Len(b)
      BY <1>4, <2>2
    <3> QED
      BY <1>10, <1>11, <3>1 DEF HandedOver
  <2> QED
    BY <1>4, <1>8, <1>11, <2>1, <2>2
<1>14. InOrder(b \o s)
  <2>1. n # 0 => \A k \in 1..Len(b) : b[k][1] <= n
    BY <1>4, <1>7, <1>10 DEF HandedOver
  <2> QED
    BY <1>4, <1>8, <1>9, <1>10, <2>1, OrderGrows
<1>15. ASSUME NEW m \in acked PROVE Settled(m, b \o s, Len(BytesOf(Durable)))
  <2>1. PICK p \in Nat : p + LineBytes[m] <= Len(BytesOf(Durable)) /\ WrittenAt(m, p, b)
    BY <1>10 DEF Settled
  <2>2. m \in 1..Lines /\ m # n
    BY <1>4, <1>7
  <2>3. WrittenAt(m, p, b \o s)
    BY <1>4, <1>8, <1>9, <2>1, <2>2, WrittenStays
  <2> QED
    BY <2>1, <2>3 DEF Settled
<1>16. n # 0 => Partly(n, d + Len(s), b \o s)
  BY <1>4, <1>7, <1>8, PartlyGrows
<1>17. StreamOK'
  BY <1>2, <1>5, <1>6, <1>13, <1>14, <1>15 DEF StreamOK, HandedOver
<1>18. Underway'
  <2>1. Rest' = Tail(w.todo)
    BY <1>2 DEF Rest
  <2>2. w'.line = n
    BY <1>2 DEF n
  <2>3. n # 0 => n = lines' /\ lines' \notin acked' /\ e = LineBytes[n] /\ Partly(n, d + Len(s), BytesOf(owner'))
    BY <1>2, <1>5, <1>7, <1>16
  <2> QED
    BY <1>8, <2>1, <2>2, <2>3 DEF Underway
<1> QED
  BY <1>2, <1>17, <1>18 DEF PendingOK

(* The last frame of a line acknowledges it, with the file synced.          *)
LEMMA LinesIndexed ==
  ASSUME LinesInv, IndexFrame
  PROVE  StreamOK' /\ PendingOK'
<1> DEFINE b == BytesOf(owner)
           n == w.line
<1>1. /\ w.pc = "index" /\ w.todo \in Todo /\ DOMAIN w = Fields /\ n \in 0..lines
      /\ synced = Len(owner) /\ OwnerInv /\ lines \in Nat /\ lines \in 0..Lines
  BY Acknowledged DEF LinesInv, LogInv, PendingOK, WriterType, IndexFrame, Busy
<1>2. /\ owner' = owner /\ synced' = synced /\ lines' = lines
      /\ acked' = IF Len(w.todo) = 1 /\ n # 0 THEN acked \cup {n} ELSE acked
  BY DEF IndexFrame
<1>3. PICK ok \in BOOLEAN :
        w' = [w EXCEPT !.pc = IF Len(w.todo) = 1 THEN "idle" ELSE "write",
                       !.todo = Tail(w.todo), !.written = @ + 1, !.index = ok,
                       !.line = IF Len(w.todo) = 1 THEN 0 ELSE @,
                       !.sealed = Head(w.todo).outcome # None]
  BY DEF IndexFrame
<1>4. /\ w'.pc = (IF Len(w.todo) = 1 THEN "idle" ELSE "write")
      /\ w'.todo = Tail(w.todo) /\ w'.line = (IF Len(w.todo) = 1 THEN 0 ELSE n)
  BY <1>1, <1>3 DEF Fields
<1>5. PICK d \in Nat, e \in Nat :
        /\ Pieces(Tail(w.todo), n, d, e)
        /\ n # 0 => n = lines /\ lines \notin acked /\ e = LineBytes[n] /\ Partly(n, d, b)
  BY <1>1 DEF LinesInv, PendingOK, Underway, Rest, Busy
<1>6. Durable' = Durable /\ Durable = owner
  BY <1>1, <1>2, AllIsDurable DEF Durable
<1>7. b \in Seq(Byte) /\ HandedOver(b) /\ InOrder(b) /\ \A m \in acked : Settled(m, b, Len(b))
  BY <1>1, <1>6, DurableBytes DEF LinesInv, StreamOK
<1>8. CASE Len(w.todo) = 1
  <2>1. Tail(w.todo) = <<>>
    <3>1. w.todo \in Seq(Segment) /\ w.todo # <<>>
      BY <1>1, HeadOfTodo
    <3>2. Tail(w.todo) \in Seq(Segment) /\ Len(Tail(w.todo)) = Len(w.todo) - 1
      BY <3>1, HeadTailProperties
    <3>3. Len(Tail(w.todo)) = 0
      BY <1>8, <3>2
    <3> QED
      BY <3>2, <3>3, EmptySeq
  <2>2. d = e
    BY <1>5, <2>1, NothingLeft
  <2>3. n # 0 => Settled(n, b, Len(b))
    <3> SUFFICES ASSUME n # 0 PROVE Settled(n, b, Len(b))
      OBVIOUS
    <3>1. n \in 1..Lines /\ Partly(n, LineBytes[n], b)
      BY <1>1, <1>5, <2>2
    <3> HIDE DEF n, b
    <3> QED
      BY <1>7, <3>1, PartlyAll
  <2>4. \A m \in acked' : Settled(m, b, Len(b))
    BY <1>2, <1>7, <2>3
  <2>5. StreamOK'
    BY <1>2, <1>6, <1>7, <2>4 DEF StreamOK, HandedOver
  <2> QED
    BY <1>4, <1>8, <2>5 DEF PendingOK, Busy
<1>9. CASE Len(w.todo) # 1
  <2>1. acked' = acked /\ w'.pc = "write" /\ w'.line = n
    BY <1>2, <1>4, <1>9
  <2>2. StreamOK'
    BY <1>2, <2>1, StreamStays
  <2>3. Rest' = Tail(w.todo)
    BY <1>4, <2>1 DEF Rest
  <2>4. Underway'
    BY <1>2, <1>5, <2>1, <2>3 DEF Underway
  <2> QED
    BY <2>1, <2>2, <2>4 DEF PendingOK
<1> QED
  BY <1>8, <1>9

(* The steps of write_segment.                                              *)
LEMMA LinesFrames ==
  ASSUME LinesInv, WriterStep
  PROVE  StreamOK' /\ PendingOK'
<1>1. w.pc \in Busy /\ DOMAIN w = Fields /\ w.todo \in Todo
  BY DEF LinesInv, LogInv, WriterType, WriterStep, WriteBytes, Flush, Sync,
     WriteFails, IndexFrame, Busy
<1>2. CASE WriteBytes \/ Sync
  <2>1. /\ w'.todo = w.todo /\ w'.line = w.line /\ owner' = owner /\ acked' = acked /\ lines' = lines
        /\ \/ w.pc = "write" /\ w'.pc = "flush" /\ synced' = synced
           \/ w.pc = "sync" /\ w'.pc = "index" /\ synced' = Len(owner)
    BY <1>1, <1>2 DEF WriteBytes, Sync, Fields
  <2>2. StreamOK'
    BY <2>1, StreamStays
  <2>3. Rest' = Rest
    BY <2>1 DEF Rest
  <2>4. Underway'
    BY <1>1, <2>1, <2>3 DEF LinesInv, PendingOK, Underway
  <2> QED
    BY <2>1, <2>2, <2>4 DEF PendingOK
<1>3. CASE WriteFails
  <2>1. w'.pc = "idle" /\ owner' = owner /\ acked' = acked /\ lines' = lines /\ synced' = synced
    BY <1>1, <1>3 DEF WriteFails, Fields
  <2> QED
    BY <2>1, LinesRest
<1> QED
  BY <1>2, <1>3, LinesFlush, LinesIndexed DEF WriterStep

(* A crash cuts the stream behind the barrier, and no acknowledged line is  *)
(* there.                                                                   *)
LEMMA LinesCrash ==
  ASSUME LinesInv, Crash
  PROVE  StreamOK' /\ PendingOK'
<1>1. PICK kept \in synced..Len(owner) : owner' = SubSeq(owner, 1, kept)
  BY DEF Crash
<1>2. synced' = synced /\ lines' = lines /\ acked' = acked /\ w'.pc = "closed"
  BY DEF Crash, Closed
<1>3. OwnerInv' /\ Durable' = Durable
  BY <1>1, <1>2, CutOwner DEF LinesInv, LogInv
<1>4. owner \in Seq(Frames) /\ kept \in 0..Len(owner)
  BY <1>1 DEF LinesInv, LogInv, OwnerInv
<1> DEFINE b == BytesOf(owner)
           c == BytesOf(owner')
           D == Len(BytesOf(Durable))
<1>5. b \in Seq(Byte) /\ c \in Seq(Byte) /\ Begins(c, b)
  BY <1>1, <1>4, BytesCut
<1>6. D \in Nat /\ D <= Len(c) /\ Len(c) \in Nat
  <2>1. owner' \in Seq(Frames) /\ synced' \in 0..Len(owner') /\ Durable' = SubSeq(owner', 1, synced')
    BY <1>3 DEF OwnerInv, Durable
  <2>2. BytesOf(Durable') \in Seq(Byte) /\ Begins(BytesOf(Durable'), c)
    BY <2>1, BytesCut
  <2>3. Len(BytesOf(Durable')) <= Len(c) /\ Len(BytesOf(Durable')) \in Nat /\ Len(c) \in Nat
    BY <1>5, <2>2 DEF Begins
  <2> QED
    BY <1>3, <2>3
<1>7. acked \subseteq 1..Lines
  BY Acknowledged DEF LinesInv
<1>8. HandedOver(b) /\ InOrder(b) /\ \A m \in acked : Settled(m, b, D)
  BY DEF LinesInv, StreamOK
<1> HIDE DEF b, c, D
<1>9. HandedOver(c) /\ InOrder(c)
  BY <1>5, <1>8, StreamCut
<1>10. ASSUME NEW m \in acked PROVE Settled(m, c, D)
  <2>1. PICK p \in Nat : p + LineBytes[m] <= D /\ WrittenAt(m, p, b)
    BY <1>8 DEF Settled
  <2>2. m \in 1..Lines /\ LineBytes[m] \in Nat
    BY <1>7, LogAssumption
  <2>3. p + LineBytes[m] <= Len(c)
    BY <1>6, <2>1, <2>2
  <2>4. WrittenAt(m, p, c)
    BY <1>5, <2>1, <2>2, <2>3, StreamCut
  <2> QED
    BY <2>1, <2>4 DEF Settled
<1>11. StreamOK'
  BY <1>2, <1>3, <1>9, <1>10 DEF StreamOK, HandedOver, c, D
<1> QED
  BY <1>2, <1>11 DEF PendingOK, Busy

(* A new log has no line.                                                   *)
LEMMA InitLines == Init => LinesInv
<1> SUFFICES ASSUME Init PROVE StreamOK /\ PendingOK
  BY InitLog DEF LinesInv
<1>1. w = Closed /\ owner = <<>> /\ acked = {}
  BY DEF Init
<1>2. Len(BytesOf(owner)) = 0
  <2>1. owner \in Seq(Frames) /\ Contiguous(owner)
    BY InitLog DEF LogInv, OwnerInv
  <2>2. Laid(BytesOf(owner), owner, Len(owner)) /\ Len(owner) = 0
    BY <1>1, <2>1, LogBytes
  <2> QED
    BY <2>2 DEF Laid
<1> QED
  BY <1>1, <1>2 DEF StreamOK, PendingOK, HandedOver, InOrder, Closed, Busy

(* Nothing happens to the log.                                              *)
LEMMA LinesStand ==
  ASSUME LinesInv, UNCHANGED <<owner, synced, w, lines, acked>>
  PROVE  StreamOK' /\ PendingOK'
<1>1. StreamOK'
  BY StreamStays
<1>2. Underway => Underway'
  BY DEF Underway, Rest
<1> QED
  BY <1>1, <1>2 DEF LinesInv, PendingOK

(* No step of the log loses, repeats or reorders a line.                    *)
LEMMA LinesStep == LinesInv /\ [Next]_logVars => LinesInv'
<1> SUFFICES ASSUME LinesInv, [Next]_logVars PROVE StreamOK' /\ PendingOK'
  BY LogStep DEF LinesInv
<1>1. CASE Open
  <2>1. /\ owner' = owner /\ acked' = acked /\ lines' = lines /\ synced' = Len(owner)
        /\ \E idx \in BOOLEAN : w' = IF ScanFails THEN w ELSE Recovered(idx)
        /\ w.pc = "closed"
    BY <1>1 DEF Open
  <2>2. w'.pc \in {"closed", "idle"}
    BY <2>1 DEF Recovered
  <2> QED
    BY <2>1, <2>2, LinesRest
<1>2. CASE Drop
  <2>1. owner' = owner /\ acked' = acked /\ lines' = lines /\ synced' = synced /\ w'.pc = "closed"
    BY <1>2 DEF Drop, Closed, disk
  <2> QED
    BY <2>1, LinesRest
<1>3. CASE ReaderStep
  <2>1. /\ owner' = owner /\ w' = w /\ acked' = acked /\ lines' = lines
        /\ synced' \in {synced, Len(owner)}
    BY <1>3 DEF ReaderStep, ReadPage, ReadProvenance, ScanSnapshot, ReadSnapshot, Confirm,
       ConfirmFails, disk
  <2>2. StreamOK'
    BY <2>1, StreamStays
  <2>3. Underway => Underway'
    BY <2>1 DEF Underway, Rest
  <2> QED
    BY <2>1, <2>2, <2>3 DEF LinesInv, PendingOK
<1>4. CASE UNCHANGED logVars
  BY <1>4, LinesStand DEF logVars, disk
<1> QED
  BY <1>1, <1>2, <1>3, <1>4, LinesAppends, LinesFrames, LinesCrash DEF Next

(* The invariant gives the property.                                        *)
LEMMA LinesDurable == LinesInv => AcknowledgedIsDurable
<1> SUFFICES ASSUME LinesInv PROVE AcknowledgedIsDurable
  OBVIOUS
<1> DEFINE b == BytesOf(owner)
           c == BytesOf(Durable)
<1>1. b \in Seq(Byte) /\ c \in Seq(Byte) /\ Begins(c, b) /\ Len(c) \in Nat
  BY DurableBytes DEF LinesInv, LogInv
<1>2. InOrder(b) /\ \A m \in acked : Settled(m, b, Len(c))
  BY DEF LinesInv, StreamOK
<1>3. acked \subseteq 1..Lines
  BY Acknowledged DEF LinesInv
<1> HIDE DEF b, c
<1>4. InOrder(c)
  BY <1>1, <1>2, StreamCut
<1>5. ASSUME NEW m \in acked PROVE \E p \in 0..Len(c) : WrittenAt(m, p, c)
  <2>1. PICK p \in Nat : p + LineBytes[m] <= Len(c) /\ WrittenAt(m, p, b)
    BY <1>2 DEF Settled
  <2>2. m \in 1..Lines /\ LineBytes[m] \in Nat
    BY <1>3, LogAssumption
  <2>3. WrittenAt(m, p, c) /\ p \in 0..Len(c)
    BY <1>1, <2>1, <2>2, StreamCut
  <2> QED
    BY <2>3
<1> QED
  BY <1>4, <1>5 DEF AcknowledgedIsDurable, c

(* Every line for which append_jsonl_line returned Written is on stable     *)
(* storage, whole, exactly once and in the order of the appends, for every  *)
(* length of lines and frames, failed write, crash and reopening: a line    *)
(* cut into several frames is acknowledged after the last of them is        *)
(* synced, and a writer that failed inside a line is poisoned and never     *)
(* completes it.                                                            *)
THEOREM WrittenIsDurable == Spec => []AcknowledgedIsDurable
BY InitLines, LinesStep, LinesDurable, PTL DEF Spec

---------------------------------------------------------------------------
(* Reads by decoding the owner.                                             *)

(* A set of numbers has a least one.                                        *)
LEMMA LeastNumber ==
  ASSUME NEW S \in SUBSET Nat, S # {}
  PROVE  \E x \in S : \A y \in S : x <= y
<1> DEFINE R == OpToRel(<, Nat)
<1>1. PICK x \in S : \A y \in S : ~(<<y, x>> \in R)
  <2>1. IsWellFoundedOn(R, Nat)
    BY NatLessThanWellFounded
  <2> HIDE DEF R
  <2> QED
    BY <2>1, WFMin
<1>2. \A y \in Nat : y < x => <<y, x>> \in R
  BY DEF OpToRel
<1>3. ASSUME NEW y \in S PROVE x <= y
  <2>1. ~(y < x) /\ x \in Nat /\ y \in Nat
    BY <1>1, <1>2
  <2> QED
    BY <2>1
<1> QED
  BY <1>3

(* A range within a prefix is that range of the whole.                      *)
LEMMA RangeBegins ==
  ASSUME NEW b \in Seq(Byte), NEW c \in Seq(Byte), Begins(c, b),
         NEW lo \in Nat, NEW hi \in Nat, lo <= hi, hi <= Len(c)
  PROVE  SubSeq(c, lo + 1, hi) = SubSeq(b, lo + 1, hi)
<1> DEFINE r == SubSeq(c, lo + 1, hi)
           q == SubSeq(b, lo + 1, hi)
<1>1. Len(c) <= Len(b) /\ Len(c) \in Nat /\ Len(b) \in Nat /\ \A k \in 1..Len(c) : c[k] = b[k]
  BY DEF Begins
<1>2. r \in Seq(Byte) /\ Len(r) = hi - lo /\ \A i \in 1..(hi - lo) : r[i] = c[lo + i]
  BY RangeIs
<1>3. q \in Seq(Byte) /\ Len(q) = hi - lo /\ \A i \in 1..(hi - lo) : q[i] = b[lo + i]
  BY <1>1, RangeIs
<1> HIDE DEF r, q
<1>4. \A i \in 1..(hi - lo) : lo + i \in 1..Len(c)
  BY <1>1
<1>5. \A i \in 1..Len(r) : r[i] = q[i]
  BY <1>1, <1>2, <1>3, <1>4
<1>6. r = q
  BY <1>2, <1>3, <1>5, SeqEqual
<1> QED
  BY <1>6 DEF r, q

(* s is what b holds behind place mid, up to place hi.                      *)
Between(s, b, mid, hi) ==
  s \in Seq(Byte) /\ Len(s) = hi - mid /\ \A j \in 1..(hi - mid) : s[j] = b[mid + j]

(* s continues a range of b that ends at mid to one that ends at hi.        *)
Continues(s, b, lo, mid, hi) == SubSeq(b, lo + 1, mid) \o s = SubSeq(b, lo + 1, hi)

(* Ranges that meet join.                                                   *)
LEMMA RangeJoin ==
  ASSUME NEW b \in Seq(Byte), NEW lo \in Nat, NEW mid \in Nat, NEW hi \in Nat,
         lo <= mid, mid <= hi, hi <= Len(b), NEW s, Between(s, b, mid, hi)
  PROVE  Continues(s, b, lo, mid, hi)
<1> DEFINE r == SubSeq(b, lo + 1, mid)
           q == SubSeq(b, lo + 1, hi)
           t == r \o s
<1>0. s \in Seq(Byte) /\ Len(s) = hi - mid /\ \A j \in 1..(hi - mid) : s[j] = b[mid + j]
  BY DEF Between
<1>1. r \in Seq(Byte) /\ Len(r) = mid - lo /\ \A i \in 1..(mid - lo) : r[i] = b[lo + i]
  <2>1. mid <= Len(b)
    OBVIOUS
  <2> QED
    BY <2>1, RangeIs
<1>2. q \in Seq(Byte) /\ Len(q) = hi - lo /\ \A i \in 1..(hi - lo) : q[i] = b[lo + i]
  <2>1. lo <= hi
    OBVIOUS
  <2> QED
    BY <2>1, RangeIs
<1> HIDE DEF r, q
<1>3. /\ t \in Seq(Byte) /\ Len(t) = Len(r) + Len(s)
      /\ \A k \in 1..Len(r) : t[k] = r[k]
      /\ \A k \in 1..Len(t) : k > Len(r) => k - Len(r) \in 1..Len(s) /\ t[k] = s[k - Len(r)]
  BY <1>0, <1>1, Joined
<1> HIDE DEF t
<1>4. Len(t) = hi - lo
  BY <1>0, <1>1, <1>3
<1>5. ASSUME NEW i \in 1..(hi - lo) PROVE t[i] = q[i]
  <2>1. CASE i <= mid - lo
    <3>1. i \in 1..(mid - lo)
      BY <2>1
    <3> QED
      BY <1>1, <1>2, <1>3, <3>1
  <2>2. CASE i > mid - lo
    <3>1. i - (mid - lo) \in 1..(hi - mid) /\ mid + (i - (mid - lo)) = lo + i
      BY <2>2
    <3>2. t[i] = s[i - (mid - lo)]
      BY <1>1, <1>3, <1>4, <2>2
    <3> QED
      BY <1>0, <1>2, <3>1, <3>2
  <2> QED
    BY <2>1, <2>2
<1>6. t = q
  BY <1>2, <1>3, <1>4, <1>5, SeqEqual
<1> QED
  BY <1>6 DEF Continues, t, r, q

(* A prefix of a contiguous file is contiguous.                             *)
LEMMA CutFrames ==
  ASSUME NEW fr \in Seq(Frames), Contiguous(fr), NEW k \in 0..Len(fr)
  PROVE  /\ SubSeq(fr, 1, k) \in Seq(Frames) /\ Len(SubSeq(fr, 1, k)) = k
         /\ \A i \in 1..k : SubSeq(fr, 1, k)[i] = fr[i]
         /\ Contiguous(SubSeq(fr, 1, k))
<1> DEFINE gr == SubSeq(fr, 1, k)
<1>1. gr \in Seq(Frames) /\ Len(gr) = k /\ \A i \in 1..k : gr[i] = fr[i]
  OBVIOUS
<1> HIDE DEF gr
<1>2. Contiguous(gr)
  <2>1. k \in Nat /\ k <= Len(fr) /\ Len(fr) \in Nat
    OBVIOUS
  <2> QED
    BY <1>1, <2>1 DEF Contiguous
<1> QED
  BY <1>1, <1>2 DEF gr

(* The bytes of the first k frames end where the k-th frame does.           *)
LEMMA PrefixLength ==
  ASSUME NEW fr \in Seq(Frames), Contiguous(fr), NEW k \in 1..Len(fr)
  PROVE  /\ Len(BytesOf(SubSeq(fr, 1, k))) = FrameEnd(fr[k])
         /\ \A i \in 1..k : FrameEnd(fr[i]) <= FrameEnd(fr[k])
<1> DEFINE gr == SubSeq(fr, 1, k)
<1>1. /\ gr \in Seq(Frames) /\ Len(gr) = k /\ \A i \in 1..k : gr[i] = fr[i]
      /\ Contiguous(gr)
  BY CutFrames
<1> HIDE DEF gr
<1>2. Laid(BytesOf(gr), gr, Len(gr))
  BY <1>1, LogBytes
<1>3. k # 0 /\ k \in 1..k
  OBVIOUS
<1>4. Len(BytesOf(gr)) = FrameEnd(fr[k])
  BY <1>1, <1>2, <1>3 DEF Laid
<1>5. \A i \in 1..k : FrameEnd(fr[i]) <= FrameEnd(fr[k])
  BY <1>1, <1>2, <1>3, <1>4 DEF Laid
<1> QED
  BY <1>4, <1>5 DEF gr

(* The stream is as long as the last frame says.                            *)
LEMMA EndIsLength ==
  ASSUME OwnerInv
  PROVE  EndOf(owner) = Len(BytesOf(owner)) /\ EndOf(owner) \in Nat
<1>1. owner \in Seq(Frames) /\ Laid(BytesOf(owner), owner, Len(owner))
  BY LogBytes DEF OwnerInv
<1>2. Len(BytesOf(owner)) = IF Len(owner) = 0 THEN 0 ELSE FrameEnd(owner[Len(owner)])
  BY <1>1 DEF Laid
<1>3. owner = <<>> <=> Len(owner) = 0
  BY <1>1
<1>4. EndOf(owner) \in Nat
  BY UnsealedPrefix
<1> QED
  BY <1>2, <1>3, <1>4 DEF EndOf

(* A read visits everything up to the first end that reaches it.            *)
LEMMA VisitedCount ==
  ASSUME NEW ends, NEW to \in Nat, Len(ends) \in Nat, NEW v \in 1..Len(ends),
         \A i \in 1..Len(ends) : ends[i] \in Nat,
         \A j \in 1..(v - 1) : ends[j] < to, ends[v] >= to
  PROVE  Visited(ends, to) = 1..v /\ Cardinality(Visited(ends, to)) = v
<1>1. ASSUME NEW i \in 1..v PROVE i \in Visited(ends, to)
  <2>1. i \in 1..Len(ends) /\ \A j \in 1..(i - 1) : j \in 1..(v - 1)
    OBVIOUS
  <2> QED
    BY <2>1 DEF Visited
<1>2. ASSUME NEW i \in Visited(ends, to) PROVE i \in 1..v
  <2>1. i \in 1..Len(ends) /\ \A j \in 1..(i - 1) : ends[j] < to
    BY DEF Visited
  <2>2. ends[v] \in Nat
    OBVIOUS
  <2>3. ~(v \in 1..(i - 1))
    BY <2>1, <2>2
  <2> QED
    BY <2>1, <2>3
<1>3. Visited(ends, to) = 1..v
  BY <1>1, <1>2
<1>4. Cardinality(1..v) = v
  <2>1. 1 \in Int /\ v \in Int /\ v - 1 + 1 = v /\ ~(1 > v)
    OBVIOUS
  <2> QED
    BY <2>1, FS_Interval
<1> QED
  BY <1>3, <1>4

(* How far a streaming read gets: it stops at the first frame that ends at  *)
(* or behind its range, and never leaves the file.                          *)
Reached(to) == Cardinality(Visited([i \in 1..Len(owner) |-> FrameEnd(owner[i])], to))

(* The frames visited hold the range, if the log does.                      *)
LEMMA ReachedIs ==
  ASSUME OwnerInv, NEW to \in Nat
  PROVE  /\ Reached(to) \in 0..Len(owner)
         /\ to <= EndOf(owner) /\ to > 0 => to <= Len(BytesOf(SubSeq(owner, 1, Reached(to))))
<1> DEFINE ends == [i \in 1..Len(owner) |-> FrameEnd(owner[i])]
<1>1. /\ owner \in Seq(Frames) /\ Contiguous(owner) /\ Len(owner) \in Nat
      /\ \A i \in 1..Len(owner) : FrameEnd(owner[i]) \in Nat
  BY UnsealedPrefix DEF OwnerInv
<1>2. Len(ends) = Len(owner) /\ \A i \in 1..Len(owner) : ends[i] = FrameEnd(owner[i])
  BY <1>1
<1>3. Reached(to) = Cardinality(Visited(ends, to))
  BY DEF Reached
<1> HIDE DEF ends
<1>4. Reached(to) \in 0..Len(owner)
  <2>1. IsFiniteSet(1..Len(owner)) /\ Cardinality(1..Len(owner)) = Len(owner)
    <3> DEFINE n == Len(owner)
    <3>1. n \in Int /\ 1 \in Int /\ n - 1 + 1 = n /\ (1 > n => n = 0)
      BY <1>1
    <3> HIDE DEF n
    <3>2. IsFiniteSet(1..n) /\ Cardinality(1..n) = IF 1 > n THEN 0 ELSE n - 1 + 1
      BY <3>1, FS_Interval
    <3>3. Cardinality(1..n) = n
      BY <3>1, <3>2
    <3> QED
      BY <3>2, <3>3 DEF n
  <2>2. Visited(ends, to) \subseteq 1..Len(owner)
    BY <1>2 DEF Visited
  <2>3. /\ Cardinality(Visited(ends, to)) \in Nat
        /\ Cardinality(Visited(ends, to)) <= Len(owner)
    BY <2>1, <2>2, FS_Subset, FS_CardinalityType
  <2> QED
    BY <1>1, <1>3, <2>3
<1>5. ASSUME to <= EndOf(owner), to > 0
      PROVE  to <= Len(BytesOf(SubSeq(owner, 1, Reached(to))))
  <2> DEFINE S == {i \in 1..Len(owner) : FrameEnd(owner[i]) >= to}
  <2>1. Len(owner) \in S
    <3>1. owner # <<>>
      BY <1>5 DEF EndOf
    <3>2. Len(owner) \in 1..Len(owner)
      BY <1>1, <3>1
    <3>3. EndOf(owner) = FrameEnd(owner[Len(owner)]) /\ EndOf(owner) \in Nat
      BY <1>1, <3>1, <3>2 DEF EndOf
    <3> QED
      BY <1>5, <3>2, <3>3
  <2>2. S \in SUBSET Nat /\ S # {}
    BY <1>1, <2>1
  <2>3. PICK v \in S : \A y \in S : v <= y
    <3> HIDE DEF S
    <3> QED
      BY <2>2, LeastNumber
  <2>4. v \in 1..Len(owner) /\ FrameEnd(owner[v]) >= to
    OBVIOUS
  <2>5. ASSUME NEW j \in 1..(v - 1) PROVE ends[j] < to
    <3>1. j \in 1..Len(owner) /\ ~(v <= j)
      BY <1>1, <2>4
    <3>2. j \notin S
      BY <2>3, <3>1
    <3> QED
      BY <1>1, <1>2, <3>1, <3>2
  <2>6. Reached(to) = v
    <3>1. Len(ends) \in Nat /\ v \in 1..Len(ends) /\ ends[v] >= to
          /\ \A i \in 1..Len(ends) : ends[i] \in Nat
      BY <1>1, <1>2, <2>4
    <3> QED
      BY <1>3, <2>5, <3>1, VisitedCount
  <2>7. Len(BytesOf(SubSeq(owner, 1, v))) = FrameEnd(owner[v])
    BY <1>1, <2>4, PrefixLength
  <2> QED
    BY <1>1, <2>4, <2>6, <2>7
<1> QED
  BY <1>4, <1>5

(* read_range_by_streaming_decode gives an error or bytes of the log from   *)
(* the place asked for, and all that was asked for if the log has it.       *)
LEMMA StreamingIs ==
  ASSUME OwnerInv, NEW from \in Nat, NEW to \in Nat, from < to
  PROVE  /\ \/ ReadByStreaming(from, to) = Err
            \/ \E hi \in 0..to : /\ hi <= Len(BytesOf(owner))
                                 /\ ReadByStreaming(from, to) =
                                      IF from <= hi THEN SubSeq(BytesOf(owner), from + 1, hi) ELSE <<>>
         /\ to <= EndOf(owner) => ReadByStreaming(from, to) = SubSeq(BytesOf(owner), from + 1, to)
<1> DEFINE k == Reached(to)
           c == BytesOf(SubSeq(owner, 1, k))
           b == BytesOf(owner)
           hi == IF Len(c) < to THEN Len(c) ELSE to
<1>1. /\ k \in 0..Len(owner) /\ (to <= EndOf(owner) /\ to > 0 => to <= Len(c))
      /\ owner \in Seq(Frames) /\ Contiguous(owner)
  BY ReachedIs DEF OwnerInv
<1>2. b \in Seq(Byte) /\ c \in Seq(Byte) /\ Begins(c, b) /\ Contiguous(SubSeq(owner, 1, k))
  <2> HIDE DEF k
  <2> QED
    BY <1>1, BytesCut, CutFrames
<1>3. ReadByStreaming(from, to) =
        IF torn /\ EndOf(owner) < to THEN Err ELSE SubSeq(c, from + 1, hi)
  BY <1>2 DEF ReadByStreaming, Reached
<1> HIDE DEF k, c
<1>4. Len(c) \in Nat /\ Len(b) \in Nat /\ Len(c) <= Len(b) /\ EndOf(owner) = Len(b)
  BY <1>2, EndIsLength DEF Begins
<1>5. hi \in 0..to /\ hi <= Len(c) /\ hi <= Len(b)
  BY <1>4
<1>6. from <= hi => SubSeq(c, from + 1, hi) = SubSeq(b, from + 1, hi)
  <2> HIDE DEF b, hi
  <2> QED
    BY <1>2, <1>5, RangeBegins
<1>7. ~(from <= hi) => SubSeq(c, from + 1, hi) = <<>>
  <2> HIDE DEF hi
  <2> SUFFICES ASSUME ~(from <= hi) PROVE SubSeq(c, from + 1, hi) = <<>>
    OBVIOUS
  <2>1. hi \in Int /\ from + 1 \in Int /\ ~(from + 1 <= hi)
    BY <1>5
  <2>2. \A i \in (from + 1)..hi : c[i] \in Byte
    BY <2>1
  <2>3. SubSeq(c, from + 1, hi) \in Seq(Byte) /\ Len(SubSeq(c, from + 1, hi)) = 0
    BY <2>1, <2>2, SubSeqProperties
  <2> QED
    BY <2>3, EmptySeq
<1>8. to <= EndOf(owner) => hi = to /\ ~(EndOf(owner) < to)
  BY <1>1, <1>4
<1>9. to <= EndOf(owner) => ReadByStreaming(from, to) = SubSeq(b, from + 1, to)
  BY <1>3, <1>6, <1>8
<1> HIDE DEF b
<1>10. ReadByStreaming(from, to) = Err
       \/ ReadByStreaming(from, to) = IF from <= hi THEN SubSeq(b, from + 1, hi) ELSE <<>>
  BY <1>3, <1>6, <1>7
<1> HIDE DEF hi
<1> QED
  BY <1>5, <1>9, <1>10 DEF b

---------------------------------------------------------------------------
(* Reads by the index (IndexIsOnlyACache).                                  *)

(* A line of the index.                                                     *)
Locators == {l \in [start : Nat, end : Nat, at : Nat] : l.start <= l.end}

(* The lines of the index parse or are torn; the writer knows how many      *)
(* frames it wrote and that the last one ends where it is.                  *)
IndexOK ==
  /\ index \in Seq(Locators \cup {Torn})
  /\ w.pc # "closed" => w.written \in Nat
  /\ w.pc = "index" => Len(Head(w.todo).body) <= w.offset

(* The inductive invariant behind CacheAgreesWithOwner: the index may say   *)
(* anything, in any order.                                                  *)
IndexInv == LogInv /\ IndexOK

(* The fields of a line that parses.                                        *)
LEMMA IndexType ==
  ASSUME IndexOK, NEW i \in 1..Len(index), index[i] # Torn
  PROVE  /\ index[i].start \in Nat /\ index[i].end \in Nat /\ index[i].at \in Nat
         /\ index[i].start <= index[i].end
<1>1. index[i] \in Locators \cup {Torn}
  BY DEF IndexOK
<1> QED
  BY <1>1 DEF Locators

(* What the index leads a read to.                                          *)
Covered(i, from) == IF LastEnd(i) > from THEN LastEnd(i) ELSE from
Upto(i, to) == IF index[i].end < to THEN index[i].end ELSE to
Skip(i, from) == IF Covered(i, from) > index[i].start THEN Covered(i, from) - index[i].start ELSE 0
Piece(i, from, to) ==
  IF index[i].end <= from THEN <<>>
  ELSE SubSeq(owner[index[i].at].body, Skip(i, from) + 1, Upto(i, to) - index[i].start)

(* Where the first k lines lead it.                                         *)
ReachOf(k, from, to) ==
  IF k = 0 THEN from ELSE IF Upto(k, to) > from THEN Upto(k, to) ELSE from

(* Lines 1..v are read and verified, the last one covers the range.         *)
Verified(v, from, to) ==
  /\ v \in 1..Len(index) /\ index[v].end >= to
  /\ \A i \in 1..v : /\ ~LocatorFails(i, from)
                     /\ i # v => index[i].end < to

(* What the checks on a locator establish.                                  *)
LEMMA LineIs ==
  ASSUME OwnerInv, IndexOK, NEW from \in Nat, NEW to \in Nat, from < to,
         NEW v, Verified(v, from, to), NEW i \in 1..v
  PROVE  /\ index[i].start \in Nat /\ index[i].end \in Nat /\ index[i].start <= index[i].end
         /\ index[i].start = LastEnd(i) /\ index[i].at = i
         /\ i # v => index[i].end < to
         /\ index[i].end > from => /\ i \in 1..Len(owner) /\ owner[i].start = index[i].start
                                   /\ FrameEnd(owner[i]) = index[i].end
<1>1. v \in 1..Len(index) /\ i \in 1..Len(index) /\ ~LocatorFails(i, from)
      /\ (i # v => index[i].end < to)
  BY DEF Verified, IndexOK
<1>2. index[i] # Torn /\ index[i].start = LastEnd(i) /\ index[i].at = i
  BY <1>1 DEF LocatorFails
<1>3. index[i].start \in Nat /\ index[i].end \in Nat /\ index[i].start <= index[i].end
  BY <1>1, <1>2, IndexType
<1>4. index[i].end > from => ~(i > Len(owner)) /\ owner[i].start = index[i].start
                             /\ FrameEnd(owner[i]) = index[i].end
  BY <1>1 DEF LocatorFails
<1>5. Len(owner) \in Nat
  BY UnsealedPrefix
<1> QED
  BY <1>1, <1>2, <1>3, <1>4, <1>5

(* A line's piece is what the stream holds between the places it joins.     *)
LEMMA PieceIs ==
  ASSUME OwnerInv, IndexOK, NEW from \in Nat, NEW to \in Nat, from < to,
         NEW v, Verified(v, from, to), NEW i \in 1..v
  PROVE  LET s == Piece(i, from, to)
             mid == ReachOf(i - 1, from, to)
             hi == ReachOf(i, from, to)
         IN  /\ s \in Seq(Byte) /\ mid \in Nat /\ hi \in Nat /\ from <= mid /\ mid <= hi
             /\ hi > from => hi <= Len(BytesOf(owner))
             /\ Len(s) = hi - mid
             /\ \A j \in 1..(hi - mid) : s[j] = BytesOf(owner)[mid + j]
<1> DEFINE b == BytesOf(owner)
           s == Piece(i, from, to)
           mid == ReachOf(i - 1, from, to)
           hi == ReachOf(i, from, to)
           x == index[i].start
           y == index[i].end
<1>1. /\ x \in Nat /\ y \in Nat /\ x <= y /\ x = LastEnd(i) /\ index[i].at = i
      /\ (y > from => /\ i \in 1..Len(owner) /\ owner[i].start = x /\ FrameEnd(owner[i]) = y)
  BY LineIs
<1>v. v \in Nat /\ i \in Nat /\ i # 0 /\ i \in 1..v
  BY DEF Verified, IndexOK
<1>2. mid = IF x > from THEN x ELSE from
  <2>1. CASE i = 1
    <3>1. x = 0 /\ i - 1 = 0
      BY <1>1, <2>1 DEF LastEnd
    <3> QED
      BY <3>1 DEF ReachOf
  <2>2. CASE i # 1
    <3>1. i - 1 \in 1..v /\ i - 1 # v /\ i - 1 # 0
      BY <1>v, <2>2
    <3>2. index[i-1].end = x /\ index[i-1].end < to
      <4>1. index[i-1].end < to
        BY <3>1, LineIs
      <4> QED
        BY <1>1, <2>2, <4>1 DEF LastEnd
    <3> QED
      BY <3>1, <3>2 DEF ReachOf, Upto
  <2> QED
    BY <2>1, <2>2
<1>3. Upto(i, to) = IF y < to THEN y ELSE to
  BY DEF Upto
<1>4. hi = IF Upto(i, to) > from THEN Upto(i, to) ELSE from
  BY <1>v DEF ReachOf
<1>5. b \in Seq(Byte) /\ Len(b) \in Nat
  BY DurableBytes
<1>6. CASE y <= from
  <2>1. s = <<>>
    BY <1>6 DEF Piece
  <2>2. mid = from /\ hi = from
    BY <1>1, <1>2, <1>3, <1>4, <1>6
  <2>3. <<>> \in Seq(Byte) /\ Len(<<>>) = 0 /\ from - from = 0 /\ ~(from > from)
    OBVIOUS
  <2>4. \A j \in 1..0 : FALSE
    OBVIOUS
  <2> HIDE DEF s, mid, hi
  <2> QED
    BY <2>1, <2>2, <2>3, <2>4 DEF s, mid, hi
<1>7. CASE y > from
  <2> DEFINE g == owner[i].body
             h == Upto(i, to)
             k == Skip(i, from)
  <2>1. /\ i \in 1..Len(owner) /\ owner[i].start = x /\ FrameEnd(owner[i]) = y
        /\ owner \in Seq(Frames) /\ Contiguous(owner)
    BY <1>1, <1>7 DEF OwnerInv
  <2>2. g \in Seq(Byte) /\ Len(g) \in Nat /\ y = x + Len(g)
    BY <2>1, FrameType DEF FrameEnd
  <2>3. /\ y <= Len(b) /\ \A j \in 1..Len(g) : b[x + j] = g[j]
    <3>1. Laid(b, owner, Len(owner))
      BY <2>1, LogBytes
    <3> QED
      BY <2>1, <3>1 DEF Laid
  <2>4. h \in Nat /\ h > from /\ h <= y /\ hi = h
    BY <1>1, <1>3, <1>4, <1>7
  <2>5. k = mid - x /\ mid \in Nat /\ x <= mid /\ from <= mid
    <3>1. Covered(i, from) = mid
      BY <1>1, <1>2 DEF Covered
    <3> QED
      BY <1>1, <1>2, <3>1 DEF Skip
  <2>6. mid <= h
    <3>1. CASE x > from
      <4>1. i # 1
        BY <1>1, <3>1 DEF LastEnd
      <4>2. i - 1 \in 1..v /\ i - 1 # v
        BY <1>v, <4>1
      <4>3. index[i-1].end < to /\ index[i-1].end = x
        <5>1. index[i-1].end < to
          BY <4>2, LineIs
        <5> QED
          BY <1>1, <4>1, <5>1 DEF LastEnd
      <4> QED
        BY <1>1, <1>2, <1>3, <3>1, <4>3
    <3>2. CASE ~(x > from)
      BY <1>2, <2>4, <3>2
    <3> QED
      BY <3>1, <3>2
  <2>7. s = SubSeq(g, k + 1, h - x)
    <3>1. ~(y <= from) /\ index[i].at = i
      BY <1>1, <1>7
    <3> HIDE DEF k, h
    <3> QED
      BY <3>1, Zenon DEF Piece, k, h
  <2> HIDE DEF g, h, k, s, mid, hi, b, x, y
  <2>8. k \in Nat /\ h - x \in Nat /\ k <= h - x /\ h - x <= Len(g) /\ (h - x) - k = h - mid
    <3>1. /\ x \in Nat /\ h \in Nat /\ mid \in Nat /\ Len(g) \in Nat
          /\ h <= x + Len(g) /\ x <= mid /\ mid <= h /\ k = mid - x
      BY <1>1, <2>2, <2>4, <2>5, <2>6, Zenon
    <3> QED
      BY <3>1
  <2>9. /\ s \in Seq(Byte) /\ Len(s) = (h - x) - k
        /\ \A j \in 1..((h - x) - k) : s[j] = g[k + j]
    BY <2>2, <2>7, <2>8, RangeIs
  <2>10. ASSUME NEW j \in 1..(h - mid) PROVE s[j] = b[mid + j]
    <3>0. /\ x \in Nat /\ h \in Nat /\ mid \in Nat /\ Len(g) \in Nat
          /\ k = mid - x /\ h - x <= Len(g) /\ x <= mid
      BY <1>1, <2>2, <2>4, <2>5, <2>8, Zenon
    <3>1. k + j \in 1..Len(g) /\ x + (k + j) = mid + j
      BY <3>0
    <3> QED
      BY <2>3, <2>8, <2>9, <3>1
  <2>11. /\ s \in Seq(Byte) /\ mid \in Nat /\ hi \in Nat /\ from <= mid /\ mid <= hi
         /\ hi > from => hi <= Len(b)
         /\ Len(s) = hi - mid
         /\ \A j \in 1..(hi - mid) : s[j] = b[mid + j]
    BY <1>1, <1>5, <2>2, <2>3, <2>4, <2>5, <2>6, <2>8, <2>9, <2>10
  <2> QED
    BY <2>11 DEF s, mid, hi, b
<1> QED
  BY <1>1, <1>6, <1>7

(* The pieces of verified lines join to the range asked for.                *)
LEMMA PiecesJoin ==
  ASSUME OwnerInv, IndexOK, NEW from \in Nat, NEW to \in Nat, from < to,
         NEW v, Verified(v, from, to)
  PROVE  /\ to <= Len(BytesOf(owner))
         /\ FlattenSeq([i \in 1..v |-> Piece(i, from, to)]) = SubSeq(BytesOf(owner), from + 1, to)
<1> DEFINE b == BytesOf(owner)
           ss == [i \in 1..v |-> Piece(i, from, to)]
           Joint(i) == ReachOf(i, from, to)
<1>1. b \in Seq(Byte) /\ Len(b) \in Nat
  BY DurableBytes
<1>2. v \in Nat /\ v # 0 /\ v \in 1..v
  BY DEF Verified, IndexOK
<1>3. ASSUME NEW i \in 1..v
      PROVE  /\ ss[i] \in Seq(Byte) /\ Joint(i-1) \in Nat /\ Joint(i) \in Nat
             /\ from <= Joint(i-1) /\ Joint(i-1) <= Joint(i)
             /\ Joint(i) > from => Joint(i) <= Len(b)
             /\ Len(ss[i]) = Joint(i) - Joint(i-1)
             /\ \A j \in 1..(Joint(i) - Joint(i-1)) : ss[i][j] = b[Joint(i-1) + j]
  <2>1. ss[i] = Piece(i, from, to)
    OBVIOUS
  <2> HIDE DEF ss
  <2> QED
    BY <2>1, PieceIs
<1>4. ss \in Seq(Seq(Byte)) /\ Len(ss) = v
  BY <1>2, <1>3
<1>5. Joint(0) = from
  BY DEF ReachOf
<1>6. Joint(v) = to
  <2>1. index[v].end \in Nat /\ index[v].end >= to
    BY <1>2, LineIs DEF Verified
  <2>2. Upto(v, to) = to
    BY <2>1 DEF Upto
  <2> QED
    BY <1>2, <2>2 DEF ReachOf
<1>7. to <= Len(b)
  BY <1>2, <1>3, <1>6
<1> HIDE DEF ss, b, Joint
<1>8. PICK f : Flattened(f, ss, Byte)
  BY <1>4, FlattenIs
<1>9. f[0] = <<>> /\ (\A i \in 1..v : f[i] = f[i-1] \o ss[i]) /\ FlattenSeq(ss) = f[v]
  BY <1>4, <1>8 DEF Flattened
<1> DEFINE T == {n \in Nat : n <= v => f[n] = SubSeq(b, from + 1, Joint(n))}
<1>10. from <= Len(b)
  BY <1>1, <1>7
<1>11. 0 \in T
  <2>1. SubSeq(b, from + 1, from) \in Seq(Byte) /\ Len(SubSeq(b, from + 1, from)) = from - from
    BY <1>1, <1>10, RangeIs
  <2>2. from - from = 0
    OBVIOUS
  <2>3. SubSeq(b, from + 1, from) = <<>>
    BY <2>1, <2>2, EmptySeq
  <2> QED
    BY <1>5, <1>9, <2>3
<1>12. ASSUME NEW n \in Nat, n \in T PROVE n + 1 \in T
  <2> SUFFICES ASSUME n + 1 <= v PROVE f[n+1] = SubSeq(b, from + 1, Joint(n+1))
    OBVIOUS
  <2>1. n + 1 \in 1..v /\ (n + 1) - 1 = n /\ n <= v
    BY <1>2
  <2>2. f[n+1] = f[n] \o ss[n+1]
    BY <1>9, <2>1
  <2>3. f[n] = SubSeq(b, from + 1, Joint(n))
    BY <1>12, <2>1
  <2>4. /\ ss[n+1] \in Seq(Byte) /\ Joint(n) \in Nat /\ Joint(n+1) \in Nat
        /\ from <= Joint(n) /\ Joint(n) <= Joint(n+1)
        /\ Joint(n+1) > from => Joint(n+1) <= Len(b)
        /\ Len(ss[n+1]) = Joint(n+1) - Joint(n)
        /\ \A j \in 1..(Joint(n+1) - Joint(n)) : ss[n+1][j] = b[Joint(n) + j]
    BY <1>3, <2>1
  <2>5. Joint(n+1) <= Len(b)
    BY <1>1, <1>10, <2>4
  <2>6. SubSeq(b, from + 1, Joint(n)) \o ss[n+1] = SubSeq(b, from + 1, Joint(n+1))
    <3> DEFINE s == ss[n+1]
               mid == Joint(n)
               hi == Joint(n+1)
    <3>1. /\ mid \in Nat /\ hi \in Nat /\ from <= mid /\ mid <= hi /\ hi <= Len(b)
          /\ Between(s, b, mid, hi)
      BY <2>4, <2>5 DEF Between
    <3> HIDE DEF s, mid, hi
    <3>2. Continues(s, b, from, mid, hi)
      BY <1>1, <3>1, RangeJoin
    <3> QED
      BY <3>2 DEF Continues, s, mid, hi
  <2> QED
    BY <2>2, <2>3, <2>6
<1>13. v \in T
  <2> HIDE DEF T
  <2> QED
    BY <1>2, <1>11, <1>12, SetInduction
<1>14. FlattenSeq(ss) = SubSeq(b, from + 1, to)
  BY <1>2, <1>6, <1>9, <1>13
<1> QED
  BY <1>7, <1>14 DEF ss, b

(* The index leads to an error or to the range of the log.                  *)
LEMMA IndexedIs ==
  ASSUME OwnerInv, IndexOK, NEW from \in Nat, NEW to \in Nat, from < to
  PROVE  \/ ReadFromIndex(from, to) = Err
         \/ /\ to <= Len(BytesOf(owner))
            /\ ReadFromIndex(from, to) = SubSeq(BytesOf(owner), from + 1, to)
<1> DEFINE V == Visited(LineEnds, to)
<1> SUFFICES ASSUME ~(\/ \E i \in V : LocatorFails(i, from)
                      \/ \A i \in V : index[i].end < to)
             PROVE  /\ to <= Len(BytesOf(owner))
                    /\ ReadFromIndex(from, to) = SubSeq(BytesOf(owner), from + 1, to)
  <2>1. ~(from >= to)
    OBVIOUS
  <2> QED
    BY <2>1 DEF ReadFromIndex
<1>1. Len(index) \in Nat /\ Len(LineEnds) = Len(index)
  BY DEF IndexOK, LineEnds
<1>2. ASSUME NEW i \in 1..Len(index)
      PROVE  /\ LineEnds[i] \in Nat
             /\ index[i] # Torn => LineEnds[i] = index[i].end
  <2>1. LineEnds[i] = IF index[i] = Torn THEN 0 ELSE index[i].end
    BY DEF LineEnds
  <2> QED
    BY <2>1, IndexType
<1>3. PICK v \in V : ~(index[v].end < to)
  OBVIOUS
<1>4. v \in 1..Len(index) /\ \A j \in 1..(v-1) : LineEnds[j] < to
  BY <1>1 DEF Visited
<1>5. ~LocatorFails(v, from) /\ index[v] # Torn
  BY DEF LocatorFails
<1>6. index[v].end \in Nat /\ index[v].end >= to
  BY <1>3, <1>4, <1>5, IndexType
<1>7. V = 1..v /\ Cardinality(V) = v
  <2>1. LineEnds[v] >= to
    BY <1>2, <1>4, <1>5, <1>6
  <2> QED
    BY <1>1, <1>2, <1>4, <2>1, VisitedCount
<1>8. Verified(v, from, to)
  <2>1. ASSUME NEW i \in 1..v PROVE ~LocatorFails(i, from) /\ (i # v => index[i].end < to)
    <3>1. ~LocatorFails(i, from) /\ i \in 1..Len(index)
      BY <1>1, <1>4, <1>7
    <3>2. index[i] # Torn
      BY <3>1 DEF LocatorFails
    <3>3. LineEnds[i] = index[i].end
      BY <1>2, <3>1, <3>2
    <3>4. i # v => i \in 1..(v-1)
      BY <1>4
    <3> QED
      BY <1>4, <3>1, <3>3, <3>4
  <2> QED
    BY <1>4, <1>6, <2>1 DEF Verified
<1>9. ReadFromIndex(from, to) = FlattenSeq([i \in 1..v |-> Piece(i, from, to)])
  <2>1. ~(from >= to)
    OBVIOUS
  <2>2. ReadFromIndex(from, to) = FlattenSeq([i \in 1..Cardinality(V) |-> Piece(i, from, to)])
    BY <2>1 DEF ReadFromIndex, Piece, Skip, Covered, Upto
  <2> QED
    BY <1>7, <2>2
<1> QED
  BY <1>8, <1>9, PiecesJoin

(* What the index serves is what the owner decodes to.                      *)
LEMMA CacheAgrees ==
  ASSUME OwnerInv, IndexOK
  PROVE  CacheAgreesWithOwner
<1> SUFFICES ASSUME NEW to \in 0..(EndOf(owner) + 1), NEW from \in 0..to
             PROVE  \/ ReadFromIndex(from, to) = Err
                    \/ ReadFromIndex(from, to) = ReadByStreaming(from, to)
  BY DEF CacheAgreesWithOwner
<1>1. from \in Nat /\ to \in Nat /\ EndOf(owner) \in Nat /\ EndOf(owner) = Len(BytesOf(owner))
  BY EndIsLength
<1>2. CASE from >= to
  BY <1>2 DEF ReadFromIndex, ReadByStreaming
<1>3. CASE from < to
  <2>1. CASE ReadFromIndex(from, to) = Err
    BY <2>1
  <2>2. CASE ReadFromIndex(from, to) # Err
    <3>1. /\ to <= Len(BytesOf(owner))
          /\ ReadFromIndex(from, to) = SubSeq(BytesOf(owner), from + 1, to)
      BY <1>1, <1>3, <2>2, IndexedIs
    <3>2. ReadByStreaming(from, to) = SubSeq(BytesOf(owner), from + 1, to)
      BY <1>1, <1>3, <3>1, StreamingIs
    <3> QED
      BY <3>1, <3>2
  <2> QED
    BY <2>1, <2>2
<1> QED
  BY <1>1, <1>2, <1>3

(* A new index is empty.                                                    *)
LEMMA InitIndex == Init => IndexInv
<1> SUFFICES ASSUME Init PROVE IndexOK
  BY InitLog DEF IndexInv
<1> QED
  BY EmptySeq DEF Init, IndexOK, Closed

(* A line the writer adds parses.                                           *)
LEMMA LocatorType ==
  ASSUME IndexInv, w.pc = "index"
  PROVE  Locator \in Locators
<1>1. w.todo \in Todo /\ w.offset \in Nat /\ w.written \in Nat /\ Len(Head(w.todo).body) <= w.offset
  BY DEF IndexInv, IndexOK, LogInv, WriterType, Busy
<1>2. Len(Head(w.todo).body) \in Nat
  BY <1>1, HeadOfTodo
<1> DEFINE l == Len(Head(w.todo).body)
           o == w.offset
           x == o - l
           at == w.written + 1
<1>3. l \in Nat /\ o \in Nat /\ l <= o /\ at \in Nat
  BY <1>1, <1>2
<1>4. Locator = [start |-> x, end |-> o, at |-> at]
  BY DEF Locator
<1> HIDE DEF o, l, at
<1>5. x \in Nat /\ x <= o
  BY <1>3
<1> HIDE DEF x
<1> QED
  BY <1>3, <1>4, <1>5 DEF Locators

(* The index grows by one line, whole or torn.                              *)
LEMMA IndexGrows ==
  ASSUME IndexInv, index' \in {index, Append(index, Torn), Append(index, Locator)},
         index' = Append(index, Locator) => w.pc = "index"
  PROVE  index' \in Seq(Locators \cup {Torn})
<1>1. index \in Seq(Locators \cup {Torn})
  BY DEF IndexInv, IndexOK
<1>2. CASE index' \in {index, Append(index, Torn)}
  BY <1>1, <1>2, AppendProperties
<1>3. CASE index' = Append(index, Locator)
  <2>1. Locator \in Locators \cup {Torn}
    BY <1>3, LocatorType
  <2> QED
    BY <1>1, <1>3, <2>1, AppendProperties
<1> QED
  BY <1>2, <1>3

(* Steps that leave the index alone.                                        *)
LEMMA IndexStays ==
  ASSUME IndexInv, index' = index, w'.pc # "closed" => w'.written \in Nat, w'.pc # "index"
  PROVE  IndexOK'
BY DEF IndexInv, IndexOK

(* Every way to begin an append.                                            *)
LEMMA IndexAppends ==
  ASSUME IndexInv,
         \/ AppendLine \/ AppendRefused \/ AppendControl
         \/ \E outcome \in {"complete", "unavailable"} : Finish(outcome)
  PROVE  IndexOK'
<1>1. Writable /\ index' = index
  BY DEF AppendLine, AppendRefused, AppendControl, Finish, disk
<1>2. DOMAIN w = Fields /\ w.pc = "idle" /\ w.written \in Nat
  BY <1>1 DEF IndexInv, IndexOK, LogInv, WriterType, Writable
<1>3. ASSUME NEW todo, NEW line, w' = [w EXCEPT !.pc = "write", !.todo = todo, !.line = line]
      PROVE  IndexOK'
  <2>1. w'.pc = "write" /\ w'.written = w.written
    BY <1>2, <1>3 DEF Fields
  <2> QED
    BY <1>1, <1>2, <2>1, IndexStays
<1>4. CASE AppendRefused
  <2>1. \/ w' = [w EXCEPT !.pc = "write", !.todo = ControlSegments, !.line = 0, !.marker = TRUE]
        \/ w' = [w EXCEPT !.marker = TRUE]
    BY <1>4 DEF AppendRefused
  <2>2. w'.pc \in {"write", "idle"} /\ w'.written = w.written
    BY <1>2, <2>1 DEF Fields
  <2> QED
    BY <1>1, <1>2, <2>2, IndexStays
<1>5. CASE AppendLine
  <2>1. \E todo, line : w' = [w EXCEPT !.pc = "write", !.todo = todo, !.line = line]
    BY <1>5 DEF AppendLine, Begin
  <2> QED
    BY <1>3, <2>1
<1>6. CASE AppendControl
  BY <1>3, <1>6 DEF AppendControl, Begin
<1>7. ASSUME NEW outcome \in {"complete", "unavailable"}, Finish(outcome) PROVE IndexOK'
  <2>1. \E todo, line : w' = [w EXCEPT !.pc = "write", !.todo = todo, !.line = line]
    BY <1>7 DEF Finish, Begin
  <2> QED
    BY <1>3, <2>1
<1> QED
  BY <1>4, <1>5, <1>6, <1>7

(* The steps of write_segment.                                              *)
LEMMA IndexFrames ==
  ASSUME IndexInv, WriterStep
  PROVE  IndexOK'
<1>1. /\ w.pc \in Busy /\ DOMAIN w = Fields /\ w.todo \in Todo /\ w.written \in Nat /\ w.offset \in Nat
      /\ Len(Head(w.todo).body) \in Nat
  <2>1. w.pc \in Busy
    BY DEF WriterStep, WriteBytes, Flush, Sync, WriteFails, IndexFrame, Busy
  <2> QED
    BY <2>1, HeadOfTodo DEF IndexInv, IndexOK, LogInv, WriterType, Busy
<1>2. CASE WriteBytes \/ Flush \/ WriteFails
  <2>1. w'.pc # "index" /\ w'.written = w.written /\ index' = index
    BY <1>1, <1>2 DEF WriteBytes, Flush, WriteFails, Fields
  <2> QED
    BY <1>1, <2>1, IndexStays
<1>3. CASE Sync
  <2>1. /\ w'.written = w.written /\ index' = index /\ w'.todo = w.todo
        /\ w'.offset = w.offset + Len(Head(w.todo).body)
    BY <1>1, <1>3 DEF Sync, Fields
  <2>2. Len(Head(w'.todo).body) <= w'.offset
    BY <1>1, <2>1
  <2> QED
    BY <1>1, <2>1, <2>2 DEF IndexInv, IndexOK
<1>4. CASE IndexFrame
  <2>1. PICK ok \in BOOLEAN :
          w' = [w EXCEPT !.pc = IF Len(w.todo) = 1 THEN "idle" ELSE "write",
                         !.todo = Tail(w.todo), !.written = @ + 1, !.index = ok,
                         !.line = IF Len(w.todo) = 1 THEN 0 ELSE @,
                         !.sealed = Head(w.todo).outcome # None]
    BY <1>4 DEF IndexFrame
  <2>2. w'.pc \in {"idle", "write"} /\ w'.written = w.written + 1
    BY <1>1, <2>1 DEF Fields
  <2>3. w.pc = "index" /\ index' \in {index, Append(index, Torn), Append(index, Locator)}
    BY <1>4 DEF IndexFrame
  <2>4. index' \in Seq(Locators \cup {Torn})
    BY <2>3, IndexGrows
  <2> QED
    BY <1>1, <2>2, <2>4 DEF IndexOK
<1> QED
  BY <1>2, <1>3, <1>4 DEF WriterStep

(* No step writes a line that is neither a locator nor torn.                *)
LEMMA IndexedNext == IndexInv /\ [Next]_logVars => IndexInv'
<1> SUFFICES ASSUME IndexInv, [Next]_logVars PROVE IndexOK'
  BY LogStep DEF IndexInv
<1>1. CASE Open
  <2>1. /\ index' = index /\ w.pc = "closed"
        /\ \E idx \in BOOLEAN : w' = IF ScanFails THEN w ELSE Recovered(idx)
    BY <1>1 DEF Open
  <2>2. Len(owner) \in Nat
    BY UnsealedPrefix DEF IndexInv, LogInv
  <2>3. \/ w'.pc = "closed"
        \/ w'.pc = "idle" /\ w'.written \in Nat
    BY <2>1, <2>2 DEF Recovered
  <2> QED
    BY <2>1, <2>3, IndexStays
<1>2. CASE Drop
  <2>1. index' = index /\ w'.pc = "closed"
    BY <1>2 DEF Drop, Closed, disk
  <2> QED
    BY <2>1, IndexStays
<1>3. CASE Crash
  <2>1. /\ index' \in {index, Append(index, Torn), Append(index, Locator)}
        /\ w.pc # "index" => index' = index
        /\ w'.pc = "closed"
    BY <1>3 DEF Crash, Closed
  <2>2. index' \in Seq(Locators \cup {Torn})
    <3>1. CASE w.pc = "index"
      BY <2>1, <3>1, IndexGrows
    <3>2. CASE w.pc # "index"
      BY <2>1, <3>2 DEF IndexInv, IndexOK
    <3> QED
      BY <3>1, <3>2
  <2> QED
    BY <2>1, <2>2 DEF IndexOK
<1>4. CASE ReaderStep \/ UNCHANGED logVars
  <2>1. index' = index /\ w' = w
    BY <1>4 DEF ReaderStep, ReadPage, ReadProvenance, ScanSnapshot, ReadSnapshot, Confirm,
       ConfirmFails, disk, logVars
  <2> QED
    BY <2>1 DEF IndexInv, IndexOK
<1> QED
  BY <1>1, <1>2, <1>3, <1>4, IndexAppends, IndexFrames DEF Next

(* Whatever lines failed index writes, crashes and reopened writers leave   *)
(* in the index (gaps, torn lines, lines of frames that are gone), a range  *)
(* served from it is the range the owner decodes to, because every line     *)
(* used is checked against its predecessor and against the frame it leads   *)
(* to; everything else falls back to the owner.                             *)
THEOREM IndexIsOnlyACache == Spec => []CacheAgreesWithOwner
<1>1. IndexInv => CacheAgreesWithOwner
  BY CacheAgrees DEF IndexInv, LogInv
<1> QED
  BY <1>1, InitIndex, IndexedNext, PTL DEF Spec

---------------------------------------------------------------------------
(* What durable consumers accept, of bytes and snapshots (ConfirmedStays).  *)

(* What a durable consumer has accepted of bytes.                           *)
AcceptedOK ==
  /\ DOMAIN copy = {"bytes", "frames"} /\ copy.bytes \in Seq(Byte)
  /\ Begins(copy.bytes, BytesOf(Durable))

(* A page continues what was accepted before it by bytes of the log.        *)
Follows(page, have, b) ==
  \E hi \in Nat : /\ Len(have) <= hi /\ hi <= Len(b)
                  /\ Between(page, b, Len(have), hi)
ReadOK == reader.kind = "bytes" => Follows(reader.value, copy.bytes, BytesOf(owner))

(* A sealed log does not end in a partial frame.                            *)
SealWhole == Outcome(owner) # None => ~torn

(* A snapshot on its way to be reported complete is of a sealed log.        *)
ScanOK ==
  /\ reader.kind = "scan" =>
       /\ reader.value \in Nat
       /\ reader.complete => reader.value = EndOf(owner) /\ Outcome(owner) = "complete"
  /\ reader.kind = "snapshot" /\ reader.complete =>
       reader.value = BytesOf(owner) /\ Outcome(owner) = "complete"

(* A snapshot reported complete is the whole log, all of it durable.        *)
ClaimOK ==
  claim # None => /\ claim = BytesOf(owner) /\ Outcome(owner) = "complete"
                  /\ synced = Len(owner)

(* The inductive invariant behind ConfirmedIsFinal.                         *)
FinalInv == IndexInv /\ AcceptedOK /\ ReadOK /\ SealWhole /\ ScanOK /\ ClaimOK

(* A prefix of a prefix is a prefix.                                        *)
LEMMA BeginsTrans ==
  ASSUME NEW a \in Seq(Byte), NEW b \in Seq(Byte), NEW c \in Seq(Byte), Begins(a, b), Begins(b, c)
  PROVE  Begins(a, c)
<1>1. Len(a) \in Nat /\ Len(b) \in Nat /\ Len(c) \in Nat
  OBVIOUS
<1> QED
  BY <1>1 DEF Begins

(* Frames that begin others decode to bytes that begin theirs.              *)
LEMMA BytesBegin ==
  ASSUME NEW fr \in Seq(Frames), NEW gr \in Seq(Frames), Len(fr) <= Len(gr),
         \A i \in 1..Len(fr) : gr[i] = fr[i]
  PROVE  /\ BytesOf(fr) \in Seq(Byte) /\ BytesOf(gr) \in Seq(Byte)
         /\ Begins(BytesOf(fr), BytesOf(gr))
<1>1. Len(fr) \in 0..Len(gr) /\ Len(gr) \in Nat /\ Len(fr) \in Nat
  OBVIOUS
<1>2. \A i \in 1..Len(fr) : gr[i] \in Frames
  BY <1>1
<1>3. /\ SubSeq(gr, 1, Len(fr)) \in Seq(Frames) /\ Len(SubSeq(gr, 1, Len(fr))) = Len(fr)
      /\ \A i \in 1..Len(fr) : SubSeq(gr, 1, Len(fr))[i] = gr[i]
  BY <1>1, <1>2, SubSeqProperties
<1>4. SubSeq(gr, 1, Len(fr)) = fr
  BY <1>3, SeqEqual
<1> QED
  BY <1>1, <1>4, BytesCut

(* A prefix continued by the page that follows is a prefix.                 *)
LEMMA BeginsJoin ==
  ASSUME NEW c \in Seq(Byte), NEW b \in Seq(Byte), NEW s, Begins(c, b), Follows(s, c, b)
  PROVE  c \o s \in Seq(Byte) /\ Begins(c \o s, b)
<1>1. PICK hi \in Nat : /\ Len(c) <= hi /\ hi <= Len(b) /\ Between(s, b, Len(c), hi)
  BY DEF Follows
<1> DEFINE m == Len(c)
           n == Len(b)
           t == c \o s
<1>2. m \in Nat /\ n \in Nat /\ s \in Seq(Byte) /\ Len(s) = hi - m
      /\ \A j \in 1..(hi - m) : s[j] = b[m + j]
  BY <1>1 DEF Between
<1>3. /\ t \in Seq(Byte) /\ Len(t) = m + Len(s)
      /\ \A i \in 1..(m + Len(s)) : t[i] = IF i <= m THEN c[i] ELSE s[i - m]
  BY <1>2, ConcatProperties
<1>4. \A i \in 1..m : c[i] = b[i]
  BY DEF Begins
<1>5. m <= hi /\ hi <= n
  BY <1>1
<1> HIDE DEF m, n, t
<1>6. Len(t) = hi
  BY <1>2, <1>3, <1>5
<1>7. ASSUME NEW i \in 1..hi PROVE t[i] = b[i]
  <2>1. CASE i <= m
    BY <1>2, <1>3, <1>4, <1>5, <1>6, <2>1
  <2>2. CASE ~(i <= m)
    <3>1. i - m \in 1..(hi - m) /\ m + (i - m) = i /\ i \in 1..(m + Len(s))
      BY <1>2, <1>5, <2>2
    <3>2. t[i] = s[i - m]
      BY <1>3, <2>2, <3>1
    <3> QED
      BY <1>2, <3>1, <3>2
  <2> QED
    BY <2>1, <2>2
<1>8. hi <= Len(b)
  BY <1>5 DEF n
<1>9. Begins(t, b)
  BY <1>6, <1>7, <1>8 DEF Begins
<1> QED
  BY <1>3, <1>9 DEF t

(* A page that was read stays true of a log that grows.                     *)
LEMMA FollowsStays ==
  ASSUME NEW b \in Seq(Byte), NEW c \in Seq(Byte), NEW have \in Seq(Byte), NEW s,
         Begins(b, c), Follows(s, have, b)
  PROVE  Follows(s, have, c)
<1>1. PICK hi \in Nat : /\ Len(have) <= hi /\ hi <= Len(b) /\ Between(s, b, Len(have), hi)
  BY DEF Follows
<1> DEFINE m == Len(have)
<1>2. /\ m \in Nat /\ Len(b) \in Nat /\ Len(c) \in Nat /\ Len(b) <= Len(c)
      /\ \A i \in 1..Len(b) : b[i] = c[i]
  BY DEF Begins
<1>3. s \in Seq(Byte) /\ Len(s) = hi - m /\ \A j \in 1..(hi - m) : s[j] = b[m + j]
  BY <1>1 DEF Between
<1>4. m <= hi /\ hi <= Len(b)
  BY <1>1
<1> HIDE DEF m
<1>5. ASSUME NEW j \in 1..(hi - m) PROVE s[j] = c[m + j]
  <2>1. m + j \in 1..Len(b)
    BY <1>2, <1>4
  <2> QED
    BY <1>2, <1>3, <2>1
<1>6. Between(s, c, m, hi) /\ m <= hi /\ hi <= Len(c)
  BY <1>2, <1>3, <1>4, <1>5 DEF Between
<1> QED
  BY <1>6 DEF Follows, m

(* A range that was read, by whichever way, is a range of the log; and a    *)
(* read of the whole log is the log.                                        *)
LEMMA RangeRead ==
  ASSUME OwnerInv, IndexOK, NEW from \in Nat, NEW to \in Nat, from <= to
  PROVE  /\ ReadRange(from, to) \notin {Err, <<>>} =>
              \E hi \in Nat : /\ from <= hi /\ hi <= Len(BytesOf(owner))
                              /\ ReadRange(from, to) = SubSeq(BytesOf(owner), from + 1, hi)
         /\ from = 0 /\ to = EndOf(owner) => ReadRange(from, to) = BytesOf(owner)
<1> DEFINE b == BytesOf(owner)
           r == ReadRange(from, to)
<1>1. b \in Seq(Byte) /\ Len(b) \in Nat /\ EndOf(owner) = Len(b)
  BY DurableBytes, EndIsLength
<1>2. r \in {ReadFromIndex(from, to), ReadByStreaming(from, to)}
      /\ (ReadFromIndex(from, to) = Err => r = ReadByStreaming(from, to))
  BY DEF ReadRange
<1>3. CASE from >= to
  <2>1. r = <<>>
    BY <1>2, <1>3 DEF ReadFromIndex, ReadByStreaming
  <2>2. from = 0 /\ to = EndOf(owner) => b = <<>>
    BY <1>1, <1>3, EmptySeq
  <2> QED
    BY <2>1, <2>2
<1>4. CASE from < to
  <2> DEFINE Part(x) == \E hi \in Nat : /\ from <= hi /\ hi <= Len(b)
                                        /\ x = SubSeq(b, from + 1, hi)
  <2>1. SubSeq(b, 0 + 1, Len(b)) = b
    <3>1. /\ SubSeq(b, 0 + 1, Len(b)) \in Seq(Byte) /\ Len(SubSeq(b, 0 + 1, Len(b))) = Len(b) - 0
          /\ \A i \in 1..(Len(b) - 0) : SubSeq(b, 0 + 1, Len(b))[i] = b[0 + i]
      BY <1>1, RangeIs
    <3>2. Len(b) - 0 = Len(b) /\ \A i \in 1..Len(b) : 0 + i = i
      BY <1>1
    <3> DEFINE q == SubSeq(b, 0 + 1, Len(b))
    <3>3. q \in Seq(Byte) /\ Len(q) = Len(b) /\ \A i \in 1..Len(b) : q[i] = b[i]
      BY <3>1, <3>2
    <3> HIDE DEF q, b
    <3>4. q = b
      BY <1>1, <3>3, SeqEqual
    <3> QED
      BY <3>4 DEF q
  <2>2. CASE ReadFromIndex(from, to) = Err
    <3>1. r = ReadByStreaming(from, to)
      BY <1>2, <2>2
    <3>2. r \notin {Err, <<>>} => Part(r)
      <4>1. \/ r = Err
            \/ \E hi \in 0..to : /\ hi <= Len(b)
                                 /\ r = IF from <= hi THEN SubSeq(b, from + 1, hi) ELSE <<>>
        BY <1>4, <3>1, StreamingIs
      <4> HIDE DEF r, b
      <4> QED
        BY <4>1
    <3>3. to <= Len(b) => r = SubSeq(b, from + 1, to)
      BY <1>1, <1>4, <3>1, StreamingIs
    <3>4. from = 0 /\ to = Len(b) => r = b
      <4> SUFFICES ASSUME from = 0, to = Len(b) PROVE r = b
        OBVIOUS
      <4>1. r = SubSeq(b, 0 + 1, Len(b))
        BY <1>1, <3>3
      <4> QED
        BY <2>1, <4>1
    <3> QED
      BY <1>1, <3>2, <3>4
  <2>3. CASE ReadFromIndex(from, to) # Err
    <3>1. r = ReadFromIndex(from, to)
      BY <2>3 DEF ReadRange
    <3>2. to <= Len(b) /\ r = SubSeq(b, from + 1, to)
      BY <1>4, <2>3, <3>1, IndexedIs
    <3>3. Part(r)
      <4> HIDE DEF r, b
      <4> QED
        BY <1>4, <3>2
    <3>4. from = 0 /\ to = Len(b) => r = b
      <4> SUFFICES ASSUME from = 0, to = Len(b) PROVE r = b
        OBVIOUS
      <4>1. r = SubSeq(b, 0 + 1, Len(b))
        BY <3>2
      <4> QED
        BY <2>1, <4>1
    <3> QED
      BY <1>1, <3>3, <3>4
  <2> QED
    BY <2>2, <2>3
<1> QED
  BY <1>3, <1>4

(* A consumer starts with nothing.                                          *)
LEMMA InitFinal == Init => FinalInv
<1> SUFFICES ASSUME Init PROVE AcceptedOK /\ ReadOK /\ SealWhole /\ ScanOK /\ ClaimOK
  BY InitIndex DEF FinalInv
<1>1. owner = <<>> /\ torn = FALSE /\ synced = 0 /\ claim = None /\ reader.kind = "none"
      /\ copy = [bytes |-> <<>>, frames |-> <<>>]
  BY DEF Init, NoReader
<1>2. OwnerInv
  BY InitLog DEF LogInv
<1>3. BytesOf(Durable) \in Seq(Byte) /\ Len(BytesOf(Durable)) \in Nat
  BY <1>2, DurableBytes
<1>4. AcceptedOK
  <2>1. copy.bytes = <<>> /\ DOMAIN copy = {"bytes", "frames"}
    BY <1>1
  <2>2. Begins(<<>>, BytesOf(Durable))
    BY <1>3 DEF Begins
  <2> QED
    BY <2>1, <2>2 DEF AcceptedOK
<1> QED
  BY <1>1, <1>4 DEF ReadOK, SealWhole, ScanOK, ClaimOK

(* The bytes on disk only grow.                                             *)
LEMMA DurableGrows ==
  ASSUME LogInv, LogInv', [Evidence!Grow]_Durable
  PROVE  /\ BytesOf(Durable) \in Seq(Byte) /\ BytesOf(Durable') \in Seq(Byte)
         /\ Begins(BytesOf(Durable), BytesOf(Durable'))
<1>1. /\ owner \in Seq(Frames) /\ synced \in 0..Len(owner)
      /\ owner' \in Seq(Frames) /\ synced' \in 0..Len(owner')
  BY DEF LogInv, OwnerInv
<1>2. Durable \in Seq(Frames) /\ Durable' \in Seq(Frames)
  <2>1. ASSUME NEW fr \in Seq(Frames), NEW k \in 0..Len(fr) PROVE SubSeq(fr, 1, k) \in Seq(Frames)
    <3>1. \A i \in 1..k : fr[i] \in Frames
      OBVIOUS
    <3> QED
      BY <3>1, SubSeqProperties
  <2> QED
    BY <1>1, <2>1 DEF Durable
<1>3. Len(Durable) <= Len(Durable') /\ \A i \in 1..Len(Durable) : Durable'[i] = Durable[i]
  <2>1. Len(Durable) \in Nat /\ Len(Durable') \in Nat
    BY <1>2
  <2> HIDE DEF Durable
  <2> QED
    BY <2>1 DEF Evidence!Grow
<1> HIDE DEF Durable
<1> QED
  BY <1>2, <1>3, BytesBegin

(* A sealed log is written no further and loses nothing it had confirmed.   *)
LEMMA SealedStays ==
  ASSUME LogInv, [Next]_logVars, Outcome(owner) = "complete"
  PROVE  /\ ~Crash => owner' = owner /\ synced' \in {synced, Len(owner)}
         /\ synced = Len(owner) => owner' = owner /\ synced' = Len(owner)
<1>1. Outcome(owner) # None
  BY CaptureAssumption
<1>2. ~Flush
  BY <1>1 DEF Flush, LogInv, WriterInv
<1>3. ASSUME ~Crash PROVE owner' = owner /\ synced' \in {synced, Len(owner)}
  <2>1. ASSUME NEW o \in {"complete", "unavailable"}, Finish(o) PROVE <1>3!2
    BY <2>1 DEF Finish, disk
  <2>2. ASSUME ReaderStep PROVE <1>3!2
    BY <2>2 DEF ReaderStep, ReadPage, ReadProvenance, ScanSnapshot, ReadSnapshot, Confirm,
       ConfirmFails, disk
  <2> QED
    BY <1>2, <1>3, <2>1, <2>2 DEF Next, WriterStep, Open, Drop, AppendLine, AppendRefused, AppendControl,
       WriteBytes, Sync, WriteFails, IndexFrame, disk, logVars
<1>4. ASSUME Crash, synced = Len(owner) PROVE owner' = owner /\ synced' = Len(owner)
  <2>1. PICK kept \in synced..Len(owner) : owner' = SubSeq(owner, 1, kept)
    BY <1>4 DEF Crash
  <2>2. Len(owner) \in Nat /\ owner \in Seq(Frames)
    BY DEF LogInv, OwnerInv
  <2>3. kept = Len(owner)
    BY <1>4, <2>1, <2>2
  <2>4. Durable = owner /\ Durable = SubSeq(owner, 1, Len(owner))
    BY <1>4, AllIsDurable DEF LogInv, Durable
  <2> QED
    BY <1>4, <2>1, <2>3, <2>4 DEF Crash
<1> QED
  BY <1>3, <1>4

(* A frame that seals the log was written whole.                            *)
LEMMA SealWholeStep ==
  ASSUME LogInv, SealWhole, [Next]_logVars
  PROVE  SealWhole'
<1>t. torn \in BOOLEAN /\ owner \in Seq(Frames) /\ Len(owner) \in Nat
  BY DEF LogInv, RestInv, OwnerInv
<1>1. CASE WriteBytes
  <2>1. Outcome(owner) = None /\ owner' = owner
    BY <1>1 DEF WriteBytes, LogInv, WriterInv
  <2> QED
    BY <2>1 DEF SealWhole, Outcome
<1>2. CASE Flush
  BY <1>2 DEF Flush, SealWhole
<1>3. CASE WriteFails
  <2>1. /\ owner' = owner
        /\ (w.pc = "flush" /\ Outcome(owner) = None) \/ torn' = FALSE
    BY <1>3 DEF WriteFails, LogInv, WriterInv
  <2> QED
    BY <2>1 DEF SealWhole, Outcome
<1>4. CASE Crash
  <2>1. PICK kept \in synced..Len(owner) :
          /\ owner' = SubSeq(owner, 1, kept)
          /\ torn' \in IF torn \/ kept < Len(owner) THEN BOOLEAN ELSE {FALSE}
    BY <1>4 DEF Crash
  <2>2. kept \in 0..Len(owner)
    BY <1>t, <2>1 DEF LogInv, OwnerInv
  <2>3. /\ owner' \in Seq(Frames) /\ Len(owner') = kept
        /\ \A i \in 1..kept : owner'[i] = owner[i]
    BY <2>1, <2>2, CutFrames DEF LogInv, OwnerInv
  <2>4. CASE kept < Len(owner)
    <3>1. owner' # <<>> => kept \in 1..(Len(owner) - 1) /\ owner'[Len(owner')] = owner[kept]
      BY <1>t, <2>2, <2>3, <2>4
    <3>2. owner' # <<>> => owner[kept].outcome = None
      BY <1>t, <3>1 DEF LogInv, OwnerInv, Contiguous
    <3>3. Outcome(owner') = None
      BY <3>1, <3>2 DEF Outcome
    <3> QED
      BY <3>3 DEF SealWhole
  <2>5. CASE ~(kept < Len(owner))
    <3>1. kept = Len(owner)
      BY <1>t, <2>2, <2>5
    <3>2. owner' = owner
      BY <1>t, <2>3, <3>1, SeqEqual
    <3>3. torn' => torn
      BY <1>t, <2>1, <2>5
    <3> QED
      BY <3>2, <3>3 DEF SealWhole
  <2> QED
    BY <2>4, <2>5
<1>5. CASE ~WriteBytes /\ ~Flush /\ ~WriteFails /\ ~Crash
  <2>1. owner' = owner /\ torn' = torn
    <3>1. ASSUME NEW o \in {"complete", "unavailable"}, Finish(o) PROVE <2>1!:
      BY <3>1 DEF Finish, disk
    <3>2. ASSUME ReaderStep PROVE <2>1!:
      BY <3>2 DEF ReaderStep, ReadPage, ReadProvenance, ScanSnapshot, ReadSnapshot, Confirm,
         ConfirmFails, disk
    <3> QED
      BY <1>5, <3>1, <3>2 DEF Next, WriterStep, Open, Drop, AppendLine, AppendRefused, AppendControl,
         Sync, IndexFrame, disk, logVars
  <2> QED
    BY <2>1 DEF SealWhole
<1> QED
  BY <1>1, <1>2, <1>3, <1>4, <1>5

(* Steps of the writer and crashes leave what was read and accepted true.   *)
LEMMA FinalBeside ==
  ASSUME FinalInv, IndexInv', [Evidence!Grow]_Durable, Next, ~ReaderStep
  PROVE  AcceptedOK' /\ ReadOK' /\ ScanOK' /\ ClaimOK'
<1>1. /\ copy' = copy /\ reader' \in {reader, NoReader}
      /\ reader' # NoReader => /\ Len(owner) <= Len(owner')
                               /\ \A i \in 1..Len(owner) : owner'[i] = owner[i]
  BY WriterKeepsFrames DEF FinalInv, IndexInv
<1>2. claim' = claim
  <2>1. ASSUME NEW o \in {"complete", "unavailable"}, Finish(o) PROVE claim' = claim
    BY <2>1 DEF Finish, readers
  <2> QED
    BY <2>1 DEF Next, WriterStep, Open, Drop, AppendLine, AppendRefused, AppendControl,
       WriteBytes, Flush, Sync, WriteFails, IndexFrame, Crash, readers
<1>3. LogInv /\ LogInv' /\ OwnerInv /\ OwnerInv'
  BY DEF FinalInv, IndexInv, LogInv
<1>4. AcceptedOK'
  <2>1. /\ BytesOf(Durable) \in Seq(Byte) /\ BytesOf(Durable') \in Seq(Byte)
        /\ Begins(BytesOf(Durable), BytesOf(Durable'))
    BY <1>3, DurableGrows
  <2>2. copy.bytes \in Seq(Byte) /\ Begins(copy.bytes, BytesOf(Durable)) /\ DOMAIN copy = {"bytes", "frames"}
    BY DEF FinalInv, AcceptedOK
  <2>3. Begins(copy.bytes, BytesOf(Durable'))
    BY <2>1, <2>2, BeginsTrans
  <2> QED
    BY <1>1, <2>2, <2>3 DEF AcceptedOK
<1>5. ReadOK'
  <2>1. CASE reader' = NoReader
    BY <2>1 DEF ReadOK, NoReader
  <2>2. CASE reader' = reader /\ reader' # NoReader /\ reader.kind = "bytes"
    <3>1. owner \in Seq(Frames) /\ owner' \in Seq(Frames) /\ copy.bytes \in Seq(Byte)
      BY <1>3 DEF OwnerInv, FinalInv, AcceptedOK
    <3>2. /\ BytesOf(owner) \in Seq(Byte) /\ BytesOf(owner') \in Seq(Byte)
          /\ Begins(BytesOf(owner), BytesOf(owner'))
      BY <1>1, <2>2, <3>1, BytesBegin
    <3>3. Follows(reader.value, copy.bytes, BytesOf(owner))
      BY <2>2 DEF FinalInv, ReadOK
    <3>4. Follows(reader.value, copy.bytes, BytesOf(owner'))
      BY <3>1, <3>2, <3>3, FollowsStays
    <3> QED
      BY <1>1, <2>2, <3>4 DEF ReadOK
  <2>3. CASE reader' = reader /\ reader.kind # "bytes"
    BY <2>3 DEF ReadOK
  <2> QED
    BY <1>1, <2>1, <2>2, <2>3
<1>6. ScanOK'
  <2>1. CASE reader' = NoReader
    BY <2>1 DEF ScanOK, NoReader
  <2>2. CASE reader' = reader /\ reader' # NoReader
    <3>1. ~Crash
      BY <2>2 DEF Crash
    <3>2. Outcome(owner) = "complete" => owner' = owner
      BY <1>3, <3>1, SealedStays
    <3> QED
      BY <2>2, <3>2 DEF FinalInv, ScanOK
  <2> QED
    BY <1>1, <2>1, <2>2
<1>7. ClaimOK'
  <2>1. claim # None => owner' = owner /\ synced' = Len(owner)
    BY <1>3, SealedStays DEF FinalInv, ClaimOK
  <2> QED
    BY <1>2, <2>1 DEF FinalInv, ClaimOK
<1> QED
  BY <1>4, <1>5, <1>6, <1>7

(* Reads return what the log has from the place asked for.                  *)
LEMMA FinalReads ==
  ASSUME FinalInv, ReaderStep, ~Confirm
  PROVE  AcceptedOK' /\ ReadOK' /\ ScanOK' /\ ClaimOK'
<1>1. owner' = owner /\ synced' = synced /\ copy' = copy /\ claim' = claim
  BY DEF ReaderStep, ReadPage, ReadProvenance, ScanSnapshot, ReadSnapshot, ConfirmFails, disk
<1>2. AcceptedOK' /\ ClaimOK'
  BY <1>1 DEF FinalInv, AcceptedOK, ClaimOK, Durable
<1>t. OwnerInv /\ IndexOK /\ EndOf(owner) \in Nat
  BY EndIsLength DEF FinalInv, IndexInv, LogInv
<1>3. ASSUME NEW n \in PageSizes, ReadPage(n) PROVE ReadOK' /\ ScanOK'
  <2> DEFINE from == Len(copy.bytes)
             page == ReadRange(from, from + n)
             b == BytesOf(owner)
  <2>1. reader' = [kind |-> "bytes", value |-> page] /\ page \notin {Err, <<>>}
    BY <1>3 DEF ReadPage
  <2>2. from \in Nat /\ n \in Nat /\ from + n \in Nat /\ from <= from + n
    BY LogAssumption DEF FinalInv, AcceptedOK
  <2>3. PICK hi \in Nat : from <= hi /\ hi <= Len(b) /\ page = SubSeq(b, from + 1, hi)
    <3> DEFINE to == from + n
    <3>1. to \in Nat /\ from <= to /\ ReadRange(from, to) \notin {Err, <<>>}
      BY <2>1, <2>2
    <3> HIDE DEF to, from
    <3>2. \E hi \in Nat : from <= hi /\ hi <= Len(b) /\ ReadRange(from, to) = SubSeq(b, from + 1, hi)
      BY <1>t, <2>2, <3>1, RangeRead
    <3> QED
      BY <3>2 DEF to, from
  <2>4. b \in Seq(Byte)
    BY <1>t, DurableBytes
  <2> HIDE DEF page, b
  <2>5. Between(page, b, from, hi)
    BY <2>2, <2>3, <2>4, RangeIs DEF Between
  <2>6. Follows(page, copy.bytes, b)
    BY <2>3, <2>5 DEF Follows
  <2> QED
    BY <1>1, <2>1, <2>6 DEF ReadOK, ScanOK, b
<1>4. ASSUME NEW n \in PageSizes, ReadProvenance(n) PROVE ReadOK' /\ ScanOK'
  BY <1>4 DEF ReadProvenance, ReadOK, ScanOK
<1>5. CASE ScanSnapshot
  <2>1. reader' = [kind |-> "scan",
                value |-> IF EndOf(owner) <= PageBytes THEN EndOf(owner) ELSE PageBytes,
                complete |-> EndOf(owner) <= PageBytes /\ Outcome(owner) = "complete"]
    BY <1>5 DEF ScanSnapshot
  <2>2. /\ reader'.kind = "scan" /\ reader'.value \in Nat
        /\ reader'.complete => reader'.value = EndOf(owner) /\ Outcome(owner) = "complete"
    BY <1>t, <2>1, LogAssumption
  <2> QED
    BY <1>1, <1>2, <2>2 DEF ReadOK, ScanOK
<1>6. CASE ReadSnapshot
  <2> DEFINE bytes == ReadRange(0, reader.value)
  <2>1. CASE reader' = NoReader
    BY <1>2, <2>1 DEF ReadOK, ScanOK, NoReader
  <2>2. CASE reader' = [kind |-> "snapshot", value |-> bytes, complete |-> reader.complete]
    <3>1. /\ reader.value \in Nat
          /\ reader.complete => reader.value = EndOf(owner) /\ Outcome(owner) = "complete"
      BY <1>6 DEF ReadSnapshot, FinalInv, ScanOK
    <3>2. reader.complete => bytes = BytesOf(owner)
      BY <1>t, <3>1, RangeRead
    <3> QED
      BY <1>1, <1>2, <2>2, <3>1, <3>2 DEF ReadOK, ScanOK
  <2> QED
    BY <1>6, <2>1, <2>2 DEF ReadSnapshot
<1>7. CASE ConfirmFails
  BY <1>2, <1>7 DEF ConfirmFails, ReadOK, ScanOK, NoReader
<1> QED
  BY <1>2, <1>3, <1>4, <1>5, <1>6, <1>7 DEF ReaderStep

(* The barrier after the read covers all that was read.                     *)
LEMMA FinalConfirm ==
  ASSUME FinalInv, Confirm, IndexInv'
  PROVE  AcceptedOK' /\ ReadOK' /\ ScanOK' /\ ClaimOK'
<1>1. /\ synced' = Len(owner) /\ owner' = owner /\ reader'.kind = "none"
  BY DEF Confirm, NoReader
<1>2. ReadOK' /\ ScanOK'
  BY <1>1 DEF ReadOK, ScanOK
<1>3. OwnerInv /\ OwnerInv'
  BY DEF FinalInv, IndexInv, LogInv
<1>4. ClaimOK'
  <2>1. claim' = IF reader.kind = "snapshot" /\ reader.complete THEN reader.value ELSE claim
    BY DEF Confirm
  <2> QED
    BY <1>1, <2>1 DEF FinalInv, ScanOK, ClaimOK
<1>5. Durable' = owner
  <2>1. Durable' = SubSeq(owner, 1, Len(owner))
    BY <1>1 DEF Durable
  <2>2. owner \in Seq(Frames)
    BY <1>3 DEF OwnerInv
  <2> QED
    BY <2>1, <2>2, SubSeqFull
<1> DEFINE b == BytesOf(owner)
<1>6. b \in Seq(Byte) /\ copy.bytes \in Seq(Byte) /\ DOMAIN copy = {"bytes", "frames"} /\ Begins(copy.bytes, b)
  <2>1. /\ BytesOf(owner) \in Seq(Byte) /\ BytesOf(Durable) \in Seq(Byte)
        /\ Begins(BytesOf(Durable), BytesOf(owner))
    BY <1>3, DurableBytes
  <2>2. copy.bytes \in Seq(Byte) /\ Begins(copy.bytes, BytesOf(Durable)) /\ DOMAIN copy = {"bytes", "frames"}
    BY DEF FinalInv, AcceptedOK
  <2> QED
    BY <2>1, <2>2, BeginsTrans
<1>7. DOMAIN copy' = {"bytes", "frames"} /\ copy'.bytes \in Seq(Byte) /\ Begins(copy'.bytes, b)
  <2>1. CASE reader.kind = "bytes"
    <3>1. copy' = [copy EXCEPT !.bytes = copy.bytes \o reader.value]
      BY <2>1 DEF Confirm
    <3>2. DOMAIN copy' = {"bytes", "frames"} /\ copy'.bytes = copy.bytes \o reader.value
      BY <1>6, <3>1
    <3>3. Follows(reader.value, copy.bytes, b)
      BY <2>1 DEF FinalInv, ReadOK
    <3>4. copy.bytes \o reader.value \in Seq(Byte) /\ Begins(copy.bytes \o reader.value, b)
      <4> HIDE DEF b
      <4> QED BY <1>6, <3>3, BeginsJoin
    <3> QED
      BY <3>2, <3>4, Zenon
  <2>2. CASE reader.kind # "bytes"
    <3>1. DOMAIN copy' = {"bytes", "frames"} /\ copy'.bytes = copy.bytes
      BY <1>6, <2>2 DEF Confirm
    <3> QED
      BY <1>6, <3>1, Zenon
  <2> QED
    BY <2>1, <2>2
<1>8. AcceptedOK'
  BY <1>5, <1>7 DEF AcceptedOK
<1> QED
  BY <1>2, <1>4, <1>8

(* No step takes back what was confirmed.                                   *)
LEMMA FinalStep == FinalInv /\ [Next]_logVars => FinalInv'
<1> SUFFICES ASSUME FinalInv, [Next]_logVars PROVE FinalInv'
  OBVIOUS
<1>1. IndexInv' /\ [Evidence!Grow]_Durable /\ SealWhole'
  BY IndexedNext, LogStep, SealWholeStep DEF FinalInv, IndexInv
<1>2. CASE UNCHANGED logVars
  BY <1>1, <1>2 DEF FinalInv, AcceptedOK, ReadOK, ScanOK, ClaimOK, Durable, logVars, disk, readers
<1>3. CASE Next /\ ~ReaderStep
  BY <1>1, <1>3, FinalBeside DEF FinalInv
<1>4. CASE ReaderStep
  BY <1>1, <1>4, FinalReads, FinalConfirm DEF FinalInv
<1> QED
  BY <1>2, <1>3, <1>4

(* What read_confirmed handed to a durable consumer, in bytes or in frames, *)
(* is the beginning of the durable log in every later state, and a snapshot *)
(* reported complete is the whole log and stays it: each answer is given    *)
(* after a barrier taken behind the read, a sealed log is never written     *)
(* again, and a crash cuts only behind the barrier.                         *)
THEOREM ConfirmedStays == Spec => []ConfirmedIsFinal
<1>1. FinalInv => /\ IsPrefix(copy.bytes, BytesOf(Durable))
                  /\ claim # None => claim = BytesOf(owner) /\ ~torn
  <2> SUFFICES ASSUME FinalInv PROVE <1>1!2
    OBVIOUS
  <2>1. claim # None => claim = BytesOf(owner) /\ ~torn
    BY CaptureAssumption DEF FinalInv, ClaimOK, SealWhole
  <2> DEFINE a == copy.bytes
             b == BytesOf(Durable)
  <2>2. a \in Seq(Byte) /\ b \in Seq(Byte) /\ Len(a) \in Nat /\ Begins(a, b)
    BY DurableBytes DEF FinalInv, AcceptedOK, IndexInv, LogInv
  <2> HIDE DEF a, b
  <2>3. Len(a) <= Len(b) /\ \A i \in 1..Len(a) : a[i] = b[i] /\ a[i] \in Byte /\ b[i] \in Byte
    BY <2>2 DEF Begins
  <2>4. /\ SubSeq(a, 1, Len(a)) \in Seq(Byte) /\ Len(SubSeq(a, 1, Len(a))) = Len(a)
        /\ \A i \in 1..Len(a) : SubSeq(a, 1, Len(a))[i] = a[i]
        /\ SubSeq(b, 1, Len(a)) \in Seq(Byte) /\ Len(SubSeq(b, 1, Len(a))) = Len(a)
        /\ \A i \in 1..Len(a) : SubSeq(b, 1, Len(a))[i] = b[i]
    BY <2>2, <2>3, SubSeqProperties
  <2>5. SubSeq(a, 1, Len(a)) = SubSeq(b, 1, Len(a))
    BY <2>3, <2>4, SeqEqual
  <2>6. IsPrefix(a, b)
    BY <2>3, <2>5 DEF IsPrefix
  <2> QED
    BY <2>1, <2>6 DEF a, b
<1>2. Spec => []FinalInv
  BY InitFinal, FinalStep, PTL DEF Spec
<1>3. FinalInv /\ FramesAreFinal => ConfirmedIsFinal
  BY <1>1 DEF ConfirmedIsFinal
<1> QED
  BY <1>2, <1>3, AcceptedFramesAreFinal, PTL

---------------------------------------------------------------------------
(* The mirror of the UI (StreamsAccount, ShownIsKept).                      *)

(* The messages of the mirror, its entries and what a stream receives.      *)
Message == 1..Finished
Entry == [seq : Nat, msg : Message]
Received == [msg : 0..Finished, missing : Nat]

(* The ring h holds the last of the messages p, under their own numbers.    *)
Ring(h, p) ==
  /\ p \in Seq(Message) /\ h \in Seq(Entry) /\ Len(h) <= Len(p)
  /\ \A i \in 1..Len(h) : /\ h[i].seq = (Len(p) - Len(h)) + i - 1
                          /\ h[i].msg = p[(Len(p) - Len(h)) + i]

(* An item takes a subscriber of the messages p from place a to place b.    *)
Came(a, item, b, p) ==
  \/ item.missing > 0 /\ b = a + item.missing
  \/ item.missing = 0 /\ a < Len(p) /\ p[a + 1] = item.msg /\ b = a + 1

(* The items got take a subscriber from one place to another.               *)
Traced(f, from, got, next, p) ==
  /\ f \in [0..Len(got) -> 0..Len(p)] /\ f[0] = from /\ f[Len(got)] = next
  /\ \A i \in 1..Len(got) : Came(f[i-1], got[i], f[i], p)
Told(from, got, next, p) == \E f : Traced(f, from, got, next, p)

(* The size of a ring is a number.                                          *)
LEMMA TotalIs ==
  ASSUME NEW h \in Seq(Entry)
  PROVE  TotalBytes(h) \in Nat
<1> DEFINE N == Len(h)
           size(i) == MsgBytes[h[i].msg]
           step == [p \in (1..N) \X Nat |-> p[2] + size(p[1])]
<1>n. N \in Nat /\ \A i \in 1..N : size(i) \in Nat
  <2>1. ASSUME NEW i \in 1..N PROVE size(i) \in Nat
    <3>1. h[i] \in Entry
      OBVIOUS
    <3>2. h[i].msg \in DOMAIN MsgBytes
      BY <3>1, CaptureAssumption DEF Entry, Message, Finished
    <3> QED
      BY <3>2, StoreAssumption
  <2> QED
    BY <2>1
<1>s. step \in Steps(N, Nat)
  <2> HIDE DEF size, N
  <2> QED
    BY <1>n DEF Steps
<1>0. PICK f : Run(f, 0, N, Nat, step)
  <2> HIDE DEF step, N
  <2> QED
    BY <1>n, <1>s, Recursion
<1>1. /\ f \in [0..N -> Nat] /\ f[0] = 0
      /\ \A i \in 1..N : f[i] = step[<<i, f[i-1]>>]
  BY <1>0 DEF Run
<1>2. ASSUME NEW i \in 1..N PROVE f[i] = f[i-1] + size(i)
  <2>1. i - 1 \in 0..N
    BY <1>n
  <2>2. f[i-1] \in Nat
    BY <2>1, <1>1
  <2>3. <<i, f[i-1]>> \in (1..N) \X Nat
    BY <2>2
  <2> QED
    BY <2>3, <1>1
<1> DEFINE sum[i \in 0..N] == IF i = 0 THEN 0 ELSE sum[i-1] + size(i)
           F(g) == [i \in 0..N |-> IF i = 0 THEN 0 ELSE g[i-1] + size(i)]
<1>3. TotalBytes(h) = sum[N]
  BY DEF TotalBytes
<1>4. f = F(f)
  <2>1. ASSUME NEW i \in 0..N PROVE f[i] = F(f)[i]
    <3>1. CASE i = 0
      BY <3>1, <1>1
    <3>2. CASE i # 0
      <4>1. i \in 1..N
        BY <3>2, <1>n
      <4> QED
        BY <3>2, <4>1, <1>2
    <3> QED
      BY <3>1, <3>2
  <2> QED
    BY <2>1, <1>1
<1>5. sum = F(sum)
  <2>1. \E g : g = F(g)
    BY <1>4, Zenon
  <2> QED
    BY <2>1, Zenon
<1>6. \A i \in 0..N : sum[i] = IF i = 0 THEN 0 ELSE sum[i-1] + size(i)
  <2> HIDE DEF sum
  <2> QED
    BY <1>5
<1> HIDE DEF sum
<1> DEFINE T == {n \in Nat : n <= N => sum[n] \in Nat}
<1>7. 0 \in T
  BY <1>6, <1>n
<1>8. ASSUME NEW n \in Nat, n \in T PROVE n + 1 \in T
  <2> SUFFICES ASSUME n + 1 <= N PROVE sum[n+1] \in Nat
    OBVIOUS
  <2>1. n + 1 \in 0..N /\ n + 1 \in 1..N /\ n + 1 # 0 /\ (n+1) - 1 = n /\ n <= N
    BY <1>n
  <2>2. sum[n+1] = sum[n] + size(n+1)
    BY <1>6, <2>1
  <2>3. sum[n] \in Nat /\ size(n+1) \in Nat
    BY <1>8, <1>n, <2>1
  <2> HIDE DEF size
  <2> QED
    BY <2>2, <2>3
<1>9. N \in T
  <2> HIDE DEF T
  <2> QED
    BY <1>7, <1>8, <1>n, SetInduction
<1> QED
  BY <1>n, <1>3, <1>9

(* The ring without its first k - 1 entries.                                *)
LEMMA Suffix ==
  ASSUME NEW h \in Seq(Entry), NEW k \in 1..(Len(h) + 1)
  PROVE  /\ SubSeq(h, k, Len(h)) \in Seq(Entry)
         /\ Len(SubSeq(h, k, Len(h))) = Len(h) - (k - 1)
         /\ \A i \in 1..(Len(h) - (k - 1)) : SubSeq(h, k, Len(h))[i] = h[(k - 1) + i]
<1> DEFINE n == Len(h)
           r == SubSeq(h, k, n)
<1>1. n \in Nat /\ k \in Nat /\ k >= 1 /\ k <= n + 1
  OBVIOUS
<1>2. \A i \in k..n : h[i] \in Entry
  OBVIOUS
<1>3. /\ r \in Seq(Entry)
      /\ Len(r) = IF k <= n THEN n - k + 1 ELSE 0
      /\ \A i \in 1..(n - k + 1) : r[i] = h[k + i - 1]
  BY <1>1, <1>2, SubSeqProperties
<1> HIDE DEF r, n
<1>4. n - k + 1 = n - (k - 1) /\ \A i \in Nat : k + i - 1 = (k - 1) + i
  BY <1>1
<1>5. Len(r) = n - (k - 1)
  BY <1>1, <1>3
<1>6. \A i \in 1..(n - (k - 1)) : r[i] = h[(k - 1) + i]
  BY <1>3, <1>4
<1> QED
  BY <1>3, <1>5, <1>6 DEF r, n

(* Eviction drops the oldest entries, and all of them for a message that    *)
(* could never fit.                                                         *)
LEMMA EvictIs ==
  ASSUME history \in Seq(Entry), NEW bytes \in Nat
  PROVE  /\ \E k \in 1..(Len(history) + 1) : Evict(bytes) = SubSeq(history, k, Len(history))
         /\ bytes > HistoryBytes => Evict(bytes) = <<>>
<1> DEFINE n == Len(history)
           fits(k) == TotalBytes(SubSeq(history, k, n)) + bytes <= HistoryBytes
           keep == {k \in 1..(n + 1) : fits(k) \/ k = n + 1}
           c == CHOOSE k \in keep : \A j \in keep : k <= j
<1>1. n \in Nat /\ n + 1 \in keep /\ keep \subseteq 1..(n + 1) /\ keep \in SUBSET Nat
  OBVIOUS
<1>2. Evict(bytes) = SubSeq(history, c, n)
  BY DEF Evict
<1>3. c \in keep
  <2>1. \E k \in keep : \A j \in keep : k <= j
    <3> HIDE DEF keep
    <3> QED
      BY <1>1, LeastNumber
  <2> HIDE DEF keep
  <2> QED
    BY <2>1
<1>4. c \in 1..(n + 1) /\ (fits(c) \/ c = n + 1)
  BY <1>3
<1> HIDE DEF c, keep
<1>5. SubSeq(history, c, n) \in Seq(Entry) /\ Len(SubSeq(history, c, n)) = n - (c - 1)
  BY <1>4, Suffix
<1>6. ASSUME bytes > HistoryBytes PROVE Evict(bytes) = <<>>
  <2>1. TotalBytes(SubSeq(history, c, n)) \in Nat /\ HistoryBytes \in Nat
    BY <1>5, TotalIs, StoreAssumption
  <2>2. c = n + 1
    BY <1>4, <1>6, <2>1
  <2>3. n - ((n + 1) - 1) = 0
    BY <1>1
  <2>4. Len(SubSeq(history, c, n)) = 0
    BY <1>5, <2>2, <2>3
  <2> QED
    BY <1>2, <1>5, <2>4, EmptySeq
<1> QED
  BY <1>2, <1>4, <1>6

(* A ring without its oldest entries holds the last messages.               *)
LEMMA RingCut ==
  ASSUME NEW h, NEW p, Ring(h, p), NEW k \in 1..(Len(h) + 1)
  PROVE  Ring(SubSeq(h, k, Len(h)), p)
<1> DEFINE n == Len(h)
           r == SubSeq(h, k, n)
           d == k - 1
           q == Len(p)
<1>1. /\ p \in Seq(Message) /\ h \in Seq(Entry) /\ n <= q /\ n \in Nat /\ q \in Nat
      /\ \A i \in 1..n : h[i].seq = (q - n) + i - 1 /\ h[i].msg = p[(q - n) + i]
  BY DEF Ring
<1>2. /\ r \in Seq(Entry) /\ Len(r) = n - d
      /\ \A i \in 1..(n - d) : r[i] = h[d + i]
  BY <1>1, Suffix
<1>3. d \in Nat /\ d <= n
  BY <1>1
<1> HIDE DEF r, n, d, q
<1>4. ASSUME NEW i \in 1..Len(r)
      PROVE  r[i].seq = (q - Len(r)) + i - 1 /\ r[i].msg = p[(q - Len(r)) + i]
  <2>1. d + i \in 1..n /\ i \in 1..(n - d)
    <3>1. i \in 1..(n - d) /\ n \in Nat /\ d \in Nat /\ d <= n
      BY <1>1, <1>2, <1>3, Zenon
    <3> QED
      BY <3>1
  <2>2. r[i] = h[d + i] /\ h[d + i].seq = (q - n) + (d + i) - 1 /\ h[d + i].msg = p[(q - n) + (d + i)]
    BY <1>1, <1>2, <2>1
  <2>a. n \in Nat /\ q \in Nat /\ d \in Nat /\ Len(r) = n - d /\ i \in 1..(n - d)
    BY <1>1, <1>2, <1>3, <2>1, Zenon
  <2>b. q - (n - d) = (q - n) + d
    BY <2>a
  <2>c. i \in Nat
    BY <2>a
  <2>3. i \in Nat /\ q - Len(r) = (q - n) + d
    BY <2>a, <2>b, <2>c, Zenon
  <2>4. (q - n) + (d + i) = ((q - n) + d) + i /\ (q - n) + (d + i) - 1 = ((q - n) + d) + i - 1
    BY <1>1, <1>3, <2>3
  <2> QED
    BY <2>2, <2>3, <2>4
<1>5. Len(r) <= q
  BY <1>1, <1>2, <1>3
<1> QED
  BY <1>1, <1>2, <1>4, <1>5 DEF Ring, r, n, q

(* A ring with the message just pushed holds the last messages.             *)
LEMMA RingAppend ==
  ASSUME NEW r, NEW p, Ring(r, p), NEW m \in Message
  PROVE  Ring(Append(r, [seq |-> Len(p), msg |-> m]), Append(p, m))
<1> DEFINE n == Len(r)
           q == Len(p)
           x == [seq |-> q, msg |-> m]
           rr == Append(r, x)
           pp == Append(p, m)
<1>1. /\ p \in Seq(Message) /\ r \in Seq(Entry) /\ n <= q /\ n \in Nat /\ q \in Nat
      /\ \A i \in 1..n : r[i].seq = (q - n) + i - 1 /\ r[i].msg = p[(q - n) + i]
  BY DEF Ring
<1>2. x \in Entry /\ x.seq = q /\ x.msg = m
  BY <1>1 DEF Entry
<1> HIDE DEF x
<1>3. /\ rr \in Seq(Entry) /\ Len(rr) = n + 1 /\ rr[n + 1] = x
      /\ \A i \in 1..n : rr[i] = r[i]
  BY <1>1, <1>2, AppendProperties
<1>4. /\ pp \in Seq(Message) /\ Len(pp) = q + 1 /\ pp[q + 1] = m
      /\ \A i \in 1..q : pp[i] = p[i]
  BY <1>1, AppendProperties
<1> HIDE DEF rr, pp, n, q
<1>5. Len(pp) - Len(rr) = q - n
  BY <1>1, <1>3, <1>4
<1>6. ASSUME NEW i \in 1..(n + 1)
      PROVE  rr[i].seq = (q - n) + i - 1 /\ rr[i].msg = pp[(q - n) + i]
  <2>1. CASE i <= n
    <3>1. i \in 1..n /\ (q - n) + i \in 1..q
      BY <1>1, <2>1
    <3> QED
      BY <1>1, <1>3, <1>4, <3>1
  <2>2. CASE ~(i <= n)
    <3>1. i = n + 1
      BY <1>1, <2>2
    <3>2. (q - n) + i = q + 1 /\ (q - n) + i - 1 = q
      BY <1>1, <3>1
    <3> QED
      BY <1>2, <1>3, <1>4, <3>1, <3>2
  <2> QED
    BY <2>1, <2>2
<1>7. Len(rr) <= Len(pp)
  BY <1>1, <1>3, <1>4
<1>8. Ring(rr, pp)
  BY <1>3, <1>4, <1>5, <1>6, <1>7 DEF Ring
<1> QED
  BY <1>8 DEF rr, pp, x, q

(* A push keeps the ring's numbers without a gap; a message too large for   *)
(* the ring leaves it empty.                                                *)
LEMMA PushKeepsRing ==
  ASSUME Ring(history, pushed), NEW m \in Message, Push(m)
  PROVE  Ring(history', pushed')
<1>1. history \in Seq(Entry) /\ pushed \in Seq(Message) /\ pushed' = Append(pushed, m)
  BY DEF Ring, Push
<1>2. MsgBytes[m] \in Nat /\ HistoryBytes \in Nat
  BY StoreAssumption, CaptureAssumption DEF Message, Finished
<1>3. PICK k \in 1..(Len(history) + 1) : Evict(MsgBytes[m]) = SubSeq(history, k, Len(history))
  BY <1>1, <1>2, EvictIs
<1>4. Ring(Evict(MsgBytes[m]), pushed)
  BY <1>3, RingCut
<1>5. CASE MsgBytes[m] <= HistoryBytes
  <2>1. history' = Append(Evict(MsgBytes[m]), [seq |-> Len(pushed), msg |-> m])
    BY <1>5 DEF Push, NextSequence
  <2> QED
    BY <1>1, <1>4, <2>1, RingAppend
<1>6. CASE ~(MsgBytes[m] <= HistoryBytes)
  <2>1. MsgBytes[m] > HistoryBytes
    BY <1>2, <1>6
  <2>2. history' = <<>>
    BY <1>1, <1>2, <1>6, <2>1, EvictIs DEF Push
  <2>3. pushed' \in Seq(Message)
    BY <1>1, AppendProperties
  <2> QED
    BY <2>2, <2>3 DEF Ring
<1> QED
  BY <1>5, <1>6

(* A stream that has received nothing is where it started.                  *)
LEMMA ToldStarts ==
  ASSUME NEW p \in Seq(Message), NEW from \in 0..Len(p)
  PROVE  Told(from, <<>>, from, p)
<1> DEFINE f == [i \in 0..Len(<<>>) |-> from]
<1>1. Traced(f, from, <<>>, from, p)
  BY DEF Traced
<1> HIDE DEF f
<1> QED
  BY <1>1 DEF Told

(* Messages pushed later change nothing of what was received.               *)
LEMMA ToldGrows ==
  ASSUME NEW p \in Seq(Message), NEW m \in Message, NEW from, NEW got \in Seq(Received), NEW next,
         Told(from, got, next, p)
  PROVE  Told(from, got, next, Append(p, m))
<1> DEFINE pp == Append(p, m)
           n == Len(got)
           q == Len(p)
<1>1. PICK f : Traced(f, from, got, next, p)
  BY DEF Told
<1>2. /\ f \in [0..n -> 0..q] /\ f[0] = from /\ f[n] = next
      /\ \A i \in 1..n : Came(f[i-1], got[i], f[i], p)
  BY <1>1 DEF Traced
<1>3. n \in Nat /\ q \in Nat /\ Len(pp) = q + 1 /\ \A i \in 1..q : pp[i] = p[i]
  BY AppendProperties
<1> HIDE DEF pp, n
<1>4. ASSUME NEW i \in 1..n PROVE Came(f[i-1], got[i], f[i], pp)
  <2>1. f[i-1] \in 0..q
    BY <1>2, <1>3
  <2>2. Came(f[i-1], got[i], f[i], p)
    BY <1>2
  <2> DEFINE a == f[i-1]
  <2>3. a < q => a + 1 \in 1..q /\ a < q + 1
    BY <1>3, <2>1
  <2> HIDE DEF a
  <2>4. Came(a, got[i], f[i], p)
    BY <2>2 DEF a
  <2>5. Came(a, got[i], f[i], pp)
    BY <1>3, <2>3, <2>4 DEF Came
  <2> QED
    BY <2>5 DEF a
<1>5. f \in [0..n -> 0..Len(pp)]
  BY <1>2, <1>3
<1>6. Traced(f, from, got, next, pp)
  BY <1>2, <1>4, <1>5 DEF Traced, n
<1> QED
  BY <1>6 DEF Told, pp

(* One more item takes the stream one place further.                        *)
LEMMA ToldStep ==
  ASSUME NEW p \in Seq(Message), NEW from, NEW got \in Seq(Received), NEW next, NEW item, NEW nx,
         item \in Received, Told(from, got, next, p), Came(next, item, nx, p), nx \in 0..Len(p)
  PROVE  Told(from, Append(got, item), nx, p)
<1> DEFINE gg == Append(got, item)
           n == Len(got)
           q == Len(p)
<1>1. PICK f : Traced(f, from, got, next, p)
  BY DEF Told
<1>2. /\ f \in [0..n -> 0..q] /\ f[0] = from /\ f[n] = next
      /\ \A i \in 1..n : Came(f[i-1], got[i], f[i], p)
  BY <1>1 DEF Traced
<1>3. /\ n \in Nat /\ q \in Nat /\ Len(gg) = n + 1 /\ gg[n + 1] = item
      /\ \A i \in 1..n : gg[i] = got[i]
  BY AppendProperties
<1> DEFINE g == [i \in 0..(n + 1) |-> IF i <= n THEN f[i] ELSE nx]
<1> HIDE DEF gg, n, q
<1>4. g \in [0..(n + 1) -> 0..q]
  BY <1>2, <1>3 DEF q
<1>5. g[0] = from /\ g[n + 1] = nx /\ g[n] = next
  BY <1>2, <1>3
<1>6. \A i \in 1..n : g[i] = f[i] /\ g[i-1] = f[i-1]
  BY <1>3
<1> HIDE DEF g
<1>7. ASSUME NEW i \in 1..(n + 1) PROVE Came(g[i-1], gg[i], g[i], p)
  <2>1. CASE i <= n
    <3>1. i \in 1..n
      BY <1>3, <2>1
    <3>2. Came(f[i-1], got[i], f[i], p) /\ gg[i] = got[i] /\ g[i] = f[i] /\ g[i-1] = f[i-1]
      BY <1>2, <1>3, <1>6, <3>1
    <3> QED
      BY <3>2, Zenon
  <2>2. CASE ~(i <= n)
    <3>1. i = n + 1 /\ i - 1 = n
      BY <1>3, <2>2
    <3>2. g[i-1] = next /\ gg[i] = item /\ g[i] = nx
      BY <1>3, <1>5, <3>1
    <3> QED
      BY <3>2, Zenon
  <2> QED
    BY <2>1, <2>2
<1>8. Traced(g, from, gg, nx, p)
  BY <1>3, <1>4, <1>5, <1>7 DEF Traced, q
<1> QED
  BY <1>8 DEF Told, gg

(* The fields of a stream.                                                  *)
SubFields == {"at", "from", "next", "seen", "got"}

(* What a stream received leads from where it started to where it is.       *)
SubsOK ==
  /\ DOMAIN subs = Subscribers
  /\ \A s \in Subscribers :
       /\ DOMAIN subs[s] = SubFields /\ subs[s].got \in Seq(Received)
       /\ Told(subs[s].from, subs[s].got, subs[s].next, pushed)

(* Every line pushed, and every line received, is acknowledged.             *)
Shown(m) == m \in {0, Finished} \cup acked
ShownOK ==
  /\ \A i \in 1..Len(pushed) : Shown(pushed[i])
  /\ \A s \in Subscribers : \A i \in 1..Len(subs[s].got) : Shown(subs[s].got[i].msg)

(* The inductive invariant behind StreamsAccountForAll and ShownIsDurable.  *)
MirrorInv == LinesInv /\ Ring(history, pushed) /\ SubsOK /\ ShownOK

(* The position computed from the items is the one the stream keeps.        *)
LEMMA PositionIs ==
  ASSUME SubsOK, pushed \in Seq(Message), NEW s \in Subscribers
  PROVE  Position(s) = subs[s].next
<1> DEFINE got == subs[s].got
           from == subs[s].from
           N == Len(got)
           q == Len(pushed)
<1>1. PICK f : Traced(f, from, got, subs[s].next, pushed)
  BY DEF SubsOK, Told
<1>2. /\ f \in [0..N -> 0..q] /\ f[0] = from /\ f[N] = subs[s].next
      /\ \A i \in 1..N : Came(f[i-1], got[i], f[i], pushed)
  BY <1>1 DEF Traced
<1>n. N \in Nat /\ q \in Nat /\ \A i \in 1..N : got[i] \in Received
  BY DEF SubsOK
<1>3. ASSUME NEW i \in 1..N PROVE f[i] = After(f[i-1], got[i])
  <2> DEFINE a == f[i-1]
             x == got[i]
  <2>0. i - 1 \in 0..N
    BY <1>n
  <2>1. a \in 0..q
    BY <1>2, <2>0, Zenon
  <2>2. x \in Received /\ Came(a, x, f[i], pushed)
    BY <1>2, <1>n
  <2> HIDE DEF a, x
  <2>3. a \in Nat /\ ~(a < 0) /\ x.missing \in Nat
    BY <1>n, <2>1, <2>2 DEF Received
  <2>4. f[i] = After(a, x)
    BY <2>2, <2>3 DEF Came, After
  <2> QED
    BY <2>4 DEF a, x
<1> DEFINE at[i \in 0..N] == IF i = 0 THEN from ELSE After(at[i-1], got[i])
           F(g) == [i \in 0..N |-> IF i = 0 THEN from ELSE After(g[i-1], got[i])]
<1>4. Position(s) = at[N]
  BY DEF Position
<1>5. f = F(f)
  <2>1. ASSUME NEW i \in 0..N PROVE f[i] = F(f)[i]
    <3>1. CASE i = 0
      BY <3>1, <1>2
    <3>2. CASE i # 0
      <4>1. i \in 1..N
        BY <3>2, <1>n
      <4> QED
        BY <3>2, <4>1, <1>3
    <3> QED
      BY <3>1, <3>2
  <2> QED
    BY <2>1, <1>2
<1>6. at = F(at)
  <2>1. \E g : g = F(g)
    BY <1>5, Zenon
  <2> QED
    BY <2>1, Zenon
<1>7. \A i \in 0..N : at[i] = IF i = 0 THEN from ELSE After(at[i-1], got[i])
  <2> HIDE DEF at
  <2> QED
    BY <1>6
<1> HIDE DEF at
<1> DEFINE T == {n \in Nat : n <= N => at[n] = f[n]}
<1>8. 0 \in T
  BY <1>2, <1>7, <1>n
<1>9. ASSUME NEW n \in Nat, n \in T PROVE n + 1 \in T
  <2> SUFFICES ASSUME n + 1 <= N PROVE at[n+1] = f[n+1]
    OBVIOUS
  <2>1. n + 1 \in 0..N /\ n + 1 \in 1..N /\ n + 1 # 0 /\ (n+1) - 1 = n /\ n <= N
    BY <1>n
  <2>2. at[n+1] = After(at[n], got[n+1])
    BY <1>7, <2>1
  <2>3. f[n+1] = After(f[n], got[n+1])
    BY <1>3, <2>1
  <2> QED
    BY <1>9, <2>1, <2>2, <2>3
<1>10. N \in T
  <2> HIDE DEF T
  <2> QED
    BY <1>8, <1>9, <1>n, SetInduction
<1> QED
  BY <1>n, <1>2, <1>4, <1>10

(* A step of the recording is one of the log or leaves it alone.            *)
LEMMA LogBeneath ==
  ASSUME [CaptureNext]_captureVars
  PROVE  \/ Next
         \/ UNCHANGED <<disk, w, lines, acked, readers>> /\ (faults' = faults \/ Fault(TRUE))
<1> DEFINE Stands == UNCHANGED <<disk, w, lines, acked, readers>> /\ (faults' = faults \/ Fault(TRUE))
<1>1. CASE UNCHANGED captureVars
  BY <1>1 DEF captureVars, logVars
<1>2. CASE \/ Emit \/ ClosePipe \/ ChildExits \/ StartFails \/ LineWritten \/ CaptureFails
           \/ PipeFails \/ SealReturns \/ StopUnrecorded \/ MonitorStep \/ UiStep
  BY <1>2 DEF Emit, ClosePipe, ChildExits, StartFails, LineWritten, CaptureFails, PipeFails, SealReturns,
         StopUnrecorded, MonitorStep, SeeExit, ExpireDrain, PublishVerdict, FinishStore, UiStep,
         logVars
<1>3. CASE StartCapture \/ Explain \/ Record \/ TakeLine \/ ServerDies
  BY <1>3 DEF StartCapture, Explain, Record, TakeLine, ServerDies, Next
<1>4. CASE OutputEnds
  <2>1. Finish("complete") \/ Stands
    BY <1>4 DEF OutputEnds
  <2> QED
    BY <2>1 DEF Next
<1>5. CASE SealUnavailable
  <2>1. Finish("unavailable") \/ Stands
    BY <1>5 DEF SealUnavailable, logVars
  <2> QED
    BY <2>1 DEF Next
<1> QED
  BY <1>1, <1>2, <1>3, <1>4, <1>5 DEF CaptureNext, CaptureStep

(* The lines of the log are kept by every step of the recording.            *)
LEMMA LinesBeneath ==
  ASSUME LinesInv, [CaptureNext]_captureVars
  PROVE  LinesInv' /\ acked \subseteq acked'
<1>1. CASE Next
  <2>1. LinesInv'
    BY <1>1, LinesStep
  <2>2. ASSUME NEW o \in {"complete", "unavailable"}, Finish(o) PROVE acked' = acked
    BY <2>2 DEF Finish
  <2>3. ReaderStep => acked' = acked
    BY DEF ReaderStep, ReadPage, ReadProvenance, ScanSnapshot, ReadSnapshot, Confirm, ConfirmFails
  <2>4. acked' = acked \/ acked' = acked \cup {w.line}
    BY <1>1, <2>2, <2>3 DEF Next, WriterStep, Open, Drop, AppendLine, AppendRefused, AppendControl,
       WriteBytes, Flush, Sync, WriteFails, IndexFrame, Crash
  <2> QED
    BY <2>1, <2>4
<1>2. CASE UNCHANGED <<disk, w, lines, acked, readers>> /\ (faults' = faults \/ Fault(TRUE))
  <2>1. LogInv'
    BY <1>2, LogStands DEF LinesInv
  <2>2. StreamOK' /\ PendingOK'
    BY <1>2, LinesStand DEF disk
  <2> QED
    BY <1>2, <2>1, <2>2 DEF LinesInv
<1> QED
  BY <1>1, <1>2, LogBeneath

(* Steps that leave the mirror alone.                                       *)
LEMMA MirrorStands ==
  ASSUME MirrorInv, LinesInv', acked \subseteq acked', UNCHANGED <<history, pushed, subs>>
  PROVE  MirrorInv'
<1>1. Ring(history', pushed')
  BY DEF MirrorInv
<1>2. SubsOK'
  BY DEF MirrorInv, SubsOK
<1>3. ShownOK'
  BY DEF MirrorInv, ShownOK, Shown
<1> QED
  BY <1>1, <1>2, <1>3 DEF MirrorInv

(* A push only adds to what was pushed.                                     *)
LEMMA MirrorPush ==
  ASSUME MirrorInv, LinesInv', acked' = acked, NEW m \in Message, Shown(m), Push(m)
  PROVE  MirrorInv'
<1>1. pushed \in Seq(Message) /\ pushed' = Append(pushed, m) /\ subs' = subs
  BY DEF MirrorInv, Ring, Push
<1>2. Ring(history', pushed')
  BY PushKeepsRing DEF MirrorInv
<1>3. SubsOK'
  <2>1. ASSUME NEW s \in Subscribers
        PROVE  Told(subs[s].from, subs[s].got, subs[s].next, pushed')
    <3>1. subs[s].got \in Seq(Received) /\ Told(subs[s].from, subs[s].got, subs[s].next, pushed)
      BY DEF MirrorInv, SubsOK
    <3> QED
      BY <1>1, <3>1, ToldGrows
  <2> QED
    BY <1>1, <2>1 DEF MirrorInv, SubsOK
<1>4. ShownOK'
  <2>1. \A i \in 1..Len(pushed') : pushed'[i] \in {m} \cup {pushed[j] : j \in 1..Len(pushed)}
    BY <1>1
  <2>2. \A i \in 1..Len(pushed') : Shown(pushed'[i])
    BY <2>1 DEF MirrorInv, ShownOK
  <2> QED
    BY <1>1, <2>2 DEF MirrorInv, ShownOK, Shown
<1> QED
  BY <1>2, <1>3, <1>4 DEF MirrorInv

(* One stream goes on, with what it got.                                    *)
LEMMA MirrorSub ==
  ASSUME MirrorInv, LinesInv', UNCHANGED <<acked, history, pushed>>, NEW s \in Subscribers, NEW sub,
         subs' = [subs EXCEPT ![s] = sub], DOMAIN sub = SubFields, sub.got \in Seq(Received),
         Told(sub.from, sub.got, sub.next, pushed),
         \A i \in 1..Len(sub.got) : Shown(sub.got[i].msg)
  PROVE  MirrorInv'
<1>1. /\ DOMAIN subs' = Subscribers /\ subs'[s] = sub
      /\ \A t \in Subscribers : t # s => subs'[t] = subs[t]
  BY DEF MirrorInv, SubsOK
<1>2. Ring(history', pushed')
  BY DEF MirrorInv
<1>3. SubsOK'
  BY <1>1 DEF MirrorInv, SubsOK
<1>4. ShownOK'
  BY <1>1 DEF MirrorInv, ShownOK, Shown
<1> QED
  BY <1>2, <1>3, <1>4 DEF MirrorInv

(* The number of the oldest entry, also of an empty ring.                   *)
LEMMA FirstIs ==
  ASSUME Ring(history, pushed)
  PROVE  First = Len(pushed) - Len(history)
<1>1. /\ history \in Seq(Entry) /\ Len(pushed) \in Nat /\ Len(history) \in Nat
      /\ \A i \in 1..Len(history) : history[i].seq = (Len(pushed) - Len(history)) + i - 1
  BY DEF Ring
<1>2. CASE history = <<>>
  BY <1>1, <1>2 DEF First, NextSequence
<1>3. CASE history # <<>>
  <2>1. 1 \in 1..Len(history)
    BY <1>1, <1>3, EmptySeq
  <2>2. history[1].seq = (Len(pushed) - Len(history)) + 1 - 1
    BY <1>1, <2>1
  <2>3. (Len(pushed) - Len(history)) + 1 - 1 = Len(pushed) - Len(history)
    BY <1>1
  <2> QED
    BY <1>3, <2>2, <2>3 DEF First
<1> QED
  BY <1>2, <1>3

(* A received item is a gap or the message pushed at the stream's place.    *)
LEMMA PollMoves ==
  ASSUME MirrorInv, LinesInv', UNCHANGED acked, NEW s \in Subscribers, Poll(s)
  PROVE  MirrorInv'
<1> DEFINE old == subs[s]
           n == old.next
           h == Len(history)
           q == Len(pushed)
<1>1. /\ DOMAIN old = SubFields /\ old.got \in Seq(Received)
      /\ Told(old.from, old.got, n, pushed) /\ DOMAIN subs = Subscribers
      /\ \A i \in 1..Len(old.got) : Shown(old.got[i].msg)
  BY DEF MirrorInv, SubsOK, ShownOK
<1>2. /\ Ring(history, pushed) /\ pushed \in Seq(Message) /\ history \in Seq(Entry)
      /\ h \in Nat /\ q \in Nat /\ h <= q /\ First = q - h
      /\ \A i \in 1..h : history[i].msg = pushed[(q - h) + i]
  BY FirstIs DEF MirrorInv, Ring
<1>3. n \in 0..q
  <2>1. PICK f : Traced(f, old.from, old.got, n, pushed)
    BY <1>1 DEF Told
  <2>2. Len(old.got) \in 0..Len(old.got)
    BY <1>1
  <2> QED
    BY <2>1, <2>2 DEF Traced
<1>4. UNCHANGED <<acked, history, pushed>>
  BY DEF Poll
<1>5. subs' = [subs EXCEPT ![s] =
           IF n < First
           THEN [old EXCEPT !.got = Append(old.got, Gap(First - n)), !.next = First]
           ELSE IF n - First < h
           THEN [old EXCEPT !.got = Append(old.got, Item(history[n - First + 1].msg)), !.next = n + 1]
           ELSE [old EXCEPT !.at = "wait"]]
  BY Zenon DEF Poll
<1>6. ASSUME NEW item \in Received, NEW nx \in 0..q, Came(n, item, nx, pushed), Shown(item.msg),
             subs' = [subs EXCEPT ![s] = [old EXCEPT !.got = Append(old.got, item), !.next = nx]]
      PROVE  MirrorInv'
  <2> DEFINE sub == [old EXCEPT !.got = Append(old.got, item), !.next = nx]
             gg == Append(old.got, item)
  <2>1. DOMAIN sub = SubFields /\ sub.got = gg /\ sub.next = nx /\ sub.from = old.from
    BY <1>1 DEF SubFields
  <2>2. gg \in Seq(Received)
    BY <1>1, AppendProperties
  <2>3. Told(old.from, gg, nx, pushed)
    BY <1>1, <1>2, <1>6, ToldStep
  <2>4. \A i \in 1..Len(gg) : gg[i] \in {item} \cup {old.got[j] : j \in 1..Len(old.got)}
    BY <1>1
  <2>5. \A i \in 1..Len(gg) : Shown(gg[i].msg)
    BY <1>1, <1>6, <2>4
  <2>6. subs' = [subs EXCEPT ![s] = sub]
    BY <1>6
  <2> HIDE DEF sub, gg, old
  <2> QED
    BY <1>4, <2>1, <2>2, <2>3, <2>5, <2>6, MirrorSub
<1>7. CASE n < First
  <2> DEFINE item == Gap(First - n)
  <2>1. First \in 0..q /\ First - n \in Nat /\ First - n > 0 /\ First = n + (First - n)
    <3>1. /\ h \in Nat /\ q \in Nat /\ h <= q /\ First = q - h /\ n \in 0..q /\ n < First
      BY <1>2, <1>3, <1>7, Zenon
    <3> HIDE DEF h, q, n
    <3> QED
      BY <3>1
  <2>2. item \in Received /\ item.missing = First - n /\ item.msg = 0
    BY <2>1, LogAssumption DEF Gap, Received, Finished
  <2>3. Came(n, item, First, pushed) /\ Shown(item.msg)
    BY <2>1, <2>2 DEF Came, Shown
  <2>4. subs' = [subs EXCEPT ![s] = [old EXCEPT !.got = Append(old.got, item), !.next = First]]
    BY <1>5, <1>7
  <2> HIDE DEF item, old, q
  <2> QED
    BY <1>6, <2>1, <2>2, <2>3, <2>4, Zenon
<1>8. CASE ~(n < First) /\ n - First < h
  <2> DEFINE item == Item(history[n - First + 1].msg)
             k == n - First + 1
  <2>1. k \in 1..h /\ n + 1 \in 0..q /\ n < q /\ (q - h) + k = n + 1 /\ n + 1 \in 1..q
    <3>1. /\ h \in Nat /\ q \in Nat /\ h <= q /\ First = q - h /\ n \in 0..q
          /\ ~(n < First) /\ n - First < h
      BY <1>2, <1>3, <1>8, Zenon
    <3> HIDE DEF h, q, n
    <3> QED
      BY <3>1
  <2>2. history[k].msg = pushed[n + 1] /\ pushed[n + 1] \in Message
    <3>1. history[k].msg = pushed[(q - h) + k]
      BY <1>2, <2>1, Zenon
    <3>2. \A i \in 1..q : pushed[i] \in Message
      BY <1>2
    <3> QED
      BY <2>1, <3>1, <3>2, Zenon
  <2>3. item \in Received /\ item.missing = 0 /\ item.msg = pushed[n + 1]
    BY <2>2 DEF Item, Received, Message, Finished
  <2>4. Came(n, item, n + 1, pushed) /\ Shown(item.msg)
    BY <2>1, <2>3 DEF Came, MirrorInv, ShownOK
  <2>5. subs' = [subs EXCEPT ![s] = [old EXCEPT !.got = Append(old.got, item), !.next = n + 1]]
    BY <1>5, <1>8
  <2> DEFINE nx == n + 1
  <2> HIDE DEF item, nx
  <2>6. nx \in 0..q /\ Came(n, item, nx, pushed)
        /\ subs' = [subs EXCEPT ![s] = [old EXCEPT !.got = Append(old.got, item), !.next = nx]]
    BY <2>1, <2>4, <2>5 DEF nx
  <2> QED
    BY <1>6, <2>3, <2>4, <2>6
<1>9. CASE ~(n < First) /\ ~(n - First < h)
  <2> DEFINE sub == [old EXCEPT !.at = "wait"]
  <2>1. subs' = [subs EXCEPT ![s] = sub]
    BY <1>5, <1>9
  <2>2. DOMAIN sub = SubFields /\ sub.got = old.got /\ sub.next = n /\ sub.from = old.from
    BY <1>1 DEF SubFields
  <2> HIDE DEF sub
  <2> QED
    BY <1>1, <1>4, <2>1, <2>2, MirrorSub
<1> QED
  BY <1>7, <1>8, <1>9

(* Streams that start, poll and wake.                                       *)
LEMMA UiMoves ==
  ASSUME MirrorInv, LinesInv', UNCHANGED acked, UiStep
  PROVE  MirrorInv'
<1>1. PICK s \in Subscribers : SubscriberStep(s) \/ Subscribe(s, 0) \/ Subscribe(s, NextSequence)
  BY DEF UiStep
<1> DEFINE old == subs[s]
<1>2. /\ DOMAIN old = SubFields /\ old.got \in Seq(Received)
      /\ Told(old.from, old.got, old.next, pushed) /\ DOMAIN subs = Subscribers
      /\ \A i \in 1..Len(old.got) : Shown(old.got[i].msg) /\ pushed \in Seq(Message)
  BY DEF MirrorInv, SubsOK, ShownOK, Ring
<1>3. CASE Poll(s)
  BY <1>3, PollMoves
<1>4. CASE Wake(s)
  <2>1. \/ subs' = [subs EXCEPT ![s].at = "poll", ![s].seen = version]
        \/ subs' = [subs EXCEPT ![s].at = "end"]
    BY <1>4 DEF Wake
  <2>2. PICK sub \in {[old EXCEPT !.at = "poll", !.seen = version], [old EXCEPT !.at = "end"]} :
          subs' = [subs EXCEPT ![s] = sub]
    BY <1>2, <2>1
  <2>3. DOMAIN sub = SubFields /\ sub.got = old.got /\ sub.next = old.next /\ sub.from = old.from
    BY <1>2, <2>2 DEF SubFields
  <2>4. UNCHANGED <<acked, history, pushed>>
    BY <1>4 DEF Wake
  <2> QED
    BY <1>2, <2>2, <2>3, <2>4, MirrorSub
<1>5. ASSUME NEW from \in {0, NextSequence}, Subscribe(s, from) PROVE MirrorInv'
  <2> DEFINE sub == [at |-> "poll", from |-> from, next |-> from, seen |-> version, got |-> <<>>]
  <2>1. subs' = [subs EXCEPT ![s] = sub] /\ UNCHANGED <<acked, history, pushed>>
    BY <1>5 DEF Subscribe
  <2>2. DOMAIN sub = SubFields /\ sub.got = <<>> /\ sub.next = from /\ sub.from = from
    BY DEF SubFields
  <2>3. pushed \in Seq(Message) /\ from \in 0..Len(pushed)
    BY DEF MirrorInv, Ring, NextSequence
  <2>4. Told(from, <<>>, from, pushed)
    BY <2>3, ToldStarts
  <2> HIDE DEF sub
  <2>5. sub.got \in Seq(Received) /\ \A i \in 1..Len(sub.got) : Shown(sub.got[i].msg)
    BY <2>2
  <2> QED
    BY <2>1, <2>2, <2>4, <2>5, MirrorSub
<1> QED
  BY <1>1, <1>3, <1>4, <1>5 DEF SubscriberStep

(* The server takes the mirror with it; what was received stays received.   *)
LEMMA MirrorDies ==
  ASSUME MirrorInv, LinesInv', acked \subseteq acked', ServerDies
  PROVE  MirrorInv'
<1>1. /\ UNCHANGED <<history, pushed>>
      /\ subs' = [s \in Subscribers |-> [subs[s] EXCEPT !.at = IF @ = "off" THEN "off" ELSE "end"]]
  BY DEF ServerDies
<1>2. ASSUME NEW s \in Subscribers
      PROVE  /\ DOMAIN subs'[s] = SubFields /\ subs'[s].got = subs[s].got
             /\ subs'[s].from = subs[s].from /\ subs'[s].next = subs[s].next
  BY <1>1 DEF MirrorInv, SubsOK, SubFields
<1>3. Ring(history', pushed')
  BY <1>1 DEF MirrorInv
<1>4. SubsOK'
  <2>1. DOMAIN subs' = Subscribers
    BY <1>1
  <2>2. ASSUME NEW s \in Subscribers
        PROVE  /\ DOMAIN subs'[s] = SubFields /\ subs'[s].got \in Seq(Received)
               /\ Told(subs'[s].from, subs'[s].got, subs'[s].next, pushed')
    BY <1>1, <1>2 DEF MirrorInv, SubsOK
  <2> QED
    BY <2>1, <2>2 DEF SubsOK
<1>5. ShownOK'
  BY <1>1, <1>2 DEF MirrorInv, ShownOK, Shown
<1> QED
  BY <1>3, <1>4, <1>5 DEF MirrorInv

(* A new mirror is empty.                                                   *)
LEMMA InitMirror == CaptureInit => MirrorInv
<1> SUFFICES ASSUME CaptureInit PROVE MirrorInv
  OBVIOUS
<1>1. LinesInv
  BY InitLines DEF CaptureInit
<1>2. history = <<>> /\ pushed = <<>> /\ subs = [s \in Subscribers |-> Idle]
  BY DEF CaptureInit, StoreInit
<1>3. Ring(history, pushed)
  BY <1>2 DEF Ring
<1>4. Told(0, <<>>, 0, pushed)
  <2>1. pushed \in Seq(Message) /\ 0 \in 0..Len(pushed)
    BY <1>2
  <2> QED
    BY <2>1, ToldStarts
<1>5. SubsOK
  <2>1. /\ DOMAIN Idle = SubFields /\ Idle.got = <<>> /\ Idle.from = 0 /\ Idle.next = 0
        /\ <<>> \in Seq(Received)
    BY DEF Idle, SubFields
  <2>2. DOMAIN subs = Subscribers /\ \A s \in Subscribers : subs[s] = Idle
    BY <1>2
  <2> QED
    BY <1>4, <2>1, <2>2, Zenon DEF SubsOK
<1>6. ShownOK
  BY <1>2 DEF ShownOK, Idle
<1> QED
  BY <1>1, <1>3, <1>5, <1>6 DEF MirrorInv

(* No step of the recording disturbs the mirror.                            *)
LEMMA MirrorStep == MirrorInv /\ [CaptureNext]_captureVars => MirrorInv'
<1> SUFFICES ASSUME MirrorInv, [CaptureNext]_captureVars PROVE MirrorInv'
  OBVIOUS
<1>1. LinesInv' /\ acked \subseteq acked'
  BY LinesBeneath DEF MirrorInv
<1>t. lines \in 0..Lines /\ acked \subseteq 1..lines /\ Lines \in Nat
  BY LogAssumption DEF MirrorInv, LinesInv, LogInv, RestInv
<1>2. CASE LineWritten
  <2>1. lines \in acked /\ Push(lines) /\ acked' = acked
    BY <1>2 DEF LineWritten, logVars
  <2>2. lines \in Message /\ Shown(lines)
    BY <1>t, <2>1 DEF Message, Finished, Shown
  <2> QED
    BY <1>1, <2>1, <2>2, MirrorPush
<1>3. CASE FinishStore
  <2>1. Push(Finished) /\ acked' = acked
    BY <1>3 DEF FinishStore, logVars
  <2>2. Finished \in Message /\ Shown(Finished)
    BY <1>t DEF Message, Finished, Shown
  <2> QED
    BY <1>1, <2>1, <2>2, MirrorPush
<1>4. CASE UiStep
  <2>1. acked' = acked
    BY <1>4 DEF UiStep, logVars
  <2> QED
    BY <1>1, <1>4, <2>1, UiMoves
<1>5. CASE ServerDies
  BY <1>1, <1>5, MirrorDies
<1>6. CASE ~LineWritten /\ ~FinishStore /\ ~UiStep /\ ~ServerDies
  <2>1. UNCHANGED <<history, pushed, subs>>
    BY <1>6 DEF CaptureNext, CaptureStep, MonitorStep, Emit, ClosePipe, ChildExits, StartCapture,
       StartFails, Explain, Record, TakeLine, CaptureFails, PipeFails, OutputEnds, SealReturns,
       SealUnavailable, StopUnrecorded, SeeExit, ExpireDrain, PublishVerdict, storeVars, captureVars
  <2> QED
    BY <1>1, <2>1, MirrorStands
<1> QED
  BY <1>2, <1>3, <1>4, <1>5, <1>6

(* The mirror's invariant holds throughout.                                 *)
LEMMA MirrorInvariant == CaptureSpec => []MirrorInv
BY InitMirror, MirrorStep, PTL DEF CaptureSpec

(* Every subscriber of the message store receives each message once and in  *)
(* order from where it started, or is told exactly how many the ring        *)
(* evicted before it came: for any ring size, messages larger than the      *)
(* ring, any interleaving of pushes, polls and subscriptions and the death  *)
(* of the server.                                                           *)
THEOREM StreamsAccount == CaptureSpec => []StreamsAccountForAll
<1>1. MirrorInv => StreamsAccountForAll
  BY PositionIs DEF MirrorInv, Ring, StreamsAccountForAll
<1> QED
  BY <1>1, MirrorInvariant, PTL

(* The bytes of an acknowledged line, where the disk has them.              *)
LEMMA SettledIs ==
  ASSUME LinesInv, NEW m \in acked
  PROVE  \E k \in 1..Len(BytesOf(Durable)) :
           SubSeq(BytesOf(Durable), k, k + LineBytes[m] - 1) = Bytes(m, LineBytes[m])
<1> DEFINE c == BytesOf(Durable)
           l == LineBytes[m]
<1>1. c \in Seq(Byte) /\ Len(c) \in Nat
  BY DurableBytes DEF LinesInv, LogInv
<1>2. l \in Nat /\ l # 0
  BY Acknowledged, LogAssumption DEF LinesInv
<1>3. PICK p \in 0..Len(c) : WrittenAt(m, p, c)
  BY LinesDurable DEF AcknowledgedIsDurable
<1>4. p + l <= Len(c) /\ \A k \in 1..l : c[p + k] = <<m, k>>
  BY <1>3 DEF WrittenAt
<1> HIDE DEF c
<1>5. /\ SubSeq(c, p + 1, p + l) \in Seq(Byte) /\ Len(SubSeq(c, p + 1, p + l)) = (p + l) - p
      /\ \A i \in 1..((p + l) - p) : SubSeq(c, p + 1, p + l)[i] = c[p + i]
  <2> DEFINE hi == p + l
  <2>1. p \in Nat /\ hi \in Nat /\ p <= hi /\ hi <= Len(c)
    BY <1>1, <1>2, <1>3, <1>4
  <2> HIDE DEF hi
  <2>2. /\ SubSeq(c, p + 1, hi) \in Seq(Byte) /\ Len(SubSeq(c, p + 1, hi)) = hi - p
        /\ \A i \in 1..(hi - p) : SubSeq(c, p + 1, hi)[i] = c[p + i]
    BY <1>1, <2>1, RangeIs
  <2> QED
    BY <2>2 DEF hi
<1>6. (p + l) - p = l /\ (p + 1) + l - 1 = p + l /\ p + 1 \in 1..Len(c)
  BY <1>1, <1>2, <1>3, <1>4
<1> DEFINE r == SubSeq(c, p + 1, p + l)
           e == Bytes(m, l)
<1>7. r \in Seq(Byte) /\ Len(r) = l /\ \A i \in 1..l : r[i] = <<m, i>>
  BY <1>4, <1>5, <1>6
<1>8. e = [k \in 1..l |-> <<m, k>>]
  BY DEF Bytes
<1> HIDE DEF r, l, e
<1>9. r = [i \in 1..l |-> r[i]]
  BY <1>2, <1>7
<1>10. r = e
  BY <1>7, <1>8, <1>9
<1> QED
  BY <1>6, <1>10 DEF r, c, e, l

(* Every line of output a subscriber of the mirror was shown is on stable   *)
(* storage with all its bytes, also after a crash: capture_raw_logs pushes  *)
(* a line only after append_jsonl_line returned Written for it.             *)
THEOREM ShownIsKept == CaptureSpec => []ShownIsDurable
<1>1. MirrorInv => ShownIsDurable
  <2> SUFFICES ASSUME MirrorInv, NEW s \in Subscribers, NEW i \in 1..Len(subs[s].got),
                      subs[s].got[i].msg \in 1..Lines
               PROVE  LET m == subs[s].got[i].msg
                      IN  \E k \in 1..Len(BytesOf(Durable)) :
                            SubSeq(BytesOf(Durable), k, k + LineBytes[m] - 1) = Bytes(m, LineBytes[m])
    BY DEF ShownIsDurable
  <2> DEFINE m == subs[s].got[i].msg
  <2>1. m # 0 /\ m # Finished
    BY LogAssumption DEF Finished
  <2>2. m \in acked
    BY <2>1 DEF MirrorInv, ShownOK, Shown
  <2> HIDE DEF m
  <2>3. \E k \in 1..Len(BytesOf(Durable)) :
          SubSeq(BytesOf(Durable), k, k + LineBytes[m] - 1) = Bytes(m, LineBytes[m])
    BY <2>2, SettledIs DEF MirrorInv
  <2> QED
    BY <2>3 DEF m
<1> QED
  BY <1>1, MirrorInvariant, PTL
===========================================================================
