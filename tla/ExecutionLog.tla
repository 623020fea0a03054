---------------------------- MODULE ExecutionLog ----------------------------
(***************************************************************************)
(* The compressed execution log (crates/utils/src/execution_logs.rs and    *)
(* durable_fs.rs): one append-only owner file of checksummed frames, its   *)
(* disposable index, the exclusive writer, and the readers that confirm    *)
(* what they saw.  A frame takes one unit of the compressed file, so its   *)
(* compressed position is its place in owner; capture times are left out.  *)
(***************************************************************************)
EXTENDS LogFrames

CONSTANTS
  Lines,            \* bound: the producer's lines are 1..Lines
  LineBytes,        \* their lengths, [1..Lines -> Nat \ {0}]
  ControlBytes,     \* length of a control line
  ControlOverdraft, \* CONTROL_OVERDRAFT_BYTES
  FrameBytes,       \* MAX_FRAME_UNCOMPRESSED_BYTES
  PageBytes,        \* bound of a snapshot, MAX_EXECUTION_LOG_RANGE_BYTES
  PageSizes,        \* the page sizes consumers ask for
  MaxFrames,        \* bound: no append starts on a longer owner
  MaxFaults         \* bound on crashes, failed writes and lost indexes

ASSUME LogAssumption ==
  /\ Lines \in Nat /\ LineBytes \in [1..Lines -> Nat \ {0}]
  /\ {ControlBytes, FrameBytes, PageBytes} \cup PageSizes \subseteq Nat \ {0}
  /\ {ControlOverdraft, MaxFrames, MaxFaults} \subseteq Nat

VARIABLES
  owner,    \* the complete frames of <id>.jsonl.zst, in file order
  torn,     \* the file ends in a partial frame
  synced,   \* how many frames are on stable storage
  index,    \* the sidecar: locators, Torn for an unreadable line
  w,        \* the ExecutionLogWriter
  lines,    \* how many lines the producer has handed over
  acked,    \* the lines for which append_jsonl_line returned Written
  reader,   \* a reader between its read and its confirmation
  copy,     \* what a durable consumer accepted, of bytes or of frames
  claim,    \* the bytes of a snapshot reported complete, or None
  faults

disk == <<owner, torn, synced, index>>
readers == <<reader, copy, claim>>
logVars == <<disk, w, lines, acked, readers, faults>>

(* An index line that does not parse, a read that returns an error.         *)
Torn == None
Err == None
NoReader == [kind |-> "none"]
Closed == [pc |-> "closed", todo |-> <<>>]

Init ==
  /\ owner = <<>> /\ torn = FALSE /\ synced = 0 /\ index = <<>>
  /\ w = Closed /\ lines = 0 /\ acked = {}
  /\ reader = NoReader /\ claim = None /\ faults = 0
  /\ copy = [bytes |-> <<>>, frames |-> <<>>]

(* A step that counts as a fault if bad.                                    *)
Fault(bad) == faults' = faults + (IF bad THEN 1 ELSE 0) /\ faults' <= MaxFaults

(* scan_owner refuses a partial frame, a gap and data after a seal.         *)
ScanFails == torn \/ ~Contiguous(owner)

---------------------------------------------------------------------------
(* The writer.                                                              *)

(* Mutant of Recovered: the next offset is taken from the sidecar.          *)
RecoveredFromIndex(idx) ==
  [pc |-> "idle", todo |-> <<>>, line |-> 0, index |-> idx,
   written |-> Len(owner),
   offset |-> IF index = <<>> \/ index[Len(index)] = Torn THEN 0 ELSE index[Len(index)].end,
   control |-> ControlBytesOf(owner),
   poisoned |-> FALSE, sealed |-> Outcome(owner) # None, marker |-> FALSE]

(* Mutant of Recovered: the control allowance starts afresh.                *)
RecoveredAllowance(idx) ==
  [pc |-> "idle", todo |-> <<>>, line |-> 0, index |-> idx,
   written |-> Len(owner), offset |-> EndOf(owner), control |-> 0,
   poisoned |-> FALSE, sealed |-> Outcome(owner) # None, marker |-> FALSE]

(* The state of a fresh writer is read from the owner, never from the index.*)
Recovered(idx) ==
  [pc |-> "idle", todo |-> <<>>, line |-> 0, index |-> idx,
   written |-> Len(owner), offset |-> EndOf(owner),
   control |-> ControlBytesOf(owner),
   poisoned |-> FALSE, sealed |-> Outcome(owner) # None, marker |-> FALSE]

(* Lock, publish the owner if it is missing, confirm it, open it and the    *)
(* index (which may fail), scan.  A refused scan drops the lock again.      *)
Open ==
  /\ w.pc = "closed"
  /\ synced' = Len(owner)
  /\ \E idx \in BOOLEAN :
       /\ Fault(~idx)
       /\ w' = IF ScanFails THEN w ELSE Recovered(idx)
  /\ UNCHANGED <<owner, torn, index, lines, acked, readers>>

Drop ==
  /\ w.pc = "idle"
  /\ w' = Closed
  /\ UNCHANGED <<disk, lines, acked, readers, faults>>

Writable == w.pc = "idle" /\ ~w.poisoned /\ ~w.sealed

Bytes(n, len) == [k \in 1..len |-> <<n, k>>]

(* bytes.chunks(MAX_FRAME_UNCOMPRESSED_BYTES), a segment each.              *)
Segments(bytes, control) ==
  LET count == (Len(bytes) + FrameBytes - 1) \div FrameBytes
      chunk(k) == SubSeq(bytes, (k-1) * FrameBytes + 1,
                         IF k = count THEN Len(bytes) ELSE k * FrameBytes)
  IN  [k \in 1..count |-> [body |-> chunk(k), control |-> control, outcome |-> None]]

ControlSegments == Segments(Bytes(0, ControlBytes), TRUE)
Seal(outcome) == <<[body |-> <<>>, control |-> TRUE, outcome |-> outcome]>>

(* Start write_segment on the first of the segments.                        *)
Begin(segments, line) ==
  w' = [w EXCEPT !.pc = "write", !.todo = segments, !.line = line]

(* append_jsonl_line with the reserve available.                            *)
AppendLine ==
  /\ Writable /\ Len(owner) < MaxFrames /\ lines < Lines
  /\ lines' = lines + 1
  /\ Begin(Segments(Bytes(lines + 1, LineBytes[lines + 1]), FALSE), lines + 1)
  /\ UNCHANGED <<disk, acked, readers, faults>>

MayOverdraw == w.control + ControlBytes <= ControlOverdraft

(* append_jsonl_line below the reserve: the line is refused and, once per   *)
(* writer, a marker is attempted as a control line.                         *)
AppendRefused ==
  /\ Writable /\ Len(owner) < MaxFrames /\ lines < Lines
  /\ lines' = lines + 1
  /\ \E space \in BOOLEAN :
       w' = IF ~w.marker /\ MayOverdraw /\ space
            THEN [w EXCEPT !.pc = "write", !.todo = ControlSegments, !.line = 0, !.marker = TRUE]
            ELSE [w EXCEPT !.marker = TRUE]
  /\ UNCHANGED <<disk, acked, readers, faults>>

(* append_control_line: Blocked past the allowance.                         *)
AppendControl ==
  /\ Writable /\ Len(owner) < MaxFrames
  /\ MayOverdraw
  /\ Begin(ControlSegments, 0)
  /\ UNCHANGED <<disk, lines, acked, readers, faults>>

Finish(outcome) ==
  /\ Writable
  /\ Begin(Seal(outcome), 0)
  /\ UNCHANGED <<disk, lines, acked, readers, faults>>

---------------------------------------------------------------------------
(* write_segment, frame by frame.                                           *)

Frame(segment) ==
  [start |-> w.offset, body |-> segment.body,
   control |-> segment.control, outcome |-> segment.outcome]

(* write_all has put part of the frame into the file.                       *)
WriteBytes ==
  /\ w.pc = "write"
  /\ w' = [w EXCEPT !.pc = "flush", !.poisoned = TRUE]
  /\ torn' = TRUE
  /\ UNCHANGED <<owner, synced, index, lines, acked, readers, faults>>

Flush ==
  /\ w.pc = "flush"
  /\ w' = [w EXCEPT !.pc = "sync"]
  /\ owner' = Append(owner, Frame(Head(w.todo))) /\ torn' = FALSE
  /\ UNCHANGED <<synced, index, lines, acked, readers, faults>>

(* Mutant of Sync: the frame is acknowledged before it is on disk.          *)
SkipSync ==
  /\ w.pc = "sync"
  /\ w' = [w EXCEPT !.pc = "index", !.poisoned = FALSE,
                    !.offset = @ + Len(Head(w.todo).body),
                    !.control = @ + (IF Head(w.todo).control THEN Len(Head(w.todo).body) ELSE 0)]
  /\ UNCHANGED <<disk, lines, acked, readers, faults>>

(* sync_data, then the in-memory offsets.                                   *)
Sync ==
  /\ w.pc = "sync"
  /\ synced' = Len(owner)
  /\ w' = [w EXCEPT !.pc = "index", !.poisoned = FALSE,
                    !.offset = @ + Len(Head(w.todo).body),
                    !.control = @ + (IF Head(w.todo).control THEN Len(Head(w.todo).body) ELSE 0)]
  /\ UNCHANGED <<owner, torn, index, lines, acked, readers, faults>>

(* A failed write or sync ends the append with an error; the writer stays   *)
(* poisoned, the file may keep part of the frame.                           *)
WriteFails ==
  /\ w.pc \in {"flush", "sync"}
  /\ w' = [w EXCEPT !.pc = "idle", !.todo = <<>>, !.line = 0]
  /\ torn' \in IF w.pc = "flush" THEN BOOLEAN ELSE {FALSE}
  /\ Fault(TRUE)
  /\ UNCHANGED <<owner, synced, index, lines, acked, readers>>

Locator ==
  [start |-> w.offset - Len(Head(w.todo).body), end |-> w.offset, at |-> w.written + 1]

(* The index line, or an error that gives the index up for this writer and  *)
(* may leave part of a line.  The owner is what was acknowledged.           *)
IndexFrame ==
  /\ w.pc = "index"
  /\ \E ok \in BOOLEAN :
       /\ Fault(w.index /\ ~ok)
       /\ \/ w.index /\ ok /\ index' = Append(index, Locator)
          \/ w.index /\ ~ok /\ index' \in {index, Append(index, Torn)}
          \/ ~w.index /\ ~ok /\ UNCHANGED index
       /\ w' = [w EXCEPT !.pc = IF Len(w.todo) = 1 THEN "idle" ELSE "write",
                         !.todo = Tail(w.todo), !.written = @ + 1, !.index = ok,
                         !.line = IF Len(w.todo) = 1 THEN 0 ELSE @,
                         !.sealed = Head(w.todo).outcome # None]
  /\ acked' = IF Len(w.todo) = 1 /\ w.line # 0 THEN acked \cup {w.line} ELSE acked
  /\ UNCHANGED <<owner, torn, synced, lines, readers>>

WriterStep == WriteBytes \/ Flush \/ Sync \/ WriteFails \/ IndexFrame

---------------------------------------------------------------------------
(* Readers.                                                                 *)

(* The lines of the index (or the frames of the owner) a read up to `to`    *)
(* visits: it goes on while its predecessors end before `to`.               *)
Visited(ends, to) ==
  {i \in 1..Len(ends) : \A j \in 1..(i-1) : ends[j] < to}

LineEnds == [i \in 1..Len(index) |-> IF index[i] = Torn THEN 0 ELSE index[i].end]

LastEnd(i) == IF i = 1 THEN 0 ELSE index[i-1].end

(* Mutant of LocatorFails: contiguity is not verified.                      *)
LocatorUnverified(i, from) == index[i] = Torn

(* The checks on one locator, with the owner's frame where it is used.      *)
LocatorFails(i, from) ==
  \/ index[i] = Torn
  \/ index[i].start # LastEnd(i)
  \/ index[i].at # i
  \/ /\ index[i].end > from
     /\ \/ i > Len(owner)
        \/ owner[i].start # index[i].start
        \/ FrameEnd(owner[i]) # index[i].end

ReadFromIndex(from, to) ==
  LET visited == Visited(LineEnds, to)
      covered(i) == IF LastEnd(i) > from THEN LastEnd(i) ELSE from
      upto(i) == IF index[i].end < to THEN index[i].end ELSE to
      skip(i) == IF covered(i) > index[i].start THEN covered(i) - index[i].start ELSE 0
      piece(i) == IF index[i].end <= from THEN <<>>
                  ELSE SubSeq(owner[index[i].at].body, skip(i) + 1, upto(i) - index[i].start)
  IN  IF from >= to THEN <<>>
      ELSE IF \/ \E i \in visited : LocatorFails(i, from)
              \/ \A i \in visited : index[i].end < to
           THEN Err
           ELSE FlattenSeq([i \in 1..Cardinality(visited) |-> piece(i)])

(* read_range_by_streaming_decode: a partial frame is an error only when    *)
(* the read gets to it; a range past the end is cut short.                  *)
ReadByStreaming(from, to) ==
  LET ends == [i \in 1..Len(owner) |-> FrameEnd(owner[i])]
      visited == Cardinality(Visited(ends, to))
      bytes == BytesOf(SubSeq(owner, 1, visited))
  IN  IF from >= to THEN <<>>
      ELSE IF (torn /\ EndOf(owner) < to) \/ ~Contiguous(SubSeq(owner, 1, visited))
           THEN Err
           ELSE SubSeq(bytes, from + 1, IF Len(bytes) < to THEN Len(bytes) ELSE to)

ReadRange(from, to) ==
  LET indexed == ReadFromIndex(from, to)
  IN  IF indexed = Err THEN ReadByStreaming(from, to) ELSE indexed

(* read_execution_log_page from the consumer's confirmed cursor.            *)
ReadPage(n) ==
  LET from == Len(copy.bytes)
      page == ReadRange(from, from + n)
  IN  /\ reader = NoReader /\ copy.frames = <<>> /\ page \notin {Err, <<>>}
      /\ reader' = [kind |-> "bytes", value |-> page]
      /\ UNCHANGED <<disk, w, lines, acked, copy, claim, faults>>

(* read_execution_log_provenance: up to n frames after the anchor.  It      *)
(* fails when it runs into a partial frame.                                 *)
ReadProvenance(n) ==
  LET from == Len(copy.frames)
      upto == IF from + n < Len(owner) THEN from + n ELSE Len(owner)
  IN  /\ reader = NoReader /\ copy.bytes = <<>> /\ from < upto
      /\ torn => from + n <= Len(owner)
      /\ reader' = [kind |-> "frames", value |-> SubSeq(owner, from + 1, upto)]
      /\ UNCHANGED <<disk, w, lines, acked, copy, claim, faults>>

(* read_snapshot: the scan, then the bounded range it found.                *)
ScanSnapshot ==
  /\ reader = NoReader /\ ~ScanFails
  /\ reader' = [kind |-> "scan",
                value |-> IF EndOf(owner) <= PageBytes THEN EndOf(owner) ELSE PageBytes,
                complete |-> EndOf(owner) <= PageBytes /\ Outcome(owner) = "complete"]
  /\ UNCHANGED <<disk, w, lines, acked, copy, claim, faults>>

ReadSnapshot ==
  /\ reader.kind = "scan"
  /\ reader' = LET bytes == ReadRange(0, reader.value)
               IN  IF bytes = Err THEN NoReader
                   ELSE [kind |-> "snapshot", value |-> bytes, complete |-> reader.complete]
  /\ UNCHANGED <<disk, w, lines, acked, copy, claim, faults>>

(* Mutant of Confirm: the answer is taken for confirmed without a barrier.  *)
ConfirmWithoutBarrier ==
  /\ reader.kind \in {"bytes", "frames", "snapshot"}
  /\ copy' = CASE reader.kind = "bytes" -> [copy EXCEPT !.bytes = @ \o reader.value]
               [] reader.kind = "frames" -> [copy EXCEPT !.frames = @ \o reader.value]
               [] OTHER -> copy
  /\ claim' = IF reader.kind = "snapshot" /\ reader.complete
              THEN reader.value ELSE claim
  /\ reader' = NoReader
  /\ UNCHANGED <<disk, w, lines, acked, faults>>

(* confirm_publication after the read: only then does a durable consumer    *)
(* advance, or a snapshot say complete.                                     *)
Confirm ==
  /\ reader.kind \in {"bytes", "frames", "snapshot"}
  /\ synced' = Len(owner)
  /\ copy' = CASE reader.kind = "bytes" -> [copy EXCEPT !.bytes = @ \o reader.value]
               [] reader.kind = "frames" -> [copy EXCEPT !.frames = @ \o reader.value]
               [] OTHER -> copy
  /\ claim' = IF reader.kind = "snapshot" /\ reader.complete
              THEN reader.value ELSE claim
  /\ reader' = NoReader
  /\ UNCHANGED <<owner, torn, index, w, lines, acked, faults>>

(* The barrier fails or is unsupported: the answer is an error or           *)
(* Unverified, and the consumer keeps its cursor.                           *)
ConfirmFails ==
  /\ reader.kind \in {"bytes", "frames", "snapshot"}
  /\ reader' = NoReader
  /\ UNCHANGED <<disk, w, lines, acked, copy, claim, faults>>

ReaderStep ==
  \/ \E n \in PageSizes : ReadPage(n) \/ ReadProvenance(n)
  \/ ScanSnapshot \/ ReadSnapshot \/ Confirm \/ ConfirmFails

---------------------------------------------------------------------------
(* A crash ends writer and readers.  Frames behind the last barrier stay;   *)
(* of the rest the disk keeps a prefix, which may end inside a frame.  An   *)
(* index line being written is kept, torn or lost.                          *)
Crash ==
  /\ Fault(TRUE)
  /\ \E kept \in synced..Len(owner) :
       /\ owner' = SubSeq(owner, 1, kept)
       /\ torn' \in IF torn \/ kept < Len(owner) THEN BOOLEAN ELSE {FALSE}
  /\ index' \in IF w.pc = "index" /\ w.index
                THEN {index, Append(index, Torn), Append(index, Locator)} ELSE {index}
  /\ w' = Closed /\ reader' = NoReader
  /\ UNCHANGED <<synced, lines, acked, copy, claim>>

Next ==
  \/ Open \/ Drop \/ AppendLine \/ AppendRefused \/ AppendControl
  \/ \E outcome \in {"complete", "unavailable"} : Finish(outcome)
  \/ WriterStep \/ ReaderStep \/ Crash

Spec == Init /\ [][Next]_logVars

---------------------------------------------------------------------------
(* Properties.                                                              *)

Durable == SubSeq(owner, 1, synced)

TypeOK ==
  /\ torn \in BOOLEAN /\ synced \in 0..Len(owner)
  /\ lines \in 0..Lines /\ acked \subseteq 1..lines /\ faults \in 0..MaxFaults
  /\ w.pc \in {"closed", "idle", "write", "flush", "sync", "index"}
  /\ w.pc \in {"closed", "idle"} <=> w.todo = <<>>
  /\ reader.kind \in {"none", "bytes", "frames", "scan", "snapshot"}

(* The log implements the abstract one: what a barrier has covered is never *)
(* cut, changed, continued after a seal or continued with a gap, over any   *)
(* crash, failed write and reopening.                                       *)
Evidence == INSTANCE EvidenceLog WITH evidence <- Durable
DurableEvidence == Evidence!Spec

(* The index is a cache: whatever faults and failed index writes left in   *)
(* it, a range it serves is the range the owner decodes to.                 *)
CacheAgreesWithOwner ==
  \A to \in 0..(EndOf(owner) + 1) : \A from \in 0..to :
    LET served == ReadFromIndex(from, to)
    IN  served = Err \/ served = ReadByStreaming(from, to)

(* The bytes of line n are in the stream behind place p, and nowhere else.  *)
WrittenAt(n, p, bytes) ==
  /\ p + LineBytes[n] <= Len(bytes)
  /\ \A k \in 1..LineBytes[n] : bytes[p + k] = <<n, k>>
  /\ \A k \in 1..Len(bytes) : bytes[k][1] = n => k \in (p + 1)..(p + LineBytes[n])

InOrder(bytes) ==
  \A k, l \in 1..Len(bytes) :
    k < l /\ bytes[k][1] # 0 /\ bytes[l][1] # 0 => bytes[k][1] <= bytes[l][1]

(* A line the producer was told is Written is on stable storage: whole,     *)
(* once, and in the order of the appends.                                   *)
AcknowledgedIsDurable ==
  /\ \A n \in acked : \E p \in 0..Len(BytesOf(Durable)) : WrittenAt(n, p, BytesOf(Durable))
  /\ InOrder(BytesOf(Durable))

(* The frames a consumer accepted by their provenance are durable.          *)
FramesAreFinal == IsPrefix(copy.frames, Durable)

(* read_confirmed: what a consumer accepted of confirmed pages is a prefix  *)
(* of the log, also after a crash, so it never has to take anything back;   *)
(* and a snapshot reported complete is the whole log and stays it.          *)
ConfirmedIsFinal ==
  /\ IsPrefix(copy.bytes, BytesOf(Durable))
  /\ FramesAreFinal
  /\ claim # None => claim = BytesOf(owner) /\ ~torn

(* The emergency allowance of control lines is bounded over the life of the *)
(* log, however often it is reopened.                                       *)
ControlIsBounded == ControlBytesOf(owner) <= ControlOverdraft
===========================================================================
