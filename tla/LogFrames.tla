----------------------------- MODULE LogFrames -----------------------------
(***************************************************************************)
(* Frames of an execution log (crates/utils/src/execution_logs.rs).  A     *)
(* frame has the stream offset its metadata records (capture_order), the   *)
(* producer bytes it decodes to, the control flag and the capture outcome. *)
(***************************************************************************)
EXTENDS Integers, Sequences, SequencesExt

CONSTANT None

FrameEnd(f) == f.start + Len(f.body)

(* One past the last producer byte of a sequence of frames.                 *)
EndOf(frames) == IF frames = <<>> THEN 0 ELSE FrameEnd(frames[Len(frames)])

Outcome(frames) == IF frames = <<>> THEN None ELSE frames[Len(frames)].outcome

(* Every frame starts where its predecessor ends and none follows a seal:   *)
(* scan_owner accepts nothing else.                                         *)
Contiguous(frames) ==
  \A i \in 1..Len(frames) :
    /\ frames[i].start = IF i = 1 THEN 0 ELSE FrameEnd(frames[i-1])
    /\ frames[i].outcome # None => i = Len(frames)

BytesOf(frames) == FlattenSeq([i \in 1..Len(frames) |-> frames[i].body])

ControlLen(f) == IF f.control THEN Len(f.body) ELSE 0

ControlBytesOf(frames) ==
  LET sum[i \in 0..Len(frames)] == IF i = 0 THEN 0 ELSE sum[i-1] + ControlLen(frames[i])
  IN  sum[Len(frames)]
===========================================================================
