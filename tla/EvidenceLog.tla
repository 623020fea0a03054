---------------------------- MODULE EvidenceLog ----------------------------
(***************************************************************************)
(* What an execution log promises, whoever writes, reads or crashes: a     *)
(* sequence of frames on stable storage that only grows at its end, has no *)
(* hole, and is final once sealed.                                         *)
(***************************************************************************)
EXTENDS LogFrames

VARIABLE evidence

Grow ==
  /\ Outcome(evidence) = None
  /\ Len(evidence) < Len(evidence')
  /\ \A i \in 1..Len(evidence) : evidence'[i] = evidence[i]
  /\ Contiguous(evidence')

Init == evidence = <<>>
Spec == Init /\ [][Grow]_evidence
===========================================================================
