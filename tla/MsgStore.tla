------------------------------ MODULE MsgStore ------------------------------
(***************************************************************************)
(* The bounded in-memory mirror of an execution's messages                 *)
(* (crates/utils/src/msg_store.rs): a ring under one lock, a watch channel *)
(* that only wakes, and subscribers that read the ring by sequence number. *)
(***************************************************************************)
EXTENDS Integers, Sequences, SequencesExt

CONSTANTS
  HistoryBytes,  \* HISTORY_BYTES
  MsgBytes,      \* approx_bytes, a function of the message
  Subscribers

ASSUME StoreAssumption ==
  HistoryBytes \in Nat /\ \A m \in DOMAIN MsgBytes : MsgBytes[m] \in Nat

VARIABLES
  history,   \* the ring: [seq, msg] from the oldest kept
  pushed,    \* every message pushed; its length is next_sequence
  version,   \* of the watch channel
  dropped,   \* the sender is gone
  subs       \* the streams: position, version seen, items received

storeVars == <<history, pushed, version, dropped, subs>>

(* An item is a message, or an error that says how many were evicted.       *)
Item(msg) == [msg |-> msg, missing |-> 0]
Gap(n) == [msg |-> 0, missing |-> n]

Idle == [at |-> "off", from |-> 0, next |-> 0, seen |-> 0, got |-> <<>>]

StoreInit ==
  /\ history = <<>> /\ pushed = <<>> /\ version = 0 /\ dropped = FALSE
  /\ subs = [s \in Subscribers |-> Idle]

NextSequence == Len(pushed)
TotalBytes(h) ==
  LET sum[i \in 0..Len(h)] == IF i = 0 THEN 0 ELSE sum[i-1] + MsgBytes[h[i].msg]
  IN  sum[Len(h)]

(* What is left of the ring once a message of that size is to fit.          *)
Evict(bytes) ==
  LET fits(k) == TotalBytes(SubSeq(history, k, Len(history))) + bytes <= HistoryBytes
      keep == {k \in 1..(Len(history) + 1) : fits(k) \/ k = Len(history) + 1}
  IN  SubSeq(history, CHOOSE k \in keep : \A j \in keep : k <= j, Len(history))

Push(msg) ==
  /\ history' = IF MsgBytes[msg] <= HistoryBytes
                THEN Append(Evict(MsgBytes[msg]), [seq |-> NextSequence, msg |-> msg])
                ELSE Evict(MsgBytes[msg])
  /\ pushed' = Append(pushed, msg)
  /\ version' = version + 1
  /\ UNCHANGED subs

First == IF history = <<>> THEN NextSequence ELSE history[1].seq

(* history_plus_stream or live_stream: position and version under the lock. *)
Subscribe(s, from) ==
  /\ subs[s].at = "off" /\ ~dropped /\ from \in {0, NextSequence}
  /\ subs' = [subs EXCEPT ![s] =
       [at |-> "poll", from |-> from, next |-> from, seen |-> version, got |-> <<>>]]
  /\ UNCHANGED <<history, pushed, version, dropped>>

(* Mutant of Poll: an evicted range is skipped without a word.              *)
PollSilently(s) ==
  /\ subs[s].at = "poll"
  /\ LET n == subs[s].next
         i == (IF n < First THEN 0 ELSE n - First) + 1
     IN  subs' = [subs EXCEPT ![s] =
           IF i <= Len(history)
           THEN [@ EXCEPT !.got = Append(@, Item(history[i].msg)), !.next = history[i].seq + 1]
           ELSE [@ EXCEPT !.at = "wait"]]
  /\ UNCHANGED <<history, pushed, version, dropped>>

(* The next item, read under the lock; without one, wait for a change.      *)
Poll(s) ==
  /\ subs[s].at = "poll"
  /\ LET sub == subs[s]
         n == sub.next
     IN  subs' = [subs EXCEPT ![s] =
           IF n < First
           THEN [sub EXCEPT !.got = Append(sub.got, Gap(First - n)), !.next = First]
           ELSE IF n - First < Len(history)
           THEN [sub EXCEPT !.got = Append(sub.got, Item(history[n - First + 1].msg)), !.next = n + 1]
           ELSE [sub EXCEPT !.at = "wait"]]
  /\ UNCHANGED <<history, pushed, version, dropped>>

(* Mutant of Wake: the change is consumed without another look.             *)
WakeAndWait(s) ==
  /\ subs[s].at = "wait"
  /\ \/ subs[s].seen # version /\ subs' = [subs EXCEPT ![s].seen = version]
     \/ subs[s].seen = version /\ dropped /\ subs' = [subs EXCEPT ![s].at = "end"]
  /\ UNCHANGED <<history, pushed, version, dropped>>

(* changed(): an unseen version wakes the reader, else the lost sender ends *)
(* the stream.                                                              *)
Wake(s) ==
  /\ subs[s].at = "wait"
  /\ \/ subs[s].seen # version
        /\ subs' = [subs EXCEPT ![s].at = "poll", ![s].seen = version]
     \/ subs[s].seen = version /\ dropped
        /\ subs' = [subs EXCEPT ![s].at = "end"]
  /\ UNCHANGED <<history, pushed, version, dropped>>

SubscriberStep(s) == Poll(s) \/ Wake(s)

(* Where the items received leave a subscriber that started at `from`, or   *)
(* -1 if one of them is not the message pushed at its place.                *)
After(p, item) ==
  IF p < 0 THEN p
  ELSE IF item.missing > 0 THEN p + item.missing
  ELSE IF p < Len(pushed) /\ pushed[p + 1] = item.msg THEN p + 1
  ELSE -1

Position(s) ==
  LET at[i \in 0..Len(subs[s].got)] ==
        IF i = 0 THEN subs[s].from ELSE After(at[i-1], subs[s].got[i])
  IN  at[Len(subs[s].got)]
===========================================================================
