---------------------------- MODULE StopProofs ----------------------------
(***************************************************************************)
(* Keyed stops, for every number of keys, handlers, faults and restarts: a *)
(* key stops once, has one answer, and the answer is earned.               *)
(***************************************************************************)
EXTENDS StopOperation, FiniteSetTheorems, TLAPS

Positions ==
  {"free", "begin", "state", "stop", "wait", "reread", "complete", "answer"}

Request == [key : Keys \cup {None}, at : Positions, outcome : Outcomes \cup {None}]

StopType ==
  /\ instance \in Nat /\ exec \in {"running", "ended"}
  /\ rows \in [Keys -> Row \cup {None}]
  /\ req \in [Handlers -> Request]
  /\ \A h \in Handlers : ~At(h, "free") => req[h].key \in Keys
  /\ replies \in [Keys -> SUBSET Outcomes]
  /\ stops \in [Keys -> Nat]

(* A row belongs to this server process or to an earlier one; the stop of a *)
(* key follows its row, and every answer given is the row's outcome.        *)
RowInv ==
  \A k \in Keys :
    /\ stops[k] <= 1
    /\ rows[k] = None => stops[k] = 0 /\ replies[k] = {}
    /\ rows[k] # None => /\ rows[k].owner <= instance
                         /\ rows[k].outcome = "accepted" => exec = "ended"
                         /\ rows[k].outcome = "interrupted" => rows[k].owner # instance
                         /\ replies[k] \subseteq {rows[k].outcome}

(* h carries out the stop itself, up to the record of what came of it; the  *)
(* others only look at the row or settle what an earlier process left.      *)
Works(h) ==
  \/ req[h].at \in {"stop", "wait", "reread"}
  \/ At(h, "complete") /\ req[h].outcome # "interrupted"

(* Whoever works on a key is the only one, and its row is still open.       *)
WorkerInv ==
  /\ \A h \in Handlers : Works(h) =>
       /\ rows[req[h].key] # None
       /\ rows[req[h].key].owner = instance /\ rows[req[h].key].outcome = None
  /\ \A h, g \in Handlers : Works(h) /\ Works(g) /\ req[h].key = req[g].key => h = g

(* What a handler knows at each position.                                   *)
HandlerInv ==
  \A h \in Handlers :
    /\ At(h, "stop") => stops[req[h].key] = 0
    /\ At(h, "reread") => exec = "ended"
    /\ req[h].at \in {"state", "complete", "answer"} => rows[req[h].key] # None
    /\ At(h, "complete") => /\ req[h].outcome \in Outcomes
                            /\ req[h].outcome = "accepted" => exec = "ended"
                            /\ req[h].outcome = "interrupted" =>
                                 rows[req[h].key].owner # instance
    /\ At(h, "answer") => rows[req[h].key].outcome # None

StopInv == StopType /\ RowInv /\ WorkerInv /\ HandlerInv

(* No row and no handler: nothing has been promised.                        *)
LEMMA InitStop == Init => StopInv
  BY StopAssumption
  DEF Init, StopInv, StopType, RowInv, WorkerInv, HandlerInv, Works, At, Free, Positions,
      Request

(* A handler moves on with its key.                                         *)
LEMMA GotoRequest ==
  ASSUME StopType, NEW h \in Handlers, NEW at \in Positions,
         NEW outcome \in Outcomes \cup {None}, Goto(h, at, outcome)
  PROVE  /\ req' \in [Handlers -> Request]
         /\ req'[h] = [key |-> req[h].key, at |-> at, outcome |-> outcome]
         /\ \A g \in Handlers \ {h} : req'[g] = req[g]
<1> DEFINE r == [req[h] EXCEPT !.at = at]
           q == [r EXCEPT !.outcome = outcome]
<1>1. r \in Request /\ r = [key |-> req[h].key, at |-> at, outcome |-> req[h].outcome]
  BY DEF StopType, Request
<1> HIDE DEF r
<1>2. q \in Request /\ q = [key |-> req[h].key, at |-> at, outcome |-> outcome]
  BY <1>1 DEF Request
<1>3. req' = [req EXCEPT ![h] = q]
  BY DEF Goto, StopType, r
<1> HIDE DEF q
<1> QED
  BY <1>2, <1>3 DEF StopType

(* Only the worker of a key stops, and it has not done so before.           *)
LEMMA CallStopStop ==
  ASSUME StopInv, NEW h \in Handlers, CallStop(h)
  PROVE  StopInv'
<1> USE StopAssumption DEF StopInv, At, Outcomes
<1>0. /\ req' \in [Handlers -> Request]
      /\ req'[h] = [key |-> req[h].key, at |-> "wait", outcome |-> None]
      /\ \A g \in Handlers \ {h} : req'[g] = req[g]
  BY GotoRequest DEF CallStop, Positions
<1>1. StopType'
  BY <1>0 DEF CallStop, StopType, Row
<1>2. RowInv'
  BY <1>0 DEF CallStop, StopType, RowInv, WorkerInv, HandlerInv, Works, Row
<1>3. WorkerInv'
  BY <1>0 DEF CallStop, StopType, WorkerInv, HandlerInv, Works, Row
<1>4. HandlerInv'
  BY <1>0 DEF CallStop, StopType, RowInv, WorkerInv, HandlerInv, Works, Row
<1> QED
  BY <1>1, <1>2, <1>3, <1>4

(* The stop returns when the execution's row is terminal.                   *)
LEMMA StopEndsStop ==
  ASSUME StopInv, NEW h \in Handlers, StopEnds(h)
  PROVE  StopInv'
<1> USE StopAssumption DEF StopInv, At, Outcomes
<1>0. /\ req' \in [Handlers -> Request]
      /\ req'[h] = [key |-> req[h].key, at |-> "reread", outcome |-> None]
      /\ \A g \in Handlers \ {h} : req'[g] = req[g]
  BY GotoRequest DEF StopEnds, Positions
<1>1. StopType'
  BY <1>0 DEF StopEnds, StopType, Row
<1>2. RowInv'
  BY <1>0 DEF StopEnds, StopType, RowInv, WorkerInv, HandlerInv, Works, Row
<1>3. WorkerInv'
  BY <1>0 DEF StopEnds, StopType, WorkerInv, HandlerInv, Works, Row
<1>4. HandlerInv'
  BY <1>0 DEF StopEnds, StopType, RowInv, WorkerInv, HandlerInv, Works, Row
<1> QED
  BY <1>1, <1>2, <1>3, <1>4

(* A failed stop is still its worker's to record.                           *)
LEMMA StopFailsStop ==
  ASSUME StopInv, NEW h \in Handlers, StopFails(h)
  PROVE  StopInv'
<1> USE StopAssumption DEF StopInv, At, Outcomes
<1>0. /\ req' \in [Handlers -> Request]
      /\ req'[h] = [key |-> req[h].key, at |-> "complete", outcome |-> "rejected"]
      /\ \A g \in Handlers \ {h} : req'[g] = req[g]
  BY GotoRequest DEF StopFails, Positions
<1>1. StopType'
  BY <1>0 DEF StopFails, StopType, Row
<1>2. RowInv'
  BY <1>0 DEF StopFails, StopType, RowInv, WorkerInv, HandlerInv, Works, Row
<1>3. WorkerInv'
  BY <1>0 DEF StopFails, StopType, WorkerInv, HandlerInv, Works, Row
<1>4. HandlerInv'
  BY <1>0 DEF StopFails, StopType, RowInv, WorkerInv, HandlerInv, Works, Row
<1> QED
  BY <1>1, <1>2, <1>3, <1>4

(* A stop is accepted after the row was seen terminal.                      *)
LEMMA AcknowledgeStop ==
  ASSUME StopInv, NEW h \in Handlers, Acknowledge(h)
  PROVE  StopInv'
<1> USE StopAssumption DEF StopInv, At, Outcomes
<1>0. /\ req' \in [Handlers -> Request]
      /\ req'[h] = [key |-> req[h].key, at |-> "complete", outcome |-> "accepted"]
      /\ \A g \in Handlers \ {h} : req'[g] = req[g]
  BY GotoRequest DEF Acknowledge, Positions
<1>1. StopType'
  BY <1>0 DEF Acknowledge, StopType, Row
<1>2. RowInv'
  BY <1>0 DEF Acknowledge, StopType, RowInv, WorkerInv, HandlerInv, Works, Row
<1>3. WorkerInv'
  BY <1>0 DEF Acknowledge, StopType, WorkerInv, HandlerInv, Works, Row
<1>4. HandlerInv'
  BY <1>0 DEF Acknowledge, StopType, RowInv, WorkerInv, HandlerInv, Works, Row
<1> QED
  BY <1>1, <1>2, <1>3, <1>4

(* The first completion fixes the outcome; a worker's own is the first.     *)
LEMMA CompleteStop ==
  ASSUME StopInv, NEW h \in Handlers, Complete(h)
  PROVE  StopInv'
<1> USE StopAssumption DEF StopInv, At, Outcomes
<1>0. /\ req' \in [Handlers -> Request]
      /\ req'[h] = [key |-> req[h].key, at |-> "answer", outcome |-> None]
      /\ \A g \in Handlers \ {h} : req'[g] = req[g]
  BY GotoRequest DEF Complete, Positions
<1>a. req[h].key \in Keys /\ rows[req[h].key] \in Row
  BY DEF Complete, StopType, HandlerInv
<1>b. rows' \in [Keys -> Row \cup {None}]
  BY <1>a DEF Complete, StopType, HandlerInv, Row
<1>1. StopType'
  BY <1>0, <1>b DEF Complete, StopType
<1>2. RowInv'
  BY <1>0 DEF Complete, StopType, RowInv, WorkerInv, HandlerInv, Works, Row
<1>3. WorkerInv'
  BY <1>0 DEF Complete, StopType, WorkerInv, HandlerInv, Works, Row
<1>4. HandlerInv'
  BY <1>0 DEF Complete, StopType, RowInv, WorkerInv, HandlerInv, Works, Row
<1> QED
  BY <1>1, <1>2, <1>3, <1>4

(* A new request knows nothing yet.                                         *)
LEMMA SendStop ==
  ASSUME StopInv, NEW h \in Handlers, NEW k \in Keys, Send(h, k)
  PROVE  StopInv'
<1> USE StopAssumption DEF StopInv, At, Outcomes
<1>0. /\ req' \in [Handlers -> Request]
      /\ req'[h] = [key |-> k, at |-> "begin", outcome |-> None]
      /\ \A g \in Handlers \ {h} : req'[g] = req[g]
  BY DEF Send, StopType, Request, Free, Positions
<1>1. StopType'
  BY <1>0 DEF Send, StopType, Row
<1>2. RowInv'
  BY <1>0 DEF Send, StopType, RowInv, WorkerInv, HandlerInv, Works, Row
<1>3. WorkerInv'
  BY <1>0 DEF Send, StopType, WorkerInv, HandlerInv, Works, Row
<1>4. HandlerInv'
  BY <1>0 DEF Send, StopType, RowInv, WorkerInv, HandlerInv, Works, Row
<1> QED
  BY <1>1, <1>2, <1>3, <1>4

(* The answer read back from the row is the row's outcome.                  *)
LEMMA AnswerStop ==
  ASSUME StopInv, NEW h \in Handlers, Answer(h)
  PROVE  StopInv'
<1> USE StopAssumption DEF StopInv, At, Outcomes
<1>0. /\ req' \in [Handlers -> Request]
      /\ req'[h] = Free
      /\ \A g \in Handlers \ {h} : req'[g] = req[g]
  BY DEF Answer, Respond, StopType, Request, Free, Positions
<1>a. req[h].key \in Keys /\ rows[req[h].key].outcome \in Outcomes
  BY DEF Answer, StopType, HandlerInv, Row
<1>1. StopType'
  BY <1>0, <1>a DEF Answer, Respond, Free, StopType
<1>2. RowInv'
  BY <1>0 DEF Answer, Respond, Free, StopType, RowInv, WorkerInv, HandlerInv, Works, Row
<1>3. WorkerInv'
  BY <1>0 DEF Answer, Respond, Free, StopType, WorkerInv, HandlerInv, Works, Row
<1>4. HandlerInv'
  BY <1>0 DEF Answer, Respond, Free, StopType, RowInv, WorkerInv, HandlerInv, Works, Row
<1> QED
  BY <1>1, <1>2, <1>3, <1>4

(* A handler that ends without an answer leaves the row to those that ask   *)
(* again.                                                                   *)
LEMMA DropStop ==
  ASSUME StopInv, NEW h \in Handlers, RecordFails(h) \/ Disconnect(h)
  PROVE  StopInv'
<1> USE StopAssumption DEF StopInv, At, Outcomes
<1>0. /\ req' \in [Handlers -> Request]
      /\ req'[h] = Free
      /\ \A g \in Handlers \ {h} : req'[g] = req[g]
  BY DEF RecordFails, Disconnect, RespondLater, StopType, Request, Free, Positions
<1>1. StopType'
  BY <1>0 DEF RecordFails, Disconnect, RespondLater, Free, StopType, Row
<1>2. RowInv'
  BY <1>0 DEF RecordFails, Disconnect, RespondLater, Free, StopType, RowInv, WorkerInv, HandlerInv, Works, Row
<1>3. WorkerInv'
  BY <1>0 DEF RecordFails, Disconnect, RespondLater, Free, StopType, WorkerInv, HandlerInv, Works, Row
<1>4. HandlerInv'
  BY <1>0 DEF RecordFails, Disconnect, RespondLater, Free, StopType, RowInv, WorkerInv, HandlerInv, Works, Row
<1> QED
  BY <1>1, <1>2, <1>3, <1>4

(* The row's insert makes its handler the worker: nobody else can be one,   *)
(* and no stop of the key can have been called.                             *)
LEMMA BeginStop ==
  ASSUME StopInv, NEW h \in Handlers, Begin(h)
  PROVE  StopInv'
<1> USE StopAssumption DEF StopInv, At, Outcomes
<1> DEFINE k == req[h].key
           at == IF rows[k] = None THEN "stop" ELSE "state"
<1>0. /\ req' \in [Handlers -> Request]
      /\ req'[h] = [key |-> k, at |-> at, outcome |-> None]
      /\ \A g \in Handlers \ {h} : req'[g] = req[g]
  <2>1. Goto(h, at, None) /\ at \in Positions
    BY DEF Begin, Positions
  <2> HIDE DEF at
  <2> QED
    BY <2>1, GotoRequest
<1>r. /\ k \in Keys
      /\ rows' = IF rows[k] = None
                   THEN [rows EXCEPT ![k] = [owner |-> instance, outcome |-> None]] ELSE rows
  BY DEF Begin, StopType
<1>1. StopType'
  BY <1>0, <1>r DEF Begin, StopType, Row
<1>2. RowInv'
  BY <1>0, <1>r DEF Begin, StopType, RowInv, Row
<1>3. WorkerInv'
  BY <1>0, <1>r DEF Begin, StopType, WorkerInv, Works, Row
<1>4. HandlerInv'
  BY <1>0, <1>r DEF Begin, StopType, RowInv, HandlerInv, Row
<1> QED
  BY <1>1, <1>2, <1>3, <1>4

(* A later request answers from the row, or settles what an earlier server  *)
(* process left.                                                            *)
LEMMA StateStop ==
  ASSUME StopInv, NEW h \in Handlers, State(h)
  PROVE  StopInv'
<1> USE StopAssumption DEF StopInv, At, Outcomes
<1> DEFINE row == rows[req[h].key]
<1>a. req[h].key \in Keys /\ row \in Row
  BY DEF State, StopType, HandlerInv
<1>1. CASE req' = [req EXCEPT ![h] = Free]
  <2>0. /\ req' \in [Handlers -> Request] /\ req'[h] = Free
        /\ \A g \in Handlers \ {h} : req'[g] = req[g]
    BY <1>1 DEF StopType, Request, Free, Positions
  <2>1. StopType'
    BY <1>a, <2>0 DEF State, Respond, RespondLater, Reconciled, Free, StopType, Row
  <2>2. RowInv'
    BY <1>a, <2>0 DEF State, Respond, RespondLater, Reconciled, Free, StopType, RowInv, Row
  <2>3. WorkerInv' /\ HandlerInv'
    BY <1>a, <2>0 DEF State, Free, StopType, WorkerInv, HandlerInv, Works, Row
  <2> QED
    BY <2>1, <2>2, <2>3
<1>2. CASE row.outcome = None /\ Reconciled(h, row) /\ UNCHANGED <<asked, replies>>
  <2>0. /\ req' \in [Handlers -> Request]
        /\ req'[h] = [key |-> req[h].key, at |-> "complete", outcome |-> "interrupted"]
        /\ \A g \in Handlers \ {h} : req'[g] = req[g]
    BY <1>2, GotoRequest DEF Reconciled, Positions
  <2>1. StopType' /\ RowInv'
    BY <1>2, <2>0 DEF State, StopType, RowInv
  <2>2. WorkerInv' /\ HandlerInv'
    BY <1>a, <1>2, <2>0 DEF State, Reconciled, StopType, WorkerInv, HandlerInv, Works, Row
  <2> QED
    BY <2>1, <2>2
<1> QED
  BY <1>1, <1>2 DEF State, Respond, RespondLater

(* A new server process owns no row and runs no handler, and its boot has   *)
(* ended the execution.                                                     *)
LEMMA RestartStop ==
  ASSUME StopInv, Restart
  PROVE  StopInv'
<1> USE StopAssumption DEF StopInv, At, Restart, Free
<1>1. StopType'
  BY DEF StopType, Request, Positions
<1>2. RowInv'
  BY DEF StopType, RowInv, Row
<1>3. WorkerInv' /\ HandlerInv'
  BY DEF StopType, WorkerInv, HandlerInv, Works
<1> QED
  BY <1>1, <1>2, <1>3

(* Each step keeps the invariant.                                           *)
LEMMA NextStop ==
  ASSUME StopInv, [Next]_vars
  PROVE  StopInv'
<1>1. CASE \E k \in Keys : Ask(k)
  BY <1>1 DEF Ask, StopInv, StopType, RowInv, WorkerInv, HandlerInv, Works, At
<1>2. CASE ExecutionExits
  BY <1>2 DEF ExecutionExits, StopInv, StopType, RowInv, WorkerInv, HandlerInv, Works, At
<1>3. CASE UNCHANGED vars
  BY <1>3 DEF vars, StopInv, StopType, RowInv, WorkerInv, HandlerInv, Works, At
<1>4. CASE Restart
  BY <1>4, RestartStop
<1>5. ASSUME NEW h \in Handlers,
             (\E k \in Keys : Send(h, k)) \/ Step(h) \/ RecordFails(h) \/ Disconnect(h)
      PROVE  StopInv'
  BY <1>5, SendStop, BeginStop, StateStop, CallStopStop, StopEndsStop, StopFailsStop,
     AcknowledgeStop, CompleteStop, AnswerStop, DropStop
  DEF Step
<1> QED
  BY <1>1, <1>2, <1>3, <1>4, <1>5 DEF Next

(* The invariant holds throughout.                                          *)
LEMMA AlwaysStop == Spec => []StopInv
  BY InitStop, NextStop, PTL DEF Spec

(* STOP_OPERATION_INSTANCE_ID: one key calls stop_execution at most once,   *)
(* for every number of keys, handlers, disconnects, failed records and      *)
(* restarts.                                                                *)
THEOREM StopsOnce == Spec => []KeyStopsOnce
<1>1. StopInv => KeyStopsOnce
  BY DEF StopInv, RowInv, KeyStopsOnce
<1> QED
  BY <1>1, AlwaysStop, PTL

(* begin, "every replay observes its original result": all definitive       *)
(* answers to a key agree, whoever gives them and after whichever restart.  *)
THEOREM AnswersAgree == Spec => []RepliesAgree
<1>1. StopInv => RepliesAgree
  <2> SUFFICES ASSUME StopInv, NEW k \in Keys PROVE Cardinality(replies[k]) <= 1
    BY DEF RepliesAgree
  <2>1. CASE replies[k] = {}
    BY <2>1, FS_EmptySet
  <2>2. CASE replies[k] # {}
    <3>1. PICK r : replies[k] = {r}
      BY <2>2 DEF StopInv, RowInv
    <3> QED
      BY <3>1, FS_Singleton
  <2> QED
    BY <2>1, <2>2
<1> QED
  BY <1>1, AlwaysStop, PTL

(* stop_execution_process and complete: an accepted stop ended the          *)
(* execution, an interrupted one was begun by an earlier server process,    *)
(* and no retry decides a stop whose owner is still at work.                *)
THEOREM OutcomesEarned == Spec => []OutcomeIsEarned
<1>1. StopInv => OutcomeIsEarned
  BY DEF StopInv, RowInv, WorkerInv, Works, OutcomeIsEarned
<1> QED
  BY <1>1, AlwaysStop, PTL
===========================================================================
