---------------------------- MODULE StopOperation ----------------------------
(***************************************************************************)
(* Keyed stops of one execution: stop_execution_process                    *)
(* (crates/server/src/routes/execution_processes.rs) over the durable      *)
(* operation rows of crates/db/src/models/execution_process_stop_operation *)
(* .rs.  Clients repeat a key as they like, also after a restart.          *)
(***************************************************************************)
EXTENDS Integers, FiniteSets

CONSTANTS
  Keys,          \* dedupe keys
  Handlers,      \* request handlers that may run at once
  Faults,        \* which of "record", "disconnect" and "exec" may happen
  MaxFaults,     \* bound on failed records and disconnects
  MaxRestarts,   \* bound on server restarts
  None

(* StopExecutionOutcome and the columns of a row.                           *)
Outcomes == {"accepted", "rejected", "interrupted"}
Row == [owner : Nat, outcome : Outcomes \cup {None}]

ASSUME StopAssumption ==
  /\ Faults \subseteq {"record", "disconnect", "exec"}
  /\ MaxRestarts \in Nat /\ MaxFaults \in Nat
  /\ None \notin Outcomes \cup Row

VARIABLES
  instance,   \* STOP_OPERATION_INSTANCE_ID, new in every server process
  exec,       \* the execution's durable status: "running" or "ended"
  rows,       \* execution_process_stop_operations: [owner, outcome] or None
  req,        \* each handler's [key, at, outcome]
  asked,      \* keys some client wants answered
  faults,     \* failed records and disconnects so far
  replies,    \* history: definitive answers given for a key
  stops       \* history: calls of stop_execution for a key

vars == <<instance, exec, rows, req, asked, faults, replies, stops>>

Free == [key |-> None, at |-> "free", outcome |-> None]

Init ==
  /\ instance = 1 /\ exec = "running"
  /\ rows = [k \in Keys |-> None]
  /\ req = [h \in Handlers |-> Free]
  /\ asked = {} /\ faults = 0
  /\ replies = [k \in Keys |-> {}]
  /\ stops = [k \in Keys |-> 0]

At(h, at) == req[h].at = at
Goto(h, at, outcome) == req' = [req EXCEPT ![h].at = at, ![h].outcome = outcome]

(* stop_outcome_response: the three definitive answers.                     *)
Respond(h, outcome) ==
  /\ replies' = [replies EXCEPT ![req[h].key] = @ \cup {outcome}]
  /\ asked' = asked \ {req[h].key}
  /\ req' = [req EXCEPT ![h] = Free]

(* 425 or 500: the client keeps asking.                                     *)
RespondLater(h) == req' = [req EXCEPT ![h] = Free] /\ UNCHANGED <<asked, replies>>

---------------------------------------------------------------------------
Ask(k) ==
  /\ k \notin asked /\ asked' = asked \cup {k}
  /\ UNCHANGED <<instance, exec, rows, req, replies, stops, faults>>

Send(h, k) ==
  /\ At(h, "free") /\ k \in asked
  /\ req' = [req EXCEPT ![h] = [Free EXCEPT !.key = k, !.at = "begin"]]
  /\ UNCHANGED <<instance, exec, rows, asked, replies, stops, faults>>

(* Mutant of Begin: the INSERT replaces the row of an earlier request.      *)
BeginReplace(h) ==
  LET k == req[h].key IN
  /\ At(h, "begin")
  /\ rows' = [rows EXCEPT ![k] = [owner |-> instance, outcome |-> None]]
  /\ Goto(h, "stop", None)
  /\ UNCHANGED <<instance, exec, asked, replies, stops, faults>>

(* begin's INSERT ... ON CONFLICT DO NOTHING: the durable intent precedes   *)
(* the stop.                                                                *)
Begin(h) ==
  LET k == req[h].key IN
  /\ At(h, "begin")
  /\ IF rows[k] = None
       THEN /\ rows' = [rows EXCEPT ![k] = [owner |-> instance, outcome |-> None]]
            /\ Goto(h, "stop", None)
       ELSE Goto(h, "state", None) /\ UNCHANGED rows
  /\ UNCHANGED <<instance, exec, asked, replies, stops, faults>>

(* Mutants of Reconciled: an orphan is stopped again; it is waited for.     *)
ReconciledByStopping(h, row) ==
  /\ row.owner # instance /\ Goto(h, "stop", None)

ReconciledNever(h, row) ==
  /\ row.owner # instance /\ req' = [req EXCEPT ![h] = Free]

(* orphaned_stop_outcome: the owner was another server process.             *)
Reconciled(h, row) ==
  /\ row.owner # instance /\ Goto(h, "complete", "interrupted")

(* state: completed, in progress in this server, or left by an earlier one. *)
State(h) ==
  LET row == rows[req[h].key] IN
  /\ At(h, "state")
  /\ \/ row.outcome # None /\ Respond(h, row.outcome)
     \/ row.outcome = None /\ row.owner = instance /\ RespondLater(h)
     \/ row.outcome = None /\ Reconciled(h, row) /\ UNCHANGED <<asked, replies>>
  /\ UNCHANGED <<instance, exec, rows, stops, faults>>

(* stop_execution is called, and works on the execution ...                 *)
CallStop(h) ==
  /\ At(h, "stop") /\ Goto(h, "wait", None)
  /\ stops' = [stops EXCEPT ![req[h].key] = @ + 1]
  /\ UNCHANGED <<instance, exec, rows, asked, replies, faults>>

(* ... until the monitor, or the orphan's compare-and-swap, has made the    *)
(* row terminal.                                                            *)
StopEnds(h) ==
  /\ At(h, "wait") /\ exec' = "ended" /\ Goto(h, "reread", None)
  /\ UNCHANGED <<instance, rows, asked, replies, stops, faults>>

(* An error at any point of the stop, before or after it took effect.       *)
StopFails(h) ==
  /\ "exec" \in Faults
  /\ At(h, "wait") \/ At(h, "reread")
  /\ Goto(h, "complete", "rejected")
  /\ UNCHANGED <<instance, exec, rows, asked, replies, stops, faults>>

(* Mutant of Acknowledge: a stop is accepted when it has been requested.    *)
AcknowledgeEarly(h) ==
  /\ At(h, "wait") \/ At(h, "reread")
  /\ Goto(h, "complete", "accepted")
  /\ UNCHANGED <<instance, exec, rows, asked, replies, stops, faults>>

(* The row was read again and is terminal.                                  *)
Acknowledge(h) ==
  /\ At(h, "reread") /\ Goto(h, "complete", "accepted")
  /\ UNCHANGED <<instance, exec, rows, asked, replies, stops, faults>>

(* complete: the first completion wins ...                                  *)
Complete(h) ==
  LET k == req[h].key IN
  /\ At(h, "complete")
  /\ rows' = [rows EXCEPT ![k].outcome = IF @ = None THEN req[h].outcome ELSE @]
  /\ Goto(h, "answer", None)
  /\ UNCHANGED <<instance, exec, asked, replies, stops, faults>>

(* ... and its outcome, read back, is everybody's answer.                   *)
Answer(h) ==
  /\ At(h, "answer") /\ Respond(h, rows[req[h].key].outcome)
  /\ UNCHANGED <<instance, exec, rows, stops, faults>>

Fault == faults < MaxFaults /\ faults' = faults + 1

(* The UPDATE fails and the handler answers 500.                            *)
RecordFails(h) ==
  /\ "record" \in Faults /\ At(h, "complete") /\ RespondLater(h) /\ Fault
  /\ UNCHANGED <<instance, exec, rows, stops>>

(* The client goes away: the handler is dropped at whatever it awaits.      *)
Disconnect(h) ==
  /\ "disconnect" \in Faults /\ ~At(h, "free") /\ RespondLater(h) /\ Fault
  /\ UNCHANGED <<instance, exec, rows, stops>>

---------------------------------------------------------------------------
(* The agent exits by itself, or another key's stop ends it.                *)
ExecutionExits ==
  /\ exec = "running" /\ exec' = "ended"
  /\ UNCHANGED <<instance, rows, req, asked, replies, stops, faults>>

(* A new server process, whose boot has failed the execution's row before a *)
(* request is served.                                                       *)
Restart ==
  /\ instance <= MaxRestarts /\ instance' = instance + 1
  /\ req' = [h \in Handlers |-> Free]
  /\ exec' = "ended"
  /\ UNCHANGED <<rows, asked, replies, stops, faults>>

Step(h) ==
  \/ Begin(h) \/ State(h) \/ CallStop(h) \/ StopEnds(h) \/ StopFails(h)
  \/ Acknowledge(h) \/ Complete(h) \/ Answer(h)

Next ==
  \/ \E k \in Keys : Ask(k)
  \/ \E h \in Handlers : \/ \E k \in Keys : Send(h, k)
                         \/ Step(h) \/ RecordFails(h) \/ Disconnect(h)
  \/ ExecutionExits \/ Restart

Spec == Init /\ [][Next]_vars

(* Handlers run on, and a client repeats its key while it has no answer.    *)
FairStops ==
  /\ Spec
  /\ \A h \in Handlers : WF_vars(Step(h))
  /\ \A k \in Keys : SF_vars(\E h \in Handlers : Send(h, k))

---------------------------------------------------------------------------
(* Whether the operation's owner still runs in this server process.         *)
Owned(k) ==
  \E h \in Handlers : req[h].key = k /\ req[h].at \in {"stop", "wait", "reread", "complete"}

(* STOP_OPERATION_INSTANCE_ID, "can reconcile, but never re-execute, an     *)
(* orphaned stop": one key stops at most once, across retries and restarts. *)
KeyStopsOnce == \A k \in Keys : stops[k] <= 1

(* begin, "every replay observes its original result": all definitive       *)
(* answers to a key agree.                                                  *)
RepliesAgree == \A k \in Keys : Cardinality(replies[k]) <= 1

(* stop_execution_process and complete, "First completion wins": an         *)
(* accepted stop has made the execution's row terminal, an interrupted one  *)
(* belongs to an earlier server process, and while its owner works on a key *)
(* no retry decides the outcome.                                            *)
OutcomeIsEarned ==
  /\ \A k \in Keys : rows[k] # None =>
       /\ rows[k].outcome = "accepted" => exec = "ended"
       /\ rows[k].outcome = "interrupted" => rows[k].owner # instance
  /\ \A h \in Handlers : req[h].at \in {"stop", "wait", "reread"} =>
       LET row == rows[req[h].key]
       IN  row # None /\ row.owner = instance /\ row.outcome = None

(* A key that is asked for gets a definitive answer, unless its owner was   *)
(* dropped, or could not record its outcome, in a server still running.     *)
KeyedStopResolves ==
  \A k \in Keys :
    k \in asked ~> \/ k \notin asked
                   \/ rows[k] # None /\ rows[k].owner = instance
                        /\ rows[k].outcome = None /\ ~Owned(k)
=============================================================================
