-------------------------- MODULE SessionCommand --------------------------
(***************************************************************************)
(* The table session_commands and the statements that change it            *)
(* (crates/db/src/models/session_command.rs).                              *)
(*                                                                         *)
(* Every function of the source is one SQL statement or one transaction,   *)
(* so each is one operator from a table to a table.  A row is named by its *)
(* rowid: the order of Commands is the order ORDER BY rowid returns.  The  *)
(* text of a prompt, the timestamps and attempt_number decide nothing in   *)
(* the code that is modelled and are left out; the prompt of a row is      *)
(* identified with the row.                                                *)
(***************************************************************************)
EXTENDS Naturals, FiniteSets

CONSTANTS
  Sessions,      \* the session ids
  Configs,       \* values of SessionCommandConfig, compared with = only
  Keys,          \* the dedupe keys clients use
  MaxCommands,   \* bound: rows the table may hold
  MaxExecs,      \* bound: execution ids that may be allocated
  None           \* SQL NULL / Rust None

ASSUME TableAssumption ==
  /\ MaxCommands \in Nat
  /\ MaxExecs \in Nat
  /\ None \notin Keys
  /\ None \notin 1..MaxExecs
  /\ None \notin Sessions

Commands == 1..MaxCommands
Execs == 1..MaxExecs

Intents == {"continue", "replace"}
CommandStates == {"absent", "pending", "claimed", "done", "failed", "cancelled"}

CommandRow ==
  [session : Sessions \cup {None}, key : Keys \cup {None},
   config : Configs \cup {None}, state : CommandStates,
   exec : Execs \cup {None}]

NoRow == [session |-> None, key |-> None, config |-> None,
          state |-> "absent", exec |-> None]

NewRow(s, k, cfg, st, e) ==
  [session |-> s, key |-> k, config |-> cfg, state |-> st, exec |-> e]

(* The rows of t that satisfy a WHERE clause are given by the set S; f is  *)
(* the SET clause.                                                          *)
Update(t, S, f(_)) == [c \in Commands |-> IF c \in S THEN f(t[c]) ELSE t[c]]

Rows(t, s, sts) == {c \in Commands : t[c].session = s /\ t[c].state \in sts}
Bound(t, e, sts) == {c \in Commands : t[c].exec = e /\ t[c].state \in sts}
Unbound(t, s) == {c \in Rows(t, s, {"claimed"}) : t[c].exec = None}
Free(t) == {c \in Commands : t[c].state = "absent"}

Least(S) == CHOOSE c \in S : \A d \in S : c <= d

(* pending, claim_pending: the oldest pending row of the session.           *)
HeadPending(t, s) == Least(Rows(t, s, {"pending"}))

---------------------------------------------------------------------------
(* enqueue: the insert, and for a fresh Replace the cancellation of every   *)
(* other open row of the session, in one transaction.                       *)
Duplicate(t, s, k) == k # None /\ \E c \in Commands :
                                     t[c].session = s /\ t[c].key = k

Cancelled(r) == [r EXCEPT !.state = "cancelled"]

Enqueue(t, s, k, intent, cfg) ==
  LET id  == Least(Free(t))
      old == IF intent = "replace" THEN Rows(t, s, {"pending", "claimed"}) ELSE {}
  IN  IF Duplicate(t, s, k)
        THEN t
        ELSE [Update(t, old, Cancelled) EXCEPT ![id] = NewRow(s, k, cfg, "pending", None)]

(* cancel: one statement with the running-process predicate in it.          *)
Cancel(t, running, id) ==
  Update(t, {c \in {id} : t[c].state \in {"pending", "claimed"} /\ t[c].exec \notin running},
         Cancelled)

CancelPending(t, s) == Update(t, Rows(t, s, {"pending"}), Cancelled)

(* Mutant of ClaimBatch: the prefix is not cut where the config changes.    *)
ClaimBatchMixed(t, s) ==
  IF Rows(t, s, {"claimed"}) # {} THEN {} ELSE Rows(t, s, {"pending"})

(* claim_pending: refuse while the session has a claimed row; otherwise the *)
(* longest prefix of the pending rows whose config is that of the first.    *)
ClaimBatch(t, s) ==
  LET pending == Rows(t, s, {"pending"})
  IN  IF Rows(t, s, {"claimed"}) # {}
        THEN {}
        ELSE {c \in pending :
                \A d \in pending : d <= c => t[d].config = t[HeadPending(t, s)].config}

ClaimPending(t, s) ==
  Update(t, ClaimBatch(t, s), LAMBDA r : [r EXCEPT !.state = "claimed"])

(* Mutant of BindExecution: the state is missing from the WHERE clause.     *)
BindExecutionOpen(t, s, e) ==
  Update(t, {c \in Rows(t, s, {"pending", "claimed"}) : t[c].exec = None},
         LAMBDA r : [r EXCEPT !.exec = e])

(* bind_execution stamps whatever claimed rows of the session are unbound.  *)
BindExecution(t, s, e) ==
  Update(t, Unbound(t, s), LAMBDA r : [r EXCEPT !.exec = e])

ReleaseUnbound(t, s) ==
  Update(t, Unbound(t, s), LAMBDA r : [r EXCEPT !.state = "pending"])

Released(r) == [r EXCEPT !.state = "pending", !.exec = None]

ReleaseExecution(t, e) == Update(t, Bound(t, e, {"claimed"}), Released)

(* Mutant of RequeueExecution: `cancelled` counts as interruptible.         *)
RequeueExecutionCancelled(t, terminal, e) ==
  Update(t, IF e \in terminal THEN Bound(t, e, {"claimed", "failed", "cancelled"}) ELSE {},
         Released)

(* requeue_execution: terminal is the set of executions whose row exists    *)
(* and is not running, the EXISTS clause of the statement.                  *)
RequeueExecution(t, terminal, e) ==
  Update(t, IF e \in terminal THEN Bound(t, e, {"claimed", "failed"}) ELSE {}, Released)

(* ensure_claimed: the row of an execution that was started directly.       *)
EnsureClaimed(t, s, e, cfg) ==
  IF \E c \in Commands : t[c].exec = e
    THEN t
    ELSE [t EXCEPT ![Least(Free(t))] = NewRow(s, None, cfg, "claimed", e)]

(* Mutant of FinishExecution: the status of the process is written.         *)
FinishExecutionStatus(t, e, succeeded) ==
  Update(t, Bound(t, e, {"claimed"}),
         LAMBDA r : [r EXCEPT !.state = IF succeeded THEN "completed" ELSE "failed"])

FinishExecution(t, e, succeeded) ==
  Update(t, Bound(t, e, {"claimed"}),
         LAMBDA r : [r EXCEPT !.state = IF succeeded THEN "done" ELSE "failed"])

(* pending_session_ids: the sessions with a pending row, ordered by their   *)
(* first pending rowid.  The result is kept as the set of those rowids.     *)
PendingSessionHeads(t) ==
  {HeadPending(t, s) : s \in {s \in Sessions : Rows(t, s, {"pending"}) # {}}}
===========================================================================
