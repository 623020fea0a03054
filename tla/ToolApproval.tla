----------------------------- MODULE ToolApproval -----------------------------
(***************************************************************************)
(* Approvals an agent asks for while it runs: the map of pending requests  *)
(* (crates/services/src/services/approvals.rs), the bridge on which the    *)
(* agent waits (approvals/executor_approvals.rs), the users' answers and   *)
(* the timeout watcher.  Each access to the map is a step.                 *)
(***************************************************************************)
EXTENDS Integers, FiniteSets

CONSTANTS
  Approvals,    \* requests the agents make
  Questions,    \* those that ask for an answer rather than a permission
  Responders    \* concurrent respond calls

ASSUME ApprovalsAssumption == Questions \subseteq Approvals

VARIABLES
  agent,       \* "new", "created", "waiting", "cancelled", or what it received
  pending,     \* the pending map: ids, each entry owning the sending end
  completed,   \* ids in the completed map
  channel,     \* per request "open", "closed" (sender dropped) or an outcome
  watcher,     \* per request "off", "sleep", "fired" or "done"
  call,        \* per responder the entry it has taken out and its answer
  granted      \* history: outcomes respond has returned as recorded

vars == <<agent, pending, completed, channel, watcher, call, granted>>

(* What a client may send; "mismatch" names another execution.              *)
Answers == {"approved", "answered", "timed_out", "mismatch"}
Delivered == {"approved", "answered", "timed_out"}

Init ==
  /\ agent = [a \in Approvals |-> "new"]
  /\ pending = {} /\ completed = {}
  /\ channel = [a \in Approvals |-> "open"]
  /\ watcher = [a \in Approvals |-> "off"]
  /\ call = [r \in Responders |-> {}]
  /\ granted = [a \in Approvals |-> {}]

---------------------------------------------------------------------------
(* create_with_waiter: the entry is in the map before its watcher runs.     *)
Create(a) ==
  /\ agent[a] = "new" /\ agent' = [agent EXCEPT ![a] = "created"]
  /\ pending' = pending \cup {a}
  /\ UNCHANGED <<completed, channel, watcher, call, granted>>

Watch(a) ==
  /\ agent[a] = "created" /\ agent' = [agent EXCEPT ![a] = "waiting"]
  /\ watcher' = [watcher EXCEPT ![a] = "sleep"]
  /\ UNCHANGED <<pending, completed, channel, call, granted>>

(* wait_internal: a dropped sender reads as a timeout.                      *)
Receive(a) ==
  /\ agent[a] = "waiting" /\ channel[a] # "open"
  /\ agent' = [agent EXCEPT ![a] = IF channel[a] = "closed" THEN "timed_out" ELSE channel[a]]
  /\ UNCHANGED <<pending, completed, channel, watcher, call, granted>>

(* The agent is cancelled; the entry goes if it is in the map just now.     *)
Cancel(a) ==
  /\ agent[a] = "waiting" /\ agent' = [agent EXCEPT ![a] = "cancelled"]
  /\ IF a \in pending
       THEN /\ pending' = pending \ {a} /\ completed' = completed \cup {a}
            /\ channel' = [channel EXCEPT ![a] = "closed"]
       ELSE UNCHANGED <<pending, completed, channel>>
  /\ UNCHANGED <<watcher, call, granted>>

---------------------------------------------------------------------------
(* Mutant of Take: respond looks the entry up and leaves it in the map.     *)
TakeCopy(r, a, answer) ==
  /\ call[r] = {} /\ a \in pending
  /\ call' = [call EXCEPT ![r] = {[id |-> a, answer |-> answer]}]
  /\ UNCHANGED <<agent, pending, completed, channel, watcher, granted>>

(* respond takes the entry out of the map ...                               *)
Take(r, a, answer) ==
  /\ call[r] = {} /\ a \in pending
  /\ pending' = pending \ {a}
  /\ call' = [call EXCEPT ![r] = {[id |-> a, answer |-> answer]}]
  /\ UNCHANGED <<agent, completed, channel, watcher, granted>>

(* validate_approval_response, and the execution the answer names.          *)
Valid(c) ==
  /\ c.answer # "mismatch"
  /\ c.answer = "approved" => c.id \notin Questions
  /\ c.answer = "answered" => c.id \in Questions

(* ... puts it back if the answer does not fit ...                          *)
Refuse(r) ==
  /\ \E c \in call[r] : ~Valid(c) /\ pending' = pending \cup {c.id}
  /\ call' = [call EXCEPT ![r] = {}]
  /\ UNCHANGED <<agent, completed, channel, watcher, granted>>

(* ... and otherwise sends the answer to the agent and reports it.          *)
Accept(r) ==
  /\ \E c \in call[r] :
       /\ Valid(c)
       /\ completed' = completed \cup {c.id}
       /\ channel' = [channel EXCEPT ![c.id] = c.answer]
       /\ granted' = [granted EXCEPT ![c.id] = @ \cup {c.answer}]
  /\ call' = [call EXCEPT ![r] = {}]
  /\ UNCHANGED <<agent, pending, watcher>>

---------------------------------------------------------------------------
(* spawn_timeout_watcher: the channel resolves first, or the deadline       *)
(* passes.                                                                  *)
Resolve(a) ==
  /\ watcher[a] = "sleep" /\ channel[a] # "open"
  /\ watcher' = [watcher EXCEPT ![a] =
                   IF channel[a] \in {"closed", "timed_out"} THEN "fired" ELSE "done"]
  /\ completed' = completed \cup {a}
  /\ UNCHANGED <<agent, pending, channel, call, granted>>

Expire(a) ==
  /\ watcher[a] = "sleep" /\ channel[a] = "open"
  /\ watcher' = [watcher EXCEPT ![a] = "fired"]
  /\ completed' = completed \cup {a}
  /\ UNCHANGED <<agent, pending, channel, call, granted>>

(* Mutant of Sweep: the entry is dropped by a watcher that wakes nobody and *)
(* keeps the sending end.                                                   *)
SweepSilently(a) ==
  /\ watcher[a] = "fired" /\ watcher' = [watcher EXCEPT ![a] = "done"]
  /\ pending' = pending \ {a}
  /\ UNCHANGED <<agent, completed, channel, call, granted>>

(* A timeout resolves the entry, if it is in the map just now.              *)
Sweep(a) ==
  /\ watcher[a] = "fired" /\ watcher' = [watcher EXCEPT ![a] = "done"]
  /\ pending' = pending \ {a}
  /\ channel' = IF a \in pending THEN [channel EXCEPT ![a] = "timed_out"] ELSE channel
  /\ UNCHANGED <<agent, completed, call, granted>>

Next ==
  \/ \E a \in Approvals : \/ Create(a) \/ Watch(a) \/ Receive(a) \/ Cancel(a)
                          \/ Resolve(a) \/ Expire(a) \/ Sweep(a)
  \/ \E r \in Responders : \/ Refuse(r) \/ Accept(r)
                           \/ \E a \in Approvals, answer \in Answers : Take(r, a, answer)

Spec == Init /\ [][Next]_vars

(* Deadlines pass, watchers and respond calls run on, the agent's task      *)
(* reads its channel.  Nobody has to answer.                                *)
FairApprovals ==
  /\ Spec
  /\ \A a \in Approvals : /\ WF_vars(Watch(a)) /\ WF_vars(Receive(a)) /\ WF_vars(Sweep(a))
                          /\ WF_vars(Expire(a) \/ Resolve(a))
  /\ \A r \in Responders : WF_vars(Refuse(r) \/ Accept(r))

---------------------------------------------------------------------------
(* respond and wait_internal: at most one answer to a request is reported   *)
(* as recorded, it is the one in the agent's channel, and the agent never   *)
(* receives an answer of the other kind or another execution's.             *)
OneDecision ==
  \A a \in Approvals :
    /\ Cardinality(granted[a]) <= 1
    /\ granted[a] # {} => channel[a] \in granted[a]
    /\ agent[a] \in Delivered => /\ agent[a] = "timed_out" \/ agent[a] \in granted[a]
                                 /\ agent[a] = "approved" => a \notin Questions
                                 /\ agent[a] = "answered" => a \in Questions

(* Put back by a rejected answer after its watcher had gone: only another   *)
(* answer or the agent's cancellation ends this request.                    *)
Stranded(a) == a \in pending /\ watcher[a] = "done"

(* spawn_timeout_watcher: without any answer an agent's wait ends, by the   *)
(* deadline at the latest, unless a rejected answer strands the request.    *)
AgentIsAnswered ==
  \A a \in Approvals : agent[a] = "waiting" ~> agent[a] # "waiting" \/ Stranded(a)
=============================================================================
