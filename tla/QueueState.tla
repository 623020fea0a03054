---------------------------- MODULE QueueState ----------------------------
(***************************************************************************)
(* The state shared by the parts of the local server that move session     *)
(* commands: the durable tables, and the memory of one server process.     *)
(***************************************************************************)
EXTENDS MeteredApproval, ExecutionProcess

CONSTANTS
  MaxRunningAgents,   \* max_running_agents()
  MaxCrashes,         \* bound: restarts of the server process
  Faults,             \* the launch, exit and boot faults that may happen
  Routes,             \* the API routes the clients of this instance call
  Api, Boot           \* callers of the dispatcher that are not exit monitors

FaultKinds == {"prepare", "create", "turn", "spawn", "capture", "publish",
               "cleanup"}
RouteKinds == {"continue", "defer", "replace", "cancel", "cancel_queue", "requeue",
               "dispatch", "direct", "stop", "respond"}

ASSUME QueueAssumption ==
  /\ MaxRunningAgents \in Nat \ {0}
  /\ MaxCrashes \in Nat
  /\ Faults \subseteq FaultKinds
  /\ Routes \subseteq RouteKinds
  /\ Api # Boot /\ None \notin {Api, Boot}
  /\ Api \notin Execs /\ Boot \notin Execs

VARIABLES
  cmds,       \* session_commands
  approvals,  \* metered_approvals
  execs,      \* execution_processes
  cs,         \* the holder of scheduler_lock: its caller, position and locals
  monitor,    \* running_executions: the exit monitor of each execution
  stopReq,    \* requested_stop of each entry
  sweep,      \* the dispatch_all_pending_commands calls in progress
  requests,   \* sessions for which a route is about to call the dispatcher
  stops,      \* stop_execution calls in progress
  steer,      \* follow_up calls between a Replace enqueue and its interrupt
  boot,       \* the boot sequence
  crashes     \* restarts so far

durable == <<cmds, approvals, execs>>
calls == <<requests, stops, steer>>
vars == <<cmds, approvals, execs, cs, monitor, stopReq, sweep, requests,
          stops, steer, boot, crashes>>

Sweepers == Execs \cup {Boot}

(* The critical section of scheduler_lock.  claim is TRUE for the           *)
(* dispatcher and FALSE for start_execution, the direct start.              *)
Pc == {"idle", "peek", "gate", "release", "claim", "regate", "book",
       "admit", "undo", "create", "bind", "bindfail", "spawn", "failcas", "abort"}

Section == [pc : Pc, session : Sessions \cup {None}, exec : Execs \cup {None},
            head : Commands \cup {None}, batch : SUBSET Commands,
            by : Sweepers \cup {Api, None}, claim : BOOLEAN]

Idle == [pc |-> "idle", session |-> None, exec |-> None, head |-> None,
         batch |-> {}, by |-> None, claim |-> FALSE]

(* A monitor runs its child, publishes the exit, finishes the commands,     *)
(* sweeps the queue and removes its entry; "none" means no entry.           *)
MonitorAt == {"none", "run", "exited", "finish", "sweep", "cleanup"}

(* One dispatch_all call: todo holds the first pending rowid of each        *)
(* session pending_session_ids returned and the loop has not reached.       *)
Sweep == [at : {"off", "next", "busy", "check"}, todo : SUBSET Commands]
NoSweep == [at |-> "off", todo |-> {}]

(* One stop_execution call; then is the session its caller dispatches next. *)
Stop == [exec : Execs, at : {"lookup", "wait", "orphan", "requeue"},
         then : Sessions \cup {None}]

BootAt == {"cleanup", "release", "terminalize", "requeue", "sweep", "up"}

TypeOK ==
  /\ cmds \in [Commands -> CommandRow]
  /\ approvals \in [Commands -> Seq(Approval)]
  /\ execs \in [Execs -> ExecRow]
  /\ cs \in Section
  /\ monitor \in [Execs -> MonitorAt]
  /\ stopReq \in [Execs -> BOOLEAN]
  /\ sweep \in [Sweepers -> Sweep]
  /\ requests \subseteq Sessions
  /\ stops \subseteq Stop
  /\ steer \in [Sessions -> {"off", "dispatch", "defer"}]
  /\ boot \in [at : BootAt, todo : SUBSET Execs, cur : Execs \cup {None}]
  /\ crashes \in 0..MaxCrashes

Init ==
  /\ cmds = [c \in Commands |-> NoRow]
  /\ approvals = [c \in Commands |-> <<>>]
  /\ execs = [e \in Execs |-> NoExec]
  /\ cs = Idle
  /\ monitor = [e \in Execs |-> "none"]
  /\ stopReq = [e \in Execs |-> FALSE]
  /\ sweep = [w \in Sweepers |-> NoSweep]
  /\ requests = {} /\ stops = {}
  /\ steer = [s \in Sessions |-> "off"]
  /\ boot = [at |-> "up", todo |-> {}, cur |-> None]
  /\ crashes = 0

(* Uuid::new_v4: an id no row of the database mentions.                     *)
Stamped(e) == \E c \in Commands : \E i \in DOMAIN approvals[c] : approvals[c][i].exec = e
FreshExecs == {e \in Execs : execs[e].status = "absent" /\ ~Stamped(e)}

(* Rows a client may still insert; a direct start has reserved one.         *)
Reserved == IF ~cs.claim /\ cs.pc \in {"create", "bind"} THEN 1 ELSE 0
Room == Cardinality(Free(cmds)) > Reserved

Unmetered == {cfg \in Configs : Policy[cfg] = "unmetered"}
===========================================================================
