---------------------------- MODULE CommandApi ----------------------------
(***************************************************************************)
(* The routes clients call (crates/server/src/routes/sessions/mod.rs and   *)
(* queue.rs, metered_approvals.rs, execution_processes.rs), and the        *)
(* restart of the server (startup.rs, main.rs).  The server answers no     *)
(* request before its boot sequence is over.                               *)
(***************************************************************************)
EXTENDS ExitMonitor

Serving(route) == route \in Routes /\ boot.at = "up"

(* follow_up and queue_message: enqueue, then dispatch.                     *)
FollowUp(s, k, cfg) ==
  /\ Serving("continue")
  /\ Duplicate(cmds, s, k) \/ Room
  /\ cmds' = Enqueue(cmds, s, k, "continue", cfg)
  /\ requests' = requests \cup {s}
  /\ UNCHANGED <<approvals, execs, cs, monitor, stopReq, sweep, stops, steer, boot, crashes>>

(* defer_dispatch: the client dispatches later, by another route.           *)
FollowUpDeferred(s, k, cfg) ==
  /\ Serving("defer")
  /\ ~Duplicate(cmds, s, k) /\ Room
  /\ cmds' = Enqueue(cmds, s, k, "continue", cfg)
  /\ UNCHANGED <<approvals, execs, cs, monitor, stopReq, sweep, calls, boot, crashes>>

(* A Replace is durable first and interrupts the running agent afterwards.  *)
(* A deduplicated one interrupts nothing.  Bound: one at a time per session.*)
Steer(s, k, cfg, then) ==
  /\ Serving("replace") /\ steer[s] = "off"
  /\ then = "defer" => "defer" \in Routes
  /\ Duplicate(cmds, s, k) \/ Room
  /\ cmds' = Enqueue(cmds, s, k, "replace", cfg)
  /\ IF Duplicate(cmds, s, k)
       THEN /\ requests' = IF then = "dispatch" THEN requests \cup {s} ELSE requests
            /\ UNCHANGED steer
       ELSE /\ steer' = [steer EXCEPT ![s] = then]
            /\ UNCHANGED requests
  /\ UNCHANGED <<approvals, execs, cs, monitor, stopReq, sweep, stops, boot, crashes>>

(* The unique index leaves at most one running agent to interrupt.          *)
SteerInterrupt(s) ==
  LET then == IF steer[s] = "dispatch" THEN s ELSE None
      running == {e \in RunningExecs(execs) : execs[e].session = s}
  IN  /\ steer[s] # "off"
      /\ steer' = [steer EXCEPT ![s] = "off"]
      /\ IF running = {}
           THEN requests' = requests \cup ({then} \ {None}) /\ UNCHANGED stops
           ELSE /\ stops' = stops \cup {[exec |-> e, at |-> "lookup", then |-> then] : e \in running}
                /\ UNCHANGED requests
      /\ UNCHANGED <<durable, cs, monitor, stopReq, sweep, boot, crashes>>

(* cancel_command                                                           *)
CancelCommand(c) ==
  /\ Serving("cancel")
  /\ cmds' = Cancel(cmds, RunningExecs(execs), c)
  /\ cmds' # cmds
  /\ UNCHANGED <<approvals, execs, cs, monitor, stopReq, sweep, calls, boot, crashes>>

(* cancel_queued_message                                                    *)
CancelQueued(s) ==
  /\ Serving("cancel_queue")
  /\ cmds' = CancelPending(cmds, s)
  /\ cmds' # cmds
  /\ UNCHANGED <<approvals, execs, cs, monitor, stopReq, sweep, calls, boot, crashes>>

(* requeue_commands: refused while the execution runs; dispatch is a call   *)
(* of its own.                                                              *)
RequeueCommands(e) ==
  /\ Serving("requeue")
  /\ cmds' = RequeueExecution(cmds, TerminalExecs(execs), e)
  /\ cmds' # cmds
  /\ UNCHANGED <<approvals, execs, cs, monitor, stopReq, sweep, calls, boot, crashes>>

(* dispatch_commands                                                        *)
DispatchCommands(s) ==
  /\ Serving("dispatch") /\ s \notin requests
  /\ requests' = requests \cup {s}
  /\ UNCHANGED <<durable, cs, monitor, stopReq, sweep, stops, steer, boot, crashes>>

(* respond_to_metered_approval: an approval dispatches the session.         *)
RespondApproval(c, approved) ==
  /\ Serving("respond")
  /\ HasApproval(approvals, c, "pending")
  /\ approvals' = Respond(approvals, c, approved)
  /\ requests' = IF approved THEN requests \cup ({cmds[c].session} \ {None}) ELSE requests
  /\ UNCHANGED <<cmds, execs, cs, monitor, stopReq, sweep, stops, steer, boot, crashes>>

(* stop_execution_process without a dedupe key: any existing row.  Bound:   *)
(* one such call per execution at a time.                                   *)
StopExecution(e) ==
  /\ Serving("stop")
  /\ execs[e].status # "absent"
  /\ \A r \in stops : r.exec # e
  /\ stops' = stops \cup {[exec |-> e, at |-> "lookup", then |-> None]}
  /\ UNCHANGED <<durable, cs, monitor, stopReq, sweep, requests, steer, boot, crashes>>

---------------------------------------------------------------------------
(* The server process dies: its memory is gone, the database is not.  The   *)
(* next one starts with cleanup_orphan_executions.                          *)
Restart ==
  /\ crashes < MaxCrashes
  /\ crashes' = crashes + 1
  /\ cs' = Idle
  /\ monitor' = [e \in Execs |-> "none"]
  /\ stopReq' = [e \in Execs |-> FALSE]
  /\ sweep' = [w \in Sweepers |-> NoSweep]
  /\ requests' = {} /\ stops' = {}
  /\ steer' = [s \in Sessions |-> "off"]
  /\ boot' = [at |-> "cleanup", todo |-> RunningExecs(execs), cur |-> None]
  /\ UNCHANGED durable

BootStep(at, todo, cur) ==
  /\ boot' = [at |-> at, todo |-> todo, cur |-> cur]
  /\ UNCHANGED <<approvals, cs, monitor, stopReq, calls, crashes>>

(* update_completion(Failed) of an orphan; an error is logged and the row   *)
(* skipped.                                                                 *)
CleanupOrphan ==
  /\ boot.at = "cleanup" /\ boot.todo # {}
  /\ LET e == Least(boot.todo)
     IN  \/ /\ execs' = UpdateCompletion(execs, e, "failed")
            /\ BootStep("release", boot.todo \ {e}, e)
         \/ /\ "cleanup" \in Faults
            /\ UNCHANGED execs
            /\ BootStep("cleanup", boot.todo \ {e}, None)
  /\ UNCHANGED <<cmds, sweep>>

ReleaseOrphan ==
  /\ boot.at = "release"
  /\ cmds' = ReleaseExecution(cmds, boot.cur)
  /\ BootStep("cleanup", boot.todo, None)
  /\ UNCHANGED <<execs, sweep>>

CleanupDone ==
  /\ boot.at = "cleanup" /\ boot.todo = {}
  /\ BootStep("terminalize", RunningExecs(execs), None)
  /\ UNCHANGED <<cmds, execs, sweep>>

(* terminalize_inherited_executions                                         *)
Terminalize ==
  /\ boot.at = "terminalize" /\ boot.todo # {}
  /\ LET e == Least(boot.todo)
     IN  /\ execs' = UpdateCompletion(execs, e, "killed")
         /\ BootStep("requeue", boot.todo \ {e}, e)
  /\ UNCHANGED <<cmds, sweep>>

RequeueInherited ==
  /\ boot.at = "requeue"
  /\ cmds' = RequeueExecution(cmds, TerminalExecs(execs), boot.cur)
  /\ BootStep("terminalize", boot.todo, None)
  /\ UNCHANGED <<execs, sweep>>

BootSweep ==
  /\ boot.at = "terminalize" /\ boot.todo = {}
  /\ sweep' = [sweep EXCEPT ![Boot] = BeginSweep]
  /\ BootStep("sweep", {}, None)
  /\ UNCHANGED <<cmds, execs>>

BootDone ==
  /\ boot.at = "sweep" /\ sweep[Boot].at = "next" /\ sweep[Boot].todo = {}
  /\ sweep' = [sweep EXCEPT ![Boot] = NoSweep]
  /\ BootStep("up", {}, None)
  /\ UNCHANGED <<cmds, execs>>

BootSequence ==
  \/ CleanupOrphan \/ ReleaseOrphan \/ CleanupDone \/ Terminalize
  \/ RequeueInherited \/ BootSweep \/ BootDone
===========================================================================
