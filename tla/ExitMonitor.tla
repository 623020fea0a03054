---------------------------- MODULE ExitMonitor ----------------------------
(***************************************************************************)
(* spawn_exit_monitor, RunningExecution::stop and stop_execution           *)
(* (crates/local-deployment/src/container.rs).                             *)
(***************************************************************************)
EXTENDS Dispatcher

MonitorStep(e, from, to) ==
  /\ monitor[e] = from
  /\ monitor' = [monitor EXCEPT ![e] = to]

(* The agent exits by itself, or signals that it is done and is killed; the *)
(* raw capture is drained before anything is published.                     *)
ChildExit(e) ==
  /\ MonitorStep(e, "run", "exited")
  /\ UNCHANGED <<durable, cs, stopReq, sweep, calls, boot, crashes>>

(* Mutant of Outcomes: the requested stop is not consulted.                 *)
OutcomesIgnoringStop(e) == {"completed", "failed"}

(* A failed recording hides every other outcome; a requested stop hides the *)
(* natural one.                                                             *)
Outcomes(e) ==
  (IF stopReq[e] THEN {"killed"} ELSE {"completed", "failed"})
     \cup (IF "capture" \in Faults THEN {"failed"} ELSE {})

(* Mutant of PublishCompletion: after a requested stop the row is left to   *)
(* the stop call.                                                           *)
PublishUnlessStopped(e) ==
  /\ MonitorStep(e, "exited", IF stopReq[e] THEN "cleanup" ELSE "finish")
  /\ \E st \in Outcomes(e) :
       execs' = IF stopReq[e] THEN execs ELSE CompleteRunningAttempt(execs, e, st)
  /\ UNCHANGED <<cmds, approvals, cs, stopReq, sweep, calls, boot, crashes>>

(* The terminal compare-and-swap, under the lock of requested_stop.         *)
PublishCompletion(e) ==
  /\ MonitorStep(e, "exited", IF execs[e].status = "running" THEN "finish" ELSE "cleanup")
  /\ \E st \in Outcomes(e) : execs' = CompleteRunningAttempt(execs, e, st)
  /\ UNCHANGED <<cmds, approvals, cs, stopReq, sweep, calls, boot, crashes>>

(* The statement fails: the error is logged, the row stays running and the  *)
(* entry is removed all the same.                                           *)
PublishFails(e) ==
  /\ "publish" \in Faults
  /\ MonitorStep(e, "exited", "cleanup")
  /\ UNCHANGED <<durable, cs, stopReq, sweep, calls, boot, crashes>>

(* Mutants of FinishCommands: success without looking at the status, and no *)
(* dispatch afterwards.                                                     *)
FinishAlwaysDone(e) ==
  /\ MonitorStep(e, "finish", "sweep")
  /\ cmds' = FinishExecution(cmds, e, TRUE)
  /\ UNCHANGED <<approvals, execs, cs, stopReq, sweep, calls, boot, crashes>>

FinishWithoutSweep(e) ==
  /\ MonitorStep(e, "finish", "cleanup")
  /\ cmds' = FinishExecution(cmds, e, execs[e].status = "completed")
  /\ UNCHANGED <<approvals, execs, cs, stopReq, sweep, calls, boot, crashes>>

FinishCommands(e) ==
  /\ MonitorStep(e, "finish", "sweep")
  /\ cmds' = FinishExecution(cmds, e, execs[e].status = "completed")
  /\ UNCHANGED <<approvals, execs, cs, stopReq, sweep, calls, boot, crashes>>

(* dispatch_all_pending_commands: the list of sessions is read before any   *)
(* lock is taken.                                                           *)
SweepQueue(e) ==
  /\ monitor[e] = "sweep" /\ sweep[e].at = "off"
  /\ sweep' = [sweep EXCEPT ![e] = BeginSweep]
  /\ UNCHANGED <<durable, cs, monitor, stopReq, calls, boot, crashes>>

SweepDone(e) ==
  /\ sweep[e].at = "next" /\ sweep[e].todo = {}
  /\ sweep' = [sweep EXCEPT ![e] = NoSweep]
  /\ MonitorStep(e, "sweep", "cleanup")
  /\ UNCHANGED <<durable, cs, stopReq, calls, boot, crashes>>

RemoveEntry(e) ==
  /\ MonitorStep(e, "cleanup", "none")
  /\ stopReq' = [stopReq EXCEPT ![e] = FALSE]
  /\ UNCHANGED <<durable, cs, sweep, calls, boot, crashes>>

Monitor(e) ==
  \/ PublishCompletion(e) \/ PublishFails(e) \/ FinishCommands(e)
  \/ SweepQueue(e) \/ SweepDone(e) \/ RemoveEntry(e)

---------------------------------------------------------------------------
StopStep(r, at) == stops' = (stops \ {r}) \cup {[r EXCEPT !.at = at]}

(* The stop returns; a follow_up goes on to dispatch its session.           *)
StopReturns(r) ==
  /\ stops' = stops \ {r}
  /\ requests' = requests \cup ({r.then} \ {None})

(* running_execution_for_stop, the entry is there: record the request.      *)
StopFound(r) ==
  /\ r.at = "lookup" /\ monitor[r.exec] # "none"
  /\ stopReq' = [stopReq EXCEPT ![r.exec] = TRUE]
  /\ StopStep(r, "wait")
  /\ UNCHANGED <<durable, cs, monitor, sweep, requests, steer, boot, crashes>>

(* Mutant of StopMissing: the second look does not take scheduler_lock.     *)
StopMissingUnlocked(r) ==
  /\ r.at = "lookup" /\ monitor[r.exec] = "none"
  /\ StopStep(r, "orphan")
  /\ UNCHANGED <<durable, cs, monitor, stopReq, sweep, requests, steer, boot, crashes>>

(* It is not: look again under scheduler_lock, so that a launch that has    *)
(* its row but not yet its entry is waited for.                             *)
StopMissing(r) ==
  /\ r.at = "lookup" /\ cs.pc = "idle" /\ monitor[r.exec] = "none"
  /\ StopStep(r, "orphan")
  /\ UNCHANGED <<durable, cs, monitor, stopReq, sweep, requests, steer, boot, crashes>>

(* Cancel, grace period, kill of the process group.                         *)
StopKill(r) ==
  /\ r.at = "wait"
  /\ MonitorStep(r.exec, "run", "exited")
  /\ UNCHANGED <<durable, cs, stopReq, sweep, calls, boot, crashes>>

(* A row the monitor left running is an error, and the caller gives up: a   *)
(* failed publication is no successful stop.                                *)
StopAwaited(r) ==
  /\ r.at = "wait" /\ monitor[r.exec] = "none"
  /\ IF execs[r.exec].status = "running"
       THEN stops' = stops \ {r} /\ UNCHANGED requests
       ELSE StopReturns(r)
  /\ UNCHANGED <<durable, cs, monitor, stopReq, sweep, steer, boot, crashes>>

OrphanComplete(r) ==
  /\ r.at = "orphan"
  /\ execs' = CompleteRunningAttempt(execs, r.exec, "killed")
  /\ StopStep(r, "requeue")
  /\ UNCHANGED <<cmds, approvals, cs, monitor, stopReq, sweep, requests, steer, boot, crashes>>

OrphanRequeue(r) ==
  /\ r.at = "requeue"
  /\ cmds' = IF execs[r.exec].status = "killed"
               THEN RequeueExecution(cmds, TerminalExecs(execs), r.exec) ELSE cmds
  /\ StopReturns(r)
  /\ UNCHANGED <<approvals, execs, cs, monitor, stopReq, sweep, steer, boot, crashes>>

StopCall(r) ==
  \/ StopFound(r) \/ StopMissing(r) \/ StopKill(r) \/ StopAwaited(r)
  \/ OrphanComplete(r) \/ OrphanRequeue(r)
===========================================================================
