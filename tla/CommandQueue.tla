--------------------------- MODULE CommandQueue ---------------------------
(***************************************************************************)
(* The durable command queue of the local server as a whole: clients,      *)
(* dispatcher, exit monitors, stop calls, crashes and boot.                *)
(***************************************************************************)
EXTENDS CommandApi

ClientStep ==
  \/ \E s \in Sessions, k \in Keys \cup {None}, cfg \in Configs :
       \/ FollowUp(s, k, cfg)
       \/ FollowUpDeferred(s, k, cfg)
       \/ \E then \in {"dispatch", "defer"} : Steer(s, k, cfg, then)
  \/ \E c \in Commands :
       CancelCommand(c) \/ \E approved \in BOOLEAN : RespondApproval(c, approved)
  \/ \E s \in Sessions : CancelQueued(s) \/ DispatchCommands(s) \/ StartDirect(s)
  \/ \E e \in Execs : RequeueCommands(e) \/ StopExecution(e)

ServerStep ==
  \/ Launch
  \/ \E s \in Sessions : DispatchRequest(s) \/ SteerInterrupt(s)
  \/ \E w \in Sweepers : SweepNext(w) \/ SweepCheck(w)
  \/ \E e \in Execs : Monitor(e)
  \/ \E r \in stops : StopCall(r)
  \/ BootSequence

Next == ClientStep \/ ServerStep \/ (\E e \in Execs : ChildExit(e)) \/ Restart

Spec == Init /\ [][Next]_vars

(* What the runtime guarantees: a task that can go on does, and the tokio   *)
(* mutex hands scheduler_lock to its waiters in order, so a caller that     *)
(* waits for it is served (strong fairness, as the lock comes and goes).    *)
(* Clients, agents and crashes owe nothing.                                 *)
TaskFairness ==
  /\ WF_vars(Launch)
  /\ WF_vars(BootSequence)
  /\ \A e \in Execs : WF_vars(Monitor(e))

DispatchFairness ==
  /\ \A s \in Sessions : SF_vars(DispatchRequest(s)) /\ WF_vars(SteerInterrupt(s))
  /\ \A w \in Sweepers : SF_vars(SweepNext(w)) /\ WF_vars(SweepCheck(w))

StopsOf(e) == {r \in stops : r.exec = e}
StopFairness ==
  \A e \in Execs :
    /\ SF_vars(\E r \in StopsOf(e) : StopMissing(r))
    /\ WF_vars(\E r \in StopsOf(e) : StopCall(r) /\ ~StopMissing(r))

FairQueue == Spec /\ TaskFairness /\ DispatchFairness /\ StopFairness

---------------------------------------------------------------------------
(* Invariants.                                                              *)

(* The fleet never has more running coding agents than max_running_agents:  *)
(* admit_coding_agent and the insert share scheduler_lock, every other      *)
(* writer only frees slots.                                                 *)
CapacityRespected == CountRunning(execs) <= MaxRunningAgents

(* A child of this server whose exit has not been published is counted: no  *)
(* stop, restart or duplicate completion ends its row behind its back.      *)
LiveChildHasRunningRow ==
  \A e \in Execs : monitor[e] \in {"run", "exited"} => execs[e].status = "running"

(* No slot leaks: once the server is up, a running row is being launched or *)
(* has a monitor that will publish its end, so that "the four-slot          *)
(* coding-agent cap can never be filled by ghosts".                         *)
RunningRowIsOwned ==
  boot.at \in {"sweep", "up"} =>
    \A e \in RunningExecs(execs) :
      \/ monitor[e] \in {"run", "exited"}
      \/ cs.exec = e /\ cs.pc \in {"bind", "bindfail", "spawn", "failcas"}

(* No prompt is in the hands of two live agents at once, whatever sequence  *)
(* of stops, requeues and restarts returned its command to the queue.       *)
NoDoubleDelivery ==
  \A e, f \in Execs :
    e # f /\ monitor[e] = "run" /\ monitor[f] = "run" => execs[e].prompt \cap execs[f].prompt = {}

(* A command bound to an execution is one whose body that execution was     *)
(* given: bind_execution never stamps a row the dispatcher did not read.    *)
BoundWasPrompted ==
  \A c \in Commands : cmds[c].exec # None /\ execs[cmds[c].exec].status # "absent"
                        => c \in execs[cmds[c].exec].prompt

(* done and failed repeat the verdict of the execution the row names.       *)
VerdictMatchesExecution ==
  \A c \in Commands :
    /\ cmds[c].state = "done" => execs[cmds[c].exec].status = "completed"
    /\ cmds[c].state = "failed" => execs[cmds[c].exec].status \in {"failed", "killed"}

(* An attempt whose first command is metered holds exactly one row of       *)
(* metered_approvals: the approval of that command that it consumed, or the *)
(* record of its automatic start.                                           *)
HeadAuthorized ==
  \A e \in Execs :
    LET h == Least(execs[e].prompt)
        st == IF Policy[cmds[h].config] = "ask" THEN "approved" ELSE "auto_started"
    IN  execs[e].claim /\ Policy[cmds[h].config] \in {"ask", "auto"} =>
          \E i \in DOMAIN approvals[h] :
            /\ approvals[h][i] = ApprovalRow(st, e)
            /\ \A c \in Commands : \A j \in DOMAIN approvals[c] :
                 approvals[c][j].exec = e => <<c, j>> = <<h, i>>

(* A command whose policy is `never` is in no prompt.                       *)
NeverIsNeverLaunched ==
  \A e \in Execs : \A c \in execs[e].prompt : Policy[cmds[c].config] # "never"

(* done and cancelled are final: no recovery, requeue, late completion or   *)
(* Replace takes a command out of them.                                     *)
TerminalStatesStick ==
  [][\A c \in Commands : cmds[c].state \in {"done", "cancelled"} => cmds'[c] = cmds[c]]_vars

(* A stop request that the monitor saw before it published cannot be        *)
(* answered by a success.                                                   *)
StopIsNeverSuccess ==
  [][\A e \in Execs : stopReq[e] /\ execs[e].status = "running" =>
       execs'[e].status # "completed"]_vars

---------------------------------------------------------------------------
(* A stop call ends with a row that is not running, whether it met a launch *)
(* in progress, a live child or a row without one: nobody deadlocks on      *)
(* scheduler_lock and the wait for the monitor.                             *)
StopTerminates ==
  \A e \in Execs : (\E r \in stops : r.exec = e) ~> execs[e].status # "running"

(* If agents exit, every unmetered command that was queued and dispatched   *)
(* leaves the queue.                                                        *)
AgentsExit == \A e \in Execs : []<>(monitor[e] # "run")
QueueDrains == AgentsExit => \A c \in Commands :
  cmds[c].state = "pending" /\ Policy[cmds[c].config] = "unmetered" ~> cmds[c].state # "pending"
===========================================================================
