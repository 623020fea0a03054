---------------------------- MODULE Dispatcher ----------------------------
(***************************************************************************)
(* dispatch_pending_commands and start_execution_with_id                   *)
(* (crates/services/src/services/container.rs): everything a holder of     *)
(* scheduler_lock does.  One action per database statement or transaction; *)
(* a lookup that leaves no trace is part of the action that follows it.    *)
(***************************************************************************)
EXTENDS QueueState

Goto(pc) == cs' = [cs EXCEPT !.pc = pc] /\ UNCHANGED sweep

(* The lock is released and the result goes to the caller.  A sweep reads   *)
(* the number of running agents after Ok(None) and goes on otherwise.       *)
Return(result) ==
  /\ cs' = Idle
  /\ sweep' = IF cs.by = Api THEN sweep
              ELSE [sweep EXCEPT ![cs.by].at = IF result = "none" THEN "check" ELSE "next"]

(* lock, then has_running_coding_agent_for_session.  Idle is Ok(None).      *)
LockFree == cs.pc = "idle" /\ FreshExecs # {}

Section0(s, by) == [Idle EXCEPT !.session = s, !.by = by]

BeginDispatch(s, by) ==
  /\ LockFree
  /\ cs' = IF HasRunning(execs, s) THEN Idle
           ELSE [Section0(s, by) EXCEPT !.pc = "peek", !.claim = TRUE]

At(pc) == cs.pc = pc /\ UNCHANGED <<monitor, stopReq, calls, boot, crashes>>

(* The pending rows; an unmetered head, or none, needs no gate.             *)
Peek ==
  LET pending == Rows(cmds, cs.session, {"pending"})
      head == Least(pending)
  IN  /\ At("peek")
      /\ cs' = IF pending = {} THEN [cs EXCEPT !.pc = "release"]
               ELSE IF Policy[cmds[head].config] = "unmetered" THEN [cs EXCEPT !.pc = "release"]
               ELSE [cs EXCEPT !.pc = "gate", !.head = head]
      /\ UNCHANGED <<durable, sweep>>

(* MeteredApproval::gate on the peeked head: held, nothing is claimed.      *)
Gate ==
  /\ At("gate")
  /\ approvals' = GateEffect(approvals, cs.head, cmds[cs.head].config)
  /\ IF GateProceeds(approvals, cs.head, cmds[cs.head].config)
       THEN Goto("release") ELSE Return("none")
  /\ UNCHANGED <<cmds, execs>>

ReleaseLeftover ==
  /\ At("release")
  /\ cmds' = ReleaseUnbound(cmds, cs.session)
  /\ Goto("claim")
  /\ UNCHANGED <<approvals, execs>>

Claim ==
  /\ At("claim")
  /\ LET batch == ClaimBatch(cmds, cs.session)
     IN  IF batch = {}
           THEN Return("none")
           ELSE /\ FreshExecs # {}                 \* as LockFree saw it
                /\ cs' = [cs EXCEPT !.pc = "regate", !.exec = Least(FreshExecs),
                                    !.head = Least(batch), !.batch = batch]
                /\ UNCHANGED sweep
  /\ cmds' = ClaimPending(cmds, cs.session)
  /\ UNCHANGED <<approvals, execs>>

(* Mutant of Regate: the verdict on the peeked head is trusted.             *)
RegateTrusting ==
  /\ At("regate")
  /\ Goto(IF Policy[cmds[cs.head].config] = "unmetered" THEN "admit" ELSE "book")
  /\ UNCHANGED durable

(* The gate once more, on the head that was really claimed.                 *)
Regate ==
  /\ At("regate")
  /\ approvals' = GateEffect(approvals, cs.head, cmds[cs.head].config)
  /\ Goto(IF ~GateProceeds(approvals, cs.head, cmds[cs.head].config) THEN "undo"
          ELSE IF Policy[cmds[cs.head].config] = "unmetered" THEN "admit"
          ELSE "book")
  /\ UNCHANGED <<cmds, execs>>

(* Only auto and ask get here: gate never lets `never` proceed.             *)
Book ==
  /\ At("book")
  /\ approvals' = IF Policy[cmds[cs.head].config] = "ask"
                    THEN ConsumeApproval(approvals, cs.head, cs.exec)
                    ELSE RecordAutoStart(approvals, cs.head, cs.exec)
  /\ Goto("admit")
  /\ UNCHANGED <<cmds, execs>>

(* Mutant of Admit: the capacity of the fleet is not checked.               *)
AdmitUnchecked ==
  /\ At("admit")
  /\ Goto("create")
  /\ UNCHANGED durable

(* Session and workspace lookup, container, executor match and auth binding *)
(* may fail; then admit_coding_agent, whose refusal releases the claim.     *)
Admit ==
  /\ At("admit")
  /\ \/ "prepare" \in Faults /\ Goto("abort")
     \/ Goto(IF CountRunning(execs) >= MaxRunningAgents THEN "undo" ELSE "create")
  /\ UNCHANGED durable

Undo ==
  /\ At("undo")
  /\ cmds' = ReleaseUnbound(cmds, cs.session)
  /\ Return("none")
  /\ UNCHANGED <<approvals, execs>>

(* An error of start_execution_with_id: the dispatcher finishes the         *)
(* commands bound to the execution id, a direct start only returns it.      *)
Fail == IF cs.claim THEN Goto("abort") ELSE Return("err")

(* Drain and process-budget admission, then the insert.                     *)
CreateRow ==
  /\ At("create")
  /\ \/ /\ CanCreate(execs, cs.session)
        /\ execs' = Create(execs, cs.exec, cs.session, cs.batch, cs.claim)
        /\ Goto("bind")
     \/ /\ "create" \in Faults \/ ~CanCreate(execs, cs.session)
        /\ Fail
        /\ UNCHANGED execs
  /\ UNCHANGED <<cmds, approvals>>

(* bind_execution for the dispatcher, ensure_claimed for a direct start.    *)
BindBatch ==
  /\ At("bind") /\ cs.claim
  /\ cmds' = BindExecution(cmds, cs.session, cs.exec)
  /\ Goto(IF Unbound(cmds, cs.session) = {} THEN "bindfail" ELSE "spawn")
  /\ UNCHANGED <<approvals, execs>>

BindDirect ==
  /\ At("bind") /\ ~cs.claim
  /\ Free(cmds) # {}                              \* reserved, see Room
  /\ \E cfg \in Unmetered : cmds' = EnsureClaimed(cmds, cs.session, cs.exec, cfg)
  /\ execs' = [execs EXCEPT ![cs.exec].prompt = {Least(Free(cmds))}]
  /\ Goto("spawn")
  /\ UNCHANGED approvals

BindFailed ==
  /\ At("bindfail")
  /\ execs' = UpdateCompletion(execs, cs.exec, "failed")
  /\ Goto("abort")
  /\ UNCHANGED <<cmds, approvals>>

(* start_execution_inner registers the child before the lock is released.   *)
SpawnChild ==
  /\ cs.pc = "spawn"
  /\ monitor' = [monitor EXCEPT ![cs.exec] = "run"]
  /\ Return("some")
  /\ UNCHANGED <<durable, stopReq, calls, boot, crashes>>

(* The statements between bind and spawn, or the spawn itself, fail.        *)
SpawnFails ==
  /\ At("spawn")
  /\ \/ "spawn" \in Faults /\ Goto("failcas")
     \/ "turn" \in Faults /\ Fail
  /\ UNCHANGED durable

FailAttempt ==
  /\ At("failcas")
  /\ execs' = CompleteRunningAttempt(execs, cs.exec, "failed")
  /\ Goto("abort")
  /\ UNCHANGED <<cmds, approvals>>

Abort ==
  /\ At("abort")
  /\ cmds' = FinishExecution(cmds, cs.exec, FALSE)
  /\ Return("err")
  /\ UNCHANGED <<approvals, execs>>

Launch ==
  \/ Peek \/ Gate \/ ReleaseLeftover \/ Claim \/ Regate \/ Book
  \/ Admit \/ Undo \/ CreateRow \/ BindBatch \/ BindDirect \/ BindFailed
  \/ SpawnChild \/ SpawnFails \/ FailAttempt \/ Abort

---------------------------------------------------------------------------
(* start_execution of a coding agent: a first prompt, a review, a teammate, *)
(* the agent behind a setup script.  Refused at capacity.                   *)
StartDirect(s) ==
  /\ "direct" \in Routes /\ boot.at = "up"
  /\ LockFree /\ Room
  /\ CountRunning(execs) < MaxRunningAgents
  /\ cs' = [Section0(s, Api) EXCEPT !.pc = "create", !.exec = Least(FreshExecs)]
  /\ UNCHANGED <<durable, monitor, stopReq, sweep, calls, boot, crashes>>

(* A route calls the dispatcher for one session.                            *)
DispatchRequest(s) ==
  /\ s \in requests
  /\ requests' = requests \ {s}
  /\ BeginDispatch(s, Api)
  /\ UNCHANGED <<durable, monitor, stopReq, sweep, stops, steer, boot, crashes>>

---------------------------------------------------------------------------
(* dispatch_all_pending_commands.                                           *)
BeginSweep == [at |-> "next", todo |-> PendingSessionHeads(cmds)]

SweepNext(w) ==
  LET c == Least(sweep[w].todo)
  IN  /\ sweep[w].at = "next" /\ sweep[w].todo # {}
      /\ BeginDispatch(cmds[c].session, w)
      /\ sweep' = [sweep EXCEPT ![w] =
           [at |-> IF HasRunning(execs, cmds[c].session) THEN "check" ELSE "busy",
            todo |-> @.todo \ {c}]]
      /\ UNCHANGED <<durable, monitor, stopReq, calls, boot, crashes>>

SweepCheck(w) ==
  /\ sweep[w].at = "check"
  /\ sweep' = [sweep EXCEPT ![w] =
       [at |-> "next",
        todo |-> IF CountRunning(execs) >= MaxRunningAgents THEN {} ELSE @.todo]]
  /\ UNCHANGED <<durable, cs, monitor, stopReq, calls, boot, crashes>>
===========================================================================
