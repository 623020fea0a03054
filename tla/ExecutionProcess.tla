------------------------- MODULE ExecutionProcess -------------------------
(***************************************************************************)
(* The coding-agent rows of the table execution_processes                  *)
(* (crates/db/src/models/execution_process.rs).  An id that has been       *)
(* allocated but whose row was never inserted stays "absent".  prompt is   *)
(* the set of commands whose bodies were joined into the action's prompt,  *)
(* claim tells a row launched by the dispatcher from one started directly. *)
(***************************************************************************)
EXTENDS SessionCommand

Terminal == {"completed", "failed", "killed"}
ExecStatus == {"absent", "running"} \cup Terminal

ExecRow == [session : Sessions \cup {None}, status : ExecStatus,
            prompt : SUBSET Commands, claim : BOOLEAN]

NoExec == [session |-> None, status |-> "absent", prompt |-> {}, claim |-> FALSE]

RunningExecs(x) == {e \in Execs : x[e].status = "running"}
TerminalExecs(x) == {e \in Execs : x[e].status \in Terminal}

(* has_running_coding_agent_for_session and count_running_coding_agents.    *)
HasRunning(x, s) == \E e \in RunningExecs(x) : x[e].session = s
CountRunning(x) == Cardinality(RunningExecs(x))

(* create: refused by the unique index idx_one_running_coding_agent_per_    *)
(* session when the session already has a running coding agent.             *)
CanCreate(x, s) == ~HasRunning(x, s)
Create(x, e, s, prompt, claim) ==
  [x EXCEPT ![e] = [session |-> s, status |-> "running",
                    prompt |-> prompt, claim |-> claim]]

(* update_completion writes whatever the row holds ...                      *)
UpdateCompletion(x, e, st) == [x EXCEPT ![e].status = st]

(* ... complete_running_attempt only a row that is still running.           *)
CompleteRunningAttempt(x, e, st) ==
  IF x[e].status = "running" THEN [x EXCEPT ![e].status = st] ELSE x
===========================================================================
