------------------------- MODULE MeteredApproval -------------------------
(***************************************************************************)
(* The table metered_approvals (crates/db/src/models/metered_approval.rs). *)
(* appr[c] is the sequence, in rowid order, of the approval rows of        *)
(* command c.  The account alias, the reason and the timestamps are left   *)
(* out.                                                                    *)
(***************************************************************************)
EXTENDS SessionCommand, Sequences

CONSTANT Policy    \* the metered policy a config declares, "unmetered" if none

Policies == {"unmetered", "auto", "ask", "never"}

ASSUME PolicyAssumption == Policy \in [Configs -> Policies]

ApprovalStates == {"pending", "approved", "denied", "auto_started", "blocked"}
Approval == [state : ApprovalStates, exec : Execs \cup {None}]

ApprovalRow(st, e) == [state |-> st, exec |-> e]

HasApproval(appr, c, st) == \E i \in DOMAIN appr[c] : appr[c][i].state = st

EnsurePending(appr, c) ==
  IF HasApproval(appr, c, "pending") THEN appr
  ELSE [appr EXCEPT ![c] = Append(@, ApprovalRow("pending", None))]

EnsureBlocked(appr, c) ==
  IF HasApproval(appr, c, "blocked") THEN appr
  ELSE [appr EXCEPT ![c] = Append(@, ApprovalRow("blocked", None))]

(* The latest row of c decides an `ask`.                                    *)
Latest(appr, c, st) == appr[c] # <<>> /\ appr[c][Len(appr[c])].state = st
Unconsumed(appr, c) == Latest(appr, c, "approved") /\ appr[c][Len(appr[c])].exec = None

(* gate: whether it answers Proceed, and the rows it leaves behind.         *)
GateProceeds(appr, c, cfg) ==
  \/ Policy[cfg] \in {"unmetered", "auto"}
  \/ Policy[cfg] = "ask" /\ Unconsumed(appr, c)

GateEffect(appr, c, cfg) ==
  CASE Policy[cfg] = "never" -> EnsureBlocked(appr, c)
    [] Policy[cfg] = "ask" /\ ~Latest(appr, c, "pending")
         /\ ~Unconsumed(appr, c) /\ ~Latest(appr, c, "denied") -> EnsurePending(appr, c)
    [] OTHER -> appr

(* respond: only the pending row of c can be resolved, and only once.       *)
Respond(appr, c, approved) ==
  [appr EXCEPT ![c] = [i \in DOMAIN @ |->
     IF @[i].state = "pending"
       THEN [@[i] EXCEPT !.state = IF approved THEN "approved" ELSE "denied"]
       ELSE @[i]]]

ConsumeApproval(appr, c, e) ==
  [appr EXCEPT ![c] = [i \in DOMAIN @ |->
     IF @[i].state = "approved" /\ @[i].exec = None
       THEN [@[i] EXCEPT !.exec = e] ELSE @[i]]]

RecordAutoStart(appr, c, e) ==
  IF \E d \in Commands : \E i \in DOMAIN appr[d] : appr[d][i].exec = e
    THEN appr
    ELSE [appr EXCEPT ![c] = Append(@, ApprovalRow("auto_started", e))]
===========================================================================
