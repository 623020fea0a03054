---------------------------- MODULE QueueProofs ----------------------------
(***************************************************************************)
(* The command queue is well typed, never exceeds its capacity and never   *)
(* loses track of a running agent, for every number of sessions, commands, *)
(* executions and restarts.  First what the statements of SessionCommand,  *)
(* MeteredApproval and ExecutionProcess return, then the types, then who   *)
(* owns a running slot: the launch that inserted the row, then the exit    *)
(* monitor, then nobody.                                                   *)
(***************************************************************************)
EXTENDS CommandQueue, WellFoundedInduction, FiniteSetTheorems, TLAPS

(* Every nonempty set of rowids has a first one, and Least names it.        *)
LEMMA LeastExists ==
  ASSUME NEW S \in SUBSET Nat, S # {}
  PROVE  \E x \in S : \A y \in S : x <= y
<1> DEFINE R == OpToRel(<, Nat)
<1>1. \E x \in S : \A y \in S : ~(<<y, x>> \in R)
  BY NatLessThanWellFounded, WFMin, Zenon
<1>2. \A x, y \in Nat : <<y, x>> \in R <=> y < x
  BY DEF OpToRel
<1> HIDE DEF R
<1>3. PICK x \in S : \A y \in S : ~(<<y, x>> \in R)
  BY <1>1
<1>4. \A y \in S : ~(y < x)
  BY <1>2, <1>3
<1> QED
  BY <1>4

(* Least of a nonempty set of numbers is one of them.                       *)
LEMMA LeastIn ==
  ASSUME NEW S \in SUBSET Nat, S # {}
  PROVE  Least(S) \in S
  BY LeastExists DEF Least

(* ... in particular the rowid ORDER BY rowid LIMIT 1 returns.              *)
LEMMA LeastCommand ==
  ASSUME NEW S \in SUBSET Commands, S # {}
  PROVE  Least(S) \in S
  BY LeastIn, TableAssumption DEF Commands

(* ... and the execution id that is picked next.                            *)
LEMMA LeastExec ==
  ASSUME NEW S \in SUBSET Execs, S # {}
  PROVE  Least(S) \in S
  BY LeastIn, TableAssumption DEF Execs

Table == [Commands -> CommandRow]

(* enqueue                                                                  *)
LEMMA EnqueueType ==
  ASSUME NEW t \in Table, NEW s \in Sessions, NEW k \in Keys \cup {None},
         NEW i, NEW cfg \in Configs
  PROVE  Enqueue(t, s, k, i, cfg) \in Table
<1> DEFINE old == IF i = "replace" THEN Rows(t, s, {"pending", "claimed"}) ELSE {}
           u == Update(t, old, Cancelled)
           r == NewRow(s, k, cfg, "pending", None)
<1>1. u \in Table
  BY DEF Update, Table, CommandRow, CommandStates, Cancelled
<1>2. r \in CommandRow
  BY DEF NewRow, CommandRow, CommandStates
<1> HIDE DEF u, r
<1>3. [u EXCEPT ![Least(Free(t))] = r] \in Table
  BY <1>1, <1>2 DEF Table
<1> QED
  BY <1>3 DEF Enqueue, u, r

(* ensure_claimed                                                           *)
LEMMA EnsureClaimedType ==
  ASSUME NEW t \in Table, NEW s \in Sessions \cup {None}, NEW e \in Execs,
         NEW cfg \in Configs
  PROVE  EnsureClaimed(t, s, e, cfg) \in Table
<1>1. NewRow(s, None, cfg, "claimed", e) \in CommandRow
  BY DEF NewRow, CommandRow, CommandStates
<1> QED
  BY <1>1 DEF EnsureClaimed, Table

(* The statements that only move rows between states.                       *)
LEMMA UpdatesType ==
  ASSUME NEW t \in Table
  PROVE  /\ \A run, id : Cancel(t, run, id) \in Table
         /\ \A s : CancelPending(t, s) \in Table
         /\ \A s : ClaimPending(t, s) \in Table
         /\ \A s : ReleaseUnbound(t, s) \in Table
         /\ \A s : \A e \in Execs : BindExecution(t, s, e) \in Table
         /\ \A e : ReleaseExecution(t, e) \in Table
         /\ \A term, e : RequeueExecution(t, term, e) \in Table
         /\ \A e, ok : FinishExecution(t, e, ok) \in Table
<1> USE DEF Table, Update, CommandRow, CommandStates
<1>1. \A run, id : Cancel(t, run, id) \in Table
  BY DEF Cancel, Cancelled
<1>2. \A s : CancelPending(t, s) \in Table
  BY DEF CancelPending, Cancelled
<1>3. \A s : ClaimPending(t, s) \in Table
  BY DEF ClaimPending
<1>4. \A s : ReleaseUnbound(t, s) \in Table
  BY DEF ReleaseUnbound
<1>5. \A s : \A e \in Execs : BindExecution(t, s, e) \in Table
  BY DEF BindExecution
<1>6. \A e : ReleaseExecution(t, e) \in Table
  BY DEF ReleaseExecution, Released
<1>7. \A term, e : RequeueExecution(t, term, e) \in Table
  BY DEF RequeueExecution, Released
<1>8. \A e, ok : FinishExecution(t, e, ok) \in Table
  BY DEF FinishExecution
<1> QED
  BY <1>1, <1>2, <1>3, <1>4, <1>5, <1>6, <1>7, <1>8

(* claim_pending claims rows of the table only.                             *)
LEMMA ClaimBatchType ==
  ASSUME NEW t, NEW s
  PROVE  ClaimBatch(t, s) \in SUBSET Commands
  BY DEF ClaimBatch, Rows

---------------------------------------------------------------------------
ApprovalTable == [Commands -> Seq(Approval)]

(* An insert into metered_approvals.                                        *)
LEMMA AppendType ==
  ASSUME NEW a \in ApprovalTable, NEW c \in Commands, NEW r \in Approval
  PROVE  [a EXCEPT ![c] = Append(a[c], r)] \in ApprovalTable
  BY DEF ApprovalTable

(* gate                                                                     *)
LEMMA GateType ==
  ASSUME NEW a \in ApprovalTable, NEW c \in Commands, NEW cfg
  PROVE  GateEffect(a, c, cfg) \in ApprovalTable
<1>1. ApprovalRow("pending", None) \in Approval /\ ApprovalRow("blocked", None) \in Approval
  BY DEF ApprovalRow, Approval, ApprovalStates
<1>2. EnsurePending(a, c) \in ApprovalTable /\ EnsureBlocked(a, c) \in ApprovalTable
  BY <1>1, AppendType DEF EnsurePending, EnsureBlocked
<1> QED
  BY <1>2 DEF GateEffect

(* respond and consume_approval rewrite rows in place.                      *)
LEMMA RewriteType ==
  ASSUME NEW a \in ApprovalTable, NEW c \in Commands
  PROVE  /\ \A ok : Respond(a, c, ok) \in ApprovalTable
         /\ \A e \in Execs : ConsumeApproval(a, c, e) \in ApprovalTable
<1>1. ASSUME NEW q \in Seq(Approval), NEW g(_), \A i \in DOMAIN q : g(i) \in Approval
      PROVE  [i \in DOMAIN q |-> g(i)] \in Seq(Approval)
  <2>1. DOMAIN q = 1..Len(q) /\ Len(q) \in Nat
    OBVIOUS
  <2> QED
    BY <1>1, <2>1
<1>2. a[c] \in Seq(Approval)
  BY DEF ApprovalTable
<1>3. \A i \in DOMAIN a[c] : a[c][i] \in Approval
  BY <1>2
<1>4. ASSUME NEW ok PROVE Respond(a, c, ok) \in ApprovalTable
  <2> DEFINE g(i) == IF a[c][i].state = "pending"
                       THEN [a[c][i] EXCEPT !.state = IF ok THEN "approved" ELSE "denied"]
                       ELSE a[c][i]
  <2>1. \A i \in DOMAIN a[c] : g(i) \in Approval
    BY <1>3 DEF Approval, ApprovalStates
  <2> HIDE DEF g
  <2>2. [i \in DOMAIN a[c] |-> g(i)] \in Seq(Approval)
    BY <1>1, <1>2, <2>1
  <2>3. Respond(a, c, ok) = [a EXCEPT ![c] = [i \in DOMAIN a[c] |-> g(i)]]
    BY DEF Respond, g
  <2> QED
    BY <2>2, <2>3 DEF ApprovalTable
<1>5. ASSUME NEW e \in Execs PROVE ConsumeApproval(a, c, e) \in ApprovalTable
  <2> DEFINE g(i) == IF a[c][i].state = "approved" /\ a[c][i].exec = None
                       THEN [a[c][i] EXCEPT !.exec = e] ELSE a[c][i]
  <2>1. \A i \in DOMAIN a[c] : g(i) \in Approval
    BY <1>3 DEF Approval, ApprovalStates
  <2> HIDE DEF g
  <2>2. [i \in DOMAIN a[c] |-> g(i)] \in Seq(Approval)
    BY <1>1, <1>2, <2>1
  <2>3. ConsumeApproval(a, c, e) = [a EXCEPT ![c] = [i \in DOMAIN a[c] |-> g(i)]]
    BY DEF ConsumeApproval, g
  <2> QED
    BY <2>2, <2>3 DEF ApprovalTable
<1> QED
  BY <1>4, <1>5

(* record_auto_start                                                        *)
LEMMA AutoStartType ==
  ASSUME NEW a \in ApprovalTable, NEW c \in Commands, NEW e \in Execs
  PROVE  RecordAutoStart(a, c, e) \in ApprovalTable
<1>1. ApprovalRow("auto_started", e) \in Approval
  BY DEF ApprovalRow, Approval, ApprovalStates
<1> QED
  BY <1>1, AppendType DEF RecordAutoStart

---------------------------------------------------------------------------
ExecTable == [Execs -> ExecRow]

(* create, update_completion, complete_running_attempt                      *)
LEMMA ExecType ==
  ASSUME NEW x \in ExecTable, NEW e
  PROVE  /\ \A s \in Sessions \cup {None} : \A p \in SUBSET Commands : \A b \in BOOLEAN :
              Create(x, e, s, p, b) \in ExecTable
         /\ \A st \in Terminal : UpdateCompletion(x, e, st) \in ExecTable
         /\ \A st \in Terminal : CompleteRunningAttempt(x, e, st) \in ExecTable
  BY DEF ExecTable, ExecRow, ExecStatus, Terminal, Create, UpdateCompletion,
         CompleteRunningAttempt

(* The running rows are a finite set, and a step that starts none has no    *)
(* more of them.                                                            *)
LEMMA RunningFinite ==
  ASSUME NEW x
  PROVE  IsFiniteSet(RunningExecs(x)) /\ CountRunning(x) \in Nat
<1>1. IsFiniteSet(Execs)
  BY FS_Interval, TableAssumption DEF Execs
<1>2. RunningExecs(x) \subseteq Execs
  BY DEF RunningExecs
<1> QED
  BY <1>1, <1>2, FS_Subset, FS_CardinalityType DEF CountRunning

(* count_running_coding_agents grows with the set of running rows ...       *)
LEMMA CountMonotone ==
  ASSUME NEW x, NEW y, RunningExecs(y) \subseteq RunningExecs(x)
  PROVE  CountRunning(y) <= CountRunning(x)
  BY RunningFinite, FS_Subset DEF CountRunning

(* ... by at most one when a single row is inserted.                        *)
LEMMA CountCreate ==
  ASSUME NEW x, NEW y, NEW e, RunningExecs(y) \subseteq RunningExecs(x) \cup {e}
  PROVE  CountRunning(y) <= CountRunning(x) + 1
<1> DEFINE S == RunningExecs(x)
<1>1. IsFiniteSet(S) /\ Cardinality(S) \in Nat
  BY RunningFinite DEF CountRunning
<1>2. /\ IsFiniteSet(S \cup {e})
      /\ Cardinality(S \cup {e}) \in Nat
      /\ Cardinality(S \cup {e}) <= Cardinality(S) + 1
  BY <1>1, FS_AddElement, FS_CardinalityType
<1>3. Cardinality(RunningExecs(y)) \in Nat /\ Cardinality(RunningExecs(y)) <= Cardinality(S \cup {e})
  BY <1>2, FS_Subset, RunningFinite DEF CountRunning
<1> QED
  BY <1>1, <1>2, <1>3 DEF CountRunning

---------------------------------------------------------------------------
(* The positions between the claim and the insert of the execution row, and *)
(* those between the insert and the registration of the child.              *)
Preparing == {"regate", "book", "admit", "create"}
Launching == {"bind", "bindfail", "spawn", "failcas"}

(* The locals of the critical section are set where they are read.          *)
SectionOK ==
  /\ cs.pc \in {"gate", "regate", "book"} => cs.head \in Commands
  /\ cs.pc \in Preparing \cup Launching => cs.exec \in Execs
  /\ boot.at \in {"release", "requeue"} => boot.cur \in Execs

TypeInv == TypeOK /\ SectionOK

(* The empty database and an idle server are well typed.                    *)
LEMMA InitType == Init => TypeInv
<1> SUFFICES ASSUME Init PROVE TypeInv
  OBVIOUS
<1>1. NoRow \in CommandRow
  BY DEF NoRow, CommandRow, CommandStates
<1>2. NoExec \in ExecRow
  BY DEF NoExec, ExecRow, ExecStatus
<1>3. Idle \in Section
  BY DEF Idle, Section, Pc
<1>4. NoSweep \in Sweep
  BY DEF NoSweep, Sweep
<1>5. approvals \in [Commands -> Seq(Approval)]
  BY DEF Init
<1>6. TypeOK
  BY <1>1, <1>2, <1>3, <1>4, <1>5, QueueAssumption
  DEF Init, TypeOK, MonitorAt, BootAt, Stop
<1> QED
  BY <1>6 DEF TypeInv, SectionOK, Init, Idle, Preparing, Launching

(* Return gives the lock back and tells a sweep to go on.                   *)
LEMMA ReturnType ==
  ASSUME TypeOK, NEW result, Return(result)
  PROVE  cs' = Idle /\ cs' \in Section /\ sweep' \in [Sweepers -> Sweep]
<1>1. Idle \in Section
  BY DEF Idle, Section, Pc
<1> DEFINE v == IF result = "none" THEN "check" ELSE "next"
<1>2. v \in {"off", "next", "busy", "check"}
  OBVIOUS
<1> HIDE DEF v
<1>3. [sweep EXCEPT ![cs.by].at = v] \in [Sweepers -> Sweep]
  BY <1>2 DEF TypeOK, Sweep
<1>4. sweep' \in {sweep, [sweep EXCEPT ![cs.by].at = v]}
  BY DEF Return, v
<1> QED
  BY <1>1, <1>3, <1>4 DEF Return, TypeOK

(* A step inside the critical section.                                      *)
LEMMA GotoType ==
  ASSUME TypeOK, NEW pc \in Pc, Goto(pc)
  PROVE  cs' = [cs EXCEPT !.pc = pc] /\ cs' \in Section /\ sweep' \in [Sweepers -> Sweep]
  BY DEF Goto, TypeOK, Section

(* Every statement the holder of scheduler_lock executes.                   *)
LEMMA LaunchType ==
  ASSUME TypeInv, Launch
  PROVE  TypeInv'
<1> USE DEF TypeInv
<1>r. ASSUME NEW res, Return(res) PROVE cs'.pc = "idle"
  BY <1>r, ReturnType DEF Idle
<1>g. ASSUME NEW pc \in Pc, Goto(pc)
      PROVE  cs'.pc = pc /\ cs'.head = cs.head /\ cs'.exec = cs.exec
  BY <1>g, GotoType DEF TypeOK, Section
<1>t. cmds \in Table /\ approvals \in ApprovalTable /\ execs \in ExecTable
  BY DEF TypeOK, Table, ApprovalTable, ExecTable
<1>c. /\ cs.session \in Sessions \cup {None} /\ cs.batch \in SUBSET Commands
      /\ cs.claim \in BOOLEAN
  BY DEF TypeOK, Section
<1> USE DEF At, Preparing, Launching
<1>1. CASE Peek
  <2> DEFINE pending == Rows(cmds, cs.session, {"pending"})
             head == Least(pending)
  <2>1. pending # {} => head \in Commands
    BY LeastCommand DEF Rows
  <2> HIDE DEF head
  <2>2. \/ cs' = [cs EXCEPT !.pc = "release"]
        \/ head \in Commands /\ cs' = [cs EXCEPT !.pc = "gate", !.head = head]
    BY <1>1, <2>1 DEF Peek, head
  <2>3. cs' \in Section /\ (cs'.pc = "gate" => cs'.head \in Commands)
        /\ cs'.pc \in {"gate", "release"}
    BY <2>2 DEF TypeOK, Section, Pc
  <2> QED
    BY <1>1, <2>3 DEF Peek, TypeOK, SectionOK, durable, calls
<1>2. CASE Gate
  <2>1. approvals' \in ApprovalTable
    BY <1>2, <1>t, GateType DEF Gate, SectionOK
  <2>2. \/ Goto("release") \/ Return("none")
    BY <1>2 DEF Gate
  <2>3. cs' \in Section /\ sweep' \in [Sweepers -> Sweep] /\ cs'.pc \in {"release", "idle"}
    BY <2>2, <1>r, <1>g, ReturnType, GotoType DEF Pc
  <2> QED
    BY <1>2, <2>1, <2>3 DEF Gate, TypeOK, SectionOK, calls, ApprovalTable
<1>3. CASE ReleaseLeftover
  <2>1. cmds' \in Table
    BY <1>3, <1>t, UpdatesType DEF ReleaseLeftover
  <2>2. cs' \in Section /\ sweep' \in [Sweepers -> Sweep] /\ cs'.pc = "claim"
    BY <1>3, <1>g, GotoType DEF ReleaseLeftover, Pc
  <2> QED
    BY <1>3, <2>1, <2>2 DEF ReleaseLeftover, TypeOK, SectionOK, calls, Table
<1>4. CASE Claim
  <2> DEFINE batch == ClaimBatch(cmds, cs.session)
             h == Least(batch)
             f == Least(FreshExecs)
  <2>1. batch \in SUBSET Commands /\ (batch # {} => h \in Commands)
    BY ClaimBatchType, LeastCommand
  <2>2. FreshExecs # {} => f \in Execs
    BY LeastExec DEF FreshExecs
  <2>3. cmds' \in Table
    BY <1>4, <1>t, UpdatesType DEF Claim
  <2> HIDE DEF h, f, batch
  <2>4. \/ Return("none")
        \/ /\ h \in Commands /\ f \in Execs
           /\ cs' = [cs EXCEPT !.pc = "regate", !.exec = f, !.head = h, !.batch = batch]
           /\ UNCHANGED sweep
    BY <1>4, <2>1, <2>2 DEF Claim, h, f, batch
  <2>5. /\ cs' \in Section /\ sweep' \in [Sweepers -> Sweep]
        /\ cs'.pc \in {"idle", "regate"}
        /\ cs'.pc = "regate" => cs'.head \in Commands /\ cs'.exec \in Execs
    BY <2>1, <2>4, <1>r, ReturnType DEF TypeOK, Section, Pc
  <2> QED
    BY <1>4, <2>3, <2>5 DEF Claim, TypeOK, SectionOK, calls, Table
<1>5. CASE Regate
  <2>1. approvals' \in ApprovalTable
    BY <1>5, <1>t, GateType DEF Regate, SectionOK
  <2>2. \/ Goto("undo") \/ Goto("admit") \/ Goto("book")
    BY <1>5 DEF Regate
  <2>3. /\ cs' \in Section /\ sweep' \in [Sweepers -> Sweep]
        /\ cs'.pc \in {"undo", "admit", "book"} /\ cs'.head = cs.head /\ cs'.exec = cs.exec
    BY <2>2, <1>g, GotoType DEF Pc
  <2> QED
    BY <1>5, <2>1, <2>3 DEF Regate, TypeOK, SectionOK, calls, ApprovalTable
<1>6. CASE Book
  <2>1. approvals' \in ApprovalTable
    BY <1>6, <1>t, RewriteType, AutoStartType DEF Book, SectionOK
  <2>2. /\ cs' \in Section /\ sweep' \in [Sweepers -> Sweep]
        /\ cs'.pc = "admit" /\ cs'.exec = cs.exec
    BY <1>6, <1>g, GotoType DEF Book, Pc
  <2> QED
    BY <1>6, <2>1, <2>2 DEF Book, TypeOK, SectionOK, calls, ApprovalTable
<1>7. CASE Admit
  <2>1. \/ Goto("abort") \/ Goto("undo") \/ Goto("create")
    BY <1>7 DEF Admit
  <2>2. /\ cs' \in Section /\ sweep' \in [Sweepers -> Sweep]
        /\ cs'.pc \in {"abort", "undo", "create"} /\ cs'.exec = cs.exec
    BY <2>1, <1>g, GotoType DEF Pc
  <2> QED
    BY <1>7, <2>2 DEF Admit, TypeOK, SectionOK, calls, durable
<1>8. CASE Undo
  <2>1. cmds' \in Table
    BY <1>8, <1>t, UpdatesType DEF Undo
  <2>2. cs' \in Section /\ sweep' \in [Sweepers -> Sweep] /\ cs'.pc = "idle"
    BY <1>8, <1>r, ReturnType DEF Undo
  <2> QED
    BY <1>8, <2>1, <2>2 DEF Undo, TypeOK, SectionOK, calls, Table
<1>f. ASSUME Fail
      PROVE  cs' \in Section /\ sweep' \in [Sweepers -> Sweep] /\ cs'.pc \in {"abort", "idle"}
  BY <1>f, <1>r, <1>g, ReturnType, GotoType DEF Fail, Pc
<1>9. CASE CreateRow
  <2>1. /\ execs' \in ExecTable
        /\ (Goto("bind") \/ Fail)
    BY <1>9, <1>t, <1>c, ExecType DEF CreateRow
  <2>2. /\ cs' \in Section /\ sweep' \in [Sweepers -> Sweep]
        /\ cs'.pc \in {"abort", "idle", "bind"} /\ (cs'.pc = "bind" => cs'.exec = cs.exec)
    BY <2>1, <1>g, <1>f, GotoType DEF Pc
  <2> QED
    BY <1>9, <2>1, <2>2 DEF CreateRow, TypeOK, SectionOK, calls, ExecTable
<1>10. CASE BindBatch
  <2>1. cmds' \in Table
    BY <1>10, <1>t, UpdatesType DEF BindBatch, SectionOK
  <2>2. \/ Goto("bindfail") \/ Goto("spawn")
    BY <1>10 DEF BindBatch
  <2>3. /\ cs' \in Section /\ sweep' \in [Sweepers -> Sweep]
        /\ cs'.pc \in {"bindfail", "spawn"} /\ cs'.exec = cs.exec
    BY <2>2, <1>g, GotoType DEF Pc
  <2> QED
    BY <1>10, <2>1, <2>3 DEF BindBatch, TypeOK, SectionOK, calls, Table
<1>11. CASE BindDirect
  <2>1. cmds' \in Table
    BY <1>11, <1>t, <1>c, EnsureClaimedType DEF BindDirect, SectionOK, Unmetered
  <2> DEFINE p == {Least(Free(cmds))}
  <2>2. p \in SUBSET Commands
    BY <1>11, LeastCommand DEF BindDirect, Free
  <2> HIDE DEF p
  <2>3. execs' = [execs EXCEPT ![cs.exec].prompt = p]
    BY <1>11 DEF BindDirect, p
  <2>4. execs' \in ExecTable
    BY <2>2, <2>3, <1>t DEF ExecTable, ExecRow
  <2>5. /\ cs' \in Section /\ sweep' \in [Sweepers -> Sweep]
        /\ cs'.pc = "spawn" /\ cs'.exec = cs.exec
    BY <1>11, <1>g, GotoType DEF BindDirect, Pc
  <2> QED
    BY <1>11, <2>1, <2>4, <2>5 DEF BindDirect, TypeOK, SectionOK, calls, Table, ExecTable
<1>12. CASE BindFailed
  <2>1. execs' \in ExecTable
    BY <1>12, <1>t, ExecType DEF BindFailed, Terminal
  <2>2. cs' \in Section /\ sweep' \in [Sweepers -> Sweep] /\ cs'.pc = "abort"
    BY <1>12, <1>g, GotoType DEF BindFailed, Pc
  <2> QED
    BY <1>12, <2>1, <2>2 DEF BindFailed, TypeOK, SectionOK, calls, ExecTable
<1>13. CASE SpawnChild
  <2>1. cs' \in Section /\ sweep' \in [Sweepers -> Sweep] /\ cs'.pc = "idle"
    BY <1>13, <1>r, ReturnType DEF SpawnChild
  <2>2. monitor' \in [Execs -> MonitorAt]
    BY <1>13 DEF SpawnChild, TypeOK, MonitorAt
  <2> QED
    BY <1>13, <2>1, <2>2 DEF SpawnChild, TypeOK, SectionOK, calls, durable
<1>14. CASE SpawnFails
  <2>1. Goto("failcas") \/ Fail
    BY <1>14 DEF SpawnFails
  <2>2. /\ cs' \in Section /\ sweep' \in [Sweepers -> Sweep]
        /\ cs'.pc \in {"failcas", "abort", "idle"} /\ (cs'.pc = "failcas" => cs'.exec = cs.exec)
    BY <2>1, <1>g, <1>f, GotoType DEF Pc
  <2> QED
    BY <1>14, <2>2 DEF SpawnFails, TypeOK, SectionOK, calls, durable
<1>15. CASE FailAttempt
  <2>1. execs' \in ExecTable
    BY <1>15, <1>t, ExecType DEF FailAttempt, Terminal
  <2>2. cs' \in Section /\ sweep' \in [Sweepers -> Sweep] /\ cs'.pc = "abort"
    BY <1>15, <1>g, GotoType DEF FailAttempt, Pc
  <2> QED
    BY <1>15, <2>1, <2>2 DEF FailAttempt, TypeOK, SectionOK, calls, ExecTable
<1>16. CASE Abort
  <2>1. cmds' \in Table
    BY <1>16, <1>t, UpdatesType DEF Abort
  <2>2. cs' \in Section /\ sweep' \in [Sweepers -> Sweep] /\ cs'.pc = "idle"
    BY <1>16, <1>r, ReturnType DEF Abort
  <2> QED
    BY <1>16, <2>1, <2>2 DEF Abort, TypeOK, SectionOK, calls, Table
<1> QED
  BY <1>1, <1>2, <1>3, <1>4, <1>5, <1>6, <1>7, <1>8, <1>9, <1>10, <1>11, <1>12,
     <1>13, <1>14, <1>15, <1>16 DEF Launch

(* The callers of the dispatcher.                                           *)
LEMMA CallerType ==
  ASSUME TypeInv,
         \/ \E s \in Sessions : StartDirect(s) \/ DispatchRequest(s)
         \/ \E w \in Sweepers : SweepNext(w) \/ SweepCheck(w)
  PROVE  TypeInv'
<1> USE DEF TypeInv, Preparing, Launching
<1>1. ASSUME NEW s \in Sessions, NEW by \in Sweepers \cup {Api}, BeginDispatch(s, by)
      PROVE  cs' \in Section /\ cs'.pc \in {"idle", "peek"}
  BY <1>1 DEF BeginDispatch, Section0, Idle, Section, Pc
<1>2. ASSUME NEW s \in Sessions, StartDirect(s) PROVE TypeInv'
  <2> DEFINE f == Least(FreshExecs)
  <2>1. f \in Execs
    BY <1>2, LeastExec DEF StartDirect, LockFree, FreshExecs
  <2> HIDE DEF f
  <2>2. cs' = [Section0(s, Api) EXCEPT !.pc = "create", !.exec = f]
    BY <1>2 DEF StartDirect, f
  <2>3. cs' \in Section /\ cs'.pc = "create" /\ cs'.exec \in Execs
    BY <2>1, <2>2 DEF Section0, Idle, Section, Pc
  <2> QED
    BY <1>2, <2>3 DEF StartDirect, TypeOK, SectionOK, durable, calls
<1>3. ASSUME NEW s \in Sessions, DispatchRequest(s) PROVE TypeInv'
  <2>1. cs' \in Section /\ cs'.pc \in {"idle", "peek"}
    BY <1>1, <1>3 DEF DispatchRequest
  <2> QED
    BY <1>3, <2>1 DEF DispatchRequest, TypeOK, SectionOK, durable
<1>4. ASSUME NEW w \in Sweepers, SweepNext(w) PROVE TypeInv'
  <2> DEFINE c == Least(sweep[w].todo)
             row == [at |-> IF HasRunning(execs, cmds[c].session) THEN "check" ELSE "busy",
                     todo |-> sweep[w].todo \ {c}]
  <2>1. row \in Sweep
    BY DEF TypeOK, Sweep
  <2>2. BeginDispatch(cmds[c].session, w)
    BY <1>4 DEF SweepNext
  <2>3. cs' \in Section /\ cs'.pc \in {"idle", "peek"}
    <3>1. c \in Commands
      BY <1>4, LeastCommand DEF SweepNext, TypeOK, Sweep
    <3>2. cmds[c].session \in Sessions \cup {None}
      BY <3>1 DEF TypeOK, CommandRow
    <3> HIDE DEF c
    <3> QED
      BY <2>2, <3>2 DEF BeginDispatch, Section0, Idle, Section, Pc
  <2> HIDE DEF row
  <2>4. sweep' = [sweep EXCEPT ![w] = row]
    BY <1>4 DEF SweepNext, row
  <2> QED
    BY <1>4, <2>1, <2>3, <2>4 DEF SweepNext, TypeOK, SectionOK, durable, calls
<1>5. ASSUME NEW w \in Sweepers, SweepCheck(w) PROVE TypeInv'
  <2> DEFINE row == [at |-> "next", todo |-> IF CountRunning(execs) >= MaxRunningAgents
                                               THEN {} ELSE sweep[w].todo]
  <2>1. row \in Sweep
    BY DEF TypeOK, Sweep
  <2> HIDE DEF row
  <2>2. sweep' = [sweep EXCEPT ![w] = row]
    BY <1>5 DEF SweepCheck, row
  <2>3. sweep' \in [Sweepers -> Sweep]
    BY <2>1, <2>2 DEF TypeOK
  <2> QED
    BY <1>5, <2>3 DEF SweepCheck, TypeOK, SectionOK, durable, calls
<1> QED
  BY <1>2, <1>3, <1>4, <1>5

(* pending_session_ids names rows of the table.                             *)
LEMMA HeadsType ==
  ASSUME TypeOK
  PROVE  BeginSweep \in Sweep
<1>1. \A s \in Sessions : Rows(cmds, s, {"pending"}) # {} => HeadPending(cmds, s) \in Commands
  BY LeastCommand DEF HeadPending, Rows
<1>2. PendingSessionHeads(cmds) \subseteq Commands
  BY <1>1 DEF PendingSessionHeads
<1> QED
  BY <1>2 DEF BeginSweep, Sweep

(* Exit monitors and the exits of their children.                           *)
LEMMA MonitorType ==
  ASSUME TypeInv, NEW e \in Execs, Monitor(e) \/ ChildExit(e)
  PROVE  TypeInv'
<1> USE DEF TypeInv, MonitorStep
<1>m. ASSUME NEW from, NEW to \in MonitorAt, MonitorStep(e, from, to)
      PROVE  monitor' \in [Execs -> MonitorAt]
  BY <1>m DEF TypeOK
<1>1. CASE ChildExit(e)
  BY <1>1, <1>m DEF ChildExit, TypeOK, SectionOK, durable, calls, MonitorAt
<1>2. CASE PublishCompletion(e)
  <2>1. PICK st \in Outcomes(e) : execs' = CompleteRunningAttempt(execs, e, st)
    BY <1>2 DEF PublishCompletion
  <2>2. st \in Terminal
    BY DEF Outcomes, Terminal
  <2>3. execs' \in ExecTable
    BY <2>1, <2>2, ExecType DEF TypeOK, ExecTable
  <2>4. monitor' \in [Execs -> MonitorAt]
    BY <1>2, <1>m DEF PublishCompletion, MonitorAt
  <2> QED
    BY <1>2, <2>3, <2>4 DEF PublishCompletion, TypeOK, SectionOK, calls, ExecTable
<1>3. CASE PublishFails(e)
  BY <1>3, <1>m DEF PublishFails, TypeOK, SectionOK, durable, calls, MonitorAt
<1>4. CASE FinishCommands(e)
  <2>1. cmds' \in Table
    BY <1>4, UpdatesType DEF FinishCommands, TypeOK, Table
  <2>2. monitor' \in [Execs -> MonitorAt]
    BY <1>4, <1>m DEF FinishCommands, MonitorAt
  <2> QED
    BY <1>4, <2>1, <2>2 DEF FinishCommands, TypeOK, SectionOK, calls, Table
<1>5. CASE SweepQueue(e)
  <2>1. sweep' \in [Sweepers -> Sweep]
    BY <1>5, HeadsType DEF SweepQueue, TypeOK
  <2> QED
    BY <1>5, <2>1 DEF SweepQueue, TypeOK, SectionOK, durable, calls
<1>6. CASE SweepDone(e)
  <2>1. NoSweep \in Sweep
    BY DEF NoSweep, Sweep
  <2>2. sweep' \in [Sweepers -> Sweep]
    BY <1>6, <2>1 DEF SweepDone, TypeOK
  <2>3. monitor' \in [Execs -> MonitorAt]
    BY <1>6, <1>m DEF SweepDone, MonitorAt
  <2> QED
    BY <1>6, <2>2, <2>3 DEF SweepDone, TypeOK, SectionOK, durable, calls
<1>7. CASE RemoveEntry(e)
  <2>1. monitor' \in [Execs -> MonitorAt] /\ stopReq' \in [Execs -> BOOLEAN]
    BY <1>7, <1>m DEF RemoveEntry, MonitorAt, TypeOK
  <2> QED
    BY <1>7, <2>1 DEF RemoveEntry, TypeOK, SectionOK, durable, calls
<1> QED
  BY <1>1, <1>2, <1>3, <1>4, <1>5, <1>6, <1>7 DEF Monitor

(* Stop calls, and the follow_up calls that make them.                      *)
LEMMA StopType ==
  ASSUME TypeInv,
         \/ \E r \in stops : StopCall(r)
         \/ \E s \in Sessions : SteerInterrupt(s)
         \/ \E e \in Execs : StopExecution(e)
  PROVE  TypeInv'
<1> USE DEF TypeInv
<1>0. stops \subseteq Stop /\ requests \subseteq Sessions
  BY DEF TypeOK
<1>s. ASSUME NEW r \in stops, NEW at \in {"lookup", "wait", "orphan", "requeue"}, StopStep(r, at)
      PROVE  stops' \subseteq Stop
  BY <1>0, <1>s DEF StopStep, Stop
<1>r. ASSUME NEW r \in stops, StopReturns(r)
      PROVE  stops' \subseteq Stop /\ requests' \subseteq Sessions
  BY <1>0, <1>r DEF StopReturns, Stop
<1>1. ASSUME NEW r \in stops, StopCall(r) PROVE TypeInv'
  <2>e. r.exec \in Execs
    BY <1>0 DEF Stop
  <2>1. CASE StopFound(r)
    <3>1. stops' \subseteq Stop /\ stopReq' \in [Execs -> BOOLEAN]
      BY <2>1, <1>s DEF StopFound, TypeOK
    <3> QED
      BY <2>1, <3>1 DEF StopFound, TypeOK, SectionOK, durable
  <2>2. CASE StopMissing(r)
    BY <2>2, <1>s DEF StopMissing, TypeOK, SectionOK, durable
  <2>3. CASE StopKill(r)
    BY <2>3 DEF StopKill, MonitorStep, TypeOK, SectionOK, durable, calls, MonitorAt
  <2>4. CASE StopAwaited(r)
    <3>1. stops' \subseteq Stop /\ requests' \subseteq Sessions
      BY <2>4, <1>0, <1>r DEF StopAwaited
    <3> QED
      BY <2>4, <3>1 DEF StopAwaited, TypeOK, SectionOK, durable
  <2>5. CASE OrphanComplete(r)
    <3>1. execs' \in ExecTable
      BY <2>5, ExecType DEF OrphanComplete, TypeOK, ExecTable, Terminal
    <3>2. stops' \subseteq Stop
      BY <2>5, <1>s DEF OrphanComplete
    <3> QED
      BY <2>5, <3>1, <3>2 DEF OrphanComplete, TypeOK, SectionOK, ExecTable
  <2>6. CASE OrphanRequeue(r)
    <3>1. cmds' \in Table
      BY <2>6, UpdatesType DEF OrphanRequeue, TypeOK, Table
    <3>2. stops' \subseteq Stop /\ requests' \subseteq Sessions
      BY <2>6, <1>r DEF OrphanRequeue
    <3> QED
      BY <2>6, <3>1, <3>2 DEF OrphanRequeue, TypeOK, SectionOK, Table
  <2> QED
    BY <1>1, <2>1, <2>2, <2>3, <2>4, <2>5, <2>6 DEF StopCall
<1>2. ASSUME NEW s \in Sessions, SteerInterrupt(s) PROVE TypeInv'
  <2> DEFINE then == IF steer[s] = "dispatch" THEN s ELSE None
             running == {e \in RunningExecs(execs) : execs[e].session = s}
             new == {[exec |-> e, at |-> "lookup", then |-> then] : e \in running}
  <2>1. then \in Sessions \cup {None} /\ running \subseteq Execs
    BY DEF RunningExecs
  <2>2. new \subseteq Stop
    BY <2>1 DEF Stop
  <2>3. \/ requests' = requests \cup ({then} \ {None}) /\ UNCHANGED stops
        \/ stops' = stops \cup new /\ UNCHANGED requests
    BY <1>2 DEF SteerInterrupt
  <2>4. stops' \subseteq Stop /\ requests' \subseteq Sessions
    BY <1>0, <2>1, <2>2, <2>3
  <2> QED
    BY <1>2, <2>4 DEF SteerInterrupt, TypeOK, SectionOK, durable
<1>3. ASSUME NEW e \in Execs, StopExecution(e) PROVE TypeInv'
  <2>1. stops' \subseteq Stop
    BY <1>0, <1>3 DEF StopExecution, Stop
  <2> QED
    BY <1>3, <2>1 DEF StopExecution, TypeOK, SectionOK, durable
<1> QED
  BY <1>1, <1>2, <1>3

(* The other routes.                                                        *)
LEMMA RouteType ==
  ASSUME TypeInv,
         \/ \E s \in Sessions, k \in Keys \cup {None}, cfg \in Configs :
              \/ FollowUp(s, k, cfg)
              \/ FollowUpDeferred(s, k, cfg)
              \/ \E then \in {"dispatch", "defer"} : Steer(s, k, cfg, then)
         \/ \E c \in Commands :
              CancelCommand(c) \/ \E approved \in BOOLEAN : RespondApproval(c, approved)
         \/ \E s \in Sessions : CancelQueued(s) \/ DispatchCommands(s)
         \/ \E e \in Execs : RequeueCommands(e)
  PROVE  TypeInv'
<1> USE DEF TypeInv
<1>t. cmds \in Table /\ approvals \in ApprovalTable
  BY DEF TypeOK, Table, ApprovalTable
<1>1. ASSUME NEW s \in Sessions, NEW k \in Keys \cup {None}, NEW cfg \in Configs
      PROVE  /\ FollowUp(s, k, cfg) => TypeInv'
             /\ FollowUpDeferred(s, k, cfg) => TypeInv'
             /\ \A then \in {"dispatch", "defer"} : Steer(s, k, cfg, then) => TypeInv'
  <2>1. \A i : Enqueue(cmds, s, k, i, cfg) \in Table
    BY <1>t, EnqueueType
  <2>2. ASSUME FollowUp(s, k, cfg) PROVE TypeInv'
    BY <2>1, <2>2 DEF FollowUp, TypeOK, SectionOK, Table
  <2>3. ASSUME FollowUpDeferred(s, k, cfg) PROVE TypeInv'
    BY <2>1, <2>3 DEF FollowUpDeferred, TypeOK, SectionOK, Table, calls
  <2>4. ASSUME NEW then \in {"dispatch", "defer"}, Steer(s, k, cfg, then) PROVE TypeInv'
    <3>1. requests' \subseteq Sessions /\ steer' \in [Sessions -> {"off", "dispatch", "defer"}]
      <4>1. /\ requests' \in {requests, requests \cup {s}}
            /\ steer' \in {steer, [steer EXCEPT ![s] = then]}
        BY <2>4 DEF Steer
      <4> QED
        BY <4>1 DEF TypeOK
    <3>2. cmds' \in Table
      <4>1. cmds' = Enqueue(cmds, s, k, "replace", cfg)
        BY <2>4 DEF Steer
      <4> QED
        BY <2>1, <4>1
    <3>3. UNCHANGED <<approvals, execs, cs, monitor, stopReq, sweep, stops, boot, crashes>>
      BY <2>4 DEF Steer
    <3> QED
      BY <3>1, <3>2, <3>3 DEF TypeOK, SectionOK, Table
  <2> QED
    BY <2>2, <2>3, <2>4
<1>2. ASSUME NEW c \in Commands
      PROVE  /\ CancelCommand(c) => TypeInv'
             /\ \A approved \in BOOLEAN : RespondApproval(c, approved) => TypeInv'
  <2>1. ASSUME CancelCommand(c) PROVE TypeInv'
    <3>1. cmds' \in Table
      BY <1>t, <2>1, UpdatesType DEF CancelCommand
    <3> QED
      BY <2>1, <3>1 DEF CancelCommand, TypeOK, SectionOK, Table, calls
  <2>2. ASSUME NEW approved \in BOOLEAN, RespondApproval(c, approved) PROVE TypeInv'
    <3>1. approvals' \in ApprovalTable
      BY <1>t, <2>2, RewriteType DEF RespondApproval
    <3>2. requests' \subseteq Sessions
      BY <2>2 DEF RespondApproval, TypeOK, CommandRow
    <3> QED
      BY <2>2, <3>1, <3>2 DEF RespondApproval, TypeOK, SectionOK, ApprovalTable
  <2> QED
    BY <2>1, <2>2
<1>3. ASSUME NEW s \in Sessions, CancelQueued(s) PROVE TypeInv'
  <2>1. cmds' \in Table
    BY <1>t, <1>3, UpdatesType DEF CancelQueued
  <2> QED
    BY <1>3, <2>1 DEF CancelQueued, TypeOK, SectionOK, Table, calls
<1>4. ASSUME NEW s \in Sessions, DispatchCommands(s) PROVE TypeInv'
  BY <1>4 DEF DispatchCommands, TypeOK, SectionOK, durable
<1>5. ASSUME NEW e \in Execs, RequeueCommands(e) PROVE TypeInv'
  <2>1. cmds' \in Table
    BY <1>t, <1>5, UpdatesType DEF RequeueCommands
  <2> QED
    BY <1>5, <2>1 DEF RequeueCommands, TypeOK, SectionOK, Table, calls
<1> QED
  BY <1>1, <1>2, <1>3, <1>4, <1>5

(* Restart and the boot sequence.                                           *)
LEMMA BootType ==
  ASSUME TypeInv, Restart \/ BootSequence
  PROVE  TypeInv'
<1> USE DEF TypeInv
<1>t. cmds \in Table /\ execs \in ExecTable
  BY DEF TypeOK, Table, ExecTable
<1>n. NoSweep \in Sweep
  BY DEF NoSweep, Sweep
<1>1. CASE Restart
  <2>1. Idle \in Section
    BY DEF Idle, Section, Pc
  <2>2. RunningExecs(execs) \subseteq Execs
    BY DEF RunningExecs
  <2>3. crashes' \in 0..MaxCrashes
    BY <1>1, QueueAssumption DEF Restart, TypeOK
  <2>4. TypeOK'
    BY <1>1, <1>n, <2>1, <2>2, <2>3 DEF Restart, TypeOK, durable, MonitorAt, BootAt
  <2> QED
    BY <1>1, <2>4 DEF Restart, SectionOK, Idle, Preparing, Launching
<1>b. ASSUME NEW at \in BootAt, NEW todo \in SUBSET Execs, NEW cur \in Execs \cup {None},
             BootStep(at, todo, cur), at \in {"release", "requeue"} => cur \in Execs,
             cmds' \in Table, execs' \in ExecTable, sweep' \in [Sweepers -> Sweep]
      PROVE  TypeInv'
  BY <1>b DEF BootStep, TypeOK, SectionOK, calls, Table, ExecTable
<1>2. CASE CleanupOrphan
  <2> DEFINE e == Least(boot.todo)
  <2>1. e \in Execs
    BY <1>2, LeastExec DEF CleanupOrphan, TypeOK
  <2>2. boot.todo \ {e} \in SUBSET Execs
    BY DEF TypeOK
  <2> HIDE DEF e
  <2>3. /\ cmds' \in Table /\ sweep' \in [Sweepers -> Sweep]
        /\ \/ BootStep("release", boot.todo \ {e}, e) /\ execs' \in ExecTable
           \/ BootStep("cleanup", boot.todo \ {e}, None) /\ execs' \in ExecTable
    BY <1>2, <1>t, ExecType DEF CleanupOrphan, TypeOK, Terminal, e
  <2>4. CASE BootStep("release", boot.todo \ {e}, e)
    BY <1>b, <2>1, <2>2, <2>3, <2>4 DEF BootAt
  <2>5. CASE BootStep("cleanup", boot.todo \ {e}, None)
    BY <1>b, <2>2, <2>3, <2>5 DEF BootAt
  <2> QED
    BY <2>3, <2>4, <2>5
<1>3. CASE ReleaseOrphan
  <2>1. cmds' \in Table
    BY <1>3, <1>t, UpdatesType DEF ReleaseOrphan
  <2>2. boot.todo \in SUBSET Execs
    BY DEF TypeOK
  <2> QED
    BY <1>3, <1>t, <1>b, <2>1, <2>2 DEF ReleaseOrphan, BootAt, TypeOK
<1>4. CASE CleanupDone
  <2>1. RunningExecs(execs) \in SUBSET Execs
    BY DEF RunningExecs
  <2> QED
    BY <1>4, <1>t, <1>b, <2>1 DEF CleanupDone, BootAt, TypeOK
<1>5. CASE Terminalize
  <2> DEFINE e == Least(boot.todo)
  <2>1. e \in Execs
    BY <1>5, LeastExec DEF Terminalize, TypeOK
  <2>2. boot.todo \ {e} \in SUBSET Execs
    BY DEF TypeOK
  <2>3. execs' \in ExecTable
    BY <1>5, <1>t, ExecType DEF Terminalize, Terminal
  <2> QED
    BY <1>5, <1>t, <1>b, <2>1, <2>2, <2>3 DEF Terminalize, BootAt, TypeOK
<1>6. CASE RequeueInherited
  <2>1. cmds' \in Table
    BY <1>6, <1>t, UpdatesType DEF RequeueInherited
  <2>2. boot.todo \in SUBSET Execs
    BY DEF TypeOK
  <2> QED
    BY <1>6, <1>t, <1>b, <2>1, <2>2 DEF RequeueInherited, BootAt, TypeOK
<1>7. CASE BootSweep
  <2>1. sweep' \in [Sweepers -> Sweep]
    BY <1>7, HeadsType DEF BootSweep, TypeOK
  <2> QED
    BY <1>7, <1>t, <1>b, <2>1 DEF BootSweep, BootAt
<1>8. CASE BootDone
  <2>1. sweep' \in [Sweepers -> Sweep]
    BY <1>8, <1>n DEF BootDone, TypeOK
  <2> QED
    BY <1>8, <1>t, <1>b, <2>1 DEF BootDone, BootAt
<1> QED
  BY <1>1, <1>2, <1>3, <1>4, <1>5, <1>6, <1>7, <1>8 DEF BootSequence

(* TypeInv is inductive.                                                    *)
LEMMA NextType == TypeInv /\ [Next]_vars => TypeInv'
<1> SUFFICES ASSUME TypeInv, [Next]_vars PROVE TypeInv'
  OBVIOUS
<1>1. CASE UNCHANGED vars
  BY <1>1 DEF TypeInv, TypeOK, SectionOK, vars
<1>2. CASE Next
  <2>1. CASE ClientStep
    BY <2>1, RouteType, CallerType, StopType DEF ClientStep
  <2>2. CASE ServerStep
    BY <2>2, LaunchType, CallerType, StopType, MonitorType, BootType DEF ServerStep
  <2> QED
    BY <1>2, <2>1, <2>2, MonitorType, BootType DEF Next
<1> QED
  BY <1>1, <1>2

(* Every reachable state is well typed: no statement, in any interleaving   *)
(* with crashes and failed launches, writes a row outside its columns'      *)
(* domains, and the dispatcher reads its locals only where they are set.    *)
THEOREM TypeCorrect == Spec => []TypeOK
<1>1. Spec => []TypeInv
  BY InitType, NextType, PTL DEF Spec
<1> QED
  BY <1>1, PTL DEF TypeInv

---------------------------------------------------------------------------
Booting == boot.at \notin {"sweep", "up"}

(* An entry of running_executions is one of a row that was inserted.        *)
MonitorHasRow == \A e \in Execs : monitor[e] # "none" => execs[e].status # "absent"

(* An attempt that is being prepared has an id no row uses yet ...          *)
AttemptHasNoRow == cs.pc \in Preparing => execs[cs.exec].status = "absent"

(* ... and from the insert to the registration its row is running and has   *)
(* no entry.                                                                *)
LaunchOwnsRow ==
  cs.pc \in Launching => execs[cs.exec].status = "running" /\ monitor[cs.exec] = "none"

(* A stop call names an inserted row; one that took it for an orphan was    *)
(* right, and the row is not one that is being launched.                    *)
StopHasRow == \A r \in stops : execs[r.exec].status # "absent"
OrphanIsUnowned ==
  \A r \in stops : r.at \in {"orphan", "requeue"} =>
    /\ monitor[r.exec] = "none"
    /\ cs.pc \in Launching => cs.exec # r.exec

(* Nothing else runs before the boot sequence starts to dispatch.           *)
BootIsAlone ==
  Booting => /\ cs.pc = "idle" /\ stops = {} /\ requests = {}
             /\ \A e \in Execs : monitor[e] = "none"
             /\ \A w \in Sweepers : sweep[w].at = "off"
             /\ \A s \in Sessions : steer[s] = "off"

OwnerInv ==
  /\ LiveChildHasRunningRow /\ MonitorHasRow /\ AttemptHasNoRow /\ LaunchOwnsRow
  /\ StopHasRow /\ OrphanIsUnowned /\ BootIsAlone

(* The slot admission counted is still free when the row is inserted.       *)
AdmittedHasSlot == cs.pc = "create" => CountRunning(execs) < MaxRunningAgents

(* The rows terminalize_inherited_executions has not reached yet are all    *)
(* the running ones.                                                        *)
InheritedAreListed ==
  boot.at \in {"terminalize", "requeue"} => RunningExecs(execs) \subseteq boot.todo
---------------------------------------------------------------------------
(* Where the critical section goes.                                         *)
LEMMA GotoPc ==
  ASSUME TypeOK, NEW pc \in Pc, Goto(pc)
  PROVE  cs'.pc = pc /\ cs'.exec = cs.exec
  BY GotoType DEF TypeOK, Section

(* ... back to idle when the lock is released ...                           *)
LEMMA ReturnPc ==
  ASSUME TypeOK, NEW res, Return(res)
  PROVE  cs'.pc = "idle"
  BY ReturnType DEF Idle

(* ... and to the abort, or to idle, when a launch fails.                   *)
LEMMA FailPc ==
  ASSUME TypeOK, Fail
  PROVE  cs'.pc \in {"idle", "abort"}
  BY GotoPc, ReturnPc DEF Fail, Pc

(* The statements on execution_processes write the status of one row.       *)
LEMMA StatusOf ==
  ASSUME NEW x \in ExecTable, NEW e \in Execs, NEW f \in Execs
  PROVE  /\ \A s, p, b : Create(x, e, s, p, b)[f].status
                           = IF f = e THEN "running" ELSE x[f].status
         /\ \A st : UpdateCompletion(x, e, st)[f].status = IF f = e THEN st ELSE x[f].status
         /\ \A st : CompleteRunningAttempt(x, e, st)[f].status
                      = IF f = e /\ x[e].status = "running" THEN st ELSE x[f].status
  BY DEF ExecTable, ExecRow, Create, UpdateCompletion, CompleteRunningAttempt

(* A step that leaves rows, monitors and stop calls alone, and keeps or     *)
(* leaves the launch.                                                       *)
LEMMA SectionStep ==
  ASSUME OwnerInv, ~Booting, UNCHANGED <<execs, monitor, stops, boot>>,
         cs'.pc \in Preparing => execs[cs'.exec].status = "absent",
         cs'.pc \in Launching => cs.pc \in Launching /\ cs'.exec = cs.exec
  PROVE  OwnerInv'
<1>1. LiveChildHasRunningRow' /\ MonitorHasRow' /\ StopHasRow'
  BY DEF OwnerInv, LiveChildHasRunningRow, MonitorHasRow, StopHasRow
<1>2. AttemptHasNoRow' /\ LaunchOwnsRow'
  BY DEF OwnerInv, AttemptHasNoRow, LaunchOwnsRow
<1>3. OrphanIsUnowned'
  BY DEF OwnerInv, OrphanIsUnowned
<1>4. BootIsAlone'
  BY DEF BootIsAlone, Booting
<1> QED
  BY <1>1, <1>2, <1>3, <1>4 DEF OwnerInv

(* The holder of scheduler_lock.                                            *)
LEMMA LaunchOwner ==
  ASSUME TypeInv, OwnerInv, Launch
  PROVE  OwnerInv'
<1> USE DEF Preparing, Launching
<1>t. TypeOK /\ execs \in ExecTable
  BY DEF TypeInv, TypeOK, ExecTable
<1>s. cs.pc \in Preparing \cup Launching => cs.exec \in Execs
  BY DEF TypeInv, SectionOK
<1>b. cs.pc # "idle" => ~Booting
  BY DEF OwnerInv, BootIsAlone
<1>o. /\ cs.pc \in Preparing => execs[cs.exec].status = "absent"
      /\ cs.pc \in Launching => execs[cs.exec].status = "running" /\ monitor[cs.exec] = "none"
  BY DEF OwnerInv, AttemptHasNoRow, LaunchOwnsRow
<1>1. CASE Peek
  <2>1. cs'.pc \in {"release", "gate"}
    BY <1>1, <1>t DEF Peek, At, TypeOK, Section
  <2> QED
    BY <1>1, <1>b, <2>1, SectionStep DEF Peek, At, durable, calls
<1>2. CASE Gate
  <2>1. cs'.pc \in {"release", "idle"}
    BY <1>2, <1>t, GotoPc, ReturnPc DEF Gate, Pc
  <2> QED
    BY <1>2, <1>b, <2>1, SectionStep DEF Gate, At, calls
<1>3. CASE ReleaseLeftover
  <2>1. cs'.pc = "claim"
    BY <1>3, <1>t, GotoPc DEF ReleaseLeftover, Pc
  <2> QED
    BY <1>3, <1>b, <2>1, SectionStep DEF ReleaseLeftover, At, calls
<1>4. CASE Claim
  <2> DEFINE f == Least(FreshExecs)
             h == Least(ClaimBatch(cmds, cs.session))
  <2>1. FreshExecs # {} => f \in FreshExecs
    BY LeastExec DEF FreshExecs
  <2> HIDE DEF f, h
  <2>2. \/ Return("none")
        \/ /\ f \in FreshExecs
           /\ cs' = [cs EXCEPT !.pc = "regate", !.exec = f, !.head = h,
                               !.batch = ClaimBatch(cmds, cs.session)]
    BY <1>4, <2>1 DEF Claim, f, h
  <2>3. cs'.pc \in {"idle", "regate"} /\ (cs'.pc = "regate" => cs'.exec \in FreshExecs)
    BY <1>t, <2>2, ReturnPc DEF TypeOK, Section
  <2>4. cs'.pc = "regate" => execs[cs'.exec].status = "absent"
    BY <2>3 DEF FreshExecs
  <2> QED
    BY <1>4, <1>b, <2>3, <2>4, SectionStep DEF Claim, At, calls
<1>5. CASE Regate
  <2>1. cs'.pc \in {"undo", "admit", "book"} /\ cs'.exec = cs.exec
    <3>1. \/ Goto("undo") \/ Goto("admit") \/ Goto("book")
      BY <1>5 DEF Regate
    <3> QED
      BY <1>t, <3>1, GotoPc DEF Pc
  <2> QED
    BY <1>5, <1>b, <1>o, <2>1, SectionStep DEF Regate, At, calls
<1>6. CASE Book
  <2>1. cs'.pc = "admit" /\ cs'.exec = cs.exec
    BY <1>6, <1>t, GotoPc DEF Book, Pc
  <2> QED
    BY <1>6, <1>b, <1>o, <2>1, SectionStep DEF Book, At, calls
<1>7. CASE Admit
  <2>1. cs'.pc \in {"abort", "undo", "create"} /\ cs'.exec = cs.exec
    <3>1. \/ Goto("abort") \/ Goto("undo") \/ Goto("create")
      BY <1>7 DEF Admit
    <3> QED
      BY <1>t, <3>1, GotoPc DEF Pc
  <2> QED
    BY <1>7, <1>b, <1>o, <2>1, SectionStep DEF Admit, At, durable, calls
<1>8. CASE Undo
  <2>1. cs'.pc = "idle"
    BY <1>8, <1>t, ReturnPc DEF Undo
  <2> QED
    BY <1>8, <1>b, <2>1, SectionStep DEF Undo, At, calls
<1>9. CASE CreateRow
  <2>f. UNCHANGED <<monitor, stops, boot>>
    BY <1>9 DEF CreateRow, At, calls
  <2>1. CASE execs' = Create(execs, cs.exec, cs.session, cs.batch, cs.claim) /\ Goto("bind")
    <3>1. cs'.pc = "bind" /\ cs'.exec = cs.exec
      BY <1>t, <2>1, GotoPc DEF Pc
    <3>2. \A e \in Execs : execs'[e].status = IF e = cs.exec THEN "running" ELSE execs[e].status
      BY <1>9, <1>s, <1>t, <2>1, StatusOf DEF CreateRow, At
    <3>3. execs[cs.exec].status = "absent" /\ cs.exec \in Execs
      BY <1>9, <1>s, <1>o DEF CreateRow, At
    <3>4. \A r \in stops : r.exec \in Execs /\ r.exec # cs.exec
      BY <1>t, <3>3 DEF OwnerInv, StopHasRow, TypeOK, Stop
    <3>5. monitor[cs.exec] = "none"
      BY <3>3 DEF OwnerInv, MonitorHasRow
    <3>6. LiveChildHasRunningRow' /\ MonitorHasRow'
      BY <2>f, <3>2, <3>3, <3>5 DEF OwnerInv, LiveChildHasRunningRow, MonitorHasRow
    <3>7. StopHasRow' /\ OrphanIsUnowned'
      BY <2>f, <3>1, <3>2, <3>4 DEF OwnerInv, StopHasRow, OrphanIsUnowned
    <3>8. AttemptHasNoRow' /\ LaunchOwnsRow'
      BY <2>f, <3>1, <3>2, <3>3, <3>5 DEF AttemptHasNoRow, LaunchOwnsRow
    <3>9. BootIsAlone'
      BY <1>9, <1>b, <2>f DEF CreateRow, At, BootIsAlone, Booting
    <3> QED
      BY <3>6, <3>7, <3>8, <3>9 DEF OwnerInv
  <2>2. CASE Fail /\ UNCHANGED execs
    <3>1. cs'.pc \in {"idle", "abort"}
      BY <1>t, <2>2, FailPc
    <3> QED
      BY <1>9, <1>b, <2>f, <2>2, <3>1, SectionStep DEF CreateRow, At
  <2> QED
    BY <1>9, <2>1, <2>2 DEF CreateRow
<1>10. CASE BindBatch
  <2>1. cs'.pc \in {"bindfail", "spawn"} /\ cs'.exec = cs.exec
    <3>1. \/ Goto("bindfail") \/ Goto("spawn")
      BY <1>10 DEF BindBatch
    <3> QED
      BY <1>t, <3>1, GotoPc DEF Pc
  <2> QED
    BY <1>10, <1>b, <2>1, SectionStep DEF BindBatch, At, calls
<1>e. ASSUME cs.pc \in Launching, UNCHANGED <<monitor, stops, boot>>,
             \A e \in Execs \ {cs.exec} : execs'[e].status = execs[e].status,
             execs'[cs.exec].status # "absent",
             \/ cs'.pc = "abort"
             \/ cs'.pc = "spawn" /\ cs'.exec = cs.exec /\ execs'[cs.exec].status = "running"
      PROVE  OwnerInv'
  <2>0. cs.exec \in Execs /\ monitor[cs.exec] = "none"
    BY <1>e, <1>s, <1>o
  <2>1. LiveChildHasRunningRow' /\ MonitorHasRow'
    BY <1>e, <2>0 DEF OwnerInv, LiveChildHasRunningRow, MonitorHasRow
  <2>2. \A r \in stops : r.exec \in Execs
    BY <1>t DEF TypeOK, Stop
  <2>3. StopHasRow'
    BY <1>e, <2>0, <2>2 DEF OwnerInv, StopHasRow
  <2>4. OrphanIsUnowned'
    BY <1>e DEF OwnerInv, OrphanIsUnowned
  <2>5. AttemptHasNoRow' /\ LaunchOwnsRow'
    BY <1>e, <2>0 DEF AttemptHasNoRow, LaunchOwnsRow
  <2>6. BootIsAlone'
    BY <1>e, <1>b DEF BootIsAlone, Booting
  <2> QED
    BY <2>1, <2>3, <2>4, <2>5, <2>6 DEF OwnerInv
<1>11. CASE BindDirect
  <2>1. cs'.pc = "spawn" /\ cs'.exec = cs.exec
    BY <1>11, <1>t, GotoPc DEF BindDirect, Pc
  <2>2. execs' = [execs EXCEPT ![cs.exec].prompt = {Least(Free(cmds))}]
    BY <1>11 DEF BindDirect
  <2>3. \A e \in Execs : execs'[e].status = execs[e].status
    BY <1>t, <2>2 DEF ExecTable, ExecRow
  <2> QED
    BY <1>11, <1>e, <1>s, <1>o, <2>1, <2>3 DEF BindDirect, At, calls
<1>12. CASE BindFailed
  <2>1. cs'.pc = "abort"
    BY <1>12, <1>t, GotoPc DEF BindFailed, Pc
  <2>2. \A e \in Execs : execs'[e].status = IF e = cs.exec THEN "failed" ELSE execs[e].status
    BY <1>12, <1>s, <1>t, StatusOf DEF BindFailed, At
  <2> QED
    BY <1>12, <1>e, <1>s, <2>1, <2>2 DEF BindFailed, At, calls
<1>13. CASE SpawnChild
  <2>0. cs.exec \in Execs /\ execs[cs.exec].status = "running"
    BY <1>13, <1>s, <1>o DEF SpawnChild
  <2>1. cs'.pc = "idle"
    BY <1>13, <1>t, ReturnPc DEF SpawnChild
  <2>2. UNCHANGED <<execs, stops, boot>>
    BY <1>13 DEF SpawnChild, durable, calls
  <2>3. \A e \in Execs : monitor'[e] = IF e = cs.exec THEN "run" ELSE monitor[e]
    BY <1>13, <1>t DEF SpawnChild, TypeOK
  <2>4. LiveChildHasRunningRow' /\ MonitorHasRow' /\ StopHasRow'
    BY <2>0, <2>2, <2>3 DEF OwnerInv, LiveChildHasRunningRow, MonitorHasRow, StopHasRow
  <2>5. \A r \in stops : r.exec \in Execs
    BY <1>t DEF TypeOK, Stop
  <2>6. OrphanIsUnowned'
    BY <1>13, <2>1, <2>2, <2>3, <2>5 DEF SpawnChild, OwnerInv, OrphanIsUnowned
  <2>7. AttemptHasNoRow' /\ LaunchOwnsRow' /\ BootIsAlone'
    BY <1>13, <1>b, <2>1, <2>2 DEF SpawnChild, AttemptHasNoRow, LaunchOwnsRow, BootIsAlone, Booting
  <2> QED
    BY <2>4, <2>6, <2>7 DEF OwnerInv
<1>14. CASE SpawnFails
  <2>1. cs'.pc \in {"failcas", "idle", "abort"} /\ (cs'.pc = "failcas" => cs'.exec = cs.exec)
    <3>1. Goto("failcas") \/ Fail
      BY <1>14 DEF SpawnFails
    <3> QED
      BY <1>t, <3>1, GotoPc, FailPc DEF Pc
  <2> QED
    BY <1>14, <1>b, <2>1, SectionStep DEF SpawnFails, At, durable, calls
<1>15. CASE FailAttempt
  <2>1. cs'.pc = "abort"
    BY <1>15, <1>t, GotoPc DEF FailAttempt, Pc
  <2>2. \A e \in Execs : execs'[e].status = IF e = cs.exec THEN "failed" ELSE execs[e].status
    BY <1>15, <1>s, <1>t, <1>o, StatusOf DEF FailAttempt, At
  <2> QED
    BY <1>15, <1>e, <1>s, <2>1, <2>2 DEF FailAttempt, At, calls
<1>16. CASE Abort
  <2>1. cs'.pc = "idle"
    BY <1>16, <1>t, ReturnPc DEF Abort
  <2> QED
    BY <1>16, <1>b, <2>1, SectionStep DEF Abort, At, calls
<1> QED
  BY <1>1, <1>2, <1>3, <1>4, <1>5, <1>6, <1>7, <1>8, <1>9, <1>10, <1>11, <1>12,
     <1>13, <1>14, <1>15, <1>16 DEF Launch

(* The callers of the dispatcher: a call takes the lock when it is free.    *)
LEMMA CallerOwner ==
  ASSUME TypeInv, OwnerInv,
         \/ \E s \in Sessions : StartDirect(s) \/ DispatchRequest(s)
         \/ \E w \in Sweepers : SweepNext(w) \/ SweepCheck(w)
  PROVE  OwnerInv'
<1> USE DEF Preparing, Launching
<1>b. /\ \A s : s \in requests => ~Booting
      /\ \A w \in Sweepers : sweep[w].at # "off" => ~Booting
  BY DEF OwnerInv, BootIsAlone
<1>1. ASSUME NEW s, NEW by, BeginDispatch(s, by) PROVE cs'.pc \in {"idle", "peek"}
  BY <1>1 DEF BeginDispatch, Section0, Idle
<1>2. ASSUME NEW s \in Sessions, StartDirect(s) PROVE OwnerInv'
  <2> DEFINE f == Least(FreshExecs)
  <2>1. f \in FreshExecs
    BY <1>2, LeastExec DEF StartDirect, LockFree, FreshExecs
  <2>2. execs[f].status = "absent"
    BY <2>1 DEF FreshExecs
  <2> HIDE DEF f
  <2>3. cs' = [Section0(s, Api) EXCEPT !.pc = "create", !.exec = f]
    BY <1>2 DEF StartDirect, f
  <2>4. cs'.pc = "create" /\ cs'.exec = f
    BY <2>3 DEF Section0, Idle
  <2>5. ~Booting /\ UNCHANGED <<execs, monitor, stops, boot>>
    BY <1>2 DEF StartDirect, Booting, durable, calls
  <2> QED
    BY <2>2, <2>4, <2>5, SectionStep
<1>3. ASSUME NEW s \in Sessions, DispatchRequest(s) PROVE OwnerInv'
  BY <1>1, <1>3, <1>b, SectionStep DEF DispatchRequest, durable
<1>4. ASSUME NEW w \in Sweepers, SweepNext(w) PROVE OwnerInv'
  <2>1. cs'.pc \in {"idle", "peek"}
    BY <1>4 DEF SweepNext, BeginDispatch, Section0, Idle
  <2> QED
    BY <1>4, <1>b, <2>1, SectionStep DEF SweepNext, durable, calls
<1>5. ASSUME NEW w \in Sweepers, SweepCheck(w) PROVE OwnerInv'
  <2>1. ~Booting /\ UNCHANGED <<execs, monitor, stops, boot, cs>>
    BY <1>5, <1>b DEF SweepCheck, durable, calls
  <2> QED
    BY <2>1, SectionStep DEF OwnerInv, AttemptHasNoRow
<1> QED
  BY <1>2, <1>3, <1>4, <1>5

(* A monitor moves on: its entry stays one of an inserted row, and only the *)
(* publication, which leaves "exited", ends the row.                        *)
LEMMA MonitorMoves ==
  ASSUME TypeInv, OwnerInv, NEW e \in Execs, NEW to, MonitorStep(e, monitor[e], to),
         monitor[e] # "none", UNCHANGED <<cs, stops, boot>>,
         to \in {"run", "exited"} => execs'[e].status = "running",
         execs'[e].status # "absent",
         \A f \in Execs \ {e} : execs'[f].status = execs[f].status
  PROVE  OwnerInv'
<1>t. TypeOK
  BY DEF TypeInv
<1>1. \A f \in Execs : monitor'[f] = IF f = e THEN to ELSE monitor[f]
  BY <1>t DEF MonitorStep, TypeOK
<1>2. \A r \in stops : r.exec \in Execs
  BY <1>t DEF TypeOK, Stop
<1>3. /\ cs.pc \in Preparing \cup Launching => cs.exec \in Execs
      /\ cs.pc \in Preparing => cs.exec # e
      /\ cs.pc \in Launching => cs.exec # e
  BY DEF TypeInv, SectionOK, OwnerInv, AttemptHasNoRow, LaunchOwnsRow, MonitorHasRow
<1>4. LiveChildHasRunningRow' /\ MonitorHasRow'
  BY <1>1 DEF OwnerInv, LiveChildHasRunningRow, MonitorHasRow
<1>5. AttemptHasNoRow' /\ LaunchOwnsRow'
  BY <1>1, <1>3 DEF OwnerInv, AttemptHasNoRow, LaunchOwnsRow
<1>6. StopHasRow' /\ OrphanIsUnowned'
  BY <1>1, <1>2 DEF OwnerInv, StopHasRow, OrphanIsUnowned
<1>7. BootIsAlone'
  BY DEF OwnerInv, BootIsAlone, Booting
<1> QED
  BY <1>4, <1>5, <1>6, <1>7 DEF OwnerInv

(* spawn_exit_monitor keeps the ownership of slots.                         *)
LEMMA MonitorOwner ==
  ASSUME TypeInv, OwnerInv, NEW e \in Execs, Monitor(e) \/ ChildExit(e)
  PROVE  OwnerInv'
<1>t. TypeOK /\ execs \in ExecTable
  BY DEF TypeInv, TypeOK, ExecTable
<1>o. /\ monitor[e] # "none" => execs[e].status # "absent" /\ ~Booting
      /\ monitor[e] \in {"run", "exited"} => execs[e].status = "running"
  BY DEF OwnerInv, MonitorHasRow, LiveChildHasRunningRow, BootIsAlone
<1>1. CASE ChildExit(e)
  BY <1>1, <1>o, MonitorMoves DEF ChildExit, MonitorStep, durable, calls
<1>2. CASE PublishCompletion(e)
  <2>1. PICK st \in Outcomes(e) : execs' = CompleteRunningAttempt(execs, e, st)
    BY <1>2 DEF PublishCompletion
  <2>2. st # "absent"
    BY DEF Outcomes
  <2>3. \A f \in Execs : execs'[f].status
                           = IF f = e /\ execs[e].status = "running" THEN st ELSE execs[f].status
    BY <1>t, <2>1, StatusOf
  <2>4. monitor[e] = "exited" /\ execs[e].status = "running"
    BY <1>2, <1>o DEF PublishCompletion, MonitorStep
  <2>5. MonitorStep(e, monitor[e], "finish") /\ UNCHANGED <<cs, stops, boot>>
    BY <1>2, <2>4 DEF PublishCompletion, MonitorStep, calls
  <2> QED
    BY <2>2, <2>3, <2>4, <2>5, MonitorMoves
<1>3. CASE PublishFails(e)
  BY <1>3, <1>o, MonitorMoves DEF PublishFails, MonitorStep, durable, calls
<1>4. CASE FinishCommands(e)
  BY <1>4, <1>o, MonitorMoves DEF FinishCommands, MonitorStep, calls
<1>5. CASE SweepQueue(e)
  <2>1. ~Booting /\ UNCHANGED <<execs, monitor, stops, boot, cs>>
    BY <1>5, <1>o DEF SweepQueue, durable, calls
  <2> QED
    BY <2>1, SectionStep DEF OwnerInv, AttemptHasNoRow
<1>6. CASE SweepDone(e)
  BY <1>6, <1>o, MonitorMoves DEF SweepDone, MonitorStep, durable, calls
<1>7. CASE RemoveEntry(e)
  BY <1>7, <1>o, MonitorMoves DEF RemoveEntry, MonitorStep, durable, calls
<1> QED
  BY <1>1, <1>2, <1>3, <1>4, <1>5, <1>6, <1>7 DEF Monitor

(* A stop call appears, moves or ends.                                      *)
LEMMA StopMoves ==
  ASSUME TypeInv, OwnerInv, ~Booting, UNCHANGED <<cs, monitor, boot>>,
         \A e \in Execs : monitor[e] # "none" \/ (cs.pc \in Preparing \cup Launching /\ cs.exec = e)
           => execs'[e].status = execs[e].status,
         \A e \in Execs : execs[e].status # "absent" => execs'[e].status # "absent",
         \A r \in stops' : r.exec \in Execs /\ execs[r.exec].status # "absent",
         \A r \in stops' : r.at \in {"orphan", "requeue"} =>
           monitor[r.exec] = "none" /\ (cs.pc \in Launching => cs.exec # r.exec)
  PROVE  OwnerInv'
<1>1. cs.pc \in Preparing \cup Launching => cs.exec \in Execs
  BY DEF TypeInv, SectionOK
<1>2. LiveChildHasRunningRow'
  BY DEF OwnerInv, LiveChildHasRunningRow
<1>3. MonitorHasRow'
  BY DEF OwnerInv, MonitorHasRow
<1>4. AttemptHasNoRow' /\ LaunchOwnsRow'
  BY <1>1 DEF OwnerInv, AttemptHasNoRow, LaunchOwnsRow
<1>5. StopHasRow' /\ OrphanIsUnowned' /\ BootIsAlone'
  BY DEF StopHasRow, OrphanIsUnowned, BootIsAlone, Booting
<1> QED
  BY <1>2, <1>3, <1>4, <1>5 DEF OwnerInv

(* So does stop_execution: it completes a row only when nobody owns it.     *)
LEMMA StopOwner ==
  ASSUME TypeInv, OwnerInv,
         \/ \E r \in stops : StopCall(r)
         \/ \E s \in Sessions : SteerInterrupt(s)
         \/ \E e \in Execs : StopExecution(e)
  PROVE  OwnerInv'
<1>t. TypeOK /\ execs \in ExecTable /\ stops \subseteq Stop
  BY DEF TypeInv, TypeOK, ExecTable
<1>s. \A r \in stops : r.exec \in Execs /\ execs[r.exec].status # "absent" /\ ~Booting
  BY <1>t DEF OwnerInv, StopHasRow, BootIsAlone, Stop
<1>o. \A r \in stops : r.at \in {"orphan", "requeue"} =>
        monitor[r.exec] = "none" /\ (cs.pc \in Launching => cs.exec # r.exec)
  BY DEF OwnerInv, OrphanIsUnowned
<1>1. ASSUME NEW r \in stops, StopCall(r) PROVE OwnerInv'
  <2>m. ASSUME NEW at, StopStep(r, at)
        PROVE  \A q \in stops' : q \in stops \/ (q.exec = r.exec /\ q.at = at)
    BY <1>t, <2>m DEF StopStep, Stop
  <2>1. CASE StopFound(r)
    <3>1. \A q \in stops' : q \in stops \/ (q.exec = r.exec /\ q.at = "wait")
      BY <2>1, <2>m DEF StopFound
    <3>2. UNCHANGED <<execs, cs, monitor, boot>>
      BY <2>1 DEF StopFound, durable
    <3> QED
      BY <1>s, <1>o, <3>1, <3>2, StopMoves
  <2>2. CASE StopMissing(r)
    <3>1. \A q \in stops' : q \in stops \/ (q.exec = r.exec /\ q.at = "orphan")
      BY <2>2, <2>m DEF StopMissing
    <3>2. /\ UNCHANGED <<execs, cs, monitor, boot>>
          /\ monitor[r.exec] = "none" /\ cs.pc \notin Launching
      BY <2>2 DEF StopMissing, durable, Launching
    <3> QED
      BY <1>s, <1>o, <3>1, <3>2, StopMoves
  <2>3. CASE StopKill(r)
    <3>1. monitor[r.exec] = "run" => execs[r.exec].status = "running"
      BY <1>s DEF OwnerInv, LiveChildHasRunningRow
    <3> QED
      BY <2>3, <1>s, <3>1, MonitorMoves DEF StopKill, MonitorStep, durable, calls
  <2>4. CASE StopAwaited(r)
    <3>1. stops' \subseteq stops /\ UNCHANGED <<execs, cs, monitor, boot>>
      BY <2>4 DEF StopAwaited, StopReturns, durable
    <3> QED
      BY <1>s, <1>o, <3>1, StopMoves
  <2>5. CASE OrphanComplete(r)
    <3>1. \A q \in stops' : q \in stops \/ (q.exec = r.exec /\ q.at = "requeue")
      BY <2>5, <2>m DEF OrphanComplete
    <3>2. monitor[r.exec] = "none" /\ (cs.pc \in Launching => cs.exec # r.exec)
      BY <2>5, <1>o DEF OrphanComplete
    <3>3. \A e \in Execs : execs'[e].status
             = IF e = r.exec /\ execs[e].status = "running" THEN "killed" ELSE execs[e].status
      BY <2>5, <1>s, <1>t, StatusOf DEF OrphanComplete
    <3>4. cs.pc \in Preparing => execs[cs.exec].status = "absent"
      BY DEF OwnerInv, AttemptHasNoRow
    <3>5. \A e \in Execs : monitor[e] # "none" \/ (cs.pc \in Preparing \cup Launching /\ cs.exec = e)
            => execs'[e].status = execs[e].status
      BY <1>s, <3>2, <3>3, <3>4
    <3>6. UNCHANGED <<cs, monitor, boot>>
      BY <2>5 DEF OrphanComplete
    <3>7. \A q \in stops' : q.exec \in Execs /\ execs[q.exec].status # "absent"
      BY <1>s, <3>1
    <3>8. \A q \in stops' : q.at \in {"orphan", "requeue"} =>
            monitor[q.exec] = "none" /\ (cs.pc \in Launching => cs.exec # q.exec)
      BY <1>o, <3>1, <3>2
    <3> QED
      BY <1>s, <3>3, <3>5, <3>6, <3>7, <3>8, StopMoves
  <2>6. CASE OrphanRequeue(r)
    <3>1. stops' \subseteq stops /\ UNCHANGED <<execs, cs, monitor, boot>>
      BY <2>6 DEF OrphanRequeue, StopReturns
    <3> QED
      BY <1>s, <1>o, <3>1, StopMoves
  <2> QED
    BY <1>1, <2>1, <2>2, <2>3, <2>4, <2>5, <2>6 DEF StopCall
<1>2. ASSUME NEW s \in Sessions, SteerInterrupt(s) PROVE OwnerInv'
  <2>1. ~Booting /\ UNCHANGED <<execs, cs, monitor, boot>>
    BY <1>2 DEF SteerInterrupt, OwnerInv, BootIsAlone, durable
  <2>2. \A q \in stops' : q \in stops \/ (q.exec \in RunningExecs(execs) /\ q.at = "lookup")
    BY <1>2 DEF SteerInterrupt
  <2>3. \A q \in stops' : q.exec \in Execs /\ execs[q.exec].status # "absent"
    BY <1>s, <2>2 DEF RunningExecs
  <2> QED
    BY <1>o, <2>1, <2>2, <2>3, StopMoves
<1>3. ASSUME NEW e \in Execs, StopExecution(e) PROVE OwnerInv'
  <2>1. ~Booting /\ UNCHANGED <<execs, cs, monitor, boot>> /\ execs[e].status # "absent"
    BY <1>3 DEF StopExecution, Serving, Booting, durable
  <2>2. \A q \in stops' : q \in stops \/ (q.exec = e /\ q.at = "lookup")
    BY <1>3 DEF StopExecution
  <2> QED
    BY <1>s, <1>o, <2>1, <2>2, StopMoves
<1> QED
  BY <1>1, <1>2, <1>3

(* The routes that touch neither rows of execution_processes nor memory.    *)
LEMMA RouteOwner ==
  ASSUME OwnerInv,
         \/ \E s \in Sessions, k \in Keys \cup {None}, cfg \in Configs :
              \/ FollowUp(s, k, cfg)
              \/ FollowUpDeferred(s, k, cfg)
              \/ \E then \in {"dispatch", "defer"} : Steer(s, k, cfg, then)
         \/ \E c \in Commands :
              CancelCommand(c) \/ \E approved \in BOOLEAN : RespondApproval(c, approved)
         \/ \E s \in Sessions : CancelQueued(s) \/ DispatchCommands(s)
         \/ \E e \in Execs : RequeueCommands(e)
  PROVE  OwnerInv' /\ UNCHANGED <<execs, cs, boot>> /\ ~Booting
<1>1. ~Booting /\ UNCHANGED <<execs, monitor, stops, boot, cs>>
  BY DEF FollowUp, FollowUpDeferred, Steer, CancelCommand, RespondApproval, CancelQueued,
         DispatchCommands, RequeueCommands, Serving, Booting, durable, calls
<1> QED
  BY <1>1, SectionStep DEF OwnerInv, AttemptHasNoRow

(* A restart forgets every owner; the boot sequence works alone.            *)
LEMMA BootOwner ==
  ASSUME TypeInv, OwnerInv, Restart \/ BootSequence
  PROVE  OwnerInv'
<1> USE DEF Preparing, Launching
<1>1. CASE Restart
  <2>1. /\ cs'.pc = "idle" /\ stops' = {} /\ requests' = {}
        /\ \A e \in Execs : monitor'[e] = "none"
        /\ \A w \in Sweepers : sweep'[w].at = "off"
        /\ \A s \in Sessions : steer'[s] = "off"
    BY <1>1 DEF Restart, Idle, NoSweep
  <2> QED
    BY <2>1 DEF OwnerInv, LiveChildHasRunningRow, MonitorHasRow, AttemptHasNoRow,
                LaunchOwnsRow, StopHasRow, OrphanIsUnowned, BootIsAlone
<1>a. BootIsAlone
  BY DEF OwnerInv
<1>2. ASSUME Booting, UNCHANGED <<cs, monitor, requests, stops, steer>>,
             sweep' = sweep \/ boot'.at = "sweep"
      PROVE  OwnerInv'
  BY <1>2, <1>a DEF OwnerInv, LiveChildHasRunningRow, MonitorHasRow, AttemptHasNoRow,
     LaunchOwnsRow, StopHasRow, OrphanIsUnowned, BootIsAlone, Booting
<1>3. CASE CleanupOrphan \/ ReleaseOrphan \/ CleanupDone \/ Terminalize
           \/ RequeueInherited \/ BootSweep
  <2>1. Booting /\ UNCHANGED <<cs, monitor, calls>> /\ (sweep' = sweep \/ boot'.at = "sweep")
    BY <1>3 DEF CleanupOrphan, ReleaseOrphan, CleanupDone, Terminalize, RequeueInherited,
       BootSweep, BootStep, Booting
  <2> QED
    BY <1>2, <2>1 DEF calls
<1>4. CASE BootDone
  <2>1. boot.at = "sweep" /\ boot'.at = "up" /\ UNCHANGED <<execs, cs, monitor, stops>>
    BY <1>4 DEF BootDone, BootStep, calls
  <2> QED
    BY <2>1 DEF OwnerInv, LiveChildHasRunningRow, MonitorHasRow, AttemptHasNoRow,
       LaunchOwnsRow, StopHasRow, OrphanIsUnowned, BootIsAlone, Booting
<1> QED
  BY <1>1, <1>3, <1>4 DEF BootSequence

(* OwnerInv is inductive, given the types.                                  *)
LEMMA NextOwner == TypeInv /\ OwnerInv /\ [Next]_vars => OwnerInv'
<1> SUFFICES ASSUME TypeInv, OwnerInv, [Next]_vars PROVE OwnerInv'
  OBVIOUS
<1>1. CASE UNCHANGED vars
  BY <1>1 DEF vars, OwnerInv, LiveChildHasRunningRow, MonitorHasRow, AttemptHasNoRow,
     LaunchOwnsRow, StopHasRow, OrphanIsUnowned, BootIsAlone, Booting
<1>2. CASE Next
  <2>1. CASE ClientStep
    BY <2>1, RouteOwner, CallerOwner, StopOwner DEF ClientStep
  <2>2. CASE ServerStep
    BY <2>2, LaunchOwner, CallerOwner, StopOwner, MonitorOwner, BootOwner DEF ServerStep
  <2> QED
    BY <1>2, <2>1, <2>2, MonitorOwner, BootOwner DEF Next
<1> QED
  BY <1>1, <1>2

(* No row, no owner.                                                        *)
LEMMA InitOwner == Init => OwnerInv
  BY DEF Init, Idle, NoSweep, OwnerInv, LiveChildHasRunningRow, MonitorHasRow, AttemptHasNoRow,
     LaunchOwnsRow, StopHasRow, OrphanIsUnowned, BootIsAlone, Booting, Preparing, Launching

(* Both hold in every reachable state.                                      *)
LEMMA AlwaysOwner == Spec => [](TypeInv /\ OwnerInv)
  BY InitType, NextType, InitOwner, NextOwner, PTL DEF Spec

(* No stop, duplicate completion or restart ends the row of a child of this *)
(* server before its monitor has published how it ended, for any number of  *)
(* sessions, executions, stop calls and crashes.                            *)
THEOREM LiveChildTracked == Spec => []LiveChildHasRunningRow
  BY AlwaysOwner, PTL DEF OwnerInv

---------------------------------------------------------------------------
(* Only the insert of the launch adds a running row.                        *)
LEMMA OnlyCreateAdds ==
  ASSUME TypeInv, Next, ~CreateRow
  PROVE  RunningExecs(execs') \subseteq RunningExecs(execs)
<1>t. TypeOK /\ execs \in ExecTable
  BY DEF TypeInv, TypeOK, ExecTable
<1>0. ASSUME NEW e \in Execs, NEW st \in Terminal,
             execs' \in {UpdateCompletion(execs, e, st), CompleteRunningAttempt(execs, e, st)}
      PROVE  RunningExecs(execs') \subseteq RunningExecs(execs)
  <2>1. \A f \in Execs : execs'[f].status \in {st, execs[f].status}
    BY <1>0, <1>t, StatusOf
  <2>2. st # "running"
    BY DEF Terminal
  <2>3. \A f \in Execs : execs'[f].status = "running" => f = e \/ execs[f].status = "running"
    BY <1>0, <1>t, <2>2, StatusOf
  <2>4. execs'[e].status = "running" => execs[e].status = "running"
    BY <2>1, <2>2
  <2> QED
    BY <2>3, <2>4 DEF RunningExecs
<1>1. CASE ClientStep
  <2>1. UNCHANGED execs
    BY <1>1 DEF ClientStep, FollowUp, FollowUpDeferred, Steer, CancelCommand, RespondApproval,
       CancelQueued, DispatchCommands, RequeueCommands, StartDirect, StopExecution, durable
  <2> QED
    BY <2>1
<1>2. CASE ServerStep
  <2>1. CASE Launch
    <3>1. CASE BindDirect
      <4>1. execs' = [execs EXCEPT ![cs.exec].prompt = {Least(Free(cmds))}]
        BY <3>1 DEF BindDirect
      <4>2. \A f \in Execs : execs'[f].status = execs[f].status
        BY <1>t, <4>1 DEF ExecTable, ExecRow
      <4> QED
        BY <4>2 DEF RunningExecs
    <3>2. CASE BindFailed \/ FailAttempt
      <4>1. cs.exec \in Execs
        BY <3>2 DEF BindFailed, FailAttempt, At, TypeInv, SectionOK, Launching
      <4> QED
        BY <1>0, <3>2, <4>1 DEF BindFailed, FailAttempt, Terminal
    <3>3. CASE UNCHANGED execs
      BY <3>3
    <3> QED
      BY <2>1, <3>1, <3>2, <3>3 DEF Launch, Peek, Gate, ReleaseLeftover, Claim, Regate, Book,
         Admit, Undo, BindBatch, SpawnChild, SpawnFails, Abort, durable
  <2>2. CASE \E e \in Execs : Monitor(e)
    <3>1. PICK e \in Execs : Monitor(e)
      BY <2>2
    <3>2. CASE PublishCompletion(e)
      <4>1. PICK st \in Outcomes(e) : execs' = CompleteRunningAttempt(execs, e, st)
        BY <3>2 DEF PublishCompletion
      <4>2. st \in Terminal
        BY DEF Outcomes, Terminal
      <4> QED
        BY <1>0, <4>1, <4>2
    <3>3. CASE UNCHANGED execs
      BY <3>3
    <3> QED
      BY <3>1, <3>2, <3>3 DEF Monitor, PublishFails, FinishCommands, SweepQueue,
         SweepDone, RemoveEntry, durable
  <2>3. CASE \E r \in stops : StopCall(r)
    <3>1. PICK r \in stops : StopCall(r)
      BY <2>3
    <3>2. CASE OrphanComplete(r)
      <4>1. r.exec \in Execs
        BY <1>t DEF TypeOK, Stop
      <4> QED
        BY <1>0, <3>2, <4>1 DEF OrphanComplete, Terminal
    <3>3. CASE UNCHANGED execs
      BY <3>3
    <3> QED
      BY <3>1, <3>2, <3>3 DEF StopCall, StopFound, StopMissing, StopKill, StopAwaited,
         OrphanRequeue, durable
  <2>4. CASE BootSequence
    <3>1. CASE CleanupOrphan \/ Terminalize
      <4>1. Least(boot.todo) \in Execs
        BY <1>t, <3>1, LeastExec DEF CleanupOrphan, Terminalize, TypeOK
      <4> QED
        BY <1>0, <3>1, <4>1 DEF CleanupOrphan, Terminalize, Terminal
    <3>2. CASE UNCHANGED execs
      BY <3>2
    <3> QED
      BY <2>4, <3>1, <3>2 DEF BootSequence, ReleaseOrphan, CleanupDone, RequeueInherited,
         BootSweep, BootDone
  <2>5. CASE UNCHANGED execs
    BY <2>5
  <2> QED
    BY <1>2, <2>1, <2>2, <2>3, <2>4, <2>5 DEF ServerStep, DispatchRequest, SteerInterrupt,
       SweepNext, SweepCheck, durable
<1>3. CASE (\E e \in Execs : ChildExit(e)) \/ Restart
  BY <1>3 DEF ChildExit, Restart, durable
<1> QED
  BY <1>1, <1>2, <1>3 DEF Next

(* The critical section reaches the insert only past an admission check.    *)
LEMMA CreateWasAdmitted ==
  ASSUME TypeInv, Next, cs'.pc = "create"
  PROVE  /\ ~CreateRow
         /\ cs.pc = "create" \/ (CountRunning(execs) < MaxRunningAgents /\ UNCHANGED execs)
<1>t. TypeOK
  BY DEF TypeInv
<1>n. CountRunning(execs) \in Nat /\ MaxRunningAgents \in Nat
  BY RunningFinite, QueueAssumption
<1>1. CASE Launch
  <2>1. CASE Admit
    <3>1. \/ Goto("abort")
          \/ Goto(IF CountRunning(execs) >= MaxRunningAgents THEN "undo" ELSE "create")
      BY <2>1 DEF Admit
    <3>2. ~(CountRunning(execs) >= MaxRunningAgents)
      BY <1>t, <3>1, GotoPc DEF Pc
    <3>3. ~CreateRow /\ UNCHANGED execs
      BY <2>1 DEF Admit, CreateRow, At, durable
    <3> QED
      BY <1>n, <3>2, <3>3
  <2>2. CASE CreateRow
    <3>1. Goto("bind") \/ Fail
      BY <2>2 DEF CreateRow
    <3> QED
      BY <1>t, <3>1, GotoPc, FailPc DEF Pc
  <2>3. CASE Peek \/ Gate \/ ReleaseLeftover \/ Claim
    <3>1. cs'.pc \in {"release", "gate", "claim", "regate", "idle"}
      BY <1>t, <2>3, GotoPc, ReturnPc DEF Peek, Gate, ReleaseLeftover, Claim, Pc, TypeOK, Section
    <3> QED
      BY <3>1
  <2>4. CASE Regate \/ Book \/ Undo \/ BindBatch \/ BindDirect \/ BindFailed
    <3>1. \/ Goto("undo") \/ Goto("admit") \/ Goto("book") \/ Goto("bindfail")
          \/ Goto("spawn") \/ Goto("abort") \/ Return("none")
      BY <2>4 DEF Regate, Book, Undo, BindBatch, BindDirect, BindFailed
    <3> QED
      BY <1>t, <3>1, GotoPc, ReturnPc DEF Pc
  <2>5. CASE SpawnChild \/ SpawnFails \/ FailAttempt \/ Abort
    <3>1. Return("some") \/ Return("err") \/ Goto("failcas") \/ Goto("abort") \/ Fail
      BY <2>5 DEF SpawnChild, SpawnFails, FailAttempt, Abort
    <3> QED
      BY <1>t, <3>1, GotoPc, ReturnPc, FailPc DEF Pc
  <2> QED
    BY <1>1, <2>1, <2>2, <2>3, <2>4, <2>5 DEF Launch
<1>2. CASE \E s \in Sessions : StartDirect(s)
  BY <1>2 DEF StartDirect, LockFree, CreateRow, At, durable
<1>3. CASE (\E s \in Sessions : DispatchRequest(s)) \/ (\E w \in Sweepers : SweepNext(w)) \/ Restart
  <2>1. ASSUME NEW s, NEW by, BeginDispatch(s, by) PROVE cs'.pc \in {"idle", "peek"}
    BY <2>1 DEF BeginDispatch, Section0, Idle
  <2>2. CASE \E s \in Sessions : DispatchRequest(s)
    BY <2>1, <2>2 DEF DispatchRequest
  <2>3. ASSUME NEW w \in Sweepers, SweepNext(w) PROVE cs'.pc \in {"idle", "peek"}
    BY <2>3 DEF SweepNext, BeginDispatch, Section0, Idle
  <2>4. CASE Restart
    BY <2>4 DEF Restart, Idle
  <2> QED
    BY <1>3, <2>2, <2>3, <2>4
<1>4. CASE UNCHANGED cs
  BY <1>t, <1>4, GotoPc, FailPc DEF CreateRow, At, Pc
<1>5. CASE ClientStep
  BY <1>2, <1>4, <1>5 DEF ClientStep, FollowUp, FollowUpDeferred, Steer, CancelCommand,
     RespondApproval, CancelQueued, DispatchCommands, RequeueCommands, StopExecution
<1>6. CASE ServerStep
  <2>1. CASE \E e \in Execs : Monitor(e)
    BY <1>4, <2>1 DEF Monitor, PublishCompletion, PublishFails, FinishCommands,
       SweepQueue, SweepDone, RemoveEntry
  <2>2. CASE \E r \in stops : StopCall(r)
    BY <1>4, <2>2 DEF StopCall, StopFound, StopMissing, StopKill, StopAwaited, OrphanComplete,
       OrphanRequeue
  <2>3. CASE BootSequence
    BY <1>4, <2>3 DEF BootSequence, CleanupOrphan, ReleaseOrphan, CleanupDone, Terminalize,
       RequeueInherited, BootSweep, BootDone, BootStep
  <2>4. CASE (\E s \in Sessions : SteerInterrupt(s)) \/ (\E w \in Sweepers : SweepCheck(w))
    BY <1>4, <2>4 DEF SteerInterrupt, SweepCheck
  <2> QED
    BY <1>1, <1>3, <1>6, <2>1, <2>2, <2>3, <2>4 DEF ServerStep
<1> QED
  BY <1>3, <1>4, <1>5, <1>6 DEF Next, ChildExit

CapacityInv == CapacityRespected /\ AdmittedHasSlot

(* Capacity is inductive with the slot that admission counted.              *)
LEMMA NextCapacity == TypeInv /\ CapacityInv /\ [Next]_vars => CapacityInv'
<1> SUFFICES ASSUME TypeInv, CapacityInv, [Next]_vars PROVE CapacityInv'
  OBVIOUS
<1> USE DEF CapacityInv
<1>n. /\ CountRunning(execs) \in Nat /\ CountRunning(execs') \in Nat
      /\ MaxRunningAgents \in Nat
  BY RunningFinite, QueueAssumption
<1>1. CASE UNCHANGED vars
  BY <1>1 DEF vars, CapacityRespected, AdmittedHasSlot
<1>2. CASE Next /\ CreateRow
  <2>1. CASE execs' = Create(execs, cs.exec, cs.session, cs.batch, cs.claim)
    <3>1. cs.exec \in Execs /\ execs \in ExecTable
      BY <1>2 DEF CreateRow, At, TypeInv, TypeOK, SectionOK, Preparing, ExecTable
    <3>2. RunningExecs(execs') \subseteq RunningExecs(execs) \cup {cs.exec}
      BY <2>1, <3>1, StatusOf DEF RunningExecs
    <3>3. CountRunning(execs') <= CountRunning(execs) + 1
      BY <3>2, CountCreate
    <3>4. CountRunning(execs) < MaxRunningAgents
      BY <1>2 DEF CreateRow, At, AdmittedHasSlot
    <3> QED
      BY <1>2, <1>n, <3>3, <3>4, CreateWasAdmitted DEF CapacityRespected, AdmittedHasSlot
  <2>2. CASE UNCHANGED execs
    BY <1>2, <2>2, CreateWasAdmitted DEF CapacityRespected, AdmittedHasSlot
  <2> QED
    BY <1>2, <2>1, <2>2 DEF CreateRow
<1>3. CASE Next /\ ~CreateRow
  <2>1. CountRunning(execs') <= CountRunning(execs)
    BY <1>3, OnlyCreateAdds, CountMonotone
  <2>2. cs'.pc = "create" => CountRunning(execs) < MaxRunningAgents
    BY <1>3, CreateWasAdmitted DEF AdmittedHasSlot
  <2> QED
    BY <1>n, <2>1, <2>2 DEF CapacityRespected, AdmittedHasSlot
<1> QED
  BY <1>1, <1>2, <1>3

(* The number of running coding agents never exceeds max_running_agents,    *)
(* however many routes, sweeps and direct starts compete for the slots and  *)
(* whatever fails on the way: the count that admits a launch is still valid *)
(* when its row is inserted.                                                *)
THEOREM CapacityIsRespected == Spec => []CapacityRespected
<1>1. Init => CapacityInv
  <2>1. ASSUME Init PROVE RunningExecs(execs) = {} /\ cs.pc = "idle"
    BY <2>1 DEF Init, NoExec, RunningExecs, Idle
  <2>2. ASSUME Init PROVE CountRunning(execs) = 0
    BY <2>1, <2>2, FS_EmptySet DEF CountRunning
  <2> QED
    BY <2>1, <2>2, QueueAssumption DEF CapacityInv, CapacityRespected, AdmittedHasSlot
<1>2. Spec => [](TypeInv /\ CapacityInv)
  BY <1>1, InitType, NextType, NextCapacity, PTL DEF Spec
<1> QED
  BY <1>2, PTL DEF CapacityInv

---------------------------------------------------------------------------
OwnedInv == RunningRowIsOwned /\ InheritedAreListed

(* While the server dispatches, a row that stays running keeps its owner or *)
(* passes from its launch to its monitor.                                   *)
LEMMA OwnedStep ==
  ASSUME OwnedInv, ~Booting, UNCHANGED boot,
         RunningExecs(execs') \subseteq RunningExecs(execs),
         \A e \in RunningExecs(execs') : monitor[e] \in {"run", "exited"} =>
           monitor'[e] \in {"run", "exited"},
         \A e \in RunningExecs(execs') : cs.exec = e /\ cs.pc \in Launching =>
           monitor'[e] = "run" \/ (cs'.exec = e /\ cs'.pc \in Launching)
  PROVE  OwnedInv'
<1>1. RunningRowIsOwned'
  BY DEF OwnedInv, RunningRowIsOwned, Booting, Launching
<1>2. InheritedAreListed'
  BY DEF InheritedAreListed, Booting
<1> QED
  BY <1>1, <1>2 DEF OwnedInv

(* A launch gives its row up only to a monitor or after completing it.      *)
LEMMA LaunchOwned ==
  ASSUME "turn" \notin Faults, TypeInv, OwnerInv, OwnedInv, Launch
  PROVE  OwnedInv'
<1> USE DEF Launching
<1>t. TypeOK /\ execs \in ExecTable
  BY DEF TypeInv, TypeOK, ExecTable
<1>b. cs.pc # "idle" => ~Booting
  BY DEF OwnerInv, BootIsAlone
<1>s. cs.pc \in Preparing \cup Launching => cs.exec \in Execs
  BY DEF TypeInv, SectionOK
<1>o. cs.pc \in Launching => execs[cs.exec].status = "running"
  BY DEF OwnerInv, LaunchOwnsRow
<1>n. Next
  BY DEF Next, ServerStep
<1>1. CASE Peek \/ Gate \/ ReleaseLeftover \/ Claim \/ Regate \/ Book \/ Admit \/ Undo \/ Abort
  <2>1. ~Booting /\ cs.pc \notin Launching /\ UNCHANGED <<execs, monitor, boot>>
    BY <1>1, <1>b DEF Peek, Gate, ReleaseLeftover, Claim, Regate, Book, Admit, Undo, Abort, At,
       durable
  <2> QED
    BY <2>1, OwnedStep
<1>2. CASE CreateRow
  <2>0. ~Booting /\ cs.exec \in Execs /\ cs.pc \notin Launching /\ UNCHANGED <<monitor, boot>>
    BY <1>2, <1>b, <1>s DEF CreateRow, At, Preparing
  <2>1. CASE execs' = Create(execs, cs.exec, cs.session, cs.batch, cs.claim) /\ Goto("bind")
    <3>1. cs'.pc = "bind" /\ cs'.exec = cs.exec
      BY <1>t, <2>1, GotoPc DEF Pc
    <3>2. RunningExecs(execs') \subseteq RunningExecs(execs) \cup {cs.exec}
      BY <1>t, <2>0, <2>1, StatusOf DEF RunningExecs
    <3> QED
      BY <2>0, <3>1, <3>2 DEF OwnedInv, RunningRowIsOwned, InheritedAreListed, Booting
  <2>2. CASE UNCHANGED execs
    BY <2>0, <2>2, OwnedStep
  <2> QED
    BY <1>2, <2>1, <2>2 DEF CreateRow
<1>3. CASE BindBatch \/ BindDirect
  <2>1. Goto("bindfail") \/ Goto("spawn")
    BY <1>3 DEF BindBatch, BindDirect
  <2>2. cs'.pc \in Launching /\ cs'.exec = cs.exec
    BY <1>t, <2>1, GotoPc DEF Pc
  <2>3. ~Booting /\ ~CreateRow /\ UNCHANGED <<monitor, boot>>
    BY <1>3, <1>b DEF BindBatch, BindDirect, CreateRow, At
  <2> QED
    BY <1>n, <2>2, <2>3, OnlyCreateAdds, OwnedStep
<1>4. CASE BindFailed \/ FailAttempt
  <2>0. cs.exec \in Execs /\ execs[cs.exec].status = "running" /\ ~Booting
    BY <1>4, <1>b, <1>s, <1>o DEF BindFailed, FailAttempt, At
  <2>1. execs'[cs.exec].status = "failed"
    BY <1>4, <1>t, <2>0, StatusOf DEF BindFailed, FailAttempt
  <2>2. cs.exec \notin RunningExecs(execs')
    BY <2>1 DEF RunningExecs
  <2>3. ~CreateRow /\ UNCHANGED <<monitor, boot>>
    BY <1>4 DEF BindFailed, FailAttempt, CreateRow, At
  <2> QED
    BY <1>n, <2>0, <2>2, <2>3, OnlyCreateAdds, OwnedStep
<1>5. CASE SpawnChild
  <2>1. ~Booting /\ UNCHANGED <<execs, boot>> /\ cs.exec \in Execs
    BY <1>5, <1>b, <1>s DEF SpawnChild, durable
  <2>2. \A e \in Execs : monitor'[e] = IF e = cs.exec THEN "run" ELSE monitor[e]
    BY <1>5, <1>t DEF SpawnChild, TypeOK
  <2>3. RunningExecs(execs') \subseteq Execs
    BY DEF RunningExecs
  <2> QED
    BY <2>1, <2>2, <2>3, OwnedStep
<1>6. CASE SpawnFails
  <2>1. Goto("failcas") /\ UNCHANGED <<execs, monitor, boot>> /\ ~Booting
    BY <1>6, <1>b DEF SpawnFails, At, durable
  <2>2. cs'.pc = "failcas" /\ cs'.exec = cs.exec
    BY <1>t, <2>1, GotoPc DEF Pc
  <2> QED
    BY <2>1, <2>2, OwnedStep
<1> QED
  BY <1>1, <1>2, <1>3, <1>4, <1>5, <1>6 DEF Launch

(* A monitor gives its row up only after publishing its end.                *)
LEMMA MonitorOwned ==
  ASSUME "publish" \notin Faults, TypeInv, OwnerInv, OwnedInv, NEW e \in Execs,
         Monitor(e) \/ ChildExit(e)
  PROVE  OwnedInv'
<1>t. TypeOK /\ execs \in ExecTable
  BY DEF TypeInv, TypeOK, ExecTable
<1>b. monitor[e] # "none" => ~Booting
  BY DEF OwnerInv, BootIsAlone
<1>o. monitor[e] # "none" => ~(cs.exec = e /\ cs.pc \in Launching)
  BY DEF OwnerInv, LaunchOwnsRow
<1>m. ASSUME NEW to, MonitorStep(e, monitor[e], to), monitor[e] # "none",
             UNCHANGED <<cs, boot>>, RunningExecs(execs') \subseteq RunningExecs(execs),
             \/ to \in {"run", "exited"} \/ monitor[e] \notin {"run", "exited"}
             \/ execs'[e].status # "running"
      PROVE  OwnedInv'
  <2>1. \A f \in Execs : monitor'[f] = IF f = e THEN to ELSE monitor[f]
    BY <1>t, <1>m DEF MonitorStep, TypeOK
  <2>2. \A f \in RunningExecs(execs') : f \in Execs /\ execs'[f].status = "running"
    BY DEF RunningExecs
  <2> QED
    BY <1>b, <1>m, <1>o, <2>1, <2>2, OwnedStep
<1>1. CASE ChildExit(e)
  BY <1>1, <1>m DEF ChildExit, MonitorStep, durable
<1>2. CASE PublishCompletion(e)
  <2>1. PICK st \in Outcomes(e) : execs' = CompleteRunningAttempt(execs, e, st)
    BY <1>2 DEF PublishCompletion
  <2>2. st # "running"
    BY DEF Outcomes
  <2>3. \A f \in Execs : execs'[f].status
                           = IF f = e /\ execs[e].status = "running" THEN st ELSE execs[f].status
    BY <1>t, <2>1, StatusOf
  <2>4. RunningExecs(execs') \subseteq RunningExecs(execs) /\ execs'[e].status # "running"
    BY <2>2, <2>3 DEF RunningExecs
  <2>5. MonitorStep(e, monitor[e], IF execs[e].status = "running" THEN "finish" ELSE "cleanup")
    BY <1>2 DEF PublishCompletion, MonitorStep
  <2>6. monitor[e] # "none" /\ UNCHANGED <<cs, boot>>
    BY <1>2 DEF PublishCompletion, MonitorStep
  <2> DEFINE to == IF execs[e].status = "running" THEN "finish" ELSE "cleanup"
  <2>7. MonitorStep(e, monitor[e], to)
    BY <2>5
  <2> HIDE DEF to
  <2>8. \A f \in Execs : monitor'[f] = IF f = e THEN to ELSE monitor[f]
    BY <1>t, <2>7 DEF MonitorStep, TypeOK
  <2>9. \A f \in RunningExecs(execs') : f \in Execs /\ f # e
    BY <2>4 DEF RunningExecs
  <2> QED
    BY <1>b, <1>o, <2>4, <2>6, <2>8, <2>9, OwnedStep
<1>3. CASE PublishFails(e)
  BY <1>3 DEF PublishFails
<1>4. CASE FinishCommands(e)
  BY <1>4, <1>m DEF FinishCommands, MonitorStep
<1>5. CASE SweepQueue(e)
  BY <1>5, <1>b, OwnedStep DEF SweepQueue, durable
<1>6. CASE SweepDone(e)
  BY <1>6, <1>m DEF SweepDone, MonitorStep, durable
<1>7. CASE RemoveEntry(e)
  BY <1>7, <1>m DEF RemoveEntry, MonitorStep, durable
<1> QED
  BY <1>1, <1>2, <1>3, <1>4, <1>5, <1>6, <1>7 DEF Monitor

(* The boot sequence completes every inherited row before it dispatches.    *)
LEMMA BootOwned ==
  ASSUME TypeInv, OwnerInv, OwnedInv, Restart \/ BootSequence
  PROVE  OwnedInv'
<1>t. TypeOK /\ execs \in ExecTable
  BY DEF TypeInv, TypeOK, ExecTable
<1> USE DEF OwnedInv, RunningRowIsOwned, InheritedAreListed, BootStep
<1>1. CASE Restart
  BY <1>1 DEF Restart
<1>2. CASE CleanupOrphan \/ ReleaseOrphan
  <2>1. boot'.at \in {"release", "cleanup"}
    BY <1>2 DEF CleanupOrphan, ReleaseOrphan
  <2> QED
    BY <2>1
<1>3. CASE CleanupDone
  BY <1>3 DEF CleanupDone
<1>4. CASE Terminalize
  <2> DEFINE e == Least(boot.todo)
  <2>1. e \in Execs
    BY <1>4, <1>t, LeastExec DEF Terminalize, TypeOK
  <2>2. \A f \in Execs : execs'[f].status = IF f = e THEN "killed" ELSE execs[f].status
    BY <1>4, <1>t, <2>1, StatusOf DEF Terminalize
  <2> HIDE DEF e
  <2>3. RunningExecs(execs') \subseteq RunningExecs(execs) \ {e}
    BY <2>2 DEF RunningExecs
  <2>4. boot.at = "terminalize" /\ boot'.at = "requeue" /\ boot'.todo = boot.todo \ {e}
    BY <1>4 DEF Terminalize, e
  <2> QED
    BY <2>3, <2>4
<1>5. CASE RequeueInherited
  BY <1>5 DEF RequeueInherited
<1>6. CASE BootSweep
  BY <1>6 DEF BootSweep
<1>7. CASE BootDone
  BY <1>7 DEF BootDone
<1> QED
  BY <1>1, <1>2, <1>3, <1>4, <1>5, <1>6, <1>7 DEF BootSequence

(* OwnedInv is inductive when neither fault happens.                        *)
LEMMA NextOwned ==
  ASSUME Faults \cap {"turn", "publish"} = {}
  PROVE  TypeInv /\ OwnerInv /\ OwnedInv /\ [Next]_vars => OwnedInv'
<1> SUFFICES ASSUME TypeInv, OwnerInv, OwnedInv, [Next]_vars PROVE OwnedInv'
  OBVIOUS
<1>q. ASSUME UNCHANGED <<monitor, cs, boot>>, ~Booting, Next, ~CreateRow PROVE OwnedInv'
  BY <1>q, OnlyCreateAdds, OwnedStep
<1>c. ASSUME UNCHANGED cs PROVE ~CreateRow
  BY <1>c, GotoPc, FailPc DEF CreateRow, At, Pc, TypeInv
<1>1. CASE UNCHANGED vars
  BY <1>1 DEF vars, OwnedInv, RunningRowIsOwned, InheritedAreListed
<1>2. CASE \/ \E s \in Sessions : StartDirect(s) \/ DispatchRequest(s)
           \/ \E w \in Sweepers : SweepNext(w)
  <2>1. cs.pc = "idle" /\ UNCHANGED <<execs, monitor, boot>>
    BY <1>2 DEF StartDirect, DispatchRequest, SweepNext, BeginDispatch, LockFree, durable
  <2>2. ~Booting
    BY <1>2 DEF StartDirect, DispatchRequest, SweepNext, Booting, OwnerInv, BootIsAlone
  <2> QED
    BY <2>1, <2>2, OwnedStep DEF Launching
<1>3. CASE \E w \in Sweepers : SweepCheck(w)
  BY <1>3, OwnedStep DEF SweepCheck, OwnerInv, BootIsAlone, durable
<1>4. CASE \E s \in Sessions : SteerInterrupt(s)
  BY <1>4, OwnedStep DEF SteerInterrupt, OwnerInv, BootIsAlone, durable
<1>5. CASE \E e \in Execs : StopExecution(e)
  BY <1>5, OwnedStep DEF StopExecution, Serving, Booting, durable
<1>6. CASE \E r \in stops : StopCall(r)
  <2>1. PICK r \in stops : StopCall(r)
    BY <1>6
  <2>2. ~Booting /\ r.exec \in Execs
    BY DEF OwnerInv, BootIsAlone, TypeInv, TypeOK, Stop
  <2>3. Next
    BY <2>1 DEF Next, ServerStep
  <2>4. CASE StopKill(r)
    <3>1. \A f \in Execs : monitor'[f] = IF f = r.exec THEN "exited" ELSE monitor[f]
      BY <2>4 DEF StopKill, MonitorStep, TypeInv, TypeOK
    <3>2. RunningExecs(execs') \subseteq Execs /\ UNCHANGED <<execs, cs, boot>>
      BY <2>4 DEF RunningExecs, StopKill, durable
    <3> QED
      BY <2>2, <3>1, <3>2, OwnedStep
  <2>5. CASE UNCHANGED <<monitor, cs, boot>>
    BY <1>q, <1>c, <2>2, <2>3, <2>5
  <2> QED
    BY <2>1, <2>4, <2>5 DEF StopCall, StopFound, StopMissing, StopAwaited, OrphanComplete,
       OrphanRequeue
<1>7. CASE ClientStep
  <2>1. CASE UNCHANGED <<monitor, cs, boot>> /\ ~Booting /\ UNCHANGED execs
    BY <2>1, OwnedStep
  <2> QED
    BY <1>2, <1>5, <1>7, <2>1 DEF ClientStep, FollowUp, FollowUpDeferred, Steer, CancelCommand,
       RespondApproval, CancelQueued, DispatchCommands, RequeueCommands, Serving, Booting, durable
<1>8. CASE ServerStep
  BY <1>2, <1>3, <1>4, <1>6, <1>8, LaunchOwned, MonitorOwned, BootOwned DEF ServerStep
<1> QED
  BY <1>1, <1>7, <1>8, MonitorOwned, BootOwned DEF Next

(* No slot leaks: once the server dispatches, every running row is being    *)
(* launched or has the monitor that will end it.  The assumption is needed: *)
(* an SQL error between bind and spawn, or in the publication of the exit,  *)
(* leaves the row running.                                                  *)
THEOREM SlotsAreOwned ==
  ASSUME Faults \cap {"turn", "publish"} = {}
  PROVE  Spec => []RunningRowIsOwned
<1>1. Init => OwnedInv
  BY DEF Init, OwnedInv, RunningRowIsOwned, InheritedAreListed, RunningExecs, NoExec
<1>2. TypeInv /\ OwnerInv /\ OwnedInv /\ [Next]_vars => OwnedInv'
  BY NextOwned
<1>3. Spec => []OwnedInv
  BY <1>1, <1>2, InitType, NextType, InitOwner, NextOwner, PTL DEF Spec
<1> QED
  BY <1>3, PTL DEF OwnedInv
===========================================================================
