-------------------------- MODULE DeliveryProofs --------------------------
(***************************************************************************)
(* What becomes of a command, for every number of sessions, commands,      *)
(* executions, faults and restarts: its prompt is in the hands of one      *)
(* agent at a time, the row names the execution that was given it, and the *)
(* verdict it ends with is that execution's; and every attempt on a        *)
(* metered account is covered by exactly one row of metered_approvals,     *)
(* whatever was requested, answered, cancelled, refused and retried.       *)
(***************************************************************************)
EXTENDS QueueProofs

(* What a statement may do with a row r, other than to claim or bind it:    *)
(* nothing, fill a free one, return it to the queue, or end it.             *)
Moved(r, q) ==
  \/ q = r
  \/ /\ r.state = "absent" /\ q.state = "pending" /\ q.exec = None
     /\ q.session \in Sessions /\ q.config \in Configs
  \/ /\ r.state \in {"pending", "claimed", "failed"}
     /\ q.session = r.session /\ q.config = r.config
     /\ \/ q.state = "pending" /\ q.exec = None
        \/ q.state = "cancelled" /\ q.exec = r.exec /\ r.state # "failed"
        \/ /\ q.state \in {"done", "failed"} /\ q.exec = r.exec
           /\ r.state = "claimed" /\ r.exec # None

Quiet(t, u) == \A c \in Commands : Moved(t[c], u[c])

(* Only finish_execution gives a verdict.                                   *)
NoVerdict(t, u) == \A c \in Commands : u[c].state \in {"done", "failed"} => u[c] = t[c]

(* enqueue, into a table that has room                                      *)
LEMMA EnqueueMoves ==
  ASSUME NEW t \in Table, NEW s \in Sessions, NEW k \in Keys \cup {None},
         NEW i, NEW cfg \in Configs, Duplicate(t, s, k) \/ Free(t) # {}
  PROVE  LET u == Enqueue(t, s, k, i, cfg) IN Quiet(t, u) /\ NoVerdict(t, u)
<1> DEFINE id == Least(Free(t))
           old == IF i = "replace" THEN Rows(t, s, {"pending", "claimed"}) ELSE {}
           r == NewRow(s, k, cfg, "pending", None)
           u == [Update(t, old, Cancelled) EXCEPT ![id] = r]
<1>1. CASE Duplicate(t, s, k)
  BY <1>1 DEF Enqueue, Quiet, NoVerdict, Moved
<1>2. CASE ~Duplicate(t, s, k)
  <2>1. id \in Free(t)
    BY <1>2, LeastCommand DEF Free
  <2>2. id \in Commands /\ t[id].state = "absent"
    BY <2>1 DEF Free
  <2>3. r.state = "pending" /\ r.exec = None /\ r.session = s /\ r.config = cfg
    BY DEF NewRow
  <2> HIDE DEF id, r
  <2>4. \A c \in Commands : u[c] = IF c = id THEN r ELSE IF c \in old THEN Cancelled(t[c]) ELSE t[c]
    BY <2>2 DEF Update
  <2>5. \A c \in old : t[c].state \in {"pending", "claimed"}
    BY DEF Rows
  <2> HIDE DEF u, old
  <2>6. \A c \in Commands :
          /\ Cancelled(t[c]).state = "cancelled" /\ Cancelled(t[c]).exec = t[c].exec
          /\ Cancelled(t[c]).session = t[c].session /\ Cancelled(t[c]).config = t[c].config
    BY DEF Cancelled, Table, CommandRow
  <2>7. ASSUME NEW c \in Commands
        PROVE  Moved(t[c], u[c]) /\ (u[c].state \in {"done", "failed"} => u[c] = t[c])
    <3>1. CASE c = id
      BY <2>2, <2>3, <2>4, <3>1 DEF Moved
    <3>2. CASE c # id /\ c \in old
      BY <2>4, <2>5, <2>6, <3>2 DEF Moved
    <3>3. CASE c # id /\ c \notin old
      BY <2>4, <3>3 DEF Moved
    <3> QED
      BY <3>1, <3>2, <3>3
  <2>8. Enqueue(t, s, k, i, cfg) = u
    BY <1>2 DEF Enqueue, u, id, old, r
  <2> QED
    BY <2>7, <2>8 DEF Quiet, NoVerdict
<1> QED
  BY <1>1, <1>2

(* A released row is pending and belongs to no execution.                   *)
LEMMA ReleasedRow ==
  ASSUME NEW r \in CommandRow
  PROVE  /\ Released(r).state = "pending" /\ Released(r).exec = None
         /\ Released(r).session = r.session /\ Released(r).config = r.config
  BY DEF Released, CommandRow

(* The statements that return rows to the queue or cancel them.             *)
LEMMA UpdatesMove ==
  ASSUME NEW t \in Table, NEW u,
         \/ \E run, id : u = Cancel(t, run, id)
         \/ \E s : u = CancelPending(t, s) \/ u = ReleaseUnbound(t, s)
         \/ \E e : u = ReleaseExecution(t, e)
         \/ \E term, e : u = RequeueExecution(t, term, e)
  PROVE  Quiet(t, u) /\ NoVerdict(t, u)
<1>t. \A c \in Commands : t[c] \in CommandRow
  BY DEF Table
<1> USE <1>t DEF Update, Quiet, NoVerdict, Moved, Rows, Bound
<1>1. ASSUME NEW run, NEW id, u = Cancel(t, run, id) PROVE Quiet(t, u) /\ NoVerdict(t, u)
  BY <1>1 DEF Cancel, Cancelled, CommandRow
<1>2. ASSUME NEW s, u = CancelPending(t, s) PROVE Quiet(t, u) /\ NoVerdict(t, u)
  BY <1>2 DEF CancelPending, Cancelled, CommandRow
<1>3. ASSUME NEW s, u = ReleaseUnbound(t, s) PROVE Quiet(t, u) /\ NoVerdict(t, u)
  BY <1>3 DEF ReleaseUnbound, Unbound, CommandRow
<1>4. ASSUME NEW e, u = ReleaseExecution(t, e) PROVE Quiet(t, u) /\ NoVerdict(t, u)
  BY <1>4, ReleasedRow DEF ReleaseExecution
<1>5. ASSUME NEW term, NEW e, u = RequeueExecution(t, term, e)
      PROVE  Quiet(t, u) /\ NoVerdict(t, u)
  BY <1>5, ReleasedRow DEF RequeueExecution
<1> QED
  BY <1>1, <1>2, <1>3, <1>4, <1>5

(* finish_execution ends the claimed rows of one execution.                 *)
LEMMA FinishMoves ==
  ASSUME NEW t \in Table, NEW e \in Execs, NEW ok \in BOOLEAN
  PROVE  LET u == FinishExecution(t, e, ok)
         IN  /\ Quiet(t, u)
             /\ \A c \in Commands : u[c].state \in {"done", "failed"} =>
                  \/ u[c] = t[c]
                  \/ u[c].exec = e /\ u[c].state = IF ok THEN "done" ELSE "failed"
  BY TableAssumption DEF Table, Update, CommandRow, Quiet, Moved, Bound, FinishExecution, Execs

---------------------------------------------------------------------------
(* A row that waits belongs to no execution; one that belongs to an         *)
(* execution was given to it, and only such a row has a verdict.            *)
RowsOK ==
  \A c \in Commands :
    /\ cmds[c].state \in {"absent", "pending"} => cmds[c].exec = None
    /\ cmds[c].state # "absent" => cmds[c].config \in Configs
    /\ cmds[c].state \in {"done", "failed"} => cmds[c].exec # None
    /\ cmds[c].exec # None => /\ execs[cmds[c].exec].status # "absent"
                              /\ c \in execs[cmds[c].exec].prompt

(* What an execution was given are commands of its session, none of them    *)
(* `never`; a row that was never inserted was given nothing.                *)
PromptsOK ==
  \A e \in Execs :
    /\ execs[e].status = "absent" => execs[e].prompt = {}
    /\ \A c \in execs[e].prompt :
         /\ cmds[c].state # "absent" /\ cmds[c].session = execs[e].session
         /\ Policy[cmds[c].config] # "never"

(* The unique index.                                                        *)
OneRunning ==
  \A e, f \in RunningExecs(execs) : execs[e].session = execs[f].session => e = f

(* From the claim to the bind nothing belongs to the attempt yet, and what  *)
(* bind_execution will stamp is part of the batch, all of one config.       *)
Attempting == Preparing \cup {"bind"}
BatchOK ==
  /\ cs.pc \in {"peek", "gate", "release", "claim", "regate", "book", "admit"} => cs.claim
  /\ cs.pc \in Attempting => \A c \in Commands : cmds[c].exec # cs.exec
  /\ cs.pc \in Attempting /\ ~cs.claim => cs.batch = {}
  /\ cs.pc \in Attempting /\ cs.claim =>
       /\ cs.batch # {} /\ cs.head = Least(cs.batch)
       /\ \A c \in cs.batch : /\ cmds[c].state # "absent" /\ cmds[c].session = cs.session
                               /\ cmds[c].config = cmds[cs.head].config
       /\ Unbound(cmds, cs.session) \subseteq cs.batch
       /\ cs.pc # "regate" => Policy[cmds[cs.head].config] # "never"
  /\ cs.pc = "bind" => /\ execs[cs.exec].prompt = cs.batch
                       /\ execs[cs.exec].session = cs.session

DeliveryInv == RowsOK /\ PromptsOK /\ OneRunning /\ BatchOK

(* The dispatcher fails the commands of an id it allocated, and the boot    *)
(* sequence ends rows that are running.                                     *)
AbortOK == cs.pc = "abort" => cs.exec \in Execs
BootListed == Booting => boot.todo \subseteq RunningExecs(execs)

(* Executions only end.                                                     *)
Ends(x, y) ==
  \A e \in Execs :
    /\ y[e].session = x[e].session /\ y[e].prompt = x[e].prompt /\ y[e].claim = x[e].claim
    /\ y[e].status = x[e].status \/ (x[e].status = "running" /\ y[e].status \in Terminal)

SameLocals ==
  /\ cs'.exec = cs.exec /\ cs'.head = cs.head /\ cs'.batch = cs.batch
  /\ cs'.claim = cs.claim /\ cs'.session = cs.session

(* The critical section begins, stays among the positions of an attempt, or *)
(* leaves them.                                                             *)
SectionKeeps ==
  /\ cs'.pc \in {"peek", "gate", "release", "claim"} => cs'.claim
  /\ cs'.pc \in Attempting =>
       /\ cs.pc \in Attempting /\ SameLocals
       /\ cs'.pc \in {"regate", "book", "admit"} => cs.claim
       /\ cs'.pc = "bind" => cs.pc = "bind"
       /\ cs.pc = "regate" /\ cs'.pc # "regate" => Policy[cmds[cs.head].config] # "never"

(* A row that exists keeps its session and config, and is claimed or bound  *)
(* by nobody.                                                               *)
LEMMA QuietRows ==
  ASSUME Quiet(cmds, cmds'), NEW c \in Commands
  PROVE  /\ cmds[c].state # "absent" => /\ cmds'[c].state # "absent"
                                        /\ cmds'[c].session = cmds[c].session
                                        /\ cmds'[c].config = cmds[c].config
         /\ cmds'[c].exec \in {cmds[c].exec, None}
         /\ cmds'[c].state = "claimed" => cmds'[c] = cmds[c]
         /\ cmds'[c].state = "absent" => cmds'[c] = cmds[c]
  BY DEF Quiet, Moved

(* Every step but those that claim, insert or bind.                         *)
LEMMA QuietDelivery ==
  ASSUME TypeInv, DeliveryInv, Quiet(cmds, cmds'), Ends(execs, execs'), SectionKeeps
  PROVE  DeliveryInv'
<1>t. /\ \A c \in Commands : cmds[c].exec \in Execs \cup {None}
      /\ \A e \in Execs : execs[e].prompt \subseteq Commands
      /\ cs.batch \subseteq Commands
  BY DEF TypeInv, TypeOK, CommandRow, ExecRow, Section
<1>1. RowsOK'
  <2> SUFFICES ASSUME NEW c \in Commands
               PROVE  /\ cmds'[c].state \in {"absent", "pending"} => cmds'[c].exec = None
                      /\ cmds'[c].state # "absent" => cmds'[c].config \in Configs
                      /\ cmds'[c].state \in {"done", "failed"} => cmds'[c].exec # None
                      /\ cmds'[c].exec # None => /\ execs'[cmds'[c].exec].status # "absent"
                                                 /\ c \in execs'[cmds'[c].exec].prompt
    BY DEF RowsOK
  <2>1. Moved(cmds[c], cmds'[c])
    BY DEF Quiet
  <2>2. /\ cmds'[c].state \in {"absent", "pending"} => cmds'[c].exec = None
        /\ cmds'[c].state # "absent" => cmds'[c].config \in Configs
    BY <2>1 DEF Moved, DeliveryInv, RowsOK
  <2>3. cmds'[c].state \in {"done", "failed"} => cmds'[c].exec # None
    BY <2>1 DEF Moved, DeliveryInv, RowsOK
  <2>4. cmds'[c].exec # None => /\ execs'[cmds'[c].exec].status # "absent"
                                /\ c \in execs'[cmds'[c].exec].prompt
    BY <1>t, QuietRows DEF DeliveryInv, RowsOK, Ends, Terminal
  <2> QED
    BY <2>2, <2>3, <2>4
<1>2. PromptsOK'
  BY <1>t, QuietRows DEF DeliveryInv, PromptsOK, Ends, Terminal
<1>3. OneRunning'
  BY DEF DeliveryInv, OneRunning, RunningExecs, Ends, Terminal
<1>4. BatchOK'
  <2>1. CASE cs'.pc \notin Attempting
    BY <2>1 DEF BatchOK, SectionKeeps, Attempting, Preparing
  <2>2. CASE cs'.pc \in Attempting
    <3>1. /\ cs.pc \in Attempting /\ SameLocals
          /\ cs'.pc \in {"regate", "book", "admit"} => cs.claim
          /\ cs'.pc = "bind" => cs.pc = "bind"
          /\ cs.pc = "regate" /\ cs'.pc # "regate" => Policy[cmds[cs.head].config] # "never"
      BY <2>2 DEF SectionKeeps
    <3>2. cs.exec \in Execs
      BY <3>1 DEF TypeInv, SectionOK, Attempting, Launching
    <3>3. \A c \in Commands : cmds'[c].exec # cs'.exec
      BY <3>1, <3>2, QuietRows, TableAssumption DEF DeliveryInv, BatchOK, SameLocals, Execs
    <3>4. ~cs'.claim => cs'.batch = {}
      BY <3>1 DEF DeliveryInv, BatchOK, SameLocals
    <3>5. ASSUME cs'.claim
          PROVE  /\ cs'.batch # {} /\ cs'.head = Least(cs'.batch)
                 /\ \A c \in cs'.batch :
                      /\ cmds'[c].state # "absent" /\ cmds'[c].session = cs'.session
                      /\ cmds'[c].config = cmds'[cs'.head].config
                 /\ Unbound(cmds', cs'.session) \subseteq cs'.batch
                 /\ cs'.pc # "regate" => Policy[cmds'[cs'.head].config] # "never"
      <4>1. /\ cs.batch # {} /\ cs.head = Least(cs.batch)
            /\ \A c \in cs.batch : /\ cmds[c].state # "absent" /\ cmds[c].session = cs.session
                                    /\ cmds[c].config = cmds[cs.head].config
            /\ Unbound(cmds, cs.session) \subseteq cs.batch
            /\ cs.pc # "regate" => Policy[cmds[cs.head].config] # "never"
        BY <3>1, <3>5 DEF DeliveryInv, BatchOK, SameLocals
      <4>2. cs.head \in cs.batch /\ cs.head \in Commands
        BY <1>t, <4>1, LeastCommand
      <4>3. \A c \in cs.batch :
              /\ cmds'[c].state # "absent" /\ cmds'[c].session = cs.session
              /\ cmds'[c].config = cmds'[cs.head].config
        BY <1>t, <4>1, <4>2, QuietRows
      <4>4. Unbound(cmds', cs.session) \subseteq Unbound(cmds, cs.session)
        BY QuietRows DEF Unbound, Rows
      <4>5. cmds'[cs.head].config = cmds[cs.head].config
        BY <4>1, <4>2, QuietRows
      <4> QED
        BY <3>1, <4>1, <4>3, <4>4, <4>5 DEF SameLocals
    <3>6. cs'.pc = "bind" => /\ execs'[cs'.exec].prompt = cs'.batch
                             /\ execs'[cs'.exec].session = cs'.session
      BY <3>1, <3>2 DEF DeliveryInv, BatchOK, SameLocals, Ends
    <3>7. cs'.pc \in {"peek", "gate", "release", "claim", "regate", "book", "admit"} => cs'.claim
      BY <3>1 DEF SectionKeeps, SameLocals
    <3> QED
      BY <3>3, <3>4, <3>5, <3>6, <3>7 DEF BatchOK
  <2> QED
    BY <2>1, <2>2
<1> QED
  BY <1>1, <1>2, <1>3, <1>4 DEF DeliveryInv

---------------------------------------------------------------------------
(* Goto keeps the locals of the critical section ...                        *)
LEMMA GotoLocals ==
  ASSUME TypeOK, NEW pc \in Pc, Goto(pc)
  PROVE  cs'.pc = pc /\ SameLocals
  BY GotoType DEF TypeOK, Section, SameLocals

(* ... and a failed launch keeps them on its way to the abort.              *)
LEMMA FailLocals ==
  ASSUME TypeOK, Fail
  PROVE  cs'.pc = "idle" \/ (cs'.pc = "abort" /\ SameLocals)
  BY GotoLocals, ReturnPc DEF Fail, Pc

(* What each step does to session_commands.  Room leaves a free row.        *)
LEMMA RoomIsFree == Room => Free(cmds) # {}
<1>1. Cardinality({}) = 0
  BY FS_EmptySet
<1> QED
  BY <1>1 DEF Room, Reserved

(* Only the claim and the two binds are not quiet, and only the end of an   *)
(* attempt gives a verdict.                                                 *)
LEMMA StepMoves ==
  ASSUME TypeInv, AbortOK, [Next]_vars
  PROVE  /\ Quiet(cmds, cmds') \/ Claim \/ BindBatch \/ BindDirect
         /\ NoVerdict(cmds, cmds') \/ Claim \/ BindBatch \/ BindDirect \/ Abort
              \/ \E e \in Execs : FinishCommands(e)
<1> DEFINE OK == Quiet(cmds, cmds') /\ NoVerdict(cmds, cmds')
<1>t. cmds \in Table /\ TypeOK
  BY DEF TypeInv, TypeOK, Table
<1>u. ASSUME UNCHANGED cmds PROVE OK
  BY <1>u DEF Quiet, NoVerdict, Moved
<1>1. CASE UNCHANGED vars
  BY <1>1, <1>u DEF vars
<1>2. CASE ClientStep
  <2>1. ASSUME NEW s \in Sessions, NEW k \in Keys \cup {None}, NEW cfg \in Configs,
               \/ FollowUp(s, k, cfg) \/ FollowUpDeferred(s, k, cfg)
               \/ \E then \in {"dispatch", "defer"} : Steer(s, k, cfg, then)
        PROVE  OK
    <3>1. Duplicate(cmds, s, k) \/ Free(cmds) # {}
      BY <2>1, RoomIsFree DEF FollowUp, FollowUpDeferred, Steer
    <3>2. \A i : LET u == Enqueue(cmds, s, k, i, cfg) IN Quiet(cmds, u) /\ NoVerdict(cmds, u)
      BY <1>t, <3>1, EnqueueMoves
    <3>3. \E i : cmds' = Enqueue(cmds, s, k, i, cfg)
      BY <2>1 DEF FollowUp, FollowUpDeferred, Steer
    <3> QED
      BY <3>2, <3>3
  <2>2. ASSUME \/ \E c \in Commands : CancelCommand(c)
               \/ \E s \in Sessions : CancelQueued(s)
               \/ \E e \in Execs : RequeueCommands(e)
        PROVE  OK
    BY <1>t, <2>2, UpdatesMove DEF CancelCommand, CancelQueued, RequeueCommands
  <2>3. ASSUME \/ \E c \in Commands, approved \in BOOLEAN : RespondApproval(c, approved)
               \/ \E s \in Sessions : DispatchCommands(s) \/ StartDirect(s)
               \/ \E e \in Execs : StopExecution(e)
        PROVE  OK
    BY <1>u, <2>3 DEF RespondApproval, DispatchCommands, StartDirect, StopExecution, durable
  <2> QED
    BY <1>2, <2>1, <2>2, <2>3 DEF ClientStep
<1>3. CASE Launch
  <2>1. CASE ReleaseLeftover \/ Undo
    BY <1>t, <2>1, UpdatesMove DEF ReleaseLeftover, Undo
  <2>2. CASE Abort
    <3>1. cs.exec \in Execs /\ cmds' = FinishExecution(cmds, cs.exec, FALSE)
      BY <2>2 DEF Abort, At, AbortOK
    <3> QED
      BY <1>t, <2>2, <3>1, FinishMoves
  <2>3. CASE \/ Peek \/ Gate \/ Regate \/ Book \/ Admit \/ CreateRow \/ BindFailed
             \/ SpawnChild \/ SpawnFails \/ FailAttempt
    BY <1>u, <2>3 DEF Peek, Gate, Regate, Book, Admit, CreateRow, BindFailed, SpawnChild,
       SpawnFails, FailAttempt, durable
  <2> QED
    BY <1>3, <2>1, <2>2, <2>3 DEF Launch
<1>4. ASSUME NEW e \in Execs, Monitor(e) \/ ChildExit(e)
      PROVE  OK \/ (FinishCommands(e) /\ Quiet(cmds, cmds'))
  <2>1. CASE FinishCommands(e)
    <3> DEFINE ok == execs[e].status = "completed"
    <3>1. ok \in BOOLEAN /\ cmds' = FinishExecution(cmds, e, ok)
      BY <2>1 DEF FinishCommands
    <3> HIDE DEF ok
    <3> QED
      BY <1>t, <2>1, <3>1, FinishMoves
  <2> QED
    BY <1>4, <1>u, <2>1 DEF Monitor, ChildExit, PublishCompletion, PublishFails, SweepQueue,
       SweepDone, RemoveEntry, durable
<1>5. ASSUME NEW r \in stops, StopCall(r) PROVE OK
  <2>1. CASE OrphanRequeue(r)
    BY <1>t, <1>u, <2>1, UpdatesMove DEF OrphanRequeue
  <2> QED
    BY <1>5, <1>u, <2>1 DEF StopCall, StopFound, StopMissing, StopKill, StopAwaited,
       OrphanComplete, durable
<1>6. CASE BootSequence \/ Restart
  <2>1. CASE ReleaseOrphan \/ RequeueInherited
    BY <1>t, <2>1, UpdatesMove DEF ReleaseOrphan, RequeueInherited
  <2> QED
    BY <1>6, <1>u, <2>1 DEF BootSequence, CleanupOrphan, CleanupDone, Terminalize, BootSweep,
       BootDone, Restart, durable
<1>7. ASSUME \/ \E s \in Sessions : DispatchRequest(s) \/ SteerInterrupt(s)
             \/ \E w \in Sweepers : SweepNext(w) \/ SweepCheck(w)
      PROVE  OK
  BY <1>7, <1>u DEF DispatchRequest, SteerInterrupt, SweepNext, SweepCheck, durable
<1> QED
  BY <1>1, <1>2, <1>3, <1>4, <1>5, <1>6, <1>7 DEF Next, ServerStep

(* The statements on execution_processes, by all the columns they leave.    *)
LEMMA CompletionEnds ==
  ASSUME NEW x \in ExecTable, NEW e \in Execs, NEW st \in Terminal
  PROVE  /\ Ends(x, CompleteRunningAttempt(x, e, st))
         /\ x[e].status = "running" => Ends(x, UpdateCompletion(x, e, st))
  BY DEF ExecTable, ExecRow, CompleteRunningAttempt, UpdateCompletion, Ends

(* Rows of execution_processes only end, except where a launch inserts its  *)
(* own and a direct start notes its prompt.                                 *)
LEMMA StepEnds ==
  ASSUME TypeInv, OwnerInv, BootListed, [Next]_vars
  PROVE  Ends(execs, execs') \/ CreateRow \/ BindDirect
<1>t. execs \in ExecTable /\ TypeOK
  BY DEF TypeInv, TypeOK, ExecTable
<1>u. ASSUME UNCHANGED execs PROVE Ends(execs, execs')
  BY <1>u DEF Ends
<1>s. cs.pc \in Launching => cs.exec \in Execs /\ execs[cs.exec].status = "running"
  BY DEF TypeInv, SectionOK, OwnerInv, LaunchOwnsRow
<1>1. CASE UNCHANGED vars
  BY <1>1, <1>u DEF vars
<1>2. CASE ClientStep
  BY <1>2, <1>u DEF ClientStep, FollowUp, FollowUpDeferred, Steer, CancelCommand, CancelQueued,
     RequeueCommands, RespondApproval, DispatchCommands, StartDirect, StopExecution, durable
<1>3. CASE Launch
  <2>1. CASE BindFailed \/ FailAttempt
    BY <1>t, <1>s, <2>1, CompletionEnds DEF BindFailed, FailAttempt, At, Launching, Terminal
  <2> QED
    BY <1>3, <1>u, <2>1 DEF Launch, Peek, Gate, ReleaseLeftover, Claim, Regate, Book, Admit, Undo,
       BindBatch, SpawnChild, SpawnFails, Abort, durable
<1>4. ASSUME NEW e \in Execs, Monitor(e) \/ ChildExit(e) PROVE Ends(execs, execs')
  <2>1. CASE PublishCompletion(e)
    <3>1. Outcomes(e) \subseteq Terminal
      BY DEF Outcomes, Terminal
    <3> QED
      BY <1>t, <2>1, <3>1, CompletionEnds DEF PublishCompletion
  <2> QED
    BY <1>4, <1>u, <2>1 DEF Monitor, ChildExit, PublishFails, FinishCommands, SweepQueue,
       SweepDone, RemoveEntry, durable
<1>5. ASSUME NEW r \in stops, StopCall(r) PROVE Ends(execs, execs')
  <2>1. CASE OrphanComplete(r)
    <3>1. r.exec \in Execs
      BY <1>t DEF TypeOK, Stop
    <3> QED
      BY <1>t, <2>1, <3>1, CompletionEnds DEF OrphanComplete, Terminal
  <2> QED
    BY <1>5, <1>u, <2>1 DEF StopCall, StopFound, StopMissing, StopKill, StopAwaited,
       OrphanRequeue, durable
<1>6. CASE BootSequence \/ Restart
  <2>1. CASE CleanupOrphan \/ Terminalize
    <3> DEFINE e == Least(boot.todo)
    <3>1. e \in Execs /\ execs[e].status = "running"
      <4>1. Booting /\ boot.todo # {}
        BY <2>1 DEF CleanupOrphan, Terminalize, Booting
      <4>2. boot.todo \subseteq RunningExecs(execs)
        BY <4>1 DEF BootListed
      <4>3. e \in boot.todo
        BY <4>1, <4>2, LeastExec DEF RunningExecs
      <4> QED
        BY <4>2, <4>3 DEF RunningExecs
    <3>2. \/ UNCHANGED execs
          \/ \E st \in Terminal : execs' = UpdateCompletion(execs, e, st)
      BY <2>1 DEF CleanupOrphan, Terminalize, Terminal
    <3> HIDE DEF e
    <3> QED
      BY <1>t, <1>u, <3>1, <3>2, CompletionEnds
  <2> QED
    BY <1>6, <1>u, <2>1 DEF BootSequence, ReleaseOrphan, CleanupDone, RequeueInherited, BootSweep,
       BootDone, Restart, durable
<1>7. ASSUME \/ \E s \in Sessions : DispatchRequest(s) \/ SteerInterrupt(s)
             \/ \E w \in Sweepers : SweepNext(w) \/ SweepCheck(w)
      PROVE  UNCHANGED execs
  BY <1>7 DEF DispatchRequest, SteerInterrupt, SweepNext, SweepCheck, durable
<1> QED
  BY <1>1, <1>2, <1>3, <1>4, <1>5, <1>6, <1>7, <1>u DEF Next, ServerStep

(* The boot sequence lists running rows and ends each of them once.         *)
LEMMA StepBoot ==
  ASSUME TypeInv, OwnerInv, BootListed, [Next]_vars
  PROVE  BootListed'
<1>t. execs \in ExecTable /\ TypeOK
  BY DEF TypeInv, TypeOK, ExecTable
<1>a. ASSUME ~Booting, UNCHANGED boot PROVE BootListed'
  BY <1>a DEF BootListed, Booting
<1>b. ASSUME UNCHANGED <<execs, boot>> PROVE BootListed'
  BY <1>b DEF BootListed, Booting
<1>1. CASE UNCHANGED vars
  BY <1>1, <1>b DEF vars
<1>2. CASE Restart
  BY <1>2 DEF Restart, BootListed, durable
<1>3. CASE CleanupOrphan \/ Terminalize
  <2> DEFINE e == Least(boot.todo)
  <2>1. e \in Execs
    BY <1>3, <1>t, LeastExec DEF CleanupOrphan, Terminalize, TypeOK
  <2>2. Booting /\ boot'.todo = boot.todo \ {e}
    BY <1>3 DEF CleanupOrphan, Terminalize, Booting, BootStep
  <2>3. \A f \in Execs \ {e} : execs'[f].status = execs[f].status
    BY <1>3, <1>t, <2>1, StatusOf DEF CleanupOrphan, Terminalize
  <2> HIDE DEF e
  <2> QED
    BY <2>2, <2>3 DEF BootListed, RunningExecs
<1>4. CASE ReleaseOrphan \/ CleanupDone \/ RequeueInherited \/ BootSweep \/ BootDone
  <2>1. UNCHANGED execs
    BY <1>4 DEF ReleaseOrphan, CleanupDone, RequeueInherited, BootSweep, BootDone
  <2>2. boot'.todo \in {boot.todo, {}, RunningExecs(execs)} /\ (boot'.todo = boot.todo => Booting \/ boot'.todo = {})
    BY <1>4 DEF ReleaseOrphan, CleanupDone, RequeueInherited, BootSweep, BootDone, BootStep, Booting
  <2> QED
    BY <2>1, <2>2 DEF BootListed
<1>5. ASSUME ClientStep \/ Launch PROVE BootListed'
  <2>1. UNCHANGED boot
    BY <1>5 DEF ClientStep, FollowUp, FollowUpDeferred, Steer, CancelCommand, CancelQueued,
     RequeueCommands, RespondApproval, DispatchCommands, StartDirect, StopExecution,
     Launch, Peek, Gate, ReleaseLeftover, Claim, Regate, Book, Admit, Undo,
       BindBatch, SpawnChild, SpawnFails, Abort, CreateRow, BindDirect, BindFailed, FailAttempt, At
  <2>2. CASE Launch
    <3>1. cs.pc # "idle"
      BY <2>2 DEF Launch, Peek, Gate, ReleaseLeftover, Claim, Regate, Book, Admit, Undo,
       BindBatch, SpawnChild, SpawnFails, Abort, CreateRow, BindDirect, BindFailed, FailAttempt, At
    <3> QED
      BY <1>a, <2>1, <3>1 DEF OwnerInv, BootIsAlone
  <2>3. CASE ClientStep
    BY <1>a, <2>1, <2>3 DEF ClientStep, FollowUp, FollowUpDeferred, Steer, CancelCommand, CancelQueued,
     RequeueCommands, RespondApproval, DispatchCommands, StartDirect, StopExecution, Serving, Booting
  <2> QED
    BY <1>5, <2>2, <2>3
<1>6. ASSUME NEW e \in Execs, Monitor(e) \/ ChildExit(e) PROVE BootListed'
  <2>1. UNCHANGED boot /\ monitor[e] # "none"
    BY <1>6 DEF Monitor, ChildExit, PublishCompletion, PublishFails, FinishCommands, SweepQueue,
       SweepDone, RemoveEntry, MonitorStep
  <2> QED
    BY <1>a, <2>1 DEF OwnerInv, BootIsAlone
<1>7. ASSUME NEW r \in stops, StopCall(r) PROVE BootListed'
  <2>1. UNCHANGED boot
    BY <1>7 DEF StopCall, StopFound, StopMissing, StopKill, StopAwaited, OrphanComplete,
       OrphanRequeue
  <2> QED
    BY <1>a, <2>1 DEF OwnerInv, BootIsAlone
<1>8. ASSUME \/ \E s \in Sessions : DispatchRequest(s) \/ SteerInterrupt(s)
             \/ \E w \in Sweepers : SweepNext(w) \/ SweepCheck(w)
      PROVE  BootListed'
  BY <1>8, <1>b DEF DispatchRequest, SteerInterrupt, SweepNext, SweepCheck, durable
<1> QED
  BY <1>1, <1>2, <1>3, <1>4, <1>5, <1>6, <1>7, <1>8 DEF Next, ServerStep, BootSequence

(* Where the lock is not touched the section keeps; where it is idle there  *)
(* is nothing to keep.                                                      *)
LEMMA SectionRests ==
  ASSUME BatchOK, UNCHANGED cs \/ cs'.pc \in {"idle", "undo", "bindfail", "spawn", "failcas", "abort"}
  PROVE  SectionKeeps
  BY DEF SectionKeeps, SameLocals, BatchOK, Attempting, Preparing

(* The critical section, but for the claim, the insert and a direct start;  *)
(* an abort follows the attempt it ends.                                    *)
LEMMA StepSection ==
  ASSUME TypeInv, DeliveryInv, [Next]_vars
  PROVE  /\ SectionKeeps \/ Claim \/ CreateRow \/ \E s \in Sessions : StartDirect(s)
         /\ cs'.pc = "abort" => /\ cs'.exec = cs.exec
                                /\ cs.pc \in {"abort", "admit", "create", "bindfail", "spawn", "failcas"}
<1> DEFINE Aborts == cs'.pc = "abort" => /\ cs'.exec = cs.exec
                                         /\ cs.pc \in {"abort", "admit", "create", "bindfail",
                                                       "spawn", "failcas"}
<1>t. TypeOK /\ BatchOK
  BY DEF TypeInv, DeliveryInv
<1>u. ASSUME UNCHANGED cs PROVE SectionKeeps /\ Aborts
  BY <1>t, <1>u, SectionRests
<1>i. ASSUME cs'.pc = "idle" PROVE SectionKeeps /\ Aborts
  BY <1>t, <1>i, SectionRests
<1>1. CASE UNCHANGED vars
  BY <1>1, <1>u DEF vars
<1>2. CASE Launch
  <2>g. ASSUME NEW pc \in Pc, Goto(pc) PROVE cs'.pc = pc /\ SameLocals
    BY <1>t, <2>g, GotoLocals
  <2>r. ASSUME NEW res, Return(res) PROVE SectionKeeps /\ Aborts
    BY <1>t, <1>i, <2>r, ReturnPc
  <2>1. CASE Peek
    <3> DEFINE h == Least(Rows(cmds, cs.session, {"pending"}))
    <3>1. cs' = [cs EXCEPT !.pc = "release"] \/ cs' = [cs EXCEPT !.pc = "gate", !.head = h]
      BY <2>1 DEF Peek
    <3> HIDE DEF h
    <3>2. cs'.pc \in {"release", "gate"} /\ cs'.claim = cs.claim
      BY <1>t, <3>1 DEF TypeOK, Section
    <3>3. cs.claim
      BY <1>t, <2>1 DEF Peek, At, BatchOK
    <3> QED
      BY <3>2, <3>3 DEF SectionKeeps, Attempting, Preparing
  <2>2. CASE Gate
    <3>1. CASE Goto("release")
      <4>1. cs'.pc = "release" /\ SameLocals /\ cs.claim
        BY <1>t, <2>2, <2>g, <3>1 DEF Gate, At, BatchOK, Pc
      <4> QED
        BY <4>1 DEF SectionKeeps, SameLocals, Attempting, Preparing
    <3> QED
      BY <2>2, <2>r, <3>1 DEF Gate
  <2>3. CASE ReleaseLeftover
    <3>1. cs'.pc = "claim" /\ SameLocals /\ cs.claim
      BY <1>t, <2>3, <2>g DEF ReleaseLeftover, At, BatchOK, Pc
    <3> QED
      BY <3>1 DEF SectionKeeps, SameLocals, Attempting, Preparing
  <2>4. CASE Regate
    <3>1. cs.pc = "regate" /\ cs.claim
      BY <1>t, <2>4 DEF Regate, At, BatchOK
    <3>2. \/ Goto("undo")
          \/ /\ Goto("admit") \/ Goto("book")
             /\ Policy[cmds[cs.head].config] # "never"
      BY <2>4 DEF Regate, GateProceeds
    <3>3. \/ cs'.pc = "undo"
          \/ /\ cs'.pc \in {"admit", "book"} /\ SameLocals
             /\ Policy[cmds[cs.head].config] # "never"
      BY <2>g, <3>2 DEF Pc
    <3> QED
      BY <3>1, <3>3 DEF SectionKeeps, Attempting, Preparing
  <2>5. CASE Book
    <3>1. cs'.pc = "admit" /\ SameLocals /\ cs.claim /\ cs.pc = "book"
      BY <1>t, <2>5, <2>g DEF Book, At, BatchOK, Pc
    <3> QED
      BY <3>1 DEF SectionKeeps, Attempting, Preparing
  <2>6. CASE Admit
    <3>1. cs.pc = "admit" /\ cs'.pc \in {"abort", "undo", "create"} /\ SameLocals
      <4>1. Goto("abort") \/ Goto("undo") \/ Goto("create")
        BY <2>6 DEF Admit
      <4> QED
        BY <2>6, <2>g, <4>1 DEF Pc, Admit, At
    <3> QED
      BY <3>1 DEF SectionKeeps, SameLocals, Attempting, Preparing
  <2>7. CASE Undo \/ SpawnChild \/ Abort
    BY <2>7, <2>r DEF Undo, SpawnChild, Abort
  <2>8. CASE BindBatch \/ BindDirect
    <3>1. Goto("bindfail") \/ Goto("spawn")
      BY <2>8 DEF BindBatch, BindDirect
    <3>2. cs'.pc \in {"bindfail", "spawn"}
      BY <2>g, <3>1 DEF Pc
    <3> QED
      BY <1>t, <3>2, SectionRests
  <2>9. CASE BindFailed \/ FailAttempt \/ SpawnFails
    <3>1. Goto("abort") \/ Goto("failcas") \/ Fail
      BY <2>9 DEF BindFailed, FailAttempt, SpawnFails
    <3>2. cs'.pc \in {"abort", "failcas", "idle"} /\ (cs'.pc = "abort" => SameLocals)
      BY <1>t, <2>g, <3>1, FailLocals DEF Pc
    <3>3. cs.pc \in {"bindfail", "failcas", "spawn"}
      BY <2>9 DEF BindFailed, FailAttempt, SpawnFails, At
    <3> QED
      BY <1>t, <3>2, <3>3, SectionRests DEF SameLocals
  <2>10. CASE CreateRow
    <3>1. Goto("bind") \/ Fail
      BY <2>10 DEF CreateRow
    <3>2. cs'.pc \in {"bind", "abort", "idle"} /\ (cs'.pc = "abort" => SameLocals)
      BY <1>t, <2>g, <3>1, FailLocals DEF Pc
    <3> QED
      BY <2>10, <3>2 DEF CreateRow, At, SameLocals
  <2>11. CASE Claim
    <3> DEFINE f == Least(FreshExecs)
               h == Least(ClaimBatch(cmds, cs.session))
    <3>1. \/ Return("none")
          \/ cs' = [cs EXCEPT !.pc = "regate", !.exec = f, !.head = h,
                              !.batch = ClaimBatch(cmds, cs.session)]
      BY <2>11 DEF Claim
    <3> HIDE DEF f, h
    <3>2. cs'.pc \in {"idle", "regate"}
      BY <1>t, <3>1, ReturnPc DEF TypeOK, Section
    <3> QED
      BY <2>11, <3>2
  <2> QED
    BY <1>2, <2>1, <2>2, <2>3, <2>4, <2>5, <2>6, <2>7, <2>8, <2>9, <2>10, <2>11 DEF Launch
<1>3. ASSUME NEW s, NEW by, BeginDispatch(s, by) PROVE SectionKeeps /\ Aborts
  <2>1. cs'.pc = "idle" \/ (cs'.pc = "peek" /\ cs'.claim)
    BY <1>3 DEF BeginDispatch, Section0, Idle
  <2> QED
    BY <1>i, <2>1 DEF SectionKeeps, Attempting, Preparing
<1>4. CASE \/ \E s \in Sessions : DispatchRequest(s) \/ SteerInterrupt(s)
           \/ \E w \in Sweepers : SweepNext(w) \/ SweepCheck(w)
  BY <1>3, <1>4, <1>u DEF DispatchRequest, SteerInterrupt, SweepNext, SweepCheck
<1>5. CASE ClientStep
  <2>1. ASSUME NEW s \in Sessions, StartDirect(s) PROVE cs'.pc = "create"
    BY <2>1 DEF StartDirect, Section0, Idle
  <2> QED
    BY <1>5, <1>u, <2>1 DEF ClientStep, FollowUp, FollowUpDeferred, Steer, CancelCommand,
       CancelQueued, RequeueCommands, RespondApproval, DispatchCommands, StopExecution
<1>6. ASSUME NEW e \in Execs, Monitor(e) \/ ChildExit(e) PROVE UNCHANGED cs
  BY <1>6 DEF Monitor, ChildExit, PublishCompletion, PublishFails, FinishCommands, SweepQueue,
     SweepDone, RemoveEntry
<1>7. ASSUME NEW r \in stops, StopCall(r) PROVE UNCHANGED cs
  BY <1>7 DEF StopCall, StopFound, StopMissing, StopKill, StopAwaited, OrphanComplete,
     OrphanRequeue
<1>8. ASSUME BootSequence PROVE UNCHANGED cs
  BY <1>8 DEF BootSequence, CleanupOrphan, ReleaseOrphan, CleanupDone, Terminalize,
     RequeueInherited, BootSweep, BootDone, BootStep
<1>9. CASE Restart
  BY <1>9, <1>i DEF Restart, Idle
<1> QED
  BY <1>1, <1>2, <1>4, <1>5, <1>6, <1>7, <1>8, <1>9, <1>u DEF Next, ServerStep

---------------------------------------------------------------------------
(* The claim: an id nothing mentions, and the oldest waiting rows of one    *)
(* config.                                                                  *)
LEMMA ClaimDelivery ==
  ASSUME TypeInv, DeliveryInv, Claim
  PROVE  DeliveryInv'
<1> DEFINE batch == ClaimBatch(cmds, cs.session)
           f == Least(FreshExecs)
           h == Least(batch)
<1>t. /\ TypeOK /\ cmds \in Table
      /\ \A e \in Execs : execs[e].prompt \subseteq Commands
  BY DEF TypeInv, TypeOK, Table, ExecRow
<1>0. cs.pc = "claim" /\ cs.claim /\ UNCHANGED execs
  BY DEF Claim, At, DeliveryInv, BatchOK
<1>1. batch \subseteq Commands /\ (batch # {} => h \in batch)
  BY ClaimBatchType, LeastCommand
<1>2. \A c \in batch : /\ cmds[c].state = "pending" /\ cmds[c].session = cs.session
                       /\ cmds[c].config = cmds[HeadPending(cmds, cs.session)].config
  <2>1. \A c \in Commands : c <= c
    BY DEF Commands
  <2> QED
    BY <2>1 DEF ClaimBatch, Rows
<1>3. batch # {} => Rows(cmds, cs.session, {"claimed"}) = {}
  BY DEF ClaimBatch
<1>4. \A c \in Commands :
        /\ cmds'[c].session = cmds[c].session /\ cmds'[c].config = cmds[c].config
        /\ cmds'[c].exec = cmds[c].exec
        /\ cmds'[c].state = IF c \in batch THEN "claimed" ELSE cmds[c].state
  BY <1>t DEF Claim, ClaimPending, Update, Table, CommandRow
<1>5. FreshExecs # {} => f \in Execs /\ execs[f].status = "absent"
  BY LeastExec DEF FreshExecs
<1> HIDE DEF batch, f, h
<1>6. \/ cs'.pc = "idle"
      \/ /\ cs'.pc = "regate" /\ batch # {} /\ FreshExecs # {}
         /\ cs'.exec = f /\ cs'.head = h /\ cs'.batch = batch
         /\ cs'.claim = cs.claim /\ cs'.session = cs.session
  <2>1. \/ Return("none")
        \/ /\ batch # {} /\ FreshExecs # {}
           /\ cs' = [cs EXCEPT !.pc = "regate", !.exec = f, !.head = h, !.batch = batch]
    BY DEF Claim, f, h, batch
  <2> QED
    BY <1>t, <2>1, ReturnPc DEF TypeOK, Section
<1>7. RowsOK'
  BY <1>0, <1>1, <1>2, <1>4 DEF DeliveryInv, RowsOK
<1>8. PromptsOK'
  BY <1>t, <1>0, <1>4 DEF DeliveryInv, PromptsOK
<1>9. OneRunning'
  BY <1>0 DEF DeliveryInv, OneRunning, RunningExecs
<1>10. BatchOK'
  <2>1. CASE cs'.pc = "idle"
    BY <2>1 DEF BatchOK, Attempting, Preparing
  <2>2. CASE cs'.pc # "idle"
    <3>1. \A c \in Commands : cmds'[c].exec # f
      BY <1>4, <1>5, <1>6, <2>2, TableAssumption DEF DeliveryInv, RowsOK, Execs
    <3>2. \A c \in batch : /\ cmds'[c].state # "absent" /\ cmds'[c].session = cs.session
                           /\ cmds'[c].config = cmds'[h].config
      BY <1>1, <1>2, <1>4
    <3>3. Unbound(cmds', cs.session) \subseteq batch
      BY <1>3, <1>4, <1>6, <2>2 DEF Unbound, Rows
    <3>4. h = Least(batch)
      BY DEF h
    <3> QED
      BY <1>0, <1>6, <2>2, <3>1, <3>2, <3>3, <3>4 DEF BatchOK, Attempting, Preparing
  <2> QED
    BY <2>1, <2>2
<1> QED
  BY <1>7, <1>8, <1>9, <1>10 DEF DeliveryInv

(* A direct start prepares an attempt without commands.                     *)
LEMMA DirectDelivery ==
  ASSUME TypeInv, DeliveryInv, NEW s \in Sessions, StartDirect(s)
  PROVE  DeliveryInv'
<1> DEFINE f == Least(FreshExecs)
<1>1. f \in Execs /\ execs[f].status = "absent"
  BY LeastExec DEF StartDirect, LockFree, FreshExecs
<1> HIDE DEF f
<1>2. cs' = [Section0(s, Api) EXCEPT !.pc = "create", !.exec = f]
  BY DEF StartDirect, f
<1>3. cs'.pc = "create" /\ cs'.exec = f /\ ~cs'.claim /\ cs'.batch = {}
  BY <1>2 DEF Section0, Idle
<1>4. UNCHANGED <<cmds, execs>>
  BY DEF StartDirect, durable
<1>5. \A c \in Commands : cmds[c].exec # f
  BY <1>1, TableAssumption DEF DeliveryInv, RowsOK, Execs
<1>6. RowsOK' /\ PromptsOK' /\ OneRunning'
  BY <1>4 DEF DeliveryInv, RowsOK, PromptsOK, OneRunning, RunningExecs
<1>7. BatchOK'
  BY <1>3, <1>4, <1>5 DEF BatchOK
<1> QED
  BY <1>6, <1>7 DEF DeliveryInv

(* The insert: the row carries the batch, and the unique index admits one   *)
(* running row per session.                                                 *)
LEMMA CreateDelivery ==
  ASSUME TypeInv, DeliveryInv, CreateRow
  PROVE  DeliveryInv'
<1>t. /\ TypeOK /\ cs.pc = "create" /\ cs.exec \in Execs
      /\ cs.batch \subseteq Commands /\ UNCHANGED cmds
      /\ \A e \in Execs : execs[e].prompt \subseteq Commands
  BY DEF TypeInv, TypeOK, SectionOK, CreateRow, At, Preparing, Section, ExecRow
<1>1. CASE Fail /\ UNCHANGED execs
  <2>1. cs'.pc \in {"idle", "abort"}
    BY <1>t, <1>1, FailPc
  <2> QED
    BY <1>t, <1>1, <2>1 DEF DeliveryInv, RowsOK, PromptsOK, OneRunning, RunningExecs, BatchOK,
       Attempting, Preparing
<1>2. CASE /\ CanCreate(execs, cs.session) /\ Goto("bind")
           /\ execs' = Create(execs, cs.exec, cs.session, cs.batch, cs.claim)
  <2>1. cs'.pc = "bind" /\ SameLocals
    BY <1>t, <1>2, GotoLocals DEF Pc
  <2>2. /\ \A e \in Execs \ {cs.exec} : execs'[e] = execs[e]
        /\ execs'[cs.exec].session = cs.session /\ execs'[cs.exec].status = "running"
        /\ execs'[cs.exec].prompt = cs.batch
    BY <1>t, <1>2 DEF Create, TypeOK
  <2>3. \A c \in Commands : cmds[c].exec # cs.exec
    BY <1>t DEF DeliveryInv, BatchOK, Attempting, Preparing
  <2>4. \A c \in Commands : cmds[c].exec \in Execs \cup {None}
    BY <1>t DEF TypeOK, CommandRow
  <2>5. RowsOK'
    BY <1>t, <2>2, <2>3, <2>4 DEF DeliveryInv, RowsOK
  <2>6. \A c \in cs.batch : /\ cmds[c].state # "absent" /\ cmds[c].session = cs.session
                            /\ Policy[cmds[c].config] # "never"
    BY <1>t DEF DeliveryInv, BatchOK, Attempting, Preparing
  <2>7. PromptsOK'
    BY <1>t, <2>2, <2>6 DEF DeliveryInv, PromptsOK
  <2>8. OneRunning'
    BY <1>t, <1>2, <2>2 DEF DeliveryInv, OneRunning, RunningExecs, CanCreate, HasRunning
  <2>9. BatchOK'
    <3>1. cs.claim => /\ cs.batch # {} /\ cs.head = Least(cs.batch)
                      /\ \A c \in cs.batch : /\ cmds[c].state # "absent"
                                             /\ cmds[c].session = cs.session
                                             /\ cmds[c].config = cmds[cs.head].config
                      /\ Unbound(cmds, cs.session) \subseteq cs.batch
                      /\ Policy[cmds[cs.head].config] # "never"
      BY <1>t DEF DeliveryInv, BatchOK, Attempting, Preparing
    <3>2. ~cs.claim => cs.batch = {}
      BY <1>t DEF DeliveryInv, BatchOK, Attempting, Preparing
    <3> QED
      BY <1>t, <2>1, <2>2, <2>3, <3>1, <3>2 DEF BatchOK, SameLocals
  <2> QED
    BY <2>5, <2>7, <2>8, <2>9 DEF DeliveryInv
<1> QED
  BY <1>1, <1>2 DEF CreateRow

(* bind_execution stamps only what the dispatcher claimed and read.         *)
LEMMA BindDelivery ==
  ASSUME TypeInv, OwnerInv, DeliveryInv, BindBatch \/ BindDirect
  PROVE  DeliveryInv'
<1>t. /\ TypeOK /\ cs.pc = "bind" /\ cs.exec \in Execs
      /\ cmds \in Table /\ execs \in ExecTable
      /\ \A e \in Execs : execs[e].prompt \subseteq Commands
      /\ \A c \in Commands : cmds[c].exec \in Execs \cup {None}
  BY DEF TypeInv, TypeOK, SectionOK, BindBatch, BindDirect, At, Launching, ExecRow, Table,
     ExecTable, CommandRow
<1>0. /\ execs[cs.exec].status = "running" /\ execs[cs.exec].prompt = cs.batch
      /\ execs[cs.exec].session = cs.session
      /\ \A c \in Commands : cmds[c].exec # cs.exec
  BY <1>t DEF OwnerInv, LaunchOwnsRow, Launching, DeliveryInv, BatchOK, Attempting
<1>b. BatchOK'
  <2>1. Goto("bindfail") \/ Goto("spawn")
    BY DEF BindBatch, BindDirect
  <2>2. cs'.pc \in {"bindfail", "spawn"}
    BY <1>t, <2>1, GotoPc DEF Pc
  <2> QED
    BY <2>2 DEF BatchOK, Attempting, Preparing
<1>1. CASE BindBatch
  <2> DEFINE S == Unbound(cmds, cs.session)
  <2>1. S \subseteq cs.batch
    BY <1>1, <1>t DEF BindBatch, DeliveryInv, BatchOK, Attempting
  <2>2. \A c \in S : cmds[c].state = "claimed"
    BY DEF Unbound, Rows
  <2>3. \A c \in Commands :
          /\ cmds'[c].session = cmds[c].session /\ cmds'[c].config = cmds[c].config
          /\ cmds'[c].state = cmds[c].state
          /\ cmds'[c].exec = IF c \in S THEN cs.exec ELSE cmds[c].exec
    BY <1>1, <1>t DEF BindBatch, BindExecution, Update, Table, CommandRow
  <2>4. UNCHANGED execs
    BY <1>1 DEF BindBatch
  <2> HIDE DEF S
  <2>5. RowsOK'
    BY <1>0, <2>1, <2>2, <2>3, <2>4 DEF DeliveryInv, RowsOK
  <2>6. PromptsOK' /\ OneRunning'
    BY <1>t, <2>3, <2>4 DEF DeliveryInv, PromptsOK, OneRunning, RunningExecs
  <2> QED
    BY <1>b, <2>5, <2>6 DEF DeliveryInv
<1>2. CASE BindDirect
  <2> DEFINE id == Least(Free(cmds))
  <2>1. id \in Commands /\ cmds[id].state = "absent"
    BY <1>2, LeastCommand DEF BindDirect, Free
  <2>2. PICK cfg \in Unmetered : cmds' = EnsureClaimed(cmds, cs.session, cs.exec, cfg)
    BY <1>2 DEF BindDirect
  <2> HIDE DEF id
  <2>3. cmds' = [cmds EXCEPT ![id] = NewRow(cs.session, None, cfg, "claimed", cs.exec)]
    BY <1>0, <2>2 DEF EnsureClaimed, id
  <2>4. /\ \A c \in Commands \ {id} : cmds'[c] = cmds[c]
        /\ cmds'[id].state = "claimed" /\ cmds'[id].exec = cs.exec
        /\ cmds'[id].session = cs.session /\ cmds'[id].config = cfg
    BY <1>t, <2>1, <2>3 DEF NewRow, Table
  <2>5. cfg \in Configs /\ Policy[cfg] # "never"
    BY DEF Unmetered
  <2>6. execs' = [execs EXCEPT ![cs.exec].prompt = {id}]
    BY <1>2 DEF BindDirect, id
  <2>7. \A e \in Execs : /\ execs'[e].session = execs[e].session
                         /\ execs'[e].status = execs[e].status
                         /\ execs'[e].prompt = IF e = cs.exec THEN {id} ELSE execs[e].prompt
    BY <1>t, <2>6 DEF ExecTable, ExecRow
  <2>8. RowsOK'
    BY <1>t, <1>0, <2>1, <2>4, <2>5, <2>7 DEF DeliveryInv, RowsOK
  <2>9. PromptsOK'
    BY <1>t, <1>0, <2>1, <2>4, <2>5, <2>7 DEF DeliveryInv, PromptsOK
  <2>10. OneRunning'
    BY <2>7 DEF DeliveryInv, OneRunning, RunningExecs
  <2> QED
    BY <1>b, <2>8, <2>9, <2>10 DEF DeliveryInv
<1> QED
  BY <1>1, <1>2

---------------------------------------------------------------------------
QueueInv == TypeInv /\ OwnerInv /\ DeliveryInv /\ AbortOK /\ BootListed

(* The conjunction is inductive.                                            *)
LEMMA NextQueue == QueueInv /\ [Next]_vars => QueueInv'
<1> SUFFICES ASSUME QueueInv, [Next]_vars PROVE QueueInv'
  OBVIOUS
<1> USE DEF QueueInv
<1>1. TypeInv' /\ OwnerInv'
  BY NextType, NextOwner
<1>2. BootListed'
  BY StepBoot
<1>3. AbortOK'
  BY StepSection DEF AbortOK, TypeInv, SectionOK, Preparing, Launching
<1>4. DeliveryInv'
  <2>1. CASE Claim
    BY <2>1, ClaimDelivery
  <2>2. CASE CreateRow
    BY <2>2, CreateDelivery
  <2>3. CASE BindBatch \/ BindDirect
    BY <2>3, BindDelivery
  <2>4. CASE \E s \in Sessions : StartDirect(s)
    BY <2>4, DirectDelivery
  <2>5. CASE Quiet(cmds, cmds') /\ Ends(execs, execs') /\ SectionKeeps
    BY <2>5, QuietDelivery
  <2> QED
    BY <2>1, <2>2, <2>3, <2>4, <2>5, StepMoves, StepEnds, StepSection
<1> QED
  BY <1>1, <1>2, <1>3, <1>4

(* It holds of the empty database.                                          *)
LEMMA InitQueue == Init => QueueInv
<1> SUFFICES ASSUME Init PROVE QueueInv
  OBVIOUS
<1>1. TypeInv /\ OwnerInv
  BY InitType, InitOwner
<1>2. /\ \A c \in Commands : cmds[c].state = "absent" /\ cmds[c].exec = None
      /\ \A e \in Execs : execs[e].status = "absent" /\ execs[e].prompt = {}
      /\ cs.pc = "idle" /\ ~Booting
  BY DEF Init, NoRow, NoExec, Idle, Booting
<1>3. RowsOK /\ PromptsOK
  BY <1>2 DEF RowsOK, PromptsOK
<1>4. OneRunning
  BY <1>2 DEF OneRunning, RunningExecs
<1>5. BatchOK
  BY <1>2 DEF BatchOK, Attempting, Preparing
<1> QED
  BY <1>1, <1>2, <1>3, <1>4, <1>5 DEF QueueInv, DeliveryInv, AbortOK, BootListed

(* Every reachable state satisfies it.                                      *)
LEMMA AlwaysQueue == Spec => []QueueInv
  BY InitQueue, NextQueue, PTL DEF Spec

(* No prompt is in the hands of two live agents at once, whatever sequence  *)
(* of stops, requeues, failed launches and restarts returned its command to *)
(* the queue: two live agents have running rows, hence different sessions,  *)
(* and a command belongs to one session.                                    *)
THEOREM DeliveredOnce == Spec => []NoDoubleDelivery
<1>1. QueueInv => NoDoubleDelivery
  <2> SUFFICES ASSUME QueueInv, NEW e \in Execs, NEW f \in Execs, e # f,
                      monitor[e] = "run", monitor[f] = "run",
                      NEW c \in execs[e].prompt, c \in execs[f].prompt
               PROVE  FALSE
    BY DEF NoDoubleDelivery
  <2>1. e \in RunningExecs(execs) /\ f \in RunningExecs(execs)
    BY DEF QueueInv, OwnerInv, LiveChildHasRunningRow, RunningExecs
  <2>2. execs[e].session = execs[f].session
    BY DEF QueueInv, DeliveryInv, PromptsOK
  <2> QED
    BY <2>1, <2>2 DEF QueueInv, DeliveryInv, OneRunning
<1> QED
  BY <1>1, AlwaysQueue, PTL

(* A row that names an execution is one whose body that execution was       *)
(* given: bind_execution stamps every unbound claimed row of the session,   *)
(* and all of those are in the batch the dispatcher read.                   *)
THEOREM BoundIsPrompted == Spec => []BoundWasPrompted
<1>1. QueueInv => BoundWasPrompted
  BY DEF QueueInv, DeliveryInv, RowsOK, BoundWasPrompted
<1> QED
  BY <1>1, AlwaysQueue, PTL

(* No agent is launched with a command whose policy is `never`: the gate on *)
(* the claimed head decides for the whole batch, which has one config.      *)
THEOREM NeverIsHeld == Spec => []NeverIsNeverLaunched
<1>1. QueueInv => NeverIsNeverLaunched
  BY DEF QueueInv, DeliveryInv, PromptsOK, NeverIsNeverLaunched
<1> QED
  BY <1>1, AlwaysQueue, PTL

(* done and cancelled are final: every statement that writes a row that     *)
(* exists has `pending`, `claimed` or `failed` in its WHERE clause.         *)
THEOREM TerminalIsFinal == Spec => TerminalStatesStick
<1>1. ASSUME QueueInv, [Next]_vars
      PROVE  \A c \in Commands : cmds[c].state \in {"done", "cancelled"} => cmds'[c] = cmds[c]
  <2> SUFFICES ASSUME NEW c \in Commands, cmds[c].state \in {"done", "cancelled"}
               PROVE  cmds'[c] = cmds[c]
    OBVIOUS
  <2>1. CASE Quiet(cmds, cmds')
    BY <2>1 DEF Quiet, Moved
  <2>2. CASE Claim
    <3>1. \A d \in ClaimBatch(cmds, cs.session) : cmds[d].state = "pending"
      BY DEF ClaimBatch, Rows
    <3> QED
      BY <2>2, <3>1 DEF Claim, ClaimPending, Update
  <2>3. CASE BindBatch
    BY <2>3 DEF BindBatch, BindExecution, Update, Unbound, Rows
  <2>4. CASE BindDirect
    <3> DEFINE id == Least(Free(cmds))
    <3>1. id \in Commands /\ cmds[id].state = "absent"
      BY <2>4, LeastCommand DEF BindDirect, Free
    <3>2. \/ cmds' = cmds
          \/ \E cfg : cmds' = [cmds EXCEPT ![id] = NewRow(cs.session, None, cfg, "claimed", cs.exec)]
      BY <2>4 DEF BindDirect, EnsureClaimed
    <3> HIDE DEF id
    <3>3. c # id /\ cmds \in Table
      BY <1>1, <3>1 DEF QueueInv, TypeInv, TypeOK, Table
    <3> QED
      BY <3>2, <3>3 DEF Table
  <2> QED
    BY <1>1, <2>1, <2>2, <2>3, <2>4, StepMoves DEF QueueInv
<1>2. QueueInv /\ [Next]_vars =>
        [\A c \in Commands : cmds[c].state \in {"done", "cancelled"} => cmds'[c] = cmds[c]]_vars
  BY <1>1
<1> QED
  BY <1>2, AlwaysQueue, PTL DEF Spec, TerminalStatesStick

---------------------------------------------------------------------------
(* Only a monitor publishes a success, and what a monitor publishes it      *)
(* chose under the lock of requested_stop.                                  *)
LEMMA OnlyPublishSucceeds ==
  ASSUME TypeInv, [Next]_vars, NEW e \in Execs, execs'[e].status = "completed"
  PROVE  execs[e].status = "completed" \/ (PublishCompletion(e) /\ "completed" \in Outcomes(e))
<1>t. execs \in ExecTable /\ TypeOK
  BY DEF TypeInv, TypeOK, ExecTable
<1>s. cs.pc \in Preparing \cup Launching => cs.exec \in Execs
  BY DEF TypeInv, SectionOK
<1>1. CASE UNCHANGED execs
  BY <1>1
<1>2. CASE CreateRow \/ BindFailed \/ FailAttempt
  BY <1>t, <1>s, <1>2, StatusOf DEF CreateRow, BindFailed, FailAttempt, At, Preparing, Launching
<1>3. CASE BindDirect
  <2> DEFINE p == {Least(Free(cmds))}
  <2>1. execs' = [execs EXCEPT ![cs.exec].prompt = p]
    BY <1>3 DEF BindDirect
  <2> HIDE DEF p
  <2> QED
    BY <1>t, <2>1 DEF ExecTable, ExecRow
<1>4. ASSUME NEW f \in Execs, PublishCompletion(f)
      PROVE  execs[e].status = "completed" \/ (PublishCompletion(e) /\ "completed" \in Outcomes(e))
  <2>1. PICK st \in Outcomes(f) : execs' = CompleteRunningAttempt(execs, f, st)
    BY <1>4 DEF PublishCompletion
  <2> QED
    BY <1>t, <1>4, <2>1, StatusOf
<1>5. ASSUME NEW r \in stops, OrphanComplete(r) PROVE execs[e].status = "completed"
  <2>1. r.exec \in Execs
    BY <1>t DEF TypeOK, Stop
  <2> QED
    BY <1>t, <1>5, <2>1, StatusOf DEF OrphanComplete
<1>6. CASE CleanupOrphan \/ Terminalize
  <2> DEFINE f == Least(boot.todo)
  <2>1. f \in Execs
    BY <1>6, <1>t, LeastExec DEF CleanupOrphan, Terminalize, TypeOK
  <2>2. \/ UNCHANGED execs \/ execs' = UpdateCompletion(execs, f, "failed")
        \/ execs' = UpdateCompletion(execs, f, "killed")
    BY <1>6 DEF CleanupOrphan, Terminalize
  <2> HIDE DEF f
  <2> QED
    BY <1>t, <2>1, <2>2, StatusOf
<1>7. CASE UNCHANGED vars
  BY <1>1, <1>7 DEF vars
<1>8. CASE ClientStep
  BY <1>8, <1>1 DEF ClientStep, FollowUp, FollowUpDeferred, Steer, CancelCommand, CancelQueued,
     RequeueCommands, RespondApproval, DispatchCommands, StartDirect, StopExecution, durable
<1>9. CASE Launch
  BY <1>1, <1>2, <1>3, <1>9 DEF Launch, Peek, Gate, ReleaseLeftover, Claim, Regate, Book, Admit,
     Undo, BindBatch, SpawnChild, SpawnFails, Abort, durable
<1>10. CASE \E f \in Execs : Monitor(f) \/ ChildExit(f)
  BY <1>1, <1>4, <1>10 DEF Monitor, ChildExit, PublishFails, FinishCommands, SweepQueue,
     SweepDone, RemoveEntry, durable
<1>11. CASE \E r \in stops : StopCall(r)
  BY <1>1, <1>5, <1>11 DEF StopCall, StopFound, StopMissing, StopKill, StopAwaited,
     OrphanRequeue, durable
<1>12. CASE BootSequence \/ Restart
  BY <1>1, <1>6, <1>12 DEF BootSequence, ReleaseOrphan, CleanupDone, RequeueInherited, BootSweep,
     BootDone, Restart, durable
<1>13. CASE \/ \E s \in Sessions : DispatchRequest(s) \/ SteerInterrupt(s)
            \/ \E w \in Sweepers : SweepNext(w) \/ SweepCheck(w)
  BY <1>1, <1>13 DEF DispatchRequest, SteerInterrupt, SweepNext, SweepCheck, durable
<1> QED
  BY <1>7, <1>8, <1>9, <1>10, <1>11, <1>12, <1>13 DEF Next, ServerStep

(* A stop that was recorded before the exit was published is never answered *)
(* by a success.                                                            *)
THEOREM StopNeverSucceeds == Spec => StopIsNeverSuccess
<1>1. ASSUME TypeInv, [Next]_vars
      PROVE  \A e \in Execs : stopReq[e] /\ execs[e].status = "running" =>
               execs'[e].status # "completed"
  <2> SUFFICES ASSUME NEW e \in Execs, stopReq[e], execs[e].status = "running",
                      execs'[e].status = "completed"
               PROVE  FALSE
    OBVIOUS
  <2>1. "completed" \in Outcomes(e)
    BY <1>1, OnlyPublishSucceeds
  <2> QED
    BY <2>1 DEF Outcomes
<1>2. TypeInv /\ [Next]_vars =>
        [\A e \in Execs : stopReq[e] /\ execs[e].status = "running" =>
           execs'[e].status # "completed"]_vars
  BY <1>1
<1> QED
  BY <1>2, AlwaysOwner, PTL DEF Spec, StopIsNeverSuccess

---------------------------------------------------------------------------
(* A monitor that finishes the commands has published, and the dispatcher   *)
(* fails the commands of a failed attempt or of one that has none.          *)
FinishAfterEnd == \A e \in Execs : monitor[e] = "finish" => execs[e].status \in Terminal
AbortAfterEnd ==
  cs.pc = "abort" => \/ execs[cs.exec].status = "failed"
                     \/ \A c \in Commands : cmds[c].exec # cs.exec
VerdictInv == VerdictMatchesExecution /\ FinishAfterEnd /\ AbortAfterEnd

(* A verdict about an execution is given once.                              *)
LEMMA StatusSticks ==
  ASSUME QueueInv, [Next]_vars, NEW f \in Execs, execs[f].status \in Terminal
  PROVE  execs'[f].status = execs[f].status
<1>t. TypeOK /\ execs \in ExecTable
  BY DEF QueueInv, TypeInv, TypeOK, ExecTable
<1>1. CASE Ends(execs, execs')
  BY <1>1 DEF Ends, Terminal
<1>2. CASE CreateRow
  <2>1. cs.exec \in Execs /\ execs[cs.exec].status = "absent"
    BY <1>2 DEF QueueInv, TypeInv, SectionOK, OwnerInv, AttemptHasNoRow, CreateRow, At, Preparing
  <2> QED
    BY <1>t, <1>2, <2>1, StatusOf DEF CreateRow, Terminal
<1>3. CASE BindDirect
  <2> DEFINE p == {Least(Free(cmds))}
  <2>1. execs' = [execs EXCEPT ![cs.exec].prompt = p]
    BY <1>3 DEF BindDirect
  <2> HIDE DEF p
  <2> QED
    BY <1>t, <2>1 DEF ExecTable, ExecRow
<1> QED
  BY <1>1, <1>2, <1>3, StepEnds DEF QueueInv

(* The publication is what sends a monitor on.                              *)
LEMMA FinishStep ==
  ASSUME QueueInv, FinishAfterEnd, [Next]_vars
  PROVE  FinishAfterEnd'
<1>t. TypeOK /\ execs \in ExecTable
  BY DEF QueueInv, TypeInv, TypeOK, ExecTable
<1>e. \A f \in Execs : execs[f].status \in Terminal => execs'[f].status \in Terminal
  BY StatusSticks
<1>1. ASSUME NEW e \in Execs, monitor'[e] = "finish", monitor[e] # "finish"
      PROVE  PublishCompletion(e) /\ execs[e].status = "running"
  <2>s. ASSUME NEW f \in Execs, NEW from, NEW to, MonitorStep(f, from, to)
        PROVE  f = e /\ to = "finish"
    BY <1>t, <1>1, <2>s DEF MonitorStep, TypeOK
  <2>u. monitor' # monitor
    BY <1>1
  <2>1. CASE Launch
    <3>1. SpawnChild
      BY <2>1, <2>u DEF Launch, Peek, Gate, ReleaseLeftover, Claim, Regate, Book, Admit, Undo,
         CreateRow, BindBatch, BindDirect, BindFailed, SpawnFails, FailAttempt, Abort, At
    <3>2. monitor'[e] \in {monitor[e], "run"}
      BY <1>t, <3>1 DEF SpawnChild, TypeOK
    <3> QED
      BY <1>1, <3>2
  <2>2. ASSUME NEW f \in Execs, Monitor(f) \/ ChildExit(f)
        PROVE  PublishCompletion(e) /\ execs[e].status = "running"
    <3>1. CASE PublishCompletion(f)
      <4> DEFINE to == IF execs[f].status = "running" THEN "finish" ELSE "cleanup"
      <4>1. MonitorStep(f, "exited", to)
        BY <3>1 DEF PublishCompletion
      <4> HIDE DEF to
      <4>2. f = e /\ to = "finish"
        BY <2>s, <4>1
      <4> QED
        BY <3>1, <4>2 DEF to
    <3> QED
      BY <2>2, <2>s, <2>u, <3>1 DEF Monitor, ChildExit, PublishFails, FinishCommands, SweepQueue,
         SweepDone, RemoveEntry
  <2>3. ASSUME NEW r \in stops, StopCall(r) PROVE FALSE
    <3>1. r.exec \in Execs
      BY <1>t DEF TypeOK, Stop
    <3> QED
      BY <2>3, <2>s, <2>u, <3>1 DEF StopCall, StopFound, StopMissing, StopKill, StopAwaited,
         OrphanComplete, OrphanRequeue
  <2>4. CASE Restart
    BY <1>1, <2>4 DEF Restart
  <2> QED
    BY <2>1, <2>2, <2>3, <2>4, <2>u DEF Next, vars, ClientStep, ServerStep, FollowUp,
       FollowUpDeferred, Steer, CancelCommand, CancelQueued, RequeueCommands, RespondApproval,
       DispatchCommands, StartDirect, StopExecution, DispatchRequest, SteerInterrupt, SweepNext,
       SweepCheck, BootSequence, CleanupOrphan, ReleaseOrphan, CleanupDone, Terminalize,
       RequeueInherited, BootSweep, BootDone, BootStep
<1>2. ASSUME NEW e \in Execs, PublishCompletion(e), execs[e].status = "running"
      PROVE  execs'[e].status \in Terminal
  <2>1. PICK st \in Outcomes(e) : execs' = CompleteRunningAttempt(execs, e, st)
    BY <1>2 DEF PublishCompletion
  <2>2. st \in Terminal
    BY DEF Outcomes, Terminal
  <2> QED
    BY <1>t, <1>2, <2>1, <2>2, StatusOf
<1> QED
  BY <1>e, <1>1, <1>2 DEF FinishAfterEnd

(* Nobody but its holder moves a critical section on; a crash ends it.      *)
LEMMA SectionHolder ==
  ASSUME [Next]_vars
  PROVE  Launch \/ UNCHANGED cs \/ cs.pc = "idle" \/ cs' = Idle
<1>1. CASE ClientStep
  BY <1>1 DEF ClientStep, FollowUp, FollowUpDeferred, Steer, CancelCommand, CancelQueued,
     RequeueCommands, RespondApproval, DispatchCommands, StopExecution, StartDirect, LockFree
<1>2. CASE \/ \E s \in Sessions : DispatchRequest(s) \/ SteerInterrupt(s)
           \/ \E w \in Sweepers : SweepNext(w) \/ SweepCheck(w)
  BY <1>2 DEF DispatchRequest, SteerInterrupt, SweepNext, SweepCheck, BeginDispatch, LockFree
<1>3. CASE \E e \in Execs : Monitor(e) \/ ChildExit(e)
  BY <1>3 DEF Monitor, ChildExit, PublishCompletion, PublishFails, FinishCommands, SweepQueue,
     SweepDone, RemoveEntry
<1>4. CASE \E r \in stops : StopCall(r)
  BY <1>4 DEF StopCall, StopFound, StopMissing, StopKill, StopAwaited, OrphanComplete,
     OrphanRequeue
<1>5. CASE BootSequence \/ Restart
  BY <1>5 DEF BootSequence, CleanupOrphan, ReleaseOrphan, CleanupDone, Terminalize,
     RequeueInherited, BootSweep, BootDone, BootStep, Restart
<1>6. CASE UNCHANGED vars
  BY <1>6 DEF vars
<1> QED
  BY <1>1, <1>2, <1>3, <1>4, <1>5, <1>6 DEF Next, ServerStep

(* The claim and the binds give no verdict.                                 *)
LEMMA ClaimsGiveNoVerdict ==
  ASSUME QueueInv, Claim \/ BindBatch \/ BindDirect
  PROVE  NoVerdict(cmds, cmds')
<1>t. cmds \in Table
  BY DEF QueueInv, TypeInv, TypeOK, Table
<1>1. CASE Claim
  BY <1>t, <1>1 DEF Claim, ClaimPending, Update, Table, CommandRow, NoVerdict
<1>2. CASE BindBatch
  BY <1>t, <1>2 DEF BindBatch, BindExecution, Update, Unbound, Rows, Table, CommandRow, NoVerdict
<1>3. CASE BindDirect
  <2> DEFINE id == Least(Free(cmds))
  <2>1. \/ cmds' = cmds
        \/ \E cfg : cmds' = [cmds EXCEPT ![id] = NewRow(cs.session, None, cfg, "claimed", cs.exec)]
    BY <1>3 DEF BindDirect, EnsureClaimed
  <2> HIDE DEF id
  <2> QED
    BY <1>t, <2>1 DEF Table, NewRow, NoVerdict
<1> QED
  BY <1>1, <1>2, <1>3

(* VerdictInv is inductive when no statement between bind and spawn fails.  *)
LEMMA NextVerdict ==
  ASSUME "turn" \notin Faults
  PROVE  QueueInv /\ VerdictInv /\ [Next]_vars => VerdictInv'
<1> SUFFICES ASSUME QueueInv, VerdictInv, [Next]_vars PROVE VerdictInv'
  OBVIOUS
<1>t. /\ TypeOK /\ cmds \in Table /\ execs \in ExecTable
      /\ \A c \in Commands : cmds[c].exec \in Execs \cup {None}
  BY DEF QueueInv, TypeInv, TypeOK, Table, ExecTable, CommandRow
<1>r. \A c \in Commands : cmds[c].state \in {"done", "failed"} => cmds[c].exec \in Execs
  BY <1>t DEF QueueInv, DeliveryInv, RowsOK
<1>1. FinishAfterEnd'
  BY FinishStep DEF VerdictInv
<1>2. VerdictMatchesExecution'
  <2> DEFINE V(r) == /\ r.state = "done" => execs'[r.exec].status = "completed"
                     /\ r.state = "failed" => execs'[r.exec].status \in {"failed", "killed"}
  <2>1. \A c \in Commands : V(cmds[c])
    BY <1>r, StatusSticks DEF VerdictInv, VerdictMatchesExecution, Terminal
  <2>2. ASSUME NoVerdict(cmds, cmds'), NEW c \in Commands PROVE V(cmds'[c])
    BY <2>1, <2>2 DEF NoVerdict
  <2>3. ASSUME NEW e \in Execs, FinishCommands(e), NEW c \in Commands PROVE V(cmds'[c])
    <3> DEFINE ok == execs[e].status = "completed"
    <3>1. ok \in BOOLEAN /\ cmds' = FinishExecution(cmds, e, ok) /\ UNCHANGED execs
      BY <2>3 DEF FinishCommands
    <3> HIDE DEF ok
    <3>2. cmds'[c].state \in {"done", "failed"} =>
            \/ cmds'[c] = cmds[c]
            \/ cmds'[c].exec = e /\ cmds'[c].state = IF ok THEN "done" ELSE "failed"
      BY <1>t, <3>1, FinishMoves
    <3>3. execs[e].status \in Terminal
      BY <2>3 DEF FinishCommands, MonitorStep, VerdictInv, FinishAfterEnd
    <3> QED
      BY <2>1, <3>1, <3>2, <3>3 DEF ok, Terminal
  <2>4. ASSUME Abort, NEW c \in Commands PROVE V(cmds'[c])
    <3> DEFINE ok == FALSE
    <3>1. /\ cs.exec \in Execs /\ ok \in BOOLEAN /\ UNCHANGED execs
          /\ cmds' = FinishExecution(cmds, cs.exec, ok)
      BY <2>4 DEF Abort, At, QueueInv, AbortOK
    <3> HIDE DEF ok
    <3>f. /\ Quiet(cmds, cmds')
          /\ cmds'[c].state \in {"done", "failed"} =>
               \/ cmds'[c] = cmds[c]
               \/ cmds'[c].exec = cs.exec /\ cmds'[c].state = IF ok THEN "done" ELSE "failed"
      BY <1>t, <3>1, FinishMoves
    <3>2. /\ Quiet(cmds, cmds')
          /\ cmds'[c].state \in {"done", "failed"} =>
               \/ cmds'[c] = cmds[c]
               \/ cmds'[c].exec = cs.exec /\ cmds'[c].state = "failed"
      BY <3>f DEF ok
    <3>3. cmds'[c].exec = cs.exec => execs[cs.exec].status = "failed"
      BY <2>4, <3>1, <3>2, QuietRows, TableAssumption
      DEF Abort, At, VerdictInv, AbortAfterEnd, Execs
    <3> QED
      BY <2>1, <3>1, <3>2, <3>3
  <2>5. \A c \in Commands : V(cmds'[c])
    BY <2>2, <2>3, <2>4, StepMoves, ClaimsGiveNoVerdict DEF QueueInv
  <2> QED
    BY <2>5 DEF VerdictMatchesExecution
<1>3. AbortAfterEnd'
  <2> SUFFICES ASSUME cs'.pc = "abort"
               PROVE  \/ execs'[cs'.exec].status = "failed"
                      \/ \A c \in Commands : cmds'[c].exec # cs'.exec
    BY DEF AbortAfterEnd
  <2>1. /\ cs'.exec = cs.exec /\ cs.exec \in Execs
        /\ cs.pc \in {"abort", "admit", "create", "bindfail", "spawn", "failcas"}
    BY StepSection DEF QueueInv, TypeInv, SectionOK, AbortOK, Preparing, Launching
  <2>2. CASE cs.pc \in {"abort", "admit", "create"}
    <3>1. \/ execs[cs.exec].status = "failed"
          \/ \A c \in Commands : cmds[c].exec # cs.exec
      BY <2>2 DEF VerdictInv, AbortAfterEnd, QueueInv, DeliveryInv, BatchOK, Attempting, Preparing
    <3>2. Quiet(cmds, cmds')
      BY <2>2, StepMoves DEF QueueInv, Claim, BindBatch, BindDirect, At
    <3> QED
      BY <2>1, <3>1, <3>2, QuietRows, StatusSticks, TableAssumption DEF Terminal, Execs
  <2>3. CASE cs.pc \in {"bindfail", "spawn", "failcas"}
    <3>1. Launch
      BY <2>3, SectionHolder DEF Idle
    <3>2. CASE BindFailed \/ FailAttempt
      <4>1. execs[cs.exec].status = "running"
        BY <3>2 DEF BindFailed, FailAttempt, At, QueueInv, OwnerInv, LaunchOwnsRow, Launching
      <4> QED
        BY <1>t, <2>1, <3>2, <4>1, StatusOf DEF BindFailed, FailAttempt
    <3>3. ~SpawnChild /\ ~SpawnFails
      BY <1>t, ReturnPc, GotoPc DEF SpawnChild, SpawnFails, Pc
    <3> QED
      BY <2>3, <3>1, <3>2, <3>3 DEF Launch, Peek, Gate, ReleaseLeftover, Claim, Regate, Book, Admit,
         Undo, CreateRow, BindBatch, BindDirect, Abort, At
  <2> QED
    BY <2>1, <2>2, <2>3
<1> QED
  BY <1>1, <1>2, <1>3 DEF VerdictInv

(* done and failed repeat the verdict of the execution the row names.  The  *)
(* assumption is needed: an SQL error between bind and spawn fails the      *)
(* commands of a row that stays running.                                    *)
THEOREM VerdictIsTrue ==
  ASSUME "turn" \notin Faults
  PROVE  Spec => []VerdictMatchesExecution
<1>1. Init => VerdictInv
  BY DEF Init, VerdictInv, VerdictMatchesExecution, FinishAfterEnd, AbortAfterEnd, NoRow, Idle
<1>2. QueueInv /\ VerdictInv /\ [Next]_vars => VerdictInv'
  BY NextVerdict
<1>3. Spec => []VerdictInv
  BY <1>1, <1>2, AlwaysQueue, PTL DEF Spec
<1> QED
  BY <1>3, PTL DEF VerdictInv

---------------------------------------------------------------------------
PolicyOf(c) == Policy[cmds[c].config]

(* The rows gate and record_auto_start write for a policy.                  *)
StatesOf(p) ==
  CASE p = "ask"   -> {"pending", "approved", "denied"}
    [] p = "auto"  -> {"auto_started"}
    [] p = "never" -> {"blocked"}
    [] OTHER       -> {}

(* A row that an answer or an attempt will still change.                    *)
Open(r) == r.state \in {"pending", "approved"} /\ r.exec = None

(* At most one row of a command is open, and it is the latest; an execution *)
(* is stamped on an approval or a record of an automatic start, and on one  *)
(* row of the table.                                                        *)
OpenIsLast(a) ==
  \A c \in Commands : \A i \in DOMAIN a[c] : Open(a[c][i]) => i = Len(a[c])
StampOK(a) ==
  \A c \in Commands : \A i \in DOMAIN a[c] :
    a[c][i].exec # None => a[c][i].state \in {"approved", "auto_started"}
OneStamp(a) ==
  \A c, d \in Commands : \A i \in DOMAIN a[c] : \A j \in DOMAIN a[d] :
    a[c][i].exec # None /\ a[c][i].exec = a[d][j].exec => c = d /\ i = j
Ledger(a) == OpenIsLast(a) /\ StampOK(a) /\ OneStamp(a)

(* Stamped rows stay as they are.                                           *)
Grows(a, b) ==
  \A c \in Commands : \A i \in DOMAIN a[c] :
    i \in DOMAIN b[c] /\ (a[c][i].exec # None => b[c][i] = a[c][i])

Mentions(a, e) == \E c \in Commands : \E i \in DOMAIN a[c] : a[c][i].exec = e

(* An insert for a command that has no open row; only record_auto_start     *)
(* inserts a stamped one.                                                   *)
Inserted(a, c, r) == [a EXCEPT ![c] = Append(a[c], r)]
NoneOpen(a, c) == \A i \in DOMAIN a[c] : ~Open(a[c][i])
MayInsert(a, r) == r.exec # None => r.state = "auto_started" /\ ~Mentions(a, r.exec)
OneMore(a, b, c, r) ==
  /\ \A d \in Commands : \A i \in DOMAIN b[d] :
       \/ i \in DOMAIN a[d] /\ b[d][i] = a[d][i]
       \/ d = c /\ b[d][i] = r
  /\ \E i \in DOMAIN b[c] : b[c][i] = r

(* The insert keeps the table in shape.                                     *)
LEMMA InsertKeeps ==
  ASSUME NEW a \in ApprovalTable, Ledger(a), NEW c \in Commands, NEW r \in Approval,
         NoneOpen(a, c), MayInsert(a, r), NEW b, b = Inserted(a, c, r)
  PROVE  Ledger(b) /\ Grows(a, b) /\ OneMore(a, b, c, r)
<1>1. \A d \in Commands : a[d] \in Seq(Approval)
  BY DEF ApprovalTable
<1>2. /\ \A d \in Commands \ {c} : b[d] = a[d]
      /\ b[c] = Append(a[c], r)
  BY DEF ApprovalTable, Inserted
<1>3. /\ Len(a[c]) \in Nat /\ DOMAIN a[c] = 1..Len(a[c])
      /\ Len(b[c]) = Len(a[c]) + 1 /\ DOMAIN b[c] = 1..(Len(a[c]) + 1)
      /\ \A i \in 1..Len(a[c]) : b[c][i] = a[c][i]
      /\ b[c][Len(a[c]) + 1] = r
  BY <1>1, <1>2
<1>4. \A d \in Commands : \A i \in DOMAIN b[d] :
        \/ i \in DOMAIN a[d] /\ b[d][i] = a[d][i]
        \/ d = c /\ b[d][i] = r /\ i = Len(a[c]) + 1
  BY <1>2, <1>3
<1>5. Grows(a, b)
  BY <1>2, <1>3 DEF Grows
<1>6. OpenIsLast(b)
  BY <1>2, <1>3, <1>4 DEF OpenIsLast, Ledger, NoneOpen
<1>7. StampOK(b)
  BY <1>4 DEF StampOK, Ledger, MayInsert
<1>8. OneStamp(b)
  BY <1>4 DEF OneStamp, Ledger, Mentions, MayInsert
<1>9. \E i \in DOMAIN b[c] : b[c][i] = r
  BY <1>3
<1> QED
  BY <1>4, <1>5, <1>6, <1>7, <1>8, <1>9 DEF Ledger, OneMore

(* gate inserts a row only for a command that has no open one.              *)
LEMMA GateInserts ==
  ASSUME NEW a \in ApprovalTable, Ledger(a), NEW c \in Commands, NEW cfg \in Configs,
         \A i \in DOMAIN a[c] : a[c][i].state \in StatesOf(Policy[cfg])
  PROVE  \/ GateEffect(a, c, cfg) = a
         \/ \E r \in Approval :
              /\ r.exec = None /\ r.state \in StatesOf(Policy[cfg])
              /\ NoneOpen(a, c)
              /\ GateEffect(a, c, cfg) = Inserted(a, c, r)
<1>t. a[c] \in Seq(Approval) /\ DOMAIN a[c] = 1..Len(a[c]) /\ Len(a[c]) \in Nat
  BY DEF ApprovalTable
<1> DEFINE p == ApprovalRow("pending", None)
           q == ApprovalRow("blocked", None)
<1>r. /\ p \in Approval /\ p.exec = None /\ p.state = "pending"
      /\ q \in Approval /\ q.exec = None /\ q.state = "blocked"
  BY DEF ApprovalRow, Approval, ApprovalStates
<1> HIDE DEF p, q
<1>1. CASE Policy[cfg] = "never"
  <2>1. GateEffect(a, c, cfg) \in {a, Inserted(a, c, q)}
    BY <1>1 DEF GateEffect, EnsureBlocked, Inserted, q
  <2>2. StatesOf(Policy[cfg]) = {"blocked"}
    BY <1>1 DEF StatesOf
  <2>3. NoneOpen(a, c)
    BY <2>2 DEF Open, NoneOpen
  <2> QED
    BY <1>r, <2>1, <2>2, <2>3
<1>2. CASE /\ Policy[cfg] = "ask" /\ ~Latest(a, c, "pending")
           /\ ~Unconsumed(a, c) /\ ~Latest(a, c, "denied")
  <2>1. GateEffect(a, c, cfg) \in {a, Inserted(a, c, p)}
    BY <1>2 DEF GateEffect, EnsurePending, Inserted, p
  <2>2. StatesOf(Policy[cfg]) = {"pending", "approved", "denied"}
    BY <1>2 DEF StatesOf
  <2>3. ASSUME NEW i \in DOMAIN a[c], Open(a[c][i]) PROVE FALSE
    <3>1. i = Len(a[c]) /\ a[c] # <<>>
      BY <1>t, <2>3 DEF Ledger, OpenIsLast
    <3> QED
      BY <1>2, <2>3, <3>1 DEF Open, Latest, Unconsumed
  <2>4. NoneOpen(a, c)
    BY <2>3 DEF NoneOpen
  <2> QED
    BY <1>r, <2>1, <2>2, <2>4
<1>3. CASE ~(\/ Policy[cfg] = "never"
             \/ /\ Policy[cfg] = "ask" /\ ~Latest(a, c, "pending")
                /\ ~Unconsumed(a, c) /\ ~Latest(a, c, "denied"))
  BY <1>3 DEF GateEffect
<1> QED
  BY <1>1, <1>2, <1>3

(* respond turns the pending row of one command into its answer.            *)
LEMMA RespondKeeps ==
  ASSUME NEW a \in ApprovalTable, Ledger(a), NEW c \in Commands, NEW ok
  PROVE  LET b == Respond(a, c, ok)
         IN  /\ Ledger(b) /\ Grows(a, b)
             /\ \A d \in Commands : Len(b[d]) = Len(a[d]) /\ DOMAIN b[d] = DOMAIN a[d]
             /\ \A d \in Commands : \A i \in DOMAIN a[d] :
                  /\ b[d][i].exec = a[d][i].exec
                  /\ \/ b[d][i] = a[d][i]
                     \/ a[d][i].state = "pending" /\ b[d][i].state \in {"approved", "denied"}
<1> DEFINE b == Respond(a, c, ok)
<1>1. \A d \in Commands : a[d] \in Seq(Approval)
  BY DEF ApprovalTable
<1>2. /\ \A d \in Commands \ {c} : b[d] = a[d]
      /\ DOMAIN b[c] = DOMAIN a[c]
      /\ \A i \in DOMAIN a[c] :
           b[c][i] = IF a[c][i].state = "pending"
                       THEN [a[c][i] EXCEPT !.state = IF ok THEN "approved" ELSE "denied"]
                       ELSE a[c][i]
  BY DEF Respond, ApprovalTable
<1>3. b \in ApprovalTable
  BY RewriteType
<1> HIDE DEF b
<1>4. \A d \in Commands : Len(b[d]) = Len(a[d]) /\ DOMAIN b[d] = DOMAIN a[d]
  <2>1. b[c] \in Seq(Approval) /\ a[c] \in Seq(Approval)
    BY <1>1, <1>3 DEF ApprovalTable
  <2>2. Len(b[c]) = Len(a[c])
    BY <1>2, <2>1
  <2> QED
    BY <1>2, <2>2
<1>5. \A d \in Commands : \A i \in DOMAIN a[d] :
        /\ b[d][i].exec = a[d][i].exec
        /\ \/ b[d][i] = a[d][i]
           \/ a[d][i].state = "pending" /\ b[d][i].state \in {"approved", "denied"}
  <2>1. \A i \in DOMAIN a[c] : a[c][i] \in Approval
    BY <1>1
  <2>2. \A i \in DOMAIN a[c] :
          /\ b[c][i].exec = a[c][i].exec
          /\ \/ b[c][i] = a[c][i]
             \/ a[c][i].state = "pending" /\ b[c][i].state \in {"approved", "denied"}
    BY <1>2, <2>1 DEF Approval
  <2> QED
    BY <1>2, <2>2
<1>6. OpenIsLast(b)
  BY <1>4, <1>5 DEF Ledger, OpenIsLast, Open
<1>7. StampOK(b) /\ OneStamp(b)
  BY <1>4, <1>5 DEF Ledger, StampOK, OneStamp
<1>8. Grows(a, b)
  BY <1>4, <1>5 DEF Ledger, StampOK, Grows
<1> QED
  BY <1>4, <1>5, <1>6, <1>7, <1>8 DEF Ledger, b

(* consume_approval stamps the one open approval of a command.              *)
LEMMA ConsumeKeeps ==
  ASSUME NEW a \in ApprovalTable, Ledger(a), NEW c \in Commands, NEW e \in Execs,
         Unconsumed(a, c), ~Mentions(a, e)
  PROVE  LET b == ConsumeApproval(a, c, e)
         IN  /\ Ledger(b) /\ Grows(a, b)
             /\ \A d \in Commands : DOMAIN b[d] = DOMAIN a[d]
             /\ \A d \in Commands : \A i \in DOMAIN a[d] : b[d][i].state = a[d][i].state
             /\ \E i \in DOMAIN b[c] : b[c][i] = ApprovalRow("approved", e)
<1> DEFINE b == ConsumeApproval(a, c, e)
           n == Len(a[c])
<1>1. \A d \in Commands : a[d] \in Seq(Approval)
  BY DEF ApprovalTable
<1>2. /\ \A d \in Commands \ {c} : b[d] = a[d]
      /\ DOMAIN b[c] = DOMAIN a[c]
      /\ \A i \in DOMAIN a[c] :
           b[c][i] = IF a[c][i].state = "approved" /\ a[c][i].exec = None
                       THEN [a[c][i] EXCEPT !.exec = e] ELSE a[c][i]
  BY DEF ConsumeApproval, ApprovalTable
<1>3. b \in ApprovalTable
  BY RewriteType
<1>4. n \in DOMAIN a[c] /\ a[c][n].state = "approved" /\ a[c][n].exec = None
  <2>1. a[c] \in Seq(Approval) /\ a[c] # <<>>
    BY <1>1 DEF Unconsumed, Latest
  <2>2. n \in DOMAIN a[c]
    BY <2>1
  <2> QED
    BY <2>2 DEF Unconsumed, Latest
<1> HIDE DEF b, n
<1>5. \A i \in DOMAIN a[c] : a[c][i].state = "approved" /\ a[c][i].exec = None => i = n
  BY DEF Ledger, OpenIsLast, Open, n
<1>6. /\ \A i \in DOMAIN a[c] \ {n} : b[c][i] = a[c][i]
      /\ b[c][n] = ApprovalRow("approved", e)
  <2>1. a[c][n] \in Approval
    BY <1>1, <1>4
  <2>2. b[c][n] = [a[c][n] EXCEPT !.exec = e]
    BY <1>2, <1>4
  <2>3. b[c][n] = ApprovalRow("approved", e)
    BY <1>4, <2>1, <2>2 DEF Approval, ApprovalRow
  <2> QED
    BY <1>2, <1>5, <2>3
<1>7. b[c][n].state = "approved" /\ b[c][n].exec = e /\ e # None
  BY <1>6, TableAssumption DEF ApprovalRow, Execs
<1>8. \A d \in Commands : DOMAIN b[d] = DOMAIN a[d] /\ Len(b[d]) = Len(a[d])
  <2>1. b[c] \in Seq(Approval) /\ a[c] \in Seq(Approval)
    BY <1>1, <1>3 DEF ApprovalTable
  <2>2. Len(b[c]) = Len(a[c])
    BY <1>2, <2>1
  <2> QED
    BY <1>2, <2>2
<1>9. \A d \in Commands : \A i \in DOMAIN a[d] :
        b[d][i] = a[d][i] \/ (d = c /\ i = n)
  BY <1>2, <1>6
<1>10. OpenIsLast(b)
  BY <1>7, <1>8, <1>9 DEF Ledger, OpenIsLast, Open
<1>11. StampOK(b)
  BY <1>7, <1>8, <1>9 DEF Ledger, StampOK
<1>12. OneStamp(b)
  BY <1>7, <1>8, <1>9 DEF Ledger, OneStamp, Mentions
<1>13. Grows(a, b)
  BY <1>4, <1>8, <1>9 DEF Grows
<1>14. \A d \in Commands : \A i \in DOMAIN a[d] : b[d][i].state = a[d][i].state
  BY <1>4, <1>7, <1>9
<1> QED
  BY <1>4, <1>6, <1>8, <1>10, <1>11, <1>12, <1>13, <1>14 DEF Ledger, b

---------------------------------------------------------------------------
(* A command has rows of its policy only.                                   *)
KindsOK ==
  \A c \in Commands : \A i \in DOMAIN approvals[c] :
    cmds[c].state # "absent" /\ approvals[c][i].state \in StatesOf(PolicyOf(c))

(* The row that covers an attempt e whose first command is h.               *)
Booked(e, h) ==
  PolicyOf(h) \in {"ask", "auto"} =>
    \E i \in DOMAIN approvals[h] :
      approvals[h][i] = ApprovalRow(IF PolicyOf(h) = "ask" THEN "approved" ELSE "auto_started", e)

(* The id of an attempt is stamped nowhere before the booking; what the     *)
(* second gate saw still holds then; from the booking on the row is there.  *)
SectionBooked ==
  /\ cs.pc = "gate" => cmds[cs.head].state # "absent"
  /\ cs.pc \in {"regate", "book"} => ~Stamped(cs.exec)
  /\ cs.pc = "book" => /\ PolicyOf(cs.head) \in {"ask", "auto"}
                       /\ PolicyOf(cs.head) = "ask" => Unconsumed(approvals, cs.head)
  /\ cs.pc \in {"admit", "create", "bind"} /\ cs.claim => Booked(cs.exec, cs.head)
  /\ cs.pc = "bind" => execs[cs.exec].claim = cs.claim

AttemptsBooked ==
  \A e \in Execs : execs[e].claim => execs[e].prompt # {} /\ Booked(e, Least(execs[e].prompt))

ApprovalInv == Ledger(approvals) /\ KindsOK /\ SectionBooked /\ AttemptsBooked

(* No step takes a row out of session_commands or changes its config.       *)
LEMMA RowsStay ==
  ASSUME QueueInv, [Next]_vars, NEW c \in Commands, cmds[c].state # "absent"
  PROVE  cmds'[c].state # "absent" /\ cmds'[c].config = cmds[c].config
<1>t. cmds \in Table
  BY DEF QueueInv, TypeInv, TypeOK, Table
<1>1. CASE Quiet(cmds, cmds')
  BY <1>1, QuietRows
<1>2. CASE Claim
  BY <1>t, <1>2 DEF Claim, ClaimPending, Update, Table, CommandRow
<1>3. CASE BindBatch
  BY <1>t, <1>3 DEF BindBatch, BindExecution, Update, Table, CommandRow
<1>4. CASE BindDirect
  <2> DEFINE id == Least(Free(cmds))
  <2>1. id \in Commands /\ cmds[id].state = "absent"
    BY <1>4, LeastCommand DEF BindDirect, Free
  <2>2. \/ cmds' = cmds
        \/ \E cfg : cmds' = [cmds EXCEPT ![id] = NewRow(cs.session, None, cfg, "claimed", cs.exec)]
    BY <1>4 DEF BindDirect, EnsureClaimed
  <2> HIDE DEF id
  <2>3. c # id
    BY <2>1
  <2> QED
    BY <1>t, <2>2, <2>3 DEF Table
<1> QED
  BY <1>1, <1>2, <1>3, <1>4, StepMoves DEF QueueInv

(* A booking lasts.                                                         *)
LEMMA BookingLasts ==
  ASSUME QueueInv, [Next]_vars, Grows(approvals, approvals'), NEW e \in Execs, NEW h \in Commands,
         cmds[h].state # "absent", Booked(e, h)
  PROVE  Booked(e, h)'
<1>1. PolicyOf(h)' = PolicyOf(h)
  BY RowsStay DEF PolicyOf
<1>2. e # None
  BY TableAssumption DEF Execs
<1>3. \A st : ApprovalRow(st, e).exec = e
  BY DEF ApprovalRow
<1> QED
  BY <1>1, <1>2, <1>3 DEF Booked, Grows

(* Only gate, the booking and an answer write metered_approvals.            *)
LEMMA StepApprovals ==
  ASSUME [Next]_vars
  PROVE  \/ UNCHANGED approvals
         \/ Gate \/ Regate \/ Book
         \/ \E c \in Commands, ok \in BOOLEAN : RespondApproval(c, ok)
<1>1. CASE ClientStep
  BY <1>1 DEF ClientStep, FollowUp, FollowUpDeferred, Steer, CancelCommand, CancelQueued,
     RequeueCommands, DispatchCommands, StopExecution, StartDirect, durable
<1>2. CASE Launch
  BY <1>2 DEF Launch, Peek, ReleaseLeftover, Claim, Admit, Undo, CreateRow, BindBatch, BindDirect,
     BindFailed, SpawnChild, SpawnFails, FailAttempt, Abort, durable
<1>3. CASE \E e \in Execs : Monitor(e) \/ ChildExit(e)
  BY <1>3 DEF Monitor, ChildExit, PublishCompletion, PublishFails, FinishCommands, SweepQueue,
     SweepDone, RemoveEntry, durable
<1>4. CASE \E r \in stops : StopCall(r)
  BY <1>4 DEF StopCall, StopFound, StopMissing, StopKill, StopAwaited, OrphanComplete,
     OrphanRequeue, durable
<1>5. CASE BootSequence \/ Restart
  BY <1>5 DEF BootSequence, CleanupOrphan, ReleaseOrphan, CleanupDone, Terminalize,
     RequeueInherited, BootSweep, BootDone, BootStep, Restart, durable
<1>6. CASE \/ \E s \in Sessions : DispatchRequest(s) \/ SteerInterrupt(s)
           \/ \E w \in Sweepers : SweepNext(w) \/ SweepCheck(w)
  BY <1>6 DEF DispatchRequest, SteerInterrupt, SweepNext, SweepCheck, durable
<1>7. CASE UNCHANGED vars
  BY <1>7 DEF vars
<1> QED
  BY <1>1, <1>2, <1>3, <1>4, <1>5, <1>6, <1>7 DEF Next, ServerStep

(* The head the section works on is a row of the table.                     *)
LEMMA HeadExists ==
  ASSUME QueueInv, SectionBooked,
         cs.pc = "gate" \/ (cs.pc \in Attempting /\ cs.claim)
  PROVE  /\ cs.head \in Commands /\ cmds[cs.head].state # "absent"
         /\ cmds[cs.head].config \in Configs
<1>1. cs.head \in Commands /\ cmds[cs.head].state # "absent"
  <2>1. CASE cs.pc = "gate"
    BY <2>1 DEF QueueInv, TypeInv, SectionOK, SectionBooked
  <2>2. CASE cs.pc \in Attempting /\ cs.claim
    <3>1. /\ cs.batch # {} /\ cs.head = Least(cs.batch)
          /\ \A c \in cs.batch : cmds[c].state # "absent"
      BY <2>2 DEF QueueInv, DeliveryInv, BatchOK
    <3>2. cs.batch \subseteq Commands
      BY DEF QueueInv, TypeInv, TypeOK, Section
    <3> QED
      BY <3>1, <3>2, LeastCommand
  <2> QED
    BY <2>1, <2>2
<1> QED
  BY <1>1 DEF QueueInv, DeliveryInv, RowsOK

(* The table keeps its shape, and stamped rows stay.                        *)
LEMMA LedgerStep ==
  ASSUME QueueInv, ApprovalInv, [Next]_vars
  PROVE  Ledger(approvals') /\ Grows(approvals, approvals') /\ KindsOK'
<1>t. approvals \in ApprovalTable
  BY DEF QueueInv, TypeInv, TypeOK, ApprovalTable
<1>k. \A c \in Commands : \A i \in DOMAIN approvals[c] :
        /\ cmds'[c].state # "absent"
        /\ approvals[c][i].state \in StatesOf(Policy[cmds'[c].config])
  BY RowsStay DEF ApprovalInv, KindsOK, PolicyOf
<1>l. Ledger(approvals)
  BY DEF ApprovalInv
<1>1. CASE UNCHANGED approvals
  BY <1>1, <1>k, <1>l DEF Grows, KindsOK, PolicyOf
<1>2. CASE Gate \/ Regate
  <2>1. /\ cs.head \in Commands /\ cmds[cs.head].state # "absent"
        /\ cmds[cs.head].config \in Configs
    BY <1>2, HeadExists DEF ApprovalInv, Gate, Regate, At, Attempting, Preparing, QueueInv,
       DeliveryInv, BatchOK
  <2>2. approvals' = GateEffect(approvals, cs.head, cmds[cs.head].config) /\ UNCHANGED cmds
    BY <1>2 DEF Gate, Regate
  <2>3. \A i \in DOMAIN approvals[cs.head] :
          approvals[cs.head][i].state \in StatesOf(Policy[cmds[cs.head].config])
    BY <2>1 DEF ApprovalInv, KindsOK, PolicyOf
  <2> DEFINE h == cs.head
             cfg == cmds[cs.head].config
             b == approvals'
  <2>4. /\ h \in Commands /\ cfg \in Configs /\ b = GateEffect(approvals, h, cfg)
        /\ \A i \in DOMAIN approvals[h] : approvals[h][i].state \in StatesOf(Policy[cfg])
        /\ Policy[cfg] = Policy[cmds'[h].config] /\ cmds'[h].state # "absent"
    BY <2>1, <2>2, <2>3 DEF PolicyOf
  <2> HIDE DEF h, cfg
  <2>5. \/ b = approvals
        \/ \E r \in Approval :
             /\ r.exec = None /\ r.state \in StatesOf(Policy[cfg])
             /\ NoneOpen(approvals, h) /\ b = Inserted(approvals, h, r)
    BY <1>t, <1>l, <2>4, GateInserts
  <2>6. ASSUME NEW r \in Approval, r.exec = None, r.state \in StatesOf(Policy[cfg]),
               NoneOpen(approvals, h), b = Inserted(approvals, h, r)
        PROVE  Ledger(approvals') /\ Grows(approvals, approvals') /\ KindsOK'
    <3>1. MayInsert(approvals, r)
      BY <2>6 DEF MayInsert
    <3> HIDE DEF b
    <3>2. Ledger(b) /\ Grows(approvals, b) /\ OneMore(approvals, b, h, r)
      BY <1>t, <1>l, <2>4, <2>6, <3>1, InsertKeeps
    <3> QED
      BY <1>k, <2>4, <2>6, <3>2 DEF KindsOK, OneMore, PolicyOf, b
  <2> QED
    BY <1>1, <2>5, <2>6
<1>3. CASE Book
  <2>0. cs.pc = "book" /\ cs.claim /\ UNCHANGED cmds
    BY <1>3 DEF Book, At, QueueInv, DeliveryInv, BatchOK
  <2>1. /\ cs.head \in Commands /\ cmds[cs.head].state # "absent"
        /\ cs.exec \in Execs /\ ~Mentions(approvals, cs.exec)
    BY <2>0, HeadExists DEF ApprovalInv, SectionBooked, Attempting, Preparing, QueueInv, TypeInv,
       SectionOK, Stamped, Mentions
  <2>2. CASE PolicyOf(cs.head) = "ask"
    <3>1. approvals' = ConsumeApproval(approvals, cs.head, cs.exec)
      BY <1>3, <2>2 DEF Book, PolicyOf
    <3>2. Unconsumed(approvals, cs.head)
      BY <2>0, <2>2 DEF ApprovalInv, SectionBooked
    <3>3. /\ Ledger(approvals') /\ Grows(approvals, approvals')
          /\ \A d \in Commands : DOMAIN approvals'[d] = DOMAIN approvals[d]
          /\ \A d \in Commands : \A i \in DOMAIN approvals[d] :
               approvals'[d][i].state = approvals[d][i].state
      BY <1>t, <1>l, <2>1, <3>1, <3>2, ConsumeKeeps
    <3> QED
      BY <1>k, <3>3 DEF KindsOK, PolicyOf
  <2>3. CASE PolicyOf(cs.head) # "ask"
    <3> DEFINE r == ApprovalRow("auto_started", cs.exec)
               h == cs.head
               b == approvals'
    <3>1. PolicyOf(h) = "auto" /\ Policy[cmds'[h].config] = PolicyOf(h) /\ cmds'[h].state # "absent"
      BY <2>0, <2>1, <2>3 DEF ApprovalInv, SectionBooked, PolicyOf
    <3>2. r \in Approval /\ r.exec = cs.exec /\ r.state = "auto_started" /\ h \in Commands
      BY <2>1 DEF ApprovalRow, Approval, ApprovalStates
    <3>3. approvals' = RecordAutoStart(approvals, cs.head, cs.exec)
      BY <1>3, <2>3 DEF Book, PolicyOf
    <3>4. b = Inserted(approvals, h, r)
      BY <2>1, <3>3 DEF RecordAutoStart, Mentions, Inserted
    <3> HIDE DEF r, h, b
    <3>5. StatesOf(PolicyOf(h)) = {"auto_started"}
      BY <3>1 DEF StatesOf
    <3>6. NoneOpen(approvals, h) /\ MayInsert(approvals, r)
      BY <2>1, <3>2, <3>5 DEF ApprovalInv, KindsOK, Open, NoneOpen, MayInsert
    <3>7. Ledger(b) /\ Grows(approvals, b) /\ OneMore(approvals, b, h, r)
      BY <1>t, <1>l, <3>2, <3>4, <3>6, InsertKeeps
    <3> QED
      BY <1>k, <3>1, <3>2, <3>5, <3>7 DEF KindsOK, OneMore, PolicyOf, b
  <2> QED
    BY <2>2, <2>3
<1>4. ASSUME NEW c \in Commands, NEW ok \in BOOLEAN, RespondApproval(c, ok)
      PROVE  Ledger(approvals') /\ Grows(approvals, approvals') /\ KindsOK'
  <2>1. approvals' = Respond(approvals, c, ok)
    BY <1>4 DEF RespondApproval
  <2>2. /\ Ledger(approvals') /\ Grows(approvals, approvals')
        /\ \A d \in Commands : Len(approvals'[d]) = Len(approvals[d])
                               /\ DOMAIN approvals'[d] = DOMAIN approvals[d]
        /\ \A d \in Commands : \A i \in DOMAIN approvals[d] :
             /\ approvals'[d][i].exec = approvals[d][i].exec
             /\ \/ approvals'[d][i] = approvals[d][i]
                \/ /\ approvals[d][i].state = "pending"
                   /\ approvals'[d][i].state \in {"approved", "denied"}
    BY <1>t, <1>l, <2>1, RespondKeeps
  <2>3. \A p : "pending" \in StatesOf(p) => {"approved", "denied"} \subseteq StatesOf(p)
    BY DEF StatesOf
  <2> QED
    BY <1>k, <2>2, <2>3 DEF KindsOK, PolicyOf
<1> QED
  BY <1>1, <1>2, <1>3, <1>4, StepApprovals

(* The booking stamps the row that covers the attempt.                      *)
LEMMA BookStamps ==
  ASSUME QueueInv, ApprovalInv, Book, NEW e, NEW h, e = cs.exec, h = cs.head
  PROVE  Booked(e, h)'
<1>t. approvals \in ApprovalTable /\ Ledger(approvals)
  BY DEF QueueInv, TypeInv, TypeOK, ApprovalTable, ApprovalInv
<1>0. cs.pc = "book" /\ cs.claim /\ UNCHANGED cmds
  BY DEF Book, At, QueueInv, DeliveryInv, BatchOK
<1>1. h \in Commands /\ e \in Execs /\ ~Mentions(approvals, e)
  BY <1>0, HeadExists DEF ApprovalInv, SectionBooked, Attempting, Preparing, QueueInv, TypeInv,
     SectionOK, Stamped, Mentions
<1>2. PolicyOf(h) \in {"ask", "auto"} /\ (PolicyOf(h) = "ask" => Unconsumed(approvals, h))
  BY <1>0 DEF ApprovalInv, SectionBooked
<1>3. Policy[cmds'[h].config] = PolicyOf(h)
  BY <1>0 DEF PolicyOf
<1> DEFINE b == approvals'
<1>4. CASE PolicyOf(h) = "ask"
  <2>1. b = ConsumeApproval(approvals, h, e)
    BY <1>4 DEF Book, PolicyOf
  <2> HIDE DEF b
  <2>2. \E i \in DOMAIN b[h] : b[h][i] = ApprovalRow("approved", e)
    BY <1>t, <1>1, <1>2, <1>4, <2>1, ConsumeKeeps
  <2> QED
    BY <1>3, <1>4, <2>2 DEF Booked, PolicyOf, b
<1>5. CASE PolicyOf(h) = "auto"
  <2> DEFINE r == ApprovalRow("auto_started", e)
  <2>1. b = Inserted(approvals, h, r)
    BY <1>1, <1>5 DEF Book, PolicyOf, RecordAutoStart, Mentions, Inserted
  <2>2. b[h] = Append(approvals[h], r) /\ approvals[h] \in Seq(Approval) /\ r \in Approval
    BY <1>t, <1>1, <2>1 DEF Inserted, ApprovalTable, ApprovalRow, Approval, ApprovalStates
  <2> HIDE DEF b, r
  <2>3. \E i \in DOMAIN b[h] : b[h][i] = r
    <3>1. /\ Len(approvals[h]) + 1 \in DOMAIN Append(approvals[h], r)
          /\ Append(approvals[h], r)[Len(approvals[h]) + 1] = r
      BY <2>2
    <3> QED
      BY <2>2, <3>1
  <2> QED
    BY <1>3, <1>5, <2>3 DEF Booked, PolicyOf, b, r
<1> QED
  BY <1>2, <1>4, <1>5

(* An answer takes nothing back.                                            *)
LEMMA RespondSection ==
  ASSUME QueueInv, ApprovalInv, UNCHANGED approvals \/ \E c \in Commands, ok \in BOOLEAN : RespondApproval(c, ok)
  PROVE  /\ \A e : Mentions(approvals', e) => Mentions(approvals, e)
         /\ \A h \in Commands : Unconsumed(approvals, h) => Unconsumed(approvals', h)
<1>t. approvals \in ApprovalTable /\ Ledger(approvals)
  BY DEF QueueInv, TypeInv, TypeOK, ApprovalTable, ApprovalInv
<1>1. CASE UNCHANGED approvals
  BY <1>1
<1>2. ASSUME NEW c \in Commands, NEW ok \in BOOLEAN, RespondApproval(c, ok)
      PROVE  /\ \A e : Mentions(approvals', e) => Mentions(approvals, e)
             /\ \A h \in Commands : Unconsumed(approvals, h) => Unconsumed(approvals', h)
  <2>1. approvals' = Respond(approvals, c, ok)
    BY <1>2 DEF RespondApproval
  <2>2. /\ \A d \in Commands : Len(approvals'[d]) = Len(approvals[d])
                               /\ DOMAIN approvals'[d] = DOMAIN approvals[d]
        /\ \A d \in Commands : \A i \in DOMAIN approvals[d] :
             /\ approvals'[d][i].exec = approvals[d][i].exec
             /\ \/ approvals'[d][i] = approvals[d][i]
                \/ /\ approvals[d][i].state = "pending"
                   /\ approvals'[d][i].state \in {"approved", "denied"}
    BY <1>t, <2>1, RespondKeeps
  <2>3. ASSUME NEW h \in Commands, Unconsumed(approvals, h) PROVE Unconsumed(approvals', h)
    <3>1. approvals[h] \in Seq(Approval) /\ approvals[h] # <<>>
      BY <1>t, <2>3 DEF ApprovalTable, Unconsumed, Latest
    <3>2. Len(approvals[h]) \in DOMAIN approvals[h]
      BY <3>1
    <3>3. approvals'[h] # <<>>
      BY <2>2, <3>2
    <3> QED
      BY <2>2, <2>3, <3>2, <3>3 DEF Unconsumed, Latest
  <2> QED
    BY <2>2, <2>3 DEF Mentions
<1> QED
  BY <1>1, <1>2

(* Between two statements of its holder the critical section rests, and     *)
(* from idle it begins with a dispatch or a direct start.                   *)
LEMMA SectionCallers ==
  ASSUME [Next]_vars
  PROVE  \/ Launch \/ UNCHANGED cs \/ cs'.pc \in {"idle", "peek"}
         \/ \E s \in Sessions : StartDirect(s)
<1>1. CASE ClientStep
  BY <1>1 DEF ClientStep, FollowUp, FollowUpDeferred, Steer, CancelCommand, CancelQueued,
     RequeueCommands, RespondApproval, DispatchCommands, StopExecution
<1>2. ASSUME NEW s, NEW by, BeginDispatch(s, by) PROVE cs'.pc \in {"idle", "peek"}
  BY <1>2 DEF BeginDispatch, Section0, Idle
<1>3. CASE \/ \E s \in Sessions : DispatchRequest(s) \/ SteerInterrupt(s)
           \/ \E w \in Sweepers : SweepNext(w) \/ SweepCheck(w)
  BY <1>2, <1>3 DEF DispatchRequest, SteerInterrupt, SweepNext, SweepCheck
<1>4. CASE \E e \in Execs : Monitor(e) \/ ChildExit(e)
  BY <1>4 DEF Monitor, ChildExit, PublishCompletion, PublishFails, FinishCommands, SweepQueue,
     SweepDone, RemoveEntry
<1>5. CASE \E r \in stops : StopCall(r)
  BY <1>5 DEF StopCall, StopFound, StopMissing, StopKill, StopAwaited, OrphanComplete,
     OrphanRequeue
<1>6. CASE BootSequence \/ Restart
  BY <1>6 DEF BootSequence, CleanupOrphan, ReleaseOrphan, CleanupDone, Terminalize,
     RequeueInherited, BootSweep, BootDone, BootStep, Restart, Idle
<1>7. CASE UNCHANGED vars
  BY <1>7 DEF vars
<1> QED
  BY <1>1, <1>3, <1>4, <1>5, <1>6, <1>7 DEF Next, ServerStep

(* A claim works under an id that is stamped nowhere.                       *)
LEMMA ClaimBooks ==
  ASSUME QueueInv, Claim
  PROVE  SectionBooked'
<1>t. TypeOK
  BY DEF QueueInv, TypeInv
<1> DEFINE e == Least(FreshExecs)
           h == Least(ClaimBatch(cmds, cs.session))
           b == ClaimBatch(cmds, cs.session)
<1>1. \/ Return("none")
      \/ /\ FreshExecs # {} /\ UNCHANGED approvals
         /\ cs' = [cs EXCEPT !.pc = "regate", !.exec = e, !.head = h, !.batch = b]
  BY DEF Claim
<1>2. CASE Return("none")
  BY <1>t, <1>2, ReturnPc DEF SectionBooked
<1>3. CASE /\ FreshExecs # {} /\ UNCHANGED approvals
           /\ cs' = [cs EXCEPT !.pc = "regate", !.exec = e, !.head = h, !.batch = b]
  <2>1. e \in FreshExecs
    BY <1>3, LeastExec DEF FreshExecs
  <2>2. ~Mentions(approvals, e)
    BY <2>1 DEF FreshExecs, Stamped, Mentions
  <2> HIDE DEF e, h, b
  <2>3. cs'.pc = "regate" /\ cs'.exec = e
    BY <1>t, <1>3 DEF TypeOK, Section
  <2>4. ~Mentions(approvals', cs'.exec)
    BY <1>3, <2>2, <2>3
  <2> QED
    BY <2>3, <2>4 DEF SectionBooked, Stamped, Mentions
<1> QED
  BY <1>1, <1>2, <1>3

(* What the second gate lets through is unmetered, automatic, or approved.  *)
LEMMA RegateBooks ==
  ASSUME QueueInv, ApprovalInv, Regate
  PROVE  SectionBooked'
<1>t. TypeOK /\ UNCHANGED cmds /\ cs.pc = "regate"
  BY DEF QueueInv, TypeInv, Regate, At
<1> DEFINE cfg == cmds[cs.head].config
           pc == IF ~GateProceeds(approvals, cs.head, cfg) THEN "undo"
                 ELSE IF Policy[cfg] = "unmetered" THEN "admit" ELSE "book"
<1>1. pc \in Pc /\ Goto(pc)
  BY DEF Regate, Pc
<1> HIDE DEF pc
<1>2. cs'.pc = pc /\ SameLocals
  BY <1>t, <1>1, GotoLocals
<1>3. CASE pc = "undo"
  BY <1>2, <1>3 DEF SectionBooked
<1>4. CASE pc = "admit"
  <2>1. Policy[cmds'[cs'.head].config] = "unmetered"
    BY <1>t, <1>2, <1>4 DEF pc, SameLocals
  <2> QED
    BY <1>2, <1>4, <2>1 DEF SectionBooked, Booked, PolicyOf
<1>5. CASE pc = "book"
  <2>1. GateProceeds(approvals, cs.head, cfg) /\ Policy[cfg] # "unmetered"
    BY <1>5 DEF pc
  <2>2. Policy[cfg] \in {"ask", "auto"} /\ (Policy[cfg] = "ask" => Unconsumed(approvals, cs.head))
    BY <2>1 DEF GateProceeds
  <2>3. UNCHANGED approvals
    BY <2>2 DEF Regate, GateEffect
  <2>4. ~Mentions(approvals, cs.exec)
    BY <1>t DEF ApprovalInv, SectionBooked, Stamped, Mentions
  <2>5. ~Mentions(approvals', cs'.exec)
    BY <1>2, <2>3, <2>4 DEF SameLocals
  <2>6. /\ Policy[cmds'[cs'.head].config] \in {"ask", "auto"}
        /\ Policy[cmds'[cs'.head].config] = "ask" => Unconsumed(approvals', cs'.head)
    BY <1>t, <1>2, <2>2, <2>3 DEF SameLocals
  <2> QED
    BY <1>2, <1>5, <2>5, <2>6 DEF SectionBooked, Stamped, Mentions, PolicyOf
<1> QED
  BY <1>3, <1>4, <1>5 DEF pc

(* A row of the section that still waits for the insert keeps its booking.  *)
LEMMA SectionBookingLasts ==
  ASSUME QueueInv, ApprovalInv, [Next]_vars, SameLocals, cs.claim,
         cs.pc \in {"admit", "create", "bind"}
  PROVE  Booked(cs.exec, cs.head)'
<1>1. cs.exec \in Execs /\ Booked(cs.exec, cs.head)
  BY DEF QueueInv, TypeInv, SectionOK, ApprovalInv, SectionBooked, Preparing, Launching
<1>2. cs.head \in Commands /\ cmds[cs.head].state # "absent"
  BY HeadExists DEF ApprovalInv, Attempting, Preparing
<1>3. PICK e \in Execs, h \in Commands : e = cs.exec /\ h = cs.head
  BY <1>1, <1>2
<1>4. Booked(e, h) /\ cmds[h].state # "absent"
  BY <1>1, <1>2, <1>3
<1>5. Booked(e, h)'
  BY <1>4, BookingLasts, LedgerStep
<1>6. cs'.exec = e /\ cs'.head = h
  BY <1>3 DEF SameLocals
<1> QED
  BY <1>5, <1>6 DEF Booked, PolicyOf

(* Nothing that other tasks do in between disturbs the section.             *)
LEMMA RestBooked ==
  ASSUME QueueInv, ApprovalInv, [Next]_vars, UNCHANGED cs
  PROVE  SectionBooked'
<1>t. TypeOK
  BY DEF QueueInv, TypeInv
<1>s. SameLocals /\ SectionBooked
  BY DEF SameLocals, ApprovalInv
<1>g. ASSUME NEW pc \in Pc, Goto(pc) PROVE cs.pc = pc
  BY <1>t, <1>g, GotoLocals
<1>r. ASSUME NEW res, Return(res) PROVE cs.pc = "idle"
  BY <1>t, <1>r, ReturnPc
<1>f. Fail => cs.pc \in {"idle", "abort"}
  BY <1>t, FailPc
<1>1. ~Gate /\ ~Regate /\ ~Book
  BY <1>g, <1>r DEF Gate, Regate, Book, At, Pc
<1>2. ~CreateRow /\ ~BindDirect
  BY <1>g, <1>f DEF CreateRow, BindDirect, At, Pc
<1>3. /\ \A e : Mentions(approvals', e) => Mentions(approvals, e)
      /\ \A h \in Commands : Unconsumed(approvals, h) => Unconsumed(approvals', h)
  BY <1>1, StepApprovals, RespondSection
<1>4. Ends(execs, execs')
  BY <1>2, StepEnds DEF QueueInv
<1>5. cs.pc = "gate" => cmds'[cs.head].state # "absent"
  BY HeadExists, RowsStay, <1>s
<1>6. cs.pc \in {"regate", "book"} => ~Mentions(approvals', cs.exec)
  BY <1>s, <1>3 DEF SectionBooked, Stamped, Mentions
<1>7. ASSUME cs.pc = "book"
      PROVE  /\ Policy[cmds'[cs.head].config] \in {"ask", "auto"}
             /\ Policy[cmds'[cs.head].config] = "ask" => Unconsumed(approvals', cs.head)
  <2>1. cs.head \in Commands /\ cmds[cs.head].state # "absent"
    BY <1>s, <1>7, HeadExists DEF Attempting, Preparing, QueueInv, DeliveryInv, BatchOK
  <2>2. cmds'[cs.head].config = cmds[cs.head].config
    BY <2>1, RowsStay
  <2> QED
    BY <1>s, <1>3, <1>7, <2>1, <2>2 DEF SectionBooked, PolicyOf
<1>8. cs.pc \in {"admit", "create", "bind"} /\ cs.claim => Booked(cs.exec, cs.head)'
  BY <1>s, SectionBookingLasts
<1>9. cs.pc = "bind" => execs'[cs.exec].claim = cs.claim
  BY <1>s, <1>4 DEF SectionBooked, Ends, QueueInv, TypeInv, SectionOK, Launching
<1> QED
  BY <1>5, <1>6, <1>7, <1>8, <1>9 DEF SectionBooked, Stamped, Mentions, PolicyOf

(* Every statement of the dispatcher.                                       *)
LEMMA SectionStepBooked ==
  ASSUME QueueInv, ApprovalInv, [Next]_vars
  PROVE  SectionBooked'
<1>t. TypeOK /\ SectionBooked
  BY DEF QueueInv, TypeInv, ApprovalInv
<1>n. ASSUME cs'.pc \notin {"gate", "regate", "book", "admit", "create", "bind"}
      PROVE  SectionBooked'
  BY <1>n DEF SectionBooked
<1>g. ASSUME NEW pc \in Pc, Goto(pc) PROVE cs'.pc = pc /\ SameLocals
  BY <1>t, <1>g, GotoLocals
<1>r. ASSUME NEW res, Return(res) PROVE SectionBooked'
  BY <1>t, <1>r, <1>n, ReturnPc
<1>f. ASSUME Fail PROVE SectionBooked'
  BY <1>t, <1>f, <1>n, FailPc
<1>1. CASE UNCHANGED cs
  BY <1>1, RestBooked
<1>2. CASE cs'.pc \in {"idle", "peek"}
  BY <1>2, <1>n
<1>3. ASSUME NEW s \in Sessions, StartDirect(s) PROVE SectionBooked'
  <2>1. cs'.pc = "create" /\ cs'.claim = FALSE
    BY <1>3 DEF StartDirect, Section0, Idle
  <2> QED
    BY <2>1 DEF SectionBooked
<1>4. CASE Peek
  <2> DEFINE rows == Rows(cmds, cs.session, {"pending"})
             h == Least(rows)
  <2>1. /\ UNCHANGED cmds
        /\ \/ cs' = [cs EXCEPT !.pc = "release"]
           \/ rows # {} /\ cs' = [cs EXCEPT !.pc = "gate", !.head = h]
    BY <1>4 DEF Peek, durable
  <2>2. rows # {} => cmds[h].state # "absent"
    BY LeastCommand DEF Rows
  <2> HIDE DEF rows, h
  <2>3. CASE cs' = [cs EXCEPT !.pc = "release"]
    BY <1>t, <1>n, <2>3 DEF TypeOK, Section
  <2>4. CASE rows # {} /\ cs' = [cs EXCEPT !.pc = "gate", !.head = h]
    <3>1. cs'.pc = "gate" /\ cs'.head = h
      BY <1>t, <2>4 DEF TypeOK, Section
    <3> QED
      BY <2>1, <2>2, <2>4, <3>1 DEF SectionBooked
  <2> QED
    BY <2>1, <2>3, <2>4
<1>5. CASE Gate \/ ReleaseLeftover \/ Undo \/ Abort
  BY <1>5, <1>g, <1>r, <1>n DEF Gate, ReleaseLeftover, Undo, Abort, Pc
<1>6. CASE Claim
  BY <1>6, ClaimBooks
<1>7. CASE Regate
  BY <1>7, RegateBooks
<1>8. CASE Book
  <2>1. cs'.pc = "admit" /\ SameLocals
    BY <1>8, <1>g DEF Book, Pc
  <2>2. PICK e, h : e = cs.exec /\ h = cs.head
    OBVIOUS
  <2>3. Booked(e, h)'
    BY <1>8, <2>2, BookStamps
  <2>4. cs'.exec = e /\ cs'.head = h
    BY <2>1, <2>2 DEF SameLocals
  <2> QED
    BY <2>1, <2>3, <2>4 DEF SectionBooked, Booked, PolicyOf
<1>9. CASE Admit
  <2>1. cs.pc = "admit" /\ SameLocals /\ cs'.pc \in {"abort", "undo", "create"}
    BY <1>9, <1>g DEF Admit, At, Pc
  <2>2. cs.claim => Booked(cs.exec, cs.head)'
    BY <2>1, SectionBookingLasts
  <2> QED
    BY <2>1, <2>2 DEF SectionBooked, SameLocals
<1>10. CASE CreateRow
  <2>1. CASE Fail
    BY <1>f, <2>1
  <2>2. CASE execs' = Create(execs, cs.exec, cs.session, cs.batch, cs.claim) /\ Goto("bind")
    <3>1. cs.pc = "create" /\ SameLocals /\ cs'.pc = "bind"
      BY <1>10, <1>g, <2>2 DEF CreateRow, At, Pc
    <3>2. cs.claim => Booked(cs.exec, cs.head)'
      BY <3>1, SectionBookingLasts
    <3>3. cs.exec \in Execs
      BY <3>1 DEF QueueInv, TypeInv, SectionOK, Preparing
    <3>4. execs'[cs.exec].claim = cs.claim
      BY <1>t, <2>2, <3>3 DEF Create, TypeOK
    <3> QED
      BY <3>1, <3>2, <3>4 DEF SectionBooked, SameLocals
  <2> QED
    BY <1>10, <2>1, <2>2 DEF CreateRow
<1>11. CASE BindBatch \/ BindDirect \/ BindFailed \/ FailAttempt
  BY <1>11, <1>g, <1>n DEF BindBatch, BindDirect, BindFailed, FailAttempt, Pc
<1>12. CASE SpawnChild \/ SpawnFails
  BY <1>12, <1>g, <1>n, <1>r, <1>f DEF SpawnChild, SpawnFails, Pc
<1> QED
  BY <1>1, <1>2, <1>3, <1>4, <1>5, <1>6, <1>7, <1>8, <1>9, <1>10, <1>11, <1>12, SectionCallers
  DEF Launch

(* What an execution was given is fixed with its row, and its booking with  *)
(* it; a direct start claims nothing.                                       *)
LEMMA AttemptsStepBooked ==
  ASSUME QueueInv, ApprovalInv, [Next]_vars
  PROVE  AttemptsBooked'
<1> SUFFICES ASSUME NEW e \in Execs, execs'[e].claim
             PROVE  execs'[e].prompt # {} /\ Booked(e, Least(execs[e].prompt))'
  BY DEF AttemptsBooked
<1>t. TypeOK /\ execs \in ExecTable
  BY DEF QueueInv, TypeInv, TypeOK, ExecTable
<1>g. Grows(approvals, approvals')
  BY LedgerStep
<1>1. ASSUME execs[e].claim, execs'[e].prompt = execs[e].prompt
      PROVE  execs'[e].prompt # {} /\ Booked(e, Least(execs[e].prompt))'
  <2>1. execs[e].prompt # {} /\ Booked(e, Least(execs[e].prompt))
    BY <1>1 DEF ApprovalInv, AttemptsBooked
  <2>2. execs[e].prompt \in SUBSET Commands
    BY <1>t DEF ExecTable, ExecRow
  <2>3. PICK h \in Commands : h = Least(execs[e].prompt) /\ h \in execs[e].prompt
    BY <2>1, <2>2, LeastCommand
  <2>4. cmds[h].state # "absent" /\ Booked(e, h)
    BY <2>1, <2>3 DEF QueueInv, DeliveryInv, PromptsOK
  <2>5. Booked(e, h)'
    BY <1>g, <2>4, BookingLasts
  <2>6. Least(execs'[e].prompt) = h
    BY <1>1, <2>3
  <2> QED
    BY <1>1, <2>1, <2>5, <2>6 DEF Booked, PolicyOf
<1>2. CASE Ends(execs, execs')
  BY <1>1, <1>2 DEF Ends
<1>3. CASE CreateRow
  <2>0. cs.pc = "create" /\ cs.exec \in Execs
    BY <1>3 DEF CreateRow, At, QueueInv, TypeInv, SectionOK, Preparing
  <2>1. \/ UNCHANGED execs
        \/ execs' = Create(execs, cs.exec, cs.session, cs.batch, cs.claim) /\ Goto("bind")
    BY <1>3 DEF CreateRow
  <2>2. CASE UNCHANGED execs
    BY <1>1, <2>2
  <2>3. CASE execs' = Create(execs, cs.exec, cs.session, cs.batch, cs.claim) /\ Goto("bind")
    <3>1. CASE e # cs.exec
      BY <1>1, <1>t, <2>3, <3>1 DEF Create, ExecTable
    <3>2. CASE e = cs.exec
      <4>1. execs'[e].claim = cs.claim /\ execs'[e].prompt = cs.batch
        BY <1>t, <2>0, <2>3, <3>2 DEF Create, ExecTable
      <4>2. cs.batch # {} /\ cs.head = Least(cs.batch)
        BY <2>0, <4>1 DEF QueueInv, DeliveryInv, BatchOK, Attempting, Preparing
      <4>3. SameLocals
        BY <1>t, <2>3, GotoLocals DEF Pc
      <4>4. Booked(cs.exec, cs.head)'
        BY <2>0, <4>1, <4>3, SectionBookingLasts
      <4>5. cs'.exec = e /\ cs'.head = Least(execs'[e].prompt)
        BY <3>2, <4>1, <4>2, <4>3 DEF SameLocals
      <4> QED
        BY <4>1, <4>2, <4>4, <4>5 DEF Booked, PolicyOf
    <3> QED
      BY <3>1, <3>2
  <2> QED
    BY <2>1, <2>2, <2>3
<1>4. CASE BindDirect
  <2> DEFINE p == {Least(Free(cmds))}
  <2>1. execs' = [execs EXCEPT ![cs.exec].prompt = p]
    BY <1>4 DEF BindDirect
  <2>2. execs[cs.exec].claim = FALSE /\ cs.exec \in Execs
    BY <1>4 DEF BindDirect, At, ApprovalInv, SectionBooked, QueueInv, TypeInv, SectionOK,
       Launching, TypeOK, Section
  <2> HIDE DEF p
  <2>3. e # cs.exec
    BY <1>t, <2>1, <2>2 DEF ExecTable, ExecRow
  <2>4. execs'[e] = execs[e]
    BY <1>t, <2>1, <2>3 DEF ExecTable
  <2> QED
    BY <1>1, <2>4
<1> QED
  BY <1>2, <1>3, <1>4, StepEnds DEF QueueInv

(* ApprovalInv holds in every reachable state.                              *)
LEMMA AlwaysApproval == Spec => []ApprovalInv
<1>1. Init => ApprovalInv
  <2> SUFFICES ASSUME Init PROVE ApprovalInv
    OBVIOUS
  <2>1. \A c \in Commands : DOMAIN approvals[c] = {}
    BY DEF Init
  <2>2. Ledger(approvals) /\ KindsOK
    BY <2>1 DEF Ledger, OpenIsLast, StampOK, OneStamp, KindsOK
  <2>3. SectionBooked
    BY DEF Init, SectionBooked, Idle
  <2>4. AttemptsBooked
    BY DEF Init, AttemptsBooked, NoExec
  <2> QED
    BY <2>2, <2>3, <2>4 DEF ApprovalInv
<1>2. ASSUME QueueInv, ApprovalInv, [Next]_vars PROVE ApprovalInv'
  <2>1. Ledger(approvals') /\ KindsOK'
    BY <1>2, LedgerStep
  <2>2. SectionBooked'
    BY <1>2, SectionStepBooked
  <2>3. AttemptsBooked'
    BY <1>2, AttemptsStepBooked
  <2> QED
    BY <2>1, <2>2, <2>3 DEF ApprovalInv
<1>3. QueueInv /\ ApprovalInv /\ [Next]_vars => ApprovalInv'
  BY <1>2
<1> QED
  BY <1>1, <1>3, AlwaysQueue, PTL DEF Spec

(* An attempt whose first command is metered holds exactly one row of       *)
(* metered_approvals, whatever crashed, was refused or was cancelled between *)
(* the answer, the booking and the insert of its row.                       *)
THEOREM AttemptsAreAuthorized == Spec => []HeadAuthorized
<1>1. QueueInv /\ ApprovalInv => HeadAuthorized
  <2> SUFFICES ASSUME QueueInv, ApprovalInv, NEW e \in Execs, execs[e].claim, NEW h,
                      h = Least(execs[e].prompt), Policy[cmds[h].config] \in {"ask", "auto"},
                      NEW st, st = IF Policy[cmds[h].config] = "ask" THEN "approved" ELSE "auto_started"
               PROVE  \E i \in DOMAIN approvals[h] :
                        /\ approvals[h][i] = ApprovalRow(st, e)
                        /\ \A c \in Commands : \A j \in DOMAIN approvals[c] :
                             approvals[c][j].exec = e => <<c, j>> = <<h, i>>
    BY DEF HeadAuthorized
  <2>1. PICK i \in DOMAIN approvals[h] : approvals[h][i] = ApprovalRow(st, e)
    BY DEF ApprovalInv, AttemptsBooked, Booked, PolicyOf
  <2>2. approvals[h][i].exec = e /\ e # None
    BY <2>1, TableAssumption DEF ApprovalRow, Execs
  <2>3. h \in Commands
    BY LeastCommand DEF QueueInv, TypeInv, TypeOK, ExecRow, ApprovalInv, AttemptsBooked
  <2> QED
    BY <2>1, <2>2, <2>3 DEF ApprovalInv, Ledger, OneStamp
<1> QED
  BY <1>1, AlwaysQueue, AlwaysApproval, PTL
===========================================================================
