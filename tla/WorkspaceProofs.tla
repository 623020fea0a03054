-------------------------- MODULE WorkspaceProofs --------------------------
(***************************************************************************)
(* For every number of workspaces, repositories and handlers: an agent     *)
(* keeps its worktrees, a crash's directories are swept, and a drain is    *)
(* quiet.                                                                  *)
(***************************************************************************)
EXTENDS Workspaces, TLAPS

Kinds == {"create", "launch", "access", "delete"}
Working == {"mkdir", "trees", "admit", "row", "spawn"}
Removing == {"stopped", "forget", "remove"}
Places == Working \cup Removing \cup {"idle", "failed", "undo"}

Snap == [ref : BOOLEAN, deleted : BOOLEAN]
Dir == [dir : BOOLEAN, trees : SUBSET Repos]
Request == [at : Places, kind : Kinds \cup {None}, w : Ids \cup {None},
            snap : Snap \cup {None}, todo : SUBSET Repos]
Cleaner == [at : {"orphans", "orphan", "idle", "archive", "expired", "clean", "mark"},
            list : SUBSET Ids, w : Ids \cup {None}, todo : SUBSET Repos]

WorkType ==
  /\ born \subseteq Ids /\ rows \in [Ids -> Row \cup {None}]
  /\ running \subseteq Ids /\ inherited \subseteq Ids
  /\ disk \in [Ids -> Dir] /\ agents \subseteq Ids
  /\ req \in [Handlers -> Request] /\ cleaner \in Cleaner
  /\ guarded \subseteq Handlers \cup Ids
  /\ drain \in BOOLEAN

(* Where a handler of each kind can be, and what it holds there.            *)
PlacesOf(k) ==
  CASE k = "create" -> Working \cup Removing \cup {"failed", "undo"}
    [] k = "launch" -> Working
    [] k = "access" -> {"mkdir", "trees"}
    [] k = "delete" -> {"forget", "remove"}
    [] OTHER -> {"idle"}

HandlerOK(q) ==
  /\ q.at \in PlacesOf(q.kind)
  /\ q.at = "idle" => q = Idle
  /\ q.at # "idle" => q.w \in born
  /\ q.at \in Working => q.snap \in Snap
  /\ q.at = "mkdir" => q.todo = Repos
  /\ q.at \in {"admit", "row", "spawn"} => q.todo = {}
HandlersOK ==
  \A h \in Handlers : HandlerOK(req[h]) /\ (req[h].at \in {"row", "spawn"} => h \in admitted)

CleanerOK == cleaner.at \in {"orphan", "clean", "mark"} => cleaner.w \in Ids

(* Only a workspace that was created has a record or an agent.              *)
BornOK == (\A w \in Ids : rows[w] # None => w \in born) /\ agents \subseteq born

(* Nothing starts before the rows of the last server are failed.            *)
BootOK == inherited # {} => (\A h \in Handlers : req[h] = Idle) /\ agents = {}

LockOK == \A h, o \in Handlers : Locked(h) /\ Locked(o) => h = o

(* The row of an agent, and of a launch about to spawn one, is running      *)
(* unless the record is gone.                                               *)
SpawnOK ==
  /\ \A w \in agents : w \in running \/ rows[w] = None
  /\ \A h \in Handlers : req[h].at = "spawn" =>
       rows[req[h].w] = None \/ (req[h].w \in running /\ req[h].w \notin agents)

(* A launch works in a workspace that was touched within the hour ...       *)
AgeOK == \A h \in Handlers : Launching(h) => rows[req[h].w] = None \/ rows[req[h].w].age = 0

(* ... and nobody works in one that is being made.                          *)
MakeOK ==
  \A h \in Handlers : \A w \in Ids : Making(h, w) =>
    /\ w \notin agents
    /\ \A o \in Handlers \ {h} : req[o].w = w => ~Launching(o)

(* A workspace whose removal was decided has no guarded launch or agent.    *)
Condemned(w) ==
  \/ cleaner.at \in {"expired", "clean", "mark"} /\ w \in cleaner.list
  \/ cleaner.at \in {"clean", "mark", "orphan"} /\ w = cleaner.w
  \/ \E h \in Handlers : req[h].w = w /\ req[h].at \in Removing
DoomOK ==
  \A w \in Ids : Condemned(w) =>
    /\ w \notin agents \cap guarded
    /\ \A h \in Handlers : req[h].w = w /\ Launching(h) => h \notin guarded

(* What a guarded launch has made so far is there ...                       *)
TreeOK ==
  \A h \in guarded \cap Handlers : Launching(h) =>
    /\ req[h].at # "mkdir" => Repos \ req[h].todo \subseteq disk[req[h].w].trees
    /\ rows[req[h].w] # None
    /\ req[h].snap.ref => rows[req[h].w].ref

(* ... and so is all that its agent works in.                               *)
KeepOK == \A w \in agents \cap guarded : disk[w].trees = Repos /\ HasRef(w)

(* What the crash left and the first pass has not reached.                  *)
SweptOK == left \subseteq (IF cleaner.at \in {"orphans", "orphan"} THEN cleaner.list ELSE {})

DrainOK == drain => admitted = {}

ControlInv ==
  /\ WorkType /\ HandlersOK /\ CleanerOK /\ BornOK /\ BootOK /\ LockOK
  /\ SweptOK /\ DrainOK
GuardInv == SpawnOK /\ AgeOK /\ MakeOK /\ DoomOK /\ TreeOK /\ KeepOK

---------------------------------------------------------------------------
(* One handler moves.                                                       *)
Same(h) == req' \in [Handlers -> Request] /\ \A o \in Handlers \ {h} : req'[o] = req[o]
Moved(h, at, todo) ==
  /\ Same(h)
  /\ req'[h].at = at /\ req'[h].todo = todo /\ req'[h].kind = req[h].kind
  /\ req'[h].w = req[h].w /\ req'[h].snap = req[h].snap
Ended1(h) == Same(h) /\ req'[h] = Idle

(* The idle request is one.                                                 *)
LEMMA IdleRequest == Idle \in Request /\ Resting \in Cleaner /\ NoDir \in Dir
  BY DEF Idle, Resting, NoDir, Dir, Request, Cleaner, Places

(* Assigning a new request to a handler.                                    *)
LEMMA SetMoves ==
  ASSUME WorkType, NEW h \in Handlers, NEW q \in Request, req' = [req EXCEPT ![h] = q]
  PROVE  Same(h) /\ req'[h] = q
  BY DEF WorkType, Same

(* Go keeps the workspace and the kind of the request.                      *)
LEMMA GoMoves ==
  ASSUME WorkType, NEW h \in Handlers, NEW at \in Places, NEW todo \in SUBSET Repos,
         Go(h, at, todo)
  PROVE  Moved(h, at, todo)
<1>1. req[h] \in Request
  BY DEF WorkType
<1> DEFINE q == [[req[h] EXCEPT !.at = at] EXCEPT !.todo = todo]
<1>2. /\ q \in Request
      /\ q.at = at /\ q.todo = todo /\ q.kind = req[h].kind
      /\ q.w = req[h].w /\ q.snap = req[h].snap
  BY <1>1 DEF Request
<1>3. req' = [req EXCEPT ![h] = q]
  BY <1>1 DEF Go, WorkType
<1> HIDE DEF q
<1>4. Same(h) /\ req'[h] = q
  BY <1>2, <1>3, SetMoves
<1> QED
  BY <1>2, <1>4 DEF Moved

(* An error ends the request, or sends create_and_start_workspace to its    *)
(* cleanup.                                                                 *)
LEMMA AbortMoves ==
  ASSUME WorkType, NEW h \in Handlers, Abort(h)
  PROVE  \/ req[h].kind = "create" /\ Moved(h, "failed", {})
         \/ req[h].kind # "create" /\ Ended1(h)
<1>1. CASE req[h].kind = "create"
  BY <1>1, GoMoves DEF Abort, Places
<1>2. CASE req[h].kind # "create"
  BY <1>2, IdleRequest, SetMoves DEF Abort, Ended1
<1> QED
  BY <1>1, <1>2

(* The steps of a request: it begins, goes on, or ends.                     *)
Before(at) ==
  CASE at = "trees"   -> {"mkdir", "trees"}
    [] at = "undo"    -> {"trees", "undo"}
    [] at = "admit"   -> {"trees"}
    [] at = "row"     -> {"admit"}
    [] at = "spawn"   -> {"row"}
    [] at = "failed"  -> {"trees", "undo", "admit", "row", "spawn"}
    [] at = "stopped" -> {"failed", "stopped"}
    [] at = "forget"  -> {"stopped"}
    [] at = "remove"  -> {"forget", "remove"}
    [] OTHER          -> {}

Begins(h) ==
  /\ Same(h) /\ req[h] = Idle /\ Serving /\ req'[h].w \in born'
  /\ \/ /\ req'[h].at = "mkdir" /\ req'[h].kind \in {"create", "launch", "access"}
        /\ req'[h].todo = Repos /\ req'[h].snap \in Snap
        /\ req'[h].kind = "launch" => \A o \in Handlers : ~Locked(o)
     \/ req'[h].at = "forget" /\ req'[h].kind = "delete"

Advances(h) ==
  /\ Same(h) /\ req'[h].kind = req[h].kind /\ req'[h].w = req[h].w
  /\ req[h].at \in Before(req'[h].at)
  /\ req'[h].at \in {"undo", "failed"} => req[h].kind = "create"
  /\ req'[h].at = "admit" => req[h].kind \in {"create", "launch"} /\ req'[h].snap \in Snap
  /\ req'[h].at # "admit" => req'[h].snap = req[h].snap
  /\ req'[h].at = "row" => \A o \in Handlers \ {h} : ~Locked(o)
  /\ req'[h].at \in {"admit", "row", "spawn"} => req'[h].todo = {}

(* Every step of a handler is one of the three.                             *)
LEMMA HandlerReq ==
  ASSUME WorkType, HandlersOK, BornOK, NEW h \in Handlers, HandlerStep(h)
  PROVE  Ended1(h) \/ Begins(h) \/ Advances(h)
<1>t. req[h] \in Request /\ HandlerOK(req[h])
  BY DEF WorkType, HandlersOK
<1>n. None \notin Ids /\ None \notin Kinds
  BY WorkspacesAssumption DEF Kinds
<1>g. ASSUME NEW at \in Places, NEW todo \in SUBSET Repos, Go(h, at, todo)
      PROVE  Moved(h, at, todo)
  BY <1>g, GoMoves
<1>i. ASSUME req' = [req EXCEPT ![h] = Idle] PROVE Ended1(h)
  BY <1>i, IdleRequest, SetMoves DEF Ended1
<1>a. ASSUME Abort(h), req[h].at \in {"trees", "undo", "admit", "row", "spawn"}
      PROVE  Ended1(h) \/ Advances(h)
  BY <1>a, AbortMoves DEF Moved, Advances, Before
<1>b. ASSUME NEW kind \in {"create", "launch", "access"}, NEW w \in Ids, NEW row \in Row,
             req[h] = Idle, Serving, w \in born',
             req' = [req EXCEPT ![h] = [at |-> "mkdir", kind |-> kind, w |-> w,
                                        snap |-> Snapshot(row), todo |-> Repos]],
             kind = "launch" => \A o \in Handlers : ~Locked(o)
      PROVE  Begins(h)
  <2> DEFINE q == [at |-> "mkdir", kind |-> kind, w |-> w, snap |-> Snapshot(row), todo |-> Repos]
  <2>1. Snapshot(row) \in Snap
    BY DEF Snapshot, Snap, Row
  <2>2. /\ q \in Request /\ q.at = "mkdir" /\ q.kind = kind /\ q.w = w /\ q.snap \in Snap
        /\ q.todo = Repos
    BY <2>1 DEF Request, Places, Working, Kinds
  <2>3. req' = [req EXCEPT ![h] = q]
    BY <1>b
  <2> HIDE DEF q
  <2>4. Same(h) /\ req'[h] = q
    BY <2>2, <2>3, SetMoves
  <2> QED
    BY <1>b, <2>2, <2>4 DEF Begins
<1>1. ASSUME NEW w \in Ids, CreateRecord(h, w) PROVE Begins(h)
  <2>1. NewRow \in Row
    BY DEF NewRow, Row
  <2> QED
    BY <1>1, <1>b, <2>1 DEF CreateRecord
<1>2. ASSUME NEW w \in Ids, NEW kind \in {"launch", "access"}, Use(h, w, kind) PROVE Begins(h)
  <2>1. rows[w] \in Row /\ w \in born'
    BY <1>2 DEF Use, WorkType, BornOK
  <2> QED
    BY <1>2, <1>b, <2>1 DEF Use
<1>3. ASSUME NEW w \in Ids, Delete(h, w) PROVE Begins(h)
  <2> DEFINE q == [Idle EXCEPT !.at = "forget", !.kind = "delete", !.w = w]
  <2>1. q \in Request /\ q.at = "forget" /\ q.kind = "delete" /\ q.w = w
    BY IdleRequest DEF Request, Places, Removing, Kinds, Idle
  <2>2. req' = [req EXCEPT ![h] = q] /\ req[h] = Idle /\ Serving /\ w \in born'
    BY <1>3 DEF Delete, tables, BornOK
  <2> HIDE DEF q
  <2> QED
    BY <2>1, <2>2, SetMoves DEF Begins
<1>4. CASE MakeDir(h) \/ AddTree(h)
  <2>1. /\ req[h].at \in {"mkdir", "trees"}
        /\ \E todo \in SUBSET Repos : Go(h, "trees", todo)
    BY <1>t, <1>4 DEF MakeDir, AddTree, Request
  <2>2. \E todo : Moved(h, "trees", todo)
    BY <1>g, <2>1 DEF Places, Working
  <2> QED
    BY <2>1, <2>2 DEF Moved, Advances, Before
<1>5. CASE TreeFails(h)
  <2>1. CASE req[h].kind = "create"
    BY <1>t, <1>5, <1>g, <2>1 DEF TreeFails, Moved, Advances, Before, Places
  <2>2. CASE req[h].kind # "create"
    BY <1>5, <1>a, <2>2 DEF TreeFails
  <2> QED
    BY <2>1, <2>2
<1>6. CASE Undo(h)
  <2>1. CASE req[h].todo # {}
    <3>1. PICK r \in req[h].todo : Go(h, "undo", req[h].todo \ {r})
      BY <1>6, <2>1 DEF Undo
    <3>2. Moved(h, "undo", req[h].todo \ {r}) /\ req[h].at = "undo"
      BY <1>t, <1>6, <1>g, <3>1 DEF Undo, Request, Places
    <3>3. req[h].kind = "create"
      BY <1>t, <3>2 DEF HandlerOK, PlacesOf, Working
    <3> QED
      BY <3>2, <3>3 DEF Moved, Advances, Before
  <2>2. CASE req[h].todo = {}
    BY <1>6, <1>a, <2>2 DEF Undo
  <2> QED
    BY <2>1, <2>2
<1>7. CASE Record(h)
  <2>0. req[h].at = "trees" /\ req[h].todo = {} /\ req[h].snap \in Snap
    BY <1>t, <1>7 DEF Record, HandlerOK, Working
  <2>1. CASE req[h].kind = "access"
    BY <1>7, <1>i, <2>1 DEF Record
  <2>2. CASE req[h].kind = "create" /\ rows[req[h].w] = None
    BY <1>7, <1>a, <2>0, <2>2 DEF Record
  <2>3. CASE req[h].kind = "create" /\ rows[req[h].w] # None
    <3> DEFINE s == [req[h].snap EXCEPT !.ref = TRUE]
               q == [[req[h] EXCEPT !.at = "admit"] EXCEPT !.snap = s]
    <3>1. s \in Snap
      BY <2>0 DEF Snap
    <3>2. req' = [req EXCEPT ![h] = q]
      BY <1>t, <1>7, <2>3 DEF Record, WorkType, Request
    <3> HIDE DEF s
    <3>3. /\ q \in Request /\ q.at = "admit" /\ q.todo = {} /\ q.kind = req[h].kind
          /\ q.w = req[h].w /\ q.snap \in Snap
      BY <1>t, <2>0, <3>1 DEF Request, Places, Working
    <3> HIDE DEF q
    <3>4. Same(h) /\ req'[h] = q
      BY <3>2, <3>3, SetMoves
    <3> QED
      BY <2>0, <2>3, <3>3, <3>4 DEF Advances, Before
  <2>4. CASE req[h].kind = "launch"
    <3>1. Moved(h, "admit", {})
      BY <1>7, <1>g, <2>4 DEF Record, Places, Working
    <3> QED
      BY <2>0, <2>4, <3>1 DEF Moved, Advances, Before
  <2>5. req[h].kind \in {"access", "create", "launch"}
    BY <1>t, <1>n, <2>0 DEF HandlerOK, PlacesOf, Removing, Request, Kinds
  <2> QED
    BY <2>1, <2>2, <2>3, <2>4, <2>5
<1>8. ASSUME NEW sample, Admit(h, sample) PROVE Advances(h)
  BY <1>8, <1>g DEF Admit, Moved, Advances, Before, Places, Working
<1>9. ASSUME NEW sample, AdmitRefused(h, sample) PROVE Ended1(h) \/ Advances(h)
  BY <1>9, <1>a DEF AdmitRefused
<1>10. CASE CreateRow(h)
  <2>1. Moved(h, "spawn", {}) \/ Abort(h)
    BY <1>10, <1>g DEF CreateRow, Places, Working
  <2> QED
    BY <1>10, <1>a, <2>1 DEF CreateRow, Moved, Advances, Before
<1>11. CASE Spawn(h) \/ Disconnect(h)
  BY <1>11, <1>i DEF Spawn, Disconnect
<1>12. CASE SpawnFails(h)
  BY <1>12, <1>a DEF SpawnFails
<1>13. CASE TryStop(h)
  <2>1. Ended1(h) \/ Moved(h, "stopped", Repos)
    BY <1>13, <1>g, <1>i DEF TryStop, Places, Removing
  <2> QED
    BY <1>13, <2>1 DEF TryStop, Moved, Advances, Before
<1>14. CASE Forget(h)
  <2>1. Ended1(h) \/ Moved(h, "remove", Repos)
    BY <1>14, <1>g, <1>i DEF Forget, Places, Removing
  <2> QED
    BY <1>14, <2>1 DEF Forget, Moved, Advances, Before
<1>15. CASE CleanupWorkspace(h)
  <2>1. CASE req[h].todo # {}
    <3>1. PICK r \in req[h].todo : Go(h, req[h].at, req[h].todo \ {r})
      BY <1>15, <2>1 DEF CleanupWorkspace
    <3>2. Moved(h, req[h].at, req[h].todo \ {r}) /\ req[h].at \in {"stopped", "remove"}
      BY <1>t, <1>15, <1>g, <3>1 DEF CleanupWorkspace, Request
    <3> QED
      BY <3>2 DEF Moved, Advances, Before
  <2>2. CASE req[h].todo = {}
    <3>1. \/ req[h].at = "stopped" /\ Moved(h, "forget", {})
          \/ Ended1(h)
      BY <1>15, <1>g, <1>i, <2>2 DEF CleanupWorkspace, Places, Removing
    <3> QED
      BY <3>1 DEF Moved, Advances, Before
  <2> QED
    BY <2>1, <2>2
<1> QED
  BY <1>1, <1>2, <1>3, <1>4, <1>5, <1>6, <1>7, <1>8, <1>9, <1>10, <1>11, <1>12, <1>13, <1>14,
     <1>15 DEF HandlerStep

(* An UPDATE of a record keeps what it refers to and sets updated_at.       *)
RowMoves(a, b) == b = a \/ (a \in Row /\ b \in Row /\ (a.ref => b.ref) /\ b.age = 0)
RowsMove == rows' \in [Ids -> Row \cup {None}] /\ \A w \in Ids : RowMoves(rows[w], rows'[w])

(* The UPDATE of one record, if there is one.                               *)
LEMMA UpdateMoves ==
  ASSUME WorkType, NEW w \in Ids, NEW row, Update(w, row),
         rows[w] \in Row => row \in Row /\ (rows[w].ref => row.ref) /\ row.age = 0
  PROVE  RowsMove
<1>1. CASE rows[w] = None
  BY <1>1 DEF Update, RowsMove, RowMoves, WorkType
<1>2. CASE rows[w] # None
  <2>1. rows[w] \in Row /\ rows' = [rows EXCEPT ![w] = row]
    BY <1>2 DEF Update, WorkType
  <2>2. \A v \in Ids : rows'[v] = IF v = w THEN row ELSE rows[v]
    BY <2>1 DEF WorkType
  <2> QED
    BY <2>1, <2>2 DEF RowsMove, RowMoves, WorkType
<1> QED
  BY <1>1, <1>2

(* The statements that write a record.                                      *)
LEMMA StepRows ==
  ASSUME WorkType, HandlersOK, CleanerOK, Step
  PROVE  \/ RowsMove \/ HourPasses
         \/ \E h \in Handlers : Forget(h) \/ \E w \in Ids : CreateRecord(h, w)
<1>u. UNCHANGED rows => RowsMove
  BY DEF RowsMove, RowMoves, WorkType
<1>h. \A h \in Handlers : req[h].at # "idle" => req[h].w \in Ids
  BY DEF WorkType, HandlersOK, HandlerOK
<1>e. ASSUME NEW w \in Ids, Update(w, Ended(w)) \/ Update(w, Removed(w)) PROVE RowsMove
  BY <1>e, UpdateMoves DEF Ended, Removed, Row
<1>1. ASSUME NEW h \in Handlers, HandlerStep(h)
      PROVE  RowsMove \/ Forget(h) \/ \E w \in Ids : CreateRecord(h, w)
  <2> DEFINE w == req[h].w
  <2>1. ASSUME NEW v \in Ids, NEW kind, Use(h, v, kind) PROVE RowsMove
    <3>1. rows[v] \in Row /\ rows' = [rows EXCEPT ![v].age = 0]
      BY <2>1 DEF Use, Touch, WorkType
    <3>2. [rows[v] EXCEPT !.age = 0] \in Row /\ [rows[v] EXCEPT !.age = 0].age = 0
          /\ [rows[v] EXCEPT !.age = 0].ref = rows[v].ref
      BY <3>1 DEF Row
    <3>3. Update(v, [rows[v] EXCEPT !.age = 0])
      BY <3>1, WorkspacesAssumption DEF Update, WorkType
    <3> QED
      BY <3>2, <3>3, UpdateMoves
  <2>2. CASE Record(h)
    <3>1. w \in Ids
      BY <1>h, <2>2 DEF Record
    <3> DEFINE row == [rows[w] EXCEPT !.ref = TRUE, !.age = 0,
                                      !.deleted = IF req[h].snap.deleted THEN FALSE ELSE @]
    <3>2. UNCHANGED rows \/ Update(w, row)
      BY <2>2 DEF Record
    <3>3. rows[w] \in Row => row \in Row /\ row.ref /\ row.age = 0
      BY DEF Row
    <3> HIDE DEF row, w
    <3> QED
      BY <1>u, <3>1, <3>2, <3>3, UpdateMoves
  <2>3. CASE CreateRow(h)
    <3>1. w \in Ids
      BY <1>h, <2>3 DEF CreateRow
    <3> DEFINE row == [rows[w] EXCEPT !.archived = FALSE, !.age = 0]
    <3>2. UNCHANGED rows \/ Update(w, row)
      BY <2>3 DEF CreateRow
    <3>3. rows[w] \in Row => row \in Row /\ row.ref = rows[w].ref /\ row.age = 0
      BY DEF Row
    <3> HIDE DEF row, w
    <3> QED
      BY <1>u, <3>1, <3>2, <3>3, UpdateMoves
  <2>4. CASE SpawnFails(h) \/ TryStop(h) \/ CleanupWorkspace(h)
    BY <1>u, <1>h, <1>e, <2>4 DEF SpawnFails, TryStop, CleanupWorkspace
  <2> QED
    BY <1>1, <1>u, <2>1, <2>2, <2>3, <2>4 DEF HandlerStep, Delete, MakeDir, AddTree, TreeFails,
       Undo, Admit, AdmitRefused, Spawn, Disconnect, tables
<1>2. CASE CleanerStep
  <2>1. CASE ArchiveNext
    <3>1. PICK w \in cleaner.list : Update(w, [rows[w] EXCEPT !.archived = TRUE, !.age = 0])
      BY <2>1 DEF ArchiveNext
    <3> DEFINE row == [rows[w] EXCEPT !.archived = TRUE, !.age = 0]
    <3>2. rows[w] \in Row => row \in Row /\ row.ref = rows[w].ref /\ row.age = 0
      BY DEF Row
    <3>3. w \in Ids /\ Update(w, row)
      BY <3>1 DEF WorkType, Cleaner
    <3> HIDE DEF row
    <3> QED
      BY <3>2, <3>3, UpdateMoves
  <2>2. CASE MarkDeleted
    BY <1>e, <2>2 DEF MarkDeleted, CleanerOK
  <2> QED
    BY <1>2, <1>u, <2>1, <2>2 DEF CleanerStep, OrphanNext, OrphansDone, Tick, FindExpired,
       CleanNext, CleanStep, ExpiredDone, tables
<1>3. CASE CleanupOrphanExecution
  BY <1>3, <1>e DEF CleanupOrphanExecution, WorkType
<1>4. ASSUME NEW w \in Ids, AgentExits(w) PROVE RowsMove
  BY <1>4, <1>e DEF AgentExits
<1>5. ASSUME NEW w \in Ids, NEW archived \in BOOLEAN, UpdateWorkspace(w, archived) PROVE RowsMove
  <2> DEFINE row == [rows[w] EXCEPT !.archived = archived, !.age = 0]
  <2>1. rows[w] \in Row => row \in Row /\ row.ref = rows[w].ref /\ row.age = 0
    BY DEF Row
  <2>2. Update(w, row)
    BY <1>5 DEF UpdateWorkspace
  <2> HIDE DEF row
  <2> QED
    BY <2>1, <2>2, UpdateMoves
<1>6. CASE AdmissionStep
  BY <1>6, <1>u DEF AdmissionStep, tables
<1> QED
  BY <1>1, <1>2, <1>3, <1>4, <1>5, <1>6 DEF Step

(* Who is taking the worktrees of a workspace away.                         *)
Clearing(w) ==
  \/ \E h \in Handlers : req[h].w = w /\ req[h].at \in {"undo", "stopped", "remove"}
  \/ cleaner.at \in {"orphan", "clean"} /\ cleaner.w = w

(* Worktrees only come, unless somebody clears the workspace.               *)
LEMMA StepDisk ==
  ASSUME WorkType, HandlersOK, CleanerOK, Step
  PROVE  /\ disk' \in [Ids -> Dir]
         /\ \A w \in Ids : disk[w].trees \subseteq disk'[w].trees \/ Clearing(w)
<1> DEFINE Good == /\ disk' \in [Ids -> Dir]
                   /\ \A w \in Ids : disk[w].trees \subseteq disk'[w].trees \/ Clearing(w)
<1>u. UNCHANGED disk => Good
  BY DEF WorkType
<1>h. \A h \in Handlers : req[h].at # "idle" => req[h].w \in Ids
  BY DEF WorkType, HandlersOK, HandlerOK
<1>q. \A h \in Handlers : req[h].todo \subseteq Repos
  BY DEF WorkType, Request
<1>s. ASSUME NEW w \in Ids, NEW d \in Dir, disk' = [disk EXCEPT ![w] = d],
             disk[w].trees \subseteq d.trees \/ Clearing(w)
      PROVE  Good
  <2>1. \A v \in Ids : disk'[v] = IF v = w THEN d ELSE disk[v]
    BY <1>s DEF WorkType
  <2> QED
    BY <1>s, <2>1 DEF WorkType
<1> SUFFICES Good
  OBVIOUS
<1> HIDE DEF Good
<1>c. ASSUME NEW w \in Ids, NEW r, CleanupTree(w, r) \/ RemoveDir(w), Clearing(w) PROVE Good
  <2> DEFINE d == [disk[w] EXCEPT !.trees = disk[w].trees \ {r}]
  <2>1. d \in Dir
    BY DEF WorkType, Dir
  <2>2. disk' = [disk EXCEPT ![w] = d] \/ disk' = [disk EXCEPT ![w] = NoDir]
    BY <1>c DEF CleanupTree, RemoveDir
  <2> HIDE DEF d
  <2> QED
    BY <1>c, <1>s, <2>1, <2>2, IdleRequest
<1>1. ASSUME NEW h \in Handlers, HandlerStep(h) PROVE Good
  <2> DEFINE w == req[h].w
  <2>1. CASE MakeDir(h)
    <3> DEFINE d == [disk[w] EXCEPT !.dir = TRUE]
    <3>1. w \in Ids
      BY <1>h, <2>1 DEF MakeDir
    <3>2. d \in Dir /\ d.trees = disk[w].trees
      BY <3>1 DEF WorkType, Dir
    <3>3. disk' = [disk EXCEPT ![w] = d]
      BY <2>1 DEF MakeDir
    <3> HIDE DEF d, w
    <3> QED
      BY <1>s, <3>1, <3>2, <3>3
  <2>2. CASE AddTree(h)
    <3>1. w \in Ids
      BY <1>h, <2>2 DEF AddTree
    <3>2. PICK r \in req[h].todo : EnsureTree(w, r)
      BY <2>2 DEF AddTree
    <3> DEFINE d == [dir |-> TRUE, trees |-> disk[w].trees \cup {r}]
    <3>3. d \in Dir /\ d.trees = disk[w].trees \cup {r}
      BY <1>q, <3>1 DEF WorkType, Dir
    <3>4. disk' = [disk EXCEPT ![w] = d]
      BY <3>2 DEF EnsureTree
    <3> HIDE DEF d, w
    <3> QED
      BY <1>s, <3>1, <3>3, <3>4
  <2>3. CASE Undo(h)
    <3>1. w \in Ids /\ Clearing(w)
      BY <1>h, <2>3 DEF Undo, Clearing
    <3>2. UNCHANGED disk \/ RemoveDir(w) \/ \E r \in req[h].todo : CleanupTree(w, r)
      BY <2>3 DEF Undo
    <3> HIDE DEF w
    <3> QED
      BY <1>c, <1>u, <3>1, <3>2
  <2>4. CASE CleanupWorkspace(h)
    <3>1. w \in Ids /\ Clearing(w)
      BY <1>h, <2>4 DEF CleanupWorkspace, Clearing
    <3>2. RemoveDir(w) \/ \E r \in req[h].todo : CleanupTree(w, r)
      BY <2>4 DEF CleanupWorkspace
    <3> HIDE DEF w
    <3> QED
      BY <1>c, <3>1, <3>2
  <2> QED
    BY <1>1, <1>u, <2>1, <2>2, <2>3, <2>4 DEF HandlerStep, CreateRecord, Use, Delete, TreeFails,
       Record, Admit, AdmitRefused, CreateRow, Spawn, SpawnFails, TryStop, Forget, Disconnect
<1>2. CASE CleanerStep
  <2>1. CASE CleanStep
    <3>1. cleaner.w \in Ids /\ Clearing(cleaner.w)
      BY <2>1 DEF CleanStep, CleanerOK, Clearing
    <3>2. RemoveDir(cleaner.w) \/ \E r \in cleaner.todo : CleanupTree(cleaner.w, r)
      BY <2>1 DEF CleanStep
    <3> QED
      BY <1>c, <3>1, <3>2
  <2> QED
    BY <1>2, <1>u, <2>1 DEF CleanerStep, OrphanNext, OrphansDone, Tick, ArchiveNext, FindExpired,
       CleanNext, MarkDeleted, ExpiredDone
<1>3. CASE ~CleanerStep /\ ~\E h \in Handlers : HandlerStep(h)
  BY <1>3, <1>u DEF Step, HourPasses, CleanupOrphanExecution, AdmissionStep, AgentExits,
     UpdateWorkspace
<1> QED
  BY <1>1, <1>2, <1>3

(* Agents start with a spawn, guards with a launch.                         *)
LEMMA StepAgents ==
  ASSUME Step
  PROVE  /\ agents' \subseteq agents \/ \E h \in Handlers : Spawn(h)
         /\ guarded' \subseteq guarded
              \/ \E h \in Handlers : \/ Spawn(h)
                                     \/ \E w \in Ids : CreateRecord(h, w) \/ Use(h, w, "launch")
<1>1. ASSUME NEW h \in Handlers, HandlerStep(h)
      PROVE  /\ agents' \subseteq agents \/ Spawn(h)
             /\ \/ guarded' \subseteq guarded \/ Spawn(h)
                \/ \E w \in Ids : CreateRecord(h, w) \/ Use(h, w, "launch")
  BY <1>1 DEF HandlerStep, CreateRecord, Use, Delete, MakeDir, AddTree, TreeFails, Undo, Record,
     Admit, AdmitRefused, CreateRow, SpawnFails, TryStop, Forget, CleanupWorkspace, Disconnect,
     Unguard
<1>2. CASE CleanerStep
  BY <1>2 DEF CleanerStep, OrphanNext, OrphansDone, Tick, ArchiveNext, FindExpired, CleanNext,
     CleanStep, MarkDeleted, ExpiredDone, Unguard
<1>3. CASE ~CleanerStep /\ ~\E h \in Handlers : HandlerStep(h)
  BY <1>3 DEF Step, HourPasses, CleanupOrphanExecution, AdmissionStep, AgentExits, UpdateWorkspace
<1> QED
  BY <1>1, <1>2, <1>3

(* The cleanup task condemns what has expired and what nobody refers to.    *)
Condemns(w) ==
  \/ cleaner.at \in {"expired", "clean", "mark"} /\ w \in cleaner.list
  \/ cleaner.at \in {"clean", "mark", "orphan"} /\ w = cleaner.w

(* What the task comes to condemn it has found expired or unreferenced.     *)
LEMMA StepCleaner ==
  ASSUME WorkType, CleanerOK, Step
  PROVE  /\ cleaner' \in Cleaner /\ CleanerOK'
         /\ \A w \in Ids : Condemns(w)' =>
              \/ Condemns(w)
              \/ FindExpired /\ Expired(w)
              \/ OrphanNext /\ ~HasRef(w) /\ Unguard(w)
<1> DEFINE Good == /\ cleaner' \in Cleaner /\ CleanerOK'
                   /\ \A w \in Ids : Condemns(w)' =>
                        \/ Condemns(w)
                        \/ FindExpired /\ Expired(w)
                        \/ OrphanNext /\ ~HasRef(w) /\ Unguard(w)
<1>u. UNCHANGED cleaner => Good
  BY DEF WorkType, CleanerOK, Condemns
<1>r. Resting.at = "idle" /\ Resting.list = {} /\ Resting.w = None /\ Resting.todo = {}
  BY DEF Resting
<1>1. ASSUME NEW h \in Handlers, HandlerStep(h) PROVE UNCHANGED cleaner
  BY <1>1 DEF HandlerStep, CreateRecord, Use, Delete, MakeDir, AddTree, TreeFails, Undo, Record,
     Admit, AdmitRefused, CreateRow, Spawn, SpawnFails, TryStop, Forget, CleanupWorkspace, Disconnect
<1>2. CASE OrphanNext
  <2>1. PICK w \in cleaner.list \cup Dirs :
          \/ /\ cleaner' = [cleaner EXCEPT !.at = "orphan", !.w = w, !.todo = disk[w].trees]
             /\ Unguard(w) /\ ~HasRef(w)
          \/ cleaner' = [cleaner EXCEPT !.list = @ \ {w}]
    BY <1>2 DEF OrphanNext, Orphan
  <2>2. w \in Ids /\ disk[w].trees \in SUBSET Repos
    BY DEF WorkType, Cleaner, Dirs, Dir
  <2>3. CASE /\ cleaner' = [cleaner EXCEPT !.at = "orphan", !.w = w, !.todo = disk[w].trees]
             /\ Unguard(w) /\ ~HasRef(w)
    BY <1>2, <2>2, <2>3 DEF WorkType, Cleaner, CleanerOK, Condemns
  <2>4. CASE cleaner' = [cleaner EXCEPT !.list = @ \ {w}]
    BY <1>2, <2>2, <2>4 DEF OrphanNext, WorkType, Cleaner, CleanerOK, Condemns
  <2> QED
    BY <2>1, <2>3, <2>4
<1>3. CASE OrphansDone \/ ExpiredDone
  BY <1>3, <1>r, IdleRequest DEF OrphansDone, ExpiredDone, CleanerOK, Condemns
<1>4. CASE Tick
  <2>1. PICK list \in SUBSET IdleForArchive : cleaner' = [Resting EXCEPT !.at = "archive", !.list = list]
    BY <1>4 DEF Tick
  <2> QED
    BY <2>1 DEF Resting, IdleForArchive, Cleaner, CleanerOK, Condemns
<1>5. CASE ArchiveNext
  <2>1. PICK w \in cleaner.list : cleaner' = [cleaner EXCEPT !.list = @ \ {w}]
    BY <1>5 DEF ArchiveNext
  <2> QED
    BY <1>5, <2>1 DEF ArchiveNext, WorkType, Cleaner, CleanerOK, Condemns
<1>6. CASE FindExpired
  <2> DEFINE list == {w \in Ids : Expired(w)}
  <2>1. cleaner' = [Resting EXCEPT !.at = "expired", !.list = list]
    BY <1>6 DEF FindExpired
  <2>2. list \subseteq Ids /\ \A w \in list : Expired(w)
    OBVIOUS
  <2> HIDE DEF list
  <2> QED
    BY <1>6, <2>1, <2>2 DEF Resting, Cleaner, CleanerOK, Condemns
<1>7. CASE CleanNext
  <2>1. PICK w \in cleaner.list, todo \in SUBSET Repos :
          cleaner' = [at |-> "clean", list |-> cleaner.list \ {w}, w |-> w, todo |-> todo]
    BY <1>7 DEF CleanNext
  <2> QED
    BY <1>7, <2>1 DEF CleanNext, WorkType, Cleaner, CleanerOK, Condemns
<1>8. CASE CleanStep
  <2>1. \/ \E r : cleaner' = [cleaner EXCEPT !.todo = @ \ {r}]
        \/ cleaner.at = "clean" /\ cleaner' = [cleaner EXCEPT !.at = "mark"]
        \/ cleaner.at = "orphan" /\ cleaner' = [Resting EXCEPT !.at = "orphans",
                                                  !.list = cleaner.list \ {cleaner.w}]
    BY <1>8 DEF CleanStep
  <2>2. ASSUME NEW r, cleaner' = [cleaner EXCEPT !.todo = @ \ {r}] PROVE Good
    BY <2>2 DEF WorkType, Cleaner, CleanerOK, Condemns
  <2>3. CASE cleaner.at = "clean" /\ cleaner' = [cleaner EXCEPT !.at = "mark"]
    BY <2>3 DEF WorkType, Cleaner, CleanerOK, Condemns
  <2>4. CASE cleaner.at = "orphan" /\ cleaner' = [Resting EXCEPT !.at = "orphans",
                                                    !.list = cleaner.list \ {cleaner.w}]
    BY <2>4 DEF WorkType, Resting, Cleaner, CleanerOK, Condemns
  <2> QED
    BY <2>1, <2>2, <2>3, <2>4
<1>9. CASE MarkDeleted
  BY <1>9 DEF MarkDeleted, WorkType, Resting, Cleaner, CleanerOK, Condemns
<1>10. CASE ~CleanerStep /\ ~\E h \in Handlers : HandlerStep(h)
  BY <1>10, <1>u DEF Step, HourPasses, CleanupOrphanExecution, AdmissionStep, AgentExits,
     UpdateWorkspace
<1> QED
  BY <1>u, <1>1, <1>2, <1>3, <1>4, <1>5, <1>6, <1>7, <1>8, <1>9, <1>10 DEF CleanerStep

---------------------------------------------------------------------------
(* The read guard of EXECUTION_ADMISSION is taken by the admission and kept *)
(* until the launch is over.                                                *)
LEMMA StepAdmission ==
  ASSUME WorkType, NEW h \in Handlers, HandlerStep(h)
  PROVE  /\ UNCHANGED drain /\ born \subseteq born'
         /\ admitted \ {h} \subseteq admitted'
         /\ admitted' \subseteq admitted \/ ~drain
         /\ UNCHANGED admitted \/ h \in admitted' \/ req'[h].at \notin {"row", "spawn"}
<1>g. ASSUME NEW at \in Places, NEW todo \in SUBSET Repos, Go(h, at, todo)
      PROVE  req'[h].at = at
  BY <1>g, GoMoves DEF Moved
<1>i. ASSUME req' = [req EXCEPT ![h] = Idle] PROVE req'[h].at = "idle"
  BY <1>i DEF WorkType, Idle
<1>a. ASSUME Abort(h) PROVE req'[h].at \notin {"row", "spawn"}
  BY <1>a, AbortMoves DEF Moved, Ended1, Idle
<1>1. CASE \E sample \in Samples : Admit(h, sample)
  BY <1>1 DEF Admit, AdmitExecutionStart, tables
<1>2. CASE CreateRow(h) \/ SpawnFails(h)
  BY <1>2, <1>a DEF CreateRow, SpawnFails, Release, admission
<1>3. CASE Spawn(h) \/ Disconnect(h)
  BY <1>3, <1>i DEF Spawn, Disconnect, Release, tables
<1> QED
  BY <1>1, <1>2, <1>3, HandlerStep(h) DEF HandlerStep, CreateRecord, Use, Delete, MakeDir, AddTree,
     TreeFails, Undo, Record, AdmitRefused, TryStop, Forget, CleanupWorkspace, admission, tables

(* Everybody else leaves the requests and the admitted starts alone.        *)
LEMMA OtherSteps ==
  ASSUME Step, ~\E h \in Handlers : HandlerStep(h)
  PROVE  /\ UNCHANGED <<req, born, admitted>>
         /\ UNCHANGED drain \/ drain' = FALSE \/ admitted = {}
         /\ drain' \in {drain, TRUE, FALSE}
<1>1. CASE CleanerStep
  BY <1>1 DEF CleanerStep, OrphanNext, OrphansDone, Tick, ArchiveNext, FindExpired, CleanNext,
     CleanStep, MarkDeleted, ExpiredDone, tables, admission
<1>2. CASE AdmissionStep
  BY <1>2 DEF AdmissionStep, SetDrain, DrainLapses, tables
<1>3. CASE ~CleanerStep /\ ~AdmissionStep
  BY <1>3 DEF Step, HourPasses, CleanupOrphanExecution, AgentExits, UpdateWorkspace, admission
<1> QED
  BY <1>1, <1>2, <1>3

(* A handler is where its kind can be, and holds what it needs there.       *)
LEMMA HandlersStep ==
  ASSUME WorkType, HandlersOK, BornOK, Step
  PROVE  req' \in [Handlers -> Request] /\ HandlersOK'
<1>1. CASE ~\E h \in Handlers : HandlerStep(h)
  BY <1>1, OtherSteps DEF WorkType, HandlersOK, HandlerOK
<1>2. ASSUME NEW h \in Handlers, HandlerStep(h)
      PROVE  req' \in [Handlers -> Request] /\ HandlersOK'
  <2>1. Ended1(h) \/ Begins(h) \/ Advances(h)
    BY <1>2, HandlerReq
  <2>2. Same(h)
    BY <2>1 DEF Ended1, Begins, Advances
  <2>3. /\ born \subseteq born' /\ admitted \ {h} \subseteq admitted'
        /\ UNCHANGED admitted \/ h \in admitted' \/ req'[h].at \notin {"row", "spawn"}
    BY <1>2, StepAdmission
  <2>4. HandlerOK(req[h]) /\ (req[h].at \in {"row", "spawn"} => h \in admitted)
    BY DEF HandlersOK
  <2>5. \A o \in Handlers \ {h} :
          HandlerOK(req[o])' /\ (req'[o].at \in {"row", "spawn"} => o \in admitted')
    <3> SUFFICES ASSUME NEW o \in Handlers \ {h}
                 PROVE  HandlerOK(req[o])' /\ (req'[o].at \in {"row", "spawn"} => o \in admitted')
      OBVIOUS
    <3>1. req'[o] = req[o]
      BY <2>2 DEF Same
    <3>2. HandlerOK(req[o]) /\ (req[o].at \in {"row", "spawn"} => o \in admitted)
      BY DEF HandlersOK
    <3> QED
      BY <2>3, <3>1, <3>2 DEF HandlerOK
  <2>6. HandlerOK(req[h])'
    <3>1. CASE Ended1(h)
      <4>1. "idle" \in PlacesOf(None)
        BY WorkspacesAssumption DEF PlacesOf
      <4> QED
        BY <3>1, <4>1 DEF Ended1, HandlerOK, Idle, Working
    <3>2. CASE Begins(h)
      BY <3>2 DEF Begins, HandlerOK, PlacesOf, Working, Removing
    <3>3. CASE Advances(h)
      <4>1. req'[h] \in Request /\ req'[h].w \in born'
        <5>1. req[h].at # "idle"
          BY <3>3 DEF Advances, Before
        <5> QED
          BY <2>3, <2>4, <3>3, <5>1 DEF Advances, Same, HandlerOK
      <4>2. req'[h].at \in Places /\ req'[h].at \notin {"idle", "mkdir"}
        BY <3>3, <4>1 DEF Advances, Before, Request
      <4>3. req'[h].at \in PlacesOf(req'[h].kind)
        BY <2>4, <3>3, <4>2 DEF Advances, Before, HandlerOK, PlacesOf, Places, Working, Removing
      <4>4. req'[h].at \in Working => req'[h].snap \in Snap
        BY <2>4, <3>3, <4>2 DEF Advances, Before, HandlerOK, Working
      <4> QED
        BY <3>3, <4>1, <4>2, <4>3, <4>4 DEF Advances, HandlerOK
    <3> QED
      BY <2>1, <3>1, <3>2, <3>3
  <2>7. req'[h].at \in {"row", "spawn"} => h \in admitted'
    <3>1. ASSUME UNCHANGED admitted, req'[h].at \in {"row", "spawn"} PROVE h \in admitted'
      <4>1. Advances(h) /\ req[h].at \in {"admit", "row"}
        BY <2>1, <3>1 DEF Advances, Before, Ended1, Begins, Idle
      <4>2. CASE req[h].at = "row"
        BY <2>4, <3>1, <4>2
      <4>3. CASE req[h].at = "admit"
        <5>1. req'[h].at = "row"
          BY <3>1, <4>1, <4>3 DEF Advances, Before
        <5>d. ~Disconnect(h)
          BY <5>1 DEF Disconnect, Idle, WorkType
        <5>i. req[h] # Idle
          BY <4>3 DEF Idle
        <5>2. \E sample \in Samples : Admit(h, sample) \/ AdmitRefused(h, sample)
          BY <1>2, <4>3, <5>d, <5>i DEF HandlerStep, CreateRecord, Use, Delete, MakeDir, AddTree,
             TreeFails, Undo, Record, CreateRow, Spawn, SpawnFails, TryStop, Forget,
             CleanupWorkspace
        <5>3. ASSUME NEW sample, AdmitRefused(h, sample) PROVE FALSE
          BY <5>1, <5>3, AbortMoves DEF AdmitRefused, Moved, Ended1, Idle
        <5> QED
          BY <5>2, <5>3 DEF Admit, AdmitExecutionStart
      <4> QED
        BY <4>1, <4>2, <4>3
    <3> QED
      BY <2>3, <3>1
  <2>8. \A o \in Handlers : HandlerOK(req[o])' /\ (req'[o].at \in {"row", "spawn"} => o \in admitted')
    BY <2>5, <2>6, <2>7
  <2> QED
    BY <2>2, <2>8 DEF Same, HandlersOK
<1> QED
  BY <1>1, <1>2

(* scheduler_lock has one holder.                                           *)
LEMMA LockStep ==
  ASSUME WorkType, HandlersOK, BornOK, LockOK, Step
  PROVE  LockOK'
<1>1. CASE ~\E h \in Handlers : HandlerStep(h)
  BY <1>1, OtherSteps DEF LockOK, Locked
<1>2. ASSUME NEW h \in Handlers, HandlerStep(h) PROVE LockOK'
  <2>1. Ended1(h) \/ Begins(h) \/ Advances(h)
    BY <1>2, HandlerReq
  <2>2. \A o \in Handlers \ {h} : Locked(o)' <=> Locked(o)
    BY <2>1 DEF Ended1, Begins, Advances, Same, Locked
  <2>3. Locked(h)' => Locked(h) \/ \A o \in Handlers \ {h} : ~Locked(o)
    <3>1. CASE Ended1(h)
      BY <3>1, WorkspacesAssumption DEF Ended1, Locked, Idle
    <3>2. CASE Begins(h)
      BY <3>2 DEF Begins, Locked
    <3>3. CASE Advances(h)
      BY <3>3 DEF Advances, Before, Locked
    <3> QED
      BY <2>1, <3>1, <3>2, <3>3
  <2> QED
    BY <2>2, <2>3 DEF LockOK
<1> QED
  BY <1>1, <1>2

(* Nothing runs before the boot is over.                                    *)
LEMMA BootStep ==
  ASSUME WorkType, HandlersOK, BornOK, BootOK, Step
  PROVE  BootOK' /\ inherited' \subseteq inherited
<1>1. inherited' \subseteq inherited
  <2>1. ASSUME NEW h \in Handlers, HandlerStep(h) PROVE UNCHANGED inherited
    BY <2>1 DEF HandlerStep, CreateRecord, Use, Delete, MakeDir, AddTree, TreeFails, Undo, Record,
       Admit, AdmitRefused, CreateRow, Spawn, SpawnFails, TryStop, Forget, CleanupWorkspace,
       Disconnect, tables
  <2>2. CASE CleanerStep
    BY <2>2 DEF CleanerStep, OrphanNext, OrphansDone, Tick, ArchiveNext, FindExpired, CleanNext,
       CleanStep, MarkDeleted, ExpiredDone, tables
  <2> QED
    BY <2>1, <2>2 DEF Step, HourPasses, CleanupOrphanExecution, AdmissionStep, AgentExits,
       UpdateWorkspace, tables
<1>2. ASSUME inherited # {} PROVE (\A h \in Handlers : req'[h] = Idle) /\ agents' = {}
  <2>1. (\A h \in Handlers : req[h] = Idle) /\ agents = {} /\ ~Serving
    BY <1>2 DEF BootOK, Serving
  <2>2. ~\E h \in Handlers : Spawn(h)
    BY <2>1 DEF Spawn, Idle
  <2>3. agents' = {}
    BY <2>1, <2>2, StepAgents
  <2>4. ASSUME NEW h \in Handlers, HandlerStep(h) PROVE \A o \in Handlers : req'[o] = Idle
    <3>1. Ended1(h) \/ Begins(h) \/ Advances(h)
      BY <2>4, HandlerReq
    <3>2. Ended1(h)
      BY <2>1, <3>1 DEF Begins, Advances, Before, Idle
    <3> QED
      BY <2>1, <3>2 DEF Ended1, Same
  <2> QED
    BY <2>1, <2>3, <2>4, OtherSteps
<1> QED
  BY <1>1, <1>2 DEF BootOK

(* An hour later the records are still records.                             *)
LEMMA HourRows ==
  ASSUME WorkType, HourPasses
  PROVE  /\ rows' \in [Ids -> Row \cup {None}]
         /\ \A w \in Ids : \/ rows'[w] = rows[w]
                           \/ /\ rows[w] \in Row /\ rows'[w] \in Row
                              /\ rows'[w].ref = rows[w].ref
<1> DEFINE f(w) == IF rows[w] # None /\ rows[w].age < MaxAge
                    THEN [rows[w] EXCEPT !.age = @ + 1] ELSE rows[w]
<1>0. rows' = [w \in Ids |-> f(w)]
  BY DEF HourPasses
<1> HIDE DEF f
<1>1. \A w \in Ids : rows'[w] = f(w)
  BY <1>0
<1>2. rows' = [w \in Ids |-> rows'[w]]
  BY <1>0, <1>1
<1>3. ASSUME NEW w \in Ids
      PROVE  \/ rows'[w] = rows[w]
             \/ /\ rows[w] \in Row /\ rows'[w] \in Row
                /\ rows'[w].ref = rows[w].ref
  <2>1. \/ rows'[w] = rows[w]
        \/ rows[w] # None /\ rows'[w] = [rows[w] EXCEPT !.age = rows[w].age + 1]
    BY <1>1 DEF f
  <2>2. rows[w] # None => rows[w] \in Row
    BY DEF WorkType
  <2>3. \A r \in Row : LET n == [r EXCEPT !.age = r.age + 1] IN n \in Row /\ n.ref = r.ref
    BY DEF Row
  <2> QED
    BY <2>1, <2>2, <2>3
<1> QED
  BY <1>2, <1>3 DEF WorkType

(* What each step does to the record of one workspace.                      *)
LEMMA RowStep ==
  ASSUME WorkType, HandlersOK, CleanerOK, Step
  PROVE  /\ rows' \in [Ids -> Row \cup {None}]
         /\ \A w \in Ids :
              \/ rows'[w] = rows[w]
              \/ /\ rows[w] \in Row /\ rows'[w] \in Row /\ (rows[w].ref => rows'[w].ref)
                 /\ rows'[w].age = 0 \/ HourPasses
              \/ \E h \in Handlers : CreateRecord(h, w)
              \/ rows'[w] = None /\ \E h \in Handlers : req[h].w = w /\ req[h].at = "forget"
<1>1. CASE RowsMove
  BY <1>1 DEF RowsMove, RowMoves
<1>2. CASE HourPasses
  BY <1>2, HourRows
<1>3. ASSUME NEW h \in Handlers, Forget(h)
      PROVE  /\ rows' \in [Ids -> Row \cup {None}]
             /\ \A w \in Ids : \/ rows'[w] = rows[w]
                               \/ rows'[w] = None /\ req[h].w = w /\ req[h].at = "forget"
  BY <1>3 DEF Forget, WorkType
<1>4. ASSUME NEW h \in Handlers, NEW w \in Ids, CreateRecord(h, w)
      PROVE  /\ rows' \in [Ids -> Row \cup {None}]
             /\ \A v \in Ids : rows'[v] = rows[v] \/ v = w
  BY <1>4 DEF CreateRecord, NewRow, Row, WorkType
<1> QED
  BY <1>1, <1>2, <1>3, <1>4, StepRows

(* Only a workspace that was created has a record or an agent.              *)
LEMMA BornStep ==
  ASSUME WorkType, HandlersOK, CleanerOK, BornOK, Step
  PROVE  BornOK' /\ born' \subseteq Ids /\ agents' \subseteq Ids
<1>1. born \subseteq born' /\ born' \subseteq Ids
  <2>1. CASE ~\E h \in Handlers : HandlerStep(h)
    BY <2>1, OtherSteps DEF WorkType
  <2>2. ASSUME NEW h \in Handlers, HandlerStep(h) PROVE born \subseteq born' /\ born' \subseteq Ids
    <3>1. born \subseteq born'
      BY <2>2, StepAdmission
    <3>2. born' \subseteq Ids
      BY <2>2 DEF HandlerStep, CreateRecord, Use, Delete, MakeDir, AddTree, TreeFails, Undo, Record,
         Admit, AdmitRefused, CreateRow, Spawn, SpawnFails, TryStop, Forget, CleanupWorkspace,
         Disconnect, tables, WorkType
    <3> QED
      BY <3>1, <3>2
  <2> QED
    BY <2>1, <2>2
<1>2. ASSUME NEW w \in Ids, rows'[w] # None PROVE w \in born'
  <2>1. rows[w] # None \/ \E h \in Handlers : CreateRecord(h, w)
    BY <1>2, RowStep, WorkspacesAssumption
  <2> QED
    BY <1>1, <2>1 DEF BornOK, CreateRecord
<1>3. agents' \subseteq born'
  <2>1. ASSUME NEW h \in Handlers, Spawn(h) PROVE agents' \subseteq born'
    BY <1>1, <2>1 DEF Spawn, BornOK, HandlersOK, HandlerOK
  <2> QED
    BY <1>1, <2>1, StepAgents DEF BornOK
<1> QED
  BY <1>1, <1>2, <1>3 DEF BornOK

(* The first pass goes through everything the crash left.                   *)
LEMMA SweptStep ==
  ASSUME WorkType, CleanerOK, SweptOK, Step, Settle
  PROVE  SweptOK'
<1>1. left' \subseteq left
  BY DEF Settle
<1>2. CASE cleaner.at \notin {"orphans", "orphan"}
  BY <1>1, <1>2 DEF SweptOK
<1>3. CASE UNCHANGED cleaner
  BY <1>1, <1>3 DEF SweptOK
<1>4. CASE OrphanNext
  <2>1. PICK w \in cleaner.list \cup Dirs :
          \/ cleaner' = [cleaner EXCEPT !.at = "orphan", !.w = w, !.todo = disk[w].trees]
          \/ /\ cleaner' = [cleaner EXCEPT !.list = @ \ {w}] /\ UNCHANGED <<disk, rows>>
             /\ ~disk[w].dir \/ HasRef(w)
    BY <1>4 DEF OrphanNext, Orphan, tables
  <2>2. CASE cleaner' = [cleaner EXCEPT !.at = "orphan", !.w = w, !.todo = disk[w].trees]
    <3>1. cleaner'.at = "orphan" /\ cleaner'.list = cleaner.list
      BY <2>2 DEF WorkType, Cleaner
    <3> QED
      BY <1>1, <1>4, <3>1 DEF SweptOK, OrphanNext
  <2>3. CASE /\ cleaner' = [cleaner EXCEPT !.list = @ \ {w}] /\ UNCHANGED <<disk, rows>>
             /\ ~disk[w].dir \/ HasRef(w)
    <3>1. cleaner'.at = "orphans" /\ cleaner'.list = cleaner.list \ {w}
      BY <1>4, <2>3 DEF WorkType, Cleaner, OrphanNext
    <3>2. w \notin left'
      BY <2>3 DEF Settle, HasRef
    <3> QED
      BY <1>1, <1>4, <3>1, <3>2 DEF SweptOK, OrphanNext
  <2> QED
    BY <2>1, <2>2, <2>3
<1>5. CASE OrphansDone
  BY <1>1, <1>5 DEF OrphansDone, SweptOK
<1>6. CASE CleanStep /\ cleaner.at = "orphan"
  <2>1. \/ \E r : cleaner' = [cleaner EXCEPT !.todo = @ \ {r}]
        \/ /\ RemoveDir(cleaner.w)
           /\ cleaner' = [Resting EXCEPT !.at = "orphans", !.list = cleaner.list \ {cleaner.w}]
    BY <1>6 DEF CleanStep
  <2>2. ASSUME NEW r, cleaner' = [cleaner EXCEPT !.todo = @ \ {r}] PROVE SweptOK'
    <3>1. cleaner'.at = cleaner.at /\ cleaner'.list = cleaner.list
      BY <2>2 DEF WorkType, Cleaner
    <3> QED
      BY <1>1, <3>1 DEF SweptOK
  <2>3. CASE /\ RemoveDir(cleaner.w)
             /\ cleaner' = [Resting EXCEPT !.at = "orphans", !.list = cleaner.list \ {cleaner.w}]
    <3>1. cleaner'.at = "orphans" /\ cleaner'.list = cleaner.list \ {cleaner.w}
      BY <2>3 DEF Resting
    <3>2. cleaner.w \notin left'
      BY <1>6, <2>3 DEF RemoveDir, NoDir, Settle, WorkType, CleanerOK
    <3> QED
      BY <1>1, <1>6, <3>1, <3>2 DEF SweptOK
  <2> QED
    BY <2>1, <2>2, <2>3
<1>7. CASE CleanerStep
  BY <1>2, <1>4, <1>5, <1>6, <1>7 DEF CleanerStep, Tick, ArchiveNext, FindExpired, CleanNext,
     CleanStep, MarkDeleted, ExpiredDone
<1>8. ASSUME NEW h \in Handlers, HandlerStep(h) PROVE UNCHANGED cleaner
  BY <1>8 DEF HandlerStep, CreateRecord, Use, Delete, MakeDir, AddTree, TreeFails, Undo, Record,
     Admit, AdmitRefused, CreateRow, Spawn, SpawnFails, TryStop, Forget, CleanupWorkspace, Disconnect
<1> QED
  BY <1>3, <1>7, <1>8 DEF Step, HourPasses, CleanupOrphanExecution, AdmissionStep, AgentExits,
     UpdateWorkspace

(* What a drain promises: nobody holds the read guard.                      *)
LEMMA DrainStep ==
  ASSUME WorkType, DrainOK, Step
  PROVE  DrainOK' /\ drain' \in BOOLEAN
<1>1. ASSUME NEW h \in Handlers, HandlerStep(h) PROVE DrainOK' /\ drain' \in BOOLEAN
  BY <1>1, StepAdmission DEF DrainOK, WorkType
<1>2. CASE ~\E h \in Handlers : HandlerStep(h)
  <2>1. UNCHANGED admitted /\ (UNCHANGED drain \/ drain' = FALSE \/ admitted = {})
    BY <1>2, OtherSteps
  <2>2. drain' \in BOOLEAN
    <3>1. drain' \in {drain, TRUE, FALSE} /\ drain \in BOOLEAN
      BY <1>2, OtherSteps DEF WorkType
    <3> QED
      BY <3>1, Zenon
  <2>3. DrainOK'
    BY <2>1, Zenon DEF DrainOK
  <2> QED
    BY <2>2, <2>3
<1> QED
  BY <1>1, <1>2

(* The sets of workspaces and guards.                                       *)
LEMMA SetsStep ==
  ASSUME WorkType, HandlersOK, Step
  PROVE  running' \subseteq Ids /\ guarded' \subseteq Handlers \cup Ids
<1>h. \A h \in Handlers : req[h].at # "idle" => req[h].w \in Ids
  BY DEF WorkType, HandlersOK, HandlerOK
<1>1. ASSUME NEW h \in Handlers, HandlerStep(h) PROVE running' \subseteq Ids
  <2>1. CASE CreateRow(h)
    BY <1>h, <2>1 DEF CreateRow, WorkType
  <2>2. CASE ~CreateRow(h)
    <3>1. running' \subseteq running
      BY <1>1, <2>2 DEF HandlerStep, CreateRecord, Use, Delete, MakeDir, AddTree, TreeFails, Undo,
         Record, Admit, AdmitRefused, Spawn, SpawnFails, TryStop, Forget, CleanupWorkspace,
         Disconnect, tables
    <3> QED
      BY <3>1 DEF WorkType
  <2> QED
    BY <2>1, <2>2
<1>2. ASSUME CleanerStep PROVE running' \subseteq Ids
  <2>1. UNCHANGED running
    BY <1>2 DEF CleanerStep, OrphanNext, OrphansDone, Tick, ArchiveNext, FindExpired, CleanNext,
       CleanStep, MarkDeleted, ExpiredDone, tables
  <2> QED
    BY <2>1 DEF WorkType
<1>3. ASSUME ~CleanerStep, ~\E h \in Handlers : HandlerStep(h) PROVE running' \subseteq Ids
  BY <1>3 DEF Step, HourPasses, CleanupOrphanExecution, AdmissionStep, AgentExits, UpdateWorkspace,
     tables, WorkType
<1>4. guarded' \subseteq Handlers \cup Ids
  <2>1. ASSUME NEW h \in Handlers, Spawn(h) PROVE guarded' \subseteq Handlers \cup Ids
    BY <2>1, <1>h DEF Spawn, WorkType
  <2>2. ASSUME NEW h \in Handlers, NEW w \in Ids, CreateRecord(h, w) \/ Use(h, w, "launch")
        PROVE  guarded' \subseteq Handlers \cup Ids
    BY <2>2 DEF CreateRecord, Use, Guard, WorkType
  <2> QED
    BY <2>1, <2>2, StepAgents DEF WorkType
<1> QED
  BY <1>1, <1>2, <1>3, <1>4

(* After a crash nothing of the last server runs.                           *)
LEMMA CrashControl ==
  ASSUME ControlInv, Crash
  PROVE  ControlInv'
<1>1. \A h \in Handlers : req'[h] = Idle
  BY DEF Crash
<1>2. cleaner' = [Resting EXCEPT !.at = "orphans", !.list = Dirs]
  BY DEF Crash
<1>3. cleaner' \in Cleaner /\ cleaner'.at = "orphans" /\ cleaner'.list = Dirs
  BY <1>2 DEF Resting, Cleaner, Dirs
<1>4. WorkType'
  BY <1>3, IdleRequest DEF Crash, ControlInv, WorkType
<1>5. "idle" \in PlacesOf(None)
  BY WorkspacesAssumption DEF PlacesOf
<1>6. HandlersOK'
  BY <1>1, <1>5 DEF HandlersOK, HandlerOK, Idle, Working
<1>7. LockOK'
  BY <1>1, WorkspacesAssumption DEF LockOK, Locked, Idle
<1> QED
  BY <1>1, <1>3, <1>4, <1>6, <1>7 DEF Crash, ControlInv, CleanerOK, BornOK, BootOK, SweptOK, DrainOK

(* ControlInv is inductive.                                                 *)
LEMMA NextControl == ControlInv /\ [Next]_vars => ControlInv'
<1> SUFFICES ASSUME ControlInv, [Next]_vars PROVE ControlInv'
  OBVIOUS
<1>1. CASE UNCHANGED vars
  <2>1. UNCHANGED <<born, rows, running, inherited, disk, agents, req, cleaner, guarded, left,
                    drain, admitted>>
    BY <1>1 DEF vars, tables, admission
  <2>2. WorkType' /\ HandlersOK' /\ CleanerOK' /\ BornOK' /\ BootOK'
    BY <2>1 DEF ControlInv, WorkType, HandlersOK, HandlerOK, CleanerOK, BornOK, BootOK
  <2> QED
    BY <2>1, <2>2 DEF ControlInv, LockOK, Locked, SweptOK, DrainOK
<1>2. CASE Crash
  BY <1>2, CrashControl
<1>3. CASE Step /\ Settle
  <2>1. WorkType /\ HandlersOK /\ CleanerOK /\ BornOK /\ BootOK /\ LockOK /\ SweptOK /\ DrainOK
    BY DEF ControlInv
  <2>2. req' \in [Handlers -> Request] /\ HandlersOK'
    BY <1>3, <2>1, HandlersStep
  <2>3. cleaner' \in Cleaner /\ CleanerOK'
    BY <1>3, <2>1, StepCleaner
  <2>4. BornOK' /\ born' \subseteq Ids /\ agents' \subseteq Ids
    BY <1>3, <2>1, BornStep
  <2>5. BootOK' /\ inherited' \subseteq inherited
    BY <1>3, <2>1, BootStep
  <2>6. rows' \in [Ids -> Row \cup {None}]
    BY <1>3, <2>1, RowStep
  <2>7. disk' \in [Ids -> Dir]
    BY <1>3, <2>1, StepDisk
  <2>8. running' \subseteq Ids /\ guarded' \subseteq Handlers \cup Ids
    BY <1>3, <2>1, SetsStep
  <2>9. LockOK' /\ SweptOK' /\ DrainOK' /\ drain' \in BOOLEAN
    BY <1>3, <2>1, LockStep, SweptStep, DrainStep
  <2>10. WorkType'
    BY <2>1, <2>2, <2>3, <2>4, <2>5, <2>6, <2>7, <2>8, <2>9 DEF WorkType
  <2> QED
    BY <2>2, <2>3, <2>4, <2>5, <2>9, <2>10 DEF ControlInv
<1> QED
  BY <1>1, <1>2, <1>3 DEF Next

(* ControlInv holds in every reachable state.                               *)
LEMMA AlwaysControl == Spec => []ControlInv
<1>1. Init => ControlInv
  <2> SUFFICES ASSUME Init PROVE ControlInv
    OBVIOUS
  <2>1. \A h \in Handlers : req[h] = Idle
    BY DEF Init
  <2>2. cleaner \in Cleaner /\ cleaner.at = "orphans"
    BY DEF Init, Resting, Cleaner
  <2>3. WorkType
    BY <2>2, IdleRequest DEF Init, WorkType, AdmissionInit
  <2>4. "idle" \in PlacesOf(None)
    BY WorkspacesAssumption DEF PlacesOf
  <2>5. HandlersOK
    BY <2>1, <2>4 DEF HandlersOK, HandlerOK, Idle, Working
  <2>6. LockOK
    BY <2>1, WorkspacesAssumption DEF LockOK, Locked, Idle
  <2> QED
    BY <2>1, <2>2, <2>3, <2>5, <2>6 DEF Init, AdmissionInit, ControlInv, CleanerOK, BornOK, BootOK,
       SweptOK, DrainOK
<1> QED
  BY <1>1, NextControl, PTL DEF Spec

(* Of the directories a crash left and no workspace refers to, none         *)
(* outlives the first pass of cleanup_orphan_workspaces.                    *)
THEOREM OrphansSwept == Spec => []OrphansAreSwept
<1>1. ControlInv => OrphansAreSwept
  BY DEF ControlInv, SweptOK, OrphansAreSwept
<1> QED
  BY <1>1, AlwaysControl, PTL

(* set_drain: while a drain lasts no launch is between its admission and    *)
(* the end of its spawn, whichever clients disconnected meanwhile.          *)
THEOREM DrainIsQuiet == Spec => []QuietWhileDraining
<1>1. ControlInv => QuietWhileDraining
  BY DEF ControlInv, DrainOK, HandlersOK, QuietWhileDraining
<1> QED
  BY <1>1, AlwaysControl, PTL
---------------------------------------------------------------------------
(* A launch begins with the record or the touch of its workspace, and goes  *)
(* on in the same workspace.                                                *)
Begun(h, w) == CreateRecord(h, w) \/ Use(h, w, "launch")
GoesOn(h) ==
  /\ Launching(h) /\ req'[h].w = req[h].w /\ req'[h].kind = req[h].kind
  /\ req'[h].at = req[h].at \/ req[h].at \in Before(req'[h].at)

(* The request of a handler after it began.                                 *)
LEMMA BeginFields ==
  ASSUME WorkType, NEW h \in Handlers, NEW w \in Ids, Begun(h, w)
  PROVE  /\ req'[h].at = "mkdir" /\ req'[h].w = w /\ req'[h].todo = Repos
         /\ req[h] = Idle /\ \A o \in Handlers \ {h} : req'[o] = req[o]
         /\ CreateRecord(h, w) => req'[h].kind = "create" /\ ~req'[h].snap.ref
         /\ Use(h, w, "launch") => req'[h].kind = "launch" /\ req'[h].snap.ref = rows[w].ref
<1>1. CASE CreateRecord(h, w)
  <2>1. req'[h] = [at |-> "mkdir", kind |-> "create", w |-> w, snap |-> Snapshot(NewRow),
                   todo |-> Repos]
    BY <1>1 DEF CreateRecord, WorkType
  <2>2. ~Snapshot(NewRow).ref
    BY DEF Snapshot, NewRow
  <2>3. req[h] = Idle /\ \A o \in Handlers \ {h} : req'[o] = req[o]
    BY <1>1 DEF CreateRecord, WorkType
  <2> HIDE DEF Snapshot
  <2>4. ~Use(h, w, "launch") \/ req'[h].kind = "launch"
    BY DEF Use, WorkType
  <2> QED
    BY <1>1, <2>1, <2>2, <2>3, <2>4
<1>2. CASE Use(h, w, "launch")
  <2>1. req'[h] = [at |-> "mkdir", kind |-> "launch", w |-> w, snap |-> Snapshot(rows[w]),
                   todo |-> Repos]
    BY <1>2 DEF Use, WorkType
  <2>2. Snapshot(rows[w]).ref = rows[w].ref
    BY DEF Snapshot
  <2>3. req[h] = Idle /\ \A o \in Handlers \ {h} : req'[o] = req[o]
    BY <1>2 DEF Use, WorkType
  <2>4. ~CreateRecord(h, w) \/ req'[h].kind = "create"
    BY DEF CreateRecord, WorkType
  <2> QED
    BY <1>2, <2>1, <2>2, <2>3, <2>4
<1> QED
  BY <1>1, <1>2 DEF Begun

(* Whoever launches after a step began in it or did so before.              *)
LEMMA LaunchStep ==
  ASSUME ControlInv, Step, NEW h \in Handlers, Launching(h)'
  PROVE  GoesOn(h) \/ \E w \in Ids : Begun(h, w) /\ req'[h].w = w
<1>c. WorkType /\ HandlersOK /\ BornOK
  BY DEF ControlInv
<1>u. ASSUME req'[h] = req[h] PROVE GoesOn(h)
  BY <1>u DEF GoesOn, Launching
<1>1. CASE ~\E o \in Handlers : HandlerStep(o)
  BY <1>1, <1>u, OtherSteps
<1>2. ASSUME NEW o \in Handlers, HandlerStep(o), o # h
      PROVE  GoesOn(h)
  <2>1. Ended1(o) \/ Begins(o) \/ Advances(o)
    BY <1>2, <1>c, HandlerReq
  <2> QED
    BY <1>2, <1>u, <2>1 DEF Ended1, Begins, Advances, Same
<1>3. CASE HandlerStep(h)
  <2>1. Ended1(h) \/ Begins(h) \/ Advances(h)
    BY <1>3, <1>c, HandlerReq
  <2>2. ~Ended1(h)
    BY DEF Ended1, Launching, Idle
  <2>3. CASE Advances(h)
    <3>1. /\ req'[h].kind \in {"create", "launch"}
          /\ req'[h].at \in {"mkdir", "trees", "admit", "row", "spawn"}
      BY DEF Launching
    <3>2. req[h].at \in {"mkdir", "trees", "admit", "row", "spawn"}
      BY <2>3, <3>1 DEF Advances, Before
    <3> QED
      BY <2>3, <3>1, <3>2 DEF Advances, GoesOn, Launching
  <2>4. CASE Begins(h)
    <3>1. req[h] = Idle /\ req[h].at = "idle"
      BY <2>4 DEF Begins, Idle
    <3>2. \E w \in Ids : \/ CreateRecord(h, w) \/ Delete(h, w)
                         \/ \E kind \in {"launch", "access"} : Use(h, w, kind)
      BY <1>3, <3>1 DEF HandlerStep, MakeDir, AddTree, TreeFails, Undo, Record, Admit, AdmitRefused,
         CreateRow, Spawn, SpawnFails, TryStop, Forget, CleanupWorkspace, Disconnect
    <3>3. PICK w \in Ids : \/ CreateRecord(h, w) \/ Delete(h, w)
                           \/ \E kind \in {"launch", "access"} : Use(h, w, kind)
      BY <3>2
    <3>4. ~Delete(h, w)
      BY <1>c DEF Delete, Launching, WorkType, Idle
    <3>5. ~Use(h, w, "access")
      BY <1>c DEF Use, Launching, WorkType
    <3>6. Begun(h, w)
      BY <3>3, <3>4, <3>5 DEF Begun
    <3> QED
      BY <1>c, <3>6, BeginFields
  <2> QED
    BY <2>1, <2>2, <2>3, <2>4
<1> QED
  BY <1>1, <1>2, <1>3

(* Who ends a running row.                                                  *)
LEMMA RunStep ==
  ASSUME ControlInv, Step, NEW w \in running, w \notin running'
  PROVE  \/ rows'[w] = None
         \/ w \in agents /\ w \notin agents'
         \/ w \in inherited
         \/ \E h \in Handlers : SpawnFails(h) /\ req[h].w = w
<1>c. WorkType
  BY DEF ControlInv
<1>1. ASSUME NEW h \in Handlers, HandlerStep(h)
      PROVE  \/ rows'[w] = None
             \/ w \in agents /\ w \notin agents'
             \/ SpawnFails(h) /\ req[h].w = w
  <2>1. CASE Forget(h)
    BY <1>c, <2>1 DEF Forget, WorkType
  <2>2. CASE TryStop(h)
    BY <2>2 DEF TryStop
  <2>3. CASE SpawnFails(h)
    BY <2>3 DEF SpawnFails
  <2> QED
    BY <1>1, <2>1, <2>2, <2>3 DEF HandlerStep, CreateRecord, Use, Delete, MakeDir, AddTree,
       TreeFails, Undo, Record, Admit, AdmitRefused, CreateRow, Spawn, CleanupWorkspace, Disconnect,
       tables
<1>2. ~CleanerStep
  BY DEF CleanerStep, OrphanNext, OrphansDone, Tick, ArchiveNext, FindExpired, CleanNext,
     CleanStep, MarkDeleted, ExpiredDone, tables
<1> QED
  BY <1>1, <1>2 DEF Step, HourPasses, CleanupOrphanExecution, AdmissionStep, AgentExits,
     UpdateWorkspace, tables

(* A guard is begun with its launch and passes to its agent.                *)
LEMMA GuardStep ==
  ASSUME ControlInv, Step
  PROVE  /\ \A w \in agents' \cap guarded' :
              \/ w \in agents \cap guarded
              \/ \E h \in Handlers : Spawn(h) /\ h \in guarded /\ req[h].w = w
         /\ \A h \in Handlers \cap guarded' :
              h \in guarded \/ \E w \in Ids : Begun(h, w) /\ ~Doomed(w)
<1>c. /\ agents \subseteq Ids /\ Handlers \cap Ids = {}
      /\ \A h \in Handlers : req[h].at = "spawn" => req[h].w \in Ids
  BY WorkspacesAssumption DEF ControlInv, WorkType, HandlersOK, HandlerOK
<1>1. CASE agents' \subseteq agents /\ guarded' \subseteq guarded
  BY <1>1
<1>2. ASSUME NEW o \in Handlers, Spawn(o)
      PROVE  /\ \A w \in agents' \cap guarded' :
                  w \in agents \cap guarded \/ (Spawn(o) /\ o \in guarded /\ req[o].w = w)
             /\ \A h \in Handlers \cap guarded' : h \in guarded
  <2>1. req[o].w \in Ids /\ agents' = agents \cup {req[o].w}
        /\ guarded' = (guarded \ {o, req[o].w}) \cup (IF o \in guarded THEN {req[o].w} ELSE {})
    BY <1>c, <1>2 DEF Spawn
  <2> QED
    BY <1>c, <1>2, <2>1
<1>3. ASSUME NEW o \in Handlers, NEW v \in Ids, Begun(o, v)
      PROVE  /\ \A w \in agents' \cap guarded' : w \in agents \cap guarded
             /\ \A h \in Handlers \cap guarded' : h \in guarded \/ (h = o /\ ~Doomed(v))
  <2>1. UNCHANGED agents /\ Guard(o, v)
    BY <1>3 DEF Begun, CreateRecord, Use
  <2>2. \/ Doomed(v) /\ guarded' = guarded \ {o}
        \/ ~Doomed(v) /\ guarded' = guarded \cup {o}
    BY <2>1 DEF Guard
  <2> QED
    BY <1>c, <2>1, <2>2
<1>4. ASSUME ~\E h \in Handlers : Spawn(h), ~\E h \in Handlers : \E w \in Ids : Begun(h, w)
      PROVE  agents' \subseteq agents /\ guarded' \subseteq guarded
  BY <1>4, StepAgents DEF Begun
<1> QED
  BY <1>1, <1>2, <1>3, <1>4

(* A record that is there stays, with its reference, unless it is deleted.  *)
LEMMA KeptRow ==
  ASSUME ControlInv, Step, NEW w \in born
  PROVE  /\ rows[w] = None => rows'[w] = None
         /\ rows[w] # None /\ ~(\E h \in Handlers : req[h].w = w /\ req[h].at = "forget") =>
              rows'[w] # None /\ (rows[w].ref => rows'[w].ref)
         /\ rows[w] # None /\ rows'[w] # None =>
              rows'[w].age = 0 \/ rows'[w].age = rows[w].age \/ HourPasses
<1>1. WorkType /\ HandlersOK /\ CleanerOK /\ w \in Ids
  BY DEF ControlInv, WorkType
<1>2. ~\E h \in Handlers : CreateRecord(h, w)
  BY DEF CreateRecord
<1>3. None \notin Row
  BY WorkspacesAssumption
<1>4. \/ rows'[w] = rows[w]
      \/ /\ rows[w] \in Row /\ rows'[w] \in Row /\ (rows[w].ref => rows'[w].ref)
         /\ rows'[w].age = 0 \/ HourPasses
      \/ rows'[w] = None /\ \E h \in Handlers : req[h].w = w /\ req[h].at = "forget"
  BY <1>1, <1>2, RowStep
<1> QED
  BY <1>3, <1>4

(* Where a launch is its workspace was created.                             *)
LEMMA LaunchPlace ==
  ASSUME ControlInv, NEW h \in Handlers
  PROVE  /\ Launching(h) => req[h].w \in born /\ req[h].w \in Ids /\ req[h] # Idle
         /\ req[h].at \in {"row", "spawn"} => Launching(h) /\ Locked(h)
         /\ req[h].at = "undo" => Making(h, req[h].w)
         /\ \A w \in Ids : Making(h, w) => w \in born
<1>1. HandlerOK(req[h]) /\ born \subseteq Ids /\ req[h].kind \in Kinds \cup {None}
  BY DEF ControlInv, WorkType, HandlersOK, Request
<1>2. req[h].at # "idle" => req[h].w \in born /\ req[h] # Idle
  BY <1>1 DEF HandlerOK, Idle
<1>3. req[h].at \in {"row", "spawn"} => req[h].kind \in {"create", "launch"}
  BY <1>1 DEF HandlerOK, PlacesOf, Kinds
<1>4. req[h].at = "undo" => req[h].kind = "create"
  BY <1>1 DEF HandlerOK, PlacesOf, Kinds, Working
<1> QED
  BY <1>1, <1>2, <1>3, <1>4 DEF Launching, Making, Locked

(* SpawnOK is preserved.                                                    *)
LEMMA SpawnStep ==
  ASSUME ControlInv, SpawnOK, Step
  PROVE  SpawnOK'
<1>c. WorkType /\ HandlersOK /\ BornOK /\ BootOK /\ LockOK
  BY DEF ControlInv
<1>l. ASSUME NEW h \in Handlers, NEW o \in Handlers, req[h].at = "spawn", req[o].at = "spawn"
      PROVE  h = o
  BY <1>l, <1>c DEF LockOK, Locked
<1>1. ASSUME NEW w \in agents' PROVE w \in running' \/ rows'[w] = None
  <2>1. ASSUME NEW h \in Handlers, Spawn(h), w \notin agents PROVE w \in running' \/ rows'[w] = None
    <3>1. w = req[h].w /\ req[h].at = "spawn" /\ UNCHANGED <<running, rows>>
      BY <2>1 DEF Spawn, tables
    <3> QED
      BY <3>1 DEF SpawnOK
  <2>2. CASE w \in agents
    <3>1. w \in born
      BY <1>c, <2>2 DEF BornOK
    <3>2. CASE rows[w] = None
      BY <3>1, <3>2, KeptRow
    <3>3. CASE rows[w] # None /\ w \notin running'
      <4>1. w \in running
        BY <2>2, <3>3 DEF SpawnOK
      <4>2. w \notin inherited
        BY <1>c, <2>2 DEF BootOK
      <4>3. ~\E h \in Handlers : SpawnFails(h) /\ req[h].w = w
        BY <2>2, <3>3 DEF SpawnFails, SpawnOK
      <4> QED
        BY <1>1, <3>3, <4>1, <4>2, <4>3, RunStep
    <3> QED
      BY <3>2, <3>3
  <2> QED
    BY <2>1, <2>2, StepAgents
<1>2. ASSUME NEW h \in Handlers, req'[h].at = "spawn"
      PROVE  rows'[req'[h].w] = None \/ (req'[h].w \in running' /\ req'[h].w \notin agents')
  <2>0. req'[h].kind \in {"create", "launch"}
    <3>1. req' \in [Handlers -> Request] /\ HandlersOK'
      BY <1>c, HandlersStep
    <3>2. HandlerOK(req[h])' /\ req'[h].kind \in Kinds \cup {None}
      BY <3>1 DEF HandlersOK, Request
    <3> QED
      BY <1>2, <3>2 DEF HandlerOK, PlacesOf, Kinds
  <2>1. Launching(h)'
    BY <1>2, <2>0 DEF Launching
  <2>2. GoesOn(h)
    BY <1>2, <2>1, <1>c, LaunchStep, BeginFields
  <2> DEFINE w == req[h].w
  <2>3. req'[h].w = w /\ req[h].at \in {"row", "spawn"} /\ w \in born
    BY <1>2, <2>2, LaunchPlace DEF GoesOn, Before
  <2>4. CASE req[h].at = "row"
    <3>1. CreateRow(h)
      <4>1. req'[h] # req[h]
        BY <1>2, <2>4
      <4>2. \E o \in Handlers : HandlerStep(o)
        BY <4>1, OtherSteps
      <4>3. PICK o \in Handlers : HandlerStep(o)
        BY <4>2
      <4>4. Same(o)
        BY <1>c, <4>3, HandlerReq DEF Ended1, Begins, Advances
      <4>5. o = h
        BY <4>1, <4>4 DEF Same
      <4>6. ~Disconnect(h)
        BY <1>2, <1>c DEF Disconnect, Idle, WorkType
      <4>7. req[h] # Idle
        BY <2>4 DEF Idle
      <4> QED
        BY <2>4, <4>3, <4>5, <4>6, <4>7 DEF HandlerStep, CreateRecord, Use, Delete, MakeDir, AddTree,
           TreeFails, Undo, Record, Admit, AdmitRefused, Spawn, SpawnFails, TryStop, Forget,
           CleanupWorkspace
    <3>2. ~Abort(h)
      BY <1>c, <1>2, AbortMoves DEF Moved, Ended1, Idle
    <3>3. rows[w] # None /\ w \notin running /\ running' = running \cup {w} /\ UNCHANGED agents
      BY <3>1, <3>2 DEF CreateRow
    <3>4. w \notin agents
      BY <3>3 DEF SpawnOK
    <3> QED
      BY <2>3, <3>3, <3>4
  <2>5. CASE req[h].at = "spawn"
    <3>1. CASE rows[w] = None
      BY <2>3, <3>1, KeptRow
    <3>2. CASE rows[w] # None
      <4>1. w \in running /\ w \notin agents
        BY <2>5, <3>2 DEF SpawnOK
      <4>2. ASSUME NEW o \in Handlers, Spawn(o) \/ SpawnFails(o) PROVE o # h
        <5>1. req'[o].at # "spawn"
          <6>1. CASE Spawn(o)
            BY <1>c, <6>1 DEF Spawn, WorkType, Idle
          <6>2. CASE SpawnFails(o)
            BY <1>c, <6>2, AbortMoves DEF SpawnFails, Moved, Ended1, Idle
          <6> QED
            BY <4>2, <6>1, <6>2
        <5> QED
          BY <1>2, <5>1
      <4>3. ~\E o \in Handlers : Spawn(o) \/ SpawnFails(o)
        BY <1>l, <2>5, <4>2 DEF Spawn, SpawnFails
      <4>4. w \notin agents'
        BY <4>1, <4>3, StepAgents
      <4>5. w \notin inherited
        BY <1>c, <2>2, LaunchPlace DEF BootOK, GoesOn
      <4>6. w \in running' \/ rows'[w] = None
        BY <4>1, <4>3, <4>5, RunStep
      <4> QED
        BY <2>3, <4>4, <4>6
    <3> QED
      BY <3>1, <3>2
  <2> QED
    BY <2>3, <2>4, <2>5
<1> QED
  BY <1>1, <1>2 DEF SpawnOK

(* AgeOK is preserved: an hour is longer than a launch.                     *)
LEMMA AgeStep ==
  ASSUME ControlInv, AgeOK, Step
  PROVE  AgeOK'
<1>c. WorkType
  BY DEF ControlInv
<1> SUFFICES ASSUME NEW h \in Handlers, Launching(h)'
             PROVE  rows'[req'[h].w] = None \/ rows'[req'[h].w].age = 0
  BY DEF AgeOK
<1>1. ASSUME NEW w \in Ids, Begun(h, w), req'[h].w = w PROVE rows'[w].age = 0
  <2>1. CASE CreateRecord(h, w)
    BY <1>c, <2>1 DEF CreateRecord, NewRow, WorkType
  <2>2. CASE Use(h, w, "launch")
    <3>1. rows[w] \in Row /\ rows' = [rows EXCEPT ![w].age = 0]
      BY <1>c, <2>2 DEF Use, Touch, WorkType
    <3> QED
      BY <1>c, <3>1 DEF WorkType, Row
  <2> QED
    BY <1>1, <2>1, <2>2 DEF Begun
<1>2. CASE GoesOn(h)
  <2>1. Launching(h) /\ req'[h].w = req[h].w /\ req[h].w \in born
    BY <1>2, LaunchPlace DEF GoesOn
  <2>2. rows[req[h].w] = None \/ rows[req[h].w].age = 0
    BY <2>1 DEF AgeOK
  <2>3. ~HourPasses
    BY <2>1 DEF HourPasses
  <2> QED
    BY <2>1, <2>2, <2>3, KeptRow
<1> QED
  BY <1>1, <1>2, LaunchStep

(* MakeOK is preserved: a new workspace is nobody else's.                   *)
LEMMA MakeStep ==
  ASSUME ControlInv, MakeOK, Step
  PROVE  MakeOK'
<1>c. WorkType /\ HandlersOK /\ BornOK
  BY DEF ControlInv
<1> SUFFICES ASSUME NEW h \in Handlers, NEW w \in Ids, Making(h, w)'
             PROVE  /\ w \notin agents'
                    /\ \A o \in Handlers \ {h} : req'[o].w = w => ~Launching(o)'
  BY DEF MakeOK
<1>1. Making(h, w) \/ CreateRecord(h, w)
  <2>1. /\ req'[h].w = w /\ req'[h].kind = "create" /\ req'[h].at \in {"mkdir", "trees", "undo"}
    BY DEF Making
  <2>2. CASE Launching(h)'
    <3>1. CASE GoesOn(h)
      BY <2>1, <3>1 DEF GoesOn, Before, Making
    <3>2. ASSUME NEW v \in Ids, Begun(h, v), req'[h].w = v PROVE CreateRecord(h, w)
      BY <1>c, <2>1, <3>2, BeginFields DEF Begun
    <3> QED
      BY <2>2, <3>1, <3>2, LaunchStep
  <2>3. CASE ~Launching(h)'
    <3>1. req'[h].at = "undo"
      BY <2>1, <2>3 DEF Launching
    <3>2. CASE req'[h] = req[h]
      BY <2>1, <3>2 DEF Making
    <3>3. CASE req'[h] # req[h]
      <4>1. \E o \in Handlers : HandlerStep(o)
        BY <3>3, OtherSteps
      <4>2. PICK o \in Handlers : HandlerStep(o)
        BY <4>1
      <4>3. Ended1(o) \/ Begins(o) \/ Advances(o)
        BY <1>c, <4>2, HandlerReq
      <4>4. o = h
        BY <3>3, <4>3 DEF Ended1, Begins, Advances, Same
      <4>5. Advances(h)
        BY <3>1, <4>3, <4>4 DEF Ended1, Begins, Idle
      <4> QED
        BY <2>1, <3>1, <4>5 DEF Advances, Before, Making
    <3> QED
      BY <3>2, <3>3
  <2> QED
    BY <2>2, <2>3
<1>2. CASE CreateRecord(h, w)
  <2>1. w \notin born /\ UNCHANGED agents
    BY <1>2 DEF CreateRecord
  <2>2. w \notin agents'
    BY <1>c, <2>1 DEF BornOK
  <2>3. ASSUME NEW o \in Handlers \ {h}, req'[o].w = w PROVE ~Launching(o)'
    <3>1. req'[o] = req[o]
      BY <1>c, <1>2, BeginFields DEF Begun
    <3>2. ~Launching(o)
      BY <2>1, <2>3, <3>1, LaunchPlace
    <3> QED
      BY <3>1, <3>2 DEF Launching
  <2> QED
    BY <2>2, <2>3
<1>3. CASE Making(h, w)
  <2>1. w \notin agents /\ \A o \in Handlers \ {h} : req[o].w = w => ~Launching(o)
    BY <1>3 DEF MakeOK
  <2>2. w \in born
    BY <1>3, LaunchPlace
  <2>3. w \notin agents'
    <3>1. ASSUME NEW o \in Handlers, Spawn(o), req[o].w = w PROVE FALSE
      <4>1. req[o].at = "spawn" /\ Launching(o)
        BY <3>1, LaunchPlace DEF Spawn
      <4> QED
        BY <1>3, <2>1, <3>1, <4>1 DEF Making
    <3>2. ASSUME NEW o \in Handlers, Spawn(o) PROVE w \notin agents'
      BY <2>1, <3>1, <3>2 DEF Spawn
    <3> QED
      BY <2>1, <3>2, StepAgents
  <2>4. ASSUME NEW o \in Handlers \ {h}, req'[o].w = w, Launching(o)' PROVE FALSE
    <3>1. CASE GoesOn(o)
      BY <2>1, <2>4, <3>1 DEF GoesOn
    <3>2. CASE CreateRecord(o, w)
      BY <2>2, <3>2 DEF CreateRecord
    <3>3. CASE Use(o, w, "launch")
      BY <1>3, <3>3 DEF Use
    <3> QED
      BY <2>4, <3>1, <3>2, <3>3, LaunchStep DEF Begun
  <2> QED
    BY <2>3, <2>4
<1> QED
  BY <1>1, <1>2, <1>3

(* Who decides to remove a workspace.                                       *)
LEMMA CondemnStep ==
  ASSUME ControlInv, Step, NEW w \in Ids, Condemned(w)'
  PROVE  \/ Condemned(w)
         \/ FindExpired /\ Expired(w)
         \/ OrphanNext /\ ~HasRef(w) /\ Unguard(w)
         \/ \E h \in Handlers :
              /\ req'[h].at \in Removing /\ Same(h) /\ Unguard(w)
              /\ \/ TryStop(h) /\ agents' = agents \ {w}
                 \/ Delete(h, w)
<1>c. WorkType /\ HandlersOK /\ BornOK /\ CleanerOK
  BY DEF ControlInv
<1>1. CASE Condemns(w)'
  BY <1>1, <1>c, StepCleaner DEF Condemns, Condemned
<1>2. ASSUME NEW h \in Handlers, req'[h].w = w, req'[h].at \in Removing
      PROVE  \/ Condemned(w)
             \/ /\ Same(h) /\ Unguard(w)
                /\ \/ TryStop(h) /\ agents' = agents \ {w}
                   \/ Delete(h, w)
  <2>1. CASE req'[h] = req[h]
    BY <1>2, <2>1 DEF Condemned
  <2>2. CASE req'[h] # req[h]
    <3>1. \E o \in Handlers : HandlerStep(o)
      BY <2>2, OtherSteps
    <3>2. PICK o \in Handlers : HandlerStep(o)
      BY <3>1
    <3>3. Ended1(o) \/ Begins(o) \/ Advances(o)
      BY <1>c, <3>2, HandlerReq
    <3>4. o = h /\ Same(h)
      BY <2>2, <3>3 DEF Ended1, Begins, Advances, Same
    <3>5. CASE Begins(h)
      <4>1. req[h] = Idle /\ req[h].at = "idle" /\ req'[h].at = "forget"
        BY <1>2, <3>5 DEF Begins, Idle, Removing
      <4>2. \E v \in Ids : \/ CreateRecord(h, v) \/ Delete(h, v)
                           \/ \E kind \in {"launch", "access"} : Use(h, v, kind)
        BY <3>2, <3>4, <4>1 DEF HandlerStep, MakeDir, AddTree, TreeFails, Undo, Record, Admit,
           AdmitRefused, CreateRow, Spawn, SpawnFails, TryStop, Forget, CleanupWorkspace, Disconnect
      <4>3. PICK v \in Ids : \/ CreateRecord(h, v) \/ Delete(h, v)
                             \/ \E kind \in {"launch", "access"} : Use(h, v, kind)
        BY <4>2
      <4>4. ~CreateRecord(h, v) /\ ~Use(h, v, "launch") /\ ~Use(h, v, "access")
        BY <1>c, <4>1 DEF CreateRecord, Use, WorkType
      <4>5. Delete(h, v)
        BY <4>3, <4>4
      <4>6. v = w
        BY <1>2, <1>c, <4>5 DEF Delete, WorkType, Idle
      <4> QED
        BY <3>4, <4>5, <4>6 DEF Delete
    <3>6. CASE Advances(h)
      <4>1. req[h].w = w /\ req[h].at \in Removing \cup {"failed"}
        BY <1>2, <3>6 DEF Advances, Before, Removing
      <4>2. CASE req[h].at \in Removing
        BY <4>1, <4>2 DEF Condemned
      <4>3. CASE req[h].at = "failed"
        <5>1. ~Disconnect(h) /\ req[h] # Idle
          BY <1>2, <1>c, <4>3 DEF Disconnect, Idle, Removing, WorkType
        <5>2. TryStop(h)
          BY <3>2, <3>4, <4>3, <5>1 DEF HandlerStep, CreateRecord, Use, Delete, MakeDir, AddTree,
             TreeFails, Undo, Record, Admit, AdmitRefused, CreateRow, Spawn, SpawnFails, Forget,
             CleanupWorkspace
        <5>3. req' # [req EXCEPT ![h] = Idle]
          BY <1>2, <1>c DEF Idle, Removing, WorkType
        <5> QED
          BY <3>4, <4>1, <5>2, <5>3 DEF TryStop
      <4> QED
        BY <4>1, <4>2, <4>3
    <3>7. ~Ended1(h)
      BY <1>2 DEF Ended1, Idle, Removing
    <3> QED
      BY <3>3, <3>4, <3>5, <3>6, <3>7
  <2> QED
    BY <2>1, <2>2
<1> QED
  BY <1>1, <1>2 DEF Condemned, Condemns

(* DoomOK is preserved: what is decided after a launch began spares it.     *)
LEMMA DoomStep ==
  ASSUME ControlInv, GuardInv, Step, UtcOffset <= ArchivedHours, UtcOffset <= RetentionHours
  PROVE  DoomOK'
<1>c. WorkType /\ BornOK /\ SpawnOK /\ AgeOK /\ DoomOK /\ KeepOK
  BY DEF ControlInv, GuardInv
<1> SUFFICES ASSUME NEW w \in Ids, Condemned(w)'
             PROVE  /\ w \notin agents' \cap guarded'
                    /\ \A h \in Handlers : req'[h].w = w /\ Launching(h)' => h \notin guarded'
  BY DEF DoomOK
<1>n. rows[w] # None => rows[w] \in Row
  BY <1>c DEF WorkType
<1>1. CASE Condemned(w)
  <2>1. /\ w \notin agents \cap guarded
        /\ \A h \in Handlers : req[h].w = w /\ Launching(h) => h \notin guarded
    BY <1>c, <1>1 DEF DoomOK
  <2>2. ASSUME NEW h \in Handlers, Spawn(h), h \in guarded, req[h].w = w PROVE FALSE
    BY <2>1, <2>2, LaunchPlace DEF Spawn
  <2>3. w \notin agents' \cap guarded'
    BY <2>1, <2>2, GuardStep
  <2>4. ASSUME NEW h \in Handlers, req'[h].w = w, Launching(h)', h \in guarded' PROVE FALSE
    <3>1. CASE h \in guarded /\ GoesOn(h)
      BY <2>1, <2>4, <3>1 DEF GoesOn
    <3>2. ASSUME NEW v \in Ids, Begun(h, v) PROVE FALSE
      <4>1. v = w
        BY <1>c, <2>4, <3>2, BeginFields
      <4>2. Doomed(w)
        BY <1>1 DEF Condemned, Doomed, Removing
      <4>3. guarded' = guarded \ {h}
        BY <3>2, <4>1, <4>2 DEF Begun, CreateRecord, Use, Guard
      <4> QED
        BY <2>4, <4>3
    <3> QED
      BY <2>4, <3>1, <3>2, LaunchStep, GuardStep
  <2> QED
    BY <2>3, <2>4
<1>2. CASE FindExpired /\ Expired(w)
  <2>1. UNCHANGED <<agents, req, guarded>>
    BY <1>2 DEF FindExpired
  <2>2. w \notin agents
    BY <1>c, <1>2 DEF Expired, HasRef, SpawnOK
  <2>3. rows[w] \in Row /\ rows[w] # None /\ rows[w].age # 0
    <3>1. rows[w] \in Row /\ rows[w] # None
      BY <1>n, <1>2 DEF Expired, HasRef
    <3> QED
      BY <1>2, <3>1, WorkspacesAssumption DEF Expired
  <2>4. ASSUME NEW h \in Handlers, req[h].w = w PROVE ~Launching(h)
    BY <1>c, <2>3, <2>4 DEF AgeOK
  <2> QED
    BY <2>1, <2>2, <2>4 DEF Launching
<1>3. CASE OrphanNext /\ ~HasRef(w) /\ Unguard(w)
  <2>1. UNCHANGED <<agents, req>> /\ guarded' = guarded \ {h \in Handlers : req[h].w = w}
    BY <1>3 DEF OrphanNext, Unguard
  <2>2. w \notin agents \cap guarded
    BY <1>c, <1>3 DEF KeepOK
  <2> QED
    BY <2>1, <2>2
<1>4. ASSUME NEW h \in Handlers, req'[h].at \in Removing, Same(h), Unguard(w),
             (TryStop(h) /\ agents' = agents \ {w}) \/ Delete(h, w)
      PROVE  /\ w \notin agents' \cap guarded'
             /\ \A o \in Handlers : req'[o].w = w /\ Launching(o)' => o \notin guarded'
  <2>1. w \notin agents'
    <3>1. CASE Delete(h, w)
      BY <1>c, <3>1 DEF Delete, Deletable, SpawnOK
    <3> QED
      BY <1>4, <3>1
  <2>2. ASSUME NEW o \in Handlers, req'[o].w = w, Launching(o)' PROVE o \notin guarded'
    <3>1. o # h
      BY <1>4, <2>2 DEF Launching, Removing
    <3>2. req[o].w = w
      BY <1>4, <2>2, <3>1 DEF Same
    <3> QED
      BY <1>4, <3>2 DEF Unguard
  <2> QED
    BY <2>1, <2>2
<1> QED
  BY <1>1, <1>2, <1>3, <1>4, CondemnStep

(* Nobody takes a worktree from a guarded launch or agent.                  *)
LEMMA GuardedTrees ==
  ASSUME ControlInv, GuardInv, Step, NEW w \in Ids,
         \/ w \in agents \cap guarded
         \/ \E h \in Handlers \cap guarded : req[h].w = w /\ Launching(h)
  PROVE  /\ disk[w].trees \subseteq disk'[w].trees
         /\ ~\E h \in Handlers : req[h].w = w /\ req[h].at = "forget"
<1>1. ~Condemned(w)
  BY DEF GuardInv, DoomOK
<1>2. ASSUME NEW o \in Handlers, req[o].w = w, req[o].at = "undo" PROVE FALSE
  <2>1. Making(o, w)
    BY <1>2, LaunchPlace
  <2>2. w \notin agents /\ \A h \in Handlers \ {o} : req[h].w = w => ~Launching(h)
    BY <2>1 DEF GuardInv, MakeOK
  <2>3. ~Launching(o)
    BY <1>2 DEF Launching
  <2> QED
    BY <2>2, <2>3
<1>3. ~Clearing(w)
  BY <1>1, <1>2 DEF Clearing, Condemned, Removing
<1>4. disk[w].trees \subseteq disk'[w].trees
  BY <1>3, StepDisk DEF ControlInv
<1> QED
  BY <1>1, <1>4 DEF Condemned, Removing

(* What a launch no longer has to make is there.                            *)
LEMMA TodoStep ==
  ASSUME ControlInv, Step, NEW h \in Handlers, Launching(h)', GoesOn(h), req'[h].at # "mkdir",
         rows[req[h].w] # None, req[h].snap.ref => rows[req[h].w].ref
  PROVE  /\ \/ req'[h].todo = Repos
            \/ req[h].at # "mkdir" /\ req[h].todo \ req'[h].todo \subseteq disk'[req[h].w].trees
         /\ \/ req'[h].snap.ref => req[h].snap.ref
            \/ rows'[req[h].w].ref
<1>c. WorkType /\ HandlersOK /\ BornOK /\ req[h] \in Request /\ HandlerOK(req[h])
  BY DEF ControlInv, WorkType, HandlersOK
<1> DEFINE w == req[h].w
<1>w. w \in Ids
  BY LaunchPlace DEF GoesOn
<1> DEFINE Good == /\ \/ req'[h].todo = Repos
                      \/ req[h].at # "mkdir" /\ req[h].todo \ req'[h].todo \subseteq disk'[w].trees
                   /\ (req'[h].snap.ref => req[h].snap.ref) \/ rows'[w].ref
<1> SUFFICES Good
  OBVIOUS
<1>1. CASE req'[h] = req[h]
  BY <1>1
<1>2. CASE req'[h] # req[h]
  <2>1. \E o \in Handlers : HandlerStep(o)
    BY <1>2, OtherSteps
  <2>2. PICK o \in Handlers : HandlerStep(o)
    BY <2>1
  <2>3. Ended1(o) \/ Begins(o) \/ Advances(o)
    BY <1>c, <2>2, HandlerReq
  <2>4. o = h
    BY <1>2, <2>3 DEF Ended1, Begins, Advances, Same
  <2>5. Advances(h)
    BY <2>3, <2>4 DEF Ended1, Begins, Idle, GoesOn, Launching
  <2>6. ASSUME NEW todo \in SUBSET Repos, NEW at \in Places, Go(h, at, todo)
        PROVE  req'[h].todo = todo /\ req'[h].snap = req[h].snap
    BY <1>c, <2>6, GoMoves DEF Moved
  <2>7. CASE req'[h].at = "trees"
    <3>1. req[h].at \in {"mkdir", "trees"} /\ req[h] # Idle /\ ~Disconnect(h) /\ ~Abort(h)
      <4>1. req[h].at \in {"mkdir", "trees"} /\ req[h] # Idle
        BY <2>5, <2>7 DEF Advances, Before, Idle
      <4>2. ~Disconnect(h)
        BY <1>c, <2>7 DEF Disconnect, Idle, WorkType
      <4>3. ~Abort(h)
        BY <1>c, <2>7, AbortMoves DEF Moved, Ended1, Idle
      <4> QED
        BY <4>1, <4>2, <4>3
    <3>2. ~TreeFails(h)
      BY <1>c, <2>7, <3>1, GoMoves DEF TreeFails, Moved, Places
    <3>3. ~Record(h)
      <4>1. req' # [req EXCEPT ![h] = Idle] /\ ~Go(h, "admit", {})
        BY <1>c, <2>7, GoMoves DEF Moved, Places, Working, Idle, WorkType
      <4>2. req' # [req EXCEPT ![h].at = "admit", ![h].snap.ref = TRUE]
        BY <1>c, <2>7 DEF WorkType, Request
      <4>3. req[h].kind \in {"create", "launch"}
        BY DEF GoesOn, Launching
      <4> QED
        BY <3>1, <4>1, <4>2, <4>3 DEF Record
    <3>4. MakeDir(h) \/ AddTree(h)
      BY <2>2, <2>4, <3>1, <3>2, <3>3 DEF HandlerStep, CreateRecord, Use, Delete, Undo, Admit,
         AdmitRefused, CreateRow, Spawn, SpawnFails, TryStop, Forget, CleanupWorkspace
    <3>5. CASE MakeDir(h)
      <4>1. req[h].todo = Repos /\ Go(h, "trees", Repos)
        BY <1>c, <3>5 DEF MakeDir, HandlerOK
      <4> QED
        BY <2>6, <4>1 DEF Places, Working
    <3>6. CASE AddTree(h)
      <4>1. PICK r \in req[h].todo : EnsureTree(w, r) /\ Go(h, "trees", req[h].todo \ {r})
        BY <3>6 DEF AddTree
      <4>2. req'[h].todo = req[h].todo \ {r} /\ req'[h].snap = req[h].snap
        BY <1>c, <2>6, <4>1 DEF Request, Places, Working
      <4>3. r \in disk'[w].trees
        BY <1>c, <1>w, <4>1 DEF EnsureTree, WorkType
      <4> QED
        BY <3>6, <4>2, <4>3 DEF AddTree
    <3> QED
      BY <3>4, <3>5, <3>6
  <2>8. CASE req'[h].at \in {"row", "spawn"}
    BY <1>c, <2>5, <2>8 DEF Advances, Before, HandlerOK
  <2>9. CASE req'[h].at = "admit"
    <3>1. req[h].at = "trees" /\ req[h] # Idle
      BY <2>5, <2>9 DEF Advances, Before, Idle
    <3>2. ~Disconnect(h) /\ ~AddTree(h) /\ ~TreeFails(h)
      <4>1. ~Disconnect(h)
        BY <1>c, <2>9 DEF Disconnect, Idle, WorkType
      <4>2. ~AddTree(h)
        <5>1. ASSUME NEW r \in req[h].todo, Go(h, "trees", req[h].todo \ {r}) PROVE FALSE
          BY <1>c, <2>9, <5>1, GoMoves DEF Moved, Request, Places, Working
        <5> QED
          BY <5>1 DEF AddTree
      <4>3. ~TreeFails(h)
        <5>1. ~Go(h, "undo", Repos \ req[h].todo) /\ ~Abort(h)
          BY <1>c, <2>9, GoMoves, AbortMoves DEF Moved, Places, Ended1, Idle
        <5> QED
          BY <5>1 DEF TreeFails
      <4> QED
        BY <4>1, <4>2, <4>3
    <3>3. Record(h)
      BY <2>2, <2>4, <3>1, <3>2 DEF HandlerStep, CreateRecord, Use, Delete, MakeDir, Undo, Admit,
         AdmitRefused, CreateRow, Spawn, SpawnFails, TryStop, Forget, CleanupWorkspace
    <3>4. req[h].todo = {}
      BY <3>3 DEF Record
    <3>5. rows[w] \in Row
      BY <1>c, <1>w DEF WorkType
    <3>6. rows'[w].ref \/ (req'[h].snap.ref => req[h].snap.ref)
      <4>1. CASE ~req[h].snap.ref \/ req[h].snap.deleted
        <5> DEFINE row == [rows[w] EXCEPT !.ref = TRUE, !.age = 0,
                                          !.deleted = IF req[h].snap.deleted THEN FALSE ELSE @]
        <5>1. Update(w, row)
          BY <3>3, <4>1 DEF Record
        <5>2. row.ref
          BY <3>5 DEF Row
        <5> HIDE DEF row
        <5>3. rows' = [rows EXCEPT ![w] = row]
          BY <5>1 DEF Update
        <5>4. rows'[w] = row
          BY <1>c, <1>w, <5>3 DEF WorkType
        <5> QED
          BY <5>2, <5>4
      <4>2. CASE req[h].snap.ref
        BY <4>2
      <4> QED
        BY <4>1, <4>2
    <3> QED
      BY <3>1, <3>4, <3>6
  <2>10. req'[h].at \in {"trees", "admit", "row", "spawn"}
    BY DEF Launching
  <2> QED
    BY <2>7, <2>8, <2>9, <2>10
<1> QED
  BY <1>1, <1>2

(* TreeOK is preserved.                                                     *)
LEMMA TreeStep ==
  ASSUME ControlInv, GuardInv, Step
  PROVE  TreeOK'
<1>c. WorkType /\ TreeOK
  BY DEF ControlInv, GuardInv
<1> SUFFICES ASSUME NEW h \in guarded' \cap Handlers, Launching(h)'
             PROVE  /\ req'[h].at # "mkdir" =>
                         Repos \ req'[h].todo \subseteq disk'[req'[h].w].trees
                    /\ rows'[req'[h].w] # None
                    /\ req'[h].snap.ref => rows'[req'[h].w].ref
  BY DEF TreeOK
<1>1. ASSUME NEW w \in Ids, Begun(h, w)
      PROVE  /\ req'[h].at = "mkdir" /\ rows'[req'[h].w] # None
             /\ req'[h].snap.ref => rows'[req'[h].w].ref
  <2>1. CASE CreateRecord(h, w)
    <3>1. rows'[w] = NewRow /\ NewRow \in Row
      BY <1>c, <2>1 DEF CreateRecord, WorkType, NewRow, Row
    <3>2. rows'[w] # None
      BY <3>1, WorkspacesAssumption
    <3> QED
      BY <1>c, <1>1, <2>1, <3>2, BeginFields
  <2>2. CASE Use(h, w, "launch")
    <3>1. rows[w] \in Row /\ rows' = [rows EXCEPT ![w].age = 0]
      BY <1>c, <2>2 DEF Use, Touch, WorkType
    <3>2. \A r \in Row : LET n == [r EXCEPT !.age = 0] IN n \in Row /\ n.ref = r.ref
      BY DEF Row
    <3>3. rows'[w] = [rows[w] EXCEPT !.age = 0]
      BY <1>c, <3>1 DEF WorkType
    <3>4. rows'[w] \in Row /\ rows'[w].ref = rows[w].ref
      BY <3>1, <3>2, <3>3
    <3>5. rows'[w] # None
      BY <3>4, WorkspacesAssumption
    <3> QED
      BY <1>c, <1>1, <2>2, <3>4, <3>5, BeginFields
  <2> QED
    BY <1>1, <2>1, <2>2 DEF Begun
<1>2. ASSUME GoesOn(h), h \in guarded
      PROVE  /\ req'[h].at # "mkdir" =>
                  Repos \ req'[h].todo \subseteq disk'[req'[h].w].trees
             /\ rows'[req'[h].w] # None
             /\ req'[h].snap.ref => rows'[req'[h].w].ref
  <2> DEFINE w == req[h].w
  <2>1. Launching(h) /\ req'[h].w = w /\ w \in born /\ w \in Ids
    BY <1>2, LaunchPlace DEF GoesOn
  <2>2. /\ req[h].at # "mkdir" => Repos \ req[h].todo \subseteq disk[w].trees
        /\ rows[w] # None
        /\ req[h].snap.ref => rows[w].ref
    BY <1>c, <1>2, <2>1 DEF TreeOK
  <2>3. /\ disk[w].trees \subseteq disk'[w].trees
        /\ ~\E o \in Handlers : req[o].w = w /\ req[o].at = "forget"
    BY <1>2, <2>1, GuardedTrees
  <2>4. rows'[w] # None /\ (rows[w].ref => rows'[w].ref)
    BY <2>1, <2>2, <2>3, KeptRow
  <2>5. CASE req'[h].at # "mkdir"
    <3>1. /\ \/ req'[h].todo = Repos
             \/ req[h].at # "mkdir" /\ req[h].todo \ req'[h].todo \subseteq disk'[w].trees
          /\ (req'[h].snap.ref => req[h].snap.ref) \/ rows'[w].ref
      BY <1>2, <2>2, <2>5, TodoStep
    <3>2. Repos \ req'[h].todo \subseteq disk'[w].trees
      BY <2>2, <2>3, <3>1
    <3>3. req'[h].snap.ref => rows'[w].ref
      BY <2>2, <2>4, <3>1
    <3> QED
      BY <2>1, <2>4, <3>2, <3>3
  <2>6. CASE req'[h].at = "mkdir"
    <3>1. req[h].at = "mkdir"
      BY <1>2, <2>6 DEF GoesOn, Before
    <3>2. req'[h] = req[h]
      <4>1. ASSUME NEW o \in Handlers, HandlerStep(o) PROVE req'[h] = req[h]
        <5>1. Ended1(o) \/ Begins(o) \/ Advances(o)
          BY <4>1, HandlerReq DEF ControlInv
        <5>2. o # h
          BY <2>6, <3>1, <5>1 DEF Ended1, Begins, Advances, Before, Idle
        <5> QED
          BY <5>1, <5>2 DEF Ended1, Begins, Advances, Same
      <4> QED
        BY <4>1, OtherSteps
    <3> QED
      BY <2>1, <2>2, <2>4, <2>6, <3>2
  <2> QED
    BY <2>5, <2>6
<1> QED
  BY <1>1, <1>2, LaunchStep, GuardStep

(* KeepOK is preserved.                                                     *)
LEMMA KeepStep ==
  ASSUME ControlInv, GuardInv, Step
  PROVE  KeepOK'
<1>c. WorkType /\ BornOK /\ KeepOK /\ HandlersOK /\ CleanerOK
  BY DEF ControlInv, GuardInv
<1> SUFFICES ASSUME NEW w \in agents', w \in guarded'
             PROVE  disk'[w].trees = Repos /\ rows'[w] # None /\ rows'[w].ref
  BY DEF KeepOK, HasRef
<1>1. CASE w \in agents \cap guarded
  <2>1. w \in born /\ w \in Ids
    BY <1>c, <1>1 DEF BornOK, WorkType
  <2>2. disk[w].trees = Repos /\ rows[w] # None /\ rows[w].ref
    BY <1>c, <1>1 DEF KeepOK, HasRef
  <2>3. /\ disk[w].trees \subseteq disk'[w].trees
        /\ ~\E o \in Handlers : req[o].w = w /\ req[o].at = "forget"
    BY <1>1, <2>1, GuardedTrees
  <2>4. disk'[w].trees \subseteq Repos
    <3>1. disk' \in [Ids -> Dir]
      BY <1>c, StepDisk
    <3> QED
      BY <2>1, <3>1 DEF Dir
  <2> QED
    BY <2>1, <2>2, <2>3, <2>4, KeptRow
<1>2. ASSUME NEW h \in Handlers, Spawn(h), h \in guarded, req[h].w = w
      PROVE  disk'[w].trees = Repos /\ rows'[w] # None /\ rows'[w].ref
  <2>1. req[h].at = "spawn" /\ req[h].snap.ref /\ UNCHANGED <<disk, rows>>
    BY <1>2 DEF Spawn, tables
  <2>2. Launching(h) /\ w \in Ids /\ req[h].todo = {}
    BY <1>c, <1>2, <2>1, LaunchPlace DEF HandlersOK, HandlerOK
  <2>3. Repos \subseteq disk[w].trees /\ rows[w] # None /\ rows[w].ref
    BY <1>2, <2>1, <2>2 DEF GuardInv, TreeOK
  <2>4. disk[w].trees \subseteq Repos
    BY <1>c, <2>2 DEF WorkType, Dir
  <2> QED
    BY <2>1, <2>3, <2>4
<1> QED
  BY <1>1, <1>2, GuardStep

(* GuardInv is inductive, where local time is no further ahead of UTC than  *)
(* the shortest window.                                                     *)
LEMMA NextGuard ==
  ASSUME UtcOffset <= ArchivedHours, UtcOffset <= RetentionHours
  PROVE  ControlInv /\ GuardInv /\ [Next]_vars => GuardInv'
<1> SUFFICES ASSUME ControlInv, GuardInv, [Next]_vars PROVE GuardInv'
  OBVIOUS
<1>1. CASE UNCHANGED vars
  <2>1. UNCHANGED <<rows, running, disk, agents, req, cleaner, guarded>>
    BY <1>1 DEF vars, tables
  <2>2. SpawnOK' /\ AgeOK' /\ MakeOK'
    BY <2>1 DEF GuardInv, SpawnOK, AgeOK, MakeOK, Launching, Making
  <2>3. DoomOK'
    BY <2>1 DEF GuardInv, DoomOK, Condemned, Launching
  <2>4. TreeOK' /\ KeepOK'
    BY <2>1 DEF GuardInv, TreeOK, KeepOK, HasRef, Launching
  <2> QED
    BY <2>2, <2>3, <2>4 DEF GuardInv
<1>2. CASE Crash
  <2>1. agents' = {} /\ guarded' = {} /\ \A h \in Handlers : req'[h] = Idle
    BY <1>2 DEF Crash
  <2>2. \A h \in Handlers : req'[h].at = "idle" /\ req'[h].kind = None
    BY <2>1 DEF Idle
  <2>3. SpawnOK' /\ TreeOK' /\ KeepOK' /\ DoomOK'
    BY <2>1, <2>2 DEF SpawnOK, TreeOK, KeepOK, DoomOK
  <2>4. AgeOK' /\ MakeOK'
    BY <2>2 DEF AgeOK, MakeOK, Launching, Making
  <2> QED
    BY <2>3, <2>4 DEF GuardInv
<1>3. CASE Step
  <2>1. SpawnOK' /\ AgeOK' /\ MakeOK'
    BY <1>3, SpawnStep, AgeStep, MakeStep DEF GuardInv
  <2>2. DoomOK' /\ TreeOK' /\ KeepOK'
    BY <1>3, DoomStep, TreeStep, KeepStep
  <2> QED
    BY <2>1, <2>2 DEF GuardInv
<1> QED
  BY <1>1, <1>2, <1>3 DEF Next

(* find_expired_for_cleanup and touch: an agent keeps its worktrees for as  *)
(* long as it runs, unless somebody had decided to remove them by the time  *)
(* its launch began, or a user deleted the workspace before its row         *)
(* existed; where local time is no further ahead of UTC than the shortest   *)
(* window of find_expired_for_cleanup.                                      *)
THEOREM AgentsKeepWorktrees ==
  ASSUME UtcOffset <= ArchivedHours, UtcOffset <= RetentionHours
  PROVE  Spec => []AgentKeepsWorktree
<1>1. Init => GuardInv
  <2> SUFFICES ASSUME Init PROVE GuardInv
    OBVIOUS
  <2>1. agents = {} /\ guarded = {} /\ \A h \in Handlers : req[h] = Idle
    BY DEF Init
  <2>2. \A h \in Handlers : req[h].at = "idle" /\ req[h].kind = None
    BY <2>1 DEF Idle
  <2>3. SpawnOK /\ TreeOK /\ KeepOK /\ DoomOK
    BY <2>1, <2>2 DEF SpawnOK, TreeOK, KeepOK, DoomOK
  <2>4. AgeOK /\ MakeOK
    BY <2>2 DEF AgeOK, MakeOK, Launching, Making
  <2> QED
    BY <2>3, <2>4 DEF GuardInv
<1>2. ControlInv /\ GuardInv /\ [Next]_vars => GuardInv'
  BY NextGuard
<1>3. GuardInv => AgentKeepsWorktree
  BY DEF GuardInv, KeepOK, AgentKeepsWorktree
<1> QED
  BY <1>1, <1>2, <1>3, AlwaysControl, PTL DEF Spec
============================================================================
