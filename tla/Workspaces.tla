----------------------------- MODULE Workspaces -----------------------------
(***************************************************************************)
(* The directories agents work in: creation, recreation on access and      *)
(* removal of a workspace's git worktrees (crates/worktree-manager,        *)
(* crates/workspace-manager, crates/local-deployment/src/container.rs), on *)
(* behalf of request handlers that create, use, launch in and delete       *)
(* workspaces (crates/server/src/routes/workspaces) and of the cleanup     *)
(* task, over the tables workspaces and execution_processes.  Every        *)
(* operation on one worktree holds the lock of its path and is one step;   *)
(* the directory around the worktrees has no lock.  A workspace has one    *)
(* session; those that use no worktrees are left out.                      *)
(***************************************************************************)
EXTENDS Integers, LaunchAdmission

CONSTANTS
  Ids,              \* workspaces
  Repos,            \* repositories of every workspace
  Handlers,         \* request handlers
  ArchivedHours,    \* retention of an archived workspace, '-1 hours'
  RetentionHours,   \* retention of the others and MIN_AUTO_ARCHIVE_IDLE_DAYS
  UtcOffset,        \* hours by which local time is ahead of UTC
  None

Row == [ref : BOOLEAN, deleted : BOOLEAN, archived : BOOLEAN, age : Nat, done : BOOLEAN]

ASSUME WorkspacesAssumption ==
  /\ {ArchivedHours, RetentionHours} \subseteq Nat /\ UtcOffset \in Int
  /\ Repos # {}
  /\ Handlers \cap Ids = {}
  /\ None \notin Ids \cup Row \cup {"create", "launch", "access", "delete"}

VARIABLES
  born,       \* workspaces whose record was created
  rows,       \* table workspaces, a Row or None
  running,    \* workspaces with a running execution row
  inherited,  \* those whose row is from before the last crash
  disk,       \* directories: [dir, trees]
  agents,     \* workspaces with a live agent
  req,        \* handlers: [at, kind, w, snap, todo]
  cleaner,    \* the cleanup task: [at, list, w, todo]
  guarded,    \* history: launches, and workspaces of their agents, see Guard
  left        \* history: directories of the last crash nobody refers to

tables == <<born, rows, running, inherited>>
vars == <<tables, disk, agents, req, cleaner, guarded, left, admission>>

Idle == [at |-> "idle", kind |-> None, w |-> None, snap |-> None, todo |-> {}]
Resting == [at |-> "idle", list |-> {}, w |-> None, todo |-> {}]
NoDir == [dir |-> FALSE, trees |-> {}]
NewRow == [ref |-> FALSE, deleted |-> FALSE, archived |-> FALSE, age |-> 0, done |-> FALSE]

Init ==
  /\ born = {} /\ rows = [w \in Ids |-> None] /\ running = {} /\ inherited = {}
  /\ disk = [w \in Ids |-> NoDir] /\ agents = {}
  /\ req = [h \in Handlers |-> Idle]
  /\ cleaner = [Resting EXCEPT !.at = "orphans"]
  /\ guarded = {} /\ left = {}
  /\ AdmissionInit

Snapshot(row) == [ref |-> row.ref, deleted |-> row.deleted]
HasRef(w) == rows[w] # None /\ rows[w].ref
Dirs == {w \in Ids : disk[w].dir}
Serving == inherited = {}

(* An UPDATE of one row; updated_at is set by each of them.                 *)
Update(w, row) == rows' = IF rows[w] = None THEN rows ELSE [rows EXCEPT ![w] = row]
Ended(w) == [rows[w] EXCEPT !.done = TRUE, !.age = 0]
Removed(w) == [rows[w] EXCEPT !.deleted = TRUE, !.age = 0]

Go(h, at, todo) == req' = [req EXCEPT ![h].at = at, ![h].todo = todo]

(* An error of a handler's own: only create_and_start_workspace cleans up.  *)
Abort(h) ==
  IF req[h].kind = "create" THEN Go(h, "failed", {}) ELSE req' = [req EXCEPT ![h] = Idle]

(* ensure_worktree_exists and cleanup_worktree, under the lock of the path. *)
EnsureTree(w, r) == disk' = [disk EXCEPT ![w] = [dir |-> TRUE, trees |-> @.trees \cup {r}]]
CleanupTree(w, r) == disk' = [disk EXCEPT ![w].trees = @ \ {r}]
RemoveDir(w) == disk' = [disk EXCEPT ![w] = NoDir]

(* Hours that pass.  A launch takes less than one, from the touch to the    *)
(* row; ages above every window are alike.                                  *)
MaxAge == RetentionHours + 1
Launching(h) ==
  /\ req[h].kind \in {"create", "launch"}
  /\ req[h].at \in {"mkdir", "trees", "admit", "row", "spawn"}
HourPasses ==
  /\ \A h \in Handlers : ~Launching(h)
  /\ \E w \in Ids : rows[w] # None /\ rows[w].age < MaxAge
  /\ rows' = [w \in Ids |-> IF rows[w] # None /\ rows[w].age < MaxAge
                              THEN [rows[w] EXCEPT !.age = @ + 1] ELSE rows[w]]
  /\ UNCHANGED <<born, running, inherited, disk, agents, req, cleaner, guarded, admission>>

---------------------------------------------------------------------------
(* Somebody has decided to remove the directory of w.                       *)
Doomed(w) ==
  \/ cleaner.at \in {"expired", "clean", "mark"} /\ (w \in cleaner.list \/ w = cleaner.w)
  \/ cleaner.at = "orphan" /\ w = cleaner.w
  \/ \E h \in Handlers :
       req[h].w = w /\ req[h].at \in {"failed", "undo", "stopped", "forget", "remove"}

(* History: a launch is guarded unless, from its start to its row, somebody *)
(* has decided so; its agent inherits the guard.                            *)
Guard(h, w) == guarded' = IF Doomed(w) THEN guarded \ {h} ELSE guarded \cup {h}
Unguard(w) == guarded' = guarded \ {h \in Handlers : req[h].w = w}

(* create_and_start_workspace, up to the record.                            *)
CreateRecord(h, w) ==
  /\ Serving /\ req[h] = Idle /\ w \notin born
  /\ born' = born \cup {w} /\ rows' = [rows EXCEPT ![w] = NewRow]
  /\ req' = [req EXCEPT ![h] = [at |-> "mkdir", kind |-> "create", w |-> w,
                                snap |-> Snapshot(NewRow), todo |-> Repos]]
  /\ Guard(h, w)
  /\ UNCHANGED <<running, inherited, disk, agents, cleaner, admission>>

(* Mutant of Touch: an access leaves updated_at alone.                      *)
TouchNothing(w) == UNCHANGED rows

(* touch.  It is skipped within two minutes of the last one, when the age   *)
(* is still 0.                                                              *)
Touch(w) == rows' = [rows EXCEPT ![w].age = 0]

(* scheduler_lock: a dispatch holds it throughout, a first start from its   *)
(* admission on.                                                            *)
Locked(h) == req[h].kind = "launch" \/ req[h].at \in {"row", "spawn"}

(* A workspace has no session to launch in before it is created.            *)
Making(h, w) == req[h].w = w /\ req[h].kind = "create" /\ req[h].at \in {"mkdir", "trees", "undo"}

(* Bound: one access at a time, beside a live agent.  One to a workspace    *)
(* nobody works in does what a launch does that is then refused.            *)
AccessBound(w) == w \in agents /\ \A o \in Handlers : req[o].kind # "access"

(* A handler or the dispatcher reads the row and calls                      *)
(* ensure_container_exists, to launch an agent or for another access.       *)
Use(h, w, kind) ==
  /\ Serving /\ req[h] = Idle /\ rows[w] # None
  /\ kind = "launch" => w \notin running /\ \A o \in Handlers : ~Locked(o) /\ ~Making(o, w)
  /\ kind = "access" => AccessBound(w)
  /\ Touch(w)
  /\ req' = [req EXCEPT ![h] = [at |-> "mkdir", kind |-> kind, w |-> w,
                                snap |-> Snapshot(rows[w]), todo |-> Repos]]
  /\ IF kind = "launch" THEN Guard(h, w) ELSE UNCHANGED guarded
  /\ UNCHANGED <<born, running, inherited, disk, agents, cleaner, admission>>

(* create_workspace and ensure_workspace_exists: the directory, then one    *)
(* worktree after the other.                                                *)
MakeDir(h) ==
  /\ req[h].at = "mkdir" /\ Go(h, "trees", req[h].todo)
  /\ disk' = [disk EXCEPT ![req[h].w].dir = TRUE]
  /\ UNCHANGED <<tables, agents, cleaner, guarded, admission>>

AddTree(h) ==
  /\ req[h].at = "trees"
  /\ \E r \in req[h].todo : EnsureTree(req[h].w, r) /\ Go(h, "trees", req[h].todo \ {r})
  /\ UNCHANGED <<tables, agents, cleaner, guarded, admission>>

(* A git command fails; create_workspace rolls back what it created.        *)
TreeFails(h) ==
  /\ req[h].at = "trees" /\ req[h].todo # {}
  /\ IF req[h].kind = "create" THEN Go(h, "undo", Repos \ req[h].todo) ELSE Abort(h)
  /\ UNCHANGED <<tables, disk, agents, cleaner, guarded, admission>>

(* cleanup_created_worktrees, then remove_dir, which needs an empty one.    *)
Undo(h) ==
  /\ req[h].at = "undo"
  /\ IF req[h].todo # {}
       THEN \E r \in req[h].todo : CleanupTree(req[h].w, r) /\ Go(h, "undo", req[h].todo \ {r})
       ELSE /\ IF disk[req[h].w].trees = {} THEN RemoveDir(req[h].w) ELSE UNCHANGED disk
            /\ Abort(h)
  /\ UNCHANGED <<tables, agents, cleaner, guarded, admission>>

(* update_container_ref and clear_worktree_deleted, as the row was when it  *)
(* was read.                                                                *)
Record(h) ==
  LET w == req[h].w  s == req[h].snap  create == req[h].kind = "create"
  IN  /\ req[h].at = "trees" /\ req[h].todo = {}
      /\ IF rows[w] # None /\ (~s.ref \/ s.deleted)
           THEN Update(w, [rows[w] EXCEPT !.ref = TRUE, !.age = 0,
                                          !.deleted = IF s.deleted THEN FALSE ELSE @])
           ELSE UNCHANGED rows
      /\ CASE req[h].kind = "access" -> req' = [req EXCEPT ![h] = Idle]
           [] create /\ rows[w] = None -> Abort(h)
           [] create /\ rows[w] # None -> req' = [req EXCEPT ![h].at = "admit", ![h].snap.ref = TRUE]
           [] req[h].kind = "launch" -> Go(h, "admit", {})
      /\ UNCHANGED <<born, running, inherited, disk, agents, cleaner, guarded, admission>>

---------------------------------------------------------------------------
(* start_execution_with_id, under scheduler_lock.                           *)
Admit(h, sample) ==
  /\ req[h].at = "admit" /\ \A o \in Handlers \ {h} : ~Locked(o)
  /\ AdmitExecutionStart(h) /\ EnsureAvailable(sample) /\ Go(h, "row", {})
  /\ UNCHANGED <<tables, disk, agents, cleaner, guarded>>

AdmitRefused(h, sample) ==
  /\ req[h].at = "admit" /\ (drain \/ ~EnsureAvailable(sample)) /\ Abort(h)
  /\ UNCHANGED <<tables, disk, agents, cleaner, guarded, admission>>

(* ExecutionProcess::create, then set_archived(false).  The insert fails    *)
(* when the session is gone with its workspace, or has a running row.       *)
CreateRow(h) ==
  LET w == req[h].w
  IN  /\ req[h].at = "row"
      /\ IF rows[w] # None /\ w \notin running
           THEN /\ running' = running \cup {w}
                /\ Update(w, [rows[w] EXCEPT !.archived = FALSE, !.age = 0])
                /\ Go(h, "spawn", {}) /\ UNCHANGED admission
           ELSE Abort(h) /\ Release(h) /\ UNCHANGED <<running, rows>>
      /\ UNCHANGED <<born, inherited, disk, agents, cleaner, guarded>>

(* start_execution_inner: the worktree of the primary repository has to     *)
(* exist; which one that is is not kept.                                    *)
Spawn(h) ==
  LET w == req[h].w
  IN  /\ req[h].at = "spawn" /\ req[h].snap.ref /\ disk[w].trees # {}
      /\ agents' = agents \cup {w} /\ Release(h)
      /\ guarded' = (guarded \ {h, w}) \cup (IF h \in guarded THEN {w} ELSE {})
      /\ req' = [req EXCEPT ![h] = Idle]
      /\ UNCHANGED <<tables, disk, cleaner>>

(* ... or an error, which fails the row.                                    *)
SpawnFails(h) ==
  LET w == req[h].w
  IN  /\ req[h].at = "spawn" /\ Release(h) /\ Abort(h)
      /\ running' = running \ {w} /\ Update(w, Ended(w))
      /\ UNCHANGED <<born, inherited, disk, agents, cleaner, guarded>>

(* The exit monitor's terminal statement.                                   *)
AgentExits(w) ==
  /\ w \in agents /\ agents' = agents \ {w}
  /\ running' = running \ {w} /\ Update(w, Ended(w))
  /\ UNCHANGED <<born, inherited, disk, req, cleaner, guarded, admission>>

---------------------------------------------------------------------------
(* cleanup_failed_workspace_start: try_stop, cleanup_workspace, delete the  *)
(* record, cleanup_deletion_context.                                        *)
TryStop(h) ==
  LET w == req[h].w
  IN  /\ req[h].at = "failed"
      /\ IF rows[w] = None
           THEN req' = [req EXCEPT ![h] = Idle] /\ UNCHANGED <<rows, running, agents>>
           ELSE /\ Go(h, "stopped", Repos) /\ agents' = agents \ {w}
                /\ IF w \in agents THEN running' = running \ {w} /\ Update(w, Ended(w))
                                   ELSE UNCHANGED <<running, rows>>
      /\ Unguard(w)
      /\ UNCHANGED <<born, inherited, disk, cleaner, admission>>

(* has_running_non_dev_server_processes_for_workspace                       *)
Deletable(w) == w \notin running

(* delete_workspace, up to its check.                                       *)
Delete(h, w) ==
  /\ Serving /\ req[h] = Idle /\ rows[w] # None /\ Deletable(w)
  /\ req' = [req EXCEPT ![h] = [Idle EXCEPT !.at = "forget", !.kind = "delete", !.w = w]]
  /\ Unguard(w)
  /\ UNCHANGED <<tables, disk, agents, cleaner, admission>>

(* delete_record takes the sessions and executions with it.  The route      *)
(* answers an error when there was none, else leaves the rest to a task.    *)
Forget(h) ==
  LET w == req[h].w
  IN  /\ req[h].at = "forget"
      /\ rows' = [rows EXCEPT ![w] = None] /\ running' = running \ {w}
      /\ IF req[h].kind = "delete" /\ rows[w] = None
           THEN req' = [req EXCEPT ![h] = Idle] ELSE Go(h, "remove", Repos)
      /\ UNCHANGED <<born, inherited, disk, agents, cleaner, guarded, admission>>

(* WorkspaceManager::cleanup_workspace: the worktrees, then whatever is in  *)
(* the directory by then; the container's adds mark_worktree_deleted.       *)
CleanupWorkspace(h) ==
  LET w == req[h].w
  IN  /\ req[h].at \in {"stopped", "remove"}
      /\ IF req[h].todo # {}
           THEN /\ \E r \in req[h].todo : CleanupTree(w, r) /\ Go(h, req[h].at, req[h].todo \ {r})
                /\ UNCHANGED rows
           ELSE /\ RemoveDir(w)
                /\ IF req[h].at = "stopped"
                     THEN Go(h, "forget", {}) /\ Update(w, Removed(w))
                     ELSE req' = [req EXCEPT ![h] = Idle] /\ UNCHANGED rows
      /\ UNCHANGED <<born, running, inherited, agents, cleaner, guarded, admission>>

(* update_workspace.                                                        *)
UpdateWorkspace(w, archived) ==
  /\ Serving /\ rows[w] # None
  /\ Update(w, [rows[w] EXCEPT !.archived = archived, !.age = 0])
  /\ UNCHANGED <<born, running, inherited, disk, agents, req, cleaner, guarded, admission>>

---------------------------------------------------------------------------
(* Mutant of Orphan: a directory whose workspace has a record is kept.      *)
OrphanWithoutRow(w) == rows[w] = None

(* container_ref_exists                                                     *)
Orphan(w) == ~HasRef(w)

(* cleanup_orphan_workspaces, once after the start: a directory made while  *)
(* the pass runs may be listed or not.                                      *)
OrphanNext ==
  /\ cleaner.at = "orphans"
  /\ \E w \in cleaner.list \cup Dirs :
       IF disk[w].dir /\ Orphan(w)
         THEN /\ cleaner' = [cleaner EXCEPT !.at = "orphan", !.w = w, !.todo = disk[w].trees]
              /\ Unguard(w)
         ELSE cleaner' = [cleaner EXCEPT !.list = @ \ {w}] /\ w \in cleaner.list /\ UNCHANGED guarded
  /\ UNCHANGED <<tables, disk, agents, req, admission>>

OrphansDone ==
  /\ cleaner.at = "orphans" /\ cleaner.list = {} /\ cleaner' = Resting
  /\ UNCHANGED <<tables, disk, agents, req, guarded, admission>>

(* auto_archive_idle_workspaces, every half an hour, of those not pinned.   *)
IdleForArchive ==
  {w \in Ids \ running : rows[w] # None /\ ~rows[w].archived /\ rows[w].age > RetentionHours}

Tick ==
  /\ cleaner.at = "idle"
  /\ \E list \in SUBSET IdleForArchive :
       cleaner' = [Resting EXCEPT !.at = "archive", !.list = list]
  /\ UNCHANGED <<tables, disk, agents, req, guarded, admission>>

ArchiveNext ==
  /\ cleaner.at = "archive"
  /\ \E w \in cleaner.list :
       /\ Update(w, [rows[w] EXCEPT !.archived = TRUE, !.age = 0])
       /\ cleaner' = [cleaner EXCEPT !.list = @ \ {w}]
  /\ UNCHANGED <<born, running, inherited, disk, agents, req, guarded, admission>>

(* find_expired_for_cleanup.  Without a completed execution the maximum of  *)
(* the two times is NULL and the comparison never true; 'localtime' is      *)
(* compared with times that are UTC.                                        *)
Expired(w) ==
  /\ HasRef(w) /\ ~rows[w].deleted /\ w \notin running /\ rows[w].done
  /\ rows[w].age + UtcOffset > IF rows[w].archived THEN ArchivedHours ELSE RetentionHours

FindExpired ==
  /\ cleaner.at = "archive" /\ cleaner.list = {}
  /\ cleaner' = [Resting EXCEPT !.at = "expired", !.list = {w \in Ids : Expired(w)}]
  /\ UNCHANGED <<tables, disk, agents, req, guarded, admission>>

(* cleanup_workspace of the container, for each of the list in turn.        *)
CleanNext ==
  /\ cleaner.at = "expired"
  /\ \E w \in cleaner.list :
       cleaner' = [at |-> "clean", list |-> cleaner.list \ {w}, w |-> w,
                   todo |-> IF rows[w] = None THEN {} ELSE Repos]
  /\ UNCHANGED <<tables, disk, agents, req, guarded, admission>>

CleanStep ==
  /\ cleaner.at \in {"orphan", "clean"}
  /\ IF cleaner.todo # {}
       THEN \E r \in cleaner.todo :
              CleanupTree(cleaner.w, r) /\ cleaner' = [cleaner EXCEPT !.todo = @ \ {r}]
       ELSE /\ RemoveDir(cleaner.w)
            /\ cleaner' = IF cleaner.at = "clean" THEN [cleaner EXCEPT !.at = "mark"]
                          ELSE [Resting EXCEPT !.at = "orphans", !.list = cleaner.list \ {cleaner.w}]
  /\ UNCHANGED <<tables, agents, req, guarded, admission>>

(* mark_worktree_deleted                                                    *)
MarkDeleted ==
  /\ cleaner.at = "mark"
  /\ Update(cleaner.w, Removed(cleaner.w))
  /\ cleaner' = [Resting EXCEPT !.at = "expired", !.list = cleaner.list]
  /\ UNCHANGED <<born, running, inherited, disk, agents, req, guarded, admission>>

ExpiredDone ==
  /\ cleaner.at = "expired" /\ cleaner.list = {} /\ cleaner' = Resting
  /\ UNCHANGED <<tables, disk, agents, req, guarded, admission>>

---------------------------------------------------------------------------
(* A client disconnects: its handler is dropped at an await, with its guard.*)
(* The tasks that outlive their request are not.                            *)
Disconnect(h) ==
  /\ req[h] # Idle /\ ~(req[h].kind = "delete" /\ req[h].at = "remove")
  /\ req' = [req EXCEPT ![h] = Idle] /\ Release(h)
  /\ UNCHANGED <<tables, disk, agents, cleaner, guarded>>

(* The server ends with its agents; the cleanup task starts with the next   *)
(* one, before the rows of the last are failed.                             *)
Crash ==
  /\ agents' = {} /\ req' = [h \in Handlers |-> Idle] /\ inherited' = running
  /\ cleaner' = [Resting EXCEPT !.at = "orphans", !.list = Dirs]
  /\ guarded' = {} /\ left' = {w \in Dirs : ~HasRef(w)}
  /\ drain' = FALSE /\ admitted' = {}
  /\ UNCHANGED <<born, rows, running, disk>>

(* cleanup_orphan_executions, one row at a time.                            *)
CleanupOrphanExecution ==
  /\ \E w \in inherited :
       /\ inherited' = inherited \ {w} /\ running' = running \ {w} /\ Update(w, Ended(w))
  /\ UNCHANGED <<born, disk, agents, req, cleaner, guarded, admission>>

AdmissionStep ==
  /\ DrainLapses \/ \E on \in BOOLEAN : SetDrain(on)
  /\ UNCHANGED <<tables, disk, agents, req, cleaner, guarded>>

HandlerStep(h) ==
  \/ \E w \in Ids : CreateRecord(h, w) \/ Delete(h, w)
                    \/ \E kind \in {"launch", "access"} : Use(h, w, kind)
  \/ MakeDir(h) \/ AddTree(h) \/ TreeFails(h) \/ Undo(h) \/ Record(h)
  \/ \E sample \in Samples : Admit(h, sample) \/ AdmitRefused(h, sample)
  \/ CreateRow(h) \/ Spawn(h) \/ SpawnFails(h)
  \/ TryStop(h) \/ Forget(h) \/ CleanupWorkspace(h) \/ Disconnect(h)

CleanerStep ==
  \/ OrphanNext \/ OrphansDone \/ Tick \/ ArchiveNext \/ FindExpired
  \/ CleanNext \/ CleanStep \/ MarkDeleted \/ ExpiredDone

Step ==
  \/ \E h \in Handlers : HandlerStep(h)
  \/ CleanerStep \/ HourPasses \/ CleanupOrphanExecution \/ AdmissionStep
  \/ \E w \in Ids : AgentExits(w) \/ \E archived \in BOOLEAN : UpdateWorkspace(w, archived)

(* What a crash left is settled once it is removed or referred to.          *)
Settle == left' = {w \in left : disk'[w].dir /\ (rows'[w] = None \/ ~rows'[w].ref)}

Next == Crash \/ (Step /\ Settle)

Spec == Init /\ [][Next]_vars

---------------------------------------------------------------------------
(* find_expired_for_cleanup and touch: an agent keeps its worktrees for as  *)
(* long as it runs, unless somebody had decided to remove them by the time  *)
(* its launch began, or a user deleted the workspace before its row existed.*)
AgentKeepsWorktree == \A w \in agents \cap guarded : disk[w].trees = Repos

(* cleanup_orphan_workspaces: of the directories a crash left and no        *)
(* workspace refers to, none outlives the first pass of the next server.    *)
OrphansAreSwept == cleaner.at \notin {"orphans", "orphan"} => left = {}

(* set_drain, "no admitted start can appear after drain begins": while a    *)
(* drain lasts no launch is between its admission and the end of its spawn. *)
QuietWhileDraining == drain => \A h \in Handlers : req[h].at \notin {"row", "spawn"}
===========================================================================
