---------------------------- MODULE LogMigration ----------------------------
(***************************************************************************)
(* Migration of one terminal execution's legacy logs, rows of a table or a *)
(* plain file, into the compressed owner file                              *)
(* (crates/services/src/services/execution_log_migration.rs).  Requests    *)
(* for the same execution race each other, the capture that still holds    *)
(* the log, external editors, I/O errors, disconnecting clients and        *)
(* crashes.                                                                *)
(***************************************************************************)
EXTENDS Integers, Sequences, SequencesExt

CONSTANTS
  Requests,     \* migrate requests for this execution
  Keys,         \* (inserted_at, rowid) of a legacy row, ordered
  Texts,        \* contents of a row or file: sequences of chunks
  Bad,          \* the chunk that is not valid JSON
  MaxEdits,     \* bound on what external editors do
  MaxFaults,    \* bound on I/O errors, disconnects and crashes
  Capture,      \* the capture task, as holder of the lease
  None

Chunks == UNION {{t[i] : i \in DOMAIN t} : t \in Texts}

(* A legacy file and a compressed owner: what of the rows it was made from  *)
(* is recorded in it, and the bytes it decodes to.                          *)
PlainFile == [bytes : Texts, ver : Nat]
OwnerFile == [bytes : Seq(Chunks), rows : Seq(Keys \X Texts), sealed : BOOLEAN]

ASSUME MigrationAssumption ==
  /\ Keys \subseteq Nat \ {0} /\ MaxEdits \in Nat /\ MaxFaults \in Nat
  /\ Texts \subseteq Seq(Chunks)
  /\ Capture \notin Requests
  /\ None \notin Requests \cup {Capture} \cup PlainFile \cup OwnerFile

VARIABLES
  terminal,   \* the execution's status is terminal
  lease,      \* holder of the log's file lock, or None
  sql,        \* legacy rows: a function from some of Keys to Texts
  plain,      \* the legacy file, or None
  owner,      \* the compressed owner, or None
  durable,    \* its directory entry has reached the disk
  mig,        \* each request's local state
  detached,   \* publications left running by a dropped request
  evidence,   \* history: what the editors last left in each source
  versions,   \* history: contents the plain file or a recorded owner has had
  edits, faults

vars == <<terminal, lease, sql, plain, owner, durable, mig, detached, evidence,
          versions, edits, faults>>

NoRows == [k \in {} |-> None]

(* What copy_sql reads in one transaction: rows in key order, their bytes.  *)
Fingerprint(rows) ==
  LET order == SetToSortSeq(DOMAIN rows, <)
  IN  [i \in 1 .. Len(order) |-> <<order[i], rows[order[i]]>>]

Content(pairs) == FlattenSeq([i \in 1 .. Len(pairs) |-> pairs[i][2]])

ValidJson(bytes) == \A i \in 1 .. Len(bytes) : bytes[i] # Bad

Idle == [pc |-> "idle", at |-> 0, rows |-> <<>>, bytes |-> <<>>, ok |-> FALSE, seen |-> None]

Tables == UNION {[K -> Texts] : K \in SUBSET Keys}
Owners == [bytes : Texts, rows : {<<>>}, sealed : BOOLEAN]

(* Any legacy sources and no owner, or with an owner the current version    *)
(* recorded; or an execution whose capture still holds the log.             *)
Init ==
  /\ \/ terminal = TRUE /\ lease = None /\ owner \in {None} \cup Owners
     \/ terminal = FALSE /\ lease = Capture /\ owner \in {o \in Owners : ~o.sealed}
  /\ sql \in Tables
  /\ plain \in {None} \cup [bytes : Texts, ver : {0}]
  /\ lease = Capture => sql = NoRows /\ plain = None
  /\ durable = TRUE
  /\ mig = [r \in Requests |-> Idle] /\ detached = {}
  /\ evidence = [sql |-> sql, plain |-> IF plain = None THEN None ELSE plain.bytes]
  /\ versions = (IF plain = None THEN {} ELSE {plain.bytes})
                \cup (IF owner = None THEN {} ELSE {owner.bytes})
  /\ edits = 0 /\ faults = 0

---------------------------------------------------------------------------
Moves(r, state) == mig' = [mig EXCEPT ![r] = state]

(* A request ends, whatever its result: its lease and staging are dropped.  *)
Return(r) == Moves(r, Idle) /\ lease' = None

(* Mutant of Begin: a published owner is not taken up again.                *)
BeginAgain(r) ==
  /\ mig[r].pc = "idle" /\ terminal /\ lease = None
  /\ lease' = r /\ Moves(r, [Idle EXCEPT !.pc = "rows"])
  /\ UNCHANGED <<terminal, sql, plain, owner, durable, detached, evidence, versions, edits, faults>>

(* terminal_session, lock_execution_log and the recheck under the lease.    *)
Begin(r) ==
  /\ mig[r].pc = "idle" /\ terminal /\ lease = None
  /\ lease' = r
  /\ Moves(r, [Idle EXCEPT !.pc = IF owner = None THEN "rows" ELSE "verify"])
  /\ UNCHANGED <<terminal, sql, plain, owner, durable, detached, evidence, versions, edits, faults>>

(* copy_sql, a row at a time: the next key after the cursor.                *)
CopyRow(r) ==
  /\ mig[r].pc = "rows"
  /\ \E k \in DOMAIN sql :
       /\ k > mig[r].at /\ \A j \in DOMAIN sql : j > mig[r].at => k <= j
       /\ Moves(r, [mig[r] EXCEPT !.at = k, !.rows = Append(@, <<k, sql[k]>>),
                                  !.bytes = @ \o sql[k]])
  /\ UNCHANGED <<terminal, lease, sql, plain, owner, durable, detached, evidence, versions,
                 edits, faults>>

(* No row is left: seal and verify the staged copy, or turn to the plain    *)
(* file when there was no row.                                              *)
RowsDone(r) ==
  LET m == mig[r] IN
  /\ m.pc = "rows" /\ \A k \in DOMAIN sql : k <= m.at
  /\ IF m.rows # <<>> /\ ValidJson(m.bytes)
       THEN Moves(r, [m EXCEPT !.pc = "publish"]) /\ UNCHANGED lease
       ELSE IF m.rows = <<>> /\ plain # None
       THEN Moves(r, [m EXCEPT !.pc = "plain", !.at = 0, !.seen = plain.ver]) /\ UNCHANGED lease
       ELSE Return(r)
  /\ UNCHANGED <<terminal, sql, plain, owner, durable, detached, evidence, versions, edits, faults>>

(* Mutant of PlainDone: no comparison of the file's state.                  *)
PlainDoneUnchecked(r) ==
  /\ mig[r].pc = "plain" /\ mig[r].at >= Len(plain.bytes)
  /\ IF ValidJson(mig[r].bytes)
       THEN Moves(r, [mig[r] EXCEPT !.pc = "publish"]) /\ UNCHANGED lease
       ELSE Return(r)
  /\ UNCHANGED <<terminal, sql, plain, owner, durable, detached, evidence, versions, edits, faults>>

(* copy_plain, a chunk at a time.                                           *)
CopyPlain(r) ==
  /\ mig[r].pc = "plain" /\ mig[r].at < Len(plain.bytes)
  /\ Moves(r, [mig[r] EXCEPT !.at = @ + 1, !.bytes = Append(@, plain.bytes[mig[r].at + 1])])
  /\ UNCHANGED <<terminal, lease, sql, plain, owner, durable, detached, evidence, versions,
                 edits, faults>>

(* End of file: the file must not have changed since it was opened.         *)
PlainDone(r) ==
  /\ mig[r].pc = "plain" /\ mig[r].at >= Len(plain.bytes)
  /\ IF plain.ver = mig[r].seen /\ ValidJson(mig[r].bytes)
       THEN Moves(r, [mig[r] EXCEPT !.pc = "publish"]) /\ UNCHANGED lease
       ELSE Return(r)
  /\ UNCHANGED <<terminal, sql, plain, owner, durable, detached, evidence, versions, edits, faults>>

---------------------------------------------------------------------------
Staged(m) == [bytes |-> m.bytes, rows |-> m.rows, sealed |-> TRUE]

(* Mutant of Persist: the rename replaces an existing owner.                *)
PersistOver(copy) ==
  /\ owner' = copy /\ durable' = FALSE

(* publish_noclobber's rename.                                              *)
Persist(copy) ==
  /\ owner = None /\ owner' = copy /\ durable' = FALSE

Publish(r) ==
  /\ mig[r].pc = "publish"
  /\ \/ Persist(Staged(mig[r])) /\ Moves(r, [mig[r] EXCEPT !.pc = "syncdir"]) /\ UNCHANGED lease
     \/ owner # None /\ Return(r) /\ UNCHANGED <<owner, durable>>
  /\ UNCHANGED <<terminal, sql, plain, detached, evidence, versions, edits, faults>>

(* The rest of publish_noclobber: the directory entries are synced.         *)
SyncDir(r) ==
  /\ mig[r].pc = "syncdir" /\ durable' = TRUE
  /\ Moves(r, [mig[r] EXCEPT !.pc = "verify"])
  /\ UNCHANGED <<terminal, lease, sql, plain, owner, detached, evidence, versions, edits, faults>>

(* Every owner, just published or found, is verified the same way.          *)
Verify(r) ==
  /\ mig[r].pc = "verify"
  /\ IF owner.sealed /\ ValidJson(owner.bytes)
       THEN Moves(r, [Idle EXCEPT !.pc = "confirm", !.seen = owner]) /\ UNCHANGED lease
       ELSE Return(r)
  /\ UNCHANGED <<terminal, sql, plain, owner, durable, detached, evidence, versions, edits, faults>>

(* confirm_publication; its error is kept, and forbids every prune.         *)
ConfirmOwner(r) ==
  /\ mig[r].pc = "confirm"
  /\ \/ durable' = TRUE /\ Moves(r, [mig[r] EXCEPT !.pc = "prune_sql", !.ok = TRUE])
        /\ UNCHANGED faults
     \/ faults < MaxFaults /\ faults' = faults + 1 /\ UNCHANGED durable
        /\ Moves(r, [mig[r] EXCEPT !.pc = "prune_sql", !.ok = FALSE])
  /\ UNCHANGED <<terminal, lease, sql, plain, owner, detached, evidence, versions, edits>>

(* Mutants of SameEvidence: the row metadata is not compared; the           *)
(* durability error is not consulted.                                       *)
SameBytes(m) ==
  m.ok /\ Content(Fingerprint(sql)) = m.seen.bytes

SameUnconfirmed(m) ==
  Content(Fingerprint(sql)) = m.seen.bytes /\ Fingerprint(sql) = m.seen.rows

(* The rows as they are now are what the verified, durable owner holds.     *)
SameEvidence(m) ==
  m.ok /\ Content(Fingerprint(sql)) = m.seen.bytes /\ Fingerprint(sql) = m.seen.rows

(* One transaction: read the rows again, delete them if they are held.      *)
PruneSql(r) ==
  /\ mig[r].pc = "prune_sql"
  /\ sql' = IF SameEvidence(mig[r]) THEN NoRows ELSE sql
  /\ IF plain # None THEN Moves(r, [mig[r] EXCEPT !.pc = "hash_plain"]) /\ UNCHANGED lease
                     ELSE Return(r)
  /\ UNCHANGED <<terminal, plain, owner, durable, detached, evidence, versions, edits, faults>>

(* copy_plain without a writer: the hash and the state of what was hashed.  *)
HashPlain(r) ==
  /\ mig[r].pc = "hash_plain"
  /\ Moves(r, [mig[r] EXCEPT !.pc = "prune_plain", !.bytes = plain.bytes, !.at = plain.ver])
  /\ UNCHANGED <<terminal, lease, sql, plain, owner, durable, detached, evidence, versions,
                 edits, faults>>

(* The second metadata call and the removal, one step: the code does not    *)
(* claim to exclude an editor between them.                                 *)
PrunePlain(r) ==
  LET m == mig[r] IN
  /\ m.pc = "prune_plain"
  /\ plain' = IF m.ok /\ m.bytes = m.seen.bytes /\ plain.ver = m.at THEN None ELSE plain
  /\ Return(r)
  /\ UNCHANGED <<terminal, sql, owner, durable, detached, evidence, versions, edits, faults>>

---------------------------------------------------------------------------
Fault == faults < MaxFaults /\ faults' = faults + 1

(* An I/O error ends the request.  The ones of ConfirmOwner are its own.    *)
Fails(r) ==
  /\ mig[r].pc \notin {"idle", "confirm"} /\ Fault /\ Return(r)
  /\ UNCHANGED <<terminal, sql, plain, owner, durable, detached, evidence, versions, edits>>

(* The client disconnects: the handler is dropped with its lease, but a     *)
(* publication already handed to a blocking thread goes on.                 *)
Disconnect(r) ==
  /\ mig[r].pc # "idle" /\ Fault /\ Return(r)
  /\ detached' = IF mig[r].pc = "publish" THEN detached \cup {Staged(mig[r])} ELSE detached
  /\ UNCHANGED <<terminal, sql, plain, owner, durable, evidence, versions, edits>>

(* The orphaned rename, unless the staging directory went first.            *)
DetachedPublish ==
  /\ \E copy \in detached :
       /\ detached' = detached \ {copy}
       /\ Persist(copy) \/ UNCHANGED <<owner, durable>>
  /\ UNCHANGED <<terminal, lease, sql, plain, mig, evidence, versions, edits, faults>>

(* An entry that never reached the disk may be gone after a power loss.     *)
Crash ==
  /\ Fault
  /\ lease' = None /\ mig' = [r \in Requests |-> Idle] /\ detached' = {}
  /\ terminal' = TRUE
  /\ owner' \in IF durable THEN {owner} ELSE {owner, None}
  /\ durable' = TRUE
  /\ UNCHANGED <<sql, plain, evidence, versions, edits>>

(* The capture task of a live execution, which may outlast its end, and     *)
(* leaves the owner sealed or not.                                          *)
ExecutionEnds ==
  /\ ~terminal /\ terminal' = TRUE
  /\ UNCHANGED <<lease, sql, plain, owner, durable, mig, detached, evidence, versions, edits, faults>>

CaptureEnds ==
  /\ lease = Capture /\ lease' = None
  /\ owner' \in {owner, [owner EXCEPT !.sealed = TRUE]}
  /\ UNCHANGED <<terminal, sql, plain, durable, mig, detached, evidence, versions, edits, faults>>

(* External editors of the legacy sources.                                  *)
EditSql ==
  /\ edits < MaxEdits /\ edits' = edits + 1 /\ lease # Capture
  /\ \/ \E d \in DOMAIN sql : sql' = [k \in DOMAIN sql \ {d} |-> sql[k]]
     \/ \E n \in Keys, t \in Texts :
          sql' = [k \in DOMAIN sql \cup {n} |-> IF k = n THEN t ELSE sql[k]]
  /\ evidence' = [evidence EXCEPT !.sql = sql']
  /\ UNCHANGED <<terminal, lease, plain, owner, durable, mig, detached, versions, faults>>

EditPlain ==
  /\ edits < MaxEdits /\ edits' = edits + 1 /\ plain # None
  /\ \E t \in Texts : /\ plain' = [bytes |-> t, ver |-> plain.ver + 1]
                      /\ evidence' = [evidence EXCEPT !.plain = t]
                      /\ versions' = versions \cup {t}
  /\ UNCHANGED <<terminal, lease, sql, owner, durable, mig, detached, faults>>

RequestStep(r) ==
  \/ CopyRow(r) \/ RowsDone(r) \/ CopyPlain(r) \/ PlainDone(r)
  \/ Publish(r) \/ SyncDir(r) \/ Verify(r) \/ ConfirmOwner(r)
  \/ PruneSql(r) \/ HashPlain(r) \/ PrunePlain(r)

Next ==
  \/ \E r \in Requests : Begin(r) \/ RequestStep(r) \/ Fails(r) \/ Disconnect(r)
  \/ DetachedPublish \/ Crash \/ ExecutionEnds \/ CaptureEnds \/ EditSql \/ EditPlain

Spec == Init /\ [][Next]_vars

(* Requests run on, executions end, and the operator repeats the request.   *)
FairMigration ==
  /\ Spec
  /\ \A r \in Requests : WF_vars(RequestStep(r))
  /\ WF_vars(\E r \in Requests : Begin(r))
  /\ WF_vars(DetachedPublish) /\ WF_vars(ExecutionEnds) /\ WF_vars(CaptureEnds)

---------------------------------------------------------------------------
(* migrate_inner, "Originals survive any unverified publication": what the  *)
(* legacy sources held is still in them or, with the same rows and bytes,   *)
(* in a sealed owner that has reached the disk.                             *)
EvidenceSurvives ==
  /\ sql # evidence.sql =>
       /\ durable /\ owner # None /\ owner.sealed
       /\ owner.rows = Fingerprint(evidence.sql)
       /\ owner.bytes = Content(Fingerprint(evidence.sql))
  /\ plain = None /\ evidence.plain # None =>
       durable /\ owner # None /\ owner.sealed /\ owner.bytes = evidence.plain

(* publish_noclobber, "Existing destinations are never replaced": a sealed  *)
(* owner on the disk never changes, however late a dropped request's        *)
(* publication runs.                                                        *)
OwnerNeverReplaced ==
  [][owner # None /\ durable /\ owner.sealed => owner' = owner /\ durable']_vars

(* copy_plain, "plain source changed during copy": an owner made from the   *)
(* plain file holds a content that file had, never a mixture of two.        *)
PlainCopyIsGenuine ==
  owner # None => owner.rows # <<>> \/ owner.bytes \in versions

(* "Explicit, resumable migration": repeated after whatever interrupted it, *)
(* a migration leaves rows behind only if they cannot be published or the   *)
(* owner differs from them.                                                 *)
MigrationResumes ==
  <>[](\/ sql = NoRows
       \/ ~ValidJson(Content(Fingerprint(sql)))
       \/ owner # None /\ (~owner.sealed \/ owner.rows # Fingerprint(sql)))
=============================================================================
