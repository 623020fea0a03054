-------------------------- MODULE MigrationProofs --------------------------
(***************************************************************************)
(* For every number of requests, rows, contents, edits and faults: a       *)
(* migration never loses the legacy logs, never replaces a sealed owner    *)
(* and never publishes a mixture of two states of the plain file.          *)
(***************************************************************************)
EXTENDS LogMigration, SequenceTheorems, TLAPS

Copying == {"rows", "plain", "publish"}
Pruning == {"prune_sql", "hash_plain", "prune_plain"}
Places == {"idle", "syncdir", "verify", "confirm"} \cup Copying \cup Pruning

Local == [pc : Places, at : Nat, rows : Seq(Keys \X Texts), bytes : Seq(Chunks), ok : BOOLEAN,
          seen : {None} \cup Nat \cup OwnerFile]

MigrationType ==
  /\ DOMAIN sql \subseteq Keys /\ \A k \in DOMAIN sql : sql[k] \in Texts
  /\ plain \in {None} \cup PlainFile
  /\ owner \in {None} \cup OwnerFile
  /\ durable \in BOOLEAN
  /\ mig \in [Requests -> Local]
  /\ detached \subseteq OwnerFile

(* lock_execution_log: a request that works holds the lease, and a capture  *)
(* that still holds it has its owner.                                       *)
LeaseOK ==
  /\ \A r \in Requests : mig[r].pc # "idle" => lease = r
  /\ lease = Capture => owner # None

(* What it verified is still what is published, durably if it says so.      *)
VerifiedOK(m) ==
  /\ m.pc \in {"syncdir", "verify", "confirm"} \cup Pruning => owner # None
  /\ m.pc \in {"confirm"} \cup Pruning => m.seen = owner /\ owner.sealed
  /\ m.pc \in Pruning /\ m.ok => durable

(* The plain file is there while a request reads it, and the bytes read are *)
(* its own for as long as its state is the one compared.                    *)
ReadSoFar(m) ==
  m.at <= Len(plain.bytes) /\ Len(m.bytes) = m.at /\ \A i \in 1..m.at : m.bytes[i] = plain.bytes[i]
ReadingOK(m) ==
  /\ m.pc \in {"plain", "hash_plain", "prune_plain"} => plain # None
  /\ m.pc = "plain" => /\ m.rows = <<>> /\ m.seen \in Nat /\ m.seen <= plain.ver
                       /\ plain.ver = m.seen => ReadSoFar(m)
  /\ m.pc = "prune_plain" => m.at <= plain.ver /\ (plain.ver = m.at => m.bytes = plain.bytes)

(* A copy is one of rows, or of a content the plain file has had.           *)
Genuine(copy) == copy.rows # <<>> \/ copy.bytes \in versions
CopyOK(m) ==
  /\ m.pc = "rows" /\ m.rows = <<>> => m.bytes = <<>>
  /\ m.pc = "publish" => Genuine(m)

RequestOK(m) == VerifiedOK(m) /\ ReadingOK(m) /\ CopyOK(m)

SourcesOK ==
  /\ evidence = [sql |-> evidence.sql, plain |-> evidence.plain]
  /\ plain # None => evidence.plain = plain.bytes /\ plain.bytes \in versions
CopiesOK == (owner # None => Genuine(owner)) /\ \A copy \in detached : Genuine(copy)

MigrationInv ==
  /\ MigrationType /\ LeaseOK /\ SourcesOK /\ CopiesOK
  /\ \A r \in Requests : RequestOK(mig[r])

---------------------------------------------------------------------------
(* A request that does nothing is always right.                             *)
LEMMA IdleIsOK == Idle \in Local /\ Idle.pc = "idle" /\ \A m : m.pc = "idle" => RequestOK(m)
<1>1. Idle \in Local /\ Idle.pc = "idle"
  BY EmptySeq DEF Idle, Local, Places
<1>2. \A m : m.pc = "idle" => RequestOK(m)
  BY DEF RequestOK, VerifiedOK, ReadingOK, CopyOK, Pruning
<1> QED
  BY <1>1, <1>2

(* A request goes from one place to the next with the rest of its state.    *)
LEMMA AtPlace ==
  ASSUME NEW m \in Local, NEW p \in Places
  PROVE  \E q \in Local : /\ q = [m EXCEPT !.pc = p] /\ q.pc = p /\ q.at = m.at
                          /\ q.rows = m.rows /\ q.bytes = m.bytes /\ q.ok = m.ok
                          /\ q.seen = m.seen
<1> DEFINE t == [m EXCEPT !.pc = p]
<1>1. /\ t \in Local /\ t.pc = p /\ t.at = m.at /\ t.rows = m.rows /\ t.bytes = m.bytes
      /\ t.ok = m.ok /\ t.seen = m.seen
  BY DEF Local
<1> QED
  BY <1>1

(* One request moves, the others wait for the lease.                        *)
LEMMA RequestMoves ==
  ASSUME MigrationInv, NEW r \in Requests, NEW q \in Local,
         mig[r].pc # "idle" \/ lease = None,
         Moves(r, q), lease' = IF q.pc = "idle" THEN None ELSE r, RequestOK(q)'
  PROVE  mig' \in [Requests -> Local] /\ LeaseOK' /\ \A o \in Requests : RequestOK(mig[o])'
<1>1. mig' \in [Requests -> Local] /\ \A o \in Requests : mig'[o] = IF o = r THEN q ELSE mig[o]
  BY DEF Moves, MigrationInv, MigrationType
<1>2. \A o \in Requests \ {r} : mig[o].pc = "idle"
  BY MigrationAssumption DEF MigrationInv, LeaseOK
<1>3. LeaseOK'
  BY <1>1, <1>2, MigrationAssumption DEF LeaseOK
<1>4. ASSUME NEW o \in Requests PROVE RequestOK(mig[o])'
  <2>1. CASE o = r
    BY <1>1, <2>1 DEF RequestOK, VerifiedOK, ReadingOK, CopyOK, ReadSoFar, Genuine
  <2>2. CASE o # r
    <3>1. mig'[o].pc = "idle"
      BY <1>1, <1>2, <2>2
    <3> QED
      BY <3>1 DEF RequestOK, VerifiedOK, ReadingOK, CopyOK, Pruning
  <2> QED
    BY <2>1, <2>2
<1> QED
  BY <1>1, <1>3, <1>4

(* A request that ends leaves nothing to be right about.                    *)
LEMMA ReturnMoves ==
  ASSUME MigrationInv, NEW r \in Requests, mig[r].pc # "idle", Return(r)
  PROVE  mig' \in [Requests -> Local] /\ LeaseOK' /\ \A o \in Requests : RequestOK(mig[o])'
<1>1. RequestOK(Idle)'
  BY IdleIsOK DEF RequestOK, VerifiedOK, ReadingOK, CopyOK, Pruning, Idle
<1> QED
  BY <1>1, IdleIsOK, RequestMoves DEF Return

(* Steps that touch neither the sources nor what is published.              *)
LEMMA LocalStep ==
  ASSUME MigrationInv, UNCHANGED <<sql, plain, owner, durable, detached, evidence, versions>>,
         mig' \in [Requests -> Local], LeaseOK', \A r \in Requests : RequestOK(mig[r])'
  PROVE  MigrationInv'
<1>1. MigrationType' /\ SourcesOK' /\ CopiesOK'
  BY DEF MigrationInv, MigrationType, SourcesOK, CopiesOK, Genuine
<1> QED
  BY <1>1 DEF MigrationInv

(* A request takes the lease and finds out which way to go.                 *)
LEMMA BeginStep ==
  ASSUME MigrationInv, NEW r \in Requests, Begin(r)
  PROVE  MigrationInv'
<1>1. PICK q \in Local : /\ q = [Idle EXCEPT !.pc = IF owner = None THEN "rows" ELSE "verify"]
                         /\ q.pc = (IF owner = None THEN "rows" ELSE "verify")
                         /\ q.rows = <<>> /\ q.bytes = <<>>
  <2>1. "rows" \in Places /\ "verify" \in Places /\ Idle.rows = <<>> /\ Idle.bytes = <<>>
    BY DEF Idle, Places, Copying
  <2> QED
    BY <2>1, IdleIsOK, AtPlace
<1>2. Moves(r, q) /\ lease = None /\ lease' = r /\ UNCHANGED owner
  BY <1>1 DEF Begin
<1>3. RequestOK(q)'
  BY <1>1, <1>2 DEF RequestOK, VerifiedOK, ReadingOK, CopyOK, Pruning
<1>4. mig' \in [Requests -> Local] /\ LeaseOK' /\ \A o \in Requests : RequestOK(mig[o])'
  <2>1. q.pc # "idle"
    BY <1>1
  <2> QED
    BY <1>2, <1>3, <2>1, RequestMoves
<1> QED
  BY <1>4, LocalStep DEF Begin

(* copy_sql appends rows of the table to a copy that is then one of rows.   *)
LEMMA CopyRowStep ==
  ASSUME MigrationInv, NEW r \in Requests, CopyRow(r)
  PROVE  MigrationInv'
<1>1. mig[r] \in Local /\ mig[r].pc = "rows" /\ lease = r
  BY DEF CopyRow, MigrationInv, MigrationType, LeaseOK
<1>2. PICK k \in DOMAIN sql :
        Moves(r, [mig[r] EXCEPT !.at = k, !.rows = Append(@, <<k, sql[k]>>), !.bytes = @ \o sql[k]])
  BY DEF CopyRow
<1>3. k \in Nat /\ k \in Keys /\ sql[k] \in Texts /\ sql[k] \in Seq(Chunks)
  BY MigrationAssumption DEF MigrationInv, MigrationType
<1>4. <<k, sql[k]>> \in Keys \X Texts
  BY <1>3
<1> DEFINE rows == Append(mig[r].rows, <<k, sql[k]>>)
           bytes == mig[r].bytes \o sql[k]
<1>5. rows \in Seq(Keys \X Texts) /\ rows # <<>>
  BY <1>1, <1>4, AppendProperties DEF Local
<1>6. bytes \in Seq(Chunks)
  BY <1>1, <1>3, ConcatProperties DEF Local
<1>7. Moves(r, [mig[r] EXCEPT !.at = k, !.rows = rows, !.bytes = bytes])
  BY <1>2
<1> HIDE DEF rows, bytes
<1>8. PICK q \in Local : Moves(r, q) /\ q.pc = "rows" /\ q.rows # <<>>
  <2> DEFINE t == [mig[r] EXCEPT !.at = k, !.rows = rows, !.bytes = bytes]
  <2>1. t \in Local /\ t.pc = "rows" /\ t.rows = rows
    BY <1>1, <1>3, <1>5, <1>6 DEF Local
  <2> QED
    BY <1>5, <1>7, <2>1
<1>9. RequestOK(q)'
  BY <1>8 DEF RequestOK, VerifiedOK, ReadingOK, CopyOK, Pruning
<1>10. lease' = r
  BY <1>1 DEF CopyRow
<1>11. mig' \in [Requests -> Local] /\ LeaseOK' /\ \A o \in Requests : RequestOK(mig[o])'
  BY <1>1, <1>8, <1>9, <1>10, RequestMoves
<1> QED
  BY <1>11, LocalStep DEF CopyRow

(* The copy of the rows is published, or the plain file is opened.          *)
LEMMA RowsDoneStep ==
  ASSUME MigrationInv, NEW r \in Requests, RowsDone(r)
  PROVE  MigrationInv'
<1> DEFINE m == mig[r]
<1>1. m \in Local /\ m.pc = "rows" /\ lease = r /\ RequestOK(m)
  BY DEF RowsDone, MigrationInv, MigrationType, LeaseOK
<1> DEFINE Good == /\ mig' \in [Requests -> Local] /\ LeaseOK'
                   /\ \A o \in Requests : RequestOK(mig[o])'
<1>2. CASE m.rows # <<>> /\ ValidJson(m.bytes)
  <2>1. PICK q \in Local : q = [m EXCEPT !.pc = "publish"] /\ q.pc = "publish" /\ q.rows # <<>>
    <3>1. "publish" \in Places
      BY DEF Places, Copying
    <3> QED
      BY <1>1, <1>2, <3>1, AtPlace
  <2>2. Moves(r, q) /\ lease' = r
    BY <1>1, <1>2, <2>1 DEF RowsDone
  <2>3. RequestOK(q)'
    BY <2>1 DEF RequestOK, VerifiedOK, ReadingOK, CopyOK, Genuine, Pruning
  <2>4. Good
    BY <1>1, <2>1, <2>2, <2>3, RequestMoves
  <2> QED
    BY <2>4, LocalStep DEF RowsDone
<1>3. CASE ~(m.rows # <<>> /\ ValidJson(m.bytes)) /\ m.rows = <<>> /\ plain # None
  <2>0. plain \in PlainFile /\ plain.ver \in Nat /\ Len(plain.bytes) \in Nat
    <3>1. plain \in PlainFile
      BY <1>3 DEF MigrationInv, MigrationType
    <3>2. plain.bytes \in Seq(Chunks)
      BY <3>1, MigrationAssumption DEF PlainFile
    <3> QED
      BY <3>1, <3>2, LenProperties DEF PlainFile
  <2>1. PICK q \in Local :
          /\ q = [m EXCEPT !.pc = "plain", !.at = 0, !.seen = plain.ver]
          /\ q.pc = "plain" /\ q.rows = <<>> /\ q.at = 0 /\ q.seen = plain.ver /\ q.bytes = m.bytes
    <3> DEFINE t == [m EXCEPT !.pc = "plain", !.at = 0, !.seen = plain.ver]
    <3>1. /\ t \in Local /\ t.pc = "plain" /\ t.rows = m.rows /\ t.at = 0 /\ t.seen = plain.ver
          /\ t.bytes = m.bytes
      BY <1>1, <2>0 DEF Local, Places, Copying
    <3> QED
      BY <1>3, <3>1
  <2>2. m.bytes = <<>>
    BY <1>1, <1>3 DEF RequestOK, CopyOK
  <2>3. Moves(r, q) /\ lease' = r /\ UNCHANGED plain
    BY <1>1, <1>3, <2>1 DEF RowsDone
  <2>4. Len(q.bytes) = 0
    BY <2>1, <2>2
  <2>5. RequestOK(q)'
    BY <1>3, <2>0, <2>1, <2>3, <2>4 DEF RequestOK, VerifiedOK, ReadingOK, ReadSoFar, CopyOK, Pruning
  <2>6. Good
    BY <1>1, <2>1, <2>3, <2>5, RequestMoves
  <2> QED
    BY <2>6, LocalStep DEF RowsDone
<1>4. CASE Return(r)
  BY <1>1, <1>4, ReturnMoves, LocalStep DEF RowsDone
<1> QED
  BY <1>2, <1>3, <1>4 DEF RowsDone

(* What is known of the plain file.                                         *)
LEMMA PlainType ==
  ASSUME MigrationInv, plain # None
  PROVE  /\ plain \in PlainFile /\ plain.ver \in Nat /\ plain.bytes \in Texts
         /\ plain.bytes \in Seq(Chunks) /\ Len(plain.bytes) \in Nat
         /\ \A i \in 1..Len(plain.bytes) : plain.bytes[i] \in Chunks
<1>1. plain \in PlainFile /\ plain.bytes \in Texts
  BY DEF MigrationInv, MigrationType, PlainFile
<1>2. plain.bytes \in Seq(Chunks)
  BY <1>1, MigrationAssumption
<1> QED
  BY <1>1, <1>2, LenProperties, ElementOfSeq DEF PlainFile

(* copy_plain reads on in the file.                                         *)
LEMMA CopyPlainStep ==
  ASSUME MigrationInv, NEW r \in Requests, CopyPlain(r)
  PROVE  MigrationInv'
<1> DEFINE m == mig[r]
<1>1. m \in Local /\ m.pc = "plain" /\ lease = r /\ RequestOK(m)
  BY DEF CopyPlain, MigrationInv, MigrationType, LeaseOK
<1>2. plain # None
  BY <1>1 DEF RequestOK, ReadingOK
<1>3. m.at \in Nat /\ m.at < Len(plain.bytes)
  BY <1>1 DEF CopyPlain, Local
<1> DEFINE next == plain.bytes[m.at + 1]
           bytes == Append(m.bytes, next)
<1>4. next \in Chunks
  BY <1>2, <1>3, PlainType
<1>5. /\ bytes \in Seq(Chunks) /\ Len(bytes) = Len(m.bytes) + 1 /\ bytes[Len(m.bytes) + 1] = next
      /\ \A i \in 1..Len(m.bytes) : bytes[i] = m.bytes[i]
  BY <1>1, <1>4, AppendProperties DEF Local
<1>6. lease' = r /\ UNCHANGED plain /\ m.at + 1 \in Nat
  BY <1>1, <1>3 DEF CopyPlain
<1>7. PICK q \in Local : /\ Moves(r, q) /\ q.pc = "plain" /\ q.at = m.at + 1 /\ q.bytes = bytes
                         /\ q.rows = m.rows /\ q.seen = m.seen
  <2> DEFINE n == m.at + 1
             t == [m EXCEPT !.at = n, !.bytes = bytes]
  <2>1. Moves(r, t)
    BY DEF CopyPlain
  <2>2. n \in Nat
    BY <1>6
  <2> HIDE DEF n, bytes
  <2>3. /\ t \in Local /\ t.pc = "plain" /\ t.at = n /\ t.bytes = bytes
        /\ t.rows = m.rows /\ t.seen = m.seen
    BY <1>1, <1>5, <2>2 DEF Local
  <2> QED
    BY <2>1, <2>3 DEF n
<1> HIDE DEF m, next, bytes
<1>8. ReadSoFar(m) => ReadSoFar(q)
  <2> SUFFICES ASSUME ReadSoFar(m) PROVE ReadSoFar(q)
    OBVIOUS
  <2>1. Len(q.bytes) = q.at /\ q.at \in Nat /\ q.at <= Len(plain.bytes)
    BY <1>2, <1>3, <1>5, <1>7, PlainType DEF ReadSoFar
  <2>2. ASSUME NEW i \in 1..q.at PROVE q.bytes[i] = plain.bytes[i]
    <3>1. CASE i = m.at + 1
      BY <1>5, <1>7, <3>1 DEF ReadSoFar, next
    <3>2. CASE i \in 1..m.at
      BY <1>5, <1>7, <3>2 DEF ReadSoFar
    <3> QED
      BY <1>3, <1>7, <3>1, <3>2
  <2> QED
    BY <2>1, <2>2 DEF ReadSoFar
<1>9. RequestOK(q)'
  BY <1>1, <1>2, <1>6, <1>7, <1>8 DEF RequestOK, VerifiedOK, ReadingOK, ReadSoFar, CopyOK, Pruning
<1>10. mig' \in [Requests -> Local] /\ LeaseOK' /\ \A o \in Requests : RequestOK(mig[o])'
  BY <1>1, <1>6, <1>7, <1>9, RequestMoves DEF m
<1> QED
  BY <1>10, LocalStep DEF CopyPlain

(* A file whose state did not change was copied whole.                      *)
LEMMA PlainDoneStep ==
  ASSUME MigrationInv, NEW r \in Requests, PlainDone(r)
  PROVE  MigrationInv'
<1> DEFINE m == mig[r]
<1>1. m \in Local /\ m.pc = "plain" /\ lease = r /\ RequestOK(m)
  BY DEF PlainDone, MigrationInv, MigrationType, LeaseOK
<1>2. plain # None
  BY <1>1 DEF RequestOK, ReadingOK
<1>3. CASE plain.ver = m.seen /\ ValidJson(m.bytes)
  <2>1. ReadSoFar(m)
    BY <1>1, <1>3 DEF RequestOK, ReadingOK
  <2>2. m.at \in Nat /\ m.at >= Len(plain.bytes) /\ m.bytes \in Seq(Chunks)
    BY <1>1 DEF PlainDone, Local
  <2>3. m.bytes = plain.bytes
    <3>1. Len(m.bytes) = Len(plain.bytes) /\ \A i \in 1..Len(m.bytes) : m.bytes[i] = plain.bytes[i]
      BY <1>2, <2>1, <2>2, PlainType DEF ReadSoFar
    <3> QED
      BY <1>2, <2>2, <3>1, SeqEqual, PlainType
  <2>4. m.bytes \in versions
    BY <1>2, <2>3 DEF MigrationInv, SourcesOK
  <2>5. PICK q \in Local : q = [m EXCEPT !.pc = "publish"] /\ q.pc = "publish" /\ q.bytes = m.bytes
    BY <1>1, AtPlace DEF Places, Copying
  <2>6. Moves(r, q) /\ lease' = r /\ UNCHANGED versions
    BY <1>1, <1>3, <2>5 DEF PlainDone
  <2>7. RequestOK(q)'
    BY <2>4, <2>5, <2>6 DEF RequestOK, VerifiedOK, ReadingOK, CopyOK, Genuine, Pruning
  <2>8. mig' \in [Requests -> Local] /\ LeaseOK' /\ \A o \in Requests : RequestOK(mig[o])'
    BY <1>1, <2>5, <2>6, <2>7, RequestMoves
  <2> QED
    BY <2>8, LocalStep DEF PlainDone
<1>4. CASE Return(r)
  BY <1>1, <1>4, ReturnMoves, LocalStep DEF PlainDone
<1> QED
  BY <1>3, <1>4 DEF PlainDone

---------------------------------------------------------------------------
(* The publication of a staged copy leaves the sources alone.               *)
LEMMA PublishStep ==
  ASSUME MigrationInv, NEW r \in Requests, Publish(r)
  PROVE  MigrationInv'
<1>1. mig[r] \in Local /\ mig[r].pc = "publish" /\ lease = r /\ RequestOK(mig[r])
  BY DEF Publish, MigrationInv, MigrationType, LeaseOK
<1>2. UNCHANGED <<sql, plain, detached, evidence, versions>>
  BY DEF Publish
<1>3. CASE Persist(Staged(mig[r])) /\ Moves(r, [mig[r] EXCEPT !.pc = "syncdir"]) /\ UNCHANGED lease
  <2>1. owner' = Staged(mig[r]) /\ durable' = FALSE
    BY <1>3 DEF Persist
  <2>2. owner' \in OwnerFile /\ Genuine(owner)'
    <3>1. owner' \in OwnerFile /\ owner'.rows = mig[r].rows /\ owner'.bytes = mig[r].bytes
      BY <1>1, <2>1 DEF Staged, OwnerFile, Local
    <3> QED
      BY <1>1, <1>2, <3>1 DEF RequestOK, CopyOK, Genuine
  <2>3. owner' # None
    BY <2>2, MigrationAssumption
  <2>4. "syncdir" \in Places
    BY DEF Places
  <2>5. PICK q \in Local : q = [mig[r] EXCEPT !.pc = "syncdir"] /\ q.pc = "syncdir"
    BY <1>1, <2>4, AtPlace
  <2>6. RequestOK(q)'
    BY <2>3, <2>5 DEF RequestOK, VerifiedOK, ReadingOK, CopyOK, Pruning
  <2>7. mig' \in [Requests -> Local] /\ LeaseOK' /\ \A o \in Requests : RequestOK(mig[o])'
    BY <1>1, <1>3, <2>5, <2>6, RequestMoves
  <2>8. MigrationType' /\ SourcesOK' /\ CopiesOK'
    BY <1>2, <2>1, <2>2, <2>7 DEF MigrationInv, MigrationType, SourcesOK, CopiesOK, Genuine
  <2> QED
    BY <2>7, <2>8 DEF MigrationInv
<1>4. CASE Return(r) /\ UNCHANGED <<owner, durable>>
  BY <1>1, <1>2, <1>4, ReturnMoves, LocalStep
<1> QED
  BY <1>3, <1>4 DEF Publish

(* The directory entry is made durable.                                     *)
LEMMA SyncDirStep ==
  ASSUME MigrationInv, NEW r \in Requests, SyncDir(r)
  PROVE  MigrationInv'
<1>1. mig[r] \in Local /\ mig[r].pc = "syncdir" /\ lease = r /\ RequestOK(mig[r])
  BY DEF SyncDir, MigrationInv, MigrationType, LeaseOK
<1>2. UNCHANGED <<sql, plain, owner, detached, evidence, versions>> /\ lease' = r /\ durable' = TRUE
  BY <1>1 DEF SyncDir
<1>3. "verify" \in Places
  BY DEF Places
<1>4. PICK q \in Local : q = [mig[r] EXCEPT !.pc = "verify"] /\ q.pc = "verify"
  BY <1>1, <1>3, AtPlace
<1>5. RequestOK(q)'
  BY <1>1, <1>2, <1>4 DEF RequestOK, VerifiedOK, ReadingOK, CopyOK, Pruning
<1>6. mig' \in [Requests -> Local] /\ LeaseOK' /\ \A o \in Requests : RequestOK(mig[o])'
  BY <1>1, <1>2, <1>4, <1>5, RequestMoves DEF SyncDir
<1>7. MigrationType' /\ SourcesOK' /\ CopiesOK'
  BY <1>2, <1>6 DEF MigrationInv, MigrationType, SourcesOK, CopiesOK, Genuine
<1> QED
  BY <1>6, <1>7 DEF MigrationInv

(* What is verified is the owner that is there.                             *)
LEMMA VerifyStep ==
  ASSUME MigrationInv, NEW r \in Requests, Verify(r)
  PROVE  MigrationInv'
<1>1. mig[r] \in Local /\ mig[r].pc = "verify" /\ lease = r /\ RequestOK(mig[r])
  BY DEF Verify, MigrationInv, MigrationType, LeaseOK
<1>2. UNCHANGED <<sql, plain, owner, durable, detached, evidence, versions>>
  BY DEF Verify
<1>3. CASE owner.sealed /\ ValidJson(owner.bytes)
  <2>1. owner # None /\ owner \in OwnerFile
    BY <1>1 DEF RequestOK, VerifiedOK, MigrationInv, MigrationType
  <2>2. PICK q \in Local : /\ q = [Idle EXCEPT !.pc = "confirm", !.seen = owner]
                           /\ q.pc = "confirm" /\ q.seen = owner
    <3> DEFINE t == [Idle EXCEPT !.pc = "confirm", !.seen = owner]
    <3>1. t \in Local /\ t.pc = "confirm" /\ t.seen = owner
      BY <2>1, EmptySeq DEF Idle, Local, Places
    <3> QED
      BY <3>1
  <2>3. Moves(r, q) /\ lease' = r
    BY <1>1, <1>3, <2>2 DEF Verify
  <2>4. RequestOK(q)'
    BY <1>2, <1>3, <2>1, <2>2 DEF RequestOK, VerifiedOK, ReadingOK, CopyOK, Pruning
  <2>5. mig' \in [Requests -> Local] /\ LeaseOK' /\ \A o \in Requests : RequestOK(mig[o])'
    BY <1>1, <2>2, <2>3, <2>4, RequestMoves
  <2> QED
    BY <1>2, <2>5, LocalStep
<1>4. CASE Return(r)
  BY <1>1, <1>2, <1>4, ReturnMoves, LocalStep
<1> QED
  BY <1>3, <1>4 DEF Verify

(* The owner is confirmed durable before anything may be pruned for it.     *)
LEMMA ConfirmStep ==
  ASSUME MigrationInv, NEW r \in Requests, ConfirmOwner(r)
  PROVE  MigrationInv'
<1>1. mig[r] \in Local /\ mig[r].pc = "confirm" /\ lease = r /\ RequestOK(mig[r])
  BY DEF ConfirmOwner, MigrationInv, MigrationType, LeaseOK
<1>2. UNCHANGED <<sql, plain, owner, detached, evidence, versions>> /\ lease' = r
  BY <1>1 DEF ConfirmOwner
<1>3. PICK b \in BOOLEAN : /\ b => durable' = TRUE
                           /\ durable' \in {durable, TRUE}
                           /\ Moves(r, [mig[r] EXCEPT !.pc = "prune_sql", !.ok = b])
  BY DEF ConfirmOwner
<1>4. PICK q \in Local : /\ q = [mig[r] EXCEPT !.pc = "prune_sql", !.ok = b]
                         /\ q.pc = "prune_sql" /\ q.ok = b /\ q.seen = mig[r].seen
  <2> DEFINE t == [mig[r] EXCEPT !.pc = "prune_sql", !.ok = b]
  <2>1. t \in Local /\ t.pc = "prune_sql" /\ t.ok = b /\ t.seen = mig[r].seen
    BY <1>1 DEF Local, Places, Pruning
  <2> QED
    BY <2>1
<1>5. owner # None /\ q.seen = owner /\ owner.sealed
  BY <1>1, <1>4 DEF RequestOK, VerifiedOK
<1>6. RequestOK(q)'
  BY <1>2, <1>3, <1>4, <1>5 DEF RequestOK, VerifiedOK, ReadingOK, CopyOK, Pruning
<1>7. mig' \in [Requests -> Local] /\ LeaseOK' /\ \A o \in Requests : RequestOK(mig[o])'
  BY <1>1, <1>2, <1>3, <1>4, <1>6, RequestMoves
<1>8. MigrationType' /\ SourcesOK' /\ CopiesOK'
  BY <1>2, <1>3, <1>7 DEF MigrationInv, MigrationType, SourcesOK, CopiesOK, Genuine
<1> QED
  BY <1>7, <1>8 DEF MigrationInv

(* The rows are deleted, or left as they are.                               *)
LEMMA PruneSqlStep ==
  ASSUME MigrationInv, NEW r \in Requests, PruneSql(r)
  PROVE  MigrationInv'
<1>1. mig[r] \in Local /\ mig[r].pc = "prune_sql" /\ lease = r /\ RequestOK(mig[r])
  BY DEF PruneSql, MigrationInv, MigrationType, LeaseOK
<1>2. UNCHANGED <<plain, owner, durable, detached, evidence, versions>>
  BY DEF PruneSql
<1>3. DOMAIN sql' \subseteq Keys /\ \A k \in DOMAIN sql' : sql'[k] \in Texts
  <2>1. sql' = NoRows \/ sql' = sql
    BY DEF PruneSql
  <2> QED
    BY <2>1 DEF NoRows, MigrationInv, MigrationType
<1>4. mig' \in [Requests -> Local] /\ LeaseOK' /\ \A o \in Requests : RequestOK(mig[o])'
  <2>1. CASE plain # None
    <3>1. "hash_plain" \in Places
      BY DEF Places, Pruning
    <3>2. PICK q \in Local : /\ q = [mig[r] EXCEPT !.pc = "hash_plain"] /\ q.pc = "hash_plain"
                             /\ q.seen = mig[r].seen /\ q.ok = mig[r].ok
      BY <1>1, <3>1, AtPlace
    <3>3. Moves(r, q) /\ lease' = r
      BY <1>1, <2>1, <3>2 DEF PruneSql
    <3>4. RequestOK(q)'
      BY <1>1, <1>2, <2>1, <3>2 DEF RequestOK, VerifiedOK, ReadingOK, CopyOK, Pruning
    <3> QED
      BY <1>1, <3>2, <3>3, <3>4, RequestMoves
  <2>2. CASE plain = None
    BY <1>1, <2>2, ReturnMoves DEF PruneSql
  <2> QED
    BY <2>1, <2>2
<1>5. MigrationType' /\ SourcesOK' /\ CopiesOK'
  BY <1>2, <1>3, <1>4 DEF MigrationInv, MigrationType, SourcesOK, CopiesOK, Genuine
<1> QED
  BY <1>4, <1>5 DEF MigrationInv

(* What is hashed is the file, in the state it is then in.                  *)
LEMMA HashPlainStep ==
  ASSUME MigrationInv, NEW r \in Requests, HashPlain(r)
  PROVE  MigrationInv'
<1>1. mig[r] \in Local /\ mig[r].pc = "hash_plain" /\ lease = r /\ RequestOK(mig[r])
  BY DEF HashPlain, MigrationInv, MigrationType, LeaseOK
<1>2. UNCHANGED <<sql, plain, owner, durable, detached, evidence, versions>> /\ lease' = r
  BY <1>1 DEF HashPlain
<1>3. plain # None
  BY <1>1 DEF RequestOK, ReadingOK
<1>4. plain.ver \in Nat /\ plain.bytes \in Seq(Chunks)
  BY <1>3, PlainType
<1>5. PICK q \in Local :
        /\ q = [mig[r] EXCEPT !.pc = "prune_plain", !.bytes = plain.bytes, !.at = plain.ver]
        /\ q.pc = "prune_plain" /\ q.bytes = plain.bytes /\ q.at = plain.ver
        /\ q.seen = mig[r].seen /\ q.ok = mig[r].ok
  <2> DEFINE t == [mig[r] EXCEPT !.pc = "prune_plain", !.bytes = plain.bytes, !.at = plain.ver]
  <2>1. /\ t \in Local /\ t.pc = "prune_plain" /\ t.bytes = plain.bytes /\ t.at = plain.ver
        /\ t.seen = mig[r].seen /\ t.ok = mig[r].ok
    BY <1>1, <1>4 DEF Local, Places, Pruning
  <2> QED
    BY <2>1
<1>6. VerifiedOK(q)'
  BY <1>1, <1>2, <1>5 DEF RequestOK, VerifiedOK, Pruning
<1>7. ReadingOK(q)' /\ CopyOK(q)'
  BY <1>2, <1>3, <1>4, <1>5 DEF ReadingOK, CopyOK
<1>8. RequestOK(q)'
  BY <1>6, <1>7 DEF RequestOK
<1>9. mig' \in [Requests -> Local] /\ LeaseOK' /\ \A o \in Requests : RequestOK(mig[o])'
  BY <1>1, <1>2, <1>5, <1>8, RequestMoves DEF HashPlain
<1> QED
  BY <1>2, <1>9, LocalStep

(* The plain file goes with the request that read it.                       *)
LEMMA PrunePlainStep ==
  ASSUME MigrationInv, NEW r \in Requests, PrunePlain(r)
  PROVE  MigrationInv'
<1>1. mig[r] \in Local /\ mig[r].pc = "prune_plain" /\ lease = r
  BY DEF PrunePlain, MigrationInv, MigrationType, LeaseOK
<1>2. /\ UNCHANGED <<sql, owner, durable, detached, evidence, versions>>
      /\ plain' \in {None, plain} /\ Return(r)
  BY DEF PrunePlain
<1>3. mig' \in [Requests -> Local] /\ LeaseOK' /\ \A o \in Requests : RequestOK(mig[o])'
  BY <1>1, <1>2, ReturnMoves
<1>4. MigrationType' /\ SourcesOK' /\ CopiesOK'
  BY <1>2, <1>3 DEF MigrationInv, MigrationType, SourcesOK, CopiesOK, Genuine
<1> QED
  BY <1>3, <1>4 DEF MigrationInv

(* I/O errors and disconnects; a publication in flight goes on by itself.   *)
LEMMA FailureSteps ==
  ASSUME MigrationInv, NEW r \in Requests, Fails(r) \/ Disconnect(r)
  PROVE  MigrationInv'
<1>1. mig[r] \in Local /\ mig[r].pc # "idle" /\ RequestOK(mig[r]) /\ Return(r)
  BY DEF Fails, Disconnect, MigrationInv, MigrationType
<1>2. UNCHANGED <<sql, plain, owner, durable, evidence, versions>>
  BY DEF Fails, Disconnect
<1>3. mig' \in [Requests -> Local] /\ LeaseOK' /\ \A o \in Requests : RequestOK(mig[o])'
  BY <1>1, ReturnMoves
<1>4. detached' \subseteq OwnerFile /\ \A copy \in detached' : Genuine(copy)
  <2>1. CASE UNCHANGED detached
    BY <2>1 DEF MigrationInv, MigrationType, CopiesOK
  <2>2. CASE mig[r].pc = "publish" /\ detached' = detached \cup {Staged(mig[r])}
    <3>1. Staged(mig[r]) \in OwnerFile /\ Genuine(Staged(mig[r]))
      BY <1>1, <2>2 DEF Staged, OwnerFile, Local, RequestOK, CopyOK, Genuine
    <3> QED
      BY <2>2, <3>1 DEF MigrationInv, MigrationType, CopiesOK
  <2> QED
    BY <2>1, <2>2 DEF Fails, Disconnect
<1>5. MigrationType' /\ SourcesOK' /\ CopiesOK'
  BY <1>2, <1>3, <1>4 DEF MigrationInv, MigrationType, SourcesOK, CopiesOK, Genuine
<1> QED
  BY <1>3, <1>5 DEF MigrationInv

---------------------------------------------------------------------------
(* The orphaned rename finds no owner, so no request has verified one.      *)
LEMMA DetachedStep ==
  ASSUME MigrationInv, DetachedPublish
  PROVE  MigrationInv'
<1>1. UNCHANGED <<lease, sql, plain, mig, evidence, versions>>
  BY DEF DetachedPublish
<1>2. PICK copy \in detached : /\ detached' = detached \ {copy}
                               /\ Persist(copy) \/ UNCHANGED <<owner, durable>>
  BY DEF DetachedPublish
<1>3. copy \in OwnerFile /\ copy # None /\ Genuine(copy)
  BY MigrationAssumption DEF MigrationInv, MigrationType, CopiesOK
<1>4. owner' = owner \/ owner' = copy
  BY <1>2 DEF Persist
<1>5. MigrationType' /\ SourcesOK'
  BY <1>1, <1>2, <1>3, <1>4 DEF MigrationInv, MigrationType, SourcesOK, Persist
<1>6. CopiesOK'
  BY <1>1, <1>2, <1>3, <1>4 DEF MigrationInv, CopiesOK, Genuine
<1>7. LeaseOK'
  BY <1>1, <1>3, <1>4 DEF MigrationInv, LeaseOK
<1>8. ASSUME NEW r \in Requests PROVE RequestOK(mig[r])'
  <2>1. RequestOK(mig[r]) /\ mig'[r] = mig[r]
    BY <1>1 DEF MigrationInv
  <2>2. VerifiedOK(mig[r])'
    BY <1>2, <2>1 DEF RequestOK, VerifiedOK, Persist, Pruning
  <2>3. ReadingOK(mig[r])' /\ CopyOK(mig[r])'
    BY <1>1, <2>1 DEF RequestOK, ReadingOK, ReadSoFar, CopyOK, Genuine
  <2> QED
    BY <2>2, <2>3 DEF RequestOK
<1> QED
  BY <1>5, <1>6, <1>7, <1>8 DEF MigrationInv

(* A crash ends every request and drops every publication in flight.        *)
LEMMA CrashStep ==
  ASSUME MigrationInv, Crash
  PROVE  MigrationInv'
<1>1. /\ mig' = [r \in Requests |-> Idle] /\ lease' = None /\ detached' = {} /\ durable' = TRUE
      /\ owner' \in {owner, None} /\ UNCHANGED <<sql, plain, evidence, versions>>
  BY DEF Crash
<1>2. mig' \in [Requests -> Local] /\ \A r \in Requests : mig'[r].pc = "idle"
  BY <1>1, IdleIsOK
<1>3. MigrationType' /\ SourcesOK' /\ CopiesOK'
  BY <1>1, <1>2 DEF MigrationInv, MigrationType, SourcesOK, CopiesOK, Genuine
<1>4. LeaseOK'
  BY <1>1, <1>2, MigrationAssumption DEF LeaseOK
<1>5. \A r \in Requests : RequestOK(mig[r])'
  BY <1>2 DEF RequestOK, VerifiedOK, ReadingOK, CopyOK, Pruning
<1> QED
  BY <1>3, <1>4, <1>5 DEF MigrationInv

(* While the capture holds the lease no request does anything.              *)
LEMMA CaptureSteps ==
  ASSUME MigrationInv, ExecutionEnds \/ CaptureEnds
  PROVE  MigrationInv'
<1>1. UNCHANGED <<sql, plain, durable, mig, detached, evidence, versions>>
  BY DEF ExecutionEnds, CaptureEnds
<1>2. CASE ExecutionEnds
  <2>1. UNCHANGED <<owner, lease>>
    BY <1>2 DEF ExecutionEnds
  <2>2. LeaseOK' /\ \A r \in Requests : RequestOK(mig[r])'
    BY <1>1, <2>1 DEF MigrationInv, LeaseOK, RequestOK, VerifiedOK, ReadingOK, ReadSoFar, CopyOK, Genuine
  <2> QED
    BY <1>1, <2>1, <2>2, LocalStep DEF MigrationInv, MigrationType
<1>3. CASE CaptureEnds
  <2>1. lease = Capture /\ lease' = None /\ owner' \in {owner, [owner EXCEPT !.sealed = TRUE]}
    BY <1>3 DEF CaptureEnds
  <2>2. \A r \in Requests : mig'[r].pc = "idle"
    BY <1>1, <2>1, MigrationAssumption DEF MigrationInv, LeaseOK
  <2>3. owner \in OwnerFile
    BY <2>1 DEF MigrationInv, LeaseOK, MigrationType
  <2>4. owner' \in OwnerFile /\ owner'.rows = owner.rows /\ owner'.bytes = owner.bytes
    BY <2>1, <2>3 DEF OwnerFile
  <2>5. owner # None /\ Genuine(owner)
    BY <2>1 DEF MigrationInv, LeaseOK, CopiesOK
  <2>6. MigrationType' /\ SourcesOK' /\ CopiesOK'
    BY <1>1, <2>4, <2>5 DEF MigrationInv, MigrationType, SourcesOK, CopiesOK, Genuine
  <2>7. LeaseOK'
    BY <2>1, <2>2, MigrationAssumption DEF LeaseOK
  <2>8. \A r \in Requests : RequestOK(mig[r])'
    BY <2>2 DEF RequestOK, VerifiedOK, ReadingOK, CopyOK, Pruning
  <2> QED
    BY <2>6, <2>7, <2>8 DEF MigrationInv
<1> QED
  BY <1>2, <1>3

(* Editors change the rows, which no request relies on,                     *)
LEMMA EditSqlStep ==
  ASSUME MigrationInv, EditSql
  PROVE  MigrationInv'
<1>1. UNCHANGED <<lease, plain, owner, durable, mig, detached, versions>>
  BY DEF EditSql
<1>2. DOMAIN sql' \subseteq Keys /\ \A k \in DOMAIN sql' : sql'[k] \in Texts
  <2>1. CASE \E d \in DOMAIN sql : sql' = [k \in DOMAIN sql \ {d} |-> sql[k]]
    BY <2>1 DEF MigrationInv, MigrationType
  <2>2. CASE \E n \in Keys, t \in Texts :
               sql' = [k \in DOMAIN sql \cup {n} |-> IF k = n THEN t ELSE sql[k]]
    BY <2>2 DEF MigrationInv, MigrationType
  <2> QED
    BY <2>1, <2>2, Zenon DEF EditSql
<1>3. evidence' = [sql |-> sql', plain |-> evidence.plain]
  BY DEF EditSql, MigrationInv, SourcesOK
<1>4. MigrationType' /\ CopiesOK'
  BY <1>1, <1>2 DEF MigrationInv, MigrationType, CopiesOK, Genuine
<1>5. SourcesOK'
  BY <1>1, <1>3 DEF MigrationInv, SourcesOK
<1>6. LeaseOK' /\ \A r \in Requests : RequestOK(mig[r])'
  BY <1>1 DEF MigrationInv, LeaseOK, RequestOK, VerifiedOK, ReadingOK, ReadSoFar, CopyOK, Genuine
<1> QED
  BY <1>4, <1>5, <1>6 DEF MigrationInv

(* or the plain file, whose state then differs from every one seen before.  *)
LEMMA EditPlainStep ==
  ASSUME MigrationInv, EditPlain
  PROVE  MigrationInv'
<1>1. UNCHANGED <<lease, sql, owner, durable, mig, detached>> /\ plain # None
  BY DEF EditPlain
<1>2. PICK t \in Texts : /\ plain' = [bytes |-> t, ver |-> plain.ver + 1]
                         /\ evidence' = [evidence EXCEPT !.plain = t]
                         /\ versions' = versions \cup {t}
  BY DEF EditPlain
<1>3. /\ plain.ver \in Nat /\ plain' \in PlainFile /\ plain'.bytes = t
      /\ plain'.ver = plain.ver + 1 /\ plain' # None
  <2>1. plain.ver \in Nat
    BY <1>1, PlainType
  <2>2. plain' \in PlainFile /\ plain'.bytes = t /\ plain'.ver = plain.ver + 1
    BY <1>2, <2>1 DEF PlainFile
  <2> QED
    BY <2>1, <2>2, MigrationAssumption
<1>4. evidence' = [sql |-> evidence.sql, plain |-> t]
  BY <1>2 DEF MigrationInv, SourcesOK
<1>5. MigrationType'
  BY <1>1, <1>3 DEF MigrationInv, MigrationType
<1>6. SourcesOK' /\ CopiesOK'
  BY <1>1, <1>2, <1>3, <1>4 DEF MigrationInv, SourcesOK, CopiesOK, Genuine
<1>7. LeaseOK'
  BY <1>1 DEF MigrationInv, LeaseOK
<1>8. ASSUME NEW r \in Requests PROVE RequestOK(mig[r])'
  <2>1. RequestOK(mig[r]) /\ mig'[r] = mig[r] /\ mig[r].at \in Nat
    BY <1>1 DEF MigrationInv, MigrationType, Local
  <2>2. VerifiedOK(mig[r])'
    BY <1>1, <2>1 DEF RequestOK, VerifiedOK
  <2>3. CopyOK(mig[r])'
    BY <1>2, <2>1 DEF RequestOK, CopyOK, Genuine
  <2>4. ReadingOK(mig[r])'
    BY <1>3, <2>1 DEF RequestOK, ReadingOK
  <2> QED
    BY <2>2, <2>3, <2>4 DEF RequestOK
<1> QED
  BY <1>5, <1>6, <1>7, <1>8 DEF MigrationInv

---------------------------------------------------------------------------
(* Legacy sources as they are found, and an owner already recorded.         *)
LEMMA InitMigration == Init => MigrationInv
<1> SUFFICES ASSUME Init PROVE MigrationInv
  OBVIOUS
<1>1. Owners \subseteq OwnerFile
  BY MigrationAssumption, EmptySeq DEF Owners, OwnerFile
<1>2. owner \in {None} \cup Owners
  BY DEF Init
<1>3. DOMAIN sql \subseteq Keys /\ \A k \in DOMAIN sql : sql[k] \in Texts
  BY DEF Init, Tables
<1>4. plain \in {None} \cup PlainFile
  BY DEF Init, PlainFile
<1>5. mig \in [Requests -> Local] /\ \A r \in Requests : mig[r].pc = "idle"
  BY IdleIsOK DEF Init
<1>6. MigrationType
  BY <1>1, <1>2, <1>3, <1>4, <1>5 DEF Init, MigrationType
<1>7. LeaseOK
  <2>1. lease = Capture => owner \in Owners
    BY MigrationAssumption DEF Init
  <2> QED
    BY <1>1, <1>5, <2>1, MigrationAssumption DEF LeaseOK
<1>8. SourcesOK
  BY DEF Init, SourcesOK
<1>9. CopiesOK
  BY DEF Init, CopiesOK, Genuine
<1>10. \A r \in Requests : RequestOK(mig[r])
  BY <1>5, IdleIsOK
<1> QED
  BY <1>6, <1>7, <1>8, <1>9, <1>10 DEF MigrationInv

(* No step disturbs the invariant.                                          *)
LEMMA NextMigration == MigrationInv /\ [Next]_vars => MigrationInv'
<1> SUFFICES ASSUME MigrationInv, [Next]_vars PROVE MigrationInv'
  OBVIOUS
<1>1. ASSUME NEW r \in Requests, Begin(r) \/ RequestStep(r) \/ Fails(r) \/ Disconnect(r)
      PROVE  MigrationInv'
  BY <1>1, BeginStep, CopyRowStep, RowsDoneStep, CopyPlainStep, PlainDoneStep, PublishStep,
     SyncDirStep, VerifyStep, ConfirmStep, PruneSqlStep, HashPlainStep, PrunePlainStep,
     FailureSteps DEF RequestStep
<1>2. CASE DetachedPublish \/ Crash \/ ExecutionEnds \/ CaptureEnds \/ EditSql \/ EditPlain
  BY <1>2, DetachedStep, CrashStep, CaptureSteps, EditSqlStep, EditPlainStep
<1>3. CASE UNCHANGED vars
  <2>1. LeaseOK' /\ \A r \in Requests : RequestOK(mig[r])'
    BY <1>3 DEF MigrationInv, LeaseOK, RequestOK, VerifiedOK, ReadingOK, ReadSoFar, CopyOK, Genuine, vars
  <2>2. UNCHANGED <<sql, plain, owner, durable, detached, evidence, versions, mig>>
    BY <1>3 DEF vars
  <2> QED
    BY <2>1, <2>2, LocalStep DEF MigrationInv, MigrationType
<1> QED
  BY <1>1, <1>2, <1>3 DEF Next

(* The invariant holds in every reachable state.                            *)
LEMMA AlwaysMigration == Spec => []MigrationInv
  BY InitMigration, NextMigration, PTL DEF Spec

---------------------------------------------------------------------------
Held == owner # None /\ durable /\ owner.sealed

(* A sealed owner on the disk stays, whatever step is taken.                *)
LEMMA HeldStays ==
  ASSUME MigrationInv, [Next]_vars, Held
  PROVE  owner' = owner /\ durable'
<1>1. owner # None /\ durable = TRUE /\ owner.sealed /\ owner \in OwnerFile
  BY DEF Held, MigrationInv, MigrationType
<1>2. ASSUME NEW r \in Requests, Publish(r) \/ SyncDir(r) \/ ConfirmOwner(r)
      PROVE  owner' = owner /\ durable'
  BY <1>1, <1>2 DEF Publish, Persist, SyncDir, ConfirmOwner
<1>3. ASSUME NEW r \in Requests,
             \/ Begin(r) \/ CopyRow(r) \/ RowsDone(r) \/ CopyPlain(r) \/ PlainDone(r)
             \/ Verify(r) \/ PruneSql(r) \/ HashPlain(r) \/ PrunePlain(r)
             \/ Fails(r) \/ Disconnect(r)
      PROVE  owner' = owner /\ durable'
  BY <1>1, <1>3 DEF Begin, CopyRow, RowsDone, CopyPlain, PlainDone, Verify, PruneSql, HashPlain,
                    PrunePlain, Fails, Disconnect
<1>4. CASE DetachedPublish \/ Crash
  BY <1>1, <1>4 DEF DetachedPublish, Persist, Crash
<1>5. CASE CaptureEnds
  <2>1. [owner EXCEPT !.sealed = TRUE] = owner
    BY <1>1 DEF OwnerFile
  <2> QED
    BY <1>1, <1>5, <2>1 DEF CaptureEnds
<1>6. CASE ExecutionEnds \/ EditSql \/ EditPlain \/ UNCHANGED vars
  <2>1. UNCHANGED <<owner, durable>>
    BY <1>6 DEF ExecutionEnds, EditSql, EditPlain, vars
  <2> QED
    BY <1>1, <2>1
<1> QED
  BY <1>2, <1>3, <1>4, <1>5, <1>6 DEF Next, RequestStep

(* publish_noclobber never replaces an owner: for any requests, dropped     *)
(* publications, errors and crashes, a sealed owner that has reached the    *)
(* disk keeps its content and its directory entry.                          *)
THEOREM OwnerIsKept == Spec => OwnerNeverReplaced
<1>1. MigrationInv /\ [Next]_vars => [Held => owner' = owner /\ durable']_vars
  BY HeldStays
<1> QED
  BY <1>1, AlwaysMigration, PTL DEF Spec, OwnerNeverReplaced, Held

(* An owner made from the plain file holds one content that file had, never *)
(* a mixture of what was there before and after an edit.                    *)
THEOREM PlainCopiesGenuine == Spec => []PlainCopyIsGenuine
<1>1. MigrationInv => PlainCopyIsGenuine
  BY DEF MigrationInv, CopiesOK, Genuine, PlainCopyIsGenuine
<1> QED
  BY <1>1, AlwaysMigration, PTL

---------------------------------------------------------------------------
(* Steps that leave the sources alone leave their evidence where it is.     *)
LEMMA SourcesUntouched ==
  ASSUME MigrationInv, [Next]_vars, EvidenceSurvives, UNCHANGED <<sql, plain, evidence>>
  PROVE  EvidenceSurvives'
<1>1. CASE Held
  <2>1. owner' = owner /\ durable'
    BY <1>1, HeldStays
  <2> QED
    BY <1>1, <2>1 DEF EvidenceSurvives, Held
<1>2. CASE ~Held
  BY <1>2 DEF EvidenceSurvives, Held
<1> QED
  BY <1>1, <1>2

(* Rows are deleted only when the verified owner on the disk holds them.    *)
LEMMA SqlIsHeld ==
  ASSUME MigrationInv, EvidenceSurvives, NEW r \in Requests, PruneSql(r)
  PROVE  EvidenceSurvives'
<1>1. UNCHANGED <<plain, owner, durable, evidence>>
  BY DEF PruneSql
<1>2. CASE UNCHANGED sql
  BY <1>1, <1>2 DEF EvidenceSurvives
<1>3. CASE SameEvidence(mig[r])
  <2>1. /\ mig[r].pc = "prune_sql" /\ mig[r].ok /\ RequestOK(mig[r])
        /\ Content(Fingerprint(sql)) = mig[r].seen.bytes /\ Fingerprint(sql) = mig[r].seen.rows
    BY <1>3 DEF PruneSql, SameEvidence, MigrationInv
  <2>2. /\ durable /\ owner # None /\ owner.sealed
        /\ owner.rows = Fingerprint(sql) /\ owner.bytes = Content(Fingerprint(sql))
    BY <2>1 DEF RequestOK, VerifiedOK, Pruning
  <2> QED
    BY <1>1, <2>2 DEF EvidenceSurvives
<1> QED
  BY <1>2, <1>3 DEF PruneSql

(* The plain file is removed only when the owner holds the bytes it has.    *)
LEMMA PlainIsHeld ==
  ASSUME MigrationInv, EvidenceSurvives, NEW r \in Requests, PrunePlain(r)
  PROVE  EvidenceSurvives'
<1>1. UNCHANGED <<sql, owner, durable, evidence>>
  BY DEF PrunePlain
<1>2. CASE UNCHANGED plain
  BY <1>1, <1>2 DEF EvidenceSurvives
<1>3. CASE mig[r].ok /\ mig[r].bytes = mig[r].seen.bytes /\ plain.ver = mig[r].at
  <2>1. mig[r].pc = "prune_plain" /\ RequestOK(mig[r])
    BY DEF PrunePlain, MigrationInv
  <2>2. durable /\ owner # None /\ owner.sealed /\ mig[r].seen = owner
    BY <1>3, <2>1 DEF RequestOK, VerifiedOK, Pruning
  <2>3. plain # None /\ mig[r].bytes = plain.bytes
    BY <1>3, <2>1 DEF RequestOK, ReadingOK
  <2>4. evidence.plain = owner.bytes
    BY <1>3, <2>2, <2>3 DEF MigrationInv, SourcesOK
  <2> QED
    BY <1>1, <2>2, <2>4 DEF EvidenceSurvives
<1> QED
  BY <1>2, <1>3 DEF PrunePlain

(* What an editor leaves is in the source it edited.                        *)
LEMMA EditsAreThere ==
  ASSUME MigrationInv, MigrationInv', EvidenceSurvives, EditSql \/ EditPlain
  PROVE  EvidenceSurvives'
<1>1. CASE EditSql
  <2>1. evidence' = [sql |-> sql', plain |-> evidence.plain] /\ UNCHANGED <<plain, owner, durable>>
    BY <1>1 DEF EditSql, MigrationInv, SourcesOK
  <2> QED
    BY <2>1 DEF EvidenceSurvives
<1>2. CASE EditPlain
  <2>1. PICK t \in Texts : /\ plain' = [bytes |-> t, ver |-> plain.ver + 1]
                           /\ evidence' = [evidence EXCEPT !.plain = t]
    BY <1>2 DEF EditPlain
  <2>2. UNCHANGED <<sql, owner, durable>> /\ plain # None
    BY <1>2 DEF EditPlain
  <2>3. plain' # None
    <3>1. plain.ver \in Nat
      BY <2>2, PlainType
    <3>2. plain' \in PlainFile
      BY <2>1, <3>1 DEF PlainFile
    <3> QED
      BY <3>2, MigrationAssumption
  <2>4. evidence'.sql = evidence.sql
    BY <2>1 DEF MigrationInv, SourcesOK
  <2> QED
    BY <2>2, <2>3, <2>4 DEF EvidenceSurvives
<1> QED
  BY <1>1, <1>2

(* Originals survive any unverified publication: at every moment what the   *)
(* editors last left in the legacy rows and in the legacy file is still     *)
(* there or, the same, in a sealed owner that has reached the disk.         *)
THEOREM EvidenceIsKept == Spec => []EvidenceSurvives
<1>1. Init => EvidenceSurvives
  BY DEF Init, EvidenceSurvives
<1>2. MigrationInv /\ MigrationInv' /\ EvidenceSurvives /\ [Next]_vars => EvidenceSurvives'
  <2> SUFFICES ASSUME MigrationInv, MigrationInv', EvidenceSurvives, [Next]_vars
               PROVE  EvidenceSurvives'
    OBVIOUS
  <2>1. CASE UNCHANGED <<sql, plain, evidence>>
    BY <2>1, SourcesUntouched
  <2>2. CASE \E r \in Requests : PruneSql(r) \/ PrunePlain(r)
    BY <2>2, SqlIsHeld, PlainIsHeld
  <2>3. CASE EditSql \/ EditPlain
    BY <2>3, EditsAreThere
  <2>4. ASSUME NEW r \in Requests,
               \/ Begin(r) \/ CopyRow(r) \/ RowsDone(r) \/ CopyPlain(r) \/ PlainDone(r)
               \/ Publish(r) \/ SyncDir(r) \/ Verify(r) \/ ConfirmOwner(r) \/ HashPlain(r)
               \/ Fails(r) \/ Disconnect(r)
        PROVE  UNCHANGED <<sql, plain, evidence>>
    BY <2>4 DEF Begin, CopyRow, RowsDone, CopyPlain, PlainDone, Publish, SyncDir, Verify,
                ConfirmOwner, HashPlain, Fails, Disconnect
  <2>5. DetachedPublish \/ Crash \/ ExecutionEnds \/ CaptureEnds \/ UNCHANGED vars
        => UNCHANGED <<sql, plain, evidence>>
    BY DEF DetachedPublish, Crash, ExecutionEnds, CaptureEnds, vars
  <2> QED
    BY <2>1, <2>2, <2>3, <2>4, <2>5 DEF Next, RequestStep
<1> QED
  BY <1>1, <1>2, AlwaysMigration, PTL DEF Spec
============================================================================
