--------------------------- MODULE RoutineProofs ---------------------------
(***************************************************************************)
(* A slot of a routine starts at most one run, for every number of         *)
(* routines, schedules, edits, manual runs and crashes.                    *)
(***************************************************************************)
EXTENDS Routines, FiniteSetTheorems, TLAPS

Time == Nat \cup {None}
Routine == [period : Periods, enabled : BOOLEAN, next : Time]
Status == {"pending", "running", "done", "failed"}
Run == [id : Ids, slot : Time, status : Status]

(* The tick and the boot pass hold routines as they read them, one copy of  *)
(* each; every position that reads a local has set it.                      *)
Holding == {"create", "spawn", "start", "mark"}
Locals ==
  [at : {"idle", "boot", "missed", "next"} \cup Holding, due : SUBSET (Ids \X Routine),
   id : Ids \cup {None}, row : Routine \cup {None}, run : Nat]
SchedOK ==
  /\ sched \in Locals /\ manual \in Locals
  /\ \A d, e \in sched.due : d[1] = e[1] => d = e
  /\ sched.at \in Holding =>
       /\ sched.id \in Ids /\ sched.row \in Routine
       /\ \A d \in sched.due : d[1] # sched.id

RoutineType ==
  /\ now \in Nat /\ routine \in [Ids -> Routine] /\ runs \in Seq(Run)
  /\ SchedOK
  /\ manual.at = "create" => manual.id \in Ids
  /\ editing \in Ids \cup {None} /\ torn \subseteq Ids

(* No run of i has been created for slot t.                                 *)
Fresh(i, t) == \A n \in 1 .. Len(runs) : runs[n].id = i => runs[n].slot # t

(* A routine whose next slot has fired is about to be moved on: by the tick *)
(* that fired it, by the boot pass, or by the edit that has disabled it.    *)
Edited(i) == editing = i \/ routine[i].enabled
Moving(i) ==
  \/ Edited(i) /\ sched.at \in {"spawn", "start", "mark"} /\ sched.id = i
  \/ Edited(i) /\ sched.at = "boot"
  \/ Edited(i) /\ sched.at = "missed" /\ \E d \in sched.due : d[1] = i
  \/ editing = i /\ ~routine[i].enabled

(* A slot the tick is going to fire has come and has not fired; the routine *)
(* it was read from still has it only if it is enabled or being edited.     *)
Firing(i, row) ==
  /\ row.next \in Nat /\ row.next <= now
  /\ i \notin torn => Fresh(i, row.next) /\ (routine[i].next = row.next => Edited(i))

SlotOnce ==
  \A n, m \in 1 .. Len(runs) :
    runs[n].id = runs[m].id /\ runs[n].slot = runs[m].slot
      /\ runs[n].slot \in Nat /\ runs[n].id \notin torn => n = m

NextInv ==
  \A i \in Ids \ torn : routine[i].next \in Nat => Fresh(i, routine[i].next) \/ Moving(i)

FiringInv ==
  /\ sched.at \in {"next"} \cup Holding => \A d \in sched.due : Firing(d[1], d[2])
  /\ sched.at = "create" => Firing(sched.id, sched.row)

SlotInv ==
  /\ \A n \in 1 .. Len(runs) : runs[n].slot \in Nat => runs[n].slot <= now
  /\ SlotOnce /\ NextInv /\ FiringInv

RoutineInv == RoutineType /\ SlotInv

(* compute_next_run_at returns a time after the one it is given.            *)
LEMMA NextRunLater ==
  ASSUME NEW p \in Periods, NEW e \in BOOLEAN, NEW t \in Nat
  PROVE  /\ NextRun(p, e, t) \in Time
         /\ NextRun(p, e, t) \in Nat => NextRun(p, e, t) > t
<1>1. CASE e /\ p # 0
  <2>1. p \in Nat /\ p > 0
    BY <1>1, RoutinesAssumption
  <2>2. (t \div p) \in Nat /\ t < ((t \div p) + 1) * p
    BY <2>1
  <2> QED
    BY <1>1, <2>1, <2>2 DEF NextRun, Time
<1>2. CASE ~(e /\ p # 0)
  BY <1>2, RoutinesAssumption DEF NextRun, Time
<1> QED
  BY <1>1, <1>2

(* A change of status leaves the runs' slots as they are.                   *)
LEMMA StatusKeepsSlots ==
  ASSUME runs \in Seq(Run), NEW n, NEW status \in Status, SetStatus(n, status)
  PROVE  /\ runs' \in Seq(Run) /\ Len(runs') = Len(runs)
         /\ \A m \in 1 .. Len(runs) :
              runs'[m].id = runs[m].id /\ runs'[m].slot = runs[m].slot
<1>1. CASE n \in 1 .. Len(runs)
  <2> DEFINE r == [runs[n] EXCEPT !.status = status]
  <2>1. runs[n] \in Run
    BY <1>1
  <2>2. r \in Run /\ r.id = runs[n].id /\ r.slot = runs[n].slot
    BY <2>1 DEF Run
  <2>3. runs' = [runs EXCEPT ![n] = r]
    BY DEF SetStatus
  <2> HIDE DEF r
  <2> QED
    BY <1>1, <2>2, <2>3
<1>2. CASE n \notin 1 .. Len(runs)
  <2>1. runs' = runs
    BY <1>2 DEF SetStatus
  <2> QED
    BY <2>1
<1> QED
  BY <1>1, <1>2

(* A new run is the last one.                                               *)
LEMMA NewRunAppends ==
  ASSUME runs \in Seq(Run), NEW p, p.id \in Ids, NEW slot \in Time, NewRun(p, slot)
  PROVE  /\ runs' \in Seq(Run) /\ Len(runs') = Len(runs) + 1
         /\ \A m \in 1 .. Len(runs) : runs'[m] = runs[m]
         /\ runs'[Len(runs) + 1].id = p.id /\ runs'[Len(runs) + 1].slot = slot
<1> DEFINE r == [id |-> p.id, slot |-> slot, status |-> "pending"]
<1>1. r \in Run /\ r.id = p.id /\ r.slot = slot
  BY DEF Run, Status
<1>2. runs' = Append(runs, r)
  BY DEF NewRun
<1> HIDE DEF r
<1> QED
  BY <1>1, <1>2

(* Nothing has fired, and the boot pass comes first.                        *)
LEMMA InitRoutine == Init => RoutineInv
<1> SUFFICES ASSUME Init PROVE RoutineInv
  OBVIOUS
<1>1. routine \in [Ids -> Routine]
  <2> SUFFICES ASSUME NEW i \in Ids PROVE routine[i] \in Routine
    BY DEF Init
  <2>1. PICK p \in Periods, e \in BOOLEAN :
          routine[i] = [period |-> p, enabled |-> e, next |-> NextRun(p, e, 0)]
    BY DEF Init
  <2> QED
    BY <2>1, NextRunLater DEF Routine
<1>2. /\ sched \in Locals /\ sched.at = "boot" /\ sched.due = {}
      /\ manual \in Locals /\ manual.at = "idle"
  BY DEF Init, Booting, Idle, Locals, Holding
<1>3. runs \in Seq(Run) /\ Len(runs) = 0
  BY DEF Init
<1>4. RoutineType
  BY <1>1, <1>2, <1>3 DEF Init, RoutineType, SchedOK, Holding
<1>5. SlotInv
  BY <1>2, <1>3 DEF SlotInv, SlotOnce, NextInv, FiringInv, Fresh, Holding
<1> QED
  BY <1>4, <1>5 DEF RoutineInv

(* A step that creates no run, moves no routine and keeps what the          *)
(* scheduler holds.                                                         *)
LEMMA QuietStep ==
  ASSUME RoutineInv, now' \in Nat, now' >= now, UNCHANGED <<routine, editing, torn>>,
         runs' \in Seq(Run), Len(runs') = Len(runs),
         \A m \in 1 .. Len(runs) : runs'[m].id = runs[m].id /\ runs'[m].slot = runs[m].slot,
         sched' \in Locals, sched'.due = sched.due,
         sched'.id = sched.id, sched'.row = sched.row,
         sched'.at = sched.at \/ {sched.at, sched'.at} \subseteq {"spawn", "start", "mark"},
         manual' \in Locals, manual'.at = "create" => manual'.id \in Ids
  PROVE  RoutineInv'
<1> USE DEF RoutineInv, Holding
<1>1. RoutineType'
  BY DEF RoutineType, SchedOK
<1>2. SlotOnce'
  BY DEF SlotInv, SlotOnce
<1>3. \A i, t : Fresh(i, t) => Fresh(i, t)'
  BY DEF Fresh
<1>4. \A i \in Ids : Moving(i) => Moving(i)'
  BY DEF Moving, Edited
<1>5. \A i, row : Firing(i, row) => Firing(i, row)'
  BY <1>3, SMT DEF Firing, Edited, RoutineType
<1>6. NextInv'
  BY <1>3, <1>4 DEF SlotInv, NextInv
<1>7. FiringInv'
  BY <1>5 DEF SlotInv, FiringInv
<1>8. \A n \in 1 .. Len(runs') : runs'[n].slot \in Nat => runs'[n].slot <= now'
  BY DEF RoutineType, SlotInv
<1> QED
  BY <1>1, <1>2, <1>6, <1>7, <1>8 DEF SlotInv

(* What a scan of the routines that are due leaves in the scheduler.        *)
LEMMA ScanDue ==
  ASSUME RoutineType, NEW at \in {"missed", "next"},
         sched' = [Idle EXCEPT !.at = at,
                               !.due = {<<i, routine[i]>> : i \in {j \in Ids : Due(j)}}]
  PROVE  /\ sched' \in Locals /\ sched'.at = at
         /\ \A d \in sched'.due : d[1] \in Ids /\ Due(d[1]) /\ d[2] = routine[d[1]]
         /\ \A i \in Ids : Due(i) => <<i, routine[i]>> \in sched'.due
         /\ \A d, e \in sched'.due : d[1] = e[1] => d = e
<1> DEFINE due == {<<i, routine[i]>> : i \in {j \in Ids : Due(j)}}
<1>1. due \in SUBSET (Ids \X Routine)
  BY DEF RoutineType
<1>2. /\ \A d \in due : d[1] \in Ids /\ Due(d[1]) /\ d[2] = routine[d[1]]
      /\ \A i \in Ids : Due(i) => <<i, routine[i]>> \in due
      /\ \A d, e \in due : d[1] = e[1] => d = e
  OBVIOUS
<1> HIDE DEF due
<1>3. sched' = [at |-> at, due |-> due, id |-> None, row |-> None, run |-> 0]
  BY DEF due, Idle
<1>4. at \in {"idle", "boot", "missed", "next"} \cup Holding
  OBVIOUS
<1>5. ASSUME NEW D \in SUBSET (Ids \X Routine)
      PROVE  [at |-> at, due |-> D, id |-> None, row |-> None, run |-> 0] \in Locals
  BY <1>4 DEF Locals
<1>6. sched' \in Locals
  BY <1>1, <1>3, <1>5, Zenon
<1> QED
  BY <1>2, <1>3, <1>6

(* The boot pass sees every routine whose slot had fired before the crash,  *)
(* unless an edit has disabled it since.                                    *)
LEMMA BootScanRoutine ==
  ASSUME RoutineInv, BootScan
  PROVE  RoutineInv'
<1> USE DEF RoutineInv, BootScan
<1>0. /\ sched' \in Locals /\ sched'.at = "missed"
      /\ \A i \in Ids : Due(i) => <<i, routine[i]>> \in sched'.due
      /\ \A d, e \in sched'.due : d[1] = e[1] => d = e
  BY ScanDue
<1>1. RoutineType'
  BY <1>0 DEF RoutineType, SchedOK, Holding
<1>2. NextInv'
  <2> SUFFICES ASSUME NEW i \in Ids \ torn, routine[i].next \in Nat,
                      ~Fresh(i, routine[i].next)
               PROVE  Moving(i)'
    BY DEF NextInv, Fresh
  <2>1. Edited(i) /\ routine[i].next <= now
    BY DEF SlotInv, NextInv, Moving, Fresh, Edited, RoutineType
  <2>2. CASE routine[i].enabled
    <3>1. <<i, routine[i]>> \in sched'.due
      BY <1>0, <2>1, <2>2, RoutinesAssumption DEF Due
    <3> QED
      BY <1>0, <2>1, <3>1 DEF Moving, Edited
  <2>3. CASE ~routine[i].enabled
    BY <2>1, <2>3 DEF Moving, Edited
  <2> QED
    BY <2>2, <2>3
<1>3. SlotOnce' /\ FiringInv'
  BY <1>0 DEF SlotInv, SlotOnce, FiringInv, Holding
<1> QED
  BY <1>1, <1>2, <1>3 DEF SlotInv

(* Outside the boot pass a due routine's slot has not fired.                *)
LEMMA TickOnceRoutine ==
  ASSUME RoutineInv, TickOnce
  PROVE  RoutineInv'
<1> USE DEF RoutineInv, TickOnce
<1>0. /\ sched' \in Locals /\ sched'.at = "next"
      /\ \A d \in sched'.due : d[1] \in Ids /\ Due(d[1]) /\ d[2] = routine[d[1]]
      /\ \A d, e \in sched'.due : d[1] = e[1] => d = e
  BY ScanDue
<1>1. RoutineType'
  BY <1>0 DEF RoutineType, SchedOK, Holding
<1>2. NextInv'
  BY <1>0 DEF SlotInv, NextInv, Moving, Edited, Fresh
<1>3. \A i \in Ids : Due(i) => Firing(i, routine[i])'
  BY DEF Due, SlotInv, NextInv, Moving, Edited, Fresh, Firing, RoutineType, Routine, Time
<1>4. SlotOnce' /\ FiringInv'
  BY <1>0, <1>3 DEF SlotInv, SlotOnce, FiringInv, Holding, Firing, Fresh, Edited
<1> QED
  BY <1>1, <1>2, <1>4 DEF SlotInv

(* A pass ends when it holds nothing.                                       *)
LEMMA DoneRoutine ==
  ASSUME RoutineInv, BootDone \/ TickDone
  PROVE  RoutineInv'
<1> USE DEF RoutineInv, BootDone, TickDone
<1>0. sched' \in Locals /\ sched'.at = "idle" /\ sched'.due = {}
  BY DEF Idle, Locals
<1>1. RoutineType'
  BY <1>0 DEF RoutineType, SchedOK, Holding
<1>2. NextInv'
  BY <1>0 DEF SlotInv, NextInv, Moving, Edited, Fresh
<1>3. SlotOnce' /\ FiringInv'
  BY <1>0 DEF SlotInv, SlotOnce, FiringInv, Holding
<1> QED
  BY <1>1, <1>2, <1>3 DEF SlotInv

(* The tick takes one of the routines it has read.                          *)
LEMMA FireRoutine ==
  ASSUME RoutineInv, Fire
  PROVE  RoutineInv'
<1> USE DEF RoutineInv
<1>p. PICK d \in sched.due :
        sched' = [Idle EXCEPT !.at = IF HasRunning(d[1]) THEN "mark" ELSE "create",
                              !.due = sched.due \ {d}, !.id = d[1], !.row = d[2]]
  BY DEF Fire
<1>d. d[1] \in Ids /\ d[2] \in Routine /\ sched.at = "next"
  BY DEF Fire, RoutineType, SchedOK, Locals
<1>0. /\ sched' \in Locals /\ sched'.at \in {"mark", "create"} /\ sched'.id = d[1]
      /\ sched'.row = d[2] /\ sched'.due = sched.due \ {d}
  BY <1>p, <1>d DEF Idle, Locals, Holding, RoutineType, SchedOK
<1>1. RoutineType'
  BY <1>0, <1>d DEF Fire, RoutineType, SchedOK, Holding
<1>2. NextInv'
  BY <1>0, <1>d DEF Fire, SlotInv, NextInv, Moving, Edited, Fresh
<1>3. \A e \in sched.due : Firing(e[1], e[2])'
  BY <1>d DEF Fire, SlotInv, FiringInv, Firing, Fresh, Edited
<1>4. SlotOnce' /\ FiringInv'
  BY <1>0, <1>3 DEF Fire, SlotInv, SlotOnce, FiringInv, Holding
<1> QED
  BY <1>1, <1>2, <1>4 DEF SlotInv, Fire

(* A routine that is moved on to a slot after now is moved to one that has  *)
(* not fired, and that no tick holds.                                       *)
LEMMA LaterIsFresh ==
  ASSUME RoutineInv, NEW i, NEW t \in Nat, t > now
  PROVE  Fresh(i, t)
  BY DEF RoutineInv, RoutineType, SlotInv, Fresh

(* next_run_at is computed anew for one routine; what the scheduler holds   *)
(* besides stays.                                                           *)
LEMMA MoveRoutine ==
  ASSUME RoutineInv, NEW j \in Ids, NEW p \in Periods, NEW e \in BOOLEAN,
         routine' = [routine EXCEPT ![j].next = NextRun(p, e, now)],
         UNCHANGED <<now, runs>>
  PROVE  /\ routine' \in [Ids -> Routine]
         /\ \A i \in Ids : routine'[i].enabled = routine[i].enabled
         /\ \A i \in Ids \ {j} : routine'[i].next = routine[i].next
         /\ routine'[j].next \in Nat => routine'[j].next > now /\ Fresh(j, routine'[j].next)
<1> DEFINE t == NextRun(p, e, now)
           r == [routine[j] EXCEPT !.next = t]
<1>1. t \in Time /\ (t \in Nat => t > now)
  BY NextRunLater DEF RoutineInv, RoutineType
<1>2. t \in Nat => Fresh(j, t)
  BY <1>1, LaterIsFresh
<1> HIDE DEF t
<1>3. r \in Routine /\ r.enabled = routine[j].enabled /\ r.next = t
  BY <1>1 DEF RoutineInv, RoutineType, Routine
<1>4. routine' = [routine EXCEPT ![j] = r]
  BY DEF t
<1> HIDE DEF r
<1> QED
  BY <1>1, <1>2, <1>3, <1>4 DEF RoutineInv, RoutineType

(* The boot pass moves one routine it has read.                             *)
LEMMA BootSkipRoutine ==
  ASSUME RoutineInv, BootSkip
  PROVE  RoutineInv'
<1> USE DEF RoutineInv
<1>p. PICK d \in sched.due :
        /\ routine' = [routine EXCEPT ![d[1]].next = NextRun(d[2].period, d[2].enabled, now)]
        /\ sched' = [sched EXCEPT !.due = @ \ {d}]
  BY DEF BootSkip
<1>d. d[1] \in Ids /\ d[2] \in Routine
  BY DEF RoutineType, SchedOK, Locals
<1>0. /\ sched' \in Locals /\ sched'.at = "missed" /\ sched'.due = sched.due \ {d}
  BY <1>p DEF BootSkip, RoutineType, SchedOK, Locals
<1>m. /\ routine' \in [Ids -> Routine]
      /\ \A i \in Ids : routine'[i].enabled = routine[i].enabled
      /\ \A i \in Ids \ {d[1]} : routine'[i].next = routine[i].next
      /\ routine'[d[1]].next \in Nat => Fresh(d[1], routine'[d[1]].next)
  <2>1. d[2].period \in Periods /\ d[2].enabled \in BOOLEAN
    BY <1>d DEF Routine
  <2> QED
    BY <1>p, <1>d, <2>1, MoveRoutine DEF BootSkip
<1>1. RoutineType'
  BY <1>0, <1>m DEF BootSkip, RoutineType, SchedOK, Holding
<1>2. NextInv'
  <2> SUFFICES ASSUME NEW i \in Ids \ torn, routine'[i].next \in Nat, ~Fresh(i, routine'[i].next)
               PROVE  Moving(i)'
    BY DEF NextInv, Fresh, BootSkip
  <2>1. i # d[1] /\ routine'[i].next = routine[i].next
    BY <1>m
  <2>2. Moving(i)
    BY <2>1 DEF SlotInv, NextInv
  <2> QED
    BY <1>0, <1>m, <2>1, <2>2 DEF BootSkip, Moving, Edited
<1>3. SlotOnce' /\ FiringInv'
  BY <1>0 DEF BootSkip, SlotInv, SlotOnce, FiringInv, Holding
<1> QED
  BY <1>1, <1>2, <1>3 DEF SlotInv, BootSkip

(* The tick moves the routine it has handled.                               *)
LEMMA MarkFiredRoutine ==
  ASSUME RoutineInv, MarkFired
  PROVE  RoutineInv'
<1> USE DEF RoutineInv
<1> DEFINE j == sched.id
<1>j. j \in Ids /\ sched.row \in Routine /\ \A d \in sched.due : d[1] # j
  BY DEF MarkFired, RoutineType, SchedOK, Holding
<1>0. sched' \in Locals /\ sched'.at = "next" /\ sched'.due = sched.due
  BY DEF MarkFired, RoutineType, SchedOK, Locals, Idle
<1>m. /\ routine' \in [Ids -> Routine]
      /\ \A i \in Ids : routine'[i].enabled = routine[i].enabled
      /\ \A i \in Ids \ {j} : routine'[i].next = routine[i].next
      /\ routine'[j].next \in Nat => Fresh(j, routine'[j].next)
  <2>1. sched.row.period \in Periods /\ sched.row.enabled \in BOOLEAN
    BY <1>j DEF Routine
  <2> QED
    BY <1>j, <2>1, MoveRoutine DEF MarkFired
<1> HIDE DEF j
<1>1. RoutineType'
  BY <1>0, <1>m DEF MarkFired, RoutineType, SchedOK, Holding
<1>2. NextInv'
  <2> SUFFICES ASSUME NEW i \in Ids \ torn, routine'[i].next \in Nat, ~Fresh(i, routine'[i].next)
               PROVE  Moving(i)'
    BY DEF NextInv, Fresh, MarkFired
  <2>1. i # j /\ routine'[i].next = routine[i].next
    BY <1>m
  <2>2. Moving(i)
    BY <2>1 DEF SlotInv, NextInv
  <2> QED
    BY <1>0, <1>m, <2>1, <2>2 DEF MarkFired, Moving, Edited, j
<1>3. \A d \in sched.due : Firing(d[1], d[2])'
  <2> SUFFICES ASSUME NEW d \in sched.due PROVE Firing(d[1], d[2])'
    OBVIOUS
  <2>1. d[1] \in Ids \ {j} /\ Firing(d[1], d[2])
    BY <1>j DEF MarkFired, SlotInv, FiringInv, Holding, RoutineType, SchedOK, Locals
  <2> QED
    BY <1>m, <2>1 DEF MarkFired, Firing, Fresh, Edited
<1>4. SlotOnce' /\ FiringInv'
  BY <1>0, <1>3 DEF MarkFired, SlotInv, SlotOnce, FiringInv, Holding
<1> QED
  BY <1>1, <1>2, <1>4 DEF SlotInv, MarkFired

(* The run created for a slot is its first, and the tick is going to move   *)
(* the routine on.                                                          *)
LEMMA FireCreateRoutine ==
  ASSUME RoutineInv, FireCreate
  PROVE  RoutineInv'
<1> USE DEF RoutineInv
<1> DEFINE j == sched.id
           s == sched.row.next
           N == Len(runs) + 1
<1>j. /\ j \in Ids /\ s \in Nat /\ s \in Time /\ s <= now
      /\ j \notin torn => Fresh(j, s) /\ (routine[j].next = s => Edited(j))
      /\ \A d \in sched.due : d[1] # j
  BY DEF FireCreate, SlotInv, FiringInv, Firing, RoutineType, SchedOK, Holding, Time
<1>n. /\ runs' \in Seq(Run) /\ Len(runs') = N
      /\ \A m \in 1 .. Len(runs) : runs'[m] = runs[m]
      /\ runs'[N].id = j /\ runs'[N].slot = s
  BY <1>j, NewRunAppends DEF FireCreate, RoutineType
<1>0. /\ sched' \in Locals /\ sched'.at = "spawn" /\ sched'.due = sched.due
      /\ sched'.id = j /\ sched'.row = sched.row
  <2>1. N \in Nat
    BY DEF RoutineType
  <2> QED
    BY <2>1 DEF FireCreate, RoutineType, SchedOK, Locals, Holding
<1>l. Len(runs) \in Nat /\ \A m \in 1 .. N : m = N \/ m \in 1 .. Len(runs)
  BY DEF RoutineType
<1> HIDE DEF j, s, N
<1>f. \A i, t : Fresh(i, t) /\ (i # j \/ t # s) => Fresh(i, t)'
  BY <1>n, <1>l DEF Fresh
<1>1. RoutineType'
  BY <1>n, <1>0 DEF FireCreate, RoutineType, SchedOK, Holding
<1>2. SlotOnce'
  BY <1>n, <1>l, <1>j DEF FireCreate, SlotInv, SlotOnce, Fresh
<1>3. NextInv'
  <2> SUFFICES ASSUME NEW i \in Ids \ torn, routine[i].next \in Nat, ~Fresh(i, routine[i].next)'
               PROVE  Moving(i)'
    BY DEF NextInv, FireCreate
  <2>1. CASE Fresh(i, routine[i].next)
    <3>1. i = j /\ routine[i].next = s
      BY <1>f, <2>1 DEF FireCreate
    <3> QED
      BY <1>0, <1>j, <3>1 DEF FireCreate, Moving, Edited
  <2>2. CASE Moving(i)
    BY <1>0, <2>2 DEF FireCreate, Moving, Edited
  <2> QED
    BY <2>1, <2>2 DEF SlotInv, NextInv
<1>4. \A d \in sched.due : Firing(d[1], d[2])'
  BY <1>j, <1>f DEF FireCreate, SlotInv, FiringInv, Firing, Holding, Edited
<1>5. FiringInv'
  BY <1>0, <1>4 DEF FiringInv, Holding
<1>6. \A n \in 1 .. Len(runs') : runs'[n].slot \in Nat => runs'[n].slot <= now'
  BY <1>n, <1>l, <1>j DEF FireCreate, SlotInv
<1> QED
  BY <1>1, <1>2, <1>3, <1>5, <1>6 DEF SlotInv

(* run_now's run has no slot.                                               *)
LEMMA RunNowCreateRoutine ==
  ASSUME RoutineInv, RunNowCreate
  PROVE  RoutineInv'
<1> USE DEF RoutineInv
<1> DEFINE N == Len(runs) + 1
<1>n. /\ runs' \in Seq(Run) /\ Len(runs') = N
      /\ \A m \in 1 .. Len(runs) : runs'[m] = runs[m]
      /\ runs'[N].slot \notin Nat
  BY NewRunAppends, RoutinesAssumption DEF RunNowCreate, RoutineType, Time
<1>0. manual' \in Locals /\ manual'.at = "spawn"
  <2>1. N \in Nat
    BY DEF RoutineType
  <2> QED
    BY <2>1 DEF RunNowCreate, RoutineType, SchedOK, Locals, Holding
<1>l. Len(runs) \in Nat /\ \A m \in 1 .. N : m = N \/ m \in 1 .. Len(runs)
  BY DEF RoutineType
<1> HIDE DEF N
<1>f. \A i, t : Fresh(i, t) /\ t \in Nat => Fresh(i, t)'
  BY <1>n, <1>l DEF Fresh
<1>1. RoutineType'
  BY <1>n, <1>0 DEF RunNowCreate, RoutineType, SchedOK
<1>2. SlotOnce'
  BY <1>n, <1>l DEF RunNowCreate, SlotInv, SlotOnce
<1>3. NextInv'
  BY <1>f DEF RunNowCreate, SlotInv, NextInv, Moving, Edited
<1>4. FiringInv'
  BY <1>f DEF RunNowCreate, SlotInv, FiringInv, Firing, Edited
<1>5. \A n \in 1 .. Len(runs') : runs'[n].slot \in Nat => runs'[n].slot <= now'
  BY <1>n, <1>l DEF RunNowCreate, SlotInv
<1> QED
  BY <1>1, <1>2, <1>3, <1>4, <1>5 DEF SlotInv

(* The first statement of an edit leaves next_run_at alone.                 *)
LEMMA UpdateRoutine ==
  ASSUME RoutineInv, NEW j \in Ids, Update(j)
  PROVE  RoutineInv'
<1> USE DEF RoutineInv
<1>p. PICK p \in Periods, e \in BOOLEAN :
        routine' = [routine EXCEPT ![j].period = p, ![j].enabled = e]
  BY DEF Update
<1> DEFINE r == [routine[j] EXCEPT !.period = p]
           q == [r EXCEPT !.enabled = e]
<1>r. r \in Routine /\ r.next = routine[j].next
  BY DEF RoutineType, Routine
<1>s. routine' = [routine EXCEPT ![j] = q]
  BY <1>p DEF RoutineType
<1> HIDE DEF r
<1>q. q \in Routine /\ q.next = routine[j].next
  BY <1>r DEF Routine
<1> HIDE DEF q
<1>0. /\ routine' \in [Ids -> Routine]
      /\ \A i \in Ids : routine'[i].next = routine[i].next
      /\ \A i \in Ids \ {j} : routine'[i] = routine[i]
  BY <1>s, <1>q DEF RoutineType
<1>1. RoutineType'
  BY <1>0 DEF Update, RoutineType, SchedOK
<1>2. NextInv'
  <2> SUFFICES ASSUME NEW i \in Ids \ torn, routine[i].next \in Nat, ~Fresh(i, routine[i].next)
               PROVE  Moving(i)'
    BY <1>0 DEF NextInv, Fresh, Update
  <2>1. Moving(i) /\ editing = None
    BY DEF SlotInv, NextInv, Update
  <2>2. CASE i = j
    BY <2>1, <2>2, RoutinesAssumption DEF Update, Moving, Edited
  <2>3. CASE i # j
    BY <1>0, <2>1, <2>3, RoutinesAssumption DEF Update, Moving, Edited
  <2> QED
    BY <2>2, <2>3
<1>3. \A i \in Ids : Edited(i) => Edited(i)'
  BY <1>0, RoutinesAssumption DEF Update, Edited
<1>4. \A i \in Ids : \A row : Firing(i, row) => Firing(i, row)'
  BY <1>0, <1>3 DEF Update, Firing, Fresh
<1>5. SlotOnce' /\ FiringInv'
  BY <1>4 DEF Update, SlotInv, SlotOnce, FiringInv, RoutineType, SchedOK, Locals, Holding
<1> QED
  BY <1>1, <1>2, <1>5 DEF SlotInv, Update

(* The second moves the routine on.                                         *)
LEMMA UpdateNextRoutine ==
  ASSUME RoutineInv, UpdateNext
  PROVE  RoutineInv'
<1> USE DEF RoutineInv
<1> DEFINE j == editing
<1>j. j \in Ids /\ routine[j].period \in Periods /\ routine[j].enabled \in BOOLEAN
  BY DEF UpdateNext, RoutineType, Routine
<1>m. /\ routine' \in [Ids -> Routine]
      /\ \A i \in Ids : routine'[i].enabled = routine[i].enabled
      /\ \A i \in Ids \ {j} : routine'[i].next = routine[i].next
      /\ routine'[j].next \in Nat => routine'[j].next > now /\ Fresh(j, routine'[j].next)
  BY <1>j, MoveRoutine DEF UpdateNext
<1>1. RoutineType'
  BY <1>m DEF UpdateNext, RoutineType, SchedOK
<1>2. NextInv'
  <2> SUFFICES ASSUME NEW i \in Ids \ torn, routine'[i].next \in Nat, ~Fresh(i, routine'[i].next)
               PROVE  Moving(i)'
    BY DEF NextInv, Fresh, UpdateNext
  <2>1. i # j /\ routine'[i].next = routine[i].next
    BY <1>m
  <2>2. Moving(i)
    BY <2>1 DEF SlotInv, NextInv
  <2> QED
    BY <1>m, <2>1, <2>2 DEF UpdateNext, Moving, Edited
<1>3. ASSUME NEW i \in Ids, NEW row, Firing(i, row)
      PROVE  Firing(i, row)'
  <2>1. CASE i = j
    BY <1>m, <1>3, <2>1 DEF UpdateNext, Firing, Fresh, RoutineType
  <2>2. CASE i # j
    BY <1>m, <1>3, <2>2 DEF UpdateNext, Firing, Fresh, Edited
  <2> QED
    BY <2>1, <2>2
<1>4. SlotOnce' /\ FiringInv'
  BY <1>3 DEF UpdateNext, SlotInv, SlotOnce, FiringInv, RoutineType, SchedOK, Locals, Holding
<1> QED
  BY <1>1, <1>2, <1>4 DEF SlotInv, UpdateNext

(* A crash leaves a routine whose slot has fired to the boot pass, unless   *)
(* it cuts an edit of the routine in two.                                   *)
LEMMA CrashRoutine ==
  ASSUME RoutineInv, Crash
  PROVE  RoutineInv'
<1> USE DEF RoutineInv, Crash
<1>0. /\ sched' \in Locals /\ sched'.at = "boot" /\ sched'.due = {}
      /\ manual' \in Locals /\ manual'.at = "idle"
  BY DEF Booting, Idle, Locals
<1>1. RoutineType'
  BY <1>0 DEF RoutineType, SchedOK, Holding
<1>2. NextInv'
  BY <1>0 DEF SlotInv, NextInv, Moving, Edited, Fresh, RoutineType
<1>3. SlotOnce' /\ FiringInv'
  BY <1>0 DEF SlotInv, SlotOnce, FiringInv, Holding
<1> QED
  BY <1>1, <1>2, <1>3 DEF SlotInv

(* The steps that only change a status, the clock or a position.            *)
LEMMA OtherRoutine ==
  ASSUME RoutineInv,
         \/ Passes \/ FireSpawn \/ FireStart \/ FireFails
         \/ \E i \in Ids : RunNow(i)
         \/ RunNowSpawn \/ RunNowStart \/ RunNowFails
         \/ \E n \in agents : AgentEnds(n)
         \/ UNCHANGED vars
  PROVE  RoutineInv'
<1>t. /\ now \in Nat /\ runs \in Seq(Run) /\ sched \in Locals /\ manual \in Locals
      /\ manual.at = "create" => manual.id \in Ids
  BY DEF RoutineInv, RoutineType, SchedOK
<1>i. Idle \in Locals /\ Idle.at = "idle"
  BY DEF Idle, Locals
<1>1. CASE Passes
  BY <1>1, <1>t, QuietStep DEF Passes
<1>2. CASE FireSpawn \/ FireStart \/ FireFails
  <2>1. /\ sched' \in Locals /\ sched'.due = sched.due /\ sched'.id = sched.id
        /\ sched'.row = sched.row /\ {sched.at, sched'.at} \subseteq {"spawn", "start", "mark"}
    BY <1>2, <1>t DEF FireSpawn, FireStart, FireFails, Locals, Holding
  <2>2. /\ runs' \in Seq(Run) /\ Len(runs') = Len(runs)
        /\ \A m \in 1 .. Len(runs) :
             runs'[m].id = runs[m].id /\ runs'[m].slot = runs[m].slot
    BY <1>2, <1>t, StatusKeepsSlots DEF FireSpawn, FireStart, FireFails, Status
  <2> QED
    BY <1>2, <1>t, <2>1, <2>2, QuietStep DEF FireSpawn, FireStart, FireFails
<1>3. ASSUME NEW i \in Ids, RunNow(i) PROVE RoutineInv'
  <2>1. manual' \in Locals /\ (manual'.at = "create" => manual'.id \in Ids)
    <3>1. CASE manual' = Idle
      BY <3>1, <1>i
    <3>2. CASE manual' = [Idle EXCEPT !.at = "create", !.id = i]
      BY <3>2 DEF Idle, Locals, Holding
    <3> QED
      BY <1>3, <3>1, <3>2 DEF RunNow
  <2>2. UNCHANGED <<now, routine, runs, sched, editing, torn>>
    BY <1>3 DEF RunNow
  <2> QED
    BY <1>t, <2>1, <2>2, QuietStep
<1>4. CASE RunNowSpawn \/ RunNowStart \/ RunNowFails
  <2>1. manual' \in Locals /\ manual'.at # "create"
    BY <1>4, <1>t, <1>i DEF RunNowSpawn, RunNowStart, RunNowFails, Locals, Holding
  <2>2. /\ runs' \in Seq(Run) /\ Len(runs') = Len(runs)
        /\ \A m \in 1 .. Len(runs) :
             runs'[m].id = runs[m].id /\ runs'[m].slot = runs[m].slot
    BY <1>4, <1>t, StatusKeepsSlots DEF RunNowSpawn, RunNowStart, RunNowFails, Status
  <2> QED
    BY <1>4, <1>t, <2>1, <2>2, QuietStep DEF RunNowSpawn, RunNowStart, RunNowFails
<1>5. ASSUME NEW n \in agents, AgentEnds(n) PROVE RoutineInv'
  <2>1. /\ runs' \in Seq(Run) /\ Len(runs') = Len(runs)
        /\ \A m \in 1 .. Len(runs) :
             runs'[m].id = runs[m].id /\ runs'[m].slot = runs[m].slot
    BY <1>5, <1>t, StatusKeepsSlots DEF AgentEnds, Status
  <2> QED
    BY <1>5, <1>t, <2>1, QuietStep DEF AgentEnds
<1>6. CASE UNCHANGED vars
  BY <1>6, <1>t, QuietStep DEF vars
<1> QED
  BY <1>1, <1>2, <1>3, <1>4, <1>5, <1>6

(* Each step keeps the invariant.                                           *)
LEMMA NextRoutine ==
  ASSUME RoutineInv, [Next]_vars
  PROVE  RoutineInv'
  BY BootScanRoutine, BootSkipRoutine, DoneRoutine, TickOnceRoutine, FireRoutine,
     FireCreateRoutine, MarkFiredRoutine, RunNowCreateRoutine, UpdateRoutine,
     UpdateNextRoutine, CrashRoutine, OtherRoutine
  DEF Next, Scheduler

(* tick_once and handle_boot_missed_runs: no slot starts two runs, for      *)
(* every number of routines, schedules, edits, manual runs and crashes, but *)
(* for routines with an edit that a crash cut in two.                       *)
THEOREM SlotsStartOnce == Spec => []SlotStartsOnce
<1>1. Spec => []RoutineInv
  BY InitRoutine, NextRoutine, PTL DEF Spec
<1>2. RoutineInv => SlotStartsOnce
  <2> SUFFICES ASSUME RoutineInv, NEW i \in Ids \ torn, NEW slot \in 0 .. MaxTime
               PROVE  Cardinality({n \in 1 .. Len(runs) :
                                     runs[n].id = i /\ runs[n].slot = slot}) <= 1
    BY DEF SlotStartsOnce
  <2> DEFINE S == {n \in 1 .. Len(runs) : runs[n].id = i /\ runs[n].slot = slot}
  <2>1. \A n, m \in S : n = m
    <3>1. slot \in Nat
      BY RoutinesAssumption
    <3> QED
      BY <3>1 DEF RoutineInv, SlotInv, SlotOnce
  <2> SUFFICES Cardinality(S) <= 1
    OBVIOUS
  <2> HIDE DEF S
  <2>2. CASE S = {}
    BY <2>2, FS_EmptySet
  <2>3. CASE S # {}
    <3>1. PICK n : S = {n}
      BY <2>1, <2>3
    <3> QED
      BY <3>1, FS_Singleton
  <2> QED
    BY <2>2, <2>3
<1> QED
  BY <1>1, <1>2, PTL
===========================================================================
