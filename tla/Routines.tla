------------------------------ MODULE Routines ------------------------------
(***************************************************************************)
(* Routines, agents started on a schedule: the scheduler's boot pass and   *)
(* tick loop (crates/server/src/routines_scheduler.rs), the run_now and    *)
(* update_routine handlers (routes/routines.rs) and the completion hook of *)
(* the container, over the tables routines and routine_runs.               *)
(***************************************************************************)
EXTENDS Integers, Sequences, FiniteSets

CONSTANTS
  Ids,          \* routines
  Periods,      \* schedules: a run at every multiple of the period, 0 manual
  MaxTime,      \* bound on the clock
  MaxManual,    \* bound on run_now calls
  MaxUpdates,   \* bound on update_routine calls
  MaxCrashes,   \* bound on server crashes
  None

ASSUME RoutinesAssumption ==
  /\ Periods \subseteq Nat /\ {MaxTime, MaxManual, MaxUpdates, MaxCrashes} \subseteq Nat
  /\ None \notin Ids \cup Nat

VARIABLES
  now,       \* the clock, in units of the shortest schedule
  routine,   \* routines: [period, enabled, next]
  runs,      \* routine_runs that were not skipped: [id, slot, status]
  agents,    \* runs whose agent is running
  sched,     \* the scheduler: [at, due, id, row, run]
  manual,    \* the run_now call in progress, as sched
  editing,   \* the update_routine between its two statements, or None
  used,      \* how often each bounded event has happened
  torn       \* history: routines with an edit that a crash cut in two

vars == <<now, routine, runs, agents, sched, manual, editing, used, torn>>

(* compute_next_run_at: the first slot after t.                             *)
NextRun(period, enabled, t) ==
  IF enabled /\ period # 0 THEN ((t \div period) + 1) * period ELSE None

Idle == [at |-> "idle", due |-> {}, id |-> None, row |-> None, run |-> 0]
Booting == [Idle EXCEPT !.at = "boot"]

Init ==
  /\ now = 0
  /\ routine \in [Ids -> {[period |-> p, enabled |-> e, next |-> NextRun(p, e, 0)] :
                            p \in Periods, e \in BOOLEAN}]
  /\ runs = <<>> /\ agents = {}
  /\ sched = Booting /\ manual = Idle /\ editing = None
  /\ used = [manual |-> 0, update |-> 0, crash |-> 0] /\ torn = {}

Uses(event) == used' = [used EXCEPT ![event] = @ + 1]

(* Routine::find_due                                                        *)
Due(i) == routine[i].enabled /\ routine[i].next # None /\ routine[i].next <= now

(* RoutineRun::has_running                                                  *)
Active(n) == runs[n].status \in {"pending", "running"}
HasRunning(i) == \E n \in 1 .. Len(runs) : runs[n].id = i /\ Active(n)

SetStatus(n, status) == runs' = [runs EXCEPT ![n].status = status]

Passes ==
  /\ now < MaxTime /\ now' = now + 1
  /\ UNCHANGED <<routine, runs, agents, sched, manual, editing, used, torn>>

---------------------------------------------------------------------------
(* handle_boot_missed_runs: one skipped row per overdue routine, which is   *)
(* moved to its next slot.                                                  *)
BootScan ==
  /\ sched.at = "boot"
  /\ sched' = [Idle EXCEPT !.at = "missed", !.due = {<<i, routine[i]>> : i \in {j \in Ids : Due(j)}}]
  /\ UNCHANGED <<now, routine, runs, agents, manual, editing, used, torn>>

BootSkip ==
  /\ sched.at = "missed"
  /\ \E d \in sched.due :
       /\ routine' = [routine EXCEPT ![d[1]].next = NextRun(d[2].period, d[2].enabled, now)]
       /\ sched' = [sched EXCEPT !.due = @ \ {d}]
  /\ UNCHANGED <<now, runs, agents, manual, editing, used, torn>>

BootDone ==
  /\ sched.at = "missed" /\ sched.due = {} /\ sched' = Idle
  /\ UNCHANGED <<now, routine, runs, agents, manual, editing, used, torn>>

(* tick_once reads the routines that are due, then handles them in turn.    *)
TickOnce ==
  /\ sched.at = "idle" /\ \E i \in Ids : Due(i)
  /\ sched' = [Idle EXCEPT !.at = "next", !.due = {<<i, routine[i]>> : i \in {j \in Ids : Due(j)}}]
  /\ UNCHANGED <<now, routine, runs, agents, manual, editing, used, torn>>

TickDone ==
  /\ sched.at = "next" /\ sched.due = {} /\ sched' = Idle
  /\ UNCHANGED <<now, routine, runs, agents, manual, editing, used, torn>>

(* Mutant of Fire: a skipped fire does not reach mark_fired.                *)
FireOrForget ==
  /\ sched.at = "next"
  /\ \E d \in sched.due :
       sched' = [Idle EXCEPT !.at = IF HasRunning(d[1]) THEN "next" ELSE "create",
                             !.due = sched.due \ {d}, !.id = d[1], !.row = d[2]]
  /\ UNCHANGED <<now, routine, runs, agents, manual, editing, used, torn>>

(* fire_routine: a routine with an active run is skipped.                   *)
Fire ==
  /\ sched.at = "next"
  /\ \E d \in sched.due :
       sched' = [Idle EXCEPT !.at = IF HasRunning(d[1]) THEN "mark" ELSE "create",
                             !.due = sched.due \ {d}, !.id = d[1], !.row = d[2]]
  /\ UNCHANGED <<now, routine, runs, agents, manual, editing, used, torn>>

NewRun(p, slot) == runs' = Append(runs, [id |-> p.id, slot |-> slot, status |-> "pending"])

(* RoutineRun::create, a statement of its own.                              *)
FireCreate ==
  /\ sched.at = "create" /\ NewRun(sched, sched.row.next)
  /\ sched' = [sched EXCEPT !.at = "spawn", !.run = Len(runs) + 1]
  /\ UNCHANGED <<now, routine, agents, manual, editing, used, torn>>

(* spawn_routine_run: the row is running before the agent is.               *)
FireSpawn ==
  /\ sched.at = "spawn" /\ SetStatus(sched.run, "running")
  /\ sched' = [sched EXCEPT !.at = "start"]
  /\ UNCHANGED <<now, routine, agents, manual, editing, used, torn>>

FireStart ==
  /\ sched.at = "start" /\ agents' = agents \cup {sched.run}
  /\ sched' = [sched EXCEPT !.at = "mark"]
  /\ UNCHANGED <<now, routine, runs, manual, editing, used, torn>>

(* Mutant of FireFails: the error is logged and the row left as it is.      *)
FireFailsSilently ==
  /\ sched.at \in {"spawn", "start"}
  /\ sched' = [sched EXCEPT !.at = "mark"]
  /\ UNCHANGED <<now, routine, runs, agents, manual, editing, used, torn>>

(* Any error of spawn_routine_run fails the run.                            *)
FireFails ==
  /\ sched.at \in {"spawn", "start"} /\ SetStatus(sched.run, "failed")
  /\ sched' = [sched EXCEPT !.at = "mark"]
  /\ UNCHANGED <<now, routine, agents, manual, editing, used, torn>>

(* Mutant of MarkFired: the slot that has just fired is the next one.       *)
MarkFiredSame ==
  /\ sched.at = "mark"
  /\ routine' = [routine EXCEPT ![sched.id].next =
                   NextRun(sched.row.period, sched.row.enabled, now - 1)]
  /\ sched' = [Idle EXCEPT !.at = "next", !.due = sched.due]
  /\ UNCHANGED <<now, runs, agents, manual, editing, used, torn>>

(* mark_fired, from the row as it was when the tick read it.                *)
MarkFired ==
  /\ sched.at = "mark"
  /\ routine' = [routine EXCEPT ![sched.id].next =
                   NextRun(sched.row.period, sched.row.enabled, now)]
  /\ sched' = [Idle EXCEPT !.at = "next", !.due = sched.due]
  /\ UNCHANGED <<now, runs, agents, manual, editing, used, torn>>

---------------------------------------------------------------------------
(* run_now: the same check, creation and spawn, but its errors leave the    *)
(* row as it is, and next_run_at is not touched.                            *)
RunNow(i) ==
  /\ manual.at = "idle" /\ used.manual < MaxManual /\ Uses("manual")
  /\ manual' = IF HasRunning(i) THEN Idle ELSE [Idle EXCEPT !.at = "create", !.id = i]
  /\ UNCHANGED <<now, routine, runs, agents, sched, editing, torn>>

RunNowCreate ==
  /\ manual.at = "create" /\ NewRun(manual, None)
  /\ manual' = [manual EXCEPT !.at = "spawn", !.run = Len(runs) + 1]
  /\ UNCHANGED <<now, routine, agents, sched, editing, used, torn>>

RunNowSpawn ==
  /\ manual.at = "spawn" /\ SetStatus(manual.run, "running")
  /\ manual' = [manual EXCEPT !.at = "start"]
  /\ UNCHANGED <<now, routine, agents, sched, editing, used, torn>>

RunNowStart ==
  /\ manual.at = "start" /\ agents' = agents \cup {manual.run} /\ manual' = Idle
  /\ UNCHANGED <<now, routine, runs, sched, editing, used, torn>>

RunNowFails ==
  /\ manual.at \in {"spawn", "start"} /\ manual' = Idle
  /\ UNCHANGED <<now, routine, runs, agents, sched, editing, used, torn>>

(* finalize_task, when the run's agent has ended.                           *)
AgentEnds(n) ==
  /\ n \in agents /\ agents' = agents \ {n}
  /\ \E status \in {"done", "failed"} : SetStatus(n, status)
  /\ UNCHANGED <<now, routine, sched, manual, editing, used, torn>>

(* update_routine: the fields, then, in a second statement, next_run_at.    *)
(* Bound: one edit at a time.                                               *)
Update(i) ==
  /\ editing = None /\ used.update < MaxUpdates /\ Uses("update")
  /\ \E p \in Periods, e \in BOOLEAN :
       routine' = [routine EXCEPT ![i].period = p, ![i].enabled = e]
  /\ editing' = i
  /\ UNCHANGED <<now, runs, agents, sched, manual, torn>>

UpdateNext ==
  /\ editing # None /\ editing' = None
  /\ routine' = [routine EXCEPT ![editing].next =
                   NextRun(routine[editing].period, routine[editing].enabled, now)]
  /\ UNCHANGED <<now, runs, agents, sched, manual, used, torn>>

(* The server dies with its agents.  Boot fails their executions, but does  *)
(* not look at routine_runs.                                                *)
Crash ==
  /\ used.crash < MaxCrashes /\ Uses("crash")
  /\ sched' = Booting /\ manual' = Idle /\ editing' = None /\ agents' = {}
  /\ torn' = torn \cup {i \in Ids : editing = i}
  /\ UNCHANGED <<now, routine, runs>>

Scheduler ==
  \/ BootScan \/ BootSkip \/ BootDone \/ TickOnce \/ TickDone
  \/ Fire \/ FireCreate \/ FireSpawn \/ FireStart \/ FireFails \/ MarkFired

Next ==
  \/ Passes \/ Scheduler
  \/ \E i \in Ids : RunNow(i) \/ Update(i)
  \/ RunNowCreate \/ RunNowSpawn \/ RunNowStart \/ RunNowFails
  \/ \E n \in agents : AgentEnds(n)
  \/ UpdateNext \/ Crash

Spec == Init /\ [][Next]_vars

(* The tick loop runs on and agents end.                                    *)
FairRoutines ==
  /\ Spec /\ WF_vars(Scheduler) /\ WF_vars(\E n \in agents : AgentEnds(n))

---------------------------------------------------------------------------
(* tick_once and handle_boot_missed_runs: a slot of a routine starts at     *)
(* most one run, whatever crash, edit or manual run comes between; except   *)
(* when a crash came between the two statements of an edit: a routine       *)
(* disabled by the first alone keeps a slot that has fired, and fires it    *)
(* again once it is enabled.                                                *)
SlotStartsOnce ==
  \A i \in Ids \ torn, slot \in 0 .. MaxTime :
    Cardinality({n \in 1 .. Len(runs) : runs[n].id = i /\ runs[n].slot = slot}) <= 1

(* Nobody is left to end this run: the server died with its agent, or       *)
(* run_now failed.                                                          *)
Abandoned(n) ==
  /\ Active(n) /\ n \notin agents
  /\ ~(sched.at \in {"spawn", "start"} /\ sched.run = n)
  /\ used.crash > 0 \/ runs[n].slot = None

(* finalize_task and fire_routine: a run ends, and stops blocking its       *)
(* routine, unless a crash or a failed run_now has abandoned it.            *)
RunsEnd ==
  \A n \in 1 .. MaxTime + MaxManual :
    (n <= Len(runs) /\ Active(n)) ~> (n <= Len(runs) /\ (~Active(n) \/ Abandoned(n)))

(* tick_once, "Always advance next_run_at, whether the fire succeeded or    *)
(* skipped": a due routine is moved on, also behind an abandoned run.       *)
DueIsHandled == \A i \in Ids : Due(i) ~> ~Due(i)
=============================================================================
