-------------------------- MODULE LaunchAdmission --------------------------
(***************************************************************************)
(* What a start has to pass before its row exists: the maintenance drain   *)
(* (crates/services/src/services/maintenance.rs) and the process budget    *)
(* (crates/local-deployment/src/process_budget.rs).                        *)
(***************************************************************************)

VARIABLES
  drain,      \* whether DRAIN_UNTIL_MILLIS lies in the future
  admitted    \* starts that hold a read guard of EXECUTION_ADMISSION

admission == <<drain, admitted>>

AdmissionInit == drain = FALSE /\ admitted = {}

(* ensure_available: what the cached sample of the host says, which is out  *)
(* of the program's hands; a failed or an old one shows no room.            *)
Samples == {"room", "full", "failed", "stale"}
EnsureAvailable(sample) == sample = "room"

(* set_drain takes the writer, so it waits for every admitted start.        *)
SetDrain(on) == admitted = {} /\ drain' = on /\ UNCHANGED admitted

(* A drain ends by itself after at most MAX_DRAIN_SECONDS.                  *)
DrainLapses == drain /\ drain' = FALSE /\ UNCHANGED admitted

(* Mutant of AdmitExecutionStart: the guard is dropped with the check.      *)
AdmitAndForget(start) == ~drain /\ UNCHANGED admission

(* admit_execution_start: the guard is kept until Release.                  *)
AdmitExecutionStart(start) == ~drain /\ admitted' = admitted \cup {start} /\ UNCHANGED drain

Release(start) == admitted' = admitted \ {start} /\ UNCHANGED drain
===========================================================================
