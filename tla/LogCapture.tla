----------------------------- MODULE LogCapture -----------------------------
(***************************************************************************)
(* The recording of one execution: capture_raw_logs                        *)
(* (crates/services/src/services/execution_process.rs) between the child's *)
(* pipes, the execution log and the UI mirror, and the exit monitor that   *)
(* waits for it (crates/local-deployment/src/container.rs).                *)
(***************************************************************************)
EXTENDS ExecutionLog, MsgStore

ASSUME CaptureAssumption ==
  /\ None \notin {"complete", "unavailable", "completed", "failed"}
  /\ DOMAIN MsgBytes = 1..(Lines + 1)

VARIABLES
  child,     \* "run" or "dead"
  pipe,      \* whether somebody, the child or a descendant, holds the pipes
  emitted,   \* lines written to the pipes
  cap,       \* where capture_raw_logs is, or how it ended
  drain,     \* drain_expired is cancelled
  mon,       \* where the exit monitor is
  verdict,   \* the terminal status published, or None
  told       \* start errors explained by append_log_message

capVars == <<child, pipe, emitted, cap, drain, mon, verdict, told>>
captureVars == <<logVars, storeVars, capVars>>

Finished == Lines + 1
Ended == {"complete", "unavailable"}

CaptureInit ==
  /\ Init /\ StoreInit
  /\ child = "run" /\ pipe = TRUE /\ emitted = 0
  /\ cap = "start" /\ drain = FALSE /\ mon = "off" /\ verdict = None /\ told = 0

---------------------------------------------------------------------------
(* The agent: it writes, closes its pipes and exits as it likes, and a      *)
(* descendant may hold the pipes beyond its death.                          *)
Emit ==
  /\ pipe /\ emitted < Lines /\ emitted' = emitted + 1
  /\ UNCHANGED <<logVars, storeVars, child, pipe, cap, drain, mon, verdict, told>>

ClosePipe ==
  /\ pipe /\ pipe' = FALSE
  /\ UNCHANGED <<logVars, storeVars, child, emitted, cap, drain, mon, verdict, told>>

ChildExits ==
  /\ child = "run" /\ child' = "dead"
  /\ UNCHANGED <<logVars, storeVars, pipe, emitted, cap, drain, mon, verdict, told>>

---------------------------------------------------------------------------
(* start_execution_inner: the writer is opened, capture and monitor are     *)
(* spawned together.                                                        *)
StartCapture ==
  /\ cap = "start" /\ Open /\ w'.pc = "idle"
  /\ cap' = "select" /\ mon' = "watch"
  /\ UNCHANGED <<storeVars, child, pipe, emitted, drain, verdict, told>>

(* The writer cannot be opened: the child is killed, and start_execution    *)
(* explains the error with up to two control lines, a writer each.          *)
StartFails ==
  /\ cap = "start" /\ Fault(TRUE)
  /\ cap' = "explain" /\ child' = "dead" /\ pipe' = FALSE
  /\ UNCHANGED <<disk, w, lines, acked, readers, storeVars, emitted, drain, mon, verdict, told>>

Explain ==
  /\ cap = "explain"
  /\ \/ told < 2 /\ Open /\ UNCHANGED told
     \/ AppendControl /\ told < 2 /\ told' = told + 1
     \/ w.pc = "idle" /\ (told = 2 \/ ~Writable \/ ~MayOverdraw) /\ Drop /\ told' = 2
  /\ UNCHANGED <<storeVars, child, pipe, emitted, cap, drain, mon, verdict>>

(* The writer's own steps, in whichever append is in progress.              *)
Record == WriterStep /\ UNCHANGED <<storeVars, capVars>>

(* The next line: the select is biased to the drain token, and looks at it  *)
(* only between appends.                                                    *)
TakeLine ==
  /\ cap = "select" /\ ~drain /\ lines < emitted
  /\ AppendLine \/ AppendRefused
  /\ cap' = "append"
  /\ UNCHANGED <<storeVars, child, pipe, emitted, drain, mon, verdict, told>>

(* Written: only now does the mirror get the line.                          *)
LineWritten ==
  /\ cap = "append" /\ w.pc = "idle" /\ lines \in acked
  /\ Push(lines) /\ cap' = "select"
  /\ UNCHANGED <<logVars, dropped, child, pipe, emitted, drain, mon, verdict, told>>

(* Mutant of CaptureFails: an expired drain counts as the end of output.    *)
DrainEndsCapture ==
  /\ \/ cap = "append" /\ w.pc = "idle" /\ lines \notin acked /\ cap' = "fail" /\ UNCHANGED w
     \/ cap = "select" /\ drain /\ Writable /\ Begin(Seal("complete"), 0) /\ cap' = "seal"
  /\ UNCHANGED <<disk, lines, acked, readers, faults, storeVars,
                 child, pipe, emitted, drain, mon, verdict, told>>

(* The append returned an error, or the drain expired.                      *)
CaptureFails ==
  /\ \/ cap = "append" /\ w.pc = "idle" /\ lines \notin acked
     \/ cap = "select" /\ drain
  /\ cap' = "fail"
  /\ UNCHANGED <<logVars, storeVars, child, pipe, emitted, drain, mon, verdict, told>>

(* Reading the pipe fails.                                                  *)
PipeFails ==
  /\ cap = "select" /\ ~drain /\ Fault(TRUE)
  /\ cap' = "fail"
  /\ UNCHANGED <<disk, w, lines, acked, readers, storeVars,
                 child, pipe, emitted, drain, mon, verdict, told>>

(* End of the output: finish(Complete), if there is space for the seal.     *)
OutputEnds ==
  /\ cap = "select" /\ ~drain /\ ~pipe /\ lines = emitted
  /\ \/ Finish("complete") /\ cap' = "seal"
     \/ Fault(TRUE) /\ cap' = "fail" /\ UNCHANGED <<disk, w, lines, acked, readers>>
  /\ UNCHANGED <<storeVars, child, pipe, emitted, drain, mon, verdict, told>>

SealReturns ==
  /\ cap = "seal" /\ w.pc = "idle"
  /\ cap' = IF w.sealed THEN "complete" ELSE "fail"
  /\ UNCHANGED <<logVars, storeVars, child, pipe, emitted, drain, mon, verdict, told>>

(* The failure path: finish(Unavailable) if the writer still can.           *)
SealUnavailable ==
  /\ cap = "fail"
  /\ \/ Finish("unavailable")
     \/ ~Writable /\ UNCHANGED logVars
     \/ Fault(TRUE) /\ UNCHANGED <<disk, w, lines, acked, readers>>
  /\ cap' = "stop"
  /\ UNCHANGED <<storeVars, child, pipe, emitted, drain, mon, verdict, told>>

(* Mutant of StopUnrecorded: the agent is left running.                     *)
KeepUnrecorded ==
  /\ cap = "stop" /\ w.pc = "idle"
  /\ cap' = "unavailable"
  /\ UNCHANGED <<logVars, storeVars, child, pipe, emitted, drain, mon, verdict, told>>

(* on_failure kills the child; it does not wait for the monitor.            *)
StopUnrecorded ==
  /\ cap = "stop" /\ w.pc = "idle"
  /\ cap' = "unavailable" /\ child' = "dead"
  /\ UNCHANGED <<logVars, storeVars, pipe, emitted, drain, mon, verdict, told>>

CaptureStep ==
  \/ Record \/ TakeLine \/ LineWritten \/ CaptureFails \/ OutputEnds \/ SealReturns
  \/ SealUnavailable \/ StopUnrecorded

---------------------------------------------------------------------------
(* The exit monitor.                                                        *)

SeeExit ==
  /\ mon = "watch" /\ child = "dead" /\ mon' = "drain"
  /\ UNCHANGED <<logVars, storeVars, child, pipe, emitted, cap, drain, verdict, told>>

(* Mutant of ExpireDrain: the monitor only waits.                           *)
NeverExpire ==
  /\ mon = "drain" /\ cap \notin Ended /\ mon' = "await"
  /\ UNCHANGED <<logVars, storeVars, child, pipe, emitted, cap, drain, verdict, told>>

(* RAW_CAPTURE_DRAIN_GRACE passes: cancel the drain, still await capture.   *)
ExpireDrain ==
  /\ mon = "drain" /\ cap \notin Ended
  /\ drain' = TRUE /\ mon' = "await"
  /\ UNCHANGED <<logVars, storeVars, child, pipe, emitted, cap, verdict, told>>

(* The capture has ended; a failed one makes the execution failed.          *)
PublishVerdict ==
  /\ mon \in {"drain", "await"} /\ cap \in Ended
  /\ verdict' \in IF cap = "unavailable" THEN {"failed"} ELSE {"completed", "failed"}
  /\ mon' = "finish"
  /\ UNCHANGED <<logVars, storeVars, child, pipe, emitted, cap, drain, told>>

(* The store leaves the map with a last message; its sender goes with it.   *)
FinishStore ==
  /\ mon = "finish" /\ mon' = "done"
  /\ Push(Finished) /\ dropped' = TRUE
  /\ UNCHANGED <<logVars, child, pipe, emitted, cap, drain, verdict, told>>

MonitorStep == SeeExit \/ ExpireDrain \/ PublishVerdict \/ FinishStore

UiStep ==
  \E s \in Subscribers :
    /\ SubscriberStep(s) \/ Subscribe(s, 0) \/ Subscribe(s, NextSequence)
    /\ UNCHANGED <<logVars, capVars>>

(* The server dies: writer, capture, monitor and mirror with it, but not    *)
(* the agent.                                                               *)
ServerDies ==
  /\ Crash /\ cap # "gone"
  /\ cap' = "gone" /\ mon' = "gone" /\ dropped' = TRUE
  /\ subs' = [s \in Subscribers |-> [subs[s] EXCEPT !.at = IF @ = "off" THEN "off" ELSE "end"]]
  /\ UNCHANGED <<history, pushed, version, child, pipe, emitted, drain, verdict, told>>

CaptureNext ==
  \/ Emit \/ ClosePipe \/ ChildExits
  \/ StartCapture \/ StartFails \/ Explain \/ CaptureStep \/ PipeFails
  \/ MonitorStep \/ UiStep \/ ServerDies

CaptureSpec == CaptureInit /\ [][CaptureNext]_captureVars

(* The tasks of the server go on while they can, and the grace is a timer.  *)
(* Agents, descendants, users and crashes owe nothing.                      *)
FairCapture ==
  /\ CaptureSpec
  /\ WF_captureVars(CaptureStep) /\ WF_captureVars(MonitorStep)
  /\ \A s \in Subscribers :
       WF_captureVars(SubscriberStep(s) /\ UNCHANGED <<logVars, capVars>>)

---------------------------------------------------------------------------
(* Properties.                                                              *)

(* A log sealed complete holds every line the agent wrote before its pipes  *)
(* were closed: no error, expiry or refusal is taken for the end of output. *)
(* An execution is reported completed only once its log is sealed complete  *)
(* on stable storage.                                                       *)
CompleteMeansEverything ==
  /\ Outcome(owner) = "complete" => ~pipe /\ acked = 1..emitted
  /\ verdict = "completed" => Outcome(Durable) = "complete"

(* Whatever the UI was shown of the output is durable, also after a crash.  *)
ShownIsDurable ==
  \A s \in Subscribers : \A i \in 1..Len(subs[s].got) :
    LET m == subs[s].got[i].msg
    IN  m \in 1..Lines => \E k \in 1..Len(BytesOf(Durable)) :
          SubSeq(BytesOf(Durable), k, k + LineBytes[m] - 1) = Bytes(m, LineBytes[m])

(* A subscriber gets every message once and in order from where it started, *)
(* or is told how many it missed.                                           *)
StreamsAccountForAll == \A s \in Subscribers : Position(s) = subs[s].next

(* A child that is gone is published, even when a descendant keeps its      *)
(* pipes open or the recording failed.                                      *)
ExitIsPublished == mon = "watch" /\ child = "dead" ~> verdict # None \/ mon = "gone"

(* No agent goes on under a server that cannot record it.                   *)
UnrecordedIsStopped == cap = "fail" ~> child = "dead" \/ cap = "gone"

(* Every stream catches up with the store and ends with it.                 *)
StreamsEnd ==
  \A s \in Subscribers :
    dropped /\ subs[s].at # "off" ~> subs[s].at = "end" /\ (mon = "gone" \/ subs[s].next = NextSequence)
===========================================================================
