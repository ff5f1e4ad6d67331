--------------------------- MODULE PipelineReport ---------------------------
(***************************************************************************)
(* The progress record of one job, runtime/jobs/<id>/pipeline.json, and    *)
(* what the `_mark_*` helpers of pipeline.py and the startup recovery do   *)
(* to a copy of it.  Each helper ends by writing its whole copy over the   *)
(* file; who holds which copy is the business of module Pipeline.          *)
(*                                                                         *)
(* The stages of the pipeline are 1..LastStage in the order of             *)
(* _STAGE_SPECS, 1 being INGEST; Finished stands for PipelineStage         *)
(* COMPLETE, the current stage of a finished pipeline.  Labels, progress   *)
(* percentages, failure texts and timestamps are left out.                 *)
(***************************************************************************)
EXTENDS Naturals

CONSTANTS
  LastStage,      \* number of stages
  NoReport        \* pipeline.json does not exist

ASSUME StageAssumption == LastStage \in Nat \ {0}

Stage    == 1..LastStage
Finished == LastStage + 1

StageState == {"PENDING", "RUNNING", "COMPLETE", "SKIPPED", "WAITING", "CANCELLED", "FAILED"}

PipelineStatus ==
  {"QUEUED", "WAITING_WORKER", "RUNNING", "WAITING_CONFIGURATION",
   "WAITING_OPTIONAL_COMPONENT", "PAUSED_BEFORE_PROVIDER", "CANCEL_REQUESTED",
   "CANCELLED", "FAILED", "COMPLETE"}

Report ==
  [status        : PipelineStatus,
   current_stage : 1..Finished,
   state         : [Stage -> StageState]]

ASSUME ReportAssumption == NoReport \notin Report

IsDone(report, s) == report.state[s] \in {"COMPLETE", "SKIPPED"}
AllDone(report) == \A s \in Stage : IsDone(report, s)

\* What a fresh `start_pipeline` writes.
InitialReport ==
  [status |-> "QUEUED", current_stage |-> 1, state |-> [s \in Stage |-> "PENDING"]]

-----------------------------------------------------------------------------
(* The marks of the worker.                                                *)

MarkRunning(report, s) ==
  [report EXCEPT !.state[s] = "RUNNING", !.status = "RUNNING", !.current_stage = s]

\* Leaves the status of the pipeline alone.
MarkDone(report, s, how) ==
  [report EXCEPT !.state[s] = how, !.current_stage = s]

MarkWaitingWorker(report, s) ==
  [report EXCEPT !.state[s] = "WAITING", !.status = "WAITING_WORKER", !.current_stage = s]

MarkStopped(report, s, state, status) ==
  [report EXCEPT !.state[s] = state, !.status = status, !.current_stage = s]

MarkWaiting(report, s, status) == MarkStopped(report, s, "WAITING", status)
MarkFailed(report, s) == MarkStopped(report, s, "FAILED", "FAILED")

MarkIngested(report) ==
  IF IsDone(report, 1) THEN report
  ELSE [report EXCEPT !.state[1] = "COMPLETE", !.status = "RUNNING"]

MarkComplete(report) ==
  [report EXCEPT !.status = "COMPLETE", !.current_stage = Finished]

MarkCancelRequested(report) == [report EXCEPT !.status = "CANCEL_REQUESTED"]

\* The first stage in the given states.
FirstIn(report, states) ==
  CHOOSE s \in Stage :
    /\ report.state[s] \in states
    /\ \A t \in Stage : report.state[t] \in states => s <= t

MarkCancelled(report) ==
  IF AllDone(report) THEN [report EXCEPT !.status = "CANCELLED"]
  ELSE LET next == FirstIn(report, StageState \ {"COMPLETE", "SKIPPED"})
       IN  [report EXCEPT !.state[next] = "CANCELLED",
                          !.current_stage = next,
                          !.status = "CANCELLED"]

-----------------------------------------------------------------------------
(* What the requests write.                                                *)

\* start_pipeline on an existing report: interrupted stages are pending again,
\* finished and cancelled ones stay as they are.
ResetForStart(report) ==
  LET state == [s \in Stage |->
                  IF report.state[s] \in {"RUNNING", "WAITING", "FAILED"}
                  THEN "PENDING" ELSE report.state[s]]
      reset == [report EXCEPT !.status = "QUEUED", !.state = state]
  IN  IF \A s \in Stage : state[s] # "PENDING" THEN reset
      ELSE [reset EXCEPT !.current_stage = FirstIn(reset, {"PENDING"})]

\* resume_cancelled_pipeline, before it starts the pipeline again.
ResetCancelled(report) ==
  [report EXCEPT
     !.status = "FAILED",
     !.state  = [s \in Stage |->
                   IF report.state[s] = "CANCELLED" THEN "PENDING" ELSE report.state[s]]]

-----------------------------------------------------------------------------
(* Startup recovery (pipeline_recovery.py).                                *)

\* Mutant of Transient: an interrupted RUNNING report is kept.
TransientQueued == {"QUEUED", "WAITING_WORKER"}

Transient == {"QUEUED", "WAITING_WORKER", "RUNNING"}

\* The current stage, if it was under way, takes the given state.
StopCurrent(report, state, status) ==
  IF /\ report.current_stage \in Stage
     /\ report.state[report.current_stage] \in {"RUNNING", "WAITING", "PENDING"}
  THEN [report EXCEPT !.status = status, !.state[report.current_stage] = state]
  ELSE [report EXCEPT !.status = status]

\* Cancel wins over interruption; settled reports are kept.
Reconciled(report, cancelRequested) ==
  IF report.status = "CANCEL_REQUESTED" \/ cancelRequested
  THEN StopCurrent(report, "CANCELLED", "CANCELLED")
  ELSE IF report.status \in Transient
  THEN StopCurrent(report, "FAILED", "FAILED")
  ELSE report
=============================================================================
