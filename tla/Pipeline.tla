------------------------------ MODULE Pipeline ------------------------------
(***************************************************************************)
(* The background pipeline of one job (pipeline.py): the request threads   *)
(* of the pipeline endpoints, the worker threads of the executor, the      *)
(* startup recovery, and the two files they share.                         *)
(*                                                                         *)
(* pipeline-control.json is read and written under a lock.  pipeline.json  *)
(* is not: the worker keeps a copy for its whole run and writes all of it  *)
(* at every mark, and a request writes back the copy it loaded when it     *)
(* began.  Each read of a file, write of a file and use of the table of    *)
(* futures is a step of its own; requests, and in configurations with      *)
(* several workers the workers, interleave between them.                   *)
(***************************************************************************)
EXTENDS PipelineControl, PipelineReport, FiniteSets

CONSTANTS
  Workers,        \* bound: futures of the job, each with its executor thread,
                  \* that may exist at a time
  NoWorker,       \* no future is registered for the job
  Clients,        \* request threads of the API
  Requests,       \* the kinds of request the clients make
  Modes,          \* the provider modes they ask for
  ProviderStages, \* stages that call a model
  OcrStages,      \* stages that need an optional component
  Unneeded,       \* OCR when no page needs it
  ProviderOf,     \* the name a stage's calls are recorded under
  MaxCalls,       \* bound: outbound calls one run of a stage needs
  MaxAttempts,    \* MAX_ATTEMPTS of the provider clients
  MayExit         \* bound: whether the process may exit in this instance

RequestKinds == {"start", "retry", "approve", "mode", "cancel", "resume"}

ASSUME PipelineAssumption ==
  /\ NoWorker \notin Workers
  /\ Requests \subseteq RequestKinds
  /\ Modes \subseteq ProviderExecutionMode
  /\ ProviderStages \cup OcrStages \cup Unneeded \subseteq Stage \ {1}
  /\ Unneeded \subseteq OcrStages
  /\ ProviderStages \cap OcrStages = {}
  /\ ProviderOf \in [ProviderStages -> Providers]
  /\ MaxCalls \in Nat \ {0}
  /\ MaxAttempts \in Nat \ {0}
  /\ MayExit \in BOOLEAN

VARIABLES
  control,        \* pipeline-control.json
  report,         \* pipeline.json
  artifact,       \* stages whose output file is on disk and accepted for reuse
  worker,         \* executor threads
  future,         \* _FUTURES[job_id]
  client,         \* request threads
  phase,          \* "up", "down" or "recovering"
  late, granted, crossed, blind \* history, see ProviderBoundary

vars == <<control, report, artifact, worker, future, client, phase,
          late, granted, crossed, blind>>

-----------------------------------------------------------------------------
(* Threads.                                                                *)

\* Where a worker stands.  "queued": submitted, waiting for an executor thread;
\* "exiting": its last write is out, the future is not done; "ending": the future
\* is done, its callback has not run.
WorkerPlace ==
  {"none", "queued", "ingest", "checkpoint", "cancelling", "stage", "localwait",
   "working", "built", "ready", "begun", "slotwait", "cleared", "posting",
   "inflight", "backoff", "returned", "raised", "handling", "completing",
   "exiting", "ending"}

\* How a stage ended: still fine, or the exception that ends the run.
Outcome == {"ok", "paused", "cancelled", "component", "configuration", "failed"}

WorkerState ==
  [at : WorkerPlace, copy : Report \cup {NoReport}, stage : 1..Finished,
   calls : 0..MaxCalls, attempt : 0..MaxAttempts, outcome : Outcome]

NoThread ==
  [at |-> "none", copy |-> NoReport, stage |-> 1, calls |-> 0, attempt |-> 0,
   outcome |-> "ok"]

Active(w) == worker[w].at \notin {"none", "ending"}

\* Mutant of ActiveFuture: the table of futures is not consulted.
NeverActive == FALSE

\* _active_future(job_id) is not None.
ActiveFuture == future # NoWorker /\ Active(future)

ClientPlace ==
  {"idle", "load", "check", "ensure", "persist", "submit", "approve_control",
   "mode_control", "cancel_control", "cancel_future", "cancel_persist",
   "resume_future", "resume_control", "resume_persist"}

ClientState ==
  [at : ClientPlace, kind : RequestKinds, mode : ProviderExecutionMode,
   copy : Report \cup {NoReport}, found : BOOLEAN]

NoRequest ==
  [at |-> "idle", kind |-> "start", mode |-> "AUTO_CONTINUE", copy |-> NoReport,
   found |-> FALSE]

\* The provider boundary this pipeline crosses, seen through its workers.
BoundaryPlace(w) ==
  CASE worker[w].at \in {"begun", "slotwait"} -> "begun"
    [] worker[w].at \in {"cleared", "posting"} -> "cleared"
    [] worker[w].at \in {"ready", "inflight", "backoff", "returned"} -> worker[w].at
    [] OTHER -> "idle"

BoundaryCaller ==
  [w \in Workers |->
     IF BoundaryPlace(w) \in {"idle", "ready"}
     THEN [at |-> BoundaryPlace(w), provider |-> NoProvider, attempt |-> 0]
     ELSE [at |-> BoundaryPlace(w), provider |-> ProviderOf[worker[w].stage],
           attempt |-> worker[w].attempt]]

Boundary == INSTANCE ProviderBoundary WITH
  Callers <- Workers, SlotCallers <- Workers,
  caller <- BoundaryCaller, up <- (phase # "down"), reported <- (report # NoReport)

TypeOK ==
  /\ control \in Control \cup {NoControl}
  /\ report \in Report \cup {NoReport}
  /\ artifact \subseteq Stage
  /\ worker \in [Workers -> WorkerState]
  /\ future \in Workers \cup {NoWorker}
  /\ client \in [Clients -> ClientState]
  /\ phase \in {"up", "down", "recovering"}
  /\ late \in [Workers -> Nat] /\ granted \in BOOLEAN
  /\ crossed \in SUBSET Workers /\ blind \in BOOLEAN

Init ==
  /\ control = NoControl /\ report = NoReport
  /\ artifact = {1}
  /\ worker = [w \in Workers |-> NoThread]
  /\ future = NoWorker
  /\ client = [c \in Clients |-> NoRequest]
  /\ phase = "up"
  /\ late = [w \in Workers |-> 0] /\ granted = FALSE
  /\ crossed = {} /\ blind = FALSE

-----------------------------------------------------------------------------
(* Steps of a worker.                                                      *)

\* What a step leaves alone, besides the history of requests posted.
OnlyWorkers == UNCHANGED <<control, report, artifact, future, client, phase>> /\ Boundary!Observe({})
WorkersAndReport == UNCHANGED <<control, artifact, future, client, phase>> /\ Boundary!Observe({})
OnlyClients == UNCHANGED <<control, report, artifact, worker, future, phase>> /\ Boundary!Observe({})

\* The worker w moves to `place` with the given copy and writes it to the file.
Persist(w, place, copy) ==
  /\ worker' = [worker EXCEPT ![w].at = place, ![w].copy = copy]
  /\ report' = copy
  /\ WorkersAndReport

Goto(w, place) ==
  /\ worker' = [worker EXCEPT ![w].at = place]
  /\ OnlyWorkers

\* An exception leaves the stage.
Raise(w, outcome) ==
  /\ worker' = [worker EXCEPT ![w] =
                  [NoThread EXCEPT !.at = "raised", !.stage = worker[w].stage,
                                   !.outcome = outcome]]
  /\ OnlyWorkers

At(w, place) == phase = "up" /\ worker[w].at = place

\* An executor thread takes the job up and loads the report.
Load(w) ==
  /\ At(w, "queued")
  /\ worker' = [worker EXCEPT ![w].at = "ingest", ![w].copy = report]
  /\ OnlyWorkers

Ingest(w) ==
  /\ At(w, "ingest")
  /\ worker' = [worker EXCEPT ![w].at = "checkpoint", ![w].stage = 2,
                              ![w].copy = MarkIngested(worker[w].copy)]
  /\ report' = IF IsDone(worker[w].copy, 1) THEN report ELSE MarkIngested(worker[w].copy)
  /\ WorkersAndReport

\* Before every stage, and before the pipeline is declared complete.
Checkpoint(w) ==
  /\ At(w, "checkpoint")
  /\ Goto(w, IF ~NotCancelled(control) THEN "cancelling"
             ELSE IF worker[w].stage = Finished THEN "completing"
             ELSE "stage")

\* The last write of a run; its locals go with it.
LastWrite(w, copy) ==
  /\ worker' = [worker EXCEPT ![w] = [NoThread EXCEPT !.at = "exiting"]]
  /\ report' = copy
  /\ WorkersAndReport

Cancelling(w) == At(w, "cancelling") /\ LastWrite(w, MarkCancelled(worker[w].copy))

Complete(w) == At(w, "completing") /\ LastWrite(w, MarkComplete(worker[w].copy))

\* The stage is recorded as done and the loop moves on to the next one.
StageDone(w, how) ==
  LET s == worker[w].stage
      copy == MarkDone(worker[w].copy, s, how)
  IN  /\ worker' = [worker EXCEPT ![w].at = "checkpoint", ![w].copy = copy,
                                  ![w].stage = s + 1, ![w].attempt = 0]
      /\ report' = copy
      /\ WorkersAndReport

\* Nothing to do, or the output of an earlier run is accepted.
SkipStage(w) == At(w, "stage") /\ worker[w].stage \in Unneeded /\ StageDone(w, "SKIPPED")

ReuseStage(w) ==
  /\ At(w, "stage")
  /\ worker[w].stage \in artifact \ Unneeded
  /\ StageDone(w, "COMPLETE")

\* Mutant of MustRun: an accepted output does not keep the stage from running.
MustRunAgain(w) == At(w, "stage") /\ worker[w].stage \notin Unneeded

MustRun(w) == At(w, "stage") /\ worker[w].stage \notin artifact \cup Unneeded
MustRunLocally(w) == MustRun(w) /\ worker[w].stage \notin ProviderStages
MustCallProvider(w) == MustRun(w) /\ worker[w].stage \in ProviderStages

\* A local stage takes its slot at once, or records that it waits for one.
WaitLocal(w) ==
  /\ MustRunLocally(w)
  /\ Persist(w, "localwait", MarkWaitingWorker(worker[w].copy, worker[w].stage))

RunLocal(w) ==
  /\ At(w, "localwait") \/ MustRunLocally(w)
  /\ Persist(w, "working", MarkRunning(worker[w].copy, worker[w].stage))

\* The stage's function writes its output file.
Build(w) ==
  /\ \/ At(w, "working")
     \/ At(w, "ready") /\ worker[w].outcome = "ok" /\ worker[w].calls = 0
  /\ artifact' = artifact \cup {worker[w].stage}
  /\ worker' = [worker EXCEPT ![w].at = "built"]
  /\ UNCHANGED <<control, report, future, client, phase>> /\ Boundary!Observe({})

\* Mutant of FinishStage: the mark may come before the output file.
FinishStageEarly(w) == (At(w, "working") \/ At(w, "built")) /\ StageDone(w, "COMPLETE")

FinishStage(w) == At(w, "built") /\ StageDone(w, "COMPLETE")

\* The stage's function raises: what it reads is stale or malformed, what it
\* built or was answered does not validate, a bound is exceeded, or the optional
\* component is not installed.
StageFails(w) ==
  \/ At(w, "working") /\ Raise(w, "failed")
  \/ At(w, "working") /\ worker[w].stage \in OcrStages /\ Raise(w, "component")
  \/ At(w, "ready") /\ worker[w].outcome = "ok" /\ Raise(w, "failed")

\* Before anything is marked: the document's evidence or the credential store
\* cannot be read, or a reuse check raises what it does not expect.
FailsEarly(w) == At(w, "stage") /\ Raise(w, "failed")

\* A provider stage without credentials stops before it is marked running.
NotConfigured(w) ==
  /\ MustCallProvider(w)
  /\ Raise(w, "configuration")

\* Otherwise it builds its contexts; `calls` of them need a model.
RunProvider(w) ==
  /\ MustCallProvider(w)
  /\ \E calls \in 0..MaxCalls :
       LET copy == MarkRunning(worker[w].copy, worker[w].stage)
       IN  /\ worker' = [worker EXCEPT ![w].at = "ready", ![w].copy = copy,
                                       ![w].calls = calls]
           /\ report' = copy
  /\ WorkersAndReport

\* begin_provider_call crosses the boundary or raises.
Begin(w) ==
  /\ At(w, "ready") /\ worker[w].outcome = "ok" /\ worker[w].calls > 0
  /\ ProviderAllowed(control)
  /\ control' = BeginProviderCall(control, ProviderOf[worker[w].stage])
  /\ worker' = [worker EXCEPT ![w].at = "begun", ![w].attempt = 0]
  /\ UNCHANGED <<report, artifact, future, client, phase>> /\ Boundary!Observe({})

Refusal == IF ~NotCancelled(control) THEN "cancelled" ELSE "paused"

BeginRefused(w) ==
  /\ At(w, "ready") /\ worker[w].outcome = "ok" /\ worker[w].calls > 0
  /\ ~ProviderAllowed(control)
  /\ Raise(w, Refusal)

\* _provider_slot_call: the slot is free, or the wait is recorded first.
WaitSlot(w) ==
  /\ At(w, "begun")
  /\ Persist(w, "slotwait", MarkWaitingWorker(worker[w].copy, worker[w].stage))

\* Mutant of Recheck: the slot is enough.
RecheckNothing(w) ==
  /\ At(w, "begun") \/ At(w, "slotwait")
  /\ Goto(w, "cleared")

\* With the slot, the control is read again before the request is sent.
Recheck(w) ==
  /\ At(w, "begun") \/ At(w, "slotwait")
  /\ worker' = IF ProviderAllowed(control)
               THEN [worker EXCEPT ![w].at = "cleared"]
               ELSE [worker EXCEPT ![w].at = "returned", ![w].outcome = Refusal]
  /\ OnlyWorkers

MarkCalling(w) ==
  /\ At(w, "cleared")
  /\ Persist(w, "posting", MarkRunning(worker[w].copy, worker[w].stage))

\* Mutant of Post: attempts are not counted.
PostUncounted(w) ==
  /\ At(w, "posting") \/ At(w, "backoff")
  /\ worker' = [worker EXCEPT ![w].at = "inflight", ![w].attempt = 1]
  /\ UNCHANGED <<control, report, artifact, future, client, phase>> /\ Boundary!Observe({w})

Post(w) ==
  /\ At(w, "posting") \/ At(w, "backoff")
  /\ worker' = [worker EXCEPT ![w].at = "inflight", ![w].attempt = @ + 1]
  /\ UNCHANGED <<control, report, artifact, future, client, phase>> /\ Boundary!Observe({w})

TransientFailure(w) ==
  At(w, "inflight") /\ worker[w].attempt < MaxAttempts /\ Goto(w, "backoff")

\* An accepted answer, or a failure the client gives up on.
Return(w) ==
  /\ At(w, "inflight")
  /\ \E outcome \in {"ok", "failed"} :
       worker' = [worker EXCEPT ![w].at = "returned", ![w].outcome = outcome]
  /\ OnlyWorkers

\* finish_provider_call; an answered issue is checkpointed.
Finish(w) ==
  /\ At(w, "returned")
  /\ control' = FinishProviderCall(control, ProviderOf[worker[w].stage])
  /\ worker' = [worker EXCEPT ![w].at = "ready", ![w].attempt = 0,
                   ![w].calls = IF worker[w].outcome = "ok" THEN @ - 1 ELSE @]
  /\ UNCHANGED <<report, artifact, future, client, phase>> /\ Boundary!Observe({})

\* The exception of the call, raised again once the call is finished.
CallFails(w) ==
  /\ At(w, "ready") /\ worker[w].outcome # "ok"
  /\ Raise(w, worker[w].outcome)

\* The handlers of _run_pipeline start from the file, not from the copy.  Those
\* for a pause and a failure mark its current stage; the record of a COMPLETE
\* pipeline names none, and then they raise and write nothing.
HandlerLoads(w) ==
  /\ At(w, "raised")
  /\ worker' = [worker EXCEPT ![w].at = "handling", ![w].copy = report]
  /\ OnlyWorkers

Handled(w) ==
  LET copy == worker[w].copy
  IN  CASE worker[w].outcome = "paused" ->
             MarkWaiting(copy, copy.current_stage, "PAUSED_BEFORE_PROVIDER")
        [] worker[w].outcome = "cancelled" -> MarkCancelled(copy)
        [] worker[w].outcome = "component" ->
             MarkWaiting(copy, worker[w].stage, "WAITING_OPTIONAL_COMPONENT")
        [] worker[w].outcome = "configuration" ->
             MarkWaiting(copy, worker[w].stage, "WAITING_CONFIGURATION")
        [] OTHER -> MarkFailed(copy, copy.current_stage)

FindsNoStage(w) ==
  worker[w].outcome \in {"paused", "failed"} /\ worker[w].copy.current_stage \notin Stage

Handle(w) ==
  /\ At(w, "handling") /\ worker[w].outcome # "ok"
  /\ \/ ~FindsNoStage(w) /\ LastWrite(w, Handled(w))
     \/ /\ FindsNoStage(w)
        /\ worker' = [worker EXCEPT ![w] = [NoThread EXCEPT !.at = "exiting"]]
        /\ OnlyWorkers

\* The function returns, the future is done; then its callback forgets it,
\* unless another run has been registered meanwhile.
FutureDone(w) == At(w, "exiting") /\ Goto(w, "ending")

\* Mutant of Forget: whatever run is registered, its entry goes.
ForgetAny(w) ==
  /\ At(w, "ending")
  /\ worker' = [worker EXCEPT ![w] = NoThread] /\ future' = NoWorker
  /\ UNCHANGED <<control, report, artifact, client, phase>> /\ Boundary!Observe({})

Forget(w) ==
  /\ At(w, "ending")
  /\ worker' = [worker EXCEPT ![w] = NoThread]
  /\ future' = IF future = w THEN NoWorker ELSE future
  /\ UNCHANGED <<control, report, artifact, client, phase>> /\ Boundary!Observe({})

LocalStage(w) == WaitLocal(w) \/ RunLocal(w)

ProviderStage(w) ==
  \/ NotConfigured(w) \/ RunProvider(w) \/ Begin(w) \/ BeginRefused(w) \/ WaitSlot(w)
  \/ Recheck(w) \/ MarkCalling(w) \/ Post(w) \/ TransientFailure(w) \/ Return(w)
  \/ Finish(w) \/ CallFails(w)

Work(w) ==
  \/ Load(w) \/ Ingest(w) \/ Checkpoint(w) \/ Cancelling(w) \/ Complete(w)
  \/ SkipStage(w) \/ ReuseStage(w) \/ FailsEarly(w) \/ LocalStage(w) \/ ProviderStage(w)
  \/ Build(w) \/ StageFails(w) \/ FinishStage(w) \/ HandlerLoads(w) \/ Handle(w)
  \/ FutureDone(w) \/ Forget(w)

-----------------------------------------------------------------------------
(* Steps of a request.                                                     *)

Ask(c, place) == phase = "up" /\ client[c].at = place

\* The request answers, with an error or with the report it loads again.
Respond(c) ==
  /\ client' = [client EXCEPT ![c] = NoRequest]
  /\ OnlyClients

Proceed(c, place) ==
  /\ client' = [client EXCEPT ![c].at = place]
  /\ OnlyClients

\* A control operation under the lock, then on to `place`.
Apply(c, file, place) ==
  /\ control' = file
  /\ client' = [client EXCEPT ![c] = IF place = "idle" THEN NoRequest
                                     ELSE [@ EXCEPT !.at = place]]
  /\ UNCHANGED <<report, artifact, worker, future, phase>> /\ Boundary!Observe({})

\* The request writes its copy back over the file.
Overwrite(c, copy, place) ==
  /\ report' = copy
  /\ client' = [client EXCEPT ![c] = IF place = "idle" THEN NoRequest
                                     ELSE [@ EXCEPT !.at = place, !.copy = NoReport]]
  /\ UNCHANGED <<control, artifact, worker, future, phase>> /\ Boundary!Observe({})

\* A user sends a request; its first step loads the report.
Issue(c) ==
  /\ Ask(c, "idle")
  /\ \E kind \in Requests :
     \E mode \in IF kind \in {"start", "mode"} THEN Modes ELSE {"AUTO_CONTINUE"} :
       /\ client' = [client EXCEPT ![c] =
                       [NoRequest EXCEPT !.at = "load", !.kind = kind, !.mode = mode]]
  /\ OnlyClients

\* Where a request goes from the report it loaded; "idle" is an early return or
\* an error.
AfterLoad(kind) ==
  IF report = NoReport THEN IF kind = "start" THEN "ensure" ELSE "idle"
  ELSE CASE kind = "start" ->
              IF report.status \in {"COMPLETE", "CANCELLED"} THEN "idle" ELSE "check"
         [] kind = "retry" ->
              IF report.status \in {"COMPLETE", "CANCELLED", "CANCEL_REQUESTED"}
              THEN "idle" ELSE "load"
         [] kind = "approve" ->
              IF report.status \in {"COMPLETE", "CANCELLED", "CANCEL_REQUESTED"}
              THEN "idle" ELSE "approve_control"
         [] kind = "mode" -> "mode_control"
         [] kind = "cancel" ->
              IF report.status \in {"COMPLETE", "CANCELLED"} THEN "idle" ELSE "cancel_control"
         [] kind = "resume" ->
              IF report.status \in {"CANCELLED", "CANCEL_REQUESTED"}
              THEN "resume_future" ELSE "idle"

\* Retry, approve, mode and resume end by calling start_pipeline, which loads the
\* report again: from there on they are start requests.
LoadReport(c) ==
  /\ Ask(c, "load")
  /\ LET next == AfterLoad(client[c].kind)
         kind == IF client[c].kind = "retry" THEN "start" ELSE client[c].kind
     IN  client' = [client EXCEPT ![c] =
           IF next = "idle" THEN NoRequest
           ELSE [@ EXCEPT !.at = next, !.copy = report, !.kind = kind]]
  /\ OnlyClients

ApproveControl(c) ==
  /\ Ask(c, "approve_control")
  /\ control' = ApproveProviderPhase(control)
  /\ client' = [client EXCEPT ![c] = [NoRequest EXCEPT !.at = "load",
                                                      !.mode = "REQUIRE_APPROVAL"]]
  /\ UNCHANGED <<report, artifact, worker, future, phase>> /\ Boundary!Observe({})

\* pause_before_provider is the mode REQUIRE_APPROVAL.  Only AUTO_CONTINUE on a
\* report that was loaded as paused starts the pipeline.
ModeControl(c) ==
  /\ Ask(c, "mode_control")
  /\ control' = SetProviderMode(control, client[c].mode)
  /\ client' = [client EXCEPT ![c] =
       IF client[c].mode = "AUTO_CONTINUE" /\ client[c].copy.status = "PAUSED_BEFORE_PROVIDER"
       THEN [NoRequest EXCEPT !.at = "load"] ELSE NoRequest]
  /\ UNCHANGED <<report, artifact, worker, future, phase>> /\ Boundary!Observe({})

CancelControl(c) ==
  Ask(c, "cancel_control") /\ Apply(c, RequestPipelineCancel(control), "cancel_future")

\* Mutant of CancelFuture: the table of futures is not consulted.
CancelUnasked(c) ==
  /\ Ask(c, "cancel_future")
  /\ client' = [client EXCEPT ![c].at = "cancel_persist", ![c].found = FALSE]
  /\ OnlyClients

CancelFuture(c) ==
  /\ Ask(c, "cancel_future")
  /\ client' = [client EXCEPT ![c].at = "cancel_persist", ![c].found = ActiveFuture]
  /\ OnlyClients

CancelPersist(c) ==
  /\ Ask(c, "cancel_persist")
  /\ Overwrite(c, IF client[c].found THEN MarkCancelRequested(client[c].copy)
                  ELSE MarkCancelled(client[c].copy), "idle")

ResumeFuture(c) ==
  /\ Ask(c, "resume_future")
  /\ IF ActiveFuture THEN Respond(c) ELSE Proceed(c, "resume_control")

ResumeControl(c) ==
  Ask(c, "resume_control") /\ Apply(c, ClearPipelineCancel(control), "resume_persist")

ResumePersist(c) ==
  /\ Ask(c, "resume_persist")
  /\ report' = ResetCancelled(client[c].copy)
  /\ client' = [client EXCEPT ![c] = [NoRequest EXCEPT !.at = "load"]]
  /\ UNCHANGED <<control, artifact, worker, future, phase>> /\ Boundary!Observe({})

\* start_pipeline: an active run is left alone, ...
StartCheck(c) ==
  /\ Ask(c, "check")
  /\ IF ActiveFuture THEN Respond(c) ELSE Proceed(c, "ensure")

StartEnsure(c) ==
  /\ Ask(c, "ensure")
  /\ Apply(c, EnsurePipelineControl(control, client[c].mode), "persist")

\* ... otherwise the report is queued, before the table of futures is locked, ...
StartPersist(c) ==
  /\ Ask(c, "persist")
  /\ Overwrite(c, IF client[c].copy = NoReport THEN InitialReport
                  ELSE ResetForStart(client[c].copy), "submit")

Submit(c) ==
  /\ \E w \in Workers :
       /\ worker[w].at = "none"
       /\ worker' = [worker EXCEPT ![w].at = "queued"]
       /\ future' = w
  /\ client' = [client EXCEPT ![c] = NoRequest]
  /\ UNCHANGED <<control, report, artifact, phase>> /\ Boundary!Observe({})

\* Mutant of StartSubmit: the first look at the table of futures is trusted.
SubmitUnlocked(c) == Ask(c, "submit") /\ Submit(c)

\* Mutant of StartSubmit: an entry counts until it is forgotten, not until it is done.
SubmitIfForgotten(c) ==
  /\ Ask(c, "submit")
  /\ \/ future # NoWorker /\ Respond(c)
     \/ future = NoWorker /\ Submit(c)

\* ... and submitted unless another request has been faster.
StartSubmit(c) ==
  /\ Ask(c, "submit")
  /\ \/ ActiveFuture /\ Respond(c)
     \/ ~ActiveFuture /\ Submit(c)

Serve(c) ==
  \/ LoadReport(c) \/ ApproveControl(c) \/ ModeControl(c)
  \/ CancelControl(c) \/ CancelFuture(c) \/ CancelPersist(c)
  \/ ResumeFuture(c) \/ ResumeControl(c) \/ ResumePersist(c)
  \/ StartCheck(c) \/ StartEnsure(c) \/ StartPersist(c) \/ StartSubmit(c)

-----------------------------------------------------------------------------
(* The process exits at any point; the release launcher reconciles the     *)
(* files before it serves requests again.                                  *)

Exit ==
  /\ MayExit /\ phase # "down" /\ phase' = "down"
  /\ worker' = [w \in Workers |-> NoThread]
  /\ future' = NoWorker
  /\ client' = [c \in Clients |-> NoRequest]
  /\ UNCHANGED <<control, report, artifact>> /\ Boundary!Observe({})

RecoverControl ==
  /\ phase = "down" /\ phase' = "recovering"
  /\ control' = IF report = NoReport THEN control ELSE ClearStaleProviderActivity(control)
  /\ UNCHANGED <<report, artifact, worker, future, client>> /\ Boundary!Observe({})

RecoverReport ==
  /\ phase = "recovering" /\ phase' = "up"
  /\ report' = IF report = NoReport THEN report
               ELSE Reconciled(report, ~NotCancelled(control))
  /\ UNCHANGED <<control, artifact, worker, future, client>> /\ Boundary!Observe({})

-----------------------------------------------------------------------------
Next ==
  \/ \E w \in Workers : Work(w)
  \/ \E c \in Clients : Issue(c) \/ Serve(c)
  \/ Exit \/ RecoverControl \/ RecoverReport

Spec == Init /\ [][Next]_vars

\* Threads that can run do run, HTTP calls time out, slots are handed on, and
\* the user starts the application again; no request has to be sent.
Fairness ==
  /\ \A w \in Workers : WF_vars(Work(w))
  /\ \A c \in Clients : WF_vars(Serve(c))
  /\ WF_vars(RecoverControl) /\ WF_vars(RecoverReport)

FairSpec == Spec /\ Fairness

-----------------------------------------------------------------------------
(* Properties.                                                             *)

Settled ==
  {"COMPLETE", "CANCELLED", "FAILED", "WAITING_CONFIGURATION", "WAITING_OPTIONAL_COMPONENT",
   "PAUSED_BEFORE_PROVIDER"}

ReportIs(statuses) == report # NoReport /\ report.status \in statuses

\* The job is never run by two executor threads at a time: the check under the
\* futures lock, the test of `done` and the identity test of the callback.
OneRunPerJob == \A v, w \in Workers : Active(v) /\ Active(w) => v = w

\* A run is registered as long as it lasts: no later run's callback, and no
\* earlier one's, takes its entry away.
ActiveRunIsRegistered == \A w \in Workers : Active(w) => future = w

\* pipeline.json says RUNNING or WAITING_WORKER only while a thread works on the
\* job: every way a run ends rewrites the file, no request writes these two, and
\* startup recovery settles what an exit leaves behind.
RunningHasWorker ==
  phase = "up" /\ ReportIs({"RUNNING", "WAITING_WORKER"})
    => \E w \in Workers : Active(w)

\* A page that has been shown a settled pipeline stops asking.  Until the next
\* restart it may: with one request at a time, no worker that is still about writes
\* over a settled report, only a request does.
SettledReportIsLeftAlone ==
  [][phase = "up" /\ ReportIs(Settled) /\ report' # report
       => \E c \in Clients : client'[c] # client[c]]_report

\* Whatever stale copies are written back, a stage that the file, a worker or a
\* request believes done has its output on disk, and COMPLETE claims it of all.
DoneIsBacked(copy) ==
  copy # NoReport =>
    /\ \A s \in Stage : IsDone(copy, s) => s \in artifact \cup Unneeded
    /\ copy.status = "COMPLETE" => AllDone(copy)

DoneStagesAreBacked ==
  /\ DoneIsBacked(report)
  /\ \A w \in Workers : DoneIsBacked(worker[w].copy)
  /\ \A c \in Clients : DoneIsBacked(client[c].copy)

\* A stage whose output is on disk is never sent to a model again.
FinishedStageIsNotPaidAgain ==
  \A w \in Workers :
    worker[w].at \in {"begun", "cleared", "posting", "inflight"}
      => worker[w].stage \notin artifact

\* The call a worker has on the wire is the one the control file records, so a
\* cancel request can say whether something is in flight.
CallIsRecorded ==
  \A w \in Workers :
    worker[w].at \in {"begun", "slotwait", "cleared", "posting", "inflight", "backoff", "returned"}
      => control.active_provider = ProviderOf[worker[w].stage]

\* The pipeline crosses the provider boundary only as ProviderBoundary lets it.
CrossesBoundary == Boundary!Spec

\* Every submitted run ends: no stage is taken up for ever, an HTTP request is
\* repeated a bounded number of times, every exception ends the loop.
RunsEnd == \A w \in Workers : Active(w) ~> ~Active(w)

\* "Queue the application-owned audit pipeline": a queued job gets its turn.
QueuedRuns == ReportIs({"QUEUED"}) ~> ~ReportIs({"QUEUED"})
=============================================================================
