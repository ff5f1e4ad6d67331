-------------------------- MODULE ProviderBoundary --------------------------
(***************************************************************************)
(* The outbound boundary of one job: every thread that may send contract   *)
(* evidence to a model (the background pipeline worker, and the request    *)
(* threads of the stand-alone audit endpoints) against the user's control  *)
(* operations on pipeline-control.json, and a process exit at any point.   *)
(*                                                                         *)
(* A call is begun under the job's lock (begin_provider_call), then, on    *)
(* the pipeline's thread only, waits for an external slot and checks the   *)
(* control again, then posts the HTTP request up to MAX_ATTEMPTS times,    *)
(* and is finished under the lock.  Only begin and the second check look   *)
(* at the control: the posts do not.                                       *)
(***************************************************************************)
EXTENDS PipelineControl, Naturals

CONSTANTS
  Callers,        \* threads that run a provider-backed stage of the job
  SlotCallers,    \* those among them that are the pipeline's own worker
  MaxAttempts     \* MAX_ATTEMPTS of the provider clients

ASSUME BoundaryAssumption ==
  /\ SlotCallers \subseteq Callers
  /\ MaxAttempts \in Nat \ {0}

VARIABLES
  control,        \* pipeline-control.json
  caller,         \* where each thread stands
  up,             \* the application is running
  reported,       \* the job has a readable pipeline.json
  late,           \* requests each thread posted since the control last allowed one
  granted,        \* the file has allowed a call at some time
  crossed,        \* threads whose call was under way beside another one
  blind           \* started without a pipeline.json, and no call begun since

vars == <<control, caller, up, reported, late, granted, crossed, blind>>

\* idle: not in a provider-backed stage;  ready: the control file is ensured;
\* begun: recorded in the control;  cleared: passed the second check;
\* inflight: an HTTP request is out;  backoff: sleeping before the next
\* attempt;  returned: the call is over, not yet finished.
Place == {"idle", "ready", "begun", "cleared", "inflight", "backoff", "returned"}

CallerState ==
  [at : Place, provider : Providers \cup {NoProvider}, attempt : 0..MaxAttempts]

Idle == [at |-> "idle", provider |-> NoProvider, attempt |-> 0]

TypeOK ==
  /\ control \in Control \cup {NoControl}
  /\ caller \in [Callers -> CallerState]
  /\ up \in BOOLEAN /\ reported \in BOOLEAN
  /\ late \in [Callers -> Nat]
  /\ granted \in BOOLEAN
  /\ crossed \in SUBSET Callers
  /\ blind \in BOOLEAN

\* The persisted file, and not the fallback of a missing one, allows a call.
FileAllows(file) == file # NoControl /\ ProviderAllowed(file)

\* The thread is in a call: from its begin to its finish.
Outbound(c) == caller[c].at \in {"begun", "cleared", "inflight", "backoff", "returned"}

\* History: `posting` are the threads that post a request in this step.
Observe(posting) ==
  /\ granted' = (granted \/ FileAllows(control'))
  /\ late' = [c \in Callers |->
                IF FileAllows(control') THEN 0
                ELSE IF c \in posting THEN late[c] + 1 ELSE late[c]]
  /\ crossed' = {c \in Callers :
                   /\ Outbound(c)'
                   /\ c \in crossed \/ \E d \in Callers \ {c} : Outbound(d)'}
  /\ blind' = IF ~up /\ up' THEN ~reported
              ELSE blind /\ \A c \in Callers : Outbound(c)' => Outbound(c)

Move(c, place) == caller' = [caller EXCEPT ![c].at = place]

Init ==
  /\ control = NoControl
  /\ caller = [c \in Callers |-> Idle]
  /\ up = TRUE /\ reported = FALSE
  /\ late = [c \in Callers |-> 0]
  /\ granted = FALSE
  /\ crossed = {} /\ blind = FALSE

-----------------------------------------------------------------------------
(* The user's operations, each atomic under the job's lock.                *)

\* Starting a pipeline ensures the file with the mode of the request.
StartEnsures(mode) ==
  /\ up
  /\ control' = EnsurePipelineControl(control, mode)
  /\ UNCHANGED <<caller, up, reported>> /\ Observe({})

ChangeMode(mode) ==
  /\ up /\ control # NoControl
  /\ control' = SetProviderMode(control, mode)
  /\ UNCHANGED <<caller, up, reported>> /\ Observe({})

Approve ==
  /\ up /\ control # NoControl
  /\ control' = ApproveProviderPhase(control)
  /\ UNCHANGED <<caller, up, reported>> /\ Observe({})

RequestCancel ==
  /\ up /\ control # NoControl
  /\ control' = RequestPipelineCancel(control)
  /\ UNCHANGED <<caller, up, reported>> /\ Observe({})

ClearCancel ==
  /\ up /\ control # NoControl
  /\ control' = ClearPipelineCancel(control)
  /\ UNCHANGED <<caller, up, reported>> /\ Observe({})

\* Starting a pipeline writes the job's first pipeline.json; the stand-alone
\* audit endpoints never do.  Later writes replace it whole.
PersistReport ==
  /\ up /\ reported' = TRUE
  /\ UNCHANGED <<control, caller, up>> /\ Observe({})

UserAction ==
  \/ \E mode \in ProviderExecutionMode : StartEnsures(mode) \/ ChangeMode(mode)
  \/ Approve \/ RequestCancel \/ ClearCancel \/ PersistReport

-----------------------------------------------------------------------------
(* One outbound call.                                                      *)

\* The run_* function of a stage ensures the file before its first call; the
\* pipeline's worker runs on a report.
Enter(c) ==
  /\ up /\ caller[c].at = "idle"
  /\ c \in SlotCallers => reported
  /\ control' = EnsurePipelineControl(control, "REQUIRE_APPROVAL")
  /\ Move(c, "ready")
  /\ UNCHANGED <<up, reported>> /\ Observe({})

Cross(c, provider) ==
  /\ control' = BeginProviderCall(control, provider)
  /\ caller' = [caller EXCEPT ![c] =
                  [at |-> "begun", provider |-> provider, attempt |-> 0]]
  /\ UNCHANGED <<up, reported>> /\ Observe({})

\* Mutants of Begin: the policy, or the cancel request, is not looked at.
BeginUnlessCancelled(c, provider) ==
  /\ up /\ caller[c].at = "ready" /\ NotCancelled(control)
  /\ Cross(c, provider)

BeginIfPermitted(c, provider) ==
  /\ up /\ caller[c].at = "ready" /\ PolicyAllows(control)
  /\ Cross(c, provider)

\* begin_provider_call; when it raises, the stage ends (Leave).
Begin(c, provider) ==
  /\ up /\ caller[c].at = "ready"
  /\ ProviderAllowed(control)
  /\ Cross(c, provider)

\* Mutant of Recheck: with the slot in hand, it waits for the permission.
RecheckWaits(c) ==
  /\ up /\ c \in SlotCallers /\ caller[c].at = "begun" /\ ProviderAllowed(control)
  /\ Move(c, "cleared")
  /\ UNCHANGED <<control, up, reported>> /\ Observe({})

\* _provider_slot_call: the slot is held, the control is read again.
Recheck(c) ==
  /\ up /\ c \in SlotCallers /\ caller[c].at = "begun"
  /\ Move(c, IF ProviderAllowed(control) THEN "cleared" ELSE "returned")
  /\ UNCHANGED <<control, up, reported>> /\ Observe({})

\* A thread is about to send: the pipeline's worker after the second check,
\* the other threads straight after begin, both after a transient failure.
MayPost(c) ==
  \/ caller[c].at \in {"cleared", "backoff"}
  \/ caller[c].at = "begun" /\ c \notin SlotCallers

Post(c) ==
  /\ up /\ MayPost(c)
  /\ caller' = [caller EXCEPT ![c].at = "inflight", ![c].attempt = @ + 1]
  /\ UNCHANGED <<control, up, reported>> /\ Observe({c})

\* 429, 5xx, a transport error or an unreadable body: sleep, then try again.
TransientFailure(c) ==
  /\ up /\ caller[c].at = "inflight" /\ caller[c].attempt < MaxAttempts
  /\ Move(c, "backoff")
  /\ UNCHANGED <<control, up, reported>> /\ Observe({})

\* An answer, a permanent error, or the last attempt's failure.
Return(c) ==
  /\ up /\ caller[c].at = "inflight"
  /\ Move(c, "returned")
  /\ UNCHANGED <<control, up, reported>> /\ Observe({})

\* finish_provider_call, in the `finally` of the call.
Finish(c) ==
  /\ up /\ caller[c].at = "returned"
  /\ control' = FinishProviderCall(control, caller[c].provider)
  /\ caller' = [caller EXCEPT ![c] = [Idle EXCEPT !.at = "ready"]]
  /\ UNCHANGED <<up, reported>> /\ Observe({})

\* The stage ends: no call is left, begin raised, or the call failed.
Leave(c) ==
  /\ up /\ caller[c].at = "ready"
  /\ Move(c, "idle")
  /\ UNCHANGED <<control, up, reported>> /\ Observe({})

Call(c) ==
  \/ Enter(c) \/ Recheck(c) \/ Post(c) \/ TransientFailure(c)
  \/ Return(c) \/ Finish(c) \/ Leave(c)
  \/ \E provider \in Providers : Begin(c, provider)

-----------------------------------------------------------------------------
(* Threads and requests die with the process; the file stays.              *)

Exit ==
  /\ up /\ up' = FALSE
  /\ caller' = [c \in Callers |-> Idle]
  /\ UNCHANGED <<control, reported>> /\ Observe({})

\* reconcile_interrupted_pipelines: it goes from pipeline.json to
\* pipeline.json, and a job without one keeps what its control records.
Startup ==
  /\ ~up /\ up' = TRUE
  /\ control' = IF reported THEN ClearStaleProviderActivity(control) ELSE control
  /\ UNCHANGED <<caller, reported>> /\ Observe({})

-----------------------------------------------------------------------------
Next == UserAction \/ (\E c \in Callers : Call(c)) \/ Exit \/ Startup

Spec == Init /\ [][Next]_vars

\* The HTTP client's timeout ends every request and the operating system runs
\* every thread; a slot is handed out because its holders' requests end.
Fairness ==
  \A c \in Callers :
    /\ WF_vars(Recheck(c)) /\ WF_vars(Post(c)) /\ WF_vars(Return(c))
    /\ WF_vars(Finish(c))

FairSpec == Spec /\ Fairness

-----------------------------------------------------------------------------
(* Properties.                                                             *)

\* After the user cancelled or withdrew permission, a thread sends at most the
\* attempts of the one call it had already begun (begin_provider_call and
\* _provider_slot_call are the only gates; a client's retries pass neither).
LateRequestsBounded == \A c \in Callers : late[c] <= MaxAttempts

\* As long as the persisted control has never allowed a call, no thread is past
\* the boundary: a job started with REQUIRE_APPROVAL or LOCAL_ONLY, or first
\* touched by a stand-alone endpoint, sends nothing before the user agrees.
NothingLeavesUngranted == ~granted => \A c \in Callers : ~Outbound(c)

\* What the file records is true in both directions.  A provider it records is
\* that of a thread in a call, unless the application was started without
\* finding a report and no call has begun since; and a call that was never under
\* way beside another one stays recorded, under its own provider, to its end.
RecordIsTrue ==
  /\ up /\ ~blind /\ control # NoControl /\ control.active_provider # NoProvider
       => \E c \in Callers :
            Outbound(c) /\ caller[c].provider = control.active_provider
  /\ \A c \in Callers \ crossed :
       Outbound(c) => /\ control # NoControl
                      /\ control.active_provider = caller[c].provider

\* "clears stale `active_provider` markers" (startup recovery, as
\* docs/PROVIDER_BOUNDARY.md has it): while the application runs, a recorded
\* provider is that of a thread in a call.
StaleMarkersAreCleared ==
  up /\ control # NoControl /\ control.active_provider # NoProvider
    => \E c \in Callers : Outbound(c) /\ caller[c].provider = control.active_provider

\* Once a cancel is recorded, the calls that were running drain, unless the
\* cancel is withdrawn again.
CancelDrains ==
  (control # NoControl /\ ~NotCancelled(control)) ~>
    (NotCancelled(control) \/ \A c \in Callers : ~Outbound(c))
=============================================================================
