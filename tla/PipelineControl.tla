--------------------------- MODULE PipelineControl ---------------------------
(***************************************************************************)
(* The persisted user intent of one job, runtime/jobs/<id>/                *)
(* pipeline-control.json, and the operations of pipeline_control.py on it. *)
(* Every operation of the source reads the file, edits it and writes it    *)
(* back under the job's lock, so each one is a function from the file to   *)
(* the file.  Timestamps carry no decision and are left out.               *)
(***************************************************************************)

CONSTANTS
  Providers,      \* names a call is recorded under: "deepseek", "kimi", ...
  NoProvider,     \* active_provider is None
  NoControl       \* the file does not exist

ProviderExecutionMode == {"AUTO_CONTINUE", "REQUIRE_APPROVAL", "LOCAL_ONLY"}

Control ==
  [provider_mode     : ProviderExecutionMode,
   provider_approved : BOOLEAN,
   cancel_requested  : BOOLEAN,
   active_provider   : Providers \cup {NoProvider}]

\* The file cannot be confused with its absence, nor a provider with None.
ASSUME ControlAssumption ==
  /\ NoProvider \notin Providers
  /\ NoControl \notin Control

NewControl(mode) ==
  [provider_mode     |-> mode,
   provider_approved |-> FALSE,
   cancel_requested  |-> FALSE,
   active_provider   |-> NoProvider]

\* `_read_existing(job_id) or _new_control(job_id, fallback)`.
Existing(file, fallback) ==
  IF file = NoControl THEN NewControl(fallback) ELSE file

\* Reading never creates the file; the fallback is AUTO_CONTINUE.
GetPipelineControl(file) == Existing(file, "AUTO_CONTINUE")

\* The first caller's mode is kept: an existing file is returned unchanged.
EnsurePipelineControl(file, mode) == Existing(file, mode)

SetProviderMode(file, mode) ==
  [Existing(file, mode) EXCEPT
      !.provider_mode     = mode,
      !.provider_approved = IF mode = "AUTO_CONTINUE" THEN @ ELSE FALSE,
      !.cancel_requested  = FALSE]

ApproveProviderPhase(file) ==
  [Existing(file, "REQUIRE_APPROVAL") EXCEPT
      !.provider_mode     = "REQUIRE_APPROVAL",
      !.provider_approved = TRUE,
      !.cancel_requested  = FALSE]

RequestPipelineCancel(file) ==
  [Existing(file, "AUTO_CONTINUE") EXCEPT !.cancel_requested = TRUE]

ClearPipelineCancel(file) ==
  [Existing(file, "AUTO_CONTINUE") EXCEPT !.cancel_requested = FALSE]

\* assert_pipeline_not_cancelled does not raise.
NotCancelled(file) == ~ GetPipelineControl(file).cancel_requested

\* The provider policy lets a call through: neither LOCAL_ONLY nor
\* REQUIRE_APPROVAL without the approval.
PolicyAllows(file) ==
  LET control == GetPipelineControl(file)
  IN  \/ control.provider_mode = "AUTO_CONTINUE"
      \/ control.provider_mode = "REQUIRE_APPROVAL" /\ control.provider_approved

\* assert_provider_allowed, and the guard of begin_provider_call.
ProviderAllowed(file) == NotCancelled(file) /\ PolicyAllows(file)

BeginProviderCall(file, provider) ==
  [GetPipelineControl(file) EXCEPT !.active_provider = provider]

\* Only the provider that is recorded is cleared.
FinishProviderCall(file, provider) ==
  LET control == GetPipelineControl(file)
  IN  IF control.active_provider = provider
      THEN [control EXCEPT !.active_provider = NoProvider]
      ELSE control

\* Startup recovery only; a missing file stays missing.
ClearStaleProviderActivity(file) ==
  IF file = NoControl THEN file
  ELSE [file EXCEPT !.active_provider = NoProvider]
=============================================================================
