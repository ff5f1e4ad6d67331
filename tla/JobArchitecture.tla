--------------------------- MODULE JobArchitecture ---------------------------
(***************************************************************************)
(* Which audit architecture of a job is authoritative, and the migration   *)
(* of an unfinished LEGACY_RC2 job to ISSUE_V1: a request handler that     *)
(* resolves, loads, reads, looks for a snapshot, writes it, replaces,       *)
(* records and starts in separate steps without a lock, beside other       *)
(* requests for the job and process exits.                                 *)
(*                                                                         *)
(* The bytes of a pipeline.json are [shape, status, cr], cr being the      *)
(* carriage returns at each of its line ends; a SHA-256 digest is the      *)
(* content itself.                                                         *)
(***************************************************************************)
EXTENDS Naturals

CONSTANTS
  Client,        \* request threads
  LegacyStatus,  \* statuses an RC2 pipeline.json may have after startup recovery
  Returns,       \* carriage returns that writing text adds to a line end: 1 on Windows, else 0
  NoFile

IssueV1 == "ISSUE_V1"
LegacyRC2 == "LEGACY_RC2"
Conflict == "CONFLICT"

TransientStatus == {"QUEUED", "WAITING_WORKER", "RUNNING", "CANCEL_REQUESTED"}
LegacyPipeline ==
  [shape : {LegacyRC2}, status : LegacyStatus \cup {"CANCELLED", "CANCEL_REQUESTED"}, cr : {Returns}]
IssuePipeline == [shape : {IssueV1}, status : {"FAILED", "RUNNING", "COMPLETE"}, cr : {Returns}]

ASSUME RecoveredStatuses == LegacyStatus \cap TransientStatus = {}

ASSUME ReturnsAreFew == Returns \in {0, 1}

\* Either, and a copy of it written by this application.
Text ==
  [shape : {LegacyRC2, IssueV1},
   status : LegacyStatus \cup {"CANCELLED", "CANCEL_REQUESTED", "FAILED", "RUNNING", "COMPLETE"},
   cr : {Returns, Returns + Returns}]

ASSUME NoFileIsNoText == NoFile \notin Text

\* atomic_write_text: the text is written in text mode, which expands line ends.
WriteText(text) == [text EXCEPT !.cr = @ + Returns]
Json(shape, status) == WriteText([shape |-> shape, status |-> status, cr |-> 0])

VARIABLES
  pipeline,     \* pipeline.json
  snapshot,     \* pipeline-legacy-rc2.json
  record,       \* job-architecture.json: the digest of the snapshot
  legacyFiles,  \* some of ai-audit.json, secondary-review.json, review-report.json exist
  issueFiles,   \* some artifact of the issue chain exists
  calling,      \* pipeline-control.json records an active provider
  worker,       \* the pipeline is being run
  client,
  damaged,      \* history: somebody has removed or changed the snapshot
  slipped       \* history: a cancel was written while a migration was preserving the report
files == <<pipeline, snapshot, record, legacyFiles, issueFiles>>
jobVars == <<files, calling, worker, client, damaged, slipped>>

-----------------------------------------------------------------------------
(* resolve_job_architecture.                                               *)

SnapshotTrusted == snapshot # NoFile /\ snapshot = record

ByRecord == IF SnapshotTrusted /\ (pipeline # NoFile => pipeline.shape # LegacyRC2)
            THEN IssueV1 ELSE Conflict

ByArtifacts ==
  CASE legacyFiles /\ issueFiles -> Conflict
    [] legacyFiles /\ ~issueFiles -> LegacyRC2
    [] ~legacyFiles -> IssueV1

Resolve ==
  IF record # NoFile THEN ByRecord
  ELSE IF pipeline # NoFile THEN pipeline.shape
  ELSE ByArtifacts

MigrationAvailable ==
  /\ record = NoFile /\ pipeline # NoFile /\ pipeline.shape = LegacyRC2
  /\ pipeline.status \notin {"COMPLETE"} \cup TransientStatus

-----------------------------------------------------------------------------
Resting == [at |-> "idle"]
IsAt(c, where) == client[c].at = where
Goes(c, state) == client' = [client EXCEPT ![c] = state]
Leaves(c) == Goes(c, Resting)

\* A migration holds the bytes it has read until it has replaced the file.
Preserving == {"test", "write", "replace"}
Slips == slipped' = (slipped \/ \E c \in Client : client[c].at \in Preserving)

\* Jobs of older versions and jobs that never reached a provider.
JobInit ==
  /\ pipeline \in {NoFile} \cup {Json(LegacyRC2, status) : status \in LegacyStatus}
  /\ legacyFiles \in BOOLEAN /\ issueFiles \in BOOLEAN
  /\ snapshot = NoFile /\ record = NoFile
  /\ calling = FALSE /\ worker = FALSE /\ damaged = FALSE /\ slipped = FALSE
  /\ client = [c \in Client |-> Resting]

-----------------------------------------------------------------------------
(* migrate_legacy_pipeline, one action for each file it reads or writes.   *)

\* Only an unfinished, inactive RC2 job may be migrated.
Migrate(c) ==
  /\ IsAt(c, "idle") /\ Resolve = LegacyRC2 /\ MigrationAvailable
  /\ Goes(c, [at |-> "load"])
  /\ UNCHANGED <<files, calling, worker, damaged, slipped>>

\* The report is loaded again, and the control is looked at.
LoadLegacy(c) ==
  /\ IsAt(c, "load")
  /\ IF pipeline.status # "COMPLETE" /\ ~calling
     THEN Goes(c, [at |-> "read"]) ELSE Leaves(c)
  /\ UNCHANGED <<files, calling, worker, damaged, slipped>>

\* preserve_legacy_pipeline_snapshot: the bytes pipeline.json has by now,
ReadLegacy(c) ==
  /\ IsAt(c, "read")
  /\ Goes(c, [at |-> "test", raw |-> pipeline])
  /\ UNCHANGED <<files, calling, worker, damaged, slipped>>

\* Mutant of TestSnapshot: an earlier snapshot is not looked at.
TestNothing(c) ==
  /\ IsAt(c, "test")
  /\ Goes(c, [client[c] EXCEPT !.at = "write"])
  /\ UNCHANGED <<files, calling, worker, damaged, slipped>>

\* unless a different snapshot is there,
TestSnapshot(c) ==
  /\ IsAt(c, "test")
  /\ \/ snapshot = NoFile /\ Goes(c, [client[c] EXCEPT !.at = "write"])
     \/ snapshot = client[c].raw /\ Goes(c, [client[c] EXCEPT !.at = "replace"])
     \/ snapshot \notin {NoFile, client[c].raw} /\ Leaves(c)
  /\ UNCHANGED <<files, calling, worker, damaged, slipped>>

\* Mutant of WriteSnapshot: the snapshot is not written.
WriteNothing(c) ==
  /\ IsAt(c, "write")
  /\ Goes(c, [client[c] EXCEPT !.at = "replace"])
  /\ UNCHANGED <<files, calling, worker, damaged, slipped>>

\* are written, over any snapshot that has appeared since.
WriteSnapshot(c) ==
  /\ IsAt(c, "write")
  /\ snapshot' = WriteText(client[c].raw)
  /\ Goes(c, [client[c] EXCEPT !.at = "replace"])
  /\ UNCHANGED <<pipeline, record, legacyFiles, issueFiles, calling, worker, damaged, slipped>>

Replace(c) ==
  /\ IsAt(c, "replace")
  /\ pipeline' = Json(IssueV1, "FAILED")
  /\ Goes(c, [client[c] EXCEPT !.at = "record"])
  /\ UNCHANGED <<snapshot, record, legacyFiles, issueFiles, calling, worker, damaged, slipped>>

Record(c) ==
  /\ IsAt(c, "record")
  /\ record' = client[c].raw
  /\ Goes(c, [at |-> "start"])
  /\ UNCHANGED <<pipeline, snapshot, legacyFiles, issueFiles, calling, worker, damaged, slipped>>

\* start_pipeline, which refuses an RC2 or cancelled report and returns a
\* complete one, and does not start a second run.  The run itself is Pipeline's.
Startable == pipeline # NoFile => pipeline.shape = IssueV1 /\ pipeline.status # "COMPLETE"
StartRun == worker' = TRUE /\ pipeline' = Json(IssueV1, "RUNNING")
Start(c) ==
  /\ IsAt(c, "start") /\ Leaves(c)
  /\ IF Startable /\ ~worker THEN StartRun ELSE UNCHANGED <<pipeline, worker>>
  /\ UNCHANGED <<snapshot, record, legacyFiles, issueFiles, calling, damaged, slipped>>

-----------------------------------------------------------------------------
(* The rest of the application.                                            *)

\* A start or retry without migration; a job without pipeline.json gets one.
StartPipeline ==
  /\ Startable /\ ~worker /\ StartRun
  /\ UNCHANGED <<snapshot, record, legacyFiles, issueFiles, calling, client, damaged, slipped>>

\* The run keeps the only report it works on and writes it back.
RunEnds ==
  /\ worker /\ worker' = FALSE
  /\ \E status \in {"FAILED", "COMPLETE"} :
       /\ pipeline' = Json(IssueV1, status)
       /\ issueFiles' = (issueFiles \/ status = "COMPLETE")
  /\ UNCHANGED <<snapshot, record, legacyFiles, calling, client, damaged, slipped>>

\* The stand-alone endpoints of both generations, which know no architecture.
StandAlone ==
  /\ \/ calling' = ~calling /\ UNCHANGED <<legacyFiles, issueFiles>>
     \/ legacyFiles' = TRUE /\ UNCHANGED <<calling, issueFiles>>
     \/ issueFiles' = TRUE /\ UNCHANGED <<calling, legacyFiles>>
  /\ UNCHANGED <<pipeline, snapshot, record, worker, client, damaged, slipped>>

\* cancel_pipeline loads a report that is not complete, and writes it back as
\* cancelled; RC2 reports are not excepted.  (Pipeline has the cancels of others.)
CancelLoad(c) ==
  /\ IsAt(c, "idle")
  /\ pipeline # NoFile /\ pipeline.shape = LegacyRC2
  /\ pipeline.status \notin {"COMPLETE", "CANCELLED"}
  /\ Goes(c, [at |-> "cancel"])
  /\ UNCHANGED <<files, calling, worker, damaged, slipped>>

CancelWrite(c) ==
  /\ IsAt(c, "cancel") /\ Leaves(c)
  /\ pipeline' = Json(LegacyRC2, IF worker THEN "CANCEL_REQUESTED" ELSE "CANCELLED")
  /\ Slips
  /\ UNCHANGED <<snapshot, record, legacyFiles, issueFiles, calling, worker, damaged>>

Edited == [shape |-> LegacyRC2, status |-> "edited", cr |-> 0]

\* Somebody edits or removes the snapshot outside the application.
Damage ==
  /\ snapshot # NoFile /\ ~damaged /\ damaged' = TRUE
  /\ snapshot' \in {NoFile, Edited}
  /\ UNCHANGED <<pipeline, record, legacyFiles, issueFiles, calling, worker, client, slipped>>

\* The process exits; startup recovery settles what it leaves.
Restart ==
  /\ client' = [c \in Client |-> Resting] /\ worker' = FALSE /\ calling' = FALSE
  /\ pipeline' =
       CASE pipeline # NoFile /\ pipeline.status = "RUNNING" -> Json(IssueV1, "FAILED")
         [] pipeline # NoFile /\ pipeline.status = "CANCEL_REQUESTED" -> Json(LegacyRC2, "CANCELLED")
         [] OTHER -> pipeline
  /\ UNCHANGED <<snapshot, record, legacyFiles, issueFiles, damaged, slipped>>

MigrationStep(c) ==
  \/ Migrate(c) \/ LoadLegacy(c) \/ ReadLegacy(c) \/ TestSnapshot(c) \/ WriteSnapshot(c)
  \/ Replace(c) \/ Record(c) \/ Start(c)

JobNext ==
  \/ \E c \in Client : MigrationStep(c) \/ CancelLoad(c) \/ CancelWrite(c)
  \/ StartPipeline \/ RunEnds \/ StandAlone \/ Damage \/ Restart

JobSpec == JobInit /\ [][JobNext]_jobVars

-----------------------------------------------------------------------------
(* Properties.                                                             *)

Content == LegacyPipeline \cup IssuePipeline

\* A migration keeps the bytes it has read until it has recorded their digest.
Keeping == Preserving \cup {"record"}
ClientState == [at : {"idle", "load", "read", "start", "cancel"}] \cup [at : Keeping, raw : Content]

JobTypeOK ==
  /\ pipeline \in Content \cup {NoFile}
  /\ snapshot \in {WriteText(text) : text \in Content} \cup {NoFile, Edited}
  /\ record \in Content \cup {NoFile}
  /\ legacyFiles \in BOOLEAN /\ issueFiles \in BOOLEAN /\ calling \in BOOLEAN
  /\ worker \in BOOLEAN /\ damaged \in BOOLEAN /\ slipped \in BOOLEAN
  /\ client \in [Client -> ClientState]

Replaces(c) == IsAt(c, "replace") /\ client'[c].at = "record"
ReplacesLegacy(c) == Replaces(c) /\ pipeline.shape = LegacyRC2

\* "The exact legacy pipeline.json is preserved first": the RC2 report that a
\* migration replaces is the one the snapshot holds, whichever migrations overlap
\* and wherever the process exits, as long as no cancel is written while a
\* migration is preserving it and nobody else touches the snapshot.
HistoryIsKept ==
  [][\A c \in Client : ReplacesLegacy(c) /\ ~damaged /\ ~slipped => snapshot = WriteText(pipeline)]_jobVars

\* The same without the exception for cancels, as the docstring has it.
PreservedFirst ==
  [][\A c \in Client : ReplacesLegacy(c) /\ ~damaged => snapshot = WriteText(pipeline)]_jobVars

\* Under the same two conditions the snapshot is the text of an RC2 report, and
\* of the one whose digest is recorded, although migrations overlap with each
\* other, with earlier and later cancels and with runs of the new pipeline.
SnapshotIsExact ==
  ~damaged /\ ~slipped =>
    /\ snapshot # NoFile => \E text \in LegacyPipeline : snapshot = WriteText(text)
    /\ record # NoFile => snapshot = WriteText(record)

\* "Atomically preserves the exact pipeline.json bytes and records their SHA-256":
\* the digest recorded is that of the snapshot, unless somebody else touches it.
RecordedSnapshotIsExact == ~damaged /\ record # NoFile => record = snapshot

\* "Completed RC2 jobs are never rewritten in place."
CompletedLegacyStays ==
  [][pipeline # NoFile /\ pipeline.shape = LegacyRC2 => pipeline.status # "COMPLETE"]_pipeline
=============================================================================
