# Law-Rag, specified and verified

Law-Rag audits contracts on the user's own machine. A document is ingested, read (OCR where needed), turned into a
canonical contract, checked by deterministic rules, split into audit issues, matched with legal evidence, audited
issue by issue by one external model (DeepSeek), reviewed by a second one (Kimi), compared, and handed to a human
reviewer. Everything the application knows about a job is a handful of JSON files in the job's directory; request
threads of a local FastAPI server and up to four background workers read and write them.

This directory holds TLA+ models of the parts of the backend in which steps of several threads, process exits and
stale files meet, the TLC configurations that check them on small instances, and proofs that the most important
properties hold for every value of the constants. All paths below are relative to `src/backend/app/` unless they begin with `src/`.

## 1. The system

### 1.1 Components, their state and operations

| component | state | operations | module |
|---|---|---|---|
| Pipeline (`pipeline.py`) | `pipeline.json`, `_FUTURES`, the executor's threads | start, retry, approve, change mode, cancel, resume; nine stages, each with its marks; done-callback | `Pipeline`, `PipelineReport` |
| Control / provider boundary (`pipeline_control.py`) | `pipeline-control.json` under one lock | ensure, set mode, approve, request and clear cancel, check, begin and finish a provider call, clear stale activity | `PipelineControl`, `ProviderBoundary` |
| Provider clients (`*_provider.py`) | none; a retry loop per call | post, retry on transient errors, fail | `ProviderBoundary` |
| Startup recovery (`pipeline_recovery.py`) | the same two files | settle what the last process left | `Pipeline` |
| Ingestion, upload (`main.py`, `document_ingestion.py`, `upload_streaming.py`) | `source.*`, `document.json`, `evidence.json` | stream, check, inspect, drop | `Intake`, `ContractText` |
| OCR (`ocr.py`) | `ocr.json` | run over the scanned pages | `Intake` |
| Contract structure (`contract_structure.py`) | `contract.json` | build from the evidence stream | `ContractText`, `Intake` |
| Deterministic rules (`audit_rules.py`) | `audit-rules.json` | evaluate eight rules | `RuleEngine`, `Intake` |
| Planner (`audit_planner*.py`) | `audit-plan.json` | plan in one request, or in one per chunk and a global one; merge; replace | `AuditPlan`, `AuditPlanner`; the plan as an input of `IssueAudit` |
| Issue legal context (`issue_legal_context.py`) | `issue-legal-context.json` | build by one retrieval per query; freshness | `IssueAudit` |
| Primary audit (`issue_primary_audit.py`) | `issue-primary-audit.json` | build with checkpoint, reuse, interrupt; freshness | `IssueAudit` |
| Secondary review (`issue_secondary_review.py`) | `issue-secondary-review.json` | the same, about a primary audit | `IssueAudit` |
| Review report (`issue_review_report.py`) | `issue-review-report.json` | build from a complete, matching pair; freshness | `IssueAudit` |
| Human review (`human_review.py`), workspace (`issue_workspace.py`) | `human-review.json` | record a decision, view, completeness | `HumanReview` |
| Job architecture, migration (`job_architecture.py`, `legacy_pipeline_migration.py`) | `job-architecture.json`, `pipeline-legacy-rc2.json` | resolve, read, look up, preserve, replace, record, start | `JobArchitecture` |
| Legal store, retrieval (`legal/`) | `legal.db`, `retrieval.db`, their working files | import, rebuild, build index, search | `LegalText`, `LegalCorpus`; a content in `IssueAudit` |
| Batches (`batch_results.py`) | batch manifests, recent pointer | create, register, summarise | `IntakePage`, `ResultsPage` |
| Start page (`src/frontend/src/IntakeApp.tsx`) | its queue, the active upload, its batch, one polling loop per item | queue, upload, register, start, poll, approve, retry, cancel, resume, remove | `IntakePage` |
| Results page (`src/frontend/src/BatchResultsApp.tsx`) | the summary shown, a load or timer, an error | load, reload, five buttons | `ResultsPage` |
| Provider settings, secrets | credential store, setup flag | save, delete, test | not modelled |
| Legacy RC2 chain | its three reports | build, view | given files in `JobArchitecture`, `HumanReview` |
| Health, diagnostics, benchmarks, release tools, workspace views | none of their own | read, display, package | not modelled |

`PROJECT.json` lists every component with its files and the reason for what is left out.

### 1.2 How they interact

* A request thread loads `pipeline.json`, changes the control under its lock, and writes the report back. The worker
  holds a copy of the report for the whole run and writes all of it at every mark. There is no lock on `pipeline.json`.
* At most one future per job is registered in `_FUTURES`, under a lock that covers the submission but not the writes
  before it; a done-callback unregisters it.
* Before every model call a thread begins the call in the control file, waits for one of two slots, looks at the
  control again, and posts; the client may post twice within one call. The stand-alone endpoints cross the same
  boundary without slot and second look.
* The stages of the audit chain name their inputs by fingerprint. A stage that finds a checkpoint of the very same
  inputs reuses its results, and a reader refuses an artifact whose upstream has changed.
* The local stages hand files to each other: inspection writes the evidence, OCR adds the scanned pages, the structure
  is built from both, the rules read the structure, the planner reads structure and rules. All but the plan are written
  in place, by the worker or by a stand-alone endpoint, and nothing locks them.
* The legal store belongs to the whole installation. A command line imports, rebuilds and indexes it while the server
  searches; SQLite's locks and the replacement of files are all that coordinates them.
* Human decisions name the fingerprint of the report in force; a new report makes them stale.
* The architecture of a job decides which chain counts. A migration changes it by three file writes.
* The browser drives a job: it uploads, registers the job with a batch, starts the pipeline, and polls reports and
  summaries. Each is a request of its own; between two of them the page, the worker and the user all go on.
* When the process exits, the files stay. At the next start, recovery settles reports and controls before the server
  accepts a request.

### 1.3 What is hard, and what makes each part correct

| part | what is hard | what must hold |
|---|---|---|
| Control, boundary | cancel or withdrawal between begin, slot wait, post and retry; callers that share one field; exits | nothing leaves before permission; after it is withdrawn at most the attempts of the call already begun leave; what is recorded as running does run, and what runs alone is recorded |
| Pipeline | whole-file writes of stale copies; submission against done-callback; exits between output and mark | one run per job, always registered; RUNNING means a worker; done means an output; no stage is paid twice; runs end |
| Issue chain | inputs change between the readings of a stage, and may change back; checkpoints are resumed by another run | one legal context and one contract per audit, reviews of the results they name, a fresh report covers the plan in force, from the corpus in force unless that one came back |
| Human review | read-modify-write of one file; rebuilt reports | numbering without gaps; a job is closed only by decisions about the report in force |
| Intake | files torn or rewritten under the next stage; OCR pages that fail; numerals, nesting, uncertain text | the contract is the whole document in its order and hierarchy; a verdict rests on sure sources and passes over no difference |
| Planner | two files read twice; chunks at two limits; merging of many answers | every finding is in the plan with its objects; an answer reaches no further than what it was shown; chunks partition the contract |
| Legal store | working files with fixed names, rollback, replacement of open files, searches of many readings | an import is all or nothing; an index that counts as current is one whole corpus; an answer holds versions applicable on the date |
| Batches, pages | registration without a lock; connections lost while the handler goes on; answers that are lost, late or older than the last click; loops that end while a click relies on them | a started job is in its batch; no item hangs; a page that has stopped asking shows what is |
| Migration | reading, look-up and three writes in separate steps, overlapping requests, exits | what is replaced is what was preserved, and the record names it, as long as no cancel slips in between |

The hazards, each at its line and with the properties that would catch it, are the `hazards` of `PROJECT.json`.

## 2. The modules

**`PipelineControl`** is `pipeline_control.py` as operators on the persisted record: one operator for each function
that takes the lock. **`ProviderBoundary`** lets any number of callers (the worker, which needs a slot, and stand-alone
requests, which do not) run the begin / slot / recheck / post / retry / finish protocol against the user's operations
and process exits. `reported` says whether the job has a `pipeline.json` that recovery can read: stand-alone calls need none, and
recovery clears the markers of no other job. Four history variables observe it: `granted` (the file has allowed a call at some
time), `late` (posts of a caller since permission was last withdrawn), `crossed` (the callers whose call was under way beside
another one; a call that ends erases the marker of another) and `blind` (the application was started without finding a report, and no
call has begun since). `RecordIsTrue` says in both directions what the marker is worth.

**`PipelineReport`** holds the marks on `pipeline.json` (`_mark_running`, `_mark_done`, ... and the reconciliation of
recovery) as operators on a report record: status, current stage, a status per stage, and the failure that recovery and
`retry` look at. **`Pipeline`** composes both: worker threads step through checkpoint, stage, local slot, output,
boundary, post, mark and handlers; request threads step through load, check, control, persist and submit; the exit
drops threads, recovery settles control, then report. Nine stages become a sequence of `LastStage` stages with
attributes (model stage, optional component, eager credentials), because the stages of the code differ only in these.
`Boundary == INSTANCE ProviderBoundary` maps the workers to callers: the pipeline crosses the boundary only as
`ProviderBoundary` allows (`CrossesBoundary`, checked as a property and proved).

**`IssueAudit`** is the chain from plan to report. A fingerprint is the content itself, so an artifact carries its
upstream. Each build is split where the code reads or writes a file: the corpus is read again by every retrieval; both model
stages put their contexts together from the legal context, then the contract, then the rules once more for every issue
(`BuildContext`); a checkpoint is written after every issue; the secondary review loads the primary audit first and the contexts later.
A load with the chain of loads that makes it fresh is one step. Edits change plan, contract, rules and corpus at any time, and may
bring back what was there: the corpus is a content, and `past` remembers those that have been replaced. Of contract and rules a
context takes what belongs to its issue (`TextOf`, `HintsOf`). An audit is returned as it is when it is complete and entirely reusable.

**`HumanReview`** splits the recording of a decision at its reads: report, then the four artifacts of the evidence, then
the file, then the write. A version stands for the content of a whole chain.

**`JobArchitecture`** splits the migration at every file it reads or writes: the report is loaded, its bytes are read, a snapshot
is looked for, written, the report replaced, the digest recorded, the pipeline started. Two history variables observe it: `damaged`
(somebody changed the snapshot outside the application) and `slipped` (a cancel was written while a migration was preserving
the report). The bytes of a `pipeline.json` are its shape, its status and the carriage returns at each line end; `Returns` says how many of them writing text adds on the
platform (`atomic_write_text` opens its file in text mode).

**`LegalText`** is what the legal database and its index compute: admission of a manifest, conflicts with what is stored,
resolution of a version for a date, reciprocal rank fusion in integers, the state of an answer. **`LegalCorpus`** is who
does it when. Files are inodes under names, so that a reader keeps the file it opened when the name is given to another;
`SharesDelete` says whether the platform lets an open file be unlinked and replaced. A command (an import, a rebuild, an
index build) has one action for each thing it does to a file or a transaction, and `Exit` may end it between any two; a
search has one for each reading of the database or the index. SQLite is external: a transaction is invisible until it commits,
there is one writer at a time, the transaction is rolled back when its process ends, and a reader may give up on a lock. Two history
variables observe it: `corpora` (what the database has held) and `seen` (the versions that were the one applicable while
a search ran).

**`AuditPlan`** is what the planner computes: size and hints of an input, the cutting of a contract into chunks, the input of a
chunk and of the global pass, validation of an answer, the merge of checklist, hints and answers, coverage. An item is its
size and the keyword routes it matches, an answer one of a set of drafts. **`AuditPlanner`** is one run: it reads contract and
rules, decides by size, reads both again if it has to cut, asks, and replaces the plan at the end, while endpoints rebuild
both files, or tear them, at any moment. Its `TypeOK` also says which places of a run come after which readings, and that a plan was
computed from some contract, rules and drafts (`Made`).

**`ContractText`** leads from the pages of a document to its contract: which page is read by OCR, the stream of lines, titles,
nesting of clauses, references, numerals and dates. A line carries what the regular expressions find in it. **`RuleEngine`** is
the eight deterministic rules on a contract, with the gate that turns a verdict on uncertain OCR text into REVIEW.
**`Intake`** runs upload, inspection, OCR, structure and rules on threads that write files in place: a file is torn from
its opening to its filling, and may stay a mixture if another writer was in it.

**`IntakePage`** is the start page with the server behind it. `net` says for each item and kind of request where the request is:
sent, served in steps, answered, refused. What the code keeps in React state and refs (`activeId`, `batchIdRef`, `pollingIds`,
...) keeps its name; an item is polled exactly when `net[i].poll` is not idle. An endpoint has a thread of its own, so that a
connection lost midway (`Lose`) lets the page go on while the handler does too (`lost`, `GoesOn`); `cut` remembers the batches with a
registration to which that happened before its manifest was written. A button's handler that goes on is one of the `Moves` of its
job, and an upload that is stored unheard is a job that no page knows. The pipeline is seen from outside and moves
freely between running and settled, which is more than `Pipeline` does. **`ResultsPage`** is the other page: a summary
is read job by job by `summarize_batch`, a load is live until the page begins another one, a request may write any status
before it is answered. Between requests a settled job stays as it is, which is what `SettledReportIsLeftAlone` says of
`Pipeline`.

The `MC*` modules give constants that a configuration file cannot write and the symmetry sets. A `_proofs` module holds
the theorems about the module it is named after; `History_proofs` holds those of `HumanReview` and
of `JobArchitecture` (names that the two would share begin with `Job` in the latter), and `Contract_proofs` those of `AuditPlanner`
and of `Intake` (whose own begin with `Local`, for the local stages): both argue about sequences put together in a loop, with the same
lemmas. Definitions marked *Mutant of* are changed copies of a definition the
code has, there to show that the property they break is able to fail.

## 3. The runs

| run | instance | checks |
|---|---|---|
| `boundary` | a worker and a stand-alone caller, two providers, two attempts | `LateRequestsBounded`, `NothingLeavesUngranted`, `RecordIsTrue`, `CancelDrains` |
| `pipeline` | three stages (ingestion, OCR, model), two executor threads, one request at a time, all six kinds of request, exits | the safety properties of `Pipeline`, that it refines `ProviderBoundary`, and that only requests change a settled report |
| `runs_end` | two attempts, no exit | `RunsEnd`, `QueuedRuns` under fairness |
| `issue_audit` | two threads, three issues, two plans, three contracts, two states of the rules, two corpora, two dates, seven operations | the five properties of `IssueAudit` |
| `human_review` | two reviewers, two issues, a legacy finding, two versions, three decisions | numbering, closing, reopening |
| `legacy_migration` | two clients, an unfinished and a finished status | `SnapshotIsExact`, `HistoryIsKept` |
| `legal_corpus` | two commands, one search, eight manifests, three requests, three starting points, POSIX files | `CorpusIsWhole`, `ReadyIndexIsSomeCorpus`, `AnswersAreApplicable` |
| `audit_planner` | four contracts, five drafts, one run after another | `EveryFindingIsPlanned`, `IssuesPointAtShownObjects`, `PassesPartitionTheContract` |
| `intake` | two threads, nine documents, every OCR result | `EvidenceIsStructured`, `ReferencesNameOneClause`, `VerdictsFollowTheText` |
| `intake_page` | two items, two batches, one request of a button at a time (cancel, resume), a running and a settled report | `WorkCanBeFound`, `NothingIsForgotten`, `NoJobLeavesItsBatch` |
| `results_page` | two jobs with four outcomes, cancels, two loads | `QuietPageIsCurrent` |
| `index_stamp` | as `legal_corpus`, with files that cannot be replaced while open | a sentence of the documentation that the code does not keep (section 5) |

The type invariants of `ProviderBoundary`, `Pipeline`, `HumanReview`, `JobArchitecture`, `LegalCorpus` and `ResultsPage`, and the properties
`CallIsRecorded` and `CompletedLegacyStays`, are proved for every value of the constants (section 4), and no run repeats them.

### 3.1 Bounds, and why they are enough

* One job. Jobs share nothing but the executor and the slots, which a worker may have to wait for at any length.
* Stages: their order matters only through "done before". A first stage that always runs, a second one that waits for the
  OCR slot, or is not needed at all, and a third one that calls a model show every path of the code.
* `MaxAttempts` is 2 in the code. `boundary` and `runs_end` use 2; `pipeline`, whose question is the files, uses 1.
* `pipeline` has one client: requests overlap with the worker but not with each other. The safety
  theorems hold for any number of clients; with two, `QueuedRuns` is false (section 5).
* `MaxOps` 7 in `issue_audit` allows a plan, a context, two overlapping audits, a review, a report and one edit between
  any of them, or an earlier chain and a second one begun over it. Three issues, of which one needs no model, are enough
  for an interruption in the middle with a reusable result on each side. The contracts are two with one source and one with another;
  two differ for one issue only, and so do the rules, since a context is reused exactly when nothing of its own has changed. Two
  corpora are enough for one to return.
* `Versions` 2 and `MaxRequests` 3 in `human_review` allow two overlapping decisions and a third after a rebuild. Chains
  do not return to an earlier version: a fingerprint that comes back would make old decisions current again, as the code intends.
* `LegacyStatus` in `legacy_migration` has one status of an unfinished and one of a finished job, the two the code tells apart.
  `Returns` is 0 there, so that the branch of an equal snapshot is taken, and 1 in `MCLineEnds.cfg` (section 5); the theorems hold for both.
* `legal_corpus`: two commands are enough for every pair of import, rebuild and build in every interleaving, and each may be
  refused, fail, be cut off or never start. The manifests are one of each way to be admitted or not: a second version, the seed
  again, an end date corrected, another source under a stored version, another title under a stored authority, an overlapping
  excerpt with two tokens of one ordinal, a wrong article count, a version named twice. `top_k` and the bound on hits are so
  small that both cut.
* `audit_planner`: one contract fits a request, one is cut before an item (characters) and after one (items), one has an item no
  request can hold, one is empty but for its facts. The limits are scaled to single digits. Drafts name nothing, objects of one
  chunk, of two, the topic of a hint, and something unsound.
* `intake`: each document has a question. Numerals and nesting, dates around February, percentages that do and do not total 100,
  amounts in several units, a scan beside native text, a single scan, and three that are too large, unreadable or empty.
* `intake_page`: a race about a manifest needs two items; a page that is left in the middle of a registration and opened
  again needs two batches. Registrations of other tabs are for other batches. One settled report is enough: what is offered on
  a failed or a waiting item is also offered after a failed request, and resume needs the cancelled report. Approve, which the
  instance leaves out, treats its answer as resume does. Retry is left out to keep the run short: with it there are 1.9 million states instead
  of 1.1, and the same properties hold; the theorems hold for all four buttons.
* `results_page`: two jobs, since a summary that reads them at different times is the question; two slots, for the current load and
  one abandoned one (a second abandoned one would only be dropped as the first). One button, because what a request writes does not
  depend on the button; running and complete stand for unsettled and settled. The outcomes are the two kinds of job that cannot be
  read, an incomplete chain and a result that needs attention.

`issue_audit`, `human_review`, `legal_corpus`, `index_stamp`, `intake` and the runs of the two pages do not check
for deadlock: they stop when the bound on operations, versions or commands is used up, when the document was refused, or when the
user leaves it at that. The others check it.

### 3.2 Fairness

`FairSpec` of `ProviderBoundary` and `Pipeline` assume weak fairness of each thread that has begun something (threads
run, HTTP calls have timeouts, slots are handed on because every holder releases them in a `finally`) and of the
recovery (it runs before the server does). No fairness is assumed of users: nobody has to send a request, cancel or
approve. `runs_end` forbids exits, since a process that exits over and over again keeps no promise of progress; and it
has a single client, since `QueuedRuns` is false with two (section 5). The other modules state safety only: what users,
commands and searches do next is their own choice.

## 4. The theorems

| module | theorem | states, for every value of the constants |
|---|---|---|
| `ProviderBoundary_proofs` | `TypeCorrect`, `LateRequests`, `Ungranted`, `RecordTrue` | the invariants of run `boundary`, for any number of callers, providers and attempts |
| `Pipeline_proofs` | `TypeCorrect`, `Registered`, `OneRun`, `RunningIsTrue`, `DoneIsTrue`, `NotPaidAgain`, `CallRecorded`, `LeftAlone` | the invariants of run `pipeline`, and `CallIsRecorded`: a model call in flight is the active provider of the control; for any number of workers, clients, stages and attempts |
| `Pipeline_proofs` | `Crosses`, `BoundaryPromises` | the pipeline implements `ProviderBoundary`, and so keeps what that promises |
| `IssueAudit_proofs` | `TypeCorrect`, `OneContext`, `ReviewsFit`, `CompleteIsWhole`, `OneContextCompared`, `FreshCovers` | the properties of run `issue_audit`, for any plans, contracts, models, number of threads and of edits |
| `History_proofs` | `TypeCorrect`, `Consecutive`, `Closed`, `Reopened` | the properties of run `human_review`, for any number of reviewers, decisions, issues and versions |
| `History_proofs` | `JobTypeCorrect`, `Kept`, `Untouched`, `ExactSnapshot` | the properties of run `legacy_migration`, and `CompletedLegacyStays`: nothing writes over a completed RC2 report; for any number of clients and on either kind of platform |
| `LegalCorpus_proofs` | `TypeCorrect`, `WholeCorpus`, `ReadyIsWhole`, `Applicability` | the properties of run `legal_corpus`, for any number of commands and searches, any manifests and requests, on either kind of platform |
| `Contract_proofs` | `PlannerTypeCorrect`, `FindingsArePlanned`, `IssuesStayInTheirPass`, `PassesCutTheContract` | the properties of run `audit_planner`, for contracts of any length, items of any size, any rules, checklist, answers and limits |
| `Contract_proofs` | `LocalTypeCorrect`, `ContractIsTheDocument`, `VerdictsFollow` | the properties of run `intake` except `ReferencesNameOneClause`, for documents of any length and nesting, any OCR results, any number of threads and of repetitions |
| `IntakePage_proofs` | `TypeCorrect`, `WorkFound`, `NothingForgotten`, `JobsStay` | the properties of run `intake_page`, for any number of contracts, batches, and buttons pressed at a time |
| `ResultsPage_proofs` | `TypeCorrect`, `QuietIsCurrent` | the property of run `results_page`, for any number of jobs, loads and buttons pressed at a time |

All theorems rest on the named assumptions of the modules, and on no others. Each specification has an inductive
invariant `IInv` (`JobIInv`, `LocalIInv` where two share a module), a lemma that `Init` implies it, lemmas for its steps with one case per action, and short temporal proofs that
put them together; an action property follows from one step taken in an `IInv` state.

**Provider boundary.** `LateRequestsBounded` is not inductive: how many requests are late has to be tied to the attempt
the loop is at. `IInv` says that a file that allows calls has been granted and has no late requests yet; that the late
requests of a thread in a call are attempts of that call (`InCall`), of which it has one left before it posts
(`HasRoom`) and none counted outside of a call; that nobody is under way without a control file; while the
application is up and not `blind`, that the recorded provider is the one of a thread in a call (`ActiveHasCaller`); and that `crossed`
holds every thread in a call beside another one, so that the call of any other thread is the only one, and recorded.

**Pipeline.** The properties speak of the report on disk, and it is written from copies that are older than it. `IInv`
therefore says the same of every copy, of the file, the workers and the clients: it is a report the marks can produce and its done
stages have their output (`CopyOK`). `Shape` says which copy, stage, calls and attempts fit a worker's place, `Knows` what a
worker has learnt of the control and of the outputs and what still holds; both need that there is at most one run, the
registered one (`ActiveRunIsRegistered`). `RequestOK` says that a request that writes or submits has a report. The last
part is `RunningHasWorker` made inductive: a file that claims a run (`Claims`) has a worker that is not about to exit.
`LeftAlone` has the further assumption that there is one client, and the further invariant `Calm`: a settled report has no worker
that will write again, a worker's copy is not settled before its last write, and a request that has passed its look at
`_FUTURES` (`Free`) still has nobody at work beside it. With two clients the last part fails, and so does the property.

**The boundary, refined.** What the `_proofs` of the boundary say of the operations on the control file is cited by the
pipeline through the instance `Through`; the lemmas about the marks are a section of `Pipeline_proofs`. `Crosses` maps
every step: a worker's step between its begin and its finish is the step of its caller, a request that saves the control
is the user's operation, exit and recovery are the boundary's, and all other steps stutter (`Crossing`). The user of
`ProviderBoundary` operates on a control, recovery on the control of a call, and late requests are counted from a
moment of permission; that a pipeline is in such states needs the invariant `Link` beside `IInv`: a report, and a
request that has looked, come after the control; a recorded provider belongs to a job with a report; and a control that
allows calls has been granted and has no late requests. `BoundaryPromises` then needs no invariant of its own: it follows from
the theorems of `ProviderBoundary_proofs` under the mapping. There a job is `reported` exactly when the pipeline has its report.

**Issue audit.** A property of one artifact is a property of all the runs and checkpoints it was made from, so `IInv` states
the lineage value by value, wherever the value is: `PrimaryOK` of the file, of the audit a review names, of the one a run
has loaded and of the one a report compares. `FromContext` says that all findings come from one contract and one legal context, each
with the rules of some moment, `ShownBy` the same of the contexts a run has built, `OneSource` that both come from the same contract: a
finding is taken over from a checkpoint only for an equal context. `Ordered` says that findings answer the first issues of the plan in its order, `Fits` that a review is one of a finding for the
same issue. `FreshCovers` rests on `Retrieving`: all evidence is of the corpus its context names, or that corpus has been replaced
since; so a context that names the corpus in force has nothing else, unless that one is back. An index covers plans only
(`Covered`, part of the assumption), and plans name an issue once.

**Human review.** `IInv` says of the file and of every copy a request holds that it is `Good`: each number is the
position among the revisions of its target, and evidence is no older than the report it was read for and no newer than
the chain. So evidence that names the report in force, once that report is fresh, lies between two equal versions:
nothing else can have been read. `NextIsCount` is the lemma about the numbers, by cardinalities.

**Migration.** `JobIInv` says that a migration or cancel under way was admitted for an RC2 report that is not complete, and
that if the report is not that one any more there is a snapshot; and that a run of the new pipeline stands over an RC2
report only when there is one. That is what `Untouched` needs. `Kept` and `ExactSnapshot` need `Exact` on top, which speaks of histories
without damage and without a cancel that slipped in: a migration holds the RC2 report as it stands (`Faithful`), two of them hold
the same one (`SameReport`), and nobody gets past the snapshot unless it holds what he has read, line ends included. On a platform that expands
line ends a second migration never finds an equal snapshot (`EqualCopy`), and so refuses.

**Legal corpus.** The names are shared and every command may replace, unlink or write what another has open, so `IInv`
speaks of inodes. `Opened`: nobody knows the inode of a command that has not made its file. `Writers`: who records holds
the transaction of its file. `Imports`: every file holds whole manifests, and a transaction holds those records of its
manifest that came before the next one (`Begun`), so that what it commits is whole again. `Builds`: a builder that writes
has a file of its own, empty, and rows from one reading; whatever name the file ends up under. `Searches`: what a search has
noted was applicable while it ran, and what it has found is what it noted; `OnlyOnes` of the present database is part of
its history, which `WatchedStep` shows of every step that changes the database under its name. The lemmas `...Does` say
once what a step does to the commands and files; `Traces` collects where names and open files can come from. The proof uses
that a manifest and `top_k` have natural lengths (`InputsAreValid`), nothing about Windows' or Linux' unlinking.

**Start page.** `NoJobLeavesItsBatch` is about a registration that loads, writes and points without a lock. What protects
it is far away, in the queue of uploads, so `IInv` ties the two: `QueueOK` says that only the active item of the page has a
request of the queue under way, and one only; `Registers` that a registration is for the batch of the page it came from, and
one of a page that was left for another batch than the page has or is promised now; hence `Alone`, no two registrations
for one batch that the page waits for, and what was loaded is what the batch still holds. A handler that goes on after its connection was
lost is not among them; all that is said of its batch is what remains true of a batch in `cut`: it is there, is not empty once written,
and is the one of the page. `Found` and `Remembered` are the properties item by item.
Most steps are about one item and leave the batches alone: `ItemStep` shows once that such a step keeps everything about the
other items, `ServerStep`, `PageStep` and `ShowStep` are what it comes to for a request that is served, an answer that is
taken and one that is shown.

**Results page.** A page is `Awake` while it shows an error or has something to wait for. `ViewFollows` says that one
that is not shows what is, and nothing that is processing. `LoadFollows` is what makes that so: whatever a load has read of a
job is still so, or will be read again because the job was processing then, or has since been changed by a request whose answer will
abandon this load (`Stirred`). It holds of the one load that may still be shown, and of jobs with one request at a time
(`OneRequest`), which is what `loose` excludes.

**Audit planner.** The theorems speak of what loops over items, hints, answers and chunks compute, for inputs of any
length, so their proofs are inductions over data. `ByInduction` and `RecursionExists` derive induction over the natural
numbers, and that a recursion defines a function, from the fact that the finite sets of numbers are well-founded by
inclusion; this is why the loops of `AuditPlan` are recursive functions of the positions done. Three lemmas carry the argument.
`MergeGathers`: the plan merged from a list of parts has exactly the topics, objects and sources of the parts, and no
priority below one of theirs. `MergeLocalKeeps`: joining the drafts of the chunks loses nothing the plan had, adds every finding of
every draft, and adds no object that no part named. `ChunksCutTheItems`: the chunks one after the other are the items, none of them
empty (`Whole`, finished chunks and current one together, grows by one item at each step). `IInv` says of the plan on disk that
it is `Good`, which is the conjunction of `Made` and the three properties, and of a run (`RunShape`) that its chunks are those of the contract it
read last and that each draft it holds was valid for the chunk it was given; both files may have been rebuilt since.

**Intake.** The threads and the text are proved apart. About the threads, `LocalIInv` says which files each one may still have to
write: the upload is alone (`BeforeTheUpload`), the inspection is alone and nothing is derived before it has ended
(`AfterTheUpload`), and what a file holds when it can be read, or what a thread is about to write, is what the stage makes of *some*
OCR result of the job's document (`Fits`), since several may have been on disk. It was checked on the instance of `intake`
before it was proved. About the text, `BuildsWell` is an induction over the lines: after each, `BuiltWell` holds of the
builder, that is, its clauses and blocks are the lines so far in ascending order, apart from titles before the first clause; the stack
holds clauses after which only deeper ones came; and parents are the nearest clauses of a smaller level. `ContractsAreWhole`
follows for every contract. The verdicts are taken rule by rule, for each of the eight, and need of a contract only that its lines and
mentions are listed.

Two assumptions describe what the stages are given. `DocumentsAreTexts`: the lines of a page carry its number, a usable page has a
line, mentions and numerals are of finite length. The code guarantees it: native units skip blank lines
(`contract_structure.py:224`), the OCR adapter drops blank ones, and a page is usable only with 32 characters that are no white space
(`document_ingestion.py:20-95`). `MarksAreNoTexts`: a missing or torn file is no document, page list or contract; in the code it is
a file that does not exist or does not parse.

Only model-checked: the liveness properties `CancelDrains`, `RunsEnd` and `QueuedRuns` (out of the prover's reach), and
`ReferencesNameOneClause`. That one reads the numerals of headings and references a second time, from a table of the numerals of 1 to 120
(`Numerals`), so it is a statement about documents whose numbers lie there and is not true of every value of `Document`. That the
table agrees with `_chinese_integer` is a computation, which the documents of the instance sample.

## 5. Where documentation and code disagree

Six can be watched in TLC. The first is a run; the others are configurations beside the runs, each with one property that the
counterexample refutes (`tlc -config MCStaleMarker.cfg MCProviderBoundary`, `MCCorpusReturns.cfg` with `MCIssueAudit`, the rest with
`MCJobArchitecture`):

* `index_stamp`: an import between the builder's two readings of the database leaves an index without the new articles that reports
  itself as current until the next import or build.
* `MCStaleMarker.cfg`: startup recovery "clears stale `active_provider` markers" (`src/docs/PROVIDER_BOUNDARY.md:106`), but only of jobs whose
  `pipeline.json` it can read. A stand-alone call of a job without one that is cut off by an exit leaves its marker until the next call
  of the job ends; `RecordIsTrue` is what does hold.
* `MCCorpusReturns.cfg`: "The read API returns a stale conflict instead of silently serving old legal context"
  (`src/docs/ISSUE_BASED_LEGAL_RAG.md:137`). A build names the corpus it found first, and freshness compares contents, so a corpus that is replaced
  and rebuilt as it was while a build runs leaves evidence of another one in a context that loads as fresh. `FreshReportCoversThePlan`
  makes that exception (`past`).
* `MCPreservedFirst.cfg`: "The exact legacy pipeline.json is preserved first" (`legacy_pipeline_migration.py:42`), but a cancel written after
  the bytes were read is replaced unpreserved. `HistoryIsKept` makes that exception (`slipped`).
* `MCRecordedSnapshot.cfg`: the same cancel between the readings of two migrations lets one write its snapshot under the digest of the other, against
  "atomically preserves the exact `pipeline.json` bytes and records their SHA-256" (`src/docs/JOB_ARCHITECTURE_COMPATIBILITY.md:66`).
* `MCLineEnds.cfg`: on Windows text mode expands the line ends of the snapshot, so that its digest is not the recorded one and the job ends in
  CONFLICT; the test that compares the bytes runs on Linux only. `ExactSnapshot` says what the snapshot holds all the same. A
  migration that is cut off between snapshot and record cannot be repeated there: it finds a "different" snapshot.

Met while modelling, without a run of their own:

* `cancel_pipeline` answers "Completed pipelines cannot be cancelled." (`pipeline.py:954`), but a cancel that loaded the report
  before the run finished writes CANCELLED over COMPLETE.
* Human Review is append-only (`src/ARCHITECTURE.md:284`), but of two overlapping decisions one can disappear: the second write of
  the file comes from a copy without the first. The numbers stay consecutive all the same (`NumbersAreConsecutive`).
* A mode change or an approval withdraws a recorded cancel; `src/docs/PROVIDER_BOUNDARY.md` reserves that to resume.
* Of two overlapping starts the slower can leave a job QUEUED that nobody will run: it queues after the faster one's run has
  ended and still finds that run's future.
* An approval between the refusal of a call and the recording of the pause starts nothing; the job stays paused although approved.
* The client's second attempt is posted after a cancel was recorded, although "cancellation blocks later requests".
  `LateRequestsBounded` states the bound that does hold.
* A stand-alone call that ends erases the record of the worker's call in flight (one `active_provider` field), so
  `CallIsRecorded` is a property of the pipeline alone.
* A cancel written after the run ended leaves CANCEL_REQUESTED until the next start of the process.
* `start` ignores its `provider_mode` when a control already exists.
* The call is recorded before the wait for a slot, not immediately before the request.
* After exit with COMPLETE and a recorded cancel, recovery makes the job CANCELLED with `current_stage` COMPLETE. A resumed run
  that pauses or fails before its first mark then finds no stage to mark (`FindsNoStage`), its handler raises, and the report stays QUEUED
  without a thread. It takes an exit to get there: `QueuedRuns` is checked without exits.
* The end of a run may overwrite a cancel of an RC2 report that was written late.
* A resumed audit that is interrupted early drops the reusable results of later issues.
* The rule hints of two issues of one audit may come from two states of `audit-rules.json`, which is read again for each issue;
  `OneContextPerAudit` promises one contract and one legal context, and of the rules only that each hint was in the file.
* The freshness of the report does not depend on `contract.json`.
* The workspace reads the report twice; between the two reads it may change.
* An import of a stored version whose dates were corrected is NO_CHANGE: the old dates stay, and the next version may make the
  date AMBIGUOUS. A plain import that fails on a fresh installation leaves an empty database; its report still says IMPORTED of
  rows that were rolled back. On Windows the working file of a failed rebuild or build stays, since it is unlinked while open.
* A rule hint about an object that is no longer in the contract makes the hierarchical planner fail, but only at its last pass.
* A title line that states the price is left out of the clauses, so that the amount rule does not compare it.
* Two lines of one page with the same text are one group for the percentage rule: twice 50 % passes, twice 100 % fails. In OCR
  text a repeated percentage or amount takes the label of its first occurrence. (`audit_rules.py:212` looks for the text of a mention, and
  may find it inside a longer number: "5%" in "95%". `LabelBefore` takes the first identical mention only, and no property depends on it.)
* A scanned page without text keeps the structure from being built, however often OCR is run. A document that cannot be
  inspected, or whose process exits during the upload, leaves its source behind.
* After a failed registration or start the button of the start page is "retry", whose endpoint needs a pipeline: it answers 404
  until the item is removed and uploaded again. The results page can start a job that was registered.
* A contract that waits for a key or an approval ranks 3000 and needs attention, one that is complete with a medium and a low
  finding ranks above it and needs none. (Ranks are not in the model.)
* A job whose document or architecture cannot be read is INVALID whatever its pipeline does, and the page does not reload for it: the
  status behind its buttons may be an old one, which `Agree` in `ResultsPage` allows.
* A results page that has stopped reloading notices neither a restart (recovery can turn FAILED into CANCELLED) nor what another
  tab does; and a request that fails after it has written, beside a load that was already reading, leaves the older status on it
  (`loose` in `ResultsPage`).
* Both pages remember one busy item only: a click on another item enables the first one's buttons again, and a job can have two
  requests under way.
* `register_batch_job` has no lock; that no job gets lost rests on the page's queue of uploads alone. When a connection is lost
  midway the page registers the next job beside the handler of the first, whose stale manifest may take the other job out of its batch again:
  both properties of `IntakePage` about batches except those in `cut`.

## 6. Not modelled, and the plan

Not modelled because there is nothing for a model checker to find: formatting, the workspace views, read-only health probes,
release scripts, offline benchmarks, the source viewer, the order of the results list, artifact integrity (a report over checks that are modelled). Not
modelled because it is recognition of text or images: OCR itself, what a regular expression matches, prompts. Superseded: the
RC2 chain, whose reports are given files. The others are ordered by what can go wrong:

1. `IssueOutput`: validation of model answers and the comparison of primary and secondary results, as operators, checked
   against a reference reading of the documents over all small inputs.
2. `ResourceSlots`: four workers, two local slots, one OCR slot, two provider slots, several jobs; no deadlock, limits
   kept, every waiting job served.

Theorems planned: the limits of `ResourceSlots`.
