--------------------------- MODULE Pipeline_proofs ---------------------------
(***************************************************************************)
(* For every number of stages, workers, request threads and provider       *)
(* calls: the job is run by one registered executor thread at a time, what *)
(* its report claims is true of the threads and of the outputs on disk,    *)
(* a finished output is never paid for again, and the job crosses the      *)
(* provider boundary only as ProviderBoundary specifies, whose promises it *)
(* keeps.                                                                  *)
(***************************************************************************)
EXTENDS Pipeline, WellFoundedInduction, TLAPS

-----------------------------------------------------------------------------
(* The two files of a job.  What the operations on pipeline-control.json     *)
(* preserve is known from the boundary.                                      *)

Through == INSTANCE ProviderBoundary_proofs WITH
  Callers <- Workers, SlotCallers <- Workers,
  caller <- BoundaryCaller, up <- (phase # "down"), reported <- (report # NoReport)

LEMMA ThroughAssumptions ==
  /\ Workers \subseteq Workers /\ MaxAttempts \in Nat \ {0}
  /\ NoProvider \notin Providers /\ NoControl \notin Through!Control
BY PipelineAssumption, ControlAssumption
DEF Control, Through!Control, ProviderExecutionMode, Through!ProviderExecutionMode

\* Every operation on the control file, present or not, yields a control.
LEMMA ControlOperations ==
  ASSUME NEW file \in Control \cup {NoControl},
         NEW mode \in ProviderExecutionMode,
         NEW provider \in Providers \cup {NoProvider}
  PROVE  /\ EnsurePipelineControl(file, mode) \in Control
         /\ SetProviderMode(file, mode) \in Control
         /\ ApproveProviderPhase(file) \in Control
         /\ RequestPipelineCancel(file) \in Control
         /\ ClearPipelineCancel(file) \in Control
         /\ BeginProviderCall(file, provider) \in Control
         /\ FinishProviderCall(file, provider) \in Control
         /\ ClearStaleProviderActivity(file) \in Control \cup {NoControl}
<1>1. /\ Control = Through!Control /\ ProviderExecutionMode = Through!ProviderExecutionMode
      /\ \A m \in ProviderExecutionMode : Existing(file, m) = Through!Existing(file, m)
  BY DEF Control, Through!Control, ProviderExecutionMode, Through!ProviderExecutionMode,
     Existing, Through!Existing, NewControl, Through!NewControl
<1>2. /\ EnsurePipelineControl(file, mode) = Through!EnsurePipelineControl(file, mode)
      /\ SetProviderMode(file, mode) = Through!SetProviderMode(file, mode)
  BY <1>1, Zenon DEF EnsurePipelineControl, Through!EnsurePipelineControl, SetProviderMode,
     Through!SetProviderMode
<1>3. /\ ApproveProviderPhase(file) = Through!ApproveProviderPhase(file)
      /\ RequestPipelineCancel(file) = Through!RequestPipelineCancel(file)
      /\ ClearPipelineCancel(file) = Through!ClearPipelineCancel(file)
  BY Zenon DEF ApproveProviderPhase, Through!ApproveProviderPhase, RequestPipelineCancel,
     Through!RequestPipelineCancel, ClearPipelineCancel, Through!ClearPipelineCancel,
     Existing, Through!Existing, NewControl, Through!NewControl
<1>4. /\ BeginProviderCall(file, provider) = Through!BeginProviderCall(file, provider)
      /\ FinishProviderCall(file, provider) = Through!FinishProviderCall(file, provider)
      /\ ClearStaleProviderActivity(file) = Through!ClearStaleProviderActivity(file)
  BY Zenon DEF BeginProviderCall, Through!BeginProviderCall, FinishProviderCall,
     Through!FinishProviderCall, ClearStaleProviderActivity, Through!ClearStaleProviderActivity,
     GetPipelineControl, Through!GetPipelineControl, Existing, Through!Existing, NewControl,
     Through!NewControl
<1>5. /\ Through!EnsurePipelineControl(file, mode) \in Through!Control
      /\ Through!SetProviderMode(file, mode) \in Through!Control
      /\ Through!ApproveProviderPhase(file) \in Through!Control
      /\ Through!RequestPipelineCancel(file) \in Through!Control
      /\ Through!ClearPipelineCancel(file) \in Through!Control
      /\ Through!BeginProviderCall(file, provider) \in Through!Control
      /\ Through!FinishProviderCall(file, provider) \in Through!Control
      /\ Through!ClearStaleProviderActivity(file) \in Through!Control \cup {NoControl}
  BY <1>1, ThroughAssumptions, Through!ControlOperations
<1>6. QED BY <1>1, <1>2, <1>3, <1>4, <1>5

\* Only a call's begin, its end and startup recovery touch active_provider; a
\* user's operation on an existing file never does.
LEMMA UserKeepsActive ==
  ASSUME NEW file \in Control, NEW mode \in ProviderExecutionMode
  PROVE  /\ EnsurePipelineControl(file, mode).active_provider = file.active_provider
         /\ SetProviderMode(file, mode).active_provider = file.active_provider
         /\ ApproveProviderPhase(file).active_provider = file.active_provider
         /\ RequestPipelineCancel(file).active_provider = file.active_provider
         /\ ClearPipelineCancel(file).active_provider = file.active_provider
BY ThroughAssumptions, Through!UserKeepsActive
DEF ProviderExecutionMode, Through!ProviderExecutionMode, Control, Through!Control,
    NewControl, Through!NewControl, Existing, Through!Existing, GetPipelineControl,
    Through!GetPipelineControl, EnsurePipelineControl,
    Through!EnsurePipelineControl, SetProviderMode, Through!SetProviderMode,
    ApproveProviderPhase, Through!ApproveProviderPhase, RequestPipelineCancel,
    Through!RequestPipelineCancel, ClearPipelineCancel,
    Through!ClearPipelineCancel, BeginProviderCall, Through!BeginProviderCall,
    FinishProviderCall, Through!FinishProviderCall, ClearStaleProviderActivity,
    Through!ClearStaleProviderActivity

-----------------------------------------------------------------------------
(* What the `_mark_*` helpers and startup recovery preserve of a report: its *)
(* type, the agreement between its current stage, its status and its stages, *)
(* and which stages it calls done.                                           *)

\* The statuses that claim a thread is at work.
Live == {"RUNNING", "WAITING_WORKER"}

\* A report that shows COMPLETE, or stands past the last stage, has every stage
\* done; one that claims a thread at work stands at a stage.
Sound(r) ==
  /\ r.current_stage = Finished => AllDone(r)
  /\ r.status \in Live => r.current_stage \in Stage
  /\ r.status = "COMPLETE" => AllDone(r)

\* No stage is done in `new` that is not done in `old`.
NothingGained(old, new) == \A t \in Stage : IsDone(new, t) => IsDone(old, t)

LEMMA StageFacts ==
  /\ Finished \in Nat /\ Finished \notin Stage /\ Stage \subseteq 1..Finished
  /\ 1 \in Stage
  /\ \A s \in Stage : s + 1 \in 1..Finished
  /\ \A s \in 1..Finished : s \notin Stage => s = Finished
BY StageAssumption DEF Stage, Finished

\* Every set of stages that is not empty has a first one.
LEMMA FirstStage ==
  ASSUME NEW S \in SUBSET Stage, S # {}
  PROVE  \E m \in S : \A t \in S : m <= t
<1>1. S \subseteq Nat
  BY StageAssumption DEF Stage
<1>2. PICK m \in S : \A t \in S : ~ (<<t, m>> \in OpToRel(<, Nat))
  BY <1>1, NatLessThanWellFounded, WFMin
<1>3. \A t \in S : ~ (t < m)
  BY <1>1, <1>2 DEF OpToRel
<1>4. QED BY <1>1, <1>3

LEMMA FirstInFact ==
  ASSUME NEW r \in Report, NEW states, \E s \in Stage : r.state[s] \in states
  PROVE  FirstIn(r, states) \in Stage /\ r.state[FirstIn(r, states)] \in states
<1> DEFINE S == {s \in Stage : r.state[s] \in states}
<1>1. PICK m \in S : \A t \in S : m <= t
  BY FirstStage
<1>2. \E s \in Stage : /\ r.state[s] \in states
                       /\ \A t \in Stage : r.state[t] \in states => s <= t
  BY <1>1
<1>3. QED BY <1>2 DEF FirstIn

LEMMA Initial ==
  /\ InitialReport \in Report /\ Sound(InitialReport)
  /\ InitialReport.status = "QUEUED"
  /\ \A t \in Stage : ~IsDone(InitialReport, t)
<1>1. InitialReport \in Report
  BY StageFacts DEF InitialReport, Report, PipelineStatus, StageState
<1>2. Sound(InitialReport)
  BY StageFacts DEF InitialReport, Sound, Live
<1>3. QED BY <1>1, <1>2 DEF InitialReport, IsDone

\* The marks of a worker at stage s: running, waiting for a slot, waiting for
\* the user, failed.  The stage itself is no longer done, the others are kept.
Marked(r, s, state, status) ==
  [r EXCEPT !.state[s] = state, !.status = status, !.current_stage = s]

LEMMA StageMark ==
  ASSUME NEW r \in Report, NEW s \in Stage, NEW state \in StageState \ {"COMPLETE", "SKIPPED"},
         NEW status \in PipelineStatus \ {"COMPLETE"}
  PROVE  /\ Marked(r, s, state, status) \in Report
         /\ Sound(Marked(r, s, state, status))
         /\ NothingGained(r, Marked(r, s, state, status))
         /\ Marked(r, s, state, status).status = status
         /\ \A t \in Stage \ {s} : IsDone(r, t) => IsDone(Marked(r, s, state, status), t)
<1> DEFINE new == Marked(r, s, state, status)
<1>1. new \in Report
  BY StageFacts DEF Report, Marked
<1>2. new.current_stage = s /\ new.status = status /\ new.state[s] = state
  BY DEF Report, Marked
<1>3. \A t \in Stage \ {s} : new.state[t] = r.state[t]
  BY DEF Report, Marked
<1>4. Sound(new)
  BY <1>2, StageFacts DEF Sound
<1>5. NothingGained(r, new)
  BY <1>2, <1>3 DEF NothingGained, IsDone
<1>6. \A t \in Stage \ {s} : IsDone(r, t) => IsDone(new, t)
  BY <1>3 DEF IsDone
<1>7. QED BY <1>1, <1>2, <1>4, <1>5, <1>6

LEMMA Running ==
  ASSUME NEW r \in Report, NEW s \in Stage
  PROVE  /\ MarkRunning(r, s) \in Report /\ Sound(MarkRunning(r, s))
         /\ NothingGained(r, MarkRunning(r, s))
         /\ \A t \in Stage \ {s} : IsDone(r, t) => IsDone(MarkRunning(r, s), t)
         /\ MarkWaitingWorker(r, s) \in Report /\ Sound(MarkWaitingWorker(r, s))
         /\ NothingGained(r, MarkWaitingWorker(r, s))
         /\ \A t \in Stage \ {s} : IsDone(r, t) => IsDone(MarkWaitingWorker(r, s), t)
<1>1. /\ "RUNNING" \in StageState \ {"COMPLETE", "SKIPPED"}
      /\ "WAITING" \in StageState \ {"COMPLETE", "SKIPPED"}
      /\ "RUNNING" \in PipelineStatus \ {"COMPLETE"}
      /\ "WAITING_WORKER" \in PipelineStatus \ {"COMPLETE"}
  BY DEF StageState, PipelineStatus
<1>2. /\ MarkRunning(r, s) = Marked(r, s, "RUNNING", "RUNNING")
      /\ MarkWaitingWorker(r, s) = Marked(r, s, "WAITING", "WAITING_WORKER")
  BY DEF MarkRunning, MarkWaitingWorker, Marked
<1>3. QED BY <1>1, <1>2, StageMark

\* The marks of the exception handlers.
LEMMA Stopped ==
  ASSUME NEW r \in Report, Sound(r), NEW s \in Stage,
         NEW state \in {"WAITING", "FAILED"},
         NEW status \in {"FAILED", "PAUSED_BEFORE_PROVIDER", "WAITING_OPTIONAL_COMPONENT",
                         "WAITING_CONFIGURATION"}
  PROVE  /\ MarkStopped(r, s, state, status) \in Report
         /\ Sound(MarkStopped(r, s, state, status))
         /\ NothingGained(r, MarkStopped(r, s, state, status))
         /\ MarkStopped(r, s, state, status).status \notin Live
<1>1. state \in StageState \ {"COMPLETE", "SKIPPED"} /\ status \in PipelineStatus \ {"COMPLETE"}
      /\ status \notin Live
  BY DEF StageState, PipelineStatus, Live
<1>2. MarkStopped(r, s, state, status) = Marked(r, s, state, status)
  BY DEF MarkStopped, Marked
<1>3. QED BY <1>1, <1>2, StageMark

\* A finished stage: how it was finished counts as done.
LEMMA Done ==
  ASSUME NEW r \in Report, Sound(r), NEW s \in Stage, NEW how \in {"COMPLETE", "SKIPPED"}
  PROVE  /\ MarkDone(r, s, how) \in Report /\ Sound(MarkDone(r, s, how))
         /\ IsDone(MarkDone(r, s, how), s)
         /\ \A t \in Stage \ {s} : IsDone(MarkDone(r, s, how), t) <=> IsDone(r, t)
<1> DEFINE new == MarkDone(r, s, how)
<1>1. new \in Report
  BY StageFacts DEF MarkDone, Report, StageState
<1>2. new.status = r.status /\ new.current_stage = s /\ new.state[s] = how
  BY DEF MarkDone, Report
<1>3. \A t \in Stage \ {s} : new.state[t] = r.state[t]
  BY DEF MarkDone, Report
<1>4. IsDone(new, s) /\ \A t \in Stage \ {s} : IsDone(new, t) <=> IsDone(r, t)
  BY <1>2, <1>3 DEF IsDone
<1>5. Sound(new)
  BY <1>2, <1>4, StageFacts DEF Sound, AllDone
<1>6. QED BY <1>1, <1>4, <1>5

\* Ingest marks stage 1 done, whatever the report it loaded says.
LEMMA Ingested ==
  ASSUME NEW r \in Report, Sound(r)
  PROVE  /\ MarkIngested(r) \in Report /\ Sound(MarkIngested(r))
         /\ IsDone(MarkIngested(r), 1)
         /\ \A t \in Stage \ {1} : IsDone(MarkIngested(r), t) <=> IsDone(r, t)
<1> DEFINE new == MarkIngested(r)
<1>1. CASE IsDone(r, 1)
  BY <1>1 DEF MarkIngested
<1>2. CASE ~IsDone(r, 1)
  <2>1. new = [r EXCEPT !.state[1] = "COMPLETE", !.status = "RUNNING"]
    BY <1>2 DEF MarkIngested
  <2>2. new \in Report
    <3>1. "COMPLETE" \in StageState /\ "RUNNING" \in PipelineStatus
      BY DEF StageState, PipelineStatus
    <3>2. [r EXCEPT !.state[1] = "COMPLETE", !.status = "RUNNING"] \in Report
      BY <3>1 DEF Report
    <3>3. QED BY <2>1, <3>2
  <2>3. /\ new.status = "RUNNING" /\ new.current_stage = r.current_stage
        /\ new.state[1] = "COMPLETE"
    BY <2>1, StageFacts DEF Report
  <2>4. \A t \in Stage \ {1} : new.state[t] = r.state[t]
    BY <2>1 DEF Report
  <2>5. IsDone(new, 1) /\ \A t \in Stage \ {1} : IsDone(new, t) <=> IsDone(r, t)
    BY <2>3, <2>4 DEF IsDone
  <2>6. r.current_stage \in 1..Finished /\ r.current_stage # Finished
    BY <1>2, StageFacts DEF Sound, AllDone, Report
  <2>7. Sound(new)
    BY <2>3, <2>6, StageFacts DEF Sound
  <2>8. QED BY <2>2, <2>5, <2>7
<1>3. QED BY <1>1, <1>2

\* COMPLETE is written over a report with every stage done.
LEMMA Completed ==
  ASSUME NEW r \in Report, AllDone(r)
  PROVE  /\ MarkComplete(r) \in Report /\ Sound(MarkComplete(r))
         /\ NothingGained(r, MarkComplete(r)) /\ MarkComplete(r).status = "COMPLETE"
<1>1. "COMPLETE" \in PipelineStatus /\ Finished \in 1..Finished
  BY StageAssumption DEF PipelineStatus, Finished
<1>2. MarkComplete(r) \in Report /\ MarkComplete(r).state = r.state
      /\ MarkComplete(r).status = "COMPLETE"
  BY <1>1 DEF MarkComplete, Report
<1>3. QED BY <1>2 DEF Sound, AllDone, IsDone, NothingGained, Live

LEMMA Cancelled ==
  ASSUME NEW r \in Report, Sound(r)
  PROVE  /\ MarkCancelled(r) \in Report /\ Sound(MarkCancelled(r))
         /\ NothingGained(r, MarkCancelled(r)) /\ MarkCancelled(r).status = "CANCELLED"
         /\ MarkCancelRequested(r) \in Report /\ Sound(MarkCancelRequested(r))
         /\ NothingGained(r, MarkCancelRequested(r))
         /\ MarkCancelRequested(r).status = "CANCEL_REQUESTED"
<1>1. /\ MarkCancelRequested(r) \in Report /\ MarkCancelRequested(r).state = r.state
      /\ MarkCancelRequested(r).status = "CANCEL_REQUESTED"
      /\ MarkCancelRequested(r).current_stage = r.current_stage
  BY DEF MarkCancelRequested, Report, PipelineStatus
<1>2. Sound(MarkCancelRequested(r)) /\ NothingGained(r, MarkCancelRequested(r))
  BY <1>1 DEF Sound, AllDone, IsDone, NothingGained, Live
<1>3. CASE AllDone(r)
  <2>1. MarkCancelled(r) = [r EXCEPT !.status = "CANCELLED"]
    BY <1>3 DEF MarkCancelled
  <2>2. /\ MarkCancelled(r) \in Report /\ MarkCancelled(r).state = r.state
        /\ MarkCancelled(r).status = "CANCELLED"
    BY <2>1 DEF Report, PipelineStatus
  <2>3. Sound(MarkCancelled(r)) /\ NothingGained(r, MarkCancelled(r))
    BY <1>3, <2>2 DEF Sound, AllDone, IsDone, NothingGained, Live
  <2>4. QED BY <1>1, <1>2, <2>2, <2>3
<1>4. CASE ~AllDone(r)
  <2> DEFINE next == FirstIn(r, StageState \ {"COMPLETE", "SKIPPED"})
  <2>1. next \in Stage
    <3>1. \E s \in Stage : r.state[s] \in StageState \ {"COMPLETE", "SKIPPED"}
      BY <1>4 DEF AllDone, IsDone, Report
    <3>2. QED BY <3>1, FirstInFact
  <2>2. MarkCancelled(r) = Marked(r, next, "CANCELLED", "CANCELLED")
    BY <1>4 DEF MarkCancelled, Report, Marked
  <2>3. "CANCELLED" \in StageState \ {"COMPLETE", "SKIPPED"} /\ "CANCELLED" \in PipelineStatus \ {"COMPLETE"}
    BY DEF StageState, PipelineStatus
  <2> HIDE DEF next
  <2>4. QED BY <1>1, <1>2, <2>1, <2>2, <2>3, StageMark
<1>5. QED BY <1>3, <1>4

\* A report whose states are replaced by others that are not more done, and
\* whose finished stages stay finished.
Rewritten(r, state, status) == [r EXCEPT !.status = status, !.state = state]

LEMMA Reset ==
  ASSUME NEW r \in Report, Sound(r), NEW state \in [Stage -> StageState],
         NEW status \in PipelineStatus \ (Live \cup {"COMPLETE"}),
         \A t \in Stage : state[t] \in {"COMPLETE", "SKIPPED"} <=> IsDone(r, t)
  PROVE  /\ Rewritten(r, state, status) \in Report
         /\ Sound(Rewritten(r, state, status))
         /\ NothingGained(r, Rewritten(r, state, status))
         /\ Rewritten(r, state, status).status = status
<1> DEFINE new == Rewritten(r, state, status)
<1>1. /\ new \in Report /\ new.state = state /\ new.status = status
      /\ new.current_stage = r.current_stage
  BY DEF Report, Rewritten
<1>2. \A t \in Stage : IsDone(new, t) <=> IsDone(r, t)
  BY <1>1 DEF IsDone
<1>3. QED BY <1>1, <1>2 DEF Sound, NothingGained, AllDone

\* What the requests write when they start or resume.
LEMMA Restarted ==
  ASSUME NEW r \in Report, Sound(r)
  PROVE  /\ ResetForStart(r) \in Report /\ Sound(ResetForStart(r))
         /\ NothingGained(r, ResetForStart(r)) /\ ResetForStart(r).status = "QUEUED"
         /\ ResetCancelled(r) \in Report /\ Sound(ResetCancelled(r))
         /\ NothingGained(r, ResetCancelled(r)) /\ ResetCancelled(r).status = "FAILED"
<1>1. /\ ResetCancelled(r) \in Report /\ Sound(ResetCancelled(r))
      /\ NothingGained(r, ResetCancelled(r)) /\ ResetCancelled(r).status = "FAILED"
  <2> DEFINE state == [s \in Stage |->
                         IF r.state[s] = "CANCELLED" THEN "PENDING" ELSE r.state[s]]
  <2>1. state \in [Stage -> StageState]
    BY DEF Report, StageState
  <2>2. \A t \in Stage : state[t] \in {"COMPLETE", "SKIPPED"} <=> IsDone(r, t)
    BY DEF IsDone
  <2>3. "FAILED" \in PipelineStatus \ (Live \cup {"COMPLETE"})
    BY DEF PipelineStatus, Live
  <2>4. ResetCancelled(r) = Rewritten(r, state, "FAILED")
    BY DEF ResetCancelled, Rewritten
  <2> HIDE DEF state
  <2>5. QED BY <2>1, <2>2, <2>3, <2>4, Reset
<1> DEFINE state == [s \in Stage |->
                       IF r.state[s] \in {"RUNNING", "WAITING", "FAILED"}
                       THEN "PENDING" ELSE r.state[s]]
           reset == Rewritten(r, state, "QUEUED")
<1>2. state \in [Stage -> StageState]
  BY DEF Report, StageState
<1>3. \A t \in Stage : state[t] \in {"COMPLETE", "SKIPPED"} <=> IsDone(r, t)
  BY DEF IsDone
<1>4. "QUEUED" \in PipelineStatus \ (Live \cup {"COMPLETE"})
  BY DEF PipelineStatus, Live
<1>5. ResetForStart(r) = IF \A s \in Stage : state[s] # "PENDING" THEN reset
                         ELSE [reset EXCEPT !.current_stage = FirstIn(reset, {"PENDING"})]
  BY DEF ResetForStart, Rewritten
<1> HIDE DEF state
<1>6. reset \in Report /\ Sound(reset) /\ NothingGained(r, reset) /\ reset.status = "QUEUED"
  BY <1>2, <1>3, <1>4, Reset
<1>7. reset.state = state
  BY DEF Report, Rewritten
<1> HIDE DEF reset
<1>8. CASE \A s \in Stage : state[s] # "PENDING"
  BY <1>1, <1>5, <1>6, <1>8
<1>9. CASE ~ \A s \in Stage : state[s] # "PENDING"
  <2> DEFINE first == FirstIn(reset, {"PENDING"})
             new == [reset EXCEPT !.current_stage = first]
  <2>1. first \in Stage
    <3>1. \E s \in Stage : reset.state[s] \in {"PENDING"}
      BY <1>7, <1>9
    <3>2. QED BY <1>6, <3>1, FirstInFact
  <2>2. ResetForStart(r) = new
    BY <1>5, <1>9
  <2> HIDE DEF first
  <2>3. /\ new \in Report /\ new.current_stage = first /\ new.status = "QUEUED"
        /\ new.state = reset.state
    BY <1>6, <2>1, StageFacts DEF Report
  <2> HIDE DEF new
  <2>4. Sound(new) /\ NothingGained(r, new)
    BY <1>6, <2>1, <2>3, StageFacts DEF Sound, NothingGained, Live, IsDone
  <2>5. QED BY <1>1, <2>2, <2>3, <2>4
<1>10. QED BY <1>8, <1>9

\* Startup recovery leaves no report that claims a thread at work.
LEMMA Recovered ==
  ASSUME NEW r \in Report, Sound(r), NEW cancel \in BOOLEAN
  PROVE  /\ Reconciled(r, cancel) \in Report /\ Sound(Reconciled(r, cancel))
         /\ NothingGained(r, Reconciled(r, cancel))
         /\ Reconciled(r, cancel).status \notin Live
<1>1. ASSUME NEW state \in {"CANCELLED", "FAILED"}, NEW status \in {"CANCELLED", "FAILED"}
      PROVE  /\ StopCurrent(r, state, status) \in Report /\ Sound(StopCurrent(r, state, status))
             /\ NothingGained(r, StopCurrent(r, state, status))
             /\ StopCurrent(r, state, status).status \notin Live
  <2> DEFINE s == r.current_stage
  <2>1. /\ state \in StageState \ {"COMPLETE", "SKIPPED"}
        /\ status \in PipelineStatus \ (Live \cup {"COMPLETE"}) /\ status \notin Live
    BY DEF StageState, PipelineStatus, Live
  <2>2. CASE s \in Stage /\ r.state[s] \in {"RUNNING", "WAITING", "PENDING"}
    <3>1. StopCurrent(r, state, status) = Marked(r, s, state, status)
      BY <2>2 DEF StopCurrent, Report, Marked
    <3>2. QED BY <2>1, <2>2, <3>1, StageMark
  <2>3. CASE ~(s \in Stage /\ r.state[s] \in {"RUNNING", "WAITING", "PENDING"})
    <3>1. StopCurrent(r, state, status) = Rewritten(r, r.state, status)
      BY <2>3 DEF StopCurrent, Report, Rewritten
    <3>2. r.state \in [Stage -> StageState]
          /\ \A t \in Stage : r.state[t] \in {"COMPLETE", "SKIPPED"} <=> IsDone(r, t)
      BY DEF Report, IsDone
    <3>3. QED BY <2>1, <3>1, <3>2, Reset
  <2>4. QED BY <2>2, <2>3
<1>2. CASE r.status = "CANCEL_REQUESTED" \/ cancel
  BY <1>1, <1>2 DEF Reconciled
<1>3. CASE ~(r.status = "CANCEL_REQUESTED" \/ cancel) /\ r.status \in Transient
  BY <1>1, <1>3 DEF Reconciled
<1>4. CASE ~(r.status = "CANCEL_REQUESTED" \/ cancel) /\ r.status \notin Transient
  BY <1>4 DEF Reconciled, NothingGained, Transient, Live
<1>5. QED BY <1>2, <1>3, <1>4

-----------------------------------------------------------------------------
(* The inductive invariant.                                                *)

\* Places by what is true of a worker there.
Calling  == {"begun", "slotwait", "cleared", "posting", "inflight", "backoff", "returned"}
Provided == Calling \cup {"ready"}
Unbuilt  == Provided \cup {"localwait", "working"}
AtStage  == Unbuilt \cup {"stage", "built"}
InLoop   == AtStage \cup {"checkpoint", "cancelling", "completing"}

\* The worker's copy exists and has every earlier stage done; its stage is one
\* of the places' kind; a call is counted and has an attempt left before it is
\* sent.
Shape(x) ==
  /\ x.at \in InLoop \cup {"ingest", "handling"} => x.copy \in Report
  /\ x.at \in InLoop => \A t \in Stage : t < x.stage => IsDone(x.copy, t)
  /\ x.at \in AtStage \cup {"raised", "handling"} => x.stage \in Stage
  /\ x.at = "completing" => x.stage = Finished
  /\ x.at \in Provided => x.stage \in ProviderStages
  /\ x.at \in Calling => x.calls > 0
  /\ x.at \in Calling \ {"inflight", "returned"} => x.attempt < MaxAttempts

\* What a worker at x.at knows of the two files.
Knows(x, file, outputs) ==
  /\ x.at \in Calling => file \in Control /\ file.active_provider = ProviderOf[x.stage]
  /\ x.at \in Unbuilt => x.stage \notin outputs
  /\ x.at = "built" => x.stage \in outputs

\* A copy of the report, wherever it is.
CopyOK(copy, outputs) ==
  copy # NoReport =>
    /\ Sound(copy)
    /\ \A s \in Stage : IsDone(copy, s) => s \in outputs \cup Unneeded

\* A request that writes a report back, or submits one, has one.
HoldsCopy ==
  {"mode_control", "cancel_control", "cancel_future", "cancel_persist",
   "resume_future", "resume_control", "resume_persist"}

RequestOK(x, file) ==
  /\ x.at \in HoldsCopy => x.copy \in Report
  /\ x.at = "submit" => file # NoReport

Claims(file) == file # NoReport /\ file.status \in Live
AtWork(w) == Active(w) /\ worker[w].at # "exiting"

\* A handler that found no current stage has nothing to take back: the report has
\* claimed no thread at work since.
LeavesNoClaim(x, file) ==
  x.at = "handling" /\ x.copy.current_stage \notin Stage => ~Claims(file)

IInv ==
  /\ TypeOK
  /\ ActiveRunIsRegistered
  /\ phase # "up" => \A w \in Workers : worker[w].at = "none"
  /\ \A w \in Workers : worker[w].at # "none" => report # NoReport
  /\ 1 \in artifact
  /\ CopyOK(report, artifact)
  /\ \A w \in Workers : CopyOK(worker[w].copy, artifact)
  /\ \A c \in Clients : CopyOK(client[c].copy, artifact)
  /\ \A w \in Workers : Shape(worker[w]) /\ Knows(worker[w], control, artifact)
  /\ \A w \in Workers : LeavesNoClaim(worker[w], report)
  /\ \A c \in Clients : RequestOK(client[c], report)
  /\ phase = "up" /\ Claims(report) => \E w \in Workers : AtWork(w)

-----------------------------------------------------------------------------
(* Small facts.                                                            *)

\* The history keeps its type whatever a step does.
LEMMA History ==
  ASSUME TypeOK, NEW posting, Boundary!Observe(posting)
  PROVE  /\ late' \in [Workers -> Nat] /\ granted' \in BOOLEAN
         /\ crossed' \in SUBSET Workers /\ blind' \in BOOLEAN
<1>1. Boundary!FileAllows(control') \in BOOLEAN
  BY DEF Boundary!FileAllows, Boundary!ProviderAllowed, Boundary!NotCancelled, Boundary!PolicyAllows
<1>2. \A w \in Workers : late[w] \in Nat
  BY DEF TypeOK
<1>3. late' \in [Workers -> Nat]
  BY <1>2 DEF Boundary!Observe
<1>4. granted' \in BOOLEAN
  BY <1>1 DEF Boundary!Observe, TypeOK
<1>5. crossed' \in SUBSET Workers
  BY DEF Boundary!Observe
<1>6. blind' \in BOOLEAN
  <2>1. blind \in BOOLEAN
    BY DEF TypeOK
  <2>2. \/ blind' = (report = NoReport)
        \/ blind' = (blind /\ \A w \in Workers : Boundary!Outbound(w)' => Boundary!Outbound(w))
    BY Zenon DEF Boundary!Observe
  <2>3. QED BY <2>1, <2>2
<1>7. QED BY <1>3, <1>4, <1>5, <1>6

\* More outputs back a copy as well, and so does a copy that claims less.
LEMMA CopyKept ==
  ASSUME NEW copy, NEW new, NEW outputs, NEW more, outputs \subseteq more,
         CopyOK(copy, outputs), copy # NoReport,
         Sound(new), NothingGained(copy, new)
  PROVE  CopyOK(new, more)
BY DEF CopyOK, NothingGained

LEMMA Bounds ==
  /\ MaxCalls \in Nat /\ MaxCalls > 0 /\ MaxAttempts \in Nat /\ MaxAttempts > 0
  /\ 0 \in 0..MaxCalls /\ 0 \in 0..MaxAttempts
  /\ ProviderStages \subseteq Stage
  /\ \A s \in ProviderStages : ProviderOf[s] \in Providers
<1>1. MaxCalls \in Nat \ {0} /\ MaxAttempts \in Nat \ {0}
  BY PipelineAssumption
<1>2. ProviderStages \subseteq Stage /\ \A s \in ProviderStages : ProviderOf[s] \in Providers
  BY PipelineAssumption
<1>3. QED BY <1>1, <1>2

LEMMA IdleThread == NoThread \in WorkerState /\ Shape(NoThread)
<1>1. NoThread \in WorkerState
  BY StageFacts, PipelineAssumption DEF NoThread, WorkerState, WorkerPlace, Outcome, Stage
<1>2. Shape(NoThread)
  BY DEF NoThread, Shape, InLoop, AtStage, Unbuilt, Provided, Calling
<1>3. QED BY <1>1, <1>2

LEMMA IdleRequest == NoRequest \in ClientState
BY DEF NoRequest, ClientState, ClientPlace, RequestKinds, ProviderExecutionMode

LEMMA Initially == Init => IInv
<1> SUFFICES ASSUME Init PROVE IInv
  OBVIOUS
<1>1. TypeOK
  BY IdleThread, IdleRequest, StageFacts DEF Init, TypeOK
<1>2. \A w \in Workers : worker[w] = NoThread
  BY DEF Init
<1>3. \A c \in Clients : client[c] = NoRequest
  BY DEF Init
<1>4. \A w \in Workers : ~Active(w) /\ worker[w].at = "none" /\ worker[w].copy = NoReport
  BY <1>2 DEF Active, NoThread
<1>5. \A w \in Workers : /\ Shape(worker[w]) /\ Knows(worker[w], control, artifact)
                         /\ LeavesNoClaim(worker[w], report)
  BY <1>2, <1>4, IdleThread DEF Knows, LeavesNoClaim, Calling, Unbuilt, Provided
<1>6. \A c \in Clients : RequestOK(client[c], report) /\ client[c].copy = NoReport
  BY <1>3 DEF RequestOK, NoRequest, HoldsCopy
<1>7. QED
  BY <1>1, <1>4, <1>5, <1>6 DEF IInv, ActiveRunIsRegistered, CopyOK, Claims, Init

-----------------------------------------------------------------------------
(* One step of the worker that runs the job.                               *)

LEMMA WorkerStep ==
  ASSUME IInv, NEW w \in Workers, phase = "up", AtWork(w), NEW x \in WorkerState,
         worker' = [worker EXCEPT ![w] = x], UNCHANGED <<future, client, phase>>,
         NEW posting, Boundary!Observe(posting),
         control' \in Control \cup {NoControl}, report' \in Report,
         artifact' \subseteq Stage, artifact \subseteq artifact',
         x.at \notin {"none", "ending"},
         Shape(x), Knows(x, control', artifact'),
         CopyOK(x.copy, artifact'), CopyOK(report', artifact'),
         x.at = "exiting" => ~Claims(report'),
         x.at # "handling" \/ LeavesNoClaim(x, report')
  PROVE  IInv'
<1>1. TypeOK'
  BY History DEF IInv, TypeOK
<1>2. worker'[w] = x /\ \A v \in Workers \ {w} : worker'[v] = worker[v]
  BY DEF IInv, TypeOK
<1>3. \A v \in Workers \ {w} : worker[v].at \in {"none", "ending"}
  BY DEF IInv, ActiveRunIsRegistered, AtWork, Active
<1>4. ActiveRunIsRegistered'
  BY <1>2, <1>3 DEF IInv, ActiveRunIsRegistered, AtWork, Active
<1>5. report' # NoReport /\ phase' = "up"
  BY ReportAssumption
<1>6. 1 \in artifact'
  BY DEF IInv
<1>7. ASSUME NEW v \in Workers
      PROVE  /\ CopyOK(worker'[v].copy, artifact')
             /\ Shape(worker'[v]) /\ Knows(worker'[v], control', artifact')
             /\ LeavesNoClaim(worker'[v], report')
  <2>1. CASE v = w
    BY <1>2, <2>1 DEF LeavesNoClaim
  <2>2. CASE v # w
    <3>1. worker'[v] = worker[v] /\ worker[v].at \in {"none", "ending"}
      BY <1>2, <1>3, <2>2
    <3>2. CopyOK(worker[v].copy, artifact) /\ Shape(worker[v])
      BY DEF IInv
    <3>3. Knows(worker[v], control', artifact') /\ LeavesNoClaim(worker[v], report')
      BY <3>1 DEF Knows, LeavesNoClaim, Calling, Unbuilt, Provided
    <3>4. QED BY <3>1, <3>2, <3>3 DEF CopyOK
  <2>3. QED BY <2>1, <2>2
<1>8. \A c \in Clients : CopyOK(client'[c].copy, artifact') /\ RequestOK(client'[c], report')
  BY <1>5 DEF IInv, CopyOK, RequestOK
<1>9. Claims(report') => \E v \in Workers : AtWork(v)'
  BY <1>2 DEF AtWork, Active
<1>10. QED BY <1>1, <1>4, <1>5, <1>6, <1>7, <1>8, <1>9 DEF IInv

\* What a worker that runs the job has at hand.
LEMMA WorkerFacts ==
  ASSUME IInv, NEW w \in Workers
  PROVE  /\ worker[w] \in WorkerState /\ Shape(worker[w])
         /\ Knows(worker[w], control, artifact) /\ CopyOK(worker[w].copy, artifact)
         /\ control \in Control \cup {NoControl} /\ artifact \subseteq Stage
         /\ 1 \in artifact /\ CopyOK(report, artifact)
         /\ worker[w].at # "none" => report \in Report
BY DEF IInv, TypeOK

\* The worker takes a new copy, writes it, and moves to a place of the loop.
LEMMA WriteStep ==
  ASSUME IInv, NEW w \in Workers, phase = "up", AtWork(w), NEW x \in WorkerState,
         worker' = [worker EXCEPT ![w] = x], report' = x.copy, WorkersAndReport,
         x.at \in InLoop, Shape(x), Knows(x, control, artifact), CopyOK(x.copy, artifact)
  PROVE  IInv'
<1>1. x.copy \in Report /\ x.at \notin {"none", "ending", "exiting", "handling"}
  BY DEF Shape, InLoop, AtStage, Unbuilt, Provided, Calling
<1>2. control' = control /\ artifact' = artifact /\ UNCHANGED <<future, client, phase>>
      /\ Boundary!Observe({})
  BY DEF WorkersAndReport
<1>3. QED BY <1>1, <1>2, WorkerFacts, WorkerStep

\* The worker moves on without a write.
LEMMA MoveStep ==
  ASSUME IInv, NEW w \in Workers, phase = "up", AtWork(w), NEW x \in WorkerState,
         worker' = [worker EXCEPT ![w] = x],
         UNCHANGED <<control, report, artifact, future, client, phase>>,
         NEW posting, Boundary!Observe(posting),
         x.at \notin {"none", "ending", "exiting"},
         Shape(x), Knows(x, control, artifact), CopyOK(x.copy, artifact),
         x.at # "handling" \/ LeavesNoClaim(x, report)
  PROVE  IInv'
BY WorkerFacts, WorkerStep DEF AtWork, Active

\* The last write of a run.
LEMMA LastStep ==
  ASSUME IInv, NEW w \in Workers, phase = "up", AtWork(w), NEW copy \in Report,
         LastWrite(w, copy), CopyOK(copy, artifact), copy.status \notin Live
  PROVE  IInv'
<1> DEFINE x == [NoThread EXCEPT !.at = "exiting"]
<1>1. x \in WorkerState /\ x.at = "exiting" /\ x.copy = NoReport
  BY IdleThread DEF WorkerState, WorkerPlace, NoThread
<1>2. Shape(x) /\ Knows(x, control, artifact) /\ CopyOK(x.copy, artifact)
  BY <1>1 DEF Shape, Knows, CopyOK, InLoop, AtStage, Unbuilt, Provided, Calling
<1>3. /\ worker' = [worker EXCEPT ![w] = x] /\ report' = copy
      /\ control' = control /\ artifact' = artifact /\ UNCHANGED <<future, client, phase>>
      /\ Boundary!Observe({})
  BY DEF LastWrite, WorkersAndReport
<1>4. ~Claims(report')
  BY <1>3 DEF Claims
<1> HIDE DEF x
<1>5. QED BY <1>1, <1>2, <1>3, <1>4, WorkerFacts, WorkerStep

\* The beginning of a run, and what happens between two stages.
LEMMA LoopStep ==
  ASSUME IInv, NEW w \in Workers,
         Load(w) \/ Ingest(w) \/ Checkpoint(w) \/ Cancelling(w) \/ Complete(w)
  PROVE  IInv'
<1> DEFINE y == worker[w]
<1>1. /\ y \in WorkerState /\ Shape(y) /\ CopyOK(y.copy, artifact) /\ worker \in [Workers -> WorkerState]
      /\ Knows(y, control, artifact)
  BY WorkerFacts DEF IInv, TypeOK
<1>2. phase = "up" /\ AtWork(w) /\ report \in Report /\ CopyOK(report, artifact)
  BY WorkerFacts DEF Load, Ingest, Checkpoint, Cancelling, Complete, At, AtWork, Active
<1>3. CASE Load(w)
  <2> DEFINE x == [y EXCEPT !.at = "ingest", !.copy = report]
  <2>1. x \in WorkerState /\ x.at = "ingest" /\ x.copy = report
    BY <1>1, <1>2 DEF WorkerState, WorkerPlace
  <2>2. worker' = [worker EXCEPT ![w] = x]
    BY <1>1, <1>3 DEF Load
  <2>3. Shape(x) /\ Knows(x, control, artifact)
    BY <1>2, <2>1 DEF Shape, Knows, InLoop, AtStage, Unbuilt, Provided, Calling
  <2> HIDE DEF x
  <2>4. QED BY <1>2, <1>3, <2>1, <2>2, <2>3, MoveStep DEF Load, OnlyWorkers
<1>4. CASE Ingest(w)
  <2> DEFINE new == MarkIngested(y.copy)
             x == [y EXCEPT !.at = "checkpoint", !.stage = 2, !.copy = new]
  <2>1. y.copy \in Report /\ Sound(y.copy)
    BY <1>1, <1>4, ReportAssumption DEF Ingest, At, Shape, CopyOK
  <2>2. /\ new \in Report /\ Sound(new) /\ IsDone(new, 1)
        /\ \A t \in Stage \ {1} : IsDone(new, t) <=> IsDone(y.copy, t)
    BY <2>1, Ingested
  <2>3. CopyOK(new, artifact)
    BY <1>1, <2>1, <2>2, WorkerFacts, ReportAssumption DEF CopyOK
  <2> HIDE DEF new
  <2>4. 2 \in 1..Finished
    BY StageAssumption DEF Finished
  <2>5. x \in WorkerState /\ x.at = "checkpoint" /\ x.copy = new /\ x.stage = 2
    BY <1>1, <2>2, <2>4 DEF WorkerState, WorkerPlace
  <2>6. worker' = [worker EXCEPT ![w] = x]
    BY <1>1, <1>4 DEF Ingest, new
  <2>7. Shape(x) /\ Knows(x, control, artifact)
    BY <2>2, <2>5, StageAssumption
    DEF Shape, Knows, InLoop, AtStage, Unbuilt, Provided, Calling, Stage
  <2> HIDE DEF x
  <2>8. report' \in Report /\ CopyOK(report', artifact)
    BY <1>2, <1>4, <2>2, <2>3 DEF Ingest, new
  <2>9. /\ control' = control /\ artifact' = artifact /\ UNCHANGED <<future, client, phase>>
        /\ Boundary!Observe({})
    BY <1>4 DEF Ingest, WorkersAndReport
  <2>10. QED BY <1>2, <2>3, <2>5, <2>6, <2>7, <2>8, <2>9, WorkerStep, WorkerFacts
<1>5. CASE Checkpoint(w)
  <2>1. PICK place \in {"cancelling", "completing", "stage"} :
           /\ Goto(w, place)
           /\ place = "completing" => y.stage = Finished
           /\ place = "stage" => y.stage # Finished
    BY <1>5 DEF Checkpoint
  <2> DEFINE x == [y EXCEPT !.at = place]
  <2>2. x \in WorkerState /\ x.at = place /\ x.copy = y.copy /\ x.stage = y.stage
    BY <1>1 DEF WorkerState, WorkerPlace
  <2>3. worker' = [worker EXCEPT ![w] = x]
    BY <1>1, <2>1 DEF Goto
  <2>4. y.copy \in Report /\ \A t \in Stage : t < y.stage => IsDone(y.copy, t)
    BY <1>1, <1>5 DEF Checkpoint, At, Shape, InLoop
  <2>5. y.stage \in Stage \/ y.stage = Finished
    BY <1>1, StageFacts DEF WorkerState
  <2>6. Shape(x) /\ Knows(x, control, artifact)
    BY <2>1, <2>2, <2>4, <2>5
    DEF Shape, Knows, InLoop, AtStage, Unbuilt, Provided, Calling
  <2> HIDE DEF x
  <2>7. QED BY <1>1, <1>2, <2>1, <2>2, <2>3, <2>6, MoveStep DEF Goto, OnlyWorkers
<1>6. CASE Cancelling(w)
  <2>1. y.copy \in Report /\ Sound(y.copy)
    BY <1>1, <1>6, ReportAssumption DEF Cancelling, At, Shape, CopyOK, InLoop
  <2>2. MarkCancelled(y.copy).status \notin Live
    BY <2>1, Cancelled DEF Live
  <2>3. CopyOK(MarkCancelled(y.copy), artifact)
    BY <1>1, <2>1, Cancelled, CopyKept, ReportAssumption
  <2>4. QED BY <1>2, <1>6, <2>1, <2>2, <2>3, Cancelled, LastStep DEF Cancelling
<1>7. CASE Complete(w)
  <2>1. /\ y.copy \in Report /\ Sound(y.copy) /\ y.stage = Finished
        /\ \A t \in Stage : t < y.stage => IsDone(y.copy, t)
    BY <1>1, <1>7, ReportAssumption DEF Complete, At, Shape, CopyOK, InLoop
  <2>2. AllDone(y.copy)
    BY <2>1, StageAssumption DEF AllDone, Stage, Finished
  <2>3. MarkComplete(y.copy).status \notin Live
    BY <2>1, <2>2, Completed DEF Live
  <2>4. CopyOK(MarkComplete(y.copy), artifact)
    BY <1>1, <2>1, <2>2, Completed, CopyKept, ReportAssumption
  <2>5. QED BY <1>2, <1>7, <2>1, <2>2, <2>3, <2>4, Completed, LastStep DEF Complete
<1>8. QED BY <1>3, <1>4, <1>5, <1>6, <1>7

\* A stage is recorded as done: its output is on disk, or it is not needed.
LEMMA StageDoneStep ==
  ASSUME IInv, NEW w \in Workers, phase = "up", worker[w].at \in {"stage", "built"},
         NEW how \in {"COMPLETE", "SKIPPED"}, StageDone(w, how),
         worker[w].stage \in artifact \cup Unneeded
  PROVE  IInv'
<1> DEFINE y == worker[w]
           new == MarkDone(y.copy, y.stage, how)
           x == [y EXCEPT !.at = "checkpoint", !.copy = new, !.stage = y.stage + 1,
                          !.attempt = 0]
<1>1. y \in WorkerState /\ Shape(y) /\ CopyOK(y.copy, artifact) /\ worker \in [Workers -> WorkerState]
  BY WorkerFacts DEF IInv, TypeOK
<1>2. /\ y.copy \in Report /\ y.stage \in Stage
      /\ \A t \in Stage : t < y.stage => IsDone(y.copy, t)
  BY <1>1 DEF Shape, InLoop, AtStage
<1>3. Sound(y.copy) /\ y.copy # NoReport
  BY <1>1, <1>2, ReportAssumption DEF CopyOK
<1>4. /\ new \in Report /\ Sound(new) /\ IsDone(new, y.stage)
      /\ \A t \in Stage \ {y.stage} : IsDone(new, t) <=> IsDone(y.copy, t)
  BY <1>2, <1>3, Done
<1>5. CopyOK(new, artifact)
  BY <1>1, <1>3, <1>4 DEF CopyOK
<1>6. worker' = [worker EXCEPT ![w] = x] /\ report' = new /\ WorkersAndReport
  BY <1>1 DEF StageDone
<1> HIDE DEF new
<1>7. y.stage + 1 \in 1..Finished /\ 0 \in 0..MaxAttempts
  BY <1>2, StageFacts, Bounds
<1>8. x \in WorkerState /\ x.at = "checkpoint" /\ x.copy = new /\ x.stage = y.stage + 1
  BY <1>1, <1>4, <1>7 DEF WorkerState, WorkerPlace
<1>9. \A t \in Stage : t < y.stage + 1 => IsDone(new, t)
  BY <1>2, <1>4, StageAssumption DEF Stage
<1>10. Shape(x) /\ Knows(x, control, artifact)
  BY <1>4, <1>8, <1>9
  DEF Shape, Knows, InLoop, AtStage, Unbuilt, Provided, Calling
<1>11. AtWork(w) /\ x.at \in InLoop
  BY <1>8 DEF AtWork, Active, InLoop
<1> HIDE DEF x
<1>12. QED BY <1>5, <1>6, <1>8, <1>10, <1>11, WriteStep

\* An exception leaves the stage: the worker's copy is dropped.
LEMMA RaiseStep ==
  ASSUME IInv, NEW w \in Workers, phase = "up",
         worker[w].at \in AtStage, NEW outcome \in Outcome, Raise(w, outcome)
  PROVE  IInv'
<1> DEFINE y == worker[w]
           x == [NoThread EXCEPT !.at = "raised", !.stage = y.stage, !.outcome = outcome]
<1>1. y \in WorkerState /\ Shape(y)
  BY WorkerFacts
<1>2. y.stage \in Stage /\ y.stage \in 1..Finished
  BY <1>1 DEF Shape, WorkerState
<1>3. x \in WorkerState /\ x.at = "raised" /\ x.copy = NoReport /\ x.stage = y.stage
  BY <1>2, IdleThread DEF NoThread, WorkerState, WorkerPlace
<1>4. worker' = [worker EXCEPT ![w] = x]
  BY DEF Raise
<1>5. Shape(x) /\ Knows(x, control, artifact) /\ CopyOK(x.copy, artifact)
  BY <1>2, <1>3 DEF Shape, Knows, CopyOK, InLoop, AtStage, Unbuilt, Provided, Calling
<1>6. AtWork(w)
  BY DEF AtWork, Active, AtStage, Unbuilt, Provided, Calling
<1> HIDE DEF x
<1>7. QED BY <1>3, <1>4, <1>5, <1>6, MoveStep DEF Raise, OnlyWorkers

\* The worker marks its stage running or waiting for a slot and goes on.
LEMMA MarkStep ==
  ASSUME IInv, NEW w \in Workers, phase = "up",
         worker[w].at \in {"stage", "localwait", "begun", "cleared"},
         worker[w].stage \notin artifact,
         NEW place \in {"localwait", "working", "ready", "slotwait", "posting"},
         place \in {"slotwait", "posting"} => worker[w].at \in Calling,
         place = "ready" => worker[w].stage \in ProviderStages,
         NEW calls \in 0..MaxCalls, calls = worker[w].calls \/ place = "ready",
         NEW copy \in {MarkRunning(worker[w].copy, worker[w].stage),
                       MarkWaitingWorker(worker[w].copy, worker[w].stage)},
         worker' = [worker EXCEPT ![w].at = place, ![w].copy = copy, ![w].calls = calls],
         report' = copy, WorkersAndReport
  PROVE  IInv'
<1> DEFINE y == worker[w]
           x == [y EXCEPT !.at = place, !.copy = copy, !.calls = calls]
<1>1. /\ y \in WorkerState /\ Shape(y) /\ CopyOK(y.copy, artifact) /\ Knows(y, control, artifact)
      /\ worker \in [Workers -> WorkerState]
  BY WorkerFacts DEF IInv, TypeOK
<1>2. /\ y.copy \in Report /\ y.stage \in Stage
      /\ \A t \in Stage : t < y.stage => IsDone(y.copy, t)
  BY <1>1 DEF Shape, InLoop, AtStage, Unbuilt, Provided, Calling
<1>3. y.copy # NoReport
  BY <1>2, ReportAssumption
<1>4. /\ copy \in Report /\ Sound(copy) /\ NothingGained(y.copy, copy)
      /\ \A t \in Stage \ {y.stage} : IsDone(y.copy, t) => IsDone(copy, t)
  BY <1>2, Running
<1>5. CopyOK(copy, artifact)
  BY <1>1, <1>3, <1>4, CopyKept
<1>6. \A t \in Stage : t < y.stage => IsDone(copy, t)
  BY <1>2, <1>4, StageAssumption DEF Stage
<1>7. worker' = [worker EXCEPT ![w] = x]
  BY <1>1
<1>8. /\ x \in WorkerState /\ x.at = place /\ x.copy = copy /\ x.stage = y.stage
      /\ x.calls = calls /\ x.attempt = y.attempt
  BY <1>1, <1>4 DEF WorkerState, WorkerPlace
<1> HIDE DEF x
<1>9. place \in {"slotwait", "posting"} =>
        /\ y.stage \in ProviderStages /\ y.attempt < MaxAttempts /\ x.calls > 0
        /\ control \in Control /\ control.active_provider = ProviderOf[y.stage]
  BY <1>1, <1>8 DEF Shape, Knows, Provided, Calling
<1>10. Shape(x)
  BY <1>2, <1>4, <1>6, <1>8, <1>9
  DEF Shape, InLoop, AtStage, Unbuilt, Provided, Calling
<1>11. Knows(x, control, artifact)
  BY <1>8, <1>9 DEF Knows, Unbuilt, Provided, Calling
<1>12. AtWork(w) /\ x.at \in InLoop
  BY <1>8 DEF AtWork, Active, InLoop, AtStage, Unbuilt, Provided, Calling
<1>13. QED BY <1>5, <1>7, <1>8, <1>10, <1>11, <1>12, WriteStep

LEMMA StageStep ==
  ASSUME IInv, NEW w \in Workers,
         \/ SkipStage(w) \/ ReuseStage(w) \/ FinishStage(w) \/ StageFails(w) \/ FailsEarly(w)
         \/ NotConfigured(w) \/ BeginRefused(w) \/ CallFails(w)
  PROVE  IInv'
<1>1. /\ worker[w] \in WorkerState /\ Knows(worker[w], control, artifact)
  BY WorkerFacts
<1>2. CASE SkipStage(w) \/ ReuseStage(w) \/ FinishStage(w)
  BY <1>1, <1>2, StageDoneStep DEF SkipStage, ReuseStage, FinishStage, At, Knows
<1>3. CASE StageFails(w) \/ FailsEarly(w) \/ NotConfigured(w) \/ BeginRefused(w) \/ CallFails(w)
  <2>1. PICK outcome \in Outcome :
           phase = "up" /\ worker[w].at \in {"working", "ready", "stage"} /\ Raise(w, outcome)
    BY <1>1, <1>3
    DEF StageFails, FailsEarly, NotConfigured, BeginRefused, CallFails, MustCallProvider,
        MustRun, At, Outcome, Refusal, WorkerState
  <2>2. worker[w].at \in AtStage
    BY <2>1 DEF AtStage, Unbuilt, Provided
  <2>3. QED BY <2>1, <2>2, RaiseStep
<1>4. QED BY <1>2, <1>3

LEMMA WaitAndRunStep ==
  ASSUME IInv, NEW w \in Workers,
         WaitLocal(w) \/ RunLocal(w) \/ RunProvider(w) \/ WaitSlot(w) \/ MarkCalling(w)
  PROVE  IInv'
<1> DEFINE y == worker[w]
           running == MarkRunning(y.copy, y.stage)
           waiting == MarkWaitingWorker(y.copy, y.stage)
<1>1. /\ y \in WorkerState /\ Knows(y, control, artifact) /\ worker \in [Workers -> WorkerState]
  BY WorkerFacts DEF IInv, TypeOK
<1>2. y.calls \in 0..MaxCalls
  BY <1>1 DEF WorkerState
<1>3. CASE WaitLocal(w)
  <2>1. /\ phase = "up" /\ y.at = "stage" /\ y.stage \notin artifact
        /\ worker' = [worker EXCEPT ![w].at = "localwait", ![w].copy = waiting]
        /\ report' = waiting /\ WorkersAndReport
    BY <1>3 DEF WaitLocal, MustRunLocally, MustRun, At, Persist
  <2>2. worker' = [worker EXCEPT ![w].at = "localwait", ![w].copy = waiting,
                                ![w].calls = y.calls]
    BY <1>1, <2>1 DEF WorkerState
  <2>3. QED BY <1>2, <2>1, <2>2, MarkStep
<1>4. CASE RunLocal(w)
  <2>1. /\ phase = "up" /\ y.at \in {"stage", "localwait"} /\ y.stage \notin artifact
        /\ worker' = [worker EXCEPT ![w].at = "working", ![w].copy = running]
        /\ report' = running /\ WorkersAndReport
    BY <1>1, <1>4 DEF RunLocal, MustRunLocally, MustRun, At, Persist, Knows, Unbuilt
  <2>2. worker' = [worker EXCEPT ![w].at = "working", ![w].copy = running,
                                ![w].calls = y.calls]
    BY <1>1, <2>1 DEF WorkerState
  <2>3. QED BY <1>2, <2>1, <2>2, MarkStep
<1>5. CASE RunProvider(w)
  <2>1. PICK calls \in 0..MaxCalls :
          /\ worker' = [worker EXCEPT ![w].at = "ready", ![w].copy = running, ![w].calls = calls]
          /\ report' = running
    BY <1>5 DEF RunProvider
  <2>2. /\ phase = "up" /\ y.at = "stage" /\ y.stage \notin artifact
        /\ y.stage \in ProviderStages /\ WorkersAndReport
    BY <1>5 DEF RunProvider, MustCallProvider, MustRun, At
  <2>3. QED BY <2>1, <2>2, MarkStep
<1>6. CASE WaitSlot(w)
  <2>1. /\ phase = "up" /\ y.at = "begun" /\ y.at \in Calling /\ y.stage \notin artifact
        /\ worker' = [worker EXCEPT ![w].at = "slotwait", ![w].copy = waiting]
        /\ report' = waiting /\ WorkersAndReport
    BY <1>1, <1>6 DEF WaitSlot, At, Persist, Knows, Unbuilt, Provided, Calling
  <2>2. worker' = [worker EXCEPT ![w].at = "slotwait", ![w].copy = waiting,
                                ![w].calls = y.calls]
    BY <1>1, <2>1 DEF WorkerState
  <2>3. QED BY <1>2, <2>1, <2>2, MarkStep
<1>7. CASE MarkCalling(w)
  <2>1. /\ phase = "up" /\ y.at = "cleared" /\ y.at \in Calling /\ y.stage \notin artifact
        /\ worker' = [worker EXCEPT ![w].at = "posting", ![w].copy = running]
        /\ report' = running /\ WorkersAndReport
    BY <1>1, <1>7 DEF MarkCalling, At, Persist, Knows, Unbuilt, Provided, Calling
  <2>2. worker' = [worker EXCEPT ![w].at = "posting", ![w].copy = running,
                                ![w].calls = y.calls]
    BY <1>1, <2>1 DEF WorkerState
  <2>3. QED BY <1>2, <2>1, <2>2, MarkStep
<1>8. QED BY <1>3, <1>4, <1>5, <1>6, <1>7

\* A stage writes its output file.
LEMMA BuildStep == ASSUME IInv, NEW w \in Workers, Build(w) PROVE IInv'
<1> DEFINE y == worker[w]
           x == [y EXCEPT !.at = "built"]
<1>1. /\ y \in WorkerState /\ Shape(y) /\ CopyOK(y.copy, artifact) /\ artifact \subseteq Stage
      /\ control \in Control \cup {NoControl} /\ CopyOK(report, artifact)
      /\ worker \in [Workers -> WorkerState]
  BY WorkerFacts DEF IInv, TypeOK
<1>2. y.at \in {"working", "ready"} /\ phase = "up" /\ AtWork(w)
  BY DEF Build, At, AtWork, Active
<1>3. report \in Report
  BY <1>2, WorkerFacts
<1>4. /\ y.copy \in Report /\ y.stage \in Stage
      /\ \A t \in Stage : t < y.stage => IsDone(y.copy, t)
  BY <1>1, <1>2 DEF Shape, InLoop, AtStage, Unbuilt, Provided
<1>5. x \in WorkerState /\ x.at = "built" /\ x.copy = y.copy /\ x.stage = y.stage
  BY <1>1 DEF WorkerState, WorkerPlace
<1>6. /\ worker' = [worker EXCEPT ![w] = x] /\ artifact' = artifact \cup {y.stage}
      /\ UNCHANGED <<control, report, future, client, phase>> /\ Boundary!Observe({})
  BY <1>1 DEF Build
<1>7. Shape(x) /\ Knows(x, control', artifact')
  BY <1>4, <1>5, <1>6 DEF Shape, Knows, InLoop, AtStage, Unbuilt, Provided, Calling
<1>8. CopyOK(x.copy, artifact') /\ CopyOK(report', artifact')
  BY <1>1, <1>5, <1>6 DEF CopyOK
<1> HIDE DEF x
<1>9. QED BY <1>1, <1>2, <1>3, <1>4, <1>5, <1>6, <1>7, <1>8, WorkerStep

\* A call is begun, and finished, under the lock of the control file.
LEMMA BeginStep == ASSUME IInv, NEW w \in Workers, Begin(w) PROVE IInv'
<1> DEFINE y == worker[w]
           x == [y EXCEPT !.at = "begun", !.attempt = 0]
<1>1. /\ y \in WorkerState /\ Shape(y) /\ Knows(y, control, artifact)
      /\ CopyOK(y.copy, artifact) /\ control \in Control \cup {NoControl}
      /\ CopyOK(report, artifact) /\ artifact \subseteq Stage
      /\ worker \in [Workers -> WorkerState]
  BY WorkerFacts DEF IInv, TypeOK
<1>2. y.at = "ready" /\ phase = "up" /\ AtWork(w) /\ y.calls > 0
  BY DEF Begin, At, AtWork, Active
<1>3. report \in Report
  BY <1>2, WorkerFacts
<1>4. /\ y.copy \in Report /\ y.stage \in Stage /\ y.stage \in ProviderStages
      /\ \A t \in Stage : t < y.stage => IsDone(y.copy, t)
      /\ y.stage \notin artifact
  BY <1>1, <1>2 DEF Shape, Knows, InLoop, AtStage, Unbuilt, Provided
<1>5. /\ x \in WorkerState /\ x.at = "begun" /\ x.copy = y.copy /\ x.stage = y.stage
      /\ x.attempt = 0 /\ x.calls = y.calls
  BY <1>1, Bounds DEF WorkerState, WorkerPlace
<1>6. /\ worker' = [worker EXCEPT ![w] = x]
      /\ control' = BeginProviderCall(control, ProviderOf[y.stage])
      /\ UNCHANGED <<artifact, report, future, client, phase>> /\ Boundary!Observe({})
  BY <1>1 DEF Begin
<1>7. "AUTO_CONTINUE" \in ProviderExecutionMode /\ ProviderOf[y.stage] \in Providers
  BY <1>4, Bounds DEF ProviderExecutionMode
<1>8. control' \in Control /\ control'.active_provider = ProviderOf[y.stage]
  <2>1. control' \in Control
    BY <1>1, <1>6, <1>7, ControlOperations
  <2>2. control'.active_provider = ProviderOf[y.stage]
    BY <1>1, <1>6 DEF BeginProviderCall, GetPipelineControl, Existing, NewControl, Control
  <2>3. QED BY <2>1, <2>2
<1>9. Shape(x) /\ Knows(x, control', artifact')
  BY <1>2, <1>4, <1>5, <1>6, <1>8, Bounds
  DEF Shape, Knows, InLoop, AtStage, Unbuilt, Provided, Calling
<1> HIDE DEF x
<1>10. QED BY <1>1, <1>2, <1>3, <1>5, <1>6, <1>8, <1>9, WorkerStep

LEMMA FinishStep == ASSUME IInv, NEW w \in Workers, Finish(w) PROVE IInv'
<1> DEFINE y == worker[w]
           calls == IF y.outcome = "ok" THEN y.calls - 1 ELSE y.calls
           x == [y EXCEPT !.at = "ready", !.attempt = 0, !.calls = calls]
<1>1. /\ y \in WorkerState /\ Shape(y) /\ Knows(y, control, artifact)
      /\ CopyOK(y.copy, artifact) /\ control \in Control \cup {NoControl}
      /\ CopyOK(report, artifact) /\ artifact \subseteq Stage
      /\ worker \in [Workers -> WorkerState]
  BY WorkerFacts DEF IInv, TypeOK
<1>2. y.at = "returned" /\ phase = "up" /\ AtWork(w)
  BY DEF Finish, At, AtWork, Active
<1>3. report \in Report
  BY <1>2, WorkerFacts
<1>4. /\ y.copy \in Report /\ y.stage \in Stage /\ y.stage \in ProviderStages
      /\ \A t \in Stage : t < y.stage => IsDone(y.copy, t)
      /\ y.stage \notin artifact /\ y.calls > 0
  BY <1>1, <1>2 DEF Shape, Knows, InLoop, AtStage, Unbuilt, Provided, Calling
<1>5. calls \in 0..MaxCalls
  BY <1>1, <1>4, Bounds DEF WorkerState
<1>6. worker' = [worker EXCEPT ![w] = x]
  BY <1>1 DEF Finish, WorkerState
<1> HIDE DEF calls
<1>7. /\ x \in WorkerState /\ x.at = "ready" /\ x.copy = y.copy /\ x.stage = y.stage
  BY <1>1, <1>5, Bounds DEF WorkerState, WorkerPlace
<1>8. /\ control' = FinishProviderCall(control, ProviderOf[y.stage])
      /\ UNCHANGED <<artifact, report, future, client, phase>> /\ Boundary!Observe({})
  BY DEF Finish
<1>9. "AUTO_CONTINUE" \in ProviderExecutionMode /\ ProviderOf[y.stage] \in Providers
  BY <1>4, Bounds DEF ProviderExecutionMode
<1>10. control' \in Control
  BY <1>1, <1>8, <1>9, ControlOperations
<1>11. Shape(x) /\ Knows(x, control', artifact')
  BY <1>4, <1>7, <1>8 DEF Shape, Knows, InLoop, AtStage, Unbuilt, Provided, Calling
<1> HIDE DEF x
<1>12. QED BY <1>1, <1>2, <1>3, <1>6, <1>7, <1>8, <1>10, <1>11, WorkerStep

\* The steps of a call that write neither file: slot, post, retry, answer.
LEMMA CallStep ==
  ASSUME IInv, NEW w \in Workers,
         Recheck(w) \/ Post(w) \/ TransientFailure(w) \/ Return(w)
  PROVE  IInv'
<1> DEFINE y == worker[w]
<1>1. /\ y \in WorkerState /\ Shape(y) /\ Knows(y, control, artifact)
      /\ CopyOK(y.copy, artifact) /\ worker \in [Workers -> WorkerState]
  BY WorkerFacts DEF IInv, TypeOK
<1>2. y.at \in Calling /\ phase = "up" /\ AtWork(w)
  BY DEF Recheck, Post, TransientFailure, Return, At, AtWork, Active, Calling
<1>3. PICK place \in {"cleared", "inflight", "backoff", "returned"},
           outcome \in Outcome, attempt \in 0..MaxAttempts, posting \in SUBSET {w} :
        /\ worker' = [worker EXCEPT ![w] = [y EXCEPT !.at = place, !.outcome = outcome,
                                                      !.attempt = attempt]]
        /\ place \in {"cleared", "backoff"} => attempt < MaxAttempts
        /\ UNCHANGED <<control, report, artifact, future, client, phase>>
        /\ Boundary!Observe(posting)
  <2>1. y.outcome \in Outcome /\ y.attempt \in 0..MaxAttempts /\ Refusal \in Outcome
    BY <1>1 DEF WorkerState, Refusal, Outcome
  <2>2. CASE Recheck(w)
    <3>1. y.attempt < MaxAttempts
      BY <1>1, <2>2 DEF Recheck, At, Shape, Calling
    <3>2. \/ worker' = [worker EXCEPT ![w] = [y EXCEPT !.at = "cleared", !.outcome = y.outcome,
                                                       !.attempt = y.attempt]]
          \/ worker' = [worker EXCEPT ![w] = [y EXCEPT !.at = "returned", !.outcome = Refusal,
                                                       !.attempt = y.attempt]]
      BY <1>1, <2>2 DEF Recheck, WorkerState
    <3>3. /\ UNCHANGED <<control, report, artifact, future, client, phase>>
          /\ Boundary!Observe({})
      BY <2>2 DEF Recheck, OnlyWorkers
    <3>4. QED BY <2>1, <3>1, <3>2, <3>3
  <2>3. CASE Post(w)
    <3>1. y.attempt < MaxAttempts /\ y.attempt + 1 \in 0..MaxAttempts
      BY <1>1, <2>1, <2>3, Bounds DEF Post, At, Shape, Calling
    <3>2. worker' = [worker EXCEPT ![w] = [y EXCEPT !.at = "inflight", !.outcome = y.outcome,
                                                    !.attempt = y.attempt + 1]]
      BY <1>1, <2>3 DEF Post, WorkerState
    <3>3. /\ UNCHANGED <<control, report, artifact, future, client, phase>>
          /\ Boundary!Observe({w})
      BY <2>3 DEF Post
    <3>4. QED BY <2>1, <3>1, <3>2, <3>3
  <2>4. CASE TransientFailure(w)
    <3>1. y.attempt < MaxAttempts
      BY <2>4 DEF TransientFailure
    <3>2. worker' = [worker EXCEPT ![w] = [y EXCEPT !.at = "backoff", !.outcome = y.outcome,
                                                    !.attempt = y.attempt]]
      BY <1>1, <2>4 DEF TransientFailure, Goto, WorkerState
    <3>3. /\ UNCHANGED <<control, report, artifact, future, client, phase>>
          /\ Boundary!Observe({})
      BY <2>4 DEF TransientFailure, Goto, OnlyWorkers
    <3>4. QED BY <2>1, <3>1, <3>2, <3>3
  <2>5. CASE Return(w)
    <3>1. PICK outcome \in {"ok", "failed"} :
            worker' = [worker EXCEPT ![w].at = "returned", ![w].outcome = outcome]
      BY <2>5 DEF Return
    <3>2. worker' = [worker EXCEPT ![w] = [y EXCEPT !.at = "returned", !.outcome = outcome,
                                                    !.attempt = y.attempt]]
      BY <1>1, <3>1 DEF WorkerState
    <3>3. /\ UNCHANGED <<control, report, artifact, future, client, phase>>
          /\ Boundary!Observe({})
      BY <2>5 DEF Return, OnlyWorkers
    <3>4. outcome \in Outcome
      BY DEF Outcome
    <3>5. QED BY <2>1, <3>2, <3>3, <3>4
  <2>6. QED BY <2>2, <2>3, <2>4, <2>5
<1> DEFINE x == [y EXCEPT !.at = place, !.outcome = outcome, !.attempt = attempt]
<1>4. /\ x \in WorkerState /\ x.at = place /\ x.copy = y.copy /\ x.stage = y.stage
      /\ x.calls = y.calls /\ x.attempt = attempt
  BY <1>1 DEF WorkerState, WorkerPlace
<1>5. /\ y.copy \in Report /\ y.stage \in Stage /\ y.stage \in ProviderStages
      /\ \A t \in Stage : t < y.stage => IsDone(y.copy, t)
      /\ y.stage \notin artifact /\ y.calls > 0
      /\ control \in Control /\ control.active_provider = ProviderOf[y.stage]
  BY <1>1, <1>2 DEF Shape, Knows, InLoop, AtStage, Unbuilt, Provided
<1>6. Shape(x) /\ Knows(x, control, artifact)
  BY <1>3, <1>4, <1>5 DEF Shape, Knows, InLoop, AtStage, Unbuilt, Provided, Calling
<1>7. worker' = [worker EXCEPT ![w] = x] /\ x.at \notin {"none", "ending", "exiting"}
  BY <1>3, <1>4
<1> HIDE DEF x
<1>8. QED BY <1>1, <1>2, <1>3, <1>4, <1>6, <1>7, MoveStep

\* The exception handlers of the run, and its end.
LEMMA HandlerStep ==
  ASSUME IInv, NEW w \in Workers, HandlerLoads(w) \/ Handle(w)
  PROVE  IInv'
<1> DEFINE y == worker[w]
<1>1. /\ y \in WorkerState /\ Shape(y) /\ CopyOK(y.copy, artifact)
      /\ worker \in [Workers -> WorkerState]
  BY WorkerFacts DEF IInv, TypeOK
<1>2. y.at \in {"raised", "handling"} /\ phase = "up" /\ AtWork(w)
  BY DEF HandlerLoads, Handle, At, AtWork, Active
<1>3. report \in Report /\ CopyOK(report, artifact) /\ y.stage \in Stage
  BY <1>1, <1>2, WorkerFacts DEF Shape
<1>4. CASE HandlerLoads(w)
  <2> DEFINE x == [y EXCEPT !.at = "handling", !.copy = report]
  <2>1. x \in WorkerState /\ x.at = "handling" /\ x.copy = report /\ x.stage = y.stage
    BY <1>1, <1>3 DEF WorkerState, WorkerPlace
  <2>2. worker' = [worker EXCEPT ![w] = x]
    BY <1>1, <1>4 DEF HandlerLoads
  <2>3. Shape(x) /\ Knows(x, control, artifact)
    BY <1>3, <2>1 DEF Shape, Knows, InLoop, AtStage, Unbuilt, Provided, Calling
  <2>4. LeavesNoClaim(x, report)
    BY <1>3, <2>1, StageFacts, ReportAssumption DEF LeavesNoClaim, Claims, CopyOK, Sound
  <2> HIDE DEF x
  <2>5. QED BY <1>2, <1>3, <1>4, <2>1, <2>2, <2>3, <2>4, MoveStep DEF HandlerLoads, OnlyWorkers
<1>5. CASE Handle(w) /\ ~FindsNoStage(w)
  <2> DEFINE new == Handled(w)
  <2>1. y.copy \in Report /\ Sound(y.copy) /\ y.copy # NoReport
    BY <1>1, <1>5, ReportAssumption DEF Handle, At, Shape, CopyOK
  <2>2. y.outcome \in {"paused", "failed"} => y.copy.current_stage \in Stage
    BY <1>5 DEF FindsNoStage
  <2>3. y.outcome \in Outcome /\ y.outcome # "ok"
    BY <1>1, <1>5 DEF Handle, WorkerState
  <2>4. new \in Report /\ Sound(new) /\ NothingGained(y.copy, new) /\ new.status \notin Live
    <3>1. CASE y.outcome = "paused"
      BY <2>1, <2>2, <3>1, Stopped DEF Handled, MarkWaiting
    <3>2. CASE y.outcome = "cancelled"
      BY <2>1, <3>2, Cancelled DEF Handled, Live
    <3>3. CASE y.outcome = "component"
      BY <1>3, <2>1, <3>3, Stopped DEF Handled, MarkWaiting
    <3>4. CASE y.outcome = "configuration"
      BY <1>3, <2>1, <3>4, Stopped DEF Handled, MarkWaiting
    <3>5. CASE y.outcome \notin {"paused", "cancelled", "component", "configuration"}
      <4>1. new = MarkFailed(y.copy, y.copy.current_stage)
        BY <3>5 DEF Handled
      <4>2. y.outcome = "failed"
        BY <2>3, <3>5 DEF Outcome
      <4>3. QED BY <2>1, <2>2, <4>1, <4>2, Stopped DEF MarkFailed
    <3>6. QED BY <3>1, <3>2, <3>3, <3>4, <3>5
  <2>5. CopyOK(new, artifact)
    BY <1>1, <2>1, <2>4, CopyKept
  <2>6. LastWrite(w, new)
    BY <1>5 DEF Handle
  <2> HIDE DEF new
  <2>7. QED BY <1>2, <2>4, <2>5, <2>6, LastStep
<1>6. CASE Handle(w) /\ FindsNoStage(w)
  <2> DEFINE x == [NoThread EXCEPT !.at = "exiting"]
  <2>1. x \in WorkerState /\ x.at = "exiting" /\ x.copy = NoReport
    BY IdleThread DEF WorkerState, WorkerPlace, NoThread
  <2>2. Shape(x) /\ Knows(x, control, artifact) /\ CopyOK(x.copy, artifact)
    BY <2>1 DEF Shape, Knows, CopyOK, InLoop, AtStage, Unbuilt, Provided, Calling
  <2>3. /\ worker' = [worker EXCEPT ![w] = x] /\ Boundary!Observe({})
        /\ UNCHANGED <<control, report, artifact, future, client, phase>>
    BY <1>6 DEF Handle, OnlyWorkers
  <2>4. ~Claims(report)
    BY <1>6 DEF Handle, At, FindsNoStage, IInv, LeavesNoClaim
  <2> HIDE DEF x
  <2>5. QED BY <1>2, <1>3, <2>1, <2>2, <2>3, <2>4, WorkerFacts, WorkerStep
<1>7. QED BY <1>4, <1>5, <1>6

\* The future of a run is done, and then forgotten; the report no longer claims
\* a thread at work.
LEMMA EndStep ==
  ASSUME IInv, NEW w \in Workers, FutureDone(w) \/ Forget(w)
  PROVE  IInv'
<1>1. PICK x \in WorkerState :
         /\ worker' = [worker EXCEPT ![w] = x] /\ x.at \in {"none", "ending"}
         /\ CopyOK(x.copy, artifact)
  <2>1. /\ worker[w] \in WorkerState /\ CopyOK(worker[w].copy, artifact)
        /\ worker \in [Workers -> WorkerState]
    BY WorkerFacts DEF IInv, TypeOK
  <2>2. CASE FutureDone(w)
    <3> DEFINE x == [worker[w] EXCEPT !.at = "ending"]
    <3>1. worker' = [worker EXCEPT ![w] = x]
      BY <2>1, <2>2 DEF FutureDone, Goto
    <3>2. x \in WorkerState /\ x.at = "ending" /\ x.copy = worker[w].copy
      BY <2>1 DEF WorkerState, WorkerPlace
    <3>3. QED BY <2>1, <3>1, <3>2
  <2>3. CASE Forget(w)
    BY <2>3, IdleThread DEF Forget, NoThread, CopyOK
  <2>4. QED BY <2>2, <2>3
<1>2. /\ phase = "up" /\ ~AtWork(w) /\ worker[w].at # "none"
      /\ UNCHANGED <<control, report, artifact, client, phase>> /\ Boundary!Observe({})
      /\ future' = future \/ (future = w /\ worker[w].at = "ending" /\ future' = NoWorker)
  BY DEF FutureDone, Forget, Goto, OnlyWorkers, At, AtWork, Active
<1>3. worker'[w] = x /\ \A v \in Workers \ {w} : worker'[v] = worker[v]
  BY <1>1 DEF IInv, TypeOK
<1>4. ActiveRunIsRegistered'
  BY <1>1, <1>2, <1>3 DEF IInv, ActiveRunIsRegistered, Active
<1>5. TypeOK'
  BY <1>1, <1>2, History DEF IInv, TypeOK
<1>6. Claims(report) => \E v \in Workers \ {w} : AtWork(v)
  BY <1>2 DEF IInv
<1>7. Claims(report') => \E v \in Workers : AtWork(v)'
  BY <1>2, <1>3, <1>6 DEF Claims, AtWork, Active
<1>8. ASSUME NEW v \in Workers
      PROVE  /\ CopyOK(worker'[v].copy, artifact')
             /\ Shape(worker'[v]) /\ Knows(worker'[v], control', artifact')
             /\ LeavesNoClaim(worker'[v], report')
             /\ worker'[v].at # "none" => report' # NoReport
  <2>1. CASE v = w
    <3>1. Shape(x) /\ Knows(x, control, artifact) /\ LeavesNoClaim(x, report)
      BY <1>1 DEF Shape, Knows, LeavesNoClaim, InLoop, AtStage, Unbuilt, Provided, Calling
    <3>2. report # NoReport
      BY <1>2 DEF IInv
    <3>3. QED BY <1>1, <1>2, <1>3, <2>1, <3>1, <3>2
  <2>2. CASE v # w
    BY <1>2, <1>3, <2>2 DEF IInv
  <2>3. QED BY <2>1, <2>2
<1>9. QED BY <1>2, <1>4, <1>5, <1>7, <1>8 DEF IInv

LEMMA WorkStep == ASSUME IInv, NEW w \in Workers, Work(w) PROVE IInv'
<1>1. CASE Load(w) \/ Ingest(w) \/ Checkpoint(w) \/ Cancelling(w) \/ Complete(w)
  BY <1>1, LoopStep
<1>2. CASE \/ SkipStage(w) \/ ReuseStage(w) \/ FinishStage(w) \/ StageFails(w) \/ FailsEarly(w)
           \/ NotConfigured(w) \/ BeginRefused(w) \/ CallFails(w)
  BY <1>2, StageStep
<1>3. CASE WaitLocal(w) \/ RunLocal(w) \/ RunProvider(w) \/ WaitSlot(w) \/ MarkCalling(w)
  BY <1>3, WaitAndRunStep
<1>4. CASE Recheck(w) \/ Post(w) \/ TransientFailure(w) \/ Return(w)
  BY <1>4, CallStep
<1>5. CASE HandlerLoads(w) \/ Handle(w)
  BY <1>5, HandlerStep
<1>6. CASE FutureDone(w) \/ Forget(w)
  BY <1>6, EndStep
<1>7. QED
  BY <1>1, <1>2, <1>3, <1>4, <1>5, <1>6, BuildStep, BeginStep, FinishStep
  DEF Work, LocalStage, ProviderStage

-----------------------------------------------------------------------------
(* One step of a request.                                                  *)

\* A request may write either file, but never makes the report claim a thread
\* at work, and never touches the record of the active call.
LEMMA ClientStep ==
  ASSUME IInv, NEW c \in Clients, phase = "up", NEW x \in ClientState,
         client' = [client EXCEPT ![c] = x],
         UNCHANGED <<artifact, worker, future, phase>>, Boundary!Observe({}),
         control' \in Control \cup {NoControl},
         control \in Control =>
           control' \in Control /\ control'.active_provider = control.active_provider,
         report' = report \/ (report' \in Report /\ ~Claims(report')),
         CopyOK(report', artifact), CopyOK(x.copy, artifact), RequestOK(x, report')
  PROVE  IInv'
<1>1. TypeOK'
  BY History DEF IInv, TypeOK
<1>2. client'[c] = x /\ \A d \in Clients \ {c} : client'[d] = client[d]
  BY DEF IInv, TypeOK
<1>3. report # NoReport => report' # NoReport
  BY ReportAssumption
<1>4. ASSUME NEW w \in Workers
      PROVE  /\ CopyOK(worker'[w].copy, artifact')
             /\ Shape(worker'[w]) /\ Knows(worker'[w], control', artifact')
             /\ LeavesNoClaim(worker'[w], report')
             /\ worker'[w].at # "none" => report' # NoReport
             /\ AtWork(w)' <=> AtWork(w)
  BY <1>3 DEF IInv, Knows, LeavesNoClaim, AtWork, Active
<1>5. ASSUME NEW d \in Clients
      PROVE  CopyOK(client'[d].copy, artifact') /\ RequestOK(client'[d], report')
  <2>1. CASE d = c
    BY <1>2, <2>1
  <2>2. CASE d # c
    BY <1>2, <1>3, <2>2 DEF IInv, RequestOK
  <2>3. QED BY <2>1, <2>2
<1>6. Claims(report') => \E w \in Workers : AtWork(w)'
  BY <1>4 DEF IInv
<1>7. ActiveRunIsRegistered'
  BY DEF IInv, ActiveRunIsRegistered, Active
<1>8. QED BY <1>1, <1>4, <1>5, <1>6, <1>7 DEF IInv

LEMMA RequestFacts ==
  ASSUME IInv, NEW c \in Clients
  PROVE  /\ client[c] \in ClientState /\ client \in [Clients -> ClientState]
         /\ RequestOK(client[c], report) /\ CopyOK(client[c].copy, artifact)
         /\ control \in Control \cup {NoControl} /\ CopyOK(report, artifact)
         /\ report \in Report \cup {NoReport}
BY DEF IInv, TypeOK

\* A request writes neither file: it is issued, reads one, or answers.
LEMMA LookStep ==
  ASSUME IInv, NEW c \in Clients,
         \/ Issue(c) \/ LoadReport(c) \/ CancelFuture(c) \/ ResumeFuture(c) \/ StartCheck(c)
         \/ Ask(c, "submit") /\ Respond(c)
  PROVE  IInv'
<1> DEFINE y == client[c]
<1>1. /\ y \in ClientState /\ client \in [Clients -> ClientState] /\ RequestOK(y, report)
      /\ CopyOK(y.copy, artifact) /\ control \in Control \cup {NoControl}
      /\ CopyOK(report, artifact) /\ report \in Report \cup {NoReport}
  BY RequestFacts
<1>2. /\ phase = "up" /\ OnlyClients
  BY DEF Issue, LoadReport, CancelFuture, ResumeFuture, StartCheck, Ask, Respond, Proceed
<1>3. RequestOK(NoRequest, report) /\ CopyOK(NoRequest.copy, artifact) /\ NoRequest \in ClientState
  BY IdleRequest DEF RequestOK, NoRequest, HoldsCopy, CopyOK
<1>4. PICK x \in ClientState :
        /\ client' = [client EXCEPT ![c] = x]
        /\ RequestOK(x, report) /\ CopyOK(x.copy, artifact)
  <2>1. CASE Issue(c)
    <3>1. PICK kind \in Requests, mode \in ProviderExecutionMode :
            client' = [client EXCEPT ![c] =
                         [NoRequest EXCEPT !.at = "load", !.kind = kind, !.mode = mode]]
      <4>1. Modes \subseteq ProviderExecutionMode /\ "AUTO_CONTINUE" \in ProviderExecutionMode
        BY PipelineAssumption DEF ProviderExecutionMode
      <4>2. QED BY <2>1, <4>1 DEF Issue
    <3>2. kind \in RequestKinds
      BY PipelineAssumption
    <3> DEFINE x == [NoRequest EXCEPT !.at = "load", !.kind = kind, !.mode = mode]
    <3>3. x \in ClientState /\ x.at = "load" /\ x.copy = NoReport
      BY <3>2, IdleRequest DEF NoRequest, ClientState, ClientPlace
    <3>4. RequestOK(x, report) /\ CopyOK(x.copy, artifact)
      BY <3>3 DEF RequestOK, HoldsCopy, CopyOK
    <3>5. QED BY <3>1, <3>3, <3>4
  <2>2. CASE LoadReport(c)
    <3> DEFINE next == AfterLoad(y.kind)
               kind == IF y.kind = "retry" THEN "start" ELSE y.kind
               x == [y EXCEPT !.at = next, !.copy = report, !.kind = kind]
    <3>1. y.kind \in RequestKinds
      BY <1>1 DEF ClientState
    <3>2. next \in ClientPlace \ {"submit"} /\ (next \in HoldsCopy => report # NoReport)
      BY <3>1 DEF AfterLoad, ClientPlace, HoldsCopy, RequestKinds
    <3>3. kind \in RequestKinds
      BY <3>1 DEF RequestKinds
    <3>4. client' = [client EXCEPT ![c] = IF next = "idle" THEN NoRequest ELSE x]
      BY <1>1, <2>2 DEF LoadReport
    <3> HIDE DEF next, kind
    <3>5. x \in ClientState /\ x.at = next /\ x.copy = report
      BY <1>1, <3>2, <3>3 DEF ClientState
    <3>6. RequestOK(x, report) /\ CopyOK(x.copy, artifact)
      BY <1>1, <3>2, <3>5 DEF RequestOK, HoldsCopy
    <3> HIDE DEF x
    <3>7. CASE next = "idle"
      BY <1>3, <3>4, <3>7
    <3>8. CASE next # "idle"
      BY <3>4, <3>5, <3>6, <3>8
    <3>9. QED BY <3>7, <3>8
  <2>3. CASE CancelFuture(c)
    <3> DEFINE x == [y EXCEPT !.at = "cancel_persist", !.found = ActiveFuture]
    <3>1. ActiveFuture \in BOOLEAN
      BY DEF ActiveFuture, Active
    <3>2. client' = [client EXCEPT ![c] = x]
      BY <1>1, <2>3 DEF CancelFuture
    <3>3. x \in ClientState /\ x.at = "cancel_persist" /\ x.copy = y.copy
      BY <1>1, <3>1 DEF ClientState, ClientPlace
    <3>4. RequestOK(x, report) /\ CopyOK(x.copy, artifact)
      BY <1>1, <2>3, <3>3 DEF CancelFuture, Ask, RequestOK, HoldsCopy
    <3> HIDE DEF x
    <3>5. QED BY <3>2, <3>3, <3>4
  <2>4. CASE ResumeFuture(c) \/ StartCheck(c) \/ (Ask(c, "submit") /\ Respond(c))
    <3>1. CASE Respond(c)
      BY <1>3, <3>1 DEF Respond
    <3>2. ASSUME NEW place \in {"resume_control", "ensure"}, Proceed(c, place),
                 place = "resume_control" => y.at = "resume_future"
          PROVE  \E x \in ClientState : /\ client' = [client EXCEPT ![c] = x]
                                        /\ RequestOK(x, report) /\ CopyOK(x.copy, artifact)
      <4> DEFINE x == [y EXCEPT !.at = place]
      <4>1. client' = [client EXCEPT ![c] = x]
        BY <1>1, <3>2 DEF Proceed
      <4>2. x \in ClientState /\ x.at = place /\ x.copy = y.copy
        BY <1>1 DEF ClientState, ClientPlace
      <4>3. RequestOK(x, report) /\ CopyOK(x.copy, artifact)
        BY <1>1, <3>2, <4>2 DEF RequestOK, HoldsCopy
      <4> HIDE DEF x
      <4>4. QED BY <4>1, <4>2, <4>3
    <3>3. QED BY <2>4, <3>1, <3>2 DEF ResumeFuture, StartCheck, Ask
  <2>5. QED BY <2>1, <2>2, <2>3, <2>4
<1>5. QED BY <1>1, <1>2, <1>4, ClientStep DEF OnlyClients

\* A request changes the control file under its lock.
LEMMA ControlStep ==
  ASSUME IInv, NEW c \in Clients,
         \/ ApproveControl(c) \/ ModeControl(c) \/ CancelControl(c) \/ ResumeControl(c)
         \/ StartEnsure(c)
  PROVE  IInv'
<1> DEFINE y == client[c]
<1>1. /\ y \in ClientState /\ client \in [Clients -> ClientState] /\ RequestOK(y, report)
      /\ CopyOK(y.copy, artifact) /\ control \in Control \cup {NoControl}
      /\ CopyOK(report, artifact)
  BY RequestFacts
<1>2. /\ phase = "up" /\ UNCHANGED <<report, artifact, worker, future, phase>> /\ Boundary!Observe({})
  BY DEF ApproveControl, ModeControl, CancelControl, ResumeControl, StartEnsure, Ask, Apply
<1>3. y.mode \in ProviderExecutionMode
  BY <1>1 DEF ClientState
<1>4. control' \in {ApproveProviderPhase(control), SetProviderMode(control, y.mode),
                   RequestPipelineCancel(control), ClearPipelineCancel(control),
                   EnsurePipelineControl(control, y.mode)}
  BY DEF ApproveControl, ModeControl, CancelControl, ResumeControl, StartEnsure, Apply
<1>5. control' \in Control
  BY <1>1, <1>3, <1>4, ControlOperations
<1>6. control \in Control => control'.active_provider = control.active_provider
  BY <1>3, <1>4, UserKeepsActive
<1>7. PICK x \in ClientState :
        client' = [client EXCEPT ![c] = x] /\ RequestOK(x, report) /\ CopyOK(x.copy, artifact)
  <2>1. ASSUME NEW mode \in ProviderExecutionMode
        PROVE  /\ [NoRequest EXCEPT !.at = "load", !.mode = mode] \in ClientState
               /\ [NoRequest EXCEPT !.at = "load", !.mode = mode].at = "load"
               /\ [NoRequest EXCEPT !.at = "load", !.mode = mode].copy = NoReport
    BY IdleRequest DEF NoRequest, ClientState, ClientPlace
  <2>2. /\ NoRequest \in ClientState /\ [NoRequest EXCEPT !.at = "load"] \in ClientState
        /\ NoRequest.at = "idle" /\ NoRequest.copy = NoReport
        /\ [NoRequest EXCEPT !.at = "load"].at = "load"
        /\ [NoRequest EXCEPT !.at = "load"].copy = NoReport
    BY IdleRequest DEF NoRequest, ClientState, ClientPlace
  <2>3. CASE ApproveControl(c)
    <3>1. client' = [client EXCEPT ![c] = [NoRequest EXCEPT !.at = "load", !.mode = "REQUIRE_APPROVAL"]]
      BY <2>3 DEF ApproveControl
    <3>2. "REQUIRE_APPROVAL" \in ProviderExecutionMode
      BY DEF ProviderExecutionMode
    <3>3. QED BY <2>1, <3>1, <3>2 DEF RequestOK, HoldsCopy, CopyOK
  <2>4. CASE ModeControl(c)
    <3>1. \/ client' = [client EXCEPT ![c] = [NoRequest EXCEPT !.at = "load"]]
          \/ client' = [client EXCEPT ![c] = NoRequest]
      BY <2>4 DEF ModeControl
    <3>2. QED BY <2>2, <3>1 DEF RequestOK, HoldsCopy, CopyOK
  <2>5. CASE CancelControl(c) \/ ResumeControl(c) \/ StartEnsure(c)
    <3>1. PICK place \in {"cancel_future", "resume_persist", "persist"} :
            /\ client' = [client EXCEPT ![c] = [y EXCEPT !.at = place]]
            /\ place # "persist" => y.copy \in Report
      BY <1>1, <2>5 DEF CancelControl, ResumeControl, StartEnsure, Apply, Ask, RequestOK, HoldsCopy
    <3> DEFINE x == [y EXCEPT !.at = place]
    <3>2. x \in ClientState /\ x.at = place /\ x.copy = y.copy
      BY <1>1 DEF ClientState, ClientPlace
    <3>3. RequestOK(x, report) /\ CopyOK(x.copy, artifact)
      BY <1>1, <3>1, <3>2 DEF RequestOK, HoldsCopy
    <3>4. QED BY <3>1, <3>2, <3>3
  <2>6. QED BY <2>3, <2>4, <2>5
<1>8. QED BY <1>1, <1>2, <1>5, <1>6, <1>7, ClientStep

\* A report a request writes is sound, backed by the outputs, and claims no run.
LEMMA Overwritten ==
  ASSUME IInv, NEW c \in Clients, CancelPersist(c) \/ ResumePersist(c) \/ StartPersist(c)
  PROVE  report' \in Report /\ CopyOK(report', artifact) /\ report'.status \notin Live
<1> DEFINE y == client[c]
<1>1. /\ y \in ClientState /\ RequestOK(y, report) /\ CopyOK(y.copy, artifact)
  BY RequestFacts
<1>2. y.copy \in Report => Sound(y.copy) /\ y.copy # NoReport
  BY <1>1, ReportAssumption DEF CopyOK
<1>3. CASE CancelPersist(c)
  <2>1. y.copy \in Report
    BY <1>1, <1>3 DEF CancelPersist, Ask, RequestOK, HoldsCopy
  <2>2. report' \in {MarkCancelRequested(y.copy), MarkCancelled(y.copy)}
    BY <1>3 DEF CancelPersist, Overwrite
  <2>3. report' \in Report /\ Sound(report') /\ NothingGained(y.copy, report')
        /\ report'.status \notin Live
    BY <1>2, <2>1, <2>2, Cancelled DEF Live
  <2>4. QED BY <1>1, <1>2, <2>1, <2>3, CopyKept
<1>4. CASE ResumePersist(c)
  <2>1. y.copy \in Report
    BY <1>1, <1>4 DEF ResumePersist, Ask, RequestOK, HoldsCopy
  <2>2. report' = ResetCancelled(y.copy)
    BY <1>4 DEF ResumePersist
  <2>3. report' \in Report /\ Sound(report') /\ NothingGained(y.copy, report')
        /\ report'.status \notin Live
    BY <1>2, <2>1, <2>2, Restarted DEF Live
  <2>4. QED BY <1>1, <1>2, <2>1, <2>3, CopyKept
<1>5. CASE StartPersist(c)
  <2>1. CASE y.copy = NoReport
    <3>1. report' = InitialReport
      BY <1>5, <2>1 DEF StartPersist, Overwrite
    <3>2. QED BY <3>1, Initial DEF CopyOK, Live
  <2>2. CASE y.copy # NoReport
    <3>1. y.copy \in Report
      BY <1>1, <2>2 DEF ClientState
    <3>2. report' = ResetForStart(y.copy)
      BY <1>5, <2>2 DEF StartPersist, Overwrite
    <3>3. report' \in Report /\ Sound(report') /\ NothingGained(y.copy, report')
          /\ report'.status \notin Live
      BY <1>2, <3>1, <3>2, Restarted DEF Live
    <3>4. QED BY <1>1, <2>2, <3>3, CopyKept
  <2>3. QED BY <2>1, <2>2
<1>6. QED BY <1>3, <1>4, <1>5

\* A request writes its copy of the report over the file.
LEMMA OverwriteStep ==
  ASSUME IInv, NEW c \in Clients, CancelPersist(c) \/ ResumePersist(c) \/ StartPersist(c)
  PROVE  IInv'
<1> DEFINE y == client[c]
<1>1. /\ y \in ClientState /\ client \in [Clients -> ClientState] /\ RequestOK(y, report)
      /\ CopyOK(y.copy, artifact) /\ control \in Control \cup {NoControl}
  BY RequestFacts
<1>2. /\ phase = "up" /\ UNCHANGED <<control, artifact, worker, future, phase>> /\ Boundary!Observe({})
  BY DEF CancelPersist, ResumePersist, StartPersist, Ask, Overwrite
<1>4. PICK new \in Report : report' = new /\ CopyOK(new, artifact) /\ new.status \notin Live
  BY Overwritten
<1>5. report' # NoReport /\ ~Claims(report')
  BY <1>4, ReportAssumption DEF Claims
<1>6. PICK x \in ClientState :
        /\ client' = [client EXCEPT ![c] = x] /\ x.copy = NoReport
        /\ x.at \in {"idle", "load", "submit"}
  <2>1. CASE CancelPersist(c)
    BY <2>1, IdleRequest DEF CancelPersist, Overwrite, NoRequest
  <2>2. CASE ResumePersist(c)
    <3>1. [NoRequest EXCEPT !.at = "load"] \in ClientState
      BY IdleRequest DEF NoRequest, ClientState, ClientPlace
    <3>2. QED BY <2>2, <3>1 DEF ResumePersist, NoRequest
  <2>3. CASE StartPersist(c)
    <3> DEFINE x == [y EXCEPT !.at = "submit", !.copy = NoReport]
    <3>1. client' = [client EXCEPT ![c] = x]
      BY <1>1, <2>3 DEF StartPersist, Overwrite
    <3>2. x \in ClientState /\ x.copy = NoReport /\ x.at = "submit"
      BY <1>1 DEF ClientState, ClientPlace
    <3>3. QED BY <3>1, <3>2
  <2>4. QED BY <2>1, <2>2, <2>3
<1>7. RequestOK(x, report') /\ CopyOK(x.copy, artifact)
  BY <1>5, <1>6 DEF RequestOK, HoldsCopy, CopyOK
<1>8. QED BY <1>1, <1>2, <1>4, <1>5, <1>6, <1>7, ClientStep

\* A run is submitted under the futures lock: no other one is active.
LEMMA SubmitStep ==
  ASSUME IInv, NEW c \in Clients, StartSubmit(c)
  PROVE  IInv'
<1>1. CASE Ask(c, "submit") /\ Respond(c)
  BY <1>1, LookStep
<1>2. CASE Ask(c, "submit") /\ ~ActiveFuture /\ Submit(c)
  <2>1. PICK w \in Workers :
          /\ worker[w].at = "none"
          /\ worker' = [worker EXCEPT ![w].at = "queued"] /\ future' = w
    BY <1>2 DEF Submit
  <2>2. /\ client' = [client EXCEPT ![c] = NoRequest] /\ phase = "up"
        /\ UNCHANGED <<control, report, artifact, phase>> /\ Boundary!Observe({})
        /\ client[c].at = "submit"
    BY <1>2 DEF Submit, Ask
  <2> DEFINE x == [worker[w] EXCEPT !.at = "queued"]
  <2>3. /\ worker[w] \in WorkerState /\ CopyOK(worker[w].copy, artifact)
        /\ worker \in [Workers -> WorkerState] /\ client \in [Clients -> ClientState]
    BY WorkerFacts, RequestFacts DEF IInv, TypeOK
  <2>4. /\ x \in WorkerState /\ x.at = "queued" /\ x.copy = worker[w].copy
        /\ worker' = [worker EXCEPT ![w] = x]
    BY <2>1, <2>3 DEF WorkerState, WorkerPlace
  <2>5. worker'[w] = x /\ \A v \in Workers \ {w} : worker'[v] = worker[v]
    BY <2>3, <2>4
  <2> HIDE DEF x
  <2>6. TypeOK'
    BY <2>1, <2>2, <2>4, History, IdleRequest DEF IInv, TypeOK
  <2>7. \A v \in Workers : ~Active(v)
    <3>1. ASSUME NEW v \in Workers, Active(v) PROVE FALSE
      <4>1. future = v /\ v # NoWorker
        BY <3>1, PipelineAssumption DEF IInv, ActiveRunIsRegistered
      <4>2. QED BY <1>2, <3>1, <4>1 DEF ActiveFuture
    <3>2. QED BY <3>1
  <2>8. ActiveRunIsRegistered'
    BY <2>1, <2>5, <2>7 DEF ActiveRunIsRegistered, Active
  <2>9. report # NoReport
    BY <2>2 DEF IInv, RequestOK
  <2>10. ASSUME NEW v \in Workers
         PROVE  /\ CopyOK(worker'[v].copy, artifact')
                /\ Shape(worker'[v]) /\ Knows(worker'[v], control', artifact')
                /\ LeavesNoClaim(worker'[v], report')
                /\ worker'[v].at # "none" => report' # NoReport
    <3>1. CASE v = w
      <4>1. Shape(x) /\ Knows(x, control, artifact) /\ LeavesNoClaim(x, report)
        BY <2>4 DEF Shape, Knows, LeavesNoClaim, InLoop, AtStage, Unbuilt, Provided, Calling
      <4>2. QED BY <2>2, <2>3, <2>4, <2>5, <2>9, <3>1, <4>1
    <3>2. CASE v # w
      BY <2>2, <2>5, <3>2 DEF IInv
    <3>3. QED BY <3>1, <3>2
  <2>11. ASSUME NEW d \in Clients
         PROVE  CopyOK(client'[d].copy, artifact') /\ RequestOK(client'[d], report')
    <3>1. CopyOK(NoRequest.copy, artifact) /\ RequestOK(NoRequest, report)
      BY DEF CopyOK, RequestOK, NoRequest, HoldsCopy
    <3>2. client'[d] = NoRequest \/ client'[d] = client[d]
      BY <2>2, <2>3
    <3>3. QED BY <2>2, <3>1, <3>2 DEF IInv
  <2>12. ~Claims(report')
    BY <2>2, <2>7 DEF IInv, AtWork, Claims
  <2>13. QED BY <2>2, <2>6, <2>8, <2>10, <2>11, <2>12 DEF IInv
<1>3. QED BY <1>1, <1>2 DEF StartSubmit

LEMMA RequestStep ==
  ASSUME IInv, NEW c \in Clients, Issue(c) \/ Serve(c)
  PROVE  IInv'
BY LookStep, ControlStep, OverwriteStep, SubmitStep DEF Serve

-----------------------------------------------------------------------------
(* Exit and startup.                                                       *)

LEMMA RestartStep == IInv /\ (Exit \/ RecoverControl \/ RecoverReport) => IInv'
<1> SUFFICES ASSUME IInv, Exit \/ RecoverControl \/ RecoverReport PROVE IInv'
  OBVIOUS
<1>1. /\ CopyOK(report, artifact) /\ report \in Report \cup {NoReport}
      /\ control \in Control \cup {NoControl}
      /\ worker \in [Workers -> WorkerState] /\ client \in [Clients -> ClientState]
  BY DEF IInv, TypeOK
<1>2. CASE Exit
  <2>1. /\ \A w \in Workers : worker'[w] = NoThread
        /\ \A c \in Clients : client'[c] = NoRequest
        /\ phase' = "down" /\ future' = NoWorker
        /\ UNCHANGED <<control, report, artifact>> /\ Boundary!Observe({})
    BY <1>2 DEF Exit
  <2>2. TypeOK'
    BY <1>2, <2>1, IdleThread, IdleRequest, History DEF Exit, IInv, TypeOK
  <2>3. ActiveRunIsRegistered' /\ \A w \in Workers : worker'[w].at = "none"
    BY <2>1 DEF ActiveRunIsRegistered, Active, NoThread
  <2>4. \A w \in Workers : /\ Shape(worker'[w]) /\ Knows(worker'[w], control', artifact')
                           /\ CopyOK(worker'[w].copy, artifact')
                           /\ LeavesNoClaim(worker'[w], report')
    BY <2>1, IdleThread DEF Knows, LeavesNoClaim, CopyOK, NoThread, Calling, Unbuilt, Provided
  <2>5. \A c \in Clients : RequestOK(client'[c], report') /\ CopyOK(client'[c].copy, artifact')
    BY <2>1 DEF CopyOK, RequestOK, NoRequest, HoldsCopy
  <2>6. QED BY <2>1, <2>2, <2>3, <2>4, <2>5 DEF IInv
<1>3. CASE RecoverControl \/ RecoverReport
  <2>1. /\ UNCHANGED <<artifact, worker, future, client>> /\ Boundary!Observe({})
        /\ phase # "up" /\ phase' \in {"up", "recovering"}
    BY <1>3 DEF RecoverControl, RecoverReport
  <2>2. \A w \in Workers : worker[w].at = "none"
    BY <2>1 DEF IInv
  <2>3. control' \in Control \cup {NoControl}
    <3>1. ClearStaleProviderActivity(control) \in Control \cup {NoControl}
      BY <1>1, ControlOperations DEF ProviderExecutionMode
    <3>2. QED BY <1>1, <1>3, <3>1 DEF RecoverControl, RecoverReport
  <2>4. /\ report' \in Report \cup {NoReport} /\ CopyOK(report', artifact)
        /\ report # NoReport => report' # NoReport
        /\ phase' = "up" => ~Claims(report')
    <3>1. CASE RecoverControl
      BY <1>1, <3>1 DEF RecoverControl
    <3>2. CASE RecoverReport /\ report = NoReport
      BY <1>1, <3>2 DEF RecoverReport, Claims
    <3>3. CASE RecoverReport /\ report # NoReport
      <4>1. report \in Report /\ Sound(report) /\ (~NotCancelled(control)) \in BOOLEAN
        BY <1>1, <3>3 DEF CopyOK, NotCancelled
      <4>2. report' = Reconciled(report, ~NotCancelled(control))
        BY <3>3 DEF RecoverReport
      <4>3. /\ report' \in Report /\ Sound(report') /\ NothingGained(report, report')
            /\ report'.status \notin Live
        BY <4>1, <4>2, Recovered
      <4>4. CopyOK(report', artifact)
        BY <1>1, <3>3, <4>3, CopyKept
      <4>5. QED BY <4>3, <4>4, ReportAssumption DEF Claims
    <3>4. QED BY <1>3, <3>1, <3>2, <3>3
  <2>5. TypeOK'
    BY <2>1, <2>3, <2>4, History DEF IInv, TypeOK
  <2>6. ActiveRunIsRegistered'
    BY <2>1 DEF IInv, ActiveRunIsRegistered, Active
  <2>7. \A w \in Workers : /\ Shape(worker'[w]) /\ Knows(worker'[w], control', artifact')
                           /\ LeavesNoClaim(worker'[w], report')
    BY <2>1, <2>2 DEF IInv, Knows, LeavesNoClaim, Calling, Unbuilt, Provided
  <2>8. \A c \in Clients : RequestOK(client'[c], report')
    BY <2>1, <2>4 DEF IInv, RequestOK
  <2>9. QED BY <2>1, <2>2, <2>4, <2>5, <2>6, <2>7, <2>8 DEF IInv
<1>4. QED BY <1>2, <1>3

LEMMA Inductive == IInv /\ [Next]_vars => IInv'
<1> SUFFICES ASSUME IInv, [Next]_vars PROVE IInv'
  OBVIOUS
<1>1. ASSUME NEW w \in Workers, Work(w) PROVE IInv'
  BY <1>1, WorkStep
<1>2. ASSUME NEW c \in Clients, Issue(c) \/ Serve(c) PROVE IInv'
  BY <1>2, RequestStep
<1>3. CASE Exit \/ RecoverControl \/ RecoverReport
  BY <1>3, RestartStep
<1>4. CASE UNCHANGED vars
  <2>1. TypeOK' /\ ActiveRunIsRegistered'
    BY <1>4 DEF vars, IInv, TypeOK, ActiveRunIsRegistered, Active
  <2>2. \A w \in Workers : AtWork(w)' <=> AtWork(w)
    BY <1>4 DEF vars, AtWork, Active
  <2>3. Claims(report') <=> Claims(report)
    BY <1>4 DEF vars
  <2>4. QED BY <1>4, <2>1, <2>2, <2>3 DEF vars, IInv
<1>5. QED BY <1>1, <1>2, <1>3, <1>4 DEF Next

THEOREM Invariance == Spec => []IInv
BY Initially, Inductive, PTL DEF Spec

-----------------------------------------------------------------------------
(* What follows.                                                           *)

\* Every file, thread and request keeps its type (pipeline.py).
THEOREM TypeCorrect == Spec => []TypeOK
<1>1. IInv => TypeOK
  BY DEF IInv
<1>2. QED BY <1>1, Invariance, PTL

\* _FUTURES names the running thread as long as it runs, whatever callbacks of
\* older runs fire and however many requests start the job.
THEOREM Registered == Spec => []ActiveRunIsRegistered
<1>1. IInv => ActiveRunIsRegistered
  BY DEF IInv
<1>2. QED BY <1>1, Invariance, PTL

\* At most one executor thread runs the job at a time.
THEOREM OneRun == Spec => []OneRunPerJob
<1>1. IInv => OneRunPerJob
  BY DEF IInv, ActiveRunIsRegistered, OneRunPerJob
<1>2. QED BY <1>1, Invariance, PTL

\* A report that says RUNNING or WAITING_WORKER has a thread at work, across any
\* number of exits, restarts and overlapping requests.
THEOREM RunningIsTrue == Spec => []RunningHasWorker
<1>1. IInv => RunningHasWorker
  BY DEF IInv, RunningHasWorker, ReportIs, Claims, Live, AtWork
<1>2. QED BY <1>1, Invariance, PTL

\* A stage shown as done, by the file or by any copy that may be written back,
\* has its output on disk; COMPLETE is shown for all of them.
THEOREM DoneIsTrue == Spec => []DoneStagesAreBacked
<1>1. ASSUME NEW copy, CopyOK(copy, artifact) PROVE DoneIsBacked(copy)
  BY <1>1 DEF CopyOK, DoneIsBacked, Sound
<1>2. IInv => DoneStagesAreBacked
  BY <1>1 DEF IInv, DoneStagesAreBacked
<1>3. QED BY <1>2, Invariance, PTL

\* No request leaves for a stage whose output is on disk.
THEOREM NotPaidAgain == Spec => []FinishedStageIsNotPaidAgain
<1>1. IInv => FinishedStageIsNotPaidAgain
  BY DEF IInv, Knows, Unbuilt, Provided, Calling, FinishedStageIsNotPaidAgain
<1>2. QED BY <1>1, Invariance, PTL

\* The control file names the provider of the call in progress.
THEOREM CallRecorded == Spec => []CallIsRecorded
<1>1. IInv => CallIsRecorded
  BY DEF IInv, Knows, Calling, CallIsRecorded
<1>2. QED BY <1>1, Invariance, PTL

-----------------------------------------------------------------------------
(* One request at a time.                                                  *)

\* Places where the worker holds a copy that it may write.
Holding == InLoop \cup {"ingest", "handling"}

\* A request is here only when it has seen that no run is active.
Free(x) ==
  \/ x.at \in {"ensure", "persist", "submit", "resume_control", "resume_persist"}
  \/ x.at = "cancel_persist" /\ ~x.found

\* The report is settled only when no worker will write it again, and a worker's
\* copy is not settled before its last write.
Calm ==
  /\ phase # "up" => \A c \in Clients : client[c].at = "idle"
  /\ phase = "up" /\ ReportIs(Settled) => \A w \in Workers : ~AtWork(w)
  /\ \A w \in Workers : worker[w].at \in Holding => worker[w].copy.status \notin Settled
  /\ \A c \in Clients : Free(client[c]) => \A w \in Workers : ~AtWork(w)
  /\ \A c \in Clients : client[c].at = "submit" => ~ReportIs(Settled)

\* A step of the worker at work keeps its copy, takes the report, or marks a copy as
\* running or waiting; what it writes is that copy, or its last.
KeepsCopy(w) ==
  worker'[w].at \in Holding =>
    \/ worker[w].at \in Holding /\ worker'[w].copy.status = worker[w].copy.status
    \/ worker'[w].copy.status \in Live
    \/ worker'[w].copy = report

Writes(w) ==
  \/ report' = report
  \/ worker'[w].at = "exiting"
  \/ worker'[w].at \in Holding /\ report' = worker'[w].copy

WorkDone(w) ==
  /\ phase = "up" /\ UNCHANGED <<client, phase>>
  /\ \A v \in Workers \ {w} : worker'[v] = worker[v]
  /\ \/ AtWork(w) /\ KeepsCopy(w) /\ Writes(w)
     \/ worker'[w].at \in {"none", "ending"} /\ report' = report

LEMMA WorkDoes == ASSUME IInv, NEW w \in Workers, Work(w) PROVE WorkDone(w)
<1> DEFINE y == worker[w]
<1>1. /\ worker \in [Workers -> WorkerState] /\ y \in WorkerState
      /\ y.at \in Holding => y.copy \in Report
  BY DEF IInv, TypeOK, Shape, Holding
<1>2. CASE FutureDone(w) \/ Forget(w)
  BY <1>1, <1>2 DEF FutureDone, Forget, At, Goto, OnlyWorkers, WorkDone, NoThread, WorkerState
<1>3. CASE Load(w) \/ HandlerLoads(w)
  BY <1>1, <1>3 DEF Load, HandlerLoads, At, OnlyWorkers, WorkDone, AtWork, Active, KeepsCopy, Writes,
    WorkerState
<1>4. CASE Cancelling(w) \/ Complete(w) \/ Handle(w)
  <2>1. /\ worker' = [worker EXCEPT ![w] = [NoThread EXCEPT !.at = "exiting"]]
        /\ UNCHANGED <<client, phase>>
    BY <1>4 DEF Cancelling, Complete, Handle, LastWrite, WorkersAndReport, OnlyWorkers
  <2>2. AtWork(w) /\ phase = "up"
    BY <1>4 DEF Cancelling, Complete, Handle, At, AtWork, Active
  <2>3. worker'[w].at = "exiting" /\ \A v \in Workers \ {w} : worker'[v] = worker[v]
    BY <1>1, <2>1 DEF NoThread
  <2>4. QED
    BY <2>1, <2>2, <2>3 DEF WorkDone, KeepsCopy, Writes, Holding, InLoop,
      AtStage, Unbuilt, Provided, Calling
<1>5. CASE Ingest(w)
  <2>1. /\ phase = "up" /\ y.at = "ingest" /\ UNCHANGED <<client, phase>>
        /\ worker' = [worker EXCEPT ![w].at = "checkpoint", ![w].stage = 2,
                                    ![w].copy = MarkIngested(y.copy)]
        /\ report' = IF IsDone(y.copy, 1) THEN report ELSE MarkIngested(y.copy)
    BY <1>5 DEF Ingest, At, WorkersAndReport
  <2>2. y.copy \in Report
    BY <1>1, <2>1 DEF Holding
  <2>3. IF IsDone(y.copy, 1) THEN MarkIngested(y.copy) = y.copy
        ELSE MarkIngested(y.copy).status \in Live
    BY <2>2 DEF MarkIngested, Report, Live
  <2>4. /\ worker'[w].at = "checkpoint" /\ worker'[w].copy = MarkIngested(y.copy)
        /\ \A v \in Workers \ {w} : worker'[v] = worker[v]
    BY <1>1, <2>1 DEF WorkerState
  <2>5. QED
    BY <2>1, <2>3, <2>4 DEF WorkDone, KeepsCopy, Writes, AtWork, Active, Holding, InLoop
<1>6. ASSUME NEW how, StageDone(w, how), phase = "up", y.at \in {"stage", "built"} PROVE WorkDone(w)
  <2>1. y.copy \in Report
    BY <1>1, <1>6 DEF Holding, InLoop, AtStage
  <2>2. MarkDone(y.copy, y.stage, how).status = y.copy.status
    BY <2>1 DEF MarkDone, Report
  <2>3. /\ worker'[w].at = "checkpoint" /\ worker'[w].copy = MarkDone(y.copy, y.stage, how)
        /\ report' = worker'[w].copy /\ UNCHANGED <<client, phase>>
        /\ \A v \in Workers \ {w} : worker'[v] = worker[v]
    BY <1>1, <1>6 DEF StageDone, WorkersAndReport, WorkerState
  <2>4. QED
    BY <1>6, <2>2, <2>3 DEF WorkDone, KeepsCopy, Writes, AtWork, Active, Holding, InLoop, AtStage
<1>7. CASE SkipStage(w) \/ ReuseStage(w) \/ FinishStage(w)
  BY <1>6, <1>7 DEF SkipStage, ReuseStage, FinishStage, At
<1>8. CASE WaitLocal(w) \/ RunLocal(w) \/ RunProvider(w) \/ WaitSlot(w) \/ MarkCalling(w)
  <2>1. /\ phase = "up" /\ y.at \in {"stage", "localwait", "begun", "cleared"}
        /\ UNCHANGED <<client, phase>>
    BY <1>8 DEF WaitLocal, RunLocal, RunProvider, WaitSlot, MarkCalling, MustRunLocally, MustCallProvider,
      MustRun, At, Persist, WorkersAndReport
  <2>2. PICK copy \in {MarkRunning(y.copy, y.stage), MarkWaitingWorker(y.copy, y.stage)},
              place \in {"localwait", "working", "ready", "slotwait", "posting"} :
          /\ worker'[w].at = place /\ worker'[w].copy = copy /\ report' = copy
          /\ \A v \in Workers \ {w} : worker'[v] = worker[v]
    <3>1. CASE RunProvider(w)
      <4>1. PICK calls \in 0..MaxCalls :
              worker' = [worker EXCEPT ![w].at = "ready", ![w].copy = MarkRunning(y.copy, y.stage),
                                       ![w].calls = calls]
        BY <3>1 DEF RunProvider
      <4>2. report' = MarkRunning(y.copy, y.stage)
        BY <3>1 DEF RunProvider
      <4>3. /\ worker'[w].at = "ready" /\ worker'[w].copy = MarkRunning(y.copy, y.stage)
            /\ \A v \in Workers \ {w} : worker'[v] = worker[v]
        BY <1>1, <4>1 DEF WorkerState
      <4>4. QED BY <4>2, <4>3
    <3>2. ASSUME NEW copy, NEW place, Persist(w, place, copy)
          PROVE  /\ worker'[w].at = place /\ worker'[w].copy = copy /\ report' = copy
                 /\ \A v \in Workers \ {w} : worker'[v] = worker[v]
      BY <1>1, <3>2 DEF Persist, WorkerState
    <3>3. QED BY <1>8, <3>1, <3>2 DEF WaitLocal, RunLocal, WaitSlot, MarkCalling
  <2>3. y.copy \in Report
    BY <1>1, <2>1 DEF Holding, InLoop, AtStage, Unbuilt, Provided, Calling
  <2>4. copy.status \in Live
    BY <2>2, <2>3 DEF MarkRunning, MarkWaitingWorker, Report, Live
  <2>5. QED
    BY <2>1, <2>2, <2>4 DEF WorkDone, KeepsCopy, Writes, AtWork, Active, Holding, InLoop, AtStage,
      Unbuilt, Provided, Calling
<1>9. ASSUME NEW outcome, Raise(w, outcome), phase = "up", AtWork(w) PROVE WorkDone(w)
  <2>1. /\ worker'[w].at = "raised" /\ report' = report /\ UNCHANGED <<client, phase>>
        /\ \A v \in Workers \ {w} : worker'[v] = worker[v]
    BY <1>1, <1>9 DEF Raise, OnlyWorkers, NoThread
  <2>2. QED
    BY <1>9, <2>1 DEF WorkDone, KeepsCopy, Writes, Holding, InLoop, AtStage, Unbuilt, Provided, Calling
<1>10. CASE FailsEarly(w) \/ NotConfigured(w) \/ BeginRefused(w) \/ StageFails(w) \/ CallFails(w)
  BY <1>9, <1>10 DEF FailsEarly, NotConfigured, BeginRefused, StageFails, CallFails, MustCallProvider,
    MustRun, At, AtWork, Active
<1>11. CASE \/ Checkpoint(w) \/ Begin(w) \/ Recheck(w) \/ Post(w) \/ TransientFailure(w) \/ Return(w)
            \/ Finish(w) \/ Build(w)
  <2>1. /\ phase = "up" /\ y.at \in InLoop /\ report' = report /\ UNCHANGED <<client, phase>>
    BY <1>11 DEF Checkpoint, Begin, Recheck, Post, TransientFailure, Return, Finish, Build, At, Goto,
      OnlyWorkers, InLoop, AtStage, Unbuilt, Provided, Calling
  <2>2. /\ worker'[w].copy = y.copy /\ \A v \in Workers \ {w} : worker'[v] = worker[v]
    BY <1>1, <1>11 DEF Checkpoint, Begin, Recheck, Post, TransientFailure, Return, Finish, Build, Goto,
      WorkerState
  <2>3. QED
    BY <2>1, <2>2 DEF WorkDone, KeepsCopy, Writes, AtWork, Active, Holding, InLoop, AtStage, Unbuilt,
      Provided, Calling
<1>12. QED
  BY <1>2, <1>3, <1>4, <1>5, <1>7, <1>8, <1>10, <1>11 DEF Work, LocalStage, ProviderStage

LEMMA CalmWork == ASSUME IInv, Calm, NEW w \in Workers, Work(w) PROVE Calm'
<1>1. WorkDone(w)
  BY WorkDoes
<1>2. \A v \in Workers \ {w} : AtWork(v)' <=> AtWork(v)
  BY <1>1 DEF WorkDone, AtWork, Active
<1>3. CASE AtWork(w) /\ KeepsCopy(w) /\ Writes(w)
  <2>1. \A v \in Workers \ {w} : ~AtWork(v)
    BY <1>3 DEF IInv, ActiveRunIsRegistered, AtWork
  <2>2. ~ReportIs(Settled) /\ \A c \in Clients : ~Free(client[c]) /\ client[c].at # "submit"
    BY <1>1, <1>3 DEF Calm, WorkDone, Free
  <2>3. report # NoReport
    BY <1>3 DEF IInv, AtWork, Active
  <2>4. worker'[w].at \in Holding => worker'[w].copy.status \notin Settled
    BY <1>3, <2>2, <2>3 DEF KeepsCopy, Calm, ReportIs, Live, Settled
  <2>5. worker'[w].at = "exiting" \/ ~ReportIs(Settled)'
    BY <1>3, <2>2, <2>4 DEF Writes, ReportIs
  <2>6. ReportIs(Settled)' => \A v \in Workers : ~AtWork(v)'
    BY <1>2, <2>1, <2>5 DEF AtWork
  <2>7. \A v \in Workers : worker'[v].at \in Holding => worker'[v].copy.status \notin Settled
    BY <1>1, <2>4 DEF Calm, WorkDone
  <2>8. QED BY <1>1, <2>2, <2>6, <2>7 DEF Calm, WorkDone
<1>4. CASE worker'[w].at \in {"none", "ending"} /\ report' = report
  <2>1. ~AtWork(w)' /\ worker'[w].at \notin Holding
    BY <1>4 DEF AtWork, Active, Holding, InLoop, AtStage, Unbuilt, Provided, Calling
  <2>2. \A v \in Workers : AtWork(v)' => AtWork(v)
    BY <1>2, <2>1
  <2>3. ReportIs(Settled)' <=> ReportIs(Settled)
    BY <1>4 DEF ReportIs
  <2>4. \A v \in Workers : worker'[v].at \in Holding => worker'[v].copy.status \notin Settled
    BY <1>1, <2>1 DEF Calm, WorkDone
  <2>5. QED BY <1>1, <2>2, <2>3, <2>4 DEF Calm, WorkDone
<1>5. QED BY <1>1, <1>3, <1>4 DEF WorkDone

\* Nobody is at work when the table of futures says so.
LEMMA Unregistered ==
  ASSUME IInv, ~ActiveFuture, NEW w \in Workers PROVE ~AtWork(w) /\ ~Active(w)
<1>1. NoWorker \notin Workers
  BY PipelineAssumption
<1>2. Active(w) => future = w
  BY DEF IInv, ActiveRunIsRegistered
<1>3. QED BY <1>1, <1>2 DEF ActiveFuture, AtWork

\* What each kind of request step leaves alone.
LEMMA RequestFrame ==
  ASSUME NEW c \in Clients, Issue(c) \/ Serve(c)
  PROVE  /\ phase = "up" /\ phase' = "up"
         /\ \/ report' = report /\ worker' = worker
            \/ CancelPersist(c) \/ ResumePersist(c) \/ StartPersist(c)
            \/ Ask(c, "submit") /\ Submit(c)
<1>1. CASE \/ Issue(c) \/ LoadReport(c) \/ CancelFuture(c) \/ ResumeFuture(c) \/ StartCheck(c)
           \/ Ask(c, "submit") /\ Respond(c)
  <2>1. CASE Issue(c)
    BY <2>1, Zenon DEF Issue, Ask, OnlyClients
  <2>2. CASE LoadReport(c) \/ CancelFuture(c) \/ (Ask(c, "submit") /\ Respond(c))
    BY <2>2 DEF LoadReport, CancelFuture, Ask, Respond, OnlyClients
  <2>3. CASE ResumeFuture(c) \/ StartCheck(c)
    BY <2>3 DEF ResumeFuture, StartCheck, Ask, Respond, Proceed, OnlyClients
  <2>4. QED BY <1>1, <2>1, <2>2, <2>3
<1>2. CASE \/ ApproveControl(c) \/ ModeControl(c) \/ CancelControl(c) \/ ResumeControl(c)
           \/ StartEnsure(c)
  <2>1. phase = "up" /\ UNCHANGED <<report, artifact, worker, future, phase>>
    BY <1>2 DEF ApproveControl, ModeControl, CancelControl, ResumeControl, StartEnsure, Ask, Apply
  <2>2. QED BY <2>1
<1>3. CASE CancelPersist(c) \/ ResumePersist(c) \/ StartPersist(c)
  <2>1. phase = "up" /\ UNCHANGED <<control, artifact, worker, future, phase>>
    BY <1>3 DEF CancelPersist, ResumePersist, StartPersist, Ask, Overwrite
  <2>2. QED BY <1>3, <2>1
<1>4. CASE Ask(c, "submit") /\ Submit(c)
  <2>1. phase = "up" /\ UNCHANGED <<control, report, artifact, phase>>
    BY <1>4 DEF Ask, Submit
  <2>2. QED BY <1>4, <2>1
<1>5. QED BY <1>1, <1>2, <1>3, <1>4 DEF Serve, StartSubmit

\* A request that is the only one keeps what it has seen: nobody is at work.
LEMMA CalmRequest ==
  ASSUME IInv, Calm, \A d, e \in Clients : d = e, NEW c \in Clients, Issue(c) \/ Serve(c)
  PROVE  Calm'
<1> DEFINE y == client[c]
<1>1. /\ client \in [Clients -> ClientState] /\ y \in ClientState /\ phase = "up" /\ phase' = "up"
      /\ Clients = {c}
  <2>1. client \in [Clients -> ClientState] /\ y \in ClientState /\ Clients = {c}
    BY RequestFacts
  <2>2. QED BY <2>1, RequestFrame
<1>2. ASSUME worker' = worker, ~ReportIs(Settled)' \/ \A w \in Workers : ~AtWork(w),
             Free(client'[c]) => \A w \in Workers : ~AtWork(w),
             client'[c].at = "submit" => ~ReportIs(Settled)'
      PROVE  Calm'
  <2>1. \A w \in Workers : AtWork(w)' <=> AtWork(w)
    BY <1>2 DEF AtWork, Active
  <2>2. QED BY <1>1, <1>2, <2>1 DEF Calm
<1>3. /\ ReportIs(Settled) => \A w \in Workers : ~AtWork(w)
      /\ Free(y) => \A w \in Workers : ~AtWork(w)
      /\ y.at = "submit" => ~ReportIs(Settled)
  BY <1>1 DEF Calm
<1>4. ASSUME UNCHANGED <<report, worker>>, client'[c].at # "submit",
             Free(client'[c]) => \A w \in Workers : ~AtWork(w)
      PROVE  Calm'
  BY <1>2, <1>3, <1>4 DEF ReportIs
<1>5. CASE Respond(c) \/ (\E file : Apply(c, file, "idle"))
  BY <1>1, <1>4, <1>5 DEF Respond, Apply, OnlyClients, NoRequest, Free
<1>6. CASE Issue(c) \/ ApproveControl(c) \/ ModeControl(c) \/ CancelControl(c)
  <2>1. UNCHANGED <<report, worker>>
    <3>1. CASE Issue(c)
      BY <3>1, Zenon DEF Issue, OnlyClients
    <3>2. CASE ApproveControl(c) \/ ModeControl(c) \/ CancelControl(c)
      BY <3>2 DEF ApproveControl, ModeControl, CancelControl, Apply
    <3>3. QED BY <1>6, <3>1, <3>2
  <2>2. client'[c].at \in {"load", "idle", "cancel_future"}
    <3>1. CASE Issue(c)
      <4>1. PICK kind, mode :
              client' = [client EXCEPT ![c] =
                           [NoRequest EXCEPT !.at = "load", !.kind = kind, !.mode = mode]]
        BY <3>1, Zenon DEF Issue
      <4>2. QED BY <1>1, <4>1 DEF NoRequest
    <3>2. CASE ApproveControl(c)
      BY <1>1, <3>2 DEF ApproveControl, NoRequest
    <3>3. CASE ModeControl(c)
      BY <1>1, <3>3 DEF ModeControl, NoRequest
    <3>4. CASE CancelControl(c)
      BY <1>1, <3>4 DEF CancelControl, Apply, ClientState
    <3>5. QED BY <1>6, <3>1, <3>2, <3>3, <3>4
  <2>3. QED BY <1>4, <2>1, <2>2 DEF Free
<1>7. CASE LoadReport(c)
  <2>1. y.kind \in RequestKinds
    BY <1>1 DEF ClientState
  <2> DEFINE next == AfterLoad(y.kind)
  <2>2. /\ next \in {"idle", "ensure", "check", "load", "approve_control", "mode_control",
                     "cancel_control", "resume_future"}
        /\ next = "ensure" => report = NoReport
    BY <2>1 DEF AfterLoad, RequestKinds
  <2>3. UNCHANGED <<report, worker>> /\ client'[c].at = next
    BY <1>1, <1>7 DEF LoadReport, OnlyClients, NoRequest, ClientState
  <2>4. next = "ensure" => \A w \in Workers : ~AtWork(w)
    BY <2>2 DEF IInv, AtWork, Active
  <2>5. QED BY <1>4, <2>2, <2>3, <2>4 DEF Free
<1>8. CASE CancelFuture(c)
  <2>1. /\ UNCHANGED <<report, worker>>
        /\ client'[c].at = "cancel_persist" /\ client'[c].found = ActiveFuture
    BY <1>1, <1>8 DEF CancelFuture, OnlyClients, ClientState
  <2>2. QED BY <1>4, <2>1, Unregistered DEF Free
<1>9. CASE ResumeFuture(c) \/ StartCheck(c)
  <2>1. CASE ~ActiveFuture /\ \E place \in {"resume_control", "ensure"} : Proceed(c, place)
    <3>1. UNCHANGED <<report, worker>> /\ client'[c].at \in {"resume_control", "ensure"}
      BY <1>1, <2>1 DEF Proceed, OnlyClients, ClientState
    <3>2. QED BY <1>4, <2>1, <3>1, Unregistered
  <2>2. QED BY <1>5, <1>9, <2>1 DEF ResumeFuture, StartCheck
<1>10. CASE ResumeControl(c) \/ StartEnsure(c)
  <2>1. /\ UNCHANGED <<report, worker>> /\ client'[c].at \in {"resume_persist", "persist"}
        /\ y.at \in {"resume_control", "ensure"}
    BY <1>1, <1>10 DEF ResumeControl, StartEnsure, Apply, Ask, ClientState
  <2>2. QED BY <1>3, <1>4, <2>1 DEF Free
<1>11. CASE CancelPersist(c)
  <2>1. worker' = worker /\ client'[c] = NoRequest /\ y.at = "cancel_persist" /\ y.copy \in Report
    BY <1>1, <1>11, RequestFacts DEF CancelPersist, Overwrite, Ask, RequestOK, HoldsCopy
  <2>2. CASE y.found
    <3>1. report'.status = "CANCEL_REQUESTED"
      BY <1>11, <2>1, <2>2 DEF CancelPersist, Overwrite, MarkCancelRequested, Report
    <3>2. QED BY <1>2, <2>1, <3>1 DEF ReportIs, Settled, NoRequest, Free
  <2>3. CASE ~y.found
    BY <1>2, <1>3, <2>1, <2>3 DEF NoRequest, Free
  <2>4. QED BY <2>2, <2>3
<1>12. CASE ResumePersist(c)
  <2>1. worker' = worker /\ client'[c].at = "load" /\ y.at = "resume_persist"
    BY <1>1, <1>12 DEF ResumePersist, Ask, NoRequest
  <2>2. QED BY <1>2, <1>3, <2>1 DEF Free
<1>13. CASE StartPersist(c)
  <2>1. worker' = worker /\ client'[c].at = "submit" /\ y.at = "persist"
    BY <1>1, <1>13 DEF StartPersist, Overwrite, Ask, ClientState
  <2>2. report'.status = "QUEUED"
    <3>1. CASE y.copy = NoReport
      BY <1>13, <3>1 DEF StartPersist, Overwrite, InitialReport
    <3>2. CASE y.copy # NoReport
      <4>1. y.copy \in Report /\ report' = ResetForStart(y.copy)
        BY <1>1, <1>13, <3>2 DEF StartPersist, Overwrite, ClientState
      <4>2. QED BY <4>1 DEF ResetForStart, Report
    <3>3. QED BY <3>1, <3>2
  <2>3. QED BY <1>2, <1>3, <2>1, <2>2 DEF Free, ReportIs, Settled
<1>14. CASE StartSubmit(c) /\ Submit(c)
  <2>1. ~ReportIs(Settled)
    BY <1>3, <1>14 DEF StartSubmit, Ask
  <2>2. PICK w \in Workers : worker' = [worker EXCEPT ![w].at = "queued"]
    BY <1>14 DEF Submit
  <2>3. /\ worker \in [Workers -> WorkerState] /\ report' = report /\ client'[c] = NoRequest
    BY <1>1, <1>14 DEF Submit, IInv, TypeOK
  <2>4. worker'[w].at = "queued" /\ \A v \in Workers \ {w} : worker'[v] = worker[v]
    BY <2>2, <2>3 DEF WorkerState
  <2>5. \A v \in Workers : worker'[v].at \in Holding => worker'[v].copy.status \notin Settled
    BY <2>4 DEF Calm, Holding, InLoop, AtStage, Unbuilt, Provided, Calling
  <2>6. QED BY <1>1, <2>1, <2>3, <2>5 DEF Calm, ReportIs, NoRequest, Free
<1>15. QED
  BY <1>5, <1>6, <1>7, <1>8, <1>9, <1>10, <1>11, <1>12, <1>13, <1>14 DEF Serve, StartSubmit

LEMMA CalmStep ==
  ASSUME IInv, Calm, \A c, d \in Clients : c = d, [Next]_vars
  PROVE  Calm'
<1>1. CASE UNCHANGED vars
  BY <1>1 DEF vars, Calm, AtWork, Active, Free, ReportIs
<1>2. CASE Exit
  <2>1. \A w \in Workers : worker'[w] = NoThread
    BY <1>2 DEF Exit
  <2>2. \A c \in Clients : client'[c] = NoRequest
    BY <1>2 DEF Exit
  <2>3. QED
    BY <1>2, <2>1, <2>2 DEF Exit, Calm, NoThread, NoRequest, Free, AtWork, Active, Holding, InLoop,
      AtStage, Unbuilt, Provided, Calling
<1>3. CASE RecoverControl \/ RecoverReport
  <2>1. UNCHANGED <<worker, client>> /\ phase # "up"
    BY <1>3 DEF RecoverControl, RecoverReport
  <2>2. (\A w \in Workers : worker[w].at = "none") /\ \A c \in Clients : client[c].at = "idle"
    BY <2>1 DEF IInv, Calm
  <2>3. QED
    BY <2>1, <2>2 DEF Calm, Free, AtWork, Active, Holding, InLoop, AtStage, Unbuilt, Provided, Calling
<1>4. QED BY <1>1, <1>2, <1>3, CalmWork, CalmRequest DEF Next

\* With one request at a time, a report that has settled is changed only by a request
\* until the process is started again: no run has anything left to write.
THEOREM LeftAlone == (\A c, d \in Clients : c = d) => (Spec => SettledReportIsLeftAlone)
<1> SUFFICES ASSUME \A c, d \in Clients : c = d PROVE Spec => SettledReportIsLeftAlone
  OBVIOUS
<1>1. Init => IInv /\ Calm
  <2> SUFFICES ASSUME Init PROVE Calm
    BY Initially
  <2>1. (\A w \in Workers : worker[w] = NoThread) /\ \A c \in Clients : client[c] = NoRequest
    BY DEF Init
  <2>2. QED
    BY <2>1 DEF Calm, NoThread, NoRequest, Free, AtWork, Active, Holding, InLoop, AtStage, Unbuilt,
      Provided, Calling
<1>2. IInv /\ Calm /\ [Next]_vars => (IInv /\ Calm)'
  BY Inductive, CalmStep
<1>3. ASSUME IInv, Calm, [Next]_vars, phase = "up", ReportIs(Settled), report' # report
      PROVE  \E c \in Clients : client'[c] # client[c]
  <2>1. ASSUME NEW w \in Workers, Work(w) PROVE FALSE
    <3>1. ~AtWork(w)
      BY <1>3 DEF Calm
    <3>2. QED BY <1>3, <2>1, <3>1, WorkDoes DEF WorkDone
  <2>2. ASSUME NEW c \in Clients, Issue(c) \/ Serve(c) PROVE client'[c] # client[c]
    <3>1. client \in [Clients -> ClientState]
      BY <1>3 DEF IInv, TypeOK
    <3>2. CASE CancelPersist(c)
      BY <3>1, <3>2 DEF CancelPersist, Ask, Overwrite, NoRequest
    <3>3. CASE ResumePersist(c)
      BY <3>1, <3>3 DEF ResumePersist, Ask, NoRequest
    <3>4. CASE StartPersist(c)
      BY <3>1, <3>4 DEF StartPersist, Ask, Overwrite, ClientState
    <3>5. CASE Ask(c, "submit") /\ Submit(c)
      BY <1>3, <3>5 DEF Submit
    <3>6. QED BY <1>3, <2>2, <3>2, <3>3, <3>4, <3>5, RequestFrame
  <2>3. ~(Exit \/ RecoverControl \/ RecoverReport \/ UNCHANGED vars)
    BY <1>3 DEF Exit, RecoverControl, RecoverReport, vars
  <2>4. QED BY <1>3, <2>1, <2>2, <2>3 DEF Next
<1>4. QED BY <1>1, <1>2, <1>3, PTL DEF Spec, SettledReportIsLeftAlone

-----------------------------------------------------------------------------
(* The pipeline implements the provider boundary.                          *)

\* A request that will change the control file has seen a report, or has ensured
\* the file itself.
HasControl == HoldsCopy \cup {"approve_control", "persist"}

\* The report comes after the control file, a recorded call after the report, and
\* the history has observed the file and the calls.
Link ==
  /\ report # NoReport => control # NoControl
  /\ \A c \in Clients : client[c].at \in HasControl => control # NoControl
  /\ control # NoControl /\ control.active_provider # NoProvider => report # NoReport
  /\ Boundary!FileAllows(control) => granted /\ \A w \in Workers : late[w] = 0
  /\ crossed = {w \in Workers :
                  /\ Boundary!Outbound(w)
                  /\ w \in crossed \/ \E v \in Workers \ {w} : Boundary!Outbound(v)}

\* A worker as the boundary sees it.
Place(x) ==
  CASE x.at \in {"begun", "slotwait"} -> "begun"
    [] x.at \in {"cleared", "posting"} -> "cleared"
    [] x.at \in {"ready", "inflight", "backoff", "returned"} -> x.at
    [] OTHER -> "idle"

Seen(x) ==
  IF Place(x) \in {"idle", "ready"}
  THEN [at |-> Place(x), provider |-> NoProvider, attempt |-> 0]
  ELSE [at |-> Place(x), provider |-> ProviderOf[x.stage], attempt |-> x.attempt]

LEMMA Seeing ==
  /\ BoundaryCaller = [w \in Workers |-> Seen(worker[w])]
  /\ BoundaryCaller' = [w \in Workers |-> Seen(worker'[w])]
<1>1. \A w \in Workers : BoundaryPlace(w) = Place(worker[w]) /\ BoundaryPlace(w)' = Place(worker'[w])
  BY DEF BoundaryPlace, Place
<1>2. QED BY <1>1 DEF BoundaryCaller, Seen

\* The places of a worker, seen from the boundary.
LEMMA SeenAt ==
  ASSUME NEW x
  PROVE  /\ x.at \notin Provided => Seen(x) = Boundary!Idle
         /\ x.at = "ready" => Seen(x) = [Boundary!Idle EXCEPT !.at = "ready"]
         /\ x.at \in Calling =>
              Seen(x) = [at |-> Place(x), provider |-> ProviderOf[x.stage], attempt |-> x.attempt]
         /\ x.at \in {"begun", "slotwait"} => Place(x) = "begun"
         /\ x.at \in {"cleared", "posting"} => Place(x) = "cleared"
         /\ x.at \in {"inflight", "backoff", "returned"} => Place(x) = x.at
<1>1. x.at \notin Provided => Place(x) = "idle"
  BY DEF Place, Provided, Calling
<1>2. x.at = "ready" => Place(x) = "ready"
  BY DEF Place
<1>3. /\ x.at \in {"begun", "slotwait"} => Place(x) = "begun"
      /\ x.at \in {"cleared", "posting"} => Place(x) = "cleared"
      /\ x.at \in {"inflight", "backoff", "returned"} => Place(x) = x.at
  BY DEF Place
<1>4. x.at \in Calling => Place(x) \notin {"idle", "ready"}
  BY <1>3 DEF Calling
<1>5. QED BY <1>1, <1>2, <1>3, <1>4 DEF Seen, Boundary!Idle

\* One worker moves, the boundary sees it and no other.
LEMMA Shown ==
  ASSUME NEW w \in Workers, \A v \in Workers \ {w} : worker'[v] = worker[v]
  PROVE  /\ BoundaryCaller' = [BoundaryCaller EXCEPT ![w] = Seen(worker'[w])]
         /\ BoundaryCaller[w] = Seen(worker[w])
BY Seeing

\* A worker runs on a report, and leaves one.
LEMMA WorkReported ==
  ASSUME IInv, NEW w \in Workers, Work(w)
  PROVE  report # NoReport /\ report' # NoReport
<1>1. WorkDone(w)
  BY WorkDoes
<1>2. report # NoReport
  <2>1. worker[w].at # "none"
    BY DEF Work, LocalStage, ProviderStage, Load, Ingest, Checkpoint, Cancelling, Complete,
      SkipStage, ReuseStage, FailsEarly, WaitLocal, RunLocal, NotConfigured, RunProvider, Begin,
      BeginRefused, WaitSlot, Recheck, MarkCalling, Post, TransientFailure, Return, Finish,
      CallFails, Build, StageFails, FinishStage, HandlerLoads, Handle, FutureDone, Forget,
      MustRunLocally, MustCallProvider, MustRun, At
  <2>2. QED BY <2>1 DEF IInv
<1>3. report' = report \/ worker'[w].at # "none"
  BY <1>1 DEF WorkDone, Writes, Holding, InLoop, AtStage, Unbuilt, Provided, Calling
<1>4. worker'[w].at # "none" => report' # NoReport
  BY WorkStep DEF IInv
<1>5. QED BY <1>2, <1>3, <1>4

\* Calls and a control file as they were are nothing new to the history.
LEMMA HistoryStays ==
  ASSUME TypeOK, Link, control' = control, BoundaryCaller' = BoundaryCaller,
         (phase' # "down") = (phase # "down"), Boundary!Observe({})
  PROVE  UNCHANGED <<late, granted, crossed, blind>>
<1>1. late \in [Workers -> Nat] /\ granted \in BOOLEAN /\ blind \in BOOLEAN
  BY DEF TypeOK
<1>2. Boundary!FileAllows(control') <=> Boundary!FileAllows(control)
  OBVIOUS
<1>3. granted' = granted
  BY <1>1, <1>2 DEF Link, Boundary!Observe
<1>4. late' = [w \in Workers |-> late[w]]
  BY <1>2 DEF Link, Boundary!Observe
<1>5. \A w \in Workers : Boundary!Outbound(w)' <=> Boundary!Outbound(w)
  BY DEF Boundary!Outbound
<1>6. crossed' = crossed
  BY <1>5 DEF Link, Boundary!Observe
<1>7. blind' = blind
  <2>1. blind' = (blind /\ \A w \in Workers : Boundary!Outbound(w)' => Boundary!Outbound(w))
    BY DEF Boundary!Observe
  <2>2. QED BY <1>1, <1>5, <2>1
<1>8. QED BY <1>1, <1>3, <1>4, <1>6, <1>7

LEMMA Stutters ==
  ASSUME TypeOK, Link, control' = control, BoundaryCaller' = BoundaryCaller,
         (phase' # "down") = (phase # "down"), (report' # NoReport) = (report # NoReport),
         Boundary!Observe({})
  PROVE  UNCHANGED Boundary!vars
BY HistoryStays DEF Boundary!vars

\* Steps away from the provider are not seen.
Quiet == WorkerPlace \ Provided

LEMMA QuietStep ==
  ASSUME TypeOK, Link, NEW w \in Workers, \A v \in Workers \ {w} : worker'[v] = worker[v],
         worker[w].at \in Quiet, worker'[w].at \in Quiet,
         report # NoReport, report' # NoReport,
         control' = control, phase' = phase, Boundary!Observe({})
  PROVE  UNCHANGED Boundary!vars
<1>1. Seen(worker'[w]) = Seen(worker[w])
  BY SeenAt DEF Quiet
<1>2. BoundaryCaller' = BoundaryCaller
  BY <1>1, Shown, Seeing
<1>3. QED BY <1>2, Stutters

LEMMA QuietWork ==
  ASSUME IInv, Link, NEW w \in Workers,
         \/ Load(w) \/ Ingest(w) \/ Checkpoint(w) \/ Cancelling(w) \/ Complete(w)
         \/ SkipStage(w) \/ ReuseStage(w) \/ FinishStage(w) \/ FailsEarly(w) \/ NotConfigured(w)
         \/ WaitLocal(w) \/ RunLocal(w) \/ (At(w, "working") /\ (Build(w) \/ StageFails(w)))
         \/ HandlerLoads(w) \/ Handle(w) \/ FutureDone(w) \/ Forget(w)
  PROVE  UNCHANGED Boundary!vars
<1> DEFINE y == worker[w]
<1>1. worker \in [Workers -> WorkerState] /\ TypeOK
  BY DEF IInv, TypeOK
<1>2. WorkDone(w)
  BY WorkDoes DEF Work, LocalStage, ProviderStage
<1>3. /\ phase' = phase /\ \A v \in Workers \ {w} : worker'[v] = worker[v]
      /\ report # NoReport /\ report' # NoReport
  BY <1>2, WorkReported DEF WorkDone, Work, LocalStage, ProviderStage
<1>4. /\ y.at \in Quiet /\ worker'[w].at \in Quiet
      /\ control' = control /\ Boundary!Observe({})
  <2>1. CASE Load(w) \/ HandlerLoads(w)
    BY <1>1, <2>1 DEF Load, HandlerLoads, OnlyWorkers, At, Quiet, WorkerPlace, Provided, Calling,
      WorkerState
  <2>2. CASE FutureDone(w) \/ Forget(w)
    BY <1>1, <2>2 DEF FutureDone, Forget, Goto, OnlyWorkers, At, Quiet, WorkerPlace, Provided,
      Calling, WorkerState, NoThread
  <2>3. CASE Checkpoint(w)
    BY <1>1, <2>3 DEF Checkpoint, Goto, OnlyWorkers, At, Quiet, WorkerPlace, Provided, Calling,
      WorkerState
  <2>4. CASE Cancelling(w) \/ Complete(w) \/ Handle(w)
    <3>1. /\ y.at \in Quiet /\ control' = control /\ Boundary!Observe({})
          /\ worker' = [worker EXCEPT ![w] = [NoThread EXCEPT !.at = "exiting"]]
      BY <2>4 DEF Cancelling, Complete, Handle, LastWrite, WorkersAndReport, OnlyWorkers, At, Quiet,
        WorkerPlace, Provided, Calling
    <3>2. worker'[w].at = "exiting" /\ control' = control /\ Boundary!Observe({})
      BY <1>1, <3>1 DEF NoThread
    <3>3. QED BY <3>1, <3>2 DEF Quiet, WorkerPlace, Provided, Calling
  <2>5. CASE Ingest(w)
    BY <1>1, <2>5 DEF Ingest, WorkersAndReport, At, Quiet, WorkerPlace, Provided, Calling,
      WorkerState
  <2>6. CASE SkipStage(w) \/ ReuseStage(w) \/ FinishStage(w)
    <3>1. y.at \in Quiet /\ \E how : StageDone(w, how)
      BY <2>6 DEF SkipStage, ReuseStage, FinishStage, At, Quiet, WorkerPlace, Provided, Calling
    <3>2. worker'[w].at = "checkpoint" /\ control' = control /\ Boundary!Observe({})
      BY <1>1, <3>1 DEF StageDone, WorkersAndReport, WorkerState
    <3>3. QED BY <3>1, <3>2 DEF Quiet, WorkerPlace, Provided, Calling
  <2>7. CASE WaitLocal(w) \/ RunLocal(w)
    <3>1. y.at \in {"stage", "localwait"}
          /\ \E copy : Persist(w, "localwait", copy) \/ Persist(w, "working", copy)
      BY <2>7 DEF WaitLocal, RunLocal, MustRunLocally, MustRun, At
    <3>2. worker'[w].at \in {"localwait", "working"} /\ control' = control /\ Boundary!Observe({})
      BY <1>1, <3>1 DEF Persist, WorkersAndReport, WorkerState
    <3>3. QED BY <3>1, <3>2 DEF Quiet, WorkerPlace, Provided, Calling
  <2>8. CASE FailsEarly(w) \/ NotConfigured(w) \/ (At(w, "working") /\ StageFails(w))
    <3>1. y.at \in {"stage", "working"} /\ \E outcome : Raise(w, outcome)
      BY <2>8 DEF FailsEarly, NotConfigured, StageFails, MustCallProvider, MustRun, At
    <3>2. worker'[w].at = "raised" /\ control' = control /\ Boundary!Observe({})
      BY <1>1, <3>1 DEF Raise, OnlyWorkers, NoThread
    <3>3. QED BY <3>1, <3>2 DEF Quiet, WorkerPlace, Provided, Calling
  <2>9. CASE At(w, "working") /\ Build(w)
    BY <1>1, <2>9 DEF Build, At, Quiet, WorkerPlace, Provided, Calling, WorkerState
  <2>10. QED BY <2>1, <2>2, <2>3, <2>4, <2>5, <2>6, <2>7, <2>8, <2>9
<1>5. QED BY <1>1, <1>3, <1>4, QuietStep

\* What the boundary shows of a step of one worker in a running process.
LEMMA SeenStep ==
  ASSUME IInv, NEW w \in Workers, Work(w)
  PROVE  /\ BoundaryCaller' = [BoundaryCaller EXCEPT ![w] = Seen(worker'[w])]
         /\ BoundaryCaller[w] = Seen(worker[w])
         /\ phase # "down" /\ phase' # "down" /\ phase' = phase
         /\ report # NoReport /\ report' # NoReport
         /\ (report' # NoReport) = (report # NoReport)
<1>1. WorkDone(w)
  BY WorkDoes
<1>2. phase = "up" /\ phase' = phase /\ \A v \in Workers \ {w} : worker'[v] = worker[v]
  BY <1>1 DEF WorkDone
<1>3. QED BY <1>2, Shown, WorkReported

\* A provider stage starts: the caller enters, and finds the file there.
LEMMA EnterStep ==
  ASSUME IInv, Link, NEW w \in Workers, RunProvider(w)
  PROVE  Boundary!Next
<1> DEFINE y == worker[w]
<1>1. worker \in [Workers -> WorkerState] /\ TypeOK /\ Work(w)
  BY DEF IInv, TypeOK, Work, ProviderStage
<1>2. PICK calls \in 0..MaxCalls :
        worker' = [worker EXCEPT ![w].at = "ready", ![w].copy = MarkRunning(y.copy, y.stage),
                                 ![w].calls = calls]
  BY DEF RunProvider
<1>3. y.at = "stage" /\ control' = control /\ Boundary!Observe({})
  BY DEF RunProvider, WorkersAndReport, MustCallProvider, MustRun, At
<1>4. worker'[w].at = "ready"
  BY <1>1, <1>2 DEF WorkerState
<1>5. Seen(y) = Boundary!Idle /\ Seen(worker'[w]) = [Boundary!Idle EXCEPT !.at = "ready"]
  BY <1>3, <1>4, SeenAt DEF Provided, Calling
<1>6. BoundaryCaller[w].at = "idle"
      /\ BoundaryCaller' = [BoundaryCaller EXCEPT ![w].at = "ready"]
  BY <1>1, <1>5, SeenStep DEF Boundary!Idle
<1>7. control # NoControl
  BY <1>3 DEF IInv, Link
<1>8. control' = Boundary!EnsurePipelineControl(control, "REQUIRE_APPROVAL")
  BY <1>3, <1>7 DEF Boundary!EnsurePipelineControl, Boundary!Existing
<1>9. Boundary!Enter(w)
  BY <1>1, <1>3, <1>6, <1>8, SeenStep DEF Boundary!Enter, Boundary!Move
<1>10. QED BY <1>9 DEF Boundary!Next, Boundary!Call

\* A stage that leaves its calls behind, with its output or with an exception.
LEMMA LeaveStep ==
  ASSUME IInv, Link, NEW w \in Workers,
         \/ (At(w, "ready") /\ (Build(w) \/ StageFails(w)))
         \/ BeginRefused(w) \/ CallFails(w)
  PROVE  Boundary!Next
<1> DEFINE y == worker[w]
<1>1. worker \in [Workers -> WorkerState] /\ TypeOK /\ Work(w) /\ y.at = "ready"
  BY DEF IInv, TypeOK, Work, ProviderStage, At, BeginRefused, CallFails
<1>2. worker'[w].at \in {"built", "raised"} /\ control' = control /\ Boundary!Observe({})
  <2>1. CASE Build(w)
    BY <1>1, <2>1 DEF Build, WorkerState
  <2>2. CASE \E outcome : Raise(w, outcome)
    BY <1>1, <2>2 DEF Raise, OnlyWorkers, NoThread
  <2>3. QED BY <2>1, <2>2 DEF StageFails, BeginRefused, CallFails
<1>3. Seen(worker'[w]) = Boundary!Idle /\ Seen(y) = [Boundary!Idle EXCEPT !.at = "ready"]
  BY <1>1, <1>2, SeenAt DEF Provided, Calling
<1>4. BoundaryCaller[w].at = "ready"
      /\ BoundaryCaller' = [BoundaryCaller EXCEPT ![w].at = "idle"]
  BY <1>1, <1>3, SeenStep DEF Boundary!Idle
<1>5. Boundary!Leave(w)
  BY <1>1, <1>2, <1>4, SeenStep DEF Boundary!Leave, Boundary!Move
<1>6. QED BY <1>5 DEF Boundary!Next, Boundary!Call

\* Waiting for the slot and marking the stage as running write the report only.
LEMMA MarkedStep ==
  ASSUME IInv, Link, NEW w \in Workers, WaitSlot(w) \/ MarkCalling(w)
  PROVE  UNCHANGED Boundary!vars
<1> DEFINE y == worker[w]
<1>1. worker \in [Workers -> WorkerState] /\ TypeOK /\ Work(w)
  BY DEF IInv, TypeOK, Work, ProviderStage
<1>2. \E copy, place :
        /\ (y.at = "begun" /\ place = "slotwait") \/ (y.at = "cleared" /\ place = "posting")
        /\ Persist(w, place, copy)
  BY DEF WaitSlot, MarkCalling, At
<1>3. /\ (y.at = "begun" /\ worker'[w].at = "slotwait") \/ (y.at = "cleared" /\ worker'[w].at = "posting")
      /\ worker'[w].stage = y.stage /\ worker'[w].attempt = y.attempt
      /\ control' = control /\ Boundary!Observe({})
  BY <1>1, <1>2 DEF Persist, WorkersAndReport, WorkerState
<1>4. y.at \in Calling /\ worker'[w].at \in Calling /\ Place(worker'[w]) = Place(y)
  BY <1>2, <1>3, SeenAt DEF Calling
<1>5. Seen(worker'[w]) = Seen(y)
  BY <1>3, <1>4, SeenAt
<1>6. BoundaryCaller' = BoundaryCaller
  BY <1>1, <1>5, SeenStep, Seeing
<1>7. phase' = phase /\ (report' # NoReport) = (report # NoReport)
  BY <1>1, SeenStep
<1>8. QED BY <1>1, <1>3, <1>6, <1>7, Stutters

\* begin_provider_call.
LEMMA BeginsCall ==
  ASSUME IInv, Link, NEW w \in Workers, Begin(w)
  PROVE  Boundary!Next
<1> DEFINE y == worker[w]
<1>1. worker \in [Workers -> WorkerState] /\ TypeOK /\ Work(w)
  BY DEF IInv, TypeOK, Work, ProviderStage
<1>2. /\ y.at = "ready" /\ ProviderAllowed(control)
      /\ control' = BeginProviderCall(control, ProviderOf[y.stage]) /\ Boundary!Observe({})
  BY DEF Begin, At
<1>3. worker'[w].at = "begun" /\ worker'[w].stage = y.stage /\ worker'[w].attempt = 0
  BY <1>1, Bounds DEF Begin, WorkerState
<1>4. y.stage \in ProviderStages
  BY <1>2, WorkerFacts DEF Shape, Provided
<1>5. /\ BoundaryCaller[w].at = "ready"
      /\ BoundaryCaller' = [BoundaryCaller EXCEPT ![w] =
           [at |-> "begun", provider |-> ProviderOf[y.stage], attempt |-> 0]]
  BY <1>1, <1>2, <1>3, SeenStep, SeenAt DEF Boundary!Idle, Calling
<1>6. ProviderOf[y.stage] \in Providers
  BY <1>4, Bounds
<1>7. /\ Boundary!ProviderAllowed(control)
      /\ control' = Boundary!BeginProviderCall(control, ProviderOf[y.stage])
  BY <1>2 DEF ProviderAllowed, NotCancelled, PolicyAllows, GetPipelineControl, Existing, NewControl,
    BeginProviderCall, Boundary!ProviderAllowed, Boundary!NotCancelled, Boundary!PolicyAllows,
    Boundary!GetPipelineControl, Boundary!Existing, Boundary!NewControl, Boundary!BeginProviderCall
<1>8. Boundary!Begin(w, ProviderOf[y.stage])
  BY <1>1, <1>2, <1>5, <1>7, SeenStep DEF Boundary!Begin, Boundary!Cross
<1>9. QED BY <1>6, <1>8 DEF Boundary!Next, Boundary!Call

\* _provider_slot_call: the second look at the control file.
LEMMA RechecksCall ==
  ASSUME IInv, Link, NEW w \in Workers, Recheck(w)
  PROVE  Boundary!Next
<1> DEFINE y == worker[w]
<1>1. worker \in [Workers -> WorkerState] /\ TypeOK /\ Work(w)
  BY DEF IInv, TypeOK, Work, ProviderStage
<1>2. y.at \in {"begun", "slotwait"} /\ control' = control /\ Boundary!Observe({})
  BY DEF Recheck, At, OnlyWorkers
<1> DEFINE place == IF ProviderAllowed(control) THEN "cleared" ELSE "returned"
<1>3. worker'[w].at = place /\ worker'[w].stage = y.stage /\ worker'[w].attempt = y.attempt
  BY <1>1 DEF Recheck, WorkerState
<1>4. /\ BoundaryCaller[w] = [at |-> "begun", provider |-> ProviderOf[y.stage], attempt |-> y.attempt]
      /\ BoundaryCaller' = [BoundaryCaller EXCEPT ![w] =
           [at |-> place, provider |-> ProviderOf[y.stage], attempt |-> y.attempt]]
  BY <1>1, <1>2, <1>3, SeenStep, SeenAt DEF Calling
<1> HIDE DEF place
<1>5. BoundaryCaller' = [BoundaryCaller EXCEPT ![w].at = place] /\ BoundaryCaller[w].at = "begun"
  <2>1. [BoundaryCaller[w] EXCEPT !.at = place]
          = [at |-> place, provider |-> ProviderOf[y.stage], attempt |-> y.attempt]
    BY <1>4
  <2>2. [BoundaryCaller EXCEPT ![w] = [BoundaryCaller[w] EXCEPT !.at = place]]
          = [BoundaryCaller EXCEPT ![w] =
              [at |-> place, provider |-> ProviderOf[y.stage], attempt |-> y.attempt]]
    BY <2>1
  <2>3. QED BY <1>4, <2>2
<1>6. place = IF Boundary!ProviderAllowed(control) THEN "cleared" ELSE "returned"
  BY DEF ProviderAllowed, NotCancelled, PolicyAllows, GetPipelineControl, Existing, NewControl,
    Boundary!ProviderAllowed, Boundary!NotCancelled, Boundary!PolicyAllows,
    Boundary!GetPipelineControl, Boundary!Existing, Boundary!NewControl, place
<1>7. /\ (phase # "down") = TRUE /\ (phase' # "down") = TRUE
      /\ (report' # NoReport) = (report # NoReport)
  BY <1>1, SeenStep
<1>8. Boundary!Recheck(w)
  BY <1>2, <1>5, <1>6, <1>7 DEF Boundary!Recheck, Boundary!Move
<1>9. QED BY <1>8 DEF Boundary!Next, Boundary!Call

\* A request is sent, fails for a moment, or is over.
LEMMA SendsCall ==
  ASSUME IInv, Link, NEW w \in Workers, Post(w) \/ TransientFailure(w) \/ Return(w)
  PROVE  Boundary!Next
<1> DEFINE y == worker[w]
<1>1. worker \in [Workers -> WorkerState] /\ TypeOK /\ Work(w)
  BY DEF IInv, TypeOK, Work, ProviderStage
<1>up. /\ (phase # "down") = TRUE /\ (phase' # "down") = TRUE
       /\ (report' # NoReport) = (report # NoReport)
  BY <1>1, SeenStep
<1>2. CASE Post(w)
  <2>1. y.at \in {"posting", "backoff"} /\ control' = control /\ Boundary!Observe({w})
    BY <1>2 DEF Post, At
  <2>2. worker'[w].at = "inflight" /\ worker'[w].stage = y.stage /\ worker'[w].attempt = y.attempt + 1
    BY <1>1, <1>2 DEF Post, WorkerState
  <2>3. /\ BoundaryCaller[w] = [at |-> Place(y), provider |-> ProviderOf[y.stage], attempt |-> y.attempt]
        /\ Place(y) \in {"cleared", "backoff"}
        /\ BoundaryCaller' = [BoundaryCaller EXCEPT ![w] =
             [at |-> "inflight", provider |-> ProviderOf[y.stage], attempt |-> y.attempt + 1]]
    BY <1>1, <2>1, <2>2, SeenStep, SeenAt DEF Calling
  <2>4. BoundaryCaller' = [BoundaryCaller EXCEPT ![w].at = "inflight", ![w].attempt = @ + 1]
    <3> DEFINE sent == [at |-> "inflight", provider |-> ProviderOf[y.stage], attempt |-> y.attempt]
               next == [at |-> "inflight", provider |-> ProviderOf[y.stage], attempt |-> y.attempt + 1]
               f == [BoundaryCaller EXCEPT ![w].at = "inflight"]
    <3>1. [BoundaryCaller[w] EXCEPT !.at = "inflight"] = sent
      BY <2>3
    <3>2. BoundaryCaller = [v \in Workers |-> BoundaryCaller[v]]
      BY Seeing
    <3>3. [BoundaryCaller EXCEPT ![w] = [BoundaryCaller[w] EXCEPT !.at = "inflight"]]
            = [v \in Workers |-> IF v = w THEN sent ELSE BoundaryCaller[v]]
      BY <3>1, <3>2
    <3>4. f = [v \in Workers |-> IF v = w THEN sent ELSE BoundaryCaller[v]]
      BY <3>3
    <3> HIDE DEF f
    <3>5. f[w] = sent
      BY <3>4
    <3>6. [f[w] EXCEPT !.attempt = BoundaryCaller[w].attempt + 1] = next
      BY <2>3, <3>5
    <3>7. [f EXCEPT ![w] = [f[w] EXCEPT !.attempt = BoundaryCaller[w].attempt + 1]]
            = [v \in Workers |-> IF v = w THEN next ELSE BoundaryCaller[v]]
      BY <3>4, <3>6
    <3>8. BoundaryCaller' = [v \in Workers |-> IF v = w THEN next ELSE BoundaryCaller[v]]
      BY <2>3, <3>2
    <3>9. BoundaryCaller' = [f EXCEPT ![w] = [f[w] EXCEPT !.attempt = BoundaryCaller[w].attempt + 1]]
      BY <3>7, <3>8
    <3>10. QED BY <3>9 DEF f
  <2>5. BoundaryCaller[w].at \in {"cleared", "backoff"}
    BY <2>3
  <2>6. Boundary!Post(w)
    BY <1>up, <2>1, <2>4, <2>5 DEF Boundary!Post, Boundary!MayPost
  <2>7. QED BY <2>6 DEF Boundary!Next, Boundary!Call
<1>3. CASE TransientFailure(w)
  <2>1. /\ y.at = "inflight" /\ y.attempt < MaxAttempts
        /\ control' = control /\ Boundary!Observe({})
    BY <1>3 DEF TransientFailure, At, Goto, OnlyWorkers
  <2>2. worker'[w].at = "backoff" /\ worker'[w].stage = y.stage /\ worker'[w].attempt = y.attempt
    BY <1>1, <1>3 DEF TransientFailure, Goto, WorkerState
  <2>3. /\ BoundaryCaller[w] = [at |-> "inflight", provider |-> ProviderOf[y.stage], attempt |-> y.attempt]
        /\ BoundaryCaller' = [BoundaryCaller EXCEPT ![w] =
             [at |-> "backoff", provider |-> ProviderOf[y.stage], attempt |-> y.attempt]]
    BY <1>1, <2>1, <2>2, SeenStep, SeenAt DEF Calling
  <2>4. /\ BoundaryCaller' = [BoundaryCaller EXCEPT ![w].at = "backoff"]
        /\ BoundaryCaller[w].at = "inflight" /\ BoundaryCaller[w].attempt = y.attempt
    <3>1. [BoundaryCaller[w] EXCEPT !.at = "backoff"]
            = [at |-> "backoff", provider |-> ProviderOf[y.stage], attempt |-> y.attempt]
      BY <2>3
    <3>2. [BoundaryCaller EXCEPT ![w] = [BoundaryCaller[w] EXCEPT !.at = "backoff"]]
            = [BoundaryCaller EXCEPT ![w] =
                [at |-> "backoff", provider |-> ProviderOf[y.stage], attempt |-> y.attempt]]
      BY <3>1
    <3>3. QED BY <2>3, <3>2
  <2>5. Boundary!TransientFailure(w)
    BY <1>up, <2>1, <2>4 DEF Boundary!TransientFailure, Boundary!Move
  <2>6. QED BY <2>5 DEF Boundary!Next, Boundary!Call
<1>4. CASE Return(w)
  <2>1. y.at = "inflight" /\ control' = control /\ Boundary!Observe({})
    BY <1>4 DEF Return, At, OnlyWorkers
  <2>2. worker'[w].at = "returned" /\ worker'[w].stage = y.stage /\ worker'[w].attempt = y.attempt
    BY <1>1, <1>4 DEF Return, WorkerState
  <2>3. /\ BoundaryCaller[w] = [at |-> "inflight", provider |-> ProviderOf[y.stage], attempt |-> y.attempt]
        /\ BoundaryCaller' = [BoundaryCaller EXCEPT ![w] =
             [at |-> "returned", provider |-> ProviderOf[y.stage], attempt |-> y.attempt]]
    BY <1>1, <2>1, <2>2, SeenStep, SeenAt DEF Calling
  <2>4. /\ BoundaryCaller' = [BoundaryCaller EXCEPT ![w].at = "returned"]
        /\ BoundaryCaller[w].at = "inflight"
    <3>1. [BoundaryCaller[w] EXCEPT !.at = "returned"]
            = [at |-> "returned", provider |-> ProviderOf[y.stage], attempt |-> y.attempt]
      BY <2>3
    <3>2. [BoundaryCaller EXCEPT ![w] = [BoundaryCaller[w] EXCEPT !.at = "returned"]]
            = [BoundaryCaller EXCEPT ![w] =
                [at |-> "returned", provider |-> ProviderOf[y.stage], attempt |-> y.attempt]]
      BY <3>1
    <3>3. QED BY <2>3, <3>2
  <2>5. Boundary!Return(w)
    BY <1>up, <2>1, <2>4 DEF Boundary!Return, Boundary!Move
  <2>6. QED BY <2>5 DEF Boundary!Next, Boundary!Call
<1>5. QED BY <1>2, <1>3, <1>4

\* finish_provider_call.
LEMMA FinishesCall ==
  ASSUME IInv, Link, NEW w \in Workers, Finish(w)
  PROVE  Boundary!Next
<1> DEFINE y == worker[w]
<1>1. worker \in [Workers -> WorkerState] /\ TypeOK /\ Work(w)
  BY DEF IInv, TypeOK, Work, ProviderStage
<1>2. /\ y.at = "returned" /\ Boundary!Observe({})
      /\ control' = FinishProviderCall(control, ProviderOf[y.stage])
  BY DEF Finish, At
<1>3. worker'[w].at = "ready"
  BY <1>1 DEF Finish, WorkerState
<1>4. /\ BoundaryCaller[w] = [at |-> "returned", provider |-> ProviderOf[y.stage], attempt |-> y.attempt]
      /\ BoundaryCaller' = [BoundaryCaller EXCEPT ![w] = [Boundary!Idle EXCEPT !.at = "ready"]]
  BY <1>1, <1>2, <1>3, SeenStep, SeenAt DEF Calling
<1>5. /\ (phase # "down") = TRUE /\ (phase' # "down") = TRUE
      /\ (report' # NoReport) = (report # NoReport)
  BY <1>1, SeenStep
<1>6. BoundaryCaller[w].at = "returned" /\ BoundaryCaller[w].provider = ProviderOf[y.stage]
  BY <1>4
<1>7. control' = Boundary!FinishProviderCall(control, ProviderOf[y.stage])
  BY <1>2 DEF FinishProviderCall, GetPipelineControl, Existing, NewControl,
    Boundary!FinishProviderCall, Boundary!GetPipelineControl, Boundary!Existing, Boundary!NewControl
<1>8. Boundary!Finish(w)
  BY <1>2, <1>4, <1>5, <1>6, <1>7 DEF Boundary!Finish
<1>9. QED BY <1>8 DEF Boundary!Next, Boundary!Call

LEMMA WorkCrosses ==
  ASSUME IInv, Link, NEW w \in Workers, Work(w)
  PROVE  Boundary!Next \/ UNCHANGED Boundary!vars
<1>1. CASE \/ Load(w) \/ Ingest(w) \/ Checkpoint(w) \/ Cancelling(w) \/ Complete(w)
           \/ SkipStage(w) \/ ReuseStage(w) \/ FinishStage(w) \/ FailsEarly(w) \/ NotConfigured(w)
           \/ WaitLocal(w) \/ RunLocal(w)
           \/ HandlerLoads(w) \/ Handle(w) \/ FutureDone(w) \/ Forget(w)
  BY <1>1, QuietWork
<1>2. CASE Build(w) \/ StageFails(w)
  <2>1. At(w, "working") \/ At(w, "ready")
    BY <1>2 DEF Build, StageFails
  <2>2. QED BY <1>2, <2>1, QuietWork, LeaveStep
<1>3. CASE RunProvider(w) \/ BeginRefused(w) \/ CallFails(w)
  BY <1>3, EnterStep, LeaveStep
<1>4. CASE WaitSlot(w) \/ MarkCalling(w)
  BY <1>4, MarkedStep
<1>5. CASE \/ Begin(w) \/ Recheck(w) \/ Post(w) \/ TransientFailure(w) \/ Return(w) \/ Finish(w)
  BY <1>5, BeginsCall, RechecksCall, SendsCall, FinishesCall
<1>6. QED BY <1>1, <1>2, <1>3, <1>4, <1>5 DEF Work, LocalStage, ProviderStage

\* A request is no caller; the run it submits is not one yet.
LEMMA RequestUnseen ==
  ASSUME IInv, NEW c \in Clients, Issue(c) \/ Serve(c)
  PROVE  BoundaryCaller' = BoundaryCaller /\ phase = "up" /\ phase' = "up"
<1>1. phase = "up" /\ phase' = "up"
  BY RequestFrame
<1>2. worker \in [Workers -> WorkerState]
  BY DEF IInv, TypeOK
<1>3. ASSUME worker' = worker PROVE BoundaryCaller' = BoundaryCaller
  <2>1. BoundaryCaller' = [w \in Workers |-> Seen(worker[w])]
    BY <1>3, Seeing
  <2>2. QED BY <2>1, Seeing
<1>4. ASSUME NEW w \in Workers, worker[w].at = "none", worker' = [worker EXCEPT ![w].at = "queued"]
      PROVE  BoundaryCaller' = BoundaryCaller
  <2>1. worker'[w].at = "queued" /\ \A v \in Workers \ {w} : worker'[v] = worker[v]
    BY <1>2, <1>4 DEF WorkerState
  <2>2. Seen(worker'[w]) = Seen(worker[w])
    BY <1>4, <2>1, SeenAt DEF Provided, Calling
  <2>3. QED BY <2>1, <2>2, Shown, Seeing
<1>5. worker' = worker \/ \E w \in Workers : /\ worker[w].at = "none"
                                            /\ worker' = [worker EXCEPT ![w].at = "queued"]
  <2>1. CASE CancelPersist(c) \/ ResumePersist(c) \/ StartPersist(c)
    BY <2>1 DEF CancelPersist, ResumePersist, StartPersist, Overwrite
  <2>2. CASE Ask(c, "submit") /\ Submit(c)
    BY <2>2 DEF Submit
  <2>3. QED BY <2>1, <2>2, RequestFrame
<1>6. QED BY <1>1, <1>3, <1>4, <1>5

\* Steps of a request that leave the control file alone.
LEMMA LooksOnly ==
  ASSUME NEW c \in Clients,
         \/ Issue(c) \/ LoadReport(c) \/ CancelFuture(c) \/ ResumeFuture(c) \/ StartCheck(c)
         \/ CancelPersist(c) \/ ResumePersist(c) \/ StartPersist(c) \/ StartSubmit(c)
  PROVE  control' = control /\ Boundary!Observe({})
<1>0. CASE Issue(c)
  BY <1>0, Zenon DEF Issue, OnlyClients
<1>1. CASE LoadReport(c) \/ CancelFuture(c) \/ ResumeFuture(c) \/ StartCheck(c)
  BY <1>1 DEF LoadReport, CancelFuture, ResumeFuture, StartCheck, Respond, Proceed, OnlyClients
<1>2. CASE CancelPersist(c) \/ ResumePersist(c) \/ StartPersist(c)
  BY <1>2 DEF CancelPersist, ResumePersist, StartPersist, Overwrite
<1>3. CASE StartSubmit(c)
  BY <1>3 DEF StartSubmit, Respond, Submit, OnlyClients
<1>4. QED BY <1>0, <1>1, <1>2, <1>3

\* A control operation of a request is the user's operation of the boundary.
LEMMA RequestCrosses ==
  ASSUME IInv, Link, NEW c \in Clients, Issue(c) \/ Serve(c)
  PROVE  Boundary!Next \/ UNCHANGED Boundary!vars
<1> DEFINE y == client[c]
<1>1. BoundaryCaller' = BoundaryCaller /\ phase = "up" /\ phase' = "up"
  BY RequestUnseen
<1>2. (phase # "down") = TRUE /\ (phase' # "down") = TRUE
  BY <1>1
<1>3. TypeOK /\ y \in ClientState
  BY DEF IInv, TypeOK
<1> USE DEF Boundary!Existing, Boundary!NewControl, Existing, NewControl
<1>4. CASE \/ Issue(c) \/ LoadReport(c) \/ CancelFuture(c) \/ ResumeFuture(c) \/ StartCheck(c)
           \/ CancelPersist(c) \/ ResumePersist(c) \/ StartPersist(c) \/ StartSubmit(c)
  <2>1. control' = control /\ Boundary!Observe({})
    BY <1>4, LooksOnly
  <2>2. report' = report \/ report' # NoReport
    <3>1. CASE CancelPersist(c) \/ ResumePersist(c) \/ StartPersist(c)
      BY <3>1, Overwritten, ReportAssumption
    <3>2. CASE StartSubmit(c)
      BY <3>2 DEF StartSubmit, Submit, Respond, OnlyClients
    <3>3. CASE Issue(c)
      BY <3>3, Zenon DEF Issue, OnlyClients
    <3>4. CASE LoadReport(c) \/ CancelFuture(c) \/ ResumeFuture(c) \/ StartCheck(c)
      BY <3>4 DEF LoadReport, CancelFuture, ResumeFuture, StartCheck, Respond, Proceed, OnlyClients
    <3>5. QED BY <1>4, <3>1, <3>2, <3>3, <3>4
  <2>3. CASE report = NoReport /\ report' # NoReport
    <3>1. (report' # NoReport) = TRUE
      BY <2>3
    <3>2. Boundary!PersistReport
      BY <1>1, <1>2, <2>1, <3>1 DEF Boundary!PersistReport
    <3>3. QED BY <3>2 DEF Boundary!Next, Boundary!UserAction
  <2>4. CASE ~(report = NoReport /\ report' # NoReport)
    <3>1. (report' # NoReport) = (report # NoReport)
      BY <2>2, <2>4
    <3>2. QED BY <1>1, <1>2, <1>3, <2>1, <3>1, Stutters
  <2>5. QED BY <2>3, <2>4
<1>5. ASSUME y.at \in HasControl PROVE control # NoControl
  BY <1>5 DEF Link
<1>6. CASE ApproveControl(c)
  <2>1. /\ y.at = "approve_control" /\ report' = report /\ Boundary!Observe({})
        /\ control' = Boundary!ApproveProviderPhase(control)
    BY <1>6 DEF ApproveControl, Ask, ApproveProviderPhase, Boundary!ApproveProviderPhase
  <2>2. Boundary!Approve
    BY <1>1, <1>2, <1>5, <2>1 DEF Boundary!Approve, HasControl
  <2>3. QED BY <2>2 DEF Boundary!Next, Boundary!UserAction
<1>7. CASE ModeControl(c)
  <2>1. /\ y.at = "mode_control" /\ report' = report /\ Boundary!Observe({})
        /\ control' = Boundary!SetProviderMode(control, y.mode)
    BY <1>7 DEF ModeControl, Ask, SetProviderMode, Boundary!SetProviderMode
  <2>2. Boundary!ChangeMode(y.mode)
    BY <1>1, <1>2, <1>5, <2>1 DEF Boundary!ChangeMode, HasControl, HoldsCopy
  <2>3. y.mode \in Boundary!ProviderExecutionMode
    BY <1>3 DEF ClientState, ProviderExecutionMode, Boundary!ProviderExecutionMode
  <2>4. QED BY <2>2, <2>3 DEF Boundary!Next, Boundary!UserAction
<1>8. CASE CancelControl(c)
  <2>1. /\ y.at = "cancel_control" /\ report' = report /\ Boundary!Observe({})
        /\ control' = Boundary!RequestPipelineCancel(control)
    BY <1>8 DEF CancelControl, Apply, Ask, RequestPipelineCancel, Boundary!RequestPipelineCancel
  <2>2. Boundary!RequestCancel
    BY <1>1, <1>2, <1>5, <2>1 DEF Boundary!RequestCancel, HasControl, HoldsCopy
  <2>3. QED BY <2>2 DEF Boundary!Next, Boundary!UserAction
<1>9. CASE ResumeControl(c)
  <2>1. /\ y.at = "resume_control" /\ report' = report /\ Boundary!Observe({})
        /\ control' = Boundary!ClearPipelineCancel(control)
    BY <1>9 DEF ResumeControl, Apply, Ask, ClearPipelineCancel, Boundary!ClearPipelineCancel
  <2>2. Boundary!ClearCancel
    BY <1>1, <1>2, <1>5, <2>1 DEF Boundary!ClearCancel, HasControl, HoldsCopy
  <2>3. QED BY <2>2 DEF Boundary!Next, Boundary!UserAction
<1>10. CASE StartEnsure(c)
  <2>1. /\ report' = report /\ Boundary!Observe({})
        /\ control' = Boundary!EnsurePipelineControl(control, y.mode)
    BY <1>10 DEF StartEnsure, Apply, Ask, EnsurePipelineControl, Boundary!EnsurePipelineControl
  <2>2. Boundary!StartEnsures(y.mode)
    BY <1>1, <1>2, <2>1 DEF Boundary!StartEnsures
  <2>3. y.mode \in Boundary!ProviderExecutionMode
    BY <1>3 DEF ClientState, ProviderExecutionMode, Boundary!ProviderExecutionMode
  <2>4. QED BY <2>2, <2>3 DEF Boundary!Next, Boundary!UserAction
<1>11. QED BY <1>4, <1>6, <1>7, <1>8, <1>9, <1>10 DEF Serve

\* Startup recovery rewrites the report that is there.
LEMMA RecoveryKeepsReport ==
  ASSUME IInv, RecoverReport
  PROVE  (report' # NoReport) = (report # NoReport)
<1>1. CASE report = NoReport
  BY <1>1 DEF RecoverReport
<1>2. CASE report # NoReport
  <2>1. report \in Report /\ Sound(report) /\ (~NotCancelled(control)) \in BOOLEAN
    BY <1>2 DEF IInv, TypeOK, CopyOK, NotCancelled
  <2>2. report' = Reconciled(report, ~NotCancelled(control))
    BY <1>2 DEF RecoverReport
  <2>3. report' \in Report
    BY <2>1, <2>2, Recovered
  <2>4. QED BY <1>2, <2>3, ReportAssumption
<1>3. QED BY <1>1, <1>2

\* An exit loses the callers; recovery clears what the control file records.
LEMMA RestartCrosses ==
  ASSUME IInv, Link, Exit \/ RecoverControl \/ RecoverReport
  PROVE  Boundary!Next \/ UNCHANGED Boundary!vars
<1>1. TypeOK
  BY DEF IInv
<1>2. CASE Exit
  <2>1. /\ (phase # "down") = TRUE /\ (phase' # "down") = FALSE
        /\ worker' = [w \in Workers |-> NoThread] /\ Boundary!Observe({})
        /\ UNCHANGED <<control, report>>
    BY <1>2 DEF Exit
  <2>2. Seen(NoThread) = Boundary!Idle
    BY SeenAt DEF NoThread, Provided, Calling
  <2>3. BoundaryCaller' = [w \in Workers |-> Boundary!Idle]
    BY <2>1, <2>2, Seeing
  <2>4. Boundary!Exit
    BY <2>1, <2>3 DEF Boundary!Exit
  <2>5. QED BY <2>4 DEF Boundary!Next
<1>3. CASE RecoverControl
  <2>1. /\ (phase # "down") = FALSE /\ (phase' # "down") = TRUE
        /\ worker' = worker /\ report' = report /\ Boundary!Observe({})
        /\ control' = IF report = NoReport THEN control ELSE ClearStaleProviderActivity(control)
    BY <1>3 DEF RecoverControl
  <2>2. BoundaryCaller' = BoundaryCaller
    BY <2>1, Seeing
  <2>3. control' = IF report # NoReport THEN Boundary!ClearStaleProviderActivity(control) ELSE control
    BY <2>1 DEF ClearStaleProviderActivity, Boundary!ClearStaleProviderActivity
  <2>4. Boundary!Startup
    BY <2>1, <2>2, <2>3 DEF Boundary!Startup
  <2>5. QED BY <2>4 DEF Boundary!Next
<1>4. CASE RecoverReport
  <2>1. /\ (phase' # "down") = (phase # "down")
        /\ worker' = worker /\ control' = control /\ Boundary!Observe({})
    BY <1>4 DEF RecoverReport
  <2>2. BoundaryCaller' = BoundaryCaller
    BY <2>1, Seeing
  <2>3. (report' # NoReport) = (report # NoReport)
    BY <1>4, RecoveryKeepsReport
  <2>4. QED BY <1>1, <2>1, <2>2, <2>3, Stutters
<1>5. QED BY <1>2, <1>3, <1>4

\* The boundary's control file is the pipeline's.
LEMMA SameFile ==
  ASSUME NEW file, NEW mode, NEW provider
  PROVE  /\ Boundary!EnsurePipelineControl(file, mode) = EnsurePipelineControl(file, mode)
         /\ Boundary!SetProviderMode(file, mode) = SetProviderMode(file, mode)
         /\ Boundary!ApproveProviderPhase(file) = ApproveProviderPhase(file)
         /\ Boundary!RequestPipelineCancel(file) = RequestPipelineCancel(file)
         /\ Boundary!ClearPipelineCancel(file) = ClearPipelineCancel(file)
         /\ Boundary!BeginProviderCall(file, provider) = BeginProviderCall(file, provider)
         /\ Boundary!FinishProviderCall(file, provider) = FinishProviderCall(file, provider)
         /\ Boundary!ClearStaleProviderActivity(file) = ClearStaleProviderActivity(file)
<1> USE DEF Boundary!Existing, Existing, Boundary!NewControl, NewControl,
          Boundary!GetPipelineControl, GetPipelineControl
<1>1. Boundary!EnsurePipelineControl(file, mode) = EnsurePipelineControl(file, mode)
  BY DEF Boundary!EnsurePipelineControl, EnsurePipelineControl
<1>2. Boundary!SetProviderMode(file, mode) = SetProviderMode(file, mode)
  BY DEF Boundary!SetProviderMode, SetProviderMode
<1>3. Boundary!ApproveProviderPhase(file) = ApproveProviderPhase(file)
  BY DEF Boundary!ApproveProviderPhase, ApproveProviderPhase
<1>4. /\ Boundary!RequestPipelineCancel(file) = RequestPipelineCancel(file)
      /\ Boundary!ClearPipelineCancel(file) = ClearPipelineCancel(file)
  BY DEF Boundary!RequestPipelineCancel, RequestPipelineCancel, Boundary!ClearPipelineCancel,
    ClearPipelineCancel
<1>5. /\ Boundary!BeginProviderCall(file, provider) = BeginProviderCall(file, provider)
      /\ Boundary!FinishProviderCall(file, provider) = FinishProviderCall(file, provider)
  BY DEF Boundary!BeginProviderCall, BeginProviderCall, Boundary!FinishProviderCall,
    FinishProviderCall
<1>6. Boundary!ClearStaleProviderActivity(file) = ClearStaleProviderActivity(file)
  BY DEF Boundary!ClearStaleProviderActivity, ClearStaleProviderActivity
<1>7. QED BY <1>1, <1>2, <1>3, <1>4, <1>5, <1>6

\* A step of the boundary is observed, never removes the control file, and records a
\* call only for a caller.
LEMMA BoundaryKeeps ==
  ASSUME IInv, Link, Boundary!Next
  PROVE  /\ control # NoControl => control' # NoControl
         /\ control' # NoControl /\ control'.active_provider # NoProvider => report # NoReport
         /\ \E posting : Boundary!Observe(posting)
<1>1. control \in Control \cup {NoControl} /\ NoControl \notin Control
  BY ControlAssumption DEF IInv, TypeOK
<1>2. control # NoControl /\ control.active_provider # NoProvider => report # NoReport
  BY DEF Link
<1>3. \A m \in ProviderExecutionMode : NewControl(m).active_provider = NoProvider
  BY DEF NewControl
<1>4. /\ "REQUIRE_APPROVAL" \in ProviderExecutionMode /\ "AUTO_CONTINUE" \in ProviderExecutionMode
      /\ Boundary!ProviderExecutionMode = ProviderExecutionMode
  BY DEF ProviderExecutionMode, Boundary!ProviderExecutionMode
<1>5. \A m \in ProviderExecutionMode :
        EnsurePipelineControl(control, m).active_provider # NoProvider => report # NoReport
  BY <1>1, <1>2, <1>3, UserKeepsActive DEF EnsurePipelineControl, Existing
<1>6. \A m \in ProviderExecutionMode : EnsurePipelineControl(control, m) \in Control
  BY <1>1, ControlOperations
<1>7. CASE Boundary!UserAction
  <2>1. CASE \E m \in ProviderExecutionMode : Boundary!StartEnsures(m)
    BY <1>1, <1>5, <1>6, <2>1, SameFile DEF Boundary!StartEnsures
  <2>2. CASE \E m \in ProviderExecutionMode : Boundary!ChangeMode(m)
    <3>1. PICK m \in ProviderExecutionMode : Boundary!ChangeMode(m)
      BY <2>2
    <3>2. /\ control # NoControl /\ Boundary!Observe({})
          /\ control' = SetProviderMode(control, m)
      BY <3>1, SameFile DEF Boundary!ChangeMode
    <3>3. control' \in Control /\ control'.active_provider = control.active_provider
      BY <1>1, <3>2, ControlOperations, UserKeepsActive
    <3>4. QED BY <1>1, <1>2, <3>2, <3>3
  <2>3. CASE Boundary!Approve \/ Boundary!RequestCancel \/ Boundary!ClearCancel
    <3>1. /\ control # NoControl /\ Boundary!Observe({})
          /\ control' \in {ApproveProviderPhase(control), RequestPipelineCancel(control),
                           ClearPipelineCancel(control)}
      BY <2>3, SameFile DEF Boundary!Approve, Boundary!RequestCancel, Boundary!ClearCancel
    <3>2. control' \in Control /\ control'.active_provider = control.active_provider
      BY <1>1, <1>4, <3>1, ControlOperations, UserKeepsActive
    <3>3. QED BY <1>1, <1>2, <3>1, <3>2
  <2>4. CASE Boundary!PersistReport
    BY <1>2, <2>4 DEF Boundary!PersistReport
  <2>5. QED BY <1>4, <1>7, <2>1, <2>2, <2>3, <2>4 DEF Boundary!UserAction
<1>8. ASSUME NEW c \in Workers, Boundary!Call(c)
      PROVE  /\ control # NoControl => control' # NoControl
             /\ control' # NoControl /\ control'.active_provider # NoProvider => report # NoReport
             /\ \E posting : Boundary!Observe(posting)
  <2>1. BoundaryCaller[c].at # "idle" => report # NoReport
    <3>1. BoundaryCaller[c] = Seen(worker[c])
      BY Seeing
    <3>2. worker[c].at = "none" => BoundaryCaller[c].at = "idle"
      BY <3>1, SeenAt DEF Provided, Calling, Boundary!Idle
    <3>3. QED BY <3>2 DEF IInv
  <2>2. CASE Boundary!Enter(c)
    BY <1>1, <1>4, <1>5, <1>6, <2>2, SameFile DEF Boundary!Enter
  <2>3. CASE \/ Boundary!Recheck(c) \/ Boundary!Post(c) \/ Boundary!TransientFailure(c)
             \/ Boundary!Return(c) \/ Boundary!Leave(c)
    BY <1>2, <2>3 DEF Boundary!Recheck, Boundary!Post, Boundary!TransientFailure, Boundary!Return,
      Boundary!Leave
  <2>4. CASE Boundary!Finish(c)
    <3>1. /\ BoundaryCaller[c].at = "returned" /\ Boundary!Observe({})
          /\ control' = FinishProviderCall(control, BoundaryCaller[c].provider)
      BY <2>4, SameFile DEF Boundary!Finish
    <3>2. BoundaryCaller[c].provider \in Providers
      <4>1. BoundaryCaller[c] = Seen(worker[c]) /\ Shape(worker[c])
        BY Seeing DEF IInv
      <4>2. worker[c].at \in Calling
        BY <3>1, <4>1, SeenAt DEF Provided, Boundary!Idle
      <4>3. QED BY <4>1, <4>2, SeenAt, Bounds DEF Shape, Provided
    <3>3. control' \in Control
      BY <1>1, <1>4, <3>1, <3>2, ControlOperations
    <3>4. QED BY <1>1, <2>1, <3>1, <3>3
  <2>5. CASE \E p \in Providers : Boundary!Begin(c, p)
    <3>1. PICK p \in Providers : Boundary!Begin(c, p)
      BY <2>5
    <3>2. /\ BoundaryCaller[c].at = "ready" /\ Boundary!Observe({})
          /\ control' = BeginProviderCall(control, p)
      BY <3>1, SameFile DEF Boundary!Begin, Boundary!Cross
    <3>3. control' \in Control
      BY <1>1, <1>4, <3>2, ControlOperations
    <3>4. QED BY <1>1, <2>1, <3>2, <3>3
  <2>6. QED BY <1>8, <2>2, <2>3, <2>4, <2>5 DEF Boundary!Call
<1>9. CASE Boundary!Exit
  BY <1>2, <1>9 DEF Boundary!Exit
<1>10. CASE Boundary!Startup
  <2>1. /\ control' = control \/ control' = ClearStaleProviderActivity(control)
        /\ Boundary!Observe({})
    BY <1>10, SameFile DEF Boundary!Startup
  <2>2. CASE control = NoControl \/ control' = control
    BY <1>2, <2>1, <2>2 DEF ClearStaleProviderActivity
  <2>3. CASE control \in Control /\ control' # control
    <3>1. control' = [control EXCEPT !.active_provider = NoProvider]
      BY <1>1, <2>1, <2>3 DEF ClearStaleProviderActivity
    <3>2. control' \in Control /\ control'.active_provider = NoProvider
      BY <2>3, <3>1 DEF Control
    <3>3. QED BY <1>1, <2>1, <3>2
  <2>4. QED BY <1>1, <2>2, <2>3
<1>11. QED BY <1>7, <1>8, <1>9, <1>10 DEF Boundary!Next

\* Once written, pipeline.json is never removed, and nothing writes the first one
\* before the control file is there.
LEMMA ReportKept ==
  ASSUME IInv, Link, Next
  PROVE  /\ report # NoReport => report' # NoReport
         /\ report = NoReport /\ report' # NoReport => control # NoControl
<1>1. ASSUME NEW w \in Workers, Work(w) PROVE report # NoReport /\ report' # NoReport
  BY <1>1, WorkReported
<1>2. ASSUME NEW c \in Clients, Issue(c) \/ Serve(c)
      PROVE  /\ report # NoReport => report' # NoReport
             /\ report = NoReport /\ report' # NoReport => control # NoControl
  <2>1. CASE CancelPersist(c) \/ ResumePersist(c) \/ StartPersist(c)
    <3>1. report' # NoReport
      BY <2>1, Overwritten, ReportAssumption
    <3>2. client[c].at \in HasControl
      BY <2>1 DEF CancelPersist, ResumePersist, StartPersist, Ask, HasControl, HoldsCopy
    <3>3. QED BY <3>1, <3>2 DEF Link
  <2>2. CASE report' = report \/ (Ask(c, "submit") /\ Submit(c))
    BY <2>2 DEF Submit
  <2>3. QED BY <1>2, <2>1, <2>2, RequestFrame
<1>3. CASE Exit \/ RecoverControl
  BY <1>3 DEF Exit, RecoverControl
<1>4. CASE RecoverReport
  BY <1>4, RecoveryKeepsReport
<1>5. QED BY <1>1, <1>2, <1>3, <1>4 DEF Next

\* A request that comes to hold the control file finds a report, whose control file
\* is there, or ensures the file.
LEMMA ComesToHold ==
  ASSUME IInv, Link, NEW c \in Clients, Issue(c) \/ Serve(c), NEW d \in Clients,
         client'[d].at \in HasControl
  PROVE  control # NoControl \/ control' # NoControl
<1> DEFINE y == client[c]
<1>1. y \in ClientState /\ client \in [Clients -> ClientState]
  BY RequestFacts
<1>2. y.at \in HasControl => control # NoControl
  BY DEF Link
<1>3. NoRequest.at \notin HasControl
  BY DEF NoRequest, HasControl, HoldsCopy
<1>4. CASE client'[d] = client[d]
  BY <1>4 DEF Link
<1>5. CASE y.at \in HasControl
  BY <1>2, <1>5
<1>6. CASE Issue(c)
  <2>1. PICK kind \in Requests, mode \in ProviderExecutionMode :
          client' = [client EXCEPT ![c] = [NoRequest EXCEPT !.at = "load", !.kind = kind,
                                                           !.mode = mode]]
    BY <1>6, PipelineAssumption, Zenon DEF Issue, Ask, ProviderExecutionMode
  <2>2. client'[d] = client[d] \/ client'[d].at = "load"
    BY <1>1, <2>1 DEF NoRequest
  <2>3. QED BY <1>4, <2>2 DEF HasControl, HoldsCopy
<1>7. CASE LoadReport(c)
  <2>1. CASE report = NoReport
    <3>1. AfterLoad(y.kind) \in {"ensure", "idle"}
      BY <2>1 DEF AfterLoad
    <3>2. client'[d] = client[d] \/ client'[d] = NoRequest \/ client'[d].at = "ensure"
      BY <1>1, <1>7, <3>1 DEF LoadReport, ClientState
    <3>3. QED BY <1>3, <1>4, <3>2 DEF HasControl, HoldsCopy
  <2>2. CASE report # NoReport
    BY <2>2 DEF Link
  <2>3. QED BY <2>1, <2>2
<1>8. CASE StartCheck(c) \/ StartSubmit(c)
  <2>1. client'[d] = client[d] \/ client'[d] = NoRequest \/ client'[d].at = "ensure"
    BY <1>1, <1>8 DEF StartCheck, StartSubmit, Submit, Respond, Proceed, ClientState
  <2>2. QED BY <1>3, <1>4, <2>1 DEF HasControl, HoldsCopy
<1>9. CASE StartEnsure(c)
  <2>1. control \in Control \cup {NoControl} /\ y.mode \in ProviderExecutionMode
    BY <1>1 DEF IInv, TypeOK, ClientState
  <2>2. control' = EnsurePipelineControl(control, y.mode)
    BY <1>9 DEF StartEnsure, Apply
  <2>3. control' \in Control
    BY <2>1, <2>2, ControlOperations
  <2>4. QED BY <2>3, ControlAssumption
<1>10. QED
  <2>1. \/ y.at \in HasControl
        \/ Issue(c) \/ LoadReport(c) \/ StartCheck(c) \/ StartSubmit(c) \/ StartEnsure(c)
    BY DEF Serve, ApproveControl, ModeControl, CancelControl, CancelFuture, CancelPersist,
      ResumeFuture, ResumeControl, ResumePersist, StartPersist, Ask, HasControl, HoldsCopy
  <2>2. QED BY <1>5, <1>6, <1>7, <1>8, <1>9, <2>1

\* Every step of the pipeline is one of the boundary, or is not seen there.
LEMMA Crossing ==
  ASSUME IInv, Link, [Next]_vars
  PROVE  Boundary!Next \/ UNCHANGED Boundary!vars
<1>1. ASSUME NEW w \in Workers, Work(w) PROVE Boundary!Next \/ UNCHANGED Boundary!vars
  BY <1>1, WorkCrosses
<1>2. ASSUME NEW c \in Clients, Issue(c) \/ Serve(c)
      PROVE  Boundary!Next \/ UNCHANGED Boundary!vars
  BY <1>2, RequestCrosses
<1>3. CASE Exit \/ RecoverControl \/ RecoverReport
  BY <1>3, RestartCrosses
<1>4. CASE UNCHANGED vars
  <2>1. BoundaryCaller' = BoundaryCaller
    BY <1>4, Seeing DEF vars
  <2>2. QED BY <1>4, <2>1 DEF vars, Boundary!vars
<1>5. QED BY <1>1, <1>2, <1>3, <1>4 DEF Next

LEMMA LinkStep ==
  ASSUME IInv, Link, [Next]_vars
  PROVE  Link'
<1>1. /\ control # NoControl => control' # NoControl
      /\ control' # NoControl /\ control'.active_provider # NoProvider => report # NoReport
      /\ Boundary!FileAllows(control') => granted' /\ \A w \in Workers : late'[w] = 0
      /\ crossed' = {w \in Workers :
                       /\ Boundary!Outbound(w)'
                       /\ w \in crossed' \/ \E v \in Workers \ {w} : Boundary!Outbound(v)'}
  <2>1. CASE Boundary!Next
    <3>1. \E posting : Boundary!Observe(posting)
      BY <2>1, BoundaryKeeps
    <3>2. Boundary!FileAllows(control') => granted' /\ \A w \in Workers : late'[w] = 0
      BY <3>1 DEF Boundary!Observe
    <3>3. crossed' = {w \in Workers :
                        /\ Boundary!Outbound(w)'
                        /\ w \in crossed \/ \E v \in Workers \ {w} : Boundary!Outbound(v)'}
      BY <3>1 DEF Boundary!Observe
    <3>4. QED BY <2>1, <3>2, <3>3, BoundaryKeeps
  <2>2. CASE UNCHANGED Boundary!vars
    <3>1. /\ control' = control /\ late' = late /\ granted' = granted
          /\ crossed' = crossed /\ BoundaryCaller' = BoundaryCaller
      BY <2>2 DEF Boundary!vars
    <3>2. Boundary!FileAllows(control') <=> Boundary!FileAllows(control)
      BY <3>1
    <3>3. \A w \in Workers : Boundary!Outbound(w)' <=> Boundary!Outbound(w)
      BY <3>1 DEF Boundary!Outbound
    <3>4. QED BY <3>1, <3>2, <3>3 DEF Link
  <2>3. QED BY <2>1, <2>2, Crossing
<1>2. /\ report # NoReport => report' # NoReport
      /\ report = NoReport /\ report' # NoReport => control # NoControl
  BY ReportKept DEF vars
<1>3. ASSUME NEW d \in Clients, client'[d].at \in HasControl PROVE control' # NoControl
  <2>1. ASSUME client' = client PROVE control' # NoControl
    BY <1>1, <1>3, <2>1 DEF Link
  <2>2. ASSUME NEW w \in Workers, Work(w) PROVE control' # NoControl
    BY <2>1, <2>2, WorkDoes DEF WorkDone
  <2>3. ASSUME NEW c \in Clients, Issue(c) \/ Serve(c) PROVE control' # NoControl
    BY <1>1, <1>3, <2>3, ComesToHold
  <2>4. CASE Exit
    BY <1>3, <2>4 DEF Exit, NoRequest, HasControl, HoldsCopy
  <2>5. CASE RecoverControl \/ RecoverReport \/ UNCHANGED vars
    BY <2>1, <2>5 DEF RecoverControl, RecoverReport, vars
  <2>6. QED BY <2>2, <2>3, <2>4, <2>5 DEF Next
<1>4. report' # NoReport => control' # NoControl
  BY <1>1, <1>2 DEF Link
<1>5. QED BY <1>1, <1>2, <1>3, <1>4 DEF Link

LEMMA NobodyOutbound == Init => \A w \in Workers : Seen(worker[w]) = Boundary!Idle
BY SeenAt DEF Init, NoThread, Provided, Calling

LEMMA LinkInit == Init => Link
<1> SUFFICES ASSUME Init PROVE Link
  OBVIOUS
<1>1. \A w \in Workers : ~Boundary!Outbound(w)
  BY NobodyOutbound, Seeing DEF Boundary!Outbound, Boundary!Idle
<1>2. QED BY <1>1 DEF Init, Link, NoRequest, HasControl, HoldsCopy, Boundary!FileAllows

LEMMA BoundaryInit == Init => Boundary!Init
<1> SUFFICES ASSUME Init PROVE Boundary!Init
  OBVIOUS
<1>1. BoundaryCaller = [w \in Workers |-> Boundary!Idle]
  BY NobodyOutbound, Seeing
<1>2. (phase # "down") = TRUE /\ (report # NoReport) = FALSE
  BY DEF Init
<1>3. QED BY <1>1, <1>2 DEF Init, Boundary!Init

\* The pipeline implements the provider boundary: whatever the requests, the worker
\* threads and restarts do to the two files of a job, control, calls and history
\* move as provider_policy.py and pipeline_control.py let them.
THEOREM Crosses == Spec => CrossesBoundary
<1>1. IInv /\ Link /\ [Next]_vars => [Boundary!Next]_(Boundary!vars)
  BY Crossing
<1>2. IInv /\ Link /\ [Next]_vars => Link'
  BY LinkStep
<1>3. QED
  BY <1>1, <1>2, LinkInit, BoundaryInit, Invariance, PTL DEF Spec, CrossesBoundary, Boundary!Spec

-----------------------------------------------------------------------------
(* What the boundary promises, the pipeline keeps.                         *)

\* The two instances of the boundary are the same specification.
LEMMA SameBoundary ==
  /\ Boundary!Init => Through!Init
  /\ Boundary!Next => Through!Next
  /\ UNCHANGED Boundary!vars => UNCHANGED Through!vars
BY Zenon DEF Boundary!vars, Through!vars,
     Boundary!ProviderExecutionMode, Through!ProviderExecutionMode, Boundary!NewControl,
     Through!NewControl, Boundary!Existing, Through!Existing, Boundary!GetPipelineControl,
     Through!GetPipelineControl, Boundary!EnsurePipelineControl,
     Through!EnsurePipelineControl, Boundary!SetProviderMode, Through!SetProviderMode,
     Boundary!ApproveProviderPhase, Through!ApproveProviderPhase,
     Boundary!RequestPipelineCancel, Through!RequestPipelineCancel,
     Boundary!ClearPipelineCancel, Through!ClearPipelineCancel, Boundary!NotCancelled,
     Through!NotCancelled, Boundary!PolicyAllows, Through!PolicyAllows,
     Boundary!ProviderAllowed, Through!ProviderAllowed, Boundary!BeginProviderCall,
     Through!BeginProviderCall, Boundary!FinishProviderCall, Through!FinishProviderCall,
     Boundary!ClearStaleProviderActivity, Through!ClearStaleProviderActivity, Boundary!Idle,
     Through!Idle, Boundary!FileAllows, Through!FileAllows, Boundary!Observe,
     Through!Observe, Boundary!Outbound, Through!Outbound, Boundary!PersistReport,
     Through!PersistReport, Boundary!Move, Through!Move, Boundary!Init, Through!Init,
     Boundary!StartEnsures, Through!StartEnsures, Boundary!ChangeMode, Through!ChangeMode,
     Boundary!Approve, Through!Approve, Boundary!RequestCancel, Through!RequestCancel,
     Boundary!ClearCancel, Through!ClearCancel, Boundary!UserAction, Through!UserAction,
     Boundary!Enter, Through!Enter, Boundary!Cross, Through!Cross, Boundary!Begin,
     Through!Begin, Boundary!Recheck, Through!Recheck, Boundary!MayPost, Through!MayPost,
     Boundary!Post, Through!Post, Boundary!TransientFailure, Through!TransientFailure,
     Boundary!Return, Through!Return, Boundary!Finish, Through!Finish, Boundary!Leave,
     Through!Leave, Boundary!Call, Through!Call, Boundary!Exit, Through!Exit,
     Boundary!Startup, Through!Startup, Boundary!Next, Through!Next

\* Whatever requests and restarts do meanwhile: once the user has withdrawn the
\* permission a worker thread sends at most the attempts of the call it had begun;
\* nothing leaves before the file has ever allowed a call; and the provider the file
\* records is that of a thread in a call, whose record stays as long as no second call
\* is under way (pipeline_control.py, pipeline.py).
THEOREM BoundaryPromises ==
  Spec => []/\ Boundary!LateRequestsBounded
            /\ Boundary!NothingLeavesUngranted
            /\ Boundary!RecordIsTrue
<1>1. /\ Through!Spec => []Through!LateRequestsBounded
      /\ Through!Spec => []Through!NothingLeavesUngranted
      /\ Through!Spec => []Through!RecordIsTrue
  BY ThroughAssumptions, Through!LateRequests, Through!Ungranted, Through!RecordTrue
<1>2. /\ Through!LateRequestsBounded => Boundary!LateRequestsBounded
      /\ Through!NothingLeavesUngranted => Boundary!NothingLeavesUngranted
      /\ Through!RecordIsTrue => Boundary!RecordIsTrue
  BY DEF Through!LateRequestsBounded, Boundary!LateRequestsBounded, Through!NothingLeavesUngranted,
    Boundary!NothingLeavesUngranted, Through!RecordIsTrue, Boundary!RecordIsTrue,
    Through!Outbound, Boundary!Outbound
<1>3. Spec => Through!Spec
  BY SameBoundary, Crosses, PTL DEF CrossesBoundary, Boundary!Spec, Through!Spec
<1>4. QED BY <1>1, <1>2, <1>3, PTL
=============================================================================
