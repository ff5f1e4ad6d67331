----------------------------- MODULE ResultsPage -----------------------------
(***************************************************************************)
(* The work queue of a batch: its summary (batch_results.py), which reads  *)
(* the files of one job after the other, and the page that shows it        *)
(* (BatchResultsApp.tsx), reloads it while a job is processing, and sends  *)
(* what the user asks for.                                                 *)
(*                                                                         *)
(* A pipeline is seen from outside: its worker moves it until it settles,  *)
(* and a request about it may write any status before it is answered.  One *)
(* that fails has been served to its end.  Of the unsettled statuses, a    *)
(* queued pipeline or one that waits for a worker is a running one here.   *)
(***************************************************************************)
EXTENDS Naturals, FiniteSets

CONSTANTS
  Job,       \* the jobs of the batch
  Buttons,   \* the buttons the user presses in this instance
  Reports,   \* the states of a pipeline in this instance
  Outcomes,  \* what is made of a job in this instance
  Slot,      \* bound: loads that are under way, the abandoned ones included
  MaxOpen,   \* bound: requests of buttons under way at a time
  None

Waiting == {"WAITING_CONFIGURATION", "WAITING_OPTIONAL_COMPONENT", "PAUSED_BEFORE_PROVIDER"}
Settled == Waiting \cup {"COMPLETE", "CANCELLED", "FAILED"}
Unsettled == {"RUNNING", "CANCEL_REQUESTED"}
\* What is made of a job: its document or its architecture cannot be read, what is
\* there is no complete chain, or a result that needs attention or does not.
Outcome == {"DOCUMENT", "ARCHITECTURE", "CHAIN", "ATTENTION", "CALM"}

ASSUME ResultsPageAssumption ==
  /\ Buttons \subseteq {"resume", "approve", "pause", "cancel", "restart"}
  /\ Reports \subseteq Settled \cup Unsettled
  /\ Outcomes \subseteq Outcome
  /\ None \notin Job \cup Settled \cup Unsettled

VARIABLES
  file,      \* of each job, the status of its pipeline and its outcome once complete
  load,      \* the loads of the page
  view,      \* the summary the page shows
  error,     \* the page shows an error
  request,   \* for each job and button, where its request is
  actionId,  \* the job whose buttons are disabled
  loose      \* history: jobs with overlapping requests, or one that failed after a write

vars == <<file, load, view, error, request, actionId, loose>>

-----------------------------------------------------------------------------
(* The summary of a job, without its rank in the list.                     *)

Shown(state, status, attention) == [state |-> state, status |-> status, attention |-> attention]
Invalid(status) == Shown("INVALID", status, TRUE)

CompleteResult(outcome) ==
  IF outcome = "CHAIN" THEN Invalid("COMPLETE")
  ELSE Shown("COMPLETE", "COMPLETE", outcome = "ATTENTION")

Reported(f) ==
  CASE f.status = "FAILED" -> Shown("FAILED", f.status, TRUE)
    [] f.status = "CANCELLED" -> Shown("CANCELLED", f.status, FALSE)
    [] f.status \in Waiting -> Shown("WAITING", f.status, TRUE)
    [] f.status \in Unsettled -> Shown("PROCESSING", f.status, FALSE)
    [] f.status = "COMPLETE" -> CompleteResult(f.outcome)

Result(f) ==
  CASE f.outcome = "DOCUMENT" -> Invalid(None)
    [] f.outcome # "DOCUMENT" /\ f.status = None -> Shown("PROCESSING", None, TRUE)
    [] f.outcome = "ARCHITECTURE" /\ f.status # None -> Invalid(f.status)
    [] OTHER -> Reported(f)

Processing(summary) == {j \in Job : summary[j].state = "PROCESSING"}

-----------------------------------------------------------------------------
NoLoad == [at |-> "idle", live |-> FALSE, seen |-> << >>]
NewLoad == [at |-> "sent", live |-> TRUE, seen |-> << >>]
Open == {x \in Job \X Buttons : request[x[1]][x[2]] # "idle"}

ShownJob ==
  [state : {"PROCESSING", "WAITING", "CANCELLED", "FAILED", "COMPLETE", "INVALID"},
   status : Reports \cup {None}, attention : BOOLEAN]

TypeOK ==
  /\ \A j \in Job : file[j].status \in Reports \cup {None} /\ file[j].outcome \in Outcomes
  /\ \A s \in Slot : /\ load[s].at \in {"idle", "timer", "sent", "refused"}
                     /\ load[s].live \in BOOLEAN
                     /\ \A j \in DOMAIN load[s].seen : load[s].seen[j] \in ShownJob
  /\ view # None => view \in [Job -> ShownJob]
  /\ error \in BOOLEAN
  /\ request \in [Job -> [Buttons -> {"idle", "sent", "written", "ok", "refused"}]]
  /\ actionId \in Job \cup {None} /\ loose \subseteq Job
  /\ \A s, t \in Slot : load[s].live /\ load[t].live => s = t

Init ==
  /\ file \in [Job -> [status : Reports \cup {None}, outcome : Outcomes]]
  /\ \E s \in Slot : load = [t \in Slot |-> IF t = s THEN NewLoad ELSE NoLoad]
  /\ view = None /\ error = FALSE
  /\ request = [j \in Job |-> [k \in Buttons |-> "idle"]]
  /\ actionId = None /\ loose = {}

OnlyLoad == UNCHANGED <<file, request, actionId, loose>>

-----------------------------------------------------------------------------
(* The server.                                                             *)

\* The worker, until the pipeline settles; of a loose job at any time.
Moves(j) ==
  /\ file[j].status \in Unsettled \/ (j \in loose /\ file[j].status # None)
  /\ \E status \in Reports : file' = [file EXCEPT ![j].status = status]
  /\ UNCHANGED <<load, view, error, request, actionId, loose>>

\* summarize_batch reads the jobs one by one.
ReadJob(s, j) ==
  /\ load[s].at = "sent" /\ j \notin DOMAIN load[s].seen
  /\ load' = [load EXCEPT ![s].seen =
       [i \in DOMAIN @ \cup {j} |-> IF i = j THEN Result(file[j]) ELSE @[i]]]
  /\ OnlyLoad /\ UNCHANGED <<view, error>>

RefuseLoad(s) ==
  /\ load[s].at = "sent"
  /\ load' = [load EXCEPT ![s].at = "refused", ![s].seen = << >>]
  /\ OnlyLoad /\ UNCHANGED <<view, error>>

\* A request about a pipeline writes, once or more often; one to pause writes
\* another file.
Write(j, k) ==
  /\ k # "pause" /\ request[j][k] \in {"sent", "written"}
  /\ \E status \in Reports : file' = [file EXCEPT ![j].status = status]
  /\ request' = [request EXCEPT ![j][k] = "written"]
  /\ UNCHANGED <<load, view, error, actionId, loose>>

\* It answers.  It may fail after it has written.
Respond(j, k) ==
  /\ request[j][k] \in {"sent", "written"}
  /\ \E answer \in {"ok", "refused"} :
       /\ request' = [request EXCEPT ![j][k] = answer]
       /\ loose' = IF answer = "refused" /\ request[j][k] = "written" THEN loose \cup {j} ELSE loose
  /\ UNCHANGED <<file, load, view, error, actionId>>

-----------------------------------------------------------------------------
(* The page.                                                               *)

\* Mutant of Loaded: an abandoned load is shown like any other.
LoadedAnyhow(s) ==
  /\ load[s].at = "sent" /\ DOMAIN load[s].seen = Job
  /\ view' = load[s].seen /\ error' = FALSE
  /\ load' = [load EXCEPT ![s] = IF load[s].live /\ Processing(view') # {}
                                 THEN [NoLoad EXCEPT !.at = "timer", !.live = TRUE] ELSE NoLoad]
  /\ OnlyLoad

\* An answer is shown unless the load was abandoned; while a job is processing
\* the next one is timed.
Loaded(s) ==
  /\ load[s].at = "sent" /\ DOMAIN load[s].seen = Job
  /\ IF load[s].live
     THEN /\ view' = load[s].seen /\ error' = FALSE
          /\ load' = [load EXCEPT ![s] = IF Processing(view') # {}
                                         THEN [NoLoad EXCEPT !.at = "timer", !.live = TRUE] ELSE NoLoad]
     ELSE load' = [load EXCEPT ![s] = NoLoad] /\ UNCHANGED <<view, error>>
  /\ OnlyLoad

LoadFails(s) ==
  /\ load[s].at = "refused"
  /\ load' = [load EXCEPT ![s] = NoLoad]
  /\ error' = (error \/ load[s].live)
  /\ OnlyLoad /\ UNCHANGED view

LoadAgain(s) ==
  /\ load[s].at = "timer"
  /\ load' = [load EXCEPT ![s] = NewLoad]
  /\ OnlyLoad /\ UNCHANGED <<view, error>>

\* refreshSoon: the effect runs again; its old load or timer is abandoned.
Refresh ==
  \E s \in Slot :
    /\ load[s].at = "idle"
    /\ load' = [t \in Slot |->
         IF t = s THEN NewLoad
         ELSE IF load[t].at = "timer" THEN NoLoad ELSE [load[t] EXCEPT !.live = FALSE]]

Offered(j, k) ==
  LET job == view[j]
  IN  /\ actionId # j
      /\ CASE k = "approve" -> job.status = "PAUSED_BEFORE_PROVIDER"
           [] k = "pause" -> job.state = "PROCESSING" /\ job.status # "CANCEL_REQUESTED"
           [] k = "resume" -> /\ job.state \notin {"COMPLETE", "INVALID", "CANCELLED"}
                              /\ job.status # "PAUSED_BEFORE_PROVIDER"
           [] k = "restart" -> job.state = "CANCELLED"
           [] k = "cancel" -> /\ job.state \in {"PROCESSING", "WAITING"}
                              /\ job.status # "CANCEL_REQUESTED"

Press(j, k) ==
  /\ view # None /\ Offered(j, k) /\ request[j][k] = "idle" /\ Cardinality(Open) < MaxOpen
  /\ request' = [request EXCEPT ![j][k] = "sent"]
  /\ actionId' = j /\ error' = FALSE
  /\ loose' = IF \E b \in Buttons : <<j, b>> \in Open THEN loose \cup {j} ELSE loose
  /\ UNCHANGED <<file, load, view>>

Answered(j, k) ==
  /\ request[j][k] \in {"ok", "refused"}
  /\ request' = [request EXCEPT ![j][k] = "idle"] /\ actionId' = None
  /\ \/ request[j][k] = "ok" /\ Refresh /\ UNCHANGED error
     \/ request[j][k] = "refused" /\ error' = TRUE /\ UNCHANGED load
  /\ UNCHANGED <<file, view, loose>>

Next ==
  \/ \E j \in Job : Moves(j)
  \/ \E s \in Slot : Loaded(s) \/ RefuseLoad(s) \/ LoadFails(s) \/ LoadAgain(s)
  \/ \E s \in Slot, j \in Job : ReadJob(s, j)
  \/ \E j \in Job, k \in Buttons : Press(j, k) \/ Write(j, k) \/ Respond(j, k) \/ Answered(j, k)

Spec == Init /\ [][Next]_vars

-----------------------------------------------------------------------------
(* Properties.                                                             *)

Quiet ==
  /\ view # None /\ ~error /\ Open = {}
  /\ \A s \in Slot : load[s].at = "idle" \/ ~load[s].live

\* A page that has stopped reloading, waits for nothing and shows no error shows
\* what is, although the summary read its jobs at different times, answers come in
\* any order, and the user has set jobs going meanwhile.  Only the status of an
\* invalid job, for which the page does not reload, may be an older one.
Agree(shown, now) ==
  /\ shown.state = now.state /\ shown.attention = now.attention
  /\ shown.status = now.status \/ now.state = "INVALID"

QuietPageIsCurrent == Quiet => \A j \in Job \ loose : Agree(view[j], Result(file[j]))
=============================================================================
