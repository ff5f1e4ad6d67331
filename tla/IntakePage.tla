----------------------------- MODULE IntakePage -----------------------------
(***************************************************************************)
(* The start page of the browser (IntakeApp.tsx) and the batches it keeps  *)
(* on the server (batch_results.py).  The page uploads the contracts of    *)
(* its queue one after the other, registers each with the page's batch,    *)
(* starts its pipeline, and polls it until it is settled.  Every `await`   *)
(* of the page is a request that is sent, served and answered in steps of  *)
(* its own, and the user presses buttons meanwhile.                        *)
(*                                                                         *)
(* The pipeline of a job is seen from outside: its worker, another tab and *)
(* the recovery may move it at any moment between running and settled.     *)
(***************************************************************************)
EXTENDS Naturals, FiniteSets

CONSTANTS
  Item,      \* bound: the contracts dropped on the page, each with its job
  Batch,     \* bound: the batches that can be created
  None,
  Buttons,   \* the buttons the user presses in this instance
  Reports,   \* the states of a pipeline it is answered
  MaxOpen    \* bound: requests of buttons under way at a time

Blocked == {"WAITING_CONFIGURATION", "WAITING_OPTIONAL_COMPONENT"}
Settled == {"COMPLETE", "CANCELLED", "FAILED", "PAUSED_BEFORE_PROVIDER"} \cup Blocked
Unsettled == {"RUNNING", "CANCEL_REQUESTED"}

\* None is no item and no batch, and no batch is a state of the promise for one.
ASSUME IntakePageAssumption ==
  /\ None \notin Item \cup Batch /\ MaxOpen \in Nat
  /\ {"idle", "sent", "refused"} \cap Batch = {}
  /\ Buttons \subseteq {"retry", "approve", "cancel", "resume"}
  /\ Reports \subseteq Settled \cup Unsettled

VARIABLES
  shown,     \* the items of the page
  activeId,  \* the item being uploaded, registered or started
  actionId,  \* the item whose buttons are disabled
  batchId,   \* batchIdRef
  promise,   \* batchPromiseRef: "idle", "sent", "refused" or the batch
  net,       \* for each item and kind of request, where it is
  register,  \* the batch each registration is for, and the jobs it has loaded
  lost,      \* server: where the handler is that goes on after its connection was lost
  cut,       \* history: batches with a registration cut off before its manifest was written
  manifest,  \* server: the batches on disk and their job_ids
  latest,    \* server: latest.json
  job        \* server: "none", "stored" (document.json), "running" or "settled"

vars == <<shown, activeId, actionId, batchId, promise, net, register, lost, cut, manifest, latest, job>>
handlers == <<lost, cut>>
server == <<register, handlers, manifest, latest, job>>
batch == <<batchId, promise>>

-----------------------------------------------------------------------------
StatusOf(answer) == Reports \cap (IF answer = "running" THEN Unsettled ELSE Settled)

Absent == [state |-> "absent", pipeline |-> None, uploaded |-> FALSE]
Gone == [Absent EXCEPT !.state = "gone"]
OnPage(i) == shown[i].state \notin {"absent", "gone"}
Kind == Buttons \cup {"upload", "register", "start", "poll"}
Started(i) == job[i] \in {"running", "settled"}

TypeOK ==
  /\ \A i \in Item :
       /\ shown[i].state \in {"absent", "queued", "uploading", "processing", "waiting",
                              "cancelled", "complete", "error", "gone"}
       /\ shown[i].pipeline \in Settled \cup Unsettled \cup {None}
       /\ shown[i].uploaded \in BOOLEAN /\ (shown[i].uploaded => job[i] # "none")
  /\ activeId \in Item \cup {None} /\ actionId \in Item \cup {None}
  /\ batchId \in Batch \cup {None} /\ promise \in {"idle", "sent", "refused"} \cup Batch
  /\ net \in [Item -> [Kind -> {"idle", "timer", "sent", "loaded", "written",
                                "running", "settled", "refused", "ok"}]]
  /\ \A i \in Item : register[i].batch \in Batch \cup {None} /\ register[i].jobs \subseteq Item
  /\ lost \in [Item -> {"none", "sent", "loaded", "written", "start"}] /\ cut \subseteq Batch
  /\ DOMAIN manifest \subseteq Batch /\ \A b \in DOMAIN manifest : manifest[b] \subseteq Item
  /\ latest \in Batch \cup {None}
  /\ job \in [Item -> {"none", "stored", "running", "settled"}]

Init ==
  /\ shown = [i \in Item |-> Absent]
  /\ activeId = None /\ actionId = None /\ batchId = None /\ promise = "idle"
  /\ net = [i \in Item |-> [k \in Kind |-> "idle"]]
  /\ register = [i \in Item |-> [batch |-> None, jobs |-> {}]]
  /\ lost = [i \in Item |-> "none"] /\ cut = {}
  /\ manifest = << >> /\ latest = None
  /\ job = [i \in Item |-> "none"]

-----------------------------------------------------------------------------
(* The server.                                                             *)

Arrives(i, k) == net[i][k] \in {"ok", "running", "settled", "refused"}
Under(i, k) == net[i][k] \in {"sent", "loaded", "written"}
Answer(i, k, answer) == net' = [net EXCEPT ![i][k] = answer]
OnlyServer == UNCHANGED <<shown, activeId, actionId, batch>>

\* create_batch: an empty batch does not become the recent one.
CreateBatch ==
  /\ promise = "sent"
  /\ \E b \in Batch \ DOMAIN manifest :
       promise' = b /\ manifest' = [c \in DOMAIN manifest \cup {b} |-> IF c = b THEN {} ELSE manifest[c]]
  /\ UNCHANGED <<shown, activeId, actionId, batchId, net, register, handlers, latest, job>>

\* What is stored after the answer was lost is a job that no page knows.
StoreUpload(i) ==
  /\ net[i].upload = "sent" /\ Answer(i, "upload", "ok")
  /\ job' = [job EXCEPT ![i] = "stored"]
  /\ OnlyServer /\ UNCHANGED <<register, handlers, manifest, latest>>

\* register_batch_job loads the manifest, writes it back, and then the pointer.
\* It refuses a batch or a document that is not there.
CanRegister(i) == register[i].batch \in DOMAIN manifest /\ job[i] # "none"
LoadManifest(i) == register' = [register EXCEPT ![i].jobs = manifest[register[i].batch]]
WriteManifest(i) == manifest' = [manifest EXCEPT ![register[i].batch] = register[i].jobs \cup {i}]

RegisterLoad(i) ==
  /\ net[i].register = "sent" /\ CanRegister(i)
  /\ Answer(i, "register", "loaded") /\ LoadManifest(i)
  /\ OnlyServer /\ UNCHANGED <<handlers, manifest, latest, job>>

RegisterPersist(i) ==
  \/ /\ net[i].register = "loaded" /\ Answer(i, "register", "written") /\ WriteManifest(i)
     /\ OnlyServer /\ UNCHANGED <<register, handlers, latest, job>>
  \/ /\ net[i].register = "written" /\ Answer(i, "register", "ok")
     /\ latest' = register[i].batch
     /\ OnlyServer /\ UNCHANGED <<register, handlers, manifest, job>>

\* A pipeline endpoint.  Only `start` does anything for a job without pipeline.
ServePipeline(i, k) ==
  /\ k \in Buttons \cup {"start"} /\ net[i][k] = "sent"
  /\ Started(i) \/ (k = "start" /\ job[i] = "stored")
  /\ \E now \in {"running", "settled"} :
       Answer(i, k, now) /\ job' = [job EXCEPT ![i] = now]
  /\ OnlyServer /\ UNCHANGED <<register, handlers, manifest, latest>>

ServePoll(i) ==
  /\ net[i].poll = "sent" /\ Started(i)
  /\ Answer(i, "poll", job[i])
  /\ OnlyServer /\ UNCHANGED server

\* The handler ends with an error status, also half way when a file cannot be
\* written; or the request or its answer is lost.
Refuse(i, k) ==
  /\ Under(i, k) \/ (k # "poll" /\ net[i][k] \in {"ok", "running", "settled"})
  /\ Answer(i, k, "refused")
  /\ OnlyServer /\ UNCHANGED server

\* The connection is lost midway: the page hears an error, and the handler, which
\* has a thread of its own, goes on.  What the buttons do late is one of the Moves.
Lose(i, k) ==
  /\ k \in {"register", "start"} /\ Under(i, k)
  /\ Answer(i, k, "refused")
  /\ lost' = [lost EXCEPT ![i] = IF k = "start" THEN "start" ELSE net[i][k]]
  /\ cut' = IF k = "register" /\ net[i][k] # "written" THEN cut \cup {register[i].batch} ELSE cut
  /\ OnlyServer /\ UNCHANGED <<register, manifest, latest, job>>

Late(i, at) == lost' = [lost EXCEPT ![i] = at]
OnlyLate == OnlyServer /\ UNCHANGED <<net, cut>>

GoesOn(i) ==
  /\ OnlyLate
  /\ \/ /\ lost[i] = "sent" /\ CanRegister(i) /\ Late(i, "loaded") /\ LoadManifest(i)
        /\ UNCHANGED <<manifest, latest, job>>
     \/ /\ lost[i] = "loaded" /\ Late(i, "written") /\ WriteManifest(i)
        /\ UNCHANGED <<register, latest, job>>
     \/ /\ lost[i] = "written" /\ Late(i, "none") /\ latest' = register[i].batch
        /\ UNCHANGED <<register, manifest, job>>
     \/ /\ lost[i] = "start" /\ Late(i, "none")
        /\ \E now \in {"running", "settled"} : job' = [job EXCEPT ![i] = now]
        /\ UNCHANGED <<register, manifest, latest>>

CreateRefused ==
  /\ promise = "sent" /\ promise' = "refused"
  /\ UNCHANGED <<shown, activeId, actionId, batchId, net, server>>

\* The worker, another tab, or a restart.
Moves(i) ==
  /\ Started(i)
  /\ job' = [job EXCEPT ![i] = IF @ = "running" THEN "settled" ELSE "running"]
  /\ OnlyServer /\ UNCHANGED <<net, register, handlers, manifest, latest>>

-----------------------------------------------------------------------------
(* The page: the queue of uploads.                                         *)

\* ensureBatch: the server is asked when there is neither batch nor promise.
EnsureBatch ==
  /\ \E i \in Item : shown[i].state = "absent"
  /\ batchId = None /\ promise = "idle" /\ promise' = "sent"
  /\ UNCHANGED <<shown, activeId, actionId, batchId, net, server>>

\* The promise is fulfilled: the page has a batch, or the files are dropped.
BatchArrives ==
  /\ promise \in Batch \cup {"refused"} /\ promise' = "idle"
  /\ batchId' = IF promise = "refused" THEN batchId ELSE promise
  /\ UNCHANGED <<shown, activeId, actionId, net, server>>

Queue(i) ==
  /\ batchId # None /\ shown[i].state = "absent"
  /\ shown' = [shown EXCEPT ![i].state = "queued"]
  /\ UNCHANGED <<activeId, actionId, batch, net, server>>

\* Mutant of StartUpload: uploads do not wait for each other.
UploadAtOnce(i) ==
  /\ batchId # None /\ shown[i].state = "queued"
  /\ activeId' = i
  /\ shown' = [shown EXCEPT ![i].state = "uploading"]
  /\ net' = [net EXCEPT ![i].upload = "sent"]
  /\ UNCHANGED <<actionId, batch, server>>

\* The two effects on activeId.
StartUpload(i) ==
  /\ activeId = None /\ batchId # None /\ shown[i].state = "queued"
  /\ activeId' = i
  /\ shown' = [shown EXCEPT ![i].state = "uploading"]
  /\ net' = [net EXCEPT ![i].upload = "sent"]
  /\ UNCHANGED <<actionId, batch, server>>

\* A failure anywhere before the pipeline runs.
Fails(i) ==
  /\ shown' = [shown EXCEPT ![i].state = "error"]
  /\ activeId' = None

\* Mutant of UploadArrives: the answer is not asked for its status.
UploadedAnyhow(i) ==
  /\ OnPage(i) /\ Arrives(i, "upload")
  /\ shown' = [shown EXCEPT ![i] = [@ EXCEPT !.state = "processing", !.uploaded = TRUE]]
  /\ net' = [net EXCEPT ![i].upload = "idle", ![i].register = "sent"]
  /\ register' = [register EXCEPT ![i] = [batch |-> batchId, jobs |-> {}]]
  /\ UNCHANGED <<activeId, actionId, batch, handlers, manifest, latest, job>>

UploadArrives(i) ==
  /\ OnPage(i) /\ Arrives(i, "upload")
  /\ IF net[i].upload = "refused"
     THEN Fails(i) /\ Answer(i, "upload", "idle") /\ UNCHANGED register
     ELSE /\ shown' = [shown EXCEPT ![i] = [@ EXCEPT !.state = "processing", !.uploaded = TRUE]]
          /\ net' = [net EXCEPT ![i].upload = "idle", ![i].register = "sent"]
          /\ register' = [register EXCEPT ![i] = [batch |-> batchId, jobs |-> {}]]
          /\ UNCHANGED activeId
  /\ UNCHANGED <<actionId, batch, handlers, manifest, latest, job>>

\* Mutant of RegisterArrives: `response.ok` is not looked at.
RegisteredAnyhow(i) ==
  /\ OnPage(i) /\ Arrives(i, "register")
  /\ net' = [net EXCEPT ![i].register = "idle", ![i].start = "sent"]
  /\ UNCHANGED <<shown, activeId, actionId, batch, server>>

RegisterArrives(i) ==
  /\ OnPage(i) /\ Arrives(i, "register")
  /\ IF net[i].register = "refused"
     THEN Fails(i) /\ Answer(i, "register", "idle")
     ELSE /\ net' = [net EXCEPT ![i].register = "idle", ![i].start = "sent"]
          /\ UNCHANGED <<shown, activeId>>
  /\ UNCHANGED <<actionId, batch, server>>

-----------------------------------------------------------------------------
(* The page: the state of a pipeline.                                      *)

StateOf(status) ==
  CASE status = "COMPLETE" -> "complete"
    [] status = "CANCELLED" -> "cancelled"
    [] status = "FAILED" -> "error"
    [] status \in Blocked \cup {"PAUSED_BEFORE_PROVIDER"} -> "waiting"
    [] OTHER -> "processing"

\* updatePipelineItem, with a report of the kind that was answered.
Update(i, answer) ==
  \E status \in StatusOf(answer) :
    shown' = [shown EXCEPT ![i] = [@ EXCEPT !.state = StateOf(status), !.pipeline = status]]

\* pollPipeline: at most one loop for an item.
Polled(i) == IF net[i].poll = "idle" THEN "sent" ELSE net[i].poll
Polling(i, k) == net' = [net EXCEPT ![i][k] = "idle", ![i].poll = Polled(i)]

StartArrives(i) ==
  /\ OnPage(i) /\ Arrives(i, "start")
  /\ IF net[i].start = "refused" THEN Fails(i) /\ Answer(i, "start", "idle")
     ELSE Update(i, net[i].start) /\ Polling(i, "start") /\ activeId' = None
  /\ UNCHANGED <<actionId, batch, server>>

\* The loop ends on a settled report and on an error.
PollArrives(i) ==
  /\ OnPage(i) /\ Arrives(i, "poll")
  /\ \/ net[i].poll = "running" /\ Update(i, "running") /\ Answer(i, "poll", "timer")
     \/ net[i].poll = "settled" /\ Update(i, "settled") /\ Answer(i, "poll", "idle")
     \/ /\ net[i].poll = "refused" /\ Answer(i, "poll", "idle")
        /\ shown' = [shown EXCEPT ![i].state = "error"]
  /\ UNCHANGED <<activeId, actionId, batch, server>>

PollAgain(i) ==
  /\ OnPage(i) /\ net[i].poll = "timer" /\ Answer(i, "poll", "sent")
  /\ UNCHANGED <<shown, activeId, actionId, batch, server>>

-----------------------------------------------------------------------------
(* The page: its buttons.                                                  *)

Offered(i, k) ==
  LET item == shown[i]
  IN  /\ item.uploaded /\ actionId # i
      /\ CASE k = "approve" -> item.pipeline = "PAUSED_BEFORE_PROVIDER"
           [] k = "retry" -> /\ item.pipeline # "PAUSED_BEFORE_PROVIDER"
                             /\ \/ item.state = "error"
                                \/ item.state = "waiting" /\ item.pipeline \in Blocked
           [] k = "cancel" -> /\ item.state \notin {"complete", "cancelled"}
                              /\ item.pipeline # "CANCEL_REQUESTED"
           [] k = "resume" -> item.state = "cancelled"

Open == {x \in Item \X Buttons : net[x[1]][x[2]] # "idle"}

\* A retry is shown as processing before it is answered.
Press(i, k) ==
  /\ OnPage(i) /\ Offered(i, k) /\ net[i][k] = "idle" /\ Cardinality(Open) < MaxOpen
  /\ actionId' = i /\ Answer(i, k, "sent")
  /\ shown' = IF k = "retry" THEN [shown EXCEPT ![i].state = "processing"] ELSE shown
  /\ UNCHANGED <<activeId, batch, server>>

\* Mutant of Pressed: a cancel relies on a loop that is already there.
PressedUnwatched(i, k) ==
  CASE k = "retry" -> Update(i, net[i][k]) /\ Polling(i, k)
    [] k = "cancel" -> /\ shown' = [shown EXCEPT ![i].state = "processing"]
                       /\ Answer(i, k, "idle")
    [] OTHER -> /\ \E status \in StatusOf(net[i][k]) :
                     shown' = [shown EXCEPT ![i] = [@ EXCEPT !.state = "processing", !.pipeline = status]]
                /\ Polling(i, k)

\* What a button does with its answer.  After a cancel the item keeps the report it had.
Pressed(i, k) ==
  /\ CASE k = "retry" -> Update(i, net[i][k])
       [] k = "cancel" -> shown' = [shown EXCEPT ![i].state = "processing"]
       [] OTHER -> \E status \in StatusOf(net[i][k]) :
                     shown' = [shown EXCEPT ![i] = [@ EXCEPT !.state = "processing", !.pipeline = status]]
  /\ Polling(i, k)

ButtonArrives(i, k) ==
  /\ OnPage(i) /\ k \in Buttons /\ Arrives(i, k)
  /\ IF net[i][k] = "refused"
     THEN /\ shown' = IF k = "retry" THEN [shown EXCEPT ![i].state = "error"] ELSE shown
          /\ Answer(i, k, "idle")
     ELSE Pressed(i, k)
  /\ actionId' = None
  /\ UNCHANGED <<activeId, batch, server>>

\* A button of an item outside of this instance: its answer enables all buttons.
ButtonElsewhere ==
  /\ actionId # None /\ actionId' = None
  /\ UNCHANGED <<shown, activeId, batch, net, server>>

RetryUpload(i) ==
  /\ shown[i].state = "error" /\ ~shown[i].uploaded
  /\ shown' = [shown EXCEPT ![i] = [Absent EXCEPT !.state = "queued"]]
  /\ UNCHANGED <<activeId, actionId, batch, net, server>>

Remove(i) ==
  /\ shown[i].state \in {"queued", "complete", "error"} /\ i # activeId
  /\ shown' = [shown EXCEPT ![i] = Gone]
  /\ UNCHANGED <<activeId, actionId, batch, net, server>>

\* The page is left, by the user or because everything is complete, and opened
\* again.  Its timers and the answers it has not taken are gone with it; what was
\* sent may still be served, and nobody waits for the answer.
Leave ==
  /\ batchId # None
  /\ shown' = [i \in Item |-> IF OnPage(i) THEN Gone ELSE shown[i]]
  /\ activeId' = None /\ actionId' = None /\ batchId' = None /\ promise' = "idle"
  /\ net' = [i \in Item |-> [k \in Kind |-> IF Under(i, k) THEN net[i][k] ELSE "idle"]]
  /\ UNCHANGED server

Unheard(i, k) ==
  /\ ~OnPage(i) /\ (Arrives(i, k) \/ net[i][k] = "timer") /\ Answer(i, k, "idle")
  /\ UNCHANGED <<shown, activeId, actionId, batch, server>>

-----------------------------------------------------------------------------
Serve(i, k) ==
  \/ k = "upload" /\ StoreUpload(i)
  \/ k = "register" /\ (RegisterLoad(i) \/ RegisterPersist(i))
  \/ k = "poll" /\ ServePoll(i)
  \/ ServePipeline(i, k) \/ Refuse(i, k) \/ Lose(i, k)

Hear(i, k) ==
  \/ k = "upload" /\ UploadArrives(i)
  \/ k = "register" /\ RegisterArrives(i)
  \/ k = "start" /\ StartArrives(i)
  \/ k = "poll" /\ (PollArrives(i) \/ PollAgain(i))
  \/ ButtonArrives(i, k) \/ Unheard(i, k)

User(i) ==
  \/ Queue(i) \/ RetryUpload(i) \/ Remove(i)
  \/ \E k \in Buttons : Press(i, k)

Next ==
  \/ EnsureBatch \/ BatchArrives \/ CreateBatch \/ CreateRefused \/ Leave \/ ButtonElsewhere
  \/ \E i \in Item : StartUpload(i) \/ User(i) \/ GoesOn(i) \/ Moves(i)
  \/ \E i \in Item, k \in Kind : Serve(i, k) \/ Hear(i, k)

Spec == Init /\ [][Next]_vars

-----------------------------------------------------------------------------
(* Properties.                                                             *)

\* No item hangs: one that is shown as uploading or processing has a request or a
\* polling loop that will show what becomes of it, and the queue waits only for
\* an item that has a request under way.
NothingIsForgotten ==
  \A i \in Item :
    /\ shown[i].state = "processing"
         => \E k \in {"register", "start", "poll", "retry"} \cap Kind : net[i][k] # "idle"
    /\ shown[i].state = "uploading" => net[i].upload # "idle"
    /\ activeId = i => \E k \in {"upload", "register", "start"} : net[i][k] # "idle"

\* Work can be found again: a job whose pipeline was started is in a batch, and in
\* the batch its page links to (registration comes first, and a failed one starts
\* nothing, now or by retry), as long as no registration of its batch lost its
\* connection before it had written; and "an empty batch must not hide the most
\* recent useful batch", wherever a registration ends and whoever goes on.
WorkCanBeFound ==
  /\ \A i \in Item : Started(i) /\ register[i].batch \notin cut =>
       /\ \E b \in DOMAIN manifest : i \in manifest[b]
       /\ OnPage(i) => batchId # None /\ i \in manifest[batchId]
  /\ latest # None => manifest[latest] # {}

\* register_batch_job has no lock, but the page never has two registrations for
\* one batch under way, not even when it is left in the middle of one; only a lost
\* connection makes it go on to the next beside a handler that has not written yet.
NoJobLeavesItsBatch ==
  [][\A b \in DOMAIN manifest \ cut : manifest[b] \subseteq manifest'[b]]_vars
=============================================================================
