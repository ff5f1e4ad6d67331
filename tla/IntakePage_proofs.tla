------------------------- MODULE IntakePage_proofs -------------------------
(***************************************************************************)
(* For every number of contracts, batches and buttons: a job whose         *)
(* pipeline was started is in the batch its page links to, a batch never   *)
(* loses a job although registering one takes three steps without a lock,  *)
(* and no item of the page hangs.                                          *)
(***************************************************************************)
EXTENDS IntakePage, FiniteSetTheorems, TLAPS

-----------------------------------------------------------------------------
(* The inductive invariant.                                                *)

\* The requests of the upload queue; their answers belong to the active item.
Queued == {"upload", "register", "start"}

ItemState ==
  [state : {"absent", "queued", "uploading", "processing", "waiting", "cancelled",
            "complete", "error", "gone"},
   pipeline : Settled \cup Unsettled \cup {None}, uploaded : BOOLEAN]

Registration == [batch : Batch \cup {None}, jobs : SUBSET Item]

Where == {"idle", "timer", "sent", "loaded", "written", "running", "settled", "refused", "ok"}

Typed ==
  /\ shown \in [Item -> ItemState] /\ register \in [Item -> Registration]
  /\ net \in [Item -> [Kind -> Where]]
  /\ manifest \in [DOMAIN manifest -> SUBSET Item] /\ DOMAIN manifest \subseteq Batch
  /\ job \in [Item -> {"none", "stored", "running", "settled"}]
  /\ activeId \in Item \cup {None} /\ actionId \in Item \cup {None}
  /\ batchId \in Batch \cup {None} /\ promise \in {"idle", "sent", "refused"} \cup Batch
  /\ latest \in Batch \cup {None}
  /\ lost \in [Item -> {"none", "sent", "loaded", "written", "start"}] /\ cut \subseteq Batch

\* At most one item of the page is being uploaded, registered or started, by one
\* request, and it is the active one.
QueueOK ==
  /\ activeId # None => OnPage(activeId)
  /\ \A i \in Item : OnPage(i) =>
       \A k \in Queued : net[i][k] # "idle" =>
         activeId = i /\ \A l \in Queued \ {k} : net[i][l] = "idle"

\* What an item has been through, by where its requests are.
Uploads(i) ==
  /\ shown[i].state = "absent" => job[i] = "none" /\ \A k \in Kind : net[i][k] = "idle"
  /\ net[i].upload \in {"idle", "sent", "refused", "ok"}
  /\ net[i].upload = "ok" \/ shown[i].uploaded => job[i] # "none"

\* The batches of the server and the one of the page.
BatchesOK ==
  /\ batchId = None => \A i \in Item : ~OnPage(i)
  /\ batchId # None => batchId \in DOMAIN manifest /\ promise = "idle"
  /\ promise \in Batch => promise \in DOMAIN manifest
  /\ latest # None => latest \in DOMAIN manifest /\ manifest[latest] # {}

\* An item is registered once: only an uploaded one has been, and it is not
\* uploaded again.
Begun(i) ==
  /\ shown[i].state = "absent" => ~shown[i].uploaded /\ lost[i] = "none"
  /\ OnPage(i) /\ (shown[i].state = "queued" \/ net[i].upload # "idle") => ~shown[i].uploaded
  /\ OnPage(i) /\ ~shown[i].uploaded =>
       lost[i] = "none" /\ ~Started(i) /\ net[i].register = "idle" /\ net[i].start = "idle"

\* A registration is for the batch of the page it came from.  In a batch that was
\* not cut off, what it has loaded is what the batch still holds, and once it is
\* written the item is there.
Registers(i) ==
  /\ net[i].register \in {"idle", "sent", "loaded", "written", "refused", "ok"}
  /\ net[i].register # "idle" \/ net[i].start # "idle" \/ lost[i] # "none" =>
       /\ register[i].batch \in DOMAIN manifest
       /\ OnPage(i) => register[i].batch = batchId
  /\ net[i].register # "idle" /\ ~OnPage(i) => register[i].batch \notin {batchId, promise}
  /\ lost[i] \in {"sent", "loaded"} => register[i].batch \in cut
  /\ net[i].register = "loaded" /\ register[i].batch \notin cut =>
       register[i].jobs = manifest[register[i].batch]
  /\ net[i].register \in {"written", "ok"} \/ net[i].start # "idle" \/ lost[i] \in {"written", "start"} =>
       /\ manifest[register[i].batch] # {}
       /\ register[i].batch \notin cut => i \in manifest[register[i].batch]

\* No two registrations that the page waits for are for one batch.
Alone == \A i, j \in Item :
  i # j /\ net[i].register # "idle" /\ net[j].register # "idle" =>
    register[i].batch # register[j].batch

\* A job whose pipeline was started is in the batch it was registered for, and
\* that is the one of its page.
Found(i) ==
  Started(i) /\ register[i].batch \notin cut =>
    /\ register[i].batch \in DOMAIN manifest /\ i \in manifest[register[i].batch]
    /\ OnPage(i) => register[i].batch = batchId

\* An item has a request that will show what becomes of it.
Remembered(i) ==
  /\ shown[i].state = "processing"
       => \E k \in {"register", "start", "poll", "retry"} : k \in Kind /\ net[i][k] # "idle"
  /\ shown[i].state = "uploading" => net[i].upload # "idle"
  /\ activeId = i => \E k \in Queued : net[i][k] # "idle"

IInv ==
  /\ Typed /\ QueueOK /\ BatchesOK /\ Alone
  /\ \A i \in Item : Uploads(i) /\ Begun(i) /\ Registers(i) /\ Found(i) /\ Remembered(i)

-----------------------------------------------------------------------------
(* Small facts.                                                            *)

LEMMA Kinds ==
  /\ Queued \cup {"poll"} \subseteq Kind /\ Buttons \subseteq Kind
  /\ \A k \in Buttons : k \notin Queued /\ k # "poll"
BY IntakePageAssumption DEF Kind, Queued

LEMMA Answers ==
  ASSUME Typed, NEW i \in Item, NEW k \in Kind, NEW answer \in Where, Answer(i, k, answer)
  PROVE  /\ net' \in [Item -> [Kind -> Where]] /\ net'[i][k] = answer
         /\ \A l \in Kind \ {k} : net'[i][l] = net[i][l]
         /\ \A j \in Item \ {i} : net'[j] = net[j]
BY DEF Typed, Answer

LEMMA Polls ==
  ASSUME Typed, NEW i \in Item, NEW k \in Kind \ {"poll"}, Polling(i, k)
  PROVE  /\ net' \in [Item -> [Kind -> Where]]
         /\ net'[i].poll # "idle" /\ net'[i][k] = "idle"
         /\ \A l \in Kind \ {k, "poll"} : net'[i][l] = net[i][l]
         /\ \A j \in Item \ {i} : net'[j] = net[j]
<1>1. Polled(i) \in Where \ {"idle"}
  BY DEF Typed, Where, Kind, Polled
<1>2. QED BY <1>1 DEF Polling, Typed, Where, Kind

\* Where one more item is active, or none, the queue of the others is quiet.
LEMMA Quiet ==
  ASSUME IInv, NEW i \in Item, activeId \in {i, None}, NEW j \in Item \ {i}, OnPage(j)
  PROVE  \A k \in Queued : net[j][k] = "idle"
BY IntakePageAssumption DEF IInv, QueueOK

\* An item whose requests are still under way, or not, is remembered as before.
LEMMA StillRemembered ==
  ASSUME NEW i \in Item, Remembered(i), shown'[i] = shown[i], activeId' = activeId,
         \A k \in Kind : net[i][k] # "idle" => net'[i][k] # "idle"
  PROVE  Remembered(i)'
<1>1. shown[i].state = "processing" =>
        \E k \in {"register", "start", "poll", "retry"} : k \in Kind /\ net'[i][k] # "idle"
  BY DEF Remembered
<1>2. shown[i].state = "uploading" => net'[i].upload # "idle"
  BY Kinds DEF Remembered, Queued
<1>3. activeId = i => \E k \in Queued : net'[i][k] # "idle"
  BY Kinds DEF Remembered
<1>4. QED BY <1>1, <1>2, <1>3 DEF Remembered

-----------------------------------------------------------------------------
(* A step about one item that leaves the batches alone.                    *)

Touches(i) ==
  /\ \A j \in Item \ {i} : /\ shown'[j] = shown[j] /\ net'[j] = net[j] /\ lost'[j] = lost[j]
                           /\ register'[j] = register[j] /\ job'[j] = job[j]
  /\ cut \subseteq cut' /\ UNCHANGED <<batchId, promise, manifest, latest>>

LEMMA ItemStep ==
  ASSUME IInv, NEW i \in Item, Touches(i), Typed',
         OnPage(i)' => batchId # None,
         \/ activeId' = activeId
         \/ activeId = i /\ activeId' = None
         \/ activeId = None /\ activeId' = i,
         activeId' = i => OnPage(i)',
         OnPage(i)' => \A k \in Queued : net'[i][k] # "idle" =>
                         activeId' = i /\ \A l \in Queued \ {k} : net'[i][l] = "idle",
         net'[i].register # "idle" =>
           \/ net[i].register # "idle" /\ register'[i].batch = register[i].batch
           \/ OnPage(i) /\ activeId = i /\ register'[i].batch = batchId,
         Uploads(i)', Begun(i)', Registers(i)', Found(i)', Remembered(i)'
  PROVE  IInv'
<1>1. ASSUME NEW j \in Item \ {i}
      PROVE  /\ OnPage(j)' <=> OnPage(j)
             /\ Started(j)' <=> Started(j)
             /\ \A k \in Kind : net'[j][k] = net[j][k]
             /\ shown'[j] = shown[j] /\ register'[j] = register[j] /\ job'[j] = job[j]
             /\ lost'[j] = lost[j]
  BY <1>1 DEF Touches, OnPage, Started
<1>2. UNCHANGED <<batchId, promise, manifest, latest>> /\ None \notin Item /\ cut \subseteq cut'
  BY IntakePageAssumption DEF Touches
<1>3. QueueOK'
  <2>1. (activeId # None => OnPage(activeId))'
    <3>1. CASE activeId' = i
      BY <3>1
    <3>2. CASE activeId' # i /\ activeId' # None
      <4>1. activeId' = activeId /\ activeId \in Item \ {i} /\ OnPage(activeId)
        BY <3>2 DEF IInv, Typed, QueueOK
      <4>2. shown'[activeId] = shown[activeId]
        BY <1>1, <4>1
      <4>3. QED BY <4>1, <4>2 DEF OnPage
    <3>3. QED BY <3>1, <3>2
  <2>2. ASSUME NEW j \in Item \ {i}, OnPage(j)', NEW k \in Queued, net'[j][k] # "idle"
        PROVE  activeId' = j /\ \A l \in Queued \ {k} : net'[j][l] = "idle"
    <3>1. OnPage(j) /\ net[j][k] # "idle"
      BY <1>1, <2>2, Kinds
    <3>2. activeId = j /\ \A l \in Queued \ {k} : net[j][l] = "idle"
      BY <3>1 DEF IInv, QueueOK
    <3>3. QED BY <1>1, <1>2, <3>2, Kinds
  <2>3. ASSUME NEW j \in Item, OnPage(j)', NEW k \in Queued, net'[j][k] # "idle"
        PROVE  activeId' = j /\ \A l \in Queued \ {k} : net'[j][l] = "idle"
    <3>1. CASE j = i
      BY <2>3, <3>1
    <3>2. CASE j # i
      BY <2>2, <2>3, <3>2
    <3>3. QED BY <3>1, <3>2
  <2>4. QED BY <2>1, <2>3 DEF QueueOK
<1>4. BatchesOK'
  BY <1>1, <1>2 DEF IInv, BatchesOK
<1>5. Alone'
  <2>1. ASSUME NEW j \in Item \ {i}, net'[i].register # "idle", net'[j].register # "idle"
        PROVE  register'[i].batch # register'[j].batch
    <3>1. net[j].register # "idle" /\ register'[j] = register[j]
      BY <1>1, <2>1, Kinds DEF Queued
    <3>2. CASE net[i].register # "idle" /\ register'[i].batch = register[i].batch
      BY <3>1, <3>2 DEF IInv, Alone
    <3>3. CASE OnPage(i) /\ activeId = i /\ register'[i].batch = batchId
      <4>1. ~OnPage(j)
        BY <3>1, <3>3, Quiet DEF Queued
      <4>2. register[j].batch # batchId
        BY <3>1, <4>1 DEF IInv, Registers
      <4>3. QED BY <3>1, <3>3, <4>2
    <3>4. QED BY <2>1, <3>2, <3>3
  <2>2. ASSUME NEW j \in Item \ {i}, NEW l \in Item \ {i}, j # l,
               net'[j].register # "idle", net'[l].register # "idle"
        PROVE  register'[j].batch # register'[l].batch
    BY <1>1, <2>2, Kinds DEF IInv, Alone, Queued
  <2>3. QED BY <2>1, <2>2 DEF Alone
<1>6. ASSUME NEW j \in Item \ {i}
      PROVE  Uploads(j)' /\ Begun(j)' /\ Registers(j)' /\ Found(j)' /\ Remembered(j)'
  <2>1. Uploads(j) /\ Begun(j) /\ Registers(j) /\ Found(j) /\ Remembered(j)
    BY DEF IInv
  <2>a. Begun(j)'
    BY <1>1, <2>1, Kinds DEF Begun, Queued
  <2>2. Uploads(j)'
    BY <1>1, <2>1, Kinds DEF Uploads, Queued
  <2>3. Registers(j)'
    BY <1>1, <1>2, <2>1, Kinds DEF Registers, Queued
  <2>4. Found(j)'
    BY <1>1, <1>2, <2>1 DEF Found
  <2>5. Remembered(j)'
    <3>1. activeId' = j => activeId = j
      BY <1>2
    <3>2. \A k \in Kind : net'[j][k] = net[j][k]
      BY <1>1
    <3>3. shown[j].state = "processing" =>
            \E k \in {"register", "start", "poll", "retry"} : k \in Kind /\ net'[j][k] # "idle"
      BY <2>1, <3>2 DEF Remembered
    <3>4. shown[j].state = "uploading" => net'[j].upload # "idle"
      BY <2>1, <3>2, Kinds DEF Remembered, Queued
    <3>5. activeId' = j => \E k \in Queued : net'[j][k] # "idle"
      BY <2>1, <3>1, <3>2, Kinds DEF Remembered
    <3>6. QED BY <1>1, <3>3, <3>4, <3>5 DEF Remembered
  <2>6. QED BY <2>a, <2>2, <2>3, <2>4, <2>5
<1>7. QED BY <1>3, <1>4, <1>5, <1>6 DEF IInv

-----------------------------------------------------------------------------
(* Steps of the server.                                                    *)

\* What is known of an item.
LEMMA ItemFacts ==
  ASSUME IInv, NEW i \in Item
  PROVE  /\ Typed /\ shown[i] \in ItemState /\ register[i] \in Registration
         /\ net[i] \in [Kind -> Where] /\ Uploads(i) /\ Begun(i) /\ Registers(i) /\ Found(i) /\ Remembered(i)
         /\ OnPage(i) => batchId # None
BY DEF IInv, Typed, BatchesOK

\* The server answers a request that is under way, or its answer is lost.
LEMMA ServerStep ==
  ASSUME IInv, NEW i \in Item, NEW k \in Kind, NEW answer \in Where \ {"idle"},
         net[i][k] # "idle", Answer(i, k, answer), OnlyServer, UNCHANGED <<manifest, latest>>,
         job' \in [Item -> {"none", "stored", "running", "settled"}],
         register' \in [Item -> Registration],
         lost' \in [Item -> {"none", "sent", "loaded", "written", "start"}],
         cut \subseteq cut', cut' \subseteq Batch,
         \A j \in Item \ {i} : register'[j] = register[j] /\ job'[j] = job[j] /\ lost'[j] = lost[j],
         register'[i].batch = register[i].batch,
         Uploads(i)', Begun(i)', Registers(i)', Found(i)'
  PROVE  IInv'
<1>1. UNCHANGED <<shown, activeId, actionId, batchId, promise, manifest, latest>>
  BY DEF OnlyServer, batch
<1>2. /\ net' \in [Item -> [Kind -> Where]] /\ net'[i][k] = answer
      /\ \A l \in Kind \ {k} : net'[i][l] = net[i][l]
      /\ \A j \in Item \ {i} : net'[j] = net[j]
  BY ItemFacts, Answers
<1>3. \A l \in Kind : net'[i][l] # "idle" <=> net[i][l] # "idle"
  BY <1>2
<1>4. Touches(i)
  BY <1>1, <1>2 DEF Touches
<1>5. Typed'
  BY <1>1, <1>2, ItemFacts DEF Typed
<1>6. Remembered(i)'
  BY <1>1, <1>3, ItemFacts, StillRemembered
<1>7. OnPage(i)' <=> OnPage(i)
  BY <1>1 DEF OnPage
<1>8. OnPage(i) => \A l \in Queued : net'[i][l] # "idle" =>
                     activeId = i /\ \A m \in Queued \ {l} : net'[i][m] = "idle"
  BY <1>3, Kinds DEF IInv, QueueOK
<1>9. net'[i].register # "idle" => net[i].register # "idle"
  BY <1>3, Kinds DEF Queued
<1>10. activeId = i => OnPage(i)
  BY IntakePageAssumption DEF IInv, QueueOK
<1>11. QED
  BY <1>1, <1>4, <1>5, <1>6, <1>7, <1>8, <1>9, <1>10, ItemFacts, ItemStep

LEMMA StoreStep == ASSUME IInv, NEW i \in Item, StoreUpload(i) PROVE IInv'
<1>1. /\ net[i].upload = "sent" /\ Answer(i, "upload", "ok") /\ job' = [job EXCEPT ![i] = "stored"]
      /\ OnlyServer /\ UNCHANGED <<register, lost, cut, manifest, latest>>
  BY DEF StoreUpload, handlers
<1>2. "upload" \in Kind /\ "ok" \in Where \ {"idle"}
  BY Kinds DEF Queued, Where
<1>3. /\ net'[i].upload = "ok" /\ \A l \in Kind \ {"upload"} : net'[i][l] = net[i][l]
  BY <1>1, <1>2, ItemFacts, Answers
<1>4. /\ job' \in [Item -> {"none", "stored", "running", "settled"}] /\ job'[i] = "stored"
      /\ \A j \in Item \ {i} : job'[j] = job[j]
  BY <1>1, ItemFacts DEF Typed
<1>5. shown' = shown /\ batchId' = batchId /\ promise' = promise
  BY <1>1 DEF OnlyServer, batch
<1>6. Uploads(i)'
  BY <1>1, <1>2, <1>3, <1>4, <1>5, ItemFacts DEF Uploads
<1>7. Registers(i)'
  <2>1. net'[i].register = net[i].register /\ net'[i].start = net[i].start
    BY <1>3, Kinds DEF Queued
  <2>2. QED BY <1>1, <1>5, <2>1, ItemFacts DEF Registers, OnPage
<1>8. Found(i)'
  BY <1>4 DEF Found, Started
<1>9. register' \in [Item -> Registration]
  BY <1>1, ItemFacts DEF Typed
<1>10. Begun(i)'
  <2>1. net'[i].register = net[i].register /\ net'[i].start = net[i].start
    BY <1>3, Kinds DEF Queued
  <2>2. QED BY <1>1, <1>2, <1>4, <1>5, <2>1, ItemFacts DEF Begun, Uploads, OnPage, Started
<1>11. QED BY <1>1, <1>2, <1>4, <1>6, <1>7, <1>8, <1>9, <1>10, ItemFacts, ServerStep DEF Typed

LEMMA LoadStep == ASSUME IInv, NEW i \in Item, RegisterLoad(i) PROVE IInv'
<1> DEFINE jobs == manifest[register[i].batch]
<1>1. /\ net[i].register = "sent" /\ register[i].batch \in DOMAIN manifest
      /\ Answer(i, "register", "loaded") /\ register' = [register EXCEPT ![i].jobs = jobs]
      /\ OnlyServer /\ UNCHANGED <<lost, cut, manifest, latest, job>>
  BY DEF RegisterLoad, CanRegister, LoadManifest, handlers
<1>2. "register" \in Kind /\ "loaded" \in Where \ {"idle"}
  BY Kinds DEF Queued, Where
<1>3. /\ net'[i].register = "loaded" /\ \A l \in Kind \ {"register"} : net'[i][l] = net[i][l]
  BY <1>1, <1>2, ItemFacts, Answers
<1>4. jobs \in SUBSET Item
  BY <1>1, ItemFacts DEF Typed
<1>5. /\ register' \in [Item -> Registration] /\ register'[i].batch = register[i].batch
      /\ register'[i].jobs = jobs /\ \A j \in Item \ {i} : register'[j] = register[j]
  BY <1>1, <1>4, ItemFacts DEF Typed, Registration
<1>6. shown' = shown /\ batchId' = batchId /\ promise' = promise
  BY <1>1 DEF OnlyServer, batch
<1>7. net'[i].upload = net[i].upload /\ net'[i].start = net[i].start
  BY <1>3, Kinds DEF Queued
<1>8. Uploads(i)'
  BY <1>1, <1>2, <1>6, <1>7, ItemFacts DEF Uploads
<1>9. Registers(i)'
  BY <1>1, <1>3, <1>5, <1>6, <1>7, ItemFacts DEF Registers, OnPage
<1>10. Found(i)'
  BY <1>1, <1>5, <1>6, ItemFacts DEF Found, Started, OnPage
<1>11. job' \in [Item -> {"none", "stored", "running", "settled"}]
  BY <1>1, ItemFacts DEF Typed
<1>12. Begun(i)'
  <2>1. OnPage(i) => shown[i].uploaded
    BY <1>1, ItemFacts DEF Begun
  <2>2. QED BY <1>1, <1>6, <1>7, <2>1, ItemFacts DEF Begun, OnPage
<1>13. QED BY <1>1, <1>2, <1>5, <1>8, <1>9, <1>10, <1>11, <1>12, ItemFacts, ServerStep DEF Typed

\* A pipeline that is started for the first time has its job in the batch.
LEMMA PipelineStep ==
  ASSUME IInv, NEW i \in Item, NEW k \in Kind, ServePipeline(i, k)
  PROVE  IInv'
<1>1. PICK now \in {"running", "settled"} :
        Answer(i, k, now) /\ job' = [job EXCEPT ![i] = now]
  BY DEF ServePipeline
<1>2. /\ k \in Buttons \cup {"start"} /\ net[i][k] = "sent"
      /\ Started(i) \/ (k = "start" /\ job[i] = "stored")
      /\ OnlyServer /\ UNCHANGED <<register, lost, cut, manifest, latest>>
  BY DEF ServePipeline, handlers
<1>3. now \in Where \ {"idle"}
  BY DEF Where
<1>4. net'[i][k] = now /\ \A l \in Kind \ {k} : net'[i][l] = net[i][l]
  BY <1>1, <1>3, ItemFacts, Answers
<1>5. /\ job' \in [Item -> {"none", "stored", "running", "settled"}] /\ job'[i] = now
      /\ \A j \in Item \ {i} : job'[j] = job[j]
  BY <1>1, ItemFacts DEF Typed
<1>6. shown' = shown /\ batchId' = batchId /\ promise' = promise
  BY <1>2 DEF OnlyServer, batch
<1>7. /\ net'[i].upload = net[i].upload /\ net'[i].register = net[i].register
      /\ net'[i].start # "idle" <=> net[i].start # "idle"
  BY <1>2, <1>3, <1>4, Kinds DEF Queued
<1>8. Uploads(i)'
  <2>1. shown[i].state # "absent"
    BY <1>2, ItemFacts DEF Uploads
  <2>2. QED BY <1>5, <1>6, <1>7, <2>1, ItemFacts DEF Uploads
<1>9. Registers(i)'
  BY <1>2, <1>6, <1>7, ItemFacts DEF Registers, OnPage
<1>10. Found(i)'
  <2>1. CASE Started(i)
    BY <1>2, <1>6, <2>1, ItemFacts DEF Found, OnPage
  <2>2. CASE k = "start"
    <3>1. net[i].start # "idle"
      BY <1>2, <2>2
    <3>2. /\ register[i].batch \in DOMAIN manifest
          /\ register[i].batch \notin cut => i \in manifest[register[i].batch]
          /\ OnPage(i) => register[i].batch = batchId
      BY <3>1, ItemFacts DEF Registers
    <3>3. QED BY <1>2, <1>6, <3>2 DEF Found, OnPage
  <2>3. QED BY <1>2, <2>1, <2>2
<1>11. register' \in [Item -> Registration]
  BY <1>2, ItemFacts DEF Typed
<1>12. net[i][k] # "idle" /\ register' = register
  BY <1>2
<1>13. Begun(i)'
  <2>1. OnPage(i) => shown[i].uploaded
    BY <1>2, ItemFacts DEF Begun
  <2>2. shown[i].state # "absent"
    BY <1>2, ItemFacts DEF Uploads
  <2>3. QED BY <1>2, <1>6, <1>7, <2>1, <2>2, ItemFacts DEF Begun, OnPage
<1>14. QED
  BY <1>1, <1>2, <1>3, <1>5, <1>8, <1>9, <1>10, <1>11, <1>12, <1>13, ItemFacts, ServerStep DEF Typed

LEMMA LostStep ==
  ASSUME IInv, NEW i \in Item, NEW k \in Kind, ServePoll(i) \/ Refuse(i, k)
  PROVE  IInv'
<1>1. PICK l \in Kind, answer \in Where \ {"idle"} :
        /\ net[i][l] # "idle" /\ Answer(i, l, answer) /\ OnlyServer /\ UNCHANGED server
        /\ answer = "refused" \/ l = "poll"
  <2>1. CASE ServePoll(i)
    <3>1. net[i].poll # "idle" /\ Answer(i, "poll", job[i]) /\ OnlyServer /\ UNCHANGED server
      BY <2>1 DEF ServePoll
    <3>2. job[i] \in Where \ {"idle"} /\ "poll" \in Kind
      BY <2>1, Kinds DEF ServePoll, Started, Where
    <3>3. QED BY <3>1, <3>2
  <2>2. CASE Refuse(i, k)
    <3>1. net[i][k] # "idle" /\ Answer(i, k, "refused") /\ OnlyServer /\ UNCHANGED server
      BY <2>2 DEF Refuse, Under
    <3>2. QED BY <3>1 DEF Where
  <2>3. QED BY <2>1, <2>2
<1>2. UNCHANGED <<shown, batchId, promise, register, lost, cut, manifest, latest, job>>
  BY <1>1 DEF OnlyServer, batch, server, handlers
<1>3. net'[i][l] = answer /\ \A m \in Kind \ {l} : net'[i][m] = net[i][m]
  BY <1>1, ItemFacts, Answers
<1>4. \A m \in Queued : net'[i][m] = net[i][m] \/ (net'[i][m] = "refused" /\ net[i][m] # "idle")
  BY <1>1, <1>3, Kinds DEF Queued
<1>5. Uploads(i)'
  <2>1. shown[i].state # "absent"
    BY <1>1, ItemFacts DEF Uploads
  <2>2. QED BY <1>2, <1>4, <2>1, ItemFacts DEF Uploads, Queued
<1>6. Registers(i)'
  <2>1. /\ net'[i].register = net[i].register \/ (net'[i].register = "refused" /\ net[i].register # "idle")
        /\ net'[i].start = net[i].start \/ (net'[i].start = "refused" /\ net[i].start # "idle")
    BY <1>4 DEF Queued
  <2>2. QED BY <1>2, <2>1, ItemFacts DEF Registers, OnPage
<1>7. Found(i)'
  BY <1>2, ItemFacts DEF Found, Started, OnPage
<1>8. register' \in [Item -> Registration] /\ job' \in [Item -> {"none", "stored", "running", "settled"}]
  BY <1>2, ItemFacts DEF Typed
<1>9. Begun(i)'
  <2>1. \A m \in Queued : net'[i][m] = "idle" <=> net[i][m] = "idle"
    BY <1>4
  <2>2. QED BY <1>2, <2>1, ItemFacts DEF Begun, Queued, OnPage, Started
<1>10. QED BY <1>1, <1>2, <1>5, <1>6, <1>7, <1>8, <1>9, ItemFacts, ServerStep DEF Typed

\* The page gives a request up, and its handler goes on alone.
LEMMA LoseStep ==
  ASSUME IInv, NEW i \in Item, NEW k \in Kind, Lose(i, k)
  PROVE  IInv'
<1> DEFINE at == IF k = "start" THEN "start" ELSE net[i][k]
<1>1. /\ k \in {"register", "start"} /\ net[i][k] \in {"sent", "loaded", "written"}
      /\ Answer(i, k, "refused") /\ OnlyServer /\ lost' = [lost EXCEPT ![i] = at]
      /\ cut' = IF k = "register" /\ net[i][k] # "written" THEN cut \cup {register[i].batch} ELSE cut
      /\ UNCHANGED <<register, manifest, latest, job>>
  BY DEF Lose, Under
<1>2. UNCHANGED <<shown, batchId, promise>>
  BY <1>1 DEF OnlyServer, batch
<1>3. "refused" \in Where \ {"idle"} /\ net[i][k] # "idle" /\ Queued \subseteq Kind
  BY <1>1, Kinds DEF Where
<1>4. /\ net'[i][k] = "refused" /\ \A m \in Kind \ {k} : net'[i][m] = net[i][m]
  BY <1>1, <1>3, ItemFacts, Answers
<1>5. /\ at \in {"sent", "loaded", "written", "start"}
      /\ k = "start" => at = "start"
      /\ k = "register" => at = net[i].register
  BY <1>1
<1> HIDE DEF at
<1>6. /\ lost' \in [Item -> {"none", "sent", "loaded", "written", "start"}] /\ lost'[i] = at
      /\ \A j \in Item \ {i} : lost'[j] = lost[j]
  BY <1>1, <1>5, ItemFacts DEF Typed
<1>7. register[i].batch \in DOMAIN manifest /\ DOMAIN manifest \subseteq Batch /\ cut \subseteq Batch
  BY <1>1, ItemFacts DEF Registers, Typed
<1>8. /\ cut \subseteq cut' /\ cut' \subseteq Batch
      /\ at \in {"sent", "loaded"} => register[i].batch \in cut'
  BY <1>1, <1>5, <1>7
<1>9. \A m \in Queued : /\ net'[i][m] = "idle" <=> net[i][m] = "idle"
                        /\ net'[i][m] = net[i][m] \/ net'[i][m] = "refused"
  BY <1>3, <1>4
<1>10. Uploads(i)'
  <2>1. shown[i].state # "absent" /\ net'[i].upload = net[i].upload
    BY <1>1, <1>3, <1>4, ItemFacts DEF Uploads, Queued
  <2>2. QED BY <1>1, <1>2, <2>1, ItemFacts DEF Uploads
<1>11. shown[i].state # "absent" /\ (OnPage(i) => shown[i].uploaded)
  BY <1>1, <1>3, ItemFacts DEF Uploads, Begun
<1>12. Begun(i)'
  BY <1>1, <1>2, <1>9, <1>11, ItemFacts DEF Begun, Queued, OnPage
<1>13. Registers(i)'
  <2>1. /\ net'[i].register = net[i].register \/ (net'[i].register = "refused" /\ net[i].register # "idle")
        /\ net'[i].start # "idle" <=> net[i].start # "idle"
    BY <1>9 DEF Queued
  <2>2. OnPage(i) => register[i].batch = batchId
    BY <1>1, <1>3, ItemFacts DEF Registers
  <2>3. at \in {"written", "start"} =>
          /\ manifest[register[i].batch] # {}
          /\ register[i].batch \notin cut => i \in manifest[register[i].batch]
    BY <1>1, <1>5, ItemFacts DEF Registers
  <2>4. QED BY <1>1, <1>2, <1>6, <1>7, <1>8, <2>1, <2>2, <2>3, ItemFacts DEF Registers, OnPage
<1>14. Found(i)'
  BY <1>1, <1>2, <1>8, ItemFacts DEF Found, Started, OnPage
<1>15. register' \in [Item -> Registration] /\ job' \in [Item -> {"none", "stored", "running", "settled"}]
  BY <1>1, ItemFacts DEF Typed
<1>16. QED BY <1>1, <1>3, <1>6, <1>8, <1>10, <1>12, <1>13, <1>14, <1>15, ServerStep

\* The pipeline moves on its own.
LEMMA MovesStep == ASSUME IInv, NEW i \in Item, Moves(i) PROVE IInv'
<1>1. /\ Started(i) /\ UNCHANGED <<shown, activeId, actionId, batchId, promise>>
      /\ UNCHANGED <<net, register, lost, cut, manifest, latest>>
      /\ job' = [job EXCEPT ![i] = IF job[i] = "running" THEN "settled" ELSE "running"]
  BY DEF Moves, OnlyServer, batch, handlers
<1>2. PICK now \in {"running", "settled"} : job' = [job EXCEPT ![i] = now]
  BY <1>1
<1>3. /\ job' \in [Item -> {"none", "stored", "running", "settled"}] /\ job'[i] = now
      /\ \A j \in Item \ {i} : job'[j] = job[j]
  BY <1>2, ItemFacts DEF Typed
<1>4. Typed' /\ Touches(i)
  BY <1>1, <1>3, ItemFacts DEF Typed, Touches
<1>5. Uploads(i)'
  BY <1>1, <1>3, ItemFacts DEF Uploads, Started
<1>6. Registers(i)' /\ Remembered(i)'
  BY <1>1, ItemFacts DEF Registers, Remembered, OnPage
<1>7. Found(i)' /\ Begun(i)'
  BY <1>1, ItemFacts DEF Found, Begun, OnPage
<1>8. (OnPage(i)' <=> OnPage(i)) /\ (activeId = i => OnPage(i))
  BY <1>1, IntakePageAssumption DEF IInv, QueueOK, OnPage
<1>9. OnPage(i) => \A l \in Queued : net[i][l] # "idle" =>
                     activeId = i /\ \A m \in Queued \ {l} : net[i][m] = "idle"
  BY DEF IInv, QueueOK
<1>10. QED BY <1>1, <1>4, <1>5, <1>6, <1>7, <1>8, <1>9, ItemFacts, ItemStep

-----------------------------------------------------------------------------
(* A registration is written, by a handler that is heard or by one that is not. *)

\* What was loaded is still what the batch holds, unless the batch was cut off.
LEMMA WriteStep ==
  ASSUME IInv, NEW i \in Item, WriteManifest(i), OnlyServer,
         UNCHANGED <<register, cut, latest, job>>,
         \/ net[i].register = "loaded" /\ Answer(i, "register", "written") /\ UNCHANGED lost
         \/ lost[i] = "loaded" /\ Late(i, "written") /\ UNCHANGED net
  PROVE  /\ IInv'
         /\ DOMAIN manifest' = DOMAIN manifest
         /\ \A c \in DOMAIN manifest \ cut : manifest[c] \subseteq manifest'[c]
<1> DEFINE b == register[i].batch
<1>1. UNCHANGED <<shown, activeId, actionId, batchId, promise>>
  BY DEF OnlyServer, batch
<1>2. "register" \in Kind /\ "written" \in Where \ {"idle"} /\ Queued \subseteq Kind
  BY Kinds DEF Queued, Where
<1>3. /\ net' \in [Item -> [Kind -> Where]]
      /\ \A j \in Item : \A l \in Kind \ {"register"} : net'[j][l] = net[j][l]
      /\ \A j \in Item : \/ net'[j].register = net[j].register
                         \/ j = i /\ net[j].register = "loaded" /\ net'[j].register = "written"
  <2>1. CASE net[i].register = "loaded" /\ Answer(i, "register", "written")
    <3>1. /\ net' \in [Item -> [Kind -> Where]] /\ net'[i].register = "written"
          /\ \A l \in Kind \ {"register"} : net'[i][l] = net[i][l]
          /\ \A j \in Item \ {i} : net'[j] = net[j]
      BY <1>2, <2>1, ItemFacts, Answers
    <3>2. QED BY <2>1, <3>1
  <2>2. CASE UNCHANGED net
    BY <2>2, ItemFacts DEF Typed
  <2>3. QED BY <2>1, <2>2
<1>4. /\ lost' \in [Item -> {"none", "sent", "loaded", "written", "start"}]
      /\ \A j \in Item : \/ lost'[j] = lost[j]
                         \/ j = i /\ lost[j] = "loaded" /\ lost'[j] = "written"
  BY ItemFacts DEF Typed, Late
<1>5. /\ b \in DOMAIN manifest /\ register[i].jobs \subseteq Item
      /\ b \notin cut => register[i].jobs = manifest[b]
  BY ItemFacts DEF Registers, Registration
<1>6. /\ DOMAIN manifest' = DOMAIN manifest /\ manifest'[b] = register[i].jobs \cup {i}
      /\ \A c \in DOMAIN manifest \ {b} : manifest'[c] = manifest[c]
      /\ manifest' \in [DOMAIN manifest' -> SUBSET Item]
  BY <1>5, ItemFacts DEF Typed, WriteManifest
<1> HIDE DEF b
<1>7. /\ \A c \in DOMAIN manifest \ cut : manifest[c] \subseteq manifest'[c]
      /\ \A c \in DOMAIN manifest : manifest[c] # {} => manifest'[c] # {}
  BY <1>5, <1>6
<1>8. Typed'
  BY <1>1, <1>3, <1>4, <1>6, ItemFacts DEF Typed
<1>9. \A j \in Item : (OnPage(j)' <=> OnPage(j)) /\ (Started(j)' <=> Started(j))
  BY <1>1 DEF OnPage, Started
<1>10. \A j \in Item, l \in Kind : net'[j][l] # "idle" <=> net[j][l] # "idle"
  BY <1>2, <1>3
<1>11. QueueOK'
  <2>1. (activeId # None => OnPage(activeId))'
    BY <1>1 DEF IInv, QueueOK, OnPage
  <2>2. QED BY <1>1, <1>9, <1>10, <2>1, Kinds DEF IInv, QueueOK
<1>12. BatchesOK'
  BY <1>1, <1>6, <1>7, <1>9 DEF IInv, BatchesOK
<1>13. Alone'
  BY <1>2, <1>10 DEF IInv, Alone
<1>14. ASSUME NEW j \in Item PROVE Registers(j)'
  <2>1. Registers(j) /\ register' = register /\ cut' = cut
    BY ItemFacts
  <2>2. /\ net'[j].start = net[j].start
        /\ net'[j].register # "idle" <=> net[j].register # "idle"
        /\ lost'[j] # "none" <=> lost[j] # "none"
    BY <1>2, <1>3, <1>4, <1>10 DEF Queued
  <2>3. /\ net'[j].register \in {"idle", "sent", "loaded", "written", "refused", "ok"}
        /\ lost'[j] \in {"sent", "loaded"} => register[j].batch \in cut
    BY <1>3, <1>4, <2>1 DEF Registers
  <2>4. /\ net'[j].register # "idle" \/ net'[j].start # "idle" \/ lost'[j] # "none" =>
             register[j].batch \in DOMAIN manifest /\ (OnPage(j) => register[j].batch = batchId)
        /\ net'[j].register # "idle" /\ ~OnPage(j) => register[j].batch \notin {batchId, promise}
    BY <2>1, <2>2 DEF Registers
  <2>5. ASSUME net'[j].register = "loaded", register[j].batch \notin cut
        PROVE  register[j].jobs = manifest'[register[j].batch]
    <3>1. net[j].register = "loaded" /\ register[j].batch \in DOMAIN manifest
      BY <1>3, <2>4, <2>5
    <3>2. CASE register[j].batch # b
      BY <1>6, <2>1, <2>5, <3>1, <3>2 DEF Registers
    <3>3. CASE register[j].batch = b
      <4>1. j # i \/ net'[i].register # "written"
        BY <2>5
      <4>2. net[i].register = "loaded" \/ lost[i] = "loaded"
        OBVIOUS
      <4>3. lost[i] # "loaded"
        BY <2>5, <3>3, ItemFacts DEF Registers, b
      <4>4. net[i].register = "loaded" /\ net'[i].register = "written"
        BY <1>2, <4>3, ItemFacts, Answers
      <4>5. j # i
        BY <4>1, <4>4
      <4>6. register[j].batch # register[i].batch
        BY <3>1, <4>4, <4>5 DEF IInv, Alone
      <4>7. QED BY <3>3, <4>6 DEF b
    <3>4. QED BY <3>2, <3>3
  <2>6. ASSUME net'[j].register \in {"written", "ok"} \/ net'[j].start # "idle"
                 \/ lost'[j] \in {"written", "start"}
        PROVE  /\ manifest'[register[j].batch] # {}
               /\ register[j].batch \notin cut => j \in manifest'[register[j].batch]
    <3>1. register[j].batch \in DOMAIN manifest
      BY <2>2, <2>4, <2>6
    <3>2. CASE j = i
      <4>1. i \in manifest'[b] /\ b = register[j].batch
        BY <1>6, <3>2 DEF b
      <4>2. QED BY <3>2, <4>1
    <3>3. CASE j # i
      <4>1. net'[j].register = net[j].register /\ lost'[j] = lost[j]
        BY <1>3, <1>4, <3>3
      <4>2. /\ manifest[register[j].batch] # {}
            /\ register[j].batch \notin cut => j \in manifest[register[j].batch]
        BY <2>1, <2>2, <2>6, <4>1 DEF Registers
      <4>3. QED BY <1>7, <3>1, <4>2
    <3>4. QED BY <3>2, <3>3
  <2>7. QED BY <1>1, <1>6, <1>9, <2>1, <2>3, <2>4, <2>5, <2>6 DEF Registers
<1>15. ASSUME NEW j \in Item PROVE Uploads(j)' /\ Begun(j)' /\ Found(j)' /\ Remembered(j)'
  <2>1. Uploads(j) /\ Begun(j) /\ Found(j) /\ Remembered(j)
    BY ItemFacts
  <2>2. net'[j].upload = net[j].upload
    BY <1>3, Kinds DEF Queued
  <2>3. Uploads(j)'
    BY <1>1, <1>10, <2>1, <2>2 DEF Uploads
  <2>4. Begun(j)'
    BY <1>1, <1>2, <1>4, <1>9, <1>10, <2>1 DEF Begun, Queued
  <2>5. Found(j)'
    BY <1>1, <1>6, <1>7, <1>9, <2>1 DEF Found
  <2>6. Remembered(j)'
    BY <1>1, <1>10, <2>1, StillRemembered
  <2>7. QED BY <2>3, <2>4, <2>5, <2>6
<1>16. QED BY <1>6, <1>7, <1>8, <1>11, <1>12, <1>13, <1>14, <1>15 DEF IInv

\* The pointer to the latest batch follows, when the batch holds a job.
LEMMA PointStep ==
  ASSUME IInv, NEW i \in Item, latest' = register[i].batch, OnlyServer,
         UNCHANGED <<register, cut, manifest, job>>,
         \/ net[i].register = "written" /\ Answer(i, "register", "ok") /\ UNCHANGED lost
         \/ lost[i] = "written" /\ Late(i, "none") /\ UNCHANGED net
  PROVE  IInv'
<1>1. UNCHANGED <<shown, activeId, actionId, batchId, promise>>
  BY DEF OnlyServer, batch
<1>2. "register" \in Kind /\ "ok" \in Where \ {"idle"} /\ Queued \subseteq Kind
  BY Kinds DEF Queued, Where
<1>3. /\ net' \in [Item -> [Kind -> Where]]
      /\ \A j \in Item : \A l \in Kind \ {"register"} : net'[j][l] = net[j][l]
      /\ \A j \in Item : \/ net'[j].register = net[j].register
                         \/ net[j].register = "written" /\ net'[j].register = "ok"
  <2>1. CASE net[i].register = "written" /\ Answer(i, "register", "ok")
    <3>1. /\ net' \in [Item -> [Kind -> Where]] /\ net'[i].register = "ok"
          /\ \A l \in Kind \ {"register"} : net'[i][l] = net[i][l]
          /\ \A j \in Item \ {i} : net'[j] = net[j]
      BY <1>2, <2>1, ItemFacts, Answers
    <3>2. QED BY <2>1, <3>1
  <2>2. CASE UNCHANGED net
    BY <2>2, ItemFacts DEF Typed
  <2>3. QED BY <2>1, <2>2
<1>4. /\ lost' \in [Item -> {"none", "sent", "loaded", "written", "start"}]
      /\ \A j \in Item : lost'[j] = lost[j] \/ lost'[j] = "none"
  BY ItemFacts DEF Typed, Late
<1>5. register[i].batch \in DOMAIN manifest /\ manifest[register[i].batch] # {}
  BY ItemFacts DEF Registers
<1>6. Typed'
  BY <1>1, <1>3, <1>4, <1>5, ItemFacts DEF Typed
<1>7. \A j \in Item : (OnPage(j)' <=> OnPage(j)) /\ (Started(j)' <=> Started(j))
  BY <1>1 DEF OnPage, Started
<1>8. \A j \in Item, l \in Kind : net'[j][l] # "idle" <=> net[j][l] # "idle"
  BY <1>2, <1>3
<1>9. QueueOK'
  <2>1. (activeId # None => OnPage(activeId))'
    BY <1>1 DEF IInv, QueueOK, OnPage
  <2>2. QED BY <1>1, <1>7, <1>8, <2>1, Kinds DEF IInv, QueueOK
<1>10. BatchesOK'
  BY <1>1, <1>5, <1>7 DEF IInv, BatchesOK
<1>11. Alone'
  BY <1>2, <1>8 DEF IInv, Alone
<1>12. ASSUME NEW j \in Item PROVE Registers(j)'
  <2>1. net'[j].start = net[j].start
    BY <1>3, Kinds DEF Queued
  <2>2. net'[j].register = net[j].register \/ (net'[j].register = "ok" /\ net[j].register = "written")
    BY <1>3
  <2>3. lost'[j] = lost[j] \/ lost'[j] = "none"
    BY <1>4
  <2>4. Registers(j)
    BY ItemFacts
  <2>5. QED BY <1>1, <1>7, <2>1, <2>2, <2>3, <2>4 DEF Registers
<1>13. ASSUME NEW j \in Item PROVE Uploads(j)' /\ Begun(j)' /\ Found(j)' /\ Remembered(j)'
  <2>1. Uploads(j) /\ Begun(j) /\ Found(j) /\ Remembered(j)
    BY ItemFacts
  <2>2. net'[j].upload = net[j].upload
    BY <1>3, Kinds DEF Queued
  <2>3. Uploads(j)'
    BY <1>1, <1>8, <2>1, <2>2 DEF Uploads
  <2>4. Begun(j)'
    BY <1>1, <1>2, <1>4, <1>7, <1>8, <2>1 DEF Begun, Queued
  <2>5. Found(j)'
    BY <1>1, <1>7, <2>1 DEF Found
  <2>6. Remembered(j)'
    BY <1>1, <1>8, <2>1, StillRemembered
  <2>7. QED BY <2>3, <2>4, <2>5, <2>6
<1>14. QED BY <1>6, <1>9, <1>10, <1>11, <1>12, <1>13 DEF IInv

\* A handler that nobody hears any more.
LEMMA LateStep == ASSUME IInv, NEW i \in Item, GoesOn(i) PROVE IInv'
<1>1. UNCHANGED <<shown, activeId, actionId, batchId, promise, net, cut>> /\ OnlyServer
  BY DEF GoesOn, OnlyLate, OnlyServer, batch
<1>2. CASE lost[i] = "loaded"
  BY <1>1, <1>2, WriteStep DEF GoesOn
<1>3. CASE lost[i] = "written"
  BY <1>1, <1>3, PointStep DEF GoesOn
<1>4. CASE lost[i] \in {"sent", "start"}
  <2>1. /\ lost[i] # "none" /\ lost[i] # "written" /\ shown[i].state # "absent"
        /\ register[i].batch \in DOMAIN manifest
        /\ OnPage(i) => shown[i].uploaded /\ register[i].batch = batchId
    BY <1>4, ItemFacts DEF Begun, Registers
  <2>2. /\ UNCHANGED <<manifest, latest>>
        /\ \/ /\ lost[i] = "sent" /\ job' = job /\ Late(i, "loaded")
              /\ register' = [register EXCEPT ![i].jobs = manifest[register[i].batch]]
           \/ /\ lost[i] = "start" /\ register' = register /\ Late(i, "none")
              /\ \E now \in {"running", "settled"} : job' = [job EXCEPT ![i] = now]
    BY <1>4 DEF GoesOn, LoadManifest
  <2>3. manifest[register[i].batch] \in SUBSET Item
    BY <2>1, ItemFacts DEF Typed
  <2>4. /\ register' \in [Item -> Registration] /\ register'[i].batch = register[i].batch
        /\ \A j \in Item \ {i} : register'[j] = register[j]
    <3>1. register \in [Item -> Registration]
      BY ItemFacts DEF Typed
    <3>2. CASE register' = register
      BY <3>1, <3>2
    <3>3. ASSUME NEW jobs \in SUBSET Item, register' = [register EXCEPT ![i].jobs = jobs]
          PROVE  /\ register' \in [Item -> Registration] /\ register'[i].batch = register[i].batch
                 /\ \A j \in Item \ {i} : register'[j] = register[j]
      BY <3>1, <3>3 DEF Registration
    <3>4. QED BY <2>2, <2>3, <3>2, <3>3
  <2>5. /\ job' \in [Item -> {"none", "stored", "running", "settled"}]
        /\ \A j \in Item \ {i} : job'[j] = job[j]
        /\ job'[i] = job[i] \/ job'[i] # "none"
    BY <2>2, ItemFacts DEF Typed
  <2>6. /\ lost' \in [Item -> {"none", "sent", "loaded", "written", "start"}]
        /\ lost'[i] \in {"none", "loaded"} /\ (lost'[i] = "loaded" => lost[i] = "sent")
        /\ \A j \in Item \ {i} : lost'[j] = lost[j]
    BY <2>2, ItemFacts DEF Typed, Late
  <2>7. Typed' /\ Touches(i)
    BY <1>1, <2>2, <2>4, <2>5, <2>6, ItemFacts DEF Typed, Touches
  <2>8. (OnPage(i)' <=> OnPage(i)) /\ (activeId = i => OnPage(i))
    BY <1>1, IntakePageAssumption DEF IInv, QueueOK, OnPage
  <2>9. Uploads(i)' /\ Remembered(i)'
    BY <1>1, <2>1, <2>5, ItemFacts DEF Uploads, Remembered
  <2>10. Begun(i)'
    BY <1>1, <2>1, <2>8, ItemFacts DEF Begun
  <2>11. Registers(i)'
    <3>1. lost[i] = "sent" => register[i].batch \in cut
      BY ItemFacts DEF Registers
    <3>2. lost[i] # "sent" => register' = register
      BY <2>2
    <3>3. QED BY <1>1, <2>1, <2>2, <2>4, <2>6, <2>8, <3>1, <3>2, ItemFacts DEF Registers
  <2>12. Found(i)'
    <3>1. lost[i] = "sent" => register[i].batch \in cut
      BY ItemFacts DEF Registers
    <3>2. lost[i] = "start" /\ register[i].batch \notin cut => i \in manifest[register[i].batch]
      BY ItemFacts DEF Registers
    <3>3. QED BY <1>1, <1>4, <2>1, <2>2, <2>4, <2>8, <3>1, <3>2 DEF Found
  <2>13. OnPage(i) => \A l \in Queued : net[i][l] # "idle" =>
                       activeId = i /\ \A m \in Queued \ {l} : net[i][m] = "idle"
    BY DEF IInv, QueueOK
  <2>14. QED
    BY <1>1, <2>4, <2>7, <2>8, <2>9, <2>10, <2>11, <2>12, <2>13, ItemFacts, ItemStep
<1>5. QED BY <1>2, <1>3, <1>4 DEF GoesOn

LEMMA ServeStep ==
  ASSUME IInv, NEW i \in Item, NEW k \in Kind, Serve(i, k)
  PROVE  IInv'
<1>1. CASE StoreUpload(i)
  BY <1>1, StoreStep
<1>2. CASE RegisterLoad(i)
  BY <1>2, LoadStep
<1>3. CASE RegisterPersist(i)
  BY <1>3, WriteStep, PointStep DEF RegisterPersist, handlers
<1>4. CASE ServePoll(i) \/ Refuse(i, k)
  BY <1>4, LostStep
<1>5. CASE ServePipeline(i, k)
  BY <1>5, PipelineStep
<1>6. CASE Lose(i, k)
  BY <1>6, LoseStep
<1>7. QED BY <1>1, <1>2, <1>3, <1>4, <1>5, <1>6 DEF Serve

-----------------------------------------------------------------------------
(* Steps of the page.                                                      *)

\* Most steps about an item of the page register nothing: an answer is taken, or a
\* request of another kind is sent.
LEMMA PageStep ==
  ASSUME IInv, NEW i \in Item, OnPage(i), Touches(i), Typed', UNCHANGED <<register, job, lost, cut>>,
         \A k \in Queued : net'[i][k] \in {net[i][k], "idle"},
         shown'[i].state # "absent",
         \/ shown'[i].uploaded = shown[i].uploaded
         \/ ~shown'[i].uploaded /\ ~OnPage(i)',
         shown'[i].state = "queued" => ~shown'[i].uploaded \/ shown'[i] = shown[i],
         \/ activeId' = activeId
         \/ activeId = i /\ activeId' = None /\ \A k \in Queued : net'[i][k] = "idle",
         OnPage(i)' \/ (activeId # i /\ \A k \in Queued : net'[i][k] = "idle"),
         Remembered(i)'
  PROVE  IInv'
<1>1. UNCHANGED <<batchId, promise, manifest, latest>> /\ None \notin Item
  BY IntakePageAssumption DEF Touches
<1>2. /\ net'[i].upload \in {net[i].upload, "idle"} /\ net'[i].register \in {net[i].register, "idle"}
      /\ net'[i].start \in {net[i].start, "idle"}
  BY DEF Queued
<1>3. Uploads(i)'
  BY <1>2, ItemFacts DEF Uploads
<1>4. Registers(i)'
  <2>1. CASE OnPage(i)'
    BY <1>1, <1>2, <2>1, ItemFacts DEF Registers
  <2>2. CASE \A k \in Queued : net'[i][k] = "idle"
    <3>1. net'[i].register = "idle" /\ net'[i].start = "idle"
      BY <2>2 DEF Queued
    <3>2. lost'[i] = lost[i] /\ register'[i] = register[i] /\ cut' = cut
      OBVIOUS
    <3>3. QED BY <1>1, <3>1, <3>2, ItemFacts DEF Registers
  <2>3. QED BY <2>1, <2>2
<1>5. Found(i)'
  BY <1>1, ItemFacts DEF Found, Started
<1>6. OnPage(i)' => \A k \in Queued : net'[i][k] # "idle" =>
                      activeId' = i /\ \A l \in Queued \ {k} : net'[i][l] = "idle"
  <2>1. \A k \in Queued : net[i][k] # "idle" =>
          activeId = i /\ \A l \in Queued \ {k} : net[i][l] = "idle"
    BY DEF IInv, QueueOK
  <2>2. \A k \in Queued : net[i][k] = "idle" => net'[i][k] = "idle"
    OBVIOUS
  <2>3. QED BY <2>1, <2>2
<1>7. net'[i].register # "idle" => net[i].register # "idle"
  BY <1>2
<1>8. activeId' = i => OnPage(i)'
  BY <1>1
<1>9. Begun(i)'
  BY <1>2, ItemFacts DEF Begun, Started
<1>10. QED
  BY <1>1, <1>3, <1>4, <1>5, <1>6, <1>7, <1>8, <1>9, ItemFacts, ItemStep

\* What a step of the page leaves alone.
LEMMA PageFrame ==
  ASSUME Typed, NEW i \in Item, UNCHANGED <<batch, server>>,
         NEW x \in ItemState, shown' = [shown EXCEPT ![i] = x],
         net' \in [Item -> [Kind -> Where]], \A j \in Item \ {i} : net'[j] = net[j],
         activeId' \in Item \cup {None}, actionId' \in Item \cup {None}
  PROVE  Touches(i) /\ Typed' /\ shown'[i] = x /\ UNCHANGED <<register, job, lost, cut>>
BY DEF Typed, Touches, batch, server, handlers

LEMMA StartUploadStep == ASSUME IInv, NEW i \in Item, StartUpload(i) PROVE IInv'
<1> DEFINE x == [shown[i] EXCEPT !.state = "uploading"]
<1>1. /\ activeId = None /\ batchId # None /\ shown[i].state = "queued" /\ activeId' = i
      /\ shown' = [shown EXCEPT ![i].state = "uploading"] /\ Answer(i, "upload", "sent")
      /\ UNCHANGED <<actionId, batch, server>>
  BY DEF StartUpload, Answer
<1>2. "upload" \in Kind /\ "sent" \in Where
  BY Kinds DEF Queued, Where
<1>3. /\ net' \in [Item -> [Kind -> Where]] /\ net'[i].upload = "sent"
      /\ \A l \in Kind \ {"upload"} : net'[i][l] = net[i][l]
      /\ \A j \in Item \ {i} : net'[j] = net[j]
  BY <1>1, <1>2, ItemFacts, Answers
<1>4. x \in ItemState /\ x.state = "uploading" /\ x.uploaded = shown[i].uploaded
  BY ItemFacts DEF ItemState
<1>5. shown' = [shown EXCEPT ![i] = x]
  BY <1>1, ItemFacts DEF Typed
<1> HIDE DEF x
<1>6. Touches(i) /\ Typed' /\ shown'[i] = x /\ UNCHANGED <<register, job, lost, cut>>
  BY <1>1, <1>3, <1>4, <1>5, ItemFacts, PageFrame DEF Typed
<1>7. OnPage(i) /\ OnPage(i)'
  BY <1>1, <1>4, <1>6 DEF OnPage
<1>8. \A k \in Queued : net[i][k] = "idle"
  BY <1>1, <1>7, IntakePageAssumption DEF IInv, QueueOK
<1>9. net'[i].register = "idle" /\ net'[i].start = "idle" /\ net'[i].upload = "sent"
  BY <1>3, <1>8, Kinds DEF Queued
<1>10. Uploads(i)' /\ Registers(i)' /\ Begun(i)'
  BY <1>1, <1>4, <1>6, <1>7, <1>9, ItemFacts DEF Uploads, Registers, Begun, Touches, Started
<1>11. Found(i)'
  BY <1>6, <1>7, ItemFacts DEF Found, Started, Touches
<1>12. Remembered(i)'
  BY <1>4, <1>6, <1>9 DEF Remembered, Queued
<1>13. \A k \in Queued : net'[i][k] # "idle" =>
         activeId' = i /\ \A l \in Queued \ {k} : net'[i][l] = "idle"
  BY <1>1, <1>9 DEF Queued
<1>14. QED BY <1>1, <1>6, <1>7, <1>9, <1>10, <1>11, <1>12, <1>13, ItemFacts, ItemStep

\* The upload is answered: the item fails, or is registered with the page's batch.
LEMMA UploadStep == ASSUME IInv, NEW i \in Item, UploadArrives(i) PROVE IInv'
<1>1. /\ OnPage(i) /\ Arrives(i, "upload") /\ UNCHANGED <<actionId, batch, handlers, manifest, latest, job>>
  BY DEF UploadArrives
<1>2. Queued \subseteq Kind /\ {"idle", "sent"} \subseteq Where
  BY Kinds DEF Where
<1>3. /\ net[i].upload \in {"refused", "ok"} /\ activeId = i
      /\ net[i].register = "idle" /\ net[i].start = "idle"
  <2>1. net[i].upload \in {"refused", "ok"}
    BY <1>1, ItemFacts DEF Arrives, Uploads
  <2>2. activeId = i /\ \A l \in Queued \ {"upload"} : net[i][l] = "idle"
    BY <1>1, <2>1 DEF IInv, QueueOK, Queued
  <2>3. QED BY <2>1, <2>2 DEF Queued
<1>4. CASE net[i].upload = "refused"
  <2> DEFINE x == [shown[i] EXCEPT !.state = "error"]
  <2>1. /\ shown' = [shown EXCEPT ![i].state = "error"] /\ activeId' = None
        /\ Answer(i, "upload", "idle") /\ UNCHANGED register
    BY <1>4 DEF UploadArrives, Fails
  <2>2. x \in ItemState /\ x.state = "error" /\ x.uploaded = shown[i].uploaded
    BY ItemFacts DEF ItemState
  <2>3. shown' = [shown EXCEPT ![i] = x]
    BY <2>1, ItemFacts DEF Typed
  <2> HIDE DEF x
  <2>4. /\ net' \in [Item -> [Kind -> Where]] /\ net'[i].upload = "idle"
        /\ \A l \in Kind \ {"upload"} : net'[i][l] = net[i][l]
        /\ \A j \in Item \ {i} : net'[j] = net[j]
    BY <1>2, <2>1, ItemFacts, Answers DEF Queued
  <2>5. Touches(i) /\ Typed' /\ shown'[i] = x /\ UNCHANGED <<register, job, lost, cut>>
    BY <1>1, <2>1, <2>2, <2>3, <2>4, ItemFacts, PageFrame DEF Typed, server
  <2>6. \A k \in Queued : net'[i][k] = "idle"
    BY <1>2, <1>3, <2>4 DEF Queued
  <2>7. OnPage(i)' /\ Remembered(i)'
    BY <2>1, <2>2, <2>5, IntakePageAssumption DEF OnPage, Remembered
  <2>8. QED BY <1>1, <1>3, <2>1, <2>2, <2>5, <2>6, <2>7, PageStep
<1>5. CASE net[i].upload # "refused"
  <2> DEFINE x == [shown[i] EXCEPT !.state = "processing", !.uploaded = TRUE]
             r == [batch |-> batchId, jobs |-> {}]
  <2>1. /\ shown' = [shown EXCEPT ![i] = x] /\ register' = [register EXCEPT ![i] = r]
        /\ net' = [net EXCEPT ![i].upload = "idle", ![i].register = "sent"] /\ activeId' = activeId
    BY <1>5, ItemFacts DEF UploadArrives, Typed
  <2>2. x \in ItemState /\ x.state = "processing" /\ x.uploaded
    BY ItemFacts DEF ItemState
  <2>3. /\ net' \in [Item -> [Kind -> Where]]
        /\ net'[i].upload = "idle" /\ net'[i].register = "sent" /\ net'[i].start = "idle"
        /\ \A j \in Item \ {i} : net'[j] = net[j]
    BY <1>3, <2>1, ItemFacts DEF Typed, Where, Kind
  <2>4. r \in Registration /\ r.batch = batchId
    BY ItemFacts DEF Typed, Registration
  <2> HIDE DEF x, r
  <2>5. /\ Typed' /\ Touches(i) /\ shown'[i] = x /\ register'[i] = r
    BY <1>1, <2>1, <2>2, <2>3, <2>4, ItemFacts DEF Typed, Touches, batch, handlers
  <2>6. OnPage(i)' /\ batchId # None /\ batchId \in DOMAIN manifest
    BY <1>1, <2>2, <2>5 DEF OnPage, IInv, BatchesOK
  <2>7. UNCHANGED <<batchId, promise, manifest, latest, job, lost, cut>>
    BY <1>1 DEF batch, handlers
  <2>a. lost[i] = "none" /\ ~Started(i)
    BY <1>1, <1>3, ItemFacts DEF Begun
  <2>8. job[i] # "none"
    BY <1>3, <1>5, ItemFacts DEF Uploads
  <2>9. Uploads(i)'
    BY <2>2, <2>3, <2>5, <2>7, <2>8 DEF Uploads
  <2>10. Registers(i)'
    BY <2>3, <2>4, <2>5, <2>6, <2>7, <2>a DEF Registers
  <2>11. Found(i)' /\ Begun(i)'
    BY <2>2, <2>3, <2>5, <2>7, <2>a DEF Found, Begun, Started
  <2>12. Remembered(i)'
    BY <1>2, <2>2, <2>3, <2>5 DEF Remembered, Queued
  <2>13. \A k \in Queued : net'[i][k] # "idle" =>
           activeId' = i /\ \A l \in Queued \ {k} : net'[i][l] = "idle"
    BY <1>3, <2>1, <2>3 DEF Queued
  <2>14. QED
    BY <1>1, <1>3, <2>1, <2>4, <2>5, <2>6, <2>9, <2>10, <2>11, <2>12, <2>13, ItemStep
<1>6. QED BY <1>4, <1>5

\* The registration is answered: the item fails, or its pipeline is started.
LEMMA RegisterStep == ASSUME IInv, NEW i \in Item, RegisterArrives(i) PROVE IInv'
<1>1. /\ OnPage(i) /\ Arrives(i, "register") /\ UNCHANGED <<actionId, batch, server>>
  BY DEF RegisterArrives
<1>2. Queued \subseteq Kind /\ {"idle", "sent"} \subseteq Where
  BY Kinds DEF Where
<1>3. /\ net[i].register \in {"refused", "ok"} /\ activeId = i
      /\ net[i].upload = "idle" /\ net[i].start = "idle"
  <2>1. net[i].register \in {"refused", "ok"}
    BY <1>1, ItemFacts DEF Arrives, Registers
  <2>2. activeId = i /\ \A l \in Queued \ {"register"} : net[i][l] = "idle"
    BY <1>1, <2>1 DEF IInv, QueueOK, Queued
  <2>3. QED BY <2>1, <2>2 DEF Queued
<1>4. CASE net[i].register = "refused"
  <2> DEFINE x == [shown[i] EXCEPT !.state = "error"]
  <2>1. /\ shown' = [shown EXCEPT ![i].state = "error"] /\ activeId' = None
        /\ Answer(i, "register", "idle")
    BY <1>4 DEF RegisterArrives, Fails
  <2>2. x \in ItemState /\ x.state = "error" /\ x.uploaded = shown[i].uploaded
    BY ItemFacts DEF ItemState
  <2>3. shown' = [shown EXCEPT ![i] = x]
    BY <2>1, ItemFacts DEF Typed
  <2> HIDE DEF x
  <2>4. /\ net' \in [Item -> [Kind -> Where]] /\ net'[i].register = "idle"
        /\ \A l \in Kind \ {"register"} : net'[i][l] = net[i][l]
        /\ \A j \in Item \ {i} : net'[j] = net[j]
    BY <1>2, <2>1, ItemFacts, Answers DEF Queued
  <2>5. Touches(i) /\ Typed' /\ shown'[i] = x /\ UNCHANGED <<register, job, lost, cut>>
    BY <1>1, <2>1, <2>2, <2>3, <2>4, ItemFacts, PageFrame DEF Typed
  <2>6. \A k \in Queued : net'[i][k] = "idle"
    BY <1>2, <1>3, <2>4 DEF Queued
  <2>7. OnPage(i)' /\ Remembered(i)'
    BY <2>1, <2>2, <2>5, IntakePageAssumption DEF OnPage, Remembered
  <2>8. QED BY <1>1, <1>3, <2>1, <2>2, <2>5, <2>6, <2>7, PageStep
<1>5. CASE net[i].register # "refused"
  <2>1. /\ net' = [net EXCEPT ![i].register = "idle", ![i].start = "sent"]
        /\ UNCHANGED <<shown, activeId>>
    BY <1>5 DEF RegisterArrives
  <2>2. /\ net' \in [Item -> [Kind -> Where]]
        /\ net'[i].upload = "idle" /\ net'[i].register = "idle" /\ net'[i].start = "sent"
        /\ \A j \in Item \ {i} : net'[j] = net[j]
    BY <1>3, <2>1, ItemFacts DEF Typed, Where, Kind
  <2>3. UNCHANGED <<batchId, promise, register, manifest, latest, job, lost, cut>>
    BY <1>1 DEF batch, server, handlers
  <2>4. Typed' /\ Touches(i) /\ (OnPage(i)' <=> OnPage(i))
    BY <1>1, <2>1, <2>2, <2>3, ItemFacts DEF Typed, Touches, OnPage
  <2>5. /\ register[i].batch \in DOMAIN manifest /\ register[i].batch = batchId
        /\ manifest[register[i].batch] # {}
        /\ register[i].batch \notin cut => i \in manifest[register[i].batch]
    BY <1>1, <1>3, <1>5, ItemFacts DEF Registers
  <2>6. Uploads(i)'
    BY <1>3, <2>1, <2>2, <2>3, ItemFacts, <1>1 DEF Uploads, OnPage
  <2>7. Registers(i)'
    BY <1>1, <2>2, <2>3, <2>4, <2>5, ItemFacts DEF Registers
  <2>8. Found(i)' /\ Begun(i)'
    <3>1. OnPage(i) /\ shown[i].uploaded /\ shown[i].state # "absent"
      BY <1>1, <1>3, ItemFacts DEF Begun, OnPage
    <3>2. QED BY <2>1, <2>2, <2>3, <2>4, <3>1, ItemFacts DEF Found, Begun, Started
  <2>9. Remembered(i)'
    <3>1. shown[i].state # "uploading"
      BY <1>3, ItemFacts DEF Remembered
    <3>2. QED BY <1>2, <2>1, <2>2, <3>1 DEF Remembered, Queued
  <2>10. \A k \in Queued : net'[i][k] # "idle" =>
           activeId' = i /\ \A l \in Queued \ {k} : net'[i][l] = "idle"
    BY <1>3, <2>1, <2>2 DEF Queued
  <2>11. QED
    BY <1>1, <1>3, <2>1, <2>2, <2>4, <2>6, <2>7, <2>8, <2>9, <2>10, ItemFacts, ItemStep
<1>6. QED BY <1>4, <1>5

\* The states a report, an answer or a failure can give to an item.
Reported == {"processing", "waiting", "cancelled", "complete", "error"}

LEMMA Updates ==
  ASSUME IInv, NEW i \in Item, NEW answer, Update(i, answer)
  PROVE  \E x \in ItemState :
           /\ shown' = [shown EXCEPT ![i] = x] /\ x.state \in Reported
           /\ x.uploaded = shown[i].uploaded
           /\ answer # "running" => x.state # "processing"
<1>1. PICK status \in StatusOf(answer) :
        shown' = [shown EXCEPT ![i] = [@ EXCEPT !.state = StateOf(status), !.pipeline = status]]
  BY DEF Update
<1> DEFINE x == [shown[i] EXCEPT !.state = StateOf(status), !.pipeline = status]
<1>2. shown' = [shown EXCEPT ![i] = x]
  BY <1>1, ItemFacts DEF Typed
<1>3. status \in Settled \cup Unsettled /\ (answer # "running" => status \in Settled)
  BY IntakePageAssumption DEF StatusOf
<1>4. StateOf(status) \in Reported /\ (status \in Settled => StateOf(status) # "processing")
  BY DEF StateOf, Reported, Settled, Blocked
<1>5. /\ x \in ItemState /\ x.state = StateOf(status) /\ x.uploaded = shown[i].uploaded
  BY <1>3, <1>4, ItemFacts DEF ItemState, Reported
<1>6. QED BY <1>2, <1>3, <1>4, <1>5

\* An answer is shown: the item stays on the page, and a processing one is polled.
LEMMA ShowStep ==
  ASSUME IInv, NEW i \in Item, OnPage(i), UNCHANGED <<batch, server>>, actionId' \in Item \cup {None},
         NEW x \in ItemState, shown' = [shown EXCEPT ![i] = x],
         x.state \in Reported, x.uploaded = shown[i].uploaded,
         x.state = "processing" =>
           \E k \in {"register", "start", "poll", "retry"} : k \in Kind /\ net'[i][k] # "idle",
         net' \in [Item -> [Kind -> Where]], \A j \in Item \ {i} : net'[j] = net[j],
         \/ activeId' = activeId /\ \A k \in Queued : net'[i][k] = net[i][k]
         \/ activeId = i /\ activeId' = None /\ \A k \in Queued : net'[i][k] = "idle"
  PROVE  IInv'
<1>1. activeId' \in Item \cup {None}
  BY ItemFacts DEF Typed
<1>2. Touches(i) /\ Typed' /\ shown'[i] = x /\ UNCHANGED <<register, job, lost, cut>>
  BY <1>1, ItemFacts, PageFrame
<1>3. OnPage(i)'
  BY <1>2 DEF OnPage, Reported
<1>4. Remembered(i)'
  <2>1. activeId' = i => \E k \in Queued : net'[i][k] # "idle"
    BY IntakePageAssumption, ItemFacts DEF Remembered
  <2>2. QED BY <1>2, <2>1 DEF Remembered, Reported
<1>5. QED BY <1>2, <1>3, <1>4, PageStep DEF Reported

LEMMA StartStep == ASSUME IInv, NEW i \in Item, StartArrives(i) PROVE IInv'
<1>1. /\ OnPage(i) /\ net[i].start # "idle" /\ UNCHANGED <<actionId, batch, server>>
  BY DEF StartArrives, Arrives
<1>2. activeId = i /\ net[i].upload = "idle" /\ net[i].register = "idle"
  BY <1>1 DEF IInv, QueueOK, Queued
<1>3. actionId' \in Item \cup {None} /\ "start" \in Kind \ {"poll"} /\ "idle" \in Where
  BY <1>1, ItemFacts, Kinds DEF Typed, Queued, Where
<1>4. CASE net[i].start = "refused"
  <2> DEFINE x == [shown[i] EXCEPT !.state = "error"]
  <2>1. /\ shown' = [shown EXCEPT ![i].state = "error"] /\ activeId' = None
        /\ Answer(i, "start", "idle")
    BY <1>4 DEF StartArrives, Fails
  <2>2. x \in ItemState /\ x.state = "error" /\ x.uploaded = shown[i].uploaded
    BY ItemFacts DEF ItemState
  <2>3. shown' = [shown EXCEPT ![i] = x]
    BY <2>1, ItemFacts DEF Typed
  <2> HIDE DEF x
  <2>4. /\ net' \in [Item -> [Kind -> Where]] /\ net'[i].start = "idle"
        /\ \A l \in Kind \ {"start"} : net'[i][l] = net[i][l]
        /\ \A j \in Item \ {i} : net'[j] = net[j]
    BY <1>3, <2>1, ItemFacts, Answers
  <2>5. \A k \in Queued : net'[i][k] = "idle"
    BY <1>2, <2>4, Kinds DEF Queued
  <2>6. QED BY <1>1, <1>2, <1>3, <2>1, <2>2, <2>3, <2>4, <2>5, ShowStep DEF Reported
<1>5. CASE net[i].start # "refused"
  <2>1. Update(i, net[i].start) /\ Polling(i, "start") /\ activeId' = None
    BY <1>5 DEF StartArrives
  <2>2. /\ net' \in [Item -> [Kind -> Where]] /\ net'[i].poll # "idle" /\ net'[i].start = "idle"
        /\ \A l \in Kind \ {"start", "poll"} : net'[i][l] = net[i][l]
        /\ \A j \in Item \ {i} : net'[j] = net[j]
    BY <1>3, <2>1, ItemFacts, Polls
  <2>3. \A k \in Queued : net'[i][k] = "idle"
    BY <1>2, <2>2, Kinds DEF Queued
  <2>4. PICK x \in ItemState : /\ shown' = [shown EXCEPT ![i] = x] /\ x.state \in Reported
                               /\ x.uploaded = shown[i].uploaded
    BY <2>1, Updates
  <2>5. QED BY <1>1, <1>2, <1>3, <2>1, <2>2, <2>3, <2>4, ShowStep, Kinds
<1>6. QED BY <1>4, <1>5

LEMMA PollStep ==
  ASSUME IInv, NEW i \in Item, PollArrives(i) \/ PollAgain(i)
  PROVE  IInv'
<1>1. /\ OnPage(i) /\ net[i].poll # "idle" /\ UNCHANGED <<activeId, actionId, batch, server>>
  BY DEF PollArrives, PollAgain, Arrives
<1>2. "poll" \in Kind /\ {"idle", "timer", "sent"} \subseteq Where
      /\ actionId' \in Item \cup {None}
  BY <1>1, ItemFacts, Kinds DEF Where, Typed
<1>3. ASSUME NEW answer \in Where, Answer(i, "poll", answer)
      PROVE  /\ net' \in [Item -> [Kind -> Where]] /\ net'[i].poll = answer
             /\ \A k \in Queued : net'[i][k] = net[i][k]
             /\ \A l \in Kind \ {"poll"} : net'[i][l] = net[i][l]
             /\ \A j \in Item \ {i} : net'[j] = net[j]
  <2>1. "poll" \notin Queued /\ Queued \subseteq Kind
    BY Kinds DEF Queued
  <2>2. QED BY <1>2, <1>3, <2>1, ItemFacts, Answers
<1>4. CASE net[i].poll = "running" /\ Update(i, "running") /\ Answer(i, "poll", "timer")
  <2>1. PICK x \in ItemState : /\ shown' = [shown EXCEPT ![i] = x] /\ x.state \in Reported
                               /\ x.uploaded = shown[i].uploaded
    BY <1>4, Updates
  <2>2. net'[i].poll # "idle"
    BY <1>2, <1>3, <1>4
  <2>3. QED BY <1>1, <1>2, <1>3, <1>4, <2>1, <2>2, ShowStep
<1>5. CASE net[i].poll = "settled" /\ Update(i, "settled") /\ Answer(i, "poll", "idle")
  <2>1. PICK x \in ItemState : /\ shown' = [shown EXCEPT ![i] = x] /\ x.state \in Reported
                               /\ x.uploaded = shown[i].uploaded /\ x.state # "processing"
    BY <1>5, Updates
  <2>2. QED BY <1>1, <1>2, <1>3, <1>5, <2>1, ShowStep
<1>6. CASE Answer(i, "poll", "idle") /\ shown' = [shown EXCEPT ![i].state = "error"]
  <2> DEFINE x == [shown[i] EXCEPT !.state = "error"]
  <2>1. x \in ItemState /\ x.state = "error" /\ x.uploaded = shown[i].uploaded
    BY ItemFacts DEF ItemState
  <2>2. shown' = [shown EXCEPT ![i] = x]
    BY <1>6, ItemFacts DEF Typed
  <2> HIDE DEF x
  <2>3. QED BY <1>1, <1>2, <1>3, <1>6, <2>1, <2>2, ShowStep DEF Reported
<1>7. CASE PollAgain(i)
  <2>1. /\ net[i].poll = "timer" /\ Answer(i, "poll", "sent")
        /\ UNCHANGED <<shown, activeId, actionId, batch, server>>
    BY <1>7 DEF PollAgain
  <2>2. shown' = [shown EXCEPT ![i] = shown[i]]
    BY <2>1, ItemFacts DEF Typed
  <2>3. /\ net'[i].poll = "sent" /\ net' \in [Item -> [Kind -> Where]]
        /\ \A k \in Queued : net'[i][k] = net[i][k]
        /\ \A l \in Kind \ {"poll"} : net'[i][l] = net[i][l]
        /\ \A j \in Item \ {i} : net'[j] = net[j]
    BY <1>2, <1>3, <2>1
  <2>4. Touches(i) /\ Typed' /\ shown'[i] = shown[i] /\ UNCHANGED <<register, job, lost, cut>>
    BY <1>1, <1>2, <2>1, <2>2, <2>3, ItemFacts, PageFrame DEF Typed
  <2>5. OnPage(i)' /\ shown'[i].state # "absent"
    BY <1>1, <2>4 DEF OnPage
  <2>6. Remembered(i)'
    BY <1>1, <2>1, <2>3, <2>4, ItemFacts, StillRemembered
  <2>7. QED BY <1>1, <2>3, <2>4, <2>5, <2>6, PageStep
<1>8. QED BY <1>4, <1>5, <1>6, <1>7 DEF PollArrives

LEMMA PressStep ==
  ASSUME IInv, NEW i \in Item, NEW k \in Buttons, Press(i, k)
  PROVE  IInv'
<1>1. /\ OnPage(i) /\ net[i][k] = "idle" /\ actionId' = i /\ Answer(i, k, "sent")
      /\ shown' = IF k = "retry" THEN [shown EXCEPT ![i].state = "processing"] ELSE shown
      /\ UNCHANGED <<activeId, batch, server>>
  BY DEF Press
<1>2. k \in Kind /\ k \notin Queued /\ Queued \subseteq Kind /\ "sent" \in Where
  BY Kinds DEF Where
<1>3. /\ net' \in [Item -> [Kind -> Where]] /\ net'[i][k] = "sent"
      /\ \A l \in Queued : net'[i][l] = net[i][l]
      /\ \A l \in Kind : net[i][l] # "idle" => net'[i][l] # "idle"
      /\ \A j \in Item \ {i} : net'[j] = net[j]
  BY <1>1, <1>2, ItemFacts, Answers
<1>4. CASE k = "retry"
  <2> DEFINE x == [shown[i] EXCEPT !.state = "processing"]
  <2>1. x \in ItemState /\ x.state = "processing" /\ x.uploaded = shown[i].uploaded
    BY ItemFacts DEF ItemState
  <2>2. shown' = [shown EXCEPT ![i] = x]
    BY <1>1, <1>4, ItemFacts DEF Typed
  <2> HIDE DEF x
  <2>3. \E l \in {"register", "start", "poll", "retry"} : l \in Kind /\ net'[i][l] # "idle"
    BY <1>2, <1>3, <1>4
  <2>4. QED BY <1>1, <1>3, <2>1, <2>2, <2>3, ShowStep DEF Reported
<1>5. CASE k # "retry"
  <2>1. shown' = shown
    BY <1>1, <1>5
  <2>2. shown' = [shown EXCEPT ![i] = shown[i]]
    BY <2>1, ItemFacts DEF Typed
  <2>3. Touches(i) /\ Typed' /\ shown'[i] = shown[i] /\ UNCHANGED <<register, job, lost, cut>>
    BY <1>1, <1>3, <2>2, ItemFacts, PageFrame DEF Typed
  <2>4. OnPage(i)' /\ shown'[i].state # "absent"
    BY <1>1, <2>1 DEF OnPage
  <2>5. Remembered(i)'
    BY <1>1, <1>3, <2>1, ItemFacts, StillRemembered
  <2>6. QED BY <1>1, <1>3, <2>3, <2>4, <2>5, PageStep
<1>6. QED BY <1>4, <1>5

\* What a button was answered is shown, and the pipeline is polled from then on.
LEMMA ButtonStep ==
  ASSUME IInv, NEW i \in Item, NEW k \in Kind, ButtonArrives(i, k)
  PROVE  IInv'
<1>1. /\ OnPage(i) /\ k \in Buttons /\ net[i][k] # "idle" /\ actionId' = None
      /\ UNCHANGED <<activeId, batch, server>>
  BY DEF ButtonArrives, Arrives
<1>2. /\ k \in Kind \ {"poll"} /\ k \notin Queued /\ Queued \subseteq Kind \ {"poll"}
      /\ "idle" \in Where /\ "poll" \in Kind
  BY <1>1, Kinds DEF Where, Queued
<1>3. CASE net[i][k] # "refused"
  <2>1. Pressed(i, k) /\ Polling(i, k)
    BY <1>3 DEF ButtonArrives, Pressed
  <2>2. /\ net' \in [Item -> [Kind -> Where]] /\ net'[i].poll # "idle"
        /\ \A l \in Queued : net'[i][l] = net[i][l]
        /\ \A j \in Item \ {i} : net'[j] = net[j]
    BY <1>2, <2>1, ItemFacts, Polls
  <2>3. \E x \in ItemState : /\ shown' = [shown EXCEPT ![i] = x] /\ x.state \in Reported
                             /\ x.uploaded = shown[i].uploaded
    <3>1. CASE k = "retry"
      BY <2>1, <3>1, Updates DEF Pressed
    <3>2. CASE k = "cancel"
      <4> DEFINE x == [shown[i] EXCEPT !.state = "processing"]
      <4>1. x \in ItemState /\ x.state = "processing" /\ x.uploaded = shown[i].uploaded
        BY ItemFacts DEF ItemState
      <4>2. shown' = [shown EXCEPT ![i] = x]
        BY <2>1, <3>2, ItemFacts DEF Typed, Pressed
      <4>3. QED BY <4>1, <4>2 DEF Reported
    <3>3. CASE k \notin {"retry", "cancel"}
      <4>1. PICK status \in StatusOf(net[i][k]) :
              shown' = [shown EXCEPT ![i] = [@ EXCEPT !.state = "processing", !.pipeline = status]]
        BY <2>1, <3>3 DEF Pressed
      <4> DEFINE x == [shown[i] EXCEPT !.state = "processing", !.pipeline = status]
      <4>2. status \in Settled \cup Unsettled
        BY IntakePageAssumption DEF StatusOf
      <4>3. x \in ItemState /\ x.state = "processing" /\ x.uploaded = shown[i].uploaded
        BY <4>2, ItemFacts DEF ItemState
      <4>4. shown' = [shown EXCEPT ![i] = x]
        BY <4>1, ItemFacts DEF Typed
      <4>5. QED BY <4>3, <4>4 DEF Reported
    <3>4. QED BY <3>1, <3>2, <3>3
  <2>4. QED BY <1>1, <1>2, <2>2, <2>3, ShowStep
<1>4. CASE net[i][k] = "refused"
  <2>1. /\ shown' = IF k = "retry" THEN [shown EXCEPT ![i].state = "error"] ELSE shown
        /\ Answer(i, k, "idle")
    BY <1>4 DEF ButtonArrives
  <2>2. /\ net' \in [Item -> [Kind -> Where]]
        /\ \A l \in Kind \ {k} : net'[i][l] = net[i][l]
        /\ \A l \in Queued : net'[i][l] = net[i][l]
        /\ \A j \in Item \ {i} : net'[j] = net[j]
    BY <1>2, <2>1, ItemFacts, Answers
  <2>3. CASE k = "retry"
    <3> DEFINE x == [shown[i] EXCEPT !.state = "error"]
    <3>1. x \in ItemState /\ x.state = "error" /\ x.uploaded = shown[i].uploaded
      BY ItemFacts DEF ItemState
    <3>2. shown' = [shown EXCEPT ![i] = x]
      BY <2>1, <2>3, ItemFacts DEF Typed
    <3> HIDE DEF x
    <3>3. QED BY <1>1, <2>2, <3>1, <3>2, ShowStep DEF Reported
  <2>4. CASE k # "retry"
    <3>1. shown' = shown
      BY <2>1, <2>4
    <3>2. shown' = [shown EXCEPT ![i] = shown[i]]
      BY <3>1, ItemFacts DEF Typed
    <3>3. Touches(i) /\ Typed' /\ shown'[i] = shown[i] /\ UNCHANGED <<register, job, lost, cut>>
      BY <1>1, <2>2, <3>2, ItemFacts, PageFrame DEF Typed
    <3>4. OnPage(i)' /\ shown'[i].state # "absent"
      BY <1>1, <3>1 DEF OnPage
    <3>5. Remembered(i)'
      <4>1. shown[i].state = "processing" =>
              \E l \in {"register", "start", "poll", "retry"} : l \in Kind /\ net'[i][l] # "idle"
        <5>1. k \notin {"register", "start", "poll", "retry"}
          BY <1>2, <2>4 DEF Queued
        <5>2. QED BY <2>2, <5>1, ItemFacts DEF Remembered
      <4>2. shown[i].state = "uploading" => net'[i].upload # "idle"
        BY <2>2, ItemFacts DEF Remembered, Queued
      <4>3. activeId = i => \E l \in Queued : net'[i][l] # "idle"
        BY <2>2, ItemFacts DEF Remembered
      <4>4. QED BY <1>1, <3>1, <4>1, <4>2, <4>3 DEF Remembered
    <3>6. QED BY <1>1, <2>2, <3>3, <3>4, <3>5, PageStep
  <2>5. QED BY <2>3, <2>4
<1>5. QED BY <1>3, <1>4

\* An item comes to the page, goes back to the queue, or leaves.
LEMMA QueueStep == ASSUME IInv, NEW i \in Item, Queue(i) PROVE IInv'
<1> DEFINE x == [shown[i] EXCEPT !.state = "queued"]
<1>1. /\ batchId # None /\ shown[i].state = "absent" /\ shown' = [shown EXCEPT ![i].state = "queued"]
      /\ UNCHANGED <<activeId, actionId, batch, net, server>>
  BY DEF Queue
<1>2. x \in ItemState /\ x.state = "queued" /\ x.uploaded = shown[i].uploaded
  BY ItemFacts DEF ItemState
<1>3. shown' = [shown EXCEPT ![i] = x]
  BY <1>1, ItemFacts DEF Typed
<1> HIDE DEF x
<1>4. Touches(i) /\ Typed' /\ shown'[i] = x /\ UNCHANGED <<register, job, lost, cut>>
  BY <1>1, <1>2, <1>3, ItemFacts, PageFrame DEF Typed
<1>5. OnPage(i)' /\ activeId # i
  BY <1>1, <1>2, <1>4, IntakePageAssumption DEF OnPage, IInv, QueueOK
<1>6. job[i] = "none" /\ \A k \in Queued : net'[i][k] = "idle"
  BY <1>1, ItemFacts, Kinds DEF Uploads
<1>7. net'[i].upload = "idle" /\ net'[i].register = "idle" /\ net'[i].start = "idle"
  BY <1>6 DEF Queued
<1>a. ~shown[i].uploaded /\ lost'[i] = "none" /\ job'[i] = "none"
  BY <1>1, <1>4, <1>6, ItemFacts DEF Begun
<1>8. Uploads(i)' /\ Begun(i)' /\ Registers(i)' /\ Found(i)' /\ Remembered(i)'
  BY <1>1, <1>2, <1>4, <1>5, <1>6, <1>7, <1>a, ItemFacts
  DEF Uploads, Begun, Registers, Found, Remembered, Started
<1>9. QED BY <1>1, <1>4, <1>5, <1>6, <1>7, <1>8, ItemStep

LEMMA LeavesStep ==
  ASSUME IInv, NEW i \in Item, RetryUpload(i) \/ Remove(i)
  PROVE  IInv'
<1>1. UNCHANGED <<activeId, actionId, batch, net, server>> /\ OnPage(i)
  BY DEF RetryUpload, Remove, OnPage
<1>2. PICK x \in ItemState : /\ shown' = [shown EXCEPT ![i] = x] /\ ~x.uploaded
                             /\ \/ x.state = "queued" /\ ~shown[i].uploaded
                                \/ x.state = "gone" /\ activeId # i
  <2>1. CASE RetryUpload(i)
    <3> DEFINE x == [Absent EXCEPT !.state = "queued"]
    <3>1. x \in ItemState /\ x.state = "queued" /\ ~x.uploaded
      BY DEF Absent, ItemState
    <3>2. shown' = [shown EXCEPT ![i] = x]
      BY <2>1 DEF RetryUpload
    <3>3. QED BY <2>1, <3>1, <3>2 DEF RetryUpload
  <2>2. CASE Remove(i)
    <3>1. Gone \in ItemState /\ Gone.state = "gone" /\ ~Gone.uploaded
      BY DEF Gone, Absent, ItemState
    <3>2. shown' = [shown EXCEPT ![i] = Gone] /\ activeId # i
      BY <2>2 DEF Remove
    <3>3. QED BY <3>1, <3>2
  <2>3. QED BY <2>1, <2>2
<1>3. Touches(i) /\ Typed' /\ shown'[i] = x /\ UNCHANGED <<register, job, lost, cut>>
  BY <1>1, <1>2, ItemFacts, PageFrame DEF Typed
<1>4. activeId # i => \A k \in Queued : net[i][k] = "idle"
  BY <1>1 DEF IInv, QueueOK
<1>5. Remembered(i)'
  BY <1>1, <1>2, <1>3, ItemFacts DEF Remembered
<1>6. OnPage(i)' \/ activeId # i
  BY <1>2, <1>3 DEF OnPage
<1>7. (x.state = "queued" => OnPage(i)') /\ (x.state = "gone" => ~OnPage(i)')
  BY <1>3 DEF OnPage
<1>8. QED
  <2>1. shown'[i].state \in {"queued", "gone"} /\ ~shown'[i].uploaded
    BY <1>2, <1>3
  <2>2. \/ shown'[i].uploaded = shown[i].uploaded
        \/ ~shown'[i].uploaded /\ ~OnPage(i)'
    BY <1>2, <1>3, <1>7, ItemFacts DEF ItemState
  <2>3. OnPage(i)' \/ (activeId # i /\ \A k \in Queued : net'[i][k] = "idle")
    BY <1>1, <1>4, <1>6
  <2>4. \A k \in Queued : net'[i][k] \in {net[i][k], "idle"}
    BY <1>1
  <2>5. QED BY <1>1, <1>3, <1>5, <2>1, <2>2, <2>3, <2>4, PageStep

\* The answer to an item that has left is not heard.
LEMMA UnheardStep ==
  ASSUME IInv, NEW i \in Item, NEW k \in Kind, Unheard(i, k)
  PROVE  IInv'
<1>1. /\ ~OnPage(i) /\ Answer(i, k, "idle") /\ UNCHANGED <<shown, activeId, actionId, batch, server>>
  BY DEF Unheard
<1>2. "idle" \in Where /\ Queued \subseteq Kind
  BY Kinds DEF Where
<1>3. /\ net' \in [Item -> [Kind -> Where]] /\ net'[i][k] = "idle"
      /\ \A l \in Kind \ {k} : net'[i][l] = net[i][l]
      /\ \A j \in Item \ {i} : net'[j] = net[j]
  BY <1>1, <1>2, ItemFacts, Answers
<1>4. \A l \in Kind : net'[i][l] \in {net[i][l], "idle"}
  BY <1>3
<1>5. shown' = [shown EXCEPT ![i] = shown[i]]
  BY <1>1, ItemFacts DEF Typed
<1>6. Touches(i) /\ Typed' /\ shown'[i] = shown[i] /\ UNCHANGED <<register, job, lost, cut>>
  BY <1>1, <1>3, <1>5, ItemFacts, PageFrame DEF Typed
<1>7. ~OnPage(i)' /\ activeId # i
  BY <1>1, IntakePageAssumption DEF OnPage, IInv, QueueOK
<1>8. UNCHANGED <<batchId, promise, manifest, lost, cut>>
  BY <1>1 DEF batch, server, handlers
<1>9. /\ net'[i].upload \in {net[i].upload, "idle"} /\ net'[i].register \in {net[i].register, "idle"}
      /\ net'[i].start \in {net[i].start, "idle"}
  BY <1>2, <1>4 DEF Queued
<1>10. Uploads(i)'
  BY <1>4, <1>6, <1>9, ItemFacts DEF Uploads
<1>11. Registers(i)'
  BY <1>1, <1>6, <1>7, <1>8, <1>9, ItemFacts DEF Registers
<1>12. Found(i)' /\ Begun(i)'
  BY <1>6, <1>7, <1>8, ItemFacts DEF Found, Begun, Started
<1>13. Remembered(i)'
  BY <1>1, <1>6, <1>7 DEF Remembered, OnPage
<1>14. QED BY <1>1, <1>6, <1>7, <1>9, <1>10, <1>11, <1>12, <1>13, ItemStep

LEMMA HearStep ==
  ASSUME IInv, NEW i \in Item, NEW k \in Kind, Hear(i, k)
  PROVE  IInv'
<1>1. CASE UploadArrives(i)
  BY <1>1, UploadStep
<1>2. CASE RegisterArrives(i)
  BY <1>2, RegisterStep
<1>3. CASE StartArrives(i)
  BY <1>3, StartStep
<1>4. CASE PollArrives(i) \/ PollAgain(i)
  BY <1>4, PollStep
<1>5. CASE ButtonArrives(i, k)
  BY <1>5, ButtonStep
<1>6. CASE Unheard(i, k)
  BY <1>6, UnheardStep
<1>7. QED BY <1>1, <1>2, <1>3, <1>4, <1>5, <1>6 DEF Hear

LEMMA UserStep ==
  ASSUME IInv, NEW i \in Item, User(i)
  PROVE  IInv'
<1>1. CASE Queue(i)
  BY <1>1, QueueStep
<1>2. CASE RetryUpload(i) \/ Remove(i)
  BY <1>2, LeavesStep
<1>3. CASE \E k \in Buttons : Press(i, k)
  BY <1>3, PressStep
<1>4. QED BY <1>1, <1>2, <1>3 DEF User

-----------------------------------------------------------------------------
(* Steps of the page that are about no item.                               *)

\* The batch of a registration exists, so it is none of the other things a batch
\* or a promise can be, and no batch that is yet to be created.
LEMMA RegisteredBatches ==
  ASSUME IInv, NEW i \in Item,
         net[i].register # "idle" \/ net[i].start # "idle" \/ lost[i] # "none"
  PROVE  /\ register[i].batch \in DOMAIN manifest
         /\ register[i].batch \notin {None, "idle", "sent", "refused"}
<1>1. register[i].batch \in DOMAIN manifest /\ DOMAIN manifest \subseteq Batch
  BY ItemFacts DEF Registers, Typed
<1>2. QED BY <1>1, IntakePageAssumption

\* While a batch is asked for there is none, and no item is on the page.
LEMMA Asking ==
  ASSUME IInv, promise # "idle"
  PROVE  batchId = None /\ \A i \in Item : ~OnPage(i)
BY DEF IInv, BatchesOK

LEMMA BatchStep ==
  ASSUME IInv, UNCHANGED <<shown, activeId, net, server>>,
         actionId' \in Item \cup {None}, batchId' \in Batch \cup {None},
         promise' \in {"idle", "sent", "refused"} \cup Batch,
         batchId' = batchId \/ \A i \in Item : ~OnPage(i),
         \A i \in Item : net[i].register # "idle" /\ ~OnPage(i) =>
           register[i].batch \notin {batchId', promise'},
         BatchesOK'
  PROVE  IInv'
<1>1. UNCHANGED <<shown, activeId, net, register, lost, cut, manifest, latest, job>>
  BY DEF server, handlers
<1>2. \A i \in Item : (OnPage(i)' <=> OnPage(i)) /\ (Started(i)' <=> Started(i))
  BY <1>1 DEF OnPage, Started
<1>3. Typed'
  BY <1>1 DEF IInv, Typed
<1>4. QueueOK' /\ Alone'
  <2>1. (activeId # None => OnPage(activeId))'
    BY <1>1 DEF IInv, QueueOK, OnPage
  <2>2. QED BY <1>1, <1>2, <2>1 DEF IInv, QueueOK, Alone
<1>5. ASSUME NEW i \in Item
      PROVE  Uploads(i)' /\ Begun(i)' /\ Registers(i)' /\ Found(i)' /\ Remembered(i)'
  <2>1. Uploads(i)' /\ Begun(i)' /\ Remembered(i)'
    BY <1>1, <1>2, ItemFacts DEF Uploads, Begun, Remembered
  <2>2. Registers(i)' /\ Found(i)'
    BY <1>1, <1>2, ItemFacts DEF Registers, Found
  <2>3. QED BY <2>1, <2>2
<1>6. QED BY <1>3, <1>4, <1>5 DEF IInv

LEMMA PromiseStep ==
  ASSUME IInv, EnsureBatch \/ BatchArrives \/ CreateRefused \/ ButtonElsewhere
  PROVE  IInv'
<1>1. UNCHANGED <<shown, activeId, net, server>>
  BY DEF EnsureBatch, BatchArrives, CreateRefused, ButtonElsewhere
<1>2. /\ actionId \in Item \cup {None} /\ batchId \in Batch \cup {None}
      /\ promise \in {"idle", "sent", "refused"} \cup Batch
  BY DEF IInv, Typed
<1>3. UNCHANGED <<shown, manifest, latest>> /\ \A i \in Item : OnPage(i)' <=> OnPage(i)
  BY <1>1 DEF server, OnPage
<1>4. CASE EnsureBatch
  <2>1. batchId = None /\ promise' = "sent" /\ UNCHANGED <<batchId, actionId>>
    BY <1>4 DEF EnsureBatch
  <2>2. BatchesOK'
    BY <1>3, <2>1, IntakePageAssumption DEF IInv, BatchesOK
  <2>3. QED BY <1>1, <1>2, <2>1, <2>2, RegisteredBatches, BatchStep
<1>5. CASE CreateRefused
  <2>1. promise = "sent" /\ promise' = "refused" /\ UNCHANGED <<batchId, actionId>>
    BY <1>5 DEF CreateRefused
  <2>2. batchId = None
    BY <2>1, Asking
  <2>3. BatchesOK'
    BY <1>3, <2>1, <2>2, IntakePageAssumption DEF IInv, BatchesOK
  <2>4. QED BY <1>1, <1>2, <2>1, <2>2, <2>3, RegisteredBatches, BatchStep
<1>6. CASE BatchArrives
  <2>1. /\ promise \in Batch \cup {"refused"} /\ promise' = "idle" /\ UNCHANGED actionId
        /\ batchId' = IF promise = "refused" THEN batchId ELSE promise
    BY <1>6 DEF BatchArrives
  <2>2. batchId = None /\ \A i \in Item : ~OnPage(i)
    BY <2>1, IntakePageAssumption, Asking
  <2>3. batchId' = None \/ (batchId' = promise /\ promise \in DOMAIN manifest)
    BY <2>1, <2>2 DEF IInv, BatchesOK
  <2>4. BatchesOK'
    BY <1>3, <2>1, <2>2, <2>3, IntakePageAssumption DEF IInv, BatchesOK
  <2>5. \A i \in Item : net[i].register # "idle" => register[i].batch \notin {batchId', promise'}
    BY <2>1, <2>2, <2>3, ItemFacts, RegisteredBatches DEF Registers
  <2>6. batchId' \in Batch \cup {None}
    BY <1>2, <2>1, <2>2
  <2>7. QED BY <1>1, <1>2, <2>1, <2>2, <2>4, <2>5, <2>6, BatchStep
<1>7. CASE ButtonElsewhere
  <2>1. UNCHANGED <<batchId, promise>> /\ actionId' = None
    BY <1>7 DEF ButtonElsewhere, batch
  <2>2. BatchesOK'
    BY <1>3, <2>1 DEF IInv, BatchesOK
  <2>3. \A i \in Item : net[i].register # "idle" /\ ~OnPage(i) =>
          register[i].batch \notin {batchId', promise'}
    BY <2>1, ItemFacts DEF Registers
  <2>4. QED BY <1>1, <1>2, <2>1, <2>2, <2>3, BatchStep
<1>8. QED BY <1>4, <1>5, <1>6, <1>7

\* A new batch is nobody's yet.
LEMMA CreateStep ==
  ASSUME IInv, CreateBatch
  PROVE  IInv' /\ \A b \in DOMAIN manifest : b \in DOMAIN manifest' /\ manifest'[b] = manifest[b]
<1>1. /\ promise = "sent"
      /\ UNCHANGED <<shown, activeId, actionId, batchId, net, register, lost, cut, latest, job>>
  BY DEF CreateBatch, handlers
<1>2. PICK b \in Batch \ DOMAIN manifest :
        /\ promise' = b
        /\ manifest' = [c \in DOMAIN manifest \cup {b} |-> IF c = b THEN {} ELSE manifest[c]]
  BY DEF CreateBatch
<1>3. /\ DOMAIN manifest' = DOMAIN manifest \cup {b}
      /\ \A c \in DOMAIN manifest : manifest'[c] = manifest[c]
  BY <1>2
<1>4. Typed /\ DOMAIN manifest \subseteq Batch
  BY DEF IInv, Typed
<1>5. Typed'
  <2>1. manifest' \in [DOMAIN manifest' -> SUBSET Item]
    BY <1>2, <1>3, <1>4 DEF Typed
  <2>2. QED BY <1>1, <1>2, <1>3, <1>4, <2>1 DEF Typed
<1>6. batchId = None /\ \A i \in Item : ~OnPage(i)
  BY <1>1, Asking
<1>7. \A i \in Item : (OnPage(i)' <=> OnPage(i)) /\ (Started(i)' <=> Started(i))
  BY <1>1 DEF OnPage, Started
<1>8. QueueOK' /\ Alone'
  <2>1. (activeId # None => OnPage(activeId))'
    BY <1>1 DEF IInv, QueueOK, OnPage
  <2>2. QED BY <1>1, <1>7, <2>1 DEF IInv, QueueOK, Alone
<1>9. BatchesOK'
  BY <1>1, <1>2, <1>3, <1>6, <1>7 DEF IInv, BatchesOK
<1>10. ASSUME NEW i \in Item
       PROVE  Uploads(i)' /\ Begun(i)' /\ Registers(i)' /\ Found(i)' /\ Remembered(i)'
  <2>1. Uploads(i)' /\ Begun(i)' /\ Remembered(i)'
    BY <1>1, <1>7, ItemFacts DEF Uploads, Begun, Remembered
  <2>2. Registers(i)'
    <3>1. net[i].register # "idle" \/ net[i].start # "idle" \/ lost[i] # "none" =>
            register[i].batch \in DOMAIN manifest /\ register[i].batch \notin {None, b}
      BY <1>2, RegisteredBatches
    <3>2. QED BY <1>1, <1>2, <1>3, <1>6, <1>7, <3>1, ItemFacts DEF Registers
  <2>3. Found(i)'
    BY <1>1, <1>3, <1>6, <1>7, ItemFacts DEF Found
  <2>4. QED BY <2>1, <2>2, <2>3
<1>11. QED BY <1>3, <1>5, <1>8, <1>9, <1>10 DEF IInv

\* What the page was doing is forgotten with the page.
LEMMA LeaveStep == ASSUME IInv, Leave PROVE IInv'
<1>1. /\ shown' = [i \in Item |-> IF OnPage(i) THEN Gone ELSE shown[i]]
      /\ activeId' = None /\ actionId' = None /\ batchId' = None /\ promise' = "idle"
      /\ net' = [i \in Item |-> [k \in Kind |-> IF Under(i, k) THEN net[i][k] ELSE "idle"]]
      /\ UNCHANGED <<register, lost, cut, manifest, latest, job>>
  BY DEF Leave, server, handlers
<1>2. Typed /\ Gone \in ItemState /\ Gone.state = "gone" /\ ~Gone.uploaded
  BY DEF IInv, Gone, Absent, ItemState
<1>3. \A i \in Item : shown'[i] = IF OnPage(i) THEN Gone ELSE shown[i]
  BY <1>1
<1>4. \A i \in Item : ~OnPage(i)' /\ (shown'[i] = Gone \/ shown'[i] = shown[i])
  BY <1>2, <1>3 DEF OnPage
<1>5. \A i \in Item, k \in Kind : net'[i][k] # "idle" => net'[i][k] = net[i][k]
  BY <1>1
<1>6. "register" \in Kind /\ "upload" \in Kind /\ "start" \in Kind
  BY Kinds DEF Queued
<1>7. Typed'
  <2>1. shown' \in [Item -> ItemState]
    BY <1>1, <1>2 DEF Typed
  <2>2. net' \in [Item -> [Kind -> Where]]
    BY <1>1, <1>2 DEF Typed, Where
  <2>3. QED BY <1>1, <1>2, <2>1, <2>2 DEF Typed
<1>8. QueueOK' /\ Alone'
  BY <1>1, <1>4, <1>5, <1>6 DEF IInv, QueueOK, Alone
<1>9. BatchesOK'
  BY <1>1, <1>4, IntakePageAssumption DEF IInv, BatchesOK
<1>10. ASSUME NEW i \in Item
      PROVE  Uploads(i)' /\ Begun(i)' /\ Registers(i)' /\ Found(i)' /\ Remembered(i)'
  <2>1. Uploads(i)' /\ Begun(i)'
    <3>1. shown'[i].state = "absent" => shown[i].state = "absent" /\ ~shown'[i].uploaded
      BY <1>2, <1>4, ItemFacts DEF Begun
    <3>2. net'[i].upload \in {"idle", net[i].upload} /\ (shown'[i].uploaded => shown[i].uploaded)
      BY <1>2, <1>4, <1>5, <1>6
    <3>3. QED BY <1>1, <1>4, <1>5, <3>1, <3>2, ItemFacts DEF Uploads, Begun
  <2>2. Registers(i)'
    <3>1. net[i].register # "idle" => register[i].batch \notin {None, "idle"}
      BY RegisteredBatches
    <3>2. /\ net'[i].register = net[i].register \/ net'[i].register = "idle"
          /\ net'[i].start = net[i].start \/ net'[i].start = "idle"
      BY <1>5, <1>6
    <3>3. QED BY <1>1, <1>4, <3>1, <3>2, ItemFacts DEF Registers
  <2>3. Found(i)'
    BY <1>1, <1>4, ItemFacts DEF Found, Started
  <2>4. Remembered(i)'
    BY <1>1, <1>4, IntakePageAssumption DEF Remembered, OnPage
  <2>5. QED BY <2>1, <2>2, <2>3, <2>4
<1>11. QED BY <1>7, <1>8, <1>9, <1>10 DEF IInv

-----------------------------------------------------------------------------
(* The whole page.                                                         *)

LEMMA Initially == Init => IInv
<1> SUFFICES ASSUME Init PROVE IInv
  OBVIOUS
<1>1. /\ shown = [i \in Item |-> Absent] /\ net = [i \in Item |-> [k \in Kind |-> "idle"]]
      /\ register = [i \in Item |-> [batch |-> None, jobs |-> {}]]
      /\ lost = [i \in Item |-> "none"] /\ cut = {}
      /\ manifest = << >> /\ latest = None /\ job = [i \in Item |-> "none"]
      /\ activeId = None /\ actionId = None /\ batchId = None /\ promise = "idle"
  BY DEF Init
<1>2. Absent \in ItemState /\ Absent.state = "absent" /\ ~Absent.uploaded
  BY DEF Absent, ItemState
<1>3. \A i \in Item : /\ shown[i] = Absent /\ ~OnPage(i) /\ ~Started(i)
                      /\ \A k \in Kind : net[i][k] = "idle"
  BY <1>1, <1>2 DEF OnPage, Started
<1>4. Typed
  <2>1. shown \in [Item -> ItemState]
    BY <1>1, <1>2
  <2>2. net \in [Item -> [Kind -> Where]]
    BY <1>1 DEF Where
  <2>3. manifest \in [DOMAIN manifest -> SUBSET Item] /\ DOMAIN manifest \subseteq Batch
    BY <1>1
  <2>4. register \in [Item -> Registration]
    BY <1>1 DEF Registration
  <2>5. QED BY <1>1, <2>1, <2>2, <2>3, <2>4 DEF Typed
<1>5. QueueOK /\ BatchesOK /\ Alone
  BY <1>1, <1>3, Kinds, IntakePageAssumption DEF QueueOK, BatchesOK, Alone, Queued
<1>6. ASSUME NEW i \in Item PROVE Uploads(i) /\ Begun(i) /\ Registers(i) /\ Found(i) /\ Remembered(i)
  <2>1. net[i].upload = "idle" /\ net[i].register = "idle" /\ net[i].start = "idle"
    BY <1>3, Kinds DEF Queued
  <2>2. job[i] = "none" /\ activeId # i /\ lost[i] = "none"
    BY <1>1, IntakePageAssumption
  <2>3. QED BY <1>2, <1>3, <2>1, <2>2 DEF Uploads, Begun, Registers, Found, Remembered
<1>7. QED BY <1>4, <1>5, <1>6 DEF IInv

LEMMA Inductive == IInv /\ [Next]_vars => IInv'
<1> SUFFICES ASSUME IInv, [Next]_vars PROVE IInv'
  OBVIOUS
<1>1. CASE UNCHANGED vars
  <2>1. UNCHANGED <<shown, activeId, actionId, batchId, promise, net, register, lost, cut, manifest,
                    latest, job>>
    BY <1>1 DEF vars
  <2>2. Typed' /\ QueueOK' /\ BatchesOK' /\ Alone'
    BY <2>1 DEF IInv, Typed, QueueOK, BatchesOK, Alone, OnPage
  <2>3. \A i \in Item : Uploads(i)' /\ Begun(i)' /\ Registers(i)' /\ Found(i)' /\ Remembered(i)'
    BY <2>1 DEF IInv, Uploads, Begun, Registers, Found, Remembered, OnPage, Started
  <2>4. QED BY <2>2, <2>3 DEF IInv
<1>2. CASE EnsureBatch \/ BatchArrives \/ CreateRefused \/ ButtonElsewhere
  BY <1>2, PromiseStep
<1>3. CASE CreateBatch
  BY <1>3, CreateStep
<1>4. CASE Leave
  BY <1>4, LeaveStep
<1>5. CASE \E i \in Item : StartUpload(i) \/ User(i) \/ GoesOn(i) \/ Moves(i)
  BY <1>5, StartUploadStep, UserStep, LateStep, MovesStep
<1>6. CASE \E i \in Item, k \in Kind : Serve(i, k) \/ Hear(i, k)
  BY <1>6, ServeStep, HearStep
<1>7. QED BY <1>1, <1>2, <1>3, <1>4, <1>5, <1>6 DEF Next

\* Who writes to the batches: a new one is created, or a registration is written.
LEMMA Writers ==
  ASSUME Next
  PROVE  \/ UNCHANGED manifest
         \/ CreateBatch
         \/ \E i \in Item : RegisterPersist(i) \/ GoesOn(i)
<1>1. CASE EnsureBatch \/ BatchArrives \/ CreateRefused \/ ButtonElsewhere \/ Leave
  BY <1>1 DEF EnsureBatch, BatchArrives, CreateRefused, ButtonElsewhere, Leave, server
<1>2. CASE CreateBatch
  BY <1>2
<1>3. ASSUME NEW i \in Item, StartUpload(i) \/ User(i) \/ Moves(i)
      PROVE  UNCHANGED manifest
  BY <1>3 DEF StartUpload, User, Queue, RetryUpload, Remove, Press, Moves, server
<1>4. ASSUME NEW i \in Item, NEW k \in Kind, Serve(i, k)
      PROVE  UNCHANGED manifest \/ RegisterPersist(i)
  BY <1>4 DEF Serve, StoreUpload, RegisterLoad, ServePoll, ServePipeline, Refuse, Lose, server
<1>5. ASSUME NEW i \in Item, NEW k \in Kind, Hear(i, k)
      PROVE  UNCHANGED manifest
  BY <1>5 DEF Hear, UploadArrives, RegisterArrives, StartArrives, PollArrives, PollAgain,
              ButtonArrives, Unheard, server
<1>6. CASE \E i \in Item : StartUpload(i) \/ User(i) \/ GoesOn(i) \/ Moves(i)
  BY <1>3, <1>6
<1>7. CASE \E i \in Item, k \in Kind : Serve(i, k) \/ Hear(i, k)
  BY <1>4, <1>5, <1>7
<1>8. QED BY <1>1, <1>2, <1>6, <1>7 DEF Next

\* A step keeps every job of every batch that was not cut off: a registration
\* writes back what it has loaded, and nobody has written to its batch since.
LEMMA Keeps ==
  ASSUME IInv, [Next]_vars
  PROVE  \A b \in DOMAIN manifest \ cut : manifest[b] \subseteq manifest'[b]
<1>1. CASE UNCHANGED manifest
  BY <1>1
<1>2. CASE CreateBatch
  BY <1>2, CreateStep
<1>3. ASSUME NEW i \in Item, RegisterPersist(i)
      PROVE  \A b \in DOMAIN manifest \ cut : manifest[b] \subseteq manifest'[b]
  BY <1>3, WriteStep DEF RegisterPersist, handlers
<1>4. ASSUME NEW i \in Item, GoesOn(i)
      PROVE  \A b \in DOMAIN manifest \ cut : manifest[b] \subseteq manifest'[b]
  BY <1>4, WriteStep DEF GoesOn, OnlyLate
<1>5. QED BY <1>1, <1>2, <1>3, <1>4, Writers DEF vars

\* The inductive invariant holds of every page and every server it talks to.
THEOREM Invariance == Spec => []IInv
BY Initially, Inductive, PTL DEF Spec

\* Every item, request and batch has its type; what is shown as uploaded is stored.
THEOREM TypeCorrect == Spec => []TypeOK
<1>1. IInv => TypeOK
  BY DEF IInv, Typed, TypeOK, ItemState, Registration, Where, Uploads
<1>2. QED BY <1>1, Invariance, PTL

\* Work can be found again: registration comes before the start, a failed one starts
\* nothing, and the pointer only ever goes to a batch with a job.
THEOREM WorkFound == Spec => []WorkCanBeFound
<1>1. IInv => WorkCanBeFound
  BY DEF IInv, Found, BatchesOK, WorkCanBeFound
<1>2. QED BY <1>1, Invariance, PTL

\* No item hangs: whatever is shown as under way has a request that ends it.
THEOREM NothingForgotten == Spec => []NothingIsForgotten
<1>1. IInv => NothingIsForgotten
  BY DEF IInv, Remembered, NothingIsForgotten, Queued
<1>2. QED BY <1>1, Invariance, PTL

\* No registration takes a job out of a batch, although none holds a lock, unless
\* one for that batch lost its connection before it had written.
THEOREM JobsStay == Spec => NoJobLeavesItsBatch
<1>1. IInv /\ [Next]_vars => [\A b \in DOMAIN manifest \ cut : manifest[b] \subseteq manifest'[b]]_vars
  BY Keeps
<1>2. QED BY <1>1, Invariance, PTL DEF Spec, NoJobLeavesItsBatch
=============================================================================
