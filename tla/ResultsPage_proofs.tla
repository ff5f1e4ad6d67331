------------------------- MODULE ResultsPage_proofs -------------------------
(***************************************************************************)
(* For every number of jobs, of loads under way and of pressed buttons: a  *)
(* results page that has stopped reloading, waits for nothing and shows no *)
(* error shows what is on the server.                                      *)
(***************************************************************************)
EXTENDS ResultsPage, TLAPS

-----------------------------------------------------------------------------
(* The inductive invariant.                                                *)

FileState == [status : Reports \cup {None}, outcome : Outcomes]
Seen == UNION {[jobs -> ShownJob] : jobs \in SUBSET Job}
LoadState == [at : {"idle", "timer", "sent", "refused"}, live : BOOLEAN, seen : Seen]
Step == {"idle", "sent", "written", "ok", "refused"}

Typed ==
  /\ file \in [Job -> FileState] /\ load \in [Slot -> LoadState]
  /\ view # None => view \in [Job -> ShownJob]
  /\ error \in BOOLEAN
  /\ request \in [Job -> [Buttons -> Step]]
  /\ actionId \in Job \cup {None} /\ loose \subseteq Job

\* One load at most may be shown, and it is under way or timed.
LoadsOK ==
  /\ \A s, t \in Slot : load[s].live /\ load[t].live => s = t
  /\ \A s \in Slot : /\ load[s].live => load[s].at # "idle"
                     /\ load[s].at = "timer" => load[s].live

\* One request at most is open for a job that is not loose.
OneRequest ==
  \A j \in Job \ loose : \A k, l \in Buttons :
    request[j][k] # "idle" /\ request[j][l] # "idle" => k = l

\* A request about the job has been served, and its answer will reload the page.
Stirred(j) == \E k \in Buttons : request[j][k] \in {"written", "ok"}

\* What the load that may be shown has read of a job is still so, or will be read again.
LoadFollows(s) ==
  load[s].live =>
    \A j \in DOMAIN load[s].seen \ loose :
      \/ Agree(load[s].seen[j], Result(file[j]))
      \/ load[s].seen[j].state = "PROCESSING"
      \/ Stirred(j)

\* The page shows an error, or has something to wait for.
Awake == error \/ Open # {} \/ \E s \in Slot : load[s].live

\* A page that sleeps shows what is, and nothing that is still processing.
ViewFollows ==
  view # None /\ ~Awake =>
    \A j \in Job \ loose : Agree(view[j], Result(file[j])) /\ view[j].state # "PROCESSING"

IInv ==
  /\ Typed /\ LoadsOK /\ OneRequest /\ ViewFollows
  /\ \A s \in Slot : LoadFollows(s)

-----------------------------------------------------------------------------
(* What a load has read, and what a result depends on.                     *)

LEMMA SeenFacts ==
  /\ << >> \in Seen /\ DOMAIN << >> = {}
  /\ \A seen \in Seen : /\ DOMAIN seen \subseteq Job /\ seen \in [DOMAIN seen -> ShownJob]
                        /\ \A j \in DOMAIN seen : seen[j] \in ShownJob
<1>1. << >> \in [{} -> ShownJob] /\ DOMAIN << >> = {}
  OBVIOUS
<1>2. << >> \in Seen
  BY <1>1 DEF Seen
<1>3. ASSUME NEW seen \in Seen
      PROVE  /\ DOMAIN seen \subseteq Job /\ seen \in [DOMAIN seen -> ShownJob]
             /\ \A j \in DOMAIN seen : seen[j] \in ShownJob
  <2>1. PICK jobs \in SUBSET Job : seen \in [jobs -> ShownJob]
    BY <1>3 DEF Seen
  <2>2. QED BY <2>1
<1>4. QED BY <1>1, <1>2, <1>3

LEMMA Loads ==
  /\ NoLoad \in LoadState /\ NoLoad.at = "idle" /\ NoLoad.live = FALSE /\ NoLoad.seen = << >>
  /\ NewLoad \in LoadState /\ NewLoad.at = "sent" /\ NewLoad.live = TRUE /\ NewLoad.seen = << >>
BY SeenFacts DEF NoLoad, NewLoad, LoadState

LEMMA ResultType == ASSUME NEW f \in FileState PROVE Result(f) \in ShownJob
<1>1. f.status \in Reports \cup {None} /\ f.status \in Settled \cup Unsettled \cup {None}
  BY ResultsPageAssumption DEF FileState
<1>2. \A state \in {"PROCESSING", "WAITING", "CANCELLED", "FAILED", "COMPLETE", "INVALID"},
         status \in Reports \cup {None}, attention \in BOOLEAN :
        Shown(state, status, attention) \in ShownJob
  BY DEF Shown, ShownJob
<1>3. f.status # None => Reported(f) \in ShownJob
  BY <1>1, <1>2 DEF Reported, CompleteResult, Invalid, Settled, Waiting, Unsettled
<1>4. QED BY <1>1, <1>2, <1>3 DEF Result, Invalid

\* A result that is not processing does not depend on where an unsettled pipeline
\* goes: the job is invalid whatever its status.
LEMMA SettledResult ==
  ASSUME NEW f \in FileState, NEW status \in Reports, f.status \in Unsettled,
         NEW v, Agree(v, Result(f)), v.state # "PROCESSING"
  PROVE  Agree(v, Result([f EXCEPT !.status = status]))
<1> DEFINE g == [f EXCEPT !.status = status]
<1>1. f.status # None /\ status # None /\ g.status = status /\ g.outcome = f.outcome
  BY ResultsPageAssumption DEF FileState
<1>2. CASE f.outcome = "DOCUMENT"
  <2>1. Result(f) = Invalid(None) /\ Result(g) = Invalid(None)
    BY <1>1, <1>2 DEF Result
  <2>2. QED BY <2>1 DEF Agree
<1>3. CASE f.outcome = "ARCHITECTURE"
  <2>1. Result(f) = Invalid(f.status) /\ Result(g) = Invalid(status)
    BY <1>1, <1>3 DEF Result
  <2>2. \A t : Invalid(t).state = "INVALID" /\ Invalid(t).attention = TRUE
    BY DEF Invalid, Shown
  <2>3. QED BY <2>1, <2>2 DEF Agree
<1>4. CASE f.outcome \notin {"DOCUMENT", "ARCHITECTURE"}
  <2>1. Result(f) = Reported(f)
    BY <1>1, <1>4 DEF Result
  <2>2. Reported(f) = Shown("PROCESSING", f.status, FALSE)
    BY DEF Reported, Waiting, Unsettled
  <2>3. QED BY <2>1, <2>2 DEF Agree, Shown
<1>5. QED BY <1>2, <1>3, <1>4

LEMMA OpenRequests ==
  /\ \A j \in Job, k \in Buttons : <<j, k>> \in Open <=> request[j][k] # "idle"
  /\ Open = {} <=> \A j \in Job, k \in Buttons : request[j][k] = "idle"
<1>1. \A j \in Job, k \in Buttons : <<j, k>> \in Open <=> request[j][k] # "idle"
  BY DEF Open
<1>2. \A x \in Open : \E j \in Job, k \in Buttons : x = <<j, k>> /\ request[j][k] # "idle"
  BY DEF Open
<1>3. Open # {} => \E j \in Job, k \in Buttons : request[j][k] # "idle"
  BY <1>2
<1>4. Open = {} => \A j \in Job, k \in Buttons : request[j][k] = "idle"
  BY <1>1
<1>5. QED BY <1>1, <1>3, <1>4

-----------------------------------------------------------------------------
(* Steps of a load.                                                        *)

LEMMA LoadStep ==
  ASSUME IInv, OnlyLoad, NEW s \in Slot, NEW x \in LoadState, load' = [load EXCEPT ![s] = x],
         view' # None => view' \in [Job -> ShownJob], error' \in BOOLEAN,
         x.live => load[s].live /\ x.at # "idle", x.at = "timer" => x.live,
         x.live => \A j \in DOMAIN x.seen \ loose :
                     \/ Agree(x.seen[j], Result(file[j])) \/ x.seen[j].state = "PROCESSING"
                     \/ Stirred(j),
         ViewFollows'
  PROVE  IInv'
<1>1. UNCHANGED <<file, request, actionId, loose>>
  BY DEF OnlyLoad
<1>2. load' \in [Slot -> LoadState] /\ load'[s] = x /\ \A t \in Slot \ {s} : load'[t] = load[t]
  BY DEF IInv, Typed
<1>3. Typed'
  BY <1>1, <1>2 DEF IInv, Typed
<1>4. LoadsOK' /\ OneRequest'
  BY <1>1, <1>2 DEF IInv, LoadsOK, OneRequest
<1>5. ASSUME NEW t \in Slot PROVE LoadFollows(t)'
  <2>1. CASE t = s
    BY <1>1, <1>2, <2>1 DEF LoadFollows, Stirred
  <2>2. CASE t # s
    BY <1>1, <1>2, <2>2 DEF IInv, LoadFollows, Stirred
  <2>3. QED BY <2>1, <2>2
<1>6. QED BY <1>3, <1>4, <1>5 DEF IInv

\* A page that stays awake, or shows what it showed, follows.
LEMMA StillAwake ==
  ASSUME IInv, OnlyLoad, UNCHANGED view, Awake => Awake'
  PROVE  ViewFollows'
BY DEF IInv, OnlyLoad, ViewFollows

LEMMA OtherLoads ==
  ASSUME IInv, OnlyLoad, NEW s \in Slot, NEW x \in LoadState, load' = [load EXCEPT ![s] = x],
         error => error', load[s].live => error' \/ x.live
  PROVE  Awake => Awake'
<1>1. load'[s] = x /\ \A t \in Slot \ {s} : load'[t] = load[t]
  BY DEF IInv, Typed
<1>2. Open' = Open
  BY DEF OnlyLoad, Open
<1>3. QED BY <1>1, <1>2 DEF Awake

LEMMA ReadStep ==
  ASSUME IInv, NEW s \in Slot, NEW j \in Job, ReadJob(s, j)
  PROVE  IInv'
<1> DEFINE seen == [i \in DOMAIN load[s].seen \cup {j} |->
                     IF i = j THEN Result(file[j]) ELSE load[s].seen[i]]
           x == [load[s] EXCEPT !.seen = seen]
<1>1. /\ load[s].at = "sent" /\ OnlyLoad /\ UNCHANGED <<view, error>>
      /\ load[s] \in LoadState /\ file[j] \in FileState
      /\ load' = [load EXCEPT ![s] = x]
  BY DEF ReadJob, IInv, Typed
<1>2. /\ load[s].seen \in Seen /\ DOMAIN load[s].seen \subseteq Job
      /\ \A i \in DOMAIN load[s].seen : load[s].seen[i] \in ShownJob
  BY <1>1, SeenFacts DEF LoadState
<1>3. seen \in [DOMAIN load[s].seen \cup {j} -> ShownJob]
  BY <1>1, <1>2, ResultType
<1>4. seen \in Seen
  BY <1>2, <1>3 DEF Seen
<1>5. x \in LoadState /\ x.at = "sent" /\ x.live = load[s].live /\ x.seen = seen
  BY <1>1, <1>4 DEF LoadState
<1>6. x.live => \A i \in DOMAIN x.seen \ loose :
                  \/ Agree(x.seen[i], Result(file[i])) \/ x.seen[i].state = "PROCESSING"
                  \/ Stirred(i)
  <2>1. Agree(seen[j], Result(file[j]))
    BY DEF Agree
  <2>2. \A i \in DOMAIN seen : i # j => i \in DOMAIN load[s].seen /\ seen[i] = load[s].seen[i]
    OBVIOUS
  <2>3. DOMAIN x.seen = DOMAIN seen /\ x.seen = seen
    BY <1>5
  <2> HIDE DEF x, seen
  <2>4. QED BY <1>5, <2>1, <2>2, <2>3 DEF IInv, LoadFollows
<1> HIDE DEF x
<1>7. ViewFollows'
  BY <1>1, <1>5, OtherLoads, StillAwake
<1>8. QED BY <1>1, <1>5, <1>6, <1>7, LoadStep DEF IInv, Typed

LEMMA RefusedStep ==
  ASSUME IInv, NEW s \in Slot, RefuseLoad(s)
  PROVE  IInv'
<1> DEFINE x == [load[s] EXCEPT !.at = "refused", !.seen = << >>]
<1>1. /\ OnlyLoad /\ UNCHANGED <<view, error>> /\ load[s] \in LoadState
      /\ load' = [load EXCEPT ![s] = x]
  BY DEF RefuseLoad, IInv, Typed
<1>2. x \in LoadState /\ x.at = "refused" /\ x.live = load[s].live /\ x.seen = << >>
  BY <1>1, SeenFacts DEF LoadState
<1> HIDE DEF x
<1>3. ViewFollows'
  BY <1>1, <1>2, OtherLoads, StillAwake
<1>4. QED BY <1>1, <1>2, <1>3, SeenFacts, LoadStep DEF IInv, Typed

LEMMA FailStep ==
  ASSUME IInv, NEW s \in Slot, LoadFails(s)
  PROVE  IInv'
<1>1. /\ OnlyLoad /\ UNCHANGED view /\ load' = [load EXCEPT ![s] = NoLoad]
      /\ error' = (error \/ load[s].live) /\ error' \in BOOLEAN
  BY DEF LoadFails
<1>2. ViewFollows'
  BY <1>1, Loads, OtherLoads, StillAwake
<1>3. QED BY <1>1, <1>2, Loads, LoadStep DEF IInv, Typed

LEMMA AgainStep ==
  ASSUME IInv, NEW s \in Slot, LoadAgain(s)
  PROVE  IInv'
<1>1. /\ OnlyLoad /\ UNCHANGED <<view, error>> /\ load' = [load EXCEPT ![s] = NewLoad]
      /\ load[s].live
  BY DEF LoadAgain, IInv, LoadsOK
<1>2. ViewFollows'
  BY <1>1, Loads, OtherLoads, StillAwake
<1>3. QED BY <1>1, <1>2, Loads, SeenFacts, LoadStep DEF IInv, Typed

\* A load is shown: the page sleeps only on results that nothing is about to change.
LEMMA LoadedStep ==
  ASSUME IInv, NEW s \in Slot, Loaded(s)
  PROVE  IInv'
<1>1. OnlyLoad /\ DOMAIN load[s].seen = Job /\ load[s].seen \in Seen
  BY DEF Loaded, IInv, Typed, LoadState
<1>2. load[s].seen \in [Job -> ShownJob]
  BY <1>1, SeenFacts
<1>3. CASE ~load[s].live
  <2>1. load' = [load EXCEPT ![s] = NoLoad] /\ UNCHANGED <<view, error>>
    BY <1>3 DEF Loaded
  <2>2. ViewFollows'
    BY <1>1, <1>3, <2>1, Loads, OtherLoads, StillAwake
  <2>3. QED BY <1>1, <2>1, <2>2, Loads, LoadStep DEF IInv, Typed
<1>4. CASE load[s].live
  <2> DEFINE timer == [NoLoad EXCEPT !.at = "timer", !.live = TRUE]
             x == IF Processing(view') # {} THEN timer ELSE NoLoad
  <2>1. view' = load[s].seen /\ error' = FALSE /\ load' = [load EXCEPT ![s] = x]
    BY <1>4 DEF Loaded
  <2>2. timer \in LoadState /\ timer.at = "timer" /\ timer.live = TRUE /\ timer.seen = << >>
    BY SeenFacts DEF NoLoad, LoadState
  <2>3. x \in LoadState /\ x.at # "sent" /\ x.seen = << >>
        /\ (x.live <=> Processing(view') # {}) /\ (x.live => x.at = "timer") /\ (x.at = "timer" => x.live)
    BY <2>2, Loads
  <2> HIDE DEF x
  <2>4. load'[s] = x /\ Open' = Open
    BY <1>1, <2>1 DEF IInv, Typed, OnlyLoad, Open
  <2>5. ViewFollows'
    <3> SUFFICES ASSUME ~Awake', NEW j \in Job \ loose
                 PROVE  Agree(view'[j], Result(file[j])) /\ view'[j].state # "PROCESSING"
      BY <1>1 DEF ViewFollows, OnlyLoad
    <3>1. ~x.live /\ Open = {}
      BY <2>4 DEF Awake
    <3>2. view'[j].state # "PROCESSING"
      BY <2>3, <3>1 DEF Processing
    <3>3. ~Stirred(j)
      BY <3>1, OpenRequests DEF Stirred
    <3>4. QED BY <1>1, <1>4, <2>1, <3>2, <3>3 DEF IInv, LoadFollows
  <2>6. QED BY <1>1, <1>2, <1>4, <2>1, <2>3, <2>5, SeenFacts, LoadStep
<1>5. QED BY <1>3, <1>4

-----------------------------------------------------------------------------
(* Steps of a pipeline and of a request.                                   *)

\* The worker moves only what the page will read again, unless the job is loose.
LEMMA MovesStep ==
  ASSUME IInv, NEW j \in Job, Moves(j)
  PROVE  IInv'
<1>1. PICK status \in Reports : file' = [file EXCEPT ![j].status = status]
  BY DEF Moves
<1> DEFINE f == [file[j] EXCEPT !.status = status]
<1>2. /\ UNCHANGED <<load, view, error, request, actionId, loose>>
      /\ j \notin loose => file[j].status \in Unsettled
  BY DEF Moves
<1>3. file[j] \in FileState /\ f \in FileState
  BY DEF IInv, Typed, FileState
<1>4. /\ file' \in [Job -> FileState] /\ file'[j] = f
      /\ \A i \in Job \ {j} : file'[i] = file[i]
  BY <1>1, <1>3 DEF IInv, Typed
<1>5. ASSUME NEW i \in Job \ loose, NEW v, v.state # "PROCESSING", Agree(v, Result(file[i]))
      PROVE  Agree(v, Result(file'[i]))
  <2>1. CASE i = j
    BY <1>2, <1>3, <1>4, <1>5, <2>1, SettledResult
  <2>2. CASE i # j
    BY <1>4, <1>5, <2>2
  <2>3. QED BY <2>1, <2>2
<1> HIDE DEF f
<1>6. Typed' /\ LoadsOK' /\ OneRequest'
  BY <1>2, <1>4 DEF IInv, Typed, LoadsOK, OneRequest
<1>7. Awake' <=> Awake
  BY <1>2 DEF Awake, Open
<1>8. ViewFollows'
  BY <1>2, <1>5, <1>7 DEF IInv, ViewFollows
<1>9. ASSUME NEW s \in Slot PROVE LoadFollows(s)'
  <2>1. DOMAIN load[s].seen \subseteq Job
    BY SeenFacts DEF IInv, Typed, LoadState
  <2>2. QED BY <1>2, <1>5, <2>1 DEF IInv, LoadFollows, Stirred
<1>10. QED BY <1>6, <1>8, <1>9 DEF IInv

\* What a step does to one request.
LEMMA RequestFacts ==
  ASSUME IInv, NEW j \in Job, NEW k \in Buttons, NEW now \in Step,
         request' = [request EXCEPT ![j][k] = now]
  PROVE  /\ request' \in [Job -> [Buttons -> Step]] /\ request'[j][k] = now
         /\ \A i \in Job, l \in Buttons : <<i, l>> # <<j, k>> => request'[i][l] = request[i][l]
BY DEF IInv, Typed

\* While a request is open the page is awake.
LEMMA OpenIsAwake ==
  ASSUME NEW j \in Job, NEW k \in Buttons, request'[j][k] # "idle"
  PROVE  Awake'
<1>1. <<j, k>> \in Open'
  BY DEF Open
<1>2. QED BY <1>1 DEF Awake

LEMMA StirredFacts ==
  ASSUME IInv, NEW j \in Job \ loose, NEW k \in Buttons, request[j][k] # "idle"
  PROVE  Stirred(j) <=> request[j][k] \in {"written", "ok"}
BY DEF IInv, OneRequest, Stirred

LEMMA WriteStep ==
  ASSUME IInv, NEW j \in Job, NEW k \in Buttons, Write(j, k)
  PROVE  IInv'
<1>1. PICK status \in Reports : file' = [file EXCEPT ![j].status = status]
  BY DEF Write
<1> DEFINE f == [file[j] EXCEPT !.status = status]
<1>2. /\ request[j][k] # "idle" /\ request' = [request EXCEPT ![j][k] = "written"]
      /\ UNCHANGED <<load, view, error, actionId, loose>>
  BY DEF Write
<1>3. f \in FileState
  BY DEF IInv, Typed, FileState
<1>4. file' \in [Job -> FileState] /\ \A i \in Job \ {j} : file'[i] = file[i]
  BY <1>1, <1>3 DEF IInv, Typed
<1> HIDE DEF f
<1>5. /\ request' \in [Job -> [Buttons -> Step]] /\ request'[j][k] = "written"
      /\ \A i \in Job, l \in Buttons : <<i, l>> # <<j, k>> => request'[i][l] = request[i][l]
  BY <1>2, RequestFacts DEF Step
<1>6. Typed' /\ LoadsOK'
  BY <1>2, <1>4, <1>5 DEF IInv, Typed, LoadsOK
<1>7. OneRequest'
  BY <1>2, <1>5 DEF IInv, OneRequest
<1>8. Awake'
  BY <1>5, OpenIsAwake
<1>9. ASSUME NEW s \in Slot PROVE LoadFollows(s)'
  <2>1. DOMAIN load[s].seen \subseteq Job
    BY SeenFacts DEF IInv, Typed, LoadState
  <2>2. Stirred(j)'
    BY <1>5 DEF Stirred
  <2>3. \A i \in Job \ {j} : Stirred(i)' <=> Stirred(i)
    BY <1>5 DEF Stirred
  <2>4. QED BY <1>2, <1>4, <2>1, <2>2, <2>3 DEF IInv, LoadFollows
<1>10. QED BY <1>6, <1>7, <1>8, <1>9 DEF IInv, ViewFollows

LEMMA RespondStep ==
  ASSUME IInv, NEW j \in Job, NEW k \in Buttons, Respond(j, k)
  PROVE  IInv'
<1>1. PICK answer \in {"ok", "refused"} :
        /\ request' = [request EXCEPT ![j][k] = answer]
        /\ loose' = IF answer = "refused" /\ request[j][k] = "written" THEN loose \cup {j} ELSE loose
  BY DEF Respond
<1>2. request[j][k] \in {"sent", "written"} /\ UNCHANGED <<file, load, view, error, actionId>>
  BY DEF Respond
<1>3. /\ request' \in [Job -> [Buttons -> Step]] /\ request'[j][k] = answer
      /\ \A i \in Job, l \in Buttons : <<i, l>> # <<j, k>> => request'[i][l] = request[i][l]
  <2>1. answer \in Step
    BY DEF Step
  <2>2. QED BY <1>1, <2>1, RequestFacts
<1>4. /\ loose \subseteq loose' /\ loose' \subseteq Job
      /\ j \notin loose' => answer = "ok" \/ request[j][k] # "written"
  BY <1>1 DEF IInv, Typed
<1>5. Typed' /\ LoadsOK'
  BY <1>2, <1>3, <1>4 DEF IInv, Typed, LoadsOK
<1>6. OneRequest'
  BY <1>1, <1>2, <1>3, <1>4 DEF IInv, OneRequest
<1>7. Awake'
  BY <1>3, OpenIsAwake
<1>8. \A i \in Job \ loose' : Stirred(i) => Stirred(i)'
  <2>1. \A i \in Job \ {j} : Stirred(i)' <=> Stirred(i)
    BY <1>3 DEF Stirred
  <2>2. j \notin loose' /\ Stirred(j) => Stirred(j)'
    <3>1. SUFFICES ASSUME j \notin loose', Stirred(j) PROVE Stirred(j)'
      OBVIOUS
    <3>2. request[j][k] = "written"
      BY <1>2, <1>4, <3>1, StirredFacts
    <3>3. QED BY <1>3, <1>4, <3>1, <3>2 DEF Stirred
  <2>3. QED BY <2>1, <2>2
<1>9. ASSUME NEW s \in Slot PROVE LoadFollows(s)'
  <2>1. DOMAIN load[s].seen \subseteq Job
    BY SeenFacts DEF IInv, Typed, LoadState
  <2>2. QED BY <1>2, <1>4, <1>8, <2>1 DEF IInv, LoadFollows
<1>10. QED BY <1>5, <1>6, <1>7, <1>9 DEF IInv, ViewFollows

-----------------------------------------------------------------------------
(* Steps of a button.                                                      *)

LEMMA PressStep ==
  ASSUME IInv, NEW j \in Job, NEW k \in Buttons, Press(j, k)
  PROVE  IInv'
<1>1. /\ request[j][k] = "idle" /\ request' = [request EXCEPT ![j][k] = "sent"]
      /\ actionId' = j /\ error' = FALSE /\ UNCHANGED <<file, load, view>>
      /\ loose' = IF \E b \in Buttons : <<j, b>> \in Open THEN loose \cup {j} ELSE loose
  BY DEF Press
<1>2. /\ request' \in [Job -> [Buttons -> Step]] /\ request'[j][k] = "sent"
      /\ \A i \in Job, l \in Buttons : <<i, l>> # <<j, k>> => request'[i][l] = request[i][l]
  BY <1>1, RequestFacts DEF Step
<1>3. /\ loose \subseteq loose' /\ loose' \subseteq Job
      /\ j \notin loose' => \A b \in Buttons : request[j][b] = "idle"
  BY <1>1, OpenRequests DEF IInv, Typed
<1>4. Typed' /\ LoadsOK'
  BY <1>1, <1>2, <1>3 DEF IInv, Typed, LoadsOK
<1>5. OneRequest'
  BY <1>2, <1>3 DEF IInv, OneRequest
<1>6. Awake'
  BY <1>2, OpenIsAwake
<1>7. \A i \in Job : Stirred(i) => Stirred(i)'
  BY <1>1, <1>2 DEF Stirred
<1>8. ASSUME NEW s \in Slot PROVE LoadFollows(s)'
  <2>1. DOMAIN load[s].seen \subseteq Job
    BY SeenFacts DEF IInv, Typed, LoadState
  <2>2. QED BY <1>1, <1>3, <1>7, <2>1 DEF IInv, LoadFollows
<1>9. QED BY <1>4, <1>5, <1>6, <1>8 DEF IInv, ViewFollows

\* An answer starts a load that abandons every other, or shows an error.
LEMMA AnsweredStep ==
  ASSUME IInv, NEW j \in Job, NEW k \in Buttons, Answered(j, k)
  PROVE  IInv'
<1>1. /\ request' = [request EXCEPT ![j][k] = "idle"] /\ actionId' = None
      /\ UNCHANGED <<file, view, loose>>
  BY DEF Answered
<1>2. /\ request' \in [Job -> [Buttons -> Step]] /\ request'[j][k] = "idle"
      /\ \A i \in Job, l \in Buttons : <<i, l>> # <<j, k>> => request'[i][l] = request[i][l]
  BY <1>1, RequestFacts DEF Step
<1>3. OneRequest'
  BY <1>1, <1>2 DEF IInv, OneRequest
<1>4. CASE request[j][k] = "ok" /\ Refresh /\ UNCHANGED error
  <2>1. PICK s \in Slot : load' = [t \in Slot |->
         IF t = s THEN NewLoad
         ELSE IF load[t].at = "timer" THEN NoLoad ELSE [load[t] EXCEPT !.live = FALSE]]
    BY <1>4 DEF Refresh
  <2>2. ASSUME NEW t \in Slot \ {s}
        PROVE  load'[t] \in LoadState /\ load'[t].live = FALSE /\ load'[t].at # "timer"
    <3>1. load[t] \in LoadState
      BY DEF IInv, Typed
    <3>2. [load[t] EXCEPT !.live = FALSE] \in LoadState
      BY <3>1 DEF LoadState
    <3>3. CASE load[t].at = "timer"
      BY <2>1, <3>3, Loads
    <3>4. CASE load[t].at # "timer"
      <4>1. load'[t] = [load[t] EXCEPT !.live = FALSE]
        BY <2>1, <3>4
      <4>2. QED BY <3>1, <3>2, <3>4, <4>1 DEF LoadState
    <3>5. QED BY <3>3, <3>4
  <2>3. load'[s] = NewLoad
    BY <2>1
  <2>4. load' \in [Slot -> LoadState]
    <3>1. \A t \in Slot : load'[t] \in LoadState
      BY <2>2, <2>3, Loads
    <3>2. load' = [t \in Slot |-> load'[t]]
      BY <2>1
    <3>3. QED BY <3>1, <3>2
  <2>5. Typed'
    BY <1>1, <1>2, <1>4, <2>4 DEF IInv, Typed
  <2>6. LoadsOK'
    BY <2>2, <2>3, Loads DEF LoadsOK
  <2>7. Awake'
    BY <2>3, Loads DEF Awake
  <2>8. \A t \in Slot : LoadFollows(t)'
    BY <2>2, <2>3, Loads, SeenFacts DEF LoadFollows
  <2>9. QED BY <1>3, <2>5, <2>6, <2>7, <2>8 DEF IInv, ViewFollows
<1>5. CASE request[j][k] = "refused" /\ error' = TRUE /\ UNCHANGED load
  <2>1. Typed' /\ LoadsOK'
    BY <1>1, <1>2, <1>5 DEF IInv, Typed, LoadsOK
  <2>2. Awake'
    BY <1>5 DEF Awake
  <2>3. \A i \in Job \ loose : Stirred(i) => Stirred(i)'
    <3>1. \A i \in Job \ {j} : Stirred(i) => Stirred(i)'
      BY <1>2 DEF Stirred
    <3>2. j \notin loose => ~Stirred(j)
      BY <1>5, StirredFacts
    <3>3. QED BY <3>1, <3>2
  <2>4. ASSUME NEW s \in Slot PROVE LoadFollows(s)'
    <3>1. DOMAIN load[s].seen \subseteq Job
      BY SeenFacts DEF IInv, Typed, LoadState
    <3>2. QED BY <1>1, <1>5, <2>3, <3>1 DEF IInv, LoadFollows
  <2>5. QED BY <1>3, <2>1, <2>2, <2>4 DEF IInv, ViewFollows
<1>6. QED BY <1>4, <1>5 DEF Answered

-----------------------------------------------------------------------------
(* The whole page.                                                         *)

LEMMA Initially == Init => IInv
<1> SUFFICES ASSUME Init PROVE IInv
  OBVIOUS
<1>1. PICK s \in Slot : load = [t \in Slot |-> IF t = s THEN NewLoad ELSE NoLoad]
  BY DEF Init
<1>2. /\ file \in [Job -> FileState] /\ view = None /\ error = FALSE
      /\ request = [j \in Job |-> [k \in Buttons |-> "idle"]] /\ actionId = None /\ loose = {}
  BY DEF Init, FileState
<1>3. Typed
  BY <1>1, <1>2, Loads DEF Typed, Step
<1>4. LoadsOK /\ OneRequest /\ ViewFollows
  BY <1>1, <1>2, Loads DEF LoadsOK, OneRequest, ViewFollows
<1>5. \A t \in Slot : LoadFollows(t)
  BY <1>1, Loads, SeenFacts DEF LoadFollows
<1>6. QED BY <1>3, <1>4, <1>5 DEF IInv

LEMMA Inductive == IInv /\ [Next]_vars => IInv'
<1> SUFFICES ASSUME IInv, [Next]_vars PROVE IInv'
  OBVIOUS
<1>1. CASE UNCHANGED vars
  BY <1>1 DEF vars, IInv, Typed, LoadsOK, OneRequest, ViewFollows, Awake, Open, LoadFollows, Stirred
<1>2. CASE \E j \in Job : Moves(j)
  BY <1>2, MovesStep
<1>3. CASE \E s \in Slot : Loaded(s) \/ RefuseLoad(s) \/ LoadFails(s) \/ LoadAgain(s)
  BY <1>3, LoadedStep, RefusedStep, FailStep, AgainStep
<1>4. CASE \E s \in Slot, j \in Job : ReadJob(s, j)
  BY <1>4, ReadStep
<1>5. CASE \E j \in Job, k \in Buttons : Press(j, k) \/ Write(j, k) \/ Respond(j, k) \/ Answered(j, k)
  BY <1>5, PressStep, WriteStep, RespondStep, AnsweredStep
<1>6. QED BY <1>1, <1>2, <1>3, <1>4, <1>5 DEF Next

\* The inductive invariant holds of every results page.
THEOREM Invariance == Spec => []IInv
BY Initially, Inductive, PTL DEF Spec

\* Every file, load and request has its type, and one load at most may be shown.
THEOREM TypeCorrect == Spec => []TypeOK
<1>1. IInv => TypeOK
  <2>1. ASSUME IInv, NEW s \in Slot PROVE \A j \in DOMAIN load[s].seen : load[s].seen[j] \in ShownJob
    BY <2>1, SeenFacts DEF IInv, Typed, LoadState
  <2>2. QED BY <2>1 DEF IInv, Typed, LoadsOK, TypeOK, FileState, LoadState, Step
<1>2. QED BY <1>1, Invariance, PTL

\* A page that sleeps shows what is: reading the jobs at different times, answers in
\* any order and abandoned loads never leave it with an older result.
THEOREM QuietIsCurrent == Spec => []QuietPageIsCurrent
<1>1. IInv => QuietPageIsCurrent
  <2>1. IInv /\ Quiet => view # None /\ ~Awake
    BY DEF IInv, LoadsOK, Quiet, Awake
  <2>2. QED BY <2>1 DEF IInv, ViewFollows, QuietPageIsCurrent
<1>2. QED BY <1>1, Invariance, PTL
=============================================================================
