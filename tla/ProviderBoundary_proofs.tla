----------------------- MODULE ProviderBoundary_proofs -----------------------
(***************************************************************************)
(* For every set of threads and providers and every number of attempts:    *)
(* types, the bound on requests sent after permission was withdrawn, the   *)
(* silence before permission was ever given, and the truth of the recorded *)
(* active provider.                                                        *)
(***************************************************************************)
EXTENDS ProviderBoundary, TLAPS

-----------------------------------------------------------------------------
(* What the operations on pipeline-control.json preserve, whatever the file  *)
(* holds.                                                                    *)

\* Every operation on the control file, present or not, yields a control.
LEMMA ControlOperations ==
  ASSUME NEW file \in Control \cup {NoControl},
         NEW mode \in ProviderExecutionMode,
         NEW provider \in Providers \cup {NoProvider}
  PROVE  /\ EnsurePipelineControl(file, mode) \in Control
         /\ SetProviderMode(file, mode) \in Control
         /\ ApproveProviderPhase(file) \in Control
         /\ RequestPipelineCancel(file) \in Control
         /\ ClearPipelineCancel(file) \in Control
         /\ BeginProviderCall(file, provider) \in Control
         /\ FinishProviderCall(file, provider) \in Control
         /\ ClearStaleProviderActivity(file) \in Control \cup {NoControl}
<1>1. \A m \in ProviderExecutionMode : Existing(file, m) \in Control
  BY DEF Existing, NewControl, Control
<1>2. GetPipelineControl(file) \in Control
  BY <1>1 DEF GetPipelineControl, ProviderExecutionMode
<1>3. "REQUIRE_APPROVAL" \in ProviderExecutionMode /\ "AUTO_CONTINUE" \in ProviderExecutionMode
  BY DEF ProviderExecutionMode
<1>4. EnsurePipelineControl(file, mode) \in Control
  BY <1>1 DEF EnsurePipelineControl
<1>5. SetProviderMode(file, mode) \in Control
  <2>1. \A c \in Control :
          [c EXCEPT !.provider_mode     = mode,
                    !.provider_approved = IF mode = "AUTO_CONTINUE" THEN @ ELSE FALSE,
                    !.cancel_requested  = FALSE] \in Control
    BY DEF Control
  <2>2. QED BY <2>1, <1>1 DEF SetProviderMode
<1>6. ApproveProviderPhase(file) \in Control
  <2>1. \A c \in Control :
          [c EXCEPT !.provider_mode     = "REQUIRE_APPROVAL",
                    !.provider_approved = TRUE,
                    !.cancel_requested  = FALSE] \in Control
    BY <1>3 DEF Control
  <2>2. QED BY <2>1, <1>1, <1>3 DEF ApproveProviderPhase
<1>7. RequestPipelineCancel(file) \in Control /\ ClearPipelineCancel(file) \in Control
  BY <1>1, <1>3 DEF RequestPipelineCancel, ClearPipelineCancel, Control
<1>8. BeginProviderCall(file, provider) \in Control
  BY <1>2 DEF BeginProviderCall, Control
<1>9. FinishProviderCall(file, provider) \in Control
  BY <1>2 DEF FinishProviderCall, Control
<1>10. ClearStaleProviderActivity(file) \in Control \cup {NoControl}
  BY DEF ClearStaleProviderActivity, Control
<1>11. QED BY <1>4, <1>5, <1>6, <1>7, <1>8, <1>9, <1>10

\* Only a call's begin, its end and startup recovery touch active_provider; a
\* user's operation on an existing file never does.
LEMMA UserKeepsActive ==
  ASSUME NEW file \in Control, NEW mode \in ProviderExecutionMode
  PROVE  /\ EnsurePipelineControl(file, mode).active_provider = file.active_provider
         /\ SetProviderMode(file, mode).active_provider = file.active_provider
         /\ ApproveProviderPhase(file).active_provider = file.active_provider
         /\ RequestPipelineCancel(file).active_provider = file.active_provider
         /\ ClearPipelineCancel(file).active_provider = file.active_provider
BY ControlAssumption DEF EnsurePipelineControl, SetProviderMode, ApproveProviderPhase,
     RequestPipelineCancel, ClearPipelineCancel, Existing, Control

-----------------------------------------------------------------------------
(* The inductive invariant: late requests are attempts of the call in      *)
(* progress, and permission, once seen, explains every call.               *)

InCall(c) == Outbound(c) => late[c] <= caller[c].attempt /\ granted

\* A thread about to send has an attempt left.
HasRoom(c) ==
  caller[c].at \in {"begun", "cleared", "backoff"} => caller[c].attempt < MaxAttempts

\* The recorded provider is that of some thread in a call, unless startup could
\* not see the record.
ActiveHasCaller ==
  up /\ ~blind /\ control # NoControl /\ control.active_provider # NoProvider
    => \E c \in Callers : Outbound(c) /\ caller[c].provider = control.active_provider

\* A call that met no other one is alone, and recorded.
Undisturbed ==
  \A c \in Callers \ crossed :
    Outbound(c) => /\ control # NoControl
                   /\ control.active_provider = caller[c].provider
                   /\ \A d \in Callers \ {c} : ~Outbound(d)

IInv ==
  /\ TypeOK
  /\ ~up => \A c \in Callers : ~Outbound(c)
  /\ FileAllows(control) => granted /\ \A c \in Callers : late[c] = 0
  /\ \A c \in Callers : InCall(c) /\ late[c] <= MaxAttempts
  /\ \A c \in Callers : caller[c].at # "idle" => control # NoControl
  /\ \A c \in Callers : ~Outbound(c) => caller[c].attempt = 0
  /\ \A c \in Callers : HasRoom(c)
  /\ ActiveHasCaller
  /\ Undisturbed

\* What Observe does to the history, for a step that posts from one thread
\* at most.
LEMMA ObserveFacts ==
  ASSUME TypeOK, NEW posting \in SUBSET Callers, Observe(posting)
  PROVE  /\ late' \in [Callers -> Nat] /\ granted' \in BOOLEAN
         /\ granted => granted'
         /\ FileAllows(control') => granted' /\ \A c \in Callers : late'[c] = 0
         /\ \A c \in Callers \ posting : late'[c] <= late[c]
         /\ \A c \in posting : late'[c] <= late[c] + 1
         /\ crossed' \in SUBSET Callers /\ blind' \in BOOLEAN
         /\ \A c \in Callers \ crossed' :
              Outbound(c)' => c \notin crossed /\ \A d \in Callers \ {c} : ~Outbound(d)'
         /\ up' = up => (blind' <=> blind /\ \A c \in Callers : Outbound(c)' => Outbound(c))
         /\ ~up /\ up' => (blind' <=> ~reported)
<1>1. FileAllows(control') \in BOOLEAN
  BY DEF FileAllows, ProviderAllowed, NotCancelled, PolicyAllows
<1>2. \A c \in Callers : late[c] \in Nat
  BY DEF TypeOK
<1>3. granted' = (granted \/ FileAllows(control'))
  BY DEF Observe
<1>4. late' = [c \in Callers |-> IF FileAllows(control') THEN 0
                 ELSE IF c \in posting THEN late[c] + 1 ELSE late[c]]
  BY DEF Observe
<1>5. late' \in [Callers -> Nat]
  BY <1>2, <1>4
<1>6. granted' \in BOOLEAN /\ (granted => granted') /\ (FileAllows(control') => granted')
  BY <1>1, <1>3 DEF TypeOK
<1>7. FileAllows(control') => \A c \in Callers : late'[c] = 0
  BY <1>4
<1>8. \A c \in Callers \ posting : late'[c] <= late[c]
  BY <1>2, <1>4
<1>9. \A c \in posting : late'[c] <= late[c] + 1
  BY <1>2, <1>4
<1>10. crossed' = {c \in Callers :
                    /\ Outbound(c)'
                    /\ c \in crossed \/ \E d \in Callers \ {c} : Outbound(d)'}
  BY DEF Observe
<1>11. blind' = IF ~up /\ up' THEN ~reported
               ELSE blind /\ \A c \in Callers : Outbound(c)' => Outbound(c)
  BY DEF Observe
<1>12. blind' \in BOOLEAN
       /\ (up' = up => (blind' <=> blind /\ \A c \in Callers : Outbound(c)' => Outbound(c)))
       /\ (~up /\ up' => (blind' <=> ~reported))
  <2>1. \A c \in Callers : Outbound(c)' \in BOOLEAN /\ Outbound(c) \in BOOLEAN
    BY DEF Outbound
  <2>2. (\A c \in Callers : Outbound(c)' => Outbound(c)) \in BOOLEAN
    OBVIOUS
  <2>3. up \in BOOLEAN /\ reported \in BOOLEAN /\ blind \in BOOLEAN
    BY DEF TypeOK
  <2> HIDE DEF TypeOK
  <2>4. CASE ~up /\ up'
    BY <1>11, <2>3, <2>4
  <2>5. CASE ~(~up /\ up')
    <3>1. blind' = (blind /\ \A c \in Callers : Outbound(c)' => Outbound(c))
      BY <1>11, <2>5
    <3>2. QED BY <2>2, <2>3, <2>5, <3>1
  <2>6. QED BY <2>4, <2>5
<1>13. QED BY <1>5, <1>6, <1>7, <1>8, <1>9, <1>10, <1>12

LEMMA Initially == Init => IInv
<1> SUFFICES ASSUME Init PROVE IInv
  OBVIOUS
<1> USE BoundaryAssumption
<1>1. TypeOK
  <2>1. Idle \in CallerState
    BY DEF Idle, CallerState, Place
  <2>2. QED BY <2>1 DEF Init, TypeOK
<1>2. ~FileAllows(control)
  BY DEF Init, FileAllows
<1>3. \A c \in Callers : ~Outbound(c) /\ late[c] = 0 /\ caller[c].at = "idle" /\ caller[c].attempt = 0
  BY DEF Init, Outbound, Idle
<1>4. ActiveHasCaller /\ Undisturbed
  BY <1>3 DEF Init, ActiveHasCaller, Undisturbed
<1>5. QED BY <1>1, <1>2, <1>3, <1>4 DEF IInv, InCall, HasRoom

\* A step that only rewrites the control file without touching the record of
\* the active call.
LEMMA ControlOnlyStep ==
  ASSUME IInv, UNCHANGED <<caller, up>>, reported' \in BOOLEAN, Observe({}),
         control' \in Control \cup {NoControl},
         control = NoControl /\ control' # NoControl => control'.active_provider = NoProvider,
         control # NoControl => /\ control' # NoControl
                                /\ control'.active_provider = control.active_provider
  PROVE  IInv'
<1>1. TypeOK'
  BY ObserveFacts DEF IInv, TypeOK
<1>3. (FileAllows(control) => granted /\ \A c \in Callers : late[c] = 0)'
  BY ObserveFacts DEF IInv
<1>4. (\A c \in Callers : InCall(c) /\ late[c] <= MaxAttempts)'
  <2> SUFFICES ASSUME NEW c \in Callers PROVE (InCall(c) /\ late[c] <= MaxAttempts)'
    OBVIOUS
  <2>1. late'[c] <= late[c] /\ late[c] \in Nat /\ late'[c] \in Nat /\ (granted => granted')
    BY ObserveFacts DEF IInv, TypeOK
  <2>2. caller[c].attempt \in Nat /\ MaxAttempts \in Nat
    BY BoundaryAssumption DEF IInv, TypeOK, CallerState
  <2>3. InCall(c) /\ late[c] <= MaxAttempts
    BY DEF IInv
  <2>4. QED BY <2>1, <2>2, <2>3 DEF InCall, Outbound
<1>5. (\A c \in Callers : caller[c].at # "idle" => control # NoControl)'
  BY DEF IInv
<1>6. (\A c \in Callers : ~Outbound(c) => caller[c].attempt = 0)'
      /\ (~up => \A c \in Callers : ~Outbound(c))'
  BY DEF IInv, Outbound
<1>7. ActiveHasCaller'
  <2>1. \A c \in Callers : Outbound(c)' <=> Outbound(c)
    BY DEF Outbound
  <2>2. blind' <=> blind
    BY <2>1, ObserveFacts DEF IInv
  <2>3. CASE control = NoControl
    BY <2>3 DEF ActiveHasCaller
  <2>4. CASE control # NoControl
    BY <2>1, <2>2, <2>4 DEF IInv, ActiveHasCaller
  <2>5. QED BY <2>3, <2>4
<1>8. (\A c \in Callers : HasRoom(c))'
  BY DEF IInv, HasRoom
<1>9. Undisturbed'
  <2>1. \A c \in Callers : Outbound(c)' <=> Outbound(c)
    BY DEF Outbound
  <2>2. \A c \in Callers \ crossed' : Outbound(c)' => c \notin crossed
    BY ObserveFacts DEF IInv
  <2>3. QED BY <2>1, <2>2 DEF IInv, Undisturbed
<1>10. QED BY <1>1, <1>3, <1>4, <1>5, <1>6, <1>7, <1>8, <1>9 DEF IInv

\* A step of one thread.  Outside a call it has made no attempt; inside one its
\* late requests are covered by its attempts; the file, if rewritten, still
\* names a thread in a call.
LEMMA CallerStep ==
  ASSUME IInv, NEW c \in Callers, NEW s \in CallerState, NEW posting \in SUBSET {c},
         caller' = [caller EXCEPT ![c] = s], up, UNCHANGED <<up, reported>>,
         Observe(posting), control' \in Control,
         late'[c] <= MaxAttempts,
         Outbound(c)' => late'[c] <= s.attempt /\ granted',
         ~Outbound(c)' => s.attempt = 0,
         s.at \in {"begun", "cleared", "backoff"} => s.attempt < MaxAttempts,
         ActiveHasCaller', Undisturbed'
  PROVE  IInv'
<1>1. posting \in SUBSET Callers
  OBVIOUS
<1>2. TypeOK'
  BY <1>1, ObserveFacts DEF IInv, TypeOK
<1>3. control' # NoControl
  BY ControlAssumption
<1>4. (FileAllows(control) => granted /\ \A d \in Callers : late[d] = 0)'
  BY <1>1, ObserveFacts DEF IInv
<1>5. ASSUME NEW d \in Callers PROVE (InCall(d) /\ late[d] <= MaxAttempts)'
  <2>1. CASE d = c
    BY <2>1 DEF InCall, IInv, TypeOK
  <2>2. CASE d # c
    <3>1. caller'[d] = caller[d]
      BY <2>2 DEF IInv, TypeOK
    <3>2. late'[d] <= late[d] /\ late[d] \in Nat /\ late'[d] \in Nat /\ (granted => granted')
      BY <1>1, <2>2, ObserveFacts DEF IInv, TypeOK
    <3>3. caller[d].attempt \in Nat /\ MaxAttempts \in Nat
      BY BoundaryAssumption DEF IInv, TypeOK, CallerState
    <3>4. InCall(d) /\ late[d] <= MaxAttempts
      BY DEF IInv
    <3>5. QED BY <3>1, <3>2, <3>3, <3>4 DEF InCall, Outbound
  <2>3. QED BY <2>1, <2>2
<1>6. (\A d \in Callers : caller[d].at # "idle" => control # NoControl)'
  BY <1>3
<1>7. ASSUME NEW d \in Callers PROVE (~Outbound(d) => caller[d].attempt = 0)'
  BY DEF IInv, TypeOK, Outbound
<1>8. ASSUME NEW d \in Callers PROVE HasRoom(d)'
  BY DEF IInv, TypeOK, HasRoom
<1>9. QED BY <1>2, <1>4, <1>5, <1>6, <1>7, <1>8 DEF IInv

LEMMA UserStep == IInv /\ UserAction => IInv'
<1> SUFFICES ASSUME IInv, UserAction PROVE IInv'
  OBVIOUS
<1>1. control \in Control \cup {NoControl}
  BY DEF IInv, TypeOK
<1>2. ASSUME NEW mode \in ProviderExecutionMode, StartEnsures(mode)
      PROVE  IInv'
  <2>1. control' \in Control
    BY <1>1, <1>2, ControlOperations DEF StartEnsures
  <2>2. control = NoControl => control'.active_provider = NoProvider
    BY <1>2 DEF StartEnsures, EnsurePipelineControl, Existing, NewControl
  <2>3. control \in Control => control'.active_provider = control.active_provider
    BY <1>2, UserKeepsActive DEF StartEnsures
  <2>4. QED
    BY <1>1, <1>2, <2>1, <2>2, <2>3, ControlOnlyStep, ControlAssumption
    DEF StartEnsures, IInv, TypeOK
<1>3. ASSUME NEW mode \in ProviderExecutionMode, ChangeMode(mode)
      PROVE  IInv'
  <2>1. control' \in Control /\ control \in Control
    BY <1>1, <1>3, ControlOperations DEF ChangeMode
  <2>2. control'.active_provider = control.active_provider
    BY <1>3, <2>1, UserKeepsActive DEF ChangeMode
  <2>3. QED
    BY <1>3, <2>1, <2>2, ControlOnlyStep, ControlAssumption DEF ChangeMode, IInv, TypeOK
<1>4. ASSUME Approve \/ RequestCancel \/ ClearCancel PROVE IInv'
  <2>1. "AUTO_CONTINUE" \in ProviderExecutionMode
    BY DEF ProviderExecutionMode
  <2>2. control \in Control
    BY <1>1, <1>4 DEF Approve, RequestCancel, ClearCancel
  <2>3. control' \in Control
    BY <1>1, <1>4, <2>1, ControlOperations DEF Approve, RequestCancel, ClearCancel
  <2>4. control'.active_provider = control.active_provider
    BY <1>4, <2>1, <2>2, UserKeepsActive DEF Approve, RequestCancel, ClearCancel
  <2>5. QED
    BY <1>4, <2>2, <2>3, <2>4, ControlOnlyStep, ControlAssumption
    DEF Approve, RequestCancel, ClearCancel, IInv, TypeOK
<1>5. CASE PersistReport
  BY <1>1, <1>5, ControlOnlyStep DEF PersistReport
<1>6. QED BY <1>2, <1>3, <1>4, <1>5 DEF UserAction

\* A thread that stays in its call, or stays out of it, keeps the record true.
LEMMA ActiveKept ==
  ASSUME IInv, NEW c \in Callers, NEW s \in CallerState,
         caller' = [caller EXCEPT ![c] = s], UNCHANGED <<control, up>>,
         NEW posting \in SUBSET Callers, Observe(posting),
         Outbound(c)' <=> Outbound(c), s.provider = caller[c].provider
  PROVE  ActiveHasCaller' /\ Undisturbed'
<1>1. \A d \in Callers : /\ Outbound(d)' <=> Outbound(d)
                         /\ caller'[d].provider = caller[d].provider
  BY DEF IInv, TypeOK, Outbound
<1>2. blind' <=> blind
  BY <1>1, ObserveFacts DEF IInv
<1>3. \A d \in Callers \ crossed' : Outbound(d)' => d \notin crossed
  BY ObserveFacts DEF IInv
<1>4. ActiveHasCaller'
  BY <1>1, <1>2 DEF IInv, ActiveHasCaller
<1>5. Undisturbed'
  BY <1>1, <1>3 DEF IInv, Undisturbed
<1>6. QED BY <1>4, <1>5

\* Steps that change neither the control file nor the history but for Post.
LEMMA MoveStep ==
  ASSUME IInv, NEW c \in Callers,
         \/ Recheck(c) \/ TransientFailure(c) \/ Return(c) \/ Leave(c) \/ Post(c)
  PROVE  IInv'
<1>1. caller[c] \in CallerState /\ late[c] \in Nat /\ MaxAttempts \in Nat
  BY BoundaryAssumption DEF IInv, TypeOK
<1>2. caller[c].at # "idle"
  BY DEF Recheck, TransientFailure, Return, Leave, Post, MayPost
<1>3. control # NoControl /\ control \in Control
  BY <1>2 DEF IInv, TypeOK
<1>4. InCall(c) /\ late[c] <= MaxAttempts /\ (~Outbound(c) => caller[c].attempt = 0) /\ HasRoom(c)
  BY DEF IInv
<1>5. ASSUME Recheck(c) \/ TransientFailure(c) \/ Return(c) \/ Leave(c) PROVE IInv'
  <2>1. PICK place \in Place :
           /\ Move(c, place)
           /\ Outbound(c) => place \in {"begun", "cleared", "inflight", "backoff", "returned"}
           /\ ~Outbound(c) => place = "idle"
           /\ place \in {"begun", "cleared", "backoff"} => caller[c].attempt < MaxAttempts
    BY <1>4, <1>5 DEF HasRoom, Recheck, TransientFailure, Return, Leave, Place, Outbound
  <2> DEFINE s == [caller[c] EXCEPT !.at = place]
  <2>2. s \in CallerState /\ s.provider = caller[c].provider /\ s.attempt = caller[c].attempt
    BY <1>1 DEF CallerState
  <2>3. caller' = [caller EXCEPT ![c] = s]
    BY <2>1 DEF Move, IInv, TypeOK
  <2>4. caller'[c] = s /\ s.at = place
    BY <2>3, <1>1 DEF IInv, TypeOK, CallerState
  <2>5. Outbound(c)' <=> Outbound(c)
    BY <2>1, <2>4 DEF Outbound
  <2>6. up /\ UNCHANGED <<control, up, reported>> /\ Observe({})
    BY <1>5 DEF Recheck, TransientFailure, Return, Leave
  <2>7. late'[c] <= late[c] /\ late'[c] \in Nat /\ (granted => granted')
    BY <2>6, ObserveFacts DEF IInv, TypeOK
  <2>8. ActiveHasCaller' /\ Undisturbed'
    BY <2>2, <2>3, <2>5, <2>6, ActiveKept
  <2>9. late'[c] <= MaxAttempts
    BY <1>1, <1>4, <2>7
  <2>10. Outbound(c)' => late'[c] <= s.attempt /\ granted'
    BY <1>1, <1>4, <2>2, <2>5, <2>7 DEF InCall, CallerState
  <2>11. ~Outbound(c)' => s.attempt = 0
    BY <1>4, <2>2, <2>5
  <2>12. control' \in Control
    BY <1>3, <2>6
  <2> HIDE DEF s
  <2>13. QED
    BY <2>1, <2>2, <2>3, <2>4, <2>6, <2>8, <2>9, <2>10, <2>11, <2>12, CallerStep
<1>6. ASSUME Post(c) PROVE IInv'
  <2> DEFINE s == [caller[c] EXCEPT !.at = "inflight", !.attempt = @ + 1]
  <2>1. Outbound(c)
    BY <1>6 DEF Post, MayPost, Outbound
  <2>2. /\ s \in CallerState /\ s.provider = caller[c].provider
        /\ s.attempt = caller[c].attempt + 1 /\ s.at = "inflight"
        /\ s.attempt <= MaxAttempts
    <3>1. caller[c].attempt \in 0..MaxAttempts /\ caller[c].attempt < MaxAttempts
      BY <1>1, <1>4, <1>6 DEF CallerState, Post, MayPost, HasRoom
    <3>2. caller[c].attempt + 1 \in 0..MaxAttempts /\ "inflight" \in Place
      BY <1>1, <3>1 DEF Place
    <3>3. s \in CallerState
      BY <1>1, <3>2 DEF CallerState
    <3>4. s.attempt = caller[c].attempt + 1 /\ s.at = "inflight" /\ s.provider = caller[c].provider
      BY <1>1 DEF CallerState
    <3>5. caller[c].attempt + 1 <= MaxAttempts
      BY <1>1, <3>1
    <3>6. QED BY <3>3, <3>4, <3>5
  <2>3. caller' = [caller EXCEPT ![c] = s]
    BY <1>6 DEF Post, IInv, TypeOK
  <2>4. Outbound(c)'
    BY <2>2, <2>3 DEF Outbound, IInv, TypeOK
  <2>5. up /\ UNCHANGED <<control, up, reported>> /\ Observe({c})
    BY <1>6 DEF Post
  <2>6. late'[c] <= late[c] + 1 /\ late'[c] \in Nat /\ (granted => granted')
    BY <2>5, ObserveFacts DEF IInv, TypeOK
  <2>7. ActiveHasCaller' /\ Undisturbed'
    BY <2>1, <2>2, <2>3, <2>4, <2>5, ActiveKept
  <2>8. late'[c] <= s.attempt /\ granted' /\ late'[c] <= MaxAttempts
    BY <1>1, <1>4, <2>1, <2>2, <2>6 DEF InCall, CallerState
  <2>9. control' \in Control
    BY <1>3, <2>5
  <2> HIDE DEF s
  <2>10. QED BY <2>2, <2>3, <2>4, <2>5, <2>7, <2>8, <2>9, CallerStep
<1>7. QED BY <1>5, <1>6
LEMMA EnterStep == ASSUME IInv, NEW c \in Callers, Enter(c) PROVE IInv'
<1> DEFINE s == [caller[c] EXCEPT !.at = "ready"]
<1>1. control \in Control \cup {NoControl} /\ caller[c] \in CallerState /\ ~Outbound(c)
  BY DEF IInv, TypeOK, Enter, Outbound
<1>2. "REQUIRE_APPROVAL" \in ProviderExecutionMode
  BY DEF ProviderExecutionMode
<1>3. control' \in Control
  BY <1>1, <1>2, ControlOperations DEF Enter
<1>4. /\ s \in CallerState /\ s.at = "ready" /\ s.attempt = caller[c].attempt
      /\ caller' = [caller EXCEPT ![c] = s]
  BY <1>1 DEF Enter, Move, CallerState, Place, IInv, TypeOK
<1>5. ~Outbound(c)' /\ \A d \in Callers : d # c => caller'[d] = caller[d]
  BY <1>4 DEF Outbound, IInv, TypeOK
<1>6. Observe({}) /\ up /\ UNCHANGED <<up, reported>>
  BY DEF Enter
<1>7. late'[c] <= late[c] /\ late'[c] \in Nat /\ late[c] \in Nat
  BY <1>6, ObserveFacts DEF IInv, TypeOK
<1>8. late[c] <= MaxAttempts /\ MaxAttempts \in Nat /\ caller[c].attempt = 0
  BY <1>1, BoundaryAssumption DEF IInv
<1>9. ActiveHasCaller'
  <2>1. CASE control = NoControl
    BY <2>1 DEF Enter, EnsurePipelineControl, Existing, NewControl, ActiveHasCaller
  <2>2. CASE control \in Control
    <3>1. control'.active_provider = control.active_provider /\ control # NoControl
      BY <1>2, <2>2, UserKeepsActive, ControlAssumption DEF Enter
    <3>2. \A d \in Callers : Outbound(d) => Outbound(d)' /\ caller'[d] = caller[d]
      BY <1>1, <1>5 DEF Outbound
    <3>3. blind' <=> blind
      BY <1>1, <1>5, <1>6, ObserveFacts DEF Outbound, IInv
    <3>4. QED BY <1>6, <3>1, <3>2, <3>3 DEF IInv, ActiveHasCaller
  <2>3. QED BY <1>1, <2>1, <2>2
<1>10. late'[c] <= MaxAttempts /\ s.attempt = 0
  BY <1>4, <1>7, <1>8
<1>11. Undisturbed'
  <2>1. \A d \in Callers \ crossed' : Outbound(d)' => d \notin crossed
    BY <1>6, ObserveFacts DEF IInv
  <2>2. \A d \in Callers : Outbound(d)' <=> Outbound(d)
    BY <1>1, <1>5 DEF Outbound
  <2>3. ASSUME NEW d \in Callers \ crossed', Outbound(d)'
        PROVE  /\ control # NoControl /\ control.active_provider = caller[d].provider
               /\ \A e \in Callers \ {d} : ~Outbound(e)
    BY <2>1, <2>2, <2>3 DEF IInv, Undisturbed
  <2>4. control # NoControl =>
          /\ control' # NoControl /\ control'.active_provider = control.active_provider
    BY <1>1, <1>2, <1>3, UserKeepsActive, ControlAssumption DEF Enter
  <2>5. QED BY <1>1, <1>5, <2>2, <2>3, <2>4 DEF Undisturbed
<1> HIDE DEF s
<1>12. QED BY <1>3, <1>4, <1>5, <1>6, <1>9, <1>10, <1>11, CallerStep

LEMMA BeginStep ==
  ASSUME IInv, NEW c \in Callers, NEW provider \in Providers, Begin(c, provider)
  PROVE  IInv'
<1> DEFINE s == [at |-> "begun", provider |-> provider, attempt |-> 0]
<1>1. control # NoControl /\ control \in Control /\ caller[c] \in CallerState
  BY DEF IInv, TypeOK, Begin, Cross
<1>2. FileAllows(control) /\ granted /\ late[c] = 0
  BY <1>1 DEF FileAllows, Begin, Cross, IInv
<1>3. control' \in Control
  BY <1>1, ControlOperations DEF Begin, Cross, ProviderExecutionMode
<1>4. /\ s \in CallerState /\ s.at = "begun" /\ s.attempt = 0 /\ s.provider = provider
      /\ caller' = [caller EXCEPT ![c] = s]
  BY BoundaryAssumption DEF Begin, Cross, CallerState, Place
<1>5. Outbound(c)' /\ caller'[c] = s
  BY <1>4 DEF Outbound, IInv, TypeOK
<1>6. Observe({}) /\ up /\ UNCHANGED <<up, reported>>
  BY DEF Begin, Cross
<1>7. late'[c] <= late[c] /\ late'[c] \in Nat /\ granted'
  BY <1>2, <1>6, ObserveFacts DEF IInv, TypeOK
<1>8. control'.active_provider = provider
  BY <1>1 DEF Begin, Cross, BeginProviderCall, GetPipelineControl, Existing, Control
<1>9. ActiveHasCaller'
  BY <1>4, <1>5, <1>8 DEF ActiveHasCaller
<1>10. late'[c] <= MaxAttempts /\ late'[c] <= s.attempt /\ s.attempt < MaxAttempts
  BY <1>2, <1>4, <1>7, BoundaryAssumption
<1>11. Undisturbed'
  <2>1. \A d \in Callers \ crossed' : Outbound(d)' => \A e \in Callers \ {d} : ~Outbound(e)'
    BY <1>6, ObserveFacts DEF IInv
  <2>2. \A d \in Callers \ crossed' : Outbound(d)' => d = c
    BY <1>5, <2>1
  <2>3. QED BY <1>3, <1>4, <1>5, <1>8, <2>1, <2>2, ControlAssumption DEF Undisturbed
<1> HIDE DEF s
<1>12. QED BY <1>3, <1>4, <1>5, <1>6, <1>7, <1>9, <1>10, <1>11, CallerStep

LEMMA FinishStep == ASSUME IInv, NEW c \in Callers, Finish(c) PROVE IInv'
<1> DEFINE s == [Idle EXCEPT !.at = "ready"]
<1>1. control # NoControl /\ control \in Control /\ caller[c] \in CallerState
  BY DEF IInv, TypeOK, Finish
<1>2. control' \in Control
  BY <1>1, ControlOperations DEF Finish, CallerState, ProviderExecutionMode
<1>3. /\ s \in CallerState /\ s.at = "ready" /\ s.attempt = 0
      /\ caller' = [caller EXCEPT ![c] = s]
  BY BoundaryAssumption DEF Finish, CallerState, Place, Idle
<1>4. ~Outbound(c)' /\ \A d \in Callers : d # c => caller'[d] = caller[d]
  BY <1>3 DEF Outbound, IInv, TypeOK
<1>5. Observe({}) /\ up /\ UNCHANGED <<up, reported>>
  BY DEF Finish
<1>6. late'[c] <= late[c] /\ late'[c] \in Nat /\ late[c] \in Nat
  BY <1>5, ObserveFacts DEF IInv, TypeOK
<1>7. late[c] <= MaxAttempts /\ MaxAttempts \in Nat
  BY BoundaryAssumption DEF IInv
<1>8. ActiveHasCaller'
  <2>1. CASE control.active_provider = caller[c].provider
    BY <1>1, <2>1 DEF Finish, FinishProviderCall, GetPipelineControl, Existing, Control,
       ActiveHasCaller
  <2>2. CASE control.active_provider # caller[c].provider
    <3>1. control' = control
      BY <1>1, <2>2 DEF Finish, FinishProviderCall, GetPipelineControl, Existing
    <3>2. ASSUME ActiveHasCaller, up, ~blind, control.active_provider # NoProvider
          PROVE  \E d \in Callers : Outbound(d)' /\ caller'[d].provider = control.active_provider
      <4>1. PICK d \in Callers : Outbound(d) /\ caller[d].provider = control.active_provider
        BY <1>1, <3>2 DEF ActiveHasCaller
      <4>2. d # c
        BY <2>2, <4>1
      <4>3. QED BY <1>4, <4>1, <4>2 DEF Outbound
    <3>3. blind' <=> blind
      <4>1. \A d \in Callers : Outbound(d)' => Outbound(d)
        BY <1>4 DEF Outbound
      <4>2. QED BY <1>5, <4>1, ObserveFacts DEF IInv
    <3>4. QED BY <1>5, <3>1, <3>2, <3>3 DEF IInv, ActiveHasCaller
  <2>3. QED BY <2>1, <2>2
<1>9. late'[c] <= MaxAttempts
  BY <1>6, <1>7
<1>10. Undisturbed'
  <2>1. \A d \in Callers \ crossed' : Outbound(d)' => d \notin crossed
    BY <1>5, ObserveFacts DEF IInv
  <2>2. Outbound(c)
    BY DEF Finish, Outbound
  <2>3. ASSUME NEW d \in Callers \ crossed', Outbound(d)' PROVE FALSE
    <3>1. d # c /\ Outbound(d) /\ d \notin crossed
      BY <1>4, <2>1, <2>3 DEF Outbound
    <3>2. QED BY <2>2, <3>1 DEF IInv, Undisturbed
  <2>4. QED BY <2>3 DEF Undisturbed
<1> HIDE DEF s
<1>11. QED BY <1>2, <1>3, <1>4, <1>5, <1>8, <1>9, <1>10, CallerStep

\* After an exit no thread is in a call; startup clears the record where it finds
\* a report.
LEMMA RestartStep == IInv /\ (Exit \/ Startup) => IInv'
<1> SUFFICES ASSUME IInv, Exit \/ Startup PROVE IInv'
  OBVIOUS
<1>1. Observe({})
  BY DEF Exit, Startup
<1>2. Idle \in CallerState
  BY BoundaryAssumption DEF Idle, CallerState, Place
<1>3. control' \in Control \cup {NoControl} /\ (control # NoControl => control' # NoControl)
  <2>1. CASE Exit
    BY <2>1 DEF Exit, IInv, TypeOK
  <2>2. CASE Startup
    <3>1. control' \in Control \cup {NoControl}
      BY <2>2, ControlOperations
      DEF Startup, IInv, TypeOK, ProviderExecutionMode
    <3>2. control # NoControl => control' \in Control
      BY <2>2 DEF Startup, ClearStaleProviderActivity, Control, IInv, TypeOK
    <3>3. QED BY <3>1, <3>2, ControlAssumption
  <2>3. QED BY <2>1, <2>2
<1>4. caller' \in [Callers -> CallerState] /\ up' \in BOOLEAN /\ reported' \in BOOLEAN
  BY <1>2 DEF Exit, Startup, IInv, TypeOK
<1>5. TypeOK'
  BY <1>1, <1>3, <1>4, ObserveFacts DEF IInv, TypeOK
<1>6. (FileAllows(control) => granted /\ \A d \in Callers : late[d] = 0)'
  BY <1>1, ObserveFacts DEF IInv
<1>7. \A d \in Callers : caller'[d] = Idle \/ caller'[d] = caller[d]
  BY DEF Exit, Startup
<1>8. ASSUME NEW d \in Callers
      PROVE  /\ (InCall(d) /\ late[d] <= MaxAttempts)'
             /\ (~Outbound(d) => caller[d].attempt = 0)'
             /\ (caller[d].at # "idle" => control # NoControl)'
             /\ HasRoom(d)'
  <2>1. late'[d] <= late[d] /\ late[d] \in Nat /\ late'[d] \in Nat /\ (granted => granted')
    BY <1>1, ObserveFacts DEF IInv, TypeOK
  <2>2. caller[d].attempt \in Nat /\ MaxAttempts \in Nat
    BY BoundaryAssumption DEF IInv, TypeOK, CallerState
  <2>3. InCall(d) /\ late[d] <= MaxAttempts /\ (~Outbound(d) => caller[d].attempt = 0)
        /\ HasRoom(d)
    BY DEF IInv
  <2>4. caller[d].at # "idle" => control # NoControl
    BY DEF IInv
  <2>5. CASE caller'[d] = Idle
    BY <2>1, <2>2, <2>3, <2>5 DEF InCall, Outbound, Idle, HasRoom
  <2>6. CASE caller'[d] = caller[d]
    BY <1>3, <2>1, <2>2, <2>3, <2>4, <2>6 DEF InCall, Outbound, HasRoom
  <2>7. QED BY <1>7, <2>5, <2>6
<1>9. ActiveHasCaller'
  <2>1. CASE Exit
    BY <2>1 DEF Exit, ActiveHasCaller
  <2>2. CASE Startup
    <3>1. blind' <=> ~reported
      BY <1>1, <2>2, ObserveFacts DEF Startup, IInv
    <3>2. CASE reported
      BY <2>2, <3>2 DEF Startup, ClearStaleProviderActivity, ActiveHasCaller, Control, IInv, TypeOK
    <3>3. CASE ~reported
      BY <3>1, <3>3 DEF ActiveHasCaller
    <3>4. QED BY <3>2, <3>3
  <2>3. QED BY <2>1, <2>2
<1>10. \A d \in Callers : ~Outbound(d)'
  BY DEF Exit, Startup, IInv, Outbound, Idle
<1>11. QED BY <1>5, <1>6, <1>8, <1>9, <1>10 DEF IInv, Undisturbed

LEMMA Inductive == IInv /\ [Next]_vars => IInv'
<1> SUFFICES ASSUME IInv, [Next]_vars PROVE IInv'
  OBVIOUS
<1>1. CASE UserAction
  BY <1>1, UserStep
<1>2. ASSUME NEW c \in Callers, Call(c) PROVE IInv'
  BY <1>2, EnterStep, BeginStep, FinishStep, MoveStep DEF Call
<1>3. CASE Exit \/ Startup
  BY <1>3, RestartStep
<1>4. CASE UNCHANGED vars
  BY <1>4 DEF vars, IInv, TypeOK, FileAllows, ProviderAllowed, NotCancelled, PolicyAllows,
     InCall, Outbound, ActiveHasCaller, Undisturbed, HasRoom
<1>5. QED BY <1>1, <1>2, <1>3, <1>4 DEF Next

THEOREM Invariance == Spec => []IInv
BY Initially, Inductive, PTL DEF Spec

\* Every variable keeps its type (pipeline_control.py, the provider clients).
THEOREM TypeCorrect == Spec => []TypeOK
<1>1. IInv => TypeOK
  BY DEF IInv
<1>2. QED BY <1>1, Invariance, PTL

\* For any number of threads, after the user withdraws permission each sends at
\* most the attempts of the one call it had begun.
THEOREM LateRequests == Spec => []LateRequestsBounded
<1>1. IInv => LateRequestsBounded
  BY DEF IInv, LateRequestsBounded
<1>2. QED BY <1>1, Invariance, PTL

\* Before the persisted control has allowed a call, nothing leaves.
THEOREM Ungranted == Spec => []NothingLeavesUngranted
<1>1. IInv => NothingLeavesUngranted
  BY DEF IInv, InCall, NothingLeavesUngranted
<1>2. QED BY <1>1, Invariance, PTL

\* The record of active calls is true in both directions, across any number of
\* exits and startups: a recorded provider is that of a thread in a call unless
\* startup found no report, and a call that met no other one stays recorded
\* (pipeline_control.py, pipeline_recovery.py).
THEOREM RecordTrue == Spec => []RecordIsTrue
<1>1. IInv => RecordIsTrue
  BY DEF IInv, ActiveHasCaller, Undisturbed, RecordIsTrue
<1>2. QED BY <1>1, Invariance, PTL
=============================================================================
