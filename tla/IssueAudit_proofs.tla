-------------------------- MODULE IssueAudit_proofs --------------------------
(***************************************************************************)
(* For every set of plans, contracts, models and threads, and any number   *)
(* of edits, retries, interruptions and overlapping runs: what an artifact *)
(* of the audit chain says of its upstream is true of its content.         *)
(***************************************************************************)
EXTENDS IssueAudit, TLAPS, SequenceTheorems

-----------------------------------------------------------------------------
(* What each thread is, by where it stands.                                *)

AtLegal == [at : {"legal"}, draft : LegalContext]
AtOpen == [at : {"opened", "compare"}, run : OpenRun]
AtFresh == [at : {"fresh"}, run : FreshRun]
AtContexts == [at : {"contexts"}, run : ContextsRun]
AtPrimary == [at : {"primary"}, run : PrimaryRun]
AtSecondary == [at : {"secondary"}, run : SecondaryRun]
AtReport == [at : {"report"}, draft : Comparison]

-----------------------------------------------------------------------------
(* The inductive invariant, value by value.  `now` is the corpus in force,  *)
(* `was` are those it has replaced.                                        *)

\* All evidence is from the corpus the draft names, unless that has been replaced.
Retrieving(l, now, was) ==
  /\ Len(l.evidence) <= Len(IssuesOf[l.plan])
  /\ \/ l.corpus \in was
     \/ l.corpus = now /\ \A k \in 1..Len(l.evidence) : l.evidence[k] = now

\* The results so far are those of the first issues of the plan, in its order,
\* from one state of the contract and of the legal context.
Ordered(p, results) ==
  /\ Len(results) <= Len(IssuesOf[p])
  /\ \A k \in 1..Len(results) : results[k].issue = IssuesOf[p][k]

FromContext(l, c, results) ==
  \A k \in 1..Len(results) : \E r \in Rules :
    results[k].context = Context(l, c, r, results[k].issue)

\* Contexts that were built from one legal context and one contract.
ShownBy(l, c, contexts) ==
  \A k \in 1..Len(contexts) : \E r \in Rules : contexts[k] = Context(l, c, r, contexts[k].issue)

\* A run has a context for every issue, from one contract, and so have its results.
OneSource(run, results) ==
  /\ run.contexts \in Seq(Given)
  /\ InPlanOrder(run.legal.plan, run.contexts)
  /\ \E c \in Contract :
       ShownBy(run.legal, c, run.contexts) /\ FromContext(run.legal, c, results)

\* Each review is one of a result of the audit, for the same issue.
Fits(audit, results) ==
  \A k \in 1..Len(results) : \E j \in 1..Len(audit.results) :
    audit.results[j] = results[k].reviewed /\ results[k].issue = audit.results[j].issue

LegalOK(l, now, was) == l \in LegalContext /\ Retrieved(l) /\ Retrieving(l, now, was)

PrimaryOK(a) ==
  /\ a \in PrimaryAudit
  /\ \E c \in Contract : FromContext(a.legal, c, a.results)
  /\ Ordered(a.legal.plan, a.results)
  /\ a.status = "COMPLETE" => InPlanOrder(a.legal.plan, a.results)

SecondaryOK(s) ==
  /\ s \in SecondaryReview
  /\ PrimaryOK(s.primary)
  /\ \A k \in 1..Len(s.results) : s.results[k].context.legal = s.legal
  /\ Fits(s.primary, s.results)
  /\ s.status = "COMPLETE" => IssuesIn(s.results) = IssuesIn(s.primary.results)

ReportOK(r) ==
  /\ r \in Comparison
  /\ PrimaryOK(r.primary) /\ SecondaryOK(r.secondary)
  /\ r.primary.status = "COMPLETE" /\ r.secondary.status = "COMPLETE"
  /\ r.secondary.primary = r.primary /\ r.secondary.legal = r.primary.legal

ContextsOK(run) ==
  /\ Ordered(run.legal.plan, run.contexts)
  /\ ShownBy(run.legal, run.contract, run.contexts)

FreshOK(run) ==
  /\ run.primary # NoFile => PrimaryOK(run.primary)
  /\ run.primary = NoFile => run.legal.plan = run.plan

PrimaryRunOK(run) ==
  /\ run.legal.plan = run.plan
  /\ Ordered(run.plan, run.results)
  /\ OneSource(run, run.results)

SecondaryRunOK(run) ==
  /\ PrimaryOK(run.primary)
  /\ PlanSet(run.plan) = IssuesIn(run.primary.results)
  /\ PlanSet(run.plan) = PlanSet(run.legal.plan)
  /\ Ordered(run.plan, run.results)
  /\ OneSource(run, run.results)
  /\ Fits(run.primary, run.old) /\ Fits(run.primary, run.results)

ThreadOK(s, now, was) ==
  /\ s.at = "legal" => Retrieving(s.draft, now, was)
  /\ s.at \in {"opened", "compare"} => PrimaryOK(s.run.primary)
  /\ s.at = "opened" => s.run.primary # NoFile
  /\ s.at = "fresh" => FreshOK(s.run)
  /\ s.at = "contexts" => FreshOK(s.run) /\ ContextsOK(s.run)
  /\ s.at = "primary" => PrimaryRunOK(s.run)
  /\ s.at = "secondary" => SecondaryRunOK(s.run)
  /\ s.at = "report" => ReportOK(s.draft)

InputsOK ==
  /\ contract \in Contract /\ rules \in Rules /\ corpus \in Corpus /\ past \subseteq Corpus
  /\ plan \in Plan \cup {NoFile}
  /\ ops \in 0..MaxOps

FilesOK ==
  /\ legal # NoFile => LegalOK(legal, corpus, past)
  /\ primary # NoFile => PrimaryOK(primary)
  /\ secondary # NoFile => SecondaryOK(secondary)
  /\ report # NoFile => ReportOK(report)

ThreadsOK ==
  /\ thread \in [Thread -> ThreadState]
  /\ \A t \in Thread : ThreadOK(thread[t], corpus, past)

IInv == InputsOK /\ FilesOK /\ ThreadsOK

-----------------------------------------------------------------------------
(* Sequences of results.                                                   *)

\* What appending one result does to a checkpoint.
LEMMA Appended ==
  ASSUME NEW S, NEW results \in Seq(S), NEW r \in S
  PROVE  /\ Append(results, r) \in Seq(S)
         /\ Len(results) \in Nat
         /\ Len(Append(results, r)) = Len(results) + 1
         /\ \A k \in 1..Len(results) : Append(results, r)[k] = results[k]
         /\ Append(results, r)[Len(results) + 1] = r
BY AppendProperties, LenProperties

\* A result for the next issue keeps the checkpoint in the order of the plan.
LEMMA OrderedAppend ==
  ASSUME NEW S, NEW p \in Plan, NEW results \in Seq(S), NEW r \in S,
         Ordered(p, results), Len(results) < Len(IssuesOf[p]),
         r.issue = IssuesOf[p][Len(results) + 1]
  PROVE  Ordered(p, Append(results, r))
<1>1. Len(IssuesOf[p]) \in Nat
  BY PlansAreSequences, LenProperties
<1>2. Len(Append(results, r)) = Len(results) + 1 /\ Len(results) \in Nat
  BY Appended
<1>3. ASSUME NEW k \in 1..Len(Append(results, r))
      PROVE  Append(results, r)[k].issue = IssuesOf[p][k]
  <2>1. CASE k \in 1..Len(results)
    BY <2>1, Appended DEF Ordered
  <2>2. CASE k = Len(results) + 1
    BY <2>2, Appended
  <2> QED
    BY <1>2, <2>1, <2>2
<1> QED
  BY <1>1, <1>2, <1>3 DEF Ordered

\* A result from one of the run's contexts keeps the checkpoint in one source.
LEMMA ContextAppend ==
  ASSUME NEW S, NEW l, NEW c, NEW results \in Seq(S), NEW x \in S,
         FromContext(l, c, results),
         \E r \in Rules : x.context = Context(l, c, r, x.issue)
  PROVE  FromContext(l, c, Append(results, x))
<1>2. Len(Append(results, x)) = Len(results) + 1 /\ Len(results) \in Nat
  BY Appended
<1>3. ASSUME NEW k \in 1..Len(Append(results, x))
      PROVE  \E r \in Rules :
               Append(results, x)[k].context = Context(l, c, r, Append(results, x)[k].issue)
  <2>1. CASE k \in 1..Len(results)
    BY <2>1, Appended DEF FromContext
  <2>2. CASE k = Len(results) + 1
    BY <2>2, Appended
  <2> QED
    BY <1>2, <2>1, <2>2
<1> QED
  BY <1>3 DEF FromContext

\* A context for the next issue.
LEMMA ShownAppend ==
  ASSUME NEW l, NEW c, NEW contexts \in Seq(Given), NEW x \in Given,
         ShownBy(l, c, contexts),
         \E r \in Rules : x = Context(l, c, r, x.issue)
  PROVE  ShownBy(l, c, Append(contexts, x))
<1>2. Len(Append(contexts, x)) = Len(contexts) + 1 /\ Len(contexts) \in Nat
  BY Appended
<1>3. ASSUME NEW k \in 1..Len(Append(contexts, x))
      PROVE  \E r \in Rules :
               Append(contexts, x)[k] = Context(l, c, r, Append(contexts, x)[k].issue)
  <2>1. CASE k \in 1..Len(contexts)
    BY <2>1, Appended DEF ShownBy
  <2>2. CASE k = Len(contexts) + 1
    BY <2>2, Appended
  <2> QED
    BY <1>2, <2>1, <2>2
<1> QED
  BY <1>3 DEF ShownBy

\* Every issue of the plan has its context in a run.
LEMMA ContextIsThere ==
  ASSUME NEW run, NEW p \in Plan, NEW i \in PlanSet(p), NEW l, NEW c,
         run.contexts \in Seq(Given), InPlanOrder(p, run.contexts),
         ShownBy(l, c, run.contexts)
  PROVE  /\ ContextFor(run, i) \in Given /\ ContextFor(run, i).issue = i
         /\ \E r \in Rules : ContextFor(run, i) = Context(l, c, r, i)
<1> DEFINE xs == {run.contexts[k] : k \in 1..Len(run.contexts)}
<1>1. \E x \in xs : x.issue = i
  <2>1. PICK k \in 1..Len(IssuesOf[p]) : i = IssuesOf[p][k]
    BY DEF PlanSet
  <2>2. k \in 1..Len(run.contexts) /\ run.contexts[k].issue = i
    BY <2>1 DEF InPlanOrder
  <2> QED
    BY <2>2
<1>2. ContextFor(run, i) \in xs /\ ContextFor(run, i).issue = i
  BY <1>1 DEF ContextFor
<1>3. PICK k \in 1..Len(run.contexts) : ContextFor(run, i) = run.contexts[k]
  BY <1>2
<1>4. run.contexts[k] \in Given
  BY ElementOfSeq
<1>5. \E r \in Rules : run.contexts[k] = Context(l, c, r, run.contexts[k].issue)
  BY DEF ShownBy
<1> QED
  BY <1>2, <1>3, <1>4, <1>5

\* A review of one of the audit's results, appended to others of them.
LEMMA FitsAppend ==
  ASSUME NEW S, NEW audit, NEW results \in Seq(S), NEW r \in S,
         Fits(audit, results),
         \E j \in 1..Len(audit.results) :
           audit.results[j] = r.reviewed /\ r.issue = audit.results[j].issue
  PROVE  Fits(audit, Append(results, r))
<1>2. Len(Append(results, r)) = Len(results) + 1 /\ Len(results) \in Nat
  BY Appended
<1>3. ASSUME NEW k \in 1..Len(Append(results, r))
      PROVE  \E j \in 1..Len(audit.results) :
               /\ audit.results[j] = Append(results, r)[k].reviewed
               /\ Append(results, r)[k].issue = audit.results[j].issue
  <2>1. CASE k \in 1..Len(results)
    BY <2>1, Appended DEF Fits
  <2>2. CASE k = Len(results) + 1
    BY <2>2, Appended
  <2> QED
    BY <1>2, <2>1, <2>2
<1> QED
  BY <1>3 DEF Fits

\* A run with no issue left has them all, in order.
LEMMA WholeRun ==
  ASSUME NEW S, NEW p \in Plan, NEW results \in Seq(S),
         Ordered(p, results), ~(Len(results) < Len(IssuesOf[p]))
  PROVE  InPlanOrder(p, results)
<1>1. Len(IssuesOf[p]) \in Nat /\ Len(results) \in Nat
  BY PlansAreSequences, LenProperties
<1> QED
  BY <1>1 DEF Ordered, InPlanOrder

\* Results in the order of the plan are results for the issues of the plan.
LEMMA WholeSet ==
  ASSUME NEW p \in Plan, NEW results, InPlanOrder(p, results)
  PROVE  IssuesIn(results) = PlanSet(p)
BY DEF InPlanOrder, IssuesIn, PlanSet

\* Nothing is in order, in every context, and fits every audit.
LEMMA NothingYet ==
  ASSUME NEW S, NEW p \in Plan, NEW l, NEW c, NEW audit
  PROVE  /\ <<>> \in Seq(S) /\ Ordered(p, <<>>)
         /\ FromContext(l, c, <<>>) /\ ShownBy(l, c, <<>>) /\ Fits(audit, <<>>)
<1>1. Len(IssuesOf[p]) \in Nat
  BY PlansAreSequences, LenProperties
<1> QED
  BY <1>1, EmptySeq DEF Ordered, FromContext, ShownBy, Fits

-----------------------------------------------------------------------------
(* What the state of a thread is, from where it stands.                    *)

LEMMA ThreadTypes ==
  ASSUME ThreadsOK, NEW t \in Thread
  PROVE  /\ thread[t].at = "legal" => thread[t] \in AtLegal
         /\ thread[t].at \in {"opened", "compare"} => thread[t] \in AtOpen
         /\ thread[t].at = "fresh" => thread[t] \in AtFresh
         /\ thread[t].at = "contexts" => thread[t] \in AtContexts
         /\ thread[t].at = "primary" => thread[t] \in AtPrimary
         /\ thread[t].at = "secondary" => thread[t] \in AtSecondary
         /\ thread[t].at = "report" => thread[t] \in AtReport
<1>1. thread[t] \in ThreadState
  BY DEF ThreadsOK
<1>2. thread[t] \in {Idle} \cup AtLegal \cup AtOpen \cup AtFresh \cup AtContexts \cup AtPrimary
                      \cup AtSecondary \cup AtReport
  BY <1>1 DEF ThreadState, AtLegal, AtOpen, AtFresh, AtContexts, AtPrimary, AtSecondary, AtReport
<1> QED
  BY <1>2 DEF Idle, AtLegal, AtOpen, AtFresh, AtContexts, AtPrimary, AtSecondary, AtReport

\* One thread moves, the corpus stays as it is.
LEMMA Moves ==
  ASSUME ThreadsOK, NEW t \in Thread, NEW s \in ThreadState,
         Becomes(t, s), ThreadOK(s, corpus, past), UNCHANGED <<corpus, past>>
  PROVE  ThreadsOK'
<1>1. thread' \in [Thread -> ThreadState]
  BY DEF Becomes, ThreadsOK
<1>2. ASSUME NEW u \in Thread PROVE ThreadOK(thread'[u], corpus', past')
  <2>1. thread'[u] = IF u = t THEN s ELSE thread[u]
    BY DEF Becomes, ThreadsOK
  <2> QED
    BY <2>1 DEF ThreadsOK
<1> QED
  BY <1>1, <1>2 DEF ThreadsOK

\* A thread that ends has nothing to answer for.
LEMMA EndsWell ==
  ASSUME ThreadsOK, NEW t \in Thread, Ends(t), UNCHANGED <<corpus, past>>
  PROVE  ThreadsOK'
<1>1. Idle \in ThreadState /\ ThreadOK(Idle, corpus, past)
  BY DEF ThreadState, ThreadOK, Idle
<1> QED
  BY <1>1, Moves DEF Ends

\* A corpus that is replaced has been in force: what names it may be mixed.
LEMMA Ageing ==
  ASSUME NEW l, Retrieving(l, corpus, past),
         \/ corpus' = corpus /\ past' = past
         \/ past' = past \cup {corpus}
  PROVE  Retrieving(l, corpus', past')
BY DEF Retrieving

-----------------------------------------------------------------------------
(* What stays when a step leaves the inputs and the files alone.           *)

LEMMA InputsStay ==
  ASSUME InputsOK, UNCHANGED <<inputs, plan>>, ops' = ops \/ Counted
  PROVE  InputsOK' /\ UNCHANGED <<corpus, past>>
BY OpsIsNat DEF InputsOK, Counted, inputs

LEMMA FilesStay ==
  ASSUME FilesOK, UNCHANGED <<inputs, files>>
  PROVE  FilesOK'
BY DEF FilesOK, inputs, files

\* An edit: a corpus that is replaced, perhaps by an earlier one, is a past one.
LEMMA EditStep ==
  ASSUME IInv, Edit
  PROVE  IInv'
<1>1. /\ UNCHANGED <<legal, primary, secondary, report, thread>>
      /\ \/ corpus' = corpus /\ past' = past
         \/ past' = past \cup {corpus}
  BY DEF Edit, inputs
<1>2. InputsOK'
  BY OpsIsNat DEF IInv, InputsOK, Edit, Counted, inputs
<1>3. FilesOK'
  <2>1. legal # NoFile => LegalOK(legal, corpus', past')
    BY <1>1, Ageing DEF IInv, FilesOK, LegalOK
  <2> QED
    BY <1>1, <2>1 DEF IInv, FilesOK
<1>4. ThreadsOK'
  <2>1. ASSUME NEW t \in Thread PROVE ThreadOK(thread[t], corpus', past')
    <3>1. ThreadOK(thread[t], corpus, past)
      BY DEF IInv, ThreadsOK
    <3>2. thread[t].at = "legal" => Retrieving(thread[t].draft, corpus', past')
      BY <1>1, <3>1, Ageing DEF ThreadOK
    <3> QED
      BY <3>1, <3>2 DEF ThreadOK
  <2> QED
    BY <1>1, <2>1 DEF IInv, ThreadsOK
<1> QED
  BY <1>2, <1>3, <1>4 DEF IInv

-----------------------------------------------------------------------------
(* Stage 13D.                                                              *)

LEMMA BuildLegalStep ==
  ASSUME IInv, NEW t \in Thread, NEW d \in AsOf, BuildLegal(t, d)
  PROVE  IInv'
<1>1. InputsOK' /\ FilesOK'
  BY InputsStay, FilesStay DEF IInv, BuildLegal, Begin, files
<1> DEFINE draft == [plan |-> plan, corpus |-> corpus, asof |-> d, evidence |-> <<>>]
           s == [at |-> "legal", draft |-> draft]
<1>2. plan \in Plan /\ corpus \in Corpus
  BY PlansAreSequences DEF IInv, InputsOK, BuildLegal
<1>3. draft \in LegalContext
  BY <1>2, EmptySeq DEF LegalContext
<1>4. Retrieving(draft, corpus, past)
  <2>1. Len(IssuesOf[plan]) \in Nat /\ Len(<<>>) = 0
    BY <1>2, PlansAreSequences, LenProperties, EmptySeq
  <2> QED
    BY <2>1 DEF Retrieving
<1>5. s \in ThreadState /\ ThreadOK(s, corpus, past)
  BY <1>3, <1>4 DEF ThreadState, ThreadOK
<1>6. Becomes(t, s) /\ UNCHANGED <<corpus, past>>
  BY DEF BuildLegal, inputs
<1>7. ThreadsOK'
  BY <1>5, <1>6, Moves DEF IInv
<1> QED
  BY <1>1, <1>7 DEF IInv

LEMMA RetrieveStep ==
  ASSUME IInv, NEW t \in Thread, Retrieve(t)
  PROVE  IInv'
<1>1. InputsOK' /\ FilesOK'
  BY InputsStay, FilesStay DEF IInv, Retrieve, files
<1>2. UNCHANGED <<corpus, past>>
  BY DEF Retrieve, inputs
<1>3. CASE Ends(t)
  BY <1>1, <1>2, <1>3, EndsWell DEF IInv
<1>4. CASE Becomes(t, [thread[t] EXCEPT !.draft.evidence = Append(thread[t].draft.evidence, corpus)])
  <2> DEFINE draft == thread[t].draft
             longer == [draft EXCEPT !.evidence = Append(draft.evidence, corpus)]
             s == [thread[t] EXCEPT !.draft = longer]
  <2>1. thread[t].at = "legal" /\ ~Retrieved(draft)
    BY DEF Retrieve, At
  <2>2. thread[t] \in AtLegal /\ draft \in LegalContext
    BY <2>1, ThreadTypes DEF IInv, AtLegal
  <2>3. Retrieving(draft, corpus, past)
    BY <2>1 DEF IInv, ThreadsOK, ThreadOK
  <2>4. corpus \in Corpus /\ draft.evidence \in Seq(Corpus) /\ draft.plan \in Plan
    BY <2>2 DEF IInv, InputsOK, LegalContext
  <2>5. /\ Append(draft.evidence, corpus) \in Seq(Corpus)
        /\ Len(draft.evidence) \in Nat
        /\ Len(Append(draft.evidence, corpus)) = Len(draft.evidence) + 1
        /\ \A k \in 1..Len(draft.evidence) : Append(draft.evidence, corpus)[k] = draft.evidence[k]
        /\ Append(draft.evidence, corpus)[Len(draft.evidence) + 1] = corpus
    BY <2>4, Appended
  <2>6. longer \in LegalContext
    BY <2>2, <2>5 DEF LegalContext
  <2>7. longer.evidence = Append(draft.evidence, corpus)
        /\ longer.plan = draft.plan /\ longer.corpus = draft.corpus
    BY <2>2 DEF LegalContext
  <2>8. Retrieving(longer, corpus, past)
    <3>1. Len(longer.evidence) <= Len(IssuesOf[longer.plan])
      <4>1. Len(IssuesOf[draft.plan]) \in Nat
        BY <2>4, PlansAreSequences, LenProperties
      <4>2. Len(draft.evidence) <= Len(IssuesOf[draft.plan])
        BY <2>3 DEF Retrieving
      <4>3. Len(draft.evidence) # Len(IssuesOf[draft.plan])
        BY <2>1 DEF Retrieved
      <4>4. Len(draft.evidence) + 1 <= Len(IssuesOf[draft.plan])
        <5> DEFINE m == Len(draft.evidence)
                   n == Len(IssuesOf[draft.plan])
        <5>1. m \in Nat /\ n \in Nat /\ m <= n /\ m # n
          BY <2>5, <4>1, <4>2, <4>3
        <5> HIDE DEF m, n
        <5>2. m + 1 <= n
          BY <5>1
        <5> QED
          BY <5>2 DEF m, n
      <4>5. Len(longer.evidence) = Len(draft.evidence) + 1 /\ longer.plan = draft.plan
        BY <2>5, <2>7
      <4> HIDE DEF longer
      <4> QED
        BY <4>4, <4>5
    <3>2. ASSUME draft.corpus \notin past, NEW k \in 1..Len(longer.evidence)
          PROVE  longer.corpus = corpus /\ longer.evidence[k] = corpus
      <4>1. CASE k \in 1..Len(draft.evidence)
        BY <2>3, <2>5, <2>7, <3>2, <4>1 DEF Retrieving
      <4>2. CASE k = Len(draft.evidence) + 1
        BY <2>3, <2>5, <2>7, <3>2, <4>2 DEF Retrieving
      <4> QED
        BY <2>5, <2>7, <4>1, <4>2
    <3> QED
      BY <2>3, <2>7, <3>1, <3>2 DEF Retrieving
  <2>9. s \in ThreadState /\ ThreadOK(s, corpus, past)
    BY <2>1, <2>2, <2>6, <2>8 DEF ThreadState, AtLegal, ThreadOK
  <2>10. Becomes(t, s)
    BY <1>4
  <2>11. ThreadsOK'
    BY <1>2, <2>9, <2>10, Moves DEF IInv
  <2> QED
    BY <1>1, <2>11 DEF IInv
<1> QED
  BY <1>3, <1>4 DEF Retrieve

\* The artifact is written as it was gathered, one answer per issue.
LEMMA WriteLegalStep ==
  ASSUME IInv, NEW t \in Thread, WriteLegal(t)
  PROVE  IInv'
<1>1. InputsOK'
  BY InputsStay DEF IInv, WriteLegal
<1>2. thread[t].at = "legal"
  BY DEF WriteLegal, At
<1>3. LegalOK(thread[t].draft, corpus, past)
  <2>1. thread[t].draft \in LegalContext
    BY <1>2, ThreadTypes DEF IInv, AtLegal
  <2>2. Retrieving(thread[t].draft, corpus, past)
    BY <1>2 DEF IInv, ThreadsOK, ThreadOK
  <2> QED
    BY <2>1, <2>2 DEF LegalOK, WriteLegal
<1>4. FilesOK'
  BY <1>3 DEF IInv, FilesOK, WriteLegal, inputs
<1>5. ThreadsOK'
  BY EndsWell DEF IInv, WriteLegal, inputs
<1> QED
  BY <1>1, <1>4, <1>5 DEF IInv

-----------------------------------------------------------------------------
(* The readings both model stages begin with.                              *)

\* A load that is fresh has read a plan and its legal context.
LEMMA FreshLegal ==
  ASSUME InputsOK, FilesOK, LegalFresh
  PROVE  plan \in Plan /\ LegalOK(legal, corpus, past) /\ legal.plan = plan
BY DEF InputsOK, FilesOK, LegalFresh

LEMMA StartPrimaryStep ==
  ASSUME IInv, NEW t \in Thread, StartPrimary(t)
  PROVE  IInv'
<1>1. InputsOK' /\ FilesOK'
  BY InputsStay, FilesStay DEF IInv, StartPrimary, Begin, files
<1> DEFINE run == [plan |-> plan, primary |-> NoFile, legal |-> legal]
           s == [at |-> "fresh", run |-> run]
<1>2. plan \in Plan /\ legal \in LegalContext /\ legal.plan = plan
  BY FreshLegal DEF IInv, StartPrimary, LegalOK
<1>3. s \in ThreadState /\ ThreadOK(s, corpus, past)
  BY <1>2 DEF ThreadState, FreshRun, ThreadOK, FreshOK
<1>4. Becomes(t, s) /\ UNCHANGED <<corpus, past>>
  BY DEF StartPrimary, inputs
<1>5. ThreadsOK'
  BY <1>3, <1>4, Moves DEF IInv
<1> QED
  BY <1>1, <1>5 DEF IInv

LEMMA StartSecondaryStep ==
  ASSUME IInv, NEW t \in Thread, StartSecondary(t)
  PROVE  IInv'
<1>1. InputsOK' /\ FilesOK'
  BY InputsStay, FilesStay DEF IInv, StartSecondary, Begin, files
<1> DEFINE run == [plan |-> plan, primary |-> primary]
           s == [at |-> "opened", run |-> run]
<1>2. plan \in Plan /\ PrimaryOK(primary) /\ primary # NoFile
  BY FreshLegal DEF IInv, FilesOK, StartSecondary, PrimaryFresh
<1>3. s \in ThreadState /\ ThreadOK(s, corpus, past)
  BY <1>2 DEF ThreadState, OpenRun, PrimaryOK, ThreadOK
<1>4. Becomes(t, s) /\ UNCHANGED <<corpus, past>>
  BY DEF StartSecondary, inputs
<1>5. ThreadsOK'
  BY <1>3, <1>4, Moves DEF IInv
<1> QED
  BY <1>1, <1>5 DEF IInv

LEMMA LoadLegalStep ==
  ASSUME IInv, NEW t \in Thread, LoadLegal(t)
  PROVE  IInv'
<1>1. InputsOK' /\ FilesOK' /\ UNCHANGED <<corpus, past>>
  BY InputsStay, FilesStay DEF IInv, LoadLegal, files
<1> DEFINE run == [plan |-> Run(t).plan, primary |-> Run(t).primary, legal |-> legal]
           s == [at |-> "fresh", run |-> run]
<1>2. Run(t) \in OpenRun /\ PrimaryOK(Run(t).primary)
  BY ThreadTypes DEF IInv, LoadLegal, At, Run, AtOpen, ThreadsOK, ThreadOK
<1>3. legal \in LegalContext
  BY FreshLegal DEF IInv, LoadLegal, LegalOK
<1>4. Run(t).primary # NoFile
  BY DEF IInv, LoadLegal, At, Run, ThreadsOK, ThreadOK
<1>5. s \in ThreadState /\ ThreadOK(s, corpus, past)
  BY <1>2, <1>3, <1>4 DEF ThreadState, OpenRun, FreshRun, ThreadOK, FreshOK
<1>6. Becomes(t, s)
  BY DEF LoadLegal
<1>7. ThreadsOK'
  BY <1>1, <1>5, <1>6, Moves DEF IInv
<1> QED
  BY <1>1, <1>7 DEF IInv

LEMMA ReadContractStep ==
  ASSUME IInv, NEW t \in Thread, ReadContract(t)
  PROVE  IInv'
<1>1. InputsOK' /\ FilesOK' /\ UNCHANGED <<corpus, past>>
  BY InputsStay, FilesStay DEF IInv, ReadContract, files
<1> DEFINE run == [plan |-> Run(t).plan, primary |-> Run(t).primary, legal |-> Run(t).legal,
                   contract |-> contract, contexts |-> <<>>]
           s == [at |-> "contexts", run |-> run]
<1>2. Run(t) \in FreshRun /\ FreshOK(Run(t))
  BY ThreadTypes DEF IInv, ReadContract, At, Run, AtFresh, ThreadsOK, ThreadOK
<1>3. contract \in Contract /\ Run(t).legal.plan \in Plan /\ <<>> \in Seq(Given)
  BY <1>2, EmptySeq DEF IInv, InputsOK, FreshRun, LegalContext
<1>4. run \in ContextsRun
  BY <1>2, <1>3 DEF FreshRun, ContextsRun
<1>5. FreshOK(run) /\ ContextsOK(run)
  BY <1>2, <1>3, NothingYet DEF FreshOK, ContextsOK
<1>6. s \in ThreadState /\ ThreadOK(s, corpus, past)
  BY <1>4, <1>5 DEF ThreadState, ThreadOK
<1>7. Becomes(t, s)
  BY DEF ReadContract
<1>8. ThreadsOK'
  BY <1>1, <1>6, <1>7, Moves DEF IInv
<1> QED
  BY <1>1, <1>8 DEF IInv

\* The run of a thread that builds its contexts.
LEMMA InContexts ==
  ASSUME ThreadsOK, NEW t \in Thread, At(t, "contexts")
  PROVE  /\ thread[t] \in AtContexts /\ Run(t) \in ContextsRun
         /\ FreshOK(Run(t)) /\ ContextsOK(Run(t))
         /\ Run(t).legal.plan \in Plan /\ Run(t).contexts \in Seq(Given)
         /\ Len(IssuesOf[Run(t).legal.plan]) \in Nat /\ Len(Run(t).contexts) \in Nat
<1>1. thread[t] \in AtContexts
  BY ThreadTypes DEF At
<1>2. Run(t) \in ContextsRun
  BY <1>1 DEF Run, AtContexts
<1>3. FreshOK(Run(t)) /\ ContextsOK(Run(t))
  BY DEF Run, At, ThreadsOK, ThreadOK
<1>4. Run(t).legal.plan \in Plan /\ Run(t).contexts \in Seq(Given)
  BY <1>2 DEF ContextsRun, LegalContext
<1> QED
  BY <1>1, <1>2, <1>3, <1>4, PlansAreSequences, LenProperties

LEMMA BuildContextStep ==
  ASSUME IInv, NEW t \in Thread, BuildContext(t)
  PROVE  IInv'
<1>1. InputsOK' /\ FilesOK' /\ UNCHANGED <<corpus, past>>
  BY InputsStay, FilesStay DEF IInv, BuildContext, files
<1> DEFINE run == Run(t)
           i == IssuesOf[run.legal.plan][Len(run.contexts) + 1]
           x == Context(run.legal, run.contract, rules, i)
           longer == Append(run.contexts, x)
           more == [run EXCEPT !.contexts = longer]
           s == [thread[t] EXCEPT !.run = more]
<1>2. At(t, "contexts") /\ ~Built(run)
  BY DEF BuildContext
<1>3. /\ thread[t] \in AtContexts /\ run \in ContextsRun /\ FreshOK(run) /\ ContextsOK(run)
      /\ run.legal.plan \in Plan /\ run.contexts \in Seq(Given)
      /\ Len(IssuesOf[run.legal.plan]) \in Nat /\ Len(run.contexts) \in Nat
  BY <1>2, InContexts DEF IInv
<1>4. Len(run.contexts) < Len(IssuesOf[run.legal.plan])
  <2> DEFINE m == Len(run.contexts)
             n == Len(IssuesOf[run.legal.plan])
  <2>1. m \in Nat /\ n \in Nat /\ m <= n /\ m # n
    BY <1>2, <1>3 DEF ContextsOK, Ordered, Built
  <2> HIDE DEF m, n
  <2>2. m < n
    BY <2>1
  <2> QED
    BY <2>2 DEF m, n
<1>5. i \in Issue
  BY <1>3, <1>4, PlansAreSequences, ElementOfSeq
<1>6. x \in Given /\ x.issue = i /\ x = Context(run.legal, run.contract, rules, x.issue)
      /\ rules \in Rules
  BY <1>3, <1>5 DEF IInv, InputsOK, Context, Given, ContextsRun
<1>7. longer \in Seq(Given) /\ Ordered(run.legal.plan, longer)
  <2> HIDE DEF x
  <2> QED
    BY <1>3, <1>4, <1>6, Appended, OrderedAppend DEF ContextsOK
<1>8. ShownBy(run.legal, run.contract, longer)
  <2> HIDE DEF x
  <2> QED
    BY <1>3, <1>6, ShownAppend DEF ContextsOK
<1> HIDE DEF longer
<1>9. more \in ContextsRun /\ FreshOK(more) /\ ContextsOK(more)
  BY <1>3, <1>7, <1>8 DEF ContextsRun, FreshOK, ContextsOK
<1>10. s \in ThreadState /\ ThreadOK(s, corpus, past)
  BY <1>3, <1>9 DEF ThreadState, AtContexts, ThreadOK
<1>11. Becomes(t, s)
  BY DEF BuildContext, longer, Run
<1>12. ThreadsOK'
  BY <1>1, <1>10, <1>11, Moves DEF IInv
<1> QED
  BY <1>1, <1>12 DEF IInv

LEMMA GivesUpStep ==
  ASSUME IInv, NEW t \in Thread, GivesUp(t)
  PROVE  IInv'
<1>1. InputsOK' /\ FilesOK' /\ UNCHANGED <<corpus, past>>
  BY InputsStay, FilesStay DEF IInv, GivesUp, files
<1> QED
  BY <1>1, EndsWell DEF IInv, GivesUp

\* The contexts that are complete are the one source of a run.
LEMMA BuiltSource ==
  ASSUME NEW old, InPlanOrder(old.legal.plan, old.contexts), old.contexts \in Seq(Given),
         NEW c \in Contract, ShownBy(old.legal, c, old.contexts),
         old.legal.plan \in Plan, NEW run, run.legal = old.legal, run.contexts = old.contexts
  PROVE  OneSource(run, <<>>)
BY NothingYet DEF OneSource

\* A run's context for an issue of its plan.
LEMMA SourceContext ==
  ASSUME NEW run, NEW results, OneSource(run, results), run.legal.plan \in Plan,
         NEW i \in PlanSet(run.legal.plan)
  PROVE  ContextFor(run, i) \in Given /\ ContextFor(run, i).issue = i
<1>1. PICK c \in Contract : ShownBy(run.legal, c, run.contexts)
  BY DEF OneSource
<1>2. run.contexts \in Seq(Given) /\ InPlanOrder(run.legal.plan, run.contexts)
  BY DEF OneSource
<1> DEFINE p == run.legal.plan
<1> HIDE DEF p
<1>3. p \in Plan /\ i \in PlanSet(p) /\ InPlanOrder(p, run.contexts)
  BY <1>2 DEF p
<1> QED
  BY <1>1, <1>2, <1>3, ContextIsThere

\* A result with the run's context for its issue keeps the one source.
LEMMA SourceAppend ==
  ASSUME NEW S, NEW run, NEW results \in Seq(S), NEW x \in S, OneSource(run, results),
         run.legal.plan \in Plan, x.issue \in PlanSet(run.legal.plan),
         x.context = ContextFor(run, x.issue)
  PROVE  OneSource(run, Append(results, x))
<1>1. PICK c \in Contract :
        ShownBy(run.legal, c, run.contexts) /\ FromContext(run.legal, c, results)
  BY DEF OneSource
<1>2. \E r \in Rules : x.context = Context(run.legal, c, r, x.issue)
  <2> DEFINE p == run.legal.plan
             i == x.issue
  <2> HIDE DEF p, i
  <2>1. run.contexts \in Seq(Given) /\ InPlanOrder(p, run.contexts)
    BY DEF OneSource, p
  <2>2. p \in Plan /\ i \in PlanSet(p)
    BY DEF p, i
  <2>3. \E r \in Rules : ContextFor(run, i) = Context(run.legal, c, r, i)
    BY <1>1, <2>1, <2>2, ContextIsThere
  <2> QED
    BY <2>3 DEF i
<1>3. FromContext(run.legal, c, Append(results, x))
  BY <1>1, <1>2, ContextAppend
<1> QED
  BY <1>1, <1>3 DEF OneSource

-----------------------------------------------------------------------------
(* Stage 13E.                                                              *)

LEMMA ResumePrimaryStep ==
  ASSUME IInv, NEW t \in Thread, NEW m \in Model, ResumePrimary(t, m)
  PROVE  IInv'
<1>1. InputsOK' /\ FilesOK' /\ UNCHANGED <<corpus, past>>
  BY InputsStay, FilesStay DEF IInv, ResumePrimary, files
<1> DEFINE same == primary # NoFile /\ primary.legal = Run(t).legal /\ primary.model = m
           run == [model |-> m, plan |-> Run(t).plan, legal |-> Run(t).legal,
                   contexts |-> Run(t).contexts,
                   old |-> IF same THEN primary.results ELSE <<>>, results |-> <<>>]
           s == [at |-> "primary", run |-> run]
<1>2. At(t, "contexts") /\ Built(Run(t)) /\ Run(t).primary = NoFile
  BY DEF ResumePrimary
<1>3. /\ Run(t) \in ContextsRun /\ FreshOK(Run(t)) /\ ContextsOK(Run(t))
      /\ Run(t).legal.plan \in Plan /\ Run(t).contexts \in Seq(Given)
  BY <1>2, InContexts DEF IInv
<1>4. run.old \in Seq(Finding)
  BY EmptySeq DEF IInv, FilesOK, PrimaryOK, PrimaryAudit
<1>5. run \in PrimaryRun
  BY <1>3, <1>4, EmptySeq DEF PrimaryRun, ContextsRun
<1>6. InPlanOrder(Run(t).legal.plan, Run(t).contexts)
  BY <1>2, <1>3 DEF ContextsOK, Ordered, InPlanOrder, Built
<1>7. Run(t).contract \in Contract /\ ShownBy(Run(t).legal, Run(t).contract, Run(t).contexts)
  BY <1>3 DEF ContextsRun, ContextsOK
<1>8. OneSource(run, <<>>)
  <2>1. run.legal = Run(t).legal /\ run.contexts = Run(t).contexts
    OBVIOUS
  <2> HIDE DEF run
  <2> QED
    BY <1>3, <1>6, <1>7, <2>1, BuiltSource
<1>9. PrimaryRunOK(run)
  <2>1. run.results = <<>> /\ run.legal.plan = run.plan /\ run.plan \in Plan
    BY <1>2, <1>3 DEF FreshOK
  <2>2. Ordered(run.plan, <<>>)
    BY <2>1, NothingYet
  <2> HIDE DEF run
  <2> QED
    BY <1>8, <2>1, <2>2 DEF PrimaryRunOK
<1>10. s \in ThreadState /\ ThreadOK(s, corpus, past)
  BY <1>5, <1>9 DEF ThreadState, ThreadOK
<1>11. Becomes(t, s) \/ Ends(t)
  BY DEF ResumePrimary
<1>12. ThreadsOK'
  BY <1>1, <1>10, <1>11, Moves, EndsWell DEF IInv
<1> QED
  BY <1>1, <1>12 DEF IInv

\* The run of a thread in stage 13E.
LEMMA InPrimary ==
  ASSUME ThreadsOK, NEW t \in Thread, At(t, "primary")
  PROVE  /\ thread[t] \in AtPrimary /\ Run(t) \in PrimaryRun /\ PrimaryRunOK(Run(t))
         /\ Len(IssuesOf[Run(t).plan]) \in Nat /\ Len(Run(t).results) \in Nat
         /\ More(Run(t)) => /\ NextIssue(Run(t)) \in Issue
                            /\ NextIssue(Run(t)) \in PlanSet(Run(t).plan)
<1>1. thread[t] \in AtPrimary
  BY ThreadTypes DEF At
<1>2. Run(t) \in PrimaryRun
  BY <1>1 DEF Run, AtPrimary
<1>3. PrimaryRunOK(Run(t))
  BY DEF Run, At, ThreadsOK, ThreadOK
<1>4. Len(IssuesOf[Run(t).plan]) \in Nat /\ IssuesOf[Run(t).plan] \in Seq(Issue)
  BY <1>2, PlansAreSequences, LenProperties DEF PrimaryRun
<1>5. Len(Run(t).results) \in Nat
  BY <1>2, LenProperties DEF PrimaryRun
<1>6. ASSUME More(Run(t))
      PROVE  NextIssue(Run(t)) \in Issue /\ NextIssue(Run(t)) \in PlanSet(Run(t).plan)
  <2>1. Len(Run(t).results) + 1 \in 1..Len(IssuesOf[Run(t).plan])
    BY <1>4, <1>5, <1>6 DEF More
  <2> QED
    BY <1>4, <2>1, ElementOfSeq DEF NextIssue, PlanSet
<1> QED
  BY <1>1, <1>2, <1>3, <1>4, <1>5, <1>6

\* One more result, of the next issue and from the run's own context.
LEMMA CollectsPrimary ==
  ASSUME ThreadsOK, NEW t \in Thread, At(t, "primary"), More(Run(t)),
         NEW r \in Finding, r.issue = NextIssue(Run(t)), r.context = ContextFor(Run(t), r.issue)
  PROVE  /\ Append(Run(t).results, r) \in Seq(Finding)
         /\ Ordered(Run(t).plan, Append(Run(t).results, r))
         /\ OneSource(Run(t), Append(Run(t).results, r))
         /\ Collects(t, r) /\ UNCHANGED <<corpus, past>> => ThreadsOK'
<1> DEFINE run == Run(t)
           longer == Append(run.results, r)
           s == [thread[t] EXCEPT !.run = [run EXCEPT !.results = longer]]
<1>1. run \in PrimaryRun /\ PrimaryRunOK(run) /\ thread[t] \in AtPrimary
  BY InPrimary
<1>2. run.results \in Seq(Finding) /\ run.plan \in Plan
  BY <1>1 DEF PrimaryRun
<1>3. longer \in Seq(Finding)
  BY <1>2, Appended
<1>4. Ordered(run.plan, longer)
  BY <1>1, <1>2, OrderedAppend DEF PrimaryRunOK, More, NextIssue
<1>5. OneSource(run, longer)
  <2>1. r.issue \in PlanSet(run.legal.plan) /\ run.legal.plan \in Plan
    BY <1>1, <1>2, InPrimary DEF PrimaryRunOK
  <2> QED
    BY <1>1, <1>2, <2>1, SourceAppend DEF PrimaryRunOK
<1>6. [run EXCEPT !.results = longer] \in PrimaryRun
  BY <1>1, <1>3 DEF PrimaryRun
<1>7. PrimaryRunOK([run EXCEPT !.results = longer])
  BY <1>1, <1>4, <1>5 DEF PrimaryRunOK, PrimaryRun, OneSource
<1>8. s \in ThreadState /\ ThreadOK(s, corpus, past)
  BY <1>1, <1>6, <1>7 DEF ThreadState, AtPrimary, ThreadOK
<1>9. Collects(t, r) => Becomes(t, s)
  BY DEF Collects, Run
<1>10. Collects(t, r) /\ UNCHANGED <<corpus, past>> => ThreadsOK'
  BY <1>8, <1>9, Moves
<1> QED
  BY <1>3, <1>4, <1>5, <1>10

\* A result taken over is one of the checkpoint, for the issue and the context.
LEMMA TakenOver ==
  ASSUME NEW S, NEW run, run.old \in Seq(S), NEW i, NEW r \in Reusable(run, i)
  PROVE  /\ r \in S /\ r.issue = i /\ r.context = ContextFor(run, i)
         /\ \E k \in 1..Len(run.old) : r = run.old[k]
BY ElementOfSeq DEF Reusable

\* What is saved of a run in stage 13E is a primary audit of its contexts.
LEMMA SavesPrimary ==
  ASSUME IInv, NEW run \in PrimaryRun, run.legal.plan = run.plan,
         NEW status \in Status, NEW results \in Seq(Finding),
         Ordered(run.plan, results), OneSource(run, results),
         status = "COMPLETE" => InPlanOrder(run.plan, results)
  PROVE  PrimaryOK([status |-> status, model |-> run.model, legal |-> run.legal,
                    results |-> results])
<1> DEFINE a == [status |-> status, model |-> run.model, legal |-> run.legal,
                 results |-> results]
<1>1. a \in PrimaryAudit
  BY DEF PrimaryAudit, PrimaryRun
<1>2. \E c \in Contract : FromContext(a.legal, c, a.results)
  BY DEF OneSource
<1> QED
  BY <1>1, <1>2 DEF PrimaryOK

LEMMA PrimarySaved ==
  ASSUME IInv, NEW t \in Thread, NEW status, NEW results, SavePrimary(t, status, results),
         PrimaryOK([status |-> status, model |-> Run(t).model, legal |-> Run(t).legal,
                    results |-> results])
  PROVE  InputsOK' /\ FilesOK' /\ UNCHANGED <<corpus, past>>
<1>1. InputsOK'
  BY InputsStay DEF IInv, SavePrimary
<1>2. FilesOK'
  BY DEF IInv, FilesOK, SavePrimary, inputs
<1> QED
  BY <1>1, <1>2 DEF SavePrimary, inputs

LEMMA ReusePrimaryStep ==
  ASSUME IInv, NEW t \in Thread, ReusePrimary(t)
  PROVE  IInv'
<1>1. InputsOK' /\ FilesOK' /\ UNCHANGED <<corpus, past>>
  BY InputsStay, FilesStay DEF IInv, ReusePrimary, files
<1>2. PICK r \in Reusable(Run(t), NextIssue(Run(t))) : Collects(t, r)
  BY DEF ReusePrimary
<1>3. Run(t).old \in Seq(Finding)
  BY InPrimary DEF IInv, PrimaryRun, ReusePrimary
<1>4. r \in Finding /\ r.issue = NextIssue(Run(t))
      /\ r.context = ContextFor(Run(t), r.issue)
  BY <1>3, TakenOver
<1>5. ThreadsOK'
  BY <1>1, <1>2, <1>4, CollectsPrimary DEF IInv, ReusePrimary
<1> QED
  BY <1>1, <1>5 DEF IInv

LEMMA AnswerPrimaryStep ==
  ASSUME IInv, NEW t \in Thread, AnswerPrimary(t)
  PROVE  IInv'
<1>1. At(t, "primary") /\ More(Run(t))
  BY DEF AnswerPrimary, PrimaryNeedsResult
<1>2. Run(t) \in PrimaryRun /\ PrimaryRunOK(Run(t)) /\ NextIssue(Run(t)) \in Issue
  BY <1>1, InPrimary DEF IInv
<1>3. PICK a \in Said :
        /\ Collects(t, PrimaryResult(t, a))
        /\ SavePrimary(t, "IN_PROGRESS", Append(Run(t).results, PrimaryResult(t, a)))
  <2>1. CASE NextIssue(Run(t)) \in NoCall1
    BY <2>1 DEF AnswerPrimary, Said
  <2>2. CASE NextIssue(Run(t)) \notin NoCall1
    BY <2>2 DEF AnswerPrimary, Said
  <2> QED
    BY <2>1, <2>2
<1> DEFINE r == PrimaryResult(t, a)
<1>4. /\ r \in Finding /\ r.issue = NextIssue(Run(t))
      /\ r.context = ContextFor(Run(t), r.issue)
  <2>1. ContextFor(Run(t), NextIssue(Run(t))) \in Given
    BY <1>1, <1>2, InPrimary, SourceContext DEF IInv, PrimaryRunOK, PrimaryRun, LegalContext
  <2> QED
    BY <1>2, <1>3, <2>1 DEF PrimaryResult, Finding
<1> HIDE DEF r
<1>5. UNCHANGED <<corpus, past>>
  BY <1>3 DEF SavePrimary, inputs
<1>6. /\ Append(Run(t).results, r) \in Seq(Finding)
      /\ Ordered(Run(t).plan, Append(Run(t).results, r))
      /\ OneSource(Run(t), Append(Run(t).results, r))
      /\ ThreadsOK'
  BY <1>1, <1>3, <1>4, <1>5, CollectsPrimary DEF IInv, r
<1>7. PrimaryOK([status |-> "IN_PROGRESS", model |-> Run(t).model, legal |-> Run(t).legal,
                 results |-> Append(Run(t).results, r)])
  BY <1>2, <1>6, SavesPrimary DEF Status, PrimaryRunOK
<1>8. InputsOK' /\ FilesOK'
  BY <1>3, <1>7, PrimarySaved DEF r
<1> QED
  BY <1>6, <1>8 DEF IInv

LEMMA InterruptPrimaryStep ==
  ASSUME IInv, NEW t \in Thread, InterruptPrimary(t)
  PROVE  IInv'
<1>1. /\ Run(t) \in PrimaryRun /\ PrimaryRunOK(Run(t)) /\ Run(t).results \in Seq(Finding)
  BY InPrimary DEF IInv, InterruptPrimary, PrimaryNeedsResult, PrimaryRun
<1>2. PrimaryOK([status |-> "INTERRUPTED", model |-> Run(t).model, legal |-> Run(t).legal,
                 results |-> Run(t).results])
  BY <1>1, SavesPrimary DEF Status, PrimaryRunOK
<1>3. InputsOK' /\ FilesOK' /\ UNCHANGED <<corpus, past>>
  BY <1>2, PrimarySaved DEF InterruptPrimary
<1>4. ThreadsOK'
  BY <1>3, EndsWell DEF IInv, InterruptPrimary
<1> QED
  BY <1>3, <1>4 DEF IInv

LEMMA FinishPrimaryStep ==
  ASSUME IInv, NEW t \in Thread, FinishPrimary(t)
  PROVE  IInv'
<1>1. /\ Run(t) \in PrimaryRun /\ PrimaryRunOK(Run(t)) /\ Run(t).results \in Seq(Finding)
      /\ Run(t).plan \in Plan
  BY InPrimary DEF IInv, FinishPrimary, PrimaryRun
<1>2. InPlanOrder(Run(t).plan, Run(t).results)
  BY <1>1, WholeRun DEF FinishPrimary, More, PrimaryRunOK
<1>3. PrimaryOK([status |-> "COMPLETE", model |-> Run(t).model, legal |-> Run(t).legal,
                 results |-> Run(t).results])
  BY <1>1, <1>2, SavesPrimary DEF Status, PrimaryRunOK
<1>4. InputsOK' /\ FilesOK' /\ UNCHANGED <<corpus, past>>
  BY <1>3, PrimarySaved DEF FinishPrimary
<1>5. ThreadsOK'
  BY <1>4, EndsWell DEF IInv, FinishPrimary
<1> QED
  BY <1>4, <1>5 DEF IInv

-----------------------------------------------------------------------------
(* Stage 13F.                                                              *)

\* The review begins with the audit that was read before, the contexts that were
\* built after it, and a checkpoint only if it reviews that audit.
LEMMA ResumeSecondaryStep ==
  ASSUME IInv, NEW t \in Thread, NEW m \in Model, ResumeSecondary(t, m)
  PROVE  IInv'
<1>1. InputsOK' /\ FilesOK' /\ UNCHANGED <<corpus, past>>
  BY InputsStay, FilesStay DEF IInv, ResumeSecondary, files
<1> DEFINE read == [model |-> m, primary |-> Run(t).primary]
           run == [model |-> m, plan |-> Run(t).plan, primary |-> Run(t).primary,
                   legal |-> Run(t).legal, contexts |-> Run(t).contexts,
                   old |-> IF SameReview(read) THEN secondary.results ELSE <<>>,
                   results |-> <<>>]
           s == [at |-> "secondary", run |-> run]
<1>2. /\ At(t, "contexts") /\ Built(Run(t)) /\ Run(t).primary # NoFile
      /\ SameIssues(Run(t).plan, Run(t).legal, Run(t).primary.results)
      /\ Becomes(t, s)
  BY DEF ResumeSecondary
<1>3. /\ Run(t) \in ContextsRun /\ FreshOK(Run(t)) /\ ContextsOK(Run(t))
      /\ Run(t).legal.plan \in Plan /\ Run(t).contexts \in Seq(Given)
  BY <1>2, InContexts DEF IInv
<1>4. /\ PrimaryOK(Run(t).primary) /\ Run(t).primary \in PrimaryAudit /\ Run(t).plan \in Plan
      /\ Run(t).legal \in LegalContext
  BY <1>2, <1>3 DEF FreshOK, ContextsRun
<1>5. run.old \in Seq(Review) /\ Fits(Run(t).primary, run.old)
  <2>1. CASE SameReview(read)
    <3>1. SecondaryOK(secondary) /\ secondary.primary = Run(t).primary
      BY <2>1 DEF IInv, FilesOK, SameReview
    <3> QED
      BY <2>1, <3>1 DEF SecondaryOK, SecondaryReview
  <2>2. CASE ~SameReview(read)
    BY <2>2, <1>4, NothingYet
  <2> QED
    BY <2>1, <2>2
<1>6. run \in SecondaryRun
  BY <1>3, <1>4, <1>5, EmptySeq DEF SecondaryRun
<1>7. InPlanOrder(Run(t).legal.plan, Run(t).contexts)
  BY <1>2, <1>3 DEF ContextsOK, Ordered, InPlanOrder, Built
<1>8. Run(t).contract \in Contract /\ ShownBy(Run(t).legal, Run(t).contract, Run(t).contexts)
  BY <1>3 DEF ContextsRun, ContextsOK
<1>9. OneSource(run, <<>>)
  <2>1. run.legal = Run(t).legal /\ run.contexts = Run(t).contexts
    OBVIOUS
  <2> HIDE DEF run
  <2> QED
    BY <1>3, <1>7, <1>8, <2>1, BuiltSource
<1>10. SecondaryRunOK(run)
  <2>1. /\ run.results = <<>> /\ run.plan = Run(t).plan /\ run.primary = Run(t).primary
        /\ run.legal = Run(t).legal
    OBVIOUS
  <2>2. Ordered(run.plan, <<>>) /\ Fits(run.primary, <<>>)
    BY <1>4, NothingYet
  <2>3. /\ PlanSet(run.plan) = IssuesIn(run.primary.results)
        /\ PlanSet(run.plan) = PlanSet(run.legal.plan)
    BY <1>2, <2>1 DEF SameIssues
  <2> HIDE DEF run
  <2> QED
    BY <1>4, <1>5, <1>9, <2>1, <2>2, <2>3 DEF SecondaryRunOK
<1>11. s \in ThreadState /\ ThreadOK(s, corpus, past)
  BY <1>6, <1>10 DEF ThreadState, ThreadOK
<1>12. ThreadsOK'
  BY <1>1, <1>2, <1>11, Moves DEF IInv
<1> QED
  BY <1>1, <1>12 DEF IInv

\* The run of a thread in stage 13F.
LEMMA InSecondary ==
  ASSUME ThreadsOK, NEW t \in Thread, At(t, "secondary")
  PROVE  /\ thread[t] \in AtSecondary /\ Run(t) \in SecondaryRun /\ SecondaryRunOK(Run(t))
         /\ Len(IssuesOf[Run(t).plan]) \in Nat /\ Len(Run(t).results) \in Nat
         /\ More(Run(t)) => /\ NextIssue(Run(t)) \in Issue
                            /\ NextIssue(Run(t)) \in PlanSet(Run(t).plan)
<1>1. thread[t] \in AtSecondary
  BY ThreadTypes DEF At
<1>2. Run(t) \in SecondaryRun
  BY <1>1 DEF Run, AtSecondary
<1>3. SecondaryRunOK(Run(t))
  BY DEF Run, At, ThreadsOK, ThreadOK
<1>4. Len(IssuesOf[Run(t).plan]) \in Nat /\ IssuesOf[Run(t).plan] \in Seq(Issue)
  BY <1>2, PlansAreSequences, LenProperties DEF SecondaryRun
<1>5. Len(Run(t).results) \in Nat
  BY <1>2, LenProperties DEF SecondaryRun
<1>6. ASSUME More(Run(t))
      PROVE  NextIssue(Run(t)) \in Issue /\ NextIssue(Run(t)) \in PlanSet(Run(t).plan)
  <2>1. Len(Run(t).results) + 1 \in 1..Len(IssuesOf[Run(t).plan])
    BY <1>4, <1>5, <1>6 DEF More
  <2> QED
    BY <1>4, <2>1, ElementOfSeq DEF NextIssue, PlanSet
<1> QED
  BY <1>1, <1>2, <1>3, <1>4, <1>5, <1>6

\* One more review, of the audit's result for the next issue.
LEMMA CollectsSecondary ==
  ASSUME ThreadsOK, NEW t \in Thread, At(t, "secondary"), More(Run(t)),
         NEW r \in Review, r.issue = NextIssue(Run(t)),
         r.context = ContextFor(Run(t), r.issue),
         \E j \in 1..Len(Run(t).primary.results) :
           /\ Run(t).primary.results[j] = r.reviewed
           /\ r.issue = Run(t).primary.results[j].issue
  PROVE  /\ Append(Run(t).results, r) \in Seq(Review)
         /\ Ordered(Run(t).plan, Append(Run(t).results, r))
         /\ OneSource(Run(t), Append(Run(t).results, r))
         /\ Fits(Run(t).primary, Append(Run(t).results, r))
         /\ Collects(t, r) /\ UNCHANGED <<corpus, past>> => ThreadsOK'
<1> DEFINE run == Run(t)
           longer == Append(run.results, r)
           s == [thread[t] EXCEPT !.run = [run EXCEPT !.results = longer]]
<1>1. run \in SecondaryRun /\ SecondaryRunOK(run) /\ thread[t] \in AtSecondary
  BY InSecondary
<1>2. run.results \in Seq(Review) /\ run.plan \in Plan
  BY <1>1 DEF SecondaryRun
<1>3. longer \in Seq(Review)
  BY <1>2, Appended
<1>4. Ordered(run.plan, longer)
  BY <1>1, <1>2, OrderedAppend DEF SecondaryRunOK, More, NextIssue
<1>5. OneSource(run, longer)
  <2>1. r.issue \in PlanSet(run.legal.plan) /\ run.legal.plan \in Plan
    BY <1>1, <1>2, InSecondary DEF SecondaryRunOK, SecondaryRun, LegalContext
  <2> QED
    BY <1>1, <1>2, <2>1, SourceAppend DEF SecondaryRunOK
<1>6. Fits(run.primary, longer)
  BY <1>1, <1>2, FitsAppend DEF SecondaryRunOK
<1>7. [run EXCEPT !.results = longer] \in SecondaryRun
  BY <1>1, <1>3 DEF SecondaryRun
<1>8. SecondaryRunOK([run EXCEPT !.results = longer])
  BY <1>1, <1>4, <1>5, <1>6 DEF SecondaryRunOK, SecondaryRun, OneSource
<1>9. s \in ThreadState /\ ThreadOK(s, corpus, past)
  BY <1>1, <1>7, <1>8 DEF ThreadState, AtSecondary, ThreadOK
<1>10. Collects(t, r) => Becomes(t, s)
  BY DEF Collects, Run
<1>11. Collects(t, r) /\ UNCHANGED <<corpus, past>> => ThreadsOK'
  BY <1>9, <1>10, Moves
<1> QED
  BY <1>3, <1>4, <1>5, <1>6, <1>11

\* What is saved of a run in stage 13F is a review of the audit it read.
LEMMA SavesSecondary ==
  ASSUME NEW run \in SecondaryRun, PrimaryOK(run.primary),
         NEW status \in Status, NEW results \in Seq(Review),
         OneSource(run, results), Fits(run.primary, results),
         status = "COMPLETE" => IssuesIn(results) = IssuesIn(run.primary.results)
  PROVE  SecondaryOK([status |-> status, model |-> run.model, legal |-> run.legal,
                      primary |-> run.primary, results |-> results])
<1> DEFINE s == [status |-> status, model |-> run.model, legal |-> run.legal,
                 primary |-> run.primary, results |-> results]
<1>1. s \in SecondaryReview
  BY DEF SecondaryReview, SecondaryRun
<1>2. ASSUME NEW k \in 1..Len(results) PROVE results[k].context.legal = run.legal
  <2>1. \E c \in Contract, r \in Rules : results[k].context = Context(run.legal, c, r, results[k].issue)
    BY DEF OneSource, FromContext
  <2> QED
    BY <2>1 DEF Context
<1> QED
  BY <1>1, <1>2 DEF SecondaryOK

LEMMA SecondarySaved ==
  ASSUME IInv, NEW t \in Thread, NEW status, NEW results, SaveSecondary(t, status, results),
         SecondaryOK([status |-> status, model |-> Run(t).model, legal |-> Run(t).legal,
                      primary |-> Run(t).primary, results |-> results])
  PROVE  InputsOK' /\ FilesOK' /\ UNCHANGED <<corpus, past>>
<1>1. InputsOK'
  BY InputsStay DEF IInv, SaveSecondary
<1>2. FilesOK'
  BY DEF IInv, FilesOK, SaveSecondary, inputs
<1> QED
  BY <1>1, <1>2 DEF SaveSecondary, inputs

LEMMA ReuseSecondaryStep ==
  ASSUME IInv, NEW t \in Thread, ReuseSecondary(t)
  PROVE  IInv'
<1>1. InputsOK' /\ FilesOK' /\ UNCHANGED <<corpus, past>>
  BY InputsStay, FilesStay DEF IInv, ReuseSecondary, files
<1>2. PICK r \in Reusable(Run(t), NextIssue(Run(t))) : Collects(t, r)
  BY DEF ReuseSecondary
<1>3. Run(t).old \in Seq(Review) /\ Fits(Run(t).primary, Run(t).old)
  BY InSecondary DEF IInv, SecondaryRun, ReuseSecondary, SecondaryRunOK
<1>4. /\ r \in Review /\ r.issue = NextIssue(Run(t))
      /\ r.context = ContextFor(Run(t), r.issue)
      /\ \E k \in 1..Len(Run(t).old) : r = Run(t).old[k]
  BY <1>3, TakenOver
<1>5. \E j \in 1..Len(Run(t).primary.results) :
        /\ Run(t).primary.results[j] = r.reviewed
        /\ r.issue = Run(t).primary.results[j].issue
  BY <1>3, <1>4 DEF Fits
<1>6. ThreadsOK'
  BY <1>1, <1>2, <1>4, <1>5, CollectsSecondary DEF IInv, ReuseSecondary
<1> QED
  BY <1>1, <1>6 DEF IInv

\* The audit's result for one of its issues.
LEMMA PrimaryOfIsThere ==
  ASSUME NEW audit \in PrimaryAudit, NEW i \in IssuesIn(audit.results)
  PROVE  /\ PrimaryOf(audit, i) \in Finding
         /\ \E j \in 1..Len(audit.results) :
              audit.results[j] = PrimaryOf(audit, i) /\ i = audit.results[j].issue
<1> DEFINE rs == {audit.results[k] : k \in 1..Len(audit.results)}
<1>1. \E r \in rs : r.issue = i
  BY DEF IssuesIn
<1>2. PrimaryOf(audit, i) \in rs /\ PrimaryOf(audit, i).issue = i
  BY <1>1 DEF PrimaryOf
<1>3. rs \subseteq Finding
  BY ElementOfSeq DEF PrimaryAudit
<1> QED
  BY <1>2, <1>3

LEMMA AnswerSecondaryStep ==
  ASSUME IInv, NEW t \in Thread, AnswerSecondary(t)
  PROVE  IInv'
<1>1. At(t, "secondary") /\ More(Run(t))
  BY DEF AnswerSecondary, SecondaryNeedsResult
<1>2. /\ Run(t) \in SecondaryRun /\ SecondaryRunOK(Run(t)) /\ NextIssue(Run(t)) \in Issue
      /\ NextIssue(Run(t)) \in IssuesIn(Run(t).primary.results)
  BY <1>1, InSecondary DEF IInv, SecondaryRunOK
<1>3. PICK a \in Said :
        /\ Collects(t, SecondaryResult(t, a))
        /\ SaveSecondary(t, "IN_PROGRESS", Append(Run(t).results, SecondaryResult(t, a)))
  <2>1. CASE NextIssue(Run(t)) \in NoCall2
    BY <2>1 DEF AnswerSecondary, Said
  <2>2. CASE NextIssue(Run(t)) \notin NoCall2
    BY <2>2 DEF AnswerSecondary, Said
  <2> QED
    BY <2>1, <2>2
<1> DEFINE r == SecondaryResult(t, a)
<1>4. /\ r \in Review /\ r.issue = NextIssue(Run(t))
      /\ r.context = ContextFor(Run(t), r.issue)
      /\ r.reviewed = PrimaryOf(Run(t).primary, r.issue)
  <2>1. ContextFor(Run(t), NextIssue(Run(t))) \in Given
    BY <1>1, <1>2, InSecondary, SourceContext DEF IInv, SecondaryRunOK, SecondaryRun, LegalContext
  <2>2. PrimaryOf(Run(t).primary, NextIssue(Run(t))) \in Finding
    BY <1>2, PrimaryOfIsThere DEF SecondaryRun
  <2> QED
    BY <1>2, <1>3, <2>1, <2>2 DEF SecondaryResult, Review
<1>5. \E j \in 1..Len(Run(t).primary.results) :
        /\ Run(t).primary.results[j] = r.reviewed
        /\ r.issue = Run(t).primary.results[j].issue
  <2>1. Run(t).primary \in PrimaryAudit
    BY <1>2 DEF SecondaryRun
  <2> QED
    BY <1>2, <1>4, <2>1, PrimaryOfIsThere
<1> HIDE DEF r
<1>6. UNCHANGED <<corpus, past>>
  BY <1>3 DEF SaveSecondary, inputs
<1>7. /\ Append(Run(t).results, r) \in Seq(Review)
      /\ OneSource(Run(t), Append(Run(t).results, r))
      /\ Fits(Run(t).primary, Append(Run(t).results, r))
      /\ ThreadsOK'
  BY <1>1, <1>3, <1>4, <1>5, <1>6, CollectsSecondary DEF IInv, r
<1>8. SecondaryOK([status |-> "IN_PROGRESS", model |-> Run(t).model, legal |-> Run(t).legal,
                   primary |-> Run(t).primary, results |-> Append(Run(t).results, r)])
  BY <1>2, <1>7, SavesSecondary DEF Status, SecondaryRunOK
<1>9. InputsOK' /\ FilesOK'
  BY <1>3, <1>8, SecondarySaved DEF r
<1> QED
  BY <1>7, <1>9 DEF IInv

LEMMA InterruptSecondaryStep ==
  ASSUME IInv, NEW t \in Thread, InterruptSecondary(t)
  PROVE  IInv'
<1>1. /\ Run(t) \in SecondaryRun /\ SecondaryRunOK(Run(t)) /\ Run(t).results \in Seq(Review)
  BY InSecondary DEF IInv, InterruptSecondary, SecondaryNeedsResult, SecondaryRun
<1>2. SecondaryOK([status |-> "INTERRUPTED", model |-> Run(t).model, legal |-> Run(t).legal,
                   primary |-> Run(t).primary, results |-> Run(t).results])
  BY <1>1, SavesSecondary DEF Status, SecondaryRunOK
<1>3. InputsOK' /\ FilesOK' /\ UNCHANGED <<corpus, past>>
  BY <1>2, SecondarySaved DEF InterruptSecondary
<1>4. ThreadsOK'
  BY <1>3, EndsWell DEF IInv, InterruptSecondary
<1> QED
  BY <1>3, <1>4 DEF IInv

LEMMA FinishSecondaryStep ==
  ASSUME IInv, NEW t \in Thread, FinishSecondary(t)
  PROVE  IInv'
<1>1. /\ Run(t) \in SecondaryRun /\ SecondaryRunOK(Run(t)) /\ Run(t).results \in Seq(Review)
      /\ Run(t).plan \in Plan
  BY InSecondary DEF IInv, FinishSecondary, SecondaryRun
<1>2. IssuesIn(Run(t).results) = IssuesIn(Run(t).primary.results)
  BY <1>1, WholeRun, WholeSet DEF FinishSecondary, More, SecondaryRunOK
<1>3. SecondaryOK([status |-> "COMPLETE", model |-> Run(t).model, legal |-> Run(t).legal,
                   primary |-> Run(t).primary, results |-> Run(t).results])
  BY <1>1, <1>2, SavesSecondary DEF Status, SecondaryRunOK
<1>4. InputsOK' /\ FilesOK' /\ UNCHANGED <<corpus, past>>
  BY <1>3, SecondarySaved DEF FinishSecondary
<1>5. ThreadsOK'
  BY <1>4, EndsWell DEF IInv, FinishSecondary
<1> QED
  BY <1>4, <1>5 DEF IInv

-----------------------------------------------------------------------------
(* Stage 13G, and the process exit.                                        *)

LEMMA BuildReportStep ==
  ASSUME IInv, NEW t \in Thread, BuildReport(t)
  PROVE  IInv'
<1>1. InputsOK' /\ FilesOK'
  BY InputsStay, FilesStay DEF IInv, BuildReport, Begin, files
<1> DEFINE run == [plan |-> plan, primary |-> primary]
           s == [at |-> "compare", run |-> run]
<1>2. plan \in Plan /\ PrimaryOK(primary)
  BY FreshLegal DEF IInv, FilesOK, BuildReport, PrimaryFresh
<1>3. s \in ThreadState /\ ThreadOK(s, corpus, past)
  BY <1>2 DEF ThreadState, OpenRun, PrimaryOK, ThreadOK
<1>4. Becomes(t, s) /\ UNCHANGED <<corpus, past>>
  BY DEF BuildReport, inputs
<1>5. ThreadsOK'
  BY <1>3, <1>4, Moves DEF IInv
<1> QED
  BY <1>1, <1>5 DEF IInv

LEMMA CompareStep ==
  ASSUME IInv, NEW t \in Thread, Compare(t)
  PROVE  IInv'
<1>1. InputsOK' /\ FilesOK' /\ UNCHANGED <<corpus, past>>
  BY InputsStay, FilesStay DEF IInv, Compare, files
<1> DEFINE draft == [primary |-> Run(t).primary, secondary |-> secondary]
           s == [at |-> "report", draft |-> draft]
<1>2. PrimaryOK(Run(t).primary)
  BY DEF IInv, Compare, At, Run, ThreadsOK, ThreadOK
<1>3. SecondaryOK(secondary)
  BY DEF IInv, FilesOK, Compare, SecondaryFresh
<1>4. draft \in Comparison
  BY <1>2, <1>3 DEF Comparison, PrimaryOK, SecondaryOK
<1>5. ReportOK(draft)
  BY <1>2, <1>3, <1>4 DEF ReportOK, Compare, Comparable
<1>6. s \in ThreadState /\ ThreadOK(s, corpus, past)
  BY <1>4, <1>5 DEF ThreadState, ThreadOK
<1>7. Becomes(t, s)
  BY DEF Compare
<1>8. ThreadsOK'
  BY <1>1, <1>6, <1>7, Moves DEF IInv
<1> QED
  BY <1>1, <1>8 DEF IInv

LEMMA WriteReportStep ==
  ASSUME IInv, NEW t \in Thread, WriteReport(t)
  PROVE  IInv'
<1>1. InputsOK'
  BY InputsStay DEF IInv, WriteReport
<1>2. ReportOK(thread[t].draft)
  BY DEF IInv, ThreadsOK, ThreadOK, WriteReport, At
<1>3. FilesOK'
  BY <1>2 DEF IInv, FilesOK, WriteReport, inputs
<1>4. ThreadsOK'
  BY EndsWell DEF IInv, WriteReport, inputs
<1> QED
  BY <1>1, <1>3, <1>4 DEF IInv

LEMMA ExitStep ==
  ASSUME IInv, Exit
  PROVE  IInv'
<1>1. InputsOK' /\ FilesOK'
  BY InputsStay, FilesStay DEF IInv, Exit, files
<1>2. ThreadsOK'
  BY DEF Exit, ThreadsOK, ThreadOK, Idle, ThreadState
<1> QED
  BY <1>1, <1>2 DEF IInv

-----------------------------------------------------------------------------
(* The invariant, and what follows from it.                                *)

LEMMA InitOK == Init => IInv
<1> SUFFICES ASSUME Init PROVE IInv
  OBVIOUS
<1>1. InputsOK
  BY OpsIsNat DEF Init, InputsOK
<1>2. FilesOK
  BY DEF Init, FilesOK
<1>3. ThreadsOK
  BY DEF Init, ThreadsOK, ThreadOK, Idle, ThreadState
<1> QED
  BY <1>1, <1>2, <1>3 DEF IInv

LEMMA StepOK == IInv /\ [Next]_vars => IInv'
<1> SUFFICES ASSUME IInv, [Next]_vars PROVE IInv'
  OBVIOUS
<1>1. ASSUME NEW t \in Thread, Step(t) PROVE IInv'
  <2>1. CASE \E d \in AsOf : BuildLegal(t, d)
    BY <2>1, BuildLegalStep
  <2>2. CASE Retrieve(t) \/ WriteLegal(t)
    BY <2>2, RetrieveStep, WriteLegalStep
  <2>3. CASE StartPrimary(t) \/ StartSecondary(t) \/ LoadLegal(t)
    BY <2>3, StartPrimaryStep, StartSecondaryStep, LoadLegalStep
  <2>4. CASE ReadContract(t) \/ BuildContext(t) \/ GivesUp(t)
    BY <2>4, ReadContractStep, BuildContextStep, GivesUpStep
  <2>5. CASE \E m \in Model : ResumePrimary(t, m) \/ ResumeSecondary(t, m)
    BY <2>5, ResumePrimaryStep, ResumeSecondaryStep
  <2>8. CASE ReusePrimary(t) \/ AnswerPrimary(t) \/ InterruptPrimary(t) \/ FinishPrimary(t)
    BY <2>8, ReusePrimaryStep, AnswerPrimaryStep, InterruptPrimaryStep, FinishPrimaryStep
  <2>6. CASE ReuseSecondary(t) \/ AnswerSecondary(t) \/ InterruptSecondary(t) \/ FinishSecondary(t)
    BY <2>6, ReuseSecondaryStep, AnswerSecondaryStep, InterruptSecondaryStep, FinishSecondaryStep
  <2>7. CASE BuildReport(t) \/ Compare(t) \/ WriteReport(t)
    BY <2>7, BuildReportStep, CompareStep, WriteReportStep
  <2> QED
    BY <1>1, <2>1, <2>2, <2>3, <2>4, <2>5, <2>6, <2>7, <2>8 DEF Step
<1>2. CASE UNCHANGED vars
  <2>1. InputsOK' /\ FilesOK'
    BY <1>2, InputsStay, FilesStay DEF IInv, vars, inputs, files
  <2>2. ThreadsOK'
    BY <1>2 DEF IInv, ThreadsOK, vars
  <2> QED
    BY <2>1, <2>2 DEF IInv
<1> QED
  BY <1>1, <1>2, EditStep, ExitStep DEF Next

\* The inductive invariant: every artifact, and every run that will write one,
\* is what its lineage says.
THEOREM Invariance == Spec => []IInv
BY InitOK, StepOK, PTL DEF Spec

\* The inputs, the artifacts with every result and context in them, and what each
\* thread holds keep their form; a legal context has one retrieval per issue.
THEOREM TypeCorrect == Spec => []TypeOK
<1>1. IInv => TypeOK
  <2> SUFFICES ASSUME IInv PROVE TypeOK
    OBVIOUS
  <2>1. legal # NoFile => legal \in LegalContext /\ Len(legal.evidence) = Len(IssuesOf[legal.plan])
    BY DEF IInv, FilesOK, LegalOK, Retrieved
  <2>2. primary \in PrimaryAudit \cup {NoFile}
    BY DEF IInv, FilesOK, PrimaryOK
  <2>3. secondary \in SecondaryReview \cup {NoFile}
    BY DEF IInv, FilesOK, SecondaryOK
  <2>4. report \in Comparison \cup {NoFile}
    BY DEF IInv, FilesOK, ReportOK
  <2> QED
    BY <2>1, <2>2, <2>3, <2>4 DEF TypeOK, IInv, InputsOK, ThreadsOK
<1> QED
  BY <1>1, Invariance, PTL

\* Every finding of an audit comes from one contract and the legal context the
\* audit names, whatever checkpoints and overlapping runs it is made of.
THEOREM OneContext == Spec => []OneContextPerAudit
<1>1. IInv => OneContextPerAudit
  <2> SUFFICES ASSUME IInv, primary # NoFile
               PROVE  \E c \in Contract : \A k \in 1..Len(primary.results) : \E r \in Rules :
                        primary.results[k].context
                          = Context(primary.legal, c, r, primary.results[k].issue)
    BY DEF OneContextPerAudit
  <2> QED
    BY DEF IInv, FilesOK, PrimaryOK, FromContext
<1> QED
  BY <1>1, Invariance, PTL

\* Every review is one of a finding of the audit it names.
THEOREM ReviewsFit == Spec => []ReviewsFitTheirPrimary
<1>1. IInv => ReviewsFitTheirPrimary
  BY DEF IInv, FilesOK, SecondaryOK, Fits, ReviewsFitTheirPrimary
<1> QED
  BY <1>1, Invariance, PTL

\* A stage declared complete has one result for each issue.
THEOREM CompleteIsWhole == Spec => []CompleteStagesAreWhole
<1>1. IInv => CompleteStagesAreWhole
  BY DEF IInv, FilesOK, PrimaryOK, SecondaryOK, CompleteStagesAreWhole
<1> QED
  BY <1>1, Invariance, PTL

\* The finding and the review that are compared saw the same legal context.
THEOREM OneContextCompared == Spec => []ReportComparesOneContext
<1>1. IInv => ReportComparesOneContext
  <2> SUFFICES ASSUME IInv, report # NoFile, NEW k \in 1..Len(report.secondary.results)
               PROVE  report.secondary.results[k].context.legal
                        = report.secondary.results[k].reviewed.context.legal
    BY DEF ReportComparesOneContext
  <2> DEFINE review == report.secondary.results[k]
             audit == report.primary
  <2>1. ReportOK(report)
    BY DEF IInv, FilesOK
  <2>2. /\ PrimaryOK(audit) /\ SecondaryOK(report.secondary)
        /\ report.secondary.primary = audit /\ report.secondary.legal = audit.legal
    BY <2>1 DEF ReportOK
  <2>3. review.context.legal = audit.legal
    BY <2>2 DEF SecondaryOK
  <2>4. PICK j \in 1..Len(audit.results) : audit.results[j] = review.reviewed
    BY <2>2 DEF SecondaryOK, Fits
  <2>5. PICK c \in Contract : FromContext(audit.legal, c, audit.results)
    BY <2>2 DEF PrimaryOK
  <2>6. \E r \in Rules : audit.results[j].context = Context(audit.legal, c, r, audit.results[j].issue)
    BY <2>5 DEF FromContext
  <2>7. audit.results[j].context.legal = audit.legal
    BY <2>6 DEF Context
  <2> QED
    BY <2>3, <2>4, <2>7
<1> QED
  BY <1>1, Invariance, PTL

\* A report that loads as fresh covers the plan in force, from the corpus in force
\* unless that one has come back.
THEOREM FreshCovers == Spec => []FreshReportCoversThePlan
<1>1. IInv => FreshReportCoversThePlan
  <2> SUFFICES ASSUME IInv, ReportFresh
               PROVE  /\ IssuesIn(report.primary.results) = PlanSet(plan)
                      /\ IssuesIn(report.secondary.results) = PlanSet(plan)
                      /\ \A k \in 1..Len(report.primary.results) :
                           LET used == report.primary.results[k].context.legal
                           IN  /\ used.plan = plan
                               /\ corpus \notin past =>
                                    \A j \in 1..Len(used.evidence) : used.evidence[j] = corpus
    BY DEF FreshReportCoversThePlan
  <2>1. ReportOK(report) /\ LegalOK(legal, corpus, past) /\ legal.plan = plan /\ plan \in Plan
    BY FreshLegal DEF IInv, FilesOK, ReportFresh, PrimaryFresh
  <2>2. report.primary.legal = legal /\ legal.corpus = corpus
    BY DEF ReportFresh, PrimaryFresh, LegalFresh
  <2>3. /\ PrimaryOK(report.primary) /\ report.primary.status = "COMPLETE"
        /\ SecondaryOK(report.secondary) /\ report.secondary.status = "COMPLETE"
        /\ report.secondary.primary = report.primary
    BY <2>1 DEF ReportOK
  <2>4. IssuesIn(report.primary.results) = PlanSet(plan)
    BY <2>1, <2>2, <2>3, WholeSet DEF PrimaryOK
  <2>5. IssuesIn(report.secondary.results) = PlanSet(plan)
    BY <2>3, <2>4 DEF SecondaryOK
  <2>6. ASSUME NEW k \in 1..Len(report.primary.results)
        PROVE  report.primary.results[k].context.legal = legal
    <3>1. PICK c \in Contract : FromContext(report.primary.legal, c, report.primary.results)
      BY <2>3 DEF PrimaryOK
    <3>2. \E r \in Rules : report.primary.results[k].context
            = Context(report.primary.legal, c, r, report.primary.results[k].issue)
      BY <3>1 DEF FromContext
    <3> QED
      BY <2>2, <3>2 DEF Context
  <2>7. corpus \notin past => \A j \in 1..Len(legal.evidence) : legal.evidence[j] = corpus
    BY <2>1, <2>2 DEF LegalOK, Retrieving
  <2> QED
    BY <2>1, <2>4, <2>5, <2>6, <2>7
<1> QED
  BY <1>1, Invariance, PTL
=============================================================================
