----------------------------- MODULE IssueAudit -----------------------------
(***************************************************************************)
(* The audit chain of one job: audit-plan.json, issue-legal-context.json,  *)
(* issue-primary-audit.json, issue-secondary-review.json and               *)
(* issue-review-report.json, and the threads that build them.  The worker  *)
(* of the pipeline and the stand-alone endpoints call the same functions,  *)
(* nothing locks the files, and every file is replaced as a whole.         *)
(*                                                                         *)
(* A fingerprint (SHA-256 of the whole content) is modelled by the content *)
(* itself: an artifact names its upstream by carrying it.  The corpus has  *)
(* one too, and a rebuild may bring back what it held before.              *)
(***************************************************************************)
EXTENDS Naturals, Sequences

CONSTANTS
  Issue,             \* issue identifiers
  Plan,              \* audit plans the planner may write
  IssuesOf,          \* [Plan -> Seq(Issue)]: the issues of a plan, in order
  Covered,           \* plans with coverage_complete
  Contract,          \* contents of contract.json
  SourceOf,          \* source fingerprint of a contract and of a plan
  TextOf,            \* [Contract -> [Issue -> ...]]: what an issue's context takes from it
  Rules,             \* contents of audit-rules.json
  HintsOf,           \* [Rules -> [Issue -> ...]]: the results the plan names for an issue
  Corpus,            \* contents of the legal corpus and its index
  AsOf,              \* audit dates
  Model,             \* configured models
  Answer,            \* validated model answers
  NoCall1, NoCall2,  \* issues without a target or over the budget of DeepSeek, of Kimi
  Thread,
  MaxOps,            \* bound: edits and started operations
  NoFile

ASSUME PlansAreSequences ==
  /\ IssuesOf \in [Plan -> Seq(Issue)] /\ Covered \subseteq Plan
  /\ \A p \in Plan : \A j, k \in 1..Len(IssuesOf[p]) : IssuesOf[p][j] = IssuesOf[p][k] => j = k

ASSUME OpsIsNat == MaxOps \in Nat

ASSUME NoFileIsNoContent == NoFile \notin Plan \cup Answer

VARIABLES
  contract, rules, corpus,                   \* contract.json, audit-rules.json, the corpus
  past,                                      \* history: corpora that were replaced
  plan, legal, primary, secondary, report,   \* the files of the chain
  thread,                                    \* what each thread is doing
  ops
vars == <<contract, rules, corpus, past, plan, legal, primary, secondary, report, thread, ops>>
inputs == <<contract, rules, corpus, past>>
files == <<plan, legal, primary, secondary, report>>

-----------------------------------------------------------------------------
(* Artifacts.                                                              *)

Context(l, c, r, i) ==
  [issue |-> i, legal |-> l, text |-> TextOf[c][i], hints |-> HintsOf[r][i]]
IssuesIn(results) == {results[k].issue : k \in 1..Len(results)}
PlanSet(p) == {IssuesOf[p][k] : k \in 1..Len(IssuesOf[p])}

\* load_* with validate_freshness: each checks its upstream, which checks its own.
LegalFresh == legal # NoFile /\ plan # NoFile /\ legal.plan = plan /\ legal.corpus = corpus
PrimaryFresh == primary # NoFile /\ LegalFresh /\ primary.legal = legal
SecondaryFresh == secondary # NoFile /\ PrimaryFresh /\ secondary.primary = primary
ReportFresh ==
  /\ report # NoFile /\ PrimaryFresh /\ SecondaryFresh
  /\ report.primary = primary /\ report.secondary = secondary

\* The context that was built for an issue.
ContextFor(run, i) ==
  CHOOSE x \in {run.contexts[k] : k \in 1..Len(run.contexts)} : x.issue = i

\* Mutant of Reusable: a checkpointed result is taken over for the issue's name.
ReusableByName(run, i) == {r \in {run.old[k] : k \in 1..Len(run.old)} : r.issue = i}

\* A checkpointed result is taken over only for the very same context.
Reusable(run, i) ==
  {r \in {run.old[k] : k \in 1..Len(run.old)} :
     r.issue = i /\ r.context = ContextFor(run, i)}

NextIssue(run) == IssuesOf[run.plan][Len(run.results) + 1]
More(run) == Len(run.results) < Len(IssuesOf[run.plan])

-----------------------------------------------------------------------------
Idle == [at |-> "idle"]
Run(t) == thread[t].run
Becomes(t, state) == thread' = [thread EXCEPT ![t] = state]
Ends(t) == Becomes(t, Idle)
Collects(t, r) == Becomes(t, [thread[t] EXCEPT !.run.results = Append(Run(t).results, r)])

Init ==
  /\ contract \in Contract /\ rules \in Rules /\ corpus \in Corpus /\ past = {}
  /\ plan = NoFile /\ legal = NoFile /\ primary = NoFile /\ secondary = NoFile /\ report = NoFile
  /\ thread = [t \in Thread |-> Idle]
  /\ ops = 0

Counted == ops < MaxOps /\ ops' = ops + 1
Begin(t) == thread[t].at = "idle" /\ Counted
At(t, where) == thread[t].at = where

\* What the rest of the application does to the inputs of the chain.
Edit ==
  /\ Counted
  /\ \/ \E p \in Plan \ {plan} : plan' = p /\ UNCHANGED inputs
     \/ \E c \in Contract \ {contract} : contract' = c /\ UNCHANGED <<plan, rules, corpus, past>>
     \/ \E r \in Rules \ {rules} : rules' = r /\ UNCHANGED <<plan, contract, corpus, past>>
     \/ \E k \in Corpus \ {corpus} :
          corpus' = k /\ past' = past \cup {corpus} /\ UNCHANGED <<plan, contract, rules>>
  /\ UNCHANGED <<legal, primary, secondary, report, thread>>

-----------------------------------------------------------------------------
(* Stage 13D: legal evidence for every issue.  The artifact names the plan *)
(* and the corpus read at the beginning; every retrieval reads the corpus  *)
(* of its own time.  Nothing is written when a retrieval fails.            *)

BuildLegal(t, d) ==
  /\ Begin(t)
  /\ plan \in Covered /\ IssuesOf[plan] # <<>>
  /\ Becomes(t, [at |-> "legal", draft |-> [plan |-> plan, corpus |-> corpus, asof |-> d,
                                          evidence |-> <<>>]])
  /\ UNCHANGED <<inputs, files>>

\* Mutant of Retrieved: the first answer is enough.
RetrievedSome(draft) == draft.evidence # <<>>

Retrieved(draft) == Len(draft.evidence) = Len(IssuesOf[draft.plan])

Retrieve(t) ==
  /\ At(t, "legal") /\ ~Retrieved(thread[t].draft)
  /\ \/ Becomes(t, [thread[t] EXCEPT !.draft.evidence = Append(thread[t].draft.evidence, corpus)])
     \/ Ends(t)
  /\ UNCHANGED <<inputs, files, ops>>

\* Mutant of WriteLegal: the corpus is named when the artifact is written.
WriteLegalNow(t) ==
  /\ At(t, "legal") /\ Retrieved(thread[t].draft)
  /\ legal' = [thread[t].draft EXCEPT !.corpus = corpus] /\ Ends(t)
  /\ UNCHANGED <<inputs, plan, primary, secondary, report, ops>>

WriteLegal(t) ==
  /\ At(t, "legal") /\ Retrieved(thread[t].draft)
  /\ legal' = thread[t].draft /\ Ends(t)
  /\ UNCHANGED <<inputs, plan, primary, secondary, report, ops>>

-----------------------------------------------------------------------------
(* build_issue_primary_contexts, which both model stages begin with: the   *)
(* legal context and what makes it fresh, then the plan again and the      *)
(* contract, then the rules, once more for each issue.                     *)

\* Stage 13E reads nothing before, ...
StartPrimary(t) ==
  /\ Begin(t)
  /\ LegalFresh
  /\ Becomes(t, [at |-> "fresh", run |-> [plan |-> plan, primary |-> NoFile, legal |-> legal]])
  /\ UNCHANGED <<inputs, files>>

\* ... stage 13F loads the plan and the primary audit first.
StartSecondary(t) ==
  /\ Begin(t)
  /\ PrimaryFresh
  /\ Becomes(t, [at |-> "opened", run |-> [plan |-> plan, primary |-> primary]])
  /\ UNCHANGED <<inputs, files>>

LoadLegal(t) ==
  /\ At(t, "opened") /\ LegalFresh
  /\ Becomes(t, [at |-> "fresh", run |-> [plan |-> Run(t).plan, primary |-> Run(t).primary,
                                         legal |-> legal]])
  /\ UNCHANGED <<inputs, files, ops>>

ReadContract(t) ==
  /\ At(t, "fresh")
  /\ plan = Run(t).legal.plan /\ SourceOf[contract] = SourceOf[plan]
  /\ Becomes(t, [at |-> "contexts",
                 run |-> [plan |-> Run(t).plan, primary |-> Run(t).primary, legal |-> Run(t).legal,
                          contract |-> contract, contexts |-> <<>>]])
  /\ UNCHANGED <<inputs, files, ops>>

Built(run) == Len(run.contexts) = Len(IssuesOf[run.legal.plan])

BuildContext(t) ==
  /\ At(t, "contexts") /\ ~Built(Run(t))
  /\ LET i == IssuesOf[Run(t).legal.plan][Len(Run(t).contexts) + 1]
         x == Context(Run(t).legal, Run(t).contract, rules, i)
     IN Becomes(t, [thread[t] EXCEPT !.run.contexts = Append(Run(t).contexts, x)])
  /\ UNCHANGED <<inputs, files, ops>>

\* A file is missing, stale, torn or without what the plan names, or the provider
\* is not configured.
GivesUp(t) ==
  /\ thread[t].at \in {"opened", "fresh", "contexts", "compare"} /\ Ends(t)
  /\ UNCHANGED <<inputs, files, ops>>

-----------------------------------------------------------------------------
(* Stage 13E: DeepSeek, one request per issue, a checkpoint after each.    *)

AllReused(run) ==
  \A k \in 1..Len(IssuesOf[run.plan]) : Reusable(run, IssuesOf[run.plan][k]) # {}

\* A COMPLETE audit of the same contexts is returned as it is.
ResumePrimary(t, m) ==
  /\ At(t, "contexts") /\ Built(Run(t)) /\ Run(t).primary = NoFile
  /\ LET same == primary # NoFile /\ primary.legal = Run(t).legal /\ primary.model = m
         run == [model |-> m, plan |-> Run(t).plan, legal |-> Run(t).legal,
                 contexts |-> Run(t).contexts,
                 old |-> IF same THEN primary.results ELSE <<>>, results |-> <<>>]
     IN IF same /\ primary.status = "COMPLETE" /\ AllReused(run)
        THEN Ends(t) ELSE Becomes(t, [at |-> "primary", run |-> run])
  /\ UNCHANGED <<inputs, files, ops>>

SavePrimary(t, status, results) ==
  /\ primary' = [status |-> status, model |-> Run(t).model, legal |-> Run(t).legal,
                 results |-> results]
  /\ UNCHANGED <<inputs, plan, legal, secondary, report, ops>>

PrimaryResult(t, a) ==
  LET i == NextIssue(Run(t))
  IN [issue |-> i, context |-> ContextFor(Run(t), i), answer |-> a]

\* A reused result is not persisted by itself: the next write carries it.
ReusePrimary(t) ==
  /\ At(t, "primary") /\ More(Run(t))
  /\ \E r \in Reusable(Run(t), NextIssue(Run(t))) : Collects(t, r)
  /\ UNCHANGED <<inputs, files, ops>>

PrimaryNeedsResult(t) ==
  At(t, "primary") /\ More(Run(t)) /\ Reusable(Run(t), NextIssue(Run(t))) = {}

\* No target items, or too large a context: a result without a request.
\* Otherwise the model answers and the answer is validated.
AnswerPrimary(t) ==
  /\ PrimaryNeedsResult(t)
  /\ \E a \in IF NextIssue(Run(t)) \in NoCall1 THEN {"none"} ELSE Answer :
       /\ Collects(t, PrimaryResult(t, a))
       /\ SavePrimary(t, "IN_PROGRESS", Append(Run(t).results, PrimaryResult(t, a)))

\* The boundary refuses, the provider fails, or the answer is invalid.
InterruptPrimary(t) ==
  /\ PrimaryNeedsResult(t) /\ NextIssue(Run(t)) \notin NoCall1
  /\ SavePrimary(t, "INTERRUPTED", Run(t).results) /\ Ends(t)

\* Mutant of FinishPrimary: the audit may be declared complete at any issue.
FinishPrimaryEarly(t) ==
  /\ At(t, "primary") /\ Run(t).results # <<>>
  /\ SavePrimary(t, "COMPLETE", Run(t).results) /\ Ends(t)

FinishPrimary(t) ==
  /\ At(t, "primary") /\ ~More(Run(t))
  /\ SavePrimary(t, "COMPLETE", Run(t).results) /\ Ends(t)

-----------------------------------------------------------------------------
(* Stage 13F: Kimi reviews every result of a complete primary audit.       *)

SameIssues(p, l, results) == PlanSet(p) = PlanSet(l.plan) /\ PlanSet(p) = IssuesIn(results)

\* Mutant of SameReview: which audit the checkpoint reviews is not compared.
SameReviewer(read) == secondary # NoFile /\ secondary.model = read.model

\* A checkpoint is used again only for a review of the very same audit.
SameReview(read) ==
  secondary # NoFile /\ secondary.model = read.model /\ secondary.primary = read.primary

ResumeSecondary(t, m) ==
  /\ At(t, "contexts") /\ Built(Run(t)) /\ Run(t).primary # NoFile
  /\ LET read == [model |-> m, primary |-> Run(t).primary]
         run == [model |-> m, plan |-> Run(t).plan, primary |-> Run(t).primary,
                 legal |-> Run(t).legal, contexts |-> Run(t).contexts,
                 old |-> IF SameReview(read) THEN secondary.results ELSE <<>>, results |-> <<>>]
     IN /\ Run(t).primary.status = "COMPLETE"
        /\ SameIssues(Run(t).plan, Run(t).legal, Run(t).primary.results)
        /\ Becomes(t, [at |-> "secondary", run |-> run])
  /\ UNCHANGED <<inputs, files, ops>>

SaveSecondary(t, status, results) ==
  /\ secondary' = [status |-> status, model |-> Run(t).model, legal |-> Run(t).legal,
                   primary |-> Run(t).primary, results |-> results]
  /\ UNCHANGED <<inputs, plan, legal, primary, report, ops>>

PrimaryOf(audit, i) == CHOOSE r \in {audit.results[k] : k \in 1..Len(audit.results)} : r.issue = i

SecondaryResult(t, a) ==
  LET i == NextIssue(Run(t))
  IN [issue |-> i, context |-> ContextFor(Run(t), i),
      reviewed |-> PrimaryOf(Run(t).primary, i), answer |-> a]

ReuseSecondary(t) ==
  /\ At(t, "secondary") /\ More(Run(t))
  /\ \E r \in Reusable(Run(t), NextIssue(Run(t))) : Collects(t, r)
  /\ UNCHANGED <<inputs, files, ops>>

SecondaryNeedsResult(t) ==
  At(t, "secondary") /\ More(Run(t)) /\ Reusable(Run(t), NextIssue(Run(t))) = {}

AnswerSecondary(t) ==
  /\ SecondaryNeedsResult(t)
  /\ \E a \in IF NextIssue(Run(t)) \in NoCall2 THEN {"none"} ELSE Answer :
       /\ Collects(t, SecondaryResult(t, a))
       /\ SaveSecondary(t, "IN_PROGRESS", Append(Run(t).results, SecondaryResult(t, a)))

InterruptSecondary(t) ==
  /\ SecondaryNeedsResult(t) /\ NextIssue(Run(t)) \notin NoCall2
  /\ SaveSecondary(t, "INTERRUPTED", Run(t).results) /\ Ends(t)

FinishSecondary(t) ==
  /\ At(t, "secondary") /\ ~More(Run(t))
  /\ SaveSecondary(t, "COMPLETE", Run(t).results) /\ Ends(t)

-----------------------------------------------------------------------------
(* Stage 13G: the deterministic comparison.                                *)

\* Mutant of Comparable: the legal context of the review is not compared.
ComparableIssues(pl, p, s) ==
  /\ p.status = "COMPLETE" /\ s.status = "COMPLETE"
  /\ s.primary = p
  /\ PlanSet(pl) = IssuesIn(p.results) /\ PlanSet(pl) = IssuesIn(s.results)

\* The lineage build_issue_review_report checks before it compares.
Comparable(pl, p, s) ==
  /\ p.status = "COMPLETE" /\ s.status = "COMPLETE"
  /\ s.legal = p.legal
  /\ s.primary = p
  /\ PlanSet(pl) = IssuesIn(p.results) /\ PlanSet(pl) = IssuesIn(s.results)

BuildReport(t) ==
  /\ Begin(t)
  /\ PrimaryFresh
  /\ Becomes(t, [at |-> "compare", run |-> [plan |-> plan, primary |-> primary]])
  /\ UNCHANGED <<inputs, files>>

\* The review is loaded after the audit.
Compare(t) ==
  /\ At(t, "compare") /\ SecondaryFresh
  /\ Comparable(Run(t).plan, Run(t).primary, secondary)
  /\ Becomes(t, [at |-> "report", draft |-> [primary |-> Run(t).primary, secondary |-> secondary]])
  /\ UNCHANGED <<inputs, files, ops>>

WriteReport(t) ==
  /\ At(t, "report") /\ report' = thread[t].draft /\ Ends(t)
  /\ UNCHANGED <<inputs, plan, legal, primary, secondary, ops>>

-----------------------------------------------------------------------------
\* The process exits: the files stay, the threads are gone.
Exit ==
  /\ \E t \in Thread : ~At(t, "idle")
  /\ thread' = [t \in Thread |-> Idle]
  /\ UNCHANGED <<inputs, files, ops>>

Step(t) ==
  \/ \E d \in AsOf : BuildLegal(t, d)
  \/ Retrieve(t) \/ WriteLegal(t)
  \/ StartPrimary(t) \/ StartSecondary(t) \/ LoadLegal(t)
  \/ ReadContract(t) \/ BuildContext(t) \/ GivesUp(t)
  \/ \E m \in Model : ResumePrimary(t, m) \/ ResumeSecondary(t, m)
  \/ ReusePrimary(t) \/ AnswerPrimary(t) \/ InterruptPrimary(t) \/ FinishPrimary(t)
  \/ ReuseSecondary(t) \/ AnswerSecondary(t) \/ InterruptSecondary(t) \/ FinishSecondary(t)
  \/ BuildReport(t) \/ Compare(t) \/ WriteReport(t)

Next == Edit \/ (\E t \in Thread : Step(t)) \/ Exit

Spec == Init /\ [][Next]_vars

-----------------------------------------------------------------------------
(* Properties.                                                             *)

Status == {"IN_PROGRESS", "INTERRUPTED", "COMPLETE"}
LegalContext == [plan : Plan, corpus : Corpus, asof : AsOf, evidence : Seq(Corpus)]
Given ==
  [issue : Issue, legal : LegalContext, text : {TextOf[c][i] : c \in Contract, i \in Issue},
   hints : {HintsOf[r][i] : r \in Rules, i \in Issue}]
Said == Answer \cup {"none"}
Finding == [issue : Issue, context : Given, answer : Said]
Review == [issue : Issue, context : Given, reviewed : Finding, answer : Said]
PrimaryAudit == [status : Status, model : Model, legal : LegalContext, results : Seq(Finding)]
SecondaryReview ==
  [status : Status, model : Model, legal : LegalContext, primary : PrimaryAudit,
   results : Seq(Review)]
Comparison == [primary : PrimaryAudit, secondary : SecondaryReview]

OpenRun == [plan : Plan, primary : PrimaryAudit]
FreshRun == [plan : Plan, primary : PrimaryAudit \cup {NoFile}, legal : LegalContext]
ContextsRun ==
  [plan : Plan, primary : PrimaryAudit \cup {NoFile}, legal : LegalContext,
   contract : Contract, contexts : Seq(Given)]
PrimaryRun ==
  [model : Model, plan : Plan, legal : LegalContext, contexts : Seq(Given),
   old : Seq(Finding), results : Seq(Finding)]
SecondaryRun ==
  [model : Model, plan : Plan, primary : PrimaryAudit, legal : LegalContext,
   contexts : Seq(Given), old : Seq(Review), results : Seq(Review)]

ThreadState ==
  {Idle} \cup [at : {"legal"}, draft : LegalContext]
  \cup [at : {"opened", "compare"}, run : OpenRun] \cup [at : {"fresh"}, run : FreshRun]
  \cup [at : {"contexts"}, run : ContextsRun] \cup [at : {"primary"}, run : PrimaryRun]
  \cup [at : {"secondary"}, run : SecondaryRun] \cup [at : {"report"}, draft : Comparison]

TypeOK ==
  /\ contract \in Contract /\ rules \in Rules /\ corpus \in Corpus /\ past \subseteq Corpus
  /\ ops \in 0..MaxOps
  /\ plan \in Plan \cup {NoFile}
  /\ legal # NoFile => legal \in LegalContext /\ Len(legal.evidence) = Len(IssuesOf[legal.plan])
  /\ primary \in PrimaryAudit \cup {NoFile} /\ secondary \in SecondaryReview \cup {NoFile}
  /\ report \in Comparison \cup {NoFile}
  /\ thread \in [Thread -> ThreadState]

\* Every result of a primary audit was obtained from the legal context the audit
\* names and from one and the same state of the contract, with rule results that
\* were in audit-rules.json, however many runs, interruptions and checkpoints it
\* went through and whatever was replaced while its contexts were being read.
OneContextPerAudit ==
  primary # NoFile =>
    \E c \in Contract : \A k \in 1..Len(primary.results) :
      \E r \in Rules :
        primary.results[k].context = Context(primary.legal, c, r, primary.results[k].issue)

\* Every result of the secondary review is a review of the very result that the
\* primary audit it names has for the issue.
ReviewsFitTheirPrimary ==
  secondary # NoFile =>
    \A k \in 1..Len(secondary.results) :
      \E j \in 1..Len(secondary.primary.results) :
        /\ secondary.primary.results[j] = secondary.results[k].reviewed
        /\ secondary.results[k].issue = secondary.primary.results[j].issue

\* The report never compares an audit and a review that saw different legal
\* contexts, even when a rebuild in between was taken back by another one.
ReportComparesOneContext ==
  report # NoFile =>
    \A k \in 1..Len(report.secondary.results) :
      LET review == report.secondary.results[k]
      IN review.context.legal = review.reviewed.context.legal

\* A report that loads as fresh compares a finding and a review for each issue
\* of the plan in force, and all its legal evidence was retrieved from the
\* corpus in force, although corpus and plan may change during any stage; the
\* evidence only as long as the corpus in force is not one that came back.
FreshReportCoversThePlan ==
  ReportFresh =>
    /\ IssuesIn(report.primary.results) = PlanSet(plan)
    /\ IssuesIn(report.secondary.results) = PlanSet(plan)
    /\ \A k \in 1..Len(report.primary.results) :
         LET used == report.primary.results[k].context.legal
         IN /\ used.plan = plan
            /\ corpus \notin past => \A j \in 1..Len(used.evidence) : used.evidence[j] = corpus

\* However often it is interrupted, taken up again and overlapped by another run,
\* a complete stage has one result for each issue of its plan, in its order.
InPlanOrder(p, results) ==
  /\ Len(results) = Len(IssuesOf[p])
  /\ \A k \in 1..Len(results) : results[k].issue = IssuesOf[p][k]

CompleteStagesAreWhole ==
  /\ primary # NoFile /\ primary.status = "COMPLETE" =>
       InPlanOrder(primary.legal.plan, primary.results)
  /\ secondary # NoFile /\ secondary.status = "COMPLETE" =>
       IssuesIn(secondary.results) = IssuesIn(secondary.primary.results)

\* "The read API returns a stale conflict instead of silently serving old legal
\* context": a legal context that loads as fresh was retrieved from the corpus in
\* force.  False once an earlier corpus returns in the middle of a build.
OldContextIsStale ==
  LegalFresh => \A j \in 1..Len(legal.evidence) : legal.evidence[j] = corpus

=============================================================================
