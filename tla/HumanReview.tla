----------------------------- MODULE HumanReview -----------------------------
(***************************************************************************)
(* The human decisions about one job: human-review.json, the requests that *)
(* add a revision to it, and the workspace that says whether the review is *)
(* closed.  A request reads the architecture and the report, then the      *)
(* artifacts it takes evidence from, then human-review.json, and writes it *)
(* back as a whole; reports are rebuilt, jobs are migrated and other       *)
(* reviewers write in between.                                             *)
(*                                                                         *)
(* A version stands for the contents of a whole chain of audit artifacts;  *)
(* the fingerprint of a report is its version.  A chain does not return to *)
(* an earlier version.                                                     *)
(***************************************************************************)
EXTENDS Naturals, Sequences, FiniteSets

CONSTANTS
  Reviewer,    \* request threads
  Finding,     \* findings and omissions of LEGACY_RC2 reports
  Decision,    \* the decisions the reviewers take
  Versions,    \* bound: how many versions a chain can have
  IssuesAt,    \* [1..Versions -> SUBSET ...]: the issues of each version's plan
  RequiredAt,  \* those of them that require human review
  MaxRequests  \* bound: recorded decisions

Issue == UNION {IssuesAt[v] : v \in 1..Versions}

ASSUME SomeVersions == Versions \in Nat /\ MaxRequests \in Nat

ASSUME RequiredAreIssues == \A v \in 1..Versions : RequiredAt[v] \subseteq IssuesAt[v]

ASSUME TargetsDiffer == Finding \cap Issue = {}

HumanDecisionState == {"UNREVIEWED", "CONFIRMED", "REJECTED", "NEEDS_MORE_REVIEW"}
Final == {"CONFIRMED", "REJECTED"}

ASSUME DecisionsAreStates == Decision \subseteq HumanDecisionState

\* The artifacts an issue decision takes evidence from, in the order they are read.
Chain == <<"audit-plan", "issue-legal-context", "issue-primary-audit", "issue-secondary-review">>

VARIABLES
  architecture,  \* the authoritative architecture of the job
  chain,         \* version of the issue artifacts; 0: none
  report,        \* version of issue-review-report.json; 0: none
  legacy,        \* version of review-report.json; 0: none
  file,          \* the revisions of human-review.json
  reviewer,      \* what each request thread is doing
  requests
audit == <<architecture, chain, report, legacy>>
vars == <<audit, file, reviewer, requests>>

-----------------------------------------------------------------------------
(* Views of the file.                                                      *)

ArchitectureOf(target) == IF target \in Issue THEN "ISSUE_V1" ELSE "LEGACY_RC2"

\* load_issue_review_report accepts the report.
ReportFresh == report # 0 /\ report = chain

\* _current_review_context: the report decisions bind to.
HasContext ==
  \/ architecture = "ISSUE_V1" /\ ReportFresh
  \/ architecture = "LEGACY_RC2" /\ legacy # 0
Fingerprint == IF architecture = "ISSUE_V1" THEN report ELSE legacy

\* Mutant of Stale: the fingerprint is not compared.
StaleArchitecture(revision) == ArchitectureOf(revision.target) # architecture

Stale(revision) ==
  ArchitectureOf(revision.target) # architecture \/ revision.report # Fingerprint

Of(revisions, target) == {k \in 1..Len(revisions) : revisions[k].target = target}

\* The first of the revisions with the highest number.
IsLatest(k) ==
  \A j \in Of(file, file[k].target) :
    file[j].revision < file[k].revision \/ (file[j].revision = file[k].revision /\ k <= j)

Resolved(issue) ==
  \E k \in Of(file, issue) : IsLatest(k) /\ ~Stale(file[k]) /\ file[k].state \in Final

\* load_issue_workspace_summary says COMPLETE.
WorkspaceComplete == ReportFresh /\ HasContext /\ \A i \in RequiredAt[report] : Resolved(i)

-----------------------------------------------------------------------------
(* record_human_decision.                                                  *)

Idle == [at |-> "idle"]
At(r, where) == reviewer[r].at = where
Becomes(r, state) == reviewer' = [reviewer EXCEPT ![r] = state]

Init ==
  /\ architecture \in {"ISSUE_V1", "LEGACY_RC2"}
  /\ chain = 0 /\ report = 0 /\ legacy = 0
  /\ file = <<>> /\ requests = 0
  /\ reviewer = [r \in Reviewer |-> Idle]

\* A target has to be in the current report, and of its architecture.  A
\* LEGACY_RC2 report holds its evidence; for an issue it is still to be read.
Targets == IF architecture = "ISSUE_V1" THEN IssuesAt[report] ELSE Finding

Request(r, target, state) ==
  /\ At(r, "idle") /\ requests < MaxRequests /\ requests' = requests + 1
  /\ HasContext /\ target \in Targets
  /\ Becomes(r, [at |-> IF target \in Issue THEN "evidence" ELSE "file", read |-> 0,
                 revision |-> [target |-> target, state |-> state, report |-> Fingerprint,
                               revision |-> 0,
                               evidence |-> IF target \in Issue THEN {} ELSE {legacy}]])
  /\ UNCHANGED <<audit, file>>

\* The next artifact is loaded, or is missing, stale or without the issue.
ReadEvidence(r) ==
  /\ At(r, "evidence")
  /\ \/ /\ reviewer[r].revision.target \in IssuesAt[chain]
        /\ Becomes(r, [at |-> IF reviewer[r].read + 1 = Len(Chain) THEN "file" ELSE "evidence",
                       read |-> reviewer[r].read + 1,
                       revision |-> [reviewer[r].revision EXCEPT !.evidence = @ \cup {chain}]])
     \/ Becomes(r, Idle)
  /\ UNCHANGED <<audit, file, requests>>

Highest(numbers) == CHOOSE n \in numbers : \A m \in numbers : m <= n

\* Mutant of NextNumber: the number runs over all targets.
NextNumberOfAll(revisions, target) ==
  Highest({0} \cup {revisions[k].revision : k \in 1..Len(revisions)}) + 1

NextNumber(revisions, target) ==
  Highest({0} \cup {revisions[k].revision : k \in Of(revisions, target)}) + 1

\* Mutant of ReadFile: the fingerprint is taken after the evidence.
ReadFileLate(r) ==
  /\ At(r, "file") /\ HasContext
  /\ LET revision == [reviewer[r].revision EXCEPT
                        !.revision = NextNumber(file, reviewer[r].revision.target),
                        !.report = Fingerprint]
     IN Becomes(r, [at |-> "write", copy |-> Append(file, revision)])
  /\ UNCHANGED <<audit, file, requests>>

\* The file is read, and the revision numbered and appended to the copy ...
ReadFile(r) ==
  /\ At(r, "file")
  /\ LET revision == [reviewer[r].revision EXCEPT
                        !.revision = NextNumber(file, reviewer[r].revision.target)]
     IN Becomes(r, [at |-> "write", copy |-> Append(file, revision)])
  /\ UNCHANGED <<audit, file, requests>>

\* ... which replaces the file.
WriteFile(r) ==
  /\ At(r, "write")
  /\ file' = reviewer[r].copy
  /\ Becomes(r, Idle)
  /\ UNCHANGED <<audit, requests>>

-----------------------------------------------------------------------------
(* The rest of the application.                                            *)

\* A stage of the chain is run again: what depends on it is stale.
Rerun ==
  /\ chain < Versions /\ chain' = chain + 1
  /\ UNCHANGED <<architecture, report, legacy, file, reviewer, requests>>

BuildReport ==
  /\ chain # 0 /\ report' = chain
  /\ UNCHANGED <<architecture, chain, legacy, file, reviewer, requests>>

LegacyReport ==
  /\ legacy < Versions /\ legacy' = legacy + 1
  /\ UNCHANGED <<architecture, chain, report, file, reviewer, requests>>

\* A migration, or a damaged or restored snapshot of one.
ArchitectureChanges ==
  /\ \/ architecture = "LEGACY_RC2" /\ architecture' = "ISSUE_V1"
     \/ architecture # "CONFLICT" /\ architecture' = "CONFLICT"
     \/ architecture = "CONFLICT" /\ architecture' = "ISSUE_V1"
  /\ UNCHANGED <<chain, report, legacy, file, reviewer, requests>>

Exit ==
  /\ \E r \in Reviewer : ~At(r, "idle")
  /\ reviewer' = [r \in Reviewer |-> Idle]
  /\ UNCHANGED <<audit, file, requests>>

Decide(r) ==
  \/ \E target \in Issue \cup Finding, state \in Decision : Request(r, target, state)
  \/ ReadEvidence(r) \/ ReadFile(r) \/ WriteFile(r)

Next ==
  \/ \E r \in Reviewer : Decide(r)
  \/ Rerun \/ BuildReport \/ LegacyReport \/ ArchitectureChanges \/ Exit

Spec == Init /\ [][Next]_vars

-----------------------------------------------------------------------------
(* Properties.                                                             *)

Revision ==
  [target : Issue \cup Finding, state : Decision, report : 1..Versions,
   revision : Nat \ {0}, evidence : SUBSET (1..Versions)]

TypeOK ==
  /\ architecture \in {"ISSUE_V1", "LEGACY_RC2", "CONFLICT"}
  /\ chain \in 0..Versions /\ report \in 0..Versions /\ legacy \in 0..Versions
  /\ \A k \in 1..Len(file) : file[k] \in Revision
  /\ requests \in 0..MaxRequests
  /\ \A r \in Reviewer : reviewer[r].at \in {"idle", "evidence", "file", "write"}

\* "Human Review is append-only": although overlapping requests number their
\* revisions from copies of the file, the revisions of a target in the file are
\* numbered 1, 2, 3, ... in the order they stand in.
NumbersAreConsecutive ==
  \A k \in 1..Len(file) :
    file[k].revision = Cardinality({j \in Of(file, file[k].target) : j <= k})

\* Closing a review: when the workspace calls the job complete, each issue that
\* requires it has a last decision that is final, was made for the report in
\* force, and rests on evidence of that report's artifacts only, whatever was
\* rebuilt while the decision was being recorded.
ClosedOnCurrentEvidence ==
  WorkspaceComplete =>
    \A i \in RequiredAt[chain] :
      \E k \in Of(file, i) :
        /\ \A j \in Of(file, i) : j <= k
        /\ file[k].state \in Final /\ file[k].report = chain /\ file[k].evidence = {chain}

\* Decisions of the other generation, and decisions about an earlier report,
\* never count: a report that replaces another one opens the review again.
NewReportReopens ==
  [][report' # report /\ RequiredAt[report'] # {} => ~WorkspaceComplete']_vars
=============================================================================
