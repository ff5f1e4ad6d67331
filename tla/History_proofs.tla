--------------------------- MODULE History_proofs ---------------------------
(***************************************************************************)
(* The two histories that later work does not rewrite.                     *)
(*                                                                         *)
(* The reviewers' decisions (HumanReview), for any number of reviewers,    *)
(* decisions, issues and rebuilt reports: the revisions of a target are    *)
(* numbered in the order they stand in, a review is closed only by         *)
(* decisions on the evidence of the report in force, and a new report      *)
(* opens it again.                                                         *)
(*                                                                         *)
(* What RC2 left of a job (JobArchitecture), however many migrations       *)
(* overlap with each other, with cancels, runs and process exits: it is    *)
(* preserved before it is replaced, and a completed report is never        *)
(* touched; where writing text leaves line ends alone, the preserved file  *)
(* is exactly what the record names.                                       *)
(***************************************************************************)
EXTENDS HumanReview, JobArchitecture, FiniteSetTheorems, SequenceTheorems, TLAPS

-----------------------------------------------------------------------------
(* The numbers of revisions.                                               *)

Target == Issue \cup Finding

\* A revision, or the draft of one, which has no number yet.
Draft ==
  [target : Target, state : Decision, report : 1..Versions, revision : Nat,
   evidence : SUBSET (1..Versions)]

\* Each revision has its position among those of its target as its number ...
Numbered(revisions) ==
  \A k \in 1..Len(revisions) :
    revisions[k].revision = Cardinality({j \in Of(revisions, revisions[k].target) : j <= k})

\* ... and the last of them is to be found.
HasLast(revisions) ==
  \A t \in Target : Of(revisions, t) # {} =>
    \E k \in Of(revisions, t) : \A j \in Of(revisions, t) : j <= k

\* The revisions of a target are finitely many.
LEMMA OfIsFinite ==
  ASSUME NEW revisions \in Seq(Draft), NEW t
  PROVE  /\ IsFiniteSet(Of(revisions, t)) /\ Cardinality(Of(revisions, t)) \in Nat
         /\ \A k : LET upto == {j \in Of(revisions, t) : j <= k}
                   IN /\ IsFiniteSet(upto) /\ Cardinality(upto) \in Nat
                      /\ Cardinality(upto) <= Cardinality(Of(revisions, t))
  <1>1. IsFiniteSet(1..Len(revisions))
    BY FS_Interval, LenProperties
  <1>2. IsFiniteSet(Of(revisions, t))
    BY <1>1, FS_Subset DEF Of
  <1>3. Cardinality(Of(revisions, t)) \in Nat
    BY <1>2, FS_CardinalityType
  <1>4. ASSUME NEW k
        PROVE  LET upto == {j \in Of(revisions, t) : j <= k}
               IN /\ IsFiniteSet(upto) /\ Cardinality(upto) \in Nat
                  /\ Cardinality(upto) <= Cardinality(Of(revisions, t))
    <2> DEFINE upto == {j \in Of(revisions, t) : j <= k}
    <2>1. upto \in SUBSET Of(revisions, t)
      OBVIOUS
    <2> HIDE DEF upto
    <2>2. IsFiniteSet(upto) /\ Cardinality(upto) <= Cardinality(Of(revisions, t))
      BY <1>2, <2>1, FS_Subset
    <2>3. Cardinality(upto) \in Nat
      BY <2>2, FS_CardinalityType
    <2> QED BY <2>2, <2>3 DEF upto
  <1> QED BY <1>2, <1>3, <1>4

\* The next number of a target is one more than its revisions.
LEMMA NextIsCount ==
  ASSUME NEW revisions \in Seq(Draft), Numbered(revisions), HasLast(revisions), NEW t \in Target
  PROVE  NextNumber(revisions, t) = Cardinality(Of(revisions, t)) + 1
  <1> DEFINE O == Of(revisions, t)
             numbers == {0} \cup {revisions[k].revision : k \in O}
  <1>0. O \subseteq 1..Len(revisions) /\ Len(revisions) \in Nat
    BY LenProperties DEF Of
  <1>1. Cardinality(O) \in Nat
    BY OfIsFinite
  <1>2. \A n \in numbers : n \in Nat /\ n <= Cardinality(O)
    <2>1. ASSUME NEW k \in O
          PROVE  revisions[k].revision \in Nat /\ revisions[k].revision <= Cardinality(O)
      <3>1. revisions[k].target = t /\ k \in 1..Len(revisions)
        BY DEF Of
      <3>2. revisions[k].revision = Cardinality({j \in O : j <= k})
        BY <3>1 DEF Numbered
      <3> QED BY <3>2, OfIsFinite
    <2> QED BY <1>1, <2>1
  <1>3. Cardinality(O) \in numbers
    <2>1. CASE O = {}
      BY <2>1, FS_EmptySet
    <2>2. CASE O # {}
      <3>1. PICK m \in O : \A j \in O : j <= m
        BY <2>2 DEF HasLast
      <3>2. {j \in O : j <= m} = O
        BY <3>1
      <3>3. revisions[m].target = t /\ m \in 1..Len(revisions)
        BY DEF Of
      <3>4. revisions[m].revision = Cardinality(O)
        BY <3>2, <3>3 DEF Numbered
      <3> QED BY <3>4
    <2> QED BY <2>1, <2>2
  <1> HIDE DEF numbers, O
  <1>4. Highest(numbers) = Cardinality(O)
    <2>1. \A m \in numbers : m <= Cardinality(O)
      BY <1>2
    <2>2. \A n \in numbers : (\A m \in numbers : m <= n) => n = Cardinality(O)
      BY <1>1, <1>2, <1>3
    <2>3. Highest(numbers) \in numbers /\ \A m \in numbers : m <= Highest(numbers)
      BY <1>3, <2>1 DEF Highest
    <2> QED BY <2>2, <2>3
  <1> QED BY <1>4 DEF NextNumber, numbers, O

\* A revision appended with the next number continues the order.
LEMMA AppendKeepsOrder ==
  ASSUME NEW revisions \in Seq(Draft), Numbered(revisions), HasLast(revisions),
         NEW x \in Draft, x.revision = NextNumber(revisions, x.target)
  PROVE  LET longer == Append(revisions, x) IN Numbered(longer) /\ HasLast(longer)
  <1> DEFINE n == Len(revisions)
             longer == Append(revisions, x)
  <1>0. /\ n \in Nat /\ Len(longer) = n + 1 /\ longer \in Seq(Draft)
        /\ \A k \in 1..n : longer[k] = revisions[k]
        /\ longer[n + 1] = x
        /\ x.target \in Target
    BY AppendProperties, LenProperties DEF Draft
  <1> HIDE DEF longer
  <1>1. \A t : Of(longer, t) = IF t = x.target THEN Of(revisions, t) \cup {n + 1}
                               ELSE Of(revisions, t)
    BY <1>0 DEF Of
  <1>2. \A t : Of(revisions, t) \subseteq 1..n
    BY DEF Of
  <1>3. ASSUME NEW k \in 1..Len(longer)
        PROVE  longer[k].revision = Cardinality({j \in Of(longer, longer[k].target) : j <= k})
    <2>1. CASE k \in 1..n
      <3> DEFINE t == revisions[k].target
      <3>1. {j \in Of(longer, t) : j <= k} = {j \in Of(revisions, t) : j <= k}
        BY <1>0, <1>1, <1>2, <2>1
      <3> QED BY <1>0, <2>1, <3>1 DEF Numbered
    <2>2. CASE k = n + 1
      <3> DEFINE O == Of(revisions, x.target)
      <3>1. {j \in Of(longer, x.target) : j <= k} = O \cup {n + 1}
        BY <1>0, <1>1, <1>2, <2>2
      <3>2. n + 1 \notin O
        BY <1>0, <1>2
      <3>3. Cardinality(O \cup {n + 1}) = Cardinality(O) + 1
        BY <3>2, OfIsFinite, FS_AddElement
      <3>4. x.revision = Cardinality(O) + 1
        BY <1>0, NextIsCount
      <3> QED BY <1>0, <2>2, <3>1, <3>3, <3>4
    <2> QED BY <1>0, <2>1, <2>2
  <1>4. ASSUME NEW t \in Target, Of(longer, t) # {}
        PROVE  \E k \in Of(longer, t) : \A j \in Of(longer, t) : j <= k
    <2>1. CASE t = x.target
      <3>1. n + 1 \in Of(longer, t) /\ Of(longer, t) \subseteq 1..(n + 1)
        BY <1>0, <1>1, <1>2, <2>1
      <3>2. \A j \in Of(longer, t) : j <= n + 1
        BY <1>0, <3>1
      <3> QED BY <3>1, <3>2
    <2>2. CASE t # x.target
      BY <1>1, <1>4, <2>2 DEF HasLast
    <2> QED BY <2>1, <2>2
  <1> QED BY <1>3, <1>4 DEF Numbered, HasLast, longer

\* With these numbers, the latest revision of a target is the last in the file.
LEMMA LatestIsLast ==
  ASSUME file \in Seq(Draft), Numbered(file), NEW t \in Target,
         NEW k \in Of(file, t), IsLatest(k)
  PROVE  \A j \in Of(file, t) : j <= k
  <1> SUFFICES ASSUME NEW j \in Of(file, t), j > k PROVE FALSE
    BY LenProperties DEF Of
  <1> DEFINE O == Of(file, t)
             before == {l \in O : l <= k}
             until == {l \in O : l <= j}
  <1>1. /\ j \in 1..Len(file) /\ k \in 1..Len(file) /\ Len(file) \in Nat
        /\ file[j].target = t /\ file[k].target = t
    BY LenProperties DEF Of
  <1>2. before \in SUBSET until /\ j \in until /\ j \notin before
    BY <1>1 DEF Of
  <1>3. IsFiniteSet(until) /\ Cardinality(until) \in Nat /\ Cardinality(before) \in Nat
    BY OfIsFinite
  <1>4. file[k].revision = Cardinality(before) /\ file[j].revision = Cardinality(until)
    BY <1>1 DEF Numbered
  <1> HIDE DEF before, until
  <1>5. Cardinality(before) < Cardinality(until)
    BY <1>2, <1>3, FS_Subset
  <1> QED BY <1>1, <1>3, <1>4, <1>5 DEF IsLatest

-----------------------------------------------------------------------------
(* The inductive invariant.                                                *)

ReviewerState ==
  {Idle} \cup [at : {"evidence", "file"}, read : Nat, revision : Draft]
         \cup [at : {"write"}, copy : Seq(Draft)]

Typed ==
  /\ architecture \in {"ISSUE_V1", "LEGACY_RC2", "CONFLICT"}
  /\ chain \in 0..Versions /\ report \in 0..Versions /\ legacy \in 0..Versions
  /\ file \in Seq(Draft)
  /\ requests \in 0..MaxRequests
  /\ reviewer \in [Reviewer -> ReviewerState]

\* Evidence of an issue decision was read no earlier than the report it names,
\* which is not later than the report rp in force; ch is the chain's version.
Timely(x, ch, rp) ==
  x.target \in Issue => x.report <= rp /\ \A e \in x.evidence : x.report <= e /\ e <= ch

Backed(x) == x.target \in Issue => x.evidence # {}

Good(revisions, ch, rp) ==
  /\ Numbered(revisions) /\ HasLast(revisions)
  /\ \A k \in 1..Len(revisions) :
       Timely(revisions[k], ch, rp) /\ Backed(revisions[k]) /\ revisions[k].revision # 0

ReviewerOK(state, ch, rp) ==
  /\ state.at \in {"evidence", "file"} => Timely(state.revision, ch, rp)
  /\ state.at = "evidence" => state.revision.target \in Issue
  /\ state.at = "file" => Backed(state.revision)
  /\ state.at = "write" => Good(state.copy, ch, rp)

IInv ==
  /\ Typed
  /\ report <= chain
  /\ Good(file, chain, report)
  /\ \A r \in Reviewer : ReviewerOK(reviewer[r], chain, report)

LEMMA Initially == Init => IInv
  <1> SUFFICES ASSUME Init PROVE IInv
    OBVIOUS
  <1>1. file = <<>> /\ Len(file) = 0 /\ file \in Seq(Draft)
    BY DEF Init
  <1>2. Good(file, chain, report)
    BY <1>1 DEF Good, Numbered, HasLast, Of
  <1>3. Typed
    BY <1>1, SomeVersions DEF Init, Typed, ReviewerState
  <1> QED BY <1>2, <1>3 DEF Init, IInv, ReviewerOK, Idle

\* Chains and reports only move on: what was timely stays so.
LEMMA StaysGood ==
  ASSUME NEW ch \in Nat, NEW rp \in Nat, NEW ch2 \in Nat, NEW rp2 \in Nat, ch <= ch2, rp <= rp2
  PROVE  /\ \A s \in Seq(Draft) : Good(s, ch, rp) => Good(s, ch2, rp2)
         /\ \A s \in ReviewerState : ReviewerOK(s, ch, rp) => ReviewerOK(s, ch2, rp2)
  <1>1. ASSUME NEW x \in Draft, Timely(x, ch, rp) PROVE Timely(x, ch2, rp2)
    BY <1>1, SomeVersions DEF Timely, Draft
  <1>2. ASSUME NEW s \in Seq(Draft), Good(s, ch, rp) PROVE Good(s, ch2, rp2)
    <2>1. \A k \in 1..Len(s) : s[k] \in Draft
      BY ElementOfSeq
    <2> QED BY <1>1, <1>2, <2>1 DEF Good
  <1>3. ASSUME NEW s \in ReviewerState, ReviewerOK(s, ch, rp) PROVE ReviewerOK(s, ch2, rp2)
    <2>1. /\ s.at \in {"evidence", "file"} => s.revision \in Draft
          /\ s.at = "write" => s.copy \in Seq(Draft)
      BY DEF ReviewerState, Idle
    <2> QED BY <1>1, <1>2, <1>3, <2>1 DEF ReviewerOK
  <1> QED BY <1>1, <1>2, <1>3

\* A step of one reviewer, or of none, in which reports do not go back.
LEMMA Keeps ==
  ASSUME IInv, Typed', report <= report', chain <= chain', report' <= chain',
         UNCHANGED file \/ Good(file, chain, report)',
         \A r \in Reviewer :
           UNCHANGED (reviewer[r]) \/ ReviewerOK(reviewer[r], chain, report)'
  PROVE  IInv'
  <1>1. /\ chain \in Nat /\ report \in Nat /\ chain' \in Nat /\ report' \in Nat
        /\ file \in Seq(Draft) /\ \A r \in Reviewer : reviewer[r] \in ReviewerState
    BY SomeVersions DEF IInv, Typed
  <1>2. Good(file, chain', report')
    BY <1>1, StaysGood DEF IInv
  <1>3. \A r \in Reviewer : ReviewerOK(reviewer[r], chain', report')
    BY <1>1, StaysGood DEF IInv
  <1> QED BY <1>2, <1>3 DEF IInv

LEMMA OneReviewer ==
  ASSUME IInv, UNCHANGED audit, NEW r \in Reviewer, NEW state \in ReviewerState,
         Becomes(r, state), ReviewerOK(state, chain, report),
         file' \in Seq(Draft), UNCHANGED file \/ Good(file', chain, report),
         requests' \in 0..MaxRequests
  PROVE  IInv'
  <1>1. /\ reviewer' \in [Reviewer -> ReviewerState] /\ reviewer'[r] = state
        /\ \A q \in Reviewer \ {r} : reviewer'[q] = reviewer[q]
    BY DEF Becomes, IInv, Typed
  <1>2. UNCHANGED <<chain, report, architecture, legacy>>
    BY DEF audit
  <1>3. Typed'
    BY <1>1, <1>2 DEF IInv, Typed
  <1>4. chain \in Nat /\ report \in Nat /\ report <= chain
    BY SomeVersions DEF IInv, Typed
  <1>5. \A q \in Reviewer :
          UNCHANGED (reviewer[q]) \/ ReviewerOK(reviewer[q], chain, report)'
    BY <1>1, <1>2
  <1>6. UNCHANGED file \/ Good(file, chain, report)'
    BY <1>2
  <1> QED BY <1>2, <1>3, <1>4, <1>5, <1>6, Keeps

-----------------------------------------------------------------------------
(* Every step keeps it.                                                    *)

LEMMA Step == IInv /\ [Next]_vars => IInv'
  <1> SUFFICES ASSUME IInv, [Next]_vars PROVE IInv'
    OBVIOUS
  <1>0. /\ chain \in Nat /\ report \in Nat /\ legacy \in Nat /\ report <= chain
        /\ chain <= Versions /\ legacy <= Versions /\ Versions \in Nat /\ MaxRequests \in Nat
        /\ requests \in 0..MaxRequests
        /\ file \in Seq(Draft) /\ Good(file, chain, report)
        /\ \A r \in Reviewer : reviewer[r] \in ReviewerState /\ ReviewerOK(reviewer[r], chain, report)
    BY SomeVersions DEF IInv, Typed
  <1>a. Idle \in ReviewerState /\ ReviewerOK(Idle, chain, report)
    BY DEF ReviewerState, Idle, ReviewerOK
  <1>1. ASSUME NEW r \in Reviewer, NEW t \in Issue \cup Finding, NEW s \in Decision, Request(r, t, s)
        PROVE  IInv'
    <2> DEFINE x == [target |-> t, state |-> s, report |-> Fingerprint, revision |-> 0,
                     evidence |-> IF t \in Issue THEN {} ELSE {legacy}]
               state == [at |-> IF t \in Issue THEN "evidence" ELSE "file", read |-> 0, revision |-> x]
    <2>1. Fingerprint \in 1..Versions /\ (t \notin Issue => legacy \in 1..Versions)
      <3>1. CASE architecture = "ISSUE_V1"
        <4>1. report \in 1..Versions /\ Fingerprint = report
          BY <1>0, <1>1, <3>1 DEF Request, HasContext, ReportFresh, Fingerprint
        <4>2. IssuesAt[report] \subseteq Issue
          BY <4>1 DEF Issue
        <4> QED BY <1>1, <3>1, <4>1, <4>2 DEF Request, Targets
      <3>2. CASE architecture # "ISSUE_V1"
        BY <1>0, <1>1, <3>2 DEF Request, HasContext, ReportFresh, Fingerprint
      <3> QED BY <3>1, <3>2
    <2>2. x \in Draft /\ x.target = t
      BY <2>1 DEF Draft, Target
    <2>3. t \in Issue => Fingerprint = report
      BY <1>1, TargetsDiffer DEF Request, Targets, Fingerprint
    <2>4. Timely(x, chain, report) /\ (t \notin Issue => Backed(x))
      BY <1>0, <2>3 DEF Timely, Backed
    <2> HIDE DEF x
    <2>5. state \in ReviewerState /\ ReviewerOK(state, chain, report)
      BY <2>2, <2>4 DEF ReviewerState, ReviewerOK
    <2>6. Becomes(r, state) /\ UNCHANGED <<audit, file>> /\ requests' \in 0..MaxRequests
      BY <1>0, <1>1 DEF Request, x
    <2> HIDE DEF state
    <2> QED BY <1>0, <2>5, <2>6, OneReviewer
  <1>2. ASSUME NEW r \in Reviewer, ReadEvidence(r) PROVE IInv'
    <2>1. CASE Becomes(r, Idle)
      BY <1>0, <1>2, <1>a, <2>1, OneReviewer DEF ReadEvidence
    <2>2. CASE /\ reviewer[r].revision.target \in IssuesAt[chain]
               /\ Becomes(r, [at |-> IF reviewer[r].read + 1 = Len(Chain) THEN "file" ELSE "evidence",
                              read |-> reviewer[r].read + 1,
                              revision |-> [reviewer[r].revision EXCEPT !.evidence = @ \cup {chain}]])
      <3> DEFINE x == [reviewer[r].revision EXCEPT !.evidence = @ \cup {chain}]
                 state == [at |-> IF reviewer[r].read + 1 = Len(Chain) THEN "file" ELSE "evidence",
                           read |-> reviewer[r].read + 1, revision |-> x]
      <3>1. /\ reviewer[r] \in [at : {"evidence", "file"}, read : Nat, revision : Draft]
            /\ reviewer[r].at = "evidence"
        BY <1>0, <1>2 DEF ReadEvidence, At, ReviewerState, Idle
      <3>2. Timely(reviewer[r].revision, chain, report)
        BY <1>0, <3>1 DEF ReviewerOK
      <3>3. chain \in 1..Versions
        BY <1>0, <3>1, <3>2 DEF ReviewerOK, Timely, Draft
      <3>4. /\ x \in Draft /\ x.target = reviewer[r].revision.target
            /\ x.report = reviewer[r].revision.report
            /\ x.evidence = reviewer[r].revision.evidence \cup {chain}
        BY <3>1, <3>3 DEF Draft
      <3>5. Becomes(r, state)
        BY <2>2
      <3> HIDE DEF x
      <3>6. x.target \in Issue /\ Timely(x, chain, report) /\ Backed(x)
        BY <1>0, <3>1, <3>2, <3>3, <3>4 DEF Timely, Backed, Draft, ReviewerOK
      <3>7. state \in ReviewerState /\ ReviewerOK(state, chain, report)
        <4> DEFINE n == reviewer[r].read + 1
                   place == IF n = Len(Chain) THEN "file" ELSE "evidence"
        <4>1. n \in Nat /\ place \in {"evidence", "file"}
          BY <3>1
        <4>2. state = [at |-> place, read |-> n, revision |-> x]
          OBVIOUS
        <4> HIDE DEF n, place, state
        <4>3. state \in [at : {"evidence", "file"}, read : Nat, revision : Draft]
          BY <3>4, <4>1, <4>2
        <4>4. state.at \in {"evidence", "file"} /\ state.revision = x
          BY <4>1, <4>2
        <4> QED BY <3>6, <4>3, <4>4 DEF ReviewerState, ReviewerOK
      <3> HIDE DEF state
      <3> QED BY <1>0, <1>2, <3>5, <3>7, OneReviewer DEF ReadEvidence
    <2> QED BY <1>2, <2>1, <2>2 DEF ReadEvidence
  <1>3. ASSUME NEW r \in Reviewer, ReadFile(r) PROVE IInv'
    <2> DEFINE t == reviewer[r].revision.target
               x == [reviewer[r].revision EXCEPT !.revision = NextNumber(file, t)]
               state == [at |-> "write", copy |-> Append(file, x)]
    <2>1. /\ reviewer[r] \in [at : {"evidence", "file"}, read : Nat, revision : Draft]
          /\ reviewer[r].at = "file"
      BY <1>0, <1>3 DEF ReadFile, At, ReviewerState, Idle
    <2>2. Timely(reviewer[r].revision, chain, report) /\ Backed(reviewer[r].revision)
      BY <1>0, <2>1 DEF ReviewerOK
    <2>3. NextNumber(file, t) \in Nat \ {0}
      <3>1. t \in Target /\ Numbered(file) /\ HasLast(file)
        BY <1>0, <2>1 DEF Draft, Good
      <3>2. NextNumber(file, t) = Cardinality(Of(file, t)) + 1
        BY <1>0, <3>1, NextIsCount
      <3> HIDE DEF t
      <3>3. Cardinality(Of(file, t)) \in Nat
        BY <1>0, OfIsFinite
      <3> QED BY <3>2, <3>3
    <2>4. /\ x \in Draft /\ x.target = t /\ x.revision = NextNumber(file, t) /\ x.revision # 0
          /\ Timely(x, chain, report) /\ Backed(x)
      BY <2>1, <2>2, <2>3 DEF Draft, Timely, Backed
    <2>5. Becomes(r, state) /\ UNCHANGED <<audit, file, requests>>
      BY <1>3 DEF ReadFile
    <2> HIDE DEF x, t
    <2>6. Append(file, x) \in Seq(Draft) /\ Good(Append(file, x), chain, report)
      <3>1. /\ Append(file, x) \in Seq(Draft) /\ Len(Append(file, x)) = Len(file) + 1
            /\ \A k \in 1..Len(file) : Append(file, x)[k] = file[k]
            /\ Append(file, x)[Len(file) + 1] = x
            /\ Len(file) \in Nat
        BY <1>0, <2>4, AppendProperties, LenProperties
      <3>2. Numbered(Append(file, x)) /\ HasLast(Append(file, x))
        BY <1>0, <2>4, AppendKeepsOrder DEF Good
      <3>3. \A k \in 1..Len(Append(file, x)) : k \in 1..Len(file) \/ k = Len(file) + 1
        BY <3>1
      <3> HIDE DEF Numbered, HasLast
      <3> QED BY <1>0, <2>4, <3>1, <3>2, <3>3 DEF Good
    <2>7. state \in ReviewerState /\ ReviewerOK(state, chain, report)
      BY <2>6 DEF ReviewerState, ReviewerOK
    <2> HIDE DEF state
    <2> QED BY <1>0, <2>5, <2>7, OneReviewer
  <1>4. ASSUME NEW r \in Reviewer, WriteFile(r) PROVE IInv'
    <2>1. reviewer[r].copy \in Seq(Draft) /\ Good(reviewer[r].copy, chain, report)
      BY <1>0, <1>4 DEF WriteFile, At, ReviewerState, ReviewerOK, Idle
    <2> QED BY <1>0, <1>4, <1>a, <2>1, OneReviewer DEF WriteFile
  <1>5. ASSUME Rerun \/ BuildReport \/ LegacyReport \/ ArchitectureChanges PROVE IInv'
    <2>1. /\ UNCHANGED <<file, reviewer, requests>>
          /\ report <= report' /\ chain <= chain' /\ report' <= chain'
          /\ chain' \in 0..Versions /\ report' \in 0..Versions /\ legacy' \in 0..Versions
      BY <1>0, <1>5 DEF Rerun, BuildReport, LegacyReport, ArchitectureChanges
    <2>2. architecture' \in {"ISSUE_V1", "LEGACY_RC2", "CONFLICT"}
      BY <1>5 DEF Rerun, BuildReport, LegacyReport, ArchitectureChanges, IInv, Typed
    <2>3. Typed'
      BY <2>1, <2>2 DEF IInv, Typed
    <2> QED BY <2>1, <2>3, Keeps
  <1>6. ASSUME Exit PROVE IInv'
    <2>1. UNCHANGED <<architecture, chain, report, legacy, file, requests>>
      BY <1>6 DEF Exit, audit
    <2>2. reviewer' = [r \in Reviewer |-> Idle]
      BY <1>6 DEF Exit
    <2>3. Typed'
      BY <1>a, <2>1, <2>2 DEF IInv, Typed
    <2>4. \A r \in Reviewer : ReviewerOK(reviewer[r], chain, report)'
      BY <1>a, <2>1, <2>2
    <2> QED BY <1>0, <2>1, <2>3, <2>4, Keeps
  <1>7. ASSUME UNCHANGED vars PROVE IInv'
    <2>1. UNCHANGED <<architecture, chain, report, legacy, file, reviewer, requests>>
      BY <1>7 DEF vars, audit
    <2>2. Typed'
      BY <2>1 DEF IInv, Typed
    <2> QED BY <1>0, <2>1, <2>2, Keeps
  <1> QED BY <1>1, <1>2, <1>3, <1>4, <1>5, <1>6, <1>7 DEF Next, Decide

LEMMA Invariance == Spec => []IInv
  <1>1. Init => IInv
    BY Initially
  <1> QED BY <1>1, Step, PTL DEF Spec

-----------------------------------------------------------------------------
(* Theorems.                                                               *)

\* The revisions in the file and the requests under way have the types the code
\* gives them, for any number of reviewers, targets, reports and decisions.
THEOREM TypeCorrect == Spec => []TypeOK
  <1>1. IInv => TypeOK
    <2> SUFFICES ASSUME IInv PROVE TypeOK
      OBVIOUS
    <2>1. \A k \in 1..Len(file) : file[k] \in Draft /\ file[k].revision # 0
      BY ElementOfSeq DEF IInv, Typed, Good
    <2>2. \A k \in 1..Len(file) : file[k] \in Revision
      BY <2>1 DEF Draft, Target, Revision
    <2>3. \A r \in Reviewer : reviewer[r].at \in {"idle", "evidence", "file", "write"}
      BY DEF IInv, Typed, ReviewerState, Idle
    <2> QED BY <2>2, <2>3 DEF IInv, Typed, TypeOK
  <1> QED BY <1>1, Invariance, PTL

\* Overlapping requests that number their revisions from copies of the file, and
\* lose some of them, never leave a gap, a double or a disorder in the file.
THEOREM Consecutive == Spec => []NumbersAreConsecutive
  <1>1. IInv => NumbersAreConsecutive
    BY DEF IInv, Good, Numbered, NumbersAreConsecutive
  <1> QED BY <1>1, Invariance, PTL

\* A complete job rests on final decisions about the report in force, made on
\* evidence of that report's artifacts.
THEOREM Closed == Spec => []ClosedOnCurrentEvidence
  <1>1. IInv => ClosedOnCurrentEvidence
    <2> SUFFICES ASSUME IInv, WorkspaceComplete, NEW i \in RequiredAt[chain]
                 PROVE  \E k \in Of(file, i) :
                          /\ \A j \in Of(file, i) : j <= k
                          /\ file[k].state \in Final /\ file[k].report = chain
                          /\ file[k].evidence = {chain}
      BY DEF ClosedOnCurrentEvidence
    <2>1. report = chain /\ chain \in 1..Versions /\ Resolved(i)
      BY SomeVersions DEF WorkspaceComplete, ReportFresh, IInv, Typed
    <2>2. i \in Issue /\ i \in Target
      BY <2>1, RequiredAreIssues DEF Issue, Target
    <2>3. PICK k \in Of(file, i) : IsLatest(k) /\ ~Stale(file[k]) /\ file[k].state \in Final
      BY <2>1 DEF Resolved
    <2>4. k \in 1..Len(file) /\ file[k].target = i /\ file[k] \in Draft
      BY ElementOfSeq DEF Of, IInv, Typed
    <2>5. \A j \in Of(file, i) : j <= k
      BY <2>2, <2>3, LatestIsLast DEF IInv, Typed, Good
    <2>6. file[k].report = chain
      BY <2>1, <2>2, <2>3, <2>4 DEF Stale, ArchitectureOf, Fingerprint
    <2>7. /\ file[k].evidence # {}
          /\ \A e \in file[k].evidence : file[k].report <= e /\ e <= chain
      BY <2>2, <2>4 DEF IInv, Good, Timely, Backed
    <2>8. file[k].evidence = {chain}
      BY <2>1, <2>4, <2>6, <2>7 DEF Draft
    <2> QED BY <2>3, <2>5, <2>6, <2>8
  <1> QED BY <1>1, Invariance, PTL

\* No decision recorded before a report was built closes the job under it.
THEOREM Reopened == Spec => NewReportReopens
  <1>1. IInv /\ [Next]_vars =>
          [report' # report /\ RequiredAt[report'] # {} => ~WorkspaceComplete']_vars
    <2> SUFFICES ASSUME IInv, IInv', [Next]_vars, report' # report, WorkspaceComplete',
                        NEW i \in RequiredAt[report']
                 PROVE  FALSE
      BY Step
    <2>1. UNCHANGED file /\ report' = chain /\ chain' = chain
      BY DEF Next, Decide, Request, ReadEvidence, ReadFile, WriteFile, Rerun, BuildReport, LegacyReport,
             ArchitectureChanges, Exit, vars, audit
    <2>2. report' \in 1..Versions /\ report < report' /\ Resolved(i)'
      BY <2>1, SomeVersions DEF WorkspaceComplete, ReportFresh, IInv, Typed
    <2>3. i \in Issue
      BY <2>2, RequiredAreIssues DEF Issue
    <2>4. PICK k \in Of(file, i) : ~Stale(file[k])'
      BY <2>1, <2>2 DEF Resolved, Of
    <2>5. k \in 1..Len(file) /\ file[k].target = i /\ file[k] \in Draft
      BY ElementOfSeq DEF Of, IInv, Typed
    <2>6. file[k].report = report'
      BY <2>1, <2>3, <2>4, <2>5 DEF Stale, ArchitectureOf, Fingerprint
    <2>7. file[k].report <= report
      BY <2>3, <2>5 DEF IInv, Good, Timely
    <2> QED BY <2>2, <2>6, <2>7, SomeVersions DEF IInv, Typed
  <1> QED BY <1>1, Invariance, PTL DEF Spec, NewReportReopens

-----------------------------------------------------------------------------
(* A job and its RC2 history: the inductive invariants.                    *)

IsLegacy(text) == text # NoFile /\ text.shape = LegacyRC2
IsComplete(text) == IsLegacy(text) /\ text.status = "COMPLETE"

\* What is replaced or lost sight of has been preserved.
Preserved == damaged \/ snapshot # NoFile

\* A migration or a cancel under way was admitted for an RC2 report that was not
\* complete; if another one has replaced the report since, there is a snapshot.
Admitted(c) ==
  client[c].at \in {"load", "read", "cancel"} \cup Preserving =>
    /\ pipeline # NoFile /\ ~IsComplete(pipeline)
    /\ (IsLegacy(pipeline) /\ ~IsAt(c, "replace")) \/ Preserved

\* A run of the new pipeline works over an RC2 report only after a late cancel
\* of a report that has been preserved.
RunOverLegacy ==
  worker => pipeline # NoFile /\ ~IsComplete(pipeline) /\ (IsLegacy(pipeline) => Preserved)

JobIInv ==
  /\ JobTypeOK
  /\ \A c \in Client : Admitted(c)
  /\ RunOverLegacy

\* A migration holds the RC2 report as it stands, or there is a snapshot already;
\* and it does not get past the snapshot unless that holds what it has read.
Faithful(c) ==
  /\ client[c].at \in Preserving =>
       /\ IsLegacy(pipeline) => client[c].raw = pipeline
       /\ client[c].raw \in LegacyPipeline \/ snapshot # NoFile
  /\ IsAt(c, "write") => client[c].raw \in LegacyPipeline
  /\ IsAt(c, "write") /\ snapshot # NoFile => snapshot = WriteText(client[c].raw)
  /\ client[c].at \in {"replace", "record"} => snapshot = WriteText(client[c].raw)

\* Two migrations that preserve an RC2 report have read the same one.
SameReport(c, d) ==
  /\ client[c].at \in Preserving /\ client[d].at \in Preserving
  /\ client[c].raw \in LegacyPipeline /\ client[d].raw \in LegacyPipeline
  => client[c].raw = client[d].raw

Exact ==
  ~damaged /\ ~slipped =>
    /\ snapshot # NoFile => \E text \in LegacyPipeline : snapshot = WriteText(text)
    /\ record # NoFile => snapshot = WriteText(record)
    /\ \A c \in Client : Faithful(c)
    /\ \A c, d \in Client : SameReport(c, d)

-----------------------------------------------------------------------------
(* What is written.                                                        *)

\* Texts the application composes are typed by what they say.
LEMMA JsonTyped ==
  /\ \A s \in LegacyStatus \cup {"CANCELLED", "CANCEL_REQUESTED"} :
       Json(LegacyRC2, s) = [shape |-> LegacyRC2, status |-> s, cr |-> Returns]
  /\ \A s \in {"FAILED", "RUNNING", "COMPLETE"} :
       Json(IssueV1, s) = [shape |-> IssueV1, status |-> s, cr |-> Returns]
  BY ReturnsAreFew DEF Json, WriteText

\* The two generations of pipeline.json are told apart by their shape, and
\* neither is the absence of the file.
LEMMA Contents ==
  /\ NoFile \notin Content
  /\ \A text \in Content : text.shape = LegacyRC2 <=> text \in LegacyPipeline
  /\ \A text \in LegacyPipeline : text.status # "RUNNING"
  /\ \A text \in IssuePipeline : text.status # "CANCEL_REQUESTED"
  BY NoFileIsNoText, RecoveredStatuses
  DEF Text, Content, LegacyPipeline, IssuePipeline, LegacyRC2, IssueV1, TransientStatus

\* What text mode makes of a text.
LEMMA Written ==
  ASSUME NEW text \in Content
  PROVE  /\ WriteText(text) = [shape |-> text.shape, status |-> text.status, cr |-> Returns + Returns]
         /\ WriteText(text) # NoFile
         /\ Returns = 0 => WriteText(text) = text
  <1>1. WriteText(text) = [shape |-> text.shape, status |-> text.status, cr |-> Returns + Returns]
    BY DEF WriteText, Content, LegacyPipeline, IssuePipeline
  <1>2. WriteText(text) \in Text
    BY <1>1 DEF Text, Content, LegacyPipeline, IssuePipeline
  <1>3. Returns = 0 => WriteText(text) = text
    BY <1>1 DEF Content, LegacyPipeline, IssuePipeline
  <1> QED BY <1>1, <1>2, <1>3, NoFileIsNoText

\* A file that holds what a migration has read is a copy of it only where text
\* mode leaves line ends alone.
LEMMA EqualCopy ==
  ASSUME NEW text \in Content, NEW raw \in Content, WriteText(text) = raw
  PROVE  WriteText(raw) = raw
  <1>1. raw.cr = Returns /\ WriteText(text).cr = Returns + Returns
    BY Written DEF Content, LegacyPipeline, IssuePipeline
  <1>2. Returns = 0
    BY <1>1, ReturnsAreFew
  <1> QED BY <1>2, Written

\* A thread that goes to a place leaves the others where they are.
LEMMA Moves ==
  ASSUME client \in [Client -> ClientState], NEW c \in Client, NEW state \in ClientState,
         Goes(c, state)
  PROVE  /\ client' \in [Client -> ClientState]
         /\ client'[c] = state
         /\ \A d \in Client \ {c} : client'[d] = client[d]
  BY DEF Goes

-----------------------------------------------------------------------------
(* Initial states and steps.                                               *)

LEMMA JobInitially == JobInit => JobIInv /\ Exact
  <1> SUFFICES ASSUME JobInit PROVE JobIInv /\ Exact
    OBVIOUS
  <1>1. client \in [Client -> ClientState] /\ \A c \in Client : client[c].at = "idle"
    BY DEF JobInit, Resting, ClientState
  <1>2. pipeline \in Content \cup {NoFile}
    BY JsonTyped DEF JobInit, Content, LegacyPipeline
  <1>3. JobTypeOK
    BY <1>1, <1>2 DEF JobInit, JobTypeOK
  <1>4. JobIInv
    BY <1>1, <1>3 DEF JobInit, JobIInv, Admitted, RunOverLegacy, Preserving
  <1>5. Exact
    BY <1>1 DEF JobInit, Exact, Faithful, SameReport, Preserving, IsAt
  <1> QED BY <1>4, <1>5

-----------------------------------------------------------------------------
(* What any step does to pipeline.json.                                    *)

\* Nothing makes a completed RC2 report, and nothing writes over one; an RC2
\* report makes way for a new one only after it was preserved.
Careful ==
  /\ pipeline' \in Content \cup {NoFile}
  /\ pipeline # NoFile => pipeline' # NoFile
  /\ IsComplete(pipeline') \/ IsComplete(pipeline) => pipeline' = pipeline
  /\ pipeline' # pipeline => UNCHANGED <<snapshot, damaged>>
  /\ Preserved => Preserved'
  /\ IsLegacy(pipeline) => IsLegacy(pipeline') \/ Preserved
  /\ IsLegacy(pipeline') => IsLegacy(pipeline) \/ Preserved

\* A step that leaves the file alone, and does not take the snapshot away itself.
LEMMA LeavesPipeline ==
  ASSUME JobIInv, UNCHANGED pipeline, Preserved => Preserved'
  PROVE  Careful
  BY DEF JobIInv, JobTypeOK, Careful, Content, IsLegacy, IsComplete

\* A step that writes a new report, over a preserved or missing one.
LEMMA WritesIssue ==
  ASSUME NEW s \in {"FAILED", "RUNNING", "COMPLETE"}, pipeline' = Json(IssueV1, s),
         UNCHANGED <<snapshot, damaged>>, ~IsComplete(pipeline), IsLegacy(pipeline) => Preserved
  PROVE  Careful
  <1>1. pipeline' \in IssuePipeline /\ pipeline'.shape # LegacyRC2
    BY JsonTyped DEF IssuePipeline, IssueV1, LegacyRC2
  <1> QED BY <1>1, Contents DEF Careful, Content, IsLegacy, IsComplete, Preserved

\* A step that writes a cancelled RC2 report.
LEMMA WritesLegacy ==
  ASSUME NEW s \in {"CANCELLED", "CANCEL_REQUESTED"}, pipeline' = Json(LegacyRC2, s),
         UNCHANGED <<snapshot, damaged>>, ~IsComplete(pipeline),
         IsLegacy(pipeline) \/ Preserved
  PROVE  Careful
  <1>1. pipeline' \in LegacyPipeline /\ pipeline'.shape = LegacyRC2 /\ pipeline'.status = s
    BY JsonTyped DEF LegacyPipeline
  <1> QED BY <1>1, Contents DEF Careful, Content, IsLegacy, IsComplete, Preserved

LEMMA CarefulStep == JobIInv /\ [JobNext]_jobVars => Careful
  <1> SUFFICES ASSUME JobIInv, [JobNext]_jobVars PROVE Careful
    OBVIOUS
  <1>1. ASSUME NEW c \in Client, Migrate(c) \/ LoadLegacy(c) \/ ReadLegacy(c) \/ TestSnapshot(c)
                              \/ Record(c) \/ CancelLoad(c)
        PROVE  Careful
    BY <1>1, LeavesPipeline
    DEF Migrate, LoadLegacy, ReadLegacy, TestSnapshot, Record, CancelLoad, files, Preserved
  <1>2. ASSUME NEW c \in Client, WriteSnapshot(c) PROVE Careful
    <2>1. client[c].raw \in Content
      BY <1>2 DEF WriteSnapshot, IsAt, JobIInv, JobTypeOK, ClientState, Keeping, Preserving
    <2> QED BY <1>2, <2>1, Written, LeavesPipeline DEF WriteSnapshot, Preserved
  <1>3. ASSUME NEW c \in Client, Replace(c) PROVE Careful
    BY <1>3, WritesIssue DEF Replace, JobIInv, Admitted, IsAt, Preserving
  <1>4. ASSUME NEW c \in Client, Start(c) PROVE Careful
    <2>1. CASE Startable /\ ~worker
      BY <1>4, <2>1, WritesIssue
        DEF Start, StartRun, Startable, IsLegacy, IsComplete, IssueV1, LegacyRC2
    <2>2. CASE ~(Startable /\ ~worker)
      BY <1>4, <2>2, LeavesPipeline DEF Start, Preserved
    <2> QED BY <2>1, <2>2
  <1>5. ASSUME NEW c \in Client, CancelWrite(c) PROVE Careful
    <2>1. ~IsComplete(pipeline) /\ (IsLegacy(pipeline) \/ Preserved)
      BY <1>5 DEF CancelWrite, JobIInv, Admitted, IsAt
    <2> QED BY <1>5, <2>1, WritesLegacy DEF CancelWrite
  <1>6. ASSUME StartPipeline PROVE Careful
    BY <1>6, WritesIssue
      DEF StartPipeline, StartRun, Startable, IsLegacy, IsComplete, IssueV1, LegacyRC2
  <1>7. ASSUME RunEnds PROVE Careful
    BY <1>7, WritesIssue DEF RunEnds, JobIInv, RunOverLegacy
  <1>8. ASSUME StandAlone PROVE Careful
    BY <1>8, LeavesPipeline DEF StandAlone, Preserved
  <1>9. ASSUME Damage PROVE Careful
    BY <1>9, LeavesPipeline DEF Damage, Preserved
  <1>10. ASSUME Restart PROVE Careful
    <2>1. pipeline \in Content \cup {NoFile}
      BY DEF JobIInv, JobTypeOK, Content
    <2>2. CASE pipeline # NoFile /\ pipeline.status = "RUNNING"
      <3>1. pipeline' = Json(IssueV1, "FAILED")
        BY <1>10, <2>2 DEF Restart
      <3>2. ~IsLegacy(pipeline)
        BY <2>1, <2>2, Contents DEF IsLegacy
      <3> QED BY <1>10, <3>1, <3>2, WritesIssue DEF Restart, IsComplete
    <2>3. CASE pipeline # NoFile /\ pipeline.status = "CANCEL_REQUESTED"
      <3>1. pipeline' = Json(LegacyRC2, "CANCELLED")
        BY <1>10, <2>3 DEF Restart
      <3>2. IsLegacy(pipeline)
        BY <2>1, <2>3, Contents DEF IsLegacy, Content
      <3> QED BY <1>10, <2>3, <3>1, <3>2, WritesLegacy DEF Restart, IsComplete
    <2>4. CASE pipeline = NoFile \/ pipeline.status \notin {"RUNNING", "CANCEL_REQUESTED"}
      BY <1>10, <2>4, LeavesPipeline DEF Restart, Preserved
    <2> QED BY <2>2, <2>3, <2>4
  <1>11. ASSUME UNCHANGED jobVars PROVE Careful
    BY <1>11, LeavesPipeline DEF jobVars, files, Preserved
  <1> QED BY <1>1, <1>2, <1>3, <1>4, <1>5, <1>6, <1>7, <1>8, <1>9, <1>10, <1>11
      DEF JobNext, MigrationStep

-----------------------------------------------------------------------------
(* The invariants are kept.                                                *)

\* A thread that a careful step does not move stays admitted.
LEMMA StaysAdmitted ==
  ASSUME JobIInv, Careful, NEW d \in Client, client'[d] = client[d]
  PROVE  Admitted(d)'
  BY DEF JobIInv, Admitted, Careful, IsAt

\* A run that was there before a careful step still has a report to work on.
LEMMA StaysOverLegacy ==
  ASSUME JobIInv, Careful, worker' = TRUE => worker = TRUE
  PROVE  RunOverLegacy'
  BY DEF JobIInv, JobTypeOK, RunOverLegacy, Careful

\* A step of one thread: what has to be shown of it.
LEMMA OneThread ==
  ASSUME JobIInv, Careful, NEW c \in Client, NEW state \in ClientState, Goes(c, state),
         Admitted(c)', RunOverLegacy', record' \in Content \cup {NoFile},
         snapshot' \in {WriteText(text) : text \in Content} \cup {NoFile, Edited},
         worker' \in BOOLEAN, slipped' \in BOOLEAN,
         UNCHANGED <<legacyFiles, issueFiles, calling, damaged>>
  PROVE  JobIInv'
  <1>1. /\ client' \in [Client -> ClientState]
        /\ \A d \in Client \ {c} : client'[d] = client[d]
    BY Moves DEF JobIInv, JobTypeOK
  <1>2. \A d \in Client : Admitted(d)'
    BY <1>1, StaysAdmitted
  <1>3. JobTypeOK'
    BY <1>1 DEF JobIInv, JobTypeOK, Careful
  <1> QED BY <1>2, <1>3 DEF JobIInv

\* A step of the rest of the application.
LEMMA NoThread ==
  ASSUME JobIInv, Careful, UNCHANGED <<client, record, slipped>>, RunOverLegacy',
         snapshot' \in {WriteText(text) : text \in Content} \cup {NoFile, Edited},
         <<legacyFiles, issueFiles, calling, worker, damaged>>' \in
           BOOLEAN \X BOOLEAN \X BOOLEAN \X BOOLEAN \X BOOLEAN
  PROVE  JobIInv'
  <1>1. \A d \in Client : Admitted(d)'
    BY StaysAdmitted
  <1>2. JobTypeOK'
    BY DEF JobIInv, JobTypeOK, Careful
  <1> QED BY <1>1, <1>2 DEF JobIInv

LEMMA JobStep == JobIInv /\ [JobNext]_jobVars => JobIInv'
  <1> SUFFICES ASSUME JobIInv, [JobNext]_jobVars PROVE JobIInv'
    OBVIOUS
  <1>0. Careful
    BY CarefulStep
  <1>a. \A a \in {"idle", "load", "read", "start", "cancel"} : [at |-> a] \in ClientState
    BY DEF ClientState
  <1>b. Resting \in ClientState
    BY <1>a DEF Resting
  <1>c. /\ record \in Content \cup {NoFile} /\ worker \in BOOLEAN /\ slipped \in BOOLEAN
        /\ snapshot \in {WriteText(text) : text \in Content} \cup {NoFile, Edited}
        /\ client \in [Client -> ClientState]
    BY DEF JobIInv, JobTypeOK
  <1>d. worker' = worker => RunOverLegacy'
    BY <1>0, StaysOverLegacy
  <1>e. ASSUME NEW c \in Client, Goes(c, Resting) PROVE Admitted(c)'
    BY <1>e, <1>b, <1>c, Moves DEF Admitted, Resting, Preserving
  <1>f. ASSUME NEW c \in Client, client[c].at \in Keeping
        PROVE  /\ client[c].raw \in Content
               /\ \A a \in Keeping : /\ [client[c] EXCEPT !.at = a] \in ClientState
                                     /\ [client[c] EXCEPT !.at = a].at = a
    BY <1>c, <1>f DEF ClientState, Keeping, Preserving
  <1>1. ASSUME NEW c \in Client, Migrate(c) PROVE JobIInv'
    <2>1. Goes(c, [at |-> "load"]) /\ [at |-> "load"] \in ClientState
      BY <1>1, <1>a DEF Migrate
    <2>2. client'[c].at = "load"
      BY <2>1, <1>c, Moves
    <2>3. Admitted(c)'
      BY <1>1, <2>2 DEF Migrate, files, MigrationAvailable, Admitted, IsLegacy, IsComplete, IsAt
    <2> QED BY <1>0, <1>1, <1>c, <1>d, <2>1, <2>3, OneThread DEF Migrate, files
  <1>2. ASSUME NEW c \in Client, LoadLegacy(c) PROVE JobIInv'
    <2>1. CASE pipeline.status # "COMPLETE" /\ ~calling
      <3>1. Goes(c, [at |-> "read"]) /\ [at |-> "read"] \in ClientState
        BY <1>2, <2>1, <1>a DEF LoadLegacy
      <3>2. client'[c].at = "read"
        BY <3>1, <1>c, Moves
      <3>3. Admitted(c)'
        BY <1>2, <3>2 DEF LoadLegacy, files, JobIInv, Admitted, IsLegacy, IsComplete, IsAt, Preserved
      <3> QED BY <1>0, <1>2, <1>c, <1>d, <3>1, <3>3, OneThread DEF LoadLegacy, files
    <2>2. CASE ~(pipeline.status # "COMPLETE" /\ ~calling)
      BY <1>0, <1>2, <1>b, <1>c, <1>d, <1>e, <2>2, OneThread DEF LoadLegacy, files, Leaves
    <2> QED BY <2>1, <2>2
  <1>3. ASSUME NEW c \in Client, ReadLegacy(c) PROVE JobIInv'
    <2> DEFINE state == [at |-> "test", raw |-> pipeline]
    <2>1. pipeline # NoFile /\ pipeline \in Content
      BY <1>3 DEF JobIInv, Admitted, ReadLegacy, IsAt, JobTypeOK
    <2>2. Goes(c, state) /\ state \in ClientState /\ state.at = "test"
      BY <1>3, <2>1 DEF ReadLegacy, ClientState, Keeping, Preserving
    <2> HIDE DEF state
    <2>3. client'[c].at = "test"
      BY <2>2, <1>c, Moves
    <2>4. Admitted(c)'
      BY <1>3, <2>3 DEF ReadLegacy, files, JobIInv, Admitted, IsLegacy, IsComplete, IsAt, Preserved
    <2> QED BY <1>0, <1>3, <1>c, <1>d, <2>2, <2>4, OneThread DEF ReadLegacy, files
  <1>4. ASSUME NEW c \in Client, TestSnapshot(c) PROVE JobIInv'
    <2>0. /\ IsAt(c, "test") /\ client[c].raw \in Content /\ client[c].raw # NoFile
          /\ UNCHANGED <<files, calling, worker, damaged, slipped>>
      BY <1>4, <1>f, Contents DEF TestSnapshot, IsAt, Keeping, Preserving
    <2>1. ASSUME NEW a \in {"write", "replace"}, Goes(c, [client[c] EXCEPT !.at = a]),
                 a = "replace" => snapshot # NoFile
          PROVE  JobIInv'
      <3>1. [client[c] EXCEPT !.at = a] \in ClientState /\ [client[c] EXCEPT !.at = a].at = a
        BY <1>f, <2>0 DEF IsAt, Keeping, Preserving
      <3>2. client'[c].at = a
        BY <2>1, <3>1, <1>c, Moves
      <3>3. Admitted(c)'
        BY <2>0, <2>1, <3>2
        DEF files, JobIInv, Admitted, IsLegacy, IsComplete, IsAt, Preserved, Preserving
      <3> QED BY <1>0, <1>c, <1>d, <2>0, <2>1, <3>1, <3>3, OneThread DEF files
    <2>2. CASE Leaves(c)
      BY <1>0, <1>b, <1>c, <1>d, <1>e, <2>0, <2>2, OneThread DEF files, Leaves
    <2> QED BY <1>4, <2>0, <2>1, <2>2 DEF TestSnapshot
  <1>5. ASSUME NEW c \in Client, WriteSnapshot(c) PROVE JobIInv'
    <2> DEFINE state == [client[c] EXCEPT !.at = "replace"]
    <2>1. client[c].raw \in Content /\ state \in ClientState /\ state.at = "replace"
      BY <1>5, <1>f DEF WriteSnapshot, IsAt, Keeping, Preserving
    <2>2. Goes(c, state)
      BY <1>5 DEF WriteSnapshot
    <2> HIDE DEF state
    <2>3. client'[c].at = "replace"
      BY <2>1, <2>2, <1>c, Moves
    <2>4. snapshot' \in {WriteText(text) : text \in Content} /\ snapshot' # NoFile
      BY <1>5, <2>1, Written DEF WriteSnapshot
    <2>5. Admitted(c)'
      BY <1>5, <2>3, <2>4
      DEF WriteSnapshot, JobIInv, Admitted, IsLegacy, IsComplete, IsAt, Preserved, Preserving
    <2> QED BY <1>0, <1>5, <1>c, <1>d, <2>1, <2>2, <2>4, <2>5, OneThread DEF WriteSnapshot
  <1>6. ASSUME NEW c \in Client, Replace(c) PROVE JobIInv'
    <2> DEFINE state == [client[c] EXCEPT !.at = "record"]
    <2>1. state \in ClientState /\ state.at = "record"
      BY <1>6, <1>f DEF Replace, IsAt, Keeping, Preserving
    <2>2. Goes(c, state)
      BY <1>6 DEF Replace
    <2> HIDE DEF state
    <2>3. Admitted(c)'
      BY <2>1, <2>2, <1>c, Moves DEF Admitted, Preserving
    <2> QED BY <1>0, <1>6, <1>c, <1>d, <2>1, <2>2, <2>3, OneThread DEF Replace
  <1>7. ASSUME NEW c \in Client, Record(c) PROVE JobIInv'
    <2>1. client[c].raw \in Content
      BY <1>7, <1>f DEF Record, IsAt, Keeping
    <2>2. Goes(c, [at |-> "start"]) /\ [at |-> "start"] \in ClientState
      BY <1>7, <1>a DEF Record
    <2>3. Admitted(c)'
      BY <2>2, <1>c, Moves DEF Admitted, Preserving
    <2> QED BY <1>0, <1>7, <1>c, <1>d, <2>1, <2>2, <2>3, OneThread DEF Record
  <1>8. ASSUME StartRun PROVE RunOverLegacy'
    BY <1>8, JsonTyped, Contents DEF StartRun, RunOverLegacy, IsComplete, IsLegacy, IssuePipeline,
       Content, IssueV1, LegacyRC2
  <1>9. ASSUME NEW c \in Client, Start(c) PROVE JobIInv'
    <2>1. RunOverLegacy' /\ worker' \in BOOLEAN
      BY <1>9, <1>8, <1>d, <1>c DEF Start, StartRun
    <2> QED BY <1>0, <1>9, <1>b, <1>c, <1>e, <2>1, OneThread DEF Start, Leaves
  <1>10. ASSUME StartPipeline PROVE JobIInv'
    BY <1>0, <1>10, <1>8, NoThread DEF StartPipeline, StartRun, JobIInv, JobTypeOK
  <1>11. ASSUME RunEnds PROVE JobIInv'
    <2>1. RunOverLegacy'
      BY <1>11 DEF RunEnds, RunOverLegacy
    <2>2. issueFiles' \in BOOLEAN
      BY <1>11 DEF RunEnds
    <2> QED BY <1>0, <1>11, <2>1, <2>2, NoThread DEF RunEnds, JobIInv, JobTypeOK
  <1>12. ASSUME StandAlone PROVE JobIInv'
    <2>1. calling' \in BOOLEAN
      BY <1>12 DEF StandAlone, JobIInv, JobTypeOK
    <2> QED BY <1>0, <1>12, <1>d, <2>1, NoThread DEF StandAlone, JobIInv, JobTypeOK
  <1>13. ASSUME Damage PROVE JobIInv'
    BY <1>0, <1>13, <1>d, NoThread DEF Damage, JobIInv, JobTypeOK
  <1>14. ASSUME NEW c \in Client, CancelLoad(c) PROVE JobIInv'
    <2>1. Goes(c, [at |-> "cancel"]) /\ [at |-> "cancel"] \in ClientState
      BY <1>14, <1>a DEF CancelLoad
    <2>2. client'[c].at = "cancel"
      BY <2>1, <1>c, Moves
    <2>3. Admitted(c)'
      BY <1>14, <2>2 DEF CancelLoad, files, Admitted, IsLegacy, IsComplete, IsAt
    <2> QED BY <1>0, <1>14, <1>c, <1>d, <2>1, <2>3, OneThread DEF CancelLoad, files
  <1>15. ASSUME NEW c \in Client, CancelWrite(c) PROVE JobIInv'
    <2>1. slipped' \in BOOLEAN
      BY <1>15, <1>c DEF CancelWrite, Slips
    <2> QED BY <1>0, <1>15, <1>b, <1>c, <1>d, <1>e, <2>1, OneThread DEF CancelWrite, Leaves
  <1>16. ASSUME Restart PROVE JobIInv'
    <2>1. client' \in [Client -> ClientState] /\ \A c \in Client : client'[c].at = "idle"
      BY <1>16, <1>b DEF Restart, Resting
    <2>2. JobTypeOK'
      BY <1>0, <1>16, <2>1 DEF Restart, JobIInv, JobTypeOK, Careful
    <2> QED BY <1>16, <2>1, <2>2 DEF Restart, JobIInv, Admitted, RunOverLegacy, Preserving
  <1>17. ASSUME UNCHANGED jobVars PROVE JobIInv'
    BY <1>0, <1>17, <1>d, NoThread DEF jobVars, files, JobIInv, JobTypeOK
  <1> QED BY <1>1, <1>2, <1>3, <1>4, <1>5, <1>6, <1>7, <1>9, <1>10, <1>11, <1>12, <1>13, <1>14,
             <1>15, <1>16, <1>17
      DEF JobNext, MigrationStep

\* A step that touches neither snapshot nor record, takes no migration further,
\* and writes no RC2 report beside one.
LEMMA Quiet ==
  ASSUME Exact, UNCHANGED <<snapshot, record, damaged>>, slipped => slipped',
         \A d \in Client : client'[d] = client[d] \/ client'[d].at \notin Keeping,
         \/ ~IsLegacy(pipeline') \/ pipeline' = pipeline \/ slipped'
         \/ \A d \in Client : client'[d].at \notin Preserving
  PROVE  Exact'
  <1> SUFFICES ASSUME ~damaged', ~slipped' PROVE Exact'
    BY DEF Exact
  <1>0. ~damaged /\ ~slipped
    OBVIOUS
  <1>1. \A d \in Client : Faithful(d)'
    <2> SUFFICES ASSUME NEW d \in Client PROVE Faithful(d)'
      OBVIOUS
    <2>1. CASE client'[d].at \notin Keeping
      BY <2>1 DEF Faithful, IsAt, Keeping, Preserving
    <2>2. CASE client'[d] = client[d] /\ client'[d].at \notin Preserving
      BY <1>0, <2>2 DEF Exact, Faithful, IsAt, Preserving
    <2>3. CASE client'[d] = client[d] /\ client'[d].at \in Preserving
      BY <1>0, <2>3 DEF Exact, Faithful, IsAt, IsLegacy
    <2> QED BY <2>1, <2>2, <2>3
  <1>2. \A c, d \in Client : SameReport(c, d)'
    <2> SUFFICES ASSUME NEW c \in Client, NEW d \in Client PROVE SameReport(c, d)'
      OBVIOUS
    <2>1. client'[c].at \in Preserving => client'[c] = client[c]
      BY DEF Keeping
    <2>2. client'[d].at \in Preserving => client'[d] = client[d]
      BY DEF Keeping
    <2> QED BY <1>0, <2>1, <2>2 DEF Exact, SameReport
  <1> QED BY <1>0, <1>1, <1>2 DEF Exact

\* A migration goes on with what it has read, to a place where it may be.
LEMMA GoesOn ==
  ASSUME JobIInv, Exact, UNCHANGED <<snapshot, record, damaged, slipped>>, ~damaged, ~slipped,
         NEW c \in Client, client[c].at \in Preserving, NEW a \in Keeping,
         Goes(c, [client[c] EXCEPT !.at = a]),
         IsLegacy(pipeline') => pipeline' = pipeline,
         a = "write" => snapshot = NoFile,
         a \in {"replace", "record"} => snapshot = WriteText(client[c].raw)
  PROVE  Exact'
  <1>0. client \in [Client -> ClientState] /\ client[c] \in [at : Keeping, raw : Content]
    BY DEF JobIInv, JobTypeOK, ClientState, Keeping, Preserving
  <1>1. /\ client'[c].at = a /\ client'[c].raw = client[c].raw
        /\ \A d \in Client \ {c} : client'[d] = client[d]
    BY <1>0 DEF Goes
  <1>2. Faithful(c)'
    <2>1. Faithful(c)
      BY DEF Exact
    <2> QED BY <1>1, <2>1 DEF Faithful, IsAt, IsLegacy
  <1>3. \A d \in Client \ {c} : Faithful(d)'
    <2> SUFFICES ASSUME NEW d \in Client \ {c} PROVE Faithful(d)'
      OBVIOUS
    <2>1. Faithful(d) /\ client'[d] = client[d]
      BY <1>1 DEF Exact
    <2> QED BY <2>1 DEF Faithful, IsAt, IsLegacy
  <1>4. \A d, e \in Client : SameReport(d, e)'
    <2>1. \A d \in Client : /\ client'[d].at \in Preserving => client[d].at \in Preserving
                            /\ client'[d].raw = client[d].raw
      BY <1>1
    <2> QED BY <2>1 DEF Exact, SameReport
  <1> QED BY <1>2, <1>3, <1>4 DEF Exact

LEMMA SnapshotKept == JobIInv /\ Exact /\ [JobNext]_jobVars => Exact'
  <1> SUFFICES ASSUME JobIInv, Exact, [JobNext]_jobVars, ~damaged', ~slipped'
               PROVE  Exact'
    BY DEF Exact
  <1>a. client \in [Client -> ClientState] /\ pipeline \in Content \cup {NoFile}
    BY DEF JobIInv, JobTypeOK
  <1>b. ASSUME NEW c \in Client, client[c].at \in Keeping PROVE client[c].raw \in Content
    BY <1>a, <1>b DEF ClientState, Keeping, Preserving
  <1>c. ASSUME NEW c \in Client, NEW state, Goes(c, state)
        PROVE  client'[c] = state /\ \A d \in Client \ {c} : client'[d] = client[d]
    BY <1>a, <1>c DEF Goes
  <1>1. ASSUME NEW c \in Client, ReadLegacy(c) PROVE Exact'
    <2>0. ~damaged /\ ~slipped /\ UNCHANGED <<files, damaged, slipped>>
      BY <1>1 DEF ReadLegacy
    <2>1. /\ client'[c].at = "test" /\ client'[c].raw = pipeline
          /\ \A d \in Client \ {c} : client'[d] = client[d]
      <3>1. client'[c] = [at |-> "test", raw |-> pipeline]
        BY <1>1, <1>c DEF ReadLegacy
      <3> QED BY <1>1, <1>c, <3>1 DEF ReadLegacy
    <2>2. pipeline # NoFile /\ (pipeline \in LegacyPipeline \/ snapshot # NoFile)
      BY <1>1, <1>a, <2>0, Contents
      DEF ReadLegacy, JobIInv, Admitted, IsAt, IsLegacy, Preserved
    <2>3. Faithful(c)'
      BY <2>0, <2>1, <2>2 DEF Faithful, IsAt, files
    <2>4. \A d \in Client \ {c} : Faithful(d)'
      <3> SUFFICES ASSUME NEW d \in Client \ {c} PROVE Faithful(d)'
        OBVIOUS
      <3>1. Faithful(d) /\ client'[d] = client[d]
        BY <2>0, <2>1 DEF Exact
      <3> QED BY <2>0, <3>1 DEF Faithful, IsAt, IsLegacy, files
    <2>5. ASSUME NEW d \in Client \ {c}, client[d].at \in Preserving, pipeline \in LegacyPipeline
          PROVE  client[d].raw = pipeline
      <3>1. IsLegacy(pipeline)
        BY <2>2, <2>5 DEF IsLegacy, LegacyPipeline
      <3> QED BY <2>0, <2>5, <3>1 DEF Exact, Faithful
    <2>6. \A d, e \in Client : SameReport(d, e)'
      <3> SUFFICES ASSUME NEW d \in Client, NEW e \in Client PROVE SameReport(d, e)'
        OBVIOUS
      <3>1. CASE d = c /\ e = c
        BY <3>1 DEF SameReport
      <3>2. CASE d = c /\ e # c
        BY <2>1, <2>5, <3>2 DEF SameReport
      <3>3. CASE d # c /\ e = c
        BY <2>1, <2>5, <3>3 DEF SameReport
      <3>4. CASE d # c /\ e # c
        BY <2>0, <2>1, <3>4 DEF Exact, SameReport
      <3> QED BY <3>1, <3>2, <3>3, <3>4
    <2> QED BY <2>0, <2>3, <2>4, <2>6 DEF Exact, files
  <1>2. ASSUME NEW c \in Client, TestSnapshot(c) PROVE Exact'
    <2>0. /\ ~damaged /\ ~slipped /\ UNCHANGED <<files, damaged, slipped>>
          /\ client[c].at \in Preserving /\ client[c].raw \in Content
      BY <1>2, <1>b DEF TestSnapshot, IsAt, Keeping, Preserving
    <2>1. CASE snapshot = NoFile /\ Goes(c, [client[c] EXCEPT !.at = "write"])
      BY <2>0, <2>1, GoesOn DEF files, Keeping, Preserving
    <2>2. CASE snapshot = client[c].raw /\ Goes(c, [client[c] EXCEPT !.at = "replace"])
      <3>1. PICK text \in LegacyPipeline : snapshot = WriteText(text)
        BY <2>0, <2>2, Contents DEF Exact
      <3>2. snapshot = WriteText(client[c].raw)
        BY <2>0, <2>2, <3>1, EqualCopy DEF Content
      <3> QED BY <2>0, <2>2, <3>2, GoesOn DEF files, Keeping, Preserving
    <2>3. CASE Leaves(c)
      BY <1>c, <2>0, <2>3, Quiet DEF Leaves, Resting, files, Keeping, Preserving
    <2> QED BY <1>2, <2>1, <2>2, <2>3 DEF TestSnapshot
  <1>3. ASSUME NEW c \in Client, WriteSnapshot(c) PROVE Exact'
    <2>0. /\ ~damaged /\ ~slipped /\ UNCHANGED <<pipeline, record, damaged, slipped>>
          /\ client[c].at = "write" /\ client[c].raw \in Content
          /\ snapshot' = WriteText(client[c].raw) /\ snapshot' # NoFile
      BY <1>3, <1>b, Written DEF WriteSnapshot, IsAt, Keeping, Preserving
    <2>1. client[c].raw \in LegacyPipeline /\ (snapshot # NoFile => snapshot' = snapshot)
      BY <2>0 DEF Exact, Faithful, IsAt
    <2>2. /\ client'[c].at = "replace" /\ client'[c].raw = client[c].raw
          /\ \A d \in Client \ {c} : client'[d] = client[d]
      <3>1. client[c] \in [at : Keeping, raw : Content]
        BY <1>a, <2>0 DEF ClientState
      <3>2. client'[c] = [client[c] EXCEPT !.at = "replace"]
        BY <1>3, <1>c DEF WriteSnapshot
      <3> QED BY <1>3, <1>c, <3>1, <3>2 DEF WriteSnapshot
    <2>3. record' # NoFile => snapshot' = WriteText(record')
      <3>1. record # NoFile => snapshot = WriteText(record) /\ WriteText(record) # NoFile
        BY <2>0, Written DEF Exact, JobIInv, JobTypeOK
      <3> QED BY <2>0, <2>1, <3>1
    <2>4. \A d \in Client : Faithful(d)'
      <3> SUFFICES ASSUME NEW d \in Client PROVE Faithful(d)'
        OBVIOUS
      <3>1. Faithful(d) /\ client'[d].raw = client[d].raw /\ (client'[d].at \in Preserving => client[d].at \in Preserving)
        BY <2>0, <2>2 DEF Exact, Preserving
      <3>2. client'[d].at \in Preserving => (IsLegacy(pipeline') => client'[d].raw = pipeline')
        BY <2>0, <3>1 DEF Faithful, IsLegacy
      <3>3. client'[d].at = "write" =>
              client'[d].raw \in LegacyPipeline /\ snapshot' = WriteText(client'[d].raw)
        <4> SUFFICES ASSUME client'[d].at = "write"
                     PROVE  client'[d].raw \in LegacyPipeline /\ client[d].raw = client[c].raw
          BY <2>0, <3>1
        <4>1. client[d].at = "write" /\ client[d].raw \in LegacyPipeline
          BY <2>2, <3>1 DEF Faithful, IsAt
        <4>2. SameReport(d, c)
          BY <2>0 DEF Exact
        <4> QED BY <2>0, <2>1, <3>1, <4>1, <4>2 DEF SameReport, Preserving
      <3>4. client'[d].at \in {"replace", "record"} => snapshot' = WriteText(client'[d].raw)
        <4>1. CASE d = c
          BY <2>0, <2>2, <4>1
        <4>2. CASE d # c
          <5> SUFFICES ASSUME client[d].at \in {"replace", "record"}
                       PROVE  snapshot' = WriteText(client[d].raw)
            BY <2>2, <4>2
          <5>1. snapshot = WriteText(client[d].raw) /\ client[d].raw \in Content
            BY <1>b, <3>1 DEF Faithful, Keeping, Preserving
          <5>2. snapshot # NoFile
            BY <5>1, Written
          <5> QED BY <2>1, <5>1, <5>2
        <4> QED BY <4>1, <4>2
      <3> QED BY <2>0, <3>2, <3>3, <3>4 DEF Faithful, IsAt
    <2>5. \A d, e \in Client : SameReport(d, e)'
      <3>1. \A d \in Client : /\ client'[d].at \in Preserving => client[d].at \in Preserving
                              /\ client'[d].raw = client[d].raw
        BY <2>0, <2>2 DEF Preserving
      <3> QED BY <2>0, <3>1 DEF Exact, SameReport
    <2> QED BY <2>0, <2>1, <2>3, <2>4, <2>5 DEF Exact
  <1>4. ASSUME NEW c \in Client, Replace(c) PROVE Exact'
    <2>0. /\ ~damaged /\ ~slipped /\ UNCHANGED <<snapshot, record, damaged, slipped>>
          /\ client[c].at = "replace" /\ Goes(c, [client[c] EXCEPT !.at = "record"])
      BY <1>4 DEF Replace, IsAt
    <2>1. snapshot = WriteText(client[c].raw)
      BY <2>0 DEF Exact, Faithful
    <2>2. ~IsLegacy(pipeline')
      BY <1>4, JsonTyped DEF Replace, IsLegacy, IssueV1, LegacyRC2
    <2>3. "record" \in Keeping /\ client[c].at \in Preserving
      BY <2>0 DEF Keeping, Preserving
    <2> QED BY <2>0, <2>1, <2>2, <2>3, GoesOn
  <1>5. ASSUME NEW c \in Client, Record(c) PROVE Exact'
    <2>0. /\ ~damaged /\ ~slipped /\ UNCHANGED <<pipeline, snapshot, damaged, slipped>>
          /\ client[c].at = "record" /\ record' = client[c].raw
      BY <1>5 DEF Record, IsAt
    <2>1. snapshot = WriteText(record')
      BY <2>0 DEF Exact, Faithful
    <2>2. /\ client'[c] = [at |-> "start"]
          /\ \A d \in Client \ {c} : client'[d] = client[d]
      BY <1>5, <1>c DEF Record
    <2>3. \A d \in Client : Faithful(d)'
      <3> SUFFICES ASSUME NEW d \in Client PROVE Faithful(d)'
        OBVIOUS
      <3>1. CASE d = c
        BY <2>2, <3>1 DEF Faithful, IsAt, Preserving
      <3>2. CASE d # c
        <4>1. Faithful(d) /\ client'[d] = client[d]
          BY <2>0, <2>2, <3>2 DEF Exact
        <4> QED BY <2>0, <4>1 DEF Faithful, IsAt, IsLegacy
      <3> QED BY <3>1, <3>2
    <2>4. \A d, e \in Client : SameReport(d, e)'
      <3>1. \A d \in Client : client'[d].at \in Preserving => client'[d] = client[d]
        BY <2>2 DEF Preserving
      <3> QED BY <2>0, <3>1 DEF Exact, SameReport
    <2> QED BY <2>0, <2>1, <2>3, <2>4 DEF Exact
  <1>6. ASSUME NEW c \in Client, Migrate(c) \/ LoadLegacy(c) \/ CancelLoad(c) PROVE Exact'
    <2>1. UNCHANGED <<snapshot, record, damaged, slipped, pipeline>>
      BY <1>6 DEF Migrate, LoadLegacy, CancelLoad, files
    <2>2. PICK a \in {"idle", "load", "read", "cancel"} : Goes(c, [at |-> a])
      BY <1>6 DEF Migrate, LoadLegacy, CancelLoad, Leaves, Resting
    <2>3. \A d \in Client : client'[d] = client[d] \/ client'[d].at \notin Keeping
      BY <1>c, <2>2 DEF Keeping, Preserving
    <2> QED BY <2>1, <2>3, Quiet
  <1>7. ASSUME NEW c \in Client, CancelWrite(c) PROVE Exact'
    <2>1. UNCHANGED <<snapshot, record, damaged>> /\ (slipped => slipped')
      BY <1>7 DEF CancelWrite, Slips
    <2>2. \A d \in Client : client[d].at \notin Preserving
      BY <1>7 DEF CancelWrite, Slips
    <2>3. client'[c] = Resting /\ \A d \in Client \ {c} : client'[d] = client[d]
      BY <1>7, <1>c DEF CancelWrite, Leaves
    <2>4. \A d \in Client : /\ client'[d] = client[d] \/ client'[d].at \notin Keeping
                            /\ client'[d].at \notin Preserving
      BY <2>2, <2>3 DEF Resting, Keeping, Preserving
    <2> QED BY <2>1, <2>4, Quiet
  <1>8. ASSUME StartRun PROVE ~IsLegacy(pipeline')
    BY <1>8, JsonTyped DEF StartRun, IsLegacy, IssueV1, LegacyRC2
  <1>9. ASSUME NEW c \in Client, Start(c) PROVE Exact'
    <2>1. UNCHANGED <<snapshot, record, damaged, slipped>> /\ (~IsLegacy(pipeline') \/ pipeline' = pipeline)
      BY <1>9, <1>8 DEF Start
    <2>2. client'[c] = Resting /\ \A d \in Client \ {c} : client'[d] = client[d]
      BY <1>9, <1>c DEF Start, Leaves
    <2>3. \A d \in Client : client'[d] = client[d] \/ client'[d].at \notin Keeping
      BY <2>2 DEF Resting, Keeping, Preserving
    <2> QED BY <2>1, <2>3, Quiet
  <1>10. ASSUME StartPipeline PROVE Exact'
    <2>1. UNCHANGED <<snapshot, record, damaged, slipped, client>> /\ ~IsLegacy(pipeline')
      BY <1>10, <1>8 DEF StartPipeline
    <2> QED BY <2>1, Quiet
  <1>11. ASSUME RunEnds PROVE Exact'
    <2>1. UNCHANGED <<snapshot, record, damaged, slipped, client>> /\ ~IsLegacy(pipeline')
      BY <1>11, JsonTyped DEF RunEnds, IsLegacy, IssueV1, LegacyRC2
    <2> QED BY <2>1, Quiet
  <1>12. ASSUME StandAlone \/ UNCHANGED jobVars PROVE Exact'
    <2>1. UNCHANGED <<snapshot, record, damaged, slipped, client, pipeline>>
      BY <1>12 DEF StandAlone, jobVars, files
    <2> QED BY <2>1, Quiet
  <1>13. ASSUME Damage PROVE Exact'
    BY <1>13 DEF Damage
  <1>14. ASSUME Restart PROVE Exact'
    <2>1. /\ UNCHANGED <<snapshot, record, damaged, slipped>>
          /\ \A d \in Client : client'[d].at \notin Keeping /\ client'[d].at \notin Preserving
      BY <1>14 DEF Restart, Resting, Keeping, Preserving
    <2> QED BY <2>1, Quiet
  <1> QED BY <1>1, <1>2, <1>3, <1>4, <1>5, <1>6, <1>7, <1>9, <1>10, <1>11, <1>12, <1>13, <1>14
      DEF JobNext, MigrationStep

-----------------------------------------------------------------------------
(* Theorems.                                                               *)

LEMMA JobInvariance == JobSpec => [](JobIInv /\ Exact)
  <1>1. JobInit => JobIInv /\ Exact
    BY JobInitially
  <1>2. JobIInv /\ Exact /\ [JobNext]_jobVars => (JobIInv /\ Exact)'
    BY JobStep, SnapshotKept
  <1> QED BY <1>1, <1>2, PTL DEF JobSpec

\* The three files and the threads of a migration, with the bytes they hold,
\* keep the types the code gives them, for any number of request threads, any
\* statuses of old jobs and either kind of line ends.
THEOREM JobTypeCorrect == JobSpec => []JobTypeOK
  <1>1. JobIInv => JobTypeOK
    BY DEF JobIInv
  <1> QED BY <1>1, JobInvariance, PTL

\* The RC2 report that a migration replaces is the one the snapshot holds, however
\* many migrations overlap and wherever they are cut off, unless a cancel was
\* written while one was preserving it or somebody else touched the snapshot.
THEOREM Kept == JobSpec => HistoryIsKept
  <1>1. JobIInv /\ Exact /\ [JobNext]_jobVars =>
          [\A c \in Client :
             ReplacesLegacy(c) /\ ~damaged /\ ~slipped => snapshot = WriteText(pipeline)]_jobVars
    <2> SUFFICES ASSUME JobIInv, Exact, NEW c \in Client, ReplacesLegacy(c), ~damaged, ~slipped
                 PROVE  snapshot = WriteText(pipeline)
      OBVIOUS
    <2>1. client[c].at = "replace" /\ pipeline.shape = LegacyRC2
      BY DEF ReplacesLegacy, Replaces, IsAt
    <2>2. IsLegacy(pipeline)
      BY <2>1 DEF JobIInv, Admitted, Preserving, IsLegacy
    <2> QED BY <2>1, <2>2 DEF Exact, Faithful, Preserving
  <1> QED BY <1>1, JobInvariance, PTL DEF JobSpec, HistoryIsKept

\* No request, whatever it had loaded before, writes over a completed RC2 report.
THEOREM Untouched == JobSpec => CompletedLegacyStays
  <1>1. JobIInv /\ [JobNext]_jobVars =>
          [pipeline # NoFile /\ pipeline.shape = LegacyRC2 => pipeline.status # "COMPLETE"]_pipeline
    BY CarefulStep DEF Careful, IsComplete, IsLegacy
  <1> QED BY <1>1, JobInvariance, PTL DEF JobSpec, CompletedLegacyStays

\* Under the same conditions the snapshot is the text of the RC2 report whose
\* digest is recorded, whichever migration wrote which.
THEOREM ExactSnapshot == JobSpec => []SnapshotIsExact
  <1>1. Exact => SnapshotIsExact
    BY DEF Exact, SnapshotIsExact
  <1> QED BY <1>1, JobInvariance, PTL

=============================================================================
