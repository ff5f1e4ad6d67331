-------------------------- MODULE Contract_proofs --------------------------
(***************************************************************************)
(* Proofs about what is made of a contract's text: the contract Intake     *)
(* derives from the document and the plan AuditPlanner makes of it.        *)
(*                                                                         *)
(* First the plan.  Whatever the contracts, rules, drafts and limits are,  *)
(* it holds every finding, points at nothing a pass was not shown, and     *)
(* comes from passes that cut the contract into pieces.  Then the files of *)
(* a job.  Whatever its document, OCR results and threads are, the files   *)
(* on disk hold one document, its text, and the verdicts on that text.     *)
(* What the loops compute is proved by induction over the positions done,  *)
(* with lemmas on concatenations that both parts use.                      *)
(***************************************************************************)
EXTENDS Intake, AuditPlanner, FiniteSetTheorems, SequenceTheorems, WellFoundedInduction, TLAPS

-----------------------------------------------------------------------------
(* Induction and recursion.                                                *)

\* A set that holds 0 and the successor of each of its numbers holds all of them:
\* there is no smallest interval that ends at a missing one.
LEMMA ByInduction ==
  ASSUME NEW S, 0 \in S, \A n \in Nat : n \in S => n + 1 \in S
  PROVE  \A n \in Nat : n \in S
<1> DEFINE bad == {n \in Nat : n \notin S}
           T == {0..n : n \in bad}
<1> SUFFICES ASSUME bad # {} PROVE FALSE
  OBVIOUS
<1>1. \A n \in Nat : IsFiniteSet(0..n)
  BY FS_Interval
<1>2. T \subseteq FiniteSubsetsOf(Nat) /\ T # {}
  BY <1>1 DEF FiniteSubsetsOf
<1>3. IsWellFoundedOn(StrictSubsetOrdering(Nat), FiniteSubsetsOf(Nat))
  BY FS_StrictSubsetOrderingWellFounded
<1>4. PICK x \in T : \A y \in T : <<y, x>> \notin StrictSubsetOrdering(Nat)
  <2> HIDE DEF T
  <2> QED
    BY <1>2, <1>3, WFMin
<1>5. PICK n \in bad : x = 0..n
  OBVIOUS
<1>6. n \in Nat /\ n # 0 /\ n - 1 \in Nat /\ n - 1 \in bad
  OBVIOUS
<1>7. 0..(n - 1) \in T /\ 0..(n - 1) \subseteq 0..n /\ 0..(n - 1) # 0..n
  <2>1. n \in 0..n /\ n \notin 0..(n - 1)
    BY <1>6
  <2> QED
    BY <1>6, <2>1
<1>8. <<0..(n - 1), 0..n>> \in StrictSubsetOrdering(Nat)
  BY <1>6, <1>7 DEF StrictSubsetOrdering
<1> QED
  BY <1>4, <1>5, <1>7, <1>8

\* The same for the first N numbers.
LEMMA ByInductionUpTo ==
  ASSUME NEW N \in Nat, NEW S, 0 \in S, \A n \in 1..N : n - 1 \in S => n \in S
  PROVE  \A n \in 0..N : n \in S
<1> DEFINE T == {n \in Nat : n <= N => n \in S}
<1>1. 0 \in T
  OBVIOUS
<1>2. ASSUME NEW n \in Nat, n \in T PROVE n + 1 \in T
  <2> SUFFICES ASSUME n + 1 <= N PROVE n + 1 \in S
    OBVIOUS
  <2>1. n + 1 \in 1..N /\ (n + 1) - 1 = n /\ n \in S
    BY <1>2
  <2> QED
    BY <2>1
<1>3. \A n \in Nat : n \in T
  <2> HIDE DEF T
  <2> QED
    BY <1>1, <1>2, ByInduction
<1> QED
  BY <1>3

\* A recursion over N positions defines a function.
Recurses(g, base, N, step) == g[0] = base /\ \A n \in 1..N : g[n] = step[n][g[n - 1]]

LEMMA RecursionExists ==
  ASSUME NEW V, NEW base \in V, NEW N \in Nat, NEW step \in [1..N -> [V -> V]]
  PROVE  \E g \in [0..N -> V] : Recurses(g, base, N, step)
<1> DEFINE Upto(n, g) == g[0] = base /\ \A k \in 1..n : g[k] = step[k][g[k - 1]]
           S == {n \in Nat : \E g \in [0..n -> V] : Upto(n, g)}
<1>1. 0 \in S
  <2>1. [k \in 0..0 |-> base] \in [0..0 -> V] /\ Upto(0, [k \in 0..0 |-> base])
    OBVIOUS
  <2> QED
    BY <2>1
<1>2. ASSUME NEW m \in 1..N, m - 1 \in S PROVE m \in S
  <2>1. PICK n \in Nat : n = m - 1 /\ m = n + 1
    BY <1>2
  <2>2. PICK g \in [0..n -> V] : Upto(n, g)
    BY <1>2, <2>1
  <2> DEFINE h == [k \in 0..m |-> IF k = m THEN step[m][g[n]] ELSE g[k]]
  <2>3. step[m][g[n]] \in V
    OBVIOUS
  <2>4. h \in [0..m -> V]
    BY <2>1, <2>3
  <2>5. h[0] = base /\ h[m] = step[m][h[m - 1]]
    BY <2>1, <2>2
  <2>6. ASSUME NEW k \in 1..m PROVE h[k] = step[k][h[k - 1]]
    <3>1. CASE k = m
      BY <2>5, <3>1
    <3>2. CASE k # m
      <4>1. k \in 1..n /\ k \in 0..m /\ k - 1 \in 0..m /\ k - 1 # m
        BY <2>1, <3>2
      <4>2. h[k] = g[k] /\ h[k - 1] = g[k - 1]
        BY <4>1, <3>2
      <4> QED
        BY <2>2, <4>1, <4>2
    <3> QED
      BY <3>1, <3>2
  <2> HIDE DEF h
  <2>7. Upto(m, h)
    BY <2>5, <2>6
  <2> QED
    BY <2>4, <2>7
<1>3. N \in S
  <2> HIDE DEF S
  <2>1. \A n \in 1..N : n - 1 \in S => n \in S
    BY <1>2
  <2>2. \A n \in 0..N : n \in S
    BY <1>1, <2>1, ByInductionUpTo
  <2> QED
    BY <2>2
<1> QED
  BY <1>3 DEF Recurses

-----------------------------------------------------------------------------
(* Sequences.                                                              *)

ElementsOf(s) == {s[k] : k \in 1..Len(s)}

LEMMA Concatenated ==
  ASSUME NEW S, NEW s \in Seq(S), NEW t \in Seq(S)
  PROVE  s \o t \in Seq(S) /\ ElementsOf(s \o t) = ElementsOf(s) \cup ElementsOf(t)
<1>1. /\ s \o t \in Seq(S) /\ Len(s \o t) = Len(s) + Len(t) /\ Len(s) \in Nat /\ Len(t) \in Nat
      /\ \A i \in 1..Len(s) + Len(t) : (s \o t)[i] = IF i <= Len(s) THEN s[i] ELSE t[i - Len(s)]
  BY ConcatProperties, LenProperties
<1>2. ASSUME NEW k \in 1..Len(t) PROVE t[k] \in ElementsOf(s \o t)
  <2>1. k + Len(s) \in 1..Len(s) + Len(t) /\ ~(k + Len(s) <= Len(s)) /\ (k + Len(s)) - Len(s) = k
    BY <1>1
  <2>2. (s \o t)[k + Len(s)] = t[k]
    BY <1>1, <2>1
  <2> QED
    BY <1>1, <2>1, <2>2 DEF ElementsOf
<1>3. ASSUME NEW k \in 1..Len(s) PROVE s[k] \in ElementsOf(s \o t)
  BY <1>1 DEF ElementsOf
<1>4. ASSUME NEW k \in 1..Len(s \o t) PROVE (s \o t)[k] \in ElementsOf(s) \cup ElementsOf(t)
  <2>1. CASE k <= Len(s)
    BY <1>1, <2>1 DEF ElementsOf
  <2>2. CASE ~(k <= Len(s))
    <3>1. k - Len(s) \in 1..Len(t) /\ (s \o t)[k] = t[k - Len(s)]
      BY <1>1, <2>2
    <3> QED
      BY <3>1 DEF ElementsOf
  <2> QED
    BY <2>1, <2>2
<1> QED
  BY <1>1, <1>2, <1>3, <1>4 DEF ElementsOf

\* What Selected returns is a sequence of the same kind.
LEMMA SelectedType ==
  ASSUME NEW S, NEW seq \in Seq(S), NEW positions
  PROVE  Selected(seq, positions) \in Seq(S)
<1>1. Len(seq) \in Nat /\ \A n \in 1..Len(seq) : seq[n] \in S
  BY LenProperties, ElementOfSeq
<1> DEFINE N == Len(seq)
           V == Seq(S)
           Step(s, n) == IF n \in positions THEN Append(s, seq[n]) ELSE s
           step == [n \in 1..N |-> [s \in V |-> Step(s, n)]]
<1>2. step \in [1..N -> [V -> V]]
  BY <1>1, AppendProperties
<1>3. << >> \in V
  OBVIOUS
<1>4. PICK g \in [0..N -> V] : g[0] = << >> /\ \A n \in 1..N : g[n] = step[n][g[n - 1]]
  <2> DEFINE base == << >>
  <2>1. N \in Nat /\ base \in V /\ step \in [1..N -> [V -> V]]
    BY <1>1, <1>2, <1>3
  <2>2. \E g \in [0..N -> V] : Recurses(g, base, N, step)
    <3> HIDE DEF step, N, V, base
    <3> QED
      BY <2>1, RecursionExists
  <2> QED
    BY <2>2 DEF Recurses
<1>5. g = [n \in 0..N |-> IF n = 0 THEN << >>
                          ELSE IF n \in positions THEN Append(g[n - 1], seq[n]) ELSE g[n - 1]]
  <2>1. ASSUME NEW n \in 1..N PROVE g[n] = Step(g[n - 1], n)
    <3>1. n - 1 \in 0..N
      BY <1>1
    <3>2. g[n - 1] \in V
      <4> HIDE DEF N, V
      <4> QED
        BY <3>1
    <3>3. step[n][g[n - 1]] = Step(g[n - 1], n)
      BY <3>2
    <3> QED
      BY <1>4, <3>3
  <2>2. ASSUME NEW n \in 0..N, n # 0 PROVE n \in 1..N
    BY <1>1, <2>2
  <2> QED
    BY <1>4, <2>1, <2>2
<1> DEFINE Rec(f) == f = [n \in 0..N |-> IF n = 0 THEN << >>
                          ELSE IF n \in positions THEN Append(f[n - 1], seq[n]) ELSE f[n - 1]]
           f == CHOOSE f : Rec(f)
<1>6. Rec(f)
  BY <1>5
<1>7. f[N] \in Seq(S)
  <2> HIDE DEF f
  <2> DEFINE T == {n \in 0..N : f[n] \in Seq(S)}
  <2>1. 0 \in T
    BY <1>1, <1>3, <1>6
  <2>2. ASSUME NEW n \in 1..N, n - 1 \in T PROVE n \in T
    <3>1. n \in 0..N /\ n # 0 /\ f[n - 1] \in Seq(S) /\ seq[n] \in S
      BY <1>1, <2>2
    <3>2. f[n] = Step(f[n - 1], n)
      BY <1>6, <3>1
    <3>3. Append(f[n - 1], seq[n]) \in Seq(S)
      BY <3>1, AppendProperties
    <3> QED
      BY <3>1, <3>2, <3>3
  <2> HIDE DEF T, f
  <2>3. \A n \in 0..N : n \in T
    BY <1>1, <2>1, <2>2, ByInductionUpTo
  <2> QED
    BY <1>1, <2>3 DEF T
<1> QED
  BY <1>7 DEF Selected

-----------------------------------------------------------------------------
(* The merge of a plan.                                                    *)

Hint == [topic : Topic, objects : SUBSET Object]
PartType == [topic : Topic, priority : Priority, source : Source, objects : SUBSET Object, rules : SUBSET RuleResult]
Plans == UNION {[T -> Planned] : T \in SUBSET Topic}
Named(P, t) == {p \in P : p.topic = t}

LEMMA PriorityMaxIsMax ==
  \A a, b \in Priority :
    /\ PriorityMax(a, b) \in Priority /\ Rank[a] \in Nat
    /\ Rank[a] <= Rank[PriorityMax(a, b)] /\ Rank[b] <= Rank[PriorityMax(a, b)]
  BY DEF Priority, PriorityMax, Rank

LEMMA MergedType ==
  ASSUME NEW i \in Planned, NEW j \in Planned
  PROVE  /\ Merged(i, j) \in Planned
         /\ Merged(i, j).priority = PriorityMax(i.priority, j.priority)
         /\ Merged(i, j).sources = i.sources \cup j.sources
         /\ Merged(i, j).objects = i.objects \cup j.objects
  BY PriorityMaxIsMax DEF Merged, Planned

LEMMA PlansAreFunctions ==
  ASSUME NEW issues
  PROVE  issues \in Plans <=>
           /\ issues = [t \in DOMAIN issues |-> issues[t]]
           /\ DOMAIN issues \subseteq Topic /\ \A t \in DOMAIN issues : issues[t] \in Planned
  BY DEF Plans

\* What the issues of a plan are when the parts P have been merged into it.
Gathers(issues, P) ==
  /\ issues \in Plans /\ DOMAIN issues = {p.topic : p \in P}
  /\ \A t \in DOMAIN issues : /\ issues[t].objects = UNION {p.objects : p \in Named(P, t)}
                              /\ issues[t].sources = {p.source : p \in Named(P, t)}
  /\ \A p \in P : Rank[p.priority] <= Rank[issues[p.topic].priority]

LEMMA WithGathers ==
  ASSUME NEW issues, NEW P, P \subseteq PartType, Gathers(issues, P), NEW q \in PartType
  PROVE  Gathers(With(issues, q.topic, NewIssue(q)), P \cup {q})
<1> DEFINE next == With(issues, q.topic, NewIssue(q))
<1>1. /\ NewIssue(q) \in Planned /\ NewIssue(q).objects = q.objects
      /\ NewIssue(q).sources = {q.source} /\ NewIssue(q).priority = q.priority
  BY DEF NewIssue, Planned, PartType
<1>2. /\ issues \in Plans /\ DOMAIN issues \subseteq Topic /\ q.topic \in Topic
      /\ \A t \in DOMAIN issues : issues[t] \in Planned
  BY PlansAreFunctions DEF Gathers, PartType
<1>3. /\ DOMAIN next = DOMAIN issues \cup {q.topic}
      /\ \A t \in DOMAIN issues : t # q.topic => next[t] = issues[t]
      /\ q.topic \notin DOMAIN issues => next[q.topic] = NewIssue(q)
      /\ q.topic \in DOMAIN issues => next[q.topic] = Merged(issues[q.topic], NewIssue(q))
      /\ next = [t \in DOMAIN next |-> next[t]]
  BY DEF With
<1> HIDE DEF next
<1>4. next[q.topic] \in Planned
  BY <1>1, <1>2, <1>3, MergedType
<1>5. next \in Plans
  BY <1>2, <1>3, <1>4, PlansAreFunctions
<1>6. DOMAIN next = {p.topic : p \in P \cup {q}}
  BY <1>3 DEF Gathers
<1>7. ASSUME NEW t \in DOMAIN next
      PROVE  /\ next[t].objects = UNION {p.objects : p \in Named(P \cup {q}, t)}
             /\ next[t].sources = {p.source : p \in Named(P \cup {q}, t)}
  <2>1. CASE t # q.topic
    <3>1. t \in DOMAIN issues /\ next[t] = issues[t] /\ Named(P \cup {q}, t) = Named(P, t)
      BY <1>3, <2>1 DEF Named
    <3> QED
      BY <3>1 DEF Gathers
  <2>2. CASE t = q.topic
    <3>1. Named(P \cup {q}, t) = Named(P, t) \cup {q}
      BY <2>2 DEF Named
    <3>2. CASE t \in DOMAIN issues
      <4>1. next[t].objects = issues[t].objects \cup q.objects /\ next[t].sources = issues[t].sources \cup {q.source}
        BY <1>1, <1>2, <1>3, <2>2, <3>2, MergedType
      <4>2. issues[t].objects = UNION {p.objects : p \in Named(P, t)} /\ issues[t].sources = {p.source : p \in Named(P, t)}
        BY <3>2 DEF Gathers
      <4> HIDE DEF Named
      <4>3. UNION {p.objects : p \in Named(P, t) \cup {q}} = (UNION {p.objects : p \in Named(P, t)}) \cup q.objects
        OBVIOUS
      <4>4. {p.source : p \in Named(P, t) \cup {q}} = {p.source : p \in Named(P, t)} \cup {q.source}
        OBVIOUS
      <4>5. /\ UNION {p.objects : p \in Named(P \cup {q}, t)} = (UNION {p.objects : p \in Named(P, t)}) \cup q.objects
            /\ {p.source : p \in Named(P \cup {q}, t)} = {p.source : p \in Named(P, t)} \cup {q.source}
        BY <3>1, <4>3, <4>4
      <4> QED
        BY <4>1, <4>2, <4>5
    <3>3. CASE t \notin DOMAIN issues
      <4>1. Named(P, t) = {}
        BY <3>3 DEF Gathers, Named
      <4> QED
        BY <1>1, <1>3, <2>2, <3>1, <3>3, <4>1
    <3> QED
      BY <3>2, <3>3
  <2> QED
    BY <2>1, <2>2
<1>8. ASSUME NEW p \in P \cup {q} PROVE Rank[p.priority] <= Rank[next[p.topic].priority]
  <2>1. p.priority \in Priority /\ q.priority \in Priority
    BY DEF PartType
  <2>2. CASE p.topic # q.topic
    <3>1. p \in P /\ p.topic \in DOMAIN issues
      BY <2>2 DEF Gathers
    <3> QED
      BY <1>3, <2>2, <3>1 DEF Gathers
  <2>3. CASE p.topic = q.topic /\ q.topic \in DOMAIN issues
    <3>1. issues[q.topic].priority \in Priority
      BY <1>2, <2>3 DEF Planned
    <3>2. next[q.topic].priority = PriorityMax(issues[q.topic].priority, q.priority)
      BY <1>1, <1>2, <1>3, <2>3, MergedType
    <3>3. p \in P => Rank[p.priority] <= Rank[issues[q.topic].priority]
      BY <2>3 DEF Gathers
    <3>4. /\ Rank[issues[q.topic].priority] <= Rank[next[q.topic].priority]
          /\ Rank[q.priority] <= Rank[next[q.topic].priority]
          /\ {Rank[issues[q.topic].priority], Rank[next[q.topic].priority], Rank[p.priority]} \subseteq Nat
      BY <2>1, <3>1, <3>2, PriorityMaxIsMax
    <3> QED
      BY <2>3, <3>3, <3>4
  <2>4. CASE p.topic = q.topic /\ q.topic \notin DOMAIN issues
    <3>1. p = q
      BY <2>4 DEF Gathers
    <3> QED
      BY <1>1, <1>3, <2>1, <2>4, <3>1, PriorityMaxIsMax
  <2> QED
    BY <2>2, <2>3, <2>4
<1> QED
  BY <1>5, <1>6, <1>7, <1>8 DEF Gathers, next

\* MergeUpTo takes the parts one by one.
LEMMA MergeUpToIs ==
  ASSUME NEW parts \in Seq(PartType)
  PROVE  MergeUpTo(parts) =
           [n \in 0..Len(parts) |->
              IF n = 0 THEN NoIssues ELSE With(MergeUpTo(parts)[n - 1], parts[n].topic, NewIssue(parts[n]))]
<1> DEFINE N == Len(parts)
           Step(s, n) == With(s, parts[n].topic, NewIssue(parts[n]))
           step == [n \in 1..N |-> [s \in Plans |-> Step(s, n)]]
<1>1. N \in Nat /\ \A n \in 1..N : parts[n] \in PartType
  BY LenProperties, ElementOfSeq
<1>2. ASSUME NEW n \in 1..N, NEW s \in Plans PROVE Step(s, n) \in Plans
  <2>1. /\ NewIssue(parts[n]) \in Planned /\ parts[n].topic \in Topic
    BY <1>1 DEF NewIssue, Planned, PartType
  <2>2. DOMAIN s \subseteq Topic /\ \A t \in DOMAIN s : s[t] \in Planned
    BY PlansAreFunctions
  <2>3. \A t \in DOMAIN s : Merged(s[t], NewIssue(parts[n])) \in Planned
    BY <2>1, <2>2, MergedType
  <2> QED
    BY <2>1, <2>2, <2>3, PlansAreFunctions DEF With
<1>3. NoIssues \in Plans
  BY PlansAreFunctions DEF NoIssues
<1>4. PICK g \in [0..N -> Plans] : g[0] = NoIssues /\ \A n \in 1..N : g[n] = step[n][g[n - 1]]
  <2> DEFINE V == Plans
             base == NoIssues
  <2>1. N \in Nat /\ base \in V /\ step \in [1..N -> [V -> V]]
    BY <1>1, <1>2, <1>3
  <2>2. \E g \in [0..N -> V] : Recurses(g, base, N, step)
    <3> HIDE DEF step, N, V, base
    <3> QED
      BY <2>1, RecursionExists
  <2> QED
    BY <2>2 DEF Recurses
<1>5. g = [n \in 0..N |-> IF n = 0 THEN NoIssues ELSE Step(g[n - 1], n)]
  <2>1. ASSUME NEW n \in 1..N PROVE g[n] = Step(g[n - 1], n)
    <3>1. n - 1 \in 0..N
      BY <1>1
    <3>2. g[n - 1] \in Plans
      BY <3>1
    <3>3. step[n][g[n - 1]] = Step(g[n - 1], n)
      BY <3>2
    <3> QED
      BY <1>4, <3>3
  <2>2. ASSUME NEW n \in 0..N, n # 0 PROVE n \in 1..N
    BY <1>1, <2>2
  <2> QED
    BY <1>4, <2>1, <2>2
<1> QED
  BY <1>5 DEF MergeUpTo

\* A merge gathers its parts.
LEMMA MergeGathers ==
  ASSUME NEW parts \in Seq(PartType)
  PROVE  Gathers(MergeUpTo(parts)[Len(parts)], ElementsOf(parts))
<1> DEFINE N == Len(parts)
           First(n) == {parts[k] : k \in 1..n}
           S == {n \in 0..N : Gathers(MergeUpTo(parts)[n], First(n))}
<1>1. N \in Nat /\ \A n \in 1..N : parts[n] \in PartType
  BY LenProperties, ElementOfSeq
<1>2. 0 \in S
  <2>1. MergeUpTo(parts)[0] = NoIssues /\ First(0) = {}
    BY <1>1, MergeUpToIs
  <2>2. NoIssues \in Plans /\ DOMAIN NoIssues = {}
    BY PlansAreFunctions DEF NoIssues
  <2> QED
    BY <1>1, <2>1, <2>2 DEF Gathers
<1>3. ASSUME NEW n \in 1..N, n - 1 \in S PROVE n \in S
  <2>1. n \in 0..N /\ n # 0 /\ First(n) = First(n - 1) \cup {parts[n]}
    BY <1>1
  <2>2. MergeUpTo(parts)[n] = With(MergeUpTo(parts)[n - 1], parts[n].topic, NewIssue(parts[n]))
    BY <2>1, MergeUpToIs
  <2>3. First(n - 1) \subseteq PartType
    BY <1>1
  <2>4. Gathers(MergeUpTo(parts)[n - 1], First(n - 1)) /\ parts[n] \in PartType
    BY <1>1, <1>3
  <2>5. Gathers(With(MergeUpTo(parts)[n - 1], parts[n].topic, NewIssue(parts[n])), First(n - 1) \cup {parts[n]})
    <3> HIDE DEF First, N
    <3> QED
      BY <2>3, <2>4, WithGathers
  <2>6. Gathers(MergeUpTo(parts)[n], First(n))
    <3> HIDE DEF First, N
    <3> QED
      BY <2>1, <2>2, <2>5
  <2> QED
    BY <2>1, <2>6
<1>4. N \in S
  <2> HIDE DEF S
  <2>1. \A n \in 1..N : n - 1 \in S => n \in S
    BY <1>3
  <2>2. \A n \in 0..N : n \in S
    BY <1>1, <1>2, <2>1, ByInductionUpTo
  <2> QED
    BY <1>1, <2>2
<1> QED
  BY <1>4 DEF ElementsOf
-----------------------------------------------------------------------------
(* What a pass brings into the plan.                                       *)

Typed(input) == input.rules \in Seq(Finding) /\ input.topics \in Seq(Hint)

LEMMA HintPartsTyped ==
  ASSUME NEW input, Typed(input)
  PROVE  RuleParts(input.rules) \in Seq(PartType) /\ TopicParts(input.topics) \in Seq(PartType)
<1>1. RuleParts(input.rules) \in Seq(PartType)
  <2>1. Len(input.rules) \in Nat /\ \A k \in 1..Len(input.rules) : input.rules[k] \in Finding
    BY LenProperties, ElementOfSeq DEF Typed
  <2>2. \A k \in 1..Len(input.rules) :
           Part(input.rules[k].topic, IF input.rules[k].state = "FAIL" THEN "HIGH_ATTENTION" ELSE "IMPORTANT",
                "DETERMINISTIC_HINT", input.rules[k].objects, {input.rules[k].id}) \in PartType
    BY <2>1 DEF Finding, Part, PartType, Priority, Source
  <2> HIDE DEF PartType
  <2>3. RuleParts(input.rules) \in [1..Len(input.rules) -> PartType]
    BY <2>1, <2>2 DEF RuleParts
  <2> QED
    BY <2>1, <2>3, SeqDef
<1>2. TopicParts(input.topics) \in Seq(PartType)
  <2>1. Len(input.topics) \in Nat /\ \A k \in 1..Len(input.topics) : input.topics[k] \in Hint
    BY LenProperties, ElementOfSeq DEF Typed
  <2>2. \A k \in 1..Len(input.topics) :
           Part(input.topics[k].topic, "IMPORTANT", "DETERMINISTIC_HINT", input.topics[k].objects, {}) \in PartType
    BY <2>1 DEF Hint, Part, PartType, Priority, Source
  <2> QED
    BY <2>1, <2>2, IsASeq DEF TopicParts
<1> QED
  BY <1>1, <1>2

LEMMA PartsTyped ==
  ASSUME NEW input, Typed(input), NEW d \in Draft
  PROVE  /\ Parts(input, d) \in Seq(PartType)
         /\ ElementsOf(Parts(input, d)) = ElementsOf(BaselineParts(d.type)) \cup ElementsOf(RuleParts(input.rules))
                                            \cup ElementsOf(TopicParts(input.topics)) \cup ElementsOf(DynamicParts(d))
<1>1. BaselineParts(d.type) \in Seq(PartType)
  <2>1. BaselineFor(d.type) \in Seq(Topic)
    BY ChecklistIsTopics, ConcatProperties DEF BaselineFor
  <2>2. Len(BaselineFor(d.type)) \in Nat /\ \A k \in 1..Len(BaselineFor(d.type)) : BaselineFor(d.type)[k] \in Topic
    BY <2>1, LenProperties, ElementOfSeq
  <2> HIDE DEF BaselineFor
  <2> QED
    BY <2>2, IsASeq DEF BaselineParts, Part, PartType, Priority, Source
<1>2. RuleParts(input.rules) \in Seq(PartType) /\ TopicParts(input.topics) \in Seq(PartType)
  BY HintPartsTyped
<1>4. DynamicParts(d) \in Seq(PartType)
  <2>1. Len(d.issues) \in Nat /\ \A k \in 1..Len(d.issues) : d.issues[k] \in Issue
    BY InputsAreTyped, LenProperties, ElementOfSeq
  <2>2. \A k \in 1..Len(d.issues) :
           Part(d.issues[k].topic, d.issues[k].priority, "LLM_DYNAMIC", d.issues[k].objects, {}) \in PartType
    BY <2>1 DEF Issue, Part, PartType, Priority, Source
  <2> QED
    BY <2>1, <2>2, IsASeq DEF DynamicParts
<1> DEFINE b == BaselineParts(d.type)
           h == RuleParts(input.rules)
           t == TopicParts(input.topics)
           own == DynamicParts(d)
           S == PartType
<1>5. Parts(input, d) = ((b \o h) \o t) \o own
  BY DEF Parts
<1>6. b \in Seq(S) /\ h \in Seq(S) /\ t \in Seq(S) /\ own \in Seq(S)
  BY <1>1, <1>2, <1>4
<1>7. /\ ((b \o h) \o t) \o own \in Seq(S)
      /\ ElementsOf(((b \o h) \o t) \o own) = ElementsOf(b) \cup ElementsOf(h) \cup ElementsOf(t) \cup ElementsOf(own)
  <2> HIDE DEF b, h, t, own, S
  <2> DEFINE bh == b \o h
             bht == bh \o t
  <2>1. bh \in Seq(S) /\ ElementsOf(bh) = ElementsOf(b) \cup ElementsOf(h)
    BY <1>6, Concatenated
  <2>2. bht \in Seq(S) /\ ElementsOf(bht) = ElementsOf(bh) \cup ElementsOf(t)
    <3> HIDE DEF bh
    <3> QED
      BY <1>6, <2>1, Concatenated
  <2>3. bht \o own \in Seq(S) /\ ElementsOf(bht \o own) = ElementsOf(bht) \cup ElementsOf(own)
    <3> HIDE DEF bht
    <3> QED
      BY <1>6, <2>2, Concatenated
  <2> HIDE DEF bh, bht
  <2>4. ElementsOf(bht \o own) = ElementsOf(b) \cup ElementsOf(h) \cup ElementsOf(t) \cup ElementsOf(own)
    BY <2>1, <2>2, <2>3
  <2> QED
    BY <2>3, <2>4 DEF bh, bht
<1> QED
  BY <1>5, <1>7

\* The topic, the objects and the priority are in the plan.
Covers(issues, topic, objects, priority) ==
  topic \in DOMAIN issues /\ objects \subseteq issues[topic].objects /\ Rank[priority] <= Rank[issues[topic].priority]

LEMMA MergePlanCovers ==
  ASSUME NEW input, Typed(input), NEW d \in Draft
  PROVE  LET M == MergePlan(input, d)
             all == ElementsOf(Parts(input, d))
         IN /\ M \in Plans
            /\ \A p \in all : Covers(M, p.topic, p.objects, p.priority)
            /\ \A p \in ElementsOf(DynamicParts(d)) : "LLM_DYNAMIC" \in M[p.topic].sources
            /\ \A t \in DOMAIN M : \A o \in M[t].objects : \E p \in all : p.topic = t /\ o \in p.objects
<1> DEFINE M == MergePlan(input, d)
           all == ElementsOf(Parts(input, d))
<1>1. Gathers(M, all)
  BY PartsTyped, MergeGathers DEF MergePlan
<1>2. ElementsOf(DynamicParts(d)) \subseteq all /\ \A p \in ElementsOf(DynamicParts(d)) : p.source = "LLM_DYNAMIC"
  <2>1. Len(d.issues) \in Nat /\ DynamicParts(d) = [k \in 1..Len(d.issues) |-> DynamicParts(d)[k]]
        /\ \A k \in 1..Len(d.issues) : DynamicParts(d)[k].source = "LLM_DYNAMIC"
    BY InputsAreTyped, LenProperties DEF DynamicParts, Part
  <2>2. Len(DynamicParts(d)) = Len(d.issues)
    BY <2>1
  <2>3. \A p \in ElementsOf(DynamicParts(d)) : p.source = "LLM_DYNAMIC"
    BY <2>1, <2>2 DEF ElementsOf
  <2> HIDE DEF DynamicParts
  <2> QED
    BY <2>3, PartsTyped
<1> HIDE DEF M, all
<1>3. \A p \in all : p.topic \in DOMAIN M /\ p \in Named(all, p.topic)
  BY <1>1 DEF Gathers, Named
<1>4. \A p \in all : p.objects \subseteq M[p.topic].objects /\ p.source \in M[p.topic].sources
  BY <1>1, <1>3 DEF Gathers
<1>5. \A t \in DOMAIN M : \A o \in M[t].objects : \E p \in Named(all, t) : o \in p.objects
  BY <1>1 DEF Gathers
<1>6. \A t \in DOMAIN M : \A o \in M[t].objects : \E p \in all : p.topic = t /\ o \in p.objects
  BY <1>5 DEF Named
<1> QED
  BY <1>1, <1>2, <1>3, <1>4, <1>6 DEF Covers, Gathers, M, all

\* The plan points at the object under the topic.
Holds(issues, t, o) == t \in DOMAIN issues /\ o \in issues[t].objects

LEMMA JoinedKeeps ==
  ASSUME NEW known \in Plans, NEW local \in Plans
  PROVE  LET next == Joined(known, local)
         IN /\ next \in Plans
            /\ \A t, objects : \A priority \in Priority :
                 Covers(known, t, objects, priority) => Covers(next, t, objects, priority)
            /\ \A t, objects : \A priority \in Priority :
                 Covers(local, t, objects, priority) /\ "LLM_DYNAMIC" \in local[t].sources =>
                   Covers(next, t, objects, priority)
            /\ \A t, o : Holds(next, t, o) => Holds(known, t, o) \/ Holds(local, t, o)
<1> DEFINE next == Joined(known, local)
           dynamic == {t \in DOMAIN local : "LLM_DYNAMIC" \in local[t].sources}
<1>1. /\ DOMAIN known \subseteq Topic /\ \A t \in DOMAIN known : known[t] \in Planned
      /\ DOMAIN local \subseteq Topic /\ \A t \in DOMAIN local : local[t] \in Planned
  BY PlansAreFunctions
<1>2. /\ DOMAIN next = DOMAIN known \cup dynamic
      /\ \A t \in DOMAIN next : t \notin dynamic => next[t] = known[t]
      /\ \A t \in dynamic : t \in DOMAIN known => next[t] = Merged(known[t], local[t])
      /\ \A t \in dynamic : t \notin DOMAIN known => next[t] = local[t]
      /\ next = [t \in DOMAIN next |-> next[t]]
  BY DEF Joined
<1>3. \A t \in dynamic : t \in DOMAIN known =>
        /\ next[t] \in Planned
        /\ next[t].priority = PriorityMax(known[t].priority, local[t].priority)
        /\ next[t].objects = known[t].objects \cup local[t].objects
  BY <1>1, <1>2, MergedType
<1> HIDE DEF next
<1>4. next \in Plans
  <2>1. \A t \in DOMAIN next : next[t] \in Planned
    BY <1>1, <1>2, <1>3
  <2> QED
    BY <1>1, <1>2, <2>1, PlansAreFunctions
<1>5. \A t \in dynamic : t \in DOMAIN known =>
        /\ Rank[known[t].priority] <= Rank[next[t].priority]
        /\ Rank[local[t].priority] <= Rank[next[t].priority]
        /\ {Rank[known[t].priority], Rank[local[t].priority], Rank[next[t].priority]} \subseteq Nat
  BY <1>1, <1>3, PriorityMaxIsMax DEF Planned
<1>6. ASSUME NEW t, NEW objects, NEW priority \in Priority, Covers(known, t, objects, priority)
      PROVE  Covers(next, t, objects, priority)
  <2>1. CASE t \notin dynamic
    BY <1>2, <1>6, <2>1 DEF Covers
  <2>2. CASE t \in dynamic
    <3>1. Rank[priority] <= Rank[known[t].priority] /\ Rank[priority] \in Nat
      BY <1>6, PriorityMaxIsMax DEF Covers
    <3> QED
      BY <1>2, <1>3, <1>5, <1>6, <2>2, <3>1 DEF Covers
  <2> QED
    BY <2>1, <2>2
<1>7. ASSUME NEW t, NEW objects, NEW priority \in Priority, Covers(local, t, objects, priority),
             "LLM_DYNAMIC" \in local[t].sources
      PROVE  Covers(next, t, objects, priority)
  <2>1. t \in dynamic
    BY <1>7 DEF Covers
  <2>2. CASE t \notin DOMAIN known
    BY <1>2, <1>7, <2>1, <2>2 DEF Covers
  <2>3. CASE t \in DOMAIN known
    <3>1. Rank[priority] <= Rank[local[t].priority] /\ Rank[priority] \in Nat
      BY <1>7, PriorityMaxIsMax DEF Covers
    <3> QED
      BY <1>2, <1>3, <1>5, <1>7, <2>1, <2>3, <3>1 DEF Covers
  <2> QED
    BY <2>2, <2>3
<1>8. ASSUME NEW t, NEW o, Holds(next, t, o) PROVE Holds(known, t, o) \/ Holds(local, t, o)
  BY <1>2, <1>3, <1>8 DEF Holds
<1> QED
  BY <1>4, <1>6, <1>7, <1>8 DEF next

\* JoinUpTo takes the drafts one by one.
LEMMA JoinUpToIs ==
  ASSUME NEW issues \in Plans, NEW full, Typed(full), NEW drafts \in Seq(Draft)
  PROVE  /\ JoinUpTo(issues, full, drafts)[0] = issues
         /\ \A n \in 1..Len(drafts) :
              JoinUpTo(issues, full, drafts)[n] =
                Joined(JoinUpTo(issues, full, drafts)[n - 1], MergePlan(full, drafts[n]))
<1> DEFINE N == Len(drafts)
           V == Plans
           Step(s, n) == Joined(s, MergePlan(full, drafts[n]))
           step == [n \in 1..N |-> [s \in V |-> Step(s, n)]]
<1>1. N \in Nat /\ \A n \in 1..N : drafts[n] \in Draft
  BY LenProperties, ElementOfSeq
<1>2. ASSUME NEW n \in 1..N, NEW s \in V PROVE Step(s, n) \in V
  BY <1>1, MergePlanCovers, JoinedKeeps
<1>3. PICK g \in [0..N -> V] : g[0] = issues /\ \A n \in 1..N : g[n] = step[n][g[n - 1]]
  <2> DEFINE base == issues
  <2>1. N \in Nat /\ base \in V /\ step \in [1..N -> [V -> V]]
    BY <1>1, <1>2
  <2>2. \E g \in [0..N -> V] : Recurses(g, base, N, step)
    <3> HIDE DEF step, N, V, base
    <3> QED
      BY <2>1, RecursionExists
  <2> QED
    BY <2>2 DEF Recurses
<1>4. g = [n \in 0..N |-> IF n = 0 THEN issues ELSE Step(g[n - 1], n)]
  <2>1. ASSUME NEW n \in 1..N PROVE g[n] = Step(g[n - 1], n)
    <3>1. n - 1 \in 0..N
      BY <1>1
    <3>2. g[n - 1] \in V
      BY <3>1
    <3>3. step[n][g[n - 1]] = Step(g[n - 1], n)
      BY <3>2
    <3> QED
      BY <1>3, <3>3
  <2>2. ASSUME NEW n \in 0..N, n # 0 PROVE n \in 1..N
    BY <1>1, <2>2
  <2> QED
    BY <1>3, <2>1, <2>2
<1>5. JoinUpTo(issues, full, drafts) =
        [n \in 0..N |-> IF n = 0 THEN issues ELSE Step(JoinUpTo(issues, full, drafts)[n - 1], n)]
  BY <1>4 DEF JoinUpTo
<1> QED
  BY <1>1, <1>5
\* The drafts of the chunks join the plan: nothing the plan covered is lost, every issue
\* of theirs is covered, and no issue points at an object no part of theirs names.
LEMMA MergeLocalKeeps ==
  ASSUME NEW issues \in Plans, NEW full, Typed(full), NEW drafts \in Seq(Draft)
  PROVE  LET all == MergeLocal(issues, full, drafts)
         IN /\ all \in Plans
            /\ \A t, objects : \A priority \in Priority :
                 Covers(issues, t, objects, priority) => Covers(all, t, objects, priority)
            /\ \A k \in 1..Len(drafts) : \A p \in ElementsOf(DynamicParts(drafts[k])) :
                 Covers(all, p.topic, p.objects, p.priority)
            /\ \A t, o : Holds(all, t, o) =>
                 \/ Holds(issues, t, o)
                 \/ \E k \in 1..Len(drafts) : \E p \in ElementsOf(Parts(full, drafts[k])) : p.topic = t /\ o \in p.objects
<1> DEFINE N == Len(drafts)
           J(n) == JoinUpTo(issues, full, drafts)[n]
           Plan(n) == J(n) \in Plans
           Known(n) == \A t, objects : \A priority \in Priority :
                         Covers(issues, t, objects, priority) => Covers(J(n), t, objects, priority)
           Own(n) == \A k \in 1..n : \A p \in ElementsOf(DynamicParts(drafts[k])) :
                       Covers(J(n), p.topic, p.objects, p.priority)
           Named1(t, o, n) == \E k \in 1..n : \E p \in ElementsOf(Parts(full, drafts[k])) : p.topic = t /\ o \in p.objects
           Shown1(n) == \A t, o : Holds(J(n), t, o) => Holds(issues, t, o) \/ Named1(t, o, n)
           S == {n \in 0..N : Plan(n) /\ Known(n) /\ Own(n) /\ Shown1(n)}
<1>1. N \in Nat /\ \A n \in 1..N : drafts[n] \in Draft
  BY LenProperties, ElementOfSeq
<1>2. 0 \in S
  <2>1. J(0) = issues
    BY JoinUpToIs
  <2> HIDE DEF J
  <2> QED
    BY <1>1, <2>1
<1>3. ASSUME NEW n \in 1..N, n - 1 \in S PROVE n \in S
  <2> DEFINE local == MergePlan(full, drafts[n])
             before == J(n - 1)
  <2>1. J(n) = Joined(before, local) /\ drafts[n] \in Draft
    BY <1>1, JoinUpToIs
  <2>2. before \in Plans /\ Known(n - 1) /\ Own(n - 1) /\ Shown1(n - 1) /\ n \in 0..N /\ n - 1 \in 0..N
    BY <1>1, <1>3
  <2>3. local \in Plans
    BY <2>1, MergePlanCovers
  <2>4. Plan(n)
    BY <2>1, <2>2, <2>3, JoinedKeeps
  <2>5. \A t, objects : \A priority \in Priority :
          Covers(before, t, objects, priority) => Covers(J(n), t, objects, priority)
    <3> HIDE DEF before, local, J
    <3> QED
      BY <2>1, <2>2, <2>3, JoinedKeeps
  <2>6. Known(n)
    <3> HIDE DEF J, Covers
    <3> QED
      BY <2>2, <2>5
  <2>7. ASSUME NEW k \in 1..n, NEW p \in ElementsOf(DynamicParts(drafts[k]))
        PROVE  Covers(J(n), p.topic, p.objects, p.priority)
    <3>1. drafts[k] \in Draft /\ p.priority \in Priority
      <4>1. drafts[k] \in Draft
        BY <1>1
      <4>2. p \in ElementsOf(Parts(full, drafts[k])) /\ Parts(full, drafts[k]) \in Seq(PartType)
        <5> HIDE DEF ElementsOf, DynamicParts, Parts
        <5> QED
          BY <4>1, PartsTyped
      <4>3. p \in PartType
        BY <4>2, ElementOfSeq DEF ElementsOf
      <4> QED
        BY <4>1, <4>3 DEF PartType
    <3>2. CASE k \in 1..(n - 1)
      <4> HIDE DEF J, Covers, before
      <4>1. Covers(J(n - 1), p.topic, p.objects, p.priority)
        BY <2>2, <3>2
      <4> QED
        BY <2>5, <3>1, <4>1 DEF before
    <3>3. CASE k = n
      <4>1. Covers(local, p.topic, p.objects, p.priority) /\ "LLM_DYNAMIC" \in local[p.topic].sources
        <5>1. p \in ElementsOf(DynamicParts(drafts[n])) /\ p \in ElementsOf(Parts(full, drafts[n]))
          BY <2>1, <3>3, PartsTyped
        <5> QED
          BY <2>1, <5>1, MergePlanCovers
      <4> HIDE DEF J, Covers, before, local
      <4> QED
        BY <2>1, <2>2, <2>3, <3>1, <4>1, JoinedKeeps
    <3> QED
      BY <1>1, <3>2, <3>3
  <2>8. ASSUME NEW t, NEW o, Holds(J(n), t, o) PROVE Holds(issues, t, o) \/ Named1(t, o, n)
    <3>1. Holds(before, t, o) \/ Holds(local, t, o)
      <4> HIDE DEF J, before, local
      <4> QED
        BY <2>1, <2>2, <2>3, <2>8, JoinedKeeps
    <3>2. CASE Holds(before, t, o)
      <4>1. Holds(issues, t, o) \/ Named1(t, o, n - 1)
        <5> HIDE DEF J, Named1
        <5> QED
          BY <2>2, <3>2 DEF before
      <4>2. 1..(n - 1) \subseteq 1..n
        BY <1>1
      <4> HIDE DEF J
      <4> QED
        BY <4>1, <4>2
    <3>3. CASE Holds(local, t, o)
      <4>1. \E p \in ElementsOf(Parts(full, drafts[n])) : p.topic = t /\ o \in p.objects
        BY <2>1, <3>3, MergePlanCovers DEF Holds
      <4>2. n \in 1..n
        BY <1>1
      <4> HIDE DEF J
      <4> QED
        BY <4>1, <4>2
    <3> QED
      BY <3>1, <3>2, <3>3
  <2> HIDE DEF J, Covers, Named1
  <2>9. Own(n)
    BY <2>7
  <2>10. Shown1(n)
    BY <2>8
  <2> QED
    BY <2>2, <2>4, <2>6, <2>9, <2>10
<1>4. N \in S
  <2> HIDE DEF S
  <2>1. \A n \in 1..N : n - 1 \in S => n \in S
    BY <1>3
  <2>2. \A n \in 0..N : n \in S
    BY <1>1, <1>2, <2>1, ByInductionUpTo
  <2> QED
    BY <1>1, <2>2
<1>5. J(N) = MergeLocal(issues, full, drafts)
  BY DEF MergeLocal
<1> HIDE DEF J, Covers
<1> QED
  BY <1>4, <1>5

-----------------------------------------------------------------------------
(* Inputs and answers.                                                     *)

LEMMA FullIsTyped ==
  ASSUME NEW c \in Contract, NEW r \in Contract
  PROVE  Typed(FullOf(c, r)) /\ FullOf(c, r).items = Content[c].items
<1>1. RuleHints(Results[r]) \in Seq(Finding)
  BY InputsAreTyped, SelectedType DEF RuleHints
<1> DEFINE items == Content[c].items
           Of(t) == {items[k].id : k \in {j \in 1..Len(items) : t \in items[j].topics}}
           hints == [j \in 1..Len(Routes) |-> [topic |-> Routes[j], objects |-> Of(Routes[j])]]
<1>2. hints \in Seq(Hint)
  <2>1. Len(items) \in Nat /\ \A k \in 1..Len(items) : items[k].id \in Object
    <3>1. items \in Seq(Item)
      BY InputsAreTyped
    <3>2. Len(items) \in Nat /\ \A k \in 1..Len(items) : items[k] \in Item
      BY <3>1, LenProperties, ElementOfSeq
    <3> QED
      BY <3>2 DEF Item
  <2>2. \A t : Of(t) \in SUBSET Object
    BY <2>1
  <2>3. Len(Routes) \in Nat /\ \A j \in 1..Len(Routes) : Routes[j] \in Topic
    BY InputsAreTyped, LenProperties, ElementOfSeq
  <2> HIDE DEF Of
  <2>4. hints \in [1..Len(Routes) -> Hint]
    BY <2>2, <2>3 DEF Hint
  <2> QED
    BY <2>3, <2>4, SeqDef
<1>3. TopicHints(items, Routes) \in Seq(Hint)
  <2>1. TopicHints(items, Routes) = Selected(hints, {j \in 1..Len(Routes) : Of(Routes[j]) # {}})
    BY DEF TopicHints
  <2> HIDE DEF hints
  <2> QED
    BY <1>2, <2>1, SelectedType
<1> QED
  BY <1>1, <1>3 DEF FullOf, FullInput, Typed

\* The shown part of a hint is a hint.
LEMMA ShownIsTyped ==
  ASSUME NEW S, NEW hints \in Seq(S), NEW ids,
         \A h \in S : [h EXCEPT !.objects = @ \cap ids] \in S
  PROVE  Shown(hints, ids) \in Seq(S)
<1>1. Len(hints) \in Nat /\ \A j \in 1..Len(hints) : hints[j] \in S
  BY LenProperties, ElementOfSeq
<1>2. Shown(hints, ids) \in [1..Len(hints) -> S]
  BY <1>1 DEF Shown
<1> QED
  BY <1>1, <1>2, SeqDef

LEMMA ChunkInputIsTyped ==
  ASSUME NEW full, Typed(full), NEW chunk
  PROVE  Typed(ChunkInput(full, chunk))
<1> DEFINE ids == Ids(chunk)
<1>1. FilterRules(full.rules, ids) \in Seq(Finding)
  <2> DEFINE kept == Selected(full.rules, {k \in 1..Len(full.rules) :
                       full.rules[k].objects = {} \/ full.rules[k].objects \cap ids # {}})
  <2>1. kept \in Seq(Finding)
    BY SelectedType DEF Typed
  <2>2. \A h \in Finding : [h EXCEPT !.objects = @ \cap ids] \in Finding
    BY DEF Finding
  <2>3. FilterRules(full.rules, ids) = Shown(kept, ids)
    BY DEF FilterRules
  <2> HIDE DEF kept, ids
  <2> QED
    BY <2>1, <2>2, <2>3, ShownIsTyped
<1>2. FilterTopics(full.topics, ids) \in Seq(Hint)
  <2> DEFINE kept == Selected(full.topics, {k \in 1..Len(full.topics) : full.topics[k].objects \cap ids # {}})
  <2>1. kept \in Seq(Hint)
    BY SelectedType DEF Typed
  <2>2. \A h \in Hint : [h EXCEPT !.objects = @ \cap ids] \in Hint
    BY DEF Hint
  <2>3. FilterTopics(full.topics, ids) = Shown(kept, ids)
    BY DEF FilterTopics
  <2> HIDE DEF kept, ids
  <2> QED
    BY <2>1, <2>2, <2>3, ShownIsTyped
<1> QED
  BY <1>1, <1>2 DEF ChunkInput, Typed

LEMMA GlobalInputShowsAll ==
  ASSUME NEW full, Typed(full), NEW drafts, full.items \in Seq(Item), DOMAIN full = {"items", "facts", "rules", "topics"}
  PROVE  Typed(GlobalInput(full, drafts)) /\ Ids(GlobalInput(full, drafts).items) = Ids(full.items)
<1>1. Len(full.items) \in Nat /\ \A k \in 1..Len(full.items) : full.items[k] \in Item
  BY LenProperties, ElementOfSeq
<1> DEFINE index == Index(full.items)
<1>2. Len(index) = Len(full.items) /\ \A j \in 1..Len(full.items) : index[j].id = full.items[j].id
  BY <1>1 DEF Index, Item
<1>3. /\ GlobalInput(full, drafts).items = index /\ GlobalInput(full, drafts).rules = full.rules
      /\ GlobalInput(full, drafts).topics = full.topics
  BY DEF GlobalInput
<1> HIDE DEF index
<1> QED
  BY <1>2, <1>3 DEF Ids, Typed

\* An answer that merge_audit_plan accepts names only objects of its input.
LEMMA ValidIsWithin ==
  ASSUME NEW input, Typed(input), NEW d \in Draft, Valid(input, d)
  PROVE  \A p \in ElementsOf(DynamicParts(d)) : p.objects \subseteq Ids(input.items)
<1>1. \A p \in ElementsOf(Parts(input, d)) : p.objects \subseteq Ids(input.items)
  BY DEF Valid, ElementsOf
<1> QED
  BY <1>1, PartsTyped
-----------------------------------------------------------------------------
(* Pieces of a sequence.                                                   *)

\* FlattenSeq joins the sequences from the left.
Joins(h, ss) == h[0] = << >> /\ \A n \in 1..Len(ss) : h[n] = h[n - 1] \o ss[n]

LEMMA JoinsExists ==
  ASSUME NEW S, NEW ss \in Seq(Seq(S))
  PROVE  \E h \in [0..Len(ss) -> Seq(S)] : Joins(h, ss)
<1> DEFINE N == Len(ss)
           V == Seq(S)
           base == << >>
           step == [n \in 1..N |-> [s \in V |-> s \o ss[n]]]
<1>1. N \in Nat /\ \A n \in 1..N : ss[n] \in V
  BY LenProperties, ElementOfSeq
<1>2. base \in V
  OBVIOUS
<1>3. step \in [1..N -> [V -> V]]
  BY <1>1, ConcatProperties
<1>4. PICK h \in [0..N -> V] : Recurses(h, base, N, step)
  <2> HIDE DEF step, N, V, base
  <2> QED
    BY <1>1, <1>2, <1>3, RecursionExists
<1>5. ASSUME NEW n \in 1..N PROVE h[n] = h[n - 1] \o ss[n]
  <2>1. n - 1 \in 0..N
    BY <1>1
  <2>2. h[n] = step[n][h[n - 1]]
    <3> HIDE DEF step, N
    <3> QED
      BY <1>4 DEF Recurses
  <2>3. h[n - 1] \in V
    BY <2>1
  <2> QED
    BY <2>2, <2>3
<1>6. h[0] = << >>
  BY <1>4 DEF Recurses
<1> QED
  BY <1>5, <1>6 DEF Joins

LEMMA FlattenSeqIs ==
  ASSUME NEW S, NEW ss \in Seq(Seq(S)), NEW h \in [0..Len(ss) -> Seq(S)], Joins(h, ss)
  PROVE  FlattenSeq(ss) = h[Len(ss)]
<1> DEFINE N == Len(ss)
<1>1. N \in Nat /\ \A n \in 1..N : ss[n] \in Seq(S)
  BY LenProperties, ElementOfSeq
<1>2. CASE N = 0
  <2>1. ss = << >>
    BY <1>2, EmptySeq
  <2> QED
    BY <1>2, <2>1 DEF FlattenSeq, Joins
<1>3. CASE N # 0
  <2> DEFINE Rec(f) == f = [i \in 1..N |-> IF i = 1 THEN ss[i] ELSE f[i - 1] \o ss[i]]
             g == [i \in 1..N |-> h[i]]
             f == CHOOSE f : Rec(f)
  <2>1. h[1] = ss[1]
    <3>1. 1 \in 1..N /\ 1 - 1 = 0
      BY <1>1, <1>3
    <3>2. h[1] = h[0] \o ss[1] /\ h[0] = << >>
      BY <3>1 DEF Joins
    <3>3. ss[1] \in Seq(S)
      BY <1>1, <3>1
    <3> QED
      BY <3>2, <3>3, ConcatEmptySeq
  <2>2. ASSUME NEW i \in 1..N PROVE g[i] = IF i = 1 THEN ss[i] ELSE g[i - 1] \o ss[i]
    <3>1. i # 1 => i - 1 \in 1..N
      BY <1>1
    <3> QED
      BY <2>1, <3>1 DEF Joins
  <2>3. Rec(g)
    BY <2>2
  <2>4. Rec(f)
    BY <2>3
  <2> DEFINE T == {n \in 0..N : n = 0 \/ f[n] = h[n]}
  <2> HIDE DEF f
  <2>5. 0 \in T
    BY <1>1
  <2>6. ASSUME NEW n \in 1..N, n - 1 \in T PROVE n \in T
    <3>1. f[n] = IF n = 1 THEN ss[n] ELSE f[n - 1] \o ss[n]
      BY <2>4
    <3>2. n \in 0..N /\ (n # 1 => n - 1 # 0)
      BY <1>1
    <3>3. f[n] = h[n]
      BY <2>1, <2>6, <3>1, <3>2 DEF Joins
    <3> QED
      BY <3>2, <3>3
  <2>7. N \in T
    <3> HIDE DEF T
    <3>1. \A n \in 1..N : n - 1 \in T => n \in T
      BY <2>6
    <3>2. \A n \in 0..N : n \in T
      BY <1>1, <2>5, <3>1, ByInductionUpTo
    <3> QED
      BY <1>1, <3>2
  <2>8. FlattenSeq(ss) = f[N]
    BY <1>3 DEF FlattenSeq, f
  <2> QED
    BY <1>3, <2>7, <2>8
<1> QED
  BY <1>2, <1>3

LEMMA FlattenSeqType ==
  ASSUME NEW S, NEW ss \in Seq(Seq(S))
  PROVE  FlattenSeq(ss) \in Seq(S)
<1>1. PICK h \in [0..Len(ss) -> Seq(S)] : Joins(h, ss)
  BY JoinsExists
<1>2. FlattenSeq(ss) = h[Len(ss)] /\ Len(ss) \in 0..Len(ss)
  BY <1>1, FlattenSeqIs, LenProperties
<1> QED
  BY <1>2

LEMMA FlattenSeqEmpty ==
  FlattenSeq(<< >>) = << >>
  BY DEF FlattenSeq

LEMMA FlattenSeqAppend ==
  ASSUME NEW S, NEW ss \in Seq(Seq(S)), NEW s \in Seq(S)
  PROVE  FlattenSeq(Append(ss, s)) = FlattenSeq(ss) \o s
<1> DEFINE N == Len(ss)
           tt == Append(ss, s)
<1>1. /\ N \in Nat /\ tt \in Seq(Seq(S)) /\ Len(tt) = N + 1
      /\ \A i \in 1..N : tt[i] = ss[i]
      /\ tt[N + 1] = s
  <2>1. N \in Nat
    BY LenProperties
  <2> DEFINE V == Seq(S)
  <2>2. ss \in Seq(V) /\ s \in V
    OBVIOUS
  <2> HIDE DEF V
  <2>3. tt \in Seq(V) /\ Len(tt) = N + 1 /\ (\A i \in 1..N : tt[i] = ss[i]) /\ tt[N + 1] = s
    BY <2>2, AppendProperties
  <2> QED
    BY <2>1, <2>3 DEF V
<1> HIDE DEF tt
<1>2. PICK h \in [0..Len(tt) -> Seq(S)] : Joins(h, tt)
  BY <1>1, JoinsExists
<1>3. FlattenSeq(tt) = h[N + 1]
  BY <1>1, <1>2, FlattenSeqIs
<1>4. h[N + 1] = h[N] \o s
  <2>1. N + 1 \in 1..Len(tt) /\ (N + 1) - 1 = N
    BY <1>1
  <2> QED
    BY <1>1, <1>2, <2>1 DEF Joins
<1> DEFINE g == [n \in 0..N |-> h[n]]
<1>5. g \in [0..N -> Seq(S)]
  BY <1>1
<1>6. Joins(g, ss)
  <2>1. ASSUME NEW n \in 1..N PROVE g[n] = g[n - 1] \o ss[n]
    <3>1. n \in 1..Len(tt) /\ n \in 0..N /\ n - 1 \in 0..N
      BY <1>1
    <3> QED
      BY <1>1, <1>2, <3>1 DEF Joins
  <2>2. g[0] = << >>
    BY <1>1, <1>2 DEF Joins
  <2> HIDE DEF g
  <2> QED
    BY <2>1, <2>2 DEF Joins
<1>7. FlattenSeq(ss) = g[N] /\ g[N] = h[N]
  <2>1. g[N] = h[N]
    BY <1>1
  <2> HIDE DEF g
  <2> QED
    BY <1>5, <1>6, <2>1, FlattenSeqIs
<1> QED
  BY <1>3, <1>4, <1>7 DEF tt

\* The ids of the items, in order.
IdsOf(items) == [j \in 1..Len(items) |-> items[j].id]

LEMMA IdsOfJoin ==
  ASSUME NEW s \in Seq(Item), NEW t \in Seq(Item)
  PROVE  IdsOf(s) \in Seq(Object) /\ IdsOf(s \o t) = IdsOf(s) \o IdsOf(t)
<1>1. ASSUME NEW u \in Seq(Item) PROVE IdsOf(u) \in Seq(Object) /\ Len(IdsOf(u)) = Len(u) /\ Len(u) \in Nat
  <2>1. Len(u) \in Nat /\ \A j \in 1..Len(u) : u[j] \in Item
    BY LenProperties, ElementOfSeq
  <2>2. IdsOf(u) \in [1..Len(u) -> Object]
    BY <2>1 DEF IdsOf, Item
  <2>3. Len(IdsOf(u)) = Len(u)
    BY <2>1 DEF IdsOf
  <2> QED
    BY <2>1, <2>2, <2>3, SeqDef
<1>2. /\ s \o t \in Seq(Item) /\ Len(s \o t) = Len(s) + Len(t)
      /\ \A i \in 1..Len(s) + Len(t) : (s \o t)[i] = IF i <= Len(s) THEN s[i] ELSE t[i - Len(s)]
  BY ConcatProperties
<1>3. /\ IdsOf(s) \o IdsOf(t) \in Seq(Object) /\ Len(IdsOf(s) \o IdsOf(t)) = Len(s) + Len(t)
      /\ \A i \in 1..Len(s) + Len(t) :
           (IdsOf(s) \o IdsOf(t))[i] = IF i <= Len(s) THEN IdsOf(s)[i] ELSE IdsOf(t)[i - Len(s)]
  <2> DEFINE a == IdsOf(s)
             b == IdsOf(t)
  <2>1. a \in Seq(Object) /\ b \in Seq(Object) /\ Len(a) = Len(s) /\ Len(b) = Len(t)
    BY <1>1
  <2> HIDE DEF a, b
  <2>2. /\ a \o b \in Seq(Object) /\ Len(a \o b) = Len(a) + Len(b)
        /\ \A i \in 1..Len(a) + Len(b) : (a \o b)[i] = IF i <= Len(a) THEN a[i] ELSE b[i - Len(a)]
    BY <2>1, ConcatProperties
  <2> QED
    BY <2>1, <2>2 DEF a, b
<1>4. ASSUME NEW i \in 1..Len(s) + Len(t) PROVE IdsOf(s \o t)[i] = (IdsOf(s) \o IdsOf(t))[i]
  <2>1. IdsOf(s \o t)[i] = (s \o t)[i].id
    BY <1>2 DEF IdsOf
  <2>2. CASE i <= Len(s)
    BY <1>1, <1>2, <1>3, <2>1, <2>2 DEF IdsOf
  <2>3. CASE ~(i <= Len(s))
    <3>1. i - Len(s) \in 1..Len(t)
      BY <1>1, <2>3
    <3>2. IdsOf(t)[i - Len(s)] = t[i - Len(s)].id
      BY <3>1 DEF IdsOf
    <3> QED
      BY <1>2, <1>3, <2>1, <2>3, <3>2
  <2> QED
    BY <2>2, <2>3
<1>5. IdsOf(s \o t) \in Seq(Object) /\ Len(IdsOf(s \o t)) = Len(s) + Len(t)
  BY <1>1, <1>2
<1> QED
  BY <1>1, <1>3, <1>4, <1>5, SeqEqual

LEMMA IdsOfFlattened ==
  ASSUME NEW ss \in Seq(Seq(Item))
  PROVE  FlattenSeq([k \in 1..Len(ss) |-> IdsOf(ss[k])]) = IdsOf(FlattenSeq(ss))
<1> DEFINE N == Len(ss)
           tt == [k \in 1..N |-> IdsOf(ss[k])]
<1>1. N \in Nat /\ \A n \in 1..N : ss[n] \in Seq(Item)
  BY LenProperties, ElementOfSeq
<1>2. tt \in Seq(Seq(Object)) /\ Len(tt) = N /\ \A n \in 1..N : tt[n] = IdsOf(ss[n])
  <2>1. \A n \in 1..N : IdsOf(ss[n]) \in Seq(Object)
    BY <1>1, IdsOfJoin
  <2> DEFINE V == Seq(Object)
  <2>2. tt \in [1..N -> V]
    BY <2>1
  <2>3. tt \in Seq(V)
    <3> HIDE DEF tt, V
    <3> QED
      BY <1>1, <2>2, SeqDef
  <2> QED
    BY <1>1, <2>3
<1>3. PICK h \in [0..N -> Seq(Item)] : Joins(h, ss)
  BY JoinsExists
<1> DEFINE g == [n \in 0..N |-> IdsOf(h[n])]
<1>4. g \in [0..N -> Seq(Object)]
  BY IdsOfJoin
<1>5. Joins(g, tt)
  <2>1. g[0] = << >>
    <3>1. g[0] = IdsOf(h[0]) /\ h[0] = << >>
      BY <1>1, <1>3 DEF Joins
    <3>2. IdsOf(<< >>) = << >>
      BY DEF IdsOf
    <3> QED
      BY <3>1, <3>2
  <2>2. ASSUME NEW n \in 1..N PROVE g[n] = g[n - 1] \o tt[n]
    <3>1. n \in 0..N /\ n - 1 \in 0..N /\ h[n] = h[n - 1] \o ss[n]
      <4>1. h[n] = h[n - 1] \o ss[n]
        BY <1>3 DEF Joins
      <4> QED
        BY <1>1, <4>1
    <3>2. IdsOf(h[n - 1] \o ss[n]) = IdsOf(h[n - 1]) \o IdsOf(ss[n])
      BY <1>1, <3>1, IdsOfJoin
    <3> QED
      BY <1>2, <3>1, <3>2
  <2> HIDE DEF g, tt
  <2> QED
    BY <1>2, <2>1, <2>2 DEF Joins
<1>6. N \in 0..N /\ g[N] = IdsOf(h[N])
  BY <1>1
<1>7. FlattenSeq(ss) = h[N]
  BY <1>3, FlattenSeqIs
<1> HIDE DEF g, tt
<1>8. FlattenSeq(tt) = g[N]
  BY <1>2, <1>4, <1>5, FlattenSeqIs
<1> QED
  BY <1>6, <1>7, <1>8 DEF tt
-----------------------------------------------------------------------------
(* The chunks.                                                             *)

CutState == [chunks : Seq(Seq(Item)), current : Seq(Item)]
Whole(s) == FlattenSeq(s.chunks) \o s.current

LEMMA FlushKeeps ==
  ASSUME NEW s \in CutState
  PROVE  Flush(s) \in CutState /\ Whole(Flush(s)) = Whole(s) /\ Flush(s).current = << >>
<1>1. s.chunks \in Seq(Seq(Item)) /\ s.current \in Seq(Item)
  BY DEF CutState
<1>2. CASE s.current = << >>
  BY <1>2 DEF Flush
<1>3. CASE s.current # << >>
  <2>1. Flush(s) = [chunks |-> Append(s.chunks, s.current), current |-> << >>]
    BY <1>3 DEF Flush
  <2>2. Append(s.chunks, s.current) \in Seq(Seq(Item)) /\ << >> \in Seq(Item)
    <3> DEFINE V == Seq(Item)
    <3>1. s.chunks \in Seq(V) /\ s.current \in V /\ << >> \in V
      BY <1>1
    <3> HIDE DEF V
    <3>2. Append(s.chunks, s.current) \in Seq(V)
      BY <3>1, AppendProperties
    <3> QED
      BY <3>1, <3>2 DEF V
  <2>3. FlattenSeq(Append(s.chunks, s.current)) = FlattenSeq(s.chunks) \o s.current
    BY <1>1, FlattenSeqAppend
  <2>4. FlattenSeq(s.chunks) \o s.current \in Seq(Item)
    BY <1>1, FlattenSeqType, ConcatProperties
  <2>5. (FlattenSeq(s.chunks) \o s.current) \o << >> = FlattenSeq(s.chunks) \o s.current
    BY <2>4, ConcatEmptySeq
  <2> QED
    BY <2>1, <2>2, <2>3, <2>5 DEF CutState, Whole
<1> QED
  BY <1>2, <1>3

LEMMA TakenKeeps ==
  ASSUME NEW s \in CutState, NEW item \in Item
  PROVE  LET taken == [s EXCEPT !.current = Append(@, item)]
         IN taken \in CutState /\ Whole(taken) = Append(Whole(s), item)
<1> DEFINE taken == [s EXCEPT !.current = Append(@, item)]
<1>1. s.chunks \in Seq(Seq(Item)) /\ s.current \in Seq(Item)
  BY DEF CutState
<1>2. taken = [chunks |-> s.chunks, current |-> Append(s.current, item)]
  <2> DEFINE A == Seq(Seq(Item))
             B == Seq(Item)
             next == Append(s.current, item)
  <2>1. s \in [chunks : A, current : B]
    BY DEF CutState
  <2> HIDE DEF A, B, next
  <2>2. [s EXCEPT !.current = next] = [chunks |-> s.chunks, current |-> next]
    BY <2>1
  <2> QED
    BY <2>2 DEF next
<1>3. Append(s.current, item) \in Seq(Item) /\ Append(s.current, item) = s.current \o <<item>>
  BY <1>1, AppendProperties, AppendIsConcat
<1>4. taken \in CutState
  BY <1>1, <1>2, <1>3 DEF CutState
<1>5. FlattenSeq(s.chunks) \in Seq(Item) /\ <<item>> \in Seq(Item) /\ Whole(s) \in Seq(Item)
  BY <1>1, FlattenSeqType, ConcatProperties DEF Whole
<1>6. Whole(taken) = FlattenSeq(s.chunks) \o (s.current \o <<item>>)
  BY <1>2, <1>3 DEF Whole
<1>7. FlattenSeq(s.chunks) \o (s.current \o <<item>>) = Whole(s) \o <<item>>
  <2> DEFINE a == FlattenSeq(s.chunks)
             b == s.current
             c == <<item>>
  <2>1. a \in Seq(Item) /\ b \in Seq(Item) /\ c \in Seq(Item)
    BY <1>1, <1>5
  <2>2. (a \o b) \o c = a \o (b \o c)
    <3> HIDE DEF a, b, c
    <3> QED
      BY <2>1, ConcatAssociative
  <2> QED
    BY <2>2 DEF Whole
<1>8. Whole(s) \o <<item>> = Append(Whole(s), item)
  BY <1>5, AppendIsConcat
<1> QED
  BY <1>4, <1>6, <1>7, <1>8

LEMMA PlaceKeeps ==
  ASSUME NEW s \in CutState, NEW item \in Item
  PROVE  Place(s, item) \in CutState /\ Whole(Place(s, item)) = Append(Whole(s), item)
<1> DEFINE over == /\ s.current # << >>
                   /\ Chars(s.current) + item.size > ChunkChars \/ Len(s.current) >= ChunkItems
           from == IF over THEN Flush(s) ELSE s
           taken == [from EXCEPT !.current = Append(@, item)]
<1>1. from \in CutState /\ Whole(from) = Whole(s)
  BY FlushKeeps
<1>2. taken \in CutState /\ Whole(taken) = Append(Whole(s), item)
  <2> HIDE DEF from
  <2> QED
    BY <1>1, TakenKeeps
<1>3. Place(s, item) = IF Full(taken.current) THEN Flush(taken) ELSE taken
  BY DEF Place
<1> HIDE DEF taken
<1> QED
  BY <1>2, <1>3, FlushKeeps

\* CutUpTo places the items one by one.
LEMMA CutUpToIs ==
  ASSUME NEW items \in Seq(Item)
  PROVE  /\ CutUpTo(items)[0] = NoChunk
         /\ \A n \in 1..Len(items) : CutUpTo(items)[n] = Place(CutUpTo(items)[n - 1], items[n])
<1> DEFINE N == Len(items)
           V == CutState
           base == NoChunk
           Step(s, n) == Place(s, items[n])
           step == [n \in 1..N |-> [s \in V |-> Step(s, n)]]
<1>1. N \in Nat /\ \A n \in 1..N : items[n] \in Item
  BY LenProperties, ElementOfSeq
<1>2. step \in [1..N -> [V -> V]]
  BY <1>1, PlaceKeeps
<1>3. base \in V
  <2>1. << >> \in Seq(Seq(Item)) /\ << >> \in Seq(Item)
    OBVIOUS
  <2> QED
    BY <2>1 DEF NoChunk, CutState
<1>4. PICK g \in [0..N -> V] : Recurses(g, base, N, step)
  <2> HIDE DEF step, N, V, base
  <2> QED
    BY <1>1, <1>2, <1>3, RecursionExists
<1>5. g = [n \in 0..N |-> IF n = 0 THEN NoChunk ELSE Step(g[n - 1], n)]
  <2>1. ASSUME NEW n \in 1..N PROVE g[n] = Step(g[n - 1], n)
    <3>1. n - 1 \in 0..N
      BY <1>1
    <3>2. g[n - 1] \in V
      BY <3>1
    <3>3. step[n][g[n - 1]] = Step(g[n - 1], n)
      BY <3>2
    <3>4. g[n] = step[n][g[n - 1]]
      <4> HIDE DEF step, N
      <4> QED
        BY <1>4 DEF Recurses
    <3> QED
      BY <3>3, <3>4
  <2>2. ASSUME NEW n \in 0..N, n # 0 PROVE n \in 1..N
    BY <1>1, <2>2
  <2>3. g[0] = NoChunk
    BY <1>4 DEF Recurses
  <2> QED
    BY <2>1, <2>2, <2>3
<1>6. CutUpTo(items) = [n \in 0..N |-> IF n = 0 THEN NoChunk ELSE Step(CutUpTo(items)[n - 1], n)]
  BY <1>5 DEF CutUpTo
<1> QED
  BY <1>1, <1>6

\* The chunks cut the items into consecutive pieces that miss and repeat nothing.
LEMMA ChunksCutTheItems ==
  ASSUME NEW items \in Seq(Item)
  PROVE  Chunks(items) \in Seq(Seq(Item)) /\ FlattenSeq(Chunks(items)) = items
<1> DEFINE N == Len(items)
           C(n) == CutUpTo(items)[n]
           S == {n \in 0..N : C(n) \in CutState /\ Whole(C(n)) = SubSeq(items, 1, n)}
<1>1. N \in Nat /\ \A n \in 1..N : items[n] \in Item
  BY LenProperties, ElementOfSeq
<1>2. 0 \in S
  <2>1. C(0) = NoChunk
    BY CutUpToIs
  <2>2. NoChunk \in CutState /\ Whole(NoChunk) = << >>
    <3>1. << >> \in Seq(Seq(Item)) /\ << >> \in Seq(Item)
      OBVIOUS
    <3>2. << >> \o << >> = << >>
      BY <3>1, ConcatEmptySeq
    <3> QED
      BY <3>1, <3>2, FlattenSeqEmpty DEF NoChunk, CutState, Whole
  <2>3. SubSeq(items, 1, 0) = << >>
    BY SubSeqEmpty
  <2> HIDE DEF C
  <2>4. 0 \in 0..N
    BY <1>1
  <2>5. C(0) \in CutState /\ Whole(C(0)) = SubSeq(items, 1, 0)
    BY <2>1, <2>2, <2>3
  <2> HIDE DEF N
  <2> QED
    BY <2>4, <2>5
<1>3. ASSUME NEW n \in 1..N, n - 1 \in S PROVE n \in S
  <2>1. C(n) = Place(C(n - 1), items[n]) /\ items[n] \in Item
    BY <1>1, CutUpToIs
  <2>2. C(n - 1) \in CutState /\ Whole(C(n - 1)) = SubSeq(items, 1, n - 1)
    BY <1>3
  <2> HIDE DEF C
  <2>3. C(n) \in CutState /\ Whole(C(n)) = Append(SubSeq(items, 1, n - 1), items[n])
    BY <2>1, <2>2, PlaceKeeps
  <2>4. SubSeq(items, 1, n) = SubSeq(items, 1, n - 1) \o <<items[n]>>
    <3>1. 1 \in 1..N /\ n \in 1..N
      BY <1>1
    <3> QED
      BY <3>1, SubSeqRecursiveSecond
  <2>5. SubSeq(items, 1, n - 1) \in Seq(Item)
    <3>1. \A i \in 1..(n - 1) : items[i] \in Item
      BY <1>1
    <3> QED
      BY <1>1, <3>1, SubSeqProperties
  <2>6. Append(SubSeq(items, 1, n - 1), items[n]) = SubSeq(items, 1, n - 1) \o <<items[n]>>
    BY <2>1, <2>5, AppendIsConcat
  <2> QED
    BY <1>1, <2>3, <2>4, <2>6
<1>4. N \in S
  <2> HIDE DEF S
  <2>1. \A n \in 1..N : n - 1 \in S => n \in S
    BY <1>3
  <2>2. \A n \in 0..N : n \in S
    BY <1>1, <1>2, <2>1, ByInductionUpTo
  <2> QED
    BY <1>1, <2>2
<1>5. C(N) \in CutState /\ Whole(C(N)) = items
  BY <1>4, SubSeqFull
<1> DEFINE last == Flush(C(N))
<1>6. last \in CutState /\ Whole(last) = items /\ last.current = << >>
  <2> HIDE DEF C
  <2> QED
    BY <1>5, FlushKeeps
<1>7. Chunks(items) = last.chunks
  BY DEF Chunks
<1> HIDE DEF last
<1>8. last.chunks \in Seq(Seq(Item))
  BY <1>6 DEF CutState
<1>9. FlattenSeq(last.chunks) \o << >> = FlattenSeq(last.chunks)
  BY <1>8, FlattenSeqType, ConcatEmptySeq
<1> QED
  BY <1>6, <1>7, <1>8, <1>9 DEF Whole
-----------------------------------------------------------------------------
(* The inductive invariant.                                                *)

Good(p) == Made(p) /\ HoldsEveryFinding(p) /\ PointsAtShown(p) /\ PartitionsItsContract(p)

IsRun(r) == r = [pc |-> r.pc, contract |-> r.contract, rules |-> r.rules,
                 chunks |-> r.chunks, drafts |-> r.drafts, result |-> r.result]

Asking == run.pc \in {"pass", "asked", "write"}
ChunkOf(k) == ChunkInput(FullOf(run.contract, run.rules), run.chunks[k])

\* Every stage of a run holds what it read; the chunks are those of the contract it
\* holds, and each draft was accepted for the chunk at its place.
RunShape ==
  /\ IsRun(run)
  /\ run.pc \in {"idle", "rules", "again", "chunks", "pass", "asked", "write"}
  /\ run.contract \in Contract \cup {NoFile} /\ run.rules \in Contract \cup {NoFile}
  /\ run.pc # "idle" => run.contract \in Contract
  /\ Asking => run.rules \in Contract
  /\ \/ run.chunks = << >>
     \/ Asking /\ run.chunks = Chunks(Content[run.contract].items) /\ Len(run.chunks) + 1 <= MaxPasses
  /\ run.drafts \in Seq(Draft) /\ Len(run.drafts) <= Len(run.chunks)
  /\ \A k \in 1..Len(run.drafts) : Valid(ChunkOf(k), run.drafts[k])
  /\ At("write") => Good(run.result) /\ run.result.contract \in Contract /\ Len(run.drafts) = Len(run.chunks)

\* Every plan that a run has finished or that is in force is good.
IInv ==
  /\ contract \in Contract \cup {NoFile} /\ rules \in Contract \cup {NoFile}
  /\ plan # NoFile => Good(plan)
  /\ RunShape

-----------------------------------------------------------------------------
(* The plan a run makes.                                                   *)

LEMMA ChunksAreTyped ==
  ASSUME RunShape
  PROVE  /\ run.chunks \in Seq(Seq(Item)) /\ Len(run.chunks) \in Nat /\ Len(run.drafts) \in Nat
         /\ \A k \in 1..Len(run.chunks) : run.chunks[k] \in Seq(Item)
         /\ \A k \in 1..Len(run.drafts) : run.drafts[k] \in Draft
<1>1. CASE run.chunks = << >>
  <2>1. << >> \in Seq(Seq(Item)) /\ Len(<< >>) = 0
    OBVIOUS
  <2> QED
    BY <1>1, <2>1, LenProperties, ElementOfSeq DEF RunShape
<1>2. CASE run.chunks # << >>
  <2>1. run.chunks = Chunks(Content[run.contract].items) /\ Content[run.contract].items \in Seq(Item)
    BY <1>2, InputsAreTyped DEF RunShape, Asking
  <2>2. run.chunks \in Seq(Seq(Item))
    BY <2>1, ChunksCutTheItems
  <2>3. Len(run.chunks) \in Nat /\ \A k \in 1..Len(run.chunks) : run.chunks[k] \in Seq(Item)
    <3> DEFINE V == Seq(Item)
    <3>1. run.chunks \in Seq(V)
      BY <2>2
    <3> HIDE DEF V
    <3>2. Len(run.chunks) \in Nat /\ \A k \in 1..Len(run.chunks) : run.chunks[k] \in V
      BY <3>1, LenProperties, ElementOfSeq
    <3> QED
      BY <3>2 DEF V
  <2>4. Len(run.drafts) \in Nat /\ \A k \in 1..Len(run.drafts) : run.drafts[k] \in Draft
    BY LenProperties, ElementOfSeq DEF RunShape
  <2> QED
    BY <2>2, <2>3, <2>4
<1> QED
  BY <1>1, <1>2

\* The issues of the plan hold every part of the last answer and every issue of the
\* drafts, and point only at what one of these parts names.
LEMMA IssuesGather ==
  ASSUME RunShape, At("asked"), ~Local, NEW d \in Draft
  PROVE  LET full == FullOf(run.contract, run.rules)
             issues == PlanFor(d).issues
         IN /\ issues \in Plans
            /\ \A p \in ElementsOf(Parts(full, d)) : Covers(issues, p.topic, p.objects, p.priority)
            /\ \A k \in 1..Len(run.drafts) : \A p \in ElementsOf(DynamicParts(run.drafts[k])) :
                 Covers(issues, p.topic, p.objects, p.priority)
            /\ \A t, o : Holds(issues, t, o) =>
                 \/ \E p \in ElementsOf(Parts(full, d)) : p.topic = t /\ o \in p.objects
                 \/ \E k \in 1..Len(run.drafts) :
                      \E p \in ElementsOf(Parts(full, run.drafts[k])) : p.topic = t /\ o \in p.objects
<1> DEFINE full == FullOf(run.contract, run.rules)
           merged == MergePlan(full, d)
           issues == PlanFor(d).issues
           joined == MergeLocal(merged, full, run.drafts)
<1>1. Typed(full) /\ run.drafts \in Seq(Draft)
  BY FullIsTyped DEF RunShape, Asking, At
<1>2. issues = IF Direct THEN merged ELSE joined
  BY DEF PlanFor
<1>3. /\ merged \in Plans
      /\ \A p \in ElementsOf(Parts(full, d)) : Covers(merged, p.topic, p.objects, p.priority)
      /\ \A t, o : Holds(merged, t, o) => \E p \in ElementsOf(Parts(full, d)) : p.topic = t /\ o \in p.objects
  <2> HIDE DEF full
  <2>1. \A t \in DOMAIN merged : \A o \in merged[t].objects :
          \E p \in ElementsOf(Parts(full, d)) : p.topic = t /\ o \in p.objects
    BY <1>1, MergePlanCovers
  <2>2. merged \in Plans /\ \A p \in ElementsOf(Parts(full, d)) : Covers(merged, p.topic, p.objects, p.priority)
    BY <1>1, MergePlanCovers
  <2> HIDE DEF merged
  <2> QED
    BY <2>1, <2>2 DEF Holds
<1>4. \A p \in ElementsOf(Parts(full, d)) : p.priority \in Priority
  <2> HIDE DEF full
  <2>1. Parts(full, d) \in Seq(PartType)
    BY <1>1, PartsTyped
  <2>2. \A k \in 1..Len(Parts(full, d)) : Parts(full, d)[k] \in PartType
    BY <2>1, ElementOfSeq
  <2> QED
    BY <2>2 DEF ElementsOf, PartType
<1>5. CASE Direct
  <2>1. Len(run.drafts) = 0
    BY <1>5, ChunksAreTyped DEF RunShape, Direct
  <2> HIDE DEF full, merged, issues
  <2>2. issues = merged
    BY <1>2, <1>5
  <2> QED
    BY <1>3, <2>1, <2>2 DEF full, issues
<1>6. CASE ~Direct
  <2>1. issues = joined
    BY <1>2, <1>6
  <2> HIDE DEF full, merged, issues, joined, Covers, Holds
  <2>2. \A t, objects : \A priority \in Priority :
          Covers(merged, t, objects, priority) => Covers(joined, t, objects, priority)
    BY <1>1, <1>3, MergeLocalKeeps DEF joined
  <2>3. \A k \in 1..Len(run.drafts) : \A p \in ElementsOf(DynamicParts(run.drafts[k])) :
          Covers(joined, p.topic, p.objects, p.priority)
    BY <1>1, <1>3, MergeLocalKeeps DEF joined
  <2>4. \A t, o : Holds(joined, t, o) =>
          \/ Holds(merged, t, o)
          \/ \E k \in 1..Len(run.drafts) :
               \E p \in ElementsOf(Parts(full, run.drafts[k])) : p.topic = t /\ o \in p.objects
    BY <1>1, <1>3, MergeLocalKeeps DEF joined
  <2>5. \A p \in ElementsOf(Parts(full, d)) : Covers(joined, p.topic, p.objects, p.priority)
    BY <1>3, <1>4, <2>2
  <2>6. \A t, o : Holds(joined, t, o) =>
          \/ \E p \in ElementsOf(Parts(full, d)) : p.topic = t /\ o \in p.objects
          \/ \E k \in 1..Len(run.drafts) :
               \E p \in ElementsOf(Parts(full, run.drafts[k])) : p.topic = t /\ o \in p.objects
    BY <1>3, <2>4
  <2>7. joined \in Plans
    BY <1>1, <1>3, MergeLocalKeeps DEF joined
  <2> QED
    BY <2>1, <2>3, <2>5, <2>6, <2>7 DEF full, issues
<1> QED
  BY <1>5, <1>6

LEMMA PassesAre ==
  ASSUME RunShape, At("asked"), ~Local, NEW d \in Draft
  PROVE  LET p == PlanFor(d)
             N == Len(run.drafts)
             full == FullOf(run.contract, run.rules)
         IN /\ N \in Nat /\ N = Len(run.chunks) /\ Len(p.passes) = N + 1
            /\ \A k \in 1..N : p.passes[k] = Pass(run.chunks[k], run.drafts[k])
            /\ p.passes[N + 1] = Pass(full.items, d)
            /\ p.contract = run.contract /\ p.rules = run.rules /\ p.type = d.type
            /\ p.coverage = CoverageOf(full.items, IF Direct THEN <<full.items>> ELSE run.chunks, p.issues)
<1> DEFINE p == PlanFor(d)
           N == Len(run.drafts)
           full == FullOf(run.contract, run.rules)
           local == [k \in 1..N |-> Pass(run.chunks[k], run.drafts[k])]
           last == Pass(full.items, d)
           S == {local[k] : k \in 1..N} \cup {last}
<1>1. N \in Nat /\ N = Len(run.chunks)
  BY ChunksAreTyped DEF RunShape, Local
<1>2. p.passes = local \o <<last>>
  BY DEF PlanFor
<1>3. local \in Seq(S) /\ <<last>> \in Seq(S) /\ Len(local) = N /\ Len(<<last>>) = 1
  <2>1. local \in [1..N -> S]
    OBVIOUS
  <2>2. last \in S
    OBVIOUS
  <2> HIDE DEF S, last
  <2>3. <<last>> \in Seq(S) /\ Len(<<last>>) = 1
    BY <2>2
  <2>4. Len(local) = N
    BY <1>1
  <2> HIDE DEF local
  <2>5. local \in Seq(S)
    BY <1>1, <2>1, SeqDef
  <2> QED
    BY <2>3, <2>4, <2>5
<1>4. /\ Len(local \o <<last>>) = N + 1
      /\ \A k \in 1..N + 1 : (local \o <<last>>)[k] = IF k <= N THEN local[k] ELSE <<last>>[k - N]
  <2> DEFINE t == <<last>>
  <2>1. t \in Seq(S) /\ Len(t) = 1
    BY <1>3
  <2>2. local \in Seq(S) /\ Len(local) = N
    BY <1>3
  <2> HIDE DEF local, S, t, N
  <2>3. /\ Len(local \o t) = Len(local) + Len(t)
        /\ \A k \in 1..Len(local) + Len(t) : (local \o t)[k] = IF k <= Len(local) THEN local[k] ELSE t[k - Len(local)]
    BY <2>1, <2>2, ConcatProperties
  <2>4. /\ Len(local \o t) = N + 1
        /\ \A k \in 1..N + 1 : (local \o t)[k] = IF k <= N THEN local[k] ELSE t[k - N]
    BY <2>1, <2>2, <2>3
  <2> QED
    BY <2>4 DEF t
<1>5. \A k \in 1..N : p.passes[k] = local[k]
  <2> HIDE DEF local, last, p
  <2> QED
    BY <1>1, <1>2, <1>4
<1>6. p.passes[N + 1] = last
  <2>1. N + 1 \in 1..N + 1 /\ ~(N + 1 <= N) /\ (N + 1) - N = 1
    BY <1>1
  <2> HIDE DEF local, last, p
  <2> QED
    BY <1>2, <1>4, <2>1
<1>7. \A k \in 1..N : p.passes[k] = Pass(run.chunks[k], run.drafts[k])
  <2> HIDE DEF p
  <2> QED
    BY <1>5
<1>8. /\ p.contract = run.contract /\ p.rules = run.rules /\ p.type = d.type
      /\ p.coverage = CoverageOf(full.items, IF Direct THEN <<full.items>> ELSE run.chunks, p.issues)
  BY DEF PlanFor
<1>9. Len(p.passes) = N + 1
  <2> HIDE DEF p, local, last
  <2> QED
    BY <1>2, <1>4
<1> QED
  BY <1>1, <1>6, <1>7, <1>8, <1>9
LEMMA HintsAre ==
  ASSUME NEW p, p.contract \in Contract, p.rules \in Contract
  PROVE  LET full == FullOf(p.contract, p.rules)
         IN HintsOf(p) = ElementsOf(RuleParts(full.rules)) \cup ElementsOf(TopicParts(full.topics))
<1> DEFINE full == FullOf(p.contract, p.rules)
           a == RuleParts(full.rules)
           b == TopicParts(full.topics)
           S == PartType
<1>1. Typed(full)
  BY FullIsTyped
<1>2. a \in Seq(S) /\ b \in Seq(S)
  <2> HIDE DEF full
  <2> QED
    BY <1>1, HintPartsTyped
<1>3. ElementsOf(a \o b) = ElementsOf(a) \cup ElementsOf(b)
  <2> HIDE DEF a, b, S
  <2> QED
    BY <1>2, Concatenated
<1>4. HintsOf(p) = ElementsOf(a \o b)
  BY DEF HintsOf, ElementsOf
<1> HIDE DEF a, b
<1> QED
  BY <1>3, <1>4 DEF a, b

\* The parts of a draft are its issues.
LEMMA IssuesAreParts ==
  ASSUME NEW d \in Draft
  PROVE  /\ \A i \in IssuesOf(d) : \E p \in ElementsOf(DynamicParts(d)) :
              p.topic = i.topic /\ p.objects = i.objects /\ p.priority = i.priority
         /\ \A p \in ElementsOf(DynamicParts(d)) : \E i \in IssuesOf(d) :
              p.topic = i.topic /\ p.objects = i.objects
<1>1. Len(d.issues) \in Nat /\ Len(DynamicParts(d)) = Len(d.issues)
  BY InputsAreTyped, LenProperties DEF DynamicParts
<1>2. \A k \in 1..Len(d.issues) : /\ DynamicParts(d)[k].topic = d.issues[k].topic
                                  /\ DynamicParts(d)[k].objects = d.issues[k].objects
                                  /\ DynamicParts(d)[k].priority = d.issues[k].priority
  BY DEF DynamicParts, Part
<1> QED
  BY <1>1, <1>2 DEF ElementsOf, IssuesOf

LEMMA BaselineArePlanned ==
  ASSUME NEW type
  PROVE  /\ \A k \in 1..Len(BaselineFor(type)) : \E p \in ElementsOf(BaselineParts(type)) : p.topic = BaselineFor(type)[k]
         /\ \A p \in ElementsOf(BaselineParts(type)) : p.objects = {}
<1>1. Len(BaselineFor(type)) \in Nat
  BY ChecklistIsTopics, ConcatProperties, LenProperties DEF BaselineFor
<1> HIDE DEF BaselineFor
<1>2. Len(BaselineParts(type)) = Len(BaselineFor(type))
  BY <1>1 DEF BaselineParts
<1>3. \A k \in 1..Len(BaselineFor(type)) :
        BaselineParts(type)[k].topic = BaselineFor(type)[k] /\ BaselineParts(type)[k].objects = {}
  BY DEF BaselineParts, Part
<1> QED
  BY <1>2, <1>3 DEF ElementsOf

LEMMA PlanHoldsEveryFinding ==
  ASSUME RunShape, At("asked"), ~Local, NEW d \in Draft
  PROVE  HoldsEveryFinding(PlanFor(d))
<1> DEFINE p == PlanFor(d)
           N == Len(run.drafts)
           full == FullOf(run.contract, run.rules)
<1>1. /\ N \in Nat /\ N = Len(run.chunks) /\ Len(p.passes) = N + 1
      /\ \A k \in 1..N : p.passes[k] = Pass(run.chunks[k], run.drafts[k])
      /\ p.passes[N + 1] = Pass(full.items, d)
      /\ p.contract = run.contract /\ p.rules = run.rules /\ p.type = d.type
  BY PassesAre
<1>2. /\ \A q \in ElementsOf(Parts(full, d)) : Covers(p.issues, q.topic, q.objects, q.priority)
      /\ \A k \in 1..N : \A q \in ElementsOf(DynamicParts(run.drafts[k])) :
           Covers(p.issues, q.topic, q.objects, q.priority)
  BY IssuesGather
<1> HIDE DEF p
<1>3. Typed(full) /\ run.contract \in Contract /\ run.rules \in Contract
  BY FullIsTyped DEF RunShape, Asking, At
<1>4. ElementsOf(Parts(full, d)) = ElementsOf(BaselineParts(d.type)) \cup ElementsOf(RuleParts(full.rules))
                                     \cup ElementsOf(TopicParts(full.topics)) \cup ElementsOf(DynamicParts(d))
  <2> HIDE DEF full
  <2> QED
    BY <1>3, PartsTyped
<1>5. HintsOf(p) = ElementsOf(RuleParts(full.rules)) \cup ElementsOf(TopicParts(full.topics))
  BY <1>1, <1>3, HintsAre
<1> HIDE DEF full
<1>6. ASSUME NEW k \in 1..Len(BaselineFor(p.type)) PROVE BaselineFor(p.type)[k] \in DOMAIN p.issues
  <2>1. PICK q \in ElementsOf(BaselineParts(d.type)) : q.topic = BaselineFor(p.type)[k]
    BY <1>1, BaselineArePlanned
  <2> QED
    BY <1>2, <1>4, <2>1 DEF Covers
<1>7. ASSUME NEW f \in HintsOf(p) PROVE Covers(p.issues, f.topic, f.objects, f.priority)
  BY <1>2, <1>4, <1>5
<1>8. ASSUME NEW a \in Answered(p), NEW f \in IssuesOf(a) PROVE Covers(p.issues, f.topic, f.objects, f.priority)
  <2>1. PICK k \in 1..N + 1 : a = p.passes[k].answer
    BY <1>1 DEF Answered
  <2>2. CASE k = N + 1
    <3>1. a = d
      BY <1>1, <2>1, <2>2 DEF Pass
    <3>2. PICK q \in ElementsOf(DynamicParts(d)) : q.topic = f.topic /\ q.objects = f.objects /\ q.priority = f.priority
      BY <3>1, IssuesAreParts
    <3> QED
      BY <1>2, <1>4, <3>2
  <2>3. CASE k \in 1..N
    <3>1. a = run.drafts[k] /\ run.drafts[k] \in Draft
      <4>1. p.passes[k] = Pass(run.chunks[k], run.drafts[k])
        BY <1>1, <2>3
      <4>2. run.drafts[k] \in Draft
        BY <2>3, ChunksAreTyped
      <4> QED
        BY <2>1, <4>1, <4>2 DEF Pass
    <3>2. PICK q \in ElementsOf(DynamicParts(run.drafts[k])) :
            q.topic = f.topic /\ q.objects = f.objects /\ q.priority = f.priority
      BY <3>1, IssuesAreParts
    <3> QED
      BY <1>2, <2>3, <3>2
  <2> QED
    BY <1>1, <2>2, <2>3
<1> QED
  BY <1>6, <1>7, <1>8 DEF HoldsEveryFinding, Covers, p

LEMMA InputShows ==
  ASSUME RunShape, At("asked"), ~Local
  PROVE  Typed(Input) /\ Ids(Input.items) = Ids(FullOf(run.contract, run.rules).items)
<1> DEFINE full == FullOf(run.contract, run.rules)
<1>1. Typed(full) /\ full.items = Content[run.contract].items /\ run.contract \in Contract
  BY FullIsTyped DEF RunShape, Asking, At
<1>2. DOMAIN full = {"items", "facts", "rules", "topics"}
  BY DEF FullOf, FullInput
<1>3. full.items \in Seq(Item)
  BY <1>1, InputsAreTyped
<1>4. Typed(GlobalInput(full, run.drafts)) /\ Ids(GlobalInput(full, run.drafts).items) = Ids(full.items)
  <2> HIDE DEF full
  <2> QED
    BY <1>1, <1>2, <1>3, GlobalInputShowsAll
<1>5. Input = IF Direct THEN full ELSE GlobalInput(full, run.drafts)
  BY DEF Input
<1> HIDE DEF full
<1> QED
  BY <1>1, <1>4, <1>5 DEF full

LEMMA PlanPointsAtShown ==
  ASSUME RunShape, At("asked"), ~Local, NEW d \in Draft, UsableDraft(d)
  PROVE  PointsAtShown(PlanFor(d))
<1> DEFINE p == PlanFor(d)
           N == Len(run.drafts)
           full == FullOf(run.contract, run.rules)
           Seen(t, o) == \E k \in 1..Len(p.passes) :
                           /\ \E j \in 1..Len(p.passes[k].objects) : p.passes[k].objects[j] = o
                           /\ \E i \in IssuesOf(p.passes[k].answer) : i.topic = t /\ o \in i.objects
           Hinted(t, o) == \E h \in HintsOf(p) : h.topic = t /\ o \in h.objects
<1>1. /\ N \in Nat /\ N = Len(run.chunks) /\ Len(p.passes) = N + 1
      /\ \A k \in 1..N : p.passes[k] = Pass(run.chunks[k], run.drafts[k])
      /\ p.passes[N + 1] = Pass(full.items, d)
      /\ p.contract = run.contract /\ p.rules = run.rules /\ p.type = d.type
  BY PassesAre
<1>2. \A t, o : Holds(p.issues, t, o) =>
        \/ \E q \in ElementsOf(Parts(full, d)) : q.topic = t /\ o \in q.objects
        \/ \E k \in 1..N : \E q \in ElementsOf(Parts(full, run.drafts[k])) : q.topic = t /\ o \in q.objects
  BY IssuesGather
<1> HIDE DEF p
<1>3. Typed(full) /\ run.contract \in Contract /\ run.rules \in Contract /\ full.items \in Seq(Item)
  BY FullIsTyped, InputsAreTyped DEF RunShape, Asking, At
<1>4. HintsOf(p) = ElementsOf(RuleParts(full.rules)) \cup ElementsOf(TopicParts(full.topics))
  BY <1>1, <1>3, HintsAre
<1>5. ASSUME NEW e \in Draft, NEW q \in ElementsOf(Parts(full, e)), NEW o \in q.objects
      PROVE  Hinted(q.topic, o) \/ q \in ElementsOf(DynamicParts(e))
  <2>1. q \in ElementsOf(BaselineParts(e.type)) \cup ElementsOf(RuleParts(full.rules))
               \cup ElementsOf(TopicParts(full.topics)) \cup ElementsOf(DynamicParts(e))
    <3> HIDE DEF full
    <3> QED
      BY <1>3, PartsTyped
  <2>2. q \notin ElementsOf(BaselineParts(e.type))
    BY BaselineArePlanned
  <2> HIDE DEF full
  <2> QED
    BY <1>4, <2>1, <2>2
\* What a pass that was shown the items named is seen.
<1>6. ASSUME NEW k \in 1..N + 1, NEW items \in Seq(Item), NEW e \in Draft, p.passes[k] = Pass(items, e),
             NEW q \in ElementsOf(DynamicParts(e)), NEW o \in q.objects, o \in Ids(items)
      PROVE  Seen(q.topic, o)
  <2>1. PICK j \in 1..Len(items) : items[j].id = o
    BY <1>6 DEF Ids
  <2>2. /\ p.passes[k].answer = e /\ p.passes[k].objects = [i \in 1..Len(items) |-> items[i].id]
    BY <1>6 DEF Pass
  <2>3. Len(p.passes[k].objects) = Len(items) /\ p.passes[k].objects[j] = o
    <3>1. Len(items) \in Nat
      BY LenProperties
    <3> QED
      BY <2>1, <2>2, <3>1
  <2>4. PICK i \in IssuesOf(e) : q.topic = i.topic /\ q.objects = i.objects
    BY IssuesAreParts
  <2> QED
    BY <1>1, <2>2, <2>3, <2>4
<1>7. \A q \in ElementsOf(DynamicParts(d)) : q.objects \subseteq Ids(full.items)
  <2>1. Typed(Input) /\ Ids(Input.items) = Ids(full.items) /\ Valid(Input, d)
    BY InputShows DEF UsableDraft
  <2> HIDE DEF full
  <2> QED
    BY <2>1, ValidIsWithin
<1>8. ASSUME NEW k \in 1..N
      PROVE  /\ run.drafts[k] \in Draft /\ run.chunks[k] \in Seq(Item)
             /\ \A q \in ElementsOf(DynamicParts(run.drafts[k])) : q.objects \subseteq Ids(run.chunks[k])
  <2>1. run.drafts[k] \in Draft /\ run.chunks[k] \in Seq(Item)
    BY <1>1, ChunksAreTyped
  <2>2. Valid(ChunkInput(full, run.chunks[k]), run.drafts[k])
    BY DEF RunShape, ChunkOf
  <2>3. Typed(ChunkInput(full, run.chunks[k])) /\ ChunkInput(full, run.chunks[k]).items = run.chunks[k]
    BY <1>3, ChunkInputIsTyped DEF ChunkInput
  <2> HIDE DEF full
  <2> QED
    BY <2>1, <2>2, <2>3, ValidIsWithin
<1>9. ASSUME NEW t, NEW o, Holds(p.issues, t, o) PROVE Hinted(t, o) \/ Seen(t, o)
  <2>1. CASE \E q \in ElementsOf(Parts(full, d)) : q.topic = t /\ o \in q.objects
    <3>1. PICK q \in ElementsOf(Parts(full, d)) : q.topic = t /\ o \in q.objects
      BY <2>1
    <3>2. CASE q \in ElementsOf(DynamicParts(d))
      <4>1. N + 1 \in 1..N + 1 /\ o \in Ids(full.items)
        BY <1>1, <1>7, <3>1, <3>2
      <4>2. Seen(q.topic, o)
        <5> HIDE DEF Seen
        <5> QED
          BY <1>1, <1>3, <1>6, <3>1, <3>2, <4>1
      <4> QED
        BY <3>1, <4>2
    <3>3. CASE q \notin ElementsOf(DynamicParts(d))
      <4> HIDE DEF Hinted
      <4>1. Hinted(q.topic, o)
        BY <1>5, <3>1, <3>3
      <4> QED
        BY <3>1, <4>1
    <3> QED
      BY <3>2, <3>3
  <2>2. CASE \E k \in 1..N : \E q \in ElementsOf(Parts(full, run.drafts[k])) : q.topic = t /\ o \in q.objects
    <3>0. PICK k \in 1..N : \E q \in ElementsOf(Parts(full, run.drafts[k])) : q.topic = t /\ o \in q.objects
      BY <2>2
    <3>1. PICK q \in ElementsOf(Parts(full, run.drafts[k])) : q.topic = t /\ o \in q.objects
      BY <3>0
    <3>2. CASE q \in ElementsOf(DynamicParts(run.drafts[k]))
      <4>1. k \in 1..N + 1 /\ o \in Ids(run.chunks[k]) /\ run.drafts[k] \in Draft /\ run.chunks[k] \in Seq(Item)
        BY <1>1, <1>8, <3>1, <3>2
      <4>2. p.passes[k] = Pass(run.chunks[k], run.drafts[k])
        BY <1>1
      <4>3. Seen(q.topic, o)
        <5> HIDE DEF Seen
        <5> QED
          BY <1>6, <3>1, <3>2, <4>1, <4>2
      <4> QED
        BY <3>1, <4>3
    <3>3. CASE q \notin ElementsOf(DynamicParts(run.drafts[k]))
      <4> HIDE DEF Hinted
      <4>1. Hinted(q.topic, o)
        BY <1>5, <1>8, <3>1, <3>3
      <4> QED
        BY <3>1, <4>1
    <3> QED
      BY <3>2, <3>3
  <2> QED
    BY <1>2, <1>9, <2>1, <2>2
<1>10. ASSUME NEW t \in DOMAIN p.issues, NEW o \in p.issues[t].objects PROVE Hinted(t, o) \/ Seen(t, o)
  <2>1. Holds(p.issues, t, o)
    BY DEF Holds
  <2> HIDE DEF Hinted, Seen
  <2> QED
    BY <1>9, <2>1
<1> QED
  BY <1>10 DEF PointsAtShown, p

LEMMA PlanPartitionsItsContract ==
  ASSUME RunShape, At("asked"), ~Local, NEW d \in Draft, Direct \/ CoverageComplete(PlanFor(d).coverage)
  PROVE  PartitionsItsContract(PlanFor(d))
<1> DEFINE p == PlanFor(d)
           N == Len(run.drafts)
           n == Len(p.passes)
           full == FullOf(run.contract, run.rules)
           items == Content[run.contract].items
           all == Pass(Content[p.contract].items, NoFile).objects
           shown == FlattenSeq([k \in 1..n - 1 |-> p.passes[k].objects])
<1>1. /\ N \in Nat /\ N = Len(run.chunks) /\ n = N + 1
      /\ \A k \in 1..N : p.passes[k] = Pass(run.chunks[k], run.drafts[k])
      /\ p.passes[N + 1] = Pass(full.items, d)
      /\ p.contract = run.contract
      /\ p.coverage = CoverageOf(full.items, IF Direct THEN <<full.items>> ELSE run.chunks, p.issues)
  BY PassesAre
<1>2. run.contract \in Contract /\ full.items = items /\ items \in Seq(Item)
  BY FullIsTyped, InputsAreTyped DEF RunShape, Asking, At
<1> HIDE DEF p
<1>3. all = IdsOf(items) /\ p.passes[n].objects = all
  BY <1>1, <1>2 DEF Pass, IdsOf
<1>4. n <= MaxPasses
  <2>1. MaxPasses \in Nat \ {0}
    BY LimitsArePositive
  <2>2. run.chunks = << >> => N = 0
    BY <1>1
  <2> QED
    BY <1>1, <2>1, <2>2 DEF RunShape
<1>5. ASSUME n > 1 PROVE shown = all
  <2>1. run.chunks # << >>
    BY <1>1, <1>5
  <2>2. run.chunks = Chunks(items)
    BY <2>1 DEF RunShape
  <2>3. run.chunks \in Seq(Seq(Item)) /\ FlattenSeq(run.chunks) = items
    BY <1>2, <2>2, ChunksCutTheItems
  <2>4. [k \in 1..n - 1 |-> p.passes[k].objects] = [k \in 1..Len(run.chunks) |-> IdsOf(run.chunks[k])]
    <3>1. n - 1 = Len(run.chunks) /\ n - 1 = N
      BY <1>1
    <3>2. ASSUME NEW k \in 1..N PROVE p.passes[k].objects = IdsOf(run.chunks[k])
      <4>1. p.passes[k] = Pass(run.chunks[k], run.drafts[k])
        BY <1>1
      <4> QED
        BY <4>1 DEF Pass, IdsOf
    <3> HIDE DEF n, N
    <3> QED
      BY <3>1, <3>2
  <2>5. shown = IdsOf(FlattenSeq(run.chunks))
    BY <2>3, <2>4, IdsOfFlattened
  <2> QED
    BY <1>3, <2>3, <2>5
<1>6. ASSUME NEW o \in Ids(items) PROVE p.coverage[o].chunks # {}
  <2>1. CASE Direct
    <3> DEFINE one == <<items>>
    <3>1. p.coverage[o].chunks = {k \in 1..Len(one) : o \in Ids(one[k])}
      BY <1>1, <1>2, <2>1 DEF CoverageOf
    <3>2. 1 \in 1..Len(one) /\ one[1] = items
      OBVIOUS
    <3> HIDE DEF one
    <3> QED
      BY <3>1, <3>2
  <2>2. CASE CoverageComplete(p.coverage)
    <3>1. o \in DOMAIN p.coverage
      BY <1>1, <1>2 DEF CoverageOf
    <3> QED
      BY <2>2, <3>1 DEF CoverageComplete
  <2> QED
    BY <2>1, <2>2 DEF p
<1>7. Ids(Content[p.contract].items) = Ids(items)
  BY <1>1
<1> HIDE DEF shown, all, n, items
<1>8. PartitionsItsContract(p)
  BY <1>3, <1>4, <1>5, <1>6, <1>7 DEF PartitionsItsContract, shown, all, n
<1> QED
  BY <1>8 DEF p

LEMMA PlanIsMade ==
  ASSUME RunShape, At("asked"), ~Local, NEW d \in Draft
  PROVE  Made(PlanFor(d))
<1> DEFINE p == PlanFor(d)
           N == Len(run.drafts)
           issues == p.issues
<1>1. /\ N \in Nat /\ Len(p.passes) = N + 1
      /\ \A k \in 1..N : p.passes[k] = Pass(run.chunks[k], run.drafts[k])
      /\ p.passes[N + 1] = Pass(FullOf(run.contract, run.rules).items, d)
      /\ p.contract = run.contract /\ p.rules = run.rules
  BY PassesAre
<1>2. issues \in Plans
  BY IssuesGather
<1> HIDE DEF p, issues
<1>3. p.contract \in Contract /\ p.rules \in Contract
  BY <1>1 DEF RunShape, Asking, At
<1>4. Answered(p) \subseteq Draft
  <2>1. ASSUME NEW k \in 1..N + 1 PROVE p.passes[k].answer \in Draft
    <3>1. CASE k \in 1..N
      <4>1. p.passes[k].answer = run.drafts[k]
        <5>1. p.passes[k] = Pass(run.chunks[k], run.drafts[k])
          BY <1>1, <3>1
        <5>2. Pass(run.chunks[k], run.drafts[k]).answer = run.drafts[k]
          BY DEF Pass
        <5> QED
          BY <5>1, <5>2
      <4>2. run.drafts[k] \in Draft
        BY <3>1, ChunksAreTyped
      <4> QED
        BY <4>1, <4>2
    <3>2. CASE k = N + 1
      BY <1>1, <3>2 DEF Pass
    <3> QED
      BY <1>1, <3>1, <3>2
  <2> QED
    BY <1>1, <2>1 DEF Answered
<1>5. DOMAIN issues \subseteq Topic /\ \A t \in DOMAIN issues : issues[t] \in Planned
  BY <1>2, PlansAreFunctions
<1> QED
  BY <1>3, <1>4, <1>5 DEF Made, p, issues

LEMMA PlanIsGood ==
  ASSUME RunShape, At("asked"), ~Local, NEW d \in Draft, UsableDraft(d), Direct \/ CoverageComplete(PlanFor(d).coverage)
  PROVE  Good(PlanFor(d)) /\ PlanFor(d).contract \in Contract /\ Len(run.drafts) = Len(run.chunks)
<1>1. PlanFor(d).contract = run.contract /\ Len(run.drafts) = Len(run.chunks)
  BY PassesAre
<1>2. run.contract \in Contract
  BY DEF RunShape, At
<1> QED
  BY <1>1, <1>2, PlanIsMade, PlanHoldsEveryFinding, PlanPointsAtShown, PlanPartitionsItsContract DEF Good

-----------------------------------------------------------------------------
(* The steps.                                                              *)

LEMMA IdleShape ==
  ASSUME run' = Idle
  PROVE  RunShape'
<1>1. run'.chunks = << >> /\ run'.drafts = << >> /\ run'.pc = "idle" /\ run'.contract = NoFile /\ run'.rules = NoFile
  BY DEF Idle
<1>2. Len(<< >>) = 0 /\ << >> \in Seq(Draft) /\ 1..0 = {}
  OBVIOUS
<1> QED
  BY <1>1, <1>2 DEF RunShape, At, Asking, ChunkOf, IsRun, Idle

LEMMA InitIInv == Init => IInv
<1> SUFFICES ASSUME Init PROVE IInv
  OBVIOUS
<1>1. run.chunks = << >> /\ run.drafts = << >> /\ run.pc = "idle" /\ run.contract = NoFile /\ run.rules = NoFile
  BY DEF Init, Idle
<1>2. Len(<< >>) = 0 /\ << >> \in Seq(Draft) /\ 1..0 = {}
  OBVIOUS
<1>3. RunShape
  BY <1>1, <1>2 DEF Init, RunShape, At, Asking, ChunkOf, IsRun, Idle
<1> QED
  BY <1>3 DEF Init, IInv

\* A run that only moves to another stage keeps its shape.
LEMMA MovedShape ==
  ASSUME RunShape, NEW pc \in {"rules", "again", "chunks", "pass", "asked"}, NEW c \in Contract, NEW r \in Contract \cup {NoFile},
         run' = [pc |-> pc, contract |-> c, rules |-> r, chunks |-> run.chunks, drafts |-> run.drafts, result |-> run.result],
         pc \in {"pass", "asked"} => r \in Contract,
         Direct \/ (c = run.contract /\ r = run.rules /\ pc \in {"pass", "asked"})
  PROVE  RunShape'
<1>1. /\ IsRun(run') /\ run'.pc = pc /\ run'.contract = c /\ run'.rules = r
      /\ run'.chunks = run.chunks /\ run'.drafts = run.drafts
  BY DEF IsRun
<1>2. \/ run.chunks = << >>
      \/ Asking' /\ run'.chunks = Chunks(Content[run'.contract].items) /\ Len(run'.chunks) + 1 <= MaxPasses
  BY <1>1 DEF RunShape, Asking, Direct
<1>3. \A k \in 1..Len(run'.drafts) : Valid(ChunkOf(k)', run'.drafts[k])
  <2>1. CASE run.chunks = << >>
    <3>1. Len(run.drafts) = 0
      BY <2>1, ChunksAreTyped DEF RunShape
    <3> QED
      BY <1>1, <3>1
  <2>2. CASE run.chunks # << >>
    <3>1. run'.contract = run.contract /\ run'.rules = run.rules
      BY <1>1, <2>2 DEF Direct
    <3> QED
      BY <1>1, <3>1 DEF RunShape, ChunkOf
  <2> QED
    BY <2>1, <2>2
<1> QED
  BY <1>1, <1>2, <1>3 DEF RunShape, Asking, At

LEMMA RunIs ==
  ASSUME RunShape
  PROVE  run = [pc |-> run.pc, contract |-> run.contract, rules |-> run.rules,
                chunks |-> run.chunks, drafts |-> run.drafts, result |-> run.result]
  BY DEF RunShape, IsRun

LEMMA NextIInv == IInv /\ [Next]_vars => IInv'
<1> SUFFICES ASSUME IInv, [Next]_vars PROVE IInv'
  OBVIOUS
<1> USE DEF At
<1>1. RunShape
  BY DEF IInv
<1>2. ASSUME UNCHANGED <<contract, rules, plan>>, RunShape' PROVE IInv'
  BY <1>2 DEF IInv
<1>3. ~Asking => run.chunks = << >>
  BY <1>1 DEF RunShape
<1>4. CASE ReadContract
  <2>1. run' = [pc |-> "rules", contract |-> contract, rules |-> NoFile, chunks |-> << >>, drafts |-> << >>, result |-> NoFile]
    BY <1>4 DEF ReadContract, Idle
  <2>2. contract \in Contract
    BY <1>4 DEF ReadContract, IInv
  <2>3. Len(<< >>) = 0 /\ << >> \in Seq(Draft) /\ 1..0 = {}
    OBVIOUS
  <2>4. RunShape'
    BY <2>1, <2>2, <2>3 DEF RunShape, Asking, ChunkOf, IsRun
  <2> QED
    BY <1>2, <1>4, <2>4 DEF ReadContract
<1>5. CASE ReadRules
  <2>1. rules \in Contract /\ run.contract \in Contract /\ run.chunks = << >> /\ run.rules \in Contract \cup {NoFile}
    BY <1>1, <1>3, <1>5 DEF ReadRules, IInv, RunShape, Asking
  <2>2. \/ run' = [pc |-> "again", contract |-> run.contract, rules |-> run.rules,
                   chunks |-> run.chunks, drafts |-> run.drafts, result |-> run.result]
        \/ run' = [pc |-> "pass", contract |-> run.contract, rules |-> rules,
                   chunks |-> run.chunks, drafts |-> run.drafts, result |-> run.result]
    BY <1>1, <1>5, RunIs DEF ReadRules
  <2>3. Direct
    BY <2>1 DEF Direct
  <2>4. RunShape'
    <3>1. CASE run' = [pc |-> "again", contract |-> run.contract, rules |-> run.rules,
                       chunks |-> run.chunks, drafts |-> run.drafts, result |-> run.result]
      BY <1>1, <2>1, <2>3, <3>1, MovedShape
    <3>2. CASE run' = [pc |-> "pass", contract |-> run.contract, rules |-> rules,
                       chunks |-> run.chunks, drafts |-> run.drafts, result |-> run.result]
      BY <1>1, <2>1, <2>3, <3>2, MovedShape
    <3> QED
      BY <2>2, <3>1, <3>2
  <2> QED
    BY <1>2, <1>5, <2>4 DEF ReadRules
<1>6. CASE ReadContractAgain
  <2>1. contract \in Contract /\ run.chunks = << >> /\ run.rules \in Contract \cup {NoFile}
    BY <1>1, <1>3, <1>6 DEF ReadContractAgain, IInv, RunShape, Asking
  <2>2. run' = [pc |-> "chunks", contract |-> contract, rules |-> run.rules,
                chunks |-> run.chunks, drafts |-> run.drafts, result |-> run.result]
    BY <1>1, <1>6, RunIs DEF ReadContractAgain
  <2>3. Direct
    BY <2>1 DEF Direct
  <2>4. RunShape'
    BY <1>1, <2>1, <2>2, <2>3, MovedShape
  <2> QED
    BY <1>2, <1>6, <2>4 DEF ReadContractAgain
<1>7. CASE CutChunks
  <2> DEFINE chunks == Chunks(Content[run.contract].items)
  <2>1. rules \in Contract /\ run.contract \in Contract /\ run.chunks = << >>
    BY <1>1, <1>3, <1>7 DEF CutChunks, IInv, RunShape, Asking
  <2>2. run' = [pc |-> "pass", contract |-> run.contract, rules |-> rules,
                chunks |-> chunks, drafts |-> run.drafts, result |-> run.result]
    <3> HIDE DEF chunks
    <3> QED
      BY <1>1, <1>7, RunIs DEF CutChunks, chunks
  <2>3. Len(chunks) \in Nat /\ Len(chunks) + 1 <= MaxPasses
    <3>1. chunks \in Seq(Seq(Item))
      BY <2>1, InputsAreTyped, ChunksCutTheItems
    <3>2. ~(Len(chunks) + 1 > MaxPasses)
      BY <1>7 DEF CutChunks, Unplannable
    <3>3. Len(chunks) \in Nat
      BY <3>1, LenProperties
    <3> QED
      BY <3>2, <3>3, LimitsArePositive
  <2>4. Len(run.drafts) = 0 /\ run.drafts \in Seq(Draft)
    BY <1>1, <2>1, ChunksAreTyped DEF RunShape
  <2>5. /\ IsRun(run') /\ run'.pc = "pass" /\ run'.contract = run.contract /\ run'.rules = rules
        /\ run'.chunks = chunks /\ run'.drafts = run.drafts
    BY <2>2 DEF IsRun
  <2>6. RunShape'
    <3> HIDE DEF chunks
    <3>1. 1..0 = {} /\ 0 <= Len(chunks)
      BY <2>3
    <3>2. run'.chunks = Chunks(Content[run'.contract].items)
      BY <2>5 DEF chunks
    <3> QED
      BY <2>1, <2>3, <2>4, <2>5, <3>1, <3>2 DEF RunShape, Asking
  <2> QED
    BY <1>2, <1>7, <2>6 DEF CutChunks
<1>8. CASE CannotStart \/ NotAsked \/ NoAnswer
  BY <1>2, <1>8, IdleShape DEF CannotStart, NotAsked, NoAnswer, Fail
<1>9. CASE Ask
  <2>1. /\ run.contract \in Contract /\ run.rules \in Contract
    BY <1>1, <1>9 DEF Ask, RunShape, Asking
  <2>2. run' = [pc |-> "asked", contract |-> run.contract, rules |-> run.rules,
                chunks |-> run.chunks, drafts |-> run.drafts, result |-> run.result]
    BY <1>1, <1>9, RunIs DEF Ask, Goto
  <2>3. RunShape'
    BY <1>1, <2>1, <2>2, MovedShape
  <2> QED
    BY <1>2, <1>9, <2>3 DEF Ask
<1>10. ASSUME NEW d \in Draft, AnswerChunk(d) PROVE IInv'
  <2> DEFINE N == Len(run.drafts)
             drafts == Append(run.drafts, d)
  <2>1. /\ run.contract \in Contract /\ run.rules \in Contract /\ N \in Nat
        /\ Len(run.chunks) \in Nat /\ N < Len(run.chunks) /\ run.chunks # << >>
    <3>1. N \in Nat /\ Len(run.chunks) \in Nat /\ N < Len(run.chunks)
      BY <1>1, <1>10, ChunksAreTyped DEF AnswerChunk, Local
    <3>2. run.chunks # << >>
      BY <3>1
    <3> QED
      BY <1>1, <1>10, <3>1, <3>2 DEF AnswerChunk, RunShape, Asking
  <2>2. run' = [pc |-> "pass", contract |-> run.contract, rules |-> run.rules,
                chunks |-> run.chunks, drafts |-> drafts, result |-> run.result]
    <3> HIDE DEF drafts
    <3> QED
      BY <1>1, <1>10, RunIs DEF AnswerChunk, drafts
  <2>3. /\ IsRun(run') /\ run'.pc = "pass" /\ run'.contract = run.contract /\ run'.rules = run.rules
        /\ run'.chunks = run.chunks /\ run'.drafts = drafts
    BY <2>2 DEF IsRun
  <2>4. /\ drafts \in Seq(Draft) /\ Len(drafts) = N + 1
        /\ \A k \in 1..N : drafts[k] = run.drafts[k]
        /\ drafts[N + 1] = d
    BY <1>1, AppendProperties DEF RunShape
  <2>5. Valid(ChunkOf(N + 1), d)
    BY <1>10, <2>1 DEF AnswerChunk, UsableDraft, Input, Direct, Local, ChunkOf
  <2> HIDE DEF drafts
  <2>6. ASSUME NEW k \in 1..N + 1 PROVE Valid(ChunkOf(k)', drafts[k])
    <3>1. ChunkOf(k)' = ChunkOf(k)
      BY <2>3 DEF ChunkOf
    <3>2. CASE k = N + 1
      BY <2>4, <2>5, <3>1, <3>2
    <3>3. CASE k # N + 1
      <4>1. k \in 1..N
        BY <2>1, <3>3
      <4>2. Valid(ChunkOf(k), run.drafts[k])
        BY <1>1, <4>1 DEF RunShape
      <4> QED
        BY <2>4, <3>1, <4>1, <4>2
    <3> QED
      BY <3>2, <3>3
  <2>7. run.chunks = Chunks(Content[run.contract].items) /\ Len(run.chunks) + 1 <= MaxPasses
    BY <1>1, <2>1 DEF RunShape
  <2>8. N + 1 <= Len(run.chunks)
    BY <2>1
  <2>9. RunShape'
    <3> HIDE DEF N
    <3>1. Asking' /\ ~At("write")'
      BY <2>3 DEF Asking
    <3>2. run'.drafts \in Seq(Draft) /\ Len(run'.drafts) <= Len(run'.chunks)
      BY <2>3, <2>4, <2>8
    <3>3. \A k \in 1..Len(run'.drafts) : Valid(ChunkOf(k)', run'.drafts[k])
      BY <2>3, <2>4, <2>6
    <3> QED
      BY <2>1, <2>3, <2>7, <3>1, <3>2, <3>3 DEF RunShape
  <2> QED
    BY <1>2, <1>10, <2>9 DEF AnswerChunk
<1>11. ASSUME NEW d \in Draft, AnswerLast(d) PROVE IInv'
  <2> DEFINE made == PlanFor(d)
  <2>1. Good(made) /\ made.contract \in Contract /\ Len(run.drafts) = Len(run.chunks)
    BY <1>1, <1>11, PlanIsGood DEF AnswerLast
  <2> HIDE DEF made
  <2>2. run' = [pc |-> "write", contract |-> run.contract, rules |-> run.rules,
                chunks |-> run.chunks, drafts |-> run.drafts, result |-> made]
    BY <1>1, <1>11, RunIs DEF AnswerLast, made
  <2>3. /\ IsRun(run') /\ run'.pc = "write" /\ run'.contract = run.contract /\ run'.rules = run.rules
        /\ run'.chunks = run.chunks /\ run'.drafts = run.drafts /\ run'.result = made
    BY <2>2 DEF IsRun
  <2>4. \A k : ChunkOf(k)' = ChunkOf(k)
    BY <2>3 DEF ChunkOf
  <2>5. Asking /\ Asking'
    BY <1>11, <2>3 DEF AnswerLast, Asking
  <2>6. RunShape'
    <3>1. \A k \in 1..Len(run'.drafts) : Valid(ChunkOf(k)', run'.drafts[k])
      BY <1>1, <2>3, <2>4 DEF RunShape
    <3>2. \/ run'.chunks = << >>
          \/ Asking' /\ run'.chunks = Chunks(Content[run'.contract].items) /\ Len(run'.chunks) + 1 <= MaxPasses
      <4>1. \/ run.chunks = << >>
            \/ run.chunks = Chunks(Content[run.contract].items) /\ Len(run.chunks) + 1 <= MaxPasses
        BY <1>1 DEF RunShape
      <4> QED
        BY <2>3, <2>5, <4>1
    <3>3. run.contract \in Contract /\ run.rules \in Contract /\ run.drafts \in Seq(Draft) /\ Len(run.drafts) <= Len(run.chunks)
      BY <1>1, <2>5, <1>11 DEF RunShape, Asking, AnswerLast
    <3> QED
      BY <2>1, <2>3, <2>5, <3>1, <3>2, <3>3 DEF RunShape
  <2> QED
    BY <1>2, <1>11, <2>6 DEF AnswerLast
<1>12. CASE Write
  <2>1. RunShape'
    BY <1>12, IdleShape DEF Write
  <2>2. Good(plan')
    BY <1>1, <1>12 DEF Write, RunShape
  <2> QED
    BY <1>12, <2>1, <2>2 DEF Write, IInv
<1>13. CASE Rebuild \/ Recheck
  <2>1. RunShape'
    BY <1>1, <1>13 DEF Rebuild, Recheck, RunShape, Asking, ChunkOf
  <2> QED
    BY <1>13, <2>1 DEF Rebuild, Recheck, IInv
<1>14. CASE UNCHANGED vars
  <2>1. RunShape'
    BY <1>1, <1>14 DEF vars, RunShape, Asking, ChunkOf
  <2> QED
    BY <1>2, <1>14, <2>1 DEF vars
<1> QED
  BY <1>4, <1>5, <1>6, <1>7, <1>8, <1>9, <1>10, <1>11, <1>12, <1>13, <1>14 DEF Next

LEMMA SpecIInv == Spec => []IInv
  BY InitIInv, NextIInv, PTL DEF Spec

-----------------------------------------------------------------------------
(* The theorems.                                                           *)

\* Files, plans and the run are of their kind, and a run holds what its place asks for.
THEOREM PlannerTypeCorrect == Spec => []TypeOK
<1>1. IInv => TypeOK
  BY DEF IInv, RunShape, Asking, At, Good, TypeOK
<1> QED
  BY <1>1, SpecIInv, PTL

\* Nothing a plan was made from is lost: the checklist, every hint and every issue of
\* every pass are in the plan, with their objects and at least their priority.
THEOREM FindingsArePlanned == Spec => []EveryFindingIsPlanned
<1>1. IInv => EveryFindingIsPlanned
  BY DEF IInv, Good, EveryFindingIsPlanned
<1> QED
  BY <1>1, SpecIInv, PTL

\* An issue of a plan points at an object only when a hint did or a pass that was shown
\* the object named it.
THEOREM IssuesStayInTheirPass == Spec => []IssuesPointAtShownObjects
<1>1. IInv => IssuesPointAtShownObjects
  BY DEF IInv, Good, IssuesPointAtShownObjects
<1> QED
  BY <1>1, SpecIInv, PTL

\* The passes of a plan cut its contract into consecutive pieces, within the bound.
THEOREM PassesCutTheContract == Spec => []PassesPartitionTheContract
<1>1. IInv => PassesPartitionTheContract
  BY DEF IInv, Good, PassesPartitionTheContract
<1> QED
  BY <1>1, SpecIInv, PTL

(***************************************************************************)
(* The files and the threads of a job.                                     *)
(***************************************************************************)

\* What a file may hold: the pages of the job's document, an OCR result of them, a
\* contract of such a result, the verdicts on such a contract.
IsContract(c) ==
  \E pages \in OcrResults(source.pages) :
    AllRead(source.pages, pages) /\ c = ContractOf(source.pages, pages)
Fits(file, x) ==
  \/ file \in {"document", "evidence"} /\ x = source.pages
  \/ /\ file = "ocr"
     /\ \E pages \in OcrResults(source.pages), status \in {"failed", "partial", "complete"} :
          x = [status |-> status, pages |-> pages]
  \/ file = "contract" /\ IsContract(x)
  \/ file = "rules" /\ IsContract(x.contract) /\ x = [contract |-> x.contract, results |-> Evaluate(x.contract)]

\* What a thread may have to write: both files of the inspection, or one file.
Both == <<Into("document", source.pages), Into("evidence", source.pages)>>
Single(ws) ==
  /\ ws # << >>
  /\ LET w == ws[1]
     IN ws = <<w>> /\ w = Into(w.file, w.content) /\ w.file \in File \ {"document"} /\ Fits(w.file, w.content)
Storing(t) == thread[t].writes = Both \/ (Single(thread[t].writes) /\ thread[t].writes[1].file = "evidence")
Deriving(t) == Single(thread[t].writes) /\ thread[t].writes[1].file # "evidence"

ThreadsAreRecords ==
  /\ DOMAIN thread = Thread
  /\ \A t \in Thread :
       /\ thread[t] = [writes |-> thread[t].writes, open |-> thread[t].open]
       /\ thread[t].open \in BOOLEAN
FilesAreKnown == DOMAIN files = File

\* Before the upload is complete there is nothing but, perhaps, the one upload.
BeforeTheUpload ==
  /\ \A f \in File : files[f] = None
  /\ \A t \in Thread : thread[t] \in {Rest, Receiving}
  /\ \A t \in Thread : thread[t] = Receiving => source = Torn /\ \A s \in Thread \ {t} : thread[s] = Rest

\* Afterwards the inspection, if it runs, runs alone, and what is derived comes after it.
AfterTheUpload ==
  /\ \A t \in Thread : thread[t] = Rest \/ Storing(t) \/ Deriving(t)
  /\ \A t \in Thread : Storing(t) => ~Readable("evidence") /\ \A s \in Thread \ {t} : thread[s] = Rest
  /\ \A t \in Thread : Deriving(t) => Inspected /\ (thread[t].writes[1].file = "rules" => files.contract # None)
  /\ \A f \in File : Readable(f) => Fits(f, files[f])
  /\ \A f \in {"ocr", "contract", "rules"} : files[f] # None => Inspected
  /\ files.rules # None => files.contract # None

LocalIInv ==
  /\ ThreadsAreRecords /\ FilesAreKnown
  /\ source \in Document \cup {None, Torn}
  /\ IF source \in Document THEN AfterTheUpload ELSE BeforeTheUpload

LEMMA TextsAreNoMarks ==
  ASSUME source \in Document
  PROVE  /\ None # Torn /\ source \notin {None, Torn} /\ source.pages \notin {None, Torn}
         /\ \A c : IsContract(c) => c \notin {None, Torn}
<1>1. \A c : IsContract(c) => c \notin {None, Torn}
  BY MarksAreNoTexts DEF IsContract
<1> QED
  BY <1>1, MarksAreNoTexts

LEMMA MarksDiffer == None # Torn /\ None \notin Document /\ Torn \notin Document
  BY MarksAreNoTexts

\* Taking the next write.
LEMMA NextWrite ==
  ASSUME NEW w, NEW v
  PROVE  /\ Head(<<w>>) = w /\ Tail(<<w>>) = << >> /\ <<w>> # << >> /\ <<w>>[1] = w
         /\ Head(<<w, v>>) = w /\ Tail(<<w, v>>) = <<v>> /\ <<w, v>> # << >> /\ <<w>> # <<w, v>>
  OBVIOUS

LEMMA WriteIs ==
  ASSUME NEW file, NEW content
  PROVE  Into(file, content).file = file /\ Into(file, content).content = content
  BY DEF Into

\* A thread that is to write one file.
LEMMA SingleIs ==
  ASSUME NEW file \in File \ {"document"}, NEW content, Fits(file, content)
  PROVE  /\ Single(<<Into(file, content)>>) /\ <<Into(file, content)>>[1].file = file
  BY WriteIs, NextWrite DEF Single

LEMMA StoringIs ==
  ASSUME NEW t, Storing(t)
  PROVE  /\ thread[t].writes # << >> /\ Head(thread[t].writes).content = source.pages
         /\ Head(thread[t].writes).file \in {"document", "evidence"}
         /\ \/ Head(thread[t].writes).file = "evidence" /\ Tail(thread[t].writes) = << >>
            \/ Tail(thread[t].writes) = <<Into("evidence", source.pages)>> /\ Head(thread[t].writes).file = "document"
<1>1. CASE thread[t].writes = Both
  BY <1>1, NextWrite, WriteIs DEF Both
<1>2. CASE Single(thread[t].writes) /\ thread[t].writes[1].file = "evidence"
  <2> DEFINE w == thread[t].writes[1]
  <2>1. thread[t].writes = <<w>> /\ w.file = "evidence" /\ Fits(w.file, w.content)
    BY <1>2 DEF Single
  <2>2. w.content = source.pages
    BY <2>1 DEF Fits
  <2> HIDE DEF w
  <2> QED
    BY <2>1, <2>2, NextWrite
<1> QED
  BY <1>1, <1>2 DEF Storing

LEMMA DerivingIs ==
  ASSUME NEW t, Deriving(t)
  PROVE  /\ thread[t].writes # << >> /\ Tail(thread[t].writes) = << >>
         /\ Head(thread[t].writes).file \in {"ocr", "contract", "rules"}
         /\ Head(thread[t].writes).file = thread[t].writes[1].file
         /\ Fits(Head(thread[t].writes).file, Head(thread[t].writes).content)
<1> DEFINE w == thread[t].writes[1]
<1>1. thread[t].writes = <<w>> /\ w.file \in File \ {"document"} /\ Fits(w.file, w.content) /\ w.file # "evidence"
  BY DEF Deriving, Single
<1>2. w.file \in {"ocr", "contract", "rules"}
  BY <1>1 DEF File
<1>3. /\ thread[t].writes # << >> /\ Tail(thread[t].writes) = << >> /\ Head(thread[t].writes) = w
  <2> HIDE DEF w
  <2> QED
    BY <1>1, NextWrite
<1> QED
  BY <1>1, <1>2, <1>3

LEMMA RestIs ==
  Rest.writes = << >> /\ Rest.open = FALSE /\ Receiving.writes = << >> /\ Receiving.open = TRUE /\ Rest # Receiving
  BY DEF Rest, Receiving

LEMMA BeforeIsEmpty ==
  ASSUME LocalIInv, source \notin Document
  PROVE  (\A t \in Thread : thread[t].writes = << >>) /\ \A f \in File : ~Readable(f)
<1>1. BeforeTheUpload
  BY DEF LocalIInv
<1> QED
  BY <1>1, RestIs DEF BeforeTheUpload, Readable

\* What an inspected document is.
LEMMA InspectedIs ==
  ASSUME LocalIInv, Inspected
  PROVE  source \in Document /\ AfterTheUpload /\ Doc = source.pages
<1>2. source \in Document
  BY BeforeIsEmpty DEF Inspected, File
<1>3. AfterTheUpload /\ "document" \in File
  BY <1>2 DEF LocalIInv, File
<1>4. Fits("document", files["document"])
  BY <1>3 DEF AfterTheUpload, Inspected
<1> QED
  BY <1>2, <1>3, <1>4 DEF Fits, Doc

\* The thread functions after a step.
LEMMA ThreadAfter ==
  ASSUME ThreadsAreRecords, NEW t \in Thread, NEW ws, NEW b \in BOOLEAN,
         thread' = [thread EXCEPT ![t] = [writes |-> ws, open |-> b]]
  PROVE  /\ ThreadsAreRecords'
         /\ thread'[t] = [writes |-> ws, open |-> b]
         /\ \A s \in Thread \ {t} : thread'[s] = thread[s]
  BY DEF ThreadsAreRecords

LEMMA StartUploadKeeps ==
  ASSUME LocalIInv, NEW t \in Thread, StartUpload(t)
  PROVE  LocalIInv'
<1>1. source = None /\ source' = Torn /\ files' = files /\ Resting(t) /\ \A f \in File : files[f] = None
  BY DEF StartUpload, NewJob
<1>2. source \notin Document /\ source' \notin Document
  BY <1>1, MarksDiffer
<1>3. BeforeTheUpload /\ ThreadsAreRecords /\ FilesAreKnown
  BY <1>2 DEF LocalIInv
<1>4. /\ ThreadsAreRecords' /\ thread'[t] = Receiving /\ \A s \in Thread \ {t} : thread'[s] = thread[s]
  BY <1>3, ThreadAfter DEF StartUpload, Receiving
<1>5. \A s \in Thread \ {t} : thread[s] = Rest
  BY <1>1, <1>3, MarksDiffer DEF BeforeTheUpload
<1>6. BeforeTheUpload'
  BY <1>1, <1>3, <1>4, <1>5, RestIs DEF BeforeTheUpload
<1> QED
  BY <1>1, <1>2, <1>3, <1>4, <1>6 DEF LocalIInv, FilesAreKnown

LEMMA DropUploadKeeps ==
  ASSUME LocalIInv, NEW t \in Thread, DropUpload(t)
  PROVE  LocalIInv'
<1>1. thread[t] = Receiving /\ source' = None /\ files' = files
  BY DEF DropUpload
<1>2. source \notin Document
  <2> SUFFICES ASSUME source \in Document PROVE FALSE
    OBVIOUS
  <2>1. thread[t].writes # << >>
    BY <1>1, RestIs, StoringIs, DerivingIs DEF LocalIInv, AfterTheUpload
  <2> QED
    BY <1>1, <2>1, RestIs
<1>3. BeforeTheUpload /\ ThreadsAreRecords /\ FilesAreKnown
  BY <1>2 DEF LocalIInv
<1>4. ThreadsAreRecords' /\ thread'[t] = Rest /\ \A s \in Thread \ {t} : thread'[s] = thread[s]
  BY <1>3, ThreadAfter DEF DropUpload, Rest
<1>5. BeforeTheUpload'
  BY <1>1, <1>3, <1>4, RestIs DEF BeforeTheUpload
<1> QED
  BY <1>1, <1>3, <1>4, <1>5, MarksDiffer DEF LocalIInv, FilesAreKnown

LEMMA StoreKeeps ==
  ASSUME LocalIInv, NEW t \in Thread, NEW d \in Document, Store(t, d)
  PROVE  LocalIInv'
<1>1. thread[t] = Receiving /\ source' = d /\ files' = files
  BY DEF Store
<1>2. source \notin Document
  <2> SUFFICES ASSUME source \in Document PROVE FALSE
    OBVIOUS
  <2>1. thread[t].writes # << >>
    BY <1>1, RestIs, StoringIs, DerivingIs DEF LocalIInv, AfterTheUpload
  <2> QED
    BY <1>1, <2>1, RestIs
<1>3. BeforeTheUpload /\ ThreadsAreRecords /\ FilesAreKnown
  BY <1>2 DEF LocalIInv
<1>4. PICK ws \in {<< >>, Both'} : thread' = [thread EXCEPT ![t] = [writes |-> ws, open |-> FALSE]]
  BY <1>1 DEF Store, Schedule, Both
<1>5. /\ ThreadsAreRecords' /\ thread'[t] = [writes |-> ws, open |-> FALSE]
      /\ \A s \in Thread \ {t} : thread'[s] = thread[s]
  BY <1>3, <1>4, ThreadAfter
<1>6. \A s \in Thread \ {t} : thread'[s] = Rest
  BY <1>1, <1>3, <1>5 DEF BeforeTheUpload
<1>7. thread'[t] = Rest \/ Storing(t)'
  <2>1. CASE ws = << >>
    BY <1>5, <2>1 DEF Rest
  <2>2. CASE ws = Both'
    BY <1>5, <2>2 DEF Storing
  <2> QED
    BY <1>4, <2>1, <2>2
<1>8. AfterTheUpload'
  <2>1. \A f \in File : files'[f] = None
    BY <1>1, <1>3 DEF BeforeTheUpload
  <2>2. {"ocr", "contract", "rules", "evidence"} \subseteq File
    BY DEF File
  <2>3. \A s \in Thread : ~Deriving(s)'
    <3>1. \A s \in Thread : thread'[s].writes \in {<< >>, Both'}
      BY <1>5, <1>6, RestIs
    <3>2. ASSUME NEW s \in Thread, Deriving(s)' PROVE FALSE
      <4>1. thread'[s].writes # << >> /\ thread'[s].writes = <<thread'[s].writes[1]>>
        BY <3>2 DEF Deriving, Single
      <4>2. thread'[s].writes = Both'
        BY <3>1, <4>1
      <4> QED
        BY <4>1, <4>2 DEF Both
    <3> QED
      BY <3>2
  <2>4. \A s \in Thread : Storing(s)' => s = t
    <3>1. ASSUME NEW s \in Thread, s # t, Storing(s)' PROVE FALSE
      <4>1. thread'[s].writes = << >>
        BY <1>6, <3>1, RestIs
      <4> QED
        BY <3>1, <4>1 DEF Storing, Single, Both
    <3> QED
      BY <3>1
  <2> QED
    BY <1>6, <1>7, <2>1, <2>2, <2>3, <2>4 DEF AfterTheUpload, Readable
<1> QED
  BY <1>1, <1>3, <1>5, <1>8 DEF LocalIInv, FilesAreKnown

\* A thread at rest that starts to derive a file.
LEMMA DeriveKeeps ==
  ASSUME LocalIInv, Inspected, UNCHANGED <<source, files>>,
         NEW t \in Thread, Resting(t),
         NEW file \in {"ocr", "contract", "rules"}, NEW content, Fits(file, content),
         file = "rules" => files.contract # None,
         Schedule(t, <<Into(file, content)>>)
  PROVE  LocalIInv'
<1>1. source \in Document /\ AfterTheUpload /\ ThreadsAreRecords /\ FilesAreKnown
  BY InspectedIs DEF LocalIInv
<1>2. /\ ThreadsAreRecords' /\ thread'[t] = [writes |-> <<Into(file, content)>>, open |-> FALSE]
      /\ \A s \in Thread \ {t} : thread'[s] = thread[s]
  BY <1>1, ThreadAfter DEF Schedule
<1>3. \A s \in Thread : ~Storing(s)
  BY <1>1 DEF AfterTheUpload, Inspected
<1>4. Both' = Both /\ \A f, x : Fits(f, x)' = Fits(f, x)
  BY DEF Both, Fits, IsContract
<1>5. \A s \in Thread \ {t} : Storing(s)' = Storing(s) /\ Deriving(s)' = Deriving(s)
  BY <1>2, <1>4 DEF Storing, Deriving, Single
<1>6. Deriving(t)' /\ thread'[t].writes[1].file = file /\ ~Storing(t)'
  <2> DEFINE ws == <<Into(file, content)>>
  <2>1. Single(ws) /\ ws[1].file = file /\ file # "evidence"
    BY SingleIs DEF File
  <2>2. thread'[t].writes = ws
    BY <1>2
  <2>3. ws # Both'
    BY NextWrite DEF Both
  <2>4. Single(ws)'
    BY <1>4, <2>1 DEF Single
  <2> HIDE DEF ws
  <2>5. Single(thread[t].writes)'
    BY <1>4, <2>1, <2>2 DEF Single
  <2> QED
    BY <2>1, <2>2, <2>3, <2>5 DEF Deriving, Storing
<1>7. Inspected' = Inspected /\ \A f : Readable(f)' = Readable(f)
  BY DEF Inspected, Readable
<1>8. AfterTheUpload'
  <2>1. \A s \in Thread : thread'[s] = Rest \/ Storing(s)' \/ Deriving(s)'
    BY <1>1, <1>2, <1>5, <1>6 DEF AfterTheUpload
  <2>2. \A s \in Thread : ~Storing(s)'
    BY <1>3, <1>5, <1>6
  <2>3. \A s \in Thread : Deriving(s)' /\ thread'[s].writes[1].file = "rules" => files.contract # None
    BY <1>1, <1>2, <1>5, <1>6 DEF AfterTheUpload
  <2>4. \A f \in File : Readable(f)' => Fits(f, files[f])'
    BY <1>1, <1>4, <1>7 DEF AfterTheUpload
  <2> QED
    BY <1>1, <1>7, <2>1, <2>2, <2>3, <2>4 DEF AfterTheUpload
<1> QED
  BY <1>1, <1>2, <1>8 DEF LocalIInv, FilesAreKnown

LEMMA StatusIs == \A pages : Status(pages) \in {"failed", "partial", "complete"}
  BY DEF Status

LEMMA RunOcrKeeps ==
  ASSUME LocalIInv, NEW t \in Thread, RunOcr(t)
  PROVE  LocalIInv'
<1>1. Inspected /\ Resting(t) /\ UNCHANGED <<source, files>>
  BY DEF RunOcr
<1>2. PICK pages \in OcrResults(Doc) : Schedule(t, <<Into("ocr", [status |-> Status(pages), pages |-> pages])>>)
  BY DEF RunOcr
<1>3. Fits("ocr", [status |-> Status(pages), pages |-> pages])
  BY <1>1, <1>2, InspectedIs, StatusIs DEF Fits
<1> QED
  BY <1>1, <1>2, <1>3, DeriveKeeps

\* A document without scanned pages needs no OCR result.
LEMMA NothingToRead ==
  ASSUME NEW doc, Scanned(doc) = {}
  PROVE  << >> \in OcrResults(doc) /\ AllRead(doc, << >>)
<1>1. << >> \in [{} -> {}]
  OBVIOUS
<1> QED
  BY <1>1 DEF OcrResults, AllRead

LEMMA BuildStructureKeeps ==
  ASSUME LocalIInv, NEW t \in Thread, BuildStructure(t)
  PROVE  LocalIInv'
<1> DEFINE pages == IF Scanned(Doc) = {} THEN << >> ELSE files.ocr.pages
<1>1. Inspected /\ OcrReady /\ Resting(t) /\ UNCHANGED <<source, files>> /\ Schedule(t, <<Into("contract", ContractOf(Doc, pages))>>)
  BY DEF BuildStructure
<1>2. source \in Document /\ AfterTheUpload /\ Doc = source.pages
  BY <1>1, InspectedIs
<1>3. pages \in OcrResults(Doc) /\ AllRead(Doc, pages)
  <2>1. CASE Scanned(Doc) = {}
    BY <2>1, NothingToRead
  <2>2. CASE Scanned(Doc) # {}
    <3>1. Readable("ocr") /\ AllRead(Doc, files.ocr.pages) /\ "ocr" \in File
      BY <1>1, <2>2 DEF OcrReady, File
    <3>2. Fits("ocr", files["ocr"])
      BY <1>2, <3>1 DEF AfterTheUpload
    <3>3. PICK r \in OcrResults(source.pages), status \in {"failed", "partial", "complete"} :
            files["ocr"] = [status |-> status, pages |-> r]
      BY <3>2 DEF Fits
    <3>4. files.ocr.pages \in OcrResults(source.pages)
      BY <3>3
    <3> QED
      BY <1>2, <2>2, <3>1, <3>4
  <2> QED
    BY <2>1, <2>2
<1> HIDE DEF pages
<1>4. Fits("contract", ContractOf(Doc, pages))
  BY <1>2, <1>3 DEF Fits, IsContract
<1> QED
  BY <1>1, <1>4, DeriveKeeps

LEMMA RunRulesKeeps ==
  ASSUME LocalIInv, NEW t \in Thread, RunRules(t)
  PROVE  LocalIInv'
<1> DEFINE result == [contract |-> files.contract, results |-> Evaluate(files.contract)]
<1>1. Readable("contract") /\ Resting(t) /\ UNCHANGED <<source, files>> /\ Schedule(t, <<Into("rules", result)>>)
  BY DEF RunRules
<1>2. source \in Document
  BY <1>1, BeforeIsEmpty DEF File
<1>3. AfterTheUpload /\ "contract" \in File
  BY <1>2 DEF LocalIInv, File
<1>4. Fits("contract", files["contract"]) /\ files.contract # None
  BY <1>1, <1>3 DEF AfterTheUpload, Readable
<1>5. Inspected
  BY <1>3, <1>4 DEF AfterTheUpload
<1>6. Fits("rules", result)
  BY <1>4 DEF Fits
<1> HIDE DEF result
<1> QED
  BY <1>1, <1>4, <1>5, <1>6, DeriveKeeps

LEMMA ExitKeeps ==
  ASSUME LocalIInv, Exit
  PROVE  LocalIInv'
<1>1. UNCHANGED <<source, files>> /\ thread' = [t \in Thread |-> Rest]
  BY DEF Exit
<1>2. ThreadsAreRecords' /\ \A t \in Thread : thread'[t] = Rest
  BY <1>1 DEF ThreadsAreRecords, Rest
<1>3. \A t \in Thread : thread'[t].writes = << >> /\ ~Storing(t)' /\ ~Deriving(t)'
  BY <1>2, RestIs DEF Storing, Deriving, Single, Both
<1>4. CASE source \in Document
  <2>1. AfterTheUpload
    BY <1>4 DEF LocalIInv
  <2>2. \A f, x : Fits(f, x)' = Fits(f, x)
    BY <1>1 DEF Fits, IsContract
  <2>3. AfterTheUpload'
    BY <1>1, <1>2, <1>3, <2>1, <2>2 DEF AfterTheUpload, Inspected, Readable
  <2> QED
    BY <1>1, <1>2, <1>4, <2>3 DEF LocalIInv, FilesAreKnown
<1>5. CASE source \notin Document
  <2>1. BeforeTheUpload
    BY <1>5 DEF LocalIInv
  <2>2. BeforeTheUpload'
    BY <1>1, <1>2, <2>1, RestIs DEF BeforeTheUpload
  <2> QED
    BY <1>1, <1>2, <1>5, <2>2 DEF LocalIInv, FilesAreKnown
<1> QED
  BY <1>4, <1>5

LEMMA RecordOpened ==
  ASSUME NEW ws, NEW b
  PROVE  [[writes |-> ws, open |-> b] EXCEPT !.open = TRUE] = [writes |-> ws, open |-> TRUE]
<1> SUFFICES ASSUME NEW s, s = [[writes |-> ws, open |-> b] EXCEPT !.open = TRUE]
             PROVE  s = [writes |-> ws, open |-> TRUE]
  OBVIOUS
<1> QED
  OBVIOUS

LEMMA OpenFileKeeps ==
  ASSUME LocalIInv, NEW t \in Thread, OpenFile(t)
  PROVE  LocalIInv'
<1> DEFINE w == Head(thread[t].writes)
<1>1. /\ thread[t].writes # << >> /\ source' = source
      /\ files' = [files EXCEPT ![w.file] = Torn] /\ thread' = [thread EXCEPT ![t].open = TRUE]
  BY DEF OpenFile
<1>2. source \in Document
  BY <1>1, BeforeIsEmpty DEF LocalIInv
<1>3. AfterTheUpload /\ ThreadsAreRecords /\ FilesAreKnown
  BY <1>2 DEF LocalIInv
<1>4. /\ ThreadsAreRecords' /\ thread'[t] = [writes |-> thread[t].writes, open |-> TRUE]
      /\ \A s \in Thread \ {t} : thread'[s] = thread[s]
  <2>1. thread' = [thread EXCEPT ![t] = [writes |-> thread[t].writes, open |-> TRUE]]
    <3> DEFINE r == [writes |-> thread[t].writes, open |-> thread[t].open]
    <3>1. thread[t] = r
      BY <1>3 DEF ThreadsAreRecords
    <3>2. [r EXCEPT !.open = TRUE] = [writes |-> thread[t].writes, open |-> TRUE]
      BY RecordOpened
    <3> HIDE DEF r
    <3>3. thread' = [thread EXCEPT ![t] = [thread[t] EXCEPT !.open = TRUE]]
      BY <1>1
    <3> QED
      BY <3>1, <3>2, <3>3
  <2> QED
    BY <1>3, <2>1, ThreadAfter
<1>5. \A f, x : Fits(f, x)' = Fits(f, x)
  BY <1>1 DEF Fits, IsContract
<1>6. \A s \in Thread : thread'[s].writes = thread[s].writes
  BY <1>4
<1>7. \A s \in Thread : Storing(s)' = Storing(s) /\ Deriving(s)' = Deriving(s)
  BY <1>1, <1>5, <1>6 DEF Storing, Deriving, Single, Both
<1>8. Storing(t) \/ Deriving(t)
  BY <1>1, <1>3, RestIs DEF AfterTheUpload
<1>9. w.file \in File /\ None # Torn
  BY <1>8, StoringIs, DerivingIs, MarksDiffer DEF File
<1> HIDE DEF w
<1>10. FilesAreKnown' /\ files'[w.file] = Torn /\ \A f \in File \ {w.file} : files'[f] = files[f]
  BY <1>1, <1>3, <1>9 DEF FilesAreKnown
<1>11. \A f \in File : Readable(f)' => f # w.file /\ Readable(f) /\ files'[f] = files[f]
  BY <1>10 DEF Readable
<1>12. \A s \in Thread \ {t} : thread'[s] = Rest => thread[s] = Rest
  BY <1>4
<1>13. {"document", "evidence", "ocr", "contract", "rules"} = File
  BY DEF File
<1>14. CASE Storing(t)
  <2>1. /\ ~Readable("evidence") /\ ~Inspected
        /\ \A s \in Thread \ {t} : thread[s] = Rest
        /\ w.file \in {"document", "evidence"}
    BY <1>3, <1>14, StoringIs DEF AfterTheUpload, Inspected, w
  <2>2. \A f \in {"ocr", "contract", "rules"} : files'[f] = None
    BY <1>3, <1>10, <1>13, <2>1 DEF AfterTheUpload
  <2>3. ~Readable("evidence")'
    BY <1>11, <1>13, <2>1
  <2>4. \A s \in Thread : ~Deriving(s)
    BY <1>3, <2>1 DEF AfterTheUpload
  <2>5. \A s \in Thread : (thread'[s] = Rest \/ Storing(s)') /\ (s # t => thread'[s] = Rest /\ ~Storing(s)')
    <3>1. \A s \in Thread : thread[s] = Rest => ~Storing(s)
      BY RestIs, StoringIs
    <3> QED
      BY <1>4, <1>7, <1>14, <2>1, <3>1
  <2>6. \A f \in File : Readable(f)' => Fits(f, files[f])'
    BY <1>3, <1>5, <1>11 DEF AfterTheUpload
  <2>7. AfterTheUpload'
    BY <1>7, <2>2, <2>3, <2>4, <2>5, <2>6 DEF AfterTheUpload
  <2> QED
    BY <1>1, <1>2, <1>4, <1>10, <2>7 DEF LocalIInv
<1>15. CASE Deriving(t)
  <2>1. Inspected /\ w.file \in {"ocr", "contract", "rules"} /\ (w.file = "rules" => files.contract # None)
    BY <1>3, <1>15, DerivingIs DEF AfterTheUpload, w
  <2>2. files'["document"] = files["document"] /\ files'["evidence"] = files["evidence"]
    BY <1>10, <1>13, <2>1
  <2>3. Inspected' /\ Readable("evidence")
    BY <2>1, <2>2 DEF Inspected, Readable
  <2>4. \A s \in Thread : ~Storing(s)
    BY <1>3, <2>3 DEF AfterTheUpload
  <2>5. \A s \in Thread : thread'[s] = Rest \/ Deriving(s)'
    <3>1. ASSUME NEW s \in Thread, s # t PROVE thread'[s] = Rest \/ Deriving(s)'
      BY <1>3, <1>4, <1>7, <2>4, <3>1 DEF AfterTheUpload
    <3> QED
      BY <1>7, <1>15, <3>1
  <2>6. files.contract # None => files'.contract # None
    BY <1>9, <1>10, <1>13
  <2>7. files'.rules # None => files'.contract # None
    <3>1. files'.rules # None => w.file = "rules" \/ files.rules # None
      BY <1>10, <1>13
    <3> QED
      BY <1>3, <2>1, <2>6, <3>1 DEF AfterTheUpload
  <2>8. \A s \in Thread : Deriving(s)' /\ thread'[s].writes[1].file = "rules" => files'.contract # None
    BY <1>3, <1>6, <1>7, <2>6 DEF AfterTheUpload
  <2>9. \A f \in File : Readable(f)' => Fits(f, files[f])'
    BY <1>3, <1>5, <1>11 DEF AfterTheUpload
  <2>10. AfterTheUpload'
    BY <1>7, <2>3, <2>4, <2>5, <2>7, <2>8, <2>9 DEF AfterTheUpload
  <2> QED
    BY <1>1, <1>2, <1>4, <1>10, <2>10 DEF LocalIInv
<1> QED
  BY <1>8, <1>14, <1>15

LEMMA FillFileKeeps ==
  ASSUME LocalIInv, NEW t \in Thread, FillFile(t)
  PROVE  LocalIInv'
<1> DEFINE w == Head(thread[t].writes)
           rest == Tail(thread[t].writes)
<1>1. thread[t].writes # << >> /\ source' = source /\ thread' = [thread EXCEPT ![t] = [writes |-> Tail(@.writes), open |-> FALSE]]
  BY DEF FillFile
<1>2. PICK content \in {w.content, Torn} : files' = [files EXCEPT ![w.file] = content]
  BY DEF FillFile
<1>3. source \in Document
  BY <1>1, BeforeIsEmpty DEF LocalIInv
<1>4. AfterTheUpload /\ ThreadsAreRecords /\ FilesAreKnown
  BY <1>3 DEF LocalIInv
<1>5. /\ ThreadsAreRecords' /\ thread'[t] = [writes |-> rest, open |-> FALSE]
      /\ \A s \in Thread \ {t} : thread'[s] = thread[s]
  <2>1. thread' = [thread EXCEPT ![t] = [writes |-> rest, open |-> FALSE]]
    BY <1>1, <1>4 DEF ThreadsAreRecords
  <2> QED
    BY <1>4, <2>1, ThreadAfter
<1>6. \A f, x : Fits(f, x)' = Fits(f, x)
  BY <1>1 DEF Fits, IsContract
<1>7. \A s \in Thread \ {t} : Storing(s)' = Storing(s) /\ Deriving(s)' = Deriving(s)
  BY <1>1, <1>5, <1>6 DEF Storing, Deriving, Single, Both
<1>8. Storing(t) \/ Deriving(t)
  BY <1>1, <1>4, RestIs DEF AfterTheUpload
<1>9. w.file \in File /\ None # Torn /\ Fits(w.file, w.content)
  BY <1>8, StoringIs, DerivingIs, MarksDiffer DEF File, Fits
<1>10. {"document", "evidence", "ocr", "contract", "rules"} = File
  BY DEF File
<1> HIDE DEF w, rest
<1>11. FilesAreKnown' /\ files'[w.file] = content /\ \A f \in File \ {w.file} : files'[f] = files[f]
  BY <1>2, <1>4, <1>9 DEF FilesAreKnown
<1>12. \A f \in File : Readable(f)' => Fits(f, files[f])'
  <2>1. ASSUME NEW f \in File, Readable(f)' PROVE Fits(f, files'[f])
    <3>1. CASE f = w.file
      <4>1. content = w.content
        BY <1>11, <2>1, <3>1 DEF Readable
      <4> QED
        BY <1>9, <1>11, <3>1, <4>1
    <3>2. CASE f # w.file
      BY <1>4, <1>11, <2>1, <3>2 DEF Readable, AfterTheUpload
    <3> QED
      BY <3>1, <3>2
  <2> QED
    BY <1>6, <2>1
<1>13. CASE Storing(t)
  <2>1. /\ ~Readable("evidence") /\ ~Inspected
        /\ \A s \in Thread \ {t} : thread[s] = Rest
    BY <1>4, <1>13 DEF AfterTheUpload, Inspected
  <2>2. w.file \in {"document", "evidence"}
    BY <1>13, StoringIs DEF w
  <2>3. \A f \in {"ocr", "contract", "rules"} : files'[f] = None
    BY <1>4, <1>10, <1>11, <2>1, <2>2 DEF AfterTheUpload
  <2>4. \A s \in Thread \ {t} : thread'[s] = Rest /\ ~Storing(s)' /\ ~Deriving(s)'
    <3>1. \A s \in Thread : thread[s] = Rest => ~Storing(s) /\ ~Deriving(s)
      BY RestIs, StoringIs, DerivingIs
    <3> QED
      BY <1>5, <1>7, <2>1, <3>1
  <2>5. CASE w.file = "evidence" /\ rest = << >>
    <3>1. thread'[t] = Rest /\ thread'[t].writes = << >>
      BY <1>5, <2>5 DEF Rest
    <3>2. ~Storing(t)' /\ ~Deriving(t)'
      BY <3>1 DEF Storing, Deriving, Single, Both
    <3>3. AfterTheUpload'
      BY <1>12, <2>3, <2>4, <3>1, <3>2 DEF AfterTheUpload
    <3> QED
      BY <1>1, <1>3, <1>5, <1>11, <3>3 DEF LocalIInv
  <2>6. CASE w.file = "document" /\ rest = <<Into("evidence", source.pages)>>
    <3>1. "evidence" \in File \ {"document"} /\ Fits("evidence", source.pages)
      BY <1>10 DEF Fits
    <3>2. Single(rest) /\ rest[1].file = "evidence"
      BY <2>6, <3>1, SingleIs
    <3>3. thread'[t].writes = rest
      BY <1>5
    <3>4. Storing(t)' /\ ~Deriving(t)'
      <4>1. Single(thread[t].writes)'
        BY <1>6, <3>2, <3>3 DEF Single
      <4>2. rest # Both'
        BY <2>6, NextWrite DEF Both
      <4> QED
        BY <3>2, <3>3, <4>1, <4>2 DEF Storing, Deriving
    <3>5. ~Readable("evidence")'
      BY <1>10, <1>11, <2>1, <2>6 DEF Readable
    <3>6. AfterTheUpload'
      BY <1>12, <2>3, <2>4, <3>4, <3>5 DEF AfterTheUpload
    <3> QED
      BY <1>1, <1>3, <1>5, <1>11, <3>6 DEF LocalIInv
  <2> QED
    BY <1>13, <2>5, <2>6, StoringIs DEF w, rest
<1>14. CASE Deriving(t)
  <2>1. Inspected /\ w.file \in {"ocr", "contract", "rules"} /\ (w.file = "rules" => files.contract # None) /\ rest = << >>
    BY <1>4, <1>14, DerivingIs DEF AfterTheUpload, w, rest
  <2>2. files'["document"] = files["document"] /\ files'["evidence"] = files["evidence"]
    BY <1>10, <1>11, <2>1
  <2>3. Inspected' /\ Readable("evidence")
    BY <2>1, <2>2 DEF Inspected, Readable
  <2>4. thread'[t] = Rest /\ thread'[t].writes = << >>
    BY <1>5, <2>1 DEF Rest
  <2>5. ~Storing(t)' /\ ~Deriving(t)'
    BY <2>4 DEF Storing, Deriving, Single, Both
  <2>6. \A s \in Thread : ~Storing(s)' /\ (thread'[s] = Rest \/ Deriving(s)')
    BY <1>4, <1>5, <1>7, <2>3, <2>4, <2>5 DEF AfterTheUpload
  <2>7. files.contract # None => files'.contract # None
    <3>1. CASE w.file = "contract"
      <4>1. Fits("contract", w.content)
        BY <1>9, <3>1
      <4>2. w.content # None
        BY <1>3, <4>1, TextsAreNoMarks DEF Fits
      <4> QED
        BY <1>9, <1>11, <3>1, <4>2
    <3>2. CASE w.file # "contract"
      BY <1>10, <1>11, <3>2
    <3> QED
      BY <3>1, <3>2
  <2>8. files'.rules # None => files'.contract # None
    <3>1. files'.rules # None => w.file = "rules" \/ files.rules # None
      BY <1>10, <1>11
    <3> QED
      BY <1>4, <2>1, <2>7, <3>1 DEF AfterTheUpload
  <2>9. \A s \in Thread : Deriving(s)' /\ thread'[s].writes[1].file = "rules" => files'.contract # None
    <3>1. ASSUME NEW s \in Thread, Deriving(s)', thread'[s].writes[1].file = "rules" PROVE files'.contract # None
      <4>1. s # t /\ Deriving(s) /\ thread'[s] = thread[s]
        BY <1>5, <1>7, <2>5, <3>1
      <4> QED
        BY <1>4, <2>7, <3>1, <4>1 DEF AfterTheUpload
    <3> QED
      BY <3>1
  <2>10. AfterTheUpload'
    BY <1>12, <2>3, <2>6, <2>8, <2>9 DEF AfterTheUpload
  <2> QED
    BY <1>1, <1>3, <1>5, <1>11, <2>10 DEF LocalIInv
<1> QED
  BY <1>8, <1>13, <1>14

LEMMA LocalInitially == LocalInit => LocalIInv
<1> SUFFICES ASSUME LocalInit PROVE LocalIInv
  OBVIOUS
<1>1. \A t \in Thread : thread[t] = Rest
  BY DEF LocalInit
<1>2. ThreadsAreRecords /\ FilesAreKnown
  BY DEF LocalInit, ThreadsAreRecords, FilesAreKnown, Rest
<1>3. BeforeTheUpload /\ source = None
  BY <1>1, RestIs DEF LocalInit, BeforeTheUpload
<1> QED
  BY <1>2, <1>3, MarksDiffer DEF LocalIInv

LEMMA LocalStep == LocalIInv /\ [LocalNext]_localVars => LocalIInv'
<1> SUFFICES ASSUME LocalIInv, [LocalNext]_localVars PROVE LocalIInv'
  OBVIOUS
<1>1. CASE UNCHANGED localVars
  <2>1. UNCHANGED <<source, files, thread>>
    BY <1>1 DEF localVars
  <2>2. Both' = Both /\ \A f, x : Fits(f, x)' = Fits(f, x)
    BY <2>1 DEF Both, Fits, IsContract
  <2>3. \A t : Storing(t)' = Storing(t) /\ Deriving(t)' = Deriving(t)
    BY <2>1, <2>2 DEF Storing, Deriving, Single
  <2>4. Inspected' = Inspected /\ \A f : Readable(f)' = Readable(f)
    BY <2>1 DEF Inspected, Readable
  <2>5. AfterTheUpload' = AfterTheUpload
    BY <2>1, <2>2, <2>3, <2>4 DEF AfterTheUpload
  <2>6. BeforeTheUpload' = BeforeTheUpload /\ ThreadsAreRecords' = ThreadsAreRecords /\ FilesAreKnown' = FilesAreKnown
    BY <2>1 DEF BeforeTheUpload, ThreadsAreRecords, FilesAreKnown
  <2> QED
    BY <2>1, <2>5, <2>6 DEF LocalIInv
<1>2. CASE Exit
  BY <1>2, ExitKeeps
<1>3. CASE \E t \in Thread : \E d \in Document : Store(t, d)
  BY <1>3, StoreKeeps
<1>4. ASSUME NEW t \in Thread,
             \/ StartUpload(t) \/ DropUpload(t) \/ RunOcr(t) \/ BuildStructure(t) \/ RunRules(t) \/ OpenFile(t) \/ FillFile(t)
      PROVE  LocalIInv'
  BY <1>4, StartUploadKeeps, DropUploadKeeps, RunOcrKeeps, BuildStructureKeeps, RunRulesKeeps, OpenFileKeeps, FillFileKeeps
<1> QED
  BY <1>1, <1>2, <1>3, <1>4 DEF LocalNext

LEMMA LocalInvariance == LocalSpec => []LocalIInv
  BY LocalInitially, LocalStep, PTL DEF LocalSpec

\* What the files hold, and in which order they come to be, whatever uploads,
\* threads and exits there are.  (ingest_document, _persist_inspection, run_ocr_for_job,
\* build_contract_structure, run_audit_rules)
THEOREM LocalTypeCorrect == LocalSpec => []LocalTypeOK
<1>1. LocalIInv => LocalTypeOK
  <2> SUFFICES ASSUME LocalIInv PROVE LocalTypeOK
    OBVIOUS
  <2>1. {"document", "evidence", "ocr", "contract", "rules"} = File
    BY DEF File
  <2>2. CASE source \in Document
    <3>1. AfterTheUpload
      BY <2>2 DEF LocalIInv
    <3>2. \A t \in Thread : thread[t] # Receiving
      <4>1. ASSUME NEW t \in Thread, thread[t] = Receiving PROVE FALSE
        <5>1. thread[t].writes # << >>
          BY <3>1, <4>1, RestIs, StoringIs, DerivingIs DEF AfterTheUpload
        <5> QED
          BY <4>1, <5>1, RestIs
      <4> QED
        BY <4>1
    <3>3. \A f \in {"document", "evidence"} : Readable(f) => files[f] = source.pages
      BY <2>1, <3>1 DEF AfterTheUpload, Fits
    <3>4. Readable("ocr") => files.ocr.status \in {"failed", "partial", "complete"}
      <4>1. Readable("ocr") => Fits("ocr", files["ocr"])
        BY <2>1, <3>1 DEF AfterTheUpload
      <4>2. ASSUME Fits("ocr", files["ocr"]) PROVE files.ocr.status \in {"failed", "partial", "complete"}
        <5>1. PICK pages \in OcrResults(source.pages), status \in {"failed", "partial", "complete"} :
                files["ocr"] = [status |-> status, pages |-> pages]
          BY <4>2 DEF Fits
        <5> QED
          BY <5>1
      <4> QED
        BY <4>1, <4>2
    <3>5. files.contract # None => Inspected
      BY <3>1 DEF AfterTheUpload
    <3> QED
      BY <2>2, <3>1, <3>2, <3>3, <3>4, <3>5 DEF LocalTypeOK, Inspected, AfterTheUpload
  <2>3. CASE source \notin Document
    <3>1. BeforeTheUpload
      BY <2>3 DEF LocalIInv
    <3>2. \A f \in File : files[f] = None /\ ~Readable(f)
      BY <3>1 DEF BeforeTheUpload, Readable
    <3> QED
      BY <2>1, <3>1, <3>2 DEF LocalTypeOK, LocalIInv, BeforeTheUpload
  <2> QED
    BY <2>2, <2>3
<1> QED
  BY <1>1, LocalInvariance, PTL

-----------------------------------------------------------------------------
(***************************************************************************)
(* The verdicts.                                                           *)
(***************************************************************************)

LEMMA ImageIsFinite ==
  ASSUME NEW S, IsFiniteSet(S), NEW f
  PROVE  IsFiniteSet({f[x] : x \in S})
<1> DEFINE T == {f[x] : x \in S}
           g == [x \in S |-> f[x]]
<1>1. g \in Surjection(S, T)
  BY DEF Surjection
<1> HIDE DEF g
<1> QED
  BY <1>1, FS_Surjection

\* The units and mentions of a contract are listed.
Counted(c) ==
  Len(c.units) \in Nat /\ \A k \in 1..Len(c.units) : Len(c.units[k].mentions) \in Nat

LEMMA MentionsAreFinite ==
  ASSUME NEW c, Counted(c), NEW kind
  PROVE  IsFiniteSet(MentionsOf(c, kind))
<1> DEFINE row == [k \in 1..Len(c.units) |->
                     [j \in 1..Len(c.units[k].mentions) |-> [unit |-> k, index |-> j]]]
           cells == [k \in 1..Len(c.units) |-> {row[k][j] : j \in 1..Len(c.units[k].mentions)}]
           all == UNION {cells[k] : k \in 1..Len(c.units)}
<1>1. IsFiniteSet(1..Len(c.units))
  BY FS_Interval DEF Counted
<1>2. ASSUME NEW k \in 1..Len(c.units) PROVE IsFiniteSet(1..Len(c.units[k].mentions))
  <2>1. Len(c.units[k].mentions) \in Int /\ 1 \in Int
    BY DEF Counted
  <2> QED
    BY <2>1, FS_Interval
<1>3. \A k \in 1..Len(c.units) : IsFiniteSet(cells[k])
  <2> HIDE DEF row
  <2> QED
    BY <1>2, ImageIsFinite
<1>4. IsFiniteSet({cells[k] : k \in 1..Len(c.units)})
  <2> HIDE DEF cells
  <2> QED
    BY <1>1, ImageIsFinite
<1>5. IsFiniteSet(all)
  <2> DEFINE family == {cells[k] : k \in 1..Len(c.units)}
  <2>1. \A T \in family : IsFiniteSet(T)
    BY <1>3
  <2> HIDE DEF family
  <2> QED
    BY <1>4, <2>1, FS_UNION DEF family
<1>6. MentionsOf(c, kind) \subseteq all
  BY DEF MentionsOf
<1> HIDE DEF all
<1> QED
  BY <1>5, <1>6, FS_Subset

LEMMA TwoAreTwo ==
  ASSUME NEW S, IsFiniteSet(S), NEW x \in S, NEW y \in S, x # y
  PROVE  Cardinality(S) \in Nat /\ Cardinality(S) >= 2
<1>1. {x, y} \in SUBSET S /\ IsFiniteSet({x}) /\ Cardinality({x}) = 1
  BY FS_Singleton
<1>2. IsFiniteSet({x} \cup {y}) /\ Cardinality({x} \cup {y}) = 2
  <2>1. y \notin {x}
    OBVIOUS
  <2>2. Cardinality({x} \cup {y}) = Cardinality({x}) + 1 /\ IsFiniteSet({x} \cup {y})
    BY <1>1, <2>1, FS_AddElement
  <2> QED
    BY <1>1, <2>2
<1>3. {x} \cup {y} \in SUBSET S
  BY <1>1
<1> QED
  BY <1>2, <1>3, FS_Subset, FS_CardinalityType

\* One value, none missing: anything else is a failure or a review.
LEMMA ConsistentSays ==
  ASSUME NEW c, NEW ms, IsFiniteSet(ms)
  PROVE  /\ Consistent(c, ms) \in {"PASS", "FAIL"} => None \notin ValuesOf(c, ms)
         /\ \A i, k \in ms : Value(Mention(c, i)) # Value(Mention(c, k)) => Consistent(c, ms) \in {"FAIL", "REVIEW"}
<1>1. Consistent(c, ms) \in {"PASS", "FAIL"} => None \notin ValuesOf(c, ms)
  BY DEF Consistent
<1>2. ASSUME NEW i \in ms, NEW k \in ms, Value(Mention(c, i)) # Value(Mention(c, k))
      PROVE  Consistent(c, ms) \in {"FAIL", "REVIEW"}
  <2> DEFINE f == [x \in ms |-> Value(Mention(c, x))]
  <2>1. Cardinality(ms) >= 2 /\ Cardinality(ms) \in Nat
    <3>1. i # k
      BY <1>2
    <3> QED
      BY <3>1, TwoAreTwo
  <2>2. ValuesOf(c, ms) = {f[x] : x \in ms}
    BY DEF ValuesOf
  <2>3. IsFiniteSet(ValuesOf(c, ms))
    <3> HIDE DEF f
    <3> QED
      BY <2>2, ImageIsFinite
  <2>4. Cardinality(ValuesOf(c, ms)) >= 2 /\ Cardinality(ValuesOf(c, ms)) \in Nat
    <3>1. Value(Mention(c, i)) \in ValuesOf(c, ms) /\ Value(Mention(c, k)) \in ValuesOf(c, ms)
      BY DEF ValuesOf
    <3> QED
      BY <1>2, <2>3, <3>1, TwoAreTwo
  <2> QED
    BY <2>1, <2>4 DEF Consistent
<1> QED
  BY <1>1, <1>2

\* A verdict that stands rests on sure units.
LEMMA VerdictSays ==
  ASSUME NEW c, NEW units, NEW state
  PROVE  /\ Verdict(c, units, state) \in {"PASS", "FAIL"} =>
              Verdict(c, units, state) = state /\ \A k \in units : c.units[k].method = "OCR" => c.units[k].sure
         /\ state \in {"FAIL", "REVIEW"} => Verdict(c, units, state) \in {"FAIL", "REVIEW"}
  BY DEF Verdict, Uncertain

\* What a result may not say of its mentions, and what makes it safe.
Rests(c, x) ==
  x.state \in {"PASS", "FAIL"} =>
    \A i \in x.mentions : /\ c.units[i.unit].method = "OCR" => c.units[i.unit].sure
                          /\ Value(Mention(c, i)) # None

LEMMA ResultRests ==
  ASSUME NEW c, NEW rule, NEW instance, NEW state, NEW ms,
         state \in {"PASS", "FAIL"} => None \notin ValuesOf(c, ms)
  PROVE  Rests(c, Result(c, rule, instance, state, ms))
<1> DEFINE units == {i.unit : i \in ms}
           x == Result(c, rule, instance, state, ms)
<1>1. x.mentions = ms /\ x.state = Verdict(c, units, state)
  BY DEF Result
<1>2. ASSUME x.state \in {"PASS", "FAIL"}, NEW i \in ms
      PROVE  (c.units[i.unit].method = "OCR" => c.units[i.unit].sure) /\ Value(Mention(c, i)) # None
  <2>1. state \in {"PASS", "FAIL"} /\ \A k \in units : c.units[k].method = "OCR" => c.units[k].sure
    <3> HIDE DEF units, x
    <3> QED
      BY <1>1, <1>2, VerdictSays
  <2>2. i.unit \in units /\ Value(Mention(c, i)) \in ValuesOf(c, ms)
    BY DEF ValuesOf
  <2> HIDE DEF units, x
  <2> QED
    BY <2>1, <2>2
<1> HIDE DEF units, x
<1> QED
  BY <1>1, <1>2 DEF Rests, x

LEMMA OtherwiseRests ==
  ASSUME NEW c, NEW rule, NEW results, \A x \in results : Rests(c, x)
  PROVE  \A x \in Otherwise(rule, results) : Rests(c, x)
  BY DEF Otherwise, Rests

LEMMA ResultIs ==
  \A c, rule, instance, state, ms :
    LET x == Result(c, rule, instance, state, ms)
    IN x.rule = rule /\ x.mentions = ms /\ x.state = Verdict(c, {i.unit : i \in ms}, state)
  BY DEF Result

LEMMA LocatedMentions ==
  ASSUME NEW c, NEW kind
  PROVE  /\ InContext(c, kind) \subseteq MentionsOf(c, kind)
         /\ \A i \in MentionsOf(c, kind) :
              /\ i.unit \in 1..Len(c.units) /\ i.index \in 1..Len(c.units[i.unit].mentions)
              /\ Mention(c, i).kind = kind
  BY DEF InContext, MentionsOf

LEMMA ProfileRests ==
  ASSUME NEW c
  PROVE  \A x \in RequiredProfile(c) : x.rule = "REQUIRED" /\ Rests(c, x)
<1> SUFFICES ASSUME NEW x \in RequiredProfile(c) PROVE x.rule = "REQUIRED" /\ Rests(c, x)
  OBVIOUS
<1> DEFINE parties == {i \in MentionsOf(c, "party") : Value(Mention(c, i)) # None}
           units == {i.unit : i \in parties} \cup (IF c.titles = << >> THEN {} ELSE {c.titles[1]})
<1>1. PICK state : x = [rule |-> "REQUIRED", instance |-> <<"profile">>, mentions |-> parties,
                        state |-> Verdict(c, units, state)]
  BY DEF RequiredProfile
<1>2. \A i \in parties : i.unit \in units /\ Value(Mention(c, i)) # None
  OBVIOUS
<1> HIDE DEF parties, units
<1>3. x.rule = "REQUIRED" /\ x.mentions = parties /\ x.state = Verdict(c, units, state)
  BY <1>1
<1>4. x.state \in {"PASS", "FAIL"} => \A k \in units : c.units[k].method = "OCR" => c.units[k].sure
  BY <1>3, VerdictSays
<1> QED
  BY <1>2, <1>3, <1>4 DEF Rests

LEMMA RepeatedRests ==
  ASSUME NEW c, Counted(c), NEW rule, NEW kind
  PROVE  \A x \in Repeated(c, rule, kind) : x.rule = rule /\ Rests(c, x)
<1> DEFINE ms == MentionsOf(c, kind)
           Group(l) == {i \in ms : Mention(c, i).label = l}
           results == {Result(c, rule, <<l>>, Consistent(c, Group(l)), Group(l)) : l \in LabelsOf(c, ms)}
<1>1. \A l : IsFiniteSet(Group(l))
  <2>1. ASSUME NEW l PROVE IsFiniteSet(Group(l))
    <3>1. IsFiniteSet(ms) /\ Group(l) \in SUBSET ms
      BY MentionsAreFinite
    <3> QED
      BY <3>1, FS_Subset
  <2> QED
    BY <2>1
<1>2. \A x \in results : Rests(c, x)
  <2>1. ASSUME NEW l PROVE Rests(c, Result(c, rule, <<l>>, Consistent(c, Group(l)), Group(l)))
    <3> DEFINE g == Group(l)
    <3>1. IsFiniteSet(g)
      BY <1>1
    <3> HIDE DEF g
    <3>2. Consistent(c, g) \in {"PASS", "FAIL"} => None \notin ValuesOf(c, g)
      BY <3>1, ConsistentSays
    <3>3. Rests(c, Result(c, rule, <<l>>, Consistent(c, g), g))
      BY <3>2, ResultRests
    <3> QED
      BY <3>3 DEF g
  <2> QED
    BY <2>1
<1>3. ASSUME NEW x \in results PROVE x.rule = rule
  <2>1. PICK l \in LabelsOf(c, ms) : x = Result(c, rule, <<l>>, Consistent(c, Group(l)), Group(l))
    BY <1>3
  <2> HIDE DEF Group
  <2> QED
    BY <2>1, ResultIs
<1>4. Repeated(c, rule, kind) = Otherwise(rule, results)
  BY DEF Repeated
<1> HIDE DEF results
<1>5. \A x \in Otherwise(rule, results) : Rests(c, x)
  BY <1>2, OtherwiseRests
<1> QED
  BY <1>3, <1>4, <1>5 DEF Otherwise

LEMMA UppercaseRests ==
  ASSUME NEW c
  PROVE  \A x \in UppercaseAmount(c) : x.rule = "UPPERCASE" /\ Rests(c, x)
<1> DEFINE ms == InContext(c, "uppercase")
           results == IF ms = {} THEN {} ELSE {Result(c, "UPPERCASE", <<"detected">>, "REVIEW", ms)}
<1>1. \A x \in results : x.rule = "UPPERCASE" /\ Rests(c, x)
  <2>1. Rests(c, Result(c, "UPPERCASE", <<"detected">>, "REVIEW", ms))
    <3> HIDE DEF ms
    <3> QED
      BY ResultRests
  <2> QED
    BY <2>1 DEF Result
<1>2. UppercaseAmount(c) = Otherwise("UPPERCASE", results)
  BY DEF UppercaseAmount
<1> HIDE DEF results
<1>3. \A x \in Otherwise("UPPERCASE", results) : Rests(c, x)
  BY <1>1, OtherwiseRests
<1> QED
  BY <1>1, <1>2, <1>3 DEF Otherwise

LEMMA AmountsRest ==
  ASSUME NEW c, Counted(c)
  PROVE  \A x \in AmountConsistency(c) : x.rule = "AMOUNT" /\ Rests(c, x)
<1> DEFINE ms == InContext(c, "money")
           Group(l) == {i \in ms : LabelBefore(c, i) = l}
           State(g) == IF Cardinality(g) < 2 THEN "NOT_APPLICABLE" ELSE Consistent(c, g)
           labels == {LabelBefore(c, i) : i \in ms} \ {None}
           results == {Result(c, "AMOUNT", <<l>>, State(Group(l)), Group(l)) : l \in labels}
<1>1. \A x \in results : Rests(c, x)
  <2>1. ASSUME NEW l PROVE Rests(c, Result(c, "AMOUNT", <<l>>, State(Group(l)), Group(l)))
    <3> DEFINE g == Group(l)
    <3>1. IsFiniteSet(g)
      <4>1. IsFiniteSet(MentionsOf(c, "money")) /\ Group(l) \in SUBSET MentionsOf(c, "money")
        BY MentionsAreFinite, LocatedMentions
      <4> QED
        BY <4>1, FS_Subset
    <3> HIDE DEF g
    <3>2. State(g) \in {"PASS", "FAIL"} => None \notin ValuesOf(c, g)
      BY <3>1, ConsistentSays
    <3>3. Rests(c, Result(c, "AMOUNT", <<l>>, State(g), g))
      BY <3>2, ResultRests
    <3> QED
      BY <3>3 DEF g
  <2> QED
    BY <2>1
<1>2. ASSUME NEW x \in results PROVE x.rule = "AMOUNT"
  <2>1. PICK l \in labels : x = Result(c, "AMOUNT", <<l>>, State(Group(l)), Group(l))
    BY <1>2
  <2> HIDE DEF Group, State
  <2> QED
    BY <2>1, ResultIs
<1>3. AmountConsistency(c) = Otherwise("AMOUNT", results)
  BY DEF AmountConsistency
<1> HIDE DEF results
<1>4. \A x \in Otherwise("AMOUNT", results) : Rests(c, x)
  BY <1>1, OtherwiseRests
<1> QED
  BY <1>2, <1>3, <1>4 DEF Otherwise

LEMMA OneElement ==
  ASSUME NEW S, IsFiniteSet(S), S # {}, ~(Cardinality(S) > 1)
  PROVE  \A x \in S : x = (CHOOSE y \in S : TRUE)
<1> DEFINE one == CHOOSE y \in S : TRUE
<1>1. one \in S
  OBVIOUS
<1> HIDE DEF one
<1>2. ASSUME NEW x \in S, x # one PROVE FALSE
  <2>1. Cardinality(S) \in Nat /\ Cardinality(S) >= 2
    BY <1>1, <1>2, TwoAreTwo
  <2> QED
    BY <2>1
<1> QED
  BY <1>2 DEF one

LEMMA SigningRests ==
  ASSUME NEW c, Counted(c)
  PROVE  \A x \in SigningOrder(c) : x.rule = "SIGNING_ORDER" /\ Rests(c, x)
<1> DEFINE Field(labels) == {i \in MentionsOf(c, "date") : Mention(c, i).label \in labels}
           signing == Field({"signed", "executed"})
           effective == Field({"effective"})
           Only(ms) == Value(Mention(c, CHOOSE i \in ms : TRUE))
           state == IF signing = {} \/ effective = {} THEN "NOT_APPLICABLE"
                    ELSE IF Cardinality(signing) > 1 \/ Cardinality(effective) > 1 THEN "REVIEW"
                    ELSE IF None \in {Only(signing), Only(effective)} THEN "REVIEW"
                    ELSE IF Precedes(Only(effective), Only(signing)) THEN "REVIEW" ELSE "PASS"
           x == Result(c, "SIGNING_ORDER", <<"signing-effective">>, state, signing \cup effective)
<1>1. SigningOrder(c) = {x}
  BY DEF SigningOrder
<1>2. IsFiniteSet(signing) /\ IsFiniteSet(effective)
  <2>1. IsFiniteSet(MentionsOf(c, "date")) /\ signing \in SUBSET MentionsOf(c, "date") /\ effective \in SUBSET MentionsOf(c, "date")
    BY MentionsAreFinite
  <2> HIDE DEF signing, effective
  <2> QED
    BY <2>1, FS_Subset
<1>3. state \in {"PASS", "FAIL"} => None \notin ValuesOf(c, signing \cup effective)
  <2> HIDE DEF signing, effective
  <2> SUFFICES ASSUME state \in {"PASS", "FAIL"} PROVE None \notin ValuesOf(c, signing \cup effective)
    OBVIOUS
  <2>1. /\ signing # {} /\ effective # {} /\ ~(Cardinality(signing) > 1) /\ ~(Cardinality(effective) > 1)
        /\ Only(signing) # None /\ Only(effective) # None
    OBVIOUS
  <2>2. \A i \in signing : i = (CHOOSE y \in signing : TRUE)
    BY <1>2, <2>1, OneElement
  <2>3. \A i \in effective : i = (CHOOSE y \in effective : TRUE)
    BY <1>2, <2>1, OneElement
  <2>4. \A i \in signing : Value(Mention(c, i)) = Only(signing)
    BY <2>2
  <2>5. \A i \in effective : Value(Mention(c, i)) = Only(effective)
    BY <2>3
  <2> HIDE DEF Only
  <2> QED
    BY <2>1, <2>4, <2>5 DEF ValuesOf
<1> HIDE DEF state, signing, effective
<1>4. Rests(c, x)
  BY <1>3, ResultRests
<1>5. x.rule = "SIGNING_ORDER"
  BY DEF Result
<1> QED
  BY <1>1, <1>4, <1>5

\* The percentages of one line.
LineGroup(c, line) == {i \in InContext(c, "percent") : LineOf(c, i) = line}

\* A percentage line that passes: its group sums to 100.
LEMMA PercentagesRest ==
  ASSUME NEW c, Counted(c)
  PROVE  \A x \in PercentageTotal(c) :
           /\ x.rule = "PERCENTAGE" /\ Rests(c, x)
           /\ x.state = "PASS" =>
                \E line : x.mentions = LineGroup(c, line) /\ SumOf(c, x.mentions) = 100
<1> DEFINE ms == InContext(c, "percent")
           Group(line) == {i \in ms : LineOf(c, i) = line}
           Labelled(group) == {i \in group : LabelBefore(c, i) # None}
           lines == {l \in {LineOf(c, i) : i \in ms} : Cardinality(Labelled(Group(l))) >= 2}
           State(g) == IF Labelled(g) # g \/ None \in ValuesOf(c, g) THEN "REVIEW"
                       ELSE IF SumOf(c, g) = 100 THEN "PASS" ELSE "FAIL"
           results == {Result(c, "PERCENTAGE", <<"line">> \o l, State(Group(l)), Group(l)) : l \in lines}
           Passes(x) == x.state = "PASS" => \E line : x.mentions = LineGroup(c, line) /\ SumOf(c, x.mentions) = 100
<1>1. ASSUME NEW l
      PROVE  LET x == Result(c, "PERCENTAGE", <<"line">> \o l, State(Group(l)), Group(l))
             IN x.rule = "PERCENTAGE" /\ Rests(c, x) /\ Passes(x)
  <2> DEFINE g == Group(l)
             x == Result(c, "PERCENTAGE", <<"line">> \o l, State(g), g)
  <2>1. State(g) \in {"PASS", "FAIL"} => None \notin ValuesOf(c, g)
    <3> HIDE DEF g
    <3> QED
      OBVIOUS
  <2>2. State(g) = "PASS" => SumOf(c, g) = 100
    <3> HIDE DEF g
    <3> QED
      OBVIOUS
  <2> HIDE DEF State
  <2>3. Rests(c, x)
    <3> HIDE DEF g
    <3> QED
      BY <2>1, ResultRests
  <2>4. x.rule = "PERCENTAGE" /\ x.mentions = g /\ (x.state = "PASS" => State(g) = "PASS")
    <3> DEFINE units == {i.unit : i \in g}
    <3>1. x.rule = "PERCENTAGE" /\ x.mentions = g /\ x.state = Verdict(c, units, State(g))
      BY ResultIs
    <3>2. Verdict(c, units, State(g)) = "PASS" => State(g) = "PASS"
      BY VerdictSays
    <3> QED
      BY <3>1, <3>2
  <2>5. Passes(x)
    <3>1. g = LineGroup(c, l)
      BY DEF LineGroup
    <3> HIDE DEF x, g
    <3> QED
      BY <2>2, <2>4, <3>1
  <2> QED
    BY <2>3, <2>4, <2>5
<1>2. \A x \in results : x.rule = "PERCENTAGE" /\ Rests(c, x) /\ Passes(x)
  <2> HIDE DEF Passes, Group, State, lines
  <2> QED
    BY <1>1
<1>3. PercentageTotal(c) = Otherwise("PERCENTAGE", results)
  BY DEF PercentageTotal
<1> HIDE DEF results
<1>4. \A x \in Otherwise("PERCENTAGE", results) : Rests(c, x)
  BY <1>2, OtherwiseRests
<1>5. \A x \in Otherwise("PERCENTAGE", results) : x.rule = "PERCENTAGE" /\ Passes(x)
  <2>1. ASSUME NEW x \in Otherwise("PERCENTAGE", results) PROVE x.rule = "PERCENTAGE" /\ Passes(x)
    <3>1. x \in results \/ (x.rule = "PERCENTAGE" /\ x.state # "PASS")
      BY <2>1 DEF Otherwise
    <3> QED
      BY <1>2, <3>1
  <2> QED
    BY <2>1
<1> QED
  BY <1>3, <1>4, <1>5

LEMMA EveryResultRests ==
  ASSUME NEW c, Counted(c)
  PROVE  \A x \in Evaluate(c) : Rests(c, x)
  BY ProfileRests, RepeatedRests, SigningRests, PercentagesRest, AmountsRest, UppercaseRests DEF Evaluate

\* Two values under one label: the result of that label is a failure or a review.
LEMMA GroupReports ==
  ASSUME NEW c, NEW rule, NEW instance, NEW g, IsFiniteSet(g), NEW i \in g, NEW k \in g,
         Value(Mention(c, i)) # Value(Mention(c, k)),
         NEW state, state = Consistent(c, g)
  PROVE  LET x == Result(c, rule, instance, state, g)
         IN x.rule = rule /\ i \in x.mentions /\ x.state \in {"FAIL", "REVIEW"}
<1> DEFINE units == {j.unit : j \in g}
<1>1. state \in {"FAIL", "REVIEW"}
  BY ConsistentSays
<1>2. Verdict(c, units, state) \in {"FAIL", "REVIEW"}
  BY <1>1, VerdictSays
<1> QED
  BY <1>2, ResultIs

LEMMA RepeatedReports ==
  ASSUME NEW c, Counted(c), NEW rule, NEW kind,
         NEW i \in MentionsOf(c, kind), NEW k \in MentionsOf(c, kind),
         Mention(c, i).label = Mention(c, k).label, Mention(c, i).label # None,
         Value(Mention(c, i)) # Value(Mention(c, k))
  PROVE  \E x \in Repeated(c, rule, kind) : x.rule = rule /\ i \in x.mentions /\ x.state \in {"FAIL", "REVIEW"}
<1> DEFINE ms == MentionsOf(c, kind)
           Group(l) == {j \in ms : Mention(c, j).label = l}
           results == {Result(c, rule, <<l>>, Consistent(c, Group(l)), Group(l)) : l \in LabelsOf(c, ms)}
           label == Mention(c, i).label
           g == Group(label)
           x == Result(c, rule, <<label>>, Consistent(c, g), g)
<1>1. i \in g /\ k \in g /\ g \in SUBSET ms
  OBVIOUS
<1>2. IsFiniteSet(g)
  BY <1>1, MentionsAreFinite, FS_Subset
<1>3. label \in LabelsOf(c, ms)
  BY DEF LabelsOf
<1>4. x \in results
  BY <1>3
<1>5. Repeated(c, rule, kind) = results
  BY <1>4 DEF Repeated, Otherwise
<1>6. x.rule = rule /\ i \in x.mentions /\ x.state \in {"FAIL", "REVIEW"}
  <2> HIDE DEF g, label
  <2> QED
    BY <1>1, <1>2, GroupReports
<1> HIDE DEF results, x
<1> QED
  BY <1>4, <1>5, <1>6

LEMMA AmountsReport ==
  ASSUME NEW c, Counted(c),
         NEW i \in MentionsOf(c, "money"), NEW k \in MentionsOf(c, "money"),
         i.unit \in Placed(c), k.unit \in Placed(c),
         c.units[i.unit].method = "NATIVE", c.units[k.unit].method = "NATIVE",
         Mention(c, i).label = Mention(c, k).label, Mention(c, i).label # None,
         Value(Mention(c, i)) # Value(Mention(c, k))
  PROVE  \E x \in AmountConsistency(c) : x.rule = "AMOUNT" /\ i \in x.mentions /\ x.state \in {"FAIL", "REVIEW"}
<1> DEFINE ms == InContext(c, "money")
           Group(l) == {j \in ms : LabelBefore(c, j) = l}
           State(g) == IF Cardinality(g) < 2 THEN "NOT_APPLICABLE" ELSE Consistent(c, g)
           labels == {LabelBefore(c, j) : j \in ms} \ {None}
           results == {Result(c, "AMOUNT", <<l>>, State(Group(l)), Group(l)) : l \in labels}
           label == Mention(c, i).label
           g == Group(label)
           x == Result(c, "AMOUNT", <<label>>, State(g), g)
<1>1. i \in ms /\ k \in ms
  BY DEF InContext
<1>2. LabelBefore(c, i) = label /\ LabelBefore(c, k) = label
  BY DEF LabelBefore
<1>3. i \in g /\ k \in g /\ g \in SUBSET MentionsOf(c, "money")
  BY <1>1, <1>2, LocatedMentions
<1>4. IsFiniteSet(g)
  BY <1>3, MentionsAreFinite, FS_Subset
<1>5. State(g) = Consistent(c, g)
  <2> HIDE DEF g
  <2>1. i # k
    OBVIOUS
  <2>2. Cardinality(g) \in Nat /\ Cardinality(g) >= 2
    BY <1>3, <1>4, <2>1, TwoAreTwo
  <2> QED
    BY <2>2
<1>6. label \in labels
  BY <1>1, <1>2
<1>7. x \in results
  BY <1>6
<1>8. AmountConsistency(c) = results
  BY <1>7 DEF AmountConsistency, Otherwise
<1>9. x.rule = "AMOUNT" /\ i \in x.mentions /\ x.state \in {"FAIL", "REVIEW"}
  <2> HIDE DEF g, label, State
  <2> QED
    BY <1>3, <1>4, <1>5, GroupReports
<1> HIDE DEF results, x
<1> QED
  BY <1>7, <1>8, <1>9

\* Without a second line like it on its page, a line is its own group.
LEMMA LinesAddUp ==
  ASSUME NEW c, NEW line, NEW i \in InContext(c, "percent"), LineOf(c, i) = line,
         ~\E m \in 1..Len(c.units) :
            m # i.unit /\ c.units[m].page = c.units[i.unit].page /\ c.units[m].text = c.units[i.unit].text
  PROVE  LineGroup(c, line) = {j \in MentionsOf(c, "percent") : j.unit = i.unit}
<1>1. ASSUME NEW j \in InContext(c, "percent"), LineOf(c, j) = line
      PROVE  j \in MentionsOf(c, "percent") /\ j.unit = i.unit
  <2>1. c.units[j.unit].page = c.units[i.unit].page /\ c.units[j.unit].text = c.units[i.unit].text
    BY <1>1 DEF LineOf
  <2> QED
    BY <1>1, <2>1, LocatedMentions
<1>2. ASSUME NEW j \in MentionsOf(c, "percent"), j.unit = i.unit
      PROVE  j \in InContext(c, "percent") /\ LineOf(c, j) = line
  BY <1>2 DEF InContext, LineOf
<1> QED
  BY <1>1, <1>2 DEF LineGroup

LEMMA RulesFollow ==
  ASSUME NEW c, Counted(c)
  PROVE  FollowTheText(c, Evaluate(c))
<1> DEFINE results == Evaluate(c)
           Of(r, i) == {x \in results : x.rule = r /\ i \in x.mentions}
           Rule == [party |-> "PARTY", identifier |-> "IDENTIFIER", date |-> "DATE", money |-> "AMOUNT"]
           Compared(kind) == {i \in MentionsOf(c, kind) :
             kind = "money" => i.unit \in Placed(c) /\ c.units[i.unit].method = "NATIVE"}
           One == \A x \in results : x.state \in {"PASS", "FAIL"} =>
                    \A i \in x.mentions : /\ c.units[i.unit].method = "OCR" => c.units[i.unit].sure
                                          /\ Value(Mention(c, i)) # None
           Two == \A kind \in DOMAIN Rule : \A i, k \in Compared(kind) :
                    /\ Mention(c, i).label = Mention(c, k).label
                    /\ Mention(c, i).label # None
                    /\ Value(Mention(c, i)) # Value(Mention(c, k))
                    => \E x \in Of(Rule[kind], i) : x.state \in {"FAIL", "REVIEW"}
           Three == \A x \in results : x.rule = "PERCENTAGE" /\ x.state = "PASS" =>
                      \A k \in {i.unit : i \in x.mentions} :
                        \/ \E m \in 1..Len(c.units) :
                             m # k /\ c.units[m].page = c.units[k].page /\ c.units[m].text = c.units[k].text
                        \/ SumOf(c, {i \in MentionsOf(c, "percent") : i.unit = k}) = 100
<1>1. One
  BY EveryResultRests DEF Rests
<1>2. Two
  <2> SUFFICES ASSUME NEW kind \in DOMAIN Rule, NEW i \in Compared(kind), NEW k \in Compared(kind),
                      Mention(c, i).label = Mention(c, k).label, Mention(c, i).label # None,
                      Value(Mention(c, i)) # Value(Mention(c, k))
               PROVE  \E x \in results : x.rule = Rule[kind] /\ i \in x.mentions /\ x.state \in {"FAIL", "REVIEW"}
    OBVIOUS
  <2>1. i \in MentionsOf(c, kind) /\ k \in MentionsOf(c, kind)
    OBVIOUS
  <2>2. CASE kind \in {"party", "identifier", "date"}
    <3>1. \E x \in Repeated(c, Rule[kind], kind) :
            x.rule = Rule[kind] /\ i \in x.mentions /\ x.state \in {"FAIL", "REVIEW"}
      <4> DEFINE rule == Rule[kind]
      <4> HIDE DEF rule
      <4> QED
        BY <2>1, RepeatedReports DEF rule
    <3>2. Repeated(c, Rule[kind], kind) \subseteq results
      BY <2>2 DEF Evaluate
    <3> QED
      BY <3>1, <3>2
  <2>3. CASE kind = "money"
    <3>1. \E x \in AmountConsistency(c) : x.rule = "AMOUNT" /\ i \in x.mentions /\ x.state \in {"FAIL", "REVIEW"}
      BY <2>1, <2>3, AmountsReport
    <3>2. AmountConsistency(c) \subseteq results /\ Rule[kind] = "AMOUNT"
      BY <2>3 DEF Evaluate
    <3> QED
      BY <3>1, <3>2
  <2> QED
    BY <2>2, <2>3
<1>3. Three
  <2> SUFFICES ASSUME NEW x \in results, x.rule = "PERCENTAGE", x.state = "PASS", NEW i \in x.mentions,
                      ~\E m \in 1..Len(c.units) :
                         m # i.unit /\ c.units[m].page = c.units[i.unit].page /\ c.units[m].text = c.units[i.unit].text
               PROVE  SumOf(c, {j \in MentionsOf(c, "percent") : j.unit = i.unit}) = 100
    OBVIOUS
  <2>1. x \in PercentageTotal(c)
    <3>1. /\ x \notin RequiredProfile(c) /\ x \notin Repeated(c, "PARTY", "party")
          /\ x \notin Repeated(c, "IDENTIFIER", "identifier") /\ x \notin Repeated(c, "DATE", "date")
      BY ProfileRests, RepeatedRests
    <3>2. x \notin SigningOrder(c) /\ x \notin AmountConsistency(c) /\ x \notin UppercaseAmount(c)
      BY SigningRests, AmountsRest, UppercaseRests
    <3> QED
      BY <3>1, <3>2 DEF Evaluate
  <2> HIDE DEF results
  <2>2. PICK line : x.mentions = LineGroup(c, line) /\ SumOf(c, x.mentions) = 100
    <3>1. x.state = "PASS"
      OBVIOUS
    <3> QED
      BY <2>1, <3>1, PercentagesRest
  <2>3. i \in InContext(c, "percent") /\ LineOf(c, i) = line
    BY <2>2 DEF LineGroup
  <2>4. x.mentions = {j \in MentionsOf(c, "percent") : j.unit = i.unit}
    BY <2>2, <2>3, LinesAddUp
  <2> QED
    BY <2>2, <2>4
<1>4. FollowTheText(c, results) = (One /\ Two /\ Three)
  BY DEF FollowTheText
<1> QED
  BY <1>1, <1>2, <1>3, <1>4

-----------------------------------------------------------------------------
(***************************************************************************)
(* The evidence stream.                                                    *)
(***************************************************************************)

LEMMA FlattenSeqElements ==
  ASSUME NEW S, NEW ss \in Seq(Seq(S))
  PROVE  ElementsOf(FlattenSeq(ss)) = UNION {ElementsOf(ss[k]) : k \in 1..Len(ss)}
<1> DEFINE N == Len(ss)
           Upto(n) == UNION {ElementsOf(ss[k]) : k \in 1..n}
<1>1. PICK h \in [0..N -> Seq(S)] : Joins(h, ss)
  BY JoinsExists
<1>2. N \in Nat /\ \A k \in 1..N : ss[k] \in Seq(S)
  BY LenProperties, ElementOfSeq
<1> DEFINE T == {n \in 0..N : ElementsOf(h[n]) = Upto(n)}
<1>3. 0 \in T
  <2>1. h[0] = << >>
    BY <1>1 DEF Joins
  <2>2. 1..0 = {}
    OBVIOUS
  <2> QED
    BY <1>2, <2>1, <2>2 DEF ElementsOf
<1>4. ASSUME NEW n \in 1..N, n - 1 \in T PROVE n \in T
  <2>1. n - 1 \in 0..N /\ n \in 0..N /\ 1..n = (1..n - 1) \cup {n}
    BY <1>2
  <2>2. h[n] = h[n - 1] \o ss[n]
    BY <1>1 DEF Joins
  <2>3. ElementsOf(h[n]) = ElementsOf(h[n - 1]) \cup ElementsOf(ss[n])
    <3>1. h[n - 1] \in Seq(S) /\ ss[n] \in Seq(S)
      BY <1>2, <2>1
    <3> QED
      BY <2>2, <3>1, Concatenated
  <2>4. Upto(n) = Upto(n - 1) \cup ElementsOf(ss[n])
    BY <2>1
  <2> HIDE DEF Upto
  <2> QED
    BY <1>4, <2>1, <2>3, <2>4
<1>5. N \in T
  <2> HIDE DEF T
  <2>1. \A n \in 0..N : n \in T
    BY <1>2, <1>3, <1>4, ByInductionUpTo
  <2> QED
    BY <1>2, <2>1
<1>6. FlattenSeq(ss) = h[N]
  BY <1>1, FlattenSeqIs
<1> QED
  BY <1>5, <1>6

\* A sequence of the entries of s that are in S.
LEMMA ListedIsSeq ==
  ASSUME NEW S, NEW s, Len(s) \in Nat, s = [k \in 1..Len(s) |-> s[k]], \A k \in 1..Len(s) : s[k] \in S
  PROVE  s \in Seq(S)
<1> DEFINE n == Len(s)
<1>1. s \in [1..n -> S]
  OBVIOUS
<1> QED
  BY <1>1, SeqDef

\* What the stages need of a unit.
IsUnit(u) == Len(u.mentions) \in Nat /\ (u.heading # None => Len(u.heading.number) \in Nat)

LEMMA RecognizedIs ==
  ASSUME NEW p, NEW low, NEW page, IsText(p.scan, page)
  PROVE  Len(Recognized(p, low)) = Len(p.scan) /\ IsText(Recognized(p, low), page)
<1> DEFINE n == Len(p.scan)
           b == Recognized(p, low)
<1>1. b = [k \in 1..n |-> [p.scan[k] EXCEPT !.sure = k \notin low]] /\ n \in Nat
  BY DEF Recognized, IsText, Listed
<1>2. Len(b) = n /\ b = [k \in 1..n |-> b[k]]
  BY <1>1
<1>3. ASSUME NEW k \in 1..n PROVE IsLine(b[k], page)
  <2> DEFINE r == p.scan[k]
             sure == k \notin low
  <2>1. b[k] = [r EXCEPT !.sure = sure]
    BY <1>1
  <2>2. IsLine(r, page)
    BY DEF IsText
  <2> HIDE DEF r, sure, b
  <2>3. /\ b[k].page = r.page /\ b[k].heading = r.heading /\ b[k].mentions = r.mentions
        /\ DOMAIN b[k] = DOMAIN r
    BY <2>1, <2>2 DEF IsLine
  <2> QED
    BY <2>2, <2>3 DEF IsLine
<1> HIDE DEF b
<1> QED
  BY <1>1, <1>2, <1>3 DEF IsText, Listed, b

\* The evidence stream of a document is a sequence of units, and every page has one.
LEMMA StreamIs ==
  ASSUME NEW d \in Document, NEW pages \in OcrResults(d.pages), AllRead(d.pages, pages)
  PROVE  LET units == Stream(d.pages, pages)
         IN /\ \E U : units \in Seq(U)
            /\ \A k \in 1..Len(units) : IsUnit(units[k])
            /\ \A k \in 1..Len(d.pages) : \E j \in 1..Len(units) : units[j].page = k
<1> DEFINE doc == d.pages
           N == Len(doc)
           part == [k \in 1..N |-> IF Usable(doc[k]) THEN doc[k].native ELSE pages[k].blocks]
<1>1. N \in Nat
  BY DocumentsAreTexts DEF Listed
<1>2. ASSUME NEW k \in 1..N
      PROVE  IsText(part[k], k) /\ part[k] # << >>
  <2>1. CASE Usable(doc[k])
    BY <2>1, DocumentsAreTexts
  <2>2. CASE ~Usable(doc[k])
    <3> DEFINE scan == doc[k].scan
    <3>1. k \in Scanned(doc)
      BY <2>2 DEF Scanned
    <3>2. pages[k] \in PageResults(doc[k]) /\ pages[k].state \in {"OCR_COMPLETE", "OCR_LOW_CONFIDENCE"}
      BY <3>1 DEF OcrResults, AllRead
    <3>3. scan # << >> /\ \E low \in SUBSET (1..Len(scan)) : pages[k].blocks = Recognized(doc[k], low)
      BY <3>2 DEF PageResults
    <3>4. PICK low : part[k] = Recognized(doc[k], low)
      BY <2>2, <3>3
    <3>5. IsText(scan, k)
      BY DocumentsAreTexts
    <3>6. IsText(part[k], k) /\ Len(part[k]) = Len(scan)
      <4> HIDE DEF part
      <4> QED
        BY <3>4, <3>5, RecognizedIs
    <3>7. Len(scan) # 0
      <4> HIDE DEF scan
      <4>1. Len(scan) = 0 => scan = << >>
        BY <3>5 DEF IsText, Listed
      <4> QED
        BY <3>3, <4>1
    <3>8. part[k] # << >>
      <4> HIDE DEF part, scan
      <4> QED
        BY <3>6, <3>7
    <3> QED
      BY <3>6, <3>8
  <2> QED
    BY <2>1, <2>2
<1> DEFINE U == {u \in UNION {ElementsOf(part[k]) : k \in 1..N} : IsUnit(u)}
           units == FlattenSeq(part)
<1>3. ASSUME NEW k \in 1..N PROVE part[k] \in Seq(U)
  <2> HIDE DEF part
  <2>1. ASSUME NEW j \in 1..Len(part[k]) PROVE part[k][j] \in U
    <3>1. part[k][j] \in ElementsOf(part[k]) /\ IsUnit(part[k][j])
      BY <1>2 DEF ElementsOf, IsText, IsLine, IsUnit
    <3> QED
      BY <3>1
  <2> HIDE DEF U
  <2> QED
    BY <1>2, <2>1, ListedIsSeq DEF IsText, Listed
<1>4. part \in Seq(Seq(U)) /\ Len(part) = N
  <2> HIDE DEF U
  <2>1. part \in [1..N -> Seq(U)]
    BY <1>3
  <2>2. part \in Seq(Seq(U))
    BY <1>1, <2>1, SeqDef
  <2> QED
    BY <1>1, <2>2
<1>5. Stream(doc, pages) = units
  BY DEF Stream
<1> HIDE DEF part, U
<1>6. units \in Seq(U)
  BY <1>4, FlattenSeqType
<1>7. \A u \in U : IsUnit(u)
  BY DEF U
<1>8. ElementsOf(units) = UNION {ElementsOf(part[k]) : k \in 1..N}
  BY <1>4, FlattenSeqElements
<1>9. ASSUME NEW k \in 1..N PROVE \E j \in 1..Len(units) : units[j].page = k
  <2>1. 1 \in 1..Len(part[k])
    <3>1. part[k] \in Seq(U) /\ part[k] # << >>
      BY <1>2, <1>3
    <3>2. Len(part[k]) \in Nat \ {0}
      BY <3>1, EmptySeq
    <3> QED
      BY <3>2
  <2>2. part[k][1] \in ElementsOf(part[k]) /\ part[k][1].page = k
    BY <1>2, <2>1 DEF ElementsOf, IsText, IsLine
  <2>3. part[k][1] \in ElementsOf(units)
    BY <1>8, <2>2
  <2> HIDE DEF units
  <2> QED
    BY <2>2, <2>3 DEF ElementsOf
<1> HIDE DEF units
<1>10. \A k \in 1..Len(units) : IsUnit(units[k])
  BY <1>6, <1>7, ElementOfSeq
<1> QED
  BY <1>5, <1>6, <1>9, <1>10

LEMMA ContractIs ==
  ASSUME source \in Document, NEW c, IsContract(c)
  PROVE  \E pages : /\ pages \in OcrResults(source.pages) /\ AllRead(source.pages, pages)
                    /\ c = Structure(Stream(source.pages, pages)) /\ c.units = Stream(source.pages, pages)
  BY DEF IsContract, ContractOf, Structure

LEMMA ContractsAreCounted ==
  ASSUME source \in Document, NEW c, IsContract(c)
  PROVE  Counted(c)
<1>1. PICK pages : /\ pages \in OcrResults(source.pages) /\ AllRead(source.pages, pages)
                   /\ c.units = Stream(source.pages, pages)
  BY ContractIs
<1> DEFINE units == c.units
<1>2. (\E U : units \in Seq(U)) /\ \A k \in 1..Len(units) : IsUnit(units[k])
  BY <1>1, StreamIs
<1> HIDE DEF units
<1>3. Len(units) \in Nat
  BY <1>2, LenProperties
<1> QED
  BY <1>2, <1>3 DEF Counted, IsUnit, units

-----------------------------------------------------------------------------
(***************************************************************************)
(* Clauses and blocks.                                                     *)
(***************************************************************************)

\* The recursion of BuiltUpTo defines a function.
IsBuilt(g, units, n) ==
  g = [k \in 0..n |-> IF k = 0 THEN NoClauses ELSE PlaceUnit(units, g[k - 1], k)]

LEMMA BuiltExists ==
  ASSUME NEW units, NEW N \in Nat
  PROVE  \E g : IsBuilt(g, units, N)
<1> DEFINE S == {n \in Nat : \E g : IsBuilt(g, units, n)}
<1>1. 0 \in S
  <2> DEFINE g == [k \in 0..0 |-> NoClauses]
  <2>1. \A k \in 0..0 : k = 0
    OBVIOUS
  <2>2. IsBuilt(g, units, 0)
    BY <2>1 DEF IsBuilt
  <2> QED
    BY <2>2
<1>2. ASSUME NEW n \in Nat, n \in S PROVE n + 1 \in S
  <2>1. PICK g : IsBuilt(g, units, n)
    BY <1>2
  <2> DEFINE last == PlaceUnit(units, g[n], n + 1)
             h == [k \in 0..(n + 1) |-> IF k = n + 1 THEN last ELSE g[k]]
             next(k) == IF k = 0 THEN NoClauses ELSE PlaceUnit(units, h[k - 1], k)
  <2>2. ASSUME NEW k \in 0..(n + 1) PROVE h[k] = next(k)
    <3>1. CASE k = n + 1
      <4>1. k # 0 /\ k - 1 = n /\ n \in 0..(n + 1) /\ n # n + 1
        BY <3>1
      <4>2. h[k - 1] = g[n] /\ h[k] = last
        BY <3>1, <4>1
      <4> HIDE DEF h
      <4> QED
        BY <3>1, <4>1, <4>2
    <3>2. CASE k # n + 1
      <4>1. k \in 0..n /\ h[k] = g[k]
        BY <3>2
      <4>2. g[k] = IF k = 0 THEN NoClauses ELSE PlaceUnit(units, g[k - 1], k)
        BY <2>1, <4>1 DEF IsBuilt
      <4>3. k # 0 => k - 1 \in 0..(n + 1) /\ k - 1 # n + 1
        BY <4>1
      <4>4. k # 0 => h[k - 1] = g[k - 1]
        BY <4>3
      <4> HIDE DEF h
      <4> QED
        BY <4>1, <4>2, <4>4
    <3> QED
      BY <3>1, <3>2
  <2>3. h = [k \in 0..(n + 1) |-> h[k]]
    OBVIOUS
  <2> HIDE DEF h
  <2>4. IsBuilt(h, units, n + 1)
    BY <2>2, <2>3 DEF IsBuilt
  <2> QED
    BY <2>4
<1>3. N \in S
  <2> HIDE DEF S
  <2> QED
    BY <1>1, <1>2, ByInduction
<1> QED
  BY <1>3

LEMMA BuiltUpToIs ==
  ASSUME NEW units, Len(units) \in Nat
  PROVE  /\ BuiltUpTo(units)[0] = NoClauses
         /\ \A n \in 1..Len(units) : BuiltUpTo(units)[n] = PlaceUnit(units, BuiltUpTo(units)[n - 1], n)
<1> DEFINE N == Len(units)
           b == CHOOSE g : IsBuilt(g, units, N)
<1>1. IsBuilt(b, units, N)
  BY BuiltExists
<1>2. BuiltUpTo(units) = b
  BY DEF BuiltUpTo, IsBuilt
<1> HIDE DEF b
<1>3. b[0] = NoClauses
  BY <1>1 DEF IsBuilt
<1>4. ASSUME NEW n \in 1..N PROVE b[n] = PlaceUnit(units, b[n - 1], n)
  <2>1. n \in 0..N /\ n # 0
    OBVIOUS
  <2> QED
    BY <1>1, <2>1 DEF IsBuilt
<1> QED
  BY <1>2, <1>3, <1>4

\* A state of the builder.
ClauseSet == [level : Nat, parent : Nat, units : Seq(Nat)]
ClauseUnits(s) == [c \in 1..Len(s.clauses) |-> s.clauses[c].units]
IsState(s) ==
  /\ s = [clauses |-> s.clauses, blocks |-> s.blocks, stack |-> s.stack, pending |-> s.pending]
  /\ s.clauses \in Seq(ClauseSet) /\ s.blocks \in Seq(Seq(Nat)) /\ s.pending \in Seq(Nat)
  /\ \A c \in 1..Len(s.clauses) : s.clauses[c].units # << >>
  /\ s.clauses # << >> => s.pending = << >>

\* The lines placed so far, in the order of the contract.
Order(s) == FlattenSeq(Append(s.blocks, s.pending)) \o FlattenSeq(ClauseUnits(s))
Ascends(o, n) ==
  /\ o \in Seq(Nat)
  /\ \A j \in 1..Len(o) : o[j] \in 1..n
  /\ \A i, j \in 1..Len(o) : i < j => o[i] < o[j]
Leftover(units, s, n) ==
  \A k \in 1..n : k \notin ElementsOf(Order(s)) =>
    IsTitle(units, units[k]) /\ (s.clauses = << >> \/ k < s.clauses[1].units[1])

\* The open clauses are those after which only deeper ones came.
StackIsOpen(s) ==
  /\ \A l \in DOMAIN s.stack :
       /\ s.stack[l] \in 1..Len(s.clauses) /\ s.clauses[s.stack[l]].level = l
       /\ \A i \in 1..Len(s.clauses) : i > s.stack[l] => s.clauses[i].level > l
  /\ \A j \in 1..Len(s.clauses) :
       (\A i \in 1..Len(s.clauses) : i > j => s.clauses[i].level > s.clauses[j].level) =>
         s.clauses[j].level \in DOMAIN s.stack /\ s.stack[s.clauses[j].level] = j

BuiltWell(units, s, n) ==
  /\ IsState(s) /\ Ascends(Order(s), n) /\ Leftover(units, s, n)
  /\ StackIsOpen(s) /\ ParentsAreNearest(s)

LEMMA AscendsFurther ==
  ASSUME NEW o, NEW n \in Nat, Ascends(o, n)
  PROVE  Ascends(o \o <<n + 1>>, n + 1) /\ ElementsOf(o \o <<n + 1>>) = ElementsOf(o) \cup {n + 1}
<1> DEFINE p == o \o <<n + 1>>
           m == Len(o)
<1>1. o \in Seq(Nat) /\ m \in Nat /\ <<n + 1>> \in Seq(Nat) /\ Len(<<n + 1>>) = 1 /\ <<n + 1>>[1] = n + 1
  BY LenProperties DEF Ascends
<1>2. /\ p \in Seq(Nat) /\ Len(p) = m + 1
      /\ \A i \in 1..m + 1 : p[i] = IF i <= m THEN o[i] ELSE <<n + 1>>[i - m]
  BY <1>1, ConcatProperties
<1>3. (\A i \in 1..m : p[i] = o[i]) /\ p[m + 1] = n + 1
  <2>1. ASSUME NEW i \in 1..m PROVE p[i] = o[i]
    <3>1. i \in 1..m + 1 /\ i <= m
      BY <1>1
    <3> QED
      BY <1>2, <3>1
  <2>2. m + 1 \in 1..m + 1 /\ ~(m + 1 <= m) /\ (m + 1) - m = 1
    BY <1>1
  <2> QED
    BY <1>1, <1>2, <2>1, <2>2
<1> HIDE DEF p
<1>4. \A j \in 1..m : o[j] \in 1..n
  BY DEF Ascends
<1>5. ASSUME NEW j \in 1..m + 1 PROVE p[j] \in 1..n + 1
  <2>1. j \in 1..m \/ j = m + 1
    BY <1>1
  <2> QED
    BY <1>3, <1>4, <2>1
<1>6. ASSUME NEW i \in 1..m + 1, NEW j \in 1..m + 1, i < j PROVE p[i] < p[j]
  <2>1. i \in 1..m /\ p[i] = o[i] /\ o[i] \in 1..n
    BY <1>1, <1>3, <1>4, <1>6
  <2>2. CASE j \in 1..m
    BY <1>3, <1>6, <2>1, <2>2 DEF Ascends
  <2>3. CASE j = m + 1
    BY <1>3, <2>1, <2>3
  <2> QED
    BY <1>1, <2>2, <2>3
<1>7. Ascends(p, n + 1)
  BY <1>2, <1>5, <1>6 DEF Ascends
<1>8. ElementsOf(p) = ElementsOf(o) \cup ElementsOf(<<n + 1>>)
  BY <1>1, Concatenated DEF p
<1>9. ElementsOf(<<n + 1>>) = {n + 1}
  <2> DEFINE one == <<n + 1>>
  <2>1. Len(one) = 1 /\ one[1] = n + 1
    OBVIOUS
  <2> HIDE DEF one
  <2> QED
    BY <2>1 DEF ElementsOf
<1> QED
  BY <1>7, <1>8, <1>9 DEF p

LEMMA ClauseUnitsIs ==
  ASSUME NEW s, s.clauses \in Seq(ClauseSet)
  PROVE  /\ ClauseUnits(s) \in Seq(Seq(Nat)) /\ Len(ClauseUnits(s)) = Len(s.clauses) /\ Len(s.clauses) \in Nat
         /\ \A c \in 1..Len(s.clauses) : ClauseUnits(s)[c] = s.clauses[c].units /\ s.clauses[c] \in ClauseSet
<1> DEFINE n == Len(s.clauses)
           V == Seq(Nat)
<1>1. n \in Nat /\ \A c \in 1..n : s.clauses[c] \in ClauseSet
  BY LenProperties, ElementOfSeq
<1>2. \A c \in 1..n : s.clauses[c].units \in V
  BY <1>1 DEF ClauseSet
<1> HIDE DEF V
<1>3. ClauseUnits(s) \in [1..n -> V]
  BY <1>2 DEF ClauseUnits
<1>4. ClauseUnits(s) \in Seq(V) /\ Len(ClauseUnits(s)) = n
  BY <1>1, <1>3, SeqDef DEF ClauseUnits
<1> QED
  BY <1>1, <1>4 DEF ClauseUnits, V

LEMMA Regrouped ==
  \A x, y, z \in Seq(Nat) : (x \o y) \o z = x \o (y \o z)
<1> DEFINE N == Nat
<1> HIDE DEF N
<1>1. \A x, y, z \in Seq(N) : (x \o y) \o z = x \o (y \o z)
  BY ConcatAssociative
<1> QED
  BY <1>1 DEF N

LEMMA OrderIs ==
  ASSUME NEW s, IsState(s)
  PROVE  /\ FlattenSeq(Append(s.blocks, s.pending)) \in Seq(Nat)
         /\ FlattenSeq(Append(s.blocks, s.pending)) = FlattenSeq(s.blocks) \o s.pending
         /\ FlattenSeq(s.blocks) \in Seq(Nat)
         /\ FlattenSeq(ClauseUnits(s)) \in Seq(Nat)
         /\ Order(s) \in Seq(Nat)
<1>1. s.blocks \in Seq(Seq(Nat)) /\ s.pending \in Seq(Nat) /\ s.clauses \in Seq(ClauseSet)
  BY DEF IsState
<1> DEFINE all == Append(s.blocks, s.pending)
<1>2. all \in Seq(Seq(Nat))
  <2> DEFINE V == Seq(Nat)
  <2>1. s.blocks \in Seq(V) /\ s.pending \in V
    BY <1>1
  <2> HIDE DEF V
  <2>2. all \in Seq(V)
    BY <2>1, AppendProperties
  <2> QED
    BY <2>2 DEF V
<1>3. FlattenSeq(all) = FlattenSeq(s.blocks) \o s.pending /\ FlattenSeq(s.blocks) \in Seq(Nat)
  BY <1>1, FlattenSeqAppend, FlattenSeqType
<1>4. FlattenSeq(all) \in Seq(Nat)
  <2> HIDE DEF all
  <2> QED
    BY <1>2, FlattenSeqType
<1>5. FlattenSeq(ClauseUnits(s)) \in Seq(Nat)
  BY <1>1, ClauseUnitsIs, FlattenSeqType
<1> HIDE DEF all
<1>6. FlattenSeq(all) \o FlattenSeq(ClauseUnits(s)) \in Seq(Nat)
  BY <1>4, <1>5, ConcatProperties
<1> QED
  BY <1>3, <1>4, <1>5, <1>6 DEF Order, all

\* The next line at the end of the clauses, or pending before them.
LEMMA OrderGrows ==
  ASSUME NEW s, IsState(s), NEW r, IsState(r), NEW k \in Nat,
         \/ r.blocks = s.blocks /\ r.pending = s.pending /\ FlattenSeq(ClauseUnits(r)) = FlattenSeq(ClauseUnits(s)) \o <<k>>
         \/ r.blocks = s.blocks /\ r.pending = s.pending \o <<k>> /\ r.clauses = << >> /\ s.clauses = << >>
  PROVE  Order(r) = Order(s) \o <<k>>
<1> DEFINE before == FlattenSeq(Append(s.blocks, s.pending))
           after == FlattenSeq(ClauseUnits(s))
           one == <<k>>
<1>1. before \in Seq(Nat) /\ after \in Seq(Nat) /\ one \in Seq(Nat) /\ Order(s) = before \o after
  <2>1. one \in Seq(Nat)
    OBVIOUS
  <2>2. before \in Seq(Nat) /\ after \in Seq(Nat)
    BY OrderIs
  <2> QED
    BY <2>1, <2>2 DEF Order
<1>2. CASE r.blocks = s.blocks /\ r.pending = s.pending /\ FlattenSeq(ClauseUnits(r)) = after \o one
  <2>1. Order(r) = before \o (after \o one)
    BY <1>2 DEF Order
  <2> HIDE DEF before, after, one
  <2>2. before \o (after \o one) = (before \o after) \o one
    BY <1>1, Regrouped, Zenon
  <2> QED
    BY <1>1, <2>1, <2>2 DEF one
<1>3. CASE r.blocks = s.blocks /\ r.pending = s.pending \o one /\ r.clauses = << >> /\ s.clauses = << >>
  <2>1. FlattenSeq(ClauseUnits(r)) = << >> /\ after = << >>
    <3>1. ClauseUnits(r) \in Seq(Seq(Nat)) /\ Len(ClauseUnits(r)) = 0 /\ ClauseUnits(s) \in Seq(Seq(Nat)) /\ Len(ClauseUnits(s)) = 0
      BY <1>3, ClauseUnitsIs, EmptySeq DEF IsState
    <3>2. ClauseUnits(r) = << >> /\ ClauseUnits(s) = << >>
      BY <3>1, EmptySeq
    <3> QED
      BY <3>2, FlattenSeqEmpty
  <2> DEFINE blocks == FlattenSeq(s.blocks)
             pending == s.pending
  <2>2. before = blocks \o pending /\ blocks \in Seq(Nat) /\ pending \in Seq(Nat)
    BY OrderIs DEF IsState
  <2>3. FlattenSeq(Append(r.blocks, r.pending)) = blocks \o (pending \o one)
    BY <1>3, OrderIs
  <2>4. FlattenSeq(Append(r.blocks, r.pending)) \in Seq(Nat)
    BY OrderIs
  <2>5. Order(r) = blocks \o (pending \o one)
    <3> DEFINE x == FlattenSeq(Append(r.blocks, r.pending))
    <3>1. Order(r) = x \o << >>
      BY <2>1 DEF Order
    <3> HIDE DEF x
    <3>2. x \o << >> = x
      BY <2>4, ConcatEmptySeq DEF x
    <3> QED
      BY <2>3, <3>1, <3>2 DEF x
  <2>6. Order(s) = blocks \o pending
    <3> HIDE DEF before, after, blocks, pending
    <3>1. before \o << >> = before
      BY <1>1, ConcatEmptySeq
    <3> QED
      BY <1>1, <2>1, <2>2, <3>1
  <2> HIDE DEF before, after, one, blocks, pending
  <2>7. blocks \o (pending \o one) = (blocks \o pending) \o one
    BY <1>1, <2>2, Regrouped, Zenon
  <2> QED
    BY <2>5, <2>6, <2>7 DEF one
<1> QED
  BY <1>2, <1>3

\* The lines left out stay left out, before the first clause.
LEMMA LeftoverFurther ==
  ASSUME NEW units, NEW s, NEW r, NEW n \in Nat, Leftover(units, s, n), Ascends(Order(s), n), Order(r) = Order(s) \o <<n + 1>>,
         \/ r.clauses = << >>
         \/ s.clauses = << >> /\ r.clauses[1].units[1] = n + 1
         \/ s.clauses # << >> /\ r.clauses[1].units[1] = s.clauses[1].units[1]
  PROVE  Leftover(units, r, n + 1)
<1>1. ElementsOf(Order(r)) = ElementsOf(Order(s)) \cup {n + 1}
  BY AscendsFurther
<1>2. ASSUME NEW k \in 1..n + 1, k \notin ElementsOf(Order(r))
      PROVE  IsTitle(units, units[k]) /\ (r.clauses = << >> \/ k < r.clauses[1].units[1])
  <2>1. k \in 1..n /\ k \notin ElementsOf(Order(s))
    BY <1>1, <1>2
  <2>2. IsTitle(units, units[k]) /\ (s.clauses = << >> \/ k < s.clauses[1].units[1])
    BY <2>1 DEF Leftover
  <2> QED
    BY <2>1, <2>2
<1> QED
  BY <1>2 DEF Leftover

LEMMA FlushWell ==
  ASSUME NEW units, NEW s, NEW n \in Nat, BuiltWell(units, s, n)
  PROVE  BuiltWell(units, FlushPreamble(s), n) /\ FlushPreamble(s).pending = << >>
<1> DEFINE r == FlushPreamble(s)
<1>1. CASE s.pending = << >>
  BY <1>1 DEF FlushPreamble
<1>2. CASE s.pending # << >>
  <2>1. IsState(s) /\ s.clauses = << >>
    BY <1>2 DEF BuiltWell, IsState
  <2>2. r = [s EXCEPT !.blocks = Append(@, s.pending), !.pending = << >>]
    BY <1>2 DEF FlushPreamble
  <2> DEFINE all == Append(s.blocks, s.pending)
  <2> HIDE DEF r
  <2>3. r = [clauses |-> s.clauses, blocks |-> all, stack |-> s.stack, pending |-> << >>]
    BY <2>1, <2>2 DEF IsState
  <2>4. all \in Seq(Seq(Nat))
    <3> DEFINE V == Seq(Nat)
    <3>1. s.blocks \in Seq(V) /\ s.pending \in V
      BY <2>1 DEF IsState
    <3> HIDE DEF V
    <3>2. all \in Seq(V)
      BY <3>1, AppendProperties
    <3> QED
      BY <3>2 DEF V
  <2> HIDE DEF all
  <2>5. r.clauses = s.clauses /\ r.blocks = all /\ r.stack = s.stack /\ r.pending = << >>
    BY <2>3
  <2>6. IsState(r)
    <3>1. << >> \in Seq(Nat)
      BY EmptySeq
    <3> QED
      BY <2>1, <2>3, <2>4, <2>5, <3>1 DEF IsState
  <2>7. FlattenSeq(Append(r.blocks, r.pending)) = FlattenSeq(Append(s.blocks, s.pending))
    <3>1. FlattenSeq(Append(r.blocks, r.pending)) = FlattenSeq(all) \o << >>
      BY <2>5, <2>6, OrderIs
    <3>2. FlattenSeq(all) \in Seq(Nat)
      BY <2>4, FlattenSeqType
    <3>3. FlattenSeq(all) \o << >> = FlattenSeq(all)
      BY <3>2, ConcatEmptySeq
    <3> QED
      BY <3>1, <3>3 DEF all
  <2>8. ClauseUnits(r) = ClauseUnits(s)
    BY <2>5 DEF ClauseUnits
  <2>9. Order(r) = Order(s)
    BY <2>7, <2>8 DEF Order
  <2>10. Leftover(units, r, n) /\ Ascends(Order(r), n)
    BY <2>5, <2>9 DEF BuiltWell, Leftover
  <2>11. StackIsOpen(r) /\ ParentsAreNearest(r)
    BY <2>5 DEF BuiltWell, StackIsOpen, ParentsAreNearest
  <2> QED
    BY <2>5, <2>6, <2>10, <2>11 DEF BuiltWell, r
<1> QED
  BY <1>1, <1>2

LEMMA SkipWell ==
  ASSUME NEW units, NEW s, NEW n \in Nat, BuiltWell(units, s, n), s.clauses = << >>, IsTitle(units, units[n + 1])
  PROVE  BuiltWell(units, s, n + 1)
<1>1. Ascends(Order(s), n + 1)
  <2>1. \A j \in 1..Len(Order(s)) : Order(s)[j] \in 1..n
    BY DEF BuiltWell, Ascends
  <2>2. 1..n \subseteq 1..n + 1
    OBVIOUS
  <2> QED
    BY <2>1, <2>2 DEF BuiltWell, Ascends
<1>2. Leftover(units, s, n + 1)
  <2>1. ASSUME NEW k \in 1..n + 1 PROVE k \in 1..n \/ k = n + 1
    OBVIOUS
  <2> QED
    BY <2>1 DEF BuiltWell, Leftover
<1> QED
  BY <1>1, <1>2 DEF BuiltWell

LEMMA PendingWell ==
  ASSUME NEW units, NEW s, NEW n \in Nat, BuiltWell(units, s, n), s.clauses = << >>,
         NEW r, r = [s EXCEPT !.pending = Append(@, n + 1)]
  PROVE  BuiltWell(units, r, n + 1)
<1> DEFINE longer == Append(s.pending, n + 1)
<1>1. IsState(s) /\ s.pending \in Seq(Nat) /\ n + 1 \in Nat
  BY DEF BuiltWell, IsState
<1>2. longer \in Seq(Nat) /\ longer = s.pending \o <<n + 1>>
  BY <1>1, AppendProperties, AppendIsConcat
<1> HIDE DEF longer
<1>3. r = [clauses |-> s.clauses, blocks |-> s.blocks, stack |-> s.stack, pending |-> longer]
  BY <1>1 DEF IsState, longer
<1>4. r.clauses = s.clauses /\ r.blocks = s.blocks /\ r.stack = s.stack /\ r.pending = longer
  BY <1>3
<1>5. IsState(r)
  BY <1>1, <1>2, <1>3, <1>4 DEF IsState
<1>6. Order(r) = Order(s) \o <<n + 1>>
  BY <1>1, <1>2, <1>4, <1>5, OrderGrows
<1>7. Ascends(Order(r), n + 1) /\ Leftover(units, r, n + 1)
  BY <1>4, <1>6, AscendsFurther, LeftoverFurther DEF BuiltWell
<1>8. StackIsOpen(r) /\ ParentsAreNearest(r)
  BY <1>4 DEF BuiltWell, StackIsOpen, ParentsAreNearest
<1> QED
  BY <1>5, <1>7, <1>8 DEF BuiltWell

LEMMA LargestExists ==
  ASSUME NEW N \in Nat
  PROVE  \A S \in SUBSET (1..N) : S # {} => \E x \in S : \A y \in S : y <= x
<1> DEFINE Has(S) == S # {} => \E x \in S : \A y \in S : y <= x
           T == {n \in Nat : \A S \in SUBSET (1..n) : Has(S)}
<1>1. 0 \in T
  <2>1. \A S \in SUBSET (1..0) : S = {}
    OBVIOUS
  <2> QED
    BY <2>1
<1>2. ASSUME NEW n \in Nat, n \in T PROVE n + 1 \in T
  <2>1. ASSUME NEW S \in SUBSET (1..n + 1), S # {} PROVE \E x \in S : \A y \in S : y <= x
    <3>1. CASE n + 1 \in S
      <4>1. \A y \in S : y <= n + 1
        OBVIOUS
      <4> QED
        BY <3>1, <4>1
    <3>2. CASE n + 1 \notin S
      <4>1. S \in SUBSET (1..n)
        BY <3>2
      <4> QED
        BY <1>2, <2>1, <4>1
    <3> QED
      BY <3>1, <3>2
  <2> QED
    BY <2>1
<1>3. N \in T
  <2> HIDE DEF T
  <2> QED
    BY <1>1, <1>2, ByInduction
<1> QED
  BY <1>3

\* The open clause of the deepest level above is the last clause of a smaller level.
ParentOf(s, level) ==
  LET below == {l \in DOMAIN s.stack : l < level}
  IN IF below = {} THEN 0 ELSE s.stack[CHOOSE l \in below : \A m \in below : m <= l]

LEMMA ParentIs ==
  ASSUME NEW s, IsState(s), StackIsOpen(s), NEW level \in Nat
  PROVE  LET above == {i \in 1..Len(s.clauses) : s.clauses[i].level < level}
             parent == ParentOf(s, level)
         IN /\ above = {} => parent = 0
            /\ above # {} => parent \in above /\ \A i \in above : i <= parent
<1> DEFINE m == Len(s.clauses)
           above == {i \in 1..m : s.clauses[i].level < level}
           below == {l \in DOMAIN s.stack : l < level}
           Deepest(l) == \A x \in below : x <= l
           parent == ParentOf(s, level)
<1>1. m \in Nat /\ \A i \in 1..m : s.clauses[i].level \in Nat
  BY ClauseUnitsIs DEF IsState, ClauseSet
<1>2. \A l \in below : s.stack[l] \in above /\ s.clauses[s.stack[l]].level = l
  BY DEF StackIsOpen
<1>3. CASE above = {}
  <2>1. below = {}
    BY <1>2, <1>3
  <2> QED
    BY <1>3, <2>1 DEF ParentOf
<1>4. CASE above # {}
  <2>1. PICK i \in above : \A y \in above : y <= i
    <3>1. above \in SUBSET (1..m)
      OBVIOUS
    <3> HIDE DEF above
    <3> QED
      BY <1>1, <1>4, <3>1, LargestExists
  <2> DEFINE l == s.clauses[i].level
  <2>2. i \in 1..m /\ l \in Nat /\ l < level
    BY <1>1
  <2>3. ASSUME NEW j \in 1..m, j > i PROVE s.clauses[j].level > l
    <3>1. j \notin above
      BY <1>1, <2>1, <2>2, <2>3
    <3>2. ~(s.clauses[j].level < level) /\ s.clauses[j].level \in Nat
      BY <1>1, <3>1
    <3> QED
      BY <2>2, <3>2
  <2>4. l \in DOMAIN s.stack /\ s.stack[l] = i
    BY <2>2, <2>3 DEF StackIsOpen
  <2>5. l \in below
    BY <2>2, <2>4
  <2>6. ASSUME NEW x \in below PROVE x <= l
    <3>1. s.stack[x] \in above /\ s.clauses[s.stack[x]].level = x /\ s.stack[x] \in 1..m
      BY <1>2
    <3>2. s.stack[x] <= i /\ x \in Nat
      BY <1>1, <2>1, <3>1
    <3>3. i > s.stack[x] => l > x
      BY <2>2, <3>1 DEF StackIsOpen
    <3> QED
      BY <1>1, <2>2, <3>1, <3>2, <3>3
  <2>7. Deepest(l)
    BY <2>6
  <2> DEFINE chosen == CHOOSE x \in below : Deepest(x)
  <2>8. chosen \in below /\ Deepest(chosen)
    <3> HIDE DEF Deepest, below
    <3> QED
      BY <2>5, <2>7
  <2>9. parent = s.stack[chosen]
    BY <2>5 DEF ParentOf
  <2> HIDE DEF chosen, parent
  <2>10. chosen = l
    <3>1. chosen <= l /\ l <= chosen
      BY <2>5, <2>6, <2>8
    <3>2. chosen \in Nat
      <4>1. chosen = s.clauses[s.stack[chosen]].level /\ s.stack[chosen] \in 1..m
        BY <1>2, <2>8
      <4> QED
        BY <1>1, <4>1
    <3> QED
      BY <2>2, <3>1, <3>2
  <2>11. parent = i
    BY <2>4, <2>9, <2>10
  <2> QED
    BY <1>4, <2>1, <2>11 DEF parent
<1> QED
  BY <1>3, <1>4

LEMMA OpenIs ==
  ASSUME NEW s, IsState(s), NEW k, NEW level
  PROVE  LET below == {l \in DOMAIN s.stack : l < level}
         IN OpenClause(s, k, level) =
              [clauses |-> Append(s.clauses, [level |-> level, parent |-> ParentOf(s, level), units |-> <<k>>]),
               blocks |-> s.blocks,
               stack |-> [l \in below \cup {level} |-> IF l = level THEN Len(s.clauses) + 1 ELSE s.stack[l]],
               pending |-> s.pending]
<1> DEFINE below == {l \in DOMAIN s.stack : l < level}
           clause == [level |-> level, parent |-> ParentOf(s, level), units |-> <<k>>]
           stack == [l \in below \cup {level} |-> IF l = level THEN Len(s.clauses) + 1 ELSE s.stack[l]]
           r == OpenClause(s, k, level)
<1>1. r = [s EXCEPT !.clauses = Append(@, clause), !.stack = stack]
  BY DEF OpenClause, ParentOf
<1> HIDE DEF clause, stack, r
<1>2. r = [clauses |-> Append(s.clauses, clause), blocks |-> s.blocks, stack |-> stack, pending |-> s.pending]
  BY <1>1 DEF IsState
<1> QED
  BY <1>2 DEF clause, stack, r

LEMMA OpenWell ==
  ASSUME NEW units, NEW s, NEW n \in Nat, BuiltWell(units, s, n), s.pending = << >>, NEW level \in Nat
  PROVE  BuiltWell(units, OpenClause(s, n + 1, level), n + 1)
<1> DEFINE m == Len(s.clauses)
           one == <<n + 1>>
           parent == ParentOf(s, level)
           clause == [level |-> level, parent |-> parent, units |-> one]
           below == {l \in DOMAIN s.stack : l < level}
           stack == [l \in below \cup {level} |-> IF l = level THEN m + 1 ELSE s.stack[l]]
           above == {i \in 1..m : s.clauses[i].level < level}
           r == OpenClause(s, n + 1, level)
<1>1. IsState(s) /\ StackIsOpen(s) /\ s.clauses \in Seq(ClauseSet)
  BY DEF BuiltWell, IsState
<1>2. /\ m \in Nat /\ \A i \in 1..m : s.clauses[i] \in ClauseSet /\ s.clauses[i].level \in Nat
      /\ ClauseUnits(s) \in Seq(Seq(Nat)) /\ Len(ClauseUnits(s)) = m
      /\ \A i \in 1..m : ClauseUnits(s)[i] = s.clauses[i].units
  BY <1>1, ClauseUnitsIs DEF ClauseSet
<1>3. /\ above = {} => parent = 0
      /\ above # {} => parent \in above /\ \A i \in above : i <= parent
  <2> HIDE DEF parent
  <2> QED
    BY <1>1, ParentIs DEF parent
<1>4. parent \in Nat
  BY <1>2, <1>3
<1>5. one \in Seq(Nat) /\ one # << >> /\ one[1] = n + 1
  OBVIOUS
<1>6. r = [clauses |-> Append(s.clauses, clause), blocks |-> s.blocks, stack |-> stack, pending |-> s.pending]
  BY <1>1, OpenIs
<1> HIDE DEF parent, one, r, stack
<1>7. clause \in ClauseSet
  BY <1>4, <1>5 DEF ClauseSet
<1>8. clause.level = level /\ clause.parent = parent /\ clause.units = one
  OBVIOUS
<1> HIDE DEF clause
<1>9. r.clauses = Append(s.clauses, clause) /\ r.blocks = s.blocks /\ r.stack = stack /\ r.pending = s.pending
  BY <1>6
<1>10. /\ r.clauses \in Seq(ClauseSet) /\ r.clauses # << >> /\ Len(r.clauses) = m + 1
       /\ \A i \in 1..m : r.clauses[i] = s.clauses[i]
       /\ r.clauses[m + 1] = clause
  BY <1>1, <1>7, <1>9, AppendProperties
<1>11. \A i \in 1..m + 1 : i \in 1..m \/ i = m + 1
  BY <1>2
<1>12. IsState(r)
  <2>1. \A c \in 1..m + 1 : r.clauses[c].units # << >>
    BY <1>1, <1>5, <1>8, <1>10, <1>11 DEF IsState
  <2> QED
    BY <1>1, <1>6, <1>9, <1>10, <2>1 DEF IsState
<1>13. FlattenSeq(ClauseUnits(r)) = FlattenSeq(ClauseUnits(s)) \o one
  <2> DEFINE V == Seq(Nat)
             cu == ClauseUnits(s)
             cv == ClauseUnits(r)
  <2>1. cu \in Seq(V) /\ one \in V
    BY <1>2, <1>5
  <2>2. cv \in Seq(V) /\ Len(cv) = m + 1 /\ \A i \in 1..m + 1 : cv[i] = r.clauses[i].units
    BY <1>10, ClauseUnitsIs
  <2> HIDE DEF V
  <2>3. /\ Append(cu, one) \in Seq(V) /\ Len(Append(cu, one)) = m + 1
        /\ \A i \in 1..m : Append(cu, one)[i] = cu[i]
        /\ Append(cu, one)[m + 1] = one
    BY <1>2, <2>1, AppendProperties
  <2>4. \A i \in 1..m + 1 : cv[i] = Append(cu, one)[i]
    BY <1>2, <1>8, <1>10, <1>11, <2>2, <2>3
  <2>5. cv = Append(cu, one)
    <3> HIDE DEF cv, cu
    <3> QED
      BY <2>2, <2>3, <2>4, SeqEqual
  <2> HIDE DEF cu, cv
  <2>6. FlattenSeq(Append(cu, one)) = FlattenSeq(cu) \o one
    BY <2>1, FlattenSeqAppend DEF V
  <2> QED
    BY <2>5, <2>6 DEF cu, cv
<1>14. Order(r) = Order(s) \o one
  <2>1. n + 1 \in Nat
    OBVIOUS
  <2> QED
    BY <1>1, <1>9, <1>12, <1>13, <2>1, OrderGrows DEF one
<1>15. Ascends(Order(r), n + 1)
  BY <1>14, AscendsFurther DEF BuiltWell, one
<1>16. Leftover(units, r, n + 1)
  <2>1. CASE s.clauses = << >>
    <3>1. m = 0
      BY <2>1
    <3>2. r.clauses[1].units[1] = n + 1
      BY <1>5, <1>8, <1>10, <3>1
    <3> QED
      BY <1>14, <2>1, <3>2, LeftoverFurther DEF BuiltWell, one
  <2>2. CASE s.clauses # << >>
    <3>1. 1 \in 1..m
      BY <1>1, <2>2, EmptySeq
    <3>2. r.clauses[1].units[1] = s.clauses[1].units[1]
      BY <1>10, <3>1
    <3> QED
      BY <1>14, <2>2, <3>2, LeftoverFurther DEF BuiltWell, one
  <2> QED
    BY <2>1, <2>2
<1>17. StackIsOpen(r)
  <2>1. DOMAIN stack = below \cup {level} /\ stack[level] = m + 1 /\ \A l \in below : stack[l] = s.stack[l] /\ l # level
    <3>1. \A l \in below : l # level
      <4>1. \A l \in below : l \in Nat /\ l < level
        BY <1>1, <1>2 DEF StackIsOpen
      <4> QED
        BY <4>1
    <3> QED
      BY <3>1 DEF stack
  <2>2. ASSUME NEW l \in below
        PROVE  /\ stack[l] \in 1..m + 1 /\ r.clauses[stack[l]].level = l
               /\ \A i \in 1..m + 1 : i > stack[l] => r.clauses[i].level > l
    <3>1. stack[l] = s.stack[l] /\ s.stack[l] \in 1..m /\ s.clauses[s.stack[l]].level = l /\ l < level
      BY <1>1, <2>1 DEF StackIsOpen
    <3>2. \A i \in 1..m : i > s.stack[l] => s.clauses[i].level > l
      BY <1>1, <3>1 DEF StackIsOpen
    <3>3. l \in Nat
      BY <1>2, <3>1
    <3>4. stack[l] \in 1..m + 1 /\ r.clauses[stack[l]].level = l
      <4> DEFINE x == s.stack[l]
      <4>1. x \in 1..m /\ s.clauses[x].level = l /\ stack[l] = x
        BY <3>1
      <4> HIDE DEF x
      <4>2. r.clauses[x] = s.clauses[x] /\ x \in 1..m + 1
        BY <1>2, <1>10, <4>1
      <4> QED
        BY <4>1, <4>2
    <3>5. ASSUME NEW i \in 1..m + 1, i > stack[l] PROVE r.clauses[i].level > l
      <4>1. CASE i \in 1..m
        BY <1>10, <3>1, <3>2, <3>5, <4>1
      <4>2. CASE i = m + 1
        BY <1>8, <1>10, <3>1, <3>3, <4>2
      <4> QED
        BY <1>11, <4>1, <4>2
    <3> QED
      BY <3>4, <3>5
  <2>3. /\ stack[level] \in 1..m + 1 /\ r.clauses[stack[level]].level = level
        /\ \A i \in 1..m + 1 : i > stack[level] => r.clauses[i].level > level
    BY <1>2, <1>8, <1>10, <2>1
  <2>4. ASSUME NEW j \in 1..m + 1, \A i \in 1..m + 1 : i > j => r.clauses[i].level > r.clauses[j].level
        PROVE  r.clauses[j].level \in DOMAIN stack /\ stack[r.clauses[j].level] = j
    <3>1. CASE j = m + 1
      BY <1>8, <1>10, <2>1, <3>1
    <3>2. CASE j \in 1..m
      <4>1. ASSUME NEW i \in 1..m, i > j PROVE s.clauses[i].level > s.clauses[j].level
        <5>1. r.clauses[i] = s.clauses[i] /\ r.clauses[j] = s.clauses[j] /\ i \in 1..m + 1
          BY <1>2, <1>10, <3>2
        <5> QED
          BY <2>4, <4>1, <5>1
      <4>2. m + 1 \in 1..m + 1 /\ m + 1 > j
        BY <1>2, <3>2
      <4>3. level > s.clauses[j].level
        BY <1>8, <1>10, <2>4, <3>2, <4>2
      <4>4. s.clauses[j].level \in DOMAIN s.stack /\ s.stack[s.clauses[j].level] = j
        BY <1>1, <3>2, <4>1 DEF StackIsOpen
      <4>5. s.clauses[j].level \in below
        BY <1>2, <3>2, <4>3, <4>4
      <4> HIDE DEF below
      <4> QED
        BY <1>10, <2>1, <3>2, <4>4, <4>5
    <3> QED
      BY <1>11, <3>1, <3>2
  <2> HIDE DEF below
  <2> QED
    BY <1>9, <1>10, <2>1, <2>2, <2>3, <2>4 DEF StackIsOpen
<1>18. ParentsAreNearest(r)
  <2> DEFINE Above(c, j) == {i \in 1..j - 1 : c[i].level < c[j].level}
             Near(c, j) == IF Above(c, j) = {} THEN c[j].parent = 0
                           ELSE c[j].parent \in Above(c, j) /\ \A i \in Above(c, j) : i <= c[j].parent
  <2>1. ASSUME NEW j \in 1..m PROVE Near(r.clauses, j)
    <3>1. Near(s.clauses, j)
      BY DEF BuiltWell, ParentsAreNearest
    <3>2. \A i \in 1..j - 1 : i \in 1..m
      BY <1>2
    <3>3. r.clauses[j] = s.clauses[j] /\ \A i \in 1..j - 1 : r.clauses[i] = s.clauses[i]
      BY <1>10, <3>2
    <3>4. Above(r.clauses, j) = Above(s.clauses, j)
      BY <3>3
    <3> HIDE DEF Above
    <3> QED
      BY <3>1, <3>3, <3>4
  <2>2. Near(r.clauses, m + 1)
    <3>1. (m + 1) - 1 = m
      BY <1>2
    <3>2. Above(r.clauses, m + 1) = above
      BY <1>8, <1>10, <3>1
    <3> HIDE DEF Above, above
    <3> QED
      BY <1>3, <1>8, <1>10, <3>2
  <2>3. \A j \in 1..Len(r.clauses) : Near(r.clauses, j)
    <3> HIDE DEF Near
    <3> QED
      BY <1>10, <1>11, <2>1, <2>2
  <2> QED
    BY <2>3 DEF ParentsAreNearest
<1> QED
  BY <1>12, <1>15, <1>16, <1>17, <1>18 DEF BuiltWell, r

\* The next line of the last clause.
LEMMA BodyIs ==
  ASSUME NEW s, IsState(s), s.clauses # << >>, NEW k \in Nat,
         NEW r, r = [s EXCEPT !.clauses[Len(s.clauses)].units = Append(@, k)]
  PROVE  LET m == Len(s.clauses)
             last == s.clauses[m]
             longer == [level |-> last.level, parent |-> last.parent, units |-> Append(last.units, k)]
         IN /\ m \in Nat \ {0} /\ last \in ClauseSet /\ longer \in ClauseSet
            /\ r = [clauses |-> [s.clauses EXCEPT ![m] = longer], blocks |-> s.blocks, stack |-> s.stack, pending |-> s.pending]
<1> DEFINE m == Len(s.clauses)
           last == s.clauses[m]
           more == Append(last.units, k)
           longer == [level |-> last.level, parent |-> last.parent, units |-> more]
<1>1. m \in Nat \ {0} /\ s.clauses \in Seq(ClauseSet) /\ last \in ClauseSet
  <2>1. s.clauses \in Seq(ClauseSet)
    BY DEF IsState
  <2>2. m \in Nat \ {0}
    BY <2>1, EmptySeq
  <2>3. m \in 1..m
    BY <2>2
  <2> QED
    BY <2>1, <2>2, <2>3, ElementOfSeq
<1>2. last.level \in Nat /\ last.parent \in Nat /\ last.units \in Seq(Nat)
      /\ last = [level |-> last.level, parent |-> last.parent, units |-> last.units]
  BY <1>1 DEF ClauseSet
<1>3. more \in Seq(Nat)
  BY <1>2, AppendProperties
<1>4. longer \in ClauseSet
  <2> HIDE DEF last, more
  <2> QED
    BY <1>2, <1>3 DEF ClauseSet
<1> DEFINE changed == [last EXCEPT !.units = more]
<1>5. changed = longer
  <2> HIDE DEF more, last
  <2>1. ASSUME NEW x, x = [last EXCEPT !.units = more] PROVE x = longer
    BY <1>2, <2>1
  <2> QED
    BY <2>1
<1>6. r = [s EXCEPT !.clauses = [s.clauses EXCEPT ![m] = changed]]
  OBVIOUS
<1> HIDE DEF changed, longer, m
<1> DEFINE clauses == [s.clauses EXCEPT ![m] = longer]
<1>7. r = [s EXCEPT !.clauses = clauses]
  BY <1>5, <1>6
<1> HIDE DEF clauses
<1>8. r = [clauses |-> clauses, blocks |-> s.blocks, stack |-> s.stack, pending |-> s.pending]
  BY <1>7 DEF IsState
<1> QED
  BY <1>1, <1>4, <1>8 DEF clauses, longer, m

LEMMA BodyWell ==
  ASSUME NEW units, NEW s, NEW n \in Nat, BuiltWell(units, s, n), s.clauses # << >>,
         NEW r, r = [s EXCEPT !.clauses[Len(s.clauses)].units = Append(@, n + 1)]
  PROVE  BuiltWell(units, r, n + 1)
<1> DEFINE m == Len(s.clauses)
           last == s.clauses[m]
           one == <<n + 1>>
           more == Append(last.units, n + 1)
           longer == [level |-> last.level, parent |-> last.parent, units |-> more]
<1>1. IsState(s) /\ s.clauses \in Seq(ClauseSet) /\ s.pending = << >>
  BY DEF BuiltWell, IsState
<1>2. /\ m \in Nat \ {0} /\ last \in ClauseSet /\ longer \in ClauseSet
      /\ r = [clauses |-> [s.clauses EXCEPT ![m] = longer], blocks |-> s.blocks, stack |-> s.stack, pending |-> s.pending]
  <2>1. n + 1 \in Nat
    OBVIOUS
  <2> QED
    BY <1>1, <2>1, BodyIs
<1>3. last.units \in Seq(Nat) /\ one \in Seq(Nat) /\ last.units # << >>
  <2>1. m \in 1..m
    BY <1>2
  <2>2. one \in Seq(Nat)
    OBVIOUS
  <2>3. last.units # << >>
    BY <1>1, <2>1 DEF IsState
  <2> HIDE DEF last, one
  <2> QED
    BY <1>2, <2>2, <2>3 DEF ClauseSet
<1>4. /\ more \in Seq(Nat) /\ more # << >> /\ more = last.units \o one
      /\ more[1] = last.units[1]
  <2>1. n + 1 \in Nat
    OBVIOUS
  <2>2. more \in Seq(Nat) /\ more # << >> /\ \A i \in 1..Len(last.units) : more[i] = last.units[i]
    <3> DEFINE x == last.units
    <3>1. x \in Seq(Nat)
      BY <1>3
    <3> DEFINE e == n + 1
    <3> HIDE DEF x, e
    <3>2. e \in Nat
      BY <2>1 DEF e
    <3>3. Append(x, e) \in Seq(Nat) /\ Append(x, e) # << >> /\ \A i \in 1..Len(x) : Append(x, e)[i] = x[i]
      <4>1. Append(x, e) \in Seq(Nat) /\ Append(x, e) # << >>
        BY <3>1, <3>2, AppendProperties
      <4>2. \A i \in 1..Len(x) : Append(x, e)[i] = x[i]
        BY <3>1, <3>2, AppendProperties
      <4> QED
        BY <4>1, <4>2
    <3> QED
      BY <3>3 DEF x, e
  <2>3. 1 \in 1..Len(last.units)
    BY <1>3, EmptySeq
  <2>4. more = last.units \o one
    <3> DEFINE x == last.units
    <3>1. x \in Seq(Nat)
      BY <1>3
    <3> HIDE DEF x
    <3>2. Append(x, n + 1) = x \o <<n + 1>>
      BY <2>1, <3>1, AppendIsConcat
    <3> QED
      BY <3>2 DEF x
  <2> QED
    BY <2>2, <2>3, <2>4
<1>5. longer.level = last.level /\ longer.parent = last.parent /\ longer.units = more
  OBVIOUS
<1> HIDE DEF longer, more
<1> DEFINE clauses == [s.clauses EXCEPT ![m] = longer]
<1>6. r.clauses = clauses /\ r.blocks = s.blocks /\ r.stack = s.stack /\ r.pending = s.pending
  <2> HIDE DEF clauses
  <2>1. r = [clauses |-> clauses, blocks |-> s.blocks, stack |-> s.stack, pending |-> s.pending]
    BY <1>2 DEF clauses
  <2> QED
    BY <2>1
<1>7. /\ r.clauses \in Seq(ClauseSet) /\ Len(r.clauses) = m /\ r.clauses[m] = longer
      /\ \A i \in 1..m : i # m => r.clauses[i] = s.clauses[i]
  <2>1. m \in 1..m /\ longer \in ClauseSet
    BY <1>2
  <2> HIDE DEF m
  <2>2. /\ clauses \in Seq(ClauseSet) /\ Len(clauses) = Len(s.clauses)
        /\ \A i \in 1..Len(s.clauses) : clauses[i] = IF i = m THEN longer ELSE s.clauses[i]
    BY <1>1, <2>1, ExceptSeq DEF m
  <2> HIDE DEF clauses
  <2> QED
    BY <1>6, <2>1, <2>2 DEF m
<1> HIDE DEF clauses
<1>8. \A i \in 1..m : r.clauses[i].level = s.clauses[i].level /\ r.clauses[i].parent = s.clauses[i].parent
  BY <1>5, <1>7
<1>9. r.clauses # << >> /\ 1 \in 1..m
  <2>1. r.clauses = << >> => Len(r.clauses) = 0
    OBVIOUS
  <2> QED
    BY <1>2, <1>7, <2>1
<1>10. IsState(r)
  <2>1. \A c \in 1..m : r.clauses[c].units # << >>
    BY <1>1, <1>4, <1>5, <1>7 DEF IsState
  <2>2. r = [clauses |-> r.clauses, blocks |-> r.blocks, stack |-> r.stack, pending |-> r.pending]
    BY <1>2, <1>6
  <2> QED
    BY <1>1, <1>6, <1>7, <2>1, <2>2 DEF IsState
<1>11. FlattenSeq(ClauseUnits(r)) = FlattenSeq(ClauseUnits(s)) \o one
  <2> DEFINE V == Seq(Nat)
             cu == ClauseUnits(s)
             cv == ClauseUnits(r)
             front == [i \in 1..m - 1 |-> cu[i]]
  <2>1. cu \in Seq(V) /\ Len(cu) = m /\ \A i \in 1..m : cu[i] = s.clauses[i].units
    BY <1>1, ClauseUnitsIs
  <2>2. cv \in Seq(V) /\ Len(cv) = m /\ \A i \in 1..m : cv[i] = r.clauses[i].units
    BY <1>7, ClauseUnitsIs
  <2>3. last.units \in V /\ more \in V
    BY <1>3, <1>4
  <2> HIDE DEF V, cu, cv
  <2>4. front \in Seq(V) /\ Len(front) = m - 1 /\ \A i \in 1..m - 1 : front[i] = cu[i]
    <3>1. m - 1 \in Nat /\ \A i \in 1..m - 1 : cu[i] \in V
      <4>1. \A i \in 1..m - 1 : i \in 1..m
        BY <1>2
      <4> QED
        BY <1>2, <2>1, <4>1, ElementOfSeq
    <3>2. front \in [1..m - 1 -> V]
      BY <3>1
    <3>3. front \in Seq(V)
      BY <3>1, <3>2, SeqDef
    <3> QED
      BY <3>1, <3>3
  <2> HIDE DEF front
  <2>5. \A x \in V : /\ Append(front, x) \in Seq(V) /\ Len(Append(front, x)) = m
                     /\ \A i \in 1..m - 1 : Append(front, x)[i] = front[i]
                     /\ Append(front, x)[m] = x
    <3>1. (m - 1) + 1 = m
      BY <1>2
    <3> QED
      BY <2>4, <3>1, AppendProperties
  <2>6. \A i \in 1..m : i \in 1..m - 1 \/ i = m
    BY <1>2
  <2>7. cu = Append(front, last.units)
    <3>1. \A i \in 1..m : cu[i] = Append(front, last.units)[i]
      BY <2>1, <2>3, <2>4, <2>5, <2>6
    <3> QED
      BY <2>1, <2>3, <2>5, <3>1, SeqEqual
  <2>8. cv = Append(front, more)
    <3>1. ASSUME NEW i \in 1..m PROVE cv[i] = Append(front, more)[i]
      <4>1. CASE i = m
        BY <1>5, <1>7, <2>2, <2>3, <2>5, <4>1
      <4>2. CASE i # m
        <5>1. i \in 1..m - 1
          BY <2>6, <4>2
        <5>2. cv[i] = cu[i]
          BY <1>7, <2>1, <2>2, <4>2
        <5> QED
          BY <2>3, <2>4, <2>5, <5>1, <5>2
      <4> QED
        BY <4>1, <4>2
    <3>2. Append(front, more) \in Seq(V) /\ Len(Append(front, more)) = m
      BY <2>3, <2>5
    <3> DEFINE cw == Append(front, more)
    <3> HIDE DEF cw
    <3>3. cw \in Seq(V) /\ Len(cw) = Len(cv) /\ \A i \in 1..Len(cv) : cv[i] = cw[i]
      BY <2>2, <3>1, <3>2 DEF cw
    <3>4. cv = cw
      BY <2>2, <3>3, SeqEqual
    <3> QED
      BY <3>4 DEF cw
  <2>9. /\ FlattenSeq(cu) = FlattenSeq(front) \o last.units
        /\ FlattenSeq(cv) = FlattenSeq(front) \o more
        /\ FlattenSeq(front) \in Seq(Nat)
    <3>1. front \in Seq(Seq(Nat)) /\ last.units \in Seq(Nat) /\ more \in Seq(Nat)
      BY <1>3, <1>4, <2>4 DEF V
    <3> QED
      BY <2>7, <2>8, <3>1, FlattenSeqAppend, FlattenSeqType
  <2> DEFINE a == FlattenSeq(front)
             b == last.units
  <2>10. a \in Seq(Nat) /\ b \in Seq(Nat)
    BY <1>3, <2>9
  <2> HIDE DEF a, b, one
  <2>11. (a \o b) \o one = a \o (b \o one)
    BY <1>3, <2>10, Regrouped DEF b
  <2> QED
    BY <1>4, <2>9, <2>11 DEF a, b, cu, cv
<1>12. Order(r) = Order(s) \o one
  <2>1. n + 1 \in Nat
    OBVIOUS
  <2> QED
    BY <1>1, <1>6, <1>10, <1>11, <2>1, OrderGrows
<1>13. Ascends(Order(r), n + 1)
  BY <1>12, AscendsFurther DEF BuiltWell
<1>14. r.clauses[1].units[1] = s.clauses[1].units[1]
  BY <1>4, <1>5, <1>7, <1>9
<1>15. Leftover(units, r, n + 1)
  BY <1>12, <1>14, LeftoverFurther DEF BuiltWell
<1>16. StackIsOpen(r)
  BY <1>6, <1>7, <1>8 DEF BuiltWell, StackIsOpen
<1>17. ParentsAreNearest(r)
  <2> DEFINE Above(c, j) == {i \in 1..j - 1 : c[i].level < c[j].level}
             Near(c, j) == IF Above(c, j) = {} THEN c[j].parent = 0
                           ELSE c[j].parent \in Above(c, j) /\ \A i \in Above(c, j) : i <= c[j].parent
  <2>1. ASSUME NEW j \in 1..m PROVE Near(r.clauses, j)
    <3>1. Near(s.clauses, j)
      BY DEF BuiltWell, ParentsAreNearest
    <3>2. \A i \in 1..j - 1 : i \in 1..m
      BY <1>2
    <3>3. Above(r.clauses, j) = Above(s.clauses, j) /\ r.clauses[j].parent = s.clauses[j].parent
      BY <1>8, <3>2
    <3> HIDE DEF Above
    <3> QED
      BY <3>1, <3>3
  <2> HIDE DEF Near
  <2>2. \A j \in 1..Len(r.clauses) : Near(r.clauses, j)
    BY <1>7, <2>1
  <2> QED
    BY <2>2 DEF ParentsAreNearest, Near
<1> QED
  BY <1>10, <1>13, <1>15, <1>16, <1>17 DEF BuiltWell

LEMMA NothingBuilt ==
  ASSUME NEW units
  PROVE  BuiltWell(units, NoClauses, 0)
<1> DEFINE s == NoClauses
           none == [l \in {} |-> 0]
<1>1. s = [clauses |-> << >>, blocks |-> << >>, stack |-> none, pending |-> << >>]
  BY DEF NoClauses
<1> HIDE DEF s, none
<1>2. s.clauses = << >> /\ s.blocks = << >> /\ s.stack = none /\ s.pending = << >>
  BY <1>1
<1>3. Len(s.clauses) = 0 /\ 1..0 = {}
  BY <1>2
<1>4. IsState(s)
  <2>1. << >> \in Seq(ClauseSet) /\ << >> \in Seq(Seq(Nat)) /\ << >> \in Seq(Nat)
    BY EmptySeq
  <2> QED
    BY <1>1, <1>2, <1>3, <2>1 DEF IsState
<1>5. Order(s) = << >>
  <2>1. FlattenSeq(Append(s.blocks, s.pending)) = FlattenSeq(s.blocks) \o << >>
    BY <1>2, <1>4, OrderIs
  <2>2. FlattenSeq(s.blocks) = << >>
    BY <1>2, FlattenSeqEmpty
  <2>3. ClauseUnits(s) = << >>
    <3>1. ClauseUnits(s) \in Seq(Seq(Nat)) /\ Len(ClauseUnits(s)) = 0
      BY <1>3, <1>4, ClauseUnitsIs DEF IsState
    <3> QED
      BY <3>1, EmptySeq
  <2>4. FlattenSeq(ClauseUnits(s)) = << >>
    BY <2>3, FlattenSeqEmpty
  <2>5. << >> \o << >> = << >>
    BY EmptySeq, ConcatEmptySeq
  <2> QED
    BY <2>1, <2>2, <2>4, <2>5 DEF Order
<1>6. Ascends(Order(s), 0)
  <2>1. << >> \in Seq(Nat) /\ Len(<< >>) = 0
    BY EmptySeq
  <2> QED
    BY <1>3, <1>5, <2>1 DEF Ascends
<1>7. Leftover(units, s, 0)
  BY <1>3 DEF Leftover
<1>8. StackIsOpen(s) /\ ParentsAreNearest(s)
  <2>1. DOMAIN s.stack = {}
    BY <1>2 DEF none
  <2> QED
    BY <1>3, <2>1 DEF StackIsOpen, ParentsAreNearest
<1> QED
  BY <1>4, <1>6, <1>7, <1>8 DEF BuiltWell, s

LEMMA LevelsAreNat ==
  ASSUME NEW u, IsUnit(u), u.heading # None
  PROVE  Level(u.heading) \in Nat
  BY DEF IsUnit, Level

LEMMA PlaceWell ==
  ASSUME NEW units, NEW s, NEW n \in Nat, BuiltWell(units, s, n), IsUnit(units[n + 1])
  PROVE  BuiltWell(units, PlaceUnit(units, s, n + 1), n + 1)
<1> DEFINE u == units[n + 1]
<1>1. CASE s.clauses = << >> /\ IsTitle(units, u)
  BY <1>1, SkipWell DEF PlaceUnit
<1>2. CASE ~(s.clauses = << >> /\ IsTitle(units, u)) /\ u.heading # None
  <2>1. PlaceUnit(units, s, n + 1) = OpenClause(FlushPreamble(s), n + 1, Level(u.heading))
    BY <1>2 DEF PlaceUnit
  <2>2. BuiltWell(units, FlushPreamble(s), n) /\ FlushPreamble(s).pending = << >> /\ Level(u.heading) \in Nat
    BY <1>2, FlushWell, LevelsAreNat
  <2> QED
    BY <2>1, <2>2, OpenWell
<1>3. CASE ~(s.clauses = << >> /\ IsTitle(units, u)) /\ u.heading = None
  <2>1. CASE s.clauses = << >>
    <3>1. PlaceUnit(units, s, n + 1) = [s EXCEPT !.pending = Append(@, n + 1)]
      BY <1>3, <2>1 DEF PlaceUnit
    <3> QED
      BY <2>1, <3>1, PendingWell
  <2>2. CASE s.clauses # << >>
    <3>1. PlaceUnit(units, s, n + 1) = [s EXCEPT !.clauses[Len(s.clauses)].units = Append(@, n + 1)]
      BY <1>3, <2>2 DEF PlaceUnit
    <3> QED
      BY <2>2, <3>1, BodyWell
  <2> QED
    BY <2>1, <2>2
<1> QED
  BY <1>1, <1>2, <1>3

LEMMA BuildsWell ==
  ASSUME NEW units, Len(units) \in Nat, \A k \in 1..Len(units) : IsUnit(units[k])
  PROVE  BuiltWell(units, BuildClauses(units), Len(units)) /\ BuildClauses(units).pending = << >>
<1> DEFINE N == Len(units)
           b == BuiltUpTo(units)
           T == {n \in 0..N : BuiltWell(units, b[n], n)}
<1>1. b[0] = NoClauses /\ \A n \in 1..N : b[n] = PlaceUnit(units, b[n - 1], n)
  BY BuiltUpToIs
<1> HIDE DEF b
<1>2. 0 \in T
  BY <1>1, NothingBuilt
<1>3. ASSUME NEW n \in 1..N, n - 1 \in T PROVE n \in T
  <2> DEFINE m == n - 1
  <2>1. m \in Nat /\ m + 1 = n /\ BuiltWell(units, b[m], m) /\ IsUnit(units[n])
    BY <1>3
  <2>2. b[n] = PlaceUnit(units, b[m], n)
    BY <1>1
  <2> HIDE DEF m
  <2>3. BuiltWell(units, PlaceUnit(units, b[m], m + 1), m + 1)
    BY <2>1, PlaceWell
  <2> QED
    BY <2>1, <2>2, <2>3
<1>4. N \in T
  <2> HIDE DEF T
  <2>1. \A n \in 0..N : n \in T
    BY <1>2, <1>3, ByInductionUpTo
  <2> QED
    BY <2>1
<1> QED
  BY <1>4, FlushWell DEF BuildClauses, b

LEMMA UnitsOfIs ==
  ASSUME NEW ss
  PROVE  UnitsOf(ss) = UNION {ElementsOf(ss[k]) : k \in 1..Len(ss)}
<1>1. ASSUME NEW x \in UnitsOf(ss)
      PROVE  x \in UNION {ElementsOf(ss[k]) : k \in 1..Len(ss)}
  <2>1. PICK k \in 1..Len(ss) : x \in {ss[k][j] : j \in 1..Len(ss[k])}
    BY <1>1 DEF UnitsOf
  <2>2. x \in ElementsOf(ss[k])
    BY <2>1 DEF ElementsOf
  <2> QED
    BY <2>2
<1>2. ASSUME NEW x \in UNION {ElementsOf(ss[k]) : k \in 1..Len(ss)}
      PROVE  x \in UnitsOf(ss)
  <2>1. PICK k \in 1..Len(ss) : x \in ElementsOf(ss[k])
    OBVIOUS
  <2>2. x \in {ss[k][j] : j \in 1..Len(ss[k])}
    BY <2>1 DEF ElementsOf
  <2> QED
    BY <2>2 DEF UnitsOf
<1> QED
  BY <1>1, <1>2

LEMMA ContractsAreWhole ==
  ASSUME source \in Document, NEW c, IsContract(c)
  PROVE  IsWhole(source.pages, c)
<1>1. PICK pages : /\ pages \in OcrResults(source.pages) /\ AllRead(source.pages, pages)
                   /\ c = Structure(Stream(source.pages, pages))
  BY ContractIs
<1> DEFINE units == Stream(source.pages, pages)
           s == BuildClauses(units)
           N == Len(units)
<1>2. /\ \E U : units \in Seq(U)
      /\ \A k \in 1..N : IsUnit(units[k])
      /\ \A k \in 1..Len(source.pages) : \E j \in 1..N : units[j].page = k
  BY <1>1, StreamIs
<1> HIDE DEF units
<1>3. N \in Nat
  BY <1>2, LenProperties
<1>4. BuiltWell(units, s, N) /\ s.pending = << >>
  BY <1>2, <1>3, BuildsWell
<1>5. c.units = units /\ c.clauses = s.clauses /\ c.blocks = s.blocks
  BY <1>1 DEF Structure, units
<1> HIDE DEF s
<1>6. PagesArePresent(source.pages, c)
  BY <1>2, <1>5 DEF PagesArePresent
<1>7. ParentsAreNearest(c)
  BY <1>4, <1>5 DEF BuiltWell, ParentsAreNearest
<1>8. LinesArePlaced(c)
  <2> DEFINE cu == ClauseUnits(s)
             blocks == FlattenSeq(s.blocks)
             order == blocks \o FlattenSeq(cu)
  <2>1. IsState(s) /\ s.blocks \in Seq(Seq(Nat)) /\ s.clauses \in Seq(ClauseSet)
    BY <1>4 DEF BuiltWell, IsState
  <2>2. Order(s) = order
    <3>1. FlattenSeq(Append(s.blocks, s.pending)) = blocks \o << >> /\ blocks \in Seq(Nat)
      BY <1>4, <2>1, OrderIs
    <3>2. blocks \o << >> = blocks
      <4> HIDE DEF blocks
      <4> QED
        BY <3>1, ConcatEmptySeq
    <3> QED
      BY <3>1, <3>2 DEF Order
  <2>3. blocks \in Seq(Nat) /\ FlattenSeq(cu) \in Seq(Nat)
    BY <2>1, OrderIs
  <2>4. cu \in Seq(Seq(Nat)) /\ Len(cu) = Len(s.clauses)
    BY <2>1, ClauseUnitsIs
  <2>5. ElementsOf(order) = UnitsOf(s.blocks) \cup UnitsOf(cu)
    <3>1. ElementsOf(order) = ElementsOf(blocks) \cup ElementsOf(FlattenSeq(cu))
      <4> DEFINE after == FlattenSeq(cu)
      <4> HIDE DEF blocks, after
      <4> QED
        BY <2>3, Concatenated DEF after
    <3>2. ElementsOf(blocks) = UnitsOf(s.blocks)
      BY <2>1, FlattenSeqElements, UnitsOfIs
    <3>3. ElementsOf(FlattenSeq(cu)) = UnitsOf(cu)
      <4> HIDE DEF cu
      <4> QED
        BY <2>4, FlattenSeqElements, UnitsOfIs
    <3> QED
      BY <3>1, <3>2, <3>3
  <2>6. Placed(c) = ElementsOf(Order(s))
    <3>1. cu = [k \in 1..Len(c.clauses) |-> c.clauses[k].units]
      BY <1>5 DEF ClauseUnits
    <3> HIDE DEF cu, order
    <3> QED
      BY <1>5, <2>2, <2>5, <3>1 DEF Placed
  <2>7. \A j \in 1..Len(Order(s)) - 1 : Order(s)[j] < Order(s)[j + 1]
    <3> DEFINE o == Order(s)
    <3>1. o \in Seq(Nat) /\ \A i, j \in 1..Len(o) : i < j => o[i] < o[j]
      BY <1>4 DEF BuiltWell, Ascends
    <3> HIDE DEF o
    <3>2. Len(o) \in Nat
      BY <3>1, LenProperties
    <3>3. \A j \in 1..Len(o) - 1 : j \in 1..Len(o) /\ j + 1 \in 1..Len(o) /\ j < j + 1
      BY <3>2
    <3>4. \A j \in 1..Len(o) - 1 : o[j] < o[j + 1]
      BY <3>1, <3>3
    <3> QED
      BY <3>4 DEF o
  <2>8. \A k \in (1..N) \ Placed(c) : IsTitle(units, units[k]) /\ (s.clauses = << >> \/ k < s.clauses[1].units[1])
    BY <1>4, <2>6 DEF BuiltWell, Leftover
  <2>9. Order(s) = FlattenSeq(c.blocks) \o FlattenSeq([j \in 1..Len(c.clauses) |-> c.clauses[j].units])
    BY <1>5, <2>2 DEF ClauseUnits
  <2> HIDE DEF cu, blocks, order
  <2> QED
    BY <1>5, <2>7, <2>8, <2>9 DEF LinesArePlaced
<1> QED
  BY <1>6, <1>7, <1>8 DEF IsWhole

-----------------------------------------------------------------------------
(* The theorems.                                                           *)

\* The contract a reader finds is the whole document, in its order and hierarchy,
\* whichever document was uploaded and whichever OCR results were replaced.
\* (build_contract_structure, _load_inputs)
THEOREM ContractIsTheDocument == LocalSpec => []EvidenceIsStructured
<1>1. LocalIInv => EvidenceIsStructured
  <2> SUFFICES ASSUME LocalIInv, Readable("contract") PROVE IsWhole(Doc, files.contract)
    BY DEF EvidenceIsStructured
  <2>1. source \in Document
    BY BeforeIsEmpty DEF File
  <2>2. AfterTheUpload /\ "contract" \in File
    BY <2>1 DEF LocalIInv, File
  <2>3. Fits("contract", files["contract"]) /\ Inspected
    BY <2>2 DEF AfterTheUpload, Readable
  <2>4. Doc = source.pages
    BY <2>3, InspectedIs
  <2>5. IsContract(files.contract)
    BY <2>3 DEF Fits
  <2> QED
    BY <2>1, <2>4, <2>5, ContractsAreWhole
<1> QED
  BY <1>1, LocalInvariance, PTL

\* The verdicts a reader finds follow from the contract they name, whatever its text
\* is. (evaluate_contract)
THEOREM VerdictsFollow == LocalSpec => []VerdictsFollowTheText
<1>1. LocalIInv => VerdictsFollowTheText
  <2> SUFFICES ASSUME LocalIInv, Readable("rules")
               PROVE  FollowTheText(files.rules.contract, files.rules.results)
    BY DEF VerdictsFollowTheText
  <2>1. source \in Document
    BY BeforeIsEmpty DEF File
  <2>2. AfterTheUpload /\ "rules" \in File
    BY <2>1 DEF LocalIInv, File
  <2>3. Fits("rules", files["rules"])
    BY <2>2 DEF AfterTheUpload
  <2> DEFINE x == files.rules
             c == x.contract
  <2>4. IsContract(c) /\ x = [contract |-> c, results |-> Evaluate(c)]
    BY <2>3 DEF Fits
  <2>5. Counted(c)
    BY <2>1, <2>4, ContractsAreCounted
  <2>6. FollowTheText(c, Evaluate(c))
    BY <2>5, RulesFollow
  <2>7. x.results = Evaluate(c)
    <3> HIDE DEF x
    <3> QED
      BY <2>4
  <2> QED
    BY <2>6, <2>7
<1> QED
  BY <1>1, LocalInvariance, PTL
=============================================================================
