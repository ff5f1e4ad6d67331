----------------------------- MODULE AuditPlan -----------------------------
(***************************************************************************)
(* What the audit planner computes: the passes a contract is cut into,     *)
(* the input and the validation of each pass, and the plan merged from the *)
(* checklist, the deterministic hints and the answers of the model.        *)
(*                                                                         *)
(* An item (clause or unnumbered block) is [id, size, topics], topics the  *)
(* keyword routes its text matches; a contract is [items, facts], facts    *)
(* the characters of its global facts.  A rule result is [id, topic,       *)
(* state, objects].  A draft is [type, issues], and an issue of a draft is *)
(* [topic, priority, objects, sound]: sound says that it has a topic,      *)
(* questions and queries, none empty or too long.  Topics are normalised.  *)
(*                                                                         *)
(* A loop over a sequence is a recursive function of the positions done.   *)
(***************************************************************************)
EXTENDS Integers, Sequences, FiniteSets, SequencesExt

CONSTANTS
  Topic, Object, RuleResult,       \* topics, clauses and blocks, results of the rules, by id
  General, TypeSpecific,           \* the checklist: topics, and topics by contract type
  DirectLimit,                     \* characters of one request (60 000)
  ChunkChars, ChunkItems,          \* target size of a chunk (18 000, 24)
  MaxPasses,                       \* requests of one plan (256)
  IndexChars, PreviewMin, PreviewMax   \* the index of the global pass (36 000, 24, 180)

ASSUME LimitsArePositive ==
  /\ {DirectLimit, ChunkChars, ChunkItems, MaxPasses, IndexChars, PreviewMin} \subseteq Nat \ {0}
  /\ PreviewMax \in Nat /\ PreviewMin <= PreviewMax

Item == [id : Object, size : Nat, topics : SUBSET Topic]
Finding == [id : RuleResult, topic : Topic, state : {"PASS", "FAIL", "REVIEW", "NOT_APPLICABLE"},
            objects : SUBSET Object]
Issue == [topic : Topic, priority : {"NORMAL", "IMPORTANT", "HIGH_ATTENTION"}, objects : SUBSET Object,
          sound : BOOLEAN]

ASSUME ChecklistIsTopics ==
  General \in Seq(Topic) /\ \A type \in DOMAIN TypeSpecific : TypeSpecific[type] \in Seq(Topic)

Rank == [NORMAL |-> 0, IMPORTANT |-> 1, HIGH_ATTENTION |-> 2]
PriorityMax(a, b) == IF Rank[a] >= Rank[b] THEN a ELSE b
Lesser(a, b) == IF a <= b THEN a ELSE b
Greater(a, b) == IF a <= b THEN b ELSE a

-----------------------------------------------------------------------------
(* Inputs.  The input of a pass is [items, facts, rules, topics], topics a *)
(* sequence of [topic, objects].                                           *)

Ids(items) == {items[k].id : k \in 1..Len(items)}
Chars(items) == FoldLeft(LAMBDA n, item : n + item.size, 0, items)
TotalChars(input) == Chars(input.items) + input.facts

\* The elements of a sequence at some of its positions, in order.
Selected(seq, positions) ==
  LET upTo[n \in 0..Len(seq)] ==
        IF n = 0 THEN << >> ELSE IF n \in positions THEN Append(upTo[n - 1], seq[n]) ELSE upTo[n - 1]
  IN upTo[Len(seq)]

\* The findings of the rules, and the keyword routes (Routes: every route, in order).
RuleHints(results) == Selected(results, {k \in 1..Len(results) : results[k].state \in {"FAIL", "REVIEW"}})
TopicHints(items, routes) ==
  LET Of(t) == {items[k].id : k \in {j \in 1..Len(items) : t \in items[j].topics}}
  IN Selected([j \in 1..Len(routes) |-> [topic |-> routes[j], objects |-> Of(routes[j])]],
              {j \in 1..Len(routes) : Of(routes[j]) # {}})

FullInput(contract, results, routes) ==
  [items |-> contract.items, facts |-> contract.facts,
   rules |-> RuleHints(results), topics |-> TopicHints(contract.items, routes)]

\* A hint that names objects goes to the chunks that hold one of them.
Shown(hints, ids) ==
  LET Cut(h) == [h EXCEPT !.objects = @ \cap ids]
  IN [j \in 1..Len(hints) |-> Cut(hints[j])]
FilterRules(hints, ids) ==
  Shown(Selected(hints, {k \in 1..Len(hints) : hints[k].objects = {} \/ hints[k].objects \cap ids # {}}), ids)
FilterTopics(hints, ids) ==
  Shown(Selected(hints, {k \in 1..Len(hints) : hints[k].objects \cap ids # {}}), ids)

ChunkInput(full, chunk) ==
  [items |-> chunk, facts |-> full.facts, rules |-> FilterRules(full.rules, Ids(chunk)),
   topics |-> FilterTopics(full.topics, Ids(chunk))]

\* The index of the global pass: every item cut to a preview, the drafts reduced
\* to one fact per classification and one per topic.
Preview(items) == Lesser(PreviewMax, Greater(PreviewMin, IndexChars \div Len(items)))
Classes(drafts) == {drafts[k].type : k \in 1..Len(drafts)}
TopicsOf(draft) == {draft.issues[j].topic : j \in 1..Len(draft.issues)}
Summary(drafts) ==
  Cardinality(Classes(drafts)) + Cardinality(UNION {TopicsOf(drafts[k]) : k \in 1..Len(drafts)})
Index(items) == [j \in 1..Len(items) |-> [items[j] EXCEPT !.size = Lesser(@, Preview(items))]]
GlobalInput(full, drafts) == [full EXCEPT !.items = Index(@), !.facts = @ + Summary(drafts)]

-----------------------------------------------------------------------------
(* Chunks.                                                                 *)

NoChunk == [chunks |-> << >>, current |-> << >>]
\* Mutant of Flush: the items stay in the chunk that follows.
FlushKept(s) == IF s.current = << >> THEN s ELSE [s EXCEPT !.chunks = Append(@, s.current)]
Flush(s) == IF s.current = << >> THEN s
            ELSE [chunks |-> Append(s.chunks, s.current), current |-> << >>]
Full(items) == Chars(items) >= ChunkChars \/ Len(items) >= ChunkItems

Place(s, item) ==
  LET over == /\ s.current # << >>
              /\ Chars(s.current) + item.size > ChunkChars \/ Len(s.current) >= ChunkItems
      taken == [(IF over THEN Flush(s) ELSE s) EXCEPT !.current = Append(@, item)]
  IN IF Full(taken.current) THEN Flush(taken) ELSE taken

CutUpTo(items) ==
  LET upTo[n \in 0..Len(items)] == IF n = 0 THEN NoChunk ELSE Place(upTo[n - 1], items[n])
  IN upTo
Chunks(items) == Flush(CutUpTo(items)[Len(items)]).chunks

\* build_planner_chunks raises, or run_hierarchical_audit_planner has nothing to plan.
Unplannable(items) ==
  \/ \E k \in 1..Len(items) : items[k].size > DirectLimit
  \/ Len(Chunks(items)) + 1 > MaxPasses
  \/ items = << >>

-----------------------------------------------------------------------------
(* Merging.  A plan's issues: topic -> [priority, sources, objects, rules].*)

BaselineFor(type) == General \o (IF type \in DOMAIN TypeSpecific THEN TypeSpecific[type] ELSE << >>)

Part(topic, priority, source, objects, rules) ==
  [topic |-> topic, priority |-> priority, source |-> source, objects |-> objects, rules |-> rules]
BaselineParts(type) ==
  [k \in 1..Len(BaselineFor(type)) |-> Part(BaselineFor(type)[k], "NORMAL", "BASELINE", {}, {})]
RuleParts(hints) ==
  [k \in 1..Len(hints) |->
     Part(hints[k].topic, IF hints[k].state = "FAIL" THEN "HIGH_ATTENTION" ELSE "IMPORTANT",
          "DETERMINISTIC_HINT", hints[k].objects, {hints[k].id})]
TopicParts(hints) ==
  [k \in 1..Len(hints) |->
     Part(hints[k].topic, "IMPORTANT", "DETERMINISTIC_HINT", hints[k].objects, {})]
DynamicParts(draft) ==
  [k \in 1..Len(draft.issues) |->
     Part(draft.issues[k].topic, draft.issues[k].priority, "LLM_DYNAMIC", draft.issues[k].objects, {})]
Parts(input, draft) ==
  BaselineParts(draft.type) \o RuleParts(input.rules) \o TopicParts(input.topics) \o DynamicParts(draft)

\* merge_audit_plan raises nothing.
Valid(input, draft) ==
  /\ \A k \in 1..Len(Parts(input, draft)) : Parts(input, draft)[k].objects \subseteq Ids(input.items)
  /\ \A k \in 1..Len(draft.issues) : draft.issues[k].sound

NewIssue(p) == [priority |-> p.priority, sources |-> {p.source}, objects |-> p.objects, rules |-> p.rules]

\* _merge_issue, and upsert on a topic that is there.
Merged(target, source) ==
  [priority |-> PriorityMax(target.priority, source.priority),
   sources |-> target.sources \cup source.sources,
   objects |-> target.objects \cup source.objects,
   rules |-> target.rules \cup source.rules]

With(issues, topic, issue) ==
  [t \in DOMAIN issues \cup {topic} |->
     IF t # topic THEN issues[t]
     ELSE IF topic \in DOMAIN issues THEN Merged(issues[topic], issue) ELSE issue]
NoIssues == [t \in {} |-> {}]

\* upsert, part by part.
MergeUpTo(parts) ==
  LET upTo[n \in 0..Len(parts)] ==
        IF n = 0 THEN NoIssues ELSE With(upTo[n - 1], parts[n].topic, NewIssue(parts[n]))
  IN upTo
MergePlan(input, draft) == MergeUpTo(Parts(input, draft))[Len(Parts(input, draft))]

\* Mutant of Joined: the draft of a chunk only raises what the plan has.
JoinedKnown(plan, local) ==
  [t \in DOMAIN plan |-> IF t \in DOMAIN local /\ "LLM_DYNAMIC" \in local[t].sources
                         THEN Merged(plan[t], local[t]) ELSE plan[t]]

\* What the draft of a chunk named joins the plan.
Joined(plan, local) ==
  LET dynamic == {t \in DOMAIN local : "LLM_DYNAMIC" \in local[t].sources}
  IN [t \in DOMAIN plan \cup dynamic |->
        IF t \notin dynamic THEN plan[t]
        ELSE IF t \in DOMAIN plan THEN Merged(plan[t], local[t]) ELSE local[t]]

\* _merge_local_dynamic_issues, draft by draft.
JoinUpTo(issues, full, drafts) ==
  LET upTo[n \in 0..Len(drafts)] ==
        IF n = 0 THEN issues ELSE Joined(upTo[n - 1], MergePlan(full, drafts[n]))
  IN upTo
MergeLocal(issues, full, drafts) == JoinUpTo(issues, full, drafts)[Len(drafts)]

\* Which issues concern an object: empty is REVIEWED_NO_SPECIFIC_ISSUE.
CoverageOf(items, chunks, issues) ==
  [i \in Ids(items) |->
     [chunks |-> {k \in 1..Len(chunks) : i \in Ids(chunks[k])},
      issues |-> {t \in DOMAIN issues : i \in issues[t].objects}]]
CoverageComplete(coverage) == \A i \in DOMAIN coverage : coverage[i].chunks # {}
=============================================================================
