---------------------------- MODULE AuditPlanner ----------------------------
(***************************************************************************)
(* One planner run of a job: it reads contract.json and then               *)
(* audit-rules.json, which the endpoints may rebuild meanwhile, plans in   *)
(* one request or, above the budget, in one request per chunk and a global *)
(* one, and replaces audit-plan.json at the end.  The provider boundary of *)
(* each request is modelled in PipelineControl and ProviderBoundary; here  *)
(* it may refuse.                                                          *)
(***************************************************************************)
EXTENDS AuditPlan

CONSTANTS
  Contract,      \* contents of contract.json
  Content,       \* [Contract -> [items, facts]]
  Results,       \* [Contract -> Seq of rule results]: what the rules find in it
  Routes,        \* the keyword routes, in order
  Draft,         \* drafts of the strict schema
  NoFile           \* a file that is missing, truncated or malformed

ASSUME InputsAreTyped ==
  /\ \A c \in Contract : Content[c].items \in Seq(Item) /\ Content[c].facts \in Nat /\ Results[c] \in Seq(Finding)
  /\ Routes \in Seq(Topic)
  /\ \A d \in Draft : d.issues \in Seq(Issue)

ASSUME ObjectsAreDistinct ==
  \A c \in Contract : \A j, k \in 1..Len(Content[c].items) :
    Content[c].items[j].id = Content[c].items[k].id => j = k

ASSUME NoFileIsNoContract == NoFile \notin Contract

VARIABLES
  contract,      \* contract.json
  rules,         \* audit-rules.json, by the contract it was computed from
  plan,          \* audit-plan.json
  run            \* the planner
vars == <<contract, rules, plan, run>>

Idle == [pc |-> "idle", contract |-> NoFile, rules |-> NoFile, chunks |-> << >>, drafts |-> << >>, result |-> NoFile]

Direct == run.chunks = << >>

\* Mutant of Local: the last chunk is not asked for.
LocalShort == Len(run.drafts) + 1 < Len(run.chunks)
Local == Len(run.drafts) < Len(run.chunks)
FullOf(c, r) == FullInput(Content[c], Results[r], Routes)
Input ==
  LET full == FullOf(run.contract, run.rules)
  IN IF Direct THEN full
     ELSE IF Local THEN ChunkInput(full, run.chunks[Len(run.drafts) + 1])
     ELSE GlobalInput(full, run.drafts)

Pass(items, draft) == [objects |-> [k \in 1..Len(items) |-> items[k].id], answer |-> draft]

\* The plan of the run when d answers its last pass.
PlanFor(d) ==
  LET full == FullOf(run.contract, run.rules)
      merged == MergePlan(full, d)
      issues == IF Direct THEN merged ELSE MergeLocal(merged, full, run.drafts)
      chunks == IF Direct THEN <<full.items>> ELSE run.chunks
  IN [contract |-> run.contract, rules |-> run.rules, type |-> d.type, issues |-> issues,
      passes |-> [k \in 1..Len(run.drafts) |-> Pass(run.chunks[k], run.drafts[k])]
                   \o <<Pass(full.items, d)>>,
      coverage |-> CoverageOf(full.items, chunks, issues)]

-----------------------------------------------------------------------------
Init ==
  /\ contract \in Contract /\ rules = contract
  /\ plan = NoFile
  /\ run = Idle

At(pc) == run.pc = pc
Goto(pc) == run' = [run EXCEPT !.pc = pc]
\* An exception ends the run; the plan in force stays.
Fail == run' = Idle /\ UNCHANGED <<contract, rules, plan>>

ReadContract ==
  /\ At("idle") /\ contract # NoFile
  /\ run' = [Idle EXCEPT !.pc = "rules", !.contract = contract]
  /\ UNCHANGED <<contract, rules, plan>>

\* Above the budget the hierarchical planner reads both files again.
ReadRules ==
  /\ At("rules") /\ rules # NoFile
  /\ run' = IF TotalChars(FullOf(run.contract, rules)) > DirectLimit
            THEN [run EXCEPT !.pc = "again"]
            ELSE [run EXCEPT !.pc = "pass", !.rules = rules]
  /\ UNCHANGED <<contract, rules, plan>>

ReadContractAgain ==
  /\ At("again") /\ contract # NoFile
  /\ run' = [run EXCEPT !.pc = "chunks", !.contract = contract]
  /\ UNCHANGED <<contract, rules, plan>>

CutChunks ==
  /\ At("chunks") /\ rules # NoFile
  /\ ~Unplannable(Content[run.contract].items)
  /\ run' = [run EXCEPT !.pc = "pass", !.rules = rules, !.chunks = Chunks(Content[run.contract].items)]
  /\ UNCHANGED <<contract, rules, plan>>

CannotStart ==
  /\ \/ At("again") /\ contract = NoFile
     \/ (At("rules") \/ At("chunks")) /\ rules = NoFile
     \/ At("chunks") /\ rules # NoFile /\ Unplannable(Content[run.contract].items)
  /\ Fail

Ask ==
  /\ At("pass") /\ TotalChars(Input) <= DirectLimit
  /\ Goto("asked")
  /\ UNCHANGED <<contract, rules, plan>>

\* The chunk or the index is over the budget, or the boundary refuses.
NotAsked == At("pass") /\ Fail

\* Mutant of UsableDraft: an answer is checked against the whole contract.
UsableAnywhere(d) == Valid(FullOf(run.contract, run.rules), d)
UsableDraft(d) == Valid(Input, d)

AnswerChunk(d) ==
  /\ At("asked") /\ Local /\ UsableDraft(d)
  /\ run' = [run EXCEPT !.pc = "pass", !.drafts = Append(@, d)]
  /\ UNCHANGED <<contract, rules, plan>>

AnswerLast(d) ==
  /\ At("asked") /\ ~Local /\ UsableDraft(d)
  /\ Direct \/ CoverageComplete(PlanFor(d).coverage)
  /\ run' = [run EXCEPT !.pc = "write", !.result = PlanFor(d)]
  /\ UNCHANGED <<contract, rules, plan>>

\* The provider fails, or its answer is no draft or names what it was not shown.
NoAnswer == At("asked") /\ Fail

Write ==
  /\ At("write")
  /\ plan' = run.result
  /\ run' = Idle
  /\ UNCHANGED <<contract, rules>>

Rebuild ==
  /\ contract' \in Contract \cup {NoFile}
  /\ UNCHANGED <<rules, plan, run>>
Recheck ==
  /\ contract # NoFile /\ rules' \in {contract, NoFile}
  /\ UNCHANGED <<contract, plan, run>>

Next ==
  \/ ReadContract \/ ReadRules \/ ReadContractAgain \/ CutChunks \/ CannotStart
  \/ Ask \/ NotAsked \/ NoAnswer \/ Write \/ Rebuild \/ Recheck
  \/ \E d \in Draft : AnswerChunk(d) \/ AnswerLast(d)
Spec == Init /\ [][Next]_vars

-----------------------------------------------------------------------------
(* Properties.                                                             *)

Priority == {"NORMAL", "IMPORTANT", "HIGH_ATTENTION"}
Source == {"BASELINE", "DETERMINISTIC_HINT", "LLM_DYNAMIC"}
Planned ==
  [priority : Priority, sources : SUBSET Source, objects : SUBSET Object, rules : SUBSET RuleResult]

Answered(p) == {p.passes[k].answer : k \in 1..Len(p.passes)}

\* A plan is made of one contract and of rule results that were there, of drafts of
\* the schema, and its issues have the form of the artifact.
Made(p) ==
  /\ p.contract \in Contract /\ p.rules \in Contract
  /\ Answered(p) \subseteq Draft
  /\ DOMAIN p.issues \subseteq Topic /\ \A t \in DOMAIN p.issues : p.issues[t] \in Planned

\* Files, plans and the run are of their kind; a run is past a place only with what
\* it has read there, its chunks are those of its contract, and it holds no more
\* drafts than chunks and as many when its plan is made.
TypeOK ==
  /\ contract \in Contract \cup {NoFile} /\ rules \in Contract \cup {NoFile}
  /\ plan # NoFile => Made(plan)
  /\ run.pc \in {"idle", "rules", "again", "chunks", "pass", "asked", "write"}
  /\ run.contract \in Contract \cup {NoFile} /\ run.rules \in Contract \cup {NoFile}
  /\ run.pc # "idle" => run.contract \in Contract
  /\ run.pc \in {"pass", "asked", "write"} => run.rules \in Contract
  /\ run.chunks # << >> =>
       /\ run.pc \in {"pass", "asked", "write"}
       /\ run.chunks = Chunks(Content[run.contract].items)
  /\ run.drafts \in Seq(Draft) /\ Len(run.drafts) <= Len(run.chunks)
  /\ At("write") => Made(run.result) /\ Len(run.drafts) = Len(run.chunks)

IssuesOf(draft) == {draft.issues[j] : j \in 1..Len(draft.issues)}
HintsOf(p) ==
  LET full == FullOf(p.contract, p.rules)
      all == RuleParts(full.rules) \o TopicParts(full.topics)
  IN {all[k] : k \in 1..Len(all)}

\* Nothing a plan was made from is lost on the way through the chunks, the summary
\* and the merges: every topic of the checklist, every hint and every issue of every
\* pass is in the plan with all its objects and at least its priority.
\* (merge_audit_plan, _merge_local_dynamic_issues)
HoldsEveryFinding(p) ==
  /\ \A k \in 1..Len(BaselineFor(p.type)) : BaselineFor(p.type)[k] \in DOMAIN p.issues
  /\ \A f \in HintsOf(p) \cup UNION {IssuesOf(d) : d \in Answered(p)} :
       /\ f.topic \in DOMAIN p.issues
       /\ f.objects \subseteq p.issues[f.topic].objects
       /\ Rank[f.priority] <= Rank[p.issues[f.topic].priority]
EveryFindingIsPlanned == plan # NoFile => HoldsEveryFinding(plan)

\* An issue points at an object only when a hint did, or a pass that was shown the
\* object named it: an answer never reaches beyond the text of its own request, also
\* when the contract is rebuilt between the reads. (run_hierarchical_audit_planner)
PointsAtShown(p) ==
  \A t \in DOMAIN p.issues : \A o \in p.issues[t].objects :
    \/ \E h \in HintsOf(p) : h.topic = t /\ o \in h.objects
    \/ \E k \in 1..Len(p.passes) :
         /\ \E j \in 1..Len(p.passes[k].objects) : p.passes[k].objects[j] = o
         /\ \E i \in IssuesOf(p.passes[k].answer) : i.topic = t /\ o \in i.objects
IssuesPointAtShownObjects == plan # NoFile => PointsAtShown(plan)

\* The local passes of a plan cut the contract it names into consecutive pieces that
\* miss and repeat nothing, and their number is bounded. (build_planner_chunks)
PartitionsItsContract(p) ==
  LET n == Len(p.passes)
      all == Pass(Content[p.contract].items, NoFile).objects
      shown == FlattenSeq([k \in 1..n - 1 |-> p.passes[k].objects])
  IN /\ n <= MaxPasses
     /\ p.passes[n].objects = all
     /\ n > 1 => shown = all
     /\ \A o \in Ids(Content[p.contract].items) : p.coverage[o].chunks # {}
PassesPartitionTheContract == plan # NoFile => PartitionsItsContract(plan)
=============================================================================
