--------------------------- MODULE MCAuditPlanner ---------------------------
EXTENDS AuditPlanner
CONSTANTS o1, o2, o3, o4
Text(id, size, topics) == [id |-> id, size |-> size, topics |-> topics]
MCContract == {"short", "long", "huge", "empty"}
MCContent == [
  short |-> [items |-> <<Text(o1, 2, {"pay"}), Text(o2, 1, {})>>, facts |-> 1],
  \* Cut before o2 (too many characters), then after o3 (too many items).
  long  |-> [items |-> <<Text(o1, 2, {}), Text(o2, 2, {"pay"}), Text(o3, 0, {}), Text(o4, 4, {"pay"})>>,
             facts |-> 2],
  \* An object no request can hold.
  huge  |-> [items |-> <<Text(o1, 9, {})>>, facts |-> 0],
  empty |-> [items |-> << >>, facts |-> 9]]
Found(id, state, objects) == [id |-> id, topic |-> "finding", state |-> state, objects |-> objects]
MCResults == [
  short |-> <<Found("r1", "REVIEW", {o1}), Found("r2", "PASS", {o2})>>,
  long  |-> <<Found("r1", "FAIL", {o2, o4}), Found("r3", "REVIEW", {})>>,
  huge  |-> << >>, empty |-> << >>]
Named(topic, priority, objects) == [topic |-> topic, priority |-> priority, objects |-> objects, sound |-> TRUE]
MCDraft == {
  [type |-> "UNKNOWN", issues |-> << >>],
  [type |-> "LOAN", issues |-> <<Named("rate", "IMPORTANT", {o2}), Named("pay", "HIGH_ATTENTION", {o3})>>],
  [type |-> "LOAN", issues |-> <<Named("cap", "NORMAL", {o1}), Named("cap", "IMPORTANT", {})>>],
  [type |-> "UNKNOWN", issues |-> <<Named("finding", "NORMAL", {o4})>>],
  [type |-> "UNKNOWN", issues |-> <<[Named("pay", "NORMAL", {}) EXCEPT !.sound = FALSE]>>]}
MCObject == {o1, o2, o3, o4}
MCTopic == {"pay", "term", "rate", "cap", "ip", "finding"}
MCRuleResult == {"r1", "r2", "r3"}
MCGeneral == <<"pay", "term">>
MCTypeSpecific == [LOAN |-> <<"rate">>]
MCRoutes == <<"ip", "pay">>
=============================================================================
