----------------------------- MODULE RuleEngine -----------------------------
(***************************************************************************)
(* The eight deterministic rules on a canonical contract.  A mention of a  *)
(* contract is [unit, index]; a result is [rule, instance, state,          *)
(* mentions].  No rule raises on a contract the structure stage writes, so *)
(* the engine's catch of an exception is left out.                         *)
(***************************************************************************)
EXTENDS ContractText

CONSTANTS MinParties, MinRoles     \* the bilateral profile (2, 2)

ASSUME ProfileIsNat == MinParties \in Nat /\ MinRoles \in Nat

Mention(contract, i) == contract.units[i.unit].mentions[i.index]
MentionsOf(contract, kind) ==
  {i \in UNION {{[unit |-> k, index |-> j] : j \in 1..Len(contract.units[k].mentions)}
                : k \in 1..Len(contract.units)} : Mention(contract, i).kind = kind}
LabelsOf(contract, ms) == {Mention(contract, i).label : i \in ms} \ {None}
ValuesOf(contract, ms) == {Value(Mention(contract, i)) : i \in ms}

\* An OCR source without a confidence of 0.85.
Uncertain(contract, units) == \E k \in units : contract.units[k].method = "OCR" /\ ~contract.units[k].sure

\* Mutant of Verdict: an uncertain source only takes back a failure.
VerdictFailOnly(contract, units, state) ==
  IF state = "FAIL" /\ Uncertain(contract, units) THEN "REVIEW" ELSE state
Verdict(contract, units, state) ==
  IF state \in {"PASS", "FAIL"} /\ Uncertain(contract, units) THEN "REVIEW" ELSE state

Result(contract, rule, instance, state, ms) ==
  [rule |-> rule, instance |-> instance, mentions |-> ms,
   state |-> Verdict(contract, {i.unit : i \in ms}, state)]
Otherwise(rule, results) ==
  IF results # {} THEN results
  ELSE {[rule |-> rule, instance |-> <<"none">>, mentions |-> {}, state |-> "NOT_APPLICABLE"]}

-----------------------------------------------------------------------------
RequiredProfile(contract) ==
  LET parties == {i \in MentionsOf(contract, "party") : Value(Mention(contract, i)) # None}
      units == {i.unit : i \in parties} \cup (IF contract.titles = << >> THEN {} ELSE {contract.titles[1]})
      met == /\ contract.titles # << >>
             /\ Cardinality(parties) >= MinParties
             /\ Cardinality(LabelsOf(contract, parties)) >= MinRoles
  IN {[rule |-> "REQUIRED", instance |-> <<"profile">>, mentions |-> parties,
       state |-> Verdict(contract, units, IF met THEN "PASS" ELSE "FAIL")]}

\* Repeated values of one label.
Consistent(contract, ms) ==
  IF None \in ValuesOf(contract, ms) THEN "REVIEW"
  ELSE IF Cardinality(ms) < 2 THEN "NOT_APPLICABLE"
  ELSE IF Cardinality(ValuesOf(contract, ms)) = 1 THEN "PASS" ELSE "FAIL"

\* Parties by role, identifiers by label, labelled dates by field.
Repeated(contract, rule, kind) ==
  LET ms == MentionsOf(contract, kind)
      Group(l) == {i \in ms : Mention(contract, i).label = l}
  IN Otherwise(rule, {Result(contract, rule, <<l>>, Consistent(contract, Group(l)), Group(l))
                      : l \in LabelsOf(contract, ms)})

Precedes(a, b) ==
  \/ a[1] < b[1]
  \/ a[1] = b[1] /\ (a[2] < b[2] \/ (a[2] = b[2] /\ a[3] < b[3]))
SigningOrder(contract) ==
  LET Field(labels) == {i \in MentionsOf(contract, "date") : Mention(contract, i).label \in labels}
      signing == Field({"signed", "executed"})
      effective == Field({"effective"})
      Only(ms) == Value(Mention(contract, CHOOSE i \in ms : TRUE))
      state == IF signing = {} \/ effective = {} THEN "NOT_APPLICABLE"
               ELSE IF Cardinality(signing) > 1 \/ Cardinality(effective) > 1 THEN "REVIEW"
               ELSE IF None \in {Only(signing), Only(effective)} THEN "REVIEW"
               ELSE IF Precedes(Only(effective), Only(signing)) THEN "REVIEW" ELSE "PASS"
  IN {Result(contract, "SIGNING_ORDER", <<"signing-effective">>, state, signing \cup effective)}

-----------------------------------------------------------------------------
(* Rules that read the text before a mention: it is found in the clause or *)
(* block that holds the mention, in OCR text at the first occurrence.      *)

LabelBefore(contract, i) ==
  LET unit == contract.units[i.unit]
      same == {j \in 1..Len(unit.mentions) : unit.mentions[j].kind = Mention(contract, i).kind
                                             /\ unit.mentions[j].text = Mention(contract, i).text}
  IN IF unit.method = "OCR"
     THEN unit.mentions[CHOOSE j \in same : \A k \in same : j <= k].label
     ELSE Mention(contract, i).label
InContext(contract, kind) == {i \in MentionsOf(contract, kind) : i.unit \in Placed(contract)}

\* Lines are told apart by page, evidence and text; a page of native text has one
\* evidence identifier.
LineOf(contract, i) ==
  LET u == contract.units[i.unit] IN <<u.page, u.evidence, u.text>>
SumOf(contract, ms) ==
  SumFunction([i \in ms |-> Value(Mention(contract, i))])

PercentageTotal(contract) ==
  LET ms == InContext(contract, "percent")
      Group(line) == {i \in ms : LineOf(contract, i) = line}
      Labelled(group) == {i \in group : LabelBefore(contract, i) # None}
      lines == {l \in {LineOf(contract, i) : i \in ms} : Cardinality(Labelled(Group(l))) >= 2}
      State(g) == IF Labelled(g) # g \/ None \in ValuesOf(contract, g) THEN "REVIEW"
                  ELSE IF SumOf(contract, g) = 100 THEN "PASS" ELSE "FAIL"
  IN Otherwise("PERCENTAGE", {Result(contract, "PERCENTAGE", <<"line">> \o l, State(Group(l)), Group(l)) : l \in lines})

AmountConsistency(contract) ==
  LET ms == InContext(contract, "money")
      Group(l) == {i \in ms : LabelBefore(contract, i) = l}
      State(g) == IF Cardinality(g) < 2 THEN "NOT_APPLICABLE" ELSE Consistent(contract, g)
      labels == {LabelBefore(contract, i) : i \in ms} \ {None}
  IN Otherwise("AMOUNT", {Result(contract, "AMOUNT", <<l>>, State(Group(l)), Group(l)) : l \in labels})

UppercaseAmount(contract) ==
  LET ms == InContext(contract, "uppercase")
  IN Otherwise("UPPERCASE", IF ms = {} THEN {} ELSE {Result(contract, "UPPERCASE", <<"detected">>, "REVIEW", ms)})

\* audit-rules.json.
Evaluate(contract) ==
  RequiredProfile(contract) \cup Repeated(contract, "PARTY", "party")
    \cup Repeated(contract, "IDENTIFIER", "identifier") \cup Repeated(contract, "DATE", "date")
    \cup SigningOrder(contract) \cup PercentageTotal(contract) \cup AmountConsistency(contract)
    \cup UppercaseAmount(contract)
=============================================================================
