---------------------------- MODULE ContractText ----------------------------
(***************************************************************************)
(* From the pages of a document to its canonical contract: the route of a  *)
(* page, the evidence stream, titles, clauses, blocks, mentions and        *)
(* references.                                                             *)
(*                                                                         *)
(* A unit (a line of native text, a block of OCR) is [page, evidence,      *)
(* method, sure, text, title, heading, mentions]: text is its content as a *)
(* value that is compared, title one of "preferred", "fallback", "no",     *)
(* sure whether the OCR confidence reaches 0.85, heading None or           *)
(* [form, number], and a mention [kind, label, text].  What the regular    *)
(* expressions match in a line is given by these fields.                   *)
(***************************************************************************)
EXTENDS Integers, Sequences, FiniteSets, SequencesExt

CONSTANTS
  MinNative,      \* non-whitespace characters of a usable page (32)
  TitleWindow,    \* units looked at for a title (20)
  None

ASSUME TextBounds == MinNative \in Nat \ {0} /\ TitleWindow \in Nat

-----------------------------------------------------------------------------
(* Pages.  A page is [chars, suspicious, meaningful, native, scan]: counts *)
(* of its native text, its native lines, and what an OCR of it shows.      *)

\* Suspicious above 2 %, meaningful below 45 %.
Usable(p) ==
  /\ p.chars >= MinNative
  /\ 100 * p.suspicious <= 2 * p.chars
  /\ 100 * p.meaningful >= 45 * p.chars
Scanned(doc) == {k \in 1..Len(doc) : ~Usable(doc[k])}

\* The evidence stream: an OCR result maps each scanned page to [state, blocks].
Stream(doc, ocr) ==
  FlattenSeq([k \in 1..Len(doc) |-> IF Usable(doc[k]) THEN doc[k].native ELSE ocr[k].blocks])

-----------------------------------------------------------------------------
(* Numbers.                                                                *)

\* A Chinese numeral is a sequence of digits 0..9 and units 10, 100, 1000, 10000.
ChineseInteger(s) ==
  LET Digits == FoldLeft(LAMBDA n, d : 10 * n + d, 0, s)
      Read(t, c) ==
        IF c < 10 THEN [t EXCEPT !.number = c]
        ELSE IF c = 10000
          THEN LET section == t.section + t.number
               IN [total |-> t.total + (IF section = 0 THEN 1 ELSE section) * c, section |-> 0, number |-> 0]
          ELSE [t EXCEPT !.section = @ + (IF t.number = 0 THEN 1 ELSE t.number) * c, !.number = 0]
      end == FoldLeft(Read, [total |-> 0, section |-> 0, number |-> 0], s)
  IN IF \A k \in 1..Len(s) : s[k] < 10 THEN Digits ELSE end.total + end.section + end.number

Leap(y) == (y % 4 = 0 /\ y % 100 # 0) \/ y % 400 = 0
DaysIn(y, m) == IF m = 2 THEN (IF Leap(y) THEN 29 ELSE 28) ELSE IF m \in {4, 6, 9, 11} THEN 30 ELSE 31
ValidDate(y, m, d) == y >= 1 /\ m \in 1..12 /\ d \in 1..DaysIn(y, m)
Multiplier == [yuan |-> 1, hundred |-> 100, thousand |-> 1000, wan |-> 10000, yi |-> 100000000]

\* The normalised value of a mention; None is UNRESOLVED.
Value(m) ==
  CASE m.kind = "date" -> IF ValidDate(m.text[1], m.text[2], m.text[3]) THEN m.text ELSE None
    [] m.kind = "money" -> m.text[1] * Multiplier[m.text[2]]
    [] m.kind = "percent" -> ChineseInteger(m.text)
    [] OTHER -> m.text     \* a party's name (None when empty), an identifier, an upper-case amount

-----------------------------------------------------------------------------
(* Titles, clauses and blocks.                                             *)

Level(h) == CASE h.form \in {"article", "major"} -> 1
              [] h.form = "sub" -> 2
              [] OTHER -> Len(h.number)
\* _article_key: what a reference and a heading are matched by.
ArticleKey(h) == CASE h.form = "article" -> <<"article", ChineseInteger(h.number)>>
                   [] h.form = "nested" -> <<"numeric", h.number>>
                   [] OTHER -> None

TitleUnits(units) ==
  LET window == [k \in 1..(IF Len(units) < TitleWindow THEN Len(units) ELSE TitleWindow) |-> k]
      Of(class) == SelectSeq(window, LAMBDA k : units[k].heading = None /\ units[k].title = class)
      First(n, s) == SubSeq(s, 1, IF Len(s) < n THEN Len(s) ELSE n)
  IN IF Of("preferred") # << >> THEN First(3, Of("preferred")) ELSE First(1, Of("fallback"))

IsTitle(units, u) ==
  \E j \in 1..Len(TitleUnits(units)) :
    LET t == units[TitleUnits(units)[j]] IN t.page = u.page /\ t.text = u.text

NoClauses == [clauses |-> << >>, blocks |-> << >>, stack |-> [l \in {} |-> 0], pending |-> << >>]
FlushPreamble(s) ==
  IF s.pending = << >> THEN s ELSE [s EXCEPT !.blocks = Append(@, s.pending), !.pending = << >>]

\* Mutant of OpenClause: a heading leaves the deeper levels open.
OpenClauseKept(s, k, level) ==
  LET below == {l \in DOMAIN s.stack : l # level}
      parent == IF {l \in below : l < level} = {} THEN 0
                ELSE s.stack[CHOOSE l \in below : l < level /\ \A m \in below : m < level => m <= l]
      clause == [level |-> level, parent |-> parent, units |-> <<k>>]
      number == Len(s.clauses) + 1
  IN [s EXCEPT !.clauses = Append(@, clause),
               !.stack = [l \in below \cup {level} |-> IF l = level THEN number ELSE @[l]]]

\* The parent is the open clause of the deepest level above; this level and the
\* deeper ones are closed.
OpenClause(s, k, level) ==
  LET below == {l \in DOMAIN s.stack : l < level}
      parent == IF below = {} THEN 0 ELSE s.stack[CHOOSE l \in below : \A m \in below : m <= l]
      clause == [level |-> level, parent |-> parent, units |-> <<k>>]
      number == Len(s.clauses) + 1
  IN [s EXCEPT !.clauses = Append(@, clause),
               !.stack = [l \in below \cup {level} |-> IF l = level THEN number ELSE @[l]]]

PlaceUnit(units, s, k) ==
  IF s.clauses = << >> /\ IsTitle(units, units[k]) THEN s
  ELSE IF units[k].heading # None
    THEN OpenClause(FlushPreamble(s), k, Level(units[k].heading))
  ELSE IF s.clauses = << >> THEN [s EXCEPT !.pending = Append(@, k)]
  ELSE [s EXCEPT !.clauses[Len(s.clauses)].units = Append(@, k)]

BuiltUpTo(units) ==
  LET upTo[n \in 0..Len(units)] == IF n = 0 THEN NoClauses ELSE PlaceUnit(units, upTo[n - 1], n)
  IN upTo
BuildClauses(units) == FlushPreamble(BuiltUpTo(units)[Len(units)])

\* References name a clause when exactly one has their key; attachments never do.
Targets(units, clauses, h) ==
  {c \in 1..Len(clauses) : LET g == units[clauses[c].units[1]].heading
                           IN ArticleKey(h) # None /\ ArticleKey(g) = ArticleKey(h)}

\* Mutant of Resolve: the first clause with the key is named.
ResolveFirst(units, clauses, m) ==
  LET found == IF m.kind = "attachment" THEN {} ELSE Targets(units, clauses, m.text)
  IN IF found # {} THEN [state |-> "RESOLVED", target |-> CHOOSE c \in found : \A d \in found : c <= d]
     ELSE [state |-> "UNRESOLVED", target |-> 0]

Resolve(units, clauses, m) ==
  LET found == IF m.kind = "attachment" THEN {} ELSE Targets(units, clauses, m.text)
  IN IF Cardinality(found) = 1 THEN [state |-> "RESOLVED", target |-> CHOOSE c \in found : TRUE]
     ELSE [state |-> IF found = {} THEN "UNRESOLVED" ELSE "AMBIGUOUS", target |-> 0]

References(units, clauses) ==
  [k \in 1..Len(units) |->
     LET named == SelectSeq(units[k].mentions, LAMBDA m : m.kind \in {"reference", "attachment"})
     IN [j \in 1..Len(named) |-> Resolve(units, clauses, named[j])]]

\* contract.json; its mentions are those of its units.
Structure(units) ==
  LET built == BuildClauses(units)
  IN [units |-> units, titles |-> TitleUnits(units), clauses |-> built.clauses, blocks |-> built.blocks,
      references |-> References(units, built.clauses)]

UnitsOf(containers) == UNION {{containers[c][j] : j \in 1..Len(containers[c])} : c \in 1..Len(containers)}
Placed(contract) ==
  UnitsOf(contract.blocks) \cup UnitsOf([c \in 1..Len(contract.clauses) |-> contract.clauses[c].units])
=============================================================================
