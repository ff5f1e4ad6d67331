------------------------------- MODULE Intake -------------------------------
(***************************************************************************)
(* The local part of one job: the upload of its document, the inspection,  *)
(* OCR, contract structure and deterministic rules, as the endpoints and   *)
(* the pipeline's worker run them.  The files of these stages are written  *)
(* in place: while a writer has a file open, and after an exit in between, *)
(* the file is torn and a reader of it fails; two writers at once may mix  *)
(* their texts.                                                            *)
(*                                                                         *)
(* A document is [kind, size, declared, pages], kind "good", "empty",      *)
(* "mismatch" (wrong signature) or "unreadable".                           *)
(***************************************************************************)
EXTENDS RuleEngine

CONSTANTS
  Document,            \* what is uploaded
  Free,                \* free disk space a preflight may find
  MaxUpload, Reserve,  \* 500 MiB, 512 MiB
  Thread,
  Torn                 \* a file that does not parse

ASSUME SizesAreNat ==
  /\ {MaxUpload, Reserve} \subseteq Nat /\ Free \subseteq Nat
  /\ \A d \in Document : d.size \in Nat /\ d.declared \in {d.size, None}

\* A page that is usable has lines, the lines of a page carry its number, and what
\* they mention is listed.
Listed(s) == Len(s) \in Nat /\ s = [k \in 1..Len(s) |-> s[k]]
IsLine(u, page) ==
  /\ {"page", "sure", "heading", "mentions"} \subseteq DOMAIN u
  /\ u.page = page /\ Len(u.mentions) \in Nat
  /\ u.heading # None => Len(u.heading.number) \in Nat
IsText(s, page) == Listed(s) /\ \A k \in 1..Len(s) : IsLine(s[k], page)
ASSUME DocumentsAreTexts ==
  \A d \in Document :
    /\ Listed(d.pages)
    /\ \A k \in 1..Len(d.pages) :
         /\ IsText(d.pages[k].native, k) /\ IsText(d.pages[k].scan, k)
         /\ Usable(d.pages[k]) => d.pages[k].native # << >>

VARIABLES
  source,    \* uploads/<job>/source.*: None, Torn or a document
  files,     \* document, evidence, ocr, contract, rules
  thread     \* the writes each thread still has to do, and whether the first is open
localVars == <<source, files, thread>>

File == {"document", "evidence", "ocr", "contract", "rules"}
Rest == [writes |-> << >>, open |-> FALSE]
Receiving == [writes |-> << >>, open |-> TRUE]
Into(file, content) == [file |-> file, content |-> content]
Readable(file) == files[file] \notin {None, Torn}

Resting(t) == thread[t] = Rest
Schedule(t, writes) == thread' = [thread EXCEPT ![t] = [writes |-> writes, open |-> FALSE]]

LocalInit ==
  /\ source = None
  /\ files = [f \in File |-> None]
  /\ thread = [t \in Thread |-> Rest]

-----------------------------------------------------------------------------
(* Upload.  An exit in the middle leaves the partial file.                 *)

NewJob == source = None /\ \A f \in File : files[f] = None

\* ensure_upload_capacity: an unknown size counts as the largest.
Admitted(d, free) ==
  LET expected == IF d.declared = None THEN MaxUpload ELSE d.declared
  IN (d.declared # None => d.declared <= MaxUpload) /\ expected + Reserve <= free

StartUpload(t) ==
  /\ NewJob /\ Resting(t)
  /\ \E d \in Document, free \in Free : Admitted(d, free)
  /\ source' = Torn
  /\ thread' = [thread EXCEPT ![t] = Receiving]
  /\ UNCHANGED files

\* The stream ends within the limit and the header matches; inspect_document then
\* writes document.json and evidence.json, or fails and leaves the source alone.
Store(t, d) ==
  /\ thread[t] = Receiving
  /\ \E free \in Free : Admitted(d, free)
  /\ d.size <= MaxUpload /\ d.kind \in {"good", "unreadable"}
  /\ source' = d
  /\ Schedule(t, IF d.kind = "unreadable" THEN << >>
              ELSE <<Into("document", d.pages), Into("evidence", d.pages)>>)
  /\ UNCHANGED files

\* Too large, disk full, client gone, empty or of another type: the partial file goes.
DropUpload(t) ==
  /\ thread[t] = Receiving
  /\ source' = None
  /\ thread' = [thread EXCEPT ![t] = Rest]
  /\ UNCHANGED files

-----------------------------------------------------------------------------
(* OCR.                                                                    *)

\* Mutant of Inspected: the evidence file is not looked at.
InspectedHalf == Readable("document")
Inspected == Readable("document") /\ Readable("evidence")
Doc == files.document

\* A block is sure when its confidence reaches the threshold.
Recognized(p, low) == [j \in 1..Len(p.scan) |-> [p.scan[j] EXCEPT !.sure = j \notin low]]
PageResults(p) ==
  {[state |-> "OCR_FAILED", blocks |-> << >>], [state |-> "OCR_NO_TEXT", blocks |-> << >>]}
    \cup (IF p.scan = << >> THEN {}
          ELSE {[state |-> IF low = {} THEN "OCR_COMPLETE" ELSE "OCR_LOW_CONFIDENCE",
                 blocks |-> Recognized(p, low)] : low \in SUBSET (1..Len(p.scan))})

Status(pages) ==
  LET In(state) == {k \in DOMAIN pages : pages[k].state = state}
  IN IF DOMAIN pages # {} /\ In("OCR_FAILED") = DOMAIN pages /\ DOMAIN pages = 1..Len(Doc) THEN "failed"
     ELSE IF In("OCR_FAILED") \cup In("OCR_NO_TEXT") # {} THEN "partial" ELSE "complete"

OcrResults(doc) ==
  {pages \in [Scanned(doc) -> UNION {PageResults(doc[k]) : k \in Scanned(doc)}] :
     \A k \in Scanned(doc) : pages[k] \in PageResults(doc[k])}

\* A provider that is not there raises and nothing is written: no action.
RunOcr(t) ==
  /\ Resting(t) /\ Inspected /\ source \in Document
  /\ \E pages \in OcrResults(Doc) :
       Schedule(t, <<Into("ocr", [status |-> Status(pages), pages |-> pages])>>)
  /\ UNCHANGED <<source, files>>

-----------------------------------------------------------------------------
(* Structure and rules.                                                    *)

\* _load_inputs: every page that needed OCR was read.
AllRead(doc, pages) == \A k \in Scanned(doc) : pages[k].state \in {"OCR_COMPLETE", "OCR_LOW_CONFIDENCE"}
OcrReady == Scanned(Doc) # {} => Readable("ocr") /\ AllRead(Doc, files.ocr.pages)
ContractOf(doc, pages) == Structure(Stream(doc, pages))

BuildStructure(t) ==
  /\ Resting(t) /\ Inspected /\ OcrReady
  /\ Schedule(t, <<Into("contract", ContractOf(Doc, IF Scanned(Doc) = {} THEN << >> ELSE files.ocr.pages))>>)
  /\ UNCHANGED <<source, files>>

RunRules(t) ==
  /\ Resting(t) /\ Readable("contract")
  /\ Schedule(t, <<Into("rules", [contract |-> files.contract, results |-> Evaluate(files.contract)])>>)
  /\ UNCHANGED <<source, files>>

\* The marks for a missing and a torn file are no texts.
ASSUME MarksAreNoTexts ==
  /\ None # Torn
  /\ \A d \in Document :
       /\ {None, Torn} \cap {d, d.pages} = {}
       /\ \A pages \in OcrResults(d.pages) : AllRead(d.pages, pages) => ContractOf(d.pages, pages) \notin {None, Torn}

-----------------------------------------------------------------------------
(* Files.                                                                  *)

OpenFile(t) ==
  /\ thread[t].writes # << >> /\ ~thread[t].open
  /\ files' = [files EXCEPT ![Head(thread[t].writes).file] = Torn]
  /\ thread' = [thread EXCEPT ![t].open = TRUE]
  /\ UNCHANGED source

\* A file that another writer has filled since may end as a mixture.
FillFile(t) ==
  LET w == Head(thread[t].writes) IN
  /\ thread[t].writes # << >> /\ thread[t].open
  /\ \E content \in (IF files[w.file] \in {Torn, w.content} THEN {w.content} ELSE {w.content, Torn}) :
       files' = [files EXCEPT ![w.file] = content]
  /\ thread' = [thread EXCEPT ![t] = [writes |-> Tail(@.writes), open |-> FALSE]]
  /\ UNCHANGED source

\* The process ends; the next one starts with the files as they are.
Exit ==
  /\ \E t \in Thread : ~Resting(t)
  /\ thread' = [t \in Thread |-> Rest]
  /\ UNCHANGED <<source, files>>

LocalNext ==
  \/ Exit
  \/ \E t \in Thread : \E d \in Document : Store(t, d)
  \/ \E t \in Thread :
       \/ StartUpload(t) \/ DropUpload(t) \/ RunOcr(t) \/ BuildStructure(t) \/ RunRules(t) \/ OpenFile(t) \/ FillFile(t)
LocalSpec == LocalInit /\ [][LocalNext]_localVars

-----------------------------------------------------------------------------
(* Properties.                                                             *)

\* Every file is missing, torn or of the job's document, and a result never exists
\* without the files it is derived from having been written.
LocalTypeOK ==
  /\ source \in Document \cup {None, Torn}
  /\ \A t \in Thread : thread[t] = Receiving => source = Torn
  /\ \A f \in {"document", "evidence"} : Readable(f) => source \in Document /\ files[f] = source.pages
  /\ Readable("ocr") => files.ocr.status \in {"failed", "partial", "complete"}
  /\ files.rules # None => files.contract # None
  /\ files.contract # None => Readable("document") /\ Readable("evidence")

\* A page of the document is never missing from its contract.
PagesArePresent(doc, c) == \A k \in 1..Len(doc) : \E j \in 1..Len(c.units) : c.units[j].page = k

\* The clauses and blocks hold every line once and in order, except title lines
\* before the first clause.
LinesArePlaced(c) ==
  LET order == FlattenSeq(c.blocks) \o FlattenSeq([j \in 1..Len(c.clauses) |-> c.clauses[j].units])
      missing == (1..Len(c.units)) \ Placed(c)
  IN /\ \A j \in 1..Len(order) - 1 : order[j] < order[j + 1]
     /\ \A k \in missing : IsTitle(c.units, c.units[k]) /\ (c.clauses = << >> \/ k < c.clauses[1].units[1])

\* The parent of a clause is the nearest one before it of a smaller level.
ParentsAreNearest(c) ==
  \A j \in 1..Len(c.clauses) :
    LET above == {i \in 1..j - 1 : c.clauses[i].level < c.clauses[j].level}
    IN IF above = {} THEN c.clauses[j].parent = 0
       ELSE c.clauses[j].parent \in above /\ \A i \in above : i <= c.clauses[j].parent

\* The numerals a number up to 120 is written with: in units, or digit by digit.
Tens(n) ==
  {ten \o (IF n % 10 = 0 THEN << >> ELSE <<n % 10>>)
   : ten \in {<<n \div 10, 10>>} \cup (IF n \div 10 = 1 THEN {<<10>>} ELSE {})}
Numerals(n) ==
  IF n < 10 THEN {<<n>>}
  ELSE IF n < 100 THEN Tens(n) \cup {<<n \div 10, n % 10>>}
  ELSE {<<1, (n \div 10) % 10, n % 10>>}
       \cup {<<1, 100>> \o rest : rest \in IF n = 100 THEN {<< >>} ELSE IF n < 110 THEN {<<0, n % 10>>}
                                         ELSE {<<1>> \o t : t \in Tens(n - 100)}}
NumberOf(s) == CHOOSE n \in 1..120 : s \in Numerals(n)

\* A reference to an article names a clause exactly when one heading carries the
\* number, in Chinese units or in digits.
ReferencesAreUnique(c) ==
  \A k \in 1..Len(c.units) :
    LET named == SelectSeq(c.units[k].mentions, LAMBDA m : m.kind \in {"reference", "attachment"})
    IN \A j \in 1..Len(named) :
         named[j].kind = "reference" /\ named[j].text.form = "article" =>
           LET headings == {i \in 1..Len(c.clauses) :
                              LET h == c.units[c.clauses[i].units[1]].heading
                              IN h.form = "article" /\ NumberOf(h.number) = NumberOf(named[j].text.number)}
               r == c.references[k][j]
           IN IF Cardinality(headings) = 1 THEN r.state = "RESOLVED" /\ {r.target} = headings
              ELSE r.state # "RESOLVED"

\* The contract is the whole document, in its order and hierarchy, whatever stages
\* and readers ran at the same time and whichever OCR results were replaced.
\* (build_contract_structure, _load_inputs)
IsWhole(doc, c) == PagesArePresent(doc, c) /\ LinesArePlaced(c) /\ ParentsAreNearest(c)
EvidenceIsStructured == Readable("contract") => IsWhole(Doc, files.contract)

\* A reference is resolved exactly when one clause carries its number, however the
\* two are written.  (_extract_references, _chinese_integer)
ReferencesNameOneClause == Readable("contract") => ReferencesAreUnique(files.contract)

\* A PASS or FAIL rests on sure and resolved sources only; values that differ under
\* one label of a party, an identifier, a date or an amount are reported, never
\* passed over, except amounts in OCR text and in the lines taken for a title; and
\* payment percentages pass only when their lines total 100, a line that appears once
\* on its page being its own group. (evaluate_contract)
FollowTheText(c, results) ==
  LET Of(r, i) == {x \in results : x.rule = r /\ i \in x.mentions}
      Rule == [party |-> "PARTY", identifier |-> "IDENTIFIER", date |-> "DATE", money |-> "AMOUNT"]
      Compared(kind) == {i \in MentionsOf(c, kind) :
        kind = "money" => i.unit \in Placed(c) /\ c.units[i.unit].method = "NATIVE"}
  IN /\ \A x \in results : x.state \in {"PASS", "FAIL"} =>
          \A i \in x.mentions : /\ c.units[i.unit].method = "OCR" => c.units[i.unit].sure
                                /\ Value(Mention(c, i)) # None
     /\ \A kind \in DOMAIN Rule : \A i, k \in Compared(kind) :
          /\ Mention(c, i).label = Mention(c, k).label
          /\ Mention(c, i).label # None
          /\ Value(Mention(c, i)) # Value(Mention(c, k))
          => \E x \in Of(Rule[kind], i) : x.state \in {"FAIL", "REVIEW"}
     /\ \A x \in results : x.rule = "PERCENTAGE" /\ x.state = "PASS" =>
          \A k \in {i.unit : i \in x.mentions} :
            \/ \E m \in 1..Len(c.units) :
                 m # k /\ c.units[m].page = c.units[k].page /\ c.units[m].text = c.units[k].text
            \/ SumOf(c, {i \in MentionsOf(c, "percent") : i.unit = k}) = 100
VerdictsFollowTheText == Readable("rules") => FollowTheText(files.rules.contract, files.rules.results)
=============================================================================
