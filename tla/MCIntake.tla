------------------------------ MODULE MCIntake ------------------------------
EXTENDS Intake
CONSTANTS t1, t2
Says(kind, label, text) == [kind |-> kind, label |-> label, text |-> text]
Article(s) == [form |-> "article", number |-> s]
Nested(s) == [form |-> "nested", number |-> s]
Other(form) == [form |-> form, number |-> << >>]
Line(page, text, heading, mentions) ==
  [page |-> page, evidence |-> <<page>>, method |-> "NATIVE", sure |-> TRUE, text |-> text,
   title |-> IF text \in {"contract", "total"} THEN "preferred" ELSE IF text = "short" THEN "fallback" ELSE "no",
   heading |-> heading, mentions |-> mentions]
Block(page, index, text, heading, mentions) ==
  [Line(page, text, heading, mentions) EXCEPT !.evidence = <<page, index>>, !.method = "OCR"]
Native(lines) == [chars |-> 40, suspicious |-> 0, meaningful |-> 30, native |-> lines, scan |-> << >>]
Image(blocks) == [chars |-> 0, suspicious |-> 0, meaningful |-> 0, native |-> << >>, scan |-> blocks]
Given(pages) == [kind |-> "good", size |-> 3, declared |-> 3, pages |-> pages]

\* Levels 1, 2, 3, 2, 1, 3, and references in every form.
Levels == Given(<<Native(<<
  Line(1, "contract", None, <<Says("party", "A", "acme"), Says("party", "B", "bolt")>>),
  Line(1, "recital", None, <<Says("attachment", None, Article(<<1>>))>>),
  Line(1, "h1", Article(<<1, 10, 2>>), << >>),
  Line(1, "h2", Other("sub"), <<Says("reference", None, Article(<<1, 2>>)), Says("reference", None, Nested(<<2, 1>>))>>),
  Line(1, "h3", Nested(<<1, 1, 1>>), << >>),
  Line(1, "body", None, <<Says("reference", None, Article(<<1, 100, 0, 5>>))>>),
  Line(1, "h4", Nested(<<2, 1>>), << >>),
  Line(1, "h5", Article(<<1, 0, 5>>), <<Says("reference", None, Article(<<10>>))>>),
  Line(1, "h6", Nested(<<2, 2, 1>>), << >>)>>)>>)
\* Two headings of one number; dates, of which one does not exist.
Dates == Given(<<Native(<<
  Line(1, "short", None, <<Says("date", "signed", <<2024, 2, 29>>)>>),
  Line(1, "h1", Article(<<3>>), <<Says("date", "effective", <<2024, 2, 28>>), Says("reference", None, Article(<<3>>))>>),
  Line(1, "h2", Article(<<3>>), <<Says("date", "due", <<2023, 2, 29>>), Says("date", "due", <<2023, 3, 1>>),
                                   Says("date", None, <<1900, 2, 28>>)>>)>>)>>)
\* Percentages: a line of 100, one of 90, one with an unlabelled percentage.
Shares == Given(<<Native(<<
  Line(1, "h1", Other("major"), <<Says("percent", "down", <<3, 10>>), Says("percent", "final", <<7, 0>>)>>),
  Line(1, "l2", None, <<Says("percent", "down", <<4, 0>>), Says("percent", "final", <<5, 10>>)>>),
  Line(1, "l3", None, <<Says("percent", None, <<6>>), Says("percent", "down", <<6>>), Says("percent", "final", <<9, 10, 4>>)>>),
  Line(1, "l4", None, <<Says("uppercase", None, "wan"), Says("identifier", "no", "n1")>>),
  Line(1, "l5", None, <<Says("identifier", "no", "n2"), Says("date", "executed", <<2024, 1, 2>>),
                        Says("date", "effective", <<2024, 1, 2>>)>>)>>)>>)
\* A native page and a scanned one; the scan repeats the parties, one of them otherwise.
Mixed == Given(<<
  Native(<<Line(1, "contract", None, <<Says("party", "A", "acme"), Says("party", "B", "bolt")>>)>>),
  Image(<<Block(2, 1, "b1", Article(<<1>>), <<Says("party", "A", "acme"), Says("party", "B", "volt")>>),
          Block(2, 2, "b2", None, <<Says("percent", "down", <<6>>), Says("percent", "final", <<9, 4>>)>>)>>)>>)
Scan == [Given(<<Image(<<Block(1, 1, "b1", None, <<Says("party", "A", None), Says("money", "price", <<5, "wan">>)>>)>>)>>)
         EXCEPT !.declared = None]
\* A title line that names the price and another price below; amounts that agree in
\* different units, and amounts that do not.
Price == Given(<<Native(<<
  Line(1, "total", None, <<Says("money", "price", <<100, "yuan">>)>>),
  Line(1, "h1", Article(<<1>>), <<Says("money", "price", <<2, "wan">>), Says("money", "total", <<3, "wan">>)>>),
  Line(1, "body", None, <<Says("money", "total", <<30, "thousand">>), Says("money", "sum", <<2, "hundred">>)>>),
  Line(1, "l4", None, <<Says("money", "sum", <<2, "thousand">>), Says("money", None, <<1, "yi">>)>>)>>)>>)
MCDocument == {Levels, Dates, Shares, Price, Mixed, Scan,
               [Scan EXCEPT !.size = 9], [Scan EXCEPT !.kind = "unreadable"], [Scan EXCEPT !.kind = "empty"]}
MCSymmetry == Permutations(Thread)
=============================================================================
