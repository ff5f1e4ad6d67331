---------------------------- MODULE MCLegalCorpus ----------------------------
EXTENDS LegalCorpus, TLC
CONSTANTS c1, c2, vec
Article(token, ordinal, text) == [token |-> token, ordinal |-> ordinal, text |-> text]
Law(auth, title, version, source, snapshot, from, until) ==
  [auth |-> auth, title |-> title, version |-> version, source |-> source,
   snapshot |-> snapshot, from |-> from, until |-> until, excerpt |-> FALSE,
   official |-> TRUE, expected |-> source, count |-> Len(snapshot)]
CodeOld == Law("code", "Code", 1, "code-1", <<Article("1", 1, "rent")>>, 1, 5)
CodeNew == Law("code", "Code", 2, "code-2", <<Article("1", 1, "rent"), Article("2", 2, "lease")>>, 5, Forever)
\* The same version from another source, and the same authority under another title.
CodeEdited == [CodeOld EXCEPT !.source = "code-x", !.expected = "code-x"]
CodeRenamed == [CodeNew EXCEPT !.title = "Codex", !.version = 3]
\* A version whose interval overlaps the new one, known in part.
CodeOverlap == [CodeNew EXCEPT !.version = 4, !.source = "code-4", !.expected = "code-4",
                               !.from = 2, !.until = 7, !.excerpt = TRUE]
Rule == Law("rule", "Rule", 1, "rule-1", <<Article("1", 1, "rent")>>, 1, Forever)
\* Two tokens of one ordinal pass the preparation and clash at the key.
RuleTwice == [Rule EXCEPT !.snapshot = <<Article("1", 1, "rent"), Article("one", 1, "fee")>>, !.count = 2,
                          !.source = "rule-2", !.expected = "rule-2"]
\* The old version as it is imported again, its end corrected or not.
CodeOpen == [CodeOld EXCEPT !.until = Forever]
MCSeed == <<CodeOld>>
MCManifests == {MCSeed, <<Rule, CodeNew>>, <<CodeOpen, CodeNew>>, <<Rule, CodeEdited>>, <<CodeRenamed>>,
                <<CodeOverlap, RuleTwice>>, <<[Rule EXCEPT !.count = 2]>>, <<Rule, Rule>>}
Ask == [asOf |-> 6, titles |-> {}, auth |-> None, ordinal |-> None, id |-> None,
        topK |-> 2, matches |-> {"rent", "lease"}, provider |-> None]
MCRequests == {[Ask EXCEPT !.provider = vec],
               [Ask EXCEPT !.titles = {"Code"}, !.ordinal = 2],
               [Ask EXCEPT !.auth = "rule", !.ordinal = 1, !.id = <<"code", 1, 1>>, !.asOf = 3]}
MCSymmetry == Permutations(Command)
=============================================================================
