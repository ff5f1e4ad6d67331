---------------------------- MODULE MCIssueAudit ----------------------------
EXTENDS IssueAudit, TLC
CONSTANTS i1, i2, i3, p1, p2, c1, c2, c3
\* A plan of two issues and one of one.  The second contract changes what every
\* issue is given, the third is a new scan; the rules change what i2 is given.
MCIssuesOf == p1 :> <<i1, i2>> @@ p2 :> <<i3>>
MCSourceOf == [x \in {c1, c2, p1, p2} |-> "scan"] @@ c3 :> "rescan"
MCTextOf == [c \in {c1, c2, c3} |-> [i \in {i1, i2, i3} |-> IF c = c2 THEN c2 ELSE c1]]
MCHintsOf == [r \in Rules |-> [i \in {i1, i2, i3} |-> IF i = i2 THEN r ELSE "none"]]
MCSymmetry == Permutations(Thread) \cup Permutations(Corpus) \cup Permutations(Rules)
=============================================================================
