----------------------------- MODULE LegalText -----------------------------
(***************************************************************************)
(* What the legal database and the retrieval index hold, and what they     *)
(* compute: admission of a manifest, version resolution for a date,        *)
(* rank fusion and the state of an answer.                                 *)
(*                                                                         *)
(* A version record is                                                     *)
(*   [auth, title, version, source, articles, from, until, excerpt],       *)
(* title standing for the five fields of an authority's identity, source   *)
(* for the snapshot's SHA-256; a database is a set of such records.        *)
(***************************************************************************)
EXTENDS Integers, Sequences, FiniteSets

CONSTANTS
  HitFactor, HitFloor,   \* bound of a channel's hits: max(top_k * 6, 30)
  None                   \* an absent hint, target or provider

\* end_date_exclusive NULL: later than every date.
Forever == 9999

ASSUME HitBounds == HitFactor \in Nat /\ HitFloor \in Nat

-----------------------------------------------------------------------------
(* The database.                                                           *)

EvidenceId(r, a) == <<r.auth, r.version, a.ordinal>>
Row(r, a) == [id |-> EvidenceId(r, a), text |-> a.text, source |-> r.source]
RowsOf(r) == {Row(r, a) : a \in r.articles}

\* Every article with what the source fingerprint is computed from: the rows
\* of an index and, digested, the fingerprint itself.
Articles(db) == UNION {RowsOf(r) : r \in db}

\* The row with its authority and version; a set with at most one element.
Evidence(db, id) == {r \in db : \E a \in r.articles : EvidenceId(r, a) = id}

Applicable(db, auth, asOf) ==
  {r \in db : r.auth = auth /\ r.from <= asOf /\ asOf < r.until}

\* What resolve_version answers for an authority that is stored.
Resolution(db, auth, asOf) ==
  LET found == Applicable(db, auth, asOf)
  IN IF found = {} THEN [state |-> "NO_APPLICABLE_VERSION", version |-> None]
     ELSE IF \E r \in found : found = {r}
       THEN [state |-> "RESOLVED", version |-> (CHOOSE r \in found : TRUE).version]
       ELSE [state |-> "AMBIGUOUS", version |-> None]

-----------------------------------------------------------------------------
(* Admission of a manifest.  A manifest record has the fields of a version *)
(* record without articles, and: official (every source host is known),    *)
(* snapshot (the articles parsed from the file as it is now, << >> if it   *)
(* cannot be read or has none), expected (the source the manifest names),  *)
(* count (expected_article_count).                                         *)

\* _prepare_record finds no critical issue.
Sound(m) ==
  /\ m.official
  /\ m.snapshot # << >>
  /\ m.source = m.expected
  /\ \A j, k \in 1..Len(m.snapshot) : m.snapshot[j].token = m.snapshot[k].token => j = k
  /\ Len(m.snapshot) = m.count

Prepared(m) ==
  [auth |-> m.auth, title |-> m.title, version |-> m.version, source |-> m.source,
   articles |-> {m.snapshot[k] : k \in 1..Len(m.snapshot)},
   from |-> m.from, until |-> m.until, excerpt |-> m.excerpt]

DistinctIdentities(manifest) ==
  \A j, k \in 1..Len(manifest) :
    manifest[j].auth = manifest[k].auth /\ manifest[j].version = manifest[k].version => j = k

\* The manifest passes the checks made before the database is touched.
Admissible(manifest) ==
  DistinctIdentities(manifest) /\ \A k \in 1..Len(manifest) : Sound(manifest[k])
Content(manifest) == {Prepared(manifest[k]) : k \in 1..Len(manifest)}

Stored(db, r) == {s \in db : s.auth = r.auth /\ s.version = r.version}
TokenTexts(r) == {<<a.token, a.text>> : a \in r.articles}
Same(s, r) == s.source = r.source /\ TokenTexts(s) = TokenTexts(r)

\* _inspect_existing reports a critical issue.
Conflicts(db, r) ==
  \/ \E s \in db : s.auth = r.auth /\ s.title # r.title
  \/ \E s \in Stored(db, r) : ~Same(s, r)

\* The primary keys of authority_versions and legal_articles accept the record.
KeysFree(db, r) ==
  /\ Stored(db, r) = {}
  /\ \A a, b \in r.articles : a.ordinal = b.ordinal => a = b

-----------------------------------------------------------------------------
(* Ranking.                                                                *)

HitLimit(k) == IF k * HitFactor > HitFloor THEN k * HitFactor ELSE HitFloor

\* What a channel may return for the rows it matches: an order of them, cut.
Rankings(ids, limit) ==
  LET n == IF Cardinality(ids) < limit THEN Cardinality(ids) ELSE limit
  IN {s \in [1..n -> ids] : \A j, k \in 1..n : s[j] = s[k] => j = k}

RrfK == 60
\* CHANNEL_WEIGHTS in halves.
Weight == [exact |-> 8, lexical |-> 3, semantic |-> 2]

\* weight / (RRF_K + rank), over the common denominator of the ranks in use.
Denominator[n \in Nat] == IF n = 0 THEN 1 ELSE Denominator[n - 1] * (RrfK + n)
Contribution(hits, channel, id, n) ==
  LET ranks == {k \in 1..Len(hits[channel]) : hits[channel][k] = id}
  IN IF ranks = {} THEN 0
     ELSE (Weight[channel] * Denominator[n]) \div (RrfK + (CHOOSE k \in ranks : TRUE))
Fused(hits, id, n) ==
  Contribution(hits, "exact", id, n) + Contribution(hits, "lexical", id, n)
    + Contribution(hits, "semantic", id, n)

\* The sort key of the candidates: exact hits first, then the fused score.
Precedes(hits, a, b) ==
  LET n == CHOOSE m \in {Len(hits[c]) : c \in DOMAIN Weight} :
             \A c \in DOMAIN Weight : Len(hits[c]) <= m
      exact(id) == \E k \in 1..Len(hits.exact) : hits.exact[k] = id
  IN \/ exact(a) /\ ~exact(b)
     \/ exact(a) = exact(b) /\ Fused(hits, a, n) > Fused(hits, b, n)

-----------------------------------------------------------------------------
(* The state of an answer, from what the search saw.                       *)

AnswerState(target, note, missing, found, excerpts, ready) ==
  LET byCorpus == CASE found /\ excerpts -> "PARTIAL_COVERAGE"
                    [] found /\ ~excerpts -> "OK"
                    [] OTHER -> "INSUFFICIENT_CORPUS"
  IN CASE target # None /\ note = "AMBIGUOUS" -> "VERSION_AMBIGUOUS"
       [] target # None /\ note = "NO_APPLICABLE_VERSION" -> "NO_APPLICABLE_VERSION"
       [] missing -> "INSUFFICIENT_CORPUS"
       [] target = None /\ ~found /\ ~ready -> "INDEX_NOT_READY"
       [] OTHER -> byCorpus
=============================================================================
