---------------------------- MODULE LegalCorpus ----------------------------
(***************************************************************************)
(* The legal database (legal.db), the retrieval index built from it and    *)
(* the searches that read both.  A command is one run of the command line  *)
(* (an import or rebuild of the database, a build of the index); searches  *)
(* run in the server; nothing but SQLite's own locks coordinates them.     *)
(*                                                                         *)
(* Files are inodes under names: a process that holds a file open keeps it *)
(* when the name is given to another.  SQLite is external: a transaction   *)
(* is invisible until it commits, there is one writer at a time, and a     *)
(* process that ends rolls back.                                           *)
(***************************************************************************)
EXTENDS LegalText

CONSTANTS
  Command,        \* runs of the command line
  Search,         \* searches of the server
  Manifest,       \* manifests an import may be given
  Seed,           \* the manifest of the database a release ships
  Request,        \* requests a search may be given
  Provider,       \* embedding providers
  SharesDelete    \* an open file may be unlinked and replaced (not on Windows)

Names == {"db", "dbTmp", "index", "indexTmp"}
NoFile == "no file"
SeedDb == "seed.db"
SeedIndex == "seed index"
Inode == Command \cup {SeedDb, SeedIndex}

OneIdentity(db) == \A r, t \in db : r.auth = t.auth => r.title = t.title

ASSUME SeedIsManifest ==
  Seed \in Manifest /\ Admissible(Seed) /\ OneIdentity(Content(Seed))
ASSUME InputsAreValid ==
  (\A m \in Manifest : Len(m) \in Nat) /\ (\A q \in Request : q.topK \in Nat)
ASSUME PlatformIsKnown == SharesDelete \in BOOLEAN
ASSUME FilesDiffer ==
  NoFile \notin Inode /\ {SeedDb, SeedIndex, None} \cap Command = {} /\ None \notin Inode

VARIABLES
  files,     \* [Names -> Inode or NoFile]
  dbs,       \* [Inode -> committed version records]
  indexes,   \* [Inode -> committed index: metadata, rows, fingerprint, vectors]
  writer,    \* [Inode -> the command in a write transaction, or None]
  cmd,       \* [Command -> its place and what it holds]
  search,    \* [Search -> its place and what it has seen]
  corpora,   \* history: what Articles(database) has been
  seen       \* history: [Search -> versions that were the one applicable during it]
vars == <<files, dbs, indexes, writer, cmd, search, corpora, seen>>
stores == <<files, dbs, indexes, writer>>
history == <<corpora, seen>>

Blank == [built |-> FALSE, rows |-> {}, stamp |-> {}, vectors |-> None]
DbOf(f) == IF f = NoFile THEN {} ELSE dbs[f]
Db == DbOf(files["db"])
OpenByOthers(c, f) == \E d \in Command \ {c} : cmd[d].open = f
Locked(f) == f # NoFile /\ writer[f] # None

\* The one version of each authority applicable on a date.
OnlyOnes(db, asOf) ==
  {<<r.auth, r.version>> : r \in {s \in db : Applicable(db, s.auth, asOf) = {s}}}
\* The histories after a step that leaves the given database under its name.
Observe(db) ==
  /\ corpora' = corpora \cup {Articles(db)}
  /\ seen' = [s \in Search |->
       seen[s] \cup IF search[s].at \in {"idle", "failed", "answered"} THEN {}
                    ELSE OnlyOnes(db, search[s].request.asOf)]

Idle == [at |-> "idle", open |-> NoFile, rebuild |-> FALSE, manifest |-> << >>, k |-> 1,
         pending |-> {}, provider |-> None, rows |-> {}, stamp |-> {}]
End(c, result) == cmd' = [cmd EXCEPT ![c] = [Idle EXCEPT !.at = result]]
At(c, place) == cmd[c].at = place

-----------------------------------------------------------------------------
(* What both commands do with their working file.                          *)

\* working_path.unlink(missing_ok=True).
Unlink(c, from, name, to) ==
  /\ At(c, from)
  /\ IF ~SharesDelete /\ files[name] # NoFile /\ OpenByOthers(c, files[name])
     THEN End(c, "failed") /\ UNCHANGED files
     ELSE cmd' = [cmd EXCEPT ![c].at = to] /\ files' = [files EXCEPT ![name] = NoFile]
  /\ UNCHANGED <<dbs, indexes, writer, search>> /\ UNCHANGED history

Release(c) == writer' = [f \in Inode |-> IF writer[f] = c THEN None ELSE writer[f]]

\* Rollback; the working file is unlinked while this connection is still open,
\* which fails where open files cannot be.
Undo(c, from, names) ==
  /\ At(c, from)
  /\ End(c, "failed")
  /\ files' = [n \in Names |-> IF SharesDelete /\ n \in names THEN NoFile ELSE files[n]]
  /\ Release(c)
  /\ UNCHANGED <<dbs, indexes, search>> /\ UNCHANGED history

\* os.replace of the working file over its target.
Replace(c, from, name, target) ==
  /\ At(c, from)
  /\ LET f == files[name]
         blocked == ~SharesDelete /\ (OpenByOthers(c, f) \/ OpenByOthers(c, files[target]))
     IN IF f = NoFile \/ blocked
        THEN End(c, "failed") /\ UNCHANGED files /\ UNCHANGED history
        ELSE /\ End(c, "done")
             /\ files' = [files EXCEPT ![name] = NoFile, ![target] = f]
             /\ IF target = "db" THEN Observe(dbs[f]) ELSE UNCHANGED history
  /\ UNCHANGED <<dbs, indexes, writer, search>>

-----------------------------------------------------------------------------
(* import_manifest.                                                        *)

ImportPrepare(c) ==
  /\ At(c, "idle")
  /\ \E m \in Manifest, rebuild \in BOOLEAN :
       IF Admissible(m)
       THEN cmd' = [cmd EXCEPT ![c] = [Idle EXCEPT !.at = IF rebuild THEN "unlink db" ELSE "open db",
                                                  !.rebuild = rebuild, !.manifest = m]]
       ELSE End(c, "refused")
  /\ UNCHANGED stores /\ UNCHANGED <<search, corpora, seen>>

ImportUnlink(c) == Unlink(c, "unlink db", "dbTmp", "open db")

\* connect and initialize_schema: the file under the name, or a new one.
ImportOpen(c) ==
  /\ At(c, "open db")
  /\ LET name == IF cmd[c].rebuild THEN "dbTmp" ELSE "db"
         f == files[name]
     IN IF f = NoFile
        THEN /\ files' = [files EXCEPT ![name] = c]
             /\ cmd' = [cmd EXCEPT ![c].at = "begin", ![c].open = c]
             /\ IF name = "db" THEN Observe({}) ELSE UNCHANGED history
        ELSE /\ cmd' = [cmd EXCEPT ![c].at = IF Locked(f) THEN "undo" ELSE "begin",
                                   ![c].open = f]
             /\ UNCHANGED files /\ UNCHANGED history
  /\ UNCHANGED <<dbs, indexes, writer, search>>

\* BEGIN IMMEDIATE; "database is locked" when the wait for a writer is over.
ImportBegin(c) ==
  /\ At(c, "begin")
  /\ IF Locked(cmd[c].open)
     THEN cmd' = [cmd EXCEPT ![c].at = "undo"] /\ UNCHANGED writer
     ELSE /\ cmd' = [cmd EXCEPT ![c].at = "record"]
          /\ writer' = [writer EXCEPT ![cmd[c].open] = c]
  /\ UNCHANGED <<files, dbs, indexes, search>> /\ UNCHANGED history

\* _inspect_existing and _insert_record for the next record.
ImportRecord(c) ==
  /\ At(c, "record")
  /\ cmd[c].k <= Len(cmd[c].manifest)
  /\ LET visible == dbs[cmd[c].open] \cup cmd[c].pending
         r == Prepared(cmd[c].manifest[cmd[c].k])
         noChange == Stored(visible, r) # {}
     IN IF Conflicts(visible, r) \/ (~noChange /\ ~KeysFree(visible, r))
        THEN cmd' = [cmd EXCEPT ![c].at = "undo"]
        ELSE cmd' = [cmd EXCEPT ![c].k = @ + 1,
                                ![c].pending = IF noChange THEN @ ELSE @ \cup {r}]
  /\ UNCHANGED stores /\ UNCHANGED <<search, corpora, seen>>

\* Mutant of ImportCommit: what was inserted is committed as it comes.
ImportCommitEarly(c) ==
  /\ At(c, "record")
  /\ LET committed == dbs[cmd[c].open] \cup cmd[c].pending
     IN /\ dbs' = [dbs EXCEPT ![cmd[c].open] = committed]
        /\ IF cmd[c].k <= Len(cmd[c].manifest)
           THEN cmd' = [cmd EXCEPT ![c].pending = {}] /\ UNCHANGED writer
           ELSE /\ IF cmd[c].rebuild
                   THEN cmd' = [cmd EXCEPT ![c] = [Idle EXCEPT !.at = "replace db"]]
                   ELSE End(c, "done")
                /\ Release(c)
        /\ Observe(IF cmd[c].open = files["db"] THEN committed ELSE Db)
  /\ UNCHANGED <<files, indexes, search>>

\* The transaction commits and the connection is closed.
ImportCommit(c) ==
  /\ At(c, "record")
  /\ cmd[c].k > Len(cmd[c].manifest)
  /\ LET committed == dbs[cmd[c].open] \cup cmd[c].pending
     IN /\ dbs' = [dbs EXCEPT ![cmd[c].open] = committed]
        /\ IF cmd[c].rebuild
           THEN cmd' = [cmd EXCEPT ![c] = [Idle EXCEPT !.at = "replace db"]]
           ELSE End(c, "done")
        /\ Release(c)
        /\ Observe(IF cmd[c].open = files["db"] THEN committed ELSE Db)
  /\ UNCHANGED <<files, indexes, search>>

ImportUndo(c) == Undo(c, "undo", IF cmd[c].rebuild THEN {"dbTmp"} ELSE {})
ImportReplace(c) == Replace(c, "replace db", "dbTmp", "db")

-----------------------------------------------------------------------------
(* build_retrieval_index.                                                  *)

\* get_summary: a database with articles.
BuildStart(c) ==
  /\ At(c, "idle")
  /\ IF Articles(Db) = {} \/ Locked(files["db"])
     THEN End(c, "failed")
     ELSE \E v \in Provider \cup {None} :
            cmd' = [cmd EXCEPT ![c].at = "read rows", ![c].provider = v]
  /\ UNCHANGED stores /\ UNCHANGED <<search, corpora, seen>>

BuildRead(c) ==
  /\ At(c, "read rows")
  /\ cmd' = [cmd EXCEPT ![c].at = "unlink index", ![c].rows = Articles(Db)]
  /\ UNCHANGED stores /\ UNCHANGED <<search, corpora, seen>>

BuildUnlink(c) == Unlink(c, "unlink index", "indexTmp", "open index")

\* Connect and create the tables, which fails in a file that has them.
BuildOpen(c) ==
  /\ At(c, "open index")
  /\ IF files["indexTmp"] = NoFile
     THEN /\ files' = [files EXCEPT !["indexTmp"] = c]
          /\ cmd' = [cmd EXCEPT ![c].at = "stamp", ![c].open = c]
     ELSE /\ cmd' = [cmd EXCEPT ![c].at = "undo index", ![c].open = files["indexTmp"]]
          /\ UNCHANGED files
  /\ UNCHANGED <<dbs, indexes, writer, search>> /\ UNCHANGED history

\* The rows are inserted; the fingerprint is of the database as it is by now.
BuildStamp(c) ==
  /\ At(c, "stamp")
  /\ cmd' = [cmd EXCEPT ![c].at = "commit index", ![c].stamp = Articles(Db)]
  /\ UNCHANGED stores /\ UNCHANGED <<search, corpora, seen>>

\* Mutant of BuildCommit: the metadata is committed when rows are still missing.
BuildCommitMetaFirst(c) ==
  /\ At(c, "commit index")
  /\ \E some \in SUBSET cmd[c].rows :
       indexes' = [indexes EXCEPT ![cmd[c].open] =
         [built |-> TRUE, rows |-> some, stamp |-> cmd[c].stamp, vectors |-> cmd[c].provider]]
  /\ cmd' = [cmd EXCEPT ![c] = [Idle EXCEPT !.at = "replace index"]]
  /\ UNCHANGED <<files, dbs, writer, search>> /\ UNCHANGED history

\* Rows, vectors and metadata are committed and the connection is closed.
BuildCommit(c) ==
  /\ At(c, "commit index")
  /\ indexes' = [indexes EXCEPT ![cmd[c].open] =
       [built |-> TRUE, rows |-> @.rows \cup cmd[c].rows, stamp |-> cmd[c].stamp,
        vectors |-> cmd[c].provider]]
  /\ cmd' = [cmd EXCEPT ![c] = [Idle EXCEPT !.at = "replace index"]]
  /\ UNCHANGED <<files, dbs, writer, search>> /\ UNCHANGED history

\* The provider is not there, or answers with the wrong number of vectors.
BuildEncodeFails(c) ==
  /\ At(c, "commit index")
  /\ cmd[c].provider # None
  /\ cmd' = [cmd EXCEPT ![c].at = "undo index"]
  /\ UNCHANGED stores /\ UNCHANGED <<search, corpora, seen>>

BuildUndo(c) == Undo(c, "undo index", {"indexTmp"})
BuildReplace(c) == Replace(c, "replace index", "indexTmp", "index")

\* The command line is interrupted: its transaction is rolled back.
Exit(c) ==
  /\ cmd[c].at \notin {"idle", "done", "failed", "refused"}
  /\ End(c, "failed")
  /\ Release(c)
  /\ UNCHANGED <<files, dbs, indexes, search>> /\ UNCHANGED history

-----------------------------------------------------------------------------
(* retrieve_legal_evidence.  Each reading of the database or of the index  *)
(* is a step; those through initialize_schema wait for a writer and may    *)
(* give up.                                                                *)

NotAsked == [asOf |-> 0, titles |-> {}, auth |-> None, ordinal |-> None, id |-> None,
             topK |-> 1, matches |-> {}, provider |-> None]
Fresh == [at |-> "idle", request |-> NotAsked, excerpts |-> FALSE, ready |-> FALSE,
          lexical |-> FALSE, vectors |-> None, notes |-> [a \in {} |-> None],
          missing |-> FALSE, target |-> None, hits |-> [exact |-> << >>, lexical |-> << >>,
          semantic |-> << >>], checked |-> {}, held |-> {}, id |-> None, found |-> {},
          answer |-> << >>, state |-> None]

Is(s, place) == search[s].at = place
Fails(s) == search' = [search EXCEPT ![s] = [Fresh EXCEPT !.at = "failed"]]
OnlySearch == UNCHANGED stores /\ UNCHANGED <<cmd, corpora, seen>>
Unlocked == ~Locked(files["db"])

SearchSummary(s) ==
  /\ Is(s, "idle")
  /\ IF files["db"] = NoFile \/ ~Unlocked
     THEN Fails(s) /\ UNCHANGED seen
     ELSE \E q \in Request :
            /\ search' = [search EXCEPT ![s] = [Fresh EXCEPT !.at = "index", !.request = q,
                                                             !.excerpts = \E r \in Db : r.excerpt]]
            /\ seen' = [seen EXCEPT ![s] = OnlyOnes(Db, q.asOf)]
  /\ UNCHANGED stores /\ UNCHANGED <<cmd, corpora>>

IndexNow == IF files["index"] = NoFile THEN Blank ELSE indexes[files["index"]]
Ready == IndexNow.built /\ IndexNow.stamp = Articles(Db)

SearchIndex(s) ==
  /\ Is(s, "index")
  /\ search' = [search EXCEPT ![s].at = IF search[s].request.id = None THEN "target" ELSE "hint",
                              ![s].ready = Ready,
                              ![s].lexical = (IndexNow.rows # {}),
                              ![s].vectors = IndexNow.vectors]
  /\ OnlySearch

\* The resolution of an authority, cached by the search.
Note(s, auth) ==
  IF auth \in DOMAIN search[s].notes THEN search[s].notes[auth]
  ELSE Resolution(Db, auth, search[s].request.asOf)
Noted(s, auth) ==
  [a \in {auth} \cup DOMAIN search[s].notes |-> Note(s, a)]
IsStored(s, auth) == auth \in DOMAIN search[s].notes \/ \E r \in Db : r.auth = auth

\* Mutant of Applies: a version among several applicable ones is good enough.
AppliesAtAll(s, r) == Note(s, r.auth).state # "NO_APPLICABLE_VERSION"

\* _applicable.
Applies(s, r) == Note(s, r.auth).state = "RESOLVED" /\ Note(s, r.auth).version = r.version

\* get_evidence of the hint; the record, if any, is held for the next step.
SearchHint(s) ==
  /\ Is(s, "hint") /\ Unlocked
  /\ LET found == Evidence(Db, search[s].request.id)
     IN search' = [search EXCEPT ![s].at = IF found = {} THEN "target" ELSE "hint applies",
                                 ![s].missing = (found = {}), ![s].held = found]
  /\ OnlySearch

\* An authority that is gone from a replaced database is a missing target too.
SearchHintApplies(s) ==
  /\ Is(s, "hint applies") /\ Unlocked
  /\ \E r \in search[s].held :
       IF IsStored(s, r.auth)
       THEN search' = [search EXCEPT ![s].at = "target", ![s].notes = Noted(s, r.auth),
              ![s].hits.exact = IF Applies(s, r) THEN <<search[s].request.id>> ELSE << >>]
       ELSE search' = [search EXCEPT ![s].at = "target", ![s].missing = TRUE]
  /\ OnlySearch

\* _recognize_authority_id: the hint, or the only stored title the query names.
Recognized(q) ==
  LET named == {r.auth : r \in {d \in Db : d.title \in q.titles}}
  IN IF q.auth # None THEN q.auth
     ELSE IF Cardinality(named) = 1 THEN CHOOSE a \in named : TRUE ELSE None

\* An authority that is hinted at and not stored ends the search.
SearchTarget(s) ==
  /\ Is(s, "target") /\ Unlocked
  /\ LET auth == Recognized(search[s].request)
     IN IF auth = None \/ search[s].request.ordinal = None
        THEN search' = [search EXCEPT ![s].at = "lexical", ![s].target = auth]
        ELSE IF ~IsStored(s, auth) THEN Fails(s)
        ELSE search' = [search EXCEPT
               ![s].at = IF Note(s, auth).state = "RESOLVED" THEN "article" ELSE "lexical",
               ![s].target = auth, ![s].notes = Noted(s, auth)]
  /\ OnlySearch

\* _article_by_ordinal in the resolved version: at most one identifier.
ArticleByOrdinal(s) ==
  LET auth == search[s].target
      id == <<auth, search[s].notes[auth].version, search[s].request.ordinal>>
  IN {i \in {id} : Evidence(Db, i) # {}}

\* The article asked for joins the exact hits, unless it is one already.
SearchArticle(s) ==
  /\ Is(s, "article")
  /\ IF ArticleByOrdinal(s) = {}
     THEN search' = [search EXCEPT ![s].at = "lexical", ![s].missing = TRUE]
     ELSE \E id \in ArticleByOrdinal(s) :
            search' = [search EXCEPT ![s].at = "lexical",
              ![s].hits.exact = IF @ = <<id>> THEN @ ELSE Append(@, id)]
  /\ OnlySearch

SearchLexical(s) ==
  /\ Is(s, "lexical")
  /\ LET q == search[s].request
         ids == {row.id : row \in {w \in IndexNow.rows : w.text \in q.matches}}
     IN \E r \in IF search[s].ready /\ search[s].lexical
                 THEN Rankings(ids, HitLimit(q.topK)) ELSE {<< >>} :
          search' = [search EXCEPT ![s].at = "semantic", ![s].hits.lexical = r]
  /\ OnlySearch

\* Skipped when the provider cannot be loaded or is not the one of the index.
SearchSemantic(s) ==
  /\ Is(s, "semantic")
  /\ LET q == search[s].request
         usable == q.provider # None /\ search[s].ready /\ search[s].vectors = q.provider
         ids == {row.id : row \in {w \in IndexNow.rows : IndexNow.vectors = q.provider}}
     IN \E r \in {<< >>} \cup (IF usable THEN Rankings(ids, HitLimit(q.topK)) ELSE {}) :
          search' = [search EXCEPT ![s].at = "read", ![s].hits.semantic = r]
  /\ OnlySearch

Unchecked(s) ==
  LET hits == search[s].hits
  IN SelectSeq(hits.exact \o hits.lexical \o hits.semantic,
               LAMBDA id : id \notin search[s].checked)

\* get_evidence of the next hit; one the database does not have is passed over.
SearchRead(s) ==
  /\ Is(s, "read") /\ Unchecked(s) # << >> /\ Unlocked
  /\ LET id == Head(Unchecked(s))
         found == Evidence(Db, id)
     IN search' = [search EXCEPT ![s].at = IF found = {} THEN "read" ELSE "applies",
                                 ![s].checked = @ \cup {id}, ![s].held = found, ![s].id = id]
  /\ OnlySearch

\* A version that is not the one applicable is left out.
SearchApplies(s) ==
  /\ Is(s, "applies") /\ Unlocked
  /\ \E r \in search[s].held :
       IF IsStored(s, r.auth)
       THEN search' = [search EXCEPT ![s].at = "read", ![s].notes = Noted(s, r.auth),
              ![s].found = @ \cup (IF Applies(s, r) THEN {search[s].id} ELSE {})]
       ELSE Fails(s)
  /\ OnlySearch

Cut(order, k) == IF Len(order) <= k THEN order ELSE SubSeq(order, 1, k)

\* The candidates in order, cut to top_k, and the state of the answer.
SearchAnswer(s) ==
  /\ Is(s, "read") /\ Unchecked(s) = << >>
  /\ LET run == search[s]
         note == IF run.target \in DOMAIN run.notes THEN run.notes[run.target].state ELSE None
     IN \E order \in Rankings(run.found, Cardinality(run.found)) :
          /\ \A j, k \in 1..Len(order) : j < k => ~Precedes(run.hits, order[k], order[j])
          /\ search' = [search EXCEPT ![s] = [Fresh EXCEPT
               !.at = "answered", !.answer = Cut(order, run.request.topK),
               !.state = AnswerState(run.target, note, run.missing, run.found # {},
                                     run.excerpts, run.ready)]]
  /\ OnlySearch

\* "database is locked" when the wait for the writer is over.
SearchLocked(s) ==
  /\ ~Unlocked
  /\ \/ search[s].at \in {"hint", "hint applies", "target", "applies"}
     \/ Is(s, "read") /\ Unchecked(s) # << >>
  /\ Fails(s)
  /\ OnlySearch

-----------------------------------------------------------------------------
NoFiles == [n \in Names |-> NoFile]

\* A fresh checkout, a database without an index, or both as they are released.
Init ==
  /\ files \in {NoFiles, [NoFiles EXCEPT !["db"] = SeedDb],
                [NoFiles EXCEPT !["db"] = SeedDb, !["index"] = SeedIndex]}
  /\ dbs = [f \in Inode |-> IF f = SeedDb THEN Content(Seed) ELSE {}]
  /\ indexes = [f \in Inode |->
       IF f = SeedIndex
       THEN [built |-> TRUE, rows |-> Articles(Content(Seed)), stamp |-> Articles(Content(Seed)),
             vectors |-> None]
       ELSE Blank]
  /\ writer = [f \in Inode |-> None]
  /\ cmd = [c \in Command |-> Idle]
  /\ search = [s \in Search |-> Fresh]
  /\ corpora = {Articles(Db)}
  /\ seen = [s \in Search |-> {}]

Import(c) ==
  \/ ImportPrepare(c) \/ ImportUnlink(c) \/ ImportOpen(c) \/ ImportBegin(c)
  \/ ImportRecord(c) \/ ImportCommit(c) \/ ImportUndo(c) \/ ImportReplace(c)

Build(c) ==
  \/ BuildStart(c) \/ BuildRead(c) \/ BuildUnlink(c) \/ BuildOpen(c) \/ BuildStamp(c)
  \/ BuildCommit(c) \/ BuildEncodeFails(c) \/ BuildUndo(c) \/ BuildReplace(c)

Retrieve(s) ==
  \/ SearchSummary(s) \/ SearchIndex(s) \/ SearchHint(s) \/ SearchHintApplies(s)
  \/ SearchTarget(s) \/ SearchArticle(s) \/ SearchLexical(s) \/ SearchSemantic(s)
  \/ SearchRead(s) \/ SearchApplies(s) \/ SearchAnswer(s) \/ SearchLocked(s)

Next ==
  \/ \E c \in Command : Import(c) \/ Build(c) \/ Exit(c)
  \/ \E s \in Search : Retrieve(s)

Spec == Init /\ [][Next]_vars

-----------------------------------------------------------------------------
Ends == {"idle", "done", "failed", "refused"}
CommandPlaces == Ends \cup {"unlink db", "open db", "begin", "record", "undo", "replace db",
  "read rows", "unlink index", "open index", "stamp", "commit index", "undo index",
  "replace index"}
States == {"OK", "PARTIAL_COVERAGE", "INSUFFICIENT_CORPUS", "NO_APPLICABLE_VERSION",
  "VERSION_AMBIGUOUS", "INDEX_NOT_READY"}

\* Types: names give inodes, a write transaction belongs to an import at work in
\* that file, a command that ended holds no file, and an answer has a state.
TypeOK ==
  /\ files \in [Names -> Inode \cup {NoFile}]
  /\ writer \in [Inode -> Command \cup {None}]
  /\ \A f \in Inode : writer[f] # None =>
       cmd[writer[f]].open = f /\ cmd[writer[f]].at \in {"record", "undo"}
  /\ \A c \in Command :
       /\ cmd[c].at \in CommandPlaces
       /\ cmd[c].at \in Ends => cmd[c].open = NoFile
  /\ \A s \in Search : Is(s, "answered") => search[s].state \in States

Covers(db, m) == \A r \in Content(m) : \E t \in Stored(db, r) : Same(t, r)

\* import_manifest is all or nothing, whatever fails, overlaps or is cut off:
\* every stored version came with a manifest whose every version is stored with
\* its text, and the versions under one authority carry one identity.
CorpusIsWhole ==
  /\ \A r \in Db : \E m \in Manifest : Admissible(m) /\ r \in Content(m) /\ Covers(Db, m)
  /\ OneIdentity(Db)

\* An index that counts as current was filled from one reading of the database:
\* never a partial build, nor the work of two builders in one file.
ReadyIndexIsSomeCorpus == Ready => IndexNow.rows \in corpora

\* "if legal.db changes, the UI/API reports the retrieval index as stale until
\* rebuilt" (docs/RETRIEVAL.md:39): an index that counts as current holds every
\* article of the database.
ReadyIndexCoversTheCorpus == Ready => IndexNow.rows = Articles(Db)

\* Whatever is imported, rebuilt or indexed while a search runs, its answer
\* holds one version of an authority at most, and one that was the only one
\* applicable on the date asked for at some moment of the search.
AnswersAreApplicable ==
  \A s \in Search : Is(s, "answered") =>
    \A j, k \in 1..Len(search[s].answer) :
      LET a == search[s].answer[j]
          b == search[s].answer[k]
      IN <<a[1], a[2]>> \in seen[s] /\ (a[1] = b[1] => a[2] = b[2])
=============================================================================
