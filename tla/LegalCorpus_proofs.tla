-------------------------- MODULE LegalCorpus_proofs --------------------------
(***************************************************************************)
(* For any number of commands and searches, any manifests and requests, on *)
(* either kind of platform: the database is a union of whole manifests, an *)
(* index that counts as current is one reading of the database, and an     *)
(* answer holds applicable versions only.                                  *)
(***************************************************************************)
EXTENDS LegalCorpus, FiniteSetTheorems, TLAPS

-----------------------------------------------------------------------------
(* The inductive invariant.                                                *)

CommandFields ==
  {"at", "open", "rebuild", "manifest", "k", "pending", "provider", "rows", "stamp"}
SearchFields ==
  {"at", "request", "excerpts", "ready", "lexical", "vectors", "notes", "missing", "target",
   "hits", "checked", "held", "id", "found", "answer", "state"}

\* Which inodes a name may give, and the shape of the records.
Shape ==
  /\ files \in [Names -> Inode \cup {NoFile}]
  /\ files["index"] \in Command \cup {SeedIndex, NoFile}
  /\ files["indexTmp"] \in Command \cup {NoFile}
  /\ writer \in [Inode -> Command \cup {None}]
  /\ DOMAIN dbs = Inode /\ DOMAIN indexes = Inode
  /\ DOMAIN cmd = Command
  /\ \A c \in Command :
       /\ DOMAIN cmd[c] = CommandFields
       /\ cmd[c].at \in CommandPlaces
       /\ cmd[c].open \in Inode \cup {NoFile}

BeforeOpen == {"idle", "unlink db", "open db", "read rows", "unlink index", "open index"}
WithoutFile == BeforeOpen \cup {"done", "failed", "refused", "replace db", "replace index"}

\* A command that has not opened its file yet has not made one either: nobody
\* knows its inode.  One that has closed its file holds none.
Unmade(c) ==
  /\ dbs[c] = {} /\ indexes[c] = Blank
  /\ \A n \in Names : files[n] # c
  /\ \A d \in Command : cmd[d].open # c
Opened ==
  \A c \in Command :
    /\ cmd[c].at \in BeforeOpen => Unmade(c)
    /\ cmd[c].at \in WithoutFile => cmd[c].open = NoFile
    /\ cmd[c].at \in {"begin", "record", "stamp", "commit index"} => cmd[c].open \in Inode

\* A write transaction belongs to an import at work in that file.
Writers ==
  /\ \A f \in Inode : writer[f] # None =>
       cmd[writer[f]].open = f /\ cmd[writer[f]].at \in {"record", "undo"}
  /\ \A c \in Command : cmd[c].at = "record" => writer[cmd[c].open] = c

\* The records of a manifest before the k-th are in the database, or will be.
Begun(db, m, k, pending) ==
  /\ k \in Nat \ {0}
  /\ pending \subseteq Content(m)
  /\ \A j \in 1..Len(m) : j < k =>
       \E t \in Stored(db \cup pending, Prepared(m[j])) : Same(t, Prepared(m[j]))
  /\ OneIdentity(db \cup pending)

\* Every version came with a manifest that is stored as a whole.
Whole(db) ==
  /\ \A r \in db : \E m \in Manifest : Admissible(m) /\ r \in Content(m) /\ Covers(db, m)
  /\ OneIdentity(db)

Imports ==
  /\ \A f \in Inode : Whole(dbs[f])
  /\ \A c \in Command :
       /\ cmd[c].at \in {"unlink db", "open db", "begin", "record"} =>
            cmd[c].manifest \in Manifest /\ Admissible(cmd[c].manifest)
       /\ cmd[c].at \in {"unlink db", "open db", "begin"} => cmd[c].k = 1 /\ cmd[c].pending = {}
       /\ cmd[c].at = "record" =>
            Begun(dbs[cmd[c].open], cmd[c].manifest, cmd[c].k, cmd[c].pending)

\* A builder fills a file of its own with one reading of the database.
Builds ==
  /\ \A c \in Command :
       /\ cmd[c].at \in {"unlink index", "open index", "stamp", "commit index"} => cmd[c].rows \in corpora
       /\ cmd[c].at \in {"stamp", "commit index"} => cmd[c].open = c /\ indexes[c] = Blank
       /\ indexes[c].built => indexes[c].rows \in corpora
  /\ files["index"] = SeedIndex => indexes[SeedIndex].rows \in corpora
  /\ Articles(Db) \in corpora

\* What a search has noted and found was applicable while it ran.
Active(x) == x.at \notin {"idle", "failed", "answered"}
Noticed(x, applicable) ==
  \A a \in DOMAIN x.notes : x.notes[a].state = "RESOLVED" => <<a, x.notes[a].version>> \in applicable
FoundOf(x) ==
  /\ IsFiniteSet(x.found)
  /\ \A id \in x.found : /\ id[1] \in DOMAIN x.notes
                         /\ x.notes[id[1]].state = "RESOLVED"
                         /\ id[2] = x.notes[id[1]].version
AnswerOf(x, applicable) ==
  x.at = "answered" =>
    /\ x.state \in States
    /\ \A j, k \in 1..Len(x.answer) :
         LET a == x.answer[j]
             b == x.answer[k]
         IN <<a[1], a[2]>> \in applicable /\ (a[1] = b[1] => a[2] = b[2])
SearchOK(x, applicable) ==
  /\ DOMAIN x = SearchFields
  /\ Active(x) => x.request \in Request
  /\ Noticed(x, applicable)
  /\ FoundOf(x)
  /\ x.at = "applies" => \A r \in x.held : x.id[1] = r.auth /\ x.id[2] = r.version
  /\ AnswerOf(x, applicable)
Searches ==
  /\ DOMAIN search = Search /\ DOMAIN seen = Search
  /\ \A s \in Search :
       /\ SearchOK(search[s], seen[s])
       /\ Active(search[s]) => OnlyOnes(Db, search[s].request.asOf) \subseteq seen[s]

Store == Shape /\ Opened /\ Writers /\ Imports /\ Builds
IInv == Store /\ Searches

-----------------------------------------------------------------------------
(* What a step of a command does to the commands.                          *)

\* Names and inodes, told apart.
LEMMA Basics ==
  /\ Names = {"db", "dbTmp", "index", "indexTmp"}
  /\ Command \subseteq Inode /\ SeedDb \in Inode /\ SeedIndex \in Inode
  /\ NoFile \notin Inode /\ None \notin Inode
  /\ \A c \in Command : c # SeedDb /\ c # SeedIndex /\ c # None /\ c # NoFile
  BY FilesDiffer DEF Names, Inode

Others(c) ==
  /\ DOMAIN cmd' = Command /\ DOMAIN cmd'[c] = CommandFields
  /\ \A d \in Command \ {c} : cmd'[d] = cmd[d]
KeepsWork(c) ==
  /\ cmd'[c].manifest = cmd[c].manifest /\ cmd'[c].k = cmd[c].k
  /\ cmd'[c].pending = cmd[c].pending
\* The command goes on with the same file.
Goes(c, place) ==
  /\ Others(c) /\ KeepsWork(c)
  /\ cmd'[c].at = place /\ cmd'[c].open = cmd[c].open /\ cmd'[c].rows = cmd[c].rows
\* It goes on with another file.
Opens(c, place, f) ==
  /\ Others(c) /\ KeepsWork(c)
  /\ cmd'[c].at = place /\ cmd'[c].open = f /\ cmd'[c].rows = cmd[c].rows
\* It holds no file any more.
Leaves(c, place) == Others(c) /\ cmd'[c].at = place /\ cmd'[c].open = NoFile

\* A place is set and nothing else.
LEMMA GoesOn ==
  ASSUME Shape, NEW c \in Command, NEW p, cmd' = [cmd EXCEPT ![c].at = p]
  PROVE  Goes(c, p)
  BY DEF Shape, CommandFields, Goes, Others, KeepsWork

\* A place and a file are set.
LEMMA OpensIt ==
  ASSUME Shape, NEW c \in Command, NEW p, NEW f, cmd' = [cmd EXCEPT ![c].at = p, ![c].open = f]
  PROVE  Opens(c, p, f)
  BY DEF Shape, CommandFields, Opens, Others, KeepsWork

\* A record with a place and without a file.
LEMMA Ended ==
  ASSUME Shape, NEW c \in Command, NEW p, End(c, p)
  PROVE  Leaves(c, p)
  <1>1. cmd' = [cmd EXCEPT ![c] = [Idle EXCEPT !.at = p]]
    BY DEF End
  <1>2. /\ DOMAIN [Idle EXCEPT !.at = p] = CommandFields
        /\ [Idle EXCEPT !.at = p].at = p /\ [Idle EXCEPT !.at = p].open = NoFile
    BY DEF Idle, CommandFields
  <1> DEFINE x == [Idle EXCEPT !.at = p]
  <1> HIDE DEF x
  <1>3. cmd' = [cmd EXCEPT ![c] = x] /\ DOMAIN x = CommandFields /\ x.at = p /\ x.open = NoFile
    BY <1>1, <1>2 DEF x
  <1> QED BY <1>3 DEF Leaves, Others, Shape

-----------------------------------------------------------------------------
(* What each step does.                                                    *)

Quiet == UNCHANGED <<files, dbs, indexes, writer, search, corpora, seen>>

\* The manifest is admitted, or the command refused.
LEMMA PrepareDoes ==
  ASSUME Shape, NEW c \in Command, ImportPrepare(c)
  PROVE  /\ cmd[c].at = "idle" /\ Quiet
         /\ \/ Leaves(c, "refused")
            \/ \E p \in {"unlink db", "open db"} :
                 /\ Leaves(c, p) /\ cmd'[c].manifest \in Manifest /\ Admissible(cmd'[c].manifest)
                 /\ cmd'[c].k = 1 /\ cmd'[c].pending = {}
  <1>1. cmd[c].at = "idle" /\ Quiet
    BY DEF ImportPrepare, Quiet, stores, At
  <1>2. PICK m \in Manifest, rebuild \in BOOLEAN :
          IF Admissible(m)
          THEN cmd' = [cmd EXCEPT ![c] = [Idle EXCEPT !.at = IF rebuild THEN "unlink db" ELSE "open db",
                                                  !.rebuild = rebuild, !.manifest = m]]
          ELSE End(c, "refused")
    BY DEF ImportPrepare
  <1>3. CASE Admissible(m)
    <2> DEFINE p == IF rebuild THEN "unlink db" ELSE "open db"
               x == [Idle EXCEPT !.at = p, !.rebuild = rebuild, !.manifest = m]
    <2>1. cmd' = [cmd EXCEPT ![c] = x]
      BY <1>2, <1>3
    <2>2. p \in {"unlink db", "open db"}
      OBVIOUS
    <2> HIDE DEF p
    <2>3. /\ DOMAIN x = CommandFields /\ x.at = p /\ x.open = NoFile
          /\ x.manifest = m /\ x.k = 1 /\ x.pending = {}
      BY DEF Idle, CommandFields
    <2> HIDE DEF x
    <2>4. Others(c) /\ cmd'[c] = x
      BY <2>1, <2>3 DEF Others, Shape
    <2> QED BY <1>1, <1>3, <2>2, <2>3, <2>4 DEF Leaves
  <1>4. CASE ~Admissible(m)
    BY <1>1, <1>2, <1>4, Ended
  <1> QED BY <1>3, <1>4

\* The name goes, or the command fails; nothing else happens.
LEMMA UnlinkDoes ==
  ASSUME Shape, NEW c \in Command, NEW from, NEW name, NEW to, Unlink(c, from, name, to)
  PROVE  /\ cmd[c].at = from /\ UNCHANGED <<dbs, indexes, writer, search, corpora, seen>>
         /\ \/ Leaves(c, "failed") /\ UNCHANGED files
            \/ Goes(c, to) /\ files' = [files EXCEPT ![name] = NoFile]
  <1>1. cmd[c].at = from /\ UNCHANGED <<dbs, indexes, writer, search, corpora, seen>>
    BY DEF Unlink, history, At
  <1>2. \/ End(c, "failed") /\ UNCHANGED files
        \/ cmd' = [cmd EXCEPT ![c].at = to] /\ files' = [files EXCEPT ![name] = NoFile]
    BY DEF Unlink
  <1> QED BY <1>1, <1>2, Ended, GoesOn

\* A new file is made, or the one under the name is opened.
LEMMA OpenDoes ==
  ASSUME Shape, NEW c \in Command, ImportOpen(c)
  PROVE  /\ cmd[c].at = "open db" /\ UNCHANGED <<dbs, indexes, writer, search>>
         /\ \E name \in {"db", "dbTmp"} :
              \/ /\ files[name] = NoFile
                 /\ files' = [files EXCEPT ![name] = c] /\ Opens(c, "begin", c)
                 /\ IF name = "db" THEN Observe({}) ELSE UNCHANGED <<corpora, seen>>
              \/ /\ files[name] # NoFile /\ UNCHANGED <<files, corpora, seen>>
                 /\ \E p \in {"begin", "undo"} : Opens(c, p, files[name])
  <1>1. cmd[c].at = "open db" /\ UNCHANGED <<dbs, indexes, writer, search>>
    BY DEF ImportOpen, At
  <1>2. PICK name \in {"db", "dbTmp"} :
          IF files[name] = NoFile
          THEN /\ files' = [files EXCEPT ![name] = c]
               /\ cmd' = [cmd EXCEPT ![c].at = "begin", ![c].open = c]
               /\ IF name = "db" THEN Observe({}) ELSE UNCHANGED history
          ELSE /\ cmd' = [cmd EXCEPT ![c].at = IF Locked(files[name]) THEN "undo" ELSE "begin",
                                     ![c].open = files[name]]
               /\ UNCHANGED files /\ UNCHANGED history
    BY DEF ImportOpen
  <1>3. CASE files[name] = NoFile
    BY <1>1, <1>2, <1>3, OpensIt DEF history
  <1>4. CASE files[name] # NoFile
    <2> DEFINE p == IF Locked(files[name]) THEN "undo" ELSE "begin"
    <2>1. cmd' = [cmd EXCEPT ![c].at = p, ![c].open = files[name]]
      BY <1>2, <1>4
    <2>2. p \in {"begin", "undo"}
      OBVIOUS
    <2> HIDE DEF p
    <2>3. Opens(c, p, files[name])
      BY <2>1, OpensIt
    <2> QED BY <1>1, <1>2, <1>4, <2>2, <2>3 DEF history
  <1> QED BY <1>3, <1>4

\* The transaction begins, or another one is open.
LEMMA BeginDoes ==
  ASSUME Shape, NEW c \in Command, ImportBegin(c)
  PROVE  /\ cmd[c].at = "begin" /\ UNCHANGED <<files, dbs, indexes, search, corpora, seen>>
         /\ \/ Goes(c, "undo") /\ UNCHANGED writer
            \/ /\ Goes(c, "record") /\ ~Locked(cmd[c].open)
               /\ writer' = [writer EXCEPT ![cmd[c].open] = c]
  BY GoesOn DEF ImportBegin, At, history

\* The next record is accepted, or the import is given up.
LEMMA RecordDoes ==
  ASSUME Shape, NEW c \in Command, ImportRecord(c)
  PROVE  LET visible == dbs[cmd[c].open] \cup cmd[c].pending
             r == Prepared(cmd[c].manifest[cmd[c].k])
         IN /\ cmd[c].at = "record" /\ Quiet /\ cmd[c].k <= Len(cmd[c].manifest)
            /\ \/ Goes(c, "undo")
               \/ /\ Others(c) /\ cmd'[c].at = "record" /\ ~Conflicts(visible, r)
                  /\ cmd'[c].open = cmd[c].open /\ cmd'[c].rows = cmd[c].rows
                  /\ cmd'[c].manifest = cmd[c].manifest /\ cmd'[c].k = cmd[c].k + 1
                  /\ \/ Stored(visible, r) # {} /\ cmd'[c].pending = cmd[c].pending
                     \/ KeysFree(visible, r) /\ cmd'[c].pending = cmd[c].pending \cup {r}
  <1> DEFINE visible == dbs[cmd[c].open] \cup cmd[c].pending
             r == Prepared(cmd[c].manifest[cmd[c].k])
             noChange == Stored(visible, r) # {}
             refused == Conflicts(visible, r) \/ (~noChange /\ ~KeysFree(visible, r))
  <1>1. cmd[c].at = "record" /\ Quiet /\ cmd[c].k <= Len(cmd[c].manifest)
    BY DEF ImportRecord, Quiet, stores, At
  <1>2. IF refused THEN cmd' = [cmd EXCEPT ![c].at = "undo"]
        ELSE cmd' = [cmd EXCEPT ![c].k = @ + 1,
                                ![c].pending = IF noChange THEN @ ELSE @ \cup {r}]
    BY DEF ImportRecord
  <1>3. CASE refused
    BY <1>1, <1>2, <1>3, GoesOn
  <1>4. CASE ~refused
    <2> DEFINE more == IF noChange THEN cmd[c].pending ELSE cmd[c].pending \cup {r}
    <2>1. cmd' = [cmd EXCEPT ![c].k = cmd[c].k + 1, ![c].pending = more]
      BY <1>2, <1>4
    <2>2. /\ ~Conflicts(visible, r)
          /\ \/ noChange /\ more = cmd[c].pending
             \/ KeysFree(visible, r) /\ more = cmd[c].pending \cup {r}
      BY <1>4
    <2> HIDE DEF more, visible, r
    <2>3. /\ Others(c) /\ cmd'[c].at = cmd[c].at
          /\ cmd'[c].open = cmd[c].open /\ cmd'[c].rows = cmd[c].rows
          /\ cmd'[c].manifest = cmd[c].manifest /\ cmd'[c].k = cmd[c].k + 1 /\ cmd'[c].pending = more
      BY <2>1 DEF Shape, Others, CommandFields
    <2>4. \/ Stored(visible, r) # {} /\ cmd'[c].pending = cmd[c].pending
          \/ KeysFree(visible, r) /\ cmd'[c].pending = cmd[c].pending \cup {r}
      BY <2>2, <2>3
    <2> QED BY <1>1, <2>2, <2>3, <2>4 DEF visible, r
  <1> QED BY <1>3, <1>4

\* What was pending is in the file, which is closed.
LEMMA CommitDoes ==
  ASSUME Shape, NEW c \in Command, ImportCommit(c)
  PROVE  LET committed == dbs[cmd[c].open] \cup cmd[c].pending
         IN /\ cmd[c].at = "record" /\ cmd[c].k > Len(cmd[c].manifest)
            /\ UNCHANGED <<files, indexes, search>> /\ Release(c)
            /\ \E p \in {"replace db", "done"} : Leaves(c, p)
            /\ dbs' = [dbs EXCEPT ![cmd[c].open] = committed]
            /\ Observe(IF cmd[c].open = files["db"] THEN committed ELSE Db)
  <1>1. \/ cmd' = [cmd EXCEPT ![c] = [Idle EXCEPT !.at = "replace db"]]
        \/ End(c, "done")
    BY DEF ImportCommit
  <1>2. \E p \in {"replace db", "done"} : Leaves(c, p)
    BY <1>1, Ended DEF End
  <1> QED BY <1>2 DEF ImportCommit, At

\* The working names given may go.
LEMMA UndoDoes ==
  ASSUME Shape, NEW c \in Command, NEW from, NEW names, Undo(c, from, names)
  PROVE  /\ cmd[c].at = from /\ UNCHANGED <<dbs, indexes, search, corpora, seen>>
         /\ Leaves(c, "failed") /\ Release(c)
         /\ files' = [n \in Names |-> IF SharesDelete /\ n \in names THEN NoFile ELSE files[n]]
  BY Ended DEF Undo, At, history

\* The working name moves onto the target, or the command fails.
LEMMA ReplaceDoes ==
  ASSUME Shape, NEW c \in Command, NEW from, NEW name, NEW target, Replace(c, from, name, target)
  PROVE  /\ cmd[c].at = from /\ UNCHANGED <<dbs, indexes, writer, search>>
         /\ \/ Leaves(c, "failed") /\ UNCHANGED <<files, corpora, seen>>
            \/ /\ Leaves(c, "done") /\ files[name] # NoFile
               /\ files' = [files EXCEPT ![name] = NoFile, ![target] = files[name]]
               /\ IF target = "db" THEN Observe(dbs[files[name]]) ELSE UNCHANGED <<corpora, seen>>
  BY Ended DEF Replace, At, history

\* The build starts without a file.
LEMMA BuildStartDoes ==
  ASSUME Shape, NEW c \in Command, BuildStart(c)
  PROVE  /\ cmd[c].at = "idle" /\ Quiet
         /\ \/ Leaves(c, "failed")
            \/ Opens(c, "read rows", cmd[c].open)
  <1>1. \/ End(c, "failed")
        \/ \E v \in Provider \cup {None} :
             cmd' = [cmd EXCEPT ![c].at = "read rows", ![c].provider = v]
    BY DEF BuildStart
  <1>2. ASSUME NEW v, cmd' = [cmd EXCEPT ![c].at = "read rows", ![c].provider = v]
        PROVE  Opens(c, "read rows", cmd[c].open)
    BY <1>2 DEF Shape, CommandFields, Opens, Others, KeepsWork
  <1> QED BY <1>1, <1>2, Ended DEF BuildStart, Quiet, stores, At

\* It holds what the database has now.
LEMMA BuildReadDoes ==
  ASSUME Shape, NEW c \in Command, BuildRead(c)
  PROVE  /\ cmd[c].at = "read rows" /\ Quiet
         /\ Others(c) /\ cmd'[c].at = "unlink index" /\ cmd'[c].open = cmd[c].open
         /\ cmd'[c].rows = Articles(Db)
  <1> DEFINE rows == Articles(Db)
  <1>1. cmd[c].at = "read rows" /\ Quiet /\ cmd' = [cmd EXCEPT ![c].at = "unlink index", ![c].rows = rows]
    BY DEF BuildRead, At, Quiet, stores
  <1> HIDE DEF rows
  <1>2. Others(c) /\ cmd'[c].at = "unlink index" /\ cmd'[c].open = cmd[c].open /\ cmd'[c].rows = rows
    BY <1>1 DEF Shape, CommandFields, Others
  <1> QED BY <1>1, <1>2 DEF rows

\* It makes its file, or finds one that another has made.
LEMMA BuildOpenDoes ==
  ASSUME Shape, NEW c \in Command, BuildOpen(c)
  PROVE  /\ cmd[c].at = "open index" /\ UNCHANGED <<dbs, indexes, writer, search, corpora, seen>>
         /\ \/ /\ files["indexTmp"] = NoFile /\ Opens(c, "stamp", c)
               /\ files' = [files EXCEPT !["indexTmp"] = c]
            \/ /\ files["indexTmp"] # NoFile /\ UNCHANGED files
               /\ Opens(c, "undo index", files["indexTmp"])
  <1>1. cmd[c].at = "open index" /\ UNCHANGED <<dbs, indexes, writer, search, corpora, seen>>
    BY DEF BuildOpen, At, history
  <1> DEFINE f == files["indexTmp"]
  <1>2. \/ /\ f = NoFile /\ cmd' = [cmd EXCEPT ![c].at = "stamp", ![c].open = c]
           /\ files' = [files EXCEPT !["indexTmp"] = c]
        \/ /\ f # NoFile /\ UNCHANGED files
           /\ cmd' = [cmd EXCEPT ![c].at = "undo index", ![c].open = f]
    BY DEF BuildOpen
  <1> HIDE DEF f
  <1>3. \/ /\ f = NoFile /\ Opens(c, "stamp", c)
           /\ files' = [files EXCEPT !["indexTmp"] = c]
        \/ f # NoFile /\ UNCHANGED files /\ Opens(c, "undo index", f)
    BY <1>2, OpensIt
  <1> QED BY <1>1, <1>3 DEF f

\* It keeps its file and its rows.
LEMMA StampDoes ==
  ASSUME Shape, NEW c \in Command, BuildStamp(c)
  PROVE  cmd[c].at = "stamp" /\ Quiet /\ Opens(c, "commit index", cmd[c].open)
  <1> DEFINE stamp == Articles(Db)
  <1>1. cmd[c].at = "stamp" /\ Quiet /\ cmd' = [cmd EXCEPT ![c].at = "commit index", ![c].stamp = stamp]
    BY DEF BuildStamp, At, Quiet, stores
  <1> HIDE DEF stamp
  <1> QED BY <1>1 DEF Shape, CommandFields, Opens, Others, KeepsWork

\* Its rows join what is in its file, which is closed.
LEMMA BuildCommitDoes ==
  ASSUME Shape, NEW c \in Command, BuildCommit(c), cmd[c].open \in Inode
  PROVE  /\ cmd[c].at = "commit index" /\ Leaves(c, "replace index")
         /\ UNCHANGED <<files, dbs, writer, search, corpora, seen>>
         /\ DOMAIN indexes' = Inode
         /\ \A f \in Inode \ {cmd[c].open} : indexes'[f] = indexes[f]
         /\ indexes'[cmd[c].open].rows = indexes[cmd[c].open].rows \cup cmd[c].rows
  <1>1. /\ cmd[c].at = "commit index" /\ UNCHANGED <<files, dbs, writer, search, corpora, seen>>
        /\ End(c, "replace index")
    BY DEF BuildCommit, At, history, End
  <1> DEFINE new == [built |-> TRUE, rows |-> indexes[cmd[c].open].rows \cup cmd[c].rows,
                     stamp |-> cmd[c].stamp, vectors |-> cmd[c].provider]
  <1>2. indexes' = [indexes EXCEPT ![cmd[c].open] = new]
    BY DEF BuildCommit
  <1>3. new.rows = indexes[cmd[c].open].rows \cup cmd[c].rows
    OBVIOUS
  <1> HIDE DEF new
  <1> QED BY <1>1, <1>2, <1>3, Ended DEF Shape

\* It keeps its file until it is undone.
LEMMA EncodeFailsDoes ==
  ASSUME Shape, NEW c \in Command, BuildEncodeFails(c)
  PROVE  cmd[c].at = "commit index" /\ Quiet /\ Goes(c, "undo index")
  BY GoesOn DEF BuildEncodeFails, At, Quiet, stores

\* The command is over, and so is its transaction.
LEMMA ExitDoes ==
  ASSUME Shape, NEW c \in Command, Exit(c)
  PROVE  /\ cmd[c].at # "idle" /\ UNCHANGED <<files, dbs, indexes, search, corpora, seen>>
         /\ Leaves(c, "failed") /\ Release(c)
  BY Ended DEF Exit, history

-----------------------------------------------------------------------------
(* Every step of a command keeps the parts of the invariant.               *)

\* The places of a command, one by one.
Places ==
  /\ "idle" \in CommandPlaces /\ "unlink db" \in CommandPlaces /\ "open db" \in CommandPlaces
  /\ "read rows" \in CommandPlaces /\ "unlink index" \in CommandPlaces /\ "open index" \in CommandPlaces
  /\ "done" \in CommandPlaces /\ "failed" \in CommandPlaces /\ "refused" \in CommandPlaces
  /\ "replace db" \in CommandPlaces /\ "replace index" \in CommandPlaces /\ "begin" \in CommandPlaces
  /\ "record" \in CommandPlaces /\ "undo" \in CommandPlaces /\ "stamp" \in CommandPlaces
  /\ "commit index" \in CommandPlaces /\ "undo index" \in CommandPlaces
LateOnes ==
  /\ "done" \notin BeforeOpen /\ "failed" \notin BeforeOpen /\ "refused" \notin BeforeOpen
  /\ "replace db" \notin BeforeOpen /\ "replace index" \notin BeforeOpen /\ "begin" \notin BeforeOpen
  /\ "record" \notin BeforeOpen /\ "undo" \notin BeforeOpen /\ "stamp" \notin BeforeOpen
  /\ "commit index" \notin BeforeOpen /\ "undo index" \notin BeforeOpen
HoldingOnes ==
  /\ "begin" \notin WithoutFile /\ "record" \notin WithoutFile /\ "undo" \notin WithoutFile
  /\ "stamp" \notin WithoutFile /\ "commit index" \notin WithoutFile /\ "undo index" \notin WithoutFile
FreeOnes ==
  /\ "done" \in WithoutFile /\ "failed" \in WithoutFile /\ "refused" \in WithoutFile
  /\ "replace db" \in WithoutFile /\ "replace index" \in WithoutFile
\* Which places come before, with and after a file.
LEMMA PlacesAre == Places /\ LateOnes /\ HoldingOnes /\ FreeOnes
  BY DEF Places, LateOnes, HoldingOnes, FreeOnes, BeforeOpen, WithoutFile, CommandPlaces, Ends

\* Every step keeps the shapes.
LEMMA ShapeKept ==
  ASSUME Shape, Opened, NEW c \in Command, Import(c) \/ Build(c) \/ Exit(c)
  PROVE  Shape'
  <1> DEFINE Files == /\ files' \in [Names -> Inode \cup {NoFile}]
                      /\ files'["index"] \in Command \cup {SeedIndex, NoFile}
                      /\ files'["indexTmp"] \in Command \cup {NoFile}
             Stores == /\ writer' \in [Inode -> Command \cup {None}]
                       /\ DOMAIN dbs' = Inode /\ DOMAIN indexes' = Inode
             Mine == /\ Others(c) /\ cmd'[c].at \in CommandPlaces
                     /\ cmd'[c].open \in Inode \cup {NoFile}
  <1>a. Files /\ Stores /\ Mine => Shape'
    BY DEF Shape, Others
  <1>b. UNCHANGED files => Files
    BY DEF Shape
  <1>c. UNCHANGED <<dbs, indexes, writer>> => Stores
    BY DEF Shape
  <1>d. Release(c) => writer' \in [Inode -> Command \cup {None}]
    BY DEF Release, Shape
  <1>e. \A n \in Names : files[n] \in Inode \cup {NoFile}
    BY DEF Shape
  <1>f. ASSUME NEW name \in {"db", "dbTmp", "indexTmp"}, NEW f \in Command \cup {NoFile},
               files' = [files EXCEPT ![name] = f]
        PROVE  Files
    BY <1>f, Basics DEF Shape
  <1>g. ASSUME NEW p \in CommandPlaces, Leaves(c, p)
        PROVE  Mine
    BY <1>g DEF Leaves
  <1>h. ASSUME NEW p \in CommandPlaces, Goes(c, p)
        PROVE  Mine
    BY <1>h DEF Goes, Shape
  <1>i. ASSUME NEW p \in CommandPlaces, NEW f \in Inode \cup {NoFile}, Opens(c, p, f)
        PROVE  Mine
    BY <1>i DEF Opens
  <1>j. cmd[c].open \in Inode \cup {NoFile}
    BY DEF Shape
  <1>k. Places
    BY PlacesAre
  <1> HIDE DEF Files, Stores, Mine
  <1>1. CASE ImportPrepare(c)
    <2>1. Mine
      BY <1>1, <1>g, <1>k, PrepareDoes DEF Places
    <2> QED BY <1>1, <1>a, <1>b, <1>c, <2>1, PrepareDoes DEF Quiet
  <1>2. ASSUME NEW from, NEW name \in {"dbTmp", "indexTmp"}, NEW to \in CommandPlaces, Unlink(c, from, name, to)
        PROVE  Shape'
    <2>1. Mine
      BY <1>2, <1>g, <1>h, <1>k, UnlinkDoes DEF Places
    <2>2. Files
      BY <1>2, <1>b, <1>f, UnlinkDoes
    <2> QED BY <1>2, <1>a, <1>c, <2>1, <2>2, UnlinkDoes
  <1>3. CASE ImportOpen(c)
    <2>1. PICK name \in {"db", "dbTmp"} :
            \/ files' = [files EXCEPT ![name] = c] /\ Opens(c, "begin", c)
            \/ UNCHANGED files /\ \E p \in {"begin", "undo"} : Opens(c, p, files[name])
      BY <1>3, OpenDoes
    <2>2. files[name] \in Inode \cup {NoFile}
      BY <1>e, Basics
    <2>3. Mine
      BY <1>i, <1>k, <2>1, <2>2, Basics DEF Places
    <2>4. Files
      BY <1>b, <1>f, <2>1
    <2> QED BY <1>3, <1>a, <1>c, <2>3, <2>4, OpenDoes
  <1>4. CASE ImportBegin(c)
    <2>1. Mine
      BY <1>4, <1>h, <1>k, BeginDoes DEF Places
    <2>2. Stores
      BY <1>4, BeginDoes DEF Stores, Shape
    <2> QED BY <1>4, <1>a, <1>b, <2>1, <2>2, BeginDoes
  <1>5. CASE ImportRecord(c)
    <2>1. Goes(c, "undo") \/ (Others(c) /\ cmd'[c].at = "record" /\ cmd'[c].open = cmd[c].open)
      BY <1>5, RecordDoes
    <2>2. Mine
      BY <1>h, <1>j, <1>k, <2>1 DEF Places, Mine
    <2> QED BY <1>5, <1>a, <1>b, <1>c, <2>2, RecordDoes DEF Quiet
  <1>6. CASE ImportCommit(c)
    <2>1. Mine
      BY <1>6, <1>g, <1>k, CommitDoes DEF Places
    <2>2. Stores
      BY <1>6, <1>d, CommitDoes DEF Stores, Shape
    <2> QED BY <1>6, <1>a, <1>b, <2>1, <2>2, CommitDoes
  <1>7. ASSUME NEW from, NEW names, Undo(c, from, names)
        PROVE  Shape'
    <2>1. Mine
      BY <1>7, <1>g, <1>k, UndoDoes DEF Places
    <2>2. Files
      BY <1>7, Basics, UndoDoes DEF Files, Shape
    <2>3. Stores
      BY <1>7, <1>d, UndoDoes DEF Stores, Shape
    <2> QED BY <1>a, <2>1, <2>2, <2>3
  <1>8. ASSUME NEW from, Replace(c, from, "dbTmp", "db") \/ Replace(c, from, "indexTmp", "index")
        PROVE  Shape'
    <2>1. Mine
      BY <1>8, <1>g, <1>k, ReplaceDoes DEF Places
    <2>2. \/ UNCHANGED files
          \/ files' = [files EXCEPT !["dbTmp"] = NoFile, !["db"] = files["dbTmp"]]
          \/ files' = [files EXCEPT !["indexTmp"] = NoFile, !["index"] = files["indexTmp"]]
      BY <1>8, ReplaceDoes
    <2>3. Files
      BY <1>b, <1>e, <2>2, Basics DEF Files, Shape
    <2> QED BY <1>8, <1>a, <1>c, <2>1, <2>3, ReplaceDoes
  <1>9. CASE BuildStart(c)
    <2>1. Mine
      BY <1>9, <1>g, <1>i, <1>j, <1>k, BuildStartDoes DEF Places
    <2> QED BY <1>9, <1>a, <1>b, <1>c, <2>1, BuildStartDoes DEF Quiet
  <1>10. CASE BuildRead(c)
    <2>1. Mine
      BY <1>10, <1>j, <1>k, BuildReadDoes DEF Places, Mine
    <2> QED BY <1>10, <1>a, <1>b, <1>c, <2>1, BuildReadDoes DEF Quiet
  <1>11. CASE BuildOpen(c)
    <2>1. files["indexTmp"] \in Inode \cup {NoFile}
      BY <1>e, Basics
    <2>2. Mine
      BY <1>11, <1>i, <1>k, <2>1, Basics, BuildOpenDoes DEF Places
    <2>3. Files
      BY <1>11, <1>b, <1>f, BuildOpenDoes
    <2> QED BY <1>11, <1>a, <1>c, <2>2, <2>3, BuildOpenDoes
  <1>12. CASE BuildStamp(c)
    <2>1. Mine
      BY <1>12, <1>i, <1>j, <1>k, StampDoes DEF Places
    <2> QED BY <1>12, <1>a, <1>b, <1>c, <2>1, StampDoes DEF Quiet
  <1>13. CASE BuildCommit(c)
    <2>1. cmd[c].open \in Inode
      BY <1>13 DEF BuildCommit, At, Opened
    <2>2. Mine
      BY <1>13, <1>g, <1>k, <2>1, BuildCommitDoes DEF Places
    <2>3. Stores
      BY <1>13, <2>1, BuildCommitDoes DEF Stores, Shape
    <2> QED BY <1>13, <1>a, <1>b, <2>1, <2>2, <2>3, BuildCommitDoes
  <1>14. CASE BuildEncodeFails(c)
    <2>1. Mine
      BY <1>14, <1>h, <1>k, EncodeFailsDoes DEF Places
    <2> QED BY <1>14, <1>a, <1>b, <1>c, <2>1, EncodeFailsDoes DEF Quiet
  <1>15. CASE Exit(c)
    <2>1. Mine
      BY <1>15, <1>g, <1>k, ExitDoes DEF Places
    <2>2. Stores
      BY <1>15, <1>d, ExitDoes DEF Stores, Shape
    <2> QED BY <1>15, <1>a, <1>b, <2>1, <2>2, ExitDoes
  <1> QED
    <2>1. CASE Import(c)
      BY <2>1, <1>k, <1>1, <1>2, <1>3, <1>4, <1>5, <1>6, <1>7, <1>8
         DEF Import, ImportUnlink, ImportUndo, ImportReplace, Places
    <2>2. CASE Build(c)
      BY <2>2, <1>k, <1>2, <1>7, <1>8, <1>9, <1>10, <1>11, <1>12, <1>13, <1>14
         DEF Build, BuildUnlink, BuildUndo, BuildReplace, Places
    <2> QED BY <2>1, <2>2, <1>15

EarlyOnes ==
  /\ "idle" \in BeforeOpen /\ "unlink db" \in BeforeOpen /\ "open db" \in BeforeOpen
  /\ "read rows" \in BeforeOpen /\ "unlink index" \in BeforeOpen /\ "open index" \in BeforeOpen
  /\ BeforeOpen \subseteq WithoutFile
\* The places before a file is opened.
LEMMA EarlyAre == EarlyOnes
  BY DEF EarlyOnes, BeforeOpen, WithoutFile

\* Where the names of the next state come from: from a name, or from the command
\* that makes its own file now.
FilesTraced(c) ==
  \A n \in Names :
    \/ files'[n] = NoFile \/ \E m \in Names : files'[n] = files[m]
    \/ files'[n] = c /\ cmd'[c].at \notin BeforeOpen
\* And the file a command holds.
HeldTraced(c) ==
  /\ Others(c)
  /\ \/ cmd'[c].open = NoFile \/ cmd'[c].open = cmd[c].open
     \/ \E m \in Names : cmd'[c].open = files[m]
     \/ cmd'[c].open = c /\ cmd'[c].at \notin BeforeOpen
  /\ cmd'[c].at \in BeforeOpen => cmd[c].at \in BeforeOpen
  /\ cmd'[c].at \in WithoutFile => cmd'[c].open = NoFile
  /\ cmd'[c].at \in {"begin", "record", "stamp", "commit index"} => cmd'[c].open \in Inode
\* Only the file it holds is written.
WritesItsFile(c) ==
  \A f \in Inode : f # cmd[c].open => dbs'[f] = dbs[f] /\ indexes'[f] = indexes[f]

\* A step of a command leaves the files of others alone.
LEMMA Traces ==
  ASSUME Shape, Opened, NEW c \in Command, Import(c) \/ Build(c) \/ Exit(c)
  PROVE  FilesTraced(c) /\ HeldTraced(c) /\ WritesItsFile(c)
  <1> DEFINE Goal == FilesTraced(c) /\ HeldTraced(c) /\ WritesItsFile(c)
  <1>a. UNCHANGED files => FilesTraced(c)
    BY DEF FilesTraced
  <1>b. UNCHANGED <<dbs, indexes>> => WritesItsFile(c)
    BY DEF WritesItsFile
  <1>c. ASSUME NEW p, p \notin BeforeOpen \/ cmd[c].at \in BeforeOpen, Leaves(c, p),
               p \notin {"begin", "record", "stamp", "commit index"}
        PROVE  HeldTraced(c)
    BY <1>c DEF Leaves, HeldTraced
  <1>d. cmd[c].at \in WithoutFile => cmd[c].open = NoFile
    BY DEF Opened
  <1>e. ASSUME NEW p, Goes(c, p), p \in BeforeOpen, cmd[c].at \in BeforeOpen,
               p \notin {"begin", "record", "stamp", "commit index"}
        PROVE  HeldTraced(c)
    BY <1>e, <1>d, EarlyAre DEF Goes, HeldTraced, EarlyOnes
  <1>f. ASSUME NEW p, Goes(c, p), p \notin WithoutFile, p \notin BeforeOpen,
               p \in {"begin", "record", "stamp", "commit index"} => cmd[c].open \in Inode
        PROVE  HeldTraced(c)
    BY <1>f DEF Goes, HeldTraced
  <1>g. ASSUME NEW p, NEW f, Opens(c, p, f), p \notin WithoutFile, p \notin BeforeOpen,
               f = c \/ f = cmd[c].open \/ \E m \in Names : f = files[m],
               p \in {"begin", "record", "stamp", "commit index"} => f \in Inode
        PROVE  HeldTraced(c)
    BY <1>g DEF Opens, HeldTraced
  <1>h. ASSUME NEW name, files' = [files EXCEPT ![name] = NoFile]
        PROVE  FilesTraced(c)
    <2>1. DOMAIN files = Names
      BY DEF Shape
    <2> QED BY <1>h, <2>1 DEF FilesTraced
  <1>i. ASSUME NEW name, files' = [files EXCEPT ![name] = c], cmd'[c].at \notin BeforeOpen
        PROVE  FilesTraced(c)
    <2>1. DOMAIN files = Names
      BY DEF Shape
    <2> QED BY <1>i, <2>1 DEF FilesTraced
  <1>j. EarlyOnes /\ LateOnes /\ HoldingOnes /\ FreeOnes
    BY PlacesAre, EarlyAre
  <1>k. cmd[c].at \in {"begin", "record", "stamp", "commit index"} => cmd[c].open \in Inode
    BY DEF Opened
  <1>l. \A n \in Names : files[n] \in Inode \cup {NoFile}
    BY DEF Shape
  <1> SUFFICES Goal
    OBVIOUS
  <1> HIDE DEF Goal
  <1>m. "db" \in Names /\ "dbTmp" \in Names /\ "index" \in Names /\ "indexTmp" \in Names
    BY Basics
  <1>1. CASE ImportPrepare(c)
    <2>1. cmd[c].at = "idle" /\ \E p \in {"refused", "unlink db", "open db"} : Leaves(c, p)
      BY <1>1, PrepareDoes
    <2>2. HeldTraced(c)
      BY <2>1, <1>c, <1>j DEF EarlyOnes
    <2> QED BY <1>1, <2>2, <1>a, <1>b, PrepareDoes DEF Quiet, Goal
  <1>2. ASSUME NEW from \in BeforeOpen, NEW name, NEW to \in BeforeOpen, Unlink(c, from, name, to),
               to \notin {"begin", "record", "stamp", "commit index"}
        PROVE  Goal
    <2>1. HeldTraced(c)
      BY <1>2, <1>c, <1>e, <1>j, UnlinkDoes DEF LateOnes
    <2>2. FilesTraced(c)
      BY <1>2, <1>a, <1>h, UnlinkDoes
    <2> QED BY <1>2, <1>b, <2>1, <2>2, UnlinkDoes DEF Goal
  <1>3. CASE ImportOpen(c)
    <2>1. PICK name \in {"db", "dbTmp"} :
            \/ files' = [files EXCEPT ![name] = c] /\ Opens(c, "begin", c)
            \/ files[name] # NoFile /\ UNCHANGED files /\ \E p \in {"begin", "undo"} : Opens(c, p, files[name])
      BY <1>3, OpenDoes
    <2>2. name \in Names /\ c \in Inode
      BY Basics
    <2>3. HeldTraced(c)
      BY <2>1, <2>2, <1>g, <1>j, <1>l DEF LateOnes, HoldingOnes
    <2>4. FilesTraced(c)
      BY <2>1, <1>a, <1>i, <1>j DEF Opens, LateOnes
    <2> QED BY <1>3, <1>b, <2>3, <2>4, OpenDoes DEF Goal
  <1>4. CASE ImportBegin(c)
    <2>1. cmd[c].at = "begin" /\ (Goes(c, "undo") \/ Goes(c, "record"))
      BY <1>4, BeginDoes
    <2>2. HeldTraced(c)
      BY <2>1, <1>f, <1>j, <1>k DEF LateOnes, HoldingOnes
    <2> QED BY <1>4, <1>a, <1>b, <2>2, BeginDoes DEF Goal
  <1>5. CASE ImportRecord(c)
    <2>1. /\ cmd[c].at = "record"
          /\ Goes(c, "undo") \/ (Others(c) /\ cmd'[c].at = "record" /\ cmd'[c].open = cmd[c].open)
      BY <1>5, RecordDoes
    <2>2. Goes(c, "undo") => HeldTraced(c)
      BY <1>f, <1>j DEF LateOnes, HoldingOnes
    <2>3. Others(c) /\ cmd'[c].at = "record" /\ cmd'[c].open = cmd[c].open => HeldTraced(c)
      BY <2>1, <1>k, <1>j DEF LateOnes, HoldingOnes, HeldTraced
    <2>4. HeldTraced(c)
      BY <2>1, <2>2, <2>3
    <2> QED BY <1>5, <1>a, <1>b, <2>4, RecordDoes DEF Quiet, Goal
  <1>6. CASE ImportCommit(c)
    <2>1. HeldTraced(c)
      BY <1>6, <1>c, <1>j, CommitDoes DEF LateOnes
    <2>2. /\ UNCHANGED <<files, indexes>>
          /\ dbs' = [dbs EXCEPT ![cmd[c].open] = dbs[cmd[c].open] \cup cmd[c].pending]
      BY <1>6, CommitDoes
    <2>3. WritesItsFile(c)
      BY <2>2 DEF WritesItsFile, Shape
    <2> QED BY <2>2, <1>a, <2>1, <2>3 DEF Goal
  <1>7. ASSUME NEW from, NEW names, Undo(c, from, names)
        PROVE  Goal
    <2>1. HeldTraced(c)
      BY <1>7, <1>c, <1>j, UndoDoes DEF LateOnes
    <2>2. FilesTraced(c)
      BY <1>7, UndoDoes DEF FilesTraced
    <2> QED BY <1>7, <1>b, <2>1, <2>2, UndoDoes DEF Goal
  <1>8. ASSUME NEW from, NEW name \in Names, NEW target \in Names, Replace(c, from, name, target)
        PROVE  Goal
    <2>1. HeldTraced(c)
      BY <1>8, <1>c, <1>j, ReplaceDoes DEF LateOnes
    <2>2. UNCHANGED files \/ files' = [files EXCEPT ![name] = NoFile, ![target] = files[name]]
      BY <1>8, ReplaceDoes
    <2>3. FilesTraced(c)
      BY <2>2, <1>8, <1>a DEF FilesTraced, Shape
    <2> QED BY <1>8, <1>b, <2>1, <2>3, ReplaceDoes DEF Goal
  <1>9. CASE BuildStart(c)
    <2>1. /\ cmd[c].at = "idle"
          /\ Leaves(c, "failed") \/ Opens(c, "read rows", cmd[c].open)
      BY <1>9, BuildStartDoes
    <2>2. cmd[c].open = NoFile
      BY <2>1, <1>d, <1>j DEF EarlyOnes
    <2>3. Opens(c, "read rows", cmd[c].open) => HeldTraced(c)
      BY <2>1, <2>2, <1>j DEF Opens, HeldTraced, EarlyOnes
    <2>4. HeldTraced(c)
      BY <2>1, <2>3, <1>c, <1>j DEF LateOnes
    <2> QED BY <1>9, <1>a, <1>b, <2>4, BuildStartDoes DEF Quiet, Goal
  <1>10. CASE BuildRead(c)
    <2>1. /\ cmd[c].at = "read rows" /\ Others(c) /\ cmd'[c].at = "unlink index"
          /\ cmd'[c].open = cmd[c].open
      BY <1>10, BuildReadDoes
    <2>2. cmd[c].open = NoFile
      BY <2>1, <1>d, <1>j DEF EarlyOnes
    <2>4. HeldTraced(c)
      BY <2>1, <2>2, <1>j DEF HeldTraced, EarlyOnes
    <2> QED BY <1>10, <1>a, <1>b, <2>4, BuildReadDoes DEF Quiet, Goal
  <1>11. CASE BuildOpen(c)
    <2>1. \/ Opens(c, "stamp", c) /\ files' = [files EXCEPT !["indexTmp"] = c]
          \/ UNCHANGED files /\ Opens(c, "undo index", files["indexTmp"])
      BY <1>11, BuildOpenDoes
    <2>2. HeldTraced(c)
      BY <2>1, <1>g, <1>j, Basics DEF LateOnes, HoldingOnes
    <2>3. FilesTraced(c)
      BY <2>1, <1>a, <1>i, <1>j DEF Opens, LateOnes
    <2> QED BY <1>11, <1>b, <2>2, <2>3, BuildOpenDoes DEF Goal
  <1>12. CASE BuildStamp(c)
    <2>1. cmd[c].at = "stamp" /\ Opens(c, "commit index", cmd[c].open)
      BY <1>12, StampDoes
    <2>2. HeldTraced(c)
      BY <2>1, <1>g, <1>j, <1>k DEF LateOnes, HoldingOnes
    <2> QED BY <1>12, <1>a, <1>b, <2>2, StampDoes DEF Quiet, Goal
  <1>13. CASE BuildCommit(c)
    <2>1. cmd[c].open \in Inode
      BY <1>13, <1>k DEF BuildCommit, At
    <2>2. HeldTraced(c)
      BY <1>13, <2>1, <1>c, <1>j, BuildCommitDoes DEF LateOnes
    <2>3. WritesItsFile(c)
      BY <1>13, <2>1, BuildCommitDoes DEF WritesItsFile
    <2> QED BY <1>13, <1>a, <2>1, <2>2, <2>3, BuildCommitDoes DEF Goal
  <1>14. CASE BuildEncodeFails(c)
    <2>1. HeldTraced(c)
      BY <1>14, <1>f, <1>j, EncodeFailsDoes DEF LateOnes, HoldingOnes
    <2> QED BY <1>14, <1>a, <1>b, <2>1, EncodeFailsDoes DEF Quiet, Goal
  <1>15. CASE Exit(c)
    <2>1. HeldTraced(c)
      BY <1>15, <1>c, <1>j, ExitDoes DEF LateOnes
    <2> QED BY <1>15, <1>a, <1>b, <2>1, ExitDoes DEF Goal
  <1> QED
    <2>1. CASE Import(c)
      BY <2>1, <1>j, <1>m, <1>1, <1>2, <1>3, <1>4, <1>5, <1>6, <1>7, <1>8
         DEF Import, ImportUnlink, ImportUndo, ImportReplace, EarlyOnes
    <2>2. CASE Build(c)
      BY <2>2, <1>j, <1>m, <1>2, <1>7, <1>8, <1>9, <1>10, <1>11, <1>12, <1>13, <1>14
         DEF Build, BuildUnlink, BuildUndo, BuildReplace, EarlyOnes
    <2> QED BY <2>1, <2>2, <1>15

\* What a command has not made yet stays unknown to all.
LEMMA OpenedKept ==
  ASSUME Shape, Opened, NEW c \in Command, Import(c) \/ Build(c) \/ Exit(c)
  PROVE  Opened'
  <1>1. FilesTraced(c) /\ HeldTraced(c) /\ WritesItsFile(c)
    BY Traces
  <1>2. ASSUME NEW d \in Command, cmd'[d].at \in BeforeOpen
        PROVE  Unmade(d)'
    <2>1. cmd[d].at \in BeforeOpen
      BY <1>1, <1>2 DEF HeldTraced, Others
    <2>2. Unmade(d)
      BY <2>1 DEF Opened
    <2>3. d \in Inode /\ d # NoFile /\ d # cmd[c].open
      BY <2>2, Basics DEF Unmade
    <2>4. dbs'[d] = {} /\ indexes'[d] = Blank
      BY <1>1, <2>2, <2>3 DEF WritesItsFile, Unmade
    <2>5. ASSUME NEW n \in Names PROVE files'[n] # d
      BY <1>1, <1>2, <2>2, <2>3 DEF FilesTraced, Unmade
    <2>6. cmd'[c].open # d
      BY <1>1, <1>2, <2>2, <2>3 DEF HeldTraced, Unmade
    <2>7. \A e \in Command : cmd'[e].open # d
      BY <1>1, <2>2, <2>6 DEF HeldTraced, Others, Unmade
    <2> QED BY <2>4, <2>5, <2>7 DEF Unmade, Blank
  <1>3. ASSUME NEW d \in Command
        PROVE  /\ cmd'[d].at \in WithoutFile => cmd'[d].open = NoFile
               /\ cmd'[d].at \in {"begin", "record", "stamp", "commit index"} => cmd'[d].open \in Inode
    BY <1>1 DEF HeldTraced, Others, Opened
  <1> QED BY <1>2, <1>3 DEF Opened

\* A step that is no one's transaction, or that ends or begins one.
LEMMA WritersKept ==
  ASSUME Shape, Opened, Writers, NEW c \in Command, Import(c) \/ Build(c) \/ Exit(c)
  PROVE  Writers'
  <1> DEFINE Working == {"record", "undo"}
  <1>a. ASSUME UNCHANGED writer, Others(c), cmd[c].at \notin Working, cmd'[c].at # "record"
        PROVE  Writers'
    <2>1. ASSUME NEW f \in Inode, writer'[f] # None
          PROVE  cmd'[writer'[f]].open = f /\ cmd'[writer'[f]].at \in Working
      <3>1. writer[f] # None /\ writer[f] \in Command
        BY <1>a, <2>1 DEF Shape
      <3>2. cmd[writer[f]].open = f /\ cmd[writer[f]].at \in Working
        BY <3>1 DEF Writers
      <3>3. cmd'[writer[f]] = cmd[writer[f]]
        BY <1>a, <3>1, <3>2 DEF Others
      <3> QED BY <1>a, <3>2, <3>3
    <2>2. ASSUME NEW d \in Command, cmd'[d].at = "record"
          PROVE  writer'[cmd'[d].open] = d
      BY <1>a, <2>2 DEF Others, Writers
    <2> QED BY <2>1, <2>2 DEF Writers
  <1>b. ASSUME UNCHANGED writer, Others(c), cmd[c].at = "record", cmd'[c].at \in Working,
               cmd'[c].open = cmd[c].open
        PROVE  Writers'
    <2>1. ASSUME NEW f \in Inode, writer'[f] # None
          PROVE  cmd'[writer'[f]].open = f /\ cmd'[writer'[f]].at \in Working
      <3>1. writer[f] # None /\ writer[f] \in Command
        BY <1>b, <2>1 DEF Shape
      <3>2. cmd[writer[f]].open = f /\ cmd[writer[f]].at \in Working
        BY <3>1 DEF Writers
      <3> QED BY <1>b, <3>1, <3>2 DEF Others
    <2>2. ASSUME NEW d \in Command, cmd'[d].at = "record"
          PROVE  writer'[cmd'[d].open] = d
      BY <1>b, <2>2 DEF Others, Writers
    <2> QED BY <2>1, <2>2 DEF Writers
  <1>c. ASSUME Release(c), Others(c), cmd'[c].at # "record"
        PROVE  Writers'
    <2>1. ASSUME NEW f \in Inode, writer'[f] # None
          PROVE  cmd'[writer'[f]].open = f /\ cmd'[writer'[f]].at \in Working
      <3>1. writer'[f] = writer[f] /\ writer[f] # c
        BY <1>c, <2>1 DEF Release
      <3>2. writer[f] # None /\ writer[f] \in Command
        BY <2>1, <3>1 DEF Shape
      <3>3. cmd[writer[f]].open = f /\ cmd[writer[f]].at \in Working
        BY <3>2 DEF Writers
      <3>4. cmd'[writer[f]] = cmd[writer[f]]
        BY <1>c, <3>1, <3>2 DEF Others
      <3> QED BY <3>1, <3>3, <3>4
    <2>2. ASSUME NEW d \in Command, cmd'[d].at = "record"
          PROVE  writer'[cmd'[d].open] = d
      <3>1. d # c /\ cmd'[d] = cmd[d]
        BY <1>c, <2>2 DEF Others
      <3>2. cmd[d].open \in Inode /\ writer[cmd[d].open] = d
        BY <2>2, <3>1 DEF Opened, Writers
      <3> QED BY <1>c, <3>1, <3>2 DEF Release
    <2> QED BY <2>1, <2>2 DEF Writers
  <1> HIDE DEF Working
  <1>w. "record" \in Working /\ "undo" \in Working
    BY DEF Working
  <1>1. CASE ImportPrepare(c)
    <2>1. /\ cmd[c].at = "idle" /\ UNCHANGED writer
          /\ \E p \in {"refused", "unlink db", "open db"} : Leaves(c, p)
      BY <1>1, PrepareDoes DEF Quiet
    <2> QED BY <2>1, <1>a DEF Leaves, Working
  <1>2. ASSUME NEW from, NEW name, NEW to, Unlink(c, from, name, to), to # "record", from \notin Working
        PROVE  Writers'
    BY <1>2, <1>a, UnlinkDoes DEF Leaves, Goes
  <1>3. CASE ImportOpen(c)
    <2>1. cmd[c].at = "open db" /\ UNCHANGED writer
      BY <1>3, OpenDoes
    <2>2. \E f, p : p \in {"begin", "undo"} /\ Opens(c, p, f)
      BY <1>3, OpenDoes
    <2> QED BY <2>1, <2>2, <1>a DEF Opens, Working
  <1>4. CASE ImportBegin(c)
    <2>1. cmd[c].at = "begin"
      BY <1>4, BeginDoes
    <2>2. CASE Goes(c, "undo") /\ UNCHANGED writer
      BY <2>1, <2>2, <1>a DEF Goes, Working
    <2>3. CASE /\ Goes(c, "record") /\ ~Locked(cmd[c].open)
               /\ writer' = [writer EXCEPT ![cmd[c].open] = c]
      <3> DEFINE g == cmd[c].open
      <3>1. g \in Inode
        BY <2>1 DEF Opened
      <3>2. writer[g] = None
        BY <2>3, <3>1, Basics DEF Locked
      <3>3. cmd'[c].at = "record" /\ cmd'[c].open = g /\ Others(c)
        BY <2>3 DEF Goes
      <3> HIDE DEF g
      <3>4. writer' = [writer EXCEPT ![g] = c] /\ DOMAIN writer = Inode
        BY <2>3 DEF Shape, g
      <3>5. ASSUME NEW f \in Inode, writer'[f] # None
            PROVE  cmd'[writer'[f]].open = f /\ cmd'[writer'[f]].at \in Working
        <4>1. CASE f = g
          BY <4>1, <3>1, <3>3, <3>4, <1>w
        <4>2. CASE f # g
          <5>1. writer'[f] = writer[f]
            BY <4>2, <3>4
          <5>2. writer[f] # None /\ writer[f] \in Command
            BY <5>1, <3>5 DEF Shape
          <5>3. cmd[writer[f]].open = f /\ cmd[writer[f]].at \in Working
            BY <5>2 DEF Writers, Working
          <5>4. cmd'[writer[f]] = cmd[writer[f]]
            BY <3>3, <5>2, <5>3, <2>1 DEF Others, Working
          <5> QED BY <5>1, <5>3, <5>4
        <4> QED BY <4>1, <4>2
      <3>6. ASSUME NEW d \in Command, cmd'[d].at = "record"
            PROVE  writer'[cmd'[d].open] = d
        <4>1. CASE d = c
          BY <4>1, <3>1, <3>3, <3>4
        <4>2. CASE d # c
          <5>1. cmd'[d] = cmd[d]
            BY <4>2, <3>3 DEF Others
          <5>2. cmd[d].open \in Inode /\ writer[cmd[d].open] = d
            BY <3>6, <5>1 DEF Opened, Writers
          <5>3. d # None /\ cmd[d].open # g
            BY <3>2, <5>2, Basics
          <5> QED BY <3>4, <5>1, <5>2, <5>3
        <4> QED BY <4>1, <4>2
      <3> QED BY <3>5, <3>6 DEF Writers, Working
    <2> QED BY <1>4, <2>2, <2>3, BeginDoes
  <1>5. CASE ImportRecord(c)
    <2>1. /\ cmd[c].at = "record" /\ UNCHANGED writer
          /\ Goes(c, "undo") \/ (Others(c) /\ cmd'[c].at = "record" /\ cmd'[c].open = cmd[c].open)
      BY <1>5, RecordDoes DEF Quiet
    <2> QED BY <2>1, <1>b, <1>w DEF Goes
  <1>6. CASE ImportCommit(c)
    <2>1. Release(c) /\ \E p \in {"replace db", "done"} : Leaves(c, p)
      BY <1>6, CommitDoes
    <2> QED BY <2>1, <1>c DEF Leaves
  <1>7. ASSUME NEW from, NEW names, Undo(c, from, names)
        PROVE  Writers'
    BY <1>7, <1>c, UndoDoes DEF Leaves
  <1>8. ASSUME NEW from, NEW name, NEW target, Replace(c, from, name, target), from \notin Working
        PROVE  Writers'
    BY <1>8, <1>a, ReplaceDoes DEF Leaves
  <1>9. CASE BuildStart(c)
    BY <1>9, <1>a, BuildStartDoes DEF Leaves, Opens, Quiet, Working
  <1>10. CASE BuildRead(c)
    BY <1>10, <1>a, BuildReadDoes DEF Quiet, Working
  <1>11. CASE BuildOpen(c)
    BY <1>11, <1>a, BuildOpenDoes DEF Opens, Working
  <1>12. CASE BuildStamp(c)
    BY <1>12, <1>a, StampDoes DEF Opens, Quiet, Working
  <1>13. CASE BuildCommit(c)
    <2>1. cmd[c].open \in Inode
      BY <1>13 DEF BuildCommit, At, Opened
    <2> QED BY <1>13, <2>1, <1>a, BuildCommitDoes DEF Leaves, Working
  <1>14. CASE BuildEncodeFails(c)
    BY <1>14, <1>a, EncodeFailsDoes DEF Goes, Quiet, Working
  <1>15. CASE Exit(c)
    BY <1>15, <1>c, ExitDoes DEF Leaves
  <1>v. /\ "unlink db" \notin Working /\ "replace db" \notin Working
        /\ "unlink index" \notin Working /\ "replace index" \notin Working
    BY DEF Working
  <1> QED
    <2>1. CASE Import(c)
      BY <2>1, <1>v, <1>1, <1>2, <1>3, <1>4, <1>5, <1>6, <1>7, <1>8
         DEF Import, ImportUnlink, ImportUndo, ImportReplace
    <2>2. CASE Build(c)
      BY <2>2, <1>v, <1>2, <1>7, <1>8, <1>9, <1>10, <1>11, <1>12, <1>13, <1>14
         DEF Build, BuildUnlink, BuildUndo, BuildReplace
    <2> QED BY <2>1, <2>2, <1>15

\* The database under its name stays, or the histories take down the new one.
Watched == (Db' = Db /\ UNCHANGED <<corpora, seen>>) \/ \E new : new = Db' /\ Observe(new)

\* Every step of a command keeps the database or is observed.
LEMMA WatchedStep ==
  ASSUME Shape, Opened, NEW c \in Command, Import(c) \/ Build(c) \/ Exit(c)
  PROVE  UNCHANGED search /\ Watched
  <1> DEFINE Goal == UNCHANGED search /\ Watched
  <1>a. files'["db"] = files["db"] /\ UNCHANGED <<dbs, search, corpora, seen>> => Goal
    BY DEF Watched, Db, DbOf
  <1>b. "db" \in Names /\ DOMAIN files = Names
    BY Basics DEF Shape
  <1> SUFFICES Goal
    OBVIOUS
  <1> HIDE DEF Goal
  <1>1. CASE ImportPrepare(c)
    BY <1>1, <1>a, PrepareDoes DEF Quiet
  <1>2. ASSUME NEW from, NEW name, NEW to, Unlink(c, from, name, to), name # "db"
        PROVE  Goal
    BY <1>2, <1>a, <1>b, UnlinkDoes
  <1>3. CASE ImportOpen(c)
    <2>1. cmd[c].at = "open db" /\ UNCHANGED <<dbs, search>>
      BY <1>3, OpenDoes
    <2>2. dbs[c] = {}
      <3>1. cmd[c].at \in BeforeOpen
        BY <2>1, EarlyAre DEF EarlyOnes
      <3>2. Unmade(c)
        BY <3>1 DEF Opened
      <3> QED BY <3>2 DEF Unmade
    <2>3. PICK name \in {"db", "dbTmp"} :
            \/ /\ files' = [files EXCEPT ![name] = c]
               /\ IF name = "db" THEN Observe({}) ELSE UNCHANGED <<corpora, seen>>
            \/ UNCHANGED <<files, corpora, seen>>
      BY <1>3, OpenDoes
    <2>4. CASE files' = [files EXCEPT !["db"] = c] /\ Observe({})
      <3>1. c # NoFile /\ files'["db"] = c
        BY <2>4, <1>b, Basics
      <3>2. Db' = {}
        BY <2>1, <2>2, <3>1 DEF Db, DbOf
      <3> QED BY <2>1, <2>4, <3>2 DEF Goal, Watched
    <2>5. CASE files' = [files EXCEPT !["dbTmp"] = c] /\ UNCHANGED <<corpora, seen>>
      BY <2>1, <2>5, <1>a, <1>b
    <2> QED BY <2>1, <2>3, <2>4, <2>5, <1>a
  <1>4. CASE ImportBegin(c)
    BY <1>4, <1>a, BeginDoes
  <1>5. CASE ImportRecord(c)
    BY <1>5, <1>a, RecordDoes DEF Quiet
  <1>6. CASE ImportCommit(c)
    <2> DEFINE g == cmd[c].open
               committed == dbs[g] \cup cmd[c].pending
               new == IF g = files["db"] THEN committed ELSE Db
    <2>1. /\ cmd[c].at = "record" /\ UNCHANGED <<files, search>>
          /\ dbs' = [dbs EXCEPT ![g] = committed] /\ Observe(new)
      BY <1>6, CommitDoes
    <2>2. g \in Inode /\ DOMAIN dbs = Inode
      BY <2>1 DEF Opened, Shape
    <2> HIDE DEF g, committed
    <2>3. Db' = new
      BY <2>1, <2>2, Basics DEF Db, DbOf
    <2> HIDE DEF new
    <2> QED BY <2>1, <2>3 DEF Goal, Watched
  <1>7. ASSUME NEW from, NEW names, Undo(c, from, names), "db" \notin names
        PROVE  Goal
    <2>1. files'["db"] = files["db"]
      BY <1>7, <1>b, UndoDoes
    <2> QED BY <1>7, <2>1, <1>a, UndoDoes
  <1>8. ASSUME NEW from, Replace(c, from, "dbTmp", "db")
        PROVE  Goal
    <2>1. UNCHANGED <<dbs, search>>
      BY <1>8, ReplaceDoes
    <2>2. CASE UNCHANGED <<files, corpora, seen>>
      BY <2>1, <2>2, <1>a
    <2>3. CASE /\ files["dbTmp"] # NoFile /\ Observe(dbs[files["dbTmp"]])
               /\ files' = [files EXCEPT !["dbTmp"] = NoFile, !["db"] = files["dbTmp"]]
      <3>1. files'["db"] = files["dbTmp"]
        BY <2>3, <1>b
      <3>2. Db' = dbs[files["dbTmp"]]
        BY <2>1, <2>3, <3>1 DEF Db, DbOf
      <3> QED BY <2>1, <2>3, <3>2 DEF Goal, Watched
    <2> QED BY <1>8, <2>2, <2>3, ReplaceDoes
  <1>9. ASSUME NEW from, Replace(c, from, "indexTmp", "index")
        PROVE  Goal
    BY <1>9, <1>a, <1>b, ReplaceDoes
  <1>10. CASE BuildStart(c)
    BY <1>10, <1>a, BuildStartDoes DEF Quiet
  <1>11. CASE BuildRead(c)
    BY <1>11, <1>a, BuildReadDoes DEF Quiet
  <1>12. CASE BuildOpen(c)
    BY <1>12, <1>a, <1>b, BuildOpenDoes
  <1>13. CASE BuildStamp(c)
    BY <1>13, <1>a, StampDoes DEF Quiet
  <1>14. CASE BuildCommit(c)
    <2>1. cmd[c].open \in Inode
      BY <1>14 DEF BuildCommit, At, Opened
    <2> QED BY <1>14, <2>1, <1>a, BuildCommitDoes
  <1>15. CASE BuildEncodeFails(c)
    BY <1>15, <1>a, EncodeFailsDoes DEF Quiet
  <1>16. CASE Exit(c)
    BY <1>16, <1>a, ExitDoes
  <1> QED
    <2>1. CASE Import(c)
      <3>1. ImportUndo(c) => Goal
        BY <1>7 DEF ImportUndo
      <3>2. ImportUnlink(c) \/ ImportReplace(c) => Goal
        BY <1>2, <1>8 DEF ImportUnlink, ImportReplace
      <3> QED BY <2>1, <3>1, <3>2, <1>1, <1>3, <1>4, <1>5, <1>6 DEF Import
    <2>2. CASE Build(c)
      <3>1. BuildUndo(c) => Goal
        BY <1>7 DEF BuildUndo
      <3>2. BuildUnlink(c) \/ BuildReplace(c) => Goal
        BY <1>2, <1>9 DEF BuildUnlink, BuildReplace
      <3> QED BY <2>2, <3>1, <3>2, <1>10, <1>11, <1>12, <1>13, <1>14, <1>15 DEF Build
    <2> QED BY <2>1, <2>2, <1>16

\* The histories only grow, and cover the database as it is now.
LEMMA HistoriesGrow ==
  ASSUME Builds, DOMAIN seen = Search, Watched,
         \A s \in Search : Active(search[s]) => OnlyOnes(Db, search[s].request.asOf) \subseteq seen[s]
  PROVE  /\ corpora \subseteq corpora' /\ Articles(Db)' \in corpora'
         /\ DOMAIN seen' = Search
         /\ \A s \in Search :
              /\ seen[s] \subseteq seen'[s]
              /\ Active(search[s]) => OnlyOnes(Db', search[s].request.asOf) \subseteq seen'[s]
  <1> DEFINE Goal(new) ==
         /\ corpora \subseteq corpora' /\ Articles(new) \in corpora'
         /\ DOMAIN seen' = Search
         /\ \A s \in Search :
              /\ seen[s] \subseteq seen'[s]
              /\ Active(search[s]) => OnlyOnes(new, search[s].request.asOf) \subseteq seen'[s]
  <1>1. ASSUME NEW new, new = Db, UNCHANGED <<corpora, seen>>
        PROVE  Goal(new)
    BY <1>1 DEF Builds
  <1>2. ASSUME NEW new, Observe(new)
        PROVE  Goal(new)
    <2>1. corpora \subseteq corpora' /\ Articles(new) \in corpora'
      BY <1>2 DEF Observe
    <2>2. ASSUME NEW s \in Search
          PROVE  seen[s] \subseteq seen'[s]
      BY <1>2 DEF Observe
    <2>3. ASSUME NEW s \in Search, Active(search[s])
          PROVE  OnlyOnes(new, search[s].request.asOf) \subseteq seen'[s]
      <3> DEFINE only == OnlyOnes(new, search[s].request.asOf)
      <3>1. seen'[s] = seen[s] \cup IF search[s].at \in {"idle", "failed", "answered"} THEN {} ELSE only
        BY <1>2 DEF Observe
      <3> HIDE DEF only
      <3>2. only \subseteq seen'[s]
        BY <2>3, <3>1 DEF Active
      <3> QED BY <3>2 DEF only
    <2>4. DOMAIN seen' = Search
      BY <1>2 DEF Observe
    <2> QED BY <2>1, <2>2, <2>3, <2>4
  <1> DEFINE now == Db'
  <1>3. Goal(now)
    <2>1. CASE Db' = Db /\ UNCHANGED <<corpora, seen>>
      BY <2>1, <1>1
    <2>2. CASE \E new : new = Db' /\ Observe(new)
      BY <2>2, <1>2
    <2> QED BY <2>1, <2>2 DEF Watched
  <1> QED BY <1>3

-----------------------------------------------------------------------------
(* A manifest is stored as a whole.                                        *)

\* What is stored under a version stays there when records are added.
LEMMA StoredGrows ==
  ASSUME NEW db, NEW more, NEW r, db \subseteq more
  PROVE  Stored(db, r) \subseteq Stored(more, r)
  BY DEF Stored

\* The empty transaction over a database that is whole.
LEMMA BegunAtFirst ==
  ASSUME NEW db, NEW m, Whole(db)
  PROVE  Begun(db, m, 1, {})
  <1>1. db \cup {} = db
    OBVIOUS
  <1>2. OneIdentity(db \cup {})
    BY <1>1 DEF Whole
  <1>3. \A j \in 1..Len(m) : ~(j < 1)
    OBVIOUS
  <1> QED BY <1>2, <1>3 DEF Begun

\* A record that does not conflict joins the database it was compared with.
LEMMA BegunGoesOn ==
  ASSUME NEW db, NEW m \in Manifest, NEW k, NEW pending, NEW more, Begun(db, m, k, pending), k <= Len(m),
         ~Conflicts(db \cup pending, Prepared(m[k])),
         \/ Stored(db \cup pending, Prepared(m[k])) # {} /\ more = pending
         \/ more = pending \cup {Prepared(m[k])}
  PROVE  Begun(db, m, k + 1, more)
  <1> DEFINE r == Prepared(m[k])
             visible == db \cup pending
             next == db \cup more
  <1>1. k \in Nat \ {0} /\ Len(m) \in Nat /\ k \in 1..Len(m)
    BY InputsAreValid DEF Begun
  <1>2. r \in Content(m)
    BY <1>1 DEF Content
  <1>3. more \subseteq Content(m)
    BY <1>2 DEF Begun
  <1>4. visible \subseteq next /\ next \subseteq visible \cup {r}
    OBVIOUS
  <1>5. /\ \A s \in visible : s.auth = r.auth => s.title = r.title
        /\ \A s \in Stored(visible, r) : Same(s, r)
    BY DEF Conflicts
  <1>6. OneIdentity(visible)
    BY DEF Begun
  <1>7. \E t \in Stored(next, r) : Same(t, r)
    <2>1. CASE Stored(visible, r) # {}
      <3> HIDE DEF visible, next, r
      <3> QED BY <2>1, <1>4, <1>5, StoredGrows
    <2>2. CASE more = pending \cup {r}
      <3>1. r \in next
        BY <2>2
      <3>2. r \in Stored(next, r) /\ Same(r, r)
        BY <3>1 DEF Stored, Same
      <3> QED BY <3>2
    <2> QED BY <2>1, <2>2
  <1>8. \A j \in 1..Len(m) : j < k => \E t \in Stored(visible, Prepared(m[j])) : Same(t, Prepared(m[j]))
    BY DEF Begun
  <1> HIDE DEF visible, next
  <1>9. ASSUME NEW j \in 1..Len(m), j < k + 1
        PROVE  \E t \in Stored(next, Prepared(m[j])) : Same(t, Prepared(m[j]))
    <2>1. CASE j = k
      BY <2>1, <1>7
    <2>2. CASE j # k
      <3>1. j < k
        BY <1>1, <1>9, <2>2
      <3> QED BY <3>1, <1>4, <1>8, StoredGrows
    <2> QED BY <2>1, <2>2
  <1> HIDE DEF r
  <1>10. OneIdentity(next)
    BY <1>4, <1>5, <1>6 DEF OneIdentity
  <1>11. k + 1 \in Nat \ {0}
    BY <1>1
  <1> QED BY <1>3, <1>9, <1>10, <1>11 DEF Begun, next

\* When the last record is in, the database is whole.
LEMMA BegunEnds ==
  ASSUME NEW db, NEW m \in Manifest, NEW k, NEW pending, Whole(db), Admissible(m),
         Begun(db, m, k, pending), k > Len(m)
  PROVE  Whole(db \cup pending)
  <1> DEFINE next == db \cup pending
  <1>1. k \in Nat /\ Len(m) \in Nat
    BY InputsAreValid DEF Begun
  <1>2. ASSUME NEW j \in 1..Len(m)
        PROVE  \E t \in Stored(next, Prepared(m[j])) : Same(t, Prepared(m[j]))
    <2>1. j < k
      BY <1>1
    <2> QED BY <2>1 DEF Begun
  <1>3. Covers(next, m)
    <2> HIDE DEF next
    <2> QED BY <1>2 DEF Covers, Content
  <1>4. pending \subseteq Content(m) /\ OneIdentity(next)
    BY DEF Begun
  <1>5. ASSUME NEW r \in next
        PROVE  \E n \in Manifest : Admissible(n) /\ r \in Content(n) /\ Covers(next, n)
    <2>1. CASE r \in pending
      BY <2>1, <1>3, <1>4
    <2>2. CASE r \in db
      <3>1. PICK n \in Manifest : Admissible(n) /\ r \in Content(n) /\ Covers(db, n)
        BY <2>2 DEF Whole
      <3>2. Covers(next, n)
        BY <3>1, StoredGrows DEF Covers
      <3> QED BY <3>1, <3>2
    <2> QED BY <2>1, <2>2
  <1> QED BY <1>4, <1>5 DEF Whole

\* A manifest is read, recorded and committed by one transaction, or not at all.
LEMMA ImportsKept ==
  ASSUME Shape, Opened, Writers, Imports, NEW c \in Command, Import(c) \/ Build(c) \/ Exit(c)
  PROVE  Imports'
  <1> DEFINE Mine(d) ==
        /\ cmd[d].at \in {"unlink db", "open db", "begin", "record"} =>
             cmd[d].manifest \in Manifest /\ Admissible(cmd[d].manifest)
        /\ cmd[d].at \in {"unlink db", "open db", "begin"} => cmd[d].k = 1 /\ cmd[d].pending = {}
        /\ cmd[d].at = "record" =>
             Begun(dbs[cmd[d].open], cmd[d].manifest, cmd[d].k, cmd[d].pending)
  <1>a. \A d \in Command : Mine(d)
    BY DEF Imports
  <1>b. ASSUME UNCHANGED dbs, Others(c), Mine(c)'
        PROVE  Imports'
    <2>1. ASSUME NEW d \in Command
          PROVE  Mine(d)'
      <3>1. CASE d = c
        BY <3>1, <1>b
      <3>2. CASE d # c
        BY <3>2, <1>a, <1>b DEF Others
      <3> QED BY <3>1, <3>2
    <2> QED BY <1>b, <2>1 DEF Imports, Whole, Covers
  <1>c. ASSUME NEW p, Leaves(c, p), p \notin {"unlink db", "open db", "begin", "record"}
        PROVE  Others(c) /\ Mine(c)'
    BY <1>c DEF Leaves
  <1>d. ASSUME NEW p \in {"unlink db", "open db", "begin"}, NEW f, Goes(c, p) \/ Opens(c, p, f),
               cmd[c].at \in {"unlink db", "open db", "begin"}
        PROVE  Others(c) /\ Mine(c)'
    <2>1. /\ cmd[c].manifest \in Manifest /\ Admissible(cmd[c].manifest)
          /\ cmd[c].k = 1 /\ cmd[c].pending = {}
      BY <1>a, <1>d
    <2>2. /\ cmd'[c].manifest = cmd[c].manifest /\ cmd'[c].k = cmd[c].k
          /\ cmd'[c].pending = cmd[c].pending /\ cmd'[c].at = p /\ Others(c)
      BY <1>d DEF Goes, Opens, KeepsWork
    <2> QED BY <2>1, <2>2
  <1>e. ASSUME NEW p, NEW f, Goes(c, p) \/ Opens(c, p, f),
               p \notin {"unlink db", "open db", "begin", "record"}
        PROVE  Others(c) /\ Mine(c)'
    BY <1>e DEF Goes, Opens
  <1> HIDE DEF Mine
  <1>1. CASE ImportPrepare(c)
    <2>1. UNCHANGED dbs
      BY <1>1, PrepareDoes DEF Quiet
    <2>2. CASE Leaves(c, "refused")
      BY <2>1, <2>2, <1>b, <1>c
    <2>3. CASE \E p \in {"unlink db", "open db"} :
                 /\ Leaves(c, p) /\ cmd'[c].manifest \in Manifest /\ Admissible(cmd'[c].manifest)
                 /\ cmd'[c].k = 1 /\ cmd'[c].pending = {}
      BY <2>1, <2>3, <1>b DEF Leaves, Mine
    <2> QED BY <1>1, <2>2, <2>3, PrepareDoes
  <1>2. CASE Unlink(c, "unlink db", "dbTmp", "open db")
    <2>1. /\ UNCHANGED dbs /\ cmd[c].at = "unlink db"
          /\ Leaves(c, "failed") \/ Goes(c, "open db")
      BY <1>2, UnlinkDoes
    <2> QED BY <2>1, <1>b, <1>c, <1>d
  <1>3. CASE ImportOpen(c)
    <2>1. UNCHANGED dbs /\ cmd[c].at = "open db"
      BY <1>3, OpenDoes
    <2>2. \E f : Opens(c, "begin", f) \/ Opens(c, "undo", f)
      BY <1>3, OpenDoes
    <2> QED BY <2>1, <2>2, <1>b, <1>d, <1>e
  <1>4. CASE ImportBegin(c)
    <2>1. UNCHANGED dbs /\ cmd[c].at = "begin" /\ (Goes(c, "undo") \/ Goes(c, "record"))
      BY <1>4, BeginDoes
    <2>2. CASE Goes(c, "record")
      <3> DEFINE g == cmd[c].open
      <3>1. g \in Inode
        BY <2>1 DEF Opened
      <3>2. /\ cmd[c].manifest \in Manifest /\ Admissible(cmd[c].manifest)
            /\ cmd[c].k = 1 /\ cmd[c].pending = {}
        BY <1>a, <2>1 DEF Mine
      <3>3. Whole(dbs[g])
        BY <3>1 DEF Imports
      <3>4. Begun(dbs[g], cmd[c].manifest, 1, {})
        BY <3>3, BegunAtFirst
      <3>5. /\ cmd'[c].manifest = cmd[c].manifest /\ cmd'[c].k = 1 /\ cmd'[c].pending = {}
            /\ cmd'[c].at = "record" /\ cmd'[c].open = g /\ Others(c)
        BY <2>2, <3>2 DEF Goes, KeepsWork
      <3>6. Begun(dbs'[cmd'[c].open], cmd'[c].manifest, cmd'[c].k, cmd'[c].pending)
        BY <2>1, <3>4, <3>5
      <3> QED BY <2>1, <3>2, <3>5, <3>6, <1>b DEF Mine
    <2> QED BY <2>1, <2>2, <1>b, <1>e
  <1>5. CASE ImportRecord(c)
    <2> DEFINE g == cmd[c].open
               r == Prepared(cmd[c].manifest[cmd[c].k])
               visible == dbs[g] \cup cmd[c].pending
    <2>1. UNCHANGED dbs /\ cmd[c].at = "record" /\ cmd[c].k <= Len(cmd[c].manifest)
      BY <1>5, RecordDoes DEF Quiet
    <2>2. CASE Goes(c, "undo")
      BY <2>1, <2>2, <1>b, <1>e
    <2>3. CASE /\ Others(c) /\ cmd'[c].at = "record" /\ ~Conflicts(visible, r)
               /\ cmd'[c].open = g /\ cmd'[c].manifest = cmd[c].manifest /\ cmd'[c].k = cmd[c].k + 1
               /\ \/ Stored(visible, r) # {} /\ cmd'[c].pending = cmd[c].pending
                  \/ cmd'[c].pending = cmd[c].pending \cup {r}
      <3>1. /\ cmd[c].manifest \in Manifest /\ Admissible(cmd[c].manifest)
            /\ Begun(dbs[g], cmd[c].manifest, cmd[c].k, cmd[c].pending)
        BY <1>a, <2>1 DEF Mine
      <3>2. Begun(dbs[g], cmd[c].manifest, cmd[c].k + 1, cmd'[c].pending)
        BY <2>1, <2>3, <3>1, BegunGoesOn
      <3> QED BY <2>1, <2>3, <3>1, <3>2, <1>b DEF Mine
    <2>4. \/ Goes(c, "undo")
          \/ /\ Others(c) /\ cmd'[c].at = "record" /\ ~Conflicts(visible, r)
             /\ cmd'[c].open = g /\ cmd'[c].manifest = cmd[c].manifest /\ cmd'[c].k = cmd[c].k + 1
             /\ \/ Stored(visible, r) # {} /\ cmd'[c].pending = cmd[c].pending
                \/ cmd'[c].pending = cmd[c].pending \cup {r}
      BY <1>5, RecordDoes
    <2> QED BY <2>2, <2>3, <2>4
  <1>6. CASE ImportCommit(c)
    <2> DEFINE g == cmd[c].open
               committed == dbs[g] \cup cmd[c].pending
    <2>1. /\ cmd[c].at = "record" /\ cmd[c].k > Len(cmd[c].manifest)
          /\ \E p \in {"replace db", "done"} : Leaves(c, p)
          /\ dbs' = [dbs EXCEPT ![g] = committed]
      BY <1>6, CommitDoes
    <2>2. g \in Inode /\ DOMAIN dbs = Inode /\ writer[g] = c
      BY <2>1 DEF Opened, Shape, Writers
    <2>3. /\ cmd[c].manifest \in Manifest /\ Admissible(cmd[c].manifest)
          /\ Begun(dbs[g], cmd[c].manifest, cmd[c].k, cmd[c].pending)
      BY <1>a, <2>1 DEF Mine
    <2>4. Whole(dbs[g])
      BY <2>2 DEF Imports
    <2>5. Whole(committed)
      BY <2>1, <2>3, <2>4, BegunEnds
    <2> HIDE DEF committed
    <2>6. \A f \in Inode : Whole(dbs'[f])
      BY <2>1, <2>2, <2>5 DEF Imports
    <2>7. ASSUME NEW d \in Command
          PROVE  Mine(d)'
      <3>1. CASE d = c
        BY <3>1, <2>1, <1>c
      <3>2. CASE d # c
        <4>1. cmd'[d] = cmd[d]
          BY <2>1, <3>2 DEF Leaves, Others
        <4>2. cmd[d].at = "record" => cmd[d].open \in Inode /\ cmd[d].open # g
          BY <2>2, <3>2 DEF Opened, Writers
        <4>3. cmd[d].at = "record" => dbs'[cmd[d].open] = dbs[cmd[d].open]
          BY <2>1, <2>2, <4>2
        <4>4. Mine(d)
          BY <1>a
        <4> QED BY <4>1, <4>3, <4>4 DEF Mine
      <3> QED BY <3>1, <3>2
    <2> QED BY <2>6, <2>7 DEF Imports, Mine, Whole, Covers
  <1>7. ASSUME NEW from, NEW names, Undo(c, from, names)
        PROVE  Imports'
    BY <1>7, <1>b, <1>c, UndoDoes
  <1>8. ASSUME NEW from, NEW name, NEW target, Replace(c, from, name, target)
        PROVE  Imports'
    BY <1>8, <1>b, <1>c, ReplaceDoes
  <1>9. CASE BuildStart(c)
    <2>1. UNCHANGED dbs /\ (Leaves(c, "failed") \/ \E f : Opens(c, "read rows", f))
      BY <1>9, BuildStartDoes DEF Quiet
    <2> QED BY <2>1, <1>b, <1>c, <1>e
  <1>10. CASE BuildRead(c)
    <2>1. UNCHANGED dbs /\ Others(c) /\ cmd'[c].at = "unlink index"
      BY <1>10, BuildReadDoes DEF Quiet
    <2> QED BY <2>1, <1>b DEF Mine
  <1>11. CASE Unlink(c, "unlink index", "indexTmp", "open index")
    <2>1. UNCHANGED dbs /\ (Leaves(c, "failed") \/ Goes(c, "open index"))
      BY <1>11, UnlinkDoes
    <2> QED BY <2>1, <1>b, <1>c, <1>e
  <1>12. CASE BuildOpen(c)
    <2>1. UNCHANGED dbs /\ \E f : Opens(c, "stamp", f) \/ Opens(c, "undo index", f)
      BY <1>12, BuildOpenDoes
    <2> QED BY <2>1, <1>b, <1>e
  <1>13. CASE BuildStamp(c)
    <2>1. UNCHANGED dbs /\ \E f : Opens(c, "commit index", f)
      BY <1>13, StampDoes DEF Quiet
    <2> QED BY <2>1, <1>b, <1>e
  <1>14. CASE BuildCommit(c)
    <2>1. cmd[c].open \in Inode
      BY <1>14 DEF BuildCommit, At, Opened
    <2> QED BY <1>14, <2>1, <1>b, <1>c, BuildCommitDoes
  <1>15. CASE BuildEncodeFails(c)
    BY <1>15, <1>b, <1>e, EncodeFailsDoes DEF Quiet
  <1>16. CASE Exit(c)
    BY <1>16, <1>b, <1>c, ExitDoes
  <1> QED
    <2>1. CASE Import(c)
      BY <2>1, <1>1, <1>2, <1>3, <1>4, <1>5, <1>6, <1>7, <1>8
         DEF Import, ImportUnlink, ImportUndo, ImportReplace
    <2>2. CASE Build(c)
      BY <2>2, <1>7, <1>8, <1>9, <1>10, <1>11, <1>12, <1>13, <1>14, <1>15
         DEF Build, BuildUnlink, BuildUndo, BuildReplace
    <2> QED BY <2>1, <2>2, <1>16

\* A name gives the seed's index only if it gave it before.
LEMMA SeedIndexStays ==
  ASSUME Shape, NEW c \in Command, Import(c) \/ Build(c) \/ Exit(c), files'["index"] = SeedIndex
  PROVE  files["index"] = SeedIndex
  <1>a. "index" \in Names /\ DOMAIN files = Names /\ c # SeedIndex /\ NoFile # SeedIndex
    BY Basics DEF Shape
  <1>b. files["indexTmp"] # SeedIndex
    BY <1>a, Basics DEF Shape
  <1>1. ASSUME NEW from, NEW name, NEW to, Unlink(c, from, name, to) PROVE files["index"] = SeedIndex
    BY <1>1, <1>a, UnlinkDoes
  <1>2. CASE ImportOpen(c)
    BY <1>2, <1>a, OpenDoes
  <1>3. ASSUME NEW from, NEW names, Undo(c, from, names) PROVE files["index"] = SeedIndex
    BY <1>3, <1>a, UndoDoes
  <1>4. ASSUME NEW from, Replace(c, from, "dbTmp", "db") PROVE files["index"] = SeedIndex
    <2>1. UNCHANGED files \/ files' = [files EXCEPT !["dbTmp"] = NoFile, !["db"] = files["dbTmp"]]
      BY <1>4, ReplaceDoes
    <2> QED BY <2>1, <1>a
  <1>5. ASSUME NEW from, Replace(c, from, "indexTmp", "index") PROVE files["index"] = SeedIndex
    <2>1. UNCHANGED files \/ files' = [files EXCEPT !["indexTmp"] = NoFile, !["index"] = files["indexTmp"]]
      BY <1>5, ReplaceDoes
    <2> QED BY <2>1, <1>a, <1>b
  <1>6. CASE BuildOpen(c)
    BY <1>6, <1>a, BuildOpenDoes
  <1>7. CASE UNCHANGED files
    BY <1>7
  <1>8. /\ ImportPrepare(c) \/ ImportBegin(c) \/ ImportRecord(c) \/ ImportCommit(c) => UNCHANGED files
        /\ BuildStart(c) \/ BuildRead(c) \/ BuildStamp(c) => UNCHANGED files
        /\ BuildCommit(c) \/ BuildEncodeFails(c) \/ Exit(c) => UNCHANGED files
    BY DEF ImportPrepare, ImportBegin, ImportRecord, ImportCommit, BuildStart, BuildRead, BuildStamp,
           BuildCommit, BuildEncodeFails, Exit, stores
  <1> QED
    <2>1. CASE Import(c)
      BY <2>1, <1>1, <1>2, <1>3, <1>4, <1>7, <1>8 DEF Import, ImportUnlink, ImportUndo, ImportReplace
    <2>2. CASE Build(c)
      BY <2>2, <1>1, <1>3, <1>5, <1>6, <1>7, <1>8 DEF Build, BuildUnlink, BuildUndo, BuildReplace
    <2> QED BY <2>1, <2>2, <1>7, <1>8

\* A builder keeps what it read, and nobody else writes its file.
LEMMA BuildsKept ==
  ASSUME Shape, Opened, Builds, NEW c \in Command, Import(c) \/ Build(c) \/ Exit(c),
         corpora \subseteq corpora', Articles(Db)' \in corpora'
  PROVE  Builds'
  <1> DEFINE Filled(d) == indexes[d].built => indexes[d].rows \in corpora
             Mine(d) ==
               /\ cmd[d].at \in {"unlink index", "open index", "stamp", "commit index"} => cmd[d].rows \in corpora
               /\ cmd[d].at \in {"stamp", "commit index"} => cmd[d].open = d /\ indexes[d] = Blank
               /\ Filled(d)
  <1>a. \A d \in Command : Mine(d)
    BY DEF Builds
  <1>b. files'["index"] = SeedIndex => indexes[SeedIndex].rows \in corpora'
    BY SeedIndexStays DEF Builds
  <1>c. ASSUME UNCHANGED indexes, Others(c), Mine(c)'
        PROVE  Builds'
    <2>1. ASSUME NEW d \in Command
          PROVE  Mine(d)'
      <3>1. CASE d = c
        BY <3>1, <1>c
      <3>2. CASE d # c
        <4>1. cmd'[d] = cmd[d] /\ indexes'[d] = indexes[d]
          BY <3>2, <1>c DEF Others
        <4> QED BY <4>1, <1>a DEF Blank
      <3> QED BY <3>1, <3>2
    <2> QED BY <1>b, <1>c, <2>1 DEF Builds
  <1>d. ASSUME UNCHANGED indexes, Others(c),
               cmd'[c].at \notin {"unlink index", "open index", "stamp", "commit index"}
        PROVE  Builds'
    <2>1. Mine(c)'
      BY <1>a, <1>d
    <2> QED BY <2>1, <1>c, <1>d
  <1>e. ASSUME NEW p, Leaves(c, p), UNCHANGED indexes,
               p \notin {"unlink index", "open index", "stamp", "commit index"}
        PROVE  Builds'
    BY <1>e, <1>d DEF Leaves
  <1>f. ASSUME NEW p, Goes(c, p), UNCHANGED indexes,
               p \notin {"unlink index", "open index", "stamp", "commit index"}
        PROVE  Builds'
    BY <1>f, <1>d DEF Goes
  <1>g. ASSUME NEW p, NEW f, Opens(c, p, f), UNCHANGED indexes,
               p \notin {"unlink index", "open index", "stamp", "commit index"}
        PROVE  Builds'
    BY <1>g, <1>d DEF Opens
  <1> HIDE DEF Mine, Filled
  <1>1. CASE ImportPrepare(c)
    <2>1. UNCHANGED indexes /\ \E p \in {"refused", "unlink db", "open db"} : Leaves(c, p)
      BY <1>1, PrepareDoes DEF Quiet
    <2> QED BY <2>1, <1>e
  <1>2. CASE Unlink(c, "unlink db", "dbTmp", "open db")
    BY <1>2, <1>e, <1>f, UnlinkDoes
  <1>3. CASE ImportOpen(c)
    <2>1. UNCHANGED indexes /\ \E f : Opens(c, "begin", f) \/ Opens(c, "undo", f)
      BY <1>3, OpenDoes
    <2> QED BY <2>1, <1>g
  <1>4. CASE ImportBegin(c)
    BY <1>4, <1>f, BeginDoes
  <1>5. CASE ImportRecord(c)
    <2>1. /\ UNCHANGED indexes
          /\ Goes(c, "undo") \/ (Others(c) /\ cmd'[c].at = "record")
      BY <1>5, RecordDoes DEF Quiet
    <2> QED BY <2>1, <1>d, <1>f
  <1>6. CASE ImportCommit(c)
    <2>1. UNCHANGED indexes /\ \E p \in {"replace db", "done"} : Leaves(c, p)
      BY <1>6, CommitDoes
    <2> QED BY <2>1, <1>e
  <1>7. ASSUME NEW from, NEW names, Undo(c, from, names)
        PROVE  Builds'
    BY <1>7, <1>e, UndoDoes
  <1>8. ASSUME NEW from, NEW name, NEW target, Replace(c, from, name, target)
        PROVE  Builds'
    BY <1>8, <1>e, ReplaceDoes
  <1>9. CASE BuildStart(c)
    <2>1. UNCHANGED indexes /\ (Leaves(c, "failed") \/ Opens(c, "read rows", cmd[c].open))
      BY <1>9, BuildStartDoes DEF Quiet
    <2> QED BY <2>1, <1>e, <1>g
  <1>10. CASE BuildRead(c)
    <2>1. /\ UNCHANGED indexes /\ Others(c) /\ cmd'[c].at = "unlink index"
          /\ cmd'[c].rows = Articles(Db)
      BY <1>10, BuildReadDoes DEF Quiet
    <2>2. Articles(Db) \in corpora'
      BY DEF Builds
    <2>3. Filled(c)'
      BY <2>1, <1>a DEF Mine, Filled
    <2> QED BY <2>1, <2>2, <2>3, <1>c DEF Mine
  <1>11. CASE Unlink(c, "unlink index", "indexTmp", "open index")
    <2>1. /\ UNCHANGED indexes /\ cmd[c].at = "unlink index"
          /\ Leaves(c, "failed") \/ Goes(c, "open index")
      BY <1>11, UnlinkDoes
    <2>2. CASE Goes(c, "open index")
      <3>1. cmd'[c].at = "open index" /\ cmd'[c].rows = cmd[c].rows /\ Others(c)
        BY <2>2 DEF Goes
      <3>2. cmd[c].rows \in corpora' /\ Filled(c)'
        BY <2>1, <1>a DEF Mine, Filled
      <3> QED BY <2>1, <3>1, <3>2, <1>c DEF Mine
    <2> QED BY <2>1, <2>2, <1>e
  <1>12. CASE BuildOpen(c)
    <2>1. /\ UNCHANGED indexes /\ cmd[c].at = "open index"
          /\ Opens(c, "stamp", c) \/ Opens(c, "undo index", files["indexTmp"])
      BY <1>12, BuildOpenDoes
    <2>2. CASE Opens(c, "stamp", c)
      <3>1. cmd'[c].at = "stamp" /\ cmd'[c].rows = cmd[c].rows /\ Others(c) /\ cmd'[c].open = c
        BY <2>2 DEF Opens
      <3>2. cmd[c].rows \in corpora' /\ Filled(c)'
        BY <2>1, <1>a DEF Mine, Filled
      <3>3. cmd[c].at \in BeforeOpen
        BY <2>1, EarlyAre DEF EarlyOnes
      <3>4. Unmade(c)
        BY <3>3 DEF Opened
      <3>5. indexes'[c] = Blank
        BY <2>1, <3>4 DEF Unmade
      <3> QED BY <2>1, <3>1, <3>2, <3>5, <1>c DEF Mine, Blank
    <2> QED BY <2>1, <2>2, <1>g
  <1>13. CASE BuildStamp(c)
    <2>1. /\ UNCHANGED indexes /\ cmd[c].at = "stamp"
          /\ Opens(c, "commit index", cmd[c].open)
      BY <1>13, StampDoes DEF Quiet
    <2>2. /\ cmd'[c].at = "commit index" /\ cmd'[c].rows = cmd[c].rows /\ Others(c)
          /\ cmd'[c].open = cmd[c].open
      BY <2>1 DEF Opens
    <2>3. cmd[c].rows \in corpora' /\ Filled(c)' /\ cmd[c].open = c /\ indexes'[c] = Blank
      BY <2>1, <1>a DEF Mine, Filled
    <2> QED BY <2>1, <2>2, <2>3, <1>c DEF Mine, Blank
  <1>14. CASE BuildCommit(c)
    <2>1. cmd[c].at = "commit index"
      BY <1>14 DEF BuildCommit, At
    <2>2. cmd[c].open = c /\ indexes[c] = Blank /\ cmd[c].rows \in corpora
      BY <2>1, <1>a DEF Mine
    <2>3. c \in Inode /\ SeedIndex \in Inode /\ SeedIndex # c
      BY Basics
    <2>4. /\ Leaves(c, "replace index")
          /\ \A f \in Inode \ {c} : indexes'[f] = indexes[f]
          /\ indexes'[c].rows = indexes[c].rows \cup cmd[c].rows
      BY <1>14, <2>2, <2>3, BuildCommitDoes
    <2>5. indexes'[c].rows \in corpora'
      <3>1. Blank.rows = {}
        BY DEF Blank
      <3>2. indexes'[c].rows = cmd[c].rows
        BY <2>2, <2>4, <3>1
      <3> QED BY <2>2, <3>2
    <2>6. ASSUME NEW d \in Command
          PROVE  Mine(d)'
      <3>1. CASE d = c
        BY <3>1, <2>4, <2>5 DEF Mine, Filled, Leaves
      <3>2. CASE d # c
        <4>1. cmd'[d] = cmd[d] /\ indexes'[d] = indexes[d]
          BY <2>4, <3>2, Basics DEF Leaves, Others
        <4> QED BY <4>1, <1>a DEF Mine, Filled, Blank
      <3> QED BY <3>1, <3>2
    <2>7. files'["index"] = SeedIndex => indexes'[SeedIndex].rows \in corpora'
      BY <2>3, <2>4, <1>b
    <2> QED BY <2>6, <2>7 DEF Builds, Mine, Filled
  <1>15. CASE BuildEncodeFails(c)
    BY <1>15, <1>f, EncodeFailsDoes DEF Quiet
  <1>16. CASE Exit(c)
    BY <1>16, <1>e, ExitDoes
  <1> QED
    <2>1. CASE Import(c)
      BY <2>1, <1>1, <1>2, <1>3, <1>4, <1>5, <1>6, <1>7, <1>8
         DEF Import, ImportUnlink, ImportUndo, ImportReplace
    <2>2. CASE Build(c)
      BY <2>2, <1>7, <1>8, <1>9, <1>10, <1>11, <1>12, <1>13, <1>14, <1>15
         DEF Build, BuildUnlink, BuildUndo, BuildReplace
    <2> QED BY <2>1, <2>2, <1>16

-----------------------------------------------------------------------------
(* Searches.                                                               *)

\* What is found stays valid while the histories grow.
LEMMA SearchesWait ==
  ASSUME Searches, UNCHANGED search, DOMAIN seen' = Search,
         \A s \in Search :
           /\ seen[s] \subseteq seen'[s]
           /\ Active(search[s]) => OnlyOnes(Db', search[s].request.asOf) \subseteq seen'[s]
  PROVE  Searches'
  <1>1. ASSUME NEW s \in Search
        PROVE  SearchOK(search[s], seen'[s])
    <2> DEFINE x == search[s]
               old == seen[s]
               new == seen'[s]
    <2>1. SearchOK(x, old) /\ old \subseteq new
      BY DEF Searches
    <2> HIDE DEF x, old, new
    <2>2. Noticed(x, new)
      BY <2>1 DEF SearchOK, Noticed
    <2>3. AnswerOf(x, new)
      BY <2>1 DEF SearchOK, AnswerOf
    <2>4. SearchOK(x, new)
      BY <2>1, <2>2, <2>3 DEF SearchOK
    <2> QED BY <2>4 DEF x, new
  <1> DEFINE now == Db'
  <1>2. \A s \in Search : Active(search[s]) => OnlyOnes(now, search[s].request.asOf) \subseteq seen'[s]
    OBVIOUS
  <1>3. DOMAIN search = Search
    BY DEF Searches
  <1>4. \A s \in Search : SearchOK(search'[s], seen'[s])
    BY <1>1
  <1>5. \A s \in Search : Active(search'[s]) => OnlyOnes(now, search'[s].request.asOf) \subseteq seen'[s]
    BY <1>2
  <1> QED BY <1>3, <1>4, <1>5 DEF Searches

\* A step of a command keeps all.
LEMMA CommandStep ==
  ASSUME IInv, NEW c \in Command, Import(c) \/ Build(c) \/ Exit(c)
  PROVE  IInv'
  <1>1. Shape /\ Opened /\ Writers /\ Imports /\ Builds /\ Searches
    BY DEF IInv, Store
  <1>2. UNCHANGED search /\ Watched
    BY <1>1, WatchedStep
  <1>3. /\ DOMAIN seen = Search
        /\ \A s \in Search : Active(search[s]) => OnlyOnes(Db, search[s].request.asOf) \subseteq seen[s]
    BY <1>1 DEF Searches
  <1>4. /\ corpora \subseteq corpora' /\ Articles(Db)' \in corpora'
        /\ DOMAIN seen' = Search
        /\ \A s \in Search :
             /\ seen[s] \subseteq seen'[s]
             /\ Active(search[s]) => OnlyOnes(Db', search[s].request.asOf) \subseteq seen'[s]
    BY <1>1, <1>2, <1>3, HistoriesGrow
  <1>5. Shape' /\ Opened'
    BY <1>1, ShapeKept, OpenedKept
  <1>6. Writers' /\ Imports'
    BY <1>1, WritersKept, ImportsKept
  <1>7. Builds'
    BY <1>1, <1>4, BuildsKept
  <1>8. Searches'
    BY <1>1, <1>2, <1>4, SearchesWait
  <1> QED BY <1>5, <1>6, <1>7, <1>8 DEF IInv, Store

\* A search writes nothing that the commands rely on.
LEMMA StoreStays ==
  ASSUME Store, UNCHANGED <<files, dbs, indexes, writer, cmd, corpora>>
  PROVE  Store'
  <1>1. Shape'
    BY DEF Store, Shape
  <1>2. Opened'
    BY DEF Store, Opened, Unmade, Blank
  <1>3. Writers'
    BY DEF Store, Writers
  <1>4. Imports'
    BY DEF Store, Imports, Whole, Covers, Begun
  <1>5. Builds'
    BY DEF Store, Builds, Db, DbOf, Blank
  <1> QED BY <1>1, <1>2, <1>3, <1>4, <1>5 DEF Store

\* The record that resolves an authority is the only one applicable.
LEMMA ResolvedIsOnly ==
  ASSUME NEW db, NEW auth, NEW asOf, Resolution(db, auth, asOf).state = "RESOLVED"
  PROVE  <<auth, Resolution(db, auth, asOf).version>> \in OnlyOnes(db, asOf)
  <1> DEFINE found == Applicable(db, auth, asOf)
  <1>1. found # {} /\ \E r \in found : found = {r}
    BY DEF Resolution
  <1>2. PICK r \in found : found = {r}
    BY <1>1
  <1>3. Resolution(db, auth, asOf).version = (CHOOSE t \in found : TRUE).version
    BY <1>1 DEF Resolution
  <1>4. (CHOOSE t \in found : TRUE) = r
    BY <1>2
  <1>5. r \in db /\ r.auth = auth /\ Applicable(db, r.auth, asOf) = {r}
    BY <1>2 DEF Applicable
  <1> QED BY <1>3, <1>4, <1>5 DEF OnlyOnes

\* The cache of resolutions grows by one that is valid now.
LEMMA NotedKeeps ==
  ASSUME NEW s \in Search, NEW auth, Noticed(search[s], seen[s]),
         OnlyOnes(Db, search[s].request.asOf) \subseteq seen[s]
  PROVE  /\ auth \in DOMAIN Noted(s, auth) /\ Noted(s, auth)[auth] = Note(s, auth)
         /\ \A a \in DOMAIN search[s].notes :
              a \in DOMAIN Noted(s, auth) /\ Noted(s, auth)[a] = search[s].notes[a]
         /\ \A a \in DOMAIN Noted(s, auth) : Noted(s, auth)[a].state = "RESOLVED" =>
              <<a, Noted(s, auth)[a].version>> \in seen[s]
  <1> DEFINE x == search[s]
  <1>1. /\ DOMAIN Noted(s, auth) = {auth} \cup DOMAIN x.notes
        /\ \A a \in {auth} \cup DOMAIN x.notes : Noted(s, auth)[a] = Note(s, a)
    BY DEF Noted
  <1>2. \A a \in DOMAIN x.notes : Note(s, a) = x.notes[a]
    BY DEF Note
  <1>3. ASSUME NEW a, Note(s, a).state = "RESOLVED"
        PROVE  <<a, Note(s, a).version>> \in seen[s]
    <2>1. CASE a \in DOMAIN x.notes
      BY <1>2, <1>3, <2>1 DEF Noticed
    <2>2. CASE a \notin DOMAIN x.notes
      <3>1. Note(s, a) = Resolution(Db, a, x.request.asOf)
        BY <2>2 DEF Note
      <3> QED BY <1>3, <3>1, ResolvedIsOnly
    <2> QED BY <2>1, <2>2
  <1> QED BY <1>1, <1>2, <1>3

\* One search goes on.
OneSearch(s) ==
  /\ DOMAIN search' = Search /\ DOMAIN search'[s] = SearchFields
  /\ \A t \in Search \ {s} : search'[t] = search[t]
  /\ UNCHANGED <<files, dbs, seen>>

\* A step of one search that keeps its own part keeps them all.
LEMMA SearchGoesOn ==
  ASSUME Searches, NEW s \in Search, OneSearch(s), SearchOK(search'[s], seen[s]),
         Active(search'[s]) => Active(search[s]) /\ search'[s].request = search[s].request
  PROVE  Searches'
  <1>1. Db' = Db
    BY DEF OneSearch, Db, DbOf
  <1>2. DOMAIN seen = Search /\ seen' = seen /\ DOMAIN search' = Search
    BY DEF Searches, OneSearch
  <1>3. ASSUME NEW t \in Search
        PROVE  /\ SearchOK(search'[t], seen[t])
               /\ Active(search'[t]) => OnlyOnes(Db, search'[t].request.asOf) \subseteq seen[t]
    <2>1. CASE t = s
      BY <2>1 DEF Searches
    <2>2. CASE t # s
      <3>1. search'[t] = search[t]
        BY <2>2 DEF OneSearch
      <3> QED BY <3>1 DEF Searches
    <2> QED BY <2>1, <2>2
  <1>4. \A t \in Search : SearchOK(search'[t], seen'[t])
    BY <1>2, <1>3
  <1>5. \A t \in Search : Active(search'[t]) => OnlyOnes(Db', search'[t].request.asOf) \subseteq seen'[t]
    BY <1>1, <1>2, <1>3
  <1> QED BY <1>2, <1>4, <1>5 DEF Searches

\* It goes on with the notes and the finds it has.
Reads(s, place) ==
  /\ OneSearch(s)
  /\ search'[s].at = place /\ search'[s].request = search[s].request
  /\ search'[s].notes = search[s].notes /\ search'[s].found = search[s].found

\* A search that only reads keeps what it has found valid.
LEMMA ReadsOn ==
  ASSUME Searches, NEW s \in Search, NEW place, Active(search[s]), Reads(s, place), place # "answered",
         place = "applies" => \A r \in search'[s].held :
           search'[s].id[1] = r.auth /\ search'[s].id[2] = r.version
  PROVE  Searches'
  <1> DEFINE x == search[s]
             y == search'[s]
  <1>1. SearchOK(x, seen[s]) /\ x.request \in Request
    BY DEF Searches, SearchOK
  <1>2. /\ y.at = place /\ y.request = x.request /\ y.notes = x.notes /\ y.found = x.found
        /\ DOMAIN y = SearchFields /\ OneSearch(s)
    BY DEF Reads, OneSearch
  <1>3. \A r \in y.held : y.at = "applies" => y.id[1] = r.auth /\ y.id[2] = r.version
    BY <1>2
  <1> HIDE DEF x, y
  <1>4. Noticed(y, seen[s]) /\ FoundOf(y) /\ AnswerOf(y, seen[s])
    BY <1>1, <1>2 DEF SearchOK, Noticed, FoundOf, AnswerOf
  <1>5. SearchOK(y, seen[s])
    BY <1>1, <1>2, <1>3, <1>4 DEF SearchOK
  <1> QED BY <1>2, <1>5, SearchGoesOn DEF x, y

\* It goes on with one more resolution, and with one more find if the resolution allows.
LEMMA NotesOn ==
  ASSUME Searches, NEW s \in Search, NEW place, NEW auth, NEW more, Active(search[s]), OneSearch(s),
         place \notin {"answered", "applies"}, search'[s].at = place,
         search'[s].request = search[s].request, search'[s].notes = Noted(s, auth),
         search'[s].found = search[s].found \cup more,
         \/ more = {}
         \/ \E id : /\ more = {id} /\ id[1] = auth /\ Note(s, auth).state = "RESOLVED"
                    /\ id[2] = Note(s, auth).version
  PROVE  Searches'
  <1> DEFINE x == search[s]
             y == search'[s]
  <1>1. /\ SearchOK(x, seen[s]) /\ x.request \in Request
        /\ OnlyOnes(Db, x.request.asOf) \subseteq seen[s]
    BY DEF Searches, SearchOK
  <1>2. /\ auth \in DOMAIN y.notes /\ y.notes[auth] = Note(s, auth)
        /\ \A a \in DOMAIN x.notes : a \in DOMAIN y.notes /\ y.notes[a] = x.notes[a]
        /\ \A a \in DOMAIN y.notes : y.notes[a].state = "RESOLVED" => <<a, y.notes[a].version>> \in seen[s]
    BY <1>1, NotedKeeps DEF SearchOK
  <1>3. /\ y.at = place /\ y.request = x.request /\ y.found = x.found \cup more
        /\ DOMAIN y = SearchFields
    BY DEF OneSearch
  <1> DEFINE note == Note(s, auth)
  <1>4. \/ more = {}
        \/ \E id : more = {id} /\ id[1] = auth /\ note.state = "RESOLVED" /\ id[2] = note.version
    OBVIOUS
  <1>5. y.notes[auth] = note
    BY <1>2
  <1> HIDE DEF x, y, note
  <1>6. Noticed(y, seen[s])
    BY <1>2 DEF Noticed
  <1>7. IsFiniteSet(y.found)
    <2>1. IsFiniteSet(x.found)
      BY <1>1 DEF SearchOK, FoundOf
    <2>2. CASE more = {}
      BY <2>1, <2>2, <1>3
    <2>3. ASSUME NEW id, more = {id} PROVE IsFiniteSet(y.found)
      BY <2>1, <2>3, <1>3, FS_AddElement
    <2> QED BY <2>2, <2>3, <1>4
  <1>8. FoundOf(y)
    <2>1. ASSUME NEW id \in y.found
          PROVE  /\ id[1] \in DOMAIN y.notes /\ y.notes[id[1]].state = "RESOLVED"
                 /\ id[2] = y.notes[id[1]].version
      <3>1. CASE id \in x.found
        BY <3>1, <1>1, <1>2 DEF SearchOK, FoundOf
      <3>2. CASE id \in more
        BY <3>2, <1>2, <1>4, <1>5
      <3> QED BY <2>1, <3>1, <3>2, <1>3
    <2> QED BY <1>7, <2>1 DEF FoundOf
  <1>9. AnswerOf(y, seen[s])
    BY <1>3 DEF AnswerOf
  <1>10. SearchOK(y, seen[s])
    BY <1>1, <1>3, <1>6, <1>8, <1>9 DEF SearchOK
  <1> QED BY <1>10, <1>3, SearchGoesOn DEF x, y

\* A search that failed has found nothing.
LEMMA FailsOn ==
  ASSUME Searches, NEW s \in Search, Fails(s), UNCHANGED <<files, dbs, seen>>
  PROVE  Searches'
  <1> DEFINE y == [Fresh EXCEPT !.at = "failed"]
  <1>1. search' = [search EXCEPT ![s] = y] /\ DOMAIN search = Search
    BY DEF Fails, Searches
  <1>2. /\ DOMAIN y = SearchFields /\ y.at = "failed" /\ y.found = {} /\ y.notes = [a \in {} |-> None]
    BY DEF Fresh, SearchFields
  <1> HIDE DEF y
  <1>3. Noticed(y, seen[s]) /\ FoundOf(y) /\ AnswerOf(y, seen[s])
    BY <1>2, FS_EmptySet DEF Noticed, FoundOf, AnswerOf
  <1>4. SearchOK(y, seen[s]) /\ ~Active(y)
    BY <1>2, <1>3 DEF SearchOK, Active
  <1>5. search'[s] = y /\ OneSearch(s)
    BY <1>1, <1>2 DEF OneSearch
  <1> QED BY <1>4, <1>5, SearchGoesOn

\* A search starts with an empty cache, and its history with it.
LEMMA SummaryStep ==
  ASSUME Searches, NEW s \in Search, SearchSummary(s)
  PROVE  Searches'
  <1>1. UNCHANGED <<files, dbs>>
    BY DEF SearchSummary, stores
  <1>2. CASE Fails(s) /\ UNCHANGED seen
    BY <1>1, <1>2, FailsOn
  <1>3. ASSUME NEW q \in Request, NEW e,
               search' = [search EXCEPT ![s] = [Fresh EXCEPT !.at = "index", !.request = q, !.excerpts = e]],
               seen' = [seen EXCEPT ![s] = OnlyOnes(Db, q.asOf)]
        PROVE  Searches'
    <2> DEFINE y == [Fresh EXCEPT !.at = "index", !.request = q, !.excerpts = e]
               only == OnlyOnes(Db, q.asOf)
    <2>1. search' = [search EXCEPT ![s] = y] /\ seen' = [seen EXCEPT ![s] = only]
      BY <1>3
    <2>2. /\ DOMAIN y = SearchFields /\ y.at = "index" /\ y.request = q /\ y.found = {}
          /\ y.notes = [a \in {} |-> None]
      BY DEF Fresh, SearchFields
    <2>3. DOMAIN search = Search /\ DOMAIN seen = Search
      BY DEF Searches
    <2> HIDE DEF y
    <2>4. Noticed(y, only) /\ FoundOf(y) /\ AnswerOf(y, only)
      BY <2>2, FS_EmptySet DEF Noticed, FoundOf, AnswerOf
    <2>5. SearchOK(y, only)
      BY <2>2, <2>4, <1>3 DEF SearchOK
    <2>6. Db' = Db
      BY <1>1 DEF Db, DbOf
    <2>7. OnlyOnes(Db', y.request.asOf) = only
      BY <2>2, <2>6
    <2> HIDE DEF only
    <2>8. ASSUME NEW t \in Search
          PROVE  /\ SearchOK(search'[t], seen'[t])
                 /\ Active(search'[t]) => OnlyOnes(Db', search'[t].request.asOf) \subseteq seen'[t]
      <3>1. CASE t = s
        <4>1. search'[t] = y /\ seen'[t] = only
          BY <2>1, <2>3, <3>1
        <4> QED BY <4>1, <2>5, <2>7
      <3>2. CASE t # s
        <4>1. search'[t] = search[t] /\ seen'[t] = seen[t]
          BY <2>1, <2>3, <3>2
        <4> QED BY <4>1, <2>6 DEF Searches
      <3> QED BY <3>1, <3>2
    <2>9. DOMAIN search' = Search /\ DOMAIN seen' = Search
      BY <2>1, <2>3
    <2> QED BY <2>8, <2>9 DEF Searches
  <1> QED BY <1>2, <1>3 DEF SearchSummary

\* It reads the index.
LEMMA IndexStep ==
  ASSUME Searches, NEW s \in Search, SearchIndex(s)
  PROVE  Searches'
  <1> DEFINE place == IF search[s].request.id = None THEN "target" ELSE "hint"
             ready == Ready
             lexical == (IndexNow.rows # {})
             vectors == IndexNow.vectors
  <1>1. /\ search[s].at = "index" /\ UNCHANGED <<files, dbs, seen>>
        /\ search' = [search EXCEPT ![s].at = place, ![s].ready = ready, ![s].lexical = lexical,
                                    ![s].vectors = vectors]
    BY DEF SearchIndex, Is, OnlySearch, stores
  <1>a. Active(search[s])
    BY <1>1 DEF Active
  <1>2. place \in {"target", "hint"}
    OBVIOUS
  <1>3. DOMAIN search = Search /\ DOMAIN search[s] = SearchFields
    BY DEF Searches, SearchOK
  <1> HIDE DEF place, ready, lexical, vectors
  <1>4. Reads(s, place)
    BY <1>1, <1>3 DEF Reads, OneSearch, SearchFields
  <1> QED BY <1>a, <1>1, <1>2, <1>4, ReadsOn

\* It reads the hinted record.
LEMMA HintStep ==
  ASSUME Searches, NEW s \in Search, SearchHint(s)
  PROVE  Searches'
  <1> DEFINE found == Evidence(Db, search[s].request.id)
             place == IF found = {} THEN "target" ELSE "hint applies"
             missing == (found = {})
  <1>1. /\ search[s].at = "hint" /\ UNCHANGED <<files, dbs, seen>>
        /\ search' = [search EXCEPT ![s].at = place, ![s].missing = missing, ![s].held = found]
    BY DEF SearchHint, Is, OnlySearch, stores
  <1>a. Active(search[s])
    BY <1>1 DEF Active
  <1>2. place \in {"target", "hint applies"}
    OBVIOUS
  <1>3. DOMAIN search = Search /\ DOMAIN search[s] = SearchFields
    BY DEF Searches, SearchOK
  <1> HIDE DEF place, missing, found
  <1>4. Reads(s, place)
    BY <1>1, <1>3 DEF Reads, OneSearch, SearchFields
  <1> QED BY <1>a, <1>1, <1>2, <1>4, ReadsOn

\* It resolves the hinted authority.
LEMMA HintAppliesStep ==
  ASSUME Searches, NEW s \in Search, SearchHintApplies(s)
  PROVE  Searches'
  <1>1. search[s].at = "hint applies" /\ UNCHANGED <<files, dbs, seen>>
    BY DEF SearchHintApplies, Is, OnlySearch, stores
  <1>a. Active(search[s])
    BY <1>1 DEF Active
  <1>2. DOMAIN search = Search /\ DOMAIN search[s] = SearchFields
    BY DEF Searches, SearchOK
  <1>3. ASSUME NEW auth, NEW notes, NEW exact, notes = Noted(s, auth),
               search' = [search EXCEPT ![s].at = "target", ![s].notes = notes, ![s].hits.exact = exact]
        PROVE  Searches'
    <2>1. /\ OneSearch(s) /\ search'[s].at = "target" /\ search'[s].request = search[s].request
          /\ search'[s].notes = notes /\ search'[s].found = search[s].found
      BY <1>1, <1>2, <1>3 DEF OneSearch, SearchFields
    <2>2. search'[s].found = search[s].found \cup {}
      BY <2>1
    <2> QED BY <1>a, <1>3, <2>1, <2>2, NotesOn
  <1>4. ASSUME search' = [search EXCEPT ![s].at = "target", ![s].missing = TRUE]
        PROVE  Searches'
    <2>1. Reads(s, "target")
      BY <1>1, <1>2, <1>4 DEF Reads, OneSearch, SearchFields
    <2> QED BY <1>a, <1>1, <2>1, ReadsOn
  <1>5. PICK r \in search[s].held :
          IF IsStored(s, r.auth)
          THEN search' = [search EXCEPT ![s].at = "target", ![s].notes = Noted(s, r.auth),
                 ![s].hits.exact = IF Applies(s, r) THEN <<search[s].request.id>> ELSE << >>]
          ELSE search' = [search EXCEPT ![s].at = "target", ![s].missing = TRUE]
    BY DEF SearchHintApplies
  <1>6. CASE IsStored(s, r.auth)
    <2> DEFINE exact == IF Applies(s, r) THEN <<search[s].request.id>> ELSE << >>
               notes == Noted(s, r.auth)
               auth == r.auth
    <2>1. search' = [search EXCEPT ![s].at = "target", ![s].notes = notes, ![s].hits.exact = exact]
      BY <1>5, <1>6
    <2>2. notes = Noted(s, auth)
      OBVIOUS
    <2> HIDE DEF exact, notes, auth
    <2> QED BY <2>1, <2>2, <1>3
  <1> QED BY <1>4, <1>5, <1>6

\* It resolves the authority asked for.
LEMMA TargetStep ==
  ASSUME Searches, NEW s \in Search, SearchTarget(s)
  PROVE  Searches'
  <1> DEFINE auth == Recognized(search[s].request)
             notes == Noted(s, auth)
             place == IF Note(s, auth).state = "RESOLVED" THEN "article" ELSE "lexical"
  <1>1. search[s].at = "target" /\ UNCHANGED <<files, dbs, seen>>
    BY DEF SearchTarget, Is, OnlySearch, stores
  <1>a. Active(search[s])
    BY <1>1 DEF Active
  <1>2. DOMAIN search = Search /\ DOMAIN search[s] = SearchFields
    BY DEF Searches, SearchOK
  <1>3. \/ search' = [search EXCEPT ![s].at = "lexical", ![s].target = auth]
        \/ Fails(s)
        \/ search' = [search EXCEPT ![s].at = place, ![s].target = auth, ![s].notes = notes]
    BY DEF SearchTarget
  <1>4. place \in {"article", "lexical"} /\ notes = Noted(s, auth)
    OBVIOUS
  <1> HIDE DEF auth, notes, place
  <1>6. CASE search' = [search EXCEPT ![s].at = "lexical", ![s].target = auth]
    <2>1. Reads(s, "lexical")
      BY <1>1, <1>2, <1>6 DEF Reads, OneSearch, SearchFields
    <2> QED BY <1>a, <2>1, ReadsOn
  <1>7. CASE search' = [search EXCEPT ![s].at = place, ![s].target = auth, ![s].notes = notes]
    <2>1. /\ OneSearch(s) /\ search'[s].at = place /\ search'[s].request = search[s].request
          /\ search'[s].notes = notes /\ search'[s].found = search[s].found
      BY <1>1, <1>2, <1>7 DEF OneSearch, SearchFields
    <2>2. search'[s].found = search[s].found \cup {}
      BY <2>1
    <2> QED BY <1>a, <1>4, <2>1, <2>2, NotesOn
  <1> QED BY <1>1, <1>3, <1>6, <1>7, FailsOn

\* It reads the article asked for.
LEMMA ArticleStep ==
  ASSUME Searches, NEW s \in Search, SearchArticle(s)
  PROVE  Searches'
  <1>1. search[s].at = "article" /\ UNCHANGED <<files, dbs, seen>>
    BY DEF SearchArticle, Is, OnlySearch, stores
  <1>a. Active(search[s])
    BY <1>1 DEF Active
  <1>2. DOMAIN search = Search /\ DOMAIN search[s] = SearchFields
    BY DEF Searches, SearchOK
  <1>3. ASSUME search' = [search EXCEPT ![s].at = "lexical", ![s].missing = TRUE]
        PROVE  Reads(s, "lexical")
    BY <1>1, <1>2, <1>3 DEF Reads, OneSearch, SearchFields
  <1>4. ASSUME NEW exact, search' = [search EXCEPT ![s].at = "lexical", ![s].hits.exact = exact]
        PROVE  Reads(s, "lexical")
    BY <1>1, <1>2, <1>4 DEF Reads, OneSearch, SearchFields
  <1>5. \/ search' = [search EXCEPT ![s].at = "lexical", ![s].missing = TRUE]
        \/ \E id : search' = [search EXCEPT ![s].at = "lexical",
             ![s].hits.exact = IF search[s].hits.exact = <<id>> THEN search[s].hits.exact
                               ELSE Append(search[s].hits.exact, id)]
    BY DEF SearchArticle
  <1>6. Reads(s, "lexical")
    BY <1>3, <1>4, <1>5
  <1> QED BY <1>a, <1>1, <1>6, ReadsOn

\* It takes hits by words.
LEMMA LexicalStep ==
  ASSUME Searches, NEW s \in Search, SearchLexical(s)
  PROVE  Searches'
  <1>1. search[s].at = "lexical" /\ UNCHANGED <<files, dbs, seen>>
    BY DEF SearchLexical, Is, OnlySearch, stores
  <1>a. Active(search[s])
    BY <1>1 DEF Active
  <1>2. DOMAIN search = Search /\ DOMAIN search[s] = SearchFields
    BY DEF Searches, SearchOK
  <1>3. PICK r : search' = [search EXCEPT ![s].at = "semantic", ![s].hits.lexical = r]
    BY DEF SearchLexical
  <1>4. Reads(s, "semantic")
    BY <1>1, <1>2, <1>3 DEF Reads, OneSearch, SearchFields
  <1> QED BY <1>a, <1>1, <1>4, ReadsOn

\* It takes hits by vectors.
LEMMA SemanticStep ==
  ASSUME Searches, NEW s \in Search, SearchSemantic(s)
  PROVE  Searches'
  <1>1. search[s].at = "semantic" /\ UNCHANGED <<files, dbs, seen>>
    BY DEF SearchSemantic, Is, OnlySearch, stores
  <1>a. Active(search[s])
    BY <1>1 DEF Active
  <1>2. DOMAIN search = Search /\ DOMAIN search[s] = SearchFields
    BY DEF Searches, SearchOK
  <1>3. PICK r : search' = [search EXCEPT ![s].at = "read", ![s].hits.semantic = r]
    BY DEF SearchSemantic
  <1>4. Reads(s, "read")
    BY <1>1, <1>2, <1>3 DEF Reads, OneSearch, SearchFields
  <1> QED BY <1>a, <1>1, <1>4, ReadsOn

\* The record read belongs to the identifier it was asked for.
LEMMA ReadStep ==
  ASSUME Searches, NEW s \in Search, SearchRead(s)
  PROVE  Searches'
  <1> DEFINE id == Head(Unchecked(s))
             found == Evidence(Db, id)
             place == IF found = {} THEN "read" ELSE "applies"
             checked == search[s].checked \cup {id}
  <1>1. /\ search[s].at = "read" /\ UNCHANGED <<files, dbs, seen>>
        /\ search' = [search EXCEPT ![s].at = place, ![s].checked = checked, ![s].held = found, ![s].id = id]
    BY DEF SearchRead, Is, OnlySearch, stores
  <1>a. Active(search[s])
    BY <1>1 DEF Active
  <1>2. DOMAIN search = Search /\ DOMAIN search[s] = SearchFields
    BY DEF Searches, SearchOK
  <1>3. place \in {"read", "applies"}
    OBVIOUS
  <1> HIDE DEF id
  <1>4. \A r \in found : id[1] = r.auth /\ id[2] = r.version
    BY DEF Evidence, EvidenceId
  <1> HIDE DEF place, checked, found
  <1>5. Reads(s, place) /\ search'[s].held = found /\ search'[s].id = id
    BY <1>1, <1>2 DEF Reads, OneSearch, SearchFields
  <1> QED BY <1>a, <1>1, <1>3, <1>4, <1>5, ReadsOn

\* What is found is the version that the resolution gives.
LEMMA AppliesStep ==
  ASSUME Searches, NEW s \in Search, SearchApplies(s)
  PROVE  Searches'
  <1>1. search[s].at = "applies" /\ UNCHANGED <<files, dbs, seen>>
    BY DEF SearchApplies, Is, OnlySearch, stores
  <1>a. Active(search[s])
    BY <1>1 DEF Active
  <1>2. DOMAIN search = Search /\ DOMAIN search[s] = SearchFields
    BY DEF Searches, SearchOK
  <1>3. PICK r \in search[s].held :
          IF IsStored(s, r.auth)
          THEN search' = [search EXCEPT ![s].at = "read", ![s].notes = Noted(s, r.auth),
                 ![s].found = @ \cup (IF Applies(s, r) THEN {search[s].id} ELSE {})]
          ELSE Fails(s)
    BY DEF SearchApplies
  <1>4. search[s].id[1] = r.auth /\ search[s].id[2] = r.version
    BY <1>1, <1>3 DEF Searches, SearchOK
  <1>5. CASE ~IsStored(s, r.auth)
    BY <1>1, <1>3, <1>5, FailsOn
  <1>6. CASE IsStored(s, r.auth)
    <2> DEFINE auth == r.auth
               notes == Noted(s, auth)
               more == IF Applies(s, r) THEN {search[s].id} ELSE {}
               all == search[s].found \cup more
    <2>1. search' = [search EXCEPT ![s].at = "read", ![s].notes = notes, ![s].found = all]
      BY <1>3, <1>6
    <2>2. \/ more = {}
          \/ \E id : /\ more = {id} /\ id[1] = auth /\ Note(s, auth).state = "RESOLVED"
                     /\ id[2] = Note(s, auth).version
      BY <1>4 DEF Applies
    <2>3. all = search[s].found \cup more /\ notes = Noted(s, auth)
      OBVIOUS
    <2> HIDE DEF all, notes, more, auth
    <2>4. /\ OneSearch(s) /\ search'[s].at = "read" /\ search'[s].request = search[s].request
          /\ search'[s].notes = notes /\ search'[s].found = all
      BY <1>1, <1>2, <2>1 DEF OneSearch, SearchFields
    <2> QED BY <1>a, <2>2, <2>3, <2>4, NotesOn
  <1> QED BY <1>5, <1>6

\* What is cut from an order of a set is in the set.
LEMMA CutIsPart ==
  ASSUME NEW S, IsFiniteSet(S), NEW order \in Rankings(S, Cardinality(S)), NEW k \in Nat
  PROVE  \A j \in 1..Len(Cut(order, k)) : Cut(order, k)[j] \in S
  <1>1. Cardinality(S) \in Nat
    BY FS_CardinalityType
  <1> DEFINE n == Cardinality(S)
  <1>2. order \in [1..n -> S]
    BY DEF Rankings
  <1> HIDE DEF n
  <1>3. n \in Nat
    BY <1>1 DEF n
  <1>4. order \in Seq(S) /\ Len(order) = n
    BY <1>2, <1>3
  <1>5. CASE Len(order) <= k
    BY <1>4, <1>5 DEF Cut
  <1>6. CASE ~(Len(order) <= k)
    <2>1. Cut(order, k) = SubSeq(order, 1, k)
      BY <1>6 DEF Cut
    <2>2. SubSeq(order, 1, k) \in Seq(S)
      BY <1>3, <1>4, <1>6
    <2> QED BY <2>1, <2>2
  <1> QED BY <1>5, <1>6

\* Every answer has one of the documented states.
LEMMA AnswerStates ==
  ASSUME NEW target, NEW note, NEW missing, NEW found, NEW excerpts, NEW ready
  PROVE  AnswerState(target, note, missing, found, excerpts, ready) \in States
  BY DEF AnswerState, States

\* What is answered was found: each version the one applicable, one per authority.
LEMMA AnswerStep ==
  ASSUME Searches, NEW s \in Search, SearchAnswer(s)
  PROVE  Searches'
  <1> DEFINE x == search[s]
             note == IF x.target \in DOMAIN x.notes THEN x.notes[x.target].state ELSE None
             state == AnswerState(x.target, note, x.missing, x.found # {}, x.excerpts, x.ready)
  <1>1. x.at = "read" /\ UNCHANGED <<files, dbs, seen>>
    BY DEF SearchAnswer, Is, OnlySearch, stores
  <1>2. PICK order \in Rankings(x.found, Cardinality(x.found)) :
          search' = [search EXCEPT ![s] = [Fresh EXCEPT
            !.at = "answered", !.answer = Cut(order, x.request.topK), !.state = state]]
    BY DEF SearchAnswer
  <1>3. SearchOK(x, seen[s]) /\ Active(x) /\ DOMAIN search = Search
    BY <1>1 DEF Searches, Active
  <1>4. x.request.topK \in Nat
    BY <1>3, InputsAreValid DEF SearchOK
  <1> DEFINE answer == Cut(order, x.request.topK)
             y == [Fresh EXCEPT !.at = "answered", !.answer = answer, !.state = state]
  <1>5. state \in States
    BY AnswerStates
  <1>6. \A j \in 1..Len(answer) : answer[j] \in x.found
    BY <1>3, <1>4, CutIsPart DEF SearchOK, FoundOf
  <1>7. search' = [search EXCEPT ![s] = y]
    BY <1>2
  <1> HIDE DEF answer, state
  <1>8. /\ DOMAIN y = SearchFields /\ y.at = "answered" /\ y.found = {} /\ y.answer = answer
        /\ y.notes = [a \in {} |-> None] /\ y.state = state
    BY DEF Fresh, SearchFields
  <1> HIDE DEF x, y
  <1>9. ASSUME NEW id \in x.found
        PROVE  /\ <<id[1], id[2]>> \in seen[s]
               /\ \A other \in x.found : other[1] = id[1] => other[2] = id[2]
    BY <1>3 DEF SearchOK, FoundOf, Noticed
  <1>10. AnswerOf(y, seen[s])
    <2>1. ASSUME NEW j \in 1..Len(answer), NEW k \in 1..Len(answer)
          PROVE  /\ <<answer[j][1], answer[j][2]>> \in seen[s]
                 /\ answer[j][1] = answer[k][1] => answer[j][2] = answer[k][2]
      <3>1. answer[j] \in x.found /\ answer[k] \in x.found
        BY <1>6
      <3> QED BY <3>1, <1>9
    <2> QED BY <2>1, <1>5, <1>8 DEF AnswerOf
  <1>11. Noticed(y, seen[s]) /\ FoundOf(y)
    BY <1>8, FS_EmptySet DEF Noticed, FoundOf
  <1>12. SearchOK(y, seen[s]) /\ ~Active(y)
    BY <1>8, <1>10, <1>11 DEF SearchOK, Active
  <1>13. search'[s] = y /\ OneSearch(s)
    BY <1>1, <1>3, <1>7, <1>8 DEF OneSearch
  <1> QED BY <1>12, <1>13, SearchGoesOn

\* It gives up on a locked database.
LEMMA LockedStep ==
  ASSUME Searches, NEW s \in Search, SearchLocked(s)
  PROVE  Searches'
  BY FailsOn DEF SearchLocked, OnlySearch, stores

\* A step of a search keeps all.
LEMMA SearchStep ==
  ASSUME IInv, NEW s \in Search, Retrieve(s)
  PROVE  IInv'
  <1>1. Store /\ Searches
    BY DEF IInv
  <1>2. UNCHANGED <<files, dbs, indexes, writer, cmd, corpora>>
    BY DEF Retrieve, SearchSummary, SearchIndex, SearchHint, SearchHintApplies, SearchTarget,
           SearchArticle, SearchLexical, SearchSemantic, SearchRead, SearchApplies, SearchAnswer,
           SearchLocked, OnlySearch, stores
  <1>3. Searches'
    BY <1>1, SummaryStep, IndexStep, HintStep, HintAppliesStep, TargetStep, ArticleStep, LexicalStep,
       SemanticStep, ReadStep, AppliesStep, AnswerStep, LockedStep DEF Retrieve
  <1>4. Store'
    BY <1>1, <1>2, StoreStays
  <1> QED BY <1>3, <1>4 DEF IInv

-----------------------------------------------------------------------------
(* The beginning.                                                          *)

\* The manifest of the seed is stored as a whole.
LEMMA SeedIsWhole == Whole(Content(Seed)) /\ Whole({})
  <1>1. \A r \in Content(Seed) : r \in Stored(Content(Seed), r) /\ Same(r, r)
    BY DEF Stored, Same
  <1>2. Covers(Content(Seed), Seed)
    BY <1>1 DEF Covers
  <1> QED BY <1>2, SeedIsManifest DEF Whole, OneIdentity

\* The first states satisfy the invariant.
LEMMA Begins ==
  ASSUME Init
  PROVE  IInv
  <1>1. /\ files \in {NoFiles, [NoFiles EXCEPT !["db"] = SeedDb],
                      [NoFiles EXCEPT !["db"] = SeedDb, !["index"] = SeedIndex]}
        /\ dbs = [f \in Inode |-> IF f = SeedDb THEN Content(Seed) ELSE {}]
        /\ writer = [f \in Inode |-> None]
        /\ cmd = [c \in Command |-> Idle]
        /\ corpora = {Articles(Db)}
    BY DEF Init
  <1>2. /\ files \in [Names -> {SeedDb, SeedIndex, NoFile}]
        /\ files["db"] \in {SeedDb, NoFile}
        /\ files["index"] \in {SeedIndex, NoFile} /\ files["indexTmp"] = NoFile
        /\ files["index"] = SeedIndex => files["db"] = SeedDb
    BY <1>1 DEF NoFiles, Names, SeedDb, SeedIndex, NoFile
  <1>3. /\ DOMAIN Idle = CommandFields /\ Idle.at = "idle" /\ Idle.open = NoFile
    BY DEF Idle, CommandFields
  <1>4. /\ DOMAIN indexes = Inode
        /\ \A f \in Inode : f # SeedIndex => indexes[f] = Blank
        /\ indexes[SeedIndex].rows = Articles(Content(Seed))
    <2> DEFINE ready == [built |-> TRUE, rows |-> Articles(Content(Seed)),
                         stamp |-> Articles(Content(Seed)), vectors |-> None]
    <2>1. indexes = [f \in Inode |-> IF f = SeedIndex THEN ready ELSE Blank]
      BY DEF Init
    <2>2. ready.rows = Articles(Content(Seed))
      OBVIOUS
    <2> HIDE DEF ready
    <2> QED BY <2>1, <2>2, Basics
  <1>5. Shape
    <2>1. "idle" \in CommandPlaces
      BY PlacesAre DEF Places
    <2> QED BY <1>1, <1>2, <1>3, <1>4, <2>1, Basics DEF Shape
  <1>6. Opened
    <2>1. ASSUME NEW c \in Command
          PROVE  Unmade(c)
      BY <1>1, <1>2, <1>3, <1>4, Basics DEF Unmade
    <2>2. "idle" \notin {"begin", "record", "stamp", "commit index"}
      OBVIOUS
    <2> QED BY <1>1, <1>3, <2>1, <2>2 DEF Opened
  <1>7. Writers
    BY <1>1, <1>3 DEF Writers
  <1>8. Imports
    <2>1. \A f \in Inode : Whole(dbs[f])
      BY <1>1, SeedIsWhole
    <2> QED BY <2>1, <1>1, <1>3 DEF Imports
  <1>9. Builds
    <2>1. Articles(Db) \in corpora
      BY <1>1
    <2>2. files["index"] = SeedIndex => Db = Content(Seed)
      <3>1. SeedDb # NoFile
        BY DEF SeedDb, NoFile
      <3> QED BY <1>1, <1>2, <3>1, Basics DEF Db, DbOf
    <2>3. files["index"] = SeedIndex => indexes[SeedIndex].rows \in corpora
      BY <1>4, <2>1, <2>2
    <2>4. ASSUME NEW c \in Command
          PROVE  ~indexes[c].built
      BY <1>4, Basics DEF Blank
    <2> QED BY <1>1, <1>3, <2>1, <2>3, <2>4 DEF Builds
  <1>10. Searches
    <2>1. search = [s \in Search |-> Fresh] /\ seen = [s \in Search |-> {}]
      BY DEF Init
    <2>2. /\ DOMAIN Fresh = SearchFields /\ Fresh.at = "idle" /\ Fresh.found = {}
          /\ Fresh.notes = [a \in {} |-> None]
      BY DEF Fresh, SearchFields
    <2> DEFINE x == Fresh
    <2>3. ASSUME NEW applicable
          PROVE  SearchOK(x, applicable)
      <3>1. x.at = "idle" /\ x.found = {} /\ x.notes = [a \in {} |-> None] /\ DOMAIN x = SearchFields
        BY <2>2
      <3> HIDE DEF x
      <3>2. Noticed(x, applicable) /\ FoundOf(x) /\ AnswerOf(x, applicable)
        BY <3>1, FS_EmptySet DEF Noticed, FoundOf, AnswerOf
      <3> QED BY <3>1, <3>2 DEF SearchOK, Active
    <2> QED BY <2>1, <2>2, <2>3 DEF Searches, Active
  <1> QED BY <1>5, <1>6, <1>7, <1>8, <1>9, <1>10 DEF IInv, Store

-----------------------------------------------------------------------------
(* The theorems.                                                           *)

\* The invariant holds in every state.
THEOREM Invariant == Spec => []IInv
  <1>1. Init => IInv
    BY Begins
  <1>2. IInv /\ [Next]_vars => IInv'
    <2>1. ASSUME IInv, Next
          PROVE  IInv'
      BY <2>1, CommandStep, SearchStep DEF Next
    <2>2. ASSUME IInv, UNCHANGED vars
          PROVE  IInv'
      <3>1. Store /\ Searches
        BY <2>2 DEF IInv
      <3>2. UNCHANGED <<files, dbs, indexes, writer, cmd, search, corpora, seen>>
        BY <2>2 DEF vars
      <3>3. Store'
        BY <3>1, <3>2, StoreStays
      <3>4. Searches'
        BY <3>1, <3>2 DEF Searches, Db, DbOf
      <3> QED BY <3>3, <3>4 DEF IInv
    <2> QED BY <2>1, <2>2
  <1> QED BY <1>1, <1>2, PTL DEF Spec

\* Types: a write transaction belongs to an import at work in that file, a
\* command that ended holds no file, an answer has a documented state.
THEOREM TypeCorrect == Spec => []TypeOK
  <1>1. IInv => TypeOK
    <2>1. SUFFICES ASSUME IInv PROVE TypeOK
      OBVIOUS
    <2>2. Shape /\ Opened /\ Writers /\ Searches
      BY <2>1 DEF IInv, Store
    <2>3. ASSUME NEW c \in Command
          PROVE  /\ cmd[c].at \in CommandPlaces
                 /\ cmd[c].at \in Ends => cmd[c].open = NoFile
      <3>1. Ends \subseteq WithoutFile
        BY DEF Ends, WithoutFile, BeforeOpen
      <3> QED BY <2>2, <3>1 DEF Shape, Opened
    <2>4. \A s \in Search : Is(s, "answered") => search[s].state \in States
      BY <2>2 DEF Searches, SearchOK, AnswerOf, Is
    <2> QED BY <2>2, <2>3, <2>4 DEF TypeOK, Shape, Writers
  <1> QED BY <1>1, Invariant, PTL

\* An import is all or nothing: the database is a union of whole manifests.
THEOREM WholeCorpus == Spec => []CorpusIsWhole
  <1>1. IInv => CorpusIsWhole
    <2>1. SUFFICES ASSUME IInv PROVE CorpusIsWhole
      OBVIOUS
    <2>2. Shape /\ Imports
      BY <2>1 DEF IInv, Store
    <2>3. files["db"] \in Inode \cup {NoFile}
      BY <2>2, Basics DEF Shape
    <2>4. Whole(Db)
      <3>1. CASE files["db"] = NoFile
        BY <3>1, SeedIsWhole DEF Db, DbOf
      <3>2. CASE files["db"] # NoFile
        BY <2>2, <2>3, <3>2 DEF Db, DbOf, Imports
      <3> QED BY <3>1, <3>2
    <2> QED BY <2>4 DEF Whole, CorpusIsWhole
  <1> QED BY <1>1, Invariant, PTL

\* An index that counts as current was filled from one reading of the database,
\* whoever else builds one at the same time.
THEOREM ReadyIsWhole == Spec => []ReadyIndexIsSomeCorpus
  <1>1. IInv => ReadyIndexIsSomeCorpus
    <2>1. SUFFICES ASSUME IInv, Ready PROVE IndexNow.rows \in corpora
      BY DEF ReadyIndexIsSomeCorpus
    <2>2. Shape /\ Builds
      BY <2>1 DEF IInv, Store
    <2>3. files["index"] # NoFile
      BY <2>1 DEF Ready, IndexNow, Blank
    <2>4. IndexNow = indexes[files["index"]] /\ IndexNow.built
      BY <2>1, <2>3 DEF Ready, IndexNow
    <2>5. files["index"] \in Command \cup {SeedIndex}
      BY <2>2, <2>3 DEF Shape
    <2> QED BY <2>2, <2>4, <2>5 DEF Builds
  <1> QED BY <1>1, Invariant, PTL

\* An answer holds one version of an authority at most, and one that was the
\* only one applicable at some moment of its search, whatever was imported.
THEOREM Applicability == Spec => []AnswersAreApplicable
  <1>1. IInv => AnswersAreApplicable
    BY DEF IInv, Searches, SearchOK, AnswerOf, AnswersAreApplicable, Is
  <1> QED BY <1>1, Invariant, PTL
=============================================================================
