----------------------------- MODULE RagIngest -----------------------------
(***************************************************************************)
(* Ingestion into the knowledge base and its freshness: RunIngestion in    *)
(* src/internal/rag/ingest/ingest.go, called by the update_rag tool of the *)
(* server (concurrently with searches and with itself) and CheckFreshness  *)
(* in src/internal/rag/freshness.go.  One process owns the store; it may   *)
(* be killed at any moment and is then started again on what is on disk.   *)
(*                                                                         *)
(* One repository stands for all.  Its clone, the metadata file and the    *)
(* directory of the database are siblings below the data directory.        *)
(***************************************************************************)
EXTENDS RagStore, Sequences

CONSTANTS Updaters,    \* concurrent calls of RunIngestion
          Order,       \* the collections in the order they are populated
          RepoColls,   \* collections made from the repository
          MaxVersion,  \* bound on versions published upstream
          MaxRuns,     \* bound on ingestions
          MaxCrashes,  \* bound on crashes of the process
          Absent,      \* there is no commit or no metadata file
          NoCommit,    \* the metadata file records no commit
          Torn         \* the metadata file was cut off while it was written

ASSUME IngestAssumption == /\ MaxVersion \in Nat \ {0} /\ Versions = 0..MaxVersion
                           /\ RepoColls \subseteq Colls

\* RunIngestion populates each collection of types.go once.
ASSUME OrderAssumption ==
  /\ Order \in Seq(Colls)
  /\ \A c \in Colls : \E i \in DOMAIN Order : Order[i] = c
  /\ \A i, j \in DOMAIN Order : Order[i] = Order[j] => i = j

\* The marks are not commits.
ASSUME MarksAssumption == /\ {Absent, NoCommit, Torn} \cap Nat = {}
                          /\ Absent # NoCommit /\ Absent # Torn /\ NoCommit # Torn

Commits == 1..MaxVersion

VARIABLES
  up,        \* the process is running
  upstream,  \* the commit the remote repository is at
  clone,     \* the clone: whether its .git is there, the commit of its HEAD, and
             \* whether its working tree is the whole of that commit
  meta,      \* the metadata file: the commit it records, or one of the above
  update,    \* the state of each updater
  runs,      \* ingestions started so far
  crashes,   \* crashes so far
  wiped,     \* history: the store was wiped and no ingestion ended since
  trusted    \* history: the last ingestion to end had no failing step, ran
             \* alone, and nothing was reset since

worldVars   == <<up, upstream, clone, meta>>
historyVars == <<runs, crashes, wiped, trusted>>
vars == <<storeVars, search, worldVars, update, historyVars>>

NoClone  == [there |-> FALSE, head |-> Absent, whole |-> FALSE]
CloneAt(v) == [there |-> TRUE, head |-> v, whole |-> TRUE]

Resting == [at |-> "idle", commit |-> Absent, loaded |-> [c \in Colls |-> {}],
            next |-> 1, object |-> 0, todo |-> {}, mishap |-> FALSE]

Numbering == CHOOSE n \in [Colls -> 1..Cardinality(Colls)] :
               \A c, d \in Colls : n[c] = n[d] => c = d

Init ==
  /\ up = TRUE /\ upstream = 1 /\ clone = NoClone /\ meta = Absent
  /\ disk = [c \in Colls |-> FreshDir]
  /\ created = Cardinality(Colls) /\ current = Numbering
  /\ objects = [o \in Objects |-> {}]
  /\ mutex = Nobody
  /\ search = [s \in Searchers |-> Idle]
  /\ update = [u \in Updaters |-> Resting]
  /\ runs = 0 /\ crashes = 0 /\ wiped = FALSE /\ trusted = FALSE

At(u, where) == up /\ update[u].at = where
Coll(u)      == Order[update[u].next]
Alone(u)     == \A v \in Updaters \ {u} : update[v].at = "idle"
Full(v)      == [id : DocIds, version : {v}]

-----------------------------------------------------------------------------
(* One call of RunIngestion.                                               *)

Begin(u) ==
  /\ At(u, "idle")
  /\ runs < MaxRuns
  /\ runs' = runs + 1
  /\ update' = [v \in Updaters |->
       IF v = u THEN [Resting EXCEPT !.at = "cloning", !.mishap = ~Alone(u)]
       ELSE [update[v] EXCEPT !.mishap = TRUE]]
  /\ UNCHANGED <<storeVars, search, worldVars, crashes, wiped, trusted>>

\* What git leaves.  A clone or a pull may fail, and its timeout kills it: a clone
\* then has no HEAD yet or no complete tree, a pull may leave a tree between two
\* commits and a locked index.  What is cut stays cut: pulling needs a branch that
\* is tracked, and brings no file back.
Cloned ==
  IF ~clone.there
  THEN {NoClone, CloneAt(upstream)}
         \cup [there : {TRUE}, head : {Absent, upstream}, whole : {FALSE}]
  ELSE {clone}
         \cup (IF clone.head = Absent THEN {}
               ELSE {[clone EXCEPT !.head = upstream]})
         \cup (IF clone.head \in {Absent, upstream} THEN {}
               ELSE {[clone EXCEPT !.whole = FALSE]})

\* Mutant of Clone: the commit of the remote is recorded, not HEAD of the clone.
CloneRecordsRemote(u) ==
  /\ At(u, "cloning")
  /\ clone' \in Cloned
  /\ update' = [update EXCEPT ![u].at = "loading", ![u].commit = upstream,
                              ![u].mishap = @ \/ clone' # CloneAt(upstream)]
  /\ UNCHANGED <<storeVars, search, up, upstream, meta, historyVars>>

\* cloneAllRepos: a .git directory is taken for a clone and pulled, and HEAD is
\* recorded whether the pull went through or not; a failed clone is left out of the
\* commits.  Every failure is a warning.
Clone(u) ==
  /\ At(u, "cloning")
  /\ clone' \in Cloned
  /\ update' = [update EXCEPT
       ![u].at = "loading",
       ![u].commit = IF clone.there \/ clone'.whole THEN clone'.head ELSE Absent,
       ![u].mishap = @ \/ clone' # CloneAt(upstream)]
  /\ UNCHANGED <<storeVars, search, up, upstream, meta, historyVars>>

\* The documents made of the files in a clone that was cut.
Fragments ==
  {content \in SUBSET [id : DocIds, version : 1..upstream] :
     \A d, e \in content : d.id = e.id => d = e}

Readings(c) ==
  IF c \notin RepoColls THEN {Full(0)}
  ELSE IF clone.whole THEN {Full(clone.head)}
  ELSE IF clone.head # Absent THEN Fragments ELSE {}

\* The documents of each collection are built: from the repository, when it is
\* there, or from other sources (version 0).  A source that cannot be read is
\* a warning, and its collection gets no documents.
Load(u) ==
  /\ At(u, "loading")
  /\ \E docs \in [Colls -> SUBSET Docs] :
       /\ \A c \in Colls : docs[c] \in Readings(c) \cup {{}}
       /\ update' = [update EXCEPT ![u].at = "resetting", ![u].next = 1,
                                   ![u].loaded = docs,
                                   ![u].mishap = @ \/ \E c \in Colls : docs[c] = {}]
  /\ UNCHANGED <<storeVars, search, worldVars, historyVars>>

StartReset(u) ==
  /\ At(u, "resetting")
  /\ ResetBegin(u)
  /\ update' = [update EXCEPT ![u].at = "inReset"]
  /\ trusted' = FALSE
  /\ UNCHANGED <<search, worldVars, runs, crashes, wiped>>

\* A failed reset is a warning; the documents are added all the same.
EndReset(u) ==
  /\ At(u, "inReset")
  /\ \/ /\ ResetDone(Coll(u))
        /\ update' = [update EXCEPT ![u].at = "adding"]
     \/ /\ DeleteFails(Coll(u)) \/ CreateFails(Coll(u))
        /\ update' = [update EXCEPT ![u].at = "adding", ![u].mishap = TRUE]
  /\ UNCHANGED <<search, worldVars, historyVars>>

Advance(u) == IF update[u].next < Len(Order) THEN "resetting" ELSE "saving"

\* AddDocuments takes the pointer; it is not called for an empty list.
StartAdd(u) ==
  /\ At(u, "adding")
  /\ update[u].loaded[Coll(u)] # {} => mutex = Nobody
  /\ update' = [update EXCEPT ![u].at = "embedding", ![u].object = current[Coll(u)],
                              ![u].todo = update[u].loaded[Coll(u)]]
  /\ UNCHANGED <<storeVars, search, worldVars, historyVars>>

AddNext(u) ==
  /\ At(u, "embedding")
  /\ \E d \in update[u].todo :
       /\ AddOne(update[u].object, Coll(u), d)
       /\ update' = [update EXCEPT ![u].todo = @ \ {d}]
  /\ UNCHANGED <<search, worldVars, historyVars>>

\* Mutant of EndAdd: AddDocuments returns, without an error, before every
\* document is in.
EndAddEarly(u) ==
  /\ At(u, "embedding")
  /\ update' = [update EXCEPT ![u].at = Advance(u), ![u].next = @ + 1, ![u].todo = {}]
  /\ UNCHANGED <<storeVars, search, worldVars, historyVars>>

\* AddDocuments returns: all documents are in, or one could not be embedded
\* or written, which is a warning.
EndAdd(u) ==
  /\ At(u, "embedding")
  /\ update' = [update EXCEPT ![u].at = Advance(u), ![u].next = @ + 1, ![u].todo = {},
                              ![u].mishap = @ \/ update[u].todo # {}]
  /\ UNCHANGED <<storeVars, search, worldVars, historyVars>>

\* SaveIngestMeta lists every collection and the commits that were read.
Save(u) ==
  /\ At(u, "saving")
  /\ meta' = IF update[u].commit = Absent THEN NoCommit ELSE update[u].commit
  /\ trusted' = ~update[u].mishap
  /\ wiped' = FALSE
  /\ update' = [update EXCEPT ![u] = Resting]
  /\ UNCHANGED <<storeVars, search, up, upstream, clone, runs, crashes>>

\* WriteFile fails: the file is missing, unchanged or torn, and RunIngestion
\* returns the error.
SaveFails(u) ==
  /\ At(u, "saving")
  /\ meta' \in {meta, Torn}
  /\ update' = [update EXCEPT ![u] = Resting]
  /\ UNCHANGED <<storeVars, search, up, upstream, clone, historyVars>>

Ingest(u) ==
  \/ Clone(u) \/ Load(u) \/ StartReset(u) \/ EndReset(u)
  \/ StartAdd(u) \/ AddNext(u) \/ EndAdd(u) \/ Save(u) \/ SaveFails(u)

-----------------------------------------------------------------------------
(* The world around it.                                                    *)

Publish ==
  /\ upstream < MaxVersion
  /\ upstream' = upstream + 1
  /\ UNCHANGED <<storeVars, search, up, clone, meta, update, historyVars>>

Resetting(c) == \E u \in Updaters : update[u].at = "inReset" /\ Coll(u) = c
Filling(c)   == \E u \in Updaters : update[u].todo # {} /\ Coll(u) = c

\* What a kill may leave of a directory: part of it where Reset was removing
\* it, a document file cut off where AddDocuments was writing one.
Leftovers(c) ==
  {disk[c]}
    \cup (IF Resetting(c)
          THEN [docs : SUBSET disk[c].docs, meta : {disk[c].meta, FALSE}, torn : {FALSE}]
          ELSE {})
    \cup (IF Filling(c) THEN {[disk[c] EXCEPT !.torn = TRUE]} ELSE {})

Crash ==
  /\ up
  /\ crashes < MaxCrashes
  /\ crashes' = crashes + 1
  /\ up' = FALSE
  /\ disk' \in {d \in [Colls -> UNION {Leftovers(c) : c \in Colls}] :
                  \A c \in Colls : d[c] \in Leftovers(c)}
  /\ meta' \in {meta} \cup (IF \E u \in Updaters : update[u].at = "saving"
                            THEN {Torn} ELSE {})
  /\ update' = [u \in Updaters |-> Resting]
  /\ search' = [s \in Searchers |-> Idle]
  /\ mutex' = Nobody
  /\ UNCHANGED <<objects, created, current, upstream, clone, runs, wiped, trusted>>

\* Only the directory of the database is removed: the clones and the metadata file stay.
Restart ==
  /\ ~up
  /\ up' = TRUE
  /\ Open(Numbering)
  /\ wiped' = (wiped \/ Corrupted)
  /\ trusted' = (trusted /\ ~Corrupted)
  /\ UNCHANGED <<upstream, clone, meta, update, runs, crashes>>

SearchStep(s) == up /\ Search(s) /\ UNCHANGED <<worldVars, update, historyVars>>

Quiet == up /\ runs = MaxRuns /\ (\A u \in Updaters : update[u].at = "idle")
            /\ UNCHANGED vars

Next ==
  \/ \E u \in Updaters : Begin(u) \/ Ingest(u)
  \/ \E s \in Searchers : SearchStep(s)
  \/ Publish \/ Crash \/ Restart \/ Quiet

Spec == Init /\ [][Next]_vars

\* Every git command, HTTP request and file operation returns.  Embedding requests
\* and the git commands of the operator repositories run under a timeout; for the
\* clone of the documentation, which ignores its timeout (docs.go), it is assumed.
FairSpec == Spec /\ \A u \in Updaters : WF_vars(Ingest(u))

-----------------------------------------------------------------------------
(* Freshness, as CheckFreshness computes it.                               *)

\* A repository without a readable HEAD, or without a recorded commit, is skipped.
Fresh ==
  /\ meta \notin {Absent, Torn}
  /\ clone.head = Absent \/ meta = NoCommit \/ clone.head = meta

(* Properties.                                                             *)

TypeOK ==
  /\ objects \in [Objects -> SUBSET Docs]
  /\ created \in 0..MaxObjects
  /\ current \in [Colls -> 1..created]
  /\ disk \in [Colls -> [docs : SUBSET Docs, meta : BOOLEAN, torn : BOOLEAN]]
  /\ mutex \in Updaters \cup {Nobody}
  /\ clone \in [there : BOOLEAN, head : Commits \cup {Absent}, whole : BOOLEAN]
  /\ meta \in Commits \cup {Absent, NoCommit, Torn}
  /\ \A u \in Updaters : update[u].next \in 1..(Len(Order) + 1)

\* A search never asks an object for more documents than it holds: the count
\* it read stays valid although collections are reset and refilled meanwhile.
NeverOverAsks ==
  \A s \in Searchers :
    search[s].at = "querying" =>
      search[s].wanted <= Cardinality(objects[search[s].object])

\* Documents of c that an ingestion of the recorded commit would have stored.
Expected(c) == Full(IF c \in RepoColls THEN meta ELSE 0)

\* An ingestion that has a whole clone and no failing step leaves every collection
\* complete at the commit it recorded, in memory and on disk, also across restarts, until
\* the next ingestion resets the first collection.
CleanRunIsComplete ==
  up /\ trusted =>
    \A c \in Colls : /\ objects[current[c]] = Expected(c)
                     /\ disk[c] = [docs |-> Expected(c), meta |-> TRUE, torn |-> FALSE]

\* The commit recorded is not ahead of the clone it was read from; and when the
\* knowledge base is reported as fresh, no document made from a clone that was never
\* cut is newer than the record, in memory or on disk: an ingestion that pulled and
\* then failed, overlapped or was killed half way leaves the base stale.
RecordNeverAhead ==
  /\ meta \in Commits /\ clone.head \in Commits => meta <= clone.head
  /\ up /\ Fresh /\ clone.whole /\ meta \in Commits =>
       \A c \in Colls : \A d \in objects[current[c]] \cup disk[c].docs : d.version <= meta

\* What CheckFreshness says, "Knowledge base is up to date" (freshness.go), is not
\* said of a store that NewStore emptied and that no ingestion has filled since.
WipedIsNotFresh == up /\ wiped => ~Fresh

\* An ingestion that was started ends, also when it competes for the mutex
\* with others: update_rag always answers, unless the process is killed.
UpdateEnds == \A u \in Updaters : (update[u].at # "idle") ~> (update[u].at = "idle")
=============================================================================
