------------------------------ MODULE RagStore ------------------------------
(***************************************************************************)
(* The vector store of the knowledge base: Store in                        *)
(* src/internal/rag/store.go, over the persistent database of chromem-go.  *)
(*                                                                         *)
(* The store maps each collection to a collection object in memory.  The   *)
(* mutex guards the map only: Search and AddDocuments take the pointer     *)
(* under it and use the object after releasing it, while Reset replaces    *)
(* the object.  An object writes each document it is given into the        *)
(* directory of its collection, whose path depends on the collection's     *)
(* name alone; objects of the same name share one directory.               *)
(*                                                                         *)
(* A document is its identifier and the version of the source it was made  *)
(* from; its text and its embedding are left out.  The database itself is  *)
(* external, modelled from how store.go uses it.                           *)
(***************************************************************************)
EXTENDS Naturals, FiniteSets, FiniteSetsExt

CONSTANTS Colls,      \* the collections (five in types.go)
          DocIds,     \* identifiers of the documents of a collection
          Versions,   \* versions of the sources
          Searchers,  \* concurrent tool calls that search
          TopK,       \* results a search asks for
          MaxObjects, \* bound on collection objects created
          Nobody      \* the mutex is free

ASSUME StoreAssumption == /\ TopK \in Nat \ {0}
                          /\ MaxObjects \in Nat \ {0}
                          /\ IsFiniteSet(Colls) /\ Colls # {}
                          /\ Cardinality(Colls) <= MaxObjects
                          /\ IsFiniteSet(DocIds)

Docs    == [id : DocIds, version : Versions]
Objects == 1..MaxObjects

VARIABLES
  objects,   \* object -> the documents it holds in memory
  created,   \* number of objects created so far
  current,   \* the map of the store: collection -> object
  disk,      \* collection -> its directory: documents, whether the metadata file
             \* is there, and whether some file is cut off
  mutex,     \* the updater inside Reset, or Nobody
  search     \* the state of each searcher

storeVars == <<objects, created, current, disk, mutex>>

EmptyDir == [docs |-> {}, meta |-> FALSE, torn |-> FALSE]
FreshDir == [docs |-> {}, meta |-> TRUE, torn |-> FALSE]

\* A document replaces the one with the same identifier.
Put(content, d) == {e \in content : e.id # d.id} \cup {d}

\* NewPersistentDB refuses a directory with documents but no metadata file,
\* and one with a file it cannot decode.
Readable(dir) == ~dir.torn /\ (dir.docs # {} => dir.meta)

-----------------------------------------------------------------------------
(* Search, SearchWithFilter and KeywordSearch.                             *)

Idle == [at |-> "idle", object |-> 0, wanted |-> 0]

\* getCollection: the pointer is read under the mutex.
SearchStart(s, c) ==
  /\ search[s].at = "idle"
  /\ mutex = Nobody
  /\ search' = [search EXCEPT ![s] = [at |-> "counting", object |-> current[c], wanted |-> 0]]
  /\ UNCHANGED storeVars

\* Count() == 0 ends the search without a result; otherwise the number of
\* results asked for is cut down to Count().
SearchCount(s) ==
  /\ search[s].at = "counting"
  /\ LET count == Cardinality(objects[search[s].object])
     IN  search' = [search EXCEPT ![s] =
           IF count = 0 THEN Idle
           ELSE [@ EXCEPT !.at = "querying", !.wanted = Min({TopK, count})]]
  /\ UNCHANGED storeVars

\* The query runs, or the embedding of its text fails.
SearchQuery(s) ==
  /\ search[s].at = "querying"
  /\ search' = [search EXCEPT ![s] = Idle]
  /\ UNCHANGED storeVars

Search(s) == (\E c \in Colls : SearchStart(s, c)) \/ SearchCount(s) \/ SearchQuery(s)

-----------------------------------------------------------------------------
(* Reset, split at the two places where it can fail; u holds the mutex.    *)

ResetBegin(u) ==
  /\ mutex = Nobody
  /\ mutex' = u
  /\ UNCHANGED <<objects, created, current, disk>>

\* Mutant of NewObject: the object of the collection is emptied in place.
EmptiedInPlace(c) ==
  /\ objects' = [objects EXCEPT ![current[c]] = {}]
  /\ created' = created
  /\ current' = current

NewObject(c) ==
  /\ created < MaxObjects
  /\ created' = created + 1
  /\ current' = [current EXCEPT ![c] = created']
  /\ objects' = objects

\* Both steps succeed: the directory is new and the map points to a new object.
ResetDone(c) ==
  /\ disk' = [disk EXCEPT ![c] = FreshDir]
  /\ NewObject(c)
  /\ mutex' = Nobody

\* Mutant of DeleteFails: the error returns without releasing the mutex.
DeleteFailsLocked(c) ==
  /\ UNCHANGED <<disk, mutex, objects, created, current>>

\* DeleteCollection fails: some of the directory is gone, the object stays.
DeleteFails(c) ==
  /\ \E left \in SUBSET disk[c].docs, named \in {disk[c].meta, FALSE} :
       disk' = [disk EXCEPT ![c] = [docs |-> left, meta |-> named, torn |-> disk[c].torn]]
  /\ mutex' = Nobody
  /\ UNCHANGED <<objects, created, current>>

\* Mutant of CreateFails: the result is stored before its error is looked at.
CreateFailsStored(c) ==
  /\ disk' = [disk EXCEPT ![c] = EmptyDir]
  /\ mutex' = Nobody
  /\ current' = [current EXCEPT ![c] = 0]
  /\ UNCHANGED <<objects, created>>

\* CreateCollection fails: the directory is gone and the map still points to
\* the object of the deleted collection.
CreateFails(c) ==
  /\ disk' = [disk EXCEPT ![c] = EmptyDir]
  /\ mutex' = Nobody
  /\ UNCHANGED <<objects, created, current>>

-----------------------------------------------------------------------------
(* AddDocuments stores the documents one by one, in memory and on disk, in *)
(* any order: four of them at a time are embedded and added.               *)

AddOne(o, c, d) ==
  /\ objects' = [objects EXCEPT ![o] = Put(@, d)]
  /\ disk' = [disk EXCEPT ![c].docs = Put(@, d)]
  /\ UNCHANGED <<created, current, mutex>>

-----------------------------------------------------------------------------
(* NewStore, at the start of a process.                                    *)

Wiped == [c \in Colls |-> FreshDir]

Corrupted == \E c \in Colls : ~Readable(disk[c])

\* A database that cannot be opened is removed with everything in its directory;
\* missing collections are created.
OpenedDisk ==
  IF Corrupted THEN Wiped ELSE [c \in Colls |-> [disk[c] EXCEPT !.meta = TRUE]]

Open(number) ==
  /\ disk' = OpenedDisk
  /\ created' = Cardinality(Colls)
  /\ current' = number
  /\ objects' = [o \in Objects |->
       IF \E c \in Colls : number[c] = o
       THEN disk'[CHOOSE c \in Colls : number[c] = o].docs ELSE {}]
  /\ mutex' = Nobody
  /\ search' = [s \in Searchers |-> Idle]
=============================================================================
