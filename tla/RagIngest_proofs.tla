-------------------------- MODULE RagIngest_proofs --------------------------
(***************************************************************************)
(* The safety properties of RagIngest for any number of collections,       *)
(* documents, versions, searches and concurrent ingestions.                *)
(*                                                                         *)
(* The invariant has five parts.  StoreInv: every collection has an object *)
(* of its own, objects not yet created are empty, and no object and no     *)
(* directory holds two documents of one identifier.  WorkInv: where each   *)
(* ingestion and each search is.  RecordInv: neither the clone, nor what   *)
(* an ingestion read, nor the record is ahead of what it was read from.    *)
(* DocsInv: neither is any document, loaded, waiting or stored, as long as *)
(* the clone was never cut.  CleanInv: an ingestion without a mishap is    *)
(* alone, has a whole clone, and has stored what it has passed.            *)
(***************************************************************************)
EXTENDS RagIngest, FunctionTheorems, FiniteSetTheorems, TLAPS

Dirs == [docs : SUBSET Docs, meta : BOOLEAN, torn : BOOLEAN]

UpdateStates ==
  [at : {"idle", "cloning", "loading", "resetting", "inReset", "adding", "embedding", "saving"},
   commit : Commits \cup {Absent}, loaded : [Colls -> SUBSET Docs],
   next : 1..(Len(Order) + 1), object : 0..MaxObjects, todo : SUBSET Docs, mishap : BOOLEAN]

SearchStates == [at : {"idle", "counting", "querying"}, object : 0..MaxObjects, wanted : Nat]

UniqueIds(content) == \A d, e \in content : d.id = e.id => d = e

StoreTyped ==
  /\ objects \in [Objects -> SUBSET Docs]
  /\ created \in Objects
  /\ current \in [Colls -> 1..created]
  /\ disk \in [Colls -> Dirs]
  /\ mutex \in Updaters \cup {Nobody}

StoreInv ==
  /\ StoreTyped
  /\ \A c, d \in Colls : current[c] = current[d] => c = d
  /\ \A o \in Objects : o > created => objects[o] = {}
  /\ \A o \in Objects : UniqueIds(objects[o])
  /\ \A c \in Colls : UniqueIds(disk[c].docs)

Clones == [there : BOOLEAN, head : Commits \cup {Absent}, whole : BOOLEAN]

WorldTyped ==
  /\ up \in BOOLEAN /\ upstream \in Commits
  /\ clone \in Clones
  /\ meta \in Commits \cup {Absent, NoCommit, Torn}
  /\ wiped \in BOOLEAN /\ trusted \in BOOLEAN

WithColl == {"resetting", "inReset", "adding", "embedding"}

Place(u) ==
  /\ update[u].at \in WithColl => update[u].next <= Len(Order)
  /\ update[u].at = "embedding" => update[u].object \in 1..created
  /\ update[u].at # "embedding" => update[u].todo = {}
  /\ ~up => update[u].at = "idle"

WorkInv ==
  /\ update \in [Updaters -> UpdateStates]
  /\ search \in [Searchers -> SearchStates]
  /\ \A u \in Updaters : Place(u)
  /\ \A s \in Searchers :
       /\ search[s].at # "idle" => search[s].object \in Objects
       /\ ~up => search[s].at = "idle"

RecordInv ==
  /\ clone.head \in Commits => clone.head <= upstream
  /\ meta \in Commits => meta <= upstream
  /\ meta \in Commits /\ clone.head \in Commits => meta <= clone.head
  /\ \A u \in Updaters : update[u].commit \in Commits =>
       /\ update[u].commit <= upstream
       /\ clone.head \in Commits => update[u].commit <= clone.head

\* Documents made from the clone as it was at some time until now.
Behind(docs) == \A d \in docs : /\ d.version <= upstream
                                /\ clone.whole => d.version <= clone.head

DocsInv ==
  /\ clone.whole => clone.head \in Commits
  /\ \A o \in Objects : Behind(objects[o])
  /\ \A c \in Colls : Behind(disk[c].docs)
  /\ \A u \in Updaters : /\ Behind(update[u].todo)
                          /\ \A c \in Colls : Behind(update[u].loaded[c])

Dir(content)       == [docs |-> content, meta |-> TRUE, torn |-> FALSE]
Stored(c, content) == objects[current[c]] = content /\ disk[c] = Dir(content)
Loaded(u)          == update[u].at \in WithColl \cup {"saving"}
Source(c, commit)  == Full(IF c \in RepoColls THEN commit ELSE 0)

\* What an ingestion without a mishap has got done.
Clean(u) ==
  /\ Alone(u)
  /\ update[u].at # "cloning" => update[u].commit \in Commits /\ clone = CloneAt(update[u].commit)
  /\ Loaded(u) =>
       /\ \A c \in Colls : update[u].loaded[c] = Source(c, update[u].commit)
       /\ \A i \in DOMAIN Order :
            i < update[u].next => Stored(Order[i], update[u].loaded[Order[i]])
  /\ update[u].at = "adding" => Stored(Coll(u), {})
  /\ update[u].at = "embedding" =>
       /\ update[u].object = current[Coll(u)]
       /\ update[u].todo \subseteq update[u].loaded[Coll(u)]
       /\ Stored(Coll(u), update[u].loaded[Coll(u)] \ update[u].todo)
  /\ update[u].at = "saving" => update[u].next = Len(Order) + 1

CleanInv ==
  /\ \A u \in Updaters : update[u].at # "idle" /\ ~update[u].mishap => Clean(u)
  /\ trusted =>
       /\ \A u \in Updaters : update[u].at \in {"idle", "cloning", "loading", "resetting"}
       /\ \A c \in Colls : /\ disk[c] = Dir(Expected(c))
                           /\ up => objects[current[c]] = Expected(c)

IInv ==
  StoreInv /\ WorldTyped /\ WorkInv /\ RecordInv /\ DocsInv /\ NeverOverAsks /\ CleanInv
-----------------------------------------------------------------------------
(* Documents of one identifier each.                                       *)

\* There are no more of them than identifiers.
LEMMA UniqueFinite ==
  ASSUME NEW content \in SUBSET Docs, UniqueIds(content)
  PROVE  IsFiniteSet(content)
<1> DEFINE f == [d \in content |-> d.id]
<1>1. \A d \in content : d.id \in DocIds
  BY DEF Docs
<1>2. f \in [content -> DocIds]
  BY <1>1
<1>3. \A d, e \in content : f[d] = f[e] => d = e
  BY DEF UniqueIds
<1>4. f \in Injection(content, DocIds)
  BY <1>2, <1>3 DEF Injection, IsInjective
<1> QED
  BY <1>4, FS_Injection, StoreAssumption

\* AddDocuments keeps one document for each identifier and loses none.
LEMMA PutGrows ==
  ASSUME NEW content \in SUBSET Docs, UniqueIds(content), NEW d \in Docs
  PROVE  /\ Put(content, d) \in SUBSET Docs /\ UniqueIds(Put(content, d))
         /\ Cardinality(content) \in Nat /\ Cardinality(Put(content, d)) \in Nat
         /\ Cardinality(content) <= Cardinality(Put(content, d))
<1>1. Put(content, d) \in SUBSET Docs /\ UniqueIds(Put(content, d))
  BY DEF Put, UniqueIds
<1>2. IsFiniteSet(content) /\ IsFiniteSet(Put(content, d))
  BY <1>1, UniqueFinite
<1>3. Cardinality(content) \in Nat /\ Cardinality(Put(content, d)) \in Nat
  BY <1>2, FS_CardinalityType
<1>4. CASE \E e \in content : e.id = d.id
  <2>1. PICK e \in content : e.id = d.id
    BY <1>4
  <2>2. Put(content, d) = (content \ {e}) \cup {d} /\ d \notin content \ {e}
    BY <2>1 DEF Put, UniqueIds
  <2>3. IsFiniteSet(content \ {e}) /\ Cardinality(content \ {e}) = Cardinality(content) - 1
    BY <1>2, <2>1, FS_RemoveElement
  <2>4. Cardinality((content \ {e}) \cup {d}) = Cardinality(content \ {e}) + 1
    BY <2>2, <2>3, FS_AddElement
  <2> QED
    BY <1>1, <1>3, <2>2, <2>3, <2>4
<1>5. CASE \A e \in content : e.id # d.id
  <2>1. content \subseteq Put(content, d)
    BY <1>5 DEF Put
  <2> QED
    BY <1>1, <1>2, <1>3, <2>1, FS_Subset
<1> QED
  BY <1>4, <1>5

\* The documents of one source replace nothing of the same source.
LEMMA PutFull ==
  ASSUME NEW v, NEW content \in SUBSET Full(v), NEW d \in Full(v)
  PROVE  Put(content, d) = content \cup {d}
BY DEF Put, Full

-----------------------------------------------------------------------------
(* What the steps of an ingestion do to its own state.                     *)

LEMMA CollIsColl ==
  ASSUME WorkInv, NEW u \in Updaters, update[u].at \in WithColl
  PROVE  /\ update[u].next \in DOMAIN Order /\ Coll(u) \in Colls
         /\ update[u].next + 1 \in 1..(Len(Order) + 1)
<1>1. update[u].next \in 1..(Len(Order) + 1) /\ update[u].next <= Len(Order)
  BY DEF WorkInv, Place, UpdateStates
<1> QED
  BY <1>1, OrderAssumption DEF Coll

\* One ingestion moves, the others stay where they are.
Moves(u) ==
  /\ update' \in [Updaters -> UpdateStates]
  /\ \A v \in Updaters \ {u} : update'[v] = update[v]

LEMMA OneMoves ==
  ASSUME WorkInv, NEW u \in Updaters, NEW r \in UpdateStates, update' = [update EXCEPT ![u] = r]
  PROVE  Moves(u) /\ update'[u] = r
BY DEF Moves, WorkInv

LEMMA CloneMoves ==
  ASSUME WorldTyped, WorkInv, NEW u \in Updaters, Clone(u)
  PROVE  /\ Moves(u) /\ update'[u].at = "loading"
         /\ update'[u].commit = IF clone.there \/ clone'.whole THEN clone'.head ELSE Absent
         /\ update'[u].mishap <=> update[u].mishap \/ clone' # CloneAt(upstream)
         /\ update'[u].todo = update[u].todo /\ update'[u].loaded = update[u].loaded
         /\ clone' \in Cloned
         /\ clone' \in Clones
<1>1. clone' \in Cloned /\ update' = [update EXCEPT
       ![u].at = "loading",
       ![u].commit = IF clone.there \/ clone'.whole THEN clone'.head ELSE Absent,
       ![u].mishap = @ \/ clone' # CloneAt(upstream)]
  BY DEF Clone
<1>2. clone' \in Clones
  <2>1. clone.there \in BOOLEAN /\ clone.head \in Commits \cup {Absent} /\ clone.whole \in BOOLEAN
        /\ upstream \in Commits
    BY DEF WorldTyped, Clones
  <2>2. CASE ~clone.there
    <3>1. NoClone \in Clones /\ CloneAt(upstream) \in Clones
      BY <2>1 DEF NoClone, CloneAt, Clones
    <3>2. [there : {TRUE}, head : {Absent, upstream}, whole : {FALSE}] \subseteq Clones
      BY <2>1 DEF Clones
    <3> QED
      BY <1>1, <2>2, <3>1, <3>2 DEF Cloned
  <2>3. CASE clone.there
    <3>1. clone \in Clones /\ [clone EXCEPT !.head = upstream] \in Clones
          /\ [clone EXCEPT !.whole = FALSE] \in Clones
      BY <2>1 DEF WorldTyped, Clones
    <3> QED
      BY <1>1, <2>3, <3>1 DEF Cloned
  <2> QED
    BY <2>1, <2>2, <2>3
<1> DEFINE commit == IF clone.there \/ clone'.whole THEN clone'.head ELSE Absent
           r == [update[u] EXCEPT !.at = "loading", !.commit = commit,
                                  !.mishap = update[u].mishap \/ clone' # CloneAt(upstream)]
<1>3. commit \in Commits \cup {Absent}
  BY <1>2 DEF Clones
<1>4. r \in UpdateStates
  <2>1. update[u] \in UpdateStates
    BY DEF WorkInv
  <2>2. (clone' # CloneAt(upstream)) \in BOOLEAN
    OBVIOUS
  <2> HIDE DEF commit
  <2> QED
    BY <1>3, <2>1, <2>2 DEF UpdateStates
<1>5. update' = [update EXCEPT ![u] = r]
  BY <1>1
<1>6. /\ r.at = "loading" /\ r.todo = update[u].todo /\ r.commit = commit
      /\ r.loaded = update[u].loaded
      /\ r.mishap <=> update[u].mishap \/ clone' # CloneAt(upstream)
  <2>1. update[u] \in UpdateStates
    BY DEF WorkInv
  <2> HIDE DEF commit
  <2> QED
    BY <2>1 DEF UpdateStates
<1> HIDE DEF r
<1>7. Moves(u) /\ update'[u] = r
  BY <1>4, <1>5, OneMoves
<1> QED
  BY <1>1, <1>2, <1>6, <1>7

LEMMA LoadMoves ==
  ASSUME WorkInv, NEW u \in Updaters, Load(u)
  PROVE  \E docs \in [Colls -> SUBSET Docs] :
           /\ \A c \in Colls : docs[c] \in Readings(c) \cup {{}}
           /\ Moves(u) /\ update'[u].at = "resetting" /\ update'[u].next = 1
           /\ update'[u].loaded = docs
           /\ update'[u].commit = update[u].commit /\ update'[u].todo = update[u].todo
           /\ update'[u].mishap <=> update[u].mishap \/ \E c \in Colls : docs[c] = {}
<1>1. PICK docs \in [Colls -> SUBSET Docs] :
        /\ \A c \in Colls : docs[c] \in Readings(c) \cup {{}}
        /\ update' = [update EXCEPT ![u].at = "resetting", ![u].next = 1, ![u].loaded = docs,
                                    ![u].mishap = @ \/ \E c \in Colls : docs[c] = {}]
  BY DEF Load
<1> DEFINE empty == \E c \in Colls : docs[c] = {}
           r == [update[u] EXCEPT !.at = "resetting", !.next = 1, !.loaded = docs,
                                  !.mishap = update[u].mishap \/ empty]
<1>2. update' = [update EXCEPT ![u] = r]
  BY <1>1
<1>3. 1 \in 1..(Len(Order) + 1)
  BY OrderAssumption
<1>4. /\ r \in UpdateStates
      /\ r.at = "resetting" /\ r.next = 1 /\ r.loaded = docs
      /\ r.commit = update[u].commit /\ r.todo = update[u].todo
      /\ r.mishap <=> update[u].mishap \/ empty
  <2>1. update[u] \in UpdateStates /\ docs \in [Colls -> SUBSET Docs]
    BY DEF WorkInv
  <2>2. empty \in BOOLEAN
    OBVIOUS
  <2> HIDE DEF empty
  <2> QED
    BY <1>3, <2>1, <2>2 DEF UpdateStates
<1> HIDE DEF r
<1>5. Moves(u) /\ update'[u] = r
  BY <1>2, <1>4, OneMoves
<1> QED
  BY <1>1, <1>4, <1>5

\* StartReset and EndReset change nothing but the step, and note what failed.
Steps(u, at, mishap) ==
  /\ Moves(u) /\ update'[u].at = at
  /\ update'[u].next = update[u].next /\ update'[u].loaded = update[u].loaded
  /\ update'[u].commit = update[u].commit /\ update'[u].todo = update[u].todo
  /\ update'[u].mishap = mishap

LEMMA StepMoves ==
  ASSUME WorkInv, NEW u \in Updaters, NEW at \in {"inReset", "adding"},
         update' = [update EXCEPT ![u].at = at]
  PROVE  Steps(u, at, update[u].mishap)
<1> DEFINE r == [update[u] EXCEPT !.at = at]
<1>1. /\ r \in UpdateStates /\ r.at = at /\ r.mishap = update[u].mishap
      /\ r.next = update[u].next /\ r.loaded = update[u].loaded
      /\ r.commit = update[u].commit /\ r.todo = update[u].todo
  BY DEF WorkInv, UpdateStates
<1>2. update' = [update EXCEPT ![u] = r]
  OBVIOUS
<1> HIDE DEF r
<1>3. Moves(u) /\ update'[u] = r
  BY <1>1, <1>2, OneMoves
<1> QED
  BY <1>1, <1>3 DEF Steps

LEMMA FailMoves ==
  ASSUME WorkInv, NEW u \in Updaters,
         update' = [update EXCEPT ![u].at = "adding", ![u].mishap = TRUE]
  PROVE  Steps(u, "adding", TRUE)
<1> DEFINE r == [update[u] EXCEPT !.at = "adding", !.mishap = TRUE]
<1>1. /\ r \in UpdateStates /\ r.at = "adding" /\ r.mishap = TRUE
      /\ r.next = update[u].next /\ r.loaded = update[u].loaded
      /\ r.commit = update[u].commit /\ r.todo = update[u].todo
  BY DEF WorkInv, UpdateStates
<1>2. update' = [update EXCEPT ![u] = r]
  OBVIOUS
<1> HIDE DEF r
<1>3. Moves(u) /\ update'[u] = r
  BY <1>1, <1>2, OneMoves
<1> QED
  BY <1>1, <1>3 DEF Steps

LEMMA EndResetMoves ==
  ASSUME WorkInv, NEW u \in Updaters, EndReset(u)
  PROVE  \/ Steps(u, "adding", update[u].mishap) /\ ResetDone(Coll(u))
         \/ Steps(u, "adding", TRUE) /\ (DeleteFails(Coll(u)) \/ CreateFails(Coll(u)))
<1>1. CASE update' = [update EXCEPT ![u].at = "adding"] /\ ResetDone(Coll(u))
  BY <1>1, StepMoves
<1>2. CASE /\ update' = [update EXCEPT ![u].at = "adding", ![u].mishap = TRUE]
           /\ DeleteFails(Coll(u)) \/ CreateFails(Coll(u))
  BY <1>2, FailMoves
<1> QED
  BY <1>1, <1>2 DEF EndReset

\* StartAdd, AddNext and EndAdd.
LEMMA StartAddMoves ==
  ASSUME StoreInv, WorkInv, NEW u \in Updaters, StartAdd(u)
  PROVE  /\ Moves(u) /\ update'[u].at = "embedding"
         /\ update'[u].object = current[Coll(u)] /\ update'[u].object \in 1..created
         /\ update'[u].todo = update[u].loaded[Coll(u)]
         /\ update'[u].next = update[u].next /\ update'[u].loaded = update[u].loaded
         /\ update'[u].commit = update[u].commit /\ update'[u].mishap = update[u].mishap
<1> DEFINE o == current[Coll(u)]
           docs == update[u].loaded[Coll(u)]
           r == [update[u] EXCEPT !.at = "embedding", !.object = o, !.todo = docs]
<1>1. Coll(u) \in Colls
  BY CollIsColl DEF StartAdd, At, WithColl
<1>2. o \in 1..created /\ o \in 0..MaxObjects /\ docs \in SUBSET Docs
  BY <1>1, StoreAssumption DEF StoreInv, StoreTyped, WorkInv, UpdateStates, Objects
<1>3. update' = [update EXCEPT ![u] = r]
  BY DEF StartAdd
<1>4. /\ r \in UpdateStates /\ r.at = "embedding" /\ r.object = o /\ r.todo = docs
      /\ r.next = update[u].next /\ r.loaded = update[u].loaded
      /\ r.commit = update[u].commit /\ r.mishap = update[u].mishap
  <2>1. update[u] \in UpdateStates
    BY DEF WorkInv
  <2> HIDE DEF o, docs
  <2> QED
    BY <1>2, <2>1 DEF UpdateStates
<1> HIDE DEF r
<1>5. Moves(u) /\ update'[u] = r
  BY <1>3, <1>4, OneMoves
<1> QED
  BY <1>2, <1>4, <1>5

LEMMA AddNextMoves ==
  ASSUME WorkInv, NEW u \in Updaters, NEW d \in update[u].todo,
         update' = [update EXCEPT ![u].todo = @ \ {d}]
  PROVE  /\ Moves(u) /\ update'[u].todo = update[u].todo \ {d}
         /\ update'[u].at = update[u].at /\ update'[u].object = update[u].object
         /\ update'[u].next = update[u].next /\ update'[u].loaded = update[u].loaded
         /\ update'[u].commit = update[u].commit /\ update'[u].mishap = update[u].mishap
<1> DEFINE r == [update[u] EXCEPT !.todo = update[u].todo \ {d}]
<1>1. /\ r \in UpdateStates /\ r.todo = update[u].todo \ {d}
      /\ r.at = update[u].at /\ r.object = update[u].object
      /\ r.next = update[u].next /\ r.loaded = update[u].loaded
      /\ r.commit = update[u].commit /\ r.mishap = update[u].mishap
  BY DEF WorkInv, UpdateStates
<1>2. update' = [update EXCEPT ![u] = r]
  OBVIOUS
<1> HIDE DEF r
<1>3. Moves(u) /\ update'[u] = r
  BY <1>1, <1>2, OneMoves
<1> QED
  BY <1>1, <1>3

LEMMA EndAddMoves ==
  ASSUME WorkInv, NEW u \in Updaters, EndAdd(u)
  PROVE  /\ Moves(u) /\ update'[u].at = Advance(u) /\ update'[u].next = update[u].next + 1
         /\ update'[u].todo = {} /\ update'[u].loaded = update[u].loaded
         /\ update'[u].commit = update[u].commit
         /\ update'[u].mishap <=> update[u].mishap \/ update[u].todo # {}
<1> DEFINE at == Advance(u)
           next == update[u].next + 1
           left == update[u].todo # {}
           r == [update[u] EXCEPT !.at = at, !.next = next, !.todo = {},
                                  !.mishap = update[u].mishap \/ left]
<1>1. next \in 1..(Len(Order) + 1)
  BY CollIsColl DEF EndAdd, At, WithColl
<1>2. update' = [update EXCEPT ![u] = r]
  BY DEF EndAdd
<1>3. /\ r \in UpdateStates /\ r.at = at /\ r.next = next /\ r.todo = {}
      /\ r.loaded = update[u].loaded /\ r.commit = update[u].commit
      /\ r.mishap <=> update[u].mishap \/ left
  <2>1. at \in {"resetting", "saving"}
    BY DEF Advance
  <2>2. update[u] \in UpdateStates /\ left \in BOOLEAN
    BY DEF WorkInv
  <2> HIDE DEF at, next, left
  <2> QED
    BY <1>1, <2>1, <2>2 DEF UpdateStates
<1> HIDE DEF r
<1>4. Moves(u) /\ update'[u] = r
  BY <1>2, <1>3, OneMoves
<1> QED
  BY <1>3, <1>4

\* Save and SaveFails end an ingestion.
LEMMA RestingTyped == Resting \in UpdateStates /\ Resting.at = "idle" /\ Resting.todo = {}
                      /\ Resting.commit = Absent /\ Resting.loaded = [c \in Colls |-> {}]
<1>1. 1 \in 1..(Len(Order) + 1) /\ 0 \in 0..MaxObjects
  BY OrderAssumption, StoreAssumption
<1> QED
  BY <1>1 DEF Resting, UpdateStates

LEMMA SaveMoves ==
  ASSUME WorkInv, NEW u \in Updaters, Save(u) \/ SaveFails(u)
  PROVE  /\ Moves(u) /\ update'[u].at = "idle" /\ update'[u].todo = {}
         /\ update'[u].commit = Absent /\ update'[u].loaded = [c \in Colls |-> {}]
<1>1. update' = [update EXCEPT ![u] = Resting]
  BY DEF Save, SaveFails
<1> QED
  BY <1>1, RestingTyped, OneMoves

LEMMA BeginMoves ==
  ASSUME WorkInv, NEW u \in Updaters, Begin(u)
  PROVE  /\ update' \in [Updaters -> UpdateStates]
         /\ update'[u].at = "cloning" /\ update'[u].todo = {} /\ update'[u].commit = Absent
         /\ update'[u].mishap <=> ~Alone(u)
         /\ update'[u].loaded = [c \in Colls |-> {}]
         /\ \A v \in Updaters \ {u} :
              /\ update'[v].mishap /\ update'[v].at = update[v].at
              /\ update'[v].commit = update[v].commit /\ update'[v].todo = update[v].todo
              /\ update'[v].next = update[v].next /\ update'[v].object = update[v].object
              /\ update'[v].loaded = update[v].loaded
<1> DEFINE apart == ~Alone(u)
           r == [Resting EXCEPT !.at = "cloning", !.mishap = apart]
           s(v) == [update[v] EXCEPT !.mishap = TRUE]
<1>1. update' = [v \in Updaters |-> IF v = u THEN r ELSE s(v)]
  BY DEF Begin
<1>2. /\ r \in UpdateStates /\ r.at = "cloning" /\ r.todo = {} /\ r.commit = Absent
      /\ r.loaded = [c \in Colls |-> {}]
      /\ r.mishap <=> apart
  <2>1. 1 \in 1..(Len(Order) + 1) /\ 0 \in 0..MaxObjects
    BY OrderAssumption, StoreAssumption
  <2>2. apart \in BOOLEAN
    OBVIOUS
  <2> HIDE DEF apart
  <2> QED
    BY <2>1, <2>2 DEF Resting, UpdateStates
<1>3. ASSUME NEW v \in Updaters
      PROVE  /\ s(v) \in UpdateStates /\ s(v).mishap /\ s(v).at = update[v].at
             /\ s(v).commit = update[v].commit /\ s(v).todo = update[v].todo
             /\ s(v).next = update[v].next /\ s(v).object = update[v].object
             /\ s(v).loaded = update[v].loaded
  BY DEF WorkInv, UpdateStates
<1> HIDE DEF r, s
<1> QED
  BY <1>1, <1>2, <1>3

-----------------------------------------------------------------------------
(* The store.                                                              *)

\* There is a numbering of the collections.
LEMMA NumberingIsInjective ==
  /\ Numbering \in [Colls -> 1..Cardinality(Colls)]
  /\ \A c, d \in Colls : Numbering[c] = Numbering[d] => c = d
<1>1. ExistsBijection(1..Cardinality(Colls), Colls)
  BY FS_CardinalityType, StoreAssumption
<1>2. ExistsBijection(Colls, 1..Cardinality(Colls))
  BY <1>1, Fun_ExistsBijSymmetric
<1>3. PICK n \in Bijection(Colls, 1..Cardinality(Colls)) : TRUE
  BY <1>2, Fun_ExistsBij
<1>4. n \in [Colls -> 1..Cardinality(Colls)] /\ \A c, d \in Colls : n[c] = n[d] => c = d
  BY <1>3, Fun_BijectionProperties
<1> QED
  BY <1>4 DEF Numbering

LEMMA CollsCounted == Cardinality(Colls) \in Objects
<1>1. Cardinality(Colls) \in Nat /\ Cardinality(Colls) # 0
  BY StoreAssumption, FS_CardinalityType, FS_EmptySet
<1> QED
  BY <1>1, StoreAssumption DEF Objects

LEMMA ResetDoneKeeps ==
  ASSUME StoreInv, NEW c \in Colls, ResetDone(c)
  PROVE  /\ StoreInv' /\ objects' = objects /\ created <= created'
         /\ objects'[current'[c]] = {} /\ disk'[c] = Dir({})
         /\ \A d \in Colls \ {c} : current'[d] = current[d] /\ disk'[d] = disk[d]
<1>1. created < MaxObjects /\ created' = created + 1 /\ created' \in Objects /\ created \in Nat
  BY StoreAssumption DEF ResetDone, NewObject, StoreInv, StoreTyped, Objects
<1>2. /\ current' = [current EXCEPT ![c] = created'] /\ objects' = objects
      /\ disk' = [disk EXCEPT ![c] = FreshDir] /\ mutex' = Nobody
  BY DEF ResetDone, NewObject
<1>3. FreshDir = Dir({}) /\ FreshDir \in Dirs /\ FreshDir.docs = {}
  BY DEF FreshDir, Dir, Dirs
<1>4. /\ current'[c] = created' /\ disk'[c] = FreshDir
      /\ \A d \in Colls \ {c} : current'[d] = current[d] /\ disk'[d] = disk[d]
  BY <1>2 DEF StoreInv, StoreTyped
<1>5. \A d \in Colls : current[d] \in 1..created
  BY DEF StoreInv, StoreTyped
<1>6. \A d \in Colls : current'[d] \in 1..created'
  BY <1>1, <1>4, <1>5
<1>7. current' \in [Colls -> 1..created']
  BY <1>2, <1>6 DEF StoreInv, StoreTyped
<1>8. disk' \in [Colls -> Dirs]
  BY <1>2, <1>3 DEF StoreInv, StoreTyped
<1>9. StoreTyped'
  BY <1>1, <1>2, <1>7, <1>8 DEF StoreInv, StoreTyped
<1>10. \A d, e \in Colls : current'[d] = current'[e] => d = e
  BY <1>1, <1>4, <1>5 DEF StoreInv
<1>11. \A o \in Objects : o > created' => objects'[o] = {}
  BY <1>1, <1>2 DEF StoreInv, Objects
<1>12. objects'[created'] = {}
  BY <1>1, <1>2 DEF StoreInv, Objects
<1>13. \A d \in Colls : UniqueIds(disk'[d].docs)
  BY <1>3, <1>4 DEF StoreInv, UniqueIds
<1>14. \A o \in Objects : UniqueIds(objects'[o])
  BY <1>2 DEF StoreInv
<1> QED
  BY <1>1, <1>2, <1>3, <1>4, <1>9, <1>10, <1>11, <1>12, <1>13, <1>14 DEF StoreInv, UniqueIds

LEMMA ResetFailsKeeps ==
  ASSUME StoreInv, NEW c \in Colls, DeleteFails(c) \/ CreateFails(c)
  PROVE  StoreInv' /\ objects' = objects /\ created' = created
<1>1. mutex' = Nobody /\ UNCHANGED <<objects, created, current>>
  BY DEF DeleteFails, CreateFails
<1>2. disk[c] \in Dirs /\ UniqueIds(disk[c].docs)
  BY DEF StoreInv, StoreTyped
<1>3. PICK dir \in Dirs : disk' = [disk EXCEPT ![c] = dir] /\ UniqueIds(dir.docs)
  <2>1. CASE DeleteFails(c)
    <3>1. PICK left \in SUBSET disk[c].docs, named \in {disk[c].meta, FALSE} :
            disk' = [disk EXCEPT ![c] = [docs |-> left, meta |-> named, torn |-> disk[c].torn]]
      BY <2>1 DEF DeleteFails
    <3>2. [docs |-> left, meta |-> named, torn |-> disk[c].torn] \in Dirs /\ UniqueIds(left)
      BY <1>2 DEF Dirs, UniqueIds
    <3> QED
      BY <3>1, <3>2
  <2>2. CASE CreateFails(c)
    <3>1. EmptyDir \in Dirs /\ UniqueIds(EmptyDir.docs)
      BY DEF EmptyDir, Dirs, UniqueIds
    <3> QED
      BY <2>2, <3>1 DEF CreateFails
  <2> QED
    BY <2>1, <2>2
<1>4. disk' \in [Colls -> Dirs] /\ \A d \in Colls : UniqueIds(disk'[d].docs)
  BY <1>3 DEF StoreInv, StoreTyped
<1> QED
  BY <1>1, <1>4 DEF StoreInv, StoreTyped

\* Adding a document to an object that exists.
LEMMA AddOneKeeps ==
  ASSUME StoreInv, NEW c \in Colls, NEW o \in 1..created, NEW d \in Docs, AddOne(o, c, d)
  PROVE  /\ StoreInv' /\ created' = created /\ current' = current
         /\ objects'[o] = Put(objects[o], d)
         /\ \A p \in Objects \ {o} : objects'[p] = objects[p]
         /\ disk'[c] = [disk[c] EXCEPT !.docs = Put(disk[c].docs, d)]
         /\ \A e \in Colls \ {c} : disk'[e] = disk[e]
         /\ \A p \in Objects : Cardinality(objects[p]) <= Cardinality(objects'[p])
<1>1. o \in Objects /\ objects[o] \in SUBSET Docs /\ disk[c] \in Dirs
      /\ UniqueIds(objects[o]) /\ UniqueIds(disk[c].docs)
  BY StoreAssumption DEF StoreInv, StoreTyped, Objects
<1>2. /\ objects' = [objects EXCEPT ![o] = Put(objects[o], d)]
      /\ disk' = [disk EXCEPT ![c] = [disk[c] EXCEPT !.docs = Put(disk[c].docs, d)]]
      /\ UNCHANGED <<created, current, mutex>>
  BY DEF AddOne
<1>3. /\ Put(objects[o], d) \in SUBSET Docs /\ UniqueIds(Put(objects[o], d))
      /\ Cardinality(objects[o]) <= Cardinality(Put(objects[o], d))
  BY <1>1, PutGrows
<1>4. Put(disk[c].docs, d) \in SUBSET Docs /\ UniqueIds(Put(disk[c].docs, d))
  BY <1>1, PutGrows DEF Dirs
<1> DEFINE dir == [disk[c] EXCEPT !.docs = Put(disk[c].docs, d)]
<1>5. dir \in Dirs /\ UniqueIds(dir.docs)
  BY <1>1, <1>4 DEF Dirs
<1> HIDE DEF dir
<1>6. disk' = [disk EXCEPT ![c] = dir]
  BY <1>2 DEF dir
<1>7. disk' \in [Colls -> Dirs] /\ disk'[c] = dir /\ \A e \in Colls \ {c} : disk'[e] = disk[e]
  BY <1>5, <1>6 DEF StoreInv, StoreTyped
<1>8. /\ objects' \in [Objects -> SUBSET Docs] /\ objects'[o] = Put(objects[o], d)
      /\ \A p \in Objects \ {o} : objects'[p] = objects[p]
  BY <1>1, <1>2, <1>3 DEF StoreInv, StoreTyped
<1>9. \A p \in Objects : p > created' => objects'[p] = {}
  BY <1>2, <1>8 DEF StoreInv, StoreTyped, Objects
<1>10. \A p \in Objects : UniqueIds(objects'[p])
  BY <1>3, <1>8 DEF StoreInv
<1>11. \A e \in Colls : UniqueIds(disk'[e].docs)
  BY <1>5, <1>7 DEF StoreInv
<1>12. StoreInv'
  BY <1>2, <1>7, <1>8, <1>9, <1>10, <1>11 DEF StoreInv, StoreTyped
<1>13. \A p \in Objects : Cardinality(objects[p]) <= Cardinality(objects'[p])
  <2> SUFFICES ASSUME NEW p \in Objects
               PROVE  Cardinality(objects[p]) <= Cardinality(objects'[p])
    OBVIOUS
  <2>1. CASE p = o
    BY <1>3, <1>8, <2>1
  <2>2. CASE p # o
    <3>1. Cardinality(objects[p]) \in Nat
      BY UniqueFinite, FS_CardinalityType DEF StoreInv, StoreTyped
    <3> QED
      BY <1>8, <2>2, <3>1
  <2> QED
    BY <2>1, <2>2
<1> QED
  BY <1>2, <1>7, <1>8, <1>12, <1>13 DEF dir

\* A kill leaves a part of what was there.
LEMMA LeftoversTyped ==
  ASSUME StoreInv, NEW c \in Colls, NEW dir \in Leftovers(c)
  PROVE  dir \in Dirs /\ UniqueIds(dir.docs)
<1>1. disk[c] \in Dirs /\ UniqueIds(disk[c].docs)
  BY DEF StoreInv, StoreTyped
<1>2. CASE dir = disk[c]
  BY <1>1, <1>2
<1>3. CASE dir \in [docs : SUBSET disk[c].docs, meta : {disk[c].meta, FALSE}, torn : {FALSE}]
  BY <1>1, <1>3 DEF Dirs, UniqueIds
<1>4. CASE dir = [disk[c] EXCEPT !.torn = TRUE]
  <2>1. dir.docs = disk[c].docs /\ dir \in Dirs
    BY <1>1, <1>4 DEF Dirs
  <2> QED
    BY <1>1, <2>1
<1> QED
  BY <1>2, <1>3, <1>4 DEF Leftovers

LEMMA CrashKeeps ==
  ASSUME StoreInv, Crash
  PROVE  StoreInv'
<1>1. UNCHANGED <<objects, created, current>> /\ mutex' = Nobody
  BY DEF Crash
<1>2. disk' \in [Colls -> UNION {Leftovers(c) : c \in Colls}]
      /\ \A c \in Colls : disk'[c] \in Leftovers(c)
  BY DEF Crash
<1>3. \A c \in Colls : disk'[c] \in Dirs /\ UniqueIds(disk'[c].docs)
  BY <1>2, LeftoversTyped
<1>4. disk' \in [Colls -> Dirs]
  BY <1>2, <1>3
<1> QED
  BY <1>1, <1>3, <1>4 DEF StoreInv, StoreTyped

LEMMA OpenKeeps ==
  ASSUME StoreInv, Open(Numbering)
  PROVE  /\ StoreInv'
         /\ ~Corrupted => \A c \in Colls :
              /\ disk'[c] = [disk[c] EXCEPT !.meta = TRUE]
              /\ objects'[current'[c]] = disk'[c].docs
<1> DEFINE n == Cardinality(Colls)
           owner(o) == CHOOSE c \in Colls : Numbering[c] = o
<1>1. /\ disk' = OpenedDisk /\ created' = n /\ current' = Numbering /\ mutex' = Nobody
      /\ objects' = [o \in Objects |-> IF \E c \in Colls : Numbering[c] = o
                                       THEN disk'[owner(o)].docs ELSE {}]
  BY DEF Open
<1>2. n \in Objects /\ n \in Nat
  BY CollsCounted DEF Objects
<1>3. ASSUME NEW c \in Colls
      PROVE  [disk[c] EXCEPT !.meta = TRUE] \in Dirs
             /\ [disk[c] EXCEPT !.meta = TRUE].docs = disk[c].docs
  <2>1. disk[c] \in Dirs
    BY DEF StoreInv, StoreTyped
  <2> QED
    BY <2>1 DEF Dirs
<1>4. FreshDir \in Dirs /\ UniqueIds(FreshDir.docs)
  BY DEF FreshDir, Dirs, UniqueIds
<1>5. disk' \in [Colls -> Dirs] /\ \A c \in Colls : UniqueIds(disk'[c].docs)
  <2>1. CASE Corrupted
    <3>1. disk' = [c \in Colls |-> FreshDir]
      BY <1>1, <2>1 DEF OpenedDisk, Wiped
    <3> QED
      BY <1>4, <3>1
  <2>2. CASE ~Corrupted
    <3>1. disk' = [c \in Colls |-> [disk[c] EXCEPT !.meta = TRUE]]
      BY <1>1, <2>2 DEF OpenedDisk
    <3>2. \A c \in Colls : disk'[c] = [disk[c] EXCEPT !.meta = TRUE]
      BY <3>1
    <3> QED
      BY <1>3, <3>1, <3>2 DEF StoreInv
  <2> QED
    BY <2>1, <2>2
<1>6. \A c \in Colls : disk'[c].docs \in SUBSET Docs
  BY <1>5 DEF Dirs
<1>7. ASSUME NEW c \in Colls
      PROVE  Numbering[c] \in 1..n /\ Numbering[c] \in Objects /\ owner(Numbering[c]) = c
  <2>1. Numbering[c] \in 1..n
    BY NumberingIsInjective
  <2>2. Numbering[c] \in Objects
    BY <1>2, <2>1, StoreAssumption DEF Objects
  <2>3. owner(Numbering[c]) \in Colls /\ Numbering[owner(Numbering[c])] = Numbering[c]
    OBVIOUS
  <2> QED
    BY <2>1, <2>2, <2>3, NumberingIsInjective
<1>8. \A o \in Objects : (\E c \in Colls : Numbering[c] = o) => owner(o) \in Colls
  OBVIOUS
<1> HIDE DEF n, owner
<1>9. \A c \in Colls : objects'[current'[c]] = disk'[c].docs
  BY <1>1, <1>7
<1>10. \A o \in Objects : objects'[o] \in SUBSET Docs /\ UniqueIds(objects'[o])
  BY <1>1, <1>5, <1>6, <1>8 DEF UniqueIds
<1>11. \A o \in Objects : o > created' => objects'[o] = {}
  <2> SUFFICES ASSUME NEW o \in Objects, o > n, NEW c \in Colls, Numbering[c] = o
               PROVE  FALSE
    BY <1>1
  <2> QED
    BY <1>2, <1>7 DEF Objects
<1>12. objects' \in [Objects -> SUBSET Docs] /\ current' \in [Colls -> 1..created']
  BY <1>1, <1>10, NumberingIsInjective DEF n
<1>13. StoreInv'
  BY <1>1, <1>2, <1>5, <1>10, <1>11, <1>12, NumberingIsInjective DEF StoreInv, StoreTyped
<1>14. ~Corrupted => \A c \in Colls : disk'[c] = [disk[c] EXCEPT !.meta = TRUE]
  BY <1>1 DEF OpenedDisk
<1> QED
  BY <1>9, <1>13, <1>14

-----------------------------------------------------------------------------
(* The store, the world and the work keep their types.                     *)

Typed == StoreInv /\ WorldTyped /\ WorkInv

Grows == \A o \in Objects : Cardinality(objects[o]) <= Cardinality(objects'[o])

LEMMA StoreUnchanged ==
  ASSUME StoreInv, UNCHANGED storeVars
  PROVE  StoreInv' /\ Grows /\ created' = created
<1>1. UNCHANGED <<objects, created, current, disk, mutex>>
  BY DEF storeVars
<1>2. \A o \in Objects : Cardinality(objects[o]) \in Nat
  BY UniqueFinite, FS_CardinalityType DEF StoreInv, StoreTyped
<1> QED
  BY <1>1, <1>2 DEF StoreInv, StoreTyped, Grows

LEMMA SameObjectsGrow ==
  ASSUME StoreInv, objects' = objects
  PROVE  Grows
<1>1. \A o \in Objects : Cardinality(objects[o]) \in Nat
  BY UniqueFinite, FS_CardinalityType DEF StoreInv, StoreTyped
<1> QED
  BY <1>1 DEF Grows

LEMMA WorkKept ==
  ASSUME WorkInv, NEW u \in Updaters, Moves(u), Place(u)',
         up' = up, search' = search,
         created \in Nat, created' \in Nat, created <= created'
  PROVE  WorkInv'
<1>1. ASSUME NEW v \in Updaters PROVE Place(v)'
  <2>1. CASE v = u
    BY <2>1
  <2>2. CASE v # u
    <3>1. update'[v] = update[v] /\ Place(v)
      BY <2>2 DEF Moves, WorkInv
    <3> QED
      BY <3>1 DEF Place
  <2> QED
    BY <2>1, <2>2
<1> QED
  BY <1>1 DEF WorkInv, Moves

LEMMA OrderNotEmpty == Len(Order) \in Nat /\ 1 <= Len(Order)
<1>1. PICK c \in Colls : TRUE
  BY StoreAssumption
<1>2. PICK i \in DOMAIN Order : Order[i] = c
  BY OrderAssumption
<1> QED
  BY <1>2, OrderAssumption

\* Nothing an ingestion does disturbs a search: it leaves objects as they are or adds to them.
LEMMA IngestTyped ==
  ASSUME Typed, NEW u \in Updaters, Ingest(u)
  PROVE  Typed' /\ Grows /\ search' = search /\ up' = up
<1> USE DEF Typed
<1>1. /\ created \in Nat /\ Place(u) /\ update[u] \in UpdateStates
      /\ up' = up /\ search' = search /\ upstream' = upstream /\ wiped' \in {wiped, FALSE}
      /\ up
  <2>1. created \in Nat /\ Place(u) /\ update[u] \in UpdateStates
    BY DEF StoreInv, StoreTyped, Objects, WorkInv
  <2>2. CASE Clone(u) \/ Load(u) \/ StartReset(u) \/ EndReset(u)
    BY <2>1, <2>2 DEF Clone, Load, StartReset, EndReset, worldVars, historyVars, At
  <2>3. CASE StartAdd(u) \/ AddNext(u) \/ EndAdd(u)
    BY <2>1, <2>3 DEF StartAdd, AddNext, EndAdd, worldVars, historyVars, At
  <2>4. CASE Save(u) \/ SaveFails(u)
    BY <2>1, <2>4 DEF Save, SaveFails, worldVars, historyVars, At
  <2> QED
    BY <2>2, <2>3, <2>4 DEF Ingest
<1>2. CASE Clone(u)
  <2>1. UNCHANGED storeVars /\ update[u].at = "cloning" /\ UNCHANGED <<meta, historyVars>>
    BY <1>2 DEF Clone, At
  <2>2. StoreInv' /\ Grows /\ created' = created
    BY <2>1, StoreUnchanged
  <2>3. Moves(u) /\ update'[u].at = "loading" /\ update'[u].todo = {} /\ clone' \in Clones
    BY <1>1, <1>2, <2>1, CloneMoves DEF Place
  <2>4. Place(u)'
    BY <1>1, <2>3 DEF Place, WithColl
  <2>5. WorkInv'
    BY <1>1, <2>2, <2>3, <2>4, WorkKept
  <2> QED
    BY <1>1, <2>1, <2>2, <2>3, <2>5 DEF WorldTyped, historyVars
<1>3. CASE Load(u)
  <2>1. UNCHANGED storeVars /\ update[u].at = "loading" /\ UNCHANGED <<worldVars, historyVars>>
    BY <1>3 DEF Load, At
  <2>2. StoreInv' /\ Grows /\ created' = created
    BY <2>1, StoreUnchanged
  <2>3. Moves(u) /\ update'[u].at = "resetting" /\ update'[u].next = 1 /\ update'[u].todo = {}
    BY <1>1, <1>3, <2>1, LoadMoves DEF Place
  <2>4. Place(u)'
    BY <1>1, <2>3, OrderNotEmpty DEF Place
  <2>5. WorkInv'
    BY <1>1, <2>2, <2>3, <2>4, WorkKept
  <2> QED
    BY <1>1, <2>1, <2>2, <2>5 DEF WorldTyped, worldVars, historyVars
<1>4. CASE StartReset(u)
  <2>1. /\ update[u].at = "resetting" /\ UNCHANGED <<worldVars, wiped>> /\ trusted' = FALSE
        /\ mutex' = u /\ UNCHANGED <<objects, created, current, disk>>
        /\ update' = [update EXCEPT ![u].at = "inReset"]
    BY <1>4 DEF StartReset, ResetBegin, At
  <2>2. StoreInv' /\ Grows
    BY <2>1, SameObjectsGrow DEF StoreInv, StoreTyped
  <2>3. Steps(u, "inReset", update[u].mishap)
    BY <2>1, StepMoves
  <2>4. Place(u)'
    BY <1>1, <2>1, <2>3 DEF Place, WithColl, Steps
  <2>5. WorkInv'
    BY <1>1, <2>1, <2>3, <2>4, WorkKept DEF Steps
  <2> QED
    BY <1>1, <2>1, <2>2, <2>5 DEF WorldTyped, worldVars
<1>5. CASE EndReset(u)
  <2>1. update[u].at = "inReset" /\ UNCHANGED <<worldVars, historyVars>>
    BY <1>5 DEF EndReset, At
  <2>2. Coll(u) \in Colls
    BY <2>1, CollIsColl DEF WithColl
  <2>3. ResetDone(Coll(u)) \/ DeleteFails(Coll(u)) \/ CreateFails(Coll(u))
    BY <1>5 DEF EndReset
  <2>4. StoreInv' /\ objects' = objects /\ created <= created'
    BY <1>1, <2>2, <2>3, ResetDoneKeeps, ResetFailsKeeps
  <2>5. PICK mishap : Steps(u, "adding", mishap)
    BY <1>5, EndResetMoves
  <2>6. Place(u)'
    BY <1>1, <2>1, <2>5 DEF Place, WithColl, Steps
  <2>7. created' \in Nat
    BY <2>4 DEF StoreInv, StoreTyped, Objects
  <2>8. WorkInv'
    BY <1>1, <2>4, <2>5, <2>6, <2>7, WorkKept DEF Steps
  <2> QED
    BY <1>1, <2>1, <2>4, <2>8, SameObjectsGrow DEF WorldTyped, worldVars, historyVars
<1>6. CASE StartAdd(u)
  <2>1. UNCHANGED storeVars /\ update[u].at = "adding" /\ UNCHANGED <<worldVars, historyVars>>
    BY <1>6 DEF StartAdd, At
  <2>2. StoreInv' /\ Grows /\ created' = created
    BY <2>1, StoreUnchanged
  <2>3. /\ Moves(u) /\ update'[u].at = "embedding" /\ update'[u].object \in 1..created
        /\ update'[u].next = update[u].next
    BY <1>6, StartAddMoves
  <2>4. Place(u)'
    BY <1>1, <2>1, <2>2, <2>3 DEF Place, WithColl
  <2>5. WorkInv'
    BY <1>1, <2>2, <2>3, <2>4, WorkKept
  <2> QED
    BY <1>1, <2>1, <2>2, <2>5 DEF WorldTyped, worldVars, historyVars
<1>7. CASE AddNext(u)
  <2>1. update[u].at = "embedding" /\ UNCHANGED <<worldVars, historyVars>>
    BY <1>7 DEF AddNext, At
  <2>2. Coll(u) \in Colls /\ update[u].object \in 1..created
    BY <1>1, <2>1, CollIsColl DEF WithColl, Place
  <2>3. PICK d \in update[u].todo : AddOne(update[u].object, Coll(u), d)
                                    /\ update' = [update EXCEPT ![u].todo = @ \ {d}]
    BY <1>7 DEF AddNext
  <2>4. d \in Docs
    BY <1>1, <2>3 DEF UpdateStates
  <2>5. StoreInv' /\ Grows /\ created' = created
    BY <2>2, <2>3, <2>4, AddOneKeeps DEF Grows
  <2>6. /\ Moves(u) /\ update'[u].at = update[u].at /\ update'[u].object = update[u].object
        /\ update'[u].next = update[u].next
    BY <2>3, AddNextMoves
  <2>7. Place(u)'
    BY <1>1, <2>1, <2>5, <2>6 DEF Place, WithColl
  <2>8. WorkInv'
    BY <1>1, <2>5, <2>6, <2>7, WorkKept
  <2> QED
    BY <1>1, <2>1, <2>5, <2>8 DEF WorldTyped, worldVars, historyVars
<1>8. CASE EndAdd(u)
  <2>1. UNCHANGED storeVars /\ update[u].at = "embedding" /\ UNCHANGED <<worldVars, historyVars>>
    BY <1>8 DEF EndAdd, At
  <2>2. StoreInv' /\ Grows /\ created' = created
    BY <2>1, StoreUnchanged
  <2>3. /\ Moves(u) /\ update'[u].at = Advance(u) /\ update'[u].next = update[u].next + 1
        /\ update'[u].todo = {}
    BY <1>8, EndAddMoves
  <2>4. update[u].next \in Nat
    BY <1>1 DEF UpdateStates
  <2>5. Place(u)'
    BY <1>1, <2>3, <2>4, OrderNotEmpty DEF Place, WithColl, Advance
  <2>6. WorkInv'
    BY <1>1, <2>2, <2>3, <2>5, WorkKept
  <2> QED
    BY <1>1, <2>1, <2>2, <2>6 DEF WorldTyped, worldVars, historyVars
<1>9. CASE Save(u) \/ SaveFails(u)
  <2>1. UNCHANGED storeVars /\ clone' = clone
    BY <1>9 DEF Save, SaveFails
  <2>2. StoreInv' /\ Grows /\ created' = created
    BY <2>1, StoreUnchanged
  <2>3. Moves(u) /\ update'[u].at = "idle" /\ update'[u].todo = {}
    BY <1>9, SaveMoves
  <2>4. Place(u)'
    BY <1>1, <2>3 DEF Place, WithColl
  <2>5. WorkInv'
    BY <1>1, <2>2, <2>3, <2>4, WorkKept
  <2>6. meta' \in Commits \cup {Absent, NoCommit, Torn} /\ trusted' \in BOOLEAN
    BY <1>1, <1>9 DEF Save, SaveFails, WorldTyped, UpdateStates, historyVars
  <2> QED
    BY <1>1, <2>1, <2>2, <2>5, <2>6 DEF WorldTyped
<1> QED
  BY <1>2, <1>3, <1>4, <1>5, <1>6, <1>7, <1>8, <1>9 DEF Ingest

LEMMA BeginTyped ==
  ASSUME Typed, NEW u \in Updaters, Begin(u)
  PROVE  Typed' /\ Grows /\ search' = search
<1> USE DEF Typed
<1>1. UNCHANGED <<storeVars, search, worldVars, wiped, trusted>> /\ up
  BY DEF Begin, At
<1>2. StoreInv' /\ Grows /\ created' = created
  BY <1>1, StoreUnchanged
<1>3. ASSUME NEW v \in Updaters PROVE Place(v)'
  <2>1. CASE v = u
    BY <1>1, <2>1, BeginMoves DEF Place, WithColl, worldVars
  <2>2. CASE v # u
    BY <1>1, <1>2, <2>2, BeginMoves DEF Place, WithColl, worldVars, WorkInv
  <2> QED
    BY <2>1, <2>2
<1>4. update' \in [Updaters -> UpdateStates]
  BY BeginMoves
<1>5. WorkInv'
  BY <1>1, <1>3, <1>4 DEF WorkInv, worldVars
<1> QED
  BY <1>1, <1>2, <1>5 DEF WorldTyped, worldVars

\* The minimum of two numbers is one of them.
LEMMA MinOfTwo ==
  ASSUME NEW a \in Nat, NEW b \in Nat
  PROVE  Min({a, b}) \in Nat /\ Min({a, b}) <= b
<1>1. \E x \in {a, b} : \A y \in {a, b} : x <= y
  BY a <= b \/ b <= a
<1> QED
  BY <1>1 DEF Min

LEMMA SearchStepTyped ==
  ASSUME Typed, NeverOverAsks, NEW s \in Searchers, SearchStep(s)
  PROVE  Typed' /\ NeverOverAsks'
<1> USE DEF Typed
<1>1. UNCHANGED storeVars /\ UNCHANGED <<worldVars, update, historyVars>> /\ up
  BY DEF SearchStep, Search, SearchStart, SearchCount, SearchQuery
<1>2. StoreInv' /\ objects' = objects /\ created' = created
  BY <1>1, StoreUnchanged DEF storeVars
<1>3. search[s] \in SearchStates
  BY DEF WorkInv
<1>4. \E r \in SearchStates :
        /\ search' = [search EXCEPT ![s] = r]
        /\ r.at # "idle" => r.object \in Objects
        /\ r.at = "querying" => r.wanted <= Cardinality(objects[r.object])
  <2>1. CASE \E c \in Colls : SearchStart(s, c)
    <3>1. PICK c \in Colls : SearchStart(s, c)
      BY <2>1
    <3>2. current[c] \in Objects /\ current[c] \in 0..MaxObjects
      BY StoreAssumption DEF StoreInv, StoreTyped, Objects
    <3> DEFINE r == [at |-> "counting", object |-> current[c], wanted |-> 0]
    <3>3. r \in SearchStates /\ r.object \in Objects /\ r.at = "counting"
      BY <3>2 DEF SearchStates
    <3>4. search' = [search EXCEPT ![s] = r]
      BY <3>1 DEF SearchStart
    <3> HIDE DEF r
    <3> QED
      BY <3>3, <3>4
  <2>2. CASE SearchCount(s)
    <3> DEFINE count == Cardinality(objects[search[s].object])
               r == [search[s] EXCEPT !.at = "querying", !.wanted = Min({TopK, count})]
    <3>1. search[s].object \in Objects /\ search[s].at # "idle"
      BY <2>2 DEF SearchCount, WorkInv
    <3>2. count \in Nat
      BY <3>1, UniqueFinite, FS_CardinalityType DEF StoreInv, StoreTyped
    <3>3. Min({TopK, count}) \in Nat /\ Min({TopK, count}) <= count
      BY <3>2, MinOfTwo, StoreAssumption
    <3>4. search' = [search EXCEPT ![s] = IF count = 0 THEN Idle ELSE r]
      BY <2>2 DEF SearchCount
    <3>5. Idle \in SearchStates /\ Idle.at = "idle"
      BY StoreAssumption DEF Idle, SearchStates
    <3>6. /\ r \in SearchStates /\ r.object = search[s].object
          /\ r.wanted = Min({TopK, count})
      <4> HIDE DEF count
      <4> QED
        BY <1>3, <3>3 DEF SearchStates
    <3> HIDE DEF r
    <3> QED
      BY <3>1, <3>3, <3>4, <3>5, <3>6
  <2>3. CASE SearchQuery(s)
    <3>1. Idle \in SearchStates /\ Idle.at = "idle"
      BY StoreAssumption DEF Idle, SearchStates
    <3> QED
      BY <2>3, <3>1 DEF SearchQuery
  <2> QED
    BY <2>1, <2>2, <2>3 DEF SearchStep, Search
<1>5. PICK r \in SearchStates :
        /\ search' = [search EXCEPT ![s] = r]
        /\ r.at # "idle" => r.object \in Objects
        /\ r.at = "querying" => r.wanted <= Cardinality(objects[r.object])
  BY <1>4
<1>6. search' \in [Searchers -> SearchStates] /\ search'[s] = r
      /\ \A t \in Searchers \ {s} : search'[t] = search[t]
  BY <1>5 DEF WorkInv
<1>7. up' = up /\ update' = update
  BY <1>1 DEF worldVars
<1>8. WorkInv'
  BY <1>1, <1>2, <1>5, <1>6, <1>7 DEF WorkInv, Place
<1>9. NeverOverAsks'
  BY <1>2, <1>5, <1>6 DEF NeverOverAsks
<1> QED
  BY <1>1, <1>2, <1>8, <1>9 DEF WorldTyped, worldVars, historyVars

LEMMA CrashTyped ==
  ASSUME Typed, Crash
  PROVE  Typed' /\ search' = [s \in Searchers |-> Idle]
<1> USE DEF Typed
<1>1. /\ up' = FALSE /\ update' = [u \in Updaters |-> Resting]
      /\ search' = [s \in Searchers |-> Idle]
      /\ UNCHANGED <<upstream, clone, wiped, trusted>> /\ meta' \in {meta, Torn}
  BY DEF Crash
<1>2. StoreInv'
  BY CrashKeeps
<1>3. Idle \in SearchStates /\ Idle.at = "idle"
  BY StoreAssumption DEF Idle, SearchStates
<1>4. WorkInv'
  BY <1>1, <1>3, RestingTyped DEF WorkInv, Place, WithColl
<1> QED
  BY <1>1, <1>2, <1>4 DEF WorldTyped

LEMMA RestartTyped ==
  ASSUME Typed, Restart
  PROVE  Typed' /\ search' = [s \in Searchers |-> Idle]
<1> USE DEF Typed
<1>1. /\ ~up /\ up' = TRUE /\ UNCHANGED <<upstream, update>>
      /\ search' = [s \in Searchers |-> Idle] /\ Open(Numbering)
      /\ clone' = clone /\ meta' = meta
      /\ wiped' \in BOOLEAN /\ trusted' \in BOOLEAN
  BY DEF Restart, Open
<1>2. StoreInv'
  BY <1>1, OpenKeeps
<1>3. Idle \in SearchStates /\ Idle.at = "idle"
  BY StoreAssumption DEF Idle, SearchStates
<1>4. \A u \in Updaters : update[u].at = "idle" /\ update[u].todo = {}
  BY <1>1 DEF WorkInv, Place
<1>5. WorkInv'
  BY <1>1, <1>3, <1>4 DEF WorkInv, Place, WithColl
<1> QED
  BY <1>1, <1>2, <1>5 DEF WorldTyped

LEMMA PublishTyped ==
  ASSUME Typed, Publish
  PROVE  Typed' /\ Grows /\ search' = search
<1> USE DEF Typed
<1>1. UNCHANGED <<storeVars, search, up, clone, meta, update, historyVars>>
      /\ upstream' = upstream + 1 /\ upstream < MaxVersion
  BY DEF Publish
<1>2. StoreInv' /\ Grows /\ created' = created
  BY <1>1, StoreUnchanged
<1>3. upstream' \in Commits
  BY <1>1, IngestAssumption DEF WorldTyped, Commits
<1>4. WorkInv'
  BY <1>1, <1>2 DEF WorkInv, Place
<1> QED
  BY <1>1, <1>2, <1>3, <1>4 DEF WorldTyped, historyVars

LEMMA StutterTyped ==
  ASSUME Typed, UNCHANGED vars
  PROVE  Typed' /\ Grows /\ search' = search
<1> USE DEF Typed
<1>1. UNCHANGED <<storeVars, search, worldVars, update, historyVars>>
  BY DEF vars
<1>2. StoreInv' /\ Grows /\ created' = created
  BY <1>1, StoreUnchanged
<1>3. WorkInv'
  BY <1>1, <1>2 DEF WorkInv, Place, worldVars
<1> QED
  BY <1>1, <1>2, <1>3 DEF WorldTyped, worldVars, historyVars

\* The objects a search reads from only grow, or the process is started again.
LEMMA GrowingKeepsAsks ==
  ASSUME Typed, Typed', NeverOverAsks, Grows, search' = search
  PROVE  NeverOverAsks'
<1> SUFFICES ASSUME NEW s \in Searchers, search[s].at = "querying"
             PROVE  search[s].wanted <= Cardinality(objects'[search[s].object])
  BY DEF NeverOverAsks
<1>1. search[s].object \in Objects /\ search[s].wanted \in Nat
  BY DEF Typed, WorkInv, SearchStates
<1>2. Cardinality(objects[search[s].object]) \in Nat
      /\ Cardinality(objects'[search[s].object]) \in Nat
  BY <1>1, UniqueFinite, FS_CardinalityType DEF Typed, StoreInv, StoreTyped
<1> QED
  BY <1>1, <1>2 DEF NeverOverAsks, Grows

LEMMA NextTyped == Typed /\ NeverOverAsks /\ [Next]_vars => Typed' /\ NeverOverAsks'
<1> SUFFICES ASSUME Typed, NeverOverAsks, [Next]_vars PROVE Typed' /\ NeverOverAsks'
  OBVIOUS
<1>1. CASE \E u \in Updaters : Begin(u) \/ Ingest(u)
  BY <1>1, BeginTyped, IngestTyped, GrowingKeepsAsks
<1>2. CASE \E s \in Searchers : SearchStep(s)
  BY <1>2, SearchStepTyped
<1>3. CASE Publish \/ Quiet \/ UNCHANGED vars
  BY <1>3, PublishTyped, StutterTyped, GrowingKeepsAsks DEF Quiet
<1>4. CASE Crash \/ Restart
  <2>1. Typed' /\ search' = [s \in Searchers |-> Idle]
    BY <1>4, CrashTyped, RestartTyped
  <2> QED
    BY <2>1 DEF NeverOverAsks, Idle
<1> QED
  BY <1>1, <1>2, <1>3, <1>4 DEF Next

LEMMA InitTyped == Init => Typed /\ NeverOverAsks
<1> SUFFICES ASSUME Init PROVE Typed /\ NeverOverAsks
  OBVIOUS
<1>1. FreshDir \in Dirs /\ FreshDir.docs = {}
  BY DEF FreshDir, Dirs
<1>2. StoreInv
  <2>1. created \in Objects /\ current \in [Colls -> 1..created]
        /\ \A c, d \in Colls : current[c] = current[d] => c = d
    BY CollsCounted, NumberingIsInjective DEF Init
  <2>2. objects = [o \in Objects |-> {}] /\ disk = [c \in Colls |-> FreshDir] /\ mutex = Nobody
    BY DEF Init
  <2> QED
    BY <1>1, <2>1, <2>2 DEF StoreInv, StoreTyped, UniqueIds
<1>3. NoClone \in Clones
  BY DEF NoClone, Clones
<1>4. WorldTyped
  <2>1. 1 \in Commits
    BY IngestAssumption DEF Commits
  <2>2. /\ up = TRUE /\ upstream = 1 /\ clone = NoClone /\ meta = Absent
        /\ wiped = FALSE /\ trusted = FALSE
    BY DEF Init
  <2> QED
    BY <1>3, <2>1, <2>2 DEF WorldTyped
<1>5. Idle \in SearchStates /\ Idle.at = "idle"
  BY StoreAssumption DEF Idle, SearchStates
<1>6. WorkInv
  BY <1>5, RestingTyped DEF Init, WorkInv, Place, WithColl
<1> QED
  BY <1>2, <1>4, <1>5, <1>6 DEF Typed, Init, NeverOverAsks

-----------------------------------------------------------------------------
(* The record is never ahead.                                              *)

LEMMA MarksAreNoCommits ==
  /\ Absent \notin Commits /\ NoCommit \notin Commits /\ Torn \notin Commits
  /\ Commits \subseteq Nat
BY MarksAssumption, IngestAssumption DEF Commits

LEMMA CloneHead ==
  ASSUME WorldTyped, NEW c \in Cloned
  PROVE  c.head \in {Absent, upstream, clone.head}
<1>1. NoClone.head = Absent /\ CloneAt(upstream).head = upstream
  BY DEF NoClone, CloneAt
<1>2. CASE ~clone.there
  <2>1. \/ c \in {NoClone, CloneAt(upstream)}
        \/ c \in [there : {TRUE}, head : {Absent, upstream}, whole : {FALSE}]
    BY <1>2 DEF Cloned
  <2> QED
    BY <1>1, <2>1
<1>3. CASE clone.there
  <2>1. c \in {clone, [clone EXCEPT !.head = upstream], [clone EXCEPT !.whole = FALSE]}
    BY <1>3 DEF Cloned
  <2> QED
    BY <2>1 DEF WorldTyped, Clones
<1> QED
  BY <1>2, <1>3 DEF WorldTyped, Clones

LEMMA IngestRecord ==
  ASSUME Typed, RecordInv, NEW u \in Updaters, Ingest(u)
  PROVE  RecordInv'
<1> USE DEF Typed
<1>1. upstream \in Commits /\ clone \in Clones
  BY DEF WorldTyped
<1>2. CASE Clone(u)
  <2>1. UNCHANGED <<upstream, meta>>
    BY <1>2 DEF Clone
  <2>2. clone'.head \in {Absent, upstream, clone.head}
    BY <1>2, CloneHead DEF Clone
  <2>3. Moves(u) /\ update'[u].commit \in {Absent, clone'.head}
    BY <1>2, CloneMoves
  <2>5. /\ clone'.head \in Commits => clone'.head <= upstream'
        /\ meta' \in Commits => meta' <= upstream'
        /\ meta' \in Commits /\ clone'.head \in Commits => meta' <= clone'.head
    BY <1>1, <2>1, <2>2, MarksAreNoCommits DEF RecordInv
  <2>4. ASSUME NEW v \in Updaters, update'[v].commit \in Commits
        PROVE  /\ update'[v].commit <= upstream'
               /\ clone'.head \in Commits => update'[v].commit <= clone'.head
    <3>1. CASE v = u
      <4>1. update'[v].commit = clone'.head
        BY <2>3, <2>4, <3>1, MarksAreNoCommits
      <4>2. clone'.head \in Nat
        BY <2>4, <4>1, MarksAreNoCommits
      <4> QED
        BY <2>4, <2>5, <4>1, <4>2
    <3>2. CASE v # u
      <4>1. update'[v] = update[v]
        BY <2>3, <3>2 DEF Moves
      <4> QED
        BY <1>1, <2>1, <2>2, <2>4, <4>1, MarksAreNoCommits DEF RecordInv
    <3> QED
      BY <3>1, <3>2
  <2> QED
    BY <2>4, <2>5 DEF RecordInv
<1>3. CASE Load(u) \/ StartReset(u) \/ EndReset(u) \/ StartAdd(u) \/ AddNext(u) \/ EndAdd(u)
  <2>1. UNCHANGED worldVars
    BY <1>3 DEF Load, StartReset, EndReset, StartAdd, AddNext, EndAdd
  <2>2. \A v \in Updaters : update'[v].commit = update[v].commit
    <3>1. CASE Load(u)
      <4>1. Moves(u) /\ update'[u].commit = update[u].commit
        BY <3>1, LoadMoves
      <4> QED
        BY <4>1 DEF Moves
    <3>5. CASE StartAdd(u) \/ EndAdd(u)
      BY <3>5, StartAddMoves, EndAddMoves DEF Moves
    <3>2. CASE StartReset(u)
      BY <3>2, StepMoves DEF Moves, Steps, StartReset
    <3>3. CASE EndReset(u)
      BY <3>3, EndResetMoves DEF Moves, Steps
    <3>4. CASE AddNext(u)
      BY <3>4, AddNextMoves DEF Moves, AddNext
    <3> QED
      BY <1>3, <3>1, <3>2, <3>3, <3>4, <3>5
  <2> QED
    BY <2>1, <2>2 DEF RecordInv, worldVars
<1>4. CASE Save(u) \/ SaveFails(u)
  <2>1. UNCHANGED <<upstream, clone>>
    BY <1>4 DEF Save, SaveFails
  <2>2. Moves(u) /\ update'[u].commit = Absent
    BY <1>4, SaveMoves
  <2>3. \A v \in Updaters : update'[v].commit \in {Absent, update[v].commit}
    BY <2>2 DEF Moves
  <2>4. meta' \in {update[u].commit, NoCommit, meta, Torn}
    BY <1>4 DEF Save, SaveFails
  <2> QED
    BY <2>1, <2>3, <2>4, MarksAreNoCommits DEF RecordInv
<1> QED
  BY <1>2, <1>3, <1>4 DEF Ingest

LEMMA NextRecord == Typed /\ RecordInv /\ [Next]_vars => RecordInv'
<1> SUFFICES ASSUME Typed, RecordInv, [Next]_vars PROVE RecordInv'
  OBVIOUS
<1> USE DEF Typed
<1>1. ASSUME NEW u \in Updaters, Begin(u) PROVE RecordInv'
  <2>1. UNCHANGED worldVars
    BY <1>1 DEF Begin
  <2>2. \A v \in Updaters : update'[v].commit \in {Absent, update[v].commit}
    BY <1>1, BeginMoves
  <2> QED
    BY <2>1, <2>2, MarksAreNoCommits DEF RecordInv, worldVars
<1>2. CASE (\E s \in Searchers : SearchStep(s)) \/ Quiet \/ UNCHANGED vars
  BY <1>2 DEF SearchStep, Quiet, vars, worldVars, historyVars, RecordInv
<1>3. CASE Publish
  <2>1. /\ UNCHANGED <<clone, meta, update>> /\ upstream' = upstream + 1
        /\ upstream \in Nat
    BY <1>3, MarksAreNoCommits DEF Publish, WorldTyped
  <2>2. \A n \in Commits : n <= upstream => n <= upstream'
    BY <2>1, MarksAreNoCommits
  <2> QED
    BY <2>1, <2>2 DEF RecordInv
<1>4. CASE Crash
  <2>1. UNCHANGED <<upstream, clone>> /\ meta' \in {meta, Torn}
        /\ update' = [u \in Updaters |-> Resting]
    BY <1>4 DEF Crash
  <2> QED
    BY <2>1, RestingTyped, MarksAreNoCommits DEF RecordInv
<1>5. CASE Restart
  <2>1. UNCHANGED <<upstream, clone, meta, update>>
    BY <1>5 DEF Restart
  <2> QED
    BY <2>1 DEF RecordInv
<1> QED
  BY <1>1, <1>2, <1>3, <1>4, <1>5, IngestRecord DEF Next

-----------------------------------------------------------------------------
(* No document is newer than the clone it was made from.                   *)

LEMMA EmptyIsBehind == Behind({})
BY DEF Behind

\* A clone that is whole after cloning is at the commit of the remote, or was whole and stayed.
LEMMA CloneBehind ==
  ASSUME WorldTyped, RecordInv, DocsInv, clone' \in Cloned, clone' \in Clones, upstream' = upstream
  PROVE  /\ clone'.whole => clone'.head \in Commits
         /\ \A docs \in SUBSET Docs : Behind(docs) => Behind(docs)'
<1>1. upstream \in Commits /\ clone \in Clones
  BY DEF WorldTyped
<1>2. clone'.whole => \/ clone'.head = upstream
                      \/ clone.whole /\ clone'.head = clone.head
  <2>1. CASE ~clone.there
    <3>1. \/ clone' \in {NoClone, CloneAt(upstream)}
          \/ clone' \in [there : {TRUE}, head : {Absent, upstream}, whole : {FALSE}]
      BY <2>1 DEF Cloned
    <3>2. ~NoClone.whole /\ CloneAt(upstream).head = upstream
      BY DEF NoClone, CloneAt
    <3> QED
      BY <3>1, <3>2
  <2>2. CASE clone.there
    <3>1. clone' \in {clone, [clone EXCEPT !.head = upstream], [clone EXCEPT !.whole = FALSE]}
      BY <2>2 DEF Cloned
    <3> QED
      BY <1>1, <3>1 DEF Clones
  <2> QED
    BY <2>1, <2>2
<1>3. clone'.whole => clone'.head \in Commits
  BY <1>1, <1>2 DEF DocsInv
<1>4. ASSUME NEW docs \in SUBSET Docs, Behind(docs) PROVE Behind(docs)'
  BY <1>2, <1>4 DEF Behind
<1> QED
  BY <1>3, <1>4

\* What is loaded was made from the clone as it is.
LEMMA LoadBehind ==
  ASSUME WorldTyped, RecordInv, DocsInv, NEW c \in Colls, NEW docs \in Readings(c) \cup {{}}
  PROVE  Behind(docs)
<1>1. upstream \in Nat /\ 0 <= upstream
  BY MarksAreNoCommits DEF WorldTyped
<1>2. clone.whole => /\ clone.head \in Nat /\ 0 <= clone.head
                     /\ clone.head <= upstream
  BY IngestAssumption DEF DocsInv, RecordInv, Commits
<1>3. CASE docs = {}
  BY <1>3, EmptyIsBehind
<1>4. CASE docs = Full(0)
  BY <1>1, <1>2, <1>4 DEF Full, Behind
<1>5. CASE clone.whole /\ docs = Full(clone.head)
  BY <1>1, <1>2, <1>5 DEF Full, Behind
<1>6. CASE ~clone.whole /\ docs \in Fragments
  <2>1. \A d \in docs : d.version <= upstream
    BY <1>1, <1>6 DEF Fragments
  <2> QED
    BY <1>6, <2>1 DEF Behind
<1> QED
  BY <1>3, <1>4, <1>5, <1>6 DEF Readings

\* The parts of DocsInv that speak of the store, and of the ingestions.
StoredBehind ==
  /\ \A o \in Objects : Behind(objects[o])
  /\ \A c \in Colls : Behind(disk[c].docs)

Holds(u) == /\ Behind(update[u].todo)
            /\ \A c \in Colls : Behind(update[u].loaded[c])

LEMMA StillStored ==
  ASSUME DocsInv, UNCHANGED <<objects, disk, upstream, clone>>
  PROVE  StoredBehind'
BY DEF DocsInv, StoredBehind, Behind

LEMMA OthersHold ==
  ASSUME DocsInv, NEW u \in Updaters, Moves(u), UNCHANGED <<upstream, clone>>,
         NEW v \in Updaters \ {u}
  PROVE  Holds(v)'
<1>1. update'[v] = update[v] /\ Holds(v)
  BY DEF Moves, DocsInv, Holds
<1> QED
  BY <1>1 DEF Holds, Behind

LEMMA KeepsLoaded ==
  ASSUME DocsInv, NEW u \in Updaters, UNCHANGED <<upstream, clone>>,
         update'[u].loaded = update[u].loaded, Behind(update[u].todo)'
  PROVE  Holds(u)'
<1>1. \A c \in Colls : Behind(update[u].loaded[c])
  BY DEF DocsInv
<1> QED
  BY <1>1 DEF Holds, Behind

LEMMA DocsByParts ==
  ASSUME DocsInv, UNCHANGED clone, StoredBehind', \A u \in Updaters : Holds(u)'
  PROVE  DocsInv'
BY DEF DocsInv, StoredBehind, Holds

LEMMA IngestDocs ==
  ASSUME Typed, RecordInv, DocsInv, NEW u \in Updaters, Ingest(u)
  PROVE  DocsInv'
<1> USE DEF Typed
<1>1. CASE Clone(u)
  <2>1. UNCHANGED <<objects, disk, upstream>>
    BY <1>1 DEF Clone, storeVars
  <2>2. /\ clone' \in Cloned /\ clone' \in Clones /\ Moves(u)
        /\ update'[u].todo = update[u].todo /\ update'[u].loaded = update[u].loaded
    BY <1>1, CloneMoves
  <2>3. /\ clone'.whole => clone'.head \in Commits
        /\ \A docs \in SUBSET Docs : Behind(docs) => Behind(docs)'
    BY <2>1, <2>2, CloneBehind
  <2>4. StoredBehind'
    BY <2>1, <2>3 DEF DocsInv, StoredBehind, StoreInv, StoreTyped, Dirs
  <2>5. ASSUME NEW v \in Updaters PROVE Holds(v)'
    <3>1. update'[v].todo = update[v].todo /\ update'[v].loaded = update[v].loaded
      BY <2>2 DEF Moves
    <3>2. update[v].todo \in SUBSET Docs /\ \A c \in Colls : update[v].loaded[c] \in SUBSET Docs
      BY DEF WorkInv, UpdateStates
    <3> QED
      BY <2>3, <3>1, <3>2 DEF DocsInv, Holds
  <2> QED
    BY <2>3, <2>4, <2>5 DEF DocsInv, StoredBehind, Holds
<1>2. CASE Load(u)
  <2>1. UNCHANGED <<objects, disk, upstream, clone>>
    BY <1>2 DEF Load, storeVars, worldVars
  <2>2. PICK docs \in [Colls -> SUBSET Docs] :
          /\ \A c \in Colls : docs[c] \in Readings(c) \cup {{}}
          /\ Moves(u) /\ update'[u].loaded = docs /\ update'[u].todo = update[u].todo
    BY <1>2, LoadMoves
  <2>3. ASSUME NEW c \in Colls PROVE Behind(docs[c])'
    <3>1. Behind(docs[c])
      BY <2>2, LoadBehind
    <3> QED
      BY <2>1, <3>1 DEF Behind
  <2>4. Behind(update[u].todo)
    BY DEF DocsInv
  <2>5. Holds(u)'
    BY <2>1, <2>2, <2>3, <2>4 DEF Holds, Behind
  <2> QED
    BY <2>1, <2>2, <2>5, StillStored, OthersHold, DocsByParts
<1>3. CASE StartReset(u) \/ EndReset(u)
  <2>1. /\ UNCHANGED <<upstream, clone>> /\ objects' = objects
        /\ \A c \in Colls : disk'[c].docs \subseteq disk[c].docs
    <3>1. Coll(u) \in Colls
      BY <1>3, CollIsColl DEF StartReset, EndReset, At, WithColl
    <3>2. disk \in [Colls -> Dirs]
      BY DEF StoreInv, StoreTyped
    <3>3. CASE StartReset(u)
      BY <3>3 DEF StartReset, ResetBegin, worldVars
    <3>4. CASE EndReset(u)
      <4>1. UNCHANGED <<upstream, clone>>
        BY <3>4 DEF EndReset, worldVars
      <4>2. objects' = objects
        BY <3>4 DEF EndReset, ResetDone, NewObject, DeleteFails, CreateFails
      <4>3. CASE disk' = [disk EXCEPT ![Coll(u)] = FreshDir]
                 \/ disk' = [disk EXCEPT ![Coll(u)] = EmptyDir]
        BY <3>1, <3>2, <4>1, <4>2, <4>3 DEF FreshDir, EmptyDir
      <4>4. CASE DeleteFails(Coll(u))
        <5>1. PICK left \in SUBSET disk[Coll(u)].docs, named \in {disk[Coll(u)].meta, FALSE} :
                disk' = [disk EXCEPT ![Coll(u)] =
                           [docs |-> left, meta |-> named, torn |-> disk[Coll(u)].torn]]
          BY <4>4 DEF DeleteFails
        <5> QED
          BY <3>1, <3>2, <4>1, <4>2, <5>1
      <4> QED
        BY <3>4, <4>3, <4>4 DEF EndReset, ResetDone, CreateFails
    <3> QED
      BY <1>3, <3>3, <3>4
  <2>2. StoredBehind'
    BY <2>1 DEF DocsInv, StoredBehind, Behind
  <2>3. /\ Moves(u)
        /\ update'[u].loaded = update[u].loaded /\ update'[u].todo = update[u].todo
    BY <1>3, StepMoves, EndResetMoves DEF Steps, StartReset
  <2>4. Behind(update[u].todo)'
    BY <2>1, <2>3 DEF DocsInv, Behind
  <2> QED
    BY <2>1, <2>2, <2>3, <2>4, KeepsLoaded, OthersHold, DocsByParts
<1>4. CASE StartAdd(u) \/ EndAdd(u)
  <2>1. UNCHANGED <<objects, disk, upstream, clone>>
    BY <1>4 DEF StartAdd, EndAdd, storeVars, worldVars
  <2>2. Coll(u) \in Colls
    BY <1>4, CollIsColl DEF StartAdd, EndAdd, At, WithColl
  <2>3. /\ Moves(u) /\ update'[u].loaded = update[u].loaded
        /\ update'[u].todo \in {update[u].loaded[Coll(u)], {}}
    BY <1>4, StartAddMoves, EndAddMoves
  <2>4. Behind(update[u].todo)'
    BY <2>1, <2>2, <2>3 DEF DocsInv, Behind
  <2> QED
    BY <2>1, <2>3, <2>4, StillStored, KeepsLoaded, OthersHold, DocsByParts
<1>5. CASE AddNext(u)
  <2>1. UNCHANGED <<upstream, clone>>
    BY <1>5 DEF AddNext, worldVars
  <2>2. PICK d \in update[u].todo :
          /\ AddOne(update[u].object, Coll(u), d)
          /\ update' = [update EXCEPT ![u].todo = @ \ {d}]
    BY <1>5 DEF AddNext
  <2>3. /\ Moves(u) /\ update'[u].loaded = update[u].loaded
        /\ update'[u].todo = update[u].todo \ {d}
    BY <2>2, AddNextMoves
  <2>4. Behind({d})
    BY <2>2 DEF DocsInv, Behind
  <2>5. /\ \A o \in Objects : objects'[o] \subseteq objects[o] \cup {d}
        /\ \A c \in Colls : disk'[c].docs \subseteq disk[c].docs \cup {d}
    <3>1. objects \in [Objects -> SUBSET Docs] /\ disk \in [Colls -> Dirs]
      BY DEF StoreInv, StoreTyped
    <3> QED
      BY <2>2, <3>1 DEF AddOne, Put, Dirs
  <2>6. StoredBehind'
    BY <2>1, <2>4, <2>5 DEF DocsInv, StoredBehind, Behind
  <2>7. Behind(update[u].todo)'
    BY <2>1, <2>3 DEF DocsInv, Behind
  <2> QED
    BY <2>1, <2>3, <2>6, <2>7, KeepsLoaded, OthersHold, DocsByParts
<1>6. CASE Save(u) \/ SaveFails(u)
  <2>1. UNCHANGED <<objects, disk, upstream, clone>>
    BY <1>6 DEF Save, SaveFails, storeVars
  <2>2. Moves(u) /\ update'[u].todo = {} /\ update'[u].loaded = [c \in Colls |-> {}]
    BY <1>6, SaveMoves
  <2>3. Holds(u)'
    BY <2>2 DEF Holds, Behind
  <2> QED
    BY <2>1, <2>2, <2>3, StillStored, OthersHold, DocsByParts
<1> QED
  BY <1>1, <1>2, <1>3, <1>4, <1>5, <1>6 DEF Ingest

LEMMA NextDocs == Typed /\ RecordInv /\ DocsInv /\ [Next]_vars => DocsInv'
<1> SUFFICES ASSUME Typed, RecordInv, DocsInv, [Next]_vars PROVE DocsInv'
  OBVIOUS
<1> USE DEF Typed
<1>1. ASSUME NEW u \in Updaters, Begin(u) PROVE DocsInv'
  <2>1. UNCHANGED <<objects, disk, upstream, clone>>
    BY <1>1 DEF Begin, storeVars, worldVars
  <2>2. ASSUME NEW v \in Updaters PROVE Holds(v)'
    <3>1. CASE v = u
      BY <1>1, <3>1, BeginMoves DEF Holds, Behind
    <3>2. CASE v # u
      <4>1. update'[v].todo = update[v].todo /\ update'[v].loaded = update[v].loaded
        BY <1>1, <3>2, BeginMoves
      <4> QED
        BY <2>1, <4>1 DEF DocsInv, Holds, Behind
    <3> QED
      BY <3>1, <3>2
  <2> QED
    BY <2>1, <2>2, StillStored, DocsByParts
<1>2. CASE (\E s \in Searchers : SearchStep(s)) \/ Quiet \/ UNCHANGED vars
  <2>1. UNCHANGED <<objects, disk, upstream, clone, update>>
    <3>1. CASE \E s \in Searchers : SearchStep(s)
      BY <3>1 DEF SearchStep, Search, SearchStart, SearchCount, SearchQuery, storeVars, worldVars
    <3>2. CASE Quiet \/ UNCHANGED vars
      BY <3>2 DEF Quiet, vars, storeVars, worldVars
    <3> QED
      BY <1>2, <3>1, <3>2
  <2> QED
    BY <2>1 DEF DocsInv, Behind
<1>3. CASE Publish
  <2>1. /\ UNCHANGED <<objects, disk, clone, update>> /\ upstream' = upstream + 1
        /\ upstream \in Nat
    BY <1>3, MarksAreNoCommits DEF Publish, storeVars, WorldTyped
  <2>2. \A docs \in SUBSET Docs : Behind(docs) => Behind(docs)'
    <3>1. \A d \in Docs : d.version \in Nat
      BY IngestAssumption DEF Docs
    <3> QED
      BY <2>1, <3>1 DEF Behind
  <2>3. /\ objects \in [Objects -> SUBSET Docs] /\ disk \in [Colls -> Dirs]
        /\ update \in [Updaters -> UpdateStates]
    BY DEF StoreInv, StoreTyped, WorkInv
  <2>4. StoredBehind'
    BY <2>1, <2>2, <2>3 DEF DocsInv, StoredBehind, Dirs
  <2>5. \A u \in Updaters : Holds(u)'
    BY <2>1, <2>2, <2>3 DEF DocsInv, Holds, UpdateStates
  <2> QED
    BY <2>1, <2>4, <2>5, DocsByParts
<1>4. CASE Crash
  <2>1. /\ UNCHANGED <<objects, upstream, clone>>
        /\ \A c \in Colls : disk'[c] \in Leftovers(c)
        /\ update' = [u \in Updaters |-> Resting]
    BY <1>4 DEF Crash
  <2>2. ASSUME NEW c \in Colls PROVE disk'[c].docs \subseteq disk[c].docs
    <3>1. disk[c] \in Dirs
      BY DEF StoreInv, StoreTyped
    <3>2. \/ disk'[c] = disk[c] \/ disk'[c] = [disk[c] EXCEPT !.torn = TRUE]
          \/ disk'[c] \in [docs : SUBSET disk[c].docs, meta : {disk[c].meta, FALSE}, torn : {FALSE}]
      BY <2>1 DEF Leftovers
    <3> QED
      BY <3>1, <3>2 DEF Dirs
  <2>3. StoredBehind'
    BY <2>1, <2>2 DEF DocsInv, StoredBehind, Behind
  <2>4. \A u \in Updaters : Holds(u)'
    BY <2>1, RestingTyped DEF Holds, Behind
  <2> QED
    BY <2>1, <2>3, <2>4, DocsByParts
<1>5. CASE Restart
  <2>1. /\ UNCHANGED <<upstream, clone, update>> /\ Open(Numbering)
    BY <1>5 DEF Restart
  <2>2. ASSUME NEW c \in Colls PROVE disk'[c].docs \subseteq disk[c].docs
    <3>1. disk[c] \in Dirs
      BY DEF StoreInv, StoreTyped
    <3>2. disk'[c] = FreshDir \/ disk'[c] = [disk[c] EXCEPT !.meta = TRUE]
      BY <2>1 DEF Open, OpenedDisk, Wiped
    <3> QED
      BY <3>1, <3>2 DEF FreshDir, Dirs
  <2>3. ASSUME NEW c \in Colls PROVE Behind(disk[c].docs)'
    BY <2>1, <2>2 DEF DocsInv, Behind
  <2>4. ASSUME NEW o \in Objects PROVE Behind(objects[o])'
    <3>1. objects'[o] = {} \/ \E c \in Colls : objects'[o] = disk'[c].docs
      BY <2>1 DEF Open
    <3> QED
      BY <2>3, <3>1 DEF Behind
  <2>5. StoredBehind'
    BY <2>3, <2>4 DEF StoredBehind
  <2>6. \A u \in Updaters : Holds(u)'
    BY <2>1 DEF DocsInv, Holds, Behind
  <2> QED
    BY <2>1, <2>5, <2>6, DocsByParts
<1> QED
  BY <1>1, <1>2, <1>3, <1>4, <1>5, IngestDocs DEF Next

-----------------------------------------------------------------------------
(* An ingestion without a mishap.                                          *)

\* It is alone: the step of another is no step next to a clean ingestion.
LEMMA IngestClean ==
  ASSUME Typed, CleanInv, NEW u \in Updaters, update[u].at # "idle", Moves(u),
         update[u].mishap => update'[u].mishap,
         Clean(u) /\ ~update[u].mishap /\ ~update'[u].mishap /\ update'[u].at # "idle" =>
           (Alone(u)' => Clean(u)')
  PROVE  \A v \in Updaters : update'[v].at # "idle" /\ ~update'[v].mishap => Clean(v)'
<1> SUFFICES ASSUME NEW v \in Updaters, update'[v].at # "idle", ~update'[v].mishap
             PROVE  Clean(v)'
  OBVIOUS
<1>1. CASE v = u
  <2>1. ~update[u].mishap /\ Clean(u)
    BY <1>1 DEF CleanInv
  <2>2. Alone(u)'
    BY <2>1 DEF Clean, Alone, Moves
  <2> QED
    BY <1>1, <2>1, <2>2
<1>2. CASE v # u
  <2>1. update'[v] = update[v]
    BY <1>2 DEF Moves
  <2>2. Alone(v)
    BY <2>1 DEF CleanInv, Clean
  <2> QED
    BY <1>2, <2>2 DEF Alone
<1> QED
  BY <1>1, <1>2

\* Steps that leave the store alone, before the first reset.
LEMMA TrustKept ==
  ASSUME CleanInv, UNCHANGED <<objects, disk, current, meta>>,
         up' => up, trusted' => trusted,
         \A u \in Updaters : update'[u].at = update[u].at
                             \/ update'[u].at \in {"idle", "cloning", "loading", "resetting"}
  PROVE  trusted' =>
           /\ \A u \in Updaters : update'[u].at \in {"idle", "cloning", "loading", "resetting"}
           /\ \A c \in Colls : /\ disk'[c] = Dir(Expected(c)')
                               /\ up' => objects'[current'[c]] = Expected(c)'
<1>1. \A c \in Colls : Expected(c)' = Expected(c)
  BY DEF Expected
<1> QED
  BY <1>1 DEF CleanInv

LEMMA CloneClean ==
  ASSUME Typed, CleanInv, NEW u \in Updaters, Clone(u)
  PROVE  CleanInv'
<1> USE DEF Typed
<1>1. /\ update[u].at = "cloning" /\ UNCHANGED <<objects, disk, current, meta, up, trusted>>
      /\ upstream \in Commits
  BY DEF Clone, At, storeVars, historyVars, WorldTyped
<1>2. /\ Moves(u) /\ update'[u].at = "loading"
      /\ update'[u].commit = IF clone.there \/ clone'.whole THEN clone'.head ELSE Absent
      /\ update'[u].mishap <=> update[u].mishap \/ clone' # CloneAt(upstream)
  BY CloneMoves
<1>3. Clean(u) /\ ~update'[u].mishap => (Alone(u)' => Clean(u)')
  <2> SUFFICES ASSUME Clean(u), clone' = CloneAt(upstream), Alone(u)' PROVE Clean(u)'
    BY <1>2
  <2>1. clone'.whole /\ clone'.head = upstream
    BY DEF CloneAt
  <2>2. update'[u].commit = upstream
    BY <1>2, <2>1
  <2> QED
    BY <1>1, <1>2, <2>2 DEF Clean, Loaded, WithColl, CloneAt
<1>4. \A v \in Updaters : update'[v].at # "idle" /\ ~update'[v].mishap => Clean(v)'
  BY <1>1, <1>2, <1>3, IngestClean
<1>5. \A v \in Updaters : update'[v].at = update[v].at \/ update'[v].at = "loading"
  BY <1>2 DEF Moves
<1> QED
  BY <1>1, <1>4, <1>5, TrustKept DEF CleanInv

LEMMA LoadClean ==
  ASSUME Typed, CleanInv, NEW u \in Updaters, Load(u)
  PROVE  CleanInv'
<1> USE DEF Typed
<1>1. /\ update[u].at = "loading"
      /\ UNCHANGED <<objects, disk, current, meta, up, trusted, clone>>
  BY DEF Load, At, storeVars, historyVars, worldVars
<1>2. PICK docs \in [Colls -> SUBSET Docs] :
           /\ \A c \in Colls : docs[c] \in Readings(c) \cup {{}}
           /\ Moves(u) /\ update'[u].at = "resetting" /\ update'[u].next = 1
           /\ update'[u].loaded = docs
           /\ update'[u].commit = update[u].commit
           /\ update'[u].mishap <=> update[u].mishap \/ \E c \in Colls : docs[c] = {}
  BY LoadMoves
<1>3. Clean(u) /\ ~update'[u].mishap => (Alone(u)' => Clean(u)')
  <2> SUFFICES ASSUME Clean(u), \A c \in Colls : docs[c] # {}, Alone(u)' PROVE Clean(u)'
    BY <1>2
  <2>1. update[u].commit \in Commits /\ clone = CloneAt(update[u].commit)
    BY <1>1 DEF Clean
  <2>2. clone.whole /\ clone.head = update[u].commit
    BY <2>1 DEF CloneAt
  <2>3. \A c \in Colls : docs[c] = Source(c, update[u].commit)
    BY <1>2, <2>2 DEF Readings, Source
  <2>4. \A i \in DOMAIN Order : ~(i < 1)
    BY OrderAssumption
  <2>5. update'[u].commit \in Commits /\ clone' = CloneAt(update'[u].commit)
    BY <1>1, <1>2, <2>1
  <2> QED
    BY <1>2, <2>3, <2>4, <2>5 DEF Clean, Loaded, WithColl
<1>4. \A v \in Updaters : update'[v].at # "idle" /\ ~update'[v].mishap => Clean(v)'
  BY <1>1, <1>2, <1>3, IngestClean
<1>5. \A v \in Updaters : update'[v].at = update[v].at \/ update'[v].at = "resetting"
  BY <1>2 DEF Moves
<1> QED
  BY <1>1, <1>4, <1>5, TrustKept DEF CleanInv

\* While a collection is worked on nothing is trusted.
LEMMA NotTrusted ==
  ASSUME CleanInv, NEW u \in Updaters,
         update[u].at \in {"inReset", "adding", "embedding", "saving"}
  PROVE  ~trusted
BY DEF CleanInv

LEMMA StartResetClean ==
  ASSUME Typed, CleanInv, NEW u \in Updaters, StartReset(u)
  PROVE  CleanInv'
<1> USE DEF Typed
<1>1. /\ update[u].at = "resetting" /\ ~trusted'
      /\ UNCHANGED <<objects, disk, current, clone>>
  BY DEF StartReset, ResetBegin, At, worldVars
<1>2. Steps(u, "inReset", update[u].mishap)
  BY StepMoves DEF StartReset
<1>3. Clean(u) /\ ~update'[u].mishap => (Alone(u)' => Clean(u)')
  BY <1>1, <1>2 DEF Clean, Loaded, WithColl, Stored, Steps
<1>4. \A v \in Updaters : update'[v].at # "idle" /\ ~update'[v].mishap => Clean(v)'
  BY <1>1, <1>2, <1>3, IngestClean DEF Steps
<1> QED
  BY <1>1, <1>4 DEF CleanInv

LEMMA EndResetClean ==
  ASSUME Typed, CleanInv, NEW u \in Updaters, EndReset(u)
  PROVE  CleanInv'
<1> USE DEF Typed
<1>1. update[u].at = "inReset" /\ UNCHANGED <<clone, trusted>>
  BY DEF EndReset, At, worldVars, historyVars
<1>2. ~trusted'
  BY <1>1, NotTrusted
<1>3. /\ update[u].next \in DOMAIN Order /\ Coll(u) \in Colls /\ update[u] \in UpdateStates
  BY <1>1, CollIsColl DEF WithColl, WorkInv
<1>4. \/ Steps(u, "adding", update[u].mishap) /\ ResetDone(Coll(u))
      \/ Steps(u, "adding", TRUE)
  BY EndResetMoves
<1>5. ASSUME Clean(u), ~update[u].mishap, ~update'[u].mishap, Alone(u)'
      PROVE  Clean(u)'
  <2>1. Steps(u, "adding", update[u].mishap) /\ ResetDone(Coll(u))
    BY <1>4, <1>5 DEF Steps
  <2>2. /\ objects' = objects /\ objects'[current'[Coll(u)]] = {} /\ disk'[Coll(u)] = Dir({})
        /\ \A d \in Colls \ {Coll(u)} : current'[d] = current[d] /\ disk'[d] = disk[d]
    BY <1>3, <2>1, ResetDoneKeeps
  <2>3. Coll(u)' = Coll(u) /\ update'[u].next = update[u].next
        /\ update'[u].loaded = update[u].loaded /\ update'[u].commit = update[u].commit
    BY <2>1 DEF Steps, Coll
  <2>4. Stored(Coll(u), {})'
    BY <2>2, <2>3 DEF Stored
  <2>5. ASSUME NEW i \in DOMAIN Order, i < update'[u].next
        PROVE  Stored(Order[i], update[u].loaded[Order[i]])'
    <3>1. Order[i] \in Colls \ {Coll(u)}
      BY <1>3, <2>3, <2>5, OrderAssumption DEF Coll, UpdateStates
    <3>2. Stored(Order[i], update[u].loaded[Order[i]])
      BY <1>1, <1>5, <2>3, <2>5 DEF Clean, Loaded, WithColl
    <3> QED
      BY <2>2, <2>3, <3>1, <3>2 DEF Stored
  <2> QED
    BY <1>1, <1>5, <2>1, <2>3, <2>4, <2>5 DEF Clean, Loaded, WithColl, Steps
<1>6. Moves(u) /\ (update[u].mishap => update'[u].mishap)
  BY <1>4 DEF Steps
<1>7. \A v \in Updaters : update'[v].at # "idle" /\ ~update'[v].mishap => Clean(v)'
  BY <1>1, <1>5, <1>6, IngestClean
<1> QED
  BY <1>2, <1>7 DEF CleanInv

LEMMA StartAddClean ==
  ASSUME Typed, CleanInv, NEW u \in Updaters, StartAdd(u)
  PROVE  CleanInv'
<1> USE DEF Typed
<1>1. /\ update[u].at = "adding" /\ UNCHANGED <<objects, disk, current, clone, trusted>>
  BY DEF StartAdd, At, storeVars, historyVars, worldVars
<1>2. ~trusted'
  BY <1>1, NotTrusted
<1>3. /\ Moves(u) /\ update'[u].at = "embedding"
      /\ update'[u].object = current[Coll(u)]
      /\ update'[u].todo = update[u].loaded[Coll(u)]
      /\ update'[u].next = update[u].next /\ update'[u].loaded = update[u].loaded
      /\ update'[u].commit = update[u].commit /\ update'[u].mishap = update[u].mishap
  BY StartAddMoves
<1>4. Clean(u) => (Alone(u)' => Clean(u)')
  <2> SUFFICES ASSUME Clean(u), Alone(u)' PROVE Clean(u)'
    OBVIOUS
  <2>1. Coll(u)' = Coll(u)
    BY <1>3 DEF Coll
  <2>2. update[u].loaded[Coll(u)] \ update[u].loaded[Coll(u)] = {}
    OBVIOUS
  <2> QED
    BY <1>1, <1>3, <2>1, <2>2 DEF Clean, Loaded, WithColl, Stored
<1>5. \A v \in Updaters : update'[v].at # "idle" /\ ~update'[v].mishap => Clean(v)'
  BY <1>1, <1>3, <1>4, IngestClean
<1> QED
  BY <1>2, <1>5 DEF CleanInv

LEMMA DirPut ==
  ASSUME NEW before, NEW after
  PROVE  Dir(before).docs = before /\ [Dir(before) EXCEPT !.docs = after] = Dir(after)
<1> DEFINE r == [Dir(before) EXCEPT !.docs = after]
<1>1. r \in [docs : {after}, meta : {TRUE}, torn : {FALSE}]
  BY DEF Dir
<1> HIDE DEF r
<1>2. r = [docs |-> after, meta |-> TRUE, torn |-> FALSE]
  BY <1>1
<1>3. Dir(before).docs = before
  BY DEF Dir
<1> QED
  BY <1>2, <1>3 DEF r, Dir

LEMMA AddNextClean ==
  ASSUME Typed, CleanInv, NEW u \in Updaters, AddNext(u)
  PROVE  CleanInv'
<1> USE DEF Typed
<1>1. update[u].at = "embedding" /\ UNCHANGED <<clone, trusted>>
  BY DEF AddNext, At, worldVars, historyVars
<1>2. ~trusted'
  BY <1>1, NotTrusted
<1>3. /\ update[u].next \in DOMAIN Order /\ Coll(u) \in Colls /\ update[u] \in UpdateStates
      /\ update[u].object \in 1..created
  BY <1>1, CollIsColl DEF WithColl, WorkInv, Place
<1>4. PICK d \in update[u].todo : AddOne(update[u].object, Coll(u), d)
                                  /\ update' = [update EXCEPT ![u].todo = @ \ {d}]
  BY DEF AddNext
<1>5. d \in Docs
  BY <1>3, <1>4 DEF UpdateStates
<1>6. /\ Moves(u) /\ update'[u].todo = update[u].todo \ {d}
      /\ update'[u].at = update[u].at /\ update'[u].object = update[u].object
      /\ update'[u].next = update[u].next /\ update'[u].loaded = update[u].loaded
      /\ update'[u].commit = update[u].commit /\ update'[u].mishap = update[u].mishap
  BY <1>4, AddNextMoves
<1>7. /\ current' = current
      /\ objects'[update[u].object] = Put(objects[update[u].object], d)
      /\ \A p \in Objects \ {update[u].object} : objects'[p] = objects[p]
      /\ disk'[Coll(u)] = [disk[Coll(u)] EXCEPT !.docs = Put(disk[Coll(u)].docs, d)]
      /\ \A e \in Colls \ {Coll(u)} : disk'[e] = disk[e]
  BY <1>3, <1>4, <1>5, AddOneKeeps
<1>8. ASSUME Clean(u), Alone(u)'
      PROVE  Clean(u)'
  <2> DEFINE all == update[u].loaded[Coll(u)]
             todo == update[u].todo
  <2>1. Coll(u)' = Coll(u)
    BY <1>6 DEF Coll
  <2>2. /\ update[u].object = current[Coll(u)] /\ todo \subseteq all
        /\ Stored(Coll(u), all \ todo)
    BY <1>1, <1>8 DEF Clean
  <2>3. Put(all \ todo, d) = all \ (todo \ {d})
    <3>1. PICK v : all = Full(v)
      BY <1>1, <1>3, <1>8 DEF Clean, Loaded, WithColl, Source
    <3>2. d \in Full(v) /\ all \ todo \in SUBSET Full(v)
      BY <1>4, <2>2, <3>1
    <3>3. Put(all \ todo, d) = (all \ todo) \cup {d}
      BY <3>2, PutFull
    <3>4. d \in all /\ d \in todo
      BY <1>4, <2>2
    <3> HIDE DEF all, todo
    <3> QED
      BY <3>3, <3>4
  <2>4. Dir(all \ todo).docs = all \ todo
        /\ [Dir(all \ todo) EXCEPT !.docs = Put(all \ todo, d)] = Dir(Put(all \ todo, d))
    BY DirPut
  <2>5. /\ objects'[current'[Coll(u)]] = all \ (todo \ {d})
        /\ disk'[Coll(u)] = Dir(all \ (todo \ {d}))
    <3> HIDE DEF all, todo
    <3> QED
      BY <1>7, <2>2, <2>3, <2>4 DEF Stored
  <2>6. Stored(Coll(u), update[u].loaded[Coll(u)] \ update[u].todo)'
    BY <1>6, <2>1, <2>5 DEF Stored
  <2>7. ASSUME NEW i \in DOMAIN Order, i < update'[u].next
        PROVE  Stored(Order[i], update[u].loaded[Order[i]])'
    <3>1. Order[i] \in Colls \ {Coll(u)}
      BY <1>3, <1>6, <2>7, OrderAssumption DEF Coll, UpdateStates
    <3>2. Stored(Order[i], update[u].loaded[Order[i]])
      BY <1>1, <1>6, <1>8, <2>7 DEF Clean, Loaded, WithColl
    <3>3. current[Order[i]] # current[Coll(u)] /\ current[Order[i]] \in Objects
      BY <1>3, <3>1, StoreAssumption DEF StoreInv, StoreTyped, Objects
    <3> QED
      BY <1>6, <1>7, <2>2, <3>1, <3>2, <3>3 DEF Stored
  <2>8. update'[u].object = current'[Coll(u)] /\ update'[u].todo \subseteq update'[u].loaded[Coll(u)]
    BY <1>6, <1>7, <2>2
  <2> QED
    BY <1>1, <1>6, <1>8, <2>1, <2>6, <2>7, <2>8 DEF Clean, Loaded, WithColl
<1>9. \A v \in Updaters : update'[v].at # "idle" /\ ~update'[v].mishap => Clean(v)'
  BY <1>1, <1>6, <1>8, IngestClean
<1> QED
  BY <1>2, <1>9 DEF CleanInv

LEMMA EndAddClean ==
  ASSUME Typed, CleanInv, NEW u \in Updaters, EndAdd(u)
  PROVE  CleanInv'
<1> USE DEF Typed
<1>1. /\ update[u].at = "embedding" /\ UNCHANGED <<objects, disk, current, clone, trusted>>
  BY DEF EndAdd, At, storeVars, historyVars, worldVars
<1>2. ~trusted'
  BY <1>1, NotTrusted
<1>3. /\ update[u].next \in DOMAIN Order /\ Len(Order) \in Nat /\ DOMAIN Order = 1..Len(Order)
  BY <1>1, CollIsColl, OrderAssumption DEF WithColl
<1>4. /\ Moves(u) /\ update'[u].at = Advance(u) /\ update'[u].next = update[u].next + 1
      /\ update'[u].todo = {} /\ update'[u].loaded = update[u].loaded
      /\ update'[u].commit = update[u].commit
      /\ update'[u].mishap <=> update[u].mishap \/ update[u].todo # {}
  BY EndAddMoves
<1>5. ASSUME Clean(u), ~update'[u].mishap, Alone(u)'
      PROVE  Clean(u)'
  <2>1. update'[u].at \in {"resetting", "saving"}
        /\ (update'[u].at = "saving" => update'[u].next = Len(Order) + 1)
    BY <1>3, <1>4 DEF Advance
  <2>2. update[u].loaded[Coll(u)] \ {} = update[u].loaded[Coll(u)]
    OBVIOUS
  <2>3. Stored(Coll(u), update[u].loaded[Coll(u)])
    BY <1>1, <1>4, <1>5, <2>2 DEF Clean
  <2>4. ASSUME NEW i \in DOMAIN Order, i < update'[u].next
        PROVE  Stored(Order[i], update[u].loaded[Order[i]])
    <3>1. CASE i = update[u].next
      BY <2>3, <3>1 DEF Coll
    <3>2. CASE i < update[u].next
      BY <1>1, <1>5, <3>2 DEF Clean, Loaded, WithColl
    <3> QED
      BY <1>3, <1>4, <2>4, <3>1, <3>2
  <2>5. \A i \in DOMAIN Order : i < update'[u].next =>
          Stored(Order[i], update[u].loaded[Order[i]])'
    BY <1>1, <1>4, <2>4 DEF Stored
  <2> QED
    BY <1>1, <1>4, <1>5, <2>1, <2>5 DEF Clean, Loaded, WithColl
<1>6. \A v \in Updaters : update'[v].at # "idle" /\ ~update'[v].mishap => Clean(v)'
  BY <1>1, <1>4, <1>5, IngestClean
<1> QED
  BY <1>2, <1>6 DEF CleanInv

\* An ingestion that ends without a mishap has stored every collection.
LEMMA SaveClean ==
  ASSUME Typed, CleanInv, NEW u \in Updaters, Save(u) \/ SaveFails(u)
  PROVE  CleanInv'
<1> USE DEF Typed
<1>1. update[u].at = "saving" /\ UNCHANGED <<objects, disk, current, clone, up>>
  BY DEF Save, SaveFails, At, storeVars, historyVars
<1>2. Moves(u) /\ update'[u].at = "idle"
  BY SaveMoves
<1>3. \A v \in Updaters : update'[v].at # "idle" /\ ~update'[v].mishap => Clean(v)'
  <2> SUFFICES ASSUME NEW v \in Updaters, update'[v].at # "idle", ~update'[v].mishap
               PROVE  FALSE
    OBVIOUS
  <2>1. v # u /\ update'[v] = update[v]
    BY <1>2 DEF Moves
  <2>2. Alone(v)
    BY <2>1 DEF CleanInv, Clean
  <2> QED
    BY <1>1, <2>1, <2>2 DEF Alone
<1>4. CASE trusted'
  <2>1. ~trusted
    BY <1>1, NotTrusted
  <2>2. Save(u) /\ ~update[u].mishap
    BY <1>4, <2>1 DEF Save, SaveFails, historyVars
  <2>3. Clean(u)
    BY <1>1, <2>2 DEF CleanInv
  <2>4. update[u].commit \in Commits /\ meta' = update[u].commit
    BY <1>1, <2>2, <2>3, MarksAreNoCommits DEF Clean, Save
  <2>5. \A v \in Updaters : update'[v].at = "idle"
    BY <1>2, <2>3 DEF Clean, Alone, Moves
  <2>6. ASSUME NEW c \in Colls
        PROVE  Stored(c, Source(c, update[u].commit))
    <3>1. PICK i \in DOMAIN Order : Order[i] = c
      BY OrderAssumption
    <3>2. i < update[u].next
      BY <1>1, <2>3, OrderAssumption DEF Clean
    <3>3. Stored(Order[i], update[u].loaded[Order[i]])
          /\ update[u].loaded[c] = Source(c, update[u].commit)
      BY <1>1, <2>3, <3>2 DEF Clean, Loaded, WithColl
    <3> QED
      BY <3>1, <3>3
  <2>7. \A c \in Colls : Expected(c)' = Source(c, update[u].commit)
    BY <2>4 DEF Expected, Source
  <2>8. \A c \in Colls : /\ disk'[c] = Dir(Expected(c)')
                         /\ objects'[current'[c]] = Expected(c)'
    BY <1>1, <2>6, <2>7 DEF Stored
  <2> QED
    BY <1>3, <2>5, <2>8 DEF CleanInv
<1>5. CASE ~trusted'
  BY <1>3, <1>5 DEF CleanInv
<1> QED
  BY <1>4, <1>5

LEMMA BeginClean ==
  ASSUME Typed, CleanInv, NEW u \in Updaters, Begin(u)
  PROVE  CleanInv'
<1> USE DEF Typed
<1>1. UNCHANGED <<objects, disk, current, meta, up, trusted>>
  BY DEF Begin, storeVars, worldVars
<1>2. /\ update'[u].at = "cloning" /\ (update'[u].mishap <=> ~Alone(u))
      /\ \A v \in Updaters \ {u} : update'[v].mishap /\ update'[v].at = update[v].at
  BY BeginMoves
<1>3. ASSUME NEW v \in Updaters, update'[v].at # "idle", ~update'[v].mishap
      PROVE  Clean(v)'
  <2>1. v = u /\ Alone(u)
    BY <1>2, <1>3
  <2>2. Alone(u)'
    BY <1>2, <2>1 DEF Alone
  <2> QED
    BY <1>2, <2>1, <2>2 DEF Clean, Loaded, WithColl
<1> QED
  BY <1>1, <1>2, <1>3, TrustKept DEF CleanInv

\* What is trusted survives a kill, for nothing is being written.
LEMMA CrashClean ==
  ASSUME Typed, CleanInv, Crash
  PROVE  CleanInv'
<1> USE DEF Typed
<1>1. /\ up' = FALSE /\ update' = [u \in Updaters |-> Resting] /\ trusted' = trusted
      /\ \A c \in Colls : disk'[c] \in Leftovers(c)
      /\ meta' \in {meta} \cup (IF \E u \in Updaters : update[u].at = "saving"
                                THEN {Torn} ELSE {})
  BY DEF Crash
<1>2. \A u \in Updaters : update'[u].at = "idle"
  BY <1>1, RestingTyped
<1>3. ASSUME trusted
      PROVE  \A c \in Colls : disk'[c] = Dir(Expected(c)')
  <2>1. \A u \in Updaters : update[u].at \in {"idle", "cloning", "loading", "resetting"}
                            /\ update[u].todo = {}
    BY <1>3 DEF CleanInv, WorkInv, Place
  <2>2. meta' = meta
    BY <1>1, <2>1
  <2>3. \A c \in Colls : disk'[c] = disk[c]
    BY <1>1, <2>1 DEF Leftovers, Resetting, Filling
  <2> QED
    BY <1>3, <2>2, <2>3 DEF CleanInv, Expected
<1> QED
  BY <1>1, <1>2, <1>3 DEF CleanInv

LEMMA DirMeta ==
  ASSUME NEW content
  PROVE  Dir(content).docs = content /\ [Dir(content) EXCEPT !.meta = TRUE] = Dir(content)
<1> DEFINE r == [Dir(content) EXCEPT !.meta = TRUE]
<1>1. r \in [docs : {content}, meta : {TRUE}, torn : {FALSE}]
  BY DEF Dir
<1> HIDE DEF r
<1>2. r = [docs |-> content, meta |-> TRUE, torn |-> FALSE]
  BY <1>1
<1>3. Dir(content).docs = content
  BY DEF Dir
<1> QED
  BY <1>2, <1>3 DEF r, Dir

\* And the process that is started again reads it from the disk.
LEMMA RestartClean ==
  ASSUME Typed, CleanInv, Restart
  PROVE  CleanInv'
<1> USE DEF Typed
<1>1. /\ ~up /\ update' = update /\ Open(Numbering)
      /\ trusted' = (trusted /\ ~Corrupted) /\ meta' = meta
  BY DEF Restart
<1>2. \A u \in Updaters : update'[u].at = "idle"
  BY <1>1 DEF WorkInv, Place
<1>3. ASSUME trusted, ~Corrupted, NEW c \in Colls
      PROVE  disk'[c] = Dir(Expected(c)') /\ objects'[current'[c]] = Expected(c)'
  <2>1. disk'[c] = [disk[c] EXCEPT !.meta = TRUE] /\ objects'[current'[c]] = disk'[c].docs
    BY <1>1, <1>3, OpenKeeps
  <2>2. disk[c] = Dir(Expected(c)) /\ Expected(c)' = Expected(c)
    BY <1>1, <1>3 DEF CleanInv, Expected
  <2>3. [Dir(Expected(c)) EXCEPT !.meta = TRUE] = Dir(Expected(c))
        /\ Dir(Expected(c)).docs = Expected(c)
    BY DirMeta
  <2> QED
    BY <2>1, <2>2, <2>3
<1> QED
  BY <1>1, <1>2, <1>3 DEF CleanInv

LEMMA NextClean == Typed /\ CleanInv /\ [Next]_vars => CleanInv'
<1> SUFFICES ASSUME Typed, CleanInv, [Next]_vars PROVE CleanInv'
  OBVIOUS
<1>1. ASSUME NEW u \in Updaters, Ingest(u) PROVE CleanInv'
  BY <1>1, CloneClean, LoadClean, StartResetClean, EndResetClean, StartAddClean, AddNextClean,
     EndAddClean, SaveClean DEF Ingest
<1>2. CASE Publish \/ Quiet \/ UNCHANGED vars \/ \E s \in Searchers : SearchStep(s)
  <2>1. UNCHANGED <<objects, disk, current, meta, up, trusted, update, clone>>
    <3>1. CASE Publish \/ Quiet \/ UNCHANGED vars
      BY <3>1 DEF Publish, Quiet, vars, storeVars, worldVars, historyVars
    <3>2. CASE \E s \in Searchers : SearchStep(s)
      <4>1. UNCHANGED <<storeVars, worldVars, update, historyVars>>
        BY <3>2 DEF SearchStep, Search, SearchStart, SearchCount, SearchQuery
      <4> QED
        BY <4>1 DEF storeVars, worldVars, historyVars
    <3> QED
      BY <1>2, <3>1, <3>2
  <2>2. \A u \in Updaters : Clean(u) => Clean(u)'
    BY <2>1 DEF Clean, Alone, Loaded, Stored, Coll
  <2>3. \A c \in Colls : Expected(c)' = Expected(c)
    BY <2>1 DEF Expected
  <2> QED
    BY <2>1, <2>2, <2>3 DEF CleanInv
<1> QED
  BY <1>1, <1>2, BeginClean, CrashClean, RestartClean DEF Next

-----------------------------------------------------------------------------
(* The theorems.                                                           *)

\* The invariant holds in every state: the store, its ingestions and searches and the
\* record, in whatever order they run, fail, and are killed (ingest.go, store.go).
THEOREM Invariant == Spec => []IInv
<1>1. Init => IInv
  <2>1. ASSUME Init PROVE RecordInv /\ DocsInv /\ CleanInv
    <3>1. /\ upstream = 1 /\ clone = NoClone /\ meta = Absent
          /\ update = [u \in Updaters |-> Resting] /\ trusted = FALSE
          /\ objects = [o \in Objects |-> {}] /\ disk = [c \in Colls |-> FreshDir]
      BY <2>1 DEF Init
    <3>2. NoClone.head = Absent /\ ~NoClone.whole /\ FreshDir.docs = {}
      BY DEF NoClone, FreshDir
    <3>3. RecordInv /\ CleanInv
      BY <3>1, <3>2, RestingTyped, MarksAreNoCommits DEF RecordInv, CleanInv
    <3>4. DocsInv
      BY <3>1, <3>2, RestingTyped DEF DocsInv, Behind
    <3> QED
      BY <3>3, <3>4
  <2> QED
    BY <2>1, InitTyped DEF IInv, Typed
<1>2. IInv /\ [Next]_vars => IInv'
  BY NextTyped, NextRecord, NextDocs, NextClean DEF IInv, Typed
<1> QED
  BY <1>1, <1>2, PTL DEF Spec

\* Store, clone, record and positions keep their types (store.go, ingest.go).
THEOREM TypeCorrect == Spec => []TypeOK
<1>1. IInv => TypeOK
  <2> SUFFICES ASSUME IInv PROVE TypeOK
    OBVIOUS
  <2>1. created \in 0..MaxObjects
    BY StoreAssumption DEF IInv, StoreInv, StoreTyped, Objects
  <2>2. \A u \in Updaters : update[u].next \in 1..(Len(Order) + 1)
    BY DEF IInv, WorkInv, UpdateStates
  <2> QED
    BY <2>1, <2>2 DEF IInv, StoreInv, StoreTyped, WorldTyped, Clones, Dirs, TypeOK
<1> QED
  BY <1>1, Invariant, PTL

\* Search reads Count() and queries later (store.go): the object it holds has not lost a
\* document meanwhile, for a reset makes a new object and AddDocuments only adds.
THEOREM CountStaysValid == Spec => []NeverOverAsks
<1>1. IInv => NeverOverAsks
  BY DEF IInv
<1> QED
  BY <1>1, Invariant, PTL

\* The commit in the metadata file is never ahead of the clone, and a knowledge base that
\* CheckFreshness calls fresh holds nothing newer than the record (freshness.go), whatever
\* overlaps, fails or dies, as long as the clone was never cut.
THEOREM RecordIsBehind == Spec => []RecordNeverAhead
<1>1. IInv => RecordNeverAhead
  <2> SUFFICES ASSUME IInv PROVE RecordNeverAhead
    OBVIOUS
  <2>1. meta \in Commits /\ clone.head \in Commits => meta <= clone.head
    BY DEF IInv, RecordInv
  <2>2. ASSUME Fresh, clone.whole, meta \in Commits, NEW c \in Colls,
               NEW d \in objects[current[c]] \cup disk[c].docs
        PROVE  d.version <= meta
    <3>1. clone.head \in Commits
      BY <2>2 DEF IInv, DocsInv
    <3>2. clone.head = meta
      BY <2>2, <3>1, MarksAreNoCommits DEF Fresh
    <3>3. current[c] \in Objects
      BY StoreAssumption DEF IInv, StoreInv, StoreTyped, Objects
    <3> QED
      BY <2>2, <3>2, <3>3 DEF IInv, DocsInv, Behind
  <2> QED
    BY <2>1, <2>2 DEF RecordNeverAhead
<1> QED
  BY <1>1, Invariant, PTL

\* After an ingestion without a mishap every collection holds the documents of the recorded
\* commit, in memory and on disk, through kills and restarts, until the next reset.
THEOREM CleanIsComplete == Spec => []CleanRunIsComplete
<1>1. IInv => CleanRunIsComplete
  BY DEF IInv, CleanInv, CleanRunIsComplete, Dir
<1> QED
  BY <1>1, Invariant, PTL
=============================================================================
