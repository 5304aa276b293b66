------------------------- MODULE Correlation_proofs -------------------------
(***************************************************************************)
(* Proofs about Correlation, for every number of processes and analyses,   *)
(* every history of the repository and all evidence: which clone a report  *)
(* speaks of, and what a good grade takes.                                 *)
(***************************************************************************)
EXTENDS Correlation, TLAPS

USE CorrelationAssumption

Grades == {"A", "B", "C", "D", "F"}

EvidenceRecords ==
  [matches : Nat, reason : BOOLEAN, config : BOOLEAN, infra : BOOLEAN,
   infraFailed : BOOLEAN, files : BOOLEAN, code : Nat, configFiles : Nat,
   codeWords : BOOLEAN, configWords : BOOLEAN]

-----------------------------------------------------------------------------
(* Bounds of the scores of Classifier.                                     *)

\* A share is between nothing and the whole, in parts of 24.
LEMMA ShareBounded ==
  ASSUME NEW a \in Nat, NEW b \in Nat, a > b
  PROVE  Share(a, b) \in 0..24
<1> DEFINE t == a + b
           n == 24 * a + (a + b) - 1
           q == n \div t
<1>1. t \in Nat /\ t > 0 /\ n \in Nat /\ n <= 25 * t - 1
  OBVIOUS
<1>2. Share(a, b) = q
  BY DEF Share
<1> HIDE DEF t, n
<1>3. q \in Int /\ t * q <= n /\ n < t * q + t
  BY <1>1, SMT
<1> HIDE DEF q
<1>4. q >= 0
  <2>1. SUFFICES ASSUME q <= -1 PROVE FALSE
    BY <1>3
  <2>2. t * q <= -t
    BY <1>1, <1>3, <2>1, SMT
  <2> QED
    BY <1>1, <1>3, <2>2
<1>5. q <= 24
  <2>1. SUFFICES ASSUME q >= 25 PROVE FALSE
    BY <1>3
  <2>2. t * q >= t * 25
    BY <1>1, <1>3, <2>1, SMT
  <2> QED
    BY <1>1, <1>3, <2>2
<1> QED
  BY <1>2, <1>3, <1>4, <1>5

LEMMA ByFilesBounded ==
  ASSUME NEW e \in EvidenceRecords
  PROVE  ByFiles(e).score \in 0..24
<1>1. e.code \in Nat /\ e.configFiles \in Nat
  BY DEF EvidenceRecords
<1>2. CASE e.code > e.configFiles
  <2>1. ByFiles(e).score = Share(e.code, e.configFiles)
    BY <1>2 DEF ByFiles
  <2> QED
    BY <1>1, <1>2, <2>1, ShareBounded
<1>3. CASE e.configFiles > e.code
  <2>1. ByFiles(e).score = Share(e.configFiles, e.code)
    BY <1>1, <1>3 DEF ByFiles
  <2> QED
    BY <1>1, <1>3, <2>1, ShareBounded
<1>4. CASE e.configFiles = e.code
  <2>1. ~(e.code > e.configFiles) /\ ~(e.configFiles > e.code)
    BY <1>1, <1>4
  <2>2. ByFiles(e) = [type |-> "unknown", score |-> 0]
    BY <2>1, Zenon DEF ByFiles
  <2> QED
    BY <2>2
<1> QED
  BY <1>1, <1>2, <1>3, <1>4

\* Drawing a score half way to one half keeps it in its range.
LEMMA TurnedBounded ==
  ASSUME NEW delta, NEW type, delta.score \in 0..24
  PROVE  Turned(delta, type).score \in 0..24
<1> DEFINE h == delta.score
<1>1. h \in 0..24
  OBVIOUS
<1> HIDE DEF h
<1>2. HalfUp(h + 12) \in 0..24
  BY <1>1 DEF HalfUp
<1>3. Turned(delta, type).score = IF delta.type = type THEN h ELSE HalfUp(h + 12)
  BY DEF Turned, h
<1> QED
  BY <1>1, <1>2, <1>3

LEMMA ByDeltaBounded ==
  ASSUME NEW e \in EvidenceRecords
  PROVE  ByDelta(e).score \in 0..24
<1> DEFINE read == IF e.codeWords THEN Turned(ByFiles(e), "code_bug") ELSE ByFiles(e)
<1>1. read.score \in 0..24
  BY ByFilesBounded, TurnedBounded
<1> HIDE DEF read
<1>2. Turned(read, "configuration").score \in 0..24
  BY <1>1, TurnedBounded
<1>3. ByDelta(e) = IF e.configWords THEN Turned(read, "configuration") ELSE read
  BY DEF ByDelta, read
<1> QED
  BY <1>1, <1>2, <1>3

LEMMA ByKeywordsBounded ==
  ASSUME NEW e \in EvidenceRecords
  PROVE  /\ ByKeywords(e).score \in 0..10
         /\ e.matches = 0 => ByKeywords(e).score \in 0..7
<1>1. e.matches \in Nat
  BY DEF EvidenceRecords
<1> QED
  BY <1>1 DEF ByKeywords

\* A confidence is at most 1, and at most 0.58 without a match in the code.
LEMMA ConfidenceBounded ==
  ASSUME NEW e \in EvidenceRecords, NEW pinned \in BOOLEAN
  PROVE  /\ Confidence(e, pinned) \in 0..600
         /\ ~pinned => Confidence(e, pinned) <= 540
         /\ e.matches = 0 => Confidence(e, pinned) <= 348
<1> DEFINE k == ByKeywords(e).score
           d == ByDelta(e).score
           n == MatchScore(e)
           b == IF pinned THEN 60 ELSE 0
<1>1. k \in 0..10 /\ (e.matches = 0 => k \in 0..7)
  BY ByKeywordsBounded
<1>2. d \in 0..24
  BY ByDeltaBounded
<1>3. n \in 0..10 /\ (e.matches = 0 => n = 0)
  BY DEF MatchScore, EvidenceRecords
<1>4. b \in {0, 60} /\ (~pinned => b = 0)
  OBVIOUS
<1>5. Confidence(e, pinned) = 24 * k + 18 * n + 5 * d + b
  BY DEF Confidence
<1> HIDE DEF k, d, n, b
<1> QED
  BY <1>1, <1>2, <1>3, <1>4, <1>5

\* What an A and a B take, whatever the evidence.
LEMMA GradesNeedEvidence ==
  ASSUME NEW e \in EvidenceRecords, NEW source \in Sources,
         NEW verified \in BOOLEAN, NEW pinned \in BOOLEAN
  PROVE  LET grade == GradeOf(Score(source, verified, pinned, e.matches,
                                    Confidence(e, pinned)))
         IN  /\ Confidence(e, pinned) \in Nat
             /\ grade \in Grades
             /\ grade = "A" => pinned /\ verified /\ e.matches > 0
             /\ grade = "B" => e.matches > 0
<1> DEFINE c == Confidence(e, pinned)
           s == SourcePoints(source)
           v == IF verified THEN 20 ELSE 0
           b == IF pinned THEN 15 ELSE 0
           x == MatchPoints(e.matches)
           score == Score(source, verified, pinned, e.matches, c)
<1>1. c \in 0..600 /\ (~pinned => c <= 540) /\ (e.matches = 0 => c <= 348)
  BY ConfidenceBounded
<1>2. s \in 0..30
  BY DEF SourcePoints, Sources
<1>3. v \in 0..20 /\ (~verified => v = 0)
  OBVIOUS
<1>4. b \in 0..15 /\ (~pinned => b = 0)
  OBVIOUS
<1>5. e.matches \in Nat /\ x \in 0..25 /\ (e.matches = 0 => x = 0)
  BY DEF MatchPoints, EvidenceRecords
<1>6. score = 60 * (s + v + b + x) + c
  BY DEF Score
<1> HIDE DEF c, s, v, b, x
<1>7. /\ score \in Nat
      /\ ~verified => score < 60 * 90
      /\ ~pinned => score < 60 * 90
      /\ e.matches = 0 => score < 60 * 75
  BY <1>1, <1>2, <1>3, <1>4, <1>5, <1>6
<1> HIDE DEF score
<1>8. /\ GradeOf(score) \in Grades
      /\ GradeOf(score) = "A" => score >= 60 * 90
      /\ GradeOf(score) = "B" => score >= 60 * 75
  BY <1>7 DEF GradeOf, Grades
<1>9. c \in Nat
  BY <1>1
<1> QED
  BY <1>5, <1>7, <1>8, <1>9 DEF score, c

\* What the verdict of a code bug rests on.
Grounded(e) == e.matches > 0 \/ (e.code # e.configFiles /\ ~e.configWords)

\* A delta in which no kind of file prevails speaks for a code bug only with less
\* than one half, and one with a configuration word never does.
LEMMA DeltaNeedsLean ==
  ASSUME NEW e \in EvidenceRecords, ByDelta(e).type = "code_bug", ByDelta(e).score > 12
  PROVE  e.code # e.configFiles /\ ~e.configWords
<1> DEFINE read == IF e.codeWords THEN Turned(ByFiles(e), "code_bug") ELSE ByFiles(e)
<1>1. ByDelta(e) = IF e.configWords THEN Turned(read, "configuration") ELSE read
  BY DEF ByDelta
<1>2. ~e.configWords
  <2> HIDE DEF read
  <2>1. Turned(read, "configuration").type = "configuration"
    BY DEF Turned
  <2> QED BY <1>1, <2>1
<1>3. read.type = "code_bug" /\ read.score > 12
  <2> HIDE DEF read
  <2> QED BY <1>1, <1>2
<1>4. ASSUME e.code = e.configFiles PROVE FALSE
  <2>1. ~(e.code > e.configFiles) /\ ~(e.configFiles > e.code)
    BY <1>4 DEF EvidenceRecords
  <2>2. ByFiles(e) = [type |-> "unknown", score |-> 0]
    BY <2>1, Zenon DEF ByFiles
  <2>3. Turned(ByFiles(e), "code_bug").score = 6
    BY <2>2 DEF Turned, HalfUp
  <2>4. read = IF e.codeWords THEN Turned(ByFiles(e), "code_bug") ELSE ByFiles(e)
    OBVIOUS
  <2> HIDE DEF read
  <2> QED BY <1>3, <2>2, <2>3, <2>4
<1> QED BY <1>2, <1>4

LEMMA CodeBugGrounded ==
  ASSUME NEW e \in EvidenceRecords, TypeOf(e) = "code_bug"
  PROVE  Grounded(e)
<1>1. CASE ByKeywords(e).type = "code_bug"
  <2>1. e.matches > 0
    BY <1>1 DEF ByKeywords
  <2> QED BY <2>1 DEF Grounded
<1>2. CASE ByDelta(e).type = "code_bug" /\ ByDelta(e).score > 12
  BY <1>2, DeltaNeedsLean DEF Grounded
<1> QED BY <1>1, <1>2 DEF TypeOf

-----------------------------------------------------------------------------
(* The inductive invariant.  That matches and commits agree rests on what  *)
(* comes before it: a process about to read the log has searched the clone *)
(* that is still there, because a whole clone is never replaced, which in  *)
(* turn holds since only a process in "cloning" replaces anything and it   *)
(* is then the only one.                                                   *)

Judgements ==
  {0} \cup [found : EvidenceRecords, verified : BOOLEAN, confidence : Nat]

AnalysisStates ==
  [at : Places, commit : BOOLEAN, pinned : BOOLEAN, searched : Commits \cup {0, Part},
   logged : Commits \cup {0}, matches : Nat, evidence : Judgements, type : Types,
   grade : Grades]

CacheStates == {Absent, Cloning, Cut} \cup {Whole(v) : v \in Commits}

Typed ==
  /\ cache \in CacheStates /\ upstream \in Commits
  /\ proc \in [Procs -> AnalysisStates]

Untouched == {"idle", "pinned", "check", "clone", "cloning", "update", "search"}

\* What is known of one analysis r beside a cache c.
Sound(r, c) ==
  /\ r.at \in Untouched => ~r.pinned /\ r.searched = 0 /\ r.logged = 0
  /\ r.at = "pinned" => r.commit
  /\ r.at = "log" => /\ ~r.pinned /\ r.searched # 0 /\ r.logged = 0
                     /\ r.searched \in Commits => c = Whole(r.searched)
  /\ r.pinned => r.commit /\ r.searched # 0 /\ r.logged = 0
  /\ r.searched \in Commits /\ r.logged \in Commits => r.searched = r.logged
  /\ r.at = "done" =>
       /\ r.grade = "A" => r.pinned /\ r.evidence.verified /\ r.matches > 0
       /\ r.grade = "B" => r.matches > 0
       /\ r.type = "code_bug" => Grounded(r.evidence.found)

IInv == Typed /\ OneCloner /\ \A p \in Procs : Sound(proc[p], cache)

LEMMA FindsNat ==
  ASSUME NEW v, NEW m \in Finds(v)
  PROVE  m \in Nat
BY DEF Finds

\* The distinct states of the clone.
LEMMA CacheFacts ==
  /\ Absent # Cloning /\ Absent # Cut /\ Cut # Cloning
  /\ \A v : Whole(v) # Absent /\ Whole(v) # Cloning /\ Whole(v) # Cut
  /\ \A v, w : Whole(v) = Whole(w) => v = w
  /\ \A v : Whole(v).head = v /\ Whole(v).state = "whole"
  /\ \A c \in CacheStates : c.head \in Commits \cup {0}
  /\ \A c \in CacheStates : c.state = "whole" => c.head \in Commits /\ c = Whole(c.head)
BY DEF Absent, Cloning, Cut, Whole, CacheStates

LEMMA InitIInv == Init => IInv
<1> SUFFICES ASSUME Init PROVE IInv
  OBVIOUS
<1>1. Resting \in AnalysisStates
  BY DEF Resting, AnalysisStates, Places, Types, Grades, Judgements
<1>2. Typed
  BY <1>1 DEF Init, Typed, CacheStates
<1>3. \A p \in Procs : proc[p] = Resting
  BY DEF Init
<1>4. OneCloner
  BY <1>3, CacheFacts DEF Init, OneCloner, At, Resting
<1>5. Sound(Resting, cache)
  BY DEF Sound, Resting, Untouched
<1> QED
  BY <1>2, <1>3, <1>4, <1>5 DEF IInv

\* A step of process p to r that leaves the clone alone and neither begins nor ends
\* making it.
LEMMA QuietStep ==
  ASSUME NEW p \in Procs, NEW r \in AnalysisStates, IInv,
         proc' = [proc EXCEPT ![p] = r],
         proc[p].at # "cloning", r.at # "cloning",
         cache' = cache, upstream' \in Commits, Sound(r, cache)
  PROVE  IInv'
<1>1. Typed'
  BY DEF IInv, Typed
<1>2. proc'[p] = r /\ \A q \in Procs \ {p} : proc'[q] = proc[q]
  BY DEF IInv, Typed
<1>3. \A q \in Procs : At(q, "cloning")' <=> At(q, "cloning")
  BY <1>2 DEF At
<1>4. OneCloner'
  BY <1>3 DEF IInv, OneCloner
<1>5. \A q \in Procs : Sound(proc'[q], cache')
  BY <1>2 DEF IInv
<1> QED
  BY <1>1, <1>4, <1>5 DEF IInv

\* A step of process p that changes a clone which is not whole: nobody has searched
\* it, so that nothing known of the others depends on it.
LEMMA CloningStep ==
  ASSUME NEW p \in Procs, NEW r \in AnalysisStates, IInv,
         proc' = [proc EXCEPT ![p] = r],
         \A v \in Commits : cache # Whole(v),
         cache' \in CacheStates, upstream' \in Commits, Sound(r, cache'), OneCloner'
  PROVE  IInv'
<1>1. Typed'
  BY DEF IInv, Typed
<1>2. proc'[p] = r /\ \A q \in Procs \ {p} : proc'[q] = proc[q]
  BY DEF IInv, Typed
<1>3. ASSUME NEW q \in Procs \ {p} PROVE Sound(proc'[q], cache')
  <2>1. Sound(proc[q], cache) /\ proc'[q] = proc[q]
    BY <1>2 DEF IInv
  <2> QED
    BY <2>1 DEF Sound
<1> QED
  BY <1>1, <1>2, <1>3 DEF IInv

\* An analysis that has looked at nothing yet goes on.
LEMMA GotoStep ==
  ASSUME NEW p \in Procs, NEW where \in {"check", "clone", "update", "search", "classify"},
         IInv, Goto(p, where), proc[p].at \in Untouched, proc[p].at # "cloning",
         UNCHANGED <<cache, upstream>>
  PROVE  IInv'
<1> DEFINE r == [proc[p] EXCEPT !.at = where]
<1>1. proc[p] \in AnalysisStates /\ Sound(proc[p], cache) /\ upstream' \in Commits
  BY DEF IInv, Typed
<1>2. r \in AnalysisStates /\ r.at # "cloning"
  BY <1>1 DEF AnalysisStates, Places
<1>3. Sound(r, cache)
  BY <1>1 DEF AnalysisStates, Sound, Untouched
<1>4. proc' = [proc EXCEPT ![p] = r]
  BY DEF Goto
<1> HIDE DEF r
<1> QED
  BY <1>1, <1>2, <1>3, <1>4, QuietStep

LEMMA BeginIInv ==
  ASSUME NEW p \in Procs, IInv, Begin(p)
  PROVE  IInv'
<1>1. PICK commit \in BOOLEAN, where \in {"pinned", "check", "classify"} :
        /\ where = "pinned" => commit
        /\ proc' = [proc EXCEPT ![p] = [Resting EXCEPT !.at = where, !.commit = commit]]
  BY DEF Begin
<1> DEFINE r == [Resting EXCEPT !.at = where, !.commit = commit]
<1>2. r \in AnalysisStates
  BY DEF Resting, AnalysisStates, Places, Types, Grades, Judgements
<1>3. Sound(r, cache) /\ r.at # "cloning"
  BY <1>1 DEF Sound, Resting, Untouched
<1> HIDE DEF r
<1> QED
  BY <1>1, <1>2, <1>3, QuietStep DEF Begin, At, IInv, Typed, r

LEMMA PinnedCloneIInv ==
  ASSUME NEW p \in Procs, IInv, PinnedClone(p)
  PROVE  IInv'
<1>1. /\ proc[p] \in AnalysisStates /\ Sound(proc[p], cache)
      /\ proc[p].at = "pinned" /\ cache' = cache
      /\ upstream' = upstream /\ upstream \in Commits
  BY DEF IInv, Typed, PinnedClone, At
<1>2. CASE \E v \in {Deployed, upstream, Part} : \E m \in Finds(v) :
             proc' = [proc EXCEPT ![p].at = "classify", ![p].pinned = TRUE,
                                  ![p].searched = v, ![p].matches = m]
  <2>1. PICK v \in {Deployed, upstream, Part} : \E m \in Finds(v) :
          proc' = [proc EXCEPT ![p].at = "classify", ![p].pinned = TRUE,
                               ![p].searched = v, ![p].matches = m]
    BY <1>2
  <2>2. PICK m \in Finds(v) :
          proc' = [proc EXCEPT ![p].at = "classify", ![p].pinned = TRUE,
                               ![p].searched = v, ![p].matches = m]
    BY <2>1
  <2> DEFINE r == [proc[p] EXCEPT !.at = "classify", !.pinned = TRUE,
                                  !.searched = v, !.matches = m]
  <2>3. m \in Nat /\ v \in Commits \cup {Part} /\ v # 0
    BY <1>1, FindsNat DEF Commits
  <2>4. r \in AnalysisStates
    BY <1>1, <2>3 DEF AnalysisStates, Places
  <2>5. Sound(r, cache) /\ r.at # "cloning"
    BY <1>1, <2>3 DEF Sound, Untouched, AnalysisStates, Commits
  <2>6. proc' = [proc EXCEPT ![p] = r]
    BY <2>2 DEF IInv, Typed
  <2> HIDE DEF r
  <2> QED
    BY <1>1, <2>4, <2>5, <2>6, QuietStep
<1>3. CASE Goto(p, "check")
  BY <1>1, <1>3, GotoStep DEF Untouched
<1> QED
  BY <1>2, <1>3 DEF PinnedClone

LEMMA CheckCacheIInv ==
  ASSUME NEW p \in Procs, IInv, CheckCache(p)
  PROVE  IInv'
BY GotoStep DEF CheckCache, At, Untouched

LEMMA UpdateIInv ==
  ASSUME NEW p \in Procs, IInv, Update(p)
  PROVE  IInv'
BY GotoStep DEF Update, At, Untouched

\* The clone that is begun was absent, so nobody else is making one.
LEMMA StartCloneIInv ==
  ASSUME NEW p \in Procs, IInv, StartClone(p)
  PROVE  IInv'
<1>1. /\ proc[p] \in AnalysisStates /\ Sound(proc[p], cache)
      /\ proc[p].at = "clone" /\ upstream' \in Commits /\ upstream' = upstream
  BY DEF IInv, Typed, StartClone, At
<1>2. CASE cache' = cache /\ Goto(p, "classify")
  BY <1>1, <1>2, GotoStep DEF Untouched
<1>3. CASE cache = Absent /\ cache' = Cloning /\ Goto(p, "cloning")
  <2> DEFINE r == [proc[p] EXCEPT !.at = "cloning"]
  <2>1. r \in AnalysisStates /\ r.at = "cloning" /\ Sound(r, cache')
    BY <1>1 DEF AnalysisStates, Places, Sound, Untouched
  <2>2. proc' = [proc EXCEPT ![p] = r]
    BY <1>3 DEF Goto
  <2> HIDE DEF r
  <2>3. \A q \in Procs : ~At(q, "cloning")
    BY <1>3, CacheFacts DEF IInv, OneCloner
  <2>4. \A q \in Procs : At(q, "cloning")' <=> q = p
    BY <2>1, <2>2, <2>3 DEF At, IInv, Typed
  <2>5. OneCloner'
    BY <1>3, <2>4 DEF OneCloner
  <2>6. cache' \in CacheStates /\ \A v \in Commits : cache # Whole(v)
    BY <1>3, CacheFacts DEF CacheStates
  <2> QED
    BY <1>1, <2>1, <2>2, <2>5, <2>6, CloningStep
<1> QED
  BY <1>2, <1>3 DEF StartClone

\* The only process that makes the clone stops making it, as r.
LEMMA ClonerLeaves ==
  ASSUME NEW p \in Procs, NEW r \in AnalysisStates, IInv, At(p, "cloning"),
         proc' = [proc EXCEPT ![p] = r], r.at # "cloning",
         cache' \in {Absent, Cut, Whole(upstream)}, upstream' = upstream, Sound(r, cache')
  PROVE  IInv'
<1>1. cache = Cloning /\ \A q \in Procs : At(q, "cloning") => q = p
  BY DEF IInv, OneCloner
<1>2. \A q \in Procs : ~At(q, "cloning")'
  BY <1>1 DEF At, IInv, Typed
<1>3. cache' \in CacheStates /\ cache' # Cloning /\ upstream' \in Commits
  BY CacheFacts DEF CacheStates, IInv, Typed
<1>4. OneCloner'
  BY <1>2, <1>3 DEF OneCloner
<1>5. \A v \in Commits : cache # Whole(v)
  BY <1>1, CacheFacts
<1> QED
  BY <1>3, <1>4, <1>5, CloningStep

LEMMA EndCloneIInv ==
  ASSUME NEW p \in Procs, IInv, EndClone(p)
  PROVE  IInv'
<1>1. PICK where \in {"search", "classify"} :
        Goto(p, where) /\ cache' \in {Absent, Cut, Whole(upstream)}
  BY DEF EndClone
<1> DEFINE r == [proc[p] EXCEPT !.at = where]
<1>2. proc[p] \in AnalysisStates /\ Sound(proc[p], cache) /\ proc[p].at = "cloning"
  BY DEF IInv, Typed, EndClone, At
<1>3. r \in AnalysisStates /\ r.at # "cloning"
  BY <1>2 DEF AnalysisStates, Places
<1>4. Sound(r, cache')
  BY <1>2 DEF AnalysisStates, Sound, Untouched
<1>5. proc' = [proc EXCEPT ![p] = r]
  BY <1>1 DEF Goto
<1> HIDE DEF r
<1> QED
  BY <1>1, <1>3, <1>4, <1>5, ClonerLeaves DEF EndClone

\* What was searched is a commit only if the clone is whole and at that commit.
LEMMA SearchIInv ==
  ASSUME NEW p \in Procs, IInv, Search(p)
  PROVE  IInv'
<1>1. /\ proc[p] \in AnalysisStates /\ Sound(proc[p], cache) /\ cache \in CacheStates
      /\ proc[p].at = "search" /\ cache' = cache /\ upstream' \in Commits
  BY DEF IInv, Typed, Search, At
<1>2. PICK m \in Finds(Tree) :
        proc' = [proc EXCEPT ![p].at = "log", ![p].searched = Tree, ![p].matches = m]
  BY DEF Search
<1> DEFINE r == [proc[p] EXCEPT !.at = "log", !.searched = Tree, !.matches = m]
<1>3. m \in Nat /\ Tree \in Commits \cup {Part} /\ Tree # 0
      /\ (Tree \in Commits => cache = Whole(Tree))
  <2>1. m \in Nat
    BY FindsNat
  <2>2. CASE cache.state = "whole"
    BY <1>1, <2>1, <2>2, CacheFacts DEF Tree, Commits
  <2>3. CASE cache.state # "whole"
    BY <2>1, <2>3 DEF Tree, Commits
  <2> QED
    BY <2>2, <2>3
<1>4. r \in AnalysisStates /\ r.at # "cloning"
  BY <1>1, <1>3 DEF AnalysisStates, Places
<1>5. Sound(r, cache)
  BY <1>1, <1>3 DEF AnalysisStates, Sound, Untouched, Commits
<1>6. proc' = [proc EXCEPT ![p] = r]
  BY <1>2 DEF IInv, Typed
<1> HIDE DEF r
<1> QED
  BY <1>1, <1>4, <1>5, <1>6, QuietStep

LEMMA LogIInv ==
  ASSUME NEW p \in Procs, IInv, Log(p)
  PROVE  IInv'
<1>1. /\ proc[p] \in AnalysisStates /\ Sound(proc[p], cache) /\ cache \in CacheStates
      /\ proc[p].at = "log" /\ cache' = cache /\ upstream' \in Commits
  BY DEF IInv, Typed, Log, At
<1>2. PICK head \in {0, cache.head} :
        proc' = [proc EXCEPT ![p].at = "classify", ![p].logged = head]
  BY DEF Log
<1> DEFINE r == [proc[p] EXCEPT !.at = "classify", !.logged = head]
<1>3. head \in Commits \cup {0}
  BY <1>1, CacheFacts
<1>4. proc[p].searched \in Commits => cache.head = proc[p].searched
  BY <1>1, CacheFacts DEF Sound
<1>5. r \in AnalysisStates /\ r.at # "cloning"
  BY <1>1, <1>3 DEF AnalysisStates, Places
<1>6. 0 \notin Commits
  BY DEF Commits
<1>7. Sound(r, cache)
  <2>1. ~r.pinned /\ r.at = "classify" /\ r.searched = proc[p].searched /\ r.logged = head
    BY <1>1 DEF AnalysisStates, Sound
  <2>2. r.searched \in Commits /\ r.logged \in Commits => r.searched = r.logged
    BY <1>2, <1>4, <1>6, <2>1
  <2> HIDE DEF r
  <2> QED
    BY <2>1, <2>2 DEF Sound, Untouched
<1>8. proc' = [proc EXCEPT ![p] = r]
  BY <1>2 DEF IInv, Typed
<1> HIDE DEF r
<1> QED
  BY <1>1, <1>5, <1>7, <1>8, QuietStep

LEMMA TypeOfType ==
  ASSUME NEW e
  PROVE  TypeOf(e) \in Types
BY DEF TypeOf, Types

\* A report gets its grade from the evidence it is stored with.
LEMMA ClassifyIInv ==
  ASSUME NEW p \in Procs, IInv, Classify(p)
  PROVE  IInv'
<1>1. /\ proc[p] \in AnalysisStates /\ Sound(proc[p], cache)
      /\ proc[p].at = "classify" /\ cache' = cache /\ upstream' \in Commits
  BY DEF IInv, Typed, Classify, At
<1>2. PICK e \in Evidence, registered \in BOOLEAN, labelled \in BOOLEAN, verified \in Verified :
        LET found      == WithMatches(e, proc[p].matches)
            source     == SourceOf(registered, labelled, FALSE)
            confidence == Confidence(found, proc[p].pinned)
            score      == Score(source, verified, proc[p].pinned, proc[p].matches, confidence)
        IN  proc' = [proc EXCEPT ![p].at = "done", ![p].type = TypeOf(found),
                       ![p].grade = GradeOf(score),
                       ![p].evidence = [found |-> found, verified |-> verified,
                                        confidence |-> confidence]]
  BY DEF Classify
<1> DEFINE found      == WithMatches(e, proc[p].matches)
           source     == SourceOf(registered, labelled, FALSE)
           confidence == Confidence(found, proc[p].pinned)
           grade      == GradeOf(Score(source, verified, proc[p].pinned,
                                       proc[p].matches, confidence))
           judgement  == [found |-> found, verified |-> verified,
                          confidence |-> confidence]
           r == [proc[p] EXCEPT !.at = "done", !.type = TypeOf(found),
                                !.grade = grade, !.evidence = judgement]
<1>3. found \in EvidenceRecords /\ found.matches = proc[p].matches
  BY <1>1 DEF WithMatches, EvidenceOf, EvidenceRecords, AnalysisStates
<1>4. source \in Sources /\ verified \in BOOLEAN /\ proc[p].pinned \in BOOLEAN
      /\ proc[p].matches \in Nat
  BY <1>1 DEF SourceOf, Sources, Verified, AnalysisStates
<1>5. proc' = [proc EXCEPT ![p] = r]
  BY <1>2 DEF IInv, Typed
<1>6. TypeOf(found) \in Types
  BY TypeOfType
<1> HIDE DEF found, source
<1>7. confidence \in Nat
  BY <1>3, <1>4, GradesNeedEvidence, SMT
<1>8. /\ grade \in Grades
      /\ grade = "A" => proc[p].pinned /\ verified /\ proc[p].matches > 0
      /\ grade = "B" => proc[p].matches > 0
  BY <1>3, <1>4, GradesNeedEvidence
<1>12. TypeOf(found) = "code_bug" => Grounded(found)
  BY <1>3, CodeBugGrounded
<1> HIDE DEF confidence, grade
<1>9. /\ judgement \in Judgements
      /\ judgement.verified = verified /\ judgement.found = found
  <2>1. judgement \in [found : EvidenceRecords, verified : BOOLEAN, confidence : Nat]
    BY <1>3, <1>4, <1>7, Zenon
  <2> QED
    BY <2>1, Zenon DEF Judgements
<1> HIDE DEF judgement
<1>10. r \in AnalysisStates /\ r.at # "cloning"
  BY <1>1, <1>6, <1>8, <1>9 DEF AnalysisStates, Places
<1>11. Sound(r, cache)
  BY <1>1, <1>8, <1>9, <1>12 DEF AnalysisStates, Sound, Untouched
<1> HIDE DEF r
<1> QED
  BY <1>1, <1>5, <1>10, <1>11, QuietStep

LEMMA RestingSound ==
  /\ Resting \in AnalysisStates /\ Resting.at = "idle"
  /\ \A c : Sound(Resting, c)
BY DEF Resting, AnalysisStates, Places, Types, Grades, Judgements, Sound, Untouched

LEMMA FinishIInv ==
  ASSUME NEW p \in Procs, IInv, Finish(p)
  PROVE  IInv'
BY RestingSound, QuietStep DEF Finish, At, IInv, Typed

LEMMA KillIInv ==
  ASSUME NEW p \in Procs, IInv, Kill(p)
  PROVE  IInv'
<1>1. proc' = [proc EXCEPT ![p] = Resting] /\ upstream' = upstream /\ upstream \in Commits
  BY DEF Kill, IInv, Typed
<1>2. CASE At(p, "cloning")
  <2>1. cache' \in {Absent, Cut, Whole(upstream)}
    BY <1>2 DEF Kill
  <2> QED
    BY <1>1, <1>2, <2>1, RestingSound, ClonerLeaves
<1>3. CASE ~At(p, "cloning")
  <2>1. cache' = cache
    BY <1>3 DEF Kill
  <2> QED
    BY <1>1, <1>3, <2>1, RestingSound, QuietStep DEF At
<1> QED
  BY <1>2, <1>3

LEMMA UnchangedIInv ==
  ASSUME IInv, UNCHANGED <<cache, proc>>, upstream' \in Commits
  PROVE  IInv'
BY DEF IInv, Typed, OneCloner, At

LEMMA NextIInv == IInv /\ [Next]_vars => IInv'
<1> SUFFICES ASSUME IInv, [Next]_vars PROVE IInv'
  OBVIOUS
<1>1. CASE \E p \in Procs : Step(p) \/ Kill(p)
  <2>1. PICK p \in Procs : Step(p) \/ Kill(p)
    BY <1>1
  <2>2. CASE Begin(p)
    BY <2>2, BeginIInv
  <2>3. CASE PinnedClone(p)
    BY <2>3, PinnedCloneIInv
  <2>4. CASE CheckCache(p)
    BY <2>4, CheckCacheIInv
  <2>5. CASE StartClone(p)
    BY <2>5, StartCloneIInv
  <2>6. CASE EndClone(p)
    BY <2>6, EndCloneIInv
  <2>7. CASE Update(p)
    BY <2>7, UpdateIInv
  <2>8. CASE Search(p)
    BY <2>8, SearchIInv
  <2>9. CASE Log(p)
    BY <2>9, LogIInv
  <2>10. CASE Classify(p)
    BY <2>10, ClassifyIInv
  <2>11. CASE Finish(p)
    BY <2>11, FinishIInv
  <2>12. CASE Kill(p)
    BY <2>12, KillIInv
  <2> QED
    BY <2>1, <2>2, <2>3, <2>4, <2>5, <2>6, <2>7, <2>8, <2>9, <2>10, <2>11, <2>12 DEF Step
<1>2. CASE Publish
  BY <1>2, UnchangedIInv DEF Publish
<1>3. CASE AllDone \/ UNCHANGED vars
  <2>1. UNCHANGED <<cache, proc, upstream>>
    BY <1>3 DEF AllDone, vars
  <2> QED
    BY <2>1, UnchangedIInv DEF IInv, Typed
<1> QED
  BY <1>1, <1>2, <1>3 DEF Next

\* The invariant the theorems below are read off.
THEOREM Invariant == Spec => []IInv
<1> QED
  BY InitIInv, NextIInv, PTL DEF Spec

\* Every report has a type and a grade, and the clone is absent, being made, cut
\* off or whole, whatever order the processes of cache.go and correlator.go run in.
THEOREM TypeCorrect == Spec => []TypeOK
<1>1. IInv => TypeOK
  BY DEF IInv, Typed, TypeOK, AnalysisStates, CacheStates, Grades
<1> QED
  BY <1>1, Invariant, PTL

\* One process at most makes the cached clone (cache.go:36).
THEOREM ClonerUnique == Spec => []OneCloner
<1>1. IInv => OneCloner
  BY DEF IInv
<1> QED
  BY <1>1, Invariant, PTL

\* The matches and the commits of a report are of one commit (correlator.go:171),
\* with any number of analyses on the same clone.
THEOREM VersionsAgree == Spec => []OneVersion
<1>1. IInv => OneVersion
  BY DEF IInv, Sound, OneVersion
<1> QED
  BY <1>1, Invariant, PTL

\* A report that says it was pinned used nothing of the cache (correlator.go:103).
THEOREM PinnedApart == Spec => []PinnedIsPrivate
<1>1. IInv => PinnedIsPrivate
  BY DEF IInv, Sound, PinnedIsPrivate
<1> QED
  BY <1>1, Invariant, PTL

\* The thresholds of computeGrade (correlator.go:231) against all weights: an A
\* takes a verified repository, a pinned analysis and matches, a B takes matches.
THEOREM GradesEarned == Spec => []GradeEarned
<1>1. IInv => GradeEarned
  BY DEF IInv, Sound, GradeEarned, Reported, At
<1> QED
  BY <1>1, Invariant, PTL

\* ClassifyEnhanced never calls a failure a code bug from words alone: there is a
\* match in the code, or the changed files lean to one side and no configuration
\* word occurs, for all counts of matches and files.
THEOREM CodeBugsGrounded == Spec => []CodeBugHasGround
<1>1. IInv => CodeBugHasGround
  BY DEF IInv, Sound, CodeBugHasGround, Reported, At, Grounded
<1> QED
  BY <1>1, Invariant, PTL
=============================================================================
