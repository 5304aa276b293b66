---------------------------- MODULE Correlation ----------------------------
(***************************************************************************)
(* Correlating a failure with the operator's source repository: Correlate  *)
(* in src/internal/openshift/correlator.go, over the clones that           *)
(* CloneOrUpdate in cache.go keeps for all analyses and the private clone  *)
(* of CloneAndAnalyze in src/internal/codeanalysis/analyze.go.             *)
(*                                                                         *)
(* Analyses run in processes of their own and share the cache; each runs   *)
(* under a timeout that kills its git command, and may be killed itself.   *)
(* One repository stands for all, its commits are numbers, and the code    *)
(* searched is the number of its matches.                                  *)
(***************************************************************************)
EXTENDS Classifier, Sequences

CONSTANTS Procs,        \* processes that may run an analysis
          Evidence,     \* what the text, the checks and the delta show
          Hits,         \* commit -> matches of the failure in its code
          Deployed,     \* the commit the bundle was built from
          Part,         \* an incomplete working tree
          MaxAnalyses,  \* bound on analyses
          MaxKills      \* bound on killed processes

ASSUME CorrelationAssumption ==
  /\ Hits \in Seq(Nat) /\ Deployed \in DOMAIN Hits /\ Part \notin DOMAIN Hits \cup {0}
  /\ \A e \in Evidence : e \in EvidenceOf(Nat) /\ e.reason /\ e.matches = 0

Commits == DOMAIN Hits

VARIABLES
  cache,     \* the cached clone: its state and the commit of its tree
  upstream,  \* the commit the remote repository is at
  proc,      \* the analysis of each process
  analyses,  \* analyses started so far
  kills      \* processes killed so far

vars == <<cache, upstream, proc, analyses, kills>>

Absent   == [state |-> "absent", head |-> 0]
Cloning  == [state |-> "cloning", head |-> 0]
Cut      == [state |-> "cut", head |-> 0]
Whole(v) == [state |-> "whole", head |-> v]

Resting == [at |-> "idle", commit |-> FALSE, pinned |-> FALSE, searched |-> 0, logged |-> 0,
            matches |-> 0, evidence |-> 0, type |-> "unknown", grade |-> "F"]

Init ==
  /\ cache = Absent /\ upstream \in Commits
  /\ proc = [p \in Procs |-> Resting]
  /\ analyses = 0 /\ kills = 0

At(p, where)   == proc[p].at = where
Goto(p, where) == proc' = [proc EXCEPT ![p].at = where]

-----------------------------------------------------------------------------
(* The code of the repository.                                             *)

\* With a commit in the labels of the bundle the code is searched at that commit;
\* without a pattern to look for it is not searched.
Begin(p) ==
  /\ At(p, "idle") /\ analyses < MaxAnalyses
  /\ analyses' = analyses + 1
  /\ \E commit \in BOOLEAN, where \in {"pinned", "check", "classify"} :
       /\ where = "pinned" => commit
       /\ where = "check" => ~commit
       /\ proc' = [proc EXCEPT ![p] = [Resting EXCEPT !.at = where, !.commit = commit]]
  /\ UNCHANGED <<cache, upstream, kills>>

\* Analyze of a tree: git grep finds what there is, and the walk that takes its
\* place when it fails (on files of some types) may find less.
Finds(v) == IF v = Part THEN UNION {0..Hits[u] : u \in Commits} ELSE 0..Hits[v]

\* CloneAndAnalyze, in a directory of its own.  The errors of the fetch and of the
\* checkout of the commit are dropped: the tree may then be the newest one, or what
\* a killed checkout left.  When the clone itself fails the cache is used instead.
PinnedClone(p) ==
  /\ At(p, "pinned")
  /\ \/ \E v \in {Deployed, upstream, Part} : \E m \in Finds(v) :
          proc' = [proc EXCEPT ![p].at = "classify", ![p].pinned = TRUE,
                               ![p].searched = v, ![p].matches = m]
     \/ Goto(p, "check")
  /\ UNCHANGED <<cache, upstream, analyses, kills>>

\* CloneOrUpdate: a .git directory is taken for a clone, whoever is making it.
CheckCache(p) ==
  /\ At(p, "check")
  /\ Goto(p, IF cache = Absent THEN "clone" ELSE "update")
  /\ UNCHANGED <<cache, upstream, analyses, kills>>

\* Mutant of StartClone: the directory is removed and cloned again.
CloneAnew(p) ==
  /\ At(p, "clone")
  /\ \/ cache' = Cloning /\ Goto(p, "cloning")
     \/ cache' = cache /\ Goto(p, "classify")
  /\ UNCHANGED <<upstream, analyses, kills>>

\* git refuses a directory that another process has begun to fill meanwhile.
StartClone(p) ==
  /\ At(p, "clone")
  /\ \/ cache = Absent /\ cache' = Cloning /\ Goto(p, "cloning")
     \/ cache' = cache /\ Goto(p, "classify")
  /\ UNCHANGED <<upstream, analyses, kills>>

\* git clone succeeds, fails and removes what it made, or is killed by the timeout.
EndClone(p) ==
  /\ At(p, "cloning")
  /\ \/ cache' = Whole(upstream) /\ Goto(p, "search")
     \/ cache' \in {Absent, Cut} /\ Goto(p, "classify")
  /\ UNCHANGED <<upstream, analyses, kills>>

\* Mutant of Update: what was fetched is checked out.
UpdateTree(p) ==
  /\ At(p, "update")
  /\ cache' \in {cache} \cup (IF cache.state = "whole" THEN {Whole(upstream)} ELSE {})
  /\ Goto(p, "search")
  /\ UNCHANGED <<upstream, analyses, kills>>

\* A clone that was not updated for a day is fetched, and the error dropped.  The
\* fetch does not touch HEAD or the tree.
Update(p) ==
  /\ At(p, "update")
  /\ Goto(p, "search")
  /\ UNCHANGED <<cache, upstream, analyses, kills>>

Tree == IF cache.state = "whole" THEN cache.head ELSE Part

\* Analyze over what is in the directory now.
Search(p) ==
  /\ At(p, "search")
  /\ \E m \in Finds(Tree) :
       proc' = [proc EXCEPT ![p].at = "log", ![p].searched = Tree, ![p].matches = m]
  /\ UNCHANGED <<cache, upstream, analyses, kills>>

\* RecentCommits of HEAD; there are none without a HEAD, or when git fails.
Log(p) ==
  /\ At(p, "log")
  /\ \E head \in {0, cache.head} :
       proc' = [proc EXCEPT ![p].at = "classify", ![p].logged = head]
  /\ UNCHANGED <<cache, upstream, analyses, kills>>

-----------------------------------------------------------------------------
(* The result.                                                             *)

\* resolveRepo: the first source that knows a repository.  No caller of Correlate
\* hands it the URLs listed in a CSV.
SourceOf(registered, labelled, listed) ==
  IF registered THEN "static_registry" ELSE IF labelled THEN "bundle_labels"
  ELSE IF listed THEN "bundle_csv" ELSE "inferred"

\* VerifyRepo confirms the repository, denies it, or cannot tell.
Verified == BOOLEAN

WithMatches(e, n) == [e EXCEPT !.matches = n]

Classify(p) ==
  /\ At(p, "classify")
  /\ \E e \in Evidence, registered, labelled \in BOOLEAN, verified \in Verified :
       LET evidence   == WithMatches(e, proc[p].matches)
           source     == SourceOf(registered, labelled, FALSE)
           confidence == Confidence(evidence, proc[p].pinned)
           score      == Score(source, verified, proc[p].pinned, proc[p].matches, confidence)
       IN  proc' = [proc EXCEPT ![p].at = "done", ![p].type = TypeOf(evidence),
                      ![p].grade = GradeOf(score),
                      ![p].evidence = [found |-> evidence, verified |-> verified,
                                       confidence |-> confidence]]
  /\ UNCHANGED <<cache, upstream, analyses, kills>>

Finish(p) ==
  /\ At(p, "done")
  /\ proc' = [proc EXCEPT ![p] = Resting]
  /\ UNCHANGED <<cache, upstream, analyses, kills>>

-----------------------------------------------------------------------------
\* The git command of a killed analysis is cut off too, or still ends.
Kill(p) ==
  /\ ~At(p, "idle") /\ kills < MaxKills
  /\ kills' = kills + 1
  /\ cache' \in IF At(p, "cloning") THEN {Absent, Cut, Whole(upstream)} ELSE {cache}
  /\ proc' = [proc EXCEPT ![p] = Resting]
  /\ UNCHANGED <<upstream, analyses>>

Publish ==
  /\ upstream + 1 \in Commits
  /\ upstream' = upstream + 1
  /\ UNCHANGED <<cache, proc, analyses, kills>>

AllDone == analyses = MaxAnalyses /\ (\A p \in Procs : At(p, "idle")) /\ UNCHANGED vars

Step(p) ==
  \/ Begin(p) \/ PinnedClone(p) \/ CheckCache(p) \/ StartClone(p) \/ EndClone(p)
  \/ Update(p) \/ Search(p) \/ Log(p) \/ Classify(p) \/ Finish(p)

Next == (\E p \in Procs : Step(p) \/ Kill(p)) \/ Publish \/ AllDone

Spec == Init /\ [][Next]_vars

-----------------------------------------------------------------------------
(* Properties.                                                             *)

Places == {"idle", "pinned", "check", "clone", "cloning", "update", "search", "log",
           "classify", "done"}

\* The shape of the state; every report has a type and a grade.
TypeOK ==
  /\ cache \in {Absent, Cloning, Cut} \cup {Whole(v) : v \in Commits}
  /\ upstream \in Commits
  /\ \A p \in Procs :
       /\ proc[p].at \in Places
       /\ proc[p].pinned \in BOOLEAN
       /\ proc[p].searched \in Commits \cup {0, Part}
       /\ proc[p].logged \in Commits \cup {0}
       /\ proc[p].matches \in Nat
       /\ proc[p].type \in Types
       /\ proc[p].grade \in {"A", "B", "C", "D", "F"}

\* However analyses overlap, at most one of them makes the cached clone, and the
\* clone is unfinished only while one does or after one was cut off.
OneCloner ==
  /\ \A p, q \in Procs : At(p, "cloning") /\ At(q, "cloning") => p = q
  /\ cache = Cloning <=> \E p \in Procs : At(p, "cloning")

\* The matches and the commits of a report describe the same commit of the
\* repository, although another analysis may update the clone between the two.
OneVersion ==
  \A p \in Procs :
    proc[p].searched \in Commits /\ proc[p].logged \in Commits =>
      proc[p].searched = proc[p].logged

\* A report that says its analysis was pinned used the private clone: nothing in
\* it comes from the cache, whose tree and commits other processes decide.
PinnedIsPrivate ==
  \A p \in Procs :
    proc[p].pinned => proc[p].commit /\ proc[p].searched # 0 /\ proc[p].logged = 0

Reported(p) == At(p, "done")

\* The best grade takes a verified repository, a pinned analysis and matches in
\* the code; the second best still takes matches.
GradeEarned ==
  \A p \in Procs : Reported(p) =>
    /\ proc[p].grade = "A" => /\ proc[p].pinned /\ proc[p].evidence.verified
                              /\ proc[p].matches > 0
    /\ proc[p].grade = "B" => proc[p].matches > 0

\* A code bug is never guessed from words alone: without a match in the code the
\* changed files must lean to one side, and no configuration word may occur.
CodeBugHasGround ==
  \A p \in Procs : Reported(p) /\ proc[p].type = "code_bug" =>
    LET e == proc[p].evidence.found
    IN  e.matches > 0 \/ (e.code # e.configFiles /\ ~e.configWords)

-----------------------------------------------------------------------------
(* What the repository says and the code does not do.                      *)

\* "Code analysis pinned to deployed commit" (correlator.go:110) is said of an
\* analysis of the deployed commit.
PinnedIsDeployed == \A p \in Procs : proc[p].pinned => proc[p].searched = Deployed
=============================================================================
