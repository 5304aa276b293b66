---------------------------- MODULE LearningLoop ----------------------------
(***************************************************************************)
(* What analyses remember: AnalyzeMustGather, the learning steps of        *)
(* analyzeSingleOperator and recordToMetadata in                           *)
(* src/internal/analysis/analyze.go, over the session file and the         *)
(* metadata database.                                                      *)
(*                                                                         *)
(* Analyses of one cluster run in processes of their own, one after        *)
(* another or at the same time (opm-diagnose with --state-dir), and a      *)
(* process may be killed.  Each one first imports the session file into    *)
(* the database, then loads it, and for every target operator looks up     *)
(* similar issues, records the run, and saves the session file.  Every     *)
(* statement of the database and every save may fail; the code goes on.    *)
(***************************************************************************)
EXTENDS SessionStore, MetadataStore, FiniteSetsExt

CONSTANTS PatternOps,   \* operators whose failure text matches a pattern
          Targets,      \* the operators of an analysis, in order
          MaxAnalyses,  \* bound on analyses
          MaxFailures,  \* bound on failing statements and saves
          MaxKills      \* bound on killed processes

\* An analysis that has no target ends before it opens any store.
ASSUME LoopAssumption == /\ Targets \in Seq(Operators) /\ Targets # <<>>
                         /\ Legacy \notin Operators
                         /\ PatternOps \subseteq Operators
                         /\ MaxAnalyses \in Nat

VARIABLES
  proc,      \* the state of each process
  analyses,  \* analyses started so far
  failures,  \* failures so far
  kills,     \* processes killed so far
  saved,     \* history: SaveFingerprint calls that went through, by hash and operator
  overlap    \* history: two analyses have run at the same time

historyVars == <<analyses, failures, kills, saved, overlap>>
vars == <<sessionVars, metadataVars, proc, historyVars>>

Resting == [at |-> "idle", id |-> 0, todo |-> <<>>, next |-> 1, hash |-> Nil,
            row |-> 0, match |-> 0]

Init ==
  /\ SessionInit /\ MetadataInit
  /\ proc = [p \in Procs |-> Resting]
  /\ analyses = 0 /\ failures = 0 /\ kills = 0
  /\ saved = [k \in Hashes \X Operators |-> 0]
  /\ overlap = FALSE

At(p, where) == proc[p].at = where
Op(p)        == Targets[proc[p].next]
Run(p)       == <<proc[p].id, Op(p)>>
Goto(p, where) == proc' = [proc EXCEPT ![p].at = where]

\* A statement fails: nothing is stored.
Failing == /\ failures < MaxFailures /\ failures' = failures + 1
           /\ UNCHANGED <<metadataVars, analyses, kills, overlap>>
Working == failures' = failures /\ UNCHANGED <<analyses, kills, overlap>>

-----------------------------------------------------------------------------
(* AnalyzeMustGather, up to the loop over the targets.                     *)

\* The database is opened and MigrateFromJSON reads the session file.
Begin(p) ==
  /\ At(p, "idle") /\ analyses < MaxAnalyses
  /\ analyses' = analyses + 1
  /\ proc' = [proc EXCEPT ![p] = IF file \in Unreadable \cup {Absent}
       THEN [Resting EXCEPT !.id = analyses', !.at = "loading"]
       ELSE [Resting EXCEPT !.id = analyses', !.at = "importing", !.todo = file.history]]
  /\ overlap' = (overlap \/ \E q \in Procs : ~At(q, "idle"))
  /\ UNCHANGED <<sessionVars, metadataVars, failures, kills, saved>>

\* A session that cannot be imported takes its history with it.
ImportSession(p) ==
  /\ At(p, "importing")
  /\ \/ Working /\ SaveSession(Legacy) /\ Goto(p, "importingRuns")
     \/ Failing /\ Goto(p, "loading")
  /\ UNCHANGED <<sessionVars, saved>>

ImportEntry(e) == RecordRun(Legacy, e.of, e.num)

ImportRun(p) ==
  /\ At(p, "importingRuns")
  /\ IF proc[p].todo = <<>>
     THEN Working /\ Goto(p, "loading") /\ UNCHANGED metadataVars
     ELSE /\ \/ Working /\ ImportEntry(Head(proc[p].todo))
             \/ Failing
          /\ proc' = [proc EXCEPT ![p].todo = Tail(@)]
  /\ UNCHANGED <<sessionVars, saved>>

LoadSession(p) ==
  /\ At(p, "loading")
  /\ Load(p)
  /\ Goto(p, "lookup")
  /\ UNCHANGED <<metadataVars, historyVars>>

-----------------------------------------------------------------------------
(* One target: analyzeSingleOperator, then the session update.             *)

\* Mutant of Lookup: the fingerprint is saved before similar ones are looked up.
SaveThenLookup(p) ==
  /\ At(p, "lookup")
  /\ \E h \in Hashes : \E row \in RowsFor(h, Op(p)) :
       /\ IF row = 0 THEN InsertPrint(h, Op(p), Run(p)) ELSE UpdatePrint(row, Run(p))
       /\ proc' = [proc EXCEPT ![p].at = "session", ![p].hash = h,
            ![p].match = CHOOSE i \in 1..Len(prints') : prints'[i].hash = h]
       /\ saved' = [saved EXCEPT ![<<h, Op(p)>>] = @ + 1]
  /\ UNCHANGED <<sessionVars, analyses, failures, kills, overlap>>

\* FindSimilarIssues, for the symptoms this target shows; the exact match is kept.
\* When the lookup fails the target is shown nothing and goes on.
Lookup(p) ==
  /\ At(p, "lookup")
  /\ \E h \in Hashes :
       \/ /\ Working /\ UNCHANGED metadataVars
          /\ \E i \in IF FoundByHash(h) = {} THEN {0} ELSE FoundByHash(h) :
               proc' = [proc EXCEPT ![p].at = "session", ![p].hash = h, ![p].match = i]
       \/ /\ Failing
          /\ proc' = [proc EXCEPT ![p].at = "session", ![p].hash = h]
  /\ UNCHANGED <<sessionVars, saved>>

\* The error of SaveSession is dropped.
StoreSession(p) ==
  /\ At(p, "session")
  /\ (Working /\ SaveSession(Op(p))) \/ Failing
  /\ Goto(p, "run")
  /\ UNCHANGED <<sessionVars, saved>>

\* Mutant of StoreRun: a failure is dropped like the others.
StoreRunOrGoOn(p) ==
  /\ At(p, "run")
  /\ (Working /\ RecordRun(Op(p), proc[p].id, 0)) \/ Failing
  /\ Goto(p, "select")
  /\ UNCHANGED <<sessionVars, saved>>

\* Without the row of the run nothing else is recorded.
StoreRun(p) ==
  /\ At(p, "run")
  /\ \/ Working /\ RecordRun(Op(p), proc[p].id, 0) /\ Goto(p, "select")
     \/ Failing /\ Goto(p, "history")
  /\ UNCHANGED <<sessionVars, saved>>

\* SaveFingerprint, its SELECT.
SelectPrint(p) ==
  /\ At(p, "select")
  /\ \/ /\ Working /\ UNCHANGED metadataVars
        /\ \E row \in RowsFor(proc[p].hash, Op(p)) :
             proc' = [proc EXCEPT ![p].at = "print", ![p].row = row]
     \/ Failing /\ Goto(p, "hypotheses")
  /\ UNCHANGED <<sessionVars, saved>>

\* SaveFingerprint, its UPDATE or INSERT.
StorePrint(p) ==
  /\ At(p, "print")
  /\ \/ /\ Working
        /\ IF proc[p].row = 0 THEN InsertPrint(proc[p].hash, Op(p), Run(p))
                              ELSE UpdatePrint(proc[p].row, Run(p))
        /\ saved' = [saved EXCEPT ![<<proc[p].hash, Op(p)>>] = @ + 1]
     \/ Failing /\ saved' = saved
  /\ Goto(p, "hypotheses")
  /\ UNCHANGED sessionVars

\* Only analyses with a result of the diagnosis engine have hypotheses.
StoreHypotheses(p) ==
  /\ At(p, "hypotheses")
  /\ \/ Working /\ RecordHypotheses(Run(p))
     \/ Working /\ UNCHANGED metadataVars
     \/ Failing
  /\ Goto(p, "patterns")
  /\ UNCHANGED <<sessionVars, saved>>

\* The failure pattern of a target, if its failure text matches one.
StorePattern(p) ==
  /\ At(p, "patterns")
  /\ IF Op(p) \in PatternOps
     THEN (Working /\ RecordPattern(Op(p))) \/ Failing
     ELSE Working /\ UNCHANGED metadataVars
  /\ Goto(p, "history")
  /\ UNCHANGED <<sessionVars, saved>>

\* Mutant of Advance: one target too many.
AdvancePast(p) ==
  IF proc[p].next <= Len(Targets)
  THEN proc' = [proc EXCEPT ![p].at = "lookup", ![p].next = @ + 1]
  ELSE proc' = [proc EXCEPT ![p].at = "done"]

Advance(p) ==
  proc' = [proc EXCEPT ![p] = IF proc[p].next < Len(Targets)
             THEN [Resting EXCEPT !.at = "lookup", !.id = proc[p].id, !.next = proc[p].next + 1]
             ELSE [Resting EXCEPT !.at = "done", !.id = proc[p].id, !.next = proc[p].next]]

\* The session update of AnalyzeMustGather; without a record there is none.
UpdateHistory(p) ==
  /\ At(p, "history")
  /\ IF record[p] = Nil
     THEN Working /\ Advance(p) /\ UNCHANGED <<sessionVars, metadataVars>>
     ELSE \/ /\ RecordAndTruncate(p, proc[p].id) /\ Goto(p, "writing") /\ Working
             /\ UNCHANGED metadataVars
          \/ RecordUnsaved(p, proc[p].id) /\ Advance(p) /\ Failing
  /\ saved' = saved

\* Save writes the file it has emptied, or fails on the way; the error is dropped.
WriteSession(p) ==
  /\ At(p, "writing")
  /\ (Write(p) /\ Working) \/ (WriteCut /\ Failing)
  /\ Advance(p)
  /\ UNCHANGED <<metadataVars, saved>>

Finish(p) ==
  /\ At(p, "done")
  /\ Forget(p, FALSE)
  /\ proc' = [proc EXCEPT ![p] = Resting]
  /\ UNCHANGED <<metadataVars, historyVars>>

Step(p) ==
  \/ ImportSession(p) \/ ImportRun(p) \/ LoadSession(p)
  \/ Lookup(p) \/ StoreSession(p) \/ StoreRun(p) \/ SelectPrint(p) \/ StorePrint(p)
  \/ StoreHypotheses(p) \/ StorePattern(p) \/ UpdateHistory(p) \/ WriteSession(p)
  \/ Finish(p)

Kill(p) ==
  /\ ~At(p, "idle") /\ kills < MaxKills
  /\ kills' = kills + 1
  /\ Forget(p, At(p, "writing"))
  /\ proc' = [proc EXCEPT ![p] = Resting]
  /\ UNCHANGED <<metadataVars, analyses, failures, saved, overlap>>

AllDone == analyses = MaxAnalyses /\ (\A p \in Procs : At(p, "idle")) /\ UNCHANGED vars

Next == (\E p \in Procs : Begin(p) \/ Step(p) \/ Kill(p)) \/ AllDone

Spec == Init /\ [][Next]_vars

-----------------------------------------------------------------------------
(* Properties.                                                             *)

Entries  == [num : Nat \ {0}, of : 1..MaxAnalyses]
Records  == [count : Nat, history : Seq(Entries)]
Places   == {"idle", "importing", "importingRuns", "loading", "lookup", "session", "run",
             "select", "print", "hypotheses", "patterns", "history", "writing", "done"}
RunsOf   == (1..MaxAnalyses) \X Operators
PrintRow == [hash : Hashes, op : Operators, hits : Nat \ {0}, run : RunsOf, first : RunsOf]

\* What stands for a file or a record that cannot be read is not itself a record.
ASSUME MarksAssumption == /\ {Absent, Empty, Torn, Nil} \cap Records = {}
                          /\ Absent \notin Unreadable

SessionTyped ==
  /\ file \in Records \cup Unreadable \cup {Absent}
  /\ record \in [Procs -> Records \cup {Nil}]

TypeOK ==
  /\ SessionTyped
  /\ sessions \subseteq Operators \cup {Legacy}
  /\ prints \in Seq(PrintRow)
  /\ hypotheses \subseteq RunsOf
  /\ patterns \in [Operators -> Nat]
  /\ \A p \in Procs : /\ proc[p].at \in Places
                      /\ proc[p].next \in 1..Len(Targets)
                      /\ proc[p].row \in 0..Len(prints)
                      /\ proc[p].match \in 0..Len(prints)

\* Hits are neither lost nor invented when analyses race on SaveFingerprint: the
\* rows of a hash and an operator hold together one hit per call that went through.
HitsCounted ==
  \A k \in Hashes \X Operators :
    MapThenSumSet(LAMBDA i : prints[i].hits, RowsOf(k[1], k[2])) = saved[k]

\* Fingerprints and hypotheses belong to a run that was recorded.
EvidenceHasRun ==
  \A r \in {prints[i].run : i \in DOMAIN prints} \cup hypotheses :
    [session |-> r[2], analysis |-> r[1], num |-> 0] \in DOMAIN runs

\* A target is never reported as similar to itself: the exact match it is shown was
\* stored for another operator, by another analysis, or for an earlier subscription
\* of the analysis to the same package.
NotItself ==
  \A p \in Procs : proc[p].match # 0 =>
    \/ prints[proc[p].match].first # Run(p)
    \/ \E j \in 1..(proc[p].next - 1) : Targets[j] = Op(p)

\* The entry with this number, when every analysis adds one for each target.
Entry(num) == [num |-> num, of |-> 1 + (num - 1) \div Len(Targets)]

\* A record of count runs that has lost nothing: it holds the latest Keep entries.
Whole(r, count) ==
  /\ r \in Records /\ r.count = count
  /\ Len(r.history) = IF count < Keep THEN count ELSE Keep
  /\ \A i \in 1..Len(r.history) : r.history[i] = Entry(count - Len(r.history) + i)

Unharmed == ~overlap /\ failures = 0 /\ kills = 0

\* Analyses that run one after another, unharmed, find the whole history of those
\* before them: one entry per target, the latest Keep of them kept.
ContinuityIfSequential ==
  Unharmed /\ analyses > 0 /\ (\A p \in Procs : At(p, "idle")) =>
    Whole(file, analyses * Len(Targets))

\* The history is trimmed at its old end only: the numbers run up to the count.
Numbered(r) ==
  /\ Len(r.history) = IF r.count < Keep THEN r.count ELSE Keep
  /\ \A i \in DOMAIN r.history : r.history[i].num = r.count - Len(r.history) + i

\* The entries of an analysis stand together.
Together(r) ==
  \A i, k \in DOMAIN r.history : r.history[i].of = r.history[k].of =>
    \A j \in i..k : r.history[j].of = r.history[i].of

OneLine(r) == Numbered(r) /\ Together(r)

\* Analyses that overlap lose each other's entries, and failures and kills lose more.
\* What can be read of the session file is still the history of one line of analyses,
\* each continuing the one before, and never a mixture of two.
HistoryIsOneLine == file \in Records => OneLine(file)

\* The session of a cluster goes on.
SessionContinues == HistoryIsOneLine /\ ContinuityIfSequential

-----------------------------------------------------------------------------
(* The inductive invariant behind them.                                    *)

Active(p)    == ~At(p, "idle")
WithHash     == {"session", "run", "select", "print"}
RunRecorded  == {"select", "print", "hypotheses"}
PrintPassed  == {"hypotheses", "patterns", "history", "writing", "done"}
BeforeLoad   == {"importing", "importingRuns", "loading"}
InTarget     == {"lookup", "session", "run", "select", "print", "hypotheses", "patterns",
                 "history"}

ProcStates ==
  [at : Places, id : 0..MaxAnalyses, todo : Seq(Entries), next : 1..Len(Targets),
   hash : Hashes \cup {Nil}, row : Nat, match : Nat]

ProcTyped ==
  /\ proc \in [Procs -> ProcStates]
  /\ analyses \in 0..MaxAnalyses
  /\ \A p \in Procs : /\ Active(p) => proc[p].id \in 1..analyses
                      /\ proc[p].at \in WithHash => proc[p].hash \in Hashes
                      /\ At(p, "writing") => record[p] \in Records

\* Running analyses have identifiers of their own.
IdsDistinct ==
  \A p, q \in Procs : Active(p) /\ Active(q) /\ proc[p].id = proc[q].id => p = q

\* A target that goes on to record evidence has recorded its run.
RunFirst ==
  \A p \in Procs : proc[p].at \in RunRecorded =>
    [session |-> Op(p), analysis |-> proc[p].id, num |-> 0] \in DOMAIN runs

\* A row was first stored by an analysis that has begun and, while it still runs, has
\* had the row's operator as an earlier target, or as this one once its print is past.
FirstByTarget ==
  \A i \in DOMAIN prints :
    /\ prints[i].first[1] <= analyses
    /\ \A p \in Procs : Active(p) /\ prints[i].first[1] = proc[p].id =>
         \E j \in 1..proc[p].next :
           /\ Targets[j] = prints[i].first[2]
           /\ j < proc[p].next \/ proc[p].at \in PrintPassed

\* What the analyses before the one with this number leave behind.
Left(before) ==
  IF before = 0 THEN file = Absent ELSE Whole(file, before * Len(Targets))

\* The entries that were to be added before the one of this target.
Recorded(p) == (proc[p].id - 1) * Len(Targets) + (proc[p].next - 1)

\* Where an unharmed analysis is in the history it continues.
Continues(p) ==
  /\ proc[p].at \in BeforeLoad => proc[p].next = 1 /\ Left(proc[p].id - 1)
  /\ proc[p].at \in InTarget   => Whole(record[p], Recorded(p))
  /\ At(p, "writing")          => file = Empty /\ Whole(record[p], Recorded(p) + 1)
  /\ At(p, "done")             => Left(proc[p].id)

Continuity ==
  /\ failures \in Nat /\ kills \in Nat
  /\ Unharmed =>
       /\ \A p \in Procs : Active(p) => proc[p].id = analyses /\ Continues(p)
       /\ (\A p \in Procs : ~Active(p)) => Left(analyses)

\* The sessions there are, on disk and in memory.
Kept == ({file} \cup {record[p] : p \in Procs}) \cap Records

\* The analysis with this number has added an entry.
Mentions(r, analysis) == \E i \in DOMAIN r.history : r.history[i].of = analysis

\* Once it has added one, only its own follow.
EndsWith(r, analysis) ==
  \A i, k \in DOMAIN r.history :
    i <= k /\ r.history[i].of = analysis => r.history[k].of = analysis

HistoryInv ==
  /\ \A r \in Kept : OneLine(r) /\ \A i \in DOMAIN r.history : r.history[i].of <= analyses
  /\ \A p \in Procs : proc[p].at \in BeforeLoad => \A r \in Kept : ~Mentions(r, proc[p].id)
  /\ \A p \in Procs : Active(p) /\ proc[p].at \notin BeforeLoad /\ record[p] \in Records =>
       EndsWith(record[p], proc[p].id)

DatabaseInv == /\ TypeOK /\ ProcTyped /\ IdsDistinct /\ EvidenceHasRun /\ RunFirst
               /\ FirstByTarget /\ NotItself

\* A row that SelectPrint found is still there, under the same hash and operator, when
\* StorePrint updates it.
SelectedStands ==
  \A p \in Procs : At(p, "print") /\ proc[p].row # 0 =>
    proc[p].row \in RowsOf(proc[p].hash, Op(p))

HitsInv == saved \in [Hashes \X Operators -> Nat] /\ SelectedStands /\ HitsCounted

IInv == DatabaseInv /\ Continuity /\ HitsInv /\ HistoryInv
=============================================================================
