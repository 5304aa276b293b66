--------------------------- MODULE MetadataStore ---------------------------
(***************************************************************************)
(* The SQLite database of past analyses: MetadataStore in                  *)
(* src/internal/metadata, shared by all processes.  Every operation below  *)
(* is one SQL statement or one transaction; what SQLite itself does is     *)
(* external.                                                               *)
(*                                                                         *)
(* A row names the run it belongs to by the analysis and the operator that *)
(* were recorded; automatic identifiers and timestamps are left out.  The  *)
(* hypotheses of a run are one batch.  Rows that no analysis writes        *)
(* (resolutions, confirmations, issues) are left out.                      *)
(***************************************************************************)
EXTENDS Naturals, Sequences, FiniteSets, Bags

CONSTANTS Operators,  \* operators analysed
          Hashes,     \* symptom hashes
          Legacy      \* the session row that a session file is imported into

VARIABLES sessions,     \* the identifiers in the table of sessions
          runs,         \* the bag of rows of the table of runs
          prints,       \* the table of fingerprints, by identifier
          hypotheses,   \* the runs with recorded hypotheses
          patterns      \* operator -> how often its failure pattern was seen

metadataVars == <<sessions, runs, prints, hypotheses, patterns>>

MetadataInit ==
  /\ sessions = {} /\ runs = EmptyBag /\ prints = <<>> /\ hypotheses = {}
  /\ patterns = [o \in Operators |-> 0]

\* SaveSession is an upsert, the import of a session an INSERT OR IGNORE.
SaveSession(id) ==
  sessions' = sessions \cup {id} /\ UNCHANGED <<runs, prints, hypotheses, patterns>>

\* RecordRun and the import of a history entry insert a row unconditionally; num is
\* the number of an imported entry, 0 for a run recorded by its analysis.
RecordRun(session, analysis, num) ==
  /\ runs' = runs (+) SetToBag({[session |-> session, analysis |-> analysis, num |-> num]})
  /\ UNCHANGED <<sessions, prints, hypotheses, patterns>>

RowsOf(hash, op) == {i \in DOMAIN prints : prints[i].hash = hash /\ prints[i].op = op}

\* The rows that the first statement of SaveFingerprint may find, which asks for no
\* order; 0 is none.
RowsFor(hash, op) == IF RowsOf(hash, op) = {} THEN {0} ELSE RowsOf(hash, op)

UpdatePrint(row, run) ==
  /\ prints' = [prints EXCEPT ![row] = [prints[row] EXCEPT !.hits = @ + 1, !.run = run]]
  /\ UNCHANGED <<sessions, runs, hypotheses, patterns>>

\* Mutant of InsertPrint: the insertion replaces rows of the same key.
ReplacePrint(hash, op, run) ==
  /\ prints' = Append(SelectSeq(prints, LAMBDA r : ~(r.hash = hash /\ r.op = op)),
                      [hash |-> hash, op |-> op, hits |-> 1, run |-> run, first |-> run])
  /\ UNCHANGED <<sessions, runs, hypotheses, patterns>>

InsertPrint(hash, op, run) ==
  /\ prints' = Append(prints, [hash |-> hash, op |-> op, hits |-> 1, run |-> run,
                               first |-> run])
  /\ UNCHANGED <<sessions, runs, hypotheses, patterns>>

\* FindByHash looks at every operator and returns a row with the most hits.
FoundByHash(hash) ==
  {i \in DOMAIN prints : prints[i].hash = hash /\
     \A j \in DOMAIN prints : prints[j].hash = hash => prints[j].hits <= prints[i].hits}

\* RecordHypotheses inserts the batch in one transaction.
RecordHypotheses(run) ==
  hypotheses' = hypotheses \cup {run} /\ UNCHANGED <<sessions, runs, prints, patterns>>

\* RecordPattern is an upsert that counts.
RecordPattern(op) ==
  /\ patterns' = [patterns EXCEPT ![op] = @ + 1]
  /\ UNCHANGED <<sessions, runs, prints, hypotheses>>
=============================================================================
