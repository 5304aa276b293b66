---------------------------- MODULE SessionStore ----------------------------
(***************************************************************************)
(* The session file of a cluster: Store in src/internal/session/store.go.  *)
(*                                                                         *)
(* Processes share the file but nothing coordinates them: each one loads   *)
(* the record into memory once, changes it there and writes the whole      *)
(* record back.  Writing truncates the file first.                         *)
(*                                                                         *)
(* A history entry is its number and the analysis it reports; timestamps,  *)
(* summaries and the list of cosmetic alerts are left out.                 *)
(***************************************************************************)
EXTENDS Naturals, Sequences

CONSTANTS Procs,   \* process slots: analyses that may run at the same time
          Keep,    \* history entries kept (50 in the code)
          Absent,  \* there is no session file
          Empty,   \* the file is truncated and not written yet
          Torn,    \* the file holds parts of two records
          Nil      \* the process has no record: it could not be loaded

ASSUME KeepAssumption == Keep \in Nat \ {0}

VARIABLES file,    \* what is on disk
          record   \* the record each process works on

sessionVars == <<file, record>>

NewRecord  == [count |-> 0, history |-> <<>>]
Unreadable == {Empty, Torn}

SessionInit == file = Absent /\ record = [p \in Procs |-> Nil]

\* An unreadable file is an error that the caller drops, and with it the record.
Loaded == IF file \in Unreadable THEN Nil ELSE IF file = Absent THEN NewRecord ELSE file

Recent(history) ==
  IF Len(history) > Keep THEN SubSeq(history, Len(history) - Keep + 1, Len(history))
                         ELSE history

\* RecordRun, in memory.
WithRun(r, analysis) ==
  [count   |-> r.count + 1,
   history |-> Recent(Append(r.history, [num |-> r.count + 1, of |-> analysis]))]

Load(p) == record' = [record EXCEPT ![p] = Loaded] /\ file' = file

\* Save opens the file, which empties it.
RecordAndTruncate(p, analysis) ==
  /\ record' = [record EXCEPT ![p] = WithRun(@, analysis)]
  /\ file' = Empty

\* Save fails before it touches the file, and its error is dropped.
RecordUnsaved(p, analysis) ==
  /\ record' = [record EXCEPT ![p] = WithRun(@, analysis)]
  /\ file' = file

\* Mutant of Write: what another process has written meanwhile is kept in front.
WriteMerged(p) ==
  /\ file' = IF file \in Unreadable THEN record[p]
             ELSE [record[p] EXCEPT !.history = Recent(file.history \o @)]
  /\ record' = record

\* The record is written from the start of the file.  When another process has
\* written meanwhile, what it wrote may stick out at the end.
Write(p) ==
  /\ file' \in IF file = Empty THEN {record[p]} ELSE {record[p], Torn}
  /\ record' = record

\* The write fails before it is complete.
WriteCut == file' \in {file, Torn} /\ record' = record

\* A process ends or is killed.  A kill may come in the middle of a write.
Forget(p, midWrite) ==
  /\ record' = [record EXCEPT ![p] = Nil]
  /\ file' \in IF midWrite THEN {file, Torn} ELSE {file}
=============================================================================
