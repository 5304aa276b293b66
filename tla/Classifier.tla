----------------------------- MODULE Classifier -----------------------------
(***************************************************************************)
(* How an operator's failure is classified and graded: ClassifyEnhanced in *)
(* src/internal/openshift/classifier.go and computeGrade in correlator.go. *)
(*                                                                         *)
(* The failure text and the summary of a commit delta are what the keyword *)
(* lists find in them; files are counted by their directory.  A confidence *)
(* of 1 is 600 and a score of 100 points is 6000: every weight is exact,   *)
(* only shares of files are rounded up to parts of 24 (which keeps the     *)
(* test for more than one half exact).                                     *)
(***************************************************************************)
EXTENDS Integers

Types   == {"code_bug", "configuration", "infrastructure", "unknown"}
Sources == {"static_registry", "bundle_labels", "bundle_csv", "inferred"}

(***************************************************************************)
(* Evidence of an analysis.  reason: there is a failure text; config and   *)
(* infra: it has a configuration or an infrastructure keyword;             *)
(* infraFailed: a check of the infrastructure failed.  Of the delta:       *)
(* files: it changes files; code and configFiles: how many of them are in  *)
(* directories of code and of configuration; codeWords and configWords:    *)
(* its text has a keyword of either kind.                                  *)
(***************************************************************************)
EvidenceOf(counts) ==
  {e \in [matches : counts, reason : BOOLEAN, config : BOOLEAN, infra : BOOLEAN,
          infraFailed : BOOLEAN, files : BOOLEAN, code : counts, configFiles : counts,
          codeWords : BOOLEAN, configWords : BOOLEAN] :
     /\ ~e.reason => e.matches = 0 /\ ~e.config /\ ~e.infra
     /\ ~e.files => /\ e.code = 0 /\ e.configFiles = 0
                    /\ ~e.codeWords /\ ~e.configWords}

\* The type that the matches and the keywords suggest, and its score in tenths.
ByKeywords(e) ==
  IF e.matches > 0
  THEN [type |-> "code_bug", score |-> IF e.config THEN 6 ELSE 10]
  ELSE IF e.config /\ ~e.infraFailed THEN [type |-> "configuration", score |-> 7]
  ELSE IF e.infraFailed \/ e.infra   THEN [type |-> "infrastructure", score |-> 7]
  ELSE IF e.reason                   THEN [type |-> "configuration", score |-> 3]
  ELSE [type |-> "unknown", score |-> 0]

MatchScore(e) == IF e.matches >= 3 THEN 10 ELSE IF e.matches > 0 THEN 7 ELSE 0

HalfUp(n)      == (n + 1) \div 2
Share(a, b)    == (24 * a + (a + b) - 1) \div (a + b)

\* The delta's suggestion, its score in parts of 24: a share of the changed files,
\* drawn half way to one half by keywords that contradict it.
ByFiles(e) ==
  IF e.code > e.configFiles
  THEN [type |-> "code_bug", score |-> Share(e.code, e.configFiles)]
  ELSE IF e.configFiles > e.code
  THEN [type |-> "configuration", score |-> Share(e.configFiles, e.code)]
  ELSE [type |-> "unknown", score |-> 0]

Turned(delta, type) ==
  [type |-> type, score |-> IF delta.type = type THEN delta.score ELSE HalfUp(delta.score + 12)]

ByDelta(e) ==
  LET read == IF e.codeWords THEN Turned(ByFiles(e), "code_bug") ELSE ByFiles(e)
  IN  IF e.configWords THEN Turned(read, "configuration") ELSE read

\* Mutant of TypeOf: the delta's word is taken whatever its score.
TypeByAnyDelta(e) ==
  IF ByKeywords(e).type = "code_bug" \/ ByDelta(e).type = "code_bug" THEN "code_bug"
  ELSE IF ByKeywords(e).type = "infrastructure" THEN "infrastructure"
  ELSE IF "configuration" \in {ByKeywords(e).type, ByDelta(e).type} THEN "configuration"
  ELSE "unknown"

TypeOf(e) ==
  IF \/ ByKeywords(e).type = "code_bug"
     \/ ByDelta(e).type = "code_bug" /\ ByDelta(e).score > 12
  THEN "code_bug"
  ELSE IF ByKeywords(e).type = "infrastructure" THEN "infrastructure"
  ELSE IF "configuration" \in {ByKeywords(e).type, ByDelta(e).type} THEN "configuration"
  ELSE "unknown"

\* Weights 0.4, 0.3, 0.2 and 0.1; the sum cannot exceed 600, where it is capped.
Confidence(e, pinned) ==
  24 * ByKeywords(e).score + 18 * MatchScore(e) + 5 * ByDelta(e).score
    + (IF pinned THEN 60 ELSE 0)

SourcePoints(source) ==
  CASE source = "static_registry" -> 30
    [] source = "bundle_labels"   -> 25
    [] source = "bundle_csv"      -> 20
    [] source = "inferred"        -> 10

MatchPoints(matches) == IF matches >= 3 THEN 25 ELSE IF matches > 0 THEN 20 ELSE 0

Score(source, verified, pinned, matches, confidence) ==
  60 * (SourcePoints(source) + (IF verified THEN 20 ELSE 0) + (IF pinned THEN 15 ELSE 0)
          + MatchPoints(matches)) + confidence

\* Mutant of GradeOf: the bound of an A is a B's.
GenerousGrade(score) ==
  IF score >= 60 * 75 THEN "A" ELSE IF score >= 60 * 60 THEN "C"
  ELSE IF score >= 60 * 40 THEN "D" ELSE "F"

\* Mutant of GradeOf: there is no default grade.
Ungraded(score) ==
  IF score >= 60 * 90 THEN "A" ELSE IF score >= 60 * 75 THEN "B"
  ELSE IF score >= 60 * 60 THEN "C" ELSE IF score >= 60 * 40 THEN "D" ELSE ""

\* The points of the confidence are ten at most, so 60 * 10 = 600.
GradeOf(score) ==
  IF score >= 60 * 90 THEN "A" ELSE IF score >= 60 * 75 THEN "B"
  ELSE IF score >= 60 * 60 THEN "C" ELSE IF score >= 60 * 40 THEN "D" ELSE "F"
=============================================================================
