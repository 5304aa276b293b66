--------------------------- MODULE MCCorrelation ---------------------------
(***************************************************************************)
(* Two processes, two commits: the first has three matches of the failure, *)
(* the second, which fixes it, has one.  The evidence is one of each kind  *)
(* that the classification tells apart.                                    *)
(***************************************************************************)
EXTENDS Correlation, TLC

MCHits == <<3, 1>>

Plain == [matches |-> 0, reason |-> TRUE, config |-> FALSE, infra |-> FALSE,
          infraFailed |-> FALSE, files |-> FALSE, code |-> 0, configFiles |-> 0,
          codeWords |-> FALSE, configWords |-> FALSE]

MCEvidence ==
  { Plain,
    [Plain EXCEPT !.config = TRUE],
    [Plain EXCEPT !.config = TRUE, !.infraFailed = TRUE],
    [Plain EXCEPT !.files = TRUE, !.codeWords = TRUE],
    [Plain EXCEPT !.files = TRUE, !.code = 2, !.configFiles = 1],
    [Plain EXCEPT !.infra = TRUE, !.files = TRUE, !.configFiles = 2, !.codeWords = TRUE],
    [Plain EXCEPT !.files = TRUE, !.code = 1, !.codeWords = TRUE, !.configWords = TRUE] }

Symm == Permutations(Procs)
=============================================================================
