SPECIFICATION Spec
CONSTANTS
  Procs = {p1, p2}
  Evidence <- MCEvidence
  Hits <- MCHits
  Deployed = 1
  Part = Part
  MaxAnalyses = 2
  MaxKills = 1
SYMMETRY Symm
INVARIANTS
  TypeOK
  OneCloner
  OneVersion
  GradeEarned
  CodeBugHasGround
