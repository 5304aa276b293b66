SPECIFICATION Spec
CONSTANTS
  Procs = {p1, p2}
  Evidence <- MCEvidence
  Hits <- MCHits
  Deployed = 1
  Part = Part
  MaxAnalyses = 2
  MaxKills = 0
SYMMETRY Symm
INVARIANT
  PinnedIsDeployed
