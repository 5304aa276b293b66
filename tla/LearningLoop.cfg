SPECIFICATION Spec
CONSTANTS
  Procs = {p1, p2}
  Keep = 3
  Absent = Absent
  Empty = Empty
  Torn = Torn
  Nil = Nil
  Legacy = Legacy
  Operators <- Ops
  Hashes = {h1}
  PatternOps = {"sriov"}
  Targets <- TwoTargets
  MaxAnalyses = 2
  MaxFailures = 1
  MaxKills = 1
SYMMETRY Symm
INVARIANTS
  TypeOK
  HitsCounted
  EvidenceHasRun
  NotItself
  SessionContinues
