SPECIFICATION FairSpec
CONSTANTS
  Colls <- MCRepo
  Order <- OneOrder
  RepoColls <- MCRepo
  Versions <- MCVersions
  DocIds = {1, 2}
  Searchers = {s1}
  Updaters = {u1, u2}
  TopK = 2
  MaxObjects = 3
  MaxVersion = 1
  MaxRuns = 2
  MaxCrashes = 0
  Absent = Absent
  NoCommit = NoCommit
  Torn = Torn
  Nobody = Nobody
INVARIANTS
  NeverOverAsks
PROPERTIES
  UpdateEnds
