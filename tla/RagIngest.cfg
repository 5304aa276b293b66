SPECIFICATION Spec
CONSTANTS
  Colls <- MCColls
  Order <- MCOrder
  RepoColls <- MCRepo
  Versions <- MCVersions
  DocIds = {1}
  Searchers = {}
  Updaters = {u1}
  TopK = 2
  MaxObjects = 6
  MaxVersion = 2
  MaxRuns = 2
  MaxCrashes = 1
  Absent = Absent
  NoCommit = NoCommit
  Torn = Torn
  Nobody = Nobody
INVARIANTS
  TypeOK
  CleanRunIsComplete
  RecordNeverAhead
