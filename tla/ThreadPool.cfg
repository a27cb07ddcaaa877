\* Two threads, one client, a job body that posts, under fairness.
SPECIFICATION FairSpec
CONSTANTS
  c1 = c1
  j1 = j1
  j2 = j2
  j3 = j3
  NumThread = 2
  Clients = {c1}
  Owner = Owner
  Jobs = {j1, j2, j3}
  Spawn <- SpawnOne
  NoJob = NoJob
  NoProc = NoProc
  ScoreMax = 4
  JobCapacity = 2
INVARIANTS
  TypeOK
  LockProtects
  PressureIsLoad
  FifoPerThread
  ObjectsMatchJobs
  AcceptedOnce
  FetchFindsThread
  DeletedOnlyReachedFromLater
PROPERTIES
  DrainOutlastsStop
  ImplementsServiceSafety
  AcceptedIsRun
  DestructorEnds
