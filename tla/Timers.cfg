\* Two timers, handlers that hold their lock, and a destructor.
SPECIFICATION FairSpec
CONSTANTS
  s1 = s1
  w1 = w1
  Nodes = {t1, t2}
  Null = Null
  Intervals = {0, 1}
  MaxTime = 2
  Subs = {s1}
  SubOf <- AllToFirst
  Workers = {w1}
  WorkerOf <- OneWorker
  MaxJobs = 1
  HandlersLock = TRUE
  Destroys = TRUE
CHECK_DEADLOCK FALSE
PROPERTIES
  ServedUnlessStale
  EmitEnds
  DestructorWaitsForCall
