\* Three timers and a handler that holds its lock: expiry goes round a cycle.
SPECIFICATION FairSpec
CONSTANTS
  s1 = s1
  w1 = w1
  Nodes = {t1, t2, t3}
  Null = Null
  Intervals = {1}
  MaxTime = 1
  Subs = {s1}
  SubOf <- AllToFirst
  Workers = {w1}
  WorkerOf <- OneWorker
  MaxJobs = 1
  HandlersLock = TRUE
  Destroys = FALSE
PROPERTY EmitEnds
