SPECIFICATION Spec
CONSTANTS
  Daemons = {1, 2, 3}
  Commands = {c1, c2, c3}
  Kinds = {"start"}
  MayCrash = TRUE
  Workflows = {"a", "b"}
  Requests = {r1}
  MaxRun = 1
  MaxRuns = 1
  MaxTime = 1
  Window = 2
  Burst = 1
  MaxLimit = 1
  None = None
  Tasks = {k1}
  MaxPid = 1
  MaxWorkers = 1
INVARIANTS DaemonIsSingleton
CHECK_DEADLOCK FALSE
