SPECIFICATION Spec
SYMMETRY mc_commands
CONSTANTS
  Daemons = {1, 2, 3}
  Commands = {c1, c2, c3}
  Kinds = {"send", "start", "stop", "kill"}
  MayCrash = TRUE
  Workflows = {"a", "b"}
  Requests = {r1, r2}
  MaxRun = 2
  MaxRuns = 1
  MaxTime = 2
  Window = 2
  Burst = 1
  MaxLimit = 1
  None = None
  Tasks = {k1, k2}
  MaxPid = 4
  MaxWorkers = 1
INVARIANTS AnsweredOnce WebAnswersHold SampleIsOfItsChild
PROPERTIES IncumbentKeepsPath
CHECK_DEADLOCK FALSE
