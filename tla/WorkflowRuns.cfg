SPECIFICATION FairSpec
CONSTANTS
  Categories = {"d"}
  DefaultCategory = "d"
  Bare = ""
  WorkflowNames = {"p", "q", "r"}
  Clients = {c1}
  Batches <- mc_batches
  Saved <- mc_saved
  UserRefs <- mc_refs
  MaxRun = 3
  MaxConcurrentRuns = 2
  MaxNestingDepth = 2
  Writers = 1
  MaxEdits = 0
  DiskMayFail = FALSE
  MayCrash = FALSE
  Nil = Nil
INVARIANTS ClosedRunIsOver StagesAreSequential RecordExplainsItself
PROPERTIES StopRunReturns RunsEnd
