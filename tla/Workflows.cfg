SPECIFICATION Spec
SYMMETRY mc_clients
CONSTANTS
  Categories = {"d"}
  DefaultCategory = "d"
  Bare = ""
  WorkflowNames = {"p", "q"}
  Clients = {c1, c2}
  Batches <- mc_batches
  Saved = {}
  UserRefs <- mc_refs
  MaxRun = 2
  MaxConcurrentRuns = 2
  MaxNestingDepth = 2
  Writers = 1
  MaxEdits = 2
  DiskMayFail = TRUE
  MayCrash = TRUE
  Nil = Nil
INVARIANTS TypeOK OneRunPerWorkflow DefinitionsArePersistent
PROPERTIES FireLeavesATrace
