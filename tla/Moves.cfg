SPECIFICATION Spec
CONSTANTS
  Namespaces = {"n1", "n2"}
  Names = {"a"}
  Configs = {"eco"}
  NoConfig = "none"
  Scripts = {"run.sh"}
  Threads = {"t1"}
  Commands = {"start", "delete"}
  StartRequests <- mc_moving
  Targets <- mc_a
  MaxLaunch = 3
  SpawnMayFail = FALSE
  MayCrash = FALSE
INVARIANTS UniqueIDs
PROPERTIES IdentityIsKept
