SPECIFICATION Spec
CONSTANTS
  Namespaces = {"default"}
  Names = {"a"}
  Configs = {"eco"}
  NoConfig = "none"
  Scripts = {"run.sh"}
  Threads = {"t1"}
  Commands = {"start", "pause", "restart"}
  StartRequests <- mc_plain
  Targets <- mc_a
  MaxLaunch = 2
  SpawnMayFail = FALSE
  MayCrash = FALSE
INVARIANTS PausedHasNoChild
