SPECIFICATION Spec
SYMMETRY mc_threads
CONSTANTS
  Namespaces = {"default"}
  Names = {"a"}
  Configs = {"eco"}
  NoConfig = "none"
  Scripts = {"run.sh"}
  Threads = {t1, t2}
  Commands = {"start", "stop"}
  StartRequests <- mc_plain
  Targets <- mc_a
  MaxLaunch = 2
  SpawnMayFail = FALSE
  MayCrash = FALSE
PROPERTIES StopSuppressesAutoRestart
