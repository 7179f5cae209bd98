SPECIFICATION Spec
CONSTANTS
  Namespaces = {"default"}
  Names = {"a"}
  Configs = {"eco"}
  NoConfig = "none"
  Scripts = {"run.sh"}
  Threads = {"t1"}
  Commands = {"start", "stop", "restart", "pause", "resume", "delete", "kill", "save", "resurrect"}
  StartRequests <- mc_cron
  Targets <- mc_a
  MaxLaunch = 3
  SpawnMayFail = FALSE
  MayCrash = TRUE
INVARIANTS TypeOK NoLostChild PausedIsSuspended ScheduleMatchesEntry DumpMatchesRegistry CleanShutdown
