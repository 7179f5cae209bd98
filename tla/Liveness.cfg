SPECIFICATION FairSpec
CONSTANTS
  Namespaces = {"default"}
  Names = {"a"}
  Configs = {"eco"}
  NoConfig = "none"
  Scripts = {"run.sh"}
  Threads = {"t1", "t2"}
  Commands = {"start", "delete", "kill"}
  StartRequests <- mc_reboot
  Targets <- mc_a
  MaxLaunch = 1
  SpawnMayFail = FALSE
  MayCrash = FALSE
PROPERTIES HandlersReturn StoppedChildrenEnd ExitsAreBooked
