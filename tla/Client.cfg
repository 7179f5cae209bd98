SPECIFICATION Spec
CONSTANTS
  TaskName <- mc_name
  TaskSpace <- mc_space
  WorkflowRows = 2
  MaxCalls = 2
  MaxChanges = 1
  MaxKeys = 2
  Managed <- mc_managed
  Processes = {1, 2, 3}
  Self = 2
  MaxEvents = 1
  MaxStrokes = 4
  Logs = {1, 2}
  Files = {1, 2}
  InitialTarget = 2
  MaxLines = 2
  PageLines = 3
  MaxWork = 2
  MaxPresses = 8
  MaxWrites = 1
  Ecosystem <- mc_ecosystem
  FileWorkflows <- mc_workflows
  Words <- mc_words
  Others <- mc_others
  Leading <- mc_leading
  Attempts = 2
  MaxApplies = 2
  NewApps <- mc_newapps
  FlowNames = {"u", "v"}
  Declared <- mc_declared
  MaxApps = 2
  MaxFlows = 1
  MaxStages = 2
  MaxSaves = 1
  Devices = {1}
  CounterSpan = 16
  MaxCounter = 4
  MaxNow = 2
  MaxBreaks = 2
  Pids = {1, 2, 3}
  Root = 1
  Tables <- mc_tables
  Loads <- mc_loads
  StaleAfter = 0
  MaxTime = 3
INVARIANTS ScreensHold CommandsHold FiguresHold
PROPERTIES MonitorCursorStays
CHECK_DEADLOCK FALSE
