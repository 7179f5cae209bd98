# A verification of pm2 in TLA+

pm2 is a process manager written in Go: a command line, terminal screens and a
web page talk over a Unix socket to a daemon that starts, watches, restarts,
pauses and schedules tasks and workflows, keeps their logs and run history and
saves what it manages to disk. This directory holds models of the daemon and of
the programs around it, the TLC configurations that check them, and the theorems
TLAPS proves of every one of these parts. Each module reads best beside the
source it models, which `PROJECT.json` names definition by definition under
`map`.

## 1. The system

| Component | Source | State it keeps | Operations |
| --- | --- | --- | --- |
| task registry | `daemon/process_registry.go`, `daemon/cron_key.go` | map `namespace:name` -> `*ManagedProcess` | find by target, find the entry a launch replaces, update, move, remove |
| process manager | `daemon/process_manager.go`, `launch.go`, `lifecycle.go`, `autosave.go` | next ID, exits counter, `suppressAutoSave`, `dump.json` | start, stop, restart, pause, resume, delete, kill, save, resurrect; launch, exit, auto-restart, cron fire |
| executor | `daemon/executor/` | per launch: the command, `done`, the log files, the file watcher | Start, Watch, Stop; the debounced file watch |
| metrics collector | `daemon/executor/metrics.go` | none between refreshes | snapshot, sample with a pool of workers, write back |
| cron scheduler | `cron/scheduler.go` | key -> entry ID | Register, Remove, fire |
| workflow engine | `daemon/wfengine/` | definitions, the run of each, schedules, `workflows.json` | register, delete, load, run, stages, nested runs, stop, cron fire |
| workflow graph | `workflow/` | none | validation, cycle check, resolution |
| task logs | `logfile/` | a log, its archives, follow offsets | write, rotate, roll back, follow |
| run journal | `runhistory/`, `daemon/history.go` | one JSONL file per day | append, prune, query, look up a run |
| socket, life cycle | `daemon/network/`, `daemon/server.go`, `cmd/daemon/`, `cmd/runtime/` | socket file, stop marker | claim, serve, send, spawn, stop, kill |
| web, webhook | `daemon/web/` | rate window | admission, trigger, list of runs |
| configuration, wizard | `config/`, `process/`, `config/wizard/` | files | fetch, load, normalise, merge, write |
| command line | `cmd/` | none | one request per command; `apply` sends many |
| screens | `tui/` | three models | keys and messages |
| system monitor | `sysmon/` | previous counters, the agent's file | sample, parse, publish, join |

How they interact. Every RPC runs on a goroutine of its own and calls the
process manager or the workflow engine. The scheduler, the debounce timers of
the file watchers and the goroutines that watch children call back into them.
They share the registry, whose lock is taken for single lookups and updates and
is never held over a command; the engine's mutex likewise covers single lookups,
claims and releases. The saved state is read at boot and after that only
written. Programs beside the daemon see it through answers that are old when
they arrive.

What is hard. Stop, launch, pause and exit are each several critical sections,
and in between anybody may replace the entry under the same key. A closure keeps
a *key* and looks the entry up again when it runs. A child that ignores SIGTERM
must be waited for with a timeout. A workflow's slot must be given back however
its run ends, and a nested run must not wait for a run that waits for it. A log
is rotated by copying and may fail or die at each step. Records are stamped
before they are queued behind a lock. Several daemons may claim one socket.
`PROJECT.json` lists these hazards one by one, at the line where each bites,
with the properties that watch it or the reason why none does.

What makes each component correct: IDs are unique and stay with their task; a
running child belongs to the registered entry; a stop or a pause is not undone;
schedules match entries; every child is reaped and every exit recorded; every
command returns; saved images match when the daemon is quiet; one run per
workflow, its stages in sequence, its record honest; no log line or record lost,
copied or misdated; an incumbent daemon that answers keeps its socket; figures
belong to the child and the machine they are shown for; a key acts on the row under the
cursor; `apply` and the wizard leave what they were asked for, or what was there.

## 2. The modules

| Module | What it is |
| --- | --- |
| `TaskRegistry` | keys, apps, targets; `FindByTarget` and `FindExisting` as pure functions of the map |
| `ProcessManager` | registry, children, watchers, schedules, journal, `dump.json`, handlers |
| `ProcessManagerProps` | its invariants, action properties, liveness properties and fairness |
| `TaskIdentity` | the abstract specification of IDs, implemented by `ProcessManager` |
| `ProcessManagerClaims` | what docs and comments say of it and the code does not keep |
| `ProcessManagerMC` | the instances TLC explores |
| `ProcessManagerProofs` | its inductive invariant, and the theorems on it |
| `ProcessManagerChildProofs` | children and their watchers, for any number of handlers |
| `ProcessManagerSerialProofs` | what one handler at a time keeps: registry, schedules, pauses, shutdown, `dump.json` |
| `WorkflowGraph` | definitions, `Resolve`, `DanglingRefs`, the depth-first `CheckAcyclic` |
| `WorkflowEngine`, `...Props`, `...MC` | clients, schedules, runs, nested runs and processes; properties; instances |
| `WorkflowEngineProofs` | its inductive invariant; the tree of nested runs; definitions, dump and schedules |
| `TaskLog`, `TaskLogProps` | writer, rotation, follower of one log path |
| `RunJournal`, `RunJournalProps` | day files, retention, queries |
| `StorageMC` | the two above, each in a part of the behaviours |
| `TaskLogProofs` | what writer, rotation and follower keep |
| `StorageProofs` | what the journal and its readers keep; the types of both stores |
| `DaemonSocket`, `DaemonSocketProps` | daemons and commands around one socket path |
| `WebServer` | webhook, rate limiter, list of runs, with the property it has |
| `Metrics` | the three-phase refresh, with the property it has |
| `LifecycleMC` | the three above, each in a part of the behaviours |
| `DaemonProofs` | theorems about `Metrics`, `DaemonSocket` and `WebServer` |
| `Monitor`, `Dashboard`, `LogBrowser` | the three screens as machines of keys and messages |
| `Apply` | `pm2 apply`, its selection and its `--delete` |
| `Wizard` | `pm2 wizard`, over `WorkflowGraph` by `INSTANCE` |
| `SystemSampler`, `GPUAgent` | counters and their differences; the agent, its file, its readers |
| `ClientMC` | the seven above, each in a part of the behaviours |
| `ClientProofs` | theorems about the seven |

`StorageMC`, `LifecycleMC` and `ClientMC` put components that share no state
side by side in one instance: a constant variable `part` chooses which of them
moves. What they share with others is an input: a query of the journal meets
any appends, a screen any answers.

### The process manager

*Launches.* Each successful `executor.Start` gets a number. It stands for the
`*ManagedProcess`, for its run ID and for the PID of its child, which the code
creates together and compares separately. `key[m]` is the key that launch was
made for: the closures given to `Watch` keep it. `child[m]` is the process
("child" here is the process and whoever holds its output pipe, since `cmd.Wait`
waits for both), `watching[m]` how far its goroutine is in `Watch`,
`onProcessExit`, `recordRun` and the sleep before an auto-restart, and `note[m]`
what that goroutine holds in local variables.

*Handlers.* `thread[t]` is a goroutine that runs a handler: an RPC, a cron
fire, a debounce timer, an auto-restart or the replay at boot. `pc` names the
critical section it enters next. Labels are shared by the callers of the same
code: `unschedule`, `mark`, `wait`, `settle` are `stopProcess` with
`executor.Stop`, `fork` and `install` are `launchProcessWith` with
`executor.Start`, `autosave`, `snapshot`, `truncate`, `write` are `autoSave`
with `Save`; `op` says who called and where to go on.

| Actions | Code |
| --- | --- |
| `StartApp`, `Lookup`, `StartAppDone` | `StartApp` and its loop over instances |
| `ByName`, `KillAll`, `RestartNext`, `ResumeNext`, `StopNext`, `TargetsDone` | the `...ByName` commands, `restartTargets`, their loops and their saves |
| `Unschedule`, `Mark`, `Wait`, `StopTimeout`, `Settle` | `stopProcess`, `executor.Stop` |
| `Suspend`, `Remove` | the last section of `PauseByName`, of `DeleteByName` |
| `Fork`, `ForkFails`, `Install` (`InstallOver`, `Discard`) | `executor.Start`, `launchProcessWith` |
| `Reap`, `OnProcessExit`, `RecordRun`, `AutoRestart` | `executor.Watch`, `onProcessExit` |
| `TriggerCron`, `Guard`, `CronRestart`, `Outcome` | `triggerCron`, the `cron_restart` closure, `UpdateCronStatus` |
| `FileChange`, `Debounced` | the fsnotify watcher, `onFileChanged` |
| `AutoSave`, `Snapshot`, `Truncate`, `Write` | `autoSave`, `Save` |
| `Resurrect`, `Suppress`, `Replay` | `Resurrect` |
| `Drained`, `Exit`, `Crash`, `Boot` | `WaitForExits`, the exit after a kill, a killed daemon, `startAutoResurrect` |

Every step is one critical section of the registry or scheduler lock or one
system call. Steps in between that touch only local variables are merged into
the next. Go's map iteration order is a free choice in `FindByTarget`,
`FindExisting` and every loop over targets.

**Abstracted.**

- A target is what `FindByTarget` makes of the typed text, not the text.
- The trigger of a run is `cron` or `other`: nothing else is ever asked for.
- An app is `plain`, `cron` or `cron_restart`. The code lets an app have both;
  the registration of `cron` then replaces the other and it behaves as `cron`.
- SIGTERM is sent in the step that marks the entry stopping. `Outcome` writes
  the cron status and the journal record in one step. The record `RecordRun`
  appends and the cron status it sets are one step.
- Time. A stop timeout (5 s) may fire whenever the child has not ended, the
  exit drain (2 s) whatever the goroutines it waits for still do: a kill then
  gives up, as `WaitForExits` does, and the daemon exits without their records.
  `RestartDelay` and the schedule's times are left open.
- `Resurrect` normalises a saved app again: one without a configuration file is
  replayed as if it came from `ecosystem.config.js` in the daemon's directory.
  `Replay` leaves it without a file. Every client of the repository names a file
  (`config/ecosystem.go:105`), so only a foreign client meets the difference,
  and only `Moves`, where nothing is replayed, has such an app.
- A short image written over a longer one, by two writers at once, gives a
  `mixed` file whose contents are not followed further.
- Spawning fails for good once `MaxLaunch` launches were made; this is the bound
  of the state space. It may also fail earlier where `SpawnMayFail` holds.
- Not modelled: reuse of PIDs, a file watcher that cannot be opened, cron
  expressions that do not parse, environments, working directories and log
  files, CPU and memory samples.

### The workflow engine

`client[c]` is a goroutine inside the engine: an RPC, a webhook or a cron fire.
`run[r]` is `activeRun` and `execute`'s loop; the goroutine of a run also
executes the runs nested in it, so a parent waits at `child`. `line` is the
chain of runs a nested run was called from. `proc[r]` is the process of the
run's stage.

| Actions | Code |
| --- | --- |
| `Register`, `Delete`, `Disarm`, `Truncate`, `Write`, `Arm` | `Register`, `Delete`, `persist`, `armAll` |
| `RunWorkflow`, `Claim`, `Await`, `StopRun`, `Query` | `Run`, `claim`, `--wait`, `StopRun`, the reads |
| `Fire`, `FireLookup`, `Skip` | `cronFire`, `recordSkip` |
| `Spawn`, `ProcessExits`, `StageExited`, `Timeout`, `CancelStage`, `StageStopped` | `runStage` and the executor's Stop |
| `ResolveNested`, `ClaimNested`, `NestedEnded` | `runNested` |
| `LoopEnds`, `Release`, `RecordRun` | the end of `execute` and its deferred function |
| `Crash`, `Load` | a daemon that dies, and the next one |

Parameters, environments and the text of errors are left
out. A process of a daemon that died goes on as an `orphan`.

### Logs and journal

`TaskLog`: a file is a sequence of pieces, one per write, each the head of a
stamped line or its continuation. `inode` keeps files apart from paths, so a
writer or a follower may hold a file that was replaced. Rotation is split where
the code can fail: staging by day, one append per archive, replacing the log,
undoing what was appended. A write that fails may have left a part: of a stamp,
the stamp alone, or of the rest of a line. The undoing may fail too, for any
archive (`rotation.go:293`, `:296` ignore it), in one rotation of a behaviour; as
with a crash within a commit, `torn` records that. The log a writer meets first
is absent, a stamped one of earlier days, one that begins with an undated line,
or one stamped by a clock a day ahead. What may happen around the writer (`disk`
errors, a `crash`, removals from the log browser, a follower, one removal between
the stat and the read of its poll) is chosen per behaviour. *Not modelled:* reuse of inode numbers. A
follower takes a file for the one it has open when `os.SameFile` does
(`follow.go:102`); a new file under a freed number would be read from the old
offset, while every file of the model has a number of its own.

`RunJournal`: a record is stamped in one step (`Stamp`) and appended in a
later one, under the store's lock. `ensureDay` and `pruneDir` are part of the
append. A query takes no lock and reads one file per step. `Torn` is a record
whose write was cut short, `Malformed` what the reader makes of two records
glued together.

### Socket, web, metrics

`DaemonSocket`: a daemon claims the path in the code's order (stat, probe, ping,
remove, listen, serve) and any other may move in between; `seen` remembers who
served when it looked, for the property alone. A daemon may become `slow` while it
boots or serves (`Stall`): from then on a probe may be answered or time out
(`probeTimeout`, 2 s), and a starting daemon that got no answer replaces it. A kill leaves 150 ms in which the
daemon still answers. `WebServer`: a request reads the journal, then the live
runs, in two steps, while runs end in two steps of their own; the limiter is a
sliding window by name. `Metrics`: an entry's figures carry the child they are
of; one worker is one step.

### Screens and tools

`Monitor`, `Dashboard` and `LogBrowser` follow Bubble Tea: a key or a message is
one `Update`, a command is a task of its own that reads the world and later
delivers one message. Rendering is left out, and rows carry only what ranking,
filtering and the keys look at. `prompted` is a history variable: whom the kill
prompt named, and which prompts the user agreed to. No namespace is called `All`,
which is the label of the chip that filters nothing. `Apply`: one request is one
step, and may fail; `RunTasks` sends every start twice, which the model keeps.
`Wizard`: an answer is one step, the write is two (truncate, fill), others save between any two.
`SystemSampler`: 64-bit arithmetic wraps at `CounterSpan`. `GPUAgent`: one line
of the tool's output is one step.

## 3. What TLC checks

| Run | Instance | What it shows |
| --- | --- | --- |
| `Serial` | one `cron` task, every command, one handler at a time, crashes, 3 launches | types; no running child is lost; a paused task is suspended and a schedule registered exactly when its entry asks for it; `dump.json` matches the registry when quiet, across crashes and replays; a kill ends every child that had an entry, and unless its wait gives up loses no record of an exit (a child that no entry ever held, `ClaimPausedHasNoChild`, outlives it) |
| `Moves` | one name in two namespaces, from a file and by a client that names none | IDs are unique; the model implements `TaskIdentity` |
| `Concurrent` | a watched `cron` task, two handlers among start, pause, resume, fires, file changes and auto-restarts | a stop shows until it is overruled on purpose; every child has someone to reap it; no file watcher outlives its child; a stop waits for its child; nothing but a start, a resume or an auto-restart lifts a pause |
| `Liveness` | a `cron_restart` task, start, delete, kill, two handlers | commands return, signalled children end, exits are booked |
| `Workflows` | two workflows, two clients, two runs, failing dumps, crashes | one run per workflow; definitions, dump and schedules agree between writes; every fire starts a run or is recorded as skipped |
| `WorkflowRuns` | three workflows, one nesting another, three runs, timeouts, cancellation, fairness | a closed run is over with all that is nested in it; stages are sequential; records explain themselves; `StopRun` returns; runs end |
| `Storage` | a log over three days, left by anyone before, with one kind of trouble around it; a journal of three days, two goroutines, three records | no line is lost; none is copied or archived under another day unless a commit was cut off or its undoing failed; a leading block of an earlier day is archived before a line is added; a follower emits every line once complete; a record is found unless it is glued to a torn one; a query's answer is sound |
| `Lifecycle` | three daemons and three commands; two requests; two tasks and four children | a request is carried out again only if the first daemon died; a daemon that answers its probes in time loses its path only to one that looked before it served; lists and triggers are honest; figures are of the child shown |
| `Client` | the seven client programs | under late, failing and reordered answers cursors, lists and prompts stay true, `apply` and the wizard do what they say but for what section 5 lists, and figures are measured (the CPU's while no counter is taken back) |

Three more runs show where a doc or a comment promises more than the code
keeps. Each has the shortest instance with a counterexample.

| Run | What happens |
| --- | --- |
| `ClaimPausedHasNoChild` | restarting a paused task forks a child, then finds the pause and discards the launch; the child keeps running, unregistered |
| `ClaimStopSuppressesAutoRestart` | an auto-restart that looked at `stopping` before a stop launches after it |
| `ClaimDaemonIsSingleton` | two daemons find a dead socket; the second removes what the first has bound, and both serve |

**Bounds.** *Process manager*: two or three launches are enough for each race:
one entry, the one that replaces it, one more to show that schedule and status
recover. Two handlers, because every property relates one handler to at most one
that comes in between. One task where a property speaks of one key; `Moves` has
two keys and three requests because a move needs them. `max` is 1, so one
auto-restart happens and the next is refused. *Workflow engine*: two clients and
two runs let a claim, a release and a delete overlap; three runs, two slots
(`MaxConcurrentRuns`) and a depth of 2 reach every refusal of a nested run.
`Writers` is 1 in `Workflows`: `Register` and `Delete` write and arm outside the
lock, and two at once break `DefinitionsArePersistent`. *Storage*: the third day
makes an archive that is neither today's nor yesterday's; `KeepDays` 2 lets one
day be pruned; one log writer, because two on one path lose lines (the same name
in two namespaces); three files at a path, which is two rotations, or a removal
and one rotation; one removal in the middle of a follower's poll; and the journal's half needs but one of the logs. *Lifecycle*: two claimants and the one that died; one more
child than the refresh has looked at; a window of 2 with a burst of 1. *Client*:
a handful of keys, one or two changes from outside, at most two commands in
flight; that is one stale answer and one that overtakes it. Handlers, clients
and commands that no property tells apart are symmetric, never in a run with
liveness. No constraint cuts a state space. Deadlock is checked wherever the
component goes on by itself; `Storage`, `Lifecycle` and `Client` stop when their
bounds on days, processes, keys and events are used up.

**Fairness.** Of the process manager, `FairSpec` assumes that a handler that has
begun is scheduled again (`WF` of `Step(t)`, which the Go runtime provides:
every label has an enabled step or waits for one that fairness or a timeout
brings), that the goroutine waiting on a child runs once the child has ended,
and that a child that was sent SIGKILL ends. Of the workflow engine, that a
client inside it and the goroutine of a run are scheduled, and that a process
that is being stopped ends (`executor.Stop` escalates to SIGKILL). Nothing is
assumed of clients, fires, spawning, timeouts of stages or children that were
not killed: a workflow whose process runs for ever runs for ever.

## 4. What is proved

TLAPS proves these for every value of the constants that the named assumptions
admit: any set of namespaces, names, scripts, requests, workflows, definitions,
daemons and tasks, any number of handlers, clients, days, lines and records, any
bounds, with and
without crashes, failing spawns and failing disks, unless a hypothesis says
otherwise.

| Theorem | Statement |
| --- | --- |
| `TypeCorrect` | `ProcessManager`: `Spec => []TypeOK` |
| `StopsStick` | `Spec => []StopSticks` |
| `FiresNeverUnpause` | `Spec => FireNeverUnpauses` |
| `IDsAreUnique` | `Spec => []UniqueIDs` |
| `KeepsIdentity` | `Spec => IdentityIsKept`, that is, `ProcessManager` implements `TaskIdentity` |
| `WatchersFollowTheirChild` | `Spec => []WatcherFollowsChild` |
| `StopsWaitForTheirChild` | `Spec => []StopWaitsForChild` |
| `ChildrenAreReaped` | `Spec /\ []up => []EveryChildIsReaped` |
| `NothingIsLost` | `OneHandler /\ TwoHomes => (Spec => []NoLostChild)` |
| `PausesAreKept` | `OneHandler /\ TwoHomes => (Spec => []PausedIsSuspended)` |
| `SchedulesAreExact` | `OneHandler /\ TwoHomes => (Spec => []ScheduleMatchesEntry)` |
| `ShutdownsAreClean` | `OneHandler /\ TwoHomes => (Spec => []CleanShutdown)` |
| `DumpsMatch` | `OneHandler /\ TwoHomes /\ OneSource /\ ~SpawnMayFail => (Spec => []DumpMatchesRegistry)` |
| `WorkflowTypes` | `WorkflowEngine`: `Spec => []TypeOK` |
| `SingleFlight` | `Spec => []OneRunPerWorkflow` |
| `FiresLeaveATrace` | `Spec => FireLeavesATrace` |
| `StagesInSequence` | `Spec => []StagesAreSequential` |
| `ClosedRunsAreOver` | `Spec => []ClosedRunIsOver` |
| `RecordsExplainThemselves` | `Spec => []RecordExplainsItself` |
| `Persistence` | `OneWriterAtATime => (Spec => []DefinitionsArePersistent)` |
| `FollowersMissNothing` | `TaskLog`: `LogSpec => []FollowerIsComplete` |
| `LinesKept` | `OneWriter => (LogSpec => []LinesAreKept)` |
| `LeadingBlocksAreArchived` | `OneWriter => (LogSpec => []LeadingBlockIsArchived)` |
| `RotationsAreExact` | `OneWriter => (LogSpec => []RotationIsExact)` |
| `RecordsFound` | `RunJournal`: `JournalSpec => []RecordsAreFound` |
| `AnswersAreSound` | `JournalSpec => []AnswerIsSound` |
| `StorageTypes` | `StorageMC`: `Spec => []TypeOK` |
| `SamplesAreOfTheirChild` | `Metrics`: `MetricsSpec => []SampleIsOfItsChild` |
| `RequestsAnsweredOnce` | `DaemonSocket`: `SockSpec => []AnsweredOnce` |
| `IncumbentKeeps` | `SockSpec => IncumbentKeepsPath` |
| `WebAnswers` | `WebServer`: `WebSpec => []WebAnswersHold` |
| `ScreensAreUsable` | `ClientMC`: `Spec => []ScreensHold` |
| `CursorKeepsItsTask` | `Spec => MonitorCursorStays` |
| `CommandsDoAsAsked` | `Spec => []CommandsHold` |
| `FiguresAreMeasured` | `Spec => []FiguresHold` |

*The process manager.* `TypeOK` alone is not inductive: the tail of the list of
instances exists only where there is one, and an installed entry is typed only
if the handler holds a launch. `Inductive` adds `InHand` for every handler: at
`install` it holds a launch; at `guard` it is a cron fire; on its way to a
launch for a `start` it has an instance left. `NextInductive` goes through the
actions, grouped by what they change. `RegistrySteps` then shows that only five
things ever happen to the registry and `nextID`: nothing; one entry is amended
in place, which keeps its identity, never lifts a pause and never hides a stop
(`Amends`); one entry is removed; one is installed, over at most one other
(`InstallSteps`); or the daemon is gone. `StopsStick`, `FiresNeverUnpause`,
`IDsAreUnique` and `KeepsIdentity` are case analyses over these five.

*Children, with any number of handlers.* `ChildInv` says who may hold which
launch. What is not yet forked is new to everybody (`Unforked`); a launch that
was forked and not installed is in one handler's hand and in nobody else's
(`Fresh`); whatever a handler or the registry holds otherwise was installed and
handed to a goroutine (`AllManaged`), so that goroutine is there until it has
reaped the child, also after a discarded or overruled launch. A goroutine that is
done has reaped its child (`Ended`), so a handler past the wait of `stopProcess`
holds a child that ended or was sent SIGKILL, and no step takes that back,
whatever other handlers do to the entry.
`EveryChildIsReaped` has the hypothesis `[]up` because a child outlives a daemon
that dies. It is not that crashes are excluded from the model.

*One handler at a time.* With two handlers `NoLostChild`, `PausedIsSuspended`,
`ScheduleMatchesEntry`, `DumpMatchesRegistry` and `CleanShutdown` are false
(section 5). `OneHandler` says that `Threads` has one element: a command, a fire
or a relaunch ends before the next begins. Children end, goroutines book their
exits, and the daemon may crash, at any moment in between. `SerialInv` adds to
`ChildInv` what holds of the registry at every moment (`World`: entries are
under the key they were launched for, a paused entry has no running child, a
goroutine that is done has recorded the exit) and what the one handler has
ensured where it stands (`HandlerHolds`): its targets are still registered, what
it launches replaces nothing that runs, the schedule of the task in hand is gone
between `mark` and the end of the stop, every running child is among the targets
of a kill. The schedule is exact at every moment but one: between the removal of
the cron entry and the mark (`RestHolds`).

A `start` of a file moves the task the file has in another namespace
(`findExistingForLaunchUnderLock`, `launch.go:71`): what is stopped, replaced and
unscheduled is then an entry under another key than the one launched
(`FoundStays`, `FoundOwn`). `TwoHomes` says that a file gives a name at most two
namespaces, the one a task is in and the one it moves to. It is needed, and TLC
found where: a configuration file and a client that names none can register one name
in two namespaces, a `start` of the file from a third one then finds two entries
to replace, and the lookup, which is made once to stop and once to replace,
returns whichever the map offers first (`process_registry.go:341`). One is
stopped, the other is replaced with its child running. With two homes there is
at most one entry to find (`OneFound`).

`DumpsMatch` asks for more, `OneSource`: where a file moves a task to, nothing else
registers that name. This, too, is needed. A task started in namespace B without the
file, by such a client, then from the file, leaves the file with two entries of one
name when it has one in A already; both are saved, and a replay sends them through
the same lookup, so the second moves the first (section 5; TLC reports the lost entry
after a crash).
With `OneSource` the registry never holds two entries of one name and one file
(`NoTwins`, preserved by a launch through `InstalledAlone`), and of an image without
twins (`Distinct`) every entry finds nothing or itself. A task that is moved by
nothing but its file is covered.

`DumpsMatch` rests on `SaveInv`. A handler that has changed something has a save
ahead of it (`Unsaved`); otherwise image and registry agree (`Matches`). What is
launched without a save (`Relaunches`) has the app and the pause of the entry it
replaces, which needs that an armed auto-restart is of no paused task and a fire
of what is registered. During a replay the registered tasks, the saved entries
still to come and the one in hand make up the image (`ReplayHolds`). The theorem
assumes `~SpawnMayFail`: a saved entry that cannot be launched is lost, and a
resume that fails midway does not save (`process_manager.go:302`). Used-up
launches, the bound of the model, are excluded in the property.

*The workflow engine.* `IInv` has four parts. `DefsOK`: definitions, dump and
schedules are sets of definitions under their own keys, which merging and
removing preserve. `ClientsOK`: a client has in hand what its place needs, and a
cron fire claims the workflow it was armed for. `RunsOK`: so has the goroutine
of a run, and `SlotOK`: from its claim to its release a run is what `inflight`
holds for its workflow. `RestOK` is typing. `SlotOK` is what single flight rests
on, and it is inductive only with the typing of definitions: a claim writes the
slot of the key its definition carries, and it is granted only if that slot is
free, so no other run's slot changes; a release empties the slots that hold the
run itself and no others. One lemma per kind of step carries the four parts, and
`FiresLeaveATrace` follows from `ClientsOK` by cases over the steps of a fire.

`RunInv` adds the tree of nested runs. A line holds the numbers of runs claimed
earlier (`Numbered`); every run on the line of an open one waits at `child` for
the next (`AncestorsWait`); of two open runs of one trigger one is on the line of
the other (`OneBranch`); a live process belongs to an open run that is at its
stage (`ProcsOK`); what is closed is in the journal (`Journalled`); a run before
stage `i` has `i - 1` successes behind it, and one that is over has a list of
stages that tells its status (`Progress`). `StagesInSequence` needs the first
four, `ClosedRunsAreOver` the fifth too, `RecordsExplainThemselves` the last.

`Persistence` is for one writer at a time (`OneWriterAtATime`), because
`Register` and `Delete` write and arm outside the lock. `DefinitionInv` says what
of memory, dump and schedules the writer has made equal where it stands, and that
they agree when there is none and no write failed since the last register.

*Logs.* `LogInv` is typing: what a writer has in hand where it stands
(`WriterHolds`), and that the number of a file is never used again
(`InodesAreFresh`). It holds for any number of writers, and so does
`FollowerInv`: what the follower has emitted and what it holds back are the
lines and the tail of what it has read, of the file it has open, which only
grows while it is the current one.

The other three are for one writer on a path (`OneWriter`). The code gives a
path one writer as long as no two tasks have one name: log files are named
without the namespace (`executor.go:95`), and with two writers, one replaces the
log the other has open, whose lines are lost. `KeepingInv` says where a line is
in each step of a rotation: what is staged or stays is the log of the moment
before, an archive that has been appended is its old self and a block of those
lines, and what a roll-back would cut off is still in the log (`Rotating`).
`DayInv` says that every stamped line of a log begins where one has ended
(`Orderly`), whoever wrote it and whatever was cut short, which is what a writer
that reopens a log after a failure ensures with a newline
(`ensureAppendBoundary`); a rotation then takes the whole leading block of
earlier days, if the log begins with one. `ExactInv` follows
the heads of the lines (`Once`): outside of a commit every number is in one
place, within one the writer's entries tell what has been doubled (`Exactly`).
It says nothing once the daemon has died within a commit or an archive could not
be truncated (`torn`): then the lines already archived are archived again, which
`RotationIsExact` allows for.

*Journal.* `StoreInv`: the record a goroutine has in hand is its own and not yet
appended (`InHand`); a day file holds records of its day whose append
succeeded, each once (`Filed`); what may be read is in the file of its day
(`Kept`); and the records glued to a torn line together with the files that end
in one are no more than the appends that failed (`Counted`), because a failure
makes at most one torn line, which the next append uses up. `ReaderInv`: a query
has read the days newer than those it has still to do, has nothing twice, and
has what it was sure of when it began unless that is of a day still to come,
behind the tail that is read, pruned since or beyond the limit.

*Socket and metrics.* `SockInv`: a daemon that looked remembers who served
(`ProbeHolds`), and what was carried out for a request is due to the daemon it
was sent to or to ones that are gone (`CommandHolds`); that nobody comes back
(`LivesOn`) carries both. `MetricsInv`: a sample that is being taken is of the
PID it was asked for (`Honest`), and an update that finds another PID is dropped.

*The web server.* `WebInv`: a run is in one place, live, finished or in the
journal (`RunsApart`), and only there once; a request that has read the journal
has in hand what is in it, and one that was answered has every run that has been
in flight since it began (`Served`); no two requests name one run (`RunsNamed`).
A list repeats nothing because a run that is still live when the second step reads
the live runs was not journaled when the first step read the journal: the engine
lets go of a run before its record is written, and the mutant that reverses this
is refuted. For the limiter the invariant has to speak of times to come: at no
time from now on do more of the triggers that passed lie in the window than of
the attempts the limiter remembers (`LimiterHolds`), and what it forgets never
counts again (`FreshRemembers`).

*The screens.* `MonitorIInv`: the list shown is the set of the chip's rows, each
once, in the order asked for (`ListOK`), and every chip a row can have is among
the chips. The sort is a `CHOOSE` of an ordered list of a set: `Arranged` shows
that there is one, by way of the smallest subset that would have none, so that
the row under the cursor can be looked for, and found, after each reordering
(`CursorStep`). `BoardIInv`: the cursor is on a row, and on the anchored subject
while that is listed (`CursorOK`); what a prompt names may be killed (`Allowed`), and a kill under
way was agreed to under that name (`prompted`). There is one timer because
a chain of refreshes goes on only from its own answer. `BrowserIInv` types the
tree; the work is in where a row is. The rows are the tree's blocks end to end
(`Laid`, `Array`), so that opening and closing a log above or below the cursor
moves it by the block's length, and a row that stays is found again at its place
(`RowStays`).

*Apply and wizard.* `ApplyIInv` keeps what has been sent: the first `Sent` apps
are registered in all their instances, paused as asked (`StartOK`); those of a
sweep are gone (`SweepOK`); no two tasks share an ID or a key (`RegistryOK`), and
what other files own stays, short of what a sweep addresses by the same key
or by the number its namespace begins with (`OthersOK`, `Reached`), which a
lookup takes for an ID when the key is not there. A start that takes IDs has
to be told apart from all that are registered (`LaunchedDiffer`). `WizardIInv`
carries `Kept` from the merge to the end of the write: names, keys and stages of
the file are a prefix of those written, no app is there twice, and what is merged
loads.

*Samplers and GPU agent.* `SamplerIInv` ties every counter to its baseline by
what was spent or moved since (`CPUMeasured`, `Measured`), with the exception of a
counter that was taken back. `AgentIInv`: the rows the parser holds are its
sample's and all of them once the sample is complete (`ParserOK`), and an
exported reading is of a sample at most one older than its time (`ReadingOK`).
That a GPU's memory is counted once for a task needs the search through the
process table to visit what is below the task and no process twice: `Below` is
the smallest set that holds the root and is closed under children, and
`VisitKeeps` shows, for tables with cycles too, that the queue never repeats and
what is in it is below (`TreeIs`, `CountedOnce`).

*Induction.* None of this uses induction over data. What a scan or a split
returns is defined by the places it selects and their order (`Places`,
`NewestFirst`, `Pieces`), not by a recursion. Where an argument goes along a
sequence, the steps of a search or the size of a finite set, it takes the least
number that would refute it (`LeastNumber`), and a recursive function is reached
by the existence of its unfolding up to each number (`Recursed`).

*Only model-checked.* Every safety property of the runs is stated by a theorem;
the serial ones hold of one handler at a time, because TLC refutes them where
handlers overlap, and of several handlers only what the first eight theorems say
is known. Liveness (`HandlersReturn`, `StoppedChildrenEnd`, `ExitsAreBooked`,
`StopRunReturns`, `RunsEnd`) and `ENABLED` are out of the prover's reach. So is
what the depth-first cycle check of workflow definitions computes for every
graph; no theorem rests on it.

## 5. Met on the way

Behaviour of the code that the models show and no run is spent on.

**Where the code departs from its documents.** The properties are stated around
these, so no run reports them.

- Journal: a record appended behind a torn line is glued to it and lost, although
  its append succeeded. `runhistory/store_test.go:222-223` says of a half-written
  line that it 'must cost that one record, not the file'; its test appends
  nothing afterwards. `RecordsAreFound` says only that there are no more such
  losses than failed appends. Within one day a query answers in the order of
  the appends, not of the stamps, so `newest first` (`query.go:39`) holds between
  days only.
- `apply --delete` addresses an app of several instances by its name without the
  number, finds nothing and reports it as skipped, against README.md:93-94,
  'every task the file declares'. It deletes a task of another file that is
  registered under the same key, and, when a key is not registered, the task
  whose ID its namespace begins with (`process_registry.go:220`), against
  README.md:94-95, 'never touched'. `ApplyHolds` bounds the harm to those.
- Wizard: a new or forced file is validated before it is normalised, against
  `validate.go:11-15`: an empty category hides a duplicate or a cycle that
  `pm2 apply` then refuses, and two stages left without a name refuse the
  document. The merge knows an app by its name alone, though `merge.go:38-42` says
  that is the daemon's identity, so an app of another namespace is dropped.
- Monitor: changing the chip under the workflow tab, where no task is listed, puts
  the cursor back on the first task (`tui/model.go:312`), against
  `tui/keys.go:106-108` and `tui/model.go:189-191`, where each list keeps its own.
- CPU: an idle counter that is taken back while the total grows is subtracted
  round the end of the integers (`sysmon/linux.go:132`), against
  `linux.go:124-126`, where a counter that went backwards 'is treated the same
  way' as one that has no earlier reading.
- GPU agent: what was read of the sample its tool died in is published and shown
  until the file is removed (`powermetrics.go:55-57`), against
  `powermetrics.go:25-26`, 'once per completed sample block'.
- Socket: a daemon that is alive but slower than `probeTimeout` is replaced and
  serves on. That is intended of a wedged one (`listener.go:97-104`); it means
  that a singleton is one daemon that answers.
- Shutdown: a wait that gives up (`process_manager.go:396-409`) lets `os.Exit`
  lose the records it waited for, as the comment there concedes.

**And else.**

- Two concurrent starts of one task replace an entry and lose its child
  (`process_registry.go:361`, `process_manager.go:169`). A fire past its guard
  registers the schedule of a task that is paused meanwhile. An exit booked
  after a restart is recorded under the run that replaced it. Of two saves the
  older snapshot may be written last. A relaunch that fails leaves the status
  `launching`, and the overlap guard skips every later fire. A fire whose launch
  fails leaves its task without its schedule. `running` may overwrite the
  outcome of a child that ended at once (`lifecycle.go:175`). A resume of
  several tasks that fails midway returns without saving.
- A file with one name and script in two namespaces: each start moves the other's
  entry. Two saved entries of one name and one file in two namespaces (the
  second was there before, from a client that names no file, so it was not moved)
  come back as one: replaying the second moves the first (`launch.go:71`).
  `RunTasks` sends every start twice (`cmd/task/start.go`). A remote
  configuration cut short by a failed download is taken for a cached one from
  then on (`config/remote.go:64`, `:148`).
- Wizard: what somebody saves between the preview and the write is lost, and a
  write that dies leaves the file empty.
- Dashboard: a task is anchored by its bare name (`tui/dashboard/model.go:82`),
  so with the same name in two namespaces the cursor may land on the other.
  Monitor: changing the chip puts the cursor on another task.
- GPU agent: rows are joined by PID for as long as the file is fresh.

## 6. Not modelled

Rendering (views, web pages, the text of generated files), the evaluation of
JavaScript, HTTP and JSON framing, the checks of Host and token, reading `/proc`
and the output of `ps` and of GPU tools, Darwin's samplers, installation as a
service, environments, working directories and command lines of children, bytes
and escapes of log lines: pure conversions or input and output, without state
that a step of another actor could meet.

Left for later: the instances with two categories, in which a delete changes what
others' references resolve to; the composition of the engine with the process
manager through the tasks its stages restart.
