--------------------------- MODULE ProcessManager ---------------------------
(***************************************************************************)
(* The daemon's process manager: the registry of tasks, the commands the   *)
(* RPC layer dispatches to it, the goroutine that watches each child, the  *)
(* cron scheduler, the file watchers and dump.json (daemon/*.go,           *)
(* daemon/executor/, cron/scheduler.go).                                   *)
(*                                                                         *)
(* Grain of atomicity.  Every step is one critical section of the registry *)
(* lock, of the scheduler lock, or one system call; steps that touch only  *)
(* a goroutine's own variables are merged with the next of these.  Nothing *)
(* is held between two steps, so every handler interleaves with all others.*)
(*                                                                         *)
(* One number stands for one executor.Start that succeeded: it is at once  *)
(* the *ManagedProcess that launch creates, its run ID and the PID of the  *)
(* child, if one is forked.  A thread is a goroutine running a handler: an *)
(* RPC connection, a cron fire, a debounce timer, a delayed auto-restart.  *)
(***************************************************************************)
EXTENDS TaskRegistry, Sequences

CONSTANTS
  Threads,         \* handler goroutines that may run at the same time
  Commands,        \* the RPC commands clients issue
  StartRequests,   \* [apps, paused]: the instances of one `start'
  Targets,         \* what clients type as a target
  MaxLaunch,       \* bound: launches until spawning fails for good
  SpawnMayFail,    \* fork/exec or opening a log may fail at any time
  MayCrash         \* the daemon may be killed at any time

Launches == 1..MaxLaunch
Apps == UNION {{r.apps[i] : i \in DOMAIN r.apps} : r \in StartRequests}

ASSUME ThreadsAssumption == Threads # {}
ASSUME RequestsAssumption ==
  /\ StartRequests # {}
  /\ \A r \in StartRequests :
       /\ r.apps \in Seq(App) /\ r.apps # <<>>
       /\ r.paused \in BOOLEAN
ASSUME BoundsAssumption ==
  /\ MaxLaunch \in Nat \ {0}
  /\ SpawnMayFail \in BOOLEAN /\ MayCrash \in BOOLEAN
ASSUME TargetsAssumption == Targets \subseteq Target

VARIABLES
  registry,    \* ProcessRegistry.processes: key -> ManagedProcess
  key,         \* the key each launch was made for, kept by its closures
  child,       \* the OS process of each launch
  watching,    \* how far the goroutine running executor.Watch has come
  note,        \* what that goroutine holds: exit status, run, trigger, again
  fswatch,     \* launches whose fsnotify watcher is open
  timers,      \* launches whose debounce timer is armed
  schedule,    \* Scheduler.entries: key -> the app its closure captured
  journal,     \* the run journal
  nextID,      \* ProcessManager.nextID
  nextLaunch,  \* the next launch number
  dump,        \* dump.json
  suppress,    \* ProcessManager.suppressAutoSave
  up,          \* the daemon runs
  thread       \* the handler goroutines

memory == <<registry, schedule, nextID>>
os == <<key, child, fswatch, nextLaunch>>
exits == <<watching, note, journal>>
files == <<dump, suppress>>
vars == <<memory, os, exits, files, timers, up, thread>>

Statuses == {"online", "stopped", "stopping", "errored", "launching", "paused"}
CronStatuses == {"", "running", "ok", "failed", "skipped"}
Triggers == {"cron", "other"}   \* only "cron" is ever asked for

anApp == CHOOSE a \in Apps : TRUE
NoApp == [anApp EXCEPT !.kind = "plain"]

Entry == [run : {Nil} \union Launches, app : Apps \union {NoApp}, id : Nat,
          status : Statuses, pid : {Nil} \union Launches, restarts : Nat,
          stopping : BOOLEAN, paused : BOOLEAN,
          trigger : Triggers, cronStatus : CronStatuses]
Absent == [run |-> Nil, app |-> NoApp, id |-> 0, status |-> "stopped",
           pid |-> Nil, restarts |-> 0, stopping |-> FALSE, paused |-> FALSE,
           trigger |-> "other", cronStatus |-> ""]

\* none: an idle cron task or a paused entry; gone: reaped by cmd.Wait.
Children == {"none", "running", "termed", "killed", "ok", "failed", "gone"}
Live == {"running", "termed", "killed"}

\* on: in cmd.Wait; reaped: done is closed; noted: the entry is updated;
\* delay: an auto-restart sleeps; unmanaged: Watch without done nor onExit.
WatchStages == {"off", "on", "reaped", "noted", "delay", "finished", "unmanaged"}
Notes == [exit : {"", "ok", "failed"}, run : {Nil} \union Launches,
          trigger : Triggers, again : BOOLEAN]
NoNote == [exit |-> "", run |-> Nil, trigger |-> "other", again |-> FALSE]

Records == [event : {"run", "cron_skip", "launch_fail"},
            run : {Nil} \union Launches, pid : {Nil} \union Launches]

\* dump.json: absent; truncated; complete; or the mixed bytes of two writers.
Image == SUBSET [app : Apps \union {NoApp}, paused : BOOLEAN]
Dumps == [state : {"absent", "empty", "complete", "mixed"}, image : Image]

Ops == {"start", "stop", "restart", "pause", "resume", "delete", "kill",
        "save", "resurrect", "watch", "cron_restart", "cron", "auto"}
Restarts == {"restart", "watch", "cron_restart"}   \* the callers of restartTargets
Labels == {"idle", "lookup", "next", "guard", "unschedule", "mark", "wait",
           "settle", "fork", "install", "suspend", "remove", "outcome",
           "autosave", "snapshot", "truncate", "write", "drain", "exit",
           "suppress", "replay"}
Job == [app : Apps \union {NoApp}, paused : BOOLEAN, triggered : BOOLEAN,
        trigger : Triggers]
NoJob == [app |-> NoApp, paused |-> FALSE, triggered |-> FALSE,
          trigger |-> "other"]
Thread ==
  [pc : Labels, op : Ops,
   todo : SUBSET Launches,           \* the *ManagedProcess found, still to do
   mp : {Nil} \union Launches,       \* the *ManagedProcess being stopped
   job : Job,                        \* the request being launched
   new : {Nil} \union Launches,      \* the launch executor.Start returned
   rest : Seq(Apps \union {NoApp}),   \* instances still to be started
   launched : BOOLEAN,               \* StartApp's infos is not empty
   fire : Keys \union {NoKey},       \* the key of a cron fire
   outcome : CronStatuses,           \* the status a cron fire will write;
                                     \* what WaitForExits told a kill
   image : Image,                    \* what Save is about to write
   replay : Image]                   \* the saved entries still to resurrect
Idle == [pc |-> "idle", op |-> "save", todo |-> {}, mp |-> Nil, job |-> NoJob,
         new |-> Nil, rest |-> <<>>, launched |-> FALSE, fire |-> NoKey,
         outcome |-> "", image |-> {}, replay |-> {}]

TypeOK ==
  /\ registry \in [Keys -> Entry]
  /\ key \in [Launches -> Keys]
  /\ child \in [Launches -> Children]
  /\ watching \in [Launches -> WatchStages]
  /\ note \in [Launches -> Notes]
  /\ fswatch \subseteq Launches /\ timers \subseteq Launches
  /\ schedule \in [Keys -> Apps \union {NoApp}]
  /\ journal \subseteq Records
  /\ nextID \in Nat /\ nextLaunch \in 1..(MaxLaunch + 1)
  /\ dump \in Dumps
  /\ suppress \in BOOLEAN /\ up \in BOOLEAN
  /\ thread \in [Threads -> Thread]

Init ==
  /\ registry = [k \in Keys |-> Absent]
  /\ key = [m \in Launches |-> cronKey(NoApp)]
  /\ child = [m \in Launches |-> "none"]
  /\ watching = [m \in Launches |-> "off"]
  /\ note = [m \in Launches |-> NoNote]
  /\ fswatch = {} /\ timers = {}
  /\ schedule = [k \in Keys |-> NoApp]
  /\ journal = {}
  /\ nextID = 0 /\ nextLaunch = 1
  /\ dump = [state |-> "absent", image |-> {}]
  /\ suppress = FALSE /\ up = TRUE
  /\ thread = [t \in Threads |-> Idle]

-----------------------------------------------------------------------------
(* Registry helpers.                                                       *)

Present(k) == registry[k].run # Nil

\* UpdateInfo(k, fn), where fn leaves `entry'; an absent key is skipped.
UpdateInfo(k, entry) ==
  registry' = IF Present(k) THEN [registry EXCEPT ![k] = entry] ELSE registry

\* The *ManagedProcess behind some keys.
Pointers(keys) == {registry[k].run : k \in keys}

SnapshotAppConfigs ==
  {[app |-> registry[k].app, paused |-> registry[k].paused] :
     k \in Registered(registry)}

At(t, label) == up /\ thread[t].pc = label
Become(t, state) == thread' = [thread EXCEPT ![t] = state]
Goto(t, label) == thread' = [thread EXCEPT ![t].pc = label]
Return(t) == Become(t, Idle)

-----------------------------------------------------------------------------
(* Commands: what an RPC handler does first.                               *)

\* StartApp will loop over the instances of the request.
StartApp(t) ==
  /\ At(t, "idle") /\ "start" \in Commands
  /\ \E r \in StartRequests :
       Become(t, [Idle EXCEPT !.pc = "lookup", !.op = "start", !.rest = r.apps,
                              !.job.paused = r.paused])
  /\ UNCHANGED <<memory, os, exits, files, timers, up>>

\* StopByName, RestartByName, PauseByName, ResumeByName and DeleteByName
\* resolve their target and loop over what they found.
ByName(t) ==
  /\ At(t, "idle")
  /\ \E op \in {"stop", "restart", "pause", "resume", "delete"} \intersect Commands :
     \E target \in Targets :
       LET found == FindByTarget(registry, target)
       IN  /\ found # {}
           /\ Become(t, [Idle EXCEPT !.pc = "next", !.op = op,
                                     !.todo = Pointers(found)])
  /\ UNCHANGED <<memory, os, exits, files, timers, up>>

KillAll(t) ==
  /\ At(t, "idle") /\ "kill" \in Commands
  /\ Become(t, [Idle EXCEPT !.pc = "next", !.op = "kill",
                            !.todo = Pointers(Registered(registry))])
  /\ UNCHANGED <<memory, os, exits, files, timers, up>>

\* CmdSave, and the tick of startAutoSave.
Save(t) ==
  /\ At(t, "idle") /\ "save" \in Commands
  /\ Goto(t, "snapshot")
  /\ UNCHANGED <<memory, os, exits, files, timers, up>>

-----------------------------------------------------------------------------
(* The loop over the targets of a command.                                 *)

\* restartTargets captures the configuration now registered under the key.
RestartNext(t) ==
  /\ At(t, "next") /\ thread[t].op \in Restarts
  /\ \E m \in thread[t].todo :
       Become(t, IF Present(key[m])
                 THEN [thread[t] EXCEPT !.todo = @ \ {m}, !.mp = m,
                         !.pc = "unschedule",
                         !.job = [NoJob EXCEPT !.app = registry[key[m]].app,
                                               !.triggered = TRUE]]
                 ELSE [thread[t] EXCEPT !.todo = @ \ {m}])
  /\ UNCHANGED <<memory, os, exits, files, timers, up>>

\* ResumeByName relaunches what is paused and skips the rest.
ResumeNext(t) ==
  /\ At(t, "next") /\ thread[t].op = "resume"
  /\ \E m \in thread[t].todo :
       LET entry == registry[key[m]]
       IN  Become(t, IF Present(key[m]) /\ entry.paused
                     THEN [thread[t] EXCEPT !.todo = @ \ {m}, !.pc = "fork",
                                            !.job = [NoJob EXCEPT !.app = entry.app]]
                     ELSE [thread[t] EXCEPT !.todo = @ \ {m}])
  /\ UNCHANGED <<memory, os, exits, files, timers, up>>

StopNext(t) ==
  /\ At(t, "next") /\ thread[t].op \in {"stop", "pause", "delete", "kill"}
  /\ \E m \in thread[t].todo :
       Become(t, [thread[t] EXCEPT !.todo = @ \ {m}, !.mp = m,
                                   !.pc = "unschedule"])
  /\ UNCHANGED <<memory, os, exits, files, timers, up>>

\* The loop is over: commands save, KillAll waits for the exits it caused,
\* a file watch is done and a cron_restart fire reports its outcome.
TargetsDone(t) ==
  /\ At(t, "next") /\ thread[t].todo = {}
  /\ LET over == [thread[t] EXCEPT !.mp = Nil, !.job = NoJob]
     IN  CASE thread[t].op = "kill" -> Become(t, [over EXCEPT !.pc = "drain"])
           [] thread[t].op = "watch" -> Return(t)
           [] thread[t].op = "cron_restart" ->
                Become(t, [over EXCEPT !.pc = "outcome", !.outcome = "ok"])
           [] OTHER -> Become(t, [over EXCEPT !.pc = "autosave"])
  /\ UNCHANGED <<memory, os, exits, files, timers, up>>

-----------------------------------------------------------------------------
(* stopProcess and executor.Stop.                                          *)

\* Mutant: the cron entry of a stopped task stays.
Unschedule_keeps(t) ==
  /\ At(t, "unschedule")
  /\ fswatch' = fswatch \ {thread[t].mp}
  /\ Goto(t, "mark")
  /\ UNCHANGED <<memory, key, child, nextLaunch, exits, files, timers, up>>

\* The cron entry goes, the file watcher is closed; an armed timer stays.
Unschedule(t) ==
  /\ At(t, "unschedule")
  /\ schedule' = [schedule EXCEPT ![key[thread[t].mp]] = NoApp]
  /\ fswatch' = fswatch \ {thread[t].mp}
  /\ Goto(t, "mark")
  /\ UNCHANGED <<registry, nextID, key, child, nextLaunch, exits, files,
                 timers, up>>

\* onStopping marks whatever entry the key holds now; then SIGTERM goes to
\* the process group of the child this handler was told to stop.
Mark(t) ==
  /\ At(t, "mark")
  /\ LET mp == thread[t].mp
         entry == registry[key[mp]]
     IN  /\ UpdateInfo(key[mp], [entry EXCEPT !.stopping = TRUE,
                          !.status = IF entry.paused THEN @ ELSE "stopping"])
         /\ child' = [child EXCEPT ![mp] = IF @ = "running" THEN "termed" ELSE @]
         /\ Goto(t, IF child[mp] = "none" THEN "settle" ELSE "wait")
  /\ UNCHANGED <<schedule, nextID, key, fswatch, nextLaunch, exits, files,
                 timers, up>>

\* Mutant: Stop returns without waiting for done.
Wait_not(t) ==
  /\ At(t, "wait") /\ Goto(t, "settle")
  /\ UNCHANGED <<memory, os, exits, files, timers, up>>

\* executor.Watch has closed done.
Wait(t) ==
  /\ At(t, "wait") /\ watching[thread[t].mp] # "on"
  /\ Goto(t, "settle")
  /\ UNCHANGED <<memory, os, exits, files, timers, up>>

\* Mutants: the wait has no timeout; the timeout sends no SIGKILL.
StopTimeout_never(t) == At(t, "wait") /\ FALSE /\ UNCHANGED vars
StopTimeout_gentle(t) ==
  /\ At(t, "wait") /\ child[thread[t].mp] = "termed"
  /\ Goto(t, "settle")
  /\ UNCHANGED <<memory, os, exits, files, timers, up>>

\* stopTimeout passed and the child outlived SIGTERM: SIGKILL, and go on.
StopTimeout(t) ==
  /\ At(t, "wait") /\ child[thread[t].mp] = "termed"
  /\ child' = [child EXCEPT ![thread[t].mp] = "killed"]
  /\ Goto(t, "settle")
  /\ UNCHANGED <<memory, key, fswatch, nextLaunch, exits, files, timers, up>>

AfterStop(op) ==
  CASE op = "pause" -> "suspend"
    [] op = "delete" -> "remove"
    [] op \in {"stop", "kill"} -> "next"
    [] OTHER -> "fork"

\* onStopped.
Settle(t) ==
  /\ At(t, "settle")
  /\ LET mp == thread[t].mp
         entry == registry[key[mp]]
     IN  UpdateInfo(key[mp], [entry EXCEPT !.pid = Nil,
                       !.status = IF entry.paused THEN @ ELSE "stopped"])
  /\ Goto(t, AfterStop(thread[t].op))
  /\ UNCHANGED <<schedule, nextID, os, exits, files, timers, up>>

\* PauseByName, once the task is stopped.
Suspend(t) ==
  /\ At(t, "suspend")
  /\ LET k == key[thread[t].mp]
     IN  UpdateInfo(k, [registry[k] EXCEPT !.paused = TRUE, !.status = "paused"])
  /\ Goto(t, "next")
  /\ UNCHANGED <<schedule, nextID, os, exits, files, timers, up>>

\* DeleteByName, once the task is stopped.
Remove(t) ==
  /\ At(t, "remove")
  /\ registry' = [registry EXCEPT ![key[thread[t].mp]] = Absent]
  /\ Goto(t, "next")
  /\ UNCHANGED <<schedule, nextID, os, exits, files, timers, up>>

-----------------------------------------------------------------------------
(* StartApp's loop over the instances.                                     *)

\* Mutant: the existing entry is replaced without being stopped.
Lookup_unstopped(t) ==
  /\ At(t, "lookup") /\ thread[t].rest # <<>>
  /\ Become(t, [thread[t] EXCEPT !.job.app = Head(thread[t].rest), !.pc = "fork"])
  /\ UNCHANGED <<memory, os, exits, files, timers, up>>

\* Nothing is registered: launch.  The same script: stop it first.  Another
\* script: the command fails and the remaining instances are not started.
Lookup(t) ==
  /\ At(t, "lookup") /\ thread[t].rest # <<>>
  /\ LET app == Head(thread[t].rest)
         found == FindExisting(registry, app)
         launch == [thread[t] EXCEPT !.job.app = app, !.pc = "fork"]
     IN  \/ found = {} /\ Become(t, launch)
         \/ \E k \in found :
              /\ registry[k].app.script = app.script
              /\ Become(t, [launch EXCEPT !.mp = registry[k].run,
                                          !.pc = "unschedule"])
         \/ \E k \in found :
              /\ registry[k].app.script # app.script
              /\ Become(t, [thread[t] EXCEPT !.rest = <<>>])
  /\ UNCHANGED <<memory, os, exits, files, timers, up>>

\* The deferred autoSave runs if something was launched.
StartAppDone(t) ==
  /\ At(t, "lookup") /\ thread[t].rest = <<>>
  /\ IF thread[t].launched THEN Become(t, [thread[t] EXCEPT !.job = NoJob,
                                                            !.pc = "autosave"])
     ELSE IF thread[t].op = "resurrect" THEN Goto(t, "replay")
     ELSE Return(t)
  /\ UNCHANGED <<memory, os, exits, files, timers, up>>

-----------------------------------------------------------------------------
(* launchProcessWith: executor.Start, then the registry.                   *)

\* A cron task between fires and a paused entry are registered without child.
NoChild(job) == job.paused \/ (job.app.kind = "cron" /\ ~job.triggered)

Fork(t) ==
  /\ At(t, "fork") /\ nextLaunch \in Launches
  /\ LET n == nextLaunch
         job == thread[t].job
     IN  /\ child' = [child EXCEPT ![n] = IF NoChild(job) THEN "none" ELSE "running"]
         /\ fswatch' = IF job.app.watch /\ ~NoChild(job) THEN fswatch \union {n}
                       ELSE fswatch
         /\ key' = [key EXCEPT ![n] = cronKey(job.app)]
         /\ nextLaunch' = n + 1
         /\ Become(t, [thread[t] EXCEPT !.new = n, !.pc = "install"])
  /\ UNCHANGED <<memory, exits, files, timers, up>>

\* A log file that cannot be opened, a script that cannot be executed.
ForkFails(t) ==
  /\ At(t, "fork")
  /\ SpawnMayFail \/ nextLaunch \notin Launches
  /\ CASE thread[t].op \in {"start", "resurrect"} ->
            Become(t, [thread[t] EXCEPT !.rest = <<>>, !.pc = "lookup"])
       [] thread[t].op \in Restarts -> Goto(t, "next")
       [] thread[t].op = "cron" ->
            Become(t, [thread[t] EXCEPT !.outcome = "failed", !.pc = "outcome"])
       [] OTHER -> Return(t)
  /\ UNCHANGED <<memory, os, exits, files, timers, up>>

\* How the caller of launchProcessWith goes on.
Launched(th) ==
  LET done == [th EXCEPT !.new = Nil, !.mp = Nil]
  IN  CASE th.op \in {"start", "resurrect"} ->
             [done EXCEPT !.rest = Tail(@), !.launched = TRUE, !.pc = "lookup"]
        [] th.op = "cron" -> [done EXCEPT !.outcome = "running", !.pc = "outcome"]
        [] th.op = "auto" -> Idle
        [] OTHER -> [done EXCEPT !.pc = "next"]

\* Mutant: a relaunch gets a new ID.
NewEntry_renumbers(job, n, e) ==
  [IF e = NoKey THEN Absent ELSE registry[e] EXCEPT
     !.id = nextID, !.run = n, !.app = job.app, !.trigger = job.trigger,
     !.status = IF job.paused THEN "paused" ELSE "online",
     !.pid = IF NoChild(job) THEN Nil ELSE n,
     !.stopping = FALSE, !.paused = job.paused]

\* The entry a launch installs, inheriting from the one under key `e', if any.
NewEntry(job, n, e) ==
  [IF e = NoKey THEN [Absent EXCEPT !.id = nextID] ELSE registry[e] EXCEPT
     !.run = n, !.app = job.app, !.trigger = job.trigger,
     !.status = IF job.paused THEN "paused"
                ELSE IF NoChild(job) THEN "stopped" ELSE "online",
     !.pid = IF NoChild(job) THEN Nil ELSE n,
     !.stopping = FALSE, !.paused = job.paused]

\* Mutant: no launch finds out that the task was paused meanwhile.
Overruled_never(job, e) == FALSE
\* A fire or a restart lost the race against a pause.
Overruled(job, e) == e # NoKey /\ registry[e].paused /\ job.triggered

\* Mutants: no number is issued; a fire does not register its schedule again.
NextID_stuck(e) == nextID
Scheduled_once(job) == job.app.kind # "plain" /\ ~job.paused /\ ~job.triggered

NextID(e) == IF e = NoKey THEN nextID + 1 ELSE nextID
Scheduled(job) == job.app.kind # "plain" /\ ~job.paused

\* The registry section of launchProcessWith, replacing the entry under `e'.
InstallOver(t, e) ==
  LET n == thread[t].new
      job == thread[t].job
      k == cronKey(job.app)
  IN  /\ ~Overruled(job, e)
      /\ registry' = [j \in Keys |-> IF j = k THEN NewEntry(job, n, e)
                                    ELSE IF j = e THEN Absent ELSE registry[j]]
      /\ nextID' = NextID(e)
      /\ watching' = [watching EXCEPT ![n] = IF NoChild(job) THEN "off" ELSE "on"]
      /\ schedule' = IF Scheduled(job) THEN [schedule EXCEPT ![k] = job.app]
                     ELSE schedule

\* Mutant: the child of a discarded launch is not waited for.
Discard_unwatched(t, e) ==
  Overruled(thread[t].job, e) /\ UNCHANGED <<memory, watching>>

\* The entry stays; the child that was already forked is only waited for.
Discard(t, e) ==
  /\ Overruled(thread[t].job, e)
  /\ watching' = [watching EXCEPT ![thread[t].new] = "unmanaged"]
  /\ UNCHANGED memory

Install(t) ==
  /\ At(t, "install")
  /\ LET found == FindExisting(registry, thread[t].job.app)
     IN  \E e \in (IF found = {} THEN {NoKey} ELSE found) :
           InstallOver(t, e) \/ Discard(t, e)
  /\ Become(t, Launched(thread[t]))
  /\ UNCHANGED <<os, note, journal, files, timers, up>>

-----------------------------------------------------------------------------
(* The child and the goroutine that runs executor.Watch and onProcessExit. *)

ChildExit(m) ==
  /\ child[m] \in Live
  /\ \E end \in {"ok", "failed"} :
       /\ child[m] = "killed" => end = "failed"
       /\ child' = [child EXCEPT ![m] = end]
  /\ UNCHANGED <<memory, key, fswatch, nextLaunch, exits, files, timers, up, thread>>

\* Mutants: the watcher stays open; the status is read from a reaped child.
Reap_open(m) ==
  /\ up /\ watching[m] \in {"on", "unmanaged"} /\ child[m] \in {"ok", "failed"}
  /\ child' = [child EXCEPT ![m] = "gone"]
  /\ watching' = [watching EXCEPT ![m] = IF @ = "on" THEN "reaped" ELSE "off"]
  /\ note' = [note EXCEPT ![m].exit = IF watching[m] = "on" THEN child[m] ELSE @]
  /\ UNCHANGED <<memory, key, fswatch, nextLaunch, journal, files, timers, up, thread>>
Reap_late(m) ==
  /\ up /\ watching[m] = "on" /\ child[m] \in {"ok", "failed"}
  /\ child' = [child EXCEPT ![m] = "gone"]
  /\ fswatch' = fswatch \ {m}
  /\ watching' = [watching EXCEPT ![m] = "reaped"]
  /\ note' = [note EXCEPT ![m].exit = child'[m]]
  /\ UNCHANGED <<memory, key, nextLaunch, journal, files, timers, up, thread>>

\* cmd.Wait returned: close the watcher, then done.
Reap(m) ==
  /\ up /\ watching[m] \in {"on", "unmanaged"} /\ child[m] \in {"ok", "failed"}
  /\ child' = [child EXCEPT ![m] = "gone"]
  /\ fswatch' = fswatch \ {m}
  /\ watching' = [watching EXCEPT ![m] = IF @ = "on" THEN "reaped" ELSE "off"]
  /\ note' = [note EXCEPT ![m].exit = IF watching[m] = "on" THEN child[m] ELSE @]
  /\ UNCHANGED <<memory, key, nextLaunch, journal, files, timers, up, thread>>

\* Mutant: a deliberate stop is taken for a failure.
Errored_anyway(m, entry) == note[m].exit = "failed"
Errored(m, entry) == note[m].exit = "failed" /\ ~entry.stopping

\* The closure of onProcessExit, on whatever entry the key holds by now.
OnProcessExit(m) ==
  /\ up /\ watching[m] = "reaped"
  /\ LET entry == registry[key[m]]
         again == Errored(m, entry) /\ entry.restarts < entry.app.max
     IN  /\ UpdateInfo(key[m], [entry EXCEPT
              !.pid = Nil,
              !.restarts = IF again THEN @ + 1 ELSE @,
              !.status = IF again THEN "launching"
                         ELSE IF Errored(m, entry) THEN "errored"
                         ELSE IF entry.stopping THEN @ ELSE "stopped"])
         /\ note' = [note EXCEPT ![m] =
              IF Present(key[m])
              THEN [exit |-> @.exit, run |-> entry.run, trigger |-> entry.trigger,
                    again |-> again]
              ELSE @]
         /\ watching' = [watching EXCEPT ![m] = "noted"]
  /\ UNCHANGED <<schedule, nextID, os, journal, files, timers, up, thread>>

\* Mutant: the exit of a task that was deleted meanwhile leaves no record.
RunRecord_known(m) ==
  IF note[m].run = Nil THEN {} ELSE {[event |-> "run", run |-> note[m].run, pid |-> m]}
RunRecord(m) == {[event |-> "run", run |-> note[m].run, pid |-> m]}

\* recordRun and UpdateCronOutcome; then the goroutine ends or sleeps.
RecordRun(m) ==
  /\ up /\ watching[m] = "noted"
  /\ journal' = journal \union RunRecord(m)
  /\ IF note[m].trigger = "cron"
     THEN UpdateInfo(key[m], [registry[key[m]] EXCEPT !.cronStatus = note[m].exit])
     ELSE UNCHANGED registry
  /\ watching' = [watching EXCEPT ![m] = IF note[m].again THEN "delay" ELSE "finished"]
  /\ note' = [note EXCEPT ![m] = NoNote]
  /\ UNCHANGED <<schedule, nextID, os, files, timers, up, thread>>

\* RestartDelay is over: relaunch if m is still the entry and was not stopped.
AutoRestart(t, m) ==
  /\ At(t, "idle") /\ watching[m] = "delay"
  /\ watching' = [watching EXCEPT ![m] = "finished"]
  /\ LET entry == registry[key[m]]
     IN  IF entry.run = m /\ ~entry.stopping
         THEN Become(t, [Idle EXCEPT !.pc = "fork", !.op = "auto",
                                     !.job = [NoJob EXCEPT !.app = entry.app]])
         ELSE UNCHANGED thread
  /\ UNCHANGED <<memory, os, note, journal, files, timers, up>>

-----------------------------------------------------------------------------
(* Cron fires and file watches.                                            *)

\* The closure of a `cron' app is triggerCron: Get the entry first.
TriggerCron(t, k) ==
  /\ At(t, "idle") /\ schedule[k].kind = "cron" /\ Present(k)
  /\ Become(t, [Idle EXCEPT !.pc = "guard", !.op = "cron",
                  !.mp = registry[k].run, !.fire = k,
                  !.job = [app |-> schedule[k], paused |-> FALSE,
                           triggered |-> TRUE, trigger |-> "cron"]])
  /\ UNCHANGED <<memory, os, exits, files, timers, up>>

cronRunActive(entry) == entry.pid # Nil \/ entry.status = "launching"

\* The overlap guard, on a snapshot of the entry the key holds now.
Guard(t) ==
  /\ At(t, "guard")
  /\ LET k == thread[t].fire
     IN  Become(t, IF Present(k) /\ cronRunActive(registry[k])
                   THEN [thread[t] EXCEPT !.outcome = "skipped", !.pc = "outcome"]
                   ELSE [thread[t] EXCEPT !.pc = "unschedule"])
  /\ UNCHANGED <<memory, os, exits, files, timers, up>>

\* The closure of a `cron_restart' app restarts its own key.
CronRestart(t, k) ==
  /\ At(t, "idle") /\ schedule[k].kind = "cron_restart"
  /\ LET found == FindByTarget(registry, KeyTarget(k))
         fire == [Idle EXCEPT !.op = "cron_restart", !.fire = k]
     IN  Become(t, IF found = {}
                   THEN [fire EXCEPT !.outcome = "failed", !.pc = "outcome"]
                   ELSE [fire EXCEPT !.todo = Pointers(found), !.pc = "next"])
  /\ UNCHANGED <<memory, os, exits, files, timers, up>>

\* UpdateCronStatus; a skipped or failed fire leaves its own record.
Outcome(t) ==
  /\ At(t, "outcome")
  /\ LET k == thread[t].fire
         outcome == thread[t].outcome
         record(event) == {[event |-> event, run |-> Nil, pid |-> Nil]}
     IN  /\ UpdateInfo(k, [registry[k] EXCEPT !.cronStatus = outcome])
         /\ journal' = journal \union
              (CASE outcome = "skipped" -> record("cron_skip")
                 [] outcome = "failed" -> record("launch_fail")
                 [] OTHER -> {})
  /\ Return(t)
  /\ UNCHANGED <<schedule, nextID, os, watching, note, files, timers, up>>

\* A write to the script arms the debounce timer, or rearms it.
FileChange(m) ==
  /\ up /\ m \in fswatch /\ m \notin timers
  /\ timers' = timers \union {m}
  /\ UNCHANGED <<memory, os, exits, files, up, thread>>

\* The timer fires: restartTargets on the bare name, in every namespace.
Debounced(t, m) ==
  /\ At(t, "idle") /\ m \in timers
  /\ timers' = timers \ {m}
  /\ Become(t, LET found == FindByTarget(registry, NameTarget(key[m][2]))
               IN  IF found = {} THEN Idle
                   ELSE [Idle EXCEPT !.pc = "next", !.op = "watch",
                                     !.todo = Pointers(found)])
  /\ UNCHANGED <<memory, os, exits, files, up>>

-----------------------------------------------------------------------------
(* dump.json: Save, autoSave and Resurrect.                                *)

\* A command returns; a StartApp called by Resurrect returns to its loop.
Finish(t) == IF thread[t].op = "resurrect"
             THEN Become(t, [thread[t] EXCEPT !.image = {}, !.pc = "replay"])
             ELSE Return(t)

AutoSave(t) ==
  /\ At(t, "autosave")
  /\ IF suppress THEN Finish(t) ELSE Goto(t, "snapshot")
  /\ UNCHANGED <<memory, os, exits, files, timers, up>>

Snapshot(t) ==
  /\ At(t, "snapshot")
  /\ Become(t, [thread[t] EXCEPT !.image = SnapshotAppConfigs, !.pc = "truncate"])
  /\ UNCHANGED <<memory, os, exits, files, timers, up>>

\* os.WriteFile opens with O_TRUNC...
Truncate(t) ==
  /\ At(t, "truncate")
  /\ dump' = [state |-> "empty", image |-> {}]
  /\ Goto(t, "write")
  /\ UNCHANGED <<memory, os, exits, suppress, timers, up>>

\* ... and writes at offset 0.  Over the bytes of a writer that came in
\* between, a shorter image leaves that writer's tail behind.
Write(t) ==
  /\ At(t, "write")
  /\ LET image == thread[t].image
     IN  \/ dump' = [state |-> "complete", image |-> image]
         \/ /\ dump.state \notin {"empty", "absent"} /\ dump.image # image
            /\ dump' = [state |-> "mixed", image |-> {}]
  /\ Finish(t)
  /\ UNCHANGED <<memory, os, exits, suppress, timers, up>>

\* CmdResurrect reads the file; an unreadable one is an error.
Resurrect(t) ==
  /\ At(t, "idle") /\ "resurrect" \in Commands
  /\ dump.state = "complete"
  /\ Become(t, [Idle EXCEPT !.op = "resurrect", !.replay = dump.image,
                            !.pc = "suppress"])
  /\ UNCHANGED <<memory, os, exits, files, timers, up>>

Suppress(t) ==
  /\ At(t, "suppress")
  /\ suppress' = TRUE
  /\ Goto(t, "replay")
  /\ UNCHANGED <<memory, os, exits, dump, timers, up>>

\* Mutant: a paused task comes back running.
SavedPause_lost(e) == FALSE
SavedPause(e) == e.paused

\* One StartApp per saved entry; the last one lifts the suppression.  (An
\* entry without a file is replayed as it is; Normalize("") would name it
\* after the daemon's own directory.  The CLI sends no app without its file.)
Replay(t) ==
  /\ At(t, "replay")
  /\ IF thread[t].replay = {}
     THEN suppress' = FALSE /\ Return(t)
     ELSE /\ \E e \in thread[t].replay :
               Become(t, [thread[t] EXCEPT !.replay = @ \ {e}, !.rest = <<e.app>>,
                            !.launched = FALSE, !.job.paused = SavedPause(e),
                            !.pc = "lookup"])
          /\ UNCHANGED suppress
  /\ UNCHANGED <<memory, os, exits, dump, timers, up>>

-----------------------------------------------------------------------------
(* The daemon itself.                                                      *)

\* WaitForExits: the goroutines the exits counter counts have ended, or two
\* seconds have passed, whatever they still do; KillAll returns either way.
\* Mutant: a goroutine stops counting when done is closed.
Counted_early == {m \in Launches : watching[m] = "on"}
Counted == {m \in Launches : watching[m] \in {"on", "reaped", "noted"}}
Drained(t) ==
  /\ At(t, "drain")
  /\ \/ Counted = {} /\ Become(t, [thread[t] EXCEPT !.pc = "exit", !.outcome = "ok"])
     \/ Become(t, [thread[t] EXCEPT !.pc = "exit", !.outcome = "failed"])
  /\ UNCHANGED <<memory, os, exits, files, timers, up>>

\* Memory is gone; the children live on, dump.json and the journal stay.
DaemonGone ==
  /\ up' = FALSE
  /\ registry' = [k \in Keys |-> Absent]
  /\ watching' = [m \in Launches |-> "off"]
  /\ note' = [m \in Launches |-> NoNote]
  /\ fswatch' = {} /\ timers' = {}
  /\ schedule' = [k \in Keys |-> NoApp]
  /\ nextID' = 0
  /\ suppress' = FALSE
  /\ thread' = [t \in Threads |-> Idle]
  /\ UNCHANGED <<key, child, nextLaunch, journal, dump>>

\* The dispatcher's os.Exit, 150 ms after KillAll returned.
Exit(t) == At(t, "exit") /\ DaemonGone

Crash == up /\ MayCrash /\ DaemonGone

\* A new daemon: startAutoResurrect replays what can be read.
Boot(t) ==
  /\ ~up /\ up' = TRUE
  /\ IF dump.state = "complete"
     THEN Become(t, [Idle EXCEPT !.op = "resurrect", !.replay = dump.image,
                                 !.pc = "suppress"])
     ELSE UNCHANGED thread
  /\ UNCHANGED <<memory, os, exits, files, timers>>

-----------------------------------------------------------------------------
Step(t) ==   \* what a handler that has begun goes on to do
  \/ RestartNext(t) \/ ResumeNext(t) \/ StopNext(t) \/ TargetsDone(t)
  \/ Unschedule(t) \/ Mark(t) \/ Wait(t) \/ StopTimeout(t) \/ Settle(t)
  \/ Suspend(t) \/ Remove(t) \/ Lookup(t) \/ StartAppDone(t)
  \/ Fork(t) \/ ForkFails(t) \/ Install(t) \/ Guard(t) \/ Outcome(t)
  \/ AutoSave(t) \/ Snapshot(t) \/ Truncate(t) \/ Write(t)
  \/ Suppress(t) \/ Replay(t) \/ Drained(t) \/ Exit(t)

Begin(t) ==
  \/ StartApp(t) \/ ByName(t) \/ KillAll(t) \/ Save(t) \/ Resurrect(t)
  \/ \E k \in Keys : TriggerCron(t, k) \/ CronRestart(t, k)
  \/ \E m \in Launches : AutoRestart(t, m) \/ Debounced(t, m)
  \/ Boot(t)

Watcher(m) == Reap(m) \/ OnProcessExit(m) \/ RecordRun(m)

Next ==
  \/ \E t \in Threads : Step(t) \/ Begin(t)
  \/ \E m \in Launches : Watcher(m) \/ ChildExit(m) \/ FileChange(m)
  \/ Crash

Spec == Init /\ [][Next]_vars
=============================================================================
