------------------------ MODULE ProcessManagerProps ------------------------
(* What the process manager promises about its registry, its schedules,    *)
(* its children and dump.json.                                             *)
EXTENDS ProcessManager

Quiet == \A t \in Threads : thread[t].pc = "idle"

\* Every exit that happened has been booked and no restart is pending.
Settled == Quiet /\ \A m \in Launches : watching[m] \notin {"reaped", "noted", "delay"}

(* Two entries never share an ID, and none has one that was not yet issued *)
(* (launchProcessWith's existing.Info.ID against pm.nextID): `pm2 stop 3'  *)
(* reaches one task, whatever restarts, moves and fires overlap.           *)
UniqueIDs ==
  \A j, k \in Registered(registry) :
    /\ registry[k].id < nextID
    /\ registry[j].id = registry[k].id => j = k

(* A child that was told nothing and is being watched belongs to the entry *)
(* registered under its key: no launch replaces an entry whose child is    *)
(* still running unsignalled (StartApp, launchProcessWith).                *)
NoLostChild ==
  \A m \in Launches :
    watching[m] = "on" /\ child[m] = "running" => registry[key[m]].run = m

(* A paused task has no schedule, no PID and no watched running child once *)
(* the daemon is quiet (PauseByName, launchProcessWith, Resurrect).        *)
PausedIsSuspended ==
  Quiet => \A k \in Registered(registry) :
    registry[k].paused =>
      /\ schedule[k] = NoApp
      /\ registry[k].pid = Nil
      /\ \A m \in Launches :
           key[m] = k => ~(watching[m] = "on" /\ child[m] = "running")

(* Once the daemon is quiet a key is scheduled if and only if its entry    *)
(* carries a schedule and was neither stopped nor paused, and the closure  *)
(* holds the app that is registered: stopProcess removes the cron entry    *)
(* and launchProcessWith registers it again.                               *)
ScheduleMatchesEntry ==
  Quiet => \A k \in Keys :
    LET entry == registry[k]
    IN  schedule[k] = IF /\ Present(k) /\ entry.app.kind # "plain"
                         /\ ~entry.paused /\ ~entry.stopping
                      THEN entry.app ELSE NoApp

(* "dump.json already matches the last thing you did": between commands    *)
(* the saved image is the registry's, although cron fires, file watches    *)
(* and auto-restarts replace entries without saving (autoSave).  A spawn   *)
(* that fails because the bound on launches is used up is left out.        *)
DumpMatchesRegistry ==
  Quiet /\ up /\ dump.state = "complete" /\ nextLaunch \in Launches =>
    dump.image = SnapshotAppConfigs

(* When KillAll returns, a child still running or merely asked to end is    *)
(* one no entry ever held: a dead daemon's, or that of a restart discarded  *)
(* because its task is paused.  An exit whose bookkeeping is over has its   *)
(* record in the run journal; the records that os.Exit loses are those of   *)
(* a wait that gave up: once WaitForExits has drained there are none.       *)
CleanShutdown ==
  \A t \in Threads : thread[t].pc = "exit" =>
    \A m \in Launches :
      /\ child[m] \in {"running", "termed"} => watching[m] \in {"off", "unmanaged"}
      /\ watching[m] = "finished" => \E r \in journal : r.pid = m
      /\ thread[t].outcome = "ok" => watching[m] \notin {"on", "reaped", "noted"}

(* Every live child has a goroutine waiting for it, or is about to get     *)
(* one: a launch that is replaced or discarded is reaped too, so no zombie *)
(* and no open log file stays behind (launchProcessWith, executor.Watch).  *)
EveryChildIsReaped ==
  \A m \in Launches :
    child[m] \in Live =>
      \/ watching[m] \in {"on", "unmanaged"}
      \/ \E t \in Threads : thread[t].pc = "install" /\ thread[t].new = m

(* A stop is not overruled by the bookkeeping of exits: an entry marked    *)
(* stopping stays stopping or stopped, it never shows as errored, online   *)
(* or about to be relaunched (stopProcess's onStopping and onStopped       *)
(* against onProcessExit); only a launch or a pause replaces that state.   *)
StopSticks ==
  \A k \in Keys :
    registry[k].stopping /\ ~registry[k].paused =>
      registry[k].status \in {"stopping", "stopped"}

(* No file watcher outlives the child it was opened for: it is closed when *)
(* the child is stopped or reaped, or the launch it belongs to is about to *)
(* be installed (executor.Start, stopProcess, executor.Watch).             *)
WatcherFollowsChild ==
  \A m \in fswatch :
    \/ watching[m] \in {"on", "unmanaged"}
    \/ \E t \in Threads : thread[t].pc = "install" /\ thread[t].new = m

(* Neither a cron fire nor a file watch nor a restart undoes a pause: what *)
(* replaces a paused entry by one that is not was forked for a start, a    *)
(* resume or an auto-restart (the paused check in launchProcessWith).      *)
FireNeverUnpauses ==
  [][\A k \in Keys :
       Present(k) /\ registry[k].paused /\ Present(k)' /\ ~registry'[k].paused =>
         \E t \in Threads : thread[t].pc = "install" /\ ~thread[t].job.triggered]_vars

(* When stopProcess returns, the child it was given has been waited for or *)
(* has been sent SIGKILL: what a handler does next (fork a replacement,    *)
(* forget the task, report it stopped) never races a child that was merely *)
(* asked to end (executor.Stop).                                           *)
StopWaitsForChild ==
  \A t \in Threads :
    thread[t].pc \in {"settle", "suspend", "remove"} =>
      child[thread[t].mp] \notin {"running", "termed"}

(* IDs are handed out, kept, moved and forgotten as TaskIdentity says.     *)
Identity == INSTANCE TaskIdentity WITH
  TaskKeys <- Keys,
  id <- [k \in Keys |-> IF Present(k) THEN registry[k].id ELSE -1],
  issued <- nextID

IdentityIsKept == Identity!IdentitySpec

-----------------------------------------------------------------------------
(* A handler that has begun is scheduled by the Go runtime and its timeouts *)
(* fire; a SIGKILLed child ends; the goroutine that waits for a child runs *)
(* once it has.  Nothing is assumed of clients, fires and other children.  *)
Fairness ==
  /\ \A t \in Threads : WF_vars(Step(t))
  /\ \A m \in Launches :
       /\ WF_vars(Watcher(m))
       /\ WF_vars(child[m] = "killed" /\ ChildExit(m))

FairSpec == Spec /\ Fairness

(* Every handler returns: no wait for a child that ignores SIGTERM, no     *)
(* loop over targets that disappear, no drain is forever (executor.Stop's  *)
(* stopTimeout, WaitForExits' exitDrainTimeout).                           *)
HandlersReturn ==
  \A t \in Threads : thread[t].pc # "idle" ~> thread[t].pc = "idle"

(* A watched child that was sent SIGTERM ends eventually, although it may  *)
(* trap the signal and although its entry may be replaced meanwhile, unless the *)
(* daemon exits first (executor.Stop's escalation to SIGKILL).             *)
StoppedChildrenEnd ==
  \A m \in Launches :
    watching[m] = "on" /\ child[m] = "termed" ~> child[m] \notin Live \/ ~up

(* Every exit is booked: once a watched child has ended, the run journal   *)
(* gets its record, even if its task was replaced or deleted meanwhile     *)
(* (executor.Watch, onProcessExit, recordRun).                             *)
ExitsAreBooked ==
  \A m \in Launches :
    watching[m] = "on" /\ child[m] \in {"ok", "failed"} ~>
      ~up \/ \E r \in journal : r.pid = m
=============================================================================
