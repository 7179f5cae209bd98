------------------------ MODULE ProcessManagerProofs ------------------------
(* Theorems about ProcessManager, for every set of tasks, requests and     *)
(* threads.  TypeOK is inductive by itself and everything rests on it.     *)
EXTENDS ProcessManagerProps, TLAPS

-----------------------------------------------------------------------------
(* The values of the state.                                                *)

(* The apps of the requests are well formed, and there is one.             *)
LEMMA AppTypes ==
  /\ Apps \subseteq App /\ NoApp \in App /\ NoApp.kind = "plain"
  /\ \A r \in StartRequests : r.apps \in Seq(Apps \union {NoApp}) /\ r.paused \in BOOLEAN
<1>1. Apps \subseteq App
  BY RequestsAssumption DEF Apps
<1>2. Apps # {}
  <2>1. PICK r \in StartRequests : r.apps \in Seq(App) /\ r.apps # <<>>
    BY RequestsAssumption
  <2>2. 1 \in DOMAIN r.apps
    BY <2>1
  <2>3. r.apps[1] \in {r.apps[i] : i \in DOMAIN r.apps}
    BY <2>2
  <2> QED
    BY <2>3 DEF Apps
<1>3. anApp \in App
  BY <1>1, <1>2 DEF anApp
<1>4. NoApp \in App /\ NoApp.kind = "plain"
  BY <1>3 DEF NoApp, App, Kinds
<1>5. ASSUME NEW r \in StartRequests
      PROVE  r.apps \in Seq(Apps \union {NoApp}) /\ r.paused \in BOOLEAN
  <2>1. r.apps \in Seq(App) /\ r.paused \in BOOLEAN
    BY RequestsAssumption
  <2>2. \A i \in 1..Len(r.apps) : r.apps[i] \in Apps
    BY <2>1 DEF Apps
  <2> QED
    BY <2>1, <2>2
<1> QED
  BY <1>1, <1>4, <1>5

(* The key of an app is a key, and an absent entry is an entry.            *)
LEMMA KeyTypes ==
  /\ \A app \in Apps \union {NoApp} : cronKey(app) \in Keys
  /\ Absent \in Entry /\ Absent.run = Nil
  /\ Nil \notin Launches /\ NoKey \notin Keys
<1>1. \A app \in Apps \union {NoApp} : cronKey(app) \in Keys
  BY AppTypes DEF cronKey, Keys, App
<1>2. Absent \in Entry /\ Absent.run = Nil
  BY DEF Absent, Entry, Nil, Statuses, Triggers, CronStatuses
<1>3. Nil \notin Launches
  BY BoundsAssumption DEF Nil, Launches
<1>4. NoKey \notin Keys
  BY DEF NoKey, Keys
<1> QED
  BY <1>1, <1>2, <1>3, <1>4

(* An idle thread, and one that begins a command, is a thread.             *)
LEMMA IdleType == Idle \in Thread /\ NoJob \in Job /\ NoNote \in Notes
  BY DEF Idle, Thread, NoJob, Job, Labels, Ops, Triggers, CronStatuses, Image,
         NoNote, Notes

(* Sequences of instances still to be started.                             *)
LEMMA RestTypes ==
  ASSUME NEW S, NEW rest \in Seq(S)
  PROVE  /\ <<>> \in Seq(S)
         /\ rest # <<>> => Head(rest) \in S /\ Tail(rest) \in Seq(S)
  OBVIOUS

(* What FindByTarget and FindExisting return is registered.                *)
LEMMA FoundIsRegistered ==
  ASSUME NEW reg, NEW target, NEW app
  PROVE  /\ FindByTarget(reg, target) \subseteq Registered(reg)
         /\ FindExisting(reg, app) \subseteq Registered(reg)
<1>1. FindByTarget(reg, target) \subseteq Registered(reg)
  <2>1. \A i \in 1..4 : Tiers(reg, target)[i] \subseteq Registered(reg)
    BY DEF Tiers
  <2> QED
    BY <2>1 DEF FindByTarget
<1>2. FindExisting(reg, app) \subseteq Registered(reg)
  BY DEF FindExisting
<1> QED
  BY <1>1, <1>2

(* The pointers behind registered keys are launches.                       *)
LEMMA PointersAreLaunches ==
  ASSUME TypeOK, NEW keys, keys \subseteq Registered(registry)
  PROVE  Pointers(keys) \subseteq Launches
  BY DEF TypeOK, Pointers, Registered, Entry

(* A thread that becomes a thread leaves the others as they are.           *)
LEMMA BecomeType ==
  ASSUME TypeOK, NEW t \in Threads, NEW state \in Thread, Become(t, state)
  PROVE  thread' \in [Threads -> Thread]
<1>1. thread \in [Threads -> Thread]
  BY DEF TypeOK
<1> QED
  BY <1>1 DEF Become

LEMMA GotoType ==
  ASSUME TypeOK, NEW t \in Threads, NEW label \in Labels, Goto(t, label)
  PROVE  thread' \in [Threads -> Thread]
<1>1. thread[t] \in Thread
  BY DEF TypeOK
<1>2. [thread[t] EXCEPT !.pc = label] \in Thread
  BY <1>1 DEF Thread
<1>3. Become(t, [thread[t] EXCEPT !.pc = label])
  BY DEF Become, Goto
<1> QED
  BY <1>2, <1>3, BecomeType

LEMMA UpdateInfoType ==
  ASSUME TypeOK, NEW k, NEW entry, k \in Keys => entry \in Entry,
         UpdateInfo(k, entry)
  PROVE  registry' \in [Keys -> Entry]
  BY DEF TypeOK, UpdateInfo

-----------------------------------------------------------------------------
(* TypeOK is preserved.                                                    *)

\* What most handler steps leave alone.
others == <<memory, os, exits, files, timers, up>>

LEMMA ThreadOnlyType ==
  ASSUME TypeOK, thread' \in [Threads -> Thread], UNCHANGED others
  PROVE  TypeOK'
  BY DEF TypeOK, others, memory, os, exits, files

(* Steps that begin a handler.                                             *)
LEMMA BeginType ==
  ASSUME TypeOK, NEW t \in Threads,
         \/ StartApp(t) \/ ByName(t) \/ KillAll(t) \/ Save(t) \/ Resurrect(t)
         \/ \E k \in Keys : TriggerCron(t, k) \/ CronRestart(t, k)
  PROVE  TypeOK'
<1>0. thread' \in [Threads -> Thread] /\ UNCHANGED others => TypeOK'
  BY ThreadOnlyType
<1>1. CASE StartApp(t)
  <2>1. PICK r \in StartRequests :
          Become(t, [Idle EXCEPT !.pc = "lookup", !.op = "start", !.rest = r.apps,
                                 !.job.paused = r.paused])
    BY <1>1 DEF StartApp
  <2>2. [Idle EXCEPT !.pc = "lookup", !.op = "start", !.rest = r.apps,
                     !.job.paused = r.paused] \in Thread
    <3>1. "lookup" \in Labels /\ "start" \in Ops
      BY DEF Labels, Ops
    <3>2. r.apps \in Seq(Apps \union {NoApp}) /\ r.paused \in BOOLEAN
      BY AppTypes
    <3> QED
      BY <3>1, <3>2, IdleType DEF Thread, Job
  <2> QED
    BY <1>0, <1>1, <2>1, <2>2, BecomeType DEF StartApp, others
<1>2. CASE ByName(t)
  <2>1. PICK op \in {"stop", "restart", "pause", "resume", "delete"},
             target \in Targets :
          Become(t, [Idle EXCEPT !.pc = "next", !.op = op,
                       !.todo = Pointers(FindByTarget(registry, target))])
    BY <1>2 DEF ByName
  <2>2. Pointers(FindByTarget(registry, target)) \subseteq Launches
    BY FoundIsRegistered, PointersAreLaunches
  <2>3. [Idle EXCEPT !.pc = "next", !.op = op,
           !.todo = Pointers(FindByTarget(registry, target))] \in Thread
    BY <2>2, IdleType DEF Thread, Labels, Ops
  <2> QED
    BY <1>0, <1>2, <2>1, <2>3, BecomeType DEF ByName, others
<1>3. CASE KillAll(t)
  <2>1. Pointers(Registered(registry)) \subseteq Launches
    BY PointersAreLaunches
  <2>2. [Idle EXCEPT !.pc = "next", !.op = "kill",
                     !.todo = Pointers(Registered(registry))] \in Thread
    BY <2>1, IdleType DEF Thread, Labels, Ops
  <2> QED
    BY <1>0, <1>3, <2>2, BecomeType DEF KillAll, others
<1>4. CASE Save(t)
  <2>1. "snapshot" \in Labels
    BY DEF Labels
  <2> QED
    BY <1>0, <1>4, <2>1, GotoType DEF Save, others
<1>5. CASE Resurrect(t)
  <2>1. dump.image \in Image
    BY DEF TypeOK, Dumps
  <2>2. [Idle EXCEPT !.op = "resurrect", !.replay = dump.image,
                     !.pc = "suppress"] \in Thread
    BY <2>1, IdleType DEF Thread, Labels, Ops
  <2> QED
    BY <1>0, <1>5, <2>2, BecomeType DEF Resurrect, others
<1>6. ASSUME NEW k \in Keys, TriggerCron(t, k)
      PROVE  TypeOK'
  <2>1. registry[k].run \in {Nil} \union Launches
        /\ schedule[k] \in Apps \union {NoApp}
    BY DEF TypeOK, Entry
  <2>2. [Idle EXCEPT !.pc = "guard", !.op = "cron",
           !.mp = registry[k].run, !.fire = k,
           !.job = [app |-> schedule[k], paused |-> FALSE,
                    triggered |-> TRUE, trigger |-> "cron"]] \in Thread
    BY <2>1, IdleType DEF Thread, Labels, Ops, Job, Triggers
  <2> QED
    BY <1>0, <1>6, <2>2, BecomeType DEF TriggerCron, others
<1>7. ASSUME NEW k \in Keys, CronRestart(t, k)
      PROVE  TypeOK'
  <2> DEFINE found == FindByTarget(registry, KeyTarget(k))
             fire == [Idle EXCEPT !.op = "cron_restart", !.fire = k]
  <2>1. Pointers(found) \subseteq Launches
    BY FoundIsRegistered, PointersAreLaunches
  <2>a. fire \in Thread
    BY IdleType DEF Thread, Ops
  <2>2. [fire EXCEPT !.outcome = "failed", !.pc = "outcome"] \in Thread
    BY <2>a DEF Thread, Labels, CronStatuses
  <2>3. [fire EXCEPT !.todo = Pointers(found), !.pc = "next"] \in Thread
    BY <2>a, <2>1 DEF Thread, Labels
  <2>4. UNCHANGED others
    BY <1>7 DEF CronRestart, others
  <2>5. CASE found = {}
    <3>1. Become(t, [fire EXCEPT !.outcome = "failed", !.pc = "outcome"])
      BY <1>7, <2>5 DEF CronRestart
    <3> QED
      BY <1>0, <2>2, <2>4, <3>1, BecomeType
  <2>6. CASE found # {}
    <3>1. Become(t, [fire EXCEPT !.todo = Pointers(found), !.pc = "next"])
      BY <1>7, <2>6 DEF CronRestart
    <3> QED
      BY <1>0, <2>3, <2>4, <3>1, BecomeType
  <2> QED
    BY <2>5, <2>6
<1> QED
  BY <1>1, <1>2, <1>3, <1>4, <1>5, <1>6, <1>7

(* Steps of a handler that change nothing but the handler.                 *)
LEMMA QuietStepType ==
  ASSUME TypeOK, NEW t \in Threads,
         \/ RestartNext(t) \/ ResumeNext(t) \/ StopNext(t) \/ TargetsDone(t)
         \/ Wait(t) \/ Lookup(t) \/ StartAppDone(t) \/ ForkFails(t) \/ Guard(t)
         \/ AutoSave(t) \/ Snapshot(t) \/ Drained(t)
  PROVE  TypeOK'
<1> DEFINE th == thread[t]
<1>0. thread' \in [Threads -> Thread] /\ UNCHANGED others => TypeOK'
  BY ThreadOnlyType
<1>a. th \in Thread
  BY DEF TypeOK
<1>b. \A k \in Keys : registry[k].app \in Apps \union {NoApp}
                     /\ registry[k].run \in {Nil} \union Launches
  BY DEF TypeOK, Entry
<1>c. \A m \in Launches : key[m] \in Keys
  BY DEF TypeOK
<1>d. \A label \in Labels : [th EXCEPT !.pc = label] \in Thread
  BY <1>a DEF Thread
<1>e. /\ UNCHANGED others
      /\ \/ \E state \in Thread : Become(t, state)
         \/ \E label \in Labels : Goto(t, label)
      => TypeOK'
  BY <1>0, BecomeType, GotoType
<1>1. CASE RestartNext(t)
  <2>1. PICK m \in th.todo :
          Become(t, IF Present(key[m])
                    THEN [th EXCEPT !.todo = @ \ {m}, !.mp = m,
                            !.pc = "unschedule",
                            !.job = [NoJob EXCEPT !.app = registry[key[m]].app,
                                                  !.triggered = TRUE]]
                    ELSE [th EXCEPT !.todo = @ \ {m}])
    BY <1>1 DEF RestartNext
  <2>2. m \in Launches
    BY <1>a DEF Thread
  <2>3. [th EXCEPT !.todo = @ \ {m}] \in Thread
    BY <1>a DEF Thread
  <2>4. [NoJob EXCEPT !.app = registry[key[m]].app, !.triggered = TRUE] \in Job
    BY <1>b, <1>c, <2>2, IdleType DEF Job
  <2>5. [th EXCEPT !.todo = @ \ {m}, !.mp = m, !.pc = "unschedule",
           !.job = [NoJob EXCEPT !.app = registry[key[m]].app,
                                 !.triggered = TRUE]] \in Thread
    BY <1>a, <2>2, <2>4 DEF Thread, Labels
  <2> QED
    BY <1>e, <1>1, <2>1, <2>3, <2>5 DEF RestartNext, others
<1>2. CASE ResumeNext(t)
  <2>1. PICK m \in th.todo :
          Become(t, IF Present(key[m]) /\ registry[key[m]].paused
                    THEN [th EXCEPT !.todo = @ \ {m}, !.pc = "fork",
                            !.job = [NoJob EXCEPT !.app = registry[key[m]].app]]
                    ELSE [th EXCEPT !.todo = @ \ {m}])
    BY <1>2 DEF ResumeNext
  <2>2. m \in Launches
    BY <1>a DEF Thread
  <2>3. [th EXCEPT !.todo = @ \ {m}] \in Thread
    BY <1>a DEF Thread
  <2>4. [NoJob EXCEPT !.app = registry[key[m]].app] \in Job
    BY <1>b, <1>c, <2>2, IdleType DEF Job
  <2>5. [th EXCEPT !.todo = @ \ {m}, !.pc = "fork",
           !.job = [NoJob EXCEPT !.app = registry[key[m]].app]] \in Thread
    BY <1>a, <2>4 DEF Thread, Labels
  <2> QED
    BY <1>e, <1>2, <2>1, <2>3, <2>5 DEF ResumeNext, others
<1>3. CASE StopNext(t)
  <2>1. PICK m \in th.todo :
          Become(t, [th EXCEPT !.todo = @ \ {m}, !.mp = m, !.pc = "unschedule"])
    BY <1>3 DEF StopNext
  <2>2. [th EXCEPT !.todo = @ \ {m}, !.mp = m, !.pc = "unschedule"] \in Thread
    BY <1>a DEF Thread, Labels
  <2> QED
    BY <1>e, <1>3, <2>1, <2>2 DEF StopNext, others
<1>4. CASE TargetsDone(t)
  <2> DEFINE over == [th EXCEPT !.mp = Nil, !.job = NoJob]
  <2>1. over \in Thread
    BY <1>a, IdleType DEF Thread
  <2>2. /\ [over EXCEPT !.pc = "drain"] \in Thread
        /\ [over EXCEPT !.pc = "outcome", !.outcome = "ok"] \in Thread
        /\ [over EXCEPT !.pc = "autosave"] \in Thread
    BY <2>1 DEF Thread, Labels, CronStatuses
  <2> HIDE DEF over
  <2>3. \/ Become(t, [over EXCEPT !.pc = "drain"])
        \/ Become(t, Idle)
        \/ Become(t, [over EXCEPT !.pc = "outcome", !.outcome = "ok"])
        \/ Become(t, [over EXCEPT !.pc = "autosave"])
    BY <1>4 DEF TargetsDone, Return, over
  <2> QED
    BY <1>e, <1>4, <2>2, <2>3, IdleType DEF TargetsDone, others
<1>5. CASE Wait(t) \/ AutoSave(t) \/ Snapshot(t) \/ Drained(t)
  <2>1. {"settle", "snapshot", "exit"} \subseteq Labels
    BY DEF Labels
  <2>2. [th EXCEPT !.image = {}, !.pc = "replay"] \in Thread
    BY <1>a DEF Thread, Labels, Image
  <2>3. SnapshotAppConfigs \in Image
    <3>1. \A k \in Registered(registry) :
            [app |-> registry[k].app, paused |-> registry[k].paused]
              \in [app : Apps \union {NoApp}, paused : BOOLEAN]
      BY DEF TypeOK, Entry, Registered
    <3> QED
      BY <3>1 DEF SnapshotAppConfigs, Image
  <2>4. [th EXCEPT !.image = SnapshotAppConfigs, !.pc = "truncate"] \in Thread
    BY <1>a, <2>3 DEF Thread, Labels
  <2>6. /\ [th EXCEPT !.pc = "exit", !.outcome = "ok"] \in Thread
        /\ [th EXCEPT !.pc = "exit", !.outcome = "failed"] \in Thread
    BY <1>a DEF Thread, Labels, CronStatuses
  <2>5. /\ \/ Goto(t, "settle") \/ Goto(t, "snapshot")
           \/ Become(t, [th EXCEPT !.pc = "exit", !.outcome = "ok"])
           \/ Become(t, [th EXCEPT !.pc = "exit", !.outcome = "failed"])
           \/ Become(t, Idle)
           \/ Become(t, [th EXCEPT !.image = {}, !.pc = "replay"])
           \/ Become(t, [th EXCEPT !.image = SnapshotAppConfigs, !.pc = "truncate"])
        /\ UNCHANGED others
    BY <1>5, Zenon DEF Wait, AutoSave, Snapshot, Drained, Finish, Return, others
  <2> QED
    BY <1>e, <2>1, <2>2, <2>4, <2>5, <2>6, IdleType
<1>6. CASE Lookup(t)
  <2> DEFINE app == Head(th.rest)
             launch == [th EXCEPT !.job.app = app, !.pc = "fork"]
  <2>0. th.rest \in Seq(Apps \union {NoApp}) /\ th.rest # <<>> /\ th.job \in Job
    BY <1>a, <1>6 DEF Lookup, Thread
  <2>1. app \in Apps \union {NoApp} /\ <<>> \in Seq(Apps \union {NoApp})
    BY <2>0, RestTypes
  <2>a. [th.job EXCEPT !.app = app] \in Job
    BY <2>0, <2>1 DEF Job
  <2>2. launch \in Thread
    BY <1>a, <2>a DEF Thread, Labels
  <2>3. [th EXCEPT !.rest = <<>>] \in Thread
    BY <1>a, <2>1 DEF Thread
  <2>4. ASSUME NEW k \in Keys
        PROVE  [launch EXCEPT !.mp = registry[k].run, !.pc = "unschedule"] \in Thread
    BY <1>b, <2>2, <2>4 DEF Thread, Labels
  <2>5. FindExisting(registry, app) \subseteq Keys
    BY FoundIsRegistered DEF Registered
  <2> HIDE DEF launch
  <2>6. \/ Become(t, launch)
        \/ \E k \in Keys :
             Become(t, [launch EXCEPT !.mp = registry[k].run, !.pc = "unschedule"])
        \/ Become(t, [th EXCEPT !.rest = <<>>])
    BY <1>6, <2>5 DEF Lookup, launch
  <2> QED
    BY <1>e, <1>6, <2>2, <2>3, <2>4, <2>6 DEF Lookup, others
<1>7. CASE StartAppDone(t)
  <2>1. [th EXCEPT !.job = NoJob, !.pc = "autosave"] \in Thread /\ "replay" \in Labels
    BY <1>a, IdleType DEF Thread, Labels
  <2>2. \/ Become(t, [th EXCEPT !.job = NoJob, !.pc = "autosave"])
        \/ Goto(t, "replay") \/ Become(t, Idle)
    BY <1>7, Zenon DEF StartAppDone, Return
  <2> QED
    BY <1>e, <1>7, <2>1, <2>2, IdleType DEF StartAppDone, others
<1>8. CASE ForkFails(t)
  <2>0. <<>> \in Seq(Apps \union {NoApp})
    BY RestTypes
  <2>1. /\ [th EXCEPT !.rest = <<>>, !.pc = "lookup"] \in Thread
        /\ [th EXCEPT !.outcome = "failed", !.pc = "outcome"] \in Thread
        /\ "next" \in Labels
    BY <1>a, <2>0 DEF Thread, Labels, CronStatuses
  <2>2. \/ Become(t, [th EXCEPT !.rest = <<>>, !.pc = "lookup"])
        \/ Goto(t, "next")
        \/ Become(t, [th EXCEPT !.outcome = "failed", !.pc = "outcome"])
        \/ Become(t, Idle)
    BY <1>8 DEF ForkFails, Return
  <2> QED
    BY <1>e, <1>8, <2>1, <2>2, IdleType DEF ForkFails, others
<1>9. CASE Guard(t)
  <2>1. /\ [th EXCEPT !.outcome = "skipped", !.pc = "outcome"] \in Thread
        /\ [th EXCEPT !.pc = "unschedule"] \in Thread
    BY <1>a DEF Thread, Labels, CronStatuses
  <2>2. \/ Become(t, [th EXCEPT !.outcome = "skipped", !.pc = "outcome"])
        \/ Become(t, [th EXCEPT !.pc = "unschedule"])
    BY <1>9 DEF Guard
  <2> QED
    BY <1>e, <1>9, <2>1, <2>2 DEF Guard, others
<1> QED
  BY <1>1, <1>2, <1>3, <1>4, <1>5, <1>6, <1>7, <1>8, <1>9

(* Steps of the stop sequence.                                             *)
LEMMA StopStepType ==
  ASSUME TypeOK, NEW t \in Threads,
         \/ Unschedule(t) \/ Mark(t) \/ StopTimeout(t) \/ Settle(t)
         \/ Suspend(t) \/ Remove(t)
  PROVE  TypeOK'
<1> DEFINE th == thread[t]
           entry == registry[key[th.mp]]
<1>a. {"mark", "settle", "wait", "next", "suspend", "remove", "fork"} \subseteq Labels
  BY DEF Labels
<1>b. key[th.mp] \in Keys => entry \in Entry
  BY DEF TypeOK
<1>c. \A label \in Labels : Goto(t, label) => thread' \in [Threads -> Thread]
  BY GotoType
<1>1. CASE Unschedule(t)
  <2>1. thread' \in [Threads -> Thread]
    BY <1>1, <1>a, <1>c DEF Unschedule
  <2>2. schedule' \in [Keys -> Apps \union {NoApp}] /\ fswatch' \subseteq Launches
    BY <1>1 DEF Unschedule, TypeOK
  <2> QED
    BY <1>1, <2>1, <2>2 DEF Unschedule, TypeOK, exits, files
<1>2. CASE Mark(t)
  <2>1. thread' \in [Threads -> Thread]
    <3>1. Goto(t, "settle") \/ Goto(t, "wait")
      BY <1>2 DEF Mark
    <3> QED
      BY <3>1, <1>a, <1>c
  <2>2. child' \in [Launches -> Children]
    BY <1>2 DEF Mark, TypeOK, Children
  <2> DEFINE marked == [entry EXCEPT !.stopping = TRUE,
                          !.status = IF entry.paused THEN @ ELSE "stopping"]
  <2>3. key[th.mp] \in Keys => marked \in Entry
    BY <1>b DEF Entry, Statuses
  <2>4. UpdateInfo(key[th.mp], marked)
    BY <1>2 DEF Mark
  <2> HIDE DEF marked
  <2>5. registry' \in [Keys -> Entry]
    BY <2>3, <2>4, UpdateInfoType
  <2> QED
    BY <1>2, <2>1, <2>2, <2>5 DEF Mark, TypeOK, exits, files
<1>3. CASE StopTimeout(t)
  <2>1. thread' \in [Threads -> Thread]
    BY <1>3, <1>a, <1>c DEF StopTimeout
  <2>2. child' \in [Launches -> Children]
    BY <1>3 DEF StopTimeout, TypeOK, Children
  <2> QED
    BY <1>3, <2>1, <2>2 DEF StopTimeout, TypeOK, memory, exits, files
<1>4. CASE Settle(t)
  <2>1. thread' \in [Threads -> Thread]
    <3>1. AfterStop(th.op) \in Labels
      BY DEF AfterStop, Labels
    <3> QED
      BY <3>1, <1>4, <1>c DEF Settle
  <2> DEFINE settled == [entry EXCEPT !.pid = Nil,
                           !.status = IF entry.paused THEN @ ELSE "stopped"]
  <2>2. key[th.mp] \in Keys => settled \in Entry
    BY <1>b DEF Entry, Statuses
  <2>3. UpdateInfo(key[th.mp], settled)
    BY <1>4 DEF Settle
  <2> HIDE DEF settled
  <2>4. registry' \in [Keys -> Entry]
    BY <2>2, <2>3, UpdateInfoType
  <2> QED
    BY <1>4, <2>1, <2>4 DEF Settle, TypeOK, os, exits, files
<1>5. CASE Suspend(t)
  <2>1. thread' \in [Threads -> Thread]
    BY <1>5, <1>a, <1>c DEF Suspend
  <2> DEFINE suspended == [entry EXCEPT !.paused = TRUE, !.status = "paused"]
  <2>2. key[th.mp] \in Keys => suspended \in Entry
    BY <1>b DEF Entry, Statuses
  <2>3. UpdateInfo(key[th.mp], suspended)
    BY <1>5 DEF Suspend
  <2> HIDE DEF suspended
  <2>4. registry' \in [Keys -> Entry]
    BY <2>2, <2>3, UpdateInfoType
  <2> QED
    BY <1>5, <2>1, <2>4 DEF Suspend, TypeOK, os, exits, files
<1>6. CASE Remove(t)
  <2>1. thread' \in [Threads -> Thread]
    BY <1>6, <1>a, <1>c DEF Remove
  <2>2. registry' \in [Keys -> Entry]
    BY <1>6, KeyTypes DEF Remove, TypeOK
  <2> QED
    BY <1>6, <2>1, <2>2 DEF Remove, TypeOK, os, exits, files
<1> QED
  BY <1>1, <1>2, <1>3, <1>4, <1>5, <1>6

(* What a launch leaves of the thread that made it.                        *)
LEMMA LaunchedType ==
  ASSUME NEW th \in Thread, th.op \in {"start", "resurrect"} => th.rest # <<>>
  PROVE  Launched(th) \in Thread
<1> DEFINE done == [th EXCEPT !.new = Nil, !.mp = Nil]
<1>1. done \in Thread /\ done.rest = th.rest
  BY DEF Thread
<1> HIDE DEF done
<1>2. th.rest \in Seq(Apps \union {NoApp})
  BY DEF Thread
<1>3. CASE th.op \in {"start", "resurrect"}
  <2>1. Tail(th.rest) \in Seq(Apps \union {NoApp})
    BY <1>2, <1>3, RestTypes
  <2>2. [done EXCEPT !.rest = Tail(th.rest), !.launched = TRUE, !.pc = "lookup"]
          \in Thread
    BY <1>1, <2>1 DEF Thread, Labels
  <2>3. Launched(th) = [done EXCEPT !.rest = Tail(th.rest), !.launched = TRUE,
                                    !.pc = "lookup"]
    BY <1>1, <1>3 DEF Launched, done
  <2> QED
    BY <2>2, <2>3
<1>4. CASE th.op \notin {"start", "resurrect"}
  <2>1. [done EXCEPT !.outcome = "running", !.pc = "outcome"] \in Thread
    <3>1. "outcome" \in Labels /\ "running" \in CronStatuses
      BY DEF Labels, CronStatuses
    <3> QED
      BY <1>1, <3>1 DEF Thread
  <2>a. [done EXCEPT !.pc = "next"] \in Thread
    BY <1>1 DEF Thread, Labels
  <2>2. \/ Launched(th) = [done EXCEPT !.outcome = "running", !.pc = "outcome"]
        \/ Launched(th) = [done EXCEPT !.pc = "next"]
        \/ Launched(th) = Idle
    BY <1>4 DEF Launched, done
  <2> QED
    BY <2>1, <2>a, <2>2, IdleType
<1> QED
  BY <1>3, <1>4

\* What a handler must have in hand where it stands: a number to install, an
\* instance to launch.
InHand(th) ==
  /\ th.pc = "install" => th.new \in Launches
  /\ th.pc = "guard" => th.op = "cron"
  /\ /\ th.op \in {"start", "resurrect"}
     /\ th.pc \in {"unschedule", "mark", "wait", "settle", "fork", "install"}
     => th.rest # <<>>

(* Steps that fork a child and install an entry.                           *)
LEMMA LaunchStepType ==
  ASSUME TypeOK, NEW t \in Threads, InHand(thread[t]), Fork(t) \/ Install(t)
  PROVE  TypeOK'
<1> DEFINE th == thread[t]
           job == th.job
           k == cronKey(job.app)
<1>a. th \in Thread
  BY DEF TypeOK
<1>b. job \in Job /\ k \in Keys
  <2>1. job \in Job
    BY <1>a DEF Thread
  <2> QED
    BY <2>1, KeyTypes DEF Job
<1>1. CASE Fork(t)
  <2> DEFINE n == nextLaunch
  <2>1. n \in Launches /\ n + 1 \in 1..(MaxLaunch + 1)
    BY <1>1, BoundsAssumption DEF Fork, Launches
  <2>2. [th EXCEPT !.new = n, !.pc = "install"] \in Thread
    BY <1>a, <2>1 DEF Thread, Labels
  <2>3. thread' \in [Threads -> Thread]
    BY <1>1, <2>2, BecomeType DEF Fork
  <2>4. child' \in [Launches -> Children] /\ key' \in [Launches -> Keys]
    BY <1>1, <1>b DEF Fork, TypeOK, Children
  <2>5. fswatch' \subseteq Launches
    <3>1. fswatch \subseteq Launches
      BY DEF TypeOK
    <3>2. fswatch' = fswatch \union {n} \/ fswatch' = fswatch
      BY <1>1 DEF Fork
    <3> QED
      BY <2>1, <3>1, <3>2
  <2>6. nextLaunch' \in 1..(MaxLaunch + 1)
    BY <1>1, <2>1 DEF Fork
  <2>7. UNCHANGED <<registry, schedule, nextID, watching, note, journal, dump,
                    suppress, timers, up>>
    BY <1>1 DEF Fork, memory, exits, files
  <2> QED
    BY <2>3, <2>4, <2>5, <2>6, <2>7 DEF TypeOK
<1>2. CASE Install(t)
  <2> DEFINE n == th.new
             found == FindExisting(registry, job.app)
  <2>0. th.pc = "install" /\ n \in Launches
    BY <1>2 DEF Install, At, InHand
  <2>1. PICK e \in (IF found = {} THEN {NoKey} ELSE found) :
          InstallOver(t, e) \/ Discard(t, e)
    BY <1>2 DEF Install
  <2>2. thread' \in [Threads -> Thread]
    <3>1. Launched(th) \in Thread
      BY <1>a, <2>0, LaunchedType DEF InHand
    <3> QED
      BY <1>2, <3>1, BecomeType DEF Install
  <2>3. registry' \in [Keys -> Entry] /\ nextID' \in Nat
        /\ schedule' \in [Keys -> Apps \union {NoApp}]
        /\ watching' \in [Launches -> WatchStages]
    <3>1. CASE Discard(t, e)
      BY <2>0, <3>1 DEF Discard, memory, TypeOK, WatchStages
    <3>2. CASE InstallOver(t, e)
      <4>1. NewEntry(job, n, e) \in Entry
        <5> DEFINE base == IF e = NoKey THEN [Absent EXCEPT !.id = nextID]
                           ELSE registry[e]
        <5>1. base \in Entry
          <6>1. CASE e = NoKey
            <7>1. nextID \in Nat
              BY DEF TypeOK
            <7> QED
              BY <6>1, <7>1, KeyTypes DEF Entry
          <6>2. CASE e # NoKey
            <7>1. e \in Keys
              BY <6>2, FoundIsRegistered DEF Registered
            <7> QED
              BY <6>2, <7>1 DEF TypeOK
          <6> QED
            BY <6>1, <6>2
        <5>2. NewEntry(job, n, e) =
                [base EXCEPT
                   !.run = n, !.app = job.app, !.trigger = job.trigger,
                   !.status = IF job.paused THEN "paused"
                              ELSE IF NoChild(job) THEN "stopped" ELSE "online",
                   !.pid = IF NoChild(job) THEN Nil ELSE n,
                   !.stopping = FALSE, !.paused = job.paused]
          BY DEF NewEntry
        <5> HIDE DEF base
        <5> QED
          BY <1>b, <2>0, <5>1, <5>2 DEF Entry, Job, Statuses
      <4>2. registry' \in [Keys -> Entry]
        <5>1. registry' = [j \in Keys |-> IF j = k THEN NewEntry(job, n, e)
                                 ELSE IF j = e THEN Absent ELSE registry[j]]
          BY <3>2 DEF InstallOver
        <5>2. \A j \in Keys : registry[j] \in Entry
          BY DEF TypeOK
        <5> QED
          BY <4>1, <5>1, <5>2, KeyTypes
      <4>3. nextID' \in Nat
        BY <3>2 DEF InstallOver, NextID, TypeOK
      <4>4. watching' \in [Launches -> WatchStages]
        BY <3>2 DEF InstallOver, TypeOK, WatchStages
      <4>5. schedule' \in [Keys -> Apps \union {NoApp}]
        BY <1>b, <3>2 DEF InstallOver, TypeOK, Job
      <4> QED
        BY <4>2, <4>3, <4>4, <4>5
    <3> QED
      BY <2>1, <3>1, <3>2
  <2>4. UNCHANGED <<key, child, fswatch, nextLaunch, note, journal, dump,
                    suppress, timers, up>>
    BY <1>2 DEF Install, os, files
  <2> QED
    BY <2>2, <2>3, <2>4 DEF TypeOK
<1> QED
  BY <1>1, <1>2

(* Steps that write dump.json, report a fire or replay a saved entry.      *)
LEMMA FileStepType ==
  ASSUME TypeOK, NEW t \in Threads,
         Outcome(t) \/ Truncate(t) \/ Write(t) \/ Suppress(t) \/ Replay(t)
  PROVE  TypeOK'
<1> DEFINE th == thread[t]
<1>a. th \in Thread
  BY DEF TypeOK
<1>b. {"write", "replay"} \subseteq Labels
  BY DEF Labels
<1>1. CASE Outcome(t)
  <2> DEFINE k == th.fire
             told == [registry[k] EXCEPT !.cronStatus = th.outcome]
  <2>1. thread' \in [Threads -> Thread]
    BY <1>1, BecomeType, IdleType DEF Outcome, Return
  <2>2. k \in Keys => told \in Entry
    <3>1. th.outcome \in CronStatuses /\ (k \in Keys => registry[k] \in Entry)
      BY <1>a DEF Thread, TypeOK
    <3> QED
      BY <3>1 DEF Entry
  <2>3. UpdateInfo(k, told)
    BY <1>1 DEF Outcome
  <2> HIDE DEF told
  <2>4. registry' \in [Keys -> Entry]
    BY <2>2, <2>3, UpdateInfoType
  <2>5. journal' \subseteq Records
    <3>1. \A event \in {"cron_skip", "launch_fail"} :
            {[event |-> event, run |-> Nil, pid |-> Nil]} \subseteq Records
      BY DEF Records
    <3>2. journal \subseteq Records
      BY DEF TypeOK
    <3>3. \/ journal' = journal \union {[event |-> "cron_skip", run |-> Nil, pid |-> Nil]}
          \/ journal' = journal \union {[event |-> "launch_fail", run |-> Nil, pid |-> Nil]}
          \/ journal' = journal \union {}
      BY <1>1 DEF Outcome
    <3> QED
      BY <3>1, <3>2, <3>3
  <2> QED
    BY <1>1, <2>1, <2>4, <2>5 DEF Outcome, TypeOK, os, files
<1>2. CASE Truncate(t)
  <2>1. thread' \in [Threads -> Thread]
    BY <1>2, <1>b, GotoType DEF Truncate
  <2>2. dump' \in Dumps
    BY <1>2 DEF Truncate, Dumps, Image
  <2> QED
    BY <1>2, <2>1, <2>2 DEF Truncate, TypeOK, memory, os, exits
<1>3. CASE Write(t)
  <2>1. thread' \in [Threads -> Thread]
    <3>1. [th EXCEPT !.image = {}, !.pc = "replay"] \in Thread
      BY <1>a DEF Thread, Labels, Image
    <3>2. \/ Become(t, [th EXCEPT !.image = {}, !.pc = "replay"])
          \/ Become(t, Idle)
      BY <1>3, Zenon DEF Write, Finish, Return
    <3> QED
      BY <3>1, <3>2, IdleType, BecomeType
  <2>2. dump' \in Dumps
    <3>1. th.image \in Image /\ {} \in Image
      BY <1>a DEF Thread, Image
    <3>2. \/ dump' = [state |-> "complete", image |-> th.image]
          \/ dump' = [state |-> "mixed", image |-> {}]
      BY <1>3 DEF Write
    <3> QED
      BY <3>1, <3>2 DEF Dumps
  <2> QED
    BY <1>3, <2>1, <2>2 DEF Write, TypeOK, memory, os, exits
<1>4. CASE Suppress(t)
  <2>1. thread' \in [Threads -> Thread]
    BY <1>4, <1>b, GotoType DEF Suppress
  <2> QED
    BY <1>4, <2>1 DEF Suppress, TypeOK, memory, os, exits
<1>5. CASE Replay(t)
  <2>1. suppress' \in BOOLEAN
    BY <1>5 DEF Replay, TypeOK
  <2>2. thread' \in [Threads -> Thread]
    <3>1. CASE th.replay = {}
      BY <1>5, <3>1, IdleType, BecomeType DEF Replay, Return
    <3>2. CASE th.replay # {}
      <4>1. PICK e \in th.replay :
              Become(t, [th EXCEPT !.replay = @ \ {e}, !.rest = <<e.app>>,
                           !.launched = FALSE, !.job.paused = SavedPause(e),
                           !.pc = "lookup"])
        BY <1>5, <3>2 DEF Replay
      <4>2. th.replay \in Image /\ th.job \in Job
        BY <1>a DEF Thread
      <4>3. th.replay \ {e} \in Image
            /\ e \in [app : Apps \union {NoApp}, paused : BOOLEAN]
        BY <4>1, <4>2 DEF Image
      <4>4. <<e.app>> \in Seq(Apps \union {NoApp})
        BY <4>3
      <4>5. [th.job EXCEPT !.paused = SavedPause(e)] \in Job
        BY <4>2, <4>3 DEF Job, SavedPause
      <4>6. [th EXCEPT !.replay = @ \ {e}, !.rest = <<e.app>>,
               !.launched = FALSE, !.job.paused = SavedPause(e),
               !.pc = "lookup"] \in Thread
        BY <1>a, <4>3, <4>4, <4>5 DEF Thread, Labels
      <4> QED
        BY <4>1, <4>6, BecomeType
    <3> QED
      BY <3>1, <3>2
  <2> QED
    BY <1>5, <2>1, <2>2 DEF Replay, TypeOK, memory, os, exits
<1> QED
  BY <1>1, <1>2, <1>3, <1>4, <1>5

(* A handler that starts on behalf of an exit, a file change or a boot.    *)
LEMMA SpontaneousBeginType ==
  ASSUME TypeOK, NEW t \in Threads,
         \/ \E m \in Launches : AutoRestart(t, m) \/ Debounced(t, m)
         \/ Boot(t)
  PROVE  TypeOK'
<1>1. ASSUME NEW m \in Launches, AutoRestart(t, m)
      PROVE  TypeOK'
  <2> DEFINE entry == registry[key[m]]
  <2>1. [NoJob EXCEPT !.app = entry.app] \in Job
    <3>1. entry.app \in Apps \union {NoApp}
      BY DEF TypeOK, Entry
    <3> QED
      BY <3>1, IdleType DEF Job
  <2>2. [Idle EXCEPT !.pc = "fork", !.op = "auto",
                     !.job = [NoJob EXCEPT !.app = entry.app]] \in Thread
    BY <2>1, IdleType DEF Thread, Labels, Ops
  <2>3. thread' \in [Threads -> Thread]
    <3>1. \/ UNCHANGED thread
          \/ Become(t, [Idle EXCEPT !.pc = "fork", !.op = "auto",
                          !.job = [NoJob EXCEPT !.app = entry.app]])
      BY <1>1 DEF AutoRestart
    <3>2. thread \in [Threads -> Thread]
      BY DEF TypeOK
    <3> QED
      BY <2>2, <3>1, <3>2, BecomeType
  <2>4. watching' \in [Launches -> WatchStages]
    BY <1>1 DEF AutoRestart, TypeOK, WatchStages
  <2> QED
    BY <1>1, <2>3, <2>4 DEF AutoRestart, TypeOK, memory, os, files
<1>2. ASSUME NEW m \in Launches, Debounced(t, m)
      PROVE  TypeOK'
  <2> DEFINE found == FindByTarget(registry, NameTarget(key[m][2]))
  <2>1. Pointers(found) \subseteq Launches
    BY FoundIsRegistered, PointersAreLaunches
  <2>2. [Idle EXCEPT !.pc = "next", !.op = "watch", !.todo = Pointers(found)]
          \in Thread
    BY <2>1, IdleType DEF Thread, Labels, Ops
  <2>3. \/ Become(t, Idle)
        \/ Become(t, [Idle EXCEPT !.pc = "next", !.op = "watch",
                                  !.todo = Pointers(found)])
    BY <1>2 DEF Debounced
  <2>4. thread' \in [Threads -> Thread]
    BY <2>2, <2>3, IdleType, BecomeType
  <2> QED
    BY <1>2, <2>4 DEF Debounced, TypeOK, memory, os, exits, files
<1>3. CASE Boot(t)
  <2>1. dump.image \in Image
    BY DEF TypeOK, Dumps
  <2>2. [Idle EXCEPT !.op = "resurrect", !.replay = dump.image,
                     !.pc = "suppress"] \in Thread
    BY <2>1, IdleType DEF Thread, Labels, Ops
  <2>3. thread' \in [Threads -> Thread]
    <3>1. \/ UNCHANGED thread
          \/ Become(t, [Idle EXCEPT !.op = "resurrect", !.replay = dump.image,
                                    !.pc = "suppress"])
      BY <1>3 DEF Boot
    <3>2. thread \in [Threads -> Thread]
      BY DEF TypeOK
    <3> QED
      BY <2>2, <3>1, <3>2, BecomeType
  <2> QED
    BY <1>3, <2>3 DEF Boot, TypeOK, memory, os, exits, files
<1> QED
  BY <1>1, <1>2, <1>3

(* Steps of a child and of the goroutine that watches it.                  *)
LEMMA ChildStepType ==
  ASSUME TypeOK, NEW m \in Launches, Watcher(m) \/ ChildExit(m) \/ FileChange(m)
  PROVE  TypeOK'
<1> DEFINE entry == registry[key[m]]
<1>a. key[m] \in Keys /\ entry \in Entry /\ note[m] \in Notes
  BY DEF TypeOK
<1>1. CASE Reap(m)
  <2>1. child' \in [Launches -> Children] /\ fswatch' \subseteq Launches
        /\ watching' \in [Launches -> WatchStages]
    BY <1>1 DEF Reap, TypeOK, Children, WatchStages
  <2>2. note' \in [Launches -> Notes]
    <3> DEFINE exit == IF watching[m] = "on" THEN child[m] ELSE note[m].exit
    <3>1. [note[m] EXCEPT !.exit = exit] \in Notes
      BY <1>1, <1>a DEF Reap, Notes
    <3>2. note' = [note EXCEPT ![m] = [note[m] EXCEPT !.exit = exit]]
      BY <1>1 DEF Reap
    <3> QED
      BY <3>1, <3>2 DEF TypeOK
  <2> QED
    BY <1>1, <2>1, <2>2 DEF Reap, TypeOK, memory, files
<1>2. CASE OnProcessExit(m)
  <2> DEFINE again == Errored(m, entry) /\ entry.restarts < entry.app.max
             booked == [entry EXCEPT
               !.pid = Nil,
               !.restarts = IF again THEN @ + 1 ELSE @,
               !.status = IF again THEN "launching"
                          ELSE IF Errored(m, entry) THEN "errored"
                          ELSE IF entry.stopping THEN @ ELSE "stopped"]
  <2>1. booked \in Entry
    <3> DEFINE restarts == IF again THEN entry.restarts + 1 ELSE entry.restarts
               status == IF again THEN "launching"
                         ELSE IF Errored(m, entry) THEN "errored"
                         ELSE IF entry.stopping THEN entry.status ELSE "stopped"
    <3>1. restarts \in Nat
      BY <1>a DEF Entry
    <3>2. status \in Statuses
      <4>1. entry.status \in Statuses
        BY <1>a DEF Entry
      <4> QED
        BY <4>1 DEF Statuses
    <3>3. booked = [entry EXCEPT !.pid = Nil, !.restarts = restarts,
                                 !.status = status]
      OBVIOUS
    <3> HIDE DEF booked, restarts, status
    <3> QED
      BY <1>a, <3>1, <3>2, <3>3 DEF Entry
  <2>2. UpdateInfo(key[m], booked)
    BY <1>2 DEF OnProcessExit
  <2>3. [exit |-> note[m].exit, run |-> entry.run, trigger |-> entry.trigger,
         again |-> again] \in Notes
    <3>1. again \in BOOLEAN
      BY DEF Errored
    <3> HIDE DEF again
    <3> QED
      BY <1>a, <3>1 DEF Entry, Notes
  <2>4. note' \in [Launches -> Notes]
    <3> DEFINE held == [exit |-> note[m].exit, run |-> entry.run,
                        trigger |-> entry.trigger, again |-> again]
    <3>1. \/ note' = [note EXCEPT ![m] = held]
          \/ note' = [note EXCEPT ![m] = note[m]]
      BY <1>2 DEF OnProcessExit
    <3> HIDE DEF held
    <3>2. held \in Notes
      BY <2>3 DEF held
    <3> QED
      BY <1>a, <3>1, <3>2 DEF TypeOK
  <2>5. watching' \in [Launches -> WatchStages]
    BY <1>2 DEF OnProcessExit, TypeOK, WatchStages
  <2> HIDE DEF booked
  <2>6. registry' \in [Keys -> Entry]
    BY <2>1, <2>2, UpdateInfoType
  <2> QED
    BY <1>2, <2>4, <2>5, <2>6 DEF OnProcessExit, TypeOK, os, files
<1>3. CASE RecordRun(m)
  <2> DEFINE told == [entry EXCEPT !.cronStatus = note[m].exit]
  <2>1. told \in Entry
    <3>1. note[m].exit \in CronStatuses
      BY <1>a DEF Notes, CronStatuses
    <3> QED
      BY <1>a, <3>1 DEF Entry
  <2>2. UpdateInfo(key[m], told) \/ UNCHANGED registry
    BY <1>3 DEF RecordRun
  <2> HIDE DEF told
  <2>3. registry' \in [Keys -> Entry]
    BY <2>1, <2>2, UpdateInfoType DEF TypeOK
  <2>4. journal' \subseteq Records
    <3>1. RunRecord(m) \subseteq Records
      <4>1. note[m].run \in {Nil} \union Launches
        BY <1>a DEF Notes
      <4>2. [event |-> "run", run |-> note[m].run, pid |-> m] \in Records
        BY <4>1 DEF Records
      <4> QED
        BY <4>2 DEF RunRecord
    <3> QED
      BY <1>3, <3>1 DEF RecordRun, TypeOK
  <2>5. watching' \in [Launches -> WatchStages] /\ note' \in [Launches -> Notes]
    BY <1>3, IdleType DEF RecordRun, TypeOK, WatchStages
  <2> QED
    BY <1>3, <2>3, <2>4, <2>5 DEF RecordRun, TypeOK, os, files
<1>4. CASE ChildExit(m)
  <2>1. child' \in [Launches -> Children]
    BY <1>4 DEF ChildExit, TypeOK, Children
  <2> QED
    BY <1>4, <2>1 DEF ChildExit, TypeOK, memory, exits, files
<1>5. CASE FileChange(m)
  BY <1>5 DEF FileChange, TypeOK, memory, os, exits, files
<1> QED
  BY <1>1, <1>2, <1>3, <1>4, <1>5 DEF Watcher

(* The end of the daemon.                                                  *)
LEMMA DaemonGoneType ==
  ASSUME TypeOK, DaemonGone
  PROVE  TypeOK'
<1>1. registry' \in [Keys -> Entry] /\ schedule' \in [Keys -> Apps \union {NoApp}]
  BY KeyTypes DEF DaemonGone
<1>2. watching' \in [Launches -> WatchStages] /\ note' \in [Launches -> Notes]
      /\ thread' \in [Threads -> Thread]
  BY IdleType DEF DaemonGone, WatchStages
<1>3. UNCHANGED <<key, child, nextLaunch, journal, dump>>
  BY DEF DaemonGone
<1>4. /\ fswatch' \subseteq Launches /\ timers' \subseteq Launches
      /\ nextID' \in Nat /\ suppress' \in BOOLEAN /\ up' \in BOOLEAN
  BY DEF DaemonGone
<1> QED
  BY <1>1, <1>2, <1>3, <1>4 DEF TypeOK

-----------------------------------------------------------------------------
(* Every handler has in hand what it needs.                                *)

AllInHand == \A t \in Threads : InHand(thread[t])

(* One handler moves: only what it has in hand matters.                    *)
LEMMA BecomeInHand ==
  ASSUME TypeOK, AllInHand, NEW t \in Threads, NEW state, InHand(state),
         Become(t, state)
  PROVE  AllInHand'
<1>1. \A u \in Threads : thread'[u] = IF u = t THEN state ELSE thread[u]
  BY DEF TypeOK, Become
<1> QED
  BY <1>1 DEF AllInHand, InHand

\* Where a handler is on its way to a launch.
onTheWay == {"unschedule", "mark", "wait", "settle", "fork"}

(* A handler that goes on, or back to where nothing is needed.             *)
LEMMA GotoInHand ==
  ASSUME TypeOK, AllInHand, NEW t \in Threads, NEW label, Goto(t, label),
         \/ label \notin onTheWay \union {"guard", "install"}
         \/ label \in onTheWay /\ thread[t].pc \in onTheWay
  PROVE  AllInHand'
<1> DEFINE state == [thread[t] EXCEPT !.pc = label]
<1>1. thread[t] \in Thread /\ InHand(thread[t])
  BY DEF TypeOK, AllInHand
<1>2. /\ state.pc = label /\ state.op = thread[t].op
      /\ state.rest = thread[t].rest /\ state.new = thread[t].new
  BY <1>1 DEF Thread
<1>3. Become(t, state)
  BY DEF Goto, Become
<1> HIDE DEF state
<1>4. InHand(state)
  BY <1>1, <1>2 DEF InHand, onTheWay
<1> QED
  BY <1>3, <1>4, BecomeInHand

(* The steps of a handler keep what it needs in hand.                      *)
LEMMA StepInHand ==
  ASSUME TypeOK, AllInHand, NEW t \in Threads, Step(t), ~Exit(t)
  PROVE  AllInHand'
<1> DEFINE th == thread[t]
<1>a. th \in Thread /\ InHand(th)
  BY DEF TypeOK, AllInHand
<1>b. \A state : InHand(state) /\ Become(t, state) => AllInHand'
  BY BecomeInHand
<1>c. InHand(Idle)
  BY DEF InHand, Idle
<1>1. CASE RestartNext(t)
  <2>1. PICK m \in th.todo :
          \/ Become(t, [th EXCEPT !.todo = @ \ {m}, !.mp = m,
                          !.pc = "unschedule",
                          !.job = [NoJob EXCEPT !.app = registry[key[m]].app,
                                                !.triggered = TRUE]])
          \/ Become(t, [th EXCEPT !.todo = @ \ {m}])
    BY <1>1 DEF RestartNext
  <2>2. th.pc = "next" /\ th.op \notin {"start", "resurrect"}
    BY <1>1 DEF RestartNext, At, Restarts
  <2>3. InHand([th EXCEPT !.todo = @ \ {m}, !.mp = m, !.pc = "unschedule",
                  !.job = [NoJob EXCEPT !.app = registry[key[m]].app,
                                        !.triggered = TRUE]])
    BY <1>a, <2>2 DEF InHand, Thread
  <2>4. InHand([th EXCEPT !.todo = @ \ {m}])
    BY <1>a, <2>2 DEF InHand, Thread
  <2> QED
    BY <1>b, <2>1, <2>3, <2>4
<1>2. CASE ResumeNext(t)
  <2>1. PICK m \in th.todo :
          \/ Become(t, [th EXCEPT !.todo = @ \ {m}, !.pc = "fork",
                          !.job = [NoJob EXCEPT !.app = registry[key[m]].app]])
          \/ Become(t, [th EXCEPT !.todo = @ \ {m}])
    BY <1>2 DEF ResumeNext
  <2>2. th.pc = "next" /\ th.op = "resume"
    BY <1>2 DEF ResumeNext, At
  <2>3. InHand([th EXCEPT !.todo = @ \ {m}, !.pc = "fork",
                  !.job = [NoJob EXCEPT !.app = registry[key[m]].app]])
    BY <1>a, <2>2 DEF InHand, Thread
  <2>4. InHand([th EXCEPT !.todo = @ \ {m}])
    BY <1>a, <2>2 DEF InHand, Thread
  <2> QED
    BY <1>b, <2>1, <2>3, <2>4
<1>3. CASE StopNext(t)
  <2>1. PICK m \in th.todo :
          Become(t, [th EXCEPT !.todo = @ \ {m}, !.mp = m, !.pc = "unschedule"])
    BY <1>3 DEF StopNext
  <2>2. th.op \in {"stop", "pause", "delete", "kill"}
    BY <1>3 DEF StopNext
  <2>3. InHand([th EXCEPT !.todo = @ \ {m}, !.mp = m, !.pc = "unschedule"])
    BY <1>a, <2>2 DEF InHand, Thread
  <2> QED
    BY <1>b, <2>1, <2>3
<1>4. CASE TargetsDone(t)
  <2> DEFINE over == [th EXCEPT !.mp = Nil, !.job = NoJob]
  <2>1. \/ Become(t, [over EXCEPT !.pc = "drain"])
        \/ Become(t, Idle)
        \/ Become(t, [over EXCEPT !.pc = "outcome", !.outcome = "ok"])
        \/ Become(t, [over EXCEPT !.pc = "autosave"])
    BY <1>4 DEF TargetsDone, Return
  <2>2. InHand([over EXCEPT !.pc = "drain"])
    BY <1>a DEF Thread, InHand
  <2>3. InHand([over EXCEPT !.pc = "outcome", !.outcome = "ok"])
    BY <1>a DEF Thread, InHand
  <2>4. InHand([over EXCEPT !.pc = "autosave"])
    BY <1>a DEF Thread, InHand
  <2> HIDE DEF over
  <2> QED
    BY <1>b, <1>c, <2>1, <2>2, <2>3, <2>4
<1>5. CASE Unschedule(t) \/ Mark(t) \/ Wait(t) \/ StopTimeout(t) \/ Settle(t)
  <2>1. th.pc \in onTheWay
    BY <1>5 DEF Unschedule, Mark, Wait, StopTimeout, Settle, At, onTheWay
  <2>2. \/ Goto(t, "mark") \/ Goto(t, "settle") \/ Goto(t, "wait")
        \/ Goto(t, AfterStop(th.op))
    <3>1. CASE Mark(t)
      BY <3>1 DEF Mark
    <3>2. CASE ~Mark(t)
      BY <1>5, <3>2 DEF Unschedule, Wait, StopTimeout, Settle
    <3> QED
      BY <3>1, <3>2
  <2>3. AfterStop(th.op) \in {"suspend", "remove", "next", "fork"}
    BY DEF AfterStop
  <2> HIDE DEF th
  <2>4. \A label \in {"mark", "settle", "wait", "suspend", "remove", "next", "fork"} :
          Goto(t, label) => AllInHand'
    BY <2>1, GotoInHand DEF onTheWay, th
  <2> QED
    BY <2>2, <2>3, <2>4
<1>6. CASE Suspend(t) \/ Remove(t) \/ Truncate(t) \/ Suppress(t)
  <2>1. \A label \in {"next", "write", "replay"} :
          Goto(t, label) => AllInHand'
    BY GotoInHand DEF onTheWay
  <2>2. \E label \in {"next", "write", "replay"} : Goto(t, label)
    BY <1>6 DEF Suspend, Remove, Truncate, Suppress
  <2> QED
    BY <2>1, <2>2
<1>20. CASE Drained(t)
  <2>1. \/ Become(t, [th EXCEPT !.pc = "exit", !.outcome = "ok"])
        \/ Become(t, [th EXCEPT !.pc = "exit", !.outcome = "failed"])
    BY <1>20 DEF Drained
  <2>2. /\ InHand([th EXCEPT !.pc = "exit", !.outcome = "ok"])
        /\ InHand([th EXCEPT !.pc = "exit", !.outcome = "failed"])
    BY <1>a DEF Thread, InHand
  <2> QED
    BY <1>b, <2>1, <2>2
<1>7. CASE Lookup(t)
  <2> DEFINE launch == [th EXCEPT !.job.app = Head(th.rest), !.pc = "fork"]
  <2>1. \/ Become(t, launch)
        \/ \E k \in Keys :
             Become(t, [launch EXCEPT !.mp = registry[k].run, !.pc = "unschedule"])
        \/ Become(t, [th EXCEPT !.rest = <<>>])
    <3>1. FindExisting(registry, Head(th.rest)) \subseteq Keys
      BY FoundIsRegistered DEF Registered
    <3> QED
      BY <1>7, <3>1 DEF Lookup
  <2>2. th.pc = "lookup" /\ th.rest # <<>>
    BY <1>7 DEF Lookup, At
  <2>3. launch.op = th.op /\ launch.rest = th.rest /\ launch.pc = "fork"
        /\ DOMAIN launch = DOMAIN th
    BY <1>a DEF Thread
  <2>4. \A run : InHand([launch EXCEPT !.mp = run, !.pc = "unschedule"])
    BY <1>a, <2>2 DEF InHand, Thread
  <2> HIDE DEF launch
  <2>5. InHand(launch)
    BY <2>2, <2>3 DEF InHand
  <2>6. InHand([th EXCEPT !.rest = <<>>])
    BY <1>a, <2>2 DEF InHand, Thread
  <2> QED
    BY <1>b, <2>1, <2>4, <2>5, <2>6
<1>8. CASE StartAppDone(t)
  <2>1. InHand([th EXCEPT !.job = NoJob, !.pc = "autosave"])
    BY <1>a DEF InHand, Thread
  <2>2. \/ Become(t, [th EXCEPT !.job = NoJob, !.pc = "autosave"])
        \/ Goto(t, "replay") \/ Become(t, Idle)
    BY <1>8, Zenon DEF StartAppDone, Return
  <2>3. Goto(t, "replay") => AllInHand'
    BY GotoInHand DEF onTheWay
  <2> QED
    BY <1>b, <1>c, <2>1, <2>2, <2>3
<1>9. CASE Fork(t)
  <2>1. Become(t, [th EXCEPT !.new = nextLaunch, !.pc = "install"])
        /\ nextLaunch \in Launches /\ th.pc = "fork"
    BY <1>9 DEF Fork, At
  <2>2. InHand([th EXCEPT !.new = nextLaunch, !.pc = "install"])
    BY <1>a, <2>1 DEF InHand, Thread
  <2> QED
    BY <1>b, <2>1, <2>2
<1>10. CASE ForkFails(t)
  <2>1. InHand([th EXCEPT !.rest = <<>>, !.pc = "lookup"])
        /\ InHand([th EXCEPT !.outcome = "failed", !.pc = "outcome"])
    BY <1>a DEF InHand, Thread
  <2>2. \/ Become(t, [th EXCEPT !.rest = <<>>, !.pc = "lookup"])
        \/ Goto(t, "next")
        \/ Become(t, [th EXCEPT !.outcome = "failed", !.pc = "outcome"])
        \/ Become(t, Idle)
    BY <1>10 DEF ForkFails, Return
  <2>3. Goto(t, "next") => AllInHand'
    BY GotoInHand DEF onTheWay
  <2> QED
    BY <1>b, <1>c, <2>1, <2>2, <2>3
<1>11. CASE Install(t)
  <2> DEFINE done == [th EXCEPT !.new = Nil, !.mp = Nil]
  <2>1. InHand([done EXCEPT !.rest = Tail(@), !.launched = TRUE, !.pc = "lookup"])
        /\ InHand([done EXCEPT !.outcome = "running", !.pc = "outcome"])
        /\ InHand([done EXCEPT !.pc = "next"])
    BY <1>a DEF InHand, Thread
  <2>2. \/ Launched(th) = [done EXCEPT !.rest = Tail(@), !.launched = TRUE,
                                       !.pc = "lookup"]
        \/ Launched(th) = [done EXCEPT !.outcome = "running", !.pc = "outcome"]
        \/ Launched(th) = [done EXCEPT !.pc = "next"]
        \/ Launched(th) = Idle
    BY DEF Launched
  <2> HIDE DEF done
  <2>3. InHand(Launched(th))
    BY <1>c, <2>1, <2>2
  <2> QED
    BY <1>b, <1>11, <2>3 DEF Install
<1>12. CASE Guard(t)
  <2>1. InHand([th EXCEPT !.outcome = "skipped", !.pc = "outcome"])
    BY <1>a DEF InHand, Thread
  <2>2. InHand([th EXCEPT !.pc = "unschedule"])
    BY <1>a, <1>12 DEF InHand, Thread, Guard, At
  <2>3. \/ Become(t, [th EXCEPT !.outcome = "skipped", !.pc = "outcome"])
        \/ Become(t, [th EXCEPT !.pc = "unschedule"])
    BY <1>12 DEF Guard
  <2> QED
    BY <1>b, <2>1, <2>2, <2>3
<1>13. CASE Outcome(t)
  BY <1>b, <1>c, <1>13 DEF Outcome, Return
<1>14. CASE AutoSave(t) \/ Write(t)
  <2>1. InHand([th EXCEPT !.image = {}, !.pc = "replay"])
    BY <1>a DEF InHand, Thread
  <2>2. \/ Become(t, [th EXCEPT !.image = {}, !.pc = "replay"])
        \/ Become(t, Idle) \/ Goto(t, "snapshot")
    BY <1>14, Zenon DEF AutoSave, Write, Finish, Return
  <2>3. Goto(t, "snapshot") => AllInHand'
    BY GotoInHand DEF onTheWay
  <2> QED
    BY <1>b, <1>c, <2>1, <2>2, <2>3
<1>15. CASE Snapshot(t)
  <2>1. InHand([th EXCEPT !.image = SnapshotAppConfigs, !.pc = "truncate"])
    BY <1>a DEF InHand, Thread
  <2> QED
    BY <1>b, <1>15, <2>1 DEF Snapshot
<1>16. CASE Replay(t)
  <2>1. \/ Become(t, Idle)
        \/ \E e \in th.replay :
             Become(t, [th EXCEPT !.replay = @ \ {e}, !.rest = <<e.app>>,
                          !.launched = FALSE, !.job.paused = SavedPause(e),
                          !.pc = "lookup"])
    BY <1>16 DEF Replay, Return
  <2>2. \A e \in th.replay :
          InHand([th EXCEPT !.replay = @ \ {e}, !.rest = <<e.app>>,
                    !.launched = FALSE, !.job.paused = SavedPause(e),
                    !.pc = "lookup"])
    BY <1>a DEF InHand, Thread
  <2> QED
    BY <1>b, <1>c, <2>1, <2>2
<1> QED
  BY <1>1, <1>2, <1>3, <1>4, <1>5, <1>6, <1>7, <1>8, <1>9, <1>10, <1>11, <1>12,
     <1>13, <1>14, <1>15, <1>16, <1>20 DEF Step

(* A handler that begins has in hand what it needs.                        *)
LEMMA BeginInHand ==
  ASSUME TypeOK, AllInHand, NEW t \in Threads, Begin(t)
  PROVE  AllInHand'
<1>b. \A state : InHand(state) /\ Become(t, state) => AllInHand'
  BY BecomeInHand
<1>c. InHand(Idle)
  BY DEF InHand, Idle
<1>1. CASE StartApp(t)
  <2>1. PICK r \in StartRequests :
          Become(t, [Idle EXCEPT !.pc = "lookup", !.op = "start", !.rest = r.apps,
                                 !.job.paused = r.paused])
    BY <1>1 DEF StartApp
  <2>2. InHand([Idle EXCEPT !.pc = "lookup", !.op = "start", !.rest = r.apps,
                            !.job.paused = r.paused])
    BY DEF InHand, Idle
  <2> QED
    BY <1>b, <2>1, <2>2
<1>2. CASE ByName(t)
  <2>1. PICK op, todo : Become(t, [Idle EXCEPT !.pc = "next", !.op = op, !.todo = todo])
    BY <1>2 DEF ByName
  <2>2. InHand([Idle EXCEPT !.pc = "next", !.op = op, !.todo = todo])
    BY DEF InHand, Idle
  <2> QED
    BY <1>b, <2>1, <2>2
<1>3. CASE KillAll(t)
  <2>1. InHand([Idle EXCEPT !.pc = "next", !.op = "kill",
                            !.todo = Pointers(Registered(registry))])
    BY DEF InHand, Idle
  <2> QED
    BY <1>b, <1>3, <2>1 DEF KillAll
<1>4. CASE Save(t)
  BY <1>4, GotoInHand DEF Save, onTheWay
<1>5. CASE Resurrect(t) \/ Boot(t)
  <2>1. InHand([Idle EXCEPT !.op = "resurrect", !.replay = dump.image,
                            !.pc = "suppress"])
    BY DEF InHand, Idle
  <2>2. \/ UNCHANGED thread
        \/ Become(t, [Idle EXCEPT !.op = "resurrect", !.replay = dump.image,
                                  !.pc = "suppress"])
    BY <1>5 DEF Resurrect, Boot
  <2>3. UNCHANGED thread => AllInHand'
    BY DEF AllInHand, InHand
  <2> QED
    BY <1>b, <2>1, <2>2, <2>3
<1>6. ASSUME NEW k \in Keys, TriggerCron(t, k)
      PROVE  AllInHand'
  <2>1. InHand([Idle EXCEPT !.pc = "guard", !.op = "cron",
                  !.mp = registry[k].run, !.fire = k,
                  !.job = [app |-> schedule[k], paused |-> FALSE,
                           triggered |-> TRUE, trigger |-> "cron"]])
    BY DEF InHand, Idle
  <2> QED
    BY <1>b, <1>6, <2>1 DEF TriggerCron
<1>7. ASSUME NEW k \in Keys, CronRestart(t, k)
      PROVE  AllInHand'
  <2> DEFINE found == FindByTarget(registry, KeyTarget(k))
             fire == [Idle EXCEPT !.op = "cron_restart", !.fire = k]
  <2>1. InHand([fire EXCEPT !.outcome = "failed", !.pc = "outcome"])
        /\ InHand([fire EXCEPT !.todo = Pointers(found), !.pc = "next"])
    BY DEF InHand, Idle
  <2>2. \/ Become(t, [fire EXCEPT !.outcome = "failed", !.pc = "outcome"])
        \/ Become(t, [fire EXCEPT !.todo = Pointers(found), !.pc = "next"])
    BY <1>7 DEF CronRestart
  <2> QED
    BY <1>b, <2>1, <2>2
<1>8. ASSUME NEW m \in Launches, AutoRestart(t, m)
      PROVE  AllInHand'
  <2>1. InHand([Idle EXCEPT !.pc = "fork", !.op = "auto",
                            !.job = [NoJob EXCEPT !.app = registry[key[m]].app]])
    BY DEF InHand, Idle
  <2>2. \/ UNCHANGED thread
        \/ Become(t, [Idle EXCEPT !.pc = "fork", !.op = "auto",
                        !.job = [NoJob EXCEPT !.app = registry[key[m]].app]])
    BY <1>8 DEF AutoRestart
  <2>3. UNCHANGED thread => AllInHand'
    BY DEF AllInHand, InHand
  <2> QED
    BY <1>b, <2>1, <2>2, <2>3
<1>9. ASSUME NEW m \in Launches, Debounced(t, m)
      PROVE  AllInHand'
  <2> DEFINE found == FindByTarget(registry, NameTarget(key[m][2]))
  <2>1. InHand([Idle EXCEPT !.pc = "next", !.op = "watch",
                            !.todo = Pointers(found)])
    BY DEF InHand, Idle
  <2>2. \/ Become(t, Idle)
        \/ Become(t, [Idle EXCEPT !.pc = "next", !.op = "watch",
                                  !.todo = Pointers(found)])
    BY <1>9 DEF Debounced
  <2> QED
    BY <1>b, <1>c, <2>1, <2>2
<1> QED
  BY <1>1, <1>2, <1>3, <1>4, <1>5, <1>6, <1>7, <1>8, <1>9 DEF Begin

-----------------------------------------------------------------------------
(* The inductive invariant everything else rests on.                       *)

Inductive == TypeOK /\ AllInHand

(* The initial state satisfies it.                                         *)
LEMMA InitInductive == Init => Inductive
<1> SUFFICES ASSUME Init PROVE Inductive
  OBVIOUS
<1>1. cronKey(NoApp) \in Keys /\ Absent \in Entry
  BY KeyTypes
<1>2. nextLaunch \in 1..(MaxLaunch + 1)
  BY BoundsAssumption DEF Init
<1>3. dump \in Dumps
  BY DEF Init, Dumps, Image
<1>4. child \in [Launches -> Children] /\ watching \in [Launches -> WatchStages]
  BY DEF Init, Children, WatchStages
<1>5. TypeOK
  BY <1>1, <1>2, <1>3, <1>4, IdleType DEF Init, TypeOK
<1>6. AllInHand
  BY DEF Init, AllInHand, InHand, Idle
<1> QED
  BY <1>5, <1>6 DEF Inductive

(* Every step preserves it.                                                *)
LEMMA NextInductive == Inductive /\ [Next]_vars => Inductive'
<1> SUFFICES ASSUME TypeOK, AllInHand, [Next]_vars PROVE TypeOK' /\ AllInHand'
  BY DEF Inductive
<1>a. ASSUME DaemonGone PROVE TypeOK' /\ AllInHand'
  <2>1. AllInHand'
    BY <1>a DEF DaemonGone, AllInHand, InHand, Idle
  <2> QED
    BY <1>a, <2>1, DaemonGoneType
<1>b. ASSUME UNCHANGED thread PROVE AllInHand'
  BY <1>b DEF AllInHand, InHand
<1>1. ASSUME NEW t \in Threads, Step(t)
      PROVE  TypeOK' /\ AllInHand'
  <2>1. CASE Exit(t)
    BY <1>a, <2>1 DEF Exit
  <2>2. CASE ~Exit(t)
    <3>1. AllInHand'
      BY <1>1, <2>2, StepInHand
    <3>2. InHand(thread[t])
      BY DEF AllInHand
    <3> QED
      BY <1>1, <2>2, <3>1, <3>2, QuietStepType, StopStepType, LaunchStepType,
         FileStepType DEF Step
  <2> QED
    BY <2>1, <2>2
<1>2. ASSUME NEW t \in Threads, Begin(t)
      PROVE  TypeOK' /\ AllInHand'
  BY <1>2, BeginInHand, BeginType, SpontaneousBeginType DEF Begin
<1>3. ASSUME NEW m \in Launches, Watcher(m) \/ ChildExit(m) \/ FileChange(m)
      PROVE  TypeOK' /\ AllInHand'
  <2>1. UNCHANGED thread
    BY <1>3 DEF Watcher, Reap, OnProcessExit, RecordRun, ChildExit, FileChange
  <2> QED
    BY <1>b, <1>3, <2>1, ChildStepType
<1>4. CASE Crash
  BY <1>a, <1>4 DEF Crash
<1>5. CASE UNCHANGED vars
  BY <1>b, <1>5 DEF vars, TypeOK, memory, os, exits, files
<1> QED
  BY <1>1, <1>2, <1>3, <1>4, <1>5 DEF Next

(* Every variable keeps its type: for every set of tasks, requests and     *)
(* handlers, no command, fire, exit or crash leaves the registry, the      *)
(* schedules or a handler malformed (daemon/process_manager.go).           *)
THEOREM TypeCorrect == Spec => []TypeOK
<1>1. Spec => []Inductive
  BY InitInductive, NextInductive, PTL DEF Spec
<1>2. Inductive => TypeOK
  BY DEF Inductive
<1> QED
  BY <1>1, <1>2, PTL

-----------------------------------------------------------------------------
(* What the registry keeps under every interleaving, for every set of      *)
(* tasks, requests and handlers: only five things ever happen to it        *)
(* (RegistrySteps), and the theorems go through them.                      *)

(* What happens to the registry.                                           *)

\* A stop shows.
Sticks(e) == e.stopping /\ ~e.paused => e.status \in {"stopping", "stopped"}

\* The closures passed to UpdateInfo keep the identity of the entry, never
\* lift a pause and never hide a stop.
Amends(e, f) ==
  /\ f.run = e.run /\ f.id = e.id
  /\ e.paused => f.paused
  /\ Sticks(e) => Sticks(f)

Untouched == UNCHANGED <<registry, nextID>>

Amended ==
  /\ UNCHANGED nextID
  /\ \E k \in Keys, f \in Entry : Amends(registry[k], f) /\ UpdateInfo(k, f)

Removed ==
  /\ UNCHANGED nextID
  /\ \E k \in Keys : registry' = [registry EXCEPT ![k] = Absent]

\* A launch finds an entry to replace, or none.
Replaceable(t) ==
  LET found == FindExisting(registry, thread[t].job.app)
  IN  IF found = {} THEN {NoKey} ELSE found

Installed ==
  \E t \in Threads : /\ thread[t].pc = "install"
                     /\ \E e \in Replaceable(t) : InstallOver(t, e)

(* UpdateInfo of a key that is none does nothing.                          *)
LEMMA UpdateInfoOutside ==
  ASSUME TypeOK, NEW k, k \notin Keys, NEW f, UpdateInfo(k, f)
  PROVE  UNCHANGED registry
<1>1. registry \in [Keys -> Entry]
  BY DEF TypeOK
<1>2. [registry EXCEPT ![k] = f] = registry
  BY <1>1
<1> QED
  BY <1>2 DEF UpdateInfo

(* ... and one of a key amends its entry.                                  *)
LEMMA AmendedBy ==
  ASSUME TypeOK, UNCHANGED nextID, NEW k, NEW f, UpdateInfo(k, f),
         k \in Keys => f \in Entry /\ Amends(registry[k], f)
  PROVE  Untouched \/ Amended
<1>1. CASE k \in Keys
  BY <1>1 DEF Amended
<1>2. CASE k \notin Keys
  BY <1>2, UpdateInfoOutside DEF Untouched
<1> QED
  BY <1>1, <1>2

(* The steps of a handler.                                                 *)
LEMMA HandlerOnRegistry ==
  ASSUME TypeOK, NEW t \in Threads, Step(t) \/ Begin(t), ~Exit(t)
  PROVE  Untouched \/ Amended \/ Removed \/ Install(t)
<1> DEFINE mp == thread[t].mp
           entry == registry[key[mp]]
<1>a. key[mp] \in Keys => entry \in Entry
  BY DEF TypeOK
<1>1. CASE Mark(t)
  <2> DEFINE f == [entry EXCEPT !.stopping = TRUE,
                     !.status = IF entry.paused THEN @ ELSE "stopping"]
  <2>1. key[mp] \in Keys => f \in Entry /\ Amends(entry, f)
    BY <1>a DEF Entry, Statuses, Amends, Sticks
  <2>2. UpdateInfo(key[mp], f) /\ UNCHANGED nextID
    BY <1>1 DEF Mark
  <2> HIDE DEF f
  <2> QED
    BY <2>1, <2>2, AmendedBy
<1>2. CASE Settle(t)
  <2> DEFINE f == [entry EXCEPT !.pid = Nil,
                     !.status = IF entry.paused THEN @ ELSE "stopped"]
  <2>1. key[mp] \in Keys => f \in Entry /\ Amends(entry, f)
    BY <1>a DEF Entry, Statuses, Amends, Sticks
  <2>2. UpdateInfo(key[mp], f) /\ UNCHANGED nextID
    BY <1>2 DEF Settle
  <2> HIDE DEF f
  <2> QED
    BY <2>1, <2>2, AmendedBy
<1>3. CASE Suspend(t)
  <2> DEFINE f == [entry EXCEPT !.paused = TRUE, !.status = "paused"]
  <2>1. key[mp] \in Keys => f \in Entry /\ Amends(entry, f)
    BY <1>a DEF Entry, Statuses, Amends, Sticks
  <2>2. UpdateInfo(key[mp], f) /\ UNCHANGED nextID
    BY <1>3 DEF Suspend
  <2> HIDE DEF f
  <2> QED
    BY <2>1, <2>2, AmendedBy
<1>4. CASE Outcome(t)
  <2> DEFINE k == thread[t].fire
             f == [registry[k] EXCEPT !.cronStatus = thread[t].outcome]
  <2>1. k \in Keys => f \in Entry /\ Amends(registry[k], f)
    <3>1. thread[t].outcome \in CronStatuses
      BY DEF TypeOK, Thread
    <3>2. k \in Keys => registry[k] \in Entry
      BY DEF TypeOK
    <3> QED
      BY <3>1, <3>2 DEF Entry, Amends, Sticks
  <2>2. UpdateInfo(k, f) /\ UNCHANGED nextID
    BY <1>4 DEF Outcome
  <2> HIDE DEF f
  <2> QED
    BY <2>1, <2>2, AmendedBy
<1>5. CASE Remove(t)
  <2>1. registry' = [registry EXCEPT ![key[mp]] = Absent] /\ UNCHANGED nextID
    BY <1>5 DEF Remove
  <2>2. CASE key[mp] \in Keys
    BY <2>1, <2>2 DEF Removed
  <2>3. CASE key[mp] \notin Keys
    <3>1. [registry EXCEPT ![key[mp]] = Absent] = registry
      BY <2>3 DEF TypeOK
    <3> QED
      BY <2>1, <3>1 DEF Untouched
  <2> QED
    BY <2>2, <2>3
<1>6. CASE Unschedule(t)
  BY <1>6 DEF Unschedule, Untouched
<1>7. CASE Step(t) /\ ~(Mark(t) \/ Settle(t) \/ Suspend(t) \/ Outcome(t)
                        \/ Remove(t) \/ Install(t) \/ Unschedule(t))
  <2>1. UNCHANGED memory
    BY <1>7 DEF Step, RestartNext, ResumeNext, StopNext, TargetsDone, Wait,
                StopTimeout, Lookup, StartAppDone, Fork, ForkFails, Guard,
                AutoSave, Snapshot, Truncate, Write, Suppress, Replay, Drained
  <2> QED
    BY <2>1 DEF memory, Untouched
<1>8. CASE Begin(t)
  <2>1. UNCHANGED memory
    BY <1>8 DEF Begin, StartApp, ByName, KillAll, Save, Resurrect, TriggerCron,
                CronRestart, AutoRestart, Debounced, Boot
  <2> QED
    BY <2>1 DEF memory, Untouched
<1> QED
  BY <1>1, <1>2, <1>3, <1>4, <1>5, <1>6, <1>7, <1>8

(* The steps of a child and of the goroutine that watches it.              *)
LEMMA ChildOnRegistry ==
  ASSUME TypeOK, NEW m \in Launches, Watcher(m) \/ ChildExit(m) \/ FileChange(m)
  PROVE  Untouched \/ Amended
<1> DEFINE entry == registry[key[m]]
<1>a. key[m] \in Keys /\ entry \in Entry /\ note[m] \in Notes
  BY DEF TypeOK
<1>1. CASE OnProcessExit(m)
  <2> DEFINE again == Errored(m, entry) /\ entry.restarts < entry.app.max
             restarts == IF again THEN entry.restarts + 1 ELSE entry.restarts
             status == IF again THEN "launching"
                       ELSE IF Errored(m, entry) THEN "errored"
                       ELSE IF entry.stopping THEN entry.status ELSE "stopped"
             f == [entry EXCEPT !.pid = Nil, !.restarts = restarts,
                                !.status = status]
  <2>1. UpdateInfo(key[m], f) /\ UNCHANGED nextID
    BY <1>1 DEF OnProcessExit
  <2>2. restarts \in Nat
    BY <1>a DEF Entry
  <2>3. status \in Statuses
    <3>1. entry.status \in Statuses
      BY <1>a DEF Entry
    <3> QED
      BY <3>1 DEF Statuses
  <2>4. entry.stopping => status = entry.status
    BY DEF Errored
  <2> HIDE DEF restarts, status
  <2>5. f \in Entry
    BY <1>a, <2>2, <2>3 DEF Entry
  <2>6. Amends(entry, f)
    BY <1>a, <2>4 DEF Entry, Amends, Sticks
  <2> HIDE DEF f
  <2> QED
    BY <1>a, <2>1, <2>5, <2>6, AmendedBy
<1>2. CASE RecordRun(m)
  <2> DEFINE f == [entry EXCEPT !.cronStatus = note[m].exit]
  <2>1. \/ UpdateInfo(key[m], f) /\ UNCHANGED nextID
        \/ Untouched
    BY <1>2 DEF RecordRun, Untouched
  <2>2. f \in Entry /\ Amends(entry, f)
    <3>1. note[m].exit \in CronStatuses
      BY <1>a DEF Notes, CronStatuses
    <3> QED
      BY <1>a, <3>1 DEF Entry, Amends, Sticks
  <2> HIDE DEF f
  <2> QED
    BY <2>1, <2>2, AmendedBy
<1>3. CASE Reap(m) \/ ChildExit(m) \/ FileChange(m)
  BY <1>3 DEF Reap, ChildExit, FileChange, memory, Untouched
<1> QED
  BY <1>1, <1>2, <1>3 DEF Watcher

(* Nothing else happens to the registry.                                   *)
LEMMA RegistrySteps ==
  ASSUME TypeOK, [Next]_vars
  PROVE  Untouched \/ Amended \/ Removed \/ Installed \/ DaemonGone
<1>1. ASSUME NEW t \in Threads, Step(t) \/ Begin(t)
      PROVE  Untouched \/ Amended \/ Removed \/ Installed \/ DaemonGone
  <2>1. CASE Exit(t)
    BY <2>1 DEF Exit
  <2>2. CASE ~Exit(t)
    <3>1. Install(t) => Untouched \/ Installed
      <4> SUFFICES ASSUME Install(t) PROVE Untouched \/ Installed
        OBVIOUS
      <4>1. PICK e \in Replaceable(t) : InstallOver(t, e) \/ Discard(t, e)
        BY DEF Install, Replaceable
      <4>2. thread[t].pc = "install"
        BY DEF Install, At
      <4>3. Discard(t, e) => Untouched
        BY DEF Discard, memory, Untouched
      <4> QED
        BY <4>1, <4>2, <4>3 DEF Installed
    <3> QED
      BY <1>1, <2>2, <3>1, HandlerOnRegistry
  <2> QED
    BY <2>1, <2>2
<1>2. ASSUME NEW m \in Launches, Watcher(m) \/ ChildExit(m) \/ FileChange(m)
      PROVE  Untouched \/ Amended
  BY <1>2, ChildOnRegistry
<1>3. CASE Crash
  BY <1>3 DEF Crash
<1>4. CASE UNCHANGED vars
  BY <1>4 DEF vars, memory, Untouched
<1> QED
  BY <1>1, <1>2, <1>3, <1>4 DEF Next

(* What a launch leaves: its own key holds the new entry, the key it took  *)
(* over from, if it is another one, is free; a key that was taken is only  *)
(* taken over from itself.                                                 *)
LEMMA InstallSteps ==
  ASSUME Inductive, NEW t \in Threads, thread[t].pc = "install",
         NEW e \in Replaceable(t), InstallOver(t, e)
  PROVE  LET k == cronKey(thread[t].job.app)
         IN  /\ k \in Keys
             /\ registry' = [j \in Keys |->
                  IF j = k THEN registry'[k]
                  ELSE IF j = e THEN Absent ELSE registry[j]]
             /\ registry'[k].run \in Launches
             /\ registry'[k].stopping = FALSE
             /\ \/ /\ e = NoKey /\ ~Present(k)
                   /\ registry'[k].id = nextID /\ nextID' = nextID + 1
                \/ /\ e \in Keys /\ Present(e) /\ (Present(k) => e = k)
                   /\ registry'[k].id = registry[e].id /\ nextID' = nextID
                   /\ ~(registry[e].paused /\ thread[t].job.triggered)
<1> DEFINE app == thread[t].job.app
           k == cronKey(app)
           job == thread[t].job
           n == thread[t].new
           found == FindExisting(registry, app)
<1>1. k \in Keys /\ n \in Launches
  <2>1. app \in Apps \union {NoApp}
    BY DEF Inductive, TypeOK, Thread, Job
  <2> QED
    BY <2>1, KeyTypes DEF Inductive, AllInHand, InHand
<1>2. registry' = [j \in Keys |-> IF j = k THEN NewEntry(job, n, e)
                                  ELSE IF j = e THEN Absent ELSE registry[j]]
      /\ nextID' = NextID(e) /\ ~Overruled(job, e)
  BY DEF InstallOver
<1>3. registry'[k] = NewEntry(job, n, e)
  BY <1>1, <1>2
<1>4. found \subseteq Registered(registry)
      /\ (k \in Registered(registry) => found = {k})
  BY FoundIsRegistered DEF FindExisting
<1>5. CASE e = NoKey
  <2>1. ~Present(k)
    <3>1. found = {}
      BY <1>4, <1>5, KeyTypes DEF Replaceable, Registered
    <3> QED
      BY <1>1, <1>4, <3>1 DEF Registered, Present
  <2> DEFINE base == [Absent EXCEPT !.id = nextID]
  <2>2. base \in Entry /\ base.id = nextID
    BY KeyTypes DEF Inductive, TypeOK, Entry
  <2>3. NewEntry(job, n, e) =
          [base EXCEPT
             !.run = n, !.app = job.app, !.trigger = job.trigger,
             !.status = IF job.paused THEN "paused"
                        ELSE IF NoChild(job) THEN "stopped" ELSE "online",
             !.pid = IF NoChild(job) THEN Nil ELSE n,
             !.stopping = FALSE, !.paused = job.paused]
    BY <1>5 DEF NewEntry
  <2> HIDE DEF base
  <2>4. registry'[k].run = n /\ registry'[k].stopping = FALSE
        /\ registry'[k].id = nextID
    BY <1>3, <2>3, <2>2 DEF Entry
  <2> QED
    BY <1>1, <1>2, <1>3, <1>5, <2>1, <2>4 DEF NextID
<1>6. CASE e # NoKey
  <2>1. e \in found
    BY <1>6 DEF Replaceable
  <2>2. e \in Keys /\ Present(e) /\ (Present(k) => e = k)
    BY <1>1, <1>4, <2>1 DEF Registered, Present
  <2>3. registry[e] \in Entry
    BY <2>2 DEF Inductive, TypeOK
  <2>4. registry'[k].run = n /\ registry'[k].stopping = FALSE
        /\ registry'[k].id = registry[e].id
    BY <1>3, <1>6, <2>3 DEF NewEntry, Entry
  <2> QED
    BY <1>1, <1>2, <1>3, <1>6, <2>2, <2>4 DEF NextID, Overruled
<1> QED
  BY <1>5, <1>6

-----------------------------------------------------------------------------
(* Stops stick.                                                            *)

(* An entry marked stopping stays stopping or stopped, whatever exits are  *)
(* booked meanwhile, until a launch or a pause replaces that state         *)
(* (stopProcess against onProcessExit).                                    *)
THEOREM StopsStick == Spec => []StopSticks
<1>1. Init => StopSticks
  <2>1. Absent.stopping = FALSE
    BY DEF Absent
  <2> SUFFICES ASSUME Init PROVE \A k \in Keys : registry[k].stopping = FALSE
    BY DEF StopSticks
  <2> QED
    BY <2>1 DEF Init
<1>2. Inductive /\ StopSticks /\ [Next]_vars => StopSticks'
  <2> SUFFICES ASSUME Inductive, StopSticks, [Next]_vars, NEW j \in Keys
               PROVE  Sticks(registry'[j])
    BY DEF StopSticks, Sticks
  <2>1. Untouched \/ Amended \/ Removed \/ Installed \/ DaemonGone
    BY RegistrySteps DEF Inductive
  <2>2. Sticks(registry[j]) /\ Sticks(Absent)
    BY DEF StopSticks, Sticks, Absent
  <2>3. CASE Untouched
    BY <2>2, <2>3 DEF Untouched
  <2>4. CASE Amended
    <3>1. PICK k \in Keys, f \in Entry : Amends(registry[k], f) /\ UpdateInfo(k, f)
      BY <2>4 DEF Amended
    <3>2. registry'[j] = registry[j] \/ (j = k /\ registry'[j] = f)
      BY <3>1 DEF UpdateInfo, Inductive, TypeOK
    <3> QED
      BY <2>2, <3>1, <3>2 DEF Amends
  <2>5. CASE Removed
    BY <2>2, <2>5 DEF Removed, Inductive, TypeOK
  <2>6. CASE Installed
    <3>a. PICK t \in Threads :
            thread[t].pc = "install" /\ \E e \in Replaceable(t) : InstallOver(t, e)
      BY <2>6 DEF Installed
    <3>1. PICK e \in Replaceable(t) :
            thread[t].pc = "install" /\ InstallOver(t, e)
      BY <3>a
    <3> DEFINE k == cronKey(thread[t].job.app)
    <3>2. /\ registry' = [i \in Keys |-> IF i = k THEN registry'[k]
                          ELSE IF i = e THEN Absent ELSE registry[i]]
          /\ registry'[k].stopping = FALSE
      BY <3>1, InstallSteps
    <3>3. j = k \/ registry'[j] = Absent \/ registry'[j] = registry[j]
      BY <3>2
    <3> QED
      BY <2>2, <3>2, <3>3 DEF Sticks
  <2>7. CASE DaemonGone
    BY <2>2, <2>7 DEF DaemonGone
  <2> QED
    BY <2>1, <2>3, <2>4, <2>5, <2>6, <2>7
<1> QED
  BY <1>1, <1>2, InitInductive, NextInductive, PTL DEF Spec

-----------------------------------------------------------------------------
(* Pauses are lifted on purpose.                                           *)

(* No cron fire, file watch or restart replaces a paused entry by one that *)
(* is not paused, however it interleaves with the pause (the paused check  *)
(* in launchProcessWith).                                                  *)
THEOREM FiresNeverUnpause == Spec => FireNeverUnpauses
<1> DEFINE lifted(k) ==
      /\ Present(k) /\ registry[k].paused /\ registry'[k].run # Nil
      /\ ~registry'[k].paused
    onPurpose == \E t \in Threads : thread[t].pc = "install" /\ ~thread[t].job.triggered
<1>1. ASSUME Inductive, [Next]_vars, NEW j \in Keys, lifted(j)
      PROVE  onPurpose
  <2>1. Untouched \/ Amended \/ Removed \/ Installed \/ DaemonGone
    BY <1>1, RegistrySteps DEF Inductive
  <2>2. CASE Untouched
    BY <1>1, <2>2 DEF Untouched
  <2>3. CASE Amended
    <3>1. PICK k \in Keys, f \in Entry : Amends(registry[k], f) /\ UpdateInfo(k, f)
      BY <2>3 DEF Amended
    <3>2. registry'[j] = registry[j] \/ (j = k /\ registry'[j] = f)
      BY <1>1, <3>1 DEF UpdateInfo, Inductive, TypeOK
    <3> QED
      BY <1>1, <3>1, <3>2 DEF Amends
  <2>4. CASE Removed
    <3>1. registry'[j] = registry[j] \/ registry'[j] = Absent
      BY <1>1, <2>4 DEF Removed, Inductive, TypeOK
    <3> QED
      BY <1>1, <3>1, KeyTypes
  <2>5. CASE Installed
    <3>a. PICK t \in Threads :
            thread[t].pc = "install" /\ \E e \in Replaceable(t) : InstallOver(t, e)
      BY <2>5 DEF Installed
    <3>1. PICK e \in Replaceable(t) :
            thread[t].pc = "install" /\ InstallOver(t, e)
      BY <3>a
    <3> DEFINE k == cronKey(thread[t].job.app)
    <3>2. registry' = [i \in Keys |-> IF i = k THEN registry'[k]
                       ELSE IF i = e THEN Absent ELSE registry[i]]
      BY <1>1, <3>1, InstallSteps
    <3>3. \/ ~Present(k)
          \/ e = k /\ ~(registry[e].paused /\ thread[t].job.triggered)
      BY <1>1, <3>1, InstallSteps
    <3>4. j = k \/ registry'[j] = Absent \/ registry'[j] = registry[j]
      BY <3>2
    <3>5. j = k
      BY <1>1, <3>4, KeyTypes
    <3>6. ~thread[t].job.triggered
      BY <1>1, <3>3, <3>5
    <3> QED
      BY <3>1, <3>6
  <2>6. CASE DaemonGone
    BY <1>1, <2>6, KeyTypes DEF DaemonGone
  <2> QED
    BY <2>1, <2>2, <2>3, <2>4, <2>5, <2>6
<1>2. Inductive /\ [Next]_vars =>
        [\A k \in Keys :
           Present(k) /\ registry[k].paused /\ Present(k)' /\ ~registry'[k].paused =>
             \E t \in Threads : thread[t].pc = "install" /\ ~thread[t].job.triggered]_vars
  BY <1>1 DEF Present
<1> QED
  BY <1>2, InitInductive, NextInductive, PTL DEF Spec, FireNeverUnpauses

-----------------------------------------------------------------------------
(* Identity.                                                               *)

(* No two tasks share an ID and none has one that was not issued, whatever *)
(* starts, moves between namespaces, fires and deletes overlap             *)
(* (launchProcessWith): `pm2 stop 3' reaches one task.                     *)
THEOREM IDsAreUnique == Spec => []UniqueIDs
<1>1. Init => UniqueIDs
  <2>1. Init => \A k \in Keys : registry[k].run = Nil
    BY KeyTypes DEF Init
  <2> QED
    BY <2>1 DEF UniqueIDs, Registered
<1>2. Inductive /\ UniqueIDs /\ [Next]_vars => UniqueIDs'
  <2> SUFFICES ASSUME Inductive, UniqueIDs, [Next]_vars PROVE UniqueIDs'
    OBVIOUS
  <2>0. UniqueIDs' = (\A i, j \in {k \in Keys : registry'[k].run # Nil} :
                        /\ registry'[j].id < nextID'
                        /\ registry'[i].id = registry'[j].id => i = j)
    BY DEF UniqueIDs, Registered
  <2>1. Untouched \/ Amended \/ Removed \/ Installed \/ DaemonGone
    BY RegistrySteps DEF Inductive
  <2>2. \A i, j \in Keys : registry[i].run # Nil /\ registry[j].run # Nil =>
          /\ registry[j].id < nextID
          /\ registry[i].id = registry[j].id => i = j
    BY DEF UniqueIDs, Registered
  <2>a. nextID \in Nat /\ \A j \in Keys : registry[j].id \in Nat
    BY DEF Inductive, TypeOK, Entry
  <2>3. CASE Untouched
    BY <2>0, <2>2, <2>3 DEF Untouched
  <2>4. CASE Amended
    <3>1. PICK k \in Keys, f \in Entry : Amends(registry[k], f) /\ UpdateInfo(k, f)
      BY <2>4 DEF Amended
    <3>2. \A j \in Keys : registry'[j].run = registry[j].run
                          /\ registry'[j].id = registry[j].id
      BY <3>1 DEF UpdateInfo, Inductive, TypeOK, Amends
    <3> QED
      BY <2>0, <2>2, <2>4, <3>2 DEF Amended
  <2>5. CASE Removed
    <3>1. \A j \in Keys : registry'[j] = registry[j] \/ registry'[j] = Absent
      BY <2>5 DEF Removed, Inductive, TypeOK
    <3> QED
      BY <2>0, <2>2, <2>5, <3>1, KeyTypes DEF Removed
  <2>6. CASE Installed
    <3>a. PICK t \in Threads :
            thread[t].pc = "install" /\ \E e \in Replaceable(t) : InstallOver(t, e)
      BY <2>6 DEF Installed
    <3>1. PICK e \in Replaceable(t) :
            thread[t].pc = "install" /\ InstallOver(t, e)
      BY <3>a
    <3> DEFINE k == cronKey(thread[t].job.app)
    <3>2. /\ k \in Keys
          /\ registry' = [i \in Keys |-> IF i = k THEN registry'[k]
                          ELSE IF i = e THEN Absent ELSE registry[i]]
          /\ \/ /\ e = NoKey /\ ~Present(k)
                /\ registry'[k].id = nextID /\ nextID' = nextID + 1
             \/ /\ e \in Keys /\ Present(e)
                /\ registry'[k].id = registry[e].id /\ nextID' = nextID
      BY <3>1, InstallSteps
    <3> HIDE DEF k
    <3>3. \A j \in Keys : registry'[j].run # Nil /\ j # k =>
            j # e /\ registry'[j] = registry[j]
      BY <3>2, KeyTypes
    <3>4. CASE registry'[k].id = nextID /\ nextID' = nextID + 1
      BY <2>0, <2>2, <2>a, <3>2, <3>3, <3>4
    <3>5. CASE /\ e \in Keys /\ Present(e)
               /\ registry'[k].id = registry[e].id /\ nextID' = nextID
      BY <2>0, <2>2, <2>a, <3>2, <3>3, <3>5 DEF Present
    <3> QED
      BY <3>2, <3>4, <3>5
  <2>7. CASE DaemonGone
    <3>1. \A k \in Keys : registry'[k].run = Nil
      BY <2>7, KeyTypes DEF DaemonGone
    <3> QED
      BY <2>0, <3>1
  <2> QED
    BY <2>1, <2>3, <2>4, <2>5, <2>6, <2>7
<1> QED
  BY <1>1, <1>2, InitInductive, NextInductive, PTL DEF Spec

(* The registry hands out, keeps, moves and forgets numbers exactly as     *)
(* TaskIdentity allows: the process manager implements it (NewEntry and    *)
(* the removal of the old key in launchProcessWith).                       *)
THEOREM KeepsIdentity == Spec => IdentityIsKept
<1> DEFINE ids == [k \in Keys |-> IF Present(k) THEN registry[k].id ELSE -1]
           idsAfter == [k \in Keys |-> IF registry'[k].run # Nil
                                       THEN registry'[k].id ELSE -1]
<1>1. Init => Identity!IdentityInit
  <2>1. Init => \A k \in Keys : ~Present(k)
    BY KeyTypes DEF Init, Present
  <2>2. Init => nextID = 0
    BY DEF Init
  <2> QED
    BY <2>1, <2>2 DEF Identity!IdentityInit, Identity!None
<1>2. ASSUME Inductive, [Next]_vars
      PROVE  \/ idsAfter = ids /\ nextID' = nextID
             \/ \E k \in Keys : /\ ids[k] = -1 /\ nextID' = nextID + 1
                                /\ idsAfter = [ids EXCEPT ![k] = nextID]
             \/ \E k \in Keys : /\ ids[k] # -1 /\ nextID' = nextID
                                /\ idsAfter = [ids EXCEPT ![k] = -1]
             \/ \E j, k \in Keys :
                  /\ ids[j] # -1 /\ ids[k] = -1 /\ nextID' = nextID
                  /\ idsAfter = [ids EXCEPT ![j] = -1, ![k] = ids[j]]
             \/ idsAfter = [k \in Keys |-> -1] /\ nextID' = 0
  <2>1. Untouched \/ Amended \/ Removed \/ Installed \/ DaemonGone
    BY <1>2, RegistrySteps DEF Inductive
  <2>2. \A j \in Keys : registry[j].id \in Nat
    BY <1>2 DEF Inductive, TypeOK, Entry
  <2>3. CASE Untouched
    BY <2>3 DEF Untouched, Present
  <2>4. CASE Amended
    <3>1. PICK k \in Keys, f \in Entry : Amends(registry[k], f) /\ UpdateInfo(k, f)
      BY <2>4 DEF Amended
    <3>2. \A j \in Keys : registry'[j].run = registry[j].run
                          /\ registry'[j].id = registry[j].id
      BY <1>2, <3>1 DEF UpdateInfo, Inductive, TypeOK, Amends
    <3>3. idsAfter = ids
      BY <3>2 DEF Present
    <3> QED
      BY <2>4, <3>3 DEF Amended
  <2>5. CASE Removed
    <3>1. PICK k \in Keys : registry' = [registry EXCEPT ![k] = Absent]
      BY <2>5 DEF Removed
    <3>2. idsAfter = [ids EXCEPT ![k] = -1]
      BY <1>2, <3>1, KeyTypes DEF Inductive, TypeOK, Present
    <3>3. ids[k] = -1 => idsAfter = ids
      BY <3>2
    <3> QED
      BY <2>5, <3>2, <3>3 DEF Removed
  <2>6. CASE Installed
    <3>a. PICK t \in Threads :
            thread[t].pc = "install" /\ \E e \in Replaceable(t) : InstallOver(t, e)
      BY <2>6 DEF Installed
    <3>1. PICK e \in Replaceable(t) :
            thread[t].pc = "install" /\ InstallOver(t, e)
      BY <3>a
    <3> DEFINE k == cronKey(thread[t].job.app)
    <3>2. /\ k \in Keys
          /\ registry' = [i \in Keys |-> IF i = k THEN registry'[k]
                          ELSE IF i = e THEN Absent ELSE registry[i]]
          /\ registry'[k].run \in Launches
          /\ \/ /\ e = NoKey /\ ~Present(k)
                /\ registry'[k].id = nextID /\ nextID' = nextID + 1
             \/ /\ e \in Keys /\ Present(e) /\ (Present(k) => e = k)
                /\ registry'[k].id = registry[e].id /\ nextID' = nextID
      BY <1>2, <3>1, InstallSteps
    <3> HIDE DEF k
    <3>3. idsAfter = [j \in Keys |-> IF j = k THEN registry'[k].id
                                     ELSE IF j = e THEN -1 ELSE ids[j]]
      BY <3>2, KeyTypes DEF Present
    <3>4. CASE e = NoKey
      <4>1. idsAfter = [ids EXCEPT ![k] = nextID] /\ ids[k] = -1
            /\ nextID' = nextID + 1
        BY <3>2, <3>3, <3>4, KeyTypes
      <4> QED
        BY <3>2, <4>1
    <3>5. CASE e = k
      <4>1. nextID' = nextID /\ registry'[k].id = registry[k].id /\ Present(k)
        BY <3>2, <3>5, KeyTypes
      <4>2. idsAfter = ids
        BY <3>2, <3>3, <3>5, <4>1
      <4> QED
        BY <4>1, <4>2
    <3>6. CASE e # NoKey /\ e # k
      <4>1. e \in Keys /\ ids[e] = registry[e].id /\ ids[k] = -1
            /\ nextID' = nextID /\ registry'[k].id = registry[e].id
        BY <3>2, <3>6
      <4>2. idsAfter = [ids EXCEPT ![e] = -1, ![k] = ids[e]]
        BY <3>2, <3>3, <3>6, <4>1
      <4>3. ids[e] # -1
        BY <2>2, <4>1
      <4> QED
        BY <3>2, <4>1, <4>2, <4>3
    <3> QED
      BY <3>4, <3>5, <3>6
  <2>7. CASE DaemonGone
    BY <2>7, KeyTypes DEF DaemonGone
  <2> QED
    BY <2>1, <2>3, <2>4, <2>5, <2>6, <2>7
<1>3. Inductive /\ [Next]_vars =>
        [Identity!IdentityNext]_<<[k \in Keys |-> IF Present(k) THEN registry[k].id
                                                  ELSE -1], nextID>>
  BY <1>2 DEF Present, Identity!IdentityNext, Identity!Admit, Identity!Forget,
              Identity!Move, Identity!Reset, Identity!None
<1> QED
  BY <1>1, <1>3, InitInductive, NextInductive, PTL
     DEF Spec, IdentityIsKept, Identity!IdentitySpec
=============================================================================
