---------------------- MODULE ProcessManagerChildProofs ----------------------
(* What holds of the children under every interleaving of handlers, fires  *)
(* and exits, for every set of tasks and requests.  A launch belongs to    *)
(* the handler that forked it until its entry is installed; from then on a *)
(* goroutine waits for it (launchProcessWith, executor.Start, Watch, Stop).*)
EXTENDS ProcessManagerProofs

-----------------------------------------------------------------------------
(* What a handler may become.                                              *)

children == <<child, fswatch, watching, nextLaunch>>

\* Where a handler has a child to stop, and where it has stopped it.
Holding == {"guard", "unschedule", "mark", "wait", "settle", "suspend", "remove"}
Waited == {"settle", "suspend", "remove"}

\* Every handler that is about a child to stop knows which.
Holds == \A t \in Threads : thread[t].pc \in Holding => thread[t].mp # Nil

\* No handler outlives the daemon.
Down == ~up => Quiet

\* The launches a handler can get hold of.
Reach(t) == thread[t].todo \union {registry[k].run : k \in Registered(registry)}

\* The four ways in which stopProcess is done with the child in hand.
StopDone(m) ==
  \/ child[m] \notin {"running", "termed"}
  \/ child[m] = "termed" /\ child' = [child EXCEPT ![m] = "killed"]
  \/ watching[m] # "on"

\* What a handler becomes, unless it launches: it takes hold of what it can
\* reach, and claims that a child was stopped only when it was.
MayBecome(t, s) ==
  /\ s.pc # "install"
  /\ s.mp \in {Nil, thread[t].mp} \union Reach(t)
  /\ s.todo \subseteq Reach(t)
  /\ s.pc \in Holding => s.mp # Nil
  /\ s.pc \in Waited =>
       /\ s.mp = thread[t].mp
       /\ thread[t].pc \in Waited \/ StopDone(s.mp)

Moves(t) ==
  /\ thread[t].pc # "install"
  /\ \E s : Become(t, s) /\ MayBecome(t, s)

(* A handler that goes on elsewhere keeps what it has in hand.             *)
LEMMA GotoMoves ==
  ASSUME TypeOK, NEW t \in Threads, NEW label \in Labels, Goto(t, label),
         thread[t].pc # "install", label # "install",
         label \in Holding => thread[t].mp # Nil,
         label \in Waited => thread[t].pc \in Waited \/ StopDone(thread[t].mp)
  PROVE  Moves(t)
<1> DEFINE s == [thread[t] EXCEPT !.pc = label]
<1>1. thread[t] \in Thread
  BY DEF TypeOK
<1>2. s.pc = label /\ s.mp = thread[t].mp /\ s.todo = thread[t].todo
  BY <1>1 DEF Thread
<1>3. Become(t, s)
  BY DEF Become, Goto
<1> HIDE DEF s
<1>4. MayBecome(t, s)
  BY <1>2 DEF MayBecome, Reach
<1> QED
  BY <1>2, <1>3, <1>4 DEF Moves

(* A handler that returns has nothing in hand.                             *)
LEMMA IdleMoves ==
  ASSUME TypeOK, NEW t \in Threads
  PROVE  MayBecome(t, Idle)
  BY DEF MayBecome, Idle, Holding, Waited

(* The handler steps that stop a child.                                    *)
LEMMA StopMoves ==
  ASSUME TypeOK, Holds, NEW t \in Threads,
         \/ Unschedule(t) \/ Mark(t) \/ Wait(t) \/ StopTimeout(t) \/ Settle(t)
         \/ Suspend(t) \/ Remove(t)
  PROVE  Moves(t)
<1> DEFINE mp == thread[t].mp
<1>a. thread[t].pc \in Holding => mp # Nil
  BY DEF Holds
<1>1. CASE Unschedule(t)
  BY <1>1, <1>a, GotoMoves DEF Unschedule, At, Labels, Holding, Waited
<1>2. CASE Mark(t)
  BY <1>2, <1>a, GotoMoves DEF Mark, At, Labels, Holding, Waited, StopDone
<1>3. CASE Wait(t)
  BY <1>3, <1>a, GotoMoves DEF Wait, At, Labels, Holding, Waited, StopDone
<1>4. CASE StopTimeout(t)
  BY <1>4, <1>a, GotoMoves DEF StopTimeout, At, Labels, Holding, Waited, StopDone
<1>5. CASE Settle(t)
  <2>1. AfterStop(thread[t].op) \in {"suspend", "remove", "next", "fork"}
    BY DEF AfterStop
  <2> QED
    BY <1>5, <1>a, <2>1, GotoMoves DEF Settle, At, Labels, Holding, Waited
<1>6. CASE Suspend(t) \/ Remove(t)
  BY <1>6, <1>a, GotoMoves DEF Suspend, Remove, At, Labels, Holding, Waited
<1> QED
  BY <1>1, <1>2, <1>3, <1>4, <1>5, <1>6

(* The handler steps that neither stop a child nor launch one.             *)
LEMMA QuietMoves ==
  ASSUME TypeOK, Holds, NEW t \in Threads,
         \/ RestartNext(t) \/ ResumeNext(t) \/ StopNext(t) \/ TargetsDone(t)
         \/ Lookup(t) \/ StartAppDone(t) \/ ForkFails(t) \/ Guard(t) \/ Outcome(t)
         \/ AutoSave(t) \/ Snapshot(t) \/ Truncate(t) \/ Write(t)
         \/ Suppress(t) \/ Replay(t) \/ Drained(t)
  PROVE  Moves(t)
<1> DEFINE th == thread[t]
<1>a. th \in Thread /\ Nil \notin th.todo
  BY KeyTypes DEF TypeOK, Thread
<1>b. th.pc \in Holding => th.mp # Nil
  BY DEF Holds
<1>c. th.pc # "install"
  BY DEF RestartNext, ResumeNext, StopNext, TargetsDone, Lookup, StartAppDone,
         ForkFails, Guard, Outcome, AutoSave, Snapshot, Truncate, Write, Suppress,
         Replay, Drained, At
<1>d. \A s : Become(t, s) /\ MayBecome(t, s) => Moves(t)
  BY <1>c DEF Moves
<1>e. Become(t, Idle) => Moves(t)
  BY <1>d, IdleMoves
<1>g. \A label \in {"next", "snapshot", "write", "replay"} :
        Goto(t, label) => Moves(t)
  BY <1>c, GotoMoves DEF Labels, Holding, Waited
<1>1. CASE RestartNext(t)
  <2>1. PICK m \in th.todo :
          \/ Become(t, [th EXCEPT !.todo = @ \ {m}, !.mp = m,
                          !.pc = "unschedule",
                          !.job = [NoJob EXCEPT !.app = registry[key[m]].app,
                                                !.triggered = TRUE]])
          \/ Become(t, [th EXCEPT !.todo = @ \ {m}])
    BY <1>1 DEF RestartNext
  <2>2. MayBecome(t, [th EXCEPT !.todo = @ \ {m}, !.mp = m, !.pc = "unschedule",
                        !.job = [NoJob EXCEPT !.app = registry[key[m]].app,
                                              !.triggered = TRUE]])
    BY <1>a DEF MayBecome, Reach, Thread, Waited
  <2>3. MayBecome(t, [th EXCEPT !.todo = @ \ {m}])
    BY <1>1, <1>a DEF RestartNext, At, MayBecome, Thread, Holding, Waited, Reach
  <2> QED
    BY <1>d, <2>1, <2>2, <2>3
<1>2. CASE ResumeNext(t)
  <2>1. PICK m \in th.todo :
          \/ Become(t, [th EXCEPT !.todo = @ \ {m}, !.pc = "fork",
                          !.job = [NoJob EXCEPT !.app = registry[key[m]].app]])
          \/ Become(t, [th EXCEPT !.todo = @ \ {m}])
    BY <1>2 DEF ResumeNext
  <2>2. MayBecome(t, [th EXCEPT !.todo = @ \ {m}, !.pc = "fork",
                        !.job = [NoJob EXCEPT !.app = registry[key[m]].app]])
    BY <1>a DEF MayBecome, Thread, Holding, Waited, Reach
  <2>3. MayBecome(t, [th EXCEPT !.todo = @ \ {m}])
    BY <1>2, <1>a DEF ResumeNext, At, MayBecome, Thread, Holding, Waited, Reach
  <2> QED
    BY <1>d, <2>1, <2>2, <2>3
<1>3. CASE StopNext(t)
  <2>1. PICK m \in th.todo :
          Become(t, [th EXCEPT !.todo = @ \ {m}, !.mp = m, !.pc = "unschedule"])
    BY <1>3 DEF StopNext
  <2>2. MayBecome(t, [th EXCEPT !.todo = @ \ {m}, !.mp = m, !.pc = "unschedule"])
    BY <1>a DEF MayBecome, Reach, Thread, Waited
  <2> QED
    BY <1>d, <2>1, <2>2
<1>4. CASE TargetsDone(t)
  <2> DEFINE over == [th EXCEPT !.mp = Nil, !.job = NoJob]
  <2>1. \/ Become(t, [over EXCEPT !.pc = "drain"])
        \/ Become(t, Idle)
        \/ Become(t, [over EXCEPT !.pc = "outcome", !.outcome = "ok"])
        \/ Become(t, [over EXCEPT !.pc = "autosave"])
    BY <1>4 DEF TargetsDone, Return
  <2>2. /\ MayBecome(t, [over EXCEPT !.pc = "drain"])
        /\ MayBecome(t, [over EXCEPT !.pc = "outcome", !.outcome = "ok"])
        /\ MayBecome(t, [over EXCEPT !.pc = "autosave"])
    BY <1>a DEF MayBecome, Thread, Holding, Waited, Reach
  <2> HIDE DEF over
  <2> QED
    BY <1>d, <1>e, <2>1, <2>2
<1>5. CASE Lookup(t)
  <2> DEFINE launch == [th EXCEPT !.job.app = Head(th.rest), !.pc = "fork"]
  <2>1. \/ Become(t, launch)
        \/ \E k \in Registered(registry) :
             Become(t, [launch EXCEPT !.mp = registry[k].run, !.pc = "unschedule"])
        \/ Become(t, [th EXCEPT !.rest = <<>>])
    <3>1. FindExisting(registry, Head(th.rest)) \subseteq Registered(registry)
      BY FoundIsRegistered
    <3> QED
      BY <1>5, <3>1 DEF Lookup
  <2>2. /\ launch.pc = "fork" /\ launch.mp = th.mp /\ launch.todo = th.todo
        /\ DOMAIN launch = DOMAIN th /\ "mp" \in DOMAIN th /\ "pc" \in DOMAIN th
    BY <1>a DEF Thread
  <2> HIDE DEF launch
  <2>3. MayBecome(t, launch)
    BY <2>2 DEF MayBecome, Holding, Waited, Reach
  <2>4. \A k \in Registered(registry) :
          MayBecome(t, [launch EXCEPT !.mp = registry[k].run, !.pc = "unschedule"])
    BY <2>2 DEF MayBecome, Reach, Waited, Registered
  <2>5. MayBecome(t, [th EXCEPT !.rest = <<>>])
    BY <1>5, <1>a DEF Lookup, At, MayBecome, Thread, Holding, Waited, Reach
  <2> QED
    BY <1>d, <2>1, <2>3, <2>4, <2>5
<1>6. CASE StartAppDone(t)
  <2>1. \/ Become(t, [th EXCEPT !.job = NoJob, !.pc = "autosave"])
        \/ Goto(t, "replay") \/ Become(t, Idle)
    BY <1>6, Zenon DEF StartAppDone, Return
  <2>2. MayBecome(t, [th EXCEPT !.job = NoJob, !.pc = "autosave"])
    BY <1>a DEF MayBecome, Thread, Holding, Waited, Reach
  <2> QED
    BY <1>d, <1>e, <1>g, <2>1, <2>2
<1>7. CASE ForkFails(t)
  <2>1. \/ Become(t, [th EXCEPT !.rest = <<>>, !.pc = "lookup"])
        \/ Goto(t, "next")
        \/ Become(t, [th EXCEPT !.outcome = "failed", !.pc = "outcome"])
        \/ Become(t, Idle)
    BY <1>7 DEF ForkFails, Return
  <2>2. /\ MayBecome(t, [th EXCEPT !.rest = <<>>, !.pc = "lookup"])
        /\ MayBecome(t, [th EXCEPT !.outcome = "failed", !.pc = "outcome"])
    BY <1>a DEF MayBecome, Thread, Holding, Waited, Reach
  <2> QED
    BY <1>d, <1>e, <1>g, <2>1, <2>2
<1>8. CASE Guard(t)
  <2>1. \/ Become(t, [th EXCEPT !.outcome = "skipped", !.pc = "outcome"])
        \/ Become(t, [th EXCEPT !.pc = "unschedule"])
    BY <1>8 DEF Guard
  <2>2. MayBecome(t, [th EXCEPT !.outcome = "skipped", !.pc = "outcome"])
    BY <1>a DEF MayBecome, Thread, Holding, Waited, Reach
  <2>3. th.mp # Nil
    BY <1>8, <1>b DEF Guard, At, Holding
  <2>4. MayBecome(t, [th EXCEPT !.pc = "unschedule"])
    BY <1>a, <2>3 DEF MayBecome, Reach, Thread, Waited
  <2> QED
    BY <1>d, <2>1, <2>2, <2>4
<1>9. CASE Outcome(t)
  BY <1>9, <1>e DEF Outcome, Return
<1>10. CASE AutoSave(t) \/ Write(t)
  <2>1. MayBecome(t, [th EXCEPT !.image = {}, !.pc = "replay"])
    BY <1>a DEF MayBecome, Thread, Holding, Waited, Reach
  <2>2. \/ Become(t, [th EXCEPT !.image = {}, !.pc = "replay"])
        \/ Become(t, Idle) \/ Goto(t, "snapshot")
    BY <1>10, Zenon DEF AutoSave, Write, Finish, Return
  <2> QED
    BY <1>d, <1>e, <1>g, <2>1, <2>2
<1>11. CASE Snapshot(t)
  <2>1. MayBecome(t, [th EXCEPT !.image = SnapshotAppConfigs, !.pc = "truncate"])
    BY <1>a DEF MayBecome, Thread, Holding, Waited, Reach
  <2> QED
    BY <1>11, <1>d, <2>1 DEF Snapshot
<1>12. CASE Truncate(t) \/ Suppress(t)
  BY <1>12, <1>g DEF Truncate, Suppress
<1>20. CASE Drained(t)
  <2>1. /\ MayBecome(t, [th EXCEPT !.pc = "exit", !.outcome = "ok"])
        /\ MayBecome(t, [th EXCEPT !.pc = "exit", !.outcome = "failed"])
    BY <1>a DEF MayBecome, Thread, Holding, Waited, Reach
  <2> QED
    BY <1>20, <1>d, <2>1 DEF Drained
<1>13. CASE Replay(t)
  <2>1. \/ Become(t, Idle)
        \/ \E e \in th.replay :
             Become(t, [th EXCEPT !.replay = @ \ {e}, !.rest = <<e.app>>,
                          !.launched = FALSE, !.job.paused = SavedPause(e),
                          !.pc = "lookup"])
    BY <1>13 DEF Replay, Return
  <2>2. \A e \in th.replay :
          MayBecome(t, [th EXCEPT !.replay = @ \ {e}, !.rest = <<e.app>>,
                          !.launched = FALSE, !.job.paused = SavedPause(e),
                          !.pc = "lookup"])
    BY <1>a DEF MayBecome, Thread, Holding, Waited, Reach
  <2> QED
    BY <1>d, <1>e, <2>1, <2>2
<1> QED
  BY <1>1, <1>2, <1>3, <1>4, <1>5, <1>6, <1>7, <1>8, <1>9, <1>10, <1>11, <1>12,
     <1>13, <1>20

(* The steps that begin a handler.                                         *)
LEMMA BeginMoves ==
  ASSUME TypeOK, Down, NEW t \in Threads, Begin(t)
  PROVE  Moves(t) \/ UNCHANGED thread
<1>a. thread[t].pc = "idle" => \A s : Become(t, s) /\ MayBecome(t, s) => Moves(t)
  BY DEF Moves
<1>b. \A target : Pointers(FindByTarget(registry, target)) \subseteq Reach(t)
  BY FoundIsRegistered DEF Pointers, Reach
<1>c. Pointers(Registered(registry)) \subseteq Reach(t)
  BY DEF Pointers, Reach
<1>1. CASE StartApp(t)
  <2>1. PICK r \in StartRequests :
          Become(t, [Idle EXCEPT !.pc = "lookup", !.op = "start", !.rest = r.apps,
                                 !.job.paused = r.paused])
    BY <1>1 DEF StartApp
  <2>2. MayBecome(t, [Idle EXCEPT !.pc = "lookup", !.op = "start", !.rest = r.apps,
                                  !.job.paused = r.paused])
    BY DEF MayBecome, Idle, Holding, Waited
  <2> QED
    BY <1>1, <1>a, <2>1, <2>2 DEF StartApp, At
<1>2. CASE ByName(t)
  <2>1. PICK op, target :
          Become(t, [Idle EXCEPT !.pc = "next", !.op = op,
                                 !.todo = Pointers(FindByTarget(registry, target))])
    BY <1>2 DEF ByName
  <2>2. MayBecome(t, [Idle EXCEPT !.pc = "next", !.op = op,
                        !.todo = Pointers(FindByTarget(registry, target))])
    BY <1>b DEF MayBecome, Idle, Holding, Waited
  <2> QED
    BY <1>2, <1>a, <2>1, <2>2 DEF ByName, At
<1>3. CASE KillAll(t)
  <2>1. MayBecome(t, [Idle EXCEPT !.pc = "next", !.op = "kill",
                                  !.todo = Pointers(Registered(registry))])
    BY <1>c DEF MayBecome, Idle, Holding, Waited
  <2> QED
    BY <1>3, <1>a, <2>1 DEF KillAll, At
<1>4. CASE Save(t)
  BY <1>4, GotoMoves DEF Save, At, Labels, Holding, Waited
<1>5. CASE Resurrect(t) \/ Boot(t)
  <2>1. MayBecome(t, [Idle EXCEPT !.op = "resurrect", !.replay = dump.image,
                                  !.pc = "suppress"])
    BY DEF MayBecome, Idle, Holding, Waited
  <2> QED
    BY <1>5, <1>a, <2>1 DEF Resurrect, Boot, At, Down, Quiet
<1>6. ASSUME NEW k \in Keys, TriggerCron(t, k)
      PROVE  Moves(t)
  <2>1. k \in Registered(registry) /\ registry[k].run # Nil
    BY <1>6 DEF TriggerCron, Present, Registered
  <2>2. MayBecome(t, [Idle EXCEPT !.pc = "guard", !.op = "cron",
                        !.mp = registry[k].run, !.fire = k,
                        !.job = [app |-> schedule[k], paused |-> FALSE,
                                 triggered |-> TRUE, trigger |-> "cron"]])
    BY <2>1 DEF MayBecome, Idle, Reach, Waited
  <2> QED
    BY <1>6, <1>a, <2>2 DEF TriggerCron, At
<1>7. ASSUME NEW k \in Keys, CronRestart(t, k)
      PROVE  Moves(t)
  <2> DEFINE found == FindByTarget(registry, KeyTarget(k))
             fire == [Idle EXCEPT !.op = "cron_restart", !.fire = k]
  <2>1. MayBecome(t, [fire EXCEPT !.outcome = "failed", !.pc = "outcome"])
        /\ MayBecome(t, [fire EXCEPT !.todo = Pointers(found), !.pc = "next"])
    BY <1>b DEF MayBecome, Idle, Holding, Waited
  <2>2. \/ Become(t, [fire EXCEPT !.outcome = "failed", !.pc = "outcome"])
        \/ Become(t, [fire EXCEPT !.todo = Pointers(found), !.pc = "next"])
    BY <1>7 DEF CronRestart
  <2> QED
    BY <1>7, <1>a, <2>1, <2>2 DEF CronRestart, At
<1>8. ASSUME NEW m \in Launches, AutoRestart(t, m)
      PROVE  Moves(t) \/ UNCHANGED thread
  <2>1. MayBecome(t, [Idle EXCEPT !.pc = "fork", !.op = "auto",
                        !.job = [NoJob EXCEPT !.app = registry[key[m]].app]])
    BY DEF MayBecome, Idle, Holding, Waited
  <2> QED
    BY <1>8, <1>a, <2>1 DEF AutoRestart, At
<1>9. ASSUME NEW m \in Launches, Debounced(t, m)
      PROVE  Moves(t)
  <2> DEFINE found == FindByTarget(registry, NameTarget(key[m][2]))
  <2>1. MayBecome(t, [Idle EXCEPT !.pc = "next", !.op = "watch",
                                  !.todo = Pointers(found)])
    BY <1>b DEF MayBecome, Idle, Holding, Waited
  <2> QED
    BY <1>9, <1>a, <2>1, IdleMoves DEF Debounced, At
<1> QED
  BY <1>1, <1>2, <1>3, <1>4, <1>5, <1>6, <1>7, <1>8, <1>9 DEF Begin

-----------------------------------------------------------------------------
(* What happens to the children.                                           *)

\* SIGTERM to a running child, SIGKILL to one that outlived it.
Signalled ==
  /\ \E m \in Launches :
       \/ child[m] = "running" /\ child' = [child EXCEPT ![m] = "termed"]
       \/ child[m] = "termed" /\ child' = [child EXCEPT ![m] = "killed"]
  /\ UNCHANGED <<fswatch, watching, nextLaunch>>

\* stopProcess closes a file watcher.
Closed ==
  /\ \E m \in {Nil} \union Launches : fswatch' = fswatch \ {m}
  /\ UNCHANGED <<child, watching, nextLaunch>>

\* The goroutine of a reaped child goes on.
ended == {"reaped", "noted", "delay", "finished"}
Booked ==
  /\ \E m \in Launches, stage \in ended :
       watching[m] \in ended /\ watching' = [watching EXCEPT ![m] = stage]
  /\ UNCHANGED <<child, fswatch, nextLaunch>>

OnChildren == UNCHANGED children \/ Signalled \/ Closed \/ Booked

(* What a handler that does not launch does to the children.               *)
LEMMA HandlerOnChildren ==
  ASSUME TypeOK, NEW t \in Threads, Step(t) \/ Begin(t),
         ~(Fork(t) \/ Install(t) \/ Exit(t))
  PROVE  OnChildren
<1> DEFINE mp == thread[t].mp
<1>a. mp \in {Nil} \union Launches /\ child \in [Launches -> Children]
  BY DEF TypeOK, Thread
<1>1. CASE Mark(t)
  <2>1. child' = [child EXCEPT ![mp] = IF @ = "running" THEN "termed" ELSE @]
        /\ UNCHANGED <<fswatch, watching, nextLaunch>>
    BY <1>1 DEF Mark, exits
  <2>2. CASE mp \in Launches /\ child[mp] = "running"
    BY <2>1, <2>2 DEF OnChildren, Signalled
  <2>3. CASE ~(mp \in Launches /\ child[mp] = "running")
    <3>1. child' = child
      BY <1>a, <2>1, <2>3
    <3> QED
      BY <2>1, <3>1 DEF OnChildren, children
  <2> QED
    BY <2>2, <2>3
<1>2. CASE StopTimeout(t)
  <2>1. child[mp] = "termed" /\ child' = [child EXCEPT ![mp] = "killed"]
        /\ UNCHANGED <<fswatch, watching, nextLaunch>>
    BY <1>2 DEF StopTimeout, exits
  <2>2. CASE mp \in Launches
    BY <2>1, <2>2 DEF OnChildren, Signalled
  <2>3. CASE mp \notin Launches
    <3>1. child' = child
      BY <1>a, <2>1, <2>3
    <3> QED
      BY <2>1, <3>1 DEF OnChildren, children
  <2> QED
    BY <2>2, <2>3
<1>3. CASE Unschedule(t)
  BY <1>3, <1>a DEF Unschedule, OnChildren, Closed, exits
<1>4. ASSUME NEW m \in Launches, AutoRestart(t, m)
      PROVE  OnChildren
  BY <1>4 DEF AutoRestart, OnChildren, Booked, ended, os
<1>5. CASE Step(t) /\ ~(Mark(t) \/ StopTimeout(t) \/ Unschedule(t))
  <2>1. UNCHANGED <<os, watching>>
    BY <1>5 DEF Step, RestartNext, ResumeNext, StopNext, TargetsDone, Wait, Settle,
                Suspend, Remove, Lookup, StartAppDone, ForkFails, Guard, Outcome,
                AutoSave, Snapshot, Truncate, Write, Suppress, Replay, Drained, exits
  <2> QED
    BY <2>1 DEF OnChildren, children, os
<1>6. CASE Begin(t) /\ ~(\E m \in Launches : AutoRestart(t, m))
  <2>1. UNCHANGED <<os, watching>>
    BY <1>6 DEF Begin, StartApp, ByName, KillAll, Save, Resurrect, TriggerCron,
                CronRestart, Debounced, Boot, exits
  <2> QED
    BY <2>1 DEF OnChildren, children, os
<1> QED
  BY <1>1, <1>2, <1>3, <1>4, <1>5, <1>6

\* What may become of one launch while nobody forks or installs.
Calm(m) ==
  /\ m \in fswatch' => m \in fswatch
  /\ child[m] = "none" => child'[m] = "none"
  /\ child'[m] \in Live => child[m] \in Live
  /\ child'[m] \in {"running", "termed"} => child[m] \in {"running", "termed"}
  /\ \/ watching'[m] = watching[m]
     \/ watching[m] \in ended /\ watching'[m] \in ended
     \/ /\ watching[m] = "on" /\ watching'[m] = "reaped"
        /\ child'[m] = "gone" /\ m \notin fswatch'
     \/ /\ watching[m] = "unmanaged" /\ watching'[m] = "off"
        /\ child'[m] = "gone" /\ m \notin fswatch'

CalmStep == UNCHANGED nextLaunch /\ \A m \in Launches : Calm(m)

(* Signals, closed watchers, exits and their bookkeeping are calm.         *)
LEMMA CalmSteps ==
  ASSUME TypeOK, OnChildren \/ \E m \in Launches : Reap(m) \/ ChildExit(m)
  PROVE  CalmStep
<1>a. child \in [Launches -> Children] /\ watching \in [Launches -> WatchStages]
  BY DEF TypeOK
<1>1. CASE UNCHANGED children
  BY <1>1 DEF children, CalmStep, Calm
<1>2. CASE Signalled
  BY <1>2, <1>a DEF Signalled, CalmStep, Calm, Live
<1>3. CASE Closed
  BY <1>3 DEF Closed, CalmStep, Calm
<1>4. CASE Booked
  BY <1>4, <1>a DEF Booked, CalmStep, Calm
<1>5. ASSUME NEW m \in Launches, Reap(m)
      PROVE  CalmStep
  <2>1. /\ child[m] \in {"ok", "failed"}
        /\ child' = [child EXCEPT ![m] = "gone"] /\ fswatch' = fswatch \ {m}
        /\ watching[m] \in {"on", "unmanaged"}
        /\ watching' = [watching EXCEPT ![m] = IF @ = "on" THEN "reaped" ELSE "off"]
        /\ UNCHANGED nextLaunch
    BY <1>5 DEF Reap
  <2> QED
    BY <1>a, <2>1 DEF CalmStep, Calm, Live
<1>6. ASSUME NEW m \in Launches, ChildExit(m)
      PROVE  CalmStep
  <2>1. PICK end \in {"ok", "failed"} : child' = [child EXCEPT ![m] = end]
    BY <1>6 DEF ChildExit
  <2>2. child[m] \in Live /\ UNCHANGED <<fswatch, watching, nextLaunch>>
    BY <1>6 DEF ChildExit, exits
  <2> QED
    BY <1>a, <2>1, <2>2 DEF CalmStep, Calm, Live
<1> QED
  BY <1>1, <1>2, <1>3, <1>4, <1>5, <1>6 DEF OnChildren

\* No entry gets another launch.
RunsKept == \A k \in Keys : registry'[k].run \in {Nil, registry[k].run}

(* Amendments and removals leave an entry its launch.                      *)
LEMMA RunsAreKept ==
  ASSUME TypeOK, Untouched \/ Amended \/ Removed
  PROVE  RunsKept
<1>a. registry \in [Keys -> Entry]
  BY DEF TypeOK
<1>1. CASE Untouched
  BY <1>1 DEF Untouched, RunsKept
<1>2. CASE Amended
  BY <1>2, <1>a DEF Amended, Amends, UpdateInfo, RunsKept
<1>3. CASE Removed
  BY <1>3, <1>a, KeyTypes DEF Removed, RunsKept
<1> QED
  BY <1>1, <1>2, <1>3

\* Everything but a launch and the end of the daemon.
Carries ==
  /\ CalmStep /\ RunsKept
  /\ UNCHANGED thread \/ \E t \in Threads : Moves(t)
  /\ up' \/ UNCHANGED <<up, thread>>

Launching == \E t \in Threads : Fork(t) \/ Install(t)

(* Every step is one of these.                                             *)
LEMMA ChildSteps ==
  ASSUME TypeOK, Holds, Down, [Next]_vars
  PROVE  Carries \/ Launching \/ DaemonGone
<1>1. ASSUME NEW t \in Threads, Step(t) \/ Begin(t)
      PROVE  Carries \/ Launching \/ DaemonGone
  <2>1. CASE Exit(t)
    BY <2>1 DEF Exit
  <2>2. CASE Fork(t) \/ Install(t)
    BY <2>2 DEF Launching
  <2>3. CASE ~(Fork(t) \/ Install(t) \/ Exit(t))
    <3>1. CalmStep
      BY <1>1, <2>3, HandlerOnChildren, CalmSteps
    <3>2. RunsKept
      BY <1>1, <2>3, HandlerOnRegistry, RunsAreKept
    <3>3. Moves(t) \/ UNCHANGED thread
      BY <1>1, <2>3, StopMoves, QuietMoves, BeginMoves DEF Step
    <3>4. up'
      <4>1. CASE Boot(t)
        BY <4>1 DEF Boot
      <4>2. CASE ~Boot(t)
        <5>1. up
          BY <1>1, <2>3, <4>2
          DEF Step, Begin, RestartNext, ResumeNext, StopNext, TargetsDone,
              Unschedule, Mark, Wait, StopTimeout, Settle, Suspend, Remove, Lookup,
              StartAppDone, ForkFails, Guard, Outcome, AutoSave, Snapshot, Truncate,
              Write, Suppress, Replay, Drained, StartApp, ByName, KillAll, Save,
              Resurrect, TriggerCron, CronRestart, AutoRestart, Debounced, At
        <5>2. UNCHANGED up
          BY <1>1, <2>3, <4>2
          DEF Step, Begin, RestartNext, ResumeNext, StopNext, TargetsDone,
              Unschedule, Mark, Wait, StopTimeout, Settle, Suspend, Remove, Lookup,
              StartAppDone, ForkFails, Guard, Outcome, AutoSave, Snapshot, Truncate,
              Write, Suppress, Replay, Drained, StartApp, ByName, KillAll, Save,
              Resurrect, TriggerCron, CronRestart, AutoRestart, Debounced
        <5> QED
          BY <5>1, <5>2, Zenon
      <4> QED
        BY <4>1, <4>2
    <3> QED
      BY <3>1, <3>2, <3>3, <3>4 DEF Carries
  <2> QED
    BY <2>1, <2>2, <2>3
<1>2. ASSUME NEW m \in Launches, Watcher(m) \/ ChildExit(m) \/ FileChange(m)
      PROVE  Carries
  <2>1. UNCHANGED <<up, thread>>
    BY <1>2 DEF Watcher, Reap, OnProcessExit, RecordRun, ChildExit, FileChange
  <2>2. RunsKept
    BY <1>2, ChildOnRegistry, RunsAreKept
  <2>3. OnChildren \/ Reap(m) \/ ChildExit(m)
    <3>1. CASE OnProcessExit(m)
      BY <3>1 DEF OnProcessExit, OnChildren, Booked, ended, os
    <3>2. CASE RecordRun(m)
      BY <3>2 DEF RecordRun, OnChildren, Booked, ended, os
    <3>3. CASE FileChange(m)
      BY <3>3 DEF FileChange, OnChildren, children, os, exits
    <3> QED
      BY <1>2, <3>1, <3>2, <3>3 DEF Watcher
  <2> QED
    BY <2>1, <2>2, <2>3, CalmSteps DEF Carries
<1>3. CASE Crash
  BY <1>3 DEF Crash
<1>4. CASE UNCHANGED vars
  <2>1. UNCHANGED children /\ UNCHANGED <<up, thread>> /\ Untouched
    BY <1>4 DEF vars, memory, os, exits, children, Untouched
  <2>2. CalmStep /\ RunsKept
    BY <2>1, CalmSteps, RunsAreKept DEF OnChildren
  <2> QED
    BY <2>1, <2>2 DEF Carries
<1> QED
  BY <1>1, <1>2, <1>3, <1>4 DEF Next

-----------------------------------------------------------------------------
(* The inductive invariant.                                                *)

\* A launch between executor.Start and its entry is its handler's.
Pending(m) == \E t \in Threads : thread[t].pc = "install" /\ thread[t].new = m

\* What was not launched has nothing.
Unforked ==
  \A m \in Launches : m >= nextLaunch =>
    m \notin fswatch /\ watching[m] = "off" /\ child[m] = "none"

\* What is being launched is one handler's, and nobody waits for it yet.
Fresh ==
  \A t \in Threads : thread[t].pc = "install" =>
    /\ thread[t].new < nextLaunch
    /\ watching[thread[t].new] = "off"
    /\ NoChild(thread[t].job) =>
         child[thread[t].new] = "none" /\ thread[t].new \notin fswatch
    /\ \A u \in Threads :
         thread[u].pc = "install" /\ thread[u].new = thread[t].new => u = t

\* done is closed after the child was reaped.
Ended == \A m \in Launches : watching[m] \in ended => child[m] \notin Live

\* A goroutine waits for the child of an installed launch, if it has one.
Managed(m) ==
  /\ m < nextLaunch /\ ~Pending(m)
  /\ watching[m] # "unmanaged"
  /\ watching[m] = "off" => child[m] = "none"

\* All that a handler can reach is installed.
AllManaged ==
  /\ \A k \in Keys : registry[k].run # Nil => Managed(registry[k].run)
  /\ \A t \in Threads :
       /\ thread[t].mp # Nil => Managed(thread[t].mp)
       /\ \A m \in thread[t].todo : Managed(m)

ChildInv ==
  Inductive /\ Holds /\ Down /\ Unforked /\ Fresh /\ Ended /\ AllManaged
  /\ WatcherFollowsChild /\ StopWaitsForChild

\* The values of what a handler has in hand, and of the registry's launches.
Typed ==
  /\ \A t \in Threads :
       /\ thread[t] \in Thread
       /\ thread[t].mp \in {Nil} \union Launches
       /\ thread[t].new \in {Nil} \union Launches
       /\ thread[t].todo \subseteq Launches
       /\ thread[t].pc = "install" => thread[t].new \in Launches
  /\ \A k \in Keys : registry[k].run \in {Nil} \union Launches
  /\ child \in [Launches -> Children] /\ watching \in [Launches -> WatchStages]
  /\ \A m \in Launches : m \in Nat
  /\ nextLaunch \in Nat /\ fswatch \subseteq Launches /\ Nil \notin Launches

LEMMA InductiveTyped == ASSUME Inductive PROVE Typed
<1>1. \A m \in Launches : m \in Nat
  BY BoundsAssumption DEF Launches
<1>2. nextLaunch \in Nat
  BY BoundsAssumption DEF Inductive, TypeOK
<1>3. \A t \in Threads : thread[t] \in Thread /\ InHand(thread[t])
  BY DEF Inductive, TypeOK, AllInHand
<1>4. \A t \in Threads :
        /\ thread[t].mp \in {Nil} \union Launches
        /\ thread[t].new \in {Nil} \union Launches
        /\ thread[t].todo \subseteq Launches
        /\ thread[t].pc = "install" => thread[t].new \in Launches
  BY <1>3 DEF Thread, InHand
<1>5. \A k \in Keys : registry[k].run \in {Nil} \union Launches
  BY DEF Inductive, TypeOK, Entry
<1> QED
  BY <1>1, <1>2, <1>3, <1>4, <1>5, KeyTypes DEF Inductive, TypeOK, Typed

(* It holds initially.                                                     *)
LEMMA InitChildInv == Init => ChildInv
<1> SUFFICES ASSUME Init PROVE ChildInv
  OBVIOUS
<1>1. \A t \in Threads : thread[t].pc = "idle" /\ thread[t].mp = Nil /\ thread[t].todo = {}
  BY DEF Init, Idle
<1>2. \A k \in Keys : registry[k].run = Nil
  BY KeyTypes DEF Init
<1>3. \A m \in Launches : watching[m] = "off" /\ child[m] = "none" /\ m \notin fswatch
  BY DEF Init
<1>4. Inductive /\ up
  BY InitInductive DEF Init
<1> QED
  BY <1>1, <1>2, <1>3, <1>4 DEF ChildInv, Holds, Down, Unforked, Fresh, Ended, ended,
     AllManaged, WatcherFollowsChild, StopWaitsForChild, Init, Holding

(* The end of the daemon leaves no handler, no entry and no watcher.       *)
LEMMA GoneChildInv ==
  ASSUME ChildInv, Inductive', DaemonGone
  PROVE  ChildInv'
<1>1. \A t \in Threads :
        thread'[t].pc = "idle" /\ thread'[t].mp = Nil /\ thread'[t].todo = {}
  BY DEF DaemonGone, Idle
<1>2. \A k \in Keys : registry'[k].run = Nil
  BY KeyTypes DEF DaemonGone
<1>3. /\ \A m \in Launches : watching'[m] = "off" /\ m \notin fswatch'
      /\ UNCHANGED <<child, nextLaunch>>
  BY DEF DaemonGone
<1>4. Holds' /\ Down' /\ Fresh' /\ StopWaitsForChild'
  BY <1>1 DEF Holds, Holding, Down, Quiet, Fresh, StopWaitsForChild
<1>5. Unforked' /\ Ended' /\ WatcherFollowsChild'
  <2>1. fswatch' = {}
    BY DEF DaemonGone
  <2> QED
    BY <1>3, <2>1 DEF ChildInv, Unforked, Ended, ended, WatcherFollowsChild
<1>6. AllManaged'
  BY <1>1, <1>2 DEF AllManaged
<1> QED
  BY <1>4, <1>5, <1>6 DEF ChildInv

\* The handlers in launchProcessWith stay there, and nobody joins them.
SameLaunches ==
  \A u \in Threads :
    /\ thread'[u].pc = "install" <=> thread[u].pc = "install"
    /\ thread[u].pc = "install" => thread'[u] = thread[u]

(* Steps that neither fork nor install.                                    *)
LEMMA CarriesChildInv ==
  ASSUME ChildInv, Inductive', Carries
  PROVE  ChildInv'
<1>a. Typed /\ Typed'
  <2>1. Inductive
    BY DEF ChildInv
  <2>2. Typed
    BY <2>1, InductiveTyped
  <2>3. Inductive' => Typed'
    BY InductiveTyped, PTL
  <2> QED
    BY <2>2, <2>3
<1>b. nextLaunch' = nextLaunch /\ \A m \in Launches : Calm(m)
  BY DEF Carries, CalmStep
<1>c. SameLaunches
  <2>1. CASE UNCHANGED thread
    BY <2>1 DEF SameLaunches
  <2>2. ASSUME NEW t \in Threads, Moves(t)
        PROVE  SameLaunches
    BY <2>2 DEF Moves, Become, MayBecome, SameLaunches, ChildInv, Inductive, TypeOK
  <2> QED
    BY <2>1, <2>2 DEF Carries
<1>d. \A m \in Launches : Pending(m)' <=> Pending(m)
  BY <1>c DEF Pending, SameLaunches
<1>1. Unforked'
  BY <1>a, <1>b DEF ChildInv, Unforked, Calm, Typed, ended
<1>2. Fresh'
  BY <1>a, <1>b, <1>c DEF ChildInv, Fresh, Calm, SameLaunches, Typed, ended
<1>3. Ended'
  BY <1>b DEF ChildInv, Ended, Calm, Live, ended
<1>4. \A m \in Launches : Managed(m) => Managed(m)'
  BY <1>b, <1>d DEF Managed, Calm, ended
<1>5. WatcherFollowsChild'
  <2> SUFFICES ASSUME NEW m \in Launches, m \in fswatch'
               PROVE  watching'[m] \in {"on", "unmanaged"} \/ Pending(m)'
    BY <1>a DEF WatcherFollowsChild, Pending, Typed
  <2>1. watching[m] \in {"on", "unmanaged"} \/ Pending(m)
    BY <1>b DEF ChildInv, WatcherFollowsChild, Calm, Pending
  <2> QED
    BY <1>b, <1>d, <2>1 DEF Calm, ended
<1>6. ASSUME NEW t \in Threads
      PROVE  \A m \in Reach(t) : m \in Launches /\ Managed(m)
  BY <1>a DEF ChildInv, AllManaged, Reach, Typed, Registered
<1>7. ASSUME NEW t \in Threads, Moves(t)
      PROVE  AllManaged' /\ Holds' /\ StopWaitsForChild'
  <2>1. PICK s : Become(t, s) /\ MayBecome(t, s)
    BY <1>7 DEF Moves
  <2>2. \A u \in Threads : thread'[u] = IF u = t THEN s ELSE thread[u]
    BY <2>1 DEF Become, ChildInv, Inductive, TypeOK
  <2>3. (\A k \in Keys : registry[k].run # Nil => Managed(registry[k].run))'
    BY <1>4, <1>a DEF Carries, RunsKept, ChildInv, AllManaged, Typed
  <2>4. \A u \in Threads : (/\ thread[u].mp # Nil => Managed(thread[u].mp)
                            /\ \A m \in thread[u].todo : Managed(m))'
    <3> SUFFICES ASSUME NEW u \in Threads
                 PROVE  (/\ thread[u].mp # Nil => Managed(thread[u].mp)
                         /\ \A m \in thread[u].todo : Managed(m))'
      OBVIOUS
    <3>1. CASE u = t
      BY <1>4, <1>6, <1>a, <2>1, <2>2, <3>1 DEF MayBecome, ChildInv, AllManaged, Typed
    <3>2. CASE u # t
      BY <1>4, <1>a, <2>2, <3>2 DEF ChildInv, AllManaged, Typed
    <3> QED
      BY <3>1, <3>2
  <2>5. Holds'
    BY <2>1, <2>2 DEF ChildInv, Holds, MayBecome
  <2>6. StopWaitsForChild'
    <3> SUFFICES ASSUME NEW u \in Threads, thread'[u].pc \in Waited
                 PROVE  child'[thread'[u].mp] \notin {"running", "termed"}
      BY DEF StopWaitsForChild, Waited
    <3>1. thread'[u].mp = thread[u].mp
      BY <2>1, <2>2 DEF MayBecome
    <3>2. thread[u].mp \in Launches /\ Managed(thread[u].mp)
      BY <1>a, <2>5, <3>1 DEF Holds, Waited, Holding, Typed, ChildInv, AllManaged
    <3>3. CASE thread[u].pc \in Waited
      BY <1>b, <3>1, <3>2, <3>3 DEF ChildInv, StopWaitsForChild, Waited, Calm
    <3>4. CASE thread[u].pc \notin Waited
      <4>1. u = t /\ StopDone(thread[u].mp)
        BY <2>1, <2>2, <3>4 DEF MayBecome
      <4> QED
        BY <1>a, <1>b, <3>1, <3>2, <4>1
        DEF StopDone, ChildInv, Ended, ended, Managed, Calm, Live, Typed, WatchStages
    <3> QED
      BY <3>3, <3>4
  <2> QED
    BY <2>3, <2>4, <2>5, <2>6 DEF AllManaged
<1>8. ASSUME UNCHANGED thread
      PROVE  AllManaged' /\ Holds' /\ StopWaitsForChild'
  <2>1. AllManaged'
    BY <1>4, <1>8, <1>a DEF Carries, RunsKept, ChildInv, AllManaged, Typed
  <2>2. StopWaitsForChild'
    <3> SUFFICES ASSUME NEW u \in Threads, thread[u].pc \in Waited
                 PROVE  child'[thread[u].mp] \notin {"running", "termed"}
      BY <1>8 DEF StopWaitsForChild, Waited
    <3>1. thread[u].mp \in Launches
      BY <1>a DEF ChildInv, Holds, Waited, Holding, Typed
    <3> QED
      BY <1>b, <3>1 DEF ChildInv, StopWaitsForChild, Waited, Calm
  <2> QED
    BY <1>8, <2>1, <2>2 DEF ChildInv, Holds
<1>9. Down'
  BY DEF Carries, ChildInv, Down, Quiet
<1> QED
  BY <1>1, <1>2, <1>3, <1>5, <1>7, <1>8, <1>9 DEF ChildInv, Carries

(* executor.Start: the new launch is the handler's alone.                  *)
LEMMA ForkChildInv ==
  ASSUME ChildInv, Inductive', NEW t \in Threads, Fork(t)
  PROVE  ChildInv'
<1> DEFINE n == nextLaunch
           job == thread[t].job
           s == [thread[t] EXCEPT !.new = n, !.pc = "install"]
<1>a. Typed /\ Typed'
  <2>1. Inductive
    BY DEF ChildInv
  <2>2. Typed
    BY <2>1, InductiveTyped
  <2>3. Inductive' => Typed'
    BY InductiveTyped, PTL
  <2> QED
    BY <2>2, <2>3
<1>b. /\ n \in Launches /\ nextLaunch' = n + 1 /\ thread[t].pc = "fork"
      /\ child' = [child EXCEPT ![n] = IF NoChild(job) THEN "none" ELSE "running"]
      /\ fswatch' = IF job.app.watch /\ ~NoChild(job) THEN fswatch \union {n}
                    ELSE fswatch
      /\ UNCHANGED <<registry, watching, up>> /\ up
  BY DEF Fork, At, memory, exits
<1>c. \A u \in Threads : thread'[u] = IF u = t THEN s ELSE thread[u]
  BY DEF Fork, Become, ChildInv, Inductive, TypeOK
<1>d. /\ s.pc = "install" /\ s.new = n /\ s.job = job
      /\ s.mp = thread[t].mp /\ s.todo = thread[t].todo
  BY <1>a DEF Typed, Thread
<1> HIDE DEF s
<1>e. watching[n] = "off" /\ child[n] = "none" /\ n \notin fswatch
  BY <1>a, <1>b DEF ChildInv, Unforked, Typed
<1>f. \A m \in Launches : m # n => child'[m] = child[m] /\ (m \in fswatch' => m \in fswatch)
  BY <1>a, <1>b DEF Typed
<1>1. Unforked'
  BY <1>a, <1>b, <1>f DEF ChildInv, Unforked, Typed
<1>2. Fresh'
  <2> SUFFICES ASSUME NEW u \in Threads, thread'[u].pc = "install"
               PROVE  /\ thread'[u].new < nextLaunch'
                      /\ watching'[thread'[u].new] = "off"
                      /\ NoChild(thread'[u].job) =>
                           /\ child'[thread'[u].new] = "none"
                           /\ thread'[u].new \notin fswatch'
                      /\ \A v \in Threads :
                           /\ thread'[v].pc = "install"
                           /\ thread'[v].new = thread'[u].new
                           => v = u
    BY DEF Fresh, NoChild
  <2>1. \A v \in Threads \ {t} : thread[v].pc = "install" =>
          /\ thread'[v] = thread[v] /\ thread[v].new \in Launches
          /\ thread[v].new < n /\ thread[v].new # n
    BY <1>a, <1>c DEF ChildInv, Fresh, Typed
  <2>2. CASE u = t
    <3>1. NoChild(job) => child'[n] = "none" /\ n \notin fswatch'
      BY <1>a, <1>b, <1>e DEF Typed
    <3> QED
      BY <1>a, <1>b, <1>c, <1>d, <1>e, <2>1, <2>2, <3>1 DEF Typed
  <2>3. CASE u # t
    <3>1. /\ thread'[u] = thread[u] /\ thread[u].pc = "install"
          /\ thread[u].new \in Launches /\ thread[u].new # n /\ thread[u].new < n
      BY <1>c, <2>1, <2>3
    <3>2. /\ watching[thread[u].new] = "off"
          /\ NoChild(thread[u].job) =>
               child[thread[u].new] = "none" /\ thread[u].new \notin fswatch
          /\ \A v \in Threads :
               thread[v].pc = "install" /\ thread[v].new = thread[u].new => v = u
      BY <3>1 DEF ChildInv, Fresh
    <3>3. thread[u].new < nextLaunch'
      <4>1. thread[u].new \in Nat /\ n \in Nat
        BY <1>a, <3>1 DEF Typed
      <4> QED
        BY <1>b, <3>1, <4>1
    <3>4. \A v \in Threads :
            thread'[v].pc = "install" /\ thread'[v].new = thread'[u].new => v = u
      BY <1>c, <1>d, <3>1, <3>2
    <3> QED
      BY <1>b, <1>f, <3>1, <3>2, <3>3, <3>4
  <2> QED
    BY <2>2, <2>3
<1>3. Ended'
  BY <1>b, <1>e, <1>f DEF ChildInv, Ended, ended
<1>4. \A m \in Launches : Managed(m) => m # n /\ Managed(m)'
  <2> SUFFICES ASSUME NEW m \in Launches, Managed(m) PROVE m # n /\ Managed(m)'
    OBVIOUS
  <2>1. m < n /\ m # n
    BY <1>a DEF Managed, Typed
  <2>2. ~Pending(m)'
    BY <1>c, <1>d, <2>1 DEF Managed, Pending
  <2> QED
    BY <1>a, <1>b, <1>f, <2>1, <2>2 DEF Managed, Typed
<1>5. AllManaged'
  BY <1>4, <1>a, <1>b, <1>c, <1>d DEF ChildInv, AllManaged, Typed
<1>6. WatcherFollowsChild'
  <2> SUFFICES ASSUME NEW m \in Launches, m \in fswatch'
               PROVE  watching'[m] \in {"on", "unmanaged"} \/ Pending(m)'
    BY <1>a DEF WatcherFollowsChild, Pending, Typed
  <2>1. CASE m = n
    BY <1>c, <1>d, <2>1 DEF Pending
  <2>2. CASE m # n
    <3>1. watching[m] \in {"on", "unmanaged"} \/ Pending(m)
      BY <1>f, <2>2 DEF ChildInv, WatcherFollowsChild, Pending
    <3>2. Pending(m) => Pending(m)'
      BY <1>b, <1>c DEF Pending
    <3> QED
      BY <1>b, <3>1, <3>2
  <2> QED
    BY <2>1, <2>2
<1>7. Holds' /\ Down'
  BY <1>b, <1>c, <1>d DEF ChildInv, Holds, Holding, Down
<1>8. StopWaitsForChild'
  <2> SUFFICES ASSUME NEW u \in Threads, thread'[u].pc \in Waited
               PROVE  child'[thread'[u].mp] \notin {"running", "termed"}
    BY DEF StopWaitsForChild, Waited
  <2>1. u # t /\ thread'[u] = thread[u]
    BY <1>c, <1>d DEF Waited
  <2>2. thread[u].mp \in Launches /\ thread[u].mp # n
    BY <1>4, <1>a, <2>1 DEF ChildInv, Holds, Waited, Holding, Typed, AllManaged
  <2> QED
    BY <1>f, <2>1, <2>2 DEF ChildInv, StopWaitsForChild, Waited
<1> QED
  BY <1>1, <1>2, <1>3, <1>5, <1>6, <1>7, <1>8 DEF ChildInv

(* What launchProcessWith does to the launch it installs or discards.      *)
LEMMA InstallOnChildren ==
  ASSUME Inductive, NEW t \in Threads, Install(t)
  PROVE  LET n == thread[t].new
             job == thread[t].job
         IN  /\ thread[t].pc = "install" /\ n \in Launches /\ up
             /\ UNCHANGED <<child, fswatch, nextLaunch, up>>
             /\ \E s : /\ Become(t, s) /\ s.mp = Nil /\ s.pc \notin Holding \union {"install"}
                       /\ s.todo \subseteq thread[t].todo
             /\ \/ /\ watching' = [watching EXCEPT ![n] =
                        IF NoChild(job) THEN "off" ELSE "on"]
                   /\ \A k \in Keys : registry'[k].run \in {Nil, n, registry[k].run}
                \/ /\ watching' = [watching EXCEPT ![n] = "unmanaged"]
                   /\ UNCHANGED registry
<1> DEFINE th == thread[t]
           n == th.new
           job == th.job
           done == [th EXCEPT !.new = Nil, !.mp = Nil]
<1>a. th \in Thread /\ th.pc = "install" /\ n \in Launches /\ up
  BY DEF Inductive, TypeOK, AllInHand, InHand, Install, At
<1>1. UNCHANGED <<child, fswatch, nextLaunch, up>>
  BY DEF Install, os
<1>2. Become(t, Launched(th))
  BY DEF Install
<1>3. /\ Launched(th).mp = Nil /\ Launched(th).todo \subseteq th.todo
      /\ Launched(th).pc \notin Holding \union {"install"}
  <2>1. done.mp = Nil /\ done.todo = th.todo /\ DOMAIN done = DOMAIN th
        /\ {"rest", "launched", "pc", "outcome", "mp", "todo"} \subseteq DOMAIN th
    BY <1>a DEF Thread
  <2> DEFINE looking == [done EXCEPT !.rest = Tail(@), !.launched = TRUE, !.pc = "lookup"]
             reporting == [done EXCEPT !.outcome = "running", !.pc = "outcome"]
             looping == [done EXCEPT !.pc = "next"]
  <2>2. Launched(th) \in {looking, reporting, looping, Idle}
    BY DEF Launched
  <2> HIDE DEF done
  <2>3. /\ looking.mp = Nil /\ looking.todo = th.todo /\ looking.pc = "lookup"
        /\ reporting.mp = Nil /\ reporting.todo = th.todo /\ reporting.pc = "outcome"
        /\ looping.mp = Nil /\ looping.todo = th.todo /\ looping.pc = "next"
    BY <2>1
  <2>4. Idle.mp = Nil /\ Idle.todo = {} /\ Idle.pc = "idle"
    BY DEF Idle
  <2> HIDE DEF looking, reporting, looping
  <2> QED
    BY <2>2, <2>3, <2>4 DEF Holding
<1>4. PICK e \in Replaceable(t) : InstallOver(t, e) \/ Discard(t, e)
  BY DEF Install, Replaceable
<1>5. CASE Discard(t, e)
  BY <1>a, <1>1, <1>2, <1>3, <1>5 DEF Discard, memory
<1>6. CASE InstallOver(t, e)
  <2>1. /\ watching' = [watching EXCEPT ![n] = IF NoChild(job) THEN "off" ELSE "on"]
        /\ registry' = [j \in Keys |-> IF j = cronKey(job.app) THEN NewEntry(job, n, e)
                                       ELSE IF j = e THEN Absent ELSE registry[j]]
    BY <1>6 DEF InstallOver
  <2>2. NewEntry(job, n, e).run = n
    <3> DEFINE base == IF e = NoKey THEN [Absent EXCEPT !.id = nextID] ELSE registry[e]
    <3>1. base \in Entry
      <4>1. CASE e = NoKey
        BY <4>1, KeyTypes DEF Inductive, TypeOK, Entry
      <4>2. CASE e # NoKey
        <5>1. e \in Keys
          BY <4>2, FoundIsRegistered DEF Replaceable, Registered
        <5> QED
          BY <4>2, <5>1 DEF Inductive, TypeOK
      <4> QED
        BY <4>1, <4>2
    <3>2. NewEntry(job, n, e) =
            [base EXCEPT
               !.run = n, !.app = job.app, !.trigger = job.trigger,
               !.status = IF job.paused THEN "paused"
                          ELSE IF NoChild(job) THEN "stopped" ELSE "online",
               !.pid = IF NoChild(job) THEN Nil ELSE n,
               !.stopping = FALSE, !.paused = job.paused]
      BY DEF NewEntry
    <3> HIDE DEF base
    <3> QED
      BY <3>1, <3>2 DEF Entry
  <2>3. \A k \in Keys : registry'[k].run \in {Nil, n, registry[k].run}
    BY <2>1, <2>2, KeyTypes
  <2> QED
    BY <1>a, <1>1, <1>2, <1>3, <2>1, <2>3
<1> QED
  BY <1>4, <1>5, <1>6

(* launchProcessWith: a goroutine waits for what the handler forked.       *)
LEMMA InstallChildInv ==
  ASSUME ChildInv, Inductive', NEW t \in Threads, Install(t)
  PROVE  ChildInv'
<1> DEFINE n == thread[t].new
           job == thread[t].job
<1>a. Inductive /\ Typed /\ Typed'
  <2>1. Inductive
    BY DEF ChildInv
  <2>2. Typed
    BY <2>1, InductiveTyped
  <2>3. Inductive' => Typed'
    BY InductiveTyped, PTL
  <2> QED
    BY <2>1, <2>2, <2>3
<1>b. /\ thread[t].pc = "install" /\ n \in Launches /\ up
      /\ UNCHANGED <<child, fswatch, nextLaunch, up>>
  BY <1>a, InstallOnChildren
<1>c. PICK s : /\ Become(t, s) /\ s.mp = Nil /\ s.pc \notin Holding \union {"install"}
               /\ s.todo \subseteq thread[t].todo
  BY <1>a, InstallOnChildren
<1>d. \A u \in Threads : thread'[u] = IF u = t THEN s ELSE thread[u]
  BY <1>c DEF Become, ChildInv, Inductive, TypeOK
<1>e. \/ /\ watching' = [watching EXCEPT ![n] = IF NoChild(job) THEN "off" ELSE "on"]
         /\ \A k \in Keys : registry'[k].run \in {Nil, n, registry[k].run}
      \/ /\ watching' = [watching EXCEPT ![n] = "unmanaged"]
         /\ UNCHANGED registry
  BY <1>a, InstallOnChildren
<1>f. /\ n < nextLaunch /\ watching[n] = "off" /\ Pending(n)
      /\ NoChild(job) => child[n] = "none" /\ n \notin fswatch
      /\ \A u \in Threads : thread[u].pc = "install" /\ thread[u].new = n => u = t
  BY <1>b DEF ChildInv, Fresh, Pending
<1>g. \A m \in Launches : m # n => watching'[m] = watching[m]
  BY <1>a, <1>e DEF Typed
<1>h. \A m \in Launches : Pending(m)' <=> Pending(m) /\ m # n
  BY <1>c, <1>d, <1>f DEF Pending
<1>1. Unforked'
  <2>1. \A m \in Launches : m >= nextLaunch => m # n
    BY <1>a, <1>f DEF Typed
  <2> QED
    BY <1>b, <1>g, <2>1 DEF ChildInv, Unforked
<1>2. Fresh'
  <2> SUFFICES ASSUME NEW u \in Threads, thread'[u].pc = "install"
               PROVE  /\ thread'[u].new < nextLaunch'
                      /\ watching'[thread'[u].new] = "off"
                      /\ NoChild(thread'[u].job) =>
                           /\ child'[thread'[u].new] = "none"
                           /\ thread'[u].new \notin fswatch'
                      /\ \A v \in Threads :
                           /\ thread'[v].pc = "install"
                           /\ thread'[v].new = thread'[u].new
                           => v = u
    BY DEF Fresh, NoChild
  <2>1. u # t /\ thread'[u] = thread[u] /\ thread[u].pc = "install"
    BY <1>c, <1>d
  <2>2. thread[u].new \in Launches /\ thread[u].new # n
    BY <1>a, <1>f, <2>1 DEF Typed
  <2>3. \A v \in Threads :
          thread'[v].pc = "install" => thread'[v] = thread[v]
    BY <1>c, <1>d
  <2> QED
    BY <1>b, <1>g, <2>1, <2>2, <2>3 DEF ChildInv, Fresh
<1>3. Ended'
  <2>1. watching'[n] \in {"off", "on", "unmanaged"}
    BY <1>a, <1>b, <1>e DEF Typed
  <2> QED
    BY <1>b, <1>g, <2>1 DEF ChildInv, Ended, ended
<1>4. \A m \in Launches : Managed(m) => Managed(m)'
  <2>1. \A m \in Launches : Managed(m) => m # n
    BY <1>f DEF Managed
  <2> QED
    BY <1>b, <1>g, <1>h, <2>1 DEF Managed
<1>5. AllManaged'
  <2>1. (\A k \in Keys : registry[k].run # Nil => Managed(registry[k].run))'
    <3>1. CASE UNCHANGED registry
      BY <1>4, <1>a, <3>1 DEF ChildInv, AllManaged, Typed
    <3>2. CASE /\ watching' = [watching EXCEPT ![n] = IF NoChild(job) THEN "off" ELSE "on"]
               /\ \A k \in Keys : registry'[k].run \in {Nil, n, registry[k].run}
      <4>1. watching'[n] # "unmanaged" /\ (watching'[n] = "off" => child'[n] = "none")
        BY <1>a, <1>b, <1>f, <3>2 DEF Typed
      <4>2. \A m \in Launches : m = n => Managed(m)'
        BY <1>b, <1>f, <1>h, <4>1 DEF Managed
      <4> QED
        BY <1>4, <1>a, <3>2, <4>2 DEF ChildInv, AllManaged, Typed
    <3> QED
      BY <1>e, <3>1, <3>2
  <2>2. \A u \in Threads : (/\ thread[u].mp # Nil => Managed(thread[u].mp)
                            /\ \A m \in thread[u].todo : Managed(m))'
    BY <1>4, <1>a, <1>c, <1>d DEF ChildInv, AllManaged, Typed
  <2> QED
    BY <2>1, <2>2 DEF AllManaged
<1>6. WatcherFollowsChild'
  <2> SUFFICES ASSUME NEW m \in Launches, m \in fswatch
               PROVE  watching'[m] \in {"on", "unmanaged"} \/ Pending(m)'
    BY <1>a, <1>b DEF WatcherFollowsChild, Pending, Typed
  <2>1. CASE m = n
    BY <1>a, <1>b, <1>e, <1>f, <2>1 DEF Typed
  <2>2. CASE m # n
    BY <1>g, <1>h, <2>2 DEF ChildInv, WatcherFollowsChild, Pending
  <2> QED
    BY <2>1, <2>2
<1>7. Holds' /\ Down' /\ StopWaitsForChild'
  BY <1>b, <1>c, <1>d
  DEF ChildInv, Holds, Holding, Down, StopWaitsForChild
<1> QED
  BY <1>1, <1>2, <1>3, <1>5, <1>6, <1>7 DEF ChildInv

(* Every step preserves the invariant.                                     *)
LEMMA NextChildInv == ChildInv /\ [Next]_vars => ChildInv'
<1> SUFFICES ASSUME ChildInv, [Next]_vars PROVE ChildInv'
  OBVIOUS
<1>1. Inductive'
  BY NextInductive DEF ChildInv
<1>2. Carries \/ Launching \/ DaemonGone
  BY ChildSteps DEF ChildInv, Inductive
<1> QED
  BY <1>1, <1>2, CarriesChildInv, ForkChildInv, InstallChildInv, GoneChildInv
  DEF Launching

LEMMA ChildInvHolds == Spec => []ChildInv
  BY InitChildInv, NextChildInv, PTL DEF Spec

-----------------------------------------------------------------------------
(* The theorems.                                                           *)

(* No file watcher outlives its child, and none is left behind by a launch *)
(* that is discarded or by a daemon that dies, however launches, stops and *)
(* exits interleave (executor.Start, stopProcess, executor.Watch).         *)
THEOREM WatchersFollowTheirChild == Spec => []WatcherFollowsChild
<1>1. ChildInv => WatcherFollowsChild
  BY DEF ChildInv
<1> QED
  BY <1>1, ChildInvHolds, PTL

(* stopProcess does not return while the child it was given is only asked  *)
(* to end: it has been waited for or been sent SIGKILL, also when two      *)
(* handlers stop the same task or its entry is replaced meanwhile          *)
(* (executor.Stop).                                                        *)
THEOREM StopsWaitForTheirChild == Spec => []StopWaitsForChild
<1>1. ChildInv => StopWaitsForChild
  BY DEF ChildInv
<1> QED
  BY <1>1, ChildInvHolds, PTL

(* As long as the daemon lives every child that lives has a goroutine that *)
(* will reap it, or a handler about to start one, also when a launch is    *)
(* discarded for a pause or replaces another one (launchProcessWith).  A   *)
(* daemon that dies leaves its children to init.                           *)
THEOREM ChildrenAreReaped == Spec /\ []up => []EveryChildIsReaped
<1>1. Init => EveryChildIsReaped
  BY DEF Init, EveryChildIsReaped, Live
<1>2. ChildInv /\ EveryChildIsReaped /\ [Next]_vars /\ up' => EveryChildIsReaped'
  <2> SUFFICES ASSUME ChildInv, EveryChildIsReaped, [Next]_vars, up',
                      NEW m \in Launches, child'[m] \in Live
               PROVE  watching'[m] \in {"on", "unmanaged"} \/ Pending(m)'
    BY DEF EveryChildIsReaped, Pending
  <2>a. Inductive /\ Typed /\ Typed'
    <3>1. Inductive /\ Inductive'
      BY NextInductive DEF ChildInv
    <3>2. Typed
      BY <3>1, InductiveTyped
    <3>3. Inductive' => Typed'
      BY InductiveTyped, PTL
    <3> QED
      BY <3>1, <3>2, <3>3
  <2>b. child[m] \in Live => watching[m] \in {"on", "unmanaged"} \/ Pending(m)
    BY DEF EveryChildIsReaped, Pending
  <2>c. thread \in [Threads -> Thread]
    BY <2>a DEF Inductive, TypeOK
  <2>1. CASE Carries
    <3>1. Calm(m)
      BY <2>1 DEF Carries, CalmStep
    <3>2. Pending(m) => Pending(m)'
      <4>1. ASSUME NEW t \in Threads, Moves(t)
            PROVE  Pending(m) => Pending(m)'
        BY <2>c, <4>1 DEF Moves, Become, Pending
      <4> QED
        BY <2>1, <4>1 DEF Carries, Pending
    <3> QED
      BY <2>b, <3>1, <3>2 DEF Calm, ended, Live
  <2>2. ASSUME NEW t \in Threads, Fork(t)
        PROVE  watching'[m] \in {"on", "unmanaged"} \/ Pending(m)'
    <3> DEFINE s == [thread[t] EXCEPT !.new = nextLaunch, !.pc = "install"]
    <3>1. \A u \in Threads : thread'[u] = IF u = t THEN s ELSE thread[u]
      BY <2>2, <2>c DEF Fork, Become
    <3>2. s.pc = "install" /\ s.new = nextLaunch /\ thread[t].pc = "fork"
      BY <2>2, <2>c DEF Thread, Fork, At
    <3> HIDE DEF s
    <3>3. CASE m = nextLaunch
      BY <3>1, <3>2, <3>3 DEF Pending
    <3>4. CASE m # nextLaunch
      <4>1. child'[m] = child[m] /\ watching' = watching
        BY <2>2, <2>a, <3>4 DEF Fork, Typed, exits
      <4>2. Pending(m) => Pending(m)'
        BY <3>1, <3>2 DEF Pending
      <4> QED
        BY <2>b, <4>1, <4>2
    <3> QED
      BY <3>3, <3>4
  <2>3. ASSUME NEW t \in Threads, Install(t)
        PROVE  watching'[m] \in {"on", "unmanaged"} \/ Pending(m)'
    <3> DEFINE n == thread[t].new
    <3>1. /\ thread[t].pc = "install" /\ n \in Launches /\ UNCHANGED child
          /\ \/ watching' = [watching EXCEPT ![n] =
                  IF NoChild(thread[t].job) THEN "off" ELSE "on"]
             \/ watching' = [watching EXCEPT ![n] = "unmanaged"]
      BY <2>3, <2>a, InstallOnChildren
    <3>2. NoChild(thread[t].job) => child[n] = "none"
      BY <3>1 DEF ChildInv, Fresh
    <3>3. CASE m = n
      BY <2>a, <3>1, <3>2, <3>3 DEF Typed, Live
    <3>4. CASE m # n
      <4>1. watching'[m] = watching[m] /\ child'[m] = child[m]
        BY <2>a, <3>1, <3>4 DEF Typed
      <4>2. Pending(m) => Pending(m)'
        BY <2>3, <2>c, <3>4 DEF Install, Become, Pending
      <4> QED
        BY <2>b, <4>1, <4>2
    <3> QED
      BY <3>3, <3>4
  <2>4. ~DaemonGone
    BY DEF DaemonGone
  <2> QED
    BY <2>a, <2>1, <2>2, <2>3, <2>4, ChildSteps DEF ChildInv, Inductive, Launching
<1> QED
  BY <1>1, <1>2, ChildInvHolds, PTL DEF Spec
=============================================================================
