---------------------- MODULE ProcessManagerSerialProofs ----------------------
(* What holds as long as the daemon runs one handler at a time: one client *)
(* at a time, and no fire, file watch or relaunch during a command.  The   *)
(* children still end, and their exits are booked, at any moment.  Where   *)
(* handlers overlap most of this is false; the runs show how.              *)
EXTENDS ProcessManagerChildProofs

OneHandler == \A t, u \in Threads : t = u

\* A file gives a name to two namespaces at most, the one it is in and the one
\* a `start' moves it to.  (Of two tasks of one name and one file, a `start'
\* from a third namespace may stop the one in StartApp and replace the other
\* in launchProcessWith: both take what the map offers first.)
TwoHomes ==
  \A a, b, c \in Apps :
    (/\ a.name = b.name /\ b.name = c.name
     /\ a.cfg = b.cfg /\ b.cfg = c.cfg /\ a.cfg # NoConfig) =>
       a.ns = b.ns \/ b.ns = c.ns \/ a.ns = c.ns

\* What one file calls by one name.
Twins(a, b) == a.name = b.name /\ a.cfg = b.cfg /\ a.cfg # NoConfig

\* Where a file moves a task to, nothing else registers that name.  (An entry
\* started there without the file would be there to replace: the file then has
\* two entries of one name, and a replay of both moves one onto the other.)
OneSource ==
  \A a, b, c \in Apps :
    Twins(a, b) /\ a.ns # b.ns /\ c.name = b.name /\ c.ns = b.ns => c.cfg = b.cfg

-----------------------------------------------------------------------------
(* The inductive invariant.                                                *)

\* A child that runs, is watched and was told nothing.
Untold(m) == watching[m] = "on" /\ child[m] = "running"

\* The schedule that belongs to an entry.
Due(e) ==
  IF e.run # Nil /\ e.app.kind # "plain" /\ ~e.paused /\ ~e.stopping THEN e.app ELSE NoApp

\* A launch is registered under the key it was made for.
Keyed ==
  \A k \in Keys : registry[k].run # Nil =>
    key[registry[k].run] = k /\ cronKey(registry[k].app) = k

PausesHold ==
  \A k \in Keys : registry[k].run # Nil /\ registry[k].paused =>
    registry[k].pid = Nil /\ ~Untold(registry[k].run)

\* A goroutine that is done with an exit has recorded it.
Recorded == \A m \in Launches : watching[m] \in {"delay", "finished"} => \E r \in journal : r.pid = m

World == Keyed /\ NoLostChild /\ PausesHold /\ Recorded

\* The commands that stop tasks without starting them again.
Stops == {"stop", "pause", "delete", "kill"}

\* What a handler still has to do is registered, and so is what it stops,
\* which is what its launch will replace.
AimHolds(th) ==
  /\ \A m \in th.todo : registry[key[m]].run = m
  /\ th.pc \in Holding =>
       /\ registry[key[th.mp]].run = th.mp /\ th.mp \notin th.todo
       /\ th.op \notin Stops => FindExisting(registry, th.job.app) = {key[th.mp]}
  /\ th.op \in {"start", "resurrect"} => th.todo = {}
  /\ th.pc \in {"lookup", "suppress", "replay"} => th.op \in {"start", "resurrect"}

\* How far stopProcess has come.
StopHolds(th) ==
  /\ th.pc = "mark" => schedule[key[th.mp]] = NoApp
  /\ th.pc \in {"wait", "settle", "suspend", "remove"} =>
       registry[key[th.mp]].stopping /\ child[th.mp] # "running"
  /\ th.pc = "suspend" => registry[key[th.mp]].pid = Nil

\* What is launched replaces nothing that runs, and moves nothing scheduled.
LaunchHolds(th) ==
  /\ th.pc \in {"fork", "install"} =>
       LET k == cronKey(th.job.app)
           found == FindExisting(registry, th.job.app)
       IN  /\ \A m \in th.todo : key[m] # k /\ key[m] \notin found
           /\ \A e \in found : ~Untold(registry[e].run)
           /\ \A e \in found \ {k} : schedule[e] = NoApp
           /\ th.job.paused \/ th.job.app.kind = "plain" => schedule[k] = NoApp
  /\ th.pc = "install" => key[th.new] = cronKey(th.job.app) /\ child[th.new] # "termed"

\* KillAll reaches every child.
KillHolds(th) ==
  /\ th.op = "kill" =>
       /\ th.pc \in {"next", "unschedule", "mark", "wait", "settle", "drain", "exit"}
       /\ \A m \in Launches :
            Untold(m) => m \in th.todo \/ (m = th.mp /\ th.pc \in {"unschedule", "mark"})
  /\ th.pc \in {"drain", "exit"} => th.op = "kill" /\ th.todo = {}
  /\ th.pc = "exit" /\ th.outcome = "ok" => Counted = {}

\* Only the child in hand was asked to end, only its task lacks its schedule.
RestHolds(th) ==
  /\ \A m \in Launches :
       watching[m] = "on" /\ child[m] = "termed" => th.pc = "wait" /\ th.mp = m
  /\ \A k \in Keys : schedule[k] = Due(registry[k]) \/ (th.pc = "mark" /\ k = key[th.mp])

HandlerHolds(th) ==
  AimHolds(th) /\ StopHolds(th) /\ LaunchHolds(th) /\ KillHolds(th) /\ RestHolds(th)

AllHold == \A t \in Threads, th \in Thread : thread[t] = th => HandlerHolds(th)

SerialInv == ChildInv /\ World /\ AllHold

-----------------------------------------------------------------------------
(* Steps in general.                                                       *)

\* What may happen to an entry while nothing is launched or removed.
Same(e, f) ==
  /\ f.run = e.run /\ f.app = e.app /\ f.paused = e.paused /\ f.stopping = e.stopping
  /\ f.pid \in {Nil, e.pid}

SameEntries == \A k \in Keys : Same(registry[k], registry'[k])

\* A child ends, or its end is booked.
Ends(m) ==
  /\ child'[m] \in {"running", "termed"} => child'[m] = child[m]
  /\ watching'[m] \in {"on", "reaped", "noted"} =>
       watching[m] \in {"on", "reaped", "noted"} /\ (watching'[m] = "on" => watching[m] = "on")
  /\ watching'[m] \in {"delay", "finished"} =>
       watching[m] \in {"delay", "finished"} \/ \E r \in journal' : r.pid = m

Mild ==
  /\ UNCHANGED <<key, schedule>> /\ SameEntries /\ journal \subseteq journal'
  /\ \A m \in Launches : Ends(m)

LEMMA DueSame == ASSUME NEW e, NEW f, Same(e, f) PROVE Due(f) = Due(e)
  BY DEF Same, Due

(* What a launch would replace.                                             *)
LEMMA FoundStays ==
  ASSUME NEW app,
         \A k \in Keys : registry'[k].run = registry[k].run /\ registry'[k].app = registry[k].app
  PROVE  FindExisting(registry', app) = FindExisting(registry, app)
<1>1. Registered(registry') = Registered(registry)
  BY DEF Registered
<1>2. \A k \in Registered(registry) : registry'[k].app = registry[k].app
  BY DEF Registered
<1> QED
  BY <1>1, <1>2 DEF FindExisting

LEMMA FoundOwn ==
  ASSUME NEW app, cronKey(app) \in Keys, registry[cronKey(app)].run # Nil
  PROVE  FindExisting(registry, app) = {cronKey(app)}
BY DEF FindExisting, Registered

(* Where nothing is launched, stopped or removed, the world goes on.       *)
LEMMA MildWorld ==
  ASSUME TypeOK, Typed, World, Mild PROVE World'
<1>1. \A k \in Keys : Same(registry[k], registry'[k]) /\ registry[k].run \in {Nil} \union Launches
  BY DEF Mild, SameEntries, Typed
<1>2. \A m \in Launches : Untold(m)' => Untold(m)
  BY DEF Mild, Ends, Untold
<1>3. Keyed'
  BY <1>1 DEF World, Keyed, Same, Mild
<1>4. NoLostChild'
  BY <1>1, <1>2 DEF World, NoLostChild, Untold, Same, Mild, TypeOK
<1>5. PausesHold'
  BY <1>1, <1>2 DEF World, PausesHold, Same
<1>6. Recorded'
  BY DEF World, Recorded, Mild, Ends
<1> QED
  BY <1>3, <1>4, <1>5, <1>6 DEF World

(* ... and so does a handler that is not concerned.                        *)
LEMMA MildHandler ==
  ASSUME TypeOK, Typed, Mild, NEW th, th.todo \subseteq Launches,
         th.pc \in Holding => th.mp \in Launches, th.pc = "install" => th.new \in Launches,
         th.pc \in {"fork", "install"} => cronKey(th.job.app) \in Keys, HandlerHolds(th)
  PROVE  HandlerHolds(th)'
<1>1. \A k \in Keys : Same(registry[k], registry'[k]) /\ registry[k].run \in {Nil} \union Launches
  BY DEF Mild, SameEntries, Typed
<1>2. \A m \in Launches : Ends(m) /\ key[m] \in Keys
  BY DEF Mild, TypeOK
<1>3. UNCHANGED <<key, schedule>>
  BY DEF Mild
<1>4. \A m \in Launches : Untold(m)' => Untold(m)
  BY <1>2 DEF Ends, Untold
<1>a. FindExisting(registry', th.job.app) = FindExisting(registry, th.job.app)
  BY <1>1, FoundStays DEF Same
<1>5. AimHolds(th)'
  <2>1. AimHolds(th)
    BY DEF HandlerHolds
  <2> QED
    BY <1>1, <1>2, <1>3, <1>a, <2>1 DEF AimHolds, Same
<1>6. StopHolds(th)'
  BY <1>1, <1>2, <1>3 DEF HandlerHolds, StopHolds, Same, Ends, Holding
<1>7. LaunchHolds(th)'
  <2>1. LaunchHolds(th)
    BY DEF HandlerHolds
  <2>2. ASSUME NEW e \in FindExisting(registry, th.job.app), ~Untold(registry[e].run)
        PROVE  ~Untold(registry[e].run)'
    <3>1. e \in Keys /\ registry[e].run # Nil
      BY <2>2, FoundIsRegistered DEF Registered
    <3>2. registry'[e].run = registry[e].run /\ registry[e].run \in Launches
      BY <1>1, <3>1 DEF Same
    <3> QED
      BY <1>4, <2>2, <3>2 DEF Untold
  <2> QED
    BY <1>2, <1>3, <1>a, <2>1, <2>2 DEF LaunchHolds, Ends
<1>8. KillHolds(th)'
  BY <1>2, <1>4 DEF HandlerHolds, KillHolds, Counted, Ends
<1>9. RestHolds(th)'
  <2>1. \A k \in Keys : Due(registry'[k]) = Due(registry[k])
    BY <1>1, DueSame
  <2>2. \A k \in Keys : Due(registry[k])' = Due(registry'[k])
    BY DEF Due
  <2> QED
    BY <1>2, <1>3, <2>1, <2>2 DEF HandlerHolds, RestHolds, Ends
<1> QED
  BY <1>5, <1>6, <1>7, <1>8, <1>9 DEF HandlerHolds

LEMMA SerialTyped ==
  ASSUME ChildInv PROVE TypeOK /\ Typed /\ AllInHand /\ Holds
  BY InductiveTyped DEF ChildInv, Inductive

\* What a handler has in hand that is where it should be.
LEMMA InPlace ==
  ASSUME ChildInv, NEW t \in Threads, NEW th \in Thread, thread[t] = th
  PROVE  /\ th.todo \subseteq Launches /\ th.mp \in {Nil} \union Launches
         /\ th.pc \in Holding => th.mp \in Launches
         /\ th.pc = "install" => th.new \in Launches
         /\ th.job \in Job /\ cronKey(th.job.app) \in Keys
<1>1. TypeOK /\ Typed /\ AllInHand /\ Holds
  BY SerialTyped
<1>2. th.job \in Job /\ cronKey(th.job.app) \in Keys
  BY KeyTypes DEF Thread, Job
<1> QED
  BY <1>1, <1>2 DEF Typed, Holds

LEMMA MildSteps ==
  ASSUME SerialInv, ChildInv', Mild, UNCHANGED thread PROVE SerialInv'
<1>1. TypeOK /\ Typed
  BY SerialTyped DEF SerialInv
<1>2. World'
  BY <1>1, MildWorld DEF SerialInv
<1>3. ASSUME NEW t \in Threads, NEW th \in Thread, thread'[t] = th PROVE HandlerHolds(th)'
  <2>1. thread[t] = th /\ HandlerHolds(th)
    BY <1>3 DEF SerialInv, AllHold
  <2> QED
    BY <1>1, <2>1, InPlace, MildHandler DEF SerialInv
<1> QED
  BY <1>2, <1>3 DEF SerialInv, AllHold

(* The one handler moves.                                                   *)
LEMMA HandlerGoes ==
  ASSUME OneHandler, ChildInv', World', NEW t \in Threads, NEW s \in Thread, Become(t, s),
         TypeOK, HandlerHolds(s)'
  PROVE  SerialInv'
<1>1. \A u \in Threads : thread'[u] = s
  BY DEF OneHandler, Become, TypeOK
<1> QED
  BY <1>1 DEF SerialInv, AllHold

\* What a handler's own steps leave alone.
Kept == UNCHANGED <<registry, key, schedule, child, watching, journal>>

(* It moves, and at most an exit is booked.                                 *)
LEMMA HandlerGoesMildly ==
  ASSUME OneHandler, SerialInv, ChildInv', NEW t \in Threads, NEW s \in Thread, Become(t, s),
         Mild, HandlerHolds(s)
  PROVE  SerialInv'
<1>1. TypeOK /\ Typed
  BY SerialTyped DEF SerialInv
<1>2. Mild
  OBVIOUS
<1>3. World'
  BY <1>1, <1>2, MildWorld DEF SerialInv
<1>4. HandlerHolds(s)'
  <2>1. ChildInv' => (s.pc \in Holding => s.mp \in Launches)
    <3>1. thread'[t] = s
      BY <1>1 DEF Become, TypeOK
    <3>2. ChildInv' => Holds' /\ Typed'
      BY SerialTyped, PTL
    <3> QED
      BY <3>1, <3>2 DEF Holds, Typed
  <2>2. ChildInv' => (s.pc = "install" => s.new \in Launches)
    <3>1. thread'[t] = s
      BY <1>1 DEF Become, TypeOK
    <3>2. ChildInv' => Typed'
      BY SerialTyped, PTL
    <3> QED
      BY <3>1, <3>2 DEF Typed
  <2>3. s.todo \subseteq Launches /\ cronKey(s.job.app) \in Keys
    BY KeyTypes DEF Thread, Job
  <2> QED
    BY <1>1, <1>2, <2>1, <2>2, <2>3, MildHandler
<1> QED
  BY <1>1, <1>3, <1>4, HandlerGoes

(* It moves alone.                                                          *)
LEMMA HandlerGoesAlone ==
  ASSUME OneHandler, SerialInv, ChildInv', NEW t \in Threads, NEW s \in Thread, Become(t, s),
         Kept, HandlerHolds(s)
  PROVE  SerialInv'
<1>1. Mild
  BY DEF Kept, Mild, SameEntries, Same, Ends
<1> QED
  BY <1>1, HandlerGoesMildly

(* A handler that is about nobody's child.                                  *)
Loose(s) ==
  /\ s.pc \notin Holding \union {"fork", "install", "drain", "exit"} /\ s.op # "kill"
  /\ \A m \in s.todo : registry[key[m]].run = m
  /\ s.op \in {"start", "resurrect"} => s.todo = {}
  /\ s.pc \in {"lookup", "suppress", "replay"} => s.op \in {"start", "resurrect"}

LEMMA LooseHolds ==
  ASSUME NEW th, HandlerHolds(th), th.pc \notin {"mark", "wait"}, NEW s, Loose(s)
  PROVE  HandlerHolds(s)
<1>1. AimHolds(s) /\ StopHolds(s) /\ LaunchHolds(s) /\ KillHolds(s)
  BY DEF Loose, Holding, AimHolds, StopHolds, LaunchHolds, KillHolds
<1>2. RestHolds(s)
  BY DEF HandlerHolds, RestHolds
<1> QED
  BY <1>1, <1>2 DEF HandlerHolds

LEMMA LooseGoes ==
  ASSUME OneHandler, SerialInv, ChildInv', NEW t \in Threads, thread[t].pc \notin {"mark", "wait"},
         NEW s \in Thread, Become(t, s), Kept \/ Mild, Loose(s)
  PROVE  SerialInv'
<1>1. PICK th \in Thread : th = thread[t]
  BY SerialTyped DEF SerialInv, Typed
<1>2. HandlerHolds(th)
  BY <1>1 DEF SerialInv, AllHold
<1>3. HandlerHolds(s)
  BY <1>1, <1>2, LooseHolds
<1>4. Kept => Mild
  BY DEF Kept, Mild, SameEntries, Same, Ends
<1> QED
  BY <1>3, <1>4, HandlerGoesMildly

LEMMA Becomes ==
  ASSUME ChildInv, ChildInv', NEW t \in Threads, NEW s, Become(t, s) PROVE s \in Thread
<1>1. TypeOK /\ (ChildInv' => Typed')
  BY SerialTyped, PTL
<1>2. thread'[t] = s
  BY <1>1 DEF TypeOK, Become
<1> QED
  BY <1>1, <1>2 DEF Typed

LEMMA LooseBecomes ==
  ASSUME OneHandler, SerialInv, ChildInv', NEW t \in Threads, thread[t].pc \notin {"mark", "wait"},
         NEW s, Become(t, s), Kept \/ Mild, Loose(s)
  PROVE  SerialInv'
  BY Becomes, LooseGoes DEF SerialInv

(* What a target resolves to is what its keys hold.                         *)
LEMMA PointersHold ==
  ASSUME SerialInv, NEW keys, keys \subseteq Registered(registry)
  PROVE  \A m \in Pointers(keys) : registry[key[m]].run = m
  BY DEF SerialInv, World, Keyed, Pointers, Registered

(* A handler begins a command, a fire or a relaunch.                        *)
LEMMA BeginHolds ==
  ASSUME OneHandler, SerialInv, ChildInv', NEW t \in Threads,
         \/ StartApp(t) \/ ByName(t) \/ Save(t) \/ Resurrect(t) \/ Boot(t)
         \/ \E k \in Keys : CronRestart(t, k)
  PROVE  SerialInv'
<1>a. TypeOK /\ Typed /\ Down /\ thread \in [Threads -> Thread] /\ thread[t] \in Thread
  BY SerialTyped DEF SerialInv, ChildInv, Typed, TypeOK
<1>b. thread[t].pc = "idle" /\ HandlerHolds(thread[t])
  BY <1>a DEF StartApp, ByName, Save, Resurrect, Boot, CronRestart, At, Down, Quiet,
     SerialInv, AllHold
<1>c. Kept
  BY DEF StartApp, ByName, Save, Resurrect, Boot, CronRestart, Kept, memory, os, exits
<1>1. CASE StartApp(t)
  <2>1. PICK r : Become(t, [Idle EXCEPT !.pc = "lookup", !.op = "start", !.rest = r.apps,
                                        !.job.paused = r.paused])
    BY <1>1 DEF StartApp
  <2> DEFINE s == [Idle EXCEPT !.pc = "lookup", !.op = "start", !.rest = r.apps,
                               !.job.paused = r.paused]
  <2>2. s.pc = "lookup" /\ s.op = "start" /\ s.todo = {}
    BY DEF Idle
  <2> HIDE DEF s
  <2>3. Loose(s)
    BY <2>2 DEF Loose, Holding
  <2> QED
    BY <1>b, <1>c, <2>1, <2>3, LooseBecomes DEF s
<1>2. CASE ByName(t)
  <2>1. PICK op \in {"stop", "restart", "pause", "resume", "delete"}, target \in Targets :
          Become(t, [Idle EXCEPT !.pc = "next", !.op = op,
                                 !.todo = Pointers(FindByTarget(registry, target))])
    BY <1>2 DEF ByName
  <2> DEFINE found == FindByTarget(registry, target)
             s == [Idle EXCEPT !.pc = "next", !.op = op, !.todo = Pointers(found)]
  <2>2. s.pc = "next" /\ s.op = op /\ s.todo = Pointers(found)
    BY DEF Idle
  <2>3. found \subseteq Registered(registry)
    BY FoundIsRegistered
  <2> HIDE DEF s, found
  <2>4. Loose(s)
    BY <2>2, <2>3, PointersHold DEF Loose, Holding
  <2> QED
    BY <1>b, <1>c, <2>1, <2>4, LooseBecomes DEF s, found
<1>3. CASE Save(t)
  <2> DEFINE s == [thread[t] EXCEPT !.pc = "snapshot"]
  <2>1. s.pc = "snapshot" /\ s.op = thread[t].op /\ s.todo = thread[t].todo
    BY <1>a DEF Thread
  <2>2. Become(t, s)
    BY <1>3 DEF Save, Goto, Become
  <2> HIDE DEF s
  <2>3. Loose(s)
    BY <1>b, <2>1 DEF Loose, Holding, HandlerHolds, KillHolds, AimHolds
  <2> QED
    BY <1>b, <1>c, <2>2, <2>3, LooseBecomes
<1>4. CASE Resurrect(t) \/ Boot(t)
  <2>1. Become(t, [Idle EXCEPT !.op = "resurrect", !.replay = dump.image, !.pc = "suppress"])
        \/ UNCHANGED thread
    BY <1>4 DEF Resurrect, Boot
  <2>2. CASE UNCHANGED thread
    BY <1>c, <2>2, MildSteps DEF Kept, Mild, SameEntries, Same, Ends
  <2> DEFINE s == [Idle EXCEPT !.op = "resurrect", !.replay = dump.image, !.pc = "suppress"]
  <2>3. s.pc = "suppress" /\ s.op = "resurrect" /\ s.todo = {}
    BY DEF Idle
  <2> HIDE DEF s
  <2>4. Loose(s)
    BY <2>3 DEF Loose, Holding
  <2> QED
    BY <1>b, <1>c, <2>1, <2>2, <2>4, LooseBecomes DEF s
<1>5. ASSUME NEW k \in Keys, CronRestart(t, k) PROVE SerialInv'
  <2> DEFINE found == FindByTarget(registry, KeyTarget(k))
             fire == [Idle EXCEPT !.op = "cron_restart", !.fire = k]
             failed == [fire EXCEPT !.outcome = "failed", !.pc = "outcome"]
             going == [fire EXCEPT !.todo = Pointers(found), !.pc = "next"]
  <2>1. Become(t, failed) \/ Become(t, going)
    BY <1>5 DEF CronRestart
  <2>2. /\ failed.pc = "outcome" /\ failed.op = "cron_restart" /\ failed.todo = {}
        /\ going.pc = "next" /\ going.op = "cron_restart" /\ going.todo = Pointers(found)
    BY DEF Idle
  <2>3. found \subseteq Registered(registry)
    BY FoundIsRegistered
  <2> HIDE DEF failed, going, found
  <2>4. Loose(failed) /\ Loose(going)
    BY <2>2, <2>3, PointersHold DEF Loose, Holding
  <2> QED
    BY <1>b, <1>c, <2>1, <2>4, LooseBecomes
<1> QED
  BY <1>1, <1>2, <1>3, <1>4, <1>5

LEMMA SpontaneousBeginHolds ==
  ASSUME OneHandler, SerialInv, ChildInv', NEW t \in Threads,
         \/ KillAll(t) \/ \E k \in Keys : TriggerCron(t, k)
         \/ \E m \in Launches : AutoRestart(t, m) \/ Debounced(t, m)
  PROVE  SerialInv'
<1>a. TypeOK /\ Typed /\ thread \in [Threads -> Thread] /\ thread[t] \in Thread
  BY SerialTyped DEF SerialInv, Typed, TypeOK
<1>b. thread[t].pc = "idle" /\ HandlerHolds(thread[t]) /\ World
  BY <1>a DEF KillAll, TriggerCron, AutoRestart, Debounced, At, SerialInv, AllHold
<1>c. /\ \A m \in Launches : ~(watching[m] = "on" /\ child[m] = "termed")
      /\ \A k \in Keys : schedule[k] = Due(registry[k])
  BY <1>b DEF HandlerHolds, RestHolds
<1>1. CASE KillAll(t)
  <2> DEFINE all == Registered(registry)
             s == [Idle EXCEPT !.pc = "next", !.op = "kill", !.todo = Pointers(all)]
  <2>1. Become(t, s) /\ Kept
    BY <1>1 DEF KillAll, Kept, memory, os, exits
  <2>2. s.pc = "next" /\ s.op = "kill" /\ s.todo = Pointers(all)
    BY DEF Idle
  <2> HIDE DEF s
  <2>3. ASSUME NEW m \in Launches, Untold(m) PROVE m \in s.todo
    <3>1. registry[key[m]].run = m /\ key[m] \in Keys
      BY <1>a, <1>b, <2>3 DEF World, NoLostChild, Untold, TypeOK
    <3> QED
      BY <1>a, <2>2, <3>1 DEF Pointers, Registered, Typed
  <2>4. AimHolds(s)
    BY <2>2, PointersHold DEF AimHolds, Holding
  <2>5. StopHolds(s) /\ LaunchHolds(s) /\ KillHolds(s) /\ RestHolds(s)
    BY <1>c, <2>2, <2>3 DEF StopHolds, LaunchHolds, KillHolds, RestHolds
  <2> QED
    BY <2>1, <2>4, <2>5, Becomes, HandlerGoesAlone DEF HandlerHolds, SerialInv
<1>2. ASSUME NEW k \in Keys, TriggerCron(t, k) PROVE SerialInv'
  <2> DEFINE job == [app |-> schedule[k], paused |-> FALSE, triggered |-> TRUE,
                     trigger |-> "cron"]
             mp == registry[k].run
             s == [Idle EXCEPT !.pc = "guard", !.op = "cron", !.mp = mp, !.fire = k, !.job = job]
  <2>1. Become(t, s) /\ Kept /\ schedule[k].kind = "cron" /\ mp # Nil
    BY <1>2 DEF TriggerCron, Kept, memory, os, exits, Present
  <2>2. /\ s.pc = "guard" /\ s.op = "cron" /\ s.mp = mp /\ s.job = job /\ s.todo = {}
        /\ job.app = schedule[k]
    BY DEF Idle
  <2> HIDE DEF s, job
  <2>3. schedule[k] = registry[k].app
    BY <1>c, <2>1, AppTypes DEF Due
  <2>4. key[mp] = k /\ FindExisting(registry, job.app) = {k}
    BY <1>b, <2>1, <2>2, <2>3, FoundOwn DEF World, Keyed
  <2>5. HandlerHolds(s)
    BY <1>c, <2>2, <2>4
    DEF HandlerHolds, AimHolds, StopHolds, LaunchHolds, KillHolds, RestHolds, Holding, Stops
  <2> QED
    BY <2>1, <2>5, Becomes, HandlerGoesAlone DEF SerialInv
<1>3. ASSUME NEW m \in Launches, Debounced(t, m) PROVE SerialInv'
  <2> DEFINE found == FindByTarget(registry, NameTarget(key[m][2]))
             s == [Idle EXCEPT !.pc = "next", !.op = "watch", !.todo = Pointers(found)]
  <2>1. (Become(t, s) \/ Become(t, Idle)) /\ Kept
    BY <1>3 DEF Debounced, Kept, memory, os, exits
  <2>2. s.pc = "next" /\ s.op = "watch" /\ s.todo = Pointers(found)
    BY DEF Idle
  <2>3. found \subseteq Registered(registry)
    BY FoundIsRegistered
  <2> HIDE DEF s, found
  <2>4. Loose(s)
    BY <2>2, <2>3, PointersHold DEF Loose, Holding
  <2>5. Loose(Idle)
    BY DEF Loose, Holding, Idle
  <2> QED
    BY <1>b, <2>1, <2>4, <2>5, LooseBecomes
<1>4. ASSUME NEW m \in Launches, AutoRestart(t, m) PROVE SerialInv'
  <2> DEFINE entry == registry[key[m]]
             job == [NoJob EXCEPT !.app = entry.app]
             s == [Idle EXCEPT !.pc = "fork", !.op = "auto", !.job = job]
  <2>a. Mild
    BY <1>4, <1>a DEF AutoRestart, Mild, SameEntries, Same, Ends, memory, os, TypeOK, World,
       SerialInv, Recorded
  <2>1. CASE UNCHANGED thread
    BY <2>1, <2>a, MildSteps
  <2>2. CASE entry.run = m /\ ~entry.stopping /\ Become(t, s)
    <3>1. s.pc = "fork" /\ s.op = "auto" /\ s.job = job /\ s.todo = {}
      BY DEF Idle
    <3>2. job.app = entry.app /\ job.paused = FALSE
      BY DEF NoJob
    <3> HIDE DEF s, job
    <3>3. key[m] \in Keys /\ m # Nil
      BY <1>a DEF TypeOK, Typed
    <3>4. cronKey(job.app) = key[m]
      BY <1>b, <2>2, <3>2, <3>3 DEF World, Keyed
    <3>5. ~Untold(m) /\ (job.app.kind = "plain" => schedule[key[m]] = NoApp)
      BY <1>4, <1>c, <3>2, <3>3 DEF Untold, AutoRestart, Due
    <3>8. FindExisting(registry, job.app) = {key[m]}
      BY <2>2, <3>3, <3>4, FoundOwn
    <3>6. HandlerHolds(s)
      BY <1>c, <2>2, <3>1, <3>2, <3>4, <3>5, <3>8
      DEF HandlerHolds, AimHolds, StopHolds, LaunchHolds, KillHolds, RestHolds, Holding
    <3>7. s \in Thread
      BY <2>2, Becomes DEF SerialInv
    <3> QED
      BY <2>2, <2>a, <3>6, <3>7, HandlerGoesMildly
  <2> QED
    BY <1>4, <2>1, <2>2 DEF AutoRestart
<1> QED
  BY <1>1, <1>2, <1>3, <1>4

\* A handler that only goes elsewhere, maybe with another outcome, image or
\* list of instances.
Goes(t, s, label) ==
  /\ Become(t, s) /\ s.pc = label
  /\ s.op = thread[t].op /\ s.todo = thread[t].todo

LEMMA GotoGoes ==
  ASSUME TypeOK, NEW t \in Threads, NEW label, Goto(t, label)
  PROVE  \E s : Goes(t, s, label) /\ s.mp = thread[t].mp /\ s.job = thread[t].job
                /\ s.new = thread[t].new
<1> DEFINE s == [thread[t] EXCEPT !.pc = label]
<1>1. thread[t] \in Thread
  BY DEF TypeOK
<1>2. Become(t, s)
  BY DEF Goto, Become
<1>3. /\ s.pc = label /\ s.op = thread[t].op /\ s.todo = thread[t].todo
      /\ s.mp = thread[t].mp /\ s.job = thread[t].job /\ s.new = thread[t].new
  BY <1>1 DEF Thread
<1> QED
  BY <1>2, <1>3 DEF Goes

LEMMA DrainGoes ==
  ASSUME TypeOK, NEW t \in Threads, Drained(t)
  PROVE  \E s : Goes(t, s, "exit") /\ s.mp = thread[t].mp /\ (s.outcome = "ok" => Counted = {})
<1> DEFINE s(outcome) == [thread[t] EXCEPT !.pc = "exit", !.outcome = outcome]
<1>1. ASSUME NEW outcome PROVE /\ s(outcome).pc = "exit" /\ s(outcome).outcome = outcome
                               /\ s(outcome).op = thread[t].op /\ s(outcome).mp = thread[t].mp
                               /\ s(outcome).todo = thread[t].todo
  BY DEF TypeOK, Thread
<1>2. Become(t, s("failed")) \/ (Become(t, s("ok")) /\ Counted = {})
  BY DEF Drained
<1> HIDE DEF s
<1>3. CASE Become(t, s("failed"))
  BY <1>1, <1>3 DEF Goes
<1>4. CASE Become(t, s("ok")) /\ Counted = {}
  BY <1>1, <1>4 DEF Goes
<1> QED
  BY <1>2, <1>3, <1>4

\* Where a handler's loop and its errands are.
Errands == {"idle", "lookup", "next", "outcome", "autosave", "snapshot", "truncate", "write",
            "suppress", "replay"}

(* Where handlers go that have nobody's child in hand.                      *)
LEMMA GoesLoose ==
  ASSUME OneHandler, SerialInv, ChildInv', NEW t \in Threads,
         thread[t].pc \notin {"mark", "wait"}, NEW label \in Errands, NEW s, Goes(t, s, label),
         thread[t].op # "kill", Kept \/ Mild,
         label \in {"lookup", "suppress", "replay"} => thread[t].op \in {"start", "resurrect"}
  PROVE  SerialInv'
<1>1. HandlerHolds(thread[t])
  BY SerialTyped DEF SerialInv, AllHold, Typed
<1>2. Loose(s)
  BY <1>1 DEF Goes, Loose, Errands, Holding, HandlerHolds, AimHolds
<1> QED
  BY <1>2, LooseBecomes DEF Goes

LEMMA ReturnGoes ==
  ASSUME OneHandler, SerialInv, ChildInv', NEW t \in Threads,
         thread[t].pc \notin {"mark", "wait"}, Return(t), Kept \/ Mild
  PROVE  SerialInv'
<1>1. Loose(Idle)
  BY DEF Loose, Holding, Idle
<1> QED
  BY <1>1, LooseBecomes DEF Return

(* The end of a command, and dump.json.                                     *)
LEMMA FileStepHolds ==
  ASSUME OneHandler, SerialInv, ChildInv', NEW t \in Threads,
         \/ AutoSave(t) \/ Snapshot(t) \/ Truncate(t) \/ Write(t) \/ Suppress(t) \/ Replay(t)
  PROVE  SerialInv'
<1>a. TypeOK /\ thread[t] \in Thread /\ HandlerHolds(thread[t])
  BY SerialTyped DEF SerialInv, Typed, AllHold
<1>b. Kept
  BY DEF AutoSave, Snapshot, Truncate, Write, Suppress, Replay, Kept, memory, os, exits
<1>c. thread[t].pc \in Errands \ {"idle"} /\ thread[t].op # "kill"
  BY <1>a DEF AutoSave, Snapshot, Truncate, Write, Suppress, Replay, At, Errands, HandlerHolds,
     KillHolds
<1>d. thread[t].pc \notin {"mark", "wait"}
  BY <1>c DEF Errands
<1>e. ASSUME NEW label \in Errands \ {"lookup", "suppress", "replay"}, Goto(t, label)
      PROVE  SerialInv'
  <2>1. PICK s : Goes(t, s, label)
    BY <1>a, <1>e, GotoGoes
  <2> QED
    BY <1>b, <1>c, <1>d, <2>1, GoesLoose
<1>f. ASSUME Finish(t) PROVE SerialInv'
  <2>1. CASE thread[t].op # "resurrect"
    BY <1>b, <1>d, <1>f, <2>1, ReturnGoes DEF Finish
  <2>2. CASE thread[t].op = "resurrect"
    <3> DEFINE s == [thread[t] EXCEPT !.image = {}, !.pc = "replay"]
    <3>1. s.pc = "replay" /\ s.op = thread[t].op /\ s.todo = thread[t].todo
      BY <1>a DEF Thread
    <3>2. Become(t, s)
      BY <1>f, <2>2 DEF Finish
    <3> HIDE DEF s
    <3>3. Goes(t, s, "replay")
      BY <3>1, <3>2 DEF Goes
    <3> QED
      BY <1>b, <1>c, <1>d, <2>2, <3>3, GoesLoose DEF Errands
  <2> QED
    BY <2>1, <2>2
<1>1. CASE AutoSave(t)
  BY <1>1, <1>e, <1>f DEF AutoSave, Errands
<1>2. CASE Snapshot(t)
  <2> DEFINE s == [thread[t] EXCEPT !.image = SnapshotAppConfigs, !.pc = "truncate"]
  <2>1. s.pc = "truncate" /\ s.op = thread[t].op /\ s.todo = thread[t].todo
    BY <1>a DEF Thread
  <2>2. Become(t, s)
    BY <1>2 DEF Snapshot
  <2> HIDE DEF s
  <2>3. Goes(t, s, "truncate")
    BY <2>1, <2>2 DEF Goes
  <2> QED
    BY <1>b, <1>c, <1>d, <2>3, GoesLoose DEF Errands
<1>3. CASE Truncate(t)
  BY <1>3, <1>e DEF Truncate, Errands
<1>4. CASE Write(t)
  BY <1>4, <1>f DEF Write
<1>5. CASE Suppress(t)
  <2>1. PICK s : Goes(t, s, "replay")
    BY <1>5, <1>a, GotoGoes DEF Suppress
  <2>2. thread[t].op \in {"start", "resurrect"}
    BY <1>5, <1>a DEF Suppress, At, HandlerHolds, AimHolds
  <2> QED
    BY <1>b, <1>c, <1>d, <2>1, <2>2, GoesLoose DEF Errands
<1>6. CASE Replay(t)
  <2>1. CASE Return(t)
    BY <1>b, <1>d, <2>1, ReturnGoes
  <2>2. CASE ~Return(t)
    <3>1. PICK e \in thread[t].replay :
            Become(t, [thread[t] EXCEPT !.replay = @ \ {e}, !.rest = <<e.app>>,
                         !.launched = FALSE, !.job.paused = SavedPause(e), !.pc = "lookup"])
      BY <1>6, <2>2 DEF Replay
    <3> DEFINE s == [thread[t] EXCEPT !.replay = @ \ {e}, !.rest = <<e.app>>,
                         !.launched = FALSE, !.job.paused = SavedPause(e), !.pc = "lookup"]
    <3>2. s.pc = "lookup" /\ s.op = thread[t].op /\ s.todo = thread[t].todo
      BY <1>a DEF Thread
    <3> HIDE DEF s
    <3>3. Goes(t, s, "lookup")
      BY <3>1, <3>2 DEF Goes, s
    <3>4. thread[t].op \in {"start", "resurrect"}
      BY <1>6, <1>a DEF Replay, At, HandlerHolds, AimHolds
    <3> QED
      BY <1>b, <1>c, <1>d, <3>3, <3>4, GoesLoose DEF Errands
  <2> QED
    BY <2>1, <2>2
<1> QED
  BY <1>1, <1>2, <1>3, <1>4, <1>5, <1>6

(* The loop over the targets.                                               *)
LEMMA NextStepHolds ==
  ASSUME OneHandler, SerialInv, ChildInv', NEW t \in Threads,
         RestartNext(t) \/ ResumeNext(t) \/ StopNext(t)
  PROVE  SerialInv'
<1> DEFINE th == thread[t]
<1>a. /\ TypeOK /\ Typed /\ World /\ th \in Thread /\ HandlerHolds(th) /\ th.todo \subseteq Launches
      /\ \A m \in Launches : key[m] \in Keys /\ m # Nil
  BY SerialTyped DEF SerialInv, Typed, AllHold, TypeOK
<1>b. Kept /\ th.pc = "next"
  BY DEF RestartNext, ResumeNext, StopNext, At, Kept, memory, os, exits
<1>c. /\ \A m \in Launches : ~(watching[m] = "on" /\ child[m] = "termed")
      /\ \A k \in Keys : schedule[k] = Due(registry[k])
  BY <1>a, <1>b DEF HandlerHolds, RestHolds
<1>d. \A m \in th.todo : registry[key[m]].run = m
  BY <1>a DEF HandlerHolds, AimHolds
<1>e. th.op \notin {"start", "resurrect"} \/ th.todo = {}
  BY <1>a DEF HandlerHolds, AimHolds
<1>1. CASE RestartNext(t)
  <2>1. PICK m \in th.todo :
          Become(t, IF Present(key[m])
                    THEN [th EXCEPT !.todo = @ \ {m}, !.mp = m, !.pc = "unschedule",
                            !.job = [NoJob EXCEPT !.app = registry[key[m]].app,
                                                  !.triggered = TRUE]]
                    ELSE [th EXCEPT !.todo = @ \ {m}])
    BY <1>1 DEF RestartNext
  <2> DEFINE app == registry[key[m]].app
             s == [th EXCEPT !.todo = @ \ {m}, !.mp = m, !.pc = "unschedule",
                             !.job = [NoJob EXCEPT !.app = app, !.triggered = TRUE]]
  <2>2. registry[key[m]].run = m /\ m # Nil /\ key[m] \in Keys
    BY <1>a, <1>d
  <2>3. Become(t, s)
    BY <2>1, <2>2 DEF Present
  <2>4. cronKey(app) = key[m]
    BY <1>a, <2>2 DEF World, Keyed
  <2>8. FindExisting(registry, app) = {key[m]}
    BY <2>2, <2>4, FoundOwn
  <2> HIDE DEF app
  <2>5. /\ s.pc = "unschedule" /\ s.op = th.op /\ s.mp = m /\ s.todo = th.todo \ {m}
        /\ s.job.app = app
    BY <1>a DEF Thread, NoJob
  <2> HIDE DEF s
  <2>6. th.op \in Restarts
    BY <1>1 DEF RestartNext
  <2>7. HandlerHolds(s)
    BY <1>c, <1>d, <2>2, <2>5, <2>6, <2>8
    DEF HandlerHolds, AimHolds, StopHolds, LaunchHolds, KillHolds, RestHolds, Holding, Restarts
  <2> QED
    BY <1>b, <2>3, <2>7, Becomes, HandlerGoesAlone DEF SerialInv
<1>2. CASE ResumeNext(t)
  <2>1. PICK m \in th.todo :
          Become(t, IF Present(key[m]) /\ registry[key[m]].paused
                    THEN [th EXCEPT !.todo = @ \ {m}, !.pc = "fork",
                                    !.job = [NoJob EXCEPT !.app = registry[key[m]].app]]
                    ELSE [th EXCEPT !.todo = @ \ {m}])
    BY <1>2 DEF ResumeNext
  <2> DEFINE app == registry[key[m]].app
             s == [th EXCEPT !.todo = @ \ {m}, !.pc = "fork", !.job = [NoJob EXCEPT !.app = app]]
             z == [th EXCEPT !.todo = @ \ {m}]
  <2>2. registry[key[m]].run = m /\ m # Nil /\ key[m] \in Keys
    BY <1>a, <1>d
  <2>3. cronKey(app) = key[m]
    BY <1>a, <2>2 DEF World, Keyed
  <2>7. FindExisting(registry, app) = {key[m]}
    BY <2>2, <2>3, FoundOwn
  <2>4. th.op = "resume"
    BY <1>2 DEF ResumeNext
  <2> HIDE DEF app
  <2>5. CASE registry[key[m]].paused
    <3>1. Become(t, s)
      BY <2>1, <2>2, <2>5 DEF Present, app
    <3>2. /\ s.pc = "fork" /\ s.op = th.op /\ s.mp = th.mp /\ s.todo = th.todo \ {m}
          /\ s.job.app = app
      BY <1>a DEF Thread, NoJob
    <3> HIDE DEF s
    <3>3. ~Untold(m) /\ schedule[key[m]] = NoApp
      BY <1>a, <1>c, <2>2, <2>5 DEF World, PausesHold, Due
    <3>4. \A j \in th.todo \ {m} : key[j] # key[m]
      BY <1>d, <2>2
    <3>5. HandlerHolds(s)
      BY <1>c, <1>d, <2>2, <2>3, <2>4, <2>7, <3>2, <3>3, <3>4
      DEF HandlerHolds, AimHolds, StopHolds, LaunchHolds, KillHolds, RestHolds, Holding
    <3> QED
      BY <1>b, <3>1, <3>5, Becomes, HandlerGoesAlone DEF SerialInv
  <2>6. CASE ~registry[key[m]].paused
    <3>1. Become(t, z)
      BY <2>1, <2>6
    <3>2. z.pc = "next" /\ z.op = th.op /\ z.todo = th.todo \ {m}
      BY <1>a, <1>b DEF Thread
    <3> HIDE DEF z
    <3>3. Loose(z)
      BY <1>d, <2>4, <3>2 DEF Loose, Holding
    <3> QED
      BY <1>b, <3>1, <3>3, LooseBecomes
  <2> QED
    BY <2>5, <2>6
<1>3. CASE StopNext(t)
  <2>1. PICK m \in th.todo : Become(t, [th EXCEPT !.todo = @ \ {m}, !.mp = m, !.pc = "unschedule"])
    BY <1>3 DEF StopNext
  <2> DEFINE s == [th EXCEPT !.todo = @ \ {m}, !.mp = m, !.pc = "unschedule"]
  <2>2. s.pc = "unschedule" /\ s.op = th.op /\ s.mp = m /\ s.todo = th.todo \ {m}
    BY <1>a DEF Thread
  <2>3. th.op \in Stops
    BY <1>3 DEF StopNext, Stops
  <2> HIDE DEF s
  <2>4. \A j \in Launches : th.op = "kill" /\ Untold(j) => j \in th.todo
    BY <1>a, <1>b DEF HandlerHolds, KillHolds
  <2>5. AimHolds(s) /\ StopHolds(s) /\ LaunchHolds(s) /\ RestHolds(s)
    BY <1>c, <1>d, <1>e, <2>2, <2>3
    DEF AimHolds, StopHolds, LaunchHolds, RestHolds, Holding, Stops
  <2>6. KillHolds(s)
    BY <2>2, <2>4 DEF KillHolds
  <2> QED
    BY <1>b, <2>1, <2>5, <2>6, Becomes, HandlerGoesAlone DEF SerialInv, HandlerHolds, s
<1> QED
  BY <1>1, <1>2, <1>3

(* The loop is over, or the drain.                                          *)
LEMMA DoneHolds ==
  ASSUME OneHandler, SerialInv, ChildInv', NEW t \in Threads,
         TargetsDone(t) \/ Wait(t) \/ Drained(t)
  PROVE  SerialInv'
<1> DEFINE th == thread[t]
<1>a. /\ TypeOK /\ Typed /\ World /\ th \in Thread /\ HandlerHolds(th) /\ Ended
      /\ th.mp \in {Nil} \union Launches
  BY SerialTyped DEF SerialInv, Typed, AllHold, ChildInv
<1>b. Kept
  BY DEF TargetsDone, Wait, Drained, Kept, memory, os, exits
<1>1. CASE TargetsDone(t)
  <2>a. th.pc = "next" /\ th.todo = {}
    BY <1>1 DEF TargetsDone, At
  <2> DEFINE over == [th EXCEPT !.mp = Nil, !.job = NoJob]
             drain == [over EXCEPT !.pc = "drain"]
             report == [over EXCEPT !.pc = "outcome", !.outcome = "ok"]
             save == [over EXCEPT !.pc = "autosave"]
  <2>1. /\ drain.pc = "drain" /\ drain.op = th.op /\ drain.todo = {}
        /\ report.pc = "outcome" /\ report.op = th.op /\ report.todo = {}
        /\ save.pc = "autosave" /\ save.op = th.op /\ save.todo = {}
    BY <1>a, <2>a DEF Thread
  <2>2. \/ Return(t) /\ th.op # "kill"
        \/ Become(t, drain) /\ th.op = "kill"
        \/ (Become(t, report) \/ Become(t, save)) /\ th.op # "kill"
    BY <1>1 DEF TargetsDone
  <2> HIDE DEF drain, report, save
  <2>3. CASE Return(t)
    BY <1>b, <2>3, <2>a, ReturnGoes
  <2>4. CASE Become(t, drain) /\ th.op = "kill"
    <3>1. \A m \in Launches : ~Untold(m)
      BY <1>a, <2>4, <2>a DEF HandlerHolds, KillHolds
    <3>2. HandlerHolds(drain)
      BY <1>a, <2>1, <2>4, <2>a, <3>1
      DEF HandlerHolds, AimHolds, StopHolds, LaunchHolds, KillHolds, RestHolds, Holding
    <3> QED
      BY <1>b, <2>4, <3>2, Becomes, HandlerGoesAlone DEF SerialInv
  <2>5. CASE (Become(t, report) \/ Become(t, save)) /\ th.op # "kill"
    <3>1. Loose(report) /\ Loose(save)
      BY <2>1, <2>5 DEF Loose, Holding
    <3> QED
      BY <1>b, <2>5, <2>a, <3>1, LooseBecomes
  <2> QED
    BY <2>2, <2>3, <2>4, <2>5
<1>2. CASE Wait(t)
  <2>1. th.pc = "wait" /\ watching[th.mp] # "on"
    BY <1>2 DEF Wait, At
  <2>2. PICK s : Goes(t, s, "settle") /\ s.mp = th.mp /\ s.job = th.job
    BY <1>2, <1>a, GotoGoes DEF Wait
  <2>3. s.pc = "settle" /\ s.op = th.op /\ s.todo = th.todo /\ Become(t, s)
    BY <2>2 DEF Goes
  <2>4. AimHolds(s) /\ StopHolds(s) /\ LaunchHolds(s)
    BY <1>a, <2>1, <2>2, <2>3 DEF HandlerHolds, AimHolds, StopHolds, LaunchHolds, Holding
  <2>5. KillHolds(s)
    BY <1>a, <2>1, <2>2, <2>3 DEF HandlerHolds, KillHolds
  <2>6. RestHolds(s)
    BY <1>a, <2>1, <2>2, <2>3 DEF HandlerHolds, RestHolds
  <2> QED
    BY <1>b, <2>3, <2>4, <2>5, <2>6, Becomes, HandlerGoesAlone DEF SerialInv, HandlerHolds
<1>3. CASE Drained(t)
  <2>1. th.pc = "drain"
    BY <1>3 DEF Drained, At
  <2>2. PICK s : Goes(t, s, "exit") /\ s.mp = th.mp /\ (s.outcome = "ok" => Counted = {})
    BY <1>3, <1>a, DrainGoes
  <2>3. th.op = "kill" /\ th.todo = {} /\ \A m \in Launches : ~Untold(m)
    BY <1>a, <2>1 DEF HandlerHolds, KillHolds
  <2>5. s.pc = "exit" /\ s.op = "kill" /\ s.todo = {} /\ Become(t, s)
    BY <2>2, <2>3 DEF Goes
  <2>6. HandlerHolds(s)
    BY <1>a, <2>1, <2>2, <2>3, <2>5
    DEF HandlerHolds, AimHolds, StopHolds, LaunchHolds, KillHolds, RestHolds, Holding
  <2> QED
    BY <1>b, <2>5, <2>6, Becomes, HandlerGoesAlone DEF SerialInv
<1> QED
  BY <1>1, <1>2, <1>3

LEMMA SomeApp == Apps # {}
<1>1. PICK r \in StartRequests : r.apps \in Seq(App) /\ r.apps # <<>>
  BY RequestsAssumption
<1>2. 1 \in DOMAIN r.apps
  BY <1>1
<1>3. r.apps[1] \in {r.apps[i] : i \in DOMAIN r.apps}
  BY <1>2
<1> QED
  BY <1>3 DEF Apps

(* Of two homes, one is the launch's own: it has at most one to replace.    *)
LEMMA OneFound ==
  ASSUME TwoHomes, TypeOK, Keyed, NEW app \in Apps \union {NoApp},
         NEW j \in FindExisting(registry, app), NEW k \in FindExisting(registry, app)
  PROVE  j = k
<1>1. PICK home : /\ home \in Apps /\ home.ns = NoApp.ns /\ home.name = NoApp.name
                  /\ home.cfg = NoApp.cfg
  <2>1. anApp \in Apps /\ anApp \in App
    BY SomeApp, AppTypes DEF anApp
  <2> QED
    BY <2>1 DEF NoApp, App
<1>2. \A a, b, c \in Apps \union {NoApp} :
        (/\ a.name = b.name /\ b.name = c.name
         /\ a.cfg = b.cfg /\ b.cfg = c.cfg /\ a.cfg # NoConfig) =>
           a.ns = b.ns \/ b.ns = c.ns \/ a.ns = c.ns
  BY <1>1 DEF TwoHomes
<1>3. CASE cronKey(app) \in Registered(registry)
  BY <1>3 DEF FindExisting
<1>4. CASE cronKey(app) \notin Registered(registry)
  <2>1. ASSUME NEW i \in FindExisting(registry, app)
        PROVE  LET a == registry[i].app
               IN  /\ a \in Apps \union {NoApp} /\ cronKey(a) = i /\ a.name = app.name
                   /\ a.cfg = app.cfg /\ app.cfg # NoConfig /\ a.ns # app.ns
    <3>1. /\ i \in Keys /\ i \in Registered(registry) /\ registry[i].run # Nil
          /\ app.cfg # NoConfig /\ i[2] = app.name /\ registry[i].app.cfg = app.cfg
      BY <1>4 DEF FindExisting, Registered
    <3>2. registry[i].app \in Apps \union {NoApp} /\ cronKey(registry[i].app) = i
      BY <3>1 DEF TypeOK, Entry, Keyed
    <3>3. registry[i].app.name = app.name
      BY <3>1, <3>2 DEF cronKey
    <3>4. registry[i].app.ns # app.ns
      BY <1>4, <3>1, <3>2, <3>3 DEF cronKey
    <3> QED
      BY <3>1, <3>2, <3>3, <3>4
  <2>2. registry[j].app.ns = registry[k].app.ns
    BY <1>2, <2>1
  <2> QED
    BY <2>1, <2>2 DEF cronKey
<1> QED
  BY <1>3, <1>4

(* What a launch finds is under its own key or is what the file calls so.   *)
LEMMA FoundAkin ==
  ASSUME Keyed, NEW app, NEW k \in FindExisting(registry, app)
  PROVE  /\ k \in Keys /\ registry[k].run # Nil /\ cronKey(registry[k].app) = k
         /\ k = cronKey(app) \/ Twins(registry[k].app, app)
<1>1. k \in Keys /\ registry[k].run # Nil /\ cronKey(registry[k].app) = k
  BY FoundIsRegistered DEF Registered, Keyed
<1>2. CASE cronKey(app) \in Registered(registry)
  BY <1>1, <1>2 DEF FindExisting
<1>3. CASE cronKey(app) \notin Registered(registry)
  <2>1. app.cfg # NoConfig /\ k[2] = app.name /\ registry[k].app.cfg = app.cfg
    BY <1>3 DEF FindExisting
  <2>2. registry[k].app.name = k[2]
    BY <1>1 DEF cronKey
  <2> QED
    BY <1>1, <2>1, <2>2 DEF Twins
<1> QED
  BY <1>2, <1>3

(* StartApp's loop.                                                         *)
LEMMA LookupHolds ==
  ASSUME OneHandler, TwoHomes, SerialInv, ChildInv', NEW t \in Threads,
         Lookup(t) \/ StartAppDone(t)
  PROVE  SerialInv'
<1> DEFINE th == thread[t]
<1>a. /\ TypeOK /\ Typed /\ World /\ th \in Thread /\ HandlerHolds(th)
      /\ \A m \in Launches : key[m] \in Keys /\ m # Nil
  BY SerialTyped DEF SerialInv, Typed, AllHold, TypeOK
<1>b. Kept /\ th.pc = "lookup"
  BY DEF Lookup, StartAppDone, At, Kept, memory, os, exits
<1>c. /\ \A m \in Launches : ~(watching[m] = "on" /\ child[m] = "termed")
      /\ \A k \in Keys : schedule[k] = Due(registry[k])
  BY <1>a, <1>b DEF HandlerHolds, RestHolds
<1>d. th.op \in {"start", "resurrect"} /\ th.todo = {}
  BY <1>a, <1>b DEF HandlerHolds, AimHolds
<1>1. CASE Lookup(t)
  <2> DEFINE app == Head(th.rest)
             found == FindExisting(registry, app)
             launch == [th EXCEPT !.job.app = app, !.pc = "fork"]
             stop(k) == [launch EXCEPT !.mp = registry[k].run, !.pc = "unschedule"]
             fail == [th EXCEPT !.rest = <<>>]
  <2>1. app \in Apps \union {NoApp}
    <3>1. th.rest # <<>> /\ th.rest \in Seq(Apps \union {NoApp})
      BY <1>1, <1>a DEF Lookup, Thread
    <3> QED
      BY <3>1
  <2>2. cronKey(app) \in Keys /\ (\A j, k \in found : j = k)
        /\ found \subseteq Registered(registry)
    BY <1>a, <2>1, OneFound, KeyTypes, FoundIsRegistered DEF World
  <2>3. found = {} => registry[cronKey(app)].run = Nil
    BY <2>2, FoundOwn
  <2>4. \/ found = {} /\ Become(t, launch)
        \/ \E k \in found : Become(t, stop(k))
        \/ Become(t, fail)
    BY <1>1 DEF Lookup
  <2> HIDE DEF app
  <2>5. launch.pc = "fork" /\ launch.op = th.op /\ launch.todo = th.todo /\ launch.job.app = app
    BY <1>a DEF Thread, Job
  <2>6. ASSUME NEW k \in found
        PROVE  /\ stop(k).pc = "unschedule" /\ stop(k).op = th.op /\ stop(k).todo = th.todo
               /\ stop(k).job.app = app /\ stop(k).mp = registry[k].run
    BY <1>a DEF Thread, Job
  <2>7. fail.pc = "lookup" /\ fail.op = th.op /\ fail.todo = th.todo
    BY <1>a, <1>b DEF Thread
  <2> HIDE DEF launch, fail, stop, found
  <2>8. CASE found = {} /\ Become(t, launch)
    <3>1. schedule[cronKey(app)] = NoApp
      BY <1>c, <2>2, <2>3, <2>8 DEF Due
    <3>2. HandlerHolds(launch)
      BY <1>c, <1>d, <2>3, <2>5, <2>8, <3>1
      DEF found, HandlerHolds, AimHolds, StopHolds, LaunchHolds, KillHolds, RestHolds, Holding
    <3> QED
      BY <1>b, <2>8, <3>2, Becomes, HandlerGoesAlone DEF SerialInv
  <2>9. ASSUME NEW k \in found, Become(t, stop(k)) PROVE SerialInv'
    <3>1. /\ FindExisting(registry, app) = {k}
          /\ registry[k].run # Nil /\ key[registry[k].run] = k
      BY <1>a, <2>2 DEF Registered, World, Keyed, found
    <3>2. HandlerHolds(stop(k))
      BY <1>c, <1>d, <2>6, <3>1
      DEF HandlerHolds, AimHolds, StopHolds, LaunchHolds, KillHolds, RestHolds, Holding
    <3> QED
      BY <1>b, <2>9, <3>2, Becomes, HandlerGoesAlone DEF SerialInv
  <2>10. CASE Become(t, fail)
    <3>1. Loose(fail)
      BY <1>d, <2>7 DEF Loose, Holding
    <3> QED
      BY <1>b, <2>10, <3>1, LooseBecomes
  <2> QED
    BY <2>4, <2>8, <2>9, <2>10
<1>2. CASE StartAppDone(t)
  <2> DEFINE save == [th EXCEPT !.job = NoJob, !.pc = "autosave"]
  <2>1. Become(t, save) \/ (th.op = "resurrect" /\ Goto(t, "replay")) \/ Return(t)
    BY <1>2 DEF StartAppDone
  <2>2. save.pc = "autosave" /\ save.op = th.op /\ save.todo = th.todo
    BY <1>a DEF Thread
  <2> HIDE DEF save
  <2>3. CASE Become(t, save)
    <3>1. Loose(save)
      BY <1>d, <2>2 DEF Loose, Holding
    <3> QED
      BY <1>b, <2>3, <3>1, LooseBecomes
  <2>4. CASE th.op = "resurrect" /\ Goto(t, "replay")
    <3>1. PICK s : Goes(t, s, "replay")
      BY <1>a, <2>4, GotoGoes
    <3> QED
      BY <1>b, <1>d, <2>4, <3>1, GoesLoose DEF Errands
  <2> QED
    BY <1>b, <2>1, <2>3, <2>4, ReturnGoes
<1> QED
  BY <1>1, <1>2

(* Failed launches, the overlap guard and the outcome of a fire.            *)
LEMMA ErrandHolds ==
  ASSUME OneHandler, SerialInv, ChildInv', NEW t \in Threads,
         ForkFails(t) \/ Guard(t) \/ Outcome(t)
  PROVE  SerialInv'
<1> DEFINE th == thread[t]
<1>a. /\ TypeOK /\ Typed /\ World /\ th \in Thread /\ HandlerHolds(th) /\ InHand(th)
  BY SerialTyped DEF SerialInv, Typed, AllHold, AllInHand
<1>b. th.pc \in {"fork", "guard", "outcome"} /\ th.op # "kill"
  BY <1>a DEF ForkFails, Guard, Outcome, At, HandlerHolds, KillHolds
<1>1. CASE ForkFails(t)
  <2>a. Kept
    BY <1>1 DEF ForkFails, Kept, memory, os, exits
  <2> DEFINE over == [th EXCEPT !.rest = <<>>, !.pc = "lookup"]
             report == [th EXCEPT !.outcome = "failed", !.pc = "outcome"]
  <2>1. \/ th.op \in {"start", "resurrect"} /\ Become(t, over)
        \/ Goto(t, "next") \/ Become(t, report) \/ Return(t)
    BY <1>1 DEF ForkFails
  <2>2. /\ over.pc = "lookup" /\ over.op = th.op /\ over.todo = th.todo
        /\ report.pc = "outcome" /\ report.op = th.op /\ report.todo = th.todo
    BY <1>a DEF Thread
  <2> HIDE DEF over, report
  <2>3. CASE th.op \in {"start", "resurrect"} /\ Become(t, over)
    <3>1. Goes(t, over, "lookup")
      BY <2>2, <2>3 DEF Goes
    <3> QED
      BY <1>b, <2>3, <2>a, <3>1, GoesLoose DEF Errands
  <2>4. CASE Become(t, report)
    <3>1. Goes(t, report, "outcome")
      BY <2>2, <2>4 DEF Goes
    <3> QED
      BY <1>b, <2>a, <3>1, GoesLoose DEF Errands
  <2>5. CASE Goto(t, "next")
    <3>1. PICK s : Goes(t, s, "next")
      BY <1>a, <2>5, GotoGoes
    <3> QED
      BY <1>b, <2>a, <3>1, GoesLoose DEF Errands
  <2> QED
    BY <1>b, <2>1, <2>3, <2>4, <2>5, <2>a, ReturnGoes
<1>2. CASE Guard(t)
  <2>a. Kept /\ th.pc = "guard"
    BY <1>2 DEF Guard, At, Kept, memory, os, exits
  <2> DEFINE skip == [th EXCEPT !.outcome = "skipped", !.pc = "outcome"]
             go == [th EXCEPT !.pc = "unschedule"]
  <2>1. Become(t, skip) \/ Become(t, go)
    BY <1>2 DEF Guard
  <2>2. /\ skip.pc = "outcome" /\ skip.op = th.op /\ skip.todo = th.todo
        /\ go.pc = "unschedule" /\ go.op = th.op /\ go.todo = th.todo
        /\ go.mp = th.mp /\ go.job = th.job
    BY <1>a DEF Thread
  <2> HIDE DEF skip, go
  <2>3. CASE Become(t, skip)
    <3>1. Goes(t, skip, "outcome")
      BY <2>2, <2>3 DEF Goes
    <3> QED
      BY <1>b, <2>a, <3>1, GoesLoose DEF Errands
  <2>4. CASE Become(t, go)
    <3>1. AimHolds(go) /\ StopHolds(go) /\ LaunchHolds(go) /\ KillHolds(go)
      BY <1>a, <1>b, <2>2, <2>a
      DEF HandlerHolds, AimHolds, StopHolds, LaunchHolds, KillHolds, Holding
    <3>2. RestHolds(go)
      BY <1>a, <2>a, <2>2 DEF HandlerHolds, RestHolds
    <3> QED
      BY <2>4, <2>a, <3>1, <3>2, Becomes, HandlerGoesAlone DEF SerialInv, HandlerHolds
  <2> QED
    BY <2>1, <2>3, <2>4
<1>3. CASE Outcome(t)
  <2>1. Mild
    <3>1. UNCHANGED <<key, schedule, child, watching>> /\ journal \subseteq journal'
      BY <1>3 DEF Outcome, os
    <3>2. SameEntries
      <4>1. UpdateInfo(th.fire, [registry[th.fire] EXCEPT !.cronStatus = th.outcome])
        BY <1>3 DEF Outcome
      <4> QED
        BY <1>a, <4>1 DEF UpdateInfo, SameEntries, Same, TypeOK, Entry
    <3> QED
      BY <3>1, <3>2 DEF Mild, Ends
  <2> QED
    BY <1>3, <1>b, <2>1, ReturnGoes DEF Outcome
<1> QED
  BY <1>1, <1>2, <1>3

-----------------------------------------------------------------------------
(* The steps of stopProcess and of launchProcessWith.                       *)

LEMMA StopStepHolds ==
  ASSUME OneHandler, SerialInv, ChildInv', NEW t \in Threads,
         Unschedule(t) \/ Mark(t) \/ StopTimeout(t)
  PROVE  SerialInv'
<1>1. PICK th \in Thread : th = thread[t]
  BY SerialTyped DEF SerialInv, Typed
<1> DEFINE mp == th.mp
           k == key[mp]
<1>a. /\ TypeOK /\ Typed /\ World /\ HandlerHolds(th)
      /\ \A m \in Launches : key[m] \in Keys /\ m # Nil
      /\ th.todo \subseteq Launches /\ cronKey(th.job.app) \in Keys
      /\ registry \in [Keys -> Entry] /\ child \in [Launches -> Children]
      /\ schedule \in [Keys -> Apps \union {NoApp}]
  <2>1. TypeOK /\ Typed /\ World /\ HandlerHolds(th)
    BY <1>1, SerialTyped DEF SerialInv, AllHold
  <2>2. th.todo \subseteq Launches /\ cronKey(th.job.app) \in Keys
    BY <1>1, InPlace DEF SerialInv
  <2> QED
    BY <2>1, <2>2, KeyTypes DEF TypeOK
<1>b. th.pc \in {"unschedule", "mark", "wait"} /\ mp \in Launches /\ k \in Keys
  BY <1>1, <1>a, InPlace DEF Unschedule, Mark, StopTimeout, At, Holding, SerialInv
<1>c. /\ registry[k].run = mp /\ mp \notin th.todo
      /\ th.op \notin Stops => FindExisting(registry, th.job.app) = {k}
      /\ \A m \in th.todo : registry[key[m]].run = m
      /\ th.op \in {"start", "resurrect"} => th.todo = {}
  BY <1>a, <1>b DEF HandlerHolds, AimHolds, Holding
<1>d. UNCHANGED <<key, watching, journal>>
  BY DEF Unschedule, Mark, StopTimeout, exits, memory
<1>2. CASE Unschedule(t)
  <2>1. PICK s : Goes(t, s, "mark") /\ s.mp = th.mp /\ s.job = th.job
    BY <1>1, <1>2, <1>a, GotoGoes DEF Unschedule
  <2>2. s.pc = "mark" /\ s.op = th.op /\ s.todo = th.todo /\ Become(t, s)
    BY <1>1, <2>1 DEF Goes
  <2>3. schedule' = [schedule EXCEPT ![k] = NoApp] /\ UNCHANGED <<registry, child>>
    BY <1>1, <1>2 DEF Unschedule
  <2>4. World'
    BY <1>d, <2>3 DEF World, Keyed, NoLostChild, PausesHold, Untold, Recorded
       , SerialInv
  <2>5. AimHolds(s)'
    BY <1>c, <1>d, <2>1, <2>2, <2>3 DEF AimHolds
  <2>6. StopHolds(s)' /\ LaunchHolds(s)'
    BY <1>a, <1>b, <1>d, <2>1, <2>2, <2>3 DEF StopHolds, LaunchHolds
  <2>7. KillHolds(s)'
    BY <1>2, <1>1, <1>a, <1>d, <2>1, <2>2, <2>3 DEF HandlerHolds, KillHolds, Untold, Unschedule, At
  <2>8. RestHolds(s)'
    <3>1. th.pc = "unschedule"
      BY <1>1, <1>2 DEF Unschedule, At
    <3>2. \A j \in Keys : schedule[j] = Due(registry[j])
      BY <1>a, <3>1 DEF HandlerHolds, RestHolds
    <3>3. \A j \in Keys : Due(registry[j])' = Due(registry[j])
      BY <2>3 DEF Due
    <3>4. \A j \in Keys : schedule'[j] = Due(registry[j])' \/ (s.pc = "mark" /\ j = key'[s.mp])
      BY <1>a, <1>d, <2>1, <2>2, <2>3, <3>2, <3>3
    <3>5. \A m \in Launches : ~(watching[m] = "on" /\ child[m] = "termed")
      BY <1>a, <3>1 DEF HandlerHolds, RestHolds
    <3> QED
      BY <1>d, <2>3, <3>4, <3>5 DEF RestHolds
  <2> QED
    BY <1>a, <2>2, <2>4, <2>5, <2>6, <2>7, <2>8, Becomes, HandlerGoes
    DEF SerialInv, HandlerHolds
<1>3. CASE StopTimeout(t)
  <2>1. PICK s : Goes(t, s, "settle") /\ s.mp = th.mp /\ s.job = th.job
    BY <1>1, <1>3, <1>a, GotoGoes DEF StopTimeout
  <2>2. s.pc = "settle" /\ s.op = th.op /\ s.todo = th.todo /\ Become(t, s) /\ th.pc = "wait"
    BY <1>1, <1>3, <2>1 DEF Goes, StopTimeout, At
  <2>3. child' = [child EXCEPT ![mp] = "killed"] /\ UNCHANGED <<registry, schedule>>
    BY <1>1, <1>3 DEF StopTimeout, memory
  <2>4. \A m \in Launches : child'[m] \in {"running", "termed"} => child'[m] = child[m] /\ m # mp
    BY <1>a, <1>b, <2>3
  <2>5. World'
    BY <1>a, <1>d, <2>3, <2>4 DEF World, Keyed, NoLostChild, PausesHold, Untold, Recorded, Typed
  <2>6. AimHolds(s)'
    BY <1>c, <1>d, <2>1, <2>2, <2>3 DEF AimHolds
  <2>7. StopHolds(s)' /\ LaunchHolds(s)'
    BY <1>a, <1>b, <1>d, <2>1, <2>2, <2>3, <2>4 DEF StopHolds, LaunchHolds, HandlerHolds
  <2>8. KillHolds(s)'
    BY <1>a, <1>d, <2>1, <2>2, <2>4 DEF HandlerHolds, KillHolds, Untold
  <2>9. RestHolds(s)'
    <3>1. \A j \in Keys : schedule[j] = Due(registry[j])
      BY <1>a, <2>2 DEF HandlerHolds, RestHolds
    <3>2. \A j \in Keys : schedule'[j] = Due(registry[j])'
      BY <2>3, <3>1 DEF Due
    <3>3. \A m \in Launches : ~(watching'[m] = "on" /\ child'[m] = "termed")
      BY <1>a, <1>d, <2>2, <2>4 DEF HandlerHolds, RestHolds
    <3> QED
      BY <3>2, <3>3 DEF RestHolds
  <2> QED
    BY <1>a, <2>2, <2>5, <2>6, <2>7, <2>8, <2>9, Becomes, HandlerGoes
    DEF SerialInv, HandlerHolds
<1>4. CASE Mark(t)
  <2> DEFINE label == IF child[mp] = "none" THEN "settle" ELSE "wait"
             entry == registry[k]
             f == [entry EXCEPT !.stopping = TRUE,
                                !.status = IF entry.paused THEN @ ELSE "stopping"]
  <2>1. PICK s : Goes(t, s, label) /\ s.mp = th.mp /\ s.job = th.job
    BY <1>1, <1>4, <1>a, GotoGoes DEF Mark
  <2>2. s.pc = label /\ s.op = th.op /\ s.todo = th.todo /\ Become(t, s) /\ th.pc = "mark"
    BY <1>1, <1>4, <2>1 DEF Goes, Mark, At
  <2>3. /\ registry' = [registry EXCEPT ![k] = f] /\ UNCHANGED schedule
        /\ child' = [child EXCEPT ![mp] = IF @ = "running" THEN "termed" ELSE @]
    BY <1>1, <1>4, <1>a, <1>b, <1>c DEF Mark, UpdateInfo, Present
  <2>4. /\ f.run = entry.run /\ f.app = entry.app /\ f.paused = entry.paused /\ f.pid = entry.pid
        /\ f.stopping = TRUE
    BY <1>a, <1>b DEF Entry
  <2> HIDE DEF f
  <2>5. \A j \in Keys : registry'[j] = IF j = k THEN f ELSE registry[j]
    BY <1>a, <2>3
  <2>6. /\ \A m \in Launches : child'[m] = "running" => child[m] = "running" /\ m # mp
        /\ \A m \in Launches : child'[m] = "termed" => child[m] = "termed" \/ m = mp
        /\ child[mp] = "none" => child'[mp] = "none"
    BY <1>a, <1>b, <2>3
  <2>7. World'
    BY <1>a, <1>d, <2>4, <2>5, <2>6
    DEF World, Keyed, NoLostChild, PausesHold, Untold, Recorded, Typed
  <2>8. AimHolds(s)'
    <3>1. \A j \in Keys : registry'[j].run = registry[j].run
      BY <2>4, <2>5
    <3>2. \A m \in s.todo : registry'[key'[m]].run = m
      BY <1>a, <1>c, <1>d, <2>2, <3>1
    <3>3. registry'[key'[s.mp]].run = s.mp
      BY <1>b, <1>c, <1>d, <2>1, <3>1
    <3>4. s.pc \notin {"lookup", "suppress", "replay"}
      BY <2>2
    <3>5. FindExisting(registry', th.job.app) = FindExisting(registry, th.job.app)
      BY <2>4, <2>5, FoundStays
    <3> QED
      BY <1>c, <1>d, <2>1, <2>2, <3>2, <3>3, <3>4, <3>5 DEF AimHolds
  <2>9. StopHolds(s)' /\ LaunchHolds(s)'
    BY <1>b, <1>d, <2>1, <2>2, <2>4, <2>5, <2>6 DEF StopHolds, LaunchHolds
  <2>10. KillHolds(s)'
    BY <1>a, <1>d, <2>1, <2>2, <2>6 DEF HandlerHolds, KillHolds, Untold
  <2>11. RestHolds(s)'
    <3>1. \A j \in Keys : schedule[j] = Due(registry[j]) \/ j = k
      BY <1>a DEF HandlerHolds, RestHolds
    <3>2. schedule[k] = NoApp
      BY <1>a, <2>2 DEF HandlerHolds, StopHolds
    <3>3. \A j \in Keys : schedule'[j] = Due(registry'[j])
      <4>1. Due(f) = NoApp
        BY <2>4 DEF Due
      <4> QED
        BY <2>3, <2>5, <3>1, <3>2, <4>1
    <3>4. \A j \in Keys : Due(registry[j])' = Due(registry'[j])
      BY DEF Due
    <3>5. \A m \in Launches :
            watching'[m] = "on" /\ child'[m] = "termed" => s.pc = "wait" /\ s.mp = m
      <4>1. \A m \in Launches : ~(watching[m] = "on" /\ child[m] = "termed")
        BY <1>a, <2>2 DEF HandlerHolds, RestHolds
      <4> QED
        BY <1>d, <2>1, <2>2, <2>6, <4>1
    <3> QED
      BY <3>3, <3>4, <3>5 DEF RestHolds
  <2> QED
    BY <1>a, <2>2, <2>7, <2>8, <2>9, <2>10, <2>11, Becomes, HandlerGoes
    DEF SerialInv, HandlerHolds
<1> QED
  BY <1>2, <1>3, <1>4

\* Nobody's child was asked to end, and no task lacks its schedule.
Rested ==
  /\ \A m \in Launches : ~(watching[m] = "on" /\ child[m] = "termed")
  /\ \A k \in Keys : schedule[k] = Due(registry[k])

LEMMA LooseRested ==
  ASSUME NEW s, Loose(s)', Rested' PROVE HandlerHolds(s)'
<1>1. AimHolds(s)' /\ StopHolds(s)' /\ LaunchHolds(s)' /\ KillHolds(s)'
  BY DEF Loose, Holding, AimHolds, StopHolds, LaunchHolds, KillHolds
<1>2. RestHolds(s)'
  BY DEF Rested, RestHolds
<1> QED
  BY <1>1, <1>2 DEF HandlerHolds

(* The child is stopped: the entry is forgotten, suspended or settled.      *)
LEMMA StoppedHolds ==
  ASSUME OneHandler, SerialInv, ChildInv', NEW t \in Threads,
         Settle(t) \/ Suspend(t) \/ Remove(t)
  PROVE  SerialInv'
<1>1. PICK th \in Thread : th = thread[t]
  BY SerialTyped DEF SerialInv, Typed
<1> DEFINE mp == th.mp
           k == key[mp]
           entry == registry[k]
<1>a. /\ TypeOK /\ Typed /\ World /\ HandlerHolds(th)
      /\ \A m \in Launches : key[m] \in Keys /\ m # Nil
      /\ th.todo \subseteq Launches /\ cronKey(th.job.app) \in Keys
      /\ registry \in [Keys -> Entry]
  <2>1. TypeOK /\ Typed /\ World /\ HandlerHolds(th)
    BY <1>1, SerialTyped DEF SerialInv, AllHold
  <2>2. th.todo \subseteq Launches /\ cronKey(th.job.app) \in Keys
    BY <1>1, InPlace DEF SerialInv
  <2> QED
    BY <2>1, <2>2, KeyTypes DEF TypeOK
<1>b. th.pc \in {"settle", "suspend", "remove"} /\ mp \in Launches /\ k \in Keys
  BY <1>1, <1>a, InPlace DEF Settle, Suspend, Remove, At, Holding, SerialInv
<1>c. /\ entry.run = mp /\ mp \notin th.todo /\ mp # Nil
      /\ th.op \notin Stops => FindExisting(registry, th.job.app) = {k}
      /\ \A m \in th.todo : registry[key[m]].run = m
      /\ th.op \in {"start", "resurrect"} => th.todo = {}
  BY <1>a, <1>b DEF HandlerHolds, AimHolds, Holding
<1>d. entry.stopping /\ child[mp] # "running" /\ (th.pc = "suspend" => entry.pid = Nil)
  BY <1>a, <1>b DEF HandlerHolds, StopHolds
<1>e. Rested /\ schedule[k] = NoApp
  <2>1. Rested
    BY <1>a, <1>b DEF HandlerHolds, RestHolds, Rested
  <2> QED
    BY <1>b, <1>d, <2>1 DEF Rested, Due
<1>f. UNCHANGED <<key, schedule, child, watching, journal>>
  BY DEF Settle, Suspend, Remove, os, exits
<1>g. \A m \in th.todo : key[m] # k
  BY <1>c
<1>2. CASE Settle(t)
  <2> DEFINE label == AfterStop(th.op)
             f == [entry EXCEPT !.pid = Nil, !.status = IF entry.paused THEN @ ELSE "stopped"]
  <2>1. label \in {"suspend", "remove", "next", "fork"} /\ label \in Labels
        /\ (label = "fork" => th.op \notin Stops) /\ (th.op = "kill" => label = "next")
    BY DEF AfterStop, Labels, Stops
  <2>2. Goto(t, label)
    BY <1>1, <1>2 DEF Settle
  <2> HIDE DEF label
  <2>3. PICK s : Goes(t, s, label) /\ s.mp = th.mp /\ s.job = th.job
    BY <1>1, <1>a, <2>1, <2>2, GotoGoes
  <2>4. s.pc = label /\ s.op = th.op /\ s.todo = th.todo /\ Become(t, s)
    BY <1>1, <2>3 DEF Goes
  <2>5. registry' = [registry EXCEPT ![k] = f]
    BY <1>1, <1>2, <1>c DEF Settle, UpdateInfo, Present
  <2>6. Same(entry, f) /\ f.pid = Nil
    BY <1>a, <1>b DEF Entry, Same
  <2> HIDE DEF f
  <2>7. \A j \in Keys : registry'[j] = IF j = k THEN f ELSE registry[j]
    BY <1>a, <2>5
  <2>8. \A j \in Keys : Same(registry[j], registry'[j])
    BY <2>6, <2>7 DEF Same
  <2>9. Mild
    BY <1>f, <2>8 DEF Mild, SameEntries, Ends
  <2>10. World'
    BY <1>a, <2>9, MildWorld
  <2>11. AimHolds(s)'
    <3>1. \A j \in Keys : registry'[j].run = registry[j].run
      BY <2>8 DEF Same
    <3>2. \A m \in s.todo : registry'[key'[m]].run = m
      BY <1>a, <1>c, <1>f, <2>4, <3>1
    <3>3. registry'[key'[s.mp]].run = s.mp
      BY <1>b, <1>c, <1>f, <2>3, <3>1
    <3>4. FindExisting(registry', th.job.app) = FindExisting(registry, th.job.app)
      BY <2>8, FoundStays DEF Same
    <3> QED
      BY <1>c, <1>f, <2>1, <2>3, <2>4, <3>2, <3>3, <3>4 DEF AimHolds
  <2>12. StopHolds(s)'
    <3>1. registry'[k] = f /\ f.stopping
      BY <1>b, <1>d, <2>6, <2>7 DEF Same
    <3> QED
      BY <1>d, <1>f, <2>1, <2>3, <2>4, <2>6, <3>1 DEF StopHolds
  <2>13. LaunchHolds(s)'
    <3> SUFFICES ASSUME s.pc = "fork" PROVE LaunchHolds(s)'
      BY <2>1, <2>4 DEF LaunchHolds
    <3> DEFINE own == cronKey(s.job.app)
    <3>1. FindExisting(registry, s.job.app) = {k} /\ own \in Keys
      BY <1>a, <1>c, <2>1, <2>3, <2>4
    <3>2. registry'[k].run = mp /\ ~Untold(mp)' /\ schedule'[k] = NoApp
      BY <1>b, <1>c, <1>d, <1>e, <1>f, <2>8 DEF Same, Untold
    <3>3. FindExisting(registry', s.job.app) = {k}
      BY <2>8, <3>1, FoundStays DEF Same
    <3>4. registry[own].run # Nil => own = k
      BY <3>1, FoundOwn
    <3>5. schedule'[own] = NoApp
      <4>1. CASE own = k
        BY <3>2, <4>1
      <4>2. CASE registry[own].run = Nil
        BY <1>e, <1>f, <3>1, <4>2 DEF Rested, Due
      <4> QED
        BY <3>4, <4>1, <4>2
    <3>6. \A m \in s.todo : key'[m] # own /\ key'[m] # k
      BY <1>a, <1>c, <1>f, <1>g, <2>4, <3>4
    <3> HIDE DEF own
    <3> QED
      BY <2>4, <3>2, <3>3, <3>5, <3>6 DEF LaunchHolds, own
  <2>14. KillHolds(s)'
    BY <1>a, <1>b, <1>f, <2>1, <2>4 DEF HandlerHolds, KillHolds, Untold
  <2>15. RestHolds(s)'
    <3>1. \A j \in Keys : Due(registry[j])' = Due(registry[j])
      <4>1. \A j \in Keys : Due(registry'[j]) = Due(registry[j])
        BY <2>8, DueSame
      <4> QED
        BY <4>1 DEF Due
    <3> QED
      BY <1>e, <1>f, <3>1 DEF Rested, RestHolds
  <2> QED
    BY <1>a, <2>4, <2>10, <2>11, <2>12, <2>13, <2>14, <2>15, Becomes, HandlerGoes
    DEF SerialInv, HandlerHolds
<1>3. CASE Suspend(t) \/ Remove(t)
  <2>1. PICK s : Goes(t, s, "next")
    BY <1>1, <1>3, <1>a, GotoGoes DEF Suspend, Remove
  <2>2. s.pc = "next" /\ s.op = th.op /\ s.todo = th.todo /\ Become(t, s)
    BY <1>1, <2>1 DEF Goes
  <2>3. PICK f : /\ registry' = [registry EXCEPT ![k] = f] /\ Due(f) = NoApp
                 /\ f.run # Nil =>
                      f.run = mp /\ f.pid = Nil /\ cronKey(f.app) = cronKey(entry.app)
    <3>1. CASE Suspend(t)
      <4> DEFINE f == [entry EXCEPT !.paused = TRUE, !.status = "paused"]
      <4>1. registry' = [registry EXCEPT ![k] = f]
        BY <1>1, <1>c, <3>1 DEF Suspend, UpdateInfo, Present
      <4>2. entry.pid = Nil
        BY <1>1, <1>d, <3>1 DEF Suspend, At
      <4>3. f.run = mp /\ f.pid = Nil /\ f.app = entry.app /\ f.paused
        BY <1>a, <1>b, <1>c, <4>2 DEF Entry
      <4> HIDE DEF f
      <4> QED
        BY <4>1, <4>3 DEF Due
    <3>2. CASE Remove(t)
      BY <1>1, <3>2, KeyTypes DEF Remove, Due
    <3> QED
      BY <1>3, <3>1, <3>2
  <2>4. \A j \in Keys : registry'[j] = IF j = k THEN f ELSE registry[j]
    BY <1>a, <2>3
  <2>5. \A m \in Launches : Untold(m)' => Untold(m) /\ m # mp
    BY <1>d, <1>f DEF Untold
  <2>6. World'
    <3>1. Keyed'
      BY <1>a, <1>b, <1>c, <1>f, <2>3, <2>4 DEF World, Keyed
    <3>2. NoLostChild'
      <4> SUFFICES ASSUME NEW m \in Launches, Untold(m)' PROVE registry'[key'[m]].run = m
        BY DEF NoLostChild, Untold
      <4>1. registry[key[m]].run = m /\ m # mp
        BY <1>a, <2>5 DEF World, NoLostChild, Untold
      <4>2. key[m] # k
        BY <1>c, <4>1
      <4> QED
        BY <1>a, <1>f, <2>4, <4>1, <4>2
    <3>3. PausesHold'
      <4>1. ~Untold(mp)'
        BY <1>b, <2>5
      <4>2. \A j \in Keys : registry[j].run # Nil => registry[j].run \in Launches
        BY <1>a DEF Typed
      <4> QED
        BY <1>a, <2>3, <2>4, <2>5, <4>1, <4>2 DEF World, PausesHold
    <3>4. Recorded'
      BY <1>a, <1>f DEF World, Recorded
    <3> QED
      BY <3>1, <3>2, <3>3, <3>4 DEF World
  <2>7. Rested'
    <3>1. \A j \in Keys : Due(registry[j])' = Due(registry'[j])
      BY DEF Due
    <3>2. \A j \in Keys : schedule'[j] = Due(registry'[j])
      BY <1>e, <1>f, <2>3, <2>4 DEF Rested
    <3> QED
      BY <1>e, <1>f, <3>1, <3>2 DEF Rested
  <2>8. Loose(s)'
    <3>1. s.op # "kill"
      BY <1>1, <1>3, <1>a, <2>2 DEF HandlerHolds, KillHolds, Suspend, Remove, At
    <3>2. \A m \in s.todo : registry'[key'[m]].run = m
      BY <1>a, <1>c, <1>f, <1>g, <2>2, <2>4
    <3> QED
      BY <1>c, <2>2, <3>1, <3>2 DEF Loose, Holding
  <2> QED
    BY <1>a, <2>2, <2>6, <2>7, <2>8, LooseRested, Becomes, HandlerGoes DEF SerialInv
<1> QED
  BY <1>2, <1>3

(* executor.Start: the new launch is nobody's target yet.                   *)
LEMMA ForkHolds ==
  ASSUME OneHandler, SerialInv, ChildInv', NEW t \in Threads, Fork(t) PROVE SerialInv'
<1>1. PICK th \in Thread : th = thread[t]
  BY SerialTyped DEF SerialInv, Typed
<1>2. PICK n : n = nextLaunch
  OBVIOUS
<1>3. PICK s : s = [th EXCEPT !.new = n, !.pc = "install"]
  OBVIOUS
<1> DEFINE k == cronKey(th.job.app)
<1>a. /\ TypeOK /\ Typed /\ World /\ HandlerHolds(th)
      /\ th.todo \subseteq Launches /\ k \in Keys
      /\ key \in [Launches -> Keys] /\ child \in [Launches -> Children]
  <2>1. TypeOK /\ Typed /\ World /\ HandlerHolds(th)
    BY <1>1, SerialTyped DEF SerialInv, AllHold
  <2>2. th.todo \subseteq Launches /\ k \in Keys
    BY <1>1, InPlace DEF SerialInv
  <2> QED
    BY <2>1, <2>2 DEF TypeOK
<1>b. /\ n \in Launches /\ th.pc = "fork" /\ Become(t, s)
      /\ UNCHANGED <<registry, schedule, watching, journal>>
      /\ key' = [key EXCEPT ![n] = k]
      /\ child' = [child EXCEPT ![n] = IF NoChild(th.job) THEN "none" ELSE "running"]
  BY <1>1, <1>2, <1>3 DEF Fork, At, memory, exits
<1>c. /\ watching[n] = "off" /\ n \notin th.todo /\ \A j \in Keys : registry[j].run # n
  <2>1. n \in Nat /\ n # Nil /\ Unforked /\ AllManaged
    BY <1>a, <1>b DEF Typed, SerialInv, ChildInv
  <2>2. watching[n] = "off" /\ ~Managed(n)
    BY <1>2, <1>b, <2>1 DEF Unforked, Managed
  <2> QED
    BY <1>1, <2>1, <2>2 DEF AllManaged
<1>d. s.pc = "install" /\ s.new = n /\ s.op = th.op /\ s.todo = th.todo /\ s.job = th.job
  BY <1>3 DEF Thread
<1>e. /\ \A m \in Launches : m # n => key'[m] = key[m] /\ child'[m] = child[m]
      /\ key'[n] = k /\ child'[n] # "termed" /\ watching'[n] = "off"
  BY <1>a, <1>b, <1>c
<1>f. \A m \in Launches : Untold(m)' <=> Untold(m)
  BY <1>b, <1>c, <1>e DEF Untold
<1>g. \A j \in Keys : registry[j].run \in {Nil} \union Launches
  BY <1>a DEF Typed
<1>4. World'
  <2>1. Keyed' /\ PausesHold' /\ Recorded'
    BY <1>a, <1>b, <1>c, <1>e, <1>f, <1>g DEF World, Keyed, PausesHold, Recorded
  <2>2. NoLostChild'
    BY <1>a, <1>b, <1>c, <1>e DEF World, NoLostChild
  <2> QED
    BY <2>1, <2>2 DEF World
<1>5. AimHolds(s)'
  <2>1. \A m \in s.todo : registry'[key'[m]].run = m
    BY <1>a, <1>b, <1>c, <1>d, <1>e DEF HandlerHolds, AimHolds
  <2> QED
    BY <1>a, <1>d, <2>1 DEF HandlerHolds, AimHolds, Holding
<1>6. StopHolds(s)'
  BY <1>d DEF StopHolds
<1>7. LaunchHolds(s)'
  <2> DEFINE found == FindExisting(registry, th.job.app)
  <2>1. /\ \A m \in th.todo : key'[m] # k /\ key'[m] \notin found
        /\ \A e \in found : ~Untold(registry[e].run)
        /\ \A e \in found \ {k} : schedule'[e] = NoApp
    BY <1>a, <1>b, <1>c, <1>e DEF HandlerHolds, LaunchHolds
  <2>2. th.job.paused \/ th.job.app.kind = "plain" => schedule'[k] = NoApp
    BY <1>a, <1>b DEF HandlerHolds, LaunchHolds
  <2>3. \A e \in found : ~Untold(registry[e].run)'
    <3> SUFFICES ASSUME NEW e \in found PROVE ~Untold(registry[e].run)'
      OBVIOUS
    <3>1. e \in Keys /\ registry[e].run # Nil
      BY FoundIsRegistered DEF Registered
    <3>2. PICK m \in Launches : m = registry[e].run
      BY <1>g, <3>1
    <3>3. ~Untold(m)'
      BY <1>f, <2>1, <3>2
    <3> QED
      BY <1>b, <3>2, <3>3 DEF Untold
  <2>4. FindExisting(registry', th.job.app) = found
    BY <1>b
  <2> HIDE DEF found
  <2> QED
    BY <1>a, <1>b, <1>d, <1>e, <2>1, <2>2, <2>3, <2>4 DEF LaunchHolds
<1>8. KillHolds(s)'
  BY <1>a, <1>b, <1>d DEF HandlerHolds, KillHolds
<1>9. RestHolds(s)'
  <2>1. \A j \in Keys : Due(registry[j])' = Due(registry[j])
    BY <1>b DEF Due
  <2> QED
    BY <1>a, <1>b, <1>e, <2>1 DEF HandlerHolds, RestHolds
<1> QED
  BY <1>a, <1>b, <1>4, <1>5, <1>6, <1>7, <1>8, <1>9, Becomes, HandlerGoes
  DEF SerialInv, HandlerHolds

\* The callers of launchProcessWith go on with their targets or instances.
LEMMA LaunchedGoes ==
  ASSUME NEW th \in Thread, NEW s, s = Launched(th)
  PROVE  \/ s = Idle
         \/ /\ s.op = th.op /\ s.todo = th.todo /\ s.pc \in {"lookup", "outcome", "next"}
            /\ s.pc = "lookup" => th.op \in {"start", "resurrect"}
<1> DEFINE done == [th EXCEPT !.new = Nil, !.mp = Nil]
           looking == [done EXCEPT !.rest = Tail(@), !.launched = TRUE, !.pc = "lookup"]
           reporting == [done EXCEPT !.outcome = "running", !.pc = "outcome"]
           looping == [done EXCEPT !.pc = "next"]
<1>1. /\ done.todo = th.todo /\ done.op = th.op
      /\ DOMAIN done = DOMAIN th
      /\ {"rest", "launched", "pc", "outcome", "op", "todo"} \subseteq DOMAIN th
  BY DEF Thread
<1>2. \/ s = looking /\ th.op \in {"start", "resurrect"}
      \/ s = reporting \/ s = looping \/ s = Idle
  BY DEF Launched
<1> HIDE DEF done
<1>3. /\ looking.op = th.op /\ looking.todo = th.todo /\ looking.pc = "lookup"
      /\ reporting.op = th.op /\ reporting.todo = th.todo /\ reporting.pc = "outcome"
      /\ looping.op = th.op /\ looping.todo = th.todo /\ looping.pc = "next"
  BY <1>1
<1> HIDE DEF looking, reporting, looping
<1> QED
  BY <1>2, <1>3

\* What InstallOver registers.
LEMMA NewEntryIs ==
  ASSUME TypeOK, NEW job \in Job, NEW n \in Launches, NEW e, e = NoKey \/ e \in Keys
  PROVE  LET f == NewEntry(job, n, e)
         IN  /\ f.run = n /\ f.app = job.app /\ ~f.stopping /\ f.paused = job.paused
             /\ NoChild(job) => f.pid = Nil
<1> DEFINE base == IF e = NoKey THEN [Absent EXCEPT !.id = nextID] ELSE registry[e]
<1>1. base \in Entry
  BY KeyTypes DEF TypeOK, Entry
<1>2. NewEntry(job, n, e) =
        [base EXCEPT
           !.run = n, !.app = job.app, !.trigger = job.trigger,
           !.status = IF job.paused THEN "paused"
                      ELSE IF NoChild(job) THEN "stopped" ELSE "online",
           !.pid = IF NoChild(job) THEN Nil ELSE n,
           !.stopping = FALSE, !.paused = job.paused]
  BY DEF NewEntry
<1> HIDE DEF base
<1> QED
  BY <1>1, <1>2 DEF Entry

(* launchProcessWith: the launch is registered, and scheduled, or dropped.  *)
LEMMA InstallHolds ==
  ASSUME OneHandler, SerialInv, ChildInv', NEW t \in Threads, Install(t)
  PROVE  SerialInv'
<1>1. PICK th \in Thread : th = thread[t]
  BY SerialTyped DEF SerialInv, Typed
<1>2. PICK s : s = Launched(th)
  OBVIOUS
<1> DEFINE n == th.new
           job == th.job
           k == cronKey(job.app)
           found == FindExisting(registry, job.app)
<1>a. /\ TypeOK /\ Typed /\ World /\ HandlerHolds(th)
      /\ th.todo \subseteq Launches /\ job \in Job /\ k \in Keys
      /\ \A m \in Launches : key[m] \in Keys /\ m # Nil
      /\ registry \in [Keys -> Entry] /\ watching \in [Launches -> WatchStages]
      /\ schedule \in [Keys -> Apps \union {NoApp}]
  <2>1. TypeOK /\ Typed /\ World /\ HandlerHolds(th)
    BY <1>1, SerialTyped DEF SerialInv, AllHold
  <2>2. th.todo \subseteq Launches /\ job \in Job /\ k \in Keys
    BY <1>1, InPlace DEF SerialInv
  <2> QED
    BY <2>1, <2>2, KeyTypes DEF TypeOK
<1>b. th.pc = "install" /\ n \in Launches /\ Become(t, s) /\ UNCHANGED <<key, child, journal>>
  BY <1>1, <1>2, <1>a, InPlace DEF Install, At, os, SerialInv
<1>c. /\ watching[n] = "off" /\ child[n] # "termed" /\ key[n] = k
      /\ NoChild(job) => child[n] = "none"
      /\ \A j \in Keys : registry[j].run # n
  <2>1. watching[n] = "off" /\ (NoChild(job) => child[n] = "none") /\ Pending(n)
    BY <1>1, <1>b DEF SerialInv, ChildInv, Fresh, Pending
  <2>2. \A j \in Keys : registry[j].run # n
    BY <1>a, <1>b, <2>1 DEF SerialInv, ChildInv, AllManaged, Managed
  <2>3. child[n] # "termed" /\ key[n] = k
    BY <1>a, <1>b DEF HandlerHolds, LaunchHolds
  <2> QED
    BY <2>1, <2>2, <2>3
<1>d. /\ \A m \in th.todo :
           key[m] # k /\ key[m] \notin found /\ registry[key[m]].run = m
      /\ \A e \in found : ~Untold(registry[e].run)
      /\ \A e \in found \ {k} : schedule[e] = NoApp
      /\ job.paused \/ job.app.kind = "plain" => schedule[k] = NoApp
      /\ th.op # "kill" /\ (th.op \in {"start", "resurrect"} => th.todo = {})
  BY <1>a, <1>b DEF HandlerHolds, LaunchHolds, KillHolds, AimHolds
<1>e. Rested
  BY <1>a, <1>b DEF HandlerHolds, RestHolds, Rested
<1>f. \/ s = Idle
      \/ /\ s.op = th.op /\ s.todo = th.todo /\ s.pc \in {"lookup", "outcome", "next"}
         /\ s.pc = "lookup" => th.op \in {"start", "resurrect"}
  BY <1>2, LaunchedGoes
<1>g. Idle.pc = "idle" /\ Idle.op = "save" /\ Idle.todo = {}
  BY DEF Idle
<1>3. PICK e : /\ InstallOver(t, e) \/ Discard(t, e)
               /\ e \in found \/ e = NoKey
  BY <1>1 DEF Install
<1>h. /\ found \subseteq Keys /\ NoKey \notin Keys
      /\ registry[k].run # Nil => found = {k}
  BY <1>a, KeyTypes, FoundIsRegistered, FoundOwn DEF Registered
<1> HIDE DEF found
<1>4. CASE Discard(t, e)
  <2>1. watching' = [watching EXCEPT ![n] = "unmanaged"] /\ UNCHANGED <<registry, schedule>>
    BY <1>1, <1>4 DEF Discard, memory
  <2>2. Mild
    BY <1>a, <1>b, <2>1 DEF Mild, SameEntries, Same, Ends
  <2>3. Loose(s)
    BY <1>d, <1>f, <1>g DEF Loose, Holding
  <2> QED
    BY <1>1, <1>b, <2>2, <2>3, LooseBecomes
<1>5. CASE InstallOver(t, e)
  <2>1. PICK f : f = NewEntry(job, n, e)
    OBVIOUS
  <2>2. /\ f.run = n /\ f.app = job.app /\ ~f.stopping /\ f.paused = job.paused
        /\ NoChild(job) => f.pid = Nil
    BY <1>3, <1>a, <1>b, <1>h, <2>1, NewEntryIs
  <2>3. \A j \in Keys : registry'[j] = IF j = k THEN f ELSE IF j = e THEN Absent ELSE registry[j]
    BY <1>1, <1>5, <2>1 DEF InstallOver
  <2>a. Absent.run = Nil /\ Due(Absent) = NoApp
    BY KeyTypes DEF Due
  <2>4. /\ \A m \in Launches : m # n => watching'[m] = watching[m]
        /\ watching'[n] = IF NoChild(job) THEN "off" ELSE "on"
    BY <1>1, <1>5, <1>a, <1>b DEF InstallOver
  <2>5. /\ \A j \in Keys : j # k => schedule'[j] = schedule[j]
        /\ schedule'[k] = IF Scheduled(job) THEN job.app ELSE schedule[k]
    BY <1>1, <1>5, <1>a DEF InstallOver
  <2>6. \A m \in Launches : m # n => (Untold(m)' <=> Untold(m))
    BY <1>b, <2>4 DEF Untold
  <2>7. World'
    <3>1. Keyed'
      BY <1>a, <1>b, <1>c, <2>2, <2>3, <2>a DEF World, Keyed
    <3>2. NoLostChild'
      <4> SUFFICES ASSUME NEW m \in Launches, Untold(m)' PROVE registry'[key'[m]].run = m
        BY DEF NoLostChild, Untold
      <4>1. CASE m = n
        BY <1>a, <1>b, <1>c, <2>2, <2>3, <4>1
      <4>2. CASE m # n
        <5>1. Untold(m)
          BY <2>6, <4>2
        <5>2. registry[key[m]].run = m
          BY <1>a, <5>1 DEF World, NoLostChild, Untold
        <5>3. key[m] # k /\ key[m] # e
          BY <1>3, <1>a, <1>d, <1>h, <5>1, <5>2
        <5> QED
          BY <1>a, <1>b, <2>3, <5>2, <5>3
      <4> QED
        BY <4>1, <4>2
    <3>3. PausesHold'
      <4> SUFFICES ASSUME NEW j \in Keys, NEW m, m = registry'[j].run, m # Nil,
                          registry'[j].paused
                   PROVE  registry'[j].pid = Nil /\ ~Untold(m)'
        BY DEF PausesHold, Untold
      <4>1. CASE j = k
        <5>1. NoChild(job) /\ registry'[j] = f
          BY <2>2, <2>3, <4>1 DEF NoChild
        <5> QED
          BY <1>b, <2>2, <2>4, <5>1 DEF Untold
      <4>2. CASE j # k
        <5>1. registry'[j] = registry[j] /\ registry[j].run \in Launches \ {n}
          BY <1>a, <1>c, <2>3, <2>a, <4>2 DEF Typed
        <5>2. registry[j].pid = Nil /\ ~Untold(registry[j].run)
          BY <1>a, <5>1 DEF World, PausesHold
        <5> QED
          BY <2>4, <1>b, <5>1, <5>2 DEF Untold
      <4> QED
        BY <4>1, <4>2
    <3>4. Recorded'
      BY <1>a, <1>b, <2>4 DEF World, Recorded
    <3> QED
      BY <3>1, <3>2, <3>3, <3>4 DEF World
  <2>8. Rested'
    <3>1. \A m \in Launches : ~(watching'[m] = "on" /\ child'[m] = "termed")
      BY <1>b, <1>c, <1>e, <2>4 DEF Rested
    <3>2. schedule'[k] = Due(f)
      BY <1>b, <1>a, <1>d, <2>2, <2>5 DEF Due, Scheduled
    <3>3. \A j \in Keys : schedule'[j] = Due(registry'[j])
      <4> SUFFICES ASSUME NEW j \in Keys PROVE schedule'[j] = Due(registry'[j])
        OBVIOUS
      <4>1. CASE j = k
        BY <2>3, <3>2, <4>1
      <4>2. CASE j # k /\ j = e
        BY <1>3, <1>d, <1>h, <2>3, <2>5, <2>a, <4>2
      <4>3. CASE j # k /\ j # e
        BY <1>e, <2>3, <2>5, <4>3 DEF Rested
      <4> QED
        BY <4>1, <4>2, <4>3
    <3>4. \A j \in Keys : Due(registry[j])' = Due(registry'[j])
      BY DEF Due
    <3> QED
      BY <3>1, <3>3, <3>4 DEF Rested
  <2>9. Loose(s)'
    <3>1. \A m \in th.todo : registry'[key'[m]].run = m
      <4> SUFFICES ASSUME NEW m \in th.todo PROVE registry'[key'[m]].run = m
        OBVIOUS
      <4>1. key[m] \in Keys /\ key[m] # k /\ key[m] # e
        BY <1>3, <1>a, <1>d, <1>h
      <4> QED
        BY <1>b, <1>d, <2>3, <4>1
    <3> QED
      BY <1>d, <1>f, <1>g, <3>1 DEF Loose, Holding
  <2> QED
    BY <1>a, <1>b, <2>7, <2>8, <2>9, LooseRested, Becomes, HandlerGoes DEF SerialInv
<1> QED
  BY <1>3, <1>4, <1>5

-----------------------------------------------------------------------------
(* The other steps.                                                         *)

\* A child ends, its end is booked, a file changes.
LEMMA WatcherStepHolds ==
  ASSUME SerialInv, ChildInv', NEW m \in Launches, Watcher(m) \/ ChildExit(m) \/ FileChange(m)
  PROVE  SerialInv'
<1>a. /\ TypeOK /\ registry \in [Keys -> Entry] /\ child \in [Launches -> Children]
      /\ watching \in [Launches -> WatchStages]
  BY SerialTyped DEF SerialInv, TypeOK
<1>b. UNCHANGED <<thread, key, schedule>>
  BY DEF Watcher, Reap, OnProcessExit, RecordRun, ChildExit, FileChange, memory, os
<1>c. UNCHANGED registry => SameEntries
  BY DEF SameEntries, Same
<1>1. CASE Reap(m)
  <2>1. /\ UNCHANGED <<registry, journal>> /\ child' = [child EXCEPT ![m] = "gone"]
        /\ watching' = [watching EXCEPT ![m] = IF @ = "on" THEN "reaped" ELSE "off"]
    BY <1>1 DEF Reap, memory
  <2>2. \A j \in Launches : Ends(j)
    BY <1>a, <2>1 DEF Ends
  <2> QED
    BY <1>b, <1>c, <2>1, <2>2, MildSteps DEF Mild
<1>2. CASE OnProcessExit(m)
  <2>1. /\ UNCHANGED <<child, journal>> /\ watching[m] = "reaped"
        /\ watching' = [watching EXCEPT ![m] = "noted"]
    BY <1>2 DEF OnProcessExit, os
  <2>2. \A j \in Launches : Ends(j)
    BY <1>a, <2>1 DEF Ends
  <2>3. SameEntries
    BY <1>2, <1>a DEF OnProcessExit, UpdateInfo, SameEntries, Same, Entry
  <2> QED
    BY <1>b, <2>1, <2>2, <2>3, MildSteps DEF Mild
<1>3. CASE RecordRun(m)
  <2>1. /\ UNCHANGED child /\ journal' = journal \union RunRecord(m)
        /\ watching' = [watching EXCEPT ![m] = IF note[m].again THEN "delay" ELSE "finished"]
    BY <1>3 DEF RecordRun, os
  <2>2. \E r \in journal' : r.pid = m
    <3>1. PICK r : r = [event |-> "run", run |-> note[m].run, pid |-> m]
      OBVIOUS
    <3> QED
      BY <2>1, <3>1 DEF RunRecord
  <2>3. \A j \in Launches : Ends(j)
    <3>1. \A j \in Launches : j # m => watching'[j] = watching[j]
      BY <1>a, <2>1
    <3>2. watching'[m] \in {"delay", "finished"}
      BY <1>a, <2>1
    <3> QED
      BY <2>1, <2>2, <3>1, <3>2 DEF Ends
  <2>4. SameEntries
    BY <1>3, <1>a, <1>c DEF RecordRun, UpdateInfo, SameEntries, Same, Entry
  <2> QED
    BY <1>b, <2>1, <2>3, <2>4, MildSteps DEF Mild
<1>4. CASE ChildExit(m)
  <2>1. PICK end \in {"ok", "failed"} : child' = [child EXCEPT ![m] = end]
    BY <1>4 DEF ChildExit
  <2>2. UNCHANGED <<registry, watching, journal>>
    BY <1>4 DEF ChildExit, memory, exits
  <2>3. \A j \in Launches : Ends(j)
    BY <1>a, <2>1, <2>2 DEF Ends
  <2> QED
    BY <1>b, <1>c, <2>2, <2>3, MildSteps DEF Mild
<1>5. CASE FileChange(m)
  <2>1. UNCHANGED <<registry, child, watching, journal>>
    BY <1>5 DEF FileChange, memory, os, exits
  <2>2. \A j \in Launches : Ends(j)
    BY <2>1 DEF Ends
  <2> QED
    BY <1>b, <1>c, <2>1, <2>2, MildSteps DEF Mild
<1> QED
  BY <1>1, <1>2, <1>3, <1>4, <1>5 DEF Watcher

\* Without a daemon there is nothing to hold.
LEMMA EmptyHolds ==
  ASSUME \A k \in Keys : registry'[k] = Absent /\ schedule'[k] = NoApp,
         \A m \in Launches : watching'[m] = "off",
         \A t \in Threads : thread'[t] = Idle,
         ChildInv'
  PROVE  SerialInv'
<1>1. World'
  BY KeyTypes DEF World, Keyed, NoLostChild, PausesHold, Recorded
<1>2. Rested'
  <2>1. Due(Absent) = NoApp
    BY KeyTypes DEF Due
  <2>2. \A k \in Keys : Due(registry[k])' = Due(registry'[k])
    BY DEF Due
  <2> QED
    BY <2>1, <2>2 DEF Rested
<1>3. ASSUME NEW s, s = Idle PROVE HandlerHolds(s)'
  <2>1. Loose(s)'
    BY <1>3 DEF Idle, Loose, Holding
  <2> QED
    BY <1>2, <2>1, LooseRested
<1> QED
  BY <1>1, <1>3 DEF SerialInv, AllHold

LEMMA InitHolds == Init => SerialInv
<1> SUFFICES ASSUME Init PROVE SerialInv
  OBVIOUS
<1>1. World
  BY KeyTypes DEF Init, World, Keyed, NoLostChild, PausesHold, Recorded
<1>2. RestHolds(Idle)
  BY KeyTypes DEF Init, RestHolds, Due
<1>3. HandlerHolds(Idle)
  BY <1>2 DEF HandlerHolds, Idle, AimHolds, StopHolds, LaunchHolds, KillHolds, Holding
<1> QED
  BY <1>1, <1>3, InitChildInv DEF SerialInv, AllHold, Init

(* Every step preserves the invariant.                                      *)
LEMMA NextHolds == OneHandler /\ TwoHomes => (SerialInv /\ [Next]_vars => SerialInv')
<1> SUFFICES ASSUME OneHandler, TwoHomes, SerialInv, [Next]_vars PROVE SerialInv'
  OBVIOUS
<1>0. ChildInv'
  BY NextChildInv DEF SerialInv
<1>1. ASSUME NEW t \in Threads, Step(t) PROVE SerialInv'
  <2>1. CASE RestartNext(t) \/ ResumeNext(t) \/ StopNext(t)
    BY <1>0, <2>1, NextStepHolds
  <2>2. CASE TargetsDone(t) \/ Wait(t) \/ Drained(t)
    BY <1>0, <2>2, DoneHolds
  <2>3. CASE Unschedule(t) \/ Mark(t) \/ StopTimeout(t)
    BY <1>0, <2>3, StopStepHolds
  <2>4. CASE Settle(t) \/ Suspend(t) \/ Remove(t)
    BY <1>0, <2>4, StoppedHolds
  <2>5. CASE Lookup(t) \/ StartAppDone(t)
    BY <1>0, <2>5, LookupHolds
  <2>6. CASE Fork(t)
    BY <1>0, <2>6, ForkHolds
  <2>7. CASE Install(t)
    BY <1>0, <2>7, InstallHolds
  <2>8. CASE ForkFails(t) \/ Guard(t) \/ Outcome(t)
    BY <1>0, <2>8, ErrandHolds
  <2>9. CASE \/ AutoSave(t) \/ Snapshot(t) \/ Truncate(t) \/ Write(t)
             \/ Suppress(t) \/ Replay(t)
    BY <1>0, <2>9, FileStepHolds
  <2>10. CASE Exit(t)
    BY <1>0, <2>10, EmptyHolds DEF Exit, DaemonGone
  <2> QED
    BY <1>1, <2>1, <2>2, <2>3, <2>4, <2>5, <2>6, <2>7, <2>8, <2>9, <2>10 DEF Step
<1>2. ASSUME NEW t \in Threads, Begin(t) PROVE SerialInv'
  BY <1>0, <1>2, BeginHolds, SpontaneousBeginHolds DEF Begin
<1>3. ASSUME NEW m \in Launches, Watcher(m) \/ ChildExit(m) \/ FileChange(m) PROVE SerialInv'
  BY <1>0, <1>3, WatcherStepHolds
<1>4. CASE Crash
  BY <1>0, <1>4, EmptyHolds DEF Crash, DaemonGone
<1>5. CASE UNCHANGED vars
  <2>1. UNCHANGED <<registry, key, schedule, child, watching, journal, thread>>
    BY <1>5 DEF vars, memory, os, exits
  <2>2. Mild
    BY <2>1 DEF Mild, SameEntries, Same, Ends
  <2> QED
    BY <1>0, <2>1, <2>2, MildSteps
<1> QED
  BY <1>1, <1>2, <1>3, <1>4, <1>5 DEF Next

LEMMA SerialInvHolds == OneHandler /\ TwoHomes => (Spec => []SerialInv)
<1> SUFFICES ASSUME OneHandler, TwoHomes PROVE Spec => []SerialInv
  OBVIOUS
<1>1. SerialInv /\ [Next]_vars => SerialInv'
  BY NextHolds
<1> QED
  BY <1>1, InitHolds, PTL DEF Spec

LEMMA QuietRests == ASSUME SerialInv, Quiet PROVE Rested
<1>1. PICK t \in Threads : TRUE
  BY ThreadsAssumption
<1>2. PICK th \in Thread : th = thread[t]
  BY SerialTyped DEF SerialInv, Typed
<1>3. th.pc = "idle" /\ RestHolds(th)
  BY <1>2 DEF SerialInv, AllHold, HandlerHolds, Quiet
<1> QED
  BY <1>3 DEF RestHolds, Rested

-----------------------------------------------------------------------------
(* The theorems.                                                            *)

(* A handler at a time, no launch replaces an entry whose child still runs, *)
(* was told nothing and is watched: what StartApp, restartTargets and       *)
(* triggerCron replace they have stopped, and what nobody stopped (a        *)
(* resume, an auto-restart) has ended (StartApp, launchProcessWith).        *)
THEOREM NothingIsLost == OneHandler /\ TwoHomes => (Spec => []NoLostChild)
<1> SUFFICES ASSUME OneHandler, TwoHomes PROVE Spec => []NoLostChild
  OBVIOUS
<1>1. SerialInv => NoLostChild
  BY DEF SerialInv, World
<1> QED
  BY <1>1, SerialInvHolds, PTL

(* A handler at a time, a paused task is suspended once the daemon is       *)
(* quiet: no schedule, no PID, no watched running child (PauseByName, the   *)
(* paused launches of Resurrect, launchProcessWith).                        *)
THEOREM PausesAreKept == OneHandler /\ TwoHomes => (Spec => []PausedIsSuspended)
<1> SUFFICES ASSUME OneHandler, TwoHomes PROVE Spec => []PausedIsSuspended
  OBVIOUS
<1>1. SerialInv => PausedIsSuspended
  <2> SUFFICES ASSUME SerialInv, Quiet, NEW k \in Registered(registry), registry[k].paused
               PROVE  /\ schedule[k] = NoApp /\ registry[k].pid = Nil
                      /\ \A m \in Launches :
                           key[m] = k => ~(watching[m] = "on" /\ child[m] = "running")
    BY DEF PausedIsSuspended
  <2>1. k \in Keys /\ registry[k].run # Nil
    BY DEF Registered
  <2>2. registry[k].pid = Nil /\ ~Untold(registry[k].run)
    BY <2>1 DEF SerialInv, World, PausesHold
  <2>3. schedule[k] = NoApp
    BY <2>1, QuietRests DEF Rested, Due
  <2>4. \A m \in Launches : Untold(m) /\ key[m] = k => registry[k].run = m
    BY DEF SerialInv, World, NoLostChild, Untold
  <2> QED
    BY <2>2, <2>3, <2>4 DEF Untold
<1> QED
  BY <1>1, SerialInvHolds, PTL

(* A handler at a time, a key is scheduled once the daemon is quiet exactly *)
(* if its entry carries a schedule and was neither stopped nor paused, and  *)
(* what fires is what is registered (stopProcess's RemoveEntry against      *)
(* launchProcessWith's AddCron).                                            *)
THEOREM SchedulesAreExact == OneHandler /\ TwoHomes => (Spec => []ScheduleMatchesEntry)
<1> SUFFICES ASSUME OneHandler, TwoHomes PROVE Spec => []ScheduleMatchesEntry
  OBVIOUS
<1>1. SerialInv => ScheduleMatchesEntry
  BY QuietRests DEF Rested, Due, ScheduleMatchesEntry, Present
<1> QED
  BY <1>1, SerialInvHolds, PTL

(* A handler at a time, when KillAll returns no child that an entry ever    *)
(* held runs on or was merely asked to end, every exit that was booked has  *)
(* its record, and unless WaitForExits gave up every exit was booked.       *)
THEOREM ShutdownsAreClean == OneHandler /\ TwoHomes => (Spec => []CleanShutdown)
<1> SUFFICES ASSUME OneHandler, TwoHomes PROVE Spec => []CleanShutdown
  OBVIOUS
<1>1. SerialInv => CleanShutdown
  <2> SUFFICES ASSUME SerialInv, NEW t \in Threads, thread[t].pc = "exit", NEW m \in Launches
               PROVE  /\ child[m] \in {"running", "termed"} => watching[m] \in {"off", "unmanaged"}
                      /\ watching[m] = "finished" => \E r \in journal : r.pid = m
                      /\ thread[t].outcome = "ok" => watching[m] \notin {"on", "reaped", "noted"}
    BY DEF CleanShutdown
  <2>1. PICK th \in Thread : th = thread[t]
    BY SerialTyped DEF SerialInv, Typed
  <2>2. KillHolds(th) /\ RestHolds(th) /\ Ended /\ World /\ TypeOK
    BY <2>1, SerialTyped DEF SerialInv, AllHold, HandlerHolds, ChildInv
  <2>3. ~Untold(m) /\ ~(watching[m] = "on" /\ child[m] = "termed")
    BY <2>1, <2>2 DEF KillHolds, RestHolds
  <2>4. child[m] \in {"running", "termed"} => watching[m] \in {"off", "unmanaged"}
    <3>1. watching[m] \in WatchStages
      BY <2>2 DEF TypeOK
    <3> QED
      BY <2>2, <2>3, <3>1 DEF Ended, ended, Live, Untold, WatchStages
  <2>5. thread[t].outcome = "ok" => watching[m] \notin {"on", "reaped", "noted"}
    BY <2>1, <2>2 DEF KillHolds, Counted
  <2>6. watching[m] = "finished" => \E r \in journal : r.pid = m
    BY <2>2 DEF World, Recorded
  <2> QED
    BY <2>4, <2>5, <2>6
<1> QED
  BY <1>1, SerialInvHolds, PTL

-----------------------------------------------------------------------------
(* dump.json.  What is launched again without a save is what was registered. *)

\* Two saved entries are not of one task, nor of what one file calls by one
\* name: replaying one replaces nothing another has brought back.
Distinct(image) ==
  \A a, b \in image : cronKey(a.app) = cronKey(b.app) \/ Twins(a.app, b.app) => a = b

\* ... and two registered ones are not either.
NoTwins ==
  \A j, k \in Keys :
    registry[j].run # Nil /\ registry[k].run # Nil /\ Twins(registry[j].app, registry[k].app) =>
      j = k

\* Where a handler has an entry in hand that it replaces or removes.
Replacing == Holding \union {"fork", "install"}

\* Handlers that launch what they found registered, and do not save.
Relaunches == {"restart", "watch", "cron_restart", "cron", "auto"}

\* Handlers that have made a change and will save it.
Unsaved(th) == th.op \in {"pause", "resume", "delete"} \/ (th.op = "start" /\ th.launched)

\* The saved entry that is being resurrected.
Current(th) ==
  IF th.rest = <<>> THEN {} ELSE {[app |-> Head(th.rest), paused |-> th.job.paused]}

\* Resurrect brings back what the dump holds, and nothing else.
ReplayHolds(th) ==
  th.op = "resurrect" =>
    /\ th.pc \in (Replacing \ {"guard", "suspend", "remove"})
                 \union {"suppress", "replay", "lookup", "autosave"}
    /\ suppress = (th.pc # "suppress") /\ dump.state = "complete"
    /\ th.rest = <<>> \/ Tail(th.rest) = <<>>
    /\ th.pc \in {"suppress", "replay", "autosave"} => th.rest = <<>>
    /\ th.pc \in Replacing => th.rest # <<>> /\ th.job.app = Head(th.rest)
    /\ ~th.job.triggered
    /\ nextLaunch \in Launches =>
         SnapshotAppConfigs \union th.replay \union Current(th) = dump.image

\* A relaunch is of the app that is registered, and of no paused task.
RelaunchHolds(th) ==
  th.op \in Relaunches /\ th.pc \in Replacing =>
    LET e == registry[cronKey(th.job.app)]
    IN  /\ e.run # Nil /\ e.app = th.job.app /\ ~th.job.paused
        /\ e.paused => th.job.triggered

\* Which handler gets where.
OpHolds(th) ==
  /\ th.pc = "suspend" => th.op = "pause"
  /\ th.pc = "remove" => th.op = "delete"
  /\ th.pc = "guard" => th.op = "cron"
  /\ th.pc \in Replacing => th.op # "save"
  /\ th.pc = "outcome" => th.op \in Relaunches
  /\ th.pc \in {"suppress", "replay"} => th.op = "resurrect"
  /\ th.pc \in {"fork", "install"} => th.op \in Relaunches \union {"start", "resume", "resurrect"}
  /\ th.pc = "idle" => th.op = "save"

\* Between the changes a handler makes and its save, only dump.json differs.
Matches == up /\ nextLaunch \in Launches /\ dump.state = "complete" => dump.image = SnapshotAppConfigs

ImageHolds(th) ==
  /\ th.pc \in {"truncate", "write"} => th.image = SnapshotAppConfigs
  /\ th.pc = "write" => dump.state = "empty"
  /\ th.op # "resurrect" => ~suppress /\ (Unsaved(th) \/ Matches)

SaveHolds(th) == ReplayHolds(th) /\ RelaunchHolds(th) /\ OpHolds(th) /\ ImageHolds(th)

SaveWorld ==
  /\ NoTwins
  /\ dump.state = "complete" => Distinct(dump.image)
  /\ ~up => \A k \in Keys : registry[k].run = Nil
  /\ \A k \in Keys : registry[k].run # Nil /\ registry[k].paused /\ ~registry[k].stopping =>
       watching[registry[k].run] = "off"

AllSave == \A t \in Threads, th \in Thread : thread[t] = th => SaveHolds(th)

SaveInv == SaveWorld /\ AllSave

\* Stops and exits leave what dump.json holds of an entry.
Tame(e, f) == f.run = e.run /\ f.app = e.app /\ f.paused = e.paused /\ (e.stopping => f.stopping)

Tamely ==
  /\ \A k \in Keys : Tame(registry[k], registry'[k])
  /\ UNCHANGED <<dump, suppress, up>>
  /\ nextLaunch' \in Launches => nextLaunch \in Launches
  /\ \A k \in Keys : registry[k].run # Nil /\ watching[registry[k].run] = "off" =>
       watching'[registry[k].run] = "off"

LEMMA SnapshotKept ==
  ASSUME \A k \in Keys :
           /\ registry'[k].run = Nil <=> registry[k].run = Nil
           /\ registry[k].run # Nil => /\ registry'[k].app = registry[k].app
                                      /\ registry'[k].paused = registry[k].paused
  PROVE  SnapshotAppConfigs' = SnapshotAppConfigs
<1>1. Registered(registry') = Registered(registry)
  BY DEF Registered
<1>2. \A k \in Registered(registry) :
        registry'[k].app = registry[k].app /\ registry'[k].paused = registry[k].paused
  BY DEF Registered
<1>3. SnapshotAppConfigs' =
        {[app |-> registry'[k].app, paused |-> registry'[k].paused] : k \in Registered(registry')}
  BY DEF SnapshotAppConfigs
<1>4. SnapshotAppConfigs =
        {[app |-> registry[k].app, paused |-> registry[k].paused] : k \in Registered(registry)}
  BY DEF SnapshotAppConfigs
<1> QED
  BY <1>1, <1>2, <1>3, <1>4

LEMMA TamelyWorld ==
  ASSUME Typed, SaveWorld, Tamely PROVE SaveWorld'
<1>1. \A k \in Keys : Tame(registry[k], registry'[k]) /\ registry[k].run \in {Nil} \union Launches
  BY DEF Tamely, Typed
<1>2. NoTwins'
  BY <1>1 DEF SaveWorld, NoTwins, Tame
<1> QED
  BY <1>1, <1>2 DEF SaveWorld, Tamely, Tame

\* A handler that is in place stays in place.
LEMMA TamelyHandler ==
  ASSUME Tamely, NEW th \in Thread, cronKey(th.job.app) \in Keys, SaveHolds(th)
  PROVE  SaveHolds(th)'
<1>1. SnapshotAppConfigs' = SnapshotAppConfigs
  BY SnapshotKept DEF Tamely, Tame
<1>2. ReplayHolds(th)'
  BY <1>1 DEF SaveHolds, ReplayHolds, Current, Tamely
<1>3. RelaunchHolds(th)'
  <2>1. Tame(registry[cronKey(th.job.app)], registry'[cronKey(th.job.app)])
    BY DEF Tamely
  <2> QED
    BY <2>1 DEF SaveHolds, RelaunchHolds, Tame
<1>4. OpHolds(th)' /\ ImageHolds(th)'
  BY <1>1 DEF SaveHolds, OpHolds, ImageHolds, Unsaved, Matches, Tamely
<1> QED
  BY <1>2, <1>3, <1>4 DEF SaveHolds

\* ... and so does one that moves to where it may be.
LEMMA SaveGoes ==
  ASSUME OneHandler, TypeOK, Typed, SaveWorld, Tamely, NEW t \in Threads, NEW s \in Thread,
         Become(t, s), SaveHolds(s)
  PROVE  SaveInv'
<1>1. \A u \in Threads : thread'[u] = s
  BY DEF OneHandler, Become, TypeOK
<1>2. cronKey(s.job.app) \in Keys
  BY KeyTypes DEF Thread, Job
<1> QED
  BY <1>1, <1>2, TamelyWorld, TamelyHandler DEF SaveInv, AllSave

LEMMA SaveStays ==
  ASSUME TypeOK, Typed, SaveInv, Tamely, UNCHANGED thread
  PROVE  SaveInv'
<1>1. \A th \in Thread : cronKey(th.job.app) \in Keys
  BY KeyTypes DEF Thread, Job
<1> QED
  BY <1>1, TamelyWorld, TamelyHandler DEF SaveInv, AllSave

\* Handlers that are not replaying the dump.
LEMMA SavesOn ==
  ASSUME NEW th, SaveHolds(th), th.op # "resurrect",
         NEW s, s.op = th.op, s.launched = th.launched, s.pc \notin {"truncate", "write"},
         OpHolds(s), RelaunchHolds(s)
  PROVE  SaveHolds(s)
  BY DEF SaveHolds, ReplayHolds, ImageHolds, Unsaved

LEMMA SavesFresh ==
  ASSUME ~suppress, Matches, NEW s, s.op # "resurrect", s.pc \notin {"truncate", "write"},
         OpHolds(s), RelaunchHolds(s)
  PROVE  SaveHolds(s)
  BY DEF SaveHolds, ReplayHolds, ImageHolds

LEMMA IdleSaves == ASSUME ~suppress, Matches PROVE SaveHolds(Idle)
<1>1. Idle.pc = "idle" /\ Idle.op = "save"
  BY DEF Idle
<1> QED
  BY <1>1, SavesFresh DEF OpHolds, RelaunchHolds, Replacing, Holding, Relaunches

\* A handler that goes on with the entry it has in hand.
Slides(t, s, label) ==
  /\ Become(t, s) /\ s.pc = label
  /\ s.op = thread[t].op /\ s.launched = thread[t].launched /\ s.rest = thread[t].rest
  /\ s.job = thread[t].job /\ s.replay = thread[t].replay /\ s.image = thread[t].image

LEMMA GotoSlides ==
  ASSUME TypeOK, NEW t \in Threads, NEW label, Goto(t, label)
  PROVE  \E s : Slides(t, s, label)
<1> DEFINE s == [thread[t] EXCEPT !.pc = label]
<1>1. thread[t] \in Thread
  BY DEF TypeOK
<1>2. Become(t, s)
  BY DEF Goto, Become
<1>3. /\ s.pc = label /\ s.op = thread[t].op /\ s.launched = thread[t].launched
      /\ s.rest = thread[t].rest /\ s.job = thread[t].job /\ s.replay = thread[t].replay
      /\ s.image = thread[t].image
  BY <1>1 DEF Thread
<1> QED
  BY <1>2, <1>3 DEF Slides

LEMMA DrainSlides ==
  ASSUME TypeOK, NEW t \in Threads, Drained(t)
  PROVE  \E s : Slides(t, s, "exit")
<1> DEFINE s(outcome) == [thread[t] EXCEPT !.pc = "exit", !.outcome = outcome]
<1>1. ASSUME NEW outcome, Become(t, s(outcome)) PROVE Slides(t, s(outcome), "exit")
  BY <1>1 DEF TypeOK, Thread, Slides
<1>2. Become(t, s("failed")) \/ Become(t, s("ok"))
  BY DEF Drained
<1> QED
  BY <1>1, <1>2

LEMMA Onward ==
  ASSUME NEW t, SaveHolds(thread[t]), thread[t].pc \in Replacing,
         NEW s, NEW label \in Replacing \union {"next", "exit"}, Slides(t, s, label), OpHolds(s),
         s.op = "resurrect" => label \in Replacing \ {"guard", "suspend", "remove"}
  PROVE  SaveHolds(s)
<1>1. ReplayHolds(s)
  BY DEF SaveHolds, ReplayHolds, Current, Slides, Replacing, Holding
<1>2. RelaunchHolds(s)
  BY DEF SaveHolds, RelaunchHolds, Slides
<1>3. ImageHolds(s)
  BY DEF SaveHolds, ImageHolds, Unsaved, Slides, Replacing, Holding
<1> QED
  BY <1>1, <1>2, <1>3 DEF SaveHolds

(* The handler steps that stop a child, and executor.Start.                 *)
LEMMA StopStepSaves ==
  ASSUME OneHandler, SerialInv, SaveInv, ChildInv', NEW t \in Threads,
         \/ Unschedule(t) \/ Mark(t) \/ Wait(t) \/ StopTimeout(t) \/ Settle(t) \/ Fork(t)
  PROVE  SaveInv'
<1> DEFINE th == thread[t]
<1>a. /\ TypeOK /\ Typed /\ th \in Thread /\ SaveHolds(th) /\ SaveWorld
      /\ registry \in [Keys -> Entry] /\ nextLaunch \in Nat
  BY SerialTyped DEF SerialInv, Typed, SaveInv, AllSave, TypeOK
<1>b. th.pc \in {"unschedule", "mark", "wait", "settle", "fork"} /\ th.pc \in Replacing
  BY DEF Unschedule, Mark, Wait, StopTimeout, Settle, Fork, At, Replacing, Holding
<1>c. th.op # "save" /\ (th.pc = "fork" => th.op \in Relaunches \union {"start", "resume", "resurrect"})
  BY <1>a, <1>b DEF SaveHolds, OpHolds
<1>1. Tamely
  <2>1. UNCHANGED <<dump, suppress, up, watching>>
    BY DEF Unschedule, Mark, Wait, StopTimeout, Settle, Fork, files, exits
  <2>2. nextLaunch' \in Launches => nextLaunch \in Launches
    BY <1>a DEF Unschedule, Mark, Wait, StopTimeout, Settle, Fork, os
  <2>3. \A k \in Keys : Tame(registry[k], registry'[k])
    <3>1. CASE Mark(t) \/ Settle(t)
      <4>1. PICK k, f : UpdateInfo(k, f) /\ (k \in Keys => Tame(registry[k], f))
        <5>1. CASE Mark(t)
          <6> DEFINE k == key[th.mp]
                     f == [registry[k] EXCEPT !.stopping = TRUE,
                             !.status = IF registry[k].paused THEN @ ELSE "stopping"]
          <6>1. UpdateInfo(k, f)
            BY <5>1 DEF Mark
          <6>2. k \in Keys => Tame(registry[k], f)
            BY <1>a DEF Entry, Tame
          <6> QED
            BY <6>1, <6>2
        <5>2. CASE Settle(t)
          <6> DEFINE k == key[th.mp]
                     f == [registry[k] EXCEPT !.pid = Nil,
                             !.status = IF registry[k].paused THEN @ ELSE "stopped"]
          <6>1. UpdateInfo(k, f)
            BY <5>2 DEF Settle
          <6>2. k \in Keys => Tame(registry[k], f)
            BY <1>a DEF Entry, Tame
          <6> QED
            BY <6>1, <6>2
        <5> QED
          BY <3>1, <5>1, <5>2
      <4> QED
        BY <1>a, <4>1 DEF UpdateInfo, Tame
    <3>2. CASE Unschedule(t) \/ Wait(t) \/ StopTimeout(t) \/ Fork(t)
      BY <3>2 DEF Unschedule, Wait, StopTimeout, Fork, memory, Tame
    <3> QED
      BY <3>1, <3>2
  <2> QED
    BY <2>1, <2>2, <2>3 DEF Tamely
<1>2. PICK label \in {"mark", "wait", "settle", "suspend", "remove", "next", "fork", "install"} :
        /\ \E s : Slides(t, s, label)
        /\ label \in {"suspend", "remove", "next", "fork"} =>
             th.pc = "settle" /\ label = AfterStop(th.op)
        /\ label = "install" => th.pc = "fork"
  <2>1. CASE Fork(t)
    <3> DEFINE s == [th EXCEPT !.new = nextLaunch, !.pc = "install"]
    <3>1. Slides(t, s, "install")
      BY <1>a, <2>1 DEF Fork, Slides, Thread
    <3>2. th.pc = "fork"
      BY <2>1 DEF Fork, At
    <3> HIDE DEF s
    <3> QED
      BY <3>1, <3>2
  <2>2. CASE Settle(t)
    <3> DEFINE label == AfterStop(th.op)
    <3>1. label \in {"suspend", "remove", "next", "fork"}
      BY DEF AfterStop
    <3>2. Goto(t, label) /\ th.pc = "settle"
      BY <2>2 DEF Settle, At
    <3>3. \E s : Slides(t, s, label)
      BY <1>a, <3>2, GotoSlides
    <3> HIDE DEF label
    <3>4. label = AfterStop(th.op)
      BY DEF label
    <3> QED
      BY <3>1, <3>2, <3>3, <3>4
  <2>3. CASE Unschedule(t) \/ Mark(t) \/ Wait(t) \/ StopTimeout(t)
    <3>1. PICK label \in {"mark", "wait", "settle"} : Goto(t, label)
      BY <2>3 DEF Unschedule, Mark, Wait, StopTimeout
    <3>2. \E s : Slides(t, s, label)
      BY <1>a, <3>1, GotoSlides
    <3> QED
      BY <3>2
  <2> QED
    BY <2>1, <2>2, <2>3
<1>9. PICK s : Slides(t, s, label)
  BY <1>2
<1>3. s.pc = label /\ s.op = th.op /\ Become(t, s)
  BY <1>9 DEF Slides
<1>4. th.op \in Ops
  BY <1>a DEF Thread
<1>5. OpHolds(s)
  BY <1>2, <1>3, <1>4, <1>c DEF OpHolds, AfterStop, Relaunches, Ops
<1>6. s.op = "resurrect" => label \in Replacing \ {"guard", "suspend", "remove"}
  BY <1>2, <1>3 DEF AfterStop, Replacing, Holding
<1>7. label \in Replacing \union {"next", "exit"}
  BY DEF Replacing, Holding
<1>8. SaveHolds(s)
  BY <1>5, <1>6, <1>7, <1>9, <1>a, <1>b, Onward
<1> QED
  BY <1>1, <1>3, <1>8, <1>a, Becomes, SaveGoes DEF SerialInv

LEMMA TamelyStill ==
  ASSUME UNCHANGED <<registry, watching, nextLaunch, dump, suppress, up>> PROVE Tamely
  BY DEF Tamely, Tame

\* What a handler is when nothing but its own variables moves.
LEMMA MovesAndSaves ==
  ASSUME OneHandler, SerialInv, SaveInv, ChildInv', NEW t \in Threads,
         UNCHANGED <<registry, watching, nextLaunch, dump, suppress, up>>,
         NEW s, Become(t, s), SaveHolds(s)
  PROVE  SaveInv'
  BY SerialTyped, TamelyStill, Becomes, SaveGoes DEF SerialInv, SaveInv

LEMMA ReturnsAndSaves ==
  ASSUME OneHandler, SerialInv, SaveInv, ChildInv', NEW t \in Threads, Tamely,
         Return(t), thread[t].op # "resurrect", ~Unsaved(thread[t]) \/ Matches
  PROVE  SaveInv'
<1>1. TypeOK /\ Typed /\ SaveHolds(thread[t]) /\ SaveWorld
  BY SerialTyped DEF SerialInv, SaveInv, AllSave, Typed
<1>2. ~suppress /\ Matches
  BY <1>1 DEF SaveHolds, ImageHolds
<1> QED
  BY <1>1, <1>2, IdleSaves, Becomes, SaveGoes DEF Return, SerialInv

(* The loop over the targets of a command.                                  *)
LEMMA LoopSaves ==
  ASSUME OneHandler, SerialInv, SaveInv, ChildInv', NEW t \in Threads,
         RestartNext(t) \/ ResumeNext(t) \/ StopNext(t) \/ TargetsDone(t) \/ Drained(t)
  PROVE  SaveInv'
<1> DEFINE th == thread[t]
<1>a. TypeOK /\ Typed /\ World /\ th \in Thread /\ SaveHolds(th) /\ HandlerHolds(th)
  BY SerialTyped DEF SerialInv, Typed, SaveInv, AllSave, AllHold
<1>b. UNCHANGED <<registry, watching, nextLaunch, dump, suppress, up>>
  BY DEF RestartNext, ResumeNext, StopNext, TargetsDone, Drained, memory, os, exits, files
<1>c. th.pc \in {"next", "drain"} /\ th.op # "resurrect"
  BY <1>a DEF RestartNext, ResumeNext, StopNext, TargetsDone, Drained, At, SaveHolds,
     ReplayHolds, Replacing, Holding
<1>d. ASSUME NEW s, Become(t, s), s.op = th.op, s.launched = th.launched,
             s.pc \notin {"truncate", "write"}, OpHolds(s), RelaunchHolds(s)
      PROVE  SaveInv'
  BY <1>a, <1>b, <1>c, <1>d, SavesOn, MovesAndSaves
<1>e. ASSUME NEW s, Become(t, s), s.op = th.op, s.launched = th.launched,
             s.pc \in {"next", "drain", "exit", "autosave"}
      PROVE  SaveInv'
  BY <1>d, <1>e DEF OpHolds, RelaunchHolds, Replacing, Holding
<1>1. CASE RestartNext(t)
  <2>1. PICK m \in th.todo :
          \/ Present(key[m]) /\ Become(t, [th EXCEPT !.todo = @ \ {m}, !.mp = m,
                          !.pc = "unschedule",
                          !.job = [NoJob EXCEPT !.app = registry[key[m]].app,
                                                !.triggered = TRUE]])
          \/ Become(t, [th EXCEPT !.todo = @ \ {m}])
    BY <1>1 DEF RestartNext
  <2> DEFINE job == [NoJob EXCEPT !.app = registry[key[m]].app, !.triggered = TRUE]
             s == [th EXCEPT !.todo = @ \ {m}, !.mp = m, !.pc = "unschedule", !.job = job]
             on == [th EXCEPT !.todo = @ \ {m}]
  <2>2. job.app = registry[key[m]].app /\ job.triggered /\ ~job.paused
    BY DEF NoJob
  <2>3. s.op = th.op /\ s.launched = th.launched /\ s.pc = "unschedule" /\ s.job = job
    BY <1>a DEF Thread
  <2>4. on.op = th.op /\ on.launched = th.launched /\ on.pc = th.pc
    BY <1>a DEF Thread
  <2>5. \/ Present(key[m]) /\ Become(t, s)
        \/ Become(t, on)
    BY <2>1
  <2> HIDE DEF job, s, on
  <2>6. CASE Present(key[m]) /\ Become(t, s)
    <3>1. cronKey(job.app) = key[m]
      <4>1. key[m] \in Keys
        BY <1>a DEF TypeOK, Typed
      <4> QED
        BY <1>a, <2>2, <2>6, <4>1 DEF World, Keyed, Present
    <3>2. RelaunchHolds(s)
      BY <2>2, <2>3, <2>6, <3>1 DEF RelaunchHolds, Present
    <3>3. OpHolds(s)
      BY <1>1, <2>3 DEF OpHolds, RestartNext, Restarts
    <3> QED
      BY <1>d, <2>3, <2>6, <3>2, <3>3
  <2>7. CASE Become(t, on)
    BY <1>c, <1>e, <2>4, <2>7
  <2> QED
    BY <2>5, <2>6, <2>7
<1>2. CASE ResumeNext(t)
  <2>1. PICK m \in th.todo :
          \/ Become(t, [th EXCEPT !.todo = @ \ {m}, !.pc = "fork",
                          !.job = [NoJob EXCEPT !.app = registry[key[m]].app]])
          \/ Become(t, [th EXCEPT !.todo = @ \ {m}])
    BY <1>2 DEF ResumeNext
  <2> DEFINE s == [th EXCEPT !.todo = @ \ {m}, !.pc = "fork",
                          !.job = [NoJob EXCEPT !.app = registry[key[m]].app]]
             on == [th EXCEPT !.todo = @ \ {m}]
  <2>2. s.op = th.op /\ s.launched = th.launched /\ s.pc = "fork"
    BY <1>a DEF Thread
  <2>3. on.op = th.op /\ on.launched = th.launched /\ on.pc = th.pc
    BY <1>a DEF Thread
  <2>4. Become(t, s) \/ Become(t, on)
    BY <2>1
  <2> HIDE DEF s, on
  <2>5. OpHolds(s) /\ RelaunchHolds(s)
    BY <1>2, <2>2 DEF OpHolds, RelaunchHolds, Relaunches, ResumeNext
  <2> QED
    BY <1>c, <1>d, <1>e, <2>2, <2>3, <2>4, <2>5
<1>3. CASE StopNext(t)
  <2>1. PICK m : Become(t, [th EXCEPT !.todo = @ \ {m}, !.mp = m, !.pc = "unschedule"])
    BY <1>3 DEF StopNext
  <2>2. PICK s : s = [th EXCEPT !.todo = @ \ {m}, !.mp = m, !.pc = "unschedule"]
    OBVIOUS
  <2>3. s.op = th.op /\ s.launched = th.launched /\ s.pc = "unschedule"
    BY <1>a, <2>2 DEF Thread
  <2>4. OpHolds(s) /\ RelaunchHolds(s)
    BY <1>3, <2>3 DEF OpHolds, RelaunchHolds, Relaunches, StopNext
  <2> QED
    BY <1>d, <2>1, <2>2, <2>3, <2>4
<1>4. CASE TargetsDone(t)
  <2> DEFINE over == [th EXCEPT !.mp = Nil, !.job = NoJob]
             drain == [over EXCEPT !.pc = "drain"]
             report == [over EXCEPT !.pc = "outcome", !.outcome = "ok"]
             save == [over EXCEPT !.pc = "autosave"]
  <2>1. /\ drain.op = th.op /\ drain.launched = th.launched /\ drain.pc = "drain"
        /\ report.op = th.op /\ report.launched = th.launched /\ report.pc = "outcome"
        /\ save.op = th.op /\ save.launched = th.launched /\ save.pc = "autosave"
    BY <1>a DEF Thread
  <2>2. \/ Return(t) /\ th.op = "watch"
        \/ Become(t, drain) \/ Become(t, save)
        \/ Become(t, report) /\ th.op = "cron_restart"
    BY <1>4 DEF TargetsDone
  <2> HIDE DEF drain, report, save
  <2>3. CASE Return(t) /\ th.op = "watch"
    BY <1>b, <2>3, TamelyStill, ReturnsAndSaves DEF Unsaved
  <2>4. CASE Become(t, report) /\ th.op = "cron_restart"
    <3>1. OpHolds(report) /\ RelaunchHolds(report)
      BY <2>1, <2>4 DEF OpHolds, RelaunchHolds, Relaunches, Replacing, Holding
    <3> QED
      BY <1>d, <2>1, <2>4, <3>1
  <2> QED
    BY <1>e, <2>1, <2>2, <2>3, <2>4
<1>5. CASE Drained(t)
  <2>1. PICK s : Slides(t, s, "exit")
    BY <1>5, <1>a, DrainSlides
  <2> QED
    BY <1>e, <2>1 DEF Slides
<1> QED
  BY <1>1, <1>2, <1>3, <1>4, <1>5

(* Failed launches, the overlap guard and the outcome of a fire.            *)
LEMMA ErrandSaves ==
  ASSUME OneHandler, ~SpawnMayFail, SerialInv, SaveInv, ChildInv', NEW t \in Threads,
         ForkFails(t) \/ Guard(t) \/ Outcome(t)
  PROVE  SaveInv'
<1> DEFINE th == thread[t]
<1>a. TypeOK /\ Typed /\ World /\ th \in Thread /\ SaveHolds(th)
  BY SerialTyped DEF SerialInv, Typed, SaveInv, AllSave
<1>1. CASE ForkFails(t)
  <2>a. UNCHANGED <<registry, watching, nextLaunch, dump, suppress, up>>
    BY <1>1 DEF ForkFails, memory, os, exits, files
  <2>b. nextLaunch \notin Launches /\ Matches /\ th.pc = "fork"
    BY <1>1 DEF ForkFails, Matches, At
  <2> DEFINE over == [th EXCEPT !.rest = <<>>, !.pc = "lookup"]
             report == [th EXCEPT !.outcome = "failed", !.pc = "outcome"]
  <2>1. \/ th.op \in {"start", "resurrect"} /\ Become(t, over)
        \/ th.op \in Restarts /\ Goto(t, "next")
        \/ th.op = "cron" /\ Become(t, report)
        \/ th.op # "resurrect" /\ Return(t)
    BY <1>1 DEF ForkFails
  <2>2. /\ over.pc = "lookup" /\ over.op = th.op /\ over.job = th.job /\ over.rest = <<>>
        /\ over.launched = th.launched
        /\ report.pc = "outcome" /\ report.op = th.op /\ report.launched = th.launched
    BY <1>a DEF Thread
  <2> HIDE DEF over, report
  <2>3. CASE th.op \in {"start", "resurrect"} /\ Become(t, over)
    <3>1. ReplayHolds(over)
      BY <1>a, <2>2, <2>b DEF SaveHolds, ReplayHolds, Replacing, Holding
    <3>2. RelaunchHolds(over) /\ OpHolds(over)
      BY <2>2, <2>3 DEF RelaunchHolds, OpHolds, Relaunches, Replacing, Holding
    <3>3. ImageHolds(over)
      BY <1>a, <2>2, <2>b DEF SaveHolds, ImageHolds
    <3> QED
      BY <2>3, <2>a, <3>1, <3>2, <3>3, MovesAndSaves DEF SaveHolds
  <2>4. CASE th.op \in Restarts /\ Goto(t, "next")
    <3>1. PICK s : Slides(t, s, "next")
      BY <1>a, <2>4, GotoSlides
    <3>2. s.op = th.op /\ s.launched = th.launched /\ s.pc = "next" /\ Become(t, s)
      BY <3>1 DEF Slides
    <3>3. OpHolds(s) /\ RelaunchHolds(s)
      BY <3>2 DEF OpHolds, RelaunchHolds, Replacing, Holding
    <3>4. SaveHolds(s)
      BY <1>a, <2>4, <3>2, <3>3, SavesOn DEF Restarts
    <3> QED
      BY <2>a, <3>2, <3>4, MovesAndSaves
  <2>5. CASE th.op = "cron" /\ Become(t, report)
    <3>1. OpHolds(report) /\ RelaunchHolds(report)
      BY <2>2, <2>5 DEF OpHolds, RelaunchHolds, Relaunches, Replacing, Holding
    <3>2. SaveHolds(report)
      BY <1>a, <2>2, <2>5, <3>1, SavesOn
    <3> QED
      BY <2>5, <2>a, <3>2, MovesAndSaves
  <2>6. CASE th.op # "resurrect" /\ Return(t)
    BY <2>6, <2>a, <2>b, TamelyStill, ReturnsAndSaves
  <2> QED
    BY <2>1, <2>3, <2>4, <2>5, <2>6
<1>2. CASE Guard(t)
  <2>a. UNCHANGED <<registry, watching, nextLaunch, dump, suppress, up>> /\ th.pc = "guard"
    BY <1>2 DEF Guard, At, memory, os, exits, files
  <2>b. th.op = "cron" /\ th.pc \in Replacing
    BY <1>a, <2>a DEF SaveHolds, OpHolds, Replacing, Holding
  <2> DEFINE skip == [th EXCEPT !.outcome = "skipped", !.pc = "outcome"]
             go == [th EXCEPT !.pc = "unschedule"]
  <2>1. Become(t, skip) \/ Become(t, go)
    BY <1>2 DEF Guard
  <2>2. /\ skip.pc = "outcome" /\ skip.op = th.op /\ skip.launched = th.launched
        /\ go.pc = "unschedule" /\ go.op = th.op /\ go.launched = th.launched
        /\ go.job = th.job
    BY <1>a DEF Thread
  <2> HIDE DEF skip, go
  <2>3. OpHolds(skip) /\ RelaunchHolds(skip)
    BY <2>2, <2>b DEF OpHolds, RelaunchHolds, Relaunches, Replacing, Holding
  <2>4. OpHolds(go) /\ RelaunchHolds(go)
    BY <1>a, <2>2, <2>b DEF SaveHolds, OpHolds, RelaunchHolds
  <2>5. SaveHolds(skip) /\ SaveHolds(go)
    BY <1>a, <2>2, <2>3, <2>4, <2>b, SavesOn
  <2> QED
    BY <2>1, <2>5, <2>a, MovesAndSaves
<1>3. CASE Outcome(t)
  <2>1. Tamely
    <3>1. UNCHANGED <<dump, suppress, up, nextLaunch, watching>>
      BY <1>3 DEF Outcome, os, files
    <3>2. \A k \in Keys : Tame(registry[k], registry'[k])
      <4>1. UpdateInfo(th.fire, [registry[th.fire] EXCEPT !.cronStatus = th.outcome])
        BY <1>3 DEF Outcome
      <4> QED
        BY <1>a, <4>1 DEF UpdateInfo, Tame, TypeOK, Entry
    <3> QED
      BY <3>1, <3>2 DEF Tamely
  <2>2. th.op \in Relaunches
    BY <1>3, <1>a DEF Outcome, At, SaveHolds, OpHolds
  <2> QED
    BY <1>3, <2>1, <2>2, ReturnsAndSaves DEF Outcome, Relaunches, Unsaved
<1> QED
  BY <1>1, <1>2, <1>3

(* Keys are those of what is registered under them.                         *)
LEMMA SnapshotDistinct ==
  ASSUME World, NoTwins, NEW image, image = SnapshotAppConfigs PROVE Distinct(image)
<1> SUFFICES ASSUME NEW j \in Registered(registry), NEW k \in Registered(registry),
                    \/ cronKey(registry[j].app) = cronKey(registry[k].app)
                    \/ Twins(registry[j].app, registry[k].app)
             PROVE  j = k
  BY DEF SnapshotAppConfigs, Distinct
<1> QED
  BY DEF World, Keyed, NoTwins, Registered

\* Where the registry stays, nothing but the dump can offend.
LEMMA SaveWorldStays ==
  ASSUME SaveWorld, UNCHANGED <<registry, watching>>, up' \/ UNCHANGED up,
         dump'.state = "complete" => Distinct(dump'.image)
  PROVE  SaveWorld'
<1>1. NoTwins'
  BY DEF SaveWorld, NoTwins
<1> QED
  BY <1>1 DEF SaveWorld

(* autoSave and Save.                                                       *)
LEMMA FileSaves ==
  ASSUME OneHandler, SerialInv, SaveInv, ChildInv', NEW t \in Threads,
         AutoSave(t) \/ Snapshot(t) \/ Truncate(t) \/ Write(t)
  PROVE  SaveInv'
<1>1. PICK th \in Thread : th = thread[t]
  BY SerialTyped DEF SerialInv, Typed
<1>a. TypeOK /\ Typed /\ World /\ SaveHolds(th) /\ SaveWorld
  BY <1>1, SerialTyped DEF SerialInv, SaveInv, AllSave
<1>b. UNCHANGED <<registry, watching, nextLaunch, suppress, up>> /\ up
  BY DEF AutoSave, Snapshot, Truncate, Write, memory, os, exits, files, At
<1>c. SnapshotAppConfigs' = SnapshotAppConfigs
  BY <1>b, SnapshotKept
<1>d. \A s : Become(t, s) => \A u \in Threads : thread'[u] = s
  BY <1>a DEF OneHandler, Become, TypeOK
<1>2. CASE AutoSave(t)
  <2>1. th.pc = "autosave" /\ UNCHANGED <<registry, watching, nextLaunch, dump, suppress, up>>
    BY <1>1, <1>2 DEF AutoSave, At, memory, os, exits, files
  <2>2. CASE suppress
    <3>1. th.op = "resurrect"
      BY <1>a, <2>2 DEF SaveHolds, ImageHolds
    <3>2. PICK s : s = [th EXCEPT !.image = {}, !.pc = "replay"]
      OBVIOUS
    <3>3. Become(t, s)
      BY <1>1, <1>2, <2>2, <3>1, <3>2 DEF AutoSave, Finish
    <3>4. /\ s.pc = "replay" /\ s.op = th.op /\ s.rest = th.rest /\ s.job = th.job
          /\ s.replay = th.replay
      BY <3>2 DEF Thread
    <3>5. ReplayHolds(s)
      BY <1>a, <2>1, <3>1, <3>4 DEF SaveHolds, ReplayHolds, Current, Replacing, Holding
    <3>6. RelaunchHolds(s) /\ OpHolds(s) /\ ImageHolds(s)
      BY <3>1, <3>4 DEF RelaunchHolds, OpHolds, ImageHolds, Relaunches, Replacing, Holding
    <3> QED
      BY <2>1, <3>3, <3>5, <3>6, MovesAndSaves DEF SaveHolds
  <2>3. CASE ~suppress
    <3>1. PICK s : Slides(t, s, "snapshot")
      BY <1>2, <1>a, <2>3, GotoSlides DEF AutoSave
    <3>2. s.pc = "snapshot" /\ s.op = th.op /\ s.launched = th.launched /\ Become(t, s)
      BY <1>1, <3>1 DEF Slides
    <3>3. th.op # "resurrect"
      BY <1>a, <2>1, <2>3 DEF SaveHolds, ReplayHolds
    <3>4. OpHolds(s) /\ RelaunchHolds(s)
      BY <3>2 DEF OpHolds, RelaunchHolds, Replacing, Holding
    <3>5. SaveHolds(s)
      BY <1>a, <3>2, <3>3, <3>4, SavesOn
    <3> QED
      BY <2>1, <3>2, <3>5, MovesAndSaves
  <2> QED
    BY <2>2, <2>3
<1>e. th.pc \in {"snapshot", "truncate", "write"} => th.op # "resurrect" /\ ~suppress
  BY <1>a DEF SaveHolds, ReplayHolds, ImageHolds, Replacing, Holding
<1>3. CASE Snapshot(t)
  <2>1. PICK s : s = [th EXCEPT !.image = SnapshotAppConfigs, !.pc = "truncate"]
    OBVIOUS
  <2>2. Become(t, s) /\ th.pc = "snapshot"
    BY <1>1, <1>3, <2>1 DEF Snapshot, At
  <2>3. /\ s.pc = "truncate" /\ s.op = th.op /\ s.launched = th.launched
        /\ s.image = SnapshotAppConfigs
    BY <2>1 DEF Thread
  <2>4. RelaunchHolds(s) /\ OpHolds(s)
    BY <2>3 DEF RelaunchHolds, OpHolds, Replacing, Holding
  <2>5. ReplayHolds(s) /\ ImageHolds(s)
    BY <1>a, <1>e, <2>2, <2>3 DEF SaveHolds, ReplayHolds, ImageHolds, Unsaved
  <2>6. UNCHANGED dump
    BY <1>3 DEF Snapshot, files
  <2> QED
    BY <1>b, <2>2, <2>4, <2>5, <2>6, MovesAndSaves DEF SaveHolds
<1>4. CASE Truncate(t)
  <2>1. PICK s : Slides(t, s, "write")
    BY <1>4, <1>a, GotoSlides DEF Truncate
  <2>2. /\ s.pc = "write" /\ s.op = th.op /\ s.launched = th.launched /\ s.image = th.image
        /\ Become(t, s) /\ th.pc = "truncate" /\ dump'.state = "empty"
    BY <1>1, <1>4, <2>1 DEF Slides, Truncate, At
  <2>3. SaveWorld'
    BY <1>a, <1>b, <2>2, SaveWorldStays
  <2>4. RelaunchHolds(s)' /\ OpHolds(s)' /\ ReplayHolds(s)'
    BY <1>e, <2>2 DEF RelaunchHolds, OpHolds, ReplayHolds, Replacing, Holding
  <2>5. ImageHolds(s)'
    <3>1. s.image = SnapshotAppConfigs'
      BY <1>a, <1>c, <2>2 DEF SaveHolds, ImageHolds
    <3>2. Matches'
      BY <2>2 DEF Matches
    <3> QED
      BY <1>b, <1>e, <2>2, <3>1, <3>2 DEF ImageHolds
  <2> QED
    BY <1>d, <2>2, <2>3, <2>4, <2>5 DEF SaveInv, AllSave, SaveHolds
<1>5. CASE Write(t)
  <2>1. th.pc = "write" /\ dump.state = "empty" /\ th.image = SnapshotAppConfigs
    BY <1>1, <1>5, <1>a DEF Write, At, SaveHolds, ImageHolds
  <2>2. dump' = [state |-> "complete", image |-> SnapshotAppConfigs]
    BY <1>1, <1>5, <2>1 DEF Write
  <2>3. Become(t, Idle)
    BY <1>1, <1>5, <1>e, <2>1 DEF Write, Finish, Return
  <2>4. SaveWorld'
    <3>1. Distinct(dump'.image)
      BY <1>a, <2>2, SnapshotDistinct DEF SaveWorld
    <3> QED
      BY <1>a, <1>b, <3>1, SaveWorldStays
  <2>5. Idle.pc = "idle" /\ Idle.op = "save"
    BY DEF Idle
  <2>6. Matches'
    BY <1>c, <2>2 DEF Matches
  <2>7. SaveHolds(Idle)'
    BY <1>b, <1>e, <2>1, <2>5, <2>6
    DEF SaveHolds, RelaunchHolds, OpHolds, ReplayHolds, ImageHolds, Relaunches, Replacing,
        Holding
  <2>8. \A u \in Threads : thread'[u] = Idle
    BY <1>d, <2>3
  <2> QED
    BY <2>4, <2>7, <2>8 DEF SaveInv, AllSave
<1> QED
  BY <1>2, <1>3, <1>4, <1>5

(* Resurrect goes from saved entry to saved entry.                          *)
LEMMA ReplaySaves ==
  ASSUME OneHandler, SerialInv, SaveInv, ChildInv', NEW t \in Threads, Suppress(t) \/ Replay(t)
  PROVE  SaveInv'
<1>1. PICK th \in Thread : th = thread[t]
  BY SerialTyped DEF SerialInv, Typed
<1>a. TypeOK /\ Typed /\ SaveHolds(th) /\ SaveWorld
  BY <1>1, SerialTyped DEF SerialInv, SaveInv, AllSave
<1>b. UNCHANGED <<registry, watching, nextLaunch, dump, up>> /\ up
  BY DEF Suppress, Replay, memory, os, exits, files, At
<1>c. SnapshotAppConfigs' = SnapshotAppConfigs
  BY <1>b, SnapshotKept
<1>d. \A s : Become(t, s) => \A u \in Threads : thread'[u] = s
  BY <1>a DEF OneHandler, Become, TypeOK
<1>e. SaveWorld'
  BY <1>a, <1>b, SaveWorldStays DEF SaveWorld
<1>f. /\ th.op = "resurrect" /\ th.rest = <<>> /\ dump.state = "complete" /\ ~th.job.triggered
      /\ nextLaunch \in Launches => SnapshotAppConfigs \union th.replay = dump.image
  <2>1. th.pc \in {"suppress", "replay"}
    BY <1>1 DEF Suppress, Replay, At
  <2>2. th.op = "resurrect" /\ ReplayHolds(th)
    BY <1>a, <2>1 DEF SaveHolds, OpHolds
  <2> QED
    BY <2>1, <2>2 DEF ReplayHolds, Current
<1>2. CASE Suppress(t)
  <2>1. PICK s : Slides(t, s, "replay")
    BY <1>2, <1>a, GotoSlides DEF Suppress
  <2>2. /\ s.pc = "replay" /\ s.op = th.op /\ s.rest = th.rest /\ s.job = th.job
        /\ s.replay = th.replay /\ Become(t, s) /\ suppress' = TRUE
    BY <1>1, <1>2, <2>1 DEF Slides, Suppress
  <2>3. ReplayHolds(s)'
    BY <1>b, <1>c, <1>f, <2>2 DEF ReplayHolds, Current, Replacing, Holding
  <2>4. RelaunchHolds(s)' /\ OpHolds(s)' /\ ImageHolds(s)'
    BY <1>f, <2>2 DEF RelaunchHolds, OpHolds, ImageHolds, Relaunches, Replacing, Holding
  <2> QED
    BY <1>d, <1>e, <2>2, <2>3, <2>4 DEF SaveInv, AllSave, SaveHolds
<1>3. CASE Replay(t) /\ th.replay = {}
  <2>1. Become(t, Idle) /\ suppress' = FALSE
    BY <1>1, <1>3 DEF Replay, Return
  <2>2. Matches'
    BY <1>3, <1>b, <1>c, <1>f DEF Matches
  <2>3. Idle.pc = "idle" /\ Idle.op = "save"
    BY DEF Idle
  <2>4. SaveHolds(Idle)'
    BY <2>1, <2>2, <2>3
    DEF SaveHolds, RelaunchHolds, OpHolds, ReplayHolds, ImageHolds, Relaunches, Replacing,
        Holding
  <2>5. \A u \in Threads : thread'[u] = Idle
    BY <1>d, <2>1
  <2> QED
    BY <1>e, <2>4, <2>5 DEF SaveInv, AllSave
<1>4. CASE Replay(t) /\ th.replay # {}
  <2>1. PICK e \in th.replay :
          Become(t, [th EXCEPT !.replay = @ \ {e}, !.rest = <<e.app>>, !.launched = FALSE,
                               !.job.paused = SavedPause(e), !.pc = "lookup"])
    BY <1>1, <1>4 DEF Replay
  <2>2. PICK s : s = [th EXCEPT !.replay = @ \ {e}, !.rest = <<e.app>>, !.launched = FALSE,
                                !.job.paused = SavedPause(e), !.pc = "lookup"]
    OBVIOUS
  <2>3. /\ s.pc = "lookup" /\ s.op = th.op /\ s.replay = th.replay \ {e} /\ s.rest = <<e.app>>
        /\ s.job.paused = e.paused /\ s.job.triggered = th.job.triggered
    BY <2>2 DEF Thread, Job, SavedPause
  <2>4. e = [app |-> e.app, paused |-> e.paused]
    BY DEF Thread, Image
  <2>5. Current(s) = {e} /\ Tail(s.rest) = <<>> /\ s.rest # <<>>
    BY <2>3, <2>4 DEF Current
  <2>6. UNCHANGED suppress /\ suppress
    <3>1. th.pc = "replay" /\ ReplayHolds(th)
      BY <1>1, <1>4, <1>a DEF Replay, At, SaveHolds
    <3>2. suppress
      BY <1>f, <3>1 DEF ReplayHolds
    <3> QED
      BY <1>1, <1>4, <3>2 DEF Replay
  <2>7. ReplayHolds(s)'
    <3>1. Current(s)' = Current(s)
      BY DEF Current
    <3>2. nextLaunch' \in Launches =>
            SnapshotAppConfigs' \union s.replay \union Current(s)' = dump'.image
      BY <1>b, <1>c, <1>f, <2>3, <2>5, <3>1
    <3> QED
      BY <1>b, <1>f, <2>3, <2>5, <2>6, <3>2 DEF ReplayHolds, Replacing, Holding
  <2>8. RelaunchHolds(s)' /\ OpHolds(s)' /\ ImageHolds(s)'
    BY <1>f, <2>3 DEF RelaunchHolds, OpHolds, ImageHolds, Relaunches, Replacing, Holding
  <2> QED
    BY <1>d, <1>e, <2>1, <2>2, <2>7, <2>8 DEF SaveInv, AllSave, SaveHolds
<1> QED
  BY <1>2, <1>3, <1>4

(* StartApp's loop.                                                         *)
LEMMA LookupSaves ==
  ASSUME OneHandler, SerialInv, SaveInv, ChildInv', NEW t \in Threads,
         Lookup(t) \/ StartAppDone(t)
  PROVE  SaveInv'
<1> DEFINE th == thread[t]
<1>a. TypeOK /\ Typed /\ World /\ th \in Thread /\ SaveHolds(th) /\ SaveWorld /\ HandlerHolds(th)
  BY SerialTyped DEF SerialInv, Typed, SaveInv, AllSave, AllHold
<1>b. UNCHANGED <<registry, watching, nextLaunch, dump, suppress, up>> /\ th.pc = "lookup"
  BY DEF Lookup, StartAppDone, At, memory, os, exits, files
<1>c. th.op \in {"start", "resurrect"}
  BY <1>a, <1>b DEF HandlerHolds, AimHolds
<1>d. th.op = "resurrect" =>
        /\ suppress /\ dump.state = "complete" /\ ~th.job.triggered
        /\ th.rest = <<>> \/ Tail(th.rest) = <<>>
        /\ nextLaunch \in Launches =>
             SnapshotAppConfigs \union th.replay \union Current(th) = dump.image
  BY <1>a, <1>b DEF SaveHolds, ReplayHolds
<1>e. th.op = "start" => ~suppress /\ (Unsaved(th) \/ Matches)
  BY <1>a DEF SaveHolds, ImageHolds
<1>1. CASE Lookup(t)
  <2> DEFINE app == Head(th.rest)
             found == FindExisting(registry, app)
             launch == [th EXCEPT !.job.app = app, !.pc = "fork"]
             stop(k) == [launch EXCEPT !.mp = registry[k].run, !.pc = "unschedule"]
             fail == [th EXCEPT !.rest = <<>>]
  <2>1. th.rest # <<>> /\ app \in Apps \union {NoApp}
    <3>1. th.rest # <<>> /\ th.rest \in Seq(Apps \union {NoApp})
      BY <1>1, <1>a DEF Lookup, Thread
    <3> QED
      BY <3>1
  <2>2. \/ Become(t, launch)
        \/ \E k \in found : Become(t, stop(k))
        \/ Become(t, fail) /\ \E k \in found : registry[k].app.script # app.script
    BY <1>1 DEF Lookup
  <2>3. ASSUME NEW s, s = launch \/ \E k \in found : s = stop(k)
        PROVE  SaveHolds(s)
    <3>1. /\ s.pc \in {"fork", "unschedule"} /\ s.op = th.op /\ s.launched = th.launched
          /\ s.rest = th.rest /\ s.replay = th.replay /\ s.job.app = Head(th.rest)
          /\ s.job.paused = th.job.paused /\ s.job.triggered = th.job.triggered
      <4>1. /\ launch.pc = "fork" /\ launch.op = th.op /\ launch.launched = th.launched
            /\ launch.rest = th.rest /\ launch.replay = th.replay /\ launch.job.app = Head(th.rest)
            /\ launch.job.paused = th.job.paused /\ launch.job.triggered = th.job.triggered
            /\ DOMAIN launch = DOMAIN th /\ {"pc", "op", "launched", "rest", "replay", "job", "mp"} \subseteq DOMAIN th
        BY <1>a DEF Thread, Job
      <4> HIDE DEF launch
      <4>2. CASE s = launch
        BY <4>1, <4>2
      <4>3. ASSUME NEW k \in found, s = stop(k)
            PROVE  /\ s.pc = "unschedule" /\ s.op = launch.op /\ s.launched = launch.launched
                   /\ s.rest = launch.rest /\ s.replay = launch.replay /\ s.job = launch.job
        BY <4>1, <4>3
      <4> QED
        BY <2>3, <4>1, <4>2, <4>3
    <3>2. Current(s) = Current(th)
      BY <3>1 DEF Current
    <3>3. ReplayHolds(s)
      BY <1>d, <2>1, <3>1, <3>2 DEF ReplayHolds, Replacing, Holding
    <3>4. RelaunchHolds(s) /\ OpHolds(s)
      BY <1>c, <3>1 DEF RelaunchHolds, OpHolds, Relaunches
    <3>5. ImageHolds(s)
      BY <1>c, <1>e, <3>1 DEF ImageHolds, Unsaved
    <3> QED
      BY <3>3, <3>4, <3>5 DEF SaveHolds
  <2>4. ASSUME \E k \in found : registry[k].app.script # app.script PROVE SaveHolds(fail)
    <3>1. /\ fail.pc = "lookup" /\ fail.op = th.op /\ fail.launched = th.launched
          /\ fail.rest = <<>> /\ fail.job = th.job /\ fail.replay = th.replay
      BY <1>a, <1>b DEF Thread
    <3>2. th.op = "resurrect" => nextLaunch \notin Launches
      <4> SUFFICES ASSUME th.op = "resurrect", nextLaunch \in Launches PROVE FALSE
        OBVIOUS
      <4>1. PICK k \in found : registry[k].app.script # app.script
        BY <2>4
      <4>2. /\ k \in Registered(registry) /\ cronKey(registry[k].app) = k
            /\ k = cronKey(app) \/ Twins(registry[k].app, app)
        BY <1>a, FoundAkin DEF World, Registered
      <4> DEFINE a == [app |-> registry[k].app, paused |-> registry[k].paused]
                 b == [app |-> app, paused |-> th.job.paused]
      <4>3. a \in dump.image
        BY <1>d, <4>2 DEF SnapshotAppConfigs
      <4>4. b \in dump.image
        BY <1>d, <2>1 DEF Current
      <4>5. Distinct(dump.image)
        BY <1>a, <1>d DEF SaveWorld
      <4>6. cronKey(a.app) = cronKey(b.app) \/ Twins(a.app, b.app)
        BY <4>2
      <4>7. a = b
        BY <4>3, <4>4, <4>5, <4>6 DEF Distinct
      <4> QED
        BY <4>1, <4>7
    <3> HIDE DEF fail
    <3>3. ReplayHolds(fail)
      BY <1>d, <3>1, <3>2 DEF ReplayHolds, Replacing, Holding
    <3>4. RelaunchHolds(fail) /\ OpHolds(fail)
      BY <3>1 DEF RelaunchHolds, OpHolds, Replacing, Holding
    <3>5. ImageHolds(fail)
      BY <1>c, <1>e, <3>1 DEF ImageHolds, Unsaved
    <3> QED
      BY <3>3, <3>4, <3>5 DEF SaveHolds
  <2> HIDE DEF launch, fail, stop
  <2> QED
    BY <1>b, <2>2, <2>3, <2>4, MovesAndSaves
<1>2. CASE StartAppDone(t)
  <2>1. th.rest = <<>>
    BY <1>2 DEF StartAppDone
  <2> DEFINE save == [th EXCEPT !.job = NoJob, !.pc = "autosave"]
  <2>2. \/ Become(t, save)
        \/ th.op = "resurrect" /\ Goto(t, "replay")
        \/ th.op # "resurrect" /\ ~th.launched /\ Return(t)
    BY <1>2 DEF StartAppDone
  <2>3. SaveHolds(save)
    <3>1. /\ save.pc = "autosave" /\ save.op = th.op /\ save.launched = th.launched
          /\ save.rest = th.rest /\ save.job = NoJob /\ save.replay = th.replay
          /\ ~NoJob.triggered
      BY <1>a DEF Thread, NoJob
    <3> HIDE DEF save
    <3>2. Current(save) = Current(th)
      BY <2>1, <3>1 DEF Current
    <3>3. ReplayHolds(save)
      BY <1>d, <2>1, <3>1, <3>2 DEF ReplayHolds, Replacing, Holding
    <3>4. RelaunchHolds(save) /\ OpHolds(save)
      BY <3>1 DEF RelaunchHolds, OpHolds, Replacing, Holding
    <3>5. ImageHolds(save)
      BY <1>c, <1>e, <3>1 DEF ImageHolds, Unsaved
    <3> QED
      BY <3>3, <3>4, <3>5 DEF SaveHolds
  <2> HIDE DEF save
  <2>4. CASE th.op = "resurrect" /\ Goto(t, "replay")
    <3>1. PICK s : Slides(t, s, "replay")
      BY <1>a, <2>4, GotoSlides
    <3>2. /\ s.pc = "replay" /\ s.op = th.op /\ s.rest = th.rest /\ s.job = th.job
          /\ s.replay = th.replay /\ Become(t, s)
      BY <3>1 DEF Slides
    <3>3. Current(s) = Current(th)
      BY <3>2 DEF Current
    <3>4. ReplayHolds(s)
      BY <1>d, <2>1, <3>2, <3>3 DEF ReplayHolds, Replacing, Holding
    <3>5. RelaunchHolds(s) /\ OpHolds(s) /\ ImageHolds(s)
      BY <2>4, <3>2 DEF RelaunchHolds, OpHolds, ImageHolds, Relaunches, Replacing, Holding
    <3> QED
      BY <1>b, <3>2, <3>4, <3>5, MovesAndSaves DEF SaveHolds
  <2>5. CASE th.op # "resurrect" /\ ~th.launched /\ Return(t)
    BY <1>b, <1>c, <2>5, TamelyStill, ReturnsAndSaves DEF Unsaved
  <2> QED
    BY <1>b, <2>2, <2>3, <2>4, <2>5, MovesAndSaves
<1> QED
  BY <1>1, <1>2

(* PauseByName and DeleteByName save what they did when they are done.      *)
LEMMA ChangeSaves ==
  ASSUME OneHandler, SerialInv, SaveInv, ChildInv', NEW t \in Threads, Suspend(t) \/ Remove(t)
  PROVE  SaveInv'
<1>1. PICK th \in Thread : th = thread[t]
  BY SerialTyped DEF SerialInv, Typed
<1>a. TypeOK /\ Typed /\ SaveHolds(th) /\ SaveWorld /\ HandlerHolds(th)
  BY <1>1, SerialTyped DEF SerialInv, SaveInv, AllSave, AllHold
<1>b. UNCHANGED <<watching, nextLaunch, dump, suppress, up>> /\ up
  BY DEF Suspend, Remove, os, exits, files, At
<1>2. th.op \in {"pause", "delete"}
  BY <1>1, <1>a DEF Suspend, Remove, At, SaveHolds, OpHolds
<1>3. PICK s : Slides(t, s, "next")
  BY <1>a, GotoSlides DEF Suspend, Remove
<1>4. s.pc = "next" /\ s.op = th.op /\ Become(t, s)
  BY <1>1, <1>3 DEF Slides
<1>5. \A u \in Threads : thread'[u] = s
  BY <1>4, <1>a DEF OneHandler, Become, TypeOK
<1>6. SaveHolds(s)'
  <2>1. ~suppress
    BY <1>2, <1>a DEF SaveHolds, ImageHolds
  <2> QED
    BY <1>2, <1>4, <1>b, <2>1
    DEF SaveHolds, ReplayHolds, RelaunchHolds, OpHolds, ImageHolds, Unsaved, Replacing, Holding
<1>7. SaveWorld'
  <2> DEFINE k == key[th.mp]
  <2>1. th.pc \in {"suspend", "remove"} /\ registry \in [Keys -> Entry]
    BY <1>1, <1>a DEF Suspend, Remove, At, TypeOK
  <2>2. registry[k].stopping
    BY <1>a, <2>1 DEF HandlerHolds, StopHolds
  <2>3. \A j \in Keys : registry'[j] = registry[j] \/ registry'[j] = Absent \/ registry'[j].stopping
    <3>1. CASE Suspend(t)
      BY <1>1, <2>1, <2>2, <3>1 DEF Suspend, UpdateInfo, Entry
    <3>2. CASE Remove(t)
      BY <1>1, <2>1, <3>2 DEF Remove
    <3> QED
      BY <3>1, <3>2
  <2>4. \A j \in Keys : \/ registry'[j].run = Nil
                        \/ registry'[j].run = registry[j].run /\ registry'[j].app = registry[j].app
    <3>1. CASE Suspend(t)
      BY <1>1, <2>1, <2>2, <3>1 DEF Suspend, UpdateInfo, Entry
    <3>2. CASE Remove(t)
      BY <1>1, <2>1, <3>2, KeyTypes DEF Remove
    <3> QED
      BY <3>1, <3>2
  <2>5. NoTwins'
    BY <1>a, <2>4 DEF SaveWorld, NoTwins
  <2> QED
    BY <1>a, <1>b, <2>3, <2>5, KeyTypes DEF SaveWorld
<1> QED
  BY <1>5, <1>6, <1>7 DEF SaveInv, AllSave

\* How the callers of launchProcessWith go on.
LEMMA LaunchedIs ==
  ASSUME NEW th \in Thread, NEW s, s = Launched(th)
  PROVE  /\ th.op \in {"start", "resurrect"} =>
              /\ s.pc = "lookup" /\ s.op = th.op /\ s.launched /\ s.rest = Tail(th.rest)
              /\ s.job = th.job /\ s.replay = th.replay
         /\ th.op = "cron" => s.pc = "outcome" /\ s.op = th.op
         /\ th.op = "auto" => s = Idle
         /\ th.op \notin {"start", "resurrect", "cron", "auto"} => s.pc = "next" /\ s.op = th.op
<1> DEFINE done == [th EXCEPT !.new = Nil, !.mp = Nil]
           looking == [done EXCEPT !.rest = Tail(@), !.launched = TRUE, !.pc = "lookup"]
           reporting == [done EXCEPT !.outcome = "running", !.pc = "outcome"]
           looping == [done EXCEPT !.pc = "next"]
<1>1. /\ done.op = th.op /\ done.rest = th.rest /\ done.job = th.job /\ done.replay = th.replay
      /\ DOMAIN done = DOMAIN th
      /\ {"rest", "launched", "pc", "outcome", "op", "job", "replay"} \subseteq DOMAIN th
  BY DEF Thread
<1>2. s = CASE th.op \in {"start", "resurrect"} -> looking
            [] th.op = "cron" -> reporting
            [] th.op = "auto" -> Idle
            [] OTHER -> looping
  BY DEF Launched
<1> HIDE DEF done
<1>3. /\ looking.op = th.op /\ looking.launched /\ looking.pc = "lookup"
      /\ looking.rest = Tail(th.rest) /\ looking.job = th.job /\ looking.replay = th.replay
      /\ reporting.op = th.op /\ reporting.pc = "outcome"
      /\ looping.op = th.op /\ looping.pc = "next"
  BY <1>1
<1> HIDE DEF looking, reporting, looping
<1> QED
  BY <1>2, <1>3

(* What a launch installs has no twin but what it replaces.                 *)
LEMMA InstalledAlone ==
  ASSUME TwoHomes, OneSource, TypeOK, Keyed, NoTwins, NEW app \in Apps \union {NoApp},
         NEW e, \/ e \in FindExisting(registry, app)
                \/ e = NoKey /\ FindExisting(registry, app) = {},
         NEW j \in Keys, j # cronKey(app), j # e, registry[j].run # Nil
  PROVE  ~Twins(registry[j].app, app)
<1> SUFFICES ASSUME Twins(registry[j].app, app) PROVE FALSE
  OBVIOUS
<1>1. PICK home : /\ home \in Apps /\ home.ns = NoApp.ns /\ home.name = NoApp.name
                  /\ home.cfg = NoApp.cfg
  <2>1. anApp \in Apps /\ anApp \in App
    BY SomeApp, AppTypes DEF anApp
  <2> QED
    BY <2>1 DEF NoApp, App
<1>2. \A a, b, c \in Apps \union {NoApp} :
        Twins(a, b) /\ a.ns # b.ns /\ c.name = b.name /\ c.ns = b.ns => c.cfg = b.cfg
  BY <1>1 DEF OneSource, Twins
<1>3. registry[j].app \in Apps \union {NoApp} /\ cronKey(registry[j].app) = j
  BY DEF TypeOK, Entry, Keyed
<1>4. CASE cronKey(app) \in Registered(registry)
  <2> DEFINE k == cronKey(app)
  <2>1. k \in Keys /\ registry[k].run # Nil
    BY <1>4 DEF Registered
  <2>2. registry[k].app \in Apps \union {NoApp} /\ cronKey(registry[k].app) = k
    BY <2>1 DEF TypeOK, Entry, Keyed
  <2>3. registry[k].app.name = app.name /\ registry[k].app.ns = app.ns
    BY <2>2 DEF cronKey
  <2>4. registry[j].app.ns # app.ns
    BY <1>3 DEF cronKey, Twins
  <2>5. registry[k].app.cfg = app.cfg
    BY <1>2, <1>3, <2>2, <2>3, <2>4
  <2>6. Twins(registry[j].app, registry[k].app)
    BY <2>3, <2>5 DEF Twins
  <2> QED
    BY <2>1, <2>6 DEF NoTwins
<1>5. CASE cronKey(app) \notin Registered(registry)
  <2>1. j[2] = app.name
    BY <1>3 DEF cronKey, Twins
  <2>2. j \in FindExisting(registry, app)
    BY <1>5, <2>1 DEF FindExisting, Registered, Twins
  <2>3. e \in FindExisting(registry, app)
    BY <2>2
  <2> QED
    BY <2>2, <2>3, OneFound
<1> QED
  BY <1>4, <1>5

(* launchProcessWith: a relaunch registers what was registered, a saved     *)
(* entry comes back as it was saved, and the rest will be saved.            *)
LEMMA InstallSaves ==
  ASSUME OneHandler, TwoHomes, OneSource, SerialInv, SaveInv, ChildInv', NEW t \in Threads,
         Install(t)
  PROVE  SaveInv'
<1>1. PICK th \in Thread : th = thread[t]
  BY SerialTyped DEF SerialInv, Typed
<1>2. PICK s : s = Launched(th)
  OBVIOUS
<1> DEFINE n == th.new
           job == th.job
           k == cronKey(job.app)
<1>a. /\ TypeOK /\ Typed /\ World /\ SaveHolds(th) /\ SaveWorld
      /\ job \in Job /\ k \in Keys
      /\ registry \in [Keys -> Entry] /\ watching \in [Launches -> WatchStages]
  <2>1. TypeOK /\ Typed /\ World /\ SaveHolds(th) /\ SaveWorld
    BY <1>1, SerialTyped DEF SerialInv, SaveInv, AllSave
  <2>2. job \in Job /\ k \in Keys
    BY <1>1, InPlace DEF SerialInv
  <2> QED
    BY <2>1, <2>2 DEF TypeOK
<1>b. /\ th.pc = "install" /\ n \in Launches /\ Become(t, s)
      /\ UNCHANGED <<dump, suppress, up, nextLaunch>> /\ up /\ n # Nil
  BY <1>1, <1>2, <1>a, InPlace DEF Install, At, os, files, SerialInv, Typed
<1>c. \A j \in Keys : registry[j].run # n
  <2>1. Pending(n)
    BY <1>1, <1>b DEF Pending
  <2> QED
    BY <1>a, <1>b, <2>1 DEF SerialInv, ChildInv, AllManaged, Managed
<1>d. \A u \in Threads : thread'[u] = s
  BY <1>a, <1>b DEF OneHandler, Become, TypeOK
<1>e. th.op \in Relaunches \union {"start", "resume", "resurrect"}
  BY <1>a, <1>b DEF SaveHolds, OpHolds
<1>f. th.op # "resurrect" => ~suppress /\ (Unsaved(th) \/ Matches)
  BY <1>a DEF SaveHolds, ImageHolds
<1>g. Idle.pc = "idle" /\ Idle.op = "save"
  BY DEF Idle
<1>h. /\ s.pc \in {"lookup", "outcome", "next", "idle"}
      /\ s.pc = "outcome" => s.op = "cron"
      /\ s.pc = "idle" => s.op = "save"
      /\ s.op = "resurrect" <=> th.op = "resurrect"
      /\ th.op \in {"start", "resume"} => Unsaved(s)
  BY <1>2, <1>e, <1>g, LaunchedIs DEF Relaunches, Unsaved
<1>3. RelaunchHolds(s)' /\ OpHolds(s)'
  BY <1>h DEF RelaunchHolds, OpHolds, Relaunches, Replacing, Holding
<1>4. PICK e : /\ InstallOver(t, e) \/ Discard(t, e)
               /\ \/ e \in FindExisting(registry, job.app)
                  \/ e = NoKey /\ FindExisting(registry, job.app) = {}
  BY <1>1 DEF Install
<1>j. e \in Keys \union {NoKey} /\ (registry[k].run # Nil => e = k)
  BY <1>4, <1>a, FoundIsRegistered, FoundOwn DEF Registered
<1>i. th.op = "resurrect" =>
        /\ suppress /\ dump.state = "complete" /\ ~job.triggered
        /\ s.rest = <<>> /\ s.pc = "lookup" /\ s.job = job /\ s.replay = th.replay
        /\ nextLaunch \in Launches =>
             SnapshotAppConfigs \union th.replay
               \union {[app |-> job.app, paused |-> job.paused]} = dump.image
  <2>1. th.op = "resurrect" =>
          /\ suppress /\ dump.state = "complete" /\ ~job.triggered
          /\ th.rest # <<>> /\ Tail(th.rest) = <<>> /\ job.app = Head(th.rest)
          /\ nextLaunch \in Launches =>
               SnapshotAppConfigs \union th.replay \union Current(th) = dump.image
    BY <1>a, <1>b DEF SaveHolds, ReplayHolds, Replacing, Holding
  <2> QED
    BY <1>2, <2>1, LaunchedIs DEF Current
<1>5. CASE Discard(t, e)
  <2>1. watching' = [watching EXCEPT ![n] = "unmanaged"] /\ UNCHANGED registry
    BY <1>1, <1>5 DEF Discard, memory
  <2>2. job.triggered
    BY <1>1, <1>5 DEF Discard, Overruled
  <2>3. Tamely
    BY <1>a, <1>b, <1>c, <2>1 DEF Tamely, Tame
  <2>4. SaveWorld'
    BY <1>a, <2>3, TamelyWorld
  <2>5. SnapshotAppConfigs' = SnapshotAppConfigs
    BY <2>1, SnapshotKept
  <2>6. Matches' <=> Matches
    BY <1>b, <2>5 DEF Matches
  <2>7. ReplayHolds(s)'
    BY <1>h, <1>i, <2>2 DEF ReplayHolds
  <2>8. ImageHolds(s)'
    BY <1>b, <1>e, <1>f, <1>h, <1>i, <2>2, <2>6 DEF ImageHolds, Unsaved, Relaunches
  <2> QED
    BY <1>3, <1>d, <2>4, <2>7, <2>8 DEF SaveInv, AllSave, SaveHolds
<1>6. CASE InstallOver(t, e)
  <2>1. PICK f : f = NewEntry(job, n, e)
    OBVIOUS
  <2>2. f.run = n /\ f.app = job.app /\ f.paused = job.paused
    BY <1>a, <1>b, <1>j, <2>1, NewEntryIs
  <2>3. \A j \in Keys : registry'[j] = IF j = k THEN f ELSE IF j = e THEN Absent ELSE registry[j]
    BY <1>1, <1>6, <2>1 DEF InstallOver
  <2>a. Absent.run = Nil /\ NoKey \notin Keys
    BY KeyTypes
  <2>b. e \in {k, NoKey} => \A j \in Keys : registry'[j] = IF j = k THEN f ELSE registry[j]
    BY <2>3, <2>a
  <2>4. /\ \A m \in Launches : m # n => watching'[m] = watching[m]
        /\ watching'[n] = IF NoChild(job) THEN "off" ELSE "on"
    BY <1>1, <1>6, <1>a, <1>b DEF InstallOver
  <2>5. SaveWorld'
    <3>1. ASSUME NEW j \in Keys, registry'[j].run # Nil, registry'[j].paused,
                 ~registry'[j].stopping
          PROVE  watching'[registry'[j].run] = "off"
      <4>1. CASE j = k
        BY <2>2, <2>3, <2>4, <3>1, <4>1 DEF NoChild
      <4>2. CASE j # k
        <5>1. registry'[j] = registry[j] /\ registry[j].run \in Launches \ {n}
          BY <1>a, <1>c, <2>3, <2>a, <3>1, <4>2 DEF Typed
        <5> QED
          BY <1>a, <2>4, <3>1, <5>1 DEF SaveWorld
      <4> QED
        BY <4>1, <4>2
    <3>2. NoTwins'
      <4>1. \A j \in Keys \ {k} :
              registry'[j].run # Nil => registry'[j] = registry[j] /\ j # e /\ registry[j].run # Nil
        BY <2>3, <2>a
      <4>2. ASSUME NEW j \in Keys \ {k}, registry'[j].run # Nil
            PROVE  ~Twins(registry[j].app, job.app)
        <5>1. job.app \in Apps \union {NoApp} /\ Keyed /\ NoTwins
          BY <1>a DEF Job, World, SaveWorld
        <5>2. j \in Keys /\ j # cronKey(job.app) /\ j # e /\ registry[j].run # Nil
          BY <4>1, <4>2
        <5> QED
          BY <1>4, <1>a, <5>1, <5>2, InstalledAlone
      <4>3. ASSUME NEW j \in Keys \ {k}, registry'[j].run # Nil
            PROVE  ~Twins(registry'[j].app, f.app) /\ ~Twins(f.app, registry'[j].app)
        BY <2>2, <4>1, <4>2, <4>3 DEF Twins
      <4> QED
        BY <1>a, <2>3, <4>1, <4>3 DEF SaveWorld, NoTwins
    <3> QED
      BY <1>a, <1>b, <3>1, <3>2 DEF SaveWorld
  <2>6. ReplayHolds(s)'
    <3> SUFFICES ASSUME s.op = "resurrect" PROVE ReplayHolds(s)'
      BY DEF ReplayHolds
    <3> DEFINE b == [app |-> job.app, paused |-> job.paused]
    <3>1. nextLaunch \in Launches => SnapshotAppConfigs' \union th.replay = dump.image
      <4> SUFFICES ASSUME nextLaunch \in Launches
                   PROVE  SnapshotAppConfigs' \union th.replay = dump.image
        OBVIOUS
      <4>1. SnapshotAppConfigs \union th.replay \union {b} = dump.image /\ Distinct(dump.image)
        BY <1>a, <1>h, <1>i DEF SaveWorld
      <4>0. \A j \in Keys : registry'[j] = IF j = k THEN f ELSE registry[j]
        <5>1. CASE e \in FindExisting(registry, job.app)
          <6> DEFINE a == [app |-> registry[e].app, paused |-> registry[e].paused]
          <6>1. /\ e \in Registered(registry) /\ cronKey(registry[e].app) = e
                /\ e = k \/ Twins(registry[e].app, job.app)
            BY <1>a, <5>1, FoundAkin DEF World, Registered
          <6>2. a \in dump.image /\ b \in dump.image
            BY <4>1, <6>1 DEF SnapshotAppConfigs
          <6>3. a = b
            BY <4>1, <6>1, <6>2 DEF Distinct
          <6>4. e = k
            BY <6>1, <6>3
          <6> QED
            BY <2>b, <6>4
        <5> QED
          BY <1>4, <2>b, <5>1
      <4>2. SnapshotAppConfigs' =
              {[app |-> registry'[j].app, paused |-> registry'[j].paused] :
                 j \in Registered(registry')}
        BY DEF SnapshotAppConfigs
      <4>3. k \in Registered(registry') /\ registry'[k] = f
        BY <1>a, <1>b, <2>2, <4>0 DEF Registered
      <4>4. \A j \in Keys : j # k =>
              registry'[j] = registry[j]
              /\ (j \in Registered(registry') <=> j \in Registered(registry))
        BY <4>0 DEF Registered
      <4>5. b \in SnapshotAppConfigs'
        BY <2>2, <4>2, <4>3
      <4>6. SnapshotAppConfigs' \subseteq SnapshotAppConfigs \union {b}
        <5> SUFFICES ASSUME NEW j \in Registered(registry')
                     PROVE  [app |-> registry'[j].app, paused |-> registry'[j].paused]
                              \in SnapshotAppConfigs \union {b}
          BY <4>2
        <5>1. CASE j = k
          BY <2>2, <4>3, <5>1
        <5>2. CASE j # k
          BY <4>4, <5>2 DEF SnapshotAppConfigs, Registered
        <5> QED
          BY <5>1, <5>2
      <4>7. SnapshotAppConfigs \subseteq SnapshotAppConfigs'
        <5> SUFFICES ASSUME NEW j \in Registered(registry)
                     PROVE  [app |-> registry[j].app, paused |-> registry[j].paused]
                              \in SnapshotAppConfigs'
          BY DEF SnapshotAppConfigs
        <5>1. CASE j = k
          <6> DEFINE a == [app |-> registry[k].app, paused |-> registry[k].paused]
          <6>1. a \in dump.image
            BY <4>1, <5>1 DEF SnapshotAppConfigs
          <6>2. b \in dump.image
            BY <4>1
          <6>3. cronKey(a.app) = cronKey(b.app)
            BY <1>a, <5>1 DEF World, Keyed, Registered
          <6>4. a = b
            BY <4>1, <6>1, <6>2, <6>3 DEF Distinct
          <6> QED
            BY <4>5, <5>1, <6>4
        <5>2. CASE j # k
          BY <4>2, <4>4, <5>2 DEF Registered
        <5> QED
          BY <5>1, <5>2
      <4> QED
        BY <4>1, <4>5, <4>6, <4>7
    <3>2. Current(s)' = {}
      BY <1>h, <1>i DEF Current
    <3> QED
      BY <1>b, <1>h, <1>i, <3>1, <3>2 DEF ReplayHolds, Replacing, Holding
  <2>7. ImageHolds(s)'
    <3>1. CASE th.op \in Relaunches
      <4>1. /\ registry[k].run # Nil /\ registry[k].app = job.app /\ ~job.paused
            /\ registry[k].paused => job.triggered
        BY <1>a, <1>b, <3>1 DEF SaveHolds, RelaunchHolds, Replacing
      <4>2. ~registry[k].paused
        BY <1>1, <1>6, <1>a, <1>j, <2>a, <4>1 DEF InstallOver, Overruled
      <4>3. job.paused = registry[k].paused
        BY <1>a, <4>1, <4>2 DEF Job, Entry
      <4>4. SnapshotAppConfigs' = SnapshotAppConfigs
        BY <1>b, <1>j, <2>2, <2>b, <4>1, <4>3, SnapshotKept
      <4>5. Matches'
        BY <1>b, <1>f, <3>1, <4>4 DEF Matches, Relaunches, Unsaved
      <4> QED
        BY <1>b, <1>f, <1>h, <3>1, <4>5 DEF ImageHolds, Relaunches
    <3>2. CASE th.op \in {"start", "resume"}
      BY <1>b, <1>f, <1>h, <3>2 DEF ImageHolds, Unsaved
    <3>3. CASE th.op = "resurrect"
      BY <1>h, <3>3 DEF ImageHolds
    <3> QED
      BY <1>e, <3>1, <3>2, <3>3
  <2> QED
    BY <1>3, <1>d, <2>5, <2>6, <2>7 DEF SaveInv, AllSave, SaveHolds
<1> QED
  BY <1>4, <1>5, <1>6


(* A handler begins a command.                                              *)
LEMMA BeginSaves ==
  ASSUME OneHandler, SerialInv, SaveInv, ChildInv', NEW t \in Threads,
         \/ StartApp(t) \/ ByName(t) \/ KillAll(t) \/ Save(t) \/ Resurrect(t)
         \/ \E k \in Keys : CronRestart(t, k)
         \/ \E m \in Launches : Debounced(t, m)
  PROVE  SaveInv'
<1>a. TypeOK /\ Typed /\ thread[t] \in Thread /\ SaveHolds(thread[t])
  BY SerialTyped DEF SerialInv, Typed, SaveInv, AllSave
<1>b. thread[t].pc = "idle" /\ ~suppress /\ Matches
  BY <1>a DEF StartApp, ByName, KillAll, Save, Resurrect, CronRestart, Debounced, At, SaveHolds,
     OpHolds, ImageHolds, Unsaved
<1>c. UNCHANGED <<registry, watching, nextLaunch, dump, suppress, up>> /\ up
  BY DEF StartApp, ByName, KillAll, Save, Resurrect, CronRestart, Debounced, At, memory, os,
     exits, files
<1>d. ASSUME NEW s, Become(t, s), s.op # "resurrect",
             s.pc \in {"lookup", "next", "snapshot"}
               \/ (s.pc = "outcome" /\ s.op \in Relaunches) \/ s = Idle
      PROVE  SaveInv'
  <2>1. CASE s = Idle
    BY <1>b, <1>c, <1>d, <2>1, IdleSaves, MovesAndSaves
  <2>2. CASE s # Idle
    <3>1. OpHolds(s) /\ RelaunchHolds(s)
      BY <1>d, <2>2 DEF OpHolds, RelaunchHolds, Replacing, Holding
    <3> QED
      BY <1>b, <1>c, <1>d, <2>2, <3>1, SavesFresh, MovesAndSaves
  <2> QED
    BY <2>1, <2>2
<1>1. CASE StartApp(t)
  <2>1. PICK r : Become(t, [Idle EXCEPT !.pc = "lookup", !.op = "start", !.rest = r.apps,
                                        !.job.paused = r.paused])
    BY <1>1 DEF StartApp
  <2> DEFINE s == [Idle EXCEPT !.pc = "lookup", !.op = "start", !.rest = r.apps,
                               !.job.paused = r.paused]
  <2>2. s.pc = "lookup" /\ s.op = "start"
    BY DEF Idle
  <2> HIDE DEF s
  <2> QED
    BY <1>d, <2>1, <2>2 DEF s
<1>2. CASE ByName(t) \/ KillAll(t)
  <2>0. PICK op \in {"stop", "restart", "pause", "resume", "delete", "kill"} :
          \E todo : Become(t, [Idle EXCEPT !.pc = "next", !.op = op, !.todo = todo])
    BY <1>2 DEF ByName, KillAll
  <2>1. PICK todo : Become(t, [Idle EXCEPT !.pc = "next", !.op = op, !.todo = todo])
    BY <2>0
  <2> DEFINE s == [Idle EXCEPT !.pc = "next", !.op = op, !.todo = todo]
  <2>2. s.pc = "next" /\ s.op = op
    BY DEF Idle
  <2> HIDE DEF s
  <2> QED
    BY <1>d, <2>1, <2>2 DEF s
<1>3. CASE Save(t)
  <2>1. PICK s : Slides(t, s, "snapshot")
    BY <1>3, <1>a, GotoSlides DEF Save
  <2>2. s.pc = "snapshot" /\ s.op = "save" /\ Become(t, s)
    BY <1>a, <1>b, <2>1 DEF Slides, SaveHolds, OpHolds
  <2> QED
    BY <1>d, <2>2
<1>4. CASE Resurrect(t)
  <2> DEFINE s == [Idle EXCEPT !.op = "resurrect", !.replay = dump.image, !.pc = "suppress"]
  <2>1. Become(t, s) /\ dump.state = "complete"
    BY <1>4 DEF Resurrect
  <2>2. /\ s.pc = "suppress" /\ s.op = "resurrect" /\ s.rest = <<>> /\ ~s.job.triggered
        /\ s.replay = dump.image
    BY DEF Idle, NoJob
  <2> HIDE DEF s
  <2>5. nextLaunch \in Launches => SnapshotAppConfigs \union s.replay \union Current(s) = dump.image
    BY <1>b, <1>c, <2>1, <2>2 DEF Current, Matches
  <2>6. suppress \in BOOLEAN
    BY <1>a DEF TypeOK
  <2>3. ReplayHolds(s)
    BY <1>b, <2>1, <2>2, <2>5, <2>6 DEF ReplayHolds, Replacing, Holding
  <2>4. RelaunchHolds(s) /\ OpHolds(s) /\ ImageHolds(s)
    BY <2>2 DEF RelaunchHolds, OpHolds, ImageHolds, Replacing, Holding
  <2> QED
    BY <1>c, <2>1, <2>3, <2>4, MovesAndSaves DEF SaveHolds
<1>5. ASSUME NEW k \in Keys, CronRestart(t, k) PROVE SaveInv'
  <2> DEFINE fire == [Idle EXCEPT !.op = "cron_restart", !.fire = k]
             failed == [fire EXCEPT !.outcome = "failed", !.pc = "outcome"]
             going(todo) == [fire EXCEPT !.todo = todo, !.pc = "next"]
  <2>1. PICK todo : Become(t, failed) \/ Become(t, going(todo))
    BY <1>5 DEF CronRestart
  <2>2. /\ failed.pc = "outcome" /\ failed.op = "cron_restart"
        /\ going(todo).pc = "next" /\ going(todo).op = "cron_restart"
    BY DEF Idle
  <2> HIDE DEF failed, going
  <2> QED
    BY <1>d, <2>1, <2>2 DEF Relaunches
<1>6. ASSUME NEW m \in Launches, Debounced(t, m) PROVE SaveInv'
  <2> DEFINE going(todo) == [Idle EXCEPT !.pc = "next", !.op = "watch", !.todo = todo]
  <2>1. PICK todo : Become(t, Idle) \/ Become(t, going(todo))
    BY <1>6 DEF Debounced
  <2>2. going(todo).pc = "next" /\ going(todo).op = "watch" /\ Idle.op = "save"
    BY DEF Idle
  <2> HIDE DEF going
  <2> QED
    BY <1>d, <2>1, <2>2
<1> QED
  BY <1>1, <1>2, <1>3, <1>4, <1>5, <1>6

(* A fire and an auto-restart find their entry, and it is not paused.       *)
LEMMA FireSaves ==
  ASSUME OneHandler, SerialInv, SaveInv, ChildInv', NEW t \in Threads,
         \/ \E k \in Keys : TriggerCron(t, k)
         \/ \E m \in Launches : AutoRestart(t, m)
  PROVE  SaveInv'
<1>a. /\ TypeOK /\ Typed /\ World /\ thread[t] \in Thread /\ SaveHolds(thread[t]) /\ SaveWorld
      /\ HandlerHolds(thread[t])
  BY SerialTyped DEF SerialInv, Typed, SaveInv, AllSave, AllHold
<1>b. thread[t].pc = "idle" /\ ~suppress /\ Matches
  BY <1>a DEF TriggerCron, AutoRestart, At, SaveHolds, OpHolds, ImageHolds, Unsaved
<1>1. ASSUME NEW k \in Keys, TriggerCron(t, k) PROVE SaveInv'
  <2> DEFINE job == [app |-> schedule[k], paused |-> FALSE, triggered |-> TRUE,
                     trigger |-> "cron"]
             s == [Idle EXCEPT !.pc = "guard", !.op = "cron", !.mp = registry[k].run,
                               !.fire = k, !.job = job]
  <2>1. Become(t, s) /\ schedule[k].kind = "cron" /\ registry[k].run # Nil
    BY <1>1 DEF TriggerCron, Present
  <2>2. s.pc = "guard" /\ s.op = "cron" /\ s.job = job
    BY DEF Idle
  <2>3. job.app = schedule[k] /\ ~job.paused /\ job.triggered
    OBVIOUS
  <2> HIDE DEF s, job
  <2>4. schedule[k] = registry[k].app
    BY <1>a, <1>b, <2>1, AppTypes DEF HandlerHolds, RestHolds, Due
  <2>5. cronKey(s.job.app) = k
    BY <1>a, <2>1, <2>2, <2>3, <2>4 DEF World, Keyed
  <2>6. OpHolds(s) /\ RelaunchHolds(s)
    BY <2>1, <2>2, <2>3, <2>4, <2>5 DEF OpHolds, RelaunchHolds
  <2>7. UNCHANGED <<registry, watching, nextLaunch, dump, suppress, up>>
    BY <1>1 DEF TriggerCron, memory, os, exits, files
  <2> QED
    BY <1>b, <2>1, <2>2, <2>6, <2>7, SavesFresh, MovesAndSaves
<1>2. ASSUME NEW m \in Launches, AutoRestart(t, m) PROVE SaveInv'
  <2> DEFINE e == registry[key[m]]
             job == [NoJob EXCEPT !.app = e.app]
             s == [Idle EXCEPT !.pc = "fork", !.op = "auto", !.job = job]
  <2>1. UNCHANGED <<registry, nextLaunch, dump, suppress, up>> /\ watching[m] = "delay"
        /\ watching' = [watching EXCEPT ![m] = "finished"]
    BY <1>2 DEF AutoRestart, memory, os, files
  <2>2. Tamely
    BY <1>a, <2>1 DEF Tamely, Tame, TypeOK
  <2>3. UNCHANGED thread \/ (e.run = m /\ ~e.stopping /\ Become(t, s))
    BY <1>2 DEF AutoRestart
  <2>4. CASE UNCHANGED thread
    BY <1>a, <2>2, <2>4, SaveStays
  <2>5. CASE e.run = m /\ ~e.stopping /\ Become(t, s)
    <3>1. s.pc = "fork" /\ s.op = "auto" /\ s.job = job
      BY DEF Idle
    <3>2. job.app = e.app /\ ~job.paused
      BY DEF NoJob
    <3> HIDE DEF s, job
    <3>3. key[m] \in Keys /\ m # Nil
      BY <1>a DEF TypeOK, Typed
    <3>4. cronKey(s.job.app) = key[m]
      BY <1>a, <2>5, <3>1, <3>2, <3>3 DEF World, Keyed
    <3>5. ~e.paused
      BY <1>a, <2>1, <2>5, <3>3 DEF SaveWorld
    <3>6. OpHolds(s) /\ RelaunchHolds(s)
      BY <2>5, <3>1, <3>2, <3>3, <3>4, <3>5 DEF OpHolds, RelaunchHolds, Relaunches
    <3>7. SaveHolds(s)
      BY <1>b, <3>1, <3>6, SavesFresh
    <3> QED
      BY <1>a, <2>2, <2>5, <3>7, Becomes, SaveGoes DEF SerialInv
  <2> QED
    BY <2>3, <2>4, <2>5
<1> QED
  BY <1>1, <1>2

(* The daemon dies, and a new one replays what can be read.                 *)
LEMMA GoneSaves ==
  ASSUME SaveInv, DaemonGone PROVE SaveInv'
<1>1. /\ ~up' /\ ~suppress' /\ UNCHANGED dump
      /\ \A k \in Keys : registry'[k].run = Nil
      /\ \A t \in Threads : thread'[t] = Idle
  BY KeyTypes DEF DaemonGone
<1>2. SaveWorld'
  BY <1>1 DEF SaveInv, SaveWorld, NoTwins
<1>3. Idle.pc = "idle" /\ Idle.op = "save"
  BY DEF Idle
<1>4. ASSUME NEW s, s = Idle PROVE SaveHolds(s)'
  BY <1>1, <1>3, <1>4
  DEF SaveHolds, ReplayHolds, RelaunchHolds, OpHolds, ImageHolds, Matches, Replacing, Holding,
      Relaunches
<1> QED
  BY <1>1, <1>2, <1>4 DEF SaveInv, AllSave

LEMMA BootSaves ==
  ASSUME OneHandler, SerialInv, SaveInv, NEW t \in Threads, Boot(t) PROVE SaveInv'
<1>a. /\ TypeOK /\ Typed /\ Down /\ thread[t] \in Thread /\ SaveHolds(thread[t]) /\ SaveWorld
  BY SerialTyped DEF SerialInv, ChildInv, Typed, SaveInv, AllSave
<1>b. UNCHANGED <<registry, watching, nextLaunch, dump, suppress>> /\ ~up /\ up'
  BY DEF Boot, memory, os, exits, files
<1>c. thread[t].pc = "idle" /\ thread[t].op = "save" /\ ~suppress
  BY <1>a, <1>b DEF Down, Quiet, SaveHolds, OpHolds, ImageHolds
<1>d. SnapshotAppConfigs' = {}
  BY <1>a, <1>b DEF SaveWorld, SnapshotAppConfigs, Registered
<1>e. SaveWorld'
  BY <1>a, <1>b, SaveWorldStays DEF SaveWorld
<1>0. PICK s : s = [Idle EXCEPT !.op = "resurrect", !.replay = dump.image, !.pc = "suppress"]
  OBVIOUS
<1>1. CASE dump.state = "complete" /\ Become(t, s)
  <2>1. /\ s.pc = "suppress" /\ s.op = "resurrect" /\ s.rest = <<>> /\ ~s.job.triggered
        /\ s.replay = dump.image
    BY <1>0 DEF Idle, NoJob
  <2>2. \A u \in Threads : thread'[u] = s
    BY <1>1, <1>a DEF OneHandler, Become, TypeOK
  <2>5. SnapshotAppConfigs' \union s.replay \union Current(s)' = dump'.image
    BY <1>b, <1>d, <2>1 DEF Current
  <2>6. suppress \in BOOLEAN
    BY <1>a DEF TypeOK
  <2>3. ReplayHolds(s)'
    BY <1>1, <1>b, <1>c, <2>1, <2>5, <2>6 DEF ReplayHolds, Replacing, Holding
  <2>4. RelaunchHolds(s)' /\ OpHolds(s)' /\ ImageHolds(s)'
    BY <2>1 DEF RelaunchHolds, OpHolds, ImageHolds, Replacing, Holding
  <2> QED
    BY <1>e, <2>2, <2>3, <2>4 DEF SaveInv, AllSave, SaveHolds
<1>2. CASE dump.state # "complete" /\ UNCHANGED thread
  <2>1. \A u \in Threads : thread'[u] = thread[t]
    BY <1>2 DEF OneHandler
  <2>2. ASSUME NEW th, th = thread[t] PROVE SaveHolds(th)'
    BY <1>2, <1>a, <1>b, <1>c, <2>2
    DEF SaveHolds, ReplayHolds, RelaunchHolds, OpHolds, ImageHolds, Matches, Replacing, Holding,
        Relaunches
  <2> QED
    BY <1>e, <2>1, <2>2 DEF SaveInv, AllSave
<1> QED
  BY <1>0, <1>1, <1>2 DEF Boot

(* Children end, and their ends are booked.                                 *)
LEMMA WatcherSaves ==
  ASSUME SerialInv, SaveInv, NEW m \in Launches, Watcher(m) \/ ChildExit(m) \/ FileChange(m)
  PROVE  SaveInv'
<1>a. TypeOK /\ Typed /\ registry \in [Keys -> Entry] /\ watching \in [Launches -> WatchStages]
  BY SerialTyped DEF SerialInv, TypeOK
<1>1. UNCHANGED <<thread, dump, suppress, up, nextLaunch>>
  BY DEF Watcher, Reap, OnProcessExit, RecordRun, ChildExit, FileChange, memory, os, exits, files
<1>2. \A k \in Keys : Tame(registry[k], registry'[k])
  <2>1. CASE OnProcessExit(m)
    BY <1>a, <2>1 DEF OnProcessExit, UpdateInfo, Tame, Entry
  <2>2. CASE RecordRun(m)
    BY <1>a, <2>2 DEF RecordRun, UpdateInfo, Tame, Entry
  <2>3. CASE Reap(m) \/ ChildExit(m) \/ FileChange(m)
    BY <2>3 DEF Reap, ChildExit, FileChange, memory, Tame
  <2> QED
    BY <2>1, <2>2, <2>3 DEF Watcher
<1>3. UNCHANGED watching \/ \E stage : watching' = [watching EXCEPT ![m] = stage] /\ watching[m] # "off"
  BY DEF Watcher, Reap, OnProcessExit, RecordRun, ChildExit, FileChange, exits
<1>4. \A j \in Launches : watching[j] = "off" => watching'[j] = "off"
  BY <1>3, <1>a
<1>5. Tamely
  BY <1>1, <1>2, <1>4, <1>a DEF Tamely, Typed
<1> QED
  BY <1>1, <1>5, <1>a, SaveStays

LEMMA InitSaves == Init => SaveInv
<1> SUFFICES ASSUME Init PROVE SaveInv
  OBVIOUS
<1>1. ~suppress /\ dump.state # "complete" /\ \A k \in Keys : registry[k].run = Nil
  BY KeyTypes DEF Init
<1>2. \A t \in Threads : thread[t] = Idle
  BY DEF Init
<1>3. SaveHolds(Idle)
  BY <1>1, IdleSaves DEF Matches
<1> QED
  BY <1>1, <1>2, <1>3 DEF SaveInv, SaveWorld, NoTwins, AllSave

(* Every step preserves it.                                                 *)
LEMMA NextSaves ==
  OneHandler /\ TwoHomes /\ OneSource /\ ~SpawnMayFail =>
    (SerialInv /\ SaveInv /\ ChildInv' /\ [Next]_vars => SaveInv')
<1> SUFFICES ASSUME OneHandler, TwoHomes, OneSource, ~SpawnMayFail,
                    SerialInv, SaveInv, ChildInv', [Next]_vars
             PROVE  SaveInv'
  OBVIOUS
<1>1. ASSUME NEW t \in Threads, Step(t) PROVE SaveInv'
  <2>1. CASE RestartNext(t) \/ ResumeNext(t) \/ StopNext(t) \/ TargetsDone(t) \/ Drained(t)
    BY <2>1, LoopSaves
  <2>2. CASE \/ Unschedule(t) \/ Mark(t) \/ Wait(t) \/ StopTimeout(t) \/ Settle(t) \/ Fork(t)
    BY <2>2, StopStepSaves
  <2>3. CASE Suspend(t) \/ Remove(t)
    BY <2>3, ChangeSaves
  <2>4. CASE Lookup(t) \/ StartAppDone(t)
    BY <2>4, LookupSaves
  <2>5. CASE Install(t)
    BY <2>5, InstallSaves
  <2>6. CASE ForkFails(t) \/ Guard(t) \/ Outcome(t)
    BY <2>6, ErrandSaves
  <2>7. CASE AutoSave(t) \/ Snapshot(t) \/ Truncate(t) \/ Write(t)
    BY <2>7, FileSaves
  <2>8. CASE Suppress(t) \/ Replay(t)
    BY <2>8, ReplaySaves
  <2>9. CASE Exit(t)
    BY <2>9, GoneSaves DEF Exit
  <2> QED
    BY <1>1, <2>1, <2>2, <2>3, <2>4, <2>5, <2>6, <2>7, <2>8, <2>9 DEF Step
<1>2. ASSUME NEW t \in Threads, Begin(t) PROVE SaveInv'
  BY <1>2, BeginSaves, FireSaves, BootSaves DEF Begin
<1>3. ASSUME NEW m \in Launches, Watcher(m) \/ ChildExit(m) \/ FileChange(m) PROVE SaveInv'
  BY <1>3, WatcherSaves
<1>4. CASE Crash
  BY <1>4, GoneSaves DEF Crash
<1>5. CASE UNCHANGED vars
  <2>1. TypeOK /\ Typed /\ UNCHANGED thread
    BY <1>5, SerialTyped DEF SerialInv, vars
  <2>2. Tamely
    BY <1>5, TamelyStill DEF vars, memory, os, exits, files
  <2> QED
    BY <2>1, <2>2, SaveStays
<1> QED
  BY <1>1, <1>2, <1>3, <1>4, <1>5 DEF Next

(* A handler at a time, and when no launch fails, a complete dump.json of a *)
(* quiet daemon is the table of tasks: every command that changed it saves  *)
(* before it returns, what relaunches without a save (a restart, a fire, an *)
(* auto-restart) changes nothing that is saved, and a daemon that replays   *)
(* its dump has in its table, in hand or yet to come exactly what it read:  *)
(* no saved entry replaces what another has brought back, as long as a file *)
(* moves its task only to where nothing else registers it (autoSave, Save,  *)
(* Resurrect, SnapshotAppConfigs, findExistingForLaunchUnderLock).          *)
THEOREM DumpsMatch ==
  OneHandler /\ TwoHomes /\ OneSource /\ ~SpawnMayFail => (Spec => []DumpMatchesRegistry)
<1> SUFFICES ASSUME OneHandler, TwoHomes, OneSource, ~SpawnMayFail
             PROVE  Spec => []DumpMatchesRegistry
  OBVIOUS
<1>1. Init => SerialInv /\ SaveInv
  BY InitHolds, InitSaves
<1>2. SerialInv /\ SaveInv /\ [Next]_vars => (SerialInv /\ SaveInv)'
  <2> SUFFICES ASSUME SerialInv, SaveInv, [Next]_vars PROVE SerialInv' /\ SaveInv'
    OBVIOUS
  <2>1. SerialInv'
    BY NextHolds
  <2> QED
    BY <2>1, NextSaves DEF SerialInv
<1>3. SerialInv /\ SaveInv => DumpMatchesRegistry
  <2> SUFFICES ASSUME SerialInv, SaveInv, Quiet PROVE Matches
    BY DEF DumpMatchesRegistry, Matches
  <2>1. PICK t \in Threads : TRUE
    BY ThreadsAssumption
  <2>2. PICK th \in Thread : th = thread[t]
    BY SerialTyped DEF SerialInv, Typed
  <2>3. th.pc = "idle" /\ SaveHolds(th)
    BY <2>2 DEF Quiet, SaveInv, AllSave
  <2> QED
    BY <2>3 DEF SaveHolds, OpHolds, ImageHolds, Unsaved
<1> QED
  BY <1>1, <1>2, <1>3, PTL DEF Spec

================================================================================
