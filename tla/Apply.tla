--------------------------------- MODULE Apply ---------------------------------
(* `pm2 apply' and `pm2 apply --delete': fetching and loading the ecosystem  *)
(* file, choosing its apps, and the requests sent to the daemon one by one,  *)
(* each of which may fail.  A request is one step here; the daemon's side of *)
(* it is ProcessManager's.                                                   *)
EXTENDS Integers, Sequences, FiniteSets, SequencesExt

CONSTANTS
  Ecosystem,     \* the file's apps: [ns |-> 0 when unset, name, n, optional]
  FileWorkflows, \* the workflows it declares, in order
  Words,         \* what --with may name and --single may answer: <<ns or 0, name>>
  Others,        \* tasks of other files: [ns, name]
  Leading,       \* the number a namespace begins with, 0 if none
  Attempts,      \* downloads tried
  MaxApplies     \* bound: invocations

ASSUME ApplyAssumption ==
  /\ Ecosystem \in Seq([ns : Nat, name : STRING, n : Nat \ {0}, optional : BOOLEAN])
  /\ Others \subseteq [ns : Nat, name : STRING] /\ IsFiniteSet(Others)
  /\ Attempts \in Nat \ {0} /\ MaxApplies \in Nat

VARIABLES
  cache,         \* repos/<owner>/<repo>/ecosystem.config.js
  apply,         \* the invocation under way
  registered,    \* the daemon's registry
  defined,       \* the daemon's workflows
  applies

applyVars == <<cache, apply, registered, defined, applies>>

DefaultSpace == 1
\* Normalize: no namespace is the default one.
Normalized == [i \in DOMAIN Ecosystem |->
                 [Ecosystem[i] EXCEPT !.ns = IF @ = 0 THEN DefaultSpace ELSE @]]
\* StartApp: an app of several instances is that many tasks.
Instances(app) == IF app.n = 1 THEN {<<app.name, 0>>}
                  ELSE {<<app.name, k>> : k \in 1..app.n}

Idle == [pc |-> "idle", remote |-> FALSE, delete |-> FALSE, all |-> FALSE, with |-> {},
         single |-> FALSE, attempt |-> 0, queue |-> <<>>, again |-> FALSE, error |-> FALSE,
         deleted |-> 0, before |-> {}]

ApplyInit ==
  /\ cache = "none" /\ apply = Idle /\ defined = {} /\ applies = 0
  /\ \E order \in UNION {SetToSeqs(others) : others \in SUBSET Others} :
       registered = {[id |-> i, ns |-> order[i].ns, name |-> <<order[i].name, 0>>,
                 ours |-> FALSE, paused |-> FALSE] : i \in DOMAIN order}

-------------------------------------------------------------------------------
Invoke ==
  /\ apply.pc = "idle" /\ applies < MaxApplies /\ applies' = applies + 1
  /\ \E remote, delete, all, single \in BOOLEAN, with \in {{}} \union {{w} : w \in Words} :
       apply' = [Idle EXCEPT !.pc = IF remote THEN "resolve" ELSE "load", !.remote = remote,
                             !.delete = delete, !.all = all, !.single = single, !.with = with,
                             !.before = registered]
  /\ UNCHANGED <<cache, registered, defined>>

Ends(error) == apply' = [apply EXCEPT !.pc = "ended", !.error = error, !.queue = <<>>]

\* ResolveRemote: a cached file that is not empty is used as it is.
Cached ==
  /\ apply.pc = "resolve" /\ cache \notin {"none", "empty"}
  /\ apply' = [apply EXCEPT !.pc = "load"]
  /\ UNCHANGED <<cache, registered, defined, applies>>

\* downloadAndExtractConfig: a failed copy leaves what was written.
Download ==
  /\ apply.pc = "resolve" /\ cache \in {"none", "empty"}
  /\ \/ cache' = "whole" /\ apply' = [apply EXCEPT !.pc = "load"]
     \/ /\ cache' \in {"empty", "cut", cache}
        /\ Ends(TRUE)
     \/ /\ UNCHANGED cache
        /\ IF apply.attempt + 1 < Attempts
           THEN apply' = [apply EXCEPT !.attempt = @ + 1]
           ELSE Ends(TRUE)
  /\ UNCHANGED <<registered, defined, applies>>

\* The process is killed while it copies.
Killed ==
  /\ apply.pc = "resolve" /\ cache \in {"none", "empty"} /\ cache' \in {"empty", "cut"}
  /\ apply' = Idle /\ UNCHANGED <<registered, defined, applies>>

Matches(app, word) == app.name = word[2] /\ word[1] \in {0, app.ns}
Named(app, with) == \E w \in with : Matches(app, w)

\* selectApps, ignoring --with.
Chosen_all(all, with) ==
  [i \in DOMAIN Normalized |-> [app |-> Normalized[i],
                                paused |-> Normalized[i].optional /\ ~all]]

\* selectApps: an optional app that nobody asked for is registered paused.
Chosen(all, with) ==
  [i \in DOMAIN Normalized |->
     [app |-> Normalized[i],
      paused |-> Normalized[i].optional /\ ~all /\ ~Named(Normalized[i], with)]]

\* selectSingleApp: a number, or a word that one app answers to.
SingleChoices ==
  {Normalized[i] : i \in DOMAIN Normalized} \union
  {app \in ToSet(Normalized) : \E w \in Words :
     {i \in DOMAIN Normalized : Matches(Normalized[i], w)} =
     {CHOOSE i \in DOMAIN Normalized : Normalized[i] = app}}

Goes(pc, queue) == apply' = [apply EXCEPT !.pc = pc, !.queue = queue]

\* config.Load, then validateDeleteFlags, validateSelectionFlags and the choice.
Load ==
  /\ apply.pc = "load"
  /\ LET unknown == \E w \in apply.with : \A i \in DOMAIN Normalized : ~Matches(Normalized[i], w)
         flags == apply.all \/ apply.with # {}
     IN  \/ (apply.remote => cache = "cut") /\ Ends(TRUE)   \* it does not parse
         \/ /\ apply.remote => cache = "whole"
            /\ \/ (apply.delete \/ apply.single) /\ flags /\ Ends(TRUE)
               \/ apply.delete /\ apply.single /\ Ends(TRUE)
               \/ apply.delete /\ ~apply.single /\ ~flags /\ Goes("forget", <<>>)
               \/ /\ ~apply.delete /\ apply.single /\ ~flags
                  /\ \/ Ends(TRUE)                          \* no or an ambiguous answer
                     \/ \E app \in SingleChoices : Goes("start", <<[app |-> app, paused |-> FALSE]>>)
               \/ /\ ~apply.delete /\ ~apply.single
                  /\ IF unknown THEN Ends(TRUE) ELSE Goes("start", Chosen(apply.all, apply.with))
  /\ UNCHANGED <<cache, registered, defined, applies>>

-------------------------------------------------------------------------------
(* The daemon's answers.                                                      *)

\* StartApp for one instance: the task of that key, else one of that name from
\* the same file, is replaced and keeps its ID; a key another file's task has,
\* with a script of its own, is refused.
Existing(app, name) ==
  LET own == {t \in registered : t.ns = app.ns /\ t.name = name}
  IN  IF own # {} THEN own ELSE {t \in registered : t.ours /\ t.name = name}
RefusedStart(app, names) == \E name \in names : \E t \in Existing(app, name) : ~t.ours
FirstOf(app) == {{name \in Instances(app) : name[2] <= k} : k \in -1..app.n}

\* A new instance gets a number above all that are registered, for nextID, which
\* only grows; what replaces a registered one keeps its number.
Taken == {0} \union {t.id : t \in registered}
LastTaken == CHOOSE i \in Taken : \A j \in Taken : j <= i
Number(app, name) ==
  IF Existing(app, name) # {} THEN (CHOOSE t \in Existing(app, name) : TRUE).id
  ELSE LastTaken + 1 + name[2]

AfterStart(item, names) ==
  (registered \ UNION {Existing(item.app, name) : name \in names}) \union
  {[id |-> Number(item.app, name), ns |-> item.app.ns, name |-> name, ours |-> TRUE,
    paused |-> item.paused] : name \in names}

\* RunTasks sends each request twice: for its effect, and for its answer.
SendStart ==
  /\ apply.pc = "start" /\ apply.queue # <<>>
  /\ LET item == Head(apply.queue)
     IN  \/ UNCHANGED registered /\ Ends(TRUE)                  \* no daemon
         \/ \E names \in FirstOf(item.app) :           \* a launch fails or is refused,
              /\ ~RefusedStart(item.app, names)              \* or its answer is lost
              /\ registered' = AfterStart(item, names) /\ Ends(TRUE)
         \/ /\ ~RefusedStart(item.app, Instances(item.app))
            /\ registered' = AfterStart(item, Instances(item.app))
            /\ apply' = [apply EXCEPT !.again = ~@,
                           !.queue = IF apply.again THEN Tail(@) ELSE @]
  /\ UNCHANGED <<cache, defined, applies>>

\* registerWorkflows, after the last app; --single leaves them out.
RegisterWorkflows ==
  /\ apply.pc = "start" /\ apply.queue = <<>>
  /\ \/ (apply.single \/ FileWorkflows = <<>>) /\ Ends(FALSE) /\ UNCHANGED defined
     \/ /\ ~apply.single /\ FileWorkflows # <<>>
        /\ \/ Ends(TRUE) /\ defined' \in {defined, defined \union ToSet(FileWorkflows)}
           \/ defined' = defined \union ToSet(FileWorkflows) /\ Ends(FALSE)
  /\ UNCHANGED <<cache, registered, applies>>

\* deleteEcosystemWorkflows skips whatever fails.
ForgetWorkflows ==
  /\ apply.pc = "forget"
  /\ defined' \in {defined \ w : w \in SUBSET ToSet(FileWorkflows)}
  /\ apply' = [apply EXCEPT !.pc = "sweep",
                 !.queue = [i \in DOMAIN Normalized |-> [app |-> Normalized[i], paused |-> FALSE]]]
  /\ UNCHANGED <<cache, registered, applies>>

\* FindByTarget for "namespace:name": the key, else the ID at its front.
Addressed(app) ==
  LET exact == {t \in registered : t.ns = app.ns /\ t.name = <<app.name, 0>>}
  IN  IF exact # {} THEN exact ELSE {t \in registered : t.id = Leading[app.ns]}

\* deleteEcosystemApps.
Sweep ==
  /\ apply.pc = "sweep"
  /\ IF apply.queue = <<>> THEN Ends(apply.deleted = 0) /\ UNCHANGED registered
     ELSE LET found == Addressed(Head(apply.queue).app)
          IN  \/ registered' \in {registered, registered \ found} /\ Ends(TRUE)   \* the connection fails
              \/ /\ registered' = registered \ found
                 /\ apply' = [apply EXCEPT !.queue = Tail(@),
                                           !.deleted = @ + IF found = {} THEN 0 ELSE 1]
  /\ UNCHANGED <<cache, defined, applies>>

\* The user reads the result; between invocations tasks are paused and resumed.
Done ==
  /\ apply.pc = "ended" /\ apply' = Idle
  /\ \/ UNCHANGED registered
     \/ \E t \in registered : registered' = (registered \ {t}) \union {[t EXCEPT !.paused = ~@]}
  /\ UNCHANGED <<cache, defined, applies>>

ApplyNext ==
  \/ Invoke \/ Cached \/ Download \/ Killed \/ Load \/ SendStart \/ RegisterWorkflows
  \/ ForgetWorkflows \/ Sweep \/ Done

-------------------------------------------------------------------------------
Ours(app) == {t \in registered : t.ours /\ t.ns = app.ns /\ t.name \in Instances(app)}
Unique(app) == \A i \in DOMAIN Normalized :
  Normalized[i].name = app.name => Normalized[i] = app

\* What a sweep may delete for an app.
Reached(app, t) ==
  (t.ns = app.ns /\ t.name = <<app.name, 0>>) \/ t.id = Leading[app.ns]

(* An apply that succeeds has registered every instance of every app whose   *)
(* name no other app of the file has - apps of one name take each other's    *)
(* tasks -, the optional ones nobody asked for paused and the others not,    *)
(* whatever earlier applies left half-done.  A sweep that succeeds has left  *)
(* none of the file's apps of one instance; of an app of several it deletes  *)
(* nothing, against README.md:93-94, `every task the file declares'.         *)
(* Whatever fails, an apply without --delete leaves the tasks of other files *)
(* as they were.  A sweep deletes no more than the key of each app and, once *)
(* that key is gone, the task whose ID its namespace begins with: either may *)
(* be a task of another file, which README.md:94-95 says is never touched.   *)
(* (RunTasks, StartApp, deleteEcosystemApps, FindByTarget)                   *)
ApplyHolds ==
  LET full == ~apply.delete /\ ~apply.single
      ended == apply.pc = "ended"
  IN  /\ (full /\ (ended => ~apply.error) /\ apply.pc \in {"start", "ended"}
            /\ apply.queue = <<>>) =>
           \A i \in DOMAIN Normalized :
             LET app == Normalized[i]
             IN  Unique(app) =>
                   /\ {t.name : t \in Ours(app)} = Instances(app)
                   /\ \A t \in Ours(app) :
                        t.paused = (app.optional /\ ~apply.all /\ ~Named(app, apply.with))
      /\ (apply.delete /\ ended /\ ~apply.error) =>
           \A i \in DOMAIN Normalized : Normalized[i].n = 1 => Ours(Normalized[i]) = {}
      /\ apply.pc # "idle" =>
           \A t \in apply.before :
             \/ t \in registered
             \/ t.ours
             \/ apply.delete /\ \E i \in DOMAIN Normalized : Reached(Normalized[i], t)
      /\ \A t, u \in registered : t # u => t.id # u.id /\ <<t.ns, t.name>> # <<u.ns, u.name>>
===============================================================================
