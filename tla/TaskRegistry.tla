---------------------------- MODULE TaskRegistry ----------------------------
(***************************************************************************)
(* The keys of the in-memory process map, the entries it holds and the two *)
(* lookups every command starts with (daemon/process_registry.go).  The    *)
(* lookups are pure functions of the map `reg', so that the state machine  *)
(* and its proofs share them.                                              *)
(*                                                                         *)
(* What matters of a *ManagedProcess, besides its fields, is which one it  *)
(* is: the entries the daemon creates are numbered 1, 2, ... in `run', and *)
(* the key of an absent entry holds a record whose `run' is Nil.           *)
(***************************************************************************)
EXTENDS Integers, FiniteSets

CONSTANTS
  Namespaces,   \* AppConfig.Namespace, never empty once normalised
  Names,        \* AppConfig.Name, after the expansion of instances
  Configs,      \* AppConfig.ConfigFile: the files apps were read from
  NoConfig,     \* the empty ConfigFile: an app sent by a client that names none
  Scripts       \* AppConfig.Script

ASSUME NoConfigAssumption == NoConfig \notin Configs

Nil == 0

Keys == Namespaces \X Names
NoKey == <<>>
NoNumber == -1

\* The schedule an app carries.  An app with both fields behaves as "cron":
\* the registration of `cron' replaces the one of `cron_restart'.
Kinds == {"plain", "cron", "cron_restart"}

App == [ns : Namespaces, name : Names, script : Scripts,
        cfg : Configs \union {NoConfig},
        kind : Kinds, watch : BOOLEAN, max : Nat \ {0}]

cronKey(app) == <<app.ns, app.name>>

Registered(reg) == {k \in Keys : reg[k].run # Nil}

(***************************************************************************)
(* What the user typed as a target, as FindByTarget reads it: whether it   *)
(* is the word "all", the "namespace:name" key it spells, the integer      *)
(* fmt.Sscan reads at its front, and the word itself.                      *)
(***************************************************************************)
Target == [all : BOOLEAN, key : Keys \union {NoKey},
           number : Nat \union {NoNumber}, word : Names \union Namespaces]

KeyTarget(k) ==
  [all |-> FALSE, key |-> k, number |-> NoNumber, word |-> k[2]]
NameTarget(n) ==
  [all |-> FALSE, key |-> NoKey, number |-> NoNumber, word |-> n]
AllTarget ==
  [all |-> TRUE, key |-> NoKey, number |-> NoNumber,
   word |-> CHOOSE n \in Names : TRUE]

(***************************************************************************)
(* The tiers of FindByTarget, tried in this order.  The result is a set of *)
(* keys: Go iterates over a map in an arbitrary order.                     *)
(***************************************************************************)
Tiers(reg, target) ==
  << {k \in Registered(reg) : k = target.key},
     {k \in Registered(reg) : reg[k].id = target.number},
     {k \in Registered(reg) : k[2] = target.word},
     {k \in Registered(reg) : k[1] = target.word} >>

FindByTarget(reg, target) ==
  LET tier == Tiers(reg, target)
      hits == {i \in 1..4 : tier[i] # {}}
  IN  IF target.all THEN Registered(reg)
      ELSE UNION {tier[i] : i \in {j \in hits : \A h \in hits : j <= h}}

(***************************************************************************)
(* The keys whose entry a launch of `app' may replace: its own key, else   *)
(* any entry of the same name read from the same config file (the launch   *)
(* then moves it to another namespace).  Several may qualify; the code     *)
(* takes the first one its map iteration meets.                            *)
(***************************************************************************)
FindExisting(reg, app) ==
  IF cronKey(app) \in Registered(reg) THEN {cronKey(app)}
  ELSE {k \in Registered(reg) :
          app.cfg # NoConfig /\ k[2] = app.name /\ reg[k].app.cfg = app.cfg}
=============================================================================
