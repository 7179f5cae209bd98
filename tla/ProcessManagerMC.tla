-------------------------- MODULE ProcessManagerMC --------------------------
(* Instances of ProcessManager that TLC can exhaust.                       *)
EXTENDS ProcessManagerClaims, TLC

mc_app(name, kind) ==
  [ns |-> "default", name |-> name, script |-> "run.sh", cfg |-> "eco",
   kind |-> kind, watch |-> FALSE, max |-> 1]

mc_request(app) == [apps |-> <<app>>, paused |-> FALSE]
mc_paused(app) == [apps |-> <<app>>, paused |-> TRUE]

mc_plain == {mc_request(mc_app("a", "plain"))}
mc_cron == {mc_request(mc_app("a", "cron"))}
mc_reboot == {mc_request(mc_app("a", "cron_restart"))}
mc_watched == {mc_request([mc_app("a", "cron") EXCEPT !.watch = TRUE])}

\* One name in two namespaces, from a file and, no dump being read, from none.
mc_at(ns, cfg) == [mc_app("a", "plain") EXCEPT !.ns = ns, !.cfg = cfg]
mc_moving == {mc_request(mc_at("n1", "eco")), mc_paused(mc_at("n2", "eco")),
              mc_paused(mc_at("n2", NoConfig))}

\* Handlers are interchangeable: no step and no property tells them apart.
mc_threads == Permutations(Threads)

mc_a == {NameTarget("a")}
=============================================================================
