----------------------------- MODULE LifecycleMC -----------------------------
(* The daemon as its clients see it, for model checking: the socket, the   *)
(* HTTP port and the metrics refresh, each in its own third of the         *)
(* behaviours.                                                             *)
EXTENDS DaemonSocketProps, WebServer, Metrics, TLC

VARIABLE part

vars == <<sockVars, webVars, metricsVars, part>>

Init == SockInit /\ WebInit /\ MetricsInit /\ part \in {"socket", "web", "metrics"}

Next ==
  \/ part = "socket" /\ SockNext /\ UNCHANGED <<webVars, metricsVars, part>>
  \/ part = "web" /\ WebNext /\ UNCHANGED <<sockVars, metricsVars, part>>
  \/ part = "metrics" /\ MetricsNext /\ UNCHANGED <<sockVars, webVars, part>>

Spec == Init /\ [][Next]_vars

\* Commands are interchangeable.
mc_commands == Permutations(Commands)
=============================================================================
