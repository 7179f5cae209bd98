------------------------------- MODULE ClientMC -------------------------------
(* The programs beside the daemon, for model checking: the three screens,   *)
(* `pm2 apply', the wizard and the two samplers, each in its own part of    *)
(* the behaviours.                                                          *)
EXTENDS Monitor, Dashboard, LogBrowser, Apply, Wizard, SystemSampler, GPUAgent

VARIABLE part

vars == <<monitorVars, boardVars, browserVars, applyVars, wizardVars, samplerVars,
          agentVars, part>>

Init ==
  /\ part \in {"monitor", "board", "browser", "apply", "wizard", "sampler", "agent"}
  /\ MonitorInit /\ BoardInit /\ BrowserInit /\ ApplyInit /\ WizardInit
  /\ SamplerInit /\ AgentInit
  /\ part # "apply" => registered = {}
  /\ part # "wizard" => ecosystem = Missing

Screens ==
  \/ part = "monitor" /\ MonitorNext /\ UNCHANGED <<boardVars, browserVars>>
  \/ part = "board" /\ BoardNext /\ UNCHANGED <<monitorVars, browserVars>>
  \/ part = "browser" /\ BrowserNext /\ UNCHANGED <<monitorVars, boardVars>>

Tools ==
  \/ part = "apply" /\ ApplyNext /\ UNCHANGED <<wizardVars, samplerVars, agentVars>>
  \/ part = "wizard" /\ WizardNext /\ UNCHANGED <<applyVars, samplerVars, agentVars>>
  \/ part = "sampler" /\ SamplerNext /\ UNCHANGED <<applyVars, wizardVars, agentVars>>
  \/ part = "agent" /\ AgentNext /\ UNCHANGED <<applyVars, wizardVars, samplerVars>>

Next ==
  /\ UNCHANGED part
  /\ \/ Screens /\ UNCHANGED <<applyVars, wizardVars, samplerVars, agentVars>>
     \/ Tools /\ UNCHANGED <<monitorVars, boardVars, browserVars>>

Spec == Init /\ [][Next]_vars

-------------------------------------------------------------------------------
\* Task 1 sorts after task 2, which is in another namespace than it and 3.
mc_name == <<2, 1, 3>>
mc_space == <<0, 2, 1>>

\* Tasks 1 and 2 of the dashboard share a name.
mc_managed == <<1, 1, 2>>

\* One name in two namespaces, an app of two instances, two optional apps.
mc_ecosystem == <<[ns |-> 0, name |-> "a", n |-> 1, optional |-> TRUE],
                  [ns |-> 2, name |-> "a", n |-> 1, optional |-> FALSE],
                  [ns |-> 2, name |-> "b", n |-> 2, optional |-> TRUE],
                  [ns |-> 2, name |-> "c", n |-> 1, optional |-> FALSE]>>
mc_workflows == <<"w">>
mc_words == {<<0, "a">>, <<2, "b">>, <<1, "b">>}
mc_others == {[ns |-> 3, name |-> "a"], [ns |-> 2, name |-> "c"]}
\* The second namespace begins with a number, which a task may have.
mc_leading == <<0, 1, 0>>

\* One file whose app has a name the user will choose too and whose workflow
\* calls one it does not declare, and one that nobody can load.
mc_flow(name, callee) ==
  [category |-> "", name |-> name, pinned |-> FALSE,
   stages |-> <<[name |-> 0, kind |-> "workflow",
                 ref |-> [category |-> "bare", name |-> callee]]>>]
mc_declared == {[apps |-> <<[ns |-> 2, name |-> "a", pinned |-> FALSE]>>,
                 flows |-> <<mc_flow("u", "v")>>],
                [apps |-> <<>>, flows |-> <<mc_flow("v", "v")>>]}
mc_newapps == {[ns |-> 1, name |-> "a"], [ns |-> 1, name |-> "b"]}

\* Chains, a fork, an orphan, and two cycles a table read mid-way may hold.
mc_tables == {<<0, 1, 2>>, <<0, 1, 1>>, <<0, 0, 1>>, <<2, 1, 2>>, <<3, 1, 2>>, <<1, 2, 2>>}
mc_loads == {{}, {1, 2}, {2, 3}}

-------------------------------------------------------------------------------
(* The screens stay usable whatever answers arrive late or out of order:    *)
(* cursors on rows that are there, lists that show what was asked for, one  *)
(* chain of refreshes, no kill of anything but the confirmed subject, no    *)
(* line of one log under another's name (the three Update methods).         *)
ScreensHold == MonitorHolds /\ BoardHolds /\ BrowserHolds

(* What an apply leaves in the registry is what it was asked for, or what   *)
(* was there, but for what a sweep deletes under a key or a number; and     *)
(* what a merge leaves in the ecosystem file loads (see ApplyHolds and      *)
(* WizardHolds for what they leave out; RunTasks, deleteEcosystemApps,      *)
(* WriteEcosystemFile).                                                     *)
CommandsHold == ApplyHolds /\ WizardHolds

(* The CPU figure is the machine's while no CPU counter is taken back, no   *)
(* device shows more than it moved, and a GPU reading mixes no two samples, *)
(* is whole but for one published as powermetrics ends, and is counted once *)
(* per task (see SamplesHold and ReadingsHold; cpuFromDelta, rate, publish, *)
(* BuildTasks).                                                             *)
FiguresHold == SamplesHold /\ ReadingsHold
===============================================================================
