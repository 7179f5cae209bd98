------------------------ MODULE ProcessManagerClaims ------------------------
(* What the documentation and the comments say of the process manager and  *)
(* the code does not keep.  Each has a run in which TLC shows how.         *)
EXTENDS ProcessManagerProps

(* README.md: a paused task "has no child process [...] until resumed".    *)
(* restartTargets launches before it finds out that the entry is paused;   *)
(* the child is then left running, unregistered (launchProcessWith).       *)
PausedHasNoChild ==
  Quiet => \A m \in Launches :
    Present(key[m]) /\ registry[key[m]].paused => child[m] # "running"

(* README.md: after `pm2 task stop' there is "No restart".  An auto-restart *)
(* that looked at the stopping flag before the stop set it launches after  *)
(* the stop has returned (onProcessExit's goroutine, stopProcess).         *)
StopSuppressesAutoRestart ==
  [][\A k \in Keys :
       registry[k].stopping /\ registry'[k].run \notin {Nil, registry[k].run} =>
         \A t \in Threads :
           ~(thread[t].op = "auto" /\ thread[t].pc = "install"
             /\ thread'[t].pc # "install")]_vars
=============================================================================
