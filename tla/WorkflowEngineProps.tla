------------------------- MODULE WorkflowEngineProps -------------------------
(* What the workflow engine promises about runs, stages and the journal.   *)
EXTENDS WorkflowEngine

Optional(S) == S \union {Nil}

TypeOK ==
  /\ DOMAIN defs \subseteq WorkflowKeys /\ armed \subseteq WorkflowKeys
  /\ \A k \in DOMAIN defs : defs[k] \in Definition /\ defs[k].key = k
  /\ inflight \in [WorkflowKeys -> Optional(Runs)]
  /\ nextRun \in 1..(MaxRun + 1)
  /\ \A r \in Runs :
       /\ run[r].pc \in RunLabels
       /\ run[r].cfg \in Optional(Definition) /\ run[r].callee \in Optional(Definition)
       /\ run[r].line \subseteq Runs /\ run[r].child \in Optional(Runs)
       /\ \A i \in DOMAIN run[r].stages : run[r].stages[i] \in Statuses
       /\ run[r].status \in Statuses /\ run[r].cancelled \in BOOLEAN
  /\ proc \in [Runs -> Procs]
  /\ skips \subseteq WorkflowKeys /\ up \in BOOLEAN

Claimed == {r \in Runs : run[r].pc \notin {"none", "lost", "record", "closed"}}
Tree(r) == {s \in Runs : r \in run[s].line}

(* Two runs of one workflow never overlap: from its claim to its release a *)
(* run is the one that Engine.inflight holds for its key, whoever started  *)
(* it - a client, a schedule or a stage of another workflow (claim).       *)
OneRunPerWorkflow == \A r \in Claimed : inflight[run[r].cfg.key] = r

(* The stages of a run are one after the other, through every level of     *)
(* nesting: a run that was triggered has at most one process running that  *)
(* this daemon forked, also while a stage is being stopped (execute).      *)
StagesAreSequential ==
  \A r, s \in Runs :
    /\ proc[r] \in LiveProc /\ proc[s] \in LiveProc
    /\ run[r].line \intersect run[s].line # {}
    => r = s

(* What is closed is over and told: the record is in the journal, it has a *)
(* status, every run nested in it is recorded too, and no process of it    *)
(* lives.  This is what `--wait', StopRun and a parent's stage rely on,    *)
(* since close(done) is the last thing execute does.                       *)
ClosedRunIsOver ==
  \A r \in Runs : run[r].pc = "closed" =>
    \A s \in Tree(r) :
      /\ proc[s] \notin LiveProc
      /\ run[s].pc = "closed"
      /\ \E rec \in journal : rec.run = s /\ rec.status = run[s].status
                              /\ rec.status # ""

(* A record explains itself: its stages succeeded up to the one that       *)
(* decided the run, and those behind it are skipped, or cancelled when the *)
(* run was cancelled between two stages (execute, markRemaining).          *)
RecordExplainsItself ==
  \A rec \in journal :
    LET n == Len(rec.stages)
        ran == CHOOSE i \in 0..n : /\ \A j \in 1..i : rec.stages[j] = "success"
                                   /\ i < n => rec.stages[i + 1] # "success"
    IN  IF ran = n THEN rec.status = "success"
        ELSE /\ rec.status = rec.stages[ran + 1]
             /\ rec.status \in {"failed", "cancelled"}
             /\ \/ \A j \in (ran + 2)..n : rec.stages[j] = "skipped"
                \/ \A j \in (ran + 1)..n : rec.stages[j] = "cancelled"

(* With one writer at a time, the dump and the schedules are those of the  *)
(* definitions whenever nobody is writing: what `apply' acknowledged is    *)
(* what a restart finds, and a deleted workflow fires no more; after a     *)
(* write that failed, the next register makes both right again (Register,  *)
(* Delete, persist, armAll, Load).                                         *)
DefinitionsArePersistent ==
  /\ up /\ ~unsaved /\ \A c \in Clients : ~Writing(c)
  => /\ wfdump.state = "complete" => wfdump.image = defs
     /\ armed = {k \in DOMAIN defs : Scheduled(defs, k)}

(* A fire of a schedule never vanishes: it starts a run or is journalled   *)
(* as skipped, whatever was deleted or started meanwhile (cronFire).       *)
FireLeavesATrace ==
  [][\A c \in Clients :
       client[c].op = "cron" /\ client'[c].op # "cron" /\ up' =>
         \/ nextRun' > nextRun /\ inflight'[client[c].key] = nextRun
         \/ client[c].key \in skips']_vars

(* A cancelled run ends, with all that is nested in it, and whoever asked  *)
(* for it gets the answer, however long its process would have run         *)
(* (StopRun, executor.Stop).                                               *)
StopRunReturns ==
  \A c \in Clients : client[c].op = "stop" ~> client[c].pc = "idle"

(* A run ends unless a process of its own goes on: runs never wait for     *)
(* each other, a nested call to a busy workflow fails instead (runNested). *)
RunsEnd ==
  \A r \in Runs :
    run[r].pc \notin {"none", "closed", "lost"} ~>
      \/ run[r].pc \in {"closed", "lost"}
      \/ \E s \in Tree(r) : proc[s] = "running"
=============================================================================
