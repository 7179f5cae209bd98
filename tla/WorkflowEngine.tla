---------------------------- MODULE WorkflowEngine ----------------------------
(* The workflow engine (daemon/wfengine): definitions and their dump, the  *)
(* schedules, the runs in flight and the process of each run's stage.      *)
(*                                                                         *)
(* A step is one critical section of Engine.mu or of the scheduler's lock, *)
(* one write of a file, one fork, or one branch of a select.  A client is  *)
(* a goroutine inside the engine: an RPC or webhook handler or a cron fire.*)
(* A run is numbered when it is claimed; a nested run is executed by the   *)
(* goroutine of its parent, which waits in "child" meanwhile.              *)
EXTENDS WorkflowGraph

CONSTANTS
  Clients,
  Batches,         \* the definition sets that one `apply' sends
  Saved,           \* the definition sets a daemon may find in the dump
  UserRefs,        \* the references clients type
  MaxRun,          \* bound: runs claimed until every claim is refused
  MaxConcurrentRuns, MaxNestingDepth,
  Writers,         \* bound: register and delete calls that overlap
  MaxEdits,        \* bound: register and delete calls
  DiskMayFail,     \* writing the dump may fail
  MayCrash,        \* the daemon may die at any time
  Nil

Runs == 1..MaxRun
Definition == UNION {{b[k] : k \in DOMAIN b} : b \in Batches \union Saved}

ASSUME BatchesAssumption ==
  \A b \in Batches \union Saved :
    /\ DOMAIN b \subseteq WorkflowKeys /\ b \in [DOMAIN b -> Config]
    /\ \A k \in DOMAIN b : b[k].key = k /\ b[k].stages # <<>>
ASSUME EngineBoundsAssumption ==
  /\ MaxRun \in Nat /\ MaxConcurrentRuns \in Nat /\ MaxNestingDepth \in Nat
  /\ Writers \in Nat /\ MaxEdits \in Nat
  /\ Nil \notin Runs

VARIABLES
  defs,       \* Engine.defs
  armed,      \* the keys that have an entry in Engine.scheduler
  inflight,   \* Engine.inflight: key -> run
  run,        \* activeRun, with where the goroutine executing it stands
  nextRun,
  proc,       \* the process of each run's stage
  journal,    \* workflow records of the run journal
  skips,      \* keys with a record of a dropped fire
  wfdump,     \* the workflow dump file
  client,
  up,
  unsaved,    \* persist failed, and no register has succeeded since
  edits       \* register and delete calls so far, for MaxEdits

engine == <<defs, armed, edits>>
dump == <<wfdump, unsaved>>
runs == <<inflight, run, nextRun>>
records == <<journal, skips>>
vars == <<engine, runs, proc, records, dump, client, up>>

Statuses == {"", "success", "failed", "cancelled", "skipped"}

\* "stopping": executor.Stop has signalled the stage and waits for it.
RunLabels == {"none", "head", "select", "stopping", "claim", "child",
              "release", "record", "closed", "lost"}
Unclaimed == [pc |-> "none", cfg |-> Nil, line |-> {}, next |-> 1, stages |-> <<>>,
              status |-> "", cancelled |-> FALSE, why |-> "", callee |-> Nil,
              child |-> Nil, trigger |-> ""]
\* A stopping process was sent SIGTERM and, if it lingers, SIGKILL.
Procs == {"none", "running", "stopping", "ok", "failed", "orphan"}
LiveProc == {"running", "stopping"}

NoFile == [state |-> "absent", image |-> NoDefs]
Idle == [pc |-> "idle", op |-> "", image |-> NoDefs, todo |-> {}, key |-> Nil,
         cfg |-> Nil, wait |-> FALSE, run |-> Nil]

Init ==
  /\ defs = NoDefs /\ armed = {} /\ edits = 0
  /\ inflight = [k \in WorkflowKeys |-> Nil]
  /\ run = [r \in Runs |-> Unclaimed] /\ nextRun = 1
  /\ proc = [r \in Runs |-> "none"]
  /\ journal = {} /\ skips = {}
  /\ wfdump \in {NoFile} \union {[state |-> "complete", image |-> s] : s \in Saved}
  /\ unsaved = FALSE
  /\ client = [c \in Clients |-> Idle]
  /\ up = FALSE

At(c, label) == up /\ client[c].pc = label
Become(c, state) == client' = [client EXCEPT ![c] = state]
Return(c) == Become(c, Idle)
RunAt(r, label) == up /\ run[r].pc = label
Move(r, label) == run' = [run EXCEPT ![r].pc = label]

-----------------------------------------------------------------------------
(* Definitions.                                                            *)

Writing(c) == client[c].op \in {"register", "delete"}
Edit(ds) ==
  /\ edits < MaxEdits /\ Cardinality({c \in Clients : Writing(c)}) < Writers
  /\ defs' = ds /\ edits' = edits + 1

\* A batch replaces what it declares anew.
Merged(batch) ==
  [k \in DOMAIN batch \union DOMAIN defs |-> IF k \in DOMAIN batch THEN batch[k] ELSE defs[k]]

\* Register: a batch that closes a cycle is refused and changes nothing.
Register(c) ==
  /\ At(c, "idle")
  /\ \E batch \in Batches :
       LET merged == Merged(batch)
       IN  /\ CheckAcyclic(merged) = <<>>
           /\ Edit(merged)
           /\ Become(c, [Idle EXCEPT !.op = "register", !.pc = "truncate",
                                     !.image = merged])
  /\ UNCHANGED <<armed, runs, proc, records, dump, up>>

Delete(c) ==
  /\ At(c, "idle")
  /\ \E ref \in UserRefs : \E k \in Resolve(defs, ref) :
       LET left == Restrict(defs, DOMAIN defs \ {k})
       IN  /\ Edit(left)
           /\ Become(c, [Idle EXCEPT !.op = "delete", !.pc = "disarm",
                                     !.image = left, !.key = k])
  /\ UNCHANGED <<armed, runs, proc, records, dump, up>>

Disarm_kept(c) ==   \* forgets the schedule
  /\ At(c, "disarm")
  /\ Become(c, [client[c] EXCEPT !.pc = "truncate"])
  /\ UNCHANGED <<engine, runs, proc, records, dump, up>>

Disarm(c) ==
  /\ At(c, "disarm")
  /\ armed' = armed \ {client[c].key}
  /\ Become(c, [client[c] EXCEPT !.pc = "truncate"])
  /\ UNCHANGED <<defs, edits, runs, proc, records, dump, up>>

\* persist: os.WriteFile opens with O_TRUNC, then writes; an error returns.
PersistFails(c) == DiskMayFail /\ unsaved' = TRUE /\ Return(c) /\ UNCHANGED wfdump

Truncate(c) ==
  /\ At(c, "truncate")
  /\ \/ /\ wfdump' = [state |-> "empty", image |-> NoDefs]
        /\ Become(c, [client[c] EXCEPT !.pc = "write"])
        /\ UNCHANGED unsaved
     \/ PersistFails(c)
  /\ UNCHANGED <<engine, runs, proc, records, up>>

\* The bytes of two overlapping writers may be mixed.
Write(c) ==
  LET me == client[c]
      mine == [state |-> "complete", image |-> me.image]
      mixed == [state |-> "mixed", image |-> NoDefs]
  IN  /\ At(c, "write")
      /\ \/ /\ \/ wfdump' = mine
               \/ wfdump.state # "empty" /\ wfdump # mine /\ wfdump' = mixed
            /\ \/ me.op = "delete" /\ Return(c) /\ UNCHANGED unsaved
               \/ /\ me.op = "register" /\ unsaved' = FALSE
                  /\ Become(c, [me EXCEPT !.pc = "arm", !.todo = DOMAIN me.image])
         \/ PersistFails(c)
      /\ UNCHANGED <<engine, runs, proc, records, up>>

\* What armAll leaves scheduled: a rejected expression drops the old entry.
Scheduled(ds, k) == ds[k].cron = "valid"

\* armAll, one call of the scheduler at a time.
Arm(c) ==
  /\ At(c, "arm")
  /\ \/ \E k \in client[c].todo :
          /\ armed' = IF Scheduled(client[c].image, k)
                      THEN armed \union {k} ELSE armed \ {k}
          /\ Become(c, [client[c] EXCEPT !.todo = @ \ {k}])
     \/ client[c].todo = {} /\ Return(c) /\ UNCHANGED armed
  /\ UNCHANGED <<defs, edits, runs, proc, records, dump, up>>

-----------------------------------------------------------------------------
(* Triggers.                                                               *)

NewRun(cfg, line, trigger) ==
  [Unclaimed EXCEPT !.pc = "head", !.cfg = cfg, !.line = line, !.trigger = trigger,
                    !.stages = [i \in DOMAIN cfg.stages |-> ""]]

\* claim refuses a workflow that has a run in flight, and any beyond the cap.
InFlight == {k \in WorkflowKeys : inflight[k] # Nil}
Claimable_again(cfg) ==   \* no look at the workflow's own run
  Cardinality(InFlight) < MaxConcurrentRuns /\ nextRun \in Runs

Claimable(cfg) ==
  /\ inflight[cfg.key] = Nil
  /\ Cardinality(InFlight) < MaxConcurrentRuns
  /\ nextRun \in Runs

\* Run, up to the claim: a client's reference, or the key of a fire.
RunWorkflow(c) ==
  /\ At(c, "idle") /\ nextRun \in Runs
  /\ \E ref \in UserRefs, wait \in BOOLEAN : \E k \in Resolve(defs, ref) :
       Become(c, [Idle EXCEPT !.op = "run", !.pc = "claim", !.cfg = defs[k],
                              !.wait = wait])
  /\ UNCHANGED <<engine, runs, proc, records, dump, up>>

Fire(c) ==
  /\ At(c, "idle") /\ nextRun \in Runs
  /\ \E k \in armed :
       Become(c, [Idle EXCEPT !.op = "cron", !.pc = "lookup", !.key = k])
  /\ UNCHANGED <<engine, runs, proc, records, dump, up>>

FireLookup_quiet(c) ==   \* an unknown workflow is just dropped
  /\ At(c, "lookup")
  /\ IF client[c].key \in DOMAIN defs
     THEN Become(c, [client[c] EXCEPT !.pc = "claim", !.cfg = defs[client[c].key]])
     ELSE Return(c)
  /\ UNCHANGED <<engine, runs, proc, records, dump, up>>

FireLookup(c) ==
  /\ At(c, "lookup")
  /\ IF client[c].key \in DOMAIN defs
     THEN Become(c, [client[c] EXCEPT !.pc = "claim", !.cfg = defs[client[c].key]])
     ELSE Become(c, [client[c] EXCEPT !.pc = "skip"])
  /\ UNCHANGED <<engine, runs, proc, records, dump, up>>

Claim(c) ==
  LET cfg == client[c].cfg
  IN  /\ At(c, "claim")
      /\ \/ /\ Claimable(cfg)
            /\ inflight' = [inflight EXCEPT ![cfg.key] = nextRun]
            /\ run' = [run EXCEPT ![nextRun] = NewRun(cfg, {nextRun}, client[c].op)]
            /\ nextRun' = nextRun + 1
            /\ IF client[c].wait
               THEN Become(c, [client[c] EXCEPT !.pc = "await", !.run = nextRun])
               ELSE Return(c)
         \/ /\ ~Claimable(cfg)
            /\ IF client[c].op = "cron"
               THEN Become(c, [client[c] EXCEPT !.pc = "skip"])
               ELSE Return(c)
            /\ UNCHANGED runs
      /\ UNCHANGED <<engine, proc, records, dump, up>>

\* recordSkip: the fire leaves a trace although it started nothing.
Skip(c) ==
  /\ At(c, "skip")
  /\ skips' = skips \union {client[c].key}
  /\ Return(c)
  /\ UNCHANGED <<engine, runs, proc, journal, dump, up>>

Await(c) ==
  /\ At(c, "await") /\ run[client[c].run].pc = "closed"
  /\ Return(c)
  /\ UNCHANGED <<engine, runs, proc, records, dump, up>>

\* StopRun cancels the run it finds in flight and waits for its end.
StopRun(c) ==
  /\ At(c, "idle")
  /\ \E k \in InFlight :
       /\ run' = [run EXCEPT ![inflight[k]].cancelled = TRUE]
       /\ Become(c, [Idle EXCEPT !.op = "stop", !.pc = "await", !.run = inflight[k]])
  /\ UNCHANGED <<engine, inflight, nextRun, proc, records, dump, up>>

\* A refused batch, an unknown reference, List and LiveRuns change nothing.
Query(c) == At(c, "idle") /\ UNCHANGED vars

-----------------------------------------------------------------------------
(* Execution.                                                              *)

Cancelled_alone(r) == run[r].cancelled   \* a context of its own

\* A context is cancelled with the context it was derived from.
Cancelled(r) == \E a \in run[r].line : run[a].cancelled
Chain(r) == {run[a].cfg.key : a \in run[r].line}
Here(r) == run[r].cfg.stages[run[r].next]

\* markRemaining.
Remaining(stages, from, status) ==
  [i \in DOMAIN stages |-> IF i >= from /\ stages[i] = "" THEN status ELSE stages[i]]

Ended(r, status, stages) ==
  run' = [run EXCEPT ![r].pc = "release", ![r].status = status, ![r].stages = stages,
                     ![r].child = Nil, ![r].callee = Nil, ![r].why = ""]

StageEnds_flat(r, status) ==   \* one status for all the stages behind
  LET i == run[r].next
      stages == [run[r].stages EXCEPT ![i] = status]
  IN  IF status = "success"
      THEN run' = [run EXCEPT ![r].pc = "head", ![r].next = i + 1,
                              ![r].stages = stages, ![r].child = Nil,
                              ![r].callee = Nil, ![r].why = ""]
      ELSE Ended(r, status, Remaining(stages, i + 1, "cancelled"))

\* The current stage has a result: on to the next, or the run is over.
StageEnds(r, status) ==
  LET i == run[r].next
      stages == [run[r].stages EXCEPT ![i] = status]
  IN  IF status = "success"
      THEN run' = [run EXCEPT ![r].pc = "head", ![r].next = i + 1,
                              ![r].stages = stages, ![r].child = Nil,
                              ![r].callee = Nil, ![r].why = ""]
      ELSE Ended(r, status, Remaining(stages, i + 1, "skipped"))

\* The head of execute's loop over the stages.
LoopEnds(r) ==
  /\ RunAt(r, "head")
  /\ \/ /\ run[r].next > Len(run[r].cfg.stages)
        /\ Ended(r, "success", run[r].stages)
     \/ /\ run[r].next <= Len(run[r].cfg.stages) /\ Cancelled(r)
        /\ Ended(r, "cancelled", Remaining(run[r].stages, run[r].next, "cancelled"))
  /\ UNCHANGED <<engine, inflight, nextRun, proc, records, dump, client, up>>

Enters(r, kinds) ==
  /\ RunAt(r, "head") /\ ~Cancelled(r)
  /\ run[r].next <= Len(run[r].cfg.stages) /\ Here(r).kind \in kinds

\* The task may be unknown, its log may not open, the fork may fail.
Spawn(r) ==
  /\ Enters(r, {"script", "task"})
  /\ \/ proc' = [proc EXCEPT ![r] = "running"] /\ Move(r, "select")
     \/ StageEnds(r, "failed") /\ UNCHANGED proc
  /\ UNCHANGED <<engine, inflight, nextRun, records, dump, client, up>>

ProcessExits(r) ==
  /\ up /\ proc[r] \in LiveProc
  /\ \E outcome \in {"ok", "failed"} : proc' = [proc EXCEPT ![r] = outcome]
  /\ UNCHANGED <<engine, runs, records, dump, client, up>>

\* The three branches of execStage's select; when several are ready, any.
StageExited(r) ==
  /\ RunAt(r, "select") /\ proc[r] \notin LiveProc
  /\ StageEnds(r, IF proc[r] = "ok" THEN "success" ELSE "failed")
  /\ proc' = [proc EXCEPT ![r] = "none"]
  /\ UNCHANGED <<engine, inflight, nextRun, records, dump, client, up>>

StopStage(r, why) ==
  /\ RunAt(r, "select")
  /\ run' = [run EXCEPT ![r].pc = "stopping", ![r].why = why]
  /\ proc' = [proc EXCEPT ![r] = IF @ = "running" THEN "stopping" ELSE @]
  /\ UNCHANGED <<engine, inflight, nextRun, records, dump, client, up>>

Timeout_status(r) ==   \* a status nobody knows
  run[r].pc = "select" /\ Here(r).timeout /\ StopStage(r, "timeout")

Timeout(r) == run[r].pc = "select" /\ Here(r).timeout /\ StopStage(r, "failed")
CancelStage(r) == run[r].pc = "select" /\ Cancelled(r) /\ StopStage(r, "cancelled")

StageStopped(r) ==
  /\ RunAt(r, "stopping") /\ proc[r] \notin LiveProc
  /\ StageEnds(r, run[r].why)
  /\ proc' = [proc EXCEPT ![r] = "none"]
  /\ UNCHANGED <<engine, inflight, nextRun, records, dump, client, up>>

\* runNested, before the claim: the reference is resolved at run time.
ResolveNested(r) ==
  LET found == Resolve(defs, Here(r).ref)
  IN  /\ Enters(r, {"workflow"})
      /\ \/ \E k \in found \ Chain(r) :
              /\ Cardinality(run[r].line) < MaxNestingDepth
              /\ run' = [run EXCEPT ![r].pc = "claim", ![r].callee = defs[k]]
         \/ /\ found \subseteq Chain(r) \/ Cardinality(run[r].line) >= MaxNestingDepth
            /\ StageEnds(r, "failed")
      /\ UNCHANGED <<engine, inflight, nextRun, proc, records, dump, client, up>>

ClaimNested_async(r) ==   \* starts the child and goes on
  LET cfg == run[r].callee
  IN  /\ RunAt(r, "claim")
      /\ \/ /\ Claimable(cfg)
            /\ inflight' = [inflight EXCEPT ![cfg.key] = nextRun]
            /\ run' = [run EXCEPT
                 ![nextRun] = NewRun(cfg, run[r].line \union {nextRun}, "nested"),
                 ![r].pc = "head", ![r].next = @ + 1]
            /\ nextRun' = nextRun + 1
         \/ ~Claimable(cfg) /\ StageEnds(r, "failed") /\ UNCHANGED <<inflight, nextRun>>
      /\ UNCHANGED <<engine, proc, records, dump, client, up>>
ClaimNested_waits(r) ==   \* waits until the workflow is free
  LET cfg == run[r].callee
  IN  /\ RunAt(r, "claim") /\ Claimable(cfg)
      /\ inflight' = [inflight EXCEPT ![cfg.key] = nextRun]
      /\ run' = [run EXCEPT
           ![nextRun] = NewRun(cfg, run[r].line \union {nextRun}, "nested"),
           ![r].pc = "child", ![r].child = nextRun]
      /\ nextRun' = nextRun + 1
      /\ UNCHANGED <<engine, proc, records, dump, client, up>>

ClaimNested(r) ==
  LET cfg == run[r].callee
  IN  /\ RunAt(r, "claim")
      /\ \/ /\ Claimable(cfg)
            /\ inflight' = [inflight EXCEPT ![cfg.key] = nextRun]
            /\ run' = [run EXCEPT
                 ![nextRun] = NewRun(cfg, run[r].line \union {nextRun}, "nested"),
                 ![r].pc = "child", ![r].child = nextRun]
            /\ nextRun' = nextRun + 1
         \/ ~Claimable(cfg) /\ StageEnds(r, "failed") /\ UNCHANGED <<inflight, nextRun>>
      /\ UNCHANGED <<engine, proc, records, dump, client, up>>

NestedEnded_early(r) ==   \* does not wait for close(done)
  /\ RunAt(r, "child") /\ run[run[r].child].pc \in {"release", "record", "closed"}
  /\ StageEnds(r, run[run[r].child].status)
  /\ UNCHANGED <<engine, inflight, nextRun, proc, records, dump, client, up>>

NestedEnded(r) ==
  /\ RunAt(r, "child") /\ run[run[r].child].pc = "closed"
  /\ StageEnds(r, run[run[r].child].status)
  /\ UNCHANGED <<engine, inflight, nextRun, proc, records, dump, client, up>>

\* execute's deferred function: cancel and release, then record and close.
Release(r) ==
  /\ RunAt(r, "release")
  /\ inflight' = [k \in WorkflowKeys |-> IF inflight[k] = r THEN Nil ELSE inflight[k]]
  /\ run' = [run EXCEPT ![r].pc = "record", ![r].cancelled = TRUE]
  /\ UNCHANGED <<engine, nextRun, proc, records, dump, client, up>>

\* A record the journal cannot take is only logged: RunJournal has that.
RecordRun(r) ==
  /\ RunAt(r, "record")
  /\ journal' = journal \union
       {[run |-> r, status |-> run[r].status, stages |-> run[r].stages]}
  /\ Move(r, "closed")
  /\ UNCHANGED <<engine, inflight, nextRun, proc, skips, dump, client, up>>

-----------------------------------------------------------------------------
(* The daemon dies and is started again.                                   *)

\* Memory is gone; a stage that was running goes on without a parent.
Crash ==
  /\ up /\ MayCrash
  /\ up' = FALSE /\ unsaved' = FALSE
  /\ defs' = NoDefs /\ armed' = {}
  /\ inflight' = [k \in WorkflowKeys |-> Nil]
  /\ run' = [r \in Runs |-> IF run[r].pc \in {"none", "closed"} THEN run[r]
                            ELSE [Unclaimed EXCEPT !.pc = "lost"]]
  /\ proc' = [r \in Runs |-> IF proc[r] \in LiveProc THEN "orphan" ELSE proc[r]]
  /\ client' = [c \in Clients |-> Idle]
  /\ UNCHANGED <<nextRun, records, wfdump, edits>>

\* Load, before the daemon serves; a file it cannot parse is only logged.
Load ==
  /\ ~up
  /\ up' = TRUE
  /\ defs' = wfdump.image
  /\ armed' = {k \in DOMAIN wfdump.image : Scheduled(wfdump.image, k)}
  /\ UNCHANGED <<runs, proc, records, dump, client, edits>>

ClientStep(c) ==
  \/ Register(c) \/ Delete(c) \/ RunWorkflow(c) \/ Fire(c) \/ StopRun(c) \/ Query(c)
  \/ Disarm(c) \/ Truncate(c) \/ Write(c) \/ Arm(c)
  \/ FireLookup(c) \/ Claim(c) \/ Skip(c) \/ Await(c)

\* What a goroutine executing a run does without waiting for a process.
RunStep(r) ==
  \/ LoopEnds(r) \/ Spawn(r) \/ StageExited(r) \/ StageStopped(r) \/ CancelStage(r)
  \/ ResolveNested(r) \/ ClaimNested(r) \/ NestedEnded(r)
  \/ Release(r) \/ RecordRun(r)

Next ==
  \/ \E c \in Clients : ClientStep(c)
  \/ \E r \in Runs : RunStep(r) \/ Timeout(r) \/ ProcessExits(r)
  \/ Crash \/ Load

\* The scheduler of the Go runtime runs every goroutine that can run; a
\* process that was sent SIGKILL ends, any other may run for ever.
Fairness ==
  /\ \A c \in Clients : WF_vars(Disarm(c) \/ Truncate(c) \/ Write(c) \/ Arm(c)
       \/ FireLookup(c) \/ Claim(c) \/ Skip(c) \/ Await(c))
  /\ \A r \in Runs : WF_vars(RunStep(r))
  /\ \A r \in Runs : WF_vars(proc[r] = "stopping" /\ ProcessExits(r))

Spec == Init /\ [][Next]_vars
FairSpec == Spec /\ Fairness
=============================================================================
