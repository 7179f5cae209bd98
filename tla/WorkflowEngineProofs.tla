------------------------- MODULE WorkflowEngineProofs -------------------------
(* Theorems about WorkflowEngine, for every set of definitions, clients and *)
(* bounds: the state is well formed, no workflow ever has two runs at once, *)
(* no fire of a schedule vanishes; then, on these, a triggered run executes *)
(* one stage at a time through every level of nesting, what is closed is    *)
(* over and told, a record explains itself, and what is acknowledged is on  *)
(* disk.                                                                    *)
EXTENDS WorkflowEngineProps, SequenceTheorems, FiniteSetTheorems, TLAPS

-------------------------------------------------------------------------------
(* The inductive invariant.                                                 *)

DefSets == {d \in UNION {[S -> Definition] : S \in SUBSET WorkflowKeys} :
              \A k \in DOMAIN d : d[k].key = k}

Ops == {"", "register", "delete", "run", "cron", "stop", "nested"}
RunRecord ==
  [pc : RunLabels, cfg : Optional(Definition), line : SUBSET Runs, next : Int,
   stages : Seq(Statuses), status : Statuses, cancelled : BOOLEAN, why : Statuses,
   callee : Optional(Definition), child : Optional(Runs), trigger : Ops]

ClientLabels == {"idle", "truncate", "write", "arm", "disarm", "claim", "lookup",
                 "skip", "await"}
ClientRecord ==
  [pc : ClientLabels, op : Ops, image : DefSets, todo : SUBSET WorkflowKeys,
   key : Optional(WorkflowKeys), cfg : Optional(Definition), wait : BOOLEAN,
   run : Optional(Runs)]

DumpFile == [state : {"absent", "empty", "complete", "mixed"}, image : DefSets]

(* A client has in hand what its place in the code needs; a fire waits for  *)
(* nothing but its claim, and claims the workflow it was armed for.         *)
ClientOK(s) ==
  /\ s \in ClientRecord
  /\ s.pc = "claim" => s.cfg \in Definition
  /\ s.pc \in {"lookup", "skip"} => s.key \in WorkflowKeys
  /\ s.pc \in {"lookup", "skip"} => s.op = "cron"
  /\ s.op = "cron" => /\ s.pc \in {"lookup", "claim", "skip"} /\ ~s.wait
                      /\ s.key \in WorkflowKeys
                      /\ s.pc = "claim" => s.cfg.key = s.key

(* So has the goroutine of a run.                                           *)
RunOK(s) ==
  /\ s \in RunRecord
  /\ s.pc \notin {"none", "lost"} => s.cfg \in Definition
  /\ s.pc = "claim" => s.callee \in Definition
  /\ s.pc = "child" => s.child \in Runs

Unslotted == {"none", "lost", "record", "closed"}
(* A claimed run has the slot of its workflow.                              *)
SlotOK(slots, r, s) == s.pc \notin Unslotted => slots[s.cfg.key] = r

DefsOK == defs \in DefSets /\ wfdump \in DumpFile /\ armed \subseteq WorkflowKeys
ClientsOK == client \in [Clients -> ClientRecord] /\ \A c \in Clients : ClientOK(client[c])
RunsOK ==
  /\ run \in [Runs -> RunRecord] /\ \A r \in Runs : RunOK(run[r])
  /\ inflight \in [WorkflowKeys -> Optional(Runs)] /\ nextRun \in 1..(MaxRun + 1)
  /\ \A r \in Runs : SlotOK(inflight, r, run[r])
RestOK == proc \in [Runs -> Procs] /\ skips \subseteq WorkflowKeys /\ up \in BOOLEAN

IInv == DefsOK /\ ClientsOK /\ RunsOK /\ RestOK

-------------------------------------------------------------------------------
(* Definitions.                                                             *)

(* A definition has the key it is declared under, and at least one stage.   *)
LEMMA DefinitionTypes ==
  ASSUME NEW cfg \in Definition
  PROVE  cfg.key \in WorkflowKeys /\ cfg.stages \in Seq(Stage)
<1>1. PICK b \in Batches \union Saved : \E k \in DOMAIN b : cfg = b[k]
  BY DEF Definition
<1>2. PICK k \in DOMAIN b : cfg = b[k]
  BY <1>1
<1>3. cfg \in Config
  BY <1>2, BatchesAssumption
<1> QED
  BY <1>3 DEF Config

(* What a set of definitions is.                                            *)
LEMMA DefSetIs ==
  ASSUME NEW d
  PROVE  d \in DefSets <=> /\ DOMAIN d \subseteq WorkflowKeys
                           /\ d = [k \in DOMAIN d |-> d[k]]
                           /\ \A k \in DOMAIN d : d[k] \in Definition /\ d[k].key = k
<1>1. ASSUME d \in DefSets
      PROVE  /\ DOMAIN d \subseteq WorkflowKeys
             /\ d = [k \in DOMAIN d |-> d[k]]
             /\ \A k \in DOMAIN d : d[k] \in Definition /\ d[k].key = k
  <2>1. PICK S \in SUBSET WorkflowKeys : d \in [S -> Definition]
    BY <1>1 DEF DefSets
  <2> QED
    BY <1>1, <2>1 DEF DefSets
<1>2. ASSUME DOMAIN d \subseteq WorkflowKeys, d = [k \in DOMAIN d |-> d[k]],
             \A k \in DOMAIN d : d[k] \in Definition /\ d[k].key = k
      PROVE  d \in DefSets
  <2>1. d \in [DOMAIN d -> Definition]
    BY <1>2
  <2>2. [DOMAIN d -> Definition] \in {[S -> Definition] : S \in SUBSET WorkflowKeys}
    BY <1>2
  <2> QED
    BY <1>2, <2>1, <2>2 DEF DefSets
<1> QED
  BY <1>1, <1>2

(* Batches and dumps are sets of definitions; merging one into another and  *)
(* taking one out give sets of definitions (Register, Delete).              *)
LEMMA GivenSets ==
  ASSUME NEW b \in Batches \union Saved PROVE b \in DefSets
<1>1. /\ DOMAIN b \subseteq WorkflowKeys /\ b \in [DOMAIN b -> Config]
      /\ \A k \in DOMAIN b : b[k].key = k
  BY BatchesAssumption
<1>2. \A k \in DOMAIN b : b[k] \in Definition
  BY DEF Definition
<1> QED
  BY <1>1, <1>2, DefSetIs

LEMMA NoDefsIsOne == NoDefs \in DefSets
  BY DefSetIs DEF NoDefs

LEMMA MergedSets ==
  ASSUME NEW b \in Batches, defs \in DefSets
  PROVE  Merged(b) \in DefSets
<1>1. b \in DefSets
  BY GivenSets
<1> QED
  BY <1>1, DefSetIs DEF Merged

LEMMA RestrictedSets ==
  ASSUME NEW d \in DefSets, NEW k
  PROVE  Restrict(d, DOMAIN d \ {k}) \in DefSets
  BY DefSetIs DEF Restrict

(* A reference means workflows that are defined.                            *)
LEMMA ResolvesInside ==
  ASSUME NEW d, NEW ref PROVE Resolve(d, ref) \subseteq DOMAIN d
  BY DEF Resolve

-------------------------------------------------------------------------------
(* One client, one run.                                                     *)

(* A goroutine that moves on well moves the clients on well.                *)
LEMMA ClientAmended ==
  ASSUME ClientsOK, NEW c \in Clients, NEW s, ClientOK(s), Become(c, s)
  PROVE  ClientsOK'
<1>1. client' \in [Clients -> ClientRecord]
  BY DEF ClientsOK, Become, ClientOK
<1>2. \A d \in Clients : client'[d] = IF d = c THEN s ELSE client[d]
  BY DEF ClientsOK, Become
<1> QED
  BY <1>1, <1>2 DEF ClientsOK

LEMMA IdleClient == ClientOK(Idle)
  BY NoDefsIsOne DEF ClientOK, Idle, ClientRecord, ClientLabels, Ops, Optional

LEMMA ClientReturns ==
  ASSUME ClientsOK, NEW c \in Clients, Return(c)
  PROVE  ClientsOK'
  BY ClientAmended, IdleClient DEF Return

(* The same for a run that keeps the slot it has, or needs none.            *)
LEMMA RunAmended ==
  ASSUME RunsOK, NEW r \in Runs, NEW s, RunOK(s), SlotOK(inflight, r, s),
         run' = [run EXCEPT ![r] = s], UNCHANGED <<inflight, nextRun>>
  PROVE  RunsOK'
<1>1. run' \in [Runs -> RunRecord]
  BY DEF RunsOK, RunOK
<1>2. \A q \in Runs : run'[q] = IF q = r THEN s ELSE run[q]
  BY DEF RunsOK
<1> QED
  BY <1>1, <1>2 DEF RunsOK, SlotOK

LEMMA NoRunOK == RunOK(Unclaimed)
  BY DEF RunOK, RunRecord, RunLabels, Optional, Statuses, Ops, Unclaimed

(* Stage lists stay lists of statuses.                                      *)
LEMMA StageSet ==
  ASSUME NEW st \in Seq(Statuses), NEW i, NEW status \in Statuses
  PROVE  [st EXCEPT ![i] = status] \in Seq(Statuses)
<1>1. CASE i \in 1..Len(st)
  BY <1>1, ExceptSeq
<1>2. CASE i \notin 1..Len(st)
  <2>1. [st EXCEPT ![i] = status] = st
    BY <1>2, LenProperties
  <2> QED
    BY <2>1
<1> QED
  BY <1>1, <1>2

LEMMA RemainingType ==
  ASSUME NEW st \in Seq(Statuses), NEW from, NEW status \in Statuses
  PROVE  Remaining(st, from, status) \in Seq(Statuses)
<1>1. st \in [1..Len(st) -> Statuses] /\ Len(st) \in Nat
  BY LenProperties
<1>2. Remaining(st, from, status) \in [1..Len(st) -> Statuses]
  BY <1>1 DEF Remaining
<1> QED
  BY <1>1, <1>2

LEMMA FreshStages ==
  ASSUME NEW cfg \in Definition
  PROVE  [i \in DOMAIN cfg.stages |-> ""] \in Seq(Statuses)
<1>1. PICK n \in Nat : DOMAIN cfg.stages = 1..n
  BY DefinitionTypes, LenProperties
<1>2. [i \in 1..n |-> ""] \in [1..n -> Statuses]
  BY DEF Statuses
<1>3. [1..n -> Statuses] \subseteq Seq(Statuses)
  BY SeqDef
<1> QED
  BY <1>1, <1>2, <1>3

(* A run that ends keeps its slot until release.                            *)
LEMMA EndedRun ==
  ASSUME RunsOK, NEW r \in Runs, run[r].pc \notin Unslotted,
         NEW status \in Statuses, NEW st \in Seq(Statuses),
         Ended(r, status, st), UNCHANGED <<inflight, nextRun>>
  PROVE  RunsOK'
<1> DEFINE s == [run[r] EXCEPT !.pc = "release", !.status = status, !.stages = st,
                               !.child = Nil, !.callee = Nil, !.why = ""]
<1>1. run[r] \in RunRecord /\ run[r].cfg \in Definition
  BY DEF RunsOK, RunOK, Unslotted
<1>2. s \in RunRecord /\ s.pc = "release" /\ s.cfg = run[r].cfg
  BY <1>1 DEF RunRecord, RunLabels, Optional, Statuses
<1>3. run' = [run EXCEPT ![r] = s]
  BY DEF Ended, RunsOK
<1>4. RunOK(s) /\ SlotOK(inflight, r, s)
  BY <1>1, <1>2 DEF RunOK, SlotOK, RunsOK
<1> HIDE DEF s
<1> QED
  BY <1>3, <1>4, RunAmended

(* A run whose stage has a result is at the next one, or ends.              *)
LEMMA StageEnded ==
  ASSUME RunsOK, NEW r \in Runs, run[r].pc \notin Unslotted,
         NEW status \in Statuses, StageEnds(r, status), UNCHANGED <<inflight, nextRun>>
  PROVE  RunsOK'
<1> DEFINE st == [run[r].stages EXCEPT ![run[r].next] = status]
           s == [run[r] EXCEPT !.pc = "head", !.next = run[r].next + 1, !.stages = st,
                               !.child = Nil, !.callee = Nil, !.why = ""]
<1>1. run[r] \in RunRecord /\ run[r].cfg \in Definition
  BY DEF RunsOK, RunOK, Unslotted
<1>2. run[r].stages \in Seq(Statuses)
  BY <1>1 DEF RunRecord
<1>3. st \in Seq(Statuses)
  BY <1>2, StageSet
<1> HIDE DEF st
<1>4. CASE status = "success"
  <2> DEFINE i == run[r].next + 1
  <2>0. i \in Int
    BY <1>1 DEF RunRecord
  <2> HIDE DEF i
  <2>1. s \in RunRecord /\ s.pc = "head" /\ s.cfg = run[r].cfg
    BY <1>1, <1>3, <2>0 DEF RunRecord, RunLabels, Optional, Statuses, i
  <2>2. run' = [run EXCEPT ![r] = s]
    BY <1>4 DEF StageEnds, RunsOK, st
  <2>3. RunOK(s) /\ SlotOK(inflight, r, s)
    BY <1>1, <2>1 DEF RunOK, SlotOK, RunsOK
  <2> HIDE DEF s
  <2> QED
    BY <2>2, <2>3, RunAmended
<1>5. CASE status # "success"
  <2>1. Ended(r, status, Remaining(st, run[r].next + 1, "skipped"))
    BY <1>5 DEF StageEnds, st
  <2>2. Remaining(st, run[r].next + 1, "skipped") \in Seq(Statuses)
    BY <1>3, RemainingType DEF Statuses
  <2> QED
    BY <2>1, <2>2, EndedRun
<1> QED
  BY <1>4, <1>5

(* A run whose stage starts keeps its slot; one that is recorded has none.  *)
LEMMA RunMoves ==
  ASSUME RunsOK, NEW r \in Runs, run[r].pc \notin {"none", "lost"}, NEW label,
         \/ run[r].pc \notin Unslotted /\ label = "select"
         \/ label = "closed",
         Move(r, label), UNCHANGED <<inflight, nextRun>>
  PROVE  RunsOK'
<1> DEFINE s == [run[r] EXCEPT !.pc = label]
<1>1. run[r] \in RunRecord /\ run[r].cfg \in Definition
  BY DEF RunsOK, RunOK
<1>2. s \in RunRecord /\ s.pc = label /\ s.cfg = run[r].cfg
  BY <1>1 DEF RunRecord, RunLabels
<1>3. RunOK(s) /\ SlotOK(inflight, r, s)
  BY <1>1, <1>2 DEF RunOK, SlotOK, RunsOK, Unslotted
<1>4. run' = [run EXCEPT ![r] = s]
  BY DEF Move, RunsOK
<1> HIDE DEF s
<1> QED
  BY <1>3, <1>4, RunAmended

-------------------------------------------------------------------------------
(* The initial state.                                                       *)

LEMMA InitOK == Init => IInv
<1> SUFFICES ASSUME Init PROVE IInv
  OBVIOUS
<1>1. DefsOK
  <2>1. wfdump \in DumpFile
    BY GivenSets, NoDefsIsOne DEF Init, NoFile, DumpFile
  <2> QED
    BY <2>1, NoDefsIsOne DEF Init, DefsOK
<1>2. ClientsOK
  BY IdleClient DEF Init, ClientsOK, ClientOK
<1>3. RunsOK
  <2>1. RunOK(Unclaimed) /\ \A r : SlotOK(inflight, r, Unclaimed)
    BY NoRunOK DEF SlotOK, Unclaimed, Unslotted
  <2>2. 1 \in 1..(MaxRun + 1)
    BY EngineBoundsAssumption
  <2> QED
    BY <2>1, <2>2 DEF Init, RunsOK, RunOK, Optional
<1>4. RestOK
  BY DEF Init, RestOK, Procs
<1> QED
  BY <1>1, <1>2, <1>3, <1>4 DEF IInv

-------------------------------------------------------------------------------
(* Steps of a client.                                                       *)

LEMMA RegisterOK ==
  ASSUME IInv, NEW c \in Clients, Register(c) PROVE IInv'
<1>1. PICK b \in Batches :
        /\ defs' = Merged(b)
        /\ Become(c, [Idle EXCEPT !.op = "register", !.pc = "truncate",
                                  !.image = Merged(b)])
  BY DEF Register, Edit
<1>2. Merged(b) \in DefSets
  BY MergedSets DEF IInv, DefsOK
<1>3. ClientsOK'
  <2> DEFINE s == [Idle EXCEPT !.op = "register", !.pc = "truncate", !.image = Merged(b)]
  <2>1. ClientOK(s)
    BY <1>2 DEF Idle, ClientOK, ClientRecord, ClientLabels, Ops, Optional
  <2> HIDE DEF s
  <2>2. Become(c, s)
    BY <1>1 DEF s
  <2> QED
    BY <2>1, <2>2, ClientAmended DEF IInv
<1>4. DefsOK'
  BY <1>1, <1>2 DEF IInv, DefsOK, Register, dump
<1>5. RunsOK' /\ RestOK'
  BY DEF IInv, RunsOK, RestOK, Register, runs, records
<1> QED
  BY <1>3, <1>4, <1>5 DEF IInv

LEMMA DeleteOK ==
  ASSUME IInv, NEW c \in Clients, Delete(c) PROVE IInv'
<1>1. PICK k \in DOMAIN defs :
        /\ defs' = Restrict(defs, DOMAIN defs \ {k})
        /\ Become(c, [Idle EXCEPT !.op = "delete", !.pc = "disarm",
                                  !.image = Restrict(defs, DOMAIN defs \ {k}), !.key = k])
  BY ResolvesInside DEF Delete, Edit
<1> DEFINE left == Restrict(defs, DOMAIN defs \ {k})
           s == [Idle EXCEPT !.op = "delete", !.pc = "disarm", !.image = left, !.key = k]
<1>2. left \in DefSets /\ k \in WorkflowKeys
  BY RestrictedSets, DefSetIs DEF IInv, DefsOK
<1> HIDE DEF left
<1>3. ClientsOK'
  <2>1. ClientOK(s)
    BY <1>2 DEF Idle, ClientOK, ClientRecord, ClientLabels, Ops, Optional
  <2>2. Become(c, s)
    BY <1>1 DEF left
  <2> HIDE DEF s
  <2> QED
    BY <2>1, <2>2, ClientAmended DEF IInv
<1>4. DefsOK'
  BY <1>1, <1>2 DEF IInv, DefsOK, Delete, dump, left
<1>5. RunsOK' /\ RestOK'
  BY DEF IInv, RunsOK, RestOK, Delete, runs, records
<1> QED
  BY <1>3, <1>4, <1>5 DEF IInv

(* A client that goes on with what it has in hand.                          *)
LEMMA ClientGoesOn ==
  ASSUME ClientsOK, NEW c \in Clients, client[c].op # "cron",
         NEW label \in {"truncate", "write", "arm"}, NEW todo \in SUBSET WorkflowKeys,
         Become(c, [client[c] EXCEPT !.pc = label, !.todo = todo])
  PROVE  ClientsOK'
<1> DEFINE s == [client[c] EXCEPT !.pc = label, !.todo = todo]
<1>1. client[c] \in ClientRecord
  BY DEF ClientsOK
<1>2. s \in ClientRecord /\ s.pc = label /\ s.op # "cron"
  BY <1>1 DEF ClientRecord, ClientLabels
<1>3. ClientOK(s)
  BY <1>2 DEF ClientOK
<1> HIDE DEF s
<1> QED
  BY <1>3, ClientAmended DEF s

(* The steps of register and delete after their critical section.           *)
LEMMA WriterIsNoFire ==
  ASSUME ClientsOK, NEW c \in Clients,
         client[c].pc \in {"idle", "disarm", "truncate", "write", "arm", "await"}
  PROVE  /\ client[c].op # "cron" /\ client[c] \in ClientRecord
         /\ client[c].image \in DefSets /\ client[c].todo \subseteq WorkflowKeys
         /\ DOMAIN client[c].image \subseteq WorkflowKeys
<1>1. client[c] \in ClientRecord /\ client[c].op # "cron"
  BY DEF ClientsOK, ClientOK
<1>2. client[c].image \in DefSets /\ client[c].todo \subseteq WorkflowKeys
  BY <1>1 DEF ClientRecord
<1> QED
  BY <1>1, <1>2, DefSetIs

LEMMA DisarmOK ==
  ASSUME IInv, NEW c \in Clients, Disarm(c) PROVE IInv'
<1>1. client[c].op # "cron" /\ client[c] \in ClientRecord
  BY WriterIsNoFire DEF IInv, Disarm, At
<1>2. ClientsOK'
  <2>1. client[c].todo \in SUBSET WorkflowKeys
    BY <1>1 DEF ClientRecord
  <2>2. Become(c, [client[c] EXCEPT !.pc = "truncate", !.todo = client[c].todo])
    BY <1>1 DEF Disarm, Become, ClientRecord
  <2> QED
    BY <1>1, <2>1, <2>2, ClientGoesOn DEF IInv
<1>3. DefsOK' /\ RunsOK' /\ RestOK'
  BY DEF IInv, DefsOK, RunsOK, RestOK, Disarm, runs, records, dump
<1> QED
  BY <1>2, <1>3 DEF IInv

LEMMA TruncateOK ==
  ASSUME IInv, NEW c \in Clients, Truncate(c) PROVE IInv'
<1>1. client[c].op # "cron" /\ client[c] \in ClientRecord
  BY WriterIsNoFire DEF IInv, Truncate, At
<1>2. ClientsOK'
  <2>1. CASE Return(c)
    BY <2>1, ClientReturns DEF IInv
  <2>2. CASE Become(c, [client[c] EXCEPT !.pc = "write"])
    <3>1. client[c].todo \in SUBSET WorkflowKeys
      BY <1>1 DEF ClientRecord
    <3>2. Become(c, [client[c] EXCEPT !.pc = "write", !.todo = client[c].todo])
      BY <1>1, <2>2 DEF Become, ClientRecord
    <3> QED
      BY <1>1, <3>1, <3>2, ClientGoesOn DEF IInv
  <2> QED
    BY <2>1, <2>2 DEF Truncate, PersistFails
<1>3. DefsOK'
  <2>1. wfdump' \in DumpFile
    BY NoDefsIsOne DEF IInv, DefsOK, DumpFile, Truncate, PersistFails
  <2> QED
    BY <2>1 DEF IInv, DefsOK, Truncate, engine
<1>4. RunsOK' /\ RestOK'
  BY DEF IInv, RunsOK, RestOK, Truncate, runs, records
<1> QED
  BY <1>2, <1>3, <1>4 DEF IInv

LEMMA WriteOK ==
  ASSUME IInv, NEW c \in Clients, Write(c) PROVE IInv'
<1>1. /\ client[c].op # "cron" /\ client[c].image \in DefSets
      /\ DOMAIN client[c].image \subseteq WorkflowKeys
  BY WriterIsNoFire DEF IInv, Write, At
<1>2. ClientsOK'
  <2>1. CASE Return(c)
    BY <2>1, ClientReturns DEF IInv
  <2>2. CASE Become(c, [client[c] EXCEPT !.pc = "arm", !.todo = DOMAIN client[c].image])
    BY <1>1, <2>2, ClientGoesOn DEF IInv
  <2> QED
    BY <2>1, <2>2 DEF Write, PersistFails
<1>3. DefsOK'
  <2>1. wfdump' \in DumpFile
    BY <1>1, NoDefsIsOne DEF IInv, DefsOK, DumpFile, Write, PersistFails
  <2> QED
    BY <2>1 DEF IInv, DefsOK, Write, engine
<1>4. RunsOK' /\ RestOK'
  BY DEF IInv, RunsOK, RestOK, Write, runs, records
<1> QED
  BY <1>2, <1>3, <1>4 DEF IInv

LEMMA ArmOK ==
  ASSUME IInv, NEW c \in Clients, Arm(c) PROVE IInv'
<1>1. /\ client[c].op # "cron" /\ client[c] \in ClientRecord
      /\ client[c].todo \subseteq WorkflowKeys
  BY WriterIsNoFire DEF IInv, Arm, At
<1>2. ClientsOK' /\ armed' \subseteq WorkflowKeys
  <2>1. CASE Return(c) /\ UNCHANGED armed
    BY <2>1, ClientReturns DEF IInv, DefsOK
  <2>2. ASSUME NEW k \in client[c].todo,
               armed' = IF Scheduled(client[c].image, k)
                        THEN armed \union {k} ELSE armed \ {k},
               Become(c, [client[c] EXCEPT !.todo = @ \ {k}])
        PROVE  ClientsOK' /\ armed' \subseteq WorkflowKeys
    <3>1. client[c].todo \ {k} \in SUBSET WorkflowKeys
      BY <1>1
    <3>2. Become(c, [client[c] EXCEPT !.pc = "arm", !.todo = client[c].todo \ {k}])
      BY <1>1, <2>2 DEF Become, ClientRecord, Arm, At
    <3>3. ClientsOK'
      BY <1>1, <3>1, <3>2, ClientGoesOn DEF IInv
    <3> QED
      BY <1>1, <2>2, <3>3 DEF IInv, DefsOK
  <2> QED
    BY <2>1, <2>2 DEF Arm
<1>3. DefsOK' /\ RunsOK' /\ RestOK'
  BY <1>2 DEF IInv, DefsOK, RunsOK, RestOK, Arm, runs, records, dump
<1> QED
  BY <1>2, <1>3 DEF IInv

(* The steps that change nothing but where a client stands.                 *)
LEMMA OnlyClient ==
  ASSUME IInv, ClientsOK', UNCHANGED <<engine, runs, proc, records, dump, up>>
  PROVE  IInv'
  BY DEF IInv, DefsOK, RunsOK, RestOK, engine, runs, records, dump

LEMMA RunWorkflowOK ==
  ASSUME IInv, NEW c \in Clients, RunWorkflow(c) PROVE IInv'
<1>1. PICK wait \in BOOLEAN, k \in DOMAIN defs :
        Become(c, [Idle EXCEPT !.op = "run", !.pc = "claim", !.cfg = defs[k],
                               !.wait = wait])
  BY ResolvesInside DEF RunWorkflow
<1> DEFINE s == [Idle EXCEPT !.op = "run", !.pc = "claim", !.cfg = defs[k], !.wait = wait]
<1>2. defs[k] \in Definition
  BY DefSetIs DEF IInv, DefsOK
<1>3. ClientOK(s)
  BY <1>2, NoDefsIsOne DEF Idle, ClientOK, ClientRecord, ClientLabels, Ops, Optional
<1>4. Become(c, s)
  BY <1>1
<1> HIDE DEF s
<1>5. ClientsOK'
  BY <1>3, <1>4, ClientAmended DEF IInv
<1> QED
  BY <1>5, OnlyClient DEF RunWorkflow

LEMMA FireOK ==
  ASSUME IInv, NEW c \in Clients, Fire(c) PROVE IInv'
<1>1. PICK k \in WorkflowKeys :
        Become(c, [Idle EXCEPT !.op = "cron", !.pc = "lookup", !.key = k])
  BY DEF Fire, IInv, DefsOK
<1> DEFINE s == [Idle EXCEPT !.op = "cron", !.pc = "lookup", !.key = k]
<1>2. ClientOK(s)
  BY NoDefsIsOne DEF Idle, ClientOK, ClientRecord, ClientLabels, Ops, Optional
<1>3. Become(c, s)
  BY <1>1
<1> HIDE DEF s
<1>4. ClientsOK'
  BY <1>2, <1>3, ClientAmended DEF IInv
<1> QED
  BY <1>4, OnlyClient DEF Fire

(* A fire that is dropped goes to recordSkip.                               *)
LEMMA SkipsFire ==
  ASSUME ClientsOK, NEW c \in Clients, client[c].op = "cron",
         Become(c, [client[c] EXCEPT !.pc = "skip"])
  PROVE  ClientsOK'
<1> DEFINE s == [client[c] EXCEPT !.pc = "skip"]
<1>1. client[c] \in ClientRecord /\ client[c].key \in WorkflowKeys /\ ~client[c].wait
  BY DEF ClientsOK, ClientOK
<1>2. s \in ClientRecord /\ s.pc = "skip" /\ s.key = client[c].key /\ ~s.wait
  BY <1>1 DEF ClientRecord, ClientLabels
<1>3. ClientOK(s)
  BY <1>1, <1>2 DEF ClientOK
<1> HIDE DEF s
<1> QED
  BY <1>3, ClientAmended DEF s

LEMMA LookupIsFire ==
  ASSUME ClientsOK, NEW c \in Clients, client[c].pc \in {"lookup", "skip"}
  PROVE  client[c].op = "cron" /\ client[c].key \in WorkflowKeys
  BY DEF ClientsOK, ClientOK

LEMMA FireLookupOK ==
  ASSUME IInv, NEW c \in Clients, FireLookup(c) PROVE IInv'
<1>1. ClientsOK'
  <2>1. CASE client[c].key \notin DOMAIN defs
    <3>1. Become(c, [client[c] EXCEPT !.pc = "skip"])
      BY <2>1 DEF FireLookup
    <3> QED
      BY <3>1, SkipsFire, LookupIsFire DEF IInv, FireLookup, At
  <2>2. CASE client[c].key \in DOMAIN defs
    <3> DEFINE cfg == defs[client[c].key]
               s == [client[c] EXCEPT !.pc = "claim", !.cfg = cfg]
    <3>1. cfg \in Definition /\ cfg.key = client[c].key
      BY <2>2, DefSetIs DEF IInv, DefsOK
    <3>2. Become(c, s)
      BY <2>2 DEF FireLookup
    <3> HIDE DEF cfg
    <3>3. /\ client[c] \in ClientRecord /\ ~client[c].wait
          /\ client[c].key \in WorkflowKeys
      BY LookupIsFire DEF IInv, ClientsOK, ClientOK, FireLookup, At
    <3>4. /\ s \in ClientRecord /\ s.pc = "claim" /\ s.cfg = cfg
          /\ s.key = client[c].key /\ ~s.wait
      BY <3>1, <3>3 DEF ClientRecord, ClientLabels, Optional
    <3>5. ClientOK(s)
      BY <3>1, <3>3, <3>4 DEF ClientOK
    <3> HIDE DEF s
    <3> QED
      BY <3>2, <3>5, ClientAmended DEF IInv
  <2> QED
    BY <2>1, <2>2
<1> QED
  BY <1>1, OnlyClient DEF FireLookup

(* The slot of a workflow that has no run goes to the run that is claimed;  *)
(* every other run in flight is one of another workflow.                    *)
LEMMA SlotTaken ==
  ASSUME RunsOK, NEW cfg \in Definition, Claimable(cfg),
         inflight' = [inflight EXCEPT ![cfg.key] = nextRun], nextRun' = nextRun + 1
  PROVE  /\ nextRun \in Runs /\ nextRun' \in 1..(MaxRun + 1)
         /\ inflight' \in [WorkflowKeys -> Optional(Runs)]
         /\ inflight'[cfg.key] = nextRun
         /\ \A q \in Runs : \A s : SlotOK(inflight, q, s) /\ RunOK(s) => SlotOK(inflight', q, s)
<1>1. nextRun \in Runs /\ cfg.key \in WorkflowKeys
  BY DefinitionTypes DEF Claimable
<1>2. nextRun' \in 1..(MaxRun + 1)
  BY <1>1, EngineBoundsAssumption DEF Runs
<1>3. inflight' \in [WorkflowKeys -> Optional(Runs)] /\ inflight'[cfg.key] = nextRun
  BY <1>1 DEF RunsOK, Optional
<1>4. ASSUME NEW q \in Runs, NEW s, SlotOK(inflight, q, s), RunOK(s)
      PROVE  SlotOK(inflight', q, s)
  <2>1. CASE s.pc \in Unslotted
    BY <2>1 DEF SlotOK
  <2>2. CASE s.pc \notin Unslotted
    <3>1. inflight[s.cfg.key] = q /\ q # Nil
      BY <1>4, <2>2, EngineBoundsAssumption DEF SlotOK
    <3>2. s.cfg.key # cfg.key
      BY <3>1 DEF Claimable
    <3>3. s.cfg.key \in WorkflowKeys
      BY <1>4, <2>2, DefinitionTypes DEF RunOK, Unslotted
    <3> QED
      BY <3>1, <3>2, <3>3 DEF RunsOK, SlotOK
  <2> QED
    BY <2>1, <2>2
<1> QED
  BY <1>1, <1>2, <1>3, <1>4

(* A new run is a run.                                                      *)
LEMMA NewRunOK ==
  ASSUME NEW cfg \in Definition, NEW line \in SUBSET Runs, NEW trigger \in Ops
  PROVE  /\ RunOK(NewRun(cfg, line, trigger))
         /\ NewRun(cfg, line, trigger).pc = "head"
         /\ NewRun(cfg, line, trigger).cfg = cfg
<1> DEFINE st == [i \in DOMAIN cfg.stages |-> ""]
<1>1. st \in Seq(Statuses)
  BY FreshStages
<1>2. NewRun(cfg, line, trigger) =
        [Unclaimed EXCEPT !.pc = "head", !.cfg = cfg, !.line = line,
                          !.trigger = trigger, !.stages = st]
  BY DEF NewRun
<1> HIDE DEF st
<1> DEFINE s == [Unclaimed EXCEPT !.pc = "head", !.cfg = cfg, !.line = line,
                                  !.trigger = trigger, !.stages = st]
<1>3. Unclaimed \in RunRecord
  BY NoRunOK DEF RunOK
<1>4. s \in RunRecord /\ s.pc = "head" /\ s.cfg = cfg
  BY <1>1, <1>3 DEF RunRecord, RunLabels, Optional
<1>5. RunOK(s)
  BY <1>4 DEF RunOK
<1> HIDE DEF s
<1> QED
  BY <1>2, <1>4, <1>5 DEF s

LEMMA ClaimOK ==
  ASSUME IInv, NEW c \in Clients, Claim(c) PROVE IInv'
<1> DEFINE cfg == client[c].cfg
<1>1. client[c] \in ClientRecord /\ cfg \in Definition /\ client[c].op \in Ops
  BY DEF IInv, ClientsOK, ClientOK, Claim, At, ClientRecord
<1>2. CASE ~Claimable(cfg)
  <2>1. ClientsOK'
    BY <1>2, SkipsFire, ClientReturns DEF Claim, IInv
  <2> QED
    BY <1>2, <2>1, OnlyClient DEF Claim
<1>3. CASE Claimable(cfg)
  <2>1. /\ inflight' = [inflight EXCEPT ![cfg.key] = nextRun]
        /\ run' = [run EXCEPT ![nextRun] = NewRun(cfg, {nextRun}, client[c].op)]
        /\ nextRun' = nextRun + 1
    BY <1>3 DEF Claim
  <2>2. /\ nextRun \in Runs /\ nextRun' \in 1..(MaxRun + 1)
        /\ inflight' \in [WorkflowKeys -> Optional(Runs)]
        /\ inflight'[cfg.key] = nextRun
        /\ \A q \in Runs : \A s : SlotOK(inflight, q, s) /\ RunOK(s) => SlotOK(inflight', q, s)
    BY <1>1, <1>3, <2>1, SlotTaken DEF IInv
  <2> DEFINE new == NewRun(cfg, {nextRun}, client[c].op)
  <2>3. RunOK(new) /\ new.pc = "head" /\ new.cfg = cfg
    BY <1>1, <2>2, NewRunOK
  <2>4. run' = [run EXCEPT ![nextRun] = new]
    BY <2>1
  <2> HIDE DEF new
  <2>5. RunsOK'
    <3>1. run' \in [Runs -> RunRecord]
      BY <2>3, <2>4 DEF IInv, RunsOK, RunOK
    <3>2. \A q \in Runs : run'[q] = IF q = nextRun THEN new ELSE run[q]
      BY <2>4 DEF IInv, RunsOK
    <3>3. \A q \in Runs : RunOK(run[q]) /\ SlotOK(inflight, q, run[q])
      BY DEF IInv, RunsOK
    <3>4. SlotOK(inflight', nextRun, new)
      BY <2>2, <2>3 DEF SlotOK
    <3>5. \A q \in Runs : RunOK(run'[q]) /\ SlotOK(inflight', q, run'[q])
      BY <2>2, <2>3, <3>2, <3>3, <3>4
    <3> QED
      BY <2>2, <3>1, <3>5 DEF RunsOK
  <2>6. ClientsOK'
    <3>1. CASE client[c].wait
      <4> DEFINE s == [client[c] EXCEPT !.pc = "await", !.run = nextRun]
      <4>1. client[c].op # "cron"
        BY <3>1 DEF IInv, ClientsOK, ClientOK
      <4>2. s \in ClientRecord /\ s.pc = "await" /\ s.op # "cron"
        BY <1>1, <2>2, <4>1 DEF ClientRecord, ClientLabels, Optional
      <4>3. ClientOK(s)
        BY <4>2 DEF ClientOK
      <4>4. Become(c, s)
        BY <1>3, <3>1 DEF Claim
      <4> HIDE DEF s
      <4> QED
        BY <4>3, <4>4, ClientAmended DEF IInv
    <3>2. CASE ~client[c].wait
      BY <1>3, <3>2, ClientReturns DEF Claim, IInv
    <3> QED
      BY <3>1, <3>2
  <2>7. DefsOK' /\ RestOK'
    BY DEF IInv, DefsOK, RestOK, Claim, engine, records, dump
  <2> QED
    BY <2>5, <2>6, <2>7 DEF IInv
<1> QED
  BY <1>2, <1>3

LEMMA SkipOK ==
  ASSUME IInv, NEW c \in Clients, Skip(c) PROVE IInv'
<1>1. ClientsOK' /\ client[c].key \in WorkflowKeys
  BY ClientReturns, LookupIsFire DEF Skip, IInv, At
<1> QED
  BY <1>1 DEF IInv, DefsOK, RunsOK, RestOK, Skip, engine, runs, dump

LEMMA AwaitOK ==
  ASSUME IInv, NEW c \in Clients, Await(c) PROVE IInv'
<1>1. ClientsOK'
  BY ClientReturns DEF Await, IInv
<1> QED
  BY <1>1, OnlyClient DEF Await

LEMMA StopRunOK ==
  ASSUME IInv, NEW c \in Clients, StopRun(c) PROVE IInv'
<1>1. PICK r \in Runs :
        /\ run' = [run EXCEPT ![r].cancelled = TRUE]
        /\ Become(c, [Idle EXCEPT !.op = "stop", !.pc = "await", !.run = r])
  BY DEF StopRun, InFlight, IInv, RunsOK, Optional
<1>2. ClientsOK'
  <2> DEFINE s == [Idle EXCEPT !.op = "stop", !.pc = "await", !.run = r]
  <2>1. ClientOK(s)
    BY NoDefsIsOne DEF Idle, ClientOK, ClientRecord, ClientLabels, Ops, Optional
  <2>2. Become(c, s)
    BY <1>1
  <2> HIDE DEF s
  <2> QED
    BY <2>1, <2>2, ClientAmended DEF IInv
<1>3. RunsOK'
  <2> DEFINE s == [run[r] EXCEPT !.cancelled = TRUE]
  <2>1. run[r] \in RunRecord /\ RunOK(run[r]) /\ SlotOK(inflight, r, run[r])
    BY DEF IInv, RunsOK
  <2>2. /\ s \in RunRecord /\ s.pc = run[r].pc /\ s.cfg = run[r].cfg
        /\ s.callee = run[r].callee /\ s.child = run[r].child
    BY <2>1 DEF RunRecord
  <2>3. RunOK(s) /\ SlotOK(inflight, r, s)
    BY <2>1, <2>2 DEF RunOK, SlotOK
  <2>4. run' = [run EXCEPT ![r] = s]
    BY <1>1 DEF IInv, RunsOK
  <2>5. UNCHANGED <<inflight, nextRun>>
    BY DEF StopRun
  <2> HIDE DEF s
  <2> QED
    BY <2>3, <2>4, <2>5, RunAmended DEF IInv
<1>4. DefsOK' /\ RestOK'
  BY DEF IInv, DefsOK, RestOK, StopRun, engine, records, dump
<1> QED
  BY <1>2, <1>3, <1>4 DEF IInv

-------------------------------------------------------------------------------
(* Steps of a run.                                                          *)

(* A step of a run's goroutine leaves all but the runs and processes alone. *)
LEMMA OnlyRuns ==
  ASSUME IInv, RunsOK', proc' \in [Runs -> Procs],
         UNCHANGED <<engine, records, dump, client, up>>
  PROVE  IInv'
  BY DEF IInv, DefsOK, ClientsOK, RestOK, engine, records, dump

LEMMA ProcAmended ==
  ASSUME IInv, NEW r \in Runs, NEW p \in Procs, proc' = [proc EXCEPT ![r] = p]
  PROVE  proc' \in [Runs -> Procs]
  BY DEF IInv, RestOK

LEMMA RunTypes ==
  ASSUME IInv, NEW r \in Runs
  PROVE  /\ run[r] \in RunRecord /\ run[r].stages \in Seq(Statuses)
         /\ run[r].status \in Statuses /\ run[r].why \in Statuses
         /\ run[r].line \in SUBSET Runs /\ run[r].next \in Int
         /\ run[r].pc \notin {"none", "lost"} => run[r].cfg \in Definition
         /\ proc \in [Runs -> Procs]
  BY DEF IInv, RunsOK, RunOK, RunRecord, RestOK

LEMMA LoopEndsOK ==
  ASSUME IInv, NEW r \in Runs, LoopEnds(r) PROVE IInv'
<1>1. PICK status \in Statuses, st \in Seq(Statuses) : Ended(r, status, st)
  BY RunTypes, RemainingType DEF LoopEnds, Statuses
<1>2. run[r].pc \notin Unslotted
  BY DEF LoopEnds, RunAt, Unslotted
<1>3. RunsOK'
  BY <1>1, <1>2, EndedRun DEF LoopEnds, IInv
<1> QED
  BY <1>3, RunTypes, OnlyRuns DEF LoopEnds

LEMMA SpawnOK ==
  ASSUME IInv, NEW r \in Runs, Spawn(r) PROVE IInv'
<1>1. run[r].pc \notin Unslotted
  BY DEF Spawn, Enters, RunAt, Unslotted
<1>2. RunsOK'
  BY <1>1, StageEnded, RunMoves DEF Spawn, IInv, Statuses, Unslotted
<1>3. proc' \in [Runs -> Procs]
  BY RunTypes DEF Spawn, Procs
<1> QED
  BY <1>2, <1>3, OnlyRuns DEF Spawn

LEMMA ProcessExitsOK ==
  ASSUME IInv, NEW r \in Runs, ProcessExits(r) PROVE IInv'
<1>1. proc' \in [Runs -> Procs]
  BY RunTypes DEF ProcessExits, Procs
<1>2. RunsOK'
  BY DEF IInv, RunsOK, ProcessExits, runs
<1> QED
  BY <1>1, <1>2, OnlyRuns DEF ProcessExits

LEMMA StageExitedOK ==
  ASSUME IInv, NEW r \in Runs, StageExited(r) PROVE IInv'
<1>1. run[r].pc \notin Unslotted
  BY DEF StageExited, RunAt, Unslotted
<1>2. RunsOK'
  BY <1>1, StageEnded DEF StageExited, IInv, Statuses
<1>3. proc' \in [Runs -> Procs]
  BY RunTypes DEF StageExited, Procs
<1> QED
  BY <1>2, <1>3, OnlyRuns DEF StageExited

LEMMA StopStageOK ==
  ASSUME IInv, NEW r \in Runs, NEW why \in Statuses, StopStage(r, why) PROVE IInv'
<1> DEFINE s == [run[r] EXCEPT !.pc = "stopping", !.why = why]
<1>1. /\ run[r] \in RunRecord /\ run[r].cfg \in Definition
      /\ SlotOK(inflight, r, run[r]) /\ run[r].pc = "select"
  BY DEF IInv, RunsOK, RunOK, StopStage, RunAt
<1>2. s \in RunRecord /\ s.pc = "stopping" /\ s.cfg = run[r].cfg
  BY <1>1 DEF RunRecord, RunLabels
<1>3. RunOK(s) /\ SlotOK(inflight, r, s)
  BY <1>1, <1>2 DEF RunOK, SlotOK, Unslotted
<1>4. run' = [run EXCEPT ![r] = s]
  BY DEF StopStage, IInv, RunsOK
<1> HIDE DEF s
<1>5. RunsOK'
  BY <1>3, <1>4, RunAmended DEF StopStage, IInv
<1>6. proc' \in [Runs -> Procs]
  BY RunTypes DEF StopStage, Procs
<1> QED
  BY <1>5, <1>6, OnlyRuns DEF StopStage

LEMMA StageStoppedOK ==
  ASSUME IInv, NEW r \in Runs, StageStopped(r) PROVE IInv'
<1>1. run[r].pc \notin Unslotted
  BY DEF StageStopped, RunAt, Unslotted
<1>2. RunsOK'
  BY <1>1, RunTypes, StageEnded DEF StageStopped, IInv
<1>3. proc' \in [Runs -> Procs]
  BY RunTypes DEF StageStopped, Procs
<1> QED
  BY <1>2, <1>3, OnlyRuns DEF StageStopped

LEMMA ResolveNestedOK ==
  ASSUME IInv, NEW r \in Runs, ResolveNested(r) PROVE IInv'
<1>1. run[r].pc \notin Unslotted /\ run[r].pc \notin {"none", "lost"}
  BY DEF ResolveNested, Enters, RunAt, Unslotted
<1>2. CASE StageEnds(r, "failed")
  <2>1. RunsOK'
    BY <1>1, <1>2, StageEnded DEF ResolveNested, IInv, Statuses
  <2> QED
    BY <2>1, RunTypes, OnlyRuns DEF ResolveNested
<1>3. ASSUME NEW k \in DOMAIN defs,
             run' = [run EXCEPT ![r].pc = "claim", ![r].callee = defs[k]]
      PROVE  IInv'
  <2> DEFINE s == [run[r] EXCEPT !.pc = "claim", !.callee = defs[k]]
  <2>1. defs[k] \in Definition
    BY DefSetIs DEF IInv, DefsOK
  <2>2. /\ run[r] \in RunRecord /\ run[r].cfg \in Definition
        /\ SlotOK(inflight, r, run[r])
    BY <1>1 DEF IInv, RunsOK, RunOK
  <2>3. s \in RunRecord /\ s.pc = "claim" /\ s.cfg = run[r].cfg /\ s.callee = defs[k]
    BY <2>1, <2>2 DEF RunRecord, RunLabels, Optional
  <2>4. RunOK(s) /\ SlotOK(inflight, r, s)
    BY <1>1, <2>1, <2>2, <2>3 DEF RunOK, SlotOK
  <2>5. run' = [run EXCEPT ![r] = s]
    BY <1>3 DEF IInv, RunsOK
  <2> HIDE DEF s
  <2>6. RunsOK'
    BY <2>4, <2>5, RunAmended DEF ResolveNested, IInv
  <2> QED
    BY <2>6, RunTypes, OnlyRuns DEF ResolveNested
<1> QED
  BY <1>2, <1>3, ResolvesInside DEF ResolveNested

(* A run that calls another claims a slot that is not its own.              *)
LEMMA ClaimNestedOK ==
  ASSUME IInv, NEW r \in Runs, ClaimNested(r) PROVE IInv'
<1> DEFINE cfg == run[r].callee
           new == NewRun(cfg, run[r].line \union {nextRun}, "nested")
<1>1. /\ run[r].pc = "claim" /\ cfg \in Definition /\ run[r] \in RunRecord
      /\ run[r].cfg \in Definition /\ SlotOK(inflight, r, run[r])
  BY DEF IInv, RunsOK, RunOK, ClaimNested, RunAt
<1>2. CASE ~Claimable(cfg)
  <2>1. RunsOK'
    BY <1>1, <1>2, StageEnded DEF ClaimNested, IInv, Statuses, Unslotted
  <2> QED
    BY <2>1, RunTypes, OnlyRuns DEF ClaimNested
<1>3. CASE Claimable(cfg)
  <2>1. /\ inflight' = [inflight EXCEPT ![cfg.key] = nextRun]
        /\ run' = [run EXCEPT ![nextRun] = new, ![r].pc = "child", ![r].child = nextRun]
        /\ nextRun' = nextRun + 1
    BY <1>3 DEF ClaimNested
  <2>2. /\ nextRun \in Runs /\ nextRun' \in 1..(MaxRun + 1)
        /\ inflight' \in [WorkflowKeys -> Optional(Runs)]
        /\ inflight'[cfg.key] = nextRun
        /\ \A q \in Runs : \A s : SlotOK(inflight, q, s) /\ RunOK(s) => SlotOK(inflight', q, s)
    BY <1>1, <1>3, <2>1, SlotTaken DEF IInv
  <2>3. RunOK(new) /\ new.pc = "head" /\ new.cfg = cfg
    <3>1. run[r].line \union {nextRun} \in SUBSET Runs /\ "nested" \in Ops
      BY <1>1, <2>2 DEF RunRecord, Ops
    <3> QED
      BY <1>1, <3>1, NewRunOK
  <2> HIDE DEF new
  <2> DEFINE one == [run EXCEPT ![nextRun] = new]
             s == [one[r] EXCEPT !.pc = "child", !.child = nextRun]
  <2>4. RunOK(one[r]) /\ one[r].cfg \in Definition /\ one[r].pc \notin Unslotted
        /\ SlotOK(inflight', r, one[r])
    <3>1. CASE r = nextRun
      BY <1>1, <2>2, <2>3, <3>1 DEF IInv, RunsOK, SlotOK, Unslotted
    <3>2. CASE r # nextRun
      <4>1. one[r] = run[r] /\ RunOK(run[r])
        BY <3>2 DEF IInv, RunsOK
      <4> QED
        BY <1>1, <2>2, <4>1 DEF Unslotted
    <3> QED
      BY <3>1, <3>2
  <2>5. /\ one \in [Runs -> RunRecord]
        /\ \A q \in Runs : RunOK(one[q]) /\ SlotOK(inflight', q, one[q])
    <3>1. SlotOK(inflight', nextRun, new)
      BY <2>2, <2>3 DEF SlotOK
    <3>2. \A q \in Runs : one[q] = IF q = nextRun THEN new ELSE run[q]
      BY DEF IInv, RunsOK
    <3>3. \A q \in Runs : RunOK(run[q]) /\ SlotOK(inflight, q, run[q])
      BY DEF IInv, RunsOK
    <3>4. one \in [Runs -> RunRecord]
      BY <2>3 DEF IInv, RunsOK, RunOK
    <3> HIDE DEF one
    <3> QED
      BY <2>2, <2>3, <3>1, <3>2, <3>3, <3>4
  <2>6. run' = [one EXCEPT ![r] = s]
    BY <2>1, <2>2 DEF IInv, RunsOK
  <2> HIDE DEF one
  <2>7. /\ s \in RunRecord /\ s.pc = "child" /\ s.child = nextRun
        /\ s.cfg = one[r].cfg
    <3>1. one[r] \in RunRecord /\ nextRun \in Optional(Runs) /\ "child" \in RunLabels
      BY <2>2, <2>5 DEF Optional, RunLabels
    <3> QED
      BY <3>1 DEF RunRecord
  <2>8. RunOK(s) /\ SlotOK(inflight', r, s)
    BY <2>2, <2>4, <2>7 DEF RunOK, SlotOK
  <2> HIDE DEF s
  <2>9. RunsOK'
    <3>1. run' \in [Runs -> RunRecord]
      BY <2>5, <2>6, <2>8 DEF RunOK
    <3>2. \A q \in Runs : run'[q] = IF q = r THEN s ELSE one[q]
      BY <2>5, <2>6
    <3> QED
      BY <2>2, <2>5, <2>8, <3>1, <3>2 DEF RunsOK
  <2> QED
    BY <2>9, RunTypes, OnlyRuns DEF ClaimNested
<1> QED
  BY <1>2, <1>3

LEMMA NestedEndedOK ==
  ASSUME IInv, NEW r \in Runs, NestedEnded(r) PROVE IInv'
<1>1. run[r].child \in Runs /\ run[r].pc \notin Unslotted
  BY DEF IInv, RunsOK, RunOK, NestedEnded, RunAt, Unslotted
<1>2. run[run[r].child].status \in Statuses
  BY <1>1, RunTypes
<1>3. RunsOK'
  BY <1>1, <1>2, StageEnded DEF NestedEnded, IInv
<1> QED
  BY <1>3, RunTypes, OnlyRuns DEF NestedEnded

LEMMA ReleaseOK ==
  ASSUME IInv, NEW r \in Runs, Release(r) PROVE IInv'
<1> DEFINE s == [run[r] EXCEPT !.pc = "record", !.cancelled = TRUE]
<1>1. run[r] \in RunRecord /\ run[r].cfg \in Definition
  BY DEF IInv, RunsOK, RunOK, Release, RunAt
<1>2. s \in RunRecord /\ s.pc = "record" /\ s.cfg = run[r].cfg
  BY <1>1 DEF RunRecord, RunLabels
<1>3. RunOK(s) /\ SlotOK(inflight', r, s)
  BY <1>1, <1>2 DEF RunOK, SlotOK, Unslotted
<1>4. run' = [run EXCEPT ![r] = s]
  BY DEF Release, IInv, RunsOK
<1> HIDE DEF s
<1>5. /\ inflight' = [k \in WorkflowKeys |-> IF inflight[k] = r THEN Nil ELSE inflight[k]]
      /\ nextRun' = nextRun
  BY DEF Release
<1>6. ASSUME NEW q \in Runs, q # r PROVE SlotOK(inflight', q, run[q])
  <2>1. RunOK(run[q]) /\ SlotOK(inflight, q, run[q])
    BY DEF IInv, RunsOK
  <2>2. CASE run[q].pc \in Unslotted
    BY <2>2 DEF SlotOK
  <2>3. CASE run[q].pc \notin Unslotted
    <3>1. run[q].cfg.key \in WorkflowKeys
      BY <2>1, <2>3, DefinitionTypes DEF RunOK, Unslotted
    <3> QED
      BY <1>5, <1>6, <2>1, <3>1 DEF SlotOK
  <2> QED
    BY <2>2, <2>3
<1>7. RunsOK'
  <2>1. run' \in [Runs -> RunRecord]
    BY <1>3, <1>4 DEF IInv, RunsOK, RunOK
  <2>2. \A q \in Runs : run'[q] = IF q = r THEN s ELSE run[q]
    BY <1>4 DEF IInv, RunsOK
  <2>3. inflight' \in [WorkflowKeys -> Optional(Runs)]
    BY <1>5 DEF IInv, RunsOK, Optional
  <2> QED
    BY <1>3, <1>5, <1>6, <2>1, <2>2, <2>3 DEF IInv, RunsOK
<1> QED
  BY <1>7, RunTypes, OnlyRuns DEF Release

LEMMA RecordRunOK ==
  ASSUME IInv, NEW r \in Runs, RecordRun(r) PROVE IInv'
<1>1. RunsOK'
  BY RunMoves DEF RecordRun, RunAt, IInv
<1> QED
  BY <1>1 DEF IInv, DefsOK, ClientsOK, RestOK, RecordRun, engine, dump

-------------------------------------------------------------------------------
(* Crash and restart.                                                       *)

LEMMA CrashOK ==
  ASSUME IInv, Crash PROVE IInv'
<1>1. DefsOK'
  BY NoDefsIsOne DEF IInv, DefsOK, Crash
<1>2. ClientsOK'
  BY IdleClient DEF ClientsOK, ClientOK, Crash
<1>3. RunsOK'
  <2> DEFINE lost == [Unclaimed EXCEPT !.pc = "lost"]
  <2>1. RunOK(lost) /\ lost.pc = "lost"
    BY NoRunOK DEF RunOK, RunRecord, RunLabels, Unclaimed
  <2> HIDE DEF lost
  <2>2. \A r \in Runs : run'[r] = IF run[r].pc \in {"none", "closed"} THEN run[r] ELSE lost
    BY DEF Crash, lost
  <2>3. \A r \in Runs : RunOK(run[r]) /\ run[r] \in RunRecord
    BY DEF IInv, RunsOK
  <2>4. run' = [r \in Runs |-> IF run[r].pc \in {"none", "closed"} THEN run[r] ELSE lost]
    BY DEF Crash, lost
  <2>5. run' \in [Runs -> RunRecord]
    BY <2>1, <2>3, <2>4 DEF RunOK
  <2>6. \A r \in Runs : RunOK(run'[r]) /\ run'[r].pc \in Unslotted
    BY <2>1, <2>2, <2>3 DEF Unslotted
  <2>7. inflight' \in [WorkflowKeys -> Optional(Runs)] /\ nextRun' \in 1..(MaxRun + 1)
    BY DEF Crash, Optional, IInv, RunsOK
  <2> QED
    BY <2>5, <2>6, <2>7 DEF RunsOK, SlotOK
<1>4. RestOK'
  BY DEF IInv, RestOK, Crash, Procs, records
<1> QED
  BY <1>1, <1>2, <1>3, <1>4 DEF IInv

LEMMA LoadOK ==
  ASSUME IInv, Load PROVE IInv'
<1>1. wfdump.image \in DefSets /\ wfdump \in DumpFile
  BY DEF IInv, DefsOK, DumpFile
<1>2. DefsOK'
  BY <1>1, DefSetIs DEF DefsOK, Load, dump
<1>3. ClientsOK' /\ RunsOK' /\ RestOK'
  BY DEF IInv, ClientsOK, RunsOK, RestOK, Load, runs, records
<1> QED
  BY <1>2, <1>3 DEF IInv

(* Every step keeps the invariant.                                          *)
LEMMA StepOK == IInv /\ [Next]_vars => IInv'
<1> SUFFICES ASSUME IInv, [Next]_vars PROVE IInv'
  OBVIOUS
<1>1. CASE UNCHANGED vars
  BY <1>1 DEF IInv, DefsOK, ClientsOK, RunsOK, RestOK, vars, engine, runs, records, dump
<1>2. ASSUME NEW c \in Clients, ClientStep(c) PROVE IInv'
  <2>1. CASE Query(c)
    BY <1>1, <2>1 DEF Query
  <2> QED
    BY <1>2, <2>1, RegisterOK, DeleteOK, RunWorkflowOK, FireOK, StopRunOK, DisarmOK,
       TruncateOK, WriteOK, ArmOK, FireLookupOK, ClaimOK, SkipOK, AwaitOK DEF ClientStep
<1>3. ASSUME NEW r \in Runs, RunStep(r) \/ Timeout(r) \/ ProcessExits(r) PROVE IInv'
  <2>1. CASE CancelStage(r) \/ Timeout(r)
    BY <2>1, StopStageOK DEF CancelStage, Timeout, Statuses
  <2> QED
    BY <1>3, <2>1, LoopEndsOK, SpawnOK, StageExitedOK, StageStoppedOK, ResolveNestedOK,
       ClaimNestedOK, NestedEndedOK, ReleaseOK, RecordRunOK, ProcessExitsOK DEF RunStep
<1> QED
  BY <1>1, <1>2, <1>3, CrashOK, LoadOK DEF Next

-------------------------------------------------------------------------------
(* The theorems.                                                            *)

(* The inductive invariant holds of every state the engine reaches.         *)
THEOREM Invariance == Spec => []IInv
<1> QED
  BY InitOK, StepOK, PTL DEF Spec

(* Every state of the engine is well formed.                                *)
THEOREM WorkflowTypes == Spec => []TypeOK
<1>1. IInv => TypeOK
  <2> SUFFICES ASSUME IInv PROVE TypeOK
    OBVIOUS
  <2>1. /\ DOMAIN defs \subseteq WorkflowKeys /\ armed \subseteq WorkflowKeys
        /\ \A k \in DOMAIN defs : defs[k] \in Definition /\ defs[k].key = k
    BY DefSetIs DEF IInv, DefsOK
  <2>2. \A r \in Runs :
          /\ run[r].pc \in RunLabels
          /\ run[r].cfg \in Optional(Definition) /\ run[r].callee \in Optional(Definition)
          /\ run[r].line \subseteq Runs /\ run[r].child \in Optional(Runs)
          /\ run[r].stages \in Seq(Statuses)
          /\ run[r].status \in Statuses /\ run[r].cancelled \in BOOLEAN
    BY DEF IInv, RunsOK, RunOK, RunRecord
  <2>3. \A r \in Runs : \A i \in DOMAIN run[r].stages : run[r].stages[i] \in Statuses
    BY <2>2, ElementOfSeq, LenProperties
  <2> QED
    BY <2>1, <2>2, <2>3 DEF TypeOK, IInv, RunsOK, RestOK
<1> QED
  BY <1>1, Invariance, PTL

(* No workflow has two runs at once, whoever triggers it (claim, execute's  *)
(* release): whatever the definitions, the clients and the cap.             *)
THEOREM SingleFlight == Spec => []OneRunPerWorkflow
<1>1. IInv => OneRunPerWorkflow
  BY DEF IInv, RunsOK, SlotOK, Unslotted, OneRunPerWorkflow, Claimed
<1> QED
  BY <1>1, Invariance, PTL

(* No fire of a schedule vanishes (cronFire, recordSkip).                   *)
LEMMA TraceStep ==
  ASSUME IInv, [Next]_vars, NEW c \in Clients,
         client[c].op = "cron", client'[c].op # "cron", up'
  PROVE  \/ nextRun' > nextRun /\ inflight'[client[c].key] = nextRun
         \/ client[c].key \in skips'
<1>1. /\ client \in [Clients -> ClientRecord] /\ client[c].pc \in {"lookup", "claim", "skip"}
      /\ ~client[c].wait /\ client[c].key \in WorkflowKeys
      /\ client[c].pc = "claim" => client[c].cfg.key = client[c].key
  BY DEF IInv, ClientsOK, ClientOK
<1>2. client' # client
  OBVIOUS
<1>3. \A r \in Runs : ~RunStep(r) /\ ~Timeout(r) /\ ~ProcessExits(r)
  BY <1>2 DEF RunStep, LoopEnds, Spawn, StageExited, StageStopped, CancelStage, Timeout,
     StopStage, ResolveNested, ClaimNested, NestedEnded, Release, RecordRun, ProcessExits
<1>4. ~Crash /\ ~Load /\ ~UNCHANGED vars
  BY <1>2 DEF Crash, Load, vars
<1>5. PICK d \in Clients : ClientStep(d)
  BY <1>3, <1>4 DEF Next
<1>6. d = c
  <2> SUFFICES ASSUME d # c PROVE FALSE
    OBVIOUS
  <2>1. \A s : Become(d, s) => client'[c] = client[c]
    BY <1>1 DEF Become
  <2>2. ~Return(d)
    BY <2>1 DEF Return
  <2> QED
    BY <1>2, <1>5, <2>1, <2>2 DEF ClientStep, Register, Delete, RunWorkflow, Fire, StopRun,
       Query, Disarm, Truncate, Write, Arm, FireLookup, Claim, Skip, Await, PersistFails,
       vars
<1>7. FireLookup(c) \/ Claim(c) \/ Skip(c)
  BY <1>1, <1>2, <1>5, <1>6 DEF ClientStep, Register, Delete, RunWorkflow, Fire, StopRun,
     Query, Disarm, Truncate, Write, Arm, Await, At
<1>8. \A s : Become(c, s) => client'[c] = s
  BY <1>1 DEF Become
<1>9. CASE FireLookup(c)
  <2>1. \/ Become(c, [client[c] EXCEPT !.pc = "claim", !.cfg = defs[client[c].key]])
        \/ Become(c, [client[c] EXCEPT !.pc = "skip"])
    BY <1>9 DEF FireLookup
  <2>2. client'[c].op = client[c].op
    BY <1>1, <1>8, <2>1 DEF ClientRecord
  <2> QED
    BY <2>2
<1>10. CASE Claim(c)
  <2>1. CASE Claimable(client[c].cfg)
    <3>1. client[c].pc = "claim" /\ client[c].cfg.key = client[c].key
      BY <1>1, <1>10 DEF Claim, At
    <3>2. /\ inflight' = [inflight EXCEPT ![client[c].key] = nextRun]
          /\ nextRun' = nextRun + 1 /\ nextRun \in Runs
      BY <1>10, <2>1, <3>1 DEF Claim, Claimable
    <3> QED
      BY <1>1, <3>2, EngineBoundsAssumption DEF IInv, RunsOK, Runs
  <2>2. CASE ~Claimable(client[c].cfg)
    <3>1. Become(c, [client[c] EXCEPT !.pc = "skip"])
      BY <1>10, <2>2 DEF Claim
    <3>2. client'[c].op = client[c].op
      BY <1>1, <1>8, <3>1 DEF ClientRecord
    <3> QED
      BY <3>2
  <2> QED
    BY <2>1, <2>2
<1>11. CASE Skip(c)
  BY <1>11 DEF Skip
<1> QED
  BY <1>7, <1>9, <1>10, <1>11

(* Every fire starts a run of its workflow or is journalled as skipped,     *)
(* whatever was deleted, registered or started since it was armed.          *)
THEOREM FiresLeaveATrace == Spec => FireLeavesATrace
<1> DEFINE Traced ==
      \A c \in Clients :
        client[c].op = "cron" /\ client'[c].op # "cron" /\ up' =>
          \/ nextRun' > nextRun /\ inflight'[client[c].key] = nextRun
          \/ client[c].key \in skips'
<1>1. IInv /\ [Next]_vars => [Traced]_vars
  BY TraceStep
<1> QED
  BY <1>1, Invariance, PTL DEF Spec, FireLeavesATrace

-------------------------------------------------------------------------------
(* The inductive invariant of the runs and of the definitions.              *)

Executing == {"head", "select", "stopping", "claim", "child"}
Over == {"release", "record", "closed"}
Verdicts == {"success", "failed", "cancelled"}

(* A run that is claimed and whose done channel is not closed yet.          *)
Open(s) == s.pc \in Executing \union {"release", "record"}

(* The stage list of a run that is over tells its status.                   *)
Explains(status, stages) ==
  \E i \in 0..Len(stages) :
    /\ \A j \in 1..i : stages[j] = "success"
    /\ IF i = Len(stages) THEN status = "success"
       ELSE /\ status = stages[i + 1] /\ status \in {"failed", "cancelled"}
            /\ \/ \A j \in (i + 2)..Len(stages) : stages[j] = "skipped"
               \/ \A j \in (i + 1)..Len(stages) : stages[j] = "cancelled"

(* What a run has behind it when it stands before stage i.                  *)
Behind(stages, i) ==
  /\ \A j \in 1..Len(stages) : j < i => stages[j] = "success"
  /\ \A j \in 1..Len(stages) : j >= i => stages[j] = ""

(* A run that executes has done the stages before its current one and none  *)
(* of the others; one that is over explains itself.                         *)
ProgressOK(s) ==
  /\ s.pc \in Executing =>
       /\ Len(s.stages) = Len(s.cfg.stages)
       /\ s.next \in 1..(Len(s.stages) + 1) /\ Behind(s.stages, s.next)
       /\ s.pc # "head" => s.next <= Len(s.stages)
  /\ s.pc = "stopping" => s.why \in {"failed", "cancelled"}
  /\ s.pc \in Over => Explains(s.status, s.stages)

(* Runs are numbered in the order of their claims, and one of which the     *)
(* daemon knows is in its own line.                                         *)
Numbered ==
  \A r \in Runs :
    /\ r >= nextRun => run[r].pc = "none"
    /\ \A a \in run[r].line : a < nextRun
    /\ IF run[r].pc \in {"none", "lost"} THEN run[r].line = {} ELSE r \in run[r].line

(* The ancestors of an open run wait, each for a run of the same line.      *)
AncestorsWait ==
  \A s \in Runs : Open(run[s]) =>
    \A a \in run[s].line \ {s} : run[a].pc = "child" /\ run[a].child \in run[s].line

(* Of two open runs that were triggered together one nests in the other.    *)
OneBranch ==
  \A r, s \in Runs :
    Open(run[r]) /\ Open(run[s]) /\ run[r].line \intersect run[s].line # {}
      => r \in run[s].line \/ s \in run[r].line

(* A process lives while its run is in execStage's select or in Stop.       *)
ProcsOK == \A r \in Runs : proc[r] \in LiveProc => run[r].pc \in {"select", "stopping"}

Journalled ==
  /\ \A rec \in journal : rec.stages \in Seq(Statuses) /\ Explains(rec.status, rec.stages)
  /\ \A r \in Runs : run[r].pc = "closed" =>
       \E rec \in journal : rec.run = r /\ rec.status = run[r].status

Progress == \A r \in Runs : ProgressOK(run[r])

TreeInv == Numbered /\ AncestorsWait /\ OneBranch /\ ProcsOK /\ Journalled /\ Progress
RunInv == IInv /\ TreeInv

-------------------------------------------------------------------------------
(* Stage lists (execute's loop, markRemaining).                             *)

LEMMA LengthIs ==
  ASSUME NEW n \in Nat, NEW st, DOMAIN st = 1..n, st \in Seq(Statuses)
  PROVE  Len(st) = n
  BY LenProperties

(* A stage that succeeded puts the run before the next one.                 *)
LEMMA OneMoreBehind ==
  ASSUME NEW st \in Seq(Statuses), NEW i \in 1..Len(st), Behind(st, i)
  PROVE  LET more == [st EXCEPT ![i] = "success"]
         IN  Len(more) = Len(st) /\ Behind(more, i + 1)
<1> DEFINE more == [st EXCEPT ![i] = "success"]
<1>1. Len(st) \in Nat /\ DOMAIN st = 1..Len(st)
  BY LenProperties
<1>2. more \in Seq(Statuses) /\ DOMAIN more = 1..Len(st)
  BY <1>1, StageSet DEF Statuses
<1>3. Len(more) = Len(st)
  BY <1>1, <1>2, LengthIs
<1>4. ASSUME NEW j \in 1..Len(st)
      PROVE  /\ j < i + 1 => more[j] = "success"
             /\ j >= i + 1 => more[j] = ""
  <2>1. /\ j < i + 1 => j = i \/ j < i
        /\ j >= i + 1 => j # i /\ j >= i
    BY <1>1
  <2>2. more[j] = IF j = i THEN "success" ELSE st[j]
    BY <1>1
  <2> QED
    BY <2>1, <2>2 DEF Behind
<1> QED
  BY <1>3, <1>4 DEF Behind

(* One that did not succeed decides the run; those behind it are skipped.   *)
LEMMA DecidedByStage ==
  ASSUME NEW st \in Seq(Statuses), NEW i \in 1..Len(st), Behind(st, i),
         NEW status \in {"failed", "cancelled"}
  PROVE  Explains(status, Remaining([st EXCEPT ![i] = status], i + 1, "skipped"))
<1> DEFINE mid == [st EXCEPT ![i] = status]
           all == Remaining(mid, i + 1, "skipped")
<1>1. Len(st) \in Nat /\ DOMAIN st = 1..Len(st)
  BY LenProperties
<1>2. mid \in Seq(Statuses) /\ DOMAIN mid = 1..Len(st)
  BY <1>1, StageSet DEF Statuses
<1>3. \A j \in 1..Len(st) : mid[j] = IF j = i THEN status ELSE st[j]
  BY <1>1
<1> HIDE DEF mid
<1>4. all \in Seq(Statuses) /\ DOMAIN all = 1..Len(st)
  BY <1>2, RemainingType DEF Remaining, Statuses
<1>5. Len(all) = Len(st)
  BY <1>1, <1>4, LengthIs
<1>6. \A j \in 1..Len(st) : all[j] = IF j >= i + 1 /\ mid[j] = "" THEN "skipped" ELSE mid[j]
  BY <1>2 DEF Remaining
<1> HIDE DEF all
<1>7. /\ \A j \in 1..(i - 1) : all[j] = "success"
      /\ all[i] = status
      /\ \A j \in (i + 1)..Len(st) : all[j] = "skipped"
  <2>1. ASSUME NEW j \in 1..(i - 1) PROVE all[j] = "success"
    <3>1. j \in 1..Len(st) /\ j < i /\ j # i /\ ~(j >= i + 1)
      BY <1>1
    <3>2. st[j] = "success"
      BY <3>1 DEF Behind
    <3> QED
      BY <1>3, <1>6, <3>1, <3>2
  <2>2. ASSUME NEW j \in (i + 1)..Len(st) PROVE all[j] = "skipped"
    <3>1. j \in 1..Len(st) /\ j >= i /\ j # i /\ j >= i + 1
      BY <1>1
    <3>2. st[j] = ""
      BY <3>1 DEF Behind
    <3> QED
      BY <1>3, <1>6, <3>1, <3>2
  <2>3. all[i] = status
    BY <1>1, <1>3, <1>6
  <2> QED
    BY <2>1, <2>2, <2>3
<1>8. i - 1 \in 0..Len(all) /\ i - 1 # Len(all) /\ (i - 1) + 1 = i /\ (i - 1) + 2 = i + 1
  BY <1>1, <1>5
<1>9. Explains(status, all)
  BY <1>5, <1>7, <1>8 DEF Explains
<1> QED
  BY <1>9 DEF all, mid

(* A run that is cancelled between two stages cancels those it has left.    *)
LEMMA DecidedBetween ==
  ASSUME NEW st \in Seq(Statuses), NEW i \in 1..Len(st), Behind(st, i)
  PROVE  Explains("cancelled", Remaining(st, i, "cancelled"))
<1> DEFINE all == Remaining(st, i, "cancelled")
<1>1. Len(st) \in Nat /\ DOMAIN st = 1..Len(st)
  BY LenProperties
<1>2. all \in Seq(Statuses) /\ DOMAIN all = 1..Len(st)
  BY <1>1, RemainingType DEF Remaining, Statuses
<1>3. Len(all) = Len(st)
  BY <1>1, <1>2, LengthIs
<1>4. \A j \in 1..Len(st) : all[j] = IF j >= i /\ st[j] = "" THEN "cancelled" ELSE st[j]
  BY <1>1 DEF Remaining
<1> HIDE DEF all
<1>5. /\ \A j \in 1..(i - 1) : all[j] = "success"
      /\ \A j \in i..Len(st) : all[j] = "cancelled"
  <2>1. ASSUME NEW j \in 1..(i - 1) PROVE all[j] = "success"
    <3>1. j \in 1..Len(st) /\ j < i /\ ~(j >= i)
      BY <1>1
    <3> QED
      BY <1>4, <3>1 DEF Behind
  <2>2. ASSUME NEW j \in i..Len(st) PROVE all[j] = "cancelled"
    <3>1. j \in 1..Len(st) /\ j >= i
      BY <1>1
    <3>2. st[j] = ""
      BY <3>1 DEF Behind
    <3> QED
      BY <1>4, <3>1, <3>2
  <2> QED
    BY <2>1, <2>2
<1>6. i - 1 \in 0..Len(all) /\ i - 1 # Len(all) /\ (i - 1) + 1 = i /\ all[i] = "cancelled"
  BY <1>1, <1>3, <1>5
<1>7. Explains("cancelled", all)
  BY <1>3, <1>5, <1>6 DEF Explains
<1> QED
  BY <1>7 DEF all

(* One that has all its stages behind it is a success.                      *)
LEMMA DecidedAtEnd ==
  ASSUME NEW st \in Seq(Statuses), Behind(st, Len(st) + 1)
  PROVE  Explains("success", st)
<1>1. Len(st) \in Nat
  BY LenProperties
<1>2. ASSUME NEW j \in 1..Len(st) PROVE st[j] = "success"
  <2>1. j < Len(st) + 1
    BY <1>1
  <2> QED
    BY <2>1 DEF Behind
<1>3. Len(st) \in 0..Len(st)
  BY <1>1
<1> QED
  BY <1>2, <1>3 DEF Explains

(* What is explained has a verdict.                                         *)
LEMMA ExplainedHasVerdict ==
  ASSUME NEW status, NEW st, Explains(status, st) PROVE status \in Verdicts
  BY DEF Explains, Verdicts


-------------------------------------------------------------------------------
(* What a step does to the runs: nothing but a request to cancel (Same for  *)
(* every run), one goroutine goes on, a workflow is triggered, a run calls  *)
(* a nested one, or the daemon dies.                                        *)

Same(q) ==
  /\ run'[q].pc = run[q].pc /\ run'[q].line = run[q].line /\ run'[q].cfg = run[q].cfg
  /\ run'[q].next = run[q].next /\ run'[q].stages = run[q].stages
  /\ run'[q].status = run[q].status /\ run'[q].why = run[q].why
  /\ run'[q].child = run[q].child
Others(S) == \A q \in Runs \ S : Same(q)

Still ==
  /\ Others({}) /\ UNCHANGED <<nextRun, journal>>
  /\ \A q \in Runs : proc'[q] \in LiveProc => proc[q] \in LiveProc

Recorded(r) == [run |-> r, status |-> run[r].status, stages |-> run[r].stages]
GoesOn(r) ==
  /\ Open(run[r]) /\ run'[r].pc \in (Executing \ {"child"}) \union Over
  /\ run'[r].line = run[r].line /\ ProgressOK(run'[r])
  /\ run[r].pc = "child" => run[run[r].child].pc = "closed"
  /\ Others({r}) /\ nextRun' = nextRun
  /\ \A q \in Runs : proc'[q] \in LiveProc =>
       IF q = r THEN run'[q].pc \in {"select", "stopping"} ELSE proc[q] \in LiveProc
  /\ IF run'[r].pc = "closed"
     THEN /\ run[r].pc = "record" /\ run'[r].status = run[r].status
          /\ journal' = journal \union {Recorded(r)}
     ELSE journal' = journal

Born(n, line) ==
  /\ n = nextRun /\ nextRun' = nextRun + 1
  /\ run'[n].pc = "head" /\ run'[n].line = line \union {n} /\ ProgressOK(run'[n])
  /\ UNCHANGED <<journal, proc>>
Triggers(n) == Born(n, {}) /\ Others({n})
Calls(r, n) ==
  /\ Born(n, run[r].line) /\ run[r].pc = "claim"
  /\ run'[r].pc = "child" /\ run'[r].child = n
  /\ run'[r].line = run[r].line /\ ProgressOK(run'[r])
  /\ Others({r, n})

DaemonGone ==
  /\ \A q \in Runs : IF run[q].pc \in {"none", "closed"} THEN run'[q] = run[q]
                      ELSE run'[q].pc = "lost" /\ run'[q].line = {}
  /\ \A q \in Runs : proc'[q] \notin LiveProc
  /\ UNCHANGED <<nextRun, journal>>

StepKind ==
  \/ Still \/ DaemonGone
  \/ \E r \in Runs : GoesOn(r) \/ Triggers(r) \/ \E n \in Runs : Calls(r, n)

-------------------------------------------------------------------------------
(* Each kind of step keeps the invariant.                                   *)

LEMMA SameProgress ==
  ASSUME NEW q \in Runs, Same(q), ProgressOK(run[q]) PROVE ProgressOK(run'[q])
  BY DEF Same, ProgressOK, Behind

LEMMA SameOpen ==
  ASSUME NEW q \in Runs, Same(q) PROVE Open(run'[q]) <=> Open(run[q])
  BY DEF Same, Open

(* Lines are sets of runs, and runs are numbers.                            *)
LEMMA LineTypes ==
  ASSUME RunInv
  PROVE  /\ Runs \subseteq Int /\ nextRun \in Int /\ nextRun >= 1
         /\ \A r \in Runs : run[r].line \subseteq Runs
         /\ \A r \in Runs : Open(run[r]) => r \in run[r].line /\ r < nextRun
         /\ \A r \in Runs : run[r].line # {} => run[r].pc \notin {"none", "lost"}
<1>1. Runs \subseteq Int /\ nextRun \in Int /\ nextRun >= 1
  BY EngineBoundsAssumption DEF Runs, RunInv, IInv, RunsOK
<1>2. \A r \in Runs : run[r].line \subseteq Runs
  BY RunTypes DEF RunInv
<1> QED
  BY <1>1, <1>2 DEF RunInv, TreeInv, Numbered, Open, Executing

LEMMA StillKeeps == ASSUME RunInv, Still PROVE TreeInv'
<1>1. Numbered'
  BY DEF Still, Others, Same, RunInv, TreeInv, Numbered
<1>2. AncestorsWait'
  BY SameOpen, LineTypes DEF Still, Others, Same, RunInv, TreeInv, AncestorsWait
<1>3. OneBranch'
  BY SameOpen DEF Still, Others, Same, RunInv, TreeInv, OneBranch
<1>4. ProcsOK'
  BY DEF Still, Others, Same, RunInv, TreeInv, ProcsOK
<1>5. Journalled'
  BY DEF Still, Others, Same, RunInv, TreeInv, Journalled
<1>6. Progress'
  BY SameProgress DEF Still, Others, RunInv, TreeInv, Progress
<1> QED
  BY <1>1, <1>2, <1>3, <1>4, <1>5, <1>6 DEF TreeInv

LEMMA GoneKeeps == ASSUME RunInv, DaemonGone PROVE TreeInv'
<1>1. Numbered'
  BY DEF DaemonGone, RunInv, TreeInv, Numbered
<1>2. \A q \in Runs : ~Open(run'[q])
  BY DEF DaemonGone, Open, Executing
<1>3. AncestorsWait' /\ OneBranch'
  BY <1>2 DEF AncestorsWait, OneBranch
<1>4. ProcsOK'
  BY DEF DaemonGone, ProcsOK
<1>5. Journalled'
  BY DEF DaemonGone, RunInv, TreeInv, Journalled
<1>6. Progress'
  BY DEF DaemonGone, RunInv, TreeInv, Progress, ProgressOK, Executing, Over
<1> QED
  BY <1>1, <1>3, <1>4, <1>5, <1>6 DEF TreeInv

(* A goroutine goes on: it was no ancestor of an open run, since the one it *)
(* waited for is closed and the others would be waiting.                    *)
LEMMA GoesOnKeeps ==
  ASSUME RunInv, NEW r \in Runs, GoesOn(r) PROVE TreeInv'
<1>1. \A q \in Runs : q # r => Same(q)
  BY DEF GoesOn, Others
<1>2. \A q \in Runs : run'[q].line = run[q].line /\ (Open(run'[q]) => Open(run[q]))
  BY <1>1, SameOpen DEF GoesOn, Same
<1>3. r < nextRun /\ r \in run[r].line
  BY LineTypes DEF GoesOn
<1>4. Numbered'
  BY <1>1, <1>2, <1>3, LineTypes
     DEF GoesOn, Same, RunInv, TreeInv, Numbered, Open, Executing, Over
<1>5. ASSUME NEW s \in Runs, Open(run'[s]), s # r PROVE r \notin run[s].line
  <2> SUFFICES ASSUME r \in run[s].line PROVE FALSE
    OBVIOUS
  <2>1. run[r].pc = "child" /\ run[r].child \in run[s].line
    BY <1>2, <1>5 DEF RunInv, TreeInv, AncestorsWait
  <2>2. run[run[r].child].pc = "closed" /\ run[r].child \in Runs
    BY <2>1, LineTypes DEF GoesOn
  <2>3. run[r].child # s
    BY <1>2, <1>5, <2>2 DEF Open, Executing
  <2> QED
    BY <1>2, <1>5, <2>1, <2>2, <2>3 DEF RunInv, TreeInv, AncestorsWait
<1>6. AncestorsWait'
  <2> SUFFICES ASSUME NEW s \in Runs, Open(run'[s]), NEW a \in run[s].line \ {s}
               PROVE  run'[a].pc = "child" /\ run'[a].child \in run[s].line
    BY <1>2 DEF AncestorsWait
  <2>1. run[a].pc = "child" /\ run[a].child \in run[s].line /\ a \in Runs
    BY <1>2, LineTypes DEF RunInv, TreeInv, AncestorsWait
  <2>2. a # r
    <3>1. CASE s = r
      BY <3>1
    <3>2. CASE s # r
      BY <1>5, <3>2
    <3> QED
      BY <3>1, <3>2
  <2> QED
    BY <1>1, <2>1, <2>2 DEF Same
<1>7. OneBranch'
  BY <1>2 DEF RunInv, TreeInv, OneBranch
<1>8. ProcsOK'
  BY <1>1 DEF GoesOn, Same, RunInv, TreeInv, ProcsOK
<1>9. Journalled'
  <2>1. CASE run'[r].pc = "closed"
    <3>1. /\ run[r].pc = "record" /\ run'[r].status = run[r].status
          /\ journal' = journal \union {Recorded(r)}
      BY <2>1 DEF GoesOn
    <3>2. Explains(run[r].status, run[r].stages) /\ run[r].stages \in Seq(Statuses)
      BY <3>1, RunTypes DEF RunInv, TreeInv, Progress, ProgressOK, Over
    <3>3. \A rec \in journal' : rec.stages \in Seq(Statuses) /\ Explains(rec.status, rec.stages)
      BY <3>1, <3>2 DEF Recorded, RunInv, TreeInv, Journalled
    <3>4. Recorded(r) \in journal' /\ Recorded(r).run = r /\ Recorded(r).status = run'[r].status
      BY <3>1 DEF Recorded
    <3>5. ASSUME NEW q \in Runs, q # r, run'[q].pc = "closed"
          PROVE  \E rec \in journal' : rec.run = q /\ rec.status = run'[q].status
      BY <1>1, <3>1, <3>5 DEF Same, RunInv, TreeInv, Journalled
    <3> QED
      BY <3>3, <3>4, <3>5 DEF Journalled
  <2>2. CASE run'[r].pc # "closed"
    <3>1. journal' = journal
      BY <2>2 DEF GoesOn
    <3> QED
      BY <1>1, <2>2, <3>1 DEF Same, RunInv, TreeInv, Journalled
  <2> QED
    BY <2>1, <2>2
<1>10. Progress'
  BY <1>1, SameProgress DEF GoesOn, RunInv, TreeInv, Progress
<1> QED
  BY <1>4, <1>6, <1>7, <1>8, <1>9, <1>10 DEF TreeInv

(* A claimed run gets the number no run has had.                            *)
LEMMA BornIsNew ==
  ASSUME RunInv, NEW n \in Runs, n = nextRun
  PROVE  /\ run[n].pc = "none" /\ run[n].line = {} /\ ~Open(run[n])
         /\ \A q \in Runs : n \notin run[q].line
<1>1. run[n].pc = "none"
  BY LineTypes DEF RunInv, TreeInv, Numbered
<1>2. \A q \in Runs : \A a \in run[q].line : a < n /\ a \in Int
  BY LineTypes DEF RunInv, TreeInv, Numbered
<1> QED
  BY <1>1, <1>2, LineTypes DEF RunInv, TreeInv, Numbered, Open, Executing

(* The numbers stay in order when one more run is claimed, at the end of a  *)
(* line that is there, or of none.                                          *)
LEMMA BornNumbered ==
  ASSUME RunInv, NEW n \in Runs, NEW line \in SUBSET Runs, Born(n, line),
         line = {} \/ \E r \in Runs : line = run[r].line,
         \A q \in Runs \ {n} : /\ run'[q].line = run[q].line
                               /\ \/ run'[q].pc = run[q].pc
                                  \/ /\ run[q].pc \notin {"none", "lost"}
                                     /\ run'[q].pc \notin {"none", "lost"}
  PROVE  Numbered'
<1>1. \A a \in line : a \in Int /\ a < nextRun
  BY LineTypes DEF RunInv, TreeInv, Numbered
<1>2. n = nextRun /\ nextRun' = nextRun + 1 /\ run'[n].pc = "head" /\ run'[n].line = line \union {n}
  BY DEF Born
<1>3. \A a \in run'[n].line : a < nextRun'
  BY <1>1, <1>2, LineTypes
<1>4. ASSUME NEW q \in Runs, q # n PROVE \A a \in run'[q].line : a < nextRun'
  BY <1>2, <1>4, LineTypes DEF RunInv, TreeInv, Numbered
<1>5. ASSUME NEW q \in Runs, q >= nextRun' PROVE run'[q].pc = "none"
  <2>1. q # n /\ q >= nextRun
    BY <1>2, <1>5, LineTypes
  <2> QED
    BY <2>1 DEF RunInv, TreeInv, Numbered
<1>6. ASSUME NEW q \in Runs
      PROVE  IF run'[q].pc \in {"none", "lost"} THEN run'[q].line = {} ELSE q \in run'[q].line
  BY <1>2, BornIsNew DEF RunInv, TreeInv, Numbered
<1> QED
  BY <1>3, <1>4, <1>5, <1>6 DEF Numbered

LEMMA TriggersKeeps ==
  ASSUME RunInv, NEW n \in Runs, Triggers(n) PROVE TreeInv'
<1>1. \A q \in Runs : q # n => Same(q)
  BY DEF Triggers, Others
<1>2. /\ n = nextRun /\ run'[n].line = {n} /\ run'[n].pc = "head"
      /\ UNCHANGED <<journal, proc>> /\ ProgressOK(run'[n])
  BY DEF Triggers, Born
<1>3. run[n].pc = "none" /\ \A q \in Runs : n \notin run[q].line
  BY <1>2, BornIsNew
<1>4. Numbered'
  BY <1>1, BornNumbered DEF Triggers, Same
<1>5. \A q \in Runs : q # n => /\ run'[q].line = run[q].line
                               /\ Open(run'[q]) => Open(run[q])
  BY <1>1, SameOpen DEF Same
<1>6. AncestorsWait'
  <2> SUFFICES ASSUME NEW s \in Runs, Open(run'[s]), NEW a \in run'[s].line \ {s}
               PROVE  run'[a].pc = "child" /\ run'[a].child \in run'[s].line
    BY DEF AncestorsWait
  <2>1. s # n
    BY <1>2
  <2>2. a \in Runs /\ a # n /\ run[a].pc = "child" /\ run[a].child \in run[s].line
    BY <1>3, <1>5, <2>1, LineTypes DEF RunInv, TreeInv, AncestorsWait
  <2> QED
    BY <1>1, <1>5, <2>1, <2>2 DEF Same
<1>7. OneBranch'
  <2> SUFFICES ASSUME NEW r \in Runs, NEW s \in Runs, Open(run'[r]), Open(run'[s]),
                      run'[r].line \intersect run'[s].line # {}
               PROVE  r \in run'[s].line \/ s \in run'[r].line
    BY DEF OneBranch
  <2>1. CASE r = n \/ s = n
    BY <1>2, <1>3, <1>5, <2>1
  <2>2. CASE r # n /\ s # n
    BY <1>5, <2>2 DEF RunInv, TreeInv, OneBranch
  <2> QED
    BY <2>1, <2>2
<1>8. ProcsOK'
  BY <1>1, <1>2, <1>3 DEF Same, RunInv, TreeInv, ProcsOK
<1>9. Journalled'
  BY <1>1, <1>2 DEF Same, RunInv, TreeInv, Journalled
<1>10. Progress'
  BY <1>1, <1>2, SameProgress DEF RunInv, TreeInv, Progress
<1> QED
  BY <1>4, <1>6, <1>7, <1>8, <1>9, <1>10 DEF TreeInv

(* A run that calls was no ancestor of an open run: it did not wait.        *)
LEMMA CallsKeeps ==
  ASSUME RunInv, NEW r \in Runs, NEW n \in Runs, Calls(r, n) PROVE TreeInv'
<1>1. \A q \in Runs : q # r /\ q # n => Same(q)
  BY DEF Calls, Others
<1>2. /\ n = nextRun /\ run'[n].line = run[r].line \union {n} /\ run'[n].pc = "head"
      /\ UNCHANGED <<journal, proc>> /\ ProgressOK(run'[n])
  BY DEF Calls, Born
<1>3. /\ run[n].pc = "none" /\ \A q \in Runs : n \notin run[q].line
  BY <1>2, BornIsNew
<1>4. /\ run[r].pc = "claim" /\ run'[r].pc = "child" /\ run'[r].child = n
      /\ run'[r].line = run[r].line /\ ProgressOK(run'[r])
  BY DEF Calls
<1>5. Open(run[r]) /\ r # n /\ r \in run[r].line
  <2>1. Open(run[r]) /\ r # n
    BY <1>3, <1>4 DEF Open, Executing
  <2> QED
    BY <2>1, LineTypes
<1>6. Numbered'
  <2>1. run[r].line \in SUBSET Runs
    BY LineTypes
  <2> QED
    BY <1>1, <1>4, <2>1, BornNumbered DEF Calls, Same
<1>7. \A q \in Runs : q # n => /\ run'[q].line = run[q].line
                               /\ Open(run'[q]) => Open(run[q])
  BY <1>1, <1>4, <1>5, SameOpen DEF Same
<1>8. ASSUME NEW s \in Runs, Open(run[s]), s # r PROVE r \notin run[s].line
  BY <1>4, <1>8 DEF RunInv, TreeInv, AncestorsWait
<1>9. AncestorsWait'
  <2> SUFFICES ASSUME NEW s \in Runs, Open(run'[s]), NEW a \in run'[s].line \ {s}
               PROVE  run'[a].pc = "child" /\ run'[a].child \in run'[s].line
    BY DEF AncestorsWait
  <2>1. CASE s = n
    <3>1. a \in run[r].line /\ a \in Runs /\ a # n
      BY <1>2, <2>1, LineTypes
    <3>2. CASE a = r
      BY <1>2, <1>4, <2>1, <3>2
    <3>3. CASE a # r
      <4>1. run[a].pc = "child" /\ run[a].child \in run[r].line
        BY <1>5, <3>1, <3>3 DEF RunInv, TreeInv, AncestorsWait
      <4> QED
        BY <1>1, <1>2, <2>1, <3>1, <3>3, <4>1 DEF Same
    <3> QED
      BY <3>2, <3>3
  <2>2. CASE s # n
    <3>1. /\ a \in run[s].line \ {s} /\ a \in Runs /\ a # n /\ Open(run[s])
          /\ run[a].pc = "child" /\ run[a].child \in run[s].line
      BY <1>3, <1>7, <2>2, LineTypes DEF RunInv, TreeInv, AncestorsWait
    <3>2. a # r
      BY <1>4, <3>1
    <3> QED
      BY <1>1, <1>7, <2>2, <3>1, <3>2 DEF Same
  <2> QED
    BY <2>1, <2>2
<1>10. OneBranch'
  <2>1. ASSUME NEW s \in Runs, s # n, Open(run'[s]),
               run'[n].line \intersect run'[s].line # {}
        PROVE  s \in run'[n].line
    <3>1. Open(run[s]) /\ run[r].line \intersect run[s].line # {}
      BY <1>2, <1>3, <1>7, <2>1
    <3>2. r \in run[s].line \/ s \in run[r].line
      BY <1>5, <3>1 DEF RunInv, TreeInv, OneBranch
    <3>3. CASE s = r
      BY <1>2, <1>5, <3>3
    <3>4. CASE s # r
      BY <1>2, <1>8, <3>1, <3>2, <3>4
    <3> QED
      BY <3>3, <3>4
  <2> SUFFICES ASSUME NEW p \in Runs, NEW s \in Runs, Open(run'[p]), Open(run'[s]),
                      run'[p].line \intersect run'[s].line # {}
               PROVE  p \in run'[s].line \/ s \in run'[p].line
    BY DEF OneBranch
  <2>2. CASE p = n /\ s = n
    BY <1>2, <2>2
  <2>3. CASE p = n /\ s # n
    BY <2>1, <2>3
  <2>4. CASE p # n /\ s = n
    BY <2>1, <2>4
  <2>5. CASE p # n /\ s # n
    BY <1>7, <2>5 DEF RunInv, TreeInv, OneBranch
  <2> QED
    BY <2>2, <2>3, <2>4, <2>5
<1>11. ProcsOK'
  BY <1>1, <1>2, <1>3, <1>4 DEF Same, RunInv, TreeInv, ProcsOK
<1>12. Journalled'
  BY <1>1, <1>2, <1>4 DEF Same, RunInv, TreeInv, Journalled
<1>13. Progress'
  BY <1>1, <1>2, <1>4, SameProgress DEF RunInv, TreeInv, Progress
<1> QED
  BY <1>6, <1>9, <1>10, <1>11, <1>12, <1>13 DEF TreeInv

LEMMA KindKeeps == ASSUME RunInv, StepKind PROVE TreeInv'
  BY StillKeeps, GoneKeeps, GoesOnKeeps, TriggersKeeps, CallsKeeps DEF StepKind

-------------------------------------------------------------------------------
(* Every step is of one of these kinds.                                     *)

LEMMA IsStill ==
  ASSUME UNCHANGED <<run, nextRun, proc, journal>> PROVE StepKind
  BY DEF StepKind, Still, Others, Same

LEMMA ExceptOthers ==
  ASSUME RunInv, NEW r \in Runs, NEW s, run' = [run EXCEPT ![r] = s]
  PROVE  run'[r] = s /\ Others({r})
  BY DEF RunInv, IInv, RunsOK, Others, Same

(* A new run has all its stages before it.                                  *)
LEMMA NewProgress ==
  ASSUME NEW cfg \in Definition, NEW line, NEW trigger
  PROVE  LET new == NewRun(cfg, line, trigger)
         IN  ProgressOK(new) /\ new.pc = "head" /\ new.line = line
<1> DEFINE new == NewRun(cfg, line, trigger)
           st == [i \in DOMAIN cfg.stages |-> ""]
<1>1. Len(cfg.stages) \in Nat /\ DOMAIN cfg.stages = 1..Len(cfg.stages)
  BY DefinitionTypes, LenProperties
<1>2. st \in Seq(Statuses) /\ DOMAIN st = 1..Len(cfg.stages)
  BY <1>1, FreshStages
<1>3. Len(st) = Len(cfg.stages)
  BY <1>1, <1>2, LengthIs
<1>4. ASSUME NEW j \in 1..Len(st) PROVE st[j] = "" /\ ~(j < 1)
  <2>1. j \in DOMAIN cfg.stages
    BY <1>1, <1>3
  <2>2. ~(j < 1)
    BY <1>1, <1>3
  <2>3. st[j] = ""
    BY <2>1
  <2> QED
    BY <2>2, <2>3
<1>5. Len(st) \in Nat
  BY <1>1, <1>3
<1> HIDE DEF st
<1>6. 1 \in 1..(Len(st) + 1)
  BY <1>5
<1>7. Behind(st, 1)
  BY <1>4 DEF Behind
<1>8. /\ new.pc = "head" /\ new.line = line /\ new.stages = st /\ new.next = 1
      /\ new.cfg = cfg
  BY DEF NewRun, Unclaimed, st
<1> HIDE DEF new
<1>9. ProgressOK(new)
  BY <1>3, <1>6, <1>7, <1>8 DEF ProgressOK, Over
<1> QED
  BY <1>8, <1>9 DEF new

(* What is left of a run's processes when its stage is over.                *)
ProcsBut(r) == \A q \in Runs : proc'[q] \in LiveProc => q # r /\ proc[q] \in LiveProc

LEMMA EndsGoesOn ==
  ASSUME RunInv, NEW r \in Runs, run[r].pc \in Executing,
         run[r].pc = "child" => run[run[r].child].pc = "closed",
         NEW status, NEW st, Explains(status, st), Ended(r, status, st),
         UNCHANGED <<nextRun, journal>>, ProcsBut(r)
  PROVE  StepKind
<1> DEFINE s == [run[r] EXCEPT !.pc = "release", !.status = status, !.stages = st,
                               !.child = Nil, !.callee = Nil, !.why = ""]
<1>1. run[r] \in RunRecord
  BY RunTypes DEF RunInv
<1>2. s.pc = "release" /\ s.status = status /\ s.stages = st /\ s.line = run[r].line
  BY <1>1 DEF RunRecord
<1>3. run' = [run EXCEPT ![r] = s]
  BY DEF Ended, RunInv, IInv, RunsOK
<1> HIDE DEF s
<1>4. run'[r] = s /\ Others({r})
  BY <1>3, ExceptOthers
<1>5. ProgressOK(s)
  BY <1>2 DEF ProgressOK, Executing
<1>6. GoesOn(r)
  BY <1>2, <1>4, <1>5 DEF GoesOn, Open, Executing, Over, ProcsBut
<1> QED
  BY <1>6 DEF StepKind

LEMMA StageEndsGoesOn ==
  ASSUME RunInv, NEW r \in Runs, run[r].pc \in Executing,
         run[r].pc = "child" => run[run[r].child].pc = "closed",
         run[r].next <= Len(run[r].stages),
         NEW status \in Verdicts, StageEnds(r, status),
         UNCHANGED <<nextRun, journal>>, ProcsBut(r)
  PROVE  StepKind
<1> DEFINE i == run[r].next
           st == [run[r].stages EXCEPT ![i] = status]
           s == [run[r] EXCEPT !.pc = "head", !.next = i + 1, !.stages = st,
                               !.child = Nil, !.callee = Nil, !.why = ""]
<1>1. /\ run[r] \in RunRecord /\ run[r].stages \in Seq(Statuses)
      /\ Len(run[r].stages) = Len(run[r].cfg.stages)
      /\ Behind(run[r].stages, i) /\ i \in 1..(Len(run[r].stages) + 1)
  BY RunTypes DEF RunInv, TreeInv, Progress, ProgressOK
<1>2. i \in 1..Len(run[r].stages) /\ Len(run[r].stages) \in Nat
  BY <1>1, LenProperties
<1>3. CASE status = "success"
  <2>1. Len(st) = Len(run[r].stages) /\ Behind(st, i + 1)
    BY <1>1, <1>2, <1>3, OneMoreBehind
  <2> HIDE DEF st
  <2>2. /\ s.pc = "head" /\ s.next = i + 1 /\ s.stages = st
        /\ s.line = run[r].line /\ s.cfg = run[r].cfg
    BY <1>1 DEF RunRecord
  <2>3. run' = [run EXCEPT ![r] = s]
    BY <1>3 DEF StageEnds, RunInv, IInv, RunsOK, st
  <2> HIDE DEF s
  <2>4. run'[r] = s /\ Others({r})
    BY <2>3, ExceptOthers
  <2>5. i + 1 \in 1..(Len(st) + 1)
    BY <1>2, <2>1
  <2> HIDE DEF i
  <2>6. ProgressOK(s)
    BY <1>1, <2>1, <2>2, <2>5 DEF ProgressOK, Over
  <2>7. GoesOn(r)
    BY <2>2, <2>4, <2>6 DEF GoesOn, Open, Executing, Over, ProcsBut
  <2> QED
    BY <2>7 DEF StepKind
<1>4. CASE status # "success"
  <2>1. Ended(r, status, Remaining(st, i + 1, "skipped"))
    BY <1>4 DEF StageEnds
  <2>2. Explains(status, Remaining(st, i + 1, "skipped"))
    BY <1>1, <1>2, <1>4, DecidedByStage DEF Verdicts
  <2> HIDE DEF st, i
  <2> QED
    BY <2>1, <2>2, EndsGoesOn
<1> QED
  BY <1>3, <1>4

(* A run that goes on to another place in its stage, keeping what it has.   *)
LEMMA MovesGoesOn ==
  ASSUME RunInv, NEW r \in Runs, NEW s, run' = [run EXCEPT ![r] = s],
         run[r].pc \in {"head", "select"}, s.pc \in {"select", "stopping", "claim"},
         s.line = run[r].line, s.cfg = run[r].cfg, s.next = run[r].next,
         s.stages = run[r].stages, run[r].next <= Len(run[r].stages),
         s.pc = "stopping" => s.why \in {"failed", "cancelled"},
         UNCHANGED <<nextRun, journal>>,
         \A q \in Runs : proc'[q] \in LiveProc =>
           IF q = r THEN s.pc \in {"select", "stopping"} ELSE proc[q] \in LiveProc
  PROVE  StepKind
<1>1. run'[r] = s /\ Others({r})
  BY ExceptOthers
<1>2. ProgressOK(run[r])
  BY DEF RunInv, TreeInv, Progress
<1>3. ProgressOK(s)
  BY <1>2 DEF ProgressOK, Executing, Over
<1>4. GoesOn(r)
  BY <1>1, <1>3 DEF GoesOn, Open, Executing, Over
<1> QED
  BY <1>4 DEF StepKind

(* A run that is not in its select or in Stop has no process.               *)
LEMMA NoProcess ==
  ASSUME RunInv, NEW r \in Runs, run[r].pc \notin {"select", "stopping"}, UNCHANGED proc
  PROVE  ProcsBut(r)
  BY DEF RunInv, TreeInv, ProcsOK, ProcsBut

LEMMA ProcessReaped ==
  ASSUME RunInv, NEW r \in Runs, proc' = [proc EXCEPT ![r] = "none"]
  PROVE  ProcsBut(r)
  BY DEF RunInv, IInv, RestOK, ProcsBut, LiveProc

(* A run in its loop has the stage list of its definition.                  *)
LEMMA AtStage ==
  ASSUME RunInv, NEW r \in Runs, run[r].pc \in Executing
  PROVE  /\ run[r].stages \in Seq(Statuses) /\ Len(run[r].stages) \in Nat
         /\ Len(run[r].stages) = Len(run[r].cfg.stages)
         /\ run[r].next \in 1..(Len(run[r].stages) + 1)
         /\ Behind(run[r].stages, run[r].next)
         /\ run[r].pc # "head" => run[r].next <= Len(run[r].stages)
<1>1. run[r].stages \in Seq(Statuses)
  BY RunTypes DEF RunInv
<1> QED
  BY <1>1, LenProperties DEF RunInv, TreeInv, Progress, ProgressOK

LEMMA LoopEndsKind ==
  ASSUME RunInv, NEW r \in Runs, LoopEnds(r) PROVE StepKind
<1>1. run[r].pc = "head" /\ run[r].pc \in Executing
  BY DEF LoopEnds, RunAt, Executing
<1>2. ProcsBut(r) /\ UNCHANGED <<nextRun, journal>>
  BY <1>1, NoProcess DEF LoopEnds, records
<1>3. CASE run[r].next > Len(run[r].cfg.stages) /\ Ended(r, "success", run[r].stages)
  <2>1. run[r].next = Len(run[r].stages) + 1
    BY <1>1, <1>3, AtStage
  <2>2. Explains("success", run[r].stages)
    BY <1>1, <2>1, AtStage, DecidedAtEnd
  <2> QED
    BY <1>1, <1>2, <1>3, <2>2, EndsGoesOn
<1>4. CASE /\ run[r].next <= Len(run[r].cfg.stages)
           /\ Ended(r, "cancelled", Remaining(run[r].stages, run[r].next, "cancelled"))
  <2>1. run[r].next \in 1..Len(run[r].stages)
    BY <1>1, <1>4, AtStage
  <2>2. Explains("cancelled", Remaining(run[r].stages, run[r].next, "cancelled"))
    BY <1>1, <2>1, AtStage, DecidedBetween
  <2> QED
    BY <1>1, <1>2, <1>4, <2>2, EndsGoesOn
<1> QED
  BY <1>3, <1>4 DEF LoopEnds

LEMMA SpawnKind ==
  ASSUME RunInv, NEW r \in Runs, Spawn(r) PROVE StepKind
<1>1. /\ run[r].pc = "head" /\ run[r].pc \in Executing
      /\ UNCHANGED <<nextRun, journal>>
  BY DEF Spawn, Enters, RunAt, Executing, records
<1>2. run[r].next <= Len(run[r].stages)
  BY <1>1, AtStage DEF Spawn, Enters
<1>3. CASE proc' = [proc EXCEPT ![r] = "running"] /\ Move(r, "select")
  <2> DEFINE s == [run[r] EXCEPT !.pc = "select"]
  <2>1. run[r] \in RunRecord
    BY RunTypes DEF RunInv
  <2>2. /\ s.pc = "select" /\ s.line = run[r].line /\ s.cfg = run[r].cfg
        /\ s.next = run[r].next /\ s.stages = run[r].stages
    BY <2>1 DEF RunRecord
  <2>3. run' = [run EXCEPT ![r] = s]
    BY <1>3 DEF Move, RunInv, IInv, RunsOK
  <2>4. \A q \in Runs : q # r => proc'[q] = proc[q]
    BY <1>3, RunTypes DEF RunInv
  <2> HIDE DEF s
  <2> QED
    BY <1>1, <1>2, <2>2, <2>3, <2>4, MovesGoesOn
<1>4. CASE StageEnds(r, "failed") /\ UNCHANGED proc
  <2>1. ProcsBut(r)
    BY <1>1, <1>4, NoProcess
  <2> QED
    BY <1>1, <1>2, <1>4, <2>1, StageEndsGoesOn DEF Verdicts
<1> QED
  BY <1>3, <1>4 DEF Spawn

LEMMA ProcessExitsKind ==
  ASSUME RunInv, NEW r \in Runs, ProcessExits(r) PROVE StepKind
<1>1. PICK outcome \in {"ok", "failed"} : proc' = [proc EXCEPT ![r] = outcome]
  BY DEF ProcessExits
<1>2. \A q \in Runs : proc'[q] \in LiveProc => proc[q] \in LiveProc
  BY <1>1, RunTypes DEF RunInv, LiveProc
<1> QED
  BY <1>2 DEF ProcessExits, StepKind, Still, Others, Same, runs, records

LEMMA StageExitedKind ==
  ASSUME RunInv, NEW r \in Runs, StageExited(r) PROVE StepKind
<1>1. /\ run[r].pc = "select" /\ run[r].pc \in Executing /\ ProcsBut(r)
      /\ UNCHANGED <<nextRun, journal>>
  BY ProcessReaped DEF StageExited, RunAt, Executing, records
<1>2. run[r].next <= Len(run[r].stages)
  BY <1>1, AtStage
<1>3. PICK status \in Verdicts : StageEnds(r, status)
  BY DEF StageExited, Verdicts
<1> QED
  BY <1>1, <1>2, <1>3, StageEndsGoesOn

LEMMA StageStoppedKind ==
  ASSUME RunInv, NEW r \in Runs, StageStopped(r) PROVE StepKind
<1>1. /\ run[r].pc = "stopping" /\ run[r].pc \in Executing /\ ProcsBut(r)
      /\ UNCHANGED <<nextRun, journal>>
  BY ProcessReaped DEF StageStopped, RunAt, Executing, records
<1>2. run[r].next <= Len(run[r].stages)
  BY <1>1, AtStage
<1>3. run[r].why \in Verdicts
  BY <1>1 DEF RunInv, TreeInv, Progress, ProgressOK, Verdicts
<1> QED
  BY <1>1, <1>2, <1>3, StageEndsGoesOn DEF StageStopped

LEMMA StopStageKind ==
  ASSUME RunInv, NEW r \in Runs, NEW why \in {"failed", "cancelled"}, StopStage(r, why)
  PROVE  StepKind
<1> DEFINE s == [run[r] EXCEPT !.pc = "stopping", !.why = why]
<1>1. /\ run[r].pc = "select" /\ run[r] \in RunRecord
      /\ UNCHANGED <<nextRun, journal>>
  BY RunTypes DEF StopStage, RunAt, records, RunInv
<1>2. /\ s.pc = "stopping" /\ s.line = run[r].line /\ s.cfg = run[r].cfg
      /\ s.next = run[r].next /\ s.stages = run[r].stages /\ s.why = why
  BY <1>1 DEF RunRecord
<1>3. run' = [run EXCEPT ![r] = s]
  BY DEF StopStage, RunInv, IInv, RunsOK
<1>4. \A q \in Runs : q # r => proc'[q] = proc[q]
  BY RunTypes DEF StopStage, RunInv
<1>5. run[r].next <= Len(run[r].stages)
  BY <1>1, AtStage DEF Executing
<1> HIDE DEF s
<1> QED
  BY <1>1, <1>2, <1>3, <1>4, <1>5, MovesGoesOn

LEMMA ResolveNestedKind ==
  ASSUME RunInv, NEW r \in Runs, ResolveNested(r) PROVE StepKind
<1>1. /\ run[r].pc = "head" /\ run[r].pc \in Executing
      /\ UNCHANGED <<nextRun, journal, proc>>
  BY DEF ResolveNested, Enters, RunAt, Executing, records
<1>2. run[r].next <= Len(run[r].stages)
  BY <1>1, AtStage DEF ResolveNested, Enters
<1>3. CASE StageEnds(r, "failed")
  <2>1. ProcsBut(r)
    BY <1>1, NoProcess
  <2> QED
    BY <1>1, <1>2, <1>3, <2>1, StageEndsGoesOn DEF Verdicts
<1>4. ASSUME NEW k, run' = [run EXCEPT ![r].pc = "claim", ![r].callee = defs[k]]
      PROVE  StepKind
  <2> DEFINE s == [run[r] EXCEPT !.pc = "claim", !.callee = defs[k]]
  <2>1. run[r] \in RunRecord
    BY RunTypes DEF RunInv
  <2>2. /\ s.pc = "claim" /\ s.line = run[r].line /\ s.cfg = run[r].cfg
        /\ s.next = run[r].next /\ s.stages = run[r].stages
    BY <2>1 DEF RunRecord
  <2>3. run' = [run EXCEPT ![r] = s]
    BY <1>4 DEF RunInv, IInv, RunsOK
  <2>4. \A q \in Runs : proc'[q] \in LiveProc => q # r /\ proc[q] \in LiveProc
    BY <1>1, NoProcess DEF ProcsBut
  <2> HIDE DEF s
  <2> QED
    BY <1>1, <1>2, <2>2, <2>3, <2>4, MovesGoesOn
<1> QED
  BY <1>3, <1>4 DEF ResolveNested

(* The caller goes to wait for a run it has just claimed.                   *)
LEMMA ClaimNestedKind ==
  ASSUME RunInv, NEW r \in Runs, ClaimNested(r) PROVE StepKind
<1> DEFINE cfg == run[r].callee
           new == NewRun(cfg, run[r].line \union {nextRun}, "nested")
<1>1. /\ run[r].pc = "claim" /\ run[r].pc \in Executing /\ run[r] \in RunRecord
      /\ cfg \in Definition /\ UNCHANGED <<journal, proc>> /\ run \in [Runs -> RunRecord]
  BY DEF ClaimNested, RunAt, Executing, records, RunInv, IInv, RunsOK, RunOK
<1>2. run[r].next <= Len(run[r].stages)
  BY <1>1, AtStage
<1>3. CASE ~Claimable(cfg)
  <2>1. ProcsBut(r)
    BY <1>1, NoProcess
  <2> QED
    BY <1>1, <1>2, <1>3, <2>1, StageEndsGoesOn DEF ClaimNested, Verdicts
<1>4. CASE Claimable(cfg)
  <2>1. /\ run' = [run EXCEPT ![nextRun] = new, ![r].pc = "child", ![r].child = nextRun]
        /\ nextRun' = nextRun + 1 /\ nextRun \in Runs
    BY <1>4 DEF ClaimNested, Claimable
  <2>2. ProgressOK(new) /\ new.pc = "head" /\ new.line = run[r].line \union {nextRun}
    BY <1>1, NewProgress
  <2> HIDE DEF new
  <2>3. nextRun # r
    BY <1>1, <2>1, BornIsNew
  <2> DEFINE s == [run[r] EXCEPT !.pc = "child", !.child = nextRun]
  <2>4. \A q \in Runs : run'[q] = IF q = r THEN s ELSE IF q = nextRun THEN new ELSE run[q]
    BY <1>1, <2>1, <2>3
  <2>5. /\ s.pc = "child" /\ s.line = run[r].line /\ s.cfg = run[r].cfg
        /\ s.next = run[r].next /\ s.stages = run[r].stages /\ s.child = nextRun
    BY <1>1 DEF RunRecord
  <2> HIDE DEF s
  <2>6. ProgressOK(run[r])
    BY DEF RunInv, TreeInv, Progress
  <2>7. ProgressOK(s)
    BY <1>1, <2>5, <2>6 DEF ProgressOK, Executing, Over
  <2>8. Others({r, nextRun})
    BY <2>4 DEF Others, Same
  <2>9. ASSUME NEW n \in Runs, n = nextRun PROVE Calls(r, n)
    BY <1>1, <2>1, <2>2, <2>3, <2>4, <2>5, <2>7, <2>8, <2>9 DEF Calls, Born
  <2> QED
    BY <2>1, <2>9 DEF StepKind
<1> QED
  BY <1>3, <1>4

LEMMA NestedEndedKind ==
  ASSUME RunInv, NEW r \in Runs, NestedEnded(r) PROVE StepKind
<1> DEFINE d == run[r].child
<1>1. /\ run[r].pc = "child" /\ run[r].pc \in Executing /\ run[d].pc = "closed"
      /\ d \in Runs /\ UNCHANGED <<nextRun, journal, proc>>
  BY DEF NestedEnded, RunAt, Executing, records, RunInv, IInv, RunsOK, RunOK
<1>2. run[r].next <= Len(run[r].stages)
  BY <1>1, AtStage
<1>3. run[d].status \in Verdicts
  BY <1>1, ExplainedHasVerdict DEF RunInv, TreeInv, Progress, ProgressOK, Over
<1>4. ProcsBut(r)
  BY <1>1, NoProcess
<1>5. StageEnds(r, run[d].status)
  BY DEF NestedEnded
<1> HIDE DEF d
<1> QED
  BY <1>1, <1>2, <1>3, <1>4, <1>5, StageEndsGoesOn DEF d

LEMMA ReleaseKind ==
  ASSUME RunInv, NEW r \in Runs, Release(r) PROVE StepKind
<1> DEFINE s == [run[r] EXCEPT !.pc = "record", !.cancelled = TRUE]
<1>1. /\ run[r].pc = "release" /\ run[r] \in RunRecord
      /\ UNCHANGED <<nextRun, journal, proc>>
  BY RunTypes DEF Release, RunAt, records, RunInv
<1>2. /\ s.pc = "record" /\ s.line = run[r].line /\ s.status = run[r].status
      /\ s.stages = run[r].stages
  BY <1>1 DEF RunRecord
<1>3. run' = [run EXCEPT ![r] = s]
  BY DEF Release, RunInv, IInv, RunsOK
<1> HIDE DEF s
<1>4. run'[r] = s /\ Others({r})
  BY <1>3, ExceptOthers
<1>5. ProgressOK(run[r]) /\ ProcsBut(r)
  BY <1>1, NoProcess DEF RunInv, TreeInv, Progress
<1>6. ProgressOK(s)
  BY <1>1, <1>2, <1>5 DEF ProgressOK, Executing, Over
<1>7. GoesOn(r)
  BY <1>1, <1>2, <1>4, <1>5, <1>6 DEF GoesOn, Open, Over, ProcsBut
<1> QED
  BY <1>7 DEF StepKind

(* The record is in the journal when done is closed.                        *)
LEMMA RecordRunKind ==
  ASSUME RunInv, NEW r \in Runs, RecordRun(r) PROVE StepKind
<1> DEFINE s == [run[r] EXCEPT !.pc = "closed"]
<1>1. /\ run[r].pc = "record" /\ run[r] \in RunRecord
      /\ UNCHANGED <<nextRun, proc>> /\ journal' = journal \union {Recorded(r)}
  BY RunTypes DEF RecordRun, RunAt, Recorded, RunInv
<1>2. /\ s.pc = "closed" /\ s.line = run[r].line /\ s.status = run[r].status
      /\ s.stages = run[r].stages
  BY <1>1 DEF RunRecord
<1>3. run' = [run EXCEPT ![r] = s]
  BY DEF RecordRun, Move, RunInv, IInv, RunsOK
<1> HIDE DEF s
<1>4. run'[r] = s /\ Others({r})
  BY <1>3, ExceptOthers
<1>5. ProgressOK(run[r]) /\ ProcsBut(r)
  BY <1>1, NoProcess DEF RunInv, TreeInv, Progress
<1>6. ProgressOK(s)
  BY <1>1, <1>2, <1>5 DEF ProgressOK, Executing, Over
<1>7. GoesOn(r)
  BY <1>1, <1>2, <1>4, <1>5, <1>6 DEF GoesOn, Open, Over, ProcsBut
<1> QED
  BY <1>7 DEF StepKind

LEMMA ClaimKind ==
  ASSUME RunInv, NEW c \in Clients, Claim(c) PROVE StepKind
<1> DEFINE cfg == client[c].cfg
           new == NewRun(cfg, {nextRun}, client[c].op)
<1>1. cfg \in Definition /\ UNCHANGED <<journal, proc>>
  BY DEF RunInv, IInv, ClientsOK, ClientOK, Claim, At, records
<1>2. CASE ~Claimable(cfg)
  BY <1>1, <1>2, IsStill DEF Claim, runs
<1>3. CASE Claimable(cfg)
  <2>1. /\ run' = [run EXCEPT ![nextRun] = new]
        /\ nextRun' = nextRun + 1 /\ nextRun \in Runs
    BY <1>3 DEF Claim, Claimable
  <2>2. ProgressOK(new) /\ new.pc = "head" /\ new.line = {nextRun}
    BY <1>1, NewProgress
  <2> HIDE DEF new
  <2>3. run'[nextRun] = new /\ Others({nextRun})
    BY <2>1, ExceptOthers
  <2>4. ASSUME NEW n \in Runs, n = nextRun PROVE Triggers(n)
    BY <1>1, <2>1, <2>2, <2>3, <2>4 DEF Triggers, Born
  <2> QED
    BY <2>1, <2>4 DEF StepKind
<1> QED
  BY <1>2, <1>3

LEMMA StopRunKind ==
  ASSUME RunInv, NEW c \in Clients, StopRun(c) PROVE StepKind
<1>1. PICK r \in Runs : run' = [run EXCEPT ![r].cancelled = TRUE]
  BY DEF StopRun, InFlight, RunInv, IInv, RunsOK, Optional
<1>2. UNCHANGED <<nextRun, journal, proc>> /\ run \in [Runs -> RunRecord]
  BY DEF StopRun, records, RunInv, IInv, RunsOK
<1>3. \A q \in Runs : Same(q)
  <2> SUFFICES ASSUME NEW q \in Runs PROVE Same(q)
    OBVIOUS
  <2>1. run[q] \in RunRecord
    BY <1>2
  <2>2. run'[q] = run[q] \/ run'[q] = [run[q] EXCEPT !.cancelled = TRUE]
    BY <1>1, <1>2
  <2> QED
    BY <2>1, <2>2 DEF Same, RunRecord
<1> QED
  BY <1>2, <1>3 DEF StepKind, Still, Others

LEMMA CrashKind ==
  ASSUME RunInv, Crash PROVE StepKind
<1>1. \A q \in Runs : run'[q] = IF run[q].pc \in {"none", "closed"} THEN run[q]
                                ELSE [Unclaimed EXCEPT !.pc = "lost"]
  BY DEF Crash
<1>2. \A q \in Runs : proc'[q] = IF proc[q] \in LiveProc THEN "orphan" ELSE proc[q]
  BY DEF Crash
<1>3. DaemonGone
  BY <1>1, <1>2 DEF DaemonGone, Unclaimed, LiveProc, Crash, records
<1> QED
  BY <1>3 DEF StepKind

LEMMA EveryStep == RunInv /\ [Next]_vars => StepKind
<1> SUFFICES ASSUME RunInv, [Next]_vars PROVE StepKind
  OBVIOUS
<1>1. CASE UNCHANGED vars
  BY <1>1, IsStill DEF vars, runs, records
<1>2. ASSUME NEW c \in Clients, ClientStep(c) PROVE StepKind
  <2>1. CASE UNCHANGED <<run, nextRun, proc, journal>>
    BY <2>1, IsStill
  <2>2. CASE Claim(c) \/ StopRun(c)
    BY <2>2, ClaimKind, StopRunKind
  <2>3. CASE \/ Register(c) \/ Delete(c) \/ RunWorkflow(c) \/ Fire(c) \/ Query(c)
             \/ Disarm(c) \/ Truncate(c) \/ Write(c) \/ Arm(c)
             \/ FireLookup(c) \/ Skip(c) \/ Await(c)
    BY <2>1, <2>3 DEF Register, Delete, RunWorkflow, Fire, Query, Disarm, Truncate, Write,
       Arm, FireLookup, Skip, Await, vars, runs, records
  <2> QED
    BY <1>2, <2>2, <2>3 DEF ClientStep
<1>3. ASSUME NEW r \in Runs, RunStep(r) \/ Timeout(r) \/ ProcessExits(r) PROVE StepKind
  <2>1. CASE CancelStage(r) \/ Timeout(r)
    BY <2>1, StopStageKind DEF CancelStage, Timeout
  <2> QED
    BY <1>3, <2>1, LoopEndsKind, SpawnKind, StageExitedKind, StageStoppedKind,
       ResolveNestedKind, ClaimNestedKind, NestedEndedKind, ReleaseKind, RecordRunKind,
       ProcessExitsKind DEF RunStep
<1>4. CASE Load
  BY <1>4, IsStill DEF Load, runs, records
<1> QED
  BY <1>1, <1>2, <1>3, <1>4, CrashKind DEF Next

-------------------------------------------------------------------------------
(* The theorems.                                                            *)

LEMMA InitTree == Init => TreeInv
<1> SUFFICES ASSUME Init PROVE TreeInv
  OBVIOUS
<1>1. \A r \in Runs : run[r].pc = "none" /\ run[r].line = {}
  BY DEF Init, Unclaimed
<1>2. Progress
  BY <1>1 DEF Progress, ProgressOK, Executing, Over
<1> QED
  BY <1>1, <1>2 DEF Init, TreeInv, Numbered, AncestorsWait, OneBranch, ProcsOK,
     Journalled, LiveProc, Open, Executing

(* The runs that were triggered together form one chain of open runs.       *)
THEOREM RunInvariance == Spec => []RunInv
<1>1. Init => RunInv
  BY InitOK, InitTree DEF RunInv
<1>2. RunInv /\ [Next]_vars => RunInv'
  BY StepOK, EveryStep, KindKeeps DEF RunInv
<1> QED
  BY <1>1, <1>2, PTL DEF Spec

(* A run that was triggered, with all that is nested in it, has one process *)
(* at a time (execute, execStage), however deep the workflows are nested.   *)
THEOREM StagesInSequence == Spec => []StagesAreSequential
<1>1. RunInv => StagesAreSequential
  <2> SUFFICES ASSUME RunInv, NEW r \in Runs, NEW s \in Runs,
                      proc[r] \in LiveProc, proc[s] \in LiveProc,
                      run[r].line \intersect run[s].line # {}
               PROVE  r = s
    BY DEF StagesAreSequential
  <2>1. /\ run[r].pc \in {"select", "stopping"} /\ run[s].pc \in {"select", "stopping"}
        /\ Open(run[r]) /\ Open(run[s])
    BY DEF RunInv, TreeInv, ProcsOK, Open, Executing
  <2>2. r \in run[s].line \/ s \in run[r].line
    BY <2>1 DEF RunInv, TreeInv, OneBranch
  <2> QED
    BY <2>1, <2>2 DEF RunInv, TreeInv, AncestorsWait
<1> QED
  BY <1>1, RunInvariance, PTL

(* Whoever waits for the end of a run waits for the end of all that is      *)
(* nested in it, and finds its record (execute's deferred function).         *)
THEOREM ClosedRunsAreOver == Spec => []ClosedRunIsOver
<1>1. RunInv => ClosedRunIsOver
  <2> SUFFICES ASSUME RunInv, NEW r \in Runs, run[r].pc = "closed", NEW s \in Tree(r)
               PROVE  /\ proc[s] \notin LiveProc
                      /\ run[s].pc = "closed"
                      /\ \E rec \in journal : rec.run = s /\ rec.status = run[s].status
                                              /\ rec.status # ""
    BY DEF ClosedRunIsOver
  <2>1. s \in Runs /\ r \in run[s].line
    BY DEF Tree
  <2>2. run[s].pc \notin {"none", "lost"} /\ run[s].pc \in RunLabels
    BY <2>1, LineTypes, RunTypes DEF RunInv, RunRecord
  <2>3. run[s].pc = "closed"
    <3>1. s # r => ~Open(run[s])
      BY <2>1 DEF RunInv, TreeInv, AncestorsWait
    <3> QED
      BY <2>2, <3>1 DEF Open, Executing, RunLabels
  <2>4. PICK rec \in journal : rec.run = s /\ rec.status = run[s].status
    BY <2>1, <2>3 DEF RunInv, TreeInv, Journalled
  <2>5. rec.status # ""
    BY ExplainedHasVerdict DEF RunInv, TreeInv, Journalled, Verdicts
  <2> QED
    BY <2>1, <2>3, <2>4, <2>5 DEF RunInv, TreeInv, ProcsOK
<1> QED
  BY <1>1, RunInvariance, PTL

(* Where the list of stages says that a run was decided, it was.            *)
LEMMA ExplainedOnce ==
  ASSUME NEW status, NEW st \in Seq(Statuses), Explains(status, st)
  PROVE  LET n == Len(st)
             ran == CHOOSE i \in 0..n : /\ \A j \in 1..i : st[j] = "success"
                                        /\ i < n => st[i + 1] # "success"
         IN  IF ran = n THEN status = "success"
             ELSE /\ status = st[ran + 1]
                  /\ status \in {"failed", "cancelled"}
                  /\ \/ \A j \in (ran + 2)..n : st[j] = "skipped"
                     \/ \A j \in (ran + 1)..n : st[j] = "cancelled"
<1> DEFINE n == Len(st)
           P(i) == /\ \A j \in 1..i : st[j] = "success"
                   /\ i < n => st[i + 1] # "success"
           ran == CHOOSE i \in 0..n : P(i)
<1>1. n \in Nat
  BY LenProperties
<1>2. PICK i \in 0..n :
        /\ \A j \in 1..i : st[j] = "success"
        /\ IF i = n THEN status = "success"
           ELSE /\ status = st[i + 1] /\ status \in {"failed", "cancelled"}
                /\ \/ \A j \in (i + 2)..n : st[j] = "skipped"
                   \/ \A j \in (i + 1)..n : st[j] = "cancelled"
  BY DEF Explains
<1>3. P(i)
  <2>1. i < n => i # n
    BY <1>1
  <2> QED
    BY <1>2, <2>1
<1>4. ran \in 0..n /\ P(ran)
  BY <1>3
<1> HIDE DEF ran
<1>5. ran = i
  <2>1. ASSUME ran < i PROVE FALSE
    <3>1. ran < n /\ ran + 1 \in 1..i
      BY <1>1, <1>4, <2>1
    <3> QED
      BY <1>2, <1>4, <3>1
  <2>2. ASSUME i < ran PROVE FALSE
    <3>1. i < n /\ i # n /\ i + 1 \in 1..ran
      BY <1>1, <1>4, <2>2
    <3> QED
      BY <1>2, <1>4, <3>1
  <2> QED
    BY <1>1, <1>4, <2>1, <2>2
<1> QED
  BY <1>2, <1>5 DEF ran

(* Every record of a run explains itself, however its stages ended and      *)
(* whenever it was cancelled (execute, markRemaining, recordRun).           *)
THEOREM RecordsExplainThemselves == Spec => []RecordExplainsItself
<1>1. RunInv => RecordExplainsItself
  <2> SUFFICES ASSUME RunInv, NEW rec \in journal
               PROVE  LET n == Len(rec.stages)
                          ran == CHOOSE i \in 0..n :
                                   /\ \A j \in 1..i : rec.stages[j] = "success"
                                   /\ i < n => rec.stages[i + 1] # "success"
                      IN  IF ran = n THEN rec.status = "success"
                          ELSE /\ rec.status = rec.stages[ran + 1]
                               /\ rec.status \in {"failed", "cancelled"}
                               /\ \/ \A j \in (ran + 2)..n : rec.stages[j] = "skipped"
                                  \/ \A j \in (ran + 1)..n : rec.stages[j] = "cancelled"
    BY DEF RecordExplainsItself
  <2>1. rec.stages \in Seq(Statuses) /\ Explains(rec.status, rec.stages)
    BY DEF RunInv, TreeInv, Journalled
  <2> QED
    BY <2>1, ExplainedOnce
<1> QED
  BY <1>1, RunInvariance, PTL

-------------------------------------------------------------------------------
(* Definitions: with one register or delete at a time, what is acknowledged *)
(* is on disk and scheduled, through failing writes and crashes.            *)

(* The inductive invariant.                                                 *)

OneWriterAtATime == Writers <= 1 /\ IsFiniteSet(Clients)

(* What persist and armAll are for.                                         *)
OnDisk == wfdump.state = "complete" => wfdump.image = defs
Due == {k \in DOMAIN defs : Scheduled(defs, k)}

WriterPlaces == {"disarm", "truncate", "write", "arm"}

(* Where a register or delete has got to: it holds the definitions that are *)
(* in force, a file it has truncated is still empty, and what it has armed  *)
(* or disarmed stays so.                                                    *)
WriterHolds(s) ==
  /\ s.pc \in WriterPlaces /\ s.image = defs
  /\ s.pc = "write" => wfdump.state = "empty"
  /\ s.pc = "disarm" => s.op = "delete"
  /\ s.pc = "arm" => s.op = "register" /\ ~unsaved /\ OnDisk
  /\ s.pc = "arm" => /\ s.todo \subseteq DOMAIN defs
                     /\ \A k \in DOMAIN defs \ s.todo : k \in armed <=> Scheduled(defs, k)
  /\ IF s.pc = "disarm"
     THEN /\ s.key \notin DOMAIN defs /\ armed \ {s.key} \subseteq DOMAIN defs
          /\ ~unsaved => armed \ {s.key} = Due
     ELSE /\ armed \subseteq DOMAIN defs
          /\ s.op = "delete" /\ ~unsaved => armed = Due

(* Nobody is registering or deleting.                                       *)
AtRest ==
  (\A c \in Clients : ~Writing(c)) =>
    armed \subseteq DOMAIN defs /\ (~unsaved => OnDisk /\ armed = Due)

WritersThere == \A c \in Clients : client[c].pc \in WriterPlaces => Writing(c)
OneWriter == \A c, d \in Clients : Writing(c) /\ Writing(d) => c = d
Down == ~up => ~unsaved /\ \A c \in Clients : client[c] = Idle

DefinitionInv ==
  /\ IInv /\ OneWriter /\ WritersThere /\ Down
  /\ up => AtRest /\ \A c \in Clients : Writing(c) => WriterHolds(client[c])

-------------------------------------------------------------------------------
(* Clients and writers.                                                     *)

LEMMA Became ==
  ASSUME IInv, NEW c \in Clients, NEW s, Become(c, s)
  PROVE  client'[c] = s /\ \A d \in Clients \ {c} : client'[d] = client[d]
  BY DEF IInv, ClientsOK, Become

LEMMA IdleWritesNothing == Idle.op = "" /\ Idle.pc = "idle"
  BY DEF Idle

(* A writer may begin only when there is none.                              *)
LEMMA NobodyWrites ==
  ASSUME OneWriterAtATime, NEW ds, Edit(ds)
  PROVE  \A c \in Clients : ~Writing(c)
<1> DEFINE busy == {c \in Clients : Writing(c)}
<1>1. IsFiniteSet(busy)
  BY FS_Subset DEF OneWriterAtATime
<1>2. Cardinality(busy) < Writers /\ Writers \in Nat
  BY EngineBoundsAssumption DEF Edit
<1>3. Cardinality(busy) \in Nat
  BY <1>1, FS_CardinalityType
<1>4. Cardinality(busy) = 0
  BY <1>2, <1>3 DEF OneWriterAtATime
<1>5. busy = {}
  BY <1>1, <1>4, FS_EmptySet
<1> QED
  BY <1>5

(* What happens beside the definitions leaves them as they were.            *)
LEMMA Bystander ==
  ASSUME DefinitionInv, IInv', up, NEW c \in Clients, ~Writing(c), ~Writing(c)', client'[c].pc \notin WriterPlaces,
         \A d \in Clients \ {c} : client'[d] = client[d],
         UNCHANGED <<defs, armed, dump, up>>
  PROVE  DefinitionInv'
<1>1. \A d \in Clients : Writing(d)' <=> Writing(d)
  BY DEF Writing
<1>2. \A d \in Clients : Writing(d) => client'[d] = client[d]
  OBVIOUS
<1>3. OneWriter' /\ Down' /\ WritersThere'
  BY <1>1 DEF DefinitionInv, OneWriter, Down, WritersThere
<1>4. AtRest'
  BY <1>1 DEF DefinitionInv, AtRest, OnDisk, Due, dump
<1>5. ASSUME NEW d \in Clients, Writing(d)' PROVE WriterHolds(client[d])'
  BY <1>1, <1>2, <1>5 DEF DefinitionInv, WriterHolds, OnDisk, Due, dump
<1> QED
  BY <1>3, <1>4, <1>5 DEF DefinitionInv

(* The one that writes goes on, or is done.                                 *)
LEMMA WriterGoesOn ==
  ASSUME DefinitionInv, IInv', up, up', NEW c \in Clients,
         \A d \in Clients \ {c} : ~Writing(d) /\ client'[d] = client[d],
         IF Writing(c)' THEN WriterHolds(client[c])'
         ELSE /\ client'[c].pc \notin WriterPlaces
              /\ (armed \subseteq DOMAIN defs /\ (~unsaved => OnDisk /\ armed = Due))'
  PROVE  DefinitionInv'
<1>1. \A d \in Clients \ {c} : ~Writing(d)'
  BY DEF Writing
<1>2. OneWriter' /\ Down'
  BY <1>1 DEF OneWriter, Down
<1>3. WritersThere'
  BY <1>1 DEF DefinitionInv, WritersThere, Writing
<1>4. AtRest'
  BY DEF AtRest
<1>5. ASSUME NEW d \in Clients, Writing(d)' PROVE WriterHolds(client[d])'
  <2>1. d = c
    BY <1>1, <1>5
  <2> QED
    BY <1>5, <2>1
<1> QED
  BY <1>2, <1>3, <1>4, <1>5 DEF DefinitionInv

-------------------------------------------------------------------------------
(* Register and Delete: the critical section.                               *)

LEMMA RegisterKeeps ==
  ASSUME OneWriterAtATime, DefinitionInv, IInv', NEW c \in Clients, Register(c)
  PROVE  DefinitionInv'
<1>1. PICK b \in Batches :
        /\ Edit(Merged(b)) /\ defs' = Merged(b)
        /\ Become(c, [Idle EXCEPT !.op = "register", !.pc = "truncate",
                                  !.image = Merged(b)])
  BY DEF Register, Edit
<1> DEFINE s == [Idle EXCEPT !.op = "register", !.pc = "truncate", !.image = Merged(b)]
<1>2. s.op = "register" /\ s.pc = "truncate" /\ s.image = Merged(b)
  BY DEF Idle
<1>3. client'[c] = s /\ \A d \in Clients \ {c} : ~Writing(d) /\ client'[d] = client[d]
  BY <1>1, Became, NobodyWrites DEF DefinitionInv
<1> HIDE DEF s
<1>4. UNCHANGED <<armed, dump, up>> /\ up
  BY DEF Register, At
<1>5. armed \subseteq DOMAIN defs
  BY <1>1, <1>4, NobodyWrites DEF DefinitionInv, AtRest
<1>6. DOMAIN defs \subseteq DOMAIN Merged(b)
  BY DEF Merged
<1>7. Writing(c)' /\ WriterHolds(client[c])'
  BY <1>1, <1>2, <1>3, <1>4, <1>5, <1>6 DEF Writing, WriterHolds, WriterPlaces
<1> QED
  BY <1>3, <1>4, <1>7, WriterGoesOn

LEMMA DeleteKeeps ==
  ASSUME OneWriterAtATime, DefinitionInv, IInv', NEW c \in Clients, Delete(c)
  PROVE  DefinitionInv'
<1>1. PICK k \in DOMAIN defs :
        /\ Edit(Restrict(defs, DOMAIN defs \ {k}))
        /\ defs' = Restrict(defs, DOMAIN defs \ {k})
        /\ Become(c, [Idle EXCEPT !.op = "delete", !.pc = "disarm",
                                  !.image = Restrict(defs, DOMAIN defs \ {k}), !.key = k])
  BY ResolvesInside DEF Delete, Edit
<1> DEFINE left == Restrict(defs, DOMAIN defs \ {k})
           s == [Idle EXCEPT !.op = "delete", !.pc = "disarm", !.image = left, !.key = k]
<1>2. s.op = "delete" /\ s.pc = "disarm" /\ s.image = left /\ s.key = k
  BY DEF Idle
<1>3. client'[c] = s /\ \A d \in Clients \ {c} : ~Writing(d) /\ client'[d] = client[d]
  BY <1>1, Became, NobodyWrites DEF DefinitionInv
<1>4. UNCHANGED <<armed, dump, up>> /\ up
  BY DEF Delete, At
<1>5. armed \subseteq DOMAIN defs /\ (~unsaved => armed = Due)
  BY <1>1, <1>4, NobodyWrites DEF DefinitionInv, AtRest
<1>6. DOMAIN left = DOMAIN defs \ {k} /\ \A j \in DOMAIN left : left[j] = defs[j]
  BY DEF Restrict
<1> HIDE DEF left, s
<1>7. defs' = left
  BY <1>1 DEF left
<1>8. ~unsaved => armed \ {k} = Due'
  BY <1>5, <1>6, <1>7 DEF Due, Scheduled
<1>9. Writing(c)' /\ WriterHolds(client[c])'
  BY <1>2, <1>3, <1>4, <1>5, <1>6, <1>7, <1>8 DEF Writing, WriterHolds, WriterPlaces, dump
<1> QED
  BY <1>3, <1>4, <1>9, WriterGoesOn

-------------------------------------------------------------------------------
(* What follows outside of Engine.mu.                                       *)

LEMMA WriterAt ==
  ASSUME DefinitionInv, NEW c \in Clients, NEW label \in WriterPlaces, At(c, label)
  PROVE  /\ up /\ Writing(c) /\ WriterHolds(client[c]) /\ client[c] \in ClientRecord
         /\ \A d \in Clients \ {c} : ~Writing(d)
<1>1. up /\ Writing(c)
  BY DEF At, DefinitionInv, WritersThere
<1> QED
  BY <1>1 DEF DefinitionInv, OneWriter, IInv, ClientsOK

(* What a writer leaves when it returns.                                    *)
LEMMA WriterReturns ==
  ASSUME DefinitionInv, IInv', up, up', NEW c \in Clients, Return(c),
         \A d \in Clients \ {c} : ~Writing(d),
         (armed \subseteq DOMAIN defs /\ (~unsaved => OnDisk /\ armed = Due))'
  PROVE  DefinitionInv'
<1>1. client'[c] = Idle /\ \A d \in Clients \ {c} : client'[d] = client[d]
  BY Became DEF DefinitionInv, Return
<1>2. ~Writing(c)' /\ client'[c].pc \notin WriterPlaces
  BY <1>1, IdleWritesNothing DEF Writing, WriterPlaces
<1> QED
  BY <1>1, <1>2, WriterGoesOn

LEMMA DisarmKeeps ==
  ASSUME DefinitionInv, IInv', NEW c \in Clients, Disarm(c) PROVE DefinitionInv'
<1> DEFINE s == [client[c] EXCEPT !.pc = "truncate"]
<1>1. /\ up /\ Writing(c) /\ WriterHolds(client[c]) /\ client[c] \in ClientRecord
      /\ \A d \in Clients \ {c} : ~Writing(d)
      /\ client[c].pc = "disarm"
  BY WriterAt DEF Disarm, WriterPlaces, At
<1>2. /\ s.pc = "truncate" /\ s.op = client[c].op /\ s.image = client[c].image
  BY <1>1 DEF ClientRecord
<1>3. client'[c] = s /\ \A d \in Clients \ {c} : client'[d] = client[d]
  BY Became DEF DefinitionInv, Disarm
<1> HIDE DEF s
<1>4. UNCHANGED <<defs, dump, up>> /\ armed' = armed \ {client[c].key}
  BY DEF Disarm
<1>5. Writing(c)' /\ WriterHolds(client[c])'
  BY <1>1, <1>2, <1>3, <1>4 DEF Writing, WriterHolds, WriterPlaces, Due, dump
<1> QED
  BY <1>1, <1>3, <1>4, <1>5, WriterGoesOn

(* A write that fails is remembered as such.                                *)
LEMMA FailureKeeps ==
  ASSUME DefinitionInv, IInv', up, up', NEW c \in Clients, PersistFails(c),
         \A d \in Clients \ {c} : ~Writing(d), armed \subseteq DOMAIN defs,
         UNCHANGED <<defs, armed>>
  PROVE  DefinitionInv'
  BY WriterReturns DEF PersistFails

LEMMA TruncateKeeps ==
  ASSUME DefinitionInv, IInv', NEW c \in Clients, Truncate(c) PROVE DefinitionInv'
<1>1. /\ up /\ Writing(c) /\ WriterHolds(client[c]) /\ client[c] \in ClientRecord
      /\ \A d \in Clients \ {c} : ~Writing(d)
      /\ client[c].pc = "truncate"
  BY WriterAt DEF Truncate, WriterPlaces, At
<1>2. UNCHANGED <<defs, armed, up>> /\ armed \subseteq DOMAIN defs
  BY <1>1 DEF Truncate, engine, WriterHolds
<1>3. CASE PersistFails(c)
  BY <1>1, <1>2, <1>3, FailureKeeps
<1>4. CASE /\ wfdump' = [state |-> "empty", image |-> NoDefs]
           /\ Become(c, [client[c] EXCEPT !.pc = "write"])
           /\ UNCHANGED unsaved
  <2> DEFINE s == [client[c] EXCEPT !.pc = "write"]
  <2>1. s.pc = "write" /\ s.op = client[c].op /\ s.image = client[c].image
    BY <1>1 DEF ClientRecord
  <2>2. client'[c] = s /\ \A d \in Clients \ {c} : client'[d] = client[d]
    BY <1>4, Became DEF DefinitionInv
  <2> HIDE DEF s
  <2>3. Writing(c)' /\ WriterHolds(client[c])'
    BY <1>1, <1>2, <1>4, <2>1, <2>2 DEF Writing, WriterHolds, WriterPlaces, Due
  <2> QED
    BY <1>1, <1>2, <2>2, <2>3, WriterGoesOn
<1> QED
  BY <1>3, <1>4 DEF Truncate

LEMMA WriteKeeps ==
  ASSUME DefinitionInv, IInv', NEW c \in Clients, Write(c) PROVE DefinitionInv'
<1>1. /\ up /\ Writing(c) /\ WriterHolds(client[c]) /\ client[c] \in ClientRecord
      /\ \A d \in Clients \ {c} : ~Writing(d)
      /\ client[c].pc = "write"
  BY WriterAt DEF Write, WriterPlaces, At
<1>2. /\ UNCHANGED <<defs, armed, up>> /\ armed \subseteq DOMAIN defs
      /\ client[c].image = defs /\ wfdump.state = "empty"
  BY <1>1 DEF Write, engine, WriterHolds
<1>3. CASE PersistFails(c)
  BY <1>1, <1>2, <1>3, FailureKeeps
<1>4. CASE wfdump' = [state |-> "complete", image |-> client[c].image]
  <2>1. OnDisk'
    BY <1>2, <1>4 DEF OnDisk
  <2>2. CASE client[c].op = "delete" /\ Return(c) /\ UNCHANGED unsaved
    <3>1. ~unsaved => armed = Due
      BY <1>1, <2>2 DEF WriterHolds
    <3> QED
      BY <1>1, <1>2, <2>1, <2>2, <3>1, WriterReturns DEF Due
  <2>3. CASE /\ client[c].op = "register" /\ unsaved' = FALSE
             /\ Become(c, [client[c] EXCEPT !.pc = "arm", !.todo = DOMAIN client[c].image])
    <3> DEFINE s == [client[c] EXCEPT !.pc = "arm", !.todo = DOMAIN client[c].image]
    <3>1. /\ s.pc = "arm" /\ s.op = client[c].op /\ s.image = client[c].image
          /\ s.todo = DOMAIN client[c].image
      BY <1>1 DEF ClientRecord
    <3>2. client'[c] = s /\ \A d \in Clients \ {c} : client'[d] = client[d]
      BY <2>3, Became DEF DefinitionInv
    <3> HIDE DEF s
    <3>3. Writing(c)' /\ WriterHolds(client[c])'
      BY <1>2, <2>1, <2>3, <3>1, <3>2 DEF Writing, WriterHolds, WriterPlaces
    <3> QED
      BY <1>1, <1>2, <3>2, <3>3, WriterGoesOn
  <2>4. \/ client[c].op = "delete" /\ Return(c) /\ UNCHANGED unsaved
        \/ /\ client[c].op = "register" /\ unsaved' = FALSE
           /\ Become(c, [client[c] EXCEPT !.pc = "arm", !.todo = DOMAIN client[c].image])
        \/ PersistFails(c)
    BY DEF Write
  <2> QED
    BY <1>3, <2>2, <2>3, <2>4
<1>5. PersistFails(c) \/ wfdump' = [state |-> "complete", image |-> client[c].image]
  BY <1>2 DEF Write
<1> QED
  BY <1>3, <1>4, <1>5

LEMMA ArmKeeps ==
  ASSUME DefinitionInv, IInv', NEW c \in Clients, Arm(c) PROVE DefinitionInv'
<1>1. /\ up /\ Writing(c) /\ WriterHolds(client[c]) /\ client[c] \in ClientRecord
      /\ \A d \in Clients \ {c} : ~Writing(d)
      /\ client[c].pc = "arm"
  BY WriterAt DEF Arm, WriterPlaces, At
<1>2. /\ UNCHANGED <<defs, dump, up>> /\ armed \subseteq DOMAIN defs
      /\ client[c].image = defs /\ ~unsaved /\ OnDisk /\ client[c].op = "register"
      /\ client[c].todo \subseteq DOMAIN defs
      /\ \A k \in DOMAIN defs \ client[c].todo : k \in armed <=> Scheduled(defs, k)
  BY <1>1 DEF Arm, WriterHolds
<1>3. CASE client[c].todo = {} /\ Return(c) /\ UNCHANGED armed
  <2>1. armed = Due
    BY <1>2, <1>3 DEF Due
  <2> QED
    BY <1>1, <1>2, <1>3, <2>1, WriterReturns DEF Due, OnDisk, dump
<1>4. ASSUME NEW k \in client[c].todo,
             armed' = IF Scheduled(client[c].image, k) THEN armed \union {k} ELSE armed \ {k},
             Become(c, [client[c] EXCEPT !.todo = @ \ {k}])
      PROVE  DefinitionInv'
  <2> DEFINE s == [client[c] EXCEPT !.todo = @ \ {k}]
  <2>1. /\ s.pc = "arm" /\ s.op = client[c].op /\ s.image = client[c].image
        /\ s.todo = client[c].todo \ {k}
    BY <1>1 DEF ClientRecord
  <2>2. client'[c] = s /\ \A d \in Clients \ {c} : client'[d] = client[d]
    BY <1>4, Became DEF DefinitionInv
  <2> HIDE DEF s
  <2>3. k \in DOMAIN defs
    BY <1>2
  <2>4. Writing(c)' /\ WriterHolds(client[c])'
    BY <1>2, <1>4, <2>1, <2>2, <2>3 DEF Writing, WriterHolds, WriterPlaces, OnDisk, dump,
       Scheduled
  <2> QED
    BY <1>1, <1>2, <2>2, <2>4, WriterGoesOn
<1> QED
  BY <1>3, <1>4 DEF Arm

-------------------------------------------------------------------------------
(* Everything else.                                                         *)

NoWriter(s) == s.op \notin {"register", "delete"} /\ s.pc \notin WriterPlaces

(* A client that is no writer, and does not become one.                     *)
LEMMA ReaderKeeps ==
  ASSUME DefinitionInv, IInv', NEW c \in Clients,
         \/ RunWorkflow(c) \/ Fire(c) \/ StopRun(c) \/ FireLookup(c) \/ Claim(c)
         \/ Skip(c) \/ Await(c)
  PROVE  DefinitionInv'
<1>1. up /\ client[c].pc \in {"idle", "lookup", "claim", "skip", "await"}
  BY DEF RunWorkflow, Fire, StopRun, FireLookup, Claim, Skip, Await, At
<1>2. ~Writing(c) /\ client[c] \in ClientRecord
  BY <1>1 DEF DefinitionInv, WriterHolds, WriterPlaces, IInv, ClientsOK
<1>3. UNCHANGED <<defs, armed, dump, up>>
  BY DEF RunWorkflow, Fire, StopRun, FireLookup, Claim, Skip, Await, engine
<1>4. PICK s : Become(c, s) /\ NoWriter(s)
  <2>1. CASE Return(c)
    BY <2>1, IdleWritesNothing DEF Return, NoWriter, WriterPlaces
  <2>2. CASE RunWorkflow(c)
    <3>1. PICK cfg, wait : Become(c, [Idle EXCEPT !.op = "run", !.pc = "claim",
                                                  !.cfg = cfg, !.wait = wait])
      BY <2>2 DEF RunWorkflow
    <3> DEFINE s == [Idle EXCEPT !.op = "run", !.pc = "claim", !.cfg = cfg, !.wait = wait]
    <3>2. s.op = "run" /\ s.pc = "claim"
      BY DEF Idle
    <3> HIDE DEF s
    <3>3. Become(c, s)
      BY <3>1 DEF s
    <3> QED
      BY <3>2, <3>3 DEF NoWriter, WriterPlaces
  <2>3. CASE Fire(c)
    <3>1. PICK k : Become(c, [Idle EXCEPT !.op = "cron", !.pc = "lookup", !.key = k])
      BY <2>3 DEF Fire
    <3> DEFINE s == [Idle EXCEPT !.op = "cron", !.pc = "lookup", !.key = k]
    <3>2. s.op = "cron" /\ s.pc = "lookup"
      BY DEF Idle
    <3> HIDE DEF s
    <3>3. Become(c, s)
      BY <3>1 DEF s
    <3> QED
      BY <3>2, <3>3 DEF NoWriter, WriterPlaces
  <2>4. CASE StopRun(c)
    <3>1. PICK r : Become(c, [Idle EXCEPT !.op = "stop", !.pc = "await", !.run = r])
      BY <2>4 DEF StopRun
    <3> DEFINE s == [Idle EXCEPT !.op = "stop", !.pc = "await", !.run = r]
    <3>2. s.op = "stop" /\ s.pc = "await"
      BY DEF Idle
    <3> HIDE DEF s
    <3>3. Become(c, s)
      BY <3>1 DEF s
    <3> QED
      BY <3>2, <3>3 DEF NoWriter, WriterPlaces
  <2>5. ASSUME NEW cfg, Become(c, [client[c] EXCEPT !.pc = "claim", !.cfg = cfg])
        PROVE  \E s : Become(c, s) /\ NoWriter(s)
    <3> DEFINE s == [client[c] EXCEPT !.pc = "claim", !.cfg = cfg]
    <3>1. s.op = client[c].op /\ s.pc = "claim"
      BY <1>2 DEF ClientRecord
    <3> HIDE DEF s
    <3>2. Become(c, s)
      BY <2>5 DEF s
    <3> QED
      BY <1>2, <3>1, <3>2 DEF Writing, NoWriter, WriterPlaces
  <2>6. ASSUME Become(c, [client[c] EXCEPT !.pc = "skip"])
        PROVE  \E s : Become(c, s) /\ NoWriter(s)
    <3> DEFINE s == [client[c] EXCEPT !.pc = "skip"]
    <3>1. s.op = client[c].op /\ s.pc = "skip"
      BY <1>2 DEF ClientRecord
    <3> HIDE DEF s
    <3>2. Become(c, s)
      BY <2>6 DEF s
    <3> QED
      BY <1>2, <3>1, <3>2 DEF Writing, NoWriter, WriterPlaces
  <2>7. ASSUME NEW r, Become(c, [client[c] EXCEPT !.pc = "await", !.run = r])
        PROVE  \E s : Become(c, s) /\ NoWriter(s)
    <3> DEFINE s == [client[c] EXCEPT !.pc = "await", !.run = r]
    <3>1. s.op = client[c].op /\ s.pc = "await"
      BY <1>2 DEF ClientRecord
    <3> HIDE DEF s
    <3>2. Become(c, s)
      BY <2>7 DEF s
    <3> QED
      BY <1>2, <3>1, <3>2 DEF Writing, NoWriter, WriterPlaces
  <2> QED
    BY <2>1, <2>2, <2>3, <2>4, <2>5, <2>6, <2>7 DEF FireLookup, Claim, Skip, Await
<1>5. client'[c] = s /\ \A d \in Clients \ {c} : client'[d] = client[d]
  BY <1>4, Became DEF DefinitionInv
<1> QED
  BY <1>1, <1>2, <1>3, <1>4, <1>5, Bystander DEF Writing, NoWriter

LEMMA NothingChanges ==
  ASSUME DefinitionInv, IInv', UNCHANGED <<defs, armed, dump, client, up>>
  PROVE  DefinitionInv'
  BY DEF DefinitionInv, OneWriter, WritersThere, Down, AtRest, WriterHolds, Writing, OnDisk,
     Due, dump

LEMMA CrashKeeps ==
  ASSUME DefinitionInv, IInv', Crash PROVE DefinitionInv'
  BY IdleWritesNothing
     DEF Crash, DefinitionInv, OneWriter, WritersThere, Down, Writing, WriterPlaces

(* What a restart finds is what is in force.                                *)
LEMMA LoadKeeps ==
  ASSUME DefinitionInv, IInv', Load PROVE DefinitionInv'
<1>1. UNCHANGED <<dump, client>> /\ up' /\ ~up /\ defs' = wfdump.image
  BY DEF Load
<1>2. \A c \in Clients : client[c] = Idle /\ ~Writing(c) /\ ~Writing(c)'
  BY <1>1, IdleWritesNothing DEF DefinitionInv, Down, Writing
<1>3. armed' = Due' /\ OnDisk'
  BY <1>1 DEF Load, Due, OnDisk, dump
<1>4. AtRest'
  BY <1>3 DEF AtRest, Due
<1>5. OneWriter' /\ WritersThere' /\ Down'
  BY <1>1, <1>2, IdleWritesNothing DEF OneWriter, WritersThere, Down, WriterPlaces
<1> QED
  BY <1>2, <1>4, <1>5 DEF DefinitionInv

LEMMA DefinitionStep ==
  OneWriterAtATime => (DefinitionInv /\ [Next]_vars => DefinitionInv')
<1> SUFFICES ASSUME OneWriterAtATime, DefinitionInv, [Next]_vars PROVE DefinitionInv'
  OBVIOUS
<1>1. IInv'
  BY StepOK DEF DefinitionInv
<1>2. CASE UNCHANGED vars
  BY <1>1, <1>2, NothingChanges DEF vars, engine
<1>3. ASSUME NEW c \in Clients, ClientStep(c) PROVE DefinitionInv'
  <2>1. CASE Query(c)
    BY <1>2, <2>1 DEF Query
  <2>2. CASE \/ RunWorkflow(c) \/ Fire(c) \/ StopRun(c) \/ FireLookup(c) \/ Claim(c)
             \/ Skip(c) \/ Await(c)
    BY <1>1, <2>2, ReaderKeeps
  <2> QED
    BY <1>1, <1>3, <2>1, <2>2, RegisterKeeps, DeleteKeeps, DisarmKeeps, TruncateKeeps,
       WriteKeeps, ArmKeeps DEF ClientStep
<1>4. ASSUME NEW r \in Runs, RunStep(r) \/ Timeout(r) \/ ProcessExits(r)
      PROVE  DefinitionInv'
  <2>1. UNCHANGED <<engine, dump, client, up>>
    BY <1>4 DEF RunStep, LoopEnds, Spawn, StageExited, StageStopped, CancelStage, Timeout,
       StopStage, ResolveNested, ClaimNested, NestedEnded, Release, RecordRun, ProcessExits
  <2> QED
    BY <1>1, <2>1, NothingChanges DEF engine
<1> QED
  BY <1>1, <1>2, <1>3, <1>4, CrashKeeps, LoadKeeps DEF Next

-------------------------------------------------------------------------------
(* The theorem.                                                             *)

(* With one register or delete at a time, whenever none is under way and    *)
(* every write since the last register has succeeded, the dump holds the    *)
(* definitions in force and the scheduler their schedules, also after a     *)
(* crash and a restart (Register, Delete, persist, armAll, Load).           *)
THEOREM Persistence ==
  OneWriterAtATime => (Spec => []DefinitionsArePersistent)
<1> SUFFICES ASSUME OneWriterAtATime PROVE Spec => []DefinitionsArePersistent
  OBVIOUS
<1>1. Init => DefinitionInv
  BY InitOK, IdleWritesNothing
     DEF Init, DefinitionInv, OneWriter, WritersThere, Down, Writing, WriterPlaces
<1>2. DefinitionInv /\ [Next]_vars => DefinitionInv'
  BY DefinitionStep
<1>3. DefinitionInv => DefinitionsArePersistent
  BY DEF DefinitionInv, AtRest, DefinitionsArePersistent, OnDisk, Due
<1> QED
  BY <1>1, <1>2, <1>3, PTL DEF Spec

================================================================================
