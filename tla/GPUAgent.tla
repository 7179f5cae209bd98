------------------------------- MODULE GPUAgent -------------------------------
(* `pm2 gpu agent': it reads powermetrics' endless output line by line and   *)
(* republishes each sample in a file, which unprivileged readers join with   *)
(* the process table and the tree of every managed task (sysmon, gpuagent).  *)
EXTENDS Integers, Sequences, FiniteSets, SequencesExt

CONSTANTS
  Pids,
  Tables,        \* process tables, parent by PID; one read mid-way may hold a cycle
  Loads,         \* sets of processes that may use the GPU in a sample
  Root,          \* a managed task's process
  StaleAfter,    \* staleAfter, in the agent's intervals
  MaxTime        \* bound: samples powermetrics takes

ASSUME AgentAssumption ==
  /\ IsFiniteSet(Pids) /\ Root \in Pids /\ Loads \subseteq SUBSET Pids
  /\ StaleAfter \in Nat /\ MaxTime \in Nat

VARIABLES
  time,          \* in intervals
  users,         \* the processes that used the GPU in each sample
  print,         \* what powermetrics has printed of the sample `time'
  agent,         \* "off", "up", "ending"
  parser,        \* sampleBlock and taskTable
  export,        \* the published file, or NoReading
  look           \* what a reader shows, until the next step

agentVars == <<time, users, print, agent, parser, export, look>>

NoReading == [sample |-> 0, at |-> 0, rows |-> {}, supported |-> FALSE]
NewParser == [gpu |-> 0, rows |-> {}, columns |-> FALSE, supported |-> FALSE]
NoLook == [reading |-> NoReading, at |-> 0, parent |-> [p \in Pids |-> 0],
           tree |-> <<>>, sum |-> 0]

AgentInit ==
  /\ time = 0 /\ users = <<>> /\ print = "nothing"
  /\ agent = "off" /\ parser = NewParser /\ export = NoReading /\ look = NoLook

\* publish: the file is replaced as a whole, or, when that fails, not at all.
Published(block, at) ==
  IF block.gpu = 0 THEN export' = export
  ELSE export' \in {export, [sample |-> block.gpu, at |-> at, rows |-> block.rows,
                             supported |-> block.supported]}

Start ==
  /\ agent = "off" /\ agent' = "up" /\ parser' = NewParser /\ print' = "nothing"
  /\ UNCHANGED <<time, users, export>>

\* A boundary, with the task table of the sample before it kept.
Boundary_keeps ==
  /\ agent = "up" /\ time < MaxTime /\ print \in {"nothing", "complete"}
  /\ time' = time + 1 /\ print' = "boundary" /\ Published(parser, time + 1)
  /\ parser' = [parser EXCEPT !.gpu = 0]
  /\ \E load \in Loads : users' = Append(users, load)
  /\ UNCHANGED agent

\* parseStream: the next boundary is what ends a sample; the columns stay.
Boundary ==
  /\ agent = "up" /\ time < MaxTime /\ print \in {"nothing", "complete"}
  /\ time' = time + 1 /\ print' = "boundary" /\ Published(parser, time + 1)
  /\ parser' = [parser EXCEPT !.gpu = 0, !.rows = {}]
  /\ \E load \in Loads : users' = Append(users, load)
  /\ UNCHANGED agent

\* sampleBlock.apply
MachineLine ==
  /\ agent = "up" /\ print = "boundary" /\ print' = "machine"
  /\ parser' = [parser EXCEPT !.gpu = time]
  /\ UNCHANGED <<time, users, agent, export>>

\* readHeader: printed before the first table, and when its shape changes.
Header(hasGPU) ==
  /\ agent = "up" /\ print = "machine" /\ print' = "table"
  /\ parser' = [parser EXCEPT !.columns = hasGPU, !.supported = @ \/ hasGPU]
  /\ UNCHANGED <<time, users, agent, export>>
SameHeader ==
  /\ agent = "up" /\ print = "machine" /\ print' = "table"
  /\ UNCHANGED <<time, users, agent, parser, export>>

\* appendRow: rows without GPU time, and aggregate rows, are dropped.
AppendRow(pid) ==
  /\ agent = "up" /\ print = "table" /\ parser.columns /\ pid \in users[time] \ parser.rows
  /\ parser' = [parser EXCEPT !.rows = @ \union {pid}]
  /\ UNCHANGED <<time, users, print, agent, export>>

\* The table is complete: whoever used the GPU has a row.
TableEnds ==
  /\ agent = "up" /\ print = "table"
  /\ parser.columns => users[time] \subseteq parser.rows
  /\ print' = "complete" /\ UNCHANGED <<time, users, agent, parser, export>>

\* powermetrics ends, at any line: what was read of its last sample is
\* published, then Run's deferred call removes the file.
StreamEnds ==
  /\ agent = "up" /\ agent' = "ending" /\ Published(parser, time)
  /\ UNCHANGED <<time, users, print, parser>>
Removed ==
  /\ agent = "ending" /\ agent' = "off" /\ export' = NoReading
  /\ UNCHANGED <<time, users, print, parser>>

\* The agent is killed: its last reading stays.
AgentDies ==
  /\ agent # "off" /\ agent' = "off"
  /\ UNCHANGED <<time, users, print, parser, export>>
Waits ==
  /\ agent = "off" /\ time < MaxTime /\ time' = time + 1 /\ users' = Append(users, {})
  /\ UNCHANGED <<print, agent, parser, export>>

-------------------------------------------------------------------------------
(* The reader.                                                                *)
Fresh(reading) == reading # NoReading /\ time - reading.at <= StaleAfter

Children(parent, pid, visited) == {p \in Pids : parent[p] = pid} \ visited

\* descendants, breadth first: the n-th visit queues the children of the n-th
\* process, if there is one.
Visit(parent, queue, n) ==
  IF n > Len(queue) THEN queue
  ELSE queue \o SetToSeq(Children(parent, queue[n], ToSet(queue)))
Descendants(parent, pid) ==
  LET Queue[n \in 0..Cardinality(Pids)] ==
        IF n = 0 THEN <<pid>> ELSE Visit(parent, Queue[n - 1], n)
  IN  Tail(Queue[Cardinality(Pids)])

\* Look: ReadGPU, the process table, mergeProcessGPU and BuildTasks.
Look ==
  \E parent \in Tables :
    LET reading == IF Fresh(export) THEN export ELSE NoReading
        tree == Descendants(parent, Root)
        counted == {i \in DOMAIN tree : tree[i] \in reading.rows}
    IN  /\ look' = [reading |-> reading, at |-> time, parent |-> parent, tree |-> tree,
                    sum |-> Cardinality(counted) + IF Root \in reading.rows THEN 1 ELSE 0]
        /\ UNCHANGED <<time, users, print, agent, parser, export>>

AgentSteps ==
  \/ Start \/ Boundary \/ MachineLine \/ SameHeader \/ TableEnds
  \/ StreamEnds \/ Removed \/ AgentDies \/ Waits
  \/ \E hasGPU \in BOOLEAN : Header(hasGPU)
  \/ \E pid \in Pids : AppendRow(pid)

AgentNext == (AgentSteps /\ look' = NoLook) \/ Look

-------------------------------------------------------------------------------
\* The root and every process below it.
Below(parent) ==
  {p \in Pids : \A S \in SUBSET Pids :
                  (Root \in S /\ \A q \in Pids : parent[q] \in S => q \in S) => p \in S}

(* A GPU reading that is shown mixes no two samples.  One published by the    *)
(* boundary that follows its sample has a row for every process that used the *)
(* GPU, or none when the table had no such column.  One published at the end  *)
(* of powermetrics' output may be of part of a sample, and readers see it     *)
(* until the file is removed: powermetrics.go:55-57 against 25-26, `once per  *)
(* completed sample block'.  A machine that cannot attribute GPU time shows   *)
(* no rows, and a task's total counts every process of its tree once,         *)
(* whatever cycles the process table holds (parseStream, taskTable, publish,  *)
(* ReadGPU, descendants, BuildTasks).                                         *)
ReadingsHold ==
  LET seen == look.reading
  IN  /\ seen # NoReading =>
           /\ seen.rows \subseteq users[seen.sample]
           /\ (seen.supported /\ seen.at > seen.sample) => seen.rows \in {{}, users[seen.sample]}
           /\ seen.at <= seen.sample + 1
           /\ ~seen.supported => seen.rows = {}
      /\ look # NoLook =>
           /\ Len(look.tree) = Cardinality(ToSet(look.tree))
           /\ ToSet(look.tree) = Below(look.parent) \ {Root}
           /\ look.sum = Cardinality(seen.rows \intersect Below(look.parent))
===============================================================================
