-------------------------------- MODULE Metrics --------------------------------
(* The three-phase refresh of CPU and memory figures against tasks that    *)
(* exit, restart and are deleted while `ps' runs (MetricsCollector).       *)
EXTENDS Naturals, FiniteSets

CONSTANTS
  Tasks,         \* registry keys
  MaxPid,        \* bound: children; the kernel hands no PID out twice
  MaxWorkers     \* MetricsWorkers

Pids == 1..MaxPid

ASSUME MetricsAssumption == MaxPid \in Nat /\ MaxWorkers \in Nat \ {0}

VARIABLES
  entry,         \* a registry entry; usage is the child its figures are of, or 0
  lastPid,
  collector

metricsVars == <<entry, lastPid, collector>>

Unlisted == [listed |-> FALSE, pid |-> 0, online |-> FALSE, usage |-> 0]
NoSample == [pid |-> 0, online |-> FALSE, usage |-> 0]
Resting == [pc |-> "rest", targets |-> {}, started |-> {}, sampled |-> {}, written |-> {},
            sample |-> [k \in Tasks |-> NoSample]]

MetricsInit ==
  /\ entry = [k \in Tasks |-> Unlisted] /\ lastPid = 0 /\ collector = Resting

\* A launch replaces the entry by a new one.
Launch(k) ==
  /\ lastPid < MaxPid /\ lastPid' = lastPid + 1
  /\ entry' = [entry EXCEPT ![k] =
                 [listed |-> TRUE, pid |-> lastPid + 1, online |-> TRUE, usage |-> 0]]
  /\ UNCHANGED collector

\* stopProcess begins: the child is still there, the status is `stopping'.
Stopping(k) ==
  /\ entry[k].online /\ entry' = [entry EXCEPT ![k].online = FALSE]
  /\ UNCHANGED <<lastPid, collector>>

\* onProcessExit: the figures stay until the next refresh.
ChildGone(k) ==
  /\ entry[k].pid # 0 /\ entry' = [entry EXCEPT ![k].pid = 0, ![k].online = FALSE]
  /\ UNCHANGED <<lastPid, collector>>

Forgotten(k) ==
  /\ entry[k].listed /\ entry' = [entry EXCEPT ![k] = Unlisted]
  /\ UNCHANGED <<lastPid, collector>>

\* SnapshotForMetrics, under the read lock.
Snapshot ==
  LET listed == {k \in Tasks : entry[k].listed}
  IN  /\ collector.pc = "rest"
      /\ collector' = [Resting EXCEPT !.pc = "sample", !.targets = listed,
           !.sample = [k \in Tasks |-> IF k \in listed
                                       THEN [pid |-> entry[k].pid, online |-> entry[k].online,
                                             usage |-> 0]
                                       ELSE NoSample]]
      /\ UNCHANGED <<entry, lastPid>>

\* At most MaxWorkers targets are between a worker's hands.
TakeTarget(k) ==
  /\ collector.pc = "sample" /\ k \in collector.targets \ collector.started
  /\ Cardinality(collector.started \ collector.sampled) < MaxWorkers
  /\ collector' = [collector EXCEPT !.started = @ \union {k}]
  /\ UNCHANGED <<entry, lastPid>>

\* ps: figures of the child that was snapshot, nothing if it is gone.
Alive(pid) == \E k \in Tasks : entry[k].pid = pid
Sampled(k) ==
  /\ collector.pc = "sample" /\ k \in collector.started \ collector.sampled
  /\ LET s == collector.sample[k]
     IN  collector' = [collector EXCEPT !.sampled = @ \union {k},
           !.sample[k].usage = IF s.online /\ Alive(s.pid) THEN s.pid ELSE 0]
  /\ UNCHANGED <<entry, lastPid>>

\* wg.Wait is over when the last worker is.
AllSampled ==
  /\ collector.pc = "sample" /\ collector.sampled = collector.targets
  /\ collector' = [collector EXCEPT !.pc = "write"]
  /\ UNCHANGED <<entry, lastPid>>

\* StillThere, without the PID.
StillThere_listed(k) == entry[k].listed

\* UpdateMetrics looks again: another child, or none, gets no figures.
StillThere(k) == entry[k].listed /\ entry[k].pid = collector.sample[k].pid

UpdateMetrics(k) ==
  /\ collector.pc = "write" /\ k \in collector.targets \ collector.written
  /\ entry' = IF StillThere(k)
              THEN [entry EXCEPT ![k].usage =
                      IF entry[k].online THEN collector.sample[k].usage ELSE 0]
              ELSE entry
  /\ collector' = IF collector.written \union {k} = collector.targets THEN Resting
                  ELSE [collector EXCEPT !.written = @ \union {k}]
  /\ UNCHANGED lastPid

NothingListed ==
  /\ collector.pc = "write" /\ collector.targets = {} /\ collector' = Resting
  /\ UNCHANGED <<entry, lastPid>>

MetricsNext ==
  \/ \E k \in Tasks : Launch(k) \/ Stopping(k) \/ ChildGone(k) \/ Forgotten(k)
  \/ Snapshot \/ AllSampled \/ NothingListed
  \/ \E k \in Tasks : TakeTarget(k) \/ Sampled(k) \/ UpdateMetrics(k)

MetricsSpec == MetricsInit /\ [][MetricsNext]_metricsVars

(* An online task never shows the figures of another child: not of the one *)
(* it was restarted from while the refresh sampled, nor of another task's  *)
(* (Refresh, UpdateMetrics).  Of a task that is not online nothing is      *)
(* said: one whose child ends after the write keeps its last figures until *)
(* the next refresh.                                                       *)
SampleIsOfItsChild ==
  \A k \in Tasks : entry[k].online => entry[k].usage \in {0, entry[k].pid}
=============================================================================
