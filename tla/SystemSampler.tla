------------------------------ MODULE SystemSampler ------------------------------
(* The figures of the system dashboard that are differences of two readings  *)
(* of counters the kernel only adds to: CPU use and the rates of networks    *)
(* and disks, over counters that restart, devices that come and go and       *)
(* readings that fail (sysmon's Linux sampler and rate tracker).             *)
EXTENDS Integers

CONSTANTS
  Devices,       \* counter families: an interface, a disk, one direction
  CounterSpan,   \* uint64 arithmetic is modulo this
  MaxCounter,    \* bound: a counter
  MaxNow,        \* bound: time
  MaxBreaks      \* bound: migrations and devices unplugged or plugged

ASSUME SamplerAssumption ==
  /\ MaxCounter \in Nat /\ 2 <= MaxCounter /\ MaxNow \in Nat /\ MaxBreaks \in Nat
  /\ CounterSpan \in Nat /\ MaxCounter < CounterSpan

VARIABLES
  now, breaks,
  jiffies,       \* /proc/stat: all of them, and those idle or waiting for I/O
  bytes,         \* /proc/net/dev and /proc/diskstats; -1 for a device not listed
  cpuBase,       \* previousTotal, previousIdle, warmed
  rateBase,      \* rateTracker.previous
  spent,         \* what really happened since the last reading of /proc/stat
  moved,         \* ... of each device
  shown

samplerVars == <<now, breaks, jiffies, bytes, cpuBase, rateBase, spent, moved, shown>>

Gone == -1
NoBase == [value |-> 0, at |-> -1]
NoCPU == [idle |-> 0, of |-> 0]
NoRate == [change |-> 0, over |-> 0]

SamplerInit ==
  /\ now = 0 /\ breaks = 0 /\ jiffies = [total |-> 2, idle |-> 1] /\ bytes = [d \in Devices |-> 1]
  /\ cpuBase = [total |-> 0, idle |-> 0, warmed |-> FALSE]
  /\ rateBase = [d \in Devices |-> NoBase]
  /\ spent = [total |-> 0, idle |-> 0, steady |-> TRUE]
  /\ moved = [d \in Devices |-> 0]
  /\ shown = [cpu |-> NoCPU, truth |-> NoCPU, steady |-> TRUE,
              rate |-> [d \in Devices |-> NoRate], moved |-> [d \in Devices |-> 0]]

-------------------------------------------------------------------------------
(* The machine.                                                               *)
Works ==
  /\ now < MaxNow /\ now' = now + 1
  /\ \E t \in 0..2, b \in [Devices -> 0..1] :
       \E i \in 0..t :
         /\ jiffies.total + t <= MaxCounter
         /\ jiffies' = [total |-> jiffies.total + t, idle |-> jiffies.idle + i]
         /\ spent' = [spent EXCEPT !.total = @ + t, !.idle = @ + i]
         /\ \A d \in Devices : bytes[d] + b[d] <= MaxCounter
         /\ bytes' = [d \in Devices |-> IF bytes[d] = Gone THEN Gone ELSE bytes[d] + b[d]]
         /\ moved' = [d \in Devices |-> moved[d] + IF bytes[d] = Gone THEN 0 ELSE b[d]]
  /\ UNCHANGED <<breaks, cpuBase, rateBase, shown>>

\* The container moves to another host, or the kernel takes I/O wait back.
Migrates ==
  /\ breaks < MaxBreaks /\ breaks' = breaks + 1
  /\ jiffies' \in [total : 1..MaxCounter, idle : 1..MaxCounter]
  /\ jiffies'.idle <= jiffies'.total
  /\ spent' = [spent EXCEPT !.steady = FALSE]
  /\ UNCHANGED <<now, bytes, cpuBase, rateBase, moved, shown>>

\* A device disappears; it comes back counting from zero.
Replugs(d) ==
  /\ breaks < MaxBreaks /\ breaks' = breaks + 1
  /\ bytes' = [bytes EXCEPT ![d] = IF @ = Gone THEN 0 ELSE Gone]
  /\ UNCHANGED <<now, jiffies, cpuBase, rateBase, spent, moved, shown>>

-------------------------------------------------------------------------------
(* The sampler.                                                               *)

NextCPUBase == [total |-> jiffies.total, idle |-> jiffies.idle, warmed |-> TRUE]

\* cpuFromDelta guards the total; the idle difference wraps.
CPU ==
  IF ~cpuBase.warmed \/ jiffies.total <= cpuBase.total THEN NoCPU
  ELSE [idle |-> (jiffies.idle - cpuBase.idle) % CounterSpan,
        of |-> jiffies.total - cpuBase.total]

\* rate
Rate(d) ==
  LET base == rateBase[d]
  IN  IF base = NoBase \/ bytes[d] < base.value \/ now <= base.at THEN NoRate
      ELSE [change |-> bytes[d] - base.value, over |-> now - base.at]

\* sample: each source that cannot be read keeps its baseline and shows zero.
Sample ==
  \E stat, devices \in BOOLEAN :
    LET listed == {d \in Devices : devices /\ bytes[d] # Gone}
    IN  /\ cpuBase' = IF stat THEN NextCPUBase ELSE cpuBase
        /\ rateBase' = [d \in Devices |->
             IF d \in listed THEN [value |-> bytes[d], at |-> now] ELSE rateBase[d]]
        /\ spent' = IF stat THEN [total |-> 0, idle |-> 0, steady |-> TRUE] ELSE spent
        /\ moved' = [d \in Devices |-> IF d \in listed THEN 0 ELSE moved[d]]
        /\ shown' = [cpu |-> IF stat THEN CPU ELSE NoCPU,
                     truth |-> IF stat /\ cpuBase.warmed /\ spent.total > 0
                               THEN [idle |-> spent.idle, of |-> spent.total] ELSE NoCPU,
                     steady |-> spent.steady,
                     rate |-> [d \in Devices |-> IF d \in listed THEN Rate(d) ELSE NoRate],
                     moved |-> [d \in Devices |-> IF d \in listed THEN moved[d] ELSE 0]]
        /\ UNCHANGED <<now, breaks, jiffies, bytes>>

SamplerNext == Works \/ Migrates \/ Sample \/ \E d \in Devices : Replugs(d)

(* The CPU figure is the machine's since the reading before it, whatever     *)
(* readings failed between, as long as neither CPU counter was taken back.   *)
(* Of one that was, nothing is said: a total below its baseline shows zero,  *)
(* but when only the idle time went back, linux.go:132 subtracts round the   *)
(* end of the integers, against linux.go:124-126, `treated the same way'.    *)
(* No device is ever shown moving more than it moved since it was last read, *)
(* through unplugging, restarts of its counter and missed readings           *)
(* (cpuFromDelta, rate, networkFrom, diskIOFrom).                            *)
SamplesHold ==
  /\ shown.steady => shown.cpu = shown.truth
  /\ \A d \in Devices : shown.rate[d].change <= shown.moved[d]
===============================================================================
