------------------------------ MODULE DaemonProofs ------------------------------
(* Theorems about the daemon beside its tasks and workflows: who owns the   *)
(* socket and answers a command (DaemonSocket), whose figures a task shows  *)
(* (Metrics), and what the HTTP port answers (WebServer), for any number of *)
(* daemons, commands, tasks, workers, requests and workflows.               *)
EXTENDS DaemonSocketProps, Metrics, WebServer, FiniteSetTheorems, SequenceTheorems, TLAPS

-------------------------------------------------------------------------------
(* The metrics collector: a sample is of the child it was taken of, and it  *)
(* reaches no other child.                                                  *)

EntryType == [listed : BOOLEAN, pid : Nat, online : BOOLEAN, usage : Nat]
SampleType == [pid : Nat, online : BOOLEAN, usage : Nat]
CollectorType ==
  [pc : {"rest", "sample", "write"}, targets : SUBSET Tasks, started : SUBSET Tasks,
   sampled : SUBSET Tasks, written : SUBSET Tasks, sample : [Tasks -> SampleType]]

MetricsTypes ==
  entry \in [Tasks -> EntryType] /\ lastPid \in Nat /\ collector \in CollectorType
Honest(s) == s.usage \in {0, s.pid}
MetricsInv ==
  /\ MetricsTypes /\ SampleIsOfItsChild
  /\ \A k \in Tasks : Honest(collector.sample[k])

LEMMA EntryAmended ==
  ASSUME MetricsInv, NEW k \in Tasks, NEW e \in EntryType,
         e.online => e.usage \in {0, e.pid},
         entry' = [entry EXCEPT ![k] = e], lastPid' \in Nat,
         collector' \in CollectorType, \A j \in Tasks : Honest(collector'.sample[j])
  PROVE  MetricsInv'
<1>1. entry' \in [Tasks -> EntryType] /\ \A j \in Tasks : entry'[j] = IF j = k THEN e ELSE entry[j]
  BY DEF MetricsInv, MetricsTypes
<1>2. SampleIsOfItsChild'
  BY <1>1 DEF MetricsInv, SampleIsOfItsChild
<1> QED
  BY <1>1, <1>2 DEF MetricsInv, MetricsTypes

LEMMA CollectorAmended ==
  ASSUME MetricsInv, NEW s \in CollectorType, \A j \in Tasks : Honest(s.sample[j]),
         collector' = s, UNCHANGED <<entry, lastPid>>
  PROVE  MetricsInv'
  BY DEF MetricsInv, MetricsTypes, SampleIsOfItsChild

LEMMA RestingType == Resting \in CollectorType /\ \A k \in Tasks : Honest(Resting.sample[k])
  BY DEF Resting, CollectorType, SampleType, NoSample, Honest

(* What happens to a task: launched, told to stop, gone, forgotten.         *)
LEMMA TaskStepKeeps ==
  ASSUME MetricsInv, NEW k \in Tasks,
         Launch(k) \/ Stopping(k) \/ ChildGone(k) \/ Forgotten(k)
  PROVE  MetricsInv'
<1>1. /\ entry \in [Tasks -> EntryType] /\ entry[k] \in EntryType /\ lastPid \in Nat
      /\ collector \in CollectorType /\ \A j \in Tasks : Honest(collector.sample[j])
  BY DEF MetricsInv, MetricsTypes
<1>2. CASE Launch(k)
  <2> DEFINE e == [listed |-> TRUE, pid |-> lastPid + 1, online |-> TRUE, usage |-> 0]
  <2>1. e \in EntryType /\ e.usage \in {0, e.pid} /\ lastPid + 1 \in Nat
    BY <1>1 DEF EntryType
  <2> HIDE DEF e
  <2>2. entry' = [entry EXCEPT ![k] = e] /\ lastPid' = lastPid + 1 /\ collector' = collector
    BY <1>2 DEF Launch, e
  <2> QED
    BY <1>1, <2>1, <2>2, EntryAmended
<1>3. CASE Stopping(k)
  <2> DEFINE e == [entry[k] EXCEPT !.online = FALSE]
  <2>1. e \in EntryType /\ ~e.online
    BY <1>1 DEF EntryType
  <2> HIDE DEF e
  <2>2. entry' = [entry EXCEPT ![k] = e] /\ UNCHANGED <<lastPid, collector>>
    BY <1>1, <1>3 DEF Stopping, e
  <2> QED
    BY <1>1, <2>1, <2>2, EntryAmended
<1>4. CASE ChildGone(k)
  <2> DEFINE e == [entry[k] EXCEPT !.pid = 0, !.online = FALSE]
  <2>1. e \in EntryType /\ ~e.online
    BY <1>1 DEF EntryType
  <2> HIDE DEF e
  <2>2. entry' = [entry EXCEPT ![k] = e] /\ UNCHANGED <<lastPid, collector>>
    BY <1>1, <1>4 DEF ChildGone, e
  <2> QED
    BY <1>1, <2>1, <2>2, EntryAmended
<1>5. CASE Forgotten(k)
  <2>1. Unlisted \in EntryType /\ Unlisted.usage = 0
    BY DEF Unlisted, EntryType
  <2>2. entry' = [entry EXCEPT ![k] = Unlisted] /\ UNCHANGED <<lastPid, collector>>
    BY <1>5 DEF Forgotten
  <2> QED
    BY <1>1, <2>1, <2>2, EntryAmended
<1> QED
  BY <1>2, <1>3, <1>4, <1>5

(* Phases one and two: the collector looks and samples, and writes nothing. *)
LEMMA SamplingKeeps ==
  ASSUME MetricsInv,
         \/ Snapshot \/ AllSampled \/ NothingListed
         \/ \E k \in Tasks : TakeTarget(k) \/ Sampled(k)
  PROVE  MetricsInv'
<1>1. /\ entry \in [Tasks -> EntryType] /\ collector \in CollectorType
      /\ collector.sample \in [Tasks -> SampleType]
      /\ \A j \in Tasks : Honest(collector.sample[j])
  BY DEF MetricsInv, MetricsTypes, CollectorType
<1>2. CASE Snapshot
  <2> DEFINE listed == {k \in Tasks : entry[k].listed}
             sample == [k \in Tasks |-> IF k \in listed
                          THEN [pid |-> entry[k].pid, online |-> entry[k].online, usage |-> 0]
                          ELSE NoSample]
             s == [Resting EXCEPT !.pc = "sample", !.targets = listed, !.sample = sample]
  <2>1. sample \in [Tasks -> SampleType] /\ \A k \in Tasks : Honest(sample[k])
    BY <1>1 DEF EntryType, SampleType, NoSample, Honest
  <2>2. listed \in SUBSET Tasks
    OBVIOUS
  <2>3. collector' = s /\ UNCHANGED <<entry, lastPid>>
    BY <1>2 DEF Snapshot
  <2> HIDE DEF listed, sample
  <2>4. s \in CollectorType /\ s.sample = sample
    BY <2>1, <2>2, RestingType DEF CollectorType
  <2> HIDE DEF s
  <2> QED
    BY <2>1, <2>3, <2>4, CollectorAmended
<1>3. ASSUME NEW k \in Tasks, TakeTarget(k) PROVE MetricsInv'
  <2> DEFINE s == [collector EXCEPT !.started = @ \union {k}]
  <2>1. s \in CollectorType /\ s.sample = collector.sample
    BY <1>1 DEF CollectorType
  <2> HIDE DEF s
  <2>2. collector' = s /\ UNCHANGED <<entry, lastPid>>
    BY <1>3 DEF TakeTarget, s
  <2> QED
    BY <1>1, <2>1, <2>2, CollectorAmended
<1>4. ASSUME NEW k \in Tasks, Sampled(k) PROVE MetricsInv'
  <2> DEFINE one == collector.sample[k]
             usage == IF one.online /\ Alive(one.pid) THEN one.pid ELSE 0
             new == [one EXCEPT !.usage = usage]
             s == [collector EXCEPT !.sampled = @ \union {k}, !.sample[k].usage = usage]
  <2>1. one \in SampleType
    BY <1>1
  <2>2. usage \in Nat /\ usage \in {0, one.pid}
    BY <2>1 DEF SampleType
  <2>3. collector' = s /\ UNCHANGED <<entry, lastPid>>
    BY <1>4 DEF Sampled
  <2> HIDE DEF usage
  <2>4. new \in SampleType /\ Honest(new)
    BY <2>1, <2>2 DEF SampleType, Honest
  <2>5. s.sample = [collector.sample EXCEPT ![k] = new] /\ s \in CollectorType
    BY <1>1, <2>4 DEF CollectorType
  <2> HIDE DEF s, new
  <2>6. \A j \in Tasks : Honest(s.sample[j])
    BY <1>1, <2>4, <2>5
  <2> QED
    BY <2>3, <2>5, <2>6, CollectorAmended
<1>5. CASE AllSampled
  <2> DEFINE s == [collector EXCEPT !.pc = "write"]
  <2>1. s \in CollectorType /\ s.sample = collector.sample
    BY <1>1 DEF CollectorType
  <2> HIDE DEF s
  <2>2. collector' = s /\ UNCHANGED <<entry, lastPid>>
    BY <1>5 DEF AllSampled, s
  <2> QED
    BY <1>1, <2>1, <2>2, CollectorAmended
<1>6. CASE NothingListed
  BY <1>6, RestingType, CollectorAmended DEF NothingListed
<1> QED
  BY <1>2, <1>3, <1>4, <1>5, <1>6

(* Phase three looks again before it writes.                                *)
LEMMA UpdateKeeps ==
  ASSUME MetricsInv, NEW k \in Tasks, UpdateMetrics(k) PROVE MetricsInv'
<1>1. /\ entry \in [Tasks -> EntryType] /\ entry[k] \in EntryType /\ lastPid \in Nat
      /\ collector \in CollectorType /\ collector.sample[k] \in SampleType
      /\ \A j \in Tasks : Honest(collector.sample[j])
  BY DEF MetricsInv, MetricsTypes, CollectorType
<1>2. collector' \in CollectorType /\ \A j \in Tasks : Honest(collector'.sample[j])
  <2> DEFINE s == [collector EXCEPT !.written = @ \union {k}]
  <2>1. s \in CollectorType /\ s.sample = collector.sample
    BY <1>1 DEF CollectorType
  <2>2. collector' = Resting \/ collector' = s
    BY DEF UpdateMetrics
  <2> HIDE DEF s
  <2> QED
    BY <1>1, <2>1, <2>2, RestingType
<1>3. lastPid' = lastPid
  BY DEF UpdateMetrics
<1>4. CASE ~StillThere(k)
  BY <1>1, <1>2, <1>3, <1>4 DEF UpdateMetrics, MetricsInv, MetricsTypes, SampleIsOfItsChild
<1>5. CASE StillThere(k)
  <2> DEFINE usage == IF entry[k].online THEN collector.sample[k].usage ELSE 0
             e == [entry[k] EXCEPT !.usage = usage]
  <2>1. usage \in Nat /\ usage \in {0, entry[k].pid}
    BY <1>1, <1>5 DEF StillThere, Honest, EntryType, SampleType
  <2>2. entry' = [entry EXCEPT ![k] = e]
    BY <1>1, <1>5 DEF UpdateMetrics
  <2> HIDE DEF usage
  <2>3. e \in EntryType /\ e.usage \in {0, e.pid}
    BY <1>1, <2>1 DEF EntryType
  <2> HIDE DEF e
  <2> QED
    BY <1>1, <1>2, <1>3, <2>2, <2>3, EntryAmended
<1> QED
  BY <1>4, <1>5

(* However the refresh overlaps with launches, exits and deletions, no task *)
(* that is online shows the figures of another child (Refresh,              *)
(* UpdateMetrics).                                                          *)
THEOREM SamplesAreOfTheirChild == MetricsSpec => []SampleIsOfItsChild
<1>1. MetricsInit => MetricsInv
  BY RestingType DEF MetricsInit, MetricsInv, MetricsTypes, SampleIsOfItsChild, Unlisted,
     EntryType
<1>2. MetricsInv /\ [MetricsNext]_metricsVars => MetricsInv'
  <2> SUFFICES ASSUME MetricsInv, [MetricsNext]_metricsVars PROVE MetricsInv'
    OBVIOUS
  <2>1. CASE UNCHANGED metricsVars
    BY <2>1 DEF metricsVars, MetricsInv, MetricsTypes, SampleIsOfItsChild
  <2> QED
    BY <2>1, TaskStepKeeps, SamplingKeeps, UpdateKeeps DEF MetricsNext
<1>3. MetricsInv => SampleIsOfItsChild
  BY DEF MetricsInv
<1> QED
  BY <1>1, <1>2, <1>3, PTL DEF MetricsSpec

-------------------------------------------------------------------------------
(* The socket: a daemon that is gone stays gone, one that answers goes on   *)
(* to answer until it is gone, one that has been too slow for a probe is    *)
(* not prompt again, and each process number is used once.                  *)

DaemonPlaces == {"none", "stat", "probe", "ping", "remove", "listen", "boot", "serve",
                 "slow", "dying", "gone"}
Fading == {"slow", "dying", "gone"}
DaemonType == [pc : DaemonPlaces, to : Daemons \union {0}, seen : SUBSET Daemons]
CliPlaces == {"idle", "dial", "await", "handled", "marker", "unmark", "spawn", "wait", "done"}
CliType == [pc : CliPlaces, kind : Kinds \union {"none"}, to : Daemons \union {0},
            retried : BOOLEAN]

SockTypes ==
  /\ path \in Daemons \union {0} /\ 0 \notin Daemons
  /\ daemon \in [Daemons -> DaemonType] /\ cli \in [Commands -> CliType]
  /\ executed \in [Commands -> SUBSET Daemons]
  /\ \E n \in Nat : Born = 1..n

(* What a starting daemon has seen answer when it probed the socket: the    *)
(* one it pings, and no prompt daemon when it gives up.                     *)
ProbeHolds(d) ==
  /\ d.pc = "ping" => \A p \in d.seen : p = d.to /\ daemon[p].pc \in Fading \union {"serve"}
  /\ d.pc = "remove" => \A p \in d.seen : daemon[p].pc \in Fading

(* How far a command has got: nobody has carried it out before its first    *)
(* request was taken, and when the connection broke, or the request is sent *)
(* again, whoever did is gone.                                              *)
CommandHolds(x, done) ==
  /\ \A d \in done : d = x.to \/ Gone(d)
  /\ x.pc \in {"idle", "dial", "await"} /\ ~x.retried => done = {}
  /\ ~x.retried => done \subseteq {x.to}
  /\ x.pc \in {"marker", "unmark", "spawn", "wait", "dial"} => \A d \in done : Gone(d)
  /\ x.pc \in {"dial", "await"} => \E e : done \subseteq {e}
  /\ \E e : done \subseteq {e, x.to}
  /\ x.retried => x.kind = "send" /\ x.pc \in {"dial", "await", "handled", "done"}
  /\ x.pc \in {"marker", "wait"} => x.kind = "send"
  /\ x.pc = "unmark" => x.kind = "start"
  /\ x.pc = "spawn" => x.kind \in {"send", "start"}

SockInv ==
  /\ SockTypes /\ \A d \in Daemons : ProbeHolds(daemon[d])
  /\ \A c \in Commands : CommandHolds(cli[c], executed[c])

(* What no step undoes.                                                     *)
LivesOn ==
  \A d \in Daemons :
    /\ daemon[d].pc = "gone" => daemon'[d].pc = "gone"
    /\ daemon[d].pc = "serve" => daemon'[d].pc \in Fading \union {"serve"}
    /\ daemon[d].pc \in Fading => daemon'[d].pc \in Fading

LEMMA GoneIs ==
  ASSUME SockTypes, NEW d
  PROVE  Gone(d) <=> (d \in Daemons => daemon[d].pc = "gone")
  BY DEF Gone

LEMMA GoneForGood ==
  ASSUME SockTypes, SockTypes', LivesOn, NEW d \in Daemons \union {0}
  PROVE  Gone(d) => Gone(d)'
<1>1. Gone(d) <=> (d \in Daemons => daemon[d].pc = "gone")
  BY GoneIs
<1>2. Gone(d)' <=> (d \in Daemons => daemon'[d].pc = "gone")
  BY GoneIs DEF Gone
<1> QED
  BY <1>1, <1>2 DEF LivesOn, SockTypes

LEMMA ProbeKeeps ==
  ASSUME SockInv, SockTypes', LivesOn, NEW e \in Daemons, daemon'[e] = daemon[e]
  PROVE  ProbeHolds(daemon[e])'
<1>1. ProbeHolds(daemon[e]) /\ daemon[e].seen \subseteq Daemons
  BY DEF SockInv, SockTypes, DaemonType
<1> QED
  BY <1>1 DEF ProbeHolds, LivesOn, Fading

LEMMA CommandKeeps ==
  ASSUME SockInv, SockTypes', LivesOn, NEW c \in Commands, cli'[c] = cli[c],
         executed'[c] = executed[c]
  PROVE  CommandHolds(cli[c], executed[c])'
<1>1. CommandHolds(cli[c], executed[c]) /\ executed[c] \subseteq Daemons
  BY DEF SockInv, SockTypes
<1>2. \A p \in Daemons : Gone(p) => Gone(p)'
  BY GoneForGood DEF SockInv
<1> QED
  BY <1>1, <1>2 DEF CommandHolds

(* A daemon moves on, maybe with the path.                                  *)
LEMMA DaemonMoves ==
  ASSUME SockInv, NEW d \in Daemons, NEW s \in DaemonType,
         daemon' = [daemon EXCEPT ![d] = s],
         daemon[d].pc \notin {"none", "gone"}, s.pc # "none",
         daemon[d].pc \in Fading \union {"serve"} => s.pc \in Fading,
         path' \in Daemons \union {0}, cli' \in [Commands -> CliType],
         UNCHANGED executed, ProbeHolds(s)'
  PROVE  /\ SockTypes' /\ LivesOn
         /\ \A e \in Daemons : ProbeHolds(daemon[e])'
         /\ cli' = cli => SockInv'
<1>1. daemon' \in [Daemons -> DaemonType] /\ \A e \in Daemons : daemon'[e] = IF e = d THEN s ELSE daemon[e]
  BY DEF SockInv, SockTypes
<1>2. Born' = Born
  BY <1>1 DEF Born
<1>3. SockTypes'
  BY <1>1, <1>2 DEF SockInv, SockTypes
<1>4. LivesOn
  BY <1>1 DEF LivesOn
<1>5. \A e \in Daemons : ProbeHolds(daemon[e])'
  <2> SUFFICES ASSUME NEW e \in Daemons PROVE ProbeHolds(daemon[e])'
    OBVIOUS
  <2>1. CASE e = d
    <3>1. daemon'[e] = s
      BY <1>1, <2>1
    <3> QED
      BY <3>1 DEF ProbeHolds
  <2>2. CASE e # d
    BY <1>1, <1>3, <1>4, <2>2, ProbeKeeps
  <2> QED
    BY <2>1, <2>2
<1>6. cli' = cli => SockInv'
  BY <1>3, <1>4, <1>5, CommandKeeps DEF SockInv
<1> QED
  BY <1>3, <1>4, <1>5, <1>6

(* Most places have seen nobody.                                            *)
LEMMA PlainDaemon ==
  ASSUME NEW pc \in DaemonPlaces
  PROVE  LET s == [Unborn EXCEPT !.pc = pc]
         IN  s \in DaemonType /\ s.pc = pc /\ ProbeHolds(s)'
  BY DEF Unborn, DaemonType, ProbeHolds

LEMMA DaemonGoesTo ==
  ASSUME SockInv, NEW d \in Daemons, NEW pc \in DaemonPlaces, DaemonAt(d, pc),
         daemon[d].pc \notin {"none", "gone"}, pc # "none",
         daemon[d].pc \in Fading \union {"serve"} => pc \in Fading,
         path' \in Daemons \union {0}, UNCHANGED <<cli, executed>>
  PROVE  SockInv'
<1> DEFINE s == [Unborn EXCEPT !.pc = pc]
<1>1. s \in DaemonType /\ s.pc = pc /\ ProbeHolds(s)'
  BY PlainDaemon
<1>2. daemon' = [daemon EXCEPT ![d] = s] /\ cli \in [Commands -> CliType]
  BY DEF DaemonAt, SockInv, SockTypes
<1> HIDE DEF s
<1> QED
  BY <1>1, <1>2, DaemonMoves

LEMMA DaemonStepKeeps ==
  ASSUME SockInv, NEW d \in Daemons, DaemonStep(d) \/ CrashDaemon(d) PROVE SockInv'
<1>1. path \in Daemons \union {0} /\ 0 \notin Daemons /\ daemon \in [Daemons -> DaemonType]
      /\ daemon[d] \in DaemonType /\ cli \in [Commands -> CliType] /\ SockTypes
  BY DEF SockInv, SockTypes
<1>2. CASE Stat(d)
  BY <1>1, <1>2, DaemonGoesTo DEF Stat, DaemonPlaces, Fading
<1>3. CASE Probe(d)
  <2>1. {p \in {path} : Answers(p)} \subseteq Daemons
    BY <1>1 DEF Answers
  <2>2. PICK s \in DaemonType :
          /\ s.pc = IF Gone(path) THEN "remove" ELSE "ping"
          /\ s.to = path /\ s.seen = {p \in {path} : Answers(p)}
          /\ daemon' = [daemon EXCEPT ![d] = s]
    <3> DEFINE s == [daemon[d] EXCEPT !.pc = IF Gone(path) THEN "remove" ELSE "ping",
                                      !.to = path, !.seen = {p \in {path} : Answers(p)}]
    <3>1. /\ s \in DaemonType /\ s.pc = IF Gone(path) THEN "remove" ELSE "ping"
          /\ s.to = path /\ s.seen = {p \in {path} : Answers(p)}
      BY <1>1, <2>1 DEF DaemonType, DaemonPlaces
    <3>2. daemon' = [daemon EXCEPT ![d] = s]
      BY <1>1, <1>3 DEF Probe
    <3> QED
      BY <3>1, <3>2
  <2>3. UNCHANGED <<path, cli, executed>>
    BY <1>3 DEF Probe
  <2>4. \A p : p # d => daemon'[p] = daemon[p]
    BY <1>1, <2>2
  <2>5. ASSUME NEW p \in s.seen
        PROVE  p = s.to /\ daemon'[p].pc \in Fading \union {"serve"} /\ ~Gone(path)
    <3>1. p = path /\ Answers(p) /\ p \in Daemons
      BY <2>1, <2>2, <2>5
    <3>2. daemon[p].pc \in {"serve", "slow", "dying"} /\ p # d
      BY <1>3, <3>1 DEF Answers, Probe
    <3> QED
      BY <1>1, <2>2, <2>4, <3>1, <3>2, GoneIs DEF Fading
  <2>6. ProbeHolds(s)'
    BY <2>2, <2>5 DEF ProbeHolds
  <2>7. daemon[d].pc = "probe" /\ s.pc # "none"
    BY <1>3, <2>2 DEF Probe
  <2> QED
    BY <1>1, <2>2, <2>3, <2>6, <2>7, DaemonMoves DEF Fading
<1>4. CASE Ping(d)
  <2>1. CASE DaemonAt(d, "gone")
    BY <1>1, <1>4, <2>1, DaemonGoesTo DEF Ping, DaemonPlaces, Fading
  <2>2. CASE Unanswered(daemon[d].to)
             /\ daemon' = [daemon EXCEPT ![d].pc = "remove", ![d].to = 0]
    <3>1. PICK s \in DaemonType : /\ s.pc = "remove" /\ s.seen = daemon[d].seen
                                  /\ daemon' = [daemon EXCEPT ![d] = s]
      <4> DEFINE s == [daemon[d] EXCEPT !.pc = "remove", !.to = 0]
      <4>1. s \in DaemonType /\ s.pc = "remove" /\ s.seen = daemon[d].seen
        BY <1>1 DEF DaemonType, DaemonPlaces
      <4>2. daemon' = [daemon EXCEPT ![d] = s]
        BY <1>1, <2>2
      <4> QED
        BY <4>1, <4>2
    <3>2. UNCHANGED <<path, cli, executed>>
      BY <1>4 DEF Ping
    <3>3. daemon[d].pc = "ping" /\ ProbeHolds(daemon[d])
      BY <1>4 DEF Ping, SockInv
    <3>4. ASSUME NEW p \in daemon[d].seen PROVE daemon'[p].pc \in Fading
      <4>1. p \in Daemons /\ p = daemon[d].to
        BY <1>1, <3>3 DEF ProbeHolds, DaemonType
      <4>2. daemon[p].pc \in Fading
        BY <2>2, <4>1 DEF Unanswered, Fading
      <4>3. daemon'[p] = daemon[p]
        BY <1>1, <3>1, <3>3, <4>1, <4>2 DEF Fading
      <4> QED
        BY <4>2, <4>3
    <3>5. ProbeHolds(s)'
      BY <3>1, <3>4 DEF ProbeHolds
    <3> QED
      BY <1>1, <3>1, <3>2, <3>3, <3>5, DaemonMoves DEF Fading
  <2> QED
    BY <1>4, <2>1, <2>2 DEF Ping
<1>5. CASE RemoveSocket(d)
  BY <1>1, <1>5, DaemonGoesTo DEF RemoveSocket, DaemonPlaces, Fading
<1>6. CASE BindSocket(d)
  BY <1>1, <1>6, DaemonGoesTo DEF BindSocket, DaemonPlaces, Fading
<1>7. CASE BootDaemon(d)
  BY <1>1, <1>7, DaemonGoesTo DEF BootDaemon, DaemonPlaces, Fading
<1>8. CASE ExitDaemon(d)
  BY <1>1, <1>8, DaemonGoesTo DEF ExitDaemon, DaemonPlaces, Fading
<1>9. CASE CrashDaemon(d)
  BY <1>1, <1>9, DaemonGoesTo DEF CrashDaemon, DaemonPlaces, Fading
<1>10. CASE Stall(d)
  BY <1>1, <1>10, DaemonGoesTo DEF Stall, DaemonPlaces, Fading
<1> QED
  BY <1>2, <1>3, <1>4, <1>5, <1>6, <1>7, <1>8, <1>9, <1>10 DEF DaemonStep

(* A command moves on, while the daemons stand still or move.               *)
LEMMA CommandMoves ==
  ASSUME SockInv, SockTypes', LivesOn, \A e \in Daemons : ProbeHolds(daemon[e])',
         NEW c \in Commands, NEW x \in CliType, NEW done \in SUBSET Daemons,
         cli' = [cli EXCEPT ![c] = x], executed' = [executed EXCEPT ![c] = done],
         CommandHolds(x, done)
  PROVE  SockInv'
<1>1. cli \in [Commands -> CliType] /\ executed \in [Commands -> SUBSET Daemons]
  BY DEF SockInv, SockTypes
<1>2. \A p \in Daemons : Gone(p) => Gone(p)'
  BY GoneForGood DEF SockInv
<1>3. ASSUME NEW b \in Commands PROVE CommandHolds(cli[b], executed[b])'
  <2>1. CASE b = c
    <3>1. cli'[b] = x /\ executed'[b] = done
      BY <1>1, <2>1
    <3> QED
      BY <1>2, <3>1 DEF CommandHolds
  <2>2. CASE b # c
    BY <1>1, <2>2, CommandKeeps
  <2> QED
    BY <2>1, <2>2
<1> QED
  BY <1>3 DEF SockInv

LEMMA CommandGoes ==
  ASSUME SockInv, NEW c \in Commands, NEW x \in CliType, NEW done \in SUBSET Daemons,
         cli' = [cli EXCEPT ![c] = x], executed' = [executed EXCEPT ![c] = done],
         UNCHANGED <<path, daemon>>, CommandHolds(x, done)
  PROVE  SockInv'
<1>1. SockTypes' /\ LivesOn
  BY DEF SockInv, SockTypes, Born, LivesOn
<1>2. \A e \in Daemons : ProbeHolds(daemon[e])'
  BY <1>1, ProbeKeeps
<1> QED
  BY <1>1, <1>2, CommandMoves

(* Where a command goes that nobody answers.                                *)
LEMMA NobodyThere ==
  ASSUME SockInv, NEW c \in Commands, cli[c].pc \in {"dial", "await", "handled"},
         \A d \in executed[c] : Gone(d), Unreachable(c), UNCHANGED <<path, daemon, executed>>
  PROVE  SockInv'
<1> DEFINE pc == CASE cli[c].kind = "send" /\ ~cli[c].retried -> "marker"
                   [] cli[c].kind = "start" -> "unmark"
                   [] OTHER -> "done"
<1>1. cli[c] \in CliType /\ executed[c] \in SUBSET Daemons /\ CommandHolds(cli[c], executed[c])
      /\ cli \in [Commands -> CliType] /\ executed \in [Commands -> SUBSET Daemons]
  BY DEF SockInv, SockTypes
<1>2. /\ pc \in CliPlaces /\ pc \in {"marker", "unmark", "done"}
      /\ pc = "marker" => cli[c].kind = "send" /\ ~cli[c].retried
      /\ pc = "unmark" => cli[c].kind = "start"
  BY DEF CliPlaces
<1>3. cli' = [cli EXCEPT ![c].pc = pc]
  BY DEF Unreachable, CommandAt
<1> HIDE DEF pc
<1>4. PICK x \in CliType : /\ x.pc = pc /\ x.kind = cli[c].kind /\ x.to = cli[c].to
                           /\ x.retried = cli[c].retried /\ cli' = [cli EXCEPT ![c] = x]
  <2> DEFINE x == [cli[c] EXCEPT !.pc = pc]
  <2>1. /\ x \in CliType /\ x.pc = pc /\ x.kind = cli[c].kind /\ x.to = cli[c].to
        /\ x.retried = cli[c].retried
    BY <1>1, <1>2 DEF CliType
  <2>2. cli' = [cli EXCEPT ![c] = x]
    BY <1>1, <1>3
  <2> QED
    BY <2>1, <2>2
<1>5. CommandHolds(x, executed[c])
  BY <1>1, <1>2, <1>4 DEF CommandHolds
<1>6. PICK done \in SUBSET Daemons : done = executed[c] /\ executed' = [executed EXCEPT ![c] = done]
  BY <1>1
<1> QED
  BY <1>4, <1>5, <1>6, CommandGoes

(* A command that moves to a place without a request being carried out.     *)
LEMMA CommandPlaced ==
  ASSUME SockInv, NEW c \in Commands, NEW pc \in CliPlaces, CommandAt(c, pc),
         UNCHANGED executed
  PROVE  \E x \in CliType : /\ x.pc = pc /\ x.kind = cli[c].kind /\ x.to = cli[c].to
                            /\ x.retried = cli[c].retried /\ cli' = [cli EXCEPT ![c] = x]
                            /\ executed' = [executed EXCEPT ![c] = executed[c]]
<1> DEFINE x == [cli[c] EXCEPT !.pc = pc]
<1>1. cli[c] \in CliType /\ cli \in [Commands -> CliType] /\ executed \in [Commands -> SUBSET Daemons]
  BY DEF SockInv, SockTypes
<1>2. /\ x \in CliType /\ x.pc = pc /\ x.kind = cli[c].kind /\ x.to = cli[c].to
      /\ x.retried = cli[c].retried
  BY <1>1 DEF CliType
<1>3. cli' = [cli EXCEPT ![c] = x]
  BY <1>1 DEF CommandAt
<1>4. executed' = [executed EXCEPT ![c] = executed[c]]
  BY <1>1
<1> QED
  BY <1>2, <1>3, <1>4

LEMMA BeginKeeps ==
  ASSUME SockInv, NEW c \in Commands, Begin(c) PROVE SockInv'
<1>1. cli[c] \in CliType /\ executed[c] \in SUBSET Daemons /\ CommandHolds(cli[c], executed[c])
      /\ cli \in [Commands -> CliType] /\ executed \in [Commands -> SUBSET Daemons]
  BY DEF SockInv, SockTypes
<1>2. executed[c] = {} /\ executed' = [executed EXCEPT ![c] = {}]
  BY <1>1 DEF Begin, CommandHolds
<1>3. PICK kind \in Kinds : cli' = [cli EXCEPT ![c] = [Idle EXCEPT !.pc = "dial", !.kind = kind]]
  BY DEF Begin
<1> DEFINE x == [Idle EXCEPT !.pc = "dial", !.kind = kind]
<1>4. x \in CliType /\ x.pc = "dial" /\ ~x.retried
  BY DEF Idle, CliType, CliPlaces
<1>5. cli' = [cli EXCEPT ![c] = x]
  BY <1>3
<1> HIDE DEF x
<1>6. CommandHolds(x, {})
  BY <1>4 DEF CommandHolds
<1> QED
  BY <1>2, <1>4, <1>5, <1>6, CommandGoes DEF Begin

LEMMA DialKeeps ==
  ASSUME SockInv, NEW c \in Commands, Dial(c) PROVE SockInv'
<1>1. cli[c] \in CliType /\ executed[c] \in SUBSET Daemons /\ CommandHolds(cli[c], executed[c])
      /\ cli \in [Commands -> CliType] /\ executed \in [Commands -> SUBSET Daemons]
      /\ path \in Daemons \union {0} /\ SockTypes
  BY DEF SockInv, SockTypes
<1>2. cli[c].pc = "dial" /\ \A d \in executed[c] : Gone(d)
  BY <1>1 DEF Dial, CommandHolds
<1>3. CASE Gone(path)
  BY <1>2, <1>3, NobodyThere DEF Dial
<1>4. CASE ~Gone(path)
  <2>1. PICK x \in CliType : /\ x.pc = "await" /\ x.kind = cli[c].kind
                             /\ x.retried = cli[c].retried /\ cli' = [cli EXCEPT ![c] = x]
    <3> DEFINE x == [cli[c] EXCEPT !.pc = "await", !.to = path]
    <3>1. x \in CliType /\ x.pc = "await" /\ x.kind = cli[c].kind /\ x.retried = cli[c].retried
      BY <1>1 DEF CliType, CliPlaces
    <3>2. cli' = [cli EXCEPT ![c] = x]
      BY <1>1, <1>4 DEF Dial
    <3> QED
      BY <3>1, <3>2
  <2>2. CommandHolds(x, executed[c])
    BY <1>1, <1>2, <2>1 DEF CommandHolds
  <2>3. PICK done \in SUBSET Daemons : done = executed[c] /\ executed' = [executed EXCEPT ![c] = done]
    BY <1>1 DEF Dial
  <2> QED
    BY <2>1, <2>2, <2>3, CommandGoes DEF Dial
<1> QED
  BY <1>3, <1>4

LEMMA HandleKeeps ==
  ASSUME SockInv, NEW c \in Commands, Handle(c) PROVE SockInv'
<1>1. cli[c] \in CliType /\ executed[c] \in SUBSET Daemons /\ CommandHolds(cli[c], executed[c])
      /\ cli \in [Commands -> CliType] /\ executed \in [Commands -> SUBSET Daemons]
      /\ cli[c].to \in Daemons \union {0}
  BY DEF SockInv, SockTypes, CliType
<1>2. PICK x \in CliType : /\ x.pc = "handled" /\ x.kind = cli[c].kind /\ x.to = cli[c].to
                           /\ x.retried = cli[c].retried /\ cli' = [cli EXCEPT ![c] = x]
  <2> DEFINE x == [cli[c] EXCEPT !.pc = "handled"]
  <2>1. /\ x \in CliType /\ x.pc = "handled" /\ x.kind = cli[c].kind /\ x.to = cli[c].to
        /\ x.retried = cli[c].retried
    BY <1>1 DEF CliType, CliPlaces
  <2>2. cli' = [cli EXCEPT ![c] = x]
    BY <1>1 DEF Handle, CommandAt
  <2> QED
    BY <2>1, <2>2
<1>3. PICK done \in SUBSET Daemons : /\ executed' = [executed EXCEPT ![c] = done]
                                     /\ done \subseteq executed[c] \union {cli[c].to}
  <2>1. CASE cli[c].kind = "start"
    BY <1>1, <2>1 DEF Handle
  <2>2. CASE cli[c].kind # "start"
    <3>1. cli[c].to \in Daemons
      BY <1>1 DEF Handle, Answers
    <3> QED
      BY <1>1, <2>2, <3>1 DEF Handle
  <2> QED
    BY <2>1, <2>2
<1>4. cli[c].pc = "await"
  BY DEF Handle
<1>5. CommandHolds(x, done)
  BY <1>1, <1>2, <1>3, <1>4 DEF CommandHolds
<1> QED
  BY <1>2, <1>3, <1>5, CommandGoes DEF Handle

LEMMA ReplyKeeps ==
  ASSUME SockInv, NEW c \in Commands, Reply(c) PROVE SockInv'
<1>1. /\ cli[c] \in CliType /\ executed[c] \in SUBSET Daemons /\ CommandHolds(cli[c], executed[c])
      /\ cli[c].to \in Daemons \union {0} /\ path \in Daemons \union {0}
      /\ 0 \notin Daemons /\ cli \in [Commands -> CliType] /\ SockTypes
  BY DEF SockInv, SockTypes, CliType
<1>2. cli[c].pc = "handled" /\ Answers(cli[c].to) /\ UNCHANGED <<path, executed>>
  BY DEF Reply
<1>3. PICK x \in CliType : /\ x.pc = "done" /\ x.kind = cli[c].kind /\ x.to = cli[c].to
                           /\ x.retried = cli[c].retried /\ cli' = [cli EXCEPT ![c] = x]
                           /\ executed' = [executed EXCEPT ![c] = executed[c]]
  BY <1>2, CommandPlaced DEF Reply, CliPlaces
<1>4. CommandHolds(x, executed[c])
  BY <1>1, <1>2, <1>3 DEF CommandHolds
<1>5. PICK done \in SUBSET Daemons : done = executed[c] /\ executed' = [executed EXCEPT ![c] = done]
  BY <1>1, <1>3
<1>6. CASE UNCHANGED daemon
  BY <1>2, <1>3, <1>4, <1>5, <1>6, CommandGoes
<1>7. CASE DaemonAt(cli[c].to, "dying")
  <2>1. PICK d \in Daemons : d = cli[c].to /\ daemon[d].pc \in {"serve", "slow", "dying"}
    BY <1>1, <1>2 DEF Answers
  <2>2. PICK s \in DaemonType : s.pc = "dying" /\ ProbeHolds(s)' /\ s = [Unborn EXCEPT !.pc = "dying"]
    BY PlainDaemon DEF DaemonPlaces
  <2>3. daemon' = [daemon EXCEPT ![d] = s]
    BY <1>7, <2>1, <2>2 DEF DaemonAt
  <2>4. cli' \in [Commands -> CliType] /\ path' \in Daemons \union {0}
    BY <1>1, <1>2, <1>3
  <2>5. SockTypes' /\ LivesOn /\ \A e \in Daemons : ProbeHolds(daemon[e])'
    BY <1>2, <2>1, <2>2, <2>3, <2>4, DaemonMoves DEF Fading
  <2> QED
    BY <1>3, <1>4, <1>5, <2>5, CommandMoves
<1> QED
  BY <1>6, <1>7 DEF Reply

LEMMA LostKeeps ==
  ASSUME SockInv, NEW c \in Commands, Lost(c) PROVE SockInv'
<1>1. CommandHolds(cli[c], executed[c])
  BY DEF SockInv
<1>2. \A d \in executed[c] : Gone(d)
  BY <1>1 DEF Lost, Broken, CommandHolds
<1> QED
  BY <1>2, NobodyThere DEF Lost, Broken

LEMMA MarkersKeep ==
  ASSUME SockInv, NEW c \in Commands, CheckMarker(c) \/ Unmark(c) PROVE SockInv'
<1>1. CommandHolds(cli[c], executed[c]) /\ executed[c] \in SUBSET Daemons
  BY DEF SockInv, SockTypes
<1>2. /\ cli[c].pc \in {"marker", "unmark"} /\ UNCHANGED <<path, daemon, executed>>
      /\ \E pc \in {"done", "spawn"} : CommandAt(c, pc)
  BY DEF CheckMarker, Unmark
<1>3. PICK x \in CliType : /\ x.pc \in {"done", "spawn"} /\ x.kind = cli[c].kind
                           /\ x.to = cli[c].to /\ x.retried = cli[c].retried
                           /\ cli' = [cli EXCEPT ![c] = x]
                           /\ executed' = [executed EXCEPT ![c] = executed[c]]
  <2>1. PICK pc \in {"done", "spawn"} : CommandAt(c, pc)
    BY <1>2
  <2> QED
    BY <1>2, <2>1, CommandPlaced DEF CliPlaces
<1>4. CommandHolds(x, executed[c])
  BY <1>1, <1>2, <1>3 DEF CommandHolds
<1> QED
  BY <1>1, <1>2, <1>3, <1>4, CommandGoes

LEMMA AwaitKeeps ==
  ASSUME SockInv, NEW c \in Commands, AwaitDaemon(c) PROVE SockInv'
<1>1. /\ cli[c] \in CliType /\ executed[c] \in SUBSET Daemons /\ CommandHolds(cli[c], executed[c])
      /\ cli \in [Commands -> CliType] /\ executed \in [Commands -> SUBSET Daemons]
  BY DEF SockInv, SockTypes
<1>2. PICK x \in CliType : /\ (x.pc = "dial" /\ x.retried) \/ (x.pc = "done" /\ x.retried = cli[c].retried)
                           /\ x.kind = cli[c].kind /\ x.to = cli[c].to
                           /\ cli' = [cli EXCEPT ![c] = x]
  <2>1. CASE cli' = [cli EXCEPT ![c].pc = "dial", ![c].retried = TRUE]
    <3> DEFINE x == [cli[c] EXCEPT !.pc = "dial", !.retried = TRUE]
    <3>1. x \in CliType /\ x.pc = "dial" /\ x.retried /\ x.kind = cli[c].kind /\ x.to = cli[c].to
      BY <1>1 DEF CliType, CliPlaces
    <3>2. cli' = [cli EXCEPT ![c] = x]
      BY <1>1, <2>1
    <3> QED
      BY <3>1, <3>2
  <2>2. CASE CommandAt(c, "done")
    BY <2>2, CommandPlaced DEF AwaitDaemon, CliPlaces
  <2> QED
    BY <2>1, <2>2 DEF AwaitDaemon
<1>3. cli[c].pc = "wait" /\ UNCHANGED <<path, daemon, executed>>
  BY DEF AwaitDaemon
<1>4. CommandHolds(x, executed[c])
  BY <1>1, <1>2, <1>3 DEF CommandHolds
<1>5. executed' = [executed EXCEPT ![c] = executed[c]]
  BY <1>1, <1>3
<1> QED
  BY <1>1, <1>2, <1>3, <1>4, <1>5, CommandGoes

(* A daemon that is spawned is the next one, and only now there.            *)
LEMMA SpawnKeeps ==
  ASSUME SockInv, NEW c \in Commands, Spawn(c) PROVE SockInv'
<1> DEFINE d == Cardinality(Born) + 1
           to == IF cli[c].kind = "start" THEN "done" ELSE "wait"
<1>1. /\ cli[c] \in CliType /\ executed[c] \in SUBSET Daemons /\ CommandHolds(cli[c], executed[c])
      /\ SockTypes /\ daemon \in [Daemons -> DaemonType] /\ executed \in [Commands -> SUBSET Daemons]
      /\ cli \in [Commands -> CliType]
  BY DEF SockInv, SockTypes
<1>2. PICK n \in Nat : Born = 1..n
  BY <1>1 DEF SockTypes
<1>3. Cardinality(Born) = n
  <2>1. n = 0 => Born = {} /\ Cardinality({}) = 0
    BY <1>2, FS_EmptySet
  <2>2. n # 0 => Cardinality(1..n) = n
    BY FS_Interval
  <2> QED
    BY <1>2, <2>1, <2>2
<1>4. d = n + 1 /\ d \in Daemons /\ d \notin Born
  BY <1>2, <1>3 DEF Spawn
<1>5. daemon[d].pc = "none"
  BY <1>4 DEF Born
<1>6. PICK s \in DaemonType : s.pc = "stat" /\ s = [Unborn EXCEPT !.pc = "stat"]
  BY DEF Unborn, DaemonType, DaemonPlaces
<1>7. daemon' = [daemon EXCEPT ![d] = s] /\ UNCHANGED <<path, executed>>
  BY <1>6 DEF Spawn
<1> HIDE DEF d
<1>8. PICK x \in CliType : /\ x.pc = to /\ x.kind = cli[c].kind /\ x.to = cli[c].to
                           /\ x.retried = cli[c].retried /\ cli' = [cli EXCEPT ![c] = x]
                           /\ executed' = [executed EXCEPT ![c] = executed[c]]
  <2>1. to \in CliPlaces /\ CommandAt(c, to)
    BY DEF CliPlaces, Spawn
  <2> QED
    BY <1>7, <2>1, CommandPlaced
<1>9. CommandHolds(x, executed[c])
  BY <1>1, <1>8 DEF CommandHolds, Spawn
<1>10. \A e \in Daemons : daemon'[e] = IF e = d THEN s ELSE daemon[e]
  BY <1>1, <1>7
<1>11. Born' = 1..(n + 1)
  <2>1. Born' = Born \union {d}
    BY <1>4, <1>6, <1>10 DEF Born
  <2> QED
    BY <1>2, <1>4, <2>1
<1>12. SockTypes'
  <2>1. \E m \in Nat : Born' = 1..m
    BY <1>2, <1>11
  <2>2. daemon' \in [Daemons -> DaemonType] /\ path' = path
    BY <1>1, <1>7
  <2>3. cli' \in [Commands -> CliType] /\ executed' \in [Commands -> SUBSET Daemons]
    BY <1>1, <1>8
  <2> QED
    BY <1>1, <2>1, <2>2, <2>3 DEF SockTypes
<1>13. LivesOn
  BY <1>5, <1>10 DEF LivesOn, Fading
<1>14. \A e \in Daemons : ProbeHolds(daemon[e])'
  <2> SUFFICES ASSUME NEW e \in Daemons PROVE ProbeHolds(daemon[e])'
    OBVIOUS
  <2>1. CASE e = d
    <3>1. daemon'[e].pc = "stat"
      BY <1>6, <1>10, <2>1
    <3> QED
      BY <3>1 DEF ProbeHolds
  <2>2. CASE e # d
    BY <1>10, <1>12, <1>13, <2>2, ProbeKeeps
  <2> QED
    BY <2>1, <2>2
<1>15. PICK done \in SUBSET Daemons : done = executed[c] /\ executed' = [executed EXCEPT ![c] = done]
  BY <1>1, <1>8
<1> QED
  BY <1>8, <1>9, <1>12, <1>13, <1>14, <1>15, CommandMoves

LEMMA SockInvariance == SockSpec => []SockInv
<1>1. SockInit => SockInv
  <2> SUFFICES ASSUME SockInit PROVE SockInv
    OBVIOUS
  <2>1. 0 \notin Daemons
    <3>1. \A k : 0 \notin 1..k
      OBVIOUS
    <3>2. Daemons = 1..Cardinality(Daemons)
      BY SocketAssumption
    <3> QED
      BY <3>1, <3>2
  <2>2. Born = 1..0
    BY DEF SockInit, Born, Unborn
  <2>3. Unborn \in DaemonType /\ ProbeHolds(Unborn)
    BY DEF Unborn, DaemonType, DaemonPlaces, ProbeHolds
  <2>4. Idle \in CliType /\ CommandHolds(Idle, {})
    BY DEF Idle, CliType, CliPlaces, CommandHolds
  <2>5. \E n \in Nat : Born = 1..n
    BY <2>2
  <2> QED
    BY <2>1, <2>3, <2>4, <2>5 DEF SockInit, SockInv, SockTypes
<1>2. SockInv /\ [SockNext]_sockVars => SockInv'
  <2> SUFFICES ASSUME SockInv, [SockNext]_sockVars PROVE SockInv'
    OBVIOUS
  <2>1. CASE UNCHANGED sockVars
    <3>1. SockTypes' /\ LivesOn /\ UNCHANGED <<daemon, cli, executed>>
      BY <2>1 DEF sockVars, SockInv, SockTypes, Born, LivesOn
    <3> QED
      BY <3>1, ProbeKeeps, CommandKeeps DEF SockInv
  <2>2. ASSUME NEW d \in Daemons, DaemonStep(d) \/ CrashDaemon(d) PROVE SockInv'
    BY <2>2, DaemonStepKeeps
  <2>3. ASSUME NEW c \in Commands, Begin(c) PROVE SockInv'
    BY <2>3, BeginKeeps
  <2>4. ASSUME NEW c \in Commands, CommandStep(c) PROVE SockInv'
    BY <2>4, DialKeeps, HandleKeeps, ReplyKeeps, LostKeeps, MarkersKeep, SpawnKeeps, AwaitKeeps
       DEF CommandStep
  <2> QED
    BY <2>1, <2>2, <2>3, <2>4 DEF SockNext
<1> QED
  BY <1>1, <1>2, PTL DEF SockSpec

(* A request is carried out at most twice, the second time only after the   *)
(* daemon that took it first is gone (Send and its one retry).              *)
THEOREM RequestsAnsweredOnce == SockSpec => []AnsweredOnce
<1>1. SockInv => AnsweredOnce
  <2> SUFFICES ASSUME SockInv, NEW c \in Commands
               PROVE  /\ Cardinality(executed[c]) <= 2
                      /\ \A d \in executed[c] : d = cli[c].to \/ Gone(d)
    BY DEF AnsweredOnce
  <2>1. CommandHolds(cli[c], executed[c])
    BY DEF SockInv
  <2>2. PICK e : executed[c] \subseteq {e, cli[c].to}
    BY <2>1 DEF CommandHolds
  <2> DEFINE two == {e} \union {cli[c].to}
  <2>3. IsFiniteSet(two) /\ Cardinality(two) \in Nat /\ Cardinality(two) <= 2
    <3>1. /\ IsFiniteSet({e}) /\ Cardinality({e}) = 1
          /\ IsFiniteSet({cli[c].to}) /\ Cardinality({cli[c].to}) = 1
      BY FS_Singleton
    <3>2. IsFiniteSet(two) /\ Cardinality(two) = 1 + 1 - Cardinality({e} \cap {cli[c].to})
      BY <3>1, FS_Union
    <3>3. IsFiniteSet({e} \cap {cli[c].to}) /\ Cardinality({e} \cap {cli[c].to}) \in Nat
      BY <3>1, FS_Intersection, FS_CardinalityType
    <3> QED
      BY <3>2, <3>3, FS_CardinalityType
  <2>4. executed[c] \subseteq two
    BY <2>2
  <2>5. Cardinality(executed[c]) <= Cardinality(two) /\ Cardinality(executed[c]) \in Nat
    BY <2>3, <2>4, FS_Subset, FS_CardinalityType
  <2>6. Cardinality(executed[c]) <= 2
    BY <2>3, <2>5
  <2> QED
    BY <2>1, <2>6 DEF CommandHolds
<1> QED
  BY <1>1, SockInvariance, PTL

(* Whoever takes the path from a daemon that serves and has been too slow   *)
(* for no probe looked before it served (clearSocket, daemonAnswers).       *)
THEOREM IncumbentKeeps == SockSpec => IncumbentKeepsPath
<1> DEFINE Keeps ==
      \A d \in Daemons :
        path = d /\ daemon[d].pc = "serve" /\ path' # path =>
          \E e \in Daemons : daemon[e].pc = "remove" /\ daemon'[e].pc = "listen"
                             /\ d \notin daemon[e].seen
<1>1. SockInv /\ [SockNext]_sockVars => [Keeps]_sockVars
  <2> SUFFICES ASSUME SockInv, SockNext, NEW d \in Daemons, path = d, path' # path,
                      daemon[d].pc = "serve"
               PROVE  \E e \in Daemons : daemon[e].pc = "remove" /\ daemon'[e].pc = "listen"
                                         /\ d \notin daemon[e].seen
    OBVIOUS
  <2>1. daemon \in [Daemons -> DaemonType] /\ SockTypes /\ path # 0
    BY DEF SockInv, SockTypes
  <2>2. PICK e \in Daemons : RemoveSocket(e)
    BY <2>1 DEF SockNext, DaemonStep, CommandStep, Stat, Probe, Ping, BindSocket, BootDaemon,
       Stall, ExitDaemon, CrashDaemon, Begin, Dial, Handle, Reply, Lost, CheckMarker, Unmark, Spawn,
       AwaitDaemon
  <2>3. daemon[e].pc = "remove" /\ daemon'[e].pc = "listen"
    BY <2>1, <2>2 DEF RemoveSocket, DaemonAt, Unborn
  <2>4. d \notin daemon[e].seen
    BY <2>3 DEF SockInv, ProbeHolds, Fading
  <2> QED
    BY <2>3, <2>4
<1> QED
  BY <1>1, SockInvariance, PTL DEF SockSpec, IncumbentKeepsPath

-------------------------------------------------------------------------------
(* The HTTP port: the rate limiter, and the list of runs.                   *)

RequestState ==
  [pc : {"idle", "trigger", "live", "answered"}, name : Names \union {None}, status : Nat,
   run : Nat, limit : Nat, journal : Seq(Nat), rows : Seq(Nat), since : SUBSET Nat]

WebTypes ==
  /\ clock \in Nat /\ lastRun \in Nat /\ live \in [Workflows -> Nat] /\ finished \subseteq Nat
  /\ history \in Seq(Nat) /\ request \in [Requests -> RequestState]
  /\ hits \in [Names -> Seq(Nat)] /\ triggered \in [Names -> Seq(Nat)]

EachOnce(s) == \A i, j \in DOMAIN s : s[i] = s[j] => i = j
Has(s, x) == \E i \in DOMAIN s : s[i] = x

(* A run is in one place: live, finished or in the journal.                 *)
RunsApart ==
  /\ \A w \in Workflows : live[w] <= lastRun
  /\ \A v, w \in Workflows : live[v] = live[w] /\ live[v] # 0 => v = w
  /\ Cardinality(InFlightRuns) <= MaxRuns
  /\ finished \subseteq 1..lastRun /\ finished \intersect InFlightRuns = {}
  /\ EachOnce(history)
  /\ \A i \in DOMAIN history :
       history[i] \in 1..lastRun /\ history[i] \notin finished \union InFlightRuns

(* What a request has read.                                                 *)
Served(q) ==
  /\ EachOnce(q.journal) /\ Len(q.journal) <= MaxLimit
  /\ \A i \in DOMAIN q.journal : Has(history, q.journal[i])
  /\ EachOnce(q.rows) /\ Len(q.rows) <= MaxLimit + MaxRuns
  /\ q.run <= lastRun /\ q.since \subseteq 1..lastRun
  /\ q.status = 200 => \A run \in q.since \intersect InFlightRuns : Has(q.rows, run)

RunsNamed ==
  \A r, o \in Requests : request[r].run # 0 /\ request[o].run = request[r].run => o = r

(* The limiter remembers no less than what counts against a trigger.        *)
Later(times, c) == {i \in DOMAIN times : times[i] + Window > c}
Paced(times) ==
  /\ \A i, j \in DOMAIN times : i <= j => times[i] <= times[j] /\ times[j] <= clock
  /\ \A i \in DOMAIN times : i > Burst => times[i] >= times[i - Burst] + Window
LimiterHolds ==
  \A n \in Names :
    /\ Paced(triggered[n])
    /\ \A c \in Nat : c >= clock =>
         Cardinality(Later(triggered[n], c)) <= Cardinality(Later(hits[n], c))

WebInv ==
  WebTypes /\ RunsApart /\ (\A r \in Requests : Served(request[r])) /\ RunsNamed /\ LimiterHolds

LEMMA WebNumbers ==
  Burst \in Nat /\ Burst # 0 /\ MaxRuns \in Nat /\ Window \in Nat /\ MaxLimit \in Nat /\ MaxLimit # 0
  BY WebAssumption

LEMMA UpTo ==
  ASSUME NEW S \in SUBSET Nat, NEW i \in Nat, NEW k \in Nat
  PROVE  \/ {j \in S : j <= i} \subseteq {j \in S : j <= k}
         \/ {j \in S : j <= k} \subseteq {j \in S : j <= i}
<1>1. \A j \in S : j \in Nat
  OBVIOUS
<1>2. \A a, b, c \in Nat : a <= b /\ b <= c => a <= c
  OBVIOUS
<1>3. i <= k => \A j \in S : j <= i => j <= k
  BY <1>1, <1>2
<1>4. k <= i => \A j \in S : j <= k => j <= i
  BY <1>1, <1>2
<1>5. i <= k \/ k <= i
  OBVIOUS
<1> QED
  BY <1>3, <1>4, <1>5, Zenon

(* A finite set of numbers, in order.                                       *)
LEMMA Counting ==
  ASSUME NEW S \in SUBSET Nat, IsFiniteSet(S)
  PROVE  /\ Cardinality(S) \in Nat
         /\ \A n \in 1..Cardinality(S) : \E i \in S : Cardinality({j \in S : j <= i}) = n
         /\ \A i \in S : Cardinality({j \in S : j <= i}) \in 1..Cardinality(S)
<1> DEFINE upTo(i) == {j \in S : j <= i}
           rank == [i \in S |-> Cardinality(upTo(i))]
           N == Cardinality(S)
<1>1. N \in Nat
  BY FS_CardinalityType
<1>2. \A i \in S : upTo(i) \in SUBSET S /\ IsFiniteSet(upTo(i)) /\ i \in upTo(i)
  <2>1. \A i \in S : upTo(i) \in SUBSET S /\ i \in upTo(i)
    OBVIOUS
  <2> HIDE DEF upTo
  <2> QED
    BY <2>1, FS_Subset
<1>3. \A i \in S : Cardinality(upTo(i)) \in 1..N
  <2> SUFFICES ASSUME NEW i \in S PROVE Cardinality(upTo(i)) \in 1..N
    OBVIOUS
  <2> HIDE DEF upTo
  <2>1. Cardinality(upTo(i)) \in Nat /\ Cardinality(upTo(i)) <= N
    BY <1>2, FS_CardinalityType, FS_Subset
  <2>2. Cardinality(upTo(i)) # 0
    BY <1>2, FS_EmptySet
  <2> QED
    BY <1>1, <2>1, <2>2
<1>4. \A i, j \in S : Cardinality(upTo(i)) = Cardinality(upTo(j)) => i = j
  <2> SUFFICES ASSUME NEW i \in S, NEW j \in S, Cardinality(upTo(i)) = Cardinality(upTo(j))
               PROVE  i = j
    OBVIOUS
  <2>1. upTo(i) \subseteq upTo(j) \/ upTo(j) \subseteq upTo(i)
    BY UpTo
  <2>2. upTo(i) = upTo(j)
    <3> HIDE DEF upTo
    <3> QED
      BY <1>2, <2>1, FS_Subset
  <2>3. i \in upTo(j) /\ j \in upTo(i)
    BY <1>2, <2>2
  <2> QED
    BY <2>3
<1>5. rank \in Injection(S, 1..N)
  <2> HIDE DEF upTo
  <2> QED
    BY <1>3, <1>4 DEF Injection, IsInjective
<1>6. Cardinality(1..N) = N /\ IsFiniteSet(1..N)
  BY <1>1, FS_Interval
<1>7. rank \in Surjection(S, 1..N)
  <2> HIDE DEF rank
  <2> QED
    BY <1>5, <1>6, FS_Injection
<1>8. \A n \in 1..N : \E i \in S : Cardinality(upTo(i)) = n
  <2> HIDE DEF upTo
  <2> QED
    BY <1>7 DEF Surjection
<1> QED
  BY <1>1, <1>3, <1>8

LEMMA LaterOf ==
  ASSUME NEW s \in Seq(Nat), NEW c \in Nat
  PROVE  /\ Later(s, c) \subseteq 1..Len(s) /\ Later(s, c) \in SUBSET Nat
         /\ IsFiniteSet(Later(s, c)) /\ Cardinality(Later(s, c)) \in Nat
<1>1. Len(s) \in Nat /\ DOMAIN s = 1..Len(s)
  OBVIOUS
<1>2. Later(s, c) \subseteq 1..Len(s) /\ Later(s, c) \in SUBSET Nat
  BY <1>1 DEF Later
<1>3. IsFiniteSet(1..Len(s))
  BY <1>1, FS_Interval
<1> QED
  BY <1>2, <1>3, FS_Subset, FS_CardinalityType

(* What is left of the attempts counts as much against a trigger, at any    *)
(* time to come, as they all did.                                           *)
Remembers(f, s) ==
  /\ f \in Seq(Nat) /\ Len(f) = Cardinality(Later(s, clock))
  /\ \A c \in Nat : c >= clock => Cardinality(Later(s, c)) <= Cardinality(Later(f, c))

LEMMA FreshRemembers ==
  ASSUME NEW s \in Seq(Nat), clock \in Nat
  PROVE  Remembers(Fresh(s), s)
<1>1. PICK kept : kept = Later(s, clock)
  OBVIOUS
<1>2. PICK m : m = Cardinality(kept)
  OBVIOUS
<1> DEFINE at == [n \in 1..m |-> CHOOSE i \in kept : Cardinality({j \in kept : j <= i}) = n]
<1>3. PICK f : f = Fresh(s)
  OBVIOUS
<1>4. kept \subseteq 1..Len(s) /\ kept \in SUBSET Nat /\ IsFiniteSet(kept) /\ m \in Nat
  BY <1>1, <1>2, LaterOf
<1>5. /\ \A n \in 1..m : at[n] \in kept /\ Cardinality({j \in kept : j <= at[n]}) = n
      /\ \A i \in kept : Cardinality({j \in kept : j <= i}) \in 1..m
  BY <1>2, <1>4, Counting
<1>6. f = [n \in 1..m |-> s[at[n]]]
  <2>1. f = [n \in 1..m |-> s[CHOOSE i \in kept : Cardinality({j \in kept : j <= i}) = n]]
    BY <1>1, <1>2, <1>3 DEF Fresh, Later
  <2> QED
    BY <2>1
<1>7. \A i \in kept : \E n \in 1..m : at[n] = i
  <2> SUFFICES ASSUME NEW i \in kept PROVE \E n \in 1..m : at[n] = i
    OBVIOUS
  <2>1. PICK n \in 1..m : n = Cardinality({j \in kept : j <= i})
    BY <1>5
  <2>2. at[n] \in kept /\ Cardinality({j \in kept : j <= at[n]}) = Cardinality({j \in kept : j <= i})
    <3> HIDE DEF at
    <3> QED
      BY <1>5, <2>1
  <2>3. at[n] = i
    <3> HIDE DEF at
    <3>1. PICK k \in kept : k = at[n]
      BY <2>2
    <3>2. k \in Nat /\ i \in Nat
      BY <1>4
    <3>3. /\ {j \in kept : j <= k} \in SUBSET kept /\ {j \in kept : j <= i} \in SUBSET kept
          /\ ({j \in kept : j <= k} \subseteq {j \in kept : j <= i}
              \/ {j \in kept : j <= i} \subseteq {j \in kept : j <= k})
      BY <1>4, <3>2, UpTo
    <3>4. {j \in kept : j <= k} = {j \in kept : j <= i}
      BY <1>4, <2>2, <3>1, <3>3, FS_Subset
    <3>5. k \in {j \in kept : j <= k} /\ i \in {j \in kept : j <= i}
      BY <3>2
    <3>6. k <= i /\ i <= k
      BY <3>4, <3>5
    <3> QED
      BY <3>1, <3>2, <3>6
  <2> QED
    BY <2>3
<1> HIDE DEF at
<1>8. \A n \in 1..m : at[n] \in DOMAIN s /\ s[at[n]] \in Nat
  <2>1. Len(s) \in Nat /\ DOMAIN s = 1..Len(s) /\ \A i \in DOMAIN s : s[i] \in Nat
    OBVIOUS
  <2>2. \A n \in 1..m : at[n] \in DOMAIN s
    BY <1>4, <1>5, <2>1
  <2> QED
    BY <2>1, <2>2
<1>9. f \in Seq(Nat) /\ Len(f) = m /\ DOMAIN f = 1..m
  <2>1. f \in [1..m -> Nat]
    BY <1>6, <1>8
  <2>2. f \in Seq(Nat)
    BY <1>4, <2>1, IsASeq
  <2> QED
    BY <1>4, <2>1, <2>2, LenProperties
<1>10. ASSUME NEW c \in Nat, c >= clock
       PROVE  Cardinality(Later(s, c)) <= Cardinality(Later(f, c))
  <2>1. PICK S, T : S = Later(f, c) /\ T = Later(s, c)
    OBVIOUS
  <2> DEFINE g == [n \in S |-> at[n]]
  <2>2. \A i \in T : i \in kept
    <3>1. \A i \in DOMAIN s : s[i] \in Nat
      OBVIOUS
    <3> QED
      BY <1>1, <1>10, <2>1, <3>1, WebNumbers DEF Later
  <2>3. \A n \in S : n \in 1..m /\ at[n] \in T
    <3>1. \A n \in 1..m : f[n] = s[at[n]]
      BY <1>6
    <3> QED
      BY <1>8, <1>9, <2>1, <3>1 DEF Later
  <2>4. \A i \in T : \E n \in S : g[n] = i
    <3> SUFFICES ASSUME NEW i \in T PROVE \E n \in S : g[n] = i
      OBVIOUS
    <3>1. PICK n \in 1..m : at[n] = i
      BY <1>7, <2>2
    <3>2. f[n] = s[i]
      BY <1>6, <3>1
    <3>3. n \in S
      BY <1>9, <2>1, <3>2 DEF Later
    <3> QED
      BY <3>1, <3>3
  <2>5. g \in Surjection(S, T)
    BY <2>3, <2>4 DEF Surjection
  <2>6. IsFiniteSet(S)
    BY <1>9, <2>1, LaterOf
  <2> HIDE DEF g
  <2>7. Cardinality(T) <= Cardinality(S)
    BY <2>5, <2>6, FS_Surjection
  <2> QED
    BY <2>1, <2>7
<1> QED
  BY <1>1, <1>2, <1>3, <1>9, <1>10 DEF Remembers

-------------------------------------------------------------------------------
(* The limiter.                                                             *)

LEMMA LaterAppended ==
  ASSUME NEW s \in Seq(Nat), NEW at \in Nat, NEW c \in Nat
  PROVE  Cardinality(Later(Append(s, at), c))
           = Cardinality(Later(s, c)) + (IF at + Window > c THEN 1 ELSE 0)
<1>1. PICK t : t = Append(s, at)
  OBVIOUS
<1>2. /\ t \in Seq(Nat) /\ Len(s) \in Nat /\ DOMAIN s = 1..Len(s) /\ DOMAIN t = 1..(Len(s) + 1)
      /\ t[Len(s) + 1] = at /\ \A i \in 1..Len(s) : t[i] = s[i]
  BY <1>1, AppendProperties
<1>3. /\ IsFiniteSet(Later(s, c)) /\ Later(s, c) \subseteq 1..Len(s)
      /\ Cardinality(Later(s, c)) \in Nat
  BY LaterOf
<1>4. Len(s) + 1 \notin Later(s, c)
  BY <1>2, <1>3
<1>5. CASE at + Window > c
  <2>1. Later(t, c) = Later(s, c) \union {Len(s) + 1}
    BY <1>2, <1>5 DEF Later
  <2>2. Cardinality(Later(s, c) \union {Len(s) + 1}) = Cardinality(Later(s, c)) + 1
    BY <1>3, <1>4, FS_AddElement
  <2> QED
    BY <1>1, <1>5, <2>1, <2>2
<1>6. CASE ~(at + Window > c)
  <2>1. Later(t, c) = Later(s, c)
    BY <1>2, <1>6 DEF Later
  <2> QED
    BY <1>1, <1>3, <1>6, <2>1
<1> QED
  BY <1>5, <1>6

(* A trigger that finds less than Burst attempts left may be let through.   *)
LEMMA StillPaced ==
  ASSUME NEW s \in Seq(Nat), clock \in Nat, Paced(s), Cardinality(Later(s, clock)) < Burst
  PROVE  Paced(Append(s, clock))
<1>1. PICK t : t = Append(s, clock)
  OBVIOUS
<1>2. PICK n : n = Len(s)
  OBVIOUS
<1>3. /\ n \in Nat /\ DOMAIN s = 1..n /\ DOMAIN t = 1..(n + 1) /\ t[n + 1] = clock
      /\ \A i \in 1..n : t[i] = s[i] /\ s[i] \in Nat
  BY <1>1, <1>2, AppendProperties
<1>4. \A i, j \in DOMAIN t : i <= j => t[i] <= t[j] /\ t[j] <= clock
  <2> SUFFICES ASSUME NEW i \in 1..(n + 1), NEW j \in 1..(n + 1), i <= j
               PROVE  t[i] <= t[j] /\ t[j] <= clock
    BY <1>3
  <2>1. \A k \in 1..n : s[k] <= clock
    BY <1>3 DEF Paced
  <2>2. CASE j \in 1..n
    <3>1. i \in 1..n
      BY <1>3, <2>2
    <3> QED
      BY <1>3, <2>2, <3>1 DEF Paced
  <2>3. CASE j = n + 1 /\ i \in 1..n
    BY <1>3, <2>1, <2>3
  <2>4. CASE j = n + 1 /\ i = n + 1
    BY <1>3, <2>4
  <2>5. (j \in 1..n \/ j = n + 1) /\ (i \in 1..n \/ i = n + 1)
    BY <1>3
  <2>6. (j = n + 1 /\ i = n + 1) \/ (j = n + 1 /\ i \in 1..n) \/ j \in 1..n
    BY <2>5
  <2> QED
    BY <2>2, <2>3, <2>4, <2>6
<1>5. ASSUME n + 1 > Burst, ~(clock >= s[n + 1 - Burst] + Window)
      PROVE  FALSE
  <2>1. PICK k : k = n + 1 - Burst
    OBVIOUS
  <2>2. k \in 1..n /\ n - k + 1 = Burst /\ s[k] + Window > clock /\ s[k] \in Nat
    BY <1>3, <1>5, <2>1, WebNumbers
  <2>3. \A j \in k..n : j \in 1..n /\ s[k] <= s[j] /\ s[j] \in Nat
    <3>1. \A j \in k..n : j \in 1..n /\ k <= j
      BY <1>3, <2>2
    <3>2. \A j \in 1..n : k <= j => s[k] <= s[j]
      BY <1>3, <2>2 DEF Paced
    <3> QED
      BY <1>3, <3>1, <3>2
  <2>4. \A j \in k..n : j \in Later(s, clock)
    <3> SUFFICES ASSUME NEW j \in k..n PROVE j \in Later(s, clock)
      OBVIOUS
    <3>1. j \in 1..n /\ s[k] <= s[j] /\ s[j] \in Nat
      BY <2>3
    <3>2. s[j] + Window > clock
      BY <1>3, <2>2, <3>1, WebNumbers
    <3> QED
      BY <1>3, <3>1, <3>2 DEF Later
  <2>5. Cardinality(k..n) = Burst
    <3>1. k \in Int /\ n \in Int /\ ~(k > n)
      BY <1>3, <2>2
    <3> QED
      BY <2>2, <3>1, FS_Interval
  <2>6. IsFiniteSet(Later(s, clock)) /\ Cardinality(Later(s, clock)) \in Nat
    BY LaterOf
  <2>7. Cardinality(k..n) <= Cardinality(Later(s, clock))
    BY <2>4, <2>6, FS_Subset
  <2> QED
    BY <2>5, <2>6, <2>7, WebNumbers
<1>6. \A i \in DOMAIN t : i > Burst => t[i] >= t[i - Burst] + Window
  <2> SUFFICES ASSUME NEW i \in 1..(n + 1), i > Burst PROVE t[i] >= t[i - Burst] + Window
    BY <1>3
  <2>1. i - Burst \in 1..n
    BY <1>3, WebNumbers
  <2>2. CASE i \in 1..n
    BY <1>3, <2>1, <2>2 DEF Paced
  <2>3. CASE i = n + 1
    <3>1. PICK k \in 1..n : k = i - Burst
      BY <2>1
    <3>2. t[i] = clock /\ t[k] = s[k]
      BY <1>3, <2>3
    <3>3. k = n + 1 - Burst
      BY <1>3, <2>3, <3>1, WebNumbers
    <3>4. clock >= s[k] + Window
      BY <1>5, <2>3, <3>3
    <3> QED
      BY <3>1, <3>2, <3>4
  <2> QED
    BY <1>3, <2>2, <2>3
<1> QED
  BY <1>1, <1>4, <1>6 DEF Paced

Limited(times, kept) ==
  /\ Paced(times)
  /\ \A c \in Nat : c >= clock => Cardinality(Later(times, c)) <= Cardinality(Later(kept, c))

LEMMA WebhookLimits ==
  ASSUME NEW times \in Seq(Nat), NEW old \in Seq(Nat), clock \in Nat, Limited(times, old)
  PROVE  /\ Fresh(old) \in Seq(Nat) /\ Limited(times, Fresh(old))
         /\ Len(Fresh(old)) < Burst => Limited(Append(times, clock), Append(Fresh(old), clock))
<1>1. PICK kept : kept = Fresh(old)
  OBVIOUS
<1>2. Remembers(kept, old)
  <2>1. Remembers(Fresh(old), old)
    BY FreshRemembers
  <2> QED
    BY <1>1, <2>1
<1>3. kept \in Seq(Nat) /\ Len(kept) = Cardinality(Later(old, clock))
  BY <1>2 DEF Remembers
<1>4. \A c \in Nat : /\ Cardinality(Later(times, c)) \in Nat /\ Cardinality(Later(old, c)) \in Nat
                     /\ Cardinality(Later(kept, c)) \in Nat
  BY <1>3, LaterOf
<1>5. ASSUME NEW c \in Nat, c >= clock
      PROVE  Cardinality(Later(times, c)) <= Cardinality(Later(kept, c))
  <2>1. /\ Cardinality(Later(times, c)) <= Cardinality(Later(old, c))
        /\ Cardinality(Later(old, c)) <= Cardinality(Later(kept, c))
    BY <1>2, <1>5 DEF Remembers, Limited
  <2> QED
    BY <1>4, <2>1
<1>6. Limited(times, kept)
  BY <1>5 DEF Limited
<1>7. ASSUME Len(kept) < Burst PROVE Limited(Append(times, clock), Append(kept, clock))
  <2>1. Cardinality(Later(times, clock)) < Burst
    <3>1. clock >= clock
      OBVIOUS
    <3>2. Cardinality(Later(times, clock)) <= Cardinality(Later(old, clock))
      BY <3>1 DEF Limited
    <3>3. \A a, b, c \in Nat : a <= b /\ b < c => a < c
      OBVIOUS
    <3>4. Cardinality(Later(old, clock)) < Burst
      BY <1>3, <1>7
    <3> QED
      BY <1>4, <3>2, <3>3, <3>4, WebNumbers
  <2>2. Paced(Append(times, clock))
    BY <2>1, StillPaced DEF Limited
  <2>3. ASSUME NEW c \in Nat, c >= clock
        PROVE  Cardinality(Later(Append(times, clock), c)) <= Cardinality(Later(Append(kept, clock), c))
    <3>1. PICK one \in Nat : one = IF clock + Window > c THEN 1 ELSE 0
      OBVIOUS
    <3>2. /\ Cardinality(Later(Append(times, clock), c)) = Cardinality(Later(times, c)) + one
          /\ Cardinality(Later(Append(kept, clock), c)) = Cardinality(Later(kept, c)) + one
      BY <1>3, <3>1, LaterAppended
    <3> QED
      BY <1>4, <1>5, <2>3, <3>2
  <2> QED
    BY <2>2, <2>3 DEF Limited
<1> QED
  BY <1>1, <1>3, <1>6, <1>7

-------------------------------------------------------------------------------
(* Requests and runs.                                                       *)

(* What a request relies on when it is not its turn.                        *)
Forward ==
  /\ lastRun' \in Nat /\ lastRun <= lastRun'
  /\ \A run \in 1..lastRun : run \in InFlightRuns' => run \in InFlightRuns
  /\ \A x : Has(history, x) => Has(history', x)

LEMMA StillServed ==
  ASSUME WebInv, NEW q \in RequestState, Served(q), Forward
  PROVE  Served(q)'
<1>1. /\ EachOnce(q.journal) /\ Len(q.journal) <= MaxLimit
      /\ \A i \in DOMAIN q.journal : Has(history, q.journal[i])
      /\ EachOnce(q.rows) /\ Len(q.rows) <= MaxLimit + MaxRuns
      /\ q.run <= lastRun /\ q.since \subseteq 1..lastRun
      /\ q.status = 200 => \A run \in q.since \intersect InFlightRuns : Has(q.rows, run)
  BY DEF Served
<1>2. \A i \in DOMAIN q.journal : Has(history', q.journal[i])
  BY <1>1 DEF Forward
<1>3. q.run \in Nat /\ lastRun \in Nat /\ lastRun' \in Nat /\ lastRun <= lastRun'
  BY DEF RequestState, WebInv, WebTypes, Forward
<1>4. q.run <= lastRun' /\ q.since \subseteq 1..lastRun'
  BY <1>1, <1>3
<1>5. q.status = 200 => \A run \in q.since \intersect InFlightRuns' : Has(q.rows, run)
  BY <1>1 DEF Forward
<1> QED
  BY <1>1, <1>2, <1>4, <1>5 DEF Served, EachOnce, Has

RequestsHold ==
  request \in [Requests -> RequestState] /\ (\A r \in Requests : Served(request[r])) /\ RunsNamed

LEMMA OthersMove ==
  ASSUME WebInv, Forward, UNCHANGED request
  PROVE  RequestsHold'
<1>1. \A r \in Requests : request[r] \in RequestState /\ Served(request[r])
  BY DEF WebInv, WebTypes
<1>2. \A r \in Requests : Served(request[r])'
  <2> SUFFICES ASSUME NEW r \in Requests PROVE Served(request[r])'
    OBVIOUS
  <2>1. PICK q \in RequestState : q = request[r]
    BY <1>1
  <2>2. Served(q) /\ request'[r] = q
    BY <1>1, <2>1
  <2>3. Served(q)'
    BY <2>2, StillServed
  <2> QED
    BY <2>2, <2>3
<1> QED
  BY <1>2 DEF WebInv, WebTypes, RunsNamed, RequestsHold

LEMMA RequestMoves ==
  ASSUME WebInv, Forward, NEW r \in Requests, NEW q \in RequestState,
         request' = [request EXCEPT ![r] = q], Served(q)',
         q.run # 0 => \A o \in Requests \ {r} : request[o].run # q.run
  PROVE  RequestsHold'
<1>1. /\ request \in [Requests -> RequestState]
      /\ \A o \in Requests : request[o] \in RequestState /\ Served(request[o])
      /\ \A a, o \in Requests : request[a].run # 0 /\ request[o].run = request[a].run => o = a
  BY DEF WebInv, WebTypes, RunsNamed
<1>2. /\ request' \in [Requests -> RequestState]
      /\ \A o \in Requests : request'[o] = IF o = r THEN q ELSE request[o]
  BY <1>1
<1>3. \A o \in Requests : Served(request[o])'
  <2> SUFFICES ASSUME NEW o \in Requests PROVE Served(request[o])'
    OBVIOUS
  <2>1. CASE o = r
    <3>1. request'[o] = q
      BY <1>2, <2>1
    <3> QED
      BY <3>1
  <2>2. CASE o # r
    <3>1. PICK p \in RequestState : p = request[o]
      BY <1>1
    <3>2. Served(p) /\ request'[o] = p
      BY <1>1, <1>2, <2>2, <3>1
    <3>3. Served(p)'
      BY <3>2, StillServed
    <3> QED
      BY <3>2, <3>3
  <2> QED
    BY <2>1, <2>2
<1>4. RunsNamed'
  <2> SUFFICES ASSUME NEW a \in Requests, NEW o \in Requests,
                      request'[a].run # 0, request'[o].run = request'[a].run
               PROVE  o = a
    BY DEF RunsNamed
  <2> QED
    BY <1>1, <1>2
<1> QED
  BY <1>2, <1>3, <1>4 DEF RequestsHold

(* A request that has read nothing.                                         *)
Empty(q) ==
  q \in RequestState /\ q.journal = <<>> /\ q.rows = <<>> /\ q.since = {} /\ q.status # 200

LEMMA EmptyServed ==
  ASSUME NEW q, Empty(q)
  PROVE  q.run <= lastRun' => Served(q)'
<1>1. EachOnce(<<>>) /\ Len(<<>>) = 0 /\ DOMAIN <<>> = {}
  BY DEF EachOnce
<1>2. 0 <= MaxLimit /\ 0 <= MaxLimit + MaxRuns
  BY WebNumbers
<1> QED
  BY <1>1, <1>2 DEF Empty, Served

LEMMA NoRequestIs == Empty(NoRequest) /\ NoRequest.run = 0 /\ NoRequest \in RequestState
<1>1. <<>> \in Seq(Nat)
  BY EmptySeq
<1> QED
  BY <1>1 DEF NoRequest, Empty, RequestState

LEMMA Placed ==
  ASSUME NEW pc \in {"idle", "trigger", "live", "answered"}, NEW name \in Names
  PROVE  \E q : q = [NoRequest EXCEPT !.pc = pc, !.name = name] /\ Empty(q) /\ q.run = 0
<1>1. PICK n \in RequestState : n = NoRequest /\ Empty(n) /\ n.run = 0
  BY NoRequestIs
<1>2. PICK q : q = [NoRequest EXCEPT !.pc = pc, !.name = name]
  OBVIOUS
<1>3. q \in RequestState
  BY <1>1, <1>2 DEF RequestState
<1>4. /\ q.journal = n.journal /\ q.rows = n.rows /\ q.since = n.since /\ q.run = n.run
      /\ q.status = n.status
  BY <1>1, <1>2 DEF RequestState
<1>5. Empty(q) /\ q.run = 0
  BY <1>1, <1>3, <1>4 DEF Empty
<1> QED
  BY <1>2, <1>5

LEMMA Answered ==
  ASSUME NEW status \in Nat, status # 200
  PROVE  \E q : /\ q = [NoRequest EXCEPT !.pc = "answered", !.status = status]
                /\ Empty(q) /\ q.run = 0
<1>1. PICK n \in RequestState : n = NoRequest /\ Empty(n) /\ n.run = 0
  BY NoRequestIs
<1>2. PICK q : q = [NoRequest EXCEPT !.pc = "answered", !.status = status]
  OBVIOUS
<1>3. q \in RequestState
  BY <1>1, <1>2 DEF RequestState
<1>4. /\ q.journal = n.journal /\ q.rows = n.rows /\ q.since = n.since /\ q.run = n.run
      /\ q.status = status
  BY <1>1, <1>2 DEF RequestState
<1>5. Empty(q) /\ q.run = 0
  BY <1>1, <1>3, <1>4 DEF Empty
<1> QED
  BY <1>2, <1>5

LEMMA Accepted ==
  ASSUME NEW run \in Nat
  PROVE  \E q : /\ q = [NoRequest EXCEPT !.pc = "answered", !.status = 202, !.run = run]
                /\ Empty(q) /\ q.run = run
<1>1. PICK q : q = [NoRequest EXCEPT !.pc = "answered", !.status = 202, !.run = run]
  OBVIOUS
<1>2. q = [pc |-> "answered", name |-> None, status |-> 202, run |-> run, limit |-> 0,
           journal |-> <<>>, rows |-> <<>>, since |-> {}]
  BY <1>1 DEF NoRequest
<1>3. <<>> \in Seq(Nat)
  BY EmptySeq
<1>4. q \in RequestState
  BY <1>2, <1>3 DEF RequestState
<1>5. q.journal = <<>> /\ q.rows = <<>> /\ q.since = {} /\ q.status = 202 /\ q.run = run
  BY <1>2
<1>6. Empty(q) /\ q.run = run
  BY <1>4, <1>5 DEF Empty
<1> QED
  BY <1>1, <1>6

(* A request for the list, with what it has read and what it answers.       *)
Holding(q, j, rows, since) ==
  /\ q \in RequestState /\ q.journal = j /\ q.rows = rows /\ q.since = since /\ q.run = 0

ReadBy(limit, j, since) ==
  [pc |-> "live", name |-> None, status |-> 0, run |-> 0, limit |-> limit, journal |-> j,
   rows |-> <<>>, since |-> since]
AnsweredWith(rows, since) ==
  [pc |-> "answered", name |-> None, status |-> 200, run |-> 0, limit |-> 0, journal |-> <<>>,
   rows |-> rows, since |-> since]

LEMMA Listed ==
  ASSUME NEW rows \in Seq(Nat), NEW since \in SUBSET Nat, NEW q, q = AnsweredWith(rows, since)
  PROVE  Holding(q, <<>>, rows, since) /\ q.status = 200
<1>1. <<>> \in Seq(Nat)
  BY EmptySeq
<1>2. q \in RequestState
  BY <1>1 DEF AnsweredWith, RequestState
<1> QED
  BY <1>2 DEF AnsweredWith, Holding

LEMMA Reading ==
  ASSUME NEW j \in Seq(Nat), NEW since \in SUBSET Nat, NEW limit \in Nat, NEW q,
         q = ReadBy(limit, j, since)
  PROVE  Holding(q, j, <<>>, since) /\ q.status # 200
<1>1. <<>> \in Seq(Nat)
  BY EmptySeq
<1>2. q \in RequestState
  BY <1>1 DEF ReadBy, RequestState
<1>3. q.status # 200
  BY DEF ReadBy
<1> QED
  BY <1>2, <1>3 DEF ReadBy, Holding

(* Requests that get an empty answer, or go on with nothing in hand.        *)
LEMMA Dismissed ==
  ASSUME WebInv, Forward, NEW r \in Requests, NEW q, Empty(q), q.run = 0,
         request' = [request EXCEPT ![r] = q]
  PROVE  RequestsHold'
<1>1. q \in RequestState
  BY DEF Empty
<1>2. q.run <= lastRun'
  BY DEF Forward
<1>3. Served(q)'
  BY <1>2, EmptyServed
<1> QED
  BY <1>1, <1>3, RequestMoves

LEMMA AtRest ==
  ASSUME WebInv, UNCHANGED <<live, history, lastRun>>
  PROVE  Forward
<1>1. lastRun \in Nat /\ lastRun <= lastRun
  BY DEF WebInv, WebTypes
<1> QED
  BY <1>1 DEF Forward, InFlightRuns

LEMMA LimiterRests ==
  ASSUME WebInv, UNCHANGED <<clock, hits, triggered>>
  PROVE  LimiterHolds' /\ clock' \in Nat /\ hits' \in [Names -> Seq(Nat)]
         /\ triggered' \in [Names -> Seq(Nat)]
  BY DEF WebInv, WebTypes, LimiterHolds, Paced, Later

LEMMA RunsRest ==
  ASSUME WebInv, UNCHANGED <<live, finished, history, lastRun>>
  PROVE  /\ Forward /\ RunsApart' /\ lastRun' \in Nat /\ live' \in [Workflows -> Nat]
         /\ finished' \subseteq Nat /\ history' \in Seq(Nat)
<1>1. RunsApart'
  BY DEF WebInv, RunsApart, InFlightRuns, EachOnce
<1> QED
  BY <1>1, AtRest DEF WebInv, WebTypes

LEMMA Together ==
  ASSUME RequestsHold', LimiterHolds', clock' \in Nat, hits' \in [Names -> Seq(Nat)],
         triggered' \in [Names -> Seq(Nat)], RunsApart', lastRun' \in Nat,
         live' \in [Workflows -> Nat], finished' \subseteq Nat, history' \in Seq(Nat)
  PROVE  WebInv'
  BY DEF WebInv, WebTypes, RequestsHold

LEMMA WebhookKeeps ==
  ASSUME WebInv, NEW r \in Requests, Webhook(r)
  PROVE  WebInv'
<1>1. PICK name \in Names, origin \in BOOLEAN, body \in Bodies :
        LET kept == Fresh(hits[name])
            admitted == Refusal(origin, body) = 0 /\ Len(kept) < Burst
        IN  /\ hits' = IF Refusal(origin, body) # 0 THEN hits
                       ELSE [hits EXCEPT ![name] = IF admitted THEN Append(kept, clock) ELSE kept]
            /\ triggered' = IF admitted THEN [triggered EXCEPT ![name] = Append(@, clock)]
                            ELSE triggered
            /\ IF admitted
               THEN request' = [request EXCEPT ![r] = [NoRequest EXCEPT !.pc = "trigger",
                                                                       !.name = name]]
               ELSE Answer(r, IF Refusal(origin, body) # 0 THEN Refusal(origin, body) ELSE 429)
  BY DEF Webhook
<1>2. UNCHANGED <<clock, port, live, finished, history, lastRun>>
  BY DEF Webhook
<1>3. PICK kept, old, times : kept = Fresh(old) /\ old = hits[name] /\ times = triggered[name]
  OBVIOUS
<1>4. /\ old \in Seq(Nat) /\ times \in Seq(Nat) /\ clock \in Nat
      /\ hits \in [Names -> Seq(Nat)] /\ triggered \in [Names -> Seq(Nat)]
      /\ \A n \in Names : Limited(triggered[n], hits[n])
  BY <1>3 DEF WebInv, WebTypes, LimiterHolds, Limited
<1>5. /\ kept \in Seq(Nat) /\ Limited(times, kept)
      /\ Len(kept) < Burst => Limited(Append(times, clock), Append(kept, clock))
  <2>1. Limited(times, old)
    BY <1>3, <1>4
  <2>2. /\ Fresh(old) \in Seq(Nat) /\ Limited(times, Fresh(old))
        /\ Len(Fresh(old)) < Burst => Limited(Append(times, clock), Append(Fresh(old), clock))
    BY <1>4, <2>1, WebhookLimits
  <2> QED
    BY <1>3, <2>2
<1>6. Append(times, clock) \in Seq(Nat) /\ Append(kept, clock) \in Seq(Nat)
  BY <1>4, <1>5
<1>7. /\ hits' \in [Names -> Seq(Nat)] /\ triggered' \in [Names -> Seq(Nat)]
      /\ \A n \in Names : Limited(triggered'[n], hits'[n])
  <2>1. CASE Refusal(origin, body) # 0
    BY <1>1, <1>4, <2>1
  <2>2. CASE Refusal(origin, body) = 0 /\ Len(kept) < Burst
    <3>1. /\ hits' = [hits EXCEPT ![name] = Append(kept, clock)]
          /\ triggered' = [triggered EXCEPT ![name] = Append(times, clock)]
      BY <1>1, <1>3, <2>2
    <3> QED
      BY <1>4, <1>5, <1>6, <2>2, <3>1
  <2>3. CASE Refusal(origin, body) = 0 /\ ~(Len(kept) < Burst)
    <3>1. hits' = [hits EXCEPT ![name] = kept] /\ triggered' = triggered
      BY <1>1, <1>3, <2>3
    <3> QED
      BY <1>3, <1>4, <1>5, <3>1
  <2> QED
    BY <2>1, <2>2, <2>3
<1>8. LimiterHolds' /\ clock' \in Nat
  BY <1>2, <1>4, <1>7 DEF LimiterHolds, Limited, Paced, Later
<1>9. /\ Forward /\ RunsApart' /\ lastRun' \in Nat /\ live' \in [Workflows -> Nat]
      /\ finished' \subseteq Nat /\ history' \in Seq(Nat)
  BY <1>2, RunsRest
<1>10. \E q : Empty(q) /\ q.run = 0 /\ request' = [request EXCEPT ![r] = q]
  <2>1. CASE Refusal(origin, body) = 0 /\ Len(kept) < Burst
    <3>1. request' = [request EXCEPT ![r] = [NoRequest EXCEPT !.pc = "trigger", !.name = name]]
      BY <1>1, <1>3, <2>1
    <3> QED
      BY <3>1, Placed
  <2>2. CASE ~(Refusal(origin, body) = 0 /\ Len(kept) < Burst)
    <3>1. PICK status : status = IF Refusal(origin, body) # 0 THEN Refusal(origin, body) ELSE 429
      OBVIOUS
    <3>2. Answer(r, status)
      BY <1>1, <1>3, <2>2, <3>1
    <3>3. status \in Nat /\ status # 200
      BY <3>1 DEF Refusal
    <3> QED
      BY <3>2, <3>3, Answered DEF Answer
  <2> QED
    BY <2>1, <2>2
<1>11. RequestsHold'
  BY <1>9, <1>10, Dismissed
<1> QED
  BY <1>7, <1>8, <1>9, <1>11, Together

LEMMA InFlight ==
  ASSUME WebInv
  PROVE  /\ InFlightRuns \subseteq 1..lastRun /\ InFlightRuns \subseteq Nat
         /\ IsFiniteSet(InFlightRuns) /\ Cardinality(InFlightRuns) \in Nat
         /\ \A w \in Workflows : live[w] # 0 => live[w] \in InFlightRuns
<1>1. lastRun \in Nat /\ \A w \in Workflows : live[w] \in Nat /\ live[w] <= lastRun
  BY DEF WebInv, WebTypes, RunsApart
<1>2. InFlightRuns \subseteq 1..lastRun /\ \A w \in Workflows : live[w] # 0 => live[w] \in InFlightRuns
  BY <1>1 DEF InFlightRuns
<1>3. IsFiniteSet(1..lastRun)
  BY <1>1, FS_Interval
<1>4. IsFiniteSet(InFlightRuns)
  BY <1>2, <1>3, FS_Subset
<1>5. Cardinality(InFlightRuns) \in Nat
  BY <1>4, FS_CardinalityType
<1>6. InFlightRuns \subseteq Nat
  BY <1>1, <1>2
<1> QED
  BY <1>2, <1>4, <1>5, <1>6

LEMMA TriggerKeeps ==
  ASSUME WebInv, NEW r \in Requests, Trigger(r)
  PROVE  WebInv'
<1>1. UNCHANGED <<clock, port, hits, finished, history, triggered>>
  BY DEF Trigger
<1>2. LimiterHolds' /\ clock' \in Nat /\ hits' \in [Names -> Seq(Nat)]
      /\ triggered' \in [Names -> Seq(Nat)]
  BY <1>1, LimiterRests
<1>3. ASSUME UNCHANGED <<live, lastRun>>, NEW status \in Nat, status # 200, Answer(r, status)
      PROVE  WebInv'
  <2>1. /\ Forward /\ RunsApart' /\ lastRun' \in Nat /\ live' \in [Workflows -> Nat]
        /\ finished' \subseteq Nat /\ history' \in Seq(Nat)
    BY <1>1, <1>3, RunsRest
  <2>2. PICK q : /\ q = [NoRequest EXCEPT !.pc = "answered", !.status = status]
                 /\ Empty(q) /\ q.run = 0
    BY <1>3, Answered
  <2>3. request' = [request EXCEPT ![r] = q]
    BY <1>3, <2>2 DEF Answer
  <2>4. RequestsHold'
    BY <2>1, <2>2, <2>3, Dismissed
  <2> QED
    BY <1>2, <2>1, <2>4, Together
<1>4. ASSUME NEW name \in Workflows, live[name] = 0, Cardinality(InFlightRuns) < MaxRuns,
             live' = [live EXCEPT ![name] = lastRun + 1], lastRun' = lastRun + 1,
             request' = [request EXCEPT ![r] = [NoRequest EXCEPT !.pc = "answered",
                                                  !.status = 202, !.run = lastRun + 1]]
      PROVE  WebInv'
  <2>1. PICK run : run = lastRun + 1
    OBVIOUS
  <2>2. /\ lastRun \in Nat /\ run \in Nat /\ run # 0 /\ live \in [Workflows -> Nat]
        /\ finished \subseteq Nat /\ history \in Seq(Nat)
    BY <2>1 DEF WebInv, WebTypes
  <2>3. /\ \A w \in Workflows : live[w] \in Nat /\ live[w] <= lastRun
        /\ \A v, w \in Workflows : live[v] = live[w] /\ live[v] # 0 => v = w
        /\ Cardinality(InFlightRuns) <= MaxRuns
        /\ finished \subseteq 1..lastRun /\ finished \intersect InFlightRuns = {}
        /\ EachOnce(history)
        /\ \A i \in DOMAIN history :
             history[i] \in 1..lastRun /\ history[i] \notin finished \union InFlightRuns
    BY <2>2 DEF WebInv, RunsApart
  <2>4. live' \in [Workflows -> Nat] /\ \A w \in Workflows : live'[w] = IF w = name THEN run ELSE live[w]
    BY <1>4, <2>1, <2>2
  <2>5. InFlightRuns' = InFlightRuns \union {run}
    BY <1>4, <2>2, <2>4 DEF InFlightRuns
  <2>6. run \notin InFlightRuns /\ run \notin 1..lastRun /\ 1..lastRun \subseteq 1..run
    BY <2>1, <2>2, InFlight
  <2>7. Cardinality(InFlightRuns') <= MaxRuns
    <3>1. Cardinality(InFlightRuns') = Cardinality(InFlightRuns) + 1
      BY <2>5, <2>6, InFlight, FS_AddElement
    <3>2. Cardinality(InFlightRuns) \in Nat
      BY InFlight
    <3> QED
      BY <1>4, <3>1, <3>2, WebNumbers
  <2>8. \A w \in Workflows : live'[w] <= run
    BY <2>1, <2>2, <2>3, <2>4
  <2>9. \A v, w \in Workflows : live'[v] = live'[w] /\ live'[v] # 0 => v = w
    <3>1. \A w \in Workflows : live[w] # run
      BY <2>1, <2>2, <2>3
    <3> QED
      BY <2>3, <2>4, <3>1
  <2>10. finished \subseteq 1..run /\ finished \intersect (InFlightRuns \union {run}) = {}
    BY <2>3, <2>6
  <2>11. \A i \in DOMAIN history :
           history[i] \in 1..run /\ history[i] \notin finished \union (InFlightRuns \union {run})
    BY <2>3, <2>6
  <2>12. RunsApart'
    <3>1. lastRun' = run
      BY <1>4, <2>1
    <3> QED
      BY <1>1, <2>3, <2>5, <2>7, <2>8, <2>9, <2>10, <2>11, <3>1 DEF RunsApart, EachOnce
  <2>13. Forward
    <3>1. \A x \in 1..lastRun : x \in InFlightRuns' => x \in InFlightRuns
      BY <2>5, <2>6
    <3>2. lastRun <= run
      BY <2>1, <2>2
    <3> QED
      BY <1>1, <1>4, <2>1, <2>2, <3>1, <3>2 DEF Forward
  <2>14. PICK q : /\ q = [NoRequest EXCEPT !.pc = "answered", !.status = 202, !.run = run]
                  /\ Empty(q) /\ q.run = run
    BY <2>2, Accepted
  <2>15. request' = [request EXCEPT ![r] = q]
    BY <1>4, <2>1, <2>14
  <2>16. \A o \in Requests : request[o].run # run
    <3>1. \A o \in Requests : request[o].run \in Nat /\ request[o].run <= lastRun
      BY DEF WebInv, WebTypes, RequestState, Served
    <3> QED
      BY <2>1, <2>2, <3>1
  <2>17. Served(q)'
    <3>1. q.run <= lastRun'
      BY <1>4, <2>1, <2>2, <2>14
    <3> QED
      BY <2>14, <3>1, EmptyServed
  <2>18. RequestsHold'
    <3>1. q \in RequestState
      BY <2>14 DEF Empty
    <3>2. q.run # 0 => \A o \in Requests \ {r} : request[o].run # q.run
      BY <2>14, <2>16
    <3> QED
      BY <2>13, <2>15, <2>17, <3>1, <3>2, RequestMoves
  <2> QED
    BY <1>1, <1>2, <1>4, <2>1, <2>2, <2>4, <2>12, <2>18, Together
<1>5. PICK name : name = request[r].name
  OBVIOUS
<1>6. CASE name \notin Workflows
  <2>1. Answer(r, 404) /\ UNCHANGED <<live, lastRun>>
    BY <1>5, <1>6 DEF Trigger
  <2> QED
    BY <1>3, <2>1
<1>7. CASE name \in Workflows /\ live[name] # 0
  <2>1. Answer(r, 409) /\ UNCHANGED <<live, lastRun>>
    BY <1>5, <1>7 DEF Trigger
  <2> QED
    BY <1>3, <2>1
<1>8. CASE name \in Workflows /\ live[name] = 0 /\ Cardinality(InFlightRuns) >= MaxRuns
  <2>1. Answer(r, 503) /\ UNCHANGED <<live, lastRun>>
    BY <1>5, <1>8 DEF Trigger
  <2> QED
    BY <1>3, <2>1
<1>9. CASE name \in Workflows /\ live[name] = 0 /\ ~(Cardinality(InFlightRuns) >= MaxRuns)
  <2>1. Cardinality(InFlightRuns) < MaxRuns
    BY <1>9, InFlight, WebNumbers
  <2>2. /\ live' = [live EXCEPT ![name] = lastRun + 1] /\ lastRun' = lastRun + 1
        /\ request' = [request EXCEPT ![r] = [NoRequest EXCEPT !.pc = "answered",
                          !.status = 202, !.run = lastRun + 1]]
    BY <1>5, <1>9 DEF Trigger
  <2> QED
    BY <1>4, <1>9, <2>1, <2>2
<1> QED
  BY <1>6, <1>7, <1>8, <1>9

(* A run leaves the engine, and later gets its record.                      *)
LEMMA RunEndsKeeps ==
  ASSUME WebInv, NEW w \in Workflows, RunEnds(w)
  PROVE  WebInv'
<1>1. /\ UNCHANGED <<clock, port, hits, history, lastRun, request, triggered>>
      /\ live[w] # 0 /\ live' = [live EXCEPT ![w] = 0] /\ finished' = finished \union {live[w]}
  BY DEF RunEnds
<1>2. PICK run : run = live[w]
  OBVIOUS
<1>3. /\ lastRun \in Nat /\ live \in [Workflows -> Nat] /\ finished \subseteq Nat
      /\ history \in Seq(Nat)
  BY DEF WebInv, WebTypes
<1>4. /\ \A v \in Workflows : live[v] \in Nat /\ live[v] <= lastRun
      /\ \A v, u \in Workflows : live[v] = live[u] /\ live[v] # 0 => v = u
      /\ Cardinality(InFlightRuns) <= MaxRuns
      /\ finished \subseteq 1..lastRun /\ finished \intersect InFlightRuns = {}
      /\ EachOnce(history)
      /\ \A i \in DOMAIN history :
           history[i] \in 1..lastRun /\ history[i] \notin finished \union InFlightRuns
  BY <1>3 DEF WebInv, RunsApart
<1>5. run \in InFlightRuns /\ run \in 1..lastRun /\ InFlightRuns \subseteq 1..lastRun
  BY <1>1, <1>2, InFlight
<1>6. live' \in [Workflows -> Nat] /\ \A v \in Workflows : live'[v] = IF v = w THEN 0 ELSE live[v]
  BY <1>1, <1>3
<1>7. InFlightRuns' = InFlightRuns \ {run}
  <2>1. InFlightRuns' = {live'[v] : v \in Workflows} \ {0}
    BY DEF InFlightRuns
  <2>2. \A x : x \in InFlightRuns' => x \in InFlightRuns \ {run}
    <3> SUFFICES ASSUME NEW v \in Workflows, live'[v] # 0 PROVE live'[v] \in InFlightRuns \ {run}
      BY <2>1
    <3>1. v # w /\ live'[v] = live[v]
      BY <1>6
    <3> QED
      BY <1>1, <1>2, <1>4, <3>1 DEF InFlightRuns
  <2>3. \A x : x \in InFlightRuns \ {run} => x \in InFlightRuns'
    <3> SUFFICES ASSUME NEW v \in Workflows, live[v] # 0, live[v] # run PROVE live[v] \in InFlightRuns'
      BY DEF InFlightRuns
    <3>1. live'[v] = live[v]
      BY <1>2, <1>6
    <3> QED
      BY <2>1, <3>1
  <2> QED
    BY <2>2, <2>3
<1>8. Cardinality(InFlightRuns') <= MaxRuns
  <2>1. PICK a, b : a = Cardinality(InFlightRuns') /\ b = Cardinality(InFlightRuns)
    OBVIOUS
  <2>2. IsFiniteSet(InFlightRuns \ {run}) /\ Cardinality(InFlightRuns \ {run}) <= b
    BY <2>1, InFlight, FS_Subset
  <2>3. a \in Nat /\ b \in Nat /\ a <= b
    BY <1>7, <2>1, <2>2, InFlight, FS_CardinalityType
  <2> QED
    BY <1>4, <2>1, <2>3, WebNumbers
<1>9. RunsApart'
  <2>1. \A v \in Workflows : live'[v] <= lastRun
    BY <1>3, <1>4, <1>6
  <2>2. \A v, u \in Workflows : live'[v] = live'[u] /\ live'[v] # 0 => v = u
    BY <1>4, <1>6
  <2>3. finished' \subseteq 1..lastRun /\ finished' \intersect (InFlightRuns \ {run}) = {}
    BY <1>1, <1>2, <1>4, <1>5
  <2>4. \A i \in DOMAIN history :
          history[i] \in 1..lastRun /\ history[i] \notin finished' \union (InFlightRuns \ {run})
    BY <1>1, <1>2, <1>4, <1>5
  <2> QED
    BY <1>1, <1>4, <1>7, <1>8, <2>1, <2>2, <2>3, <2>4 DEF RunsApart, EachOnce
<1>10. Forward
  <2>1. lastRun <= lastRun
    BY <1>3
  <2> QED
    BY <1>1, <1>3, <1>7, <2>1 DEF Forward
<1>11. RequestsHold'
  BY <1>1, <1>10, OthersMove
<1>12. LimiterHolds' /\ clock' \in Nat /\ hits' \in [Names -> Seq(Nat)]
       /\ triggered' \in [Names -> Seq(Nat)]
  BY <1>1, LimiterRests
<1>13. finished' \subseteq Nat
  BY <1>1, <1>2, <1>3, <1>5
<1> QED
  BY <1>1, <1>3, <1>6, <1>9, <1>11, <1>12, <1>13, Together

LEMMA JournaledKeeps ==
  ASSUME WebInv, NEW run \in finished, Journaled(run)
  PROVE  WebInv'
<1>1. /\ UNCHANGED <<clock, port, hits, live, lastRun, request, triggered>>
      /\ finished' = finished \ {run} /\ history' = Append(history, run)
  BY DEF Journaled
<1>2. /\ lastRun \in Nat /\ live \in [Workflows -> Nat] /\ finished \subseteq Nat
      /\ history \in Seq(Nat)
  BY DEF WebInv, WebTypes
<1>3. /\ finished \subseteq 1..lastRun /\ finished \intersect InFlightRuns = {}
      /\ EachOnce(history)
      /\ \A i \in DOMAIN history :
           history[i] \in 1..lastRun /\ history[i] \notin finished \union InFlightRuns
  BY DEF WebInv, RunsApart
<1>4. PICK h, n : h = history' /\ n = Len(history)
  OBVIOUS
<1>5. /\ h \in Seq(Nat) /\ n \in Nat /\ DOMAIN history = 1..n /\ DOMAIN h = 1..(n + 1)
      /\ h[n + 1] = run /\ \A i \in 1..n : h[i] = history[i]
  <2>1. run \in Nat
    BY <1>2
  <2> QED
    BY <1>1, <1>2, <1>4, <2>1, AppendProperties
<1>6. \A i \in DOMAIN h : i \in 1..n \/ i = n + 1
  BY <1>5
<1>7. EachOnce(h)
  <2>1. \A i \in 1..n : h[i] # run
    BY <1>3, <1>5
  <2> QED
    BY <1>3, <1>5, <1>6, <2>1 DEF EachOnce
<1>8. \A i \in DOMAIN h : h[i] \in 1..lastRun /\ h[i] \notin finished' \union InFlightRuns
  BY <1>1, <1>3, <1>5, <1>6
<1>9. InFlightRuns' = InFlightRuns
  BY <1>1 DEF InFlightRuns
<1>10. RunsApart'
  <2>1. finished' \subseteq 1..lastRun /\ finished' \intersect InFlightRuns = {}
    BY <1>1, <1>3
  <2>2. EachOnce(history)' /\ \A i \in DOMAIN history' :
          history'[i] \in 1..lastRun /\ history'[i] \notin finished' \union InFlightRuns
    BY <1>4, <1>7, <1>8 DEF EachOnce
  <2> QED
    BY <1>1, <1>9, <2>1, <2>2 DEF WebInv, RunsApart
<1>11. Forward
  <2>1. lastRun <= lastRun
    BY <1>2
  <2>2. \A x : Has(history, x) => Has(history', x)
    <3> SUFFICES ASSUME NEW i \in DOMAIN history PROVE Has(history', history[i])
      BY DEF Has
    <3>1. i \in DOMAIN h /\ h[i] = history[i]
      BY <1>5
    <3> QED
      BY <1>4, <3>1 DEF Has
  <2> QED
    BY <1>1, <1>2, <1>9, <2>1, <2>2 DEF Forward
<1>12. RequestsHold'
  BY <1>1, <1>11, OthersMove
<1>13. LimiterHolds' /\ clock' \in Nat /\ hits' \in [Names -> Seq(Nat)]
       /\ triggered' \in [Names -> Seq(Nat)]
  BY <1>1, LimiterRests
<1>14. lastRun' \in Nat /\ live' \in [Workflows -> Nat] /\ finished' \subseteq Nat
       /\ history' \in Seq(Nat)
  BY <1>1, <1>2, <1>4, <1>5
<1> QED
  BY <1>10, <1>12, <1>13, <1>14, Together

(* The journal as a request reads it, newest first, up to the limit.        *)
LEMMA NewestOf ==
  ASSUME WebInv, NEW limit \in 1..MaxLimit
  PROVE  \E j \in Seq(Nat) : /\ j = Newest(limit) /\ EachOnce(j) /\ Len(j) <= MaxLimit
                             /\ \A i \in DOMAIN j : Has(history, j[i])
<1>1. PICK n, rev : n = Len(history) /\ rev = Reverse(history)
  OBVIOUS
<1>2. history \in Seq(Nat) /\ n \in Nat /\ DOMAIN history = 1..n /\ EachOnce(history)
  BY <1>1 DEF WebInv, WebTypes, RunsApart
<1>3. \A i \in 1..n : /\ n - i + 1 \in 1..n /\ rev[i] = history[n - i + 1] /\ rev[i] \in Nat
  BY <1>1, <1>2 DEF Reverse
<1>4. PICK k : k = IF limit < n THEN limit ELSE n
  OBVIOUS
<1>5. k \in Nat /\ k <= n /\ k <= MaxLimit
  BY <1>2, <1>4, WebNumbers
<1>6. PICK j : j = SubSeq(rev, 1, k)
  OBVIOUS
<1>7. j = Newest(limit)
  BY <1>1, <1>4, <1>6 DEF Newest
<1>8. \A i \in 1..k : i \in 1..n
  BY <1>2, <1>5
<1>9. j \in Seq(Nat) /\ Len(j) = k /\ \A i \in 1..k : j[i] = history[n - i + 1]
  <2>1. \A i \in 1..k : rev[i] \in Nat
    BY <1>3, <1>8
  <2>2. /\ j \in Seq(Nat) /\ Len(j) = IF 1 <= k THEN k - 1 + 1 ELSE 0
        /\ \A i \in 1..(k - 1 + 1) : j[i] = rev[1 + i - 1]
    BY <1>5, <1>6, <2>1, SubSeqProperties
  <2>3. Len(j) = k
    BY <1>5, <2>2
  <2>4. \A i \in 1..k : j[i] = rev[i]
    BY <1>5, <2>2
  <2> QED
    BY <1>3, <1>8, <2>2, <2>3, <2>4
<1>10. DOMAIN j = 1..k
  BY <1>9
<1>11. EachOnce(j)
  <2> SUFFICES ASSUME NEW a \in 1..k, NEW b \in 1..k, j[a] = j[b]
               PROVE  a = b
    BY <1>10 DEF EachOnce
  <2>1. PICK x, y : x = n - a + 1 /\ y = n - b + 1
    OBVIOUS
  <2>2. x \in DOMAIN history /\ y \in DOMAIN history
    BY <1>2, <1>3, <1>8, <2>1
  <2>3. history[x] = history[y]
    BY <1>9, <2>1
  <2>4. x = y
    BY <1>2, <2>2, <2>3 DEF EachOnce
  <2> QED
    BY <1>2, <1>5, <2>1, <2>4
<1>12. \A i \in DOMAIN j : Has(history, j[i])
  BY <1>2, <1>3, <1>8, <1>9, <1>10 DEF Has
<1> QED
  BY <1>5, <1>7, <1>9, <1>11, <1>12

LEMMA ListRunsKeeps ==
  ASSUME WebInv, NEW r \in Requests, ListRuns(r)
  PROVE  WebInv'
<1>1. UNCHANGED <<clock, port, hits, live, finished, history, lastRun, triggered>>
  BY DEF ListRuns
<1>2. PICK limit \in 1..MaxLimit :
        request' = [request EXCEPT ![r] = ReadBy(limit, Newest(limit), InFlightRuns)]
  <2>1. PICK asked \in 1..(MaxLimit + 1) :
          request' = [request EXCEPT ![r] =
            [NoRequest EXCEPT !.pc = "live",
                              !.limit = IF asked < MaxLimit THEN asked ELSE MaxLimit,
                              !.journal = Newest(IF asked < MaxLimit THEN asked ELSE MaxLimit),
                              !.since = InFlightRuns]]
    BY DEF ListRuns
  <2>2. PICK limit : limit = IF asked < MaxLimit THEN asked ELSE MaxLimit
    OBVIOUS
  <2>3. limit \in 1..MaxLimit
    BY <2>2, WebNumbers
  <2>4. request' = [request EXCEPT ![r] =
          [NoRequest EXCEPT !.pc = "live", !.limit = limit, !.journal = Newest(limit),
                            !.since = InFlightRuns]]
    BY <2>1, <2>2
  <2>5. PICK q : q = [NoRequest EXCEPT !.pc = "live", !.limit = limit,
                                       !.journal = Newest(limit), !.since = InFlightRuns]
    OBVIOUS
  <2>6. q = ReadBy(limit, Newest(limit), InFlightRuns)
    BY <2>5 DEF NoRequest, ReadBy
  <2>7. request' = [request EXCEPT ![r] = q]
    BY <2>4, <2>5
  <2> QED
    BY <2>3, <2>6, <2>7
<1>3. PICK j \in Seq(Nat) : /\ j = Newest(limit) /\ EachOnce(j) /\ Len(j) <= MaxLimit
                            /\ \A i \in DOMAIN j : Has(history, j[i])
  BY NewestOf
<1>4. PICK S : S = InFlightRuns
  OBVIOUS
<1>5. S \in SUBSET Nat /\ S \subseteq 1..lastRun /\ limit \in Nat
  BY <1>4, InFlight, WebNumbers
<1>6. PICK q : q = ReadBy(limit, j, S)
  OBVIOUS
<1>7. /\ q \in RequestState /\ q.journal = j /\ q.rows = <<>> /\ q.since = S
      /\ q.run = 0 /\ q.status # 200
  BY <1>5, <1>6, Reading DEF Holding
<1>8. request' = [request EXCEPT ![r] = q]
  BY <1>2, <1>3, <1>4, <1>6
<1>9. /\ Forward /\ RunsApart' /\ lastRun' \in Nat /\ live' \in [Workflows -> Nat]
       /\ finished' \subseteq Nat /\ history' \in Seq(Nat)
  BY <1>1, RunsRest
<1>10. Served(q)'
  <2>1. EachOnce(<<>>) /\ Len(<<>>) <= MaxLimit + MaxRuns
    BY WebNumbers DEF EachOnce
  <2>2. \A i \in DOMAIN q.journal : Has(history', q.journal[i])
    BY <1>1, <1>3, <1>7
  <2>3. q.run <= lastRun' /\ q.since \subseteq 1..lastRun'
    BY <1>1, <1>5, <1>7, <1>9
  <2> QED
    BY <1>3, <1>7, <2>1, <2>2, <2>3 DEF Served, EachOnce, Has
<1>11. RequestsHold'
  BY <1>7, <1>8, <1>9, <1>10, RequestMoves
<1>12. LimiterHolds' /\ clock' \in Nat /\ hits' \in [Names -> Seq(Nat)]
       /\ triggered' \in [Names -> Seq(Nat)]
  BY <1>1, LimiterRests
<1> QED
  BY <1>9, <1>11, <1>12, Together

(* The live runs, each once, in front of the journal.                       *)
LEMMA LiveFirst ==
  ASSUME NEW S \in SUBSET Nat, IsFiniteSet(S), NEW order \in SetToSeqs(S), NEW j \in Seq(Nat),
         EachOnce(j), \A i \in DOMAIN j : j[i] \notin S
  PROVE  \E rows \in Seq(Nat) :
           /\ rows = order \o j /\ EachOnce(rows) /\ Len(rows) = Cardinality(S) + Len(j)
           /\ \A x \in S : Has(rows, x)
<1>1. PICK c : c = Cardinality(S)
  OBVIOUS
<1>2. c \in Nat
  BY <1>1, FS_CardinalityType
<1>3. order \in [1..c -> S] /\ \A a, b \in 1..c : a # b => order[a] # order[b]
  BY <1>1 DEF SetToSeqs
<1>4. order \in Seq(Nat) /\ Len(order) = c
  <2>1. order \in [1..c -> Nat]
    BY <1>3
  <2> QED
    BY <1>2, <2>1
<1>5. \A x \in S : \E i \in 1..c : order[i] = x
  <2>1. order \in Injection(1..c, S)
    BY <1>3 DEF Injection, IsInjective
  <2>2. IsFiniteSet(1..c) /\ Cardinality(1..c) = c
    BY <1>2, FS_Interval
  <2>3. order \in Surjection(1..c, S)
    BY <1>1, <2>1, <2>2, FS_Injection
  <2> QED
    BY <2>3 DEF Surjection
<1>6. PICK m : m = Len(j)
  OBVIOUS
<1>7. m \in Nat /\ DOMAIN j = 1..m
  BY <1>6
<1>8. PICK rows : rows = order \o j
  OBVIOUS
<1>9. /\ rows \in Seq(Nat) /\ Len(rows) = c + m
      /\ \A i \in 1..(c + m) : rows[i] = IF i <= c THEN order[i] ELSE j[i - c]
  BY <1>4, <1>6, <1>8, ConcatProperties
<1>10. DOMAIN rows = 1..(c + m)
  BY <1>9
<1>11. \A i \in 1..c : i \in 1..(c + m) /\ rows[i] = order[i] /\ rows[i] \in S
  BY <1>2, <1>3, <1>7, <1>9
<1>12. \A i \in 1..(c + m) : i \notin 1..c =>
         /\ i - c \in 1..m /\ rows[i] = j[i - c] /\ rows[i] \notin S
  <2> SUFFICES ASSUME NEW i \in 1..(c + m), i \notin 1..c
               PROVE  i - c \in 1..m /\ rows[i] = j[i - c] /\ rows[i] \notin S
    OBVIOUS
  <2>1. ~(i <= c) /\ i - c \in 1..m
    BY <1>2, <1>7
  <2>2. rows[i] = j[i - c]
    BY <1>9, <2>1
  <2> QED
    BY <1>7, <2>1, <2>2
<1>13. EachOnce(rows)
  <2> SUFFICES ASSUME NEW a \in 1..(c + m), NEW b \in 1..(c + m), rows[a] = rows[b]
               PROVE  a = b
    BY <1>10 DEF EachOnce
  <2>1. CASE a \in 1..c /\ b \in 1..c
    BY <1>3, <1>11, <2>1
  <2>2. CASE a \notin 1..c /\ b \notin 1..c
    <3>1. a - c = b - c
      BY <1>7, <1>12, <2>2 DEF EachOnce
    <3> QED
      BY <1>2, <1>7, <3>1
  <2>3. CASE a \in 1..c /\ b \notin 1..c
    BY <1>11, <1>12, <2>3
  <2>4. CASE a \notin 1..c /\ b \in 1..c
    BY <1>11, <1>12, <2>4
  <2> QED
    BY <2>1, <2>2, <2>3, <2>4
<1>14. \A x \in S : Has(rows, x)
  BY <1>5, <1>10, <1>11 DEF Has
<1> QED
  BY <1>1, <1>6, <1>8, <1>9, <1>13, <1>14

LEMMA AddLiveKeeps ==
  ASSUME WebInv, NEW r \in Requests, AddLive(r)
  PROVE  WebInv'
<1>1. UNCHANGED <<clock, port, hits, live, finished, history, lastRun, triggered>>
  BY DEF AddLive
<1>2. PICK S : S = InFlightRuns
  OBVIOUS
<1>3. PICK order \in SetToSeqs(S) :
        request' = [request EXCEPT ![r] =
          AnsweredWith(order \o request[r].journal, request[r].since)]
  <2>1. PICK order \in SetToSeqs(S) :
          request' = [request EXCEPT ![r] =
            [NoRequest EXCEPT !.pc = "answered", !.status = 200,
                              !.rows = order \o request[r].journal, !.since = request[r].since]]
    BY <1>2 DEF AddLive
  <2>2. PICK q : q = [NoRequest EXCEPT !.pc = "answered", !.status = 200,
                        !.rows = order \o request[r].journal, !.since = request[r].since]
    OBVIOUS
  <2>3. q = AnsweredWith(order \o request[r].journal, request[r].since)
    BY <2>2 DEF NoRequest, AnsweredWith
  <2>4. request' = [request EXCEPT ![r] = q]
    BY <2>1, <2>2
  <2> QED
    BY <2>3, <2>4
<1>4. PICK p \in RequestState : p = request[r] /\ Served(p)
  BY DEF WebInv, WebTypes
<1>5. /\ S \in SUBSET Nat /\ IsFiniteSet(S) /\ Cardinality(S) \in Nat /\ Cardinality(S) <= MaxRuns
      /\ \A i \in DOMAIN history : history[i] \notin S
  BY <1>2, InFlight DEF WebInv, RunsApart
<1>6. /\ p.journal \in Seq(Nat) /\ EachOnce(p.journal) /\ Len(p.journal) <= MaxLimit
      /\ \A i \in DOMAIN p.journal : p.journal[i] \notin S
  BY <1>4, <1>5 DEF RequestState, Served, Has
<1>7. PICK j \in Seq(Nat) : j = p.journal /\ EachOnce(j) /\ \A i \in DOMAIN j : j[i] \notin S
  BY <1>6
<1>8. PICK rows \in Seq(Nat) :
        /\ rows = order \o j /\ EachOnce(rows) /\ Len(rows) = Cardinality(S) + Len(j)
        /\ \A x \in S : Has(rows, x)
  <2>1. S \in SUBSET Nat /\ IsFiniteSet(S) /\ order \in SetToSeqs(S)
    BY <1>5
  <2>2. EachOnce(j) /\ \A i \in DOMAIN j : j[i] \notin S
    BY <1>7
  <2> QED
    BY <2>1, <2>2, LiveFirst
<1>9. PICK since \in SUBSET Nat : since = p.since /\ since \subseteq 1..lastRun
  BY <1>4 DEF RequestState, Served
<1>10. PICK q : q = AnsweredWith(rows, since)
  OBVIOUS
<1>11. /\ q \in RequestState /\ q.journal = <<>> /\ q.rows = rows /\ q.since = since
       /\ q.run = 0 /\ q.status = 200 /\ request' = [request EXCEPT ![r] = q]
  <2>1. request' = [request EXCEPT ![r] = q]
    BY <1>3, <1>4, <1>7, <1>8, <1>9, <1>10
  <2> QED
    BY <1>10, <2>1, Listed DEF Holding
<1>12. /\ Forward /\ RunsApart' /\ lastRun' \in Nat /\ live' \in [Workflows -> Nat]
       /\ finished' \subseteq Nat /\ history' \in Seq(Nat)
  BY <1>1, RunsRest
<1>13. Served(q)'
  <2>1. EachOnce(<<>>) /\ Len(<<>>) = 0 /\ DOMAIN <<>> = {} /\ 0 <= MaxLimit
    BY WebNumbers DEF EachOnce
  <2>2. Len(rows) <= MaxLimit + MaxRuns
    <3>1. Len(rows) \in Nat /\ Len(j) \in Nat /\ Len(j) <= MaxLimit
      BY <1>6, <1>7
    <3> QED
      BY <1>5, <1>8, <3>1, WebNumbers
  <2>3. q.run <= lastRun' /\ q.since \subseteq 1..lastRun'
    BY <1>1, <1>9, <1>11, <1>12
  <2>4. InFlightRuns' = S
    BY <1>1, <1>2 DEF InFlightRuns
  <2>5. \A run \in q.since \intersect InFlightRuns' : Has(q.rows, run)
    BY <1>8, <1>11, <2>4
  <2>6. EachOnce(q.rows) /\ Len(q.rows) <= MaxLimit + MaxRuns
    BY <1>8, <1>11, <2>2
  <2>7. /\ EachOnce(q.journal) /\ Len(q.journal) <= MaxLimit
        /\ \A i \in DOMAIN q.journal : Has(history', q.journal[i])
    BY <1>11, <2>1
  <2> QED
    BY <1>11, <2>3, <2>5, <2>6, <2>7 DEF Served, EachOnce, Has
<1>14. RequestsHold'
  BY <1>10, <1>11, <1>12, <1>13, RequestMoves
<1>15. LimiterHolds' /\ clock' \in Nat /\ hits' \in [Names -> Seq(Nat)]
       /\ triggered' \in [Names -> Seq(Nat)]
  BY <1>1, LimiterRests
<1> QED
  BY <1>12, <1>14, <1>15, Together

LEMMA NextRequestKeeps ==
  ASSUME WebInv, NEW r \in Requests, NextRequest(r)
  PROVE  WebInv'
<1>1. /\ UNCHANGED <<clock, port, hits, live, finished, history, lastRun, triggered>>
      /\ request' = [request EXCEPT ![r] = NoRequest]
  BY DEF NextRequest
<1>2. /\ Forward /\ RunsApart' /\ lastRun' \in Nat /\ live' \in [Workflows -> Nat]
      /\ finished' \subseteq Nat /\ history' \in Seq(Nat)
  BY <1>1, RunsRest
<1>3. RequestsHold'
  BY <1>1, <1>2, NoRequestIs, Dismissed
<1>4. LimiterHolds' /\ clock' \in Nat /\ hits' \in [Names -> Seq(Nat)]
      /\ triggered' \in [Names -> Seq(Nat)]
  BY <1>1, LimiterRests
<1> QED
  BY <1>2, <1>3, <1>4, Together

(* Nothing but the port or the clock changes.                               *)
LEMMA RestKeeps ==
  ASSUME WebInv, clock' \in Nat, clock <= clock',
         UNCHANGED <<hits, live, finished, history, lastRun, request, triggered>>
  PROVE  WebInv'
<1>1. /\ Forward /\ RunsApart' /\ lastRun' \in Nat /\ live' \in [Workflows -> Nat]
      /\ finished' \subseteq Nat /\ history' \in Seq(Nat)
  BY RunsRest
<1>2. RequestsHold'
  BY <1>1, OthersMove
<1>3. /\ clock \in Nat /\ hits \in [Names -> Seq(Nat)] /\ triggered \in [Names -> Seq(Nat)]
      /\ LimiterHolds
  BY DEF WebInv, WebTypes
<1>4. LimiterHolds'
  <2> SUFFICES ASSUME NEW name \in Names
               PROVE  /\ Paced(triggered[name])'
                      /\ \A c \in Nat : c >= clock' =>
                           Cardinality(Later(triggered[name], c)) <= Cardinality(Later(hits[name], c))
    BY DEF LimiterHolds, Later
  <2>1. PICK times \in Seq(Nat) : times = triggered[name]
    BY <1>3
  <2>2. Paced(times)
    BY <1>3, <2>1 DEF LimiterHolds
  <2>3. \A i, j \in DOMAIN times : i <= j => times[i] <= times[j] /\ times[j] <= clock'
    <3> SUFFICES ASSUME NEW i \in DOMAIN times, NEW j \in DOMAIN times, i <= j
                 PROVE  times[i] <= times[j] /\ times[j] <= clock'
      OBVIOUS
    <3>1. times[i] <= times[j] /\ times[j] <= clock /\ times[j] \in Nat
      BY <2>2 DEF Paced
    <3> QED
      BY <1>3, <3>1
  <2>4. Paced(triggered[name])'
    BY <2>1, <2>2, <2>3 DEF Paced
  <2>5. \A c \in Nat : c >= clock' => c >= clock
    BY <1>3
  <2> QED
    BY <1>3, <2>4, <2>5 DEF LimiterHolds
<1> QED
  BY <1>1, <1>2, <1>3, <1>4, Together

LEMMA WebStep == WebInv /\ [WebNext]_webVars => WebInv'
<1> SUFFICES ASSUME WebInv, [WebNext]_webVars PROVE WebInv'
  OBVIOUS
<1>1. clock \in Nat
  BY DEF WebInv, WebTypes
<1>2. CASE Tick
  BY <1>1, <1>2, RestKeeps DEF Tick
<1>3. CASE StartWeb
  BY <1>1, <1>3, RestKeeps DEF StartWeb
<1>4. ASSUME NEW r \in Requests, Webhook(r) PROVE WebInv'
  BY <1>4, WebhookKeeps
<1>5. ASSUME NEW r \in Requests, Trigger(r) PROVE WebInv'
  BY <1>5, TriggerKeeps
<1>6. ASSUME NEW r \in Requests, ListRuns(r) PROVE WebInv'
  BY <1>6, ListRunsKeeps
<1>7. ASSUME NEW r \in Requests, AddLive(r) PROVE WebInv'
  BY <1>7, AddLiveKeeps
<1>8. ASSUME NEW r \in Requests, NextRequest(r) PROVE WebInv'
  BY <1>8, NextRequestKeeps
<1>9. ASSUME NEW w \in Workflows, RunEnds(w) PROVE WebInv'
  BY <1>9, RunEndsKeeps
<1>10. ASSUME NEW run \in finished, Journaled(run) PROVE WebInv'
  BY <1>10, JournaledKeeps
<1>11. CASE UNCHANGED webVars
  BY <1>1, <1>11, RestKeeps DEF webVars
<1> QED
  BY <1>2, <1>3, <1>4, <1>5, <1>6, <1>7, <1>8, <1>9, <1>10, <1>11 DEF WebNext

LEMMA WebStarts == WebInit => WebInv
<1> SUFFICES ASSUME WebInit PROVE WebInv
  OBVIOUS
<1>1. /\ clock = 0 /\ hits = [n \in Names |-> <<>>] /\ triggered = [n \in Names |-> <<>>]
      /\ live = [w \in Workflows |-> 0] /\ finished = {} /\ history = <<>> /\ lastRun = 0
      /\ request = [r \in Requests |-> NoRequest]
  BY DEF WebInit
<1>2. <<>> \in Seq(Nat) /\ Len(<<>>) = 0 /\ DOMAIN <<>> = {} /\ EachOnce(<<>>)
  BY EmptySeq DEF EachOnce
<1>3. InFlightRuns = {} /\ Cardinality({}) = 0
  BY <1>1, FS_EmptySet DEF InFlightRuns
<1>4. WebTypes
  BY <1>1, <1>2, NoRequestIs DEF WebTypes
<1>5. RunsApart
  BY <1>1, <1>2, <1>3, WebNumbers DEF RunsApart
<1>6. Served(NoRequest)
  <2>1. Empty(NoRequest) /\ NoRequest.run = 0
    BY NoRequestIs
  <2> QED
    BY <1>1, <1>2, <2>1, WebNumbers DEF Empty, Served
<1>7. (\A r \in Requests : Served(request[r])) /\ RunsNamed
  BY <1>1, <1>6, NoRequestIs DEF RunsNamed
<1>8. LimiterHolds
  <2> SUFFICES ASSUME NEW name \in Names
               PROVE  /\ Paced(triggered[name])
                      /\ \A c \in Nat : c >= clock =>
                           Cardinality(Later(triggered[name], c)) <= Cardinality(Later(hits[name], c))
    BY DEF LimiterHolds
  <2>1. triggered[name] = <<>> /\ hits[name] = <<>>
    BY <1>1
  <2>2. Paced(<<>>)
    BY <1>2 DEF Paced
  <2>3. \A c \in Nat : Later(<<>>, c) = {}
    BY <1>2 DEF Later
  <2>4. 0 <= 0
    OBVIOUS
  <2> QED
    BY <1>3, <2>1, <2>2, <2>3, <2>4
<1> QED
  BY <1>4, <1>5, <1>7, <1>8 DEF WebInv

(* Of any number of requests, workflows and runs: a list of runs names no   *)
(* run twice and has every run that was in flight all the while, a trigger  *)
(* that was accepted names its own run, and no more than Burst triggers of  *)
(* a name pass in any Window (handleWorkflowRuns, handleWebhook, allow).    *)
THEOREM WebAnswers == WebSpec => []WebAnswersHold
<1>1. WebInv => WebAnswersHold
  <2> SUFFICES ASSUME WebInv PROVE WebAnswersHold
    OBVIOUS
  <2>1. ASSUME NEW r \in Requests
        PROVE  /\ \A i, j \in DOMAIN request[r].rows : i # j => request[r].rows[i] # request[r].rows[j]
               /\ request[r].status = 200 =>
                    \A run \in request[r].since \intersect InFlightRuns :
                      \E i \in DOMAIN request[r].rows : request[r].rows[i] = run
               /\ Len(request[r].rows) <= MaxLimit + MaxRuns
    BY DEF WebInv, Served, EachOnce, Has
  <2>2. \A r \in Requests : \A o \in Requests \ {r} :
          request[r].run # 0 => request[o].run # request[r].run
    BY DEF WebInv, RunsNamed
  <2>3. \A name \in Names : \A i \in DOMAIN triggered[name] :
          i > Burst => triggered[name][i] >= triggered[name][i - Burst] + Window
    BY DEF WebInv, LimiterHolds, Paced
  <2> QED
    BY <2>1, <2>2, <2>3 DEF WebAnswersHold
<1> QED
  BY <1>1, WebStarts, WebStep, PTL DEF WebSpec

================================================================================
