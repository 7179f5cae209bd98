----------------------------- MODULE DaemonSocket -----------------------------
(* Who is the daemon: processes that claim one Unix socket (Bind), and the *)
(* commands that reach, spawn, kill and stop them, with the stop marker    *)
(* and the one retry of CLIClient.Send.                                    *)
(*                                                                         *)
(* The path names a listener: it keeps the socket of a daemon that is gone *)
(* (os.Exit and crashes unlink nothing), and a daemon whose path another   *)
(* took lives on unreachable.                                              *)
EXTENDS Naturals, FiniteSets

CONSTANTS
  Daemons,       \* bound: daemon processes that are started
  Commands,      \* command line processes
  Kinds,         \* which of "send", "start", "stop" and "kill" they may be
  MayCrash

ASSUME SocketAssumption ==
  /\ Daemons = 1..Cardinality(Daemons)
  /\ Kinds \subseteq {"send", "start", "stop", "kill"} /\ MayCrash \in BOOLEAN

VARIABLES
  path,          \* the daemon whose listener the socket path names, or 0
  marker,        \* daemon.stopped exists
  daemon,
  cli,
  executed       \* the daemons that carried out a command's request

sockVars == <<path, marker, daemon, cli, executed>>

Unborn == [pc |-> "none", to |-> 0, seen |-> {}]
Idle == [pc |-> "idle", kind |-> "none", to |-> 0, retried |-> FALSE]

SockInit ==
  /\ path = 0 /\ marker = FALSE
  /\ daemon = [d \in Daemons |-> Unborn]
  /\ cli = [c \in Commands |-> Idle]
  /\ executed = [c \in Commands |-> {}]

Born == {d \in Daemons : daemon[d].pc # "none"}
Claiming(d) == daemon[d].pc \in {"stat", "probe", "ping", "remove", "listen"}
Gone(d) == d \notin {e \in Daemons : daemon[e].pc # "gone"}
\* It accepts and answers, late when it is slow, for 150 ms after a kill too.
Answers(d) == d # 0 /\ daemon[d].pc \in {"serve", "slow", "dying"}

DaemonAt(d, pc) == daemon' = [daemon EXCEPT ![d] = [Unborn EXCEPT !.pc = pc]]

-----------------------------------------------------------------------------
(* A daemon: clearSocket, net.Listen, the rest of Listen, Serve.           *)

Stat(d) ==
  /\ daemon[d].pc = "stat"
  /\ DaemonAt(d, IF path = 0 THEN "listen" ELSE "probe")
  /\ UNCHANGED <<path, marker, cli, executed>>

\* daemonAnswers: the connection is accepted by the kernel, even while the
\* daemon behind it is still booting.
Probe(d) ==
  /\ daemon[d].pc = "probe"
  /\ daemon' = [daemon EXCEPT ![d].pc = IF Gone(path) THEN "remove" ELSE "ping",
                              ![d].to = path,
                              ![d].seen = {p \in {path} : Answers(p)}]
  /\ UNCHANGED <<path, marker, cli, executed>>

\* Unanswered, with a deadline that a prompt daemon can miss too.
Unanswered_soon(d) == TRUE

\* No answer within probeTimeout: the other has died, or is too slow.
Unanswered(d) == daemon[d].pc \in {"slow", "dying", "gone"}

Ping(d) ==
  LET me == daemon[d]
  IN  /\ me.pc = "ping"
      /\ \/ Answers(me.to) /\ DaemonAt(d, "gone")
         \/ Unanswered(me.to) /\ daemon' = [daemon EXCEPT ![d].pc = "remove", ![d].to = 0]
      /\ UNCHANGED <<path, marker, cli, executed>>

RemoveSocket(d) ==
  /\ daemon[d].pc = "remove"
  /\ path' = 0 /\ DaemonAt(d, "listen")
  /\ UNCHANGED <<marker, cli, executed>>

BindSocket(d) ==
  /\ daemon[d].pc = "listen"
  /\ \/ path = 0 /\ path' = d /\ DaemonAt(d, "boot")
     \/ path # 0 /\ DaemonAt(d, "gone") /\ UNCHANGED path
  /\ UNCHANGED <<marker, cli, executed>>

BootDaemon(d) ==
  /\ daemon[d].pc = "boot" /\ DaemonAt(d, "serve")
  /\ UNCHANGED <<path, marker, cli, executed>>

\* From now on it may take longer than probeTimeout over an answer, or give
\* none: a long boot, before which nothing is answered, or a daemon that is
\* wedged, stopped or starved.
Stall(d) ==
  /\ daemon[d].pc \in {"boot", "serve"} /\ DaemonAt(d, "slow")
  /\ UNCHANGED <<path, marker, cli, executed>>

ExitDaemon(d) ==
  /\ daemon[d].pc = "dying" /\ DaemonAt(d, "gone")
  /\ UNCHANGED <<path, marker, cli, executed>>

CrashDaemon(d) ==
  /\ MayCrash /\ daemon[d].pc \in {"serve", "slow"} /\ DaemonAt(d, "gone")
  /\ UNCHANGED <<path, marker, cli, executed>>

-----------------------------------------------------------------------------
(* Commands.                                                               *)

CommandAt(c, pc) == cli' = [cli EXCEPT ![c].pc = pc]

\* runStop writes the marker before anything else.
Begin(c) ==
  /\ cli[c].pc = "idle"
  /\ \E kind \in Kinds :
       /\ cli' = [cli EXCEPT ![c] = [Idle EXCEPT !.pc = "dial", !.kind = kind]]
       /\ marker' = (marker \/ kind = "stop")
  /\ UNCHANGED <<path, daemon, executed>>

\* SendRequest fails: send respawns, start spawns, stop and kill are done.
Unreachable(c) ==
  CommandAt(c, CASE cli[c].kind = "send" /\ ~cli[c].retried -> "marker"
                 [] cli[c].kind = "start" -> "unmark"
                 [] OTHER -> "done")

Dial(c) ==
  /\ cli[c].pc = "dial"
  /\ IF Gone(path) THEN Unreachable(c)
     ELSE cli' = [cli EXCEPT ![c].pc = "await", ![c].to = path]
  /\ UNCHANGED <<path, marker, daemon, executed>>

\* dispatch; start only pings.
Handle(c) ==
  /\ cli[c].pc = "await" /\ Answers(cli[c].to)
  /\ CommandAt(c, "handled")
  /\ executed' = IF cli[c].kind = "start" THEN executed
                 ELSE [executed EXCEPT ![c] = @ \union {cli[c].to}]
  /\ UNCHANGED <<path, marker, daemon>>

\* The reply, and after a kill the countdown to os.Exit.
Reply(c) ==
  LET to == cli[c].to
  IN  /\ cli[c].pc = "handled" /\ Answers(to)
      /\ CommandAt(c, "done")
      /\ IF cli[c].kind \in {"stop", "kill"} THEN DaemonAt(to, "dying") ELSE UNCHANGED daemon
      /\ UNCHANGED <<path, marker, executed>>

\* Broken, with a deadline of the client's own.
Broken_slow(c) == cli[c].pc \in {"await", "handled"}

\* The connection breaks, before or after the request was carried out.
Broken(c) == cli[c].pc \in {"await", "handled"} /\ Gone(cli[c].to)

Lost(c) ==
  /\ Broken(c) /\ Unreachable(c)
  /\ UNCHANGED <<path, marker, daemon, executed>>

Suppressed == marker

\* autoStartDaemon, and startAsBackground, which clears the marker first.
CheckMarker(c) ==
  /\ cli[c].pc = "marker"
  /\ CommandAt(c, IF Suppressed THEN "done" ELSE "spawn")
  /\ UNCHANGED <<path, marker, daemon, executed>>

Unmark(c) ==
  /\ cli[c].pc = "unmark" /\ marker' = FALSE
  /\ CommandAt(c, "spawn")
  /\ UNCHANGED <<path, daemon, executed>>

Spawn(c) ==
  LET d == Cardinality(Born) + 1
  IN  /\ cli[c].pc = "spawn" /\ d \in Daemons
      /\ daemon' = [daemon EXCEPT ![d] = [Unborn EXCEPT !.pc = "stat"]]
      /\ CommandAt(c, IF cli[c].kind = "start" THEN "done" ELSE "wait")
      /\ UNCHANGED <<path, marker, executed>>

\* Thirty pings, then one retry of the request.
AwaitDaemon(c) ==
  /\ cli[c].pc = "wait"
  /\ \/ Answers(path) /\ cli' = [cli EXCEPT ![c].pc = "dial", ![c].retried = TRUE]
     \/ Gone(path) /\ CommandAt(c, "done")
  /\ UNCHANGED <<path, marker, daemon, executed>>

DaemonStep(d) ==
  Stat(d) \/ Probe(d) \/ Ping(d) \/ RemoveSocket(d) \/ BindSocket(d) \/ BootDaemon(d)
  \/ Stall(d) \/ ExitDaemon(d)

CommandStep(c) ==
  Dial(c) \/ Handle(c) \/ Reply(c) \/ Lost(c) \/ CheckMarker(c) \/ Unmark(c) \/ Spawn(c)
  \/ AwaitDaemon(c)

SockNext ==
  \/ \E d \in Daemons : DaemonStep(d) \/ CrashDaemon(d)
  \/ \E c \in Commands : Begin(c) \/ CommandStep(c)

SockSpec == SockInit /\ [][SockNext]_sockVars
=============================================================================
