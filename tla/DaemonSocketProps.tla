-------------------------- MODULE DaemonSocketProps --------------------------
(* What the socket and the stop marker are for.                            *)
EXTENDS DaemonSocket

(* A daemon that serves, and has answered every probe within probeTimeout,  *)
(* loses its path only to one that looked before it served: whoever probes  *)
(* it leaves the socket alone, dies on it or on the address in use, however *)
(* many start and die at once.  One that is too slow for a probe is         *)
(* replaced while it lives, as daemonAnswers intends (clearSocket).         *)
IncumbentKeepsPath ==
  [][\A d \in Daemons :
       path = d /\ daemon[d].pc = "serve" /\ path' # path =>
         \E e \in Daemons : daemon[e].pc = "remove" /\ daemon'[e].pc = "listen"
                            /\ d \notin daemon[e].seen]_sockVars

(* A request is carried out by one daemon, and by a second one only when   *)
(* the first died before the client had its answer (Send).                 *)
AnsweredOnce ==
  \A c \in Commands :
    /\ Cardinality(executed[c]) <= 2
    /\ \A d \in executed[c] : d = cli[c].to \/ Gone(d)

(* listener.go: "The daemon is a singleton per socket path."  Two daemons   *)
(* that found the socket of a dead one remove it in turn: the second        *)
(* removes the live socket of the first, and both serve (clearSocket).      *)
(* Daemons that a probe may find too slow, and replace, are not counted.    *)
DaemonIsSingleton == Cardinality({d \in Daemons : daemon[d].pc = "serve"}) <= 1
=============================================================================
