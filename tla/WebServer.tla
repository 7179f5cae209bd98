------------------------------- MODULE WebServer -------------------------------
(* The daemon's HTTP port: the webhook that triggers a workflow, its rate  *)
(* limiter, and the list of runs, with runs that end meanwhile.            *)
EXTENDS Naturals, Sequences, FiniteSets, SequencesExt

CONSTANTS
  Workflows,
  Requests,      \* goroutines that serve a request, one each
  MaxRun,        \* bound: runs
  MaxRuns,       \* MaxConcurrentRuns
  MaxTime, Window, Burst, \* rateWindow, rateBurst
  MaxLimit,      \* maxQueryLimit
  None

ASSUME WebAssumption ==
  /\ Burst \in Nat \ {0} /\ MaxRuns \in Nat \ {0} /\ Window \in Nat /\ MaxTime \in Nat
  /\ MaxRun \in Nat /\ MaxLimit \in Nat \ {0}

VARIABLES
  clock,
  port,          \* "off", "bound", "unavailable"
  hits,          \* rateLimiter.hits, by the name in the URL
  live,          \* the engine's in-flight runs: workflow -> run or 0
  finished,      \* workflow runs that left the engine, not yet journaled
  history,       \* the journal, oldest first
  lastRun,
  request,
  triggered      \* every time the webhook let one through, by name

webVars == <<clock, port, hits, live, finished, history, lastRun, request, triggered>>

\* What a client may send: a name the engine knows or not, a body that
\* passes the checks before the limiter or fails one of them.
Names == Workflows \union {"unknown"}
Bodies == {"ok", "media", "large", "malformed", "params"}
NoRequest == [pc |-> "idle", name |-> None, status |-> 0, run |-> 0, limit |-> 0,
              journal |-> <<>>, rows |-> <<>>, since |-> {}]

WebInit ==
  /\ clock = 0 /\ port = "off"
  /\ hits = [n \in Names |-> <<>>] /\ triggered = [n \in Names |-> <<>>]
  /\ live = [w \in Workflows |-> 0] /\ finished = {} /\ history = <<>> /\ lastRun = 0
  /\ request = [r \in Requests |-> NoRequest]

Tick ==
  /\ clock < MaxTime /\ clock' = clock + 1
  /\ UNCHANGED <<port, hits, live, finished, history, lastRun, request, triggered>>

\* startWeb: a port that is taken degrades the daemon, it does not stop it.
StartWeb ==
  /\ port = "off" /\ port' \in {"bound", "unavailable"}
  /\ UNCHANGED <<clock, hits, live, finished, history, lastRun, request, triggered>>

Answer(r, status) ==
  request' = [request EXCEPT ![r] = [NoRequest EXCEPT !.pc = "answered", !.status = status]]

\* guard, then the order in which handleWebhook refuses.
Refusal(origin, body) ==
  CASE ~origin -> 403
    [] body = "media" -> 415
    [] body \in {"large", "malformed", "params"} -> 400
    [] OTHER -> 0

\* The attempts of the last Window, in their order.
Fresh(times) ==
  LET kept == {i \in DOMAIN times : times[i] + Window > clock}
      nth(n) == CHOOSE i \in kept : Cardinality({j \in kept : j <= i}) = n
  IN  [n \in 1..Cardinality(kept) |-> times[nth(n)]]

\* allow: one critical section; a refused attempt is not counted.
Webhook(r) ==
  /\ port = "bound" /\ request[r].pc = "idle"
  /\ \E name \in Names, origin \in BOOLEAN, body \in Bodies :
       LET kept == Fresh(hits[name])
           admitted == Refusal(origin, body) = 0 /\ Len(kept) < Burst
       IN  /\ hits' = IF Refusal(origin, body) # 0 THEN hits
                      ELSE [hits EXCEPT ![name] = IF admitted THEN Append(kept, clock) ELSE kept]
           /\ triggered' = IF admitted THEN [triggered EXCEPT ![name] = Append(@, clock)]
                           ELSE triggered
           /\ IF admitted
              THEN request' = [request EXCEPT ![r] = [NoRequest EXCEPT !.pc = "trigger",
                                                                      !.name = name]]
              ELSE Answer(r, IF Refusal(origin, body) # 0 THEN Refusal(origin, body) ELSE 429)
  /\ UNCHANGED <<clock, port, live, finished, history, lastRun>>

InFlightRuns == {live[w] : w \in Workflows} \ {0}

\* WebTriggerWorkflow, under the engine's lock, and the errors it maps.
Trigger(r) ==
  LET name == request[r].name
  IN  /\ request[r].pc = "trigger" /\ lastRun < MaxRun
      /\ IF name \notin Workflows THEN Answer(r, 404) /\ UNCHANGED <<live, lastRun>>
         ELSE IF live[name] # 0 THEN Answer(r, 409) /\ UNCHANGED <<live, lastRun>>
         ELSE IF Cardinality(InFlightRuns) >= MaxRuns
         THEN Answer(r, 503) /\ UNCHANGED <<live, lastRun>>
         ELSE /\ live' = [live EXCEPT ![name] = lastRun + 1] /\ lastRun' = lastRun + 1
              /\ request' = [request EXCEPT ![r] = [NoRequest EXCEPT !.pc = "answered",
                                !.status = 202, !.run = lastRun + 1]]
      /\ UNCHANGED <<clock, port, hits, finished, history, triggered>>

\* RunEnds, with the record written while the slot is still held.
RunEnds_after(w) ==
  /\ live[w] # 0 /\ finished' = finished \union {live[w]}
  /\ UNCHANGED <<clock, port, hits, live, history, lastRun, request, triggered>>

\* A run leaves the engine before it is journaled.
RunEnds(w) ==
  /\ live[w] # 0 /\ live' = [live EXCEPT ![w] = 0]
  /\ finished' = finished \union {live[w]}
  /\ UNCHANGED <<clock, port, hits, history, lastRun, request, triggered>>

Journaled(run) ==
  /\ run \in finished /\ finished' = finished \ {run} /\ history' = Append(history, run)
  /\ UNCHANGED <<clock, port, hits, live, lastRun, request, triggered>>

Newest(limit) ==
  SubSeq(Reverse(history), 1, IF limit < Len(history) THEN limit ELSE Len(history))

\* handleWorkflowRuns reads the journal ...
ListRuns(r) ==
  /\ port = "bound" /\ request[r].pc = "idle"
  /\ \E asked \in 1..(MaxLimit + 1) :
       LET limit == IF asked < MaxLimit THEN asked ELSE MaxLimit
       IN  request' = [request EXCEPT ![r] =
             [NoRequest EXCEPT !.pc = "live", !.limit = limit, !.journal = Newest(limit),
                               !.since = InFlightRuns]]
  /\ UNCHANGED <<clock, port, hits, live, finished, history, lastRun, triggered>>

\* ... and puts the live runs, read after it, in front.
AddLive(r) ==
  /\ request[r].pc = "live"
  /\ \E order \in SetToSeqs(InFlightRuns) :
       request' = [request EXCEPT ![r] =
         [NoRequest EXCEPT !.pc = "answered", !.status = 200,
                           !.rows = order \o request[r].journal, !.since = request[r].since]]
  /\ UNCHANGED <<clock, port, hits, live, finished, history, lastRun, triggered>>

\* The client has its answer.
NextRequest(r) ==
  /\ request[r].pc = "answered" /\ request' = [request EXCEPT ![r] = NoRequest]
  /\ UNCHANGED <<clock, port, hits, live, finished, history, lastRun, triggered>>

WebNext ==
  \/ Tick \/ StartWeb
  \/ \E r \in Requests :
       Webhook(r) \/ Trigger(r) \/ ListRuns(r) \/ AddLive(r) \/ NextRequest(r)
  \/ \E w \in Workflows : RunEnds(w)
  \/ \E run \in finished : Journaled(run)

WebSpec == WebInit /\ [][WebNext]_webVars

(* A list of runs names no run twice, as running and as finished, whatever *)
(* ends while it is put together, has every run that was in flight all the *)
(* time, and no more finished ones than were asked for; a trigger that was *)
(* accepted names the run it started and nobody else's; and of one name no *)
(* more than Burst triggers pass in any Window (handleWorkflowRuns,        *)
(* handleWebhook, allow).                                                  *)
WebAnswersHold ==
  /\ \A r \in Requests :
       LET q == request[r]
       IN  q.pc = "answered" =>
             /\ \A i, j \in DOMAIN q.rows : i # j => q.rows[i] # q.rows[j]
             /\ q.status = 200 => \A run \in q.since \intersect InFlightRuns :
                                    \E i \in DOMAIN q.rows : q.rows[i] = run
             /\ Len(q.rows) <= MaxLimit + MaxRuns
             /\ \A o \in Requests \ {r} : q.run # 0 => request[o].run # q.run
  /\ \A n \in Names : \A i \in DOMAIN triggered[n] :
       i > Burst => triggered[n][i] >= triggered[n][i - Burst] + Window
=============================================================================
