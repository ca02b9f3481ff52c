--------------------------- MODULE StreamEndpoints ---------------------------
(***************************************************************************)
(* Which of several websocket endpoints of the exchange the live stream is   *)
(* read from (BinanceMonitor.ws_loop).  Every endpoint is probed with a ping *)
(* from time to time and after each failure; the loop connects to the one    *)
(* that answered fastest.  The endpoints come and go while a probe runs, and *)
(* one that answers pings need not keep a stream.                            *)
(***************************************************************************)
EXTENDS Naturals, Sequences

CONSTANTS
  Urls,         \* the configured endpoints, in their order
  Latencies,    \* what a ping that is answered may take
  Adaptive,     \* binance_ws_adaptive_enabled
  MaxFailures   \* bound: failures are counted up to here

Endpoints == 1 .. Len(Urls)

\* No answer (latency_ms is None); slower than every answer.
None == 1 + CHOOSE l \in Latencies : \A k \in Latencies : k <= l

ConstantsOK ==
  /\ Len(Urls) \in Nat \ {0} /\ Adaptive \in BOOLEAN /\ MaxFailures \in Nat \ {0}
  /\ Latencies \subseteq Nat \ {0} /\ \E l \in Latencies : \A k \in Latencies : k <= l

VARIABLES
  ping,     \* what a ping of an endpoint takes now
  streams,  \* the endpoints that accept and keep a stream now
  score,    \* _ws_endpoint_scores: the last latency, and the failures since a success
  due,      \* some endpoint was last probed long ago, or never, or has failed since
  loop,     \* where ws_loop is: selecting, probing (then: what for), connecting, ...
  heard     \* history: what the last probe heard of each endpoint

vars == <<ping, streams, score, due, loop, heard>>

Unscored == [latency |-> None, failures |-> 0]
At(where) == [at |-> where, url |-> 0, then |-> "none", results |-> <<>>]
Connecting(u) == [At("connect") EXCEPT !.url = u]
Probing(then) == [At("probe") EXCEPT !.then = then, !.results = [u \in Endpoints |-> 0]]

TypeOK ==
  /\ ping \in [Endpoints -> Latencies \cup {None}] /\ streams \subseteq Endpoints
  /\ score \in [Endpoints -> [latency : Latencies \cup {None}, failures : 0 .. MaxFailures]]
  /\ due \in BOOLEAN /\ heard \in [Endpoints -> Latencies \cup {None}]
  /\ loop.at \in {"select", "probe", "connect", "open", "sleep"}
  /\ loop.at \in {"connect", "open"} <=> loop.url \in Endpoints
  /\ loop.at = "probe" <=> loop.then \in {"connect", "sleep"}

Init ==
  /\ ping \in [Endpoints -> Latencies \cup {None}] /\ streams \in SUBSET Endpoints
  /\ score = [u \in Endpoints |-> Unscored] /\ due = TRUE
  /\ loop = At("select") /\ heard = [u \in Endpoints |-> None]
----
\* The network: an endpoint changes, and the time of a probe comes.
Changes(u) ==
  /\ \E l \in Latencies \cup {None} : ping' = [ping EXCEPT ![u] = l]
  /\ \E s \in {streams \cup {u}, streams \ {u}} : streams' = s
  /\ UNCHANGED <<score, due, loop, heard>>

IntervalPasses == due' = TRUE /\ UNCHANGED <<ping, streams, score, loop, heard>>
----
Worse(s) == [s EXCEPT !.failures = IF @ < MaxFailures THEN @ + 1 ELSE @]

\* The fastest endpoint, of equal ones the one with fewer failures, of those the first.
Before(s, t) == \/ s.latency < t.latency
                \/ s.latency = t.latency /\ s.failures < t.failures
Best(scores) ==
  IF Adaptive
  THEN CHOOSE u \in Endpoints : /\ \A v \in Endpoints : ~Before(scores[v], scores[u])
                                /\ \A v \in 1 .. u - 1 : Before(scores[u], scores[v])
  ELSE 1

\* The loop selects an endpoint, and probes them all first when it is time.
select_ws_endpoint ==
  /\ loop.at = "select"
  /\ loop' = IF Adaptive /\ due THEN Probing("connect") ELSE Connecting(Best(score))
  /\ UNCHANGED <<ping, streams, score, due, heard>>

\* One of the pings is answered, or times out.
probe_ws_endpoint(u) ==
  /\ loop.at = "probe" /\ loop.results[u] = 0
  /\ loop' = [loop EXCEPT !.results[u] = ping[u]]
  /\ UNCHANGED <<ping, streams, score, due, heard>>

Scored(s, latency) ==
  IF latency = None THEN [Worse(s) EXCEPT !.latency = None] ELSE [latency |-> latency, failures |-> 0]

\* All results are there; after a failure the next endpoint is only named in the log, and the
\* loop selects again after its pause.
probe_ws_endpoints ==
  /\ loop.at = "probe" /\ \A u \in Endpoints : loop.results[u] # 0
  /\ score' = [u \in Endpoints |-> Scored(score[u], loop.results[u])]
  /\ due' = FALSE /\ heard' = loop.results
  /\ loop' = IF loop.then = "connect" THEN Connecting(Best(score')) ELSE At("sleep")
  /\ UNCHANGED <<ping, streams>>
----
ws_once ==
  /\ loop.at = "connect" /\ loop.url \in streams
  /\ loop' = [loop EXCEPT !.at = "open"]
  /\ UNCHANGED <<ping, streams, score, due, heard>>

\* No connection, or an error while the stream is read: the network's, or the handler's.
Fails ==
  /\ score' = [score EXCEPT ![loop.url] = [Worse(@) EXCEPT !.latency = None]]
  /\ due' = TRUE
  /\ loop' = IF Adaptive THEN Probing("sleep") ELSE At("sleep")
  /\ UNCHANGED <<ping, streams, heard>>
ConnectFails == loop.at = "connect" /\ loop.url \notin streams /\ Fails
StreamFails  == loop.at = "open" /\ loop.url \notin streams /\ Fails
HandlerFails == loop.at = "open" /\ loop.url \in streams /\ Fails

\* The server closes the stream in order: no pause.
StreamEnds ==
  /\ loop.at = "open"
  /\ score' = [score EXCEPT ![loop.url].failures = 0]
  /\ loop' = At("select")
  /\ UNCHANGED <<ping, streams, due, heard>>

\* The pause after a failure ends (1, 2, 4, ... at most 30 seconds).
Pauses == loop.at = "sleep" /\ loop' = At("select") /\ UNCHANGED <<ping, streams, score, due, heard>>

Next ==
  \/ \E u \in Endpoints : Changes(u) \/ probe_ws_endpoint(u)
  \/ IntervalPasses \/ select_ws_endpoint \/ probe_ws_endpoints
  \/ ws_once \/ ConnectFails \/ StreamFails \/ HandlerFails \/ StreamEnds \/ Pauses

\* The loop goes on by itself: pings and connection attempts have timeouts, the pause ends, and
\* the library's own pings notice a stream that is gone.
LoopSteps == \/ select_ws_endpoint \/ \E u \in Endpoints : probe_ws_endpoint(u)
             \/ probe_ws_endpoints \/ ws_once \/ ConnectFails \/ StreamFails \/ Pauses

Spec == Init /\ [][Next]_vars /\ WF_vars(LoopSteps)
----
\* Where the loop connects to is the fastest of the endpoints that answered the last probe (an
\* endpoint that has failed is probed again before any choice), however the scores came about
\* (_select_ws_endpoint's min and _probe_ws_endpoints).
BestEndpoint ==
  Adaptive /\ loop.at = "connect" =>
    \A u \in Endpoints : heard[loop.url] <= heard[u]

\* When in the end some endpoints answer pings and keep a stream and the others do neither, the
\* stream is open again and again, whatever failed before and however fast each one answers.  (An
\* endpoint that answers and does not keep a stream may be chosen again and again: the probe
\* after its failure restores its score.)
Serves(u) == ping[u] # None /\ u \in streams
StreamRecovers ==
  /\ \E u \in Endpoints : <>[]Serves(u)
  /\ \A u \in Endpoints : <>[]Serves(u) \/ <>[](ping[u] = None)
  => []<>(loop.at = "open")
==============================================================================
