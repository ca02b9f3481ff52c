------------------------------ MODULE TwapStream ------------------------------
(***************************************************************************)
(* The RTDS connection of ChainlinkTwapMonitor (services/chainlink_twap.py): *)
(* one socket carries a spot and a TWAP topic; a watchdog gives the socket   *)
(* up when TWAP is silent, and the loop connects again.  Handling an         *)
(* observation takes time, and the messages after it wait.                  *)
(***************************************************************************)
EXTENDS Integers, FiniteSets, FiniteSetsExt

CONSTANTS Stall, Period,  \* of the watchdog: silence it accepts, time between checks
          Retry,          \* wait before a new connection
          Handling,       \* longest time an observation is handled
          Horizon         \* bound: the clock

ConstantsOK ==
  {Stall, Period, Retry, Handling, Horizon} \subseteq Nat /\ Period > 0

VARIABLES clock,
          socket,    \* up or down, since when, time of the next check or retry
          received,  \* _last_received_at, of each topic
          handling,  \* topic being handled and since when
          sent,      \* time of the last TWAP message the server sent on this connection
          silent     \* the TWAP topic has stopped at the source

vars == <<clock, socket, received, handling, sent, silent>>

Times  == 0 .. Horizon
Never  == -1
Topics == {"spot", "twap"}
Free   == [topic |-> "none", since |-> 0]

twap_stream_is_stale == clock - Max({socket.since, received["twap"]}) > Stall

Connects ==
  /\ ~socket.up /\ clock >= socket.next
  /\ socket' = [up |-> TRUE, since |-> clock, next |-> clock + Period]
  /\ received' = [p \in Topics |-> Never]
  /\ sent' = Never
  /\ UNCHANGED <<clock, handling, silent>>

\* The loop leaves the connection; what it was handling ends with it.
Leaves == /\ socket' = [up |-> FALSE, since |-> clock, next |-> clock + Retry]
          /\ handling' = Free
          /\ UNCHANGED <<clock, received, sent, silent>>

\* The connection breaks, or handling an observation raises.
Disconnects == socket.up /\ Leaves

stale_watchdog ==
  /\ socket.up /\ clock >= socket.next
  /\ IF twap_stream_is_stale THEN Leaves
     ELSE /\ socket' = [socket EXCEPT !.next = clock + Period]
          /\ UNCHANGED <<clock, received, handling, sent, silent>>

Waiting == sent > received["twap"]

\* Variant: the time of receipt is noted under one topic for both.
handle_observation_unnoted(p) ==
  /\ socket.up /\ handling = Free
  /\ CASE p = "twap" -> Waiting
       [] p = "spot" -> ~Waiting \/ received["spot"] <= received["twap"]
  /\ received' = [received EXCEPT !["spot"] = clock]
  /\ handling' = [topic |-> p, since |-> clock]
  /\ UNCHANGED <<clock, socket, sent, silent>>

\* handle_observation: messages are read in the order they came, a spot message between
\* two of TWAP; the row is stored, the time of receipt noted, then candles and
\* snapshots follow, before the next message is read.
handle_observation(p) ==
  /\ socket.up /\ handling = Free
  /\ CASE p = "twap" -> Waiting
       [] p = "spot" -> ~Waiting \/ received["spot"] <= received["twap"]
  /\ received' = [received EXCEPT ![p] = clock]
  /\ handling' = [topic |-> p, since |-> clock]
  /\ UNCHANGED <<clock, socket, sent, silent>>

Handled == /\ handling # Free /\ handling' = Free
           /\ UNCHANGED <<clock, socket, received, sent, silent>>

ServerSends == /\ socket.up /\ ~silent /\ sent # clock /\ sent' = clock
               /\ UNCHANGED <<clock, socket, received, handling, silent>>

TopicStops == ~silent /\ silent' = TRUE /\ UNCHANGED <<clock, socket, received, handling, sent>>

\* Timers fire, handling ends in time, what arrived is read when nothing is handled, and
\* a topic that has not stopped has a message at every time.
Urgent == \/ socket.up /\ clock >= socket.next
          \/ handling # Free /\ clock >= handling.since + Handling
          \/ socket.up /\ handling = Free /\ Waiting
          \/ socket.up /\ ~silent /\ sent # clock

TimePasses == /\ clock < Horizon /\ ~Urgent
              /\ clock' = clock + 1
              /\ UNCHANGED <<socket, received, handling, sent, silent>>

Init == /\ clock = 0 /\ socket = [up |-> FALSE, since |-> 0, next |-> 0]
        /\ received = [p \in Topics |-> Never] /\ sent = Never
        /\ handling = Free /\ silent = FALSE

Next == \/ Connects \/ Disconnects \/ stale_watchdog \/ Handled \/ ServerSends \/ TopicStops
        \/ TimePasses
        \/ \E p \in Topics : handle_observation(p)

Spec == Init /\ [][Next]_vars

------------------------------------------------------------------------------
\* Types; handling goes on only on an open connection.
TypeOK ==
  /\ clock \in Times /\ silent \in BOOLEAN /\ sent \in Times \cup {Never}
  /\ socket \in [up : BOOLEAN, since : Times, next : 0 .. (Horizon + Period + Retry)]
  /\ received \in [Topics -> Times \cup {Never}]
  /\ handling.topic \in Topics \cup {"none"}
  /\ handling # Free => socket.up

\* A connection whose TWAP topic is silent is given up in time, whatever else arrives on
\* it: the watchdog looks at TWAP only, from the connection on.
SilenceEnds ==
  socket.up => clock - Max({socket.since, received["twap"]}) <= Stall + Period

\* The watchdog gives up no connection on which TWAP messages have kept coming, as long as
\* handling two observations, one of each topic, is quicker than the silence it accepts.
LiveIsKept ==
  [][socket.up /\ ~socket'.up /\ stale_watchdog => silent]_vars
================================================================================
