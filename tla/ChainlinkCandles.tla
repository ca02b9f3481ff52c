--------------------------- MODULE ChainlinkCandles ---------------------------
(***************************************************************************)
(* Aggregation of Chainlink spot ticks into candles                         *)
(* (ChainlinkCandleAggregator in services/chainlink_twap.py): minutes are   *)
(* stored with every tick, wider candles when they close; a restart rebuilds *)
(* the wider ones from stored minutes.  The official result of a market may  *)
(* be stored for a wide window that ended (finalize_closed_market).          *)
(*                                                                         *)
(* A tick is identified by its time of observation, a candle's prices by the *)
(* ticks behind them: first and last for open and close, all for high, low.  *)
(***************************************************************************)
EXTENDS Integers, FiniteSets, FiniteSetsExt

CONSTANTS Intervals, Minute,   \* CHAINLINK_CANDLE_INTERVALS, "1m" among them
          Width,               \* of each interval, in units of time
          Stale,               \* chainlink_twap_stale_seconds
          Late,                \* how much older than the newest a tick may be
          Lag,                 \* how much later than a tick the clock may be
          Horizon,             \* bound: times of observation
          MaxFailures, MaxRestarts

ASSUME ChainlinkAssumption ==
  /\ Minute \in Intervals /\ Width \in [Intervals -> Nat \ {0}]
  /\ \A i \in Intervals : Width[i] % Width[Minute] = 0
  /\ {Stale, Late, Lag, Horizon, MaxFailures, MaxRestarts} \subseteq Nat

VARIABLES stored,       \* rows of candles, by interval and open time
          current,      \* _current
          last_tick,    \* _last_tick_at
          initialized,  \* _initialized
          newest,       \* time of the newest tick on the stream
          heard,        \* ticks whose handling was committed
          ahead,        \* history: a rebuild had its clock in a later window than its tick
          failures, restarts

vars == <<stored, current, last_tick, initialized, newest, heard, ahead, failures, restarts>>

Times == 0 .. Horizon
None  == [open |-> -1]
Never == -1

interval_open_time(t, i) == t - (t % Width[i])
Opens(i) == {interval_open_time(t, i) : t \in Times}
close_time(c, i) == c.open + Width[i] - 1

------------------------------------------------------------------------------
aggregate_spot_candle(previous, t, i) ==
  LET open == interval_open_time(t, i) IN
  IF previous # None /\ previous.open = open
  THEN [previous EXCEPT !.last = t, !.ticks = @ \cup {t}]
  ELSE [open |-> open, first |-> t, last |-> t, ticks |-> {t}, closed |-> FALSE,
        complete |-> t - open <= Stale, source |-> "chainlink"]

\* Variant: a candle whose last tick is not known counts as heard to the end.
ClosedUnheard(previous, i, tick) ==
  [previous EXCEPT !.closed = TRUE,
     !.complete = @ /\ (tick = Never \/ close_time(previous, i) - tick <= Stale)]

\* A candle is complete when its first and its last tick are near its ends.
Closed(previous, i, tick) ==
  [previous EXCEPT !.closed = TRUE,
     !.complete = @ /\ tick # Never /\ close_time(previous, i) - tick <= Stale]

\* The candle of a wide window made of stored minutes.
aggregate_one_minute_window(minutes, i, now) ==
  LET open == interval_open_time(now, i)
      opens == {o \in Opens(Minute) : o >= open /\ o <= now /\ minutes[o] # None}
  IN IF opens = {} THEN None
     ELSE [open |-> open, first |-> minutes[Min(opens)].first, last |-> minutes[Max(opens)].last,
           ticks |-> UNION {minutes[o].ticks : o \in opens}, closed |-> FALSE, source |-> "chainlink",
           complete |-> /\ opens = {o \in Opens(Minute) : o >= open /\ o <= Max(opens)}
                        /\ \A o \in opens : minutes[o].complete]

Rows(i) == {o \in Opens(i) : stored[i][o] # None}

\* The last of list_candles, when it is still open.
OpenRow(i) == IF Rows(i) = {} \/ stored[i][Max(Rows(i))].closed THEN None ELSE stored[i][Max(Rows(i))]

\* Variant: wide candles start anew.
InitializedMinute(now) ==
  [i \in Intervals |-> OpenRow(i)]

\* _initialize: the newest row of each interval, and wide candles rebuilt from minutes.
Initialized(now) ==
  [i \in Intervals |->
     IF i = Minute THEN OpenRow(i)
     ELSE LET rebuilt == aggregate_one_minute_window(stored[Minute], i, now) IN
          IF rebuilt # None THEN rebuilt ELSE OpenRow(i)]

Before(now) == IF initialized THEN current ELSE Initialized(now)

\* Variant: the last tick is only recorded when a candle starts.
MovesFirstTick(t, before) ==
  /\ current' = [i \in Intervals |-> aggregate_spot_candle(before[i], t, i)]
  /\ last_tick' = [i \in Intervals |-> IF before[i] # None /\ before[i].open = interval_open_time(t, i)
                                       THEN last_tick[i] ELSE t]
  /\ initialized' = TRUE
  /\ newest' = Max({newest, t})

\* handle: every interval moves on in memory, under the lock.
Moves(t, before) ==
  /\ current' = [i \in Intervals |-> aggregate_spot_candle(before[i], t, i)]
  /\ last_tick' = [i \in Intervals |-> t]
  /\ initialized' = TRUE
  /\ newest' = Max({newest, t})

\* candles_to_persist: closed candles of every interval, and the current minute.
persist(before, t, i, o) ==
  IF before[i] # None /\ before[i].open = o /\ o # interval_open_time(t, i)
  THEN Closed(before[i], i, last_tick[i])
  ELSE IF i = Minute /\ o = interval_open_time(t, i) THEN aggregate_spot_candle(before[i], t, i)
  ELSE stored[i][o]

Published(t) == t >= newest - Late

Overtakes(t, now) ==
  ahead \/ (~initialized /\ \E i \in Intervals : interval_open_time(now, i) # interval_open_time(t, i))

Handles(t, now) ==
  /\ Published(t)
  /\ Moves(t, Before(now))
  /\ stored' = [i \in Intervals |-> [o \in Opens(i) |-> persist(Before(now), t, i, o)]]
  /\ heard' = heard \cup {t}
  /\ ahead' = Overtakes(t, now)
  /\ UNCHANGED <<failures, restarts>>

\* The candles are not stored, but memory has moved.
HandleFails(t, now) ==
  /\ Published(t)
  /\ failures < MaxFailures
  /\ failures' = failures + 1
  /\ Moves(t, Before(now))
  /\ ahead' = Overtakes(t, now)
  /\ UNCHANGED <<stored, heard, restarts>>

\* Variant: the official result overwrites what is stored.
OfficialOverwrites(i, o) ==
  /\ i # Minute
  /\ o + Width[i] <= newest + 1
  /\ stored' = [stored EXCEPT ![i][o] =
       [open |-> o, first |-> o, last |-> o, ticks |-> {}, closed |-> TRUE,
        complete |-> FALSE, source |-> "polymarket"]]
  /\ UNCHANGED <<current, last_tick, initialized, newest, heard, ahead, failures, restarts>>

\* insert_candles_if_missing of past_result_candle, once the window is over.
OfficialResult(i, o) ==
  /\ i # Minute
  /\ o + Width[i] <= newest + 1
  /\ stored[i][o] = None
  /\ stored' = [stored EXCEPT ![i][o] =
       [open |-> o, first |-> o, last |-> o, ticks |-> {}, closed |-> TRUE,
        complete |-> FALSE, source |-> "polymarket"]]
  /\ UNCHANGED <<current, last_tick, initialized, newest, heard, ahead, failures, restarts>>

Restart ==
  /\ restarts < MaxRestarts
  /\ restarts' = restarts + 1
  /\ current' = [i \in Intervals |-> None]
  /\ last_tick' = [i \in Intervals |-> Never]
  /\ initialized' = FALSE
  /\ UNCHANGED <<stored, newest, heard, ahead, failures>>

Init ==
  /\ stored = [i \in Intervals |-> [o \in Opens(i) |-> None]]
  /\ current = [i \in Intervals |-> None]
  /\ last_tick = [i \in Intervals |-> Never]
  /\ initialized = FALSE
  /\ newest = 0 /\ heard = {} /\ ahead = FALSE
  /\ failures = 0 /\ restarts = 0

Next ==
  \/ \E t \in Times : \E now \in t .. (t + Lag) : Handles(t, now) \/ HandleFails(t, now)
  \/ \E i \in Intervals : \E o \in Opens(i) : OfficialResult(i, o)
  \/ Restart

Spec == Init /\ [][Next]_vars

------------------------------------------------------------------------------
Candles == [open : Times, first : Times, last : Times, ticks : SUBSET Times, closed : BOOLEAN,
            complete : BOOLEAN, source : {"chainlink", "polymarket"}]

\* Types; once initialised there is a current candle of every interval, it has a tick and
\* it holds the last one.
TypeOK ==
  /\ \A i \in Intervals : \A o \in Opens(i) :
       stored[i][o] = None \/ (stored[i][o] \in Candles /\ stored[i][o].open = o)
  /\ \A i \in Intervals : IF initialized
       THEN current[i] \in Candles /\ current[i].last = last_tick[i] /\ ~current[i].closed
       ELSE current[i] = None /\ last_tick[i] = Never
  /\ newest \in Times /\ heard \subseteq Times /\ ahead \in BOOLEAN
  /\ failures \in 0 .. MaxFailures /\ restarts \in 0 .. MaxRestarts

FromStream(i, o) == stored[i][o] # None /\ stored[i][o].source = "chainlink"

HasCommitted(i, o) == {t \in heard : interval_open_time(t, i) = o} \subseteq stored[i][o].ticks

\* A closed candle marked as complete has every tick of its window whose handling was
\* committed, also when the process restarted in the middle of it or a commit failed, and
\* it was heard near both of its ends: nothing vouches for its end across a restart.
CompleteIsTrue ==
  \A i \in Intervals : \A o \in Opens(i) :
    FromStream(i, o) /\ stored[i][o].closed /\ stored[i][o].complete =>
      /\ HasCommitted(i, o)
      /\ \E t \in stored[i][o].ticks : t - o <= Stale
      /\ \E t \in stored[i][o].ticks : close_time(stored[i][o], i) - t <= Stale

\* Every closed candle of the stream has them: what is materialised agrees with the minutes
\* (requirements/step6.plan.md:20).
ClosedHasCommitted ==
  \A i \in Intervals : \A o \in Opens(i) :
    FromStream(i, o) /\ stored[i][o].closed => HasCommitted(i, o)

\* A closed candle from the stream is final: neither a later tick, a restart nor the
\* official result changes it.
ClosedIsFinal ==
  [][\A i \in Intervals : \A o \in Opens(i) :
       FromStream(i, o) /\ stored[i][o].closed => stored'[i][o] = stored[i][o]]_vars

\* Only the newest minute is open: the minute a restart interrupted is closed by the next tick.
OnlyNewestOpen ==
  \A o \in Rows(Minute) : o # Max(Rows(Minute)) => stored[Minute][o].closed

Replayed(i) == aggregate_one_minute_window(stored[Minute], i, newest)

\* The prices of the live candles can be rebuilt from stored minutes (chainlink_twap.py:795).
PricesReplayable ==
  \A i \in Intervals \ {Minute} : initialized =>
    /\ current[i].ticks = Replayed(i).ticks
    /\ current[i].first = Replayed(i).first /\ current[i].last = Replayed(i).last

\* The stored minutes tell the rest, whatever restarts, as long as no commit failed and no
\* rebuild had its clock ahead of its tick: the prices of live candles, the ticks of closed
\* ones, and no minute but the newest is left open.
MinutesReplay ==
  failures = 0 /\ ~ahead => PricesReplayable /\ ClosedHasCommitted /\ OnlyNewestOpen
===============================================================================
