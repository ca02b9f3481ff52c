---------------------------- MODULE Notifications ----------------------------
(***************************************************************************)
(* From a closed candle to a Telegram message: finalisation of a closed     *)
(* Polymarket market (services/chainlink_twap.py), the signal pipeline      *)
(* (market_signal_pipeline.py), signal rows (signal_analysis.py), delivery  *)
(* rows and the Telegram call (notifications.py, external_http.py).         *)
(*                                                                         *)
(* Rows survive a restart; caches, sets and coroutines do not.  A worker is *)
(* a coroutine that finalises a closed market (market refresh, broadcast,   *)
(* route) or handles the closing event of a Binance candle.                 *)
(***************************************************************************)
EXTENDS Naturals, FiniteSets, Sequences

CONSTANTS Markets,      \* closed 5m and 15m markets, each with its Chainlink candle
          Hourly,       \* 1h and 4h Binance candles
          Workers,
          NoOne,
          Attempts,     \* RetryPolicy.attempts
          MaxFailures,  \* bound: failing calls (database, Polymarket)
          MaxCrashes,   \* bound: restarts
          MaxToggles    \* bound: changes of the Telegram switch

ASSUME NotificationsAssumption ==
  /\ Attempts \in Nat \ {0}
  /\ MaxFailures \in Nat /\ MaxCrashes \in Nat /\ MaxToggles \in Nat
  /\ Markets \cap Hourly = {} /\ NoOne \notin Workers

Candles    == Markets \cup Hourly
Keys       == Candles \X {"signal", "mismatch"}    \* build_delivery_key
Directions == {"up", "down"}

VARIABLES
  enabled,     \* app_settings: the switch
  configured,  \* token and chat id are in the environment of this process
  candle,      \* source of the stored closed candle
  verdict,     \* what the RSI-EMA rule says of each closed candle
  signal,      \* rows of signals: the official direction in the stored snapshot
  row,         \* rows of notification_deliveries
  received,    \* messages in the chat
  cache,       \* _past_result_cache
  persisted,   \* _persisted_past_result_market_ids
  notified,    \* _notified_past_result_market_ids
  lock,        \* holder of _past_result_lock
  worker,      \* the coroutines
  failures, crashes, toggles

rows  == <<enabled, configured, candle, verdict, signal, row, received>>
memory == <<cache, persisted, notified, lock>>
bounds == <<failures, crashes, toggles>>
vars  == <<rows, memory, worker, bounds>>

Idle == [at |-> "idle", of |-> NoOne, result |-> "none", kinds |-> << >>,
         status |-> "none", tries |-> 0]

NoRow == [status |-> "none", sent_at |-> FALSE]

Key(w) == <<worker[w].of, Head(worker[w].kinds)>>

At(w, at) == worker[w].at = at

Goes(w, at) == worker' = [worker EXCEPT ![w].at = at]

Ends(w) == worker' = [worker EXCEPT ![w] = Idle]

\* The call that analysed and delivered returns, whatever happened in it.
Returns(w) == worker' = [worker EXCEPT ![w] = [Idle EXCEPT !.at = "broadcast", !.of = worker[w].of]]

Fails == failures < MaxFailures /\ failures' = failures + 1

------------------------------------------------------------------------------
(* Finalisation of a closed market *)

\* A price context or a market refresh wants the official result of a closed market.
Asks(w, m) == /\ At(w, "idle")
              /\ worker' = [worker EXCEPT ![w] = [Idle EXCEPT !.at = "result", !.of = m]]
              /\ UNCHANGED <<rows, memory, bounds>>

HasResult(w, d) == worker' = [worker EXCEPT ![w].at = "persist", ![w].result = d]

\* The market refresh takes the prices at the boundary of two adjacent markets.
polymarket_boundary_result(w, d) ==
  /\ At(w, "result")
  /\ HasResult(w, d)
  /\ UNCHANGED <<rows, memory, bounds>>

PastResultCached(w) ==
  /\ At(w, "result")
  /\ cache[worker[w].of] # "none"
  /\ HasResult(w, cache[worker[w].of])
  /\ UNCHANGED <<rows, memory, bounds>>

PastResultAsked(w) ==
  /\ At(w, "result")
  /\ lock = NoOne
  /\ cache[worker[w].of] = "none"
  /\ lock' = w
  /\ Goes(w, "fetch")
  /\ UNCHANGED <<rows, cache, persisted, notified, bounds>>

PastResultAnswered(w, d) ==
  /\ At(w, "fetch")
  /\ cache' = [cache EXCEPT ![worker[w].of] = d]
  /\ lock' = NoOne
  /\ HasResult(w, d)
  /\ UNCHANGED <<rows, persisted, notified, bounds>>

\* Variant: the lock is not released when the request fails.
PastResultFailsLocked(w) ==
  /\ At(w, "fetch")
  /\ Fails
  /\ Ends(w)
  /\ UNCHANGED <<rows, memory, crashes, toggles>>

PastResultFails(w) ==
  /\ At(w, "fetch")
  /\ Fails
  /\ lock' = NoOne
  /\ Ends(w)
  /\ UNCHANGED <<rows, cache, persisted, notified, crashes, toggles>>

\* insert_candles_if_missing under _past_result_persist_lock, once per process.
PersistsResult(w) ==
  LET m == worker[w].of IN
  /\ At(w, "persist")
  /\ candle' = IF m \notin persisted /\ candle[m] = "none"
               THEN [candle EXCEPT ![m] = "polymarket"] ELSE candle
  /\ persisted' = persisted \cup {m}
  /\ Goes(w, "check")
  /\ UNCHANGED <<enabled, configured, verdict, signal, row, received, cache, notified, lock, bounds>>

PersistFails(w) ==
  /\ At(w, "persist")
  /\ worker[w].of \notin persisted
  /\ Fails
  /\ Ends(w)
  /\ UNCHANGED <<rows, memory, crashes, toggles>>

\* notify_closed_market_signal: the set is read before the candle is.
ChecksNotified(w) ==
  /\ At(w, "check")
  /\ IF worker[w].of \in notified THEN Ends(w) ELSE Goes(w, "read")
  /\ UNCHANGED <<rows, memory, bounds>>

ReadsCandle(w) ==
  /\ At(w, "read")
  /\ IF candle[worker[w].of] = "chainlink" THEN Goes(w, "analyse") ELSE Ends(w)
  /\ UNCHANGED <<rows, memory, bounds>>

MarksNotified(w) ==
  /\ At(w, "broadcast")
  /\ notified' = notified \cup ({worker[w].of} \cap Markets)
  /\ Ends(w)
  /\ UNCHANGED <<rows, cache, persisted, lock, bounds>>

------------------------------------------------------------------------------
(* Closing of candles *)

\* The aggregator stores the closed candle over what is there, and notifies nobody.
ChainlinkCloses(m) ==
  /\ candle[m] # "chainlink"
  /\ candle' = [candle EXCEPT ![m] = "chainlink"]
  /\ UNCHANGED <<enabled, configured, verdict, signal, row, received, memory, worker, bounds>>

\* The Binance monitor stores a closed candle and hands its event on, once.
BinanceCloses(w, h) ==
  /\ At(w, "idle")
  /\ candle[h] = "none"
  /\ candle' = [candle EXCEPT ![h] = "binance"]
  /\ worker' = [worker EXCEPT ![w] = [Idle EXCEPT !.at = "analyse", !.of = h]]
  /\ UNCHANGED <<enabled, configured, verdict, signal, row, received, memory, bounds>>

------------------------------------------------------------------------------
(* The pipeline: record the signal, then deliver *)

\* delivery_direction_consistency of a stored snapshot, which has the official result
\* of a 5m or 15m market only.
delivery_direction_consistency(c, stored) ==
  IF c \in Hourly THEN "unknown"
  ELSE IF (verdict[c] = "long") = (stored = "up") THEN "same" ELSE "different"

process_signal_notifications(c, stored) ==
  IF delivery_direction_consistency(c, stored) = "different"
  THEN <<"signal", "mismatch">> ELSE <<"signal">>

\* Variant: a row that exists already is not returned.
AnalysesNewOnly(w) ==
  LET c == worker[w].of IN
  /\ At(w, "analyse")
  /\ IF verdict[c] = "none" \/ signal[c] # "none"
     THEN Returns(w) /\ UNCHANGED signal
     ELSE LET stored == IF c \in Hourly THEN "stored" ELSE worker[w].result IN
          /\ signal' = [signal EXCEPT ![c] = stored]
          /\ worker' = [worker EXCEPT ![w].at = "switch", ![w].result = "none",
                                      ![w].kinds = process_signal_notifications(c, stored)]
  /\ UNCHANGED <<enabled, configured, candle, verdict, row, received, memory, bounds>>

\* Variant: the delivery goes by the snapshot at hand, not by the stored one.
AnalysesUnstored(w) ==
  LET c == worker[w].of IN
  /\ At(w, "analyse")
  /\ IF verdict[c] = "none"
     THEN Returns(w) /\ UNCHANGED signal
     ELSE LET seen == IF c \in Hourly THEN "stored" ELSE worker[w].result IN
          /\ signal' = IF signal[c] = "none" THEN [signal EXCEPT ![c] = seen] ELSE signal
          /\ worker' = [worker EXCEPT ![w].at = "switch", ![w].result = "none",
                                      ![w].kinds = process_signal_notifications(c, seen)]
  /\ UNCHANGED <<enabled, configured, candle, verdict, row, received, memory, bounds>>

\* upsert_signal_record: the first snapshot of a candle stays.
Analyses(w) ==
  LET c == worker[w].of
      stored == IF signal[c] = "none" THEN (IF c \in Hourly THEN "stored" ELSE worker[w].result)
                ELSE signal[c] IN
  /\ At(w, "analyse")
  /\ IF verdict[c] = "none"
     THEN Returns(w) /\ UNCHANGED signal
     ELSE /\ signal' = [signal EXCEPT ![c] = stored]
          /\ worker' = [worker EXCEPT ![w].at = "switch", ![w].result = "none",
                                      ![w].kinds = process_signal_notifications(c, stored)]
  /\ UNCHANGED <<enabled, configured, candle, verdict, row, received, memory, bounds>>

\* process_telegram_delivery reads the switch and the configuration.
ReadsSwitch(w) ==
  /\ At(w, "switch")
  /\ worker' = [worker EXCEPT ![w].at = "insert",
       ![w].status = IF ~enabled THEN "skipped_disabled" ELSE IF ~configured THEN "error" ELSE "sent"]
  /\ UNCHANGED <<rows, memory, bounds>>

\* Variant: whoever finds the row sends too.
InsertsRowAnyway(w) ==
  /\ At(w, "insert")
  /\ row' = IF row[Key(w)].status = "none" THEN [row EXCEPT ![Key(w)].status = worker[w].status] ELSE row
  /\ worker' = [worker EXCEPT ![w].at = IF worker[w].status = "sent" THEN "send" ELSE "event",
                              ![w].status = "none"]
  /\ UNCHANGED <<enabled, configured, candle, verdict, signal, received, memory, bounds>>

\* insert_notification_delivery: only the creator of the row sends.
InsertsRow(w) ==
  LET k == Key(w)
      created == row[k].status = "none" IN
  /\ At(w, "insert")
  /\ row' = IF created THEN [row EXCEPT ![k].status = worker[w].status] ELSE row
  /\ worker' = [worker EXCEPT
       ![w].at = IF created /\ worker[w].status = "sent" THEN "send" ELSE "event",
       ![w].status = "none"]
  /\ UNCHANGED <<enabled, configured, candle, verdict, signal, received, memory, bounds>>

Decides(w, at) == worker' = [worker EXCEPT ![w].at = at, ![w].tries = 0]

\* with_retry: a call that failed in a way that may pass is repeated.
Retries(w) == IF worker[w].tries + 1 < Attempts
              THEN worker' = [worker EXCEPT ![w].tries = @ + 1]
              ELSE Decides(w, "give_up")

Arrives(w) == received' = [received EXCEPT ![Key(w)] = @ + 1]

send_telegram_message(w) ==
  /\ At(w, "send")
  /\ \/ Arrives(w) /\ Decides(w, "confirm")             \* answered
     \/ Arrives(w) /\ Retries(w)                      \* the answer is lost
     \/ Retries(w) /\ UNCHANGED received              \* the call is lost
     \/ Decides(w, "give_up") /\ UNCHANGED received      \* refused
  /\ UNCHANGED <<enabled, configured, candle, verdict, signal, row, memory, bounds>>

update_delivery_status(w, status) ==
  row' = [row EXCEPT ![Key(w)] = [status |-> status, sent_at |-> status = "sent"]]

Confirms(w) ==
  /\ At(w, "confirm")
  /\ update_delivery_status(w, "sent")
  /\ Goes(w, "event")
  /\ UNCHANGED <<enabled, configured, candle, verdict, signal, received, memory, bounds>>

\* The update fails before its commit, or when the committed row is read again.
ConfirmFails(w) ==
  /\ At(w, "confirm")
  /\ Fails
  /\ update_delivery_status(w, "sent") \/ UNCHANGED row
  /\ Goes(w, "give_up")
  /\ UNCHANGED <<enabled, configured, candle, verdict, signal, received, memory, crashes, toggles>>

GivesUp(w) ==
  /\ At(w, "give_up")
  /\ update_delivery_status(w, "error")
  /\ Goes(w, "event")
  /\ UNCHANGED <<enabled, configured, candle, verdict, signal, received, memory, bounds>>

\* record_service_event, then the next delivery of the same candle.
RecordsEvent(w) ==
  /\ At(w, "event")
  /\ IF Len(worker[w].kinds) > 1
     THEN worker' = [worker EXCEPT ![w].at = "switch", ![w].kinds = Tail(@)]
     ELSE Returns(w)
  /\ UNCHANGED <<rows, memory, bounds>>

\* _check_notifications swallows every failure; the caller goes on.
NotificationFails(w) ==
  /\ worker[w].at \in {"analyse", "switch", "insert", "give_up", "event"}
  /\ Fails
  /\ Returns(w)
  /\ UNCHANGED <<rows, memory, crashes, toggles>>

------------------------------------------------------------------------------
set_telegram_enabled ==
  /\ toggles < MaxToggles
  /\ toggles' = toggles + 1
  /\ enabled' = ~enabled
  /\ UNCHANGED <<configured, candle, verdict, signal, row, received, memory, worker, failures, crashes>>

Restart ==
  /\ crashes < MaxCrashes
  /\ crashes' = crashes + 1
  /\ cache' = [m \in Markets |-> "none"]
  /\ persisted' = {} /\ notified' = {} /\ lock' = NoOne
  /\ worker' = [w \in Workers |-> Idle]
  /\ configured' \in BOOLEAN
  /\ UNCHANGED <<enabled, candle, verdict, signal, row, received, failures, toggles>>

Init ==
  /\ enabled \in BOOLEAN /\ configured \in BOOLEAN
  /\ candle = [c \in Candles |-> "none"]
  /\ verdict \in [Candles -> {"none", "long", "short"}]
  /\ signal = [c \in Candles |-> "none"]
  /\ row = [k \in Keys |-> NoRow]
  /\ received = [k \in Keys |-> 0]
  /\ cache = [m \in Markets |-> "none"]
  /\ persisted = {} /\ notified = {} /\ lock = NoOne
  /\ worker = [w \in Workers |-> Idle]
  /\ failures = 0 /\ crashes = 0 /\ toggles = 0

Finalises(w) ==
  \/ \E d \in Directions : polymarket_boundary_result(w, d) \/ PastResultAnswered(w, d)
  \/ PastResultCached(w) \/ PastResultAsked(w)
  \/ PersistsResult(w) \/ ChecksNotified(w) \/ ReadsCandle(w) \/ MarksNotified(w)

Delivers(w) ==
  \/ Analyses(w) \/ ReadsSwitch(w) \/ InsertsRow(w) \/ send_telegram_message(w)
  \/ Confirms(w) \/ GivesUp(w) \/ RecordsEvent(w)

Breaks(w) == PastResultFails(w) \/ PersistFails(w) \/ ConfirmFails(w) \/ NotificationFails(w)

Next ==
  \/ \E w \in Workers : \/ \E m \in Markets : Asks(w, m)
                        \/ \E h \in Hourly : BinanceCloses(w, h)
                        \/ Finalises(w) \/ Delivers(w) \/ Breaks(w)
  \/ \E m \in Markets : ChainlinkCloses(m)
  \/ set_telegram_enabled \/ Restart

Spec == Init /\ [][Next]_vars

\* Coroutines are scheduled, calls have timeouts, and a closed market that someone looks
\* at is asked for with every observation.
Fairness ==
  /\ \A w \in Workers : WF_vars(Finalises(w) \/ Delivers(w))
  /\ \A m \in Markets : WF_vars(\E w \in Workers : Asks(w, m))

FairSpec == Spec /\ Fairness

------------------------------------------------------------------------------
\* Types of the variables; a worker that fetches holds the lock, and the delivery it
\* works on exists.
TypeOK ==
  /\ enabled \in BOOLEAN /\ configured \in BOOLEAN
  /\ candle \in [Candles -> {"none", "polymarket", "chainlink", "binance"}]
  /\ verdict \in [Candles -> {"none", "long", "short"}]
  /\ signal \in [Candles -> {"none", "stored"} \cup Directions]
  /\ row \in [Keys -> [status : {"none", "sent", "error", "skipped_disabled"}, sent_at : BOOLEAN]]
  /\ received \in [Keys -> 0 .. Attempts]
  /\ cache \in [Markets -> {"none"} \cup Directions]
  /\ persisted \subseteq Markets /\ notified \subseteq Markets
  /\ \A w \in Workers :
       /\ worker[w].of \in Candles \cup {NoOne}
       /\ worker[w].tries \in 0 .. Attempts
       /\ At(w, "fetch") <=> lock = w
       /\ worker[w].at \in {"send", "confirm", "give_up"} => row[Key(w)].status # "none"

(* The promise: one delivery per key (see AtMostOnceDelivery).  A row that says "sent"
   without a time is a claim. *)
Delivery == INSTANCE AtMostOnceDelivery WITH
  status <- [k \in Keys |-> IF row[k].status = "sent" /\ ~row[k].sent_at THEN "claimed"
                            ELSE row[k].status]

\* However workers, failures, restarts and the switch interleave, a key is delivered by
\* one worker in one series of calls, never after it was skipped or ended, and its row has
\* a time only when a message arrived: the unique key of the row, inserted before the call.
DeliveredOnce == Delivery!Spec

\* The alarm about a wrong direction is sent only for a candle whose stored signal
\* disagrees with the stored official result, after the signal itself had its delivery:
\* two deliveries of one call, evaluated on a row that another call may have written.
MismatchFollowsSignal ==
  \A m \in Candles : row[<<m, "mismatch">>].status # "none" =>
    /\ row[<<m, "signal">>].status # "none"
    /\ delivery_direction_consistency(m, signal[m]) = "different"

\* A signal recorded for a closed market gets its delivery, and a mismatch its own, with
\* restarts at any point: what the restart forgets is asked for again.
MarketIsDelivered ==
  \A m \in Markets : signal[m] # "none" ~>
    \A i \in DOMAIN process_signal_notifications(m, signal[m]) :
      row[<<m, process_signal_notifications(m, signal[m])[i]>>].status # "none"

------------------------------------------------------------------------------
(* Statements of the repository that the code does not keep *)

\* A delivery records the result of the call only (notifications.py:190): a row that says
\* "sent" and that no worker is at was sent.
SentWasReceived ==
  \A k \in Keys : /\ row[k].status = "sent"
                  /\ \A w \in Workers : ~(worker[w].at \in {"send", "confirm", "give_up"} /\ Key(w) = k)
                  => received[k] > 0

\* The same period does not flood the chat (requirements/step1.plan.md:143).
OneMessagePerKey == \A k \in Keys : received[k] <= 1
==============================================================================
