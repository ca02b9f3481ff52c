# A verification model of poly-auto-trading

TLA+ models of the backend, TLC configurations that check them on small instances, and TLAPS
proofs of what holds for every instance.  The source is `src/backend/app`; file names below are
relative to it.

## 1. The system

One asyncio process serves an HTTP and websocket interface, keeps several caches in memory, talks
to Binance, Polymarket, a Chainlink price stream and Telegram, and stores everything that must
survive in PostgreSQL.  Coroutines interleave at every `await`; database rows survive a restart,
locks, caches and coroutines do not.

| Component | State | Operations | What is hard | What makes it correct |
|---|---|---|---|---|
| Candle backfill task (`services/candle_backfill.py`, `candle_store.py`, `system_task_store.py`, `binance_archive_client.py`) | tables `candles`, `candle_unavailable_ranges`, `system_tasks`, `system_task_steps`; two locks and the active task in memory | start (create or resume), plan gaps, run steps: REST waves, archive waves with REST fallback | concurrent starts, crash between the commit of candles and of the cursor, one page of a wave failing, replanning | no listed candle is ever behind a cursor and not stored; one coroutine per task; runs end |
| Bounded synchronisation (`CandleSyncService`) and live pipeline (`binance_monitor.py`, `market_signal_pipeline.py`, `indicators.py`) | a lock per requested window; latest candles per interval; scores of websocket endpoints | fill the gaps of a window or hand over to the backfill task; websocket tick, minute refresh; probes | uncommitted unavailable ranges; the refresh replaces what a tick merged while it was reading; endpoints that come and go | the window has no old hole, and catches up; the stream is read from an endpoint that answers |
| Indicator task (`indicator_backfill.py`) | tables of tasks, steps and indicators | start, concurrent steps, completion | no start lock, siblings surviving a failure, gaps filled later | no hole behind the latest indicator; a value that depends on its whole warm-up |
| Chainlink feed (`chainlink_twap.py`) | current candle per interval, last tick; the socket; cached Price to Beat | tick, close, rebuild after restart; watchdog; price context of a market | late ticks, database failure after the window moved, restart; a topic that falls silent; answers that arrive late | a closed candle is stored once and complete only when it is; no direction from an old price |
| Account state (`polymarket_account_store.py`, `polymarket_account_monitor.py`) | positions, orders, trades, balance, identity, suppressed orders | REST snapshot, websocket order and trade, cancellation, change of credentials | snapshot older than an event, change of identity during a fetch, suppression running out | a canceled order does not come back; no trade stays pending |
| Market discovery and order books (`polymarket_monitor.py`, `polymarket_market_store.py`, `polymarket_ws_hub.py`, `cron/scheduler.py`) | markets, books, browser subscriptions, change event, the refresh job | refresh, subscribe, reconnect, broadcast, reschedule | wake-ups lost between comparison and wait; three dictionaries kept in step; REST answers older than messages | the socket ends up subscribed to what is selected; what a browser sees is in the book |
| Signals and notifications (`signal_analysis.py`, `notifications.py`, `external_http.py`, `market_signal_pipeline.py`) | tables `signals`, `notification_deliveries` | record, deliver, retry, finalise a closed market | crash between the row and the call, retry after a lost answer, several finalisers of one market | at most one delivery per key; no alarm before its signal |
| Account reports (`routes_reports.py`, `report_store.py`, `report_snapshot.py`, `report_analysis.py`, `market_metadata.py`, `polymarket_client.py`) | activities, metadata, snapshot cache, in-flight builds | analyse in the background, download pages, read a snapshot, clear the cache | two analyses of one account, a snapshot of half a rebuild, pages that move while they are read | a finished analysis has its rows; the ledger agrees with the wallet |
| Credentials (`polymarket_credentials.py`) | stored credentials, the active one | create, activate, delete | change during a request | what is shown follows the active one |
| Scheduler, life cycle, maintenance (`cron/`, `core/lifecycle.py`, `maintenance.py`) | jobs | periodic and one-shot jobs, retention | a job that fails must be scheduled again | refreshes go on |

The components call each other directly.  The candle tables are shared by the backfill task, the
synchroniser, the live pipeline, the indicator task and the Chainlink aggregator.  The pipeline
records signals and starts deliveries.  The market monitor tells the account monitor which
conditions to follow.  A change of credentials sets an event the account monitor waits for.

`PROJECT.json` lists every component with its status, and every hazard with the line where it bites
and the properties that would catch it.

## 2. The project

| Modules | Component | Run | Proofs |
|---|---|---|---|
| `CandleRanges`, `CandleBackfill`, `MCCandleBackfill` | backfill task | `backfill`, `backfill_archive` | `CandleRangesProofs`, `CandleBackfillProofs` |
| `LiveWindow`, `StreamEndpoints` | synchroniser, live pipeline | `backfill`, `liveness` | `LiveProofs`, `CandleBackfillProofs` (of `StreamEndpoints`) |
| `IndicatorBackfill` | indicator task | `backfill` | `IndicatorProofs` |
| `ChainlinkCandles`, `TwapStream`, `MarketPrice`, `MCPrices` | Chainlink feed | `prices` | `ChainlinkProofs` |
| `AccountState`, `MCAccountState` | account state | `account`, `account_live` | `AccountStateProofs` |
| `MarketSubscription`, `RefreshSchedule`, `OrderBook`, `MCMarkets` | markets and order books | `markets`, `liveness` | `MarketProofs` |
| `Notifications`, `AtMostOnceDelivery`, `MCWork` | signals and deliveries | `work`, `liveness` | `WorkProofs` |
| `AccountReports`, `ActivityPages`, `MarketLedger` | reports | `work`, `liveness` | `WorkProofs` |
| `MCCandles`, `MCLiveness` | several of them in one run | `backfill`, `liveness` | |

**Composition.**  Components that share rows are modelled together where the sharing matters: the
live feed stores candles in `CandleBackfill`, candles are filled in by somebody else in
`IndicatorBackfill`, a synchronisation that fails asks for the backfill in `LiveWindow`, and a closed
Chainlink candle is what `Notifications` reads.  Apart from that the modules have no common variable.
The modules `MCCandles`, `MCWork`, `MCPrices`, `MCMarkets` and `MCLiveness` are sums, not products:
a variable `model`, chosen at first and never changed, names the one model that moves, and the
others keep their first state.  A property of such a run is the property of its module, for the
model that moves.  Several models of one run may be the same module with one kind of disturbance
each, which keeps the states few where two kinds together add only delay.

**Names.**  An action or operator has the name of the function it models where there is one.  A
definition under a comment that begins with "Variant:" is a plausible mistake in the definition
below it; `PROJECT.json` lists which property notices it.  A few modules end with statements of the
repository that the code does not keep (section 9); they are no part of a run unless the table of
runs says so.

**What is left.**  To model: the broadcast of the market websocket,
retention jobs, the listing pages of the reports.

## 3. Candles

### `CandleBackfill`

Open times are numbered: slot *n* of interval *i* opens at base time `n * Width[i]`.  A list of
inclusive ranges of open times is the set of its slots.

| Variable | Code |
|---|---|
| `stored`, `unavailable` | rows of `candles` and of `candle_unavailable_ranges` with source `binance_rest` |
| `task` | the newest `system_tasks` row of this type: its status; the target time, the start of the history and whether it was ever resumed are kept to state properties |
| `steps` | the `system_task_steps` rows by step key (interval, start): end, cursor, status, and whether the counters are above zero (`touched`) |
| `caller` | how far each `start_all` call is: waiting for `_start_lock`, planning, plan committed |
| `active`, `runs`, `pc` | `_active_task_id`; coroutines spawned that have not taken `_lock`; where the one that holds `_lock` is |
| `cur`, `mem`, `page`, `left` | the step being worked on, the step object in the session of a wave, the next page and how many follow |
| `periods` | archive periods of the current wave, each reading its file, falling back to REST, done or failed |

An action is what happens between two points where another coroutine, the live feed or a crash can
be observed: the commit of a page, the commit of a wave, the commit of an archive batch, the commit
of a plan.  `PageStored` writes the step as it was before the page moved its cursor, because
`upsert_candles` commits the session the step object belongs to.  Pages of a wave are downloaded
concurrently and stored in the order of their starts; what the exchange lists does not change, so
the answer is chosen when the page is stored.  `merge_missing_range_windows` and `Ranges` are the
planner's list operations on sets of slots.  `IsKlinePage` is the exchange, described by how
`BinanceClient` asks it.

`RunCompletes` and `RunEnds` are two steps because the completion event is recorded after the
commit; `DatabaseFails` in between turns a completed task into an error, as the exception handler
does.  `normalize_step_end_ms` is the identity on planned ends and is not modelled.  A start request
for another symbol while a task runs is dropped by the code; one symbol is modelled.

* `PrefixCovered`: every listed candle before the cursor of a step is stored.
* `CompletedCovered`: every listed candle of a completed step is stored.
* `UnavailableSound`: what is remembered as unavailable is not listed.
* `OneRun`: at most one coroutine, and a task worked on is active.
* `FreshTaskCovers`: a task that completed without a resume has stored every listed candle from the
  start of its plan (`plan_start`: the earliest stored candle, or the start of the history) to its
  target.
* `PlanFrozen`: the set of steps does not change while a coroutine runs.
* `ResumeKeepsProgress`: a resume keeps the cursor of every step that stored something.
* `RunTerminates`, `StartAnswered`: runs end and requests are answered.

Two facts shape these statements without contradicting any of the repository: a resume measures the
history from the earliest stored candle, so that a deleted older step is not planned again (which
is why `FreshTaskCovers` speaks of tasks that were never resumed), and a gap of exactly one candle
before the first stored one is not planned.

### `LiveWindow`

One symbol and interval.  `stored` and `unavailable` are rows; `window` is what
`market_signal_pipeline` has in memory, its closed and its open candles; `sync[p]` is the progress of
a `CandleSyncService` call of the minute job or of a route, with the gaps it works on, the pages of
its wave and what it has marked in a session that was not committed.  `due` holds the closing
messages on their way.  The job's read of the rows (`list_candles`) and the replacement of the window
(`replace_live_candles`) are two steps, because messages are merged between them.  `covered` is a
history variable: how far the last undisturbed run of the job has asked.

* `UnavailableSound`: neither a row nor a session that may commit calls a listed slot unavailable.
* `WindowGapIsRecent`: the window has every listed candle of the last `Limit` slots up to `covered`,
  closed or, where a late message of the stream put it in the place of the closed one, open
  (section 9); whatever breaks, holes are newer than the last undisturbed refresh.  The two together are
  `WindowIsKept`, which the run checks with `BestEndpoint` of `StreamEndpoints`.
* `WindowCatchesUp`: once the clock rests, the window has all candles up to the last but one, again
  and again.

### `StreamEndpoints`

The choice of the websocket endpoint.  `ping` and `streams` are the network, which changes at any
time, also while a probe runs; `score` is `_ws_endpoint_scores`.

* `BestEndpoint`: where the loop connects to is the fastest of the endpoints that answered the last
  probe, however scores, failures and orderly ends have mixed.
* `StreamRecovers`: if in the end some endpoints answer and keep a stream and the others do neither,
  the stream is open again and again.  An endpoint that answers pings and drops every stream is
  outside this statement: the probe after its failure restores its score, and the loop may choose it
  for ever.

### `IndicatorBackfill`

The indicator task seen from one interval.  A value is known by what it depends on: `indicator[t]` is
the first candle of the run of neighbouring rows that its calculation began with.  Start requests are
not serialised, so each is three steps after its check of the lock (`StartFinds`, `StartCommits`,
`StartSpawns`), with what it read kept between them.  A worker whose sibling failed is an orphan: the
coroutine has ended, the worker goes on, and a new start may put another one beside it.  `filled`
is a history variable: the candles that were stored behind a newer one.

* `IndicatorPrefix`: candles that were stored in their order have no hole in their indicators; a
  later run starts after the latest indicator and would never come back to a hole.
* `CompletedIsComputed`: a completed task has computed all candles it was created for, but for those
  filled into a gap meanwhile.
* `IndicatorIsWarm`: a value depends on the whole warm-up, or on all candles back to a gap.

They are one property of the run, `IndicatorsAreKept`.

## 4. Prices

### `ChainlinkCandles`

A tick is its time of observation, a candle's prices are the ticks behind them (`first`, `last`,
`ticks`).  `stored` is the table, `current`, `last_tick` and `initialized` are the fields of
`ChainlinkCandleAggregator`.  `Handles` is `handle` with the commit of `candles_to_persist`;
`HandleFails` the same with a failing commit, after which memory has moved and the rows have not.  The
first tick after a start rebuilds the wide candles from stored minutes, with a clock that may be
later than the tick by up to `Lag`.  `OfficialResult` stores the result of a closed market where no
candle is.  `newest`, `heard` and `ahead` are there for the properties: the newest tick of the
stream, the ticks whose handling was committed, and whether a rebuild had its clock in a later window
than its tick.

* `ClosedIsFinal`: no tick, restart, failure or official result changes a closed candle.
* `CompleteIsTrue`: a closed candle marked as complete has every committed tick of its window and was
  heard near both of its ends.
* `MinutesReplay`: as long as no commit failed and no rebuild ran ahead of its tick, the stored
  minutes tell the rest, whatever restarts: the prices of live candles, the ticks of closed ones, and
  no minute but the newest is open.

### `TwapStream`

The socket with its two topics, its watchdog, and the handler that messages wait behind.  Time is
counted; timers fire, and messages are read when nothing is handled (`Urgent`).

* `SilenceEnds`: a connection whose TWAP topic is silent is given up within the accepted silence and
  one period of the watchdog, whatever else arrives on it.
* `LiveIsKept`: the watchdog gives up no connection on which TWAP messages keep coming.

### `MarketPrice`

The price context of one market: evaluations (`task`) that read the clock first, wait for the lock
of the Price to Beat, and read the observations last.

* `DirectionIsFresh`: no direction without a baseline and a price that was fresh when the evaluation
  began, nor after the end from anything but the official result.
* `PartialIsBrief`: an incomplete Price to Beat is not shown longer than its time in the cache after
  the complete one was there.
* `FinalIsKept`: a complete one is never replaced.

In the run `prices` they are `PriceIsFresh` (`SilenceEnds`, `PartialIsBrief`, `DirectionIsFresh`) and
`GoodIsKept` (`LiveIsKept`, `FinalIsKept`).

## 5. Markets

### `MarketSubscription`

Browsers select markets at the hub (its three dictionaries), refreshes of the scheduler and of the
websocket loop replace the lists of markets interval by interval, time moves the current windows,
and the websocket loop connects with the tokens it found wanted when it looked.  A market stands for
its tokens.  `event` is `_token_change_event`: set when a refresh or a browser changes what is wanted,
cleared by the reconnection.

* `HubServes`: the dictionaries agree about every browser: it is in the list of its interval only, and
  in the set of the market it selected, also when a broadcast removes it while it moves.
* `SelectedIsSubscribed`: when nothing is under way, the websocket has every market that is selected
  and listed, as long as no two requests for lists overlapped (`overlapped`, a history variable).  The
  condition is needed: an older answer can put a market back on the list after another refresh took
  it off and the websocket reconnected without it; the older refresh compares with what was wanted
  when it began, finds no difference and announces nothing.
* `SelectedIsServed` (live, under the same condition): a market that stays selected and listed is
  subscribed again and again.  It is checked for two browsers, for a window that moves, and before the
  first refresh.  In the last two instances requests for lists do overlap, and without the condition
  TLC refutes it there (section 9).
* `HubForgets` (live): a browser whose handler crashed is removed.

### `RefreshSchedule`

The job of the market refresh.  Every run schedules the next one around the next boundary; signals
move it forward; a run that comes due while another is going on is forgotten; the process may stand
still once, and the scheduler drops what is too late.

* `BoundaryIsRefreshed`: after every boundary a refresh begins within the longest pause and one run.
* `SignalIsServed`: a signal is followed by a refresh within the longest pause, also when the end of a
  run replaces what it scheduled, and when the job was lost.

### `OrderBook`

One side of one token's book, from the market channel over the store to the browser.  `Changes` is the
exchange; a price change carries the best price after it.  A subscription begins with the whole book;
what is on its way when a connection ends is lost.  The broadcast loop empties its queue, reads the
quote, waits for the price context, and sends.

* `LevelsAreReal`: when every message was read, each level in the store is a level of the book.
* `BestIsReal`: and the best price is that of the book, although the store may have cut the level.
* `QuoteIsShown` (live): when nothing changes any more, the browser shows what the store has.

## 6. Account

### `AccountState`

Three kinds of coroutines share the store: the scheduled job (`Cron`), the handler of the user
websocket (`Socket`) and the HTTP requests (`Routes`).  Each runs `refresh_account_snapshot`.

| Variable | Code |
|---|---|
| `exch`, `traded`, `channel` | the exchange: orders, trades, and the messages sent on the connection |
| `active` | the setting that names the active credential profile; it survives a restart |
| `identity`, `positions`, `orders`, `suppressed`, `recent` | the fields of `PolymarketAccountStore` |
| `refresh` | for each process how far it is: activation, cancellation, then `refresh_account_snapshot` with the profile it resolved and the answers it has |
| `socket` | where `ws_loop` and `_ws_once` are, the profile of the connection, the trades of the message being handled |
| `changed` | `_credential_change_event` |
| `ended` | history: how the store learned that an order ended (websocket event or cancellation) |

The lock of the store is never held across an await, so its methods are atomic, and the loop that
stores the answers of `gather` runs without waiting.  An action is what happens between two awaits
that really wait.  `RefreshResolves`, `RefreshIdentifies`, the answers (`FetchPositions`,
`FetchOrders`, `FetchFails`, in any order) and `RefreshStores` are the steps of a refresh;
`Activates` and `NotifiesChange` are the commit of a switch and the event after it; `CancelBegins`,
`CancelExecutes` or `CancelFails`, and `CancelReturns` are the cancel route with its retries, which
signs each request for the profile active at that moment.

Abstractions: a profile stands for its wallet; a position is the set of its trades; a message
carries one well-formed event; balance and trading restriction matter only when their request fails,
because the error is what decides the confirmation of a trade.  The list of recent trades is a
function, and which trades fall off its end is chosen freely among those that are not new.
`SuppressionExpires` assumes that 90 seconds outlast what is on its way: the suppression may end as
soon as no request asked before the cancellation is unanswered and no message sent before it is
unread.  An attempt has a timeout of 15 seconds and is repeated a few times; a list of open orders
with many slow pages could break the assumption, and then an old answer would show the order again.  The
list of followed conditions is never empty (`_wait_for_condition_ids` waits for one).  A restart is
`Init`, which starts from any active profile.

* `CanceledHidden`: an order that the exchange confirmed as canceled is not shown again while the
  account stays the same.
* `PendingIsHandled`: a trade that waits for confirmation is in the hands of the handler.
* `ConfirmationHasSnapshot`: a trade of the account shown is confirmed only by a step that shows a
  snapshot with the trade in it.
* `StoreSettles`: once profiles stop changing, the store comes to the active profile and to what the
  exchange has for it, and stays there.
* `SocketFollows`: once profiles stop changing, the websocket is connected for the active one.

### `AccountReports`

Activities are numbered and belong to one market.  An analysis (`task` is its row, `work` its
coroutine) deletes the rows, downloads the newest ones, brings the metadata up to date and clears the
cache.  A page request reads the parts of its key one after the other, then is answered from the
cache, by a build with the same key, or by a new one, which stores what it has read under the key it
was asked for, also after the cache was cleared.  Metadata requests in flight are shared.

* `RunningIsAtWork`: a task says "running" only while its coroutine works on it, also after a restart,
  unless its failure could not be recorded (`lost`).
* `LastRebuildIsWhole`: of analyses that overlap, the one that deleted last has all of its rows stored.
* `ReportSettles` (live): a snapshot that does not show the rows of its key is not served for ever;
  tasks end; pages are answered.

### `ActivityPages`

One download in batches of concurrent pages, while the account trades.  Each page is answered for
itself; the batch ends at the first page that failed or was short; the next batch begins before the
oldest second.  A batch hands on its first new rows in the order of the pages, which is not the order of
time when the account traded between two answers (`Before`).

* `DownloadIsWhole`: a download that ends well has the newest activities that existed when it began,
  except those of a second in which a batch ended, and for each trade meanwhile one at each boundary of
  the first pages and one whose place was taken.

### `MarketLedger`

The accumulator of one market beside the wallet and the cash that the activities come from.
Activities of one second are applied in any order; `tied` remembers that two of them did not commute.

* `TotalsAgree`: profit with rebates is what the wallet got back less what it paid.
* `HoldingsAgree`: the positions shown are those of the wallet, without ties.
* `ResultIsWinner`: the result read off a redemption is the outcome that won, when none of its shares
  was sold and the other outcome had another number of shares.
* `EveryMarketCounts`: a market is settled, unsettled or incomplete for the summary.
* `HypotheticalAgrees`: while nothing was sold, merged or redeemed, the profit shown for an outcome is
  the one its win would bring.

They are `LedgerAgrees`, and with the two invariants of `AccountReports` the property `ReportsAreKept`
of the run.

## 7. Signals and notifications

`Notifications` goes from a closed candle to the chat.  A worker is a coroutine that finalises a closed
market (a refresh, a broadcast or a route may each do so) or handles the closing event of an hourly
candle: it gets the official result (from the cache, under a lock, or from the boundary prices),
stores the candle if none is there, analyses it, and delivers one message for the signal and one for
a mismatch of directions.  Rows survive a restart, the caches and sets do not.  A delivery is the
insert of the row, the call with its retries, and the record of its result, each a step of its own
that may fail or be the last one before a restart.

`AtMostOnceDelivery` is the promise: a key is claimed by one delivery, which may repeat the call a
bounded number of times; nothing arrives for a key nobody claimed or whose delivery has ended; a key is
confirmed only after something arrived.

* `DeliveredOnce`: `Notifications` implements `AtMostOnceDelivery`.  A row that says "sent" without a
  time maps to a claim.
* `MismatchFollowsSignal`: an alarm about a wrong direction exists only for a candle whose stored signal
  disagrees with the stored result, after the signal had its own delivery; the two are deliveries of one
  call, evaluated on a row that another call may have written.
* `MarketIsDelivered` (live): a recorded signal gets its delivery, and a mismatch its own, with a
  restart at any point.

## 8. Runs, bounds and fairness

| Run | Configuration | Shows |
|---|---|---|
| `backfill` | `CandleBackfill` over REST: two intervals (widths 3 and 1, with holes in the listing and a listing that starts later than the history), pages of 2, waves of 2 pages, 2 callers, live feed, clock from 9 to 10, 2 tasks, 2 failures, 1 crash. `LiveWindow`: 8 slots, window of 4, pages of 2; the job alone with 1 failure and 1 restart, or with a route and 1 failure. `IndicatorBackfill`: 5 slots, batches of 2, warm-up 1, 2 tasks; two workers and a failure, two requests and a restart, or gaps that are filled and a restart. `StreamEndpoints`: 2 endpoints with 2 latencies | the safety of the candles, of the window, of the indicators and of the choice of the endpoint |
| `backfill_archive` | one interval, months of 4 slots and days of 3, batches of 2, waves of 3 files, 2 callers, clock from 13 to 14, 2 tasks, 1 failure, 1 crash, with fairness | `PrefixCovered` with concurrent files and fallbacks, and that runs end and requests are answered |
| `account` | one order, two trades in a list of length 1, two profiles, two routes, 1 switch, 1 failure | the safety of the account state when answers, messages, a second cancellation and a switch overtake each other |
| `account_live` | one order, one trade, two profiles, one route, 1 switch, 1 failure, with fairness | `StoreSettles`, `SocketFollows` |
| `prices` | `ChainlinkCandles`: widths 2 and 4, 9 times, clock ahead of a tick by up to 1, 2 restarts, or 1 failing commit and 1 restart. `TwapStream`: 13 times. `MarketPrice`: two evaluations, 4 times | the safety of the price feed |
| `markets` | `MarketSubscription`: one browser, two intervals (lengths 1 and 2); 2 windows, 4 windows with one request for lists at a time, or 1 failure. `RefreshSchedule`: boundaries every 12, 31 times. `OrderBook`: 3 prices, 2 sizes, depth 2, 2 changes, 1 break | the safety of subscriptions, schedule and book |
| `work` | `Notifications`: one market or one hourly candle, 2 workers, 2 attempts, 1 failure, 1 restart or 1 change of the switch. `AccountReports`: 2 analyses of up to 3 activities, or 2 page requests with 2 builds. `ActivityPages`: 12 activities in 8 seconds, pages of 3, 3 at a time, limits from 2 to 9, 1 failure. `MarketLedger`: up to 4 activities | the safety of deliveries and reports |
| `liveness` | `Notifications` with a restart; `MarketSubscription` with two browsers, with a window that moves, and before the first refresh; `OrderBook`; `LiveWindow` with a failure and a restart; `AccountReports` with a failure; `StreamEndpoints` | what must happen in the end |
| `backfill_archive_fallback` | months of 6 slots against waves of 4 | `PrefixCovered` fails |
| `backfill_resume_target` | as `backfill`, 1 failure | `TaskReachesTarget` fails |
| `account_switch` | one trade, two profiles, 1 switch | `OwnDataOnly` fails |
| `window_hole` | `LiveWindow` with the job alone and nothing that breaks | `SignalWindowComplete` fails |

**Bounds.**  Every bound is a named constant (`Horizon`, `MaxTasks`, `MaxFailures`, `MaxCrashes` and the
like).  They are enough for the cases that matter.  Backfill: gaps longer than a wave, a gap that ends
on a full page, a short and an empty page, a failure in the first or the second page, a failure of the
handler of a failure, a crash in any state, a resume after each, and a second task that plans over what
the first one left.  Live window: a gap of two pages, an empty page before and behind listed candles, a
window that has moved on by its whole length.  Indicators: a batch that is full and one that is not, a
gap before and behind the cursor, an orphan beside a second worker, a second task that starts after the
latest indicator.  Prices: a wide candle over two minutes and two wide candles over the horizon, gaps in
the ticks, a restart in the middle of either, and a second one before the first tick.  Markets: a window
that ends while its browser watches, a market published early, a book with more levels than the depth.
Reports: an analysis that overtakes another at every step, a build that outlives the clearing of the
cache, a batch that ends inside a second, pages shifted by trades.  Notifications: two coroutines at
every pair of steps of one market.  Account: the channel holds one message (`MaxQueue`), and the exchange
waits: a longer channel adds delay, which the freely interleaved steps have already; one switch is
enough for data of two wallets to meet.

Two callers, two routes and two workers are enough for a race; they are interchangeable, and symmetry
is used where no liveness is checked.  With more parameters than a run can have, the proofs below take
over: most of the safety properties are proved for all values.

**Deadlock** is checked for the account, whose job can always start.  In the other runs the model rests
when its bounds are spent and nobody asks for anything.

**Fairness** is weak fairness of what the event loop and the scheduler owe: a coroutine that is ready
is resumed, requests that were begun are answered or fail (they have timeouts), jobs come back, loops go
on after their pause, and a cached snapshot expires.  Users, the exchange, failures, crashes, new
requests and the clock owe nothing.  `MarketIsDelivered` needs one assumption more: a closed market is
asked for again after a restart (every observation of the price stream evaluates the contexts of the
markets on screen); `QuoteIsShown` does not rest on it.  `StoreSettles` does not rest on the websocket:
the job alone repairs what events and lost messages leave.  `StreamRecovers` names the fairness of the
network it needs in its own premise.

## 9. Statements that the code does not keep

Four runs end with a counterexample:

* **A missing archive file can skip candles** (`backfill_archive_fallback`).  The fallback of a period is
  one wave of at most 10 REST pages, but the cursor then moves to the end of the period
  (`candle_backfill.py:468`).  A month of one-minute candles is more than four waves long.
  `backfill_archive` keeps periods within a wave, where coverage holds.
* **A resumed task stops one candle early** (`backfill_resume_target`).  The last end is rounded down to a
  closed candle a second time (`candle_backfill.py:1005`, `:1033`).
* **Data of the previous wallet is stored for the new one** (`account_switch`).  A refresh does not compare
  the wallet it asked for with the one the store shows when its answers arrive
  (`polymarket_account_monitor.py:122`).  It lasts until the next refresh.
* **Signals are computed from a window with a hole** (`window_hole`).  The end of the window is rounded down
  twice (`candle_backfill.py:603`), so that the refresh of the minute never has the candle that just
  closed, and the replacement of the window forgets the one the websocket had merged.

Others came up while modelling.  Some are stated as formulas at the end of their module
(`EndedStaysHidden`, `SentWasReceived`, `OneMessagePerKey`, `CurrentIsSubscribed`, `OnlyWantedSubscribed`,
`OneMarketEach`, `SignalsKeepDistance`, `BoundaryIsTimely`, `FallbackHolds`, `QueueIsServed`,
`ResultIsAlwaysWinner`), which TLC refutes on the instances above:

* *Candles.*  A slot range marked as empty is only committed with a later page of the same session, so
  the synchroniser may ask for it every minute.  After a lost closing message the window keeps an open
  candle that is not updated any more until the next refresh.  A message with an open candle that waits
  behind a slow handler while a refresh brings the closed candle opens it again in the window
  (`market_signal_pipeline.py:100`) until its closing message, or, when the connection breaks before
  that, until the next refresh: `WindowGapIsRecent` with `window.closed` alone fails.  The dictionary
  of locks per range grows with every range asked for (`candle_backfill.py:627`).
* *Indicators.*  Two workers of one step count the rows of each other as inserted; the cursor may move
  back, which repeats work; a candle that is stored behind the latest indicator gets none.
* *Account.*  A snapshot read before the end of an order undoes the event that reported it until the next
  refresh (`polymarket_account_store.py:23`); only cancellations made here are protected.
* *Prices.*  After a commit that failed, a candle may stay open, or a closed one lack ticks
  (`chainlink_twap.py:772`, against the comment at `:795`).  A tick older than the current minute would
  close it and begin the old one again (`:773`); the proofs about this module assume that the stream is in
  order.  A rebuild whose clock has passed the boundary of a window that its tick belongs to begins the
  wide candle anew (`:814`).
* *Subscriptions.*  When refreshes overlap, a market that stays selected and listed may never be
  subscribed (`polymarket_monitor.py:168`): a browser lists and selects it while the websocket loop
  waits for an older answer, the scheduler begins a refresh with the market among those wanted, the
  older answer takes it off the list and the loop connects without it, and the scheduler's answer
  brings it back, finds what was wanted when it began, and announces nothing.  Later refreshes find no
  difference either, until something else changes what is wanted or breaks the connection.
  `SelectedIsServed` without `~overlapped` fails on the last two instances of `MarketSubscription` in
  `liveness`.  When windows move, the tokens of the new window are announced only by the next refresh
  that finds another list (`polymarket_monitor.py:270`); a browser that lets go of a market announces
  nothing when its websocket fails in a broadcast (`routes_polymarket.py:399`); a browser that connects
  while it has a subscription may be in the sets of two markets (`polymarket_ws_hub.py:56`).
* *Schedule.*  While refreshes fail, signals start one after the other without the configured distance
  (`config/app.default.yaml:62`); a refresh shortly before a boundary may put the next one more than a
  window behind it (`:58`); after the process stood still the job may be lost until a signal comes
  (`:56`).
* *Order books.*  An exception in the price context ends the broadcast loop, and nothing starts it again
  (`polymarket_monitor.py:181`).
* *Notifications.*  A stop between the claim and the call leaves a row that says "sent" for nothing
  (`notifications.py:187`); a call whose answer was lost is repeated, so that one key may have two messages
  (`:417`); a failure between the signal row and the delivery row is swallowed, and the market counts as
  notified until the next start (`chainlink_twap.py:492`).
* *Reports.*  The next batch of a download begins one second before the oldest row, which skips rows of
  that second; metadata requested before a market closed may be stored after the closed one; a
  snapshot of half a rebuild may be served under the key of the complete rows for up to a minute; two
  analyses of one account overlap.  In the ledger, a merge listed before a purchase of the same second
  leaves exposure that is not there; a market that was partly sold and is open counts as settled and as
  unsettled; the result of a winner that was partly sold may be read as the loser.
* *Endpoints.*  One that answers pings and drops every stream is chosen again and again.

## 10. Proofs

All theorems hold for every value of the constants that satisfies the named assumptions of the
modules.  What else a theorem assumes is written in its statement.

`CandleRangesProofs` has the facts about maximal ranges, greatest and least elements, the first and the
last members of a set, pages and division that the others cite, and those about sums, counts and products.

### The backfill task

`CandleBackfillProofs`:

* `SingleRun`: `Spec => []OneRun`.  `OneRun` is not inductive: that a request past its second check
  finds nothing running needs the lock.  `ControlInv` adds that at most one request is past the check
  (`LockExcludes`), and that while it is there nothing runs and nothing is active.
* `PlanIsFrozen`: `Spec => PlanFrozen`, from `ControlInv`: the only action that changes the set of
  steps is the plan of a request, which excludes a coroutine.
* `ResumptionKeepsProgress`: `Spec => ResumeKeepsProgress`: a plan removes only steps without progress.
* `TypeCorrect`: `Spec => []TypeOK`.  `TypeInv` adds to `ControlInv` the facts the types rest on:
  the tables are functions over the intervals, `cur` names a step exactly in the phases that use it,
  stored slots are naturals (so that least and greatest ones exist where the planner asks for them),
  and periods lie in a sequence.
* `UnavailableIsSound`: `Spec => []UnavailableSound`, archive files included.
* `PrefixIsCovered`, `CompletedIsCovered`: `Spec => []PrefixCovered` and `Spec => []CompletedCovered`.
  They assume `FilesFit`, which says nothing when archive files are disabled.  When they are enabled it
  asks that no file be longer than the one wave of pages that replaces it when it is missing or breaks
  off, and that a file have a usable row for every listed candle.  The first half is what the code does
  not ensure, and without it `PrefixCovered` is false (section 9); the second is a property of the
  exchange's files that the code relies on, since an archive period is done when its file ends.  The
  values of `backfill_archive` satisfy both.  The inductive invariant `CoverInv` says that the cursor of
  the step object in memory is at most as far as what is stored, that the next page starts where the
  wave has stored everything before it, and that a completed step has its whole gap stored.  Of a wave
  of files (`ArchiveCovered`) it says that each period begins behind the one before it, the first at the
  cursor, and ends within the gap (`PeriodFollows`), and of each period, in whichever phase
  (`PeriodCovered`), that it is covered up to its position, that what its fallback has not asked for is
  in reach of the pages it has left, and that it is covered to its end once it is done.
  `ArchiveFileCovers` and `FallbackCovers` keep that for one period while the others run.  `PrefixDone`
  is the step from the periods to the cursor: every slot up to the end of a period before the first
  failed one lies in the first period that reaches it, and that one is done.
* `FreshTaskIsCovered`: `Spec => []FreshTaskCovers`, under `FilesFit`.  `FreshInv` says that nothing runs
  before there is a task, that rows and gaps are of candles that have closed (rows of files too:
  `PeriodStores`), and that what a fresh task has to store is stored or in a gap of its steps.  That a plan
  leaves no candle out rests on the maximal ranges of a set: every missing slot lies in one of them, and
  merging neighbours only adds slots.

### The models explored with the backfill task

`CandleBackfillProofs` extends `MCCandles`, where the constants of the live window, of the indicators and
of the endpoints are parameters and `Live` and `Indicators` are instances of `LiveProofs` and
`IndicatorProofs`.  The theorems of those two modules therefore hold for them, for every value of the
constants:

* `WindowIsKept_holds`: `Live!Spec /\ Endpoint!Spec => []WindowIsKept`.  For the endpoints, the invariant
  says that the scores have what the last probe heard until something is to be probed again
  (`ScoresAreHeard`), and that the loop connects to an endpoint which no other one beat in that probe
  (`ConnectsToBest`).  `BestParts` shows that the choice is well defined: the first of the endpoints with
  the fewest failures among the fastest is the one nothing is before, and everything ahead of it in the
  list is behind it in the order.
* `IndicatorsAreKept_holds`: `Indicators!Spec => []IndicatorsAreKept`.

### The Chainlink feed

`ChainlinkProofs` assumes `InOrder` (`Late = 0`): the stream delivers ticks in the order of their
times; section 9 says what an older tick does.

* `ChainlinkTypeCorrect`: `Spec => []TypeOK`.
* `ClosedIsFinal_holds`: `Spec => ClosedIsFinal`.  `Kept` says that closed rows from the stream are older
  than the window of the newest tick, that of the wide candles only closed ones are stored, and that the
  candle in memory is that of the newest tick's window, so that nothing writes a closed row again.
* `CompleteIsTrue_holds`: `Spec => []CompleteIsTrue`, with `Prompt`: `Stale + Lag` is less than every
  width (the code's default is 20 seconds for candles of a minute and more).  `Accounted` adds that the
  ticks of every row and candle in memory lie in its window, and that a candle which may still become
  complete has every committed tick of its window, as has the row of every minute with one.
* `MinutesReplay_holds`: `Spec => []MinutesReplay`.  `Replays` says that stored minutes mirror the wide
  candle in memory, tick for tick and at both ends, that a committed tick is in the minute it belongs
  to, and that closed wide candles have what their minutes have.

`ChainlinkProofs` extends `MCPrices`, where the constants of the connection and of the price context
are parameters, and proves for every value of them:

* `PriceIsFresh_holds`: `Stream!Spec /\ Price!Spec => []PriceIsFresh`.  `Watched` says that the watchdog
  looks next before the accepted silence and one of its periods are over.  `PartialKept` bounds every
  incomplete price, in the cache, in an evaluation and on display, by the time it became complete and the
  short time to live.  `InPlay` says that an evaluation asks for the price exactly when it began before
  the end.
* `GoodIsKept_holds`: `Stream!Spec /\ Price!Spec => GoodIsKept`, assuming `Quick`: handling two
  observations takes no longer than the accepted silence.  `Heard` counts what may lie between two TWAP
  messages: the rest of one observation, a spot message that came between them, and one unit until the
  server sends.  `FinalStays` says that nobody asks while the complete price is in the cache, which rests
  on the second look at the cache under the lock.
* `TypesOK_holds`: `MCSpec => []TypesOK`, assuming `InOrder`.

### Markets

`MarketProofs` extends `MCMarkets`, where the constants of the schedule and of the book are still
parameters, and proves all five invariants of the run for every value of them:

* `HubServes_holds`: `Spec => []HubServes`.  `HubInv` adds that what a handler remembers of its browser's
  interval is what the hub has.
* `SelectedIsSubscribed_holds`: `Spec => []SelectedIsSubscribed`.  While no two requests overlapped, the
  market lists only go forward.  `Published` says that nothing is listed, or on its way to a list, that
  was not published; `Settling` that an answer on its way takes from its list only markets that no later
  answer brings back, and brings back none that is selected; `Subscribed` that without an announcement
  pending the selected and listed markets are among the tokens of the websocket.
* `BookIsReal_holds`: `Book!Spec => []BookIsReal`, for any prices, sizes and depth, and any number of
  changes and breaks.  The invariant relates what is on its way to the book of the exchange while the
  connection is up: the last message that speaks of a price says what the book has there (`LastIsTrue`);
  a level of the store that no message on its way speaks of is in the book (`RestIsTrue`); the best price
  is the one of the last message, or of the quote when nothing is on its way (`BestIsTold`).  That the
  store cuts levels by depth never hurts, because a level it dropped is only missing.
* `RefreshIsServed_holds`: `Schedule!Spec => []RefreshIsServed`, for any lengths of pauses, runs, graces
  and suspensions.  `InTime` bounds the job by the last run, one run and one pause unless the process
  stood still; `SignalKept` says that a signal which waits has a job early enough, or came during a run
  that is bounded itself.
* `TypesOK_holds`: `MCSpec => []TypesOK`: the types of all three models, along the sum.

### Account

`AccountStateProofs`:

* `AccountTypeCorrect`: `Spec => []TypeOK`.  `TypeOK` is inductive: it says that the handler's refresh
  runs exactly while the socket is in a message, without which `SocketHandlesTrade` could restart it.
* `NoTradeLeftPending`: `Spec => []PendingIsHandled`.
* `CanceledStaysHidden`: `Spec => []CanceledHidden`.  `CancelInv` adds that the order is closed at the
  exchange, that what a cancel route is about to suppress is closed too, and that an order is
  suppressed as long as an answer or a message may still call it open.
* `ConfirmationIsBacked`: `Spec => ConfirmationHasSnapshot`.  `ConfirmInv` follows a pending trade
  through the handler: the trade took place, and once the handler's refresh has asked for the wallet
  of the trade, its answer contains it.

### Notifications and reports

`WorkProofs` extends `MCWork`, where the constants of the reports, of a download and of the ledger are
parameters.  The theorems about one model are stated for its own specification; `ModelsAreRuns` (`MCSpec
=> Spec /\ Reports!Spec /\ Pages!Spec /\ Ledger!Spec`) says that a behaviour of the sum that TLC explores
is one of each model, so that they hold of the sum too.

* `DeliveredOnce_holds`: `Spec => DeliveredOnce`, the refinement of `AtMostOnceDelivery`: the initial
  states map to initial states, every step to a step or a stutter.  The inductive invariant says that a
  row that claims its key has at most one worker calling for it (`Alone`), whose attempts bound the
  messages that arrived (`Claims`), that nothing arrived for a key without a row (`Untouched`), that
  rows exist only for recorded signals (`Recorded`), and that a batch keeps its order (`InOrder`).
* `MismatchFollowsSignal_holds`: `Spec => []MismatchFollowsSignal`, from what a worker may still have to
  deliver: a mismatch is next only behind its signal, and only if the stored directions differ.
* `ReportsAreKept_holds`: `Reports!Spec /\ Ledger!Spec => []ReportsAreKept`.  For the analyses, the
  property is inductive with the types and `NotYetStored`: who is about to delete the rows has stored
  none.

  For the ledger, the sums of the wallet are related to those of the accumulator row by row.  `Sums(v, n, t)`
  says that numbers add up to `t` by exhibiting their partial sums; the activities on their way add up
  to the difference between the cash and the profit (`CashAgrees`), and, unless their order mattered,
  between the wallet and the positions (`SharesAgree`).  Adding a row at the end and taking any one out
  are the two lemmas about sums (`SumAdds`, `SumDrops`), so that activities of one second may be applied
  in any order.  `MergeIsKnown`: a merge that is applied in turn finds positions of both outcomes, without which
  the code would drop it.  `RedeemsWinner`: what is redeemed is what was bought of the winner less what was
  merged; therefore the outcome whose remaining shares are nearest to the sum paid out is the winner,
  unless shares of it were sold.
* `DownloadIsWhole_holds`: `Pages!Spec => []DownloadIsWhole`, for every page size, limit, number of pages
  at once, and every series of trades and failures.  A page answered when `u` activities existed is an
  interval of numbers that ends `(i - 1) * size` below `u` (`Slice`), and `u` only grows.  The pages a
  batch uses therefore form one interval with holes, and the holes between two neighbours are no more
  than the trades between their answers (`GapAt`, `GapsAreFew`): one for each trade and boundary.  Where
  there was no bound, trades also push old activities behind the last page and new ones into the places
  of old ones: one more for each trade (`InWindow`, `TailIsFew`), which together with the boundaries is
  the bound of the property.  A batch with a bound on the second is asked about a past that no longer
  changes, so that its pages are exact.  The inductive invariant (`PagesInv`) says for a download under
  way which answers are possible (`Answers`), and that what is missing above the second the next batch
  begins at is already within the bound (`Going`); the last batch then closes the count (`Whole`).
  `FirstInOrder` is the fact about orders that handing on the first rows of a batch rests on.
* `TypesOK_holds`: `MCSpec => []TypesOK`: the types of all four models, along the sum.  That a worker
  fetches exactly while it holds the lock (`LockIsHeld`) and that no key has more messages than attempts
  (`FewMessages`) are part of it.

### The live window

`LiveProofs`:

* `LiveTypeCorrect`: `Spec => []TypeOK`: clock, tables, synchronisations, and a window that never holds
  more than its limit.
* `WindowIsKept_holds`: `Spec => []WindowIsKept`, `LiveWindow`'s part of the run's invariant.  The
  inductive invariant follows one answer of the exchange to the window.  `WaveKept`: the pages of a wave
  follow one another to the end of its range and answer with the first candles of what is asked.
  `SyncsKept`: what has left the gaps of a synchronisation is stored, and its marks contain no listed
  slot, which a page that failed and was taken for an empty one would break.  `JobKept`: the range of the
  job reaches back to the start of the window.  `WindowKept` says more than the property: all slots up
  to `covered` are in the rows stored and in those the job has read.  It is needed because a later run
  that fails halfway still replaces the window by what is stored.

### The indicator task

`IndicatorProofs`:

* `IndicatorTypeCorrect`: `Spec => []TypeOK`.
* `IndicatorsAreKept_holds`: `Spec => []IndicatorsAreKept`, for any number of tasks, requests, orphaned
  workers and restarts.  Nothing excludes two workers on one step, so the invariant has to hold for each
  of them alone: a cursor is solid when all candles before it have their indicators and any that is
  stored there later is filled in behind a newer one; the rows a worker holds lack no candle between the warm-up and their last one; and
  the cursors of steps, the ones requests have read, and the ones workers are about to write are solid,
  those of orphans too.  A step marked as completed has nothing left to compute.

### Beyond the prover

Liveness properties, because of fairness and `ENABLED`.  Every safety property of the passing runs is a
theorem; those about coverage assume `FilesFit`, because without it they are false.

## 11. Not modelled

See `PROJECT.json` for each component.  Of the backfill task: the health snapshots, the counters of
rows, messages and time stamps.  The weekly interval is anchored on a Monday; slots abstract from the
anchor.  Archive rows that do not parse are slots missing from `FileRows`.  Of the account state: the
texts of connection states and errors, the selection of one condition in `snapshot`, the ping loop, and
the broadcast of snapshots to browsers.  Of the order books: the messages `best_bid_ask`, which repeats
the best price that `price_change` carries already, and `last_trade_price`, which changes nothing of
the book (`polymarket_market_store.py:139-142`).  Of the live pipeline: the browsers of the market
websocket and the arithmetic of indicators.  Of the signals: the rules, which compare one indicator
with sorted thresholds (which signals a candle gives is chosen freely), and all texts.  Of the reports:
account records and notes, windows of days, averages, filters and the pages of listings.  Credentials
other than the active one, the signing of requests and the normalisation of payloads, diagnostics,
request routing and authentication, migrations, and the frontend.
