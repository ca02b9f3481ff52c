------------------------------ MODULE MCLiveness ------------------------------
(***************************************************************************)
(* What must happen in the end, in one run of TLC.  The models share no      *)
(* variable, so the run explores one after the other: model names the one    *)
(* that moves, the others keep their first state.  The subscription has      *)
(* three instances, which use the same variables.                            *)
(***************************************************************************)
EXTENDS Naturals, Sequences, TLC

VARIABLES model,
          \* Notifications
          enabled, configured, candle, verdict, signal, row, received, cache, persisted, notified,
          lock, worker, failures, crashes, toggles,
          \* MarketSubscription
          epoch, published, listed, refresh, fresh, event, ws, clients, intervalClients,
          marketClients, browser, fails, overlapped,
          \* OrderBook
          book, up, channel, rest, quote, pending, loop, shown, changes, breaks,
          \* LiveWindow
          openSlot, kept, missing, window, socket, due, sync, covered, liveFails, restarts,
          \* AccountReports
          activities, resolved, stored, metadata, task, work, fetching, snapshot, inflight, build,
          reader, last, lost, reportFails, reportRestarts,
          \* StreamEndpoints
          ping, streams, score, probeDue, monitor, heard

notifyVars  == <<enabled, configured, candle, verdict, signal, row, received, cache, persisted,
                 notified, lock, worker, failures, crashes, toggles>>
marketVars  == <<epoch, published, listed, refresh, fresh, event, ws, clients, intervalClients,
                 marketClients, browser, fails>>
marketAll   == <<marketVars, overlapped>>
bookVars    == <<book, up, channel, rest, quote, pending, loop, shown, changes, breaks>>
reportVars  == <<activities, resolved, stored, metadata, task, work, fetching, snapshot, inflight,
                 build, reader, last, lost, reportFails, reportRestarts>>
endpointVars == <<ping, streams, score, probeDue, monitor, heard>>
windowVars  == <<openSlot, kept, missing, window, socket, due, sync, covered, liveFails, restarts>>

\* One market, one coroutine at a time, a restart.
Notify == INSTANCE Notifications WITH
  Markets <- {"m1"}, Hourly <- {}, Workers <- {"w1"}, NoOne <- "nobody",
  Attempts <- 2, MaxFailures <- 0, MaxCrashes <- 1, MaxToggles <- 0

\* After a first refresh: two browsers, or one browser and a window that moves; one browser
\* before it.
Ready == INSTANCE MarketSubscription WITH
  Intervals <- <<"5m">>, Length <- [i \in {"5m"} |-> 1], Clients <- {"c1", "c2"},
  Filled <- TRUE, MaxEpoch <- 0, MaxFails <- 1
Moved == INSTANCE MarketSubscription WITH
  Intervals <- <<"5m">>, Length <- [i \in {"5m"} |-> 1], Clients <- {"c1"},
  Filled <- TRUE, MaxEpoch <- 1, MaxFails <- 1
Empty == INSTANCE MarketSubscription WITH
  Intervals <- <<"5m">>, Length <- [i \in {"5m"} |-> 1], Clients <- {"c1"},
  Filled <- FALSE, MaxEpoch <- 0, MaxFails <- 1

Book == INSTANCE OrderBook WITH
  Prices <- {1, 2}, Sizes <- {1}, Depth <- 1, ContextFails <- FALSE, MaxChanges <- 3, MaxBreaks <- 1

\* A failure and a restart while the clock moves by one candle.
Live == INSTANCE LiveWindow WITH
  Slots <- 0 .. 6, Listed <- 0 .. 6, Start <- 5, Limit <- 4, PageLimit <- 2, MaxPages <- 2,
  Bridge <- 20, Job <- "job", Routes <- {}, Asked <- {}, MaxFailures <- 1, MaxRestarts <- 1,
  now <- openSlot, stored <- kept, unavailable <- missing, fails <- liveFails

\* One analysis of one activity and one page request at a time, with a failure.
Reports == INSTANCE AccountReports WITH
  Tasks <- {"t1"}, Readers <- {"r1"}, Builds <- {"b1"}, NoOne <- "nobody",
  Listed <- 1, Stored <- 1, MaxActivities <- 1, Asked <- {1}, MaxFailures <- 1, MaxRestarts <- 0,
  listed <- activities, rows <- stored, cache <- snapshot, fails <- reportFails,
  restarts <- reportRestarts

\* Two endpoints that come and go for ever.
Endpoint == INSTANCE StreamEndpoints WITH
  Urls <- <<"com", "vision">>, Latencies <- {1}, Adaptive <- TRUE, MaxFailures <- 1,
  due <- probeDue, loop <- monitor

----
Init ==
  /\ model \in {"notify", "ready", "moved", "empty", "book", "window", "reports", "endpoints"}
  /\ CASE model = "moved" -> Moved!Init
       [] model = "empty" -> Empty!Init
       [] OTHER -> Ready!Init
  /\ Notify!Init /\ Book!Init /\ Live!Init /\ Reports!Init /\ Endpoint!Init
  /\ model = "notify" \/ (enabled /\ configured /\ verdict["m1"] = "none")
  /\ model = "book" \/ book = Book!Empty
  /\ model = "endpoints" \/ (ping \in [Endpoint!Endpoints -> {Endpoint!None}] /\ streams = {})

Next ==
  /\ UNCHANGED model
  /\ \/ /\ model = "notify" /\ Notify!Next
        /\ UNCHANGED <<marketAll, bookVars, windowVars, reportVars, endpointVars>>
     \/ /\ model = "ready" /\ Ready!Next
        /\ UNCHANGED <<notifyVars, bookVars, windowVars, reportVars, endpointVars>>
     \/ /\ model = "moved" /\ Moved!Next
        /\ UNCHANGED <<notifyVars, bookVars, windowVars, reportVars, endpointVars>>
     \/ /\ model = "empty" /\ Empty!Next
        /\ UNCHANGED <<notifyVars, bookVars, windowVars, reportVars, endpointVars>>
     \/ /\ model = "book" /\ Book!Next
        /\ UNCHANGED <<notifyVars, marketAll, windowVars, reportVars, endpointVars>>
     \/ /\ model = "window" /\ Live!Next
        /\ UNCHANGED <<notifyVars, marketAll, bookVars, reportVars, endpointVars>>
     \/ /\ model = "reports" /\ Reports!Next
        /\ UNCHANGED <<notifyVars, marketAll, bookVars, windowVars, endpointVars>>
     \/ /\ model = "endpoints" /\ Endpoint!Next
        /\ UNCHANGED <<notifyVars, marketAll, bookVars, windowVars, reportVars>>

\* The fairness of each module, for the model that moves.
Fairness ==
  /\ WF_notifyVars(model = "notify" /\ (Notify!Finalises("w1") \/ Notify!Delivers("w1")))
  /\ WF_notifyVars(model = "notify" /\ Notify!Asks("w1", "m1"))
  /\ WF_marketVars(\/ model = "ready" /\ Ready!Reads
                   \/ model = "moved" /\ Moved!Reads
                   \/ model = "empty" /\ Empty!Reads)
  /\ WF_marketVars(\/ model = "ready" /\ Ready!Opens
                   \/ model = "moved" /\ Moved!Opens
                   \/ model = "empty" /\ Empty!Opens)
  /\ WF_marketVars(\/ model = "ready" /\ Ready!Reconnects
                   \/ model = "moved" /\ Moved!Reconnects
                   \/ model = "empty" /\ Empty!Reconnects)
  /\ WF_marketVars(\/ model = "ready" /\ Ready!CronBegins
                   \/ model = "moved" /\ Moved!CronBegins
                   \/ model = "empty" /\ Empty!CronBegins)
  /\ \A r \in {"cron", "ws"} : WF_marketVars(\/ model = "ready" /\ Ready!RefreshAnswers(r)
                                             \/ model = "moved" /\ Moved!RefreshAnswers(r)
                                             \/ model = "empty" /\ Empty!RefreshAnswers(r))
  /\ WF_bookVars(model = "book" /\ Book!Subscribes)
  /\ WF_bookVars(model = "book" /\ Book!apply_ws_message)
  /\ WF_bookVars(model = "book" /\ Book!replace_markets)
  /\ WF_bookVars(model = "book" /\ Book!Reads)
  /\ WF_bookVars(model = "book" /\ Book!Sends)
  /\ WF_windowVars(model = "window" /\ Live!JobBegins)
  /\ WF_windowVars(model = "window" /\ Live!SyncSteps("job"))
  /\ WF_windowVars(model = "window" /\ Live!list_candles)
  /\ WF_windowVars(model = "window" /\ Live!replace_live_candles)
  /\ WF_windowVars(model = "window" /\ Live!ws_once)
  /\ WF_reportVars(model = "reports" /\ Reports!Analysis("t1"))
  /\ WF_reportVars(model = "reports" /\ Reports!fetch_market_metadata_row)
  /\ WF_reportVars(model = "reports" /\ Reports!Build("b1"))
  /\ WF_reportVars(model = "reports" /\ Reports!Answers("r1"))
  /\ WF_reportVars(model = "reports" /\ Reports!snapshot_expired)
  /\ WF_endpointVars(model = "endpoints" /\ Endpoint!LoopSteps)

vars == <<model, notifyVars, marketAll, bookVars, windowVars, reportVars, endpointVars>>

Spec == Init /\ [][Next]_vars /\ Fairness

----
\* Each property of a module, as stated there, for the model that moves.
MarketIsDelivered == model = "notify" => Notify!MarketIsDelivered
QuoteIsShown      == model = "book" => Book!QuoteIsShown
ReportSettles     == model = "reports" => Reports!ReportSettles

\* The live window catches up (LiveWindow), and the stream that feeds it opens again
\* (StreamEndpoints).
WindowCatchesUp   == /\ model = "window" => Live!WindowCatchesUp
                     /\ model = "endpoints" => Endpoint!StreamRecovers

\* Browsers get the markets they select, as long as no two requests for lists overlap
\* (SelectedIsServed), and the hub lets go of browsers whose handler crashed (HubForgets).
BrowsersAreServed == /\ model = "ready" => Ready!SelectedIsServed
                     /\ model = "moved" => Moved!SelectedIsServed /\ Moved!HubForgets
                     /\ model = "empty" => Empty!SelectedIsServed /\ Empty!HubForgets
================================================================================
