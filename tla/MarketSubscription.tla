--------------------------- MODULE MarketSubscription ---------------------------
(***************************************************************************)
(* Which Polymarket tokens the market websocket is subscribed to.            *)
(* Browsers select markets at the hub (services/polymarket_ws_hub.py),      *)
(* refreshes replace the markets of the store, time moves the current        *)
(* windows, and the websocket loop of services/polymarket_monitor.py         *)
(* connects with the tokens wanted when it looked.  The locks of hub and     *)
(* store are never held over an await, so what a coroutine does between two  *)
(* requests is one step.  A market stands for its tokens.                    *)
(***************************************************************************)
EXTENDS Integers, Sequences

CONSTANTS Intervals,     \* sequence of UP_DOWN_INTERVAL_TAGS
          Length,        \* epochs of a window, by interval
          Clients,       \* websockets of browsers
          Filled,        \* the first refresh has ended before the first browser connects
          MaxEpoch, MaxFails   \* bounds

Tags == {Intervals[k] : k \in DOMAIN Intervals}

ASSUME MarketSubscriptionAssumption ==
  /\ {MaxEpoch, MaxFails} \subseteq Nat /\ Filled \in BOOLEAN
  /\ Intervals \in Seq(Tags) \ {<<>>} /\ "none" \notin Tags
  /\ Length \in [Tags -> Nat \ {0}]

VARIABLES epoch,
          published,      \* newest market of each interval at Polymarket
          listed,         \* _markets_by_interval
          refresh,        \* refresh_markets_once: by the scheduler and by the websocket loop
          fresh,          \* a refresh that began in this epoch has ended
          event,          \* _token_change_event
          ws,             \* the websocket loop and the tokens it connects with
          clients, intervalClients, marketClients,   \* the dictionaries of the hub
          browser,        \* each websocket of a browser and its handler
          fails,          \* bound: failures
          overlapped      \* history: two requests for lists have been under way at once

hub   == <<clients, intervalClients, marketClients>>
steps == <<epoch, published, listed, refresh, fresh, event, ws, hub, browser, fails>>
vars  == <<steps, overlapped>>

Market     == Tags \X (0 .. MaxEpoch + 1)
Refreshers == {"cron", "ws"}
NoMarket   == <<>>
NoSub      == [interval |-> "none", market |-> NoMarket]
Idle       == [left |-> 0, prev |-> {}, since |-> 0, answer |-> {}]

current(i, e)   == <<i, e \div Length[i]>>
AllListed       == UNION {listed[i] : i \in Tags}
ActiveMarketIds == {m \in Market : marketClients[m] # {}}
CurrentMarkets  == {current(i, epoch) : i \in Tags} \cap AllListed

\* subscription_token_ids
Wanted == CurrentMarkets \cup (ActiveMarketIds \cap AllListed)

\* fetch_btc_up_down_markets: the last closed market, the current one, and the next once it
\* is published, at the time of the request.
Fetched(i) == {m \in Market : m[1] = i /\ epoch \div Length[i] - 1 <= m[2] /\ m[2] <= published[i]}

CanFail == fails < MaxFails /\ fails' = fails + 1

------------------------------------------------------------------------------
(* The hub: what each operation makes of its dictionaries. *)

Hub == [clients |-> clients, byInterval |-> intervalClients, byMarket |-> marketClients]

HubBecomes(h) == clients' = h.clients /\ intervalClients' = h.byInterval /\ marketClients' = h.byMarket

_remove_market_client(h, c) ==
  IF h.clients[c].market = NoMarket THEN h
  ELSE [h EXCEPT !.byMarket[h.clients[c].market] = @ \ {c}]

connect(h, c, i) == [h EXCEPT !.clients[c] = [interval |-> i, market |-> NoMarket],
                              !.byInterval[i] = @ \cup {c}]

\* previous is what the handler of the browser remembers.
replace_interval_subscription(h, c, previous, next) ==
  connect(_remove_market_client([h EXCEPT !.byInterval[previous] = @ \ {c}], c), c, next)

\* Variant: the browser stays in the list of the old interval.
moved_kept(h, c, i) == IF h.clients[c].interval = i THEN h ELSE connect(h, c, i)

\* A subscription in another interval replaces the old one, market and all.
moved(h, c, i) ==
  LET old == h.clients[c].interval IN
  IF old = i THEN h
  ELSE connect(IF old = "none" THEN h ELSE [h EXCEPT !.byInterval[old] = @ \ {c}], c, i)

replace_market_subscription(h, c, m) ==
  [_remove_market_client(moved(h, c, m[1]), c) EXCEPT !.clients[c].market = m, !.byMarket[m] = @ \cup {c}]

disconnect(h, c) ==
  IF h.clients[c] = NoSub THEN h
  ELSE [_remove_market_client(h, c) EXCEPT !.byInterval[h.clients[c].interval] = @ \ {c},
                                           !.clients[c] = NoSub]

\* notify_polymarket_market_subscription_changed
Notifies(h) == event' = (event \/ {m \in Market : h.byMarket[m] # {}} # ActiveMarketIds)

\* Variant: the interval named in the call is searched for the websocket.
Sent_by_argument(h, receivers, failing) == h

\* _send_to_clients: those whose websocket fails are disconnected; nothing is announced.
Sent(h, receivers, failing) ==
  LET lost == receivers \cap failing IN
  [clients    |-> [c \in Clients |-> IF c \in lost THEN NoSub ELSE h.clients[c]],
   byInterval |-> [i \in Tags |-> h.byInterval[i] \ {c \in lost : h.clients[c].interval = i}],
   byMarket   |-> [m \in Market |-> h.byMarket[m] \ {c \in lost : h.clients[c].market = m}]]

\* The end of a connection may go unnoticed by a send, that of a crashed handler does not.
MayFail == {failing \in SUBSET {c \in Clients : browser[c].at \in {"lost", "dead"}} :
              \A c \in Clients : browser[c].at = "dead" => c \in failing}

------------------------------------------------------------------------------
(* The handler of a browser *)

unmoved == <<epoch, published, refresh, fresh, ws>>

Connects(c, i) ==
  /\ browser[c].at = "none"
  /\ HubBecomes(connect(Hub, c, i))
  /\ browser' = [browser EXCEPT ![c] = [at |-> IF listed[i] = {} THEN "asks" ELSE "up",
                                        interval |-> i, answer |-> IF listed[i] = {} THEN Fetched(i) ELSE {}]]
  /\ UNCHANGED <<unmoved, listed, event, fails>>

\* ensure_btc_up_down_markets fills an empty list and tells nobody.
Ensures(c) ==
  LET i == browser[c].interval IN
  /\ browser[c].at = "asks"
  /\ browser' = [browser EXCEPT ![c].at = "up", ![c].answer = {}]
  /\ \/ listed' = [listed EXCEPT ![i] = browser[c].answer] /\ UNCHANGED fails
     \/ CanFail /\ UNCHANGED listed
  /\ UNCHANGED <<unmoved, hub, event>>

SelectsMarket(c, m) ==
  /\ browser[c].at = "up" /\ m \in listed[m[1]] /\ clients[c].market # m
  /\ LET h == replace_market_subscription(Hub, c, m) IN HubBecomes(h) /\ Notifies(h)
  /\ browser' = [browser EXCEPT ![c].interval = m[1]]
  /\ UNCHANGED <<unmoved, listed, fails>>

SelectsInterval(c, i) ==
  /\ browser[c].at = "up" /\ i # browser[c].interval
  /\ LET h == replace_interval_subscription(Hub, c, browser[c].interval, i) IN HubBecomes(h) /\ Notifies(h)
  /\ browser' = [browser EXCEPT ![c] = [at |-> IF listed[i] = {} THEN "asks" ELSE "up",
                                        interval |-> i, answer |-> IF listed[i] = {} THEN Fetched(i) ELSE {}]]
  /\ UNCHANGED <<unmoved, listed, fails>>

\* The browser goes away.
Goes(c) == /\ browser[c].at = "up" /\ browser' = [browser EXCEPT ![c].at = "lost"]
           /\ UNCHANGED <<unmoved, listed, event, hub, fails>>

\* The handler is told so.
Leaves(c) ==
  /\ browser[c].at = "lost"
  /\ browser' = [browser EXCEPT ![c].at = "gone"]
  /\ LET h == disconnect(Hub, c) IN HubBecomes(h) /\ Notifies(h)
  /\ UNCHANGED <<unmoved, listed, fails>>

\* The handler raises anything but WebSocketDisconnect: it ends and leaves the hub as it is.
Crashes(c) ==
  /\ browser[c].at = "up" /\ CanFail
  /\ browser' = [browser EXCEPT ![c].at = "dead"]
  /\ UNCHANGED <<unmoved, listed, event, hub>>

\* broadcast_active_market_snapshots
BroadcastsMarket(m) ==
  /\ m \in ActiveMarketIds \cap AllListed
  /\ \E failing \in MayFail : HubBecomes(Sent(Hub, marketClients[m], failing))
  /\ UNCHANGED <<unmoved, listed, event, browser, fails>>

------------------------------------------------------------------------------
(* Refreshes *)

Begun == [left |-> 1, prev |-> Wanted, since |-> epoch, answer |-> Fetched(Intervals[1])]

\* The scheduler runs one refresh at a time.
CronBegins ==
  /\ refresh["cron"] = Idle
  /\ refresh' = [refresh EXCEPT !["cron"] = Begun]
  /\ UNCHANGED <<epoch, published, listed, fresh, event, ws, hub, browser, fails>>

\* The markets of one interval arrive, and their list goes to its browsers; after the last,
\* the tokens wanted now are compared with those wanted before.
RefreshAnswers(r) ==
  LET i == Intervals[refresh[r].left]
      last == refresh[r].left = Len(Intervals) IN
  /\ refresh[r] # Idle /\ UNCHANGED <<epoch, published, browser, fails>>
  /\ listed' = [listed EXCEPT ![i] = refresh[r].answer]
  /\ \E failing \in MayFail : HubBecomes(Sent(Hub, intervalClients[i], failing))
  /\ refresh' = [refresh EXCEPT ![r] = IF last THEN Idle
                                       ELSE [refresh[r] EXCEPT !.left = @ + 1,
                                                               !.answer = Fetched(Intervals[refresh[r].left + 1])]]
  /\ fresh' = (fresh \/ (last /\ refresh[r].since = epoch))
  /\ event' = (event \/ (last /\ Wanted' # refresh[r].prev))
  /\ ws' = IF last /\ r = "ws" THEN [ws EXCEPT !.at = "reads"] ELSE ws

RefreshFails(r) ==
  /\ refresh[r] # Idle /\ CanFail
  /\ refresh' = [refresh EXCEPT ![r] = Idle]
  /\ ws' = IF r = "ws" THEN [ws EXCEPT !.at = "reads"] ELSE ws
  /\ UNCHANGED <<epoch, published, listed, fresh, event, hub, browser>>

------------------------------------------------------------------------------
(* The websocket loop *)

\* _wait_for_token_ids
Reads ==
  /\ ws.at = "reads"
  /\ IF Wanted # {} THEN ws' = [at |-> "connects", tokens |-> Wanted] /\ UNCHANGED refresh
     ELSE ws' = [ws EXCEPT !.at = "finds"] /\ refresh' = [refresh EXCEPT !["ws"] = Begun]
  /\ UNCHANGED <<epoch, published, listed, fresh, event, hub, browser, fails>>

\* Variant: changes announced before the connection are forgotten.
OpensCleared == /\ ws.at = "connects"
                /\ ws' = [ws EXCEPT !.at = "open"] /\ event' = FALSE
                /\ UNCHANGED <<epoch, published, listed, refresh, fresh, hub, browser, fails>>

Opens == /\ ws.at = "connects"
         /\ ws' = [ws EXCEPT !.at = "open"]
         /\ UNCHANGED <<epoch, published, listed, refresh, fresh, event, hub, browser, fails>>

\* PolymarketSubscriptionChanged
Reconnects == /\ ws.at = "open" /\ event
              /\ event' = FALSE /\ ws' = [at |-> "reads", tokens |-> {}]
              /\ UNCHANGED <<epoch, published, listed, refresh, fresh, hub, browser, fails>>

\* Variant: the loop opens again with the tokens it had.
BreaksKeeping == /\ ws.at \in {"connects", "open"} /\ CanFail
                 /\ ws' = [ws EXCEPT !.at = "connects"] /\ event' = FALSE
                 /\ UNCHANGED <<epoch, published, listed, refresh, fresh, hub, browser>>

\* The connection breaks, or a message cannot be handled; after a while the loop reads again.
Breaks == /\ ws.at \in {"connects", "open"} /\ CanFail
          /\ ws' = [at |-> "reads", tokens |-> {}]
          /\ UNCHANGED <<epoch, published, listed, refresh, fresh, event, hub, browser>>

\* Polymarket publishes a market before its window begins.
Publishes(i) ==
  /\ published[i] <= epoch \div Length[i]
  /\ published' = [published EXCEPT ![i] = @ + 1]
  /\ UNCHANGED <<epoch, listed, refresh, fresh, event, ws, hub, browser, fails>>

EpochMoves == /\ epoch < MaxEpoch /\ \A i \in Tags : published[i] >= (epoch + 1) \div Length[i]
              /\ epoch' = epoch + 1 /\ fresh' = FALSE
              /\ UNCHANGED <<published, listed, refresh, event, ws, hub, browser, fails>>

------------------------------------------------------------------------------
Init ==
  /\ epoch = 0 /\ published = [i \in Tags |-> 0]
  /\ listed = [i \in Tags |-> IF Filled THEN {<<i, 0>>} ELSE {}]
  /\ refresh = [r \in Refreshers |-> Idle] /\ fresh = FALSE /\ event = FALSE
  /\ ws = [at |-> "reads", tokens |-> {}]
  /\ clients = [c \in Clients |-> NoSub]
  /\ intervalClients = [i \in Tags |-> {}] /\ marketClients = [m \in Market |-> {}]
  /\ browser = [c \in Clients |-> [at |-> "none", interval |-> Intervals[1], answer |-> {}]]
  /\ fails = 0 /\ overlapped = FALSE

Step ==
  \/ \E c \in Clients :
       \/ Ensures(c) \/ Goes(c) \/ Leaves(c) \/ Crashes(c)
       \/ \E i \in Tags : Connects(c, i) \/ SelectsInterval(c, i)
       \/ \E m \in Market : SelectsMarket(c, m)
  \/ \E m \in Market : BroadcastsMarket(m)
  \/ CronBegins
  \/ \E r \in Refreshers : RefreshAnswers(r) \/ RefreshFails(r)
  \/ Reads \/ Opens \/ Reconnects \/ Breaks \/ EpochMoves
  \/ \E i \in Tags : Publishes(i)

Refreshing == \E r \in Refreshers : refresh[r] # Idle
Asking(c)  == browser[c].at = "asks"

\* Answers of two requests may be stored in another order than they were given in.
Overlap == \/ \A r \in Refreshers : refresh[r] # Idle
           \/ \E c \in Clients : Asking(c) /\ (Refreshing \/ \E d \in Clients \ {c} : Asking(d))

Next == Step /\ overlapped' = (overlapped \/ Overlap')

Spec == Init /\ [][Next]_vars

\* The loops go on, the scheduler begins refreshes, requests are answered or fail.
Fairness ==
  /\ WF_steps(Reads) /\ WF_steps(Opens) /\ WF_steps(Reconnects) /\ WF_steps(CronBegins)
  /\ \A r \in Refreshers : WF_steps(RefreshAnswers(r))

LiveSpec == Spec /\ Fairness

------------------------------------------------------------------------------
\* Types; the loop waits for its own refresh exactly while it found nothing to subscribe.
TypeOK ==
  /\ epoch \in 0 .. MaxEpoch /\ fails \in 0 .. MaxFails /\ {fresh, event} \subseteq BOOLEAN
  /\ \A i \in Tags : listed[i] \subseteq {i} \X (0 .. MaxEpoch + 1)
  /\ \A r \in Refreshers : refresh[r].left \in 0 .. Len(Intervals)
  /\ ws.tokens \subseteq Market
  /\ ws.at = "finds" <=> refresh["ws"] # Idle

Settled == ws.at = "open" /\ ~event /\ \A r \in Refreshers : refresh[r] = Idle

\* Once nothing is under way, the websocket has every market that a browser has selected
\* (polymarket_monitor.py:270), whatever was selected, listed or broken while it connected,
\* as long as no two requests for lists overlapped.
SelectedIsSubscribed == Settled /\ ~overlapped => ActiveMarketIds \cap AllListed \subseteq ws.tokens

\* Once nothing is under way and a refresh has run since the windows moved, the websocket
\* has the current market of every interval (polymarket_monitor.py:270).
CurrentIsSubscribed == Settled /\ fresh => CurrentMarkets \subseteq ws.tokens

\* Once nothing is under way and no window has moved, the websocket has no market that
\* nobody has selected any more (routes_polymarket.py:399).
OnlyWantedSubscribed == Settled => ws.tokens \subseteq Wanted

\* The dictionaries of the hub agree: a browser is in the list of its interval only, and in
\* the set of the market it selected.
HubServes ==
  \A c \in Clients : /\ \A i \in Tags : c \in intervalClients[i] <=> clients[c].interval = i
                     /\ clients[c].market # NoMarket => c \in marketClients[clients[c].market]

\* A browser is sent the one market it selected (routes_polymarket.py:399).
OneMarketEach ==
  \A m \in Market : \A c \in marketClients[m] : clients[c].market = m

\* As long as no two requests for lists overlapped, a market that stays selected and listed is
\* subscribed again and again: the loop never rests without it and never goes on reconnecting.
\* After an overlap, a refresh that began earlier may list the market again and find just what was
\* wanted when it began, so that nobody tells the loop (polymarket_monitor.py:168).
SelectedIsServed ==
  \A m \in Market : <>[](~overlapped /\ m \in AllListed /\ marketClients[m] # {})
                      => []<>(ws.at = "open" /\ m \in ws.tokens)

\* A browser whose handler crashed does not stay at the hub for ever: a later broadcast
\* finds it.
HubForgets == \A c \in Clients : browser[c].at = "dead" ~> clients[c] = NoSub
================================================================================
