---------------------------- MODULE AccountState ----------------------------
(***************************************************************************)
(* The private account state: services/polymarket_account_store.py and     *)
(* services/polymarket_account_monitor.py, with the routes and the         *)
(* scheduled job that refresh it, cancel an order or switch the active     *)
(* credentials.                                                            *)
(*                                                                         *)
(* The cache shows one wallet.  REST snapshots replace what it holds, the  *)
(* user websocket corrects it event by event, and any number of coroutines *)
(* refresh it at once.  The methods of the store hold a lock over code     *)
(* without an await, so each is atomic, and so is a run of them without    *)
(* other awaits between: an action is what happens between two awaits that *)
(* really wait (the database, the exchange, a browser).                    *)
(*                                                                         *)
(* Credentials stand for their wallet.  A position is the set of trades    *)
(* that made it; an order is open or not.  Balance and trading restriction *)
(* are fetched and stored like positions, and only their failure is kept.  *)
(***************************************************************************)
EXTENDS Integers, Sequences, FiniteSets

CONSTANTS
  Credentials,   \* the stored credential profiles
  NoOne,         \* no active profile
  Orders,        \* order ids
  Trades,        \* trade ids
  Owner,         \* the profile an order or a trade belongs to
  Routes,        \* HTTP requests that can be in progress at once
  MaxRecent,     \* MAX_RECENT_TRADES
  MaxQueue,      \* bound: messages on their way through the websocket
  MaxSwitches,   \* bound: activations of a profile
  MaxFailures    \* bound: failed calls and lost connections

Cron == "cron"        \* the scheduled job, of which one instance runs at a time
Socket == "socket"    \* the websocket handler, which refreshes after a trade
Processes == Routes \cup {Cron, Socket}

ASSUME CredentialsAssumption == NoOne \notin Credentials
ASSUME OwnerAssumption == Owner \in [Orders \cup Trades -> Credentials]
ASSUME RoutesAssumption == Cron \notin Routes /\ Socket \notin Routes
ASSUME BoundsAssumption ==
  /\ MaxRecent \in Nat \ {0}
  /\ MaxQueue \in Nat /\ MaxSwitches \in Nat /\ MaxFailures \in Nat

VARIABLES
  exch,        \* the exchange: each order new, open or closed
  traded,      \* the exchange: the trades that took place
  channel,     \* the messages sent on the connection and not yet handled
  active,      \* the database: the active profile
  identity,    \* the store: the wallet shown
  positions,   \* the store: the trades the positions shown come from
  orders,      \* the store: the orders shown
  suppressed,  \* the store: canceled orders that may not be shown
  recent,      \* the store: for each trade, whether listed and how confirmed
  refresh,     \* how far each process is with a refresh, or with what precedes it
  socket,      \* the websocket loop: where it is, its profile, trades in hand
  changed,     \* _credential_change_event is set
  ended,       \* history: how the store learned that an order ended
  switches,    \* bound counter
  failures     \* bound counter

exchange == <<exch, traded, channel>>
store == <<identity, positions, orders, suppressed, recent, ended>>
bounds == <<switches, failures>>
vars == <<exchange, active, store, refresh, socket, changed, bounds>>

Profiles == Credentials \cup {NoOne}
Sources == {"positions", "orders"}
Confirmation == {"none", "pending", "confirmed", "refresh_failed"}
Events == [kind : {"open", "closed"}, id : Orders] \cup [kind : {"trade"}, id : Trades]
Refresh == [at : {"idle", "activated", "canceling", "canceled", "resolving", "identifying", "fetching"},
            cred : Profiles, target : SUBSET Orders, got : SUBSET Sources, failed : SUBSET Sources,
            positions : SUBSET Trades, orders : SUBSET Orders]
Idle == [at |-> "idle", cred |-> NoOne, target |-> {}, got |-> {}, failed |-> {},
         positions |-> {}, orders |-> {}]
At(r, place) == refresh[r].at = place
Connected == socket.at \in {"running", "woken", "handling"}

Init ==
  /\ exch = [o \in Orders |-> "new"] /\ traded = {} /\ channel = <<>>
  /\ active \in Profiles
  /\ identity = NoOne /\ positions = {} /\ orders = {} /\ suppressed = {}
  /\ recent = [t \in Trades |-> "none"]
  /\ refresh = [r \in Processes |-> Idle]
  /\ socket = [at |-> "loop", cred |-> NoOne, trades |-> {}]
  /\ changed = FALSE
  /\ ended = [o \in Orders |-> "no"]
  /\ switches = 0 /\ failures = 0

Fails == failures < MaxFailures /\ failures' = failures + 1
-----------------------------------------------------------------------------
(* The exchange *)

PositionsOf(w) == {t \in traded : Owner[t] = w}
OpenOrders(w) == {o \in Orders : exch[o] = "open" /\ Owner[o] = w}

\* A message reaches the connection that is authenticated as its owner.
Sent(e) == IF Connected /\ socket.cred = Owner[e.id] THEN Append(channel, e) ELSE channel
Room == Len(channel) < MaxQueue

ExchangeOpens(o) ==
  /\ exch[o] = "new" /\ Room
  /\ exch' = [exch EXCEPT ![o] = "open"]
  /\ channel' = Sent([kind |-> "open", id |-> o])
  /\ UNCHANGED <<traded, active, store, refresh, socket, changed, bounds>>

\* Filled, expired, or canceled elsewhere.
ExchangeCloses(o) ==
  /\ exch[o] = "open" /\ Room
  /\ exch' = [exch EXCEPT ![o] = "closed"]
  /\ channel' = Sent([kind |-> "closed", id |-> o])
  /\ UNCHANGED <<traded, active, store, refresh, socket, changed, bounds>>

\* A trade takes place, or is reported again as it settles.
ExchangeTrades(t) ==
  /\ Room
  /\ traded' = traded \cup {t}
  /\ channel' = Sent([kind |-> "trade", id |-> t])
  /\ UNCHANGED <<exch, active, store, refresh, socket, changed, bounds>>

Exchange ==
  \/ \E o \in Orders : ExchangeOpens(o) \/ ExchangeCloses(o)
  \/ \E t \in Trades : ExchangeTrades(t)
-----------------------------------------------------------------------------
(* The store *)

Clear ==
  /\ positions' = {} /\ orders' = {} /\ suppressed' = {}
  /\ recent' = [t \in Trades |-> "none"]
  /\ ended' = [o \in Orders |-> "no"]

set_account_identity(w) ==
  /\ identity' = w
  /\ IF w = identity THEN UNCHANGED <<positions, orders, suppressed, recent, ended>> ELSE Clear

\* Mutants: the answer is not filtered; it is added to what is shown.
ReplaceUnfiltered(answer) == answer
ReplaceMerged(answer) == (orders \cup answer) \ suppressed
replace_orders(answer) == answer \ suppressed

\* An open order is shown unless its cancellation is remembered; an ended one never.
apply_order(e) ==
  /\ orders' = IF e.kind = "open" /\ e.id \notin suppressed
                 THEN orders \cup {e.id} ELSE orders \ {e.id}
  /\ ended' = IF e.kind = "closed" /\ ended[e.id] = "no"
                THEN [ended EXCEPT ![e.id] = "event"] ELSE ended

suppress_canceled_orders(ids) ==
  /\ suppressed' = suppressed \cup ids
  /\ orders' = orders \ ids
  /\ ended' = [o \in Orders |-> IF o \in ids THEN "cancel" ELSE ended[o]]

\* The list is newest first: what falls off its end is never the new trade.
listed == {t \in Trades : recent[t] # "none"}
Dropped(t) == {gone \in SUBSET (listed \ {t}) :
                 \/ Cardinality(listed \cup {t}) <= MaxRecent /\ gone = {}
                 \/ Cardinality((listed \cup {t}) \ gone) = MaxRecent}
apply_trade(t) ==
  \E gone \in Dropped(t) :
    recent' = [x \in Trades |-> IF x = t THEN "pending" ELSE IF x \in gone THEN "none" ELSE recent[x]]

\* Mutant: the error of the refresh is ignored.
OutcomeConfirmed(error) == "confirmed"
Outcome(error) == IF error THEN "refresh_failed" ELSE "confirmed"
mark_trades_confirmation(ids, error) ==
  [t \in Trades |-> IF t \in ids /\ recent[t] = "pending" THEN Outcome(error) ELSE recent[t]]

\* Assumption: within the 90 seconds, what was asked before the cancellation is answered (15
\* seconds an attempt, few attempts), and the messages sent before it are read.
StillTold(o) ==
  \/ \E r \in Processes : o \in refresh[r].orders
  \/ \E i \in 1 .. Len(channel) : channel[i] = [kind |-> "open", id |-> o]
SuppressionExpires(o) ==
  /\ o \in suppressed /\ ~StillTold(o)
  /\ suppressed' = suppressed \ {o}
  /\ UNCHANGED <<exchange, active, identity, positions, orders, recent, ended, refresh, socket,
                 changed, bounds>>
-----------------------------------------------------------------------------
(* refresh_account_snapshot, run by the job, by the routes and by the websocket handler *)

Goes(r, place) == refresh' = [refresh EXCEPT ![r].at = place]
Leaves(r) == refresh' = [refresh EXCEPT ![r] = Idle]
Resumes(r) == socket' = IF r = Socket THEN [socket EXCEPT !.at = "running", !.trades = {}] ELSE socket
Settles(r, error) ==
  recent' = IF r = Socket THEN mark_trades_confirmation(socket.trades, error) ELSE recent

RefreshBegins(r) ==
  /\ r # Socket /\ At(r, "idle")
  /\ Goes(r, "resolving")
  /\ UNCHANGED <<exchange, active, store, socket, changed, bounds>>

\* The active profile is read in a session that is still open when the answer is there.
RefreshResolves(r) ==
  /\ At(r, "resolving")
  /\ refresh' = [refresh EXCEPT ![r] = [Idle EXCEPT !.at = "identifying", !.cred = active]]
  /\ UNCHANGED <<exchange, active, store, socket, changed, bounds>>

RefreshIdentifies(r) ==
  /\ At(r, "identifying")
  /\ set_account_identity(refresh[r].cred)
  /\ Goes(r, "fetching")
  /\ UNCHANGED <<exchange, active, socket, changed, bounds>>

\* Mutant: the handler lets the exception pass without marking its trades.
RefreshRaisesUnmarked(r) ==
  /\ At(r, "resolving") /\ Fails
  /\ Leaves(r) /\ Resumes(r)
  /\ UNCHANGED <<exchange, active, store, changed, switches>>

\* The database fails: the job and the routes give up, the handler marks its trades.
RefreshRaises(r) ==
  /\ At(r, "resolving") /\ Fails
  /\ Leaves(r) /\ Resumes(r) /\ Settles(r, TRUE)
  /\ UNCHANGED <<exchange, active, identity, positions, orders, suppressed, ended, changed, switches>>

Fetches(w) == IF w = NoOne THEN {} ELSE Sources
Awaits(r, s) == At(r, "fetching") /\ s \in Fetches(refresh[r].cred) \ refresh[r].got

\* The exchange answers one of the concurrent requests with what is there at that moment.
FetchPositions(r) ==
  /\ Awaits(r, "positions")
  /\ refresh' = [refresh EXCEPT ![r].got = @ \cup {"positions"},
                                 ![r].positions = PositionsOf(refresh[r].cred)]
  /\ UNCHANGED <<exchange, active, store, socket, changed, bounds>>

FetchOrders(r) ==
  /\ Awaits(r, "orders")
  /\ refresh' = [refresh EXCEPT ![r].got = @ \cup {"orders"},
                                 ![r].orders = OpenOrders(refresh[r].cred)]
  /\ UNCHANGED <<exchange, active, store, socket, changed, bounds>>

FetchFails(r) ==
  /\ Fails
  /\ \E s \in Sources :
       /\ Awaits(r, s)
       /\ refresh' = [refresh EXCEPT ![r].got = @ \cup {s}, ![r].failed = @ \cup {s}]
  /\ UNCHANGED <<exchange, active, store, socket, changed, switches>>

Answered(r, s) == s \in refresh[r].got \ refresh[r].failed

\* Every answer that arrived is stored; the error is that of balance or restriction as well.
RefreshStores(r) ==
  /\ At(r, "fetching") /\ refresh[r].got = Fetches(refresh[r].cred)
  /\ positions' = IF Answered(r, "positions") THEN refresh[r].positions ELSE positions
  /\ orders' = IF Answered(r, "orders") THEN replace_orders(refresh[r].orders) ELSE orders
  /\ \/ Settles(r, refresh[r].failed # {}) /\ UNCHANGED failures
     \/ Settles(r, TRUE) /\ Fails
  /\ Leaves(r) /\ Resumes(r)
  /\ UNCHANGED <<exchange, active, identity, suppressed, ended, changed, switches>>

RefreshStep(r) ==
  \/ RefreshResolves(r) \/ RefreshIdentifies(r) \/ RefreshRaises(r)
  \/ FetchPositions(r) \/ FetchOrders(r) \/ FetchFails(r) \/ RefreshStores(r)
-----------------------------------------------------------------------------
(* The routes *)

\* activate_polymarket_credential commits the profile, then tells the websocket loop,
\* then refreshes.
Activates(r, w) ==
  /\ At(r, "idle") /\ switches < MaxSwitches
  /\ active' = w
  /\ switches' = switches + 1
  /\ Goes(r, "activated")
  /\ UNCHANGED <<exchange, store, socket, changed, failures>>

NotifiesChange(r) ==
  /\ At(r, "activated")
  /\ changed' = TRUE
  /\ Goes(r, "resolving")
  /\ UNCHANGED <<exchange, active, store, socket, bounds>>

\* The import script activates the first profile, from another process.
ImportsFirst(w) ==
  /\ active = NoOne
  /\ active' = w
  /\ UNCHANGED <<exchange, store, refresh, socket, changed, bounds>>

\* The request is signed for the profile that is active when it is sent.
CancelBegins(r, o) ==
  /\ At(r, "idle") /\ exch[o] # "new" /\ active # NoOne
  /\ refresh' = [refresh EXCEPT ![r].at = "canceling", ![r].cred = active, ![r].target = {o}]
  /\ UNCHANGED <<exchange, active, store, socket, changed, bounds>>

\* What the exchange cancels for that profile.
Cancelable(r) == refresh[r].target \cap OpenOrders(refresh[r].cred)
Canceled(r) ==
  /\ exch' = [o \in Orders |-> IF o \in Cancelable(r) THEN "closed" ELSE exch[o]]
  /\ \/ Cancelable(r) = {} /\ UNCHANGED channel
     \/ \E o \in Cancelable(r) : channel' = Sent([kind |-> "closed", id |-> o])
  /\ UNCHANGED traded

CancelExecutes(r) ==
  /\ At(r, "canceling") /\ Canceled(r)
  /\ refresh' = [refresh EXCEPT ![r].at = "canceled", ![r].target = Cancelable(r)]
  /\ UNCHANGED <<active, store, socket, changed, bounds>>

\* The request or its answer is lost: it is signed and sent again, or the route gives up without
\* a refresh.
CancelFails(r) ==
  /\ At(r, "canceling") /\ Fails
  /\ Canceled(r) \/ UNCHANGED exchange
  /\ refresh' = [refresh EXCEPT ![r].cred = active] \/ Leaves(r)
  /\ UNCHANGED <<active, store, socket, changed, switches>>

CancelReturns(r) ==
  /\ At(r, "canceled")
  /\ suppress_canceled_orders(refresh[r].target)
  /\ refresh' = [refresh EXCEPT ![r] = [Idle EXCEPT !.at = "resolving"]]
  /\ UNCHANGED <<exchange, active, identity, positions, recent, socket, changed, bounds>>

RouteStep(r) == NotifiesChange(r) \/ CancelExecutes(r) \/ CancelFails(r) \/ CancelReturns(r)
Request(r) ==
  \/ \E w \in Credentials : Activates(r, w)
  \/ \E o \in Orders : CancelBegins(r, o)
-----------------------------------------------------------------------------
(* The websocket loop *)

SocketGoes(place) == socket' = [socket EXCEPT !.at = place]
Disconnects ==
  /\ socket' = [at |-> "loop", cred |-> NoOne, trades |-> {}]
  /\ channel' = <<>>

SocketChecks ==
  /\ socket.at = "loop"
  /\ SocketGoes(IF active = NoOne THEN "missing" ELSE "once")
  /\ UNCHANGED <<exchange, active, store, refresh, changed, bounds>>

SocketStopsMissing ==
  /\ socket.at = "missing"
  /\ \/ changed /\ changed' = FALSE /\ SocketGoes("once")
     \/ ~changed /\ SocketGoes("loop") /\ UNCHANGED changed
  /\ UNCHANGED <<exchange, active, store, refresh, bounds>>

SocketResolves ==
  /\ socket.at = "once"
  /\ socket' = IF active = NoOne THEN [socket EXCEPT !.at = "loop"]
               ELSE [socket EXCEPT !.at = "connecting", !.cred = active]
  /\ UNCHANGED <<exchange, active, store, refresh, changed, bounds>>

\* Mutant: the event is cleared when the connection is made, not when it is noticed.
SocketConnectsCleared ==
  /\ socket.at = "connecting"
  /\ SocketGoes("running") /\ changed' = FALSE
  /\ UNCHANGED <<exchange, active, store, refresh, bounds>>

SocketConnects ==
  /\ socket.at = "connecting"
  /\ SocketGoes("running")
  /\ UNCHANGED <<exchange, active, store, refresh, changed, bounds>>

\* No connection, or the end of one; what it had not delivered is lost.
SocketFails ==
  /\ socket.at \in {"once", "connecting", "running", "woken"} /\ Fails
  /\ Disconnects
  /\ UNCHANGED <<exch, traded, active, store, refresh, changed, switches>>

\* A change of profile comes before a message received in the same wait, which is lost too.
SocketNotices ==
  /\ socket.at = "running" /\ changed
  /\ changed' = FALSE
  /\ Disconnects
  /\ UNCHANGED <<exch, traded, active, store, refresh, bounds>>

\* Mutant: a message is handled although only the conditions changed.
SocketWakesUnread ==
  /\ socket.at = "running" /\ ~changed
  /\ SocketGoes("woken")
  /\ UNCHANGED <<exchange, active, store, refresh, changed, bounds>>

\* The wait returned a message; a change of conditions is sent to the exchange before it is handled.
SocketWakes ==
  /\ socket.at = "running" /\ ~changed /\ channel # <<>>
  /\ SocketGoes("woken")
  /\ UNCHANGED <<exchange, active, store, refresh, changed, bounds>>

SocketHandlesOrder ==
  /\ socket.at = "woken" /\ Head(channel).kind # "trade"
  /\ apply_order(Head(channel))
  /\ channel' = Tail(channel)
  /\ SocketGoes("running")
  /\ UNCHANGED <<exch, traded, active, identity, positions, suppressed, recent, refresh, changed, bounds>>

SocketHandlesTrade ==
  /\ socket.at = "woken" /\ Head(channel).kind = "trade"
  /\ apply_trade(Head(channel).id)
  /\ channel' = Tail(channel)
  /\ socket' = [socket EXCEPT !.at = "handling", !.trades = {Head(channel).id}]
  /\ Goes(Socket, "resolving")
  /\ UNCHANGED <<exch, traded, active, identity, positions, orders, suppressed, ended, changed, bounds>>

SocketStep ==
  \/ SocketChecks \/ SocketStopsMissing \/ SocketResolves \/ SocketConnects \/ SocketFails
  \/ SocketNotices \/ SocketWakes \/ SocketHandlesOrder \/ SocketHandlesTrade
-----------------------------------------------------------------------------
Next ==
  \/ Exchange \/ SocketStep
  \/ \E r \in Processes : RefreshBegins(r) \/ RefreshStep(r)
  \/ \E r \in Routes : Request(r) \/ RouteStep(r)
  \/ \E w \in Credentials : ImportsFirst(w)
  \/ \E o \in Orders : SuppressionExpires(o)

Spec == Init /\ [][Next]_vars

\* The job comes back every few seconds, requests have timeouts, and the event loop runs every
\* coroutine that is ready.  Users and the exchange owe nothing.
Fairness ==
  /\ WF_vars(RefreshBegins(Cron)) /\ WF_vars(SocketStep)
  /\ \A r \in Processes : WF_vars(RefreshStep(r))
  /\ \A r \in Routes : WF_vars(RouteStep(r))
FairSpec == Spec /\ Fairness
-----------------------------------------------------------------------------
TypeOK ==
  /\ exch \in [Orders -> {"new", "open", "closed"}] /\ traded \subseteq Trades
  /\ channel \in Seq(Events)
  /\ active \in Profiles /\ identity \in Profiles
  /\ positions \subseteq Trades /\ orders \subseteq Orders /\ suppressed \subseteq Orders
  /\ recent \in [Trades -> Confirmation]
  /\ refresh \in [Processes -> Refresh]
  /\ socket \in [at : {"loop", "missing", "once", "connecting", "running", "woken", "handling"},
                  cred : Profiles, trades : SUBSET Trades]
  /\ changed \in BOOLEAN
  /\ ended \in [Orders -> {"no", "event", "cancel"}]
  /\ switches \in Nat /\ failures \in Nat
  /\ At(Socket, "idle") <=> socket.at # "handling"
  /\ socket.at = "woken" => channel # <<>>

\* An order that the exchange confirmed as canceled (cancel_polymarket_order,
\* suppress_canceled_orders) is not shown again while the account stays the same: neither by a
\* snapshot or a message from before the cancellation, nor once the suppression has run out.
CanceledHidden == \A o \in Orders : ended[o] = "cancel" => o \notin orders

\* Every trade that waits for confirmation is in the hands of the websocket handler, which has not
\* finished (handle_raw_message): no failure and no change of account leaves one behind.
PendingIsHandled ==
  \A t \in Trades : recent[t] = "pending" => socket.at = "handling" /\ t \in socket.trades

\* A trade is confirmed only by a step that shows a snapshot with the trade in it
\* (refresh_account_snapshot, then mark_trades_confirmation), as far as the account shown is
\* the one of the trade.
ConfirmationHasSnapshot ==
  [][\A t \in Trades :
       recent[t] = "pending" /\ recent'[t] = "confirmed" /\ identity = Owner[t] => t \in positions']_vars

\* Whatever requests, failures and events there were: once profiles stop changing, the periodic
\* refresh brings the store to the active profile and to what the exchange has for it.
Synced ==
  /\ identity = active
  /\ active # NoOne => positions = PositionsOf(active) /\ orders = OpenOrders(active)
StoreSettles == <>[]Synced

\* Once profiles stop changing, the websocket is connected for the active one (ws_loop and the
\* credential event): no change is lost, whenever it comes.
SocketFollows == <>[](active # NoOne => Connected /\ socket.cred = active)

\* requirements/step3.plan.md: after a switch positions and orders are those of the active wallet.
\* What is shown for a wallet belongs to it.
OwnDataOnly ==
  identity # NoOne =>
    /\ \A t \in positions : Owner[t] = identity
    /\ \A o \in orders : Owner[o] = identity

\* The events correct the snapshots (the docstring of PolymarketAccountStore): an order whose end
\* was reported does not come back.
EndedStaysHidden == \A o \in Orders : ended[o] # "no" => o \notin orders
=============================================================================
