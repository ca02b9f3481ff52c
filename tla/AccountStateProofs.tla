------------------------- MODULE AccountStateProofs -------------------------
(***************************************************************************)
(* Theorems about AccountState, for every value of its constants: types,   *)
(* confirmations, and cancellations that survive late answers and messages. *)
(***************************************************************************)
EXTENDS AccountState, TLAPS

-----------------------------------------------------------------------------
(* Types *)

LEMMA Places ==
  /\ Cron \in Processes /\ Socket \in Processes /\ Routes \subseteq Processes
  /\ Socket \notin Routes /\ Cron # Socket
  /\ Idle \in Refresh
  /\ \A e \in Events : e.id \in Orders \cup Trades
<1>1. Idle \in Refresh
  BY DEF Idle, Refresh, Profiles
<1>2. Cron # Socket
  BY DEF Cron, Socket
<1> QED  BY <1>1, <1>2, RoutesAssumption DEF Processes, Events

\* A step of a process of the refresh, typed.
LEMMA RefreshRecord ==
  ASSUME NEW x \in Refresh
  PROVE  /\ \A p \in {"idle", "activated", "canceling", "canceled", "resolving", "identifying", "fetching"} :
              [x EXCEPT !.at = p] \in Refresh /\ [x EXCEPT !.at = p].at = p
         /\ x.cred \in Profiles /\ x.target \subseteq Orders /\ x.got \subseteq Sources
         /\ x.failed \subseteq Sources /\ x.positions \subseteq Trades /\ x.orders \subseteq Orders
BY DEF Refresh

LEMMA SentTyped ==
  ASSUME TypeOK, NEW e \in Events
  PROVE  Sent(e) \in Seq(Events) /\ (channel # <<>> => Sent(e) # <<>>)
<1>1. channel \in Seq(Events)
  BY DEF TypeOK
<1>2. Append(channel, e) \in Seq(Events)
  BY <1>1
<1>3. Append(channel, e) # <<>>
  <2>1. Len(Append(channel, e)) = Len(channel) + 1 /\ Len(channel) \in Nat
    BY <1>1
  <2>2. Len(<<>>) = 0
    OBVIOUS
  <2> QED  BY <2>1, <2>2
<1> QED  BY <1>1, <1>2, <1>3 DEF Sent

\* The part of the types that a step of one process can disturb.
ProcessesOK ==
  /\ refresh \in [Processes -> Refresh]
  /\ At(Socket, "idle") <=> socket.at # "handling"

LEMMA Moves ==
  ASSUME ProcessesOK, NEW r \in Processes, NEW x \in Refresh,
         refresh' = [refresh EXCEPT ![r] = x], UNCHANGED socket,
         r = Socket => (x.at = "idle" <=> At(r, "idle"))
  PROVE  ProcessesOK'
<1>1. refresh' \in [Processes -> Refresh]
  BY DEF ProcessesOK
<1>2. At(Socket, "idle")' <=> At(Socket, "idle")
  BY Places DEF ProcessesOK, At
<1> QED  BY <1>1, <1>2 DEF ProcessesOK

LEMMA Going ==
  ASSUME ProcessesOK, NEW r \in Processes, UNCHANGED socket,
         NEW p \in {"activated", "resolving", "fetching"}, Goes(r, p),
         r = Socket => ~At(r, "idle")
  PROVE  ProcessesOK'
<1>1. refresh[r] \in Refresh
  BY DEF ProcessesOK
<1>2. refresh' = [refresh EXCEPT ![r] = [refresh[r] EXCEPT !.at = p]]
  BY DEF Goes
<1> QED  BY <1>1, <1>2, RefreshRecord, Moves

LEMMA TypeInit == Init => TypeOK
<1> SUFFICES ASSUME Init PROVE TypeOK
  OBVIOUS
<1>1. refresh \in [Processes -> Refresh] /\ At(Socket, "idle")
  BY Places DEF Init, At, Idle
<1>2. channel \in Seq(Events)
  BY DEF Init
<1> QED  BY <1>1, <1>2 DEF Init, TypeOK, Profiles, Confirmation

LEMMA ExchangeType == TypeOK /\ Exchange => TypeOK'
<1> SUFFICES ASSUME TypeOK, Exchange PROVE TypeOK'
  OBVIOUS
<1> USE DEF TypeOK
<1>1. ASSUME NEW o \in Orders, ExchangeOpens(o) PROVE TypeOK'
  <2>1. [kind |-> "open", id |-> o] \in Events
    BY DEF Events
  <2> QED  BY <1>1, <2>1, SentTyped DEF ExchangeOpens, store, bounds, At
<1>2. ASSUME NEW o \in Orders, ExchangeCloses(o) PROVE TypeOK'
  <2>1. [kind |-> "closed", id |-> o] \in Events
    BY DEF Events
  <2> QED  BY <1>2, <2>1, SentTyped DEF ExchangeCloses, store, bounds, At
<1>3. ASSUME NEW t \in Trades, ExchangeTrades(t) PROVE TypeOK'
  <2>1. [kind |-> "trade", id |-> t] \in Events
    BY DEF Events
  <2> QED  BY <1>3, <2>1, SentTyped DEF ExchangeTrades, store, bounds, At
<1> QED  BY <1>1, <1>2, <1>3 DEF Exchange

LEMMA RefreshType ==
  ASSUME TypeOK, NEW r \in Processes, RefreshBegins(r) \/ RefreshStep(r)
  PROVE  TypeOK'
<1>0. ProcessesOK /\ refresh[r] \in Refresh
  BY DEF TypeOK, ProcessesOK
<1>1. CASE RefreshBegins(r)
  <2>1. ProcessesOK'
    BY <1>0, <1>1, Going DEF RefreshBegins
  <2> QED  BY <1>1, <2>1 DEF RefreshBegins, exchange, store, bounds, TypeOK, ProcessesOK
<1>2. CASE RefreshResolves(r)
  <2>1. /\ [Idle EXCEPT !.at = "identifying", !.cred = active] \in Refresh
        /\ [Idle EXCEPT !.at = "identifying", !.cred = active].at = "identifying"
    BY DEF Idle, Refresh, TypeOK
  <2>2. ProcessesOK'
    BY <1>0, <1>2, <2>1, Moves DEF RefreshResolves, At
  <2> QED  BY <1>2, <2>2 DEF RefreshResolves, exchange, store, bounds, TypeOK, ProcessesOK
<1>3. CASE RefreshIdentifies(r)
  <2>1. ProcessesOK'
    BY <1>0, <1>3, Going DEF RefreshIdentifies, At
  <2>2. /\ identity' \in Profiles
        /\ positions' \subseteq Trades /\ orders' \subseteq Orders /\ suppressed' \subseteq Orders
        /\ recent' \in [Trades -> Confirmation]
        /\ ended' \in [Orders -> {"no", "event", "cancel"}]
    <3>1. refresh[r].cred \in Profiles
      BY <1>0, RefreshRecord
    <3> QED  BY <1>3, <3>1 DEF RefreshIdentifies, set_account_identity, Clear, Confirmation, TypeOK
  <2> QED  BY <1>3, <2>1, <2>2 DEF RefreshIdentifies, exchange, bounds, TypeOK, ProcessesOK
<1>4. \A error \in BOOLEAN : mark_trades_confirmation(socket.trades, error) \in [Trades -> Confirmation]
  BY DEF mark_trades_confirmation, Outcome, Confirmation, TypeOK
<1>5. ASSUME Leaves(r), Resumes(r)
      PROVE  /\ ProcessesOK'
             /\ socket' \in [at : {"loop", "missing", "once", "connecting", "running", "woken", "handling"},
                             cred : Profiles, trades : SUBSET Trades]
             /\ socket'.at = "woken" => socket.at = "woken"
  <2>1. CASE r = Socket
    <3>1. socket' = [socket EXCEPT !.at = "running", !.trades = {}]
      BY <1>5, <2>1 DEF Resumes
    <3>2. refresh' \in [Processes -> Refresh] /\ refresh'[Socket].at = "idle"
      BY <1>0, <1>5, <2>1, Places DEF Leaves, ProcessesOK, Idle
    <3> QED  BY <3>1, <3>2 DEF TypeOK, ProcessesOK, At
  <2>2. CASE r # Socket
    <3>1. socket' = socket
      BY <1>5, <2>2 DEF Resumes
    <3>2. ProcessesOK'
      BY <1>0, <1>5, <2>2, <3>1, Places, Moves DEF Leaves
    <3> QED  BY <3>1, <3>2 DEF TypeOK
  <2> QED  BY <2>1, <2>2
<1>6. CASE RefreshRaises(r)
  <2>1. recent' \in [Trades -> Confirmation]
    BY <1>4, <1>6 DEF RefreshRaises, Settles, TypeOK
  <2>2. failures' \in Nat
    BY <1>6 DEF RefreshRaises, Fails, TypeOK
  <2> QED  BY <1>5, <1>6, <2>1, <2>2 DEF RefreshRaises, exchange, TypeOK, ProcessesOK
<1>7. CASE FetchPositions(r)
  <2>1. LET x == [refresh[r] EXCEPT !.got = @ \cup {"positions"}, !.positions = PositionsOf(refresh[r].cred)]
        IN  x \in Refresh /\ x.at = refresh[r].at /\ refresh' = [refresh EXCEPT ![r] = x]
    BY <1>0, <1>7 DEF FetchPositions, PositionsOf, Refresh, Sources, ProcessesOK, TypeOK
  <2>2. ProcessesOK'
    BY <1>0, <1>7, <2>1, Moves DEF FetchPositions, store, At
  <2> QED  BY <1>7, <2>2 DEF FetchPositions, exchange, store, bounds, TypeOK, ProcessesOK
<1>8. CASE FetchOrders(r)
  <2>1. LET x == [refresh[r] EXCEPT !.got = @ \cup {"orders"}, !.orders = OpenOrders(refresh[r].cred)]
        IN  x \in Refresh /\ x.at = refresh[r].at /\ refresh' = [refresh EXCEPT ![r] = x]
    BY <1>0, <1>8 DEF FetchOrders, OpenOrders, Refresh, Sources, ProcessesOK
  <2>2. ProcessesOK'
    BY <1>0, <1>8, <2>1, Moves DEF FetchOrders, store, At
  <2> QED  BY <1>8, <2>2 DEF FetchOrders, exchange, store, bounds, TypeOK, ProcessesOK
<1>9. CASE FetchFails(r)
  <2>1. PICK s \in Sources :
          refresh' = [refresh EXCEPT ![r].got = @ \cup {s}, ![r].failed = @ \cup {s}]
    BY <1>9 DEF FetchFails
  <2>2. LET x == [refresh[r] EXCEPT !.got = @ \cup {s}, !.failed = @ \cup {s}]
        IN  x \in Refresh /\ x.at = refresh[r].at /\ refresh' = [refresh EXCEPT ![r] = x]
    BY <1>0, <2>1 DEF Refresh, Sources, ProcessesOK
  <2>3. ProcessesOK'
    BY <1>0, <1>9, <2>2, Moves DEF FetchFails, store, At
  <2> QED  BY <1>9, <2>3 DEF FetchFails, Fails, exchange, store, TypeOK, ProcessesOK
<1>10. CASE RefreshStores(r)
  <2>1. recent' \in [Trades -> Confirmation] /\ failures' \in Nat
    <3>1. CASE Settles(r, refresh[r].failed # {}) /\ UNCHANGED failures
      BY <1>4, <3>1 DEF Settles, TypeOK
    <3>2. CASE Settles(r, TRUE) /\ Fails
      <4>1. failures' \in Nat
        BY <3>2 DEF Fails, TypeOK
      <4> QED  BY <1>4, <3>2, <4>1 DEF Settles, TypeOK
    <3> QED  BY <1>10, <3>1, <3>2 DEF RefreshStores
  <2>2. positions' \subseteq Trades /\ orders' \subseteq Orders
    BY <1>0, <1>10, RefreshRecord DEF RefreshStores, replace_orders, TypeOK
  <2> QED  BY <1>5, <1>10, <2>1, <2>2 DEF RefreshStores, exchange, TypeOK, ProcessesOK
<1> QED  BY <1>1, <1>2, <1>3, <1>6, <1>7, <1>8, <1>9, <1>10 DEF RefreshStep

LEMMA RouteType ==
  ASSUME TypeOK, NEW r \in Routes, Request(r) \/ RouteStep(r)
  PROVE  TypeOK'
<1>0. r \in Processes /\ r # Socket /\ ProcessesOK /\ refresh[r] \in Refresh
  BY Places DEF TypeOK, ProcessesOK
<1>1. ASSUME NEW w \in Credentials, Activates(r, w) PROVE TypeOK'
  <2>1. ProcessesOK'
    BY <1>0, <1>1, Going DEF Activates
  <2> QED  BY <1>1, <2>1 DEF Activates, exchange, store, Profiles, TypeOK, ProcessesOK
<1>2. ASSUME NEW o \in Orders, CancelBegins(r, o) PROVE TypeOK'
  <2>1. LET x == [refresh[r] EXCEPT !.at = "canceling", !.cred = active, !.target = {o}]
        IN  x \in Refresh /\ refresh' = [refresh EXCEPT ![r] = x]
    BY <1>0, <1>2 DEF CancelBegins, Refresh, ProcessesOK, TypeOK
  <2>2. ProcessesOK'
    BY <1>0, <1>2, <2>1, Moves DEF CancelBegins
  <2> QED  BY <1>2, <2>2 DEF CancelBegins, exchange, store, bounds, TypeOK, ProcessesOK
<1>3. CASE NotifiesChange(r)
  <2>1. ProcessesOK'
    BY <1>0, <1>3, Going DEF NotifiesChange
  <2> QED  BY <1>3, <2>1 DEF NotifiesChange, exchange, store, bounds, TypeOK, ProcessesOK
<1>4. ASSUME Canceled(r)
      PROVE  /\ exch' \in [Orders -> {"new", "open", "closed"}] /\ traded' = traded
             /\ channel' \in Seq(Events) /\ (channel # <<>> => channel' # <<>>)
  <2>1. exch' \in [Orders -> {"new", "open", "closed"}] /\ traded' = traded
    BY <1>4 DEF Canceled, TypeOK
  <2>2. CASE UNCHANGED channel
    BY <2>1, <2>2 DEF TypeOK
  <2>3. CASE \E o \in Cancelable(r) : channel' = Sent([kind |-> "closed", id |-> o])
    <3>1. PICK o \in Cancelable(r) : channel' = Sent([kind |-> "closed", id |-> o])
      BY <2>3
    <3>2. [kind |-> "closed", id |-> o] \in Events
      BY DEF Cancelable, OpenOrders, Events
    <3> QED  BY <2>1, <3>1, <3>2, SentTyped
  <2> QED  BY <1>4, <2>2, <2>3 DEF Canceled
<1>5. CASE CancelExecutes(r)
  <2>1. LET x == [refresh[r] EXCEPT !.at = "canceled", !.target = Cancelable(r)]
        IN  x \in Refresh /\ refresh' = [refresh EXCEPT ![r] = x]
    BY <1>0, <1>5 DEF CancelExecutes, Refresh, Cancelable, OpenOrders, ProcessesOK
  <2>2. ProcessesOK'
    BY <1>0, <1>5, <2>1, Moves DEF CancelExecutes
  <2> QED  BY <1>4, <1>5, <2>2 DEF CancelExecutes, store, bounds, TypeOK, ProcessesOK
<1>6. CASE CancelFails(r)
  <2>1. ProcessesOK'
    <3>1. CASE refresh' = [refresh EXCEPT ![r].cred = active]
      <4>1. LET x == [refresh[r] EXCEPT !.cred = active]
            IN  x \in Refresh /\ refresh' = [refresh EXCEPT ![r] = x]
        BY <1>0, <3>1 DEF Refresh, ProcessesOK, TypeOK
      <4> QED  BY <1>0, <1>6, <4>1, Moves DEF CancelFails
    <3>2. CASE Leaves(r)
      BY <1>0, <1>6, <3>2, Places, Moves DEF CancelFails, Leaves
    <3> QED  BY <1>6, <3>1, <3>2 DEF CancelFails
  <2>2. /\ exch' \in [Orders -> {"new", "open", "closed"}] /\ traded' = traded
        /\ channel' \in Seq(Events) /\ (channel # <<>> => channel' # <<>>)
    <3>1. CASE UNCHANGED exchange
      BY <3>1 DEF exchange, TypeOK
    <3> QED  BY <1>4, <1>6, <3>1 DEF CancelFails
  <2> QED  BY <1>6, <2>1, <2>2 DEF CancelFails, Fails, store, TypeOK, ProcessesOK
<1>7. CASE CancelReturns(r)
  <2>1. [Idle EXCEPT !.at = "resolving"] \in Refresh
    BY Places, RefreshRecord
  <2>2. ProcessesOK'
    BY <1>0, <1>7, <2>1, Moves DEF CancelReturns
  <2>3. /\ suppressed' \subseteq Orders /\ orders' \subseteq Orders
        /\ ended' \in [Orders -> {"no", "event", "cancel"}]
    BY <1>0, <1>7, RefreshRecord DEF CancelReturns, suppress_canceled_orders, TypeOK
  <2> QED  BY <1>7, <2>2, <2>3 DEF CancelReturns, exchange, bounds, TypeOK, ProcessesOK
<1> QED  BY <1>1, <1>2, <1>3, <1>5, <1>6, <1>7 DEF Request, RouteStep

\* What the first message of the channel is, and what is left of it.
LEMMA HeadTyped ==
  ASSUME TypeOK, channel # <<>>
  PROVE  /\ Head(channel) \in Events /\ Head(channel) = channel[1] /\ 1 \in 1 .. Len(channel)
         /\ Tail(channel) \in Seq(Events)
         /\ \A i \in 1 .. Len(Tail(channel)) :
              i + 1 \in 1 .. Len(channel) /\ Tail(channel)[i] = channel[i + 1]
<1>1. channel \in Seq(Events)
  BY DEF TypeOK
<1> QED  BY <1>1

LEMMA SocketType ==
  ASSUME TypeOK, SocketStep
  PROVE  TypeOK'
<1>0. ProcessesOK
  BY DEF TypeOK, ProcessesOK
<1>1. CASE SocketChecks
  BY <1>1 DEF SocketChecks, SocketGoes, exchange, store, bounds, TypeOK, At
<1>2. CASE SocketStopsMissing
  BY <1>2 DEF SocketStopsMissing, SocketGoes, exchange, store, bounds, TypeOK, At
<1>3. CASE SocketResolves
  BY <1>3 DEF SocketResolves, exchange, store, bounds, TypeOK, At
<1>4. CASE SocketConnects
  BY <1>4 DEF SocketConnects, SocketGoes, exchange, store, bounds, TypeOK, At
<1>5. ASSUME Disconnects
      PROVE  channel' \in Seq(Events) /\ socket'.at = "loop"
             /\ socket' \in [at : {"loop", "missing", "once", "connecting", "running", "woken", "handling"},
                             cred : Profiles, trades : SUBSET Trades]
  BY <1>5 DEF Disconnects, Profiles
<1>6. CASE SocketFails
  BY <1>5, <1>6 DEF SocketFails, Fails, store, TypeOK, At
<1>7. CASE SocketNotices
  BY <1>5, <1>7 DEF SocketNotices, store, bounds, TypeOK, At
<1>8. CASE SocketWakes
  BY <1>8 DEF SocketWakes, SocketGoes, exchange, store, bounds, TypeOK, At
<1>9. CASE SocketHandlesOrder
  <2>1. Head(channel).id \in Orders
    BY <1>9, HeadTyped DEF SocketHandlesOrder, TypeOK, Events
  <2>2. orders' \subseteq Orders /\ ended' \in [Orders -> {"no", "event", "cancel"}]
    BY <1>9, <2>1 DEF SocketHandlesOrder, apply_order, TypeOK
  <2>3. channel' \in Seq(Events)
    BY <1>9, HeadTyped DEF SocketHandlesOrder, TypeOK
  <2>4. ProcessesOK' /\ socket'.at = "running"
        /\ socket' \in [at : {"loop", "missing", "once", "connecting", "running", "woken", "handling"},
                         cred : Profiles, trades : SUBSET Trades]
    BY <1>0, <1>9 DEF SocketHandlesOrder, SocketGoes, ProcessesOK, TypeOK, At
  <2> QED  BY <1>9, <2>2, <2>3, <2>4 DEF SocketHandlesOrder, bounds, TypeOK, ProcessesOK
<1>10. CASE SocketHandlesTrade
  <2>1. Head(channel).id \in Trades
    BY <1>10, HeadTyped DEF SocketHandlesTrade, TypeOK, Events
  <2>2. recent' \in [Trades -> Confirmation]
    BY <1>10, <2>1 DEF SocketHandlesTrade, apply_trade, TypeOK, Confirmation
  <2>3. channel' \in Seq(Events)
    BY <1>10, HeadTyped DEF SocketHandlesTrade, TypeOK
  <2>4. /\ socket'.at = "handling"
        /\ socket' \in [at : {"loop", "missing", "once", "connecting", "running", "woken", "handling"},
                         cred : Profiles, trades : SUBSET Trades]
    BY <1>10, <2>1 DEF SocketHandlesTrade, TypeOK
  <2>5. ProcessesOK'
    <3>1. refresh[Socket] \in Refresh
      BY <1>0, Places DEF ProcessesOK
    <3>2. [refresh[Socket] EXCEPT !.at = "resolving"] \in Refresh
      BY <3>1, RefreshRecord
    <3>3. refresh' \in [Processes -> Refresh] /\ refresh'[Socket].at = "resolving"
      BY <1>0, <1>10, <3>1, <3>2, Places, RefreshRecord DEF SocketHandlesTrade, Goes, ProcessesOK
    <3> QED  BY <2>4, <3>3 DEF ProcessesOK, At
  <2> QED  BY <1>10, <2>2, <2>3, <2>4, <2>5 DEF SocketHandlesTrade, bounds, TypeOK, ProcessesOK
<1> QED  BY <1>1, <1>2, <1>3, <1>4, <1>6, <1>7, <1>8, <1>9, <1>10 DEF SocketStep

LEMMA TypeNext == TypeOK /\ [Next]_vars => TypeOK'
<1> SUFFICES ASSUME TypeOK, [Next]_vars PROVE TypeOK'
  OBVIOUS
<1>1. CASE UNCHANGED vars
  BY <1>1 DEF vars, exchange, store, bounds, TypeOK, At
<1>2. ASSUME NEW w \in Credentials, ImportsFirst(w) PROVE TypeOK'
  BY <1>2 DEF ImportsFirst, exchange, store, bounds, TypeOK, At, Profiles
<1>3. ASSUME NEW o \in Orders, SuppressionExpires(o) PROVE TypeOK'
  BY <1>3 DEF SuppressionExpires, exchange, bounds, TypeOK, At
<1> QED  BY <1>1, <1>2, <1>3, ExchangeType, SocketType, RefreshType, RouteType DEF Next

\* The variables keep their types, and the websocket loop waits for a refresh exactly when its
\* handler runs one.
THEOREM AccountTypeCorrect == Spec => []TypeOK
<1>1. Init => TypeOK
  BY TypeInit
<1>2. TypeOK /\ [Next]_vars => TypeOK'
  BY TypeNext
<1> QED  BY <1>1, <1>2, PTL DEF Spec

-----------------------------------------------------------------------------
(* Confirmation of trades *)

\* After the step that settles it, no trade of the handler is pending.
LEMMA Settled ==
  ASSUME TypeOK, NEW error, PendingIsHandled,
         recent' = mark_trades_confirmation(socket.trades, error)
  PROVE  \A t \in Trades : recent'[t] # "pending"
BY DEF mark_trades_confirmation, Outcome, PendingIsHandled, TypeOK

LEMMA PendingRefresh ==
  ASSUME TypeOK, PendingIsHandled, NEW r \in Processes, RefreshStep(r) \/ RefreshBegins(r)
  PROVE  PendingIsHandled'
<1>1. CASE UNCHANGED <<recent, socket>>
  BY <1>1 DEF PendingIsHandled
<1>2. CASE RefreshIdentifies(r)
  <2>1. UNCHANGED socket /\ (UNCHANGED recent \/ recent' = [t \in Trades |-> "none"])
    BY <1>2 DEF RefreshIdentifies, set_account_identity, Clear
  <2> QED  BY <2>1 DEF PendingIsHandled
<1>3. ASSUME NEW error, Settles(r, error), Resumes(r) PROVE PendingIsHandled'
  <2>1. CASE r = Socket
    BY <1>3, <2>1, Settled DEF Settles, PendingIsHandled
  <2>2. CASE r # Socket
    BY <1>3, <2>2 DEF Settles, Resumes, PendingIsHandled
  <2> QED  BY <2>1, <2>2
<1>4. CASE RefreshRaises(r)
  BY <1>3, <1>4 DEF RefreshRaises
<1>5. CASE RefreshStores(r)
  <2>1. CASE Settles(r, refresh[r].failed # {})
    <3>1. CASE refresh[r].failed # {}
      BY <1>3, <1>5, <2>1, <3>1 DEF RefreshStores, Settles, mark_trades_confirmation, Outcome
    <3>2. CASE ~(refresh[r].failed # {})
      BY <1>3, <1>5, <2>1, <3>2 DEF RefreshStores, Settles, mark_trades_confirmation, Outcome
    <3> QED  BY <3>1, <3>2
  <2>2. CASE Settles(r, TRUE)
    BY <1>3, <1>5, <2>2 DEF RefreshStores
  <2> QED  BY <1>5, <2>1, <2>2 DEF RefreshStores
<1> QED  BY <1>1, <1>2, <1>4, <1>5 DEF RefreshStep, RefreshBegins, RefreshResolves, FetchPositions,
             FetchOrders, FetchFails, store

LEMMA PendingSocket ==
  ASSUME TypeOK, PendingIsHandled, SocketStep
  PROVE  PendingIsHandled'
<1>1. CASE SocketHandlesTrade
  <2>1. \A t \in Trades : recent[t] # "pending"
    BY <1>1 DEF SocketHandlesTrade, PendingIsHandled
  <2>2. \A t \in Trades : recent'[t] = "pending" => t = Head(channel).id
    BY <1>1, <2>1 DEF SocketHandlesTrade, apply_trade
  <2>3. socket'.at = "handling" /\ socket'.trades = {Head(channel).id}
    BY <1>1 DEF SocketHandlesTrade, TypeOK
  <2> QED  BY <2>2, <2>3 DEF PendingIsHandled
<1>2. CASE ~SocketHandlesTrade
  <2>1. UNCHANGED recent /\ socket.at # "handling"
    BY <1>2 DEF SocketStep, SocketChecks, SocketStopsMissing, SocketResolves, SocketConnects,
                SocketFails, SocketNotices, SocketWakes, SocketHandlesOrder, store
  <2> QED  BY <2>1 DEF PendingIsHandled
<1> QED  BY <1>1, <1>2

LEMMA PendingNext == TypeOK /\ PendingIsHandled /\ [Next]_vars => PendingIsHandled'
<1> SUFFICES ASSUME TypeOK, PendingIsHandled, [Next]_vars PROVE PendingIsHandled'
  OBVIOUS
<1>1. CASE UNCHANGED <<recent, socket>>
  BY <1>1 DEF PendingIsHandled
<1>2. CASE Exchange \/ \E w \in Credentials : ImportsFirst(w)
  BY <1>1, <1>2 DEF Exchange, ExchangeOpens, ExchangeCloses, ExchangeTrades, ImportsFirst, store
<1>3. ASSUME NEW r \in Routes, Request(r) \/ RouteStep(r) PROVE PendingIsHandled'
  BY <1>1, <1>3 DEF Request, Activates, CancelBegins, RouteStep, NotifiesChange, CancelExecutes,
                    CancelFails, CancelReturns, store
<1>4. CASE \E o \in Orders : SuppressionExpires(o)
  BY <1>1, <1>4 DEF SuppressionExpires
<1> QED  BY <1>1, <1>2, <1>3, <1>4, PendingRefresh, PendingSocket DEF Next, vars, store

\* No trade is left pending by a failure, a lost connection or a change of account: a pending
\* trade is one the websocket handler is still working on.
THEOREM NoTradeLeftPending == Spec => []PendingIsHandled
<1>1. Init => PendingIsHandled
  BY DEF Init, PendingIsHandled
<1> QED  BY <1>1, PendingNext, AccountTypeCorrect, PTL DEF Spec

-----------------------------------------------------------------------------
(* Canceled orders *)

\* A canceled order is closed at the exchange for good; as long as an older answer or message may
\* still speak of it, it is suppressed.
Forgotten(o) == o \in suppressed \/ ~StillTold(o)
CancelInv ==
  /\ \A o \in Orders : ended[o] = "cancel" => o \notin orders /\ exch[o] = "closed" /\ Forgotten(o)
  /\ \A r \in Processes : At(r, "canceled") => \A o \in refresh[r].target : exch[o] = "closed"

\* What the exchange tells of an order that is closed does not revive it.
ToldLess(o) ==
  /\ \A r \in Processes : o \in refresh'[r].orders => o \in refresh[r].orders
  /\ \A i \in 1 .. Len(channel') : channel'[i] = [kind |-> "open", id |-> o] =>
       \E j \in 1 .. Len(channel) : channel[j] = [kind |-> "open", id |-> o]

LEMMA Kept ==
  ASSUME CancelInv,
         \A o \in Orders : exch[o] = "closed" => exch'[o] = "closed" /\ ToldLess(o),
         UNCHANGED <<suppressed, ended>>,
         \A o \in Orders : ended[o] = "cancel" => o \notin orders',
         \A r \in Processes : At(r, "canceled")' =>
           \A o \in refresh'[r].target : exch'[o] = "closed"
  PROVE  CancelInv'
<1>1. ASSUME NEW o \in Orders, ended'[o] = "cancel"
      PROVE  o \notin orders' /\ exch'[o] = "closed" /\ Forgotten(o)'
  <2>1. ended[o] = "cancel"
    BY <1>1
  <2>2. exch[o] = "closed" /\ Forgotten(o)
    BY <2>1 DEF CancelInv
  <2>3. ToldLess(o)
    BY <2>2
  <2>4. StillTold(o)' => StillTold(o)
    BY <2>3 DEF ToldLess, StillTold
  <2> QED  BY <2>1, <2>2, <2>4 DEF Forgotten
<1> QED  BY <1>1 DEF CancelInv

\* A message about another order, or none, says nothing new of a closed one.
LEMMA ToldBySent ==
  ASSUME TypeOK, NEW e \in Events, channel' = Sent(e), UNCHANGED refresh,
         NEW o \in Orders, e # [kind |-> "open", id |-> o]
  PROVE  ToldLess(o)
<1>1. channel \in Seq(Events)
  BY DEF TypeOK
<1>2. CASE channel' = channel
  BY <1>2 DEF ToldLess
<1>3. CASE channel' = Append(channel, e)
  <2>1. /\ Len(channel') = Len(channel) + 1 /\ Len(channel) \in Nat
        /\ \A i \in 1 .. Len(channel) : channel'[i] = channel[i]
        /\ channel'[Len(channel) + 1] = e
    BY <1>1, <1>3
  <2>2. \A i \in 1 .. Len(channel') : i \in 1 .. Len(channel) \/ i = Len(channel) + 1
    BY <2>1
  <2> QED  BY <2>1, <2>2 DEF ToldLess
<1> QED  BY <1>2, <1>3 DEF Sent

LEMMA CancelExchange == TypeOK /\ CancelInv /\ Exchange => CancelInv'
<1> SUFFICES ASSUME TypeOK, CancelInv, Exchange PROVE CancelInv'
  OBVIOUS
<1>1. ASSUME NEW o \in Orders, ExchangeOpens(o) PROVE CancelInv'
  <2>1. [kind |-> "open", id |-> o] \in Events
    BY DEF Events
  <2>2. \A p \in Orders : exch[p] = "closed" => p # o /\ exch'[p] = "closed"
    BY <1>1 DEF ExchangeOpens, TypeOK
  <2>3. \A p \in Orders : exch[p] = "closed" => ToldLess(p)
    BY <1>1, <2>1, <2>2, ToldBySent DEF ExchangeOpens
  <2>4. \A r \in Processes : At(r, "canceled")' => \A p \in refresh'[r].target : exch'[p] = "closed"
    <3>1. \A r \in Processes : refresh[r].target \subseteq Orders
      BY RefreshRecord DEF TypeOK
    <3> QED  BY <1>1, <2>2, <3>1 DEF ExchangeOpens, CancelInv, At
  <2>5. \A p \in Orders : ended[p] = "cancel" => p \notin orders'
    BY <1>1 DEF ExchangeOpens, store, CancelInv
  <2> QED  BY <1>1, <2>2, <2>3, <2>4, <2>5, Kept DEF ExchangeOpens, store
<1>2. ASSUME NEW o \in Orders, ExchangeCloses(o) PROVE CancelInv'
  <2>1. [kind |-> "closed", id |-> o] \in Events
        /\ \A p \in Orders : [kind |-> "closed", id |-> o] # [kind |-> "open", id |-> p]
    BY DEF Events
  <2>2. \A p \in Orders : exch[p] = "closed" => exch'[p] = "closed"
    BY <1>2 DEF ExchangeCloses, TypeOK
  <2>3. \A p \in Orders : ToldLess(p)
    BY <1>2, <2>1, ToldBySent DEF ExchangeCloses
  <2>4. \A r \in Processes : At(r, "canceled")' => \A p \in refresh'[r].target : exch'[p] = "closed"
    <3>1. \A r \in Processes : refresh[r].target \subseteq Orders
      BY RefreshRecord DEF TypeOK
    <3> QED  BY <1>2, <2>2, <3>1 DEF ExchangeCloses, CancelInv, At
  <2>5. \A p \in Orders : ended[p] = "cancel" => p \notin orders'
    BY <1>2 DEF ExchangeCloses, store, CancelInv
  <2> QED  BY <1>2, <2>2, <2>3, <2>4, <2>5, Kept DEF ExchangeCloses, store
<1>3. ASSUME NEW t \in Trades, ExchangeTrades(t) PROVE CancelInv'
  <2>1. [kind |-> "trade", id |-> t] \in Events
        /\ \A p \in Orders : [kind |-> "trade", id |-> t] # [kind |-> "open", id |-> p]
    BY DEF Events
  <2>2. \A p \in Orders : ToldLess(p)
    BY <1>3, <2>1, ToldBySent DEF ExchangeTrades
  <2>3. \A r \in Processes : At(r, "canceled")' => \A p \in refresh'[r].target : exch'[p] = "closed"
    BY <1>3 DEF ExchangeTrades, CancelInv, At
  <2>4. \A p \in Orders : ended[p] = "cancel" => p \notin orders'
    BY <1>3 DEF ExchangeTrades, store, CancelInv
  <2> QED  BY <1>3, <2>2, <2>3, <2>4, Kept DEF ExchangeTrades, store
<1> QED  BY <1>1, <1>2, <1>3 DEF Exchange

\* A step of one process that leaves the exchange and the connection alone.
LEMMA KeptByProcess ==
  ASSUME TypeOK, CancelInv, NEW r \in Processes, NEW x,
         refresh' = [refresh EXCEPT ![r] = x], UNCHANGED <<exch, channel, suppressed, ended>>,
         x.at # "canceled",
         \A o \in Orders : exch[o] = "closed" /\ o \in x.orders => o \in refresh[r].orders,
         \A o \in Orders : ended[o] = "cancel" => o \notin orders'
  PROVE  CancelInv'
<1>1. \A q \in Processes : refresh'[q] = IF q = r THEN x ELSE refresh[q]
  BY DEF TypeOK
<1>2. \A o \in Orders : exch[o] = "closed" => exch'[o] = "closed" /\ ToldLess(o)
  BY <1>1 DEF ToldLess
<1>3. \A q \in Processes : At(q, "canceled")' => \A o \in refresh'[q].target : exch'[o] = "closed"
  BY <1>1 DEF CancelInv, At
<1> QED  BY <1>2, <1>3, Kept

LEMMA CancelRefresh ==
  ASSUME TypeOK, CancelInv, NEW r \in Processes, RefreshBegins(r) \/ RefreshStep(r)
  PROVE  CancelInv'
<1>0. refresh[r] \in Refresh /\ \A o \in Orders : ended[o] = "cancel" => o \notin orders
  BY DEF TypeOK, CancelInv
<1>1. CASE RefreshBegins(r)
  <2>1. LET x == [refresh[r] EXCEPT !.at = "resolving"]
        IN  refresh' = [refresh EXCEPT ![r] = x] /\ x.at = "resolving" /\ x.orders = refresh[r].orders
    BY <1>0, <1>1 DEF RefreshBegins, Goes, Refresh
  <2> QED  BY <1>0, <1>1, <2>1, KeptByProcess DEF RefreshBegins, exchange, store
<1>2. CASE RefreshResolves(r)
  <2>1. LET x == [Idle EXCEPT !.at = "identifying", !.cred = active]
        IN  refresh' = [refresh EXCEPT ![r] = x] /\ x.at = "identifying" /\ x.orders = {}
    BY <1>2 DEF RefreshResolves, Idle
  <2> QED  BY <1>0, <1>2, <2>1, KeptByProcess DEF RefreshResolves, exchange, store
<1>3. CASE RefreshIdentifies(r)
  <2>1. LET x == [refresh[r] EXCEPT !.at = "fetching"]
        IN  refresh' = [refresh EXCEPT ![r] = x] /\ x.at = "fetching" /\ x.orders = refresh[r].orders
    BY <1>0, <1>3 DEF RefreshIdentifies, Goes, Refresh
  <2>2. CASE UNCHANGED <<positions, orders, suppressed, recent, ended>>
    BY <1>0, <1>3, <2>1, <2>2, KeptByProcess DEF RefreshIdentifies, exchange
  <2>3. CASE Clear
    <3>1. \A q \in Processes : At(q, "canceled")' => \A o \in refresh'[q].target : exch'[o] = "closed"
      BY <1>3, <2>1 DEF RefreshIdentifies, exchange, CancelInv, At, TypeOK
    <3> QED  BY <2>3, <3>1 DEF Clear, CancelInv
  <2> QED  BY <1>3, <2>2, <2>3 DEF RefreshIdentifies, set_account_identity
<1>4. Idle.at = "idle" /\ Idle.orders = {}
  BY DEF Idle
<1>5. CASE RefreshRaises(r)
  BY <1>0, <1>4, <1>5, KeptByProcess DEF RefreshRaises, Leaves, exchange
<1>6. CASE FetchPositions(r)
  <2>1. LET x == [refresh[r] EXCEPT !.got = @ \cup {"positions"}, !.positions = PositionsOf(refresh[r].cred)]
        IN  refresh' = [refresh EXCEPT ![r] = x] /\ x.at = "fetching" /\ x.orders = refresh[r].orders
    BY <1>0, <1>6 DEF FetchPositions, Awaits, At, Refresh, TypeOK
  <2> QED  BY <1>0, <1>6, <2>1, KeptByProcess DEF FetchPositions, exchange, store
<1>7. CASE FetchOrders(r)
  <2> DEFINE x == [refresh[r] EXCEPT !.got = @ \cup {"orders"}, !.orders = OpenOrders(refresh[r].cred)]
  <2>1. refresh' = [refresh EXCEPT ![r] = x] /\ x.at = "fetching" /\ x.orders = OpenOrders(refresh[r].cred)
    BY <1>0, <1>7 DEF FetchOrders, Awaits, At, Refresh, TypeOK
  <2>2. \A o \in Orders : exch[o] = "closed" => o \notin x.orders
    BY <2>1 DEF OpenOrders
  <2>3. UNCHANGED <<exch, channel, suppressed, ended, orders>>
    BY <1>7 DEF FetchOrders, exchange, store
  <2>4. x.at # "canceled"
    BY <2>1
  <2> HIDE DEF x
  <2> QED  BY <1>0, <2>1, <2>2, <2>3, <2>4, KeptByProcess
<1>8. CASE FetchFails(r)
  <2>1. PICK s \in Sources :
          Awaits(r, s) /\ refresh' = [refresh EXCEPT ![r].got = @ \cup {s}, ![r].failed = @ \cup {s}]
    BY <1>8 DEF FetchFails
  <2>2. LET x == [refresh[r] EXCEPT !.got = @ \cup {s}, !.failed = @ \cup {s}]
        IN  refresh' = [refresh EXCEPT ![r] = x] /\ x.at = "fetching" /\ x.orders = refresh[r].orders
    BY <1>0, <2>1 DEF Awaits, At, Refresh, TypeOK
  <2> QED  BY <1>0, <1>8, <2>2, KeptByProcess DEF FetchFails, exchange, store
<1>9. CASE RefreshStores(r)
  <2>1. \A o \in Orders : ended[o] = "cancel" => o \notin orders'
    <3>1. \A o \in Orders : ended[o] = "cancel" => o \in suppressed \/ o \notin refresh[r].orders
      BY DEF CancelInv, Forgotten, StillTold
    <3> QED  BY <1>0, <1>9, <3>1 DEF RefreshStores, replace_orders
  <2> QED  BY <1>4, <1>9, <2>1, KeptByProcess DEF RefreshStores, Leaves, exchange
<1> QED  BY <1>1, <1>2, <1>3, <1>5, <1>6, <1>7, <1>8, <1>9 DEF RefreshStep

LEMMA CancelRoute ==
  ASSUME TypeOK, CancelInv, NEW r \in Routes, Request(r) \/ RouteStep(r)
  PROVE  CancelInv'
<1>0. /\ r \in Processes /\ refresh[r] \in Refresh
      /\ \A o \in Orders : ended[o] = "cancel" => o \notin orders
  BY Places DEF TypeOK, CancelInv
<1>1. ASSUME NEW w \in Credentials, Activates(r, w) PROVE CancelInv'
  <2>1. LET x == [refresh[r] EXCEPT !.at = "activated"]
        IN  refresh' = [refresh EXCEPT ![r] = x] /\ x.at = "activated" /\ x.orders = refresh[r].orders
    BY <1>0, <1>1 DEF Activates, Goes, Refresh
  <2> QED  BY <1>0, <1>1, <2>1, KeptByProcess DEF Activates, exchange, store
<1>2. ASSUME NEW o \in Orders, CancelBegins(r, o) PROVE CancelInv'
  <2>1. LET x == [refresh[r] EXCEPT !.at = "canceling", !.cred = active, !.target = {o}]
        IN  refresh' = [refresh EXCEPT ![r] = x] /\ x.at = "canceling" /\ x.orders = refresh[r].orders
    BY <1>0, <1>2 DEF CancelBegins, Refresh
  <2> QED  BY <1>0, <1>2, <2>1, KeptByProcess DEF CancelBegins, exchange, store
<1>3. CASE NotifiesChange(r)
  <2>1. LET x == [refresh[r] EXCEPT !.at = "resolving"]
        IN  refresh' = [refresh EXCEPT ![r] = x] /\ x.at = "resolving" /\ x.orders = refresh[r].orders
    BY <1>0, <1>3 DEF NotifiesChange, Goes, Refresh
  <2> QED  BY <1>0, <1>3, <2>1, KeptByProcess DEF NotifiesChange, exchange, store
<1>4. ASSUME Canceled(r)
      PROVE  /\ \A o \in Orders : exch[o] = "closed" => exch'[o] = "closed"
             /\ \A o \in Cancelable(r) : exch'[o] = "closed"
             /\ \A o \in Orders, i \in 1 .. Len(channel') :
                  channel'[i] = [kind |-> "open", id |-> o] =>
                    \E j \in 1 .. Len(channel) : channel[j] = [kind |-> "open", id |-> o]
  <2>1. Cancelable(r) \subseteq Orders
    BY DEF Cancelable, OpenOrders
  <2>2. CASE UNCHANGED channel
    BY <1>4, <2>1, <2>2 DEF Canceled
  <2>3. CASE \E c \in Cancelable(r) : channel' = Sent([kind |-> "closed", id |-> c])
    <3>1. PICK c \in Cancelable(r) : channel' = Sent([kind |-> "closed", id |-> c])
      BY <2>3
    <3> DEFINE e == [kind |-> "closed", id |-> c]
    <3>2. \A o \in Orders : e # [kind |-> "open", id |-> o]
      OBVIOUS
    <3>3. channel \in Seq(Events)
      BY DEF TypeOK
    <3>4. channel' = channel \/ channel' = Append(channel, e)
      BY <3>1 DEF Sent
    <3>5. \A o \in Orders, i \in 1 .. Len(channel') :
            channel'[i] = [kind |-> "open", id |-> o] =>
              \E j \in 1 .. Len(channel) : channel[j] = [kind |-> "open", id |-> o]
      <4>1. CASE channel' = channel
        BY <4>1
      <4>2. CASE channel' = Append(channel, e)
        <5> HIDE DEF e
        <5>1. /\ Len(channel') = Len(channel) + 1 /\ Len(channel) \in Nat
              /\ \A i \in 1 .. Len(channel) : channel'[i] = channel[i]
              /\ channel'[Len(channel) + 1] = e
          BY <3>3, <4>2
        <5>2. \A i \in 1 .. Len(channel') : i \in 1 .. Len(channel) \/ i = Len(channel) + 1
          BY <5>1
        <5> QED  BY <3>2, <5>1, <5>2
      <4> QED  BY <3>4, <4>1, <4>2
    <3> QED  BY <1>4, <2>1, <3>5 DEF Canceled
  <2> QED  BY <1>4, <2>2, <2>3 DEF Canceled
<1>5. CASE CancelExecutes(r)
  <2>1. \A q \in Processes : refresh'[q] = IF q = r THEN refresh'[r] ELSE refresh[q]
    BY <1>0, <1>5 DEF CancelExecutes, TypeOK
  <2>2. refresh'[r].target = Cancelable(r) /\ refresh'[r].orders = refresh[r].orders
    BY <1>0, <1>5 DEF CancelExecutes, TypeOK, Refresh
  <2>3. \A q \in Processes : At(q, "canceled")' => \A o \in refresh'[q].target : exch'[o] = "closed"
    <3>1. \A q \in Processes : refresh[q].target \subseteq Orders
      BY RefreshRecord DEF TypeOK
    <3> QED  BY <1>4, <1>5, <2>1, <2>2, <3>1 DEF CancelExecutes, CancelInv, At
  <2>4. \A o \in Orders : exch[o] = "closed" => exch'[o] = "closed" /\ ToldLess(o)
    BY <1>4, <1>5, <2>1, <2>2 DEF CancelExecutes, ToldLess
  <2> QED  BY <1>0, <1>5, <2>3, <2>4, Kept DEF CancelExecutes, store
<1>6. CASE CancelFails(r)
  <2>1. \A q \in Processes :
          /\ At(q, "canceled")' => At(q, "canceled") /\ refresh'[q] = refresh[q]
          /\ refresh'[q].orders = refresh[q].orders \/ refresh'[q].orders = {}
    <3>1. CASE refresh' = [refresh EXCEPT ![r].cred = active]
      <4>1. LET x == [refresh[r] EXCEPT !.cred = active]
            IN  /\ refresh' = [refresh EXCEPT ![r] = x]
                /\ x.at = "canceling" /\ x.orders = refresh[r].orders
        BY <1>0, <1>6, <3>1 DEF CancelFails, At, Refresh
      <4> QED  BY <1>0, <4>1 DEF At, TypeOK
    <3>2. CASE Leaves(r)
      <4>1. Idle.at = "idle" /\ Idle.orders = {}
        BY DEF Idle
      <4> QED  BY <1>0, <3>2, <4>1 DEF Leaves, At, TypeOK
    <3> QED  BY <1>6, <3>1, <3>2 DEF CancelFails
  <2>2. /\ \A o \in Orders : exch[o] = "closed" => exch'[o] = "closed"
        /\ \A o \in Orders, i \in 1 .. Len(channel') :
             channel'[i] = [kind |-> "open", id |-> o] =>
               \E j \in 1 .. Len(channel) : channel[j] = [kind |-> "open", id |-> o]
    <3>1. CASE UNCHANGED exchange
      BY <3>1 DEF exchange
    <3> QED  BY <1>4, <1>6, <3>1 DEF CancelFails
  <2>3. \A q \in Processes : At(q, "canceled")' => \A o \in refresh'[q].target : exch'[o] = "closed"
    <3>1. \A q \in Processes : refresh[q].target \subseteq Orders
      BY RefreshRecord DEF TypeOK
    <3> QED  BY <2>1, <2>2, <3>1 DEF CancelInv
  <2>4. \A o \in Orders : exch[o] = "closed" => exch'[o] = "closed" /\ ToldLess(o)
    BY <2>1, <2>2 DEF ToldLess
  <2> QED  BY <1>0, <1>6, <2>3, <2>4, Kept DEF CancelFails, store
<1>7. CASE CancelReturns(r)
  <2>1. LET x == [Idle EXCEPT !.at = "resolving"]
        IN  refresh' = [refresh EXCEPT ![r] = x] /\ x.at = "resolving" /\ x.orders = {}
    BY <1>7 DEF CancelReturns, Idle
  <2>2. \A q \in Processes : At(q, "canceled")' => \A o \in refresh'[q].target : exch'[o] = "closed"
    BY <1>0, <1>7, <2>1 DEF CancelReturns, exchange, CancelInv, At, TypeOK
  <2>3. \A o \in Orders : StillTold(o)' => StillTold(o)
    BY <1>0, <1>7, <2>1 DEF CancelReturns, exchange, StillTold, TypeOK
  <2>4. \A o \in refresh[r].target : exch[o] = "closed"
    BY <1>0, <1>7 DEF CancelReturns, CancelInv
  <2>5. ASSUME NEW o \in Orders, ended'[o] = "cancel"
        PROVE  o \notin orders' /\ exch'[o] = "closed" /\ Forgotten(o)'
    <3>1. exch' = exch
      BY <1>7 DEF CancelReturns, exchange
    <3>2. CASE o \in refresh[r].target
      BY <1>7, <2>4, <3>1, <3>2 DEF CancelReturns, suppress_canceled_orders, Forgotten
    <3>3. CASE o \notin refresh[r].target
      <4>1. ended[o] = "cancel"
        BY <1>7, <2>5, <3>3 DEF CancelReturns, suppress_canceled_orders
      <4>2. o \notin orders /\ exch[o] = "closed" /\ Forgotten(o)
        BY <4>1 DEF CancelInv
      <4> QED  BY <1>7, <2>3, <3>1, <4>2 DEF CancelReturns, suppress_canceled_orders, Forgotten
    <3> QED  BY <3>2, <3>3
  <2> QED  BY <2>2, <2>5 DEF CancelInv
<1> QED  BY <1>1, <1>2, <1>3, <1>5, <1>6, <1>7 DEF Request, RouteStep

LEMMA CancelSocket ==
  ASSUME TypeOK, CancelInv, SocketStep
  PROVE  CancelInv'
<1>0. \A o \in Orders : ended[o] = "cancel" => o \notin orders
  BY DEF CancelInv
<1>1. ASSUME UNCHANGED <<exch, suppressed, ended, orders, refresh>>,
             channel' = channel \/ channel' = <<>>
      PROVE  CancelInv'
  <2>1. \A o \in Orders : exch[o] = "closed" => exch'[o] = "closed" /\ ToldLess(o)
    <3>1. CASE channel' = channel
      BY <1>1, <3>1 DEF ToldLess
    <3>2. CASE channel' = <<>>
      BY <1>1, <3>2 DEF ToldLess
    <3> QED  BY <1>1, <3>1, <3>2
  <2>2. \A r \in Processes : At(r, "canceled")' => \A o \in refresh'[r].target : exch'[o] = "closed"
    BY <1>1 DEF CancelInv, At
  <2> QED  BY <1>0, <1>1, <2>1, <2>2, Kept
<1>2. CASE SocketChecks \/ SocketStopsMissing \/ SocketResolves \/ SocketConnects \/ SocketWakes
  BY <1>1, <1>2 DEF SocketChecks, SocketStopsMissing, SocketResolves, SocketConnects, SocketWakes,
                    exchange, store
<1>3. CASE SocketFails \/ SocketNotices
  BY <1>1, <1>3 DEF SocketFails, SocketNotices, Disconnects, store
<1>4. ASSUME channel # <<>>, channel' = Tail(channel), NEW o \in Orders,
             \A r \in Processes : refresh'[r].orders = refresh[r].orders
      PROVE  ToldLess(o)
  BY <1>4, HeadTyped DEF ToldLess
<1>5. CASE SocketHandlesOrder
  <2>1. channel # <<>> /\ channel' = Tail(channel) /\ UNCHANGED <<exch, refresh, suppressed>>
    BY <1>5 DEF SocketHandlesOrder, TypeOK
  <2>2. /\ Head(channel) \in Events /\ Head(channel) = channel[1] /\ 1 \in 1 .. Len(channel)
        /\ Head(channel).kind # "trade"
    BY <1>5, <2>1, HeadTyped DEF SocketHandlesOrder
  <2>3. \A o \in Orders : StillTold(o)' => StillTold(o)
    BY <1>4, <2>1 DEF ToldLess, StillTold
  <2>4. ASSUME NEW o \in Orders, ended'[o] = "cancel"
        PROVE  o \notin orders' /\ exch'[o] = "closed" /\ Forgotten(o)'
    <3>1. ended[o] = "cancel"
      BY <1>5, <2>4 DEF SocketHandlesOrder, apply_order, TypeOK
    <3>2. o \notin orders /\ exch[o] = "closed" /\ Forgotten(o)
      BY <3>1 DEF CancelInv
    <3>3. Head(channel) = [kind |-> "open", id |-> o] => o \in suppressed
      BY <2>2, <3>2 DEF Forgotten, StillTold
    <3>4. Head(channel).kind = "open" /\ Head(channel).id = o => Head(channel) = [kind |-> "open", id |-> o]
      BY <2>2 DEF Events
    <3>5. o \notin orders'
      BY <1>5, <3>2, <3>3, <3>4 DEF SocketHandlesOrder, apply_order
    <3> QED  BY <2>1, <2>3, <3>2, <3>5 DEF Forgotten
  <2>5. \A r \in Processes : At(r, "canceled")' => \A o \in refresh'[r].target : exch'[o] = "closed"
    BY <2>1 DEF CancelInv, At
  <2> QED  BY <2>4, <2>5 DEF CancelInv
<1>6. CASE SocketHandlesTrade
  <2>1. /\ channel # <<>> /\ channel' = Tail(channel)
        /\ UNCHANGED <<exch, suppressed, ended, orders>>
    BY <1>6 DEF SocketHandlesTrade, TypeOK
  <2>2. refresh[Socket] \in Refresh
    BY Places DEF TypeOK
  <2>3. /\ \A r \in Processes : refresh'[r].orders = refresh[r].orders
        /\ \A r \in Processes : refresh'[r].at = "canceled" => refresh'[r] = refresh[r]
    BY <1>6, <2>2, Places DEF SocketHandlesTrade, Goes, TypeOK, Refresh
  <2>4. \A r \in Processes : At(r, "canceled")' => \A o \in refresh'[r].target : exch'[o] = "closed"
    BY <2>1, <2>3 DEF CancelInv, At
  <2> QED  BY <1>0, <1>4, <2>1, <2>3, <2>4, Kept
<1> QED  BY <1>2, <1>3, <1>5, <1>6 DEF SocketStep

LEMMA CancelNext == TypeOK /\ CancelInv /\ [Next]_vars => CancelInv'
<1> SUFFICES ASSUME TypeOK, CancelInv, [Next]_vars PROVE CancelInv'
  OBVIOUS
<1>1. CASE UNCHANGED vars \/ \E w \in Credentials : ImportsFirst(w)
  BY <1>1 DEF ImportsFirst, vars, exchange, store, CancelInv, At, Forgotten, StillTold
<1>2. ASSUME NEW o \in Orders, SuppressionExpires(o) PROVE CancelInv'
  <2>1. \A p \in Orders : Forgotten(p) => Forgotten(p)'
    BY <1>2 DEF SuppressionExpires, exchange, Forgotten, StillTold
  <2> QED  BY <1>2, <2>1 DEF SuppressionExpires, exchange, CancelInv, At
<1> QED  BY <1>1, <1>2, CancelExchange, CancelSocket, CancelRefresh, CancelRoute DEF Next

\* A canceled order does not come back, whatever older snapshots and messages arrive.
THEOREM CanceledStaysHidden == Spec => []CanceledHidden
<1>1. Init => CancelInv
  BY DEF Init, CancelInv, At, Idle
<1>2. CancelInv => CanceledHidden
  BY DEF CancelInv, CanceledHidden
<1> QED  BY <1>1, <1>2, CancelNext, AccountTypeCorrect, PTL DEF Spec

-----------------------------------------------------------------------------
(* Confirmation of trades *)

Pending(t) == recent[t] = "pending"

\* A trade in hand took place before the refresh of its handler asked for positions, and that
\* refresh is about the account shown.
ConfirmInv ==
  /\ \A i \in 1 .. Len(channel) : channel[i].kind = "trade" => channel[i].id \in traded
  /\ At(Socket, "identifying") => refresh[Socket].got = {}
  /\ \A t \in Trades : Pending(t) =>
       /\ t \in traded
       /\ At(Socket, "fetching") => identity = refresh[Socket].cred
       /\ At(Socket, "fetching") /\ Answered(Socket, "positions") /\ Owner[t] = identity
            => t \in refresh[Socket].positions

\* Steps that do not touch the handler's refresh, its trades or the account.
LEMMA ConfirmKept ==
  ASSUME ConfirmInv,
         refresh'[Socket] = refresh[Socket], UNCHANGED identity,
         \A t \in Trades : Pending(t)' => Pending(t), traded \subseteq traded',
         \A i \in 1 .. Len(channel') : channel'[i].kind = "trade" => channel'[i].id \in traded'
  PROVE  ConfirmInv'
BY DEF ConfirmInv, Pending, At, Answered

LEMMA ChannelSent ==
  ASSUME TypeOK, ConfirmInv, NEW e \in Events, channel' = Sent(e), traded \subseteq traded',
         e.kind = "trade" => e.id \in traded'
  PROVE  \A i \in 1 .. Len(channel') : channel'[i].kind = "trade" => channel'[i].id \in traded'
<1>1. channel \in Seq(Events)
  BY DEF TypeOK
<1>2. CASE channel' = channel
  BY <1>2 DEF ConfirmInv
<1>3. CASE channel' = Append(channel, e)
  <2>1. /\ Len(channel') = Len(channel) + 1 /\ Len(channel) \in Nat
        /\ \A i \in 1 .. Len(channel) : channel'[i] = channel[i]
        /\ channel'[Len(channel) + 1] = e
    BY <1>1, <1>3
  <2>2. \A i \in 1 .. Len(channel') : i \in 1 .. Len(channel) \/ i = Len(channel) + 1
    BY <2>1
  <2> QED  BY <2>1, <2>2 DEF ConfirmInv
<1> QED  BY <1>2, <1>3 DEF Sent

LEMMA ConfirmExchange == TypeOK /\ ConfirmInv /\ Exchange => ConfirmInv'
<1> SUFFICES ASSUME TypeOK, ConfirmInv, Exchange PROVE ConfirmInv'
  OBVIOUS
<1>1. ASSUME NEW e \in Events, channel' = Sent(e), traded \subseteq traded',
             e.kind = "trade" => e.id \in traded', UNCHANGED <<refresh, store>>
      PROVE  ConfirmInv'
  BY <1>1, ChannelSent, ConfirmKept DEF store, Pending
<1>2. ASSUME NEW o \in Orders, ExchangeOpens(o) \/ ExchangeCloses(o) PROVE ConfirmInv'
  <2>1. PICK k \in {"open", "closed"} : channel' = Sent([kind |-> k, id |-> o])
    BY <1>2 DEF ExchangeOpens, ExchangeCloses
  <2> DEFINE e == [kind |-> k, id |-> o]
  <2>2. e \in Events /\ e.kind # "trade"
    BY DEF Events
  <2>3. channel' = Sent(e) /\ UNCHANGED <<refresh, store, traded>>
    BY <1>2, <2>1 DEF ExchangeOpens, ExchangeCloses
  <2> HIDE DEF e
  <2> QED  BY <1>1, <2>2, <2>3
<1>3. ASSUME NEW t \in Trades, ExchangeTrades(t) PROVE ConfirmInv'
  <2> DEFINE e == [kind |-> "trade", id |-> t]
  <2>1. e \in Events /\ e.id = t
    BY DEF Events
  <2>2. channel' = Sent(e) /\ traded' = traded \cup {t} /\ UNCHANGED <<refresh, store>>
    BY <1>3 DEF ExchangeTrades
  <2> HIDE DEF e
  <2> QED  BY <1>1, <2>1, <2>2
<1> QED  BY <1>2, <1>3 DEF Exchange

LEMMA ConfirmRefresh ==
  ASSUME TypeOK, PendingIsHandled, ConfirmInv, NEW r \in Processes, RefreshBegins(r) \/ RefreshStep(r)
  PROVE  ConfirmInv'
<1>0. refresh[r] \in Refresh /\ UNCHANGED <<traded, channel>>
  BY DEF TypeOK, RefreshStep, RefreshBegins, RefreshResolves, RefreshIdentifies, RefreshRaises,
         FetchPositions, FetchOrders, FetchFails, RefreshStores, exchange
<1>1. \A i \in 1 .. Len(channel') : channel'[i].kind = "trade" => channel'[i].id \in traded'
  BY <1>0 DEF ConfirmInv
<1>2. \A q \in Processes : q # r => refresh'[q] = refresh[q]
  BY DEF TypeOK, RefreshStep, RefreshBegins, RefreshResolves, RefreshIdentifies, RefreshRaises,
         FetchPositions, FetchOrders, FetchFails, RefreshStores, Goes, Leaves
<1>3. ASSUME NEW error, Settles(r, error) PROVE \A t \in Trades : Pending(t)' => Pending(t)
  BY <1>3 DEF Settles, mark_trades_confirmation, Outcome, Pending
<1>4. CASE RefreshIdentifies(r)
  <2>1. CASE UNCHANGED <<identity, recent>>
    <3>1. CASE r = Socket
      <4>1. /\ refresh[r].cred = identity /\ At(r, "identifying")
            /\ refresh' = [refresh EXCEPT ![r].at = "fetching"]
        BY <1>4, <2>1 DEF RefreshIdentifies, set_account_identity, Goes
      <4>2. refresh'[r].cred = identity /\ refresh'[r].got = {} /\ refresh'[r].at = "fetching"
        BY <1>0, <3>1, <4>1 DEF ConfirmInv, TypeOK, Refresh
      <4> QED  BY <1>0, <1>1, <2>1, <3>1, <4>2 DEF ConfirmInv, Pending, At, Answered
    <3>2. CASE r # Socket
      BY <1>0, <1>1, <1>2, <2>1, <3>2, Places, ConfirmKept DEF Pending
    <3> QED  BY <3>1, <3>2
  <2>2. CASE \A t \in Trades : ~Pending(t)'
    <3>1. At(Socket, "identifying")' => At(Socket, "identifying") /\ refresh'[Socket] = refresh[Socket]
      BY <1>0, <1>2, <1>4, Places DEF RefreshIdentifies, Goes, At, TypeOK
    <3> QED  BY <1>1, <2>2, <3>1 DEF ConfirmInv
  <2> QED  BY <1>4, <2>1, <2>2 DEF RefreshIdentifies, set_account_identity, Clear, Pending
<1>5. CASE r # Socket /\ ~RefreshIdentifies(r)
  <2>1. UNCHANGED identity /\ refresh'[Socket] = refresh[Socket]
    BY <1>2, <1>5, Places DEF RefreshStep, RefreshBegins, RefreshResolves, RefreshRaises, FetchPositions,
                              FetchOrders, FetchFails, RefreshStores, store
  <2>2. UNCHANGED recent
    BY <1>5 DEF RefreshStep, RefreshBegins, RefreshResolves, RefreshRaises, FetchPositions,
                FetchOrders, FetchFails, RefreshStores, Settles, store
  <2> QED  BY <1>0, <1>1, <2>1, <2>2, ConfirmKept DEF Pending
<1>6. CASE r = Socket /\ (RefreshRaises(r) \/ RefreshStores(r))
  <2>1. refresh'[Socket].at = "idle"
    <3>1. refresh' = [refresh EXCEPT ![Socket] = Idle] /\ Idle.at = "idle"
      BY <1>6 DEF RefreshRaises, RefreshStores, Leaves, Idle
    <3>2. refresh'[Socket] = Idle
      BY <3>1, Places DEF TypeOK
    <3> QED  BY <3>1, <3>2
  <2>2. \A t \in Trades : Pending(t)' => Pending(t)
    <3>1. CASE Settles(r, TRUE)
      BY <1>3, <3>1
    <3>2. CASE Settles(r, refresh[r].failed # {})
      BY <3>2 DEF Settles, mark_trades_confirmation, Outcome, Pending
    <3> QED  BY <1>6, <3>1, <3>2 DEF RefreshRaises, RefreshStores
  <2> QED  BY <1>0, <1>1, <2>1, <2>2 DEF ConfirmInv, At
<1>7. CASE r = Socket /\ RefreshResolves(r)
  <2>1. refresh'[Socket].at = "identifying" /\ refresh'[Socket].got = {} /\ UNCHANGED recent
    BY <1>7 DEF RefreshResolves, store, TypeOK, Idle
  <2> QED  BY <1>0, <1>1, <2>1 DEF ConfirmInv, At, Pending
<1>8. CASE r = Socket /\ (FetchPositions(r) \/ FetchOrders(r) \/ FetchFails(r))
  <2>1. At(r, "fetching") /\ At(r, "fetching")' /\ refresh'[r].cred = refresh[r].cred
        /\ UNCHANGED <<recent, identity>>
    <3>1. At(r, "fetching") /\ UNCHANGED <<recent, identity>>
      BY <1>8 DEF FetchPositions, FetchOrders, FetchFails, Awaits, store
    <3>2. refresh'[r].at = refresh[r].at /\ refresh'[r].cred = refresh[r].cred
      <4>1. CASE FetchPositions(r)
        BY <1>0, <4>1 DEF FetchPositions, Refresh, TypeOK
      <4>2. CASE FetchOrders(r)
        BY <1>0, <4>2 DEF FetchOrders, Refresh, TypeOK
      <4>3. CASE FetchFails(r)
        BY <1>0, <4>3 DEF FetchFails, Refresh, TypeOK
      <4> QED  BY <1>8, <4>1, <4>2, <4>3
    <3> QED  BY <3>1, <3>2 DEF At
  <2>2. ASSUME NEW t \in Trades, Pending(t), Answered(r, "positions")', Owner[t] = identity
        PROVE  t \in refresh'[r].positions
    <3>1. t \in traded /\ identity = refresh[r].cred
      BY <1>8, <2>1, <2>2 DEF ConfirmInv
    <3>2. CASE FetchPositions(r)
      <4>1. refresh'[r].positions = PositionsOf(refresh[r].cred)
        BY <1>0, <3>2 DEF FetchPositions, Refresh, TypeOK
      <4> QED  BY <2>2, <3>1, <4>1 DEF PositionsOf
    <3>3. CASE FetchOrders(r)
      <4>1. refresh'[r].positions = refresh[r].positions /\ refresh'[r].got = refresh[r].got \cup {"orders"}
            /\ refresh'[r].failed = refresh[r].failed
        BY <1>0, <3>3 DEF FetchOrders, Refresh, TypeOK
      <4>2. Answered(r, "positions")
        BY <2>2, <4>1 DEF Answered
      <4> QED  BY <1>8, <2>1, <2>2, <4>1, <4>2 DEF ConfirmInv
    <3>4. CASE FetchFails(r)
      <4>1. PICK s \in Sources :
              refresh' = [refresh EXCEPT ![r].got = @ \cup {s}, ![r].failed = @ \cup {s}]
        BY <3>4 DEF FetchFails
      <4>2. refresh'[r].positions = refresh[r].positions /\ refresh'[r].got = refresh[r].got \cup {s}
            /\ refresh'[r].failed = refresh[r].failed \cup {s}
        BY <1>0, <4>1 DEF Refresh, TypeOK
      <4>3. Answered(r, "positions")
        BY <2>2, <4>2 DEF Answered
      <4> QED  BY <1>8, <2>1, <2>2, <4>2, <4>3 DEF ConfirmInv
    <3> QED  BY <1>8, <3>2, <3>3, <3>4
  <2> QED  BY <1>0, <1>1, <1>8, <2>1, <2>2 DEF ConfirmInv, Pending, At
<1>9. ~(r = Socket /\ RefreshBegins(r))
  BY DEF RefreshBegins
<1> QED  BY <1>4, <1>5, <1>6, <1>7, <1>8, <1>9 DEF RefreshStep

LEMMA ConfirmSocket ==
  ASSUME TypeOK, PendingIsHandled, ConfirmInv, SocketStep
  PROVE  ConfirmInv'
<1>1. ASSUME UNCHANGED <<refresh, identity, recent, traded>>, channel' = channel \/ channel' = <<>>
      PROVE  ConfirmInv'
  <2>1. \A i \in 1 .. Len(channel') : channel'[i].kind = "trade" => channel'[i].id \in traded'
    <3>1. CASE channel' = channel
      BY <1>1, <3>1 DEF ConfirmInv
    <3>2. CASE channel' = <<>>
      BY <3>2
    <3> QED  BY <1>1, <3>1, <3>2
  <2> QED  BY <1>1, <2>1, ConfirmKept DEF Pending
<1>2. CASE SocketChecks \/ SocketStopsMissing \/ SocketResolves \/ SocketConnects \/ SocketWakes
  BY <1>1, <1>2 DEF SocketChecks, SocketStopsMissing, SocketResolves, SocketConnects, SocketWakes,
                    exchange, store
<1>3. CASE SocketFails \/ SocketNotices
  BY <1>1, <1>3 DEF SocketFails, SocketNotices, Disconnects, store
<1>4. ASSUME channel # <<>>, channel' = Tail(channel), UNCHANGED traded
      PROVE  \A i \in 1 .. Len(channel') : channel'[i].kind = "trade" => channel'[i].id \in traded'
  BY <1>4, HeadTyped DEF ConfirmInv
<1>5. CASE SocketHandlesOrder
  <2>1. channel # <<>> /\ channel' = Tail(channel) /\ UNCHANGED <<refresh, identity, recent, traded>>
    BY <1>5 DEF SocketHandlesOrder, TypeOK
  <2> QED  BY <1>4, <2>1, ConfirmKept DEF Pending
<1>6. CASE SocketHandlesTrade
  <2>1. channel # <<>> /\ channel' = Tail(channel) /\ UNCHANGED <<identity, traded>>
    BY <1>6 DEF SocketHandlesTrade, TypeOK
  <2>2. Head(channel).id \in traded
    BY <1>6, <2>1, HeadTyped DEF SocketHandlesTrade, ConfirmInv
  <2>3. \A t \in Trades : Pending(t)' => t = Head(channel).id \/ Pending(t)
    BY <1>6 DEF SocketHandlesTrade, apply_trade, Pending
  <2>4. refresh'[Socket].at = "resolving"
    <3>1. refresh[Socket] \in Refresh
      BY Places DEF TypeOK
    <3> QED  BY <1>6, <3>1, Places DEF SocketHandlesTrade, Goes, TypeOK, Refresh
  <2> QED  BY <1>4, <2>1, <2>2, <2>3, <2>4 DEF ConfirmInv, Pending, At
<1> QED  BY <1>2, <1>3, <1>5, <1>6 DEF SocketStep

LEMMA ConfirmNext == TypeOK /\ PendingIsHandled /\ ConfirmInv /\ [Next]_vars => ConfirmInv'
<1> SUFFICES ASSUME TypeOK, PendingIsHandled, ConfirmInv, [Next]_vars PROVE ConfirmInv'
  OBVIOUS
<1>0. \A i \in 1 .. Len(channel) : channel[i].kind = "trade" => channel[i].id \in traded
  BY DEF ConfirmInv
<1>1. CASE UNCHANGED vars
  BY <1>0, <1>1, ConfirmKept DEF vars, exchange, store, Pending
<1>2. ASSUME NEW w \in Credentials, ImportsFirst(w) PROVE ConfirmInv'
  BY <1>0, <1>2, ConfirmKept DEF ImportsFirst, exchange, store, Pending
<1>3. ASSUME NEW o \in Orders, SuppressionExpires(o) PROVE ConfirmInv'
  BY <1>0, <1>3, ConfirmKept DEF SuppressionExpires, exchange, Pending
<1>4. ASSUME NEW r \in Routes, Request(r) \/ RouteStep(r) PROVE ConfirmInv'
  <2>1. refresh'[Socket] = refresh[Socket]
    BY <1>4, Places DEF Request, RouteStep, Activates, CancelBegins, NotifiesChange, CancelExecutes,
                        CancelFails, CancelReturns, Goes, Leaves, TypeOK
  <2>2. UNCHANGED <<identity, recent, traded>>
    BY <1>4 DEF Request, RouteStep, Activates, CancelBegins, NotifiesChange, CancelExecutes,
                CancelFails, CancelReturns, Canceled, exchange, store
  <2>3. \A i \in 1 .. Len(channel') : channel'[i].kind = "trade" => channel'[i].id \in traded'
    <3>1. CASE UNCHANGED channel
      BY <1>0, <2>2, <3>1
    <3>2. CASE \E o \in Cancelable(r) : channel' = Sent([kind |-> "closed", id |-> o])
      <4>1. PICK o \in Cancelable(r) : channel' = Sent([kind |-> "closed", id |-> o])
        BY <3>2
      <4> DEFINE e == [kind |-> "closed", id |-> o]
      <4>2. e \in Events /\ e.kind # "trade"
        BY DEF Cancelable, OpenOrders, Events
      <4>3. channel' = Sent(e)
        BY <4>1
      <4> HIDE DEF e
      <4> QED  BY <2>2, <4>2, <4>3, ChannelSent
    <3> QED  BY <1>4, <3>1, <3>2 DEF Request, RouteStep, Activates, CancelBegins, NotifiesChange,
                CancelExecutes, CancelFails, CancelReturns, Canceled, exchange
  <2> QED  BY <2>1, <2>2, <2>3, ConfirmKept DEF Pending
<1> QED  BY <1>1, <1>2, <1>3, <1>4, ConfirmExchange, ConfirmSocket, ConfirmRefresh DEF Next

\* Only the handler's own refresh confirms, and it does so in the step that stores its answers.
LEMMA ConfirmingStep ==
  ASSUME TypeOK, ConfirmInv, [Next]_vars, NEW t \in Trades,
         recent[t] = "pending", recent'[t] = "confirmed", identity = Owner[t]
  PROVE  t \in positions'
<1>1. recent' # recent
  OBVIOUS
<1>2. PICK r \in Processes : RefreshIdentifies(r) \/ RefreshRaises(r) \/ RefreshStores(r) \/ SocketHandlesTrade
  BY <1>1, Places DEF Next, vars, store, Exchange, ExchangeOpens, ExchangeCloses, ExchangeTrades,
       SocketStep, SocketChecks, SocketStopsMissing, SocketResolves, SocketConnects, SocketFails,
       SocketNotices, SocketWakes, SocketHandlesOrder, RefreshBegins, RefreshStep, RefreshResolves,
       FetchPositions, FetchOrders, FetchFails, Request, RouteStep, Activates, CancelBegins,
       NotifiesChange, CancelExecutes, CancelFails, CancelReturns, ImportsFirst, SuppressionExpires
<1>3. RefreshStores(r) /\ r = Socket
  <2>1. ~SocketHandlesTrade
    BY DEF SocketHandlesTrade, apply_trade
  <2>2. ~RefreshIdentifies(r)
    BY <1>1 DEF RefreshIdentifies, set_account_identity, Clear
  <2>3. ~RefreshRaises(r)
    BY <1>1 DEF RefreshRaises, Settles, mark_trades_confirmation, Outcome
  <2>4. r = Socket
    BY <1>1, <1>2, <2>1, <2>2, <2>3 DEF RefreshStores, Settles
  <2> QED  BY <1>2, <2>1, <2>2, <2>3, <2>4
<1>4. refresh[r].failed = {} /\ At(r, "fetching") /\ refresh[r].got = Fetches(refresh[r].cred)
  BY <1>3 DEF RefreshStores, Settles, mark_trades_confirmation, Outcome
<1>5. identity = refresh[r].cred
  BY <1>3, <1>4 DEF ConfirmInv, Pending
<1>6. identity # NoOne
  BY OwnerAssumption, CredentialsAssumption
<1>7. Answered(r, "positions")
  BY <1>4, <1>5, <1>6 DEF Fetches, Sources, Answered
<1>8. t \in refresh[r].positions
  BY <1>3, <1>4, <1>7 DEF ConfirmInv, Pending
<1> QED  BY <1>3, <1>7, <1>8 DEF RefreshStores

\* A confirmed trade is in the positions that the confirming step shows.
THEOREM ConfirmationIsBacked == Spec => ConfirmationHasSnapshot
<1>1. Init => ConfirmInv
  BY Places DEF Init, ConfirmInv, At, Idle, Pending
<1>2. TypeOK /\ ConfirmInv /\ [Next]_vars =>
        [\A t \in Trades : recent[t] = "pending" /\ recent'[t] = "confirmed" /\ identity = Owner[t]
                            => t \in positions']_vars
  BY ConfirmingStep
<1> QED  BY <1>1, <1>2, ConfirmNext, NoTradeLeftPending, AccountTypeCorrect, PTL
         DEF Spec, ConfirmationHasSnapshot
=============================================================================
