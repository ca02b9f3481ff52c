----------------------------- MODULE MarketProofs -----------------------------
(***************************************************************************)
(* Theorems about the three models of the market monitor, for every value   *)
(* of their constants.  MarketSubscription: the dictionaries of the hub       *)
(* agree, and the websocket has the markets that were selected.  OrderBook:   *)
(* what is shown are levels and prices of the exchange.  RefreshSchedule: no  *)
(* boundary and no signal is left without its refresh.  MCMarkets, which      *)
(* this module extends, names the properties of the last two.                 *)
(***************************************************************************)
EXTENDS MCMarkets, CandleRangesProofs, SequenceTheorems, TLAPS

-----------------------------------------------------------------------------
(* The operations of the hub *)

Subs == [interval : Tags, market : Market \cup {NoMarket}] \cup {NoSub}
Hubs == [clients : [Clients -> Subs], byInterval : [Tags -> SUBSET Clients],
         byMarket : [Market -> SUBSET Clients]]

\* What the dictionaries of h say of one browser agrees.
Serves(h, c) ==
  /\ \A i \in Tags : c \in h.byInterval[i] <=> h.clients[c].interval = i
  /\ h.clients[c].market # NoMarket => c \in h.byMarket[h.clients[c].market]

\* g and h say the same of one browser.
SameOf(g, h, c) == /\ g.clients[c] = h.clients[c]
                   /\ \A i \in Tags : c \in g.byInterval[i] <=> c \in h.byInterval[i]
                   /\ \A m \in Market : c \in g.byMarket[m] <=> c \in h.byMarket[m]

Outside(h, c) == \A j \in Tags : c \notin h.byInterval[j]

\* What connect, leaving an interval and _remove_market_client make of h.
ConnectedAs(g, h, c, i) ==
  /\ g \in Hubs /\ g.byMarket = h.byMarket
  /\ g.clients = [h.clients EXCEPT ![c] = [interval |-> i, market |-> NoMarket]]
  /\ g.byInterval = [h.byInterval EXCEPT ![i] = @ \cup {c}]

Left(h, c, i) == [h EXCEPT !.byInterval[i] = @ \ {c}]

LeftAs(g, h, c, i) ==
  /\ g \in Hubs /\ g.clients = h.clients /\ g.byMarket = h.byMarket
  /\ g.byInterval = [h.byInterval EXCEPT ![i] = @ \ {c}]

RemovedAs(g, h, c) ==
  /\ g \in Hubs /\ g.clients = h.clients /\ g.byInterval = h.byInterval
  /\ g.byMarket \in [Market -> SUBSET Clients]
  /\ \A m \in Market : g.byMarket[m] = IF m = h.clients[c].market THEN h.byMarket[m] \ {c}
                                       ELSE h.byMarket[m]

AllServed(h) == \A c \in Clients : Serves(h, c)

Kept(g, h, failing) == \A c \in Clients \ failing : g.clients[c] = h.clients[c]

Watched(h) == {m \in Market : h.byMarket[m] # {}}

LEMMA NoMarketIsNone == NoMarket \notin Market
BY DEF NoMarket, Market

LEMMA NoneIsNoTag == "none" \notin Tags
BY MarketSubscriptionAssumption

LEMMA SubParts ==
  ASSUME NEW s \in Subs
  PROVE  s.interval \in Tags \cup {"none"} /\ s.market \in Market \cup {NoMarket}
BY DEF Subs, NoSub

LEMMA HubParts ==
  ASSUME NEW h \in Hubs
  PROVE  /\ h.clients \in [Clients -> Subs] /\ h.byInterval \in [Tags -> SUBSET Clients]
         /\ h.byMarket \in [Market -> SUBSET Clients]
BY DEF Hubs

LEMMA SameServes ==
  ASSUME NEW g \in Hubs, NEW h \in Hubs, NEW c \in Clients, SameOf(g, h, c), Serves(h, c)
  PROVE  Serves(g, c)
<1>1. h.clients[c] \in Subs /\ g.clients[c] = h.clients[c]
  BY HubParts DEF SameOf
<1>2. h.clients[c].market \in Market \cup {NoMarket}
  BY <1>1, SubParts
<1> QED  BY <1>1, <1>2 DEF SameOf, Serves

LEMMA Connected ==
  ASSUME NEW h \in Hubs, NEW c \in Clients, NEW i \in Tags, NEW g, g = connect(h, c, i)
  PROVE  ConnectedAs(g, h, c, i)
<1> DEFINE s == [interval |-> i, market |-> NoMarket]
<1>1. s \in Subs
  BY DEF Subs
<1>2. /\ g.byMarket = h.byMarket /\ g.clients = [h.clients EXCEPT ![c] = s]
      /\ g.byInterval = [h.byInterval EXCEPT ![i] = @ \cup {c}]
      /\ g = [clients |-> g.clients, byInterval |-> g.byInterval, byMarket |-> g.byMarket]
  BY DEF connect, Hubs
<1> HIDE DEF s
<1>3. /\ g.clients \in [Clients -> Subs] /\ g.byInterval \in [Tags -> SUBSET Clients]
      /\ g.byMarket \in [Market -> SUBSET Clients]
  BY <1>1, <1>2, HubParts
<1> QED  BY <1>2, <1>3 DEF ConnectedAs, Hubs, s

LEMMA RemovedMarket ==
  ASSUME NEW h \in Hubs, NEW c \in Clients, NEW g, g = _remove_market_client(h, c)
  PROVE  RemovedAs(g, h, c)
<1>1. h.clients[c].market \in Market \cup {NoMarket}
  BY HubParts, SubParts
<1>2. CASE h.clients[c].market = NoMarket
  BY <1>2, NoMarketIsNone, HubParts DEF _remove_market_client, RemovedAs
<1>3. CASE h.clients[c].market \in Market
  <2> DEFINE k == h.clients[c].market
  <2>1. /\ g.clients = h.clients /\ g.byInterval = h.byInterval
        /\ g.byMarket = [h.byMarket EXCEPT ![k] = @ \ {c}]
        /\ g = [clients |-> g.clients, byInterval |-> g.byInterval, byMarket |-> g.byMarket]
    BY <1>3, NoMarketIsNone DEF _remove_market_client, Hubs
  <2>2. k \in Market /\ h.byMarket \in [Market -> SUBSET Clients]
    BY <1>3, HubParts
  <2> HIDE DEF k
  <2>3. g.byMarket \in [Market -> SUBSET Clients]
    BY <2>1, <2>2
  <2>4. g \in Hubs
    BY <2>1, <2>3, HubParts DEF Hubs
  <2>5. \A m \in Market : g.byMarket[m] = IF m = k THEN h.byMarket[m] \ {c} ELSE h.byMarket[m]
    BY <2>1, <2>2
  <2> QED  BY <2>1, <2>3, <2>4, <2>5 DEF k, RemovedAs
<1> QED  BY <1>1, <1>2, <1>3

LEMMA LeftInterval ==
  ASSUME NEW h \in Hubs, NEW c \in Clients, NEW i \in Tags,
         NEW g, g = Left(h, c, i)
  PROVE  LeftAs(g, h, c, i)
<1>1. /\ g.clients = h.clients /\ g.byMarket = h.byMarket
      /\ g.byInterval = [h.byInterval EXCEPT ![i] = @ \ {c}]
      /\ g = [clients |-> g.clients, byInterval |-> g.byInterval, byMarket |-> g.byMarket]
  BY DEF Hubs, Left
<1>2. g.byInterval \in [Tags -> SUBSET Clients]
  BY <1>1, HubParts
<1> QED  BY <1>1, <1>2, HubParts DEF Hubs, LeftAs

LEMMA ConnectedFresh ==
  ASSUME NEW h \in Hubs, NEW c \in Clients, NEW i \in Tags, NEW g, g = connect(h, c, i),
         Outside(h, c)
  PROVE  /\ g \in Hubs /\ Serves(g, c) /\ g.clients[c].interval = i
         /\ \A d \in Clients \ {c} : SameOf(g, h, d)
         /\ Watched(g) = Watched(h)
<1>1. /\ g \in Hubs /\ g.byMarket = h.byMarket
      /\ g.clients = [h.clients EXCEPT ![c] = [interval |-> i, market |-> NoMarket]]
      /\ g.byInterval = [h.byInterval EXCEPT ![i] = @ \cup {c}]
  BY Connected DEF ConnectedAs
<1>2. /\ h.clients \in [Clients -> Subs] /\ h.byInterval \in [Tags -> SUBSET Clients]
  BY HubParts
<1>3. g.clients[c].interval = i /\ g.clients[c].market = NoMarket
  BY <1>1, <1>2
<1>4. \A j \in Tags : c \in g.byInterval[j] <=> j = i
  BY <1>1, <1>2 DEF Outside
<1>5. \A d \in Clients \ {c} : SameOf(g, h, d)
  BY <1>1, <1>2 DEF SameOf
<1> QED  BY <1>1, <1>3, <1>4, <1>5 DEF Serves, Watched

LEMMA Moved ==
  ASSUME NEW h \in Hubs, NEW c \in Clients, NEW i \in Tags, Serves(h, c), NEW g, g = moved(h, c, i)
  PROVE  /\ g \in Hubs /\ Serves(g, c) /\ g.clients[c].interval = i
         /\ \A d \in Clients \ {c} : SameOf(g, h, d)
         /\ Watched(g) = Watched(h)
<1> DEFINE old == h.clients[c].interval
<1>1. old \in Tags \cup {"none"}
  BY HubParts, SubParts
<1>2. CASE old = i
  BY <1>2 DEF moved, SameOf
<1>3. CASE old = "none" /\ old # i
  <2>1. g = connect(h, c, i)
    BY <1>3 DEF moved
  <2>2. Outside(h, c)
    BY <1>3, NoneIsNoTag DEF Serves, Outside
  <2> QED  BY <2>1, <2>2, ConnectedFresh
<1>4. CASE old \in Tags /\ old # i
  <2>0. PICK k : k = Left(h, c, old)
    OBVIOUS
  <2>1. g = connect(k, c, i)
    BY <1>4, <2>0, NoneIsNoTag DEF moved, Left
  <2>2. LeftAs(k, h, c, old)
    BY <1>4, <2>0, LeftInterval
  <2>3. k \in Hubs /\ Outside(k, c)
    BY <1>4, <2>2, HubParts DEF Serves, Outside, LeftAs
  <2>4. \A d \in Clients \ {c} : SameOf(k, h, d)
    BY <1>4, <2>2, HubParts DEF SameOf, LeftAs
  <2>5. /\ g \in Hubs /\ Serves(g, c) /\ g.clients[c].interval = i
        /\ \A d \in Clients \ {c} : SameOf(g, k, d)
        /\ Watched(g) = Watched(k)
    BY <2>1, <2>3, ConnectedFresh
  <2> QED  BY <2>2, <2>4, <2>5 DEF SameOf, Watched, LeftAs
<1> QED  BY <1>1, <1>2, <1>3, <1>4

LEMMA SelectedMarket ==
  ASSUME NEW h \in Hubs, NEW c \in Clients, NEW m \in Market, Serves(h, c),
         NEW g, g = replace_market_subscription(h, c, m)
  PROVE  /\ g \in Hubs /\ Serves(g, c) /\ g.clients[c].interval = m[1]
         /\ \A d \in Clients \ {c} : SameOf(g, h, d)
         /\ Watched(g) \subseteq Watched(h) \cup {m}
<1>k. PICK k : k = moved(h, c, m[1])
  OBVIOUS
<1>l. PICK l : l = _remove_market_client(k, c)
  OBVIOUS
<1>1. m[1] \in Tags
  BY DEF Market
<1>2. /\ k \in Hubs /\ Serves(k, c) /\ k.clients[c].interval = m[1]
      /\ \A d \in Clients \ {c} : SameOf(k, h, d)
      /\ Watched(k) = Watched(h)
  BY <1>1, <1>k, Moved
<1>3. /\ l \in Hubs /\ l.clients = k.clients /\ l.byInterval = k.byInterval
      /\ \A n \in Market : l.byMarket[n] = IF n = k.clients[c].market THEN k.byMarket[n] \ {c}
                                           ELSE k.byMarket[n]
  <2>1. RemovedAs(l, k, c)
    BY <1>2, <1>l, RemovedMarket
  <2> QED  BY <2>1 DEF RemovedAs
<1>4. g = [l EXCEPT !.clients[c].market = m, !.byMarket[m] = @ \cup {c}]
  BY <1>k, <1>l DEF replace_market_subscription
<1>5. /\ g.clients = [l.clients EXCEPT ![c].market = m] /\ g.byInterval = l.byInterval
      /\ g.byMarket = [l.byMarket EXCEPT ![m] = @ \cup {c}]
      /\ g = [clients |-> g.clients, byInterval |-> g.byInterval, byMarket |-> g.byMarket]
  BY <1>3, <1>4 DEF Hubs
<1>6. /\ g.clients[c].market = m /\ g.clients[c].interval = m[1] /\ g.clients[c] \in Subs
      /\ \A d \in Clients \ {c} : g.clients[d] = k.clients[d]
  <2>1. l.clients[c] \in Subs /\ l.clients \in [Clients -> Subs] /\ l.clients[c].interval = m[1]
    BY <1>2, <1>3, HubParts
  <2>2. g.clients[c] = [l.clients[c] EXCEPT !.market = m]
    BY <1>5, <2>1
  <2>3. l.clients[c] # NoSub
    BY <1>1, <2>1, NoneIsNoTag DEF NoSub
  <2>4. l.clients[c] \in [interval : Tags, market : Market \cup {NoMarket}]
    BY <2>1, <2>3 DEF Subs
  <2> QED  BY <1>3, <1>5, <2>1, <2>2, <2>4 DEF Subs
<1>7. /\ g.byMarket \in [Market -> SUBSET Clients]
      /\ \A n \in Market : g.byMarket[n] = IF n = m THEN l.byMarket[n] \cup {c} ELSE l.byMarket[n]
  <2>1. l.byMarket \in [Market -> SUBSET Clients]
    BY <1>3, HubParts
  <2> QED  BY <1>5, <2>1
<1>8. g \in Hubs
  <2>1. g.clients \in [Clients -> Subs]
    BY <1>3, <1>5, <1>6, HubParts
  <2> QED  BY <1>3, <1>5, <1>7, <2>1, HubParts DEF Hubs
<1>9. Serves(g, c)
  <2>1. \A i \in Tags : c \in g.byInterval[i] <=> g.clients[c].interval = i
    BY <1>2, <1>3, <1>5, <1>6 DEF Serves
  <2>2. c \in g.byMarket[m]
    BY <1>7
  <2> QED  BY <1>6, <2>1, <2>2 DEF Serves
<1>10. ASSUME NEW d \in Clients \ {c} PROVE SameOf(g, h, d)
  <2>1. SameOf(k, h, d)
    BY <1>2
  <2>2. SameOf(g, k, d)
    <3>1. \A n \in Market : d \in g.byMarket[n] <=> d \in l.byMarket[n]
      BY <1>7
    <3>2. \A n \in Market : d \in l.byMarket[n] <=> d \in k.byMarket[n]
      BY <1>3
    <3> QED  BY <1>3, <1>5, <1>6, <3>1, <3>2 DEF SameOf
  <2> QED  BY <2>1, <2>2 DEF SameOf
<1>11. Watched(g) \subseteq Watched(h) \cup {m}
  <2>1. \A n \in Market : n # m => g.byMarket[n] \subseteq k.byMarket[n]
    BY <1>3, <1>7
  <2>2. Watched(g) \subseteq Watched(k) \cup {m}
    BY <2>1 DEF Watched
  <2> QED  BY <1>2, <2>2
<1> QED  BY <1>6, <1>8, <1>9, <1>10, <1>11

LEMMA SelectedInterval ==
  ASSUME NEW h \in Hubs, NEW c \in Clients, NEW i \in Tags, NEW j \in Tags, Serves(h, c),
         h.clients[c].interval = i,
         NEW g, g = replace_interval_subscription(h, c, i, j)
  PROVE  /\ g \in Hubs /\ Serves(g, c) /\ g.clients[c].interval = j
         /\ \A d \in Clients \ {c} : SameOf(g, h, d)
         /\ Watched(g) \subseteq Watched(h)
<1>k. PICK k : k = Left(h, c, i)
  OBVIOUS
<1>l. PICK l : l = _remove_market_client(k, c)
  OBVIOUS
<1>1. /\ k \in Hubs /\ k.clients = h.clients /\ k.byMarket = h.byMarket
      /\ k.byInterval = [h.byInterval EXCEPT ![i] = @ \ {c}]
  <2>1. LeftAs(k, h, c, i)
    BY <1>k, LeftInterval
  <2> QED  BY <2>1 DEF LeftAs
<1>2. /\ l \in Hubs /\ l.clients = k.clients /\ l.byInterval = k.byInterval
      /\ \A n \in Market : l.byMarket[n] = IF n = k.clients[c].market THEN k.byMarket[n] \ {c}
                                           ELSE k.byMarket[n]
  <2>1. RemovedAs(l, k, c)
    BY <1>1, <1>l, RemovedMarket
  <2> QED  BY <2>1 DEF RemovedAs
<1>3. g = connect(l, c, j)
  BY <1>k, <1>l DEF replace_interval_subscription, Left
<1>4. Outside(l, c)
  <2>1. h.byInterval \in [Tags -> SUBSET Clients]
    BY HubParts
  <2> QED  BY <1>1, <1>2, <2>1 DEF Serves, Outside
<1>5. ASSUME NEW d \in Clients \ {c} PROVE SameOf(l, h, d)
  <2>1. h.byInterval \in [Tags -> SUBSET Clients]
    BY HubParts
  <2>2. \A n \in Tags : d \in l.byInterval[n] <=> d \in h.byInterval[n]
    BY <1>1, <1>2, <2>1
  <2>3. \A m \in Market : d \in l.byMarket[m] <=> d \in h.byMarket[m]
    BY <1>1, <1>2
  <2> QED  BY <1>1, <1>2, <2>2, <2>3 DEF SameOf
<1>6. Watched(l) \subseteq Watched(h)
  BY <1>1, <1>2 DEF Watched
<1>7. /\ g \in Hubs /\ Serves(g, c) /\ g.clients[c].interval = j
      /\ \A d \in Clients \ {c} : SameOf(g, l, d)
      /\ Watched(g) = Watched(l)
  BY <1>2, <1>3, <1>4, ConnectedFresh
<1> QED  BY <1>5, <1>6, <1>7 DEF SameOf

LEMMA Disconnected ==
  ASSUME NEW h \in Hubs, NEW c \in Clients, Serves(h, c), NEW g, g = disconnect(h, c)
  PROVE  /\ g \in Hubs /\ Serves(g, c)
         /\ \A d \in Clients \ {c} : SameOf(g, h, d)
         /\ Watched(g) \subseteq Watched(h)
<1>k. PICK k : k = _remove_market_client(h, c)
  OBVIOUS
<1> DEFINE i == h.clients[c].interval
<1>1. CASE h.clients[c] = NoSub
  BY <1>1 DEF disconnect, SameOf
<1>2. CASE h.clients[c] # NoSub
  <2>1. /\ k \in Hubs /\ k.clients = h.clients /\ k.byInterval = h.byInterval
        /\ \A n \in Market : k.byMarket[n] = IF n = h.clients[c].market THEN h.byMarket[n] \ {c}
                                             ELSE h.byMarket[n]
    <3>1. RemovedAs(k, h, c)
      BY <1>k, RemovedMarket
    <3> QED  BY <3>1 DEF RemovedAs
  <2>2. g = [k EXCEPT !.byInterval[i] = @ \ {c}, !.clients[c] = NoSub]
    BY <1>2, <1>k DEF disconnect
  <2>3. /\ g.byMarket = k.byMarket /\ g.clients = [k.clients EXCEPT ![c] = NoSub]
        /\ g.byInterval = [k.byInterval EXCEPT ![i] = @ \ {c}]
        /\ g = [clients |-> g.clients, byInterval |-> g.byInterval, byMarket |-> g.byMarket]
    BY <2>1, <2>2 DEF Hubs
  <2>0. i \in Tags
    BY <1>2, HubParts DEF Subs
  <2> HIDE DEF i
  <2>4. NoSub \in Subs /\ NoSub.interval = "none" /\ NoSub.market = NoMarket
    BY DEF NoSub, Subs
  <2>5. /\ g.clients \in [Clients -> Subs] /\ g.byInterval \in [Tags -> SUBSET Clients]
    <3>1. /\ k.clients \in [Clients -> Subs] /\ k.byInterval \in [Tags -> SUBSET Clients]
          /\ k.byMarket \in [Market -> SUBSET Clients]
      BY <2>1, HubParts
    <3> QED  BY <2>0, <2>3, <2>4, <3>1
  <2>6. g \in Hubs
    BY <2>1, <2>3, <2>5, HubParts DEF Hubs
  <2>7. \A j \in Tags : c \notin g.byInterval[j]
    BY <1>2, <2>1, <2>3, HubParts DEF Serves, i
  <2>8. g.clients[c] = NoSub
    BY <2>1, <2>3, HubParts
  <2>9. Serves(g, c)
    BY <2>4, <2>7, <2>8, NoneIsNoTag DEF Serves
  <2>10. ASSUME NEW d \in Clients \ {c} PROVE SameOf(g, h, d)
    <3>1. h.byInterval \in [Tags -> SUBSET Clients] /\ h.clients \in [Clients -> Subs]
      BY HubParts
    <3>2. \A n \in Tags : d \in g.byInterval[n] <=> d \in h.byInterval[n]
      BY <2>0, <2>1, <2>3, <3>1
    <3>3. \A m \in Market : d \in g.byMarket[m] <=> d \in h.byMarket[m]
      BY <2>1, <2>3
    <3>4. g.clients[d] = h.clients[d]
      BY <2>1, <2>3, <3>1
    <3> QED  BY <3>2, <3>3, <3>4 DEF SameOf
  <2>11. Watched(g) \subseteq Watched(h)
    BY <2>1, <2>3 DEF Watched
  <2> QED  BY <2>6, <2>9, <2>10, <2>11
<1> QED  BY <1>1, <1>2

\* A send to any group of browsers.
LEMMA AfterSend ==
  ASSUME NEW h \in Hubs, AllServed(h), NEW receivers \in SUBSET Clients,
         NEW failing \in SUBSET Clients, NEW g, g = Sent(h, receivers, failing)
  PROVE  /\ g \in Hubs /\ AllServed(g)
         /\ Kept(g, h, failing)
         /\ Watched(g) \subseteq Watched(h)
<1> DEFINE lost == receivers \cap failing
<1>1. g = [clients |-> [c \in Clients |-> IF c \in lost THEN NoSub ELSE h.clients[c]],
           byInterval |-> [i \in Tags |-> h.byInterval[i] \ {c \in lost : h.clients[c].interval = i}],
           byMarket |-> [m \in Market |-> h.byMarket[m] \ {c \in lost : h.clients[c].market = m}]]
  BY DEF Sent
<1>2. NoSub \in Subs /\ NoSub.interval = "none" /\ NoSub.market = NoMarket
  BY DEF NoSub, Subs
<1>3. /\ g.clients = [c \in Clients |-> IF c \in lost THEN NoSub ELSE h.clients[c]]
      /\ g.byInterval = [i \in Tags |-> h.byInterval[i] \ {c \in lost : h.clients[c].interval = i}]
      /\ g.byMarket = [m \in Market |-> h.byMarket[m] \ {c \in lost : h.clients[c].market = m}]
  BY <1>1
<1>4. /\ g.clients \in [Clients -> Subs] /\ g.byInterval \in [Tags -> SUBSET Clients]
      /\ g.byMarket \in [Market -> SUBSET Clients]
  BY <1>2, <1>3, HubParts
<1>5. g \in Hubs
  BY <1>1, <1>3, <1>4 DEF Hubs
<1>6. ASSUME NEW c \in Clients PROVE Serves(g, c)
  <2>1. CASE c \in lost
    BY <1>2, <1>3, <2>1, NoneIsNoTag DEF Serves, AllServed
  <2>2. CASE c \notin lost
    <3>1. h.clients[c].market \in Market \cup {NoMarket} /\ g.clients[c] = h.clients[c]
      BY <1>3, <2>2, HubParts, SubParts
    <3> QED  BY <1>3, <2>2, <3>1 DEF Serves, AllServed
  <2> QED  BY <2>1, <2>2
<1>7. \A c \in Clients \ failing : g.clients[c] = h.clients[c]
  BY <1>3
<1>8. Watched(g) \subseteq Watched(h)
  BY <1>3 DEF Watched
<1> QED  BY <1>5, <1>6, <1>7, <1>8 DEF AllServed, Kept

-----------------------------------------------------------------------------
(* The invariant *)

UpTo(i) == {m \in Market : m[1] = i /\ m[2] <= published[i]}

\* No request made now answers with m.
Past(m) == m[2] < epoch \div Length[m[1]] - 1

Flights  == [left : 1 .. Len(Intervals), prev : SUBSET Market, since : Nat, answer : SUBSET Market]
Browsers == [at : {"none", "asks", "up", "lost", "gone", "dead"}, interval : Tags, answer : SUBSET Market]

Typed ==
  /\ epoch \in Nat /\ published \in [Tags -> Nat]
  /\ listed \in [Tags -> SUBSET Market]
  /\ refresh \in [Refreshers -> Flights \cup {Idle}]
  /\ browser \in [Clients -> Browsers]
  /\ ws \in [at : {"reads", "finds", "connects", "open"}, tokens : SUBSET Market]
  /\ Hub \in Hubs

\* Nothing is listed, or on its way to a list, that Polymarket has not published.
Published ==
  /\ \A i \in Tags : listed[i] \subseteq UpTo(i)
  /\ \A r \in Refreshers : refresh[r] # Idle => refresh[r].answer \subseteq UpTo(Intervals[refresh[r].left])
  /\ \A c \in Clients : Asking(c) => browser[c].answer \subseteq UpTo(browser[c].interval)

\* The handler of a browser remembers the interval that the hub has it in.
Remembered ==
  \A c \in Clients : /\ browser[c].at = "none" => clients[c] = NoSub
                     /\ browser[c].at \in {"asks", "up"} => clients[c].interval = browser[c].interval

\* An answer on its way takes from its list only markets that no later answer brings back, and
\* brings back none that is selected.
Settling ==
  /\ ~Overlap
  /\ \A r \in Refreshers :
       refresh[r] # Idle => \A m \in listed[Intervals[refresh[r].left]] \ refresh[r].answer : Past(m)
  /\ \A c \in Clients : Asking(c) => listed[browser[c].interval] = {}
  /\ \A m \in ActiveMarketIds \ AllListed :
       /\ Past(m)
       /\ \A r \in Refreshers : refresh[r] # Idle => m \notin refresh[r].answer
       /\ \A c \in Clients : Asking(c) => m \notin browser[c].answer

Subscribed ==
  ws.at \in {"connects", "open"} /\ ~event => ActiveMarketIds \cap AllListed \subseteq ws.tokens

HubInv == Typed /\ Remembered /\ HubServes
Inv    == HubInv /\ Published /\ (overlapped \/ (Settling /\ Subscribed))

LEMMA TagOf ==
  ASSUME NEW k \in 1 .. Len(Intervals)
  PROVE  Intervals[k] \in Tags
BY MarketSubscriptionAssumption DEF Tags

LEMMA FirstTag == 1 \in 1 .. Len(Intervals) /\ Len(Intervals) \in Nat /\ Intervals[1] \in Tags
<1>1. Len(Intervals) \in Nat /\ Len(Intervals) # 0
  BY MarketSubscriptionAssumption
<1> QED  BY <1>1, TagOf

LEMMA MarketParts ==
  ASSUME NEW m \in Market
  PROVE  /\ m[1] \in Tags /\ m[2] \in Nat /\ Length[m[1]] \in Nat \ {0}
<1>1. MaxEpoch \in Nat
  BY MarketSubscriptionAssumption
<1>2. m[1] \in Tags /\ m[2] \in 0 .. MaxEpoch + 1
  BY DEF Market
<1> QED  BY <1>1, <1>2, MarketSubscriptionAssumption

\* Windows only move forward.
LEMMA WindowGrows ==
  ASSUME NEW n \in Nat \ {0}, NEW e \in Nat
  PROVE  e \div n \in Int /\ (e + 1) \div n \in Int /\ e \div n <= (e + 1) \div n
OBVIOUS

LEMMA FetchedParts ==
  ASSUME NEW i \in Tags
  PROVE  Fetched(i) \subseteq Market /\ Fetched(i) \subseteq UpTo(i)
BY DEF Fetched, UpTo

LEMMA PastIsNotFetched ==
  ASSUME NEW i \in Tags, NEW m \in Market, epoch \in Nat, Past(m)
  PROVE  m \notin Fetched(i)
<1>1. m[1] \in Tags /\ m[2] \in Nat /\ Length[m[1]] \in Nat \ {0}
  BY MarketParts
<1>2. epoch \div Length[m[1]] \in Int
  BY <1>1
<1> QED  BY <1>1, <1>2 DEF Past, Fetched

LEMMA LeftOutIsPast ==
  ASSUME NEW i \in Tags, NEW m \in UpTo(i), epoch \in Nat, m \notin Fetched(i)
  PROVE  Past(m)
<1>1. m \in Market /\ m[1] = i
  BY DEF UpTo
<1>2. m[1] \in Tags /\ m[2] \in Nat /\ Length[m[1]] \in Nat \ {0}
  BY <1>1, MarketParts
<1>3. epoch \div Length[m[1]] \in Int
  BY <1>2
<1> QED  BY <1>1, <1>2, <1>3 DEF Past, Fetched, UpTo

LEMMA ListedParts ==
  ASSUME Typed, Published, NEW m \in Market
  PROVE  m \in AllListed <=> m \in listed[m[1]]
<1>1. m[1] \in Tags
  BY MarketParts
<1>2. \A i \in Tags : m \in listed[i] => m[1] = i
  BY DEF Published, UpTo
<1> QED  BY <1>1, <1>2 DEF AllListed

LEMMA IdleParts == Idle.left = 0 /\ \A f \in Flights : f # Idle /\ f.left \in 1 .. Len(Intervals)
BY FirstTag DEF Idle, Flights

LEMMA BegunParts == Typed => Begun \in Flights /\ Begun # Idle
<1> SUFFICES ASSUME Typed PROVE Begun \in Flights
  BY IdleParts
<1>1. Wanted \in SUBSET Market
  BY DEF Wanted, CurrentMarkets, AllListed, ActiveMarketIds, Typed
<1> QED  BY <1>1, FirstTag, FetchedParts DEF Begun, Flights, Typed

-----------------------------------------------------------------------------
(* What each step makes of the hub *)

LEMMA HubIs ==
  /\ Hub.clients = clients /\ Hub.byInterval = intervalClients /\ Hub.byMarket = marketClients
  /\ ActiveMarketIds = Watched(Hub)
BY DEF Hub, ActiveMarketIds, Watched

LEMMA HubServesEach == HubServes <=> \A c \in Clients : Serves(Hub, c)
BY HubIs DEF HubServes, Serves

LEMMA Becomes ==
  ASSUME NEW h \in Hubs, \A c \in Clients : Serves(h, c), HubBecomes(h)
  PROVE  Hub' = h /\ HubServes' /\ ActiveMarketIds' = Watched(h)
<1>1. /\ clients' = h.clients /\ intervalClients' = h.byInterval /\ marketClients' = h.byMarket
  BY DEF HubBecomes
<1>2. h = [clients |-> h.clients, byInterval |-> h.byInterval, byMarket |-> h.byMarket]
  BY DEF Hubs
<1>3. Hub' = h
  BY <1>1, <1>2 DEF Hub
<1>4. HubServes'
  BY <1>1 DEF HubServes, Serves
<1>5. ActiveMarketIds' = Watched(h)
  BY <1>1 DEF ActiveMarketIds, Watched
<1> QED  BY <1>3, <1>4, <1>5

LEMMA SameHub ==
  ASSUME HubInv, UNCHANGED hub
  PROVE  Hub' \in Hubs /\ HubServes' /\ ActiveMarketIds' = ActiveMarketIds /\ clients' = clients
BY DEF hub, Hub, HubInv, Typed, HubServes, ActiveMarketIds

\* The others at the hub are left alone, and one browser is served.
LEMMA OneServed ==
  ASSUME NEW g \in Hubs, NEW h \in Hubs, NEW c \in Clients, Serves(g, c),
         \A d \in Clients : Serves(h, d), \A d \in Clients \ {c} : SameOf(g, h, d)
  PROVE  \A d \in Clients : Serves(g, d)
BY SameServes

LEMMA ConnectsHub ==
  ASSUME HubInv, NEW c \in Clients, NEW i \in Tags, Connects(c, i)
  PROVE  /\ Hub' \in Hubs /\ HubServes' /\ ActiveMarketIds' = ActiveMarketIds
         /\ clients'[c].interval = i /\ \A d \in Clients \ {c} : clients'[d] = clients[d]
<1>g. PICK g : g = connect(Hub, c, i)
  OBVIOUS
<1>1. Hub \in Hubs /\ \A d \in Clients : Serves(Hub, d)
  BY HubServesEach DEF HubInv, Typed
<1>2. clients[c] = NoSub
  BY DEF Connects, HubInv, Remembered
<1>3. Outside(Hub, c)
  BY <1>1, <1>2, HubIs, NoneIsNoTag DEF Serves, Outside, NoSub
<1>4. /\ g \in Hubs /\ Serves(g, c) /\ g.clients[c].interval = i
      /\ \A d \in Clients \ {c} : SameOf(g, Hub, d)
      /\ Watched(g) = Watched(Hub)
  BY <1>g, <1>1, <1>3, ConnectedFresh
<1>5. HubBecomes(g)
  BY <1>g DEF Connects
<1>6. \A d \in Clients : Serves(g, d)
  BY <1>1, <1>4, OneServed
<1>7. Hub' = g /\ HubServes' /\ ActiveMarketIds' = Watched(g) /\ clients' = g.clients
  BY <1>4, <1>5, <1>6, Becomes DEF HubBecomes
<1> QED  BY <1>4, <1>7, HubIs DEF SameOf

LEMMA SelectsMarketHub ==
  ASSUME HubInv, NEW c \in Clients, NEW m \in Market, SelectsMarket(c, m)
  PROVE  /\ Hub' \in Hubs /\ HubServes' /\ ActiveMarketIds' \subseteq ActiveMarketIds \cup {m}
         /\ clients'[c].interval = m[1] /\ \A d \in Clients \ {c} : clients'[d] = clients[d]
         /\ event' = (event \/ ActiveMarketIds' # ActiveMarketIds)
<1>g. PICK g : g = replace_market_subscription(Hub, c, m)
  OBVIOUS
<1>1. Hub \in Hubs /\ \A d \in Clients : Serves(Hub, d)
  BY HubServesEach DEF HubInv, Typed
<1>4. /\ g \in Hubs /\ Serves(g, c) /\ g.clients[c].interval = m[1]
      /\ \A d \in Clients \ {c} : SameOf(g, Hub, d)
      /\ Watched(g) \subseteq Watched(Hub) \cup {m}
  BY <1>g, <1>1, SelectedMarket
<1>5. HubBecomes(g) /\ Notifies(g)
  BY <1>g DEF SelectsMarket
<1>6. \A d \in Clients : Serves(g, d)
  BY <1>1, <1>4, OneServed
<1>7. Hub' = g /\ HubServes' /\ ActiveMarketIds' = Watched(g) /\ clients' = g.clients
  BY <1>4, <1>5, <1>6, Becomes DEF HubBecomes
<1>8. event' = (event \/ ActiveMarketIds' # ActiveMarketIds)
  BY <1>5, <1>7 DEF Notifies, Watched
<1> QED  BY <1>4, <1>7, <1>8, HubIs DEF SameOf

LEMMA SelectsIntervalHub ==
  ASSUME HubInv, NEW c \in Clients, NEW i \in Tags, SelectsInterval(c, i)
  PROVE  /\ Hub' \in Hubs /\ HubServes' /\ ActiveMarketIds' \subseteq ActiveMarketIds
         /\ clients'[c].interval = i /\ \A d \in Clients \ {c} : clients'[d] = clients[d]
<1>g. PICK g : g = replace_interval_subscription(Hub, c, browser[c].interval, i)
  OBVIOUS
<1>1. Hub \in Hubs /\ \A d \in Clients : Serves(Hub, d)
  BY HubServesEach DEF HubInv, Typed
<1>2. PICK k \in Tags : k = browser[c].interval /\ Hub.clients[c].interval = k
  BY HubIs DEF SelectsInterval, HubInv, Remembered, Typed, Browsers
<1>3. g = replace_interval_subscription(Hub, c, k, i)
  BY <1>g, <1>2
<1>4. /\ g \in Hubs /\ Serves(g, c) /\ g.clients[c].interval = i
      /\ \A d \in Clients \ {c} : SameOf(g, Hub, d)
      /\ Watched(g) \subseteq Watched(Hub)
  BY <1>1, <1>2, <1>3, SelectedInterval
<1>5. HubBecomes(g)
  BY <1>g DEF SelectsInterval
<1>6. \A d \in Clients : Serves(g, d)
  BY <1>1, <1>4, OneServed
<1>7. Hub' = g /\ HubServes' /\ ActiveMarketIds' = Watched(g) /\ clients' = g.clients
  BY <1>4, <1>5, <1>6, Becomes DEF HubBecomes
<1> QED  BY <1>4, <1>7, HubIs DEF SameOf

LEMMA LeavesHub ==
  ASSUME HubInv, NEW c \in Clients, Leaves(c)
  PROVE  /\ Hub' \in Hubs /\ HubServes' /\ ActiveMarketIds' \subseteq ActiveMarketIds
         /\ \A d \in Clients \ {c} : clients'[d] = clients[d]
<1>g. PICK g : g = disconnect(Hub, c)
  OBVIOUS
<1>1. Hub \in Hubs /\ \A d \in Clients : Serves(Hub, d)
  BY HubServesEach DEF HubInv, Typed
<1>4. /\ g \in Hubs /\ Serves(g, c)
      /\ \A d \in Clients \ {c} : SameOf(g, Hub, d)
      /\ Watched(g) \subseteq Watched(Hub)
  BY <1>g, <1>1, Disconnected
<1>5. HubBecomes(g)
  BY <1>g DEF Leaves
<1>6. \A d \in Clients : Serves(g, d)
  BY <1>1, <1>4, OneServed
<1>7. Hub' = g /\ HubServes' /\ ActiveMarketIds' = Watched(g) /\ clients' = g.clients
  BY <1>4, <1>5, <1>6, Becomes DEF HubBecomes
<1> QED  BY <1>4, <1>7, HubIs DEF SameOf

LEMMA SendHub ==
  ASSUME HubInv, NEW receivers \in SUBSET Clients, NEW failing \in MayFail,
         HubBecomes(Sent(Hub, receivers, failing))
  PROVE  /\ Hub' \in Hubs /\ HubServes' /\ ActiveMarketIds' \subseteq ActiveMarketIds
         /\ \A c \in Clients : browser[c].at \notin {"lost", "dead"} => clients'[c] = clients[c]
<1>g. PICK g : g = Sent(Hub, receivers, failing)
  OBVIOUS
<1>1. Hub \in Hubs /\ AllServed(Hub)
  BY HubServesEach DEF HubInv, Typed, AllServed
<1>2. failing \in SUBSET Clients /\ \A c \in failing : browser[c].at \in {"lost", "dead"}
  BY DEF MayFail
<1>4. /\ g \in Hubs /\ AllServed(g)
      /\ Kept(g, Hub, failing)
      /\ Watched(g) \subseteq Watched(Hub)
  BY <1>g, <1>1, <1>2, AfterSend
<1>5. HubBecomes(g)
  BY <1>g
<1>7. Hub' = g /\ HubServes' /\ ActiveMarketIds' = Watched(g) /\ clients' = g.clients
  BY <1>4, <1>5, Becomes DEF HubBecomes, AllServed
<1> QED  BY <1>2, <1>4, <1>7, HubIs DEF Kept

-----------------------------------------------------------------------------
(* The hub serves its browsers *)

\* What an answer changes, in words that need no LET.
LEMMA AnswerParts ==
  ASSUME HubInv, NEW r \in Refreshers, RefreshAnswers(r)
  PROVE  \E i \in Tags :
           /\ refresh[r] \in Flights /\ refresh[r] # Idle /\ i = Intervals[refresh[r].left]
           /\ listed' = [listed EXCEPT ![i] = refresh[r].answer]
           /\ Hub' \in Hubs /\ HubServes' /\ ActiveMarketIds' \subseteq ActiveMarketIds
           /\ \A c \in Clients : browser[c].at \notin {"lost", "dead"} => clients'[c] = clients[c]
           /\ \E f \in Flights \cup {Idle} :
                /\ refresh' = [refresh EXCEPT ![r] = f]
                /\ f # Idle => /\ f.answer = Fetched(Intervals[f.left])
                               /\ ws' = ws
           /\ event => event'
           /\ ws' = ws \/ ws'.at = "reads"
           /\ UNCHANGED <<epoch, published, browser>>
<1>1. refresh[r] \in Flights /\ refresh[r] # Idle /\ refresh[r].left \in 1 .. Len(Intervals)
  BY IdleParts DEF RefreshAnswers, HubInv, Typed
<1>2. PICK i \in Tags : i = Intervals[refresh[r].left]
  BY <1>1, TagOf
<1>3. listed' = [listed EXCEPT ![i] = refresh[r].answer] /\ UNCHANGED <<epoch, published, browser>>
  BY <1>2 DEF RefreshAnswers
<1>4. PICK failing \in MayFail : HubBecomes(Sent(Hub, intervalClients[i], failing))
  BY <1>2 DEF RefreshAnswers
<1>5. intervalClients[i] \in SUBSET Clients
  BY HubIs, HubParts DEF HubInv, Typed
<1>6. /\ Hub' \in Hubs /\ HubServes' /\ ActiveMarketIds' \subseteq ActiveMarketIds
      /\ \A c \in Clients : browser[c].at \notin {"lost", "dead"} => clients'[c] = clients[c]
  BY <1>4, <1>5, SendHub
<1>7. \E f \in Flights \cup {Idle} : /\ refresh' = [refresh EXCEPT ![r] = f]
                                     /\ f # Idle => f.answer = Fetched(Intervals[f.left]) /\ ws' = ws
  <2>1. CASE refresh[r].left = Len(Intervals)
    BY <2>1 DEF RefreshAnswers
  <2>2. CASE refresh[r].left # Len(Intervals)
    <3>1. refresh' = [refresh EXCEPT ![r] = [refresh[r] EXCEPT !.left = @ + 1,
                                               !.answer = Fetched(Intervals[refresh[r].left + 1])]]
      <4>1. refresh' = [refresh EXCEPT ![r] = IF refresh[r].left = Len(Intervals) THEN Idle
                          ELSE [refresh[r] EXCEPT !.left = @ + 1,
                                                  !.answer = Fetched(Intervals[refresh[r].left + 1])]]
        BY DEF RefreshAnswers
      <4> QED  BY <2>2, <4>1
    <3>2. PICK f : f = [refresh[r] EXCEPT !.left = @ + 1, !.answer = Fetched(Intervals[refresh[r].left + 1])]
      OBVIOUS
    <3>3. refresh[r].left + 1 \in 1 .. Len(Intervals)
      BY <1>1, <2>2, FirstTag
    <3>4. Fetched(Intervals[refresh[r].left + 1]) \in SUBSET Market
      BY <3>3, TagOf, FetchedParts
    <3>5. f \in Flights /\ f.answer = Fetched(Intervals[f.left])
      BY <1>1, <3>2, <3>3, <3>4 DEF Flights
    <3>6. ws' = ws
      BY <2>2 DEF RefreshAnswers
    <3> QED  BY <3>1, <3>2, <3>5, <3>6
  <2> QED  BY <2>1, <2>2
<1>8. (event => event') /\ (ws' = ws \/ ws'.at = "reads")
  <2>1. event => event'
    BY DEF RefreshAnswers
  <2>2. ws' = ws \/ ws' = [ws EXCEPT !.at = "reads"]
    BY DEF RefreshAnswers
  <2> QED  BY <2>1, <2>2 DEF HubInv, Typed
<1> QED  BY <1>1, <1>2, <1>3, <1>6, <1>7, <1>8

LEMMA InitHubInv == Init => HubInv
<1> SUFFICES ASSUME Init PROVE HubInv
  OBVIOUS
<1>1. /\ NoSub \in Subs /\ NoSub.interval = "none" /\ NoSub.market = NoMarket
  BY DEF Subs, NoSub
<1>2. Hub \in Hubs
  BY <1>1 DEF Init, Hub, Hubs
<1>3. HubServes /\ Remembered
  BY <1>1, NoneIsNoTag DEF Init, HubServes, Remembered
<1>4. \A i \in Tags : <<i, 0>> \in Market
  BY MarketSubscriptionAssumption DEF Market
<1>5. Typed
  BY <1>2, <1>4, FirstTag DEF Init, Typed, Browsers, Flights
<1> QED  BY <1>3, <1>5 DEF HubInv

\* A step of one browser: what it makes of the records that say where the browsers are.
LEMMA BrowserStep ==
  ASSUME HubInv, NEW c \in Clients, NEW b \in Browsers, browser' = [browser EXCEPT ![c] = b],
         \A d \in Clients \ {c} : clients'[d] = clients[d],
         b.at # "none", b.at \in {"asks", "up"} => clients'[c].interval = b.interval
  PROVE  browser' \in [Clients -> Browsers] /\ Remembered'
BY DEF HubInv, Typed, Remembered

LEMMA NextHubInv == HubInv /\ [Next]_vars => HubInv'
<1> SUFFICES ASSUME HubInv, [Next]_vars PROVE HubInv'
  OBVIOUS
<1> USE DEF unmoved
<1>1. ASSUME NEW c \in Clients, Ensures(c) PROVE HubInv'
  <2>1. Hub' \in Hubs /\ HubServes' /\ clients' = clients
    BY <1>1, SameHub DEF Ensures
  <2>2. browser[c] \in Browsers
    BY DEF HubInv, Typed
  <2>3. PICK b : b = [browser[c] EXCEPT !.at = "up", !.answer = {}]
    OBVIOUS
  <2>4. b \in Browsers /\ b.at = "up" /\ b.interval = browser[c].interval
    BY <2>2, <2>3 DEF Browsers
  <2>5. browser' = [browser EXCEPT ![c] = b]
    BY <1>1, <2>3 DEF Ensures, HubInv, Typed
  <2>6. browser' \in [Clients -> Browsers] /\ Remembered'
    BY <1>1, <2>1, <2>4, <2>5, BrowserStep DEF Ensures, HubInv, Remembered
  <2>7. listed' \in [Tags -> SUBSET Market]
    BY <1>1, <2>2 DEF Ensures, HubInv, Typed, Browsers
  <2> QED  BY <1>1, <2>1, <2>6, <2>7 DEF Ensures, HubInv, Typed
<1>2. ASSUME NEW c \in Clients, Goes(c) \/ Crashes(c) PROVE HubInv'
  <2>1. Hub' \in Hubs /\ HubServes' /\ clients' = clients
    BY <1>2, SameHub DEF Goes, Crashes
  <2>2. browser[c] \in Browsers
    BY DEF HubInv, Typed
  <2>3. PICK a \in {"lost", "dead"} : browser' = [browser EXCEPT ![c].at = a]
    BY <1>2 DEF Goes, Crashes
  <2>4. PICK b : b = [browser[c] EXCEPT !.at = a]
    OBVIOUS
  <2>5. b \in Browsers /\ b.at = a
    BY <2>2, <2>4 DEF Browsers
  <2>6. browser' = [browser EXCEPT ![c] = b]
    BY <2>3, <2>4 DEF HubInv, Typed
  <2>7. browser' \in [Clients -> Browsers] /\ Remembered'
    BY <2>1, <2>5, <2>6, BrowserStep
  <2> QED  BY <1>2, <2>1, <2>7 DEF Goes, Crashes, HubInv, Typed
<1>3. ASSUME NEW c \in Clients, Leaves(c) PROVE HubInv'
  <2>1. Hub' \in Hubs /\ HubServes' /\ \A d \in Clients \ {c} : clients'[d] = clients[d]
    BY <1>3, LeavesHub
  <2>2. browser[c] \in Browsers
    BY DEF HubInv, Typed
  <2>4. PICK b : b = [browser[c] EXCEPT !.at = "gone"]
    OBVIOUS
  <2>5. b \in Browsers /\ b.at = "gone"
    BY <2>2, <2>4 DEF Browsers
  <2>6. browser' = [browser EXCEPT ![c] = b]
    BY <1>3, <2>4 DEF Leaves, HubInv, Typed
  <2>7. browser' \in [Clients -> Browsers] /\ Remembered'
    BY <2>1, <2>5, <2>6, BrowserStep
  <2> QED  BY <1>3, <2>1, <2>7 DEF Leaves, HubInv, Typed
<1>4. ASSUME NEW c \in Clients, NEW i \in Tags, Connects(c, i) \/ SelectsInterval(c, i) PROVE HubInv'
  <2>1. /\ Hub' \in Hubs /\ HubServes' /\ clients'[c].interval = i
        /\ \A d \in Clients \ {c} : clients'[d] = clients[d]
    BY <1>4, ConnectsHub, SelectsIntervalHub
  <2>2. PICK b : b = [at |-> IF listed[i] = {} THEN "asks" ELSE "up",
                      interval |-> i, answer |-> IF listed[i] = {} THEN Fetched(i) ELSE {}]
    OBVIOUS
  <2>3. b \in Browsers /\ b.at # "none" /\ b.interval = i
    BY <2>2, FetchedParts DEF Browsers
  <2>4. browser' = [browser EXCEPT ![c] = b]
    BY <1>4, <2>2 DEF Connects, SelectsInterval
  <2>5. browser' \in [Clients -> Browsers] /\ Remembered'
    BY <2>1, <2>3, <2>4, BrowserStep
  <2> QED  BY <1>4, <2>1, <2>5 DEF Connects, SelectsInterval, HubInv, Typed
<1>5. ASSUME NEW c \in Clients, NEW m \in Market, SelectsMarket(c, m) PROVE HubInv'
  <2>1. /\ Hub' \in Hubs /\ HubServes' /\ clients'[c].interval = m[1]
        /\ \A d \in Clients \ {c} : clients'[d] = clients[d]
    BY <1>5, SelectsMarketHub
  <2>2. browser[c] \in Browsers /\ m[1] \in Tags
    BY MarketParts DEF HubInv, Typed
  <2>3. PICK b : b = [browser[c] EXCEPT !.interval = m[1]]
    OBVIOUS
  <2>4. b \in Browsers /\ b.at = "up" /\ b.interval = m[1]
    BY <1>5, <2>2, <2>3 DEF Browsers, SelectsMarket
  <2>5. browser' = [browser EXCEPT ![c] = b]
    BY <1>5, <2>3 DEF SelectsMarket, HubInv, Typed
  <2>6. browser' \in [Clients -> Browsers] /\ Remembered'
    BY <2>1, <2>4, <2>5, BrowserStep
  <2> QED  BY <1>5, <2>1, <2>6 DEF SelectsMarket, HubInv, Typed
<1>6. ASSUME NEW m \in Market, BroadcastsMarket(m) PROVE HubInv'
  <2>1. PICK failing \in MayFail : HubBecomes(Sent(Hub, marketClients[m], failing))
    BY <1>6 DEF BroadcastsMarket
  <2>2. marketClients[m] \in SUBSET Clients
    BY HubIs, HubParts DEF HubInv, Typed
  <2>3. /\ Hub' \in Hubs /\ HubServes'
        /\ \A c \in Clients : browser[c].at \notin {"lost", "dead"} => clients'[c] = clients[c]
    BY <2>1, <2>2, SendHub
  <2> QED  BY <1>6, <2>3 DEF BroadcastsMarket, HubInv, Typed, Remembered
<1>7. ASSUME NEW r \in Refreshers, RefreshAnswers(r) PROVE HubInv'
  <2>1. PICK i \in Tags, f \in Flights \cup {Idle} :
          /\ refresh[r] \in Flights /\ listed' = [listed EXCEPT ![i] = refresh[r].answer]
          /\ Hub' \in Hubs /\ HubServes'
          /\ \A c \in Clients : browser[c].at \notin {"lost", "dead"} => clients'[c] = clients[c]
          /\ refresh' = [refresh EXCEPT ![r] = f]
          /\ UNCHANGED <<epoch, published, browser>>
    BY <1>7, AnswerParts
  <2>2. refresh[r].answer \in SUBSET Market
    BY <2>1 DEF Flights
  <2>3. ws' = ws \/ ws' = [ws EXCEPT !.at = "reads"]
    BY <1>7 DEF RefreshAnswers
  <2> QED  BY <2>1, <2>2, <2>3 DEF HubInv, Typed, Remembered
<1>8. ASSUME CronBegins \/ (\E r \in Refreshers : RefreshFails(r)) \/ Reads \/ Opens \/ Reconnects \/ Breaks
             \/ EpochMoves \/ (\E i \in Tags : Publishes(i)) \/ UNCHANGED vars
      PROVE  HubInv'
  <2>1. UNCHANGED <<listed, hub, browser>>
    BY <1>8 DEF CronBegins, RefreshFails, Reads, Opens, Reconnects, Breaks, EpochMoves, Publishes, vars, steps
  <2>2. Hub' \in Hubs /\ HubServes' /\ clients' = clients
    BY <2>1, SameHub
  <2>3. Remembered'
    BY <2>1, <2>2 DEF HubInv, Remembered
  <2>4. refresh' \in [Refreshers -> Flights \cup {Idle}]
    BY <1>8, BegunParts DEF HubInv, Typed, Refreshers, CronBegins, RefreshFails, Reads, Opens, Reconnects,
                            Breaks, EpochMoves, Publishes, vars, steps
  <2>5. Wanted \in SUBSET Market
    BY DEF Wanted, CurrentMarkets, AllListed, ActiveMarketIds, HubInv, Typed
  <2>6. ws' \in [at : {"reads", "finds", "connects", "open"}, tokens : SUBSET Market]
    BY <1>8, <2>5 DEF HubInv, Typed, CronBegins, RefreshFails, Reads, Opens, Reconnects,
                      Breaks, EpochMoves, Publishes, vars, steps
  <2>7. epoch' \in Nat /\ published' \in [Tags -> Nat]
    BY <1>8 DEF HubInv, Typed, CronBegins, RefreshFails, Reads, Opens, Reconnects,
                Breaks, EpochMoves, Publishes, vars, steps
  <2> QED  BY <2>1, <2>2, <2>3, <2>4, <2>6, <2>7 DEF HubInv, Typed
<1> QED  BY <1>1, <1>2, <1>3, <1>4, <1>5, <1>6, <1>7, <1>8 DEF Next, Step

\* What the dictionaries of the hub say of a browser agrees, whatever connects, selects, breaks
\* or crashes (services/polymarket_ws_hub.py).
THEOREM HubServes_holds == Spec => []HubServes
<1>1. HubInv => HubServes
  BY DEF HubInv
<1> QED  BY <1>1, InitHubInv, NextHubInv, PTL DEF Spec

-----------------------------------------------------------------------------
(* The websocket has what is selected *)

\* A step that stores no answer: requests are made now or end, and only listed markets are selected.
Quiet ==
  /\ listed' = listed /\ epoch' \in {epoch, epoch + 1} /\ \A i \in Tags : published[i] <= published'[i]
  /\ \A r \in Refreshers : \/ refresh'[r] \in {refresh[r], Idle}
                           \/ refresh'[r] = Begun /\ UNCHANGED <<epoch, published>>
  /\ \A c \in Clients : browser'[c].at = "asks" =>
       \/ browser'[c] = browser[c]
       \/ \E i \in Tags : /\ browser'[c].interval = i /\ listed[i] = {} /\ browser'[c].answer = Fetched(i)
                          /\ UNCHANGED <<epoch, published>>
  /\ ActiveMarketIds' \subseteq ActiveMarketIds \cup AllListed

UpToNext(i) == {m \in Market : m[1] = i /\ m[2] <= published'[i]}

LEMMA UpToGrows ==
  ASSUME HubInv, HubInv', \A i \in Tags : published[i] <= published'[i], NEW i \in Tags
  PROVE  UpTo(i) \subseteq UpToNext(i)
<1> SUFFICES ASSUME NEW m \in UpTo(i) PROVE m \in UpToNext(i)
  OBVIOUS
<1>1. m \in Market /\ m[1] = i /\ m[2] <= published[i] /\ m[2] \in Nat
  BY MarketParts DEF UpTo
<1>2. published[i] \in Nat /\ published'[i] \in Nat /\ published[i] <= published'[i]
  BY DEF HubInv, Typed
<1>3. m[2] <= published'[i]
  BY <1>1, <1>2
<1> QED  BY <1>1, <1>3 DEF UpToNext

\* Published in the next state.
LEMMA PublishedNext ==
  ASSUME \A i \in Tags : listed'[i] \subseteq UpToNext(i),
         \A r \in Refreshers :
           refresh'[r] # Idle => refresh'[r].answer \subseteq UpToNext(Intervals[refresh'[r].left]),
         \A c \in Clients :
           browser'[c].at = "asks" => browser'[c].answer \subseteq UpToNext(browser'[c].interval)
  PROVE  Published'
BY DEF Published, UpTo, UpToNext, Asking

LEMMA PastStays ==
  ASSUME HubInv, epoch' \in {epoch, epoch + 1}, NEW m \in Market, Past(m)
  PROVE  Past(m)'
<1>1. m[2] \in Nat /\ Length[m[1]] \in Nat \ {0} /\ epoch \in Nat
  BY MarketParts DEF HubInv, Typed
<1>2. PICK n \in Nat \ {0} : n = Length[m[1]]
  BY <1>1
<1>3. epoch \div n \in Int /\ epoch' \div n \in Int /\ epoch \div n <= epoch' \div n
  <2>1. epoch \div n \in Int /\ (epoch + 1) \div n \in Int /\ epoch \div n <= (epoch + 1) \div n
    BY <1>1, WindowGrows
  <2> QED  BY <2>1
<1> QED  BY <1>1, <1>2, <1>3 DEF Past

LEMMA QuietPublished ==
  ASSUME HubInv, HubInv', Published, Quiet
  PROVE  Published'
<1>1. \A i \in Tags : UpTo(i) \subseteq UpToNext(i)
  BY UpToGrows DEF Quiet
<1>2. \A i \in Tags : listed'[i] \subseteq UpToNext(i)
  BY <1>1 DEF Quiet, Published
<1>3. ASSUME NEW r \in Refreshers, refresh'[r] # Idle
      PROVE  refresh'[r].answer \subseteq UpToNext(Intervals[refresh'[r].left])
  <2>1. refresh'[r] \in Flights
    BY <1>3 DEF HubInv, Typed
  <2>2. refresh'[r].left \in 1 .. Len(Intervals)
    BY <2>1 DEF Flights
  <2>3. PICK i \in Tags : i = Intervals[refresh'[r].left]
    BY <2>2, TagOf
  <2>4. CASE refresh'[r] = refresh[r]
    <3>1. refresh[r].answer \subseteq UpTo(i)
      BY <1>3, <2>3, <2>4 DEF Published
    <3> QED  BY <1>1, <2>3, <2>4, <3>1
  <2>5. CASE refresh'[r] = Begun
    <3>1. refresh'[r].answer = Fetched(i)
      BY <2>3, <2>5 DEF Begun
    <3> QED  BY <1>1, <2>3, <3>1, FetchedParts
  <2> QED  BY <1>3, <2>4, <2>5 DEF Quiet
<1>4. ASSUME NEW c \in Clients, browser'[c].at = "asks"
      PROVE  browser'[c].answer \subseteq UpToNext(browser'[c].interval)
  <2>1. CASE browser'[c] = browser[c]
    <3>1. browser[c].interval \in Tags /\ browser[c].answer \subseteq UpTo(browser[c].interval)
      BY <1>4, <2>1 DEF Published, Asking, HubInv, Typed, Browsers
    <3> QED  BY <1>1, <2>1, <3>1
  <2>2. CASE browser'[c] # browser[c]
    <3>1. PICK i \in Tags : browser'[c].interval = i /\ browser'[c].answer = Fetched(i)
      BY <1>4, <2>2 DEF Quiet
    <3> QED  BY <1>1, <3>1, FetchedParts
  <2> QED  BY <2>1, <2>2
<1> QED  BY <1>2, <1>3, <1>4, PublishedNext

LEMMA QuietSettling ==
  ASSUME HubInv, HubInv', Published, Settling, Quiet, ~Overlap'
  PROVE  Settling'
<1>0. epoch \in Nat /\ AllListed' = AllListed
  BY DEF HubInv, Typed, AllListed, Quiet
<1>1. \A m \in Market : Past(m) => Past(m)'
  BY PastStays DEF Quiet
<1>2. ASSUME NEW r \in Refreshers, refresh'[r] # Idle,
             NEW m \in listed'[Intervals[refresh'[r].left]] \ refresh'[r].answer
      PROVE  Past(m)'
  <2>1. refresh'[r] \in Flights
    BY <1>2 DEF HubInv, Typed
  <2>2. refresh'[r].left \in 1 .. Len(Intervals)
    BY <2>1 DEF Flights
  <2>3. PICK i \in Tags : i = Intervals[refresh'[r].left]
    BY <2>2, TagOf
  <2>4. m \in listed[i] /\ m \in Market /\ m \in UpTo(i)
    BY <1>2, <2>3 DEF Quiet, HubInv, Typed, Published
  <2>5. CASE refresh'[r] = refresh[r]
    <3>1. Past(m)
      BY <1>2, <2>5 DEF Settling, Quiet
    <3> QED  BY <1>1, <2>4, <3>1
  <2>6. CASE refresh'[r] = Begun
    <3>1. refresh'[r].answer = Fetched(i)
      BY <2>3, <2>6 DEF Begun
    <3>2. Past(m)
      BY <1>0, <1>2, <2>4, <3>1, LeftOutIsPast
    <3> QED  BY <1>1, <2>4, <3>2
  <2> QED  BY <1>2, <2>5, <2>6 DEF Quiet
<1>3. ASSUME NEW c \in Clients, browser'[c].at = "asks"
      PROVE  listed'[browser'[c].interval] = {}
  <2>1. CASE browser'[c] = browser[c]
    BY <1>3, <2>1 DEF Settling, Asking, Quiet
  <2>2. CASE browser'[c] # browser[c]
    BY <1>3, <2>2 DEF Quiet
  <2> QED  BY <2>1, <2>2
<1>4. ASSUME NEW m \in ActiveMarketIds' \ AllListed'
      PROVE  /\ Past(m)'
             /\ \A r \in Refreshers : refresh'[r] # Idle => m \notin refresh'[r].answer
             /\ \A c \in Clients : browser'[c].at = "asks" => m \notin browser'[c].answer
  <2>1. m \in ActiveMarketIds \ AllListed /\ m \in Market
    BY <1>0, <1>4 DEF Quiet, ActiveMarketIds
  <2>2. /\ Past(m)
        /\ \A r \in Refreshers : refresh[r] # Idle => m \notin refresh[r].answer
        /\ \A c \in Clients : Asking(c) => m \notin browser[c].answer
    BY <2>1 DEF Settling
  <2>3. \A i \in Tags : m \notin Fetched(i)
    BY <1>0, <2>1, <2>2, PastIsNotFetched
  <2>4. m \notin Begun.answer
    BY <2>3, FirstTag DEF Begun
  <2>5. ASSUME NEW r \in Refreshers, refresh'[r] # Idle PROVE m \notin refresh'[r].answer
    BY <2>2, <2>4, <2>5 DEF Quiet
  <2>6. ASSUME NEW c \in Clients, browser'[c].at = "asks" PROVE m \notin browser'[c].answer
    <3>1. CASE browser'[c] = browser[c]
      BY <2>2, <2>6, <3>1 DEF Asking
    <3>2. CASE browser'[c] # browser[c]
      BY <2>3, <2>6, <3>2 DEF Quiet
    <3> QED  BY <3>1, <3>2
  <2> QED  BY <1>1, <2>1, <2>2, <2>5, <2>6
<1> QED  BY <1>2, <1>3, <1>4 DEF Settling, Asking

\* An answer replaces the list of an interval, and no other is on its way: what is selected and
\* listed afterwards was so before.
LEMMA Stored ==
  ASSUME HubInv, HubInv', Published, Settling, NEW i \in Tags, NEW answer \in SUBSET Market,
         listed' = [listed EXCEPT ![i] = answer], ActiveMarketIds' \subseteq ActiveMarketIds,
         \A m \in ActiveMarketIds \ AllListed : m \notin answer
  PROVE  ActiveMarketIds' \cap AllListed' \subseteq ActiveMarketIds \cap AllListed
<1>1. AllListed' \subseteq AllListed \cup answer
  BY DEF AllListed, HubInv, Typed
<1> QED  BY <1>1

LEMMA EnsuresStores ==
  ASSUME HubInv, HubInv', Published, NEW c \in Clients, Ensures(c), listed' # listed
  PROVE  Published' /\ (Settling /\ Subscribed /\ ~Overlap' => Settling' /\ Subscribed')
<1> USE DEF unmoved
<1>1. PICK i \in Tags : i = browser[c].interval
  BY DEF HubInv, Typed, Browsers
<1>2. /\ Asking(c) /\ listed' = [listed EXCEPT ![i] = browser[c].answer]
      /\ UNCHANGED <<epoch, published, refresh, ws, event, hub>>
  BY <1>1 DEF Ensures, Asking
<1>3. browser[c].answer \in SUBSET Market /\ browser[c].answer \subseteq UpTo(i)
  BY <1>1, <1>2 DEF HubInv, Typed, Browsers, Published, UpTo
<1>4. browser'[c].at = "up" /\ \A d \in Clients \ {c} : browser'[d] = browser[d]
  <2>1. browser' = [browser EXCEPT ![c].at = "up", ![c].answer = {}] /\ browser[c] \in Browsers
    BY DEF Ensures, HubInv, Typed
  <2> QED  BY <2>1 DEF HubInv, Typed, Browsers
<1>5. \A j \in Tags : UpTo(j) \subseteq UpToNext(j)
  BY <1>2 DEF UpTo, UpToNext
<1>6. Published'
  <2>1. \A j \in Tags : listed'[j] \subseteq UpToNext(j)
    BY <1>2, <1>3, <1>5 DEF Published, HubInv, Typed
  <2>2. ASSUME NEW r \in Refreshers, refresh'[r] # Idle
        PROVE  refresh'[r].answer \subseteq UpToNext(Intervals[refresh'[r].left])
    <3>1. refresh[r] \in Flights /\ refresh'[r] = refresh[r]
      BY <1>2, <2>2 DEF HubInv, Typed
    <3>2. Intervals[refresh[r].left] \in Tags
      BY <3>1, TagOf DEF Flights
    <3> QED  BY <1>5, <2>2, <3>1, <3>2 DEF Published
  <2>3. ASSUME NEW d \in Clients, browser'[d].at = "asks"
        PROVE  browser'[d].answer \subseteq UpToNext(browser'[d].interval)
    <3>1. browser'[d] = browser[d] /\ browser[d].interval \in Tags
      BY <1>4, <2>3 DEF HubInv, Typed, Browsers
    <3> QED  BY <1>5, <2>3, <3>1 DEF Published, Asking
  <2> QED  BY <2>1, <2>2, <2>3, PublishedNext
<1>7. ASSUME Settling, Subscribed, ~Overlap' PROVE Settling' /\ Subscribed'
  <2>1. /\ \A r \in Refreshers : refresh[r] = Idle
        /\ \A d \in Clients \ {c} : ~Asking(d)
    BY <1>2, <1>7 DEF Settling, Overlap, Refreshing
  <2>2. /\ \A r \in Refreshers : refresh'[r] = Idle
        /\ \A d \in Clients : browser'[d].at # "asks"
    BY <1>2, <1>4, <2>1 DEF Asking
  <2>3. ActiveMarketIds' = ActiveMarketIds
    BY <1>2 DEF ActiveMarketIds, hub
  <2>4. \A m \in ActiveMarketIds \ AllListed : m \notin browser[c].answer
    BY <1>2, <1>7 DEF Settling
  <2>5. ActiveMarketIds' \cap AllListed' \subseteq ActiveMarketIds \cap AllListed
    BY <1>2, <1>3, <1>7, <2>3, <2>4, Stored
  <2>6. Subscribed'
    BY <1>2, <1>7, <2>5 DEF Subscribed
  <2>7. ASSUME NEW m \in ActiveMarketIds' \ AllListed' PROVE Past(m)'
    <3>1. listed[i] = {}
      BY <1>1, <1>2, <1>7 DEF Settling
    <3>2. AllListed \subseteq AllListed'
      BY <1>2, <3>1 DEF AllListed, HubInv, Typed
    <3>3. Past(m)
      BY <1>7, <2>3, <2>7, <3>2 DEF Settling
    <3> QED  BY <1>2, <3>3 DEF Past
  <2> QED  BY <1>7, <2>2, <2>6, <2>7 DEF Settling, Asking
<1> QED  BY <1>6, <1>7

LEMMA AnswerStores ==
  ASSUME HubInv, HubInv', Published, NEW r \in Refreshers, RefreshAnswers(r)
  PROVE  Published' /\ (Settling /\ Subscribed /\ ~Overlap' => Settling' /\ Subscribed')
<1>1. PICK i \in Tags :
           /\ refresh[r] \in Flights /\ refresh[r] # Idle /\ i = Intervals[refresh[r].left]
           /\ listed' = [listed EXCEPT ![i] = refresh[r].answer]
           /\ Hub' \in Hubs /\ HubServes' /\ ActiveMarketIds' \subseteq ActiveMarketIds
           /\ \A c \in Clients : browser[c].at \notin {"lost", "dead"} => clients'[c] = clients[c]
           /\ \E f \in Flights \cup {Idle} :
                /\ refresh' = [refresh EXCEPT ![r] = f]
                /\ f # Idle => /\ f.answer = Fetched(Intervals[f.left])
                               /\ ws' = ws
           /\ event => event'
           /\ ws' = ws \/ ws'.at = "reads"
           /\ UNCHANGED <<epoch, published, browser>>
  BY AnswerParts
<1>2. PICK f \in Flights \cup {Idle} : /\ refresh' = [refresh EXCEPT ![r] = f]
                                       /\ f # Idle => f.answer = Fetched(Intervals[f.left])
  BY <1>1
<1>3. refresh[r].answer \in SUBSET Market /\ refresh[r].answer \subseteq UpTo(i)
  BY <1>1 DEF Published, UpTo
<1>4. refresh'[r] = f /\ \A q \in Refreshers \ {r} : refresh'[q] = refresh[q]
  BY <1>2 DEF HubInv, Typed
<1>5. \A j \in Tags : UpTo(j) \subseteq UpToNext(j)
  BY <1>1 DEF UpTo, UpToNext
<1>6. f # Idle => Intervals[f.left] \in Tags
  BY TagOf DEF Flights
<1>7. \A j \in Tags : listed'[j] \subseteq UpTo(j)
  BY <1>1, <1>3 DEF Published, HubInv, Typed
<1>8. Published'
  <2>2. ASSUME NEW q \in Refreshers, refresh'[q] # Idle
        PROVE  refresh'[q].answer \subseteq UpToNext(Intervals[refresh'[q].left])
    <3>1. CASE q = r
      <4>1. PICK j \in Tags : j = Intervals[f.left] /\ f.answer = Fetched(j)
        BY <1>2, <1>4, <1>6, <2>2, <3>1
      <4> QED  BY <1>4, <1>5, <3>1, <4>1, FetchedParts
    <3>2. CASE q # r
      <4>1. refresh[q] \in Flights /\ refresh'[q] = refresh[q]
        BY <1>4, <2>2, <3>2 DEF HubInv, Typed
      <4>2. Intervals[refresh[q].left] \in Tags
        BY <4>1, TagOf DEF Flights
      <4> QED  BY <1>5, <2>2, <4>1, <4>2 DEF Published
    <3> QED  BY <3>1, <3>2
  <2>3. ASSUME NEW d \in Clients, browser'[d].at = "asks"
        PROVE  browser'[d].answer \subseteq UpToNext(browser'[d].interval)
    <3>1. browser'[d] = browser[d] /\ browser[d].interval \in Tags
      BY <1>1 DEF HubInv, Typed, Browsers
    <3> QED  BY <1>5, <2>3, <3>1 DEF Published, Asking
  <2> QED  BY <1>5, <1>7, <2>2, <2>3, PublishedNext
<1>9. ASSUME Settling, Subscribed, ~Overlap' PROVE Settling' /\ Subscribed'
  <2>1. /\ \A q \in Refreshers \ {r} : refresh'[q] = Idle
        /\ \A d \in Clients : browser'[d].at # "asks"
    BY <1>1, <1>4, <1>9 DEF Settling, Overlap, Refreshing, Refreshers, Asking
  <2>2. \A m \in ActiveMarketIds \ AllListed : m \notin refresh[r].answer
    BY <1>1, <1>9 DEF Settling
  <2>3. ActiveMarketIds' \cap AllListed' \subseteq ActiveMarketIds \cap AllListed
    BY <1>1, <1>3, <1>9, <2>2, Stored
  <2>4. Subscribed'
    BY <1>1, <1>9, <2>3 DEF Subscribed
  <2>5. ASSUME NEW m \in ActiveMarketIds' \ AllListed' PROVE Past(m) /\ m \in Market
    <3>0. m \in Market /\ m \in ActiveMarketIds
      BY <1>1, <2>5 DEF ActiveMarketIds
    <3>1. CASE m \notin AllListed
      BY <1>9, <3>0, <3>1 DEF Settling
    <3>2. CASE m \in AllListed
      <4>1. PICK j \in Tags : m \in listed[j]
        BY <3>2 DEF AllListed
      <4>2. m \notin listed'[j]
        BY <2>5, <4>1 DEF AllListed
      <4>3. j = i /\ m \notin refresh[r].answer
        BY <1>1, <4>1, <4>2 DEF HubInv, Typed
      <4> QED  BY <1>1, <1>9, <3>0, <4>1, <4>3 DEF Settling
    <3> QED  BY <3>0, <3>1, <3>2
  <2>6. ASSUME f # Idle, NEW m \in listed'[Intervals[f.left]] \ f.answer PROVE Past(m)
    <3>1. PICK j \in Tags : j = Intervals[f.left] /\ f.answer = Fetched(j)
      BY <1>2, <1>6, <2>6
    <3>2. m \in UpTo(j)
      BY <1>7, <2>6, <3>1
    <3> QED  BY <2>6, <3>1, <3>2, LeftOutIsPast DEF HubInv, Typed
  <2>7. ASSUME f # Idle, NEW m \in ActiveMarketIds' \ AllListed' PROVE m \notin f.answer
    <3>1. PICK j \in Tags : j = Intervals[f.left] /\ f.answer = Fetched(j)
      BY <1>2, <1>6, <2>7
    <3> QED  BY <2>5, <2>7, <3>1, PastIsNotFetched DEF HubInv, Typed
  <2>8. \A m \in Market : Past(m)' <=> Past(m)
    BY <1>1 DEF Past
  <2>9. ASSUME NEW q \in Refreshers, refresh'[q] # Idle,
               NEW m \in listed'[Intervals[refresh'[q].left]] \ refresh'[q].answer
        PROVE  Past(m)'
    <3>1. q = r /\ refresh'[q] = f
      BY <1>4, <2>1, <2>9
    <3>2. Intervals[f.left] \in Tags
      BY <1>6, <2>9, <3>1
    <3>3. m \in Market
      BY <1>7, <2>9, <3>1, <3>2 DEF UpTo
    <3> QED  BY <2>6, <2>8, <2>9, <3>1, <3>3
  <2>10. ASSUME NEW m \in ActiveMarketIds' \ AllListed', NEW q \in Refreshers, refresh'[q] # Idle
         PROVE  m \notin refresh'[q].answer
    BY <1>4, <2>1, <2>7, <2>10
  <2> QED  BY <1>9, <2>1, <2>4, <2>5, <2>8, <2>9, <2>10 DEF Settling, Asking
<1> QED  BY <1>8, <1>9

LEMMA QuietSteps ==
  ASSUME HubInv, HubInv',
         [Step]_vars, \A r \in Refreshers : ~RefreshAnswers(r), \A c \in Clients : Ensures(c) => listed' = listed
  PROVE  Quiet /\ (Subscribed => Subscribed')
<1> USE DEF unmoved
<1>0. /\ epoch \in Nat /\ \A i \in Tags : published[i] \in Nat
      /\ UNCHANGED epoch => epoch' \in {epoch, epoch + 1}
      /\ UNCHANGED published => \A i \in Tags : published[i] <= published'[i]
  BY DEF HubInv, Typed
<1>1. ASSUME UNCHANGED <<epoch, published, refresh, listed, ws>>, event => event',
             ActiveMarketIds' \subseteq ActiveMarketIds,
             \A c \in Clients : browser'[c].at = "asks" => browser'[c] = browser[c]
      PROVE  Quiet /\ (Subscribed => Subscribed')
  <2>1. AllListed' = AllListed
    BY <1>1 DEF AllListed
  <2> QED  BY <1>0, <1>1, <2>1 DEF Quiet, Subscribed
<1>2. ASSUME NEW c \in Clients, Ensures(c) \/ Goes(c) \/ Crashes(c) PROVE Quiet /\ (Subscribed => Subscribed')
  <2>1. /\ UNCHANGED <<epoch, published, refresh, listed, ws, event, hub>>
        /\ \A d \in Clients : browser'[d].at = "asks" => browser'[d] = browser[d]
    BY <1>2 DEF Ensures, Goes, Crashes, HubInv, Typed, Browsers
  <2>2. ActiveMarketIds' = ActiveMarketIds
    BY <2>1, SameHub
  <2> QED  BY <1>1, <2>1, <2>2
<1>3. ASSUME NEW c \in Clients, Leaves(c) PROVE Quiet /\ (Subscribed => Subscribed')
  <2>1. /\ UNCHANGED <<epoch, published, refresh, listed, ws>>
        /\ \A d \in Clients : browser'[d].at = "asks" => browser'[d] = browser[d]
    BY <1>3 DEF Leaves, HubInv, Typed, Browsers
  <2>2. event => event'
    BY <1>3 DEF Leaves, Notifies
  <2> QED  BY <1>1, <1>3, <2>1, <2>2, LeavesHub
<1>4. ASSUME NEW c \in Clients, NEW i \in Tags, Connects(c, i) \/ SelectsInterval(c, i)
      PROVE  Quiet /\ (Subscribed => Subscribed')
  <2>1. /\ UNCHANGED <<epoch, published, refresh, listed, ws>>
        /\ browser' = [browser EXCEPT ![c] = [at |-> IF listed[i] = {} THEN "asks" ELSE "up",
                         interval |-> i, answer |-> IF listed[i] = {} THEN Fetched(i) ELSE {}]]
    BY <1>4 DEF Connects, SelectsInterval
  <2>2. \A d \in Clients : browser'[d].at = "asks" =>
          \/ browser'[d] = browser[d]
          \/ browser'[d].interval = i /\ listed[i] = {} /\ browser'[d].answer = Fetched(i)
    BY <2>1 DEF HubInv, Typed
  <2>3. (event => event') /\ ActiveMarketIds' \subseteq ActiveMarketIds
    <3>1. event => event'
      BY <1>4 DEF Connects, SelectsInterval, Notifies
    <3>2. ActiveMarketIds' \subseteq ActiveMarketIds
      BY <1>4, ConnectsHub, SelectsIntervalHub
    <3> QED  BY <3>1, <3>2
  <2>4. AllListed' = AllListed
    BY <2>1 DEF AllListed
  <2>5. Quiet
    BY <1>0, <2>1, <2>2, <2>3 DEF Quiet
  <2> QED  BY <2>1, <2>3, <2>4, <2>5 DEF Subscribed
<1>5. ASSUME NEW c \in Clients, NEW m \in Market, SelectsMarket(c, m)
      PROVE  Quiet /\ (Subscribed => Subscribed')
  <2>1. /\ UNCHANGED <<epoch, published, refresh, listed, ws>>
        /\ browser[c].at = "up" /\ browser' = [browser EXCEPT ![c].interval = m[1]]
    BY <1>5 DEF SelectsMarket
  <2>2. \A d \in Clients : browser'[d].at = "asks" => browser'[d] = browser[d]
    BY <2>1 DEF HubInv, Typed, Browsers
  <2>3. m \in AllListed
    BY <1>5, MarketParts DEF SelectsMarket, AllListed
  <2>4. /\ ActiveMarketIds' \subseteq ActiveMarketIds \cup {m}
        /\ event' = (event \/ ActiveMarketIds' # ActiveMarketIds)
    BY <1>5, SelectsMarketHub
  <2>5. AllListed' = AllListed
    BY <2>1 DEF AllListed
  <2>6. Quiet
    BY <1>0, <2>1, <2>2, <2>3, <2>4 DEF Quiet
  <2> QED  BY <2>1, <2>4, <2>5, <2>6 DEF Subscribed
<1>6. ASSUME NEW m \in Market, BroadcastsMarket(m) PROVE Quiet /\ (Subscribed => Subscribed')
  <2>1. UNCHANGED <<epoch, published, refresh, listed, ws, event, browser>>
    BY <1>6 DEF BroadcastsMarket
  <2>2. PICK failing \in MayFail : HubBecomes(Sent(Hub, marketClients[m], failing))
    BY <1>6 DEF BroadcastsMarket
  <2>3. marketClients[m] \in SUBSET Clients
    BY HubIs, HubParts DEF HubInv, Typed
  <2>4. ActiveMarketIds' \subseteq ActiveMarketIds
    BY <2>2, <2>3, SendHub
  <2> QED  BY <1>1, <2>1, <2>4
<1>7. ASSUME UNCHANGED <<listed, hub, browser>>
      PROVE  /\ AllListed' = AllListed /\ ActiveMarketIds' = ActiveMarketIds
             /\ \A c \in Clients : browser'[c] = browser[c]
  BY <1>7, SameHub DEF AllListed
<1>8. ASSUME CronBegins \/ Reads PROVE Quiet /\ (Subscribed => Subscribed')
  <2>1. UNCHANGED <<epoch, published, listed, event, hub, browser>>
    BY <1>8 DEF CronBegins, Reads
  <2>2. \A r \in Refreshers : refresh'[r] \in {refresh[r], Idle} \/ refresh'[r] = Begun
    BY <1>8 DEF CronBegins, Reads, HubInv, Typed, Refreshers
  <2>3. Quiet
    BY <1>0, <1>7, <2>1, <2>2 DEF Quiet
  <2>4. CASE CronBegins
    BY <1>7, <2>1, <2>3, <2>4 DEF CronBegins, Subscribed
  <2>5. CASE Reads
    <3>1. ws' = [at |-> "connects", tokens |-> Wanted] \/ ws' = [ws EXCEPT !.at = "finds"]
      BY <2>5 DEF Reads
    <3>2. CASE ws' = [at |-> "connects", tokens |-> Wanted]
      BY <1>7, <2>1, <2>3, <3>2 DEF Subscribed, Wanted
    <3>3. CASE ws' = [ws EXCEPT !.at = "finds"]
      BY <2>3, <3>3 DEF Subscribed, HubInv, Typed
    <3> QED  BY <3>1, <3>2, <3>3
  <2> QED  BY <1>8, <2>4, <2>5
<1>9. ASSUME (\E r \in Refreshers : RefreshFails(r)) \/ Opens \/ Reconnects \/ Breaks
      PROVE  Quiet /\ (Subscribed => Subscribed')
  <2>1. UNCHANGED <<epoch, published, listed, hub, browser>>
    BY <1>9 DEF RefreshFails, Opens, Reconnects, Breaks
  <2>2. \A r \in Refreshers : refresh'[r] \in {refresh[r], Idle}
    BY <1>9 DEF RefreshFails, Opens, Reconnects, Breaks, HubInv, Typed
  <2>3. Quiet
    BY <1>0, <1>7, <2>1, <2>2 DEF Quiet
  <2>4. \/ ws'.at = "reads"
        \/ event' = event /\ ws' = ws
        \/ event' = event /\ ws.at = "connects" /\ ws'.tokens = ws.tokens
    BY <1>9 DEF RefreshFails, Opens, Reconnects, Breaks, HubInv, Typed
  <2> QED  BY <1>7, <2>1, <2>3, <2>4 DEF Subscribed
<1>10. ASSUME EpochMoves \/ (\E i \in Tags : Publishes(i)) \/ UNCHANGED vars
       PROVE  Quiet /\ (Subscribed => Subscribed')
  <2>1. UNCHANGED <<refresh, listed, event, ws, hub, browser>>
    BY <1>10 DEF EpochMoves, Publishes, vars, steps
  <2>2. epoch' \in {epoch, epoch + 1} /\ \A i \in Tags : published[i] <= published'[i]
    BY <1>0, <1>10 DEF EpochMoves, Publishes, vars, steps, HubInv, Typed
  <2>3. Quiet
    BY <1>7, <2>1, <2>2 DEF Quiet
  <2> QED  BY <1>7, <2>1, <2>3 DEF Subscribed
<1> QED  BY <1>2, <1>3, <1>4, <1>5, <1>6, <1>8, <1>9, <1>10 DEF Step

LEMMA InitInv == Init => Inv
<1> SUFFICES ASSUME Init PROVE Inv
  OBVIOUS
<1>1. HubInv
  BY InitHubInv
<1>2. \A r \in Refreshers : refresh[r] = Idle
  BY DEF Init
<1>3. \A c \in Clients : ~Asking(c)
  BY DEF Init, Asking
<1>4. ActiveMarketIds = {}
  BY DEF Init, ActiveMarketIds
<1>5. Settling
  BY <1>2, <1>3, <1>4 DEF Settling, Overlap, Refreshers
<1>6. Subscribed
  BY DEF Init, Subscribed
<1>7. \A i \in Tags : listed[i] \subseteq UpTo(i)
  <2>1. MaxEpoch \in Nat
    BY MarketSubscriptionAssumption
  <2>2. \A i \in Tags : <<i, 0>> \in UpTo(i)
    BY <2>1 DEF Init, UpTo, Market
  <2> QED  BY <2>2 DEF Init
<1> QED  BY <1>1, <1>2, <1>3, <1>5, <1>6, <1>7 DEF Inv, Published

LEMMA NextInv == Inv /\ [Next]_vars => Inv'
<1> SUFFICES ASSUME Inv, [Next]_vars PROVE Inv'
  OBVIOUS
<1>1. HubInv /\ HubInv' /\ Published
  BY NextHubInv DEF Inv
<1>2. overlapped' \/ (~overlapped /\ Settling /\ Subscribed /\ ~Overlap')
  <2>1. CASE UNCHANGED vars
    <3>1. CASE overlapped
      BY <2>1, <3>1 DEF vars, steps
    <3>2. CASE ~overlapped
      <4>1. Settling /\ Subscribed
        BY <3>2 DEF Inv
      <4>2. ~Overlap'
        BY <2>1, <4>1 DEF Settling, Overlap, Refreshing, Asking, vars, steps
      <4> QED  BY <3>2, <4>1, <4>2
    <3> QED  BY <3>1, <3>2
  <2>2. CASE Next
    BY <2>2 DEF Next, Inv
  <2> QED  BY <2>1, <2>2
<1>3. [Step]_vars
  BY DEF Next
<1>4. ASSUME Quiet /\ (Subscribed => Subscribed') PROVE Inv'
  BY <1>1, <1>2, <1>4, QuietPublished, QuietSettling DEF Inv
<1>5. ASSUME Published' /\ (Settling /\ Subscribed /\ ~Overlap' => Settling' /\ Subscribed') PROVE Inv'
  BY <1>1, <1>2, <1>5 DEF Inv
<1>6. ASSUME NEW r \in Refreshers, RefreshAnswers(r) PROVE Inv'
  BY <1>1, <1>5, <1>6, AnswerStores
<1>7. ASSUME NEW c \in Clients, Ensures(c), listed' # listed PROVE Inv'
  BY <1>1, <1>5, <1>7, EnsuresStores
<1>8. CASE /\ \A r \in Refreshers : ~RefreshAnswers(r)
           /\ \A c \in Clients : Ensures(c) => listed' = listed
  BY <1>1, <1>3, <1>4, <1>8, QuietSteps
<1> QED  BY <1>6, <1>7, <1>8

\* Once nothing is under way, the websocket has every market that a browser has selected,
\* as long as no two requests for lists overlapped (polymarket_monitor.py:270).
THEOREM SelectedIsSubscribed_holds == Spec => []SelectedIsSubscribed
<1>1. Inv => SelectedIsSubscribed
  BY DEF Inv, SelectedIsSubscribed, Settled, Subscribed
<1> QED  BY <1>1, InitInv, NextInv, PTL DEF Spec

-----------------------------------------------------------------------------
(* The order book *)

Quotes   == [levels : Book!Levels, best : Prices \cup {0}] \cup {Book!Absent}
Known    == [kind : {"book"}, levels : Book!Levels]
Changed  == [kind : {"price_change"}, price : Prices, size : Sizes \cup {0}, best : Prices \cup {0}]
Messages == Known \cup Changed

Small(f) == Cardinality(DOMAIN f) <= Depth

BookTyped ==
  /\ book \in Book!Levels /\ up \in BOOLEAN /\ pending \in BOOLEAN
  /\ channel \in Seq(Messages)
  /\ quote \in Quotes /\ rest \in Quotes /\ shown \in Quotes /\ loop.quote \in Quotes
  /\ loop \in [at : {"sleeps", "prices", "dead"}, quote : Quotes]
  /\ \A q \in {quote, rest, shown, loop.quote} : Small(q.levels)

\* The levels f have at p what the book b has.
SameAt(f, b, p) == (p \in DOMAIN f <=> p \in DOMAIN b) /\ (p \in DOMAIN b => f[p] = b[p])

\* What a message says of p is so in the book b, if it speaks of p.
Speaks(m, p)  == m \in Known \/ m.price = p
Says(m, b, p) == IF m \in Known THEN SameAt(m.levels, b, p)
                 ELSE IF p \in DOMAIN b THEN m.size = b[p] ELSE m.size = 0

\* The last message about a price says what the book has.
LastIsTrue(ch, b) ==
  \A i \in DOMAIN ch, p \in Prices :
    Speaks(ch[i], p) => Says(ch[i], b, p) \/ \E j \in DOMAIN ch : i < j /\ Speaks(ch[j], p)

\* A level nobody speaks of any more is as in the book.
RestIsTrue(f, ch, b) ==
  \A p \in DOMAIN f : \/ p \in DOMAIN b /\ f[p] = b[p]
                      \/ \E j \in DOMAIN ch : Speaks(ch[j], p)

\* The last message has the best price, or else the quote.
BestIsTold(q, ch, b) ==
  IF ch = <<>> THEN q.best = Book!Best(b)
  ELSE LET m == ch[Len(ch)] IN IF m \in Known THEN m.levels = b ELSE m.best = Book!Best(b)

BookInv ==
  /\ BookTyped
  /\ up => /\ quote # Book!Absent
           /\ LastIsTrue(channel, book) /\ RestIsTrue(quote.levels, channel, book)
           /\ BestIsTold(quote, channel, book)

LEMMA BookConstants ==
  /\ Prices \subseteq Nat /\ 0 \notin Prices /\ IsFiniteSet(Prices)
  /\ Sizes \subseteq Nat /\ 0 \notin Sizes /\ Depth \in Nat
<1>1. Book!ConstantsOK
  BY ModelConstants
<1>2. Book!IsFiniteSet(Prices) <=> IsFiniteSet(Prices)
  BY DEF Book!IsFiniteSet, IsFiniteSet
<1> QED  BY <1>1, <1>2 DEF Book!ConstantsOK

LEMMA BookCounts == \A S : Book!Cardinality(S) = Cardinality(S)
BY DEF Book!Cardinality, Cardinality

LEMMA LevelParts ==
  ASSUME NEW f \in Book!Levels
  PROVE  DOMAIN f \subseteq Prices /\ \A p \in DOMAIN f : f[p] \in Sizes
BY DEF Book!Levels

LEMMA PricesAre ==
  ASSUME NEW f \in Book!Levels
  PROVE  DOMAIN f \in SUBSET Int /\ IsFiniteSet(DOMAIN f)
<1>1. DOMAIN f \in SUBSET Prices
  BY LevelParts
<1>2. IsFiniteSet(DOMAIN f)
  BY <1>1, BookConstants, FS_Subset
<1>3. \A p \in Prices : p \in Int
  BY BookConstants
<1>4. DOMAIN f \in SUBSET Int
  BY <1>1, <1>3
<1> QED  BY <1>2, <1>4

LEMMA LevelsAre ==
  ASSUME NEW P, P \subseteq Prices, NEW f, f \in [P -> Sizes]
  PROVE  f \in Book!Levels
BY DEF Book!Levels

LEMMA EmptyParts == /\ Book!Empty \in Book!Levels /\ DOMAIN Book!Empty = {}
                    /\ Book!Absent.levels = Book!Empty /\ Book!Absent.best = -1
<1>1. DOMAIN Book!Empty = {} /\ Book!Empty \in [{} -> Sizes]
  BY DEF Book!Empty
<1>2. Book!Empty \in Book!Levels
  BY <1>1, LevelsAre
<1> QED  BY <1>1, <1>2 DEF Book!Absent

LEMMA QuoteParts ==
  ASSUME NEW q \in Quotes
  PROVE  q.levels \in Book!Levels /\ (q.best \in Prices \cup {0} \/ q = Book!Absent)
BY EmptyParts DEF Quotes

LEMMA RestrictParts ==
  ASSUME NEW f \in Book!Levels, NEW P, P \subseteq DOMAIN f
  PROVE  /\ Book!Restrict(f, P) \in Book!Levels /\ DOMAIN Book!Restrict(f, P) = P
         /\ \A p \in P : Book!Restrict(f, P)[p] = f[p]
<1>1. P \subseteq Prices /\ \A p \in P : f[p] \in Sizes
  BY LevelParts
<1>2. PICK g : g = Book!Restrict(f, P)
  OBVIOUS
<1>3. g = [p \in P |-> f[p]]
  BY <1>2 DEF Book!Restrict
<1>4. g \in [P -> Sizes] /\ DOMAIN g = P /\ \A p \in P : g[p] = f[p]
  BY <1>1, <1>3
<1> QED  BY <1>1, <1>2, <1>4, LevelsAre

LEMMA LevelSetParts ==
  ASSUME NEW f \in Book!Levels, NEW p \in Prices, NEW s \in Sizes, NEW g,
         g = [q \in DOMAIN f \cup {p} |-> IF q = p THEN s ELSE f[q]]
  PROVE  /\ g \in Book!Levels /\ DOMAIN g = DOMAIN f \cup {p} /\ g[p] = s
         /\ \A q \in DOMAIN f : q # p => g[q] = f[q]
<1>1. DOMAIN f \cup {p} \subseteq Prices /\ \A q \in DOMAIN f : f[q] \in Sizes
  BY LevelParts
<1>2. g \in [DOMAIN f \cup {p} -> Sizes]
  BY <1>1
<1> QED  BY <1>1, <1>2, LevelsAre

\* The best price of levels is one of them.
LEMMA BestParts ==
  ASSUME NEW f \in Book!Levels
  PROVE  Book!Best(f) \in Prices \cup {0} /\ (Book!Best(f) = 0 => DOMAIN f = {})
                                         /\ (DOMAIN f = {} => Book!Best(f) = 0)
<1>1. DOMAIN f \subseteq Prices
  BY LevelParts
<1>2. CASE DOMAIN f = {}
  BY <1>2 DEF Book!Best
<1>3. CASE DOMAIN f # {}
  <2>1. IsFiniteSet(DOMAIN f) /\ DOMAIN f \in SUBSET Int
    BY PricesAre
  <2>2. \E x \in DOMAIN f : \A y \in DOMAIN f : y <= x
    BY <1>3, <2>1, FiniteHasGreatest
  <2>3. \E x \in DOMAIN f : \A y \in DOMAIN f : x >= y
    BY <2>1, <2>2
  <2>4. Book!Max(DOMAIN f) \in DOMAIN f
    BY <2>3 DEF Book!Max
  <2> QED  BY <1>1, <1>3, <2>4, BookConstants DEF Book!Best
<1> QED  BY <1>2, <1>3

\* Of a finite set of prices, fewer than Depth are above the least of the best Depth ones.
LEMMA TopParts ==
  ASSUME NEW f \in Book!Levels
  PROVE  /\ Book!Top(f) \in Book!Levels /\ DOMAIN Book!Top(f) \subseteq DOMAIN f /\ Small(Book!Top(f))
         /\ \A p \in DOMAIN Book!Top(f) : Book!Top(f)[p] = f[p]
<1> DEFINE Above(p) == {q \in DOMAIN f : q > p}
           T == {p \in DOMAIN f : Cardinality(Above(p)) < Depth}
<1>2. DOMAIN f \in SUBSET Int /\ IsFiniteSet(DOMAIN f)
  BY PricesAre
<1>3. \A p : p \in T <=> p \in DOMAIN f /\ Cardinality(Above(p)) < Depth
  OBVIOUS
<1>4. \A p : \A q \in DOMAIN f : q > p => q \in Above(p)
  OBVIOUS
<1>5. \A p : Above(p) \in SUBSET (DOMAIN f)
  OBVIOUS
<1>6. Book!Top(f) = Book!Restrict(f, T)
  BY BookCounts DEF Book!Top
<1> HIDE DEF Above, T
<1>7. T \in SUBSET (DOMAIN f) /\ IsFiniteSet(T)
  <2>1. T \in SUBSET (DOMAIN f)
    BY <1>3
  <2> QED  BY <1>2, <2>1, FS_Subset
<1>8. Cardinality(T) <= Depth
  <2>1. CASE T = {}
    BY <2>1, FS_EmptySet, BookConstants
  <2>2. CASE T # {}
    <3>1. T \in SUBSET Int
      BY <1>2, <1>7
    <3>2. PICK m \in T : \A y \in T : m <= y
      BY <1>7, <2>2, <3>1, FiniteHasLeast
    <3>3. T \ {m} \in SUBSET Above(m)
      <4> SUFFICES ASSUME NEW y \in T, y # m PROVE y \in Above(m)
        OBVIOUS
      <4>1. y \in Int /\ m \in Int /\ m <= y
        BY <3>1, <3>2
      <4>2. y > m /\ y \in DOMAIN f
        BY <4>1, <1>7
      <4> QED  BY <4>2, <1>4
    <3>4. IsFiniteSet(Above(m)) /\ Cardinality(Above(m)) \in Nat
      BY <1>2, <1>5, FS_Subset, FS_CardinalityType
    <3>5. Cardinality(T \ {m}) <= Cardinality(Above(m))
      BY <3>3, <3>4, FS_Subset
    <3>6. Cardinality(T \ {m}) = Cardinality(T) - 1
      BY <1>7, <3>2, FS_RemoveElement
    <3>7. Cardinality(Above(m)) < Depth
      BY <1>3, <3>2
    <3>8. Cardinality(T) \in Nat
      BY <1>7, FS_CardinalityType
    <3> QED  BY <3>4, <3>5, <3>6, <3>7, <3>8, BookConstants
  <2> QED  BY <2>1, <2>2
<1>9. PICK g : g = Book!Top(f)
  OBVIOUS
<1>10. g \in Book!Levels /\ DOMAIN g = T /\ \A p \in T : g[p] = f[p]
  BY <1>6, <1>7, <1>9, RestrictParts
<1> QED  BY <1>7, <1>8, <1>9, <1>10 DEF Small

\* The levels after a price change: those that are kept, and the changed one.
LEMMA UpdateParts ==
  ASSUME NEW f \in Book!Levels, Small(f), NEW p \in Prices, NEW s \in Sizes \cup {0}, NEW g,
         g = Book!update_levels(f, p, s)
  PROVE  /\ g \in Book!Levels /\ Small(g)
         /\ \A q \in DOMAIN g : IF q = p THEN s # 0 /\ g[q] = s ELSE q \in DOMAIN f /\ g[q] = f[q]
<1>1. CASE s = 0
  <2>1. DOMAIN f \ {p} \subseteq DOMAIN f
    OBVIOUS
  <2>2. g = Book!Restrict(f, DOMAIN f \ {p})
    BY <1>1 DEF Book!update_levels
  <2>3. g \in Book!Levels /\ DOMAIN g = DOMAIN f \ {p} /\ \A q \in DOMAIN g : g[q] = f[q]
    BY <2>1, <2>2, RestrictParts
  <2>4. DOMAIN f \in SUBSET Prices /\ DOMAIN g \in SUBSET (DOMAIN f)
    BY <2>3, LevelParts
  <2>5. IsFiniteSet(DOMAIN f)
    BY <2>4, BookConstants, FS_Subset
  <2>6. Cardinality(DOMAIN g) <= Cardinality(DOMAIN f) /\ Cardinality(DOMAIN g) \in Nat
        /\ Cardinality(DOMAIN f) \in Nat
    BY <2>4, <2>5, FS_Subset, FS_CardinalityType
  <2>7. Small(g)
    BY <2>6, BookConstants DEF Small
  <2> QED  BY <2>3, <2>7
<1>2. CASE s # 0
  <2>1. PICK h : h = [q \in DOMAIN f \cup {p} |-> IF q = p THEN s ELSE f[q]]
    OBVIOUS
  <2>2. g = Book!Top(h)
    BY <1>2, <2>1 DEF Book!update_levels
  <2>3. /\ h \in Book!Levels /\ DOMAIN h = DOMAIN f \cup {p} /\ h[p] = s
        /\ \A q \in DOMAIN f : q # p => h[q] = f[q]
    BY <1>2, <2>1, LevelSetParts
  <2>4. /\ g \in Book!Levels /\ DOMAIN g \subseteq DOMAIN h /\ Small(g)
        /\ \A q \in DOMAIN g : g[q] = h[q]
    BY <2>2, <2>3, TopParts
  <2> QED  BY <1>2, <2>3, <2>4
<1> QED  BY <1>1, <1>2

LEMMA QuoteIs ==
  ASSUME NEW f \in Book!Levels, NEW b \in Prices \cup {0}
  PROVE  [levels |-> f, best |-> b] \in Quotes /\ [levels |-> f, best |-> b] # Book!Absent
BY BookConstants, EmptyParts DEF Quotes

LEMMA SnapshotParts ==
  ASSUME NEW f \in Book!Levels, NEW q, q = Book!Snapshot(f)
  PROVE  /\ q \in Quotes /\ q # Book!Absent /\ Small(q.levels) /\ q.best = Book!Best(f)
         /\ DOMAIN q.levels \subseteq DOMAIN f /\ \A p \in DOMAIN q.levels : q.levels[p] = f[p]
<1>1. q = [levels |-> Book!Top(f), best |-> Book!Best(f)]
  BY DEF Book!Snapshot
<1> QED  BY <1>1, TopParts, BestParts, QuoteIs

LEMMA MessageParts ==
  ASSUME NEW m \in Messages
  PROVE  /\ m \in Known => m.kind = "book" /\ m.levels \in Book!Levels
         /\ m \notin Known => /\ m.kind = "price_change" /\ m.price \in Prices
                              /\ m.size \in Sizes \cup {0} /\ m.best \in Prices \cup {0}
         /\ m.kind = "book" <=> m \in Known
BY DEF Messages, Known, Changed

\* A message is applied to a quote.
Applied(q, m) == IF m.kind = "book" THEN Book!Snapshot(m.levels) ELSE Book!update_quote_level(q, m)

LEMMA AppliedParts ==
  ASSUME NEW q \in Quotes, Small(q.levels), NEW m \in Messages, NEW r, r = Applied(q, m)
  PROVE  /\ r \in Quotes /\ r # Book!Absent /\ Small(r.levels)
         /\ m \in Known => /\ r.best = Book!Best(m.levels)
                           /\ DOMAIN r.levels \subseteq DOMAIN m.levels
                           /\ \A p \in DOMAIN r.levels : r.levels[p] = m.levels[p]
         /\ m \notin Known =>
              /\ r.best = IF m.best # 0 THEN m.best ELSE Book!Best(r.levels)
              /\ \A p \in DOMAIN r.levels : IF p = m.price THEN m.size # 0 /\ r.levels[p] = m.size
                                            ELSE p \in DOMAIN q.levels /\ r.levels[p] = q.levels[p]
<1>1. CASE m \in Known
  <2>1. m.kind = "book" /\ m.levels \in Book!Levels
    BY <1>1, MessageParts
  <2>2. r = Book!Snapshot(m.levels)
    BY <2>1 DEF Applied
  <2> QED  BY <1>1, <2>1, <2>2, SnapshotParts
<1>2. CASE m \notin Known
  <2>1. /\ m.kind # "book" /\ m.price \in Prices /\ m.size \in Sizes \cup {0}
        /\ m.best \in Prices \cup {0} /\ q.levels \in Book!Levels
    BY <1>2, MessageParts, QuoteParts
  <2>2. PICK g : g = Book!update_levels(q.levels, m.price, m.size)
    OBVIOUS
  <2>3. r = [levels |-> g, best |-> IF m.best # 0 THEN m.best ELSE Book!Best(g)]
    BY <2>1, <2>2 DEF Applied, Book!update_quote_level
  <2>4. /\ g \in Book!Levels /\ Small(g)
        /\ \A p \in DOMAIN g : IF p = m.price THEN m.size # 0 /\ g[p] = m.size
                               ELSE p \in DOMAIN q.levels /\ g[p] = q.levels[p]
    BY <2>1, <2>2, UpdateParts
  <2>5. Book!Best(g) \in Prices \cup {0}
    BY <2>4, BestParts
  <2>6. r.levels = g /\ r.best = IF m.best # 0 THEN m.best ELSE Book!Best(r.levels)
    BY <2>3
  <2>7. r \in Quotes /\ r # Book!Absent
    BY <2>1, <2>3, <2>4, <2>5, QuoteIs
  <2> QED  BY <1>2, <2>4, <2>6, <2>7
<1> QED  BY <1>1, <1>2

LEMMA AppendParts ==
  ASSUME NEW ch \in Seq(Messages), NEW m \in Messages, NEW ch2, ch2 = Append(ch, m)
  PROVE  /\ ch2 \in Seq(Messages) /\ ch2 # <<>> /\ ch2[Len(ch2)] = m
         /\ Len(ch) \in Nat /\ DOMAIN ch = 1 .. Len(ch)
         /\ Len(ch2) = Len(ch) + 1 /\ DOMAIN ch2 = 1 .. Len(ch2)
         /\ \A i \in DOMAIN ch : ch2[i] = ch[i]
BY AppendProperties

LEMMA SentIsTrue ==
  ASSUME NEW b \in Book!Levels, NEW c \in Book!Levels, NEW ch \in Seq(Messages), NEW m \in Messages,
         m \notin Known, Says(m, c, m.price), \A q \in Prices : q # m.price => SameAt(c, b, q),
         NEW ch2, ch2 = Append(ch, m)
  PROVE  /\ LastIsTrue(ch, b) => LastIsTrue(ch2, c)
         /\ \A f \in Book!Levels : RestIsTrue(f, ch, b) => RestIsTrue(f, ch2, c)
<1>1. /\ Len(ch2) = Len(ch) + 1 /\ DOMAIN ch2 = 1 .. Len(ch2) /\ ch2[Len(ch2)] = m
      /\ Len(ch) \in Nat /\ DOMAIN ch = 1 .. Len(ch) /\ \A i \in DOMAIN ch : ch2[i] = ch[i]
  BY AppendParts
<1>2. PICK n : n = Len(ch)
  OBVIOUS
<1>3. /\ n \in Nat /\ DOMAIN ch = 1 .. n /\ DOMAIN ch2 = 1 .. n + 1 /\ ch2[n + 1] = m
      /\ \A i \in 1 .. n : ch2[i] = ch[i]
  BY <1>1, <1>2
<1>4. n + 1 \in DOMAIN ch2 /\ \A i \in 1 .. n : i < n + 1 /\ i \in DOMAIN ch2
  BY <1>3
<1>5. \A i \in DOMAIN ch2 : i = n + 1 \/ i \in 1 .. n
  BY <1>3
<1>6. Speaks(m, m.price)
  BY DEF Speaks
<1>7. ASSUME LastIsTrue(ch, b) PROVE LastIsTrue(ch2, c)
  <2> SUFFICES ASSUME NEW i \in DOMAIN ch2, NEW p \in Prices, Speaks(ch2[i], p)
               PROVE  Says(ch2[i], c, p) \/ \E j \in DOMAIN ch2 : i < j /\ Speaks(ch2[j], p)
    BY DEF LastIsTrue
  <2>1. CASE i = n + 1
    <3>1. ch2[i] = m
      BY <1>3, <2>1
    <3>2. p = m.price
      BY <3>1 DEF Speaks
    <3> QED  BY <3>1, <3>2
  <2>2. CASE i \in 1 .. n
    <3>1. ch2[i] = ch[i] /\ i \in DOMAIN ch
      BY <1>3, <2>2
    <3>2. CASE p = m.price
      BY <1>3, <1>4, <1>6, <2>2, <3>2
    <3>3. CASE p # m.price
      <4>1. SameAt(c, b, p)
        BY <3>3
      <4>2. Says(ch[i], b, p) => Says(ch[i], c, p)
        BY <4>1 DEF Says, SameAt
      <4>3. Says(ch[i], b, p) \/ \E j \in 1 .. n : i < j /\ Speaks(ch[j], p)
        BY <1>3, <1>7, <3>1 DEF LastIsTrue
      <4> QED  BY <1>3, <1>4, <3>1, <4>2, <4>3
    <3> QED  BY <3>2, <3>3
  <2> QED  BY <1>5, <2>1, <2>2
<1>8. ASSUME NEW f \in Book!Levels, RestIsTrue(f, ch, b) PROVE RestIsTrue(f, ch2, c)
  <2> SUFFICES ASSUME NEW p \in DOMAIN f
               PROVE  \/ p \in DOMAIN c /\ f[p] = c[p]
                      \/ \E j \in DOMAIN ch2 : Speaks(ch2[j], p)
    BY DEF RestIsTrue
  <2>1. p \in Prices
    BY LevelParts
  <2>2. CASE p = m.price
    BY <1>3, <1>4, <1>6, <2>2
  <2>3. CASE p # m.price
    <3>1. SameAt(c, b, p)
      BY <2>1, <2>3
    <3>2. (p \in DOMAIN b /\ f[p] = b[p]) \/ \E j \in 1 .. n : Speaks(ch[j], p)
      BY <1>3, <1>8 DEF RestIsTrue
    <3> QED  BY <1>3, <1>4, <3>1, <3>2 DEF SameAt
  <2> QED  BY <2>2, <2>3
<1> QED  BY <1>7, <1>8

LEMMA TailParts ==
  ASSUME NEW ch \in Seq(Messages), ch # <<>>, NEW t, t = Tail(ch)
  PROVE  /\ t \in Seq(Messages) /\ Len(ch) \in Nat \ {0} /\ Len(t) = Len(ch) - 1
         /\ DOMAIN t = 1 .. Len(t) /\ DOMAIN ch = 1 .. Len(ch)
         /\ Head(ch) = ch[1] /\ ch[1] \in Messages
         /\ \A i \in DOMAIN t : t[i] = ch[i + 1]
<1>1. /\ t \in Seq(Messages) /\ Len(t) = Len(ch) - 1 /\ Head(ch) \in Messages
      /\ \A i \in 1 .. Len(t) : t[i] = ch[i + 1]
  BY HeadTailProperties
<1>2. Len(ch) \in Nat \ {0} /\ DOMAIN ch = 1 .. Len(ch) /\ DOMAIN t = 1 .. Len(t) /\ Head(ch) = ch[1]
  BY <1>1, EmptySeq
<1> QED  BY <1>1, <1>2

\* The first message is applied to the quote: what the rest of the channel does not speak of is
\* as in the book, and so is the best price after the last one.
LEMMA AppliedIsTrue ==
  ASSUME NEW b \in Book!Levels, NEW q \in Quotes, Small(q.levels), NEW ch \in Seq(Messages), ch # <<>>,
         LastIsTrue(ch, b), RestIsTrue(q.levels, ch, b), BestIsTold(q, ch, b),
         NEW t, t = Tail(ch), NEW r, r = Applied(q, ch[1])
  PROVE  LastIsTrue(t, b) /\ RestIsTrue(r.levels, t, b) /\ BestIsTold(r, t, b)
<1>1. PICK n : n = Len(t)
  OBVIOUS
<1>2. PICK m : m = ch[1]
  OBVIOUS
<1>3. /\ n \in Nat /\ DOMAIN t = 1 .. n /\ DOMAIN ch = 1 .. n + 1 /\ Len(ch) = n + 1
      /\ m \in Messages /\ \A i \in 1 .. n : t[i] = ch[i + 1]
  <2>1. PICK l : l = Len(ch)
    OBVIOUS
  <2>2. l \in Nat \ {0} /\ n = l - 1 /\ n + 1 = l
    BY <1>1, <2>1, TailParts
  <2> QED  BY <1>1, <1>2, <2>1, <2>2, TailParts
<1>4. \A i \in 1 .. n : i + 1 \in 1 .. n + 1
  BY <1>3
<1>5. \A j \in 1 .. n + 1 : j = 1 \/ (\E i \in 1 .. n : j = i + 1)
  <2> SUFFICES ASSUME NEW j \in 1 .. n + 1, j # 1 PROVE \E i \in 1 .. n : j = i + 1
    OBVIOUS
  <2>1. j - 1 \in 1 .. n /\ j = (j - 1) + 1
    BY <1>3
  <2> QED  BY <2>1
<1>6. 1 \in 1 .. n + 1
  BY <1>3
<1>7. LastIsTrue(t, b)
  <2> SUFFICES ASSUME NEW i \in 1 .. n, NEW p \in Prices, Speaks(t[i], p)
               PROVE  Says(t[i], b, p) \/ \E j \in 1 .. n : i < j /\ Speaks(t[j], p)
    BY <1>3 DEF LastIsTrue
  <2>1. t[i] = ch[i + 1] /\ i + 1 \in DOMAIN ch
    BY <1>3, <1>4
  <2>2. CASE Says(ch[i + 1], b, p)
    BY <2>1, <2>2
  <2>3. CASE \E j \in DOMAIN ch : i + 1 < j /\ Speaks(ch[j], p)
    <3>1. PICK j \in 1 .. n + 1 : i + 1 < j /\ Speaks(ch[j], p)
      BY <1>3, <2>3
    <3>2. j - 1 \in 1 .. n /\ i < j - 1 /\ (j - 1) + 1 = j
      BY <1>3, <3>1
    <3>3. Speaks(t[j - 1], p)
      BY <1>3, <3>1, <3>2
    <3> QED  BY <3>2, <3>3
  <2> QED  BY <2>1, <2>2, <2>3 DEF LastIsTrue
\* What is not spoken of later is so in the book, if the first message speaks of it.
<1>8. ASSUME NEW p \in Prices, Speaks(m, p), \A j \in 1 .. n : ~ Speaks(t[j], p)
      PROVE  Says(m, b, p)
  <2>1. Says(ch[1], b, p) \/ \E j \in DOMAIN ch : 1 < j /\ Speaks(ch[j], p)
    BY <1>2, <1>3, <1>6, <1>8 DEF LastIsTrue
  <2>2. ASSUME NEW j \in 1 .. n + 1, 1 < j, Speaks(ch[j], p) PROVE FALSE
    <3>1. PICK i \in 1 .. n : j = i + 1
      BY <1>3, <1>5, <2>2
    <3> QED  BY <1>3, <1>8, <2>2, <3>1
  <2> QED  BY <1>2, <1>3, <2>1, <2>2
<1>9. r \in Quotes /\ r.levels \in Book!Levels
  BY <1>2, <1>3, AppliedParts, QuoteParts
<1>10. RestIsTrue(r.levels, t, b)
  <2> SUFFICES ASSUME NEW p \in DOMAIN r.levels, \A j \in 1 .. n : ~ Speaks(t[j], p)
               PROVE  p \in DOMAIN b /\ r.levels[p] = b[p]
    BY <1>3 DEF RestIsTrue
  <2>1. p \in Prices
    BY <1>9, LevelParts
  <2>2. CASE m \in Known
    <3>1. p \in DOMAIN m.levels /\ r.levels[p] = m.levels[p]
      BY <1>2, <1>3, <2>2, AppliedParts
    <3>2. Says(m, b, p)
      BY <1>8, <2>1, <2>2 DEF Speaks
    <3> QED  BY <2>2, <3>1, <3>2 DEF Says, SameAt
  <2>3. CASE m \notin Known /\ p = m.price
    <3>1. m.size # 0 /\ r.levels[p] = m.size
      BY <1>2, <1>3, <2>3, AppliedParts
    <3>2. Says(m, b, p)
      BY <1>8, <2>1, <2>3 DEF Speaks
    <3> QED  BY <2>3, <3>1, <3>2 DEF Says
  <2>4. CASE m \notin Known /\ p # m.price
    <3>1. p \in DOMAIN q.levels /\ r.levels[p] = q.levels[p]
      BY <1>2, <1>3, <2>4, AppliedParts
    <3>2. (p \in DOMAIN b /\ q.levels[p] = b[p]) \/ \E j \in 1 .. n + 1 : Speaks(ch[j], p)
      BY <1>3, <3>1 DEF RestIsTrue
    <3>3. ASSUME NEW j \in 1 .. n + 1, Speaks(ch[j], p) PROVE FALSE
      <4>1. CASE j = 1
        BY <1>2, <2>4, <3>3, <4>1 DEF Speaks
      <4>2. CASE \E i \in 1 .. n : j = i + 1
        <5>1. PICK i \in 1 .. n : j = i + 1
          BY <4>2
        <5> QED  BY <1>3, <3>3, <5>1
      <4> QED  BY <1>5, <4>1, <4>2
    <3> QED  BY <3>1, <3>2, <3>3
  <2> QED  BY <2>2, <2>3, <2>4
<1>11. BestIsTold(r, t, b)
  <2>1. CASE n = 0
    <3>1. t = <<>>
      <4>1. t \in Seq(Messages)
        BY TailParts
      <4> QED  BY <1>1, <2>1, <4>1, EmptySeq
    <3>2. IF m \in Known THEN m.levels = b ELSE m.best = Book!Best(b)
      BY <1>2, <1>3, <2>1 DEF BestIsTold
    <3>3. CASE m \in Known
      <4>1. r.best = Book!Best(m.levels) /\ m.levels = b
        BY <1>2, <1>3, <3>2, <3>3, AppliedParts
      <4> QED  BY <3>1, <4>1 DEF BestIsTold
    <3>4. CASE m \notin Known /\ m.best # 0
      <4>1. r.best = m.best /\ m.best = Book!Best(b)
        BY <1>2, <1>3, <3>2, <3>4, AppliedParts
      <4> QED  BY <3>1, <4>1 DEF BestIsTold
    <3>5. CASE m \notin Known /\ m.best = 0
      <4>1. DOMAIN b = {}
        BY <3>2, <3>5, BestParts
      <4>2. \A p \in DOMAIN r.levels : p \in DOMAIN b
        BY <1>3, <1>10, <2>1 DEF RestIsTrue
      <4>3. DOMAIN r.levels = {}
        BY <4>1, <4>2
      <4>4. r.best = Book!Best(r.levels)
        BY <1>2, <1>3, <3>5, AppliedParts
      <4>5. Book!Best(r.levels) = 0
        BY <1>9, <4>3, BestParts
      <4> QED  BY <3>1, <3>2, <3>5, <4>4, <4>5 DEF BestIsTold
    <3> QED  BY <3>3, <3>4, <3>5
  <2>2. CASE n # 0
    <3>1. n \in 1 .. n /\ n + 1 # 0
      BY <1>3, <2>2
    <3>2. t[n] = ch[n + 1]
      BY <1>3, <3>1
    <3>3. t # <<>>
      <4>1. Len(<<>>) = 0
        OBVIOUS
      <4> QED  BY <1>1, <2>2, <4>1
    <3> QED  BY <1>1, <1>3, <3>2, <3>3 DEF BestIsTold
  <2> QED  BY <2>1, <2>2
<1> QED  BY <1>7, <1>10, <1>11

LEMMA BookInit == Book!Init => BookInv
<1> SUFFICES ASSUME Book!Init PROVE BookInv
  OBVIOUS
<1>1. Book!Absent \in Quotes /\ Small(Book!Absent.levels)
  BY EmptyParts, FS_EmptySet, BookConstants DEF Quotes, Small
<1>2. <<>> \in Seq(Messages)
  BY EmptySeq
<1>3. BookTyped
  BY <1>1, <1>2 DEF Book!Init, BookTyped
<1> QED  BY <1>3 DEF Book!Init, BookInv

\* What a step does to the quotes kept here and there.
LEMMA MessageIs ==
  /\ \A f \in Book!Levels : [kind |-> "book", levels |-> f] \in Known
  /\ \A p \in Prices, s \in Sizes \cup {0}, b \in Prices \cup {0} :
       [kind |-> "price_change", price |-> p, size |-> s, best |-> b] \in Changed \ Known
BY DEF Known, Changed

LEMMA BookNext == BookInv /\ [Book!Next]_Book!vars => BookInv'
<1> SUFFICES ASSUME BookInv, [Book!Next]_Book!vars PROVE BookInv'
  OBVIOUS
<1> USE DEF BookInv
<1>1. ASSUME NEW p \in Prices, NEW size \in Sizes \cup {0}, Book!Changes(p, size) PROVE BookInv'
  <2>1. /\ UNCHANGED <<up, rest, quote, pending, loop, shown>>
        /\ book' = IF size = 0 THEN Book!Restrict(book, DOMAIN book \ {p})
                   ELSE [q \in DOMAIN book \cup {p} |-> IF q = p THEN size ELSE book[q]]
        /\ channel' = IF up THEN Append(channel, [kind |-> "price_change", price |-> p, size |-> size,
                                            best |-> Book!Best(book')]) ELSE channel
    BY <1>1 DEF Book!Changes
  <2>2. PICK b, c : b = book /\ c = book'
    OBVIOUS
  <2>3. b \in Book!Levels
    BY <2>2 DEF BookTyped
  <2>4. /\ c \in Book!Levels /\ \A q \in Prices : q # p => SameAt(c, b, q)
        /\ IF size = 0 THEN p \notin DOMAIN c ELSE p \in DOMAIN c /\ c[p] = size
    <3>1. CASE size = 0
      <4>1. c = Book!Restrict(b, DOMAIN b \ {p}) /\ DOMAIN b \ {p} \subseteq DOMAIN b
        BY <2>1, <2>2, <3>1
      <4>2. c \in Book!Levels /\ DOMAIN c = DOMAIN b \ {p} /\ \A q \in DOMAIN b \ {p} : c[q] = b[q]
        BY <2>3, <4>1, RestrictParts
      <4> QED  BY <3>1, <4>2 DEF SameAt
    <3>2. CASE size # 0
      <4>1. c = [q \in DOMAIN b \cup {p} |-> IF q = p THEN size ELSE b[q]] /\ size \in Sizes
        BY <2>1, <2>2, <3>2
      <4>2. /\ c \in Book!Levels /\ DOMAIN c = DOMAIN b \cup {p} /\ c[p] = size
            /\ \A q \in DOMAIN b : q # p => c[q] = b[q]
        BY <2>3, <4>1, LevelSetParts
      <4> QED  BY <3>2, <4>2 DEF SameAt
    <3> QED  BY <3>1, <3>2
  <2>5. CASE ~ up
    BY <2>1, <2>2, <2>4, <2>5 DEF BookTyped
  <2>6. CASE up
    <3>1. PICK ch, ch2, m : /\ ch = channel /\ ch2 = channel'
                            /\ m = [kind |-> "price_change", price |-> p, size |-> size,
                                    best |-> Book!Best(c)]
      OBVIOUS
    <3>2. m \in Changed \ Known /\ m.price = p /\ m.size = size /\ m.best = Book!Best(c)
      BY <2>4, <3>1, BestParts, MessageIs
    <3>3. ch2 = Append(ch, m) /\ m \in Messages /\ ch \in Seq(Messages)
      BY <2>1, <2>2, <2>6, <3>1, <3>2 DEF Messages, BookTyped
    <3>4. Says(m, c, m.price)
      BY <2>4, <3>2 DEF Says
    <3>5. ch2 \in Seq(Messages) /\ ch2 # <<>> /\ ch2[Len(ch2)] = m
      BY <3>3, AppendParts
    <3>6. LastIsTrue(ch2, c)
      BY <2>2, <2>3, <2>4, <2>6, <3>1, <3>2, <3>3, <3>4, SentIsTrue
    <3>7. RestIsTrue(quote.levels, ch2, c)
      <4>1. quote.levels \in Book!Levels /\ RestIsTrue(quote.levels, ch, b)
        BY <2>2, <2>6, <3>1, QuoteParts DEF BookTyped
      <4>2. PICK f : f = quote.levels
        OBVIOUS
      <4> QED  BY <2>3, <2>4, <3>2, <3>3, <3>4, <4>1, <4>2, SentIsTrue
    <3>8. BestIsTold(quote, ch2, c)
      BY <3>2, <3>5 DEF BestIsTold
    <3> QED  BY <2>1, <2>2, <2>4, <3>1, <3>5, <3>6, <3>7, <3>8 DEF BookTyped
  <2> QED  BY <2>5, <2>6
<1>2. CASE Book!Subscribes
  <2>1. /\ UNCHANGED <<book, rest, quote, pending, loop, shown>> /\ quote # Book!Absent /\ up' = TRUE
        /\ channel' = <<[kind |-> "book", levels |-> book]>>
    BY <1>2 DEF Book!Subscribes
  <2>2. PICK m, ch : m = [kind |-> "book", levels |-> book] /\ ch = <<m>>
    OBVIOUS
  <2>3. m \in Known /\ m.levels = book /\ m \in Messages
    BY <2>2, MessageIs DEF Messages, BookTyped
  <2>4. ch \in Seq(Messages) /\ Len(ch) = 1 /\ DOMAIN ch = {1} /\ ch[1] = m /\ ch # <<>>
    BY <2>2, <2>3
  <2>5. LastIsTrue(ch, book)
    BY <2>3, <2>4 DEF LastIsTrue, Says, SameAt
  <2>6. RestIsTrue(quote.levels, ch, book)
    BY <2>3, <2>4 DEF RestIsTrue, Speaks
  <2>7. BestIsTold(quote, ch, book)
    BY <2>3, <2>4 DEF BestIsTold
  <2> QED  BY <2>1, <2>2, <2>4, <2>5, <2>6, <2>7 DEF BookTyped
<1>3. CASE Book!Breaks
  <2>1. <<>> \in Seq(Messages)
    BY EmptySeq
  <2> QED  BY <1>3, <2>1 DEF Book!Breaks, BookTyped
<1>4. CASE Book!apply_ws_message
  <2>1. /\ channel # <<>> /\ channel' = Tail(channel) /\ pending' = TRUE
        /\ quote' = Applied(quote, Head(channel))
        /\ UNCHANGED <<book, up, rest, loop, shown>>
    BY <1>4 DEF Book!apply_ws_message, Applied
  <2>2. PICK b, q, ch, t, r : b = book /\ q = quote /\ ch = channel /\ t = channel' /\ r = quote'
    OBVIOUS
  <2>3. b \in Book!Levels /\ q \in Quotes /\ Small(q.levels) /\ ch \in Seq(Messages) /\ ch # <<>>
        /\ t = Tail(ch)
    BY <2>1, <2>2 DEF BookTyped
  <2>4. t \in Seq(Messages) /\ Head(ch) = ch[1] /\ ch[1] \in Messages
    BY <2>3, TailParts
  <2>5. r = Applied(q, ch[1])
    BY <2>1, <2>2, <2>4
  <2>6. r \in Quotes /\ r # Book!Absent /\ Small(r.levels)
    <3>1. PICK m : m = ch[1]
      OBVIOUS
    <3> QED  BY <2>3, <2>4, <2>5, <3>1, AppliedParts
  <2>7. up => LastIsTrue(t, b) /\ RestIsTrue(r.levels, t, b) /\ BestIsTold(r, t, b)
    <3>1. up => LastIsTrue(ch, b) /\ RestIsTrue(q.levels, ch, b) /\ BestIsTold(q, ch, b)
      BY <2>2
    <3> QED  BY <2>3, <2>5, <3>1, AppliedIsTrue
  <2> QED  BY <2>1, <2>2, <2>4, <2>6, <2>7 DEF BookTyped
<1>5. CASE Book!RestAsks
  <2>1. UNCHANGED <<book, up, channel, quote, pending, loop, shown>> /\ rest' = Book!Snapshot(book)
    BY <1>5 DEF Book!RestAsks
  <2>2. PICK q, b : q = rest' /\ b = book
    OBVIOUS
  <2>3. q \in Quotes /\ Small(q.levels)
    BY <2>1, <2>2, SnapshotParts DEF BookTyped
  <2> QED  BY <2>1, <2>2, <2>3 DEF BookTyped
<1>6. CASE Book!replace_markets
  <2>1. /\ UNCHANGED <<book, up, channel, pending, loop>> /\ rest' = Book!Absent /\ shown' = quote'
        /\ quote' = IF quote = Book!Absent THEN rest ELSE quote
    BY <1>6 DEF Book!replace_markets, Book!merge_quote
  <2>2. quote' \in Quotes /\ Small(quote'.levels)
    BY <2>1 DEF BookTyped
  <2>3. Book!Absent \in Quotes /\ Small(Book!Absent.levels)
    BY EmptyParts, FS_EmptySet, BookConstants DEF Quotes, Small
  <2>4. up => quote' = quote
    BY <2>1
  <2> QED  BY <2>1, <2>2, <2>3, <2>4 DEF BookTyped
<1>7. CASE Book!Reads \/ Book!Sends \/ Book!Dies
  <2>1. Book!Absent \in Quotes /\ Small(Book!Absent.levels)
    BY EmptyParts, FS_EmptySet, BookConstants DEF Quotes, Small
  <2>2. UNCHANGED <<book, up, channel, rest, quote>> /\ pending' \in BOOLEAN
    BY <1>7 DEF Book!Reads, Book!Sends, Book!Dies, BookTyped
  <2>3. loop' \in [at : {"sleeps", "prices", "dead"}, quote : Quotes] /\ loop'.quote \in Quotes
        /\ Small(loop'.quote.levels)
    BY <1>7, <2>1 DEF Book!Reads, Book!Sends, Book!Dies, BookTyped
  <2>4. shown' \in Quotes /\ Small(shown'.levels)
    BY <1>7 DEF Book!Reads, Book!Sends, Book!Dies, BookTyped
  <2> QED  BY <2>2, <2>3, <2>4 DEF BookTyped
<1>8. CASE UNCHANGED Book!vars
  BY <1>8 DEF Book!vars, BookTyped
<1> QED  BY <1>1, <1>2, <1>3, <1>4, <1>5, <1>6, <1>7, <1>8 DEF Book!Next

LEMMA BookProperties == BookInv => Book!TypeOK /\ BookIsReal
<1> SUFFICES ASSUME BookInv PROVE Book!TypeOK /\ BookIsReal
  OBVIOUS
<1>1. Book!TypeOK
  <2>1. \A q \in {quote, rest, shown} :
          q.levels \in Book!Levels /\ Book!Cardinality(DOMAIN q.levels) <= Depth
    BY QuoteParts, BookCounts DEF BookInv, BookTyped, Small
  <2>2. book \in Book!Levels /\ {up, pending} \subseteq BOOLEAN /\ loop.at \in {"sleeps", "prices", "dead"}
    BY DEF BookInv, BookTyped
  <2> QED  BY <2>1, <2>2 DEF Book!TypeOK
<1>2. ASSUME up, channel = <<>> PROVE RestIsTrue(quote.levels, <<>>, book)
  BY <1>2 DEF BookInv
<1>3. DOMAIN <<>> = {}
  OBVIOUS
<1>4. Book!LevelsAreReal
  BY <1>2, <1>3 DEF Book!LevelsAreReal, Book!Read, RestIsTrue
<1>5. Book!BestIsReal
  BY DEF Book!BestIsReal, Book!Read, BookInv, BestIsTold
<1> QED  BY <1>1, <1>4, <1>5 DEF BookIsReal

\* When every message was read, each level in the store is one of the exchange, and the best price
\* is the best there (services/polymarket_market_store.py), for any prices and sizes, any depth,
\* and over any number of changes, broken connections and refreshes.
THEOREM BookIsReal_holds == Book!Spec => []BookIsReal
<1> QED  BY BookInit, BookNext, BookProperties, PTL DEF Book!Spec

-----------------------------------------------------------------------------
(* The schedule of the refresh *)

Slack == Schedule!Max({Schedule!Pause, SignalMin})

ScheduleTyped ==
  /\ clock \in 0 .. Horizon /\ began \in 0 .. clock /\ job \in Nat \cup {-1}
  /\ running \in {-1, began}
  /\ last \in -1 .. clock /\ ended \in -1 .. clock /\ signal \in -1 .. clock
  /\ stocked \in BOOLEAN /\ suspended \in BOOLEAN

\* Unless the process stood still, the next refresh is late by no more than one run and the pause
\* after it, and a run that goes on is not longer than any.
InTime ==
  ~ suspended => IF running = -1
                 THEN /\ job # -1 /\ clock <= job /\ job <= began + MaxRun + Schedule!Pause
                 ELSE clock <= began + MaxRun

\* A signal that waits for its refresh came after the run that goes on had begun; the job stands.
SignalKept ==
  signal # -1 => IF running = -1
                 THEN /\ job # -1 /\ clock <= job /\ job <= signal + MaxRun + Slack
                 ELSE began <= signal /\ clock <= signal + MaxRun

ScheduleInv == ScheduleTyped /\ InTime /\ SignalKept

LEMMA ScheduleConstants ==
  /\ Between \in Nat \ {0} /\ Between <= Horizon
  /\ Fallback \in Nat /\ Window \in Nat /\ EmptyRetry \in Nat /\ SignalMin \in Nat /\ MaxRun \in Nat
  /\ Grace \in Nat /\ Suspension \in Nat /\ Horizon \in Nat
BY ModelConstants DEF Schedule!ConstantsOK

LEMMA TwoMax ==
  ASSUME NEW a \in Int, NEW b \in Int
  PROVE  /\ Schedule!Max({a, b}) = IF a >= b THEN a ELSE b
         /\ Schedule!Min({a, b}) = IF a >= b THEN b ELSE a
<1>1. PICK x : x = Schedule!Max({a, b})
  OBVIOUS
<1>2. \E y \in {a, b} : \A z \in {a, b} : y >= z
  OBVIOUS
<1>3. x \in {a, b} /\ x >= a /\ x >= b
  BY <1>1, <1>2 DEF Schedule!Max
<1>4. PICK n : n = Schedule!Min({a, b})
  OBVIOUS
<1>5. \E y \in {a, b} : \A z \in {a, b} : y =< z
  OBVIOUS
<1>6. n \in {a, b} /\ n <= a /\ n <= b
  BY <1>4, <1>5 DEF Schedule!Min
<1> QED  BY <1>1, <1>3, <1>4, <1>6

LEMMA PauseParts ==
  /\ Schedule!Pause \in Nat /\ Schedule!Pause >= Fallback /\ Schedule!Pause >= EmptyRetry
  /\ Schedule!Pause >= 1
  /\ Slack \in Nat /\ Slack >= Schedule!Pause /\ Slack >= SignalMin
<1>1. PICK S : S = {Fallback, EmptyRetry, 2 * Window, 1}
  OBVIOUS
<1>2. S \in SUBSET Nat /\ S \in SUBSET Int /\ S # {}
  BY <1>1, ScheduleConstants
<1>3. IsFiniteSet(S)
  <2>1. S = (({Fallback} \cup {EmptyRetry}) \cup {2 * Window}) \cup {1}
    BY <1>1
  <2>2. IsFiniteSet({Fallback}) /\ IsFiniteSet({EmptyRetry}) /\ IsFiniteSet({2 * Window}) /\ IsFiniteSet({1})
    BY FS_Singleton
  <2>3. IsFiniteSet({Fallback} \cup {EmptyRetry})
    BY <2>2, FS_Union
  <2>4. IsFiniteSet(({Fallback} \cup {EmptyRetry}) \cup {2 * Window})
    BY <2>2, <2>3, FS_Union
  <2> QED  BY <2>1, <2>2, <2>4, FS_Union
<1>4. \E x \in S : \A y \in S : y <= x
  BY <1>2, <1>3, FiniteHasGreatest
<1>5. \E x \in S : \A y \in S : x >= y
  BY <1>2, <1>4
<1>6. Schedule!Pause = Schedule!Max(S)
  BY <1>1 DEF Schedule!Pause
<1>7. Schedule!Pause \in S /\ \A y \in S : Schedule!Pause >= y
  BY <1>5, <1>6 DEF Schedule!Max
<1>8. Schedule!Pause \in Nat /\ Schedule!Pause >= Fallback /\ Schedule!Pause >= EmptyRetry
      /\ Schedule!Pause >= 1
  BY <1>1, <1>2, <1>7
<1>9. PICK p : p = Schedule!Pause
  OBVIOUS
<1>10. Slack = IF p >= SignalMin THEN p ELSE SignalMin
  BY <1>8, <1>9, ScheduleConstants, TwoMax DEF Slack
<1> QED  BY <1>8, <1>9, <1>10, ScheduleConstants

LEMMA BoundaryIsInt == ASSUME NEW n \in Nat PROVE Schedule!Boundary(n) \in Int
<1>1. n \div Between \in Int
  BY ScheduleConstants, DivBounds
<1> QED  BY <1>1, ScheduleConstants DEF Schedule!Boundary

\* After a run the next one comes within the pause.
LEMMA DelayParts ==
  ASSUME clock \in Nat, NEW d, NEW markets \in BOOLEAN, d = Schedule!calculate_next_refresh_delay(markets)
  PROVE  d \in Nat /\ 1 <= d /\ d <= Schedule!Pause
<1>1. CASE ~ markets
  <2>1. d = Schedule!Max({1, EmptyRetry})
    BY <1>1 DEF Schedule!calculate_next_refresh_delay
  <2>2. d = IF 1 >= EmptyRetry THEN 1 ELSE EmptyRetry
    BY <2>1, TwoMax, ScheduleConstants
  <2> QED  BY <2>2, PauseParts, ScheduleConstants
<1>2. CASE markets
  <2>1. PICK s : s = Schedule!next_boundary - clock
    OBVIOUS
  <2>2. s \in Int
    BY <2>1, BoundaryIsInt, ScheduleConstants DEF Schedule!next_boundary
  <2>3. PICK t : t = IF s <= Window THEN s + Window ELSE s - Window
    OBVIOUS
  <2>4. t \in Int
    BY <2>2, <2>3, ScheduleConstants
  <2>5. PICK a, b : a = Schedule!Max({1, Fallback}) /\ b = Schedule!Max({1, t})
    OBVIOUS
  <2>6. a = (IF 1 >= Fallback THEN 1 ELSE Fallback) /\ b = IF 1 >= t THEN 1 ELSE t
    BY <2>4, <2>5, TwoMax, ScheduleConstants
  <2>7. a \in Int /\ b \in Int /\ 1 <= a /\ 1 <= b /\ a <= Schedule!Pause
    BY <2>4, <2>6, PauseParts, ScheduleConstants
  <2>8. d = Schedule!Min({a, b})
    BY <1>2, <2>1, <2>3, <2>5 DEF Schedule!calculate_next_refresh_delay
  <2>9. d = IF a >= b THEN b ELSE a
    BY <2>7, <2>8, TwoMax
  <2> QED  BY <2>7, <2>9, PauseParts
<1> QED  BY <1>1, <1>2

LEMMA SignalDelayParts ==
  ASSUME ScheduleTyped, NEW d, d = Schedule!calculate_signal_refresh_delay
  PROVE  d \in Nat /\ d <= SignalMin
<1>1. clock \in Nat /\ last \in Int /\ last <= clock
  BY ScheduleConstants DEF ScheduleTyped
<1>2. PICK x : x = SignalMin - (clock - last)
  OBVIOUS
<1>3. x \in Int /\ x <= SignalMin
  BY <1>1, <1>2, ScheduleConstants
<1>4. d = IF last = -1 THEN 0 ELSE Schedule!Max({0, x})
  BY <1>2 DEF Schedule!calculate_signal_refresh_delay, Schedule!Never
<1>5. Schedule!Max({0, x}) = IF 0 >= x THEN 0 ELSE x
  BY <1>3, TwoMax
<1> QED  BY <1>3, <1>4, <1>5, ScheduleConstants

LEMMA ScheduleInit == Schedule!Init => ScheduleInv
<1> SUFFICES ASSUME Schedule!Init PROVE ScheduleInv
  OBVIOUS
<1>1. /\ clock \in 0 .. Between - 1 /\ job = clock /\ running = -1 /\ last = -1
      /\ stocked = FALSE /\ began = clock /\ ended = -1 /\ signal = -1 /\ suspended = FALSE
  BY DEF Schedule!Init, Schedule!Never
<1>2. clock \in Nat /\ clock \in 0 .. Horizon /\ clock \in 0 .. clock
  BY <1>1, ScheduleConstants
<1>3. ScheduleTyped
  <2>1. -1 \in -1 .. clock /\ -1 \in {-1, clock} /\ clock \in Nat \cup {-1}
    BY <1>2
  <2>2. FALSE \in BOOLEAN
    OBVIOUS
  <2> QED  BY <1>1, <1>2, <2>1, <2>2 DEF ScheduleTyped
<1>4. PICK P : P = Schedule!Pause
  OBVIOUS
<1>5. P \in Nat /\ MaxRun \in Nat
  BY <1>4, PauseParts, ScheduleConstants
<1>6. clock <= clock + MaxRun + P
  BY <1>2, <1>5
<1> QED  BY <1>1, <1>2, <1>3, <1>4, <1>6 DEF ScheduleInv, InTime, SignalKept

LEMMA ScheduleNext == ScheduleInv /\ [Schedule!Next]_Schedule!vars => ScheduleInv'
<1> SUFFICES ASSUME ScheduleInv, [Schedule!Next]_Schedule!vars PROVE ScheduleInv'
  OBVIOUS
<1> USE DEF ScheduleInv, ScheduleTyped, InTime, SignalKept
<1>0. PICK P, S : P = Schedule!Pause /\ S = Slack
  OBVIOUS
<1>0a. /\ P \in Nat /\ S \in Nat /\ S >= P /\ S >= SignalMin /\ SignalMin \in Nat /\ MaxRun \in Nat
       /\ Horizon \in Nat
  BY <1>0, PauseParts, ScheduleConstants
<1>0b. /\ clock \in Nat /\ clock <= Horizon /\ began \in Nat /\ began <= clock
       /\ job \in Int /\ (job = -1 \/ job >= 0) /\ running \in Int /\ signal \in Int /\ signal <= clock
       /\ (signal = -1 \/ signal >= 0)
  BY <1>0a
<1>0c. Slack' = Slack /\ Schedule!Pause' = Schedule!Pause
  BY DEF Slack, Schedule!Pause
<1>1. CASE Schedule!Due
  <2>1. /\ job # -1 /\ job' = -1 /\ UNCHANGED <<clock, last, stocked, ended, suspended>>
        /\ IF running = -1 THEN running' = clock /\ began' = clock /\ signal' = -1
           ELSE UNCHANGED <<running, began, signal>>
    BY <1>1 DEF Schedule!Due, Schedule!Never
  <2>2. CASE running = -1
    BY <1>0a, <1>0b, <2>1, <2>2
  <2>3. CASE running # -1
    BY <1>0a, <1>0b, <2>1, <2>3
  <2> QED  BY <2>2, <2>3
<1>2. CASE Schedule!Signals
  <2>1. PICK d : d = Schedule!calculate_signal_refresh_delay
    OBVIOUS
  <2>2. d \in Nat /\ d <= SignalMin
    BY <2>1, SignalDelayParts
  <2>3. PICK x : x = Schedule!Max({0, job - clock})
    OBVIOUS
  <2>4. PICK y : y = job - clock
    OBVIOUS
  <2>5. y \in Int
    BY <1>0b, <2>4
  <2>6. x = IF 0 >= y THEN 0 ELSE y
    BY <2>3, <2>4, <2>5, TwoMax
  <2>7. Schedule!Min({d, x}) = IF d >= x THEN x ELSE d
    <3>1. d \in Int /\ x \in Int
      BY <2>2, <2>5, <2>6
    <3> QED  BY <3>1, TwoMax
  <2>8. /\ job' = clock + (IF job = -1 THEN d ELSE IF d >= x THEN x ELSE d)
        /\ signal' = IF signal = -1 THEN clock ELSE signal
        /\ UNCHANGED <<clock, running, last, stocked, began, ended, suspended>>
    BY <1>2, <2>1, <2>3, <2>7 DEF Schedule!Signals, Schedule!Never
  <2>9. /\ job' \in Nat /\ clock <= job' /\ job' <= clock + SignalMin
        /\ job # -1 /\ clock <= job => job' <= job
    BY <1>0a, <1>0b, <2>2, <2>4, <2>5, <2>6, <2>8
  <2>10. InTime' 
    BY <1>0, <1>0a, <1>0b, <1>0c, <2>8, <2>9
  <2>11. SignalKept'
    <3>1. CASE signal = -1
      BY <1>0, <1>0a, <1>0b, <1>0c, <2>8, <2>9, <3>1
    <3>2. CASE signal # -1
      BY <1>0, <1>0a, <1>0b, <1>0c, <2>8, <2>9, <3>2
    <3> QED  BY <3>1, <3>2
  <2> QED  BY <1>0a, <1>0b, <2>8, <2>9, <2>10, <2>11
<1>3. CASE Schedule!Suspends
  <2>1. /\ clock + Suspension <= Horizon /\ suspended' = TRUE /\ clock' = clock + Suspension
        /\ job' \in {-1, job} /\ signal' = -1 /\ UNCHANGED <<running, last, stocked, began, ended>>
    BY <1>3 DEF Schedule!Suspends, Schedule!Never
  <2>2. clock' \in Nat /\ clock <= clock'
    BY <1>0b, <2>1, ScheduleConstants
  <2> QED  BY <1>0a, <1>0b, <2>1, <2>2
<1>4. CASE Schedule!TimePasses
  <2>1. /\ clock < Horizon /\ clock' = clock + 1
        /\ ~ (job # -1 /\ job <= clock) /\ ~ (running # -1 /\ clock >= running + MaxRun)
        /\ UNCHANGED <<job, running, last, stocked, began, ended, signal, suspended>>
    BY <1>4 DEF Schedule!TimePasses, Schedule!Urgent, Schedule!Never
  <2> QED  BY <1>0, <1>0a, <1>0b, <1>0c, <2>1
<1>5. ASSUME NEW ok \in BOOLEAN, Schedule!Ends(ok) PROVE ScheduleInv'
  <2>1. stocked' \in BOOLEAN
    BY <1>5 DEF Schedule!Ends
  <2>2. PICK d : d = Schedule!calculate_next_refresh_delay(stocked')
    OBVIOUS
  <2>3. PICK m : m = stocked'
    OBVIOUS
  <2>4. d \in Nat /\ d <= P
    BY <1>0, <1>0b, <2>1, <2>2, <2>3, DelayParts
  <2>5. /\ running # -1 /\ running' = -1 /\ ended' = clock /\ last' \in {clock, last}
        /\ job' = clock + d /\ UNCHANGED <<clock, began, signal, suspended>>
    BY <1>5, <2>2 DEF Schedule!Ends, Schedule!Never
  <2> QED  BY <1>0, <1>0a, <1>0b, <1>0c, <2>1, <2>4, <2>5
<1>6. CASE UNCHANGED Schedule!vars
  BY <1>0c, <1>6 DEF Schedule!vars
<1> QED  BY <1>1, <1>2, <1>3, <1>4, <1>5, <1>6 DEF Schedule!Next

LEMMA ScheduleProperties == ScheduleInv => Schedule!TypeOK /\ RefreshIsServed
<1> SUFFICES ASSUME ScheduleInv PROVE Schedule!TypeOK /\ RefreshIsServed
  OBVIOUS
<1> USE DEF ScheduleInv, ScheduleTyped, InTime, SignalKept
<1>1. PICK P, S, b : P = Schedule!Pause /\ S = Slack /\ b = Schedule!Boundary(clock)
  OBVIOUS
<1>2. /\ P \in Nat /\ S \in Nat /\ S >= P /\ MaxRun \in Nat /\ Horizon \in Nat /\ clock \in Nat
      /\ b \in Int
  BY <1>1, PauseParts, ScheduleConstants, BoundaryIsInt
<1>3. Schedule!TypeOK
  BY <1>2 DEF Schedule!TypeOK, Schedule!Times, Schedule!Never
<1>4. Schedule!BoundaryIsRefreshed
  <2> SUFFICES ASSUME ~ suspended, clock > b + P + MaxRun PROVE began >= b
    BY <1>1 DEF Schedule!BoundaryIsRefreshed
  <2>1. clock <= began + MaxRun + P
    BY <1>1, <1>2
  <2> QED  BY <1>2, <2>1
<1>5. Schedule!SignalIsServed
  <2> SUFFICES ASSUME signal # -1 PROVE clock <= signal + MaxRun + S
    BY <1>1 DEF Schedule!SignalIsServed, Schedule!Never, Slack
  <2> QED  BY <1>1, <1>2
<1> QED  BY <1>3, <1>4, <1>5 DEF RefreshIsServed

\* No boundary of a market and no signal is left without its refresh (cron/scheduler.py), for any
\* lengths of pauses, runs and suspensions.
THEOREM RefreshIsServed_holds == Schedule!Spec => []RefreshIsServed
<1> QED  BY ScheduleInit, ScheduleNext, ScheduleProperties, PTL DEF Schedule!Spec

-----------------------------------------------------------------------------
(* Types *)

\* What the types of the subscription say beyond the invariant above.
Limits ==
  /\ epoch \in 0 .. MaxEpoch /\ fails \in 0 .. MaxFails /\ fresh \in BOOLEAN /\ event \in BOOLEAN
  /\ ws.at = "finds" <=> refresh["ws"] # Idle

LEMMA LimitsNext == HubInv /\ Limits /\ [Next]_vars => Limits'
<1> SUFFICES ASSUME HubInv, Limits, [Next]_vars PROVE Limits'
  OBVIOUS
<1> USE DEF unmoved
<1>0. /\ MaxEpoch \in Nat /\ MaxFails \in Nat
      /\ ws \in [at : {"reads", "finds", "connects", "open"}, tokens : SUBSET Market]
      /\ refresh \in [Refreshers -> Flights \cup {Idle}]
      /\ "ws" \in Refreshers /\ "cron" \in Refreshers /\ "ws" # "cron"
  BY MarketSubscriptionAssumption DEF HubInv, Typed, Refreshers
<1>1. ASSUME CanFail PROVE fails' \in 0 .. MaxFails
  BY <1>0, <1>1 DEF CanFail, Limits
<1>2. ASSUME NEW h, Notifies(h) PROVE event' \in BOOLEAN
  BY <1>2 DEF Notifies
<1>3. ASSUME NEW c \in Clients, Ensures(c) \/ Goes(c) \/ Leaves(c) \/ Crashes(c)
                                \/ (\E i \in Tags : Connects(c, i) \/ SelectsInterval(c, i))
                                \/ \E m \in Market : SelectsMarket(c, m)
      PROVE Limits'
  <2>1. UNCHANGED <<epoch, fresh, ws, refresh>>
    BY <1>3 DEF Ensures, Goes, Leaves, Crashes, Connects, SelectsInterval, SelectsMarket
  <2>2. fails' \in 0 .. MaxFails
    <3>1. UNCHANGED fails \/ CanFail
      BY <1>3 DEF Ensures, Goes, Leaves, Crashes, Connects, SelectsInterval, SelectsMarket
    <3> QED  BY <1>1, <3>1 DEF Limits
  <2>3. event' \in BOOLEAN
    <3>1. UNCHANGED event \/ \E h : Notifies(h)
      BY <1>3 DEF Ensures, Goes, Leaves, Crashes, Connects, SelectsInterval, SelectsMarket
    <3> QED  BY <1>2, <3>1 DEF Limits
  <2> QED  BY <2>1, <2>2, <2>3 DEF Limits
<1>4. ASSUME NEW m \in Market, BroadcastsMarket(m) PROVE Limits'
  BY <1>4 DEF BroadcastsMarket, Limits
<1>5. CASE CronBegins
  BY <1>0, <1>5 DEF CronBegins, Limits
<1>6. ASSUME NEW r \in Refreshers, RefreshAnswers(r) PROVE Limits'
  <2>1. UNCHANGED <<epoch, fails>> /\ fresh' \in BOOLEAN /\ event' \in BOOLEAN
    BY <1>6 DEF RefreshAnswers
  <2>2. refresh[r] # Idle /\ refresh[r].left \in 1 .. Len(Intervals)
    BY <1>0, <1>6, IdleParts DEF RefreshAnswers
  <2>3. CASE refresh[r].left = Len(Intervals)
    <3>1. refresh' = [refresh EXCEPT ![r] = Idle] /\ ws' = IF r = "ws" THEN [ws EXCEPT !.at = "reads"] ELSE ws
      BY <1>6, <2>3 DEF RefreshAnswers
    <3>2. CASE r = "ws"
      BY <1>0, <2>1, <3>1, <3>2 DEF Limits
    <3>3. CASE r # "ws"
      BY <1>0, <2>1, <3>1, <3>3 DEF Limits
    <3> QED  BY <3>2, <3>3
  <2>4. CASE refresh[r].left # Len(Intervals)
    <3>1. PICK f : f = [refresh[r] EXCEPT !.left = @ + 1,
                                          !.answer = Fetched(Intervals[refresh[r].left + 1])]
      OBVIOUS
    <3>2. refresh' = [refresh EXCEPT ![r] = IF refresh[r].left = Len(Intervals) THEN Idle ELSE f]
          /\ ws' = ws
      BY <1>6, <2>4, <3>1 DEF RefreshAnswers
    <3>3. refresh' = [refresh EXCEPT ![r] = f]
      BY <2>4, <3>2
    <3>4. f.left = refresh[r].left + 1 /\ refresh[r].left \in Nat
      BY <1>0, <2>2, <3>1, IdleParts DEF Flights
    <3>5. f # Idle
      BY <3>4, IdleParts
    <3>6. refresh'["ws"] # Idle <=> refresh["ws"] # Idle
      BY <1>0, <2>2, <3>3, <3>5
    <3> QED  BY <2>1, <3>2, <3>6 DEF Limits
  <2> QED  BY <2>3, <2>4
<1>7. ASSUME NEW r \in Refreshers, RefreshFails(r) PROVE Limits'
  <2>1. UNCHANGED <<epoch, fresh, event>> /\ fails' \in 0 .. MaxFails
    BY <1>1, <1>7 DEF RefreshFails
  <2>2. /\ refresh' = [refresh EXCEPT ![r] = Idle]
        /\ ws' = IF r = "ws" THEN [ws EXCEPT !.at = "reads"] ELSE ws
    BY <1>7 DEF RefreshFails
  <2>3. CASE r = "ws"
    BY <1>0, <2>1, <2>2, <2>3 DEF Limits
  <2>4. CASE r # "ws"
    BY <1>0, <2>1, <2>2, <2>4 DEF Limits
  <2> QED  BY <2>3, <2>4
<1>8. CASE Reads
  <2>1. UNCHANGED <<epoch, fresh, event, fails>> /\ ws.at = "reads"
    BY <1>8 DEF Reads
  <2>2. CASE Wanted # {}
    <3>1. ws'.at = "connects" /\ refresh' = refresh
      BY <1>8, <2>2 DEF Reads
    <3> QED  BY <2>1, <3>1 DEF Limits
  <2>3. CASE Wanted = {}
    <3>1. ws' = [ws EXCEPT !.at = "finds"] /\ refresh' = [refresh EXCEPT !["ws"] = Begun]
      BY <1>8, <2>3 DEF Reads
    <3>2. Begun # Idle
      BY BegunParts DEF HubInv
    <3> QED  BY <1>0, <2>1, <3>1, <3>2 DEF Limits
  <2> QED  BY <2>2, <2>3
<1>9. CASE Opens \/ Reconnects \/ Breaks
  <2>1. UNCHANGED <<epoch, fresh, refresh>> /\ event' \in {event, FALSE} /\ (UNCHANGED fails \/ CanFail)
    BY <1>9 DEF Opens, Reconnects, Breaks
  <2>2. ws.at # "finds" /\ ws'.at # "finds"
    BY <1>0, <1>9 DEF Opens, Reconnects, Breaks
  <2> QED  BY <1>1, <2>1, <2>2 DEF Limits
<1>10. CASE EpochMoves
  <2>1. /\ epoch < MaxEpoch /\ epoch' = epoch + 1 /\ fresh' = FALSE
        /\ UNCHANGED <<refresh, event, ws, fails>>
    BY <1>10 DEF EpochMoves
  <2>2. epoch' \in 0 .. MaxEpoch
    BY <1>0, <2>1 DEF Limits
  <2>3. fresh' \in BOOLEAN
    BY <2>1
  <2> QED  BY <2>1, <2>2, <2>3 DEF Limits
<1>11. ASSUME NEW i \in Tags, Publishes(i) PROVE Limits'
  BY <1>11 DEF Publishes, Limits
<1>12. CASE UNCHANGED vars
  BY <1>12 DEF vars, steps, Limits
<1> QED  BY <1>3, <1>4, <1>5, <1>6, <1>7, <1>8, <1>9, <1>10, <1>11, <1>12 DEF Next, Step

LEMMA LimitsInit == Init => Limits
<1> SUFFICES ASSUME Init PROVE Limits
  OBVIOUS
<1>1. ws.at = "reads" /\ refresh["ws"] = Idle
  BY DEF Init, Refreshers
<1>2. epoch = 0 /\ fails = 0 /\ fresh = FALSE /\ event = FALSE /\ MaxEpoch \in Nat /\ MaxFails \in Nat
  BY MarketSubscriptionAssumption DEF Init
<1>3. epoch \in 0 .. MaxEpoch /\ fails \in 0 .. MaxFails
  BY <1>2
<1>4. fresh \in BOOLEAN /\ event \in BOOLEAN
  BY <1>2
<1>5. ws.at = "finds" <=> refresh["ws"] # Idle
  BY <1>1
<1> QED  BY <1>3, <1>4, <1>5 DEF Limits

LEMMA TypesAre == Inv /\ Limits => TypeOK
<1> SUFFICES ASSUME Inv, Limits PROVE TypeOK
  OBVIOUS
<1>1. ASSUME NEW i \in Tags PROVE listed[i] \subseteq {i} \X (0 .. MaxEpoch + 1)
  <2>1. \A m \in Market : m[1] = i => m \in {i} \X (0 .. MaxEpoch + 1)
    BY DEF Market
  <2> QED  BY <2>1 DEF Inv, Published, UpTo
<1>2. ASSUME NEW r \in Refreshers PROVE refresh[r].left \in 0 .. Len(Intervals)
  <2>1. refresh[r] \in Flights \cup {Idle} /\ Len(Intervals) \in Nat
    BY FirstTag DEF Inv, HubInv, Typed
  <2> QED  BY <2>1, IdleParts
<1> QED  BY <1>1, <1>2 DEF TypeOK, Limits, Inv, HubInv, Typed

-----------------------------------------------------------------------------
(* The models together *)

Together == /\ model \in {"windows", "long", "faults", "schedule", "book"}
            /\ Inv /\ Limits /\ ScheduleInv /\ BookInv

LEMMA TogetherInit == MCInit => Together
BY InitInv, LimitsInit, ScheduleInit, BookInit DEF MCInit, Together

LEMMA TogetherNext == Together /\ [MCNext]_all => Together'
<1> SUFFICES ASSUME Together, [MCNext]_all PROVE Together'
  OBVIOUS
<1>1. /\ model' = model /\ [Next]_vars /\ [Schedule!Next]_Schedule!vars /\ [Book!Next]_Book!vars
  BY DEF MCNext, all, scheduleVars, bookVars, Schedule!vars, Book!vars
<1>2. Inv' /\ Limits'
  BY <1>1, NextInv, LimitsNext DEF Together, Inv
<1> QED  BY <1>1, <1>2, ScheduleNext, BookNext DEF Together

\* The variables of each model keep their types: no level above the depth of the store, no refresh
\* forgotten, and the websocket loop waits exactly for its own refresh.
THEOREM TypesOK_holds == MCSpec => []TypesOK
<1>1. Together => TypesOK
  BY TypesAre, ScheduleProperties, BookProperties DEF Together, TypesOK
<1> QED  BY <1>1, TogetherInit, TogetherNext, PTL DEF MCSpec

=============================================================================
