------------------------------- MODULE OrderBook -------------------------------
(***************************************************************************)
(* One side of the order book of one token, from the market channel to the   *)
(* browser (services/polymarket_market_store.py, polymarket_monitor.py).     *)
(* The side is that of the bids; asks differ in the order of prices only.    *)
(***************************************************************************)
EXTENDS Integers, Sequences, FiniteSets, FiniteSetsExt, Functions

CONSTANTS Prices, Sizes,
          Depth,                  \* ORDER_BOOK_DEPTH
          ContextFails,           \* market_price_context may raise
          MaxChanges, MaxBreaks   \* bounds

ConstantsOK ==
  /\ Prices \subseteq Nat \ {0} /\ IsFiniteSet(Prices) /\ Sizes \subseteq Nat \ {0}
  /\ {Depth, MaxChanges, MaxBreaks} \subseteq Nat /\ ContextFails \in BOOLEAN

VARIABLES book,         \* the book at Polymarket: sizes of its prices
          up, channel,  \* the websocket and the messages on their way
          rest,         \* answer of fetch_order_books on its way
          quote,        \* the quote in the store
          pending,      \* _pending_broadcast_intervals has the interval of the token
          loop,         \* broadcast_loop and the quote it holds
          shown,        \* the quote the browser shows
          changes, breaks   \* bounds

vars == <<book, up, channel, rest, quote, pending, loop, shown, changes, breaks>>

Levels  == UNION {[P -> Sizes] : P \in SUBSET Prices}
Empty   == [p \in {} |-> 0]
Absent  == [levels |-> Empty, best |-> -1]

\* best_bid of normalised levels; 0 when there are none.
Best(f) == IF DOMAIN f = {} THEN 0 ELSE Max(DOMAIN f)

\* sorted_levels(...)[:ORDER_BOOK_DEPTH]
Top(f) == Restrict(f, {p \in DOMAIN f : Cardinality({q \in DOMAIN f : q > p}) < Depth})

update_levels(f, p, size) ==
  IF size = 0 THEN Restrict(f, DOMAIN f \ {p})
  ELSE Top([q \in DOMAIN f \cup {p} |-> IF q = p THEN size ELSE f[q]])

Snapshot(f) == [levels |-> Top(f), best |-> Best(f)]

\* update_quote_level: a best price of zero counts as missing.
update_quote_level(q, m) ==
  LET levels == update_levels(q.levels, m.price, m.size) IN
  [levels |-> levels, best |-> IF m.best # 0 THEN m.best ELSE Best(levels)]

\* Variant: what REST says is newer.
merge_quote_fresh(fresh, existing) == fresh

merge_quote(fresh, existing) == IF existing = Absent THEN fresh ELSE existing

------------------------------------------------------------------------------
(* Polymarket *)

Changes(p, size) ==
  /\ changes < MaxChanges /\ changes' = changes + 1
  /\ book' = IF size = 0 THEN Restrict(book, DOMAIN book \ {p})
             ELSE [q \in DOMAIN book \cup {p} |-> IF q = p THEN size ELSE book[q]]
  /\ book' # book
  /\ channel' = IF up THEN Append(channel, [kind |-> "price_change", price |-> p, size |-> size,
                                            best |-> Best(book')]) ELSE channel
  /\ UNCHANGED <<up, rest, quote, pending, loop, shown, breaks>>

\* A subscription begins with the whole book.
Subscribes ==
  /\ ~up /\ quote # Absent
  /\ up' = TRUE /\ channel' = <<[kind |-> "book", levels |-> book]>>
  /\ UNCHANGED <<book, rest, quote, pending, loop, shown, changes, breaks>>

\* The connection ends, or is replaced; what was on its way is lost.
Breaks ==
  /\ up /\ breaks < MaxBreaks /\ breaks' = breaks + 1
  /\ up' = FALSE /\ channel' = <<>>
  /\ UNCHANGED <<book, rest, quote, pending, loop, shown, changes>>

------------------------------------------------------------------------------
(* The store *)

\* handle_raw_message: the message changes the quote, and its interval is queued.
apply_ws_message ==
  /\ channel # <<>>
  /\ LET m == Head(channel) IN
     quote' = IF m.kind = "book" THEN Snapshot(m.levels) ELSE update_quote_level(quote, m)
  /\ channel' = Tail(channel) /\ pending' = TRUE
  /\ UNCHANGED <<book, up, rest, loop, shown, changes, breaks>>

RestAsks == /\ rest = Absent
            /\ rest' = Snapshot(book)
            /\ UNCHANGED <<book, up, channel, quote, pending, loop, shown, changes, breaks>>

\* replace_markets, then the list goes to the browsers.
replace_markets ==
  /\ rest # Absent
  /\ quote' = merge_quote(rest, quote) /\ shown' = quote'
  /\ rest' = Absent
  /\ UNCHANGED <<book, up, channel, pending, loop, changes, breaks>>

------------------------------------------------------------------------------
(* broadcast_loop *)

\* The queue is emptied and the market read; then its price context is asked for.
Reads ==
  /\ loop.at = "sleeps" /\ pending
  /\ loop' = [at |-> "prices", quote |-> quote] /\ pending' = FALSE
  /\ UNCHANGED <<book, up, channel, rest, quote, shown, changes, breaks>>

\* Variant: the queue is emptied again once its quotes were sent.
SendsEmptying ==
  /\ loop.at = "prices"
  /\ shown' = loop.quote /\ loop' = [at |-> "sleeps", quote |-> Absent] /\ pending' = FALSE
  /\ UNCHANGED <<book, up, channel, rest, quote, changes, breaks>>

Sends ==
  /\ loop.at = "prices"
  /\ shown' = loop.quote /\ loop' = [at |-> "sleeps", quote |-> Absent]
  /\ UNCHANGED <<book, up, channel, rest, quote, pending, changes, breaks>>

\* The database fails: nothing catches the exception, and the task ends.
Dies ==
  /\ ContextFails /\ loop.at = "prices"
  /\ loop' = [at |-> "dead", quote |-> Absent]
  /\ UNCHANGED <<book, up, channel, rest, quote, pending, shown, changes, breaks>>

Init ==
  /\ book \in Levels /\ up = FALSE /\ channel = <<>> /\ rest = Absent
  /\ quote = Absent /\ pending = FALSE /\ loop = [at |-> "sleeps", quote |-> Absent]
  /\ shown = Absent /\ changes = 0 /\ breaks = 0

Next ==
  \/ \E p \in Prices : \E size \in Sizes \cup {0} : Changes(p, size)
  \/ Subscribes \/ Breaks \/ apply_ws_message \/ RestAsks \/ replace_markets
  \/ Reads \/ Sends \/ Dies

Spec == Init /\ [][Next]_vars

\* The tasks of the monitor go on while they live; a refresh may be far away.
LiveSpec == Spec /\ WF_vars(Subscribes) /\ WF_vars(apply_ws_message) /\ WF_vars(replace_markets)
                 /\ WF_vars(Reads) /\ WF_vars(Sends)

------------------------------------------------------------------------------
\* Types; the store keeps no more levels than it shows.
TypeOK ==
  /\ book \in Levels /\ {up, pending} \subseteq BOOLEAN
  /\ \A q \in {quote, rest, shown} : q.levels \in Levels /\ Cardinality(DOMAIN q.levels) <= Depth
  /\ loop.at \in {"sleeps", "prices", "dead"}

Read == up /\ channel = <<>>

\* When every message was read, each level in the store is a level of the book: changes
\* are applied to the book they belong to, over reconnections and REST refreshes.
LevelsAreReal ==
  Read => \A p \in DOMAIN quote.levels : p \in DOMAIN book /\ quote.levels[p] = book[p]

\* When every message was read, the best price is that of the book, although the store may
\* no longer have the level.
BestIsReal == Read => quote.best = Best(book)

\* When nothing changes any more, the browser shows what the store has, also when no
\* refresh comes.
QuoteIsShown == <>[](shown = quote)

\* What is queued is sent again and again (polymarket_monitor.py:181).
QueueIsServed == pending ~> ~pending

================================================================================
