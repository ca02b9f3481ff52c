--------------------------- MODULE ChainlinkProofs ---------------------------
(***************************************************************************)
(* Theorems about the three models of the price feed.  ChainlinkCandles, for *)
(* every set of intervals, every width and every number of failures and      *)
(* restarts, when ticks come in order; TwapStream and MarketPrice, for every *)
(* value of their constants, under the names MCPrices gives their            *)
(* properties.                                                               *)
(***************************************************************************)
EXTENDS MCPrices, WellFoundedInduction, TLAPS

-----------------------------------------------------------------------------
(* Windows *)

LEMMA Division ==
  ASSUME NEW w \in Nat \ {0}, NEW a \in Nat
  PROVE  /\ a \div w \in Nat /\ a % w \in Nat /\ a % w < w
         /\ a = (w * (a \div w)) + (a % w)
<1>1. /\ a \div w \in Int /\ a % w \in 0 .. w - 1
      /\ a = (w * (a \div w)) + (a % w)
  OBVIOUS
<1>2. a \div w >= 0
  <2> SUFFICES ASSUME a \div w <= -1 PROVE FALSE
    BY <1>1
  <2>1. w * (a \div w) <= -w
    BY <1>1
  <2> QED  BY <1>1, <2>1
<1> QED  BY <1>1, <1>2

LEMMA MultiplesApart ==
  ASSUME NEW w \in Nat \ {0}, NEW p \in Nat, NEW q \in Nat, p < q
  PROVE  w * p + w <= w * q
<1>1. w * (q - p) >= w
  <2>1. q - p >= 1
    OBVIOUS
  <2> QED  BY <2>1
<1>2. w * (q - p) = w * q - w * p
  OBVIOUS
<1> QED  BY <1>1, <1>2

\* Times of one window, and of two.
LEMMA SameWindow ==
  ASSUME NEW w \in Nat \ {0}, NEW a \in Nat, NEW b \in Nat, a <= b
  PROVE  /\ a - (a % w) <= b - (b % w)
         /\ b - (b % w) <= a => b - (b % w) = a - (a % w)
<1> DEFINE p == a \div w
           q == b \div w
<1>1. /\ p \in Nat /\ q \in Nat /\ w * p \in Nat /\ w * q \in Nat
      /\ a - (a % w) = w * p /\ b - (b % w) = w * q
      /\ w * p <= a /\ a < w * p + w /\ w * q <= b /\ b < w * q + w
  BY Division
<1> HIDE DEF p, q
<1>2. q < p => w * q + w <= w * p
  BY <1>1, MultiplesApart
<1>3. p < q => w * p + w <= w * q
  BY <1>1, MultiplesApart
<1>4. p = q => w * p = w * q
  OBVIOUS
<1> QED  BY <1>1, <1>2, <1>3, <1>4

LEMMA Windows ==
  ASSUME NEW i \in Intervals, NEW t \in Nat
  PROVE  /\ interval_open_time(t, i) \in Nat
         /\ interval_open_time(t, i) <= t /\ t < interval_open_time(t, i) + Width[i]
<1> DEFINE w == Width[i]
<1>1. w \in Nat \ {0}
  BY ChainlinkAssumption
<1> HIDE DEF w
<1>2. t % w \in Nat /\ t % w < w /\ t % w <= t
  <2>1. /\ t \div w \in Nat /\ t % w \in Nat /\ t % w < w
        /\ t = (w * (t \div w)) + (t % w)
    BY <1>1, Division
  <2>2. w * (t \div w) \in Nat
    BY <1>1, <2>1
  <2> QED  BY <2>1, <2>2
<1> QED  BY <1>1, <1>2 DEF interval_open_time, w

LEMMA WindowsInOrder ==
  ASSUME NEW i \in Intervals, NEW s \in Nat, NEW t \in Nat, s <= t
  PROVE  /\ interval_open_time(s, i) <= interval_open_time(t, i)
         /\ interval_open_time(t, i) <= s => interval_open_time(s, i) = interval_open_time(t, i)
BY ChainlinkAssumption, SameWindow DEF interval_open_time

\* Windows do not overlap.
LEMMA NextWindow ==
  ASSUME NEW i \in Intervals, NEW s \in Nat, NEW t \in Nat, s <= t,
         t < interval_open_time(s, i) + Width[i]
  PROVE  interval_open_time(t, i) = interval_open_time(s, i)
<1> DEFINE w == Width[i]
           p == s \div w
           q == t \div w
<1>1. w \in Nat \ {0}
  BY ChainlinkAssumption
<1>2. /\ p \in Nat /\ q \in Nat /\ w * p \in Nat /\ w * q \in Nat
      /\ interval_open_time(s, i) = w * p /\ interval_open_time(t, i) = w * q
      /\ interval_open_time(t, i) <= t
  <2>1. /\ p \in Nat /\ q \in Nat /\ w * p \in Nat /\ w * q \in Nat
        /\ s - (s % w) = w * p /\ t - (t % w) = w * q
    <3>1. p \in Nat /\ s % w \in Nat /\ s = (w * p) + (s % w)
      BY <1>1, Division
    <3>2. q \in Nat /\ t % w \in Nat /\ t = (w * q) + (t % w)
      BY <1>1, Division
    <3> HIDE DEF w, p, q
    <3>3. w * p \in Nat /\ w * q \in Nat
      BY <1>1, <3>1, <3>2
    <3> QED  BY <3>1, <3>2, <3>3
  <2> QED  BY <2>1, Windows DEF interval_open_time
<1>3. interval_open_time(s, i) <= interval_open_time(t, i)
  BY WindowsInOrder
<1> HIDE DEF p, q, w
<1>4. p < q => w * p + w <= w * q
  BY <1>1, <1>2, MultiplesApart
<1>5. q < p => w * q + w <= w * p
  BY <1>1, <1>2, MultiplesApart
<1>6. p = q => w * p = w * q
  OBVIOUS
<1> QED  BY <1>1, <1>2, <1>3, <1>4, <1>5, <1>6 DEF w

LEMMA TimesAreNat == Times \subseteq Nat
BY ChainlinkAssumption DEF Times

LEMMA OpenIsOpen ==
  ASSUME NEW i \in Intervals, NEW t \in Times
  PROVE  interval_open_time(t, i) \in Opens(i) /\ interval_open_time(t, i) \in Times
<1>1. t \in Nat /\ interval_open_time(t, i) \in Nat /\ interval_open_time(t, i) <= t
  BY TimesAreNat, Windows
<1> QED  BY <1>1, ChainlinkAssumption DEF Opens, Times

LEMMA OpensAreOpen ==
  ASSUME NEW i \in Intervals, NEW o \in Opens(i)
  PROVE  o \in Times /\ o \in Nat /\ interval_open_time(o, i) = o
<1>1. PICK t \in Times : o = interval_open_time(t, i)
  BY DEF Opens
<1>2. o \in Times /\ o \in Nat /\ t \in Nat /\ o <= t
  BY <1>1, OpenIsOpen, TimesAreNat, Windows
<1> QED  BY <1>1, <1>2, WindowsInOrder

\* A window opens with a minute, and no minute of it opens before.
LEMMA WindowOfMinutes ==
  ASSUME NEW i \in Intervals, NEW t \in Times
  PROVE  /\ interval_open_time(t, i) \in Opens(Minute)
         /\ interval_open_time(t, i) <= interval_open_time(t, Minute)
<1> DEFINE o == interval_open_time(t, i)
           n == Width[Minute]
<1>1. Minute \in Intervals /\ n \in Nat \ {0} /\ Width[i] \in Nat \ {0} /\ Width[i] % n = 0
  BY ChainlinkAssumption
<1>2. t \in Nat /\ o \in Nat /\ o <= t /\ o \in Times
  BY TimesAreNat, Windows, OpenIsOpen
<1>3. o % n = 0
  <2> DEFINE k == Width[i] \div n
             q == t \div Width[i]
  <2>1. Width[i] = n * k /\ k \in Nat
    <3>1. Width[i] = (n * k) + (Width[i] % n) /\ k \in Nat
      BY <1>1, Division
    <3> QED  BY <1>1, <3>1
  <2>2. o = Width[i] * q /\ q \in Nat
    <3>1. t = (Width[i] * q) + (t % Width[i]) /\ q \in Nat /\ t % Width[i] \in Nat
      BY <1>1, <1>2, Division
    <3>2. Width[i] * q \in Nat
      BY <1>1, <3>1
    <3> QED  BY <1>2, <3>1, <3>2 DEF interval_open_time
  <2>3. PICK r \in Nat : o = n * r
    <3>1. o = n * (k * q) /\ k * q \in Nat
      BY <1>1, <2>1, <2>2
    <3> QED  BY <3>1
  <2> HIDE DEF o, n, k, q
  <2>4. o \div n \in Nat /\ o % n \in Nat /\ o % n < n /\ o = (n * (o \div n)) + (o % n)
    BY <1>1, <1>2, Division
  <2>5. r < o \div n => n * r + n <= n * (o \div n)
    BY <1>1, <2>4, MultiplesApart
  <2>6. o \div n < r => n * (o \div n) + n <= n * r
    BY <1>1, <2>4, MultiplesApart
  <2>7. r = o \div n => n * r = n * (o \div n)
    OBVIOUS
  <2> QED  BY <1>1, <2>3, <2>4, <2>5, <2>6, <2>7
<1>4. interval_open_time(o, Minute) = o
  BY <1>2, <1>3 DEF interval_open_time
<1> HIDE DEF o, n
<1> QED  BY <1>1, <1>2, <1>4, OpenIsOpen, WindowsInOrder DEF o

-----------------------------------------------------------------------------
(* Least and greatest open times *)

LEMMA NatHasLeast ==
  ASSUME NEW S \in SUBSET Nat, S # {}
  PROVE  \E x \in S : \A y \in S : x <= y
<1>1. PICK x \in S : \A y \in S : ~ (<<y, x>> \in OpToRel(<, Nat))
  BY WFMin, NatLessThanWellFounded
<1>2. \A y \in S : ~ (y < x)
  BY <1>1 DEF OpToRel
<1> QED  BY <1>2

LEMMA MinOfTimes ==
  ASSUME NEW S \in SUBSET Times, S # {}
  PROVE  Min(S) \in S /\ \A x \in S : Min(S) <= x
<1>1. \E x \in S : \A y \in S : x <= y
  BY TimesAreNat, NatHasLeast
<1> QED  BY <1>1 DEF Min

LEMMA MaxOfTimes ==
  ASSUME NEW S \in SUBSET Times, S # {}
  PROVE  Max(S) \in S /\ \A x \in S : x <= Max(S)
<1> DEFINE T == {Horizon - x : x \in S}
<1>1. T \in SUBSET Nat /\ T # {}
  <2>1. \A x \in S : Horizon - x \in Nat
    BY ChainlinkAssumption DEF Times
  <2> QED  BY <2>1
<1>2. PICK y \in T : \A z \in T : y <= z
  BY <1>1, NatHasLeast
<1>3. PICK x \in S : y = Horizon - x
  BY <1>2
<1>4. \A z \in S : Horizon - z \in T /\ z \in Nat
  BY TimesAreNat
<1> HIDE DEF T
<1>5. \A z \in S : z <= x
  BY <1>2, <1>3, <1>4, ChainlinkAssumption
<1>6. \E u \in S : \A z \in S : u >= z
  BY <1>4, <1>5
<1>7. Max(S) \in S /\ \A z \in S : Max(S) >= z
  BY <1>6 DEF Max
<1> QED  BY <1>4, <1>7

LEMMA Later ==
  ASSUME NEW a \in Times, NEW b \in Times, a <= b
  PROVE  Max({a, b}) = b
<1>1. Max({a, b}) \in {a, b} /\ b <= Max({a, b})
  BY MaxOfTimes
<1> QED  BY <1>1, TimesAreNat

-----------------------------------------------------------------------------
(* The inductive invariant of rows and of candles in memory *)

\* Ticks come in the order they were observed in.
InOrder == Late = 0

FromFeed(c) == c \in Candles /\ c.source = "chainlink"
Live(c)     == FromFeed(c) /\ ~c.closed

\* A row closed by the stream is older than the window of the newest tick; minutes come from
\* the stream, and of the wider candles only closed ones are stored.
RowKept(i, o) ==
  stored[i][o] # None =>
    /\ stored[i][o] \in Candles /\ stored[i][o].open = o
    /\ stored[i][o].source = "chainlink" =>
         /\ o <= newest
         /\ stored[i][o].closed => o < interval_open_time(newest, i)
    /\ i = Minute => stored[i][o].source = "chainlink"
    /\ i # Minute => stored[i][o].closed

RowsKept == /\ stored = [i \in Intervals |-> [o \in Opens(i) |-> stored[i][o]]]
            /\ \A i \in Intervals : \A o \in Opens(i) : RowKept(i, o)

\* The candle in memory is that of the window of the newest tick.
MemoryKept ==
  \A i \in Intervals :
    IF initialized
    THEN /\ Live(current[i]) /\ current[i].open = interval_open_time(newest, i)
         /\ current[i].last = last_tick[i] /\ last_tick[i] \in current[i].ticks
    ELSE current[i] = None /\ last_tick[i] = Never

Counted == /\ newest \in Times /\ heard \subseteq Times /\ \A t \in heard : t <= newest
           /\ initialized \in BOOLEAN /\ ahead \in BOOLEAN
           /\ failures \in 0 .. MaxFailures /\ restarts \in 0 .. MaxRestarts

Kept == RowsKept /\ MemoryKept /\ Counted

LEMMA CandleIsSome ==
  ASSUME NEW c \in Candles
  PROVE  c # None
<1>1. c.open \in Times
  BY DEF Candles
<1> QED  BY <1>1, TimesAreNat DEF None

LEMMA Aggregated ==
  ASSUME NEW i \in Intervals, NEW t \in Times, NEW b, b = None \/ Live(b),
         NEW c, c = aggregate_spot_candle(b, t, i)
  PROVE  /\ Live(c) /\ c.open = interval_open_time(t, i) /\ c.last = t /\ t \in c.ticks
         /\ b # None /\ b.open = interval_open_time(t, i) =>
              c.complete = b.complete /\ c.ticks = b.ticks \cup {t}
         /\ b = None \/ b.open # interval_open_time(t, i) =>
              c.complete = (t - interval_open_time(t, i) <= Stale)
<1>1. interval_open_time(t, i) \in Times
  BY OpenIsOpen
<1> DEFINE open == interval_open_time(t, i)
<1> HIDE DEF open
<1>2. CASE b # None /\ b.open = open
  <2>1. c = [b EXCEPT !.last = t, !.ticks = @ \cup {t}] /\ b \in Candles
    BY <1>2 DEF aggregate_spot_candle, open, Live, FromFeed
  <2>2. b.ticks \cup {t} \in SUBSET Times
    BY <2>1 DEF Candles
  <2>3. c \in Candles
    BY <2>1, <2>2 DEF Candles
  <2>4. /\ c.open = b.open /\ c.last = t /\ c.ticks = b.ticks \cup {t} /\ c.closed = b.closed
        /\ c.complete = b.complete /\ c.source = b.source
    BY <2>1 DEF Candles
  <2> QED  BY <1>2, <2>3, <2>4 DEF Live, FromFeed, open
<1>3. CASE b = None \/ b.open # open
  <2>1. c = [open |-> open, first |-> t, last |-> t, ticks |-> {t}, closed |-> FALSE,
             complete |-> t - open <= Stale, source |-> "chainlink"]
    BY <1>3 DEF aggregate_spot_candle, open
  <2>2. (t - open <= Stale) \in BOOLEAN /\ open \in Times
    BY <1>1 DEF open
  <2> QED  BY <1>3, <2>1, <2>2 DEF Live, FromFeed, Candles, open
<1> QED  BY <1>2, <1>3

LEMMA ClosedCandle ==
  ASSUME NEW i \in Intervals, NEW tick, NEW b, Live(b), NEW c, c = Closed(b, i, tick)
  PROVE  /\ FromFeed(c) /\ c.closed /\ c.open = b.open /\ c.ticks = b.ticks
         /\ c.complete <=> b.complete /\ tick # Never /\ close_time(b, i) - tick <= Stale
BY DEF Closed, Live, FromFeed, Candles

LEMMA RowsAreTimes ==
  ASSUME NEW i \in Intervals
  PROVE  Rows(i) \in SUBSET Times /\ Opens(i) \in SUBSET Times
BY OpensAreOpen DEF Rows

\* The row that a restart takes for the current candle.
LEMMA OpenRowKept ==
  ASSUME Kept, NEW i \in Intervals, OpenRow(i) # None
  PROVE  /\ i = Minute /\ Live(OpenRow(i)) /\ OpenRow(i).open \in Opens(i)
         /\ OpenRow(i).open <= newest /\ OpenRow(i) = stored[i][OpenRow(i).open]
         /\ \A o \in Rows(i) : o <= OpenRow(i).open
<1> DEFINE m == Max(Rows(i))
<1>1. Rows(i) # {} /\ OpenRow(i) = stored[i][m] /\ ~stored[i][m].closed
  BY DEF OpenRow
<1>2. m \in Rows(i) /\ \A o \in Rows(i) : o <= m
  BY <1>1, RowsAreTimes, MaxOfTimes
<1> HIDE DEF m
<1>3. m \in Opens(i) /\ stored[i][m] # None /\ RowKept(i, m)
  BY <1>2 DEF Rows, Kept, RowsKept
<1> QED  BY <1>1, <1>2, <1>3 DEF RowKept, Live, FromFeed

\* The minutes that a wide candle is rebuilt from.
Minutes(i, now) == {o \in Opens(Minute) : o >= interval_open_time(now, i) /\ o <= now
                                          /\ stored[Minute][o] # None}

Rebuilt(i, now) == aggregate_one_minute_window(stored[Minute], i, now)

LEMMA RebuiltCandle ==
  ASSUME Kept, NEW i \in Intervals, NEW now \in Nat, Rebuilt(i, now) # None,
         interval_open_time(now, i) \in Times
  PROVE  /\ Minutes(i, now) # {}
         /\ Live(Rebuilt(i, now)) /\ Rebuilt(i, now).open = interval_open_time(now, i)
         /\ Rebuilt(i, now).ticks = UNION {stored[Minute][o].ticks : o \in Minutes(i, now)}
         /\ Rebuilt(i, now).complete =>
              /\ \A o \in Minutes(i, now) : stored[Minute][o].complete
              /\ \A o \in Opens(Minute) : o >= interval_open_time(now, i) /\ o <= Max(Minutes(i, now))
                                          => o \in Minutes(i, now)
<1> DEFINE S == Minutes(i, now)
           open == interval_open_time(now, i)
           full == /\ S = {o \in Opens(Minute) : o >= open /\ o <= Max(S)}
                   /\ \A o \in S : stored[Minute][o].complete
<1>1. /\ S # {}
      /\ Rebuilt(i, now) = [open |-> open, first |-> stored[Minute][Min(S)].first,
                            last |-> stored[Minute][Max(S)].last,
                            ticks |-> UNION {stored[Minute][o].ticks : o \in S}, closed |-> FALSE,
                            source |-> "chainlink", complete |-> full]
  BY DEF Rebuilt, aggregate_one_minute_window, Minutes
<1>2. \A o \in S : stored[Minute][o] \in Candles
  BY ChainlinkAssumption DEF Minutes, Kept, RowsKept, RowKept
<1>3. S \in SUBSET Times
  BY ChainlinkAssumption, RowsAreTimes DEF Minutes
<1> HIDE DEF S
<1>4. Min(S) \in S /\ Max(S) \in S
  BY <1>1, <1>3, MinOfTimes, MaxOfTimes
<1>5. stored[Minute][Min(S)].first \in Times /\ stored[Minute][Max(S)].last \in Times
  BY <1>2, <1>4 DEF Candles
<1>6. UNION {stored[Minute][o].ticks : o \in S} \in SUBSET Times
  BY <1>2 DEF Candles
<1>7. full \in BOOLEAN
  OBVIOUS
<1> HIDE DEF full, open
<1>8. Live(Rebuilt(i, now))
  BY <1>1, <1>5, <1>6, <1>7 DEF Live, FromFeed, Candles, open
<1>9. Rebuilt(i, now).complete = full
  BY <1>1
<1> QED  BY <1>1, <1>8, <1>9 DEF S, full, open

\* A candle that a tick finds is that of its window, or an older one that is not closed yet.
LEMMA Found ==
  ASSUME Kept, NEW t \in Times, newest <= t, NEW now \in t .. (t + Lag), NEW i \in Intervals,
         NEW b, b = Before(now)[i], b # None
  PROVE  /\ Live(b) /\ b.open \in Opens(i)
         /\ \/ b.open = interval_open_time(t, i)
            \/ /\ b.open < interval_open_time(t, i) /\ b.open >= interval_open_time(newest, i)
               /\ initialized
            \/ /\ ~initialized /\ i = Minute /\ b = stored[i][b.open]
               /\ b.open < interval_open_time(t, i)
         /\ ~(FromStream(i, b.open) /\ stored[i][b.open].closed /\ b.open # interval_open_time(t, i))
<1>1. /\ newest \in Times /\ newest \in Nat /\ t \in Nat /\ now \in Nat /\ t <= now
      /\ interval_open_time(newest, i) <= interval_open_time(t, i)
  BY TimesAreNat, ChainlinkAssumption, WindowsInOrder DEF Kept, Counted
<1>2. /\ interval_open_time(newest, i) \in Opens(i) /\ interval_open_time(newest, i) \in Nat
      /\ interval_open_time(t, i) \in Nat
  BY <1>1, OpenIsOpen, TimesAreNat
<1>3. CASE initialized
  <2>1. b = current[i] /\ Live(b) /\ b.open = interval_open_time(newest, i)
    BY <1>3 DEF Before, Kept, MemoryKept
  <2>2. RowKept(i, b.open)
    BY <1>2, <2>1 DEF Kept, RowsKept
  <2> QED  BY <1>1, <1>2, <1>3, <2>1, <2>2 DEF RowKept, FromStream
<1>4. CASE ~initialized
  <2>0. Before(now)[i] = Initialized(now)[i]
    BY <1>4 DEF Before
  <2>1. CASE i = Minute \/ Rebuilt(i, now) = None
    <3>1. b = OpenRow(i)
      BY <2>0, <2>1 DEF Initialized, Rebuilt
    <3>2. /\ i = Minute /\ Live(b) /\ b.open \in Opens(i) /\ b.open <= newest
          /\ b = stored[i][b.open]
      BY <3>1, OpenRowKept
    <3>3. b.open \in Nat /\ interval_open_time(b.open, i) = b.open
      BY <3>2, OpensAreOpen
    <3>4. b.open <= interval_open_time(t, i)
      BY <1>1, <3>2, <3>3, WindowsInOrder
    <3>5. ~stored[i][b.open].closed
      BY <3>2 DEF Live
    <3> QED  BY <1>2, <1>4, <3>2, <3>3, <3>4, <3>5
  <2>2. CASE i # Minute /\ Rebuilt(i, now) # None
    <3>1. b = Rebuilt(i, now)
      BY <2>0, <2>2 DEF Initialized, Rebuilt
    <3>2. Minutes(i, now) # {}
      BY <2>2 DEF Rebuilt, aggregate_one_minute_window, Minutes
    <3>3. PICK o \in Opens(Minute) : /\ o >= interval_open_time(now, i) /\ stored[Minute][o] # None
      BY <3>2 DEF Minutes
    <3>4. o <= newest /\ o \in Nat
      BY <3>3, OpensAreOpen, ChainlinkAssumption DEF Kept, RowsKept, RowKept
    <3>5. interval_open_time(now, i) \in Nat
      BY <1>1, Windows
    <3>6. interval_open_time(now, i) = interval_open_time(t, i)
      BY <1>1, <3>3, <3>4, <3>5, WindowsInOrder
    <3>7. interval_open_time(now, i) \in Times /\ interval_open_time(t, i) \in Opens(i)
      BY <3>6, OpenIsOpen
    <3>8. Live(b) /\ b.open = interval_open_time(t, i)
      BY <1>1, <2>2, <3>1, <3>6, <3>7, RebuiltCandle
    <3> QED  BY <3>7, <3>8
  <2> QED  BY <2>1, <2>2
<1>5. initialized \in BOOLEAN
  BY DEF Kept, Counted
<1> QED  BY <1>3, <1>4, <1>5

-----------------------------------------------------------------------------
(* Every step keeps it *)

LEMMA Moved ==
  ASSUME InOrder, Kept, NEW t \in Times, NEW now \in t .. (t + Lag), Published(t),
         Moves(t, Before(now))
  PROVE  /\ newest <= t /\ newest' = t /\ initialized' /\ MemoryKept'
         /\ \A i \in Intervals : current'[i] = aggregate_spot_candle(Before(now)[i], t, i)
<1>1. newest \in Times /\ newest \in Nat /\ t \in Nat
  BY TimesAreNat DEF Kept, Counted
<1>2. newest <= t
  BY <1>1 DEF Published, InOrder
<1>3. newest' = t
  BY <1>1, <1>2, Later DEF Moves
<1>4. /\ initialized'
      /\ \A i \in Intervals : current'[i] = aggregate_spot_candle(Before(now)[i], t, i)
      /\ \A i \in Intervals : last_tick'[i] = t
  BY DEF Moves
<1>5. ASSUME NEW i \in Intervals
      PROVE  /\ Live(current'[i]) /\ current'[i].open = interval_open_time(t, i)
             /\ current'[i].last = t /\ t \in current'[i].ticks
  <2>1. Before(now)[i] = None \/ Live(Before(now)[i])
    BY <1>2, Found
  <2> QED  BY <1>4, <2>1, Aggregated
<1>6. MemoryKept'
  BY <1>3, <1>4, <1>5 DEF MemoryKept, Live, FromFeed, interval_open_time
<1> QED  BY <1>2, <1>3, <1>4, <1>6

LEMMA RowStays ==
  ASSUME NEW i \in Intervals, NEW o \in Opens(i), RowKept(i, o), stored'[i][o] = stored[i][o],
         newest \in Times, newest' \in Times, newest <= newest'
  PROVE  RowKept(i, o)'
<1>1. /\ newest \in Nat /\ newest' \in Nat
      /\ interval_open_time(newest, i) <= interval_open_time(newest', i)
      /\ interval_open_time(newest, i) \in Nat /\ interval_open_time(newest', i) \in Nat
  BY TimesAreNat, WindowsInOrder, Windows
<1>2. o \in Nat
  BY OpensAreOpen
<1>3. interval_open_time(newest, i)' = interval_open_time(newest', i)
  BY DEF interval_open_time
<1> QED  BY <1>1, <1>2, <1>3 DEF RowKept

\* What a tick stores: the row closed now, the minute at hand, or what was there.
LEMMA Stored ==
  ASSUME Kept, NEW t \in Times, newest <= t, NEW now \in t .. (t + Lag),
         NEW i \in Intervals, NEW o \in Opens(i), newest' = t,
         stored'[i][o] = persist(Before(now), t, i, o)
  PROVE  /\ RowKept(i, o)'
         /\ FromStream(i, o) /\ stored[i][o].closed => stored'[i][o] = stored[i][o]
<1> DEFINE b == Before(now)[i]
           open == interval_open_time(t, i)
<1>1. /\ newest \in Times /\ newest \in Nat /\ t \in Nat /\ o \in Nat /\ o \in Times
      /\ open \in Nat /\ open <= t /\ interval_open_time(newest, i) <= open
      /\ interval_open_time(newest, i) \in Nat /\ RowKept(i, o)
  BY TimesAreNat, Windows, WindowsInOrder, OpensAreOpen DEF Kept, Counted, RowsKept
<1>2. interval_open_time(newest', i) = open
  OBVIOUS
<1>3. b # None => /\ Live(b) /\ b.open \in Opens(i)
                  /\ b.open = open \/ b.open < open
                  /\ ~(FromStream(i, b.open) /\ stored[i][b.open].closed /\ b.open # open)
  BY Found
<1> HIDE DEF b, open
<1>4. CASE b # None /\ b.open = o /\ o # open
  <2>1. stored'[i][o] = Closed(b, i, last_tick[i])
    BY <1>4 DEF persist, b, open
  <2>2. FromFeed(stored'[i][o]) /\ stored'[i][o].closed /\ stored'[i][o].open = o
    BY <1>3, <1>4, <2>1, ClosedCandle
  <2>3. o < open /\ o <= t
    BY <1>1, <1>3, <1>4
  <2>4. RowKept(i, o)'
    BY <1>2, <2>2, <2>3 DEF RowKept, FromFeed, interval_open_time
  <2> QED  BY <1>3, <1>4, <2>4
<1>5. CASE ~(b # None /\ b.open = o /\ o # open) /\ i = Minute /\ o = open
  <2>1. stored'[i][o] = aggregate_spot_candle(b, t, i)
    BY <1>5 DEF persist, b, open
  <2>2. b = None \/ Live(b)
    BY <1>3
  <2>3. Live(stored'[i][o]) /\ stored'[i][o].open = o
    BY <1>5, <2>1, <2>2, Aggregated DEF open
  <2>4. RowKept(i, o)'
    BY <1>1, <1>2, <1>5, <2>3 DEF RowKept, Live, FromFeed, interval_open_time
  <2>5. ~(FromStream(i, o) /\ stored[i][o].closed)
    BY <1>1, <1>5 DEF FromStream, RowKept
  <2> QED  BY <2>4, <2>5
<1>6. CASE ~(b # None /\ b.open = o /\ o # open) /\ ~(i = Minute /\ o = open)
  <2>1. stored'[i][o] = stored[i][o]
    BY <1>6 DEF persist, b, open
  <2> QED  BY <1>1, <2>1, RowStays
<1> QED  BY <1>4, <1>5, <1>6

LEMMA Handles_keeps ==
  ASSUME InOrder, Kept, NEW t \in Times, NEW now \in t .. (t + Lag), Handles(t, now)
  PROVE  /\ Kept'
         /\ \A i \in Intervals : \A o \in Opens(i) :
              FromStream(i, o) /\ stored[i][o].closed => stored'[i][o] = stored[i][o]
<1>1. /\ Published(t) /\ Moves(t, Before(now)) /\ heard' = heard \cup {t}
      /\ stored' = [i \in Intervals |-> [o \in Opens(i) |-> persist(Before(now), t, i, o)]]
      /\ UNCHANGED <<failures, restarts>>
  BY DEF Handles
<1>2. newest <= t /\ newest' = t /\ initialized' /\ MemoryKept'
  BY <1>1, Moved
<1>3. ASSUME NEW i \in Intervals, NEW o \in Opens(i)
      PROVE  /\ RowKept(i, o)'
             /\ FromStream(i, o) /\ stored[i][o].closed => stored'[i][o] = stored[i][o]
  <2>1. stored'[i][o] = persist(Before(now), t, i, o)
    BY <1>1
  <2> QED  BY <1>2, <2>1, Stored
<1>4. RowsKept'
  <2>1. stored' = [i \in Intervals |-> [o \in Opens(i) |-> stored'[i][o]]]
    BY <1>1
  <2> QED  BY <1>3, <2>1 DEF RowsKept, Opens, interval_open_time
<1>5. Counted'
  <2>1. newest \in Nat /\ t \in Nat /\ \A s \in heard : s \in Times /\ s \in Nat /\ s <= newest
    BY TimesAreNat DEF Kept, Counted
  <2>2. heard' \subseteq Times /\ \A s \in heard' : s <= newest'
    BY <1>1, <1>2, <2>1
  <2>3. initialized' = TRUE /\ ahead' \in BOOLEAN
    BY <1>1 DEF Moves, Handles, HandleFails, Overtakes, Kept, Counted
  <2> QED  BY <1>1, <1>2, <2>2, <2>3 DEF Kept, Counted
<1> QED  BY <1>2, <1>3, <1>4, <1>5 DEF Kept

LEMMA HandleFails_keeps ==
  ASSUME InOrder, Kept, NEW t \in Times, NEW now \in t .. (t + Lag), HandleFails(t, now)
  PROVE  Kept'
<1>1. /\ Published(t) /\ Moves(t, Before(now)) /\ UNCHANGED <<stored, heard, restarts>>
      /\ failures < MaxFailures /\ failures' = failures + 1
  BY DEF HandleFails
<1>2. newest <= t /\ newest' = t /\ initialized' /\ MemoryKept'
  BY <1>1, Moved
<1>3. ASSUME NEW i \in Intervals, NEW o \in Opens(i) PROVE RowKept(i, o)'
  BY <1>1, <1>2, RowStays DEF Kept, RowsKept, Counted
<1>4. RowsKept'
  BY <1>1, <1>3 DEF Kept, RowsKept, Opens, interval_open_time
<1>5. Counted'
  <2>1. newest \in Nat /\ t \in Nat /\ \A s \in heard : s \in Nat /\ s <= newest
    BY TimesAreNat DEF Kept, Counted
  <2>2. heard' \subseteq Times /\ \A s \in heard' : s <= newest'
    BY <1>1, <1>2, <2>1 DEF Kept, Counted
  <2>3. initialized' = TRUE /\ ahead' \in BOOLEAN
    BY <1>1 DEF Moves, Handles, HandleFails, Overtakes, Kept, Counted
  <2>4. failures' \in 0 .. MaxFailures
    BY <1>1, ChainlinkAssumption DEF Kept, Counted
  <2> QED  BY <1>1, <1>2, <2>2, <2>3, <2>4 DEF Kept, Counted
<1> QED  BY <1>2, <1>4, <1>5 DEF Kept

\* An official result takes a free place only.
LEMMA OfficialResult_keeps ==
  ASSUME Kept, NEW i \in Intervals, NEW o \in Opens(i), OfficialResult(i, o)
  PROVE  /\ Kept'
         /\ \A j \in Intervals : \A p \in Opens(j) :
              FromStream(j, p) /\ stored[j][p].closed => stored'[j][p] = stored[j][p]
<1> DEFINE c == [open |-> o, first |-> o, last |-> o, ticks |-> {}, closed |-> TRUE,
                 complete |-> FALSE, source |-> "polymarket"]
<1>1. /\ i # Minute /\ stored[i][o] = None /\ stored' = [stored EXCEPT ![i][o] = c]
      /\ UNCHANGED <<current, last_tick, initialized, newest, heard, ahead, failures, restarts>>
  BY DEF OfficialResult
<1>2. o \in Times
  BY OpensAreOpen
<1>3. c \in Candles /\ c.open = o /\ c.closed /\ c.source = "polymarket"
  BY <1>2 DEF Candles
<1> HIDE DEF c
<1>4. stored = [j \in Intervals |-> [p \in Opens(j) |-> stored[j][p]]]
  BY DEF Kept, RowsKept
<1>5. ASSUME NEW j \in Intervals, NEW p \in Opens(j)
      PROVE  stored'[j][p] = IF j = i /\ p = o THEN c ELSE stored[j][p]
  BY <1>1, <1>4
<1>6. stored' = [j \in Intervals |-> [p \in Opens(j) |-> stored'[j][p]]]
  BY <1>1, <1>4
<1>7. ASSUME NEW j \in Intervals, NEW p \in Opens(j) PROVE RowKept(j, p)'
  BY <1>1, <1>3, <1>5, <1>7 DEF Kept, RowsKept, RowKept, interval_open_time
<1>8. RowsKept'
  BY <1>6, <1>7 DEF RowsKept, Opens, interval_open_time
<1>9. MemoryKept' /\ Counted'
  BY <1>1 DEF Kept, MemoryKept, Counted, interval_open_time
<1>10. \A j \in Intervals : \A p \in Opens(j) : FromStream(j, p) => stored'[j][p] = stored[j][p]
  BY <1>1, <1>5 DEF FromStream
<1> QED  BY <1>8, <1>9, <1>10 DEF Kept

LEMMA Restart_keeps ==
  ASSUME Kept, Restart
  PROVE  Kept'
<1>1. /\ restarts < MaxRestarts /\ restarts' = restarts + 1
      /\ current' = [i \in Intervals |-> None] /\ last_tick' = [i \in Intervals |-> Never]
      /\ initialized' = FALSE /\ UNCHANGED <<stored, newest, heard, ahead, failures>>
  BY DEF Restart
<1>2. RowsKept'
  <2>1. \A i \in Intervals : \A o \in Opens(i) : RowKept(i, o)'
    BY <1>1, RowStays DEF Kept, RowsKept, Counted, RowKept, interval_open_time
  <2> QED  BY <1>1, <2>1 DEF Kept, RowsKept, Opens, interval_open_time
<1>3. MaxRestarts \in Nat
  BY ChainlinkAssumption
<1>4. restarts' \in 0 .. MaxRestarts
  BY <1>1, <1>3 DEF Kept, Counted
<1>5. MemoryKept' /\ Counted'
  BY <1>1, <1>4 DEF Kept, MemoryKept, Counted
<1> QED  BY <1>2, <1>5 DEF Kept

LEMMA Init_Kept ==
  ASSUME Init
  PROVE  Kept
<1>1. /\ stored = [i \in Intervals |-> [o \in Opens(i) |-> None]]
      /\ \A i \in Intervals : current[i] = None /\ last_tick[i] = Never
      /\ initialized = FALSE /\ newest = 0 /\ heard = {} /\ ahead = FALSE /\ failures = 0 /\ restarts = 0
  BY DEF Init
<1>2. RowsKept
  <2>1. \A i \in Intervals : \A o \in Opens(i) : stored[i][o] = None
    BY <1>1
  <2> QED  BY <1>1, <2>1 DEF RowsKept, RowKept
<1>3. 0 \in Times /\ MaxFailures \in Nat /\ MaxRestarts \in Nat
  BY ChainlinkAssumption DEF Times
<1>4. MemoryKept
  BY <1>1 DEF MemoryKept
<1>5. Counted
  <2>1. newest \in Times /\ heard \subseteq Times /\ \A t \in heard : t <= newest
    BY <1>1, <1>3
  <2>2. initialized \in BOOLEAN /\ ahead \in BOOLEAN
    BY <1>1
  <2>3. failures \in 0 .. MaxFailures /\ restarts \in 0 .. MaxRestarts
    BY <1>1, <1>3
  <2> QED  BY <2>1, <2>2, <2>3 DEF Counted
<1> QED  BY <1>2, <1>4, <1>5 DEF Kept

ClosedStays == \A i \in Intervals : \A o \in Opens(i) :
                 FromStream(i, o) /\ stored[i][o].closed => stored'[i][o] = stored[i][o]

LEMMA Next_Kept ==
  ASSUME InOrder, Kept, [Next]_vars
  PROVE  Kept' /\ ClosedStays
<1>1. ASSUME NEW t \in Times, NEW now \in t .. (t + Lag), Handles(t, now) \/ HandleFails(t, now)
      PROVE  Kept' /\ ClosedStays
  <2>1. HandleFails(t, now) => ClosedStays
    BY DEF HandleFails, ClosedStays
  <2> QED  BY <1>1, <2>1, Handles_keeps, HandleFails_keeps DEF ClosedStays
<1>2. ASSUME NEW i \in Intervals, NEW o \in Opens(i), OfficialResult(i, o)
      PROVE  Kept' /\ ClosedStays
  BY <1>2, OfficialResult_keeps DEF ClosedStays
<1>3. CASE Restart
  BY <1>3, Restart_keeps DEF Restart, ClosedStays
<1>4. CASE UNCHANGED vars
  BY <1>4 DEF vars, Kept, RowsKept, RowKept, MemoryKept, Counted, Opens, interval_open_time, ClosedStays
<1> QED  BY <1>1, <1>2, <1>3, <1>4 DEF Next

LEMMA Spec_Kept == ASSUME InOrder PROVE Spec => []Kept
BY Init_Kept, Next_Kept, PTL DEF Spec

\* The types, for all intervals and bounds, when ticks come in order.
THEOREM ChainlinkTypeCorrect == ASSUME InOrder PROVE Spec => []TypeOK
<1>1. Kept => TypeOK
  BY DEF Kept, RowsKept, RowKept, MemoryKept, Counted, Live, FromFeed, TypeOK
<1> QED  BY <1>1, Spec_Kept, PTL

\* A closed candle from the stream is final, whatever fails, restarts or is settled officially.
THEOREM ClosedIsFinal_holds == ASSUME InOrder PROVE Spec => ClosedIsFinal
<1>1. Kept /\ [Next]_vars => [ClosedStays]_vars
  BY Next_Kept
<1>2. ClosedIsFinal <=> [][ClosedStays]_vars
  BY DEF ClosedIsFinal, ClosedStays
<1> QED  BY <1>1, <1>2, Spec_Kept, PTL DEF Spec

-----------------------------------------------------------------------------
(* What a candle marked as complete has *)

\* A tick is handled so soon that the clock cannot be in the next window while the tick is
\* near the start of its own.
Prompt == \A i \in Intervals : Stale + Lag < Width[i]

\* The ticks H of its window are in the candle, and it was heard near its start.
Whole(c, i, H) ==
  c.complete => /\ \A t \in H : interval_open_time(t, i) = c.open => t \in c.ticks
                /\ \E t \in c.ticks : t - c.open <= Stale

HeardToTheEnd(c, i) == c.closed /\ c.complete => \E t \in c.ticks : close_time(c, i) - t <= Stale

RowWhole(i, o, H) == FromStream(i, o) => Whole(stored[i][o], i, H) /\ HeardToTheEnd(stored[i][o], i)

Accounted == /\ \A t \in heard : stored[Minute][interval_open_time(t, Minute)] # None
             /\ \A i \in Intervals : \A o \in Opens(i) : RowWhole(i, o, heard)
             /\ initialized => \A i \in Intervals : Whole(current[i], i, heard)

LEMMA RebuiltWhole ==
  ASSUME Kept, Accounted, NEW i \in Intervals, NEW now \in Nat, newest <= now,
         interval_open_time(now, i) \in Opens(Minute), Rebuilt(i, now) # None
  PROVE  Whole(Rebuilt(i, now), i, heard)
<1> DEFINE c == Rebuilt(i, now)
           open == interval_open_time(now, i)
           S == Minutes(i, now)
<1>1. open \in Times /\ open \in Nat /\ Minute \in Intervals
  BY ChainlinkAssumption, OpensAreOpen
<1>2. /\ S # {} /\ Live(c) /\ c.open = open
      /\ c.ticks = UNION {stored[Minute][o].ticks : o \in S}
      /\ c.complete => /\ \A o \in S : stored[Minute][o].complete
                       /\ \A o \in Opens(Minute) : o >= open /\ o <= Max(S) => o \in S
  BY <1>1, RebuiltCandle
<1>3. \A o \in S : o \in Opens(Minute) /\ stored[Minute][o] # None /\ o \in Nat /\ o >= open
  BY <1>1, OpensAreOpen DEF Minutes
<1>4. \A o \in Opens(Minute) : o >= open /\ o <= now /\ stored[Minute][o] # None => o \in S
  BY DEF Minutes
<1> HIDE DEF c, S
<1>5. \A o \in S : /\ RowKept(Minute, o) /\ RowWhole(Minute, o, heard)
                   /\ FromStream(Minute, o) /\ stored[Minute][o].open = o
  BY <1>1, <1>3 DEF Kept, RowsKept, Accounted, RowKept, FromStream
<1> SUFFICES ASSUME c.complete
             PROVE  /\ \A t \in heard : interval_open_time(t, i) = open => t \in c.ticks
                    /\ \E t \in c.ticks : t - open <= Stale
  BY <1>2 DEF Whole, c
<1>6. ASSUME NEW t \in heard, interval_open_time(t, i) = open PROVE t \in c.ticks
  <2> DEFINE o == interval_open_time(t, Minute)
  <2>1. t \in Times /\ t \in Nat /\ newest \in Nat /\ t <= newest
    BY TimesAreNat DEF Kept, Counted
  <2>2. /\ o \in Opens(Minute) /\ o \in Nat /\ o <= t /\ open <= o
        /\ stored[Minute][o] # None
    BY <1>1, <1>6, <2>1, OpenIsOpen, Windows, WindowOfMinutes DEF Accounted
  <2> HIDE DEF o
  <2>3. o \in S
    BY <1>1, <1>4, <2>1, <2>2
  <2>4. t \in stored[Minute][o].ticks
    BY <1>2, <1>5, <2>3 DEF RowWhole, Whole, o
  <2> QED  BY <1>2, <2>3, <2>4
<1>7. \E t \in c.ticks : t - open <= Stale
  <2>1. S \in SUBSET Times
    BY <1>1, <1>3, OpensAreOpen
  <2>2. Max(S) \in S /\ Max(S) >= open
    BY <1>2, <1>3, <2>1, MaxOfTimes
  <2>3. open \in S
    BY <1>1, <1>2, <2>2
  <2>4. \E t \in stored[Minute][open].ticks : t - open <= Stale
    BY <1>2, <1>5, <2>3 DEF RowWhole, Whole
  <2> QED  BY <1>2, <2>3, <2>4
<1> QED  BY <1>6, <1>7

LEMMA FoundWhole ==
  ASSUME Kept, Accounted, NEW t \in Times, newest <= t, NEW now \in t .. (t + Lag),
         NEW i \in Intervals, NEW b, b = Before(now)[i], b # None
  PROVE  Whole(b, i, heard)
<1>1. now \in Nat /\ t \in Nat /\ newest \in Nat /\ initialized \in BOOLEAN
  BY TimesAreNat, ChainlinkAssumption DEF Kept, Counted
<1>2. CASE initialized
  BY <1>2 DEF Before, Accounted
<1>3. CASE ~initialized
  <2>1. b = Initialized(now)[i]
    BY <1>3 DEF Before
  <2>2. CASE i = Minute \/ Rebuilt(i, now) = None
    <3>1. b = OpenRow(i)
      BY <2>1, <2>2 DEF Initialized, Rebuilt
    <3>2. b.open \in Opens(i) /\ b = stored[i][b.open] /\ Live(b)
      BY <3>1, OpenRowKept
    <3>3. RowWhole(i, b.open, heard) /\ FromStream(i, b.open)
      BY <3>2 DEF Accounted, FromStream, Live, FromFeed
    <3> QED  BY <3>2, <3>3 DEF RowWhole
  <2>3. CASE i # Minute /\ Rebuilt(i, now) # None
    <3>1. b = Rebuilt(i, now)
      BY <2>1, <2>3 DEF Initialized, Rebuilt
    <3>2. b.open = interval_open_time(now, i)
      BY <3>1 DEF Rebuilt, aggregate_one_minute_window
    <3>3. b.open \in Opens(i)
      BY Found
    <3>4. b.open \in Opens(Minute)
      BY <3>3, OpensAreOpen, WindowOfMinutes
    <3> QED  BY <1>1, <2>3, <3>1, <3>2, <3>4, RebuiltWhole
  <2> QED  BY <2>2, <2>3
<1> QED  BY <1>1, <1>2, <1>3

\* A candle that starts anew late in its window is incomplete; one that starts near its
\* beginning has missed nothing.
LEMMA NothingMissed ==
  ASSUME Prompt, Kept, Accounted, NEW t \in Times, newest <= t, NEW now \in t .. (t + Lag),
         NEW i \in Intervals, NEW b, b = Before(now)[i],
         b = None \/ b.open # interval_open_time(t, i),
         t - interval_open_time(t, i) <= Stale,
         NEW s \in heard
  PROVE  interval_open_time(s, i) # interval_open_time(t, i)
<1> DEFINE open == interval_open_time(t, i)
           o == interval_open_time(s, Minute)
<1> SUFFICES ASSUME interval_open_time(s, i) = open PROVE FALSE
  OBVIOUS
<1>1. /\ now \in Nat /\ t \in Nat /\ newest \in Nat /\ newest \in Times /\ s \in Times /\ s \in Nat
      /\ s <= newest /\ t <= now /\ now <= t + Lag /\ initialized \in BOOLEAN
      /\ Minute \in Intervals /\ Width[i] \in Nat /\ Stale \in Nat /\ Lag \in Nat
  BY TimesAreNat, ChainlinkAssumption DEF Kept, Counted
<1>2. /\ open \in Nat /\ open <= t /\ t < open + Width[i]
      /\ open <= s
  BY <1>1, Windows
<1>3. interval_open_time(newest, i) = open
  BY <1>1, <1>2, WindowsInOrder
<1>4. /\ o \in Opens(Minute) /\ o \in Nat /\ open <= o /\ o <= s /\ stored[Minute][o] # None
  BY <1>1, OpenIsOpen, Windows, WindowOfMinutes DEF Accounted
<1> HIDE DEF open, o
<1>5. CASE initialized
  <2>1. b # None /\ b.open = open
    BY <1>3, <1>5, CandleIsSome DEF Before, Kept, MemoryKept, Live, FromFeed
  <2> QED  BY <2>1 DEF open
<1>6. CASE ~initialized /\ i # Minute
  <2>1. interval_open_time(now, i) = open
    <3>1. now < open + Width[i]
      BY <1>1, <1>2 DEF Prompt, open
    <3>2. interval_open_time(now, i) \in Nat /\ open <= interval_open_time(now, i)
      BY <1>1, Windows, WindowsInOrder DEF open
    <3>3. open \in Times /\ interval_open_time(open, i) = open
      BY OpenIsOpen, OpensAreOpen DEF open
    <3> QED  BY <1>1, <1>2, <3>1, <3>2, <3>3, NextWindow
  <2>2. o \in Minutes(i, now)
    BY <1>1, <1>4, <2>1 DEF Minutes
  <2>3. b = Rebuilt(i, now) /\ b # None /\ b.open = open
    <3>1. b = Initialized(now)[i]
      BY <1>6 DEF Before
    <3>2. Rebuilt(i, now).open = open
      BY <2>1, <2>2 DEF Rebuilt, aggregate_one_minute_window, Minutes
    <3>3. Rebuilt(i, now) # None
      BY <1>2, <3>2 DEF None
    <3> QED  BY <1>6, <3>1, <3>2, <3>3 DEF Initialized, Rebuilt
  <2> QED  BY <2>3 DEF open
<1>7. CASE ~initialized /\ i = Minute
  <2>1. b = OpenRow(i) /\ o = open
    BY <1>7 DEF Before, Initialized, o
  <2>2. o \in Rows(i)
    BY <1>4, <1>7 DEF Rows
  <2>3. ASSUME NEW p \in Rows(i) PROVE p <= o
    <3>1. p \in Opens(i) /\ p \in Nat /\ interval_open_time(p, i) = p /\ stored[i][p] # None
      BY OpensAreOpen DEF Rows
    <3>2. p <= newest
      BY <1>7, <3>1 DEF Kept, RowsKept, RowKept
    <3> QED  BY <1>1, <1>3, <2>1, <3>1, <3>2, WindowsInOrder
  <2>4. Max(Rows(i)) = o
    <3>1. Max(Rows(i)) \in Rows(i) /\ o <= Max(Rows(i))
      BY <2>2, RowsAreTimes, MaxOfTimes
    <3>2. Max(Rows(i)) \in Nat
      BY <3>1, OpensAreOpen DEF Rows
    <3> QED  BY <1>4, <2>3, <3>1, <3>2
  <2>5. RowKept(i, o) /\ stored[i][o] # None
    BY <1>4, <1>7 DEF Kept, RowsKept
  <2>6. ~stored[i][o].closed
    BY <1>2, <1>3, <1>4, <1>7, <2>1, <2>5 DEF RowKept
  <2>7. OpenRow(i) = stored[i][o]
    BY <2>2, <2>4, <2>6 DEF OpenRow
  <2> QED  BY <2>1, <2>5, <2>7 DEF RowKept, open
<1> QED  BY <1>1, <1>5, <1>6, <1>7

LEMMA AggregatedWhole ==
  ASSUME Prompt, Kept, Accounted, NEW t \in Times, newest <= t, NEW now \in t .. (t + Lag),
         NEW i \in Intervals, NEW b, b = Before(now)[i],
         NEW c, c = aggregate_spot_candle(b, t, i)
  PROVE  Whole(c, i, heard \cup {t})
<1>1. b = None \/ Live(b)
  BY Found
<1>2. /\ c.open = interval_open_time(t, i) /\ t \in c.ticks
      /\ b # None /\ b.open = interval_open_time(t, i) =>
           c.complete = b.complete /\ c.ticks = b.ticks \cup {t}
      /\ b = None \/ b.open # interval_open_time(t, i) =>
           c.complete = (t - interval_open_time(t, i) <= Stale)
  BY <1>1, Aggregated
<1>3. CASE b # None /\ b.open = interval_open_time(t, i)
  <2>1. Whole(b, i, heard)
    BY <1>3, FoundWhole
  <2> QED  BY <1>2, <1>3, <2>1 DEF Whole
<1>4. CASE b = None \/ b.open # interval_open_time(t, i)
  <2> SUFFICES ASSUME c.complete
               PROVE  /\ \A s \in heard \cup {t} : interval_open_time(s, i) = c.open => s \in c.ticks
                      /\ \E s \in c.ticks : s - c.open <= Stale
    BY DEF Whole
  <2>1. t - interval_open_time(t, i) <= Stale
    BY <1>2, <1>4
  <2>2. \A s \in heard : interval_open_time(s, i) # c.open
    BY <1>2, <1>4, <2>1, NothingMissed
  <2> QED  BY <1>2, <2>1, <2>2
<1> QED  BY <1>3, <1>4

LEMMA Fewer ==
  ASSUME NEW c, NEW i, NEW G, NEW H, H \subseteq G, Whole(c, i, G)
  PROVE  Whole(c, i, H)
BY DEF Whole

LEMMA ClosedWhole ==
  ASSUME Prompt, Kept, Accounted, NEW t \in Times, newest <= t, NEW now \in t .. (t + Lag),
         NEW i \in Intervals, NEW b, b = Before(now)[i], b # None,
         b.open # interval_open_time(t, i), NEW c, c = Closed(b, i, last_tick[i])
  PROVE  Whole(c, i, heard \cup {t}) /\ HeardToTheEnd(c, i)
<1>1. Live(b)
  BY Found
<1>2. /\ c.open = b.open /\ c.ticks = b.ticks
      /\ c.complete <=> b.complete /\ last_tick[i] # Never /\ close_time(b, i) - last_tick[i] <= Stale
  BY <1>1, ClosedCandle
<1>3. Whole(b, i, heard)
  BY FoundWhole
<1>4. Whole(c, i, heard \cup {t})
  BY <1>2, <1>3 DEF Whole
<1>5. ASSUME c.complete PROVE last_tick[i] \in b.ticks
  <2>1. initialized
    BY <1>2, <1>5 DEF Kept, MemoryKept
  <2> QED  BY <2>1 DEF Before, Kept, MemoryKept
<1>6. close_time(c, i) = close_time(b, i)
  BY <1>2 DEF close_time
<1> QED  BY <1>2, <1>4, <1>5, <1>6 DEF HeardToTheEnd

LEMMA StoredWhole ==
  ASSUME Prompt, Kept, Accounted, NEW t \in Times, newest <= t, NEW now \in t .. (t + Lag),
         NEW i \in Intervals, NEW o \in Opens(i), heard' = heard \cup {t},
         stored'[i][o] = persist(Before(now), t, i, o)
  PROVE  RowWhole(i, o, heard)'
<1> DEFINE b == Before(now)[i]
           open == interval_open_time(t, i)
           c == stored'[i][o]
<1> SUFFICES ASSUME FromStream(i, o)'
             PROVE  Whole(c, i, heard \cup {t}) /\ HeardToTheEnd(c, i)
  BY DEF RowWhole, Whole, HeardToTheEnd, close_time, interval_open_time
<1>1. CASE b # None /\ b.open = o /\ o # open
  BY <1>1, ClosedWhole DEF persist
<1>2. CASE ~(b # None /\ b.open = o /\ o # open) /\ i = Minute /\ o = open
  <2>1. c = aggregate_spot_candle(b, t, i)
    BY <1>2 DEF persist
  <2>2. b = None \/ Live(b)
    BY Found
  <2> HIDE DEF c, b
  <2>3. Whole(c, i, heard \cup {t})
    BY <2>1, AggregatedWhole DEF b
  <2>4. ~c.closed
    BY <2>1, <2>2, Aggregated DEF Live
  <2> QED  BY <2>3, <2>4 DEF HeardToTheEnd
<1>3. CASE ~(b # None /\ b.open = o /\ o # open) /\ ~(i = Minute /\ o = open)
  <2>1. c = stored[i][o]
    BY <1>3 DEF persist
  <2>2. FromStream(i, o)
    BY <2>1 DEF FromStream
  <2>3. Whole(c, i, heard) /\ HeardToTheEnd(c, i)
    BY <2>1, <2>2 DEF Accounted, RowWhole
  <2>4. RowKept(i, o) /\ newest \in Nat /\ t \in Nat /\ o \in Nat
    BY TimesAreNat, OpensAreOpen DEF Kept, RowsKept, Counted
  <2>5. open # o
    <3>1. CASE i = Minute
      BY <1>3, <3>1
    <3>2. CASE i # Minute
      <4>1. o < interval_open_time(newest, i)
        BY <2>2, <2>4, <3>2 DEF RowKept, FromStream
      <4>2. interval_open_time(newest, i) <= open /\ interval_open_time(newest, i) \in Nat /\ open \in Nat
        BY <2>4, Windows, WindowsInOrder
      <4> QED  BY <2>4, <4>1, <4>2
    <3> QED  BY <3>1, <3>2
  <2>6. c.open = o
    BY <2>1, <2>2, <2>4 DEF RowKept, FromStream
  <2> HIDE DEF c
  <2> QED  BY <2>3, <2>5, <2>6 DEF Whole
<1> QED  BY <1>1, <1>2, <1>3

LEMMA MovesAccounted ==
  ASSUME InOrder, Prompt, Kept, Accounted, NEW t \in Times, NEW now \in t .. (t + Lag),
         Published(t), Moves(t, Before(now)), heard' \subseteq heard \cup {t}
  PROVE  \A i \in Intervals : Whole(current[i], i, heard)'
<1>1. /\ newest <= t
      /\ \A i \in Intervals : current'[i] = aggregate_spot_candle(Before(now)[i], t, i)
  BY Moved
<1>2. ASSUME NEW i \in Intervals PROVE Whole(current'[i], i, heard')
  <2>1. Whole(current'[i], i, heard \cup {t})
    BY <1>1, AggregatedWhole
  <2> QED  BY <2>1, Fewer
<1> QED  BY <1>2 DEF Whole, interval_open_time

LEMMA Handles_accounts ==
  ASSUME InOrder, Prompt, Kept, Accounted, NEW t \in Times, NEW now \in t .. (t + Lag),
         Handles(t, now)
  PROVE  Accounted'
<1>1. /\ Published(t) /\ Moves(t, Before(now)) /\ heard' = heard \cup {t}
      /\ stored' = [i \in Intervals |-> [o \in Opens(i) |-> persist(Before(now), t, i, o)]]
      /\ newest <= t
  BY Moved DEF Handles
<1>2. \A i \in Intervals : \A o \in Opens(i) : stored'[i][o] = persist(Before(now), t, i, o)
  BY <1>1
<1>3. \A i \in Intervals : \A o \in Opens(i) : RowWhole(i, o, heard)'
  BY <1>1, <1>2, StoredWhole
<1>4. ASSUME NEW s \in heard' PROVE stored'[Minute][interval_open_time(s, Minute)] # None
  <2> DEFINE o == interval_open_time(s, Minute)
             b == Before(now)[Minute]
  <2>1. Minute \in Intervals /\ s \in Times /\ o \in Opens(Minute)
    BY <1>1, ChainlinkAssumption, OpenIsOpen DEF Kept, Counted
  <2>2. stored'[Minute][o] = persist(Before(now), t, Minute, o)
    BY <1>2, <2>1
  <2>3. b = None \/ Live(b)
    BY <1>1, <2>1, Found
  <2> HIDE DEF o, b
  <2>4. CASE b # None /\ b.open = o /\ o # interval_open_time(t, Minute)
    <3>1. stored'[Minute][o] = Closed(b, Minute, last_tick[Minute])
      BY <2>2, <2>4 DEF persist, b
    <3> QED  BY <2>1, <2>3, <2>4, <3>1, ClosedCandle, CandleIsSome DEF FromFeed, o
  <2>5. CASE ~(b # None /\ b.open = o) /\ o = interval_open_time(t, Minute)
    <3>1. stored'[Minute][o] = aggregate_spot_candle(b, t, Minute)
      BY <2>2, <2>5 DEF persist, b
    <3> QED  BY <2>1, <2>3, <3>1, Aggregated, CandleIsSome DEF Live, FromFeed, o
  <2>6. CASE b # None /\ b.open = o /\ o = interval_open_time(t, Minute)
    <3>1. stored'[Minute][o] = aggregate_spot_candle(b, t, Minute)
      BY <2>2, <2>6 DEF persist, b
    <3> QED  BY <2>1, <2>3, <3>1, Aggregated, CandleIsSome DEF Live, FromFeed, o
  <2>7. CASE ~(b # None /\ b.open = o) /\ o # interval_open_time(t, Minute)
    <3>1. stored'[Minute][o] = stored[Minute][o] /\ s \in heard
      BY <1>1, <2>2, <2>7 DEF persist, b, o
    <3> QED  BY <3>1 DEF Accounted, o
  <2> QED  BY <2>4, <2>5, <2>6, <2>7 DEF o
<1>5. \A i \in Intervals : Whole(current[i], i, heard)'
  BY <1>1, MovesAccounted
<1> QED  BY <1>3, <1>4, <1>5 DEF Accounted, Opens, interval_open_time

LEMMA HandleFails_accounts ==
  ASSUME InOrder, Prompt, Kept, Accounted, NEW t \in Times, NEW now \in t .. (t + Lag),
         HandleFails(t, now)
  PROVE  Accounted'
<1>1. Published(t) /\ Moves(t, Before(now)) /\ UNCHANGED <<stored, heard>>
  BY DEF HandleFails
<1>2. \A i \in Intervals : Whole(current[i], i, heard)'
  BY <1>1, MovesAccounted
<1>3. \A t0 \in heard' : stored'[Minute][interval_open_time(t0, Minute)] # None
  BY <1>1 DEF Accounted
<1>4. \A i \in Intervals : \A o \in Opens(i) : RowWhole(i, o, heard)'
  BY <1>1 DEF Accounted, RowWhole, FromStream, Whole, HeardToTheEnd, close_time, interval_open_time
<1> QED  BY <1>2, <1>3, <1>4 DEF Accounted, Opens, interval_open_time

LEMMA OfficialResult_accounts ==
  ASSUME Kept, Accounted, NEW i \in Intervals, NEW o \in Opens(i), OfficialResult(i, o)
  PROVE  Accounted'
<1> DEFINE c == [open |-> o, first |-> o, last |-> o, ticks |-> {}, closed |-> TRUE,
                 complete |-> FALSE, source |-> "polymarket"]
<1>1. /\ i # Minute /\ stored[i][o] = None /\ stored' = [stored EXCEPT ![i][o] = c]
      /\ UNCHANGED <<current, initialized, heard>>
  BY DEF OfficialResult
<1>2. c.source = "polymarket"
  OBVIOUS
<1> HIDE DEF c
<1>3. stored = [j \in Intervals |-> [p \in Opens(j) |-> stored[j][p]]]
  BY DEF Kept, RowsKept
<1>4. ASSUME NEW j \in Intervals, NEW p \in Opens(j)
      PROVE  stored'[j][p] = IF j = i /\ p = o THEN c ELSE stored[j][p]
  BY <1>1, <1>3
<1>5. ASSUME NEW j \in Intervals, NEW p \in Opens(j) PROVE RowWhole(j, p, heard)'
  <2>1. CASE j = i /\ p = o
    BY <1>2, <1>4, <2>1 DEF RowWhole, FromStream
  <2>2. CASE ~(j = i /\ p = o)
    <3>1. stored'[j][p] = stored[j][p]
      BY <1>4, <2>2
    <3> QED  BY <1>1, <3>1 DEF Accounted, RowWhole, FromStream, Whole, HeardToTheEnd, close_time,
                               interval_open_time
  <2> QED  BY <2>1, <2>2
<1>6. stored'[Minute] = stored[Minute]
  BY <1>1, <1>3, ChainlinkAssumption
<1>7. \A j \in Intervals : Whole(current[j], j, heard)' <=> Whole(current[j], j, heard)
  BY <1>1 DEF Whole, interval_open_time
<1> QED  BY <1>1, <1>5, <1>6, <1>7 DEF Accounted, Opens, interval_open_time

LEMMA Aside ==
  ASSUME Accounted, UNCHANGED <<stored, heard>>,
         UNCHANGED <<current, initialized>> \/ initialized' = FALSE
  PROVE  Accounted'
<1>1. \A i \in Intervals : \A o \in Opens(i) : RowWhole(i, o, heard)'
  BY DEF Accounted, RowWhole, FromStream, Whole, HeardToTheEnd, close_time, interval_open_time
<1>2. initialized' => \A i \in Intervals : Whole(current[i], i, heard)'
  BY DEF Accounted, Whole, interval_open_time
<1>3. \A t \in heard' : stored'[Minute][interval_open_time(t, Minute)] # None
  BY DEF Accounted
<1> QED  BY <1>1, <1>2, <1>3 DEF Accounted, Opens, interval_open_time

LEMMA Next_Accounted ==
  ASSUME InOrder, Prompt, Kept, Accounted, [Next]_vars
  PROVE  Accounted'
<1>1. ASSUME NEW t \in Times, NEW now \in t .. (t + Lag), Handles(t, now) \/ HandleFails(t, now)
      PROVE  Accounted'
  BY <1>1, Handles_accounts, HandleFails_accounts
<1>2. ASSUME NEW i \in Intervals, NEW o \in Opens(i), OfficialResult(i, o) PROVE Accounted'
  BY <1>2, OfficialResult_accounts
<1>3. CASE Restart
  BY <1>3, Aside DEF Restart
<1>4. CASE UNCHANGED vars
  BY <1>4, Aside DEF vars
<1> QED  BY <1>1, <1>2, <1>3, <1>4 DEF Next

LEMMA Init_Accounted ==
  ASSUME Init
  PROVE  Accounted
BY DEF Init, Accounted, RowWhole, FromStream

\* A candle that says it is complete has every committed tick of its window and was heard
\* near both ends, whatever fails and whenever the process restarts.
THEOREM CompleteIsTrue_holds == ASSUME InOrder, Prompt PROVE Spec => []CompleteIsTrue
<1>1. Kept /\ Accounted => CompleteIsTrue
  <2> SUFFICES ASSUME Kept, Accounted, NEW i \in Intervals, NEW o \in Opens(i), FromStream(i, o),
                      stored[i][o].closed, stored[i][o].complete
               PROVE  /\ HasCommitted(i, o)
                      /\ \E t \in stored[i][o].ticks : t - o <= Stale
                      /\ \E t \in stored[i][o].ticks : close_time(stored[i][o], i) - t <= Stale
    BY DEF CompleteIsTrue
  <2>1. stored[i][o].open = o
    BY DEF Kept, RowsKept, RowKept, FromStream
  <2>2. Whole(stored[i][o], i, heard) /\ HeardToTheEnd(stored[i][o], i)
    BY DEF Accounted, RowWhole
  <2> QED  BY <2>1, <2>2 DEF Whole, HeardToTheEnd, HasCommitted
<1>2. Init => Kept /\ Accounted
  BY Init_Kept, Init_Accounted
<1>3. Kept /\ Accounted /\ [Next]_vars => (Kept /\ Accounted)'
  BY Next_Kept, Next_Accounted
<1> QED  BY <1>1, <1>2, <1>3, PTL DEF Spec

-----------------------------------------------------------------------------
(* What the stored minutes tell *)

\* The rows of the window of t that the newest tick may have reached.
Seen(i) == Minutes(i, newest)

\* A wide candle agrees with the stored minutes of the window of the newest tick.
Mirrors(c, i) ==
  /\ Seen(i) # {}
  /\ c.open = interval_open_time(newest, i)
  /\ c.ticks = UNION {stored[Minute][o].ticks : o \in Seen(i)}
  /\ c.first = stored[Minute][Min(Seen(i))].first
  /\ c.last = stored[Minute][Max(Seen(i))].last

NewestMinute == stored[Minute][interval_open_time(newest, Minute)]

\* While minutes are stored with every tick, they have everything that was heard.
Materialised ==
  /\ Rows(Minute) # {} => NewestMinute # None
  /\ \A o \in Rows(Minute) : o # interval_open_time(newest, Minute) => stored[Minute][o].closed
  /\ \A t \in heard : /\ stored[Minute][interval_open_time(t, Minute)] # None
                      /\ t \in stored[Minute][interval_open_time(t, Minute)].ticks
  /\ \A i \in Intervals \ {Minute} : \A o \in Opens(i) :
       FromStream(i, o) => HasCommitted(i, o)
  /\ initialized => /\ NewestMinute # None
                    /\ current[Minute] = NewestMinute
                    /\ \A i \in Intervals \ {Minute} : Mirrors(current[i], i)

\* No stored minute is later than the newest tick.
LEMMA MinuteRows ==
  ASSUME Kept, NEW o \in Opens(Minute), stored[Minute][o] # None
  PROVE  /\ o \in Nat /\ o <= newest /\ o <= interval_open_time(newest, Minute)
         /\ stored[Minute][o] \in Candles /\ stored[Minute][o].open = o
         /\ FromFeed(stored[Minute][o])
<1>1. Minute \in Intervals /\ newest \in Nat
  BY ChainlinkAssumption, TimesAreNat DEF Kept, Counted
<1>2. RowKept(Minute, o) /\ o \in Nat /\ interval_open_time(o, Minute) = o
  BY <1>1, OpensAreOpen DEF Kept, RowsKept
<1>3. o <= newest
  BY <1>2 DEF RowKept
<1> QED  BY <1>1, <1>2, <1>3, WindowsInOrder DEF RowKept, FromFeed

\* The minute that a tick finds is the newest row.
LEMMA FoundMinute ==
  ASSUME Kept, Materialised, NEW now
  PROVE  /\ NewestMinute = None => Before(now)[Minute] = None
         /\ NewestMinute # None => Before(now)[Minute] = NewestMinute
<1> DEFINE m == interval_open_time(newest, Minute)
<1>1. /\ Minute \in Intervals /\ newest \in Times /\ newest \in Nat /\ initialized \in BOOLEAN
      /\ m \in Opens(Minute) /\ m \in Nat
  BY ChainlinkAssumption, TimesAreNat, OpenIsOpen DEF Kept, Counted
<1>2. CASE initialized
  BY <1>2 DEF Before, Materialised
<1>3. CASE ~initialized
  <2>1. Before(now)[Minute] = OpenRow(Minute)
    BY <1>1, <1>3 DEF Before, Initialized
  <2>2. CASE NewestMinute = None
    BY <2>1, <2>2 DEF Materialised, OpenRow
  <2>3. CASE NewestMinute # None
    <3>1. m \in Rows(Minute)
      BY <1>1, <2>3 DEF Rows, NewestMinute
    <3>2. \A o \in Rows(Minute) : o <= m /\ o \in Nat
      BY MinuteRows DEF Rows
    <3>3. Max(Rows(Minute)) \in Rows(Minute) /\ m <= Max(Rows(Minute))
      BY <1>1, <3>1, RowsAreTimes, MaxOfTimes
    <3> HIDE DEF m
    <3>4. Max(Rows(Minute)) = m
      BY <1>1, <3>2, <3>3
    <3>5. ~stored[Minute][m].closed
      BY <1>1, <2>3 DEF Kept, RowsKept, RowKept, NewestMinute, m
    <3> QED  BY <2>1, <2>3, <3>1, <3>4, <3>5 DEF OpenRow, NewestMinute, m
  <2> QED  BY <2>2, <2>3
<1> QED  BY <1>1, <1>2, <1>3

\* The windows of the clock and of the tick are the same at a rebuild.
Agrees(t, now) == initialized \/ \A i \in Intervals : interval_open_time(now, i) = interval_open_time(t, i)

\* The wide candle that a tick finds mirrors the minutes; when there is none, nothing of its
\* window is stored.
LEMMA FoundWide ==
  ASSUME Kept, Materialised, NEW t \in Times, newest <= t, NEW now \in t .. (t + Lag), Agrees(t, now),
         NEW i \in Intervals \ {Minute}, NEW b, b = Before(now)[i]
  PROVE  /\ b # None => Mirrors(b, i)
         /\ b = None => \A o \in Rows(Minute) : o < interval_open_time(t, i)
<1> DEFINE open == interval_open_time(t, i)
<1>1. /\ newest \in Times /\ newest \in Nat /\ t \in Nat /\ now \in Nat /\ t <= now
      /\ initialized \in BOOLEAN /\ open \in Nat /\ open <= t /\ Minute \in Intervals
  BY TimesAreNat, ChainlinkAssumption, Windows DEF Kept, Counted
<1>2. CASE initialized
  BY <1>2, CandleIsSome DEF Before, Materialised, Kept, MemoryKept, Live, FromFeed
<1>3. CASE ~initialized
  <2>1. interval_open_time(now, i) = open
    BY <1>3 DEF Agrees
  <2>2. b = Initialized(now)[i]
    BY <1>3 DEF Before
  <2>3. \A o \in Opens(Minute) : stored[Minute][o] # None => o \in Nat /\ o <= newest
    BY MinuteRows
  <2>4. Minutes(i, now) = {o \in Opens(Minute) : o >= open /\ stored[Minute][o] # None}
    BY <1>1, <2>1, <2>3 DEF Minutes
  <2>5. CASE Minutes(i, now) = {}
    <3>1. Rebuilt(i, now) = None
      BY <2>5 DEF Rebuilt, aggregate_one_minute_window, Minutes
    <3>2. b = None
      BY <2>2, <3>1, OpenRowKept DEF Initialized, Rebuilt
    <3>3. \A o \in Rows(Minute) : o < open
      BY <1>1, <2>3, <2>4, <2>5 DEF Rows
    <3> QED  BY <3>2, <3>3
  <2>6. CASE Minutes(i, now) # {}
    <3>1. Rebuilt(i, now).open = open
      BY <2>1, <2>6 DEF Rebuilt, aggregate_one_minute_window, Minutes
    <3>2. Rebuilt(i, now) # None
      BY <1>1, <3>1 DEF None
    <3>3. b = Rebuilt(i, now)
      BY <2>2, <3>2 DEF Initialized, Rebuilt
    <3>4. PICK o \in Opens(Minute) : o >= open /\ o \in Nat /\ o <= newest
      BY <2>3, <2>4, <2>6
    <3>5. interval_open_time(newest, i) = open
      BY <1>1, <3>4, WindowsInOrder
    <3>6. Seen(i) = Minutes(i, now)
      BY <2>3, <2>4, <3>5 DEF Seen, Minutes
    <3> HIDE DEF open
    <3>7. /\ b.ticks = UNION {stored[Minute][p].ticks : p \in Minutes(i, now)}
          /\ b.first = stored[Minute][Min(Minutes(i, now))].first
          /\ b.last = stored[Minute][Max(Minutes(i, now))].last
      BY <2>6, <3>3 DEF Rebuilt, aggregate_one_minute_window, Minutes
    <3> QED  BY <2>6, <3>1, <3>2, <3>3, <3>5, <3>6, <3>7 DEF Mirrors
  <2> QED  BY <2>5, <2>6
<1> QED  BY <1>1, <1>2, <1>3

LEMMA AggregatedPrices ==
  ASSUME NEW i \in Intervals, NEW t \in Times, NEW b, b = None \/ Live(b),
         NEW c, c = aggregate_spot_candle(b, t, i)
  PROVE  /\ c.last = t
         /\ b # None /\ b.open = interval_open_time(t, i) =>
              c.ticks = b.ticks \cup {t} /\ c.first = b.first
         /\ b = None \/ b.open # interval_open_time(t, i) => c.ticks = {t} /\ c.first = t
<1>1. CASE b # None /\ b.open = interval_open_time(t, i)
  <2>1. c = [b EXCEPT !.last = t, !.ticks = @ \cup {t}] /\ b \in Candles
    BY <1>1 DEF aggregate_spot_candle, Live, FromFeed
  <2> QED  BY <1>1, <2>1 DEF Candles
<1>2. CASE b = None \/ b.open # interval_open_time(t, i)
  BY <1>2 DEF aggregate_spot_candle
<1> QED  BY <1>1, <1>2

SamePrices(c, d) == /\ c # None <=> d # None
                    /\ c.ticks = d.ticks /\ c.first = d.first /\ c.last = d.last

\* What a tick does to the minutes: it is added to its own, and the others keep their prices.
MinutesMove(t) ==
  LET m == interval_open_time(t, Minute) IN
  /\ stored'[Minute][m] # None /\ stored'[Minute][m] = current'[Minute]
  /\ stored'[Minute][m].last = t
  /\ stored[Minute][m] # None =>
       /\ stored'[Minute][m].ticks = stored[Minute][m].ticks \cup {t}
       /\ stored'[Minute][m].first = stored[Minute][m].first
  /\ stored[Minute][m] = None =>
       stored'[Minute][m].ticks = {t} /\ stored'[Minute][m].first = t
  /\ \A o \in Opens(Minute) \ {m} : /\ SamePrices(stored'[Minute][o], stored[Minute][o])
                                    /\ stored'[Minute][o] # None => stored'[Minute][o].closed

LEMMA MinutesMoved ==
  ASSUME Kept, Materialised, NEW t \in Times, newest <= t, NEW now \in t .. (t + Lag),
         \A o \in Opens(Minute) : stored'[Minute][o] = persist(Before(now), t, Minute, o),
         current'[Minute] = aggregate_spot_candle(Before(now)[Minute], t, Minute)
  PROVE  MinutesMove(t)
<1> DEFINE m == interval_open_time(t, Minute)
           n == interval_open_time(newest, Minute)
           b == Before(now)[Minute]
<1>1. /\ Minute \in Intervals /\ newest \in Times /\ newest \in Nat /\ t \in Nat
      /\ m \in Opens(Minute) /\ m \in Nat /\ n \in Opens(Minute) /\ n \in Nat /\ n <= m
  BY ChainlinkAssumption, TimesAreNat, OpenIsOpen, WindowsInOrder DEF Kept, Counted
<1>2. /\ b = None \/ Live(b)
      /\ stored[Minute][n] = None => b = None
      /\ stored[Minute][n] # None => b = stored[Minute][n] /\ b # None /\ b.open = n
  BY <1>1, Found, FoundMinute, MinuteRows DEF NewestMinute
<1>3. \A o \in Opens(Minute) : stored[Minute][o] # None => o <= n /\ o \in Nat
  BY MinuteRows
<1>4. stored'[Minute][m] = aggregate_spot_candle(b, t, Minute)
  BY <1>1 DEF persist
<1>5. Live(stored'[Minute][m]) /\ stored'[Minute][m] # None
  BY <1>1, <1>2, <1>4, Aggregated, CandleIsSome DEF Live, FromFeed
<1>6. /\ stored'[Minute][m].last = t
      /\ b # None /\ b.open = m =>
           stored'[Minute][m].ticks = b.ticks \cup {t} /\ stored'[Minute][m].first = b.first
      /\ b = None \/ b.open # m => stored'[Minute][m].ticks = {t} /\ stored'[Minute][m].first = t
  BY <1>1, <1>2, <1>4, AggregatedPrices
<1> HIDE DEF b, m, n
<1>7. /\ stored[Minute][m] # None => m = n /\ b # None /\ b.open = m /\ b = stored[Minute][m]
      /\ stored[Minute][m] = None => b = None \/ b.open # m
  <2>1. stored[Minute][m] # None => m = n
    BY <1>1, <1>3
  <2>2. b # None => stored[Minute][n] # None
    BY <1>2
  <2> QED  BY <1>2, <2>1, <2>2
<1>8. ASSUME NEW o \in Opens(Minute), o # m
      PROVE  /\ SamePrices(stored'[Minute][o], stored[Minute][o])
             /\ stored'[Minute][o] # None => stored'[Minute][o].closed
  <2>1. stored'[Minute][o] = persist(Before(now), t, Minute, o)
    OBVIOUS
  <2>2. CASE b # None /\ b.open = o
    <3>1. stored'[Minute][o] = Closed(b, Minute, last_tick[Minute])
      BY <1>8, <2>1, <2>2 DEF persist, b, m
    <3>2. /\ stored[Minute][n] # None /\ b = stored[Minute][n] /\ o = n
      BY <1>2, <2>2
    <3>3. b \in Candles
      BY <1>2, <2>2 DEF Live, FromFeed
    <3>4. /\ stored'[Minute][o].closed /\ stored'[Minute][o] \in Candles
          /\ stored'[Minute][o].ticks = b.ticks /\ stored'[Minute][o].first = b.first
          /\ stored'[Minute][o].last = b.last
      BY <3>1, <3>3 DEF Closed, Candles
    <3> QED  BY <2>2, <3>2, <3>4, CandleIsSome DEF SamePrices
  <2>3. CASE ~(b # None /\ b.open = o)
    <3>1. stored'[Minute][o] = stored[Minute][o]
      BY <1>8, <2>1, <2>3 DEF persist, b, m
    <3>2. stored[Minute][o] # None => o # n
      BY <1>2, <2>3
    <3>3. stored[Minute][o] # None => stored[Minute][o].closed
      BY <3>2 DEF Materialised, Rows, n
    <3> QED  BY <3>1, <3>3 DEF SamePrices
  <2> QED  BY <2>2, <2>3
<1> QED  BY <1>4, <1>5, <1>6, <1>7, <1>8 DEF MinutesMove, m, b

\* A wide candle that mirrored the minutes still does, and a new one starts with its minute.
LEMMA WideMoves ==
  ASSUME Kept, Materialised, NEW t \in Times, newest <= t, newest' = t, MinutesMove(t),
         NEW i \in Intervals \ {Minute}, NEW b, b = None \/ Live(b),
         b # None => Mirrors(b, i),
         b = None => \A o \in Rows(Minute) : o < interval_open_time(t, i),
         NEW c, c = aggregate_spot_candle(b, t, i)
  PROVE  /\ Minutes(i, t)' # {}
         /\ c.open = interval_open_time(t, i)
         /\ c.ticks = UNION {stored'[Minute][o].ticks : o \in Minutes(i, t)'}
         /\ c.first = stored'[Minute][Min(Minutes(i, t)')].first
         /\ c.last = stored'[Minute][Max(Minutes(i, t)')].last
<1> DEFINE m == interval_open_time(t, Minute)
           open == interval_open_time(t, i)
           Before0 == Seen(i)
           After == {o \in Opens(Minute) : o >= open /\ o <= t /\ stored'[Minute][o] # None}
<1>1. /\ Minute \in Intervals /\ newest \in Times /\ newest \in Nat /\ t \in Nat
      /\ m \in Opens(Minute) /\ m \in Nat /\ open \in Nat /\ open <= m /\ m <= t
      /\ interval_open_time(newest, i) \in Nat /\ interval_open_time(newest, i) <= open
  BY ChainlinkAssumption, TimesAreNat, OpenIsOpen, WindowsInOrder, WindowOfMinutes, Windows
     DEF Kept, Counted
<1>2. Minutes(i, t)' = After
  BY DEF Minutes, Opens, interval_open_time
<1>3. \A o \in Opens(Minute) : stored[Minute][o] # None =>
        /\ o \in Nat /\ o <= newest /\ o <= interval_open_time(newest, Minute)
  BY MinuteRows
<1>4. \A o \in Opens(Minute) : stored[Minute][o] # None => o <= m /\ o <= t
  <2>1. interval_open_time(newest, Minute) <= m /\ interval_open_time(newest, Minute) \in Nat
    BY <1>1, WindowsInOrder, Windows
  <2> QED  BY <1>1, <1>3, <2>1
<1>5. After \in SUBSET Times /\ m \in After /\ \A o \in After : o <= m /\ o \in Nat
  <2>1. After \in SUBSET Times /\ \A o \in After : o \in Nat
    BY <1>1, RowsAreTimes, TimesAreNat
  <2>2. m \in After
    BY <1>1 DEF MinutesMove
  <2>3. \A o \in After \ {m} : stored[Minute][o] # None
    BY DEF MinutesMove, SamePrices
  <2> QED  BY <1>1, <1>4, <2>1, <2>2, <2>3
<1>6. c.open = open
  BY <1>1, Aggregated
<1>7. /\ c.last = t
      /\ b # None /\ b.open = open => c.ticks = b.ticks \cup {t} /\ c.first = b.first
      /\ b = None \/ b.open # open => c.ticks = {t} /\ c.first = t
  BY <1>1, AggregatedPrices
<1> HIDE DEF m, open, After, Before0
<1>8. Max(After) = m
  <2>1. Max(After) \in After /\ m <= Max(After)
    BY <1>5, MaxOfTimes
  <2>2. Max(After) <= m /\ Max(After) \in Nat
    BY <1>5, <2>1
  <2> QED  BY <1>1, <2>1, <2>2
<1>9. c.last = stored'[Minute][Max(After)].last
  BY <1>7, <1>8 DEF MinutesMove, m
<1>10. CASE b # None /\ b.open = open
  <2>1. Mirrors(b, i) /\ interval_open_time(newest, i) = open
    BY <1>10 DEF Mirrors
  <2>2. Before0 = {o \in Opens(Minute) : o >= open /\ stored[Minute][o] # None}
    BY <1>1, <1>3, <2>1 DEF Before0, Seen, Minutes
  <2>3. After = Before0 \cup {m}
    <3>1. \A o \in Opens(Minute) \ {m} : o \in After <=> o \in Before0
      BY <1>4, <2>2 DEF After, MinutesMove, SamePrices, m
    <3>2. After \subseteq Opens(Minute) /\ Before0 \subseteq Opens(Minute)
      BY <2>2 DEF After
    <3> QED  BY <1>5, <3>1, <3>2
  <2>4. Before0 # {} /\ Before0 \in SUBSET Times
    BY <1>5, <2>1, <2>3 DEF Mirrors, Before0
  <2>5. Min(Before0) \in Before0 /\ \A o \in Before0 : Min(Before0) <= o
    BY <2>4, MinOfTimes
  <2>6. Min(After) \in After /\ \A o \in After : Min(After) <= o
    BY <1>5, MinOfTimes
  <2>7. Min(After) = Min(Before0)
    <3>1. Min(After) \in Nat /\ Min(Before0) \in Nat
      BY <1>5, <2>3, <2>5, <2>6
    <3>2. Min(After) <= Min(Before0)
      BY <2>3, <2>5, <2>6
    <3>3. CASE Min(After) \in Before0
      BY <2>5, <3>1, <3>2, <3>3
    <3>4. CASE Min(After) = m
      <4>1. Min(Before0) <= m
        BY <1>5, <2>3, <2>5
      <4> QED  BY <3>1, <3>2, <3>4, <4>1
    <3> QED  BY <2>3, <2>6, <3>3, <3>4
  <2>8. ASSUME NEW o \in Before0
        PROVE  /\ stored'[Minute][o].first = stored[Minute][o].first
               /\ stored'[Minute][o].ticks =
                    IF o = m THEN stored[Minute][o].ticks \cup {t} ELSE stored[Minute][o].ticks
    <3>1. o \in Opens(Minute) /\ stored[Minute][o] # None
      BY <2>2
    <3>2. CASE o = m
      BY <3>1, <3>2 DEF MinutesMove, m
    <3>3. CASE o # m
      BY <3>1, <3>3 DEF MinutesMove, SamePrices, m
    <3> QED  BY <3>2, <3>3
  <2>9. c.first = stored'[Minute][Min(After)].first
    BY <1>7, <1>10, <2>1, <2>5, <2>7, <2>8 DEF Mirrors, Before0
  <2>10. stored'[Minute][m].ticks =
           IF m \in Before0 THEN stored[Minute][m].ticks \cup {t} ELSE {t}
    <3>1. m \in Before0 <=> stored[Minute][m] # None
      BY <1>1, <2>2
    <3> QED  BY <3>1 DEF MinutesMove, m
  <2>11. c.ticks = UNION {stored'[Minute][o].ticks : o \in After}
    <3>1. \A x : x \in c.ticks <=> x = t \/ \E o \in Before0 : x \in stored[Minute][o].ticks
      <4>1. c.ticks = b.ticks \cup {t}
        BY <1>7, <1>10
      <4>2. b.ticks = UNION {stored[Minute][o].ticks : o \in Before0}
        BY <2>1 DEF Mirrors, Before0
      <4>3. \A x : x \in b.ticks <=> \E o \in Before0 : x \in stored[Minute][o].ticks
        BY <4>2
      <4> QED  BY <4>1, <4>3
    <3>2. ASSUME NEW x \in c.ticks PROVE \E o \in After : x \in stored'[Minute][o].ticks
      <4>1. CASE x = t
        BY <1>5, <2>10, <4>1
      <4>2. CASE x # t
        <5>1. PICK o \in Before0 : x \in stored[Minute][o].ticks
          BY <3>1, <3>2, <4>2
        <5> QED  BY <2>3, <2>8, <5>1
      <4> QED  BY <4>1, <4>2
    <3>3. ASSUME NEW o \in After, NEW x \in stored'[Minute][o].ticks PROVE x \in c.ticks
      <4>1. CASE o = m /\ o \notin Before0
        BY <2>10, <3>1, <3>3, <4>1
      <4>2. CASE o \in Before0
        BY <2>8, <3>1, <3>3, <4>2
      <4> QED  BY <2>3, <3>3, <4>1, <4>2
    <3> QED  BY <3>2, <3>3
  <2> QED  BY <1>2, <1>5, <1>6, <1>9, <2>9, <2>11 DEF open
<1>11. CASE b = None \/ b.open # open
  <2>1. ASSUME NEW o \in Opens(Minute), stored[Minute][o] # None PROVE o < open
    <3>1. CASE b = None
      BY <2>1, <3>1 DEF Rows, open
    <3>2. CASE b # None
      <4>1. interval_open_time(newest, i) # open
        BY <1>11, <3>2 DEF Mirrors
      <4>2. o \in Nat /\ o <= newest
        BY <1>3, <2>1
      <4>3. open <= newest => interval_open_time(newest, i) = open
        BY <1>1, WindowsInOrder DEF open
      <4> QED  BY <1>1, <4>1, <4>2, <4>3
    <3> QED  BY <3>1, <3>2
  <2>2. After = {m}
    <3>1. ASSUME NEW o \in After PROVE o = m
      <4> SUFFICES ASSUME o # m PROVE FALSE
        OBVIOUS
      <4>1. o \in Opens(Minute) /\ o >= open /\ stored'[Minute][o] # None
        BY DEF After
      <4>2. stored[Minute][o] # None
        BY <4>1 DEF MinutesMove, SamePrices, m
      <4> QED  BY <1>1, <1>5, <2>1, <4>1, <4>2
    <3> QED  BY <1>5, <3>1
  <2>3. stored[Minute][m] = None
    BY <1>1, <2>1
  <2>4. stored'[Minute][m].ticks = {t} /\ stored'[Minute][m].first = t
    BY <2>3 DEF MinutesMove, m
  <2>5. Min(After) = m
    <3>1. Min(After) \in After
      BY <1>5, MinOfTimes
    <3> QED  BY <2>2, <3>1
  <2>6. UNION {stored'[Minute][o].ticks : o \in After} = {t}
    BY <2>2, <2>4
  <2> QED  BY <1>2, <1>5, <1>6, <1>7, <1>9, <1>11, <2>4, <2>5, <2>6 DEF open
<1> QED  BY <1>10, <1>11

LEMMA Handles_materialises ==
  ASSUME InOrder, Kept, Materialised, NEW t \in Times, NEW now \in t .. (t + Lag), Agrees(t, now),
         Handles(t, now)
  PROVE  Materialised'
<1> DEFINE m == interval_open_time(t, Minute)
<1>1. /\ Published(t) /\ Moves(t, Before(now)) /\ heard' = heard \cup {t}
      /\ stored' = [i \in Intervals |-> [o \in Opens(i) |-> persist(Before(now), t, i, o)]]
  BY DEF Handles
<1>2. /\ newest <= t /\ newest' = t /\ initialized'
      /\ \A i \in Intervals : current'[i] = aggregate_spot_candle(Before(now)[i], t, i)
  BY <1>1, Moved
<1>3. \A i \in Intervals : \A o \in Opens(i) : stored'[i][o] = persist(Before(now), t, i, o)
  BY <1>1
<1>4. /\ Minute \in Intervals /\ newest \in Times /\ newest \in Nat /\ t \in Nat /\ m \in Opens(Minute)
      /\ \A s \in heard : s \in Times /\ s \in Nat /\ s <= newest
  BY ChainlinkAssumption, TimesAreNat, OpenIsOpen DEF Kept, Counted
<1>5. MinutesMove(t)
  BY <1>2, <1>3, <1>4, MinutesMoved
<1>6. \A o \in Opens(Minute) \ {m} : stored'[Minute][o] # None => stored'[Minute][o].closed
  BY <1>5 DEF MinutesMove
<1>7. /\ NewestMinute' = stored'[Minute][m] /\ NewestMinute' # None
      /\ current'[Minute] = NewestMinute'
  BY <1>2, <1>5 DEF MinutesMove, NewestMinute, interval_open_time
<1>8. ASSUME NEW s \in heard'
      PROVE  /\ stored'[Minute][interval_open_time(s, Minute)] # None
             /\ s \in stored'[Minute][interval_open_time(s, Minute)].ticks
  <2> DEFINE o == interval_open_time(s, Minute)
  <2>1. o \in Opens(Minute) /\ (s = t => o = m)
    BY <1>1, <1>4, OpenIsOpen
  <2>2. s # t => stored[Minute][o] # None /\ s \in stored[Minute][o].ticks
    BY <1>1 DEF Materialised
  <2> HIDE DEF o
  <2>3. CASE o = m
    <3>1. t \in stored'[Minute][m].ticks
      BY <1>5 DEF MinutesMove
    <3>2. s # t => s \in stored'[Minute][m].ticks
      BY <1>5, <2>2, <2>3 DEF MinutesMove
    <3> QED  BY <1>7, <2>3, <3>1, <3>2 DEF o
  <2>4. CASE o # m
    BY <1>5, <2>1, <2>2, <2>4 DEF MinutesMove, SamePrices, o
  <2> QED  BY <2>3, <2>4
<1>9. ASSUME NEW i \in Intervals \ {Minute}
      PROVE  /\ Mirrors(current[i], i)'
             /\ \A o \in Opens(i) : FromStream(i, o)' => HasCommitted(i, o)'
  <2> DEFINE b == Before(now)[i]
             open == interval_open_time(t, i)
  <2>1. /\ b = None \/ Live(b)
        /\ b # None => Mirrors(b, i)
        /\ b = None => \A o \in Rows(Minute) : o < open
    BY <1>2, Found, FoundWide
  <2>2. current'[i] = aggregate_spot_candle(b, t, i)
    BY <1>2
  <2> HIDE DEF b
  <2>3. /\ Minutes(i, t)' # {}
        /\ current'[i].open = open
        /\ current'[i].ticks = UNION {stored'[Minute][o].ticks : o \in Minutes(i, t)'}
        /\ current'[i].first = stored'[Minute][Min(Minutes(i, t)')].first
        /\ current'[i].last = stored'[Minute][Max(Minutes(i, t)')].last
    BY <1>2, <1>5, <2>1, <2>2, WideMoves
  <2>4. Seen(i)' = Minutes(i, t)'
    BY <1>2 DEF Seen, Minutes, interval_open_time
  <2>5. Mirrors(current[i], i)'
    BY <1>2, <2>3, <2>4 DEF Mirrors, interval_open_time
  <2>6. ASSUME NEW o \in Opens(i), FromStream(i, o)' PROVE HasCommitted(i, o)'
    <3>1. stored'[i][o] = persist(Before(now), t, i, o)
      BY <1>3
    <3> SUFFICES ASSUME NEW s \in heard', interval_open_time(s, i) = o
                 PROVE  s \in stored'[i][o].ticks
      BY DEF HasCommitted, interval_open_time
    <3>2. CASE b # None /\ b.open = o /\ o # open
      <4>1. stored'[i][o] = Closed(b, i, last_tick[i])
        BY <3>1, <3>2 DEF persist, b
      <4>2. stored'[i][o].ticks = b.ticks
        BY <2>1, <3>2, <4>1, ClosedCandle
      <4>3. s \in heard
        BY <1>1, <3>2
      <4> DEFINE p == interval_open_time(s, Minute)
      <4>4. /\ p \in Opens(Minute) /\ p \in Nat /\ p <= s /\ o <= p
            /\ stored[Minute][p] # None /\ s \in stored[Minute][p].ticks
        BY <1>4, <4>3, OpenIsOpen, TimesAreNat, Windows, WindowOfMinutes DEF Materialised
      <4> HIDE DEF p
      <4>5. interval_open_time(newest, i) = o
        BY <2>1, <3>2 DEF Mirrors
      <4>6. p \in Seen(i)
        BY <1>4, <4>3, <4>4, <4>5 DEF Seen, Minutes
      <4> QED  BY <2>1, <3>2, <4>2, <4>4, <4>6 DEF Mirrors
    <3>3. CASE ~(b # None /\ b.open = o /\ o # open)
      <4>1. stored'[i][o] = stored[i][o]
        BY <3>1, <3>3 DEF persist, b
      <4>2. FromStream(i, o)
        BY <2>6, <4>1 DEF FromStream
      <4>3. o < interval_open_time(newest, i)
        BY <4>2 DEF Kept, RowsKept, RowKept, FromStream
      <4>4. /\ interval_open_time(newest, i) <= open /\ interval_open_time(newest, i) \in Nat
            /\ open \in Nat /\ o \in Nat
        BY <1>2, <1>4, WindowsInOrder, Windows, OpensAreOpen
      <4>5. s # t
        BY <4>3, <4>4
      <4> QED  BY <1>1, <4>1, <4>2, <4>5 DEF Materialised, HasCommitted
    <3> QED  BY <3>2, <3>3
  <2> QED  BY <2>5, <2>6
<1>10. interval_open_time(newest, Minute)' = m
  BY <1>2 DEF interval_open_time
<1>11. \A o \in Rows(Minute)' : o # m => stored'[Minute][o].closed
  BY <1>6 DEF Rows, Opens, interval_open_time
<1>12. \A s \in heard' : /\ stored'[Minute][interval_open_time(s, Minute)'] # None
                         /\ s \in stored'[Minute][interval_open_time(s, Minute)'].ticks
  BY <1>8 DEF interval_open_time
<1>13. \A i \in Intervals \ {Minute} : \A o \in Opens(i)' : FromStream(i, o)' => HasCommitted(i, o)'
  <2>1. \A i \in Intervals : Opens(i)' = Opens(i)
    BY DEF Opens, interval_open_time
  <2> QED  BY <1>9, <2>1
<1> QED  BY <1>7, <1>9, <1>10, <1>11, <1>12, <1>13 DEF Materialised

\* It rests on the minutes, on what was heard and on the candles in memory.
LEMMA MaterialisedFollows ==
  ASSUME Materialised, stored'[Minute] = stored[Minute], UNCHANGED <<newest, heard>>,
         UNCHANGED <<current, initialized>> \/ initialized' = FALSE,
         \A i \in Intervals \ {Minute} : \A o \in Opens(i) :
           FromStream(i, o)' => HasCommitted(i, o)'
  PROVE  Materialised'
<1>1. NewestMinute' = NewestMinute /\ Rows(Minute)' = Rows(Minute)
  BY DEF NewestMinute, Rows, Opens, interval_open_time
<1>2. \A i \in Intervals : Seen(i)' = Seen(i) /\ Opens(i)' = Opens(i)
  BY DEF Seen, Minutes, Opens, interval_open_time
<1>3. ASSUME initialized', NEW i \in Intervals \ {Minute} PROVE Mirrors(current[i], i)'
  <2>1. Seen(i)' = Seen(i) /\ current'[i] = current[i]
    BY <1>2, <1>3
  <2>2. Mirrors(current[i], i)
    BY <1>3 DEF Materialised
  <2> QED  BY <2>1, <2>2 DEF Mirrors, interval_open_time
<1>4. \A o \in Rows(Minute)' : o # interval_open_time(newest, Minute)' => stored'[Minute][o].closed
  BY <1>1 DEF Materialised, interval_open_time
<1>5. \A t \in heard' : /\ stored'[Minute][interval_open_time(t, Minute)'] # None
                        /\ t \in stored'[Minute][interval_open_time(t, Minute)'].ticks
  BY DEF Materialised, interval_open_time
<1>6. \A i \in Intervals \ {Minute} : \A o \in Opens(i)' : FromStream(i, o)' => HasCommitted(i, o)'
  BY <1>2
<1>7. initialized' => NewestMinute' # None /\ current'[Minute] = NewestMinute'
  BY <1>1 DEF Materialised
<1> QED  BY <1>1, <1>3, <1>4, <1>5, <1>6, <1>7 DEF Materialised

LEMMA OfficialResult_materialises ==
  ASSUME Kept, Materialised, NEW i \in Intervals, NEW o \in Opens(i), OfficialResult(i, o)
  PROVE  Materialised'
<1> DEFINE c == [open |-> o, first |-> o, last |-> o, ticks |-> {}, closed |-> TRUE,
                 complete |-> FALSE, source |-> "polymarket"]
<1>1. /\ i # Minute /\ stored[i][o] = None /\ stored' = [stored EXCEPT ![i][o] = c]
      /\ UNCHANGED <<current, initialized, newest, heard>>
  BY DEF OfficialResult
<1>2. c.source = "polymarket"
  OBVIOUS
<1> HIDE DEF c
<1>3. stored = [j \in Intervals |-> [p \in Opens(j) |-> stored[j][p]]]
  BY DEF Kept, RowsKept
<1>4. ASSUME NEW j \in Intervals, NEW p \in Opens(j)
      PROVE  stored'[j][p] = IF j = i /\ p = o THEN c ELSE stored[j][p]
  BY <1>1, <1>3
<1>5. stored'[Minute] = stored[Minute]
  BY <1>1, <1>3, ChainlinkAssumption
<1>6. ASSUME NEW j \in Intervals \ {Minute}, NEW p \in Opens(j), FromStream(j, p)'
      PROVE  HasCommitted(j, p)'
  <2>1. ~(j = i /\ p = o)
    BY <1>2, <1>4, <1>6 DEF FromStream
  <2>2. stored'[j][p] = stored[j][p]
    BY <1>4, <2>1
  <2> QED  BY <1>1, <1>6, <2>2 DEF Materialised, FromStream, HasCommitted, interval_open_time
<1> QED  BY <1>1, <1>5, <1>6, MaterialisedFollows

Replays == failures = 0 /\ ~ahead => Materialised

LEMMA Next_Replays ==
  ASSUME InOrder, Kept, Replays, [Next]_vars
  PROVE  Replays'
<1> SUFFICES ASSUME failures' = 0, ~ahead' PROVE Materialised'
  BY DEF Replays
<1>1. ASSUME NEW t \in Times, NEW now \in t .. (t + Lag), Handles(t, now) PROVE Materialised'
  <2>1. UNCHANGED failures /\ ahead' = Overtakes(t, now)
    BY <1>1 DEF Handles
  <2>2. Agrees(t, now) /\ ~ahead
    BY <2>1 DEF Overtakes, Agrees
  <2> QED  BY <1>1, <2>1, <2>2, Handles_materialises DEF Replays
<1>2. ASSUME NEW t \in Times, NEW now \in t .. (t + Lag), HandleFails(t, now) PROVE FALSE
  <2>1. failures' = failures + 1 /\ failures \in Nat
    BY <1>2, ChainlinkAssumption DEF HandleFails, Kept, Counted
  <2> QED  BY <2>1
<1>3. ASSUME NEW i \in Intervals, NEW o \in Opens(i), OfficialResult(i, o) PROVE Materialised'
  BY <1>3, OfficialResult_materialises DEF OfficialResult, Replays
<1>4. ASSUME Materialised, UNCHANGED <<stored, newest, heard>>,
             UNCHANGED <<current, initialized>> \/ initialized' = FALSE
      PROVE  Materialised'
  <2>1. \A i \in Intervals \ {Minute} : \A o \in Opens(i) : FromStream(i, o)' => HasCommitted(i, o)'
    BY <1>4 DEF Materialised, FromStream, HasCommitted, interval_open_time
  <2> QED  BY <1>4, <2>1, MaterialisedFollows
<1>5. CASE Restart
  BY <1>4, <1>5 DEF Restart, Replays
<1>6. CASE UNCHANGED vars
  BY <1>4, <1>6 DEF vars, Replays
<1> QED  BY <1>1, <1>2, <1>3, <1>5, <1>6 DEF Next

LEMMA Init_Replays ==
  ASSUME Init
  PROVE  Replays
<1>1. /\ \A i \in Intervals : \A o \in Opens(i) : stored[i][o] = None
      /\ heard = {} /\ initialized = FALSE
  BY DEF Init
<1>2. Minute \in Intervals
  BY ChainlinkAssumption
<1>3. Rows(Minute) = {}
  BY <1>1, <1>2 DEF Rows
<1>4. \A i \in Intervals : \A o \in Opens(i) : ~FromStream(i, o)
  BY <1>1 DEF FromStream
<1> QED  BY <1>1, <1>3, <1>4 DEF Replays, Materialised

LEMMA MinutesTell ==
  ASSUME Kept, Materialised
  PROVE  PricesReplayable /\ ClosedHasCommitted /\ OnlyNewestOpen
<1>1. Minute \in Intervals /\ newest \in Times /\ newest \in Nat
  BY ChainlinkAssumption, TimesAreNat DEF Kept, Counted
<1>2. ASSUME NEW i \in Intervals \ {Minute}, initialized
      PROVE  /\ current[i].ticks = Replayed(i).ticks /\ current[i].first = Replayed(i).first
             /\ current[i].last = Replayed(i).last
  BY <1>2 DEF Materialised, Mirrors, Seen, Minutes, Replayed, aggregate_one_minute_window
<1>3. ASSUME NEW i \in Intervals, NEW o \in Opens(i), FromStream(i, o) PROVE HasCommitted(i, o)
  BY <1>3 DEF Materialised, HasCommitted
<1>4. ASSUME NEW o \in Rows(Minute), o # Max(Rows(Minute)) PROVE stored[Minute][o].closed
  <2> DEFINE m == interval_open_time(newest, Minute)
  <2>1. m \in Opens(Minute) /\ m \in Nat
    BY <1>1, OpenIsOpen, TimesAreNat
  <2>2. m \in Rows(Minute)
    BY <1>4, <2>1 DEF Materialised, NewestMinute, Rows
  <2>3. \A p \in Rows(Minute) : p <= m /\ p \in Nat
    BY MinuteRows DEF Rows
  <2>4. Max(Rows(Minute)) \in Rows(Minute) /\ m <= Max(Rows(Minute))
    BY <1>1, <2>2, RowsAreTimes, MaxOfTimes
  <2> HIDE DEF m
  <2>5. Max(Rows(Minute)) = m
    <3>1. Max(Rows(Minute)) <= m /\ Max(Rows(Minute)) \in Nat
      BY <2>3, <2>4
    <3> QED  BY <2>1, <2>4, <3>1
  <2> QED  BY <1>4, <2>5 DEF Materialised, m
<1> QED  BY <1>2, <1>3, <1>4 DEF PricesReplayable, ClosedHasCommitted, OnlyNewestOpen

\* The stored minutes tell the rest for all intervals, widths and lags of the clock and any
\* number of restarts: live prices, the ticks of closed candles, and which minute is open.
THEOREM MinutesReplay_holds == ASSUME InOrder PROVE Spec => []MinutesReplay
<1>1. Kept /\ Replays => MinutesReplay
  BY MinutesTell DEF Replays, MinutesReplay
<1>2. Init => Kept /\ Replays
  BY Init_Kept, Init_Replays
<1>3. Kept /\ Replays /\ [Next]_vars => (Kept /\ Replays)'
  BY Next_Kept, Next_Replays
<1> QED  BY <1>1, <1>2, <1>3, PTL DEF Spec

-----------------------------------------------------------------------------
(* The connection *)

LEMMA StreamConstants ==
  /\ Stall \in Nat /\ Period \in Nat /\ Period > 0 /\ Retry \in Nat /\ Handling \in Nat
  /\ StreamHorizon \in Nat
BY ModelConstants DEF Stream!ConstantsOK

LEMMA StreamMax ==
  ASSUME NEW a \in Int, NEW b \in Int
  PROVE  Stream!Max({a, b}) = IF a >= b THEN a ELSE b
<1>1. PICK x : x = Stream!Max({a, b})
  OBVIOUS
<1>2. \E y \in {a, b} : \A z \in {a, b} : y >= z
  OBVIOUS
<1>3. x \in {a, b} /\ x >= a /\ x >= b
  BY <1>1, <1>2 DEF Stream!Max
<1> QED  BY <1>1, <1>3

\* Since when nothing has come on the connection: it began, or a TWAP message was read.
Quiet(s, r) == IF s >= r THEN s ELSE r
QuietSince == Quiet(socket.since, received["twap"])

\* The longest wait for a message, and for the end of what is handled.
FirstWait == IF Handling = 0 THEN 1 ELSE Handling

StreamTyped ==
  /\ clock \in 0 .. StreamHorizon /\ silent \in BOOLEAN /\ sent \in -1 .. clock
  /\ socket \in [up : BOOLEAN, since : 0 .. clock, next : 0 .. (clock + Period + Retry)]
  /\ received \in [Stream!Topics -> -1 .. clock]
  /\ handling \in [topic : Stream!Topics, since : 0 .. clock] \cup {Stream!Free}
  /\ handling # Stream!Free => socket.up

\* The watchdog looks in time.
Watched ==
  socket.up => clock <= socket.next /\ socket.next <= QuietSince + Stall + Period

\* Until the topic stops it is behind by at most one observation of each topic.
SpotRead == received["spot"] > received["twap"]

Heard ==
  socket.up /\ ~silent =>
    /\ IF sent = -1 THEN socket.since = clock ELSE sent >= clock - 1
    /\ IF handling = Stream!Free
       THEN clock <= QuietSince + (IF SpotRead THEN FirstWait + Handling ELSE FirstWait)
       ELSE /\ handling.since <= QuietSince + (IF SpotRead THEN FirstWait ELSE 0)
            /\ clock <= handling.since + Handling

StreamInv == StreamTyped /\ Watched /\ Heard

LEMMA StreamParts ==
  ASSUME StreamTyped
  PROVE  /\ clock \in Nat /\ clock <= StreamHorizon /\ socket.since \in Nat /\ socket.since <= clock
         /\ socket.next \in Nat /\ socket.up \in BOOLEAN /\ silent \in BOOLEAN
         /\ sent \in Int /\ sent >= -1 /\ sent <= clock
         /\ received["twap"] \in Int /\ received["twap"] <= clock /\ received["twap"] >= -1
         /\ received["spot"] \in Int /\ received["spot"] <= clock /\ received["spot"] >= -1
         /\ handling # Stream!Free => handling.since \in Nat /\ handling.since <= clock
         /\ handling # Stream!Free => handling.topic \in Stream!Topics
         /\ QuietSince \in Nat /\ QuietSince <= clock
         /\ Handling \in Nat /\ FirstWait \in Nat /\ FirstWait >= 1 /\ FirstWait >= Handling
<1>1. clock \in Nat /\ clock <= StreamHorizon /\ sent \in Int /\ sent >= -1 /\ sent <= clock
  BY StreamConstants DEF StreamTyped
<1>2. /\ socket.since \in Nat /\ socket.since <= clock /\ socket.next \in Nat /\ socket.up \in BOOLEAN
      /\ silent \in BOOLEAN
  BY <1>1, StreamConstants DEF StreamTyped
<1>3. /\ received["twap"] \in -1 .. clock /\ received["spot"] \in -1 .. clock
  BY DEF StreamTyped, Stream!Topics
<1>4. handling # Stream!Free => handling.since \in 0 .. clock /\ handling.topic \in Stream!Topics
  BY DEF StreamTyped
<1>5. Handling \in Nat /\ FirstWait \in Nat /\ FirstWait >= 1 /\ FirstWait >= Handling
  BY StreamConstants DEF FirstWait
<1> QED  BY <1>1, <1>2, <1>3, <1>4, <1>5 DEF QuietSince, Quiet

LEMMA StreamInit == Stream!Init => StreamInv
<1> SUFFICES ASSUME Stream!Init PROVE StreamInv
  OBVIOUS
<1>1. clock = 0 /\ sent = -1 /\ handling = Stream!Free /\ silent = FALSE
  BY DEF Stream!Init, Stream!Never
<1>2. received \in [Stream!Topics -> -1 .. 0]
  BY DEF Stream!Init, Stream!Never
<1>3. socket \in [up : BOOLEAN, since : 0 .. 0, next : 0 .. (0 + Period + Retry)]
  BY StreamConstants DEF Stream!Init
<1>4. StreamTyped
  <2>1. clock \in 0 .. StreamHorizon /\ sent \in -1 .. clock
    BY <1>1, StreamConstants
  <2>2. handling \in {Stream!Free} /\ silent \in BOOLEAN
    BY <1>1
  <2> QED  BY <1>1, <1>2, <1>3, <2>1, <2>2 DEF StreamTyped
<1> QED  BY <1>4 DEF Stream!Init, StreamInv, Watched, Heard

LEMMA StaleIs == StreamTyped => (Stream!twap_stream_is_stale <=> clock - QuietSince > Stall)
<1> SUFFICES ASSUME StreamTyped PROVE Stream!twap_stream_is_stale <=> clock - QuietSince > Stall
  OBVIOUS
<1>1. PICK s, r : s = socket.since /\ r = received["twap"]
  OBVIOUS
<1>2. s \in Int /\ r \in Int
  BY <1>1, StreamParts
<1>3. Stream!Max({s, r}) = QuietSince
  BY <1>1, <1>2, StreamMax DEF QuietSince, Quiet
<1> QED  BY <1>1, <1>3 DEF Stream!twap_stream_is_stale

LEMMA LeavesKeeps == ASSUME StreamInv, Stream!Leaves PROVE StreamInv'
<1>1. /\ ~socket'.up /\ handling' = Stream!Free /\ clock' = clock
  BY DEF Stream!Leaves
<1>2. StreamTyped'
  <2>1. socket' \in [up : BOOLEAN, since : 0 .. clock, next : 0 .. (clock + Period + Retry)]
    BY StreamParts, StreamConstants DEF StreamInv, Stream!Leaves
  <2> QED  BY <2>1 DEF StreamInv, StreamTyped, Stream!Leaves
<1> QED  BY <1>1, <1>2 DEF StreamInv, Watched, Heard

LEMMA StreamNext == StreamInv /\ [Stream!Next]_Stream!vars => StreamInv'
<1> SUFFICES ASSUME StreamInv, [Stream!Next]_Stream!vars PROVE StreamInv'
  OBVIOUS
<1>0. StreamTyped /\ Watched /\ Heard
  BY DEF StreamInv
<1>1. CASE Stream!Connects
  <2>1. /\ ~socket.up /\ UNCHANGED <<clock, handling, silent>> /\ sent' = -1
        /\ socket' = [up |-> TRUE, since |-> clock, next |-> clock + Period]
        /\ received' = [p \in Stream!Topics |-> -1]
    BY <1>1 DEF Stream!Connects, Stream!Never
  <2>2. handling = Stream!Free
    BY <1>0, <2>1 DEF StreamTyped
  <2>3. received'["twap"] = -1 /\ received'["spot"] = -1
    BY <2>1 DEF Stream!Topics
  <2>4. QuietSince' = clock
    BY <1>0, <2>1, <2>3, StreamParts DEF QuietSince, Quiet
  <2>5. StreamTyped'
    BY <1>0, <2>1, <2>2, StreamParts, StreamConstants DEF StreamTyped
  <2>6. Watched' /\ Heard'
    BY <1>0, <2>1, <2>2, <2>4, <2>3, StreamParts, StreamConstants DEF Watched, Heard, SpotRead
  <2> QED  BY <2>5, <2>6 DEF StreamInv
<1>2. CASE Stream!Disconnects
  BY <1>2, LeavesKeeps DEF Stream!Disconnects
<1>3. CASE Stream!stale_watchdog
  <2>1. CASE Stream!Leaves
    BY <2>1, LeavesKeeps
  <2>2. CASE ~Stream!Leaves
    <3>1. /\ ~Stream!twap_stream_is_stale /\ UNCHANGED <<clock, received, handling, sent, silent>>
          /\ socket' = [socket EXCEPT !.next = clock + Period]
      BY <1>3, <2>2 DEF Stream!stale_watchdog
    <3>2. socket'.up = socket.up /\ socket'.since = socket.since /\ socket'.next = clock + Period
      BY <1>0, <3>1 DEF StreamTyped
    <3>3. clock - QuietSince <= Stall
      BY <1>0, <3>1, StaleIs, StreamParts, StreamConstants
    <3>4. QuietSince' = QuietSince /\ (SpotRead' <=> SpotRead)
      BY <3>1, <3>2 DEF QuietSince, SpotRead
    <3>5. StreamTyped'
      BY <1>0, <3>1, StreamParts, StreamConstants DEF StreamTyped
    <3>6. Watched'
      BY <1>0, <3>1, <3>2, <3>3, <3>4, StreamParts, StreamConstants DEF Watched
    <3>7. Heard'
      BY <1>0, <3>1, <3>2, <3>4 DEF Heard
    <3> QED  BY <3>5, <3>6, <3>7 DEF StreamInv
  <2> QED  BY <2>1, <2>2
<1>4. CASE Stream!Handled
  <2>1. handling # Stream!Free /\ handling' = Stream!Free /\ UNCHANGED <<clock, socket, received, sent, silent>>
    BY <1>4 DEF Stream!Handled
  <2>2. QuietSince' = QuietSince /\ (SpotRead' <=> SpotRead) /\ FirstWait' = FirstWait
    BY <2>1 DEF QuietSince, SpotRead, FirstWait
  <2>3. StreamTyped'
    BY <1>0, <2>1 DEF StreamTyped
  <2>4. Watched'
    BY <1>0, <2>1, <2>2 DEF Watched
  <2>5. Heard'
    BY <1>0, <2>1, <2>2, StreamParts DEF Heard
  <2> QED  BY <2>3, <2>4, <2>5 DEF StreamInv
<1>5. CASE Stream!ServerSends
  <2>1. /\ socket.up /\ ~silent /\ sent' = clock /\ UNCHANGED <<clock, socket, received, handling, silent>>
    BY <1>5 DEF Stream!ServerSends
  <2>2. QuietSince' = QuietSince /\ (SpotRead' <=> SpotRead) /\ FirstWait' = FirstWait
    BY <2>1 DEF QuietSince, SpotRead, FirstWait
  <2>3. StreamTyped'
    BY <1>0, <2>1, StreamParts DEF StreamTyped
  <2>4. Watched' /\ Heard'
    BY <1>0, <2>1, <2>2, StreamParts DEF Watched, Heard
  <2> QED  BY <2>3, <2>4 DEF StreamInv
<1>6. CASE Stream!TopicStops
  <2>1. silent' = TRUE /\ UNCHANGED <<clock, socket, received, handling, sent>>
    BY <1>6 DEF Stream!TopicStops
  <2>2. StreamTyped' /\ Watched' /\ Heard'
    BY <1>0, <2>1 DEF StreamTyped, Watched, Heard, QuietSince
  <2> QED  BY <2>2 DEF StreamInv
<1>7. CASE Stream!TimePasses
  <2>1. /\ clock < StreamHorizon /\ clock' = clock + 1 /\ UNCHANGED <<socket, received, handling, sent, silent>>
        /\ ~(socket.up /\ clock >= socket.next)
        /\ ~(handling # Stream!Free /\ clock >= handling.since + Handling)
        /\ ~(socket.up /\ handling = Stream!Free /\ sent > received["twap"])
        /\ ~(socket.up /\ ~silent /\ sent # clock)
    BY <1>7 DEF Stream!TimePasses, Stream!Urgent, Stream!Waiting
  <2>2. QuietSince' = QuietSince /\ (SpotRead' <=> SpotRead) /\ FirstWait' = FirstWait
    BY <2>1 DEF QuietSince, SpotRead, FirstWait
  <2>3. StreamTyped'
    <3>1. clock' \in 0 .. StreamHorizon /\ sent' \in -1 .. clock'
      BY <1>0, <2>1, StreamParts, StreamConstants
    <3>2. \A x \in 0 .. clock : x \in 0 .. clock'
      BY <1>0, <2>1, StreamParts
    <3>3. \A x \in -1 .. clock : x \in -1 .. clock'
      BY <1>0, <2>1, StreamParts
    <3>4. \A x \in 0 .. (clock + Period + Retry) : x \in 0 .. (clock' + Period + Retry)
      BY <1>0, <2>1, StreamParts, StreamConstants
    <3>5. socket \in [up : BOOLEAN, since : 0 .. clock', next : 0 .. (clock' + Period + Retry)]
      BY <1>0, <3>2, <3>4 DEF StreamTyped
    <3>6. received \in [Stream!Topics -> -1 .. clock']
      BY <1>0, <3>3 DEF StreamTyped
    <3>7. handling \in [topic : Stream!Topics, since : 0 .. clock'] \cup {Stream!Free}
      BY <1>0, <3>2 DEF StreamTyped
    <3> QED  BY <1>0, <2>1, <3>1, <3>5, <3>6, <3>7 DEF StreamTyped
  <2>4. Watched'
    BY <1>0, <2>1, <2>2, StreamParts DEF Watched
  <2>5. Heard'
    <3> SUFFICES ASSUME socket.up, ~silent PROVE Heard'
      BY <2>1 DEF Heard
    <3>1. sent = clock
      BY <2>1
    <3>2. handling = Stream!Free => QuietSince = clock
      BY <1>0, <2>1, <3>1, StreamParts DEF QuietSince, Quiet
    <3> QED  BY <1>0, <2>1, <2>2, <3>1, <3>2, StreamParts DEF Heard
  <2> QED  BY <2>3, <2>4, <2>5 DEF StreamInv
<1>8. ASSUME NEW p \in Stream!Topics, Stream!handle_observation(p) PROVE StreamInv'
  <2>1. /\ socket.up /\ handling = Stream!Free /\ UNCHANGED <<clock, socket, sent, silent>>
        /\ received' = [received EXCEPT ![p] = clock]
        /\ handling' = [topic |-> p, since |-> clock]
    BY <1>8 DEF Stream!handle_observation
  <2>2. handling' # Stream!Free /\ handling'.since = clock /\ handling'.topic = p
    BY <2>1 DEF Stream!Free, Stream!Topics
  <2>3. StreamTyped'
    <3>1. clock \in 0 .. clock /\ clock \in -1 .. clock
      BY <1>0, StreamParts
    <3>2. received' \in [Stream!Topics -> -1 .. clock]
      BY <1>0, <2>1, <3>1 DEF StreamTyped
    <3>3. handling' \in [topic : Stream!Topics, since : 0 .. clock]
      BY <2>1, <3>1
    <3> QED  BY <1>0, <2>1, <3>2, <3>3 DEF StreamTyped
  <2>4. CASE p = "twap"
    <3>1. received'["twap"] = clock /\ received'["spot"] = received["spot"]
      BY <1>0, <2>1, <2>4 DEF StreamTyped, Stream!Topics
    <3>2. QuietSince' = clock /\ ~SpotRead'
      BY <1>0, <2>1, <3>1, StreamParts DEF QuietSince, Quiet, SpotRead
    <3>3. Watched' /\ Heard'
      BY <1>0, <2>1, <2>2, <3>2, StreamParts, StreamConstants DEF Watched, Heard
    <3> QED  BY <2>3, <3>3 DEF StreamInv
  <2>5. CASE p = "spot"
    <3>1. received'["twap"] = received["twap"] /\ received'["spot"] = clock
      BY <1>0, <2>1, <2>5 DEF StreamTyped, Stream!Topics
    <3>2. QuietSince' = QuietSince /\ (~SpotRead' => QuietSince = clock) /\ FirstWait' = FirstWait
      BY <1>0, <2>1, <3>1, StreamParts DEF QuietSince, Quiet, SpotRead, FirstWait
    <3>3. ~(sent > received["twap"]) \/ ~SpotRead
      BY <1>0, <1>8, <2>5, StreamParts DEF Stream!handle_observation, Stream!Waiting, SpotRead
    <3>4. Watched'
      BY <1>0, <2>1, <3>2 DEF Watched
    <3>5. Heard'
      <4> SUFFICES ASSUME ~silent PROVE Heard'
        BY <2>1 DEF Heard
      <4>1. ~(sent > received["twap"]) => clock <= QuietSince + 1
        BY <1>0, <2>1, StreamParts DEF Heard, QuietSince, Quiet
      <4>2. clock <= QuietSince + FirstWait
        BY <1>0, <2>1, <3>3, <4>1, StreamParts DEF Heard
      <4> QED  BY <1>0, <2>1, <2>2, <3>2, <4>2, StreamParts DEF Heard
    <3> QED  BY <2>3, <3>4, <3>5 DEF StreamInv
  <2> QED  BY <2>4, <2>5 DEF Stream!Topics
<1>9. CASE UNCHANGED Stream!vars
  BY <1>0, <1>9 DEF Stream!vars, StreamInv, StreamTyped, Watched, Heard, QuietSince, SpotRead
<1> QED  BY <1>1, <1>2, <1>3, <1>4, <1>5, <1>6, <1>7, <1>8, <1>9 DEF Stream!Next

LEMMA StreamProperties == StreamInv => Stream!TypeOK /\ Stream!SilenceEnds
<1> SUFFICES ASSUME StreamInv PROVE Stream!TypeOK /\ Stream!SilenceEnds
  OBVIOUS
<1>0. StreamTyped /\ Watched
  BY DEF StreamInv
<1>1. /\ clock \in 0 .. StreamHorizon /\ sent \in (0 .. StreamHorizon) \cup {-1}
      /\ socket.next \in 0 .. (StreamHorizon + Period + Retry)
  <2>1. socket.next \in 0 .. (clock + Period + Retry)
    BY <1>0 DEF StreamTyped
  <2> QED  BY <1>0, <2>1, StreamParts, StreamConstants
<1>2. \A x \in 0 .. clock : x \in 0 .. StreamHorizon
  BY <1>0, StreamParts, StreamConstants
<1>3. \A x \in -1 .. clock : x \in (0 .. StreamHorizon) \cup {-1}
  BY <1>0, StreamParts, StreamConstants
<1>4. received \in [Stream!Topics -> (0 .. StreamHorizon) \cup {-1}]
  BY <1>0, <1>3 DEF StreamTyped
<1>5. socket \in [up : BOOLEAN, since : 0 .. StreamHorizon, next : 0 .. (StreamHorizon + Period + Retry)]
  BY <1>0, <1>1, <1>2 DEF StreamTyped
<1>6. handling.topic \in Stream!Topics \cup {"none"}
  BY <1>0 DEF StreamTyped, Stream!Free
<1>7. Stream!TypeOK
  BY <1>0, <1>1, <1>4, <1>5, <1>6 DEF Stream!TypeOK, Stream!Times, Stream!Never, StreamTyped
<1>8. Stream!SilenceEnds
  <2>1. PICK s, r : s = socket.since /\ r = received["twap"]
    OBVIOUS
  <2>2. s \in Int /\ r \in Int
    BY <1>0, <2>1, StreamParts
  <2>3. Stream!Max({s, r}) = QuietSince
    BY <2>1, <2>2, StreamMax DEF QuietSince, Quiet
  <2>4. socket.up => clock - QuietSince <= Stall + Period
    BY <1>0, StreamParts, StreamConstants DEF Watched
  <2> QED  BY <2>1, <2>3, <2>4 DEF Stream!SilenceEnds
<1> QED  BY <1>7, <1>8

\* Handling an observation of each topic takes no longer than the silence that is accepted, and
\* some silence is.
Quick == 2 * Handling <= Stall /\ Stall > 0

Abandons == socket.up /\ ~socket'.up /\ Stream!stale_watchdog => silent

LEMMA LiveStays == ASSUME Quick, StreamInv PROVE Abandons
<1> SUFFICES ASSUME socket.up, ~socket'.up, Stream!stale_watchdog, ~silent PROVE FALSE
  BY DEF Abandons, StreamInv, StreamTyped
<1>0. StreamTyped /\ Heard
  BY DEF StreamInv
<1>1. Stream!twap_stream_is_stale
  <2>1. CASE ~Stream!twap_stream_is_stale
    <3>1. socket'.up = socket.up
      BY <1>0, <2>1 DEF Stream!stale_watchdog, StreamTyped
    <3> QED  BY <3>1
  <2> QED  BY <2>1
<1>2. clock > QuietSince + Stall
  BY <1>0, <1>1, StaleIs, StreamParts, StreamConstants
<1>3. clock <= QuietSince + FirstWait + Handling
  BY <1>0, StreamParts DEF Heard
<1> QED  BY <1>0, <1>2, <1>3, StreamParts, StreamConstants DEF Quick, FirstWait

-----------------------------------------------------------------------------
(* The price context of a market *)

Prices == Price!Prices
Steps  == {"idle", "cached", "asked", "show", "final"}

PriceTyped ==
  /\ time \in 0 .. PriceHorizon /\ obs \subseteq 0 .. time
  /\ final \in BOOLEAN /\ binance \in BOOLEAN
  /\ official \in [price : Prices, since : 0 .. time]
  /\ cache \in [price : Prices, expires : Int]
  /\ lock \in Tasks \cup {NoTask}
  /\ task \in [Tasks -> [at : Steps, now : 0 .. time, price : Prices]]
  /\ \A t \in Tasks : task[t].at = "asked" <=> lock = t

\* Before the end an evaluation asks for the price, after it for the result.
InPlay == \A t \in Tasks : /\ task[t].at \in {"cached", "asked", "show"} => task[t].now < End
                           /\ task[t].at = "final" => task[t].now >= End

\* An incomplete price is of a time before it was complete, or a little after.
Briefly(now) == now <= PartialTTL + IF official.price = "final" THEN official.since ELSE time

PartialKept ==
  /\ cache.price = "partial" => Briefly(cache.expires)
  /\ \A t \in Tasks : task[t].at = "show" /\ task[t].price = "partial" => Briefly(task[t].now)
  /\ shown.baseline = "partial" => Briefly(shown.now)

\* While the complete price is in the cache nobody asks for one.
FinalStays ==
  cache.price = "final" => cache.expires > PriceHorizon /\ \A t \in Tasks : task[t].at # "asked"

PriceInv == PriceTyped /\ InPlay /\ PartialKept /\ FinalStays /\ shown.now \in 0 .. time
            /\ Price!DirectionIsFresh

LEMMA PriceConstants ==
  /\ Start \in Nat /\ End \in Nat /\ Tolerance \in Nat /\ PriceStale \in Nat /\ PartialTTL \in Nat
  /\ FailedTTL \in Nat /\ Timeout \in Nat /\ PriceHorizon \in Nat /\ NoTask \notin Tasks
BY ModelConstants DEF Price!ConstantsOK

LEMMA PriceParts ==
  ASSUME PriceTyped
  PROVE  /\ time \in Nat /\ time <= PriceHorizon /\ official.price \in Prices
         /\ official.since \in Nat /\ official.since <= time
         /\ cache.price \in Prices /\ cache.expires \in Int
         /\ \A t \in Tasks : /\ task[t].at \in Steps /\ task[t].price \in Prices
                             /\ task[t].now \in Nat /\ task[t].now <= time
<1>1. time \in Nat /\ time <= PriceHorizon
  BY PriceConstants DEF PriceTyped
<1>2. official.price \in Prices /\ official.since \in 0 .. time
  BY DEF PriceTyped
<1>3. cache.price \in Prices /\ cache.expires \in Int
  BY DEF PriceTyped
<1>4. \A t \in Tasks : task[t].at \in Steps /\ task[t].price \in Prices /\ task[t].now \in 0 .. time
  BY DEF PriceTyped
<1> QED  BY <1>1, <1>2, <1>3, <1>4

LEMMA LeastOfSome ==
  ASSUME NEW S \in SUBSET Nat, S # {}
  PROVE  \E x \in S : \A y \in S : x <= y
<1>1. PICK x \in S : \A y \in S : ~ (<<y, x>> \in OpToRel(<, Nat))
  BY WFMin, NatLessThanWellFounded
<1>2. \A y \in S : ~ (y < x)
  BY <1>1 DEF OpToRel
<1> QED  BY <1>2

LEMMA GreatestUpTo ==
  ASSUME NEW n \in Nat, NEW S \in SUBSET (0 .. n), S # {}
  PROVE  \E x \in S : \A y \in S : x >= y
<1> DEFINE Rest == {n - x : x \in S}
<1>1. Rest \in SUBSET Nat /\ Rest # {}
  <2>1. \A x \in S : x \in 0 .. n /\ n - x \in Nat
    OBVIOUS
  <2> QED  BY <2>1
<1>2. PICK r \in Rest : \A y \in Rest : r <= y
  <2> HIDE DEF Rest
  <2> QED  BY <1>1, LeastOfSome
<1>3. PICK x \in S : r = n - x
  BY <1>2
<1>4. \A y \in S : n - y \in Rest
  OBVIOUS
<1>5. \A y \in S : x >= y
  <2> TAKE y \in S
  <2>1. n - x <= n - y
    BY <1>2, <1>3, <1>4
  <2> QED  BY <2>1
<1> QED  BY <1>5

\* The newest observation of the market that was stored.
LEMMA LatestParts ==
  ASSUME PriceTyped, NEW now \in Nat
  PROVE  LET o == Price!latest_observation(now) IN o = -1 \/ (o \in obs /\ o <= now /\ o \in Nat)
<1>1. PICK m : m = Price!Min({now, End})
  OBVIOUS
<1>2. \E x \in {now, End} : \A y \in {now, End} : x <= y
  BY PriceConstants
<1>3. m \in {now, End} /\ m <= now
  BY <1>1, <1>2, PriceConstants DEF Price!Min
<1>4. PICK seen : seen = {o \in obs : Start <= o /\ o <= m}
  OBVIOUS
<1>5. Price!latest_observation(now) = IF seen = {} THEN -1 ELSE Price!Max(seen)
  BY <1>1, <1>4 DEF Price!latest_observation, Price!Never
<1>6. seen \in SUBSET (0 .. time) /\ time \in Nat
  BY <1>4, PriceParts DEF PriceTyped
<1>7. ASSUME seen # {} PROVE Price!Max(seen) \in seen
  BY <1>6, <1>7, GreatestUpTo DEF Price!Max
<1>8. \A o \in seen : o \in obs /\ o \in Nat /\ o <= now
  BY <1>3, <1>4, <1>6, PriceConstants
<1> QED  BY <1>5, <1>7, <1>8

LEMMA PriceInit == Price!Init => PriceInv
<1> SUFFICES ASSUME Price!Init PROVE PriceInv
  OBVIOUS
<1>1. /\ time = 0 /\ obs = {} /\ final = FALSE /\ binance \in BOOLEAN /\ lock = NoTask
      /\ official = [price |-> "none", since |-> 0] /\ cache = [price |-> "none", expires |-> -1]
      /\ task = [t \in Tasks |-> Price!Idle]
      /\ Price!Idle = [at |-> "idle", now |-> 0, price |-> "none"]
  BY DEF Price!Init, Price!Never, Price!Idle
<1>1a. shown.baseline = "none" /\ shown.now = 0 /\ ~shown.directed
  <2>1. shown = Price!Context("waiting_chainlink", "none", -1, 0)
    BY DEF Price!Init, Price!Never
  <2> QED  BY <2>1 DEF Price!Context
<1>2. "none" \in Prices /\ "idle" \in Steps
  BY DEF Prices, Price!Prices, Steps
<1>3. 0 \in 0 .. time /\ time \in 0 .. PriceHorizon
  BY <1>1, PriceConstants
<1>4. \A t \in Tasks : task[t] = [at |-> "idle", now |-> 0, price |-> "none"]
  BY <1>1
<1>5. task \in [Tasks -> [at : Steps, now : 0 .. time, price : Prices]]
  BY <1>1, <1>2, <1>3
<1>6. official \in [price : Prices, since : 0 .. time] /\ cache \in [price : Prices, expires : Int]
  BY <1>1, <1>2, <1>3
<1>7. \A t \in Tasks : task[t].at # "asked" /\ lock # t /\ task[t].at = "idle"
  BY <1>1, <1>4, PriceConstants
<1>8. PriceTyped
  BY <1>1, <1>3, <1>5, <1>6, <1>7 DEF PriceTyped
<1>9. InPlay /\ PartialKept /\ FinalStays
  BY <1>1, <1>1a, <1>7 DEF InPlay, PartialKept, FinalStays
<1> QED  BY <1>1, <1>1a, <1>3, <1>8, <1>9 DEF PriceInv, Price!DirectionIsFresh

\* What an evaluation becomes.
Becomes(t, e) == task' = [task EXCEPT ![t] = e]

LEMMA TaskMoves ==
  ASSUME PriceInv, NEW t \in Tasks, NEW e \in [at : Steps, now : 0 .. time, price : Prices],
         task' = [task EXCEPT ![t] = e], time' = time, lock' \in Tasks \cup {NoTask},
         e.at = "asked" <=> lock' = t,
         \A u \in Tasks \ {t} : lock = u <=> lock' = u,
         e.at \in {"cached", "asked", "show"} => e.now < End,
         e.at = "final" => e.now >= End
  PROVE  /\ task' \in [Tasks -> [at : Steps, now : 0 .. time, price : Prices]]
         /\ task'[t] = e /\ \A u \in Tasks \ {t} : task'[u] = task[u]
         /\ \A u \in Tasks : task'[u].at = "asked" <=> lock' = u
         /\ InPlay'
<1>1. task' \in [Tasks -> [at : Steps, now : 0 .. time, price : Prices]]
  BY DEF PriceInv, PriceTyped
<1>2. task'[t] = e /\ \A u \in Tasks \ {t} : task'[u] = task[u]
  BY DEF PriceInv, PriceTyped
<1>3. \A u \in Tasks : task'[u].at = "asked" <=> lock' = u
  <2> TAKE u \in Tasks
  <2>1. CASE u = t
    BY <1>2, <2>1
  <2>2. CASE u # t
    BY <1>2, <2>2 DEF PriceInv, PriceTyped
  <2> QED  BY <2>1, <2>2
<1>4. InPlay'
  <2> SUFFICES ASSUME NEW u \in Tasks
               PROVE /\ task'[u].at \in {"cached", "asked", "show"} => task'[u].now < End
                     /\ task'[u].at = "final" => task'[u].now >= End
    BY DEF InPlay
  <2>1. CASE u = t
    BY <1>2, <2>1
  <2>2. CASE u # t
    BY <1>2, <2>2 DEF PriceInv, InPlay
  <2> QED  BY <2>1, <2>2
<1> QED  BY <1>1, <1>2, <1>3, <1>4

LEMMA EvaluationParts ==
  ASSUME PriceTyped, NEW t \in Tasks
  PROVE  /\ task[t] \in [at : Steps, now : 0 .. time, price : Prices]
         /\ \A s \in Steps : [task[t] EXCEPT !.at = s] \in [at : Steps, now : 0 .. time, price : Prices]
         /\ \A s \in Steps, p \in Prices :
              [task[t] EXCEPT !.at = s, !.price = p] \in [at : Steps, now : 0 .. time, price : Prices]
         /\ \A s \in Steps : [Price!Idle EXCEPT !.at = s, !.now = time]
                               \in [at : Steps, now : 0 .. time, price : Prices]
         /\ Price!Idle \in [at : Steps, now : 0 .. time, price : Prices]
<1>1. task[t] \in [at : Steps, now : 0 .. time, price : Prices]
  BY DEF PriceTyped
<1>2. Price!Idle = [at |-> "idle", now |-> 0, price |-> "none"] /\ "idle" \in Steps /\ "none" \in Prices
  BY DEF Price!Idle, Steps, Prices, Price!Prices
<1>3. 0 \in 0 .. time /\ time \in 0 .. time
  BY PriceParts
<1>4. Price!Idle \in [at : Steps, now : 0 .. time, price : Prices]
  BY <1>2, <1>3
<1>5. \A s \in Steps : [Price!Idle EXCEPT !.at = s, !.now = time] \in [at : Steps, now : 0 .. time, price : Prices]
  BY <1>3, <1>4
<1>6. \A s \in Steps : [task[t] EXCEPT !.at = s] \in [at : Steps, now : 0 .. time, price : Prices]
  BY <1>1
<1>7. \A s \in Steps, p \in Prices :
        [task[t] EXCEPT !.at = s, !.price = p] \in [at : Steps, now : 0 .. time, price : Prices]
  BY <1>1
<1> QED  BY <1>1, <1>4, <1>5, <1>6, <1>7

\* What goes on outside the evaluations.
LEMMA OutsideKeeps ==
  ASSUME PriceInv, UNCHANGED <<cache, lock, task, shown>>,
         \/ Price!upsert_observation \/ Price!OfficialResult \/ Price!TimePasses
         \/ \E price \in {"partial", "final"} : Price!OfficialPrice(price)
  PROVE  PriceInv'
<1>0. PriceTyped /\ InPlay /\ PartialKept /\ FinalStays
  BY DEF PriceInv
<1> DEFINE Goes == /\ time' \in {time, time + 1} /\ time' <= PriceHorizon /\ time' \in Nat
                    /\ obs' \in {obs, obs \cup {time}} /\ binance' = binance /\ final' \in {final, TRUE}
                    /\ \/ official' = official
                       \/ /\ official.price # "final" /\ time' = time
                          /\ official' \in [price : Prices, since : {time}]
<1>1. Goes
  <2>1. CASE Price!upsert_observation
    BY <1>0, <2>1, PriceParts DEF Price!upsert_observation, Price!outside
  <2>2. CASE Price!OfficialResult
    BY <1>0, <2>2, PriceParts DEF Price!OfficialResult
  <2>3. CASE Price!TimePasses
    BY <1>0, <2>3, PriceParts, PriceConstants DEF Price!TimePasses, Price!outside
  <2>4. ASSUME NEW price \in {"partial", "final"}, Price!OfficialPrice(price) PROVE Goes
    <3>1. price \in Prices
      BY DEF Prices, Price!Prices
    <3>2. /\ official.price # "final" /\ official' = [price |-> price, since |-> time]
          /\ UNCHANGED <<time, obs, final, binance>>
      BY <2>4 DEF Price!OfficialPrice
    <3> QED  BY <1>0, <3>1, <3>2, PriceParts
  <2> QED  BY <2>1, <2>2, <2>3, <2>4
<1>2. \A x \in 0 .. time : x \in 0 .. time'
  BY <1>0, <1>1, PriceParts
<1>3. /\ time' \in 0 .. PriceHorizon /\ obs' \subseteq 0 .. time'
  BY <1>0, <1>1, <1>2, PriceParts, PriceConstants DEF PriceTyped
<1>4. official' \in [price : Prices, since : 0 .. time']
  <2>1. CASE official' = official
    BY <1>0, <1>2, <2>1 DEF PriceTyped
  <2>2. CASE official' # official
    BY <1>0, <1>1, <2>2, PriceParts
  <2> QED  BY <2>1, <2>2
<1>5. task' \in [Tasks -> [at : Steps, now : 0 .. time', price : Prices]]
  BY <1>0, <1>2 DEF PriceTyped
<1>6. final' \in BOOLEAN /\ binance' \in BOOLEAN
  BY <1>0, <1>1 DEF PriceTyped
<1>7. PriceTyped'
  BY <1>0, <1>3, <1>4, <1>5, <1>6 DEF PriceTyped
<1>8. InPlay' /\ FinalStays'
  BY <1>0 DEF InPlay, FinalStays
<1>9. ASSUME NEW n \in Int, Briefly(n)
      PROVE  n <= PartialTTL + IF official'.price = "final" THEN official'.since ELSE time'
  BY <1>0, <1>1, <1>9, PriceParts, PriceConstants DEF Briefly
<1>10. shown.now \in 0 .. time /\ shown.now \in Int /\ cache.expires \in Int
  BY <1>0, PriceParts DEF PriceInv
<1>11. PartialKept'
  <2>1. cache'.price = "partial" => Briefly(cache.expires)'
    BY <1>0, <1>9, <1>10 DEF PartialKept, Briefly
  <2>2. shown'.baseline = "partial" => Briefly(shown.now)'
    BY <1>0, <1>9, <1>10 DEF PartialKept, Briefly
  <2>3. ASSUME NEW t \in Tasks
        PROVE  (task[t].at = "show" /\ task[t].price = "partial" => Briefly(task[t].now))'
    <3>1. task[t].at = "show" /\ task[t].price = "partial" => Briefly(task[t].now) /\ task[t].now \in Int
      BY <1>0, PriceParts DEF PartialKept
    <3> QED  BY <1>9, <3>1 DEF Briefly
  <2> QED  BY <2>1, <2>2, <2>3 DEF PartialKept, Briefly
<1>12. Price!DirectionIsFresh'
  <2>1. obs \subseteq obs'
    BY <1>1
  <2>2. final => final'
    BY <1>0, <1>1 DEF PriceTyped
  <2> QED  BY <2>1, <2>2 DEF PriceInv, Price!DirectionIsFresh
<1> QED  BY <1>2, <1>7, <1>8, <1>10, <1>11, <1>12 DEF PriceInv

\* A price is taken from the cache, or stored there with what the evaluation makes of it.
LEMMA StoresKeeps ==
  ASSUME PriceInv, NEW t \in Tasks, NEW price \in Prices, NEW ttl \in Int,
         task[t].at = "asked", Price!Stores(t, price, ttl), UNCHANGED <<time, obs, official, final, binance, shown>>,
         price = "partial" => ttl = PartialTTL /\ official.price = "partial",
         price = "final" => ttl = PriceHorizon + 1
  PROVE  PriceInv'
<1>0. PriceTyped /\ InPlay /\ PartialKept /\ FinalStays
  BY DEF PriceInv
<1> DEFINE e == [task[t] EXCEPT !.at = "show", !.price = price]
<1>1. /\ lock' = NoTask /\ lock = t /\ "show" \in Steps
      /\ cache' = [price |-> price,
                   expires |-> IF ttl = PriceHorizon + 1 THEN PriceHorizon + 1 ELSE task[t].now + ttl]
  BY <1>0 DEF Price!Stores, Price!Forever, PriceTyped, Steps
<1>2. /\ e \in [at : Steps, now : 0 .. time, price : Prices]
      /\ e.at = "show" /\ e.price = price /\ e.now = task[t].now
  BY <1>0, <1>1, EvaluationParts
<1>3. task' = [task EXCEPT ![t] = e]
  BY <1>0, EvaluationParts DEF Price!Stores, Price!Has, PriceTyped
<1> HIDE DEF e
<1>4. /\ task' \in [Tasks -> [at : Steps, now : 0 .. time, price : Prices]]
      /\ task'[t] = e /\ \A u \in Tasks \ {t} : task'[u] = task[u]
      /\ \A u \in Tasks : task'[u].at = "asked" <=> lock' = u
      /\ InPlay'
  <2>1. e.now < End
    BY <1>0, <1>2 DEF InPlay
  <2>2. NoTask \notin Tasks
    BY PriceConstants
  <2> QED  BY <1>1, <1>2, <1>3, <2>1, <2>2, TaskMoves
<1>5. cache'.expires \in Int /\ cache'.price = price /\ (price = "final" => cache'.expires > PriceHorizon)
  BY <1>0, <1>1, PriceParts, PriceConstants
<1>6. PriceTyped'
  <2>1. cache' \in [price : Prices, expires : Int]
    BY <1>1, <1>5
  <2> QED  BY <1>0, <1>1, <1>4, <2>1 DEF PriceTyped
<1>7. FinalStays'
  <2>1. \A u \in Tasks : task'[u].at # "asked"
    BY <1>1, <1>4, PriceConstants
  <2> QED  BY <1>5, <2>1 DEF FinalStays
<1>8. PICK x : x = cache'.expires
  OBVIOUS
<1>9. price = "partial" => Briefly(x) /\ Briefly(e.now)
  BY <1>0, <1>1, <1>2, <1>8, PriceParts, PriceConstants DEF Briefly
<1>10. PartialKept'
  <2>1. cache'.price = "partial" => Briefly(cache.expires)'
    BY <1>5, <1>8, <1>9 DEF Briefly
  <2>2. shown'.baseline = "partial" => Briefly(shown.now)'
    BY <1>0 DEF PartialKept, Briefly
  <2>3. ASSUME NEW u \in Tasks PROVE (task[u].at = "show" /\ task[u].price = "partial" => Briefly(task[u].now))'
    <3>1. CASE u = t
      BY <1>2, <1>4, <1>9, <3>1 DEF Briefly
    <3>2. CASE u # t
      BY <1>0, <1>4, <3>2 DEF PartialKept, Briefly
    <3> QED  BY <3>1, <3>2
  <2> QED  BY <2>1, <2>2, <2>3 DEF PartialKept
<1> QED  BY <1>4, <1>6, <1>7, <1>10 DEF PriceInv, Price!DirectionIsFresh

LEMMA PriceNext == PriceInv /\ [Price!Next]_Price!vars => PriceInv'
<1> SUFFICES ASSUME PriceInv, [Price!Next]_Price!vars PROVE PriceInv'
  OBVIOUS
<1>0. PriceTyped /\ InPlay /\ PartialKept /\ FinalStays
  BY DEF PriceInv
<1>1. CASE \/ Price!upsert_observation \/ Price!OfficialResult \/ Price!TimePasses
           \/ \E price \in {"partial", "final"} : Price!OfficialPrice(price)
  BY <1>1, OutsideKeeps DEF Price!upsert_observation, Price!OfficialResult, Price!TimePasses,
       Price!OfficialPrice, Price!evaluation
<1>2. ASSUME NEW t \in Tasks, Price!Begins(t) PROVE PriceInv'
  <2>1. PICK s : s = IF time >= End THEN "final" ELSE "cached"
    OBVIOUS
  <2>2. PICK e : e = [Price!Idle EXCEPT !.at = s, !.now = time]
    OBVIOUS
  <2>3. /\ task[t].at = "idle" /\ task' = [task EXCEPT ![t] = e]
        /\ UNCHANGED <<time, obs, official, final, binance, cache, lock, shown>>
    BY <1>2, <2>1, <2>2 DEF Price!Begins, Price!outside
  <2>4. s \in Steps
    BY <2>1 DEF Steps
  <2>5. /\ e \in [at : Steps, now : 0 .. time, price : Prices] /\ e.at = s /\ e.now = time
        /\ s \notin {"asked", "show"}
    BY <1>0, <2>1, <2>2, <2>4, EvaluationParts DEF Price!Idle
  <2>6. /\ task' \in [Tasks -> [at : Steps, now : 0 .. time, price : Prices]]
        /\ task'[t] = e /\ \A u \in Tasks \ {t} : task'[u] = task[u]
        /\ \A u \in Tasks : task'[u].at = "asked" <=> lock' = u
        /\ InPlay'
    <3>1. lock' # t /\ lock' \in Tasks \cup {NoTask}
      BY <1>0, <2>3 DEF PriceTyped
    <3>2. (e.at \in {"cached", "asked", "show"} => e.now < End) /\ (e.at = "final" => e.now >= End)
      BY <1>0, <2>1, <2>5, PriceParts, PriceConstants
    <3> QED  BY <2>3, <2>5, <3>1, <3>2, TaskMoves
  <2>7. PriceTyped'
    BY <1>0, <2>3, <2>6 DEF PriceTyped
  <2>8. PartialKept' /\ FinalStays'
    BY <1>0, <2>3, <2>5, <2>6 DEF PartialKept, FinalStays, Briefly
  <2> QED  BY <2>3, <2>6, <2>7, <2>8 DEF PriceInv, Price!DirectionIsFresh
<1>3. ASSUME NEW t \in Tasks, Price!PriceCached(t) PROVE PriceInv'
  <2>1. PICK e : e = [task[t] EXCEPT !.at = "show", !.price = cache.price]
    OBVIOUS
  <2>2. /\ task[t].at = "cached" /\ cache.expires > task[t].now
        /\ UNCHANGED <<time, obs, official, final, binance, cache, lock, shown>>
    BY <1>3 DEF Price!PriceCached, Price!Cached, Price!outside
  <2>3. task' = [task EXCEPT ![t] = e]
    BY <1>0, <1>3, <2>1, EvaluationParts DEF Price!PriceCached, Price!Has, PriceTyped
  <2>4. "show" \in Steps /\ cache.price \in Prices
    BY <1>0, PriceParts DEF Steps
  <2>5. /\ e \in [at : Steps, now : 0 .. time, price : Prices]
        /\ e.at = "show" /\ e.price = cache.price /\ e.now = task[t].now
    BY <1>0, <2>1, <2>4, EvaluationParts
  <2>6. /\ task' \in [Tasks -> [at : Steps, now : 0 .. time, price : Prices]]
        /\ task'[t] = e /\ \A u \in Tasks \ {t} : task'[u] = task[u]
        /\ \A u \in Tasks : task'[u].at = "asked" <=> lock' = u
        /\ InPlay'
    <3>1. lock' # t /\ lock' \in Tasks \cup {NoTask}
      BY <1>0, <2>2 DEF PriceTyped
    <3>2. e.now < End
      BY <1>0, <2>2, <2>5 DEF InPlay
    <3> QED  BY <2>2, <2>3, <2>5, <3>1, <3>2, TaskMoves
  <2>7. PriceTyped'
    BY <1>0, <2>2, <2>6 DEF PriceTyped
  <2>8. cache.price = "partial" => Briefly(e.now)
    BY <1>0, <2>2, <2>5, PriceParts, PriceConstants DEF PartialKept, Briefly
  <2>9. PartialKept' /\ FinalStays'
    BY <1>0, <2>2, <2>5, <2>6, <2>8 DEF PartialKept, FinalStays, Briefly
  <2> QED  BY <2>2, <2>6, <2>7, <2>9 DEF PriceInv, Price!DirectionIsFresh
<1>4. ASSUME NEW t \in Tasks, Price!PriceAsked(t) PROVE PriceInv'
  <2>1. PICK e : e = [task[t] EXCEPT !.at = "asked"]
    OBVIOUS
  <2>2. /\ task[t].at = "cached" /\ ~(cache.expires > task[t].now) /\ lock = NoTask /\ lock' = t
        /\ UNCHANGED <<time, obs, official, final, binance, cache, shown>>
    BY <1>4 DEF Price!PriceAsked, Price!Cached, Price!outside
  <2>3. task' = [task EXCEPT ![t] = e]
    BY <1>0, <1>4, <2>1, EvaluationParts DEF Price!PriceAsked, PriceTyped
  <2>4. PICK s : s = "asked" /\ s \in Steps
    BY DEF Steps
  <2>5. /\ e \in [at : Steps, now : 0 .. time, price : Prices] /\ e.at = "asked" /\ e.now = task[t].now
    BY <1>0, <2>1, <2>4, EvaluationParts
  <2>6. /\ task' \in [Tasks -> [at : Steps, now : 0 .. time, price : Prices]]
        /\ task'[t] = e /\ \A u \in Tasks \ {t} : task'[u] = task[u]
        /\ \A u \in Tasks : task'[u].at = "asked" <=> lock' = u
        /\ InPlay'
    <3>1. \A u \in Tasks \ {t} : lock = u <=> lock' = u
      BY <2>2, PriceConstants
    <3>2. e.now < End
      BY <1>0, <2>2, <2>5 DEF InPlay
    <3> QED  BY <2>2, <2>3, <2>5, <3>1, <3>2, TaskMoves
  <2>7. PriceTyped'
    BY <1>0, <2>2, <2>6 DEF PriceTyped
  <2>8. cache.price # "final"
    BY <1>0, <2>2, PriceParts, PriceConstants DEF FinalStays
  <2>9. PartialKept' /\ FinalStays'
    BY <1>0, <2>2, <2>5, <2>6, <2>8 DEF PartialKept, FinalStays, Briefly
  <2> QED  BY <2>2, <2>6, <2>7, <2>9 DEF PriceInv, Price!DirectionIsFresh
<1>5. ASSUME NEW t \in Tasks, Price!PriceAnswered(t) PROVE PriceInv'
  <2>1. PICK p : p = official.price
    OBVIOUS
  <2>2. PICK ttl : ttl = IF p = "final" THEN PriceHorizon + 1 ELSE PartialTTL
    OBVIOUS
  <2>3. p \in Prices /\ p # "none" /\ ttl \in Int
    BY <1>0, <1>5, <2>1, <2>2, PriceParts, PriceConstants DEF Price!PriceAnswered
  <2>4. /\ task[t].at = "asked" /\ Price!Stores(t, p, ttl)
        /\ UNCHANGED <<time, obs, official, final, binance, shown>>
    BY <1>5, <2>1, <2>2 DEF Price!PriceAnswered, Price!Forever, Price!outside
  <2> QED  BY <2>1, <2>2, <2>3, <2>4, StoresKeeps
<1>6. ASSUME NEW t \in Tasks, Price!PriceFails(t) PROVE PriceInv'
  <2>1. PICK p : p = "none"
    OBVIOUS
  <2>2. p \in Prices /\ FailedTTL \in Int
    BY <2>1, PriceConstants DEF Prices, Price!Prices
  <2>3. /\ task[t].at = "asked" /\ Price!Stores(t, p, FailedTTL)
        /\ UNCHANGED <<time, obs, official, final, binance, shown>>
    BY <1>6, <2>1 DEF Price!PriceFails, Price!outside
  <2> QED  BY <2>1, <2>2, <2>3, StoresKeeps
<1>7. ASSUME NEW t \in Tasks, Price!Shows(t) \/ Price!ShowsFinal(t) PROVE PriceInv'
  <2>1. /\ task[t].at \in {"show", "final"} /\ task' = [task EXCEPT ![t] = Price!Idle]
        /\ UNCHANGED <<time, obs, official, final, binance, cache, lock>>
    BY <1>7 DEF Price!Shows, Price!ShowsFinal, Price!outside
  <2>2. PICK e : e = Price!Idle
    OBVIOUS
  <2>3. e \in [at : Steps, now : 0 .. time, price : Prices] /\ e.at = "idle"
    BY <1>0, <2>2, EvaluationParts DEF Price!Idle
  <2>4. /\ task' \in [Tasks -> [at : Steps, now : 0 .. time, price : Prices]]
        /\ task'[t] = e /\ \A u \in Tasks \ {t} : task'[u] = task[u]
        /\ \A u \in Tasks : task'[u].at = "asked" <=> lock' = u
        /\ InPlay'
    <3>1. lock' # t /\ lock' \in Tasks \cup {NoTask}
      BY <1>0, <2>1 DEF PriceTyped
    <3> QED  BY <2>1, <2>2, <2>3, <3>1, TaskMoves
  <2>5. PriceTyped'
    BY <1>0, <2>1, <2>4 DEF PriceTyped
  <2>6. FinalStays'
    BY <1>0, <2>1, <2>3, <2>4 DEF FinalStays
  <2>7. PICK now, p : now = task[t].now /\ p = task[t].price
    OBVIOUS
  <2>8. now \in Nat /\ now <= time /\ p \in Prices
    BY <1>0, <2>7, PriceParts
  <2>9. /\ shown'.now = now
        /\ shown'.baseline = "partial" => Briefly(now)
        /\ shown'.directed => /\ shown'.baseline # "none"
                              /\ IF now >= End THEN final
                                 ELSE shown'.current \in obs /\ shown'.current <= now
                                      /\ now - shown'.current <= PriceStale
    <3>1. CASE Price!Shows(t)
      <4>1. PICK o, q : o = Price!latest_observation(now) /\ q = Price!quality(now, p)
        OBVIOUS
      <4>2. shown' = Price!Context(q, Price!Baseline(p), o, now) /\ task[t].at = "show"
        BY <2>7, <3>1, <4>1 DEF Price!Shows
      <4>3. /\ shown'.now = now /\ shown'.baseline = Price!Baseline(p) /\ shown'.current = o
            /\ shown'.directed <=> q \in {"exact", "estimated_baseline"}
        BY <4>2 DEF Price!Context
      <4>4. now < End
        BY <1>0, <2>7, <4>2 DEF InPlay
      <4>5. Price!Baseline(p) = "partial" => p = "partial"
        BY DEF Price!Baseline
      <4>6. shown'.baseline = "partial" => Briefly(now)
        BY <1>0, <2>7, <4>2, <4>3, <4>5 DEF PartialKept
      <4>7. o = -1 \/ (o \in obs /\ o <= now /\ o \in Nat)
        BY <1>0, <2>8, <4>1, LatestParts
      <4>8. ASSUME q \in {"exact", "estimated_baseline"}
            PROVE  o # -1 /\ ~(now - o > PriceStale) /\ Price!Baseline(p) # "none"
        BY <4>1, <4>8 DEF Price!quality, Price!Never
      <4> QED  BY <2>8, <4>3, <4>4, <4>6, <4>7, <4>8, PriceConstants
    <3>2. CASE Price!ShowsFinal(t)
      <4>1. PICK answered \in {FALSE, final} :
              shown' = IF answered THEN Price!Context("exact", "final", End, now)
                       ELSE Price!Context("waiting_polymarket_final", "none", -1, now)
        BY <2>7, <3>2 DEF Price!ShowsFinal, Price!Never
      <4>2. task[t].at = "final"
        BY <3>2 DEF Price!ShowsFinal
      <4>3. now >= End
        BY <1>0, <2>7, <4>2 DEF InPlay
      <4>4. CASE answered
        BY <4>1, <4>3, <4>4 DEF Price!Context
      <4>5. CASE ~answered
        BY <4>1, <4>3, <4>5 DEF Price!Context
      <4> QED  BY <4>4, <4>5
    <3> QED  BY <1>7, <3>1, <3>2
  <2>10. PartialKept'
    BY <1>0, <2>1, <2>3, <2>4, <2>9 DEF PartialKept, Briefly
  <2>11. Price!DirectionIsFresh'
    BY <2>1, <2>9 DEF Price!DirectionIsFresh
  <2>12. shown'.now \in 0 .. time'
    BY <1>0, <2>1, <2>8, <2>9, PriceParts
  <2> QED  BY <2>4, <2>5, <2>6, <2>10, <2>11, <2>12 DEF PriceInv
<1>8. CASE UNCHANGED Price!vars
  BY <1>8 DEF Price!vars, PriceInv, PriceTyped, InPlay, PartialKept, FinalStays, Briefly,
              Price!DirectionIsFresh
<1> QED  BY <1>1, <1>2, <1>3, <1>4, <1>5, <1>6, <1>7, <1>8 DEF Price!Next

LEMMA PriceProperties == PriceInv => Price!TypeOK /\ Price!PartialIsBrief /\ Price!DirectionIsFresh
<1> SUFFICES ASSUME PriceInv PROVE Price!TypeOK /\ Price!PartialIsBrief
  BY DEF PriceInv
<1>0. PriceTyped /\ PartialKept
  BY DEF PriceInv
<1>1. \A x \in 0 .. time : x \in 0 .. PriceHorizon
  BY <1>0, PriceParts, PriceConstants
<1>2. Price!TypeOK
  BY <1>0, <1>1 DEF Price!TypeOK, Price!Times, PriceTyped, Prices
<1>3. Price!PartialIsBrief
  <2> SUFFICES ASSUME shown.baseline = "partial", official.price = "final"
               PROVE shown.now <= official.since + PartialTTL
    BY DEF Price!PartialIsBrief
  <2> QED  BY <1>0, PriceParts, PriceConstants DEF PartialKept, Briefly, PriceInv
<1> QED  BY <1>2, <1>3

FinalUnchanged == cache.price = "final" => cache' = cache

LEMMA FinalRemains == PriceInv /\ [Price!Next]_Price!vars => FinalUnchanged
<1> SUFFICES ASSUME PriceInv, [Price!Next]_Price!vars, cache.price = "final" PROVE cache' = cache
  BY DEF FinalUnchanged
<1>1. \A t \in Tasks : task[t].at # "asked"
  BY DEF PriceInv, FinalStays
<1> QED  BY <1>1 DEF Price!Next, Price!vars, Price!upsert_observation, Price!OfficialResult, Price!TimePasses,
              Price!OfficialPrice, Price!evaluation, Price!Begins, Price!PriceCached, Price!PriceAsked,
              Price!PriceAnswered, Price!PriceFails, Price!Shows, Price!ShowsFinal

-----------------------------------------------------------------------------
(* The models together *)

Together == /\ model \in {"candles", "stream", "price"}
            /\ Kept /\ StreamInv /\ PriceInv

LEMMA TogetherNext == ASSUME InOrder PROVE Together /\ [MCNext]_all => Together'
<1> SUFFICES ASSUME Together, [MCNext]_all PROVE Together'
  OBVIOUS
<1>1. /\ model' = model /\ [Next]_vars /\ [Stream!Next]_Stream!vars /\ [Price!Next]_Price!vars
  BY DEF MCNext, all, streamVars, priceVars, Stream!vars, Price!vars
<1> QED  BY <1>1, Next_Kept, StreamNext, PriceNext DEF Together

\* The variables of each model keep their types: every row is a candle of its window, an observation
\* is handled only on an open connection, and who asks for a price holds the lock.
THEOREM TypesOK_holds == ASSUME InOrder PROVE MCSpec => []TypesOK
<1>1. MCInit => Together
  BY Init_Kept, StreamInit, PriceInit DEF MCInit, Together
<1>2. Together => TypesOK
  <2>1. Kept => TypeOK
    BY DEF Kept, RowsKept, RowKept, MemoryKept, Counted, Live, FromFeed, TypeOK
  <2> QED  BY <2>1, StreamProperties, PriceProperties DEF Together, TypesOK
<1> QED  BY <1>1, <1>2, TogetherNext, PTL DEF MCSpec

\* Nothing old passes for new: a connection whose TWAP topic is silent is given up in time
\* (stale_watchdog), an incomplete Price to Beat is shown only briefly, and a direction only for a
\* price that was fresh when its evaluation began (market_price_context in
\* services/chainlink_twap.py), for any number of evaluations.
THEOREM PriceIsFresh_holds == Stream!Spec /\ Price!Spec => []PriceIsFresh
<1>1. StreamInv /\ PriceInv => PriceIsFresh
  BY StreamProperties, PriceProperties DEF PriceIsFresh
<1> QED  BY <1>1, StreamInit, StreamNext, PriceInit, PriceNext, PTL DEF Stream!Spec, Price!Spec

\* What is good is not given up: a connection on which TWAP messages keep coming, and a complete
\* Price to Beat in the cache.
THEOREM GoodIsKept_holds == ASSUME Quick PROVE Stream!Spec /\ Price!Spec => GoodIsKept
<1>1. StreamInv /\ [Stream!Next]_Stream!vars => [Abandons]_Stream!vars
  BY LiveStays
<1>2. PriceInv /\ [Price!Next]_Price!vars => [FinalUnchanged]_Price!vars
  BY FinalRemains
<1>3. GoodIsKept <=> [][Abandons]_Stream!vars /\ [][FinalUnchanged]_Price!vars
  BY DEF GoodIsKept, Stream!LiveIsKept, Price!FinalIsKept, Abandons, FinalUnchanged
<1> QED  BY <1>1, <1>2, <1>3, StreamInit, StreamNext, PriceInit, PriceNext, PTL DEF Stream!Spec, Price!Spec
=============================================================================
