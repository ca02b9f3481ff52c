------------------------------ MODULE MarketPrice ------------------------------
(***************************************************************************)
(* The price context of one Polymarket market (services/chainlink_twap.py): *)
(* stored TWAP observations, the cached Price to Beat, and the decision what *)
(* to show.  Time is counted in units; the market runs from Start to End.    *)
(***************************************************************************)
EXTENDS Integers, FiniteSets, FiniteSetsExt

CONSTANTS Tasks, NoTask,     \* coroutines that evaluate the context
          Start, End,
          Tolerance,         \* BASELINE_TOLERANCE
          Stale,             \* chainlink_twap_stale_seconds
          PartialTTL, FailedTTL,
          Timeout,           \* longest request for the Price to Beat
          Horizon            \* bound: the clock

ConstantsOK ==
  /\ {Start, End, Tolerance, Stale, PartialTTL, FailedTTL, Timeout, Horizon} \subseteq Nat
  /\ Start < End /\ NoTask \notin Tasks

VARIABLES clock,
          obs,         \* times of the stored TWAP observations
          official,    \* the Price to Beat at Polymarket, and since when it is final
          final,       \* the official result of the market is published
          binance,     \* the Binance minute before the start is stored
          cache,       \* _price_to_beat_cache of this market
          lock,        \* holder of _price_to_beat_lock
          task,        \* the evaluations
          shown        \* the newest context

vars == <<clock, obs, official, final, binance, cache, lock, task, shown>>
outside == <<official, final, binance>>
evaluation == <<cache, lock, task, shown>>

Times == 0 .. Horizon
Never == -1
Forever == Horizon + 1

------------------------------------------------------------------------------
\* parse_twap_message and upsert_observation: a TWAP message is stored.
upsert_observation ==
  /\ obs' = obs \cup {clock}
  /\ UNCHANGED <<clock, outside, evaluation>>

------------------------------------------------------------------------------
(* The Price to Beat *)

Idle == [at |-> "idle", now |-> 0, price |-> "none"]

Begins(t) ==
  /\ task[t].at = "idle"
  /\ task' = [task EXCEPT ![t] = [Idle EXCEPT !.at = IF clock >= End THEN "final" ELSE "cached", !.now = clock]]
  /\ UNCHANGED <<clock, obs, outside, cache, lock, shown>>

Has(t, price) == task' = [task EXCEPT ![t].at = "show", ![t].price = price]

Cached(t) == cache.expires > task[t].now

PriceCached(t) ==
  /\ task[t].at = "cached" /\ Cached(t)
  /\ Has(t, cache.price)
  /\ UNCHANGED <<clock, obs, outside, cache, lock, shown>>

\* The cache is read again once the lock is held; the first evaluation after the wait
\* finds what the other one has stored.
PriceAsked(t) ==
  /\ task[t].at = "cached" /\ ~Cached(t) /\ lock = NoTask
  /\ lock' = t
  /\ task' = [task EXCEPT ![t].at = "asked"]
  /\ UNCHANGED <<clock, obs, outside, cache, shown>>

Stores(t, price, ttl) ==
  /\ cache' = [price |-> price, expires |-> IF ttl = Forever THEN Forever ELSE task[t].now + ttl]
  /\ lock' = NoTask
  /\ Has(t, price)

\* Variant: a complete answer is asked for again like any other.
PriceAnsweredBriefly(t) ==
  /\ task[t].at = "asked" /\ official.price # "none"
  /\ Stores(t, official.price, PartialTTL)
  /\ UNCHANGED <<clock, obs, outside, shown>>

\* Only a complete answer is kept; the page shows complete prices.
PriceAnswered(t) ==
  /\ task[t].at = "asked" /\ official.price # "none"
  /\ Stores(t, official.price, IF official.price = "final" THEN Forever ELSE PartialTTL)
  /\ UNCHANGED <<clock, obs, outside, shown>>

PriceFails(t) ==
  /\ task[t].at = "asked"
  /\ Stores(t, "none", FailedTTL)
  /\ UNCHANGED <<clock, obs, outside, shown>>

------------------------------------------------------------------------------
(* The context *)

latest_observation(now) == LET seen == {o \in obs : Start <= o /\ o <= Min({now, End})} IN
                           IF seen = {} THEN Never ELSE Max(seen)

baseline_observation == \E o \in obs : Start - Tolerance <= o /\ o <= Start + Tolerance

Baseline(price) == IF price # "none" THEN price
                   ELSE IF baseline_observation THEN "chainlink"
                   ELSE IF binance THEN "binance" ELSE "none"

\* Variant: a missing baseline is found out before a stale price.
quality_swapped(now, price) ==
  LET current == latest_observation(now) IN
  IF current = Never THEN "waiting_chainlink"
  ELSE IF Baseline(price) = "binance" THEN "estimated_baseline"
  ELSE IF now - current > Stale THEN "stale"
  ELSE IF Baseline(price) = "none" THEN "unavailable" ELSE "exact"

quality(now, price) ==
  LET current == latest_observation(now) IN
  IF current = Never THEN "waiting_chainlink"
  ELSE IF now - current > Stale THEN "stale"
  ELSE IF Baseline(price) = "none" THEN "unavailable"
  ELSE IF Baseline(price) = "binance" THEN "estimated_baseline" ELSE "exact"

Context(q, baseline, current, now) ==
  [quality |-> q, baseline |-> baseline, current |-> current, now |-> now,
   directed |-> q \in {"exact", "estimated_baseline"}]

\* market_price_context before the end: the rows are read after the price came.
Shows(t) ==
  LET now == task[t].now IN
  /\ task[t].at = "show"
  /\ shown' = Context(quality(now, task[t].price), Baseline(task[t].price), latest_observation(now), now)
  /\ task' = [task EXCEPT ![t] = Idle]
  /\ UNCHANGED <<clock, obs, outside, cache, lock>>

\* After the end only the official result gives a direction.
ShowsFinal(t) ==
  /\ task[t].at = "final"
  /\ \E answered \in {FALSE, final} :
       shown' = IF answered THEN Context("exact", "final", End, task[t].now)
                ELSE Context("waiting_polymarket_final", "none", Never, task[t].now)
  /\ task' = [task EXCEPT ![t] = Idle]
  /\ UNCHANGED <<clock, obs, outside, cache, lock>>

------------------------------------------------------------------------------
(* What goes on outside, and the clock *)

OfficialPrice(price) ==
  /\ clock >= Start /\ official.price # price /\ official.price # "final"
  /\ official' = [price |-> price, since |-> clock]
  /\ UNCHANGED <<clock, obs, final, binance, evaluation>>

OfficialResult == /\ clock >= End /\ ~final /\ final' = TRUE
                  /\ UNCHANGED <<clock, obs, official, binance, evaluation>>

\* Timers fire and requests end in time.
Urgent == \/ \E t \in Tasks : task[t].at \notin {"idle", "cached", "asked"}
          \/ lock # NoTask /\ clock >= task[lock].now + Timeout

TimePasses == /\ clock < Horizon /\ ~Urgent
              /\ clock' = clock + 1
              /\ UNCHANGED <<obs, outside, evaluation>>

Init ==
  /\ clock = 0 /\ obs = {}
  /\ official = [price |-> "none", since |-> 0] /\ final = FALSE /\ binance \in BOOLEAN
  /\ cache = [price |-> "none", expires |-> Never] /\ lock = NoTask
  /\ task = [t \in Tasks |-> Idle]
  /\ shown = Context("waiting_chainlink", "none", Never, 0)

Next ==
  \/ upsert_observation \/ OfficialResult \/ TimePasses
  \/ \E price \in {"partial", "final"} : OfficialPrice(price)
  \/ \E t \in Tasks : \/ Begins(t) \/ PriceCached(t) \/ PriceAsked(t) \/ PriceAnswered(t)
                      \/ PriceFails(t) \/ Shows(t) \/ ShowsFinal(t)

Spec == Init /\ [][Next]_vars

------------------------------------------------------------------------------
Prices == {"none", "partial", "final"}

\* Types; an evaluation that asks holds the lock.
TypeOK ==
  /\ clock \in Times /\ obs \subseteq Times
  /\ {final, binance} \subseteq BOOLEAN
  /\ official \in [price : Prices, since : Times]
  /\ cache.price \in Prices
  /\ \A t \in Tasks : task[t].at = "asked" <=> lock = t

\* No direction without a price that was fresh when the evaluation began, nor after the end
\* from anything but the official result (requirements/step6.plan.md:35); observations
\* stored while it waited for the Price to Beat do not count for that moment.
DirectionIsFresh ==
  shown.directed =>
    /\ shown.baseline # "none"
    /\ IF shown.now >= End THEN final
       ELSE shown.current \in obs /\ shown.current <= shown.now
            /\ shown.now - shown.current <= Stale

\* An incomplete Price to Beat is not shown for an evaluation that begins longer than its
\* short time in the cache after the complete one was there.
PartialIsBrief ==
  shown.baseline = "partial" /\ official.price = "final" =>
    shown.now <= official.since + PartialTTL

\* A complete Price to Beat does not change back: once stored, every evaluation that begins
\* before the end shows it, also when a request that began earlier fails after it.
FinalIsKept ==
  [][cache.price = "final" => cache' = cache]_vars
================================================================================
