------------------------------- MODULE MCPrices -------------------------------
(***************************************************************************)
(* The three models of the price feed in one run of TLC.  They share no      *)
(* variable, so the run explores one after the other: model names the one    *)
(* that moves, the others keep their first state.  In a run of the candles   *)
(* with a failing commit the process restarts at most once.                  *)
(***************************************************************************)
EXTENDS ChainlinkCandles, TLC

CONSTANTS Tasks, NoTask,
          \* TwapStream
          Stall, Period, Retry, Handling, StreamHorizon,
          \* MarketPrice
          Start, End, Tolerance, PriceStale, PartialTTL, FailedTTL, Timeout, PriceHorizon

VARIABLES model,
          clock, socket, received, handling, sent, silent,
          time, obs, official, final, binance, cache, lock, task, shown

MCIntervals == {"1m", "5m"}
MCWidth == [i \in MCIntervals |-> IF i = "1m" THEN 2 ELSE 4]

Stream == INSTANCE TwapStream WITH Horizon <- StreamHorizon
Price  == INSTANCE MarketPrice WITH Stale <- PriceStale, Horizon <- PriceHorizon, clock <- time

ASSUME ModelConstants == Stream!ConstantsOK /\ Price!ConstantsOK

streamVars == <<clock, socket, received, handling, sent, silent>>
priceVars  == <<time, obs, official, final, binance, cache, lock, task, shown>>
all        == <<model, vars, streamVars, priceVars>>

MCInit == /\ model \in {"candles", "stream", "price"}
          /\ Init /\ Stream!Init /\ Price!Init
          /\ model = "price" \/ binance

MCNext ==
  \/ /\ model = "candles" /\ Next /\ (failures' = 0 \/ restarts' <= 1)
     /\ UNCHANGED <<model, streamVars, priceVars>>
  \/ model = "stream" /\ Stream!Next /\ UNCHANGED <<model, vars, priceVars>>
  \/ model = "price" /\ Price!Next /\ UNCHANGED <<model, vars, streamVars>>

MCSpec == MCInit /\ [][MCNext]_all

TaskSymmetry == Permutations(Tasks)

----
\* Types of the three models.
TypesOK == CASE model = "stream" -> Stream!TypeOK
             [] model = "price" -> Price!TypeOK
             [] OTHER -> TypeOK

\* What is good is not given up: a live connection (TwapStream) and a complete price
\* (MarketPrice).
GoodIsKept == Stream!LiveIsKept /\ Price!FinalIsKept

\* Nothing old passes for new: a silent topic ends its connection, an incomplete price is
\* cached briefly, and a direction is shown only for a fresh price.
PriceIsFresh == Stream!SilenceEnds /\ Price!PartialIsBrief /\ Price!DirectionIsFresh
===============================================================================
