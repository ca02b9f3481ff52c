------------------------------- MODULE MCMarkets -------------------------------
(***************************************************************************)
(* The three models of the market monitor in one run of TLC.  They share no  *)
(* variable, so instead of their product the run explores one after the      *)
(* other: model names the one that moves, the others keep their first state.  *)
(* The subscription runs three times: a window moves on, several windows     *)
(* move on while no two requests overlap, and something fails.               *)
(***************************************************************************)
EXTENDS MarketSubscription, TLC

CONSTANTS Between, Fallback, Window, EmptyRetry, SignalMin, MaxRun, Grace, Suspension, Horizon,
          Prices, Sizes, Depth, MaxChanges, MaxBreaks

VARIABLES model,
          clock, job, running, last, stocked, began, ended, signal, suspended,
          book, up, channel, rest, quote, pending, loop, shown, changes, breaks

TwoIntervals == <<"5m", "4h">>
TwoLengths == [i \in {"5m", "4h"} |-> IF i = "5m" THEN 1 ELSE 2]

Schedule == INSTANCE RefreshSchedule WITH Length <- Between
Book == INSTANCE OrderBook WITH ContextFails <- TRUE

ASSUME ModelConstants == Schedule!ConstantsOK /\ Book!ConstantsOK

scheduleVars == <<clock, job, running, last, stocked, began, ended, signal, suspended>>
bookVars     == <<book, up, channel, rest, quote, pending, loop, shown, changes, breaks>>
all          == <<model, vars, scheduleVars, bookVars>>

\* Nothing fails and no browser leaves while the windows move.
Stays == fails' = 0 /\ \A c \in Clients : browser'[c].at # "lost"

\* One request for lists at a time, and a browser that stays in one interval.
OneRequest == ~overlapped' /\ \A c \in Clients : browser'[c].interval = "5m"

MCInit ==
  /\ model \in {"windows", "long", "faults", "schedule", "book"}
  /\ Init /\ Schedule!Init /\ Book!Init
  /\ model = "schedule" \/ clock = 0
  /\ model = "book" \/ book = Book!Empty

MCNext ==
  \/ model = "windows" /\ Next /\ Stays /\ epoch' <= 1 /\ UNCHANGED <<model, scheduleVars, bookVars>>
  \/ model = "long" /\ Next /\ Stays /\ OneRequest /\ UNCHANGED <<model, scheduleVars, bookVars>>
  \/ model = "faults" /\ Next /\ epoch' = 0 /\ UNCHANGED <<model, scheduleVars, bookVars>>
  \/ model = "schedule" /\ Schedule!Next /\ UNCHANGED <<model, vars, bookVars>>
  \/ model = "book" /\ Book!Next /\ UNCHANGED <<model, vars, scheduleVars>>

MCSpec == MCInit /\ [][MCNext]_all

----
\* Types of the three models.
TypesOK == CASE model = "schedule" -> Schedule!TypeOK
             [] model = "book" -> Book!TypeOK
             [] OTHER -> TypeOK

\* The properties of RefreshSchedule: no boundary and no signal is left without its refresh.
RefreshIsServed == Schedule!BoundaryIsRefreshed /\ Schedule!SignalIsServed

\* The properties of OrderBook: levels and best prices shown are those of the exchange.
BookIsReal == Book!LevelsAreReal /\ Book!BestIsReal
================================================================================
