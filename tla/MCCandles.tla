------------------------------- MODULE MCCandles -------------------------------
(***************************************************************************)
(* The stored candles and what lives on them, in one run of TLC: the          *)
(* backfill task, the live window with the job alone or with a route, and     *)
(* the indicator task with a failure, with two start requests and a restart,  *)
(* or with a gap that is filled.  The choice of the endpoint that the live    *)
(* candles come from is explored with them.                                   *)
(* The models share no variable, so instead of their product the run explores *)
(* one after the other: model names the one that moves, the others keep their *)
(* first state.                                                               *)
(***************************************************************************)
EXTENDS MCCandleBackfill

CONSTANTS
  Models,        \* the models that are explored
  \* LiveWindow
  Slots, Traded, FirstOpen, Window, PageLimit, MaxPages, Bridge, Job, Routes, Asked,
  LiveFailures, LiveRestarts,
  \* IndicatorBackfill
  Candles, Stored, Batch, Warmup, Starters, Workers, MaxJobs, MaxFaults, MaxStops,
  \* StreamEndpoints
  Urls, Latencies, Adaptive, StreamFailures

VARIABLES model,
          openSlot, liveRows, missing, shownRows, socket, due, sync, covered, fails, restarts,
          candles, filled, indicator, jobs, starter, running, waiting, run, worker, faults, stops,
          ping, streams, score, probeDue, loop, heard

\* The route asks for a range of two pages.
MCAsked == {<<1, 6>>}
MCUrls  == <<"com", "vision">>

\* LiveProofs and IndicatorProofs are the modules with their theorems.
Live == INSTANCE LiveProofs WITH
  Listed <- Traded, Start <- FirstOpen, Limit <- Window, MaxFailures <- LiveFailures,
  MaxRestarts <- LiveRestarts, now <- openSlot, stored <- liveRows, unavailable <- missing,
  window <- shownRows

Indicators == INSTANCE IndicatorProofs WITH
  Slots <- Candles, Callers <- Starters, MaxTasks <- MaxJobs, MaxFailures <- MaxFaults,
  MaxRestarts <- MaxStops, stored <- candles, tasks <- jobs, caller <- starter,
  active <- running, fails <- faults, restarts <- stops

Endpoint == INSTANCE StreamEndpoints WITH MaxFailures <- StreamFailures, due <- probeDue

ASSUME ModelConstants ==
  /\ Live!ConstantsOK /\ Indicators!ConstantsOK /\ Endpoint!ConstantsOK
  /\ Models \subseteq {"backfill", "job", "route", "calm", "orphan", "starts", "fill",
                "endpoints"}

liveVars == <<openSlot, liveRows, missing, shownRows, socket, due, sync, covered, fails, restarts>>
indicatorVars == <<candles, filled, indicator, jobs, starter, running, waiting, run, worker,
                   faults, stops>>
endpointVars == <<ping, streams, score, probeDue, loop, heard>>
all == <<model, vars, liveVars, indicatorVars, endpointVars>>

MCInit ==
  /\ model \in Models /\ Init /\ Live!Init /\ Indicators!Init /\ Endpoint!Init
  /\ model = "endpoints" \/ (ping \in [Endpoint!Endpoints -> {Endpoint!None}] /\ streams = {})
  /\ missing = IF model = "route" THEN {2} ELSE {}

LiveNext ==
  \/ model = "job" /\ Live!Next /\ sync'["route"] = Live!Idle
  \/ model = "route" /\ Live!Next /\ restarts' = 0 /\ openSlot' <= 6
  \/ model = "calm" /\ Live!Next /\ fails' = 0 /\ restarts' = 0 /\ sync'["route"] = Live!Idle

\* One start request, one worker.
OneStarter == starter'["c2"] = Indicators!NoCall
OneWorker == worker'[2] = Indicators!NoWork

IndicatorNext ==
  \/ model = "orphan" /\ Indicators!Next /\ stops' = 0 /\ filled' = {} /\ OneStarter
  \/ model = "starts" /\ Indicators!Next /\ faults' = 0 /\ candles' = Stored /\ OneWorker
  \/ model = "fill" /\ Indicators!Next /\ faults' = 0 /\ 4 \notin candles' /\ OneStarter

MCNext ==
  \/ model = "backfill" /\ Next /\ UNCHANGED <<model, liveVars, indicatorVars, endpointVars>>
  \/ LiveNext /\ UNCHANGED <<model, vars, indicatorVars, endpointVars>>
  \/ IndicatorNext /\ UNCHANGED <<model, vars, liveVars, endpointVars>>
  \/ /\ model = "endpoints" /\ Endpoint!Next
     /\ UNCHANGED <<model, vars, liveVars, indicatorVars>>

MCSpec == MCInit /\ [][MCNext]_all
----
\* The invariants of LiveWindow: what is kept is sound, and without old holes; and the stream
\* is read from the endpoint that answered best.
WindowIsKept == /\ Live!TypeOK /\ Live!WindowIsKept
                /\ Endpoint!TypeOK /\ Endpoint!BestEndpoint

\* The invariants of IndicatorBackfill: values without holes, complete and warm.
IndicatorsAreKept == Indicators!TypeOK /\ Indicators!IndicatorsAreKept

\* Signals have a window without holes while nothing breaks, as LiveWindow states it.
SignalWindowComplete == Live!SignalWindowComplete
================================================================================
