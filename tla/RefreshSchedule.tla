---------------------------- MODULE RefreshSchedule ----------------------------
(***************************************************************************)
(* When the Polymarket markets are refreshed (app/cron/scheduler.py).  One   *)
(* job, scheduled again at the end of every run for a time around the next   *)
(* boundary of a market, and moved forward by websocket signals.  The        *)
(* scheduler runs one instance at a time and forgets a run it may not start. *)
(***************************************************************************)
EXTENDS Integers, FiniteSets, FiniteSetsExt

CONSTANTS Length,                  \* between boundaries of the markets
          Fallback, Window,        \* market_refresh_seconds, market_boundary_refresh_window_seconds
          EmptyRetry, SignalMin,   \* market_empty_retry_seconds, market_signal_refresh_min_seconds
          MaxRun,                  \* longest refresh
          Grace,                   \* misfire_grace_time
          Suspension,              \* time the process may stand still, once; 0: never
          Horizon                  \* bound: the clock

ConstantsOK ==
  /\ {Length, Fallback, Window, EmptyRetry, SignalMin, MaxRun, Grace, Suspension, Horizon} \subseteq Nat
  /\ Length > 0 /\ Length <= Horizon

VARIABLES clock,
          job,        \* time of the scheduled run
          running,    \* since when the refresh runs
          last,       \* _last_market_refresh_at
          stocked,    \* the store has markets
          began, ended,   \* when the last refresh began, and when one last ended
          signal,     \* first signal since then, or since the process stood still
          suspended

vars == <<clock, job, running, last, stocked, began, ended, signal, suspended>>

Times == 0 .. Horizon
Never == -1

Boundary(n)   == (n \div Length) * Length
next_boundary == Boundary(clock) + Length

\* Variant: only an empty store is given up waiting for the boundary.
calculate_next_refresh_delay_unbounded(markets) ==
  LET s == next_boundary - clock IN
  IF ~markets THEN Max({1, EmptyRetry}) ELSE Max({1, IF s <= Window THEN s + Window ELSE s - Window})

\* Before the window around the next boundary, or after it.
calculate_next_refresh_delay(markets) ==
  LET s == next_boundary - clock IN
  IF ~markets THEN Max({1, EmptyRetry})
  ELSE Min({Max({1, Fallback}), Max({1, IF s <= Window THEN s + Window ELSE s - Window})})

calculate_signal_refresh_delay == IF last = Never THEN 0 ELSE Max({0, SignalMin - (clock - last)})

------------------------------------------------------------------------------
\* A run that is due begins, unless one is going on: then it is forgotten.
Due ==
  /\ job # Never /\ job <= clock
  /\ job' = Never
  /\ IF running = Never THEN running' = clock /\ began' = clock /\ signal' = Never
     ELSE UNCHANGED <<running, began, signal>>
  /\ UNCHANGED <<clock, last, stocked, ended, suspended>>

\* Variant: only a run that ended well is followed by another.
EndsUnfinally(ok) ==
  /\ running # Never /\ running' = Never /\ ended' = clock
  /\ last' = IF ok THEN clock ELSE last
  /\ stocked' = (stocked \/ ok)
  /\ job' = IF ok THEN clock + calculate_next_refresh_delay(stocked') ELSE job
  /\ UNCHANGED <<clock, began, signal, suspended>>

\* _run_polymarket_market_refresh_and_reschedule: the next run replaces one that a signal
\* scheduled meanwhile.
Ends(ok) ==
  /\ running # Never /\ running' = Never /\ ended' = clock
  /\ last' = IF ok THEN clock ELSE last
  /\ stocked' = (stocked \/ ok)
  /\ job' = clock + calculate_next_refresh_delay(stocked')
  /\ UNCHANGED <<clock, began, signal, suspended>>

\* schedule_polymarket_market_signal_refresh
Signals ==
  /\ job' = clock + (IF job = Never THEN calculate_signal_refresh_delay
                     ELSE Min({calculate_signal_refresh_delay, Max({0, job - clock})}))
  /\ signal' = IF signal = Never THEN clock ELSE signal
  /\ UNCHANGED <<clock, running, last, stocked, began, ended, suspended>>

\* The process stands still; the scheduler then drops a run that is too late.
Suspends ==
  /\ ~suspended /\ Suspension > 0 /\ clock + Suspension <= Horizon
  /\ suspended' = TRUE /\ clock' = clock + Suspension
  /\ job' = IF job # Never /\ clock' - job > Grace THEN Never ELSE job
  /\ signal' = Never
  /\ UNCHANGED <<running, last, stocked, began, ended>>

Urgent == \/ job # Never /\ job <= clock
          \/ running # Never /\ clock >= running + MaxRun

TimePasses == /\ clock < Horizon /\ ~Urgent /\ clock' = clock + 1
              /\ UNCHANGED <<job, running, last, stocked, began, ended, signal, suspended>>

Init == /\ clock \in 0 .. Length - 1 /\ job = clock /\ running = Never /\ last = Never
        /\ stocked = FALSE /\ began = clock /\ ended = Never /\ signal = Never /\ suspended = FALSE

Next == Due \/ Signals \/ Suspends \/ TimePasses \/ \E ok \in BOOLEAN : Ends(ok)

Spec == Init /\ [][Next]_vars

------------------------------------------------------------------------------
\* Types; unless the process stood still, a run is always scheduled or going on.
TypeOK ==
  /\ clock \in Times /\ {running, last, began, ended, signal} \subseteq Times \cup {Never}
  /\ {stocked, suspended} \subseteq BOOLEAN
  /\ job = Never /\ running = Never => suspended

Pause == Max({Fallback, EmptyRetry, 2 * Window, 1})

\* After every boundary a refresh begins within the longest pause, however the runs before
\* it lay, failed or were asked for; a run that is under way at the boundary adds its rest.
BoundaryIsRefreshed ==
  LET b == Boundary(clock) IN
  ~suspended /\ clock > b + Pause + MaxRun => began >= b

\* A signal is answered by a refresh that begins in time, also one that comes during a run
\* whose end replaces what it scheduled, and one that comes after the job was lost.
SignalIsServed ==
  signal # Never => clock <= signal + MaxRun + Max({Pause, SignalMin})

\* Signals do not make a refresh follow another one at once, whatever became of it
\* (config/app.default.yaml:62).
SignalsKeepDistance ==
  [][Due /\ running' # running /\ ended # Never => clock > ended]_vars

\* A refresh begins soon after every boundary (config/app.default.yaml:58).
BoundaryIsTimely ==
  LET b == Boundary(clock) IN clock > b + 2 * Window + MaxRun => began >= b

\* Discovery falls back on its interval whatever happened (config/app.default.yaml:56).
FallbackHolds ==
  clock <= began + MaxRun + Pause + Suspension
================================================================================
