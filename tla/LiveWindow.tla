------------------------------- MODULE LiveWindow -------------------------------
(***************************************************************************)
(* The window of recent candles of one symbol and interval that signals are  *)
(* computed from.  Every minute a job brings the stored candles of the last  *)
(* Limit slots up to date (CandleSyncService) and replaces the window in     *)
(* memory by what is stored; the websocket of Binance merges each candle it  *)
(* pushes.  Routes that answer with candles synchronise ranges of their own. *)
(*                                                                         *)
(* Candle n opens at slot n; now is the slot that is open.  Only closed      *)
(* candles are stored.  A synchronisation that fails or is too large asks     *)
(* for a backfill (CandleBackfill): that one stores closed candles at other   *)
(* times, as a route does here with its range.                                *)
(***************************************************************************)
EXTENDS CandleRanges, Sequences

CONSTANTS
  Slots,          \* the slots considered, a range of naturals
  Listed,         \* slots whose candle the exchange has
  Start,          \* slot that is open at first
  Limit,          \* candles of the window
  PageLimit,      \* candles of one REST page
  MaxPages,       \* pages a bounded synchronisation may ask for
  Bridge,         \* distance at which gaps become one range
  Job, Routes,    \* the minute job (which also runs at start), the routes
  Asked,          \* ranges <<first, end>> the routes are asked for
  MaxFailures, MaxRestarts  \* bounds of the model

ConstantsOK ==
  /\ \A n \in {Start, Limit, PageLimit, MaxPages, Bridge} : n \in Nat \ {0}
  /\ MaxFailures \in Nat /\ MaxRestarts \in Nat
  /\ Listed \subseteq Slots /\ Slots \subseteq Nat /\ Start \in Slots
  /\ Asked \subseteq {r \in Slots \X Slots : r[1] < r[2]}
  /\ Job \notin Routes /\ IsFiniteSet(Slots) /\ \A t \in Slots : 0 .. t \subseteq Slots

Syncs == {Job} \cup Routes

VARIABLES
  now,          \* the open slot
  stored,       \* committed candles
  unavailable,  \* committed slots the exchange is known not to have
  window,       \* in memory: [closed, open] slots, open ones with partial values
  socket,       \* "off" until the first job has run, "down", "up"
  due,          \* slots whose closing message is on its way
  sync,         \* synchronisation of each process, see Idle
  covered,      \* history: last slot of the last undisturbed synchronisation of the job
  fails, restarts
vars == <<now, stored, unavailable, window, socket, due, sync, covered, fails, restarts>>

Pcs == {"idle", "locking", "reading", "fetching", "persisting", "listing", "replacing"}
Idle == [pc |-> "idle", first |-> 0, last |-> 0, gaps |-> {}, wave |-> <<>>, marked |-> {},
         rows |-> {}, whole |-> FALSE]

TypeOK ==
  /\ now \in Slots
  /\ stored \subseteq Slots /\ unavailable \subseteq Slots /\ due \subseteq Slots
  /\ window.closed \cap window.open = {}
  /\ Cardinality(window.closed \cup window.open) <= Limit
  /\ socket \in {"off", "down", "up"}
  /\ \A p \in Syncs : /\ sync[p].pc \in Pcs
                      /\ sync[p].gaps \subseteq sync[p].first .. sync[p].last
                      /\ sync[p].marked \cup sync[p].rows \subseteq Slots
  /\ covered \in Slots \cup {-1}
  /\ fails \in 0 .. MaxFailures /\ restarts \in 0 .. MaxRestarts

\* The n latest members of S.
Latest(n, S) == {t \in S : Cardinality({u \in S : u >= t}) <= n}
----
\* Start and end of a synchronisation: a range given in milliseconds ends with
\* the last candle closed before its end, and the last closed candle at most.
normalize_sync_range(first, end) ==
  [first |-> Larger(0, first), last |-> Smaller(end - 1, now - 1)]

\* The end handed on is already the last closed candle.
latest_window(limit) == normalize_sync_range(Larger(0, now - 1 - (limit - 1)), now - 1)

\* What process p does after its synchronisation: the job lists the candles, a
\* route answers with them, which changes nothing.
Synced(p, marked, whole) ==
  IF p = Job THEN [Idle EXCEPT !.pc = "listing", !.last = sync[p].last, !.marked = marked,
                               !.whole = whole]
  ELSE Idle

\* A synchronisation of range begins: nothing to do, too large, or on to the lock.
ensure_range(p, range) ==
  /\ sync[p].pc = "idle"
  /\ LET size == range.last - range.first + 1
         large == size > MaxPages * PageLimit
     IN sync' = [sync EXCEPT ![p] =
          IF size <= 0 \/ large THEN Synced(p, {}, FALSE)
          ELSE [Idle EXCEPT !.pc = "locking", !.first = range.first, !.last = range.last]]
  /\ UNCHANGED <<now, stored, unavailable, window, socket, due, covered, fails, restarts>>

\* Variant: the window is only brought up to date when the process starts.
JobBegins_once == socket = "off" /\ ensure_range(Job, latest_window(Limit))

JobBegins == ensure_range(Job, latest_window(Limit))

\* A route asks for the latest window, at least as long as that of the signals,
\* or for a range.  It is served only once the first job of the process has run.
RouteBegins(p) ==
  /\ socket # "off"
  /\ \/ \E extra \in 0 .. 1 : ensure_range(p, latest_window(Limit + extra))
     \/ \E range \in Asked : ensure_range(p, normalize_sync_range(range[1], range[2]))

Held(q) == sync[q].pc \in {"reading", "fetching", "persisting"}

\* The lock of the range is taken and the stored candles are read.
missing_ranges_for_window(p) ==
  /\ sync[p].pc = "locking"
  /\ \A q \in Syncs \ {p} :
       Held(q) => <<sync[q].first, sync[q].last>> # <<sync[p].first, sync[p].last>>
  /\ LET gaps == (sync[p].first .. sync[p].last) \ stored
     IN sync' = [sync EXCEPT ![p] =
          IF gaps = {} THEN Synced(p, {}, TRUE)
          ELSE [@ EXCEPT !.pc = "reading", !.gaps = merge_missing_range_windows(Bridge)[gaps]]]
  /\ UNCHANGED <<now, stored, unavailable, window, socket, due, covered, fails, restarts>>

\* What is known not to exist is not asked for.
subtract_unavailable_ranges(p) ==
  /\ sync[p].pc = "reading"
  /\ LET gaps == sync[p].gaps \ unavailable
     IN sync' = [sync EXCEPT ![p] =
          IF gaps = {} THEN Synced(p, {}, TRUE) ELSE [@ EXCEPT !.pc = "fetching", !.gaps = gaps]]
  /\ UNCHANGED <<now, stored, unavailable, window, socket, due, covered, fails, restarts>>

\* The last range that is missing.
Target(p) == CHOOSE r \in Ranges[sync[p].gaps] : r[2] = MaxOf(sync[p].gaps)

\* First slots of the pages of a range, which are asked for at once.
wave_page_starts(range) ==
  [i \in 1 .. ((range[2] - range[1]) \div PageLimit) + 1 |-> range[1] + (i - 1) * PageLimit]

\* What Binance answers for a page: the first candles from start to last.
klines_page(start, last) ==
  LET listed == Listed \cap (start .. last)
  IN {t \in listed : Cardinality({u \in listed : u <= t}) <= PageLimit}

\* Variant: an error counts as an answer without candles.
fetch_page_empty(start, last, failed) ==
  [start |-> start, rows |-> IF failed THEN {} ELSE klines_page(start, last), failed |-> FALSE]

\* The outcome of one request.
fetch_page(start, last, failed) ==
  [start |-> start, rows |-> klines_page(start, last), failed |-> failed]

\* Every page of the wave answers, with its first candles or with an error.
fetch_wave(p) ==
  /\ sync[p].pc = "fetching"
  /\ LET starts == wave_page_starts(Target(p))
     IN \E failed \in {{}} \cup {{i} : i \in DOMAIN starts} :
          /\ fails + Cardinality(failed) <= MaxFailures
          /\ fails' = fails + Cardinality(failed)
          /\ sync' = [sync EXCEPT
               ![p].pc = "persisting",
               ![p].wave = [i \in DOMAIN starts |-> fetch_page(starts[i], Target(p)[2], i \in failed)]]
  /\ UNCHANGED <<now, stored, unavailable, window, socket, due, covered, restarts>>

\* The range is done; the next earlier one follows.  marked is in the session.
RangeDone(p, marked) ==
  LET rest == sync[p].gaps \ (Target(p)[1] .. Target(p)[2])
  IN IF rest = {} THEN Synced(p, marked, TRUE)
     ELSE [sync[p] EXCEPT !.pc = "fetching", !.gaps = rest, !.wave = <<>>, !.marked = marked]

\* One page of the wave in order: a failed one ends the synchronisation, an
\* empty one marks the rest of the range in the session without a commit, a
\* full one is committed, with what the session has marked before.
persist_wave(p) ==
  LET page == sync[p].wave[1]
      rest == Tail(sync[p].wave)
      Becomes(s) == sync' = [sync EXCEPT ![p] = s]
  IN /\ sync[p].pc = "persisting"
     /\ \/ /\ page.failed
           /\ Becomes(Synced(p, {}, FALSE))
           /\ UNCHANGED <<stored, unavailable>>
        \/ /\ ~page.failed /\ page.rows = {}
           /\ Becomes(RangeDone(p, sync[p].marked \cup (page.start .. Target(p)[2])))
           /\ UNCHANGED <<stored, unavailable>>
        \/ /\ ~page.failed /\ page.rows # {}
           /\ stored' = stored \cup page.rows
           /\ unavailable' = unavailable \cup sync[p].marked
           /\ Becomes(IF Cardinality(page.rows) < PageLimit \/ rest = <<>> THEN RangeDone(p, {})
                      ELSE [sync[p] EXCEPT !.wave = rest, !.marked = {}])
     /\ UNCHANGED <<now, window, socket, due, covered, fails, restarts>>

\* The database fails while the lock is held.
SyncFails(p) ==
  /\ sync[p].pc \in {"locking", "reading", "persisting"}
  /\ fails < MaxFailures /\ fails' = fails + 1
  /\ sync' = [sync EXCEPT ![p] = Synced(p, {}, FALSE)]
  /\ UNCHANGED <<now, stored, unavailable, window, socket, due, covered, restarts>>

\* The candles are listed, then the session closes and forgets what it marked.
list_candles ==
  /\ sync[Job].pc = "listing"
  /\ sync' = [sync EXCEPT ![Job] = [@ EXCEPT !.pc = "replacing", !.marked = {},
                                             !.rows = Latest(Limit, stored)]]
  /\ UNCHANGED <<now, stored, unavailable, window, socket, due, covered, fails, restarts>>

Listening == IF socket = "off" THEN "down" ELSE socket

\* The window becomes what was listed; after the first run the websocket starts.
replace_live_candles ==
  /\ sync[Job].pc = "replacing"
  /\ window' = [closed |-> sync[Job].rows, open |-> {}]
  /\ covered' = IF sync[Job].whole THEN Larger(covered, sync[Job].last) ELSE covered
  /\ sync' = [sync EXCEPT ![Job] = Idle]
  /\ socket' = Listening
  /\ UNCHANGED <<now, stored, unavailable, due, fails, restarts>>

\* The backfill cannot be asked for, or the list fails: the run of the job ends
\* with the error, and the window stays.
JobRaises ==
  /\ sync[Job].pc = "listing"
  /\ fails < MaxFailures /\ fails' = fails + 1
  /\ sync' = [sync EXCEPT ![Job] = Idle]
  /\ socket' = Listening
  /\ UNCHANGED <<now, stored, unavailable, window, due, covered, restarts>>
----
ws_once ==
  /\ socket = "down" /\ socket' = "up"
  /\ UNCHANGED <<now, stored, unavailable, window, due, sync, covered, fails, restarts>>

\* The connection breaks: what was on its way is lost.
SocketBreaks ==
  /\ socket = "up" /\ fails < MaxFailures /\ fails' = fails + 1
  /\ socket' = "down" /\ due' = {}
  /\ UNCHANGED <<now, stored, unavailable, window, sync, covered, restarts>>

\* The window with candle n of the given kind, cut at Limit.
_merge_live_candle(kind, n) ==
  LET closed == IF kind = "closed" THEN window.closed \cup {n} ELSE window.closed \ {n}
      open   == IF kind = "open" THEN window.open \cup {n} ELSE window.open \ {n}
      kept   == Latest(Limit, closed \cup open)
  IN [closed |-> closed \cap kept, open |-> open \cap kept]

\* The closing message of candle n is handled: its signals are computed from
\* the window with it.
Closes(n) ==
  /\ socket = "up" /\ due # {} /\ n = MinOf(due)
  /\ due' = due \ {n}
  /\ window' = _merge_live_candle("closed", n)
  /\ UNCHANGED <<now, stored, unavailable, socket, sync, covered, fails, restarts>>

\* A message with a candle that was open when it was sent.  It comes before the closing message
\* of its candle: behind a slow handler it may come when the candle has closed, or after a refresh
\* has brought the closed one.
Updates ==
  /\ socket = "up"
  /\ LET n == IF due = {} THEN now ELSE MinOf(due)
     IN n \in Listed /\ window' = _merge_live_candle("open", n)
  /\ UNCHANGED <<now, stored, unavailable, socket, due, sync, covered, fails, restarts>>

\* The open candle closes and the next one opens.
Tick ==
  /\ now + 1 \in Slots /\ now' = now + 1
  /\ due' = IF socket = "up" THEN due \cup ({now} \cap Listed) ELSE due
  /\ UNCHANGED <<stored, unavailable, window, socket, sync, covered, fails, restarts>>

\* The process stops and starts: the first thing it does is a run of the job.
Crash ==
  /\ restarts < MaxRestarts /\ restarts' = restarts + 1
  /\ window' = [closed |-> {}, open |-> {}]
  /\ socket' = "off" /\ due' = {} /\ covered' = -1
  /\ sync' = [p \in Syncs |-> Idle]
  /\ UNCHANGED <<now, stored, unavailable, fails>>

Init ==
  /\ now = Start
  /\ stored = {} /\ unavailable \in SUBSET (Slots \ Listed)
  /\ window = [closed |-> {}, open |-> {}]
  /\ socket = "off" /\ due = {}
  /\ sync = [p \in Syncs |-> Idle]
  /\ covered = -1
  /\ fails = 0 /\ restarts = 0

SyncSteps(p) ==
  missing_ranges_for_window(p) \/ subtract_unavailable_ranges(p) \/ fetch_wave(p) \/ persist_wave(p)

Next ==
  \/ JobBegins \/ list_candles \/ replace_live_candles \/ JobRaises
  \/ \E p \in Routes : RouteBegins(p)
  \/ \E p \in Syncs : SyncSteps(p) \/ SyncFails(p)
  \/ ws_once \/ SocketBreaks \/ Updates \/ Tick \/ Crash
  \/ \E n \in Slots : Closes(n)

\* The job is run again and again, requests to the database and to Binance
\* are answered, the loop of the websocket connects and reads.
Fairness ==
  /\ WF_vars(JobBegins) /\ WF_vars(list_candles) /\ WF_vars(replace_live_candles)
  /\ \A p \in Syncs : WF_vars(SyncSteps(p))
  /\ WF_vars(ws_once)

Spec == Init /\ [][Next]_vars
LiveSpec == Spec /\ Fairness
----
(***************************************************************************)
(* Properties                                                               *)
(***************************************************************************)

\* A slot is called unavailable, in the database or in a session that may still
\* commit it, only when the exchange has no candle there.
UnavailableSound ==
  Listed \cap (unavailable \cup UNION {sync[p].marked : p \in Syncs}) = {}

\* Whatever breaks meanwhile, the window has every candle of the last Limit
\* slots up to where the last undisturbed run of the job has asked: refreshes,
\* messages, failed runs and routes leave holes only after it.  A late message
\* may have put an open candle in the place of the closed one.
WindowGapIsRecent ==
  socket # "off" =>
    Listed \cap (now - Limit + 1 .. covered) \subseteq window.closed \cup window.open

\* What is called unavailable is, and the window has no early hole.
WindowIsKept == UnavailableSound /\ WindowGapIsRecent

\* Signals are computed from a window without holes, as long as nothing breaks
\* (binance_monitor.py:44, market_signal_pipeline.py:66).
SignalWindowComplete ==
  [][\A n \in Slots : Closes(n) => Listed \cap (n - Limit + 1 .. n) \subseteq window'.closed]_vars

\* Once the clock rests, the window has all candles of the last Limit slots up
\* to the one before the last closed candle, again and again.
WindowCatchesUp ==
  []<>(Listed \cap (now - Limit + 1 .. now - 2) \subseteq window.closed)
=================================================================================
