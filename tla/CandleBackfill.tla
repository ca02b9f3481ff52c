---------------------------- MODULE CandleBackfill ----------------------------
(***************************************************************************)
(* The candle backfill task of services/candle_backfill.py.                *)
(*                                                                         *)
(* A start request creates a task, or resumes the last one that did not    *)
(* finish: it compares the candles table with the range each interval      *)
(* should cover and writes one step per gap.  A background coroutine then   *)
(* works through the steps, downloading waves of REST pages or of archive  *)
(* files, storing candles and moving the cursor of the step.  The tables    *)
(* survive a crash of the process; locks, the active task and everything    *)
(* the coroutine holds do not.                                             *)
(*                                                                         *)
(* Slots number the open times of an interval (see CandleRanges).  Base     *)
(* time counts in the finest unit; slot n of interval i opens at base time  *)
(* n * Width[i].                                                           *)
(***************************************************************************)
EXTENDS CandleRanges, Sequences

CONSTANTS
  Intervals,        \* the configured candle intervals
  Width,            \* width of an interval in base time
  Rank,             \* position of an interval in INTERVAL_EXECUTION_ORDER
  Listed,           \* slots the exchange has a kline for, per interval
  FileRows,         \* slots with a usable row in the exchange's archive files
  HistoryStart,     \* BINANCE_SPOT_HISTORY_START_MS
  HistoryLimit,     \* settings.candle_history_limit
  Limit,            \* BINANCE_KLINE_LIMIT
  WavePages,        \* KLINE_BACKFILL_CONCURRENCY
  ArchiveEnabled,   \* settings.binance_archive_enabled
  ArchiveWave,      \* ARCHIVE_BACKFILL_CONCURRENCY
  ArchiveBatch,     \* ARCHIVE_PARSE_BATCH_SIZE
  MonthSlots,       \* slots of a monthly archive file, per interval
  DaySlots,         \* slots of a daily archive file, 0 when there is none
  Callers,          \* concurrent start requests
  LiveIntervals,    \* intervals whose closed candles the live feed also stores
  StartTime,        \* base time of the initial state
  Horizon,          \* bound: last base time
  MaxTasks,         \* bound: tasks created
  MaxFailures,      \* bound: failed requests and failed database calls
  MaxCrashes        \* bound: crashes of the process

ASSUME IntervalAssumption ==
  /\ Width \in [Intervals -> Nat \ {0}]
  /\ Rank \in [Intervals -> Nat]
  /\ Listed \in [Intervals -> SUBSET Nat]
  /\ FileRows \in [Intervals -> SUBSET Nat]
  /\ MonthSlots \in [Intervals -> Nat \ {0}]
  /\ DaySlots \in [Intervals -> Nat]
  /\ LiveIntervals \subseteq Intervals

ASSUME SizeAssumption ==
  /\ HistoryStart \in Nat
  /\ HistoryLimit \in Nat \ {0}
  /\ Limit \in Nat \ {0}
  /\ WavePages \in Nat \ {0}
  /\ ArchiveWave \in Nat \ {0}
  /\ ArchiveBatch \in Nat \ {0}
  /\ ArchiveEnabled \in BOOLEAN

ASSUME BoundAssumption ==
  /\ StartTime \in Nat
  /\ Horizon \in Nat
  /\ MaxTasks \in Nat
  /\ MaxFailures \in Nat
  /\ MaxCrashes \in Nat

VARIABLES
  \* the database
  stored,       \* candles: slots with a row, per interval
  unavailable,  \* candle_unavailable_ranges of source binance_rest, per interval
  task,         \* newest system_tasks row of this type
  steps,        \* its system_task_steps rows, by step_key
  \* the process
  caller,       \* progress of each start_all call
  active,       \* _active_task_id is set
  runs,         \* _run coroutines that have not taken _lock yet
  pc,           \* where the coroutine that holds _lock is; "idle": _lock is free
  cur,          \* key of the step it works on
  mem,          \* the step object it holds while it persists a wave
  page,         \* start of the next page of the wave
  left,         \* pages of the wave after that one
  periods,      \* archive periods being downloaded
  \* the environment
  now,          \* base time
  tasks,        \* tasks created so far
  failures,
  crashes

database == <<stored, unavailable, task, steps>>
runner == <<pc, cur, mem, page, left, periods>>
bounds == <<tasks, failures, crashes>>
vars == <<stored, unavailable, task, steps, caller, active, runs, pc, cur, mem,
          page, left, periods, now, tasks, failures, crashes>>

Keys == Intervals \X Int
StepStatus == {"pending", "running", "completed", "error"}
Step == [end : Int, cursor : Int, status : StepStatus, touched : BOOLEAN]
NoStep == [end |-> 0, cursor |-> 0, status |-> "pending", touched |-> FALSE]
NoKey == <<>>
Period == [start : Int, end : Int, pos : Int, left : Int, next : Int,
           got : BOOLEAN, phase : {"file", "rest", "done", "failed"}]

-----------------------------------------------------------------------------
(***************************************************************************)
(* Planning                                                                *)
(***************************************************************************)

latest_closed_open(i, time) == time \div Width[i] - 1

\* From the earliest candle of any interval, or from the start of the history
\* when there is none.
history_coverage_start(i) ==
  LET opens == UNION {{t * Width[j] : t \in stored[j]} : j \in Intervals}
      earliest == IF opens = {} THEN HistoryStart ELSE MinOf(opens)
  IN  earliest \div Width[i]

\* Mutant of initial_ranges: only the recent window is planned.
RecentRangeOnly(start, end) == {<<Larger(start, end - (HistoryLimit - 1)), end>>}

\* An empty interval is split into its recent window and what is older.
initial_ranges(start, end) ==
  LET recent == Larger(start, end - (HistoryLimit - 1))
  IN  {<<recent, end>>} \cup
      {<<start, e>> : e \in {x \in {recent - 1} : start <= x}}

\* Slots missing before the first candle, between candles, after the latest.
interval_gaps(i, start, end) ==
  LET first  == MinOf(stored[i])
      latest == MaxOf(stored[i])
      window == Larger(start, first) .. Smaller(end, latest)
  IN  (IF first - start > 1 THEN start .. first - 1 ELSE {})
      \cup list_candle_missing_ranges(stored[i] \cap window)
      \cup (latest + 1 .. end)

plan_interval_missing_ranges(i, end) ==
  LET start == history_coverage_start(i)
  IN  IF stored[i] = {}
        THEN initial_ranges(start, end)
        ELSE Ranges[merge_missing_range_windows(WavePages * Limit)
                      [interval_gaps(i, start, end)] \ unavailable[i]]

\* The planned steps: <<key, end>> for every range of every interval.
plan_candle_missing_ranges(time) ==
  UNION {{<<<<i, r[1]>>, r[2]>> :
            r \in plan_interval_missing_ranges(i, latest_closed_open(i, time))}
         : i \in Intervals}

NewStep(key, end) ==
  [end |-> end, cursor |-> key[2], status |-> "pending", touched |-> FALSE]

\* The steps kept, plus a new step for every planned range whose key is free.
WithPlan(kept, plan) ==
  LET keys == {p[1] : p \in plan}
  IN  [k \in DOMAIN kept \cup keys |->
         IF k \in DOMAIN kept THEN kept[k]
         ELSE NewStep(k, CHOOSE e \in {p[2] : p \in plan} : <<k, e>> \in plan)]

\* Where the plan of an interval begins: a gap of exactly one candle before the first
\* stored one is not planned.
plan_start(i) ==
  LET start == history_coverage_start(i)
  IN  IF stored[i] # {} /\ MinOf(stored[i]) - start = 1 THEN start + 1 ELSE start

create_task ==
  /\ task' = [status |-> "running", target |-> now, resumed |-> FALSE,
              from |-> [i \in Intervals |-> plan_start(i)]]
  /\ steps' = WithPlan(<<>>, plan_candle_missing_ranges(now))
  /\ tasks' = tasks + 1

\* Mutant of Untouched: the counters of the step are not looked at.
NotRunning(k) == steps[k].status = "pending"

Untouched(k) == steps[k].status = "pending" /\ ~steps[k].touched

\* The last end of the steps, or now when there is none.
ResumeTime ==
  LET ends == {steps[k].end * Width[k[1]] : k \in DOMAIN steps}
  IN  IF ends = {} THEN {now} ELSE {t \in ends : \A u \in ends : u <= t}

\* The range is planned again up to the last end; steps that never started are
\* dropped before.
resume_task ==
  LET kept == [k \in {l \in DOMAIN steps : ~Untouched(l)} |->
                 IF steps[k].status = "error"
                   THEN [steps[k] EXCEPT !.status = "pending"] ELSE steps[k]]
  IN  /\ task' = [task EXCEPT !.status = "running", !.resumed = TRUE]
      /\ \E time \in ResumeTime :
           steps' = WithPlan(kept, plan_candle_missing_ranges(time))
      /\ UNCHANGED tasks

-----------------------------------------------------------------------------
(***************************************************************************)
(* Start requests                                                          *)
(***************************************************************************)

resumable == task.status \in {"running", "error"}

\* Mutant of Busy: the active task is not looked at.
OnlyLocked == pc # "idle"

Busy == pc # "idle" \/ active

\* Bound: a request that would create one task too many is not made.
WithinBound == resumable \/ tasks < MaxTasks

\* The check before the start lock; a request that finds a task active returns.
StartCheck(c) ==
  /\ caller[c] = "idle"
  /\ ~Busy
  /\ WithinBound
  /\ caller' = [caller EXCEPT ![c] = "waiting"]
  /\ UNCHANGED <<database, active, runs, runner, now, bounds>>

\* Mutants of StartLocked: the check is not repeated; the lock is only taken when
\* nobody else asks for it.
StartUnchecked(c) ==
  /\ caller[c] = "waiting"
  /\ \A d \in Callers : caller[d] \notin {"planning", "planned"}
  /\ caller' = [caller EXCEPT ![c] = "planning"]
  /\ UNCHANGED <<database, active, runs, runner, now, bounds>>

StartAlone(c) ==
  /\ caller[c] = "waiting"
  /\ \A d \in Callers \ {c} : caller[d] = "idle"
  /\ caller' = [caller EXCEPT ![c] = IF Busy \/ ~WithinBound THEN "idle" ELSE "planning"]
  /\ UNCHANGED <<database, active, runs, runner, now, bounds>>

\* The start lock is free when no request is past it; the check is repeated.
StartLocked(c) ==
  /\ caller[c] = "waiting"
  /\ \A d \in Callers : caller[d] \notin {"planning", "planned"}
  /\ caller' = [caller EXCEPT ![c] = IF Busy \/ ~WithinBound THEN "idle" ELSE "planning"]
  /\ UNCHANGED <<database, active, runs, runner, now, bounds>>

StartPlan(c) ==
  /\ caller[c] = "planning"
  /\ \/ resumable /\ resume_task
     \/ ~resumable /\ tasks < MaxTasks /\ create_task
  /\ caller' = [caller EXCEPT ![c] = "planned"]
  /\ UNCHANGED <<stored, unavailable, active, runs, runner, now, failures, crashes>>

\* The database fails before or after the plan is committed.
StartFails(c) ==
  /\ caller[c] \in {"planning", "planned"}
  /\ failures < MaxFailures
  /\ failures' = failures + 1
  /\ caller' = [caller EXCEPT ![c] = "idle"]
  /\ UNCHANGED <<database, active, runs, runner, now, tasks, crashes>>

StartSpawn(c) ==
  /\ caller[c] = "planned"
  /\ caller' = [caller EXCEPT ![c] = "idle"]
  /\ active' = TRUE
  /\ runs' = runs + 1
  /\ UNCHANGED <<database, runner, now, bounds>>

start_all(c) ==
  \/ StartCheck(c) \/ StartLocked(c) \/ StartPlan(c) \/ StartFails(c)
  \/ StartSpawn(c)

-----------------------------------------------------------------------------
(***************************************************************************)
(* The background coroutine: the steps of a task in execution order        *)
(***************************************************************************)

\* The coroutine holds nothing between waves.
Released(next) ==
  /\ pc' = next
  /\ mem' = NoStep
  /\ page' = 0
  /\ left' = 0
  /\ periods' = <<>>

\* Mutant of RunBegin: the coroutine runs without having been spawned.
RunUnspawned ==
  /\ pc = "idle"
  /\ runs' = runs - 1
  /\ Released("pick")
  /\ cur' = NoKey
  /\ UNCHANGED <<database, caller, active, now, bounds>>

RunBegin ==
  /\ runs > 0
  /\ pc = "idle"
  /\ runs' = runs - 1
  /\ Released("pick")
  /\ cur' = NoKey
  /\ UNCHANGED <<database, caller, active, now, bounds>>

\* Light intervals first, and within an interval the most recent gap first.
Precedes(k, l) ==
  \/ Rank[k[1]] < Rank[l[1]]
  \/ /\ Rank[k[1]] = Rank[l[1]]
     /\ \/ steps[k].end > steps[l].end
        \/ steps[k].end = steps[l].end /\ k[2] > l[2]

OpenSteps == {k \in DOMAIN steps : steps[k].status # "completed"}

PickStep ==
  /\ pc = "pick"
  /\ \E k \in OpenSteps :
       /\ \A l \in OpenSteps \ {k} : ~Precedes(l, k)
       /\ cur' = k
       /\ steps' = [steps EXCEPT ![k].status = "running"]
  /\ Released("loop")
  /\ UNCHANGED <<stored, unavailable, task, caller, active, runs, now, bounds>>

RunCompletes ==
  /\ pc = "pick"
  /\ OpenSteps = {}
  /\ task' = [task EXCEPT !.status = "completed"]
  /\ Released("finish")
  /\ cur' = NoKey
  /\ UNCHANGED <<stored, unavailable, steps, caller, active, runs, now, bounds>>

\* After the commit an event is still recorded; then the task is released.
RunEnds ==
  /\ pc = "finish"
  /\ active' = FALSE
  /\ Released("idle")
  /\ cur' = NoKey
  /\ UNCHANGED <<database, caller, runs, now, bounds>>

\* The exception handler stores the error unless the database fails it too.
RunRaises ==
  /\ pc = "raise"
  /\ \/ task' = [task EXCEPT !.status = "error"] /\ UNCHANGED failures
     \/ failures < MaxFailures /\ failures' = failures + 1 /\ UNCHANGED task
  /\ active' = FALSE
  /\ Released("idle")
  /\ cur' = NoKey
  /\ UNCHANGED <<stored, unavailable, steps, caller, runs, now, tasks, crashes>>

\* A database call of the coroutine fails: what it had not committed is lost.
DatabaseFails ==
  /\ pc \in {"pick", "loop", "page", "commit", "archive", "finish"}
  /\ pc = "archive" => \A n \in DOMAIN periods : periods[n].phase \in {"done", "failed"}
  /\ failures < MaxFailures
  /\ failures' = failures + 1
  /\ Released("raise")
  /\ UNCHANGED <<database, caller, active, runs, cur, now, tasks, crashes>>

\* The cursor has passed the end of the gap.
StepDone ==
  /\ pc = "loop"
  /\ steps[cur].cursor > steps[cur].end
  /\ steps' = [steps EXCEPT ![cur].status = "completed"]
  /\ Released("pick")
  /\ cur' = NoKey
  /\ UNCHANGED <<stored, unavailable, task, caller, active, runs, now, bounds>>

-----------------------------------------------------------------------------
(***************************************************************************)
(* A wave of REST pages, stored in the order of their starts               *)
(***************************************************************************)

ListedIn(i, start, end) == Listed[i] \cap (start .. end)

WaveBegins ==
  /\ mem' = steps[cur]
  /\ page' = steps[cur].cursor
  /\ left' = WavePages - 1
  /\ pc' = "page"
  /\ UNCHANGED <<periods, steps>>

\* Mutant of PageFails: the failed page is skipped.
PageSkipped ==
  /\ pc = "page"
  /\ failures < MaxFailures
  /\ failures' = failures + 1
  /\ steps' = [steps EXCEPT ![cur] =
                 [mem EXCEPT !.cursor = page + Limit, !.status = "error"]]
  /\ task' = [task EXCEPT !.status = "error"]
  /\ Released("raise")
  /\ UNCHANGED <<stored, unavailable, caller, active, runs, cur, now, tasks, crashes>>

\* The wave stops at a failed page; the cursor returns to its start.
PageFails ==
  /\ pc = "page"
  /\ failures < MaxFailures
  /\ failures' = failures + 1
  /\ steps' = [steps EXCEPT ![cur] = [mem EXCEPT !.cursor = page, !.status = "error"]]
  /\ task' = [task EXCEPT !.status = "error"]
  /\ Released("raise")
  /\ UNCHANGED <<stored, unavailable, caller, active, runs, cur, now, tasks, crashes>>

\* Mutant of unavailable_range: the whole gap.
WholeGap == cur[2] .. mem.end

unavailable_range == page .. mem.end

\* Nothing listed from here to the end: remembered with the commit of the wave.
PageEmpty ==
  /\ pc = "page"
  /\ IsKlinePage({}, ListedIn(cur[1], page, mem.end), Limit)
  /\ unavailable' = [unavailable EXCEPT ![cur[1]] = @ \cup unavailable_range]
  /\ steps' = [steps EXCEPT ![cur] =
                 [mem EXCEPT !.cursor = mem.end + 1, !.status = "completed"]]
  /\ Released("loop")
  /\ UNCHANGED <<stored, task, caller, active, runs, cur, now, bounds>>

\* Mutant of IsShort: a full page ends the gap too.
AtMostFull(Rows) == Cardinality(Rows) <= Limit

\* A page with fewer rows than asked for is the last of the gap.
IsShort(Rows) == Cardinality(Rows) < Limit

\* upsert_candles commits the session, and with it the step as it is before
\* this page moves its cursor.
PageStored ==
  /\ pc = "page"
  /\ \E Rows \in SUBSET ListedIn(cur[1], page, mem.end) :
       LET short == IsShort(Rows)
           last  == short \/ left = 0 \/ page + Limit > mem.end
       IN  /\ Rows # {}
           /\ IsKlinePage(Rows, ListedIn(cur[1], page, mem.end), Limit)
           /\ stored' = [stored EXCEPT ![cur[1]] = @ \cup Rows]
           /\ steps' = [steps EXCEPT ![cur] = [mem EXCEPT !.touched = TRUE]]
           /\ mem' = [mem EXCEPT !.touched = TRUE,
                                 !.cursor = MaxOf(Rows) + 1,
                                 !.status = IF short THEN "completed" ELSE @]
           /\ pc' = IF last THEN "commit" ELSE "page"
           /\ page' = IF last THEN page ELSE page + Limit
           /\ left' = IF last THEN left ELSE left - 1
  /\ UNCHANGED <<unavailable, task, caller, active, runs, cur, periods, now, bounds>>

\* Mutant of WaveCommit: the cursor is not written back.
WaveForgotten ==
  /\ pc = "commit"
  /\ Released("loop")
  /\ UNCHANGED <<database, caller, active, runs, cur, now, bounds>>

WaveCommit ==
  /\ pc = "commit"
  /\ steps' = [steps EXCEPT ![cur] = mem]
  /\ Released("loop")
  /\ UNCHANGED <<stored, unavailable, task, caller, active, runs, cur, now, bounds>>

-----------------------------------------------------------------------------
(***************************************************************************)
(* A wave of archive files, each with a REST wave as its fallback          *)
(***************************************************************************)

NowSlot(i) == now \div Width[i]
BlockEnd(slot, size) == (slot \div size + 1) * size - 1

\* The file to use from slot start on, as the set of its last slot: the month
\* when it is over and inside the gap, else the day, each only when it holds
\* more candles than a REST page.
select_archive_period(i, start, end) ==
  LET month == BlockEnd(start, MonthSlots[i])
      day   == Smaller(end, BlockEnd(start, DaySlots[i]))
      monthly == /\ month <= end
                 /\ start \div MonthSlots[i] < NowSlot(i) \div MonthSlots[i]
                 /\ month - start + 1 > Limit
      daily == /\ DaySlots[i] > 0
               /\ start \div DaySlots[i] < NowSlot(i) \div DaySlots[i]
               /\ day - start + 1 > Limit
  IN  IF start > end THEN {}
      ELSE IF monthly THEN {month}
      ELSE IF daily THEN {day}
      ELSE {}

\* ends are the last slots of consecutive files from start on, as many as
\* there are up to ArchiveWave.
collect_archive_periods(i, start, end, ends) ==
  LET first(n) == IF n = 1 THEN start ELSE ends[n - 1] + 1
  IN  /\ \A n \in DOMAIN ends : ends[n] \in select_archive_period(i, first(n), end)
      /\ Len(ends) < ArchiveWave =>
           select_archive_period(i, first(Len(ends) + 1), end) = {}

EndSequences(start, end) ==
  UNION {[1 .. n -> start .. end] : n \in 0 .. ArchiveWave}

\* The wave of a step past its start: archive files when there are any, else
\* REST pages.
WaveStart ==
  /\ pc = "loop"
  /\ steps[cur].cursor <= steps[cur].end
  /\ LET start == steps[cur].cursor
          end == steps[cur].end
     IN  \E ends \in IF ArchiveEnabled THEN EndSequences(start, end) ELSE {<<>>} :
           /\ ArchiveEnabled => collect_archive_periods(cur[1], start, end, ends)
           /\ IF ends = <<>>
                THEN WaveBegins
                ELSE /\ periods' =
                          [n \in 1 .. Len(ends) |->
                             LET first == IF n = 1 THEN start ELSE ends[n - 1] + 1
                             IN  [start |-> first, end |-> ends[n], pos |-> first,
                                  left |-> 0, next |-> first, got |-> FALSE,
                                  phase |-> "file"]]
                     /\ pc' = "archive"
                     /\ UNCHANGED <<steps, mem, page, left>>
  /\ UNCHANGED <<stored, unavailable, task, caller, active, runs, cur, now, bounds>>

PeriodStep(n) ==
  /\ pc = "archive"
  /\ n \in DOMAIN periods
  /\ UNCHANGED <<task, steps, caller, active, runs, pc, cur, mem, page, left,
                 now, tasks, crashes>>

\* The cursor of the period after its fallback has stored up to slot next - 1.
fallback_next(p, next) == Larger(p.end + 1, next)

RowsLeft(n) == FileRows[cur[1]] \cap (periods[n].pos .. periods[n].end)

\* Every batch of rows is committed by itself.
ArchiveBatchStored(n) ==
  /\ PeriodStep(n)
  /\ periods[n].phase = "file"
  /\ \E Rows \in (SUBSET RowsLeft(n)) \ {{}} :
       /\ IsKlinePage(Rows, RowsLeft(n), ArchiveBatch)
       /\ stored' = [stored EXCEPT ![cur[1]] = @ \cup Rows]
       /\ periods' = [periods EXCEPT ![n].pos = MaxOf(Rows) + 1, ![n].got = TRUE]
  /\ UNCHANGED <<unavailable, failures>>

\* A file without rows is remembered under the source binance_archive, which
\* the planner does not read.
ArchiveFileEnds(n) ==
  /\ PeriodStep(n)
  /\ periods[n].phase = "file"
  /\ RowsLeft(n) = {}
  /\ periods' = [periods EXCEPT ![n].phase = "done", ![n].next = periods[n].end + 1]
  /\ UNCHANGED <<stored, unavailable, failures>>

\* The file does not exist, or breaks off: one REST wave from the period's start.
ArchiveFileFails(n) ==
  /\ PeriodStep(n)
  /\ periods[n].phase = "file"
  /\ periods' = [periods EXCEPT ![n].phase = "rest", ![n].pos = periods[n].start,
                                ![n].left = WavePages - 1, ![n].got = FALSE]
  /\ UNCHANGED <<stored, unavailable, failures>>

\* The next page of the fallback, with the same rules as a page of a wave.
FallbackPage(n) ==
  /\ PeriodStep(n)
  /\ periods[n].phase = "rest"
  /\ LET p == periods[n]
          Open == ListedIn(cur[1], p.pos, p.end)
     IN  \/ /\ failures < MaxFailures
            /\ failures' = failures + 1
            /\ periods' = [periods EXCEPT ![n].phase = "failed"]
            /\ UNCHANGED <<stored, unavailable>>
         \/ /\ IsKlinePage({}, Open, Limit)
            /\ unavailable' = [unavailable EXCEPT ![cur[1]] = @ \cup (p.pos .. p.end)]
            /\ periods' = [periods EXCEPT ![n].phase = "done", ![n].next = p.end + 1]
            /\ UNCHANGED <<stored, failures>>
         \/ \E Rows \in (SUBSET Open) \ {{}} :
              /\ IsKlinePage(Rows, Open, Limit)
              /\ stored' = [stored EXCEPT ![cur[1]] = @ \cup Rows]
              /\ periods' =
                   [periods EXCEPT ![n] =
                      IF IsShort(Rows) \/ p.left = 0 \/ p.pos + Limit > p.end
                        THEN [p EXCEPT !.phase = "done", !.got = TRUE,
                                       !.next = fallback_next(p, MaxOf(Rows) + 1)]
                        ELSE [p EXCEPT !.pos = p.pos + Limit, !.left = p.left - 1,
                                       !.got = TRUE]]
              /\ UNCHANGED <<unavailable, failures>>

Failed == {n \in DOMAIN periods : periods[n].phase = "failed"}

\* Mutant of DonePrefix: the periods after a failed one too.
DonePeriods == DOMAIN periods \ Failed

DonePrefix == {n \in DOMAIN periods : \A m \in Failed : n < m}

\* When every period has a result, the cursor moves over those before the first
\* failed one.
ApplyArchiveResults ==
  /\ pc = "archive"
  /\ \A n \in DOMAIN periods : periods[n].phase \in {"done", "failed"}
  /\ LET step   == steps[cur]
          cursor == MaxOf({step.cursor} \cup {periods[n].next : n \in DonePrefix})
          touched == step.touched \/ \E n \in DonePrefix : periods[n].got
     IN  IF cursor > step.end \/ Failed = {}
           THEN /\ steps' = [steps EXCEPT ![cur] =
                     [step EXCEPT !.cursor = cursor, !.touched = touched,
                        !.status = IF cursor > step.end THEN "completed" ELSE @]]
                /\ Released("loop")
                /\ UNCHANGED task
           ELSE /\ steps' = [steps EXCEPT ![cur] =
                     [step EXCEPT !.cursor = periods[MinOf(Failed)].start,
                                  !.touched = touched, !.status = "error"]]
                /\ task' = [task EXCEPT !.status = "error"]
                /\ Released("raise")
  /\ UNCHANGED <<stored, unavailable, caller, active, runs, cur, now, bounds>>

-----------------------------------------------------------------------------
(***************************************************************************)
(* The environment, and the specification                                  *)
(***************************************************************************)

\* The live feed stores the candle that closed last.
LiveCandle(i) ==
  LET t == latest_closed_open(i, now)
  IN  /\ t \in Listed[i] \ stored[i]
      /\ stored' = [stored EXCEPT ![i] = @ \cup {t}]
      /\ UNCHANGED <<unavailable, task, steps, caller, active, runs, runner, now,
                     bounds>>

Tick ==
  /\ now < Horizon
  /\ now' = now + 1
  /\ UNCHANGED <<database, caller, active, runs, runner, bounds>>

Crash ==
  /\ crashes < MaxCrashes
  /\ crashes' = crashes + 1
  /\ caller' = [c \in Callers |-> "idle"]
  /\ active' = FALSE
  /\ runs' = 0
  /\ Released("idle")
  /\ cur' = NoKey
  /\ UNCHANGED <<database, now, tasks, failures>>

Init ==
  /\ stored = [i \in Intervals |-> {}]
  /\ unavailable = [i \in Intervals |-> {}]
  /\ task = [status |-> "none", target |-> StartTime, resumed |-> FALSE,
             from |-> [i \in Intervals |-> 0]]
  /\ steps = <<>>
  /\ caller = [c \in Callers |-> "idle"]
  /\ active = FALSE
  /\ runs = 0
  /\ pc = "idle"
  /\ cur = NoKey
  /\ mem = NoStep
  /\ page = 0
  /\ left = 0
  /\ periods = <<>>
  /\ now = StartTime
  /\ tasks = 0
  /\ failures = 0
  /\ crashes = 0

PeriodActions ==
  \E n \in DOMAIN periods :
    \/ ArchiveBatchStored(n) \/ ArchiveFileEnds(n)
    \/ ArchiveFileFails(n) \/ FallbackPage(n)

Run ==
  \/ RunBegin \/ PickStep \/ RunCompletes \/ RunEnds \/ RunRaises
  \/ StepDone \/ WaveStart \/ PageFails \/ PageEmpty \/ PageStored \/ WaveCommit
  \/ PeriodActions \/ ApplyArchiveResults

Next ==
  \/ \E c \in Callers : start_all(c)
  \/ Run
  \/ DatabaseFails
  \/ \E i \in LiveIntervals : LiveCandle(i)
  \/ Tick
  \/ Crash

Spec == Init /\ [][Next]_vars

\* The event loop keeps scheduling the coroutine and the requests it has begun.
Fairness ==
  /\ WF_vars(Run)
  /\ \A c \in Callers :
       WF_vars(StartLocked(c) \/ StartPlan(c) \/ StartSpawn(c))

FairSpec == Spec /\ Fairness

-----------------------------------------------------------------------------
(***************************************************************************)
(* Properties                                                              *)
(***************************************************************************)

Phases == {"idle", "pick", "loop", "page", "commit", "archive", "raise", "finish"}

\* Every variable has its type.
TypeOK ==
  /\ stored \in [Intervals -> SUBSET Nat]
  /\ unavailable \in [Intervals -> SUBSET Int]
  /\ task \in [status : {"none", "running", "completed", "error"},
               target : Nat, resumed : BOOLEAN, from : [Intervals -> Int]]
  /\ DOMAIN steps \subseteq Keys
  /\ steps \in [DOMAIN steps -> Step]
  /\ caller \in [Callers -> {"idle", "waiting", "planning", "planned"}]
  /\ active \in BOOLEAN
  /\ runs \in Nat
  /\ pc \in Phases
  /\ cur \in DOMAIN steps \cup {NoKey}
  /\ mem \in Step
  /\ page \in Int
  /\ left \in Int
  /\ periods \in Seq(Period)
  /\ now \in Nat
  /\ tasks \in Nat
  /\ failures \in Nat
  /\ crashes \in Nat

\* What lies before the cursor of a step is stored: a retry starts at the cursor,
\* so a listed candle behind it would be skipped for good.
PrefixCovered ==
  \A k \in DOMAIN steps :
    ListedIn(k[1], k[2], steps[k].cursor - 1) \subseteq stored[k[1]]

\* A completed step leaves no listed candle of its gap behind.
CompletedCovered ==
  \A k \in DOMAIN steps :
    steps[k].status = "completed" =>
      ListedIn(k[1], k[2], steps[k].end) \subseteq stored[k[1]]

\* A slot remembered as unavailable, which no later plan asks for, is one the
\* exchange has no kline for.
UnavailableSound == \A i \in Intervals : unavailable[i] \cap Listed[i] = {}

\* Concurrent requests, failures and restarts never leave two coroutines to work
\* on one task, and a task being worked on is known to be active.
OneRun ==
  /\ runs + (IF pc = "idle" THEN 0 ELSE 1) <= 1
  /\ runs > 0 \/ pc # "idle" => active

\* Steps are planned only between runs: a coroutine never loses its step.
PlanFrozen == [][pc # "idle" => DOMAIN steps' = DOMAIN steps]_vars

\* Resuming keeps the cursor of every step that has stored something.
ResumeKeepsProgress ==
  [][\A k \in DOMAIN steps :
       pc = "idle" /\ tasks' = tasks /\ steps[k].touched =>
         k \in DOMAIN steps' /\ steps'[k].cursor = steps[k].cursor]_vars

\* The listed candles a task set out to store for interval i.
Target(i) == ListedIn(i, task.from[i], latest_closed_open(i, task.target))

\* A task that ran from its plan to its end without being resumed has stored every
\* listed candle between the start of its plan and its target.
FreshTaskCovers ==
  task.status = "completed" /\ ~task.resumed =>
    \A i \in Intervals : Target(i) \subseteq stored[i]

\* A completed task has stored the last closed candle before its target.
TaskReachesTarget ==
  task.status = "completed" =>
    \A i \in Intervals :
      latest_closed_open(i, task.target) \in Target(i) =>
        latest_closed_open(i, task.target) \in stored[i]

\* Every run of the coroutine comes to an end.
RunTerminates == pc # "idle" ~> pc = "idle"

\* Every start request is answered.
StartAnswered == \A c \in Callers : caller[c] # "idle" ~> caller[c] = "idle"
=============================================================================
