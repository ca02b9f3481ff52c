--------------------------- MODULE IndicatorBackfill ---------------------------
(***************************************************************************)
(* The task that computes the indicators of stored candles, seen from one     *)
(* interval of one symbol: the steps of the other intervals appear by their   *)
(* failures only.  Candles are numbered by their open time.                   *)
(*                                                                         *)
(* Start requests are not serialised, a coroutine holds the lock while its    *)
(* workers run, and a worker whose sibling has failed goes on after the       *)
(* coroutine has ended.                                                       *)
(***************************************************************************)
EXTENDS CandleRanges, Sequences

CONSTANTS
  Slots,        \* the slots considered, a range of naturals
  Stored,       \* candles stored at first
  Batch,        \* INDICATOR_BATCH_CANDLES
  Warmup,       \* INDICATOR_WARMUP_BARS
  Callers,      \* concurrent start requests
  Workers,      \* workers that may be at work at a time, orphans included
  MaxTasks, MaxFailures, MaxRestarts  \* bounds of the model

ConstantsOK ==
  /\ Slots \subseteq Nat /\ IsFiniteSet(Slots) /\ Stored \subseteq Slots
  /\ \A n \in {Batch, Warmup, MaxTasks} : n \in Nat \ {0}
  /\ MaxFailures \in Nat /\ MaxRestarts \in Nat
  /\ 0 \notin Workers

VARIABLES
  stored,     \* candles: slots with a row
  filled,     \* history: those that were stored behind a newer one
  indicator,  \* indicator_snapshots: first candle its value depends on, -1 without a row
  tasks,      \* system_tasks rows of this type with their step
  caller,     \* progress of each start_all call
  active,     \* _active_task_id, 0 is None
  waiting,    \* tasks whose coroutine waits for _lock
  run,        \* the coroutine that holds _lock
  worker,     \* _backfill_interval calls
  fails, restarts
vars == <<stored, filled, indicator, tasks, caller, active, waiting, run, worker, fails, restarts>>

NoCall == [pc |-> "idle", id |-> 0, moved |-> FALSE, from |-> 0, written |-> FALSE]
NoRun  == [pc |-> "free", id |-> 0, worker |-> 0]
NoWork == [pc |-> "free", id |-> 0, cursor |-> 0, rows |-> {}]

Computed == {t \in Slots : indicator[t] # -1}

TypeOK ==
  /\ filled \subseteq stored /\ stored \subseteq Slots
  /\ indicator \in [Slots -> Slots \cup {-1}] /\ Computed \subseteq stored
  /\ \A i \in DOMAIN tasks :
       /\ tasks[i].status \in {"running", "completed", "error"}
       /\ tasks[i].step \in {"pending", "running", "completed"}
       /\ tasks[i].cursor \in Nat /\ tasks[i].asked \subseteq Slots
  /\ \A c \in Callers : caller[c].pc \in {"idle", "asked", "found", "committed"}
  /\ active \in 0 .. Len(tasks) /\ \A i \in DOMAIN waiting : waiting[i] \in DOMAIN tasks
  /\ run.pc \in {"free", "running", "ending", "raising"} /\ run.worker \in Workers \cup {0}
  /\ \A w \in Workers : worker[w].pc \in {"free", "mark", "read", "upsert", "move", "complete"}
  /\ fails \in 0 .. MaxFailures /\ restarts \in 0 .. MaxRestarts
----
(***************************************************************************)
(* Start requests.                                                          *)
(***************************************************************************)
caller_only == UNCHANGED <<stored, filled, indicator, run, worker, fails, restarts>>

\* First slot after the latest indicator.
incremental_start_ms == IF Computed = {} THEN 0 ELSE MaxOf(Computed) + 1

latest_resumable_task ==
  LET open == {i \in DOMAIN tasks : tasks[i].status \in {"running", "error"}}
  IN IF open = {} THEN 0 ELSE MaxOf(open)

\* The only check of the lock; the database is asked after it.
StartChecks(c) ==
  /\ caller[c].pc = "idle" /\ run.pc = "free"
  /\ caller' = [caller EXCEPT ![c] = [NoCall EXCEPT !.pc = "asked"]]
  /\ UNCHANGED <<tasks, active, waiting>> /\ caller_only

\* The newest open task and its step are read; a step without progress gets the
\* start of a new one.
StartFinds(c) ==
  /\ caller[c].pc = "asked"
  /\ LET id == latest_resumable_task
         fresh == id # 0 => ~tasks[id].inserted /\ tasks[id].cursor = 0
     IN caller' = [caller EXCEPT ![c] =
          [pc |-> "found", id |-> id, from |-> IF fresh THEN incremental_start_ms ELSE 0,
           moved |-> id # 0 /\ fresh, written |-> id # 0 /\ tasks[id].status = "error"]]
  /\ UNCHANGED <<tasks, active, waiting>> /\ caller_only

NewTask(from) ==
  [status |-> "running", step |-> "pending", cursor |-> from, inserted |-> FALSE, asked |-> stored]

\* The new task is committed, or what the resumption changed of the old one.
StartCommits(c) ==
  /\ caller[c].pc = "found"
  /\ \/ /\ caller[c].id = 0 /\ Len(tasks) < MaxTasks
        /\ tasks' = Append(tasks, NewTask(caller[c].from))
        /\ caller' = [caller EXCEPT ![c] = [NoCall EXCEPT !.pc = "committed", !.id = Len(tasks) + 1]]
     \/ /\ caller[c].id # 0
        /\ tasks' = [tasks EXCEPT
             ![caller[c].id].status = IF caller[c].written THEN "running" ELSE @,
             ![caller[c].id].cursor = IF caller[c].moved THEN caller[c].from ELSE @]
        /\ caller' = [caller EXCEPT ![c] = [NoCall EXCEPT !.pc = "committed", !.id = caller[c].id]]
  /\ UNCHANGED <<active, waiting>> /\ caller_only

\* A coroutine is spawned unless one of this task is known.
StartSpawns(c) ==
  /\ caller[c].pc = "committed"
  /\ caller' = [caller EXCEPT ![c] = NoCall]
  /\ active' = caller[c].id
  /\ waiting' = IF active = caller[c].id THEN waiting ELSE Append(waiting, caller[c].id)
  /\ UNCHANGED tasks /\ caller_only

start_all(c) == StartChecks(c) \/ StartFinds(c) \/ StartCommits(c) \/ StartSpawns(c)
----
(***************************************************************************)
(* The coroutine of a task.                                                 *)
(***************************************************************************)
run_only == UNCHANGED <<stored, filled, indicator, caller, restarts>>

\* The lock is taken; the step gets a worker unless it is complete.
RunBegins ==
  /\ run.pc = "free" /\ waiting # <<>>
  /\ waiting' = Tail(waiting)
  /\ LET id == Head(waiting)
     IN IF tasks[id].step = "completed"
        THEN run' = [NoRun EXCEPT !.pc = "running", !.id = id] /\ UNCHANGED worker
        ELSE \E w \in Workers :
               /\ worker[w].pc = "free"
               /\ run' = [pc |-> "running", id |-> id, worker |-> w]
               /\ worker' = [worker EXCEPT ![w] = [NoWork EXCEPT !.pc = "mark", !.id = id]]
  /\ UNCHANGED <<tasks, active, fails>> /\ run_only

\* Every step has ended: the task is completed, then the event recorded.
RunCompletes ==
  /\ run.pc = "running" /\ run.worker = 0
  /\ tasks' = [tasks EXCEPT ![run.id].status = "completed"]
  /\ run' = [run EXCEPT !.pc = "ending"]
  /\ UNCHANGED <<active, waiting, worker, fails>> /\ run_only

Released == run' = NoRun /\ active' = 0

RunEnds ==
  /\ run.pc = "ending" /\ Released
  /\ UNCHANGED <<tasks, waiting, worker, fails>> /\ run_only

\* Another step or the database fails: the worker of this step is left alone.
RunRaises ==
  /\ run.pc \in {"running", "ending"} /\ fails < MaxFailures /\ fails' = fails + 1
  /\ run' = [run EXCEPT !.pc = "raising", !.worker = 0]
  /\ UNCHANGED <<tasks, active, waiting, worker>> /\ run_only

\* The error is recorded, or that fails, too; the lock is released either way.
RunRecords ==
  /\ run.pc = "raising" /\ Released
  /\ \/ tasks' = [tasks EXCEPT ![run.id].status = "error"] /\ UNCHANGED fails
     \/ fails < MaxFailures /\ fails' = fails + 1 /\ UNCHANGED tasks
  /\ UNCHANGED <<waiting, worker>> /\ run_only
----
(***************************************************************************)
(* A worker: batches of candles, each computed from rows read before.       *)
(***************************************************************************)
work_only == UNCHANGED <<stored, filled, caller, active, waiting, restarts>>

WorkerMarks(w) ==
  /\ worker[w].pc = "mark"
  /\ tasks' = [tasks EXCEPT ![worker[w].id].step = "running"]
  /\ worker' = [worker EXCEPT ![w].pc = "read"]
  /\ UNCHANGED <<indicator, run, fails>> /\ work_only

\* The first n members of S.
Earliest(n, S) == {t \in S : Cardinality({u \in S : u <= t}) <= n}

\* The rows of a batch, from the warm-up before the cursor.
list_candles_from(cursor) == Earliest(Batch + Warmup, {t \in stored : t >= cursor - Warmup})

Targets(w) == {t \in worker[w].rows : t >= worker[w].cursor}

WorkerReads(w) ==
  /\ worker[w].pc = "read"
  /\ LET cursor == tasks[worker[w].id].cursor
         rows == list_candles_from(cursor)
         some == \E t \in rows : t >= cursor
     IN worker' = [worker EXCEPT ![w] =
          [@ EXCEPT !.pc = IF some THEN "upsert" ELSE "complete",
                    !.cursor = IF some THEN cursor ELSE 0, !.rows = IF some THEN rows ELSE {}]]
  /\ UNCHANGED <<indicator, tasks, run, fails>> /\ work_only

\* Where the run of neighbouring rows that ends with t begins: gaps are not crossed.
calculate_indicator_segments(rows, t) == MinOf({s \in rows : s <= t /\ s .. t \subseteq rows})

upsert_indicator_snapshots(w) ==
  /\ worker[w].pc = "upsert"
  /\ indicator' = [t \in Slots |-> IF t \in Targets(w)
                                   THEN calculate_indicator_segments(worker[w].rows, t)
                                   ELSE indicator[t]]
  /\ worker' = [worker EXCEPT ![w].pc = "move"]
  /\ UNCHANGED <<tasks, run, fails>> /\ work_only

\* Variant: the cursor skips a candle.
NextCursor_after(w) == MaxOf(Targets(w)) + 2

\* The cursor is committed after the values; a batch that is not full is the last.
NextCursor(w) == MaxOf(Targets(w)) + 1

WorkerMoves(w) ==
  /\ worker[w].pc = "move"
  /\ tasks' = [tasks EXCEPT ![worker[w].id].cursor = NextCursor(w), ![worker[w].id].inserted = TRUE]
  /\ worker' = [worker EXCEPT ![w] =
       [NoWork EXCEPT !.id = worker[w].id,
                      !.pc = IF Cardinality(Targets(w)) < Batch THEN "complete" ELSE "read"]]
  /\ UNCHANGED <<indicator, run, fails>> /\ work_only

WorkerCompletes(w) ==
  /\ worker[w].pc = "complete"
  /\ tasks' = [tasks EXCEPT ![worker[w].id].step = "completed"]
  /\ worker' = [worker EXCEPT ![w] = NoWork]
  /\ run' = IF run.worker = w THEN [run EXCEPT !.worker = 0] ELSE run
  /\ UNCHANGED <<indicator, fails>> /\ work_only

\* The database fails the worker; nobody hears of an orphan's failure.
WorkerFails(w) ==
  /\ worker[w].pc # "free" /\ fails < MaxFailures /\ fails' = fails + 1
  /\ worker' = [worker EXCEPT ![w] = NoWork]
  /\ run' = IF run.worker = w THEN [run EXCEPT !.pc = "raising", !.worker = 0] ELSE run
  /\ UNCHANGED <<indicator, tasks>> /\ work_only

Work(w) ==
  \/ WorkerMarks(w) \/ WorkerReads(w) \/ upsert_indicator_snapshots(w) \/ WorkerMoves(w)
  \/ WorkerCompletes(w)
----
\* A candle is stored, at the end or into a gap.
CandleStored ==
  /\ \E t \in Slots \ stored :
       /\ stored' = stored \cup {t}
       /\ filled' = IF \E u \in stored : u > t THEN filled \cup {t} ELSE filled
  /\ UNCHANGED <<indicator, tasks, caller, active, waiting, run, worker, fails, restarts>>

Crash ==
  /\ restarts < MaxRestarts /\ restarts' = restarts + 1
  /\ caller' = [c \in Callers |-> NoCall]
  /\ active' = 0 /\ waiting' = <<>> /\ run' = NoRun
  /\ worker' = [w \in Workers |-> NoWork]
  /\ UNCHANGED <<stored, filled, indicator, tasks, fails>>

Init ==
  /\ stored = Stored /\ filled = {}
  /\ indicator = [t \in Slots |-> -1]
  /\ tasks = <<>> /\ caller = [c \in Callers |-> NoCall]
  /\ active = 0 /\ waiting = <<>> /\ run = NoRun
  /\ worker = [w \in Workers |-> NoWork]
  /\ fails = 0 /\ restarts = 0

Next ==
  \/ \E c \in Callers : start_all(c)
  \/ RunBegins \/ RunCompletes \/ RunEnds \/ RunRaises \/ RunRecords
  \/ \E w \in Workers : Work(w) \/ WorkerFails(w)
  \/ CandleStored \/ Crash

Spec == Init /\ [][Next]_vars
----
(***************************************************************************)
(* Properties                                                               *)
(***************************************************************************)

\* Candles that were stored in their order have no hole in their indicators,
\* whatever the tasks, orphans and crashes: a later run starts after the latest
\* indicator and would never come back to a hole.
IndicatorPrefix ==
  \A t \in stored \ filled, u \in Computed : t < u => t \in Computed

\* A completed task has computed all candles it was created for, but for those
\* filled into a gap meanwhile.
CompletedIsComputed ==
  \A i \in DOMAIN tasks :
    tasks[i].status = "completed" => tasks[i].asked \ filled \subseteq Computed

\* A value depends on the whole warm-up before its candle, or on all candles
\* back to a gap: never on a run cut short by a batch or a restart.
IndicatorIsWarm ==
  \A t \in Computed :
    \/ t - indicator[t] >= Warmup
    \/ indicator[t] = 0 \/ indicator[t] - 1 \notin stored \ filled

\* What the table of indicators promises to its readers.
IndicatorsAreKept == IndicatorPrefix /\ CompletedIsComputed /\ IndicatorIsWarm
=================================================================================
