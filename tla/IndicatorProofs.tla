--------------------------- MODULE IndicatorProofs ---------------------------
(***************************************************************************)
(* Theorems about IndicatorBackfill, for any number of candles, requests,    *)
(* tasks, orphaned workers, failures and restarts: the indicators have no    *)
(* hole that no later run would fill, a completed task has computed what it   *)
(* was created for, and every value has its warm-up.                         *)
(***************************************************************************)
EXTENDS IndicatorBackfill, CandleRangesProofs

Status == {"running", "completed", "error"}
Steps  == {"pending", "running", "completed"}
Task   == [status : Status, step : Steps, cursor : Nat, inserted : BOOLEAN, asked : SUBSET Slots]

\* All candles before c are computed, and no candle before c can be the newest one.
Solid(c) == /\ c \in Nat
            /\ c = 0 \/ \E u \in stored : c <= u + 1
            /\ \A t \in stored \ filled : t < c => t \in Computed

\* Rows read from the warm-up before a cursor lack no candle before their last one.
ReadWhole(rows, cursor) ==
  /\ rows \subseteq stored
  /\ \A s \in stored \ filled, r \in rows : cursor - Warmup <= s /\ s <= r => s \in rows

\* What a task was created for is computed.
Done(i) == tasks[i].asked \ filled \subseteq Computed

Tables ==
  /\ stored \subseteq Slots /\ filled \subseteq stored
  /\ indicator \in [Slots -> Slots \cup {-1}]
  /\ Computed \subseteq stored /\ \A t \in Computed : indicator[t] \in stored
  /\ fails \in 0 .. MaxFailures /\ restarts \in 0 .. MaxRestarts

TaskKept(i) ==
  /\ Solid(tasks[i].cursor) /\ tasks[i].asked \subseteq stored
  /\ tasks[i].step = "completed" => Done(i)
  /\ tasks[i].status = "completed" => Done(i)

TasksKept == tasks \in Seq(Task) /\ \A i \in DOMAIN tasks : TaskKept(i)

Caller == [pc : {"idle", "asked", "found", "committed"}, id : Nat, moved : BOOLEAN, from : Nat,
           written : BOOLEAN]

CallKept(k) ==
  /\ k \in Caller /\ k.id \in 0 .. Len(tasks) /\ Solid(k.from)
  /\ k.pc = "committed" => k.id # 0

CallersKept == caller \in [Callers -> Caller] /\ \A c \in Callers : CallKept(caller[c])

Work0 == [pc : {"free", "mark", "read", "upsert", "move", "complete"}, id : Nat, cursor : Nat,
          rows : SUBSET Slots]

\* The rows a worker holds, and what it has done with them.
Holds(k) ==
  /\ Solid(k.cursor) /\ ReadWhole(k.rows, k.cursor)
  /\ \E t \in k.rows : t >= k.cursor
  /\ Cardinality({t \in k.rows : t >= k.cursor}) < Batch =>
       \A t \in tasks[k.id].asked : t >= k.cursor => t \in k.rows
  /\ k.pc = "move" => {t \in k.rows : t >= k.cursor} \subseteq Computed

WorkKept(k) ==
  /\ k \in Work0
  /\ k.pc # "free" => k.id \in DOMAIN tasks
  /\ k.pc \in {"upsert", "move"} => Holds(k)
  /\ k.pc = "complete" => Done(k.id)

WorkersKept == worker \in [Workers -> Work0] /\ \A w \in Workers : WorkKept(worker[w])

RunKept ==
  /\ run \in [pc : {"free", "running", "ending", "raising"}, id : Nat, worker : Workers \cup {0}]
  /\ run.pc # "free" => run.id \in DOMAIN tasks
  /\ run.worker # 0 => /\ run.pc = "running"
                       /\ worker[run.worker].pc # "free" /\ worker[run.worker].id = run.id
  /\ run.pc = "running" /\ run.worker = 0 => Done(run.id)
  /\ active \in 0 .. Len(tasks)
  /\ waiting \in Seq(Nat) /\ \A i \in DOMAIN waiting : waiting[i] \in DOMAIN tasks

Inv == /\ Tables /\ IndicatorPrefix /\ IndicatorIsWarm
       /\ TasksKept /\ CallersKept /\ WorkersKept /\ RunKept

-----------------------------------------------------------------------------
(* Slots *)

LEMMA SlotsAreNat ==
  ASSUME ConstantsOK
  PROVE  /\ Slots \subseteq Nat /\ IsFiniteSet(Slots) /\ Stored \subseteq Slots
         /\ Batch \in Nat /\ Batch > 0 /\ Warmup \in Nat /\ Warmup > 0
         /\ MaxFailures \in Nat /\ MaxRestarts \in Nat /\ 0 \notin Workers
<1>1. Batch \in Nat \ {0} /\ Warmup \in Nat \ {0}
  BY DEF ConstantsOK
<1> QED  BY <1>1 DEF ConstantsOK

LEMMA SlotSets ==
  ASSUME ConstantsOK, NEW S \in SUBSET Slots
  PROVE  /\ S \in SUBSET Nat /\ S \in SUBSET Int /\ IsFiniteSet(S) /\ Cardinality(S) \in Nat
         /\ S # {} => /\ MaxOf(S) \in S /\ \A y \in S : y <= MaxOf(S)
                      /\ MinOf(S) \in S /\ \A y \in S : MinOf(S) <= y
<1>1. S \in SUBSET Nat /\ S \in SUBSET Int
  BY SlotsAreNat
<1>2. IsFiniteSet(S)
  BY SlotsAreNat, FS_Subset
<1>3. Cardinality(S) \in Nat
  BY <1>2, FS_CardinalityType
<1> QED  BY <1>1, <1>2, <1>3, MaxOfProperty, MinOfProperty

\* Earliest takes an initial part, of everything when it is small.
LEMMA EarliestOf ==
  ASSUME ConstantsOK, NEW S \in SUBSET Slots, NEW n \in Nat
  PROVE  /\ Earliest(n, S) \subseteq S
         /\ \A s \in S, r \in Earliest(n, S) : s <= r => s \in Earliest(n, S)
         /\ Cardinality(Earliest(n, S)) < n => Earliest(n, S) = S
<1>1. S \in SUBSET Int /\ IsFiniteSet(S)
  BY SlotSets
<1>2. PICK E : E = Earliest(n, S)
  OBVIOUS
<1>3. E = FirstOf(n, S)
  BY <1>2 DEF Earliest, FirstOf
<1>4. /\ E \subseteq S
      /\ \A s \in S, r \in E : s <= r => s \in E
      /\ Cardinality(E) < n => E = S
  BY <1>1, <1>3, FirstOnes
<1> QED  BY <1>2, <1>4

-----------------------------------------------------------------------------
(* Tables grow: new candles come last, or fill a gap *)

Grows == /\ stored \subseteq stored' /\ filled \subseteq filled' /\ Computed \subseteq Computed'
         /\ stored' \subseteq Slots
         /\ \A t \in stored' \ stored : t \in filled' \/ \A u \in stored : u < t

LEMMA SolidStays ==
  ASSUME ConstantsOK, stored \subseteq Slots, Grows, NEW c, Solid(c)
  PROVE  Solid(c)'
<1>1. c \in Nat /\ (c = 0 \/ \E u \in stored : c <= u + 1)
  BY DEF Solid
<1>2. ASSUME NEW t \in stored' \ filled', t < c PROVE t \in Computed'
  <2>1. CASE t \in stored
    BY <1>2, <2>1 DEF Solid, Grows
  <2>2. CASE t \notin stored
    <3>1. t \in Nat /\ \A u \in stored : u \in Nat /\ u < t
      BY <1>2, <2>2, SlotsAreNat DEF Grows
    <3>2. PICK u \in stored : c <= u + 1
      BY <1>1, <1>2, <3>1
    <3> QED  BY <1>1, <1>2, <3>1, <3>2
  <2> QED  BY <2>1, <2>2
<1>3. c = 0 \/ \E u \in stored' : c <= u + 1
  BY <1>1 DEF Grows
<1> QED  BY <1>1, <1>2, <1>3 DEF Solid

LEMMA ReadStays ==
  ASSUME ConstantsOK, stored \subseteq Slots, Grows, NEW rows, NEW cursor, ReadWhole(rows, cursor)
  PROVE  ReadWhole(rows, cursor)'
<1>1. rows \subseteq stored /\ rows \subseteq stored'
  BY DEF ReadWhole, Grows
<1>2. ASSUME NEW s \in stored' \ filled', NEW r \in rows, cursor - Warmup <= s, s <= r
      PROVE  s \in rows
  <2>1. r \in stored /\ r \in Nat /\ s \in Nat
    BY <1>1, SlotsAreNat DEF Grows
  <2>2. s \in stored
    BY <1>2, <2>1 DEF Grows
  <2> QED  BY <1>2, <2>2 DEF ReadWhole, Grows
<1> QED  BY <1>1, <1>2 DEF ReadWhole

\* Where the next run of a task starts: after the newest indicator.
LEMMA NextIsSolid ==
  ASSUME ConstantsOK, Tables, IndicatorPrefix
  PROVE  Solid(incremental_start_ms) /\ Solid(0)
<1>1. /\ Computed \in SUBSET Slots
      /\ \A t \in stored : t \in Nat
  BY SlotsAreNat DEF Tables
<1>2. Solid(0)
  BY <1>1 DEF Solid
<1>3. CASE Computed = {}
  BY <1>2, <1>3 DEF incremental_start_ms
<1>4. CASE Computed # {}
  <2> DEFINE m == MaxOf(Computed)
  <2>1. m \in Computed /\ m \in stored /\ m \in Nat /\ incremental_start_ms = m + 1
    BY <1>1, <1>4, SlotSets DEF incremental_start_ms, Tables
  <2> HIDE DEF m
  <2>2. ASSUME NEW t \in stored \ filled, t < m + 1 PROVE t \in Computed
    <3>1. t = m \/ t < m
      BY <1>1, <2>1, <2>2
    <3> QED  BY <2>1, <3>1 DEF IndicatorPrefix
  <2>3. m + 1 \in Nat /\ m + 1 <= m + 1
    BY <2>1
  <2> QED  BY <2>1, <2>2, <2>3 DEF Solid
<1> QED  BY <1>2, <1>3, <1>4

LEMMA SlotsBefore ==
  ASSUME NEW c \in Int, NEW w \in Nat, w > 0
  PROVE  IsFiniteSet((c - w) .. (c - 1)) /\ Cardinality((c - w) .. (c - 1)) = w
<1>1. c - w \in Int /\ c - 1 \in Int /\ ~(c - w > c - 1) /\ (c - 1) - (c - w) + 1 = w
  OBVIOUS
<1>2. /\ IsFiniteSet((c - w) .. (c - 1))
      /\ Cardinality((c - w) .. (c - 1)) =
           IF c - w > c - 1 THEN 0 ELSE (c - 1) - (c - w) + 1
  BY <1>1, FS_Interval
<1> QED  BY <1>1, <1>2

LEMMA StartIsSolid ==
  ASSUME ConstantsOK, Inv, Grows, NEW c, c = 0
  PROVE  Solid(c)'
<1>1. Solid(0) /\ stored \subseteq Slots
  BY NextIsSolid DEF Inv, Tables
<1>2. Solid(0)'
  BY <1>1, SolidStays
<1> QED  BY <1>2

\* The rows of a batch.
LEMMA ReadRows ==
  ASSUME ConstantsOK, Tables, NEW c, Solid(c), NEW rows, rows = list_candles_from(c)
  PROVE  /\ ReadWhole(rows, c) /\ rows \in SUBSET Slots
         /\ Cardinality({t \in rows : t >= c}) < Batch => \A t \in stored : t >= c => t \in rows
<1> DEFINE S == {t \in stored : t >= c - Warmup}
           n == Batch + Warmup
           low == {t \in rows : t < c}
           high == {t \in rows : t >= c}
<1>1. /\ c \in Nat /\ S \in SUBSET Slots /\ n \in Nat /\ Batch \in Nat /\ Warmup \in Nat
      /\ Slots \subseteq Nat
  BY SlotsAreNat DEF Solid, Tables
<1>2. rows = Earliest(n, S)
  BY DEF list_candles_from
<1> HIDE DEF n
<1>3. /\ rows \subseteq S
      /\ \A s \in S, r \in rows : s <= r => s \in rows
      /\ Cardinality(rows) < n => rows = S
  BY <1>1, <1>2, EarliestOf
<1>4. ReadWhole(rows, c)
  BY <1>3 DEF ReadWhole
<1>5. rows \in SUBSET Slots
  BY <1>1, <1>3
<1>6. ASSUME Cardinality(high) < Batch, NEW t \in stored, t >= c PROVE t \in rows
  <2>0. \A u \in rows : u \in Nat /\ u >= c - Warmup
    BY <1>1, <1>3, <1>5
  <2>1. rows = low \cup high /\ low \cap high = {}
    BY <1>1, <2>0
  <2>2. low \subseteq (c - Warmup) .. (c - 1)
    <3>1. \A u \in low : u \in Nat /\ u >= c - Warmup /\ u < c
      BY <2>0
    <3> HIDE DEF low
    <3> QED  BY <1>1, <3>1
  <2>3. IsFiniteSet((c - Warmup) .. (c - 1)) /\ Cardinality((c - Warmup) .. (c - 1)) = Warmup
    <3>1. c \in Int /\ Warmup \in Nat /\ Warmup > 0
      BY <1>1, SlotsAreNat
    <3> QED  BY <3>1, SlotsBefore
  <2> HIDE DEF low
  <2>4. Cardinality(low) <= Warmup /\ IsFiniteSet(low)
    BY <2>2, <2>3, FS_Subset
  <2>5. IsFiniteSet(high)
    <3>1. high \in SUBSET Slots
      BY <1>5
    <3> QED  BY <3>1, SlotSets
  <2> HIDE DEF high, S
  <2>6. Cardinality(rows) = Cardinality(low) + Cardinality(high)
    <3>1. Cardinality(low \cup high) = Cardinality(low) + Cardinality(high) - Cardinality(low \cap high)
      BY <2>4, <2>5, FS_Union
    <3>2. Cardinality(low \cap high) = 0
      BY <2>1, FS_EmptySet
    <3>3. Cardinality(rows) = Cardinality(low \cup high)
      BY <2>1
    <3>4. Cardinality(low) \in Nat /\ Cardinality(high) \in Nat
      BY <2>4, <2>5, FS_CardinalityType
    <3> QED  BY <3>1, <3>2, <3>3, <3>4
  <2>7. Cardinality(low) \in Nat /\ Cardinality(high) \in Nat
    BY <2>4, <2>5, FS_CardinalityType
  <2>8. Cardinality(rows) < n
    BY <1>1, <1>6, <2>4, <2>6, <2>7 DEF n
  <2>9. rows = S
    BY <1>3, <2>8
  <2>10. t >= c - Warmup
    <3>1. t \in Nat
      BY <1>1 DEF Tables
    <3> QED  BY <1>1, <1>6, <3>1
  <2> QED  BY <2>9, <2>10 DEF S
<1> QED  BY <1>4, <1>5, <1>6

-----------------------------------------------------------------------------
(* What a step leaves alone stays as it was *)

TasksGo == /\ Len(tasks) <= Len(tasks') /\ Len(tasks') \in Nat /\ DOMAIN tasks \subseteq DOMAIN tasks'
           /\ \A i \in DOMAIN tasks : tasks'[i].asked = tasks[i].asked

LEMMA NothingGrows ==
  ASSUME Tables, UNCHANGED <<stored, filled, indicator>>
  PROVE  Grows /\ Computed' = Computed
BY DEF Tables, Grows, Computed

LEMMA DoneStays ==
  ASSUME Grows, NEW i, tasks'[i].asked = tasks[i].asked, Done(i)
  PROVE  Done(i)'
BY DEF Grows, Done

LEMMA TasksStay ==
  ASSUME ConstantsOK, Tables, Grows, TasksKept, UNCHANGED tasks
  PROVE  TasksKept' /\ TasksGo
<1>1. stored \subseteq Slots
  BY DEF Tables
<1>2. ASSUME NEW i \in DOMAIN tasks PROVE TaskKept(i)'
  <2>1. TaskKept(i)
    BY DEF TasksKept
  <2>2. Solid(tasks[i].cursor)'
    BY <1>1, <2>1, SolidStays DEF TaskKept
  <2>3. Done(i) => Done(i)'
    BY DoneStays
  <2>4. tasks'[i].asked \subseteq stored'
    BY <2>1 DEF TaskKept, Grows
  <2> QED  BY <2>1, <2>2, <2>3, <2>4 DEF TaskKept
<1>3. Len(tasks) \in Nat
  BY DEF TasksKept
<1> QED  BY <1>2, <1>3 DEF TasksKept, TasksGo

LEMMA CallStays ==
  ASSUME ConstantsOK, Tables, Grows, TasksGo, NEW k, CallKept(k)
  PROVE  CallKept(k)'
<1>1. stored \subseteq Slots /\ Solid(k.from)'
  BY SolidStays DEF Tables, CallKept
<1>2. k.id \in 0 .. Len(tasks')
  BY DEF CallKept, TasksGo
<1> QED  BY <1>1, <1>2 DEF CallKept

LEMMA CallersStay ==
  ASSUME ConstantsOK, Tables, Grows, TasksGo, CallersKept, UNCHANGED caller
  PROVE  CallersKept'
BY CallStays DEF CallersKept

LEMMA HoldsStay ==
  ASSUME ConstantsOK, Tables, Grows, NEW k, Holds(k), tasks'[k.id].asked = tasks[k.id].asked
  PROVE  Holds(k)'
<1>1. stored \subseteq Slots
  BY DEF Tables
<1>2. Solid(k.cursor)' /\ ReadWhole(k.rows, k.cursor)'
  BY <1>1, SolidStays, ReadStays DEF Holds
<1>3. k.pc = "move" => {t \in k.rows : t >= k.cursor} \subseteq Computed'
  BY DEF Holds, Grows
<1> QED  BY <1>2, <1>3 DEF Holds

LEMMA WorkStays ==
  ASSUME ConstantsOK, Tables, Grows, TasksGo, NEW k, WorkKept(k)
  PROVE  WorkKept(k)'
<1>1. CASE k.pc = "free"
  BY <1>1 DEF WorkKept
<1>2. CASE k.pc # "free"
  <2>1. k.id \in DOMAIN tasks' /\ tasks'[k.id].asked = tasks[k.id].asked
    BY <1>2 DEF WorkKept, TasksGo
  <2>2. Holds(k) => Holds(k)'
    BY <2>1, HoldsStay
  <2>3. Done(k.id) => Done(k.id)'
    BY <2>1, DoneStays
  <2> QED  BY <2>1, <2>2, <2>3 DEF WorkKept
<1> QED  BY <1>1, <1>2

LEMMA WorkersStay ==
  ASSUME ConstantsOK, Tables, Grows, TasksGo, WorkersKept, UNCHANGED worker
  PROVE  WorkersKept'
BY WorkStays DEF WorkersKept

LEMMA RunStays ==
  ASSUME Grows, TasksGo, RunKept, UNCHANGED <<run, active, waiting>>,
         \A w \in Workers : worker[w].pc # "free" =>
           worker'[w].pc # "free" /\ worker'[w].id = worker[w].id
  PROVE  RunKept'
<1>1. run.pc # "free" => run.id \in DOMAIN tasks' /\ tasks'[run.id].asked = tasks[run.id].asked
  BY DEF RunKept, TasksGo
<1>2. run.pc = "running" /\ run.worker = 0 => Done(run.id)'
  BY <1>1, DoneStays DEF RunKept
<1>3. run.worker # 0 => worker'[run.worker].pc # "free" /\ worker'[run.worker].id = run.id
  BY DEF RunKept
<1>4. active \in 0 .. Len(tasks')
  BY DEF RunKept, TasksGo
<1>5. \A i \in DOMAIN waiting : waiting[i] \in DOMAIN tasks'
  BY DEF RunKept, TasksGo
<1> QED  BY <1>1, <1>2, <1>3, <1>4, <1>5 DEF RunKept

\* Values and their rows are not touched.
LEMMA ValuesStay ==
  ASSUME ConstantsOK, Tables, IndicatorPrefix, IndicatorIsWarm, UNCHANGED <<stored, filled, indicator>>,
         fails' \in 0 .. MaxFailures, restarts' \in 0 .. MaxRestarts
  PROVE  Tables' /\ IndicatorPrefix' /\ IndicatorIsWarm' /\ Grows
<1>1. Grows /\ Computed' = Computed
  BY NothingGrows
<1> QED  BY <1>1 DEF Tables, IndicatorPrefix, IndicatorIsWarm

-----------------------------------------------------------------------------
(* Start requests *)

LEMMA CallerSet ==
  ASSUME ConstantsOK, Inv, NEW c \in Callers, NEW k, CallKept(k)',
         caller' = [caller EXCEPT ![c] = k], Grows, TasksGo
  PROVE  CallersKept'
<1>1. \A d \in Callers : caller'[d] = IF d = c THEN k ELSE caller[d]
  BY DEF Inv, CallersKept
<1>2. ASSUME NEW d \in Callers PROVE CallKept(caller[d])'
  <2>1. PICK e : e = caller'[d]
    OBVIOUS
  <2>2. CallKept(e)'
    <3>1. CASE d = c
      BY <1>1, <2>1, <3>1
    <3>2. CASE d # c
      <4>1. CallKept(e)
        <5>1. CallKept(caller[d]) /\ caller[d] = e
          BY <1>1, <2>1, <3>2 DEF Inv, CallersKept
        <5> QED  BY <5>1
      <4> QED  BY <4>1, CallStays DEF Inv
    <3> QED  BY <3>1, <3>2
  <2> QED  BY <2>1, <2>2 DEF CallKept, Solid
<1>3. caller' \in [Callers -> Caller]
  BY <1>2 DEF Inv, CallersKept, CallKept
<1> QED  BY <1>2, <1>3 DEF CallersKept

LEMMA WorkerSet ==
  ASSUME ConstantsOK, Inv, NEW w \in Workers, NEW k, WorkKept(k)',
         worker' = [worker EXCEPT ![w] = k], Grows, TasksGo
  PROVE  WorkersKept' /\ \A v \in Workers : worker'[v] = IF v = w THEN k ELSE worker[v]
<1>1. \A v \in Workers : worker'[v] = IF v = w THEN k ELSE worker[v]
  BY DEF Inv, WorkersKept
<1>2. ASSUME NEW v \in Workers PROVE WorkKept(worker[v])'
  <2>1. PICK e : e = worker'[v]
    OBVIOUS
  <2>2. WorkKept(e)'
    <3>1. CASE v = w
      BY <1>1, <2>1, <3>1
    <3>2. CASE v # w
      <4>1. WorkKept(e)
        <5>1. WorkKept(worker[v]) /\ worker[v] = e
          BY <1>1, <2>1, <3>2 DEF Inv, WorkersKept
        <5> QED  BY <5>1
      <4> QED  BY <4>1, WorkStays DEF Inv
    <3> QED  BY <3>1, <3>2
  <2> QED  BY <2>1, <2>2 DEF WorkKept, Holds, Solid, ReadWhole, Done
<1>3. worker' \in [Workers -> Work0]
  BY <1>2 DEF Inv, WorkersKept, WorkKept
<1> QED  BY <1>1, <1>2, <1>3 DEF WorkersKept

\* Changes of a row of the table of tasks.
OnlyAt(T, U, id) == /\ U \in Seq(Task) /\ Len(U) = Len(T)
                    /\ \A i \in DOMAIN T : i # id => U[i] = T[i]

LEMMA RowSet ==
  ASSUME tasks \in Seq(Task), NEW id \in DOMAIN tasks, NEW x \in Task,
         tasks' = [tasks EXCEPT ![id] = x]
  PROVE  OnlyAt(tasks, tasks', id) /\ tasks'[id] = x
BY DEF OnlyAt

LEMMA StatusSet ==
  ASSUME tasks \in Seq(Task), NEW id \in DOMAIN tasks, NEW v \in Status,
         tasks' = [tasks EXCEPT ![id].status = v]
  PROVE  OnlyAt(tasks, tasks', id) /\ tasks'[id].status = v /\ tasks'[id].step = tasks[id].step
         /\ tasks'[id].cursor = tasks[id].cursor /\ tasks'[id].asked = tasks[id].asked
<1>1. tasks[id] \in Task
  OBVIOUS
<1>2. PICK x : x = [tasks[id] EXCEPT !.status = v]
  OBVIOUS
<1>3. x \in Task /\ x.status = v /\ x.step = tasks[id].step
         /\ x.cursor = tasks[id].cursor /\ x.asked = tasks[id].asked
  BY <1>1, <1>2 DEF Task
<1>4. tasks' = [tasks EXCEPT ![id] = x]
  BY <1>2
<1>5. tasks'[id] = x /\ OnlyAt(tasks, tasks', id)
  BY <1>3, <1>4, RowSet
<1> QED  BY <1>3, <1>5

LEMMA StepSet ==
  ASSUME tasks \in Seq(Task), NEW id \in DOMAIN tasks, NEW v \in Steps,
         tasks' = [tasks EXCEPT ![id].step = v]
  PROVE  OnlyAt(tasks, tasks', id) /\ tasks'[id].status = tasks[id].status /\ tasks'[id].step = v
         /\ tasks'[id].cursor = tasks[id].cursor /\ tasks'[id].asked = tasks[id].asked
<1>1. tasks[id] \in Task
  OBVIOUS
<1>2. PICK x : x = [tasks[id] EXCEPT !.step = v]
  OBVIOUS
<1>3. x \in Task /\ x.status = tasks[id].status /\ x.step = v
         /\ x.cursor = tasks[id].cursor /\ x.asked = tasks[id].asked
  BY <1>1, <1>2 DEF Task
<1>4. tasks' = [tasks EXCEPT ![id] = x]
  BY <1>2
<1>5. tasks'[id] = x /\ OnlyAt(tasks, tasks', id)
  BY <1>3, <1>4, RowSet
<1> QED  BY <1>3, <1>5

LEMMA CursorSet ==
  ASSUME tasks \in Seq(Task), NEW id \in DOMAIN tasks, NEW n \in Nat,
         tasks' = [tasks EXCEPT ![id].cursor = n, ![id].inserted = TRUE]
  PROVE  OnlyAt(tasks, tasks', id) /\ tasks'[id].status = tasks[id].status /\ tasks'[id].step = tasks[id].step
         /\ tasks'[id].cursor = n /\ tasks'[id].asked = tasks[id].asked
<1>1. tasks[id] \in Task
  OBVIOUS
<1>2. PICK x : x = [tasks[id] EXCEPT !.cursor = n, !.inserted = TRUE]
  OBVIOUS
<1>3. x \in Task /\ x.status = tasks[id].status /\ x.step = tasks[id].step
         /\ x.cursor = n /\ x.asked = tasks[id].asked
  BY <1>1, <1>2 DEF Task
<1>4. tasks' = [tasks EXCEPT ![id] = x]
  BY <1>2
<1>5. tasks'[id] = x /\ OnlyAt(tasks, tasks', id)
  BY <1>3, <1>4, RowSet
<1> QED  BY <1>3, <1>5

LEMMA TaskSet ==
  ASSUME ConstantsOK, Inv, Grows, NEW id \in DOMAIN tasks, NEW x, tasks'[id] = x,
         x.asked = tasks[id].asked, Solid(x.cursor),
         x.step = "completed" => Done(id), x.status = "completed" => Done(id),
         OnlyAt(tasks, tasks', id)
  PROVE  TasksKept' /\ TasksGo
<1>1. /\ tasks \in Seq(Task) /\ Len(tasks) \in Nat /\ DOMAIN tasks = 1 .. Len(tasks)
      /\ stored \subseteq Slots
  BY DEF Inv, Tables, TasksKept
<1>2. /\ tasks' \in Seq(Task) /\ Len(tasks') = Len(tasks) /\ DOMAIN tasks' = DOMAIN tasks
      /\ \A i \in DOMAIN tasks : tasks'[i] = IF i = id THEN x ELSE tasks[i]
  BY <1>1 DEF OnlyAt
<1>3. TasksGo
  BY <1>1, <1>2 DEF TasksGo
<1>4. ASSUME NEW i \in DOMAIN tasks PROVE TaskKept(i)'
  <2>1. TaskKept(i)
    BY DEF Inv, TasksKept
  <2>2. Done(i) => Done(i)'
    BY <1>3, DoneStays DEF TasksGo
  <2>3. tasks'[i].asked \subseteq stored'
    BY <1>3, <2>1 DEF TasksGo, TaskKept, Grows
  <2>4. CASE i = id
    <3>1. Solid(x.cursor)'
      BY <1>1, SolidStays
    <3>2. Solid(tasks[i].cursor)'
      BY <1>2, <2>4, <3>1 DEF Solid
    <3> QED  BY <1>2, <2>2, <2>3, <2>4, <3>2 DEF TaskKept
  <2>5. CASE i # id
    <3>1. PICK y : y = tasks[i].cursor
      OBVIOUS
    <3>2. Solid(y)
      BY <2>1, <3>1 DEF TaskKept
    <3>3. Solid(y)'
      BY <1>1, <3>2, SolidStays
    <3>4. Solid(tasks[i].cursor)'
      BY <1>2, <2>5, <3>1, <3>3 DEF Solid
    <3> QED  BY <1>2, <2>1, <2>2, <2>3, <2>5, <3>4 DEF TaskKept
  <2> QED  BY <2>4, <2>5
<1> QED  BY <1>2, <1>3, <1>4 DEF TasksKept

LEMMA StartChecks_keeps ==
  ASSUME ConstantsOK, Inv, NEW c \in Callers, StartChecks(c)
  PROVE  Inv'
<1> DEFINE k == [NoCall EXCEPT !.pc = "asked"]
<1>1. /\ caller' = [caller EXCEPT ![c] = k] /\ UNCHANGED <<tasks, active, waiting>>
      /\ UNCHANGED <<stored, filled, indicator, run, worker, fails, restarts>>
  BY DEF StartChecks, caller_only
<1>2. k \in Caller /\ k.pc = "asked" /\ k.id = 0 /\ k.from = 0
  BY DEF NoCall, Caller
<1> HIDE DEF k
<1>3. Tables' /\ IndicatorPrefix' /\ IndicatorIsWarm' /\ Grows
  BY <1>1, ValuesStay DEF Inv, Tables
<1>4. TasksKept' /\ TasksGo
  BY <1>1, <1>3, TasksStay DEF Inv
<1>5. CallKept(k)
  <2>1. Solid(k.from)
    BY <1>2, NextIsSolid DEF Inv
  <2>2. Len(tasks) \in Nat
    BY DEF Inv, TasksKept
  <2> QED  BY <1>2, <2>1, <2>2 DEF CallKept
<1>6. CallKept(k)'
  BY <1>3, <1>4, <1>5, CallStays DEF Inv
<1>7. CallersKept'
  BY <1>1, <1>3, <1>4, <1>6, CallerSet
<1>8. WorkersKept' /\ RunKept'
  BY <1>1, <1>3, <1>4, WorkersStay, RunStays DEF Inv
<1> QED  BY <1>3, <1>4, <1>7, <1>8 DEF Inv

LEMMA ResumableTask ==
  ASSUME TasksKept
  PROVE  latest_resumable_task \in 0 .. Len(tasks)
<1> DEFINE open == {i \in DOMAIN tasks : tasks[i].status \in {"running", "error"}}
<1>1. Len(tasks) \in Nat /\ DOMAIN tasks = 1 .. Len(tasks)
  BY DEF TasksKept
<1>2. open \subseteq 1 .. Len(tasks) /\ IsFiniteSet(1 .. Len(tasks))
  BY <1>1, FS_Interval
<1>3. latest_resumable_task = IF open = {} THEN 0 ELSE MaxOf(open)
  BY DEF latest_resumable_task
<1> HIDE DEF open
<1>4. IsFiniteSet(open) /\ open \in SUBSET Int
  <2>1. IsFiniteSet(open)
    BY <1>2, FS_Subset
  <2> QED  BY <1>1, <1>2, <2>1
<1>5. open # {} => MaxOf(open) \in open
  BY <1>4, MaxOfProperty
<1> QED  BY <1>1, <1>2, <1>3, <1>5

LEMMA StartFinds_keeps ==
  ASSUME ConstantsOK, Inv, NEW c \in Callers, StartFinds(c)
  PROVE  Inv'
<1> DEFINE id == latest_resumable_task
           fresh == id # 0 => ~tasks[id].inserted /\ tasks[id].cursor = 0
<1>0. PICK k : k = [pc |-> "found", id |-> id, from |-> IF fresh THEN incremental_start_ms ELSE 0,
                    moved |-> id # 0 /\ fresh, written |-> id # 0 /\ tasks[id].status = "error"]
  OBVIOUS
<1>1. /\ caller' = [caller EXCEPT ![c] = k] /\ UNCHANGED <<tasks, active, waiting>>
      /\ UNCHANGED <<stored, filled, indicator, run, worker, fails, restarts>>
  BY <1>0 DEF StartFinds, caller_only
<1>2. id \in 0 .. Len(tasks) /\ id \in Nat /\ fresh \in BOOLEAN
  <2>1. Len(tasks) \in Nat
    BY DEF Inv, TasksKept
  <2>2. id \in 0 .. Len(tasks)
    BY ResumableTask DEF Inv
  <2> QED  BY <2>1, <2>2
<1> HIDE DEF id, fresh
<1>3. /\ k.pc = "found" /\ k.id = id /\ k.from = (IF fresh THEN incremental_start_ms ELSE 0)
      /\ k.moved \in BOOLEAN /\ k.written \in BOOLEAN
      /\ k = [pc |-> k.pc, id |-> k.id, moved |-> k.moved, from |-> k.from, written |-> k.written]
  BY <1>0, <1>2
<1>4. Solid(k.from)
  BY <1>3, NextIsSolid DEF Inv
<1>5. CallKept(k)
  <2>1. k.from \in Nat
    BY <1>4 DEF Solid
  <2>2. k \in Caller
    BY <1>2, <1>3, <2>1 DEF Caller
  <2> QED  BY <1>2, <1>3, <1>4, <2>2 DEF CallKept
<1>6. Tables' /\ IndicatorPrefix' /\ IndicatorIsWarm' /\ Grows
  BY <1>1, ValuesStay DEF Inv, Tables
<1>7. TasksKept' /\ TasksGo
  BY <1>1, <1>6, TasksStay DEF Inv
<1>8. CallKept(k)'
  BY <1>5, <1>6, <1>7, CallStays DEF Inv
<1>9. CallersKept'
  BY <1>1, <1>6, <1>7, <1>8, CallerSet
<1>10. WorkersKept' /\ RunKept'
  BY <1>1, <1>6, <1>7, WorkersStay, RunStays DEF Inv
<1> QED  BY <1>6, <1>7, <1>9, <1>10 DEF Inv

\* A request commits a new task for what is stored, or what it changed of an old one.
LEMMA StartCommits_keeps ==
  ASSUME ConstantsOK, Inv, NEW c \in Callers, StartCommits(c)
  PROVE  Inv'
<1>a. PICK d : d = caller[c]
  OBVIOUS
<1>b. PICK n : n = IF d.id = 0 THEN Len(tasks) + 1 ELSE d.id
  OBVIOUS
<1> DEFINE k == [NoCall EXCEPT !.pc = "committed", !.id = n]
<1>1. /\ UNCHANGED <<stored, filled, indicator, run, worker, fails, restarts, active, waiting>>
      /\ caller' = [caller EXCEPT ![c] = k]
      /\ \/ d.id = 0 /\ tasks' = Append(tasks, NewTask(d.from))
         \/ d.id # 0 /\ tasks' = [tasks EXCEPT ![d.id].status = IF d.written THEN "running" ELSE @,
                                               ![d.id].cursor = IF d.moved THEN d.from ELSE @]
  BY <1>a, <1>b DEF StartCommits, caller_only
<1>2. n \in Nat => k \in Caller /\ k.from = 0 /\ k.id = n
  BY DEF NoCall, Caller
<1> HIDE DEF k
<1>3. CallKept(d) /\ Len(tasks) \in Nat /\ DOMAIN tasks = 1 .. Len(tasks) /\ tasks \in Seq(Task)
  BY <1>a DEF Inv, CallersKept, TasksKept
<1>4. PICK from : from = d.from
  OBVIOUS
<1>5. Solid(from) /\ from \in Nat /\ d.id \in 0 .. Len(tasks) /\ d \in Caller
  BY <1>3, <1>4 DEF CallKept, Solid
<1>6. Tables' /\ IndicatorPrefix' /\ IndicatorIsWarm' /\ Grows
  BY <1>1, ValuesStay DEF Inv, Tables
<1>7. TasksKept' /\ TasksGo
  <2>1. CASE d.id = 0
    <3>0. n = Len(tasks) + 1
      BY <1>b, <2>1
    <3> DEFINE x == NewTask(from)
    <3>1. x \in Task /\ x.cursor = from /\ x.asked = stored /\ x.step = "pending" /\ x.status = "running"
      BY <1>5 DEF NewTask, Task, Status, Steps, Inv, Tables
    <3>2. tasks' = Append(tasks, x)
      BY <1>1, <1>4, <2>1
    <3> HIDE DEF x
    <3>3. /\ tasks' \in Seq(Task) /\ Len(tasks') = n /\ DOMAIN tasks' = 1 .. n /\ tasks'[n] = x
          /\ \A i \in DOMAIN tasks : tasks'[i] = tasks[i]
      BY <1>3, <3>0, <3>1, <3>2
    <3>4. TasksGo
      BY <1>3, <3>0, <3>3 DEF TasksGo
    <3>5. ASSUME NEW i \in DOMAIN tasks' PROVE TaskKept(i)'
      <4>1. CASE i \in DOMAIN tasks
        <5>1. TaskKept(i) /\ tasks'[i] = tasks[i]
          BY <3>3, <4>1 DEF Inv, TasksKept
        <5>2. Computed' = Computed
          BY <1>1 DEF Computed
        <5> QED  BY <1>1, <5>1, <5>2 DEF TaskKept, Solid, Done
      <4>2. CASE i = n
        <5>1. Computed' = Computed
          BY <1>1 DEF Computed
        <5>2. Solid(tasks[i].cursor)'
          BY <1>1, <1>5, <3>1, <3>3, <4>2, <5>1 DEF Solid
        <5> QED  BY <1>1, <3>1, <3>3, <4>2, <5>2 DEF TaskKept
      <4> QED  BY <1>3, <3>0, <3>3, <4>1, <4>2
    <3> QED  BY <3>3, <3>4, <3>5 DEF TasksKept
  <2>2. CASE d.id # 0
    <3>1. PICK id : id = d.id
      OBVIOUS
    <3>2. id \in DOMAIN tasks
      BY <1>3, <1>5, <2>2, <3>1
    <3>a. PICK s : s = IF d.written THEN "running" ELSE tasks[id].status
      OBVIOUS
    <3>b. PICK m : m = IF d.moved THEN from ELSE tasks[id].cursor
      OBVIOUS
    <3>3. /\ OnlyAt(tasks, tasks', id)
          /\ tasks'[id].status = s /\ tasks'[id].cursor = m
          /\ tasks'[id].step = tasks[id].step /\ tasks'[id].asked = tasks[id].asked
      <4>1. tasks[id] \in Task
        BY <1>3, <3>2
      <4>2. PICK y : y = [tasks[id] EXCEPT !.status = s, !.cursor = m]
        OBVIOUS
      <4>3. s \in Status /\ m \in Nat
        BY <1>5, <3>a, <3>b, <4>1 DEF Task, Status
      <4>4. /\ y \in Task /\ y.status = s /\ y.cursor = m
            /\ y.step = tasks[id].step /\ y.asked = tasks[id].asked
        BY <4>1, <4>2, <4>3 DEF Task
      <4>5. tasks' = [tasks EXCEPT ![id] = y]
        BY <1>1, <1>4, <2>2, <3>1, <3>a, <3>b, <4>2
      <4>6. tasks'[id] = y /\ OnlyAt(tasks, tasks', id)
        BY <1>3, <3>2, <4>4, <4>5, RowSet
      <4> QED  BY <4>4, <4>6
    <3>4. PICK x : x = tasks'[id]
      OBVIOUS
    <3>5. TaskKept(id)
      BY <3>2 DEF Inv, TasksKept
    <3>6. Solid(x.cursor)
      <4>1. x.cursor = from \/ x.cursor = tasks[id].cursor
        BY <3>3, <3>4, <3>b
      <4> QED  BY <1>5, <3>5, <4>1 DEF TaskKept
    <3>7. /\ x.asked = tasks[id].asked /\ x.step = "completed" => Done(id)
          /\ x.status = "completed" => Done(id)
      BY <3>3, <3>4, <3>5, <3>a DEF TaskKept
    <3> QED  BY <1>6, <3>2, <3>3, <3>4, <3>6, <3>7, TaskSet
  <2> QED  BY <2>1, <2>2
<1>8. CallKept(k)'
  <2>0. n \in Nat
    BY <1>b, <1>3, <1>5
  <2>1. Solid(k.from)'
    BY <1>2, <1>6, <2>0, StartIsSolid
  <2>2. k.id \in 0 .. Len(tasks') /\ k.id # 0
    <3>1. d.id = 0 => Len(tasks') = Len(tasks) + 1
      BY <1>1, <1>3
    <3> QED  BY <1>b, <1>2, <1>3, <1>5, <1>7, <2>0, <3>1 DEF TasksGo
  <2> QED  BY <1>2, <2>0, <2>1, <2>2 DEF CallKept
<1>9. CallersKept'
  BY <1>1, <1>6, <1>7, <1>8, CallerSet
<1>10. WorkersKept' /\ RunKept'
  BY <1>1, <1>6, <1>7, WorkersStay, RunStays DEF Inv
<1> QED  BY <1>6, <1>7, <1>9, <1>10 DEF Inv

LEMMA StartSpawns_keeps ==
  ASSUME ConstantsOK, Inv, NEW c \in Callers, StartSpawns(c)
  PROVE  Inv'
<1>1. /\ caller[c].pc = "committed" /\ caller' = [caller EXCEPT ![c] = NoCall]
      /\ active' = caller[c].id
      /\ waiting' = IF active = caller[c].id THEN waiting ELSE Append(waiting, caller[c].id)
      /\ UNCHANGED <<tasks, stored, filled, indicator, run, worker, fails, restarts>>
  BY DEF StartSpawns, caller_only
<1>2. Tables' /\ IndicatorPrefix' /\ IndicatorIsWarm' /\ Grows
  BY <1>1, ValuesStay DEF Inv, Tables
<1>3. TasksKept' /\ TasksGo
  BY <1>1, <1>2, TasksStay DEF Inv
<1>4. CallKept(NoCall)'
  <2>1. NoCall \in Caller /\ NoCall.from = 0 /\ NoCall.id = 0 /\ NoCall.pc = "idle"
    BY DEF NoCall, Caller
  <2>2. Solid(NoCall.from)'
    BY <1>2, <2>1, StartIsSolid
  <2>3. Len(tasks') \in Nat
    BY <1>3 DEF TasksGo
  <2> QED  BY <2>1, <2>2, <2>3 DEF CallKept
<1>5. CallersKept'
  BY <1>1, <1>2, <1>3, <1>4, CallerSet
<1>6. WorkersKept'
  BY <1>1, <1>2, <1>3, WorkersStay DEF Inv
<1>7. caller[c].id \in DOMAIN tasks /\ caller[c].id \in Nat /\ caller[c].id \in 0 .. Len(tasks)
  BY <1>1 DEF Inv, CallersKept, CallKept, TasksKept
<1>8. waiting' \in Seq(Nat) /\ \A i \in DOMAIN waiting' : waiting'[i] \in DOMAIN tasks
  BY <1>1, <1>7 DEF Inv, RunKept
<1>9. run.pc = "running" /\ run.worker = 0 => Done(run.id)'
  BY <1>1, <1>2 DEF Inv, RunKept, Done, Grows
<1>10. RunKept'
  BY <1>1, <1>7, <1>8, <1>9 DEF Inv, RunKept
<1> QED  BY <1>2, <1>3, <1>5, <1>6, <1>10 DEF Inv

-----------------------------------------------------------------------------
(* The coroutine of a task *)

\* A step that leaves tables, tasks and requests alone.
LEMMA QuietStep ==
  ASSUME ConstantsOK, Inv, UNCHANGED <<stored, filled, indicator, tasks, caller, restarts>>,
         fails' \in 0 .. MaxFailures
  PROVE  /\ Tables' /\ IndicatorPrefix' /\ IndicatorIsWarm' /\ Grows
         /\ TasksKept' /\ TasksGo /\ CallersKept'
<1>1. Tables' /\ IndicatorPrefix' /\ IndicatorIsWarm' /\ Grows
  BY ValuesStay DEF Inv, Tables
<1>2. TasksKept' /\ TasksGo
  BY <1>1, TasksStay DEF Inv
<1> QED  BY <1>1, <1>2, CallersStay DEF Inv

LEMMA RunBegins_keeps ==
  ASSUME ConstantsOK, Inv, RunBegins
  PROVE  Inv'
<1>a. PICK id : id = Head(waiting)
  OBVIOUS
<1>1. /\ UNCHANGED <<stored, filled, indicator, tasks, caller, restarts, active, fails>>
      /\ run.pc = "free" /\ waiting # <<>> /\ waiting' = Tail(waiting)
  BY DEF RunBegins, run_only
<1>2. \/ /\ tasks[id].step = "completed" /\ worker' = worker
         /\ run' = [NoRun EXCEPT !.pc = "running", !.id = id]
      \/ \E w \in Workers :
           /\ worker[w].pc = "free" /\ run' = [pc |-> "running", id |-> id, worker |-> w]
           /\ worker' = [worker EXCEPT ![w] = [NoWork EXCEPT !.pc = "mark", !.id = id]]
  BY <1>a DEF RunBegins
<1>3. /\ Tables' /\ IndicatorPrefix' /\ IndicatorIsWarm' /\ Grows
      /\ TasksKept' /\ TasksGo /\ CallersKept'
  BY <1>1, QuietStep DEF Inv, Tables
<1>4. /\ id \in DOMAIN tasks /\ id \in Nat
      /\ waiting' \in Seq(Nat) /\ \A i \in DOMAIN waiting' : waiting'[i] \in DOMAIN tasks
  <2>1. waiting \in Seq(Nat) /\ \A i \in DOMAIN waiting : waiting[i] \in DOMAIN tasks
    BY DEF Inv, RunKept
  <2>2. id = waiting[1] /\ 1 \in DOMAIN waiting
    BY <1>1, <1>a, <2>1
  <2> QED  BY <1>1, <2>1, <2>2
<1>5. CASE tasks[id].step = "completed" /\ worker' = worker
           /\ run' = [NoRun EXCEPT !.pc = "running", !.id = id]
  <2>1. run' = [pc |-> "running", id |-> id, worker |-> 0]
    BY <1>5 DEF NoRun
  <2>2. Done(id)'
    <3>1. TaskKept(id)
      BY <1>4 DEF Inv, TasksKept
    <3>2. Done(id)
      BY <1>5, <3>1 DEF TaskKept
    <3> QED  BY <1>3, <1>4, <3>2, DoneStays DEF TasksGo
  <2>3. RunKept'
    <3>1. Done(run.id)'
      BY <2>1, <2>2 DEF Done
    <3> QED  BY <1>1, <1>4, <2>1, <3>1 DEF Inv, RunKept
  <2>4. WorkersKept'
    BY <1>3, <1>5, WorkersStay DEF Inv
  <2> QED  BY <1>3, <2>3, <2>4 DEF Inv
<1>6. ASSUME NEW w \in Workers, worker[w].pc = "free",
             run' = [pc |-> "running", id |-> id, worker |-> w],
             worker' = [worker EXCEPT ![w] = [NoWork EXCEPT !.pc = "mark", !.id = id]]
      PROVE  Inv'
  <2>1. PICK k : k = [NoWork EXCEPT !.pc = "mark", !.id = id]
    OBVIOUS
  <2>2. k \in Work0 /\ k.pc = "mark" /\ k.id = id
    BY <1>4, <2>1 DEF NoWork, Work0
  <2>3. WorkKept(k)'
    BY <1>1, <1>4, <2>2 DEF WorkKept
  <2>4. worker' = [worker EXCEPT ![w] = k]
    BY <1>6, <2>1
  <2>5. WorkersKept' /\ \A v \in Workers : worker'[v] = IF v = w THEN k ELSE worker[v]
    BY <1>3, <2>3, <2>4, WorkerSet
  <2>6. RunKept'
    <3>1. w # 0
      BY SlotsAreNat
    <3> QED  BY <1>1, <1>4, <1>6, <2>2, <2>5, <3>1 DEF Inv, RunKept
  <2> QED  BY <1>3, <2>5, <2>6 DEF Inv
<1> QED  BY <1>2, <1>5, <1>6

\* Steps of the coroutine that touch neither tasks nor workers.
LEMMA RunSet ==
  ASSUME ConstantsOK, Inv, Grows, TasksGo, UNCHANGED <<waiting, worker>>,
         active' \in {0, active}, NEW r, run' = r,
         r \in [pc : {"free", "running", "ending", "raising"}, id : Nat, worker : Workers \cup {0}],
         r.pc # "running", r.worker = 0, r.pc # "free" => r.id \in DOMAIN tasks
  PROVE  RunKept' /\ WorkersKept'
<1>1. WorkersKept'
  BY WorkersStay DEF Inv
<1>2. active' \in 0 .. Len(tasks')
  BY DEF Inv, RunKept, TasksGo
<1>3. \A i \in DOMAIN waiting' : waiting'[i] \in DOMAIN tasks'
  BY DEF Inv, RunKept, TasksGo
<1>4. run'.pc # "free" => run'.id \in DOMAIN tasks'
  BY DEF TasksGo
<1>5. waiting' \in Seq(Nat)
  BY DEF Inv, RunKept
<1> QED  BY <1>1, <1>2, <1>3, <1>4, <1>5 DEF RunKept

LEMMA RunCompletes_keeps ==
  ASSUME ConstantsOK, Inv, RunCompletes
  PROVE  Inv'
<1>1. /\ run.pc = "running" /\ run.worker = 0
      /\ tasks' = [tasks EXCEPT ![run.id].status = "completed"]
      /\ run' = [run EXCEPT !.pc = "ending"]
      /\ UNCHANGED <<stored, filled, indicator, caller, restarts, active, waiting, worker, fails>>
  BY DEF RunCompletes, run_only
<1>2. Tables' /\ IndicatorPrefix' /\ IndicatorIsWarm' /\ Grows
  BY <1>1, ValuesStay DEF Inv, Tables
<1>3. PICK id : id = run.id
  OBVIOUS
<1>4. id \in DOMAIN tasks /\ Done(id) /\ tasks \in Seq(Task) /\ TaskKept(id)
  BY <1>1, <1>3 DEF Inv, RunKept, TasksKept
<1>5. /\ OnlyAt(tasks, tasks', id) /\ tasks'[id].status = "completed"
      /\ tasks'[id].step = tasks[id].step /\ tasks'[id].cursor = tasks[id].cursor
      /\ tasks'[id].asked = tasks[id].asked
  <2>1. tasks' = [tasks EXCEPT ![id].status = "completed"] /\ "completed" \in Status
    BY <1>1, <1>3 DEF Status
  <2> QED  BY <1>4, <2>1, StatusSet
<1>6. PICK x : x = tasks'[id]
  OBVIOUS
<1>7. TasksKept' /\ TasksGo
  <2>1. Solid(x.cursor)
    BY <1>4, <1>5, <1>6 DEF TaskKept
  <2> QED  BY <1>2, <1>4, <1>5, <1>6, <2>1, TaskSet
<1>8. CallersKept'
  BY <1>1, <1>2, <1>7, CallersStay DEF Inv
<1>9. PICK r : r = [run EXCEPT !.pc = "ending"]
  OBVIOUS
<1>10. /\ r \in [pc : {"free", "running", "ending", "raising"}, id : Nat, worker : Workers \cup {0}]
       /\ r.pc = "ending" /\ r.worker = 0 /\ r.id = id
  BY <1>1, <1>3, <1>9 DEF Inv, RunKept
<1>11. RunKept' /\ WorkersKept'
  BY <1>1, <1>2, <1>4, <1>7, <1>9, <1>10, RunSet
<1> QED  BY <1>2, <1>7, <1>8, <1>11 DEF Inv

LEMMA RunEnds_keeps ==
  ASSUME ConstantsOK, Inv, RunEnds
  PROVE  Inv'
<1>1. /\ run' = NoRun /\ active' = 0
      /\ UNCHANGED <<stored, filled, indicator, tasks, caller, restarts, waiting, worker, fails>>
  BY DEF RunEnds, Released, run_only
<1>2. /\ Tables' /\ IndicatorPrefix' /\ IndicatorIsWarm' /\ Grows
      /\ TasksKept' /\ TasksGo /\ CallersKept'
  BY <1>1, QuietStep DEF Inv, Tables
<1>3. RunKept' /\ WorkersKept'
  BY <1>1, <1>2, RunSet DEF NoRun
<1> QED  BY <1>2, <1>3 DEF Inv

LEMMA RunRaises_keeps ==
  ASSUME ConstantsOK, Inv, RunRaises
  PROVE  Inv'
<1>1. /\ run.pc \in {"running", "ending"} /\ fails < MaxFailures /\ fails' = fails + 1
      /\ run' = [run EXCEPT !.pc = "raising", !.worker = 0]
      /\ UNCHANGED <<stored, filled, indicator, tasks, caller, restarts, active, waiting, worker>>
  BY DEF RunRaises, run_only
<1>2. fails' \in 0 .. MaxFailures
  BY <1>1, SlotsAreNat DEF Inv, Tables
<1>3. /\ Tables' /\ IndicatorPrefix' /\ IndicatorIsWarm' /\ Grows
      /\ TasksKept' /\ TasksGo /\ CallersKept'
  BY <1>1, <1>2, QuietStep
<1>4. PICK r : r = [run EXCEPT !.pc = "raising", !.worker = 0]
  OBVIOUS
<1>5. /\ r \in [pc : {"free", "running", "ending", "raising"}, id : Nat, worker : Workers \cup {0}]
      /\ r.pc = "raising" /\ r.worker = 0 /\ r.id \in DOMAIN tasks
  BY <1>1, <1>4 DEF Inv, RunKept
<1>6. RunKept' /\ WorkersKept'
  BY <1>1, <1>3, <1>4, <1>5, RunSet
<1> QED  BY <1>3, <1>6 DEF Inv

LEMMA RunRecords_keeps ==
  ASSUME ConstantsOK, Inv, RunRecords
  PROVE  Inv'
<1>1. /\ run.pc = "raising" /\ run' = NoRun /\ active' = 0
      /\ UNCHANGED <<stored, filled, indicator, caller, restarts, waiting, worker>>
      /\ \/ tasks' = [tasks EXCEPT ![run.id].status = "error"] /\ fails' = fails
         \/ fails < MaxFailures /\ fails' = fails + 1 /\ tasks' = tasks
  BY DEF RunRecords, Released, run_only
<1>2. fails' \in 0 .. MaxFailures
  BY <1>1, SlotsAreNat DEF Inv, Tables
<1>3. Tables' /\ IndicatorPrefix' /\ IndicatorIsWarm' /\ Grows
  BY <1>1, <1>2, ValuesStay DEF Inv, Tables
<1>4. TasksKept' /\ TasksGo
  <2>1. CASE tasks' = tasks
    BY <1>3, <2>1, TasksStay DEF Inv
  <2>2. CASE tasks' = [tasks EXCEPT ![run.id].status = "error"]
    <3>1. PICK id : id = run.id
      OBVIOUS
    <3>2. id \in DOMAIN tasks /\ tasks \in Seq(Task) /\ TaskKept(id)
      BY <1>1, <3>1 DEF Inv, RunKept, TasksKept
    <3>3. /\ OnlyAt(tasks, tasks', id) /\ tasks'[id].status = "error"
          /\ tasks'[id].step = tasks[id].step /\ tasks'[id].cursor = tasks[id].cursor
          /\ tasks'[id].asked = tasks[id].asked
      <4>1. tasks' = [tasks EXCEPT ![id].status = "error"] /\ "error" \in Status
        BY <2>2, <3>1 DEF Status
      <4> QED  BY <3>2, <4>1, StatusSet
    <3>4. PICK x : x = tasks'[id]
      OBVIOUS
    <3>5. Solid(x.cursor) /\ (x.step = "completed" => Done(id)) /\ x.status # "completed"
      BY <3>2, <3>3, <3>4 DEF TaskKept
    <3> QED  BY <1>3, <3>2, <3>3, <3>4, <3>5, TaskSet
  <2> QED  BY <1>1, <2>1, <2>2
<1>5. CallersKept'
  BY <1>1, <1>3, <1>4, CallersStay DEF Inv
<1>6. RunKept' /\ WorkersKept'
  BY <1>1, <1>3, <1>4, RunSet DEF NoRun
<1> QED  BY <1>3, <1>4, <1>5, <1>6 DEF Inv

-----------------------------------------------------------------------------
(* A worker *)

\* A step of a worker that stays at work on its task.
LEMMA WorkGoesOn ==
  ASSUME ConstantsOK, Inv, Grows, TasksGo, NEW w \in Workers, NEW k, WorkKept(k)',
         worker[w].pc # "free", worker' = [worker EXCEPT ![w] = k],
         k.pc # "free", k.id = worker[w].id, UNCHANGED <<run, active, waiting>>
  PROVE  WorkersKept' /\ RunKept'
<1>1. WorkersKept' /\ \A v \in Workers : worker'[v] = IF v = w THEN k ELSE worker[v]
  BY WorkerSet
<1>2. \A v \in Workers : worker[v].pc # "free" => worker'[v].pc # "free" /\ worker'[v].id = worker[v].id
  BY <1>1
<1> QED  BY <1>1, <1>2, RunStays DEF Inv

LEMMA WorkerMarks_keeps ==
  ASSUME ConstantsOK, Inv, NEW w \in Workers, WorkerMarks(w)
  PROVE  Inv'
<1>1. /\ worker[w].pc = "mark" /\ tasks' = [tasks EXCEPT ![worker[w].id].step = "running"]
      /\ worker' = [worker EXCEPT ![w].pc = "read"]
      /\ UNCHANGED <<stored, filled, indicator, caller, restarts, active, waiting, run, fails>>
  BY DEF WorkerMarks, work_only
<1>2. Tables' /\ IndicatorPrefix' /\ IndicatorIsWarm' /\ Grows
  BY <1>1, ValuesStay DEF Inv, Tables
<1>3. PICK id : id = worker[w].id
  OBVIOUS
<1>4. id \in DOMAIN tasks /\ tasks \in Seq(Task) /\ TaskKept(id)
  BY <1>1, <1>3 DEF Inv, WorkersKept, WorkKept, TasksKept
<1>5. TasksKept' /\ TasksGo
  <2>1. tasks' = [tasks EXCEPT ![id].step = "running"] /\ "running" \in Steps
    BY <1>1, <1>3 DEF Steps
  <2>2. /\ OnlyAt(tasks, tasks', id) /\ tasks'[id].step = "running"
        /\ tasks'[id].status = tasks[id].status /\ tasks'[id].cursor = tasks[id].cursor
        /\ tasks'[id].asked = tasks[id].asked
    BY <1>4, <2>1, StepSet
  <2>3. PICK x : x = tasks'[id]
    OBVIOUS
  <2>4. Solid(x.cursor) /\ (x.status = "completed" => Done(id)) /\ x.step # "completed"
    BY <1>4, <2>2, <2>3 DEF TaskKept
  <2> QED  BY <1>2, <1>4, <2>2, <2>3, <2>4, TaskSet
<1>6. CallersKept'
  BY <1>1, <1>2, <1>5, CallersStay DEF Inv
<1>7. PICK k : k = [worker[w] EXCEPT !.pc = "read"]
  OBVIOUS
<1>8. k \in Work0 /\ k.pc = "read" /\ k.id = id
  BY <1>3, <1>7 DEF Inv, WorkersKept, Work0
<1>9. WorkKept(k)'
  BY <1>4, <1>5, <1>8 DEF WorkKept, TasksGo
<1>10. worker' = [worker EXCEPT ![w] = k]
  BY <1>1, <1>7
<1>11. WorkersKept' /\ RunKept'
  BY <1>1, <1>2, <1>3, <1>5, <1>8, <1>9, <1>10, WorkGoesOn
<1> QED  BY <1>2, <1>5, <1>6, <1>11 DEF Inv

\* Nothing left to read from the cursor of a task: what it was created for is computed.
LEMMA NothingLeft ==
  ASSUME Tables, NEW id, NEW c, Solid(c), tasks[id].asked \subseteq stored,
         \A t \in tasks[id].asked : t \in Slots /\ (t >= c => t \in Computed)
  PROVE  ConstantsOK => Done(id)
<1> SUFFICES ASSUME ConstantsOK, NEW t \in tasks[id].asked, t \notin filled PROVE t \in Computed
  BY DEF Done
<1>1. t \in Nat /\ c \in Nat /\ t \in stored
  BY SlotsAreNat DEF Solid
<1>2. t < c \/ t >= c
  BY <1>1
<1> QED  BY <1>1, <1>2 DEF Solid

LEMMA WorkerReads_keeps ==
  ASSUME ConstantsOK, Inv, NEW w \in Workers, WorkerReads(w)
  PROVE  Inv'
<1>a. PICK id : id = worker[w].id
  OBVIOUS
<1>b. PICK c : c = tasks[id].cursor
  OBVIOUS
<1>c. PICK rows : rows = list_candles_from(c)
  OBVIOUS
<1> DEFINE some == \E t \in rows : t >= c
<1>d. PICK k : k = [worker[w] EXCEPT !.pc = IF some THEN "upsert" ELSE "complete",
                                     !.cursor = IF some THEN c ELSE 0,
                                     !.rows = IF some THEN rows ELSE {}]
  OBVIOUS
<1>1. /\ worker[w].pc = "read" /\ worker' = [worker EXCEPT ![w] = k]
      /\ UNCHANGED <<stored, filled, indicator, tasks, caller, restarts, active, waiting, run, fails>>
  BY <1>a, <1>b, <1>c, <1>d DEF WorkerReads, work_only
<1>2. /\ Tables' /\ IndicatorPrefix' /\ IndicatorIsWarm' /\ Grows
      /\ TasksKept' /\ TasksGo /\ CallersKept'
  BY <1>1, QuietStep DEF Inv, Tables
<1>3. id \in DOMAIN tasks /\ TaskKept(id) /\ Tables /\ worker[w] \in Work0
  BY <1>1, <1>a DEF Inv, WorkersKept, WorkKept, TasksKept
<1>4. Solid(c) /\ c \in Nat /\ tasks[id].asked \subseteq stored
  BY <1>3, <1>b DEF TaskKept, Solid
<1>5. /\ ReadWhole(rows, c) /\ rows \in SUBSET Slots
      /\ Cardinality({t \in rows : t >= c}) < Batch => \A t \in stored : t >= c => t \in rows
  BY <1>3, <1>4, <1>c, ReadRows
<1>6. CASE some
  <2>1. k \in Work0 /\ k.pc = "upsert" /\ k.id = id /\ k.cursor = c /\ k.rows = rows
    BY <1>3, <1>4, <1>5, <1>6, <1>a, <1>d DEF Work0
  <2>2. Holds(k)
    BY <1>4, <1>5, <1>6, <2>1 DEF Holds
  <2>3. WorkKept(k)
    BY <1>3, <2>1, <2>2 DEF WorkKept
  <2>4. WorkKept(k)'
    BY <1>2, <2>3, WorkStays DEF Inv
  <2>5. WorkersKept' /\ RunKept'
    BY <1>1, <1>2, <1>a, <2>1, <2>4, WorkGoesOn
  <2> QED  BY <1>2, <2>5 DEF Inv
<1>7. CASE ~ some
  <2>1. k \in Work0 /\ k.pc = "complete" /\ k.id = id
    BY <1>3, <1>4, <1>5, <1>7, <1>a, <1>d DEF Work0
  <2>2. Done(id)
    <3>1. {t \in rows : t >= c} = {} /\ Cardinality({}) = 0
      BY <1>7, FS_EmptySet
    <3>2. \A t \in stored : ~ (t >= c)
      BY <1>5, <1>7, <3>1, SlotsAreNat
    <3> QED  BY <1>3, <1>4, <3>2, NothingLeft DEF Tables
  <2>3. WorkKept(k)
    BY <1>3, <2>1, <2>2 DEF WorkKept
  <2>4. WorkKept(k)'
    BY <1>2, <2>3, WorkStays DEF Inv
  <2>5. WorkersKept' /\ RunKept'
    BY <1>1, <1>2, <1>a, <2>1, <2>4, WorkGoesOn
  <2> QED  BY <1>2, <2>5 DEF Inv
<1> QED  BY <1>6, <1>7

\* The cursor behind the last value of a batch.
LEMMA WorkerMoves_keeps ==
  ASSUME ConstantsOK, Inv, NEW w \in Workers, WorkerMoves(w)
  PROVE  Inv'
<1>a. PICK d : d = worker[w]
  OBVIOUS
<1>b. PICK id : id = d.id
  OBVIOUS
<1>c. PICK T : T = {t \in d.rows : t >= d.cursor}
  OBVIOUS
<1>d. PICK n : n = MaxOf(T) + 1
  OBVIOUS
<1>e. PICK k : k = [NoWork EXCEPT !.id = id,
                                  !.pc = IF Cardinality(T) < Batch THEN "complete" ELSE "read"]
  OBVIOUS
<1>1. /\ d.pc = "move" /\ worker' = [worker EXCEPT ![w] = k]
      /\ tasks' = [tasks EXCEPT ![id].cursor = n, ![id].inserted = TRUE]
      /\ UNCHANGED <<stored, filled, indicator, caller, restarts, active, waiting, run, fails>>
  BY <1>a, <1>b, <1>c, <1>d, <1>e DEF WorkerMoves, work_only, Targets, NextCursor
<1>2. Tables' /\ IndicatorPrefix' /\ IndicatorIsWarm' /\ Grows
  BY <1>1, ValuesStay DEF Inv, Tables
<1>3. d \in Work0 /\ Holds(d) /\ id \in DOMAIN tasks /\ tasks \in Seq(Task) /\ TaskKept(id) /\ Tables
  BY <1>1, <1>a, <1>b DEF Inv, WorkersKept, WorkKept, TasksKept
<1>4. /\ T \in SUBSET Slots /\ T \subseteq Computed /\ T \subseteq d.rows /\ T # {}
      /\ d.cursor \in Nat
      /\ \A t \in d.rows : t >= d.cursor => t \in T
      /\ Cardinality(T) < Batch => \A t \in tasks[id].asked : t >= d.cursor => t \in T
  BY <1>1, <1>3, <1>b, <1>c DEF Holds, Work0
<1>5. PICK m : m = MaxOf(T)
  OBVIOUS
<1>6. /\ m \in T /\ m \in Nat /\ m >= d.cursor /\ m \in stored /\ n = m + 1 /\ n \in Nat
      /\ stored \subseteq Nat /\ \A t \in T : t <= m
  <2>1. m \in T /\ \A t \in T : t <= m
    BY <1>4, <1>5, SlotSets
  <2>2. m \in Slots /\ m \in Nat /\ stored \subseteq Nat
    BY <1>3, <1>4, <2>1, SlotsAreNat DEF Tables
  <2>3. m >= d.cursor /\ m \in stored
    BY <1>3, <1>4, <1>c, <2>1 DEF Tables
  <2>4. n = m + 1 /\ n \in Nat
    BY <1>5, <1>d, <2>2
  <2> QED  BY <2>1, <2>2, <2>3, <2>4
<1>7. Solid(n)
  <2>1. ASSUME NEW t \in stored \ filled, t < n PROVE t \in Computed
    <3>0. t \in Nat /\ m \in Nat /\ d.cursor \in Nat /\ t < m + 1
      BY <1>4, <1>6, <2>1
    <3>1. t \in Nat /\ t <= m /\ (t < d.cursor \/ t >= d.cursor)
      BY <3>0
    <3>2. CASE t < d.cursor
      BY <1>3, <3>2 DEF Holds, Solid
    <3>3. CASE t >= d.cursor
      <4>1. d.cursor - Warmup <= t
        BY <1>4, <3>1, <3>3, SlotsAreNat
      <4>2. t \in d.rows
        BY <1>3, <1>4, <1>6, <3>1, <4>1 DEF Holds, ReadWhole
      <4> QED  BY <1>4, <3>3, <4>2
    <3> QED  BY <3>1, <3>2, <3>3
  <2>2. n <= m + 1
    BY <1>6
  <2> QED  BY <1>6, <2>1, <2>2 DEF Solid
<1>8. TasksKept' /\ TasksGo
  <2>1. /\ OnlyAt(tasks, tasks', id) /\ tasks'[id].cursor = n
        /\ tasks'[id].status = tasks[id].status /\ tasks'[id].step = tasks[id].step
        /\ tasks'[id].asked = tasks[id].asked
    BY <1>1, <1>3, <1>6, CursorSet
  <2>2. PICK x : x = tasks'[id]
    OBVIOUS
  <2>3. /\ Solid(x.cursor) /\ x.asked = tasks[id].asked
        /\ (x.status = "completed" => Done(id)) /\ (x.step = "completed" => Done(id))
    BY <1>3, <1>7, <2>1, <2>2 DEF TaskKept
  <2> QED  BY <1>2, <1>3, <2>1, <2>2, <2>3, TaskSet
<1>9. CallersKept'
  BY <1>1, <1>2, <1>8, CallersStay DEF Inv
<1>10. k.id = id /\ k \in Work0 /\ k.pc = IF Cardinality(T) < Batch THEN "complete" ELSE "read"
  BY <1>3, <1>b, <1>e DEF NoWork, Work0
<1>11. Cardinality(T) < Batch => Done(id)
  BY <1>3, <1>4, NothingLeft DEF Tables, TaskKept, Holds
<1>12. WorkKept(k)'
  <2>1. WorkKept(k)
    BY <1>3, <1>10, <1>11 DEF WorkKept
  <2> QED  BY <1>2, <1>8, <2>1, WorkStays DEF Inv
<1>13. WorkersKept' /\ RunKept'
  BY <1>1, <1>2, <1>8, <1>10, <1>12, <1>a, <1>b, WorkGoesOn
<1> QED  BY <1>2, <1>8, <1>9, <1>13 DEF Inv

\* The run of neighbouring rows that ends with a candle, and what is before it.
LEMMA SegmentOf ==
  ASSUME ConstantsOK, NEW R \in SUBSET Slots, NEW t \in R, NEW x,
         x = calculate_indicator_segments(R, t)
  PROVE  x \in R /\ x \in Nat /\ x <= t /\ (x - 1 \notin R \/ x = 0)
<1> DEFINE S == {s \in R : s <= t /\ s .. t \subseteq R}
<1>1. R \subseteq Nat /\ t \in Nat
  BY SlotsAreNat
<1>2. t \in S
  <2>1. t .. t = {t}
    BY <1>1
  <2> QED  BY <1>1, <2>1
<1>3. S \in SUBSET Slots /\ S # {}
  BY <1>2
<1>4. x = MinOf(S)
  BY DEF calculate_indicator_segments
<1>5. x \in S /\ \A y \in S : x <= y
  BY <1>3, <1>4, SlotSets
<1>6. x \in R /\ x \in Nat /\ x <= t /\ x .. t \subseteq R
  BY <1>1, <1>5
<1>7. ASSUME x - 1 \in R, x # 0 PROVE FALSE
  <2>1. x - 1 \in Nat /\ x - 1 <= t
    BY <1>1, <1>6, <1>7
  <2>2. (x - 1) .. t \subseteq R
    <3> SUFFICES ASSUME NEW y \in (x - 1) .. t PROVE y \in R
      OBVIOUS
    <3>1. y = x - 1 \/ y \in x .. t
      BY <1>1, <1>6
    <3> QED  BY <1>6, <1>7, <3>1
  <2>3. x - 1 \in S
    BY <1>7, <2>1, <2>2
  <2> HIDE DEF S
  <2>4. x <= x - 1
    BY <1>5, <2>3
  <2> QED  BY <1>6, <2>4
<1> QED  BY <1>6, <1>7

LEMMA upsert_keeps ==
  ASSUME ConstantsOK, Inv, NEW w \in Workers, upsert_indicator_snapshots(w)
  PROVE  Inv'
<1>a. PICK d : d = worker[w]
  OBVIOUS
<1>b. PICK T : T = {t \in d.rows : t >= d.cursor}
  OBVIOUS
<1>c. PICK k : k = [d EXCEPT !.pc = "move"]
  OBVIOUS
<1>1. /\ d.pc = "upsert" /\ worker' = [worker EXCEPT ![w] = k]
      /\ indicator' = [t \in Slots |-> IF t \in T THEN calculate_indicator_segments(d.rows, t)
                                                 ELSE indicator[t]]
      /\ UNCHANGED <<stored, filled, tasks, caller, restarts, active, waiting, run, fails>>
  BY <1>a, <1>b, <1>c DEF upsert_indicator_snapshots, work_only, Targets
<1>2. d \in Work0 /\ Holds(d) /\ d.id \in DOMAIN tasks /\ Tables
  BY <1>1, <1>a DEF Inv, WorkersKept, WorkKept
<1>3. /\ d.rows \in SUBSET Slots /\ d.rows \subseteq stored /\ T \subseteq d.rows
      /\ \A t \in T : t >= d.cursor
      /\ \A t \in d.rows : t >= d.cursor => t \in T
      /\ stored \subseteq Slots /\ Slots \subseteq Nat /\ d.cursor \in Nat /\ Warmup \in Nat
  BY <1>2, <1>b, SlotsAreNat DEF Holds, ReadWhole, Work0, Tables
<1>4. ASSUME NEW t \in T
      PROVE  /\ indicator'[t] \in d.rows /\ indicator'[t] \in Nat /\ indicator'[t] <= t
             /\ indicator'[t] - 1 \notin d.rows \/ indicator'[t] = 0
  <2>1. PICK x : x = calculate_indicator_segments(d.rows, t)
    OBVIOUS
  <2>2. indicator'[t] = x
    <3>1. t \in Slots
      BY <1>3
    <3>2. indicator'[t] = IF t \in T THEN calculate_indicator_segments(d.rows, t) ELSE indicator[t]
      BY <1>1, <3>1
    <3> QED  BY <1>4, <2>1, <3>2
  <2>3. x \in d.rows /\ x \in Nat /\ x <= t /\ (x - 1 \notin d.rows \/ x = 0)
    <3>1. PICK R : R = d.rows
      OBVIOUS
    <3>2. R \in SUBSET Slots /\ t \in R
      BY <1>3, <3>1
    <3>3. x = calculate_indicator_segments(R, t)
      BY <2>1, <3>1
    <3>4. x \in R /\ x \in Nat /\ x <= t /\ (x - 1 \notin R \/ x = 0)
      BY <3>2, <3>3, SegmentOf
    <3> QED  BY <3>1, <3>4
  <2> QED  BY <2>2, <2>3
<1>5. \A t \in Slots : t \notin T => indicator'[t] = indicator[t]
  BY <1>1
<1>6. Computed' = Computed \cup T
  <2>1. \A t \in T : indicator'[t] # -1 /\ t \in Slots
    <3> SUFFICES ASSUME NEW t \in T PROVE indicator'[t] # -1 /\ t \in Slots
      OBVIOUS
    <3>1. indicator'[t] \in Nat
      BY <1>4
    <3> QED  BY <1>3, <3>1
  <2> QED  BY <1>5, <2>1 DEF Computed
<1>7. Tables'
  <2>1. \A t \in Computed' : indicator'[t] \in stored
    BY <1>2, <1>3, <1>4, <1>5, <1>6 DEF Tables
  <2>2. indicator' \in [Slots -> Slots \cup {-1}]
    <3>1. \A t \in Slots : indicator'[t] \in Slots \cup {-1}
      BY <1>2, <1>3, <1>4, <1>5 DEF Tables
    <3> QED  BY <1>1, <3>1
  <2> QED  BY <1>1, <1>2, <1>3, <1>6, <2>1, <2>2 DEF Tables
<1>8. Grows
  BY <1>1, <1>3, <1>6 DEF Grows
<1>9. IndicatorPrefix'
  <2> SUFFICES ASSUME NEW t \in stored \ filled, NEW u \in Computed', t < u
               PROVE  t \in Computed'
    BY <1>1 DEF IndicatorPrefix
  <2>1. CASE u \in Computed
    BY <1>6, <2>1 DEF Inv, IndicatorPrefix
  <2>2. CASE u \in T
    <3>1. t \in Nat /\ u \in Nat /\ u \in d.rows
      BY <1>3, <2>2
    <3>2. CASE t < d.cursor
      BY <1>2, <1>6, <3>2 DEF Holds, Solid
    <3>3. CASE t >= d.cursor
      <4>1. d.cursor - Warmup <= t /\ t <= u
        BY <1>3, <3>1, <3>3
      <4>2. t \in d.rows
        BY <1>2, <3>1, <4>1 DEF Holds, ReadWhole
      <4> QED  BY <1>3, <1>6, <3>3, <4>2
    <3> QED  BY <1>3, <3>1, <3>2, <3>3
  <2> QED  BY <1>6, <2>1, <2>2
<1>10. IndicatorIsWarm'
  <2> SUFFICES ASSUME NEW t \in Computed'
               PROVE  \/ t - indicator'[t] >= Warmup \/ indicator'[t] = 0
                      \/ indicator'[t] - 1 \notin stored \ filled
    BY <1>1 DEF IndicatorIsWarm
  <2>1. CASE t \in T
    <3>1. PICK x : x = indicator'[t]
      OBVIOUS
    <3>2. x \in Nat /\ x <= t /\ (x - 1 \notin d.rows \/ x = 0) /\ t \in Nat /\ t >= d.cursor /\ t \in d.rows
      BY <1>3, <1>4, <2>1, <3>1
    <3>3. ASSUME t - x < Warmup, x # 0, x - 1 \in stored \ filled PROVE FALSE
      <4>1. d.cursor - Warmup <= x - 1 /\ x - 1 <= t
        BY <1>3, <3>2, <3>3
      <4>2. x - 1 \in d.rows
        BY <1>2, <3>2, <3>3, <4>1 DEF Holds, ReadWhole
      <4> QED  BY <3>2, <3>3, <4>2
    <3>4. t - x < Warmup \/ t - x >= Warmup
      BY <1>3, <3>2
    <3> QED  BY <3>1, <3>3, <3>4
  <2>2. CASE t \notin T
    <3>1. t \in Computed /\ indicator'[t] = indicator[t]
      BY <1>5, <1>6, <2>2 DEF Computed
    <3> QED  BY <3>1 DEF Inv, IndicatorIsWarm
  <2> QED  BY <2>1, <2>2
<1>11. TasksKept' /\ TasksGo
  BY <1>1, <1>2, <1>8, TasksStay DEF Inv
<1>12. CallersKept'
  BY <1>1, <1>2, <1>8, <1>11, CallersStay DEF Inv
<1>13. k \in Work0 /\ k.pc = "move" /\ k.id = d.id /\ k.cursor = d.cursor /\ k.rows = d.rows
  BY <1>2, <1>c DEF Work0
<1>14. Holds(k)'
  <2>1. Holds(d)'
    BY <1>2, <1>8, <1>11, HoldsStay DEF TasksGo
  <2>2. {t \in k.rows : t >= k.cursor} \subseteq Computed'
    BY <1>6, <1>b, <1>13
  <2> QED  BY <1>13, <2>1, <2>2 DEF Holds
<1>15. WorkKept(k)'
  BY <1>2, <1>11, <1>13, <1>14 DEF WorkKept, TasksGo
<1>16. WorkersKept' /\ RunKept'
  BY <1>1, <1>8, <1>11, <1>13, <1>15, <1>a, WorkGoesOn
<1> QED  BY <1>7, <1>9, <1>10, <1>11, <1>12, <1>16 DEF Inv

\* What the coroutine learns when its worker ends.
LeftBy(w) == \/ run.worker # w /\ run' = run
             \/ run.worker = w /\ run' = [run EXCEPT !.pc = "raising", !.worker = 0]
             \/ run.worker = w /\ run' = [run EXCEPT !.worker = 0] /\ Done(run.id)'

\* A worker ends: with its step completed, or failed by the database.
LEMMA WorkEnds ==
  ASSUME ConstantsOK, Inv, Grows, TasksGo, NEW w \in Workers,
         worker' = [worker EXCEPT ![w] = NoWork], UNCHANGED <<active, waiting>>, LeftBy(w)
  PROVE  WorkersKept' /\ RunKept'
<1>1. NoWork \in Work0 /\ NoWork.pc = "free"
  BY DEF NoWork, Work0
<1>2. WorkKept(NoWork)'
  BY <1>1 DEF WorkKept
<1> HIDE DEF NoWork
<1>3. WorkersKept' /\ \A v \in Workers : worker'[v] = IF v = w THEN NoWork ELSE worker[v]
  BY <1>2, WorkerSet
<1>4. RunKept
  BY DEF Inv
<1>5. /\ active' \in 0 .. Len(tasks') /\ waiting' \in Seq(Nat)
      /\ \A i \in DOMAIN waiting' : waiting'[i] \in DOMAIN tasks'
  BY <1>4 DEF RunKept, TasksGo
<1>6. CASE run.worker # w /\ run' = run
  <2>1. run.worker # 0 => worker'[run.worker].pc # "free" /\ worker'[run.worker].id = run.id
    BY <1>3, <1>4, <1>6 DEF RunKept
  <2>2. run.pc # "free" => run.id \in DOMAIN tasks' /\ tasks'[run.id].asked = tasks[run.id].asked
    BY <1>4 DEF RunKept, TasksGo
  <2>3. run.pc = "running" /\ run.worker = 0 => Done(run.id)'
    BY <1>4, <1>6, <2>2, DoneStays DEF RunKept, Done
  <2> QED  BY <1>3, <1>4, <1>5, <1>6, <2>1, <2>2, <2>3 DEF RunKept
<1>7. CASE run.worker = w
  <2>1. w # 0 /\ run.pc = "running" /\ run.id \in DOMAIN tasks'
    BY <1>4, <1>7, SlotsAreNat DEF RunKept, TasksGo
  <2>2. CASE run' = [run EXCEPT !.pc = "raising", !.worker = 0]
    BY <1>3, <1>4, <1>5, <2>1, <2>2 DEF RunKept
  <2>3. CASE run' = [run EXCEPT !.worker = 0] /\ Done(run.id)'
    <3>1. run'.id = run.id /\ run'.pc = "running" /\ run'.worker = 0
      BY <1>4, <2>1, <2>3 DEF RunKept
    <3>2. run' \in [pc : {"free", "running", "ending", "raising"}, id : Nat, worker : Workers \cup {0}]
      BY <1>4, <2>3 DEF RunKept
    <3> QED  BY <1>3, <1>5, <2>1, <2>3, <3>1, <3>2 DEF RunKept
  <2> QED  BY <1>7, <2>1, <2>2, <2>3 DEF LeftBy
<1> QED  BY <1>6, <1>7 DEF LeftBy

LEMMA WorkerCompletes_keeps ==
  ASSUME ConstantsOK, Inv, NEW w \in Workers, WorkerCompletes(w)
  PROVE  Inv'
<1>1. /\ worker[w].pc = "complete" /\ tasks' = [tasks EXCEPT ![worker[w].id].step = "completed"]
      /\ worker' = [worker EXCEPT ![w] = NoWork]
      /\ run' = IF run.worker = w THEN [run EXCEPT !.worker = 0] ELSE run
      /\ UNCHANGED <<stored, filled, indicator, caller, restarts, active, waiting, fails>>
  BY DEF WorkerCompletes, work_only
<1>2. Tables' /\ IndicatorPrefix' /\ IndicatorIsWarm' /\ Grows
  BY <1>1, ValuesStay DEF Inv, Tables
<1>3. PICK id : id = worker[w].id
  OBVIOUS
<1>4. id \in DOMAIN tasks /\ tasks \in Seq(Task) /\ TaskKept(id) /\ Done(id)
  BY <1>1, <1>3 DEF Inv, WorkersKept, WorkKept, TasksKept
<1>5. TasksKept' /\ TasksGo
  <2>1. tasks' = [tasks EXCEPT ![id].step = "completed"] /\ "completed" \in Steps
    BY <1>1, <1>3 DEF Steps
  <2>2. /\ OnlyAt(tasks, tasks', id) /\ tasks'[id].step = "completed"
        /\ tasks'[id].status = tasks[id].status /\ tasks'[id].cursor = tasks[id].cursor
        /\ tasks'[id].asked = tasks[id].asked
    BY <1>4, <2>1, StepSet
  <2>3. PICK x : x = tasks'[id]
    OBVIOUS
  <2>4. Solid(x.cursor)
    BY <1>4, <2>2, <2>3 DEF TaskKept
  <2> QED  BY <1>2, <1>4, <2>2, <2>3, <2>4, TaskSet
<1>6. CallersKept'
  BY <1>1, <1>2, <1>5, CallersStay DEF Inv
<1>7. Done(id)'
  BY <1>2, <1>4, <1>5, DoneStays DEF TasksGo
<1>8. run.worker = w => run.id = id
  BY <1>3, SlotsAreNat DEF Inv, RunKept
<1>9. LeftBy(w)
  <2>1. run.worker = w => run'.id = run.id /\ run' = [run EXCEPT !.worker = 0]
    BY <1>1 DEF Inv, RunKept
  <2> QED  BY <1>1, <1>7, <1>8, <2>1 DEF Done, LeftBy
<1>10. WorkersKept' /\ RunKept'
  BY <1>1, <1>2, <1>5, <1>9, WorkEnds
<1> QED  BY <1>2, <1>5, <1>6, <1>10 DEF Inv

LEMMA WorkerFails_keeps ==
  ASSUME ConstantsOK, Inv, NEW w \in Workers, WorkerFails(w)
  PROVE  Inv'
<1>1. /\ fails < MaxFailures /\ fails' = fails + 1 /\ worker' = [worker EXCEPT ![w] = NoWork]
      /\ run' = IF run.worker = w THEN [run EXCEPT !.pc = "raising", !.worker = 0] ELSE run
      /\ UNCHANGED <<stored, filled, indicator, tasks, caller, restarts, active, waiting>>
  BY DEF WorkerFails, work_only
<1>2. fails' \in 0 .. MaxFailures
  BY <1>1, SlotsAreNat DEF Inv, Tables
<1>3. /\ Tables' /\ IndicatorPrefix' /\ IndicatorIsWarm' /\ Grows
      /\ TasksKept' /\ TasksGo /\ CallersKept'
  BY <1>1, <1>2, QuietStep
<1>4. LeftBy(w)
  BY <1>1 DEF LeftBy
<1>5. UNCHANGED <<active, waiting>> /\ worker' = [worker EXCEPT ![w] = NoWork]
  BY <1>1
<1>6. WorkersKept' /\ RunKept'
  BY <1>3, <1>4, <1>5, WorkEnds
<1> QED  BY <1>3, <1>6 DEF Inv

-----------------------------------------------------------------------------
(* The rest of the program *)

LEMMA CandleStored_keeps ==
  ASSUME ConstantsOK, Inv, CandleStored
  PROVE  Inv'
<1>1. PICK x \in Slots \ stored :
        /\ stored' = stored \cup {x}
        /\ filled' = IF \E u \in stored : u > x THEN filled \cup {x} ELSE filled
  BY DEF CandleStored
<1>2. UNCHANGED <<indicator, tasks, caller, active, waiting, run, worker, fails, restarts>>
  BY DEF CandleStored
<1>3. Computed' = Computed /\ Tables
  BY <1>2 DEF Computed, Inv
<1>4. x \in filled' \/ \A u \in stored : u < x
  <2>1. CASE \E u \in stored : u > x
    BY <1>1, <2>1
  <2>2. CASE ~ \E u \in stored : u > x
    <3>1. x \in Nat /\ \A u \in stored : u \in Nat /\ u # x
      BY <1>1, <1>3, SlotsAreNat DEF Tables
    <3> QED  BY <2>2, <3>1
  <2> QED  BY <2>1, <2>2
<1>5. Grows
  BY <1>1, <1>3, <1>4 DEF Grows, Tables
<1>6. Tables'
  BY <1>1, <1>2, <1>3 DEF Tables
<1>7. IndicatorPrefix'
  <2> SUFFICES ASSUME NEW t \in stored' \ filled', NEW u \in Computed, t < u
               PROVE  t \in Computed
    BY <1>3 DEF IndicatorPrefix
  <2>1. CASE t = x
    <3>1. u \in stored /\ u < t
      BY <1>3, <1>4, <2>1 DEF Tables
    <3>2. u \in Nat /\ t \in Nat
      BY <1>1, <1>3, <2>1, <3>1, SlotsAreNat DEF Tables
    <3> QED  BY <3>1, <3>2
  <2>2. CASE t # x
    BY <1>1, <2>2, <1>5 DEF Inv, IndicatorPrefix, Grows
  <2> QED  BY <2>1, <2>2
<1>8. IndicatorIsWarm'
  <2> SUFFICES ASSUME NEW t \in Computed
               PROVE  \/ t - indicator[t] >= Warmup \/ indicator[t] = 0
                      \/ indicator[t] - 1 \notin stored' \ filled'
    BY <1>2, <1>3 DEF IndicatorIsWarm
  <2>1. indicator[t] \in stored /\ indicator[t] \in Nat
    BY <1>3, SlotsAreNat DEF Tables
  <2>2. indicator[t] - 1 \in stored' \ filled' => indicator[t] - 1 \in stored \ filled
    <3> SUFFICES ASSUME indicator[t] - 1 \in stored' \ filled' PROVE indicator[t] - 1 \in stored \ filled
      OBVIOUS
    <3>1. CASE indicator[t] - 1 = x
      <4>1. indicator[t] < x /\ x \in Nat
        BY <1>1, <1>4, <2>1, <3>1, SlotsAreNat
      <4> QED  BY <2>1, <3>1, <4>1
    <3>2. CASE indicator[t] - 1 # x
      BY <1>1, <1>5, <3>2 DEF Grows
    <3> QED  BY <3>1, <3>2
  <2> QED  BY <2>2 DEF Inv, IndicatorIsWarm
<1>9. TasksKept' /\ TasksGo
  BY <1>2, <1>3, <1>5, TasksStay DEF Inv
<1>10. CallersKept' /\ WorkersKept'
  BY <1>2, <1>3, <1>5, <1>9, CallersStay, WorkersStay DEF Inv
<1>11. RunKept'
  BY <1>2, <1>5, <1>9, RunStays DEF Inv
<1> QED  BY <1>6, <1>7, <1>8, <1>9, <1>10, <1>11 DEF Inv

\* Callers, workers and the coroutine as the program starts.
LEMMA FreshStart ==
  ASSUME Solid(0)', Len(tasks') \in Nat, caller' = [c \in Callers |-> NoCall],
         active' = 0, waiting' = <<>>, run' = NoRun, worker' = [w \in Workers |-> NoWork]
  PROVE  CallersKept' /\ WorkersKept' /\ RunKept'
<1>1. CallKept(NoCall)' /\ NoCall \in Caller
  BY DEF NoCall, Caller, CallKept
<1>2. WorkKept(NoWork)' /\ NoWork \in Work0
  BY DEF NoWork, Work0, WorkKept
<1>3. CallersKept'
  <2>1. \A c \in Callers : caller'[c] = NoCall
    OBVIOUS
  <2> QED  BY <1>1, <2>1 DEF CallersKept, CallKept
<1>4. WorkersKept'
  <2>1. \A w \in Workers : worker'[w] = NoWork
    OBVIOUS
  <2> QED  BY <1>2, <2>1 DEF WorkersKept, WorkKept, NoWork
<1>5. RunKept'
  BY DEF NoRun, RunKept
<1> QED  BY <1>3, <1>4, <1>5

LEMMA Crash_keeps ==
  ASSUME ConstantsOK, Inv, Crash
  PROVE  Inv'
<1>1. /\ restarts < MaxRestarts /\ restarts' = restarts + 1
      /\ caller' = [c \in Callers |-> NoCall]
      /\ active' = 0 /\ waiting' = <<>> /\ run' = NoRun
      /\ worker' = [w \in Workers |-> NoWork]
      /\ UNCHANGED <<stored, filled, indicator, tasks, fails>>
  BY DEF Crash
<1>2. restarts' \in 0 .. MaxRestarts
  BY <1>1, SlotsAreNat DEF Inv, Tables
<1>3. Tables' /\ IndicatorPrefix' /\ IndicatorIsWarm' /\ Grows
  BY <1>1, <1>2, ValuesStay DEF Inv, Tables
<1>4. TasksKept' /\ TasksGo
  BY <1>1, <1>3, TasksStay DEF Inv
<1>5. Solid(0)'
  <2>1. stored \subseteq Slots /\ Solid(0)
    BY NextIsSolid DEF Inv, Tables
  <2> QED  BY <1>3, <2>1, SolidStays
<1>6. CallersKept' /\ WorkersKept' /\ RunKept'
  BY <1>1, <1>4, <1>5, FreshStart DEF TasksGo
<1> QED  BY <1>3, <1>4, <1>6 DEF Inv

-----------------------------------------------------------------------------
(* Theorems *)

LEMMA Init_Inv ==
  ASSUME ConstantsOK, Init
  PROVE  Inv
<1>1. Computed = {} /\ stored \subseteq Slots /\ filled = {} /\ stored \subseteq Nat
  BY SlotsAreNat DEF Init, Computed
<1>2. Tables /\ IndicatorPrefix /\ IndicatorIsWarm
  BY <1>1, SlotsAreNat DEF Init, Tables, IndicatorPrefix, IndicatorIsWarm
<1>3. TasksKept
  BY DEF Init, TasksKept
<1>4. Solid(0)
  BY <1>1 DEF Solid
<1>5. Len(tasks) = 0
  BY DEF Init
<1>6. CallersKept
  <2>1. CallKept(NoCall) /\ NoCall \in Caller
    BY <1>4, <1>5 DEF NoCall, Caller, CallKept
  <2> QED  BY <2>1 DEF Init, CallersKept
<1>7. WorkersKept
  <2>1. WorkKept(NoWork) /\ NoWork \in Work0
    BY DEF NoWork, Work0, WorkKept
  <2> QED  BY <2>1 DEF Init, WorkersKept
<1>8. RunKept
  BY <1>5 DEF Init, NoRun, RunKept
<1> QED  BY <1>2, <1>3, <1>6, <1>7, <1>8 DEF Inv

LEMMA Next_Inv ==
  ASSUME ConstantsOK, Inv, [Next]_vars
  PROVE  Inv'
<1>1. ASSUME NEW c \in Callers, start_all(c) PROVE Inv'
  BY <1>1, StartChecks_keeps, StartFinds_keeps, StartCommits_keeps, StartSpawns_keeps DEF start_all
<1>2. ASSUME NEW w \in Workers, Work(w) \/ WorkerFails(w) PROVE Inv'
  BY <1>2, WorkerMarks_keeps, WorkerReads_keeps, upsert_keeps, WorkerMoves_keeps,
     WorkerCompletes_keeps, WorkerFails_keeps DEF Work
<1>3. ASSUME RunBegins \/ RunCompletes \/ RunEnds \/ RunRaises \/ RunRecords PROVE Inv'
  BY <1>3, RunBegins_keeps, RunCompletes_keeps, RunEnds_keeps, RunRaises_keeps, RunRecords_keeps
<1>4. ASSUME CandleStored \/ Crash PROVE Inv'
  BY <1>4, CandleStored_keeps, Crash_keeps
<1>5. ASSUME UNCHANGED vars PROVE Inv'
  <2>1. UNCHANGED <<stored, filled, indicator, tasks, caller, active, waiting, run, worker, fails, restarts>>
    BY <1>5 DEF vars
  <2>2. /\ Tables' /\ IndicatorPrefix' /\ IndicatorIsWarm' /\ Grows
        /\ TasksKept' /\ TasksGo /\ CallersKept'
    BY <2>1, QuietStep DEF Inv, Tables
  <2>3. WorkersKept' /\ RunKept'
    BY <2>1, <2>2, WorkersStay, RunStays DEF Inv
  <2> QED  BY <2>2, <2>3 DEF Inv
<1> QED  BY <1>1, <1>2, <1>3, <1>4, <1>5 DEF Next

\* The inductive invariant holds in every reachable state.
LEMMA InvHolds ==
  ASSUME ConstantsOK
  PROVE  Spec => []Inv
<1>1. Init => Inv
  BY Init_Inv
<1>2. Inv /\ [Next]_vars => Inv'
  BY Next_Inv
<1> QED  BY <1>1, <1>2, PTL DEF Spec

\* The parts of the state stay what they are declared to be.
THEOREM IndicatorTypeCorrect ==
  ASSUME ConstantsOK
  PROVE  Spec => []TypeOK
<1>1. Inv => TypeOK
  <2> SUFFICES ASSUME Inv PROVE TypeOK
    OBVIOUS
  <2>1. /\ filled \subseteq stored /\ stored \subseteq Slots
        /\ indicator \in [Slots -> Slots \cup {-1}] /\ Computed \subseteq stored
        /\ fails \in 0 .. MaxFailures /\ restarts \in 0 .. MaxRestarts
    BY DEF Inv, Tables
  <2>2. ASSUME NEW i \in DOMAIN tasks
        PROVE  /\ tasks[i].status \in {"running", "completed", "error"}
               /\ tasks[i].step \in {"pending", "running", "completed"}
               /\ tasks[i].cursor \in Nat /\ tasks[i].asked \subseteq Slots
    <3>1. tasks[i] \in Task
      BY DEF Inv, TasksKept
    <3> QED  BY <3>1 DEF Task, Status, Steps
  <2>3. \A c \in Callers : caller[c].pc \in {"idle", "asked", "found", "committed"}
    BY DEF Inv, CallersKept, Caller
  <2>4. /\ active \in 0 .. Len(tasks) /\ \A i \in DOMAIN waiting : waiting[i] \in DOMAIN tasks
        /\ run.pc \in {"free", "running", "ending", "raising"} /\ run.worker \in Workers \cup {0}
    BY DEF Inv, RunKept
  <2>5. \A w \in Workers : worker[w].pc \in {"free", "mark", "read", "upsert", "move", "complete"}
    BY DEF Inv, WorkersKept, Work0
  <2> QED  BY <2>1, <2>2, <2>3, <2>4, <2>5 DEF TypeOK
<1> QED  BY <1>1, InvHolds, PTL

\* Whatever start requests, orphans, failures and crashes of the program do to
\* each other: a hole in the indicators lies at a filled-in candle, a completed
\* task has computed what it was created for, and no value misses its warm-up
\* (start_all and _backfill_interval of indicator_backfill.py).
THEOREM IndicatorsAreKept_holds ==
  ASSUME ConstantsOK
  PROVE  Spec => []IndicatorsAreKept
<1>1. Inv => CompletedIsComputed
  BY DEF Inv, TasksKept, TaskKept, Done, CompletedIsComputed
<1>2. Inv => IndicatorsAreKept
  BY <1>1 DEF Inv, IndicatorsAreKept
<1> QED  BY <1>2, InvHolds, PTL

=============================================================================
