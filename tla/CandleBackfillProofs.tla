------------------------ MODULE CandleBackfillProofs ------------------------
(***************************************************************************)
(* Theorems about CandleBackfill, for every value of its constants, and    *)
(* what MCCandles says of the models explored with it: the stream endpoint *)
(* is proved about here, the live window and the indicators in LiveProofs  *)
(* and IndicatorProofs.                                                    *)
(***************************************************************************)
EXTENDS MCCandles, CandleRangesProofs

-----------------------------------------------------------------------------
(***************************************************************************)
(* Start requests and the coroutine: the control part of the state.        *)
(***************************************************************************)

control == <<caller, active, runs, pc>>

ControlOK ==
  /\ caller \in [Callers -> {"idle", "waiting", "planning", "planned"}]
  /\ active \in BOOLEAN
  /\ runs \in Nat
  /\ pc \in Phases

\* The start lock is held by one request at a time, and only while no coroutine
\* exists: what a request decides under the lock is still true when it acts.
LockExcludes ==
  /\ \A c, d \in Callers :
       caller[c] \in {"planning", "planned"} /\ caller[d] \in {"planning", "planned"}
         => c = d
  /\ \A c \in Callers :
       caller[c] \in {"planning", "planned"} => ~Busy /\ runs = 0

ControlInv == ControlOK /\ OneRun /\ LockExcludes

LEMMA ControlInit == Init => ControlInv
<1> SUFFICES ASSUME Init PROVE ControlInv
  OBVIOUS
<1>1. /\ caller = [c \in Callers |-> "idle"]
      /\ active = FALSE /\ runs = 0 /\ pc = "idle"
  BY DEF Init
<1>2. ControlOK /\ LockExcludes
  BY <1>1 DEF ControlOK, LockExcludes, Phases
<1>3. OneRun
  BY <1>1 DEF OneRun
<1> QED  BY <1>2, <1>3 DEF ControlInv

\* What the coroutine does between taking and releasing the lock.
LEMMA RunSteps ==
  ASSUME ControlInv, Run, ~RunBegin, ~RunEnds, ~RunRaises
  PROVE  /\ pc \in Phases \ {"idle", "finish"}
         /\ pc' \in Phases \ {"idle"}
         /\ UNCHANGED <<caller, active, runs>>
<1> USE DEF Released, Phases
<1>1. CASE PickStep
  BY <1>1 DEF PickStep
<1>2. CASE RunCompletes
  BY <1>2 DEF RunCompletes
<1>3. CASE StepDone
  BY <1>3 DEF StepDone
<1>4. CASE WaveStart
  <2>1. pc = "loop" /\ UNCHANGED <<caller, active, runs>>
    BY <1>4 DEF WaveStart
  <2>2. pc' \in {"page", "archive"}
    BY <1>4 DEF WaveStart, WaveBegins
  <2> QED  BY <2>1, <2>2
<1>5. CASE PageFails
  BY <1>5 DEF PageFails
<1>6. CASE PageEmpty
  BY <1>6 DEF PageEmpty
<1>7. CASE PageStored
  <2>1. pc = "page" /\ UNCHANGED <<caller, active, runs>>
    BY <1>7 DEF PageStored
  <2>2. pc' \in {"page", "commit"}
    BY <1>7 DEF PageStored
  <2> QED  BY <2>1, <2>2
<1>8. CASE WaveCommit
  BY <1>8 DEF WaveCommit
<1>9. CASE PeriodActions
  <2>1. pc = "archive" /\ UNCHANGED <<caller, active, runs, pc>>
    BY <1>9 DEF PeriodActions, PeriodStep, ArchiveBatchStored, ArchiveFileEnds,
                ArchiveFileFails, FallbackPage
  <2> QED  BY <2>1
<1>10. CASE ApplyArchiveResults
  <2>1. pc = "archive" /\ UNCHANGED <<caller, active, runs>>
    BY <1>10 DEF ApplyArchiveResults
  <2>2. pc' \in {"loop", "raise"}
    BY <1>10 DEF ApplyArchiveResults
  <2> QED  BY <2>1, <2>2
<1> QED
  BY <1>1, <1>2, <1>3, <1>4, <1>5, <1>6, <1>7, <1>8, <1>9, <1>10 DEF Run

LEMMA ControlStep == ControlInv /\ [Next]_vars => ControlInv'
<1> SUFFICES ASSUME ControlInv, [Next]_vars PROVE ControlInv'
  OBVIOUS
<1> USE DEF ControlInv, ControlOK, OneRun, LockExcludes, Busy, Phases
<1>1. ASSUME NEW c \in Callers, StartCheck(c) PROVE ControlInv'
  BY <1>1 DEF StartCheck, runner
<1>2. ASSUME NEW c \in Callers, StartLocked(c) PROVE ControlInv'
  BY <1>2 DEF StartLocked, runner
<1>3. ASSUME NEW c \in Callers, StartPlan(c) PROVE ControlInv'
  <2>1. /\ caller[c] = "planning"
        /\ caller' = [caller EXCEPT ![c] = "planned"]
        /\ UNCHANGED <<active, runs, pc>>
    BY <1>3 DEF StartPlan, runner
  <2> QED  BY <2>1
<1>4. ASSUME NEW c \in Callers, StartFails(c) PROVE ControlInv'
  BY <1>4 DEF StartFails, runner
<1>5. ASSUME NEW c \in Callers, StartSpawn(c) PROVE ControlInv'
  BY <1>5 DEF StartSpawn, runner
<1>6. CASE RunBegin
  BY <1>6 DEF RunBegin, Released
<1>7. CASE RunEnds \/ RunRaises
  <2>1. pc # "idle" /\ pc' = "idle" /\ active' = FALSE /\ UNCHANGED <<caller, runs>>
    BY <1>7 DEF RunEnds, RunRaises, Released
  <2>2. runs = 0
    BY <2>1
  <2>3. \A c \in Callers : caller[c] \notin {"planning", "planned"}
    BY <2>1
  <2>4. ControlOK' /\ LockExcludes'
    BY <2>1, <2>3
  <2>5. OneRun'
    BY ONLY <2>1, <2>2 DEF OneRun
  <2> QED  BY <2>4, <2>5
<1>9. CASE Run /\ ~RunBegin /\ ~RunEnds /\ ~RunRaises
  <2>1. /\ pc \in Phases \ {"idle", "finish"}
        /\ pc' \in Phases \ {"idle"}
        /\ UNCHANGED <<caller, active, runs>>
    BY <1>9, RunSteps
  <2> QED  BY <2>1
<1>10. CASE DatabaseFails
  BY <1>10 DEF DatabaseFails, Released
<1>11. CASE \E i \in LiveIntervals : LiveCandle(i)
  BY <1>11 DEF LiveCandle, runner
<1>12. CASE Tick
  BY <1>12 DEF Tick, runner
<1>13. CASE Crash
  <2>1. /\ caller' = [c \in Callers |-> "idle"]
        /\ active' = FALSE /\ runs' = 0 /\ pc' = "idle"
    BY <1>13 DEF Crash, Released
  <2>2. ControlOK' /\ LockExcludes'
    BY <2>1
  <2>3. OneRun'
    BY <2>1
  <2> QED  BY <2>2, <2>3
<1>14. CASE UNCHANGED vars
  BY <1>14 DEF vars
<1> QED
  BY <1>1, <1>2, <1>3, <1>4, <1>5, <1>6, <1>7, <1>9, <1>10, <1>11, <1>12, <1>13,
     <1>14 DEF Next, start_all, Run

LEMMA ControlInvariant == Spec => []ControlInv
BY ControlInit, ControlStep, PTL DEF Spec

\* Concurrent start requests, failures and crashes never put two coroutines to
\* work, because the check of the active task is repeated under the start lock.
THEOREM SingleRun == Spec => []OneRun
<1>1. ControlInv => OneRun
  BY DEF ControlInv
<1> QED  BY <1>1, ControlInvariant, PTL

\* The steps of a task are only planned while no coroutine works on them.
THEOREM PlanIsFrozen == Spec => PlanFrozen
<1>1. ControlInv /\ [Next]_vars => [pc # "idle" => DOMAIN steps' = DOMAIN steps]_vars
  <2> SUFFICES ASSUME ControlInv, Next, pc # "idle" PROVE DOMAIN steps' = DOMAIN steps
    BY DEF vars
  <2>1. ASSUME NEW c \in Callers, start_all(c) PROVE UNCHANGED steps
    <3>1. caller[c] \notin {"planning", "planned"}
      BY DEF ControlInv, LockExcludes, Busy
    <3> QED
      BY <3>1, <2>1 DEF start_all, StartCheck, StartLocked, StartPlan, StartFails,
         StartSpawn, database
  <2>2. CASE Run
    <3>1. CASE RunBegin \/ RunCompletes \/ RunEnds \/ RunRaises \/ PeriodActions
      BY <3>1 DEF RunBegin, RunCompletes, RunEnds, RunRaises, database, PeriodActions,
         PeriodStep, ArchiveBatchStored, ArchiveFileEnds, ArchiveFileFails, FallbackPage
    <3>2. CASE PickStep \/ StepDone \/ PageFails \/ PageEmpty \/ PageStored \/ WaveCommit
      BY <3>2 DEF PickStep, StepDone, PageFails, PageEmpty, PageStored, WaveCommit
    <3>3. CASE WaveStart
      BY <3>3 DEF WaveStart, WaveBegins
    <3>4. CASE ApplyArchiveResults
      BY <3>4 DEF ApplyArchiveResults
    <3> QED  BY <2>2, <3>1, <3>2, <3>3, <3>4 DEF Run
  <2>3. CASE DatabaseFails \/ Tick \/ Crash \/ \E i \in LiveIntervals : LiveCandle(i)
    BY <2>3 DEF DatabaseFails, Tick, Crash, LiveCandle, database
  <2> QED  BY <2>1, <2>2, <2>3 DEF Next
<1> QED  BY <1>1, ControlInvariant, PTL DEF Spec, PlanFrozen

-----------------------------------------------------------------------------
(***************************************************************************)
(* Type correctness                                                        *)
(***************************************************************************)

TablesOK ==
  /\ stored \in [Intervals -> SUBSET Nat]
  /\ unavailable \in [Intervals -> SUBSET Int]

StepsOK(s) == DOMAIN s \subseteq Keys /\ s \in [DOMAIN s -> Step]

TaskType == [status : {"none", "running", "completed", "error"},
             target : Nat, resumed : BOOLEAN, from : [Intervals -> Int]]

RunnerOK == mem \in Step /\ page \in Int /\ left \in Int /\ periods \in Seq(Period)

CountersOK == now \in Nat /\ tasks \in Nat /\ failures \in Nat /\ crashes \in Nat

\* While the coroutine works on a step, cur is the key of one; without a coroutine
\* it is the key of none, so that planning cannot take it away.
CursorOK ==
  /\ cur \in DOMAIN steps \cup {NoKey}
  /\ pc = "idle" => cur = NoKey
  /\ pc \in {"loop", "page", "commit", "archive"} => cur \in DOMAIN steps

TypeInv ==
  /\ ControlInv
  /\ TablesOK
  /\ task \in TaskType
  /\ StepsOK(steps)
  /\ RunnerOK
  /\ CountersOK
  /\ CursorOK

LEMMA DivType ==
  ASSUME NEW a \in Int, NEW b \in Nat \ {0}
  PROVE  a \div b \in Int
OBVIOUS

LEMMA ProductType ==
  ASSUME NEW a \in Nat, NEW b \in Nat
  PROVE  a * b \in Nat
OBVIOUS

LEMMA CoverageStartType ==
  ASSUME TablesOK, NEW i \in Intervals
  PROVE  history_coverage_start(i) \in Int
<1> DEFINE opens == UNION {{t * Width[j] : t \in stored[j]} : j \in Intervals}
           earliest == IF opens = {} THEN HistoryStart ELSE MinOf(opens)
<1>1. opens \in SUBSET Nat
  <2> SUFFICES ASSUME NEW j \in Intervals, NEW t \in stored[j] PROVE t * Width[j] \in Nat
    OBVIOUS
  <2>1. t \in Nat /\ Width[j] \in Nat
    BY IntervalAssumption DEF TablesOK
  <2> QED  BY <2>1, ProductType
<1>2. earliest \in Int
  <2>2. opens # {} => MinOf(opens) \in Int
    <3> HIDE DEF opens
    <3>1. ASSUME opens # {} PROVE MinOf(opens) \in opens
      BY <1>1, <3>1, MinOfProperty
    <3>2. \A x \in opens : x \in Int
      BY <1>1
    <3> QED  BY <3>1, <3>2
  <2>3. HistoryStart \in Int
    BY SizeAssumption
  <2> QED  BY <2>2, <2>3
<1>3. Width[i] \in Nat \ {0}
  BY IntervalAssumption
<1>4. history_coverage_start(i) = earliest \div Width[i]
  BY DEF history_coverage_start
<1> HIDE DEF earliest
<1> QED  BY <1>2, <1>3, <1>4, DivType

LEMMA IntervalPlanType ==
  ASSUME TablesOK, NEW i \in Intervals, NEW end \in Int
  PROVE  plan_interval_missing_ranges(i, end) \in SUBSET (Int \X Int)
<1> DEFINE start == history_coverage_start(i)
           merged == merge_missing_range_windows(WavePages * Limit)
                       [interval_gaps(i, start, end)]
<1>1. start \in Int
  BY CoverageStartType
<1> HIDE DEF start
<1>2. initial_ranges(start, end) \in SUBSET (Int \X Int)
  <2>1. Larger(start, end - (HistoryLimit - 1)) \in Int
    BY <1>1, SizeAssumption DEF Larger
  <2> QED  BY <1>1, <2>1 DEF initial_ranges
<1>3. interval_gaps(i, start, end) \in SUBSET Int
  BY MissingRangesAreSlots DEF interval_gaps
<1>4. merged \in SUBSET Int
  BY <1>3, MergedRangesAreSlots
<1> HIDE DEF merged
<1>5. Ranges[merged \ unavailable[i]] \in SUBSET (Int \X Int)
  BY <1>4, RangesArePairs
<1> QED  BY <1>2, <1>5 DEF plan_interval_missing_ranges, start, merged

LEMMA PlanType ==
  ASSUME TablesOK, NEW time \in Int
  PROVE  plan_candle_missing_ranges(time) \in SUBSET (Keys \X Int)
<1> SUFFICES ASSUME NEW i \in Intervals,
                    NEW r \in plan_interval_missing_ranges(i, latest_closed_open(i, time))
             PROVE  <<<<i, r[1]>>, r[2]>> \in Keys \X Int
  BY DEF plan_candle_missing_ranges
<1>1. latest_closed_open(i, time) \in Int
  <2>1. time \div Width[i] \in Int
    BY DivType, IntervalAssumption
  <2> QED  BY <2>1 DEF latest_closed_open
<1>2. r \in Int \X Int
  BY <1>1, IntervalPlanType
<1> QED  BY <1>2 DEF Keys

\* The steps after planning are well formed when the kept ones are.
LEMMA WithPlanType ==
  ASSUME NEW kept, StepsOK(kept), NEW plan \in SUBSET (Keys \X Int)
  PROVE  StepsOK(WithPlan(kept, plan))
<1> DEFINE keys == {p[1] : p \in plan}
           new(k) == NewStep(k, CHOOSE e \in {p[2] : p \in plan} : <<k, e>> \in plan)
<1>1. keys \subseteq Keys
  OBVIOUS
<1>2. ASSUME NEW k \in keys PROVE new(k) \in Step
  <2>1. PICK p \in plan : p[1] = k
    OBVIOUS
  <2>2. <<k, p[2]>> = p /\ k[2] \in Int
    BY <2>1 DEF Keys
  <2>3. \E e \in {q[2] : q \in plan} : <<k, e>> \in plan
    BY <2>2
  <2> DEFINE e == CHOOSE e \in {q[2] : q \in plan} : <<k, e>> \in plan
  <2>4. e \in {q[2] : q \in plan}
    BY <2>3
  <2>5. e \in Int
    BY <2>4
  <2> HIDE DEF e
  <2>6. NewStep(k, e) \in Step
    BY <2>2, <2>5 DEF NewStep, Step, StepStatus
  <2> QED  BY <2>6 DEF e
<1> HIDE DEF new
<1>3. WithPlan(kept, plan) =
        [k \in DOMAIN kept \cup keys |-> IF k \in DOMAIN kept THEN kept[k] ELSE new(k)]
  BY DEF WithPlan, new
<1>4. \A k \in DOMAIN kept : kept[k] \in Step
  BY DEF StepsOK
<1> HIDE DEF keys
<1> QED  BY <1>1, <1>2, <1>3, <1>4 DEF StepsOK

LEMMA StepsTypedAt ==
  ASSUME NEW s, StepsOK(s), NEW k \in DOMAIN s
  PROVE  s[k] \in Step /\ k \in Keys
BY DEF StepsOK

LEMMA StepReplaced ==
  ASSUME NEW s, StepsOK(s), NEW k, NEW st \in Step
  PROVE  StepsOK([s EXCEPT ![k] = st]) /\ DOMAIN [s EXCEPT ![k] = st] = DOMAIN s
BY DEF StepsOK

LEMMA CreateType ==
  ASSUME TablesOK, CountersOK, create_task
  PROVE  StepsOK(steps') /\ task' \in TaskType /\ tasks' \in Nat
<1>1. now \in Nat /\ now \in Int /\ tasks \in Nat
  BY DEF CountersOK
<1>2. StepsOK(<<>>)
  BY DEF StepsOK
<1>3. StepsOK(steps')
  BY <1>1, <1>2, PlanType, WithPlanType DEF create_task
<1>4. \A i \in Intervals : plan_start(i) \in Int
  <2> SUFFICES ASSUME NEW i \in Intervals PROVE plan_start(i) \in Int
    OBVIOUS
  <2>1. history_coverage_start(i) \in Int
    BY CoverageStartType
  <2> QED  BY <2>1 DEF plan_start
<1> QED  BY <1>1, <1>3, <1>4 DEF create_task, TaskType

LEMMA ResumeType ==
  ASSUME TablesOK, CountersOK, StepsOK(steps), task \in TaskType, resume_task
  PROVE  StepsOK(steps') /\ task' \in TaskType /\ tasks' \in Nat
<1> DEFINE kept == [k \in {l \in DOMAIN steps : ~Untouched(l)} |->
                      IF steps[k].status = "error"
                        THEN [steps[k] EXCEPT !.status = "pending"] ELSE steps[k]]
<1>1. now \in Int
  BY DEF CountersOK
<1>2. StepsOK(kept)
  <2>1. \A k \in DOMAIN steps : steps[k] \in Step /\ k \in Keys
    BY <1>1, StepsTypedAt
  <2>2. \A k \in DOMAIN steps : [steps[k] EXCEPT !.status = "pending"] \in Step
    BY <2>1 DEF Step, StepStatus
  <2>3. DOMAIN kept \subseteq DOMAIN steps
    OBVIOUS
  <2>4. \A k \in DOMAIN kept : kept[k] \in Step
    BY <2>1, <2>2
  <2> QED  BY <2>1, <2>3, <2>4 DEF StepsOK
<1>3. ResumeTime \in SUBSET Int
  <2>1. \A k \in DOMAIN steps : steps[k].end * Width[k[1]] \in Int
    <3> SUFFICES ASSUME NEW k \in DOMAIN steps PROVE steps[k].end * Width[k[1]] \in Int
      OBVIOUS
    <3>1. steps[k].end \in Int
      BY <1>1, StepsTypedAt DEF Step
    <3>2. Width[k[1]] \in Int
      BY <1>1, StepsTypedAt, IntervalAssumption DEF Keys
    <3> QED  BY <3>1, <3>2
  <2> QED  BY <1>1, <2>1 DEF ResumeTime
<1> HIDE DEF kept
<1>4. StepsOK(steps')
  <2>1. PICK time \in ResumeTime :
          steps' = WithPlan(kept, plan_candle_missing_ranges(time))
    BY DEF resume_task, kept
  <2>2. plan_candle_missing_ranges(time) \in SUBSET (Keys \X Int)
    BY <1>1, <1>3, <2>1, PlanType
  <2> QED  BY <1>2, <2>1, <2>2, WithPlanType
<1>5. task' = [task EXCEPT !.status = "running", !.resumed = TRUE] /\ tasks' = tasks
  BY DEF resume_task
<1> QED  BY <1>4, <1>5 DEF TaskType, CountersOK

LEMMA TypeInit == Init => TypeInv
<1> SUFFICES ASSUME Init PROVE TypeInv
  OBVIOUS
<1>1. ControlInv
  BY ControlInit
<1>2. TablesOK /\ CountersOK
  BY BoundAssumption DEF Init, TablesOK, CountersOK
<1>3. task \in TaskType
  BY BoundAssumption DEF Init, TaskType
<1>4. StepsOK(steps)
  BY DEF Init, StepsOK
<1>5. NoStep \in Step
  BY DEF NoStep, Step, StepStatus
<1>6. RunnerOK
  BY <1>5 DEF Init, RunnerOK
<1>7. CursorOK
  BY DEF Init, CursorOK
<1> QED  BY <1>1, <1>2, <1>3, <1>4, <1>6, <1>7 DEF TypeInv

\* Releasing what the coroutine holds restores the types of its variables.
LEMMA ReleasedType ==
  ASSUME NEW next, Released(next)
  PROVE  RunnerOK' /\ pc' = next
<1>1. NoStep \in Step
  BY DEF NoStep, Step, StepStatus
<1> QED  BY <1>1 DEF Released, RunnerOK

LEMMA StartType ==
  ASSUME TypeInv, NEW c \in Callers, start_all(c)
  PROVE  TypeInv'
<1>1. ControlInv'
  BY ControlStep DEF TypeInv, Next
<1>2. CASE StartPlan(c)
  <2>1. StepsOK(steps') /\ task' \in TaskType /\ tasks' \in Nat
    BY <1>2, CreateType, ResumeType DEF StartPlan, TypeInv
  <2>2. pc = "idle" /\ cur = NoKey
    BY <1>2 DEF StartPlan, TypeInv, ControlInv, LockExcludes, Busy, CursorOK
  <2>3. UNCHANGED <<stored, unavailable, pc, cur, mem, page, left, periods, now, failures, crashes>>
    BY <1>2 DEF StartPlan, runner
  <2>4. TablesOK' /\ RunnerOK' /\ CountersOK' /\ CursorOK'
    BY <2>1, <2>2, <2>3 DEF TypeInv, TablesOK, RunnerOK, CountersOK, CursorOK
  <2> QED  BY <1>1, <2>1, <2>4 DEF TypeInv
<1>3. CASE ~StartPlan(c)
  <2>1. UNCHANGED <<stored, unavailable, task, steps, pc, cur, mem, page, left, periods,
                    now, tasks, crashes>>
    BY <1>3 DEF start_all, StartCheck, StartLocked, StartFails, StartSpawn, database,
       runner, bounds
  <2>2. failures' \in Nat
    BY <1>3 DEF start_all, StartCheck, StartLocked, StartFails, StartSpawn, bounds, TypeInv,
       CountersOK
  <2> QED
    BY <1>1, <2>1, <2>2 DEF TypeInv, TablesOK, RunnerOK, CountersOK, CursorOK, StepsOK
<1> QED  BY <1>2, <1>3

\* The coroutine between two steps, and at its end.
LEMMA BetweenStepsType ==
  ASSUME TypeInv,
         RunBegin \/ PickStep \/ RunCompletes \/ RunEnds \/ RunRaises \/ StepDone
  PROVE  TypeInv'
<1>1. ControlInv'
  BY ControlStep DEF TypeInv, Next, Run
<1>2. RunnerOK'
  BY ReleasedType DEF RunBegin, PickStep, RunCompletes, RunEnds, RunRaises, StepDone
<1>3. TablesOK' /\ CountersOK'
  BY DEF RunBegin, PickStep, RunCompletes, RunEnds, RunRaises, StepDone, TypeInv, TablesOK,
     CountersOK, database, bounds
<1>4. task' \in TaskType
  <2>1. CASE RunCompletes \/ RunRaises
    <3>1. task' \in {task, [task EXCEPT !.status = "completed"],
                     [task EXCEPT !.status = "error"]}
      BY <2>1 DEF RunCompletes, RunRaises
    <3> QED  BY <3>1 DEF TypeInv, TaskType
  <2>2. CASE RunBegin \/ PickStep \/ RunEnds \/ StepDone
    BY <2>2 DEF RunBegin, PickStep, RunEnds, StepDone, database, TypeInv
  <2> QED  BY <2>1, <2>2
<1>5. StepsOK(steps') /\ CursorOK'
  <2>1. CASE PickStep
    <3>1. PICK k \in OpenSteps : cur' = k /\ steps' = [steps EXCEPT ![k].status = "running"]
      BY <2>1 DEF PickStep
    <3>2. k \in DOMAIN steps /\ steps[k] \in Step
      BY <3>1, StepsTypedAt DEF OpenSteps, TypeInv
    <3>3. [steps[k] EXCEPT !.status = "running"] \in Step
      BY <3>2 DEF Step, StepStatus
    <3>4. steps' = [steps EXCEPT ![k] = [steps[k] EXCEPT !.status = "running"]]
      BY <3>1
    <3>5. StepsOK(steps') /\ DOMAIN steps' = DOMAIN steps
      BY <3>3, <3>4, StepReplaced DEF TypeInv
    <3>6. pc' = "loop"
      BY <2>1 DEF PickStep, Released
    <3> QED  BY <3>1, <3>2, <3>5, <3>6 DEF CursorOK
  <2>2. CASE StepDone
    <3>1. cur \in DOMAIN steps
      BY <2>2 DEF StepDone, TypeInv, CursorOK
    <3>2. steps[cur] \in Step
      BY <3>1, StepsTypedAt DEF TypeInv
    <3>3. [steps[cur] EXCEPT !.status = "completed"] \in Step
      BY <3>2 DEF Step, StepStatus
    <3>4. steps' = [steps EXCEPT ![cur] = [steps[cur] EXCEPT !.status = "completed"]]
      BY <2>2 DEF StepDone
    <3>5. StepsOK(steps')
      BY <3>3, <3>4, StepReplaced DEF TypeInv
    <3>6. cur' = NoKey /\ pc' = "pick"
      BY <2>2 DEF StepDone, Released
    <3> QED  BY <3>5, <3>6 DEF CursorOK
  <2>3. CASE RunBegin \/ RunCompletes \/ RunEnds \/ RunRaises
    <3>1. UNCHANGED steps /\ cur' = NoKey /\ pc' \in {"pick", "finish", "idle"}
      BY <2>3 DEF RunBegin, RunCompletes, RunEnds, RunRaises, Released, database
    <3> QED  BY <3>1 DEF CursorOK, TypeInv, StepsOK
  <2> QED  BY <2>1, <2>2, <2>3
<1> QED  BY <1>1, <1>2, <1>3, <1>4, <1>5 DEF TypeInv

\* A step with another cursor and another status.
LEMMA StepMoved ==
  ASSUME NEW st \in Step, NEW cursor \in Int, NEW status \in StepStatus,
         NEW touched \in BOOLEAN
  PROVE  /\ [st EXCEPT !.cursor = cursor, !.status = status] \in Step
         /\ [st EXCEPT !.touched = touched] \in Step
         /\ [st EXCEPT !.touched = touched, !.cursor = cursor, !.status = status] \in Step
         /\ [st EXCEPT !.cursor = cursor, !.touched = touched, !.status = status] \in Step
BY DEF Step

\* The slot after the last row of a page.
LEMMA NextSlotType ==
  ASSUME NEW i \in Intervals, NEW start \in Int, NEW end \in Int,
         NEW Rows \in SUBSET ListedIn(i, start, end), Rows # {}
  PROVE  /\ MaxOf(Rows) \in Int
         /\ MaxOf(Rows) \in Rows
         /\ \A t \in Rows : t <= MaxOf(Rows)
<1>1. Rows \subseteq start .. end
  BY DEF ListedIn
<1>2. IsFiniteSet(Rows) /\ Rows \in SUBSET Int
  BY <1>1, PageProperty
<1>3. MaxOf(Rows) \in Rows /\ \A t \in Rows : t <= MaxOf(Rows)
  BY <1>2, MaxOfProperty
<1> QED  BY <1>2, <1>3

LEMMA PageType ==
  ASSUME TypeInv, PageFails \/ PageEmpty \/ PageStored \/ WaveCommit
  PROVE  TypeInv'
<1>1. ControlInv'
  BY ControlStep DEF TypeInv, Next, Run
<1>2. cur \in DOMAIN steps /\ cur \in Keys /\ cur[1] \in Intervals
  <2>1. cur \in DOMAIN steps
    BY DEF PageFails, PageEmpty, PageStored, WaveCommit, TypeInv, CursorOK
  <2> QED  BY <2>1 DEF TypeInv, StepsOK, Keys
<1>3. mem \in Step /\ mem.end \in Int /\ page \in Int /\ left \in Int /\ Limit \in Nat
  BY SizeAssumption DEF TypeInv, RunnerOK, Step
<1>4. CASE PageFails
  <2>1. [mem EXCEPT !.cursor = page, !.status = "error"] \in Step
    BY <1>3 DEF Step, StepStatus
  <2>2. StepsOK(steps')
    BY <1>4, <2>1, StepReplaced DEF PageFails, TypeInv
  <2>3. RunnerOK' /\ pc' = "raise"
    BY <1>4, ReleasedType DEF PageFails
  <2>4. TablesOK' /\ CountersOK'
    BY <1>4 DEF PageFails, TypeInv, TablesOK, CountersOK
  <2>5. task' \in TaskType
    BY <1>4 DEF PageFails, TypeInv, TaskType
  <2>6. CursorOK'
    <3>1. cur' = cur /\ DOMAIN steps' = DOMAIN steps
      BY <1>4 DEF PageFails
    <3> QED  BY <2>3, <3>1, <1>2 DEF CursorOK
  <2> QED  BY <1>1, <2>2, <2>3, <2>4, <2>5, <2>6 DEF TypeInv
<1>5. CASE PageEmpty
  <2>1. [mem EXCEPT !.cursor = mem.end + 1, !.status = "completed"] \in Step
    <3>1. mem.end + 1 \in Int /\ "completed" \in StepStatus
      BY <1>3 DEF StepStatus
    <3> QED  BY <1>3, <3>1, StepMoved
  <2>2. StepsOK(steps')
    BY <1>5, <2>1, StepReplaced DEF PageEmpty, TypeInv
  <2>3. RunnerOK' /\ pc' = "loop"
    BY <1>5, ReleasedType DEF PageEmpty
  <2>4. TablesOK'
    <3>1. unavailable_range \in SUBSET Int
      BY DEF unavailable_range
    <3> QED  BY <1>5, <3>1 DEF PageEmpty, TypeInv, TablesOK
  <2>5. task' \in TaskType /\ CountersOK'
    BY <1>5 DEF PageEmpty, TypeInv, bounds, CountersOK
  <2>6. CursorOK'
    <3>1. cur' = cur /\ DOMAIN steps' = DOMAIN steps
      BY <1>5 DEF PageEmpty
    <3> QED  BY <2>3, <3>1, <1>2 DEF CursorOK
  <2> QED  BY <1>1, <2>2, <2>3, <2>4, <2>5, <2>6 DEF TypeInv
<1>6. CASE PageStored
  <2>1. PICK Rows \in SUBSET ListedIn(cur[1], page, mem.end) :
          /\ Rows # {}
          /\ stored' = [stored EXCEPT ![cur[1]] = @ \cup Rows]
          /\ steps' = [steps EXCEPT ![cur] = [mem EXCEPT !.touched = TRUE]]
          /\ mem' = [mem EXCEPT !.touched = TRUE, !.cursor = MaxOf(Rows) + 1,
                                !.status = IF IsShort(Rows) THEN "completed" ELSE @]
          /\ pc' \in {"page", "commit"}
          /\ page' \in {page, page + Limit}
          /\ left' \in {left, left - 1}
    BY <1>6 DEF PageStored
  <2>2. MaxOf(Rows) \in Int
    BY <1>2, <1>3, <2>1, NextSlotType
  <2>3. mem' \in Step
    <3> DEFINE status == IF IsShort(Rows) THEN "completed" ELSE mem.status
    <3>1. status \in StepStatus /\ MaxOf(Rows) + 1 \in Int
      BY <1>3, <2>2 DEF Step, StepStatus
    <3>2. mem' = [mem EXCEPT !.touched = TRUE, !.cursor = MaxOf(Rows) + 1, !.status = status]
      BY <2>1
    <3> HIDE DEF status
    <3> QED  BY <1>3, <3>1, <3>2, StepMoved
  <2>4. [mem EXCEPT !.touched = TRUE] \in Step
    BY <1>3 DEF Step
  <2>5. StepsOK(steps') /\ DOMAIN steps' = DOMAIN steps
    BY <2>1, <2>4, StepReplaced DEF TypeInv
  <2>6. TablesOK'
    <3>1. Rows \in SUBSET Nat
      BY <1>2, <2>1, IntervalAssumption DEF ListedIn
    <3>2. UNCHANGED unavailable
      BY <1>6 DEF PageStored
    <3> QED  BY <2>1, <3>1, <3>2 DEF TypeInv, TablesOK
  <2>7. RunnerOK'
    <3>1. UNCHANGED periods
      BY <1>6 DEF PageStored
    <3> QED  BY <1>3, <2>1, <2>3, <3>1 DEF TypeInv, RunnerOK
  <2>8. task' \in TaskType /\ CountersOK' /\ cur' = cur
    BY <1>6 DEF PageStored, TypeInv, bounds, CountersOK
  <2>9. CursorOK'
    BY <1>2, <2>1, <2>5, <2>8 DEF CursorOK
  <2> QED  BY <1>1, <2>5, <2>6, <2>7, <2>8, <2>9 DEF TypeInv
<1>7. CASE WaveCommit
  <2>1. StepsOK(steps') /\ DOMAIN steps' = DOMAIN steps
    BY <1>3, <1>7, StepReplaced DEF WaveCommit, TypeInv
  <2>2. RunnerOK' /\ pc' = "loop"
    BY <1>7, ReleasedType DEF WaveCommit
  <2>3. UNCHANGED <<stored, unavailable, task, cur, now, tasks, failures, crashes>>
    BY <1>7 DEF WaveCommit, bounds
  <2>4. CursorOK'
    BY <1>2, <2>1, <2>2, <2>3 DEF CursorOK
  <2>5. TablesOK' /\ CountersOK' /\ task' \in TaskType
    BY <2>3 DEF TypeInv, TablesOK, CountersOK
  <2> QED  BY <1>1, <2>1, <2>2, <2>4, <2>5 DEF TypeInv
<1> QED  BY <1>4, <1>5, <1>6, <1>7

LEMMA WaveStartType ==
  ASSUME TypeInv, WaveStart
  PROVE  TypeInv'
<1>1. ControlInv'
  BY ControlStep DEF TypeInv, Next, Run
<1>2. cur \in DOMAIN steps /\ cur \in Keys /\ steps[cur] \in Step
  <2>1. cur \in DOMAIN steps
    BY DEF WaveStart, TypeInv, CursorOK
  <2> QED  BY <2>1, StepsTypedAt DEF TypeInv
<1> DEFINE start == steps[cur].cursor
           end == steps[cur].end
<1>3. start \in Int /\ end \in Int
  BY <1>2 DEF Step
<1>4. UNCHANGED <<stored, unavailable, task, cur, now, tasks, failures, crashes, steps>>
  BY DEF WaveStart, WaveBegins, bounds
<1>5. TablesOK' /\ CountersOK' /\ task' \in TaskType /\ StepsOK(steps')
  BY <1>4 DEF TypeInv, TablesOK, CountersOK, StepsOK
<1>6. RunnerOK' /\ pc' \in {"page", "archive"}
  <2>1. CASE WaveBegins
    <3>1. mem' = steps[cur] /\ page' = steps[cur].cursor /\ left' = WavePages - 1
          /\ pc' = "page" /\ periods' = periods
      BY <2>1 DEF WaveBegins
    <3>2. left' \in Int
      BY <3>1, SizeAssumption
    <3> QED  BY <3>1, <3>2, <1>2, <1>3 DEF TypeInv, RunnerOK
  <2>2. CASE ~WaveBegins
    <3> DEFINE first(ends, n) == IF n = 1 THEN start ELSE ends[n - 1] + 1
               period(ends, n) == [start |-> first(ends, n), end |-> ends[n],
                                   pos |-> first(ends, n), left |-> 0,
                                   next |-> first(ends, n), got |-> FALSE,
                                   phase |-> "file"]
    <3>1. PICK ends \in IF ArchiveEnabled THEN EndSequences(start, end) ELSE {<<>>} :
            /\ ends # <<>>
            /\ periods' = [n \in 1 .. Len(ends) |-> period(ends, n)]
            /\ pc' = "archive"
            /\ UNCHANGED <<mem, page, left>>
      BY <2>2 DEF WaveStart
    <3>2. PICK m \in 0 .. ArchiveWave : ends \in [1 .. m -> start .. end]
      BY <3>1 DEF EndSequences
    <3>3. ends \in Seq(Int) /\ Len(ends) = m /\ m \in Nat
      BY <3>2, SizeAssumption
    <3>4. ASSUME NEW n \in 1 .. m PROVE period(ends, n) \in Period
      <4>1. ends[n] \in Int
        BY <3>2
      <4>2. n # 1 => n - 1 \in 1 .. m
        BY <3>3
      <4>3. first(ends, n) \in Int
        BY <1>3, <3>2, <4>2
      <4> QED  BY <4>1, <4>3 DEF Period
    <3> HIDE DEF period
    <3>5. periods' \in Seq(Period)
      BY <3>1, <3>3, <3>4
    <3> QED  BY <3>1, <3>5 DEF TypeInv, RunnerOK
  <2> QED  BY <2>1, <2>2
<1>7. CursorOK'
  BY <1>2, <1>4, <1>6 DEF CursorOK
<1> QED  BY <1>1, <1>5, <1>6, <1>7 DEF TypeInv

LEMMA PeriodReplaced ==
  ASSUME RunnerOK, NEW n \in DOMAIN periods, NEW p \in Period
  PROVE  [periods EXCEPT ![n] = p] \in Seq(Period)
<1>1. periods \in Seq(Period)
  BY DEF RunnerOK
<1> HIDE DEF Period
<1>2. /\ Len(periods) \in Nat
      /\ DOMAIN periods = 1 .. Len(periods)
      /\ \A k \in 1 .. Len(periods) : periods[k] \in Period
  BY <1>1
<1> DEFINE changed == [k \in 1 .. Len(periods) |-> IF k = n THEN p ELSE periods[k]]
<1>3. changed \in Seq(Period)
  BY <1>2
<1>4. [periods EXCEPT ![n] = p] = changed
  BY <1>1, <1>2
<1> QED  BY <1>3, <1>4

LEMMA PeriodTyped ==
  ASSUME RunnerOK, NEW n \in DOMAIN periods
  PROVE  /\ periods[n] \in Period
         /\ periods[n].start \in Int /\ periods[n].end \in Int /\ periods[n].pos \in Int
         /\ periods[n].left \in Int /\ periods[n].next \in Int
<1>1. periods[n] \in Period
  BY DEF RunnerOK
<1> QED  BY <1>1 DEF Period

\* The changes of a period keep its type.
LEMMA PeriodChanged ==
  ASSUME NEW p \in Period, NEW a \in Int, NEW b \in Int, NEW got \in BOOLEAN,
         NEW phase \in {"file", "rest", "done", "failed"}
  PROVE  /\ [p EXCEPT !.pos = a, !.got = got] \in Period
         /\ [p EXCEPT !.phase = phase, !.next = a] \in Period
         /\ [p EXCEPT !.phase = phase, !.got = got, !.next = a] \in Period
         /\ [p EXCEPT !.pos = a, !.left = b, !.got = got] \in Period
         /\ [p EXCEPT !.phase = phase, !.pos = a, !.left = b, !.got = got] \in Period
<1> USE DEF Period
<1>1. [p EXCEPT !.pos = a, !.got = got] \in Period
  OBVIOUS
<1>3. [p EXCEPT !.phase = phase, !.next = a] \in Period
  OBVIOUS
<1>4. [p EXCEPT !.phase = phase, !.got = got, !.next = a] \in Period
  OBVIOUS
<1>5. [p EXCEPT !.pos = a, !.left = b, !.got = got] \in Period
  OBVIOUS
<1>6. [p EXCEPT !.phase = phase, !.pos = a, !.left = b, !.got = got] \in Period
  OBVIOUS
<1> QED  BY <1>1, <1>3, <1>4, <1>5, <1>6

\* The download of an archive file keeps the types.
LEMMA ArchiveFileType ==
  ASSUME TypeInv, NEW n \in DOMAIN periods,
         ArchiveBatchStored(n) \/ ArchiveFileEnds(n) \/ ArchiveFileFails(n)
  PROVE  TablesOK' /\ RunnerOK' /\ CountersOK'
<1>1. /\ UNCHANGED <<mem, page, left, now, tasks, crashes, unavailable, failures>>
      /\ cur \in DOMAIN steps
  BY DEF PeriodStep, ArchiveBatchStored, ArchiveFileEnds, ArchiveFileFails, TypeInv, CursorOK
<1>2. cur[1] \in Intervals
  BY <1>1 DEF TypeInv, StepsOK, Keys
<1>3. CountersOK'
  BY <1>1 DEF TypeInv, CountersOK
<1>4. RunnerOK /\ TablesOK
  BY DEF TypeInv
<1>5. periods[n] \in Period
  BY <1>4, PeriodTyped
<1>6. CASE ArchiveBatchStored(n)
  <2>1. PICK Rows \in (SUBSET RowsLeft(n)) \ {{}} :
          /\ IsKlinePage(Rows, RowsLeft(n), ArchiveBatch)
          /\ stored' = [stored EXCEPT ![cur[1]] = @ \cup Rows]
          /\ periods' = [periods EXCEPT ![n].pos = MaxOf(Rows) + 1, ![n].got = TRUE]
    BY <1>6 DEF ArchiveBatchStored
  <2>2. Rows \in SUBSET Nat /\ Rows \subseteq periods[n].pos .. periods[n].end
    BY <1>2, <2>1, IntervalAssumption DEF RowsLeft
  <2>3. IsFiniteSet(Rows) /\ Rows \in SUBSET Int
    <3>1. periods[n].pos \in Int /\ periods[n].end \in Int
      BY <1>4, PeriodTyped
    <3>2. IsFiniteSet(Rows) /\ Rows \subseteq Int
      BY <2>2, <3>1, PageProperty
    <3> QED  BY <3>2
  <2>4. MaxOf(Rows) \in Int
    BY <2>1, <2>3, MaxOfProperty
  <2>5. [periods[n] EXCEPT !.pos = MaxOf(Rows) + 1, !.got = TRUE] \in Period
    <3>1. MaxOf(Rows) + 1 \in Int
      BY <2>4
    <3> QED  BY <1>5, <3>1, PeriodChanged
  <2>6. periods' = [periods EXCEPT ![n] =
                      [periods[n] EXCEPT !.pos = MaxOf(Rows) + 1, !.got = TRUE]]
    BY <2>1 DEF TypeInv, RunnerOK
  <2>7. periods' \in Seq(Period)
    BY <1>4, <2>5, <2>6, PeriodReplaced
  <2>8. TablesOK'
    BY <1>1, <1>4, <2>1, <2>2 DEF TablesOK
  <2> QED  BY <1>1, <1>3, <1>4, <2>7, <2>8 DEF RunnerOK
<1>7. CASE ArchiveFileEnds(n)
  <2>1. [periods[n] EXCEPT !.phase = "done", !.next = periods[n].end + 1] \in Period
    <3>1. periods[n].end + 1 \in Int
      BY <1>4, PeriodTyped
    <3> QED  BY <1>5, <3>1, PeriodChanged
  <2>2. periods' = [periods EXCEPT ![n] =
                      [periods[n] EXCEPT !.phase = "done", !.next = periods[n].end + 1]]
    BY <1>7 DEF ArchiveFileEnds
  <2>3. periods' \in Seq(Period)
    BY <1>4, <2>1, <2>2, PeriodReplaced
  <2>4. UNCHANGED stored
    BY <1>7 DEF ArchiveFileEnds
  <2> QED  BY <1>1, <1>3, <1>4, <2>3, <2>4 DEF RunnerOK, TablesOK
<1>8. CASE ArchiveFileFails(n)
  <2> DEFINE p == [periods[n] EXCEPT !.phase = "rest", !.pos = periods[n].start,
                                     !.left = WavePages - 1, !.got = FALSE]
  <2>1. WavePages - 1 \in Int /\ periods[n].start \in Int
    BY <1>4, PeriodTyped, SizeAssumption
  <2>2. p \in Period
    BY <1>5, <2>1, PeriodChanged
  <2>3. periods' = [periods EXCEPT ![n] = p]
    BY <1>8 DEF ArchiveFileFails
  <2> HIDE DEF p
  <2>4. periods' \in Seq(Period)
    BY <1>4, <2>2, <2>3, PeriodReplaced
  <2>5. UNCHANGED stored
    BY <1>8 DEF ArchiveFileFails
  <2> QED  BY <1>1, <1>3, <1>4, <2>4, <2>5 DEF RunnerOK, TablesOK
<1> QED  BY <1>6, <1>7, <1>8

\* So does its fallback.
LEMMA FallbackType ==
  ASSUME TypeInv, NEW n \in DOMAIN periods, FallbackPage(n)
  PROVE  TablesOK' /\ RunnerOK' /\ CountersOK'
<1> DEFINE p == periods[n]
           Open == ListedIn(cur[1], p.pos, p.end)
<1>1. /\ UNCHANGED <<mem, page, left, now, tasks, crashes>>
      /\ cur \in DOMAIN steps
  BY DEF PeriodStep, FallbackPage, TypeInv, CursorOK
<1>2. cur[1] \in Intervals
  BY <1>1 DEF TypeInv, StepsOK, Keys
<1>3. RunnerOK /\ TablesOK /\ CountersOK
  BY DEF TypeInv
<1>4. p \in Period
  BY <1>3, PeriodTyped
<1>5. p.pos \in Int /\ p.end \in Int /\ p.left \in Int
  BY <1>3, PeriodTyped
<1> HIDE DEF p, Open
<1>6. CASE /\ failures' = failures + 1
           /\ periods' = [periods EXCEPT ![n].phase = "failed"]
           /\ UNCHANGED <<stored, unavailable>>
  <2>1. [p EXCEPT !.phase = "failed"] \in Period
    BY <1>4 DEF Period
  <2>2. periods' = [periods EXCEPT ![n] = [p EXCEPT !.phase = "failed"]]
    BY <1>6 DEF p
  <2>3. periods' \in Seq(Period)
    BY <1>3, <2>1, <2>2, PeriodReplaced
  <2> QED  BY <1>1, <1>3, <1>6, <2>3 DEF RunnerOK, TablesOK, CountersOK
<1>7. CASE /\ unavailable' = [unavailable EXCEPT ![cur[1]] = @ \cup (p.pos .. p.end)]
           /\ periods' = [periods EXCEPT ![n].phase = "done", ![n].next = p.end + 1]
           /\ UNCHANGED <<stored, failures>>
  <2>1. p.end + 1 \in Int
    BY <1>5
  <2>2. [p EXCEPT !.phase = "done", !.next = p.end + 1] \in Period
    BY <1>4, <2>1, PeriodChanged
  <2>3. periods' = [periods EXCEPT ![n] = [p EXCEPT !.phase = "done", !.next = p.end + 1]]
    BY <1>7 DEF p
  <2>4. periods' \in Seq(Period)
    BY <1>3, <2>2, <2>3, PeriodReplaced
  <2>5. TablesOK'
    BY <1>2, <1>3, <1>7 DEF TablesOK
  <2> QED  BY <1>1, <1>3, <1>7, <2>4, <2>5 DEF RunnerOK, CountersOK
<1>8. CASE /\ \E Rows \in (SUBSET Open) \ {{}} :
                /\ stored' = [stored EXCEPT ![cur[1]] = @ \cup Rows]
                /\ periods' =
                     [periods EXCEPT ![n] =
                        IF IsShort(Rows) \/ p.left = 0 \/ p.pos + Limit > p.end
                          THEN [p EXCEPT !.phase = "done", !.got = TRUE,
                                         !.next = fallback_next(p, MaxOf(Rows) + 1)]
                          ELSE [p EXCEPT !.pos = p.pos + Limit, !.left = p.left - 1,
                                         !.got = TRUE]]
           /\ UNCHANGED <<unavailable, failures>>
  <2> DEFINE ended(Rows) == [p EXCEPT !.phase = "done", !.got = TRUE,
                               !.next = fallback_next(p, MaxOf(Rows) + 1)]
             going == [p EXCEPT !.pos = p.pos + Limit, !.left = p.left - 1, !.got = TRUE]
             last(Rows) == IsShort(Rows) \/ p.left = 0 \/ p.pos + Limit > p.end
  <2>1. PICK Rows \in (SUBSET Open) \ {{}} :
          /\ stored' = [stored EXCEPT ![cur[1]] = @ \cup Rows]
          /\ periods' = [periods EXCEPT ![n] = IF last(Rows) THEN ended(Rows) ELSE going]
    BY <1>8
  <2>2. Rows \in SUBSET ListedIn(cur[1], p.pos, p.end) /\ Rows # {}
    BY <2>1 DEF Open
  <2>3. MaxOf(Rows) \in Int
    BY <1>2, <1>5, <2>2, NextSlotType
  <2>4. fallback_next(p, MaxOf(Rows) + 1) \in Int
    BY <1>5, <2>3 DEF fallback_next, Larger
  <2>5. ended(Rows) \in Period
    BY <1>4, <2>4, PeriodChanged
  <2>6. p.pos + Limit \in Int /\ p.left - 1 \in Int
    BY <1>5, SizeAssumption
  <2>7. going \in Period
    BY <1>4, <2>6, PeriodChanged
  <2> HIDE DEF ended, going, last
  <2>8. periods' \in Seq(Period)
    <3>1. (IF last(Rows) THEN ended(Rows) ELSE going) \in Period
      BY <2>5, <2>7
    <3> QED  BY <1>3, <2>1, <3>1, PeriodReplaced
  <2>9. Rows \in SUBSET Nat
    BY <1>2, <2>2, IntervalAssumption DEF ListedIn
  <2>10. TablesOK'
    BY <1>2, <1>3, <1>8, <2>1, <2>9 DEF TablesOK
  <2> QED  BY <1>1, <1>3, <1>8, <2>8, <2>10 DEF RunnerOK, CountersOK
<1> QED  BY <1>6, <1>7, <1>8 DEF FallbackPage, p, Open

LEMMA PeriodActionsType ==
  ASSUME TypeInv, PeriodActions
  PROVE  TypeInv'
<1>1. ControlInv'
  BY ControlStep DEF TypeInv, Next, Run
<1>2. TablesOK' /\ RunnerOK' /\ CountersOK'
  BY ArchiveFileType, FallbackType DEF PeriodActions
<1>3. UNCHANGED <<task, steps, cur, pc>>
  BY DEF PeriodActions, PeriodStep, ArchiveBatchStored, ArchiveFileEnds, ArchiveFileFails,
     FallbackPage
<1>4. task' \in TaskType /\ StepsOK(steps') /\ CursorOK'
  BY <1>3 DEF TypeInv, StepsOK, CursorOK
<1> QED  BY <1>1, <1>2, <1>4 DEF TypeInv

LEMMA ApplyType ==
  ASSUME TypeInv, ApplyArchiveResults
  PROVE  TypeInv'
<1>1. ControlInv'
  BY ControlStep DEF TypeInv, Next, Run
<1>2. cur \in DOMAIN steps /\ steps[cur] \in Step
  <2>1. cur \in DOMAIN steps
    BY DEF ApplyArchiveResults, TypeInv, CursorOK
  <2> QED  BY <2>1, StepsTypedAt DEF TypeInv
<1>3. periods \in Seq(Period) /\ Len(periods) \in Nat /\ DOMAIN periods = 1 .. Len(periods)
  <2>1. periods \in Seq(Period)
    BY DEF TypeInv, RunnerOK
  <2> QED  BY <2>1
<1> DEFINE nexts == {periods[n].next : n \in DonePrefix}
           cursor == MaxOf({steps[cur].cursor} \cup nexts)
           touched == steps[cur].touched \/ \E n \in DonePrefix : periods[n].got
           applied == [steps[cur] EXCEPT
                         !.cursor = cursor, !.touched = touched,
                         !.status = IF cursor > steps[cur].end THEN "completed" ELSE @]
           failing == [steps[cur] EXCEPT !.cursor = periods[MinOf(Failed)].start,
                                         !.touched = touched, !.status = "error"]
<1>4. DonePrefix \subseteq 1 .. Len(periods) /\ Failed \subseteq 1 .. Len(periods)
  BY <1>3 DEF DonePrefix, Failed
<1>5. \A n \in 1 .. Len(periods) : periods[n].next \in Int /\ periods[n].start \in Int
  BY <1>3, PeriodTyped DEF TypeInv
<1>6. nexts \in SUBSET Int /\ IsFiniteSet(nexts)
  <2> DEFINE f == [n \in DonePrefix |-> periods[n].next]
  <2>1. IsFiniteSet(DonePrefix)
    <3>1. 1 \in Int /\ Len(periods) \in Int
      BY <1>3
    <3> QED  BY <1>4, <3>1, PageProperty
  <2>2. f = [n \in DonePrefix |-> f[n]] /\ nexts = {f[n] : n \in DonePrefix}
    OBVIOUS
  <2> HIDE DEF f
  <2>3. IsFiniteSet({f[n] : n \in DonePrefix})
    BY <2>1, <2>2, FiniteImage
  <2> QED  BY <1>4, <1>5, <2>2, <2>3
<1> HIDE DEF nexts
<1>7. cursor \in Int
  <2>1. steps[cur].cursor \in Int
    BY <1>2 DEF Step
  <2>2. IsFiniteSet({steps[cur].cursor} \cup nexts)
    BY <1>6, FS_Singleton, FS_Union
  <2>3. {steps[cur].cursor} \cup nexts \in SUBSET Int
    BY <1>6, <2>1
  <2> QED  BY <2>2, <2>3, MaxOfProperty
<1>8. touched \in BOOLEAN
  BY <1>2 DEF Step
<1> HIDE DEF cursor, touched
<1>9. applied \in Step
  <2> DEFINE status == IF cursor > steps[cur].end THEN "completed" ELSE steps[cur].status
  <2>1. status \in StepStatus
    BY <1>2 DEF Step, StepStatus
  <2>2. applied = [steps[cur] EXCEPT !.cursor = cursor, !.touched = touched,
                                     !.status = status]
    OBVIOUS
  <2> HIDE DEF applied, status
  <2> QED  BY <1>2, <1>7, <1>8, <2>1, <2>2, StepMoved
<1>10. ASSUME Failed # {} PROVE failing \in Step
  <2>1. Failed \in SUBSET Nat
    BY <1>4
  <2>2. MinOf(Failed) \in Failed
    BY <1>10, <2>1, MinOfProperty
  <2>3. periods[MinOf(Failed)].start \in Int /\ "error" \in StepStatus
    BY <1>4, <1>5, <2>2 DEF StepStatus
  <2> QED  BY <1>2, <1>8, <2>3, StepMoved
<1>11. UNCHANGED <<stored, unavailable, cur, now, tasks, failures, crashes>>
  BY DEF ApplyArchiveResults, bounds
<1>12. \/ /\ steps' = [steps EXCEPT ![cur] = applied]
          /\ Released("loop")
          /\ UNCHANGED task
       \/ /\ Failed # {}
          /\ steps' = [steps EXCEPT ![cur] = failing]
          /\ task' = [task EXCEPT !.status = "error"]
          /\ Released("raise")
  BY DEF ApplyArchiveResults, cursor, touched, nexts
<1> HIDE DEF applied, failing
<1>13. StepsOK(steps') /\ DOMAIN steps' = DOMAIN steps
  <2>1. PICK st \in Step : steps' = [steps EXCEPT ![cur] = st]
    BY <1>9, <1>10, <1>12
  <2> QED  BY <2>1, StepReplaced DEF TypeInv
<1>14. RunnerOK' /\ pc' \in {"loop", "raise"}
  BY <1>12, ReleasedType
<1>15. task' \in TaskType
  BY <1>12 DEF TypeInv, TaskType
<1>16. TablesOK' /\ CountersOK'
  BY <1>11 DEF TypeInv, TablesOK, CountersOK
<1>17. CursorOK'
  BY <1>2, <1>11, <1>13, <1>14 DEF CursorOK
<1> QED  BY <1>1, <1>13, <1>14, <1>15, <1>16, <1>17 DEF TypeInv

\* Failures of the database and of the process, the live feed and time.
LEMMA EnvironmentType ==
  ASSUME TypeInv,
         DatabaseFails \/ Crash \/ Tick \/ \E i \in LiveIntervals : LiveCandle(i)
  PROVE  TypeInv'
<1>1. ControlInv'
  BY ControlStep DEF TypeInv, Next
<1>2. CASE DatabaseFails
  <2>1. UNCHANGED <<stored, unavailable, task, steps, cur, now, tasks, crashes>>
    BY <1>2 DEF DatabaseFails, database
  <2>2. RunnerOK' /\ pc' = "raise" /\ failures' = failures + 1
    BY <1>2, ReleasedType DEF DatabaseFails
  <2> QED
    BY <1>1, <2>1, <2>2 DEF TypeInv, TablesOK, CountersOK, StepsOK, CursorOK
<1>3. CASE Crash
  <2>1. UNCHANGED <<stored, unavailable, task, steps, now, tasks, failures>>
    BY <1>3 DEF Crash, database
  <2>2. RunnerOK' /\ pc' = "idle" /\ cur' = NoKey /\ crashes' = crashes + 1
    BY <1>3, ReleasedType DEF Crash
  <2> QED
    BY <1>1, <2>1, <2>2 DEF TypeInv, TablesOK, CountersOK, StepsOK, CursorOK
<1>4. CASE Tick
  <2>1. UNCHANGED <<stored, unavailable, task, steps, cur, pc, mem, page, left, periods,
                    tasks, failures, crashes>>
    BY <1>4 DEF Tick, database, runner, bounds
  <2>2. now' = now + 1
    BY <1>4 DEF Tick
  <2> QED
    BY <1>1, <2>1, <2>2 DEF TypeInv, TablesOK, CountersOK, StepsOK, CursorOK, RunnerOK
<1>5. ASSUME NEW i \in LiveIntervals, LiveCandle(i) PROVE TypeInv'
  <2>1. UNCHANGED <<unavailable, task, steps, cur, pc, mem, page, left, periods, now,
                    tasks, failures, crashes>>
    BY <1>5 DEF LiveCandle, runner, bounds
  <2>2. TablesOK'
    <3>1. i \in Intervals /\ Listed[i] \in SUBSET Nat
      BY IntervalAssumption
    <3>2. PICK t \in Listed[i] : stored' = [stored EXCEPT ![i] = @ \cup {t}]
      BY <1>5 DEF LiveCandle
    <3> QED  BY <2>1, <3>1, <3>2 DEF TypeInv, TablesOK
  <2> QED
    BY <1>1, <2>1, <2>2 DEF TypeInv, CountersOK, StepsOK, CursorOK, RunnerOK
<1> QED  BY <1>2, <1>3, <1>4, <1>5

LEMMA TypeStep == TypeInv /\ [Next]_vars => TypeInv'
<1> SUFFICES ASSUME TypeInv, [Next]_vars PROVE TypeInv'
  OBVIOUS
<1>1. ASSUME NEW c \in Callers, start_all(c) PROVE TypeInv'
  BY <1>1, StartType
<1>2. CASE Run
  BY <1>2, BetweenStepsType, WaveStartType, PageType, PeriodActionsType, ApplyType DEF Run
<1>3. CASE DatabaseFails \/ Crash \/ Tick \/ \E i \in LiveIntervals : LiveCandle(i)
  BY <1>3, EnvironmentType
<1>4. CASE UNCHANGED vars
  <2>1. ControlInv'
    BY <1>4, ControlStep DEF TypeInv
  <2> QED
    BY <1>4, <2>1 DEF vars, TypeInv, TablesOK, StepsOK, RunnerOK, CountersOK, CursorOK
<1> QED  BY <1>1, <1>2, <1>3, <1>4 DEF Next

LEMMA TypeInvariant == Spec => []TypeInv
BY TypeInit, TypeStep, PTL DEF Spec

\* Every variable always has its type: in particular no request or crash takes the
\* step the coroutine works on away from it, and cursors stay open times.
THEOREM TypeCorrect == Spec => []TypeOK
<1>1. TypeInv => TypeOK
  <2> SUFFICES ASSUME TypeInv PROVE TypeOK
    OBVIOUS
  <2>1. ControlOK
    BY DEF TypeInv, ControlInv
  <2>2. cur \in DOMAIN steps \cup {NoKey}
    BY DEF TypeInv, CursorOK
  <2> QED
    BY <2>1, <2>2 DEF TypeInv, TypeOK, ControlOK, TablesOK, StepsOK, RunnerOK, CountersOK,
       TaskType
<1> QED  BY <1>1, TypeInvariant, PTL

-----------------------------------------------------------------------------
(***************************************************************************)
(* Resuming a task                                                         *)
(***************************************************************************)

\* A step that has stored rows is kept by a resumption, with its cursor.
LEMMA ResumeKeeps ==
  ASSUME TypeInv, resume_task, NEW k \in DOMAIN steps, steps[k].touched
  PROVE  k \in DOMAIN steps' /\ steps'[k].cursor = steps[k].cursor
<1> DEFINE kept == [l \in {m \in DOMAIN steps : ~Untouched(m)} |->
                      IF steps[l].status = "error"
                        THEN [steps[l] EXCEPT !.status = "pending"] ELSE steps[l]]
<1>1. PICK plan : steps' = WithPlan(kept, plan)
  BY DEF resume_task
<1>2. k \in DOMAIN kept
  BY DEF Untouched
<1>3. kept[k].cursor = steps[k].cursor
  <2>1. steps[k] \in Step
    BY StepsTypedAt DEF TypeInv
  <2>2. [steps[k] EXCEPT !.status = "pending"].cursor = steps[k].cursor
    BY <2>1 DEF Step
  <2>3. kept[k] = IF steps[k].status = "error"
                    THEN [steps[k] EXCEPT !.status = "pending"] ELSE steps[k]
    BY <1>2
  <2> QED  BY <2>2, <2>3
<1> HIDE DEF kept
<1>4. k \in DOMAIN steps' /\ steps'[k] = kept[k]
  BY <1>1, <1>2 DEF WithPlan
<1> QED  BY <1>3, <1>4

\* Without a coroutine only planning changes the steps of a task, and planning it
\* again loses no download: a step that has stored rows goes on at its cursor.
THEOREM ResumptionKeepsProgress == Spec => ResumeKeepsProgress
<1> DEFINE Keeps == \A k \in DOMAIN steps :
                      pc = "idle" /\ tasks' = tasks /\ steps[k].touched
                        => k \in DOMAIN steps' /\ steps'[k].cursor = steps[k].cursor
<1>1. TypeInv /\ [Next]_vars => [Keeps]_vars
  <2> SUFFICES ASSUME TypeInv, Next, pc = "idle", tasks' = tasks,
                      NEW k \in DOMAIN steps, steps[k].touched
               PROVE  k \in DOMAIN steps' /\ steps'[k].cursor = steps[k].cursor
    BY DEF vars
  <2>1. ASSUME NEW c \in Callers, StartPlan(c)
        PROVE  k \in DOMAIN steps' /\ steps'[k].cursor = steps[k].cursor
    <3>1. ~create_task
      BY DEF create_task, TypeInv, CountersOK
    <3> QED  BY <2>1, <3>1, ResumeKeeps DEF StartPlan
  <2>2. ASSUME NEW c \in Callers, start_all(c), ~StartPlan(c) PROVE UNCHANGED steps
    BY <2>2 DEF start_all, StartCheck, StartLocked, StartFails, StartSpawn, database
  <2>3. CASE Run
    <3>1. RunBegin
      BY <2>3 DEF Run, PickStep, RunCompletes, RunEnds, RunRaises, StepDone, WaveStart,
         PageFails, PageEmpty, PageStored, WaveCommit, PeriodActions, PeriodStep,
         ArchiveBatchStored, ArchiveFileEnds, ArchiveFileFails, FallbackPage,
         ApplyArchiveResults
    <3> QED  BY <3>1 DEF RunBegin, database
  <2>4. CASE DatabaseFails \/ Tick \/ Crash \/ \E i \in LiveIntervals : LiveCandle(i)
    BY <2>4 DEF DatabaseFails, Tick, Crash, LiveCandle, database
  <2> QED  BY <2>1, <2>2, <2>3, <2>4 DEF Next
<1> QED  BY <1>1, TypeInvariant, PTL DEF Spec, ResumeKeepsProgress, Keeps
-----------------------------------------------------------------------------
(***************************************************************************)
(* Coverage: nothing listed is remembered as unavailable, and, unless an   *)
(* archive file is longer than a wave of pages, nothing listed is left     *)
(* behind a cursor, in a completed step, or by a task that completed       *)
(* without a resume.                                                       *)
(***************************************************************************)

\* An empty page means that nothing is listed.
LEMMA EmptyPage ==
  ASSUME NEW Rows, IsKlinePage({}, Rows, Limit)
  PROVE  Rows = {}
<1>1. Cardinality({}) = 0
  BY FS_EmptySet
<1>2. 0 < Limit
  BY SizeAssumption
<1> QED  BY <1>1, <1>2 DEF IsKlinePage

LEMMA UnavailableStep ==
  ASSUME TypeInv, UnavailableSound, [Next]_vars
  PROVE  UnavailableSound'
<1>1. CASE PageEmpty
  <2>1. ListedIn(cur[1], page, mem.end) = {}
    BY <1>1, EmptyPage DEF PageEmpty
  <2>2. unavailable' = [unavailable EXCEPT ![cur[1]] = @ \cup (page .. mem.end)]
    BY <1>1 DEF PageEmpty, unavailable_range
  <2> QED  BY <2>1, <2>2 DEF UnavailableSound, ListedIn, TypeInv, TablesOK
<1>2. ASSUME NEW n \in DOMAIN periods, FallbackPage(n) PROVE UnavailableSound'
  <2> DEFINE p == periods[n]
  <2>1. \/ UNCHANGED unavailable
        \/ /\ IsKlinePage({}, ListedIn(cur[1], p.pos, p.end), Limit)
           /\ unavailable' = [unavailable EXCEPT ![cur[1]] = @ \cup (p.pos .. p.end)]
    BY <1>2 DEF FallbackPage
  <2> HIDE DEF p
  <2>2. CASE UNCHANGED unavailable
    BY <2>2 DEF UnavailableSound
  <2>3. CASE ~ UNCHANGED unavailable
    <3>1. ListedIn(cur[1], p.pos, p.end) = {}
      BY <2>1, <2>3, EmptyPage
    <3> QED  BY <2>1, <2>3, <3>1 DEF UnavailableSound, ListedIn, TypeInv, TablesOK
  <2> QED  BY <2>2, <2>3
<1>3. CASE UNCHANGED unavailable
  BY <1>3 DEF UnavailableSound
<1>4. CASE Run /\ ~PageEmpty /\ ~(\E n \in DOMAIN periods : FallbackPage(n))
  <2>1. UNCHANGED unavailable
    BY <1>4 DEF Run, RunBegin, PickStep, RunCompletes, RunEnds, RunRaises, StepDone,
       WaveStart, PageFails, PageStored, WaveCommit, PeriodActions, ArchiveBatchStored,
       ArchiveFileEnds, ArchiveFileFails, ApplyArchiveResults, database
  <2> QED  BY <1>3, <2>1
<1>5. CASE \/ \E c \in Callers : start_all(c)
           \/ DatabaseFails \/ Tick \/ Crash
           \/ \E i \in LiveIntervals : LiveCandle(i)
           \/ UNCHANGED vars
  <2>1. UNCHANGED unavailable
    BY <1>5 DEF start_all, StartCheck, StartLocked, StartPlan, StartFails, StartSpawn,
       DatabaseFails, Tick, Crash, LiveCandle, database, vars
  <2> QED  BY <1>3, <2>1
<1> QED  BY <1>1, <1>2, <1>4, <1>5 DEF Next

\* No slot the exchange lists is ever remembered as unavailable, so the planner
\* never excludes one for good.
THEOREM UnavailableIsSound == Spec => []UnavailableSound
<1>1. Init => UnavailableSound
  BY DEF Init, UnavailableSound
<1>2. TypeInv /\ UnavailableSound /\ [Next]_vars => UnavailableSound'
  BY UnavailableStep
<1> QED  BY <1>1, <1>2, TypeInvariant, PTL DEF Spec

-----------------------------------------------------------------------------
(***************************************************************************)
(* Coverage of gaps                                                        *)
(***************************************************************************)

\* Every slot of step k that is listed before slot next is in the table.
Covered(table, k, next) == ListedIn(k[1], k[2], next - 1) \subseteq table[k[1]]

\* The cursor of a step, in the table or in the coroutine's hands, has only stored
\* slots behind it, and a completed step has nothing left.
StepCovered(table, k, st) ==
  /\ Covered(table, k, st.cursor)
  /\ st.status = "completed" => Covered(table, k, st.end + 1)

\* What archive files must be for a gap to be covered: the wave of pages that replaces a file
\* which breaks off must be able to replace all of it, and a file has a usable row for every
\* listed candle.
FilesFit ==
  ArchiveEnabled =>
    \A i \in Intervals :
      /\ MonthSlots[i] <= WavePages * Limit /\ DaySlots[i] <= WavePages * Limit
      /\ Listed[i] \subseteq FileRows[i]

\* The period is covered up to its position, and, when it is done, to its end; what its fallback
\* has not asked for yet is in reach of the pages it has left.
PeriodCovered(table, i, p) ==
  /\ p.start <= p.end /\ p.end < p.start + WavePages * Limit
  /\ p.phase \in {"file", "rest"} => ListedIn(i, p.start, p.pos - 1) \subseteq table[i]
  /\ p.phase = "rest" => p.left \in Nat /\ p.end < p.pos + (p.left + 1) * Limit
  /\ p.phase = "done" => p.next = p.end + 1 /\ ListedIn(i, p.start, p.end) \subseteq table[i]

\* The first period begins at the cursor, each other one behind the one before it.
PeriodFollows(n) ==
  /\ periods[n].start = IF n = 1 THEN steps[cur].cursor ELSE periods[n - 1].end + 1
  /\ periods[n].end <= steps[cur].end

ArchiveCovered ==
  pc = "archive" =>
    /\ ArchiveEnabled
    /\ \A n \in DOMAIN periods : PeriodFollows(n) /\ PeriodCovered(stored, cur[1], periods[n])

CoverInv ==
  /\ ArchiveCovered
  /\ \A k \in DOMAIN steps : StepCovered(stored, k, steps[k])
  /\ pc \in {"page", "commit"} => mem.end = steps[cur].end /\ StepCovered(stored, cur, mem)
  /\ pc = "page" => Covered(stored, cur, page)

\* Storing more never uncovers a slot.
LEMMA StepCoveredStays ==
  ASSUME NEW old, NEW new, \A i \in Intervals : old[i] \subseteq new[i],
         NEW k \in Keys, NEW st, StepCovered(old, k, st)
  PROVE  StepCovered(new, k, st)
<1>1. k[1] \in Intervals
  BY DEF Keys
<1> QED  BY <1>1 DEF StepCovered, Covered

\* A page stores everything listed up to its last row; a full page everything
\* listed in its width; a short page everything to the end.
LEMMA PageCovers ==
  ASSUME NEW i \in Intervals, NEW start \in Int, NEW end \in Int,
         NEW Rows \in SUBSET ListedIn(i, start, end), Rows # {},
         IsKlinePage(Rows, ListedIn(i, start, end), Limit)
  PROVE  /\ ListedIn(i, start, MaxOf(Rows)) \subseteq Rows
         /\ IsShort(Rows) => ListedIn(i, start, end) \subseteq Rows
         /\ ~IsShort(Rows) /\ start + Limit <= end =>
              ListedIn(i, start, start + Limit - 1) \subseteq Rows
         /\ start + Limit > end => ListedIn(i, start, end) \subseteq Rows
<1>1. /\ MaxOf(Rows) \in Int /\ MaxOf(Rows) \in Rows
      /\ \A t \in Rows : t <= MaxOf(Rows)
  BY NextSlotType
<1>2. \A t \in Rows : t \in Int /\ start <= t /\ t <= end
  BY DEF ListedIn
<1>3. \A t \in Rows, u \in ListedIn(i, start, end) : u < t => u \in Rows
  BY DEF IsKlinePage
<1>4. ListedIn(i, start, MaxOf(Rows)) \subseteq Rows
  <2> SUFFICES ASSUME NEW u \in ListedIn(i, start, MaxOf(Rows)) PROVE u \in Rows
    OBVIOUS
  <2>1. u \in ListedIn(i, start, end) /\ u \in Int /\ u <= MaxOf(Rows)
    BY <1>1, <1>2 DEF ListedIn
  <2>2. CASE u = MaxOf(Rows)
    BY <1>1, <2>2
  <2>3. CASE u < MaxOf(Rows)
    BY <1>1, <1>3, <2>1, <2>3
  <2> QED  BY <1>1, <2>1, <2>2, <2>3
<1>5. IsShort(Rows) => ListedIn(i, start, end) \subseteq Rows
  BY DEF IsShort, IsKlinePage
<1>6. ASSUME ~IsShort(Rows), NEW u \in ListedIn(i, start, end), u <= start + Limit - 1
      PROVE  u \in Rows
  <2> SUFFICES ASSUME u \notin Rows PROVE FALSE
    OBVIOUS
  <2>1. Limit \in Nat
    BY SizeAssumption
  <2>2. u \in Int /\ start <= u /\ u <= start + Limit - 1
    BY <1>6 DEF ListedIn
  <2>4. Rows \subseteq start .. u - 1
    <3> SUFFICES ASSUME NEW t \in Rows PROVE t \in start .. u - 1
      OBVIOUS
    <3>1. t # u
      OBVIOUS
    <3>2. ~ (u < t)
      BY <1>3
    <3> QED  BY <1>2, <2>2, <3>1, <3>2
  <2>5. /\ IsFiniteSet(start .. u - 1)
        /\ Cardinality(start .. u - 1) = u - start
    <3> DEFINE w == u - 1
    <3>1. w \in Int
      BY <2>2
    <3>2. (IF start > w THEN 0 ELSE w - start + 1) = u - start
      BY <2>2
    <3> HIDE DEF w
    <3>3. /\ IsFiniteSet(start .. w)
          /\ Cardinality(start .. w) = IF start > w THEN 0 ELSE w - start + 1
      BY <3>1, FS_Interval
    <3> QED  BY <3>2, <3>3 DEF w
  <2>6. IsFiniteSet(Rows) /\ Cardinality(Rows) <= u - start /\ Cardinality(Rows) \in Nat
    <3>1. Rows \in SUBSET (start .. u - 1)
      BY <2>4
    <3>2. IsFiniteSet(Rows) /\ Cardinality(Rows) <= Cardinality(start .. u - 1)
      BY ONLY <2>5, <3>1, FS_Subset
    <3>3. Cardinality(Rows) \in Nat
      BY ONLY <3>2, FS_CardinalityType
    <3> QED  BY <2>5, <3>2, <3>3
  <2> QED  BY <1>6, <2>1, <2>2, <2>6 DEF IsShort
<1>7. ASSUME ~IsShort(Rows), start + Limit <= end
      PROVE  ListedIn(i, start, start + Limit - 1) \subseteq Rows
  <2> SUFFICES ASSUME NEW u \in ListedIn(i, start, start + Limit - 1) PROVE u \in Rows
    OBVIOUS
  <2>1. u \in ListedIn(i, start, end) /\ u <= start + Limit - 1
    BY <1>7, SizeAssumption DEF ListedIn
  <2> QED  BY <1>6, <1>7, <2>1
<1>8. ASSUME start + Limit > end PROVE ListedIn(i, start, end) \subseteq Rows
  <2> SUFFICES ASSUME ~IsShort(Rows), NEW u \in ListedIn(i, start, end) PROVE u \in Rows
    BY <1>5
  <2>1. u <= start + Limit - 1
    BY <1>8, SizeAssumption DEF ListedIn
  <2> QED  BY <1>6, <2>1
<1> QED  BY <1>4, <1>5, <1>7, <1>8

\* A step that leaves everything as it is.
LEMMA CoverStays ==
  ASSUME CoverInv, UNCHANGED <<stored, steps, pc, cur, mem, page, periods>>
  PROVE  CoverInv'
<1>1. ArchiveCovered'
  BY DEF CoverInv, ArchiveCovered, PeriodFollows
<1> QED  BY <1>1 DEF CoverInv

LEMMA CoverStart ==
  ASSUME TypeInv, CoverInv, NEW c \in Callers, start_all(c)
  PROVE  CoverInv'
<1>1. UNCHANGED <<stored, pc, cur, mem, page, periods>>
  BY DEF start_all, StartCheck, StartLocked, StartPlan, StartFails, StartSpawn, database,
     runner
<1>2. CASE StartPlan(c)
  <2>1. pc = "idle"
    BY <1>2 DEF StartPlan, TypeInv, ControlInv, LockExcludes, Busy
  <2>2. ASSUME NEW kept, NEW plan, StepsOK(kept), steps' = WithPlan(kept, plan),
               \A k \in DOMAIN kept : StepCovered(stored, k, kept[k]),
               StepsOK(steps')
        PROVE  \A k \in DOMAIN steps' : StepCovered(stored, k, steps'[k])
    <3> SUFFICES ASSUME NEW k \in DOMAIN steps' PROVE StepCovered(stored, k, steps'[k])
      OBVIOUS
    <3>1. CASE k \in DOMAIN kept
      <4>1. steps'[k] = kept[k]
        BY <2>2, <3>1 DEF WithPlan
      <4> QED  BY <2>2, <3>1, <4>1
    <3>2. CASE k \notin DOMAIN kept
      <4>1. steps'[k].cursor = k[2] /\ steps'[k].status = "pending"
        BY <2>2, <3>2 DEF WithPlan, NewStep
      <4>2. k[2] \in Int
        BY <2>2 DEF StepsOK, Keys
      <4>3. ListedIn(k[1], k[2], k[2] - 1) = {}
        BY <4>2 DEF ListedIn
      <4> QED  BY <4>1, <4>3 DEF StepCovered, Covered
    <3> QED  BY <3>1, <3>2
  <2>3. StepsOK(steps')
    BY <1>2, CreateType, ResumeType DEF StartPlan, TypeInv
  <2>4. CASE create_task
    <3>1. steps' = WithPlan(<<>>, plan_candle_missing_ranges(now)) /\ StepsOK(<<>>)
      BY <2>4 DEF create_task, StepsOK
    <3>2. \A k \in DOMAIN <<>> : StepCovered(stored, k, <<>>[k])
      OBVIOUS
    <3>3. \A k \in DOMAIN steps' : StepCovered(stored, k, steps'[k])
      BY <2>2, <2>3, <3>1, <3>2
    <3> QED  BY <1>1, <2>1, <3>3 DEF CoverInv, ArchiveCovered
  <2>5. CASE resume_task
    <3> DEFINE kept == [k \in {l \in DOMAIN steps : ~Untouched(l)} |->
                          IF steps[k].status = "error"
                            THEN [steps[k] EXCEPT !.status = "pending"] ELSE steps[k]]
    <3>1. PICK plan : steps' = WithPlan(kept, plan)
      BY <2>5 DEF resume_task
    <3>2. \A k \in DOMAIN kept : StepCovered(stored, k, kept[k])
      <4> SUFFICES ASSUME NEW k \in DOMAIN kept PROVE StepCovered(stored, k, kept[k])
        OBVIOUS
      <4>1. StepCovered(stored, k, steps[k]) /\ steps[k] \in Step
        BY StepsTypedAt DEF CoverInv, TypeInv
      <4>2. /\ kept[k].cursor = steps[k].cursor
            /\ kept[k].end = steps[k].end
            /\ kept[k].status = "completed" => steps[k].status = "completed"
        BY <4>1 DEF Step
      <4> QED  BY <4>1, <4>2 DEF StepCovered
    <3>3. StepsOK(kept)
      <4>1. \A k \in DOMAIN steps : steps[k] \in Step /\ k \in Keys
        BY StepsTypedAt DEF TypeInv
      <4>2. \A k \in DOMAIN steps : [steps[k] EXCEPT !.status = "pending"] \in Step
        BY <4>1 DEF Step, StepStatus
      <4> QED  BY <4>1, <4>2 DEF StepsOK
    <3> HIDE DEF kept
    <3>4. \A k \in DOMAIN steps' : StepCovered(stored, k, steps'[k])
      BY <2>2, <2>3, <3>1, <3>2, <3>3
    <3> QED  BY <1>1, <2>1, <3>4 DEF CoverInv, ArchiveCovered
  <2> QED  BY <1>2, <2>4, <2>5 DEF StartPlan
<1>3. CASE ~StartPlan(c)
  <2>1. UNCHANGED steps
    BY <1>3 DEF start_all, StartCheck, StartLocked, StartFails, StartSpawn, database
  <2> QED  BY <1>1, <2>1, CoverStays
<1> QED  BY <1>2, <1>3

\* Outside the waves the coroutine only changes the status of steps, and only to
\* completed when the cursor has passed the end.
LEMMA CoverBetweenSteps ==
  ASSUME TypeInv, CoverInv,
         RunBegin \/ PickStep \/ RunCompletes \/ RunEnds \/ RunRaises \/ StepDone
  PROVE  CoverInv'
<1>1. UNCHANGED stored /\ pc' \in {"pick", "loop", "finish", "idle"}
  BY DEF RunBegin, PickStep, RunCompletes, RunEnds, RunRaises, StepDone, Released, database
<1>2. CASE PickStep
  <2>1. PICK k \in DOMAIN steps : steps' = [steps EXCEPT ![k].status = "running"]
    BY <1>2 DEF PickStep, OpenSteps
  <2>2. ASSUME NEW l \in DOMAIN steps' PROVE StepCovered(stored, l, steps'[l])
    <3>1. l \in DOMAIN steps /\ steps[l] \in Step /\ StepCovered(stored, l, steps[l])
      BY <2>1, StepsTypedAt DEF CoverInv, TypeInv
    <3>2. /\ steps'[l].cursor = steps[l].cursor /\ steps'[l].end = steps[l].end
          /\ steps'[l].status = "completed" => steps[l].status = "completed"
      BY <2>1, <3>1 DEF Step
    <3> QED  BY <3>1, <3>2 DEF StepCovered
  <2> QED  BY <1>1, <2>2 DEF CoverInv, ArchiveCovered
<1>3. CASE StepDone
  <2>1. /\ cur \in DOMAIN steps /\ steps[cur].cursor > steps[cur].end
        /\ steps' = [steps EXCEPT ![cur].status = "completed"]
    BY <1>3 DEF StepDone, TypeInv, CursorOK
  <2>2. ASSUME NEW l \in DOMAIN steps' PROVE StepCovered(stored, l, steps'[l])
    <3>1. l \in DOMAIN steps /\ steps[l] \in Step /\ StepCovered(stored, l, steps[l])
      BY <2>1, StepsTypedAt DEF CoverInv, TypeInv
    <3>2. steps'[l].cursor = steps[l].cursor /\ steps'[l].end = steps[l].end
      BY <2>1, <3>1 DEF Step
    <3>3. l = cur => Covered(stored, l, steps[l].end + 1)
      <4>1. steps[l].cursor \in Int /\ steps[l].end \in Int
        BY <3>1 DEF Step
      <4> SUFFICES ASSUME l = cur,
                          NEW t \in ListedIn(l[1], l[2], (steps[l].end + 1) - 1)
                   PROVE  t \in stored[l[1]]
        BY DEF Covered
      <4>2. t \in ListedIn(l[1], l[2], steps[l].cursor - 1)
        BY <2>1, <4>1 DEF ListedIn
      <4> QED  BY <3>1, <4>2 DEF StepCovered, Covered
    <3>4. l # cur => steps'[l] = steps[l]
      BY <2>1, <3>1
    <3> QED  BY <3>1, <3>2, <3>3, <3>4 DEF StepCovered
  <2> QED  BY <1>1, <2>2 DEF CoverInv, ArchiveCovered
<1>4. CASE RunBegin \/ RunCompletes \/ RunEnds \/ RunRaises
  <2>1. UNCHANGED steps
    BY <1>4 DEF RunBegin, RunCompletes, RunEnds, RunRaises, database
  <2> QED  BY <1>1, <2>1 DEF CoverInv, ArchiveCovered
<1> QED  BY <1>2, <1>3, <1>4

\* A file ends at most a wave of pages behind its start.
LEMMA PeriodFits ==
  ASSUME FilesFit, ArchiveEnabled, NEW i \in Intervals, NEW start \in Int, NEW end \in Int,
         NEW last \in select_archive_period(i, start, end)
  PROVE  last \in Int /\ start <= last /\ last <= end /\ last < start + WavePages * Limit
<1>1. PICK w : w = WavePages * Limit /\ w \in Nat
  <2>1. WavePages * Limit \in Nat
    BY SizeAssumption
  <2> QED  BY <2>1
<1>2. Limit \in Nat /\ MonthSlots[i] \in Nat \ {0} /\ DaySlots[i] \in Nat
  BY SizeAssumption, IntervalAssumption
<1>3. MonthSlots[i] <= w /\ DaySlots[i] <= w
  BY <1>1 DEF FilesFit
<1>4. ASSUME NEW size \in Nat \ {0}
      PROVE  BlockEnd(start, size) \in Int /\ BlockEnd(start, size) < start + size
  <2>1. PICK q : q = start \div size
    OBVIOUS
  <2>2. q \in Int /\ q * size <= start
    BY <2>1, DivBounds
  <2>3. (q + 1) * size = q * size + size /\ q * size \in Int
    BY <2>2
  <2> QED  BY <2>1, <2>2, <2>3 DEF BlockEnd
<1>5. CASE last = BlockEnd(start, MonthSlots[i]) /\ last <= end /\ last - start + 1 > Limit
  <2>1. last \in Int /\ last < start + MonthSlots[i]
    BY <1>2, <1>4, <1>5
  <2> QED  BY <1>1, <1>2, <1>3, <1>5, <2>1
<1>6. CASE /\ last = Smaller(end, BlockEnd(start, DaySlots[i])) /\ DaySlots[i] > 0
           /\ last - start + 1 > Limit
  <2>1. BlockEnd(start, DaySlots[i]) \in Int /\ BlockEnd(start, DaySlots[i]) < start + DaySlots[i]
    BY <1>2, <1>4, <1>6
  <2>2. last \in Int /\ last <= end /\ last < start + DaySlots[i]
    BY <1>2, <1>6, <2>1 DEF Smaller
  <2> QED  BY <1>1, <1>2, <1>3, <1>6, <2>2
<1> QED  BY <1>5, <1>6 DEF select_archive_period

\* A wave of REST pages or of archive files begins at the cursor.
LEMMA CoverWave ==
  ASSUME TypeInv, CoverInv, TypeInv', WaveStart, FilesFit
  PROVE  CoverInv'
<1>1. cur \in DOMAIN steps /\ UNCHANGED <<stored, steps, cur>>
  BY DEF WaveStart, WaveBegins, TypeInv, CursorOK
<1>2. CASE WaveBegins
  <2>1. mem' = steps[cur] /\ page' = steps[cur].cursor /\ pc' = "page"
    BY <1>2 DEF WaveBegins
  <2>2. StepCovered(stored, cur, steps[cur])
    BY <1>1 DEF CoverInv
  <2> QED  BY <1>1, <2>1, <2>2 DEF CoverInv, ArchiveCovered, StepCovered, Covered
<1>3. CASE ~WaveBegins
  <2> DEFINE start == steps[cur].cursor
             end == steps[cur].end
             first(ends, n) == IF n = 1 THEN start ELSE ends[n - 1] + 1
             period(ends, n) == [start |-> first(ends, n), end |-> ends[n],
                                 pos |-> first(ends, n), left |-> 0,
                                 next |-> first(ends, n), got |-> FALSE,
                                 phase |-> "file"]
  <2>1. PICK ends \in IF ArchiveEnabled THEN EndSequences(start, end) ELSE {<<>>} :
          /\ ends # <<>>
          /\ ArchiveEnabled => collect_archive_periods(cur[1], start, end, ends)
          /\ periods' = [n \in 1 .. Len(ends) |-> period(ends, n)]
          /\ pc' = "archive"
          /\ UNCHANGED <<steps, mem, page>>
    BY <1>3 DEF WaveStart
  <2>2. ArchiveEnabled
    BY <2>1
  <2>3. PICK m \in 0 .. ArchiveWave : ends \in [1 .. m -> start .. end]
    BY <2>1, <2>2 DEF EndSequences
  <2>4. m \in Nat /\ Len(ends) = m /\ DOMAIN ends = 1 .. m
    BY <2>3, SizeAssumption
  <2>5. start \in Int /\ end \in Int /\ cur[1] \in Intervals
    BY <1>1, StepsTypedAt DEF TypeInv, Step, Keys
  <2>6. \A n \in 1 .. m : ends[n] \in select_archive_period(cur[1], first(ends, n), end)
    BY <2>1, <2>2, <2>4 DEF collect_archive_periods
  <2>7. DOMAIN periods' = 1 .. m /\ \A n \in 1 .. m : periods'[n] = period(ends, n)
    BY <2>1, <2>4
  <2> HIDE DEF start, end
  <2>8. ASSUME NEW n \in 1 .. m
        PROVE  /\ periods'[n].start = IF n = 1 THEN start ELSE periods'[n - 1].end + 1
               /\ periods'[n].end <= end /\ PeriodCovered(stored, cur[1], periods'[n])
    <3>1. n # 1 => n - 1 \in 1 .. m
      BY <2>4
    <3>2. first(ends, n) \in Int
      BY <2>3, <2>5, <3>1
    <3>3. PICK f, e : f = first(ends, n) /\ e = ends[n]
      OBVIOUS
    <3>4. f \in Int /\ e \in Int /\ f <= e /\ e <= end /\ e < f + WavePages * Limit
      BY <2>2, <2>5, <2>6, <3>2, <3>3, PeriodFits
    <3>5. /\ periods'[n].start = f /\ periods'[n].pos = f /\ periods'[n].end = e
          /\ periods'[n].phase = "file"
      BY <2>7, <3>3
    <3>6. n # 1 => periods'[n - 1].end = ends[n - 1]
      BY <2>7, <3>1
    <3>7. ListedIn(cur[1], f, f - 1) = {}
      BY <3>4 DEF ListedIn
    <3>8. PeriodCovered(stored, cur[1], periods'[n])
      BY <3>4, <3>5, <3>7 DEF PeriodCovered
    <3> QED  BY <3>3, <3>4, <3>5, <3>6, <3>8
  <2>9. ArchiveCovered'
    BY <1>1, <2>2, <2>7, <2>8 DEF ArchiveCovered, PeriodFollows, start, end
  <2> QED  BY <1>1, <2>1, <2>9 DEF CoverInv
<1> QED  BY <1>2, <1>3

LEMMA CoverPage ==
  ASSUME TypeInv, CoverInv, TypeInv', PageFails \/ PageEmpty \/ PageStored \/ WaveCommit
  PROVE  CoverInv'
<1>1. cur \in DOMAIN steps /\ cur \in Keys /\ cur[1] \in Intervals /\ cur[2] \in Int
  <2>1. cur \in DOMAIN steps
    BY DEF PageFails, PageEmpty, PageStored, WaveCommit, TypeInv, CursorOK
  <2> QED  BY <2>1 DEF TypeInv, StepsOK, Keys
<1>2. /\ mem \in Step /\ mem.end \in Int /\ mem.cursor \in Int
      /\ mem.status \in StepStatus /\ page \in Int /\ Limit \in Nat
  BY SizeAssumption DEF TypeInv, RunnerOK, Step
<1>3. pc \in {"page", "commit"} /\ StepCovered(stored, cur, mem) /\ mem.end = steps[cur].end
  BY DEF PageFails, PageEmpty, PageStored, WaveCommit, CoverInv
<1>4. \A i \in Intervals : stored[i] \subseteq stored'[i]
  <2>1. CASE UNCHANGED stored
    BY <2>1
  <2>2. CASE PageStored
    <3>1. PICK Rows : stored' = [stored EXCEPT ![cur[1]] = stored[cur[1]] \cup Rows]
      BY <2>2 DEF PageStored
    <3>2. stored \in [Intervals -> SUBSET Nat]
      BY DEF TypeInv, TablesOK
    <3> QED  BY <3>1, <3>2
  <2> QED  BY <2>1, <2>2 DEF PageFails, PageEmpty, WaveCommit
<1>5. \A k \in DOMAIN steps : StepCovered(stored', k, steps[k])
  <2>1. \A k \in DOMAIN steps : k \in Keys /\ StepCovered(stored, k, steps[k])
    BY DEF CoverInv, TypeInv, StepsOK
  <2> QED  BY <1>4, <2>1, StepCoveredStays
<1>6. StepCovered(stored', cur, mem)
  BY <1>1, <1>3, <1>4, StepCoveredStays
<1>7. ASSUME NEW st, steps' = [steps EXCEPT ![cur] = st], StepCovered(stored', cur, st)
      PROVE  \A k \in DOMAIN steps' : StepCovered(stored', k, steps'[k])
  <2> SUFFICES ASSUME NEW k \in DOMAIN steps PROVE StepCovered(stored', k, steps'[k])
    BY <1>7
  <2>1. CASE k = cur
    BY <1>1, <1>7, <2>1
  <2>2. CASE k # cur
    BY <1>5, <1>7, <2>2
  <2> QED  BY <2>1, <2>2
<1>8. CASE PageFails
  <2> DEFINE st == [mem EXCEPT !.cursor = page, !.status = "error"]
  <2>1. /\ Covered(stored, cur, page) /\ UNCHANGED stored
        /\ steps' = [steps EXCEPT ![cur] = st] /\ pc' = "raise"
    BY <1>8 DEF PageFails, CoverInv, Released
  <2>2. st.cursor = page /\ st.status = "error"
    BY <1>2 DEF Step
  <2>3. StepCovered(stored', cur, st)
    BY <2>1, <2>2 DEF StepCovered
  <2> HIDE DEF st
  <2> QED  BY <1>7, <2>1, <2>3 DEF CoverInv, ArchiveCovered
<1>9. CASE PageEmpty
  <2> DEFINE st == [mem EXCEPT !.cursor = mem.end + 1, !.status = "completed"]
  <2>1. /\ Covered(stored, cur, page) /\ UNCHANGED stored
        /\ steps' = [steps EXCEPT ![cur] = st] /\ pc' = "loop"
    BY <1>9 DEF PageEmpty, CoverInv, Released
  <2>2. st.cursor = mem.end + 1 /\ st.end = mem.end
    BY <1>2 DEF Step
  <2>3. ListedIn(cur[1], page, mem.end) = {}
    BY <1>9, EmptyPage DEF PageEmpty
  <2>4. Covered(stored', cur, mem.end + 1)
    <3> SUFFICES ASSUME NEW t \in ListedIn(cur[1], cur[2], (mem.end + 1) - 1)
                 PROVE  t \in stored[cur[1]]
      BY <2>1 DEF Covered
    <3>1. t \in Int /\ t <= mem.end
      BY <1>2 DEF ListedIn
    <3>2. t \notin page .. mem.end
      BY <2>3 DEF ListedIn
    <3>3. t \in ListedIn(cur[1], cur[2], page - 1)
      BY <1>2, <3>1, <3>2 DEF ListedIn
    <3> QED  BY <2>1, <3>3 DEF Covered
  <2>5. StepCovered(stored', cur, st)
    BY <2>2, <2>4 DEF StepCovered
  <2> HIDE DEF st
  <2> QED  BY <1>7, <2>1, <2>5 DEF CoverInv, ArchiveCovered
<1>10. CASE WaveCommit
  <2>1. steps' = [steps EXCEPT ![cur] = mem] /\ pc' = "loop"
    BY <1>10 DEF WaveCommit, Released
  <2> QED  BY <1>6, <1>7, <2>1 DEF CoverInv, ArchiveCovered
<1>11. CASE PageStored
  <2>1. PICK Rows \in SUBSET ListedIn(cur[1], page, mem.end) :
          /\ Rows # {}
          /\ IsKlinePage(Rows, ListedIn(cur[1], page, mem.end), Limit)
          /\ stored' = [stored EXCEPT ![cur[1]] = @ \cup Rows]
          /\ steps' = [steps EXCEPT ![cur] = [mem EXCEPT !.touched = TRUE]]
          /\ mem' = [mem EXCEPT !.touched = TRUE, !.cursor = MaxOf(Rows) + 1,
                                !.status = IF IsShort(Rows) THEN "completed" ELSE @]
          /\ \/ pc' = "commit"
             \/ /\ pc' = "page" /\ page' = page + Limit
                /\ ~IsShort(Rows) /\ ~ (page + Limit > mem.end)
          /\ UNCHANGED cur
    BY <1>11 DEF PageStored
  <2>2. Covered(stored, cur, page) /\ stored'[cur[1]] = stored[cur[1]] \cup Rows
    BY <1>1, <1>11, <2>1 DEF PageStored, CoverInv, TypeInv, TablesOK
  <2>3. MaxOf(Rows) \in Int
    BY <1>1, <1>2, <2>1, NextSlotType
  <2>4. ASSUME NEW last \in Int, ListedIn(cur[1], page, last) \subseteq Rows
        PROVE  Covered(stored', cur, last + 1)
    <3> SUFFICES ASSUME NEW t \in ListedIn(cur[1], cur[2], (last + 1) - 1)
                 PROVE  t \in stored'[cur[1]]
      BY DEF Covered
    <3>1. t \in Int /\ t <= last
      BY <2>4 DEF ListedIn
    <3>2. CASE t < page
      <4>1. t \in ListedIn(cur[1], cur[2], page - 1)
        BY <1>2, <3>1, <3>2 DEF ListedIn
      <4> QED  BY <2>2, <4>1 DEF Covered
    <3>3. CASE page <= t
      <4>1. t \in ListedIn(cur[1], page, last)
        BY <1>2, <2>4, <3>1, <3>3 DEF ListedIn
      <4> QED  BY <2>2, <2>4, <4>1
    <3> QED  BY <1>2, <3>1, <3>2, <3>3
  <2>5. Covered(stored', cur, MaxOf(Rows) + 1)
    BY <1>1, <1>2, <2>1, <2>3, <2>4, PageCovers
  <2>6. IsShort(Rows) => Covered(stored', cur, mem.end + 1)
    BY <1>1, <1>2, <2>1, <2>4, PageCovers
  <2>7. pc' = "page" => Covered(stored', cur, page + Limit)
    <3> SUFFICES ASSUME pc' = "page" PROVE Covered(stored', cur, page + Limit)
      OBVIOUS
    <3>1. ~IsShort(Rows) /\ page + Limit <= mem.end /\ page + Limit - 1 \in Int
      BY <1>2, <2>1
    <3>2. ListedIn(cur[1], page, page + Limit - 1) \subseteq Rows
      BY <1>1, <1>2, <2>1, <3>1, PageCovers
    <3>3. Covered(stored', cur, (page + Limit - 1) + 1)
      BY <2>4, <3>1, <3>2
    <3>4. (page + Limit - 1) + 1 = page + Limit
      BY <1>2
    <3> QED  BY <3>3, <3>4
  <2>8. /\ mem'.cursor = MaxOf(Rows) + 1 /\ mem'.end = mem.end
        /\ mem'.status = "completed" => IsShort(Rows) \/ mem.status = "completed"
    BY <1>2, <2>1 DEF Step
  <2>9. StepCovered(stored', cur, mem')
    BY <1>6, <2>5, <2>6, <2>8 DEF StepCovered
  <2> DEFINE st == [mem EXCEPT !.touched = TRUE]
  <2>10. st.cursor = mem.cursor /\ st.end = mem.end /\ st.status = mem.status
    BY <1>2 DEF Step
  <2>11. StepCovered(stored', cur, st)
    BY <1>6, <2>10 DEF StepCovered
  <2>12. steps' = [steps EXCEPT ![cur] = st]
    BY <2>1
  <2>13. steps'[cur].end = mem.end
    BY <1>1, <2>10, <2>12
  <2> HIDE DEF st
  <2>14. \A k \in DOMAIN steps' : StepCovered(stored', k, steps'[k])
    BY <1>7, <2>11, <2>12
  <2> QED  BY <2>1, <2>7, <2>8, <2>9, <2>13, <2>14 DEF CoverInv, ArchiveCovered
<1> QED  BY <1>8, <1>9, <1>10, <1>11

\* A slot range is covered when both parts of it are.
LEMMA ListedJoins ==
  ASSUME NEW i \in Intervals, NEW a \in Int, NEW b \in Int, NEW c \in Int, NEW S,
         ListedIn(i, a, b - 1) \subseteq S, ListedIn(i, b, c) \subseteq S
  PROVE  ListedIn(i, a, c) \subseteq S
<1> SUFFICES ASSUME NEW t \in ListedIn(i, a, c) PROVE t \in S
  OBVIOUS
<1>1. t \in Int /\ a <= t /\ t <= c /\ t \in Listed[i]
  BY DEF ListedIn
<1>2. CASE t < b
  <2>1. t \in ListedIn(i, a, b - 1)
    BY <1>1, <1>2 DEF ListedIn
  <2> QED  BY <2>1
<1>3. CASE b <= t
  <2>1. t \in ListedIn(i, b, c)
    BY <1>1, <1>3 DEF ListedIn
  <2> QED  BY <2>1
<1> QED  BY <1>1, <1>2, <1>3

\* What a step of period n leaves: a period of the same slots, covered by a table that has
\* only grown.
PeriodMoves(n) ==
  /\ \E q : /\ periods' = [periods EXCEPT ![n] = q]
            /\ q.start = periods[n].start /\ q.end = periods[n].end
            /\ PeriodCovered(stored', cur[1], q)
  /\ \A i \in Intervals : stored[i] \subseteq stored'[i]

\* A batch of rows, the end of the file, its failure.
LEMMA ArchiveFileCovers ==
  ASSUME TypeInv, CoverInv, FilesFit, NEW n \in DOMAIN periods,
         ArchiveBatchStored(n) \/ ArchiveFileEnds(n) \/ ArchiveFileFails(n)
  PROVE  PeriodMoves(n)
<1> DEFINE p == periods[n]
           i == cur[1]
<1>1. cur \in DOMAIN steps /\ pc = "archive" /\ p.phase = "file"
  BY DEF PeriodStep, ArchiveBatchStored, ArchiveFileEnds, ArchiveFileFails, TypeInv, CursorOK
<1>2. i \in Intervals
  BY <1>1 DEF TypeInv, StepsOK, Keys
<1>3. /\ p \in Period /\ p.start \in Int /\ p.end \in Int /\ p.pos \in Int /\ p.next \in Int
      /\ p.left \in Int
  BY PeriodTyped DEF TypeInv
<1>4. PeriodCovered(stored, i, p) /\ Listed[i] \subseteq FileRows[i]
  BY <1>1, <1>2 DEF CoverInv, ArchiveCovered, FilesFit
<1>5. /\ p.start <= p.end /\ p.end < p.start + WavePages * Limit
      /\ ListedIn(i, p.start, p.pos - 1) \subseteq stored[i]
  BY <1>1, <1>4 DEF PeriodCovered
<1>6. stored \in [Intervals -> SUBSET Nat] /\ periods \in Seq(Period)
  BY DEF TypeInv, TablesOK, RunnerOK
<1> HIDE DEF p, i
<1>7. CASE ArchiveBatchStored(n)
  <2>1. PICK Rows \in (SUBSET RowsLeft(n)) \ {{}} :
          /\ IsKlinePage(Rows, RowsLeft(n), ArchiveBatch)
          /\ stored' = [stored EXCEPT ![i] = @ \cup Rows]
          /\ periods' = [periods EXCEPT ![n].pos = MaxOf(Rows) + 1, ![n].got = TRUE]
    BY <1>7 DEF ArchiveBatchStored, i
  <2>2. RowsLeft(n) = FileRows[i] \cap (p.pos .. p.end)
    BY DEF RowsLeft, p, i
  <2>3. IsFiniteSet(Rows) /\ Rows \in SUBSET Int
    <3>1. Rows \subseteq p.pos .. p.end
      BY <2>1, <2>2
    <3>2. IsFiniteSet(Rows) /\ Rows \subseteq Int
      BY <1>3, <3>1, PageProperty
    <3> QED  BY <3>2
  <2>4. PICK last : last = MaxOf(Rows)
    OBVIOUS
  <2>5. last \in Rows /\ last \in Int /\ last <= p.end
    <3>1. last \in Rows
      BY <2>1, <2>3, <2>4, MaxOfProperty
    <3> QED  BY <1>3, <2>1, <2>2, <3>1
  <2> DEFINE q == [p EXCEPT !.pos = last + 1, !.got = TRUE]
  <2>6. q.start = p.start /\ q.end = p.end /\ q.pos = last + 1 /\ q.phase = p.phase
    BY <1>3 DEF Period
  <2>7. periods' = [periods EXCEPT ![n] = q]
    BY <1>6, <2>1, <2>4 DEF p
  <2>8. stored'[i] = stored[i] \cup Rows
    BY <1>2, <1>6, <2>1
  <2>9. ListedIn(i, p.pos, last) \subseteq stored'[i]
    <3> SUFFICES ASSUME NEW t \in ListedIn(i, p.pos, last) PROVE t \in Rows
      BY <2>8
    <3>1. t \in Int /\ p.pos <= t /\ t <= last /\ t \in FileRows[i]
      BY <1>3, <1>4, <2>5 DEF ListedIn
    <3>2. t \in RowsLeft(n)
      BY <1>3, <2>2, <2>5, <3>1
    <3>3. t < last => t \in Rows
      BY <2>1, <2>5, <3>2 DEF IsKlinePage
    <3> QED  BY <2>5, <3>1, <3>3
  <2>10. ListedIn(i, p.start, last) \subseteq stored'[i]
    <3>1. ListedIn(i, p.start, p.pos - 1) \subseteq stored'[i]
      BY <1>5, <2>8
    <3> QED  BY <1>2, <1>3, <2>5, <2>9, <3>1, ListedJoins
  <2> HIDE DEF q
  <2>11. PeriodCovered(stored', i, q)
    <3>1. q.pos - 1 = last
      BY <2>5, <2>6
    <3> QED  BY <1>1, <1>5, <2>6, <2>10, <3>1 DEF PeriodCovered, p
  <2>12. \A j \in Intervals : stored[j] \subseteq stored'[j]
    BY <1>6, <2>1
  <2> QED  BY <2>6, <2>7, <2>11, <2>12 DEF PeriodMoves, p, i
<1>8. CASE ArchiveFileEnds(n)
  <2> DEFINE q == [p EXCEPT !.phase = "done", !.next = p.end + 1]
  <2>1. q.start = p.start /\ q.end = p.end /\ q.next = p.end + 1 /\ q.phase = "done"
    BY <1>3 DEF Period
  <2>2. periods' = [periods EXCEPT ![n] = q] /\ UNCHANGED stored
    BY <1>6, <1>8 DEF ArchiveFileEnds, p
  <2>3. ListedIn(i, p.pos, p.end) \subseteq stored[i]
    <3>1. FileRows[i] \cap (p.pos .. p.end) = {}
      BY <1>8 DEF ArchiveFileEnds, RowsLeft, p, i
    <3> QED  BY <1>4, <3>1 DEF ListedIn
  <2>4. ListedIn(i, p.start, p.end) \subseteq stored[i]
    BY <1>2, <1>3, <1>5, <2>3, ListedJoins
  <2> HIDE DEF q
  <2>5. PeriodCovered(stored', i, q)
    BY <1>5, <2>1, <2>2, <2>4 DEF PeriodCovered
  <2> QED  BY <2>1, <2>2, <2>5 DEF PeriodMoves, p, i
<1>9. CASE ArchiveFileFails(n)
  <2> DEFINE q == [p EXCEPT !.phase = "rest", !.pos = p.start, !.left = WavePages - 1,
                            !.got = FALSE]
  <2>1. /\ q.start = p.start /\ q.end = p.end /\ q.pos = p.start /\ q.phase = "rest"
        /\ q.left = WavePages - 1
    BY <1>3 DEF Period
  <2>2. periods' = [periods EXCEPT ![n] = q] /\ UNCHANGED stored
    BY <1>6, <1>9 DEF ArchiveFileFails, p
  <2>3. WavePages - 1 \in Nat /\ (WavePages - 1) + 1 = WavePages
    BY SizeAssumption
  <2>4. ListedIn(i, p.start, p.start - 1) = {}
    BY <1>3 DEF ListedIn
  <2> HIDE DEF q
  <2>5. PeriodCovered(stored', i, q)
    BY <1>5, <2>1, <2>2, <2>3, <2>4 DEF PeriodCovered
  <2> QED  BY <2>1, <2>2, <2>5 DEF PeriodMoves, p, i
<1> QED  BY <1>7, <1>8, <1>9

\* A page of the fallback.
LEMMA FallbackCovers ==
  ASSUME TypeInv, CoverInv, NEW n \in DOMAIN periods, FallbackPage(n)
  PROVE  PeriodMoves(n)
<1> DEFINE p == periods[n]
           i == cur[1]
           Open == ListedIn(i, p.pos, p.end)
<1>1. cur \in DOMAIN steps /\ pc = "archive" /\ p.phase = "rest"
  BY DEF PeriodStep, FallbackPage, TypeInv, CursorOK
<1>2. i \in Intervals
  BY <1>1 DEF TypeInv, StepsOK, Keys
<1>3. /\ p \in Period /\ p.start \in Int /\ p.end \in Int /\ p.pos \in Int /\ p.left \in Int
      /\ Limit \in Nat
  BY PeriodTyped, SizeAssumption DEF TypeInv
<1>4. PeriodCovered(stored, i, p)
  BY <1>1 DEF CoverInv, ArchiveCovered
<1>5. /\ p.start <= p.end /\ p.end < p.start + WavePages * Limit
      /\ ListedIn(i, p.start, p.pos - 1) \subseteq stored[i]
      /\ p.left \in Nat /\ p.end < p.pos + (p.left + 1) * Limit
  BY <1>1, <1>4 DEF PeriodCovered
<1>6. stored \in [Intervals -> SUBSET Nat] /\ periods \in Seq(Period)
  BY DEF TypeInv, TablesOK, RunnerOK
<1> HIDE DEF p, i, Open
<1>7. CASE periods' = [periods EXCEPT ![n].phase = "failed"] /\ UNCHANGED stored
  <2> DEFINE q == [p EXCEPT !.phase = "failed"]
  <2>1. q.start = p.start /\ q.end = p.end /\ q.phase = "failed"
    BY <1>3 DEF Period
  <2>2. periods' = [periods EXCEPT ![n] = q]
    BY <1>6, <1>7 DEF p
  <2> HIDE DEF q
  <2>3. PeriodCovered(stored', i, q)
    BY <1>5, <2>1 DEF PeriodCovered
  <2> QED  BY <1>7, <2>1, <2>2, <2>3 DEF PeriodMoves, p, i
<1>8. CASE /\ IsKlinePage({}, Open, Limit)
           /\ periods' = [periods EXCEPT ![n].phase = "done", ![n].next = p.end + 1]
           /\ UNCHANGED stored
  <2> DEFINE q == [p EXCEPT !.phase = "done", !.next = p.end + 1]
  <2>1. q.start = p.start /\ q.end = p.end /\ q.next = p.end + 1 /\ q.phase = "done"
    BY <1>3 DEF Period
  <2>2. periods' = [periods EXCEPT ![n] = q]
    BY <1>6, <1>8 DEF p
  <2>3. Open = {}
    BY <1>8, EmptyPage
  <2>4. ListedIn(i, p.start, p.end) \subseteq stored[i]
    <3>1. ListedIn(i, p.pos, p.end) \subseteq stored[i]
      BY <2>3 DEF Open
    <3> QED  BY <1>2, <1>3, <1>5, <3>1, ListedJoins
  <2> HIDE DEF q
  <2>5. PeriodCovered(stored', i, q)
    BY <1>5, <1>8, <2>1, <2>4 DEF PeriodCovered
  <2> QED  BY <1>8, <2>1, <2>2, <2>5 DEF PeriodMoves, p, i
<1>9. ASSUME NEW Rows \in (SUBSET Open) \ {{}},
             IsKlinePage(Rows, Open, Limit),
             stored' = [stored EXCEPT ![i] = @ \cup Rows],
             periods' =
               [periods EXCEPT ![n] =
                  IF IsShort(Rows) \/ p.left = 0 \/ p.pos + Limit > p.end
                    THEN [p EXCEPT !.phase = "done", !.got = TRUE,
                                   !.next = fallback_next(p, MaxOf(Rows) + 1)]
                    ELSE [p EXCEPT !.pos = p.pos + Limit, !.left = p.left - 1, !.got = TRUE]]
      PROVE  PeriodMoves(n)
  <2>1. Rows \in SUBSET ListedIn(i, p.pos, p.end) /\ Rows # {}
    BY DEF Open
  <2>2. IsKlinePage(Rows, ListedIn(i, p.pos, p.end), Limit)
    BY <1>9 DEF Open
  <2>3. /\ IsShort(Rows) => ListedIn(i, p.pos, p.end) \subseteq Rows
        /\ ~IsShort(Rows) /\ p.pos + Limit <= p.end =>
             ListedIn(i, p.pos, p.pos + Limit - 1) \subseteq Rows
        /\ p.pos + Limit > p.end => ListedIn(i, p.pos, p.end) \subseteq Rows
    BY <1>2, <1>3, <2>1, <2>2, PageCovers
  <2>4. stored'[i] = stored[i] \cup Rows
    BY <1>2, <1>6, <1>9
  <2>5. \A j \in Intervals : stored[j] \subseteq stored'[j]
    BY <1>6, <1>9
  <2>6. ListedIn(i, p.start, p.pos - 1) \subseteq stored'[i]
    BY <1>5, <2>4
  <2>7. p.left = 0 => p.pos + Limit > p.end
    <3> SUFFICES ASSUME p.left = 0 PROVE p.pos + Limit > p.end
      OBVIOUS
    <3>1. (p.left + 1) * Limit = Limit
      BY <1>3
    <3> QED  BY <1>3, <1>5, <3>1
  <2>8. CASE IsShort(Rows) \/ p.left = 0 \/ p.pos + Limit > p.end
    <3> DEFINE next == fallback_next(p, MaxOf(Rows) + 1)
               q == [p EXCEPT !.phase = "done", !.got = TRUE, !.next = next]
    <3>1. next = p.end + 1
      <4>1. MaxOf(Rows) \in Int /\ MaxOf(Rows) \in Rows
        BY <1>2, <1>3, <2>1, NextSlotType
      <4>2. MaxOf(Rows) <= p.end
        BY <1>3, <2>1, <4>1 DEF ListedIn
      <4> QED  BY <1>3, <4>1, <4>2 DEF fallback_next, Larger
    <3> HIDE DEF next
    <3>2. q.start = p.start /\ q.end = p.end /\ q.next = p.end + 1 /\ q.phase = "done"
      BY <1>3, <3>1 DEF Period
    <3>3. periods' = [periods EXCEPT ![n] = q]
      BY <1>9, <2>8 DEF next
    <3>4. ListedIn(i, p.start, p.end) \subseteq stored'[i]
      <4>1. ListedIn(i, p.pos, p.end) \subseteq stored'[i]
        BY <2>3, <2>4, <2>7, <2>8
      <4> QED  BY <1>2, <1>3, <2>6, <4>1, ListedJoins
    <3> HIDE DEF q
    <3>5. PeriodCovered(stored', i, q)
      BY <1>5, <3>2, <3>4 DEF PeriodCovered
    <3> QED  BY <2>5, <3>2, <3>3, <3>5 DEF PeriodMoves, p, i
  <2>9. CASE ~ (IsShort(Rows) \/ p.left = 0 \/ p.pos + Limit > p.end)
    <3> DEFINE q == [p EXCEPT !.pos = p.pos + Limit, !.left = p.left - 1, !.got = TRUE]
    <3>1. /\ q.start = p.start /\ q.end = p.end /\ q.pos = p.pos + Limit
          /\ q.left = p.left - 1 /\ q.phase = p.phase
      BY <1>3 DEF Period
    <3>2. periods' = [periods EXCEPT ![n] = q]
      BY <1>9, <2>9
    <3>3. /\ p.pos + Limit - 1 \in Int /\ (p.pos + Limit) - 1 = p.pos + Limit - 1
          /\ p.pos + Limit <= p.end
      BY <1>3, <2>9
    <3>4. ListedIn(i, p.start, p.pos + Limit - 1) \subseteq stored'[i]
      <4>1. ListedIn(i, p.pos, p.pos + Limit - 1) \subseteq stored'[i]
        BY <2>3, <2>4, <2>9, <3>3
      <4> QED  BY <1>2, <1>3, <2>6, <3>3, <4>1, ListedJoins
    <3>5. p.left - 1 \in Nat /\ p.end < (p.pos + Limit) + ((p.left - 1) + 1) * Limit
      <4>1. PICK m : m = p.left * Limit /\ m \in Int
        <5>1. p.left * Limit \in Int
          BY <1>3, <1>5
        <5> QED  BY <5>1
      <4>2. (p.left + 1) * Limit = m + Limit /\ ((p.left - 1) + 1) * Limit = m
        <5>1. (p.left + 1) * Limit = p.left * Limit + Limit
          BY <1>3, <1>5
        <5>2. (p.left - 1) + 1 = p.left
          BY <1>3
        <5> QED  BY <4>1, <5>1, <5>2
      <4> QED  BY <1>3, <1>5, <2>9, <4>1, <4>2
    <3> HIDE DEF q
    <3>6. PeriodCovered(stored', i, q)
      BY <1>1, <1>5, <3>1, <3>3, <3>4, <3>5 DEF PeriodCovered, p
    <3> QED  BY <2>5, <3>1, <3>2, <3>6 DEF PeriodMoves, p, i
  <2> QED  BY <2>8, <2>9
<1> QED  BY <1>7, <1>8, <1>9 DEF FallbackPage, p, i, Open

\* A step of one period leaves the others where they are.
LEMMA CoverPeriods ==
  ASSUME TypeInv, CoverInv, FilesFit, PeriodActions
  PROVE  CoverInv'
<1>1. PICK n \in DOMAIN periods : PeriodMoves(n)
  BY ArchiveFileCovers, FallbackCovers DEF PeriodActions
<1>2. UNCHANGED <<steps, pc, cur, mem, page>> /\ pc = "archive"
  BY DEF PeriodActions, PeriodStep, ArchiveBatchStored, ArchiveFileEnds, ArchiveFileFails,
     FallbackPage
<1>3. PICK q : /\ periods' = [periods EXCEPT ![n] = q]
               /\ q.start = periods[n].start /\ q.end = periods[n].end
               /\ PeriodCovered(stored', cur[1], q)
  BY <1>1 DEF PeriodMoves
<1>4. \A i \in Intervals : stored[i] \subseteq stored'[i]
  BY <1>1 DEF PeriodMoves
<1>5. cur[1] \in Intervals
  BY <1>2 DEF TypeInv, CursorOK, StepsOK, Keys
<1>6. periods \in Seq(Period)
  BY DEF TypeInv, RunnerOK
<1>7. /\ DOMAIN periods' = DOMAIN periods /\ periods'[n] = q
      /\ \A m \in DOMAIN periods : m # n => periods'[m] = periods[m]
      /\ \A m \in DOMAIN periods :
           periods'[m].start = periods[m].start /\ periods'[m].end = periods[m].end
  BY <1>3, <1>6
<1>8. ArchiveEnabled /\ \A m \in DOMAIN periods :
                          PeriodFollows(m) /\ PeriodCovered(stored, cur[1], periods[m])
  BY <1>2 DEF CoverInv, ArchiveCovered
<1>9. ASSUME NEW m \in DOMAIN periods PROVE PeriodCovered(stored', cur[1], periods'[m])
  <2>1. CASE m = n
    BY <1>3, <1>7, <2>1
  <2>2. CASE m # n
    <3>1. PeriodCovered(stored, cur[1], periods[m]) /\ periods'[m] = periods[m]
      BY <1>7, <1>8, <2>2
    <3>2. stored[cur[1]] \subseteq stored'[cur[1]]
      BY <1>4, <1>5
    <3> QED  BY <3>1, <3>2 DEF PeriodCovered
  <2> QED  BY <2>1, <2>2
<1>10. ASSUME NEW m \in DOMAIN periods PROVE PeriodFollows(m)'
  <2>1. PeriodFollows(m) /\ m \in Nat
    BY <1>6, <1>8
  <2>2. m # 1 => m - 1 \in DOMAIN periods
    BY <1>6, <2>1
  <2> QED  BY <1>2, <1>7, <2>1, <2>2 DEF PeriodFollows
<1>11. ArchiveCovered'
  BY <1>2, <1>7, <1>8, <1>9, <1>10 DEF ArchiveCovered
<1>12. \A k \in DOMAIN steps : StepCovered(stored', k, steps[k])
  <2>1. \A k \in DOMAIN steps : k \in Keys /\ StepCovered(stored, k, steps[k])
    BY DEF CoverInv, TypeInv, StepsOK
  <2> QED  BY <1>4, <2>1, StepCoveredStays
<1> QED  BY <1>2, <1>11, <1>12 DEF CoverInv

\* Every slot from the cursor of the step to the end of a period before the first failed one
\* is in one of these periods, all of them done.
LEMMA PrefixDone ==
  ASSUME TypeInv, CoverInv, pc = "archive",
         \A n \in DOMAIN periods : periods[n].phase \in {"done", "failed"},
         NEW last \in DonePrefix
  PROVE  /\ Covered(stored, cur, periods[last].end + 1)
         /\ periods[last].next = periods[last].end + 1
<1> DEFINE i == cur[1]
           start == steps[cur].cursor
<1>1. cur \in DOMAIN steps /\ StepCovered(stored, cur, steps[cur])
  BY DEF TypeInv, CursorOK, CoverInv
<1>2. i \in Intervals /\ cur[2] \in Int /\ start \in Int
  BY <1>1, StepsTypedAt DEF TypeInv, Step, Keys
<1>3. periods \in Seq(Period)
  BY DEF TypeInv, RunnerOK
<1>4. PICK size \in Nat : DOMAIN periods = 1 .. size
  BY <1>3
<1>5. last \in 1 .. size /\ \A m \in Failed : last < m
  BY <1>4 DEF DonePrefix
<1>6. \A m \in 1 .. size : periods[m].start \in Int /\ periods[m].end \in Int
  BY <1>4, PeriodTyped DEF TypeInv
<1>7. \A m \in 1 .. size : PeriodFollows(m) /\ PeriodCovered(stored, i, periods[m])
  BY <1>4 DEF CoverInv, ArchiveCovered
<1>8. \A m \in 1 .. last : /\ m \in 1 .. size /\ periods[m].next = periods[m].end + 1
                           /\ ListedIn(i, periods[m].start, periods[m].end) \subseteq stored[i]
  <2> SUFFICES ASSUME NEW m \in 1 .. last
               PROVE  /\ m \in 1 .. size /\ periods[m].next = periods[m].end + 1
                      /\ ListedIn(i, periods[m].start, periods[m].end) \subseteq stored[i]
    OBVIOUS
  <2>1. m \in 1 .. size /\ m <= last
    BY <1>5
  <2>2. m \notin Failed
    BY <1>5, <2>1
  <2>3. periods[m].phase = "done"
    BY <1>4, <2>1, <2>2 DEF Failed
  <2> QED  BY <1>7, <2>1, <2>3 DEF PeriodCovered
<1> HIDE DEF i, start
<1>9. ListedIn(i, start, periods[last].end) \subseteq stored[i]
  <2> SUFFICES ASSUME NEW t \in ListedIn(i, start, periods[last].end) PROVE t \in stored[i]
    OBVIOUS
  <2>1. t \in Int /\ start <= t /\ t <= periods[last].end /\ t \in Listed[i]
    BY <1>2, <1>5, <1>6 DEF ListedIn
  <2> DEFINE reaching == {m \in 1 .. last : t <= periods[m].end}
  <2>2. last \in reaching /\ reaching \in SUBSET Nat
    BY <1>5, <2>1
  <2>3. PICK m \in reaching : \A l \in reaching : m <= l
    BY <2>2, NatHasLeast
  <2>4. m \in 1 .. last /\ t <= periods[m].end /\ m \in 1 .. size
    BY <1>8, <2>3
  <2>5. periods[m].start <= t
    <3>1. CASE m = 1
      <4>1. periods[m].start = start
        BY <1>7, <2>4, <3>1 DEF PeriodFollows, start
      <4> QED  BY <2>1, <4>1
    <3>2. CASE m # 1
      <4>1. m - 1 \in 1 .. last /\ m - 1 \in 1 .. size
        BY <1>5, <2>4, <3>2
      <4>2. periods[m].start = periods[m - 1].end + 1
        BY <1>7, <2>4, <3>2 DEF PeriodFollows
      <4>3. m - 1 \notin reaching
        BY <2>3, <2>4
      <4> QED  BY <1>6, <2>1, <4>1, <4>2, <4>3
    <3> QED  BY <3>1, <3>2
  <2>6. t \in ListedIn(i, periods[m].start, periods[m].end)
    BY <1>6, <2>1, <2>4, <2>5 DEF ListedIn
  <2> QED  BY <1>8, <2>4, <2>6
<1>10. ListedIn(i, cur[2], start - 1) \subseteq stored[i]
  BY <1>1 DEF StepCovered, Covered, start, i
<1>11. PICK e : e = periods[last].end /\ e \in Int
  BY <1>5, <1>6
<1>12. ListedIn(i, cur[2], e) \subseteq stored[i]
  BY <1>2, <1>9, <1>10, <1>11, ListedJoins
<1>13. (e + 1) - 1 = e
  BY <1>11
<1>14. last \in 1 .. last
  BY <1>5
<1> QED  BY <1>8, <1>11, <1>12, <1>13, <1>14 DEF Covered, i

\* The cursor moves over covered slots only.
LEMMA CoverApply ==
  ASSUME TypeInv, CoverInv, ApplyArchiveResults
  PROVE  CoverInv'
<1> DEFINE nexts == {periods[n].next : n \in DonePrefix}
           cursor == MaxOf({steps[cur].cursor} \cup nexts)
           touched == steps[cur].touched \/ \E n \in DonePrefix : periods[n].got
           applied == [steps[cur] EXCEPT
                         !.cursor = cursor, !.touched = touched,
                         !.status = IF cursor > steps[cur].end THEN "completed" ELSE @]
           failing == [steps[cur] EXCEPT !.cursor = periods[MinOf(Failed)].start,
                                         !.touched = touched, !.status = "error"]
<1>1. /\ pc = "archive" /\ \A n \in DOMAIN periods : periods[n].phase \in {"done", "failed"}
      /\ cur \in DOMAIN steps /\ UNCHANGED <<stored, cur>>
  BY DEF ApplyArchiveResults, TypeInv, CursorOK
<1>2. /\ steps[cur] \in Step /\ steps[cur].cursor \in Int /\ steps[cur].end \in Int
      /\ cur[1] \in Intervals /\ cur[2] \in Int
  BY <1>1, StepsTypedAt DEF TypeInv, Step, Keys
<1>3. StepCovered(stored, cur, steps[cur])
  BY <1>1 DEF CoverInv
<1>4. PICK size \in Nat : DOMAIN periods = 1 .. size
  <2>1. periods \in Seq(Period)
    BY DEF TypeInv, RunnerOK
  <2> QED  BY <2>1
<1>5. DonePrefix \subseteq 1 .. size /\ Failed \subseteq 1 .. size
  BY <1>4 DEF DonePrefix, Failed
<1>6. \A n \in DonePrefix : /\ periods[n].next \in Int
                            /\ Covered(stored, cur, periods[n].next)
  <2> SUFFICES ASSUME NEW n \in DonePrefix
               PROVE  periods[n].next \in Int /\ Covered(stored, cur, periods[n].next)
    OBVIOUS
  <2>1. Covered(stored, cur, periods[n].end + 1) /\ periods[n].next = periods[n].end + 1
    BY <1>1, PrefixDone
  <2>2. periods[n].next \in Int
    BY <1>4, <1>5, PeriodTyped DEF TypeInv
  <2> QED  BY <2>1, <2>2
<1>7. nexts \in SUBSET Int /\ IsFiniteSet(nexts)
  <2> DEFINE f == [n \in DonePrefix |-> periods[n].next]
  <2>1. IsFiniteSet(DonePrefix)
    <3>1. 1 \in Int /\ size \in Int
      BY <1>4
    <3> QED  BY <1>5, <3>1, PageProperty
  <2>2. f = [n \in DonePrefix |-> f[n]] /\ nexts = {f[n] : n \in DonePrefix}
    OBVIOUS
  <2> HIDE DEF f
  <2>3. IsFiniteSet({f[n] : n \in DonePrefix})
    BY <2>1, <2>2, FiniteImage
  <2> QED  BY <1>6, <2>2, <2>3
<1>8. cursor \in Int /\ Covered(stored, cur, cursor)
  <2> HIDE DEF nexts
  <2>1. IsFiniteSet({steps[cur].cursor} \cup nexts) /\ {steps[cur].cursor} \cup nexts \in SUBSET Int
    BY <1>2, <1>7, FS_Singleton, FS_Union
  <2>2. cursor \in {steps[cur].cursor} \cup nexts
    BY <2>1, MaxOfProperty
  <2>3. cursor = steps[cur].cursor \/ \E n \in DonePrefix : cursor = periods[n].next
    BY <2>2 DEF nexts
  <2> QED  BY <1>2, <1>3, <1>6, <2>3 DEF StepCovered
<1> HIDE DEF nexts, cursor, touched
<1>9. StepCovered(stored, cur, applied)
  <2>1. /\ applied.cursor = cursor /\ applied.end = steps[cur].end
        /\ applied.status = "completed" =>
             cursor > steps[cur].end \/ steps[cur].status = "completed"
    BY <1>2 DEF Step
  <2>2. cursor > steps[cur].end => Covered(stored, cur, steps[cur].end + 1)
    <3> SUFFICES ASSUME cursor > steps[cur].end,
                        NEW t \in ListedIn(cur[1], cur[2], (steps[cur].end + 1) - 1)
                 PROVE  t \in stored[cur[1]]
      BY DEF Covered
    <3>1. t \in ListedIn(cur[1], cur[2], cursor - 1)
      BY <1>2, <1>8 DEF ListedIn
    <3> QED  BY <1>8, <3>1 DEF Covered
  <2> HIDE DEF applied
  <2> QED  BY <1>3, <1>8, <2>1, <2>2 DEF StepCovered
<1>10. ASSUME Failed # {} PROVE StepCovered(stored, cur, failing)
  <2>1. PICK m : m = MinOf(Failed)
    OBVIOUS
  <2>2. m \in 1 .. size /\ \A n \in Failed : m <= n
    <3>1. Failed \in SUBSET Nat
      BY <1>5
    <3> QED  BY <1>5, <1>10, <2>1, <3>1, MinOfProperty
  <2>3. PeriodFollows(m)
    BY <1>1, <1>4, <2>2 DEF CoverInv, ArchiveCovered
  <2>4. Covered(stored, cur, periods[m].start)
    <3>1. CASE m = 1
      BY <1>3, <2>3, <3>1 DEF PeriodFollows, StepCovered
    <3>2. CASE m # 1
      <4>1. m - 1 \in 1 .. size /\ \A n \in Failed : m - 1 < n
        BY <1>5, <2>2, <3>2
      <4>2. m - 1 \in DonePrefix
        BY <1>4, <4>1 DEF DonePrefix
      <4>3. Covered(stored, cur, periods[m - 1].end + 1)
        BY <1>1, <4>2, PrefixDone
      <4> QED  BY <2>3, <3>2, <4>3 DEF PeriodFollows
    <3> QED  BY <3>1, <3>2
  <2>5. failing.cursor = periods[m].start /\ failing.status = "error"
    BY <1>2, <2>1 DEF Step
  <2> HIDE DEF failing
  <2> QED  BY <2>4, <2>5 DEF StepCovered
<1>11. \/ steps' = [steps EXCEPT ![cur] = applied] /\ Released("loop")
       \/ Failed # {} /\ steps' = [steps EXCEPT ![cur] = failing] /\ Released("raise")
  BY DEF ApplyArchiveResults, cursor, touched, nexts
<1> HIDE DEF applied, failing
<1>12. PICK st : steps' = [steps EXCEPT ![cur] = st] /\ StepCovered(stored, cur, st)
  BY <1>9, <1>10, <1>11
<1>13. pc' \in {"loop", "raise"}
  BY <1>11 DEF Released
<1>14. ASSUME NEW k \in DOMAIN steps' PROVE StepCovered(stored', k, steps'[k])
  <2>1. k \in DOMAIN steps /\ StepCovered(stored, k, steps[k])
    BY <1>12 DEF CoverInv
  <2>2. k = cur => steps'[k] = st
    BY <1>12, <2>1
  <2>3. k # cur => steps'[k] = steps[k]
    BY <1>12, <2>1
  <2> QED  BY <1>1, <1>12, <2>1, <2>2, <2>3
<1> QED  BY <1>13, <1>14 DEF CoverInv, ArchiveCovered

LEMMA CoverStep ==
  ASSUME TypeInv, CoverInv, TypeInv', [Next]_vars, FilesFit
  PROVE  CoverInv'
<1>1. ASSUME NEW c \in Callers, start_all(c) PROVE CoverInv'
  BY <1>1, CoverStart
<1>2. CASE Run
  BY <1>2, CoverBetweenSteps, CoverWave, CoverPage, CoverPeriods, CoverApply DEF Run
<1>3. CASE DatabaseFails \/ Crash
  <2>1. UNCHANGED <<stored, steps>> /\ pc' \in {"raise", "idle"}
    BY <1>3 DEF DatabaseFails, Crash, Released, database
  <2> QED  BY <2>1 DEF CoverInv, ArchiveCovered
<1>4. CASE Tick \/ UNCHANGED vars
  <2>1. UNCHANGED <<stored, steps, pc, cur, mem, page, periods>>
    BY <1>4 DEF Tick, database, runner, vars
  <2> QED  BY <2>1, CoverStays
<1>5. ASSUME NEW i \in LiveIntervals, LiveCandle(i) PROVE CoverInv'
  <2>1. UNCHANGED <<steps, pc, cur, mem, page, periods>>
    BY <1>5 DEF LiveCandle, runner
  <2>2. \A j \in Intervals : stored[j] \subseteq stored'[j]
    <3>1. PICK t : stored' = [stored EXCEPT ![i] = stored[i] \cup {t}]
      BY <1>5 DEF LiveCandle
    <3>2. stored \in [Intervals -> SUBSET Nat]
      BY DEF TypeInv, TablesOK
    <3> QED  BY <3>1, <3>2
  <2>3. \A k \in DOMAIN steps : StepCovered(stored', k, steps[k])
    <3>1. \A k \in DOMAIN steps : k \in Keys /\ StepCovered(stored, k, steps[k])
      BY DEF CoverInv, TypeInv, StepsOK
    <3> QED  BY <2>2, <3>1, StepCoveredStays
  <2>4. ASSUME pc \in {"page", "commit"} PROVE StepCovered(stored', cur, mem)
    <3>1. cur \in Keys /\ StepCovered(stored, cur, mem)
      BY <2>4 DEF CoverInv, TypeInv, CursorOK, StepsOK
    <3> QED  BY <2>2, <3>1, StepCoveredStays
  <2>5. ASSUME pc = "page" PROVE Covered(stored', cur, page)
    <3>1. cur[1] \in Intervals /\ Covered(stored, cur, page)
      BY <2>5 DEF CoverInv, TypeInv, CursorOK, StepsOK, Keys
    <3> QED  BY <2>2, <3>1 DEF Covered
  <2>6. ArchiveCovered'
    <3> SUFFICES ASSUME pc = "archive", NEW n \in DOMAIN periods
                 PROVE  PeriodFollows(n)' /\ PeriodCovered(stored', cur[1], periods[n])
      BY <2>1 DEF ArchiveCovered, CoverInv
    <3>1. PeriodFollows(n) /\ PeriodCovered(stored, cur[1], periods[n])
      BY DEF CoverInv, ArchiveCovered
    <3>2. stored[cur[1]] \subseteq stored'[cur[1]]
      BY <2>2 DEF TypeInv, CursorOK, StepsOK, Keys
    <3> QED  BY <2>1, <3>1, <3>2 DEF PeriodFollows, PeriodCovered
  <2> QED  BY <2>1, <2>3, <2>4, <2>5, <2>6 DEF CoverInv
<1> QED  BY <1>1, <1>2, <1>3, <1>4, <1>5 DEF Next

LEMMA CoverInvariant ==
  ASSUME FilesFit
  PROVE  Spec => []CoverInv
<1>1. Init => CoverInv
  BY DEF Init, CoverInv, ArchiveCovered
<1>2. TypeInv /\ CoverInv /\ TypeInv' /\ [Next]_vars => CoverInv'
  BY CoverStep
<1> QED  BY <1>1, <1>2, TypeInvariant, PTL DEF Spec

\* Nothing listed is ever left behind the cursor of a step: whatever fails or crashes, a retry
\* from the cursor skips nothing.
THEOREM PrefixIsCovered ==
  ASSUME FilesFit
  PROVE  Spec => []PrefixCovered
<1>1. CoverInv => PrefixCovered
  BY DEF CoverInv, StepCovered, Covered, PrefixCovered
<1> QED  BY <1>1, CoverInvariant, PTL

\* A completed step has stored everything listed in its gap.
THEOREM CompletedIsCovered ==
  ASSUME FilesFit
  PROVE  Spec => []CompletedCovered
<1>1. TypeInv /\ CoverInv => CompletedCovered
  <2> SUFFICES ASSUME TypeInv, CoverInv, NEW k \in DOMAIN steps,
                      steps[k].status = "completed"
               PROVE  ListedIn(k[1], k[2], steps[k].end) \subseteq stored[k[1]]
    BY DEF CompletedCovered
  <2>1. Covered(stored, k, steps[k].end + 1)
    BY DEF CoverInv, StepCovered
  <2>2. steps[k].end \in Int
    BY StepsTypedAt DEF TypeInv, Step
  <2>3. (steps[k].end + 1) - 1 = steps[k].end
    BY <2>2
  <2> QED  BY <2>1, <2>3 DEF Covered
<1> QED  BY <1>1, CoverInvariant, TypeInvariant, PTL
-----------------------------------------------------------------------------
(***************************************************************************)
(* What a plan covers                                                      *)
(***************************************************************************)

\* Time only closes more candles.
LEMMA ClosedGrows ==
  ASSUME NEW i \in Intervals, NEW a \in Int, NEW b \in Int, a <= b
  PROVE  /\ latest_closed_open(i, a) \in Int
         /\ latest_closed_open(i, a) <= latest_closed_open(i, b)
<1> DEFINE p == a \div Width[i]
<1>1. Width[i] \in Nat \ {0}
  BY IntervalAssumption
<1>2. p \in Int /\ p * Width[i] <= a /\ b \div Width[i] \in Int
  BY <1>1, DivBounds
<1>3. p * Width[i] \in Int
  BY <1>1, <1>2
<1> HIDE DEF p
<1>4. p * Width[i] <= b
  BY <1>2, <1>3
<1>5. p <= b \div Width[i]
  BY <1>1, <1>2, <1>4, DivBounds
<1> QED  BY <1>2, <1>5 DEF p, latest_closed_open

\* The history does not start after the first candle of any interval.
LEMMA StartBeforeFirst ==
  ASSUME TablesOK, NEW i \in Intervals, NEW t \in stored[i]
  PROVE  history_coverage_start(i) <= t
<1> DEFINE opens == UNION {{u * Width[j] : u \in stored[j]} : j \in Intervals}
<1>1. opens \in SUBSET Nat
  <2> SUFFICES ASSUME NEW j \in Intervals, NEW u \in stored[j] PROVE u * Width[j] \in Nat
    OBVIOUS
  <2>1. u \in Nat /\ Width[j] \in Nat
    BY IntervalAssumption DEF TablesOK
  <2> QED  BY <2>1, ProductType
<1>2. t * Width[i] \in opens
  OBVIOUS
<1>3. history_coverage_start(i) = MinOf(opens) \div Width[i]
  BY <1>2 DEF history_coverage_start
<1> HIDE DEF opens
<1>4. MinOf(opens) \in Nat /\ MinOf(opens) <= t * Width[i]
  BY <1>1, <1>2, MinOfProperty
<1>5. Width[i] \in Nat \ {0} /\ t \in Int
  BY IntervalAssumption DEF TablesOK
<1>6. MinOf(opens) \in Int
  BY <1>4
<1> QED  BY <1>3, <1>4, <1>5, <1>6, DivBounds

\* A set of slots between two others.
Between(S, lo, hi) == \A x \in S : x \in Int /\ lo <= x /\ x <= hi

\* The gaps of an interval, merged, lie between two slots; none is after top when neither
\* the rows nor the end of the plan are.
LEMMA GapsBetween ==
  ASSUME TablesOK, NEW i \in Intervals, NEW start \in Int, NEW end \in Int, NEW top \in Int,
         IsFiniteSet(stored[i]), stored[i] # {}, \A t \in stored[i] : t <= top, end <= top
  PROVE  \E lo \in Int : Between(interval_gaps(i, start, end), lo, top)
<1> DEFINE first == MinOf(stored[i])
           latest == MaxOf(stored[i])
           Row == stored[i] \cap (Larger(start, first) .. Smaller(end, latest))
           lo == Smaller(start, 0)
<1>1. stored[i] \in SUBSET Nat /\ stored[i] \in SUBSET Int
  BY DEF TablesOK
<1>2. first \in stored[i] /\ latest \in stored[i]
  BY <1>1, MinOfProperty, MaxOfProperty
<1>3. first \in Nat /\ latest \in Nat /\ first <= top
  BY <1>1, <1>2
<1>4. \A x \in list_candle_missing_ranges(Row) : x \in Int /\ 0 <= x /\ x <= top
  <2> SUFFICES ASSUME NEW x \in list_candle_missing_ranges(Row)
               PROVE  x \in Int /\ 0 <= x /\ x <= top
    OBVIOUS
  <2>1. Row # {} /\ x \in MinOf(Row) .. MaxOf(Row)
    BY DEF list_candle_missing_ranges
  <2>2. Row \in SUBSET stored[i]
    OBVIOUS
  <2> HIDE DEF Row
  <2>3. IsFiniteSet(Row) /\ Row \in SUBSET Nat /\ Row \in SUBSET Int
    BY <1>1, <2>2, FS_Subset
  <2>4. MinOf(Row) \in Row /\ MaxOf(Row) \in Row
    BY <2>1, <2>3, MinOfProperty, MaxOfProperty
  <2>5. MinOf(Row) \in Nat /\ MaxOf(Row) \in Nat /\ MaxOf(Row) <= top
    BY <2>2, <2>3, <2>4
  <2> QED  BY <2>1, <2>5
<1>5. interval_gaps(i, start, end)
        = (IF first - start > 1 THEN start .. first - 1 ELSE {})
          \cup list_candle_missing_ranges(Row) \cup (latest + 1 .. end)
  BY DEF interval_gaps
<1>6. lo \in Int /\ lo <= start /\ lo <= 0
  BY DEF Smaller
<1> HIDE DEF first, latest, Row, lo
<1>7. \A x \in interval_gaps(i, start, end) : x \in Int /\ lo <= x /\ x <= top
  <2> SUFFICES ASSUME NEW x \in interval_gaps(i, start, end)
               PROVE  x \in Int /\ lo <= x /\ x <= top
    OBVIOUS
  <2>1. CASE first - start > 1 /\ x \in start .. first - 1
    BY <1>3, <1>6, <2>1
  <2>2. CASE x \in list_candle_missing_ranges(Row)
    <3>1. x \in Int /\ 0 <= x /\ x <= top
      BY <1>4, <2>2
    <3> QED  BY <1>6, <3>1
  <2>3. CASE x \in latest + 1 .. end
    BY <1>3, <1>6, <2>3
  <2> QED  BY <1>5, <2>1, <2>2, <2>3
<1> QED  BY <1>6, <1>7 DEF Between

\* Merging adds only slots between gaps.
LEMMA MergedBetween ==
  ASSUME NEW bridge, NEW Gaps, NEW lo \in Int, NEW hi \in Int, Between(Gaps, lo, hi)
  PROVE  /\ Gaps \subseteq merge_missing_range_windows(bridge)[Gaps]
         /\ Between(merge_missing_range_windows(bridge)[Gaps], lo, hi)
<1> DEFINE Pairs == {p \in Gaps \X Gaps : p[2] - p[1] <= bridge}
           Bridged == UNION {pair[1] .. pair[2] : pair \in Pairs}
<1>1. merge_missing_range_windows(bridge)[Gaps] = Gaps \cup Bridged
  BY DEF merge_missing_range_windows, Between
<1>2. \A x \in Bridged : x \in Int /\ lo <= x /\ x <= hi
  <2> SUFFICES ASSUME NEW pair \in Pairs, NEW x \in pair[1] .. pair[2]
               PROVE  x \in Int /\ lo <= x /\ x <= hi
    OBVIOUS
  <2>1. pair[1] \in Gaps /\ pair[2] \in Gaps
    OBVIOUS
  <2>2. pair[1] \in Int /\ pair[2] \in Int /\ lo <= pair[1] /\ pair[2] <= hi
    BY <2>1 DEF Between
  <2> QED  BY <2>2
<1> HIDE DEF Bridged
<1> QED  BY <1>1, <1>2 DEF Between

\* The slots to plan for an interval that has rows.
LEMMA PlannedSlots ==
  ASSUME TablesOK, NEW i \in Intervals, NEW end \in Int, NEW top \in Int,
         IsFiniteSet(stored[i]), stored[i] # {}, \A t \in stored[i] : t <= top, end <= top
  PROVE  \E S \in SUBSET Int, lo \in Int :
           /\ plan_interval_missing_ranges(i, end) = Ranges[S]
           /\ Between(S, lo, top)
           /\ interval_gaps(i, history_coverage_start(i), end) \ unavailable[i] \subseteq S
<1> DEFINE start == history_coverage_start(i)
           G == interval_gaps(i, start, end)
           M == merge_missing_range_windows(WavePages * Limit)[G]
           S == M \ unavailable[i]
<1>1. start \in Int
  BY CoverageStartType
<1> HIDE DEF start
<1>2. PICK lo \in Int : Between(G, lo, top)
  BY <1>1, GapsBetween
<1>4. plan_interval_missing_ranges(i, end) = Ranges[S]
  BY DEF plan_interval_missing_ranges, start
<1> HIDE DEF G
<1>5. G \subseteq M /\ Between(M, lo, top)
  BY <1>2, MergedBetween
<1> HIDE DEF M
<1>6. S \in SUBSET Int /\ Between(S, lo, top) /\ G \ unavailable[i] \subseteq S
  BY <1>5 DEF Between
<1> HIDE DEF S
<1>7. G = interval_gaps(i, history_coverage_start(i), end)
  BY DEF G, start
<1> QED  BY <1>4, <1>6, <1>7

\* No planned range ends after what has closed.
LEMMA PlanEnds ==
  ASSUME TablesOK, NEW i \in Intervals, NEW end \in Int, NEW top \in Int,
         IsFiniteSet(stored[i]), \A t \in stored[i] : t <= top, end <= top,
         NEW r \in plan_interval_missing_ranges(i, end)
  PROVE  r[2] <= top
<1>1. CASE stored[i] = {}
  <2> DEFINE start == history_coverage_start(i)
             recent == Larger(start, end - (HistoryLimit - 1))
  <2>1. r \in initial_ranges(start, end)
    BY <1>1 DEF plan_interval_missing_ranges
  <2>2. start \in Int
    BY CoverageStartType
  <2> HIDE DEF start
  <2>3. HistoryLimit \in Nat /\ HistoryLimit >= 1 /\ recent \in Int
    BY <2>2, SizeAssumption DEF Larger
  <2>4. r[2] = end \/ (r[2] = recent - 1 /\ start <= recent - 1)
    BY <2>1 DEF initial_ranges
  <2>5. start <= recent - 1 => recent <= end
    BY <2>2, <2>3 DEF Larger
  <2> HIDE DEF recent
  <2>6. CASE r[2] = end
    BY <2>6
  <2>7. CASE r[2] = recent - 1 /\ start <= recent - 1
    <3>1. recent <= end /\ end <= top
      BY <2>5, <2>7
    <3>2. recent - 1 <= top
      BY <2>3, <3>1
    <3> QED  BY <2>7, <3>2
  <2> QED  BY <2>4, <2>6, <2>7
<1>2. CASE stored[i] # {}
  <2>1. PICK S \in SUBSET Int, lo \in Int :
          /\ plan_interval_missing_ranges(i, end) = Ranges[S]
          /\ Between(S, lo, top)
    BY <1>2, PlannedSlots
  <2>2. r[2] \in S
    BY <2>1 DEF Ranges
  <2> QED  BY <2>1, <2>2 DEF Between
<1> QED  BY <1>1, <1>2

\* A key is planned with one end.
LEMMA PlanUnique ==
  ASSUME TablesOK, NEW i \in Intervals, NEW end \in Int,
         NEW r \in plan_interval_missing_ranges(i, end),
         NEW q \in plan_interval_missing_ranges(i, end), r[1] = q[1]
  PROVE  r[2] = q[2]
<1> DEFINE start == history_coverage_start(i)
<1>1. start \in Int
  BY CoverageStartType
<1>2. CASE stored[i] = {}
  <2> DEFINE recent == Larger(start, end - (HistoryLimit - 1))
  <2>1. r \in initial_ranges(start, end) /\ q \in initial_ranges(start, end)
    BY <1>2 DEF plan_interval_missing_ranges
  <2> HIDE DEF start
  <2>2. recent \in Int
    BY <1>1, SizeAssumption DEF Larger
  <2>3. \/ r = <<recent, end>>
        \/ start <= recent - 1 /\ r = <<start, recent - 1>>
    BY <2>1 DEF initial_ranges
  <2>4. \/ q = <<recent, end>>
        \/ start <= recent - 1 /\ q = <<start, recent - 1>>
    BY <2>1 DEF initial_ranges
  <2> HIDE DEF recent
  <2> QED  BY <1>1, <2>2, <2>3, <2>4
<1>3. CASE stored[i] # {}
  <2> DEFINE S == merge_missing_range_windows(WavePages * Limit)
                    [interval_gaps(i, start, end)] \ unavailable[i]
  <2>1. r \in Ranges[S] /\ q \in Ranges[S]
    BY <1>3 DEF plan_interval_missing_ranges
  <2>2. interval_gaps(i, start, end) \in SUBSET Int
    BY MissingRangesAreSlots DEF interval_gaps
  <2>3. S \in SUBSET Int
    BY <2>2, MergedRangesAreSlots
  <2> HIDE DEF S
  <2> QED  BY <2>1, <2>3, RangesApart
<1> QED  BY <1>2, <1>3

\* Every listed slot from the start of the plan to its end is stored or in a range,
\* when nothing listed is remembered as unavailable and no row is after the end.
LEMMA PlanCovers ==
  ASSUME TablesOK, UnavailableSound, NEW i \in Intervals, NEW end \in Int,
         IsFiniteSet(stored[i]), \A u \in stored[i] : u <= end,
         NEW t \in Listed[i], plan_start(i) <= t, t <= end, t \notin stored[i]
  PROVE  \E r \in plan_interval_missing_ranges(i, end) : r[1] <= t /\ t <= r[2]
<1> DEFINE start == history_coverage_start(i)
<1>1. start \in Int /\ t \in Int
  BY CoverageStartType, IntervalAssumption
<1>2. CASE stored[i] = {}
  <2> DEFINE recent == Larger(start, end - (HistoryLimit - 1))
  <2>1. start <= t
    BY <1>2 DEF plan_start
  <2>2. plan_interval_missing_ranges(i, end) = initial_ranges(start, end)
    BY <1>2 DEF plan_interval_missing_ranges
  <2> HIDE DEF start
  <2>3. recent \in Int
    BY <1>1, SizeAssumption DEF Larger
  <2>4. <<recent, end>> \in initial_ranges(start, end)
    BY DEF initial_ranges
  <2>5. start <= recent - 1 => <<start, recent - 1>> \in initial_ranges(start, end)
    BY DEF initial_ranges
  <2> HIDE DEF recent
  <2>6. CASE recent <= t
    BY <2>2, <2>4, <2>6
  <2>7. CASE t < recent
    <3>1. start <= recent - 1 /\ t <= recent - 1
      BY <1>1, <2>1, <2>3, <2>7
    <3> QED  BY <2>1, <2>2, <2>5, <3>1
  <2> QED  BY <1>1, <2>3, <2>6, <2>7
<1>3. CASE stored[i] # {}
  <2> DEFINE first == MinOf(stored[i])
             latest == MaxOf(stored[i])
             window == Larger(start, first) .. Smaller(end, latest)
  <2>1. stored[i] \in SUBSET Nat /\ stored[i] \in SUBSET Int
    BY DEF TablesOK
  <2>2. /\ first \in stored[i] /\ latest \in stored[i]
        /\ \A u \in stored[i] : first <= u /\ u <= latest
    BY <1>3, <2>1, MinOfProperty, MaxOfProperty
  <2>3. start <= first /\ latest <= end /\ first \in Int /\ latest \in Int
    BY <2>1, <2>2, StartBeforeFirst
  <2>4. stored[i] \cap window = stored[i]
    <3>1. Larger(start, first) = first /\ Smaller(end, latest) = latest
      BY <1>1, <2>3 DEF Larger, Smaller
    <3>2. \A u \in stored[i] : u \in first .. latest
      BY <2>1, <2>2, <2>3
    <3> QED  BY <3>1, <3>2
  <2>5. interval_gaps(i, start, end)
          = (IF first - start > 1 THEN start .. first - 1 ELSE {})
            \cup list_candle_missing_ranges(stored[i]) \cup (latest + 1 .. end)
    BY <2>4 DEF interval_gaps
  <2>6. t # first /\ t # latest
    BY <2>2
  <2>7. first - start = 1 => start + 1 <= t
    BY <1>3 DEF plan_start
  <2>8. first - start # 1 => start <= t
    BY <1>3 DEF plan_start
  <2>9. list_candle_missing_ranges(stored[i]) = (first .. latest) \ stored[i]
    BY <1>3 DEF list_candle_missing_ranges
  <2> HIDE DEF start, first, latest, window
  <2>10. t \in interval_gaps(i, start, end)
    <3>1. CASE t < first
      <4>1. first - start > 1 /\ t \in start .. first - 1
        BY <1>1, <2>3, <2>7, <2>8, <3>1
      <4> QED  BY <2>5, <4>1
    <3>2. CASE first < t /\ t < latest
      <4>1. t \in (first .. latest) \ stored[i]
        BY <1>1, <2>3, <3>2
      <4> QED  BY <2>5, <2>9, <4>1
    <3>3. CASE latest < t
      <4>1. t \in latest + 1 .. end
        BY <1>1, <2>3, <3>3
      <4> QED  BY <2>5, <4>1
    <3> QED  BY <1>1, <2>3, <2>6, <3>1, <3>2, <3>3
  <2>11. t \notin unavailable[i]
    BY DEF UnavailableSound
  <2>12. PICK S \in SUBSET Int, lo \in Int :
           /\ plan_interval_missing_ranges(i, end) = Ranges[S]
           /\ Between(S, lo, end)
           /\ interval_gaps(i, start, end) \ unavailable[i] \subseteq S
    <3>1. end <= end
      OBVIOUS
    <3> QED  BY <1>3, <3>1, PlannedSlots DEF start
  <2>13. t \in S
    BY <2>10, <2>11, <2>12
  <2>14. \A x \in S : lo <= x /\ x <= end
    BY <2>12 DEF Between
  <2> QED  BY <2>12, <2>13, <2>14, MaximalRange
<1> QED  BY <1>2, <1>3

-----------------------------------------------------------------------------
(***************************************************************************)
(* A task that is never resumed                                            *)
(***************************************************************************)

\* Rows and gaps are of candles that have closed.
ClosedInv ==
  /\ \A i \in Intervals :
       IsFiniteSet(stored[i]) /\ \A t \in stored[i] : t <= latest_closed_open(i, now)
  /\ \A k \in DOMAIN steps : steps[k].end <= latest_closed_open(k[1], now)

\* Some step of the table has slot t of interval i in its gap.
InGap(table, i, t) ==
  \E k \in DOMAIN table : k[1] = i /\ k[2] <= t /\ t <= table[k].end

\* What a fresh task has to store is stored or in a gap of its steps.
Planned ==
  task.status # "none" /\ ~task.resumed =>
    \A i \in Intervals : \A t \in Target(i) : t \in stored[i] \/ InGap(steps, i, t)

\* Nothing runs before there is a task.
NothingRuns ==
  task.status = "none" =>
    pc = "idle" /\ runs = 0 /\ \A c \in Callers : caller[c] # "planned"

FreshInv == ClosedInv /\ Planned /\ NothingRuns /\ FreshTaskCovers

SameGaps(old, new) ==
  DOMAIN new = DOMAIN old /\ \A k \in DOMAIN old : new[k].end = old[k].end

\* The table grows by closed candles of one interval.
Stores ==
  \/ UNCHANGED stored
  \/ \E j \in Intervals : \E Rows \in SUBSET Nat :
       /\ IsFiniteSet(Rows) /\ \A t \in Rows : t <= latest_closed_open(j, now)
       /\ stored' = [stored EXCEPT ![j] = stored[j] \cup Rows]

\* The task only changes its status.
OnlyStatus ==
  /\ task'.target = task.target /\ task'.from = task.from /\ task'.resumed = task.resumed
  /\ task'.status = "none" <=> task.status = "none"
  /\ task'.status = "completed" => task.status = "completed" \/ RunCompletes

\* The download of a file leaves task and steps alone.
LEMMA PeriodFrame ==
  ASSUME PeriodActions
  PROVE  pc = "archive" /\ UNCHANGED <<task, steps, caller, runs, pc, cur, now>>
BY DEF PeriodActions, PeriodStep, ArchiveBatchStored, ArchiveFileEnds, ArchiveFileFails,
   FallbackPage

\* The results of a wave of files move the cursor of one step.
LEMMA ApplyFrame ==
  ASSUME TypeInv, ApplyArchiveResults
  PROVE  /\ pc = "archive" /\ cur \in DOMAIN steps
         /\ UNCHANGED <<stored, caller, runs, now>>
         /\ \E st : st.end = steps[cur].end /\ steps' = [steps EXCEPT ![cur] = st]
         /\ UNCHANGED task \/ task' = [task EXCEPT !.status = "error"]
<1>1. cur \in DOMAIN steps /\ steps[cur] \in Step
  <2>1. cur \in DOMAIN steps
    BY DEF ApplyArchiveResults, TypeInv, CursorOK
  <2> QED  BY <2>1, StepsTypedAt DEF TypeInv
<1> DEFINE cursor == MaxOf({steps[cur].cursor} \cup {periods[n].next : n \in DonePrefix})
           touched == steps[cur].touched \/ \E n \in DonePrefix : periods[n].got
           applied == [steps[cur] EXCEPT
                         !.cursor = cursor, !.touched = touched,
                         !.status = IF cursor > steps[cur].end THEN "completed" ELSE @]
           failing == [steps[cur] EXCEPT !.cursor = periods[MinOf(Failed)].start,
                                         !.touched = touched, !.status = "error"]
<1>2. applied.end = steps[cur].end /\ failing.end = steps[cur].end
  <2> HIDE DEF cursor, touched
  <2> QED  BY <1>1 DEF Step
<1>3. \/ steps' = [steps EXCEPT ![cur] = applied] /\ UNCHANGED task
      \/ steps' = [steps EXCEPT ![cur] = failing] /\ task' = [task EXCEPT !.status = "error"]
  BY DEF ApplyArchiveResults
<1> HIDE DEF applied, failing
<1>4. pc = "archive" /\ UNCHANGED <<stored, caller, runs, now>>
  BY DEF ApplyArchiveResults
<1> QED  BY <1>1, <1>2, <1>3, <1>4

\* The rows of a period are of closed candles: it ends within the gap of its step.
LEMMA PeriodStores ==
  ASSUME TypeInv, CoverInv, ClosedInv, PeriodActions
  PROVE  Stores
<1>1. PICK n \in DOMAIN periods :
        \/ ArchiveBatchStored(n) \/ ArchiveFileEnds(n)
        \/ ArchiveFileFails(n) \/ FallbackPage(n)
  BY DEF PeriodActions
<1>2. UNCHANGED stored \/
      \E Rows \in SUBSET Nat :
        /\ Rows \subseteq periods[n].pos .. periods[n].end
        /\ stored' = [stored EXCEPT ![cur[1]] = stored[cur[1]] \cup Rows]
  <2>1. cur[1] \in Intervals
    BY PeriodFrame DEF TypeInv, CursorOK, StepsOK, Keys
  <2>2. Listed[cur[1]] \in SUBSET Nat /\ FileRows[cur[1]] \in SUBSET Nat
    BY <2>1, IntervalAssumption
  <2>3. CASE ArchiveBatchStored(n)
    <3>1. PICK Rows \in (SUBSET RowsLeft(n)) \ {{}} :
            stored' = [stored EXCEPT ![cur[1]] = stored[cur[1]] \cup Rows]
      BY <2>3 DEF ArchiveBatchStored
    <3> QED  BY <2>2, <3>1 DEF RowsLeft
  <2>4. CASE FallbackPage(n) /\ ~ UNCHANGED stored
    <3>1. PICK Rows \in SUBSET ListedIn(cur[1], periods[n].pos, periods[n].end) :
            stored' = [stored EXCEPT ![cur[1]] = stored[cur[1]] \cup Rows]
      BY <2>4 DEF FallbackPage
    <3> QED  BY <2>2, <3>1 DEF ListedIn
  <2>5. CASE ArchiveFileEnds(n) \/ ArchiveFileFails(n)
    BY <2>5 DEF ArchiveFileEnds, ArchiveFileFails
  <2> QED  BY <1>1, <2>3, <2>4, <2>5
<1>3. ASSUME NEW Rows \in SUBSET Nat, Rows \subseteq periods[n].pos .. periods[n].end,
             stored' = [stored EXCEPT ![cur[1]] = stored[cur[1]] \cup Rows]
      PROVE  Stores
  <2>1. /\ cur \in DOMAIN steps /\ cur[1] \in Intervals /\ steps[cur].end \in Int
        /\ periods[n].end <= steps[cur].end
    <3>1. cur \in DOMAIN steps /\ periods[n].end <= steps[cur].end
      BY PeriodFrame DEF TypeInv, CursorOK, CoverInv, ArchiveCovered, PeriodFollows
    <3> QED  BY <3>1, StepsTypedAt DEF TypeInv, Step, Keys
  <2>2. periods[n].pos \in Int /\ periods[n].end \in Int
    BY PeriodTyped DEF TypeInv
  <2>3. steps[cur].end <= latest_closed_open(cur[1], now)
    BY <2>1 DEF ClosedInv
  <2>4. latest_closed_open(cur[1], now) \in Int
    <3>1. now \in Int /\ now <= now
      BY DEF TypeInv, CountersOK
    <3> QED  BY <2>1, <3>1, ClosedGrows
  <2>5. IsFiniteSet(Rows)
    BY <1>3, <2>2, PageProperty
  <2>6. \A t \in Rows : t <= latest_closed_open(cur[1], now)
    BY <1>3, <2>1, <2>2, <2>3, <2>4
  <2> QED  BY <1>3, <2>1, <2>5, <2>6 DEF Stores
<1> QED  BY <1>2, <1>3 DEF Stores

LEMMA TableGrows ==
  ASSUME TypeInv, CoverInv, ClosedInv, [Next]_vars
  PROVE  Stores
<1>1. CASE PageStored
  <2>1. PICK Rows \in SUBSET ListedIn(cur[1], page, mem.end) :
          stored' = [stored EXCEPT ![cur[1]] = stored[cur[1]] \cup Rows]
    BY <1>1 DEF PageStored
  <2>2. /\ cur \in DOMAIN steps /\ cur[1] \in Intervals
        /\ mem.end = steps[cur].end /\ mem.end \in Int /\ page \in Int
    <3>1. cur \in DOMAIN steps /\ mem.end = steps[cur].end
      BY <1>1 DEF PageStored, TypeInv, CursorOK, CoverInv
    <3> QED  BY <3>1 DEF TypeInv, StepsOK, Keys, RunnerOK, Step
  <2>3. mem.end <= latest_closed_open(cur[1], now)
    BY <2>2 DEF ClosedInv
  <2>4. latest_closed_open(cur[1], now) \in Int
    <3>1. now \in Int /\ now <= now
      BY DEF TypeInv, CountersOK
    <3> QED  BY <2>2, <3>1, ClosedGrows
  <2>5. Rows \in SUBSET Nat
    BY <2>2, IntervalAssumption DEF ListedIn
  <2>6. Rows \subseteq page .. mem.end
    BY DEF ListedIn
  <2>7. IsFiniteSet(Rows)
    BY <2>2, <2>6, PageProperty
  <2>8. \A t \in Rows : t <= latest_closed_open(cur[1], now)
    BY <2>2, <2>3, <2>4, <2>6
  <2> QED  BY <2>1, <2>2, <2>5, <2>7, <2>8 DEF Stores
<1>2. ASSUME NEW i \in LiveIntervals, LiveCandle(i) PROVE Stores
  <2>1. PICK t : t = latest_closed_open(i, now)
    OBVIOUS
  <2>2. /\ i \in Intervals /\ t \in Nat
        /\ stored' = [stored EXCEPT ![i] = stored[i] \cup {t}]
    BY <1>2, <2>1, IntervalAssumption DEF LiveCandle
  <2>3. \A u \in {t} : u <= latest_closed_open(i, now)
    BY <2>1, <2>2
  <2>4. {t} \in SUBSET Nat /\ IsFiniteSet({t})
    BY <2>2, FS_Singleton
  <2> QED  BY <2>2, <2>3, <2>4 DEF Stores
<1>3. CASE Run /\ ~PageStored /\ ~PeriodActions
  <2>1. UNCHANGED stored
    BY <1>3 DEF Run, RunBegin, PickStep, RunCompletes, RunEnds, RunRaises, StepDone,
       WaveStart, PageFails, PageEmpty, WaveCommit, ApplyArchiveResults, database
  <2> QED  BY <2>1 DEF Stores
<1>4. CASE (\E c \in Callers : start_all(c)) \/ DatabaseFails \/ Tick \/ Crash
           \/ UNCHANGED vars
  <2>1. UNCHANGED stored
    BY <1>4 DEF start_all, StartCheck, StartLocked, StartPlan, StartFails, StartSpawn,
       DatabaseFails, Tick, Crash, database, vars
  <2> QED  BY <2>1 DEF Stores
<1> QED  BY <1>1, <1>2, <1>3, <1>4, PeriodStores DEF Next

\* Only planning changes the gaps of the steps.
LEMMA GapsStay ==
  ASSUME TypeInv, CoverInv, [Next]_vars, \A c \in Callers : ~StartPlan(c)
  PROVE  SameGaps(steps, steps')
<1>1. \A k \in DOMAIN steps : steps[k] \in Step
  BY StepsTypedAt DEF TypeInv
<1>2. ASSUME UNCHANGED steps PROVE SameGaps(steps, steps')
  BY <1>2 DEF SameGaps
<1>3. ASSUME NEW k \in DOMAIN steps, NEW st, st.end = steps[k].end,
             steps' = [steps EXCEPT ![k] = st]
      PROVE  SameGaps(steps, steps')
  BY <1>3 DEF SameGaps
<1>4. CASE (\E c \in Callers : start_all(c)) \/ DatabaseFails \/ Tick \/ Crash
           \/ UNCHANGED vars \/ \E i \in LiveIntervals : LiveCandle(i)
  BY <1>2, <1>4 DEF start_all, StartCheck, StartLocked, StartFails, StartSpawn,
     DatabaseFails, Tick, Crash, LiveCandle, database, vars
<1>5. CASE RunBegin \/ RunCompletes \/ RunEnds \/ RunRaises \/ WaveStart
  BY <1>2, <1>5 DEF RunBegin, RunCompletes, RunEnds, RunRaises, WaveStart, WaveBegins,
     database
<1>6. CASE PickStep
  <2>1. PICK k \in DOMAIN steps : steps' = [steps EXCEPT ![k].status = "running"]
    BY <1>6 DEF PickStep, OpenSteps
  <2>2. [steps[k] EXCEPT !.status = "running"].end = steps[k].end
    BY <1>1 DEF Step
  <2>3. steps' = [steps EXCEPT ![k] = [steps[k] EXCEPT !.status = "running"]]
    BY <2>1
  <2> QED  BY <1>3, <2>2, <2>3
<1>7. CASE StepDone
  <2>1. cur \in DOMAIN steps /\ steps' = [steps EXCEPT ![cur].status = "completed"]
    BY <1>7 DEF StepDone, TypeInv, CursorOK
  <2>2. [steps[cur] EXCEPT !.status = "completed"].end = steps[cur].end
    BY <1>1, <2>1 DEF Step
  <2>3. steps' = [steps EXCEPT ![cur] = [steps[cur] EXCEPT !.status = "completed"]]
    BY <2>1
  <2> QED  BY <1>3, <2>1, <2>2, <2>3
<1>8. CASE PageFails \/ PageEmpty \/ PageStored \/ WaveCommit
  <2>1. cur \in DOMAIN steps /\ mem.end = steps[cur].end /\ mem \in Step
    BY <1>8 DEF PageFails, PageEmpty, PageStored, WaveCommit, TypeInv, CursorOK, CoverInv,
       RunnerOK
  <2>2. \/ steps' = [steps EXCEPT ![cur] = mem]
        \/ steps' = [steps EXCEPT ![cur] = [mem EXCEPT !.touched = TRUE]]
        \/ steps' = [steps EXCEPT ![cur] = [mem EXCEPT !.cursor = page, !.status = "error"]]
        \/ steps' = [steps EXCEPT ![cur] =
                       [mem EXCEPT !.cursor = mem.end + 1, !.status = "completed"]]
    BY <1>8 DEF PageFails, PageEmpty, PageStored, WaveCommit
  <2>3. /\ [mem EXCEPT !.touched = TRUE].end = mem.end
        /\ [mem EXCEPT !.cursor = page, !.status = "error"].end = mem.end
        /\ [mem EXCEPT !.cursor = mem.end + 1, !.status = "completed"].end = mem.end
    BY <2>1 DEF Step
  <2>4. PICK st : st.end = steps[cur].end /\ steps' = [steps EXCEPT ![cur] = st]
    BY <2>1, <2>2, <2>3
  <2> QED  BY <1>3, <2>1, <2>4
<1>9. CASE PeriodActions
  BY <1>2, <1>9, PeriodFrame
<1>10. CASE ApplyArchiveResults
  BY <1>3, <1>10, ApplyFrame
<1>11. CASE Run
  BY <1>5, <1>6, <1>7, <1>8, <1>9, <1>10, <1>11 DEF Run
<1> QED  BY <1>4, <1>11 DEF Next

\* Only planning changes more of a task than its status.
LEMMA TaskStays ==
  ASSUME TypeInv, CoverInv, NothingRuns, [Next]_vars, \A c \in Callers : ~StartPlan(c)
  PROVE  OnlyStatus
<1>1. task \in TaskType
  BY DEF TypeInv
<1>2. ASSUME UNCHANGED task PROVE OnlyStatus
  BY <1>2 DEF OnlyStatus
<1>3. ASSUME NEW s \in {"completed", "error"}, pc # "idle",
             s = "completed" => RunCompletes, task' = [task EXCEPT !.status = s]
      PROVE  OnlyStatus
  <2>1. task.status # "none"
    BY <1>3 DEF NothingRuns
  <2>2. /\ task'.target = task.target /\ task'.from = task.from
        /\ task'.resumed = task.resumed /\ task'.status = s
    BY <1>1, <1>3 DEF TaskType
  <2> QED  BY <1>3, <2>1, <2>2 DEF OnlyStatus
<1>4. CASE (\E c \in Callers : start_all(c)) \/ DatabaseFails \/ Tick \/ Crash
           \/ UNCHANGED vars \/ \E i \in LiveIntervals : LiveCandle(i)
  BY <1>2, <1>4 DEF start_all, StartCheck, StartLocked, StartFails, StartSpawn,
     DatabaseFails, Tick, Crash, LiveCandle, database, vars
<1>5. CASE RunBegin \/ PickStep \/ RunEnds \/ StepDone \/ WaveStart \/ PageEmpty
           \/ PageStored \/ WaveCommit
  BY <1>2, <1>5 DEF RunBegin, PickStep, RunEnds, StepDone, WaveStart, PageEmpty, PageStored,
     WaveCommit, database
<1>6. CASE RunCompletes
  BY <1>3, <1>6 DEF RunCompletes
<1>7. CASE RunRaises
  <2>1. pc # "idle" /\ (task' = [task EXCEPT !.status = "error"] \/ UNCHANGED task)
    BY <1>7 DEF RunRaises
  <2> QED  BY <1>2, <1>3, <2>1
<1>8. CASE PageFails
  <2>1. pc # "idle" /\ task' = [task EXCEPT !.status = "error"]
    BY <1>8 DEF PageFails
  <2> QED  BY <1>3, <2>1
<1>9. CASE PeriodActions
  BY <1>2, <1>9, PeriodFrame
<1>10. CASE ApplyArchiveResults
  <2>1. pc # "idle" /\ (task' = [task EXCEPT !.status = "error"] \/ UNCHANGED task)
    BY <1>10, ApplyFrame
  <2> QED  BY <1>2, <1>3, <2>1
<1>11. CASE Run
  BY <1>5, <1>6, <1>7, <1>8, <1>9, <1>10, <1>11 DEF Run
<1> QED  BY <1>4, <1>11 DEF Next

\* Steps and rows are of closed candles after planning too.
LEMMA PlannedEnds ==
  ASSUME TypeInv, ClosedInv, NEW time \in Int, time <= now,
         NEW p \in plan_candle_missing_ranges(time)
  PROVE  p[2] <= latest_closed_open(p[1][1], now)
<1>1. PICK i \in Intervals :
        \E r \in plan_interval_missing_ranges(i, latest_closed_open(i, time)) :
          p = <<<<i, r[1]>>, r[2]>>
  BY DEF plan_candle_missing_ranges
<1> PICK r \in plan_interval_missing_ranges(i, latest_closed_open(i, time)) :
      p = <<<<i, r[1]>>, r[2]>>
  BY <1>1
<1>2. now \in Int /\ now <= now
  BY DEF TypeInv, CountersOK
<1>3. /\ latest_closed_open(i, time) \in Int /\ latest_closed_open(i, now) \in Int
      /\ latest_closed_open(i, time) <= latest_closed_open(i, now)
  BY <1>2, ClosedGrows
<1>4. TablesOK /\ IsFiniteSet(stored[i])
      /\ \A t \in stored[i] : t <= latest_closed_open(i, now)
  BY DEF TypeInv, ClosedInv
<1>5. r[2] <= latest_closed_open(i, now)
  BY <1>3, <1>4, PlanEnds
<1> QED  BY <1>1, <1>5

LEMMA ResumeTimePast ==
  ASSUME TypeInv, ClosedInv, NEW time \in ResumeTime
  PROVE  time \in Int /\ time <= now
<1>1. now \in Int /\ now <= now
  BY DEF TypeInv, CountersOK
<1>2. CASE time = now
  BY <1>1, <1>2
<1>3. ASSUME NEW k \in DOMAIN steps, time = steps[k].end * Width[k[1]]
      PROVE  time \in Int /\ time <= now
  <2> DEFINE q == now \div Width[k[1]]
  <2>1. k[1] \in Intervals /\ steps[k].end \in Int
    BY StepsTypedAt DEF TypeInv, Step, Keys
  <2>2. Width[k[1]] \in Nat \ {0}
    BY <2>1, IntervalAssumption
  <2>3. steps[k].end <= q - 1
    BY <2>1 DEF ClosedInv, latest_closed_open
  <2>4. q \in Int /\ q * Width[k[1]] <= now
    BY <1>1, <2>2, DivBounds
  <2> HIDE DEF q
  <2>5. \A a, b \in Int, w \in Nat : a <= b => a * w <= b * w
    <3> SUFFICES ASSUME NEW a \in Int, NEW b \in Int, NEW w \in Nat, a <= b
                 PROVE  a * w <= b * w
      OBVIOUS
    <3>1. b - a \in Nat
      OBVIOUS
    <3>2. (b - a) * w \in Nat
      BY <3>1, ProductType
    <3>3. (b - a) * w = b * w - a * w /\ b * w \in Int /\ a * w \in Int
      OBVIOUS
    <3> QED  BY <3>2, <3>3
  <2>6. steps[k].end <= q
    BY <2>1, <2>3, <2>4
  <2>7. steps[k].end * Width[k[1]] <= q * Width[k[1]]
    BY <2>1, <2>2, <2>4, <2>5, <2>6
  <2>8. steps[k].end * Width[k[1]] \in Int /\ q * Width[k[1]] \in Int
    BY <2>1, <2>2, <2>4
  <2> QED  BY <1>1, <1>3, <2>4, <2>7, <2>8
<1> QED  BY <1>2, <1>3 DEF ResumeTime

LEMMA PlanKeepsEnds ==
  ASSUME TypeInv, ClosedInv, NEW time \in Int, time <= now, NEW kept,
         \A k \in DOMAIN kept : kept[k].end <= latest_closed_open(k[1], now),
         steps' = WithPlan(kept, plan_candle_missing_ranges(time))
  PROVE  \A k \in DOMAIN steps' : steps'[k].end <= latest_closed_open(k[1], now)
<1> DEFINE plan == plan_candle_missing_ranges(time)
<1> SUFFICES ASSUME NEW k \in DOMAIN steps'
             PROVE  steps'[k].end <= latest_closed_open(k[1], now)
  OBVIOUS
<1>1. CASE k \in DOMAIN kept
  <2>1. steps'[k] = kept[k]
    BY <1>1 DEF WithPlan
  <2> QED  BY <1>1, <2>1
<1>2. CASE k \notin DOMAIN kept
  <2> DEFINE e == CHOOSE e \in {p[2] : p \in plan} : <<k, e>> \in plan
  <2>1. k \in {p[1] : p \in plan} /\ steps'[k] = NewStep(k, e)
    BY <1>2 DEF WithPlan
  <2>2. plan \in SUBSET (Keys \X Int)
    BY PlanType DEF TypeInv
  <2> HIDE DEF plan, e
  <2>3. PICK p \in plan : p[1] = k
    BY <2>1
  <2>4. p = <<k, p[2]>>
    BY <2>2, <2>3
  <2>6. steps'[k].end = e
    BY <2>1 DEF NewStep
  <2>5. \E x \in {q[2] : q \in plan} : <<k, x>> \in plan
    <3>1. p[2] \in {q[2] : q \in plan} /\ <<k, p[2]>> \in plan
      BY <2>4
    <3> QED  BY <3>1
  <2>8. <<k, e>> \in plan
    BY <2>5 DEF e
  <2>7. <<k, e>>[2] <= latest_closed_open(<<k, e>>[1][1], now)
    BY <2>8, PlannedEnds DEF plan
  <2> QED  BY <2>6, <2>7
<1> QED  BY <1>1, <1>2

LEMMA ClosedStep ==
  ASSUME TypeInv, CoverInv, ClosedInv, [Next]_vars
  PROVE  ClosedInv'
<1>1. now \in Int /\ now' \in Int /\ now <= now'
  <2>1. now' = now \/ now' = now + 1
    BY PeriodFrame, ApplyFrame DEF Next, start_all, StartCheck, StartLocked, StartPlan,
       StartFails, StartSpawn, Run, RunBegin, PickStep, RunCompletes, RunEnds, RunRaises,
       StepDone, WaveStart, PageFails, PageEmpty, PageStored, WaveCommit, DatabaseFails,
       LiveCandle, Tick, Crash, vars
  <2> QED  BY <2>1 DEF TypeInv, CountersOK
<1>2. ASSUME NEW i \in Intervals, NEW x \in Int, x <= latest_closed_open(i, now)
      PROVE  x <= latest_closed_open(i, now')
  <2>1. /\ latest_closed_open(i, now) \in Int /\ latest_closed_open(i, now') \in Int
        /\ latest_closed_open(i, now) <= latest_closed_open(i, now')
    <3>1. now' <= now'
      BY <1>1
    <3> QED  BY <1>1, <3>1, ClosedGrows
  <2> QED  BY <1>2, <2>1
<1>3. ASSUME NEW i \in Intervals
      PROVE  IsFiniteSet(stored'[i]) /\ \A t \in stored'[i] : t <= latest_closed_open(i, now')
  <2>1. /\ IsFiniteSet(stored[i]) /\ stored[i] \in SUBSET Nat
        /\ \A t \in stored[i] : t <= latest_closed_open(i, now)
    BY DEF ClosedInv, TypeInv, TablesOK
  <2>2. Stores
    BY TableGrows
  <2>3. PICK Rows \in SUBSET Nat :
          /\ IsFiniteSet(Rows) /\ \A t \in Rows : t <= latest_closed_open(i, now)
          /\ stored'[i] = stored[i] \cup Rows
    <3>1. CASE UNCHANGED stored
      <4>1. {} \in SUBSET Nat /\ IsFiniteSet({}) /\ stored'[i] = stored[i] \cup {}
        BY <3>1, FS_EmptySet
      <4> QED  BY <4>1
    <3>2. ASSUME NEW j \in Intervals, NEW Rows \in SUBSET Nat, IsFiniteSet(Rows),
                 \A t \in Rows : t <= latest_closed_open(j, now),
                 stored' = [stored EXCEPT ![j] = stored[j] \cup Rows]
          PROVE  \E R \in SUBSET Nat :
                   /\ IsFiniteSet(R) /\ \A t \in R : t <= latest_closed_open(i, now)
                   /\ stored'[i] = stored[i] \cup R
      <4>1. DOMAIN stored = Intervals
        BY DEF TypeInv, TablesOK
      <4>2. CASE i = j
        BY <3>2, <4>1, <4>2
      <4>3. CASE i # j
        <5>1. {} \in SUBSET Nat /\ IsFiniteSet({}) /\ stored'[i] = stored[i] \cup {}
          BY <3>2, <4>1, <4>3, FS_EmptySet
        <5> QED  BY <5>1
      <4> QED  BY <4>2, <4>3
    <3> QED  BY <2>2, <3>1, <3>2 DEF Stores
  <2>4. IsFiniteSet(stored'[i])
    BY <2>1, <2>3, FS_Union
  <2>5. ASSUME NEW t \in stored'[i] PROVE t <= latest_closed_open(i, now')
    <3>1. t \in stored[i] \/ t \in Rows
      BY <2>3
    <3>2. t \in Int
      <4>1. \A u \in stored[i] : u \in Int
        BY <2>1
      <4>2. \A u \in Rows : u \in Int
        BY <2>3
      <4> QED  BY <3>1, <4>1, <4>2
    <3>3. t <= latest_closed_open(i, now)
      BY <2>1, <2>3, <3>1
    <3> QED  BY <1>2, <3>2, <3>3
  <2> QED  BY <2>4, <2>5
<1>4. ASSUME SameGaps(steps, steps'), NEW k \in DOMAIN steps'
      PROVE  steps'[k].end <= latest_closed_open(k[1], now')
  <2>1. k \in DOMAIN steps /\ steps'[k].end = steps[k].end
    BY <1>4 DEF SameGaps
  <2>2. k[1] \in Intervals /\ steps[k].end \in Int
    BY <2>1, StepsTypedAt DEF TypeInv, Step, Keys
  <2>3. steps[k].end <= latest_closed_open(k[1], now)
    BY <2>1 DEF ClosedInv
  <2> QED  BY <1>2, <2>1, <2>2, <2>3
<1>5. ASSUME NEW c \in Callers, StartPlan(c), NEW k \in DOMAIN steps'
      PROVE  steps'[k].end <= latest_closed_open(k[1], now')
  <2>1. now' = now
    BY <1>5 DEF StartPlan
  <2>2. CASE create_task
    <3>1. steps' = WithPlan(<<>>, plan_candle_missing_ranges(now)) /\ now <= now
      BY <1>1, <2>2 DEF create_task
    <3>2. \A l \in DOMAIN <<>> : <<>>[l].end <= latest_closed_open(l[1], now)
      OBVIOUS
    <3>3. \A l \in DOMAIN steps' : steps'[l].end <= latest_closed_open(l[1], now)
      BY <1>1, <3>1, <3>2, PlanKeepsEnds
    <3> QED  BY <1>5, <2>1, <3>3
  <2>3. CASE resume_task
    <3> DEFINE kept == [l \in {m \in DOMAIN steps : ~Untouched(m)} |->
                          IF steps[l].status = "error"
                            THEN [steps[l] EXCEPT !.status = "pending"] ELSE steps[l]]
    <3>1. PICK time \in ResumeTime :
            steps' = WithPlan(kept, plan_candle_missing_ranges(time))
      BY <2>3 DEF resume_task
    <3>2. time \in Int /\ time <= now
      BY ResumeTimePast
    <3>3. \A l \in DOMAIN kept : kept[l].end <= latest_closed_open(l[1], now)
      <4> SUFFICES ASSUME NEW l \in DOMAIN kept
                   PROVE  kept[l].end <= latest_closed_open(l[1], now)
        OBVIOUS
      <4>1. l \in DOMAIN steps /\ steps[l] \in Step
        BY StepsTypedAt DEF TypeInv
      <4>2. kept[l].end = steps[l].end
        BY <4>1 DEF Step
      <4>3. steps[l].end <= latest_closed_open(l[1], now)
        BY <4>1 DEF ClosedInv
      <4> HIDE DEF kept
      <4> QED  BY <4>2, <4>3
    <3> HIDE DEF kept
    <3>4. \A l \in DOMAIN steps' : steps'[l].end <= latest_closed_open(l[1], now)
      BY <3>1, <3>2, <3>3, PlanKeepsEnds
    <3> QED  BY <1>5, <2>1, <3>4
  <2> QED  BY <1>5, <2>2, <2>3 DEF StartPlan
<1>6. \A k \in DOMAIN steps' : steps'[k].end <= latest_closed_open(k[1], now')
  BY <1>4, <1>5, GapsStay
<1> QED  BY <1>3, <1>6 DEF ClosedInv, latest_closed_open

\* A task covers what it sets out to store from the start.
LEMMA CreateCovers ==
  ASSUME TypeInv, ClosedInv, UnavailableSound, create_task, UNCHANGED stored
  PROVE  Planned'
<1> DEFINE plan == plan_candle_missing_ranges(now)
<1> SUFFICES ASSUME NEW i \in Intervals, NEW t \in Target(i)', t \notin stored[i]
             PROVE  InGap(steps', i, t)
  BY DEF Planned
<1>1. now \in Int /\ now <= now
  BY DEF TypeInv, CountersOK
<1> DEFINE end == latest_closed_open(i, now)
<1>2. end \in Int
  BY <1>1, ClosedGrows
<1>3. task'.from[i] = plan_start(i) /\ task'.target = now
  BY DEF create_task
<1>4. t \in ListedIn(i, plan_start(i), end)
  BY <1>3 DEF Target, latest_closed_open
<1>5. /\ TablesOK /\ IsFiniteSet(stored[i])
      /\ \A u \in stored[i] : u <= end
  BY DEF TypeInv, ClosedInv
<1> HIDE DEF end
<1>6. t \in Listed[i] /\ plan_start(i) <= t /\ t <= end
  BY <1>4 DEF ListedIn
<1>7. PICK r \in plan_interval_missing_ranges(i, end) : r[1] <= t /\ t <= r[2]
  BY <1>2, <1>5, <1>6, PlanCovers
<1> DEFINE k == <<i, r[1]>>
<1>8. <<k, r[2]>> \in plan
  BY DEF plan_candle_missing_ranges, end
<1>9. steps' = WithPlan(<<>>, plan)
  BY DEF create_task
<1> HIDE DEF plan
<1>10. ASSUME NEW e, <<k, e>> \in plan PROVE e = r[2]
  <2>1. PICK j \in Intervals :
          \E q \in plan_interval_missing_ranges(j, latest_closed_open(j, now)) :
            <<k, e>> = <<<<j, q[1]>>, q[2]>>
    BY <1>10 DEF plan, plan_candle_missing_ranges
  <2>2. PICK q \in plan_interval_missing_ranges(j, latest_closed_open(j, now)) :
          <<k, e>> = <<<<j, q[1]>>, q[2]>>
    BY <2>1
  <2>3. j = i /\ q[1] = r[1] /\ e = q[2]
    BY <2>2
  <2>4. q \in plan_interval_missing_ranges(i, end)
    BY <2>2, <2>3 DEF end
  <2> QED  BY <1>2, <1>5, <2>3, <2>4, PlanUnique
<1> DEFINE e == CHOOSE e \in {p[2] : p \in plan} : <<k, e>> \in plan
<1>11. r[2] \in {p[2] : p \in plan} /\ k \in {p[1] : p \in plan}
  <2>1. <<k, r[2]>>[1] = k /\ <<k, r[2]>>[2] = r[2]
    OBVIOUS
  <2> HIDE DEF k
  <2> QED  BY <1>8, <2>1
<1>12. k \in DOMAIN steps' /\ steps'[k] = NewStep(k, e)
  <2> HIDE DEF k
  <2> QED  BY <1>9, <1>11 DEF WithPlan
<1>13. <<k, e>> \in plan
  <2> HIDE DEF k
  <2> QED  BY <1>8, <1>11
<1> HIDE DEF e
<1>14. steps'[k].end = r[2]
  BY <1>10, <1>12, <1>13 DEF NewStep
<1> QED  BY <1>7, <1>12, <1>14 DEF InGap

LEMMA StoredGrows ==
  ASSUME TypeInv, CoverInv, ClosedInv, [Next]_vars, NEW i \in Intervals
  PROVE  stored[i] \subseteq stored'[i]
<1>1. DOMAIN stored = Intervals
  BY DEF TypeInv, TablesOK
<1> QED  BY <1>1, TableGrows DEF Stores

\* Between plans, what is planned only gets stored.
LEMMA PlannedStays ==
  ASSUME TypeInv, CoverInv, ClosedInv, NothingRuns, Planned, [Next]_vars,
         \A c \in Callers : ~StartPlan(c)
  PROVE  Planned'
<1>1. OnlyStatus /\ SameGaps(steps, steps')
  BY TaskStays, GapsStay
<1> SUFFICES ASSUME task'.status # "none", ~task'.resumed,
                    NEW i \in Intervals, NEW t \in Target(i)'
             PROVE  t \in stored'[i] \/ InGap(steps', i, t)
  BY DEF Planned
<1>2. t \in Target(i)
  BY <1>1 DEF OnlyStatus, Target, latest_closed_open
<1>3. t \in stored[i] \/ InGap(steps, i, t)
  BY <1>1, <1>2 DEF OnlyStatus, Planned
<1>4. InGap(steps, i, t) => InGap(steps', i, t)
  BY <1>1 DEF InGap, SameGaps
<1> QED  BY <1>3, <1>4, StoredGrows

\* A planned task is running.
LEMMA PlanRuns ==
  ASSUME task \in TaskType, create_task \/ resume_task
  PROVE  task'.status = "running"
<1>1. CASE create_task
  BY <1>1 DEF create_task
<1>2. CASE resume_task
  <2>1. task' = [task EXCEPT !.status = "running", !.resumed = TRUE]
    BY <1>2 DEF resume_task
  <2> QED  BY <2>1 DEF TaskType
<1> QED  BY <1>1, <1>2

LEMMA NothingRunsStep ==
  ASSUME TypeInv, CoverInv, NothingRuns, [Next]_vars
  PROVE  NothingRuns'
<1>1. ASSUME NEW c \in Callers, StartPlan(c) PROVE NothingRuns'
  <2>1. task'.status = "running"
    BY <1>1, PlanRuns DEF StartPlan, TypeInv
  <2> QED  BY <2>1 DEF NothingRuns
<1>2. CASE \A c \in Callers : ~StartPlan(c)
  <2> SUFFICES ASSUME task'.status = "none"
               PROVE  pc' = "idle" /\ runs' = 0 /\ \A c \in Callers : caller'[c] # "planned"
    BY DEF NothingRuns
  <2>1. task.status = "none"
    BY <1>2, TaskStays DEF OnlyStatus
  <2>2. /\ pc = "idle" /\ runs = 0 /\ \A c \in Callers : caller[c] # "planned"
        /\ DOMAIN caller = Callers
    BY <2>1 DEF NothingRuns, TypeInv, ControlInv, ControlOK
  <2>3. ~Run
    BY <2>2, PeriodFrame, ApplyFrame DEF Run, RunBegin, PickStep, RunCompletes, RunEnds,
       RunRaises, StepDone, WaveStart, PageFails, PageEmpty, PageStored, WaveCommit
  <2>4. CASE Tick \/ Crash \/ UNCHANGED vars \/ \E i \in LiveIntervals : LiveCandle(i)
    BY <2>2, <2>4 DEF Tick, Crash, Released, LiveCandle, runner, vars
  <2>5. ~DatabaseFails
    BY <2>2 DEF DatabaseFails
  <2>6. ASSUME NEW c \in Callers, start_all(c)
        PROVE  pc' = "idle" /\ runs' = 0 /\ \A d \in Callers : caller'[d] # "planned"
    <3>1. ~StartSpawn(c)
      BY <2>2 DEF StartSpawn
    <3>2. /\ UNCHANGED <<pc, runs>>
          /\ \E s \in {"idle", "waiting", "planning"} : caller' = [caller EXCEPT ![c] = s]
      BY <1>2, <2>6, <3>1 DEF start_all, StartCheck, StartLocked, StartFails, runner
    <3> QED  BY <2>2, <3>2
  <2> QED  BY <2>3, <2>4, <2>5, <2>6 DEF Next
<1> QED  BY <1>1, <1>2

LEMMA FreshStep ==
  ASSUME TypeInv, CoverInv, FreshInv, [Next]_vars, \A c \in Callers : ~StartPlan(c)
  PROVE  FreshTaskCovers'
<1>1. OnlyStatus
  BY TaskStays DEF FreshInv
<1> SUFFICES ASSUME task'.status = "completed", ~task'.resumed,
                    NEW i \in Intervals, NEW t \in Target(i)'
             PROVE  t \in stored'[i]
  BY DEF FreshTaskCovers
<1>2. t \in Target(i) /\ ~task.resumed
  BY <1>1 DEF OnlyStatus, Target, latest_closed_open
<1>3. CASE task.status = "completed"
  <2>1. t \in stored[i]
    BY <1>2, <1>3 DEF FreshInv, FreshTaskCovers
  <2> QED  BY <2>1, StoredGrows DEF FreshInv
<1>4. CASE RunCompletes
  <2>1. UNCHANGED stored /\ OpenSteps = {} /\ pc = "pick"
    BY <1>4 DEF RunCompletes
  <2>2. task.status # "none"
    BY <2>1 DEF FreshInv, NothingRuns
  <2>3. t \in stored[i] \/ InGap(steps, i, t)
    BY <1>2, <2>2 DEF FreshInv, Planned
  <2>4. ASSUME NEW k \in DOMAIN steps, k[1] = i, k[2] <= t, t <= steps[k].end
        PROVE  t \in stored[i]
    <3>1. steps[k].status = "completed"
      BY <2>1 DEF OpenSteps
    <3>2. Covered(stored, k, steps[k].end + 1)
      BY <3>1 DEF CoverInv, StepCovered
    <3>3. steps[k].end \in Int /\ k[2] \in Int
      BY StepsTypedAt DEF TypeInv, Step, Keys
    <3>4. t \in Listed[i] /\ t \in Int
      BY <1>2, IntervalAssumption DEF Target, ListedIn
    <3>5. (steps[k].end + 1) - 1 = steps[k].end
      BY <3>3
    <3>6. t \in ListedIn(i, k[2], steps[k].end)
      BY <2>4, <3>3, <3>4 DEF ListedIn
    <3> QED  BY <2>4, <3>2, <3>5, <3>6 DEF Covered
  <2>5. t \in stored[i]
    BY <2>3, <2>4 DEF InGap
  <2> QED  BY <2>1, <2>5
<1> QED  BY <1>1, <1>3, <1>4 DEF OnlyStatus

LEMMA FreshInvStep ==
  ASSUME TypeInv, CoverInv, UnavailableSound, FreshInv, [Next]_vars
  PROVE  FreshInv'
<1>1. ClosedInv' /\ NothingRuns'
  BY ClosedStep, NothingRunsStep DEF FreshInv
<1>2. ASSUME NEW c \in Callers, StartPlan(c) PROVE Planned' /\ FreshTaskCovers'
  <2>1. UNCHANGED stored
    BY <1>2 DEF StartPlan
  <2>2. task'.status = "running"
    BY <1>2, PlanRuns DEF StartPlan, TypeInv
  <2>3. CASE create_task
    BY <2>1, <2>2, <2>3, CreateCovers DEF FreshInv, FreshTaskCovers
  <2>4. CASE resume_task
    <3>1. task'.resumed
      BY <2>4 DEF resume_task, TypeInv, TaskType
    <3> QED  BY <2>2, <3>1 DEF Planned, FreshTaskCovers
  <2> QED  BY <1>2, <2>3, <2>4 DEF StartPlan
<1>3. CASE \A c \in Callers : ~StartPlan(c)
  <2>1. ClosedInv /\ NothingRuns /\ Planned
    BY DEF FreshInv
  <2>2. Planned'
    BY <1>3, <2>1, PlannedStays
  <2>3. FreshTaskCovers'
    BY <1>3, FreshStep
  <2> QED  BY <1>1, <2>2, <2>3 DEF FreshInv
<1> QED  BY <1>1, <1>2, <1>3 DEF FreshInv

LEMMA FreshInit == Init => FreshInv
<1> SUFFICES ASSUME Init PROVE FreshInv
  OBVIOUS
<1>1. /\ stored = [i \in Intervals |-> {}] /\ steps = <<>> /\ task.status = "none"
      /\ caller = [c \in Callers |-> "idle"] /\ pc = "idle" /\ runs = 0
  BY DEF Init
<1>2. ClosedInv
  BY <1>1, FS_EmptySet DEF ClosedInv
<1>3. Planned /\ NothingRuns /\ FreshTaskCovers
  BY <1>1 DEF Planned, NothingRuns, FreshTaskCovers
<1> QED  BY <1>2, <1>3 DEF FreshInv

\* A task that ran to its end without being resumed has stored everything listed from the
\* start of its plan to its target, whatever earlier tasks, the live feed, failures and crashes
\* had left in the table: no gap is overlooked by the planner, lost in the merging or
\* subtracted by mistake.
THEOREM FreshTaskIsCovered ==
  ASSUME FilesFit
  PROVE  Spec => []FreshTaskCovers
<1>1. TypeInv /\ CoverInv /\ UnavailableSound /\ FreshInv /\ [Next]_vars => FreshInv'
  BY FreshInvStep
<1>2. FreshInv => FreshTaskCovers
  BY DEF FreshInv
<1> QED
  BY <1>1, <1>2, FreshInit, CoverInvariant, UnavailableIsSound, TypeInvariant, PTL DEF Spec

-----------------------------------------------------------------------------
(* The endpoints of the stream *)

Endpoints == Endpoint!Endpoints
Answers   == Latencies \cup {Endpoint!None}
Scores    == [latency : Answers, failures : 0 .. StreamFailures]

LEMMA EndpointConstants ==
  /\ 1 \in Endpoints /\ Endpoints \in SUBSET Nat
  /\ Latencies \subseteq Nat /\ StreamFailures \in Nat /\ Adaptive \in BOOLEAN
  /\ Endpoint!None \in Nat /\ \A l \in Latencies : l < Endpoint!None /\ l > 0
<1>1. Endpoint!ConstantsOK
  BY ModelConstants
<1>2. 1 \in Endpoints /\ Endpoints \in SUBSET Nat
  BY <1>1 DEF Endpoint!ConstantsOK, Endpoints, Endpoint!Endpoints
<1>3. /\ Latencies \subseteq Nat /\ StreamFailures \in Nat /\ Adaptive \in BOOLEAN
      /\ \A l \in Latencies : l > 0
  BY <1>1 DEF Endpoint!ConstantsOK
<1>4. \E l \in Latencies : \A k \in Latencies : k <= l
  BY <1>1 DEF Endpoint!ConstantsOK
<1>5. PICK m : m = CHOOSE l \in Latencies : \A k \in Latencies : k <= l
  OBVIOUS
<1>6. m \in Latencies /\ \A k \in Latencies : k <= m
  BY <1>4, <1>5
<1>7. Endpoint!None = 1 + m
  BY <1>5 DEF Endpoint!None
<1> QED  BY <1>2, <1>3, <1>6, <1>7

EndpointTyped ==
  /\ ping \in [Endpoints -> Answers] /\ streams \subseteq Endpoints
  /\ score \in [Endpoints -> Scores] /\ probeDue \in BOOLEAN /\ heard \in [Endpoints -> Answers]
  /\ loop.at \in {"select", "probe", "connect", "open", "sleep"}
  /\ loop.at \in {"connect", "open"} <=> loop.url \in Endpoints
  /\ loop.at = "probe" <=> loop.then \in {"connect", "sleep"}
  /\ loop.at = "probe" => /\ loop.results \in [Endpoints -> Answers \cup {0}]
                          /\ loop.url = 0
                          /\ loop = [at |-> "probe", url |-> 0, then |-> loop.then, results |-> loop.results]
  /\ loop.at # "probe" => loop.then = "none"

\* Until some endpoint is to be probed, the scores have what the last probe heard.
ScoresAreHeard == ~probeDue => \A u \in Endpoints : score[u].latency = heard[u]

ConnectsToBest == Adaptive /\ loop.at = "connect" => \A u \in Endpoints : heard[loop.url] <= heard[u]

EndpointInv == EndpointTyped /\ ScoresAreHeard /\ ConnectsToBest

LEMMA EndpointParts ==
  /\ \A l \in Answers : l \in Nat /\ l # 0
  /\ Endpoint!None \in Answers /\ Latencies \subseteq Answers
<1>1. Endpoint!None \in Nat /\ Endpoint!None # 0
  <2>1. PICK n : n = Endpoint!None
    OBVIOUS
  <2>2. PICK l : l \in Latencies
    BY ModelConstants DEF Endpoint!ConstantsOK
  <2>3. n \in Nat /\ l \in Nat /\ l < n
    BY <2>1, <2>2, EndpointConstants
  <2> QED  BY <2>1, <2>3
<1>2. ASSUME NEW l \in Latencies PROVE l \in Nat /\ l # 0
  BY EndpointConstants
<1> QED  BY <1>1, <1>2 DEF Answers

\* There is a best endpoint: the first of those with the fewest failures among the fastest.
LEMMA BestParts ==
  ASSUME NEW s \in [Endpoints -> Scores]
  PROVE  /\ Endpoint!Best(s) \in Endpoints
         /\ Adaptive => \A u \in Endpoints : s[Endpoint!Best(s)].latency <= s[u].latency
<1>1. \A u \in Endpoints : s[u].latency \in Nat /\ s[u].failures \in Nat
  <2> TAKE u \in Endpoints
  <2>1. s[u] \in Scores
    OBVIOUS
  <2>2. s[u].latency \in Answers /\ s[u].failures \in 0 .. StreamFailures
    BY <2>1 DEF Scores
  <2>3. s[u].failures \in Nat
    BY <2>2, EndpointConstants
  <2> QED  BY <2>2, <2>3, EndpointParts
<1>2. CASE ~Adaptive
  BY <1>2, EndpointConstants DEF Endpoint!Best
<1>3. CASE Adaptive
  <2> DEFINE L == {s[u].latency : u \in Endpoints}
  <2>1. L \in SUBSET Nat /\ L # {}
    BY <1>1, EndpointConstants
  <2>2. PICK l \in L : \A k \in L : l <= k
    <3> HIDE DEF L
    <3> QED  BY <2>1, NatHasLeast
  <2> DEFINE Fast == {u \in Endpoints : s[u].latency = l}
             F == {s[u].failures : u \in Fast}
  <2>3. Fast # {} /\ \A u \in Endpoints : l <= s[u].latency
    BY <2>2
  <2>4. F \in SUBSET Nat /\ F # {}
    BY <1>1, <2>3
  <2>5. PICK f \in F : \A k \in F : f <= k
    <3> HIDE DEF F
    <3> QED  BY <2>4, NatHasLeast
  <2> DEFINE Few == {u \in Fast : s[u].failures = f}
  <2>6. Few \in SUBSET Nat /\ Few # {}
    BY <2>5, EndpointConstants
  <2>7. PICK b \in Few : \A u \in Few : b <= u
    <3> HIDE DEF Few
    <3> QED  BY <2>6, NatHasLeast
  <2>8. b \in Endpoints /\ s[b].latency = l /\ s[b].failures = f /\ l \in Nat /\ f \in Nat
    BY <1>1, <2>7
  <2>9. \A v \in Endpoints : ~Endpoint!Before(s[v], s[b])
    <3> TAKE v \in Endpoints
    <3>1. ASSUME s[v].latency = l PROVE s[v].failures \in F
      <4>1. v \in Fast
        BY <3>1
      <4> QED  BY <4>1
    <3>2. s[v].latency = l => f <= s[v].failures
      <4> HIDE DEF F
      <4> QED  BY <2>5, <3>1
    <3>3. l <= s[v].latency /\ s[v].latency \in Nat /\ s[v].failures \in Nat
      BY <1>1, <2>3
    <3> QED  BY <2>8, <3>2, <3>3 DEF Endpoint!Before
  <2>10. \A v \in 1 .. b - 1 : Endpoint!Before(s[b], s[v])
    <3> TAKE v \in 1 .. b - 1
    <3>1. v \in Endpoints /\ b \in Nat /\ ~(b <= v)
      BY <2>8, EndpointConstants DEF Endpoints, Endpoint!Endpoints
    <3>2. v \notin Few
      BY <2>7, <3>1
    <3>3. ASSUME s[v].latency = l PROVE s[v].failures \in F
      <4>1. v \in Fast
        BY <3>1, <3>3
      <4> QED  BY <4>1
    <3> QED  BY <1>1, <2>3, <2>5, <2>8, <3>1, <3>2, <3>3 DEF Endpoint!Before
  <2>11. PICK c : c = Endpoint!Best(s)
    OBVIOUS
  <2>12. /\ c \in Endpoints /\ \A v \in Endpoints : ~Endpoint!Before(s[v], s[c])
    BY <1>3, <2>8, <2>9, <2>10, <2>11 DEF Endpoint!Best, Endpoints
  <2>13. \A u \in Endpoints : s[c].latency <= s[u].latency
    BY <1>1, <2>12 DEF Endpoint!Before
  <2> QED  BY <2>11, <2>12, <2>13
<1> QED  BY <1>2, <1>3, EndpointConstants

LEMMA EndpointInit == Endpoint!Init => EndpointInv
<1> SUFFICES ASSUME Endpoint!Init PROVE EndpointInv
  OBVIOUS
<1>1. loop = [at |-> "select", url |-> 0, then |-> "none", results |-> <<>>]
  BY DEF Endpoint!Init, Endpoint!At
<1>2. 0 \notin Endpoints
  BY EndpointConstants DEF Endpoints, Endpoint!Endpoints
<1>3. probeDue = TRUE /\ score = [u \in Endpoints |-> Endpoint!Unscored]
      /\ heard = [u \in Endpoints |-> Endpoint!None]
  BY DEF Endpoint!Init, Endpoints
<1>4. Endpoint!Unscored \in Scores
  BY EndpointParts, EndpointConstants DEF Endpoint!Unscored, Scores
<1>5. ping \in [Endpoints -> Answers] /\ streams \subseteq Endpoints
  BY DEF Endpoint!Init, Endpoints, Answers
<1>6. EndpointTyped
  BY <1>1, <1>2, <1>3, <1>4, <1>5, EndpointParts DEF EndpointTyped
<1> QED  BY <1>1, <1>3, <1>6 DEF EndpointInv, ScoresAreHeard, ConnectsToBest

\* Where the loop goes next, when it does not stay in a probe.
LEMMA LoopMoves ==
  ASSUME NEW to, NEW u \in Endpoints \cup {0}, NEW n,
         n = [at |-> to, url |-> u, then |-> "none", results |-> <<>>]
  PROVE  n.at = to /\ n.url = u /\ n.then = "none"
OBVIOUS

LEMMA WorseParts ==
  ASSUME NEW s \in Scores
  PROVE  /\ Endpoint!Worse(s) \in Scores /\ [Endpoint!Worse(s) EXCEPT !.latency = Endpoint!None] \in Scores
         /\ [s EXCEPT !.failures = 0] \in Scores /\ [s EXCEPT !.failures = 0].latency = s.latency
         /\ \A l \in Answers : Endpoint!Scored(s, l) \in Scores /\ Endpoint!Scored(s, l).latency = l
<1>1. PICK f : f = IF s.failures < StreamFailures THEN s.failures + 1 ELSE s.failures
  OBVIOUS
<1>2. f \in 0 .. StreamFailures /\ 0 \in 0 .. StreamFailures
  BY <1>1, EndpointConstants DEF Scores
<1>3. Endpoint!Worse(s) = [s EXCEPT !.failures = f]
  BY <1>1 DEF Endpoint!Worse, Scores
<1>4. Endpoint!Worse(s) \in Scores
  BY <1>2, <1>3 DEF Scores
<1>5. /\ [Endpoint!Worse(s) EXCEPT !.latency = Endpoint!None] \in Scores
      /\ [Endpoint!Worse(s) EXCEPT !.latency = Endpoint!None].latency = Endpoint!None
  BY <1>4, EndpointParts DEF Scores
<1>6. [s EXCEPT !.failures = 0] \in Scores /\ [s EXCEPT !.failures = 0].latency = s.latency
  BY <1>2 DEF Scores
<1>7. \A l \in Answers : [latency |-> l, failures |-> 0] \in Scores
  BY <1>2 DEF Scores
<1> QED  BY <1>4, <1>5, <1>6, <1>7 DEF Endpoint!Scored

LEMMA EndpointNext == EndpointInv /\ [Endpoint!Next]_Endpoint!vars => EndpointInv'
<1> SUFFICES ASSUME EndpointInv, [Endpoint!Next]_Endpoint!vars PROVE EndpointInv'
  OBVIOUS
<1>0. EndpointTyped /\ ScoresAreHeard /\ ConnectsToBest /\ 0 \notin Endpoints
  BY EndpointConstants DEF EndpointInv, Endpoints, Endpoint!Endpoints
<1>1. ASSUME NEW u \in Endpoints, Endpoint!Changes(u) PROVE EndpointInv'
  <2>1. PICK l \in Answers : ping' = [ping EXCEPT ![u] = l]
    BY <1>1 DEF Endpoint!Changes, Answers
  <2>2. ping' \in [Endpoints -> Answers]
    BY <1>0, <2>1 DEF EndpointTyped
  <2>3. streams' \subseteq Endpoints /\ UNCHANGED <<score, probeDue, loop, heard>>
    BY <1>0, <1>1 DEF Endpoint!Changes, EndpointTyped
  <2> QED  BY <1>0, <2>2, <2>3 DEF EndpointInv, EndpointTyped, ScoresAreHeard, ConnectsToBest
<1>2. CASE Endpoint!IntervalPasses
  BY <1>0, <1>2 DEF Endpoint!IntervalPasses, EndpointInv, EndpointTyped, ScoresAreHeard, ConnectsToBest
<1>3. CASE Endpoint!select_ws_endpoint
  <2>1. UNCHANGED <<ping, streams, score, probeDue, heard>> /\ loop.at = "select"
    BY <1>3 DEF Endpoint!select_ws_endpoint
  <2>2. CASE Adaptive /\ probeDue
    <3>1. loop' = [at |-> "probe", url |-> 0, then |-> "connect", results |-> [u \in Endpoints |-> 0]]
      BY <1>3, <2>2 DEF Endpoint!select_ws_endpoint, Endpoint!Probing, Endpoint!At, Endpoints
    <3>2. loop'.at = "probe" /\ loop'.url = 0 /\ loop'.then = "connect"
          /\ loop'.results = [u \in Endpoints |-> 0] /\ loop'.results \in [Endpoints -> Answers \cup {0}]
      BY <3>1
    <3>3. EndpointTyped'
      BY <1>0, <2>1, <3>1, <3>2 DEF EndpointTyped
    <3> QED  BY <1>0, <2>1, <3>2, <3>3 DEF EndpointInv, ScoresAreHeard, ConnectsToBest
  <2>3. CASE ~(Adaptive /\ probeDue)
    <3>1. PICK u : u = Endpoint!Best(score)
      OBVIOUS
    <3>2. u \in Endpoints /\ (Adaptive => \A v \in Endpoints : score[u].latency <= score[v].latency)
      BY <1>0, <3>1, BestParts DEF EndpointTyped
    <3>3. loop' = [at |-> "connect", url |-> u, then |-> "none", results |-> <<>>]
      BY <1>3, <2>3, <3>1 DEF Endpoint!select_ws_endpoint, Endpoint!Connecting, Endpoint!At
    <3>4. loop'.at = "connect" /\ loop'.url = u /\ loop'.then = "none"
      BY <3>3
    <3>5. EndpointTyped'
      BY <1>0, <2>1, <3>2, <3>4 DEF EndpointTyped
    <3>6. ConnectsToBest'
      BY <1>0, <2>1, <2>3, <3>2, <3>4 DEF ScoresAreHeard, ConnectsToBest
    <3> QED  BY <1>0, <2>1, <3>5, <3>6 DEF EndpointInv, ScoresAreHeard
  <2> QED  BY <2>2, <2>3
<1>4. ASSUME NEW u \in Endpoints, Endpoint!probe_ws_endpoint(u) PROVE EndpointInv'
  <2>1. /\ UNCHANGED <<ping, streams, score, probeDue, heard>> /\ loop.at = "probe"
        /\ loop' = [loop EXCEPT !.results[u] = ping[u]]
    BY <1>4 DEF Endpoint!probe_ws_endpoint
  <2>2. PICK r, t : r = [loop.results EXCEPT ![u] = ping[u]] /\ t = loop.then
    OBVIOUS
  <2>3. loop = [at |-> "probe", url |-> 0, then |-> t, results |-> loop.results]
    BY <1>0, <2>1, <2>2 DEF EndpointTyped
  <2>4. loop' = [at |-> "probe", url |-> 0, then |-> t, results |-> r]
    BY <2>1, <2>2, <2>3
  <2>5. r \in [Endpoints -> Answers \cup {0}]
    BY <1>0, <2>1, <2>2 DEF EndpointTyped
  <2>6. loop'.at = "probe" /\ loop'.url = 0 /\ loop'.then = t /\ loop'.results = r
    BY <2>4
  <2>7. EndpointTyped'
    BY <1>0, <2>1, <2>2, <2>4, <2>5, <2>6 DEF EndpointTyped
  <2> QED  BY <1>0, <2>1, <2>6, <2>7 DEF EndpointInv, ScoresAreHeard, ConnectsToBest
<1>5. CASE Endpoint!probe_ws_endpoints
  <2>1. /\ UNCHANGED <<ping, streams>> /\ loop.at = "probe" /\ \A u \in Endpoints : loop.results[u] # 0
        /\ score' = [u \in Endpoints |-> Endpoint!Scored(score[u], loop.results[u])]
        /\ probeDue' = FALSE /\ heard' = loop.results
        /\ loop' = IF loop.then = "connect" THEN Endpoint!Connecting(Endpoint!Best(score'))
                   ELSE Endpoint!At("sleep")
    BY <1>5 DEF Endpoint!probe_ws_endpoints, Endpoints
  <2>2. heard' \in [Endpoints -> Answers]
    BY <1>0, <2>1 DEF EndpointTyped
  <2>3. \A u \in Endpoints : Endpoint!Scored(score[u], heard'[u]) \in Scores
                             /\ Endpoint!Scored(score[u], heard'[u]).latency = heard'[u]
    <3> TAKE u \in Endpoints
    <3>1. PICK s, l : s = score[u] /\ l = heard'[u]
      OBVIOUS
    <3>2. s \in Scores /\ l \in Answers
      BY <1>0, <2>2, <3>1 DEF EndpointTyped
    <3> QED  BY <3>1, <3>2, WorseParts
  <2>4. score' \in [Endpoints -> Scores] /\ \A u \in Endpoints : score'[u].latency = heard'[u]
    BY <2>1, <2>3
  <2>5. PICK s, b : s = score' /\ b = Endpoint!Best(s)
    OBVIOUS
  <2>6. b \in Endpoints /\ (Adaptive => \A v \in Endpoints : s[b].latency <= s[v].latency)
    BY <2>4, <2>5, BestParts
  <2>7. \/ loop' = [at |-> "connect", url |-> b, then |-> "none", results |-> <<>>]
        \/ loop' = [at |-> "sleep", url |-> 0, then |-> "none", results |-> <<>>]
    BY <2>1, <2>5 DEF Endpoint!Connecting, Endpoint!At
  <2>8. /\ loop'.then = "none" /\ loop'.at \in {"connect", "sleep"}
        /\ loop'.url = IF loop'.at = "connect" THEN b ELSE 0
    BY <2>7
  <2>9. EndpointTyped'
    BY <1>0, <2>1, <2>2, <2>4, <2>6, <2>8 DEF EndpointTyped
  <2>10. ConnectsToBest'
    BY <2>4, <2>5, <2>6, <2>8 DEF ConnectsToBest
  <2> QED  BY <2>4, <2>9, <2>10 DEF EndpointInv, ScoresAreHeard
<1>6. CASE Endpoint!ws_once
  <2>1. /\ UNCHANGED <<ping, streams, score, probeDue, heard>> /\ loop.at = "connect"
        /\ loop' = [loop EXCEPT !.at = "open"]
    BY <1>6 DEF Endpoint!ws_once
  <2>2. loop'.at = "open" /\ loop'.url = loop.url /\ loop'.then = loop.then
    BY <1>0, <2>1 DEF EndpointTyped
  <2>3. EndpointTyped'
    BY <1>0, <2>1, <2>2 DEF EndpointTyped
  <2> QED  BY <1>0, <2>1, <2>2, <2>3 DEF EndpointInv, ScoresAreHeard, ConnectsToBest
<1>7. CASE Endpoint!ConnectFails \/ Endpoint!StreamFails \/ Endpoint!HandlerFails
  <2>1. Endpoint!Fails /\ loop.at \in {"connect", "open"}
    BY <1>7 DEF Endpoint!ConnectFails, Endpoint!StreamFails, Endpoint!HandlerFails
  <2>2. PICK u : u = loop.url
    OBVIOUS
  <2>3. u \in Endpoints
    BY <1>0, <2>1, <2>2 DEF EndpointTyped
  <2>4. PICK x : x = [Endpoint!Worse(score[u]) EXCEPT !.latency = Endpoint!None]
    OBVIOUS
  <2>5. x \in Scores
    BY <1>0, <2>3, <2>4, WorseParts DEF EndpointTyped
  <2>6. score' = [score EXCEPT ![u] = x] /\ probeDue' = TRUE /\ UNCHANGED <<ping, streams, heard>>
    BY <2>1, <2>2, <2>4 DEF Endpoint!Fails
  <2>7. score' \in [Endpoints -> Scores]
    BY <1>0, <2>3, <2>5, <2>6 DEF EndpointTyped
  <2>8. \/ loop' = [at |-> "probe", url |-> 0, then |-> "sleep", results |-> [v \in Endpoints |-> 0]]
        \/ loop' = [at |-> "sleep", url |-> 0, then |-> "none", results |-> <<>>]
    BY <2>1 DEF Endpoint!Fails, Endpoint!Probing, Endpoint!At, Endpoints
  <2>9. CASE loop'.at = "probe"
    <3>1. loop' = [at |-> "probe", url |-> 0, then |-> "sleep", results |-> [v \in Endpoints |-> 0]]
      BY <2>8, <2>9
    <3>2. loop'.url = 0 /\ loop'.then = "sleep" /\ loop'.results = [v \in Endpoints |-> 0]
          /\ loop'.results \in [Endpoints -> Answers \cup {0}]
      BY <3>1
    <3>3. EndpointTyped'
      BY <1>0, <2>6, <2>7, <2>9, <3>1, <3>2 DEF EndpointTyped
    <3> QED  BY <2>6, <2>9, <3>3 DEF EndpointInv, ScoresAreHeard, ConnectsToBest
  <2>10. CASE loop'.at # "probe"
    <3>1. loop'.at = "sleep" /\ loop'.url = 0 /\ loop'.then = "none"
      BY <2>8, <2>10
    <3>2. EndpointTyped'
      BY <1>0, <2>6, <2>7, <3>1 DEF EndpointTyped
    <3> QED  BY <2>6, <3>1, <3>2 DEF EndpointInv, ScoresAreHeard, ConnectsToBest
  <2> QED  BY <2>9, <2>10
<1>8. CASE Endpoint!StreamEnds
  <2>1. /\ loop.at = "open" /\ UNCHANGED <<ping, streams, probeDue, heard>>
        /\ loop' = [at |-> "select", url |-> 0, then |-> "none", results |-> <<>>]
    BY <1>8 DEF Endpoint!StreamEnds, Endpoint!At
  <2>2. PICK u : u = loop.url
    OBVIOUS
  <2>3. u \in Endpoints
    BY <1>0, <2>1, <2>2 DEF EndpointTyped
  <2>4. PICK x : x = [score[u] EXCEPT !.failures = 0]
    OBVIOUS
  <2>5. x \in Scores /\ x.latency = score[u].latency
    BY <1>0, <2>3, <2>4, WorseParts DEF EndpointTyped
  <2>6. score' = [score EXCEPT ![u] = x]
    BY <1>8, <2>2, <2>4 DEF Endpoint!StreamEnds
  <2>7. score' \in [Endpoints -> Scores] /\ \A v \in Endpoints : score'[v].latency = score[v].latency
    BY <1>0, <2>3, <2>5, <2>6 DEF EndpointTyped
  <2>8. loop'.at = "select" /\ loop'.url = 0 /\ loop'.then = "none"
    BY <2>1
  <2>9. EndpointTyped'
    BY <1>0, <2>1, <2>7, <2>8 DEF EndpointTyped
  <2> QED  BY <1>0, <2>1, <2>7, <2>8, <2>9 DEF EndpointInv, ScoresAreHeard, ConnectsToBest
<1>9. CASE Endpoint!Pauses
  <2>1. /\ UNCHANGED <<ping, streams, score, probeDue, heard>>
        /\ loop' = [at |-> "select", url |-> 0, then |-> "none", results |-> <<>>]
    BY <1>9 DEF Endpoint!Pauses, Endpoint!At
  <2>2. loop'.at = "select" /\ loop'.url = 0 /\ loop'.then = "none"
    BY <2>1
  <2>3. EndpointTyped'
    BY <1>0, <2>1, <2>2 DEF EndpointTyped
  <2> QED  BY <1>0, <2>1, <2>2, <2>3 DEF EndpointInv, ScoresAreHeard, ConnectsToBest
<1>10. CASE UNCHANGED Endpoint!vars
  BY <1>0, <1>10 DEF Endpoint!vars, EndpointInv, EndpointTyped, ScoresAreHeard, ConnectsToBest
<1> QED  BY <1>1, <1>2, <1>3, <1>4, <1>5, <1>6, <1>7, <1>8, <1>9, <1>10 DEF Endpoint!Next, Endpoints

LEMMA EndpointProperties == EndpointInv => Endpoint!TypeOK /\ Endpoint!BestEndpoint
BY DEF EndpointInv, EndpointTyped, ConnectsToBest, Endpoint!TypeOK, Endpoint!BestEndpoint, Endpoints, Answers, Scores

\* The live window is sound and without old holes (services/candle_sync.py), and the stream is read
\* from the endpoint that answered the last probe best.
THEOREM WindowIsKept_holds == Live!Spec /\ Endpoint!Spec => []WindowIsKept
<1>1. Endpoint!Spec => [](Endpoint!TypeOK /\ Endpoint!BestEndpoint)
  BY EndpointInit, EndpointNext, EndpointProperties, PTL DEF Endpoint!Spec
<1>2. Live!Spec => []Live!TypeOK
  BY ModelConstants, Live!LiveTypeCorrect
<1>3. Live!Spec => []Live!WindowIsKept
  BY ModelConstants, Live!WindowIsKept_holds
<1> QED  BY <1>1, <1>2, <1>3, PTL DEF WindowIsKept

\* The indicators have no hole, a completed task has computed what it was created for, and no value
\* misses its warm-up.
THEOREM IndicatorsAreKept_holds == Indicators!Spec => []IndicatorsAreKept
<1>1. Indicators!Spec => []Indicators!TypeOK
  BY ModelConstants, Indicators!IndicatorTypeCorrect
<1>2. Indicators!Spec => []Indicators!IndicatorsAreKept
  BY ModelConstants, Indicators!IndicatorsAreKept_holds
<1> QED  BY <1>1, <1>2, PTL DEF IndicatorsAreKept
=============================================================================
