------------------------------- MODULE LiveProofs -------------------------------
(***************************************************************************)
(* Theorems about LiveWindow, for any number of candles, pages, routes,      *)
(* failures and restarts: no candle the exchange has is called unavailable,   *)
(* and the window has no hole before the end of the last undisturbed run.    *)
(***************************************************************************)
EXTENDS LiveWindow, CandleRangesProofs, SequenceTheorems

Page == [start : Int, rows : SUBSET Int, failed : BOOLEAN]
Sync == [pc : Pcs, first : Int, last : Int, gaps : SUBSET Int, wave : Seq(Page),
         marked : SUBSET Int, rows : SUBSET Int, whole : BOOLEAN]

\* Every candle the exchange has from a to b is in S.
Has(S, a, b) == \A t \in Listed : a <= t /\ t <= b => t \in S

\* The last range that is missing.
TargetOf(gaps) == CHOOSE r \in Ranges[gaps] : r[2] = MaxOf(gaps)

\* The pages of a range that are left, one after the other up to its end.
WaveKept(wave, r) ==
  /\ wave # <<>> /\ r[1] <= wave[1].start /\ Has(stored, r[1], wave[1].start - 1)
  /\ \A i \in DOMAIN wave :
       /\ wave[i].start <= r[2] /\ wave[i].rows = klines_page(wave[i].start, r[2])
       /\ i + 1 \in DOMAIN wave => wave[i + 1].start = wave[i].start + PageLimit
  /\ wave[Len(wave)].start + PageLimit > r[2]

Active(s)  == s.pc \in {"locking", "reading", "fetching", "persisting"}

\* A synchronisation: what is not in its gaps any more is stored.
SyncKept(s) ==
  /\ s \in Sync /\ s.marked \subseteq Slots /\ Listed \cap s.marked = {}
  /\ s.gaps \subseteq s.first .. s.last
  /\ s.rows \subseteq stored
  /\ Active(s) => s.first \in Nat /\ s.first <= s.last /\ s.last <= now - 1
  /\ s.pc \in {"reading", "fetching", "persisting"} =>
       \A t \in Listed : s.first <= t /\ t <= s.last /\ t \notin s.gaps => t \in stored
  /\ s.pc \in {"fetching", "persisting"} => s.gaps # {}
  /\ s.pc = "persisting" => WaveKept(s.wave, TargetOf(s.gaps))

\* The synchronisation of the job: its range reaches back far enough, and what
\* it has listed is all the window needs.
JobKept(s) ==
  /\ Active(s) => s.first = 0 \/ s.first <= now - Limit
  /\ s.pc \in {"listing", "replacing"} /\ s.whole =>
       s.last \in Nat /\ s.last <= now - 1 /\ Has(stored, now - Limit + 1, s.last)
  /\ s.pc = "replacing" =>
       /\ Cardinality(s.rows) <= Limit /\ Has(s.rows, now - Limit + 1, covered)
       /\ s.whole => Has(s.rows, now - Limit + 1, s.last)

SyncsKept == /\ sync \in [Syncs -> Sync]
             /\ \A p \in Syncs : SyncKept(sync[p])
             /\ JobKept(sync[Job])

Tables == /\ now \in Slots /\ stored \subseteq Slots /\ \A t \in stored : t < now
          /\ unavailable \subseteq Slots /\ Listed \cap unavailable = {}
          /\ due \subseteq Slots /\ \A t \in due : t < now
          /\ fails \in 0 .. MaxFailures /\ restarts \in 0 .. MaxRestarts

WindowKept ==
  /\ window \in [closed : SUBSET Slots, open : SUBSET Slots]
  /\ \A t \in window.closed \cup window.open : t <= now
  /\ window.closed \cap window.open = {}
  /\ Cardinality(window.closed \cup window.open) <= Limit
  /\ socket \in {"off", "down", "up"}
  /\ covered \in Slots \cup {-1} /\ covered < now
  /\ socket = "off" => covered = -1
  /\ Has(stored, now - Limit + 1, covered)
  /\ Has(window.closed \cup window.open, now - Limit + 1, covered)

Inv == Tables /\ WindowKept /\ SyncsKept
-----------------------------------------------------------------------------
(* Slots, ranges and pages *)

LEMMA ConstantsAre ==
  ASSUME ConstantsOK
  PROVE  /\ Start \in Slots /\ Limit \in Nat /\ Limit > 0 /\ PageLimit \in Nat /\ PageLimit > 0
         /\ MaxPages \in Nat /\ MaxPages > 0 /\ Bridge \in Nat /\ Start > 0
         /\ Slots \subseteq Nat /\ Listed \subseteq Slots /\ \A t \in Slots : 0 .. t \subseteq Slots
         /\ MaxFailures \in Nat /\ MaxRestarts \in Nat /\ Job \in Syncs
<1>1. \A n \in {Start, Limit, PageLimit, MaxPages, Bridge} : n \in Nat \ {0}
  BY DEF ConstantsOK
<1>2. Start \in Nat \ {0} /\ Limit \in Nat \ {0} /\ PageLimit \in Nat \ {0} /\ MaxPages \in Nat \ {0}
      /\ Bridge \in Nat \ {0}
  BY <1>1
<1> QED  BY <1>2 DEF ConstantsOK, Syncs

LEMMA SlotSets ==
  ASSUME ConstantsOK, NEW S, S \subseteq Slots
  PROVE  S \in SUBSET Int /\ IsFiniteSet(S)
<1>1. IsFiniteSet(Slots)
  BY DEF ConstantsOK
<1> QED  BY <1>1, ConstantsAre, FS_Subset

\* The last missing range lies in the gaps, and nothing that is missing after it.
LEMMA TargetIs ==
  ASSUME NEW a \in Int, NEW b \in Int, NEW gaps, gaps \subseteq a .. b, gaps # {},
         NEW r, r = TargetOf(gaps)
  PROVE  /\ r[1] \in Int /\ r[2] \in Int /\ a <= r[1] /\ r[1] <= r[2] /\ r[2] <= b
         /\ r[1] .. r[2] \subseteq gaps /\ \A t \in gaps : t <= r[2]
<1>1. IsFiniteSet(gaps) /\ gaps \in SUBSET Int
  BY PageProperty
<1>2. \E q \in Ranges[gaps] : q[2] = MaxOf(gaps)
  BY <1>1, LastRange
<1>3. r \in Ranges[gaps] /\ r[2] = MaxOf(gaps)
  BY <1>2 DEF TargetOf
<1>4. r[1] \in gaps /\ r[2] \in gaps /\ r[1] .. r[2] \subseteq gaps /\ r[1] <= r[2]
  BY <1>1, <1>3 DEF Ranges
<1>5. \A t \in gaps : t <= MaxOf(gaps)
  BY <1>1, MaxOfProperty
<1>6. \A t \in gaps : t \in Int /\ a <= t /\ t <= b
  OBVIOUS
<1> QED  BY <1>3, <1>4, <1>5, <1>6

\* A page has the first candles of its range, and all of them when it is not full.
LEMMA PageIs ==
  ASSUME ConstantsOK, NEW a \in Int, NEW b \in Int, NEW rows, rows = klines_page(a, b)
  PROVE  /\ rows \subseteq Listed /\ rows \subseteq a .. b
         /\ \A t \in Listed : a <= t /\ t <= b /\ t < a + PageLimit => t \in rows
         /\ Cardinality(rows) < PageLimit => Has(rows, a, b)
         /\ rows = {} => Has({}, a, b)
<1> DEFINE S == Listed \cap (a .. b)
<1>1. S \in SUBSET Int /\ IsFiniteSet(S) /\ \A t \in S : a <= t /\ t <= b
  <2>1. S \subseteq Slots
    BY ConstantsAre
  <2> QED  BY <2>1, SlotSets
<1>2. \A t : t \in S <=> t \in Listed /\ a <= t /\ t <= b
  BY ConstantsAre
<1>3. rows = FirstOf(PageLimit, S)
  BY DEF klines_page, FirstOf
<1>4. PageLimit \in Nat /\ PageLimit > 0
  BY ConstantsAre
<1>5. S \subseteq Listed /\ S \subseteq a .. b
  OBVIOUS
<1> HIDE DEF S
<1>6. /\ rows \subseteq S
      /\ Cardinality(rows) < PageLimit => rows = S
      /\ \A t \in S, x \in Int : (\A u \in S : x <= u) /\ t < x + PageLimit => t \in rows
  BY <1>1, <1>3, <1>4, FirstOnes
<1>7. ASSUME NEW t \in Listed, a <= t, t <= b, t < a + PageLimit PROVE t \in rows
  <2>1. t \in S
    BY <1>2, <1>7
  <2> QED  BY <1>1, <1>6, <1>7, <2>1
<1>8. Cardinality(rows) < PageLimit => Has(rows, a, b)
  BY <1>2, <1>6 DEF Has
<1>9. rows = {} => Cardinality(rows) < PageLimit
  BY <1>4, FS_EmptySet
<1> QED  BY <1>5, <1>6, <1>7, <1>8, <1>9 DEF Has

\* The latest rows are at most Limit, and all that are less than Limit old.
LEMMA LatestIs ==
  ASSUME ConstantsOK, NEW S, S \subseteq Slots, NEW L, L = Latest(Limit, S)
  PROVE  /\ L \subseteq S /\ Cardinality(L) <= Limit
         /\ \A t \in S, b \in Int : (\A u \in S : u <= b) /\ b - Limit < t => t \in L
<1>1. S \in SUBSET Int /\ IsFiniteSet(S) /\ Limit \in Nat
  BY SlotSets, ConstantsAre
<1>2. L = LastOf(Limit, S)
  BY DEF Latest, LastOf
<1> QED  BY <1>1, <1>2, LastOnes

-----------------------------------------------------------------------------
(* What a step leaves alone *)

\* Candles are added, the clock goes on.
Grows == stored \subseteq stored' /\ now \in Int /\ now' \in Int /\ now <= now'

LEMMA SyncStays ==
  ASSUME ConstantsOK, Grows, NEW s, SyncKept(s)
  PROVE  SyncKept(s)'
<1>1. WaveKept(s.wave, TargetOf(s.gaps)) => WaveKept(s.wave, TargetOf(s.gaps))'
  BY DEF WaveKept, Has, Grows
<1>2. s.last \in Int
  BY DEF SyncKept, Sync
<1> QED  BY <1>1, <1>2 DEF SyncKept, Grows, Active

LEMMA JobStays ==
  ASSUME ConstantsOK, Grows, NEW s, s \in Sync, JobKept(s), UNCHANGED covered
  PROVE  JobKept(s)'
<1>1. s.first \in Int /\ s.last \in Int /\ Limit \in Nat /\ now \in Int /\ now' \in Int /\ now <= now'
      /\ Listed \subseteq Nat /\ stored \subseteq stored'
  BY ConstantsAre DEF Sync, Grows
<1>2. s.first <= now - Limit => s.first <= now' - Limit
  BY <1>1
<1>3. \A S, b : Has(S, now - Limit + 1, b) => Has(S, now' - Limit + 1, b)
  <2> SUFFICES ASSUME NEW S, NEW b, Has(S, now - Limit + 1, b), NEW t \in Listed,
                      now' - Limit + 1 <= t, t <= b
               PROVE  t \in S
    BY DEF Has
  <2>0. t \in Int /\ now \in Int /\ now' \in Int /\ Limit \in Int /\ now <= now'
    BY <1>1
  <2>1. PICK n, m \in Int : n = now /\ m = now'
    BY <2>0
  <2>2. m - Limit + 1 <= t /\ n <= m
    BY <2>0, <2>1
  <2>3. n - Limit + 1 <= t
    BY <2>0, <2>2
  <2>4. now - Limit + 1 <= t
    BY <2>1, <2>3
  <2> QED  BY <2>4 DEF Has
<1>4. \A b : Has(stored, now' - Limit + 1, b) => Has(stored', now' - Limit + 1, b)
  BY <1>1 DEF Has
<1>5. s.last <= now - 1 => s.last <= now' - 1
  BY <1>1
<1> QED  BY <1>2, <1>3, <1>4, <1>5 DEF JobKept, Active

LEMMA SyncsStay ==
  ASSUME ConstantsOK, Grows, SyncsKept, UNCHANGED <<sync, covered>>
  PROVE  SyncsKept'
<1>1. Job \in Syncs
  BY ConstantsAre
<1> QED  BY <1>1, SyncStays, JobStays DEF SyncsKept

\* One synchronisation goes on.
LEMMA SyncSet ==
  ASSUME ConstantsOK, Grows, SyncsKept, NEW p \in Syncs, NEW k, p = Job \/ UNCHANGED covered,
         sync' = [sync EXCEPT ![p] = k], SyncKept(k)', p = Job => JobKept(k)'
  PROVE  SyncsKept'
<1>1. \A q \in Syncs : sync'[q] = IF q = p THEN k ELSE sync[q]
  BY DEF SyncsKept
<1>2. ASSUME NEW q \in Syncs PROVE SyncKept(sync[q])'
  <2>1. PICK s : s = sync'[q]
    OBVIOUS
  <2>2. SyncKept(s)'
    <3>1. CASE q = p
      BY <1>1, <2>1, <3>1
    <3>2. CASE q # p
      <4>1. SyncKept(s)
        <5>1. SyncKept(sync[q]) /\ s = sync[q]
          BY <1>1, <2>1, <3>2 DEF SyncsKept
        <5> QED  BY <5>1
      <4> QED  BY <4>1, SyncStays
    <3> QED  BY <3>1, <3>2
  <2> QED  BY <2>1, <2>2 DEF SyncKept, WaveKept, Has
<1>3. JobKept(sync[Job])'
  <2>1. PICK s : s = sync'[Job]
    OBVIOUS
  <2>2. Job \in Syncs
    BY ConstantsAre
  <2>3. JobKept(s)'
    <3>1. CASE p = Job
      BY <1>1, <2>1, <2>2, <3>1
    <3>2. CASE p # Job
      <4>1. JobKept(s) /\ s \in Sync
        <5>1. JobKept(sync[Job]) /\ s = sync[Job] /\ s \in Sync
          BY <1>1, <2>1, <2>2, <3>2 DEF SyncsKept
        <5> QED  BY <5>1
      <4>2. UNCHANGED covered
        BY <3>2
      <4> QED  BY <4>1, <4>2, JobStays
    <3> QED  BY <3>1, <3>2
  <2> QED  BY <2>1, <2>3 DEF JobKept, Has
<1>4. sync' \in [Syncs -> Sync]
  BY <1>2 DEF SyncsKept, SyncKept
<1> QED  BY <1>2, <1>3, <1>4 DEF SyncsKept

LEMMA WindowStays ==
  ASSUME WindowKept, UNCHANGED <<now, window, socket, covered>>, stored \subseteq stored'
  PROVE  WindowKept'
BY DEF WindowKept, Has

\* A process after its synchronisation.
SyncedAs(p, l, m, w) ==
  IF p = Job THEN [Idle EXCEPT !.pc = "listing", !.last = l, !.marked = m, !.whole = w] ELSE Idle

LEMMA SyncedKept ==
  ASSUME ConstantsOK, NEW p, NEW l \in Int, NEW m, NEW w \in BOOLEAN, NEW k, k = SyncedAs(p, l, m, w),
         m \subseteq Slots, Listed \cap m = {},
         p = Job /\ w => l \in Nat /\ l <= now' - 1 /\ Has(stored, now - Limit + 1, l)'
  PROVE  SyncKept(k)' /\ (p = Job => JobKept(k)')
<1>1. Idle \in Sync /\ Idle.pc = "idle" /\ Idle.gaps = {} /\ Idle.rows = {} /\ Idle.marked = {}
  BY DEF Idle, Sync, Pcs, Page
<1>2. CASE p = Job
  <2>1. m \in SUBSET Int
    BY ConstantsAre
  <2>2. /\ k \in Sync /\ k.pc = "listing" /\ k.last = l /\ k.marked = m /\ k.whole = w
        /\ k.gaps = {} /\ k.rows = {}
    <3>1. k = [pc |-> "listing", first |-> 0, last |-> l, gaps |-> {}, wave |-> <<>>, marked |-> m,
               rows |-> {}, whole |-> w]
      BY <1>2 DEF SyncedAs, Idle
    <3>2. <<>> \in Seq(Page) /\ "listing" \in Pcs
      BY DEF Pcs
    <3> QED  BY <2>1, <3>1, <3>2 DEF Sync
  <2> QED  BY <1>2, <2>2 DEF SyncKept, JobKept, Active
<1>3. CASE p # Job
  <2>1. k = Idle
    BY <1>3 DEF SyncedAs
  <2> QED  BY <1>1, <1>3, <2>1 DEF SyncKept, Active
<1> QED  BY <1>2, <1>3

LEMMA SyncedEarly ==
  ASSUME ConstantsOK, NEW p, NEW l \in Int, NEW k, k = SyncedAs(p, l, {}, FALSE)
  PROVE  SyncKept(k)' /\ (p = Job => JobKept(k)')
<1>1. PICK m, w : m = {} /\ w = FALSE
  OBVIOUS
<1>2. m \subseteq Slots /\ Listed \cap m = {} /\ w \in BOOLEAN /\ ~ w /\ k = SyncedAs(p, l, m, w)
  BY <1>1
<1> QED  BY <1>2, SyncedKept

LEMMA SyncedWhole ==
  ASSUME ConstantsOK, NEW p, NEW l \in Int, NEW k, k = SyncedAs(p, l, {}, TRUE),
         p = Job => l \in Nat /\ l <= now' - 1 /\ Has(stored, now - Limit + 1, l)'
  PROVE  SyncKept(k)' /\ (p = Job => JobKept(k)')
<1>1. PICK m, w : m = {} /\ w = TRUE
  OBVIOUS
<1>2. m \subseteq Slots /\ Listed \cap m = {} /\ w \in BOOLEAN /\ k = SyncedAs(p, l, m, w)
  BY <1>1
<1>3. p = Job /\ w => l \in Nat /\ l <= now' - 1 /\ Has(stored, now - Limit + 1, l)'
  OBVIOUS
<1> QED  BY <1>2, <1>3, SyncedKept

\* What the range of the job has is what the window needs of it.
LEMMA RangeReaches ==
  ASSUME ConstantsOK, now \in Int, NEW s \in Sync, JobKept(s), Active(s), s.first \in Nat, s.first <= s.last,
         NEW S, \A t \in Listed : s.first <= t /\ t <= s.last => t \in S
  PROVE  s.last \in Nat /\ Has(S, now - Limit + 1, s.last)
<1>1. s.last \in Nat /\ (s.first = 0 \/ s.first <= now - Limit)
  BY DEF JobKept, Sync
<1>2. s.last \in Int /\ Limit \in Nat /\ Listed \subseteq Nat
  BY ConstantsAre DEF Sync
<1>3. s.last \in Nat
  BY <1>2
<1>4. ASSUME NEW t \in Listed, now - Limit + 1 <= t PROVE s.first <= t
  BY <1>1, <1>2, <1>4
<1> QED  BY <1>3, <1>4 DEF Has

-----------------------------------------------------------------------------
(* Synchronisations *)

\* A step of a synchronisation that adds at most candles of closed slots.
LEMMA TablesGrow ==
  ASSUME ConstantsOK, Tables, WindowKept, UNCHANGED <<now, window, socket, due, covered, restarts>>,
         stored \subseteq stored', stored' \subseteq Slots, \A t \in stored' : t < now,
         unavailable' \subseteq Slots, Listed \cap unavailable' = {}, fails' \in 0 .. MaxFailures
  PROVE  Tables' /\ WindowKept' /\ Grows
<1>1. now \in Int /\ now <= now
  BY ConstantsAre DEF Tables
<1> QED  BY <1>1, WindowStays DEF Tables, Grows

LEMMA TablesRest ==
  ASSUME ConstantsOK, Tables, WindowKept, fails' \in 0 .. MaxFailures,
         UNCHANGED <<now, stored, unavailable, window, socket, due, covered, restarts>>
  PROVE  Tables' /\ WindowKept' /\ Grows
BY TablesGrow DEF Tables

LEMMA EnsureRange ==
  ASSUME ConstantsOK, Inv, NEW p \in Syncs, NEW range, ensure_range(p, range),
         range.first \in Nat, range.last \in Int, range.last <= now - 1,
         p = Job => range.first = 0 \/ range.first <= now - Limit
  PROVE  Inv'
<1>a. PICK l : l = sync[p].last
  OBVIOUS
<1>b. PICK a, b : a = range.first /\ b = range.last
  OBVIOUS
<1> DEFINE size == b - a + 1
<1>c. PICK k : k = IF size <= 0 \/ size > MaxPages * PageLimit THEN SyncedAs(p, l, {}, FALSE)
                   ELSE [Idle EXCEPT !.pc = "locking", !.first = a, !.last = b]
  OBVIOUS
<1>1. /\ sync' = [sync EXCEPT ![p] = k]
      /\ UNCHANGED <<now, stored, unavailable, window, socket, due, covered, fails, restarts>>
  BY <1>a, <1>b, <1>c DEF ensure_range, Synced, SyncedAs
<1>2. Tables' /\ WindowKept' /\ Grows
  BY <1>1, TablesRest DEF Inv, Tables
<1>3. l \in Int /\ a \in Nat /\ b \in Int /\ now \in Int /\ b <= now - 1
      /\ (p = Job => a = 0 \/ a <= now - Limit)
  <2>1. now \in Int
    BY ConstantsAre DEF Inv, Tables
  <2> QED  BY <1>a, <1>b, <2>1 DEF Inv, SyncsKept, Sync
<1>4. SyncKept(k)' /\ (p = Job => JobKept(k)')
  <2>1. CASE size <= 0 \/ size > MaxPages * PageLimit
    <3>1. k = SyncedAs(p, l, {}, FALSE)
      BY <1>c, <2>1
    <3> QED  BY <1>3, <3>1, SyncedEarly
  <2>2. CASE ~ (size <= 0 \/ size > MaxPages * PageLimit)
    <3>1. a <= b
      BY <1>3, <2>2
    <3>2. k = [pc |-> "locking", first |-> a, last |-> b, gaps |-> {}, wave |-> <<>>, marked |-> {},
               rows |-> {}, whole |-> FALSE]
      BY <1>c, <2>2 DEF Idle
    <3>3. <<>> \in Seq(Page) /\ "locking" \in Pcs
      BY DEF Pcs
    <3>4. k \in Sync
      BY <1>3, <3>2, <3>3 DEF Sync
    <3> QED  BY <1>1, <1>3, <3>1, <3>2, <3>4 DEF SyncKept, JobKept, Active
  <2> QED  BY <2>1, <2>2
<1>5. SyncsKept'
  BY <1>1, <1>2, <1>4, SyncSet DEF Inv
<1> QED  BY <1>2, <1>5 DEF Inv

LEMMA JobBegins_keeps ==
  ASSUME ConstantsOK, Inv, JobBegins
  PROVE  Inv'
<1>1. PICK range : range = latest_window(Limit)
  OBVIOUS
<1>2. now \in Nat /\ Limit \in Nat /\ Limit > 0
  BY ConstantsAre DEF Inv, Tables
<1>3. /\ range.first \in Nat /\ range.last \in Int /\ range.last <= now - 1
      /\ range.first = 0 \/ range.first <= now - Limit
  BY <1>1, <1>2 DEF latest_window, normalize_sync_range, Larger, Smaller
<1>4. ensure_range(Job, range)
  BY <1>1 DEF JobBegins
<1> QED  BY <1>3, <1>4, ConstantsAre, EnsureRange

LEMMA RouteBegins_keeps ==
  ASSUME ConstantsOK, Inv, NEW p \in Routes, RouteBegins(p)
  PROVE  Inv'
<1>1. now \in Nat /\ Limit \in Nat /\ p \in Syncs /\ p # Job
  BY ConstantsAre DEF Inv, Tables, ConstantsOK, Syncs
<1>2. ASSUME NEW extra \in 0 .. 1, ensure_range(p, latest_window(Limit + extra)) PROVE Inv'
  <2>1. PICK range : range = latest_window(Limit + extra)
    OBVIOUS
  <2>2. range.first \in Nat /\ range.last \in Int /\ range.last <= now - 1
    BY <1>1, <2>1 DEF latest_window, normalize_sync_range, Larger, Smaller
  <2> QED  BY <1>1, <1>2, <2>1, <2>2, EnsureRange
<1>3. ASSUME NEW r \in Asked, ensure_range(p, normalize_sync_range(r[1], r[2])) PROVE Inv'
  <2>1. PICK range : range = normalize_sync_range(r[1], r[2])
    OBVIOUS
  <2>2. r[1] \in Nat /\ r[2] \in Nat
    <3>1. r \in Slots \X Slots
      BY DEF ConstantsOK
    <3> QED  BY <3>1, ConstantsAre
  <2>3. range.first \in Nat /\ range.last \in Int /\ range.last <= now - 1
    BY <1>1, <2>1, <2>2 DEF normalize_sync_range, Larger, Smaller
  <2> QED  BY <1>1, <1>3, <2>1, <2>3, EnsureRange
<1> QED  BY <1>2, <1>3 DEF RouteBegins

LEMMA missing_ranges_keeps ==
  ASSUME ConstantsOK, Inv, NEW p \in Syncs, missing_ranges_for_window(p)
  PROVE  Inv'
<1>a. PICK s : s = sync[p]
  OBVIOUS
<1>b. PICK gaps : gaps = (s.first .. s.last) \ stored
  OBVIOUS
<1>c. PICK merged : merged = merge_missing_range_windows(Bridge)[gaps]
  OBVIOUS
<1>d. PICK k : k = IF gaps = {} THEN SyncedAs(p, s.last, {}, TRUE)
                   ELSE [s EXCEPT !.pc = "reading", !.gaps = merged]
  OBVIOUS
<1>1. /\ s.pc = "locking" /\ sync' = [sync EXCEPT ![p] = k]
      /\ UNCHANGED <<now, stored, unavailable, window, socket, due, covered, fails, restarts>>
  BY <1>a, <1>b, <1>c, <1>d DEF missing_ranges_for_window, Synced, SyncedAs
<1>2. Tables' /\ WindowKept' /\ Grows
  BY <1>1, TablesRest DEF Inv, Tables
<1>3. SyncKept(s) /\ (p = Job => JobKept(s)) /\ s \in Sync /\ Active(s)
  BY <1>1, <1>a DEF Inv, SyncsKept, SyncKept, Active
<1>4. s.first \in Nat /\ s.last \in Int /\ s.first <= s.last /\ s.last <= now - 1 /\ now \in Int
  <2>1. now \in Int
    BY ConstantsAre DEF Inv, Tables
  <2> QED  BY <1>3, <2>1 DEF SyncKept, Sync
<1>5. CASE gaps = {}
  <2>1. \A t \in Listed : s.first <= t /\ t <= s.last => t \in stored
    BY <1>4, <1>5, <1>b, ConstantsAre
  <2>2. p = Job => s.last \in Nat /\ Has(stored, now - Limit + 1, s.last)
    BY <1>3, <1>4, <2>1, RangeReaches
  <2>3. p = Job => s.last \in Nat /\ s.last <= now' - 1 /\ Has(stored, now - Limit + 1, s.last)'
    BY <1>1, <1>4, <2>2 DEF Has
  <2>4. k = SyncedAs(p, s.last, {}, TRUE)
    BY <1>5, <1>d
  <2>5. SyncKept(k)' /\ (p = Job => JobKept(k)')
    BY <1>4, <2>3, <2>4, SyncedWhole
  <2>6. SyncsKept'
    BY <1>1, <1>2, <2>5, SyncSet DEF Inv
  <2> QED  BY <1>2, <2>6 DEF Inv
<1>6. CASE gaps # {}
  <2>1. merged \subseteq s.first .. s.last /\ gaps \subseteq merged
    <3>1. gaps \subseteq s.first .. s.last
      BY <1>b
    <3>2. PICK a, b, bridge : a = s.first /\ b = s.last /\ bridge = Bridge
      OBVIOUS
    <3>3. a \in Int /\ b \in Int /\ gaps \subseteq a .. b
      BY <1>4, <3>1, <3>2
    <3>4. merge_missing_range_windows(bridge)[gaps] \subseteq a .. b
          /\ gaps \subseteq merge_missing_range_windows(bridge)[gaps]
      BY <3>3, MergedWithin
    <3> QED  BY <1>c, <3>2, <3>4
  <2>2. merged \in SUBSET Int /\ "reading" \in Pcs
    BY <2>1 DEF Pcs
  <2>3. /\ k \in Sync /\ k.pc = "reading" /\ k.gaps = merged /\ k.first = s.first /\ k.last = s.last
        /\ k.marked = s.marked /\ k.rows = s.rows
    BY <1>3, <1>6, <1>d, <2>2 DEF Sync
  <2>4. \A t \in Listed : s.first <= t /\ t <= s.last /\ t \notin merged => t \in stored
    <3> SUFFICES ASSUME NEW t \in Listed, s.first <= t, t <= s.last, t \notin merged PROVE t \in stored
      OBVIOUS
    <3>1. t \in s.first .. s.last /\ t \notin gaps
      BY <1>4, <2>1, ConstantsAre
    <3> QED  BY <1>b, <3>1
  <2>5. SyncKept(k) /\ (p = Job => JobKept(k))
    BY <1>3, <1>4, <2>1, <2>3, <2>4 DEF SyncKept, JobKept, Active
  <2>6. SyncKept(k)' /\ (p = Job => JobKept(k)')
    BY <1>1, <1>2, <2>3, <2>5, SyncStays, JobStays
  <2>7. SyncsKept'
    BY <1>1, <1>2, <2>6, SyncSet DEF Inv
  <2> QED  BY <1>2, <2>7 DEF Inv
<1> QED  BY <1>5, <1>6

LEMMA subtract_keeps ==
  ASSUME ConstantsOK, Inv, NEW p \in Syncs, subtract_unavailable_ranges(p)
  PROVE  Inv'
<1>a. PICK s : s = sync[p]
  OBVIOUS
<1>b. PICK gaps : gaps = s.gaps \ unavailable
  OBVIOUS
<1>d. PICK k : k = IF gaps = {} THEN SyncedAs(p, s.last, {}, TRUE)
                   ELSE [s EXCEPT !.pc = "fetching", !.gaps = gaps]
  OBVIOUS
<1>1. /\ s.pc = "reading" /\ sync' = [sync EXCEPT ![p] = k]
      /\ UNCHANGED <<now, stored, unavailable, window, socket, due, covered, fails, restarts>>
  BY <1>a, <1>b, <1>d DEF subtract_unavailable_ranges, Synced, SyncedAs
<1>2. Tables' /\ WindowKept' /\ Grows
  BY <1>1, TablesRest DEF Inv, Tables
<1>3. SyncKept(s) /\ (p = Job => JobKept(s)) /\ s \in Sync /\ Active(s)
  BY <1>1, <1>a DEF Inv, SyncsKept, SyncKept, Active
<1>4. s.first \in Nat /\ s.last \in Int /\ s.first <= s.last /\ s.last <= now - 1 /\ now \in Int
  <2>1. now \in Int
    BY ConstantsAre DEF Inv, Tables
  <2> QED  BY <1>3, <2>1 DEF SyncKept, Sync
<1>5. \A t \in Listed : s.first <= t /\ t <= s.last /\ t \notin gaps => t \in stored
  <2>1. \A t \in Listed : t \notin unavailable
    BY DEF Inv, Tables
  <2> QED  BY <1>1, <1>3, <1>b, <2>1 DEF SyncKept
<1>6. CASE gaps = {}
  <2>1. \A t \in Listed : s.first <= t /\ t <= s.last => t \in stored
    BY <1>5, <1>6
  <2>2. p = Job => s.last \in Nat /\ Has(stored, now - Limit + 1, s.last)
    BY <1>3, <1>4, <2>1, RangeReaches
  <2>3. p = Job => s.last \in Nat /\ s.last <= now' - 1 /\ Has(stored, now - Limit + 1, s.last)'
    BY <1>1, <1>4, <2>2 DEF Has
  <2>4. k = SyncedAs(p, s.last, {}, TRUE)
    BY <1>6, <1>d
  <2>5. SyncKept(k)' /\ (p = Job => JobKept(k)')
    BY <1>4, <2>3, <2>4, SyncedWhole
  <2>6. SyncsKept'
    BY <1>1, <1>2, <2>5, SyncSet DEF Inv
  <2> QED  BY <1>2, <2>6 DEF Inv
<1>7. CASE gaps # {}
  <2>1. gaps \subseteq s.gaps /\ gaps \subseteq s.first .. s.last
    BY <1>3, <1>b DEF SyncKept
  <2>2. gaps \in SUBSET Int /\ "fetching" \in Pcs
    BY <2>1 DEF Pcs
  <2>3. /\ k \in Sync /\ k.pc = "fetching" /\ k.gaps = gaps /\ k.first = s.first /\ k.last = s.last
        /\ k.marked = s.marked /\ k.rows = s.rows
    BY <1>3, <1>7, <1>d, <2>2 DEF Sync
  <2>4. SyncKept(k) /\ (p = Job => JobKept(k))
    BY <1>3, <1>4, <1>5, <1>7, <2>1, <2>3 DEF SyncKept, JobKept, Active
  <2>5. SyncKept(k)' /\ (p = Job => JobKept(k)')
    BY <1>1, <1>2, <2>3, <2>4, SyncStays, JobStays
  <2>6. SyncsKept'
    BY <1>1, <1>2, <2>5, SyncSet DEF Inv
  <2> QED  BY <1>2, <2>6 DEF Inv
<1> QED  BY <1>6, <1>7

\* The answers to the pages of range r.
WaveOf(starts, r, failed) == [i \in DOMAIN starts |-> fetch_page(starts[i], r[2], i \in failed)]

LEMMA WaveIs ==
  ASSUME ConstantsOK, NEW r, r[1] \in Int, r[2] \in Int, r[1] <= r[2], Has(stored, r[1], r[1] - 1),
         NEW failed, NEW starts, starts = wave_page_starts(r),
         NEW wave, wave = WaveOf(starts, r, failed)
  PROVE  wave \in Seq(Page) /\ WaveKept(wave, r)
<1>1. PICK a, b, w : a = r[1] /\ b = r[2] /\ w = PageLimit
  OBVIOUS
<1>2. a \in Int /\ b \in Int /\ a <= b /\ w \in Nat \ {0}
  BY <1>1, ConstantsAre
<1>3. PICK q : q = (b - a) \div w
  OBVIOUS
<1>4. /\ q \in Int /\ q * w <= b - a /\ 0 <= q
      /\ b - a < (q + 1) * w
  <2>1. PICK d : d = b - a
    OBVIOUS
  <2>2. d \in Int /\ 0 <= d /\ q = d \div w
    BY <1>2, <1>3, <2>1
  <2>3. q \in Int /\ q * w <= d /\ (0 * w <= d => 0 <= q)
    BY <1>2, <2>2, DivBounds
  <2>4. (q + 1) * w <= d => q + 1 <= q
    <3>1. PICK c : c = q + 1
      OBVIOUS
    <3>2. c \in Int
      BY <2>3, <3>1
    <3>3. c * w <= d => c <= q
      BY <1>2, <2>2, <3>2, DivBounds
    <3> QED  BY <3>1, <3>3
  <2>5. (q + 1) * w \in Int
    BY <1>2, <2>3
  <2> QED  BY <1>2, <2>1, <2>2, <2>3, <2>4, <2>5
<1>5. starts = [i \in 1 .. q + 1 |-> a + (i - 1) * w]
  BY <1>1, <1>3 DEF wave_page_starts
<1>6. wave = [i \in 1 .. q + 1 |-> fetch_page(a + (i - 1) * w, b, i \in failed)]
  BY <1>1, <1>5 DEF WaveOf
<1>7. \A i \in 1 .. q + 1 : /\ wave[i].start = a + (i - 1) * w /\ wave[i].failed = (i \in failed)
                            /\ wave[i].rows = klines_page(wave[i].start, b)
  BY <1>6 DEF fetch_page
<1>8. DOMAIN wave = 1 .. q + 1 /\ Len(wave) = q + 1
  BY <1>4, <1>6
<1>9. ASSUME NEW i \in 1 .. q + 1 PROVE (i - 1) * w \in Int /\ (i - 1) * w <= q * w
  <2>1. PICK j : j = q - (i - 1)
    OBVIOUS
  <2>2. j \in Nat /\ i \in Int
    BY <1>4, <2>1
  <2>3. j * w \in Nat
    BY <1>2, <2>2
  <2>4. j * w = q * w - (i - 1) * w
    BY <1>2, <1>4, <2>1, <2>2
  <2>5. (i - 1) * w \in Int /\ q * w \in Int
    BY <1>2, <1>4, <2>2
  <2> QED  BY <2>3, <2>4, <2>5
<1>10. ASSUME NEW i \in 1 .. q + 1 PROVE wave[i].start \in Int /\ wave[i].start <= b
  BY <1>2, <1>4, <1>7, <1>9
<1>11. ASSUME NEW i \in 1 .. q + 1, i + 1 \in 1 .. q + 1 PROVE wave[i + 1].start = wave[i].start + w
  <2>1. i \in Int /\ w \in Int
    BY <1>2, <1>4
  <2>2. ((i + 1) - 1) * w = (i - 1) * w + w
    BY <2>1
  <2>3. wave[i + 1].start = a + ((i + 1) - 1) * w /\ wave[i].start = a + (i - 1) * w
    BY <1>7, <1>11
  <2> QED  BY <1>2, <1>9, <2>2, <2>3
<1>12. wave[q + 1].start + w > b /\ wave[1].start = a
  <2>1. 1 \in 1 .. q + 1 /\ q + 1 \in 1 .. q + 1
    BY <1>4
  <2>2. wave[1].start = a + (1 - 1) * w /\ wave[q + 1].start = a + ((q + 1) - 1) * w
    BY <1>7, <2>1
  <2>3. (1 - 1) * w = 0 /\ ((q + 1) - 1) * w = q * w /\ (q + 1) * w = q * w + w /\ q * w \in Int
    BY <1>2, <1>4
  <2> QED  BY <1>2, <1>4, <2>2, <2>3
<1>13. wave \in Seq(Page)
  <2>1. ASSUME NEW i \in 1 .. q + 1 PROVE wave[i] \in Page
    <3>1. PICK x : x = a + (i - 1) * w
      OBVIOUS
    <3>2. x \in Int
      BY <1>2, <1>9, <3>1
    <3>3. PICK rows : rows = klines_page(x, b)
      OBVIOUS
    <3>4. rows \subseteq x .. b
      BY <1>2, <3>2, <3>3, PageIs
    <3>5. rows \in SUBSET Int
      BY <3>4
    <3>6. PICK f \in BOOLEAN : f = (i \in failed)
      <4>1. CASE i \in failed
        <5>1. TRUE = (i \in failed) /\ TRUE \in BOOLEAN
          BY <4>1
        <5> QED  BY <5>1
      <4>2. CASE i \notin failed
        <5>1. FALSE = (i \in failed) /\ FALSE \in BOOLEAN
          BY <4>2
        <5> QED  BY <5>1
      <4> QED  BY <4>1, <4>2
    <3>7. wave[i] = [start |-> x, rows |-> rows, failed |-> f]
      BY <1>6, <3>1, <3>3, <3>6 DEF fetch_page
    <3> QED  BY <3>2, <3>5, <3>7 DEF Page
  <2> QED  BY <1>4, <1>6, <2>1
<1>14. Has(stored, r[1], wave[1].start - 1) /\ r[1] <= wave[1].start
  BY <1>1, <1>2, <1>12
<1>15. wave # <<>>
  BY <1>4, <1>8
<1> QED  BY <1>1, <1>7, <1>8, <1>10, <1>11, <1>12, <1>13, <1>14, <1>15 DEF WaveKept

LEMMA fetch_wave_keeps ==
  ASSUME ConstantsOK, Inv, NEW p \in Syncs, fetch_wave(p)
  PROVE  Inv'
<1>a. PICK s : s = sync[p]
  OBVIOUS
<1>b. PICK r : r = TargetOf(s.gaps)
  OBVIOUS
<1>c. PICK starts : starts = wave_page_starts(r)
  OBVIOUS
<1>t. r = Target(p)
  BY <1>a, <1>b DEF Target, TargetOf
<1>1. PICK failed \in {{}} \cup {{i} : i \in DOMAIN starts} :
        /\ fails + Cardinality(failed) <= MaxFailures
        /\ fails' = fails + Cardinality(failed)
        /\ sync' = [sync EXCEPT
             ![p].pc = "persisting",
             ![p].wave = [i \in DOMAIN starts |-> fetch_page(starts[i], r[2], i \in failed)]]
  BY <1>c, <1>t DEF fetch_wave
<1>d. PICK wave : wave = WaveOf(starts, r, failed)
  OBVIOUS
<1>e. PICK k : k = [s EXCEPT !.pc = "persisting", !.wave = wave]
  OBVIOUS
<1>2. sync \in [Syncs -> Sync] /\ SyncKept(s) /\ (p = Job => JobKept(s)) /\ s \in Sync
      /\ now \in Int
  BY <1>a, ConstantsAre DEF Inv, SyncsKept, SyncKept, Tables
<1>3. sync' = [sync EXCEPT ![p] = k]
  BY <1>1, <1>2, <1>a, <1>d, <1>e DEF WaveOf
<1>4. /\ s.pc = "fetching"
      /\ UNCHANGED <<now, stored, unavailable, window, socket, due, covered, restarts>>
  BY <1>a DEF fetch_wave
<1>5. fails' \in 0 .. MaxFailures
  <2>1. Cardinality(failed) \in Nat
    <3>1. failed = {} \/ \E i \in DOMAIN starts : failed = {i}
      OBVIOUS
    <3>2. \A i : Cardinality({i}) = 1
      BY FS_Singleton
    <3>3. Cardinality({}) = 0
      BY FS_EmptySet
    <3>4. CASE failed = {}
      BY <3>3, <3>4
    <3>5. CASE \E i \in DOMAIN starts : failed = {i}
      BY <3>2, <3>5
    <3> QED  BY <3>1, <3>4, <3>5
  <2>2. fails \in Nat /\ MaxFailures \in Nat
    BY ConstantsAre DEF Inv, Tables
  <2> QED  BY <1>1, <2>1, <2>2
<1>6. Tables' /\ WindowKept' /\ Grows
  BY <1>4, <1>5, TablesRest DEF Inv
<1>7. s.first \in Int /\ s.last \in Int /\ s.gaps \subseteq s.first .. s.last /\ s.gaps # {}
  BY <1>2, <1>4 DEF SyncKept, Active, Sync
<1>8. r[1] \in Int /\ r[2] \in Int /\ r[1] <= r[2]
  <2>1. PICK a, b, gaps : a = s.first /\ b = s.last /\ gaps = s.gaps
    OBVIOUS
  <2>2. a \in Int /\ b \in Int /\ gaps \subseteq a .. b /\ gaps # {} /\ r = TargetOf(gaps)
    BY <1>7, <1>b, <2>1
  <2> QED  BY <2>2, TargetIs
<1>9. Has(stored, r[1], r[1] - 1)
  <2>1. PICK a : a = r[1]
    OBVIOUS
  <2>2. \A t \in Listed : ~ (a <= t /\ t <= a - 1)
    BY <1>8, <2>1, ConstantsAre
  <2> QED  BY <2>1, <2>2 DEF Has
<1>10. wave \in Seq(Page) /\ WaveKept(wave, r)
  BY <1>8, <1>9, <1>c, <1>d, WaveIs
<1>11. /\ k \in Sync /\ k.pc = "persisting" /\ k.gaps = s.gaps /\ k.first = s.first /\ k.last = s.last
       /\ k.marked = s.marked /\ k.rows = s.rows /\ k.wave = wave
  BY <1>2, <1>10, <1>e DEF Sync, Pcs
<1>12. SyncKept(k) /\ (p = Job => JobKept(k))
  BY <1>2, <1>4, <1>10, <1>11, <1>b DEF SyncKept, JobKept, Active
<1>13. SyncKept(k)' /\ (p = Job => JobKept(k)')
  BY <1>4, <1>6, <1>11, <1>12, SyncStays, JobStays
<1>14. SyncsKept'
  BY <1>3, <1>4, <1>6, <1>13, SyncSet DEF Inv
<1> QED  BY <1>6, <1>14 DEF Inv

\* What the first page of a wave says.
LEMMA FirstPage ==
  ASSUME ConstantsOK, now \in Slots, NEW s, SyncKept(s), s.pc = "persisting",
         NEW r, r = TargetOf(s.gaps), NEW page, page = s.wave[1]
  PROVE  /\ s \in Sync /\ s.first \in Nat /\ s.last \in Int /\ s.last <= now - 1
         /\ s.wave \in Seq(Page) /\ WaveKept(s.wave, r) /\ s.wave # <<>>
         /\ r[1] \in Nat /\ r[2] \in Int /\ r[1] <= r[2] /\ r[2] < now /\ page.start \in Int
         /\ page.rows \subseteq Slots /\ \A t \in page.rows : t < now
         /\ page.start .. r[2] \subseteq Slots /\ r[1] <= page.start
         /\ Has(stored, r[1], page.start - 1)
         /\ Cardinality(page.rows) < PageLimit \/ Tail(s.wave) = <<>> => Has(page.rows, page.start, r[2])
         /\ page.rows = {} => Has({}, page.start, r[2])
<1>1. /\ s \in Sync /\ s.first \in Nat /\ s.last \in Int /\ s.last <= now - 1 /\ now \in Nat
      /\ s.gaps \subseteq s.first .. s.last /\ s.gaps # {} /\ WaveKept(s.wave, r)
      /\ s.wave \in Seq(Page)
  BY ConstantsAre DEF SyncKept, Active, Sync
<1>2. PICK a, b, gaps : a = s.first /\ b = s.last /\ gaps = s.gaps
  OBVIOUS
<1>3. a \in Int /\ b \in Int /\ gaps \subseteq a .. b /\ gaps # {} /\ r = TargetOf(gaps)
  BY <1>1, <1>2
<1>4. r[1] \in Int /\ r[2] \in Int /\ a <= r[1] /\ r[1] <= r[2] /\ r[2] <= b
  BY <1>3, TargetIs
<1>5. r[1] \in Nat /\ r[2] < now
  BY <1>1, <1>2, <1>4
<1>6. s.wave # <<>> /\ 1 \in DOMAIN s.wave /\ page \in Page
  <2>1. s.wave # <<>>
    BY <1>1 DEF WaveKept
  <2>2. 1 \in DOMAIN s.wave
    BY <1>1, <2>1
  <2> QED  BY <1>1, <2>1, <2>2
<1>7. /\ page.start \in Int /\ r[1] <= page.start /\ page.start <= r[2]
      /\ page.rows = klines_page(page.start, r[2]) /\ Has(stored, r[1], page.start - 1)
  BY <1>1, <1>6 DEF WaveKept, Page
<1>8. PICK c, d, rows : c = page.start /\ d = r[2] /\ rows = page.rows
  OBVIOUS
<1>9. c \in Int /\ d \in Int /\ rows = klines_page(c, d) /\ c <= d /\ 0 <= c /\ d < now
  BY <1>4, <1>5, <1>7, <1>8
<1>10. /\ rows \subseteq Listed /\ rows \subseteq c .. d
       /\ \A t \in Listed : c <= t /\ t <= d /\ t < c + PageLimit => t \in rows
       /\ Cardinality(rows) < PageLimit => Has(rows, c, d)
       /\ rows = {} => Has({}, c, d)
  BY <1>9, PageIs
<1>11. c .. d \subseteq Slots
  <2>1. c .. d \subseteq 0 .. now
    BY <1>1, <1>9
  <2> QED  BY <2>1, ConstantsAre
<1>12. \A t \in rows : t < now
  BY <1>1, <1>9, <1>10
<1>13. ASSUME Tail(s.wave) = <<>> PROVE Has(rows, c, d)
  <2>1. Len(s.wave) = 1
    <3>1. PICK wave \in Seq(Page) : wave = s.wave
      BY <1>1
    <3>2. wave # <<>> /\ Tail(wave) = <<>>
      BY <1>6, <1>13, <3>1
    <3>3. Len(Tail(wave)) = Len(wave) - 1
      BY <3>1, <3>2, HeadTailProperties
    <3>4. Len(wave) = 1
      <4>1. PICK n, m : n = Len(wave) /\ m = Len(Tail(wave))
        OBVIOUS
      <4>2. n \in Nat /\ m = n - 1
        BY <3>1, <3>3, <4>1
      <4>3. m = 0
        <5>1. PICK tail : tail = Tail(wave)
          OBVIOUS
        <5>2. tail = <<>> /\ m = Len(tail)
          BY <3>2, <4>1, <5>1
        <5>3. Len(<<>>) = 0
          OBVIOUS
        <5> QED  BY <5>2, <5>3
      <4>4. n = 1
        BY <4>2, <4>3
      <4> QED  BY <4>1, <4>4
    <3> QED  BY <3>1, <3>4
  <2>2. c + PageLimit > d
    BY <1>1, <1>8, <2>1 DEF WaveKept
  <2>3. \A t \in Listed : t \in Int
    BY ConstantsAre
  <2> QED  BY <1>9, <1>10, <2>2, <2>3, ConstantsAre DEF Has
<1> QED  BY <1>1, <1>4, <1>5, <1>6, <1>7, <1>8, <1>10, <1>11, <1>12, <1>13, ConstantsAre

\* The pages that follow one that is stored.
LEMMA WaveRest ==
  ASSUME ConstantsOK, NEW wave \in Seq(Page), NEW r, r[1] \in Int, r[2] \in Int, WaveKept(wave, r),
         NEW rest, rest = Tail(wave), rest # <<>>, stored' = stored \cup wave[1].rows
  PROVE  rest \in Seq(Page) /\ WaveKept(rest, r)'
<1>1. wave # <<>> /\ Len(wave) \in Nat /\ Len(wave) >= 2
  BY DEF WaveKept
<1>2. /\ rest \in Seq(Page) /\ Len(rest) = Len(wave) - 1 /\ DOMAIN rest = 1 .. Len(wave) - 1
      /\ DOMAIN wave = 1 .. Len(wave)
      /\ \A i \in 1 .. Len(wave) - 1 : rest[i] = wave[i + 1]
  BY <1>1
<1>3. PICK n \in Nat : n = Len(wave)
  BY <1>1
<1>4. PICK c, d, rows, e : c = wave[1].start /\ d = r[2] /\ rows = wave[1].rows /\ e = wave[2].start
  OBVIOUS
<1>5. 1 \in DOMAIN wave /\ 2 \in DOMAIN wave /\ 1 + 1 = 2
  BY <1>1, <1>2
<1>6. c \in Int /\ d \in Int /\ e \in Int /\ rows = klines_page(c, d) /\ e = c + PageLimit /\ r[1] <= c
      /\ e <= d
  <2>1. wave[1] \in Page /\ wave[2] \in Page
    BY <1>5
  <2>2. wave[1].rows = klines_page(wave[1].start, r[2]) /\ wave[1 + 1].start = wave[1].start + PageLimit
        /\ r[1] <= wave[1].start /\ wave[2].start <= r[2]
    BY <1>5 DEF WaveKept
  <2> QED  BY <1>4, <1>5, <2>1, <2>2 DEF Page
<1>7. \A t \in Listed : c <= t /\ t <= d /\ t < c + PageLimit => t \in rows
  BY <1>6, PageIs
<1>8. ASSUME NEW t \in Listed, r[1] <= t, t <= e - 1 PROVE t \in stored'
  <2>1. t \in Int /\ PageLimit \in Int
    BY ConstantsAre
  <2>2. CASE t < c
    <3>1. t <= wave[1].start - 1
      BY <1>4, <1>6, <2>1, <2>2
    <3>2. t \in stored
      BY <1>8, <3>1 DEF WaveKept, Has
    <3> QED  BY <3>2
  <2>3. CASE ~ (t < c)
    <3>1. t \in rows
      BY <1>6, <1>7, <1>8, <2>1, <2>3
    <3> QED  BY <1>4, <3>1
  <2> QED  BY <2>2, <2>3
<1>9. rest[1].start = e /\ 1 \in 1 .. Len(wave) - 1
  BY <1>1, <1>2, <1>4, <1>5
<1>10. Has(stored', r[1], rest[1].start - 1)
  BY <1>8, <1>9 DEF Has
<1>11. r[1] <= rest[1].start
  <2>1. PICK a, m : a = r[1] /\ m = PageLimit
    OBVIOUS
  <2>2. a \in Int /\ m \in Int /\ m > 0 /\ a <= c /\ e = c + m /\ c \in Int
    BY <1>6, <2>1, ConstantsAre
  <2>3. a <= e
    BY <2>2
  <2> QED  BY <1>9, <2>1, <2>3
<1>12. ASSUME NEW i \in DOMAIN rest
       PROVE  /\ rest[i].start <= r[2] /\ rest[i].rows = klines_page(rest[i].start, r[2])
              /\ i + 1 \in DOMAIN rest => rest[i + 1].start = rest[i].start + PageLimit
  <2>1. i \in Int /\ i + 1 \in DOMAIN wave /\ rest[i] = wave[i + 1]
    BY <1>1, <1>2
  <2>2. wave[i + 1].start <= r[2] /\ wave[i + 1].rows = klines_page(wave[i + 1].start, r[2])
    BY <2>1 DEF WaveKept
  <2>3. ASSUME i + 1 \in DOMAIN rest PROVE rest[i + 1].start = rest[i].start + PageLimit
    <3>1. PICK j : j = i + 1
      OBVIOUS
    <3>2. j \in DOMAIN wave /\ j + 1 \in DOMAIN wave /\ rest[j] = wave[j + 1]
      BY <1>1, <1>2, <2>1, <2>3, <3>1
    <3>3. wave[j + 1].start = wave[j].start + PageLimit
      BY <3>2 DEF WaveKept
    <3> QED  BY <2>1, <3>1, <3>2, <3>3
  <2> QED  BY <2>1, <2>2, <2>3
<1>13. rest[Len(rest)].start + PageLimit > r[2]
  <2>1. PICK m : m = Len(rest)
    OBVIOUS
  <2>2. m \in 1 .. Len(wave) - 1 /\ m + 1 = Len(wave)
    BY <1>1, <1>2, <2>1
  <2>3. rest[m] = wave[Len(wave)]
    BY <1>2, <2>2
  <2>4. wave[Len(wave)].start + PageLimit > r[2]
    BY DEF WaveKept
  <2> QED  BY <2>1, <2>3, <2>4
<1> QED  BY <1>2, <1>10, <1>11, <1>12, <1>13 DEF WaveKept, Has

\* The synchronisation after its range r.
DoneAs(p, s, r, m) ==
  IF s.gaps \ (r[1] .. r[2]) = {} THEN SyncedAs(p, s.last, m, TRUE)
  ELSE [s EXCEPT !.pc = "fetching", !.gaps = s.gaps \ (r[1] .. r[2]), !.wave = <<>>, !.marked = m]

LEMMA RangeDoneKept ==
  ASSUME ConstantsOK, Grows, UNCHANGED <<now, covered>>, NEW p, NEW s, SyncKept(s),
         s.pc = "persisting", p = Job => JobKept(s),
         NEW r, r[1] \in Int, r[2] \in Int, Has(stored', r[1], r[2]),
         NEW m, m \subseteq Slots, Listed \cap m = {}, NEW k, k = DoneAs(p, s, r, m)
  PROVE  SyncKept(k)' /\ (p = Job => JobKept(k)')
<1>1. /\ s \in Sync /\ Active(s) /\ s.first \in Nat /\ s.last \in Int /\ s.first <= s.last
      /\ s.last <= now - 1 /\ now \in Int /\ s.gaps \subseteq s.first .. s.last
      /\ \A t \in Listed : s.first <= t /\ t <= s.last /\ t \notin s.gaps => t \in stored
  BY DEF SyncKept, Active, Sync, Grows
<1>2. PICK rest : rest = s.gaps \ (r[1] .. r[2])
  OBVIOUS
<1>3. ASSUME NEW t \in Listed, s.first <= t, t <= s.last, t \notin rest PROVE t \in stored'
  <2>1. t \in Int
    BY ConstantsAre
  <2>2. CASE t \in s.gaps
    <3>1. t \in r[1] .. r[2]
      BY <1>2, <1>3, <2>2
    <3>2. r[1] <= t /\ t <= r[2]
      BY <2>1, <3>1
    <3> QED  BY <3>2 DEF Has
  <2>3. CASE t \notin s.gaps
    BY <1>1, <1>3, <2>3 DEF Grows
  <2> QED  BY <2>2, <2>3
<1>4. CASE rest = {}
  <2>1. PICK S : S = stored'
    OBVIOUS
  <2>2. \A t \in Listed : s.first <= t /\ t <= s.last => t \in S
    BY <1>3, <1>4, <2>1
  <2>3. p = Job => s.last \in Nat /\ Has(S, now - Limit + 1, s.last)
    BY <1>1, <2>2, RangeReaches
  <2>4. p = Job => s.last \in Nat /\ s.last <= now' - 1 /\ Has(stored, now - Limit + 1, s.last)'
    BY <1>1, <2>1, <2>3 DEF Has
  <2>5. PICK w \in BOOLEAN : w = TRUE
    OBVIOUS
  <2>6. k = SyncedAs(p, s.last, m, w)
    BY <1>2, <1>4, <2>5 DEF DoneAs
  <2>7. p = Job /\ w => s.last \in Nat /\ s.last <= now' - 1 /\ Has(stored, now - Limit + 1, s.last)'
    BY <2>4
  <2> QED  BY <1>1, <2>6, <2>7, SyncedKept
<1>5. CASE rest # {}
  <2>1. k = [s EXCEPT !.pc = "fetching", !.gaps = rest, !.wave = <<>>, !.marked = m]
    BY <1>2, <1>5 DEF DoneAs
  <2>2. /\ m \in SUBSET Int /\ rest \in SUBSET Int /\ <<>> \in Seq(Page) /\ "fetching" \in Pcs
        /\ rest \subseteq s.first .. s.last
    BY <1>1, <1>2, ConstantsAre DEF Pcs
  <2>3. /\ k \in Sync /\ k.pc = "fetching" /\ k.gaps = rest /\ k.first = s.first /\ k.last = s.last
        /\ k.marked = m /\ k.rows = s.rows
    BY <1>1, <2>1, <2>2 DEF Sync
  <2>4. s.rows \subseteq stored'
    BY DEF SyncKept, Grows
  <2>5. SyncKept(k)'
    BY <1>1, <1>3, <1>5, <2>2, <2>3, <2>4 DEF SyncKept, Active
  <2>6. p = Job => JobKept(k)'
    BY <1>1, <2>3 DEF JobKept, Active
  <2> QED  BY <2>5, <2>6
<1> QED  BY <1>4, <1>5

LEMMA persist_wave_keeps ==
  ASSUME ConstantsOK, Inv, NEW p \in Syncs, persist_wave(p)
  PROVE  Inv'
<1>a. PICK s : s = sync[p]
  OBVIOUS
<1>b. PICK r : r = TargetOf(s.gaps)
  OBVIOUS
<1>c. PICK page : page = s.wave[1]
  OBVIOUS
<1>t. r = Target(p)
  BY <1>a, <1>b DEF Target, TargetOf
<1>1. s.pc = "persisting" /\ UNCHANGED <<now, window, socket, due, covered, fails, restarts>>
  BY <1>a DEF persist_wave
<1>2. /\ SyncKept(s) /\ (p = Job => JobKept(s)) /\ s \in Sync /\ now \in Slots /\ now \in Int
      /\ fails \in 0 .. MaxFailures
  BY <1>a, ConstantsAre DEF Inv, SyncsKept, SyncKept, Tables
<1>3. /\ s.first \in Nat /\ s.last \in Int /\ s.last <= now - 1
      /\ s.wave \in Seq(Page) /\ WaveKept(s.wave, r) /\ s.wave # <<>>
      /\ r[1] \in Nat /\ r[2] \in Int /\ r[1] <= r[2] /\ r[2] < now /\ page.start \in Int
      /\ page.rows \subseteq Slots /\ (\A t \in page.rows : t < now)
      /\ page.start .. r[2] \subseteq Slots /\ r[1] <= page.start
      /\ Has(stored, r[1], page.start - 1)
      /\ (Cardinality(page.rows) < PageLimit \/ Tail(s.wave) = <<>> => Has(page.rows, page.start, r[2]))
      /\ (page.rows = {} => Has({}, page.start, r[2]))
  BY <1>1, <1>2, <1>b, <1>c, FirstPage
<1>4. ASSUME NEW S, stored \subseteq S, Has(S, page.start, r[2]) PROVE Has(S, r[1], r[2])
  <2>1. \A t \in Listed : t \in Int
    BY ConstantsAre
  <2>2. \A t \in Listed : t < page.start \/ page.start <= t
    BY <1>3, <2>1
  <2>3. \A t \in Listed : t < page.start => t <= page.start - 1
    BY <1>3, <2>1
  <2> QED  BY <1>3, <1>4, <2>2, <2>3 DEF Has
<1>5. CASE page.failed /\ sync' = [sync EXCEPT ![p] = Synced(p, {}, FALSE)]
           /\ UNCHANGED <<stored, unavailable>>
  <2>1. PICK k : k = SyncedAs(p, s.last, {}, FALSE)
    OBVIOUS
  <2>2. sync' = [sync EXCEPT ![p] = k]
    BY <1>5, <1>a, <2>1 DEF Synced, SyncedAs
  <2>3. Tables' /\ WindowKept' /\ Grows
    BY <1>1, <1>2, <1>5, TablesRest DEF Inv
  <2>4. SyncKept(k)' /\ (p = Job => JobKept(k)')
    BY <1>3, <2>1, SyncedEarly
  <2>5. SyncsKept'
    BY <1>1, <2>2, <2>3, <2>4, SyncSet DEF Inv
  <2> QED  BY <2>3, <2>5 DEF Inv
<1>6. CASE /\ page.rows = {} /\ UNCHANGED <<stored, unavailable>>
           /\ sync' = [sync EXCEPT ![p] = RangeDone(p, s.marked \cup (page.start .. r[2]))]
  <2>1. PICK m : m = s.marked \cup (page.start .. r[2])
    OBVIOUS
  <2>2. PICK k : k = DoneAs(p, s, r, m)
    OBVIOUS
  <2>3. sync' = [sync EXCEPT ![p] = k]
    BY <1>6, <1>a, <1>t, <2>1, <2>2 DEF Synced, SyncedAs, RangeDone, DoneAs
  <2>4. Tables' /\ WindowKept' /\ Grows
    BY <1>1, <1>2, <1>6, TablesRest DEF Inv
  <2>5. m \subseteq Slots
    BY <1>2, <1>3, <2>1 DEF SyncKept
  <2>6. Listed \cap m = {}
    <3>1. \A t \in Listed : ~ (page.start <= t /\ t <= r[2])
      BY <1>3, <1>6 DEF Has
    <3>2. \A t \in page.start .. r[2] : page.start <= t /\ t <= r[2]
      BY <1>3
    <3>3. Listed \cap s.marked = {}
      BY <1>2 DEF SyncKept
    <3> QED  BY <2>1, <3>1, <3>2, <3>3
  <2>7. Has(stored', r[1], r[2])
    <3>1. Has(stored, page.start, r[2])
      BY <1>3, <1>6 DEF Has
    <3>2. PICK S : S = stored
      OBVIOUS
    <3>3. Has(S, r[1], r[2])
      BY <1>4, <3>1, <3>2
    <3> QED  BY <1>6, <3>2, <3>3
  <2>8. SyncKept(k)' /\ (p = Job => JobKept(k)')
    <3>1. r[1] \in Int /\ UNCHANGED <<now, covered>>
      BY <1>1, <1>3
    <3> QED  BY <1>1, <1>2, <1>3, <2>2, <2>4, <2>5, <2>6, <2>7, <3>1, RangeDoneKept
  <2>9. SyncsKept'
    BY <1>1, <2>3, <2>4, <2>8, SyncSet DEF Inv
  <2> QED  BY <2>4, <2>9 DEF Inv
<1>7. CASE /\ page.rows # {} /\ stored' = stored \cup page.rows
           /\ unavailable' = unavailable \cup s.marked
           /\ sync' = [sync EXCEPT ![p] =
                IF Cardinality(page.rows) < PageLimit \/ Tail(s.wave) = <<>> THEN RangeDone(p, {})
                ELSE [s EXCEPT !.wave = Tail(s.wave), !.marked = {}]]
  <2>1. Tables' /\ WindowKept' /\ Grows
    <3>1. stored \subseteq stored' /\ stored' \subseteq Slots /\ \A t \in stored' : t < now
      BY <1>3, <1>7 DEF Inv, Tables
    <3>2. unavailable' \subseteq Slots /\ Listed \cap unavailable' = {}
      BY <1>2, <1>7 DEF Inv, Tables, SyncKept
    <3>3. fails' \in 0 .. MaxFailures
      BY <1>1, <1>2
    <3> QED  BY <1>1, <3>1, <3>2, <3>3, TablesGrow DEF Inv
  <2>2. CASE Cardinality(page.rows) < PageLimit \/ Tail(s.wave) = <<>>
    <3>1. PICK m : m = {}
      OBVIOUS
    <3>2. PICK k : k = DoneAs(p, s, r, m)
      OBVIOUS
    <3>3. sync' = [sync EXCEPT ![p] = k]
      BY <1>7, <1>a, <1>t, <2>2, <3>1, <3>2 DEF Synced, SyncedAs, RangeDone, DoneAs
    <3>4. PICK S : S = stored'
      OBVIOUS
    <3>5. Has(S, page.start, r[2]) /\ stored \subseteq S
      BY <1>3, <1>7, <2>2, <3>4 DEF Has
    <3>6. Has(stored', r[1], r[2])
      BY <1>4, <3>4, <3>5
    <3>7. SyncKept(k)' /\ (p = Job => JobKept(k)')
      <4>1. r[1] \in Int /\ UNCHANGED <<now, covered>> /\ m \subseteq Slots /\ Listed \cap m = {}
        BY <1>1, <1>3, <3>1
      <4> QED  BY <1>1, <1>2, <1>3, <2>1, <3>2, <3>6, <4>1, RangeDoneKept
    <3>8. SyncsKept'
      BY <1>1, <2>1, <3>3, <3>7, SyncSet DEF Inv
    <3> QED  BY <2>1, <3>8 DEF Inv
  <2>3. CASE ~ (Cardinality(page.rows) < PageLimit \/ Tail(s.wave) = <<>>)
    <3>1. PICK rest : rest = Tail(s.wave)
      OBVIOUS
    <3>2. PICK k : k = [s EXCEPT !.wave = rest, !.marked = {}]
      OBVIOUS
    <3>3. sync' = [sync EXCEPT ![p] = k] /\ rest # <<>>
      BY <1>7, <2>3, <3>1, <3>2
    <3>4. rest \in Seq(Page) /\ WaveKept(rest, r)'
      <4>1. PICK wave : wave = s.wave
        OBVIOUS
      <4>2. /\ wave \in Seq(Page) /\ r[1] \in Int /\ r[2] \in Int /\ WaveKept(wave, r)
            /\ rest = Tail(wave) /\ stored' = stored \cup wave[1].rows
        BY <1>3, <1>7, <1>c, <3>1, <4>1
      <4> QED  BY <3>3, <4>2, WaveRest
    <3>5. /\ k \in Sync /\ k.pc = "persisting" /\ k.gaps = s.gaps /\ k.first = s.first /\ k.last = s.last
          /\ k.marked = {} /\ k.rows = s.rows /\ k.wave = rest
      BY <1>1, <1>2, <3>2, <3>4 DEF Sync
    <3>6. SyncKept(s)' /\ (p = Job => JobKept(s)')
      BY <1>1, <1>2, <2>1, SyncStays, JobStays
    <3>7. SyncKept(k)' /\ (p = Job => JobKept(k)')
      <4>1. {} \subseteq Slots /\ Listed \cap {} = {}
        OBVIOUS
      <4> QED  BY <1>1, <1>b, <3>4, <3>5, <3>6, <4>1 DEF SyncKept, JobKept, Active
    <3>8. SyncsKept'
      BY <1>1, <2>1, <3>3, <3>7, SyncSet DEF Inv
    <3> QED  BY <2>1, <3>8 DEF Inv
  <2> QED  BY <2>2, <2>3
<1> QED  BY <1>5, <1>6, <1>7, <1>a, <1>c, <1>t DEF persist_wave

LEMMA SyncFails_keeps ==
  ASSUME ConstantsOK, Inv, NEW p \in Syncs, SyncFails(p)
  PROVE  Inv'
<1>a. PICK l : l = sync[p].last
  OBVIOUS
<1>1. PICK k : k = SyncedAs(p, l, {}, FALSE)
  OBVIOUS
<1>2. /\ sync' = [sync EXCEPT ![p] = k]
      /\ UNCHANGED <<now, stored, unavailable, window, socket, due, covered, restarts>>
      /\ fails < MaxFailures /\ fails' = fails + 1
  BY <1>a, <1>1 DEF SyncFails, Synced, SyncedAs
<1>3. fails' \in 0 .. MaxFailures
  BY <1>2, ConstantsAre DEF Inv, Tables
<1>4. Tables' /\ WindowKept' /\ Grows
  BY <1>2, <1>3, TablesRest DEF Inv
<1>5. SyncKept(k)' /\ (p = Job => JobKept(k)')
  <2>1. l \in Int
    BY <1>a DEF Inv, SyncsKept, Sync
  <2> QED  BY <1>1, <2>1, SyncedEarly
<1>6. SyncsKept'
  BY <1>2, <1>4, <1>5, SyncSet DEF Inv
<1> QED  BY <1>4, <1>6 DEF Inv

-----------------------------------------------------------------------------
(* The window *)

\* A process that has nothing to do.
LEMMA IdleKept ==
  ASSUME NEW s, s = Idle
  PROVE  s \in Sync /\ SyncKept(s)' /\ JobKept(s)'
<1>1. /\ s = [pc |-> "idle", first |-> 0, last |-> 0, gaps |-> {}, wave |-> <<>>, marked |-> {},
              rows |-> {}, whole |-> FALSE]
      /\ <<>> \in Seq(Page) /\ "idle" \in Pcs
  BY DEF Idle, Pcs
<1>2. s \in Sync /\ s.pc = "idle" /\ s.gaps = {} /\ s.rows = {} /\ s.marked = {}
  BY <1>1 DEF Sync
<1> QED  BY <1>2 DEF SyncKept, JobKept, Active

LEMMA list_candles_keeps ==
  ASSUME ConstantsOK, Inv, list_candles
  PROVE  Inv'
<1>a. PICK s : s = sync[Job]
  OBVIOUS
<1>b. PICK L : L = Latest(Limit, stored)
  OBVIOUS
<1>c. PICK k : k = [s EXCEPT !.pc = "replacing", !.marked = {}, !.rows = L]
  OBVIOUS
<1>1. /\ s.pc = "listing" /\ sync' = [sync EXCEPT ![Job] = k]
      /\ UNCHANGED <<now, stored, unavailable, window, socket, due, covered, fails, restarts>>
  BY <1>a, <1>b, <1>c DEF list_candles
<1>2. Tables' /\ WindowKept' /\ Grows
  BY <1>1, TablesRest DEF Inv, Tables
<1>3. Job \in Syncs /\ SyncKept(s) /\ JobKept(s) /\ s \in Sync
  BY <1>a, ConstantsAre DEF Inv, SyncsKept, SyncKept
<1>4. PICK S : S = stored
  OBVIOUS
<1>5. S \subseteq Slots /\ (\A u \in S : u < now) /\ now \in Nat /\ Limit \in Nat /\ Slots \subseteq Nat
      /\ Listed \subseteq Nat
  BY <1>4, ConstantsAre DEF Inv, Tables
<1>6. /\ L \subseteq S /\ Cardinality(L) <= Limit
      /\ \A t \in S, b \in Int : (\A u \in S : u <= b) /\ b - Limit < t => t \in L
  BY <1>4, <1>5, <1>b, LatestIs
<1>7. Has(L, now - Limit + 1, covered)
  <2> SUFFICES ASSUME NEW t \in Listed, now - Limit + 1 <= t, t <= covered PROVE t \in L
    BY DEF Has
  <2>1. t \in S
    BY <1>4 DEF Inv, WindowKept, Has
  <2>2. now \in Int /\ \A u \in S : u <= now
    BY <1>5
  <2>3. now - Limit < t
    BY <1>5
  <2> QED  BY <1>6, <2>1, <2>2, <2>3
<1>8. s.whole /\ s.last <= now - 1 => Has(L, now - Limit + 1, s.last)
  <2> SUFFICES ASSUME s.whole, s.last <= now - 1, NEW t \in Listed, now - Limit + 1 <= t, t <= s.last
               PROVE t \in L
    BY DEF Has
  <2>1. t \in S
    BY <1>1, <1>3, <1>4 DEF JobKept, Has
  <2>2. now \in Int /\ \A u \in S : u <= now
    BY <1>5
  <2>3. now - Limit < t
    BY <1>5
  <2> QED  BY <1>6, <2>1, <2>2, <2>3
<1>9. L \in SUBSET Int /\ "replacing" \in Pcs
  BY <1>5, <1>6 DEF Pcs
<1>10. /\ k \in Sync /\ k.pc = "replacing" /\ k.marked = {} /\ k.rows = L /\ k.last = s.last
       /\ k.first = s.first /\ k.gaps = s.gaps /\ k.whole = s.whole
  BY <1>3, <1>9, <1>c DEF Sync
<1>11. SyncKept(k) /\ JobKept(k)
  <2>1. {} \subseteq Slots /\ Listed \cap {} = {}
    OBVIOUS
  <2>2. SyncKept(k)
    BY <1>3, <1>4, <1>6, <1>10, <2>1 DEF SyncKept, Active
  <2>3. JobKept(k)
    BY <1>1, <1>3, <1>6, <1>7, <1>8, <1>10 DEF JobKept, Active
  <2> QED  BY <2>2, <2>3
<1>12. SyncKept(k)' /\ JobKept(k)'
  BY <1>1, <1>2, <1>10, <1>11, SyncStays, JobStays
<1>13. SyncsKept'
  BY <1>1, <1>2, <1>3, <1>12, SyncSet DEF Inv
<1> QED  BY <1>2, <1>13 DEF Inv

LEMMA replace_keeps ==
  ASSUME ConstantsOK, Inv, replace_live_candles
  PROVE  Inv'
<1>a. PICK s : s = sync[Job]
  OBVIOUS
<1>b. PICK k : k = Idle
  OBVIOUS
<1>1. /\ s.pc = "replacing" /\ sync' = [sync EXCEPT ![Job] = k]
      /\ window' = [closed |-> s.rows, open |-> {}]
      /\ covered' = IF s.whole THEN Larger(covered, s.last) ELSE covered
      /\ socket' \in {"down", "up"}
      /\ UNCHANGED <<now, stored, unavailable, due, fails, restarts>>
  BY <1>a, <1>b DEF replace_live_candles, Listening, Inv, WindowKept
<1>2. Job \in Syncs /\ SyncKept(s) /\ JobKept(s) /\ s \in Sync /\ now \in Nat /\ Limit \in Nat
  BY <1>a, ConstantsAre DEF Inv, SyncsKept, SyncKept, Tables
<1>3. Grows /\ Tables'
  BY <1>1, <1>2 DEF Grows, Inv, Tables
<1>4. /\ covered' \in Slots \cup {-1} /\ covered' < now
      /\ (covered' = covered \/ (s.whole /\ covered' = s.last))
  <2>1. covered \in Slots \cup {-1} /\ covered < now /\ covered \in Int
    BY ConstantsAre DEF Inv, WindowKept
  <2>2. CASE s.whole
    <3>1. s.last \in Nat /\ s.last <= now - 1
      BY <1>1, <1>2, <2>2 DEF JobKept
    <3>2. s.last \in 0 .. now /\ now \in Slots
      BY <1>2, <3>1 DEF Inv, Tables
    <3>3. s.last \in Slots
      BY <3>2, ConstantsAre
    <3>4. PICK c, l, n : c = covered /\ l = s.last /\ n = now
      OBVIOUS
    <3>5. c \in Int /\ l \in Int /\ (c >= l \/ ~ (c >= l))
      BY <2>1, <3>1, <3>4
    <3>6. covered' = IF c >= l THEN c ELSE l
      BY <1>1, <2>2, <3>4 DEF Larger
    <3>7. covered' = c \/ covered' = l
      BY <3>5, <3>6
    <3>8. l < n /\ c < n
      BY <1>2, <2>1, <3>1, <3>4
    <3> QED  BY <2>1, <2>2, <3>3, <3>4, <3>7, <3>8
  <2>3. CASE ~ s.whole
    <3>1. covered' = covered
      BY <1>1, <2>3
    <3> QED  BY <2>1, <3>1
  <2> QED  BY <2>2, <2>3
<1>5. Has(stored, now - Limit + 1, covered)'
  BY <1>1, <1>2, <1>4 DEF JobKept, Inv, WindowKept, Has
<1>6. Has(s.rows, now - Limit + 1, covered)'
  BY <1>1, <1>2, <1>4 DEF JobKept, Has
<1>7. s.rows \subseteq stored /\ stored \subseteq Slots /\ (\A t \in stored : t <= now)
      /\ Cardinality(s.rows) <= Limit
  <2>1. \A t \in stored : t < now /\ t \in Nat
    BY ConstantsAre DEF Inv, Tables
  <2> QED  BY <1>1, <1>2, <2>1 DEF SyncKept, JobKept, Inv, Tables
<1>8. WindowKept'
  <2>1. window'.closed = s.rows /\ window'.open = {} /\ s.rows \cup {} = s.rows /\ s.rows \cap {} = {}
    BY <1>1
  <2>2. window' \in [closed : SUBSET Slots, open : SUBSET Slots]
    BY <1>1, <1>7
  <2>3. \A t \in window'.closed \cup window'.open : t <= now'
    BY <1>1, <1>7, <2>1
  <2>4. window'.closed \cap window'.open = {} /\ Cardinality(window'.closed \cup window'.open) <= Limit
    BY <1>7, <2>1
  <2>5. Has(window.closed \cup window.open, now - Limit + 1, covered)'
    BY <1>6, <2>1 DEF Has
  <2>6. covered' \in Slots \cup {-1} /\ covered' < now' /\ socket' \in {"off", "down", "up"} /\ socket' # "off"
    BY <1>1, <1>4
  <2> QED  BY <1>5, <2>2, <2>3, <2>4, <2>5, <2>6 DEF WindowKept
<1>9. SyncsKept'
  BY <1>1, <1>2, <1>3, <1>b, IdleKept, SyncSet DEF Inv
<1> QED  BY <1>3, <1>8, <1>9 DEF Inv

LEMMA JobRaises_keeps ==
  ASSUME ConstantsOK, Inv, JobRaises
  PROVE  Inv'
<1>1. PICK k : k = Idle
  OBVIOUS
<1>2. /\ sync' = [sync EXCEPT ![Job] = k] /\ fails < MaxFailures /\ fails' = fails + 1
      /\ socket' \in {"down", "up"}
      /\ UNCHANGED <<now, stored, unavailable, window, due, covered, restarts>>
  BY <1>1 DEF JobRaises, Listening, Inv, WindowKept
<1>3. Tables' /\ Grows
  BY <1>2, ConstantsAre DEF Grows, Inv, Tables
<1>4. WindowKept'
  BY <1>2 DEF Inv, WindowKept, Has
<1>5. SyncsKept'
  BY <1>1, <1>2, <1>3, IdleKept, SyncSet, ConstantsAre DEF Inv
<1> QED  BY <1>3, <1>4, <1>5 DEF Inv

\* A message merged into the window.
LEMMA MergedWindow ==
  ASSUME ConstantsOK, Inv, NEW n \in Slots, n <= now, NEW kind \in {"closed", "open"},
         window' = _merge_live_candle(kind, n),
         UNCHANGED <<now, stored, socket, covered>>
  PROVE  WindowKept'
<1>a. PICK c, o : /\ c = (IF kind = "closed" THEN window.closed \cup {n} ELSE window.closed \ {n})
                  /\ o = (IF kind = "open" THEN window.open \cup {n} ELSE window.open \ {n})
  OBVIOUS
<1>b. PICK S, L : S = c \cup o /\ L = Latest(Limit, S)
  OBVIOUS
<1>1. window' = [closed |-> c \cap L, open |-> o \cap L]
  BY <1>a, <1>b DEF _merge_live_candle
<1>2. /\ window.closed \subseteq Slots /\ window.open \subseteq Slots /\ window.closed \cap window.open = {}
      /\ \A t \in window.closed \cup window.open : t <= now
      /\ Has(window.closed \cup window.open, now - Limit + 1, covered) /\ covered < now /\ covered \in Int
      /\ now \in Nat /\ Limit \in Nat
  BY ConstantsAre DEF Inv, WindowKept, Tables
<1>3. c \subseteq Slots /\ o \subseteq Slots /\ c \cap o = {} /\ \A t \in c \cup o : t <= now
  BY <1>2, <1>a
<1>4. S \subseteq Slots /\ \A t \in S : t <= now
  BY <1>3, <1>b
<1>5. /\ L \subseteq S /\ Cardinality(L) <= Limit
      /\ \A t \in S, b \in Int : (\A u \in S : u <= b) /\ b - Limit < t => t \in L
  BY <1>4, <1>b, LatestIs
<1>6. (c \cap L) \cup (o \cap L) = L /\ (c \cap L) \cap (o \cap L) = {}
  BY <1>3, <1>5, <1>b
<1>7. Has(L, now - Limit + 1, covered)
  <2> SUFFICES ASSUME NEW t \in Listed, now - Limit + 1 <= t, t <= covered PROVE t \in L
    BY DEF Has
  <2>1. t \in window.closed \cup window.open
    BY <1>2 DEF Has
  <2>2. t \in S
    BY <1>a, <1>b, <2>1
  <2>3. now \in Int /\ now - Limit < t
    <3>1. t \in Int
      BY ConstantsAre
    <3> QED  BY <1>2, <3>1
  <2> QED  BY <1>4, <1>5, <2>2, <2>3
<1>8. window'.closed = c \cap L /\ window'.open = o \cap L
  BY <1>1
<1>9. window' \in [closed : SUBSET Slots, open : SUBSET Slots]
  <2>1. c \cap L \subseteq Slots /\ o \cap L \subseteq Slots
    BY <1>3
  <2> QED  BY <1>1, <2>1
<1>10. \A t \in window'.closed \cup window'.open : t <= now'
  BY <1>3, <1>8
<1>11. window'.closed \cap window'.open = {} /\ Cardinality(window'.closed \cup window'.open) <= Limit
  BY <1>5, <1>6, <1>8
<1>12. Has(window.closed \cup window.open, now - Limit + 1, covered)'
  BY <1>6, <1>7, <1>8 DEF Has
<1> QED  BY <1>9, <1>10, <1>11, <1>12 DEF WindowKept, Has, Inv

\* The oldest closing message on its way.
LEMMA OldestIsDue ==
  ASSUME ConstantsOK, Inv, due # {}
  PROVE  MinOf(due) \in due /\ MinOf(due) \in Slots /\ MinOf(due) < now
<1>1. due \subseteq Slots /\ \A t \in due : t < now
  BY DEF Inv, Tables
<1>2. MinOf(due) \in due
  <2>1. PICK S : S = due
    OBVIOUS
  <2>2. S \in SUBSET Nat /\ S # {}
    BY <1>1, <2>1, ConstantsAre
  <2>3. MinOf(S) \in S
    BY <2>2, MinOfProperty
  <2> QED  BY <2>1, <2>3
<1> QED  BY <1>1, <1>2

LEMMA Closes_keeps ==
  ASSUME ConstantsOK, Inv, NEW n \in Slots, Closes(n)
  PROVE  Inv'
<1>1. /\ socket = "up" /\ due # {} /\ n = MinOf(due) /\ due' = due \ {n}
      /\ window' = _merge_live_candle("closed", n)
      /\ UNCHANGED <<now, stored, unavailable, socket, sync, covered, fails, restarts>>
  BY DEF Closes
<1>2. n \in due /\ n < now /\ now \in Int
  BY <1>1, OldestIsDue, ConstantsAre DEF Inv, Tables
<1>3. Grows /\ Tables'
  <2>1. now \in Int /\ now <= now /\ now' = now /\ stored' = stored
    BY <1>1, <1>2
  <2>2. due' \subseteq due
    BY <1>1
  <2>3. Tables'
    BY <1>1, <2>2 DEF Inv, Tables
  <2> QED  BY <2>1, <2>3 DEF Grows
<1>4. WindowKept'
  <2>1. PICK kind : kind = "closed"
    OBVIOUS
  <2>2. kind \in {"closed", "open"} /\ n <= now
        /\ window' = _merge_live_candle(kind, n)
    BY <1>1, <1>2, <2>1, ConstantsAre
  <2> QED  BY <1>1, <2>2, MergedWindow
<1>5. SyncsKept'
  BY <1>1, <1>3, SyncsStay DEF Inv
<1> QED  BY <1>3, <1>4, <1>5 DEF Inv

LEMMA Updates_keeps ==
  ASSUME ConstantsOK, Inv, Updates
  PROVE  Inv'
<1>1. PICK n : n = IF due = {} THEN now ELSE MinOf(due)
  OBVIOUS
<1>2. /\ window' = _merge_live_candle("open", n)
      /\ UNCHANGED <<now, stored, unavailable, socket, due, sync, covered, fails, restarts>>
  BY <1>1 DEF Updates
<1>3. n \in Slots /\ n <= now /\ now \in Int
  <2>1. now \in Slots /\ now \in Int
    BY ConstantsAre DEF Inv, Tables
  <2>2. CASE due = {}
    BY <1>1, <2>1, <2>2
  <2>3. CASE due # {}
    <3>1. n \in Slots /\ n < now
      BY <1>1, <2>3, OldestIsDue
    <3>2. n \in Int
      BY <3>1, ConstantsAre
    <3> QED  BY <2>1, <3>1, <3>2
  <2> QED  BY <2>2, <2>3
<1>4. Grows /\ Tables'
  BY <1>2, <1>3 DEF Grows, Inv, Tables
<1>5. WindowKept'
  <2>1. PICK kind : kind = "open"
    OBVIOUS
  <2>2. kind \in {"closed", "open"} /\ window' = _merge_live_candle(kind, n)
    BY <1>2, <2>1
  <2> QED  BY <1>2, <1>3, <2>2, MergedWindow
<1>6. SyncsKept'
  BY <1>2, <1>4, SyncsStay DEF Inv
<1> QED  BY <1>4, <1>5, <1>6 DEF Inv

LEMMA Tick_keeps ==
  ASSUME ConstantsOK, Inv, Tick
  PROVE  Inv'
<1>1. /\ now + 1 \in Slots /\ now' = now + 1
      /\ due' = (IF socket = "up" THEN due \cup ({now} \cap Listed) ELSE due)
      /\ UNCHANGED <<stored, unavailable, window, socket, sync, covered, fails, restarts>>
  BY DEF Tick
<1>2. now \in Slots /\ now \in Nat /\ Slots \subseteq Nat /\ Limit \in Nat /\ Listed \subseteq Nat
  BY ConstantsAre DEF Inv, Tables
<1>3. PICK n, m \in Nat : n = now /\ m = now' /\ m = n + 1
  BY <1>1, <1>2
<1>4. Grows
  BY <1>1, <1>2, <1>3 DEF Grows
<1>5. Tables'
  <2>1. \A t \in stored : t < now /\ t \in Nat
    BY <1>2 DEF Inv, Tables
  <2>2. \A t \in stored' : t < now'
    BY <1>1, <1>3, <2>1
  <2>3. due' \subseteq due \cup {now}
    BY <1>1
  <2>4. \A t \in due \cup {now} : t \in Slots /\ t \in Nat /\ t < m
    BY <1>2, <1>3 DEF Inv, Tables
  <2>5. due' \subseteq Slots /\ \A t \in due' : t < now'
    BY <1>3, <2>3, <2>4
  <2> QED  BY <1>1, <2>2, <2>5 DEF Inv, Tables
<1>6. WindowKept'
  <2>1. \A S : Has(S, now - Limit + 1, covered) => Has(S, now' - Limit + 1, covered)
    <3> SUFFICES ASSUME NEW S, Has(S, now - Limit + 1, covered), NEW t \in Listed,
                        now' - Limit + 1 <= t, t <= covered
                 PROVE  t \in S
      BY DEF Has
    <3>1. m - Limit + 1 <= t /\ t \in Int /\ Limit \in Int
      BY <1>2, <1>3
    <3>2. n - Limit + 1 <= t
      BY <1>3, <3>1
    <3>3. now - Limit + 1 <= t
      BY <1>3, <3>2
    <3> QED  BY <3>3 DEF Has
  <2>2. \A t \in window.closed \cup window.open : t <= now /\ t \in Nat
    BY <1>2 DEF Inv, WindowKept
  <2>3. \A t \in window'.closed \cup window'.open : t <= now'
    BY <1>1, <1>3, <2>2
  <2>4. covered \in Int /\ covered < now
    BY <1>2 DEF Inv, WindowKept
  <2>5. covered' < now'
    BY <1>1, <1>3, <2>4
  <2>6. Has(stored, now - Limit + 1, covered)' /\ Has(window.closed \cup window.open, now - Limit + 1, covered)'
    BY <1>1, <2>1 DEF Inv, WindowKept, Has
  <2> QED  BY <1>1, <2>3, <2>5, <2>6 DEF Inv, WindowKept
<1>7. SyncsKept'
  BY <1>1, <1>4, SyncsStay DEF Inv
<1> QED  BY <1>5, <1>6, <1>7 DEF Inv

\* The process has just started.
Fresh == /\ window = [closed |-> {}, open |-> {}] /\ socket = "off" /\ covered = -1
         /\ sync = [p \in Syncs |-> Idle]

LEMMA FreshKept ==
  ASSUME ConstantsOK, Tables', Fresh'
  PROVE  Inv'
<1>1. now' \in Nat /\ Limit \in Nat /\ Listed \subseteq Nat
  BY ConstantsAre DEF Tables
<1>2. \A S, a : Has(S, a, -1)
  <2>1. \A t \in Listed : ~ (t <= -1)
    BY <1>1
  <2> QED  BY <2>1 DEF Has
<1>3. WindowKept'
  <2>1. window'.closed = {} /\ window'.open = {} /\ {} \cup {} = {}
    BY DEF Fresh
  <2>2. window' \in [closed : SUBSET Slots, open : SUBSET Slots]
    BY DEF Fresh
  <2>3. Cardinality(window'.closed \cup window'.open) <= Limit
    <3>1. Cardinality({}) = 0
      BY FS_EmptySet
    <3> QED  BY <1>1, <2>1, <3>1
  <2>4. covered' \in Slots \cup {-1} /\ covered' < now' /\ socket' = "off" /\ covered' = -1
    BY <1>1 DEF Fresh
  <2>5. Has(stored, now - Limit + 1, covered)' /\ Has(window.closed \cup window.open, now - Limit + 1, covered)'
    BY <1>2, <2>4 DEF Has
  <2> QED  BY <2>1, <2>2, <2>3, <2>4, <2>5 DEF WindowKept
<1>4. SyncsKept'
  <2>1. PICK s : s = Idle
    OBVIOUS
  <2>2. s \in Sync /\ SyncKept(s)' /\ JobKept(s)'
    BY <2>1, IdleKept
  <2>3. sync' = [p \in Syncs |-> s]
    BY <2>1 DEF Fresh
  <2> QED  BY <2>2, <2>3, ConstantsAre DEF SyncsKept
<1> QED  BY <1>3, <1>4 DEF Inv

LEMMA Crash_keeps ==
  ASSUME ConstantsOK, Inv, Crash
  PROVE  Inv'
<1>1. Tables'
  <2>1. restarts' \in 0 .. MaxRestarts
    BY ConstantsAre DEF Crash, Inv, Tables
  <2> QED  BY <2>1 DEF Crash, Inv, Tables
<1>2. Fresh'
  BY DEF Crash, Fresh
<1> QED  BY <1>1, <1>2, FreshKept

LEMMA Socket_keeps ==
  ASSUME ConstantsOK, Inv, ws_once \/ SocketBreaks
  PROVE  Inv'
<1>1. /\ socket # "off" /\ socket' \in {"down", "up"} /\ due' \subseteq due
      /\ UNCHANGED <<now, stored, unavailable, window, sync, covered, restarts>>
  BY DEF ws_once, SocketBreaks
<1>2. fails' \in 0 .. MaxFailures
  BY ConstantsAre DEF ws_once, SocketBreaks, Inv, Tables
<1>3. Tables' /\ Grows
  BY <1>1, <1>2, ConstantsAre DEF Grows, Inv, Tables
<1>4. WindowKept'
  BY <1>1 DEF Inv, WindowKept, Has
<1>5. SyncsKept'
  BY <1>1, <1>3, SyncsStay DEF Inv
<1> QED  BY <1>3, <1>4, <1>5 DEF Inv
-----------------------------------------------------------------------------
(* The specification *)

LEMMA InitKept ==
  ASSUME ConstantsOK, Init
  PROVE  Inv
<1>1. Tables
  <2>1. fails = 0 /\ restarts = 0 /\ now = Start /\ stored = {} /\ due = {}
        /\ unavailable \in SUBSET (Slots \ Listed)
    BY DEF Init
  <2> QED  BY <2>1, ConstantsAre DEF Tables
<1>2. Fresh
  BY DEF Init, Fresh
<1>3. now \in Nat /\ Limit \in Nat /\ Listed \subseteq Nat
  BY <1>1, ConstantsAre DEF Tables
<1>4. \A S, a : Has(S, a, covered)
  <2>1. \A t \in Listed : ~ (t <= -1)
    BY <1>3
  <2> QED  BY <1>2, <2>1 DEF Has, Fresh
<1>5. WindowKept
  <2>1. window.closed = {} /\ window.open = {} /\ {} \cup {} = {}
    BY <1>2 DEF Fresh
  <2>2. window \in [closed : SUBSET Slots, open : SUBSET Slots]
    BY <1>2 DEF Fresh
  <2>3. Cardinality(window.closed \cup window.open) <= Limit
    <3>1. Cardinality({}) = 0
      BY FS_EmptySet
    <3> QED  BY <1>3, <2>1, <3>1
  <2>4. covered \in Slots \cup {-1} /\ covered < now /\ socket = "off" /\ covered = -1
    BY <1>2, <1>3 DEF Fresh
  <2> QED  BY <1>4, <2>1, <2>2, <2>3, <2>4 DEF WindowKept
<1>6. SyncsKept
  <2>1. Idle \in Sync /\ SyncKept(Idle) /\ JobKept(Idle)
    <3>1. /\ Idle = [pc |-> "idle", first |-> 0, last |-> 0, gaps |-> {}, wave |-> <<>>, marked |-> {},
                     rows |-> {}, whole |-> FALSE]
          /\ <<>> \in Seq(Page) /\ "idle" \in Pcs
      BY DEF Idle, Pcs
    <3>2. Idle \in Sync /\ Idle.pc = "idle" /\ Idle.gaps = {} /\ Idle.rows = {} /\ Idle.marked = {}
      BY <3>1 DEF Sync
    <3> QED  BY <3>2 DEF SyncKept, JobKept, Active
  <2> QED  BY <1>2, <2>1, ConstantsAre DEF SyncsKept, Fresh
<1> QED  BY <1>1, <1>5, <1>6 DEF Inv

LEMMA StepKeeps ==
  ASSUME ConstantsOK, Inv, [Next]_vars
  PROVE  Inv'
<1>1. CASE UNCHANGED vars
  <2>1. Grows
    BY <1>1, ConstantsAre DEF vars, Grows, Inv, Tables
  <2>2. Tables' /\ WindowKept'
    BY <1>1, WindowStays DEF vars, Inv, Tables
  <2>3. SyncsKept'
    BY <1>1, <2>1, SyncsStay DEF vars, Inv
  <2> QED  BY <2>2, <2>3 DEF Inv
<1>2. CASE JobBegins \/ list_candles \/ replace_live_candles \/ JobRaises
  BY <1>2, JobBegins_keeps, list_candles_keeps, replace_keeps, JobRaises_keeps
<1>3. ASSUME NEW p \in Routes, RouteBegins(p) PROVE Inv'
  BY <1>3, RouteBegins_keeps
<1>4. ASSUME NEW p \in Syncs, SyncSteps(p) \/ SyncFails(p) PROVE Inv'
  BY <1>4, missing_ranges_keeps, subtract_keeps, fetch_wave_keeps, persist_wave_keeps, SyncFails_keeps
  DEF SyncSteps
<1>5. CASE ws_once \/ SocketBreaks \/ Updates \/ Tick \/ Crash
  BY <1>5, Socket_keeps, Updates_keeps, Tick_keeps, Crash_keeps
<1>6. ASSUME NEW n \in Slots, Closes(n) PROVE Inv'
  BY <1>6, Closes_keeps
<1> QED  BY <1>1, <1>2, <1>3, <1>4, <1>5, <1>6 DEF Next

LEMMA InvHolds ==
  ASSUME ConstantsOK
  PROVE  Spec => []Inv
<1>1. Init => Inv
  BY InitKept
<1>2. Inv /\ [Next]_vars => Inv'
  BY StepKeeps
<1> QED  BY <1>1, <1>2, PTL DEF Spec

\* The clock, the tables, the window and every synchronisation keep their
\* types, and the window never holds more than Limit candles.
THEOREM LiveTypeCorrect ==
  ASSUME ConstantsOK
  PROVE  Spec => []TypeOK
<1>1. Inv => TypeOK
  <2> SUFFICES ASSUME Inv PROVE TypeOK
    OBVIOUS
  <2>1. ASSUME NEW p \in Syncs
        PROVE  /\ sync[p].pc \in Pcs /\ sync[p].gaps \subseteq sync[p].first .. sync[p].last
               /\ sync[p].marked \cup sync[p].rows \subseteq Slots
    <3>1. PICK s : s = sync[p]
      OBVIOUS
    <3>2. SyncKept(s) /\ stored \subseteq Slots
      BY <3>1 DEF Inv, SyncsKept, Tables
    <3> QED  BY <3>1, <3>2 DEF SyncKept, Sync
  <2> QED  BY <2>1 DEF TypeOK, Inv, Tables, WindowKept
<1> QED  BY <1>1, InvHolds, PTL

\* No process ever calls a candle of the exchange unavailable, in the database
\* or in a session that may still commit it, and the window in memory has no
\* hole up to the end of the last undisturbed run of the minute job.
THEOREM WindowIsKept_holds ==
  ASSUME ConstantsOK
  PROVE  Spec => []WindowIsKept
<1>1. Inv => WindowIsKept
  <2> SUFFICES ASSUME Inv PROVE WindowIsKept
    OBVIOUS
  <2>1. UnavailableSound
    <3>1. ASSUME NEW p \in Syncs PROVE Listed \cap sync[p].marked = {}
      BY DEF Inv, SyncsKept, SyncKept
    <3>2. Listed \cap unavailable = {}
      BY DEF Inv, Tables
    <3> QED  BY <3>1, <3>2 DEF UnavailableSound
  <2>2. WindowGapIsRecent
    <3>1. Has(window.closed \cup window.open, now - Limit + 1, covered)
      BY DEF Inv, WindowKept
    <3>2. now \in Int /\ covered \in Int /\ Limit \in Int
      BY ConstantsAre DEF Inv, WindowKept, Tables
    <3>3. \A t \in Listed \cap (now - Limit + 1 .. covered) : now - Limit + 1 <= t /\ t <= covered
      BY <3>2
    <3> QED  BY <3>1, <3>3 DEF WindowGapIsRecent, Has
  <2> QED  BY <2>1, <2>2 DEF WindowIsKept
<1> QED  BY <1>1, InvHolds, PTL
=============================================================================
