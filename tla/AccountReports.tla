----------------------------- MODULE AccountReports -----------------------------
(***************************************************************************)
(* The reports about one account.  An analysis runs in the background: it     *)
(* deletes the stored activities, downloads the newest ones (ActivityPages),  *)
(* brings the metadata of their market up to date and clears the cache.       *)
(* Pages ask for a snapshot that is computed from the rows, cached under a    *)
(* key that was read before, and built once for requests with the same key.   *)
(*                                                                         *)
(* Activities are numbered from old to new and belong to one market.  Nothing *)
(* keeps two analyses of an account from running at the same time.            *)
(***************************************************************************)
EXTENDS Integers, FiniteSets, FiniteSetsExt

CONSTANTS
  Tasks,          \* analyses that may be asked for
  Readers,        \* page requests at a time
  Builds,         \* snapshots that may be under construction at a time
  NoOne,
  Listed, Stored, \* activities at Polymarket and in the database at first
  MaxActivities, Asked,  \* bound of the activities, numbers an analysis may ask for
  MaxFailures, MaxRestarts  \* bounds of the model

ConstantsOK ==
  /\ {Listed, Stored, MaxActivities} \cup Asked \subseteq Nat
  /\ Stored <= Listed /\ Listed <= MaxActivities
  /\ MaxFailures \in Nat /\ MaxRestarts \in Nat
  /\ NoOne \notin Tasks \cup Readers \cup Builds

VARIABLES
  listed,    \* activities 1 .. listed exist at Polymarket
  resolved,  \* the market is closed at Polymarket
  rows,      \* activities table
  metadata,  \* market_metadata row: how often it was written, and its result
  task,      \* status of each analysis_tasks row, "none" before there is one
  work,      \* coroutine of each task
  fetching,  \* a request for the metadata is in flight
  cache,     \* _SNAPSHOT_CACHE while it is not expired
  inflight,  \* _IN_FLIGHT_SNAPSHOTS: the build, NoOne without
  build,     \* build_report_snapshot calls
  reader,    \* get_report_snapshot calls
  last,      \* history: task that has deleted the rows last
  lost,      \* history: tasks whose failure could not be recorded
  fails, restarts
vars == <<listed, resolved, rows, metadata, task, work, fetching, cache, inflight, build, reader,
          last, lost, fails, restarts>>

NoWork  == [pc |-> "off", asked |-> 0, next |-> 0, saved |-> {}, row |-> "none"]
NoKey   == [count |-> 0, newest |-> 0, written |-> 0]
NoBuild == [pc |-> "off", key |-> NoKey, rows |-> {}, written |-> 0]
NoCache == [key |-> NoKey, rows |-> {}, written |-> 0, any |-> FALSE]
NoRead  == [pc |-> "idle", key |-> NoKey, any |-> FALSE, build |-> NoOne]

TypeOK ==
  /\ listed \in 0 .. MaxActivities /\ rows \subseteq 1 .. listed /\ resolved \in BOOLEAN
  /\ metadata.written \in Nat /\ metadata.result \in {"none", "open", "closed"}
  /\ \A t \in Tasks :
       /\ task[t] \in {"none", "running", "done", "error", "deleted"}
       /\ work[t].pc \in {"off", "delete", "download", "metadata", "fetch", "upsert", "clear", "finish"}
       /\ work[t].saved \subseteq 1 .. listed /\ work[t].next \in 0 .. listed
  /\ fetching = (\E t \in Tasks : work[t].pc = "fetch") /\ inflight \in Builds \cup {NoOne}
  /\ \A b \in Builds : build[b].pc \in {"off", "read", "list", "store", "done", "failed"}
  /\ \A r \in Readers : /\ reader[r].pc \in {"idle", "slugs", "metadata", "waiting"}
                        /\ (reader[r].pc = "waiting") = (reader[r].build # NoOne)
  /\ last \in Tasks \cup {NoOne} /\ lost \subseteq Tasks
  /\ fails \in 0 .. MaxFailures /\ restarts \in 0 .. MaxRestarts

\* The key of a snapshot that shows the rows as they are.
CurrentKey == [count |-> Cardinality(rows), newest |-> IF rows = {} THEN 0 ELSE Max(rows),
               written |-> IF rows = {} THEN 0 ELSE metadata.written]
----
(***************************************************************************)
(* The analysis.                                                            *)
(***************************************************************************)
analysis_only == UNCHANGED <<listed, resolved, build, reader, restarts>>

\* The route commits the task and spawns its coroutine.
analyze_account(t, n) ==
  /\ task[t] = "none"
  /\ task' = [task EXCEPT ![t] = "running"]
  /\ work' = [work EXCEPT ![t] = [NoWork EXCEPT !.pc = "delete", !.asked = n]]
  /\ UNCHANGED <<rows, metadata, fetching, cache, inflight, last, lost, fails>> /\ analysis_only

\* The account is resolved and its activities are deleted.
delete_account_activities(t) ==
  /\ work[t].pc = "delete"
  /\ rows' = {} /\ last' = t
  /\ work' = [work EXCEPT ![t].pc = "download", ![t].next = listed]
  /\ UNCHANGED <<metadata, task, fetching, cache, inflight, lost, fails>> /\ analysis_only

\* The next activity downward is committed, or there is none left to download.
upsert_activities(t) ==
  /\ work[t].pc = "download"
  /\ IF Cardinality(work[t].saved) < work[t].asked /\ work[t].next > 0
     THEN /\ rows' = rows \cup {work[t].next}
          /\ work' = [work EXCEPT ![t].next = @ - 1, ![t].saved = @ \cup {work[t].next}]
     ELSE work' = [work EXCEPT ![t].pc = "metadata"] /\ UNCHANGED rows
  /\ UNCHANGED <<metadata, task, fetching, cache, inflight, last, lost, fails>> /\ analysis_only

\* A row is fetched when there is none, or when it is open and has become old.
needs_refresh == metadata.result \in {"none", "open"}

\* The market is known from the download or from the rows; a request for it
\* that is in flight is shared.
ensure_market_metadata_for_slugs(t) ==
  /\ work[t].pc = "metadata"
  /\ \/ /\ metadata.result # "none" \/ work[t].saved \cup rows = {}
        /\ work' = [work EXCEPT ![t].pc = "clear"] /\ UNCHANGED fetching
     \/ /\ needs_refresh /\ work[t].saved \cup rows # {}
        /\ work' = [work EXCEPT ![t].pc = "fetch"] /\ fetching' = TRUE
  /\ UNCHANGED <<rows, metadata, task, cache, inflight, last, lost, fails>> /\ analysis_only

\* The request is answered, or fails for all who share it without an exception.
fetch_market_metadata_row ==
  /\ fetching /\ fetching' = FALSE
  /\ \E row \in {IF resolved THEN "closed" ELSE "open", "none"} :
       /\ row = "none" => fails < MaxFailures
       /\ fails' = IF row = "none" THEN fails + 1 ELSE fails
       /\ work' = [t \in Tasks |-> IF work[t].pc = "fetch"
                                   THEN [work[t] EXCEPT !.pc = "upsert", !.row = row] ELSE work[t]]
  /\ UNCHANGED <<rows, metadata, task, cache, inflight, last, lost>> /\ analysis_only

upsert_market_metadata_rows(t) ==
  /\ work[t].pc = "upsert"
  /\ metadata' = IF work[t].row = "none" THEN metadata
                 ELSE [written |-> metadata.written + 1, result |-> work[t].row]
  /\ work' = [work EXCEPT ![t].pc = "clear"]
  /\ UNCHANGED <<rows, task, fetching, cache, inflight, last, lost, fails>> /\ analysis_only

\* A build that is under way goes on and stores what it has read.
clear_report_snapshot_cache(t) ==
  /\ work[t].pc = "clear"
  /\ cache' = NoCache /\ inflight' = NoOne
  /\ work' = [work EXCEPT ![t].pc = "finish"]
  /\ UNCHANGED <<rows, metadata, task, fetching, last, lost, fails>> /\ analysis_only

Finishes(t) ==
  /\ work[t].pc = "finish"
  /\ task' = [task EXCEPT ![t] = "done"]
  /\ work' = [work EXCEPT ![t].pc = "off"]
  /\ UNCHANGED <<rows, metadata, fetching, cache, inflight, last, lost, fails>> /\ analysis_only

\* A step raises: the error is recorded, or that raises, too.
AnalysisFails(t) ==
  /\ work[t].pc \notin {"off", "fetch"} /\ fails < MaxFailures /\ fails' = fails + 1
  /\ work' = [work EXCEPT ![t] = NoWork]
  /\ \/ task' = [task EXCEPT ![t] = "error"] /\ UNCHANGED lost
     \/ lost' = lost \cup {t} /\ UNCHANGED task
  /\ UNCHANGED <<rows, metadata, fetching, cache, inflight, last>> /\ analysis_only

Analysis(t) ==
  \/ delete_account_activities(t) \/ upsert_activities(t) \/ ensure_market_metadata_for_slugs(t)
  \/ upsert_market_metadata_rows(t) \/ clear_report_snapshot_cache(t) \/ Finishes(t)

\* The maintenance job deletes old tasks, but none that runs.
delete_finished_tasks_before(t) ==
  /\ task[t] \in {"done", "error"}
  /\ task' = [task EXCEPT ![t] = "deleted"]
  /\ UNCHANGED <<rows, metadata, work, fetching, cache, inflight, last, lost, fails>> /\ analysis_only
----
(***************************************************************************)
(* Snapshots.                                                               *)
(***************************************************************************)
snapshot_only == UNCHANGED <<listed, resolved, rows, metadata, task, work, fetching, last, lost, restarts>>

\* The parts of the key are read one after the other.
ReadsBounds(r) ==
  /\ reader[r].pc = "idle"
  /\ reader' = [reader EXCEPT ![r].pc = "slugs",
                              ![r].key = [CurrentKey EXCEPT !.written = 0]]
  /\ UNCHANGED <<cache, inflight, build, fails>> /\ snapshot_only

\* Without a market in the rows there is no time of metadata to read.
ReadsSlugs(r) ==
  /\ reader[r].pc = "slugs"
  /\ reader' = [reader EXCEPT ![r].pc = "metadata", ![r].any = rows # {}]
  /\ UNCHANGED <<cache, inflight, build, fails>> /\ snapshot_only

Building(b) == build[b].pc \in {"read", "list", "store"}

Unused(b) ==
  ~Building(b) /\ inflight # b /\ \A r \in Readers : reader[r].build # b

\* Answered from the cache, by a build with the same key, or by a new one.
get_report_snapshot(r) ==
  LET key == [reader[r].key EXCEPT !.written = IF reader[r].any THEN metadata.written ELSE 0]
      Waits(b) == reader' = [reader EXCEPT ![r] = [NoRead EXCEPT !.pc = "waiting", !.build = b]]
      hit == cache.any /\ cache.key = key
      shared == inflight # NoOne /\ build[inflight].key = key /\ Building(inflight)
  IN /\ reader[r].pc = "metadata"
     /\ \/ hit /\ reader' = [reader EXCEPT ![r] = NoRead] /\ UNCHANGED <<inflight, build>>
        \/ ~hit /\ shared /\ Waits(inflight) /\ UNCHANGED <<inflight, build>>
        \/ /\ ~hit /\ ~shared
           /\ \E b \in Builds :
                /\ Unused(b) /\ Waits(b) /\ inflight' = b
                /\ build' = [build EXCEPT ![b] = [NoBuild EXCEPT !.pc = "read", !.key = key]]
     /\ UNCHANGED <<cache, fails>> /\ snapshot_only

list_account_activities(b) ==
  /\ build[b].pc = "read"
  /\ build' = [build EXCEPT ![b].pc = "list", ![b].rows = rows]
  /\ UNCHANGED <<cache, inflight, reader, fails>> /\ snapshot_only

list_market_metadata(b) ==
  /\ build[b].pc = "list"
  /\ build' = [build EXCEPT ![b].pc = "store",
                            ![b].written = IF build[b].rows = {} THEN 0 ELSE metadata.written]
  /\ UNCHANGED <<cache, inflight, reader, fails>> /\ snapshot_only

build_report_snapshot(b) ==
  /\ build[b].pc = "store"
  /\ cache' = [key |-> build[b].key, rows |-> build[b].rows, written |-> build[b].written,
               any |-> TRUE]
  /\ build' = [build EXCEPT ![b] = [NoBuild EXCEPT !.pc = "done"]]
  /\ UNCHANGED <<inflight, reader, fails>> /\ snapshot_only

BuildFails(b) ==
  /\ build[b].pc \in {"read", "list"} /\ fails < MaxFailures /\ fails' = fails + 1
  /\ build' = [build EXCEPT ![b] = [NoBuild EXCEPT !.pc = "failed"]]
  /\ UNCHANGED <<cache, inflight, reader>> /\ snapshot_only

\* The callback of a task that is done.
clear_snapshot_task(b) ==
  /\ build[b].pc \in {"done", "failed"} /\ inflight = b
  /\ inflight' = NoOne
  /\ UNCHANGED <<cache, build, reader, fails>> /\ snapshot_only

\* A reader that waits gets the snapshot, or the exception.
Answers(r) ==
  /\ reader[r].pc = "waiting" /\ build[reader[r].build].pc \in {"done", "failed"}
  /\ reader' = [reader EXCEPT ![r] = NoRead]
  /\ UNCHANGED <<cache, inflight, build, fails>> /\ snapshot_only

\* Variant: a snapshot is served as long as its key is that of the rows.
snapshot_expired_never == cache.any /\ UNCHANGED vars

\* REPORT_SNAPSHOT_TTL has passed since the snapshot was cached: it is not served again.
snapshot_expired ==
  /\ cache.any /\ cache' = NoCache
  /\ UNCHANGED <<inflight, build, reader, fails>> /\ snapshot_only

Build(b) == list_account_activities(b) \/ list_market_metadata(b) \/ build_report_snapshot(b)
Asks(r) == ReadsBounds(r) \/ ReadsSlugs(r) \/ get_report_snapshot(r)
----
\* The account trades, or the market is closed.
PolymarketMoves ==
  /\ \/ listed < MaxActivities /\ listed' = listed + 1 /\ UNCHANGED resolved
     \/ ~resolved /\ resolved' = TRUE /\ UNCHANGED listed
  /\ UNCHANGED <<rows, metadata, task, work, fetching, cache, inflight, build, reader, last, lost,
                 fails, restarts>>

\* Variant: tasks of the previous process are left as they are.
fail_interrupted_running_tasks_never == task

\* Tasks of the previous process, as the start leaves them.
fail_interrupted_running_tasks ==
  [t \in Tasks |-> IF task[t] = "running" THEN "error" ELSE task[t]]

Crash ==
  /\ restarts < MaxRestarts /\ restarts' = restarts + 1
  /\ task' = fail_interrupted_running_tasks
  /\ work' = [t \in Tasks |-> NoWork] /\ fetching' = FALSE
  /\ cache' = NoCache /\ inflight' = NoOne
  /\ build' = [b \in Builds |-> NoBuild] /\ reader' = [r \in Readers |-> NoRead]
  /\ lost' = {}
  /\ UNCHANGED <<listed, resolved, rows, metadata, last, fails>>

Init ==
  /\ listed = Listed /\ resolved = FALSE
  /\ rows = 1 .. Stored
  /\ metadata = IF Stored = 0 THEN [written |-> 0, result |-> "none"]
                ELSE [written |-> 1, result |-> "open"]
  /\ task = [t \in Tasks |-> "none"] /\ work = [t \in Tasks |-> NoWork]
  /\ fetching = FALSE /\ cache = NoCache /\ inflight = NoOne
  /\ build = [b \in Builds |-> NoBuild] /\ reader = [r \in Readers |-> NoRead]
  /\ last = NoOne /\ lost = {} /\ fails = 0 /\ restarts = 0

Next ==
  \/ \E t \in Tasks : \/ \E n \in Asked : analyze_account(t, n)
                      \/ Analysis(t) \/ AnalysisFails(t) \/ delete_finished_tasks_before(t)
  \/ fetch_market_metadata_row
  \/ \E r \in Readers : Asks(r) \/ Answers(r)
  \/ \E b \in Builds : Build(b) \/ BuildFails(b) \/ clear_snapshot_task(b)
  \/ snapshot_expired \/ PolymarketMoves \/ Crash

\* Coroutines that have begun go on, requests to Polymarket are answered, and
\* the time of a snapshot passes.
Fairness ==
  /\ \A t \in Tasks : WF_vars(Analysis(t))
  /\ WF_vars(fetch_market_metadata_row)
  /\ \A b \in Builds : WF_vars(Build(b))
  /\ \A r \in Readers : WF_vars(Answers(r))
  /\ WF_vars(snapshot_expired)

Spec == Init /\ [][Next]_vars
LiveSpec == Spec /\ Fairness
----
(***************************************************************************)
(* Properties                                                               *)
(***************************************************************************)

\* A task says "running" only while its coroutine works on it, also after a
\* restart (report_store.py:70), unless its failure could not be recorded.
RunningIsAtWork ==
  \A t \in Tasks : task[t] = "running" => work[t].pc # "off" \/ t \in lost

\* Analyses that overlap delete what others have stored, but a task that is done
\* and was the last to delete has all of its activities stored.
LastRebuildIsWhole ==
  \A t \in Tasks : last = t => work[t].saved \subseteq rows

\* A snapshot with the key of the stored activities and metadata that does not
\* show them, since it was read in the middle of an analysis, is not served for
\* ever; a task that was begun ends, and a page is answered.
ReportSettles ==
  /\ <>[](cache.any /\ cache.key = CurrentKey =>
             cache.rows = rows /\ cache.written = CurrentKey.written)
  /\ \A t \in Tasks : task[t] = "running" ~> (task[t] # "running" \/ t \in lost)
  /\ \A r \in Readers : reader[r].pc = "waiting" ~> reader[r].pc # "waiting"
=================================================================================
