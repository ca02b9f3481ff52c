-------------------------------- MODULE MCWork --------------------------------
(***************************************************************************)
(* The notifications and the reports in one run of TLC.  The modules share no *)
(* variable, so the run explores one model after the other: model names the   *)
(* one that moves, the others keep their first state.                         *)
(*                                                                         *)
(* Notifications has four models: two workers share a market with one kind of *)
(* disturbance each, and one worker at a time has an hourly candle with all   *)
(* of them.  AccountReports has two: analyses that overlap, and page requests *)
(* that share builds.                                                         *)
(***************************************************************************)
EXTENDS Notifications, TLC

CONSTANTS
  \* AccountReports
  AnalysisTasks, Readers, Builds, ActivitiesListed, ActivitiesStored, MaxTrades, ActivitiesAsked,
  ReportFailures, ReportRestarts,
  \* ActivityPages
  Seconds, PagesListed, Limits, PageSize, Parallel, MaxOffset, PageFailures,
  \* MarketLedger
  PositionDust, Sizes, Costs, MaxActivities

VARIABLES model,
          \* AccountReports
          activities, resolved, stored, metadata, task, work, fetching, snapshot, inflight, build,
          reader, last, lost, fails, restarts,
          \* ActivityPages
          listed, limit, pc, pages, end, saved, cuts, pageFails,
          \* MarketLedger
          titled, wallet, cash, winner, closed, pending, market, count, tied, sold

reportVars == <<activities, resolved, stored, metadata, task, work, fetching, snapshot, inflight,
                build, reader, last, lost, fails, restarts>>
pageVars   == <<listed, limit, pc, pages, end, saved, cuts, pageFails>>
ledgerVars == <<titled, wallet, cash, winner, closed, pending, market, count, tied, sold>>

Reports == INSTANCE AccountReports WITH
  Tasks <- AnalysisTasks, Listed <- ActivitiesListed, Stored <- ActivitiesStored,
  MaxActivities <- MaxTrades, Asked <- ActivitiesAsked, MaxFailures <- ReportFailures,
  MaxRestarts <- ReportRestarts, listed <- activities, rows <- stored, cache <- snapshot

\* Twelve activities in eight seconds.
MCSeconds == <<2, 2, 3, 3, 3, 4, 4, 5, 6, 7, 8, 9>>

Pages == INSTANCE ActivityPages WITH
  SecondOf <- Seconds, Listed <- PagesListed, MaxFailures <- PageFailures, fails <- pageFails

Ledger == INSTANCE MarketLedger

ASSUME ModelConstants == Reports!ConstantsOK /\ Pages!ConstantsOK /\ Ledger!ConstantsOK

WorkerSymmetry == Permutations(Workers)

NotifyModels == {"failure", "restart", "switch", "hourly"}

MCInit ==
  /\ model \in NotifyModels \cup {"analyses", "readers", "pages", "ledger"}
  /\ Init /\ Reports!Init /\ Pages!Init /\ Ledger!Init
  /\ \A c \in IF model = "hourly" THEN Markets ELSE Hourly : verdict[c] = "none"
  /\ model \in NotifyModels \/ (enabled /\ configured /\ \A c \in Markets : verdict[c] = "none")
  /\ model = "restart" => enabled /\ configured
  /\ model = "pages" \/ \A n \in Limits : limit <= n
  /\ model = "ledger" \/ titled

NotifyNext ==
  /\ model \in NotifyModels /\ Next
  /\ \/ model = "failure" /\ crashes' = 0 /\ toggles' = 0
     \/ model = "restart" /\ failures' = 0 /\ toggles' = 0
     \/ model = "switch" /\ failures' = 0 /\ crashes' = 0
     \/ model = "hourly"
  /\ \A w \in Workers : worker'[w].of \in {NoOne} \cup IF model = "hourly" THEN Hourly ELSE Markets
  /\ \A h \in Hourly : model = "hourly" \/ candle'[h] = "none"

MCNext ==
  /\ UNCHANGED model
  /\ \/ NotifyNext /\ UNCHANGED <<reportVars, pageVars, ledgerVars>>
     \/ /\ model = "analyses" /\ Reports!Next /\ reader' = reader
        /\ UNCHANGED <<vars, pageVars, ledgerVars>>
     \/ /\ model = "readers" /\ Reports!Next /\ task' = task
        /\ UNCHANGED <<vars, pageVars, ledgerVars>>
     \/ model = "pages" /\ Pages!Next /\ UNCHANGED <<vars, reportVars, ledgerVars>>
     \* At most two activities of one second if the title says up or down, and one at the end.
     \/ /\ model = "ledger" /\ Ledger!Next /\ Len(pending') <= IF titled /\ count' < MaxActivities THEN 2 ELSE 1
        /\ UNCHANGED <<vars, reportVars, pageVars>>

MCSpec == MCInit /\ [][MCNext]_<<model, vars, reportVars, pageVars, ledgerVars>>
----
\* Types of the models.
TypesOK == CASE model \in NotifyModels -> TypeOK
             [] model \in {"analyses", "readers"} -> Reports!TypeOK
             [] model = "pages" -> Pages!TypeOK
             [] model = "ledger" -> Ledger!TypeOK

\* A task says "running" only while it is worked on, also after a restart; the task that has
\* deleted the activities last has all of its own stored; and the report of a market agrees with
\* the wallet, as MarketLedger states it: totals, positions, result, counts and hypothetical
\* profits.
ReportsAreKept ==
  /\ model \in {"analyses", "readers"} => Reports!RunningIsAtWork /\ Reports!LastRebuildIsWhole
  /\ model = "ledger" => Ledger!LedgerAgrees

\* A download that ends well has the newest activities, as far as seconds that a batch cuts and
\* trades meanwhile allow.
DownloadIsWhole == model = "pages" => Pages!DownloadIsWhole
================================================================================
