------------------------------ MODULE ActivityPages ------------------------------
(***************************************************************************)
(* One download of the newest activities of a wallet.  A batch asks for       *)
(* several pages at once, at neighbouring offsets; the next batch begins      *)
(* before the oldest second of the rows of the one before.  Each page is      *)
(* answered for itself, while the account may trade.                          *)
(*                                                                         *)
(* Activities are numbered from old to new.                                   *)
(***************************************************************************)
EXTENDS Integers, Sequences, FiniteSets, FiniteSetsExt

CONSTANTS
  SecondOf,     \* second of each activity, not falling
  Listed,       \* activities that exist at first
  Limits,       \* activity_limit of the download
  PageSize,     \* ACTIVITY_PAGE_SIZE
  Parallel,     \* ACTIVITY_PARALLEL_REQUESTS
  MaxOffset,    \* ACTIVITY_MAX_OFFSET
  MaxFailures   \* bound of the model

ConstantsOK ==
  /\ SecondOf \in Seq(Nat \ {0, 1})
  /\ \A a, b \in DOMAIN SecondOf : a <= b => SecondOf[a] <= SecondOf[b]
  /\ {PageSize, Parallel, MaxOffset} \cup Limits \subseteq Nat \ {0} /\ MaxFailures \in Nat
  /\ Listed \in DOMAIN SecondOf

VARIABLES
  listed,   \* activities 1 .. listed exist
  limit,    \* activity_limit
  pc,       \* "ask" a batch, "wait" for its pages, "done", "failed"
  pages,    \* pages of the batch: what each one was answered
  end,      \* the last second the batch asks for, 0 without a bound
  saved,    \* activities handed on
  cuts,     \* history: seconds in which a batch ended
  fails
vars == <<listed, limit, pc, pages, end, saved, cuts, fails>>

Asked  == [state |-> "asked", rows |-> {}]
Failed == [state |-> "failed", rows |-> {}]

TypeOK ==
  /\ listed \in DOMAIN SecondOf /\ limit \in Limits
  /\ pc \in {"ask", "wait", "done", "failed"}
  /\ \A i \in DOMAIN pages : /\ pages[i].state \in {"asked", "failed", "answered"}
                             /\ pages[i].rows \subseteq 1 .. listed
  /\ saved \subseteq 1 .. listed /\ Cardinality(saved) <= limit
  /\ fails \in 0 .. MaxFailures
----
activity_page_size ==
  IF limit <= PageSize THEN limit ELSE Min({PageSize, Max({1, MaxOffset \div Parallel})})

\* Pages of a batch that still wants n activities.
offset_batch_page_count(n) ==
  Min({Max({1, (n + activity_page_size - 1) \div activity_page_size}), Parallel,
       ((MaxOffset - 1) \div activity_page_size) + 1})

\* The n newest members of S.
Latest(n, S) == {a \in S : Cardinality({b \in S : b >= a}) <= n}

\* What Polymarket answers for page i at this time.
fetch_activity_page(i) ==
  LET until == {a \in 1 .. listed : end = 0 \/ SecondOf[a] <= end}
      after == until \ Latest((i - 1) * activity_page_size, until)
  IN [state |-> "answered", rows |-> Latest(activity_page_size, after)]

\* All pages of a batch are asked for.
Begins ==
  /\ pc = "ask" /\ pc' = "wait"
  /\ pages' = [i \in 1 .. offset_batch_page_count(limit - Cardinality(saved)) |-> Asked]
  /\ UNCHANGED <<listed, limit, end, saved, cuts, fails>>

PageAnswers(i) ==
  /\ pc = "wait" /\ i \in DOMAIN pages /\ pages[i] = Asked
  /\ \/ pages' = [pages EXCEPT ![i] = fetch_activity_page(i)] /\ UNCHANGED fails
     \/ /\ fails < MaxFailures /\ fails' = fails + 1
        /\ pages' = [pages EXCEPT ![i] = Failed]
  /\ UNCHANGED <<listed, limit, pc, end, saved, cuts>>

\* Page i ends the batch: it failed, or it was the last of the wallet.
Stops(i) == pages[i].state = "failed" \/ Cardinality(pages[i].rows) < activity_page_size

\* Variant: pages after a failed one are used as well.
fetch_offset_page_batch_all == DOMAIN pages

\* The pages whose rows are used, up to the first that stops.
fetch_offset_page_batch == {i \in DOMAIN pages : \A j \in 1 .. i - 1 : ~Stops(j)}

\* Rows of the batch, and whether the wallet has no more: the rows of different
\* pages may overlap when the account has traded meanwhile.
Rows == UNION {pages[i].rows : i \in fetch_offset_page_batch}
reached_end ==
  \E i \in fetch_offset_page_batch : pages[i].state = "answered" /\ Stops(i)
RowCount ==
  Cardinality({p \in fetch_offset_page_batch \X (1 .. listed) : p[2] \in pages[p[1]].rows})

\* Row b comes before row a: on an earlier page, or above it.
PageOf(a) == Min({i \in fetch_offset_page_batch : a \in pages[i].rows})
Before(b, a) == PageOf(b) < PageOf(a) \/ (PageOf(b) = PageOf(a) /\ b > a)

\* The first rows that were not handed on yet, as many as are wanted.
normalize_activity_batch ==
  {a \in Rows \ saved :
     Cardinality({b \in Rows \ saved : Before(b, a)}) < limit - Cardinality(saved)}

\* The second before the oldest row.
oldest_timestamp == SecondOf[Min(Rows)] - 1

\* All pages are there: the batch is handed on, and another one may follow.
BatchEnds ==
  /\ pc = "wait" /\ \A i \in DOMAIN pages : pages[i] # Asked
  /\ LET kept == saved \cup normalize_activity_batch
         exhausted == reached_end \/ (end = 0 /\ RowCount >= limit)
         more == ~exhausted /\ Cardinality(kept) < limit /\ Rows # {}
     IN IF pages[1].state = "failed"
        THEN pc' = "failed" /\ UNCHANGED <<end, saved, cuts>>
        ELSE /\ saved' = kept
             /\ pc' = IF more THEN "ask" ELSE "done"
             /\ end' = IF more THEN oldest_timestamp ELSE end
             /\ cuts' = IF more THEN cuts \cup {oldest_timestamp + 1} ELSE cuts
  /\ pages' = <<>>
  /\ UNCHANGED <<listed, limit, fails>>
----
\* The account trades.
Trades ==
  /\ listed + 1 \in DOMAIN SecondOf /\ listed' = listed + 1
  /\ UNCHANGED <<limit, pc, pages, end, saved, cuts, fails>>

Init ==
  /\ listed = Listed /\ limit \in Limits
  /\ pc = "ask" /\ pages = <<>> /\ end = 0
  /\ saved = {} /\ cuts = {} /\ fails = 0

Next == Begins \/ BatchEnds \/ Trades \/ \E i \in 1 .. Parallel : PageAnswers(i)

Spec == Init /\ [][Next]_vars
----
(***************************************************************************)
(* Properties                                                               *)
(***************************************************************************)

\* What should have been downloaded and was not.
Missing == Latest(limit, 1 .. Listed) \ saved

\* A download that ends well has the newest activities that existed when it
\* began.  Two kinds are missing: those of a second in which a batch ended, and,
\* for each trade meanwhile, one at each boundary of the first pages and one
\* whose place was taken.
DownloadIsWhole ==
  pc = "done" =>
    Cardinality({a \in Missing : SecondOf[a] \notin cuts})
      <= (listed - Listed) * offset_batch_page_count(limit)

=================================================================================
