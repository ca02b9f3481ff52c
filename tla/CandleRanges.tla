---------------------------- MODULE CandleRanges ----------------------------
(***************************************************************************)
(* Arithmetic of candle gaps, shared by the backfill task and the bounded  *)
(* synchroniser.                                                           *)
(*                                                                         *)
(* The candles of one interval are numbered by the position of their open  *)
(* time: slot n opens at n times the width of the interval.  A list of     *)
(* inclusive ranges of open times is the set of its slots; two ranges that *)
(* touch are one range, which is what the merging step of the planner      *)
(* makes of them.                                                          *)
(***************************************************************************)
EXTENDS Integers, FiniteSets

MinOf(S) == CHOOSE x \in S : \A y \in S : x <= y
MaxOf(S) == CHOOSE x \in S : \A y \in S : y <= x
Larger(a, b) == IF a >= b THEN a ELSE b
Smaller(a, b) == IF a <= b THEN a ELSE b

\* The slots strictly between two members of Rows that Rows lacks: the rows of
\* the window function lag(open_time) whose distance is more than one interval.
list_candle_missing_ranges(Rows) ==
  IF Rows = {} THEN {} ELSE MinOf(Rows) .. MaxOf(Rows) \ Rows

\* Gaps no more than bridge slots apart become one range.
merge_missing_range_windows(bridge) ==
  [Gaps \in SUBSET Int |->
     Gaps \cup UNION {pair[1] .. pair[2] :
                       pair \in {p \in Gaps \X Gaps : p[2] - p[1] <= bridge}}]

\* The maximal ranges of a set of slots, as pairs <<first, last>>.
Ranges ==
  [Slots \in SUBSET Int |->
     {r \in Slots \X Slots :
        /\ r[1] .. r[2] \subseteq Slots
        /\ r[1] <= r[2]
        /\ r[1] - 1 \notin Slots
        /\ r[2] + 1 \notin Slots}]

\* What the exchange answers to a request for the klines that open in a range
\* where it lists Listed: the earliest of them, at most limit, and fewer than
\* limit only when there is no more.
IsKlinePage(Rows, Listed, limit) ==
  /\ Rows \subseteq Listed
  /\ \A t \in Rows, u \in Listed : u < t => u \in Rows
  /\ Cardinality(Rows) <= limit
  /\ Cardinality(Rows) < limit => Rows = Listed
=============================================================================
