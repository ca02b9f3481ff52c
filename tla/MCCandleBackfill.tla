-------------------------- MODULE MCCandleBackfill --------------------------
(***************************************************************************)
(* Values of the constants of CandleBackfill for TLC.                      *)
(***************************************************************************)
EXTENDS CandleBackfill, TLC

\* Two intervals, the coarse one three times as wide and executed first.
MCIntervals == {"coarse", "fine"}
MCWidth == [i \in MCIntervals |-> IF i = "coarse" THEN 3 ELSE 1]
MCRank == [i \in MCIntervals |-> IF i = "coarse" THEN 0 ELSE 1]
\* The exchange has no fine klines in slots 4 and 5.
MCListed == [i \in MCIntervals |-> IF i = "coarse" THEN 1 .. 9 ELSE 2 .. 20 \ {4, 5}]
MCMonth == [i \in MCIntervals |-> IF i = "coarse" THEN 2 ELSE 6]
MCDay == [i \in MCIntervals |-> IF i = "coarse" THEN 0 ELSE 3]

\* One interval, listed later than the history starts.
OneInterval == {"fine"}
OneWidth == [i \in OneInterval |-> 1]
OneRank == [i \in OneInterval |-> 0]
OneListed == [i \in OneInterval |-> 6 .. 20 \ {8}]
OneMonth == [i \in OneInterval |-> 4]
\* A month longer than a wave of REST pages.
OneLongMonth == [i \in OneInterval |-> 6]
OneDay == [i \in OneInterval |-> 3]

Symmetry == Permutations(Callers)
=============================================================================
