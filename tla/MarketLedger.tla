------------------------------ MODULE MarketLedger ------------------------------
(***************************************************************************)
(* One market of a report: the totals and positions that are worked out from  *)
(* the activities, beside the wallet and the cash the activities come from.   *)
(*                                                                         *)
(* The rows are read in the order of their seconds.  Those of one second come *)
(* in any order: pending holds them until they are applied.  Shares and       *)
(* dollars are whole units, none as small as DUST.                            *)
(***************************************************************************)
EXTENDS Integers, Sequences, SequencesExt

CONSTANTS
  PositionDust,      \* POSITION_DUST
  Sizes, Costs,      \* shares of an activity, dollars of a trade
  MaxActivities      \* bound of the model

Outcomes == {"up", "down"}

ConstantsOK == /\ PositionDust \in Nat \ {0} /\ MaxActivities \in Nat
               /\ Sizes \subseteq Nat \ {0} /\ Costs \subseteq Nat \ {0}

VARIABLES
  titled,   \* the title says up or down
  wallet,   \* shares the account holds
  cash,     \* dollars it has got back, less those it has paid
  winner,   \* outcome that won, "none" before
  closed,   \* metadata_closed, with its metadata_outcome
  pending,  \* activities of the newest second, not applied yet
  market,   \* MarketAccumulator
  count,    \* activities so far
  tied,     \* history: two activities of one second did not commute
  sold      \* history: outcomes that were sold
vars == <<titled, wallet, cash, winner, closed, pending, market, count, tied, sold>>

NoShares == [o \in Outcomes |-> 0]
Opened == [known |-> <<>>, buy |-> NoShares, current |-> NoShares, cost |-> 0, recovery |-> 0,
           rebate |-> 0, merged |-> 0, redeemed |-> 0, redeemed_shares |-> 0, redeem_count |-> 0,
           merge_count |-> 0, sell_return |-> 0, incomplete |-> FALSE]

TypeOK ==
  /\ titled \in BOOLEAN /\ closed \in BOOLEAN /\ tied \in BOOLEAN
  /\ wallet \in [Outcomes -> Nat] /\ cash \in Int /\ winner \in Outcomes \cup {"none"}
  /\ count \in 0 .. MaxActivities /\ Len(pending) <= count /\ sold \subseteq Outcomes
  /\ DOMAIN market = DOMAIN Opened /\ ToSet(market.known) \subseteq Outcomes
  /\ IsInjective(market.known) /\ market.buy \in [Outcomes -> Nat]
  /\ market.current \in [Outcomes -> Int]

----
positive(value) == IF value > 0 THEN value ELSE 0
positive_position(value) == IF value >= PositionDust THEN value ELSE 0

is_up_down_market(m) == titled \/ m.known # <<>>

\* Shares of an outcome that were bought and not merged.
Kept(m, o) == positive(m.buy[o] - m.merged)
Distance(m, o) == LET d == Kept(m, o) - m.redeemed_shares IN IF d < 0 THEN -d ELSE d

has_incomplete_redeem(m) ==
  m.redeemed_shares > 0 /\ \A o \in ToSet(m.known) : Distance(m, o) >= PositionDust

\* Variant: any outcome that was bought may have been redeemed.
infer_redeem_outcome_first(m) ==
  IF m.redeemed_shares = 0 \/ m.known = <<>> THEN "none" ELSE m.known[1]

\* The outcome whose shares come nearest to those redeemed, the first one known of equals.
infer_redeem_outcome(m) ==
  LET Nearest(o) == \A p \in ToSet(m.known) : Distance(m, o) <= Distance(m, p)
  IN  IF m.redeemed_shares = 0 \/ m.known = <<>> \/ has_incomplete_redeem(m) THEN "none"
      ELSE m.known[Min({i \in DOMAIN m.known : Nearest(m.known[i])})]

redeem_share_size(size, amount) == IF size > 0 THEN size ELSE amount

reduce_all_outcomes(m, size) ==
  [m EXCEPT !.current = [o \in Outcomes |-> @[o] - IF o \in ToSet(m.known) THEN size ELSE 0]]

\* The accumulator with a position of the outcome.
Opens(m, o) == [m EXCEPT !.known = IF o \in ToSet(@) THEN @ ELSE Append(@, o)]

Bought(m, a) ==
  [Opens(m, a.outcome) EXCEPT !.cost = @ + a.amount, !.buy[a.outcome] = @ + a.size,
                              !.current[a.outcome] = @ + a.size]
Sold(m, a) ==
  [Opens(m, a.outcome) EXCEPT !.sell_return = @ + a.amount, !.recovery = @ + a.amount,
                              !.current[a.outcome] = @ - a.size]
Split(m, a) ==
  LET paid == [m EXCEPT !.cost = @ + a.amount]
      add(shares) == [o \in Outcomes |-> shares[o] + a.size]
  IN  IF is_up_down_market(m)
      THEN [Opens(Opens(paid, "up"), "down") EXCEPT !.buy = add(@), !.current = add(@)]
      ELSE paid
Merged(m, a) ==
  reduce_all_outcomes([m EXCEPT !.merged = @ + a.size, !.recovery = @ + a.amount,
                                !.merge_count = @ + 1], a.size)
Redeemed(m, a) ==
  LET shares == redeem_share_size(a.size, a.amount)
      n == [m EXCEPT !.redeemed = @ + a.amount, !.redeemed_shares = @ + shares,
                     !.recovery = @ + a.amount, !.redeem_count = @ + 1]
      o == infer_redeem_outcome(n)
  IN  [n EXCEPT !.incomplete = has_incomplete_redeem(n),
                !.current = [p \in Outcomes |-> @[p] - IF p = o THEN shares ELSE 0]]

apply_activity(m, a) ==
  CASE a.type = "BUY"    -> Bought(m, a)
    [] a.type = "SELL"   -> Sold(m, a)
    [] a.type = "SPLIT"  -> Split(m, a)
    [] a.type = "MERGE"  -> Merged(m, a)
    [] a.type = "REDEEM" -> Redeemed(m, a)
    [] a.type = "MAKER_REBATE" -> [m EXCEPT !.rebate = @ + a.amount]

----
current_shares_for(m, o) ==
  IF o \notin ToSet(m.known) \/ m.redeem_count > 0 THEN 0 ELSE positive_position(m.current[o])
open_exposure(m) == current_shares_for(m, "up") + current_shares_for(m, "down")

pnl(m) == m.recovery - m.cost
pnl_with_rebate(m) == pnl(m) + m.rebate
hypothetical_pnl(m, o) == positive_position(m.buy[o] - m.merged) - m.cost

is_settled(m) ==
  closed \/ open_exposure(m) = 0 \/ m.redeem_count > 0 \/ m.sell_return > 0 \/ m.merge_count > 0
is_reliable_settled(m) == is_settled(m) /\ ~m.incomplete
is_open_market(m) == ~closed /\ open_exposure(m) > 0 /\ m.cost > m.recovery

\* The outcome, "settled" without one, or "open".
inferred_result(m) ==
  CASE closed -> winner
    [] ~closed /\ (m.redeem_count = 0 \/ m.incomplete) -> "open"
    [] OTHER -> IF infer_redeem_outcome(m) = "none" THEN "settled" ELSE infer_redeem_outcome(m)

----
Init ==
  /\ titled \in BOOLEAN /\ wallet = NoShares /\ cash = 0 /\ winner = "none" /\ closed = FALSE
  /\ pending = <<>> /\ market = Opened /\ count = 0 /\ tied = FALSE /\ sold = {}

\* A merge takes shares of the positions known so far and a redemption is compared with them;
\* a split without a title asks what is known.
Ordered(type) == type \in {"MERGE", "REDEEM"} \/ (type = "SPLIT" /\ ~titled)

Happens(a) ==
  /\ count < MaxActivities /\ count' = count + 1 /\ pending' = Append(pending, a)
  /\ tied' = (tied \/ (pending # <<>> /\ \E b \in {a} \cup ToSet(pending) : Ordered(b.type)))
  /\ UNCHANGED <<titled, closed, market>>

Buys(o, s, c) ==
  /\ winner = "none" /\ Happens([type |-> "BUY", outcome |-> o, size |-> s, amount |-> c])
  /\ wallet' = [wallet EXCEPT ![o] = @ + s] /\ cash' = cash - c /\ UNCHANGED <<winner, sold>>

Sells(o, s, c) ==
  /\ winner = "none" /\ s <= wallet[o]
  /\ Happens([type |-> "SELL", outcome |-> o, size |-> s, amount |-> c])
  /\ wallet' = [wallet EXCEPT ![o] = @ - s] /\ cash' = cash + c /\ sold' = sold \cup {o}
  /\ UNCHANGED winner

Splits(s) ==
  /\ winner = "none" /\ Happens([type |-> "SPLIT", outcome |-> "none", size |-> s, amount |-> s])
  /\ wallet' = [o \in Outcomes |-> wallet[o] + s] /\ cash' = cash - s /\ UNCHANGED <<winner, sold>>

Merges(s) ==
  /\ winner = "none" /\ \A o \in Outcomes : s <= wallet[o]
  /\ Happens([type |-> "MERGE", outcome |-> "none", size |-> s, amount |-> s])
  /\ wallet' = [o \in Outcomes |-> wallet[o] - s] /\ cash' = cash + s /\ UNCHANGED <<winner, sold>>

Resolves ==
  /\ winner = "none" /\ winner' \in Outcomes
  /\ UNCHANGED <<titled, wallet, cash, closed, pending, market, count, tied, sold>>

\* All shares at once; the size of the activity may be missing.
Redeems ==
  /\ winner # "none" /\ wallet # NoShares
  /\ \E size \in {0, wallet[winner]} :
       Happens([type |-> "REDEEM", outcome |-> "none", size |-> size, amount |-> wallet[winner]])
  /\ wallet' = NoShares /\ cash' = cash + wallet[winner] /\ UNCHANGED <<winner, sold>>

Rebates(c) ==
  /\ Happens([type |-> "MAKER_REBATE", outcome |-> "none", size |-> 0, amount |-> c])
  /\ cash' = cash + c /\ UNCHANGED <<wallet, winner, sold>>

\* One row of the newest second is next.
aggregate_markets ==
  /\ \E i \in DOMAIN pending : /\ market' = apply_activity(market, pending[i])
                               /\ pending' = RemoveAt(pending, i)
  /\ UNCHANGED <<titled, wallet, cash, winner, closed, count, tied, sold>>

apply_market_metadata ==
  /\ winner # "none" /\ ~closed /\ closed' = TRUE
  /\ UNCHANGED <<titled, wallet, cash, winner, pending, market, count, tied, sold>>

Next ==
  \/ \E o \in Outcomes, s \in Sizes, c \in Costs : Buys(o, s, c) \/ Sells(o, s, c)
  \/ \E s \in Sizes : Splits(s) \/ Merges(s)
  \/ Resolves \/ Redeems \/ \E c \in Costs : Rebates(c)
  \/ aggregate_markets \/ apply_market_metadata

Spec == Init /\ [][Next]_vars

----
Applied == pending = <<>>

\* The profit of the market is what the wallet got back less what it paid, whatever the order
\* of the rows.
TotalsAgree == Applied => pnl_with_rebate(market) = cash

\* The positions shown are those of the wallet, in a market that says up or down and whose rows
\* came in their order: after merges, a redemption without a size, and sales.
HoldingsAgree ==
  Applied /\ titled /\ ~tied =>
    \A o \in Outcomes : current_shares_for(market, o) = positive_position(wallet[o])

\* The result read off a redemption is the outcome that won, when no share of it was sold and
\* as many shares of the other outcome would be something else.
ResultIsWinner ==
  Applied /\ titled /\ ~tied /\ winner \notin sold /\ market.buy["up"] # market.buy["down"] =>
    /\ inferred_result(market) \in {"open", "settled", winner}
    /\ market.redeem_count > 0 => ~market.incomplete /\ inferred_result(market) # "open"
    /\ market.redeemed > 0 => inferred_result(market) = winner

\* Every market is counted by a summary: as settled, as unsettled, or as incomplete.
EveryMarketCounts ==
  Applied => is_reliable_settled(market) \/ is_open_market(market) \/ market.incomplete

\* While nothing was sold, merged or redeemed, the profit shown for an outcome is the one its
\* win would bring.
HypotheticalAgrees ==
  Applied /\ titled /\ market.recovery = 0 /\ market.redeem_count = 0 =>
    \A o \in Outcomes :
      hypothetical_pnl(market, o) = positive_position(wallet[o]) + cash - market.rebate

LedgerAgrees == /\ TotalsAgree /\ HoldingsAgree /\ ResultIsWinner
                /\ EveryMarketCounts /\ HypotheticalAgrees

\* A statement the code does not keep: the result of a market is the outcome that won.  Three
\* shares of the winner less two sold look like the single share of the loser.
ResultIsAlwaysWinner ==
  Applied /\ titled /\ ~tied => inferred_result(market) \in {"open", "settled", winner}
================================================================================
