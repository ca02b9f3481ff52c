--------------------------- MODULE MCAccountState ---------------------------
(***************************************************************************)
(* AccountState for TLC.  Orders and trades do not touch each other, so a    *)
(* behaviour has orders or trades, never both.                               *)
(***************************************************************************)
EXTENDS AccountState, TLC

VARIABLE scope    \* what the behaviour is about

\* Everything belongs to the first profile; the second is empty.
MCOwner == [x \in Orders \cup Trades |-> CHOOSE w \in Credentials : w = "w1"]

Symmetry == Permutations(Routes) \cup Permutations(Trades)

Busy == {r \in Routes : refresh[r] # Idle}

MCInit == Init /\ scope \in {"orders", "trades"}

\* Failures and requests at the same time only where a single route is left: with orders, two
\* requests without failures; with trades, a request without failures, or failures alone.
MCNext ==
  \/ /\ scope = "orders" /\ Next /\ UNCHANGED <<scope, traded>>
     /\ failures' = 0 \/ Cardinality(Routes) = 1
  \/ /\ scope = "trades" /\ Next /\ UNCHANGED <<scope, exch>>
     /\ \A r \in Routes : refresh'[r].target = {}
     /\ Cardinality(Busy') <= IF failures' = 0 \/ Cardinality(Routes) = 1 THEN 1 ELSE 0

MCSpec     == MCInit /\ [][MCNext]_<<vars, scope>>
MCFairSpec == MCSpec /\ Fairness
=============================================================================
