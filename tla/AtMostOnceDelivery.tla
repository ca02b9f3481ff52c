------------------------- MODULE AtMostOnceDelivery -------------------------
(***************************************************************************)
(* What the notification layer promises about one channel: a key is claimed *)
(* by a single delivery, which may repeat the call a bounded number of      *)
(* times; nothing arrives for a key that nobody claimed, that was skipped,  *)
(* or whose delivery has ended; and a key is confirmed only after something *)
(* arrived.                                                                 *)
(***************************************************************************)
EXTENDS Naturals

CONSTANTS Keys,       \* delivery keys
          Attempts    \* calls of one delivery

ConstantsOK == Attempts \in Nat \ {0}

VARIABLES status,     \* of each key
          received    \* messages that arrived for it

vars == <<status, received>>

Statuses == {"none", "claimed", "sent", "error", "skipped_disabled"}

Init == /\ status = [k \in Keys |-> "none"]
        /\ received = [k \in Keys |-> 0]

Moves(k, from, to) == /\ status[k] = from
                      /\ status' = [status EXCEPT ![k] = to]
                      /\ UNCHANGED received

Claim(k)   == Moves(k, "none", "claimed")
Refuse(k)  == Moves(k, "none", "error") \/ Moves(k, "none", "skipped_disabled")
Confirm(k) == received[k] > 0 /\ Moves(k, "claimed", "sent")
GiveUp(k)  == Moves(k, "claimed", "error")
\* A confirmation that is stored but whose caller saw a failure.
Revoke(k)  == Moves(k, "sent", "error")

Arrive(k) == /\ status[k] = "claimed"
             /\ received[k] < Attempts
             /\ received' = [received EXCEPT ![k] = @ + 1]
             /\ UNCHANGED status

Next == \E k \in Keys : Claim(k) \/ Refuse(k) \/ Confirm(k) \/ GiveUp(k) \/ Revoke(k) \/ Arrive(k)

Spec == Init /\ [][Next]_vars
=============================================================================
