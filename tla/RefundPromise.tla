--------------------------- MODULE RefundPromise ---------------------------
(***************************************************************************)
(* What a refund is to the customer, without requests, claims, webhooks or *)
(* crashes: it stays open until it is refunded or rejected for good; while *)
(* it is open money may be sent, bounce and be sent again, never twice at  *)
(* a time; it is refunded only with money on its way, and rejected only    *)
(* with none.                                                              *)
(***************************************************************************)
EXTENDS Naturals

VARIABLES
  outcome,  \* "open", then "refunded" or "rejected"
  moving    \* how many refunds Razorpay is making, or has made

vars == <<outcome, moving>>

Init == outcome = "open" /\ moving = 0

Send == /\ outcome = "open" /\ moving = 0
        /\ moving' = 1 /\ UNCHANGED outcome

Bounce == /\ outcome = "open" /\ moving = 1
          /\ moving' = 0 /\ UNCHANGED outcome

Refunded == /\ outcome = "open" /\ moving = 1
            /\ outcome' = "refunded" /\ UNCHANGED moving

Rejected == /\ outcome = "open" /\ moving = 0
            /\ outcome' = "rejected" /\ UNCHANGED moving

Next == Send \/ Bounce \/ Refunded \/ Rejected

Spec == Init /\ [][Next]_vars
=============================================================================
