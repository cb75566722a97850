------------------------------ MODULE MCPaying ------------------------------
(***************************************************************************)
(* The three ways to pay, in one run: for one order, for a subscription    *)
(* and for a bulk booking. They share no variable; each behaviour is one   *)
(* of one part, the others' variables stay as they began. Deliveries may   *)
(* always be cut short: a calm forbids steps, and allows none.             *)
(***************************************************************************)
EXTENDS Payment, Subscription, Bulk, TLC

VARIABLE part

PayingInit ==
  /\ part \in {"payment", "subscription", "bulk"}
  /\ Init /\ SubscriptionInit /\ BulkInit
  /\ part # "payment" => world.in_order

PayingNext ==
  \/ /\ part = "payment" /\ Next /\ ~world'.calm
     /\ UNCHANGED <<part, subscriptionVars, bulkVars>>
  \/ /\ part = "subscription" /\ SubscriptionNext
     /\ UNCHANGED <<part, vars, bulkVars>>
  \/ /\ part = "bulk" /\ BulkNext
     /\ UNCHANGED <<part, vars, subscriptionVars>>

PayingSpec ==
  PayingInit /\ [][PayingNext]_<<part, vars, subscriptionVars, bulkVars>>

(* The requests of one kind differ only in name, and so do the prices of a *)
(* bulk booking.                                                           *)
PayingSymmetry ==
  Permutations(Attempts) \cup Permutations(Prices)
=============================================================================
