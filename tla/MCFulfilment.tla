---------------------------- MODULE MCFulfilment ----------------------------
(***************************************************************************)
(* An order in one run: what it costs, and once it is paid its shipping,   *)
(* its return, and its package's further cycles. These share no variable;  *)
(* each behaviour is one of one part, the others' variables stay as they   *)
(* began.                                                                  *)
(***************************************************************************)
EXTENDS Shipping, Return, Package, Pricing

VARIABLE part

(* A product with a delivery charge, a free one, and one that costs less   *)
(* than a coupon.                                                          *)
Row(price, charge, free, reminder) ==
  [price |-> price, shipping_charge |-> charge, is_free_shipping |-> free,
   daily_reminder_price |-> reminder, daily_reminder_enabled |-> reminder > 0]

ThreeRows == {Row(49950, 4000, FALSE, 9900), Row(25003, 0, TRUE, 9920),
              Row(500, 4000, FALSE, 0)}

all == <<part, vars, returnVars, packageVars, pricingVars>>

Ships(A) == part = "shipping" /\ A /\
  UNCHANGED <<part, returnVars, packageVars, pricingVars>>

Returns(A) == part = "return" /\ A /\
  UNCHANGED <<part, vars, packageVars, pricingVars>>

Packs(A) == part = "package" /\ A /\
  UNCHANGED <<part, vars, returnVars, pricingVars>>

Prices(A) == part = "pricing" /\ A /\
  UNCHANGED <<part, vars, returnVars, packageVars>>

(* Prices and carts are many: where another part runs, they are of one kind. *)
PricedAlready ==
  /\ \A p \in Products : products[p] = Row(25003, 0, TRUE, 9920)
  /\ cart = [quantity |-> [p \in Products |-> 2], reminded |-> {}, promotion_code |-> "none"]

FulfilmentInit ==
  /\ part \in {"shipping", "return", "package", "pricing"}
  /\ Init /\ ReturnInit /\ PackageInit /\ PricingInit
  /\ part # "shipping" => ~foreign_key
  /\ part # "return" => ret = Delivered
  /\ part # "pricing" => PricedAlready

FulfilmentNext ==
  Ships(Next) \/ Returns(ReturnNext) \/ Packs(PackageNext) \/ Prices(PricingNext)

(* The fairness of the modules, each as long as its part runs. TLC         *)
(* takes one strong fairness much better than three of which at most one   *)
(* has anything to ask.                                                    *)
FulfilmentFairness ==
  /\ WF_all(Ships(TrackCommits \/ TrackTimesOut))
  /\ WF_all(Returns(\E t \in Trackers : BeginPass(t)))
  /\ WF_all(Returns(\E t \in Trackers : ApplyTransition(t) \/ NotifyReturned(t)))
  /\ WF_all(Packs(DayPasses))
  /\ WF_all(Packs(\E i \in Instances : FindMissingPackage(i)))
  /\ WF_all(Packs(\E i \in Instances : findDuePackageIds(i)))
  /\ SF_all(\/ Ships(CronSelects /\ ~Locked)
            \/ Returns(\E t \in Trackers : FetchReverseTracking(t))
            \/ Packs(\E i \in Instances : LookForPackage(i)))
  /\ SF_all(\/ Ships(CronWrites(parcel))
            \/ Returns(\E t \in Trackers : RecordObservation(t))
            \/ Packs(\E i \in Instances : createPackagePurchaseFromOrder(i)))
  /\ SF_all(Packs(\E i \in Instances : fulfillNextCycle(i)))

FulfilmentSpec == FulfilmentInit /\ [][FulfilmentNext]_all /\ FulfilmentFairness
=============================================================================
