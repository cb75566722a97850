------------------------------ MODULE Shipping ------------------------------
(***************************************************************************)
(* The forward shipment of one order: the shipment columns of its row in   *)
(* orders, the parcel at Delhivery, the admin's requests to create,        *)
(* reconcile, pick up, track and cancel the shipment, the admin's own      *)
(* steps of the order, and the tracking cron.                              *)
(*                                                                         *)
(* One action is one transaction with the call to Delhivery that it makes  *)
(* while it holds the row lock, or one autocommitted statement, or one     *)
(* call that is made without a lock.                                       *)
(***************************************************************************)
EXTENDS Naturals

CONSTANTS
  Admins,     \* requests to cancel the shipment that may overlap
  Schemas     \* is order_status_history's foreign key there?

ASSUME ShippingAssumption == Schemas \subseteq BOOLEAN

VARIABLES
  order_status,      \* columns of orders
  tracking_status,
  awb,               \* awb_number, or delhivery_response saying "duplicate"
  pickup_request_id,
  delivered_at,      \* how often it was written
  parcel,            \* its status at Delhivery
  past,              \* every status it has had there
  cron,              \* what the tracking cron has read of the row
  waiting,           \* what a tracking transaction that waits has read
  cancelling,        \* the cancellations that Delhivery has accepted
  foreign_key        \* orders' row is locked by an INSERT of its history

shipment == <<tracking_status, awb, pickup_request_id, delivered_at>>
delhivery == <<parcel, past>>

vars == <<order_status, shipment, delhivery, cron, waiting, cancelling,
          foreign_key>>

OrderStatus == {"paid", "processing", "ready_to_ship", "shipped",
                "out_for_delivery", "delivered", "cancelled", "returned"}

(* ORDER_STATUSES.indexOf *)
Index(status) ==
  CASE status = "paid"             -> 1
    [] status = "processing"       -> 2
    [] status = "ready_to_ship"    -> 3
    [] status = "shipped"          -> 4
    [] status = "out_for_delivery" -> 5
    [] status = "delivered"        -> 6
    [] status = "cancelled"        -> 7
    [] status = "returned"         -> 8

Terminal == {"delivered", "cancelled", "returned"}

NoText == "none"

(* "not picked" is what Delhivery says of a parcel that was cancelled      *)
(* before it was picked up; "picked up" stands for all of its journey.     *)
ParcelStatus == {"manifested", "not picked", "picked up", "out for delivery",
                 "delivered", "cancelled", "returned", "lost"}

Text == ParcelStatus \cup {"pickup scheduled", NoText}

Awb == {"none", "duplicate", "stored"}

DeliveredAt == {"null", "once", "again"}

Idle == [reading |-> FALSE, order_status |-> "paid", tracking_status |-> NoText]

Init ==
  /\ order_status = "processing"
  /\ tracking_status = NoText
  /\ awb = "none"
  /\ pickup_request_id = FALSE
  /\ delivered_at = "null"
  /\ parcel = NoText
  /\ past = {}
  /\ cron = Idle
  /\ waiting = NoText
  /\ cancelling = {}
  /\ foreign_key \in Schemas

-----------------------------------------------------------------------------
Mapped == {"picked up", "out for delivery", "delivered", "cancelled", "lost",
           "returned"}

(* Of a text in Mapped; the code has no status (null) for the others.      *)
mapTrackingStatusToOrderStatus(text) ==
  CASE text = "picked up"             -> "shipped"
    [] text = "out for delivery"      -> "out_for_delivery"
    [] text \in {"cancelled", "lost"} -> "cancelled"
    [] OTHER                          -> text

isCancelledShipment ==
  order_status = "cancelled" \/ tracking_status = "cancelled"

(* Fault: any other status will do.                                        *)
AnyOtherStatus(current, next) == current # next

isForwardOrderStatusTransition(current, next) ==
  /\ current \notin Terminal
  /\ next \in OrderStatus => Index(next) > Index(current)

(* Does reading text move an order on that was read as current with old?   *)
Transition(current, old, text) ==
  /\ text # old /\ text \in Mapped
  /\ isForwardOrderStatusTransition(current,
                                    mapTrackingStatusToOrderStatus(text))

(* The row is locked by a tracking transaction. *)
Locked == waiting # NoText

Stamp == IF delivered_at = "null" THEN "once" ELSE "again"

StampIf(delivered) ==
  delivered_at' = IF delivered THEN Stamp ELSE delivered_at

-----------------------------------------------------------------------------
(* The admin creates the shipment. *)

hasExistingShipmentState == awb # "none"

MayCreate ==
  ~Locked /\ ~hasExistingShipmentState /\ order_status = "ready_to_ship"

(* Delhivery accepts, and the transaction commits or is rolled back: the   *)
(* answer was lost, could not be parsed, or the process died.              *)
createShipment ==
  /\ MayCreate /\ parcel = NoText
  /\ parcel' = "manifested" /\ past' = {"manifested"}
  /\ \/ awb' = "stored" /\ tracking_status' = "manifested"
     \/ UNCHANGED <<awb, tracking_status>>
  /\ UNCHANGED <<order_status, pickup_request_id, delivered_at, cron, waiting,
                 cancelling, foreign_key>>

(* Delhivery has the order's reference already, and may name its waybill.  *)
CreateDuplicate ==
  /\ MayCreate /\ parcel # NoText
  /\ awb' \in {"stored", "duplicate"}
  /\ UNCHANGED <<order_status, tracking_status, pickup_request_id,
                 delivered_at, delhivery, cron, waiting, cancelling,
                 foreign_key>>

(* The admin knows the waybill from Delhivery. *)
reconcileShipment ==
  /\ ~Locked /\ parcel # NoText
  /\ awb' = "stored"
  /\ UNCHANGED <<order_status, tracking_status, pickup_request_id,
                 delivered_at, delhivery, cron, waiting, cancelling,
                 foreign_key>>

schedulePickup ==
  /\ ~Locked /\ awb = "stored" /\ ~pickup_request_id
  /\ order_status \in {"ready_to_ship", "shipped"}
  /\ pickup_request_id' = TRUE
  /\ tracking_status' = "pickup scheduled"
  /\ UNCHANGED <<order_status, awb, delivered_at, delhivery, cron, waiting,
                 cancelling, foreign_key>>

-----------------------------------------------------------------------------
(* trackShipment holds the row lock over its call to Delhivery, which may  *)
(* answer with any status the parcel has had. A status that moves the      *)
(* order on is updated, and then order_status_history is written on        *)
(* another connection before the transaction commits.                      *)

trackShipment(text) ==
  /\ ~Locked /\ awb = "stored" /\ text \in past
  /\ ~isCancelledShipment /\ text # tracking_status
  /\ IF Transition(order_status, tracking_status, text)
       THEN waiting' = text /\ UNCHANGED tracking_status
       ELSE tracking_status' = text /\ UNCHANGED waiting
  /\ UNCHANGED <<order_status, awb, pickup_request_id, delivered_at,
                 delhivery, cron, cancelling, foreign_key>>

(* Without the foreign key, the history is written and the order follows.  *)
TrackCommits ==
  /\ Locked /\ ~foreign_key
  /\ tracking_status' = waiting
  /\ order_status' = mapTrackingStatusToOrderStatus(waiting)
  /\ StampIf(order_status' = "delivered")
  /\ waiting' = NoText
  /\ UNCHANGED <<awb, pickup_request_id, delhivery, cron, cancelling,
                 foreign_key>>

(* With it, the INSERT waits for the row that the transaction has locked,  *)
(* until it times out and the transaction is rolled back.                  *)
TrackTimesOut ==
  /\ Locked /\ foreign_key
  /\ waiting' = NoText
  /\ UNCHANGED <<order_status, shipment, delhivery, cron, cancelling,
                 foreign_key>>

-----------------------------------------------------------------------------
(* cancelShipment reads and calls without a lock. *)

(* Delhivery cancels a parcel that waits, and turns one back that travels. *)
Recalled(status) == IF status \in {"manifested", "not picked"}
                      THEN "not picked" ELSE "returned"

CancelAccepted(a) ==
  /\ a \notin cancelling
  /\ awb = "stored" /\ tracking_status # "delivered" /\ ~isCancelledShipment
  /\ parcel \in {"manifested", "not picked", "picked up", "out for delivery"}
  /\ parcel' = Recalled(parcel) /\ past' = past \cup {parcel'}
  /\ cancelling' = cancelling \cup {a}
  /\ UNCHANGED <<order_status, shipment, cron, waiting, foreign_key>>

CancelWrites(a) ==
  /\ a \in cancelling /\ ~Locked
  /\ order_status' = "cancelled" /\ tracking_status' = "cancelled"
  /\ cancelling' = cancelling \ {a}
  /\ UNCHANGED <<awb, pickup_request_id, delivered_at, delhivery, cron,
                 waiting, foreign_key>>

(* The answer is lost, a statement throws or the process dies. *)
CancelDies(a) ==
  /\ a \in cancelling
  /\ cancelling' = cancelling \ {a}
  /\ UNCHANGED <<order_status, shipment, delhivery, cron, waiting,
                 foreign_key>>

-----------------------------------------------------------------------------
(* The admin moves the order itself. *)

DELHIVERY_LOCKED_STATUSES ==
  {"shipped", "out_for_delivery", "delivered", "returned", "cancelled"}

isValidOrderStepTransition(prev, next) ==
  \/ next = "cancelled" /\ prev # "delivered"
  \/ next = "returned" /\ prev \in {"delivered", "out_for_delivery"}
  \/ /\ next \notin {"cancelled", "returned"} /\ prev # "cancelled"
     /\ Index(next) \in {Index(prev), Index(prev) + 1}

updateOrderStatus(next) ==
  /\ ~Locked
  /\ next \in DELHIVERY_LOCKED_STATUSES => awb # "stored"
  /\ isValidOrderStepTransition(order_status, next)
  /\ order_status' = next
  /\ StampIf(next = "delivered" /\ order_status # "delivered")
  /\ UNCHANGED <<tracking_status, awb, pickup_request_id, delhivery, cron,
                 waiting, cancelling, foreign_key>>

(* Of a paid order without a refund. *)
cancelOrderAndRefund ==
  /\ ~Locked
  /\ order_status \in {"paid", "processing", "ready_to_ship"}
  /\ awb # "stored" \/ tracking_status = "cancelled"
  /\ order_status' = "cancelled"
  /\ UNCHANGED <<shipment, delhivery, cron, waiting, cancelling, foreign_key>>

-----------------------------------------------------------------------------
(* syncShippingTracking, one at a time. *)

(* Fault: an unknown status is no status to be tracked (NULL NOT IN ...).  *)
ActiveIfKnown == awb = "stored" /\ order_status # "cancelled"
                 /\ tracking_status \notin {"delivered", "cancelled",
                                            "returned", NoText}

ACTIVE_FORWARD_SHIPMENTS == awb = "stored" /\ order_status # "cancelled"
                            /\ tracking_status \notin
                                 {"delivered", "cancelled", "returned"}

CronSelects ==
  /\ ~cron.reading /\ ACTIVE_FORWARD_SHIPMENTS
  /\ cron' = [reading |-> TRUE, order_status |-> order_status,
              tracking_status |-> tracking_status]
  /\ UNCHANGED <<order_status, shipment, delhivery, waiting, cancelling,
                 foreign_key>>

(* Would text move the order on, as it was read? *)
CronTransition(text) ==
  Transition(cron.order_status, cron.tracking_status, text)

(* Fault: the cancellation is looked for in what was read.                 *)
NotCancelledWhenRead == cron.order_status # "cancelled"

NOT_CANCELLED_SHIPMENT_GUARD == ~isCancelledShipment

(* Fault: the column is guarded (a CASE), the text is not.                 *)
GuardTheColumn(text) == NOT_CANCELLED_SHIPMENT_GUARD

CronMayWrite(text) ==
  /\ NOT_CANCELLED_SHIPMENT_GUARD
  /\ CronTransition(text) => order_status = cron.order_status

(* Fault: delivered_at follows what Delhivery says.                        *)
CronStampsAlways(text) == text = "delivered"

CronStamps(text) == CronTransition(text) /\ text = "delivered"

(* The call to Delhivery and the guarded UPDATE. *)
CronWrites(text) ==
  /\ cron.reading /\ ~Locked /\ text \in past
  /\ IF CronMayWrite(text)
       THEN /\ tracking_status' = text
            /\ order_status' =
                 IF CronTransition(text) /\ order_status = cron.order_status
                   THEN mapTrackingStatusToOrderStatus(text)
                   ELSE order_status
            /\ StampIf(CronStamps(text))
       ELSE UNCHANGED <<order_status, tracking_status, delivered_at>>
  /\ cron' = Idle
  /\ UNCHANGED <<awb, pickup_request_id, delhivery, waiting, cancelling,
                 foreign_key>>

(* Delhivery cannot be reached, the answer cannot be parsed, ... *)
CronFails ==
  /\ cron.reading /\ cron' = Idle
  /\ UNCHANGED <<order_status, shipment, delhivery, waiting, cancelling,
                 foreign_key>>

-----------------------------------------------------------------------------
(* Delhivery. *)

Travels(from, to) ==
  \/ from = "manifested" /\ to \in {"picked up", "cancelled"}
  \/ from = "picked up" /\ to \in {"out for delivery", "returned", "lost"}
  \/ from = "out for delivery" /\ to \in {"picked up", "delivered", "returned"}

ParcelTravels(to) ==
  /\ Travels(parcel, to)
  /\ parcel' = to /\ past' = past \cup {to}
  /\ UNCHANGED <<order_status, shipment, cron, waiting, cancelling,
                 foreign_key>>

-----------------------------------------------------------------------------
Create == createShipment \/ CreateDuplicate \/ reconcileShipment

Track == \/ \E text \in Text : trackShipment(text)
         \/ TrackCommits \/ TrackTimesOut

Cancel(a) == CancelAccepted(a) \/ CancelWrites(a) \/ CancelDies(a)

Cron == CronSelects \/ (\E text \in Text : CronWrites(text)) \/ CronFails

Next == \/ Create
        \/ schedulePickup
        \/ Track
        \/ \E a \in Admins : Cancel(a)
        \/ \E next \in OrderStatus : updateOrderStatus(next)
        \/ cancelOrderAndRefund
        \/ Cron
        \/ \E to \in ParcelStatus : ParcelTravels(to)

Spec == Init /\ [][Next]_vars

(* The cron polls every half hour, and not for ever in vain: some day no   *)
(* tracking request holds the row and Delhivery answers with the parcel's  *)
(* present status. A tracking request ends. Nobody else need do anything.  *)
Fairness ==
  /\ SF_vars(CronSelects /\ ~Locked)
  /\ SF_vars(CronWrites(parcel))
  /\ WF_vars(TrackCommits \/ TrackTimesOut)

FairSpec == Spec /\ Fairness

-----------------------------------------------------------------------------
(* Properties. *)

(* Every variable has its type.                                            *)
TypeOK ==
  /\ order_status \in OrderStatus
  /\ tracking_status \in Text
  /\ awb \in Awb
  /\ pickup_request_id \in BOOLEAN
  /\ delivered_at \in DeliveredAt
  /\ parcel \in ParcelStatus \cup {NoText}
  /\ past \subseteq ParcelStatus
  /\ cron \in [reading : BOOLEAN, order_status : OrderStatus,
               tracking_status : Text]
  /\ waiting \in ParcelStatus \cup {NoText}
  /\ cancelling \subseteq Admins
  /\ foreign_key \in BOOLEAN

(* However late and in whatever order Delhivery's answers, the cron's, the *)
(* admins' and the tracking page's writes arrive, an order moves forward   *)
(* only, stays cancelled, and stays delivered once its parcel was.         *)
MovesForward ==
  [][/\ order_status \notin Terminal =>
          Index(order_status') >= Index(order_status)
     /\ order_status = "cancelled" => order_status' = "cancelled"
     /\ order_status = "delivered" /\ parcel = "delivered" =>
          order_status' \in {"delivered", "returned"}]_vars

(* What Delhivery says of a cancelled order's shipment is not written over *)
(* the cancellation (BREE-100019), not even by a cron that read the row    *)
(* before.                                                                 *)
CancelledIsQuiet ==
  [][order_status = "cancelled" =>
       tracking_status' \in {tracking_status, "cancelled"}]_vars

(* The tracking text never runs ahead of the order: the cron stops looking *)
(* at "delivered" and "returned", and a text that has not changed moves    *)
(* nothing, so an order left behind would stay behind.                     *)
OrderKeepsUp ==
  tracking_status \in Mapped =>
    \/ order_status \in Terminal
    \/ Index(order_status) >=
         Index(mapTrackingStatusToOrderStatus(tracking_status))

(* The 48 hours in which an order may be returned begin when it is         *)
(* delivered, and begin once.                                              *)
WindowOpensOnce ==
  /\ delivered_at # "again"
  /\ order_status = "delivered" => delivered_at = "once"

(* A delivery is noticed without anybody asking, also if the answer to     *)
(* createShipment was lost and the waybill learnt later.                   *)
DeliveryIsNoticed ==
  []<>(parcel = "delivered" /\ awb = "stored" => order_status \in Terminal)

(* "When tracking_status has changed, order_status is transitioned too":   *)
(* what a tracking request has read is where it leaves the order.          *)
TrackedIsApplied ==
  [][waiting # NoText /\ waiting' = NoText =>
       order_status' = mapTrackingStatusToOrderStatus(waiting)]_vars
=============================================================================
