--------------------------- MODULE ShippingProofs ---------------------------
(***************************************************************************)
(* Proofs about Shipping, for any number of overlapping cancellations and  *)
(* with or without the history's foreign key: its type invariant, that an  *)
(* order moves forward only, that a cancelled shipment is left alone, that *)
(* the order keeps up with its tracking text, and that it is delivered     *)
(* once.                                                                   *)
(***************************************************************************)
EXTENDS Shipping, TLAPS

-----------------------------------------------------------------------------
(* Lemmas about the order's statuses. *)

(* Status s is a status that an order may be in after it was in t. *)
Reached(s, t) ==
  s \in Terminal \/ (t \notin Terminal /\ Index(s) >= Index(t))

(* An order with status s has caught up with its tracking text. *)
CaughtUp(s, text) ==
  text \in Mapped => \/ s \in Terminal
                     \/ Index(s) >= Index(mapTrackingStatusToOrderStatus(text))

LEMMA IndexIsNat ==
  ASSUME NEW s \in OrderStatus
  PROVE  /\ Index(s) \in Nat
         /\ s \in Terminal <=> Index(s) >= 6
BY DEF OrderStatus, Index, Terminal

LEMMA MappedIsStatus ==
  ASSUME NEW text \in Mapped
  PROVE  mapTrackingStatusToOrderStatus(text) \in OrderStatus
BY DEF Mapped, OrderStatus, mapTrackingStatusToOrderStatus

LEMMA TextsOfParcels ==
  /\ Mapped \subseteq Text
  /\ ParcelStatus \subseteq Text
  /\ NoText \in Text /\ NoText \notin ParcelStatus
BY DEF Mapped, Text, ParcelStatus, NoText

(* An order that moves on stays caught up with whatever it had reached. *)
LEMMA ReachedCatchesUp ==
  ASSUME NEW s \in OrderStatus, NEW t \in OrderStatus, NEW text \in Text,
         Reached(s, t), CaughtUp(t, text)
  PROVE  CaughtUp(s, text)
<1> SUFFICES ASSUME text \in Mapped, s \notin Terminal
             PROVE  Index(s) >= Index(mapTrackingStatusToOrderStatus(text))
  BY DEF CaughtUp
<1>1. t \notin Terminal /\ Index(s) >= Index(t)
  BY DEF Reached
<1>2. Index(t) >= Index(mapTrackingStatusToOrderStatus(text))
  BY <1>1 DEF CaughtUp
<1> QED
  BY <1>1, <1>2, IndexIsNat, MappedIsStatus

LEMMA ReachedFurther ==
  ASSUME NEW r \in OrderStatus, NEW s \in OrderStatus, NEW t \in OrderStatus,
         Reached(r, s), Reached(s, t)
  PROVE  Reached(r, t)
BY IndexIsNat DEF Reached

(* What Transition says of a reading. *)
LEMMA TransitionMovesOn ==
  ASSUME NEW s \in OrderStatus, NEW old, NEW text \in Text,
         Transition(s, old, text)
  PROVE  /\ s \notin Terminal /\ text \in Mapped
         /\ Index(mapTrackingStatusToOrderStatus(text)) > Index(s)
         /\ Reached(mapTrackingStatusToOrderStatus(text), s)
<1>1. /\ s \notin Terminal /\ text \in Mapped
      /\ Index(mapTrackingStatusToOrderStatus(text)) > Index(s)
  BY MappedIsStatus DEF Transition, isForwardOrderStatusTransition
<1> QED
  BY <1>1, IndexIsNat, MappedIsStatus DEF Reached

(* A reading that moves nothing says nothing new. *)
LEMMA NoTransitionCaughtUp ==
  ASSUME NEW s \in OrderStatus, NEW old \in Text, NEW text \in Text,
         CaughtUp(s, old), ~Transition(s, old, text)
  PROVE  CaughtUp(s, text)
<1> SUFFICES ASSUME text \in Mapped, s \notin Terminal
             PROVE  Index(s) >= Index(mapTrackingStatusToOrderStatus(text))
  BY DEF CaughtUp
<1>1. CASE text = old
  BY <1>1 DEF CaughtUp
<1>2. CASE text # old
  <2>1. ~(Index(mapTrackingStatusToOrderStatus(text)) > Index(s))
    BY <1>2, MappedIsStatus DEF Transition, isForwardOrderStatusTransition
  <2> QED
    BY <2>1, MappedIsStatus, IndexIsNat
<1> QED
  BY <1>1, <1>2

-----------------------------------------------------------------------------
(* The inductive invariant. *)

(* What the cron has read is the past of the row: the order has moved on   *)
(* from there, and had caught up with its text then.                       *)
CronRemembers ==
  cron.reading => /\ Reached(order_status, cron.order_status)
                  /\ CaughtUp(cron.order_status, cron.tracking_status)

(* A tracking transaction that waits holds the row as it read it.          *)
WaitingMovesOn ==
  Locked => Transition(order_status, tracking_status, waiting)

(* Delhivery delivers no parcel whose cancellation it has accepted.        *)
RecalledIsNotDelivered ==
  cancelling # {} => parcel \in {"not picked", "returned"}

(* delivered_at is written when the order becomes delivered, and no order  *)
(* becomes delivered twice.                                                *)
StampedIsOver ==
  /\ WindowOpensOnce
  /\ delivered_at = "once" => order_status \in Terminal

Safe == /\ TypeOK
        /\ CaughtUp(order_status, tracking_status)
        /\ CronRemembers
        /\ WaitingMovesOn
        /\ RecalledIsNotDelivered
        /\ StampedIsOver

(* What a step may do to the order, its text and delivered_at.             *)
OrderStep ==
  /\ Reached(order_status', order_status)
  /\ order_status = "cancelled" => order_status' = "cancelled"
  /\ order_status = "delivered" /\ parcel = "delivered" =>
       order_status' \in {"delivered", "returned"}
  /\ order_status = "cancelled" =>
       tracking_status' \in {tracking_status, "cancelled"}
  /\ CaughtUp(order_status', tracking_status')
  /\ StampedIsOver'

LEMMA ReachedSelf ==
  ASSUME NEW s \in OrderStatus
  PROVE  Reached(s, s)
BY IndexIsNat DEF Reached

(* A step that leaves the order and delivered_at alone and writes no text  *)
(* that the order is behind.                                               *)
LEMMA TextOnly ==
  ASSUME Safe, UNCHANGED <<order_status, delivered_at>>,
         CaughtUp(order_status, tracking_status'),
         order_status = "cancelled" => tracking_status' = tracking_status
  PROVE  OrderStep
BY ReachedSelf DEF Safe, TypeOK, OrderStep, StampedIsOver, WindowOpensOnce,
   CaughtUp

(* Of a reading that moves the order on.                                   *)
LEMMA MovedOn ==
  ASSUME Safe, NEW old \in Text, NEW text \in Text,
         Transition(order_status, old, text),
         order_status' = mapTrackingStatusToOrderStatus(text),
         tracking_status' = text,
         StampIf(text = "delivered")
  PROVE  OrderStep
<1> USE DEF Safe, TypeOK
<1>1. /\ order_status \notin Terminal /\ text \in Mapped
      /\ Index(mapTrackingStatusToOrderStatus(text)) > Index(order_status)
      /\ Reached(mapTrackingStatusToOrderStatus(text), order_status)
  BY TransitionMovesOn
<1>2. order_status \notin {"cancelled", "delivered"}
  BY <1>1 DEF Terminal
<1>3. CaughtUp(order_status', tracking_status')
  <2>1. order_status' \in OrderStatus
    BY <1>1, MappedIsStatus
  <2> QED
    BY <2>1, <1>1, IndexIsNat DEF CaughtUp
<1>4. delivered_at = "null"
  BY <1>1 DEF StampedIsOver, WindowOpensOnce, DeliveredAt
<1>5. mapTrackingStatusToOrderStatus(text) = "delivered" <=> text = "delivered"
  BY <1>1 DEF Mapped, mapTrackingStatusToOrderStatus
<1>6. StampedIsOver'
  BY <1>4, <1>5 DEF StampIf, Stamp, StampedIsOver, WindowOpensOnce, Terminal
<1> QED
  BY <1>1, <1>2, <1>3, <1>6 DEF OrderStep

-----------------------------------------------------------------------------
(* Every step of every part is an OrderStep. *)

LEMMA AdminMovesForward ==
  ASSUME Safe, NEW next \in OrderStatus, updateOrderStatus(next)
  PROVE  OrderStep
<1> USE DEF Safe, TypeOK
<1>1. order_status' = next /\ tracking_status' = tracking_status
  BY DEF updateOrderStatus
<1>2. \/ next = "cancelled" /\ order_status # "delivered"
      \/ next = "returned" /\ order_status \in {"delivered", "out_for_delivery"}
      \/ /\ next \notin {"cancelled", "returned"} /\ order_status # "cancelled"
         /\ \/ Index(next) = Index(order_status)
            \/ Index(next) = Index(order_status) + 1
  BY DEF updateOrderStatus, isValidOrderStepTransition
<1>3. order_status = "cancelled" => next = "cancelled"
  BY <1>2
<1>4. order_status = "delivered" => next \in {"delivered", "returned"}
  <2> SUFFICES ASSUME order_status = "delivered",
                      next \notin {"cancelled", "returned"}
               PROVE  next = "delivered"
    BY <1>2
  <2>1. Index(next) \in {Index("delivered"), Index("delivered") + 1}
    BY <1>2
  <2>2. Index("delivered") = 6
    BY DEF Index
  <2>3. Index(next) >= 6
    BY <2>1, <2>2
  <2> QED
    BY <2>3, IndexIsNat DEF Terminal
<1>5. Reached(next, order_status)
  BY <1>2, <1>3, <1>4, IndexIsNat DEF Reached, Terminal
<1>6. CaughtUp(next, tracking_status)
  BY <1>5, ReachedCatchesUp
<1>7. order_status \in Terminal => next \in Terminal
  BY <1>5 DEF Reached
<1>8. next = "delivered" /\ order_status # "delivered" =>
        order_status \notin Terminal
  BY <1>2 DEF Index, Terminal, OrderStatus
<1>9. StampedIsOver'
  <2>1. StampIf(next = "delivered" /\ order_status # "delivered")
    BY DEF updateOrderStatus
  <2>2. next = "delivered" => next \in Terminal
    BY DEF Terminal
  <2> QED
    BY <1>1, <1>7, <1>8, <2>1, <2>2
    DEF StampIf, Stamp, StampedIsOver, WindowOpensOnce, DeliveredAt
<1> QED
  BY <1>1, <1>3, <1>4, <1>5, <1>6, <1>9 DEF OrderStep

LEMMA CancelsForward ==
  ASSUME Safe,
         \/ cancelOrderAndRefund
         \/ \E a \in Admins : CancelWrites(a)
  PROVE  OrderStep
<1> USE DEF Safe, TypeOK
<1>1. /\ order_status' = "cancelled" /\ delivered_at' = delivered_at
      /\ tracking_status' \in {tracking_status, "cancelled"}
  BY DEF cancelOrderAndRefund, CancelWrites, shipment
<1>2. ~(order_status = "delivered" /\ parcel = "delivered")
  BY DEF cancelOrderAndRefund, CancelWrites, RecalledIsNotDelivered
<1>3. "cancelled" \in Terminal /\ "cancelled" # "delivered"
  BY DEF Terminal
<1> QED
  BY <1>1, <1>2, <1>3
  DEF OrderStep, Reached, CaughtUp, StampedIsOver, WindowOpensOnce

LEMMA CronMovesForward ==
  ASSUME Safe, NEW text \in Text, CronWrites(text)
  PROVE  OrderStep
<1> USE DEF Safe, TypeOK
<1>1. CASE ~CronMayWrite(text)
  <2>1. UNCHANGED <<order_status, tracking_status, delivered_at>>
    BY <1>1 DEF CronWrites
  <2> QED
    BY <2>1, TextOnly
<1>2. CASE CronMayWrite(text) /\ CronTransition(text)
  <2>1. order_status = cron.order_status
    BY <1>2 DEF CronMayWrite
  <2>2. /\ tracking_status' = text
        /\ order_status' = mapTrackingStatusToOrderStatus(text)
        /\ StampIf(text = "delivered")
    BY <1>2, <2>1 DEF CronWrites, CronStamps, StampIf
  <2>3. Transition(order_status, cron.tracking_status, text)
    BY <1>2, <2>1 DEF CronTransition
  <2> QED
    BY <2>2, <2>3, MovedOn
<1>3. CASE CronMayWrite(text) /\ ~CronTransition(text)
  <2>1. /\ tracking_status' = text
        /\ UNCHANGED <<order_status, delivered_at>>
    BY <1>3 DEF CronWrites, CronStamps, StampIf
  <2>2. CaughtUp(cron.order_status, text)
    BY <1>3, NoTransitionCaughtUp DEF CronTransition, CronWrites, CronRemembers
  <2>3. CaughtUp(order_status, text)
    BY <2>2, ReachedCatchesUp DEF CronWrites, CronRemembers
  <2>4. order_status # "cancelled"
    BY <1>3 DEF CronMayWrite, NOT_CANCELLED_SHIPMENT_GUARD, isCancelledShipment
  <2> QED
    BY <2>1, <2>3, <2>4, TextOnly
<1> QED
  BY <1>1, <1>2, <1>3

LEMMA TrackMovesForward ==
  ASSUME Safe, Track
  PROVE  OrderStep
<1> USE DEF Safe, TypeOK
<1>1. CASE \E text \in Text : trackShipment(text)
  <2>1. PICK text \in Text : trackShipment(text)
    BY <1>1
  <2>2. /\ UNCHANGED <<order_status, delivered_at>>
        /\ order_status # "cancelled"
    BY <2>1 DEF trackShipment, isCancelledShipment
  <2>3. \/ tracking_status' = tracking_status
        \/ /\ ~Transition(order_status, tracking_status, text)
           /\ tracking_status' = text
    BY <2>1 DEF trackShipment
  <2>4. CaughtUp(order_status, tracking_status')
    BY <2>3, NoTransitionCaughtUp
  <2> QED
    BY <2>2, <2>4, TextOnly
<1>2. CASE TrackCommits
  <2>1. Transition(order_status, tracking_status, waiting)
    BY <1>2 DEF TrackCommits, WaitingMovesOn
  <2>2. /\ tracking_status' = waiting
        /\ order_status' = mapTrackingStatusToOrderStatus(waiting)
        /\ waiting \in Text
    BY <1>2, TextsOfParcels DEF TrackCommits
  <2>3. (order_status' = "delivered") = (waiting = "delivered")
    BY <2>1, <2>2
    DEF Transition, Mapped, mapTrackingStatusToOrderStatus
  <2>4. StampIf(waiting = "delivered")
    BY <1>2, <2>3 DEF TrackCommits, StampIf
  <2> QED
    BY <2>1, <2>2, <2>4, MovedOn
<1>3. CASE TrackTimesOut
  BY <1>3, TextOnly DEF TrackTimesOut, shipment
<1> QED
  BY <1>1, <1>2, <1>3 DEF Track

LEMMA OrderSteps ==
  ASSUME Safe, [Next]_vars
  PROVE  OrderStep
<1> USE DEF Safe, TypeOK
<1>1. CASE Create
  <2>1. /\ UNCHANGED <<order_status, delivered_at>>
        /\ tracking_status' \in {tracking_status, "manifested"}
        /\ tracking_status' # tracking_status => order_status = "ready_to_ship"
    BY <1>1 DEF Create, createShipment, CreateDuplicate, reconcileShipment,
       MayCreate
  <2>2. CaughtUp(order_status, tracking_status')
    BY <2>1 DEF CaughtUp, Mapped
  <2> QED
    BY <2>1, <2>2, TextOnly
<1>2. CASE schedulePickup
  <2>1. /\ UNCHANGED <<order_status, delivered_at>>
        /\ tracking_status' = "pickup scheduled"
        /\ order_status \in {"ready_to_ship", "shipped"}
    BY <1>2 DEF schedulePickup
  <2>2. CaughtUp(order_status, tracking_status')
    BY <2>1 DEF CaughtUp, Mapped
  <2> QED
    BY <2>1, <2>2, TextOnly
<1>3. CASE Track
  BY <1>3, TrackMovesForward
<1>4. CASE \E a \in Admins : Cancel(a)
  <2>1. CASE \E a \in Admins : CancelWrites(a)
    BY <2>1, CancelsForward
  <2>2. CASE \E a \in Admins : CancelAccepted(a) \/ CancelDies(a)
    BY <2>2, TextOnly DEF CancelAccepted, CancelDies, shipment
  <2> QED
    BY <1>4, <2>1, <2>2 DEF Cancel
<1>5. CASE \E next \in OrderStatus : updateOrderStatus(next)
  BY <1>5, AdminMovesForward
<1>6. CASE cancelOrderAndRefund
  BY <1>6, CancelsForward
<1>7. CASE Cron
  <2>1. CASE \E text \in Text : CronWrites(text)
    BY <2>1, CronMovesForward
  <2>2. CASE CronSelects \/ CronFails
    BY <2>2, TextOnly DEF CronSelects, CronFails, shipment
  <2> QED
    BY <1>7, <2>1, <2>2 DEF Cron
<1>8. CASE \E to \in ParcelStatus : ParcelTravels(to)
  BY <1>8, TextOnly DEF ParcelTravels, shipment
<1>9. CASE UNCHANGED vars
  BY <1>9, TextOnly DEF vars, shipment
<1> QED
  BY <1>1, <1>2, <1>3, <1>4, <1>5, <1>6, <1>7, <1>8, <1>9 DEF Next

-----------------------------------------------------------------------------
(* The invariant is inductive. *)

LEMMA TypeStep ==
  ASSUME Safe, [Next]_vars
  PROVE  TypeOK'
<1> USE DEF Safe, TypeOK
<1>1. CASE Create
  <2>1. "manifested" \in ParcelStatus /\ "manifested" \in Text
        /\ "stored" \in Awb /\ "duplicate" \in Awb
    BY DEF ParcelStatus, Text, Awb
  <2>2. CASE createShipment
    BY <2>1, <2>2 DEF createShipment
  <2>3. CASE CreateDuplicate
    BY <2>1, <2>3 DEF CreateDuplicate, delhivery
  <2>4. CASE reconcileShipment
    BY <2>1, <2>4 DEF reconcileShipment, delhivery
  <2> QED
    BY <1>1, <2>2, <2>3, <2>4 DEF Create
<1>2. CASE schedulePickup
  BY <1>2 DEF schedulePickup, delhivery, Text
<1>3. CASE Track
  <2>1. CASE \E text \in Text : trackShipment(text)
    BY <1>3, <2>1 DEF trackShipment, delhivery
  <2>2. CASE TrackCommits
    <3>1. order_status' \in OrderStatus
      BY <2>2, MappedIsStatus DEF TrackCommits, WaitingMovesOn, Transition
    <3>2. delivered_at' \in DeliveredAt
      BY <2>2 DEF TrackCommits, StampIf, Stamp, DeliveredAt
    <3> QED
      BY <2>2, <3>1, <3>2, TextsOfParcels DEF TrackCommits, delhivery
  <2>3. CASE TrackTimesOut
    BY <2>3 DEF TrackTimesOut, shipment, delhivery
  <2> QED
    BY <1>3, <2>1, <2>2, <2>3 DEF Track
<1>4. CASE \E a \in Admins : Cancel(a)
  <2>1. Recalled(parcel) \in ParcelStatus
    BY DEF Recalled, ParcelStatus
  <2>2. CASE \E a \in Admins : CancelAccepted(a)
    BY <2>1, <2>2 DEF CancelAccepted, shipment
  <2>3. CASE \E a \in Admins : CancelWrites(a)
    <3>1. "cancelled" \in OrderStatus /\ "cancelled" \in Text
      BY DEF OrderStatus, Text, ParcelStatus
    <3> QED
      BY <2>3, <3>1 DEF CancelWrites, delhivery
  <2>4. CASE \E a \in Admins : CancelDies(a)
    BY <2>4 DEF CancelDies, shipment, delhivery
  <2> QED
    BY <1>4, <2>2, <2>3, <2>4 DEF Cancel
<1>5. CASE \E next \in OrderStatus : updateOrderStatus(next)
  BY <1>5 DEF updateOrderStatus, StampIf, Stamp, DeliveredAt, delhivery
<1>6. CASE cancelOrderAndRefund
  BY <1>6 DEF cancelOrderAndRefund, shipment, delhivery, OrderStatus
<1>7. CASE Cron
  <2>1. Idle \in [reading : BOOLEAN, order_status : OrderStatus,
                  tracking_status : Text]
    BY TextsOfParcels DEF Idle, OrderStatus
  <2>2. CASE CronSelects \/ CronFails
    <3>1. CASE CronSelects
      <4>1. cron' \in [reading : BOOLEAN, order_status : OrderStatus,
                       tracking_status : Text]
        BY <3>1 DEF CronSelects
      <4> QED
        BY <3>1, <4>1 DEF CronSelects, shipment, delhivery
    <3>2. CASE CronFails
      BY <2>1, <3>2 DEF CronFails, shipment, delhivery
    <3> QED
      BY <2>2, <3>1, <3>2
  <2>3. ASSUME NEW text \in Text, CronWrites(text)
        PROVE  TypeOK'
    <3>1. order_status' \in OrderStatus
      BY <2>3, MappedIsStatus DEF CronWrites, CronTransition, Transition
    <3>2. delivered_at' \in DeliveredAt
      BY <2>3 DEF CronWrites, StampIf, Stamp, DeliveredAt
    <3> QED
      BY <2>1, <2>3, <3>1, <3>2 DEF CronWrites, delhivery
  <2> QED
    BY <1>7, <2>2, <2>3 DEF Cron
<1>8. CASE \E to \in ParcelStatus : ParcelTravels(to)
  BY <1>8 DEF ParcelTravels, shipment
<1>9. CASE UNCHANGED vars
  BY <1>9 DEF vars, shipment, delhivery
<1> QED
  BY <1>1, <1>2, <1>3, <1>4, <1>5, <1>6, <1>7, <1>8, <1>9 DEF Next

LEMMA CronStep ==
  ASSUME Safe, TypeOK', OrderStep, [Next]_vars
  PROVE  CronRemembers'
<1> USE DEF Safe, TypeOK
<1>1. CASE CronSelects
  BY <1>1, ReachedSelf DEF CronSelects, CronRemembers
<1>2. CASE cron' = Idle
  BY <1>2 DEF CronRemembers, Idle
<1>3. CASE cron' = cron
  <2> SUFFICES ASSUME cron.reading
               PROVE  Reached(order_status', cron.order_status)
    BY <1>3 DEF CronRemembers
  <2> QED
    BY ReachedFurther DEF CronRemembers, OrderStep
<1>4. CronSelects \/ cron' = Idle \/ cron' = cron
  BY DEF Next, Create, createShipment, CreateDuplicate, reconcileShipment,
     schedulePickup, Track, trackShipment, TrackCommits, TrackTimesOut,
     Cancel, CancelAccepted, CancelWrites, CancelDies, updateOrderStatus,
     cancelOrderAndRefund, Cron, CronWrites, CronFails, ParcelTravels, vars
<1> QED
  BY <1>1, <1>2, <1>3, <1>4

LEMMA WaitingStep ==
  ASSUME Safe, [Next]_vars
  PROVE  WaitingMovesOn'
<1> USE DEF Safe, TypeOK
<1>1. CASE \E text \in Text : trackShipment(text)
  BY <1>1 DEF trackShipment, WaitingMovesOn, Locked
<1>2. CASE waiting' = NoText
  BY <1>2 DEF WaitingMovesOn, Locked
<1>3. CASE UNCHANGED <<order_status, tracking_status, waiting>>
  BY <1>3 DEF WaitingMovesOn, Locked
<1>4. \/ \E text \in Text : trackShipment(text)
      \/ waiting' = NoText
      \/ UNCHANGED <<order_status, tracking_status, waiting>>
  BY DEF Next, Create, createShipment, CreateDuplicate, reconcileShipment,
     MayCreate, schedulePickup, Track, TrackCommits, TrackTimesOut, Cancel,
     CancelAccepted, CancelWrites, CancelDies, updateOrderStatus,
     cancelOrderAndRefund, Cron, CronSelects, CronWrites, CronFails,
     ParcelTravels, vars, shipment, Locked
<1> QED
  BY <1>1, <1>2, <1>3, <1>4

LEMMA RecallStep ==
  ASSUME Safe, [Next]_vars
  PROVE  RecalledIsNotDelivered'
<1> USE DEF Safe, TypeOK, RecalledIsNotDelivered
<1>1. CASE \E a \in Admins : CancelAccepted(a)
  BY <1>1 DEF CancelAccepted, Recalled
<1>2. CASE createShipment
  BY <1>2 DEF createShipment, NoText
<1>3. CASE \E to \in ParcelStatus : ParcelTravels(to)
  BY <1>3 DEF ParcelTravels, Travels
<1>4. CASE cancelling' \subseteq cancelling /\ parcel' = parcel
  BY <1>4
<1>5. \/ \E a \in Admins : CancelAccepted(a)
      \/ createShipment
      \/ \E to \in ParcelStatus : ParcelTravels(to)
      \/ cancelling' \subseteq cancelling /\ parcel' = parcel
  BY DEF Next, Create, CreateDuplicate, reconcileShipment, schedulePickup,
     Track, trackShipment, TrackCommits, TrackTimesOut, Cancel, CancelWrites,
     CancelDies, updateOrderStatus, cancelOrderAndRefund, Cron, CronSelects,
     CronWrites, CronFails, vars, delhivery
<1> QED
  BY <1>1, <1>2, <1>3, <1>4, <1>5

LEMMA SafeSteps ==
  ASSUME Safe, [Next]_vars
  PROVE  Safe' /\ OrderStep
<1>1. OrderStep
  BY OrderSteps
<1>2. TypeOK'
  BY TypeStep
<1>3. CronRemembers' /\ WaitingMovesOn' /\ RecalledIsNotDelivered'
  BY <1>1, <1>2, CronStep, WaitingStep, RecallStep
<1> QED
  BY <1>1, <1>2, <1>3 DEF Safe, OrderStep, CaughtUp

LEMMA SafeInit ==
  ASSUME Init
  PROVE  Safe
<1>1. TypeOK
  BY ShippingAssumption, TextsOfParcels
  DEF Init, TypeOK, OrderStatus, Awb, DeliveredAt, Idle
<1> QED
  BY <1>1 DEF Init, Safe, CaughtUp, Mapped, NoText, CronRemembers, Idle,
     WaitingMovesOn, Locked, RecalledIsNotDelivered, StampedIsOver,
     WindowOpensOnce

THEOREM AlwaysSafe == Spec => []Safe
<1>1. Safe /\ [Next]_vars => Safe'
  BY SafeSteps
<1> QED
  BY <1>1, SafeInit, PTL DEF Spec

-----------------------------------------------------------------------------
(* Theorems. *)

(* Every reachable state is well typed.                                    *)
THEOREM TypeCorrect == Spec => []TypeOK
<1>1. Safe => TypeOK
  BY DEF Safe
<1> QED
  BY <1>1, AlwaysSafe, PTL

(* The tracking text never runs ahead of the order, so that no shipment    *)
(* drops out of the cron's sight before its order is settled.              *)
THEOREM OrderIsCaughtUp == Spec => []OrderKeepsUp
<1>1. Safe => OrderKeepsUp
  BY DEF Safe, OrderKeepsUp, CaughtUp
<1> QED
  BY <1>1, AlwaysSafe, PTL

(* delivered_at is written once, when the order becomes delivered.         *)
THEOREM DeliveredOnce == Spec => []WindowOpensOnce
<1>1. Safe => WindowOpensOnce
  BY DEF Safe, StampedIsOver
<1> QED
  BY <1>1, AlwaysSafe, PTL

(* No late, stale or repeated write moves an order back.                   *)
THEOREM OrdersMoveForward == Spec => MovesForward
<1> DEFINE Forward ==
      /\ order_status \notin Terminal =>
           Index(order_status') >= Index(order_status)
      /\ order_status = "cancelled" => order_status' = "cancelled"
      /\ order_status = "delivered" /\ parcel = "delivered" =>
           order_status' \in {"delivered", "returned"}
<1>1. Safe /\ Safe' /\ [Next]_vars => [Forward]_vars
  <2> SUFFICES ASSUME Safe, Safe', [Next]_vars, order_status \notin Terminal
               PROVE  Index(order_status') >= Index(order_status)
    BY OrderSteps DEF OrderStep
  <2>1. Reached(order_status', order_status)
    BY OrderSteps DEF OrderStep
  <2> QED
    BY <2>1, IndexIsNat DEF Reached, Safe, TypeOK
<1>2. [][Forward]_vars => MovesForward
  BY PTL DEF MovesForward
<1> QED
  BY <1>1, <1>2, AlwaysSafe, PTL DEF Spec

(* No reading of Delhivery is written over a cancellation.                 *)
THEOREM CancelledStaysQuiet == Spec => CancelledIsQuiet
<1>1. Safe /\ [Next]_vars =>
        [order_status = "cancelled" =>
           tracking_status' \in {tracking_status, "cancelled"}]_vars
  BY OrderSteps DEF OrderStep
<1> QED
  BY <1>1, AlwaysSafe, PTL DEF Spec, CancelledIsQuiet

-----------------------------------------------------------------------------
(* A delivery can be noticed.                                              *)
(*                                                                         *)
(* What DeliveryIsNoticed promises some day rests on this: as long as the  *)
(* order of a delivered parcel is not settled, the cron still selects it,  *)
(* Delhivery answers with "delivered", and that answer still moves the     *)
(* order; and a round of the cron that is not overtaken settles it.        *)

Unnoticed == parcel = "delivered" /\ awb = "stored" /\ order_status \notin Terminal

DeliveryIsNoticeable ==
  Unnoticed => /\ ACTIVE_FORWARD_SHIPMENTS
               /\ parcel \in past
               /\ Transition(order_status, tracking_status, parcel)

(* The parcel's present status is one of those that it has had; a delivery *)
(* is final; and what the cron has read was to be tracked.                 *)
ParcelIsPast ==
  /\ parcel # NoText => parcel \in past
  /\ cron.reading => cron.tracking_status # "delivered"

NoticeInv == Safe /\ ParcelIsPast

RoundSettles ==
  [][Unnoticed /\ CronWrites(parcel) /\ order_status = cron.order_status =>
       order_status' = "delivered" /\ delivered_at' = "once"]_vars

LEMMA ParcelSteps ==
  ASSUME NoticeInv, [Next]_vars
  PROVE  /\ ParcelIsPast'
         /\ parcel = "delivered" => parcel' = "delivered"
<1> USE DEF ParcelIsPast, NoticeInv
<1>1. \/ parcel' \in past' /\ UNCHANGED cron
      \/ UNCHANGED <<delhivery, cron>>
      \/ CronSelects \/ (cron' = Idle /\ UNCHANGED delhivery)
  BY DEF Next, Create, createShipment, CreateDuplicate, reconcileShipment,
     schedulePickup, Track, trackShipment, TrackCommits, TrackTimesOut,
     Cancel, CancelAccepted, CancelWrites, CancelDies, updateOrderStatus,
     cancelOrderAndRefund, Cron, CronWrites, CronFails, ParcelTravels, vars
<1>2. ParcelIsPast'
  BY <1>1 DEF CronSelects, ACTIVE_FORWARD_SHIPMENTS, Idle, delhivery
<1>3. parcel = "delivered" => parcel' = "delivered"
  BY DEF Next, Create, createShipment, CreateDuplicate, reconcileShipment,
     schedulePickup, Track, trackShipment, TrackCommits, TrackTimesOut,
     Cancel, CancelAccepted, CancelWrites, CancelDies, updateOrderStatus,
     cancelOrderAndRefund, Cron, CronSelects, CronWrites, CronFails,
     ParcelTravels, Travels, NoText, vars, delhivery
<1> QED
  BY <1>2, <1>3

LEMMA NoticeCorrect == Spec => []NoticeInv
<1>1. Init => ParcelIsPast
  BY DEF Init, ParcelIsPast, Idle
<1>2. NoticeInv /\ [Next]_vars => NoticeInv'
  BY ParcelSteps, SafeSteps DEF NoticeInv
<1> QED
  BY <1>1, <1>2, SafeInit, PTL DEF Spec, NoticeInv

(* An order that is not settled has no text that says its parcel is.       *)
LEMMA UnnoticedIsOpen ==
  ASSUME Safe, order_status \notin Terminal
  PROVE  tracking_status \notin {"delivered", "cancelled", "returned"}
<1> USE DEF Safe, TypeOK
<1>1. SUFFICES ASSUME tracking_status \in {"delivered", "cancelled", "returned"}
               PROVE  FALSE
  OBVIOUS
<1>2. /\ tracking_status \in Mapped
      /\ mapTrackingStatusToOrderStatus(tracking_status) = tracking_status
  BY <1>1 DEF Mapped, mapTrackingStatusToOrderStatus
<1>3. Index(order_status) >= Index(tracking_status)
  BY <1>2 DEF CaughtUp
<1>4. tracking_status \in OrderStatus /\ tracking_status \in Terminal
  BY <1>1 DEF OrderStatus, Terminal
<1> QED
  BY <1>3, <1>4, IndexIsNat

(* A reading of "delivered" moves every order that is not settled.         *)
LEMMA DeliveredMovesOn ==
  ASSUME NEW s \in OrderStatus \ Terminal, NEW old \in Text \ {"delivered"}
  PROVE  Transition(s, old, "delivered")
<1>1. mapTrackingStatusToOrderStatus("delivered") = "delivered"
  BY DEF mapTrackingStatusToOrderStatus
<1>2. Index(s) < 6 /\ Index("delivered") = 6
  BY IndexIsNat DEF Index, OrderStatus, Terminal
<1> QED
  BY <1>1, <1>2 DEF Transition, isForwardOrderStatusTransition, Mapped

(* No delivered parcel drops out of the cron's sight before its order is   *)
(* settled, and nothing that was written of it hides the delivery.         *)
THEOREM DeliveryStaysNoticeable == Spec => []DeliveryIsNoticeable
<1>1. NoticeInv => DeliveryIsNoticeable
  <2> SUFFICES ASSUME NoticeInv, Unnoticed
               PROVE  /\ ACTIVE_FORWARD_SHIPMENTS
                      /\ parcel \in past
                      /\ Transition(order_status, tracking_status, parcel)
    BY DEF DeliveryIsNoticeable
  <2>1. tracking_status \notin {"delivered", "cancelled", "returned"}
    BY UnnoticedIsOpen DEF NoticeInv, Unnoticed
  <2>2. Transition(order_status, tracking_status, "delivered")
    BY <2>1, DeliveredMovesOn DEF NoticeInv, Safe, TypeOK, Unnoticed
  <2> QED
    BY <2>1, <2>2
    DEF ACTIVE_FORWARD_SHIPMENTS, Unnoticed, NoticeInv, ParcelIsPast, NoText,
        Terminal
<1> QED
  BY <1>1, NoticeCorrect, PTL

(* The cron's round that nobody overtakes delivers the order, and stamps   *)
(* it for the first time.                                                  *)
THEOREM RoundDelivers == Spec => RoundSettles
<1>1. ASSUME NoticeInv, [Next]_vars, Unnoticed, CronWrites(parcel),
             order_status = cron.order_status
      PROVE  order_status' = "delivered" /\ delivered_at' = "once"
  <2> USE <1>1 DEF NoticeInv, Safe, TypeOK
  <2>1. ~isCancelledShipment
    BY UnnoticedIsOpen DEF Unnoticed, isCancelledShipment, Terminal
  <2>2. CronTransition("delivered")
    BY DeliveredMovesOn DEF CronTransition, Unnoticed, CronWrites, ParcelIsPast
  <2>3. /\ order_status' = mapTrackingStatusToOrderStatus("delivered")
        /\ StampIf(TRUE)
    BY <2>1, <2>2 DEF CronWrites, CronMayWrite, NOT_CANCELLED_SHIPMENT_GUARD,
       CronStamps, Unnoticed
  <2>4. delivered_at = "null"
    BY DEF Unnoticed, StampedIsOver, WindowOpensOnce, DeliveredAt
  <2> QED
    BY <2>3, <2>4 DEF mapTrackingStatusToOrderStatus, StampIf, Stamp
<1>2. NoticeInv /\ [Next]_vars =>
        [Unnoticed /\ CronWrites(parcel) /\ order_status = cron.order_status =>
           order_status' = "delivered" /\ delivered_at' = "once"]_vars
  BY <1>1
<1> QED
  BY <1>2, NoticeCorrect, PTL DEF Spec, RoundSettles

=============================================================================
