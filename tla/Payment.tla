------------------------------ MODULE Payment ------------------------------
(***************************************************************************)
(* The payment of one order: its row in orders, its row in payments, the   *)
(* customer's attempts to pay at Razorpay, the verify requests of the      *)
(* checkout page, and the payment.captured and payment.failed webhooks     *)
(* with their rows in webhook_events. The admin moves the order on,        *)
(* cancels it or refunds it meanwhile.                                     *)
(*                                                                         *)
(* One action is one transaction or one autocommitted statement, with the  *)
(* reads and calls before it that change nothing; a process may die        *)
(* between any two.                                                        *)
(***************************************************************************)
EXTENDS Naturals

CONSTANTS
  Attempts,    \* Razorpay payments of the one Razorpay order
  Verifiers,   \* verify requests
  NoPayment    \* a column without a payment id

ASSUME PaymentAssumption == NoPayment \notin Attempts

VARIABLES
  order_status,         \* columns of orders
  payment_status,
  razorpay_payment_id,
  payments_status,      \* payments.status
  refund,               \* the payment whose refund was approved
  rzp,                  \* Razorpay's status of each attempt
  pc,                   \* where each verify request is
  attempt,              \*   the attempt it verifies
  at,                   \* where the delivery of each event is
  ledger,               \* the row of each event in webhook_events
  confirmed,            \* was the order's confirmation announced?
  world                 \* do news of a payment come in order, and are deliveries
                        \*   no longer cut short?

orders == <<order_status, payment_status, razorpay_payment_id>>
request == <<pc, attempt>>
webhook == <<at, ledger>>

vars == <<orders, payments_status, refund, rzp, request, webhook, confirmed,
          world>>

Ids == Attempts \cup {NoPayment}

(* "processing" stands for it and for every later step of the order.       *)
OrderStatus == {"pending_payment", "paid", "processing", "cancelled"}

PaymentStatus == {"pending", "paid", "failed", "refunded"}

PaymentsStatus == {"created", "captured", "failed", "refunded"}

(* What became of an attempt: an authorised payment is captured later.     *)
RazorpayStatus == {"created", "failed", "authorized", "captured", "refunded"}

Event == {"captured", "failed"} \X Attempts

(* "unsent" until Razorpay has the event to tell; "due" while it has and   *)
(* there is no row, or a failed one, so that a delivery may claim it.      *)
Ledger == {"unsent", "due", "processing", "completed"}

Step == {"idle", "lock", "notify"}

DeliveryStep == {"idle", "lock", "notify", "orders", "payments", "complete"}

Init ==
  /\ order_status = "pending_payment"
  /\ payment_status = "pending"
  /\ razorpay_payment_id = NoPayment
  /\ payments_status = "created"
  /\ refund = NoPayment
  /\ rzp = [p \in Attempts |-> "created"]
  /\ pc = [v \in Verifiers |-> "idle"]
  /\ attempt = [v \in Verifiers |-> NoPayment]
  /\ at = [e \in Event |-> "idle"]
  /\ ledger = [e \in Event |-> "unsent"]
  /\ confirmed = FALSE
  /\ world \in [in_order: BOOLEAN, calm: {FALSE}]

-----------------------------------------------------------------------------
Succeeded(p) == rzp[p] \in {"authorized", "captured", "refunded"}

(* Fault: a second payment overwrites the first.                           *)
ClassifyWithoutConflict(status, stored, incoming) ==
  IF status = "paid" /\ stored = incoming THEN "already_paid" ELSE "process"

classifyPaymentState(status, stored, incoming) ==
  CASE status # "paid"    -> "process"
    [] stored = incoming  -> "already_paid"
    [] stored = NoPayment -> "reconcile"
    [] OTHER              -> "conflict"

(* What it says of the row as it is. *)
State(p) == classifyPaymentState(payment_status, razorpay_payment_id, p)

(* An event that Razorpay goes on delivering. A stranded one it does not:  *)
(* its process died, and the row turns every redelivery away.              *)
Pending(e) == ledger[e] = "due" \/ at[e] # "idle"

Stranded(e) == ledger[e] = "processing" /\ at[e] = "idle"

(* A payment has succeeded and the order does not show it yet, or is yet   *)
(* to be told.                                                             *)
NewsOfPayment ==
  \E p \in Attempts : \/ rzp[p] = "authorized"
                      \/ rzp[p] = "captured" /\ payment_status # "paid"
                      \/ Pending(<<"captured", p>>)

-----------------------------------------------------------------------------
(* Razorpay. If news come in order, a payment succeeds while the order is  *)
(* open and no failure is still to be told, and fails only before another  *)
(* has succeeded.                                                          *)

Become(p, status) == rzp' = [rzp EXCEPT ![p] = status]

Emit(e) == ledger' = [ledger EXCEPT ![e] = "due"]

(* A payment that failed may be authorised late. *)
RazorpayAuthorizes(p) ==
  /\ rzp[p] \in {"created", "failed"}
  /\ \/ ~world.in_order
     \/ /\ \A q \in Attempts : ~Pending(<<"failed", q>>)
        /\ order_status \in {"pending_payment", "paid"}
        /\ payment_status # "refunded"
  /\ Become(p, "authorized")
  /\ UNCHANGED <<orders, payments_status, refund, request, webhook, confirmed,
                 world>>

RazorpayCaptures(p) ==
  /\ rzp[p] = "authorized"
  /\ Become(p, "captured") /\ Emit(<<"captured", p>>)
  /\ UNCHANGED <<orders, payments_status, refund, request, at, confirmed,
                 world>>

RazorpayFails(p) ==
  /\ rzp[p] = "created"
  /\ ~world.in_order \/ \A q \in Attempts : ~Succeeded(q)
  /\ Become(p, "failed") /\ Emit(<<"failed", p>>)
  /\ UNCHANGED <<orders, payments_status, refund, request, at, confirmed,
                 world>>

-----------------------------------------------------------------------------
(* The admin. If news come in order, the admin acts once the news are in,  *)
(* and refunds the order's only payment when no verify request is under    *)
(* way.                                                                    *)

InTime == world.in_order => ~NewsOfPayment

(* isValidOrderStepTransition: one step on, or cancelled. *)
ValidStep(next) ==
  \/ order_status = "pending_payment" /\ next = "paid"
  \/ order_status = "paid" /\ next = "processing"
  \/ next = "cancelled"

updateOrderStatus(next) ==
  /\ ValidStep(next) /\ InTime
  /\ order_status' = next
  /\ UNCHANGED <<payment_status, razorpay_payment_id, payments_status, refund,
                 rzp, request, webhook, confirmed, world>>

cancelOrderAndRefund ==
  /\ refund = NoPayment /\ InTime
  /\ order_status # "pending_payment"
  /\ payment_status = "paid" /\ razorpay_payment_id # NoPayment
  /\ rzp[razorpay_payment_id] = "captured"
  /\ order_status' = "cancelled"
  /\ refund' = razorpay_payment_id
  /\ UNCHANGED <<payment_status, razorpay_payment_id, payments_status, rzp,
                 request, webhook, confirmed, world>>

(* The whole payment is refunded, and the refund booked. *)
RefundCompletes ==
  /\ refund # NoPayment /\ rzp[refund] = "captured"
  /\ \/ ~world.in_order
     \/ /\ ~NewsOfPayment
        /\ \A q \in Attempts \ {refund} : ~Succeeded(q)
        /\ \A v \in Verifiers : pc[v] # "lock"
  /\ Become(refund, "refunded")
  /\ payment_status' = "refunded" /\ payments_status' = "refunded"
  /\ UNCHANGED <<order_status, razorpay_payment_id, refund, request, webhook,
                 confirmed, world>>

-----------------------------------------------------------------------------
(* What verifyPayment and payment.captured have in common. *)

(* Fault: Razorpay's status is stored as it comes.                         *)
BookPaymentVerbatim(p) == payments_status' = rzp[p]

(* Fault: the payments row keeps what an earlier attempt wrote.            *)
BookPaymentOnce(p) ==
  payments_status' = IF payments_status = "created" THEN "captured"
                                                    ELSE payments_status

BookPayment(p) == payments_status' = "captured"

FinalisePaid(p) ==
  /\ order_status' = "paid" /\ payment_status' = "paid"
  /\ razorpay_payment_id' = p
  /\ BookPayment(p)

(* The confirmation of a paid order is announced; the notification's claim *)
(* makes it one message.                                                   *)
notifyInitialOrderConfirmation ==
  confirmed' = (confirmed \/ payment_status = "paid")

-----------------------------------------------------------------------------
(* verifyPayment *)

Goto(v, step) == pc' = [pc EXCEPT ![v] = step]

End(v) == Goto(v, "idle") /\ attempt' = [attempt EXCEPT ![v] = NoPayment]

(* Fault: the signature is not looked at. *)
AnySignature(p) == p \in Attempts

(* Razorpay signs the id of a payment once the payment has succeeded. *)
verifyPaymentSignature(p) == Succeeded(p)

(* SELECT id FROM orders WHERE razorpay_payment_id = ?; if it finds        *)
(* nothing, the unlocked snapshot of the order and payments.fetch. A       *)
(* snapshot in conflict, or a fetch that throws, refuses the request,      *)
(* which changes nothing.                                                  *)
VerifySnapshot(v, p) ==
  /\ pc[v] = "idle" /\ verifyPaymentSignature(p)
  /\ \/ razorpay_payment_id = p /\ Goto(v, "notify")
     \/ /\ razorpay_payment_id # p
        /\ State(p) \in {"process", "reconcile"} /\ Goto(v, "lock")
  /\ attempt' = [attempt EXCEPT ![v] = p]
  /\ UNCHANGED <<orders, payments_status, refund, rzp, webhook, confirmed,
                 world>>

(* Fault: what the snapshot said is not asked again under the lock. *)
SnapshotState(v) == "process"

LockedState(v) == State(attempt[v])

(* The transaction: already paid, or paid now. *)
VerifyLocked(v) ==
  /\ pc[v] = "lock" /\ LockedState(v) # "conflict"
  /\ IF LockedState(v) = "already_paid"
       THEN UNCHANGED <<orders, payments_status>>
       ELSE FinalisePaid(attempt[v])
  /\ Goto(v, "notify")
  /\ UNCHANGED <<refund, rzp, attempt, webhook, confirmed, world>>

VerifyNotifies(v) ==
  /\ pc[v] = "notify"
  /\ notifyInitialOrderConfirmation
  /\ End(v)
  /\ UNCHANGED <<orders, payments_status, refund, rzp, webhook, world>>

(* A conflict under the lock, a malformed email, a statement that throws   *)
(* and rolls the transaction back, or the death of the process.            *)
VerifyEnds(v) ==
  /\ pc[v] # "idle"
  /\ End(v)
  /\ UNCHANGED <<orders, payments_status, refund, rzp, webhook, confirmed,
                 world>>

-----------------------------------------------------------------------------
(* handleWebhook. at[e] is the one delivery of event e that holds its      *)
(* claim; other deliveries are turned away and do nothing.                 *)

GoOn(e, step) == at' = [at EXCEPT ![e] = step]

Mark(e, status) == ledger' = [ledger EXCEPT ![e] = status]

claimWebhookEvent(e) ==
  /\ ledger[e] = "due"
  /\ Mark(e, "processing")
  /\ GoOn(e, IF e[1] = "captured" THEN "lock" ELSE "orders")
  /\ UNCHANGED <<orders, payments_status, refund, rzp, request, confirmed,
                 world>>

(* The transaction of payment.captured: unlike verifyPayment's it writes   *)
(* an order that is already paid, too.                                     *)
CapturedLocked(p) ==
  /\ at[<<"captured", p>>] = "lock" /\ State(p) # "conflict"
  /\ FinalisePaid(p)
  /\ GoOn(<<"captured", p>>, "notify")
  /\ UNCHANGED <<refund, rzp, request, ledger, confirmed, world>>

CapturedConflict(p) ==
  /\ at[<<"captured", p>>] = "lock" /\ State(p) = "conflict"
  /\ GoOn(<<"captured", p>>, "complete")
  /\ UNCHANGED <<orders, payments_status, refund, rzp, request, ledger,
                 confirmed, world>>

CapturedNotifies(p) ==
  /\ at[<<"captured", p>>] = "notify"
  /\ notifyInitialOrderConfirmation
  /\ GoOn(<<"captured", p>>, "complete")
  /\ UNCHANGED <<orders, payments_status, refund, rzp, request, ledger, world>>

(* payment.failed: the order, whatever its state ... *)
FailedOrder(p) ==
  /\ at[<<"failed", p>>] = "orders"
  /\ payment_status' = "failed"
  /\ GoOn(<<"failed", p>>, "payments")
  /\ UNCHANGED <<order_status, razorpay_payment_id, payments_status, refund,
                 rzp, request, ledger, confirmed, world>>

(* ... and then the payments row. *)
markPaymentRowFailed(p) ==
  /\ at[<<"failed", p>>] = "payments"
  /\ payments_status' = "failed"
  /\ GoOn(<<"failed", p>>, "complete")
  /\ UNCHANGED <<orders, refund, rzp, request, ledger, confirmed, world>>

markWebhookEventCompleted(e) ==
  /\ at[e] = "complete"
  /\ Mark(e, "completed") /\ GoOn(e, "idle")
  /\ UNCHANGED <<orders, payments_status, refund, rzp, request, confirmed,
                 world>>

(* Fault: the error is logged and the event acknowledged. *)
AcknowledgeAnyway(e) == Mark(e, "completed")

markWebhookEventFailed(e) == Mark(e, "due")

(* A statement throws, or orders.fetch before the transaction does: the    *)
(* event may be delivered again. notifyInitialOrderConfirmation never      *)
(* throws.                                                                 *)
DeliveryThrows(e) ==
  /\ at[e] \notin {"idle", "notify"} /\ ~world.calm
  /\ markWebhookEventFailed(e) /\ GoOn(e, "idle")
  /\ UNCHANGED <<orders, payments_status, refund, rzp, request, confirmed,
                 world>>

(* The process dies, or markWebhookEventFailed throws. *)
DeliveryDies(e) ==
  /\ at[e] # "idle" /\ ~world.calm
  /\ GoOn(e, "idle")
  /\ UNCHANGED <<orders, payments_status, refund, rzp, request, ledger,
                 confirmed, world>>

CalmBegins ==
  /\ world' = [world EXCEPT !.calm = TRUE]
  /\ UNCHANGED <<orders, payments_status, refund, rzp, request, webhook,
                 confirmed>>

-----------------------------------------------------------------------------
Razorpay(p) ==
  RazorpayAuthorizes(p) \/ RazorpayCaptures(p) \/ RazorpayFails(p)

Admin == \/ \E next \in OrderStatus : updateOrderStatus(next)
         \/ cancelOrderAndRefund
         \/ RefundCompletes

Verify(v) == \/ \E p \in Attempts : VerifySnapshot(v, p)
             \/ VerifyLocked(v) \/ VerifyNotifies(v) \/ VerifyEnds(v)

Captured(p) == CapturedLocked(p) \/ CapturedConflict(p) \/ CapturedNotifies(p)

Failed(p) == FailedOrder(p) \/ markPaymentRowFailed(p)

Deliver(e) == \/ claimWebhookEvent(e)
              \/ Captured(e[2]) /\ e[1] = "captured"
              \/ Failed(e[2]) /\ e[1] = "failed"
              \/ markWebhookEventCompleted(e)

Next == \/ \E p \in Attempts : Razorpay(p)
        \/ Admin
        \/ \E v \in Verifiers : Verify(v)
        \/ \E e \in Event : Deliver(e) \/ DeliveryThrows(e) \/ DeliveryDies(e)
        \/ CalmBegins

Spec == Init /\ [][Next]_vars

(* Razorpay delivers an event until it is acknowledged, and some day no    *)
(* delivery is cut short any more. Nobody need verify, pay or administer.  *)
Fairness ==
  /\ \A e \in Event : WF_vars(Deliver(e))
  /\ WF_vars(CalmBegins)

FairSpec == Spec /\ Fairness

-----------------------------------------------------------------------------
(* Properties. *)

(* Every variable has its type.                                            *)
TypeOK ==
  /\ order_status \in OrderStatus
  /\ payment_status \in PaymentStatus
  /\ razorpay_payment_id \in Ids
  /\ payments_status \in PaymentsStatus
  /\ refund \in Ids
  /\ rzp \in [Attempts -> RazorpayStatus]
  /\ pc \in [Verifiers -> Step]
  /\ attempt \in [Verifiers -> Ids]
  /\ at \in [Event -> DeliveryStep]
  /\ ledger \in [Event -> Ledger]
  /\ confirmed \in BOOLEAN
  /\ world \in [in_order: BOOLEAN, calm: BOOLEAN]

(* An order that is paid names a payment that succeeded, and no customer   *)
(* is told of an order that nobody paid, whatever comes late.              *)
PaidIsPaidFor ==
  /\ payment_status = "paid" =>
       razorpay_payment_id # NoPayment /\ Succeeded(razorpay_payment_id)
  /\ confirmed => razorpay_payment_id # NoPayment

(* "Preserving stored payment": while an order is paid no second payment   *)
(* takes the place of the first, by whatever way and order they come.      *)
StoredPaymentStays ==
  [][payment_status = "paid" /\ payment_status' = "paid" =>
       razorpay_payment_id' = razorpay_payment_id]_vars

(* orders and payments tell the same story of a paid order, as long as     *)
(* news come in order.                                                     *)
RowsAgree ==
  world.in_order /\ payment_status = "paid" => payments_status = "captured"

Rank(status) == CASE status = "pending_payment" -> 0
                  [] status = "paid"            -> 1
                  [] status = "processing"      -> 2
                  [] status = "cancelled"       -> 3

(* As long as news come in order, an order never moves back: a verify      *)
(* request that was overtaken, or an event delivered again, undoes neither *)
(* a cancellation, nor a refund, nor a step towards the customer.          *)
OrderNeverMovesBack ==
  [][world.in_order =>
       /\ Rank(order_status') >= Rank(order_status)
       /\ payment_status = "paid" => payment_status' \in {"paid", "refunded"}
       /\ payment_status = "refunded" => payment_status' = "refunded"]_vars

(* "A cancelled order is terminal: it can never be moved back."            *)
CancelledIsTerminal ==
  [][order_status = "cancelled" => order_status' = "cancelled"]_vars

(* The only payment of an order.                                           *)
Sole(p) == \A q \in Attempts \ {p} : ~Succeeded(q)

(* "A transient outage delays confirmation rather than losing it": the     *)
(* order's only captured payment is booked by the webhook alone, and the   *)
(* customer told even if the request that booked it died before it did,    *)
(* unless the process that handled the webhook died.                       *)
CapturedIsBooked ==
  []<>(\A p \in Attempts :
         rzp[p] = "captured" /\ Sole(p) =>
           \/ confirmed /\ payment_status = "paid"
           \/ Stranded(<<"captured", p>>))
=============================================================================
