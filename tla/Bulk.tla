-------------------------------- MODULE Bulk --------------------------------
(***************************************************************************)
(* One bulk booking: its row in bulk_bookings, the quotes the admin shares *)
(* for it, the customer's approval, the payment page that attaches a       *)
(* Razorpay order to it, the Razorpay orders the customer may still have   *)
(* open and may pay, the verify requests, and the one order that is made   *)
(* of it.                                                                  *)
(*                                                                         *)
(* One action is one transaction, one autocommitted statement or one call  *)
(* to Razorpay, with the reads that follow it; a request may end anywhere. *)
(***************************************************************************)
EXTENDS Naturals, Sequences

CONSTANTS
  Requests,   \* requests of the admin and the customer, of any kind
  Prices,     \* what the admin may quote
  Statuses,   \* the statuses an update may ask for
  MaxOrders,  \* Razorpay orders that are created at most
  NoPrice,    \* a price that is NULL
  Keep        \* a field that an update does not mention

(* "new" stands for "in_progress", too.                                    *)
BookingStatus == {"new", "quoted", "confirmed", "completed", "cancelled"}

ASSUME BulkAssumption ==
  /\ Statuses \subseteq BookingStatus
  /\ {NoPrice, Keep} \cap Prices = {} /\ NoPrice # Keep
  /\ MaxOrders \in Nat

VARIABLES
  status,               \* columns of bulk_bookings
  quote_price,
  quote_approved,
  quote_expires_at,
  razorpay_order_id,
  payment,              \* its payment_status and razorpay_payment_id
  created,              \* the orders made of the booking
  amount,               \* what each Razorpay order is for, as they came
  shown,                \* Razorpay orders a payment page has offered
  paid,                 \* Razorpay orders whose payment was captured
  refused,              \* was a verify request of a captured payment refused?
  late,                 \* was the price changed after a payment?
  doing, mem            \* where each request is, and what it remembers

quote == <<quote_price, quote_approved, quote_expires_at>>

(* A Razorpay order, and its payment, go by the order's number.            *)
Orders == 1..MaxOrders

NoOrder == 0

Payment == [status: {"pending", "paid", "captured_mismatch"},
            id: Orders \cup {NoOrder}]

booking == <<status, quote, razorpay_order_id, payment, created>>
razorpay == <<amount, shown, paid>>
history == <<refused, late>>

bulkVars == <<booking, razorpay, history, doing, mem>>

BulkStep == {"idle", "update", "confirm", "approve", "call", "relock", "flag",
         "lock", "order"}

(* What a request remembers: the fields of an update and whether it takes  *)
(* back the approval, or the price and the Razorpay orders of a page.      *)
Blank == [status |-> Keep, price |-> Keep, candidate |-> NoPrice,
          invalidate |-> FALSE, order |-> NoOrder, made |-> NoOrder]

Memory == [status: BookingStatus \cup {Keep}, price: Prices \cup {NoPrice, Keep},
           candidate: Prices \cup {NoPrice}, invalidate: BOOLEAN,
           order: Orders \cup {NoOrder}, made: Orders \cup {NoOrder}]

BulkInit ==
  /\ status = "new"
  /\ quote_price = NoPrice /\ quote_approved = FALSE
  /\ quote_expires_at = "null"
  /\ razorpay_order_id = NoOrder
  /\ payment = [status |-> "pending", id |-> NoOrder]
  /\ created = <<>>
  /\ amount = <<>>
  /\ shown = {} /\ paid = {} /\ refused = FALSE /\ late = FALSE
  /\ doing = [r \in Requests |-> "idle"]
  /\ mem = [r \in Requests |-> Blank]

order_created == created # <<>>

Moves(r, step) == doing' = [doing EXCEPT ![r] = step]

Remember(r, what) == mem' = [mem EXCEPT ![r] = what]

Leaves(r) == Moves(r, "idle") /\ Remember(r, Blank)

(* A history of the model: the price changes although somebody has paid.   *)
Priced == late' = (late \/ (quote_price' # quote_price /\ paid # {}))

-----------------------------------------------------------------------------
(* updateBulkBooking: it reads the row, checks and decides; then it writes. *)

isValidStatusTransition(next) ==
  \/ next \in {Keep, status}
  \/ next = "cancelled" /\ status # "completed"
  \/ /\ status \notin {"cancelled", "completed"}
     /\ \/ next = "confirmed"
        \/ next = "quoted" /\ status = "new"
        \/ next = "completed" /\ status = "confirmed"

(* A genuine change of a price that was approved, or is being paid. *)
Invalidates(price) ==
  /\ price \notin {Keep, quote_price}
  /\ razorpay_order_id # NoOrder \/ quote_approved

updateBulkBooking(r, next, price) ==
  LET candidate == IF next # "quoted" THEN NoPrice
                   ELSE IF price = Keep THEN quote_price ELSE price IN
  /\ doing[r] = "idle" /\ ~order_created
  /\ {next, price} # {Keep}
  /\ isValidStatusTransition(next)
  /\ next = "quoted" => candidate # NoPrice
  /\ Remember(r, [Blank EXCEPT !.status = next, !.price = price,
                    !.candidate = candidate,
                    !.invalidate = next # "confirmed" /\ Invalidates(price)])
  /\ Moves(r, IF next = "confirmed" THEN "confirm" ELSE "update")
  /\ UNCHANGED <<booking, razorpay, history>>

(* UPDATE bulk_bookings ... WHERE id = ?. A quote that is shared anew, not *)
(* one that is shared again, opens another fifteen days.                   *)
WriteUpdate(r) ==
  LET new == mem[r] IN
  /\ doing[r] = "update"
  /\ status' = IF new.status = Keep THEN status ELSE new.status
  /\ quote_price' = IF new.price = Keep THEN quote_price ELSE new.price
  /\ quote_approved' = (quote_approved /\ ~new.invalidate)
  /\ razorpay_order_id' = IF new.invalidate THEN NoOrder
                                            ELSE razorpay_order_id
  /\ quote_expires_at' =
       IF /\ new.status = "quoted"
          /\ status # "quoted" \/ quote_price # new.candidate
       THEN "open" ELSE quote_expires_at
  /\ Priced
  /\ Leaves(r)
  /\ UNCHANGED <<payment, created, razorpay, refused>>

(* The confirmation's own transaction; the order is made after it. *)
ConfirmLocked(r) ==
  LET price == IF mem[r].price \in {Keep, NoPrice} THEN quote_price
                                                   ELSE mem[r].price IN
  /\ doing[r] = "confirm"
  /\ ~order_created /\ price # NoPrice
  /\ quote_approved /\ payment.status = "paid"
  /\ quote_price' = price
  /\ Priced
  /\ Moves(r, "order")
  /\ UNCHANGED <<status, quote_approved, quote_expires_at, razorpay_order_id,
                 payment, created, razorpay, refused, mem>>

(* Fifteen days. *)
QuoteExpires ==
  /\ quote_expires_at = "open"
  /\ quote_expires_at' = "past"
  /\ UNCHANGED <<status, quote_price, quote_approved, razorpay_order_id,
                 payment, created, razorpay, history, doing, mem>>

-----------------------------------------------------------------------------
(* approveBulkQuote: a read, and an UPDATE of whatever the row is by then. *)

approveBulkQuote(r) ==
  /\ doing[r] = "idle" /\ ~order_created
  /\ quote_price # NoPrice /\ status = "quoted" /\ ~quote_approved
  /\ Moves(r, "approve")
  /\ UNCHANGED <<booking, razorpay, history, mem>>

WriteApproval(r) ==
  /\ doing[r] = "approve"
  /\ quote_approved' = TRUE
  /\ Leaves(r)
  /\ UNCHANGED <<status, quote_price, quote_expires_at, razorpay_order_id,
                 payment, created, razorpay, history>>

-----------------------------------------------------------------------------
(* getBulkPaymentDetails and ensureBulkRazorpayOrder. *)

Payable ==
  /\ ~order_created
  /\ quote_price # NoPrice /\ quote_approved
  /\ payment.status # "paid"

(* Phase 1. *)
getBulkPaymentDetails(r) ==
  /\ doing[r] = "idle"
  /\ Payable /\ quote_expires_at # "past"
  /\ Remember(r, [Blank EXCEPT !.price = quote_price,
                               !.order = razorpay_order_id])
  /\ Moves(r, "call")
  /\ UNCHANGED <<booking, razorpay, history>>

Offer(o) == shown' = shown \cup {o}

(* orders.fetch: an unpaid order for the same amount is offered again.     *)
ReuseOrder(r) ==
  /\ doing[r] = "call"
  /\ mem[r].order # NoOrder /\ mem[r].order \notin paid
  /\ amount[mem[r].order] = mem[r].price
  /\ Offer(mem[r].order)
  /\ Leaves(r)
  /\ UNCHANGED <<booking, amount, paid, history>>

(* orders.create: there is none, or it cannot be used, or orders.fetch     *)
(* throws or finds that a payment of it was tried.                         *)
CreateOrder(r) ==
  /\ doing[r] = "call" /\ Len(amount) < MaxOrders
  /\ amount' = Append(amount, mem[r].price)
  /\ mem' = [mem EXCEPT ![r].made = Len(amount')]
  /\ Moves(r, "relock")
  /\ UNCHANGED <<booking, shown, paid, history>>

QuoteStillValid(r) ==
  quote_price = mem[r].price /\ quote_approved /\ payment.status # "paid"

(* Phase 2: another page's order is preferred, a changed quote refused.    *)
AttachOrder(r) ==
  LET another == razorpay_order_id \notin {NoOrder, mem[r].order} IN
  /\ doing[r] = "relock"
  /\ IF another
       THEN Offer(razorpay_order_id) /\ UNCHANGED razorpay_order_id
       ELSE IF QuoteStillValid(r)
       THEN Offer(mem[r].made) /\ razorpay_order_id' = mem[r].made
       ELSE UNCHANGED <<shown, razorpay_order_id>>
  /\ Leaves(r)
  /\ UNCHANGED <<status, quote, payment, created, amount, paid, history>>

(* The customer pays in a window that was opened for the order, however    *)
(* long ago; the payment is captured at once.                              *)
CustomerPays(o) ==
  /\ o \in shown \ paid
  /\ paid' = paid \cup {o}
  /\ UNCHANGED <<booking, amount, shown, history, doing, mem>>

-----------------------------------------------------------------------------
(* verifyBulkPayment of a captured payment whose signature is right. *)

Refuse == refused' = TRUE

(* Fault: what Razorpay captured is not compared with the quote. *)
AnyAmount(o) == TRUE

ExpectedAmount(o) == amount[o] = quote_price

(* The row as it is read, and payments.fetch: a payment that is already    *)
(* booked is answered, one that cannot be is refused without more ado, one *)
(* of another order or amount is refused and flagged, the rest is locked.  *)
verifyBulkPayment(r, o) ==
  LET booked == payment = [status |-> "paid", id |-> o]
      closed == order_created \/ ~quote_approved IN
  /\ doing[r] = "idle" /\ o \in paid /\ ~booked
  /\ IF closed THEN Refuse /\ UNCHANGED <<doing, mem>>
     ELSE /\ Remember(r, [Blank EXCEPT !.order = o])
          /\ Moves(r, IF razorpay_order_id = o /\ ExpectedAmount(o)
                     THEN "lock" ELSE "flag")
          /\ UNCHANGED refused
  /\ UNCHANGED <<booking, razorpay, late>>

(* UPDATE ... SET payment_status = ... WHERE payment_status <> 'paid' *)
Flag ==
  payment' = [payment EXCEPT !.status =
                IF @ = "paid" THEN "paid" ELSE "captured_mismatch"]

FlagMismatch(r) ==
  /\ doing[r] = "flag"
  /\ Flag /\ Refuse
  /\ Leaves(r)
  /\ UNCHANGED <<status, quote, razorpay_order_id, created, razorpay, late>>

(* The fetch of a payment of another order, or the UPDATE, throws: both    *)
(* are swallowed, the answer is the same.                                  *)
FlagFails(r) ==
  /\ doing[r] = "flag"
  /\ Refuse
  /\ Leaves(r)
  /\ UNCHANGED <<booking, razorpay, late>>

(* Fault: a second payment of the booking takes the first one's place. *)
BookLatest(o) == payment' = [status |-> "paid", id |-> o]

BookBulkPayment(o) ==
  payment' = IF payment.status = "paid" THEN payment
                                        ELSE [status |-> "paid", id |-> o]

(* The transaction asks for the order and the payment again, not for the   *)
(* quote.                                                                  *)
LockAndVerify(r) ==
  LET o == mem[r].order IN
  /\ doing[r] = "lock"
  /\ IF order_created
       THEN /\ IF payment.id = o THEN UNCHANGED refused ELSE Refuse
            /\ Leaves(r) /\ UNCHANGED payment
       ELSE /\ BookBulkPayment(o) /\ Moves(r, "order")
            /\ UNCHANGED <<refused, mem>>
  /\ UNCHANGED <<status, quote, razorpay_order_id, created, razorpay, late>>

-----------------------------------------------------------------------------
(* createOrderFromBulkBooking, of a verify request or of the admin. *)

assertBookingConfirmable ==
  /\ ~order_created
  /\ status # "cancelled" /\ quote_approved /\ quote_price # NoPrice
  /\ payment.status = "paid"

createOrderFromBulkBooking(r) ==
  /\ doing[r] = "order" /\ assertBookingConfirmable
  /\ created' = Append(created, [price |-> quote_price,
                                 payment |-> payment.id])
  /\ status' = "confirmed"
  /\ Leaves(r)
  /\ UNCHANGED <<quote, razorpay_order_id, payment, razorpay, history>>

(* A check that fails under the lock, a statement or a call that throws,   *)
(* or the death of the process.                                            *)
RequestEnds(r) ==
  /\ doing[r] # "idle"
  /\ Leaves(r)
  /\ UNCHANGED <<booking, razorpay, history>>

-----------------------------------------------------------------------------
AdminActs(r) ==
  \/ \E next \in Statuses \cup {Keep}, price \in Prices \cup {NoPrice, Keep} :
       updateBulkBooking(r, next, price)
  \/ WriteUpdate(r) \/ ConfirmLocked(r)

PageActs(r) == \/ getBulkPaymentDetails(r) \/ ReuseOrder(r)
               \/ CreateOrder(r) \/ AttachOrder(r)

VerifyActs(r) == \/ \E o \in Orders : verifyBulkPayment(r, o)
                 \/ FlagMismatch(r) \/ FlagFails(r) \/ LockAndVerify(r)

BulkNext ==
  \/ \E r \in Requests : \/ AdminActs(r) \/ PageActs(r) \/ VerifyActs(r)
                         \/ approveBulkQuote(r) \/ WriteApproval(r)
                         \/ createOrderFromBulkBooking(r)
                         \/ RequestEnds(r)
  \/ \E o \in Orders : CustomerPays(o)
  \/ QuoteExpires

BulkSpec == BulkInit /\ [][BulkNext]_bulkVars

-----------------------------------------------------------------------------
(* Properties. *)

BulkTypeOK ==
  /\ status \in BookingStatus
  /\ quote_price \in Prices \cup {NoPrice}
  /\ quote_approved \in BOOLEAN
  /\ quote_expires_at \in {"null", "open", "past"}
  /\ razorpay_order_id \in Orders \cup {NoOrder}
  /\ payment \in Payment
  /\ \A i \in DOMAIN created :
       created[i] \in [price: Prices \cup {NoPrice},
                       payment: Orders \cup {NoOrder}]
  /\ amount \in Seq(Prices) /\ Len(amount) <= MaxOrders
  /\ shown \subseteq Orders /\ paid \subseteq shown
  /\ refused \in BOOLEAN /\ late \in BOOLEAN
  /\ doing \in [Requests -> BulkStep]
  /\ mem \in [Requests -> Memory]

(* However many requests verify and confirm at once, one order is made.    *)
OneOrder == Len(created) <= 1

(* An order was paid for; and unless the admin changed the price after the *)
(* customer had paid, it was paid in full -- whichever of the quotes, and  *)
(* of the payment windows still open, the customer's payment belongs to.   *)
OrderIsPaidFor ==
  \A i \in DOMAIN created :
    /\ created[i].payment \in paid
    /\ late \/ amount[created[i].payment] = created[i].price

BulkSafe == BulkTypeOK /\ OneOrder /\ OrderIsPaidFor

(* A booking that is paid stays so, by the same payment: neither a second  *)
(* payment nor the flag of a stale one takes its place.                    *)
PaidStaysPaid ==
  [][payment.status = "paid" => payment' = payment]_bulkVars

(* "flags the booking instead of silently discarding all trace of it": a   *)
(* customer whose captured payment was refused is seen in the booking.     *)
RefusedLeavesTrace == refused => payment.status # "pending"
=============================================================================
