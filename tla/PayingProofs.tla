----------------------------- MODULE PayingProofs -----------------------------
(***************************************************************************)
(* Proofs about Bulk, for any number of requests, prices and Razorpay      *)
(* orders, and about Subscription, for any number of requests, charges and *)
(* events.                                                                 *)
(***************************************************************************)
EXTENDS Bulk, Subscription, TLAPS

-----------------------------------------------------------------------------
(* The bulk booking.                                                       *)
(*                                                                         *)
(* A payment is compared with the quote before it is booked, and the quote *)
(* is not looked at again. That this is enough is Matching: from the       *)
(* comparison on somebody has paid, so that a change of the price shows in *)
(* late. Numbered says that whoever remembers a Razorpay order remembers   *)
(* one that exists, so that its amount is what it was.                     *)

Made == 1..Len(amount)

Numbered ==
  /\ razorpay_order_id \in Made \cup {NoOrder}
  /\ shown \subseteq Made
  /\ \A r \in Requests :
       /\ mem[r].order \in Made \cup {NoOrder}
       /\ doing[r] = "call" => mem[r].price \in Prices
       /\ doing[r] = "relock" => mem[r].made \in Made

(* Razorpay order o was paid, with the quote's price unless that changed.  *)
Fits(o) == o \in paid /\ (late \/ amount[o] = quote_price)

Matching ==
  /\ payment.status = "paid" => Fits(payment.id)
  /\ \A r \in Requests : doing[r] = "lock" => Fits(mem[r].order)

BulkInv == BulkTypeOK /\ Numbered /\ Matching /\ OneOrder /\ OrderIsPaidFor

(* What a step of request r does to the requests, ...                      *)
Acts(r) ==
  /\ doing' \in [Requests -> BulkStep] /\ mem' \in [Requests -> Memory]
  /\ \A q \in Requests \ {r} : doing'[q] = doing[q] /\ mem'[q] = mem[q]

(* ... and what no step but that which makes the order, and the payment    *)
(* itself, goes beyond.                                                    *)
Lawful(r) ==
  /\ Acts(r)
  /\ mem'[r].order \in Made' \cup {NoOrder}
  /\ doing'[r] = "call" => mem'[r].price \in Prices
  /\ doing'[r] = "relock" => mem'[r].made \in Made'
  /\ doing'[r] = "lock" => Fits(mem'[r].order)
  /\ status' \in BookingStatus /\ quote_approved' \in BOOLEAN
  /\ quote_price' \in Prices \cup {NoPrice}
  /\ quote_expires_at' \in {"null", "open", "past"}
  /\ late' \in BOOLEAN /\ (late => late') /\ refused' \in BOOLEAN
  /\ late' \/ quote_price' = quote_price \/ paid = {}
  /\ razorpay_order_id' \in Made' \cup {NoOrder}
  /\ amount' \in Seq(Prices) /\ Len(amount') <= MaxOrders
  /\ Made \subseteq Made' /\ \A o \in Made : amount'[o] = amount[o]
  /\ shown \subseteq shown' /\ shown' \subseteq Made'
  /\ paid' = paid /\ created' = created
  /\ \/ payment' = payment
     \/ /\ payment' \in Payment
        /\ payment'.status = "paid" => Fits(payment'.id)

LEMMA LawfulKeeps ==
  ASSUME BulkInv, NEW r \in Requests, Lawful(r) PROVE BulkInv'
  <1> USE DEF BulkInv
  <1>1. Made' \subseteq Orders
    <2>1. Len(amount') \in Nat /\ Len(amount') <= MaxOrders
      BY DEF Lawful
    <2> QED BY <2>1, BulkAssumption DEF Made, Orders
  <1>2. Made \subseteq Orders /\ paid \subseteq Made
    <2>1. Len(amount) \in Nat /\ Len(amount) <= MaxOrders
      BY DEF BulkTypeOK
    <2> QED BY <2>1, BulkAssumption DEF Made, Orders, Numbered, BulkTypeOK
  <1>3. BulkTypeOK'
    <2>1. payment' \in Payment
      BY DEF Lawful, BulkTypeOK
    <2>2. razorpay_order_id' \in Orders \cup {NoOrder} /\ shown' \subseteq Orders
      BY <1>1 DEF Lawful
    <2> QED BY <2>1, <2>2 DEF Lawful, BulkTypeOK, Acts
  <1>4. Numbered'
    <2>1. ASSUME NEW q \in Requests
          PROVE  /\ mem'[q].order \in Made' \cup {NoOrder}
                 /\ doing'[q] = "call" => mem'[q].price \in Prices
                 /\ doing'[q] = "relock" => mem'[q].made \in Made'
      BY DEF Lawful, Acts, Numbered
    <2> QED BY <2>1 DEF Numbered, Lawful
  <1>5. \A o : Fits(o) => Fits(o)'
    BY <1>2 DEF Fits, Lawful
  <1>6. Matching'
    <2>1. payment'.status = "paid" => Fits(payment'.id)
      BY DEF Lawful, Matching
    <2>2. \A q \in Requests : doing'[q] = "lock" => Fits(mem'[q].order)
      BY DEF Lawful, Acts, Matching
    <2> QED BY <1>5, <2>1, <2>2 DEF Matching, Fits
  <1>7. OneOrder' /\ OrderIsPaidFor'
    BY <1>2 DEF Lawful, OneOrder, OrderIsPaidFor
  <1> QED BY <1>3, <1>4, <1>6, <1>7

LEMMA BlankTyped == Blank \in Memory
  BY DEF Blank, Memory

(* A request that goes to its next step with what it remembers.            *)
LEMMA Acting ==
  ASSUME BulkTypeOK, NEW r \in Requests, NEW s \in BulkStep, NEW m \in Memory,
         Moves(r, s), mem' = [mem EXCEPT ![r] = m]
  PROVE  Acts(r) /\ doing'[r] = s /\ mem'[r] = m
  BY DEF BulkTypeOK, Moves, Acts

LEMMA Leaving ==
  ASSUME BulkTypeOK, NEW r \in Requests, Leaves(r)
  PROVE  Acts(r) /\ doing'[r] = "idle" /\ mem'[r] = Blank
  BY Acting, BlankTyped DEF Leaves, Remember, BulkStep

(* The step goes on with what the request remembered before.               *)
LEMMA GoingOn ==
  ASSUME BulkTypeOK, NEW r \in Requests, NEW s \in BulkStep,
         Moves(r, s), mem' = mem
  PROVE  Acts(r) /\ doing'[r] = s /\ mem'[r] = mem[r]
  BY DEF BulkTypeOK, Moves, Acts

(* What is left alone is lawful.                                           *)
LEMMA Quiet ==
  ASSUME BulkInv, NEW r \in Requests, Acts(r),
         UNCHANGED <<status, quote_price, razorpay_order_id, created, razorpay, late>>,
         quote_approved' \in BOOLEAN,
         quote_expires_at' \in {"null", "open", "past"}, refused' \in BOOLEAN,
         \/ payment' = payment
         \/ payment' \in Payment /\ (payment'.status = "paid" => Fits(payment'.id)),
         mem'[r].order \in Made \cup {NoOrder},
         doing'[r] = "call" => mem'[r].price \in Prices,
         doing'[r] # "relock",
         doing'[r] = "lock" => Fits(mem'[r].order)
  PROVE  Lawful(r)
  BY DEF Lawful, razorpay, Made, BulkInv, BulkTypeOK, Numbered

(* The admin's update and confirmation. *)
LEMMA AdminLawful ==
  ASSUME BulkInv, NEW r \in Requests, AdminActs(r) PROVE Lawful(r)
  <1> USE DEF BulkInv
  <1>1. ASSUME NEW next \in Statuses \cup {Keep},
               NEW price \in Prices \cup {NoPrice, Keep},
               updateBulkBooking(r, next, price)
        PROVE  Lawful(r)
    <2> DEFINE candidate == IF next # "quoted" THEN NoPrice
                            ELSE IF price = Keep THEN quote_price ELSE price
               m == [Blank EXCEPT !.status = next, !.price = price,
                       !.candidate = candidate,
                       !.invalidate = next # "confirmed" /\ Invalidates(price)]
               s == IF next = "confirmed" THEN "confirm" ELSE "update"
    <2>1. candidate \in Prices \cup {NoPrice}
      BY DEF BulkTypeOK
    <2>2. next \in BookingStatus \cup {Keep}
      BY BulkAssumption
    <2>3. m \in Memory /\ m.order = NoOrder
      <3> HIDE DEF candidate
      <3> QED BY <2>1, <2>2 DEF Blank, Memory, Invalidates
    <2>4. s \in BulkStep /\ s \in {"confirm", "update"}
      BY DEF BulkStep
    <2>5. Moves(r, s) /\ mem' = [mem EXCEPT ![r] = m]
      BY <1>1 DEF updateBulkBooking, Remember
    <2>6. UNCHANGED <<booking, razorpay, history>>
      BY <1>1 DEF updateBulkBooking
    <2> HIDE DEF m, s
    <2>7. Acts(r) /\ doing'[r] = s /\ mem'[r] = m
      BY <2>3, <2>4, <2>5, Acting
    <2> QED BY <2>3, <2>4, <2>6, <2>7, Quiet
            DEF booking, history, quote, BulkTypeOK
  <1>2. CASE WriteUpdate(r)
    <2>1. Leaves(r) /\ UNCHANGED <<payment, created, razorpay, refused>> /\ Priced
      BY <1>2 DEF WriteUpdate
    <2>2. mem[r] \in Memory
      BY DEF BulkTypeOK
    <2>3. /\ status' \in BookingStatus /\ quote_price' \in Prices \cup {NoPrice}
          /\ quote_approved' \in BOOLEAN
          /\ quote_expires_at' \in {"null", "open", "past"}
          /\ razorpay_order_id' \in Made \cup {NoOrder}
      BY <1>2, <2>2 DEF WriteUpdate, Memory, BulkTypeOK, Numbered
    <2>4. late' \in BOOLEAN /\ (late => late')
          /\ (late' \/ quote_price' = quote_price \/ paid = {})
      BY <2>1 DEF Priced, BulkTypeOK
    <2>5. Acts(r) /\ doing'[r] = "idle" /\ mem'[r].order = NoOrder
      BY <2>1, Leaving DEF Blank
    <2> QED BY <2>1, <2>3, <2>4, <2>5
            DEF Lawful, razorpay, Made, BulkTypeOK, Numbered
  <1>3. CASE ConfirmLocked(r)
    <2>1. /\ UNCHANGED <<status, quote_approved, quote_expires_at, razorpay_order_id,
                         payment, created, razorpay, refused, mem>>
          /\ Priced /\ Moves(r, "order")
      BY <1>3 DEF ConfirmLocked
    <2>2. mem[r] \in Memory
      BY DEF BulkTypeOK
    <2>3. quote_price' \in Prices \cup {NoPrice}
      BY <1>3, <2>2 DEF ConfirmLocked, Memory, BulkTypeOK
    <2>4. late' \in BOOLEAN /\ (late => late')
          /\ (late' \/ quote_price' = quote_price \/ paid = {})
      BY <2>1 DEF Priced, BulkTypeOK
    <2>5. Acts(r) /\ doing'[r] = "order" /\ mem'[r] = mem[r]
      BY <2>1, GoingOn DEF BulkStep
    <2> QED BY <2>1, <2>3, <2>4, <2>5
            DEF Lawful, razorpay, Made, BulkTypeOK, Numbered
  <1> QED BY <1>1, <1>2, <1>3 DEF AdminActs

(* The payment page. *)
LEMMA PageLawful ==
  ASSUME BulkInv, NEW r \in Requests, PageActs(r) PROVE Lawful(r)
  <1> USE DEF BulkInv
  <1>1. CASE getBulkPaymentDetails(r)
    <2> DEFINE m == [Blank EXCEPT !.price = quote_price, !.order = razorpay_order_id]
    <2>1. /\ Moves(r, "call") /\ mem' = [mem EXCEPT ![r] = m]
          /\ UNCHANGED <<booking, razorpay, history>> /\ quote_price # NoPrice
      BY <1>1 DEF getBulkPaymentDetails, Remember, Payable
    <2>2. m \in Memory /\ m.order = razorpay_order_id /\ m.price \in Prices
      BY <2>1 DEF Blank, Memory, BulkTypeOK
    <2> HIDE DEF m
    <2>3. Acts(r) /\ doing'[r] = "call" /\ mem'[r] = m
      BY <2>1, <2>2, Acting DEF BulkStep
    <2> QED BY <2>1, <2>2, <2>3, Quiet
            DEF booking, history, quote, BulkTypeOK, Numbered
  <1>2. CASE ReuseOrder(r)
    <2>1. /\ shown' = shown \cup {mem[r].order} /\ mem[r].order # NoOrder
          /\ Leaves(r) /\ UNCHANGED <<booking, amount, paid, history>>
      BY <1>2 DEF ReuseOrder, Offer
    <2>2. Acts(r) /\ doing'[r] = "idle" /\ mem'[r].order = NoOrder
      BY <2>1, Leaving DEF Blank
    <2>3. shown' \subseteq Made /\ shown \subseteq shown'
      BY <2>1 DEF Numbered
    <2> QED BY <2>1, <2>2, <2>3
            DEF Lawful, booking, history, quote, Made, BulkTypeOK, Numbered
  <1>3. CASE CreateOrder(r)
    <2> DEFINE m == [mem[r] EXCEPT !.made = Len(amount')]
    <2>1. /\ amount' = Append(amount, mem[r].price) /\ Len(amount) < MaxOrders
          /\ mem' = [mem EXCEPT ![r] = m]
          /\ Moves(r, "relock") /\ UNCHANGED <<booking, shown, paid, history>>
      BY <1>3 DEF CreateOrder, BulkTypeOK
    <2>2. mem[r] \in Memory /\ mem[r].price \in Prices
      BY <1>3 DEF CreateOrder, BulkTypeOK, Numbered
    <2>3. /\ amount' \in Seq(Prices) /\ Len(amount') = Len(amount) + 1
          /\ \A o \in Made : amount'[o] = amount[o]
      BY <2>1, <2>2 DEF BulkTypeOK, Made
    <2>4. Len(amount') \in Made' /\ Made \subseteq Made' /\ Len(amount') <= MaxOrders
      BY <2>1, <2>3, BulkAssumption DEF Made, BulkTypeOK
    <2>5. Len(amount') \in Orders
      BY <2>3, <2>4, BulkAssumption DEF Orders, Made, BulkTypeOK
    <2>6. m \in Memory /\ m.made = Len(amount') /\ m.order = mem[r].order
      BY <2>2, <2>5 DEF Memory
    <2> HIDE DEF m
    <2>7. Acts(r) /\ doing'[r] = "relock" /\ mem'[r] = m
      BY <2>1, <2>6, Acting DEF BulkStep
    <2>8. shown' \subseteq Made' /\ mem'[r].order \in Made' \cup {NoOrder}
          /\ razorpay_order_id' \in Made' \cup {NoOrder}
      BY <2>1, <2>4, <2>6, <2>7 DEF Numbered, booking
    <2> QED BY <2>1, <2>3, <2>4, <2>6, <2>7, <2>8
            DEF Lawful, booking, history, quote, BulkTypeOK
  <1>4. CASE AttachOrder(r)
    <2>1. /\ Leaves(r)
          /\ UNCHANGED <<status, quote, payment, created, amount, paid, history>>
      BY <1>4 DEF AttachOrder
    <2>2. mem[r].made \in Made
      BY <1>4 DEF AttachOrder, Numbered
    <2>3. /\ shown' \subseteq Made /\ shown \subseteq shown'
          /\ razorpay_order_id' \in Made \cup {NoOrder}
      BY <1>4, <2>2 DEF AttachOrder, Offer, Numbered
    <2>4. Acts(r) /\ doing'[r] = "idle" /\ mem'[r].order = NoOrder
      BY <2>1, Leaving DEF Blank
    <2> QED BY <2>1, <2>3, <2>4 DEF Lawful, history, quote, Made, BulkTypeOK
  <1> QED BY <1>1, <1>2, <1>3, <1>4 DEF PageActs

(* The verify request: a comparison, then a flag or a booking.             *)
LEMMA VerifyLawful ==
  ASSUME BulkInv, NEW r \in Requests, VerifyActs(r) PROVE Lawful(r)
  <1> USE DEF BulkInv
  <1>1. ASSUME NEW o \in Orders, verifyBulkPayment(r, o) PROVE Lawful(r)
    <2>1. UNCHANGED <<booking, razorpay, late>> /\ o \in paid /\ o \in Made
      BY <1>1 DEF verifyBulkPayment, BulkTypeOK, Numbered
    <2>2. CASE order_created \/ ~quote_approved
      <3>1. UNCHANGED <<doing, mem>> /\ refused' \in BOOLEAN /\ doing[r] = "idle"
        BY <1>1, <2>2 DEF verifyBulkPayment, Refuse
      <3>2. Acts(r) /\ mem'[r].order = mem[r].order /\ doing'[r] = "idle"
        BY <3>1 DEF Acts, BulkTypeOK
      <3> QED BY <2>1, <3>1, <3>2, Quiet DEF booking, quote, BulkTypeOK, Numbered
    <2>3. CASE ~(order_created \/ ~quote_approved)
      <3> DEFINE m == [Blank EXCEPT !.order = o]
                 s == IF razorpay_order_id = o /\ ExpectedAmount(o) THEN "lock" ELSE "flag"
      <3>1. mem' = [mem EXCEPT ![r] = m] /\ Moves(r, s) /\ UNCHANGED refused
        BY <1>1, <2>3 DEF verifyBulkPayment, Remember
      <3>2. m \in Memory /\ m.order = o /\ s \in {"lock", "flag"} /\ s \in BulkStep
        BY DEF Blank, Memory, BulkStep
      <3>3. s = "lock" => Fits(o)
        BY <2>1 DEF Fits, ExpectedAmount
      <3> HIDE DEF m, s
      <3>4. Acts(r) /\ doing'[r] = s /\ mem'[r] = m
        BY <3>1, <3>2, Acting
      <3> QED BY <2>1, <3>1, <3>2, <3>3, <3>4, Quiet DEF booking, quote, BulkTypeOK
    <2> QED BY <2>2, <2>3
  <1>2. CASE FlagMismatch(r)
    <2>1. /\ Leaves(r) /\ Refuse /\ Flag
          /\ UNCHANGED <<status, quote, razorpay_order_id, created, razorpay, late>>
      BY <1>2 DEF FlagMismatch
    <2>2. \/ payment' = payment
          \/ payment' \in Payment /\ payment'.status # "paid"
      BY <2>1 DEF Flag, BulkTypeOK, Payment
    <2>3. Acts(r) /\ doing'[r] = "idle" /\ mem'[r].order = NoOrder
      BY <2>1, Leaving DEF Blank
    <2> QED BY <2>1, <2>2, <2>3, Quiet DEF quote, Refuse, BulkTypeOK
  <1>3. CASE LockAndVerify(r)
    <2>1. UNCHANGED <<status, quote, razorpay_order_id, created, razorpay, late>>
      BY <1>3 DEF LockAndVerify
    <2>2. CASE order_created
      <3>1. Leaves(r) /\ refused' \in BOOLEAN /\ UNCHANGED payment
        BY <1>3, <2>2 DEF LockAndVerify, Refuse, BulkTypeOK
      <3>2. Acts(r) /\ doing'[r] = "idle" /\ mem'[r].order = NoOrder
        BY <3>1, Leaving DEF Blank
      <3> QED BY <2>1, <3>1, <3>2, Quiet DEF quote, BulkTypeOK
    <2>3. CASE ~order_created
      <3>1. /\ BookBulkPayment(mem[r].order) /\ Moves(r, "order")
            /\ UNCHANGED <<refused, mem>>
        BY <1>3, <2>3 DEF LockAndVerify
      <3>2. Fits(mem[r].order)
        BY <1>3 DEF LockAndVerify, Matching
      <3>3. \/ payment' = payment
            \/ payment' \in Payment /\ Fits(payment'.id)
        BY <3>1, <3>2 DEF BookBulkPayment, Payment, Fits, BulkTypeOK
      <3>4. Acts(r) /\ doing'[r] = "order" /\ mem'[r] = mem[r]
        BY <3>1, GoingOn DEF BulkStep
      <3> QED BY <2>1, <3>1, <3>3, <3>4, Quiet DEF quote, BulkTypeOK, Numbered
    <2> QED BY <2>2, <2>3
  <1>4. CASE FlagFails(r)
    <2>1. Leaves(r) /\ Refuse /\ UNCHANGED <<booking, razorpay, late>>
      BY <1>4 DEF FlagFails
    <2>2. Acts(r) /\ doing'[r] = "idle" /\ mem'[r].order = NoOrder
      BY <2>1, Leaving DEF Blank
    <2> QED BY <2>1, <2>2, Quiet DEF booking, quote, Refuse, BulkTypeOK
  <1> QED BY <1>1, <1>2, <1>3, <1>4 DEF VerifyActs

LEMMA OthersLawful ==
  ASSUME BulkInv, NEW r \in Requests,
         approveBulkQuote(r) \/ WriteApproval(r) \/ RequestEnds(r)
  PROVE  Lawful(r)
  <1> USE DEF BulkInv
  <1>1. CASE approveBulkQuote(r)
    <2>1. Moves(r, "approve") /\ UNCHANGED <<booking, razorpay, history, mem>>
      BY <1>1 DEF approveBulkQuote
    <2>2. Acts(r) /\ doing'[r] = "approve" /\ mem'[r] = mem[r]
      BY <2>1, GoingOn DEF BulkStep
    <2> QED BY <2>1, <2>2, Quiet DEF booking, history, quote, BulkTypeOK, Numbered
  <1>2. CASE WriteApproval(r)
    <2>1. /\ quote_approved' = TRUE /\ Leaves(r)
          /\ UNCHANGED <<status, quote_price, quote_expires_at, razorpay_order_id,
                         payment, created, razorpay, history>>
      BY <1>2 DEF WriteApproval
    <2>2. Acts(r) /\ doing'[r] = "idle" /\ mem'[r].order = NoOrder
      BY <2>1, Leaving DEF Blank
    <2> QED BY <2>1, <2>2, Quiet DEF history, BulkTypeOK
  <1>3. CASE RequestEnds(r)
    <2>1. Leaves(r) /\ UNCHANGED <<booking, razorpay, history>>
      BY <1>3 DEF RequestEnds
    <2>2. Acts(r) /\ doing'[r] = "idle" /\ mem'[r].order = NoOrder
      BY <2>1, Leaving DEF Blank
    <2> QED BY <2>1, <2>2, Quiet DEF booking, history, quote, BulkTypeOK
  <1> QED BY <1>1, <1>2, <1>3

(* The order is made of a booking that has none, for what fits the quote.  *)
LEMMA OrderIsMade ==
  ASSUME BulkInv, NEW r \in Requests, createOrderFromBulkBooking(r)
  PROVE  BulkInv'
  <1> USE DEF BulkInv
  <1>1. /\ Leaves(r) /\ status' = "confirmed"
        /\ UNCHANGED <<quote, razorpay_order_id, payment, razorpay, history>>
        /\ created = <<>> /\ payment.status = "paid"
        /\ created' = Append(created, [price |-> quote_price, payment |-> payment.id])
    BY DEF createOrderFromBulkBooking, assertBookingConfirmable, order_created
  <1>2. Acts(r) /\ doing'[r] = "idle" /\ mem'[r].order = NoOrder
    BY <1>1, Leaving DEF Blank
  <1>3. Len(created') = 1 /\ DOMAIN created' = {1}
        /\ created'[1] = [price |-> quote_price, payment |-> payment.id]
    BY <1>1
  <1>4. Fits(payment.id)
    BY <1>1 DEF Matching
  <1>5. BulkTypeOK'
    BY <1>1, <1>2, <1>3 DEF BulkTypeOK, Acts, Payment, quote, razorpay, history,
       BookingStatus
  <1>6. Numbered'
    <2>1. Made' = Made
      BY <1>1 DEF Made, razorpay
    <2> QED BY <1>1, <1>2, <2>1 DEF Numbered, Acts, razorpay
  <1>7. Matching'
    BY <1>1, <1>2 DEF Matching, Fits, Acts, quote, razorpay, history
  <1>8. OneOrder' /\ OrderIsPaidFor'
    BY <1>1, <1>3, <1>4 DEF OneOrder, OrderIsPaidFor, Fits, razorpay, history
  <1> QED BY <1>5, <1>6, <1>7, <1>8

LEMMA BulkKeeps == BulkInv /\ [BulkNext]_bulkVars => BulkInv'
  <1> SUFFICES ASSUME BulkInv, [BulkNext]_bulkVars PROVE BulkInv'
    OBVIOUS
  <1>1. ASSUME NEW o \in Orders, CustomerPays(o) PROVE BulkInv'
    <2>1. /\ paid' = paid \cup {o} /\ o \in shown
          /\ UNCHANGED <<booking, amount, shown, history, doing, mem>>
      BY <1>1 DEF CustomerPays
    <2> QED BY <2>1 DEF BulkInv, BulkTypeOK, Numbered, Made, Matching, Fits, OneOrder,
            OrderIsPaidFor, booking, quote, history
  <1>2. CASE QuoteExpires
    <2>1. /\ quote_expires_at' = "past"
          /\ UNCHANGED <<status, quote_price, quote_approved, razorpay_order_id,
                         payment, created, razorpay, history, doing, mem>>
      BY <1>2 DEF QuoteExpires
    <2> QED BY <2>1 DEF BulkInv, BulkTypeOK, Numbered, Made, Matching, Fits, OneOrder,
            OrderIsPaidFor, razorpay, history
  <1>3. CASE UNCHANGED bulkVars
    BY <1>3 DEF bulkVars, BulkInv, BulkTypeOK, Numbered, Made, Matching, Fits, OneOrder,
       OrderIsPaidFor, booking, quote, razorpay, history
  <1>4. ASSUME NEW r \in Requests, Lawful(r) PROVE BulkInv'
    BY <1>4, LawfulKeeps
  <1> QED BY <1>1, <1>2, <1>3, <1>4, AdminLawful, PageLawful, VerifyLawful,
             OthersLawful, OrderIsMade DEF BulkNext

LEMMA BulkBegins == BulkInit => BulkInv
  <1> SUFFICES ASSUME BulkInit PROVE BulkInv
    OBVIOUS
  <1> USE DEF BulkInit
  <1>1. BulkTypeOK
    <2>1. /\ amount \in Seq(Prices) /\ Len(amount) = 0 /\ MaxOrders >= 0
          /\ DOMAIN created = {}
      BY BulkAssumption
    <2>2. /\ mem \in [Requests -> Memory] /\ doing \in [Requests -> BulkStep]
      BY BlankTyped DEF BulkStep
    <2>3. payment \in Payment /\ razorpay_order_id = NoOrder
      BY DEF Payment
    <2>4. /\ status \in BookingStatus /\ quote_price = NoPrice
          /\ quote_approved = FALSE /\ quote_expires_at = "null"
          /\ shown = {} /\ paid = {} /\ refused = FALSE /\ late = FALSE
      BY DEF BookingStatus
    <2> HIDE DEF BulkInit
    <2> QED BY <2>1, <2>2, <2>3, <2>4 DEF BulkTypeOK
  <1>2. Numbered
    BY DEF Numbered, Blank
  <1>3. Matching /\ OneOrder /\ OrderIsPaidFor
    BY DEF Matching, OneOrder, OrderIsPaidFor
  <1> QED BY <1>1, <1>2, <1>3 DEF BulkInv

(* At most one order is made of a bulk booking, and it was paid for, in    *)
(* full unless the price changed after a payment: however many requests    *)
(* quote, approve, page, pay, verify and confirm at once.                  *)
THEOREM BulkCorrect == BulkSpec => []BulkSafe
  <1>1. BulkInv => BulkSafe
    BY DEF BulkInv, BulkSafe
  <1> QED BY <1>1, BulkBegins, BulkKeeps, PTL DEF BulkSpec

(* No second payment, and no flag of a stale one, takes the place of the   *)
(* payment that a booking has.                                             *)
THEOREM BulkStaysPaid == BulkSpec => PaidStaysPaid
  <1> DEFINE Stays == payment.status = "paid" => payment' = payment
  <1>1. BulkInv /\ [BulkNext]_bulkVars => [Stays]_bulkVars
    <2> SUFFICES ASSUME BulkInv, [BulkNext]_bulkVars PROVE Stays
      OBVIOUS
    <2>1. ASSUME NEW r \in Requests,
                 \/ AdminActs(r) \/ PageActs(r) \/ RequestEnds(r)
                 \/ approveBulkQuote(r) \/ WriteApproval(r)
                 \/ createOrderFromBulkBooking(r)
          PROVE  payment' = payment
      BY <2>1 DEF AdminActs, updateBulkBooking, WriteUpdate, ConfirmLocked, PageActs,
         getBulkPaymentDetails, ReuseOrder, CreateOrder, AttachOrder, RequestEnds,
         approveBulkQuote, WriteApproval, createOrderFromBulkBooking, booking
    <2>2. ASSUME NEW r \in Requests, VerifyActs(r) PROVE Stays
      <3>1. ASSUME NEW o \in Orders, verifyBulkPayment(r, o) PROVE payment' = payment
        BY <3>1 DEF verifyBulkPayment, booking
      <3>2. CASE FlagMismatch(r) \/ FlagFails(r)
        BY <3>2 DEF FlagMismatch, FlagFails, Flag, BulkInv, BulkTypeOK, Payment,
           booking
      <3>3. CASE LockAndVerify(r)
        BY <3>3 DEF LockAndVerify, BookBulkPayment
      <3> QED BY <2>2, <3>1, <3>2, <3>3 DEF VerifyActs
    <2>3. ASSUME NEW o \in Orders, CustomerPays(o) PROVE payment' = payment
      BY <2>3 DEF CustomerPays, booking
    <2>4. CASE QuoteExpires \/ UNCHANGED bulkVars
      BY <2>4 DEF QuoteExpires, bulkVars, booking
    <2> QED BY <2>1, <2>2, <2>3, <2>4 DEF BulkNext
  <1> QED BY <1>1, BulkBegins, BulkKeeps, PTL DEF BulkSpec, PaidStaysPaid

-----------------------------------------------------------------------------
(* The subscription.                                                       *)
(*                                                                         *)
(* Each charge becomes one order because a renewal's and the first order's *)
(* payment ids are kept apart, and no renewal order ever disappears. That  *)
(* the status agrees with Razorpay's when all is at rest needs to know, at *)
(* every moment, what the last event says (Told), what those who are about *)
(* to write have seen (Heard) and that events were written in turn.        *)

Event == [kind: NewsKind, charge: 1..(total_count + 1)]

HandlingStatus == {"due", "again", "renewing", "done"}

GatewayRow == [status: GatewayStatus, charges: 0..total_count, ending: BOOLEAN]

AskedRow == [at: {"idle", "call", "save"}, seen: Nat,
             write: {"none", "paused", "active", "cancellation_requested"}]

ListingRow == [at: {"idle", "read", "save"}, seen: Nat,
               write: GatewayStatus \cup PROTECTED_SYNC_STATUSES]

Sized ==
  /\ handled \in Seq(HandlingStatus) /\ Len(handled) = Len(news)
  /\ \A i \in DOMAIN news :
       /\ news[i].kind = "charged" => news[i].charge \in Charges
       /\ handled[i] = "renewing" => news[i].kind = "charged"
  /\ asked \in [Requesters -> AskedRow] /\ listing \in ListingRow
  /\ listing.at # "idle" => listing.write # "none"

(* The last event but a charge, which comes with its capture.              *)
Latest == IF news # <<>> /\ news[Len(news)].kind = "charged"
            THEN Len(news) - 1 ELSE Len(news)

(* Razorpay's status is what its last event says.                          *)
Told ==
  /\ news = <<>> => gateway.status \in {"none", "created"} /\ gateway.charges = 0
  /\ news # <<>> =>
       /\ Latest \in DOMAIN news /\ news[Latest].kind # "charged"
       /\ gateway.status \notin {"none", "created"}
       /\ SameStatus(gateway.status) = Shown(news[Latest].kind)
       /\ news[Len(news)].kind = "charged" => gateway.status = "active"
  /\ gateway.status = "none" => ~Saved /\ listing.at = "idle"

(* Whoever writes what was true after so many events knows that; ...       *)
Known(n) == n = Len(news) \/ n < Latest

Heard ==
  /\ listing.at # "idle" => Known(listing.seen)
  /\ listing.at # "idle" /\ listing.seen = Len(news) =>
       listing.write \in PROTECTED_SYNC_STATUSES \cup {gateway.status}
  /\ \A r \in Requesters : asked[r].at = "save" =>
       /\ Known(asked[r].seen)
       /\ asked[r].seen = Len(news) =>
            /\ asked[r].write \in {"paused", "active"} =>
                 gateway.status = asked[r].write
            /\ asked[r].write = "cancellation_requested" =>
                 gateway.ending /\ gateway.status \in {"active", "pending", "paused"}

(* ... and an event that was handled in its turn came after the others.    *)
InTurn ==
  ~overtaken => \A i \in DOMAIN news :
    handled[i] \in {"again", "done"} /\ news[i].kind # "charged"
      => \A j \in 1..i - 1 : handled[j] = "done"

Agrees ==
  LET s == origin.subscription_status IN
  \/ SameStatus(s) = SameStatus(gateway.status)
  \/ gateway.status = "pending" /\ origin.payment_status = "failed"
  \/ /\ s = "cancellation_requested" /\ gateway.ending
     /\ gateway.status \notin {"cancelled", "completed"}

Current ==
  ~overtaken /\ Saved /\ (news = <<>> \/ handled[Latest] \in {"again", "done"})
    => Agrees


BooksInv == SubscriptionTypeOK /\ Sized /\ OneOrderPerCharge /\ ChargeIsBooked

AgreeInv == Told /\ Heard /\ InTurn /\ Current

SubscriptionInv == BooksInv /\ AgreeInv

LEMMA SubscriptionBegins == SubscriptionInit => SubscriptionInv
  <1> SUFFICES ASSUME SubscriptionInit PROVE SubscriptionInv
    OBVIOUS
  <1> USE DEF SubscriptionInit
  <1>1. SubscriptionTypeOK
    <2>1. /\ gateway \in [status: GatewayStatus, charges: 0..total_count, ending: BOOLEAN]
          /\ origin \in OriginRow
      BY SubscriptionAssumption DEF GatewayStatus, OriginRow
    <2>2. /\ news \in Seq([kind: NewsKind, charge: 1..(total_count + 1)])
          /\ Len(news) <= MaxNews
          /\ handled \in [DOMAIN news -> {"due", "again", "renewing", "done"}]
      BY SubscriptionAssumption
    <2>3. renewal \in [Charges -> SubscriptionStatus \cup {"none"}]
      OBVIOUS
    <2> QED BY <2>1, <2>2, <2>3 DEF SubscriptionTypeOK
  <1>2. Sized
    <2>1. handled \in Seq(HandlingStatus) /\ Len(handled) = Len(news) /\ DOMAIN news = {}
      OBVIOUS
    <2> QED BY <2>1 DEF Sized, Idle, GatewayStatus, AskedRow, ListingRow
  <1>3. OneOrderPerCharge /\ ChargeIsBooked
    BY DEF OneOrderPerCharge, ChargeIsBooked
  <1>4. Told /\ Heard
    BY DEF Told, Heard, Idle, Saved
  <1>5. InTurn /\ Current
    BY DEF InTurn, Current, Saved
  <1> QED BY <1>1, <1>2, <1>3, <1>4, <1>5 DEF SubscriptionInv, BooksInv, AgreeInv

LEMMA Joined ==
  ASSUME NEW S, NEW s \in Seq(S), NEW t \in Seq(S)
  PROVE  /\ s \o t \in Seq(S) /\ Len(s \o t) = Len(s) + Len(t)
         /\ \A i \in 1..Len(s) : (s \o t)[i] = s[i]
         /\ \A i \in 1..Len(t) : (s \o t)[Len(s) + i] = t[i]
  OBVIOUS

(* What Tell adds comes after all that is there. *)
LEMMA Telling ==
  ASSUME BooksInv, NEW events \in Seq(Event), Tell(events)
  PROVE  /\ news' \in Seq(Event) /\ Len(news') <= MaxNews
         /\ handled' \in Seq(HandlingStatus)
         /\ Len(news') = Len(news) + Len(events) /\ Len(handled') = Len(news')
         /\ \A i \in 1..Len(news) : news'[i] = news[i] /\ handled'[i] = handled[i]
         /\ \A i \in 1..Len(events) :
              /\ news'[Len(news) + i] = events[i]
              /\ handled'[Len(news) + i] = "due"
  <1> DEFINE due == [i \in 1..Len(events) |-> "due"]
  <1>1. /\ news' = news \o events /\ handled' = handled \o due
        /\ Len(news) + Len(events) <= MaxNews
    BY DEF Tell
  <1>2. news \in Seq(Event) /\ handled \in Seq(HandlingStatus) /\ Len(handled) = Len(news)
    BY DEF BooksInv, SubscriptionTypeOK, Sized, Event
  <1>3. /\ due \in Seq(HandlingStatus) /\ Len(due) = Len(events)
        /\ \A i \in 1..Len(events) : due[i] = "due"
    BY DEF HandlingStatus
  <1> HIDE DEF due
  <1>4. /\ news' \in Seq(Event) /\ Len(news') = Len(news) + Len(events)
        /\ \A i \in 1..Len(news) : news'[i] = news[i]
        /\ \A i \in 1..Len(events) : news'[Len(news) + i] = events[i]
    BY <1>1, <1>2, Joined
  <1>5. /\ handled' \in Seq(HandlingStatus) /\ Len(handled') = Len(handled) + Len(due)
        /\ \A i \in 1..Len(handled) : handled'[i] = handled[i]
        /\ \A i \in 1..Len(due) : handled'[Len(handled) + i] = due[i]
    <2>1. handled \in Seq(HandlingStatus) /\ due \in Seq(HandlingStatus)
      BY <1>2, <1>3
    <2>2. handled' = handled \o due
      BY <1>1
    <2>3. /\ handled \o due \in Seq(HandlingStatus)
          /\ Len(handled \o due) = Len(handled) + Len(due)
          /\ \A i \in 1..Len(handled) : (handled \o due)[i] = handled[i]
          /\ \A i \in 1..Len(due) : (handled \o due)[Len(handled) + i] = due[i]
      BY <2>1, Joined
    <2> QED BY <2>2, <2>3
  <1> QED BY <1>1, <1>2, <1>3, <1>4, <1>5

(* A step that tells of something keeps the books: nothing is handled yet. *)
LEMMA BooksTold ==
  ASSUME BooksInv, NEW events \in Seq(Event), Tell(events),
         \A i \in 1..Len(events) :
           events[i].kind = "charged" => events[i].charge \in Charges,
         gateway' \in GatewayRow, asked' \in [Requesters -> AskedRow],
         UNCHANGED <<origin, renewal, listing, swallowed>>, overtaken' \in BOOLEAN
  PROVE  BooksInv'
  <1>1. /\ news' \in Seq(Event) /\ Len(news') <= MaxNews
        /\ handled' \in Seq(HandlingStatus)
        /\ Len(news') = Len(news) + Len(events) /\ Len(handled') = Len(news')
        /\ \A i \in 1..Len(news) : news'[i] = news[i] /\ handled'[i] = handled[i]
        /\ \A i \in 1..Len(events) :
             /\ news'[Len(news) + i] = events[i]
             /\ handled'[Len(news) + i] = "due"
    BY Telling
  <1>2. news \in Seq(Event) /\ Len(news) \in Nat /\ Len(events) \in Nat
    BY DEF BooksInv, SubscriptionTypeOK, Event
  <1>3. DOMAIN news = 1..Len(news) /\ DOMAIN news' = 1..Len(news')
    BY <1>1, <1>2
  <1>4. SubscriptionTypeOK'
    BY <1>1, <1>3 DEF BooksInv, SubscriptionTypeOK, GatewayRow, Event, HandlingStatus
  <1>5. ASSUME NEW i \in DOMAIN news', i \notin DOMAIN news
        PROVE  /\ handled'[i] = "due"
               /\ news'[i].kind = "charged" => news'[i].charge \in Charges
    <2>1. i - Len(news) \in 1..Len(events) /\ i = Len(news) + (i - Len(news))
      BY <1>1, <1>2, <1>3, <1>5
    <2> QED BY <1>1, <2>1
  <1>6. ASSUME NEW i \in DOMAIN news
        PROVE  news'[i] = news[i] /\ handled'[i] = handled[i]
    BY <1>1, <1>3
  <1>7. Sized'
    <2>1. \A i \in DOMAIN news' :
            /\ news'[i].kind = "charged" => news'[i].charge \in Charges
            /\ handled'[i] = "renewing" => news'[i].kind = "charged"
      BY <1>5, <1>6 DEF BooksInv, Sized
    <2> QED BY <1>1, <2>1 DEF BooksInv, Sized
  <1>8. OneOrderPerCharge' /\ ChargeIsBooked'
    BY <1>5, <1>6 DEF BooksInv, OneOrderPerCharge, ChargeIsBooked, Booked
  <1> QED BY <1>4, <1>7, <1>8 DEF BooksInv

(* What every other step does.                                             *)
Keeps ==
  /\ gateway' \in GatewayRow /\ news' = news
  /\ handled' \in Seq(HandlingStatus) /\ Len(handled') = Len(news)
  /\ \A i \in DOMAIN news : handled'[i] = handled[i] \/
       /\ handled'[i] = "renewing" => news[i].kind = "charged"
       /\ news[i].kind = "charged" /\ handled'[i] = "done" =>
            Booked(news[i].charge)' \/ news[i].charge \in swallowed'
  /\ origin' \in OriginRow /\ renewal' \in [Charges -> SubscriptionStatus \cup {"none"}]
  /\ OneOrderPerCharge' /\ \A c \in Charges : Booked(c) => Booked(c)'
  /\ asked' \in [Requesters -> AskedRow] /\ listing' \in ListingRow
  /\ listing'.at # "idle" => listing'.write # "none"
  /\ swallowed \subseteq swallowed' /\ swallowed' \subseteq Charges
  /\ overtaken' \in BOOLEAN

LEMMA BooksKept ==
  ASSUME BooksInv, Keeps
  PROVE  BooksInv'
  <1> USE DEF BooksInv, Keeps
  <1>1. DOMAIN handled' = DOMAIN news' /\ DOMAIN news' = DOMAIN news
    BY DEF SubscriptionTypeOK
  <1>2. SubscriptionTypeOK'
    BY <1>1 DEF SubscriptionTypeOK, GatewayRow, HandlingStatus
  <1>3. Sized'
    BY <1>1 DEF Sized
  <1>4. ChargeIsBooked'
    BY <1>1 DEF ChargeIsBooked, Sized
  <1> QED BY <1>2, <1>3, <1>4

(* What the steps of the subscription leave as it is, as the books see it. *)
LEMMA BooksAsTheyWere ==
  ASSUME BooksInv
  PROVE  /\ gateway \in GatewayRow /\ handled \in Seq(HandlingStatus)
         /\ Len(handled) = Len(news) /\ DOMAIN news = 1..Len(news)
         /\ origin \in OriginRow
         /\ renewal \in [Charges -> SubscriptionStatus \cup {"none"}]
         /\ asked \in [Requesters -> AskedRow] /\ listing \in ListingRow
         /\ listing.at # "idle" => listing.write # "none"
         /\ swallowed \subseteq Charges /\ overtaken \in BOOLEAN
         /\ \A i \in DOMAIN news :
              /\ news[i].kind \in NewsKind
              /\ news[i].kind = "charged" => news[i].charge \in Charges
  <1>1. news \in Seq(Event)
    BY DEF BooksInv, SubscriptionTypeOK, Event
  <1>2. \A i \in DOMAIN news : news[i] \in Event
    BY <1>1
  <1>3. \A i \in DOMAIN news : news[i].kind \in NewsKind
    BY <1>2 DEF Event
  <1> QED BY <1>1, <1>3 DEF BooksInv, SubscriptionTypeOK, Sized, GatewayRow

LEMMA StatusWritten ==
  ASSUME NEW o \in OriginRow, NEW s \in SubscriptionStatus
  PROVE  /\ Becomes(o, s) \in OriginRow /\ Becomes(o, s).payment = o.payment
         /\ Becomes(o, s).subscription_status = s
         /\ Becomes(o, s).payment_status = o.payment_status
         /\ \A p \in {"paid", "failed"} :
              /\ Unless(o, s, p) \in OriginRow
              /\ Unless(o, s, p).payment = o.payment
              /\ Unless(o, s, p).subscription_status = s
  BY DEF OriginRow, Becomes, Unless, SubscriptionStatus, GatewayStatus

LEMMA FailureWritten ==
  ASSUME NEW o \in OriginRow
  PROVE  /\ payment_failed(o) \in OriginRow /\ payment_failed(o).payment = o.payment
         /\ payment_failed(o).payment_status = "failed"
  BY DEF OriginRow, Becomes, payment_failed, SubscriptionStatus, GatewayStatus

(* One event's handling has become s. *)
LEMMA HandlingWritten ==
  ASSUME BooksInv, NEW i \in DOMAIN news, NEW s \in HandlingStatus, Handled(i, s)
  PROVE  /\ handled' \in Seq(HandlingStatus) /\ Len(handled') = Len(news)
         /\ handled'[i] = s
         /\ \A j \in DOMAIN news \ {i} : handled'[j] = handled[j]
  BY BooksAsTheyWere DEF Handled

(* What the handling of one event writes on the first order. *)
LEMMA EventWritten ==
  ASSUME BooksInv, NEW i \in DOMAIN news, HandleEvent(i)
  PROVE  /\ news[i].kind # "charged" /\ handled[i] \in {"due", "again"}
         /\ origin' \in OriginRow /\ origin'.payment = origin.payment
         /\ Saved' <=> Saved
         /\ ~Saved => origin' = origin
         /\ Saved /\ news[i].kind # "failed" =>
              origin'.subscription_status = Shown(news[i].kind)
         /\ Saved /\ news[i].kind = "failed" =>
              /\ origin'.payment_status = "failed"
              /\ \/ origin' = origin
                 \/ origin'.subscription_status = "past_due"
  <1> DEFINE k == news[i].kind
  <1>1. k \in NewsKind /\ k # "charged" /\ handled[i] \in {"due", "again"}
    <2>1. k # "charged" /\ handled[i] \in {"due", "again"}
      BY DEF HandleEvent
    <2> QED BY <2>1, BooksAsTheyWere
  <1>2. origin \in OriginRow
    BY BooksAsTheyWere
  <1>3. /\ {"active", "paused", "halted", "cancelled", "expired", "past_due"}
             \subseteq SubscriptionStatus
        /\ "none" \notin SubscriptionStatus
    BY DEF SubscriptionStatus, GatewayStatus
  <1>4. CASE ~Saved
    <2>1. origin' = origin
      BY <1>4 DEF HandleEvent
    <2> QED BY <1>1, <1>2, <1>4, <2>1 DEF Saved
  <1>5. CASE Saved /\ k = "failed"
    <2>1. origin' = payment_failed(origin)
      BY <1>5 DEF HandleEvent
    <2>2. \/ origin' = origin
          \/ origin'.subscription_status = "past_due"
      BY <1>2, <2>1 DEF payment_failed, Becomes, OriginRow
    <2> QED BY <1>1, <1>2, <1>3, <1>5, <2>1, <2>2, FailureWritten DEF Saved
  <1>6. CASE Saved /\ k # "failed"
    <2>1. \/ k = "captured" /\ origin' = Unless(origin, "active", "paid")
          \/ k = "paused" /\ origin' = Becomes(origin, "paused")
          \/ k = "resumed" /\ origin' = Becomes(origin, "active")
          \/ k = "halted" /\ origin' = Unless(origin, "halted", "failed")
          \/ k = "cancelled" /\ origin' = Becomes(origin, "cancelled")
          \/ k = "completed" /\ origin' = Becomes(origin, "expired")
      BY <1>1, <1>6 DEF HandleEvent, NewsKind, payment_captured, subscription_paused,
         subscription_resumed, subscription_halted, subscription_cancelled,
         subscription_completed
    <2>2. \E s \in SubscriptionStatus, p \in {"paid", "failed"} :
            s = Shown(k) /\ origin' \in {Becomes(origin, s), Unless(origin, s, p)}
      BY <1>3, <2>1 DEF Shown
    <2>3. /\ origin' \in OriginRow /\ origin'.payment = origin.payment
          /\ origin'.subscription_status = Shown(k)
          /\ Shown(k) \in SubscriptionStatus
      BY <1>2, <2>2, StatusWritten
    <2> QED BY <1>1, <1>3, <1>6, <2>3 DEF Saved
  <1> QED BY <1>4, <1>5, <1>6

LEMMA EventKeeps ==
  ASSUME BooksInv, NEW i \in DOMAIN news, HandleEvent(i)
  PROVE  Keeps
  <1>1. /\ news' = news /\ UNCHANGED <<gateway, asked, listing, renewal, swallowed>>
        /\ \E s \in {"done", "again"} : Handled(i, s)
        /\ overtaken' = (overtaken \/ OutOfTurn(i))
    <2>1. OnlyNews /\ UNCHANGED <<renewal, swallowed>>
          /\ overtaken' = (overtaken \/ OutOfTurn(i))
      BY DEF HandleEvent
    <2>2. Handled(i, "done") \/ Handled(i, "again")
      BY DEF HandleEvent
    <2> QED BY <2>1, <2>2 DEF OnlyNews
  <1>2. PICK s \in {"done", "again"} : Handled(i, s)
    BY <1>1
  <1>3. /\ handled' \in Seq(HandlingStatus) /\ Len(handled') = Len(news)
        /\ handled'[i] = s /\ \A j \in DOMAIN news \ {i} : handled'[j] = handled[j]
    BY <1>2, HandlingWritten DEF HandlingStatus
  <1>4. news[i].kind # "charged" /\ origin' \in OriginRow
        /\ origin'.payment = origin.payment
    BY EventWritten
  <1>5. OneOrderPerCharge' /\ \A c \in Charges : Booked(c) => Booked(c)'
    BY <1>1, <1>4 DEF BooksInv, OneOrderPerCharge, Booked
  <1>6. overtaken' \in BOOLEAN
    BY <1>1, BooksAsTheyWere
  <1> QED BY <1>1, <1>3, <1>4, <1>5, <1>6, BooksAsTheyWere DEF Keeps

LEMMA LookupKeeps ==
  ASSUME BooksInv, NEW i \in DOMAIN news, LookForRenewal(i)
  PROVE  Keeps
  <1> DEFINE s == IF renewal[news[i].charge] = "none" THEN "renewing" ELSE "done"
  <1>1. /\ news' = news /\ UNCHANGED <<gateway, asked, listing, origin, renewal, swallowed>>
        /\ overtaken' = overtaken /\ news[i].kind = "charged" /\ Handled(i, s)
    BY DEF LookForRenewal, OnlyNews
  <1>2. s \in HandlingStatus /\ (s = "done" => Booked(news[i].charge))
    BY DEF HandlingStatus, Booked
  <1> HIDE DEF s
  <1>3. /\ handled' \in Seq(HandlingStatus) /\ Len(handled') = Len(news)
        /\ handled'[i] = s /\ \A j \in DOMAIN news \ {i} : handled'[j] = handled[j]
    BY <1>1, <1>2, HandlingWritten
  <1>4. OneOrderPerCharge' /\ \A c : Booked(c)' <=> Booked(c)
    BY <1>1 DEF BooksInv, OneOrderPerCharge, Booked
  <1> QED BY <1>1, <1>2, <1>3, <1>4, BooksAsTheyWere DEF Keeps

(* The renewal is booked unless its payment id is another order's. *)
LEMMA RenewalKeeps ==
  ASSUME BooksInv, NEW i \in DOMAIN news, createRenewalOrder(i)
  PROVE  Keeps
  <1> DEFINE c == news[i].charge
  <1>1. /\ news' = news /\ UNCHANGED <<gateway, asked, listing, swallowed>>
        /\ handled[i] = "renewing" /\ PaymentIdIsNew(c)
        /\ renewal' = [renewal EXCEPT ![c] = "active"]
        /\ origin' = Becomes(origin, "active")
        /\ Handled(i, "done") /\ overtaken' = (overtaken \/ OutOfTurn(i))
    BY DEF createRenewalOrder, OnlyNews, Becomes
  <1>2. /\ handled' \in Seq(HandlingStatus) /\ Len(handled') = Len(news)
        /\ handled'[i] = "done" /\ \A j \in DOMAIN news \ {i} : handled'[j] = handled[j]
    BY <1>1, HandlingWritten DEF HandlingStatus
  <1>3. /\ origin' \in OriginRow /\ origin'.payment = origin.payment
    BY <1>1, BooksAsTheyWere, StatusWritten DEF SubscriptionStatus, GatewayStatus
  <1>4. news[i].kind = "charged" /\ c \in Charges
    BY <1>1, BooksAsTheyWere DEF BooksInv, Sized
  <1>5. /\ renewal' \in [Charges -> SubscriptionStatus \cup {"none"}]
        /\ renewal'[c] = "active" /\ \A d \in Charges \ {c} : renewal'[d] = renewal[d]
    BY <1>1, <1>4, BooksAsTheyWere DEF SubscriptionStatus, GatewayStatus
  <1>6. /\ OneOrderPerCharge' /\ Booked(c)'
        /\ \A d \in Charges : Booked(d) => Booked(d)'
    BY <1>1, <1>3, <1>4, <1>5 DEF BooksInv, OneOrderPerCharge, Booked, PaymentIdIsNew
  <1>7. overtaken' \in BOOLEAN
    BY <1>1, BooksAsTheyWere
  <1> QED BY <1>1, <1>2, <1>3, <1>4, <1>5, <1>6, <1>7, BooksAsTheyWere DEF Keeps

LEMMA ThrowKeeps ==
  ASSUME BooksInv, NEW i \in DOMAIN news, RenewalThrows(i)
  PROVE  Keeps
  <1>1. /\ news' = news /\ UNCHANGED <<gateway, asked, listing, origin, renewal>>
        /\ overtaken' = overtaken /\ handled[i] = "renewing" /\ Handled(i, "done")
        /\ swallowed' = swallowed \cup {news[i].charge}
    BY DEF RenewalThrows, OnlyNews
  <1>2. /\ handled' \in Seq(HandlingStatus) /\ Len(handled') = Len(news)
        /\ \A j \in DOMAIN news \ {i} : handled'[j] = handled[j]
    BY <1>1, HandlingWritten DEF HandlingStatus
  <1>3. news[i].kind = "charged" /\ news[i].charge \in Charges
    BY <1>1, BooksAsTheyWere DEF BooksInv, Sized
  <1>4. OneOrderPerCharge' /\ \A d \in Charges : Booked(d) => Booked(d)'
    BY <1>1 DEF BooksInv, OneOrderPerCharge, Booked
  <1> QED BY <1>1, <1>2, <1>3, <1>4, BooksAsTheyWere DEF Keeps

LEMMA OriginKeeps ==
  ASSUME BooksInv, createSubscription \/ verifySubscriptionPayment
  PROVE  Keeps
  <1>1. UNCHANGED <<gateway, news, handled, renewal, asked, listing, swallowed>>
    BY DEF createSubscription, verifySubscriptionPayment
  <1>2. CASE createSubscription
    <2>1. origin' = Becomes(origin, "created") /\ overtaken' = overtaken
      BY <1>2 DEF createSubscription, Becomes
    <2>2. origin' \in OriginRow /\ origin'.payment = origin.payment
      BY <2>1, BooksAsTheyWere, StatusWritten DEF SubscriptionStatus, GatewayStatus
    <2>3. OneOrderPerCharge' /\ \A d \in Charges : Booked(d) => Booked(d)'
      BY <1>1, <2>2 DEF BooksInv, OneOrderPerCharge, Booked
    <2> QED BY <1>1, <2>1, <2>2, <2>3, BooksAsTheyWere DEF Keeps
  <1>3. CASE verifySubscriptionPayment
    <2>1. /\ origin' = [subscription_status |-> "active", payment_status |-> "paid",
                        payment |-> 1]
          /\ origin.payment = 0 /\ PaymentIdIsNew(1)
          /\ overtaken' = (overtaken \/ Outdated(0, "active"))
      BY <1>3 DEF verifySubscriptionPayment
    <2>2. origin' \in OriginRow /\ origin'.payment = 1 /\ overtaken' \in BOOLEAN
      BY <2>1, SubscriptionAssumption, BooksAsTheyWere
         DEF OriginRow, SubscriptionStatus, GatewayStatus, Charges
    <2>3. OneOrderPerCharge' /\ \A d \in Charges : Booked(d) => Booked(d)'
      BY <1>1, <2>1, <2>2 DEF BooksInv, OneOrderPerCharge, Booked, PaymentIdIsNew, Charges
    <2> QED BY <1>1, <2>2, <2>3, BooksAsTheyWere DEF Keeps
  <1> QED BY <1>2, <1>3

(* A request that was read, or that ends, or whose UPDATE is done. *)
Requested(r) ==
  /\ asked' \in [Requesters -> AskedRow]
  /\ \A q \in Requesters \ {r} : asked'[q] = asked[q]

LEMMA Requesting ==
  ASSUME BooksInv, NEW r \in Requesters, NEW a \in AskedRow, Goes(r, a)
  PROVE  Requested(r) /\ asked'[r] = a
  BY BooksAsTheyWere DEF Goes, Requested

LEMMA RequestBegins ==
  ASSUME BooksInv, NEW r \in Requesters,
         NEW w \in {"paused", "active", "cancellation_requested"}, Begin(r, w)
  PROVE  Requested(r) /\ asked'[r].at = "call" /\ Keeps
  <1>1. /\ Goes(r, [at |-> "call", write |-> w, seen |-> 0])
        /\ UNCHANGED <<gateway, news, handled, origin, overtaken, renewal, listing,
                       swallowed>>
    BY DEF Begin, OnlyRequest
  <1>2. [at |-> "call", write |-> w, seen |-> 0] \in AskedRow
    BY DEF AskedRow
  <1>3. Requested(r) /\ asked'[r] = [at |-> "call", write |-> w, seen |-> 0]
    BY <1>1, <1>2, Requesting
  <1>4. OneOrderPerCharge' /\ \A d : Booked(d) <=> Booked(d)'
    BY <1>1 DEF BooksInv, OneOrderPerCharge, Booked
  <1> QED BY <1>1, <1>3, <1>4, BooksAsTheyWere DEF Keeps, Requested

LEMMA RequestGivesUp ==
  ASSUME BooksInv, NEW r \in Requesters, RequestFails(r)
  PROVE  Requested(r) /\ asked'[r].at = "idle" /\ Keeps
  <1>1. /\ Goes(r, Idle)
        /\ UNCHANGED <<gateway, news, handled, origin, overtaken, renewal, listing,
                       swallowed>>
    BY DEF RequestFails, OnlyRequest, Ends
  <1>2. Idle \in AskedRow /\ Idle.at = "idle"
    BY DEF AskedRow, Idle
  <1>3. Requested(r) /\ asked'[r] = Idle
    BY <1>1, <1>2, Requesting
  <1>4. OneOrderPerCharge' /\ \A d : Booked(d) <=> Booked(d)'
    BY <1>1 DEF BooksInv, OneOrderPerCharge, Booked
  <1> QED BY <1>1, <1>2, <1>3, <1>4, BooksAsTheyWere DEF Keeps, Requested

LEMMA RequestWrites ==
  ASSUME BooksInv, NEW r \in Requesters,
         NEW w \in {"paused", "active", "cancellation_requested"}, NEW e,
         updateSubscriptionOrder(r, w, e)
  PROVE  Requested(r) /\ asked'[r].at = "idle" /\ Keeps
  <1>1. /\ Goes(r, Idle)
        /\ UNCHANGED <<gateway, news, handled, renewal, listing, swallowed>>
        /\ \/ /\ origin' = Becomes(origin, w)
              /\ overtaken' = (overtaken \/ Outdated(asked[r].seen, w))
           \/ UNCHANGED <<origin, overtaken>>
    BY DEF updateSubscriptionOrder, OnlyRequest, Ends
  <1>2. Idle \in AskedRow /\ Idle.at = "idle"
    BY DEF AskedRow, Idle
  <1>3. Requested(r) /\ asked'[r] = Idle
    BY <1>1, <1>2, Requesting
  <1>4. /\ origin' \in OriginRow /\ origin'.payment = origin.payment
        /\ overtaken' \in BOOLEAN
    <2>1. w \in SubscriptionStatus /\ origin \in OriginRow /\ overtaken \in BOOLEAN
      BY BooksAsTheyWere DEF SubscriptionStatus, GatewayStatus
    <2>2. Becomes(origin, w) \in OriginRow /\ Becomes(origin, w).payment = origin.payment
      BY <2>1, StatusWritten
    <2> QED BY <1>1, <2>1, <2>2
  <1>5. OneOrderPerCharge' /\ \A d \in Charges : Booked(d) => Booked(d)'
    BY <1>1, <1>4 DEF BooksInv, OneOrderPerCharge, Booked
  <1> QED BY <1>1, <1>2, <1>3, <1>4, <1>5, BooksAsTheyWere DEF Keeps, Requested

LEMMA ListingKeeps ==
  ASSUME BooksInv, FetchSubscription \/ ReadStatus \/ getMySubscriptions,
         gateway.status = "none" => ~Saved
  PROVE  Keeps
  <1>1. UNCHANGED <<gateway, news, handled, asked, swallowed>>
    BY DEF FetchSubscription, ReadStatus, getMySubscriptions, OnlyListing
  <1>2. CASE FetchSubscription
    <2>1. /\ listing' = [at |-> "read", write |-> gateway.status, seen |-> Len(news)]
          /\ UNCHANGED <<origin, renewal, overtaken>> /\ gateway.status # "none"
      BY <1>2 DEF FetchSubscription
    <2>2. listing' \in ListingRow /\ listing'.write # "none"
      BY <2>1, BooksAsTheyWere DEF ListingRow, GatewayRow, BooksInv, SubscriptionTypeOK
    <2>3. OneOrderPerCharge' /\ \A d : Booked(d) <=> Booked(d)'
      BY <2>1 DEF BooksInv, OneOrderPerCharge, Booked
    <2> QED BY <1>1, <2>1, <2>2, <2>3, BooksAsTheyWere DEF Keeps
  <1>3. CASE ReadStatus
    <2>1. /\ listing.at = "read" /\ UNCHANGED <<origin, renewal, overtaken>>
          /\ \E s \in {origin.subscription_status} \cup
                      {renewal[c] : c \in {d \in Charges : renewal[d] # "none"}} :
               listing' = [listing EXCEPT !.at = "save",
                            !.write = IF s \in PROTECTED_SYNC_STATUSES THEN s ELSE @]
      BY <1>3 DEF ReadStatus
    <2>2. PICK s : listing' = [listing EXCEPT !.at = "save",
                     !.write = IF s \in PROTECTED_SYNC_STATUSES THEN s ELSE @]
      BY <2>1, Zenon
    <2>3. listing' \in ListingRow /\ listing'.write # "none"
      BY <2>1, <2>2, BooksAsTheyWere DEF ListingRow, PROTECTED_SYNC_STATUSES
    <2>4. OneOrderPerCharge' /\ \A d : Booked(d) <=> Booked(d)'
      BY <2>1 DEF BooksInv, OneOrderPerCharge, Booked
    <2> QED BY <1>1, <2>1, <2>3, <2>4, BooksAsTheyWere DEF Keeps
  <1>4. CASE getMySubscriptions
    <2>1. /\ origin' = Becomes(origin, listing.write) /\ listing' = Idle
          /\ renewal' = [c \in Charges |->
               IF renewal[c] = "none" THEN "none" ELSE listing.write]
          /\ listing.at = "save"
      BY <1>4 DEF getMySubscriptions, Becomes
    <2>2. listing.write \in SubscriptionStatus /\ "none" \notin SubscriptionStatus
      BY <2>1, BooksAsTheyWere DEF ListingRow, SubscriptionStatus, GatewayStatus,
         PROTECTED_SYNC_STATUSES
    <2>3. origin' \in OriginRow /\ origin'.payment = origin.payment
      BY <2>1, <2>2, BooksAsTheyWere, StatusWritten
    <2>4. /\ renewal' \in [Charges -> SubscriptionStatus \cup {"none"}]
          /\ \A c \in Charges : renewal'[c] = "none" <=> renewal[c] = "none"
      BY <2>1, <2>2
    <2>5. OneOrderPerCharge' /\ \A d \in Charges : Booked(d) => Booked(d)'
      BY <2>3, <2>4 DEF BooksInv, OneOrderPerCharge, Booked
    <2>6. overtaken' \in BOOLEAN
      <3>1. overtaken' = (\/ overtaken
               \/ IF listing.write \in PROTECTED_SYNC_STATUSES
                    THEN origin.subscription_status # listing.write
                    ELSE Outdated(listing.seen, SameStatus(listing.write)))
        BY <1>4 DEF getMySubscriptions
      <3> QED BY <3>1
    <2>7. listing' \in ListingRow /\ listing'.at = "idle"
      BY <2>1 DEF Idle, ListingRow, GatewayStatus
    <2> QED BY <1>1, <2>3, <2>4, <2>5, <2>6, <2>7, BooksAsTheyWere DEF Keeps
  <1> QED BY <1>2, <1>3, <1>4

(* Razorpay's steps, by itself or asked by a request, tell of one event, or *)
(* of a charge and its capture.                                            *)
LEMMA TellsOne ==
  ASSUME BooksInv, NEW k \in NewsKind \ {"charged"}, Tell(<<News(k)>>),
         gateway' \in GatewayRow, asked' \in [Requesters -> AskedRow],
         UNCHANGED <<origin, renewal, listing, swallowed>>, overtaken' \in BOOLEAN
  PROVE  /\ BooksInv'
         /\ news' \in Seq(Event) /\ Len(news') = Len(news) + 1
         /\ \A i \in 1..Len(news) : news'[i] = news[i] /\ handled'[i] = handled[i]
         /\ news'[Len(news')].kind = k /\ handled'[Len(news')] = "due"
  <1>1. News(k) \in Event /\ News(k).kind = k
    BY BooksAsTheyWere, SubscriptionAssumption DEF News, Event, GatewayRow
  <1> DEFINE events == <<News(k)>>
  <1>2. /\ events \in Seq(Event) /\ Len(events) = 1 /\ events[1] = News(k)
    BY <1>1
  <1>3. Tell(events)
    OBVIOUS
  <1> HIDE DEF events
  <1>4. \A i \in 1..Len(events) : events[i].kind # "charged"
    BY <1>1, <1>2
  <1>5. BooksInv'
    BY <1>2, <1>3, <1>4, BooksTold
  <1>6. /\ news' \in Seq(Event)
        /\ Len(news') = Len(news) + Len(events)
        /\ \A i \in 1..Len(news) : news'[i] = news[i] /\ handled'[i] = handled[i]
        /\ \A i \in 1..Len(events) :
             /\ news'[Len(news) + i] = events[i]
             /\ handled'[Len(news) + i] = "due"
    BY <1>2, <1>3, Telling
  <1> QED BY <1>1, <1>2, <1>5, <1>6

LEMMA ChargeTells ==
  ASSUME BooksInv, RazorpayCharges
  PROVE  /\ BooksInv'
         /\ news' \in Seq(Event) /\ Len(news') = Len(news) + 2
         /\ \A i \in 1..Len(news) : news'[i] = news[i] /\ handled'[i] = handled[i]
         /\ news'[Len(news) + 1].kind = "captured" /\ handled'[Len(news) + 1] = "due"
         /\ news'[Len(news) + 2].kind = "charged" /\ handled'[Len(news) + 2] = "due"
         /\ gateway'.status = "active"
         /\ UNCHANGED <<origin, renewal, asked, listing, swallowed, overtaken>>
  <1> DEFINE events == <<News("captured"), News("charged")>>
  <1>1. /\ Tell(events) /\ gateway' = [gateway EXCEPT !.status = "active", !.charges = @ + 1]
        /\ gateway.charges < total_count
        /\ UNCHANGED <<origin, renewal, asked, listing, swallowed, overtaken>>
    BY DEF RazorpayCharges, OnlyGateway
  <1>2. gateway \in GatewayRow
    BY BooksAsTheyWere
  <1>3. gateway' \in GatewayRow /\ gateway'.status = "active"
    <2>1. /\ gateway.charges + 1 \in 0..total_count /\ "active" \in GatewayStatus
          /\ gateway.ending \in BOOLEAN
      BY <1>1, <1>2, SubscriptionAssumption DEF GatewayRow, GatewayStatus
    <2>2. gateway' = [status |-> "active", charges |-> gateway.charges + 1,
                      ending |-> gateway.ending]
      BY <1>1, <1>2 DEF GatewayRow
    <2> QED BY <2>1, <2>2 DEF GatewayRow
  <1>4. /\ News("captured") \in Event /\ News("charged") \in Event
        /\ News("captured").kind = "captured" /\ News("charged").kind = "charged"
        /\ News("charged").charge \in Charges
    <2>1. /\ gateway.charges + 1 \in 1..(total_count + 1)
          /\ gateway.charges + 1 \in 1..total_count
      BY <1>1, <1>2, SubscriptionAssumption DEF GatewayRow
    <2>2. \A k \in NewsKind : News(k) \in Event /\ News(k).kind = k
      BY <2>1 DEF News, Event
    <2>3. News("charged").charge \in Charges
      BY <2>1 DEF News, Charges
    <2> QED BY <2>2, <2>3 DEF NewsKind
  <1>5. /\ events \in Seq(Event) /\ Len(events) = 2
        /\ events[1].kind = "captured" /\ events[2].kind = "charged"
        /\ events[2].charge \in Charges
    BY <1>4
  <1> HIDE DEF events
  <1>6. \A i \in 1..Len(events) :
          events[i].kind = "charged" => events[i].charge \in Charges
    BY <1>5
  <1>7. BooksInv'
    BY <1>1, <1>3, <1>5, <1>6, BooksAsTheyWere, BooksTold
  <1>8. /\ news' \in Seq(Event)
        /\ Len(news') = Len(news) + Len(events)
        /\ \A i \in 1..Len(news) : news'[i] = news[i] /\ handled'[i] = handled[i]
        /\ \A i \in 1..Len(events) :
             /\ news'[Len(news) + i] = events[i]
             /\ handled'[Len(news) + i] = "due"
    BY <1>1, <1>5, Telling
  <1> QED BY <1>1, <1>3, <1>5, <1>7, <1>8

-----------------------------------------------------------------------------
(* The status.                                                             *)

LEMMA Words ==
  ASSUME NEW g \in GatewayStatus, NEW k \in NewsKind
  PROVE  /\ SameStatus(Shown(k)) = Shown(k) /\ Shown(k) # "cancellation_requested"
         /\ SameStatus(g) \notin {"cancellation_requested", "pending"}
         /\ SameStatus(g) = "past_due" => g = "pending"
         /\ \A s \in {"active", "paused"} : SameStatus(s) = s
  BY DEF GatewayStatus, NewsKind, SameStatus, Shown

LEMMA LatestPlace ==
  ASSUME SubscriptionInv
  PROVE  /\ Latest \in Nat /\ Latest <= Len(news) /\ Len(news) \in Nat
         /\ news = <<>> <=> Len(news) = 0
         /\ \A i \in DOMAIN news : i > Latest => i = Len(news) /\ news[i].kind = "charged"
         /\ news # <<>> =>
              /\ Latest \in DOMAIN news /\ news[Latest].kind \in NewsKind \ {"charged"}
              /\ SameStatus(gateway.status) = Shown(news[Latest].kind)
         /\ DOMAIN news = 1..Len(news) /\ gateway.status \in GatewayStatus
  <1>1. /\ Len(news) \in Nat /\ DOMAIN news = 1..Len(news)
        /\ gateway.status \in GatewayStatus /\ (news = <<>> <=> Len(news) = 0)
    BY BooksAsTheyWere DEF SubscriptionInv, BooksInv, SubscriptionTypeOK, GatewayRow
  <1>2. /\ Latest \in Nat /\ Latest <= Len(news)
        /\ \A i \in DOMAIN news : i > Latest => i = Len(news) /\ news[i].kind = "charged"
    BY <1>1 DEF Latest
  <1>3. ASSUME news # <<>>
        PROVE  /\ Latest \in DOMAIN news /\ news[Latest].kind \in NewsKind \ {"charged"}
               /\ SameStatus(gateway.status) = Shown(news[Latest].kind)
    BY <1>3, BooksAsTheyWere DEF SubscriptionInv, AgreeInv, Told
  <1> QED BY <1>1, <1>2, <1>3

(* What is written of the first n events after the handling of a later     *)
(* one agrees with that or is outdated.                                    *)
LEMMA WrittenInTime ==
  ASSUME SubscriptionInv, NEW n \in Nat, n < Latest, NEW s, ~Outdated(n, s),
         news = <<>> \/ handled[Latest] \in {"again", "done"}
  PROVE  SameStatus(gateway.status) = s
  <1>1. news # <<>> /\ Latest \in DOMAIN news
    BY LatestPlace
  <1> QED BY <1>1, LatestPlace DEF Outdated

(* A step that tells of something: it is yet to be handled. *)
LEMMA AgreeTold ==
  ASSUME SubscriptionInv, NEW n \in {1, 2},
         news' \in Seq(Event), Len(news') = Len(news) + n,
         \A i \in 1..Len(news) : news'[i] = news[i] /\ handled'[i] = handled[i],
         news'[Len(news) + 1].kind # "charged",
         n = 2 => /\ news'[Len(news) + 2].kind = "charged" /\ gateway'.status = "active"
                  /\ handled'[Len(news) + 2] = "due",
         handled'[Len(news) + 1] = "due",
         gateway'.status \notin {"none", "created"},
         SameStatus(gateway'.status) = Shown(news'[Len(news) + 1].kind),
         UNCHANGED <<origin, listing, overtaken>>,
         \A r \in Requesters :
           \/ asked'[r] = asked[r]
           \/ /\ asked'[r].seen = Len(news')
              /\ asked'[r].write \in {"paused", "active"}
              /\ gateway'.status = asked'[r].write
  PROVE  AgreeInv'
  <1>1. /\ Latest \in Nat /\ Latest <= Len(news) /\ Len(news) \in Nat
        /\ DOMAIN news = 1..Len(news) /\ DOMAIN news' = 1..(Len(news) + n)
    BY LatestPlace
  <1>2. Latest' = Len(news) + 1 /\ Latest' \in DOMAIN news' /\ news' # <<>>
    <2>1. news' # <<>> /\ Len(news) + 1 \in DOMAIN news'
      BY <1>1
    <2>2. CASE n = 1
      BY <1>1, <2>1, <2>2 DEF Latest
    <2>3. CASE n = 2
      BY <1>1, <2>1, <2>3 DEF Latest
    <2> QED BY <2>1, <2>2, <2>3
  <1>3. Told'
    BY <1>1, <1>2 DEF Told
  <1>4. Heard'
    <2>1. ASSUME NEW m \in Nat, m = Len(news) \/ m < Latest
          PROVE  m < Latest' /\ m # Len(news')
      BY <1>1, <1>2, <2>1
    <2>2. listing' = listing /\ listing.seen \in Nat
      BY BooksAsTheyWere DEF SubscriptionInv, ListingRow
    <2>3. listing.at # "idle" => listing.seen < Latest' /\ listing.seen # Len(news')
      BY <2>1, <2>2 DEF SubscriptionInv, AgreeInv, Heard, Known
    <2>4. ASSUME NEW r \in Requesters, asked'[r].at = "save"
          PROVE  \/ asked'[r].seen < Latest' /\ asked'[r].seen # Len(news')
                 \/ /\ asked'[r].seen = Len(news')
                    /\ asked'[r].write \in {"paused", "active"}
                    /\ gateway'.status = asked'[r].write
      <3>1. CASE asked'[r] = asked[r]
        <4>1. asked[r].seen \in Nat
          BY BooksAsTheyWere DEF SubscriptionInv, AskedRow
        <4> QED BY <2>1, <2>4, <3>1, <4>1 DEF SubscriptionInv, AgreeInv, Heard, Known
      <3> QED BY <3>1
    <2>5. \A r \in Requesters : asked'[r].at = "save" =>
             /\ asked'[r].seen = Len(news') \/ asked'[r].seen < Latest'
             /\ asked'[r].seen = Len(news') =>
                  /\ asked'[r].write \in {"paused", "active"} =>
                       gateway'.status = asked'[r].write
                  /\ asked'[r].write = "cancellation_requested" =>
                       /\ gateway'.ending
                       /\ gateway'.status \in {"active", "pending", "paused"}
      BY <2>4
    <2> QED BY <2>2, <2>3, <2>5 DEF Heard, Known
  <1>5. InTurn'
    <2> SUFFICES ASSUME ~overtaken, NEW i \in DOMAIN news',
                        handled'[i] \in {"again", "done"}, news'[i].kind # "charged",
                        NEW j \in 1..i - 1
                 PROVE  handled'[j] = "done"
      BY DEF InTurn
    <2>1. i \in DOMAIN news /\ j \in DOMAIN news /\ j \in 1..i - 1
      BY <1>1
    <2> QED BY <1>1, <2>1 DEF SubscriptionInv, AgreeInv, InTurn
  <1>6. Current'
    BY <1>2 DEF Current
  <1> QED BY <1>3, <1>4, <1>5, <1>6 DEF AgreeInv

(* Of the other steps most write no status. *)
LEMMA AgreeIdle ==
  ASSUME SubscriptionInv, UNCHANGED <<gateway, news, origin>>,
         DOMAIN handled' = DOMAIN handled, overtaken => overtaken',
         overtaken' \/ \A i \in DOMAIN news : handled'[i] # handled[i] =>
           handled[i] # "done" /\ news[i].kind = "charged",
         gateway.status = "none" => listing'.at = "idle",
         Heard'
  PROVE  AgreeInv'
  <1>1. Latest' = Latest /\ (Saved' <=> Saved) /\ (Agrees' <=> Agrees)
    BY DEF Latest, Saved, Agrees
  <1>2. Told'
    BY <1>1 DEF SubscriptionInv, AgreeInv, Told
  <1>3. InTurn'
    BY LatestPlace DEF SubscriptionInv, AgreeInv, InTurn
  <1>4. Current'
    BY <1>1, LatestPlace DEF SubscriptionInv, AgreeInv, Current
  <1> QED BY <1>2, <1>3, <1>4 DEF AgreeInv

(* The others write a status; then it agrees, or something is overtaken. *)
LEMMA AgreeWritten ==
  ASSUME SubscriptionInv, UNCHANGED <<gateway, news>>,
         gateway.status = "none" => ~Saved' /\ listing'.at = "idle",
         Heard', InTurn', Current'
  PROVE  AgreeInv'
  <1>1. Latest' = Latest
    BY DEF Latest
  <1>2. Told'
    BY <1>1 DEF SubscriptionInv, AgreeInv, Told
  <1> QED BY <1>2 DEF AgreeInv

LEMMA HeardStays ==
  ASSUME SubscriptionInv, UNCHANGED <<gateway, news>>,
         listing' = listing \/ listing'.at = "idle",
         \A r \in Requesters : asked'[r] = asked[r] \/ asked'[r].at # "save"
  PROVE  Heard'
  <1>1. Latest' = Latest
    BY DEF Latest
  <1>2. \A r \in Requesters : asked'[r].at = "save" => asked'[r] = asked[r]
    OBVIOUS
  <1>3. listing'.at # "idle" => listing' = listing
    OBVIOUS
  <1> QED BY <1>1, <1>2, <1>3 DEF SubscriptionInv, AgreeInv, Heard, Known

(* One event is handled, ... *)
LEMMA TurnKept ==
  ASSUME SubscriptionInv, UNCHANGED news, NEW i \in DOMAIN news,
         handled[i] # "done",
         \A j \in DOMAIN news \ {i} : handled'[j] = handled[j],
         overtaken' = (overtaken \/ OutOfTurn(i))
  PROVE  /\ InTurn'
         /\ ~overtaken' /\ i < Latest => handled[Latest] \notin {"again", "done"}
  <1>1. ASSUME ~overtaken', NEW m \in DOMAIN news,
               handled'[m] \in {"again", "done"}, news[m].kind # "charged",
               NEW j \in 1..m - 1
        PROVE  handled'[j] = "done"
    <2>1. ~overtaken /\ ~OutOfTurn(i)
      BY <1>1
    <2>2. j \in DOMAIN news /\ m \in 1..Len(news) /\ j < m
      BY <1>1, LatestPlace
    <2>3. CASE m = i
      <3>1. handled[j] = "done" /\ j # i
        BY <2>1, <2>2, <2>3, <1>1 DEF OutOfTurn
      <3> QED BY <2>2, <3>1
    <2>4. CASE m # i
      <3>1. handled[m] \in {"again", "done"}
        BY <1>1, <2>4
      <3>2. handled[j] = "done"
        BY <1>1, <2>1, <3>1 DEF SubscriptionInv, AgreeInv, InTurn
      <3> QED BY <2>2, <3>2
    <2> QED BY <2>3, <2>4
  <1>2. InTurn'
    BY <1>1 DEF InTurn
  <1>3. ASSUME ~overtaken', i < Latest, handled[Latest] \in {"again", "done"}
        PROVE  FALSE
    <2>1. news # <<>> /\ i \in 1..Latest - 1
      BY <1>3, LatestPlace
    <2>2. handled[i] = "done"
      BY <1>3, <2>1, LatestPlace DEF SubscriptionInv, AgreeInv, InTurn
    <2> QED BY <2>2
  <1> QED BY <1>2, <1>3

(* ... which, if it is the last, writes what Razorpay has.                 *)
LEMMA EventAgrees ==
  ASSUME SubscriptionInv, NEW i \in DOMAIN news, HandleEvent(i)
  PROVE  AgreeInv'
  <1> DEFINE k == news[i].kind
  <1>1. /\ UNCHANGED <<gateway, news, asked, listing>>
        /\ overtaken' = (overtaken \/ OutOfTurn(i))
    <2>1. OnlyNews /\ overtaken' = (overtaken \/ OutOfTurn(i))
      BY DEF HandleEvent
    <2> QED BY <2>1 DEF OnlyNews
  <1>2. \E s \in {"done", "again"} : Handled(i, s)
    <2>1. Handled(i, "done") \/ Handled(i, "again")
      BY DEF HandleEvent
    <2> QED BY <2>1
  <1>3. \A j \in DOMAIN news \ {i} : handled'[j] = handled[j]
    BY <1>2, HandlingWritten DEF HandlingStatus, SubscriptionInv
  <1>4. /\ k # "charged" /\ handled[i] \in {"due", "again"}
        /\ origin' \in OriginRow
        /\ Saved' <=> Saved
        /\ ~Saved => origin' = origin
        /\ Saved /\ k # "failed" => origin'.subscription_status = Shown(k)
        /\ Saved /\ k = "failed" => origin'.payment_status = "failed"
    BY EventWritten DEF SubscriptionInv
  <1>5. /\ InTurn'
        /\ ~overtaken' /\ i < Latest => handled[Latest] \notin {"again", "done"}
    BY <1>1, <1>3, <1>4, TurnKept
  <1>6. Heard'
    BY <1>1, HeardStays
  <1>7. Current'
    <2> SUFFICES ASSUME ~overtaken', Saved',
                        news' = <<>> \/ handled'[Latest'] \in {"again", "done"}
                 PROVE  Agrees'
      BY DEF Current
    <2>1. Latest' = Latest /\ news # <<>>
      BY <1>1, LatestPlace DEF Latest
    <2>2. Latest = i
      <3>1. i <= Latest
        BY <1>4, LatestPlace
      <3>2. CASE i < Latest
        <4>1. handled'[Latest] = handled[Latest]
          BY <1>3, <2>1, <3>2, LatestPlace
        <4> QED BY <1>1, <1>5, <2>1, <3>2, <4>1
      <3> QED BY <3>1, <3>2, LatestPlace
    <2>3. SameStatus(gateway.status) = Shown(k) /\ gateway.status \in GatewayStatus
          /\ k \in NewsKind
      BY <2>1, <2>2, LatestPlace
    <2>4. CASE k = "failed"
      <3>1. gateway.status = "pending"
        BY <2>3, <2>4, Words DEF Shown
      <3> QED BY <1>1, <1>4, <2>4, <3>1 DEF Agrees
    <2>5. CASE k # "failed"
      <3>1. SameStatus(origin'.subscription_status) = SameStatus(gateway.status)
        BY <1>4, <2>3, <2>5, Words
      <3> QED BY <1>1, <3>1 DEF Agrees
    <2> QED BY <2>4, <2>5
  <1>8. gateway.status = "none" => ~Saved' /\ listing'.at = "idle"
    BY <1>1, <1>4 DEF SubscriptionInv, AgreeInv, Told
  <1> QED BY <1>1, <1>5, <1>6, <1>7, <1>8, AgreeWritten

LEMMA LookupAgrees ==
  ASSUME SubscriptionInv, NEW i \in DOMAIN news,
         LookForRenewal(i) \/ RenewalThrows(i)
  PROVE  AgreeInv'
  <1>1. /\ UNCHANGED <<gateway, news, asked, listing, origin, overtaken>>
        /\ handled[i] \in {"due", "renewing"} /\ \E s \in HandlingStatus : Handled(i, s)
    <2>1. CASE LookForRenewal(i)
      BY <2>1 DEF LookForRenewal, OnlyNews, HandlingStatus
    <2>2. CASE RenewalThrows(i)
      BY <2>2 DEF RenewalThrows, OnlyNews, HandlingStatus
    <2> QED BY <2>1, <2>2
  <1>2. news[i].kind = "charged"
    BY BooksAsTheyWere DEF LookForRenewal, RenewalThrows, SubscriptionInv, BooksInv, Sized
  <1>3. /\ \A j \in DOMAIN news \ {i} : handled'[j] = handled[j]
        /\ DOMAIN handled' = DOMAIN handled
    BY <1>1, HandlingWritten, BooksAsTheyWere DEF SubscriptionInv
  <1>4. Heard'
    BY <1>1, HeardStays
  <1> QED BY <1>1, <1>2, <1>3, <1>4, AgreeIdle DEF SubscriptionInv, AgreeInv, Told

LEMMA RenewalAgrees ==
  ASSUME SubscriptionInv, NEW i \in DOMAIN news, createRenewalOrder(i)
  PROVE  AgreeInv'
  <1>1. /\ UNCHANGED <<gateway, news, asked, listing>>
        /\ handled[i] = "renewing" /\ Saved /\ Handled(i, "done")
        /\ origin' = Becomes(origin, "active")
        /\ overtaken' = (overtaken \/ OutOfTurn(i))
    BY DEF createRenewalOrder, OnlyNews, Becomes
  <1>2. news[i].kind = "charged"
    BY <1>1 DEF SubscriptionInv, BooksInv, Sized
  <1>3. \A j \in DOMAIN news \ {i} : handled'[j] = handled[j]
    BY <1>1, HandlingWritten DEF HandlingStatus, SubscriptionInv
  <1>4. /\ InTurn'
        /\ ~overtaken' /\ i < Latest => handled[Latest] \notin {"again", "done"}
    BY <1>1, <1>3, TurnKept
  <1>5. Heard'
    BY <1>1, HeardStays
  <1>6. Current'
    <2> SUFFICES ASSUME ~overtaken', Saved',
                        news' = <<>> \/ handled'[Latest'] \in {"again", "done"}
                 PROVE  Agrees'
      BY DEF Current
    <2>1. /\ Latest' = Latest /\ news # <<>> /\ i # Latest
          /\ Latest \in DOMAIN news
      BY <1>1, <1>2, LatestPlace DEF Latest
    <2>2. ~(i < Latest)
      BY <1>1, <1>3, <1>4, <2>1
    <2>3. gateway.status = "active"
      <3>1. i = Len(news)
        BY <2>1, <2>2, LatestPlace
      <3> QED BY <1>2, <2>1, <3>1 DEF SubscriptionInv, AgreeInv, Told
    <2>4. origin'.subscription_status = "active"
      BY <1>1, BooksAsTheyWere, StatusWritten
         DEF SubscriptionInv, SubscriptionStatus, GatewayStatus
    <2> QED BY <1>1, <2>3, <2>4 DEF Agrees
  <1>7. gateway.status = "none" => ~Saved' /\ listing'.at = "idle"
    BY <1>1 DEF SubscriptionInv, AgreeInv, Told
  <1> QED BY <1>1, <1>4, <1>5, <1>6, <1>7, AgreeWritten

LEMMA OriginAgrees ==
  ASSUME SubscriptionInv, createSubscription \/ verifySubscriptionPayment
  PROVE  AgreeInv'
  <1>1. UNCHANGED <<gateway, news, handled, asked, listing>>
    BY DEF createSubscription, verifySubscriptionPayment
  <1>2. Heard'
    BY <1>1, HeardStays
  <1>3. InTurn' /\ gateway.status # "none" /\ Current'
    <2>1. CASE createSubscription
      <3>1. /\ gateway.status = "created" /\ origin' = Becomes(origin, "created")
            /\ overtaken' = overtaken
        BY <2>1 DEF createSubscription, Becomes
      <3>2. origin'.subscription_status = "created"
        BY <3>1, BooksAsTheyWere, StatusWritten
           DEF SubscriptionInv, SubscriptionStatus, GatewayStatus
      <3>3. Current'
        BY <1>1, <3>1, <3>2 DEF Current, Agrees
      <3>4. InTurn'
        BY <1>1, <3>1 DEF SubscriptionInv, AgreeInv, InTurn
      <3> QED BY <3>1, <3>3, <3>4
    <2>2. CASE verifySubscriptionPayment
      <3>1. /\ gateway.charges > 0 /\ Saved
            /\ origin'.subscription_status = "active"
            /\ overtaken' = (overtaken \/ Outdated(0, "active"))
        BY <2>2 DEF verifySubscriptionPayment
      <3>2. news # <<>> /\ gateway.status # "none"
        BY <3>1 DEF SubscriptionInv, AgreeInv, Told
      <3>3. 0 < Latest
        BY <3>2, LatestPlace
      <3>4. Current'
        <4> SUFFICES ASSUME ~overtaken', news' = <<>> \/ handled'[Latest'] \in {"again", "done"}
                     PROVE  Agrees'
          BY DEF Current
        <4>1. Latest' = Latest
          BY <1>1 DEF Latest
        <4>2. SameStatus(gateway.status) = "active"
          BY <1>1, <3>1, <3>3, <4>1, WrittenInTime
        <4> QED BY <1>1, <3>1, <4>2, LatestPlace DEF Agrees, SameStatus
      <3>5. InTurn'
        BY <1>1, <3>1 DEF SubscriptionInv, AgreeInv, InTurn
      <3> QED BY <3>2, <3>4, <3>5
    <2> QED BY <2>1, <2>2
  <1>4. gateway.status = "none" => ~Saved' /\ listing'.at = "idle"
    BY <1>3
  <1> QED BY <1>1, <1>2, <1>3, <1>4, AgreeWritten

(* A request's UPDATE writes what Razorpay did when it was asked. *)
LEMMA RequestAgrees ==
  ASSUME SubscriptionInv, NEW r \in Requesters,
         NEW w \in {"paused", "active", "cancellation_requested"}, NEW e,
         updateSubscriptionOrder(r, w, e), "none" \notin e
  PROVE  AgreeInv'
  <1>1. /\ UNCHANGED <<gateway, news, handled, listing>>
        /\ asked[r].at = "save" /\ asked[r].write = w
        /\ \/ /\ origin.subscription_status \in e /\ origin' = Becomes(origin, w)
              /\ overtaken' = (overtaken \/ Outdated(asked[r].seen, w))
           \/ UNCHANGED <<origin, overtaken>>
    BY DEF updateSubscriptionOrder, OnlyRequest
  <1>2. Requested(r) /\ asked'[r].at = "idle"
    BY RequestWrites DEF SubscriptionInv
  <1>3. Heard'
    BY <1>1, <1>2, HeardStays DEF Requested
  <1>4. CASE UNCHANGED <<origin, overtaken>>
    BY <1>1, <1>3, <1>4, AgreeIdle DEF SubscriptionInv, AgreeInv, Told
  <1>5. CASE /\ origin.subscription_status \in e /\ origin' = Becomes(origin, w)
             /\ overtaken' = (overtaken \/ Outdated(asked[r].seen, w))
    <2>1. origin'.subscription_status = w
      <3>1. w \in SubscriptionStatus /\ origin \in OriginRow
        BY BooksAsTheyWere DEF SubscriptionInv, SubscriptionStatus, GatewayStatus
      <3> QED BY <1>5, <3>1, StatusWritten
    <2>2. InTurn'
      BY <1>1, <1>5 DEF SubscriptionInv, AgreeInv, InTurn
    <2>3. Saved /\ gateway.status # "none"
      BY <1>5 DEF Saved, SubscriptionInv, AgreeInv, Told
    <2>4. Current'
      <3> SUFFICES ASSUME ~overtaken', news' = <<>> \/ handled'[Latest'] \in {"again", "done"}
                   PROVE  Agrees'
        BY DEF Current
      <3>1. Latest' = Latest
        BY <1>1 DEF Latest
      <3>2. asked[r].seen \in Nat
        BY BooksAsTheyWere DEF SubscriptionInv, AskedRow
      <3>3. asked[r].seen = Len(news) \/ asked[r].seen < Latest
        BY <1>1 DEF SubscriptionInv, AgreeInv, Heard, Known
      <3>4. CASE asked[r].seen < Latest
        <4>1. SameStatus(gateway.status) = w
          BY <1>1, <1>5, <3>1, <3>2, <3>4, WrittenInTime
        <4>2. w \in {"active", "paused"} /\ SameStatus(w) = w
          BY <4>1, LatestPlace, Words DEF NewsKind
        <4> QED BY <1>1, <2>1, <4>1, <4>2 DEF Agrees
      <3>5. CASE asked[r].seen = Len(news)
        <4>1. /\ w \in {"paused", "active"} => gateway.status = w
              /\ w = "cancellation_requested" =>
                   gateway.ending /\ gateway.status \in {"active", "pending", "paused"}
          BY <1>1, <3>5 DEF SubscriptionInv, AgreeInv, Heard
        <4> QED BY <1>1, <2>1, <4>1 DEF Agrees
      <3> QED BY <3>3, <3>4, <3>5
    <2> QED BY <1>1, <1>3, <2>2, <2>3, <2>4, AgreeWritten
  <1> QED BY <1>1, <1>4, <1>5

LEMMA ListingAgrees ==
  ASSUME SubscriptionInv, FetchSubscription \/ ReadStatus \/ getMySubscriptions
  PROVE  AgreeInv'
  <1>1. UNCHANGED <<gateway, news, handled, asked>> /\ Latest' = Latest
    BY DEF FetchSubscription, ReadStatus, getMySubscriptions, OnlyListing, Latest
  <1>2. CASE FetchSubscription
    <2>1. /\ listing' = [at |-> "read", write |-> gateway.status, seen |-> Len(news)]
          /\ UNCHANGED <<origin, overtaken>> /\ Saved
      BY <1>2 DEF FetchSubscription
    <2>2. Heard'
      BY <1>1, <2>1 DEF Heard, Known, SubscriptionInv, AgreeInv
    <2>3. gateway.status # "none"
      BY <2>1 DEF SubscriptionInv, AgreeInv, Told
    <2> QED BY <1>1, <2>1, <2>2, <2>3, AgreeIdle
  <1>3. CASE ReadStatus
    <2>1. /\ listing.at = "read" /\ UNCHANGED <<origin, overtaken>>
          /\ \E s \in {origin.subscription_status} \cup
                      {renewal[c] : c \in {d \in Charges : renewal[d] # "none"}} :
               listing' = [listing EXCEPT !.at = "save",
                            !.write = IF s \in PROTECTED_SYNC_STATUSES THEN s ELSE @]
      BY <1>3 DEF ReadStatus
    <2>2. PICK s : listing' = [listing EXCEPT !.at = "save",
                     !.write = IF s \in PROTECTED_SYNC_STATUSES THEN s ELSE @]
      BY <2>1, Zenon
    <2>3. /\ listing'.at = "save" /\ listing'.seen = listing.seen
          /\ listing'.write \in PROTECTED_SYNC_STATUSES \cup {listing.write}
      BY <2>2, BooksAsTheyWere DEF SubscriptionInv, ListingRow
    <2>4. Heard'
      BY <1>1, <2>1, <2>3 DEF Heard, Known, SubscriptionInv, AgreeInv
    <2>5. gateway.status # "none"
      BY <2>1 DEF SubscriptionInv, AgreeInv, Told
    <2> QED BY <1>1, <2>1, <2>4, <2>5, AgreeIdle
  <1>4. CASE getMySubscriptions
    <2>1. /\ origin' = Becomes(origin, listing.write) /\ listing' = Idle
          /\ listing.at = "save"
      BY <1>4 DEF getMySubscriptions, Becomes
    <2>2. overtaken' = (\/ overtaken
             \/ IF listing.write \in PROTECTED_SYNC_STATUSES
                  THEN origin.subscription_status # listing.write
                  ELSE Outdated(listing.seen, SameStatus(listing.write)))
      BY <1>4 DEF getMySubscriptions
    <2>3. /\ listing.write \in SubscriptionStatus /\ listing.write # "none"
          /\ origin \in OriginRow /\ listing.seen \in Nat
      BY <2>1, BooksAsTheyWere DEF ListingRow, SubscriptionStatus, GatewayStatus,
         PROTECTED_SYNC_STATUSES, SubscriptionInv
    <2>4. /\ origin'.subscription_status = listing.write
          /\ origin'.payment_status = origin.payment_status
      BY <2>1, <2>3, StatusWritten
    <2>5. Heard'
      BY <1>1, <2>1, HeardStays DEF Idle
    <2>6. InTurn'
      BY <1>1, <2>2 DEF SubscriptionInv, AgreeInv, InTurn
    <2>7. gateway.status # "none"
      BY <2>1 DEF SubscriptionInv, AgreeInv, Told
    <2>8. Current'
      <3> SUFFICES ASSUME ~overtaken', news' = <<>> \/ handled'[Latest'] \in {"again", "done"}
                   PROVE  Agrees'
        BY DEF Current
      <3>1. CASE listing.write \in PROTECTED_SYNC_STATUSES
        <4>1. ~overtaken /\ origin.subscription_status = listing.write
          BY <2>2, <3>1
        <4>2. Agrees
          BY <1>1, <2>3, <4>1 DEF SubscriptionInv, AgreeInv, Current, Saved
        <4> QED BY <1>1, <2>4, <4>1, <4>2 DEF Agrees
      <3>2. CASE listing.write \notin PROTECTED_SYNC_STATUSES
        <4>1. ~Outdated(listing.seen, SameStatus(listing.write))
          BY <2>2, <3>2
        <4>2. listing.seen = Len(news) \/ listing.seen < Latest
          BY <2>1 DEF SubscriptionInv, AgreeInv, Heard, Known
        <4>3. CASE listing.seen < Latest
          <5>1. SameStatus(gateway.status) = SameStatus(listing.write)
            BY <1>1, <2>3, <4>1, <4>3, WrittenInTime
          <5> QED BY <1>1, <2>4, <5>1 DEF Agrees
        <4>4. CASE listing.seen = Len(news)
          <5>1. listing.write = gateway.status
            BY <2>1, <3>2, <4>4 DEF SubscriptionInv, AgreeInv, Heard
          <5> QED BY <1>1, <2>4, <5>1 DEF Agrees
        <4> QED BY <4>2, <4>3, <4>4
      <3> QED BY <3>1, <3>2
    <2> QED BY <1>1, <2>5, <2>6, <2>7, <2>8, AgreeWritten
  <1> QED BY <1>2, <1>3, <1>4

(* Razorpay's other steps. *)
LEMMA ChargeKeeps ==
  ASSUME SubscriptionInv, RazorpayCharges
  PROVE  SubscriptionInv'
  <1>1. /\ BooksInv'
        /\ news' \in Seq(Event) /\ Len(news') = Len(news) + 2
        /\ \A i \in 1..Len(news) : news'[i] = news[i] /\ handled'[i] = handled[i]
        /\ news'[Len(news) + 1].kind = "captured" /\ handled'[Len(news) + 1] = "due"
        /\ news'[Len(news) + 2].kind = "charged" /\ handled'[Len(news) + 2] = "due"
        /\ gateway'.status = "active"
        /\ UNCHANGED <<origin, renewal, asked, listing, swallowed, overtaken>>
    BY ChargeTells DEF SubscriptionInv
  <1>2. SameStatus("active") = Shown("captured")
    BY DEF SameStatus, Shown
  <1>3. AgreeInv'
    <2>1. /\ 2 \in {1, 2} /\ gateway'.status \notin {"none", "created"}
          /\ news'[Len(news) + 1].kind # "charged"
          /\ SameStatus(gateway'.status) = Shown(news'[Len(news) + 1].kind)
      BY <1>1, <1>2
    <2>2. \A r \in Requesters : asked'[r] = asked[r]
      BY <1>1
    <2> QED BY <1>1, <2>1, <2>2, AgreeTold
  <1> QED BY <1>1, <1>3 DEF SubscriptionInv

LEMMA NewsKeeps ==
  ASSUME SubscriptionInv, NEW k \in NewsKind \ {"charged"}, Tell(<<News(k)>>),
         gateway' \in GatewayRow, gateway'.status \notin {"none", "created"},
         SameStatus(gateway'.status) = Shown(k),
         asked' \in [Requesters -> AskedRow],
         UNCHANGED <<origin, renewal, listing, swallowed, overtaken>>,
         \A r \in Requesters :
           \/ asked'[r] = asked[r]
           \/ /\ asked'[r].seen = Len(news) + 1
              /\ asked'[r].write \in {"paused", "active"}
              /\ gateway'.status = asked'[r].write
  PROVE  SubscriptionInv'
  <1>1. /\ BooksInv'
        /\ news' \in Seq(Event) /\ Len(news') = Len(news) + 1
        /\ \A i \in 1..Len(news) : news'[i] = news[i] /\ handled'[i] = handled[i]
        /\ news'[Len(news')].kind = k /\ handled'[Len(news')] = "due"
    BY TellsOne, BooksAsTheyWere DEF SubscriptionInv
  <1>2. AgreeInv'
    <2>1. /\ 1 \in {1, 2} /\ 1 # 2
          /\ news'[Len(news) + 1].kind # "charged" /\ handled'[Len(news) + 1] = "due"
          /\ SameStatus(gateway'.status) = Shown(news'[Len(news) + 1].kind)
      BY <1>1
    <2>2. \A r \in Requesters :
           \/ asked'[r] = asked[r]
           \/ /\ asked'[r].seen = Len(news')
              /\ asked'[r].write \in {"paused", "active"}
              /\ gateway'.status = asked'[r].write
      BY <1>1
    <2> QED BY <1>1, <2>1, <2>2, AgreeTold
  <1> QED BY <1>1, <1>2 DEF SubscriptionInv

LEMMA GatewayWritten ==
  ASSUME NEW g \in GatewayRow, NEW s \in GatewayStatus
  PROVE  /\ [g EXCEPT !.status = s] \in GatewayRow
         /\ [g EXCEPT !.status = s].status = s
  BY DEF GatewayRow

LEMMA MovesKeep ==
  ASSUME SubscriptionInv, RazorpayMoves
  PROVE  SubscriptionInv'
  <1>1. PICK m \in {<<"active", "pending", "failed">>, <<"pending", "pending", "failed">>,
            <<"pending", "halted", "halted">>, <<"active", "paused", "paused">>,
            <<"paused", "active", "resumed">>, <<"active", "cancelled", "cancelled">>,
            <<"paused", "cancelled", "cancelled">>,
            <<"active", "completed", "completed">>} :
          /\ gateway' = [gateway EXCEPT !.status = m[2]]
          /\ Tell(<<News(m[3])>>)
          /\ OnlyGateway
    BY DEF RazorpayMoves
  <1>2. /\ m[2] \in GatewayStatus \ {"none", "created"}
        /\ m[3] \in NewsKind \ {"charged"} /\ SameStatus(m[2]) = Shown(m[3])
    <2>1. \/ m[2] = "pending" /\ m[3] = "failed"
          \/ m[2] = "halted" /\ m[3] = "halted"
          \/ m[2] = "paused" /\ m[3] = "paused"
          \/ m[2] = "active" /\ m[3] = "resumed"
          \/ m[2] = "cancelled" /\ m[3] = "cancelled"
          \/ m[2] = "completed" /\ m[3] = "completed"
      BY <1>1
    <2> QED BY <2>1 DEF GatewayStatus, NewsKind, SameStatus, Shown
  <1>3. gateway' \in GatewayRow /\ gateway'.status = m[2]
    BY <1>1, <1>2, BooksAsTheyWere, GatewayWritten DEF SubscriptionInv
  <1>4. /\ UNCHANGED <<origin, renewal, asked, listing, swallowed, overtaken>>
        /\ asked' \in [Requesters -> AskedRow]
    BY <1>1, BooksAsTheyWere DEF OnlyGateway, SubscriptionInv
  <1>5. \A r \in Requesters : asked'[r] = asked[r]
    BY <1>4
  <1> QED BY <1>1, <1>2, <1>3, <1>4, <1>5, NewsKeeps

(* Razorpay answers a request: what it did is its latest event. *)
LEMMA AnswerKeeps ==
  ASSUME SubscriptionInv, NEW r \in Requesters, RazorpayPauses(r) \/ RazorpayResumes(r)
  PROVE  SubscriptionInv'
  <1>1. \E w \in {"paused", "active"}, k \in {"paused", "resumed"} :
          /\ Shown(k) = w /\ gateway' = [gateway EXCEPT !.status = w]
          /\ Obeys(r, w, <<News(k)>>)
    <2>1. Shown("paused") = "paused" /\ Shown("resumed") = "active"
      BY DEF Shown
    <2>2. CASE RazorpayPauses(r)
      <3>1. gateway' = [gateway EXCEPT !.status = "paused"]
            /\ Obeys(r, "paused", <<News("paused")>>)
        BY <2>2 DEF RazorpayPauses
      <3> QED BY <2>1, <3>1
    <2>3. CASE RazorpayResumes(r)
      <3>1. gateway' = [gateway EXCEPT !.status = "active"]
            /\ Obeys(r, "active", <<News("resumed")>>)
        BY <2>3 DEF RazorpayResumes
      <3> QED BY <2>1, <3>1
    <2> QED BY <2>2, <2>3
  <1>2. PICK w \in {"paused", "active"}, k \in {"paused", "resumed"} :
          /\ Shown(k) = w /\ gateway' = [gateway EXCEPT !.status = w]
          /\ Obeys(r, w, <<News(k)>>)
    BY <1>1
  <1>3. /\ asked[r].write = w /\ Tell(<<News(k)>>)
        /\ Goes(r, [asked[r] EXCEPT !.at = "save", !.seen = Len(news) + Len(<<News(k)>>)])
        /\ UNCHANGED <<origin, overtaken, renewal, listing, swallowed>>
    BY <1>2 DEF Obeys, OnlyRequest
  <1>4. Len(<<News(k)>>) = 1 /\ Len(news) \in Nat /\ asked[r] \in AskedRow
    BY LatestPlace, BooksAsTheyWere DEF SubscriptionInv
  <1> DEFINE a == [asked[r] EXCEPT !.at = "save", !.seen = Len(news) + 1]
  <1>5. a \in AskedRow /\ a.write = w /\ a.seen = Len(news) + 1
    <2>1. asked[r].write = w /\ asked[r] \in AskedRow /\ Len(news) + 1 \in Nat
      BY <1>3, <1>4
    <2> QED BY <2>1 DEF AskedRow
  <1>6. Goes(r, a)
    BY <1>3, <1>4
  <1> HIDE DEF a
  <1>7. Requested(r) /\ asked'[r] = a
    BY <1>5, <1>6, Requesting DEF SubscriptionInv
  <1>8. /\ k \in NewsKind \ {"charged"} /\ w \in GatewayStatus \ {"none", "created"}
        /\ SameStatus(w) = Shown(k)
    BY <1>2, Words DEF NewsKind, GatewayStatus
  <1>9. gateway' \in GatewayRow /\ gateway'.status = w
    BY <1>2, <1>8, BooksAsTheyWere, GatewayWritten DEF SubscriptionInv
  <1>10. \A q \in Requesters :
           \/ asked'[q] = asked[q]
           \/ /\ asked'[q].seen = Len(news) + 1
              /\ asked'[q].write \in {"paused", "active"}
              /\ gateway'.status = asked'[q].write
    BY <1>5, <1>7, <1>9 DEF Requested
  <1> QED BY <1>3, <1>7, <1>8, <1>9, <1>10, NewsKeeps DEF Requested

LEMMA CancelKeeps ==
  ASSUME SubscriptionInv, NEW r \in Requesters, RazorpayCancels(r)
  PROVE  SubscriptionInv'
  <1>1. /\ gateway.status \in {"active", "pending", "paused"}
        /\ gateway' = [gateway EXCEPT !.ending = TRUE]
        /\ asked[r].write = "cancellation_requested" /\ Tell(<< >>)
        /\ Goes(r, [asked[r] EXCEPT !.at = "save", !.seen = Len(news) + Len(<< >>)])
        /\ UNCHANGED <<origin, overtaken, renewal, listing, swallowed>>
    BY DEF RazorpayCancels, Obeys, OnlyRequest
  <1>2. /\ news \in Seq(Event) /\ handled \in Seq(HandlingStatus)
        /\ Len(news) \in Nat /\ asked[r] \in AskedRow /\ gateway \in GatewayRow
    BY LatestPlace, BooksAsTheyWere DEF SubscriptionInv, BooksInv, SubscriptionTypeOK, Event
  <1>3. news' = news /\ handled' = handled
    BY <1>1, <1>2 DEF Tell
  <1> DEFINE a == [asked[r] EXCEPT !.at = "save", !.seen = Len(news)]
  <1>4. a \in AskedRow /\ a.seen = Len(news) /\ a.write = "cancellation_requested"
    BY <1>1, <1>2 DEF AskedRow
  <1>5. Goes(r, a)
    BY <1>1, <1>2
  <1> HIDE DEF a
  <1>6. Requested(r) /\ asked'[r] = a
    BY <1>4, <1>5, Requesting DEF SubscriptionInv
  <1>7. /\ gateway' \in GatewayRow /\ gateway'.ending
        /\ gateway'.status = gateway.status /\ gateway'.charges = gateway.charges
    BY <1>1, <1>2 DEF GatewayRow
  <1>8. BooksInv'
    <2>1. OneOrderPerCharge' /\ \A d : Booked(d) <=> Booked(d)'
      BY <1>1 DEF SubscriptionInv, BooksInv, OneOrderPerCharge, Booked
    <2>2. Keeps
      BY <1>1, <1>3, <1>6, <1>7, <2>1, BooksAsTheyWere DEF Keeps, SubscriptionInv, Requested
    <2> QED BY <2>2, BooksKept DEF SubscriptionInv
  <1>9. AgreeInv'
    <2>1. Latest' = Latest
      BY <1>3 DEF Latest
    <2>2. Told'
      BY <1>1, <1>3, <1>7, <2>1 DEF SubscriptionInv, AgreeInv, Told
    <2>3. Heard'
      <3>1. /\ listing.at # "idle" => Known(listing.seen)
            /\ listing.at # "idle" /\ listing.seen = Len(news) =>
                 listing.write \in PROTECTED_SYNC_STATUSES \cup {gateway.status}
        BY DEF SubscriptionInv, AgreeInv, Heard
      <3>2. ASSUME NEW q \in Requesters, asked'[q].at = "save"
            PROVE  /\ asked'[q].seen = Len(news) \/ asked'[q].seen < Latest
                   /\ asked'[q].seen = Len(news) =>
                        /\ asked'[q].write \in {"paused", "active"} =>
                             gateway.status = asked'[q].write
                        /\ asked'[q].write = "cancellation_requested" =>
                             gateway.status \in {"active", "pending", "paused"}
        <4>1. CASE q = r
          BY <1>1, <1>4, <1>6, <4>1
        <4>2. CASE q # r
          BY <1>6, <3>2, <4>2 DEF SubscriptionInv, AgreeInv, Heard, Requested, Known
        <4> QED BY <4>1, <4>2
      <3> QED BY <1>1, <1>3, <1>7, <2>1, <3>1, <3>2 DEF Heard, Known
    <2>4. InTurn'
      BY <1>1, <1>3 DEF SubscriptionInv, AgreeInv, InTurn
    <2>5. Current'
      BY <1>1, <1>3, <1>7, <2>1 DEF SubscriptionInv, AgreeInv, Current, Agrees, Saved
    <2> QED BY <2>2, <2>3, <2>4, <2>5 DEF AgreeInv
  <1> QED BY <1>8, <1>9 DEF SubscriptionInv

LEMMA CreationKeeps ==
  ASSUME SubscriptionInv, SubscribeAtRazorpay
  PROVE  SubscriptionInv'
  <1>1. /\ gateway.status = "none" /\ gateway' = [gateway EXCEPT !.status = "created"]
        /\ UNCHANGED <<news, handled, origin, renewal, asked, listing, swallowed,
                       overtaken>>
    BY DEF SubscribeAtRazorpay, OnlyGateway
  <1>2. gateway' \in GatewayRow /\ gateway'.status = "created"
        /\ gateway'.charges = gateway.charges
    BY <1>1, BooksAsTheyWere DEF GatewayRow, GatewayStatus, SubscriptionInv
  <1>3. news = <<>> /\ gateway.charges = 0 /\ ~Saved /\ listing.at = "idle"
    BY <1>1 DEF SubscriptionInv, AgreeInv, Told
  <1>4. BooksInv'
    <2>1. OneOrderPerCharge' /\ \A d : Booked(d) <=> Booked(d)'
      BY <1>1 DEF SubscriptionInv, BooksInv, OneOrderPerCharge, Booked
    <2>2. Keeps
      BY <1>1, <1>2, <2>1, BooksAsTheyWere DEF Keeps, SubscriptionInv
    <2> QED BY <2>2, BooksKept DEF SubscriptionInv
  <1>5. AgreeInv'
    <2>1. Latest' = Latest /\ ~Saved'
      BY <1>1, <1>3 DEF Latest, Saved
    <2>2. Told'
      BY <1>1, <1>2, <1>3, <2>1 DEF Told
    <2>3. Heard'
      BY <1>1, <1>3, <2>1 DEF SubscriptionInv, AgreeInv, Heard, Known
    <2>4. InTurn'
      BY <1>1 DEF SubscriptionInv, AgreeInv, InTurn
    <2>5. Current'
      BY <2>1 DEF Current
    <2> QED BY <2>2, <2>3, <2>4, <2>5 DEF AgreeInv
  <1> QED BY <1>4, <1>5 DEF SubscriptionInv

LEMMA SubscriptionKeeps ==
  SubscriptionInv /\ [SubscriptionNext]_subscriptionVars => SubscriptionInv'
  <1> SUFFICES ASSUME SubscriptionInv, [SubscriptionNext]_subscriptionVars
               PROVE  SubscriptionInv'
    OBVIOUS
  <1>1. CASE SubscribeAtRazorpay \/ RazorpayCharges \/ RazorpayMoves
    BY <1>1, CreationKeeps, ChargeKeeps, MovesKeep
  <1>2. CASE createSubscription \/ verifySubscriptionPayment
    BY <1>2, OriginKeeps, BooksKept, OriginAgrees DEF SubscriptionInv
  <1>3. ASSUME NEW i \in DOMAIN news, Handle(i) \/ RenewalThrows(i)
        PROVE  SubscriptionInv'
    <2>1. Keeps
      BY <1>3, EventKeeps, LookupKeeps, RenewalKeeps, ThrowKeeps DEF Handle, SubscriptionInv
    <2>2. AgreeInv'
      BY <1>3, EventAgrees, LookupAgrees, RenewalAgrees DEF Handle
    <2> QED BY <2>1, <2>2, BooksKept DEF SubscriptionInv
  <1>4. ASSUME NEW r \in Requesters, NEW w \in {"paused", "active", "cancellation_requested"},
               Begin(r, w)
        PROVE  SubscriptionInv'
    <2>1. Requested(r) /\ asked'[r].at = "call" /\ Keeps
      BY <1>4, RequestBegins DEF SubscriptionInv
    <2>2. UNCHANGED <<gateway, news, handled, origin, overtaken, listing>>
      BY <1>4 DEF Begin, OnlyRequest
    <2>3. Heard'
      BY <2>1, <2>2, HeardStays DEF Requested
    <2>4. AgreeInv'
      BY <2>2, <2>3, AgreeIdle DEF SubscriptionInv, AgreeInv, Told
    <2> QED BY <2>1, <2>4, BooksKept DEF SubscriptionInv
  <1>5. ASSUME NEW r \in Requesters, RequestFails(r) PROVE SubscriptionInv'
    <2>1. Requested(r) /\ asked'[r].at = "idle" /\ Keeps
      BY <1>5, RequestGivesUp DEF SubscriptionInv
    <2>2. UNCHANGED <<gateway, news, handled, origin, overtaken, listing>>
      BY <1>5 DEF RequestFails, OnlyRequest
    <2>3. Heard'
      BY <2>1, <2>2, HeardStays DEF Requested
    <2>4. AgreeInv'
      BY <2>2, <2>3, AgreeIdle DEF SubscriptionInv, AgreeInv, Told
    <2> QED BY <2>1, <2>4, BooksKept DEF SubscriptionInv
  <1>6. ASSUME NEW r \in Requesters, NEW w \in {"paused", "active", "cancellation_requested"},
               NEW e, updateSubscriptionOrder(r, w, e), "none" \notin e
        PROVE  SubscriptionInv'
    <2>1. Keeps
      BY <1>6, RequestWrites DEF SubscriptionInv
    <2>2. AgreeInv'
      BY <1>6, RequestAgrees
    <2> QED BY <2>1, <2>2, BooksKept DEF SubscriptionInv
  <1>7. ASSUME NEW r \in Requesters,
               SavePaused(r) \/ SaveResumed(r) \/ SaveCancellation(r)
        PROVE  SubscriptionInv'
    <2>1. CASE SavePaused(r)
      BY <1>6, <2>1 DEF SavePaused
    <2>2. CASE SaveResumed(r)
      BY <1>6, <2>2 DEF SaveResumed
    <2>3. CASE SaveCancellation(r)
      BY <1>6, <2>3 DEF SaveCancellation
    <2> QED BY <1>7, <2>1, <2>2, <2>3
  <1>8. ASSUME NEW r \in Requesters,
               pauseSubscription(r) \/ resumeSubscription(r) \/ cancelSubscription(r)
        PROVE  SubscriptionInv'
    BY <1>4, <1>8 DEF pauseSubscription, resumeSubscription, cancelSubscription
  <1>9. CASE FetchSubscription \/ ReadStatus \/ getMySubscriptions
    <2>1. gateway.status = "none" => ~Saved
      BY DEF SubscriptionInv, AgreeInv, Told
    <2>2. Keeps
      BY <1>9, <2>1, ListingKeeps DEF SubscriptionInv
    <2> QED BY <1>9, <2>2, ListingAgrees, BooksKept DEF SubscriptionInv
  <1>10. CASE UNCHANGED subscriptionVars
    <2>1. UNCHANGED <<gateway, news, handled, origin, renewal, asked, listing, swallowed,
                      overtaken>>
      BY <1>10 DEF subscriptionVars
    <2>2. OneOrderPerCharge' /\ \A d : Booked(d) <=> Booked(d)'
      BY <2>1 DEF SubscriptionInv, BooksInv, OneOrderPerCharge, Booked
    <2>3. Keeps
      BY <2>1, <2>2, BooksAsTheyWere DEF Keeps, SubscriptionInv
    <2>4. Heard'
      BY <2>1, HeardStays
    <2>5. AgreeInv'
      BY <2>1, <2>4, AgreeIdle DEF SubscriptionInv, AgreeInv, Told
    <2> QED BY <2>3, <2>5, BooksKept DEF SubscriptionInv
  <1> QED BY <1>1, <1>2, <1>3, <1>5, <1>7, <1>8, <1>9, <1>10, AnswerKeeps, CancelKeeps
          DEF SubscriptionNext

(* Every charge becomes one order, whatever comes twice, late or cut short,*)
(* unless its renewal threw inside its handler.                            *)
THEOREM SubscriptionCorrect == SubscriptionSpec => []SubscriptionSafe
  <1>1. SubscriptionInv => SubscriptionSafe
    BY DEF SubscriptionInv, BooksInv, SubscriptionSafe
  <1> QED BY <1>1, SubscriptionBegins, SubscriptionKeeps, PTL DEF SubscriptionSpec

(* At rest the customer is shown what Razorpay has, unless something older *)
(* was written over something newer.                                       *)
THEOREM SubscriptionAgrees == SubscriptionSpec => []AgreesAtRest
  <1>1. SubscriptionInv => AgreesAtRest
    <2> SUFFICES ASSUME SubscriptionInv, AtRest, Saved, ~overtaken PROVE AgreesAtRest
      BY DEF AgreesAtRest
    <2> DEFINE s == origin.subscription_status
    <2>1. news = <<>> \/ handled[Latest] \in {"again", "done"}
      BY LatestPlace DEF AtRest
    <2>2. Agrees
      BY <2>1 DEF SubscriptionInv, AgreeInv, Current
    <2>3. gateway.status \in GatewayStatus \ {"none"}
      BY LatestPlace DEF SubscriptionInv, AgreeInv, Told
    <2>4. \/ SameStatus(s) = SameStatus(gateway.status)
          \/ gateway.status = "pending" /\ origin.payment_status = "failed"
          \/ /\ s = "cancellation_requested" /\ gateway.ending
             /\ gateway.status \notin {"cancelled", "completed"}
      BY <2>2 DEF Agrees
    <2>5. CASE SameStatus(s) = SameStatus(gateway.status)
      <3>1. /\ gateway.status = "pending" => s \in {"past_due", "pending"}
            /\ gateway.status = "completed" => s \in {"expired", "completed"}
            /\ gateway.status \notin {"pending", "completed"} => s = gateway.status
        BY <2>3, <2>5 DEF SameStatus, GatewayStatus
      <3> QED BY <3>1 DEF AgreesAtRest
    <2> QED BY <2>4, <2>5 DEF AgreesAtRest
  <1> QED BY <1>1, SubscriptionBegins, SubscriptionKeeps, PTL DEF SubscriptionSpec
=============================================================================
