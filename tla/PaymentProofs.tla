---------------------------- MODULE PaymentProofs ----------------------------
(* Proofs about Payment, for any number of attempts and verify requests;   *)
(* the last section is about news that come in order.                      *)
EXTENDS Payment, TLAPS

USE PaymentAssumption

-----------------------------------------------------------------------------
(* Types. *)

LEMMA EventPairs ==
  /\ \A p \in Attempts : <<"captured", p>> \in Event
  /\ \A p \in Attempts : <<"failed", p>> \in Event
  /\ \A e \in Event : e[2] \in Attempts
  /\ \A e \in Event : e[1] = "captured" => e = <<"captured", e[2]>>
  BY DEF Event

LEMMA InitTyped == Init => TypeOK
<1> SUFFICES ASSUME Init PROVE TypeOK
  OBVIOUS
<1>1. /\ order_status \in OrderStatus /\ payment_status \in PaymentStatus
      /\ payments_status \in PaymentsStatus
      /\ razorpay_payment_id \in Ids /\ refund \in Ids
  BY DEF Init, OrderStatus, PaymentStatus, PaymentsStatus, Ids
<1>2. /\ rzp \in [Attempts -> RazorpayStatus]
      /\ pc \in [Verifiers -> Step] /\ attempt \in [Verifiers -> Ids]
      /\ at \in [Event -> DeliveryStep] /\ ledger \in [Event -> Ledger]
  BY DEF Init, RazorpayStatus, Step, Ids, DeliveryStep, Ledger
<1>3. confirmed \in BOOLEAN /\ world \in [in_order: BOOLEAN, calm: BOOLEAN]
  BY DEF Init
<1> QED
  BY <1>1, <1>2, <1>3 DEF TypeOK

(* The two writers of a paid order keep its columns typed.                 *)
LEMMA FinaliseTyped ==
  ASSUME NEW p \in Attempts, FinalisePaid(p)
  PROVE  /\ order_status' \in OrderStatus /\ payment_status' \in PaymentStatus
         /\ razorpay_payment_id' \in Ids
         /\ payments_status' \in PaymentsStatus
  BY DEF FinalisePaid, BookPayment, OrderStatus, PaymentStatus, Ids,
         PaymentsStatus

(* A request under way knows the attempt it verifies.                      *)
Knows == \A v \in Verifiers : pc[v] = "lock" => attempt[v] \in Attempts

Typed == TypeOK /\ Knows

LEMMA TypeStep == Typed /\ [Next]_vars => Typed'
<1> SUFFICES ASSUME Typed, [Next]_vars PROVE Typed'
  OBVIOUS
<1> USE EventPairs DEF Typed, TypeOK, Knows
<1> USE DEF orders, request, webhook
<1>1. ASSUME NEW p \in Attempts, Razorpay(p) PROVE Typed'
  BY <1>1 DEF Razorpay, RazorpayAuthorizes, RazorpayCaptures, RazorpayFails,
              Become, Emit, RazorpayStatus, Ledger
<1>2. CASE Admin
  <2>1. ASSUME NEW next \in OrderStatus, updateOrderStatus(next) PROVE Typed'
    BY <2>1 DEF updateOrderStatus
  <2>2. CASE cancelOrderAndRefund
    BY <2>2 DEF cancelOrderAndRefund, OrderStatus, Ids
  <2>3. CASE RefundCompletes
    BY <2>3 DEF RefundCompletes, Become, RazorpayStatus, PaymentStatus,
                PaymentsStatus, Ids
  <2> QED
    BY <1>2, <2>1, <2>2, <2>3 DEF Admin
<1>3. ASSUME NEW v \in Verifiers, Verify(v) PROVE Typed'
  <2>1. ASSUME NEW p \in Attempts, VerifySnapshot(v, p) PROVE Typed'
    BY <2>1 DEF VerifySnapshot, Goto, Step, Ids
  <2>2. CASE VerifyLocked(v)
    <3>1. attempt[v] \in Attempts
      BY <2>2 DEF VerifyLocked
    <3>2. /\ order_status' \in OrderStatus /\ payment_status' \in PaymentStatus
          /\ razorpay_payment_id' \in Ids
          /\ payments_status' \in PaymentsStatus
      BY <2>2, <3>1, FinaliseTyped DEF VerifyLocked
    <3> QED
      BY <2>2, <3>2 DEF VerifyLocked, Goto, Step
  <2>3. CASE VerifyNotifies(v)
    BY <2>3 DEF VerifyNotifies, notifyInitialOrderConfirmation, End, Goto,
                Step, Ids
  <2>4. CASE VerifyEnds(v)
    BY <2>4 DEF VerifyEnds, End, Goto, Step, Ids
  <2> QED
    BY <1>3, <2>1, <2>2, <2>3, <2>4 DEF Verify
<1>4. ASSUME NEW e \in Event, Deliver(e) PROVE Typed'
  <2> USE DEF GoOn, Mark, DeliveryStep, Ledger
  <2>1. CASE claimWebhookEvent(e)
    BY <2>1 DEF claimWebhookEvent
  <2>2. CASE CapturedLocked(e[2])
    BY <2>2, FinaliseTyped DEF CapturedLocked
  <2>3. CASE CapturedConflict(e[2])
    BY <2>3 DEF CapturedConflict
  <2>4. CASE CapturedNotifies(e[2])
    BY <2>4 DEF CapturedNotifies, notifyInitialOrderConfirmation
  <2>5. CASE FailedOrder(e[2])
    BY <2>5 DEF FailedOrder, PaymentStatus
  <2>6. CASE markPaymentRowFailed(e[2])
    BY <2>6 DEF markPaymentRowFailed, PaymentsStatus
  <2>7. CASE markWebhookEventCompleted(e)
    BY <2>7 DEF markWebhookEventCompleted
  <2> QED
    BY <1>4, <2>1, <2>2, <2>3, <2>4, <2>5, <2>6, <2>7
    DEF Deliver, Captured, Failed
<1>5. ASSUME NEW e \in Event, DeliveryThrows(e) \/ DeliveryDies(e)
      PROVE  Typed'
  BY <1>5 DEF DeliveryThrows, DeliveryDies, markWebhookEventFailed, GoOn, Mark,
              DeliveryStep, Ledger
<1>6. CASE CalmBegins
  BY <1>6 DEF CalmBegins
<1>7. CASE UNCHANGED vars
  BY <1>7 DEF vars
<1> QED
  BY <1>1, <1>2, <1>3, <1>4, <1>5, <1>6, <1>7 DEF Next

(* The rows, the requests and the deliveries of a payment are well typed.  *)
THEOREM TypeCorrect == Spec => []TypeOK
<1>1. Init => Typed
  BY InitTyped DEF Typed, Knows, Init
<1> QED
  BY <1>1, TypeStep, PTL DEF Spec, Typed

-----------------------------------------------------------------------------
(* Nothing is paid that nobody paid for.                                   *)
(*                                                                         *)
(* Neither writer of a paid order asks Razorpay about the payment when it  *)
(* writes: verifyPayment relies on the signature it saw when the request   *)
(* came, the webhook on the event. Both are about a payment that has       *)
(* succeeded, which Razorpay never takes back (SuccessStays).              *)

(* Nobody has heard of the event yet. *)
Untold(e) == ledger[e] = "unsent" /\ at[e] = "idle"

Trusted ==
  /\ \A v \in Verifiers : pc[v] = "lock" => Succeeded(attempt[v])
  /\ \A p \in Attempts : Succeeded(p) \/ Untold(<<"captured", p>>)

Safe == Typed /\ PaidIsPaidFor /\ Trusted

LEMMA SuccessStays ==
  ASSUME TypeOK, [Next]_vars, NEW p \in Attempts, Succeeded(p)
  PROVE  Succeeded(p)'
<1> USE DEF TypeOK, Succeeded
<1>1. CASE \E q \in Attempts : Razorpay(q)
  BY <1>1 DEF Razorpay, RazorpayAuthorizes, RazorpayCaptures, RazorpayFails,
              Become
<1>2. CASE RefundCompletes
  BY <1>2 DEF RefundCompletes, Become, Ids
<1>3. CASE UNCHANGED rzp
  BY <1>3
<1>4. (\E q \in Attempts : Razorpay(q)) \/ RefundCompletes \/ UNCHANGED rzp
  BY DEF Next, vars, Admin, updateOrderStatus, cancelOrderAndRefund, Verify,
         VerifySnapshot, VerifyLocked, VerifyNotifies, VerifyEnds, Deliver,
         claimWebhookEvent, Captured, CapturedLocked, CapturedConflict,
         CapturedNotifies, Failed, FailedOrder, markPaymentRowFailed,
         markWebhookEventCompleted, DeliveryThrows, DeliveryDies, CalmBegins
<1> QED
  BY <1>1, <1>2, <1>3, <1>4

LEMMA InitSafe == Init => Safe
<1> SUFFICES ASSUME Init PROVE Safe
  OBVIOUS
<1>1. Typed
  BY InitTyped DEF Typed, Knows, Init
<1>2. PaidIsPaidFor
  BY DEF Init, PaidIsPaidFor
<1>3. Trusted
  BY EventPairs DEF Init, Trusted, Untold
<1> QED
  BY <1>1, <1>2, <1>3 DEF Safe

(* Whoever writes a paid order writes it for a payment that succeeded.     *)
LEMMA FinaliseSafe ==
  ASSUME NEW p \in Attempts, Succeeded(p)', FinalisePaid(p),
         UNCHANGED confirmed
  PROVE  PaidIsPaidFor'
  BY DEF FinalisePaid, PaidIsPaidFor

(* A step that leaves the three columns alone keeps what they say.         *)
LEMMA SameColumns ==
  ASSUME Safe, [Next]_vars,
         UNCHANGED <<payment_status, razorpay_payment_id, confirmed>>
  PROVE  PaidIsPaidFor'
<1>1. ASSUME payment_status = "paid" PROVE Succeeded(razorpay_payment_id)'
  BY <1>1, SuccessStays DEF Safe, Typed, TypeOK, PaidIsPaidFor, Ids
<1> QED
  BY <1>1 DEF Safe, PaidIsPaidFor

(* The confirmation is announced for a paid order only.                    *)
LEMMA NotifySafe ==
  ASSUME Safe, [Next]_vars, notifyInitialOrderConfirmation, UNCHANGED orders
  PROVE  PaidIsPaidFor'
<1>1. UNCHANGED <<payment_status, razorpay_payment_id>>
  BY DEF orders
<1>2. ASSUME payment_status = "paid" PROVE Succeeded(razorpay_payment_id)'
  BY <1>1, <1>2, SuccessStays DEF Safe, Typed, TypeOK, PaidIsPaidFor, Ids
<1>3. confirmed' => confirmed \/ payment_status = "paid"
  BY DEF notifyInitialOrderConfirmation
<1> QED
  BY <1>1, <1>2, <1>3 DEF Safe, PaidIsPaidFor

(* A step that changes no order but for a payment that did not succeed.    *)
LEMMA NotPaid ==
  ASSUME Safe, payment_status' # "paid",
         UNCHANGED <<razorpay_payment_id, confirmed>>
  PROVE  PaidIsPaidFor'
  BY DEF Safe, PaidIsPaidFor

LEMMA SafeColumns == Safe /\ [Next]_vars => PaidIsPaidFor'
<1> SUFFICES ASSUME Safe, [Next]_vars PROVE PaidIsPaidFor'
  OBVIOUS
<1>1. ASSUME NEW p \in Attempts, Razorpay(p) PROVE PaidIsPaidFor'
  BY <1>1, SameColumns DEF Razorpay, RazorpayAuthorizes, RazorpayCaptures,
                           RazorpayFails, orders
<1>2. CASE Admin
  <2>1. ASSUME NEW next \in OrderStatus, updateOrderStatus(next)
        PROVE  PaidIsPaidFor'
    BY <2>1, SameColumns DEF updateOrderStatus
  <2>2. CASE cancelOrderAndRefund
    BY <2>2, SameColumns DEF cancelOrderAndRefund
  <2>3. CASE RefundCompletes
    BY <2>3, NotPaid DEF RefundCompletes
  <2> QED
    BY <1>2, <2>1, <2>2, <2>3 DEF Admin
<1>3. ASSUME NEW v \in Verifiers, Verify(v) PROVE PaidIsPaidFor'
  <2>1. ASSUME NEW p \in Attempts, VerifySnapshot(v, p) PROVE PaidIsPaidFor'
    BY <2>1, SameColumns DEF VerifySnapshot, orders
  <2>2. CASE VerifyLocked(v)
    <3>1. attempt[v] \in Attempts /\ Succeeded(attempt[v])'
      BY <2>2, SuccessStays DEF VerifyLocked, Safe, Typed, Knows, Trusted
    <3>2. CASE FinalisePaid(attempt[v])
      BY <2>2, <3>1, <3>2, FinaliseSafe DEF VerifyLocked
    <3>3. CASE UNCHANGED <<orders, payments_status>>
      BY <2>2, <3>3, SameColumns DEF VerifyLocked, orders
    <3> QED
      BY <2>2, <3>2, <3>3 DEF VerifyLocked
  <2>3. CASE VerifyNotifies(v)
    BY <2>3, NotifySafe DEF VerifyNotifies
  <2>4. CASE VerifyEnds(v)
    BY <2>4, SameColumns DEF VerifyEnds, orders
  <2> QED
    BY <1>3, <2>1, <2>2, <2>3, <2>4 DEF Verify
<1>4. ASSUME NEW e \in Event, Deliver(e) PROVE PaidIsPaidFor'
  <2>1. CASE claimWebhookEvent(e)
    BY <2>1, SameColumns DEF claimWebhookEvent, orders
  <2>2. CASE CapturedLocked(e[2])
    <3>1. e[2] \in Attempts /\ Succeeded(e[2])'
      BY <2>2, EventPairs, SuccessStays
      DEF CapturedLocked, Safe, Typed, Trusted, Untold
    <3> QED
      BY <2>2, <3>1, FinaliseSafe DEF CapturedLocked
  <2>3. CASE CapturedConflict(e[2])
    BY <2>3, SameColumns DEF CapturedConflict, orders
  <2>4. CASE CapturedNotifies(e[2])
    BY <2>4, NotifySafe DEF CapturedNotifies
  <2>5. CASE FailedOrder(e[2])
    BY <2>5, NotPaid DEF FailedOrder
  <2>6. CASE markPaymentRowFailed(e[2])
    BY <2>6, SameColumns DEF markPaymentRowFailed, orders
  <2>7. CASE markWebhookEventCompleted(e)
    BY <2>7, SameColumns DEF markWebhookEventCompleted, orders
  <2> QED
    BY <1>4, <2>1, <2>2, <2>3, <2>4, <2>5, <2>6, <2>7
    DEF Deliver, Captured, Failed
<1>5. ASSUME NEW e \in Event, DeliveryThrows(e) \/ DeliveryDies(e)
      PROVE  PaidIsPaidFor'
  BY <1>5, SameColumns DEF DeliveryThrows, DeliveryDies, orders
<1>6. CASE CalmBegins
  BY <1>6, SameColumns DEF CalmBegins, orders
<1>7. CASE UNCHANGED vars
  BY <1>7, SameColumns DEF vars, orders
<1> QED
  BY <1>1, <1>2, <1>3, <1>4, <1>5, <1>6, <1>7 DEF Next

(* Only Razorpay tells an event.                                           *)
LEMMA UntoldStays ==
  ASSUME Typed, [Next]_vars, NEW p \in Attempts, Untold(<<"captured", p>>),
         ~RazorpayCaptures(p)
  PROVE  Untold(<<"captured", p>>)'
<1> DEFINE c == <<"captured", p>>
<1>0. /\ c \in Event
      /\ \A q \in Attempts : <<"failed", q>> # c
      /\ \A q \in Attempts : q # p => <<"captured", q>> # c
      /\ \A e \in Event : e[1] = "captured" => e = <<"captured", e[2]>>
      /\ \A e \in Event : e[2] \in Attempts
      /\ \A q \in Attempts : <<"captured", q>> \in Event
      /\ \A q \in Attempts : <<"failed", q>> \in Event
  BY EventPairs DEF Event
<1>u. ledger[c] = "unsent" /\ at[c] = "idle"
  BY DEF Untold
<1>t. at \in [Event -> DeliveryStep] /\ ledger \in [Event -> Ledger]
  BY DEF Typed, TypeOK
<1> HIDE DEF c
<1> SUFFICES ledger'[c] = "unsent" /\ at'[c] = "idle"
  BY DEF c, Untold
<1>1. ASSUME NEW q \in Attempts, Razorpay(q)
      PROVE  ledger'[c] = "unsent" /\ at'[c] = "idle"
  <2>1. CASE RazorpayAuthorizes(q)
    BY <2>1, <1>u DEF RazorpayAuthorizes, webhook
  <2>2. CASE RazorpayCaptures(q)
    BY <2>2, <1>0, <1>u, <1>t DEF RazorpayCaptures, Emit
  <2>3. CASE RazorpayFails(q)
    BY <2>3, <1>0, <1>u, <1>t DEF RazorpayFails, Emit
  <2> QED
    BY <1>1, <2>1, <2>2, <2>3 DEF Razorpay
<1>2. ASSUME NEW e \in Event, e # c,
             /\ ledger' = ledger \/ \E l : Mark(e, l)
             /\ at' = at \/ \E s : GoOn(e, s)
      PROVE  ledger'[c] = "unsent" /\ at'[c] = "idle"
  BY <1>2, <1>0, <1>u, <1>t DEF Mark, GoOn
<1>3. ASSUME NEW e \in Event,
             Deliver(e) \/ DeliveryThrows(e) \/ DeliveryDies(e)
      PROVE  ledger'[c] = "unsent" /\ at'[c] = "idle"
  <2> DEFINE d == <<"captured", e[2]>>
             f == <<"failed", e[2]>>
  <2>0. /\ d \in Event /\ f \in Event
    BY <1>0
  <2>1. CASE claimWebhookEvent(e)
    BY <2>1, <1>2, <1>u DEF claimWebhookEvent
  <2>2. CASE Captured(e[2])
    <3>1. d # c
      BY <2>2, <1>u
      DEF Captured, CapturedLocked, CapturedConflict, CapturedNotifies
    <3> QED
      BY <2>2, <2>0, <3>1, <1>2
      DEF Captured, CapturedLocked, CapturedConflict, CapturedNotifies
  <2>3. CASE Failed(e[2])
    BY <2>3, <2>0, <1>0, <1>2 DEF Failed, FailedOrder, markPaymentRowFailed
  <2>4. CASE markWebhookEventCompleted(e)
    BY <2>4, <1>2, <1>u DEF markWebhookEventCompleted
  <2>5. CASE DeliveryThrows(e)
    BY <2>5, <1>2, <1>u DEF DeliveryThrows, markWebhookEventFailed
  <2>6. CASE DeliveryDies(e)
    BY <2>6, <1>2, <1>u DEF DeliveryDies
  <2> QED
    BY <1>3, <2>1, <2>2, <2>3, <2>4, <2>5, <2>6 DEF Deliver
<1>4. CASE UNCHANGED webhook
  BY <1>4, <1>u DEF webhook
<1> QED
  BY <1>1, <1>3, <1>4
  DEF Next, vars, webhook, Admin, updateOrderStatus, cancelOrderAndRefund,
      RefundCompletes, Verify, VerifySnapshot, VerifyLocked, VerifyNotifies,
      VerifyEnds, CalmBegins

LEMMA SafeTrusted == Safe /\ [Next]_vars => Trusted'
<1> SUFFICES ASSUME Safe, [Next]_vars PROVE Trusted'
  OBVIOUS
<1> USE DEF Typed, TypeOK
<1>1. ASSUME NEW v \in Verifiers, pc'[v] = "lock"
      PROVE  Succeeded(attempt[v])'
  <2>1. CASE pc[v] = "lock" /\ attempt'[v] = attempt[v]
    BY <2>1, SuccessStays DEF Safe, Knows, Trusted
  <2>2. CASE \E p \in Attempts : VerifySnapshot(v, p)
    BY <2>2, SuccessStays
    DEF VerifySnapshot, verifyPaymentSignature, Safe
  <2>3. (\E p \in Attempts : VerifySnapshot(v, p))
        \/ (pc[v] = "lock" /\ attempt'[v] = attempt[v])
    <3>1. ASSUME NEW w \in Verifiers, Verify(w),
                 ~\E p \in Attempts : VerifySnapshot(v, p)
          PROVE  pc[v] = "lock" /\ attempt'[v] = attempt[v]
      BY <1>1, <3>1
      DEF Verify, VerifySnapshot, VerifyLocked, VerifyNotifies, VerifyEnds,
          End, Goto, Safe, Step
    <3>2. CASE UNCHANGED request
      BY <1>1, <3>2 DEF request
    <3>3. (\E w \in Verifiers : Verify(w)) \/ UNCHANGED request
      BY DEF Next, vars, Razorpay, RazorpayAuthorizes, RazorpayCaptures,
             RazorpayFails, Admin, updateOrderStatus, cancelOrderAndRefund,
             RefundCompletes, Deliver, claimWebhookEvent, Captured,
             CapturedLocked, CapturedConflict, CapturedNotifies, Failed,
             FailedOrder, markPaymentRowFailed, markWebhookEventCompleted,
             DeliveryThrows, DeliveryDies, CalmBegins
    <3> QED
      BY <3>1, <3>2, <3>3
  <2> QED
    BY <2>1, <2>2, <2>3
<1>2. ASSUME NEW p \in Attempts
      PROVE  Succeeded(p)' \/ Untold(<<"captured", p>>)'
  <2>1. CASE RazorpayCaptures(p)
    BY <2>1 DEF RazorpayCaptures, Become, Succeeded, Safe
  <2>2. CASE Succeeded(p)
    BY <2>2, SuccessStays DEF Safe
  <2>3. CASE Untold(<<"captured", p>>) /\ ~RazorpayCaptures(p)
    BY <2>3, UntoldStays DEF Safe
  <2> QED
    BY <2>1, <2>2, <2>3 DEF Safe, Trusted
<1> QED
  BY <1>1, <1>2 DEF Trusted

LEMMA SafeStep == Safe /\ [Next]_vars => Safe'
  BY TypeStep, SafeColumns, SafeTrusted DEF Safe

(* A paid order names a payment that succeeded, and no unpaid order was    *)
(* ever confirmed to its customer.                                         *)
THEOREM PaidCorrect == Spec => []PaidIsPaidFor
  BY InitSafe, SafeStep, PTL DEF Spec, Safe

-----------------------------------------------------------------------------
(* The stored payment stays.                                               *)

(* Who writes the payment's id writes it to an order that is not paid, or  *)
(* writes what is there.                                                   *)
LEMMA FinaliseKeeps ==
  ASSUME PaidIsPaidFor, NEW p, State(p) # "conflict", FinalisePaid(p),
         payment_status = "paid"
  PROVE  razorpay_payment_id' = razorpay_payment_id
  BY DEF PaidIsPaidFor, State, classifyPaymentState, FinalisePaid

LEMMA StoredStep ==
  ASSUME Safe, [Next]_vars, payment_status = "paid"
  PROVE  razorpay_payment_id' = razorpay_payment_id
<1>1. ASSUME NEW v \in Verifiers, VerifyLocked(v)
      PROVE  razorpay_payment_id' = razorpay_payment_id
  BY <1>1, FinaliseKeeps DEF VerifyLocked, LockedState, Safe, orders
<1>2. ASSUME NEW p, CapturedLocked(p)
      PROVE  razorpay_payment_id' = razorpay_payment_id
  BY <1>2, FinaliseKeeps DEF CapturedLocked, Safe
<1>3. \/ \E v \in Verifiers : VerifyLocked(v)
      \/ \E e \in Event : CapturedLocked(e[2])
      \/ UNCHANGED razorpay_payment_id
  BY DEF Next, vars, orders, Razorpay, RazorpayAuthorizes, RazorpayCaptures,
         RazorpayFails, Admin, updateOrderStatus, cancelOrderAndRefund,
         RefundCompletes, Verify, VerifySnapshot, VerifyNotifies, VerifyEnds,
         Deliver, claimWebhookEvent, Captured, CapturedConflict,
         CapturedNotifies, Failed, FailedOrder, markPaymentRowFailed,
         markWebhookEventCompleted, DeliveryThrows, DeliveryDies, CalmBegins
<1> QED
  BY <1>1, <1>2, <1>3

(* While an order is paid, no second payment, verified or announced, takes *)
(* the place of the first.                                                 *)
THEOREM StoredCorrect == Spec => StoredPaymentStays
<1>1. Safe /\ [Next]_vars =>
        [payment_status = "paid" /\ payment_status' = "paid" =>
           razorpay_payment_id' = razorpay_payment_id]_vars
  BY StoredStep
<1> QED
  BY <1>1, InitSafe, SafeStep, PTL DEF Spec, StoredPaymentStays

-----------------------------------------------------------------------------
(* News in order.                                                          *)
(*                                                                         *)
(* Neither RowsAgree nor OrderNeverMovesBack is inductive: whether a row   *)
(* may still be written by who looked at another one depends on who is     *)
(* under way. FailuresFirst says that nobody fails an order that may be    *)
(* paid; Overtaken, that whoever is under way when the order has moved on  *)
(* has nothing left to write; and Settled, what a refund leaves behind.    *)

FailuresFirst ==
  (\E p \in Attempts : Pending(<<"failed", p>>)) => \A q \in Attempts : ~Succeeded(q)

Open == order_status \in {"pending_payment", "paid"} /\ payment_status # "refunded"

Overtaken == NewsOfPayment => Open

Settled ==
  /\ payment_status = "refunded" =>
       /\ refund \in Attempts /\ razorpay_payment_id = refund
       /\ rzp[refund] = "refunded"
       /\ \A q \in Attempts : Succeeded(q) => q = refund
       /\ \A v \in Verifiers : pc[v] # "lock"
  /\ \A q \in Attempts : rzp[q] = "refunded" => payment_status = "refunded"

InOrder == FailuresFirst /\ Overtaken /\ Settled /\ RowsAgree

OrderInv == Safe /\ (world.in_order => InOrder)

LEMMA WorldStays == TypeOK /\ [Next]_vars => world'.in_order = world.in_order
  BY DEF TypeOK, Next, vars, orders, request, webhook, Razorpay,
     RazorpayAuthorizes, RazorpayCaptures, RazorpayFails, Admin,
     updateOrderStatus, cancelOrderAndRefund, RefundCompletes, Verify,
     VerifySnapshot, VerifyLocked, VerifyNotifies, VerifyEnds, Deliver,
     claimWebhookEvent, Captured, CapturedLocked, CapturedConflict,
     CapturedNotifies, Failed, FailedOrder, markPaymentRowFailed,
     markWebhookEventCompleted, DeliveryThrows, DeliveryDies, CalmBegins

LEMMA OrderInit == Init => OrderInv
  <1> SUFFICES ASSUME Init PROVE OrderInv
    OBVIOUS
  <1>1. \A e \in Event : ~Pending(e)
    BY DEF Init, Pending
  <1>2. \A p \in Attempts : rzp[p] = "created"
    BY DEF Init
  <1>3. FailuresFirst /\ Overtaken
    BY <1>1, <1>2, EventPairs DEF FailuresFirst, Overtaken, NewsOfPayment
  <1>4. Settled /\ RowsAgree
    BY <1>2 DEF Init, Settled, RowsAgree
  <1> QED BY <1>3, <1>4, InitSafe DEF OrderInv, InOrder

(* Whoever is about to write a paid order finds it open ...                *)
LEMMA WriterFindsItOpen ==
  ASSUME Safe, InOrder, NEW p \in Attempts, Succeeded(p),
         State(p) \notin {"already_paid", "conflict"},
         payment_status # "refunded"
  PROVE  Open
  <1>1. payment_status # "paid"
    BY DEF Safe, PaidIsPaidFor, State, classifyPaymentState
  <1>2. rzp[p] \in {"authorized", "captured"}
    BY DEF InOrder, Settled, Succeeded
  <1> QED BY <1>1, <1>2 DEF InOrder, Overtaken, NewsOfPayment

LEMMA VerifierFindsItOpen ==
  ASSUME Safe, InOrder, NEW v \in Verifiers, pc[v] = "lock",
         LockedState(v) \notin {"already_paid", "conflict"}
  PROVE  Open
  <1>1. attempt[v] \in Attempts /\ Succeeded(attempt[v])
    BY DEF Safe, Typed, Knows, Trusted
  <1>2. payment_status # "refunded"
    BY DEF InOrder, Settled
  <1> QED BY <1>1, <1>2, WriterFindsItOpen DEF LockedState

LEMMA WebhookFindsItOpen ==
  ASSUME InOrder, NEW p \in Attempts, at[<<"captured", p>>] # "idle"
  PROVE  Open
  BY DEF InOrder, Overtaken, NewsOfPayment, Pending

(* ... and whoever is about to fail it finds that nobody has paid.         *)
LEMMA FailureFindsItUnpaid ==
  ASSUME Safe, InOrder, NEW p \in Attempts, at[<<"failed", p>>] # "idle"
  PROVE  /\ payment_status \notin {"paid", "refunded"}
         /\ \A q \in Attempts : ~Succeeded(q)
  <1>1. \A q \in Attempts : ~Succeeded(q)
    BY DEF InOrder, FailuresFirst, Pending
  <1>2. payment_status # "paid"
    BY <1>1 DEF Safe, Typed, TypeOK, PaidIsPaidFor, Ids
  <1>3. payment_status # "refunded"
    BY <1>1 DEF InOrder, Settled, Succeeded
  <1> QED BY <1>1, <1>2, <1>3

NothingNew == \A e \in Event : Pending(e)' => Pending(e)

(* A step that writes no row.                                              *)
LEMMA RowsUntouched ==
  ASSUME InOrder, NothingNew, world'.in_order,
         world.in_order, UNCHANGED <<orders, payments_status, refund, rzp>>,
         \A v \in Verifiers :
           pc'[v] = "lock" => pc[v] = "lock" \/ payment_status # "refunded"
  PROVE  InOrder'
  <1> USE DEF InOrder, orders
  <1>1. FailuresFirst'
    BY EventPairs DEF FailuresFirst, NothingNew, Succeeded
  <1>2. Overtaken'
    BY EventPairs DEF Overtaken, Open, NewsOfPayment, NothingNew
  <1>3. Settled'
    BY DEF Settled, Succeeded
  <1>4. RowsAgree'
    BY DEF RowsAgree
  <1> QED BY <1>1, <1>2, <1>3, <1>4

(* The transaction of a paid order.                                        *)
LEMMA FinaliseInOrder ==
  ASSUME InOrder, NothingNew, Open, NEW p \in Attempts, FinalisePaid(p),
         UNCHANGED rzp
  PROVE  InOrder'
  <1> USE DEF InOrder, FinalisePaid
  <1>1. FailuresFirst'
    BY EventPairs DEF FailuresFirst, NothingNew, Succeeded
  <1>2. Overtaken'
    BY DEF Overtaken, Open
  <1>3. Settled'
    BY DEF Settled, Open
  <1>4. RowsAgree'
    BY DEF RowsAgree, BookPayment
  <1> QED BY <1>1, <1>2, <1>3, <1>4

LEMMA RazorpayInOrder ==
  ASSUME Safe, InOrder, world.in_order, NEW p \in Attempts, Razorpay(p)
  PROVE  InOrder'
  <1> USE EventPairs DEF InOrder, Safe, Typed, TypeOK, orders, request, webhook
  <1>1. CASE RazorpayAuthorizes(p)
    <2> USE <1>1 DEF RazorpayAuthorizes
    <2>1. rzp' = [rzp EXCEPT ![p] = "authorized"]
      BY DEF Become
    <2>2. \A e \in Event : Pending(e)' = Pending(e)
      BY DEF Pending
    <2>3. FailuresFirst'
      BY <2>2 DEF FailuresFirst
    <2>4. Overtaken'
      BY DEF Overtaken, Open
    <2>5. Settled'
      BY <2>1 DEF Settled
    <2>6. RowsAgree'
      BY DEF RowsAgree
    <2> QED BY <2>3, <2>4, <2>5, <2>6
  <1>2. CASE RazorpayCaptures(p)
    <2> USE <1>2 DEF RazorpayCaptures
    <2>1. rzp' = [rzp EXCEPT ![p] = "captured"] /\ rzp[p] = "authorized"
      BY DEF Become
    <2>2. \A q \in Attempts : Pending(<<"failed", q>>)' = Pending(<<"failed", q>>)
      BY DEF Pending, Emit
    <2>3. Open /\ Succeeded(p)
      BY <2>1 DEF Overtaken, NewsOfPayment, Succeeded
    <2>4. FailuresFirst'
      BY <2>2, <2>3 DEF FailuresFirst
    <2>5. Overtaken'
      BY <2>3 DEF Overtaken, Open
    <2>6. Settled'
      BY <2>1, <2>3 DEF Settled, Open
    <2>7. RowsAgree'
      BY DEF RowsAgree
    <2> QED BY <2>4, <2>5, <2>6, <2>7
  <1>3. CASE RazorpayFails(p)
    <2> USE <1>3 DEF RazorpayFails
    <2>1. rzp' = [rzp EXCEPT ![p] = "failed"] /\ rzp[p] = "created"
      BY DEF Become
    <2>2. \A q \in Attempts : Pending(<<"captured", q>>)' = Pending(<<"captured", q>>)
      BY DEF Pending, Emit
    <2>3. \A q \in Attempts : ~Succeeded(q)'
      BY <2>1 DEF Succeeded
    <2>4. FailuresFirst'
      BY <2>3 DEF FailuresFirst
    <2>5. NewsOfPayment' => NewsOfPayment
      BY <2>1, <2>2 DEF NewsOfPayment
    <2>6. Overtaken'
      BY <2>5 DEF Overtaken, Open
    <2>7. Settled'
      BY <2>1, <2>3 DEF Settled, Succeeded
    <2>8. RowsAgree'
      BY DEF RowsAgree
    <2> QED BY <2>4, <2>6, <2>7, <2>8
  <1> QED BY <1>1, <1>2, <1>3 DEF Razorpay

LEMMA AdminInOrder ==
  ASSUME Safe, InOrder, world.in_order, Admin
  PROVE  InOrder'
  <1> USE DEF InOrder, orders, request, webhook
  <1>1. ~NewsOfPayment
    BY DEF Admin, updateOrderStatus, cancelOrderAndRefund, RefundCompletes, InTime
  <1>2. \A e \in Event : Pending(e)' = Pending(e)
    BY DEF Admin, updateOrderStatus, cancelOrderAndRefund, RefundCompletes, Pending
  <1>3. CASE (\E next \in OrderStatus : updateOrderStatus(next)) \/ cancelOrderAndRefund
    <2>1. /\ UNCHANGED <<payment_status, razorpay_payment_id, payments_status, rzp, pc, world>>
          /\ refund' = refund \/ payment_status # "refunded"
      BY <1>3 DEF updateOrderStatus, cancelOrderAndRefund
    <2>2. ~NewsOfPayment'
      BY <1>1, <1>2, <2>1, EventPairs DEF NewsOfPayment
    <2>3. FailuresFirst'
      BY <1>2, <2>1, EventPairs DEF FailuresFirst, Succeeded
    <2>4. Settled' /\ RowsAgree'
      BY <2>1 DEF Settled, Succeeded, RowsAgree
    <2> QED BY <2>2, <2>3, <2>4 DEF Overtaken
  <1>4. CASE RefundCompletes
    <2>1. /\ refund \in Attempts /\ rzp[refund] = "captured"
          /\ rzp' = [rzp EXCEPT ![refund] = "refunded"]
          /\ payment_status' = "refunded" /\ pc' = pc
          /\ UNCHANGED <<razorpay_payment_id, refund>>
          /\ \A q \in Attempts \ {refund} : ~Succeeded(q)
          /\ \A v \in Verifiers : pc[v] # "lock"
      BY <1>4 DEF RefundCompletes, Become, Safe, Typed, TypeOK, Ids
    <2>2. rzp \in [Attempts -> RazorpayStatus]
      BY DEF Safe, Typed, TypeOK
    <2>3. payment_status = "paid"
      BY <1>1, <2>1 DEF NewsOfPayment
    <2>4. razorpay_payment_id = refund
      BY <2>1, <2>3 DEF Safe, Typed, TypeOK, PaidIsPaidFor, Ids
    <2>5. \A q \in Attempts : Succeeded(q)' <=> Succeeded(q)
      BY <2>1, <2>2 DEF Succeeded
    <2>6. FailuresFirst'
      BY <1>2, <2>5, EventPairs DEF FailuresFirst
    <2>7. ~NewsOfPayment'
      BY <1>1, <1>2, <2>1, <2>2, EventPairs DEF NewsOfPayment, Succeeded
    <2>8. Settled'
      BY <2>1, <2>2, <2>4, <2>5 DEF Settled
    <2>9. RowsAgree'
      BY <2>1 DEF RowsAgree
    <2> QED BY <2>6, <2>7, <2>8, <2>9 DEF Overtaken
  <1> QED BY <1>3, <1>4 DEF Admin

LEMMA VerifyInOrder ==
  ASSUME Safe, InOrder, world.in_order, world'.in_order,
         NEW v \in Verifiers, Verify(v)
  PROVE  InOrder'
  <1>1. NothingNew
    BY DEF Verify, VerifySnapshot, VerifyLocked, VerifyNotifies, VerifyEnds,
       NothingNew, Pending, webhook
  <1>2. pc \in [Verifiers -> Step]
    BY DEF Safe, Typed, TypeOK
  <1>3. ASSUME NEW p \in Attempts, VerifySnapshot(v, p) PROVE InOrder'
    <2>1. payment_status = "refunded" => razorpay_payment_id = p
      BY <1>3 DEF VerifySnapshot, verifyPaymentSignature, InOrder, Settled
    <2>2. \A w \in Verifiers :
            pc'[w] = "lock" => pc[w] = "lock" \/ payment_status # "refunded"
      BY <1>2, <1>3, <2>1 DEF VerifySnapshot, Goto
    <2> QED BY <1>1, <1>3, <2>2, RowsUntouched DEF VerifySnapshot
  <1>4. CASE VerifyLocked(v)
    <2>1. CASE LockedState(v) = "already_paid"
      <3>1. \A w \in Verifiers : pc'[w] = "lock" => pc[w] = "lock"
        BY <1>2, <1>4 DEF VerifyLocked, Goto
      <3> QED BY <1>1, <1>4, <2>1, <3>1, RowsUntouched DEF VerifyLocked
    <2>2. CASE LockedState(v) # "already_paid"
      <3>1. Open /\ attempt[v] \in Attempts
        BY <1>4, <2>2, VerifierFindsItOpen DEF VerifyLocked, Safe, Typed, Knows
      <3> QED BY <1>1, <1>4, <2>2, <3>1, FinaliseInOrder DEF VerifyLocked
    <2> QED BY <2>1, <2>2
  <1>5. CASE VerifyNotifies(v) \/ VerifyEnds(v)
    <2>1. \A w \in Verifiers : pc'[w] = "lock" => pc[w] = "lock"
      BY <1>2, <1>5 DEF VerifyNotifies, VerifyEnds, End, Goto
    <2> QED BY <1>1, <1>5, <2>1, RowsUntouched DEF VerifyNotifies, VerifyEnds
  <1> QED BY <1>3, <1>4, <1>5 DEF Verify

LEMMA DeliveryInOrder ==
  ASSUME Safe, InOrder, world.in_order, world'.in_order, NEW e \in Event,
         Deliver(e) \/ DeliveryThrows(e) \/ DeliveryDies(e)
  PROVE  InOrder'
  <1>1. /\ at \in [Event -> DeliveryStep] /\ ledger \in [Event -> Ledger]
        /\ rzp \in [Attempts -> RazorpayStatus]
    BY DEF Safe, Typed, TypeOK
  <1>2. e[2] \in Attempts
    BY EventPairs
  <1>3. CASE claimWebhookEvent(e) \/ markWebhookEventCompleted(e)
             \/ DeliveryThrows(e) \/ DeliveryDies(e)
    <2>1. NothingNew
      BY <1>1, <1>3 DEF claimWebhookEvent, markWebhookEventCompleted, DeliveryThrows,
         DeliveryDies, markWebhookEventFailed, Mark, GoOn, NothingNew, Pending
    <2> QED BY <1>3, <2>1, RowsUntouched
            DEF claimWebhookEvent, markWebhookEventCompleted, DeliveryThrows,
                DeliveryDies, request
  <1>4. CASE Captured(e[2]) /\ e[1] = "captured"
    <2> DEFINE p == e[2]
    <2>1. e = <<"captured", p>> /\ p \in Attempts /\ at[<<"captured", p>>] # "idle"
      BY <1>2, <1>4, EventPairs
      DEF Captured, CapturedLocked, CapturedConflict, CapturedNotifies
    <2> HIDE DEF p
    <2>2. NothingNew
      BY <1>1, <1>4, <2>1 DEF p, Captured, CapturedLocked, CapturedConflict,
         CapturedNotifies, GoOn, NothingNew, Pending
    <2>3. CASE CapturedLocked(p)
      <3>1. Open
        BY <2>1, WebhookFindsItOpen
      <3> QED BY <2>1, <2>2, <2>3, <3>1, FinaliseInOrder DEF CapturedLocked
    <2>4. CASE CapturedConflict(p) \/ CapturedNotifies(p)
      BY <2>2, <2>4, RowsUntouched DEF CapturedConflict, CapturedNotifies, request
    <2> QED BY <1>4, <2>3, <2>4 DEF p, Captured
  <1>5. CASE Failed(e[2]) /\ e[1] = "failed"
    <2> DEFINE p == e[2]
    <2>1. p \in Attempts /\ at[<<"failed", p>>] # "idle"
      BY <1>2, <1>5 DEF Failed, FailedOrder, markPaymentRowFailed
    <2>2. /\ UNCHANGED <<order_status, razorpay_payment_id, refund, rzp, pc>>
          /\ \/ payment_status' = "failed"
             \/ payment_status' = payment_status
      BY <1>5 DEF Failed, FailedOrder, markPaymentRowFailed, orders, request
    <2> HIDE DEF p
    <2>3. NothingNew
      BY <1>1, <1>5, <2>1 DEF p, Failed, FailedOrder, markPaymentRowFailed, GoOn,
         NothingNew, Pending
    <2>4. /\ payment_status \notin {"paid", "refunded"}
          /\ \A q \in Attempts : ~Succeeded(q)
      BY <2>1, FailureFindsItUnpaid
    <2>5. FailuresFirst'
      BY <2>2, <2>4 DEF FailuresFirst, Succeeded
    <2>6. NewsOfPayment' => NewsOfPayment
      BY <2>2, <2>3, <2>4, EventPairs DEF NewsOfPayment, NothingNew, Succeeded
    <2>7. Overtaken'
      BY <2>2, <2>4, <2>6 DEF InOrder, Overtaken, Open
    <2>8. Settled' /\ RowsAgree'
      BY <2>2, <2>4 DEF Settled, Succeeded, RowsAgree
    <2> QED BY <2>5, <2>7, <2>8 DEF InOrder
  <1> QED BY <1>3, <1>4, <1>5 DEF Deliver

LEMMA OrderStep == OrderInv /\ [Next]_vars => OrderInv'
  <1> SUFFICES ASSUME Safe, [Next]_vars, world.in_order => InOrder
               PROVE  Safe' /\ (world'.in_order => InOrder')
    BY DEF OrderInv
  <1>1. Safe'
    BY SafeStep
  <1> SUFFICES ASSUME world'.in_order PROVE InOrder'
    BY <1>1
  <1>2. world.in_order /\ InOrder
    BY WorldStays DEF Safe, Typed
  <1>3. CASE CalmBegins
    <2>1. NothingNew
      BY <1>3 DEF CalmBegins, NothingNew, Pending, webhook
    <2> QED BY <1>2, <1>3, <2>1, RowsUntouched DEF CalmBegins, request
  <1>4. CASE UNCHANGED vars
    <2>1. NothingNew
      BY <1>4 DEF vars, NothingNew, Pending, webhook
    <2> QED BY <1>2, <1>4, <2>1, RowsUntouched DEF vars, request
  <1> QED BY <1>2, <1>3, <1>4, RazorpayInOrder, AdminInOrder, VerifyInOrder,
             DeliveryInOrder DEF Next

(* With news in order, orders and payments tell the same story of a paid   *)
(* order: payment.failed, which looks at neither row (markPaymentRowFailed *)
(* and the UPDATE before it), never meets one.                             *)
THEOREM PaidRowsAgree == Spec => []RowsAgree
  <1>1. OrderInv => RowsAgree
    BY DEF OrderInv, InOrder, RowsAgree
  <1> QED BY <1>1, OrderInit, OrderStep, PTL DEF Spec

(* The writers of a paid order, and of a failed one, never take the order  *)
(* back.                                                                   *)
LEMMA NoStepBack ==
  ASSUME Safe, InOrder, world.in_order, [Next]_vars
  PROVE  /\ Rank(order_status') >= Rank(order_status)
         /\ payment_status = "paid" => payment_status' \in {"paid", "refunded"}
         /\ payment_status = "refunded" => payment_status' = "refunded"
  <1> DEFINE Onward ==
        /\ Rank(order_status') >= Rank(order_status)
        /\ payment_status = "paid" => payment_status' \in {"paid", "refunded"}
        /\ payment_status = "refunded" => payment_status' = "refunded"
  <1>1. order_status \in OrderStatus
    BY DEF Safe, Typed, TypeOK
  <1>2. CASE UNCHANGED <<order_status, payment_status>>
    BY <1>1, <1>2 DEF OrderStatus, Rank
  <1>3. ASSUME Open, NEW p, FinalisePaid(p) PROVE Onward
    BY <1>3 DEF Open, FinalisePaid, Rank
  <1>4. ASSUME NEW next \in OrderStatus, updateOrderStatus(next) PROVE Onward
    BY <1>1, <1>4 DEF updateOrderStatus, ValidStep, OrderStatus, Rank
  <1>5. CASE cancelOrderAndRefund
    BY <1>1, <1>5 DEF cancelOrderAndRefund, OrderStatus, Rank
  <1>6. CASE RefundCompletes
    BY <1>1, <1>6 DEF RefundCompletes, OrderStatus, Rank
  <1>7. ASSUME NEW v \in Verifiers, VerifyLocked(v), LockedState(v) # "already_paid"
        PROVE  Onward
    BY <1>3, <1>7, VerifierFindsItOpen DEF VerifyLocked
  <1>8. ASSUME NEW p \in Attempts, CapturedLocked(p) PROVE Onward
    BY <1>3, <1>8, WebhookFindsItOpen DEF CapturedLocked
  <1>9. ASSUME NEW p \in Attempts, FailedOrder(p) PROVE Onward
    <2>1. order_status' = order_status /\ payment_status \notin {"paid", "refunded"}
      BY <1>9, FailureFindsItUnpaid DEF FailedOrder
    <2> QED BY <1>1, <2>1 DEF OrderStatus, Rank
  <1>10. \/ UNCHANGED <<order_status, payment_status>>
         \/ \E next \in OrderStatus : updateOrderStatus(next)
         \/ cancelOrderAndRefund \/ RefundCompletes
         \/ \E v \in Verifiers : VerifyLocked(v) /\ LockedState(v) # "already_paid"
         \/ \E p \in Attempts : CapturedLocked(p) \/ FailedOrder(p)
    BY EventPairs
    DEF Next, vars, orders, Razorpay, RazorpayAuthorizes, RazorpayCaptures,
        RazorpayFails, Admin, Verify, VerifySnapshot, VerifyLocked, VerifyNotifies,
        VerifyEnds, Deliver, claimWebhookEvent, Captured, CapturedConflict,
        CapturedNotifies, Failed, markPaymentRowFailed, markWebhookEventCompleted,
        DeliveryThrows, DeliveryDies, CalmBegins
  <1> QED BY <1>2, <1>4, <1>5, <1>6, <1>7, <1>8, <1>9, <1>10

(* With news in order, a verify request that was overtaken, or an event    *)
(* delivered again, undoes neither a cancellation, nor a refund, nor a     *)
(* step towards the customer.                                              *)
THEOREM NeverBack == Spec => OrderNeverMovesBack
  <1>1. OrderInv /\ [Next]_vars =>
          [world.in_order =>
             /\ Rank(order_status') >= Rank(order_status)
             /\ payment_status = "paid" => payment_status' \in {"paid", "refunded"}
             /\ payment_status = "refunded" => payment_status' = "refunded"]_vars
    BY NoStepBack DEF OrderInv
  <1> QED BY <1>1, OrderInit, OrderStep, PTL DEF Spec, OrderNeverMovesBack

(* What the code says of a cancelled order holds as long as news come in   *)
(* order: then no webhook, request or administrator ever moves it back.    *)
THEOREM CancelledStaysInOrder == Spec /\ world.in_order => CancelledIsTerminal
  <1>1. ASSUME OrderInv, world.in_order, [Next]_vars, order_status = "cancelled"
        PROVE  order_status' = "cancelled"
    <2>1. Rank(order_status') >= Rank(order_status)
      BY <1>1, NoStepBack DEF OrderInv
    <2>2. order_status' \in OrderStatus
      BY <1>1, OrderStep DEF OrderInv, Safe, Typed, TypeOK
    <2> QED BY <1>1, <2>1, <2>2 DEF OrderStatus, Rank
  <1>2. OrderInv /\ world.in_order /\ [Next]_vars =>
          /\ (world.in_order)'
          /\ [order_status = "cancelled" => order_status' = "cancelled"]_vars
    BY <1>1, WorldStays DEF OrderInv, Safe, Typed
  <1> QED
    BY <1>2, OrderInit, OrderStep, PTL DEF Spec, CancelledIsTerminal

-----------------------------------------------------------------------------
(* No captured payment is forgotten.                                       *)
(*                                                                         *)
(* What CapturedIsBooked promises some day rests on this: at every moment  *)
(* somebody still has to book the order's only payment, or it is booked.   *)

Shown == confirmed /\ payment_status = "paid"

CapturedIsKnown ==
  world.in_order =>
    \A p \in Attempts :
      rzp[p] = "captured" /\ Sole(p) =>
        Pending(<<"captured", p>>) \/ Stranded(<<"captured", p>>) \/ Shown

(* A delivery under way has claimed its row; a payment that is not         *)
(* captured has no event; and the delivery of the only captured payment    *)
(* has written what its step says, which nothing takes back.               *)
Claimed(p) == at[<<"captured", p>>] # "idle" => ledger[<<"captured", p>>] = "processing"

Announced(p) == rzp[p] \in {"captured", "refunded"} \/ Untold(<<"captured", p>>)

Followed(p) ==
  /\ ledger[<<"captured", p>>] # "unsent"
  /\ at[<<"captured", p>>] = "notify" => payment_status = "paid"
  /\ at[<<"captured", p>>] = "complete" => Shown
  /\ ledger[<<"captured", p>>] = "completed" => Shown

Awaited(p) == rzp[p] = "captured" /\ Sole(p)

FollowInv ==
  /\ OrderInv
  /\ \A p \in Attempts : Claimed(p) /\ Announced(p)
  /\ world.in_order => \A p \in Attempts : Awaited(p) => Followed(p)

LEMMA FollowInit == Init => FollowInv
  <1> SUFFICES ASSUME Init PROVE FollowInv
    OBVIOUS
  <1>1. \A p \in Attempts : <<"captured", p>> \in Event /\ rzp[p] = "created"
    BY EventPairs DEF Init
  <1>2. \A e \in Event : at[e] = "idle" /\ ledger[e] = "unsent"
    BY DEF Init
  <1>3. \A p \in Attempts : Claimed(p) /\ Announced(p) /\ ~Awaited(p)
    BY <1>1, <1>2 DEF Claimed, Announced, Untold, Awaited
  <1> QED BY <1>3, OrderInit DEF FollowInv

(* All that can become of the event of one captured payment.               *)
EventMoves(p, from, to, row) ==
  /\ at[<<"captured", p>>] \in from
  /\ at'[<<"captured", p>>] = to /\ ledger'[<<"captured", p>>] = row

LEMMA EventSteps ==
  ASSUME Typed, [Next]_vars, NEW p \in Attempts
  PROVE  LET row == ledger[<<"captured", p>>]
         IN  \/ EventMoves(p, {at[<<"captured", p>>]}, at[<<"captured", p>>], row)
             \/ RazorpayCaptures(p)
                  /\ EventMoves(p, {at[<<"captured", p>>]}, at[<<"captured", p>>], "due")
             \/ row = "due" /\ EventMoves(p, DeliveryStep, "lock", "processing")
             \/ CapturedLocked(p) /\ EventMoves(p, {"lock"}, "notify", row)
             \/ CapturedConflict(p) /\ EventMoves(p, {"lock"}, "complete", row)
             \/ CapturedNotifies(p) /\ EventMoves(p, {"notify"}, "complete", row)
             \/ EventMoves(p, {"complete"}, "idle", "completed")
             \/ EventMoves(p, DeliveryStep, "idle", "due")
             \/ EventMoves(p, DeliveryStep \ {"idle"}, "idle", row)
  <1> DEFINE c == <<"captured", p>>
             row == ledger[c]
             Still == EventMoves(p, {at[c]}, at[c], row)
             Goal == \/ Still
                     \/ RazorpayCaptures(p) /\ EventMoves(p, {at[c]}, at[c], "due")
                     \/ row = "due" /\ EventMoves(p, DeliveryStep, "lock", "processing")
                     \/ CapturedLocked(p) /\ EventMoves(p, {"lock"}, "notify", row)
                     \/ CapturedConflict(p) /\ EventMoves(p, {"lock"}, "complete", row)
                     \/ CapturedNotifies(p) /\ EventMoves(p, {"notify"}, "complete", row)
                     \/ EventMoves(p, {"complete"}, "idle", "completed")
                     \/ EventMoves(p, DeliveryStep, "idle", "due")
                     \/ EventMoves(p, DeliveryStep \ {"idle"}, "idle", row)
  <1> SUFFICES Goal
    OBVIOUS
  <1>0. /\ c \in Event
        /\ \A q \in Attempts : <<"failed", q>> # c /\ <<"failed", q>> \in Event
        /\ \A q \in Attempts : <<"captured", q>> \in Event
        /\ \A q \in Attempts : q # p => <<"captured", q>> # c
        /\ \A e \in Event : e[2] \in Attempts
        /\ c[1] = "captured" /\ c[2] = p
    BY EventPairs
  <1>t. at \in [Event -> DeliveryStep] /\ ledger \in [Event -> Ledger]
    BY DEF Typed, TypeOK
  <1>m. ASSUME NEW F, NEW T, NEW R
        PROVE  EventMoves(p, F, T, R) <=> at[c] \in F /\ at'[c] = T /\ ledger'[c] = R
    BY DEF EventMoves
  <1> HIDE DEF c
  <1>1. ASSUME UNCHANGED webhook PROVE Goal
    BY <1>1, <1>m DEF webhook
  <1>2. ASSUME NEW e \in Event, e # c,
               ledger' = ledger \/ Emit(e) \/ (\E l : Mark(e, l)),
               at' = at \/ (\E s : GoOn(e, s))
        PROVE  Goal
    BY <1>0, <1>2, <1>m, <1>t DEF Emit, Mark, GoOn
  <1>3. ASSUME NEW q \in Attempts, Razorpay(q) PROVE Goal
    <2>1. CASE RazorpayAuthorizes(q)
      BY <1>1, <2>1 DEF RazorpayAuthorizes
    <2>2. CASE RazorpayCaptures(q)
      <3>1. CASE q = p
        BY <1>0, <1>m, <1>t, <2>2, <3>1 DEF RazorpayCaptures, Emit, c
      <3>2. CASE q # p
        BY <1>0, <1>2, <2>2, <3>2 DEF RazorpayCaptures
      <3> QED BY <3>1, <3>2
    <2>3. CASE RazorpayFails(q)
      BY <1>0, <1>2, <2>3 DEF RazorpayFails
    <2> QED BY <1>3, <2>1, <2>2, <2>3 DEF Razorpay
  <1>4. ASSUME NEW e \in Event, e # c,
               Deliver(e) \/ DeliveryThrows(e) \/ DeliveryDies(e)
        PROVE  Goal
    <2> DEFINE q == e[2]
    <2>0. q \in Attempts /\ (e[1] = "captured" => e = <<"captured", q>>)
      BY <1>0, EventPairs
    <2>1. CASE claimWebhookEvent(e) \/ markWebhookEventCompleted(e)
               \/ DeliveryThrows(e) \/ DeliveryDies(e)
      BY <1>2, <1>4, <2>1 DEF claimWebhookEvent, markWebhookEventCompleted,
         DeliveryThrows, DeliveryDies, markWebhookEventFailed
    <2>2. CASE Captured(q) /\ e[1] = "captured"
      BY <1>2, <1>4, <2>0, <2>2
      DEF Captured, CapturedLocked, CapturedConflict, CapturedNotifies
    <2>3. CASE Failed(q)
      BY <1>0, <1>2, <2>0, <2>3 DEF Failed, FailedOrder, markPaymentRowFailed
    <2> QED BY <1>4, <2>1, <2>2, <2>3 DEF Deliver
  <1>5. ASSUME Deliver(c) \/ DeliveryThrows(c) \/ DeliveryDies(c) PROVE Goal
    <2>1. CASE claimWebhookEvent(c)
      BY <1>0, <1>m, <1>t, <2>1 DEF claimWebhookEvent, Mark, GoOn
    <2>2. CASE Captured(p)
      <3>1. CASE CapturedLocked(p)
        BY <1>0, <1>m, <1>t, <3>1 DEF CapturedLocked, GoOn, c
      <3>2. CASE CapturedConflict(p)
        BY <1>0, <1>m, <1>t, <3>2 DEF CapturedConflict, GoOn, c
      <3>3. CASE CapturedNotifies(p)
        BY <1>0, <1>m, <1>t, <3>3 DEF CapturedNotifies, GoOn, c
      <3> QED BY <2>2, <3>1, <3>2, <3>3 DEF Captured
    <2>3. CASE markWebhookEventCompleted(c)
      BY <1>0, <1>m, <1>t, <2>3 DEF markWebhookEventCompleted, Mark, GoOn
    <2>4. CASE DeliveryThrows(c)
      BY <1>0, <1>m, <1>t, <2>4 DEF DeliveryThrows, markWebhookEventFailed, Mark, GoOn
    <2>5. CASE DeliveryDies(c)
      BY <1>0, <1>m, <1>t, <2>5 DEF DeliveryDies, GoOn
    <2> QED BY <1>0, <1>5, <2>1, <2>2, <2>3, <2>4, <2>5 DEF Deliver
  <1> QED BY <1>1, <1>3, <1>4, <1>5
          DEF Next, vars, webhook, Admin, updateOrderStatus, cancelOrderAndRefund,
              RefundCompletes, Verify, VerifySnapshot, VerifyLocked, VerifyNotifies,
              VerifyEnds, CalmBegins

(* An attempt only goes on, and only its capture makes it captured.        *)
LEMMA RazorpayForward ==
  ASSUME Typed, [Next]_vars, NEW p \in Attempts
  PROVE  /\ rzp[p] = "refunded" => rzp'[p] = "refunded"
         /\ rzp[p] = "captured" => rzp'[p] \in {"captured", "refunded"}
         /\ rzp'[p] = "captured" => rzp[p] = "captured" \/ RazorpayCaptures(p)
  <1> USE DEF Typed, TypeOK
  <1>1. ASSUME NEW q \in Attempts, Razorpay(q)
        PROVE  /\ rzp[p] \in {"captured", "refunded"} => rzp'[p] = rzp[p]
               /\ rzp'[p] = "captured" => rzp[p] = "captured" \/ RazorpayCaptures(p)
    BY <1>1 DEF Razorpay, RazorpayAuthorizes, RazorpayCaptures, RazorpayFails, Become
  <1>2. CASE RefundCompletes
    BY <1>2 DEF RefundCompletes, Become, Ids
  <1>3. CASE UNCHANGED rzp
    BY <1>3
  <1>4. (\E q \in Attempts : Razorpay(q)) \/ RefundCompletes \/ UNCHANGED rzp
    BY DEF Next, vars, Admin, updateOrderStatus, cancelOrderAndRefund, Verify,
           VerifySnapshot, VerifyLocked, VerifyNotifies, VerifyEnds, Deliver,
           claimWebhookEvent, Captured, CapturedLocked, CapturedConflict,
           CapturedNotifies, Failed, FailedOrder, markPaymentRowFailed,
           markWebhookEventCompleted, DeliveryThrows, DeliveryDies, CalmBegins
  <1> QED BY <1>1, <1>2, <1>3, <1>4

LEMMA ClaimedStep ==
  ASSUME Typed, [Next]_vars, NEW p \in Attempts, Claimed(p), Announced(p)
  PROVE  Claimed(p)'
  <1>1. CASE RazorpayCaptures(p)
    BY <1>1, EventSteps DEF RazorpayCaptures, Announced, Untold, Claimed
  <1>2. CASE ~RazorpayCaptures(p)
    BY <1>2, EventSteps DEF EventMoves, Claimed
  <1> QED BY <1>1, <1>2

LEMMA AnnouncedStep ==
  ASSUME Typed, [Next]_vars, NEW p \in Attempts, Announced(p)
  PROVE  Announced(p)'
  <1>1. rzp \in [Attempts -> RazorpayStatus]
    BY DEF Typed, TypeOK
  <1>2. CASE RazorpayCaptures(p)
    BY <1>1, <1>2 DEF RazorpayCaptures, Become, Announced
  <1>3. CASE Untold(<<"captured", p>>) /\ ~RazorpayCaptures(p)
    BY <1>3, UntoldStays DEF Announced
  <1>4. CASE rzp[p] \in {"captured", "refunded"}
    BY <1>1, <1>4, RazorpayForward DEF Announced
  <1> QED BY <1>2, <1>3, <1>4 DEF Announced

(* An order's only captured payment, once booked, stays booked; and once   *)
(* told, told.                                                             *)
LEMMA ShownStays ==
  ASSUME OrderInv, [Next]_vars, world.in_order, NEW p \in Attempts, Awaited(p)'
  PROVE  /\ payment_status = "paid" => payment_status' = "paid"
         /\ confirmed => confirmed'
  <1>1. OrderInv' /\ world'.in_order
    BY OrderStep, WorldStays DEF OrderInv, Safe, Typed
  <1>2. payment_status' # "refunded"
    BY <1>1 DEF OrderInv, InOrder, Settled, Awaited, Succeeded
  <1>3. payment_status = "paid" => payment_status' \in {"paid", "refunded"}
    BY NoStepBack DEF OrderInv
  <1>4. confirmed => confirmed'
    BY DEF Next, vars, Razorpay, RazorpayAuthorizes, RazorpayCaptures, RazorpayFails,
       Admin, updateOrderStatus, cancelOrderAndRefund, RefundCompletes, Verify,
       VerifySnapshot, VerifyLocked, VerifyNotifies, VerifyEnds, Deliver,
       claimWebhookEvent, Captured, CapturedLocked, CapturedConflict,
       CapturedNotifies, Failed, FailedOrder, markPaymentRowFailed,
       markWebhookEventCompleted, DeliveryThrows, DeliveryDies, CalmBegins,
       notifyInitialOrderConfirmation
  <1> QED BY <1>2, <1>3, <1>4

LEMMA FollowedStep ==
  ASSUME OrderInv, [Next]_vars, world.in_order, NEW p \in Attempts,
         Claimed(p), Announced(p), Awaited(p) => Followed(p), Awaited(p)'
  PROVE  Followed(p)'
  <1> USE DEF OrderInv, Safe
  <1>1. Sole(p)
    BY SuccessStays DEF Awaited, Sole, Typed
  <1>2. CASE RazorpayCaptures(p)
    <2>1. at[<<"captured", p>>] = "idle"
      BY <1>2 DEF RazorpayCaptures, Announced, Untold
    <2>2. at'[<<"captured", p>>] = "idle" /\ ledger'[<<"captured", p>>] = "due"
      BY <1>2, <2>1, EventPairs DEF RazorpayCaptures, Emit, Typed, TypeOK
    <2> QED BY <2>2 DEF Followed
  <1>3. CASE ~RazorpayCaptures(p)
    <2>1. Awaited(p) /\ Followed(p)
      BY <1>1, <1>3, RazorpayForward DEF Awaited
    <2>2. State(p) # "conflict"
      BY <2>1 DEF State, classifyPaymentState, PaidIsPaidFor, Awaited, Sole, Typed,
         TypeOK, Ids
    <2>3. ASSUME CapturedLocked(p) PROVE payment_status' = "paid"
      BY <2>3 DEF CapturedLocked, FinalisePaid
    <2>4. ~CapturedConflict(p)
      BY <2>2 DEF CapturedConflict
    <2>5. ASSUME CapturedNotifies(p) PROVE Shown'
      BY <2>1, <2>5, ShownStays
      DEF CapturedNotifies, notifyInitialOrderConfirmation, Followed, Shown
    <2>6. (payment_status = "paid" => payment_status' = "paid") /\ (Shown => Shown')
      BY ShownStays DEF Shown
    <2> HIDE DEF Shown
    <2> QED BY <1>3, <2>1, <2>3, <2>4, <2>5, <2>6, EventSteps
            DEF EventMoves, Followed, Claimed, DeliveryStep
  <1> QED BY <1>2, <1>3

LEMMA FollowStep == FollowInv /\ [Next]_vars => FollowInv'
  <1> SUFFICES ASSUME FollowInv, [Next]_vars PROVE FollowInv'
    OBVIOUS
  <1>1. OrderInv' /\ Typed
    BY OrderStep DEF FollowInv, OrderInv, Safe
  <1>2. ASSUME NEW p \in Attempts PROVE Claimed(p)' /\ Announced(p)'
    BY <1>1, ClaimedStep, AnnouncedStep DEF FollowInv
  <1>3. ASSUME world'.in_order, NEW p \in Attempts, Awaited(p)' PROVE Followed(p)'
    BY <1>1, <1>3, WorldStays, FollowedStep DEF FollowInv, Typed
  <1> QED BY <1>1, <1>2, <1>3 DEF FollowInv

(* With news in order, an order's only captured payment is at every moment *)
(* booked and confirmed, or its webhook is due or under way, or the row of *)
(* a process that died keeps Razorpay's redeliveries out: nothing but that *)
(* death loses it, whatever the verify requests do.                        *)
THEOREM CapturedIsNeverForgotten == Spec => []CapturedIsKnown
  <1>1. FollowInv => CapturedIsKnown
    <2> SUFFICES ASSUME FollowInv, world.in_order, NEW p \in Attempts, Awaited(p)
                 PROVE  \/ Pending(<<"captured", p>>) \/ Stranded(<<"captured", p>>)
                        \/ Shown
      BY DEF CapturedIsKnown, Awaited
    <2>1. Followed(p) /\ ledger[<<"captured", p>>] \in Ledger
      BY EventPairs DEF FollowInv, OrderInv, Safe, Typed, TypeOK
    <2> QED BY <2>1 DEF Followed, Pending, Stranded, Ledger
  <1> QED BY <1>1, FollowInit, FollowStep, PTL DEF Spec
=============================================================================
