---------------------------- MODULE RefundProofs ----------------------------
(***************************************************************************)
(* Proofs about Refund, for any number of concurrent admin requests and of *)
(* Razorpay refunds, any amount, and calls, requests and failures timed as *)
(* badly as can be: no proof here asks which of the Environments it is in. *)
(***************************************************************************)
EXTENDS Refund, FiniteSetTheorems, TLAPS

-----------------------------------------------------------------------------
(* The updates of the orders row keep every column in its enum, one lemma  *)
(* per UPDATE statement.                                                   *)

LEMMA UpdateInspection ==
  ASSUME NEW o \in OrderRow,
         NEW i \in {"none", "pending", "approved", "rejected"}
  PROVE  [o EXCEPT !.inspection_status = i, !.stale = FALSE] \in OrderRow
  BY DEF OrderRow

LEMMA UpdateStatus ==
  ASSUME NEW o \in OrderRow, NEW s \in RefundStatus
  PROVE  [o EXCEPT !.refund_status = s, !.stale = FALSE] \in OrderRow
  BY DEF OrderRow

LEMMA UpdateAmount ==
  ASSUME NEW o \in OrderRow, NEW s \in RefundStatus, NEW a \in 0..Paid
  PROVE  [o EXCEPT !.refund_status = s, !.refund_amount = a, !.stale = FALSE]
           \in OrderRow
  BY DEF OrderRow

LEMMA UpdateShipment ==
  ASSUME NEW o \in OrderRow
  PROVE  /\ [o EXCEPT !.shipment = "active", !.stale = FALSE] \in OrderRow
         /\ [o EXCEPT !.shipment = "cancelled", !.order_status = "cancelled",
                      !.stale = FALSE] \in OrderRow
  BY DEF OrderRow

LEMMA UpdateCancel ==
  ASSUME NEW o \in OrderRow
  PROVE  [o EXCEPT !.order_status = "cancelled", !.refund_status = "approved",
                   !.refund_amount = Paid, !.stale = FALSE] \in OrderRow
  <1>1. Paid \in 0..Paid /\ "approved" \in RefundStatus
    BY RefundAssumption DEF RefundStatus
  <1>2. [o EXCEPT !.order_status = "cancelled"] \in OrderRow
    BY DEF OrderRow
  <1> QED BY <1>1, <1>2, UpdateAmount

LEMMA UpdateOutcome ==
  ASSUME order \in OrderRow, NEW r \in Refunds \cup {NoRefund}
  PROVE  /\ CompletedBy(r) \in OrderRow
         /\ InitiatedBy(r) \in OrderRow
         /\ FailedBy(r) \in OrderRow
  BY DEF OrderRow, RefundStatus, CompletedBy, InitiatedBy, FailedBy

LEMMA UpdateStale ==
  ASSUME NEW o \in OrderRow
  PROVE  [o EXCEPT !.stale = TRUE] \in OrderRow
  BY DEF OrderRow

LEMMA RowColumns ==
  ASSUME NEW o \in OrderRow
  PROVE  /\ o.refund_reference \in Refunds \cup {NoRefund}
         /\ o.payment_status \in {"paid", "refunded"}
         /\ o.refund_status \in RefundStatus
  BY DEF OrderRow

(* What a request remembers is a Request. *)
LEMMA Requests ==
  /\ NoRequest \in Request
  /\ \A m \in Mode, r \in Refunds \cup {NoRefund}, b \in BOOLEAN :
       [mode |-> m, refund |-> r, processed |-> b] \in Request
  /\ \A q \in Request : /\ q.mode \in Mode
                        /\ q.refund \in Refunds \cup {NoRefund}
                        /\ q.processed \in BOOLEAN
  BY DEF NoRequest, Request, Mode

(* Goto, Remember and End keep the types of pc and req. *)
LEMMA RequestStep ==
  ASSUME pc \in [Workers -> Step], req \in [Workers -> Request],
         NEW w \in Workers
  PROVE  /\ \A s \in Step : Goto(w, s) => pc' \in [Workers -> Step]
         /\ \A m \in Mode, r \in Refunds \cup {NoRefund}, b \in BOOLEAN :
              Remember(w, m, r, b) => req' \in [Workers -> Request]
         /\ End(w) => /\ pc' \in [Workers -> Step]
                      /\ req' \in [Workers -> Request]
  <1>1. "idle" \in Step BY DEF Step
  <1> QED BY <1>1, Requests DEF Goto, Remember, End

-----------------------------------------------------------------------------
(* Type correctness.                                                       *)

(* A request that times out, and one that arrives, stay within the bound.  *)
LEMMA EnvRequests ==
  ASSUME NEW e \in EnvType, e.late <= e.maxLate
  PROVE  /\ e.late < e.maxLate =>
              LET f == [e EXCEPT !.late = @ + 1]
              IN  f \in EnvType /\ f.late <= f.maxLate
         /\ e.late > 0 =>
              LET f == [e EXCEPT !.late = @ - 1]
              IN  f \in EnvType /\ f.late <= f.maxLate
  BY DEF EnvType

LEMMA EnvInit ==
  ASSUME NEW e \in Environments
  PROVE  e \in EnvType /\ e.late <= e.maxLate
  BY RefundAssumption DEF EnvType

LEMMA TypeInit == Init => TypeOK
  <1> SUFFICES ASSUME Init PROVE TypeOK
    OBVIOUS
  <1>1. ReadyOrder \in OrderRow
    BY RefundAssumption DEF ReadyOrder, OrderRow, RefundStatus
  <1>2. ReturnedOrder \in OrderRow
    <2>1. [ReadyOrder EXCEPT !.order_status = "delivered",
                             !.return_status = "returned"] \in OrderRow
      BY <1>1 DEF OrderRow
    <2>2. \A o \in OrderRow :
            [o EXCEPT !.inspection_status = "pending"] \in OrderRow
      BY DEF OrderRow
    <2> QED BY <2>1, <2>2 DEF ReturnedOrder
  <1>3. /\ "idle" \in Step
        /\ "unsent" \in HookStatus
    BY DEF Step, HookStatus
  <1> QED
    BY <1>1, <1>2, <1>3, Requests, EnvInit DEF Init, TypeOK

(* A decision of the admin, outside completeRefund.                        *)
LEMMA TypeDecide == TypeOK /\ Decide => TypeOK'
  <1> SUFFICES ASSUME TypeOK, Decide PROVE TypeOK'
    OBVIOUS
  <1> USE DEF TypeOK
  <1>1. /\ {"approved", "rejected"} \subseteq RefundStatus
        /\ 1..Paid \subseteq 0..Paid
    BY RefundAssumption DEF RefundStatus
  <1>2. CASE approveInspection
    BY <1>2, UpdateInspection DEF approveInspection
  <1>3. CASE rejectInspection
    BY <1>3, UpdateInspection DEF rejectInspection
  <1>4. CASE approveRefund
    <2>1. PICK a \in 1..Paid :
            order' = [order EXCEPT !.refund_status = "approved",
                                   !.refund_amount = a, !.stale = FALSE]
      BY <1>4 DEF approveRefund
    <2>2. order' \in OrderRow
      BY <1>1, <2>1, UpdateAmount
    <2> QED BY <1>4, <2>2 DEF approveRefund
  <1>5. CASE rejectRefund
    BY <1>1, <1>5, UpdateStatus DEF rejectRefund
  <1>6. CASE createShipment
    BY <1>6, UpdateShipment DEF createShipment
  <1>7. CASE cancelShipment
    BY <1>7, UpdateShipment DEF cancelShipment
  <1> QED BY <1>2, <1>3, <1>4, <1>5, <1>6, <1>7 DEF Decide

(* A step of an admin request or of the cron.                              *)
LEMMA TypeWork ==
  ASSUME TypeOK, NEW w \in Workers, Work(w) PROVE TypeOK'
  <1> USE DEF TypeOK
  <1> DEFINE PcOK  == pc' \in [Workers -> Step]
             ReqOK == req' \in [Workers -> Request]
  <1>1. /\ {"idle", "verify", "cancel", "phase1", "lookup", "refund",
            "relookup", "revert", "fetch", "mark_failed", "persist"}
              \subseteq Step
        /\ {"create", "recheck", "adopt_only"} \subseteq Mode
        /\ {"approved", "processing", "initiated", "completed", "failed"}
              \subseteq RefundStatus
    BY DEF Step, Mode, RefundStatus
  <1>2. /\ \A s \in Step : Goto(w, s) => PcOK
        /\ \A m \in Mode, r \in Refunds \cup {NoRefund}, b \in BOOLEAN :
             Remember(w, m, r, b) => ReqOK
        /\ End(w) => PcOK /\ ReqOK
    BY RequestStep
  <1>3. \A r \in Refunds : Found(w, r) => PcOK /\ ReqOK
    BY <1>1, <1>2, Requests DEF Found
  <1>4. CASE CancelSnapshot(w)
    BY <1>1, <1>2, <1>4 DEF CancelSnapshot
  <1>5. CASE verifyRazorpayPaymentForOrder(w)
    BY <1>1, <1>2, <1>5 DEF verifyRazorpayPaymentForOrder
  <1>6. CASE CancelLocked(w)
    BY <1>1, <1>2, <1>6, UpdateCancel DEF CancelLocked
  <1>7. CASE Recheck(w)
    BY <1>1, <1>2, <1>7, RowColumns DEF Recheck
  <1>8. CASE Claim(w)
    BY <1>1, <1>2, <1>8, UpdateStatus DEF Claim
  <1>9. CASE AdoptOnly(w)
    BY <1>1, <1>2, <1>9 DEF AdoptOnly
  <1>10. CASE Refuse(w)
    BY <1>2, <1>10 DEF Refuse
  <1>11. CASE findExistingRazorpayRefund(w)
    BY <1>1, <1>2, <1>3, <1>11 DEF findExistingRazorpayRefund, Live
  <1>12. CASE LookupFails(w)
    BY <1>1, <1>2, <1>12 DEF LookupFails
  <1>13. CASE RefundCreated(w)
    BY <1>1, <1>2, <1>3, <1>13 DEF RefundCreated, Issue
  <1>14. CASE RefundErrors(w)
    <2>1. env' \in EnvType /\ env'.late <= env'.maxLate
      BY <1>14, EnvRequests DEF RefundErrors
    <2> QED BY <1>1, <1>2, <1>14, <2>1 DEF RefundErrors
  <1>15. CASE LookupAfterError(w)
    BY <1>1, <1>2, <1>3, <1>15 DEF LookupAfterError, Live
  <1>16. CASE Revert(w)
    BY <1>1, <1>2, <1>16, UpdateStatus DEF Revert
  <1>17. CASE FetchRefund(w)
    <2> DEFINE r == req[w].refund
    <2>1. r \in Refunds \cup {NoRefund}
      BY Requests
    <2>2. CASE Goto(w, "mark_failed") /\ UNCHANGED req
      BY <1>1, <1>2, <1>17, <2>2 DEF FetchRefund
    <2>3. CASE Goto(w, "persist") /\ Remember(w, "recheck", r, TRUE)
      <3>1. PcOK /\ ReqOK
        BY <1>1, <1>2, <2>1, <2>3
      <3> QED BY <1>17, <3>1 DEF FetchRefund
    <2>4. CASE Goto(w, "persist") /\ Remember(w, "recheck", r, FALSE)
      <3>1. PcOK /\ ReqOK
        BY <1>1, <1>2, <2>1, <2>4
      <3> QED BY <1>17, <3>1 DEF FetchRefund
    <2>5. \/ Goto(w, "mark_failed") /\ UNCHANGED req
          \/ Goto(w, "persist") /\ Remember(w, "recheck", r, TRUE)
          \/ Goto(w, "persist") /\ Remember(w, "recheck", r, FALSE)
      BY <1>17 DEF FetchRefund
    <2> QED BY <2>2, <2>3, <2>4, <2>5
  <1>18. CASE MarkFailed(w)
    BY <1>1, <1>2, <1>18, UpdateStatus DEF MarkFailed
  <1>19. CASE Persist(w)
    <2>1. PcOK /\ ReqOK
      BY <1>2, <1>19 DEF Persist
    <2>2. req[w].refund \in Refunds \cup {NoRefund}
      BY Requests
    <2>3. CASE Superseded(w)
      BY <1>19, <2>1, <2>3 DEF Persist
    <2>4. CASE ~Superseded(w)
      BY <1>19, <2>1, <2>2, <2>4, UpdateOutcome DEF Persist, BookRefund
    <2> QED BY <2>3, <2>4
  <1>20. CASE Crash(w)
    BY <1>2, <1>20 DEF Crash
  <1> QED
    BY <1>4, <1>5, <1>6, <1>7, <1>8, <1>9, <1>10, <1>11, <1>12, <1>13, <1>14,
       <1>15, <1>16, <1>17, <1>18, <1>19, <1>20 DEF Work

(* A step of the webhook handler.                                          *)
LEMMA TypeDeliver ==
  ASSUME TypeOK, NEW r \in Refunds, Deliver(r) PROVE TypeOK'
  <1> USE DEF TypeOK
  <1>1. /\ HookStatus = {"unsent", "sent", "claimed", "updated", "completed",
                         "failed", "stranded"}
        /\ {"completed", "failed"} \subseteq RefundStatus
    BY DEF HookStatus, RefundStatus
  <1>2. CASE claimWebhookEvent(r)
    BY <1>1, <1>2 DEF claimWebhookEvent
  <1>3. CASE RefundWebhook(r)
    <2>1. order' \in OrderRow
      BY <1>3, UpdateOutcome DEF RefundWebhook
    <2>2. hook' \in [Refunds -> HookStatus]
      BY <1>1, <1>3 DEF RefundWebhook
    <2> QED BY <1>3, <2>1, <2>2 DEF RefundWebhook
  <1>4. CASE RefundWebhookBooks(r)
    BY <1>1, <1>4 DEF RefundWebhookBooks, BookRefund
  <1>5. CASE RefundWebhookBookingFails(r)
    BY <1>1, <1>5 DEF RefundWebhookBookingFails
  <1>6. CASE RefundWebhookFails(r)
    BY <1>1, <1>6 DEF RefundWebhookFails
  <1>7. CASE RefundWebhookCrash(r)
    BY <1>1, <1>7 DEF RefundWebhookCrash
  <1> QED BY <1>2, <1>3, <1>4, <1>5, <1>6, <1>7 DEF Deliver

(* A step of Razorpay or of the clock.                                     *)
LEMMA TypeWorld == TypeOK /\ World => TypeOK'
  <1> SUFFICES ASSUME TypeOK, World PROVE TypeOK'
    OBVIOUS
  <1> USE DEF TypeOK
  <1>1. "sent" \in HookStatus
    BY DEF HookStatus
  <1>2. CASE LateRequestArrives
    <2>1. env' \in EnvType /\ env'.late <= env'.maxLate
      BY <1>2, EnvRequests DEF LateRequestArrives
    <2>2. rzp' \in [Refunds -> {"none", "pending", "processed", "failed"}]
      BY <1>2 DEF LateRequestArrives, Issue
    <2> QED BY <1>2, <2>1, <2>2 DEF LateRequestArrives
  <1>3. CASE TwoMinutesPass
    BY <1>3, UpdateStale DEF TwoMinutesPass
  <1>4. ASSUME NEW r \in Refunds, RazorpayProcesses(r) PROVE TypeOK'
    BY <1>1, <1>4 DEF RazorpayProcesses
  <1>5. ASSUME NEW r \in Refunds, RazorpayFails(r) PROVE TypeOK'
    BY <1>1, <1>5 DEF RazorpayFails
  <1> QED BY <1>2, <1>3, <1>4, <1>5 DEF World

LEMMA TypeStep == TypeOK /\ [Next]_vars => TypeOK'
  <1>1. TypeOK /\ UNCHANGED vars => TypeOK'
    BY DEF TypeOK, vars
  <1> QED BY <1>1, TypeDecide, TypeWork, TypeDeliver, TypeWorld DEF Next

(* Every reachable state of the refund flow is well typed.                 *)
THEOREM TypeCorrect == Spec => []TypeOK
  BY TypeInit, TypeStep, PTL DEF Spec

-----------------------------------------------------------------------------
(* The completed refund.                                                   *)
(*                                                                         *)
(* CompletedIsProcessed is not inductive: Phase 3 completes the order with *)
(* what the request fetched before the lock. The strengthening says that a *)
(* request about to ask for, or to write, a refund names one, and that a   *)
(* status "processed" it carries is still Razorpay's.                      *)

Remembered ==
  \A w \in Workers :
    /\ pc[w] = "fetch" => req[w].refund \in Refunds
    /\ pc[w] = "persist" =>
         /\ req[w].refund \in Refunds
         /\ req[w].processed => rzp[req[w].refund] = "processed"

CompletedInv == TypeOK /\ CompletedIsProcessed /\ Remembered

(* What a step may do to the columns the invariant speaks of.              *)
SameMoney ==
  /\ order'.refund_status = order.refund_status
  /\ order'.refund_reference = order.refund_reference
  /\ order'.payment_status = order.payment_status

StaysOpen ==
  /\ order.refund_status # "completed"
  /\ order'.refund_status # "completed"
  /\ order'.payment_status = order.payment_status

Completes ==
  /\ order.refund_status # "completed"
  /\ order'.refund_status = "completed"
  /\ order'.payment_status = "refunded"
  /\ order'.refund_reference \in Refunds
  /\ rzp[order'.refund_reference] = "processed"

MoneyStep == SameMoney \/ StaysOpen \/ Completes

(* The columns after each UPDATE.                                          *)
LEMMA ColumnsAfterUpdate ==
  ASSUME NEW o \in OrderRow, NEW s, NEW a, NEW i
  PROVE  /\ LET n == [o EXCEPT !.inspection_status = i, !.stale = FALSE]
            IN  /\ n.refund_status = o.refund_status
                /\ n.refund_reference = o.refund_reference
                /\ n.payment_status = o.payment_status
         /\ LET n == [o EXCEPT !.refund_status = s, !.stale = FALSE]
            IN  n.refund_status = s /\ n.payment_status = o.payment_status
         /\ LET n == [o EXCEPT !.refund_status = s, !.refund_amount = a,
                               !.stale = FALSE]
            IN  n.refund_status = s /\ n.payment_status = o.payment_status
         /\ LET n == [o EXCEPT !.order_status = "cancelled",
                               !.refund_status = "approved",
                               !.refund_amount = a, !.stale = FALSE]
            IN  /\ n.refund_status = "approved"
                /\ n.payment_status = o.payment_status
         /\ LET n == [o EXCEPT !.shipment = "active", !.stale = FALSE]
            IN  /\ n.refund_status = o.refund_status
                /\ n.refund_reference = o.refund_reference
                /\ n.payment_status = o.payment_status
         /\ LET n == [o EXCEPT !.shipment = "cancelled",
                               !.order_status = "cancelled", !.stale = FALSE]
            IN  /\ n.refund_status = o.refund_status
                /\ n.refund_reference = o.refund_reference
                /\ n.payment_status = o.payment_status
         /\ LET n == [o EXCEPT !.stale = TRUE]
            IN  /\ n.refund_status = o.refund_status
                /\ n.refund_reference = o.refund_reference
                /\ n.payment_status = o.payment_status
  BY DEF OrderRow

LEMMA ColumnsAfterOutcome ==
  ASSUME order \in OrderRow, NEW r
  PROVE  /\ CompletedBy(r).refund_status = "completed"
         /\ CompletedBy(r).refund_reference = r
         /\ CompletedBy(r).payment_status = "refunded"
         /\ InitiatedBy(r).refund_status = "initiated"
         /\ InitiatedBy(r).refund_reference = r
         /\ InitiatedBy(r).payment_status = order.payment_status
         /\ FailedBy(r).refund_status = "failed"
         /\ FailedBy(r).refund_reference = r
         /\ FailedBy(r).payment_status = order.payment_status
  BY DEF OrderRow, CompletedBy, InitiatedBy, FailedBy

(* Every step leaves the refund's columns alone, keeps it short of         *)
(* completed, or completes it with a refund Razorpay has processed.        *)
LEMMA MoneySteps == CompletedInv /\ [Next]_vars => MoneyStep
  <1> SUFFICES ASSUME CompletedInv, [Next]_vars PROVE MoneyStep
    OBVIOUS
  <1>1. /\ order \in OrderRow
        /\ order.payment_status = "paid" => order.refund_status # "completed"
    BY DEF CompletedInv, TypeOK, CompletedIsProcessed
  <1>2. UNCHANGED order => MoneyStep
    BY DEF MoneyStep, SameMoney
  <1>3. CASE Decide
    <2>1. CASE approveInspection
      BY <1>1, <2>1, ColumnsAfterUpdate
      DEF approveInspection, MoneyStep, SameMoney
    <2>2. CASE rejectInspection
      BY <1>1, <2>2, ColumnsAfterUpdate
      DEF rejectInspection, MoneyStep, SameMoney
    <2>3. CASE approveRefund
      <3>1. PICK a \in 1..Paid :
              order' = [order EXCEPT !.refund_status = "approved",
                                     !.refund_amount = a, !.stale = FALSE]
        BY <2>3 DEF approveRefund
      <3>2. /\ order'.refund_status = "approved"
            /\ order'.payment_status = order.payment_status
        BY <1>1, <3>1, ColumnsAfterUpdate
      <3> QED BY <2>3, <3>2 DEF approveRefund, MoneyStep, StaysOpen
    <2>4. CASE rejectRefund
      BY <1>1, <2>4, ColumnsAfterUpdate
      DEF rejectRefund, InProgress, MoneyStep, StaysOpen
    <2>5. CASE createShipment
      BY <1>1, <2>5, ColumnsAfterUpdate
      DEF createShipment, MoneyStep, SameMoney
    <2>6. CASE cancelShipment
      BY <1>1, <2>6, ColumnsAfterUpdate
      DEF cancelShipment, MoneyStep, SameMoney
    <2> QED BY <1>3, <2>1, <2>2, <2>3, <2>4, <2>5, <2>6 DEF Decide
  <1>4. ASSUME NEW w \in Workers, Work(w) PROVE MoneyStep
    <2>1. CASE CancelLocked(w)
      <3>1. CASE UNCHANGED order
        BY <1>2, <3>1
      <3>2. CASE order' = [order EXCEPT !.order_status = "cancelled",
                                        !.refund_status = "approved",
                                        !.refund_amount = Paid,
                                        !.stale = FALSE]
        <4>1. order'.refund_status = "approved"
              /\ order'.payment_status = order.payment_status
          BY <1>1, <3>2, ColumnsAfterUpdate
        <4>2. CASE order.refund_status = "completed"
          <5>1. OnlyDelegate /\ ~ (order.payment_status = "paid")
            BY <1>1, <4>2 DEF OnlyDelegate, InProgress
          <5> QED BY <1>2, <2>1, <5>1
                  DEF CancelLocked, evaluateCancelRefundEligibility
        <4> QED BY <4>1, <4>2 DEF MoneyStep, StaysOpen
      <3> QED BY <2>1, <3>1, <3>2 DEF CancelLocked
    <2>2. CASE Claim(w)
      BY <1>1, <2>2, ColumnsAfterUpdate DEF Claim, MayClaim, MoneyStep, StaysOpen
    <2>3. CASE Revert(w)
      BY <1>1, <1>2, <2>3, ColumnsAfterUpdate DEF Revert, MoneyStep, StaysOpen
    <2>4. CASE MarkFailed(w)
      BY <1>1, <1>2, <2>4, ColumnsAfterUpdate
      DEF MarkFailed, MoneyStep, StaysOpen
    <2>5. CASE Persist(w)
      <3> DEFINE r == req[w].refund
      <3>1. /\ r \in Refunds
            /\ req[w].processed => rzp[r] = "processed"
        BY <2>5 DEF Persist, CompletedInv, Remembered
      <3>2. CASE Superseded(w)
        BY <1>2, <2>5, <3>2 DEF Persist
      <3>3. CASE ~Superseded(w) /\ req[w].processed
        <4>1. order' = CompletedBy(r) /\ order.refund_status # "completed"
          BY <2>5, <3>3 DEF Persist, Superseded
        <4> QED
          BY <1>1, <3>1, <3>3, <4>1, ColumnsAfterOutcome
          DEF MoneyStep, Completes
      <3>4. CASE ~Superseded(w) /\ ~req[w].processed
        <4>1. order' = InitiatedBy(r) /\ order.refund_status # "completed"
          BY <2>5, <3>4 DEF Persist, Superseded
        <4> QED
          BY <1>1, <4>1, ColumnsAfterOutcome DEF MoneyStep, StaysOpen
      <3> QED BY <3>2, <3>3, <3>4
    <2>6. CASE UNCHANGED order
      BY <1>2, <2>6
    <2> QED
      BY <1>4, <2>1, <2>2, <2>3, <2>4, <2>5, <2>6
      DEF Work, CancelSnapshot, verifyRazorpayPaymentForOrder, Recheck,
          AdoptOnly, Refuse, findExistingRazorpayRefund, LookupFails,
          RefundCreated, RefundErrors, LookupAfterError, FetchRefund, Crash
  <1>5. ASSUME NEW r \in Refunds, Deliver(r) PROVE MoneyStep
    <2>1. CASE RefundWebhook(r)
      <3>1. CASE ~Matches(r)
        BY <1>2, <2>1, <3>1 DEF RefundWebhook
      <3>2. CASE Matches(r) /\ rzp[r] = "processed"
        BY <1>1, <1>5, <2>1, <3>2, ColumnsAfterOutcome
        DEF RefundWebhook, Matches, MoneyStep, Completes
      <3>3. CASE Matches(r) /\ rzp[r] # "processed"
        BY <1>1, <2>1, <3>3, ColumnsAfterOutcome
        DEF RefundWebhook, Matches, MoneyStep, StaysOpen
      <3> QED BY <3>1, <3>2, <3>3
    <2>2. CASE UNCHANGED order
      BY <1>2, <2>2
    <2> QED
      BY <1>5, <2>1, <2>2
      DEF Deliver, claimWebhookEvent, RefundWebhookBooks,
          RefundWebhookBookingFails, RefundWebhookFails, RefundWebhookCrash
  <1>6. CASE World
    <2>1. CASE TwoMinutesPass
      BY <1>1, <2>1, ColumnsAfterUpdate
      DEF TwoMinutesPass, MoneyStep, SameMoney
    <2>2. CASE UNCHANGED order
      BY <1>2, <2>2
    <2> QED
      BY <1>6, <2>1, <2>2
      DEF World, LateRequestArrives, RazorpayProcesses, RazorpayFails
  <1>7. CASE UNCHANGED vars
    BY <1>2, <1>7 DEF vars
  <1> QED BY <1>3, <1>4, <1>5, <1>6, <1>7 DEF Next

(* Razorpay never takes "processed" back.                                  *)
LEMMA ProcessedIsFinal ==
  ASSUME TypeOK, [Next]_vars, NEW r \in Refunds, rzp[r] = "processed"
  PROVE  rzp'[r] = "processed"
  <1> USE DEF TypeOK
  <1>1. ASSUME NEW q \in Refunds, Issue(q) PROVE rzp'[r] = "processed"
    BY <1>1 DEF Issue
  <1>2. ASSUME NEW q \in Refunds, RazorpayProcesses(q) \/ RazorpayFails(q)
        PROVE  rzp'[r] = "processed"
    BY <1>2 DEF RazorpayProcesses, RazorpayFails
  <1>3. CASE UNCHANGED rzp
    BY <1>3
  <1>4. CASE Decide
    BY <1>3, <1>4 DEF Decide, approveInspection, rejectInspection,
                      approveRefund, rejectRefund, createShipment, cancelShipment
  <1>5. ASSUME NEW w \in Workers, Work(w) PROVE rzp'[r] = "processed"
    <2>1. CASE RefundCreated(w)
      BY <1>1, <2>1 DEF RefundCreated
    <2> QED
      BY <1>3, <1>5, <2>1
      DEF Work, CancelSnapshot, verifyRazorpayPaymentForOrder, CancelLocked,
          Recheck, Claim, AdoptOnly, Refuse, findExistingRazorpayRefund,
          LookupFails, RefundErrors, LookupAfterError, Revert, FetchRefund,
          MarkFailed, Persist, Crash
  <1>6. ASSUME NEW q \in Refunds, Deliver(q) PROVE rzp'[r] = "processed"
    BY <1>3, <1>6
    DEF Deliver, claimWebhookEvent, RefundWebhook, RefundWebhookBooks,
        RefundWebhookBookingFails, RefundWebhookFails, RefundWebhookCrash
  <1>7. CASE World
    <2>1. CASE LateRequestArrives
      BY <1>1, <1>3, <2>1 DEF LateRequestArrives
    <2>2. CASE TwoMinutesPass
      BY <1>3, <2>2 DEF TwoMinutesPass
    <2> QED BY <1>2, <1>7, <2>1, <2>2 DEF World
  <1>8. CASE UNCHANGED vars
    BY <1>3, <1>8 DEF vars
  <1> QED BY <1>4, <1>5, <1>6, <1>7, <1>8 DEF Next

LEMMA RememberedStep == CompletedInv /\ [Next]_vars => Remembered'
  <1> SUFFICES ASSUME CompletedInv, [Next]_vars PROVE Remembered'
    OBVIOUS
  <1> USE DEF Remembered
  <1>1. TypeOK /\ Remembered
    BY DEF CompletedInv
  <1>2. \A r \in Refunds : rzp[r] = "processed" => rzp'[r] = "processed"
    BY <1>1, ProcessedIsFinal
  <1>3. UNCHANGED <<pc, req>> => Remembered'
    BY <1>1, <1>2
  <1>4. ASSUME NEW w \in Workers, Work(w) PROVE Remembered'
    <2> DEFINE Fine(v) ==
          /\ pc'[v] = "fetch" => req'[v].refund \in Refunds
          /\ pc'[v] = "persist" =>
               /\ req'[v].refund \in Refunds
               /\ req'[v].processed => rzp'[req'[v].refund] = "processed"
    <2>1. /\ pc \in [Workers -> Step] /\ req \in [Workers -> Request]
      BY <1>1 DEF TypeOK
    (* The other requests remember what they remembered. *)
    <2>2. ASSUME NEW v \in Workers, v # w PROVE Fine(v)
      <3>1. pc'[v] = pc[v] /\ req'[v] = req[v]
        BY <1>4, <2>1, <2>2
        DEF Work, CancelSnapshot, verifyRazorpayPaymentForOrder, CancelLocked,
            Recheck, Claim, AdoptOnly, Refuse, findExistingRazorpayRefund,
            LookupFails, RefundCreated, RefundErrors, LookupAfterError, Revert,
            FetchRefund, MarkFailed, Persist, Crash, Found, Goto, Remember, End
      <3> QED BY <1>1, <1>2, <3>1
    (* A request that goes anywhere but to fetch or persist. *)
    <2>3. ASSUME NEW s \in Step \ {"fetch", "persist"}, Goto(w, s)
          PROVE  Fine(w)
      BY <2>1, <2>3 DEF Goto
    <2>4. End(w) => Fine(w)
      BY <2>1, <2>3 DEF End, Step
    <2>5. ASSUME NEW r \in Refunds, NEW s, NEW m, NEW b,
                 Goto(w, s), Remember(w, m, r, b),
                 b => rzp'[r] = "processed"
          PROVE  Fine(w)
      BY <2>1, <2>5 DEF Remember
    <2>6. ASSUME NEW r \in Refunds, Found(w, r) PROVE Fine(w)
      BY <2>5, <2>6 DEF Found
    <2> SUFFICES Fine(w)
      BY <2>2
    <2> HIDE DEF Fine
    <2>7. {"verify", "cancel", "phase1", "lookup", "refund", "relookup",
           "revert", "mark_failed", "idle"} \subseteq Step \ {"fetch", "persist"}
      BY DEF Step
    <2>8. CASE Recheck(w)
      <3>1. order.refund_reference \in Refunds
        BY <1>1, <2>8, RowColumns DEF TypeOK, Recheck, MayRecheck
      <3> QED BY <2>5, <2>8, <3>1 DEF Recheck
    <2>9. CASE FetchRefund(w)
      <3> DEFINE r == req[w].refund
      <3>1. r \in Refunds
        BY <1>1, <2>9 DEF FetchRefund
      <3> HIDE DEF r
      <3>2. CASE Goto(w, "mark_failed")
        BY <2>3, <2>7, <3>2
      <3>3. CASE rzp[r] = "processed" /\ Goto(w, "persist")
                 /\ Remember(w, "recheck", r, TRUE)
        BY <1>2, <2>5, <3>1, <3>3
      <3>4. CASE Goto(w, "persist") /\ Remember(w, "recheck", r, FALSE)
        BY <2>5, <3>1, <3>4
      <3>5. \/ Goto(w, "mark_failed")
            \/ /\ rzp[r] = "processed" /\ Goto(w, "persist")
               /\ Remember(w, "recheck", r, TRUE)
            \/ Goto(w, "persist") /\ Remember(w, "recheck", r, FALSE)
        BY <2>9 DEF FetchRefund, r
      <3> QED BY <3>2, <3>3, <3>4, <3>5
    <2>10. CASE findExistingRazorpayRefund(w)
      BY <2>3, <2>4, <2>6, <2>7, <2>10 DEF findExistingRazorpayRefund, Live
    <2>11. CASE RefundCreated(w)
      BY <2>3, <2>6, <2>7, <2>11 DEF RefundCreated
    <2>12. CASE LookupAfterError(w)
      BY <2>3, <2>4, <2>6, <2>7, <2>12 DEF LookupAfterError, Live
    <2>13. CASE \/ CancelSnapshot(w) \/ verifyRazorpayPaymentForOrder(w)
                \/ CancelLocked(w) \/ Claim(w) \/ AdoptOnly(w) \/ Refuse(w)
                \/ LookupFails(w) \/ RefundErrors(w) \/ Revert(w)
                \/ MarkFailed(w) \/ Persist(w) \/ Crash(w)
      BY <2>3, <2>4, <2>7, <2>13
      DEF CancelSnapshot, verifyRazorpayPaymentForOrder, CancelLocked, Claim,
          AdoptOnly, Refuse, LookupFails, RefundErrors, Revert, MarkFailed,
          Persist, Crash
    <2> QED BY <1>4, <2>8, <2>9, <2>10, <2>11, <2>12, <2>13 DEF Work
  <1>5. CASE Decide
    BY <1>3, <1>5 DEF Decide, approveInspection, rejectInspection,
                      approveRefund, rejectRefund, createShipment, cancelShipment
  <1>6. ASSUME NEW r \in Refunds, Deliver(r) PROVE Remembered'
    BY <1>3, <1>6
    DEF Deliver, claimWebhookEvent, RefundWebhook, RefundWebhookBooks,
        RefundWebhookBookingFails, RefundWebhookFails, RefundWebhookCrash
  <1>7. CASE World
    BY <1>3, <1>7 DEF World, LateRequestArrives, TwoMinutesPass,
                      RazorpayProcesses, RazorpayFails
  <1>8. CASE UNCHANGED vars
    BY <1>3, <1>8 DEF vars
  <1> QED BY <1>4, <1>5, <1>6, <1>7, <1>8 DEF Next

LEMMA CompletedInvInit == Init => CompletedInv
  <1> SUFFICES ASSUME Init PROVE CompletedInv
    OBVIOUS
  <1>1. TypeOK
    BY TypeInit
  <1>2. order.refund_status = "none" /\ order.payment_status = "paid"
    <2>1. /\ ReadyOrder.refund_status = "none"
          /\ ReadyOrder.payment_status = "paid"
      BY DEF ReadyOrder
    <2>2. /\ ReturnedOrder.refund_status = "none"
          /\ ReturnedOrder.payment_status = "paid"
      BY DEF ReadyOrder, ReturnedOrder
    <2> QED BY <2>1, <2>2 DEF Init
  <1>3. CompletedIsProcessed
    BY <1>2 DEF CompletedIsProcessed
  <1>4. Remembered
    BY DEF Init, Remembered
  <1> QED BY <1>1, <1>3, <1>4 DEF CompletedInv

LEMMA CompletedInvStep == CompletedInv /\ [Next]_vars => CompletedInv'
  <1> SUFFICES ASSUME CompletedInv, [Next]_vars PROVE CompletedInv'
    OBVIOUS
  <1>1. TypeOK /\ CompletedIsProcessed
    BY DEF CompletedInv
  <1>2. TypeOK'
    BY <1>1, TypeStep
  <1>3. Remembered'
    BY RememberedStep
  <1>4. CompletedIsProcessed'
    <2>1. \A r \in Refunds : rzp[r] = "processed" => rzp'[r] = "processed"
      BY <1>1, ProcessedIsFinal
    <2> QED
      BY <1>1, <2>1, MoneySteps
      DEF CompletedIsProcessed, MoneyStep, SameMoney, StaysOpen, Completes
  <1> QED BY <1>2, <1>3, <1>4 DEF CompletedInv

(* An order is marked completed, and its payment refunded, only by a       *)
(* refund that Razorpay has processed: for any number of requests, refunds *)
(* and late arrivals, with calls of any length and racing failures.        *)
THEOREM CompletedCorrect == Spec => []CompletedIsProcessed
  <1>1. CompletedInv => CompletedIsProcessed
    BY DEF CompletedInv
  <1> QED BY <1>1, CompletedInvInit, CompletedInvStep, PTL DEF Spec

(* A completed refund is final: no request that read the order before, no  *)
(* webhook and no admin decision moves it or replaces its reference.       *)
THEOREM CompletedStays == Spec => CompletedIsFinal
  <1>1. CompletedInv /\ [Next]_vars =>
          [order.refund_status = "completed" =>
             /\ order'.refund_status = "completed"
             /\ order'.refund_reference = order.refund_reference]_vars
    BY MoneySteps DEF MoneyStep, SameMoney, StaysOpen, Completes
  <1> QED
    BY <1>1, CompletedInvInit, CompletedInvStep, PTL
    DEF Spec, CompletedIsFinal

-----------------------------------------------------------------------------
(* The goods and the money.                                                *)
(*                                                                         *)
(* That an order whose refund has begun is not shipped, and passed its     *)
(* inspection if it was returned, is not inductive: Phase 3 initiates a    *)
(* refund whatever the status it finds, unless that is completed or the    *)
(* like. What saves it is that a request reaches Phase 2 only once the     *)
(* refund has begun, and that a refund which has begun never goes back.    *)

InPhases ==
  {"lookup", "refund", "relookup", "revert", "fetch", "mark_failed", "persist"}

Begun ==
  \A w \in Workers : pc[w] \in InPhases => order.refund_status # "none"

GoodsInv ==
  TypeOK /\ RefundedIsNotShipped /\ RefundPassedInspection /\ Begun

(* The columns of the goods.                                               *)
SameGoods ==
  /\ order'.return_status = order.return_status
  /\ order'.inspection_status = order.inspection_status
  /\ order'.order_status = order.order_status
  /\ order'.shipment = order.shipment

(* What is left of the other columns by each UPDATE.                       *)
LEMMA GoodsAfterUpdate ==
  ASSUME NEW o \in OrderRow, NEW s, NEW a, NEW i
  PROVE  /\ LET n == [o EXCEPT !.inspection_status = i, !.stale = FALSE]
            IN  /\ n.return_status = o.return_status
                /\ n.order_status = o.order_status
                /\ n.shipment = o.shipment
                /\ n.inspection_status = i
                /\ n.refund_status = o.refund_status
         /\ LET n == [o EXCEPT !.refund_status = s, !.stale = FALSE]
            IN  /\ n.return_status = o.return_status
                /\ n.order_status = o.order_status
                /\ n.shipment = o.shipment
                /\ n.inspection_status = o.inspection_status
                /\ n.refund_status = s
         /\ LET n == [o EXCEPT !.refund_status = s, !.refund_amount = a,
                               !.stale = FALSE]
            IN  /\ n.return_status = o.return_status
                /\ n.order_status = o.order_status
                /\ n.shipment = o.shipment
                /\ n.inspection_status = o.inspection_status
                /\ n.refund_status = s
         /\ LET n == [o EXCEPT !.order_status = "cancelled",
                               !.refund_status = "approved",
                               !.refund_amount = a, !.stale = FALSE]
            IN  /\ n.return_status = o.return_status
                /\ n.order_status = "cancelled"
                /\ n.shipment = o.shipment
                /\ n.inspection_status = o.inspection_status
                /\ n.refund_status = "approved"
         /\ LET n == [o EXCEPT !.shipment = "active", !.stale = FALSE]
            IN  /\ n.return_status = o.return_status
                /\ n.order_status = o.order_status
                /\ n.inspection_status = o.inspection_status
                /\ n.refund_status = o.refund_status
         /\ LET n == [o EXCEPT !.shipment = "cancelled",
                               !.order_status = "cancelled", !.stale = FALSE]
            IN  /\ n.return_status = o.return_status
                /\ n.order_status = "cancelled"
                /\ n.shipment = "cancelled"
                /\ n.inspection_status = o.inspection_status
                /\ n.refund_status = o.refund_status
         /\ LET n == [o EXCEPT !.stale = TRUE]
            IN  /\ n.return_status = o.return_status
                /\ n.order_status = o.order_status
                /\ n.shipment = o.shipment
                /\ n.inspection_status = o.inspection_status
                /\ n.refund_status = o.refund_status
  BY DEF OrderRow

LEMMA GoodsAfterOutcome ==
  ASSUME order \in OrderRow, NEW r,
         order' \in {CompletedBy(r), InitiatedBy(r), FailedBy(r)}
  PROVE  SameGoods /\ order'.refund_status \in {"completed", "initiated", "failed"}
  BY DEF OrderRow, CompletedBy, InitiatedBy, FailedBy, SameGoods

(* A step of one request leaves the others where they are, and a request   *)
(* enters the phases by a claim, a recheck or an adoption only.            *)
LEMMA OthersStay ==
  ASSUME TypeOK, NEW w \in Workers, Work(w), NEW v \in Workers, v # w
  PROVE  pc'[v] = pc[v] /\ req'[v] = req[v]
  BY DEF TypeOK, Work, CancelSnapshot, verifyRazorpayPaymentForOrder, CancelLocked,
         Recheck, Claim, AdoptOnly, Refuse, findExistingRazorpayRefund,
         LookupFails, RefundCreated, RefundErrors, LookupAfterError, Revert,
         FetchRefund, MarkFailed, Persist, Crash, Found, Goto, Remember, End

LEMMA EntersPhases ==
  ASSUME TypeOK, NEW w \in Workers, Work(w), pc'[w] \in InPhases
  PROVE  pc[w] \in InPhases \/ Recheck(w) \/ Claim(w) \/ AdoptOnly(w)
  BY DEF TypeOK, InPhases, Work, CancelSnapshot, verifyRazorpayPaymentForOrder,
         CancelLocked, Refuse, findExistingRazorpayRefund,
         LookupFails, RefundCreated, RefundErrors, LookupAfterError, Revert,
         FetchRefund, MarkFailed, Persist, Crash, Found, Goto, End

LEMMA GoodsStep == GoodsInv /\ [Next]_vars => GoodsInv'
  <1> SUFFICES ASSUME GoodsInv, [Next]_vars PROVE GoodsInv'
    OBVIOUS
  <1> DEFINE Goods == RefundedIsNotShipped /\ RefundPassedInspection
             Going == order.refund_status # "none" =>
                        order'.refund_status # "none"
  <1>1. /\ order \in OrderRow
        /\ TypeOK /\ Goods /\ Begun
    BY DEF GoodsInv, TypeOK
  <1> USE DEF RefundedIsNotShipped, RefundPassedInspection
  <1>2. UNCHANGED order => Goods' /\ Going
    BY <1>1
  <1>3. SameGoods /\ order'.refund_status = order.refund_status => Goods' /\ Going
    BY <1>1 DEF SameGoods
  <1>4. /\ SameGoods
        /\ order.refund_status # "none" /\ order'.refund_status # "none"
        => Goods' /\ Going
    BY <1>1 DEF SameGoods
  <1> SUFFICES Goods' /\ Going /\ Begun'
    BY <1>1, TypeStep DEF GoodsInv
  <1>5. CASE Decide
    <2>1. Begun' \/ ~Going
      BY <1>1, <1>5 DEF Begun, Decide, approveInspection, rejectInspection,
         approveRefund, rejectRefund, createShipment, cancelShipment
    <2>2. CASE approveInspection
      BY <1>1, <2>1, <2>2, GoodsAfterUpdate DEF approveInspection
    <2>3. CASE rejectInspection
      BY <1>1, <2>1, <2>3, GoodsAfterUpdate DEF rejectInspection
    <2>4. CASE approveRefund
      <3>1. PICK a \in 1..Paid :
              order' = [order EXCEPT !.refund_status = "approved",
                                     !.refund_amount = a, !.stale = FALSE]
        BY <2>4 DEF approveRefund
      <3>2. SameGoods /\ order'.refund_status = "approved"
        BY <1>1, <3>1, GoodsAfterUpdate DEF SameGoods
      <3> QED BY <1>1, <2>1, <2>4, <3>2 DEF approveRefund, SameGoods
    <2>5. CASE rejectRefund
      BY <1>1, <2>1, <2>5, GoodsAfterUpdate DEF rejectRefund
    <2>6. CASE createShipment
      BY <1>1, <2>1, <2>6, GoodsAfterUpdate DEF createShipment
    <2>7. CASE cancelShipment
      BY <1>1, <2>1, <2>7, GoodsAfterUpdate DEF cancelShipment
    <2> QED BY <1>5, <2>2, <2>3, <2>4, <2>5, <2>6, <2>7 DEF Decide
  <1>6. ASSUME NEW w \in Workers, Work(w) PROVE Goods' /\ Going /\ Begun'
    <2>1. Goods' /\ Going
      <3>1. CASE CancelLocked(w)
        <4>1. CASE UNCHANGED order
          BY <1>2, <4>1
        <4>2. CASE order' = [order EXCEPT !.order_status = "cancelled",
                                          !.refund_status = "approved",
                                          !.refund_amount = Paid,
                                          !.stale = FALSE]
                   /\ evaluateCancelRefundEligibility
          <5>1. /\ order'.return_status = order.return_status
                /\ order'.order_status = "cancelled"
                /\ order'.shipment = order.shipment
                /\ order'.refund_status = "approved"
            BY <1>1, <4>2, GoodsAfterUpdate
          <5>2. order.return_status = "none" /\ order.shipment # "active"
            BY <4>2 DEF evaluateCancelRefundEligibility
          <5> QED BY <5>1, <5>2
        <4> QED BY <3>1, <4>1, <4>2 DEF CancelLocked
      <3>2. CASE Claim(w)
        BY <1>1, <1>4, <3>2, GoodsAfterUpdate DEF Claim, MayClaim, SameGoods
      <3>3. CASE Revert(w)
        BY <1>1, <1>2, <1>4, <3>3, GoodsAfterUpdate DEF Revert, SameGoods
      <3>4. CASE MarkFailed(w)
        BY <1>1, <1>2, <1>4, <3>4, GoodsAfterUpdate DEF MarkFailed, SameGoods
      <3>5. CASE Persist(w)
        <4>1. order.refund_status # "none"
          BY <1>1, <3>5 DEF Persist, Begun, InPhases
        <4>2. \/ UNCHANGED order
              \/ order' = CompletedBy(req[w].refund)
              \/ order' = InitiatedBy(req[w].refund)
          BY <3>5 DEF Persist
        <4> QED BY <1>1, <1>2, <1>4, <4>1, <4>2, GoodsAfterOutcome
      <3>6. CASE UNCHANGED order
        BY <1>2, <3>6
      <3> QED
        BY <1>6, <3>1, <3>2, <3>3, <3>4, <3>5, <3>6
        DEF Work, CancelSnapshot, verifyRazorpayPaymentForOrder, Recheck,
            AdoptOnly, Refuse, findExistingRazorpayRefund, LookupFails,
            RefundCreated, RefundErrors, LookupAfterError, FetchRefund, Crash
    <2>2. ASSUME NEW v \in Workers, pc'[v] \in InPhases
          PROVE  order'.refund_status # "none"
      <3>1. CASE v # w
        BY <1>1, <1>6, <2>1, <2>2, <3>1, OthersStay DEF Begun
      <3>2. CASE pc[w] \in InPhases
        BY <1>1, <2>1, <3>2 DEF Begun
      <3>3. CASE Recheck(w)
        BY <3>3, <2>1 DEF Recheck, MayRecheck
      <3>4. CASE Claim(w)
        BY <1>1, <3>4, GoodsAfterUpdate DEF Claim
      <3>5. CASE AdoptOnly(w)
        BY <3>5, <2>1 DEF AdoptOnly
      <3> QED
        BY <1>1, <1>6, <2>2, <3>1, <3>2, <3>3, <3>4, <3>5, EntersPhases
    <2> QED BY <2>1, <2>2 DEF Begun
  <1>7. ASSUME NEW r \in Refunds, Deliver(r) PROVE Goods' /\ Going /\ Begun'
    <2>1. Begun' \/ ~Going
      BY <1>1, <1>7 DEF Begun, Deliver, claimWebhookEvent, RefundWebhook,
         RefundWebhookBooks, RefundWebhookBookingFails, RefundWebhookFails,
         RefundWebhookCrash
    <2>2. CASE UNCHANGED order
      BY <1>2, <2>1, <2>2
    <2>3. CASE RefundWebhook(r) /\ Matches(r)
      <3>1. order' \in {CompletedBy(r), FailedBy(r)}
        BY <2>3 DEF RefundWebhook
      <3> QED
        BY <1>1, <1>4, <2>1, <2>3, <3>1, GoodsAfterOutcome DEF Matches
    <2> QED
      BY <1>7, <2>2, <2>3
      DEF Deliver, claimWebhookEvent, RefundWebhook, RefundWebhookBooks,
          RefundWebhookBookingFails, RefundWebhookFails, RefundWebhookCrash
  <1>8. CASE World
    <2>1. Begun' \/ ~Going
      BY <1>1, <1>8 DEF Begun, World, LateRequestArrives, TwoMinutesPass,
                        RazorpayProcesses, RazorpayFails
    <2>2. CASE TwoMinutesPass
      BY <1>1, <1>3, <2>1, <2>2, GoodsAfterUpdate DEF TwoMinutesPass, SameGoods
    <2>3. CASE UNCHANGED order
      BY <1>2, <2>1, <2>3
    <2> QED
      BY <1>8, <2>2, <2>3
      DEF World, LateRequestArrives, RazorpayProcesses, RazorpayFails
  <1>9. CASE UNCHANGED vars
    BY <1>1, <1>9 DEF vars, Begun
  <1> QED BY <1>5, <1>6, <1>7, <1>8, <1>9 DEF Next

LEMMA GoodsInit == Init => GoodsInv
  <1> SUFFICES ASSUME Init PROVE GoodsInv
    OBVIOUS
  <1>1. order.refund_status = "none"
    <2>1. ReadyOrder.refund_status = "none"
      BY DEF ReadyOrder
    <2>2. ReturnedOrder.refund_status = "none"
      BY DEF ReadyOrder, ReturnedOrder
    <2> QED BY <2>1, <2>2 DEF Init
  <1>2. Begun
    BY DEF Init, Begun, InPhases
  <1> QED
    BY <1>1, <1>2, TypeInit
    DEF GoodsInv, RefundedIsNotShipped, RefundPassedInspection

(* The money and the goods never both leave: for any number of concurrent  *)
(* cancellations, shipments, refund requests and webhooks, an order        *)
(* outside the return flow whose refund has begun is cancelled and has no  *)
(* active shipment, although eligibility is first read without a lock.     *)
THEOREM RefundedStaysHome == Spec => []RefundedIsNotShipped
  <1>1. GoodsInv => RefundedIsNotShipped
    BY DEF GoodsInv
  <1> QED BY <1>1, GoodsInit, GoodsStep, PTL DEF Spec

(* A returned order is refunded only after its inspection was passed, and  *)
(* no interleaving lets an inspection be turned down once a refund began.  *)
THEOREM InspectionPrecedesRefund == Spec => []RefundPassedInspection
  <1>1. GoodsInv => RefundPassedInspection
    BY DEF GoodsInv
  <1> QED BY <1>1, GoodsInit, GoodsStep, PTL DEF Spec

-----------------------------------------------------------------------------
(* The two rows.                                                           *)
(*                                                                         *)
(* RowsAgree is not inductive: the webhook completes the order in one      *)
(* statement and writes the payments row in a later one, with what the     *)
(* order says then. The strengthening says that between the two the order  *)
(* stays completed by that refund.                                         *)

Booked ==
  \A r \in Refunds :
    hook[r] = "updated" /\ rzp[r] = "processed" =>
      order.refund_status = "completed" /\ order.refund_reference = r

BooksInv == CompletedInv /\ RowsAgree /\ Booked

(* A step that writes no payment, records no outcome and completes no      *)
(* UPDATE of the webhook of a processed refund.                            *)
OutcomeKept ==
  \/ SameMoney
  \/ /\ order.refund_status # "completed"
     /\ order'.refund_status \notin {"initiated", "completed"}

HooksKept ==
  \A r \in Refunds :
    hook'[r] = "updated" /\ rzp'[r] = "processed" =>
      hook[r] = "updated" /\ rzp[r] = "processed"

LEMMA QuietStep ==
  ASSUME RowsAgree, Booked, OutcomeKept, HooksKept, UNCHANGED payment
  PROVE  RowsAgree' /\ Booked'
  BY DEF RowsAgree, Booked, OutcomeKept, HooksKept, SameMoney

LEMMA DecideKeepsOutcome ==
  ASSUME order \in OrderRow, Decide
  PROVE  OutcomeKept
  <1>1. CASE approveInspection
    BY <1>1, ColumnsAfterUpdate DEF approveInspection, OutcomeKept, SameMoney
  <1>2. CASE rejectInspection
    BY <1>2, ColumnsAfterUpdate DEF rejectInspection, OutcomeKept, SameMoney
  <1>3. CASE approveRefund
    <2>1. PICK a \in 1..Paid :
            order' = [order EXCEPT !.refund_status = "approved",
                                   !.refund_amount = a, !.stale = FALSE]
      BY <1>3 DEF approveRefund
    <2>2. order'.refund_status = "approved"
      BY <2>1, ColumnsAfterUpdate
    <2> QED BY <1>3, <2>2 DEF approveRefund, OutcomeKept
  <1>4. CASE rejectRefund
    BY <1>4, ColumnsAfterUpdate DEF rejectRefund, InProgress, OutcomeKept
  <1>5. CASE createShipment
    BY <1>5, ColumnsAfterUpdate DEF createShipment, OutcomeKept, SameMoney
  <1>6. CASE cancelShipment
    BY <1>6, ColumnsAfterUpdate DEF cancelShipment, OutcomeKept, SameMoney
  <1> QED BY <1>1, <1>2, <1>3, <1>4, <1>5, <1>6 DEF Decide

(* Of the steps of a request only Phase 3 records an outcome.              *)
LEMMA WorkKeepsOutcome ==
  ASSUME CompletedInv, NEW w \in Workers, Work(w), ~Persist(w)
  PROVE  OutcomeKept
  <1>1. /\ order \in OrderRow
        /\ order.payment_status = "paid" => order.refund_status # "completed"
    BY DEF CompletedInv, TypeOK, CompletedIsProcessed
  <1>2. UNCHANGED order => OutcomeKept
    BY DEF OutcomeKept, SameMoney
  <1>3. CASE CancelLocked(w) /\ ~ UNCHANGED order
    <2>1. /\ order' = [order EXCEPT !.order_status = "cancelled",
                                    !.refund_status = "approved",
                                    !.refund_amount = Paid, !.stale = FALSE]
          /\ order.payment_status = "paid"
      BY <1>3 DEF CancelLocked, evaluateCancelRefundEligibility
    <2>2. order'.refund_status = "approved"
      BY <1>1, <2>1, ColumnsAfterUpdate
    <2> QED BY <1>1, <2>1, <2>2 DEF OutcomeKept
  <1>4. CASE Claim(w)
    BY <1>1, <1>4, ColumnsAfterUpdate DEF Claim, MayClaim, OutcomeKept
  <1>5. CASE Revert(w)
    BY <1>1, <1>2, <1>5, ColumnsAfterUpdate DEF Revert, OutcomeKept
  <1>6. CASE MarkFailed(w)
    BY <1>1, <1>2, <1>6, ColumnsAfterUpdate DEF MarkFailed, OutcomeKept
  <1>7. CASE UNCHANGED order
    BY <1>2, <1>7
  <1> QED
    BY <1>3, <1>4, <1>5, <1>6, <1>7
    DEF Work, CancelSnapshot, verifyRazorpayPaymentForOrder, Recheck,
        AdoptOnly, Refuse, findExistingRazorpayRefund, LookupFails,
        RefundCreated, RefundErrors, LookupAfterError, FetchRefund, Crash

LEMMA BooksInvInit == Init => BooksInv
  <1> SUFFICES ASSUME Init PROVE BooksInv
    OBVIOUS
  <1>1. order.refund_status = "none"
    <2>1. ReadyOrder.refund_status = "none"
      BY DEF ReadyOrder
    <2>2. ReturnedOrder.refund_status = "none"
      BY DEF ReadyOrder, ReturnedOrder
    <2> QED BY <2>1, <2>2 DEF Init
  <1> QED BY <1>1, CompletedInvInit DEF Init, BooksInv, RowsAgree, Booked

LEMMA BooksInvStep == BooksInv /\ [Next]_vars => BooksInv'
  <1> SUFFICES ASSUME BooksInv, [Next]_vars PROVE BooksInv'
    OBVIOUS
  <1>1. /\ CompletedInv /\ TypeOK /\ Remembered
        /\ RowsAgree /\ Booked
        /\ order \in OrderRow
    BY DEF BooksInv, CompletedInv, TypeOK
  <1> SUFFICES RowsAgree' /\ Booked'
    BY CompletedInvStep DEF BooksInv
  <1>2. UNCHANGED order => OutcomeKept
    BY DEF OutcomeKept, SameMoney
  <1>3. UNCHANGED <<rzp, hook>> => HooksKept
    BY DEF HooksKept
  <1>4. CASE Decide
    <2>1. UNCHANGED <<payment, rzp, hook>>
      BY <1>4 DEF Decide, approveInspection, rejectInspection, approveRefund,
                  rejectRefund, createShipment, cancelShipment
    <2> QED BY <1>1, <1>3, <1>4, <2>1, DecideKeepsOutcome, QuietStep
  <1>5. ASSUME NEW w \in Workers, Work(w) PROVE RowsAgree' /\ Booked'
    <2>1. CASE Persist(w)
      <3> DEFINE r == req[w].refund
      <3>1. r \in Refunds /\ UNCHANGED <<rzp, hook>>
        BY <1>1, <2>1 DEF Remembered, Persist
      <3>2. CASE UNCHANGED <<order, payment>>
        BY <1>1, <1>2, <1>3, <3>1, <3>2, QuietStep
      <3>3. CASE /\ order.refund_status # "completed"
                 /\ order' = CompletedBy(r) /\ BookRefund(r, TRUE)
        <4>1. /\ order'.refund_status = "completed"
              /\ order'.refund_reference = r
              /\ payment'.refund_id = r
          BY <1>1, <3>3, ColumnsAfterOutcome DEF BookRefund
        <4> QED BY <1>1, <3>1, <3>3, <4>1 DEF RowsAgree, Booked
      <3>4. CASE /\ order.refund_status # "completed"
                 /\ order' = InitiatedBy(r) /\ BookRefund(r, FALSE)
        <4>1. /\ order'.refund_status = "initiated"
              /\ order'.refund_reference = r
              /\ payment'.refund_id = r
              /\ payment'.status = payment.status
          BY <1>1, <3>4, ColumnsAfterOutcome DEF BookRefund
        <4> QED BY <1>1, <3>1, <3>4, <4>1 DEF RowsAgree, Booked
      <3> QED BY <2>1, <3>2, <3>3, <3>4 DEF Persist, Superseded
    <2>2. CASE ~Persist(w)
      <3>1. /\ UNCHANGED <<payment, hook>>
            /\ UNCHANGED rzp \/ RefundCreated(w)
        BY <1>5, <2>2
        DEF Work, CancelSnapshot, verifyRazorpayPaymentForOrder, CancelLocked,
            Recheck, Claim, AdoptOnly, Refuse, findExistingRazorpayRefund,
            LookupFails, RefundCreated, RefundErrors, LookupAfterError, Revert,
            FetchRefund, MarkFailed, Crash
      <3>2. RefundCreated(w) => HooksKept
        BY <1>1, <3>1 DEF TypeOK, RefundCreated, Issue, HooksKept
      <3> QED
        BY <1>1, <1>3, <1>5, <2>2, <3>1, <3>2, WorkKeepsOutcome, QuietStep
    <2> QED BY <2>1, <2>2
  <1>6. ASSUME NEW r \in Refunds, Deliver(r) PROVE RowsAgree' /\ Booked'
    <2>1. CASE RefundWebhook(r) /\ Matches(r)
      <3>1. /\ order.refund_status # "completed"
            /\ hook' = [hook EXCEPT ![r] = "updated"]
            /\ UNCHANGED <<payment, rzp>>
            /\ \/ rzp[r] = "processed" /\ order' = CompletedBy(r)
               \/ rzp[r] # "processed" /\ order' = FailedBy(r)
        BY <2>1 DEF RefundWebhook, Matches
      <3>2. CASE rzp[r] = "processed" /\ order' = CompletedBy(r)
        <4>1. /\ order'.refund_status = "completed"
              /\ order'.refund_reference = r
          BY <1>1, <3>2, ColumnsAfterOutcome
        <4> QED BY <1>1, <3>1, <4>1 DEF TypeOK, RowsAgree, Booked
      <3>3. CASE rzp[r] # "processed" /\ order' = FailedBy(r)
        <4>1. order'.refund_status = "failed"
          BY <1>1, <3>3, ColumnsAfterOutcome
        <4> QED BY <1>1, <3>1, <3>3, <4>1 DEF TypeOK, RowsAgree, Booked
      <3> QED BY <3>1, <3>2, <3>3
    <2>2. CASE RefundWebhookBooks(r)
      <3>1. /\ hook[r] = "updated" /\ UNCHANGED <<order, rzp>>
            /\ hook' = [hook EXCEPT ![r] = "completed"]
        BY <2>2 DEF RefundWebhookBooks
      <3>2. Booked'
        BY <1>1, <3>1 DEF TypeOK, Booked
      <3>3. CASE rzp[r] = "processed"
        <4>1. /\ order.refund_status = "completed"
              /\ order.refund_reference = r
              /\ payment'.refund_id = r
          BY <1>1, <2>2, <3>1, <3>3 DEF RefundWebhookBooks, Booked, BookRefund
        <4> QED BY <3>1, <3>2, <4>1 DEF RowsAgree
      <3>4. CASE rzp[r] # "processed"
        BY <1>1, <2>2, <3>1, <3>2, <3>4 DEF RefundWebhookBooks, RowsAgree
      <3> QED BY <3>3, <3>4
    <2>3. CASE ~RefundWebhookBooks(r) /\ ~(RefundWebhook(r) /\ Matches(r))
      <3>1. /\ UNCHANGED <<order, payment, rzp>>
            /\ \E s \in HookStatus \ {"updated"} :
                 hook' = [hook EXCEPT ![r] = s]
        BY <1>6, <2>3
        DEF Deliver, claimWebhookEvent, RefundWebhook,
            RefundWebhookBookingFails, RefundWebhookFails, RefundWebhookCrash,
            HookStatus
      <3>2. HooksKept
        BY <1>1, <3>1 DEF TypeOK, HooksKept
      <3> QED BY <1>1, <1>2, <3>1, <3>2, QuietStep
    <2> QED BY <2>1, <2>2, <2>3
  <1>7. CASE World
    <2>1. UNCHANGED payment
      BY <1>7 DEF World, LateRequestArrives, TwoMinutesPass,
                  RazorpayProcesses, RazorpayFails
    <2>2. OutcomeKept
      <3>1. CASE TwoMinutesPass
        BY <1>1, <3>1, ColumnsAfterUpdate
        DEF TwoMinutesPass, OutcomeKept, SameMoney
      <3>2. CASE UNCHANGED order
        BY <1>2, <3>2
      <3> QED
        BY <1>7, <3>1, <3>2
        DEF World, LateRequestArrives, RazorpayProcesses, RazorpayFails
    <2>3. HooksKept
      <3>1. CASE LateRequestArrives
        BY <1>1, <3>1 DEF TypeOK, LateRequestArrives, Issue, HooksKept
      <3>2. ASSUME NEW r \in Refunds, RazorpayProcesses(r) \/ RazorpayFails(r)
            PROVE  HooksKept
        BY <1>1, <3>2 DEF TypeOK, RazorpayProcesses, RazorpayFails, HooksKept
      <3>3. CASE TwoMinutesPass
        BY <1>3, <3>3 DEF TwoMinutesPass
      <3> QED BY <1>7, <3>1, <3>2, <3>3 DEF World
    <2> QED BY <1>1, <2>1, <2>2, <2>3, QuietStep
  <1>8. CASE UNCHANGED vars
    BY <1>1, <1>2, <1>3, <1>8, QuietStep DEF vars
  <1> QED BY <1>4, <1>5, <1>6, <1>7, <1>8 DEF Next

(* The orders row and the payments row tell the same story: an initiated   *)
(* refund is the one on the payments row, and the payments row never says  *)
(* refunded of another refund, or before the order does, although the      *)
(* webhook writes the two rows in two statements.                          *)
THEOREM BooksAgree == Spec => []RowsAgree
  <1>1. BooksInv => RowsAgree
    BY DEF BooksInv
  <1> QED BY <1>1, BooksInvInit, BooksInvStep, PTL DEF Spec

-----------------------------------------------------------------------------
(* One refund in a calm world.                                             *)
(*                                                                         *)
(* That at most one refund moves money is not inductive: what a request    *)
(* found at Razorpay may be old when it creates a refund, and Phase 3 does *)
(* not look at the claim again. In a calm world the claim protects it: of  *)
(* the requests that may create one holds it at a time; while one does,    *)
(* the claim does not go stale, no failure is unheard of and the order     *)
(* does not leave the statuses in which a refund is tracked; and a request *)
(* that is about to create, or to give the claim back, is right that       *)
(* Razorpay has no refund.                                                 *)

(* Razorpay announces outcomes only.                                       *)
Heard == \A r \in Refunds : hook[r] # "unsent" => rzp[r] \in {"processed", "failed"}

(* The mode of a request at each phase, and what a recheck found failed.   *)
Modes ==
  \A w \in Workers :
    /\ pc[w] \in {"refund", "relookup", "revert"} => req[w].mode = "create"
    /\ pc[w] = "lookup" => req[w].mode # "recheck"
    /\ pc[w] = "mark_failed" => /\ req[w].refund \in Refunds
                                /\ rzp[req[w].refund] = "failed"

Single ==
  /\ \A r, s \in Live : r = s
  /\ Live # {} => order.refund_status \in InProgress
  /\ order.refund_status = "initiated" => Live \subseteq {order.refund_reference}
  /\ FailureUnheard => Live = {}

Claims ==
  /\ \A v, w \in Workers : HoldsClaim(v) /\ HoldsClaim(w) => v = w
  /\ \A w \in Workers : HoldsClaim(w) =>
       /\ ~order.stale /\ ~FailureUnheard
       /\ order.refund_status \in InProgress
       /\ order.refund_status # "processing" => Live # {}
       /\ pc[w] \in {"refund", "revert"} => Live = {}
  /\ \A w \in Workers :
       Acting(w) /\ pc[w] = "persist" => req[w].refund \in Live

CalmInv == CompletedInv /\ Heard /\ Modes /\ (Calm => Single /\ Claims)

(* What a refund may do at Razorpay in one step.                           *)
LEMMA RefundMoves ==
  ASSUME TypeOK, [Next]_vars, NEW r \in Refunds
  PROVE  \/ rzp'[r] = rzp[r]
         \/ rzp[r] = "none" /\ rzp'[r] = "pending"
         \/ /\ rzp[r] = "pending" /\ rzp'[r] \in {"processed", "failed"}
            /\ hook'[r] = "sent"
  <1> USE DEF TypeOK
  <1> DEFINE Moves ==
         \/ rzp'[r] = rzp[r]
         \/ rzp[r] = "none" /\ rzp'[r] = "pending"
         \/ /\ rzp[r] = "pending" /\ rzp'[r] \in {"processed", "failed"}
            /\ hook'[r] = "sent"
  <1> SUFFICES Moves
    OBVIOUS
  <1>1. ASSUME NEW q \in Refunds, Issue(q) PROVE Moves
    BY <1>1 DEF Issue
  <1>2. ASSUME NEW q \in Refunds, RazorpayProcesses(q) \/ RazorpayFails(q)
        PROVE  Moves
    BY <1>2 DEF RazorpayProcesses, RazorpayFails
  <1>3. CASE UNCHANGED rzp
    BY <1>3
  <1>4. CASE Decide
    BY <1>3, <1>4 DEF Decide, approveInspection, rejectInspection,
                      approveRefund, rejectRefund, createShipment, cancelShipment
  <1>5. ASSUME NEW w \in Workers, Work(w) PROVE Moves
    <2>1. CASE RefundCreated(w)
      BY <1>1, <2>1 DEF RefundCreated
    <2> QED
      BY <1>3, <1>5, <2>1
      DEF Work, CancelSnapshot, verifyRazorpayPaymentForOrder, CancelLocked,
          Recheck, Claim, AdoptOnly, Refuse, findExistingRazorpayRefund,
          LookupFails, RefundErrors, LookupAfterError, Revert, FetchRefund,
          MarkFailed, Persist, Crash
  <1>6. ASSUME NEW q \in Refunds, Deliver(q) PROVE Moves
    BY <1>3, <1>6
    DEF Deliver, claimWebhookEvent, RefundWebhook, RefundWebhookBooks,
        RefundWebhookBookingFails, RefundWebhookFails, RefundWebhookCrash
  <1>7. CASE World
    <2>1. CASE LateRequestArrives
      BY <1>1, <1>3, <2>1 DEF LateRequestArrives
    <2>2. CASE TwoMinutesPass
      BY <1>3, <2>2 DEF TwoMinutesPass
    <2> QED BY <1>2, <1>7, <2>1, <2>2 DEF World
  <1>8. CASE UNCHANGED vars
    BY <1>3, <1>8 DEF vars
  <1> QED BY <1>4, <1>5, <1>6, <1>7, <1>8 DEF Next

(* A webhook is sent when its refund settles, and handled only once sent.  *)
LEMMA HooksMove ==
  ASSUME TypeOK, [Next]_vars, NEW r \in Refunds, hook[r] = "unsent"
  PROVE  hook'[r] = "unsent" \/ rzp'[r] \in {"processed", "failed"}
  <1> USE DEF TypeOK
  <1>1. ASSUME NEW q \in Refunds, Deliver(q) PROVE hook'[r] = "unsent"
    BY <1>1
    DEF Deliver, claimWebhookEvent, RefundWebhook, RefundWebhookBooks,
        RefundWebhookBookingFails, RefundWebhookFails, RefundWebhookCrash
  <1>2. ASSUME NEW q \in Refunds, RazorpayProcesses(q) \/ RazorpayFails(q)
        PROVE  hook'[r] = "unsent" \/ rzp'[r] \in {"processed", "failed"}
    BY <1>2 DEF RazorpayProcesses, RazorpayFails
  <1>3. CASE Decide
    BY <1>3 DEF Decide, approveInspection, rejectInspection,
                approveRefund, rejectRefund, createShipment, cancelShipment
  <1>4. ASSUME NEW w \in Workers, Work(w) PROVE hook'[r] = "unsent"
    BY <1>4
    DEF Work, CancelSnapshot, verifyRazorpayPaymentForOrder, CancelLocked,
        Recheck, Claim, AdoptOnly, Refuse, findExistingRazorpayRefund,
        LookupFails, RefundCreated, RefundErrors, LookupAfterError, Revert,
        FetchRefund, MarkFailed, Persist, Crash
  <1>5. CASE LateRequestArrives \/ TwoMinutesPass \/ UNCHANGED vars
    BY <1>5 DEF LateRequestArrives, TwoMinutesPass, vars
  <1> QED BY <1>1, <1>2, <1>3, <1>4, <1>5 DEF Next, World

LEMMA HeardStep ==
  ASSUME TypeOK, Heard, [Next]_vars
  PROVE  Heard'
  <1> SUFFICES ASSUME NEW r \in Refunds, hook'[r] # "unsent"
               PROVE  rzp'[r] \in {"processed", "failed"}
    BY DEF Heard
  <1>1. CASE hook[r] = "unsent"
    BY <1>1, HooksMove
  <1>2. CASE hook[r] # "unsent"
    BY <1>2, RefundMoves DEF Heard
  <1> QED BY <1>1, <1>2

LEMMA ModesStep ==
  ASSUME CompletedInv, Modes, [Next]_vars
  PROVE  Modes'
  <1> DEFINE Fits(w) ==
        /\ pc'[w] \in {"refund", "relookup", "revert"} => req'[w].mode = "create"
        /\ pc'[w] = "lookup" => req'[w].mode # "recheck"
        /\ pc'[w] = "mark_failed" => /\ req'[w].refund \in Refunds
                                     /\ rzp'[req'[w].refund] = "failed"
  <1>1. TypeOK /\ Remembered
    BY DEF CompletedInv
  <1>2. \A r \in Refunds : rzp[r] = "failed" => rzp'[r] = "failed"
    BY <1>1, RefundMoves
  <1>3. ASSUME NEW w \in Workers, pc'[w] = pc[w], req'[w] = req[w] PROVE Fits(w)
    BY <1>2, <1>3 DEF Modes
  <1>4. UNCHANGED <<pc, req>> => Modes'
    BY <1>3 DEF Modes
  <1>5. ASSUME NEW w \in Workers, Work(w) PROVE Modes'
    <2>1. /\ pc \in [Workers -> Step] /\ req \in [Workers -> Request]
          /\ req[w].mode \in Mode
      BY <1>1, Requests DEF TypeOK
    <2>2. Fits(w)
      <3>1. CASE \/ CancelSnapshot(w) \/ verifyRazorpayPaymentForOrder(w)
                 \/ CancelLocked(w) \/ Refuse(w) \/ Revert(w) \/ MarkFailed(w)
                 \/ Persist(w) \/ Crash(w)
        BY <2>1, <3>1
        DEF CancelSnapshot, verifyRazorpayPaymentForOrder, CancelLocked, Refuse,
            Revert, MarkFailed, Persist, Crash, Goto, End
      <3>2. CASE Recheck(w) \/ Claim(w) \/ AdoptOnly(w)
        BY <2>1, <3>2 DEF Recheck, Claim, AdoptOnly, Goto, Remember
      <3>3. CASE findExistingRazorpayRefund(w) \/ LookupFails(w)
        BY <2>1, <3>3
        DEF findExistingRazorpayRefund, LookupFails, Found, Goto, End
      <3>4. CASE RefundCreated(w) \/ RefundErrors(w) \/ LookupAfterError(w)
        BY <2>1, <3>4
        DEF RefundCreated, RefundErrors, LookupAfterError, Found, Goto, End, Modes
      <3>5. CASE FetchRefund(w)
        BY <1>1, <2>1, <3>5 DEF FetchRefund, Remembered, Goto
      <3> QED BY <1>5, <3>1, <3>2, <3>3, <3>4, <3>5 DEF Work
    <2>3. \A v \in Workers : v # w => Fits(v)
      BY <1>1, <1>3, <1>5, OthersStay
    <2> QED BY <2>2, <2>3 DEF Modes
  <1>6. CASE Decide
    BY <1>4, <1>6 DEF Decide, approveInspection, rejectInspection,
                      approveRefund, rejectRefund, createShipment, cancelShipment
  <1>7. ASSUME NEW r \in Refunds, Deliver(r) PROVE Modes'
    BY <1>4, <1>7
    DEF Deliver, claimWebhookEvent, RefundWebhook, RefundWebhookBooks,
        RefundWebhookBookingFails, RefundWebhookFails, RefundWebhookCrash
  <1>8. CASE World
    BY <1>4, <1>8 DEF World, LateRequestArrives, TwoMinutesPass,
                      RazorpayProcesses, RazorpayFails
  <1>9. CASE UNCHANGED vars
    BY <1>4, <1>9 DEF vars
  <1> QED BY <1>5, <1>6, <1>7, <1>8, <1>9 DEF Next

(* The environment of a behaviour is calm once and for all.                *)
LEMMA EnvFixed ==
  ASSUME TypeOK, [Next]_vars
  PROVE  /\ env'.slow = env.slow /\ env'.race = env.race
         /\ env'.maxLate = env.maxLate
         /\ Calm' = Calm
  <1> USE DEF TypeOK, EnvType
  <1> SUFFICES /\ env'.slow = env.slow /\ env'.race = env.race
               /\ env'.maxLate = env.maxLate
    BY DEF Calm
  <1>1. CASE UNCHANGED env
    BY <1>1
  <1>2. CASE Decide
    BY <1>1, <1>2 DEF Decide, approveInspection, rejectInspection,
                      approveRefund, rejectRefund, createShipment, cancelShipment
  <1>3. ASSUME NEW w \in Workers, Work(w)
        PROVE  UNCHANGED env \/ env' = [env EXCEPT !.late = @ + 1]
    BY <1>3
    DEF Work, CancelSnapshot, verifyRazorpayPaymentForOrder, CancelLocked,
        Recheck, Claim, AdoptOnly, Refuse, findExistingRazorpayRefund,
        LookupFails, RefundCreated, RefundErrors, LookupAfterError, Revert,
        FetchRefund, MarkFailed, Persist, Crash
  <1>4. CASE env' = [env EXCEPT !.late = @ + 1] \/ env' = [env EXCEPT !.late = @ - 1]
    BY <1>4
  <1>5. ASSUME NEW q \in Refunds, Deliver(q) PROVE UNCHANGED env
    BY <1>5
    DEF Deliver, claimWebhookEvent, RefundWebhook, RefundWebhookBooks,
        RefundWebhookBookingFails, RefundWebhookFails, RefundWebhookCrash
  <1>6. CASE World
    BY <1>1, <1>4, <1>6 DEF World, LateRequestArrives, TwoMinutesPass,
                            RazorpayProcesses, RazorpayFails
  <1>7. CASE UNCHANGED vars
    BY <1>1, <1>7 DEF vars
  <1> QED BY <1>1, <1>2, <1>3, <1>4, <1>5, <1>6, <1>7 DEF Next

(* What a step leaves of a request's right to act, and what it may do to   *)
(* the order, without putting the single refund at risk.                   *)
ActingKept(w) ==
  /\ HoldsClaim(w)' =>
       /\ HoldsClaim(w)
       /\ pc'[w] \in {"refund", "revert"} => Live = {}
  /\ Acting(w)' /\ pc'[w] = "persist" => req'[w].refund \in Live

OrderKept ==
  \/ /\ order'.refund_status = order.refund_status
     /\ order'.refund_reference = order.refund_reference
     /\ order'.stale = order.stale \/ ~order'.stale
        \/ \A w \in Workers : ~HoldsClaim(w)'
  \/ Live = {} /\ \A w \in Workers : ~HoldsClaim(w)'
  \/ /\ Live # {} /\ Live \subseteq {order'.refund_reference}
     /\ order'.refund_status \in {"initiated", "completed"}
     /\ ~order'.stale

LEMMA CalmKept ==
  ASSUME Single, Claims, OrderKept, \A w \in Workers : ActingKept(w),
         Live' = Live, FailureUnheard' => FailureUnheard
  PROVE  Single' /\ Claims'
  <1>1. \A w \in Workers : HoldsClaim(w)' => HoldsClaim(w)
    BY DEF ActingKept
  <1>2. Single'
    BY DEF Single, OrderKept, InProgress
  <1>3. \A w \in Workers : HoldsClaim(w)' =>
          /\ ~order'.stale /\ ~FailureUnheard'
          /\ order'.refund_status \in InProgress
          /\ order'.refund_status # "processing" => Live' # {}
    BY <1>1 DEF Claims, OrderKept, InProgress
  <1> QED BY <1>1, <1>2, <1>3 DEF Claims, ActingKept

LEMMA ActingStays ==
  ASSUME Claims, NEW w \in Workers, pc'[w] = pc[w], req'[w] = req[w]
  PROVE  ActingKept(w)
  BY DEF Claims, ActingKept, HoldsClaim, Acting

LEMMA SameRefunds ==
  /\ UNCHANGED rzp => Live' = Live
  /\ UNCHANGED <<rzp, hook>> => FailureUnheard' = FailureUnheard
  BY DEF Live, FailureUnheard

(* The columns the invariant reads, after each UPDATE.                     *)
LEMMA ClaimAfterUpdate ==
  ASSUME order \in OrderRow, NEW s, NEW a, NEW i, NEW r
  PROVE  /\ LET n == [order EXCEPT !.inspection_status = i, !.stale = FALSE]
            IN  /\ n.refund_status = order.refund_status
                /\ n.refund_reference = order.refund_reference
                /\ ~n.stale
         /\ LET n == [order EXCEPT !.shipment = "active", !.stale = FALSE]
            IN  /\ n.refund_status = order.refund_status
                /\ n.refund_reference = order.refund_reference
                /\ ~n.stale
         /\ LET n == [order EXCEPT !.shipment = "cancelled",
                                   !.order_status = "cancelled", !.stale = FALSE]
            IN  /\ n.refund_status = order.refund_status
                /\ n.refund_reference = order.refund_reference
                /\ ~n.stale
         /\ LET n == [order EXCEPT !.stale = TRUE]
            IN  /\ n.refund_status = order.refund_status
                /\ n.refund_reference = order.refund_reference
         /\ LET n == [order EXCEPT !.refund_status = s, !.stale = FALSE]
            IN  n.refund_status = s /\ ~n.stale
         /\ CompletedBy(r).refund_status = "completed"
         /\ CompletedBy(r).refund_reference = r /\ ~CompletedBy(r).stale
         /\ InitiatedBy(r).refund_status = "initiated"
         /\ InitiatedBy(r).refund_reference = r /\ ~InitiatedBy(r).stale
  BY DEF OrderRow, CompletedBy, InitiatedBy

LEMMA CalmDecide ==
  ASSUME TypeOK, Single, Claims, Decide
  PROVE  Single' /\ Claims'
  <1>1. order \in OrderRow
    BY DEF TypeOK
  <1>2. UNCHANGED <<rzp, pc, req, hook>>
    BY DEF Decide, approveInspection, rejectInspection, approveRefund,
           rejectRefund, createShipment, cancelShipment
  <1>3. \A w \in Workers : ActingKept(w) /\ HoldsClaim(w)' = HoldsClaim(w)
    BY <1>2, ActingStays DEF HoldsClaim, Acting
  <1>4. OrderKept
    <2>1. CASE order.refund_status \notin InProgress
      BY <1>3, <2>1 DEF Single, Claims, OrderKept
    <2>2. CASE approveInspection
      BY <1>1, <2>2, ClaimAfterUpdate DEF approveInspection, OrderKept
    <2>3. CASE rejectInspection
      BY <1>1, <2>3, ClaimAfterUpdate DEF rejectInspection, OrderKept
    <2>4. CASE createShipment
      BY <1>1, <2>4, ClaimAfterUpdate DEF createShipment, OrderKept
    <2>5. CASE cancelShipment
      BY <1>1, <2>5, ClaimAfterUpdate DEF cancelShipment, OrderKept
    <2> QED
      BY <2>1, <2>2, <2>3, <2>4, <2>5
      DEF Decide, approveRefund, rejectRefund, InProgress
  <1> QED BY <1>2, <1>3, <1>4, CalmKept, SameRefunds

(* A claim: no refund can be created under it but by its holder.           *)
LEMMA CalmClaim ==
  ASSUME TypeOK, Single, Claims, Calm, NEW w \in Workers, Claim(w)
  PROVE  Single' /\ Claims'
  <1>1. /\ order \in OrderRow
        /\ pc \in [Workers -> Step] /\ req \in [Workers -> Request]
    BY DEF TypeOK
  <1>2. /\ order' = [order EXCEPT !.refund_status = "processing", !.stale = FALSE]
        /\ MayClaim /\ ~FailureUnheard
        /\ Goto(w, "lookup") /\ UNCHANGED <<rzp, hook>>
    BY DEF Claim, Calm
  <1>3. order'.refund_status = "processing" /\ ~order'.stale
    BY <1>1, <1>2, ClaimAfterUpdate
  <1>4. \A v \in Workers : ~HoldsClaim(v)
    BY <1>2 DEF MayClaim, Claims, InProgress
  <1>5. pc'[w] = "lookup"
    BY <1>1, <1>2 DEF Goto
  <1>6. ASSUME NEW v \in Workers, v # w
        PROVE  /\ ~HoldsClaim(v)'
               /\ Acting(v)' /\ pc'[v] = "persist" => req'[v].refund \in Live
    <2>1. pc'[v] = pc[v] /\ req'[v] = req[v]
      BY <1>6, OthersStay DEF Work
    <2> QED BY <1>4, <2>1, ActingStays DEF ActingKept
  <1>7. Live' = Live /\ FailureUnheard' = FailureUnheard
    BY <1>2, SameRefunds
  <1>8. Single'
    BY <1>3, <1>7 DEF Single, InProgress
  <1> QED
    BY <1>2, <1>3, <1>5, <1>6, <1>7, <1>8 DEF Claims, InProgress

(* A refund is created by the holder of the claim, and is the only one.    *)
LEMMA CalmCreate ==
  ASSUME TypeOK, Modes, Single, Claims, NEW w \in Workers, RefundCreated(w)
  PROVE  Single' /\ Claims'
  <1>1. /\ pc \in [Workers -> Step] /\ req \in [Workers -> Request]
        /\ rzp \in [Refunds -> {"none", "pending", "processed", "failed"}]
    BY DEF TypeOK
  <1>2. pc[w] = "refund" /\ UNCHANGED <<order, hook>>
    BY DEF RefundCreated
  <1>3. HoldsClaim(w)
    BY <1>2 DEF Modes, HoldsClaim, Acting
  <1>4. /\ Live = {} /\ ~FailureUnheard /\ ~order.stale
        /\ order.refund_status = "processing"
    BY <1>2, <1>3 DEF Claims
  <1>5. PICK r \in Refunds :
          /\ rzp[r] = "none" /\ rzp' = [rzp EXCEPT ![r] = "pending"]
          /\ \/ Found(w, r)
             \/ Goto(w, "relookup") /\ UNCHANGED req
    BY DEF RefundCreated, Issue
  <1>6. Live' = {r}
    BY <1>1, <1>4, <1>5 DEF Live
  <1>7. ~FailureUnheard'
    BY <1>1, <1>2, <1>4, <1>5 DEF FailureUnheard
  <1>8. ASSUME NEW v \in Workers, v # w
        PROVE  /\ ~HoldsClaim(v)'
               /\ ~(Acting(v)' /\ pc'[v] = "persist")
    <2>1. pc'[v] = pc[v] /\ req'[v] = req[v]
      BY <1>8, OthersStay DEF Work
    <2> QED
      BY <1>3, <1>4, <1>8, <2>1 DEF Claims, HoldsClaim, Acting
  <1>9. /\ pc'[w] \in {"persist", "relookup"}
        /\ pc'[w] = "persist" => req'[w].refund = r
    BY <1>1, <1>5 DEF Found, Goto, Remember
  <1>10. Single'
    BY <1>2, <1>4, <1>6, <1>7 DEF Single, InProgress
  <1> QED
    BY <1>2, <1>4, <1>6, <1>7, <1>8, <1>9, <1>10 DEF Claims, InProgress

(* Razorpay fails the only refund while no request acts.                   *)
LEMMA CalmFailure ==
  ASSUME TypeOK, Single, Claims, Calm, NEW r \in Refunds, RazorpayFails(r)
  PROVE  Single' /\ Claims'
  <1>1. /\ rzp[r] = "pending" /\ rzp' = [rzp EXCEPT ![r] = "failed"]
        /\ UNCHANGED <<order, pc, req>>
        /\ \A w \in Workers : ~Acting(w)
    BY DEF RazorpayFails, Calm
  <1>2. Live' = {}
    BY <1>1 DEF TypeOK, Live, Single
  <1>3. \A w \in Workers : ~Acting(w)' /\ ~HoldsClaim(w)'
    BY <1>1 DEF HoldsClaim, Acting
  <1> QED BY <1>2, <1>3 DEF Single, Claims

(* The other steps of a request. *)
LEMMA CalmRequest ==
  ASSUME TypeOK, Remembered, Modes, Single, Claims, Calm,
         NEW w \in Workers, Work(w)
  PROVE  Single' /\ Claims'
  <1>1. /\ order \in OrderRow
        /\ pc \in [Workers -> Step] /\ req \in [Workers -> Request]
        /\ req[w].mode \in Mode
    BY Requests DEF TypeOK
  <1>2. CASE Claim(w)
    BY <1>2, CalmClaim
  <1>3. CASE RefundCreated(w)
    BY <1>3, CalmCreate
  <1> SUFFICES ASSUME ~Claim(w), ~RefundCreated(w)
               PROVE  Single' /\ Claims'
    BY <1>2, <1>3
  <1>4. UNCHANGED <<rzp, hook>>
    BY DEF Work, CancelSnapshot, verifyRazorpayPaymentForOrder, CancelLocked,
           Recheck, AdoptOnly, Refuse, findExistingRazorpayRefund, LookupFails,
           RefundErrors, LookupAfterError, Revert, FetchRefund, MarkFailed,
           Persist, Crash
  <1>5. \A v \in Workers :
          v # w => ActingKept(v) /\ HoldsClaim(v)' = HoldsClaim(v)
    BY OthersStay, ActingStays DEF HoldsClaim, Acting
  <1>6. SUFFICES ActingKept(w) /\ OrderKept
    BY <1>4, <1>5, SameRefunds, CalmKept
  <1>7. UNCHANGED order => OrderKept
    BY DEF OrderKept
  <1>8. ~Acting(w)' => ActingKept(w)
    BY DEF ActingKept, HoldsClaim
  <1>9. CASE \/ CancelSnapshot(w) \/ verifyRazorpayPaymentForOrder(w)
             \/ Refuse(w) \/ Crash(w)
    <2>1. ~Acting(w)' /\ UNCHANGED order
      BY <1>1, <1>9 DEF CancelSnapshot, verifyRazorpayPaymentForOrder, Refuse,
                        Crash, Goto, End, Acting
    <2> QED BY <1>7, <1>8, <2>1
  <1>10. CASE Recheck(w) \/ FetchRefund(w)
    <2>1. ~Acting(w)' /\ UNCHANGED order
      BY <1>1, <1>10 DEF Recheck, FetchRefund, Goto, Remember, Acting
    <2> QED BY <1>7, <1>8, <2>1
  <1>11. CASE AdoptOnly(w)
    BY <1>1, <1>7, <1>11
    DEF AdoptOnly, Goto, Remember, ActingKept, HoldsClaim, Acting
  <1>12. CASE CancelLocked(w)
    <2>1. ~Acting(w)' /\ pc[w] = "cancel"
      BY <1>1, <1>12 DEF CancelLocked, Goto, Acting
    <2>2. CASE OnlyDelegate
      BY <1>7, <1>8, <1>12, <2>1, <2>2 DEF CancelLocked
    <2>3. CASE ~OnlyDelegate
      <3>1. order.refund_status \notin InProgress
        BY <2>3 DEF OnlyDelegate
      <3>2. Live = {} /\ \A v \in Workers : ~HoldsClaim(v)
        BY <3>1 DEF Single, Claims
      <3>3. \A v \in Workers : ~HoldsClaim(v)'
        BY <1>5, <2>1, <3>2 DEF HoldsClaim
      <3> QED BY <1>8, <2>1, <3>2, <3>3 DEF OrderKept
    <2> QED BY <2>2, <2>3
  <1>13. CASE findExistingRazorpayRefund(w) \/ LookupAfterError(w)
    <2>1. UNCHANGED order /\ pc[w] \in {"lookup", "relookup"}
      BY <1>13 DEF findExistingRazorpayRefund, LookupAfterError
    <2>2. Acting(w)
      BY <2>1 DEF Modes, Acting
    <2>3. \/ \E r \in Live : Found(w, r)
          \/ /\ Live = {} /\ UNCHANGED req
             /\ Goto(w, "refund") \/ Goto(w, "revert")
          \/ End(w)
      BY <1>13 DEF findExistingRazorpayRefund, LookupAfterError
    <2>4. CASE \E r \in Live : Found(w, r)
      <3>1. /\ pc'[w] = "persist" /\ req'[w].refund \in Live
            /\ req'[w].mode = req[w].mode
        BY <1>1, <2>4 DEF Found, Goto, Remember
      <3> QED BY <1>7, <2>1, <2>2, <3>1 DEF ActingKept, HoldsClaim
    <2>5. CASE /\ Live = {} /\ UNCHANGED req
               /\ Goto(w, "refund") \/ Goto(w, "revert")
      <3>1. pc'[w] \in {"refund", "revert"} /\ req'[w] = req[w]
        BY <1>1, <2>5 DEF Goto
      <3> QED BY <1>7, <2>1, <2>2, <2>5, <3>1 DEF ActingKept, HoldsClaim
    <2>6. CASE End(w)
      BY <1>1, <1>7, <1>8, <2>1, <2>6 DEF End, Goto, Acting
    <2> QED BY <2>3, <2>4, <2>5, <2>6
  <1>14. CASE LookupFails(w) \/ RefundErrors(w)
    <2>1. UNCHANGED order /\ pc[w] \in {"lookup", "refund"}
      BY <1>14 DEF LookupFails, RefundErrors
    <2>2. Acting(w)
      BY <2>1 DEF Modes, Acting
    <2>3. \/ pc'[w] = "relookup" /\ req'[w] = req[w]
          \/ pc'[w] = "idle"
      BY <1>1, <1>14 DEF LookupFails, RefundErrors, Goto, End
    <2> QED
      BY <1>7, <1>8, <2>1, <2>2, <2>3 DEF ActingKept, HoldsClaim, Acting
  <1>15. CASE Revert(w)
    <2>1. ~Acting(w)' /\ pc[w] = "revert"
      BY <1>1, <1>15 DEF Revert, End, Goto, Acting
    <2>2. HoldsClaim(w)
      BY <2>1 DEF Modes, HoldsClaim, Acting
    <2>3. Live = {} /\ \A v \in Workers : v # w => ~HoldsClaim(v)
      BY <2>1, <2>2 DEF Claims
    <2>4. \A v \in Workers : ~HoldsClaim(v)'
      BY <1>5, <2>1, <2>3 DEF HoldsClaim
    <2> QED BY <1>8, <2>1, <2>3, <2>4 DEF OrderKept
  <1>16. CASE MarkFailed(w)
    <2>1. ~Acting(w)' /\ pc[w] = "mark_failed"
      BY <1>1, <1>16 DEF MarkFailed, End, Goto, Acting
    <2>2. CASE /\ order.refund_status = "initiated"
               /\ order.refund_reference = req[w].refund
      <3>1. rzp[req[w].refund] = "failed"
        BY <2>1 DEF Modes
      <3>2. Live = {}
        BY <2>2, <3>1 DEF Single, Live
      <3>3. \A v \in Workers : ~HoldsClaim(v)
        BY <2>2, <3>2 DEF Claims
      <3>4. \A v \in Workers : ~HoldsClaim(v)'
        BY <1>5, <2>1, <3>3 DEF HoldsClaim
      <3> QED BY <1>8, <2>1, <3>2, <3>4 DEF OrderKept
    <2> QED BY <1>7, <1>8, <1>16, <2>1, <2>2 DEF MarkFailed
  <1>17. CASE Persist(w)
    <2> DEFINE r == req[w].refund
    <2>1. ~Acting(w)' /\ pc[w] = "persist"
      BY <1>1, <1>17 DEF Persist, End, Goto, Acting
    <2>2. CASE Superseded(w)
      BY <1>7, <1>8, <1>17, <2>1, <2>2 DEF Persist
    <2>3. CASE ~Superseded(w)
      <3>1. order' \in {CompletedBy(r), InitiatedBy(r)}
        BY <1>17, <2>3 DEF Persist
      <3>2. /\ order'.refund_status \in {"initiated", "completed"}
            /\ order'.refund_reference = r /\ ~order'.stale
        BY <1>1, <3>1, ClaimAfterUpdate
      <3>3. CASE req[w].mode # "recheck"
        <4>1. r \in Live
          BY <2>1, <3>3 DEF Claims, Acting
        <4> QED BY <1>8, <2>1, <3>2, <4>1 DEF OrderKept, Single
      <3>4. CASE req[w].mode = "recheck"
        <4>1. order.refund_status = "initiated" /\ order.refund_reference = r
          BY <2>3, <3>4 DEF Superseded
        <4>2. CASE Live = {}
          <5>1. \A v \in Workers : ~HoldsClaim(v)
            BY <4>1, <4>2 DEF Claims
          <5> QED BY <1>5, <1>8, <2>1, <4>2, <5>1 DEF OrderKept, HoldsClaim
        <4>3. CASE Live # {}
          BY <1>8, <2>1, <3>2, <4>1, <4>3 DEF OrderKept, Single
        <4> QED BY <4>2, <4>3
      <3> QED BY <3>3, <3>4
    <2> QED BY <2>2, <2>3
  <1> QED
    BY <1>9, <1>10, <1>11, <1>12, <1>13, <1>14, <1>15, <1>16, <1>17 DEF Work

(* A webhook that fails the order, or completes it, tells of the only      *)
(* refund there is.                                                        *)
LEMMA CalmDeliver ==
  ASSUME TypeOK, Heard, Single, Claims, NEW r \in Refunds, Deliver(r)
  PROVE  Single' /\ Claims'
  <1>1. order \in OrderRow
    BY DEF TypeOK
  <1>2. UNCHANGED <<rzp, pc, req>>
    BY DEF Deliver, claimWebhookEvent, RefundWebhook, RefundWebhookBooks,
           RefundWebhookBookingFails, RefundWebhookFails, RefundWebhookCrash
  <1>3. \A w \in Workers : ActingKept(w) /\ HoldsClaim(w)' = HoldsClaim(w)
    BY <1>2, ActingStays DEF HoldsClaim, Acting
  <1>4. FailureUnheard' => FailureUnheard
    <2>1. \E s \in HookStatus : hook' = [hook EXCEPT ![r] = s]
      BY DEF Deliver, claimWebhookEvent, RefundWebhook, RefundWebhookBooks,
             RefundWebhookBookingFails, RefundWebhookFails, RefundWebhookCrash,
             HookStatus
    <2>2. hook[r] \notin {"completed", "stranded"}
      BY DEF Deliver, claimWebhookEvent, RefundWebhook, RefundWebhookBooks,
             RefundWebhookBookingFails, RefundWebhookFails, RefundWebhookCrash
    <2> QED BY <1>2, <2>1, <2>2 DEF TypeOK, FailureUnheard
  <1>5. UNCHANGED order => OrderKept
    BY DEF OrderKept
  <1>6. CASE RefundWebhook(r) /\ Matches(r)
    <2>1. hook[r] = "claimed" /\ order.refund_status \in {"initiated", "processing"}
      BY <1>6 DEF RefundWebhook, Matches
    <2>2. CASE rzp[r] = "processed"
      <3>1. order' = CompletedBy(r)
        BY <1>6, <2>2 DEF RefundWebhook
      <3>2. r \in Live
        BY <2>2 DEF Live
      <3>3. /\ order'.refund_status = "completed"
            /\ order'.refund_reference = r /\ ~order'.stale
        BY <1>1, <3>1, ClaimAfterUpdate
      <3>4. OrderKept
        BY <3>2, <3>3 DEF OrderKept, Single
      <3> QED BY <1>2, <1>3, <1>4, <3>4, SameRefunds, CalmKept
    <2>3. CASE rzp[r] # "processed"
      <3>1. FailureUnheard
        BY <2>1, <2>3 DEF Heard, FailureUnheard
      <3>2. Live = {} /\ \A w \in Workers : ~HoldsClaim(w)
        BY <3>1 DEF Single, Claims
      <3>3. OrderKept
        BY <1>3, <3>2 DEF OrderKept
      <3> QED BY <1>2, <1>3, <1>4, <3>3, SameRefunds, CalmKept
    <2> QED BY <2>2, <2>3
  <1>7. CASE UNCHANGED order
    BY <1>2, <1>3, <1>4, <1>5, <1>7, SameRefunds, CalmKept
  <1> QED
    BY <1>6, <1>7
    DEF Deliver, claimWebhookEvent, RefundWebhook, RefundWebhookBooks,
        RefundWebhookBookingFails, RefundWebhookFails, RefundWebhookCrash

LEMMA CalmWorld ==
  ASSUME TypeOK, Single, Claims, Calm, World
  PROVE  Single' /\ Claims'
  <1>1. order \in OrderRow /\ ~LateRequestArrives
    BY DEF TypeOK, EnvType, Calm, LateRequestArrives
  <1>2. CASE TwoMinutesPass
    <2>1. /\ order' = [order EXCEPT !.stale = TRUE]
          /\ UNCHANGED <<rzp, pc, req, hook>>
          /\ \A w \in Workers : ~HoldsClaim(w)
      BY <1>2 DEF TwoMinutesPass, Calm
    <2>2. \A w \in Workers : ActingKept(w) /\ ~HoldsClaim(w)'
      BY <2>1, ActingStays DEF HoldsClaim, Acting
    <2>3. OrderKept
      BY <1>1, <2>1, <2>2, ClaimAfterUpdate DEF OrderKept
    <2> QED BY <2>1, <2>2, <2>3, SameRefunds, CalmKept
  <1>3. ASSUME NEW r \in Refunds, RazorpayProcesses(r) PROVE Single' /\ Claims'
    <2>1. /\ rzp[r] = "pending" /\ rzp' = [rzp EXCEPT ![r] = "processed"]
          /\ hook' = [hook EXCEPT ![r] = "sent"]
          /\ UNCHANGED <<order, pc, req>>
      BY <1>3 DEF RazorpayProcesses
    <2>2. Live' = Live /\ (FailureUnheard' => FailureUnheard)
      BY <2>1 DEF TypeOK, Live, FailureUnheard
    <2>3. OrderKept /\ \A w \in Workers : ActingKept(w)
      BY <2>1, ActingStays DEF OrderKept
    <2> QED BY <2>2, <2>3, CalmKept
  <1>4. ASSUME NEW r \in Refunds, RazorpayFails(r) PROVE Single' /\ Claims'
    BY <1>4, CalmFailure
  <1> QED BY <1>1, <1>2, <1>3, <1>4 DEF World

LEMMA CalmInvInit == Init => CalmInv
  <1> SUFFICES ASSUME Init PROVE CalmInv
    OBVIOUS
  <1>1. Live = {} /\ ~FailureUnheard
    BY DEF Init, Live, FailureUnheard
  <1>2. \A w \in Workers : ~Acting(w) /\ ~HoldsClaim(w)
    BY DEF Init, HoldsClaim, Acting
  <1>3. order.refund_status = "none"
    <2>1. ReadyOrder.refund_status = "none"
      BY DEF ReadyOrder
    <2>2. ReturnedOrder.refund_status = "none"
      BY DEF ReadyOrder, ReturnedOrder
    <2> QED BY <2>1, <2>2 DEF Init
  <1>4. Heard /\ Modes
    BY DEF Init, Heard, Modes
  <1> QED BY <1>1, <1>2, <1>3, <1>4, CompletedInvInit DEF CalmInv, Single, Claims

LEMMA CalmInvStep == CalmInv /\ [Next]_vars => CalmInv'
  <1> SUFFICES ASSUME CalmInv, [Next]_vars PROVE CalmInv'
    OBVIOUS
  <1>1. /\ CompletedInv /\ TypeOK /\ Remembered /\ Heard /\ Modes
        /\ Calm => Single /\ Claims
    BY DEF CalmInv, CompletedInv
  <1>2. SUFFICES ASSUME Calm, Single, Claims
                 PROVE  Single' /\ Claims'
    BY <1>1, CompletedInvStep, HeardStep, ModesStep, EnvFixed DEF CalmInv
  <1>3. CASE UNCHANGED vars
    BY <1>2, <1>3, ActingStays, SameRefunds, CalmKept DEF vars, OrderKept
  <1> QED
    BY <1>1, <1>2, <1>3, CalmDecide, CalmRequest, CalmDeliver, CalmWorld DEF Next

(* A set in which any two elements are the same has at most one.           *)
LEMMA AtMostOne ==
  ASSUME NEW S, \A r, s \in S : r = s
  PROVE  /\ Cardinality(S) \in {0, 1}
         /\ (Cardinality(S) = 0) = (S = {})
  <1>1. CASE S = {}
    BY <1>1, FS_EmptySet
  <1>2. CASE S # {}
    <2>1. PICK r \in S : S = {r}
      BY <1>2
    <2> QED BY <2>1, FS_Singleton
  <1> QED BY <1>1, <1>2

(* In a calm world no customer is refunded twice and no refund is lost     *)
(* sight of: for any number of admins asking at once, and for crashes,     *)
(* lost answers and failed writes at any point.                            *)
THEOREM CalmRefundsOnce == Spec => []CalmRefundIsSingle
  <1>1. CalmInv => CalmRefundIsSingle
    BY AtMostOne
    DEF CalmInv, CalmRefundIsSingle, AtMostOneLiveRefund, LiveRefundIsTracked,
        Single
  <1> QED BY <1>1, CalmInvInit, CalmInvStep, PTL DEF Spec

-----------------------------------------------------------------------------
(* The promise.                                                            *)
(*                                                                         *)
(* Razorpay's creation of a refund is the promise's Send, its failure a    *)
(* Bounce; the step that completes the order is Refunded, rejectRefund is  *)
(* Rejected, and every other step is invisible to the customer.            *)

LEMMA OutcomeIs ==
  /\ order.refund_status = "completed" => Outcome = "refunded"
  /\ order.refund_status = "rejected" => Outcome = "rejected"
  /\ order.refund_status \notin {"completed", "rejected"} => Outcome = "open"
  BY DEF Outcome

LEMMA OutcomeBecomes ==
  /\ order'.refund_status = "completed" => Outcome' = "refunded"
  /\ order'.refund_status = "rejected" => Outcome' = "rejected"
  /\ order'.refund_status \notin {"completed", "rejected"} => Outcome' = "open"
  BY DEF Outcome

(* Only an admin's decision rejects a refund, and a rejection is final: a  *)
(* refund about to be written down is live, so the order is not rejected.  *)
Ruled ==
  \/ order'.refund_status = order.refund_status
  \/ order.refund_status # "rejected" /\ order'.refund_status # "rejected"
  \/ rejectRefund

LEMMA RejectedIsFinal ==
  ASSUME CompletedInv, Single, Claims, [Next]_vars
  PROVE  Ruled
  <1>1. order \in OrderRow
    BY DEF CompletedInv, TypeOK
  <1>2. UNCHANGED order => Ruled
    BY DEF Ruled
  <1>3. CASE Decide
    <2>1. CASE approveRefund
      <3>1. PICK a \in 1..Paid :
              order' = [order EXCEPT !.refund_status = "approved",
                                     !.refund_amount = a, !.stale = FALSE]
        BY <2>1 DEF approveRefund
      <3>2. order'.refund_status = "approved"
        BY <1>1, <3>1, ColumnsAfterUpdate
      <3> QED BY <2>1, <3>2 DEF approveRefund, Ruled
    <2>2. CASE approveInspection
      BY <1>1, <2>2, ColumnsAfterUpdate DEF approveInspection, Ruled
    <2>3. CASE rejectInspection
      BY <1>1, <2>3, ColumnsAfterUpdate DEF rejectInspection, Ruled
    <2>4. CASE createShipment
      BY <1>1, <2>4, ColumnsAfterUpdate DEF createShipment, Ruled
    <2>5. CASE cancelShipment
      BY <1>1, <2>5, ColumnsAfterUpdate DEF cancelShipment, Ruled
    <2> QED BY <1>3, <2>1, <2>2, <2>3, <2>4, <2>5 DEF Decide, Ruled
  <1>4. ASSUME NEW w \in Workers, Work(w) PROVE Ruled
    <2>1. CASE CancelLocked(w) /\ ~ UNCHANGED order
      <3>1. /\ order' = [order EXCEPT !.order_status = "cancelled",
                                      !.refund_status = "approved",
                                      !.refund_amount = Paid, !.stale = FALSE]
            /\ order.refund_status # "rejected"
        BY <2>1 DEF CancelLocked, evaluateCancelRefundEligibility
      <3>2. order'.refund_status = "approved"
        BY <1>1, <3>1, ColumnsAfterUpdate
      <3> QED BY <3>1, <3>2 DEF Ruled
    <2>2. CASE Claim(w)
      BY <1>1, <2>2, ColumnsAfterUpdate DEF Claim, MayClaim, Ruled
    <2>3. CASE Revert(w)
      BY <1>1, <1>2, <2>3, ColumnsAfterUpdate DEF Revert, Ruled
    <2>4. CASE MarkFailed(w)
      BY <1>1, <1>2, <2>4, ColumnsAfterUpdate DEF MarkFailed, Ruled
    <2>5. CASE Persist(w)
      <3> DEFINE r == req[w].refund
      <3>1. CASE Superseded(w)
        BY <1>2, <2>5, <3>1 DEF Persist
      <3>2. CASE ~Superseded(w)
        <4>1. order' \in {CompletedBy(r), InitiatedBy(r)} /\ pc[w] = "persist"
          BY <2>5, <3>2 DEF Persist
        <4>2. order'.refund_status \in {"completed", "initiated"}
          BY <1>1, <4>1, ColumnsAfterOutcome
        <4>3. req[w].mode # "recheck" => Live # {}
          BY <4>1 DEF Claims, Acting
        <4>4. order.refund_status # "rejected"
          BY <3>2, <4>3 DEF Superseded, Single, InProgress
        <4> QED BY <4>2, <4>4 DEF Ruled
      <3> QED BY <3>1, <3>2
    <2>6. CASE UNCHANGED order
      BY <1>2, <2>6
    <2> QED
      BY <1>4, <2>1, <2>2, <2>3, <2>4, <2>5, <2>6
      DEF Work, CancelSnapshot, verifyRazorpayPaymentForOrder, Recheck,
          AdoptOnly, Refuse, findExistingRazorpayRefund, LookupFails,
          RefundCreated, RefundErrors, LookupAfterError, FetchRefund, Crash
  <1>5. ASSUME NEW r \in Refunds, Deliver(r) PROVE Ruled
    <2>1. CASE RefundWebhook(r) /\ Matches(r)
      <3>1. /\ order' \in {CompletedBy(r), FailedBy(r)}
            /\ order.refund_status # "rejected"
        BY <2>1 DEF RefundWebhook, Matches
      <3>2. order'.refund_status \in {"completed", "failed"}
        BY <1>1, <3>1, ColumnsAfterOutcome
      <3> QED BY <3>1, <3>2 DEF Ruled
    <2>2. CASE UNCHANGED order
      BY <1>2, <2>2
    <2> QED
      BY <1>5, <2>1, <2>2
      DEF Deliver, claimWebhookEvent, RefundWebhook, RefundWebhookBooks,
          RefundWebhookBookingFails, RefundWebhookFails, RefundWebhookCrash
  <1>6. CASE World
    <2>1. CASE TwoMinutesPass
      BY <1>1, <2>1, ColumnsAfterUpdate DEF TwoMinutesPass, Ruled
    <2>2. CASE UNCHANGED order
      BY <1>2, <2>2
    <2> QED
      BY <1>6, <2>1, <2>2
      DEF World, LateRequestArrives, RazorpayProcesses, RazorpayFails
  <1>7. CASE UNCHANGED vars
    BY <1>2, <1>7 DEF vars
  <1> QED BY <1>3, <1>4, <1>5, <1>6, <1>7 DEF Next

(* What a step may do to the set of live refunds.                          *)
LEMMA LiveMoves ==
  ASSUME CompletedInv, Modes, Single, Claims, Calm, [Next]_vars
  PROVE  \/ UNCHANGED rzp
         \/ Live' = Live /\ UNCHANGED order
         \/ /\ UNCHANGED order /\ order.refund_status = "processing"
            /\ Live = {} /\ Live' # {}
         \/ /\ UNCHANGED order /\ order.refund_status \in {"processing", "initiated"}
            /\ Live # {} /\ Live' = {}
  <1>1. TypeOK
    BY DEF CompletedInv
  <1> DEFINE Moves ==
         \/ UNCHANGED rzp
         \/ Live' = Live /\ UNCHANGED order
         \/ /\ UNCHANGED order /\ order.refund_status = "processing"
            /\ Live = {} /\ Live' # {}
         \/ /\ UNCHANGED order /\ order.refund_status \in {"processing", "initiated"}
            /\ Live # {} /\ Live' = {}
  <1> SUFFICES Moves
    OBVIOUS
  <1>2. ASSUME NEW w \in Workers, RefundCreated(w) PROVE Moves
    <2>1. pc[w] = "refund" /\ UNCHANGED order
      BY <1>2 DEF RefundCreated
    <2>2. HoldsClaim(w)
      BY <2>1 DEF Modes, HoldsClaim, Acting
    <2>3. Live = {} /\ order.refund_status = "processing"
      BY <2>1, <2>2 DEF Claims
    <2>4. PICK r \in Refunds : rzp' = [rzp EXCEPT ![r] = "pending"]
      BY <1>2 DEF RefundCreated, Issue
    <2>5. r \in Live'
      BY <1>1, <2>4 DEF TypeOK, Live
    <2> QED BY <2>1, <2>3, <2>5
  <1>3. ASSUME NEW r \in Refunds, RazorpayProcesses(r) PROVE Moves
    <2>1. UNCHANGED order /\ Live' = Live
      BY <1>1, <1>3 DEF RazorpayProcesses, TypeOK, Live
    <2> QED BY <2>1
  <1>4. ASSUME NEW r \in Refunds, RazorpayFails(r) PROVE Moves
    <2>1. /\ rzp[r] = "pending" /\ rzp' = [rzp EXCEPT ![r] = "failed"]
          /\ UNCHANGED order
      BY <1>4 DEF RazorpayFails
    <2>2. r \in Live
      BY <2>1 DEF Live
    <2>3. Live' = {}
      BY <1>1, <2>1, <2>2 DEF TypeOK, Live, Single
    <2>4. order.refund_status # "completed"
      <3>1. SUFFICES ASSUME order.refund_status = "completed" PROVE FALSE
        OBVIOUS
      <3>2. rzp[order.refund_reference] = "processed"
            /\ order.refund_reference \in Refunds
        BY <3>1 DEF CompletedInv, CompletedIsProcessed
      <3> QED BY <2>1, <2>2, <3>2 DEF Single, Live
    <2>5. order.refund_status \in {"processing", "initiated"}
      BY <2>2, <2>4 DEF Single, InProgress
    <2> QED BY <2>1, <2>2, <2>3, <2>5
  <1>5. ~LateRequestArrives
    BY <1>1 DEF TypeOK, EnvType, Calm, LateRequestArrives
  <1>6. CASE Decide
    BY <1>6 DEF Decide, approveInspection, rejectInspection, approveRefund,
                rejectRefund, createShipment, cancelShipment
  <1>7. ASSUME NEW w \in Workers, Work(w), ~RefundCreated(w) PROVE UNCHANGED rzp
    BY <1>7
    DEF Work, CancelSnapshot, verifyRazorpayPaymentForOrder, CancelLocked,
        Recheck, Claim, AdoptOnly, Refuse, findExistingRazorpayRefund,
        LookupFails, RefundErrors, LookupAfterError, Revert, FetchRefund,
        MarkFailed, Persist, Crash
  <1>8. ASSUME NEW r \in Refunds, Deliver(r) PROVE UNCHANGED rzp
    BY <1>8
    DEF Deliver, claimWebhookEvent, RefundWebhook, RefundWebhookBooks,
        RefundWebhookBookingFails, RefundWebhookFails, RefundWebhookCrash
  <1>9. CASE TwoMinutesPass \/ UNCHANGED vars
    BY <1>9 DEF TwoMinutesPass, vars
  <1> QED
    BY <1>2, <1>3, <1>4, <1>5, <1>6, <1>7, <1>8, <1>9 DEF Next, World

LEMMA PromiseInit == Init => Promise!Init
  <1> SUFFICES ASSUME Init PROVE Promise!Init
    OBVIOUS
  <1>1. order.refund_status = "none"
    <2>1. ReadyOrder.refund_status = "none"
      BY DEF ReadyOrder
    <2>2. ReturnedOrder.refund_status = "none"
      BY DEF ReadyOrder, ReturnedOrder
    <2> QED BY <2>1, <2>2 DEF Init
  <1>2. Live = {}
    BY DEF Init, Live
  <1> QED BY <1>1, <1>2, OutcomeIs, FS_EmptySet DEF Promise!Init

LEMMA PromiseStep ==
  CalmInv /\ CalmInv' /\ Calm /\ [Next]_vars => [Promise!Next]_(Promise!vars)
  <1> SUFFICES ASSUME CalmInv, CalmInv', Calm, [Next]_vars
               PROVE  [Promise!Next]_(Promise!vars)
    OBVIOUS
  <1> DEFINE moving == Cardinality(Live)
  <1>1. /\ CompletedInv /\ TypeOK /\ Modes /\ Single /\ Claims
        /\ Single'
    BY EnvFixed DEF CalmInv, CompletedInv
  <1>2. /\ moving \in {0, 1} /\ (moving = 0) = (Live = {})
        /\ moving' \in {0, 1} /\ (moving' = 0) = (Live' = {})
    BY <1>1, AtMostOne DEF Single
  <1>3. UNCHANGED order => Outcome' = Outcome
    BY DEF Outcome
  <1>4. Live' = Live => moving' = moving
    OBVIOUS
  <1> HIDE DEF moving
  <1> SUFFICES \/ UNCHANGED <<Outcome, moving>>
               \/ /\ Outcome = "open" /\ moving = 0
                  /\ moving' = 1 /\ UNCHANGED Outcome
               \/ /\ Outcome = "open" /\ moving = 1
                  /\ moving' = 0 /\ UNCHANGED Outcome
               \/ /\ Outcome = "open" /\ moving = 1
                  /\ Outcome' = "refunded" /\ UNCHANGED moving
               \/ /\ Outcome = "open" /\ moving = 0
                  /\ Outcome' = "rejected" /\ UNCHANGED moving
    BY DEF moving, Promise!Next, Promise!vars, Promise!Send, Promise!Bounce,
           Promise!Refunded, Promise!Rejected
  <1>5. CASE UNCHANGED rzp
    <2>1. moving' = moving
      BY <1>4, <1>5, SameRefunds
    <2>2. CASE rejectRefund
      <3>1. /\ order.refund_status \notin InProgress \cup {"rejected"}
            /\ order'.refund_status = "rejected"
        BY <1>1, <2>2, ColumnsAfterUpdate DEF TypeOK, rejectRefund
      <3>2. Live = {}
        BY <1>1, <3>1 DEF Single
      <3> QED
        BY <1>2, <2>1, <3>1, <3>2, OutcomeIs, OutcomeBecomes DEF InProgress
    <2>3. CASE Completes
      <3>1. order'.refund_reference \in Live
        BY <2>3 DEF Completes, Live
      <3>2. order.refund_status \notin {"completed", "rejected"}
        BY <1>1, <2>3, <3>1 DEF Completes, Single, InProgress
      <3> QED
        BY <1>2, <2>1, <2>3, <3>1, <3>2, OutcomeIs, OutcomeBecomes
        DEF Completes
    <2>4. CASE ~rejectRefund /\ ~Completes
      <3>1. Ruled
        BY <1>1, RejectedIsFinal
      <3>2. SameMoney \/ StaysOpen
        BY <1>1, <2>4, MoneySteps DEF MoneyStep
      <3>3. \/ order'.refund_status = order.refund_status
            \/ /\ order.refund_status \notin {"completed", "rejected"}
               /\ order'.refund_status \notin {"completed", "rejected"}
        BY <2>4, <3>1, <3>2 DEF Ruled, SameMoney, StaysOpen
      <3>4. Outcome' = Outcome
        BY <3>3, OutcomeIs, OutcomeBecomes
      <3> QED BY <2>1, <3>4
    <2> QED BY <2>2, <2>3, <2>4
  <1>6. CASE ~ UNCHANGED rzp
    <2>1. \/ Live' = Live /\ UNCHANGED order
          \/ /\ UNCHANGED order /\ order.refund_status = "processing"
             /\ Live = {} /\ Live' # {}
          \/ /\ UNCHANGED order /\ order.refund_status \in {"processing", "initiated"}
             /\ Live # {} /\ Live' = {}
      BY <1>1, <1>6, LiveMoves
    <2> QED BY <1>2, <1>3, <1>4, <2>1, OutcomeIs
  <1> QED BY <1>5, <1>6

(* The refund flow implements the promise: in a calm world every behaviour *)
(* of requests, cron, webhooks and crashes is, to the customer, one of     *)
(* RefundPromise.                                                          *)
THEOREM RefundImplementsPromise == Spec /\ Calm => KeepsPromise
  <1>1. Calm /\ CalmInv /\ [Next]_vars => Calm'
    BY EnvFixed DEF CalmInv, CompletedInv
  <1> QED
    BY <1>1, CalmInvInit, CalmInvStep, PromiseInit, PromiseStep, PTL
    DEF Spec, KeepsPromise, Promise!Spec
-----------------------------------------------------------------------------
(* What InitiatedSettles rests on.                                         *)
(*                                                                         *)
(* An initiated refund exists at Razorpay and the cron may recheck it; it  *)
(* stays initiated until its outcome is written; and the outcome written   *)
(* is Razorpay's. No invariant of the rows alone says so: a request that   *)
(* is to write a refund must have got it from Razorpay, at every phase.    *)

InitiatedIsReal ==
  order.refund_status = "initiated" =>
    MayRecheck /\ rzp[order.refund_reference] # "none"

AskedIsReal ==
  \A w \in Workers : pc[w] \in {"fetch", "persist"} => rzp[req[w].refund] # "none"

RealInv == CalmInv /\ InitiatedIsReal /\ AskedIsReal

(* The refund that a step writes or leaves on an initiated order.          *)
GoesOn ==
  order.refund_status = "initiated" =>
    /\ \/ order'.refund_status = "initiated"
       \/ /\ order'.refund_status = "completed"
          /\ rzp[order'.refund_reference] = "processed"
       \/ /\ order'.refund_status = "failed"
          /\ rzp[order'.refund_reference] = "failed"
    /\ Calm \/ order'.refund_status = "failed" =>
         order'.refund_reference = order.refund_reference

InitiatedGoesOn == [][GoesOn]_vars

(* A step that makes the order initiated, or another refund its own, has   *)
(* got that refund from Razorpay.                                          *)
BecomesReal ==
  order'.refund_status = "initiated" =>
    \/ /\ order.refund_status = "initiated"
       /\ order'.refund_reference = order.refund_reference
    \/ /\ order'.refund_reference \in Refunds
       /\ rzp[order'.refund_reference] # "none"

LEMMA SameGoesOn ==
  ASSUME order'.refund_status = order.refund_status,
         order'.refund_reference = order.refund_reference
  PROVE  GoesOn /\ BecomesReal
  BY DEF GoesOn, BecomesReal

(* Of an initiated order in a calm world, whoever writes a refund writes   *)
(* the order's own.                                                        *)
LEMMA OwnRefund ==
  ASSUME RealInv, Calm, order.refund_status = "initiated",
         NEW w \in Workers, pc[w] = "persist", ~Superseded(w)
  PROVE  req[w].refund = order.refund_reference
  <1>1. CASE req[w].mode = "recheck"
    BY <1>1 DEF Superseded
  <1>2. CASE req[w].mode # "recheck"
    <2>1. req[w].refund \in Live
      BY <1>2 DEF RealInv, CalmInv, Claims, Acting
    <2> QED BY <2>1 DEF RealInv, CalmInv, Single
  <1> QED BY <1>1, <1>2

LEMMA WorkGoesOn ==
  ASSUME RealInv, NEW w \in Workers, Work(w)
  PROVE  GoesOn /\ BecomesReal
  <1>1. order \in OrderRow
    BY DEF RealInv, CalmInv, CompletedInv, TypeOK
  <1>2. CASE Persist(w)
    <2> DEFINE r == req[w].refund
    <2>1. /\ r \in Refunds /\ rzp[r] # "none" /\ pc[w] = "persist"
          /\ req[w].processed => rzp[r] = "processed"
      BY <1>2 DEF Persist, RealInv, CalmInv, CompletedInv, Remembered, AskedIsReal
    <2>2. CASE Superseded(w)
      BY <1>2, <2>2, SameGoesOn DEF Persist
    <2>3. ASSUME ~Superseded(w), order.refund_status = "initiated", Calm
          PROVE  r = order.refund_reference
      BY <2>1, <2>3, OwnRefund
    <2>4. CASE ~Superseded(w) /\ req[w].processed
      <3>1. order' = CompletedBy(r)
        BY <1>2, <2>4 DEF Persist
      <3>2. order'.refund_status = "completed" /\ order'.refund_reference = r
        BY <1>1, <3>1, ColumnsAfterOutcome
      <3> HIDE DEF r
      <3> QED BY <2>1, <2>3, <2>4, <3>2 DEF GoesOn, BecomesReal
    <2>5. CASE ~Superseded(w) /\ ~req[w].processed
      <3>1. order' = InitiatedBy(r)
        BY <1>2, <2>5 DEF Persist
      <3>2. order'.refund_status = "initiated" /\ order'.refund_reference = r
        BY <1>1, <3>1, ColumnsAfterOutcome
      <3> HIDE DEF r
      <3> QED BY <2>1, <2>3, <2>5, <3>2 DEF GoesOn, BecomesReal
    <2> QED BY <2>2, <2>4, <2>5
  <1>3. CASE MarkFailed(w)
    <2>1. rzp[req[w].refund] = "failed"
      BY <1>3 DEF MarkFailed, RealInv, CalmInv, Modes
    <2>2. LET n == [order EXCEPT !.refund_status = "failed", !.stale = FALSE]
          IN  n.refund_status = "failed"
              /\ n.refund_reference = order.refund_reference
      BY <1>1 DEF OrderRow
    <2> QED BY <1>3, <2>1, <2>2, SameGoesOn DEF MarkFailed, GoesOn, BecomesReal
  <1>4. CASE CancelLocked(w)
    <2>1. CASE UNCHANGED order
      BY <2>1, SameGoesOn
    <2>2. CASE order.refund_status # "initiated" /\ order'.refund_status = "approved"
      BY <2>2 DEF GoesOn, BecomesReal
    <2>3. LET n == [order EXCEPT !.order_status = "cancelled",
                                 !.refund_status = "approved",
                                 !.refund_amount = Paid, !.stale = FALSE]
          IN  n.refund_status = "approved"
      BY <1>1 DEF OrderRow
    <2> QED BY <1>4, <2>1, <2>2, <2>3 DEF CancelLocked, OnlyDelegate, InProgress
  <1>5. CASE Claim(w)
    <2>1. [order EXCEPT !.refund_status = "processing", !.stale = FALSE].refund_status
            = "processing"
      BY <1>1 DEF OrderRow
    <2> QED BY <1>5, <2>1 DEF Claim, MayClaim, GoesOn, BecomesReal
  <1>6. CASE Revert(w)
    <2>1. [order EXCEPT !.refund_status = "approved", !.stale = FALSE].refund_status
            = "approved"
      BY <1>1 DEF OrderRow
    <2> QED BY <1>6, <2>1, SameGoesOn DEF Revert, GoesOn, BecomesReal
  <1>7. CASE UNCHANGED order
    BY <1>7, SameGoesOn
  <1> QED
    BY <1>2, <1>3, <1>4, <1>5, <1>6, <1>7
    DEF Work, CancelSnapshot, verifyRazorpayPaymentForOrder, Recheck, AdoptOnly,
        Refuse, findExistingRazorpayRefund, LookupFails, RefundCreated,
        RefundErrors, LookupAfterError, FetchRefund, Crash

LEMMA DecideGoesOn ==
  ASSUME RealInv, Decide
  PROVE  GoesOn /\ BecomesReal
  <1>1. order \in OrderRow
    BY DEF RealInv, CalmInv, CompletedInv, TypeOK
  <1>2. CASE \/ approveInspection \/ rejectInspection
             \/ createShipment \/ cancelShipment
    <2>1. /\ order'.refund_status = order.refund_status
          /\ order'.refund_reference = order.refund_reference
      <3>1. CASE approveInspection
        BY <1>1, <3>1, ColumnsAfterUpdate DEF approveInspection
      <3>2. CASE rejectInspection
        BY <1>1, <3>2, ColumnsAfterUpdate DEF rejectInspection
      <3>3. CASE createShipment
        BY <1>1, <3>3, ColumnsAfterUpdate DEF createShipment
      <3>4. CASE cancelShipment
        BY <1>1, <3>4, ColumnsAfterUpdate DEF cancelShipment
      <3> QED BY <1>2, <3>1, <3>2, <3>3, <3>4
    <2> QED BY <2>1, SameGoesOn
  <1>4. CASE approveRefund
    <2>1. PICK a \in 1..Paid :
            order' = [order EXCEPT !.refund_status = "approved",
                                   !.refund_amount = a, !.stale = FALSE]
      BY <1>4 DEF approveRefund
    <2>2. order'.refund_status = "approved"
      BY <1>1, <2>1, ColumnsAfterUpdate
    <2> QED BY <1>4, <2>2 DEF approveRefund, GoesOn, BecomesReal
  <1>5. CASE rejectRefund
    BY <1>1, <1>5, ColumnsAfterUpdate
    DEF rejectRefund, InProgress, GoesOn, BecomesReal
  <1> QED BY <1>2, <1>4, <1>5, Zenon DEF Decide

LEMMA DeliverGoesOn ==
  ASSUME RealInv, NEW r \in Refunds, Deliver(r)
  PROVE  GoesOn /\ BecomesReal
  <1>1. order \in OrderRow
    BY DEF RealInv, CalmInv, CompletedInv, TypeOK
  <1>2. CASE RefundWebhook(r) /\ Matches(r)
    <2>1. rzp[r] \in {"processed", "failed"}
      BY <1>2 DEF RefundWebhook, RealInv, CalmInv, Heard
    <2>2. order.refund_status = "initiated" => order.refund_reference = r
      BY <1>2 DEF Matches
    <2>3. \/ /\ rzp[r] = "processed"
             /\ order'.refund_status = "completed" /\ order'.refund_reference = r
          \/ /\ rzp[r] = "failed"
             /\ order'.refund_status = "failed" /\ order'.refund_reference = r
      BY <1>1, <1>2, <2>1, ColumnsAfterOutcome DEF RefundWebhook
    <2> QED BY <2>2, <2>3 DEF GoesOn, BecomesReal
  <1>3. CASE UNCHANGED order
    BY <1>3, SameGoesOn
  <1> QED
    BY <1>2, <1>3
    DEF Deliver, claimWebhookEvent, RefundWebhook, RefundWebhookBooks,
        RefundWebhookBookingFails, RefundWebhookFails, RefundWebhookCrash

LEMMA OrderGoesOn ==
  ASSUME RealInv, [Next]_vars
  PROVE  GoesOn /\ BecomesReal
  <1>1. order \in OrderRow
    BY DEF RealInv, CalmInv, CompletedInv, TypeOK
  <1>2. CASE World
    <2>1. CASE TwoMinutesPass
      BY <1>1, <2>1, ColumnsAfterUpdate, SameGoesOn DEF TwoMinutesPass
    <2>2. CASE UNCHANGED order
      BY <2>2, SameGoesOn
    <2> QED
      BY <1>2, <2>1, <2>2
      DEF World, LateRequestArrives, RazorpayProcesses, RazorpayFails
  <1>3. CASE UNCHANGED vars
    BY <1>3, SameGoesOn DEF vars
  <1> QED BY <1>2, <1>3, WorkGoesOn, DecideGoesOn, DeliverGoesOn DEF Next
(* Who asks for a refund, or is about to write one, got it from Razorpay   *)
(* or from an order that is initiated.                                     *)
LEMMA AskedStep ==
  ASSUME RealInv, [Next]_vars
  PROVE  AskedIsReal'
  <1>1. /\ TypeOK /\ Remembered
        /\ pc \in [Workers -> Step] /\ req \in [Workers -> Request]
    BY DEF RealInv, CalmInv, CompletedInv, TypeOK
  <1>2. ASSUME NEW r \in Refunds, rzp[r] # "none" PROVE rzp'[r] # "none"
    BY <1>1, <1>2, RefundMoves
  <1>3. ASSUME NEW v \in Workers, pc'[v] = pc[v], req'[v] = req[v],
               pc[v] \in {"fetch", "persist"}
        PROVE  rzp'[req'[v].refund] # "none"
    <2>1. req[v].refund \in Refunds /\ rzp[req[v].refund] # "none"
      BY <1>1, <1>3 DEF RealInv, AskedIsReal, Remembered
    <2> QED BY <1>2, <1>3, <2>1
  <1>4. ASSUME UNCHANGED <<pc, req>> PROVE AskedIsReal'
    BY <1>3, <1>4 DEF AskedIsReal
  <1>5. ASSUME NEW w \in Workers, Work(w) PROVE AskedIsReal'
    <2> SUFFICES ASSUME NEW v \in Workers, pc'[v] \in {"fetch", "persist"}
                 PROVE  rzp'[req'[v].refund] # "none"
      BY DEF AskedIsReal
    <2>1. CASE v # w
      <3>1. pc'[v] = pc[v] /\ req'[v] = req[v]
        BY <1>1, <1>5, <2>1
        DEF Work, CancelSnapshot, verifyRazorpayPaymentForOrder, CancelLocked,
            Recheck, Claim, AdoptOnly, Refuse, findExistingRazorpayRefund,
            LookupFails, RefundCreated, RefundErrors, LookupAfterError, Revert,
            FetchRefund, MarkFailed, Persist, Crash, Found, Goto, Remember, End
      <3> QED BY <1>3, <3>1
    <2>2. CASE v = w
      <3>1. ASSUME NEW r, NEW m, NEW b, Remember(w, m, r, b)
            PROVE  req'[w].refund = r
        BY <1>1, <3>1 DEF Remember
      <3>2. CASE Recheck(w)
        <4>1. order.refund_status = "initiated" /\ UNCHANGED rzp
          BY <3>2 DEF Recheck, MayRecheck
        <4>2. req'[w].refund = order.refund_reference
          BY <3>1, <3>2 DEF Recheck
        <4> QED BY <2>2, <4>1, <4>2 DEF RealInv, InitiatedIsReal
      <3>3. CASE FetchRefund(w)
        <4>1. /\ req'[w].refund = req[w].refund /\ UNCHANGED rzp
              /\ pc[w] = "fetch"
          BY <3>1, <3>3 DEF FetchRefund
        <4> QED BY <2>2, <4>1 DEF RealInv, AskedIsReal
      <3>4. ASSUME NEW r \in Refunds, Found(w, r), rzp'[r] # "none"
            PROVE  rzp'[req'[w].refund] # "none"
        BY <3>1, <3>4 DEF Found
      <3>5. CASE findExistingRazorpayRefund(w)
        BY <1>1, <2>2, <3>4, <3>5
        DEF findExistingRazorpayRefund, Live, Goto, End
      <3>6. CASE LookupAfterError(w)
        BY <1>1, <2>2, <3>4, <3>6 DEF LookupAfterError, Live, Goto, End
      <3>7. CASE RefundCreated(w)
        <4>1. PICK r \in Refunds :
                Issue(r) /\ (Found(w, r) \/ Goto(w, "relookup"))
          BY <3>7 DEF RefundCreated
        <4>2. rzp'[r] = "pending"
          BY <1>1, <4>1 DEF Issue, TypeOK
        <4>3. ~Goto(w, "relookup")
          BY <1>1, <2>2 DEF Goto
        <4> QED BY <2>2, <3>4, <4>1, <4>2, <4>3
      <3>8. CASE \/ CancelSnapshot(w) \/ verifyRazorpayPaymentForOrder(w)
                 \/ CancelLocked(w) \/ Claim(w) \/ AdoptOnly(w) \/ Refuse(w)
                 \/ LookupFails(w) \/ RefundErrors(w) \/ Revert(w)
                 \/ MarkFailed(w) \/ Persist(w) \/ Crash(w)
        <4>1. pc'[w] \notin {"fetch", "persist"}
          BY <1>1, <3>8
          DEF CancelSnapshot, verifyRazorpayPaymentForOrder, CancelLocked, Claim,
              AdoptOnly, Refuse, LookupFails, RefundErrors, Revert, MarkFailed,
              Persist, Crash, Goto, End
        <4> QED BY <2>2, <4>1
      <3> QED BY <1>5, <3>2, <3>3, <3>5, <3>6, <3>7, <3>8 DEF Work
    <2> QED BY <2>1, <2>2
  <1>6. CASE Decide
    BY <1>4, <1>6 DEF Decide, approveInspection, rejectInspection,
                      approveRefund, rejectRefund, createShipment, cancelShipment
  <1>7. ASSUME NEW r \in Refunds, Deliver(r) PROVE AskedIsReal'
    BY <1>4, <1>7
    DEF Deliver, claimWebhookEvent, RefundWebhook, RefundWebhookBooks,
        RefundWebhookBookingFails, RefundWebhookFails, RefundWebhookCrash
  <1>8. CASE World
    BY <1>4, <1>8 DEF World, LateRequestArrives, TwoMinutesPass,
                      RazorpayProcesses, RazorpayFails
  <1>9. CASE UNCHANGED vars
    BY <1>4, <1>9 DEF vars
  <1> QED BY <1>5, <1>6, <1>7, <1>8, <1>9 DEF Next

LEMMA RealCorrect == Spec => []RealInv
  <1>1. Init => InitiatedIsReal /\ AskedIsReal
    <2> SUFFICES ASSUME Init PROVE order.refund_status # "initiated" /\ AskedIsReal
      BY DEF InitiatedIsReal
    <2>1. ReadyOrder.refund_status = "none" /\ ReturnedOrder.refund_status = "none"
      BY DEF ReadyOrder, ReturnedOrder
    <2> QED BY <2>1 DEF Init, AskedIsReal
  <1>2. RealInv /\ [Next]_vars => InitiatedIsReal'
    <2> SUFFICES ASSUME RealInv, [Next]_vars, order'.refund_status = "initiated"
                 PROVE  MayRecheck' /\ rzp'[order'.refund_reference] # "none"
      BY DEF InitiatedIsReal
    <2>1. TypeOK
      BY DEF RealInv, CalmInv, CompletedInv
    <2>2. /\ order'.refund_reference \in Refunds
          /\ rzp[order'.refund_reference] # "none"
      <3>1. order.refund_reference \in Refunds \cup {NoRefund}
        BY <2>1, RowColumns DEF TypeOK
      <3> QED BY <3>1, OrderGoesOn
              DEF BecomesReal, RealInv, InitiatedIsReal, MayRecheck
    <2>3. rzp'[order'.refund_reference] # "none"
      BY <2>1, <2>2, RefundMoves
    <2> QED BY <2>2, <2>3, RefundAssumption DEF MayRecheck
  <1>3. RealInv /\ [Next]_vars => RealInv'
    BY <1>2, CalmInvStep, AskedStep DEF RealInv
  <1> QED BY <1>1, <1>3, CalmInvInit, PTL DEF Spec, RealInv

(* An initiated refund may be rechecked at every moment, and Razorpay has  *)
(* it: the cron never finds an initiated order it must pass over.          *)
THEOREM InitiatedIsRecheckable == Spec => []InitiatedIsReal
  <1>1. RealInv => InitiatedIsReal
    BY DEF RealInv
  <1> QED BY <1>1, RealCorrect, PTL

(* No request, webhook or administrator takes an initiated order anywhere  *)
(* but to the outcome that Razorpay has decided; in a calm world, of the   *)
(* refund that the order was initiated with.                               *)
THEOREM InitiatedOnlySettles == Spec => InitiatedGoesOn
  <1>1. RealInv /\ [Next]_vars => [GoesOn]_vars
    BY OrderGoesOn
  <1> QED BY <1>1, RealCorrect, PTL DEF Spec, InitiatedGoesOn

(* What the refund.failed webhook promises holds where no failure races a  *)
(* request and no call outlives the claim: no failed order's money moves.  *)
THEOREM CalmFailureMovesNoMoney == Spec /\ Calm => []FailedMovesNoMoney
  <1>1. CalmInv /\ Calm => FailedMovesNoMoney
    BY DEF CalmInv, Single, FailedMovesNoMoney, InProgress
  <1>2. CalmInv /\ Calm /\ [Next]_vars => Calm'
    BY EnvFixed DEF CalmInv, CompletedInv
  <1> QED BY <1>1, <1>2, CalmInvInit, CalmInvStep, PTL DEF Spec

-----------------------------------------------------------------------------
(* What LostRefundIsAdopted rests on.                                      *)
(*                                                                         *)
(* A refund whose answer was lost moves money under a claim that names     *)
(* none. That it is adopted some day rests on fairness; that whoever ends  *)
(* such a claim does so by recording that very refund does not.            *)

LiveIsNamed ==
  Live # {} =>
    \/ order.refund_status = "processing"
    \/ /\ order.refund_status \in {"initiated", "completed"}
       /\ Live = {order.refund_reference}

(* In a calm world money that moves is under a claim, or is the money of   *)
(* the one refund that the order names: no request, cron or webhook ends a *)
(* claim while its refund moves money but with that refund.                *)
THEOREM LostRefundStaysAdoptable == Spec /\ Calm => []LiveIsNamed
  <1>1. CalmInv /\ Calm => LiveIsNamed
    <2> SUFFICES ASSUME CalmInv, Calm, Live # {}, order.refund_status # "processing"
                 PROVE  /\ order.refund_status \in {"initiated", "completed"}
                        /\ Live = {order.refund_reference}
      BY DEF LiveIsNamed
    <2>1. Single
      BY DEF CalmInv
    <2>2. order.refund_status \in {"initiated", "completed"}
      BY <2>1 DEF Single, InProgress
    <2>3. CASE order.refund_status = "initiated"
      BY <2>1, <2>3 DEF Single
    <2>4. CASE order.refund_status = "completed"
      <3>1. order.refund_reference \in Live
        BY <2>4 DEF CalmInv, CompletedInv, CompletedIsProcessed, Live
      <3> QED BY <2>1, <2>4, <3>1 DEF Single
    <2> QED BY <2>2, <2>3, <2>4
  <1>2. CalmInv /\ Calm /\ [Next]_vars => Calm'
    BY EnvFixed DEF CalmInv, CompletedInv
  <1> QED BY <1>1, <1>2, CalmInvInit, CalmInvStep, PTL DEF Spec
=============================================================================
