------------------------------- MODULE Refund -------------------------------
(***************************************************************************)
(* The refund of one prepaid order: the row of table orders, the row of    *)
(* table payments, the refunds Razorpay holds for the order's payment, the *)
(* admin requests and the reconciliation cron that drive completeRefund,   *)
(* cancelOrderAndRefund, and the refund.processed / refund.failed          *)
(* webhooks.                                                               *)
(*                                                                         *)
(* One action is one database transaction, one autocommitted statement or  *)
(* one call to Razorpay; everything between two awaits may interleave with *)
(* the other requests, and a request may die at any of them.               *)
(***************************************************************************)
EXTENDS Naturals, FiniteSets

CONSTANTS
  Admins,         \* admin requests that may run at the same time
  Cron,           \* the refund reconciliation cron (one at a time: GET_LOCK)
  Refunds,        \* the ids Razorpay may give to refunds of this payment
  NoRefund,       \* the NULL of refund_reference and refund_id
  Paid,           \* what the customer paid, in units a refund is counted in
  Environments    \* what the outside may do (EnvType); a behaviour has one

(* slow: may a call to Razorpay outlive the two minute claim? race: may a   *)
(* failed refund's webhook race a retry of it? late: the timed-out refund  *)
(* requests still on their way to Razorpay, maxLate at once (a bound).     *)
EnvType == [slow : BOOLEAN, race : BOOLEAN, maxLate : Nat, late : Nat]

ASSUME RefundAssumption ==
  /\ Cron \notin Admins
  /\ NoRefund \notin Refunds
  /\ Paid \in Nat \ {0}
  /\ Environments \subseteq EnvType
  /\ \A e \in Environments : e.late = 0

VARIABLES
  order,     \* the columns of the orders row the refund flow reads or writes
  payment,   \* the refund columns of the payments row
  rzp,       \* Razorpay's status of each refund
  env,       \* what the outside may do, and what it still has under way
  pc,        \* where each request is
  req,       \* what each request remembers from one step to the next
  hook       \* the webhook of each refund's outcome, and its ledger row

vars == <<order, payment, rzp, env, pc, req, hook>>

Workers == Admins \cup {Cron}

-----------------------------------------------------------------------------
(* The values of the columns. *)

RefundStatus ==
  {"none", "approved", "processing", "initiated", "completed", "failed",
   "rejected"}

OrderRow ==
  [order_status: {"ready_to_ship", "delivered", "cancelled"},
   shipment: {"none", "active", "cancelled"},
   return_status: {"none", "returned"},
   inspection_status: {"none", "pending", "approved", "rejected"},
   refund_status: RefundStatus,
   refund_amount: 0..Paid,
   refund_reference: Refunds \cup {NoRefund},
   payment_status: {"paid", "refunded"},
   stale: BOOLEAN]

Mode == {"create", "recheck", "adopt_only"}

Step ==
  {"idle", "verify", "cancel", "phase1", "lookup", "refund", "relookup",
   "revert", "fetch", "mark_failed", "persist"}

Request ==
  [mode: Mode, refund: Refunds \cup {NoRefund}, processed: BOOLEAN]

HookStatus ==
  {"unsent", "sent", "claimed", "updated", "completed", "failed", "stranded"}

NoRequest == [mode |-> "create", refund |-> NoRefund, processed |-> FALSE]

(* Refunds whose money Razorpay is moving, or has moved. *)
Live == {r \in Refunds : rzp[r] \in {"pending", "processed"}}

(* A request between Phase 1 and the end of Phase 3 that creates or adopts; *)
(* one that creates holds the claim 'processing'.                           *)
Acting(w) ==
  /\ pc[w] \in {"lookup", "refund", "relookup", "revert", "persist"}
  /\ req[w].mode # "recheck"

HoldsClaim(w) == Acting(w) /\ req[w].mode = "create"

InProgress == {"processing", "initiated", "completed"}

-----------------------------------------------------------------------------
(* The orders row once refund r is recorded as completed, initiated, failed. *)

CompletedBy(r) ==
  [order EXCEPT !.refund_status = "completed", !.refund_reference = r,
                !.payment_status = "refunded", !.stale = FALSE]

InitiatedBy(r) ==
  [order EXCEPT !.refund_status = "initiated", !.refund_reference = r,
                !.stale = FALSE]

FailedBy(r) ==
  [order EXCEPT !.refund_status = "failed", !.refund_reference = r,
                !.stale = FALSE]

-----------------------------------------------------------------------------
(* A paid order about to ship, and an order whose return has arrived. *)
ReadyOrder ==
  [order_status |-> "ready_to_ship", shipment |-> "none",
   return_status |-> "none", inspection_status |-> "none",
   refund_status |-> "none", refund_amount |-> 0,
   refund_reference |-> NoRefund, payment_status |-> "paid", stale |-> FALSE]

ReturnedOrder ==
  [ReadyOrder EXCEPT !.order_status = "delivered",
                     !.return_status = "returned",
                     !.inspection_status = "pending"]

Init ==
  /\ order \in {ReadyOrder, ReturnedOrder}
  /\ payment = [refund_id |-> NoRefund, status |-> "captured"]
  /\ rzp = [r \in Refunds |-> "none"]
  /\ env \in Environments
  /\ pc = [w \in Workers |-> "idle"]
  /\ req = [w \in Workers |-> NoRequest]
  /\ hook = [r \in Refunds |-> "unsent"]

-----------------------------------------------------------------------------
(* Auxiliary: where a request goes, and what it forgets when it ends. *)

Goto(w, step) == pc' = [pc EXCEPT ![w] = step]

Remember(w, mode, refund, processed) ==
  req' = [req EXCEPT ![w] =
            [mode |-> mode, refund |-> refund, processed |-> processed]]

End(w) == /\ Goto(w, "idle")
          /\ req' = [req EXCEPT ![w] = NoRequest]

-----------------------------------------------------------------------------
(* Admin decisions on a returned order: one locked transaction each. *)

approveInspection ==
  /\ order.return_status = "returned"
  /\ order.inspection_status \notin {"approved", "rejected"}
  /\ order' = [order EXCEPT !.inspection_status = "approved", !.stale = FALSE]
  /\ UNCHANGED <<payment, rzp, env, pc, req, hook>>

(* Fault: a failed inspection may be recorded although a refund exists. *)
rejectInspectionRefunded ==
  /\ order.return_status = "returned"
  /\ order.inspection_status # "rejected"
  /\ order' = [order EXCEPT !.inspection_status = "rejected", !.stale = FALSE]
  /\ UNCHANGED <<payment, rzp, env, pc, req, hook>>

rejectInspection ==
  /\ order.return_status = "returned"
  /\ order.inspection_status # "rejected"
  /\ order.refund_status = "none"
  /\ order' = [order EXCEPT !.inspection_status = "rejected", !.stale = FALSE]
  /\ UNCHANGED <<payment, rzp, env, pc, req, hook>>

approveRefund ==
  /\ order.refund_status = "none"
  /\ order.return_status = "returned"
  /\ order.inspection_status = "approved"
  /\ order.payment_status = "paid"
  /\ \E amount \in 1..Paid :
       order' = [order EXCEPT !.refund_status = "approved",
                              !.refund_amount = amount, !.stale = FALSE]
  /\ UNCHANGED <<payment, rzp, env, pc, req, hook>>

(* Fault: only a completed refund is protected, as before ISSUE-010. *)
rejectRefundInFlight ==
  /\ order.refund_status \notin {"completed", "rejected"}
  /\ order.return_status = "returned"
  /\ order.inspection_status = "approved"
  /\ order' = [order EXCEPT !.refund_status = "rejected", !.stale = FALSE]
  /\ UNCHANGED <<payment, rzp, env, pc, req, hook>>

rejectRefund ==
  /\ order.refund_status \notin InProgress \cup {"rejected"}
  /\ order.return_status = "returned"
  /\ order.inspection_status = "approved"
  /\ order' = [order EXCEPT !.refund_status = "rejected", !.stale = FALSE]
  /\ UNCHANGED <<payment, rzp, env, pc, req, hook>>

-----------------------------------------------------------------------------
(* Forward shipment: createShipment keeps the row locked over its call to  *)
(* Delhivery; cancelShipment reads without a lock, but what it writes does *)
(* not depend on anything that can change meanwhile.                       *)

createShipment ==
  /\ order.order_status = "ready_to_ship"
  /\ order.shipment = "none"
  /\ order' = [order EXCEPT !.shipment = "active", !.stale = FALSE]
  /\ UNCHANGED <<payment, rzp, env, pc, req, hook>>

cancelShipment ==
  /\ order.shipment = "active"
  /\ order' = [order EXCEPT !.shipment = "cancelled",
                            !.order_status = "cancelled", !.stale = FALSE]
  /\ UNCHANGED <<payment, rzp, env, pc, req, hook>>

-----------------------------------------------------------------------------
(* cancelOrderAndRefund: unlocked snapshot, Razorpay's view of the payment, *)
(* locked re-check with cancel + approve, then completeRefund.              *)

evaluateCancelRefundEligibility ==
  /\ order.return_status = "none"
  /\ order.refund_status # "rejected"
  /\ order.order_status \in {"ready_to_ship", "cancelled"}
  /\ order.shipment # "active"
  /\ order.payment_status = "paid"

(* A refund exists or is approved already: leave it to completeRefund. *)
OnlyDelegate ==
  \/ order.refund_status \in InProgress
  \/ order.refund_status = "approved" /\ order.order_status = "cancelled"

CancelSnapshot(w) ==
  /\ w \in Admins /\ pc[w] = "idle"
  /\ order.return_status = "none"
  /\ \/ OnlyDelegate /\ Goto(w, "phase1")
     \/ ~OnlyDelegate /\ evaluateCancelRefundEligibility /\ Goto(w, "verify")
  /\ UNCHANGED <<order, payment, rzp, env, req, hook>>

(* The payment is captured, or refunded by a refund of ours; or Razorpay   *)
(* cannot be asked.                                                        *)
verifyRazorpayPaymentForOrder(w) ==
  /\ pc[w] = "verify"
  /\ \/ Goto(w, "cancel")
     \/ Goto(w, "idle")
  /\ UNCHANGED <<order, payment, rzp, env, req, hook>>

(* Fault: what was true of the snapshot is not checked under the lock. *)
CancelUnchecked(w) ==
  /\ pc[w] = "cancel"
  /\ \/ OnlyDelegate /\ UNCHANGED order
     \/ /\ ~OnlyDelegate
        /\ order' = [order EXCEPT !.order_status = "cancelled",
                                  !.refund_status = "approved",
                                  !.refund_amount = Paid, !.stale = FALSE]
  /\ Goto(w, "phase1")
  /\ UNCHANGED <<payment, rzp, env, req, hook>>

CancelLocked(w) ==
  /\ pc[w] = "cancel"
  /\ \/ /\ OnlyDelegate
        /\ Goto(w, "phase1")
        /\ UNCHANGED order
     \/ /\ ~OnlyDelegate /\ evaluateCancelRefundEligibility
        /\ order' = [order EXCEPT !.order_status = "cancelled",
                                  !.refund_status = "approved",
                                  !.refund_amount = Paid, !.stale = FALSE]
        /\ Goto(w, "phase1")
     \/ /\ ~OnlyDelegate /\ ~evaluateCancelRefundEligibility
        /\ Goto(w, "idle")
        /\ UNCHANGED order
  /\ UNCHANGED <<payment, rzp, env, req, hook>>

-----------------------------------------------------------------------------
(* completeRefund, Phase 1: lock the row, decide. *)

(* Fault: a claim is taken over at once, not when it is stale. *)
MayClaimFresh ==
  /\ order.refund_status \in {"approved", "failed", "processing"}
  /\ order.payment_status = "paid"
  /\ order.refund_amount > 0

MayClaim ==
  /\ \/ order.refund_status \in {"approved", "failed"}
     \/ order.refund_status = "processing" /\ order.stale
  /\ order.payment_status = "paid"
  /\ order.refund_amount > 0

MayRecheck ==
  order.refund_status = "initiated" /\ order.refund_reference # NoRefund

Recheck(w) ==
  /\ pc[w] \in {"idle", "phase1"}
  /\ MayRecheck
  /\ Goto(w, "fetch")
  /\ Remember(w, "recheck", order.refund_reference, FALSE)
  /\ UNCHANGED <<order, payment, rzp, env, hook>>

(* The webhook of a failed refund is still to be handled. *)
FailureUnheard ==
  \E r \in Refunds : rzp[r] = "failed" /\ hook[r] \notin {"completed", "stranded"}

Claim(w) ==
  /\ w \in Admins /\ pc[w] \in {"idle", "phase1"}
  /\ MayClaim
  /\ env.race \/ ~FailureUnheard
  /\ order' = [order EXCEPT !.refund_status = "processing", !.stale = FALSE]
  /\ Goto(w, "lookup")
  /\ Remember(w, "create", NoRefund, FALSE)
  /\ UNCHANGED <<payment, rzp, env, hook>>

(* Fault: the cron looks only for refunds whose id is already on the row. *)
AdoptKnown(w) ==
  /\ w = Cron /\ pc[w] = "idle"
  /\ order.refund_status = "processing" /\ order.stale
  /\ order.refund_reference # NoRefund
  /\ Goto(w, "lookup")
  /\ Remember(w, "adopt_only", NoRefund, FALSE)
  /\ UNCHANGED <<order, payment, rzp, env, hook>>

(* allowCreate: false -- the cron never creates and never claims. *)
AdoptOnly(w) ==
  /\ w = Cron /\ pc[w] = "idle"
  /\ order.refund_status = "processing" /\ order.stale
  /\ Goto(w, "lookup")
  /\ Remember(w, "adopt_only", NoRefund, FALSE)
  /\ UNCHANGED <<order, payment, rzp, env, hook>>

(* Already completed, freshly claimed by another request, or not approved. *)
Refuse(w) ==
  /\ pc[w] = "phase1"
  /\ ~MayRecheck /\ ~MayClaim
  /\ End(w)
  /\ UNCHANGED <<order, payment, rzp, env, hook>>

-----------------------------------------------------------------------------
(* completeRefund, Phase 2: no transaction open. *)

Found(w, r) == /\ Goto(w, "persist")
               /\ Remember(w, req[w].mode, r, FALSE)

findExistingRazorpayRefund(w) ==
  /\ pc[w] = "lookup"
  /\ \/ \E r \in Live : Found(w, r)
     \/ /\ Live = {} /\ req[w].mode = "create"
        /\ Goto(w, "refund") /\ UNCHANGED req
     \/ /\ Live = {} /\ req[w].mode = "adopt_only"
        /\ End(w)
  /\ UNCHANGED <<order, payment, rzp, env, hook>>

LookupFails(w) ==
  /\ pc[w] = "lookup"
  /\ IF req[w].mode = "create" THEN Goto(w, "relookup") /\ UNCHANGED req
                               ELSE End(w)
  /\ UNCHANGED <<order, payment, rzp, env, hook>>

(* Razorpay refuses to refund more than was paid. *)
Refundable == (Cardinality(Live) + 1) * order.refund_amount <= Paid

Issue(r) == /\ rzp[r] = "none"
            /\ Refundable
            /\ rzp' = [rzp EXCEPT ![r] = "pending"]

(* payments.refund() creates a refund; its answer may be lost. *)
RefundCreated(w) ==
  /\ pc[w] = "refund"
  /\ \E r \in Refunds :
       /\ Issue(r)
       /\ \/ Found(w, r)
          \/ Goto(w, "relookup") /\ UNCHANGED req
  /\ UNCHANGED <<order, payment, env, hook>>

(* payments.refund() fails, or times out while the request still travels. *)
RefundErrors(w) ==
  /\ pc[w] = "refund"
  /\ Goto(w, "relookup")
  /\ \/ UNCHANGED env
     \/ env.late < env.maxLate /\ env' = [env EXCEPT !.late = @ + 1]
  /\ UNCHANGED <<order, payment, rzp, req, hook>>

(* The lookup after an error: adopt, revert the claim, or leave it. *)
LookupAfterError(w) ==
  /\ pc[w] = "relookup"
  /\ \/ \E r \in Live : Found(w, r)
     \/ Live = {} /\ Goto(w, "revert") /\ UNCHANGED req
     \/ End(w)
  /\ UNCHANGED <<order, payment, rzp, env, hook>>

Revert(w) ==
  /\ pc[w] = "revert"
  /\ order' = IF order.refund_status = "processing"
              THEN [order EXCEPT !.refund_status = "approved", !.stale = FALSE]
              ELSE order
  /\ End(w)
  /\ UNCHANGED <<payment, rzp, env, hook>>

(* Fault: a refund that has not failed counts as processed. *)
FetchOptimistic(w) ==
  /\ pc[w] = "fetch"
  /\ LET r == req[w].refund IN
     \/ rzp[r] = "failed" /\ Goto(w, "mark_failed") /\ UNCHANGED req
     \/ /\ rzp[r] # "failed" /\ Goto(w, "persist")
        /\ Remember(w, "recheck", r, TRUE)
  /\ UNCHANGED <<order, payment, rzp, env, hook>>

(* Fault: a failed refund is reported to the admin, not recorded. *)
FetchForgets(w) ==
  /\ pc[w] = "fetch"
  /\ LET r == req[w].refund IN
     \/ rzp[r] = "failed" /\ End(w)
     \/ /\ rzp[r] # "failed" /\ Goto(w, "persist")
        /\ Remember(w, "recheck", r, rzp[r] = "processed")
  /\ UNCHANGED <<order, payment, rzp, env, hook>>

(* refunds.fetch(refund_reference) *)
FetchRefund(w) ==
  /\ pc[w] = "fetch"
  /\ LET r == req[w].refund IN
     \/ rzp[r] = "failed" /\ Goto(w, "mark_failed") /\ UNCHANGED req
     \/ /\ rzp[r] = "processed" /\ Goto(w, "persist")
        /\ Remember(w, "recheck", r, TRUE)
     \/ /\ rzp[r] = "pending" /\ Goto(w, "persist")
        /\ Remember(w, "recheck", r, FALSE)
  /\ UNCHANGED <<order, payment, rzp, env, hook>>

(* Fault: the UPDATE is not guarded by what the recheck read. *)
MarkAnyFailed(w) ==
  /\ pc[w] = "mark_failed"
  /\ order' = [order EXCEPT !.refund_status = "failed", !.stale = FALSE]
  /\ End(w)
  /\ UNCHANGED <<payment, rzp, env, hook>>

MarkFailed(w) ==
  /\ pc[w] = "mark_failed"
  /\ order' = IF /\ order.refund_status = "initiated"
                 /\ order.refund_reference = req[w].refund
              THEN [order EXCEPT !.refund_status = "failed", !.stale = FALSE]
              ELSE order
  /\ End(w)
  /\ UNCHANGED <<payment, rzp, env, hook>>

-----------------------------------------------------------------------------
(* completeRefund, Phase 3: relock the row, write the result. *)

(* Fault: Phase 3 forgets that the webhook may have completed the refund. *)
SupersededByFailure(w) ==
  \/ /\ order.refund_status = "failed"
     /\ order.refund_reference = req[w].refund
  \/ /\ req[w].mode = "recheck"
     /\ ~ (/\ order.refund_status = "initiated"
           /\ order.refund_reference = req[w].refund)
  \/ /\ req[w].mode = "adopt_only"
     /\ ~ (/\ order.refund_status = "processing"
           /\ order.refund_reference = NoRefund)

(* Another request or a webhook has the last word. *)
Superseded(w) ==
  \/ order.refund_status = "completed"
  \/ /\ order.refund_status = "failed"
     /\ order.refund_reference = req[w].refund
  \/ /\ req[w].mode = "recheck"
     /\ ~ (/\ order.refund_status = "initiated"
           /\ order.refund_reference = req[w].refund)
  \/ /\ req[w].mode = "adopt_only"
     /\ ~ (/\ order.refund_status = "processing"
           /\ order.refund_reference = NoRefund)

(* Fault: the payments row takes over Razorpay's own status. *)
BookGatewayStatus(r, processed) ==
  payment' = [refund_id |-> r,
              status |-> IF processed THEN "processed" ELSE payment.status]

(* The payments row: status flips only for a completed full refund. *)
BookRefund(r, processed) ==
  payment' = [refund_id |-> r,
              status |-> IF processed /\ order.refund_amount >= Paid
                         THEN "refunded" ELSE payment.status]

Persist(w) ==
  /\ pc[w] = "persist"
  /\ LET r == req[w].refund IN
     \/ Superseded(w) /\ UNCHANGED <<order, payment>>
     \/ /\ ~Superseded(w) /\ req[w].processed
        /\ order' = CompletedBy(r) /\ BookRefund(r, TRUE)
     \/ /\ ~Superseded(w) /\ ~req[w].processed
        /\ order' = InitiatedBy(r) /\ BookRefund(r, FALSE)
  /\ End(w)
  /\ UNCHANGED <<rzp, env, hook>>

(* The process dies, or the step's database call throws: the request ends  *)
(* and, its transaction rolled back, nothing it was about to do is done.   *)
Crash(w) ==
  /\ pc[w] # "idle"
  /\ End(w)
  /\ UNCHANGED <<order, payment, rzp, env, hook>>

-----------------------------------------------------------------------------
(* Webhooks. hook[r] is the delivery of refund r's outcome together with   *)
(* its webhook_events row: 'processing' while claimed or updated, and for  *)
(* ever once its handler died (stranded).                                  *)

(* First delivery, or the redelivery of an event whose handler failed. A   *)
(* delivery of a completed or a processing event is only acknowledged.     *)
claimWebhookEvent(r) ==
  /\ hook[r] \in {"sent", "failed"}
  /\ hook' = [hook EXCEPT ![r] = "claimed"]
  /\ UNCHANGED <<order, payment, rzp, env, pc, req>>

(* The candidate query and the guarded UPDATE. The guard repeats what the  *)
(* query matched on, so the two statements act as one.                     *)
Matches(r) ==
  /\ order.refund_status \in {"initiated", "processing"}
  /\ \/ order.refund_reference = r
     \/ order.refund_reference = NoRefund /\ order.refund_status = "processing"

RefundWebhook(r) ==
  /\ hook[r] = "claimed"
  /\ \/ /\ Matches(r)
        /\ hook' = [hook EXCEPT ![r] = "updated"]
        /\ \/ rzp[r] = "processed" /\ order' = CompletedBy(r)
           \/ rzp[r] # "processed" /\ order' = FailedBy(r)
     \/ /\ ~Matches(r)
        /\ hook' = [hook EXCEPT ![r] = "completed"]
        /\ UNCHANGED order
  /\ UNCHANGED <<payment, rzp, env, pc, req>>

(* The bookkeeping after the UPDATE, then markCompleted.                   *)
RefundWebhookBooks(r) ==
  /\ hook[r] = "updated"
  /\ IF rzp[r] = "processed" THEN BookRefund(r, TRUE) ELSE UNCHANGED payment
  /\ hook' = [hook EXCEPT ![r] = "completed"]
  /\ UNCHANGED <<order, rzp, env, pc, req>>

(* The bookkeeping throws: markFailed, so that Razorpay delivers again.    *)
RefundWebhookBookingFails(r) ==
  /\ hook[r] = "updated"
  /\ hook' = [hook EXCEPT ![r] = "failed"]
  /\ UNCHANGED <<order, payment, rzp, env, pc, req>>

(* The UPDATE itself throws: markFailed, Razorpay delivers again. *)
RefundWebhookFails(r) ==
  /\ hook[r] = "claimed"
  /\ hook' = [hook EXCEPT ![r] = "failed"]
  /\ UNCHANGED <<order, payment, rzp, env, pc, req>>

(* The process dies inside the handler: the row stays 'processing'. *)
RefundWebhookCrash(r) ==
  /\ hook[r] \in {"claimed", "updated"}
  /\ hook' = [hook EXCEPT ![r] = "stranded"]
  /\ UNCHANGED <<order, payment, rzp, env, pc, req>>

-----------------------------------------------------------------------------
(* The world: Razorpay and the clock. *)

LateRequestArrives ==
  /\ env.late > 0
  /\ env' = [env EXCEPT !.late = @ - 1]
  /\ \/ \E r \in Refunds : Issue(r)
     \/ ~Refundable /\ UNCHANGED rzp
  /\ UNCHANGED <<order, payment, pc, req, hook>>

RazorpayProcesses(r) ==
  /\ rzp[r] = "pending"
  /\ rzp' = [rzp EXCEPT ![r] = "processed"]
  /\ hook' = [hook EXCEPT ![r] = "sent"]
  /\ UNCHANGED <<order, payment, env, pc, req>>

RazorpayFails(r) ==
  /\ rzp[r] = "pending"
  /\ env.race \/ \A w \in Workers : ~Acting(w)
  /\ rzp' = [rzp EXCEPT ![r] = "failed"]
  /\ hook' = [hook EXCEPT ![r] = "sent"]
  /\ UNCHANGED <<order, payment, env, pc, req>>

(* updated_at becomes older than PROCESSING_CLAIM_STALE_MINUTES. *)
TwoMinutesPass ==
  /\ order.refund_status = "processing" /\ ~order.stale
  /\ env.slow \/ \A w \in Workers : ~HoldsClaim(w)
  /\ order' = [order EXCEPT !.stale = TRUE]
  /\ UNCHANGED <<payment, rzp, env, pc, req, hook>>

-----------------------------------------------------------------------------
Decide == \/ approveInspection \/ rejectInspection
          \/ approveRefund \/ rejectRefund
          \/ createShipment \/ cancelShipment

Work(w) == \/ CancelSnapshot(w) \/ verifyRazorpayPaymentForOrder(w)
           \/ CancelLocked(w)
           \/ Recheck(w) \/ Claim(w) \/ AdoptOnly(w) \/ Refuse(w)
           \/ findExistingRazorpayRefund(w) \/ LookupFails(w)
           \/ RefundCreated(w) \/ RefundErrors(w)
           \/ LookupAfterError(w) \/ Revert(w)
           \/ FetchRefund(w) \/ MarkFailed(w)
           \/ Persist(w) \/ Crash(w)

Deliver(r) == \/ claimWebhookEvent(r) \/ RefundWebhook(r)
              \/ RefundWebhookBooks(r) \/ RefundWebhookBookingFails(r)
              \/ RefundWebhookFails(r) \/ RefundWebhookCrash(r)

World == \/ LateRequestArrives
         \/ TwoMinutesPass
         \/ \E r \in Refunds : RazorpayProcesses(r) \/ RazorpayFails(r)

Next == \/ Decide
        \/ \E w \in Workers : Work(w)
        \/ \E r \in Refunds : Deliver(r)
        \/ World

Spec == Init /\ [][Next]_vars

-----------------------------------------------------------------------------
(* Liveness. What the program can be relied on to do again and again: the  *)
(* cron ticks and its steps are retried until one is not cut short by a    *)
(* crash or an unreachable Razorpay; the clock advances; Razorpay settles  *)
(* a refund; an admin request that began ends, if only by dying. Admins    *)
(* need not begin one, and no webhook need ever arrive.                    *)

Fairness ==
  /\ SF_vars(Recheck(Cron) \/ AdoptOnly(Cron))
  /\ SF_vars(findExistingRazorpayRefund(Cron))
  /\ SF_vars(FetchRefund(Cron))
  /\ SF_vars(MarkFailed(Cron))
  /\ SF_vars(Persist(Cron))
  /\ SF_vars(TwoMinutesPass)
  /\ \A w \in Admins : WF_vars(pc[w] # "idle" /\ Work(w))
  /\ \A r \in Refunds : SF_vars(RazorpayProcesses(r) \/ RazorpayFails(r))

FairSpec == Spec /\ Fairness

-----------------------------------------------------------------------------
(* Properties. *)

(* Every variable has its type; the columns hold values of their enums.    *)
TypeOK ==
  /\ order \in OrderRow
  /\ payment \in [refund_id: Refunds \cup {NoRefund},
                  status: {"captured", "refunded"}]
  /\ rzp \in [Refunds -> {"none", "pending", "processed", "failed"}]
  /\ env \in EnvType /\ env.late <= env.maxLate
  /\ pc \in [Workers -> Step]
  /\ req \in [Workers -> Request]
  /\ hook \in [Refunds -> HookStatus]

(* A refund marked completed names a refund that Razorpay has processed,   *)
(* and the order's payment says refunded exactly then: neither a create    *)
(* response, a stale recheck nor a webhook of another refund completes it. *)
CompletedIsProcessed ==
  /\ order.refund_status = "completed" =>
       /\ order.refund_reference \in Refunds
       /\ rzp[order.refund_reference] = "processed"
  /\ (order.payment_status = "refunded") = (order.refund_status = "completed")

(* Nothing a request read before its calls to Razorpay, and no webhook,    *)
(* moves a completed refund or replaces the refund it names.               *)
CompletedIsFinal ==
  [][order.refund_status = "completed" =>
       /\ order'.refund_status = "completed"
       /\ order'.refund_reference = order.refund_reference]_vars

(* The payments row never runs ahead of the orders row, and Phase 3 writes *)
(* both in one transaction: an initiated refund is the one on the payments *)
(* row, and a payment marked refunded belongs to the completed refund.     *)
RowsAgree ==
  /\ order.refund_status = "initiated" =>
       payment.refund_id = order.refund_reference
  /\ payment.status = "refunded" =>
       /\ order.refund_status = "completed"
       /\ payment.refund_id = order.refund_reference

(* An order outside the return flow whose refund has begun is cancelled    *)
(* and has no active shipment: the money and the goods never both leave,   *)
(* although cancelOrderAndRefund checks the shipment long before it locks. *)
RefundedIsNotShipped ==
  order.return_status = "none" /\ order.refund_status # "none" =>
    order.order_status = "cancelled" /\ order.shipment # "active"

(* A return's refund is decided only after its inspection passed, and the  *)
(* inspection cannot be turned down once it is.                            *)
RefundPassedInspection ==
  order.return_status = "returned" /\ order.refund_status # "none" =>
    order.inspection_status = "approved"

(* Duplicate refunds are prevented: whatever crashes, lost answers, failed *)
(* database writes and concurrent requests, at most one refund of the      *)
(* order moves money.                                                      *)
AtMostOneLiveRefund == Cardinality(Live) <= 1

(* Money that moves is never lost sight of: while Razorpay holds a live    *)
(* refund the order is processing, initiated or completed -- never         *)
(* approved, failed or rejected (ISSUE-010), states from which a new       *)
(* refund is created or the customer told there will be none.              *)
LiveRefundIsTracked == Live # {} => order.refund_status \in InProgress

(* In a calm world no customer is refunded twice, whatever crashes and     *)
(* whoever asks at once, and no refund on its way is lost sight of.        *)
Calm == ~env.slow /\ ~env.race /\ env.maxLate = 0

CalmRefundIsSingle == Calm => AtMostOneLiveRefund /\ LiveRefundIsTracked

(* The refund.failed webhook "never moves ... a newer retry with a         *)
(* different refund id": no order is failed while a refund moves money.    *)
FailedMovesNoMoney == order.refund_status = "failed" => Live = {}

(* A refund.processed event that completed the order and is acknowledged   *)
(* in the ledger is on the payments row too.                               *)
AcknowledgedIsBooked ==
  \A r \in Refunds :
    /\ hook[r] = "completed" /\ rzp[r] = "processed"
    /\ order.refund_status = "completed" /\ order.refund_reference = r
    => payment.refund_id = r

(* The cron closes every initiated refund, webhooks or not.                *)
InitiatedSettles ==
  order.refund_status = "initiated" ~>
    order.refund_status \in {"completed", "failed"}

(* A refund Razorpay created whose answer or Phase 3 was lost is adopted:  *)
(* the claim does not stay processing for ever with money moving under it  *)
(* (a refund that fails before it is adopted leaves the claim to an admin).*)
LostRefundIsAdopted ==
  []<>~(/\ order.refund_status = "processing"
        /\ order.refund_reference = NoRefund
        /\ Live # {})

-----------------------------------------------------------------------------
(* What the customer is promised, and how this module keeps it.            *)

Outcome == CASE order.refund_status = "completed" -> "refunded"
             [] order.refund_status = "rejected"  -> "rejected"
             [] OTHER -> "open"

Promise == INSTANCE RefundPromise WITH outcome <- Outcome,
                                       moving  <- Cardinality(Live)

(* The detailed refund flow implements the promise.                        *)
KeepsPromise == Promise!Spec
=============================================================================
