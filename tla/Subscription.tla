---------------------------- MODULE Subscription ----------------------------
(***************************************************************************)
(* One subscription: its first order (the origin), the renewal orders of   *)
(* its later charges, the subscription at Razorpay with the webhooks that  *)
(* tell of it, the customer's and the admin's requests to pause, resume    *)
(* and cancel it, and the list of subscriptions, which writes what         *)
(* Razorpay answers.                                                       *)
(*                                                                         *)
(* The handler of one webhook is one UPDATE and one action, except that of *)
(* subscription.charged, which looks up before its transaction. Messages,  *)
(* history rows and the daily reminder (module Reminder) are left out.     *)
(***************************************************************************)
EXTENDS Naturals, Sequences

CONSTANTS
  Requesters,   \* the customer's and the admins' requests
  total_count,  \* charges of the subscription
  MaxNews       \* webhook events that it gives rise to

ASSUME SubscriptionAssumption ==
  /\ total_count \in Nat \ {0}
  /\ MaxNews \in Nat

VARIABLES
  gateway,    \* Razorpay's subscription
  news,       \* the webhook events, in the order in which they happened
  handled,    \*   and where the handling of each is
  origin,     \* the first order's row
  renewal,    \* the subscription_status of each charge's renewal order
  asked,      \* where each request is
  listing,    \* what getMySubscriptions has read
  swallowed,  \* charges whose renewal threw inside its handler
  overtaken   \* was something older written over something newer?

subscriptionVars == <<gateway, news, handled, origin, renewal, asked, listing,
                      swallowed, overtaken>>

Charges == 1..total_count

GatewayStatus == {"none", "created", "active", "pending", "halted", "paused",
                  "cancelled", "completed"}

(* "past_due" and "expired" are the handlers' own words. *)
SubscriptionStatus == (GatewayStatus \ {"none"}) \cup
  {"past_due", "expired", "cancellation_requested"}

OriginRow == [subscription_status: SubscriptionStatus \cup {"none"},
              payment_status: {"pending", "paid", "failed"},
              payment: {0} \cup Charges]

(* subscription.activated writes what the first payment.captured writes,   *)
(* which stands for both.                                                  *)
NewsKind == {"captured", "charged", "failed", "paused", "resumed", "halted",
             "cancelled", "completed"}

Idle == [at |-> "idle", write |-> "none", seen |-> 0]

SubscriptionInit ==
  /\ gateway = [status |-> "none", charges |-> 0, ending |-> FALSE]
  /\ news = <<>> /\ handled = <<>>
  /\ origin = [subscription_status |-> "none", payment_status |-> "pending",
               payment |-> 0]
  /\ renewal = [c \in Charges |-> "none"]
  /\ asked = [r \in Requesters |-> Idle]
  /\ listing = Idle
  /\ swallowed = {}
  /\ overtaken = FALSE

-----------------------------------------------------------------------------
(* Razorpay. *)

OnlyGateway ==
  UNCHANGED <<origin, renewal, asked, listing, swallowed, overtaken>>

Tell(events) ==
  /\ Len(news) + Len(events) <= MaxNews
  /\ news' = news \o events
  /\ handled' = handled \o [i \in 1..Len(events) |-> "due"]

News(k) == [kind |-> k, charge |-> gateway.charges + 1]

(* A charge succeeds; the first one activates the subscription.            *)
RazorpayCharges ==
  /\ gateway.status \in {"created", "active", "pending"}
  /\ gateway.charges < total_count /\ ~gateway.ending
  /\ gateway' = [gateway EXCEPT !.status = "active", !.charges = @ + 1]
  /\ Tell(<<News("captured"), News("charged")>>)
  /\ OnlyGateway

(* A charge fails and is retried, or the retries are given up; a cycle     *)
(* ends which was the last, or was to be; another dashboard has paused or  *)
(* resumed the subscription.                                               *)
RazorpayMoves ==
  \E m \in {<<"active", "pending", "failed">>, <<"pending", "pending", "failed">>,
            <<"pending", "halted", "halted">>, <<"active", "paused", "paused">>,
            <<"paused", "active", "resumed">>, <<"active", "cancelled", "cancelled">>,
            <<"paused", "cancelled", "cancelled">>,
            <<"active", "completed", "completed">>} :
    /\ gateway.status = m[1]
    /\ m[3] = "cancelled" => gateway.ending
    /\ m[3] = "completed" => gateway.charges = total_count
    /\ m[3] = "failed" => gateway.charges < total_count
    /\ gateway' = [gateway EXCEPT !.status = m[2]]
    /\ Tell(<<News(m[3])>>)
    /\ OnlyGateway

-----------------------------------------------------------------------------
(* The subscription's orders. *)

Saved == origin.subscription_status # "none"

(* createSubscription creates it at Razorpay, ... *)
SubscribeAtRazorpay ==
  /\ gateway.status = "none"
  /\ gateway' = [gateway EXCEPT !.status = "created"]
  /\ UNCHANGED <<news, handled>> /\ OnlyGateway

(* ... and then its order, in a transaction that may fail instead: the     *)
(* customer, who gets no subscription id, pays nothing.                    *)
createSubscription ==
  /\ gateway.status = "created" /\ ~Saved
  /\ origin' = [origin EXCEPT !.subscription_status = "created"]
  /\ UNCHANGED <<gateway, news, handled, renewal, asked, listing, swallowed,
                 overtaken>>

(* Fault: a charge's payment id may be stored a second time. *)
AnyPaymentId(c) == TRUE

(* uq_orders_razorpay_payment_id *)
PaymentIdIsNew(c) == renewal[c] = "none" /\ origin.payment # c

(* What an event says of the subscription. *)
Shown(k) == CASE k \in {"captured", "charged", "resumed"} -> "active"
              [] k = "failed" -> "past_due"
              [] k = "completed" -> "expired"
              [] OTHER -> k

(* The status s, which was true after the first n events, is written after *)
(* the handling of a later one that says otherwise.                        *)
Outdated(n, s) ==
  \E j \in DOMAIN news :
    j > n /\ handled[j] \in {"again", "done"} /\ Shown(news[j].kind) # s

(* The subscription's branch of verifyPayment: the transaction behind the  *)
(* check of the signature, which only the first charge's checkout has. It  *)
(* fails when the charge has its renewal order already.                    *)
verifySubscriptionPayment ==
  /\ gateway.charges > 0 /\ Saved
  /\ origin.payment = 0
  /\ PaymentIdIsNew(1)
  /\ origin' = [subscription_status |-> "active", payment_status |-> "paid",
                payment |-> 1]
  /\ overtaken' = (overtaken \/ Outdated(0, "active"))
  /\ UNCHANGED <<gateway, news, handled, renewal, asked, listing, swallowed>>

-----------------------------------------------------------------------------
(* The webhooks. An event is "due" until a delivery has handled it, and    *)
(* "again" when the handler threw after its UPDATE. One whose process died *)
(* stays as it is for ever, for redeliveries are then turned away.         *)

OnlyNews == UNCHANGED <<gateway, news, asked, listing>>

OutOfTurn(i) == \E j \in 1..(i - 1) : handled[j] # "done"

Handled(i, s) == handled' = [handled EXCEPT ![i] = s]

(* The UPDATEs, on the row o; those of a status alone have a guard against *)
(* writing what the row has.                                               *)
Becomes(o, s) == [o EXCEPT !.subscription_status = s]

Unless(o, s, p) ==
  IF o.subscription_status = s THEN o
    ELSE [Becomes(o, s) EXCEPT !.payment_status = p]

payment_captured(o) == Unless(o, "active", "paid")

payment_failed(o) ==
  IF o.payment_status = "failed" THEN o
    ELSE [Becomes(o, "past_due") EXCEPT !.payment_status = "failed"]

subscription_paused(o) == Becomes(o, "paused")

subscription_resumed(o) == Becomes(o, "active")

(* Fault: the guard is payment.failed's. *)
HaltedUnlessFailed(o) ==
  IF o.payment_status = "failed" THEN o
    ELSE [Becomes(o, "halted") EXCEPT !.payment_status = "failed"]

subscription_halted(o) == Unless(o, "halted", "failed")

subscription_cancelled(o) == Becomes(o, "cancelled")

subscription_completed(o) == Becomes(o, "expired")

(* loadBySubscription may find nothing; a statement after the UPDATE may   *)
(* throw, so that the event is delivered again.                            *)
HandleEvent(i) ==
  LET k == news[i].kind
      o == CASE k = "captured" -> payment_captured(origin)
             [] k = "failed" -> payment_failed(origin)
             [] k = "paused" -> subscription_paused(origin)
             [] k = "resumed" -> subscription_resumed(origin)
             [] k = "halted" -> subscription_halted(origin)
             [] k = "cancelled" -> subscription_cancelled(origin)
             [] k = "completed" -> subscription_completed(origin) IN
  /\ handled[i] \in {"due", "again"} /\ k # "charged"
  /\ origin' = IF Saved THEN o ELSE origin
  /\ \/ Handled(i, "done")
     \/ origin' # origin /\ Handled(i, "again")
  /\ overtaken' = (overtaken \/ OutOfTurn(i))
  /\ OnlyNews /\ UNCHANGED <<renewal, swallowed>>

(* createRenewalOrder: the lookup of an order with this payment, ... *)
LookForRenewal(i) ==
  /\ handled[i] = "due" /\ news[i].kind = "charged"
  /\ Handled(i, IF renewal[news[i].charge] = "none" THEN "renewing" ELSE "done")
  /\ OnlyNews /\ UNCHANGED <<origin, renewal, swallowed, overtaken>>

(* ... and the transaction, which also writes the origin's status. *)
createRenewalOrder(i) ==
  LET c == news[i].charge IN
  /\ handled[i] = "renewing"
  /\ Saved /\ PaymentIdIsNew(c)
  /\ renewal' = [renewal EXCEPT ![c] = "active"]
  /\ origin' = [origin EXCEPT !.subscription_status = "active"]
  /\ Handled(i, "done")
  /\ overtaken' = (overtaken \/ OutOfTurn(i))
  /\ OnlyNews /\ UNCHANGED swallowed

(* It throws, for whatever reason: the handler logs it and the event is    *)
(* marked completed.                                                       *)
RenewalThrows(i) ==
  /\ handled[i] = "renewing"
  /\ Handled(i, "done")
  /\ swallowed' = swallowed \cup {news[i].charge}
  /\ OnlyNews /\ UNCHANGED <<origin, renewal, overtaken>>

-----------------------------------------------------------------------------
(* The requests of the customer and of the admin. *)

OnlyRequest == UNCHANGED <<renewal, listing, swallowed>>

Goes(r, s) == asked' = [asked EXCEPT ![r] = s]

Ends(r) == Goes(r, Idle)

(* The row is read. A resume needs it paused, the admin's pause not        *)
(* cancelled, the customer's needs nothing.                                *)
Begin(r, w) ==
  /\ asked[r].at = "idle" /\ Saved
  /\ Goes(r, [at |-> "call", write |-> w, seen |-> 0])
  /\ UNCHANGED <<gateway, news, handled, origin, overtaken>> /\ OnlyRequest

pauseSubscription(r) == Begin(r, "paused")

resumeSubscription(r) == origin.subscription_status = "paused" /\ Begin(r, "active")

cancelSubscription(r) == Begin(r, "cancellation_requested")

(* Razorpay does what it is asked to where it can. *)
Obeys(r, w, event) ==
  /\ asked[r].at = "call" /\ asked[r].write = w
  /\ Tell(event)
  /\ Goes(r, [asked[r] EXCEPT !.at = "save", !.seen = Len(news) + Len(event)])
  /\ UNCHANGED <<origin, overtaken>> /\ OnlyRequest

RazorpayPauses(r) ==
  /\ gateway.status = "active"
  /\ gateway' = [gateway EXCEPT !.status = "paused"]
  /\ Obeys(r, "paused", <<News("paused")>>)

RazorpayResumes(r) ==
  /\ gateway.status = "paused"
  /\ gateway' = [gateway EXCEPT !.status = "active"]
  /\ Obeys(r, "active", <<News("resumed")>>)

RazorpayCancels(r) ==
  /\ gateway.status \in {"active", "pending", "paused"} /\ ~gateway.ending
  /\ gateway' = [gateway EXCEPT !.ending = TRUE]
  /\ Obeys(r, "cancellation_requested", <<>>)

(* It refuses, or its answer is lost or the process dies, then or before   *)
(* the row is written.                                                     *)
RequestFails(r) ==
  /\ asked[r].at \in {"call", "save"}
  /\ Ends(r)
  /\ UNCHANGED <<gateway, news, handled, origin, overtaken>> /\ OnlyRequest

(* The UPDATE, guarded by the statuses that the request expects. *)
updateSubscriptionOrder(r, w, expectedSubscriptionStatuses) ==
  /\ asked[r].at = "save" /\ asked[r].write = w
  /\ IF origin.subscription_status \in expectedSubscriptionStatuses
       THEN /\ origin' = Becomes(origin, w)
            /\ overtaken' = (overtaken \/ Outdated(asked[r].seen, w))
       ELSE UNCHANGED <<origin, overtaken>>
  /\ Ends(r)
  /\ UNCHANGED <<gateway, news, handled>> /\ OnlyRequest

SavePaused(r) ==
  updateSubscriptionOrder(r, "paused", {"active", "authenticated", "pending"})

SaveResumed(r) == updateSubscriptionOrder(r, "active", {"paused"})

SaveCancellation(r) ==
  updateSubscriptionOrder(r, "cancellation_requested",
                          {"active", "authenticated", "pending", "paused"})

-----------------------------------------------------------------------------
(* getMySubscriptions asks Razorpay for each subscription, reads the       *)
(* status of a row of it, whichever comes first, and writes all its rows.  *)

OnlyListing == UNCHANGED <<gateway, news, handled, asked, swallowed>>

FetchSubscription ==
  /\ listing.at = "idle" /\ Saved
  /\ listing' = [at |-> "read", write |-> gateway.status, seen |-> Len(news)]
  /\ UNCHANGED <<origin, renewal, overtaken>> /\ OnlyListing

PROTECTED_SYNC_STATUSES == {"cancellation_requested", "cancelled"}

ReadStatus ==
  /\ listing.at = "read"
  /\ \E s \in {origin.subscription_status} \cup
              {renewal[c] : c \in {d \in Charges : renewal[d] # "none"}} :
       listing' = [listing EXCEPT !.at = "save",
                    !.write = IF s \in PROTECTED_SYNC_STATUSES THEN s ELSE @]
  /\ UNCHANGED <<origin, renewal, overtaken>> /\ OnlyListing

(* Razorpay's word for a status is the handlers', or another. *)
SameStatus(s) == CASE s = "pending" -> "past_due" [] s = "completed" -> "expired"
                   [] OTHER -> s

getMySubscriptions ==
  /\ listing.at = "save"
  /\ origin' = [origin EXCEPT !.subscription_status = listing.write]
  /\ renewal' = [c \in Charges |->
       IF renewal[c] = "none" THEN "none" ELSE listing.write]
  /\ overtaken' =
       (\/ overtaken
        \/ IF listing.write \in PROTECTED_SYNC_STATUSES
             THEN origin.subscription_status # listing.write
             ELSE Outdated(listing.seen, SameStatus(listing.write)))
  /\ listing' = Idle
  /\ OnlyListing

-----------------------------------------------------------------------------
Handle(i) == HandleEvent(i) \/ LookForRenewal(i) \/ createRenewalOrder(i)

SubscriptionNext ==
  \/ SubscribeAtRazorpay \/ createSubscription \/ verifySubscriptionPayment
  \/ RazorpayCharges \/ RazorpayMoves
  \/ \E i \in DOMAIN news : Handle(i) \/ RenewalThrows(i)
  \/ \E r \in Requesters :
       \/ pauseSubscription(r) \/ RazorpayPauses(r) \/ SavePaused(r)
       \/ resumeSubscription(r) \/ RazorpayResumes(r) \/ SaveResumed(r)
       \/ cancelSubscription(r) \/ RazorpayCancels(r) \/ SaveCancellation(r)
       \/ RequestFails(r)
  \/ FetchSubscription \/ ReadStatus \/ getMySubscriptions

SubscriptionSpec == SubscriptionInit /\ [][SubscriptionNext]_subscriptionVars

-----------------------------------------------------------------------------
(* Properties. *)

SubscriptionTypeOK ==
  /\ gateway \in [status: GatewayStatus, charges: 0..total_count, ending: BOOLEAN]
  /\ news \in Seq([kind: NewsKind, charge: 1..(total_count + 1)])
  /\ Len(news) <= MaxNews
  /\ handled \in [DOMAIN news -> {"due", "again", "renewing", "done"}]
  /\ origin \in OriginRow
  /\ renewal \in [Charges -> SubscriptionStatus \cup {"none"}]
  /\ swallowed \subseteq Charges /\ overtaken \in BOOLEAN

Booked(c) == origin.payment = c \/ renewal[c] # "none"

(* A charge is booked on one order: the origin, by the customer's verify   *)
(* request, or a renewal, by the webhook, whichever of the two comes first.*)
OneOrderPerCharge == \A c \in Charges : origin.payment = c => renewal[c] = "none"

(* A charge whose webhook is acknowledged has its order, short of the      *)
(* errors that the handler swallows.                                       *)
ChargeIsBooked ==
  \A i \in DOMAIN news :
    news[i].kind = "charged" /\ handled[i] = "done"
      => Booked(news[i].charge) \/ news[i].charge \in swallowed

AtRest ==
  /\ \A i \in DOMAIN news : handled[i] = "done"
  /\ \A r \in Requesters : asked[r] = Idle
  /\ listing = Idle

(* When all is handled and answered, the customer is shown what Razorpay   *)
(* has, unless something older was written over something newer. The guard *)
(* of payment.failed looks at the payment's column: where the list wrote   *)
(* the status alone a failed charge may show in that column only.          *)
AgreesAtRest ==
  AtRest /\ Saved /\ ~overtaken =>
    LET s == origin.subscription_status IN
    \/ CASE gateway.status = "pending" -> \/ s \in {"past_due", "pending"}
                                         \/ origin.payment_status = "failed"
         [] gateway.status = "completed" -> s \in {"expired", "completed"}
         [] OTHER -> s = gateway.status
    \/ /\ gateway.ending /\ gateway.status \notin {"cancelled", "completed"}
       /\ s = "cancellation_requested"

(* Every charge becomes one order. *)
SubscriptionSafe == SubscriptionTypeOK /\ OneOrderPerCharge /\ ChargeIsBooked

(* "Never marked before the business operation actually succeeds": a charge*)
(* whose webhook is completed has its order.                               *)
CompletedIsBooked ==
  \A i \in DOMAIN news :
    news[i].kind = "charged" /\ handled[i] = "done" => Booked(news[i].charge)
=============================================================================
