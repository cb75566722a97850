# BREE backend: TLA+ models and proofs

BREE is a Node/Express shop backend on MySQL (InnoDB) that takes payments and
refunds through Razorpay, ships through Delhivery and tells customers by email
and WhatsApp. Everything of interest happens between those four parties: the
process holds almost no state of its own, every HTTP handler, webhook and cron
is an interleaving of short transactions, single autocommitted statements and
calls to a third party that may fail, time out or succeed without saying so.
This directory models those protocols in TLA+, checks them with TLC on small
instances and proves the most important facts with TLAPS.

Paths below are relative to the repository; the models' comments name the same
functions.

## 1. Inventory

| Part (letter of the plan) | State it keeps | Operations | Interacts with | What makes it correct |
|---|---|---|---|---|
| **A Refund** `src/controllers/admin/returnController.js`, `orderCancellationController.js`, `cron/refundReconciliationCron.js`, refund events of `paymentController.js` | refund columns of `orders`, refund columns of `payments` | approve/reject inspection, approve/reject refund, `completeRefund` (create, recheck, adopt_only), `cancelOrderAndRefund`, reconciliation cron, `refund.processed`, `refund.failed` | Razorpay (create, list, fetch), webhook ledger, shipping, notifications | never two refunds; a refund is completed only when Razorpay processed it, and then for good; a live refund is never lost; goods and money never both leave |
| **B Claims and ledgers** `webhookIdempotencyService.js`, `checkoutIdempotencyService.js` | `webhook_events`, `checkout_idempotency` | claim, mark completed, mark failed | webhook handler, `createOrder` | an event's effects happen once; a failed attempt may be retried; a retried checkout gets the first order |
| **C Payment finalisation** `paymentController.js` | `orders.order_status/payment_status`, `payments` | `createOrder`, `verifyPayment`, `payment.captured`, `payment.failed` | Razorpay, B, I, D | paid exactly when captured; confirmation once; late events do not move an order back |
| **D Package fulfilment** `packageFulfillmentService.js`, its cron | `package_purchases`, cycle orders | create the purchase, fulfil the next due cycle, repair missing purchases | C, counters, cron lock | each cycle once, in order, not early, never more than were bought |
| **E Bulk booking** `bulkController.js`, `bulkOrderService.js` | `bulk_bookings` | enquiry, quote, approve, Razorpay order, verify, confirm into an order | Razorpay, counters | one order per booking, at the price that was paid; a paid booking stays paid; a payment that is refused leaves a trace |
| **F Subscriptions** `subscriptionController.js`, `subscriptionAdminController.js`, `renewalService.js`, subscription webhooks | `orders.subscription_status`, renewal orders | create, pause, resume, cancel, `subscription.*` events | Razorpay, B, I | one renewal order per charge; the local status follows Razorpay's last word |
| **G Forward shipping** `shippingController.js`, `cron/shippingTrackingCron.js`, `constants/orderStatus.js` | shipment columns of `orders` | create, reconcile, schedule pickup, cancel, track | Delhivery, I | one shipment per order; status moves forward only; a delivered order stays delivered |
| **H Return flow** `returnController.js`, `reverseShipmentTracking.js` | return columns of `orders` | approve, reject, reverse shipment, mark returned, inspect, track | Delhivery, A, I, N | one reverse shipment, never unknown; the steps happen in order; a receipt is proven or owned by an admin |
| **I Notifications** `orderStatusNotificationService.js`, `notificationReconciliation.js`, `customerOrderNotifications.js` | `order_status_notifications` | claim, send, record, retry with back-off, recover a missing row, give up on a stale claim | every part above, email and WhatsApp providers | at most one delivery per event and channel unless a provider surely refused; a lost event is recovered |
| **J Daily reminders** `cron/dailyReminderCron.js`, `dailyReminderService.js` | `daily_reminders`, `daily_reminder_sends`, permits of the process | activate, send today's, stop, pause, resume | the order's row, the pool, WhatsApp | one message a day at most, none after a return is approved or the order cancelled; every tick ends |
| **K Sessions** `authController.js`, `authService.js`, `jwt.js`, `socketAuth.js` | `refresh_tokens`, OTPs, `admin_session_revocations` | login, OTP, refresh, logout, socket handshake | MySQL | not modelled: what matters about it is secrecy |
| **L Realtime** `orderRealtime.js`, socket set-up in `server.js` | rooms of connected sockets | publish an order update | all writers | updates reach admins and the owner only |
| **M Number counters** `orderNumber.js`, `customerNumber.js`, `packageNumber.js`, `bulkBookingNumber.js` | counter rows | draw the next number | C, D, E | no number is drawn twice |
| **N Cron lock** `utils/cronLock.js` | MySQL `GET_LOCK` | run a job or skip the tick | every cron | at most one instance at a time; always released |
| **P Pricing** `createOrder`, `getShippingInfo`, `applyPromotions` of `paymentController.js`, `orderTotals.js` | the amounts of `orders` | price the cart, ask Razorpay for an order, fill Magic Checkout's window, compare the payment | products, C, Razorpay | the window collects the order's total, which is what the shop showed |
| Not modelled | | product catalogue (but for an admin's edits that a checkout meets), cart, addresses, profile, testimonials, contact (row-at-a-time CRUD); response cache; realtime rooms; email and WhatsApp wording; migrations | | |

The hard behaviours are the same everywhere, and `PROJECT.json` lists each at its
line under "hazards": a row lock is released before a third party is called, so
what was read may be stale when it is used; an error from a third party does not
say that nothing happened; a claim can be taken over by time alone; webhooks
arrive late, twice, out of order or never; a process may die between any two
statements; and bookkeeping is spread over two rows and a ledger.

## 2. Plan

Modules, in the order in which they were written (the refund first: it is where a
mistake costs money and where the most actors meet):

| Module | Part | Proofs | Checked in |
|---|---|---|---|
| `Refund`, `RefundPromise` (what it promises) | A, refund webhooks, B's ledger | `RefundProofs` | `refund_*` |
| `Notification` | I | `NotificationProofs` | `services` |
| `Payment` | C, B's ledger | `PaymentProofs` | `services`, `paying`, `payment_late` |
| `Shipping` | G | `ShippingProofs` | `fulfilment`, `shipping_track` |
| `Checkout` | `createOrder`'s protocol: B's key, M's counter, the pool | `CheckoutProofs` | `services` |
| `Return` | H, N | `FulfilmentProofs` | `fulfilment` |
| `Package` | D | `FulfilmentProofs` | `fulfilment` |
| `Reminder` | J | `ReminderProofs` | `services` |
| `Subscription` | F, B's ledger | `PayingProofs` | `paying`, `renewal_lost` |
| `Bulk` | E | `PayingProofs` | `paying`, `bulk_trace` |
| `Pricing` | P | `CheckoutProofs` | `fulfilment` |

Every safety property of the passing runs is proved, and of most of their liveness
properties the part that does not rest on fairness (section 15). Left, in this order:

1. The fairness arguments themselves. What each would rest on is proved; that a step which
   is enabled is taken in the end stays with TLC.
2. Composition: `Return` hands `inspection_status` to `Refund`, which takes it as given.

## 3. Refund: how the model corresponds to the code

`Refund` follows one prepaid order. Its variables are the columns of the `orders`
row that the refund flow reads or writes (`order`), the refund columns of the
`payments` row (`payment`), Razorpay's status of every refund (`rzp`), refund
requests that outlived their caller (`env.late`), the program counter and local
variables of each request (`pc`, `req`), and for each refund the delivery of its
outcome webhook together with its `webhook_events` row (`hook`).

An action is one transaction (`SELECT ... FOR UPDATE` to `COMMIT`), one
autocommitted statement or one call to Razorpay:

| Code | Actions |
|---|---|
| `approveInspection`, `rejectInspection`, `approveRefund`, `rejectRefund` | one action each, of the same name |
| `cancelOrderAndRefund`: unlocked snapshot, Razorpay's view of the payment, locked re-check | `CancelSnapshot`, `verifyRazorpayPaymentForOrder`, `CancelLocked`, then on to `completeRefund` |
| `completeRefund` Phase 1 | `Recheck`, `Claim`, `AdoptOnly`, `Refuse` |
| Phase 2 | `findExistingRazorpayRefund`, `LookupFails`, `RefundCreated`, `RefundErrors`, `LookupAfterError`, `Revert`, `FetchRefund`, `MarkFailed` |
| Phase 3 | `Persist`, with `Superseded`, `BookRefund` and the row images `CompletedBy`, `InitiatedBy` |
| `reconcilePendingRefunds` | the worker `Cron`: `Recheck`, `AdoptOnly` and the steps that follow; one at a time, which is what `runWithCronLock` is for |
| `handleWebhook`, `refund.processed` / `refund.failed`; `webhookIdempotencyService` | `claimWebhookEvent`, `RefundWebhook`, `RefundWebhookBooks`, `RefundWebhookBookingFails`, `RefundWebhookFails`, `RefundWebhookCrash` |
| `createShipment`, `cancelShipment` | one action each, only their effect on the refund's guards |
| Razorpay, the network, the clock | `RazorpayProcesses`, `RazorpayFails`, `LateRequestArrives`, `TwoMinutesPass` |

Decisions a reader should know of:

- `stale` stands for `updated_at` being more than two minutes old
  (`isProcessingClaimStale`). Every UPDATE of the row clears it, `TwoMinutesPass`
  sets it; only a `processing` row is asked.
- `Crash` is both the death of the process and a database call that throws inside
  a step: the request ends and the step's effect is rolled back. It also covers a
  failing `refunds.fetch`, which ends the request without a write.
- The webhook's candidate query and its guarded UPDATE are one action: the guard
  repeats what the query matched on, and a row that matched cannot become
  unmatched and match again differently in between.
- `cancelShipment` reads without a lock, calls Delhivery and then writes
  unconditionally; for a shipment that is not delivered, nothing it decided on can
  change meanwhile except through another cancel, so one action stands for it.
- An order starts either paid and ready to ship, or delivered with its return
  received (`ReadyOrder`, `ReturnedOrder`): the steps before are those of `Payment`,
  `Shipping` and `Return`.
- Not modelled: the admin's status PATCH (`admin/orderController.js`, 500-600),
  which may set `payment_status` to any known value and `order_status` to any
  valid next step without looking at the refund columns; `CompletedIsProcessed`
  and `RefundedIsNotShipped` are about an order that nobody edits that way.
- Not modelled: the refusal of package-cycle orders without a payment of their own,
  refunds made by hand in Razorpay's dashboard (they carry no `notes.order_id`),
  `refund_gateway_status` / `refund_rrn`, history rows, realtime updates and
  notifications (part I).

### The environment

Three fields of `env`, chosen at the start from the constant `Environments` and never
changed, say what the outside may do; `MCRefund` names the sets the runs use.

- `slow`: may a call to Razorpay outlive the two minute claim? The SDK client
  (`config/razorpay.js`) sets no timeout, so it can.
- `maxLate`: how many refund requests may reach Razorpay after their caller saw an
  error. A lookup that finds nothing does not prove that nothing will come: in
  `refund_hostile` a claim may be reverted, its refund rejected, and the request then
  arrive.
- `race`: may a refund fail, and its `refund.failed` be delivered, while
  another attempt at the refund runs?

### Properties and runs

All runs use two Razorpay refunds, a payment of two units (so that a refund is
partial or full, and two partial refunds fit), and crashes at every step. Two
admins (and the cron) are the smallest set in which one request overtakes another
while a third party also acts; two refunds are the smallest set in which a second
one can exist. A settled order has nothing left to do, so deadlock is not an error
in any run.

| Run | Environment | Shows |
|---|---|---|
| `refund_hostile` | each behaviour has one of two environments: hostile, where anything goes, and calm (`Calm`), where calls end within two minutes, no request is late and failures do not race | hostile: `TypeOK`, `CompletedIsProcessed`, `CompletedIsFinal`, `RowsAgree`, `RefundedIsNotShipped`, `RefundPassedInspection`; calm: `CalmRefundIsSingle`, that is `AtMostOneLiveRefund` and `LiveRefundIsTracked` |
| `refund_live` | calm, one admin, fair | `InitiatedSettles`, `LostRefundIsAdopted`, and the refinement `KeepsPromise` of `RefundPromise` |
| `refund_slow` | slow calls | *violates* `AtMostOneLiveRefund` |
| `refund_race` | racing failures | *violates* `FailedMovesNoMoney` |
| `refund_books` | calm | *violates* `AcknowledgedIsBooked` |

The last three are disagreements between what comments and the README say and what
the code does; `PROJECT.json` quotes both sides. In words: the two minute claim is
a lease without fencing, so a request slower than the lease refunds twice; the claim
of a retry keeps the failed refund's id, so that refund's late webhook fails the retry;
and the redelivery of a webhook whose bookkeeping failed does not book.

The operators introduced by "Fault:" comments are plausible bugs (a dropped guard,
a wrong column, a missing branch). Each replaces the definition it follows in its
name and makes one property fail under the run that checks it, which shows that
the property depends on that code.

### Fairness

`Fairness` asks for what the program can be relied on to repeat: the cron fires
twice an hour and each of its steps is retried on later ticks until one is not cut
short by a crash or an unreachable Razorpay, hence strong fairness of those
steps; Razorpay settles a pending refund; the clock advances; an admin request
that began ends, if only by dying. No admin need begin anything and no webhook
need ever be delivered. `LostRefundIsAdopted` excludes a refund that fails before
it is adopted: the code leaves that claim to an admin.

## 4. Notification: how the model corresponds to the code

`Notification` follows one row of `order_status_notifications`, that is one key
(order, event, channel). Its variables are the columns of that row (`status`,
`attempts`, `next_retry_at`, and `last_attempt`, the age of `last_attempt_at`), what
the order says of the event (`event`: is it current, how old is its timestamp), the
program counter of each worker (`pc`), what its `send()` ended with (`outcome`) and
where the reconciler goes on after a delivery (`back`). `accepted` counts what the
provider accepted; no code can read it, the properties do.

An action is one autocommitted statement or one call to the provider:

| Code | Actions |
|---|---|
| `notifyCustomerOrderEvent`, the trackers' announcements | `EventHappens` |
| `sendOrderStatusNotificationOnce` | `InsertIgnore`, `Claim`, `DuplicateSkipped`, `Send`, `SendNothing`, `RecordSent`, `RecordFailure`, `scheduleNotificationRetry` |
| `sendTemplateMessage`, `sendEmail` and how they classify errors | the outcomes of `Send` |
| `reconcileCustomerNotifications`, one pass | `retryDueNotifications`, `CheckCurrent`, `dropRetry`, `Rearm`, `recoverMissingNotifications`, `LookForRow`, `markStaleSendingUnknown`; the sends in between are the actions above |
| a statement that throws, a process that dies | `StatementFails`, `Crash` |
| the order moving on, the clock | `EventPasses`, `EventAges`, `AttemptAges`, `RetryFallsDue` |

Decisions a reader should know of:

- `family` says what the key names: a customer event that the reconciler recovers
  (`recovery` in `customerOrderEvents.js`), another customer event, or a shipment
  status. Only shipment senders take over a stale claim (`reclaimStaleSending`), only
  customer events are retried and reconciled. The key of `cancelled` is shared by
  both kinds of sender, but an order is cancelled once, so one of them announces it;
  the admin's announcement of it is not modelled.
- `retryFailed` is passed by no caller and is left out.
- A provider that accepts a message may answer, or its answer may be lost
  (`unknown`); a refusal is certain. That is what the two classifiers promise.
- The trackers pass an email callback that writes of "out for delivery", "delivered" and
  "shipped" alone (`shippingTrackingCron.js:277`, `shippingController.js:2090`): of
  another status, as cancelled or returned, it resolves and has called nobody, and the row
  becomes `sent` (`SendNothing`). So `sent` on a shipment status may be of no message,
  and `VerdictIsFinal` asks for an acceptance of customer events only, whose senders
  always call their provider.
- A database error after an acceptance is `StatementFails` at `record`: it is
  logged, and the row stays `sending`.
- Times are classes: an attempt is younger than 5, older than 5, older than 15
  minutes; an event is inside the grace, inside the lookback window, or too old.
- Not modelled: missing recipients, the batch limit, several rows in one pass (they
  share nothing but the pass), the report of unknown rows, the operator's manual
  UPDATE of an unknown row.

The run `services` uses two senders, the fewest whose announcements overlap, one
reconciler (`runWithCronLock` admits one) and two attempts, the fewest with a retry
that succeeds and a limit that is reached. It shows `ToldOnce`, `RetryMeansRefused`,
`AttemptsBounded`, `VerdictIsFinal` and, under fairness, `NothingIsForgotten`: a lost
announcement is recovered or too old, a scheduled retry is sent or dropped, a row
left `sending` is given up. `ToldOnce` is about customer events: a shipment
status whose sender died after the provider's acceptance is sent again by whoever
observes it five minutes later, which the code chooses and says.

Fairness: a pass of the reconciler goes on, and starts again at the next tick
(weak fairness of its next step); a scheduled retry falls due and a claim ages. Failures
may strike the reconciler at any step any number of times, until `CalmBegins`; that
it some day begins is the assumption that not every pass for ever is cut
short. Senders may stop for good anywhere, and the event need neither pass nor age.

What the model shows and no property excludes: a process that dies between marking a
row `failed` and scheduling its retry leaves it failed for good, although nobody
accepted the message.

## 5. Payment: how the model corresponds to the code

`Payment` follows one ordinary (not subscription) order. Its variables are three
columns of its `orders` row, the status of its `payments` row, Razorpay's status of
each attempt to pay (`rzp`), the step and payment of each verify request (`pc`,
`attempt`), and for each `payment.captured` and `payment.failed` its `webhook_events`
row (`ledger`) and the step of the delivery that holds it (`at`). `confirmed` says
whether the confirmation was announced; `refund` is the payment that an approved
refund will return.

| Code | Actions |
|---|---|
| `verifyPayment` up to its transaction; the transaction; what follows it | `VerifySnapshot`; `VerifyLocked`; `VerifyNotifies`; `VerifyEnds` for everything that ends it early |
| `handleWebhook`, its ledger | `claimWebhookEvent`, `markWebhookEventCompleted`, `DeliveryThrows` with `markWebhookEventFailed` |
| `payment.captured` | `CapturedLocked`, `CapturedConflict`, `CapturedNotifies` |
| `payment.failed` | `FailedOrder`, `markPaymentRowFailed` |
| `updateOrderStatus`, `cancelOrderAndRefund`, `completeRefund` of the whole payment | `updateOrderStatus`, `cancelOrderAndRefund`, `RefundCompletes` |
| Razorpay; the death of a process | `RazorpayAuthorizes`, `RazorpayCaptures`, `RazorpayFails`; `DeliveryDies`, `VerifyEnds` |

Decisions a reader should know of:

- `classifyPaymentState` is the code's function; verify asks it twice, on the unlocked
  snapshot and again under the lock, the webhook once. What verify reads before the
  lock is one action: a snapshot that refuses the request changes nothing, and only
  its verdict survives into the transaction.
- `payment.captured` writes an order that is already paid, too, which repeats
  `order_status = 'paid'`; verify does not. That difference is in the model.
- A ledger row is `due` when Razorpay has the event to tell and there is no row or a
  failed one. A delivery that finds the row claimed or completed does nothing and is
  no step. A process that dies leaves the row `processing`, and every redelivery is
  then turned away for good (`Stranded`).
- `payments.razorpay_payment_id` is written with the order's and only by the same
  statements, so its status alone is kept. `processing` stands for that and every
  later step of an order.
- The refund is reduced to what it does to these columns; `Refund` has it in full.
  The announcement's claim is `Notification`'s, so `confirmed` is a Boolean.
- Not modelled here: subscription payments (`Subscription`), the package purchase that
  follows a payment (`Package`), amounts (`Pricing`), addresses and contact data, partial refunds, an admin who sets
  `payment_status` by hand, and verify's fallback INSERT of a missing `payments` row.

`world.in_order`, chosen in `Init` and never changed, says what the environment may do.
Where it is false, anything: a failure may be told
after another attempt succeeded, a payment may succeed or be told after the order was
cancelled or refunded, a refund may complete while a verify request is under way.
Where it is true, a payment succeeds while the order is open and no failure is untold; a
failure happens before any success; the admin acts once the news of payments are
in, and refunds the order's only payment when no verify request waits for its lock. The
events themselves still arrive while verify runs, are repeated after errors, overtake
one another and are cut short anywhere.

| Run | Environment | Shows |
|---|---|---|
| `services` | news in order, fair | `CapturedIsBooked` (as `PaymentIsBooked`) |
| `paying` | both | `TypeOK`, `PaidIsPaidFor`, `StoredPaymentStays`; of news in order `RowsAgree`, `OrderNeverMovesBack` |
| `payment_late` | both, one attempt | *violates* `CancelledIsTerminal` |

Two attempts are the fewest that can be in conflict, or fail one after the other
succeeded. One verify request runs at a time, beside a delivery of each of the four
events; verify requests among themselves are serialised by the same row lock as verify
and webhook, and the proof is for any number. Attempts are interchangeable, hence the
symmetry in the run without liveness. The row may rest for ever in any state, so
deadlock is no error.

`payment_late` is the disagreement between "a cancelled order is terminal" and the two
statements that write `order_status = 'paid'` whatever it was. The same statements,
and `payment.failed`, which writes without looking, are why `OrderNeverMovesBack` and
`RowsAgree` are claimed only of news in order.

Fairness: Razorpay delivers an event until it is acknowledged, so each delivery goes on
(`WF` of `Deliver(e)`); and some day no delivery is cut short any more (`CalmBegins`).
No customer need come back to the checkout page and no admin need act:
`CapturedIsBooked` says that the webhook alone books and confirms a payment. It
excepts a stranded event, and an order with two successful payments, where the second
is in conflict by design and left for a person to refund.

## 6. Shipping: how the model corresponds to the code

`Shipping` follows one paid order to its customer. Its variables are the columns of
the `orders` row that say where the parcel is, the parcel's status at Delhivery
(`parcel`, and in `past` every status it has had), the row as the tracking cron read it
(`cron`), the status that a tracking request waits to store (`waiting`), and the
cancellations between Delhivery's acceptance and the UPDATE (`cancelling`).

| Code | Actions |
|---|---|
| `createShipment`; its branch for a duplicate order reference; `reconcileShipment` | `createShipment`; `CreateDuplicate`; `reconcileShipment` |
| `schedulePickup` | `schedulePickup` |
| `trackShipment` | `trackShipment`, and for a status that moves the order on `TrackCommits` or `TrackTimesOut` |
| `cancelShipment`: the unlocked read and the call; the transaction; what ends it early | `CancelAccepted`; `CancelWrites`; `CancelDies` |
| `updateOrderStatus` of the admin, `cancelOrderAndRefund` | one action each, of the same name |
| `syncShippingTracking`: the SELECT; the call and the guarded UPDATE; an error | `CronSelects`; `CronWrites`; `CronFails` |
| Delhivery | `ParcelTravels`, and what `createShipment` and `CancelAccepted` do to `parcel` |

Decisions a reader should know of:

- `createShipment`, `schedulePickup` and `trackShipment` hold the row lock over their
  call to Delhivery, so each is one step: whatever the call takes, nobody writes the
  row meanwhile. The parcel may travel while they call; they write at most what was
  answered, which `past` allows to be old. `cancelShipment` and the cron hold no lock,
  and are cut where they call.
- Delhivery answers a poll with any status the parcel has had, in any order: delayed
  and repeated scans are what `isForwardOrderStatusTransition` is there for. It
  recognises an order reference it has, accepts a cancellation until delivery, and
  reports a parcel cancelled before its pickup as "Not Picked", as the comments on
  BREE-100019 say.
- A tracking text is a class: "picked up" stands for every text that means shipped,
  "lost" and "cancelled" are apart because only one of them is
  `isCancelledShipment`'s.
- `awb` is `duplicate` when the only trace of the shipment is a stored answer saying
  "duplicate order id" without a waybill; `hasExistingShipmentState` then refuses
  another creation and `reconcileShipment` is the way on.
- The order's own history is not modelled but for one thing. `trackShipment` inserts
  the history row of a transition on another connection, while its transaction holds
  the order's row. With the foreign key of `mysql-schema.sql` the INSERT needs a
  shared lock on that row and waits for its own request until InnoDB gives up; the
  request is then rolled back. `foreign_key` says whether the key is there, chosen in
  `Init` from `Schemas`: a database created otherwise may lack it, and the safety
  properties are checked and proved for both.
- Not modelled: notifications (part I), reminders (J), failure counters, pickup slots,
  `delhivery_response` beyond "duplicate", conflicts between two orders about one
  waybill, the return flow's own writes (H), and a repeated `payment.captured`, which
  moves any order back to `paid` (`payment_late`).

| Run | Environment | Shows |
|---|---|---|
| `fulfilment` | both schemas, two cancellations, fair | `MovesForward`, `CancelledIsQuiet`, `OrderKeepsUp`, `WindowOpensOnce`, `DeliveryIsNoticed` (`TypeOK` is proved) |
| `shipping_track` | with the foreign key | *violates* `TrackedIsApplied` |

Two cancellations are the fewest that overlap; the others who write are one each by
the row lock or the cron lock. Nothing is bounded: the state space is finite as it is.
Without the foreign key `TrackedIsApplied` holds.

`MovesForward` protects a delivered order only when its parcel was delivered: an admin
may set an order without a waybill to `delivered`, learn the waybill by
`reconcileShipment` and then cancel the shipment, and the order becomes `cancelled`.
`OrderKeepsUp` is why the cron may skip a text it has stored and stop polling a
"Delivered" one: the text is never written without the transition it implies.

Fairness: the cron ticks every half hour whatever happens (`cron.schedule`, with the
lock released after every run), so a selection that is possible again and again is
some day made (`SF` of `CronSelects` while no tracking request holds the row), and a
poll is some day answered with the parcel's present status (`SF` of
`CronWrites(parcel)`); a tracking request ends, if by a timeout. No admin and no
customer need do anything: `DeliveryIsNoticed` says that the cron alone brings a
delivered parcel's order to its end once its waybill is stored.

## 7. Checkout: how the model corresponds to the code

`Checkout` is `createOrder` of `paymentController.js` for several requests of one
customer: those of `Keyed` carry one idempotency key, the others none. Its variables are
the step of each request (`stage`), the key's row (`key_row`), the order counter's
committed value and the transaction that has updated it (`counter`, `counter_lock`), the
number each request has drawn, the committed orders (`placed`) and those of them that
a later request may be given (`reusable`). `Connections` is the pool's limit.

| Code | Actions |
|---|---|
| the SELECT of a pending order to reuse | `LookForPendingOrder` |
| `claimCheckoutIdempotencyKey` | `InsertKey`; `ReplayOrGoOn`; `ReclaimKey` |
| `getClient`; `getNextOrderNumber`; `orders.create`; the INSERTs and COMMIT | one action each: `getClient`, `getNextOrderNumber`, `CreateRazorpayOrder`, `CommitOrder` |
| ROLLBACK after an error | `RollBack` |
| `markCheckoutIdempotencyCompleted`, `...Failed` | the same; `MarkThrows` |
| the network, a death, the clock | `CommitAnswerLost`, `RequestDies`, `ClaimGoesStale`, `PendingOrderEnds` |

- The key is claimed before `getClient`, which is outside of the `try`: when it throws,
  the key stays `processing` until it is two minutes old. The outcome is written on a
  second connection, while the first is still held.
- `lost` remembers that the code has no way of keeping its promise any more: a claim
  was taken over while its owner was alive, or an order was committed and its
  completion mark was not. `OneOrderPerKey` is claimed short of that; in the second
  case the next retry, two minutes later, places a second order.
- `PoolExhausted` is a deadlock that the code has: as many requests as there are
  connections, each at its mark, wait for one more. `CheckoutEnds` excepts it, and
  `SomebodyGoesOn`, a part of `CheckoutSafe`, says that it is the only one. The pool
  (`config/database.js`) waits without a limit (`waitForConnections`, `queueLimit: 0`).
- `orderNumber.js:14` says a rolled-back order wastes its number. The counter's UPDATE
  is part of the same transaction, so the ROLLBACK takes it back and the next order
  has it; numbers are unique all the same, which is what `CheckoutSafe` says.

Bounds: two keyed requests and one without, two connections: the fewest with a retry
beside its first attempt, a stranger who holds the counter, and a full pool. Fairness:
a request that can go on does; whether one arrives is the customer's choice.

## 8. Pricing: how the model corresponds to the code

`Pricing` follows one order's amounts, in whole paise, from the cart to the verified
payment: the products' rows, the cart with its reminders and promotion code, what the
shop showed (`displayed`), the rows that `createOrder` has read so far (`items`,
`reminders`), the order (`bill`), and what Magic Checkout's window knows (`window`).

| Code | Actions and operators |
|---|---|
| what the shop shows and sends | `CustomerOrders` |
| `updateProduct` and its like, the admin's | `AdminEditsProduct` |
| `createOrder`: each item's SELECT; each reminder's; the discount and the comparison; the order | `ReadItem`; `ReadReminder`; `PromotionRefused`, `PlaceOrder` with `calculateOrderTotals`, `LineItemsTotal`, `PriceMismatch` |
| `getShippingInfo`, `applyPromotions`, `verifyPayment`'s amount check | `getShippingInfo` with `Serviceable`; `applyPromotions`; `PayAndVerify` |

- Magic Checkout is told the line items without delivery, and asks for delivery and
  coupons in requests of its own; the sum is computed by Razorpay and compared by
  `verifyPayment` with the order's total. `WindowAgrees` says they agree.
- Two ways in which they do not are excepted, because the code has them: a coupon chosen
  in the window is taken off what is paid but not off the order (a payment which
  `verifyPayment` refuses as a mismatch and which `payment.captured`, which compares
  nothing, books); and a discount larger than the goods is cut off at zero in the line
  items but eats into delivery in the total (`DiscountFits`).
- The sums are the community modules' `SumFunction`, of a function on products.
- Reminders are offered for products in the cart. Addresses, weights and Delhivery's
  estimate of the date are left out; that an address may not be served is not.

Bounds: two products, none or two of each, three rows an admin may choose between (one
with delivery, a free one, one cheaper than a coupon), every promotion; all carts.

## 9. Return: how the model corresponds to the code

`Return` follows the return of one delivered order: the return columns of its row
(`ret`), the reverse shipment at Delhivery (`reverse`), the step of
`createReverseShipment` and of its last diagnostic (`creating`, `diagnosing`), a create
request still on its way (`late`), each instance's tracking pass with what it has read
(`tracker`) and the cron lock (`cron_lock`).

| Code | Actions |
|---|---|
| `approveReturn`, `rejectReturn`, `approveInspection`, `rejectInspection` | one action each, of the same name |
| `markReturned` up to its COMMIT; the announcement; a death, or a lost answer to COMMIT, before it | `markReturned`; `TellReturned`; `TellingIsLost` |
| `createReverseShipment` up to the call; Delhivery's answers; what follows each | `BeginReverseShipment`; `DelhiveryCreates`, `DuplicateReference`, `ConfirmedFailure`, `AnswerLost`; `SaveReverseShipment`, `SaveFails`, `SameTransactionFails`, `RecordDiagnostic`, `DiagnosticFails` |
| `runWithCronLock` and a pass's SELECT; the call; `applyObservation`'s two UPDATEs; what it tells after them; an error or a death | `BeginPass`; `FetchReverseTracking`; `RecordObservation`, `ApplyTransition`; `NotifyReturned`; `PassFails` |
| Delhivery, the clock, deaths | `ReverseShipmentTravels`, `LateRequestCreates`, `WindowCloses`, `AdminDies`, `LockConnectionDrops` |

- An endpoint holds the row's lock from its first statement, `createReverseShipment`
  over its call to Delhivery, too (`RowFree`); the passes read without it.
- `adrift` remembers a death or a failed last diagnostic between Delhivery's
  acceptance and the record of it: the one case in which a shipment exists that the
  order knows nothing of. `ShipmentKnown` is claimed short of it.
- An admin passes an uncertain outcome only after looking and finding nothing
  (`ConfirmedNotCreated`); the request that timed out may arrive after that
  (`LateRequestCreates`), which is `adrift`, too.
- The cron lock belongs to a connection. When that drops, the pass goes on and another
  begins (`torn`, once). `ReturnOnward` keeps the status and the verdict even then.
- `Stranded` is a state the code has: the pass writes `delivered` in its first UPDATE,
  and when the second fails or meets a status it did not read, `TRACKABLE_SQL` no longer
  selects the order. `DeliveryIsRecorded` excepts it; only `markReturned` goes on.
- The receipt is committed first and told afterwards, by `markReturned` (`telling`) and by a
  pass (step `notify`, with a history row and a SELECT in between). A death or a throw there
  leaves the customer untold by who recorded it (`untold`), and nobody else records it again.
  `ToldOnce` says what is left of "exactly one caller writes history and
  notifies": told at most once, never before the receipt, and told or about to be unless
  `untold`. "Return Received" is one of the events that the notification reconciler
  recovers while the inspection is pending; that is `Lost` in section 4. The
  announcement of a scheduled pickup is not counted.
- `scheduleReversePickup` rolls back what it reads and changes nothing.

Bounds: two instances; nothing else is bounded. Fairness: the crons tick, and what they
ask of Delhivery and the database succeeds now and then.

## 10. Package: how the model corresponds to the code

`Package` follows one recurring package: its row (`package`), the number of orders and
confirmations of each cycle, the days since it was created (`age`), whether the order
that was paid has been refunded, and where each run of the code is (`maker`, `pass`).

| Code | Actions |
|---|---|
| `createPackagePurchaseFromOrder`, called by `verifyPayment`, the webhook and the daily repair | `PackageIsPaid`, `FindMissingPackage`; `LookForPackage`, `createPackagePurchaseFromOrder`, `MakerFails` |
| `runDuePackageFulfillments` | `findDuePackageIds`, `fulfillNextCycle`, `notifyFulfillmentOrderCreated`, `FulfilmentFails` |
| the clock, `completeRefund` | `DayPasses`, `OriginIsRefunded` |

The package cron takes no cron lock, so two instances run at once: the row lock with the
check repeated under it, and the two unique indexes, are all that keeps a cycle single.
`NeverEarly` is that check; the index alone would not keep a second instance from
making the next cycle a month early. Cycles go on after the first order is refunded,
which the model has and no property excludes: nothing in the code or its documents says
otherwise.

Bounds: three cycles two days apart and two days of delay, so that a cycle may be due,
late, and last; two instances, two triggers. Fairness: days pass, each day's pass runs,
and no statement fails every day.

## 11. Reminder: how the model corresponds to the code

`Reminder` is one day of one daily reminder: its row and its order's, the day's row of
`daily_reminder_sends` (`slot`, with the tick whose claim it holds), the step of each
tick, the queue for a permit (`waiters`), the shared locks on the order's row, and the
subscription requests that change the reminder (`changer`).

| Code | Actions |
|---|---|
| `activateStuckReminders`, `getEligibleReminders` | the same |
| `acquireGuardedSendPermit`, `releaseGuardedSendPermit` | the branch of `getEligibleReminders`; `Leaves` |
| `acquireReminderSendGuard` and its release | the same, `GuardFails`, `releaseGuard` |
| `claimReminderSendSlot` | `InsertSlot`, `claimReminderSendSlot` |
| the send, `resolveReminderSendSuccess`, `...Failure`, the catch | `SendReminder`, `SendReminderUnknown`, the same names; `StatementThrows` and, of the catch itself, `CatchThrows` |
| `approveReturn`, delivery, cancellation, tracking; pause, resume, end | `ReturnIsApproved`, `OrderIsDelivered`, `OrderEndsOtherwise`; `ChangeBegins`, `ChangeIsWritten` |

- The ticks of a minute overlap, and no cron lock is taken. A guard holds a connection
  while the claim needs another one: with fewer permits than connections one is always
  left and some tick can go on (`PermitsSpareThePool`, a part of `ReminderSafe`), and
  `TicksEnd`.
- A statement of the claim or of the outcome may throw (`StatementThrows`). The catch
  (`dailyReminderCron.js:657`) resolves the slot again; it remembers an acceptance
  (`caught_success`, written `unknown`) but not an outcome that was unknown
  (`caught_unknown`): it calls `resolveReminderSendFailure` without an outcome, which
  writes `failed`.
- So the code has three ways to a second reminder in a day, and `OncePerDay` excepts them
  and no other. A claim outlives its five minutes; the catch of an overlapping tick closes
  it, for `WHERE status = 'sending'` names the day's row and not the claim (both
  `outlived`); or recording an unknown outcome throws (line 649) and the catch files it as
  a failure, which the next tick tries again (`misfiled`), although the comments at lines
  217 and 659 say that a reminder which may have been delivered is not retried.
- `resumeReminderForOrder` reads and then writes the status alone, so a resume that races
  an end makes an `ended` reminder `active` again. `reminder_enabled` is not touched,
  which is why an approved return stays silent (`StoppedStays`).

Bounds: three ticks, two permits, three connections, one change of the subscription:
the fewest with a waiter and a connection short. Fairness: a tick that has begun goes on.

## 12. Subscription: how the model corresponds to the code

`Subscription` follows one subscription: its state at Razorpay (`gateway`), the webhook
events in the order in which they happened (`news`) and how far each is handled, its
first order (`origin`), the renewal order of each charge, and where each request of
the customer or admin (`asked`) and the list (`listing`) is.

| Code | Actions |
|---|---|
| `createSubscription`: Razorpay, the transaction; the subscription's branch of `verifyPayment` | `SubscribeAtRazorpay`, `createSubscription`; `verifySubscriptionPayment` |
| the cases of `handleWebhook` | one operator each (`payment_captured`, `subscription_paused`, ...), in `HandleEvent` |
| `subscription.charged`, `createRenewalOrder` | `LookForRenewal`, `createRenewalOrder`, `RenewalThrows` |
| `pauseSubscription`, `resumeSubscription`, `cancelSubscription`, the customer's and the admin's | the read of the same name, `RazorpayPauses` (...), `SavePaused` (...), `RequestFails` |
| `getMySubscriptions` | `FetchSubscription`, `ReadStatus`, `getMySubscriptions` |
| Razorpay | `RazorpayCharges`, `RazorpayMoves` |

- `overtaken` remembers that something older was written over something newer: an event
  handled out of turn, or a request or the list that wrote what Razorpay had said before
  a later event was handled. No handler has a guard against that, so `AgreesAtRest` is
  about the behaviours in which it does not happen: then no guard that the handlers do
  have suppresses what it should have let pass, with one exception. `payment.failed` is
  guarded by `payment_status` (`paymentController.js:3502`), `payment.captured` by
  `subscription_status` (3250), and the list writes the latter alone. After the list
  has written `active`, the capture that ends a failure is skipped, `payment_status`
  stays `failed`, and then the next failure is skipped as well: the customer is shown
  `active` while Razorpay has the subscription pending, and only `payment_status` says
  otherwise. That takes three charges and six events, more than the run has; the attempt to
  prove the property without the exception found it.
- `getMySubscriptions` takes the status of whichever row comes first and writes all of
  them without a guard; a renewal sets the origin to `active`.
- A charge of the first cycle may come as `subscription.charged` before the customer's
  verify request: it then has its renewal order and verify fails at the unique index,
  or the other way round. `OneOrderPerCharge` holds of both orders.
- `swallowed` are the charges whose renewal threw inside its handler; `renewal_lost`
  shows that nothing else brings their order.

Bounds: two charges, four events, one request at a time beside the list and the
deliveries; safety only. The proofs (section 15) are for any number of each.

## 13. Bulk: how the model corresponds to the code

`Bulk` follows one bulk booking: its row, the orders made of it (`created`), what each
Razorpay order is for (`amount`), which of them a payment page has offered (`shown`) and
the customer has paid (`paid`), and what each request remembers (`mem`).

| Code | Actions |
|---|---|
| `updateBulkBooking`: the read, the UPDATE; its confirmation | `updateBulkBooking`, `WriteUpdate`; `ConfirmLocked` |
| `approveBulkQuote` | `approveBulkQuote`, `WriteApproval` |
| `getBulkPaymentDetails`, `ensureBulkRazorpayOrder` | `getBulkPaymentDetails`; `ReuseOrder`, `CreateOrder`, `AttachOrder` |
| `verifyBulkPayment`: the read; the flag; the transaction | `verifyBulkPayment`; `FlagMismatch`, `FlagFails`; `LockAndVerify` |
| `createOrderFromBulkBooking` | the same |
| the customer, the clock, an error or a death | `CustomerPays`, `QuoteExpires`, `RequestEnds` |

- `updateBulkBooking` and `approveBulkQuote` write what they decided on an unlocked read,
  `WHERE id = ?`: a price may change after the customer paid the earlier one (`late`), an
  approval may be of a price the customer has not seen, and a row may change after its
  order was made. The comment at `bulkController.js:995` ("only ever affects a
  not-yet-paid booking") holds only when nothing failed between payment and order.
  `OrderIsPaidFor` says that short of a change after the payment the order's price is
  the amount that was paid, whichever of several open windows was used.
- A second captured payment of a booking that is paid and has its order is answered
  without a trace; before the order exists it is flagged or refused. `bulk_trace` is
  about a booking that is not paid.
- Where the handler does reach the flag, the fetch of the stranded payment (line 1895) or
  the UPDATE (lines 1893 and 1970) may fail; both errors are swallowed and the captured
  payment is refused all the same (`FlagFails`). That is a second way to a refusal without a
  trace, beside the re-quote that `bulk_trace` shows.
- `completed` cannot be reached by an order (`rejectIfReadOnly`), and `sendBulkDispatch`
  changes nothing in the booking; both are left out but for the status.

Bounds: two requests of any kind, two prices, two Razorpay orders; safety only.

## 14. The runs

Five runs pass. Two are `Refund`'s. The other three are sums: modules that share no
variable are put side by side, each behaviour is chosen in `Init` to be one of one part
while the others' variables stay as they began, so that the states add and do not
multiply, and a property of a part says in the sum what it says alone. `MCServices` holds
what must come to an end (`Notification`, `Checkout`, `Reminder`, and `Payment` with news
in order, instantiated because its names are `Notification`'s), `MCPaying` the three ways
to pay under any disorder (`Payment`, `Subscription`, `Bulk`), `MCFulfilment` what an
order costs and what becomes of it (`Pricing`, `Shipping`, `Return`, `Package`). The
fairness of a part is asked while it runs; strong fairness of several parts is
one condition, which says the same since at most one part ever has a step.

| Run | Module, cfg | Shows |
|---|---|---|
| `refund_hostile` | `MCRefund` | section 3 |
| `refund_live` | `MCRefund`, `MCRefundLive.cfg` | section 3, liveness and refinement |
| `services` | `MCServices` | sections 4, 5, 7, 11: safety and liveness |
| `paying` | `MCPaying` | sections 5, 12, 13: safety |
| `fulfilment` | `MCFulfilment` | sections 6, 8, 9, 10: safety and liveness |
| `refund_slow`, `refund_race`, `refund_books` | `MCRefund` | *violations*, section 3 |
| `payment_late` | `MCPayment` | *violates* `CancelledIsTerminal`, section 5 |
| `shipping_track` | `MCShipping` | *violates* `TrackedIsApplied`, section 6 |
| `renewal_lost` | `Subscription` | *violates* `CompletedIsBooked`: the handler of `subscription.charged` swallows the error of `createRenewalOrder`, and the event is marked completed |
| `bulk_trace` | `Bulk` | *violates* `RefusedLeavesTrace`: a re-quote takes back the approval together with the Razorpay order, and the check of the approval refuses a stale payment before the code that would flag it |

Every property of a passing run has a "Fault:" operator in its module, a plausible bug
in one definition, under which that run fails. Properties named `...Safe` and
`...Promise` are conjunctions of the named parts in their module.

## 15. What is proved

Every safety property that a passing run checks is a theorem, and so is
the refinement of `RefundPromise`. A theorem is about every value of the constants: any
number of requests, workers, attempts, charges, cycles or instances, where a run has two
or three. In general a property is not inductive as it stands, and the proof module
says, above the invariant, what has to be added and why. The larger invariants were checked by TLC
before they were proved. Each module
goes the same way: the initial states satisfy the invariant, each action keeps it (one lemma
per action or group of actions, with one operator that sums up what the harmless ones do), and
the temporal step combines the two.

Two kinds of theorems go beyond the runs' invariants. Of a liveness property, the *safety
core* is proved: that what must happen in the end is possible at every moment before,
that nobody undoes what was reached on the way, or both. What is left to TLC is that a step which
stays possible is taken. And of a finding, the *boundary*: a property that a run shows
violated is proved under the condition without which the run would not have shown it,
so that the condition is the reason and not one of several. Their hypotheses are
environments that the runs have, too (`in_order` in `services`, `Calm` in `refund_live`).

The constants are assumed to be what the modules' named `ASSUME`s say, and nothing else: names
that are apart, positive numbers, and finite sets of requests (`CheckoutAssumption`), of
ticks (`ReminderAssumption`) and of products (`PricingAssumption`), which are counted or
added up.

### Refund (`RefundProofs`)

- `TypeCorrect`; `CompletedCorrect` (`CompletedIsProcessed`); `CompletedStays`
  (`CompletedIsFinal`).
- `RefundedStaysHome` (`RefundedIsNotShipped`), `InspectionPrecedesRefund`
  (`RefundPassedInspection`), `BooksAgree` (`RowsAgree`).
- `CalmRefundsOnce` (`CalmRefundIsSingle`), `RefundImplementsPromise` (`KeepsPromise`).

Phase 3 of a recheck writes `completed` from what the request fetched before it locked
the row, so `Remembered` says what requests know: one about to fetch
or persist names a refund, and a remembered "processed" is still true at
Razorpay, which never takes it back. `MoneySteps` classifies every step by what it does to
the three money columns: nothing (`SameMoney`), something short of completion
(`StaysOpen`), or completion by a processed refund (`Completes`).

Phase 3 initiates a refund without looking at the goods. `Begun` says why it may: a request
gets past Phase 1 only when the refund has begun, and a begun refund is never unbegun.
The webhook writes its two rows in two statements; `Booked` says that the order stays
completed by its refund in between.

That one refund moves money is the hardest. What a request found at Razorpay may be
old when it creates a refund. In a calm world the claim protects it, and `Claims` says how:
one request at a time holds the claim; while it does the claim is not stale, no failure is
unheard of and the order does not leave the statuses in which a refund is tracked; and a
request about to create a refund, or to give its claim back, is right that Razorpay has none.
`Single` says what that gives: one live refund, which the order tracks. The refinement
maps the creation of a refund to `Send`, its failure to `Bounce`, the completing step
to `Refunded`, `rejectRefund` to `Rejected`; every other step is a stutter. It is a theorem
about `Spec /\ Calm`, the environment of `refund_live`: in a hostile one it is false
(`refund_slow`). Its fairness plays no part, as `RefundPromise` asks for none.

- The safety core of `InitiatedSettles`: `InitiatedIsRecheckable` (an initiated refund may be
  rechecked at every moment, and Razorpay has it) and `InitiatedOnlySettles` (the only ways
  out are the outcome Razorpay decided). `AskedIsReal` carries it across the request's call.
- The safety core of `LostRefundIsAdopted`: `LostRefundStaysAdoptable` (`LiveIsNamed`): in a calm
  world a claim under which money moves ends only with the order naming that very refund.
- The boundary of `refund_race`: `CalmFailureMovesNoMoney` (`FailedMovesNoMoney`).

### Notification (`NotificationProofs`)

`TypeCorrect` (`TypeOK`), `CustomerToldOnce` (`ToldOnce`), `RetriesAreRefused`
(`RetryMeansRefused`), `AttemptsStayBounded`, `VerdictsStand` (`VerdictIsFinal`).

`ToldOnce` counts what the database does not know. Its inductive form says what the
status of the row knows: while a worker is between its claim and its record
(`Holds`) the row is `sending`, or `unknown` if the reconciler gave up on it, and
nobody else holds it (`HeldIsClaimed`, `OneHolder`); and a row that may be claimed
again, directly or through a retry, has never been accepted (`AcceptedIsKept`,
`NotYetSent`, `RefusedIsRefused`). This is why the record is conditional on
`sending`, why an unknown outcome is not a failure, and why the takeover is refused
to customer events. `VerdictInv` says that a customer event whose sender was told "accepted"
was accepted, whatever the row has become. `RetryInv` and `AttemptsInv` add that a retry exists only beside
`failed`, with an attempt left. The theorems are for any number of reconcilers: the cron
lock is not needed for safety.

The safety core of `NothingIsForgotten` is `RetriesAreKept` (`SlotGoesOn`): a claim ends
in a verdict, and a scheduled retry falls due, is sent, or is dropped by a reconciler that
found it out of date. It needs `Scheduling`: while one worker is about to schedule, nobody
else sends or schedules and no retry is set, so that no late worker clears another's.

### Payment (`PaymentProofs`)

`TypeCorrect`, `PaidCorrect` (`PaidIsPaidFor`), `StoredCorrect` (`StoredPaymentStays`), with
news in any order; `PaidRowsAgree` (`RowsAgree`), `NeverBack` (`OrderNeverMovesBack`), which
are about news in order.

The transactions of verify and of the webhook do not
look at Razorpay, they trust what brought the request there. `Trusted` says that a
verify request beyond the signature is about a payment that succeeded, and `Untold`
that a `payment.captured` exists only of such a payment; both stand because a
payment never un-succeeds (`SuccessStays`). `StoredCorrect` needs no more than the
classification under the lock, which is why verify asks it a second time.

For news in order, `FailuresFirst` says that nobody is left to fail an order that may be paid,
`Overtaken` that whoever is under way when the order has moved on has nothing left to write,
and `Settled` what a refund leaves behind.

- The safety core of `PaymentIsBooked`: `CapturedIsNeverForgotten` (`CapturedIsKnown`). The
  only captured payment is booked, or its webhook is due or under way, or a death
  left its `webhook_events` row in the way of every redelivery. `Followed` says what the
  handler has written at each of its steps, and that nothing takes it back.
- The boundary of `payment_late`: `CancelledStaysInOrder` (`CancelledIsTerminal`).

### Shipping (`ShippingProofs`)

`TypeCorrect`, `OrdersMoveForward` (`MovesForward`), `CancelledStaysQuiet`
(`CancelledIsQuiet`), `OrderIsCaughtUp` (`OrderKeepsUp`), `DeliveredOnce`
(`WindowOpensOnce`), with or without the foreign key.

The cron decides on a row it read before its call, so the invariant says what that
reading is worth later (`CronRemembers`): the order has only moved on from it, and had
caught up with its text then. From this follows that a guarded write which moves nothing leaves
the order caught up: either the text is old news, or the order was beyond it when it was
read and still is (`ReachedCatchesUp`, `NoTransitionCaughtUp`). `WaitingMovesOn`
says that a request which waits for its lock waits on the row as it read it,
`RecalledIsNotDelivered` that no parcel is delivered while a cancellation of it is on its
way to the database, and `StampedIsOver` that a stamped order is past every transition
that stamps. That an order only moves on
(`OrderStep`) is proved first, step by step, and the other parts use it.

- The safety core of `DeliveryIsNoticed`: `DeliveryStaysNoticeable` (a delivered parcel
  whose order is not settled is selected by the cron, answered "delivered", and that
  answer still moves the order) and `RoundDelivers` (a round that nobody overtakes
  delivers it and stamps it).

### Checkout and Pricing (`CheckoutProofs`)

`CheckoutTyped`, `NumbersNeverCollide` (`OrderNumbersUnique`), `NoOtherDeadlock`
(`SomebodyGoesOn`), `EnoughConnections`, `CheckoutCorrect` (`CheckoutSafe`),
`RequestsGoForward`; `PricingCorrect` (`PricingSafe`).

An order takes, at its COMMIT, a number it drew long before. `NumbersKept` says that
the counter counts the orders placed, and that a request with a number holds the
counter's lock and has the next one. For the key, `KeyAnswered` says that the row is
`processing` and fresh while a request holds the key, that one request does at a time,
and that after an order the row is completed or its owner about to complete it; all of that
until something was `lost`.

That nobody waits in a circle is an argument about resources: the counter's lock is held by
a request that has its connection, connections are counted as a cardinality, and a
request that has both waits for nobody. What is left is the pool with every connection at a
mark, which takes a key: one connection more than the requests of one key rules it out
(`EnoughConnections`). `RequestsGoForward` gives each step a rank that grows, so that with
`NoOtherDeadlock` only fairness is missing to `CheckoutEnds`.

`Pricing` is about sums, and the library's induction theorems are out of reach, for they take a
predicate. `SubsetInduction` is stated with a *set* of good subsets instead, and proved from
the library's theorem that the strict subsets of a finite set are well founded: a set of
subsets that are not good would have a minimal one. From it follow that the
fold exists (`SumsExist`) and obeys its equation (`SumEquation`), that a
sum of natural numbers is one, and what the property compares. `PricingInv` then says
what the order's amounts have to do with what the shop showed at every step.

### Reminder (`ReminderProofs`)

`PermitsAreKept` (`PermitsKept`), `StoppedIsSilent` (`SilentAfterStop`), `ReminderCorrect`
(`ReminderSafe`).

Three invariants, one per resource. A permit is handed to the head of the queue, so that none
is lost needs `Queued`: whoever is in the queue waits, and is in it once. What is sent is sent
under a shared lock which was taken while the order stood, and what stops the order waits for
that lock, so that the order stands as long as anybody holds it (`Guarded`). One reminder a
day needs the row and the tick together (`Sure`): who may send holds the claim, the
claim says so, whoever knows of a refusal (`failure`, `caught`) knows it of a claim that sent
nothing, and a row that can be claimed says that nothing has been sent; until a claim
was `outlived` or an unknown outcome `misfiled`.

`PoolIsSpared` (`PermitsSpareThePool`) counts: whoever holds a guard has a permit, so that
fewer permits than connections leave one for the claims, and a tick that waits in the queue
waits for ticks that can go on. With `TicksGoForward`, where each step of a tick has a rank that
grows, only fairness is missing to `TicksEnd`.

### Return and Package (`FulfilmentProofs`)

`ReturnCorrect` (`ReturnSafe`), `ReturnGoesOn` (`ReturnOnward`, the safety half of
`ReturnPromise`), `PackageCorrect` (`PackageSafe`), `CyclesOnlyGrow` (the safety half of
`PackagePromise`).

What admins, Delhivery and the passes know of each other is stale as soon as it is read. `Known`
says what `createReverseShipment` leaves behind at each of its ends, `Sent` that nobody asks
for a shipment which does not exist, `Proven` that what a pass has seen delivered is and
stays so, `Locked` that until the lock's connection drops whoever is in a pass has the
lock. `News` is the customer's side: nothing is told or about to be before the receipt, and
of those about to tell there is one, who is the first.

The row of a package is the count of its cycles (`Row`): the next date is so many
intervals after the first, which with the check under the lock gives `NeverEarly` by an
argument about division; `Heard` says that an order to confirm is one instance's.

- The safety core of `DeliveryIsRecorded`: `ArrivalStaysTrackable` (`ArrivalIsTrackable`). A
  reverse pickup that arrived is still selected, Delhivery's answer means delivered, and a held
  lock has a pass at work. `CancelledIsSo` is what it rests on: nobody remembers "cancelled" of a
  pickup that arrives.
- The safety core of `PackagePromise`'s live half: `NoBoxIsStuck` (`NextBoxIsOpen`). A completed package
  has all its orders, and an active one a next box that falls due on a day which comes,
  whose cycle is free then.

### Bulk and Subscription (`PayingProofs`)

`BulkCorrect` (`BulkSafe`), `BulkStaysPaid` (`PaidStaysPaid`), `SubscriptionCorrect` (`SubscriptionSafe`), `SubscriptionAgrees`
(`AgreesAtRest`).

A bulk payment is compared with the quote before it is booked and the quote is not looked at
again. `Matching` says that this is enough: from the comparison on somebody has paid, so
that a change of the price shows in `late`; `Numbered`, that whoever remembers a Razorpay
order remembers one that exists.

The boundary of `renewal_lost` is in `SubscriptionCorrect`: a completed charge has its order, or its renewal threw.

A charge becomes one order because the unique index of the payment ids keeps the first order and
the renewals apart, and no renewal order disappears (`BooksInv`). `AgreesAtRest` speaks of rest only, and its invariant of
every moment: `Told`, that Razorpay's status is what the latest event says; `Heard`, that
whoever is about to write has seen either all events or is older than the latest; `InTurn`,
that an event handled in its turn came after all before it; and `Current`, that once the
latest is handled the row agrees with Razorpay. The proof goes through every writer: each
writes what Razorpay has or shows in `overtaken`. The one that did not is the guard of
`payment.failed` (section 12): the property without its exception passes the run, is not
inductive, and is false with three charges and six events.

### Only model-checked

Liveness, which rests on fairness and `ENABLED`: `InitiatedSettles`, `LostRefundIsAdopted`,
`NothingIsForgotten`, `PaymentIsBooked`, `DeliveryIsNoticed`, `CheckoutEnds`, and the live
halves of `ReminderPromise`, `ReturnPromise` and `PackagePromise`. Their safety cores are
proved; what is left to the runs is that the step which is possible is taken, and that the world
allows it often enough.

## 16. Not modelled

- Sessions, one-time passwords, cookies and the socket handshake: their correctness is
  about secrets.
- The catalogue, carts, addresses, profiles, testimonials and contact forms: one row at a
  time, no protocol between requests. `utils/cache.js` serves only listings and reports.
- `POST /orders/create` of `orderController.js`, an older way of placing an order that
  is not connected to a payment; listings, searches, reports, exports.
- `customerNumber.js`, `packageNumber.js`, `bulkBookingNumber.js`: the same counter
  UPDATE inside one transaction that `Checkout` has for order numbers.
- Submission and documents of bulk bookings; plans and analytics of subscriptions.
- Wording and layout of every message; history rows, except where writing one blocks the
  request (`shipping_track`); realtime broadcasts, which follow the commit and are
  best-effort.
- Migrations and the schema, but for the columns, unique keys and the one foreign key that
  the guards rest on.
