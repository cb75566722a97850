------------------------------ MODULE Checkout ------------------------------
(***************************************************************************)
(* createOrder: several requests place what may be the same order. The     *)
(* keyed ones carry one idempotency key, whose row in                      *)
(* checkout_idempotency they claim before they begin. Each takes a         *)
(* connection of the pool, keeps it while it draws the order number,       *)
(* creates the Razorpay order and writes the rows, and asks the pool for   *)
(* a second one to record how it went.                                     *)
(*                                                                         *)
(* One action is one statement, one transaction's commit or one call to    *)
(* Razorpay. The validation of the cart, which changes nothing, is left    *)
(* out.                                                                    *)
(***************************************************************************)
EXTENDS Naturals, FiniteSets

CONSTANTS
  Keyed,         \* create-order requests that carry the key
  Keyless,       \* and those that carry none
  Connections,   \* connectionLimit of the pool
  NoRequest      \* NULL

ASSUME CheckoutAssumption ==
  /\ Keyed \cap Keyless = {}
  /\ NoRequest \notin Keyed \cup Keyless
  /\ IsFiniteSet(Keyed \cup Keyless)
  /\ Connections \in Nat \ {0}

VARIABLES
  stage,          \* where each request is
  magic,          \* line_items were sent, or nobody is logged in
  key_row,        \* the key's row in checkout_idempotency
  counter,        \* order_number_counter.current_value, as committed
  counter_lock,   \* the transaction that has updated it and not ended
  order_number,   \* the number a request has drawn
  placed,         \* the requests whose order is committed
  reusable,       \* of those, the ones still pending, recent and unpaid
  lost            \* was a claim outlived, or the outcome of one not recorded?

checkoutVars == <<stage, magic, key_row, counter, counter_lock, order_number,
                  placed, reusable, lost>>

Requests == Keyed \cup Keyless

Stage == {"idle", "claim", "look", "reclaim", "connect", "number", "razorpay",
          "commit", "completed", "failed", "end"}

(* The row's order_id is the request that placed it.                       *)
KeyRow == [status: {"none", "processing", "completed", "failed"},
           stale: BOOLEAN, order: Requests \cup {NoRequest}]

(* The request has getClient's connection until it is released at its end. *)
HasConnection(r) ==
  stage[r] \in {"number", "razorpay", "commit", "completed", "failed"}

Free == Connections - Cardinality({r \in Requests : HasConnection(r)})

CheckoutInit ==
  /\ stage = [r \in Requests |-> "idle"]
  /\ magic \in BOOLEAN
  /\ key_row = [status |-> "none", stale |-> FALSE, order |-> NoRequest]
  /\ counter = 0
  /\ counter_lock = NoRequest
  /\ order_number = [r \in Requests |-> 0]
  /\ placed = {}
  /\ reusable = {}
  /\ lost = FALSE

-----------------------------------------------------------------------------
At(r, s) == stage[r] = s

To(r, s) == stage' = [stage EXCEPT ![r] = s]

(* Fault: the lock outlives its transaction. *)
StillLocked(r) == counter_lock

Unlocked(r) == IF counter_lock = r THEN NoRequest ELSE counter_lock

(* The SELECT of a pending order of the same user and total, and           *)
(* rzp.orders.fetch of it: a valid one is the answer. A fetch that throws, *)
(* and Magic Checkout, which does not look, lead on.                       *)
LookForPendingOrder(r) ==
  /\ At(r, "idle") /\ Free > 0
  /\ \/ ~magic /\ reusable # {} /\ To(r, "end")
     \/ To(r, IF r \in Keyed THEN "claim" ELSE "connect")
  /\ UNCHANGED <<magic, key_row, counter, counter_lock, order_number, placed,
                 reusable, lost>>

(* claimCheckoutIdempotencyKey: the INSERT, ... *)
InsertKey(r) ==
  /\ At(r, "claim") /\ Free > 0
  /\ IF key_row.status = "none"
       THEN /\ key_row' = [key_row EXCEPT !.status = "processing"]
            /\ To(r, "connect")
       ELSE To(r, "look") /\ UNCHANGED key_row
  /\ UNCHANGED <<magic, counter, counter_lock, order_number, placed, reusable,
                 lost>>

(* ... the SELECT of the row it met, whose order a completed one replays,  *)
ReplayOrGoOn(r) ==
  /\ At(r, "look") /\ Free > 0
  /\ To(r, IF key_row.status = "completed" THEN "end" ELSE "reclaim")
  /\ UNCHANGED <<magic, key_row, counter, counter_lock, order_number, placed,
                 reusable, lost>>

(* Fault: any unfinished row is taken. *)
ReclaimableAlways == key_row.status # "completed"

Reclaimable == \/ key_row.status = "failed"
               \/ key_row.status = "processing" /\ key_row.stale

(* ... and the guarded UPDATE, or the answer 409. *)
ReclaimKey(r) ==
  /\ At(r, "reclaim") /\ Free > 0
  /\ IF Reclaimable
       THEN /\ key_row' = [key_row EXCEPT !.status = "processing",
                                          !.stale = FALSE]
            /\ To(r, "connect")
       ELSE To(r, "end") /\ UNCHANGED key_row
  /\ UNCHANGED <<magic, counter, counter_lock, order_number, placed, reusable,
                 lost>>

getClient(r) ==
  /\ At(r, "connect") /\ Free > 0
  /\ To(r, "number")
  /\ UNCHANGED <<magic, key_row, counter, counter_lock, order_number, placed,
                 reusable, lost>>

(* The UPDATE waits for the transaction that has the row. *)
CounterAvailable == counter_lock = NoRequest

getNextOrderNumber(r) ==
  /\ At(r, "number") /\ CounterAvailable
  /\ counter_lock' = r
  /\ order_number' = [order_number EXCEPT ![r] = counter + 1]
  /\ To(r, "razorpay")
  /\ UNCHANGED <<magic, key_row, counter, placed, reusable, lost>>

CreateRazorpayOrder(r) ==
  /\ At(r, "razorpay")
  /\ To(r, "commit")
  /\ UNCHANGED <<magic, key_row, counter, counter_lock, order_number, placed,
                 reusable, lost>>

(* The INSERTs of the order, its items, its reminders, the payment and the *)
(* history, and the COMMIT.                                                *)
CommitOrder(r) ==
  /\ At(r, "commit")
  /\ placed' = placed \cup {r} /\ reusable' = reusable \cup {r}
  /\ counter' = order_number[r] /\ counter_lock' = Unlocked(r)
  /\ To(r, IF r \in Keyed THEN "completed" ELSE "end")
  /\ UNCHANGED <<magic, key_row, order_number, lost>>

(* A statement or the call to Razorpay throws, or the wait for the counter *)
(* times out: ROLLBACK, which takes the number back.                       *)
RollBack(r) ==
  /\ stage[r] \in {"number", "razorpay", "commit"}
  /\ counter_lock' = Unlocked(r)
  /\ order_number' = [order_number EXCEPT ![r] = 0]
  /\ To(r, IF r \in Keyed THEN "failed" ELSE "end")
  /\ UNCHANGED <<magic, key_row, counter, placed, reusable, lost>>

CompletedBy(r) == [status |-> "completed", stale |-> FALSE, order |-> r]

(* A second connection for an UPDATE that looks at nothing but the key. *)
markCheckoutIdempotencyCompleted(r) ==
  /\ At(r, "completed") /\ Free > 0
  /\ key_row' = CompletedBy(r)
  /\ To(r, "end")
  /\ UNCHANGED <<magic, counter, counter_lock, order_number, placed, reusable,
                 lost>>

markCheckoutIdempotencyFailed(r) ==
  /\ At(r, "failed") /\ Free > 0
  /\ key_row' = [key_row EXCEPT !.status = "failed", !.stale = FALSE]
  /\ To(r, "end")
  /\ UNCHANGED <<magic, counter, counter_lock, order_number, placed, reusable,
                 lost>>

(* The UPDATE throws, which is caught; the customer has the answer. *)
MarkThrows(r) ==
  /\ stage[r] \in {"completed", "failed"} /\ Free > 0
  /\ lost' = (lost \/ At(r, "completed"))
  /\ To(r, "end")
  /\ UNCHANGED <<magic, key_row, counter, counter_lock, order_number, placed,
                 reusable>>

(* The COMMIT is done but its answer does not come: the request reports a  *)
(* failure.                                                                *)
CommitAnswerLost(r) ==
  /\ At(r, "commit")
  /\ placed' = placed \cup {r} /\ reusable' = reusable \cup {r}
  /\ counter' = order_number[r] /\ counter_lock' = Unlocked(r)
  /\ lost' = (lost \/ r \in Keyed)
  /\ To(r, IF r \in Keyed THEN "failed" ELSE "end")
  /\ UNCHANGED <<magic, key_row, order_number>>

(* The process dies, or getClient throws; the server ends the transaction. *)
RequestDies(r) ==
  /\ stage[r] \notin {"idle", "end"}
  /\ counter_lock' = Unlocked(r)
  /\ order_number' = [order_number EXCEPT ![r] = IF r \in placed THEN @ ELSE 0]
  /\ lost' = (lost \/ At(r, "completed"))
  /\ To(r, "end")
  /\ UNCHANGED <<magic, key_row, counter, placed, reusable>>

HoldsKey(r) ==
  r \in Keyed /\ (HasConnection(r) \/ At(r, "connect"))

(* PROCESSING_CLAIM_STALE_MINUTES pass: the claim's owner has died, or is  *)
(* slower than that.                                                       *)
ClaimGoesStale ==
  /\ key_row.status = "processing" /\ ~key_row.stale
  /\ key_row' = [key_row EXCEPT !.stale = TRUE]
  /\ lost' = (lost \/ \E r \in Requests : HoldsKey(r))
  /\ UNCHANGED <<stage, magic, counter, counter_lock, order_number, placed,
                 reusable>>

(* A placed order is paid, tried at Razorpay, or 30 minutes old. *)
PendingOrderEnds(r) ==
  /\ r \in reusable
  /\ reusable' = reusable \ {r}
  /\ UNCHANGED <<stage, magic, key_row, counter, counter_lock, order_number,
                 placed, lost>>

-----------------------------------------------------------------------------
CheckoutStep(r) ==
  \/ InsertKey(r) \/ ReplayOrGoOn(r) \/ ReclaimKey(r) \/ getClient(r)
  \/ getNextOrderNumber(r) \/ CreateRazorpayOrder(r) \/ CommitOrder(r)
  \/ markCheckoutIdempotencyCompleted(r) \/ markCheckoutIdempotencyFailed(r)

CheckoutFault(r) ==
  RollBack(r) \/ MarkThrows(r) \/ CommitAnswerLost(r) \/ RequestDies(r)

CheckoutNext ==
  \/ \E r \in Requests : \/ LookForPendingOrder(r) \/ CheckoutStep(r)
                         \/ CheckoutFault(r) \/ PendingOrderEnds(r)
  \/ ClaimGoesStale

CheckoutSpec == CheckoutInit /\ [][CheckoutNext]_checkoutVars

(* A request that can go on does; whether one arrives is the customer's    *)
(* choice, and faults are nobody's duty. The lock of the counter and the   *)
(* pool serve every waiting request in turn.                               *)
CheckoutFairness == \A r \in Requests : WF_checkoutVars(CheckoutStep(r))

-----------------------------------------------------------------------------
(* Properties. *)

CheckoutTypeOK ==
  /\ stage \in [Requests -> Stage]
  /\ magic \in BOOLEAN
  /\ key_row \in KeyRow
  /\ counter \in 0..Cardinality(Requests)
  /\ counter_lock \in Requests \cup {NoRequest}
  /\ order_number \in [Requests -> 0..Cardinality(Requests)]
  /\ placed \subseteq Requests /\ reusable \subseteq placed
  /\ lost \in BOOLEAN

(* "Duplicate-order protection": one key places one order, however often   *)
(* it is sent, whatever fails before the commit and whoever dies, unless a *)
(* claim was outlived or the outcome of one could not be written down.     *)
OneOrderPerKey == lost \/ Cardinality(placed \cap Keyed) <= 1

(* A completed key names an order that exists. *)
ReplayExists == key_row.status = "completed" => key_row.order \in placed

(* "No risk of two orders getting the same number." *)
OrderNumbersUnique ==
  \A r, s \in placed : r # s => order_number[r] # order_number[s]

(* Every connection is with a request that asks for one more. *)
PoolExhausted ==
  /\ Free = 0
  /\ \A r \in Requests :
       HasConnection(r) => stage[r] \in {"completed", "failed"}

(* What the next step of a request waits for, if for anything. *)
CanGoOn(r) ==
  \/ At(r, "number") /\ CounterAvailable
  \/ stage[r] \in {"razorpay", "commit"}
  \/ /\ stage[r] \in {"claim", "look", "reclaim", "connect", "completed", "failed"}
     /\ Free > 0

(* No circle of requests waits for each other's connection, key or lock,   *)
(* unless they have exhausted the pool; and nobody waits for itself.       *)
SomebodyGoesOn ==
  /\ Free \in 0..Connections
  /\ (\E r \in Requests : stage[r] \notin {"idle", "end"}) =>
       PoolExhausted \/ \E r \in Requests : CanGoOn(r)

(* Everything the key, the counter and the orders promise at any moment,   *)
(* and that whoever waits waits for somebody who goes on.                  *)
CheckoutSafe ==
  /\ CheckoutTypeOK /\ OneOrderPerKey /\ ReplayExists /\ OrderNumbersUnique
  /\ SomebodyGoesOn

(* The requests under way all come to an end, none waiting for ever for a  *)
(* lock, a key or a connection, unless all connections are with requests   *)
(* that wait for a second one.                                             *)
CheckoutEnds ==
  []<>(\/ \A r \in Requests : At(r, "idle") \/ At(r, "end")
       \/ PoolExhausted)
=============================================================================
