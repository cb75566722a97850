------------------------------ MODULE Package ------------------------------
(***************************************************************************)
(* A recurring package: paid once, then one ordinary order per cycle. The  *)
(* order that was paid is cycle 1; services/packageFulfillmentService.js   *)
(* writes the package's row for it, asked by verifyPayment, by the webhook *)
(* payment.captured and by a daily pass, and its cron creates the others   *)
(* as they fall due, on every instance of the app.                         *)
(*                                                                         *)
(* A transaction is one action: the row lock and the unique indexes keep   *)
(* others out of it, and it leaves nothing when it fails. What is read     *)
(* before it, without a lock, is an action of its own.                     *)
(***************************************************************************)
EXTENDS Integers, FiniteSets

CONSTANTS
  Triggers,      \* the calls after the payment: verifyPayment, the webhook
  Instances,     \* the app's instances, each with its daily cron
  total_cycles,  \* package_duration_months
  interval_days, \* package_fulfillment_interval_days
  MaxLate        \* bound on the days counted after the last due date

ASSUME PackageAssumption ==
  /\ Triggers \cap Instances = {}
  /\ total_cycles \in Nat \ {0} /\ interval_days \in Nat \ {0}
  /\ MaxLate \in Nat

VARIABLES
  package,     \* the row of package_purchases
  cycle_orders,\* how many orders each cycle has
  confirmed,   \* how often the customer was told of each cycle's order
  age,         \* days since the row was created
  refunded,    \* has the order that was paid been refunded?
  maker,       \* where each run of createPackagePurchaseFromOrder is
  pass         \* where each instance's fulfilment pass is

packageVars == <<package, cycle_orders, confirmed, age, refunded, maker, pass>>

Cycles == 1..total_cycles + 1

MaxAge == (total_cycles - 1) * interval_days + MaxLate

(* next_fulfillment_date is in days after the row's creation.              *)
PackageRow ==
  [status: {"none", "active", "completed"}, cycles_created: 0..total_cycles + 1,
   next_fulfillment_date: 0..MaxAge + interval_days \cup {-1}]

Never == -1

PackageInit ==
  /\ package = [status |-> "none", cycles_created |-> 0,
                next_fulfillment_date |-> Never]
  /\ cycle_orders = [c \in Cycles |-> IF c = 1 THEN 1 ELSE 0]
  /\ confirmed = [c \in Cycles |-> 0]
  /\ age = 0
  /\ refunded = FALSE
  /\ maker = [p \in Triggers \cup Instances |->
                IF p \in Triggers THEN "unpaid" ELSE "end"]
  /\ pass = [i \in Instances |-> 0]

-----------------------------------------------------------------------------
(* createPackagePurchaseFromOrder. *)

Make(p, s) == maker' = [maker EXCEPT ![p] = s]

Paid == \A p \in Triggers : maker[p] # "unpaid"

(* The order is paid: both verifyPayment and the webhook ask, some time.   *)
PackageIsPaid ==
  /\ ~Paid
  /\ maker' = [p \in DOMAIN maker |-> IF p \in Triggers THEN "ask" ELSE "end"]
  /\ UNCHANGED <<package, cycle_orders, confirmed, age, refunded, pass>>

(* findOrdersMissingPackagePurchase, by the daily pass. *)
FindMissingPackage(i) ==
  /\ maker[i] = "end" /\ Paid
  /\ package.status = "none" /\ ~refunded
  /\ Make(i, "ask")
  /\ UNCHANGED <<package, cycle_orders, confirmed, age, refunded, pass>>

(* The SELECT of a row for this order. *)
LookForPackage(p) ==
  /\ maker[p] = "ask"
  /\ Make(p, IF package.status = "none" THEN "create" ELSE "end")
  /\ UNCHANGED <<package, cycle_orders, confirmed, age, refunded, pass>>

(* Fault: without UNIQUE (origin_order_id) a second row takes its place. *)
NoUniqueOrigin == TRUE

OriginIsNew == package.status = "none"

FirstRow ==
  IF total_cycles = 1
    THEN [status |-> "completed", cycles_created |-> 1,
          next_fulfillment_date |-> Never]
    ELSE [status |-> "active", cycles_created |-> 1,
          next_fulfillment_date |-> interval_days]

(* The transaction: the row, whose origin_order_id is unique, and the tag  *)
(* on the order. A duplicate is rolled back and read again.                *)
createPackagePurchaseFromOrder(p) ==
  /\ maker[p] = "create"
  /\ IF OriginIsNew THEN package' = FirstRow /\ age' = 0
                    ELSE UNCHANGED <<package, age>>
  /\ Make(p, "end")
  /\ UNCHANGED <<cycle_orders, confirmed, refunded, pass>>

(* It throws, or the process dies: nobody waits for it. *)
MakerFails(p) ==
  /\ maker[p] \in {"ask", "create"}
  /\ Make(p, "end")
  /\ UNCHANGED <<package, cycle_orders, confirmed, age, refunded, pass>>

-----------------------------------------------------------------------------
(* The daily fulfilment pass of an instance: 0 is between two passes, -1   *)
(* has found the package due, and c is the new order to confirm.           *)

Found == -1

Reaches(i, c) == pass' = [pass EXCEPT ![i] = c]

Due == /\ package.status = "active"
       /\ package.next_fulfillment_date # Never
       /\ package.next_fulfillment_date <= age

(* Without a lock. *)
findDuePackageIds(i) ==
  /\ pass[i] = 0 /\ Due
  /\ Reaches(i, Found)
  /\ UNCHANGED <<package, cycle_orders, confirmed, age, refunded, maker>>

(* Fault: what findDuePackageIds said is believed. *)
FoundDue == package.status = "active"

isDue == Due /\ package.cycles_created < total_cycles

After(c) ==
  IF c >= total_cycles
    THEN [status |-> "completed", cycles_created |-> c,
          next_fulfillment_date |-> Never]
    ELSE [package EXCEPT !.cycles_created = c,
                         !.next_fulfillment_date = @ + interval_days]

(* The transaction on the locked row: checked again, the new order and its *)
(* items, which UNIQUE (parent_package_id, fulfillment_cycle) may refuse,  *)
(* and the row advanced.                                                   *)
fulfillNextCycle(i) ==
  LET newCycle == package.cycles_created + 1 IN
  /\ pass[i] = Found
  /\ IF isDue /\ cycle_orders[newCycle] = 0
       THEN /\ cycle_orders' = [cycle_orders EXCEPT ![newCycle] = 1]
            /\ package' = After(newCycle)
            /\ Reaches(i, newCycle)
       ELSE Reaches(i, 0) /\ UNCHANGED <<package, cycle_orders>>
  /\ UNCHANGED <<confirmed, age, refunded, maker>>

notifyFulfillmentOrderCreated(i) ==
  /\ pass[i] > 0
  /\ confirmed' = [confirmed EXCEPT ![pass[i]] = @ + 1]
  /\ Reaches(i, 0)
  /\ UNCHANGED <<package, cycle_orders, age, refunded, maker>>

(* The transaction is rolled back, or the process dies after it. *)
FulfilmentFails(i) ==
  /\ pass[i] # 0
  /\ Reaches(i, 0)
  /\ UNCHANGED <<package, cycle_orders, confirmed, age, refunded, maker>>

-----------------------------------------------------------------------------
DayPasses ==
  /\ package.status # "none" /\ age < MaxAge
  /\ age' = age + 1
  /\ UNCHANGED <<package, cycle_orders, confirmed, refunded, maker, pass>>

(* completeRefund sets the order's payment_status; the package's row and   *)
(* its cycles it does not look at.                                         *)
OriginIsRefunded ==
  /\ Paid /\ ~refunded
  /\ refunded' = TRUE
  /\ UNCHANGED <<package, cycle_orders, confirmed, age, maker, pass>>

PackageStep(p) ==
  LookForPackage(p) \/ createPackagePurchaseFromOrder(p)

PackageNext ==
  \/ \E p \in Triggers \cup Instances : PackageStep(p) \/ MakerFails(p)
  \/ \E i \in Instances :
       \/ FindMissingPackage(i) \/ findDuePackageIds(i) \/ fulfillNextCycle(i)
       \/ notifyFulfillmentOrderCreated(i) \/ FulfilmentFails(i)
  \/ PackageIsPaid \/ DayPasses \/ OriginIsRefunded

PackageSpec == PackageInit /\ [][PackageNext]_packageVars

(* Days pass, each instance's cron runs both passes every day, and no      *)
(* statement fails every day. The two calls after the payment owe nothing. *)
PackageFairness ==
  /\ WF_packageVars(DayPasses)
  /\ WF_packageVars(\E i \in Instances : FindMissingPackage(i))
  /\ SF_packageVars(\E i \in Instances : LookForPackage(i))
  /\ SF_packageVars(\E i \in Instances : createPackagePurchaseFromOrder(i))
  /\ WF_packageVars(\E i \in Instances : findDuePackageIds(i))
  /\ SF_packageVars(\E i \in Instances : fulfillNextCycle(i))

-----------------------------------------------------------------------------
(* Properties. *)

PackageTypeOK ==
  /\ package \in PackageRow
  /\ cycle_orders \in [Cycles -> 0..1]
  /\ confirmed \in [Cycles -> Nat]
  /\ age \in 0..MaxAge
  /\ refunded \in BOOLEAN
  /\ maker \in [Triggers \cup Instances -> {"unpaid", "ask", "create", "end"}]
  /\ pass \in [Instances -> {Found, 0} \cup Cycles]

(* "No cycle is silently skipped or double-counted": the orders are those  *)
(* of the cycles the row counts, and of no other.                          *)
CyclesAgree ==
  \A c \in Cycles :
    cycle_orders[c] = (IF c = 1 \/ c <= package.cycles_created THEN 1 ELSE 0)

(* No box is sent before its day, and none beyond what was paid for,       *)
(* however many instances found the package due.                           *)
NeverEarly ==
  /\ package.cycles_created <= total_cycles
  /\ package.status # "none" =>
       package.cycles_created <= 1 + age \div interval_days
  /\ package.status = "completed" => package.cycles_created = total_cycles

(* The customer hears of an order once, and only if it exists. *)
ConfirmedOnce ==
  \A c \in Cycles : confirmed[c] <= cycle_orders[c]

(* The package's row, its orders and its messages agree. *)
PackageSafe == PackageTypeOK /\ CyclesAgree /\ NeverEarly /\ ConfirmedOnce

(* A paid package gets its row and then the order of every cycle, whatever *)
(* dies in between and also when both calls after the payment fail, unless *)
(* it is refunded before; and what was delivered is never taken back.      *)
PackagePromise ==
  /\ []<>(Paid => \/ \A c \in 1..total_cycles : cycle_orders[c] = 1
                  \/ refunded /\ package.status = "none")
  /\ [][package'.cycles_created >= package.cycles_created]_packageVars
=============================================================================
