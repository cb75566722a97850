------------------------------ MODULE Pricing ------------------------------
(***************************************************************************)
(* What an order costs: the shop shows a cart's price, createOrder prices  *)
(* the cart again from the products' rows, one query each, while an admin  *)
(* edits them, and asks Razorpay for an order; Magic Checkout's window     *)
(* asks for the delivery charge and the coupons and collects what it shows;*)
(* verifyPayment compares the payment with the order's total.              *)
(*                                                                         *)
(* All amounts are whole paise, for the columns are DECIMAL(10,2): rupees  *)
(* times a hundred is rounded by the code, to what it is. Idempotency keys,*)
(* the transaction and order numbers are module Checkout's.                *)
(***************************************************************************)
EXTENDS Integers, FiniteSets, Functions

CONSTANTS
  Products,
  PriceList,     \* the rows an admin may give a product
  Hidden,        \* a row that customerVisibleWhere hides
  Quantities     \* of a product in the cart, 0 when it is not

ASSUME PricingAssumption ==
  /\ IsFiniteSet(Products)
  /\ PriceList \subseteq [price: Nat, shipping_charge: Nat,
       is_free_shipping: BOOLEAN, daily_reminder_price: Nat,
       daily_reminder_enabled: BOOLEAN]
  /\ Hidden \notin PriceList
  /\ Quantities \subseteq Nat /\ 0 \in Quantities

VARIABLES
  products,    \* the products' rows
  cart,        \* quantities, products with a reminder, promotion code
  displayed,   \* the amount, and of it the reminders', that the shop shows
  items,       \* the rows that createOrder has read for the items,
  reminders,   \*   and for the reminders
  bill,        \* the request: "none", "pricing", "refused" or "placed"; its order
  window       \* what Magic Checkout knows, and what became of the payment

pricingVars == <<products, cart, displayed, items, reminders, bill, window>>

InCart(c) == {p \in Products : c.quantity[p] > 0}

(* A reminder is offered for a product in the cart.                        *)
Carts ==
  {c \in [quantity: [Products -> Quantities], reminded: SUBSET Products,
          promotion_code: {"none", "FLAT10", "10PER", "BREE20"}] :
     InCart(c) # {} /\ c.reminded \subseteq InCart(c)}

NoBill == [status |-> "none", subtotal |-> 0, shipping |-> 0, total |-> 0,
           is_free_shipping |-> FALSE, discount |-> 0, line_items_total |-> 0]

Closed == [shipping_fee |-> -1, serviceable |-> FALSE, coupon |-> 0,
           payment |-> "none"]

PricingInit ==
  /\ products \in [Products -> PriceList]
  /\ cart \in Carts
  /\ displayed = [amount |-> -1, reminders |-> <<>>]
  /\ items = <<>> /\ reminders = <<>>
  /\ bill = NoBill
  /\ window = Closed

-----------------------------------------------------------------------------
(* The sums, over rows read of the products' prices. *)

toNonNegativeNumber(n) == IF n > 0 THEN n ELSE 0

Subtotal(rows) ==
  SumFunction([p \in DOMAIN rows |-> rows[p].price * cart.quantity[p]])

(* Per product, whatever its quantity.                                     *)
ShippingCharge(rows) ==
  SumFunction([p \in DOMAIN rows |->
     IF rows[p].is_free_shipping THEN 0 ELSE rows[p].shipping_charge])

ReminderCharge(row, p) == row.daily_reminder_price * cart.quantity[p]

ReminderCharges(rows) ==
  SumFunction([p \in DOMAIN rows |-> ReminderCharge(rows[p], p)])

(* The catalogue of promotions, each a code and its discount; ten per cent *)
(* are rounded to the paisa.                                               *)
getPromotionCatalog(subtotal) ==
  {<<"FLAT10", 1000>>, <<"10PER", (subtotal + 5) \div 10>>} \cup
  (IF subtotal >= 50000 THEN {<<"BREE20", 2000>>} ELSE {})

resolveOrderDiscount(promotionCode, subtotal) ==
  {d \in {0} : promotionCode = "none"} \cup
  {promotion[2] : promotion \in
     {c \in getPromotionCatalog(subtotal) : c[1] = promotionCode}}

calculateOrderTotals(subtotal, delivery, reminder, discount) ==
  toNonNegativeNumber(subtotal + delivery + reminder - discount)

(* Fault: the delivery charge, which the window adds, is in it already.    *)
LineItemsWithDelivery(subtotal, delivery, reminder, discount) ==
  toNonNegativeNumber(subtotal + delivery + reminder - discount)

(* What the window shows before delivery.                                  *)
LineItemsTotal(subtotal, delivery, reminder, discount) ==
  toNonNegativeNumber(subtotal + reminder - discount)

-----------------------------------------------------------------------------
(* The shop and the admin. *)

(* Edits before the shop shows the cart are other beginnings, and nothing  *)
(* reads the products once the order is placed.                            *)
AdminEditsProduct ==
  /\ bill.status = "pricing"
  /\ \E p \in Products, row \in PriceList \cup {Hidden} :
       products' = [products EXCEPT ![p] = row]
  /\ UNCHANGED <<cart, displayed, items, reminders, bill, window>>

(* The shop shows what the products cost, and sends it with the request.   *)
CustomerOrders ==
  LET rows == [p \in InCart(cart) |-> products[p]]
      wanted == [p \in cart.reminded |-> products[p]] IN
  /\ bill.status = "none"
  /\ \A p \in InCart(cart) : products[p] # Hidden
  /\ \A p \in cart.reminded : products[p].daily_reminder_enabled
  /\ \E discount \in resolveOrderDiscount(cart.promotion_code, Subtotal(rows)) :
       displayed' =
         [amount |-> calculateOrderTotals(Subtotal(rows), ShippingCharge(rows),
                                          ReminderCharges(wanted), discount),
          reminders |-> [p \in cart.reminded |-> ReminderCharge(products[p], p)]]
  /\ bill' = [bill EXCEPT !.status = "pricing"]
  /\ UNCHANGED <<products, cart, items, reminders, window>>

-----------------------------------------------------------------------------
(* createOrder. *)

Refused == bill' = [bill EXCEPT !.status = "refused"]

(* One item's row is read; ... *)
ReadItem(p) ==
  /\ bill.status = "pricing" /\ p \in InCart(cart) \ DOMAIN items
  /\ IF products[p] = Hidden
       THEN Refused /\ UNCHANGED items
       ELSE items' = [q \in DOMAIN items \cup {p} |->
                        IF q = p THEN products[p] ELSE items[q]] /\ UNCHANGED bill
  /\ UNCHANGED <<products, cart, displayed, reminders, window>>

ItemsRead == DOMAIN items = InCart(cart)

Discounts == resolveOrderDiscount(cart.promotion_code, Subtotal(items))

(* ... when all are, a reminder's product is read again. Its price may     *)
(* differ from the one shown by half a rupee.                              *)
ReadReminder(p) ==
  /\ bill.status = "pricing" /\ ItemsRead /\ Discounts # {}
  /\ p \in cart.reminded \ DOMAIN reminders
  /\ IF \/ products[p] = Hidden
        \/ ~products[p].daily_reminder_enabled
        \/ LET d == displayed.reminders[p] - ReminderCharge(products[p], p) IN
             d > 50 \/ d < -50
       THEN Refused /\ UNCHANGED reminders
       ELSE reminders' = [q \in DOMAIN reminders \cup {p} |->
              IF q = p THEN products[p] ELSE reminders[q]] /\ UNCHANGED bill
  /\ UNCHANGED <<products, cart, displayed, items, window>>

(* A code of no promotion that applies. *)
PromotionRefused ==
  /\ bill.status = "pricing" /\ ItemsRead /\ Discounts = {}
  /\ Refused
  /\ UNCHANGED <<products, cart, displayed, items, reminders, window>>

PriceMismatch(total) ==
  total - displayed.amount > 100 \/ displayed.amount - total > 100

(* The total is compared with the amount shown and the order is placed, at *)
(* Razorpay and in its rows.                                               *)
PlaceOrder ==
  /\ bill.status = "pricing" /\ ItemsRead /\ DOMAIN reminders = cart.reminded
  /\ \E discount \in Discounts :
       LET s == Subtotal(items)
           d == ShippingCharge(items)
           r == ReminderCharges(reminders)
           total == calculateOrderTotals(s, d, r, discount) IN
       IF PriceMismatch(total) THEN Refused
         ELSE bill' = [status |-> "placed", subtotal |-> s, shipping |-> d,
                total |-> total, discount |-> discount,
                is_free_shipping |-> \A p \in DOMAIN items : items[p].is_free_shipping,
                line_items_total |-> LineItemsTotal(s, d, r, discount)]
  /\ UNCHANGED <<products, cart, displayed, items, reminders, window>>

-----------------------------------------------------------------------------
(* Magic Checkout. *)

calculateRazorpayShippingFeePaise(isFreeShipping, charge) ==
  IF isFreeShipping THEN 0 ELSE toNonNegativeNumber(charge)

ShippingFee == calculateRazorpayShippingFeePaise(bill.is_free_shipping, bill.shipping)

(* An address is served unless it is abroad or Delhivery says that it is   *)
(* not: no answer in time, or an error, is no reason.                      *)
Serviceable(answer) == answer \notin {"abroad", "unserviceable"}

getShippingInfo ==
  /\ bill.status = "placed" /\ window.payment = "none"
  /\ \E answer \in {"abroad", "unserviceable", "serviceable", "none"} :
       window' = [window EXCEPT !.shipping_fee = ShippingFee,
                                !.serviceable = Serviceable(answer)]
  /\ UNCHANGED <<products, cart, displayed, items, reminders, bill>>

(* The window lists the promotions of getPromotions; the customer picks    *)
(* one, and it takes off the discount of the answer.                       *)
applyPromotions ==
  /\ bill.status = "placed" /\ window.payment = "none"
  /\ \E promotion \in getPromotionCatalog(bill.subtotal) :
       window' = [window EXCEPT !.coupon = promotion[2]]
  /\ UNCHANGED <<products, cart, displayed, items, reminders, bill>>

(* What the window shows when the customer pays. *)
InWindow ==
  toNonNegativeNumber(bill.line_items_total + window.shipping_fee - window.coupon)

(* verifyPayment fetches the payment and compares its amount. *)
PayAndVerify ==
  /\ bill.status = "placed"
  /\ window.payment = "none" /\ window.serviceable
  /\ window' = [window EXCEPT !.payment =
       IF InWindow = bill.total THEN "verified" ELSE "mismatch"]
  /\ UNCHANGED <<products, cart, displayed, items, reminders, bill>>

-----------------------------------------------------------------------------
PricingNext ==
  \/ AdminEditsProduct \/ CustomerOrders
  \/ \E p \in Products : ReadItem(p) \/ ReadReminder(p)
  \/ PromotionRefused \/ PlaceOrder
  \/ getShippingInfo \/ applyPromotions \/ PayAndVerify

PricingSpec == PricingInit /\ [][PricingNext]_pricingVars

-----------------------------------------------------------------------------
(* Properties. *)

PricingTypeOK ==
  /\ products \in [Products -> PriceList \cup {Hidden}]
  /\ cart \in Carts
  /\ DOMAIN items \subseteq InCart(cart) /\ DOMAIN reminders \subseteq cart.reminded
  /\ bill.status \in {"none", "pricing", "refused", "placed"}
  /\ window.payment \in {"none", "verified", "mismatch"}

(* A discount that is more than the goods eats into the delivery charge of *)
(* the total, but not of what the window shows.                            *)
DiscountFits ==
  bill.discount <= bill.subtotal + ReminderCharges(reminders) \/ bill.shipping = 0

(* The window, which adds the delivery charge that it asks for later to the*)
(* line items, collects the order's total, so that no paying customer is   *)
(* told of an amount mismatch -- short of a coupon chosen in the window.   *)
WindowAgrees ==
  window.payment = "mismatch" => window.coupon > 0 \/ ~DiscountFits

(* Whatever an admin edits meanwhile, nobody pays more than a rupee above  *)
(* what the shop showed.                                                   *)
ShownIsPaid ==
  window.payment = "verified" => bill.total <= displayed.amount + 100

PricingSafe == PricingTypeOK /\ WindowAgrees /\ ShownIsPaid
=============================================================================
