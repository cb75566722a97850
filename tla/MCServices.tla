----------------------------- MODULE MCServices -----------------------------
(***************************************************************************)
(* What must come to an end, in one run: a checkout, its payment with news *)
(* in order, a notification, a daily reminder. They share no variable;     *)
(* each behaviour is one of one part, the others' variables stay as they   *)
(* began.                                                                  *)
(***************************************************************************)
EXTENDS Notification, Checkout, Reminder

CONSTANTS Attempts, Verifiers, NoPayment

VARIABLES
  part,
  order_status, payment_status, razorpay_payment_id, payments_status, refund,
  rzp, attempt, at, ledger, confirmed, world,
  verifier          \* pc of the payment

paymentVars ==
  <<order_status, payment_status, razorpay_payment_id, payments_status, refund,
    rzp, attempt, at, ledger, confirmed, world, verifier>>

Pay == INSTANCE Payment WITH pc <- verifier

ServicesInit ==
  /\ part \in {"notification", "checkout", "reminder", "payment"}
  /\ Init /\ CheckoutInit /\ ReminderInit /\ Pay!Init
  /\ part # "notification" => family = "customer"
  /\ part # "checkout" => magic
  /\ part # "reminder" => /\ \A t \in Ticks : tick[t] = "end"
                         /\ \A c \in Changers : changer[c] = "end"
  /\ world.in_order

ServicesNext ==
  \/ /\ part = "notification" /\ Next
     /\ UNCHANGED <<part, checkoutVars, reminderVars, paymentVars>>
  \/ /\ part = "checkout" /\ CheckoutNext
     /\ UNCHANGED <<part, vars, reminderVars, paymentVars>>
  \/ /\ part = "reminder" /\ ReminderNext
     /\ UNCHANGED <<part, vars, checkoutVars, paymentVars>>
  \/ /\ part = "payment" /\ Pay!Next
     /\ UNCHANGED <<part, vars, checkoutVars, reminderVars>>

(* The fairness of the four modules, each as long as its part runs.        *)
Of(p, A) == part = p /\ A

ServicesFairness ==
  /\ \A w \in Reconcilers :
       WF_vars(Of("notification", Reconcile(w) \/ Deliver(w)))
  /\ WF_vars(Of("notification", CalmBegins))
  /\ WF_vars(Of("notification", AttemptAges))
  /\ WF_vars(Of("notification", RetryFallsDue))
  /\ \A r \in Requests : WF_checkoutVars(Of("checkout", CheckoutStep(r)))
  /\ \A t \in Ticks : WF_reminderVars(Of("reminder", TickRuns(t)))
  /\ \A e \in Pay!Event : WF_paymentVars(Of("payment", Pay!Deliver(e)))
  /\ WF_paymentVars(Of("payment", Pay!CalmBegins))

ServicesSpec ==
  /\ ServicesInit
  /\ [][ServicesNext]_<<part, vars, checkoutVars, reminderVars, paymentVars>>
  /\ ServicesFairness

PaymentIsBooked == Pay!CapturedIsBooked
=============================================================================
