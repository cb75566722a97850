---------------------------- MODULE Notification ----------------------------
(***************************************************************************)
(* One customer notification: the row of order_status_notifications under  *)
(* one key (order, event, channel), the requests, webhooks and crons that  *)
(* announce the event, the notification reconciler, and a provider (Waplify *)
(* or SMTP) that may accept a message without saying so.                   *)
(*                                                                         *)
(* One action is one SQL statement or one call to the provider; a process  *)
(* may die between any two.                                                *)
(***************************************************************************)
EXTENDS Naturals

CONSTANTS
  Senders,       \* callers that announce the event when it happens
  Reconcilers,   \* workers of the notification reconciler
  MaxAttempts    \* NOTIFICATION_MAX_ATTEMPTS

ASSUME NotificationAssumption ==
  /\ Senders \cap Reconcilers = {}
  /\ MaxAttempts \in Nat \ {0}

VARIABLES
  family,         \* what kind of event the key names
  event,          \* does the order still describe the event, and since when?
  status,         \* the row: its status, "none" while there is no row
  attempts,       \*   how often it was claimed
  next_retry_at,  \*   when the reconciler may send it again
  last_attempt,   \*   the age of the last claim
  pc,             \* where each worker is
  outcome,        \* what each worker's send() ended with: "accepted" if it
                  \*   resolved
  back,           \* where each worker goes on after a delivery
  accepted,       \* how often the provider accepted the message; 2: or more
  calm            \* are the reconciler's passes no longer cut short?

vars == <<family, event, status, attempts, next_retry_at, last_attempt,
          pc, outcome, back, accepted, calm>>

row == <<status, attempts, next_retry_at, last_attempt>>

Workers == Senders \cup Reconcilers

(* Customer events are those of customerOrderEvents.js, some of which the  *)
(* reconciler also recovers; the others are shipment statuses.             *)
Family == {"recoverable", "customer", "shipment"}

Reconcilable == family # "shipment"

(* The recovery of missing rows looks at events older than its grace of 3  *)
(* minutes and younger than its lookback of 72 hours.                      *)
OrderEvent == [current: BOOLEAN, age: {"fresh", "window", "old"}]

RowStatus == {"none", "pending", "sending", "sent", "failed", "unknown"}

(* Less than 5, more than 5, more than 15 minutes. *)
AttemptAge == {"fresh", "over5", "over15"}

RetryAt == {"null", "future", "due"}

Delivering == {"insert", "claim", "send", "record", "schedule"}

Step == Delivering \cup
        {"idle", "check", "drop", "rearm", "recover", "look", "mark"}

Outcome == {"none", "accepted", "retryable", "permanent", "unknown"}

Init ==
  /\ family \in Family
  /\ event = [current |-> FALSE, age |-> "fresh"]
  /\ status = "none" /\ attempts = 0
  /\ next_retry_at = "null" /\ last_attempt = "fresh"
  /\ pc = [w \in Workers |-> "idle"]
  /\ outcome = [w \in Workers |-> "none"]
  /\ back = [w \in Workers |-> "idle"]
  /\ accepted = 0
  /\ calm = FALSE

Goto(w, step) == pc' = [pc EXCEPT ![w] = step]

(* The delivery is over: a sender is done, the reconciler's pass goes on.  *)
Done(w) == Goto(w, back[w]) /\ outcome' = [outcome EXCEPT ![w] = "none"]

-----------------------------------------------------------------------------
(* The order. A customer event is announced by the request that brings it  *)
(* about, after its commit; a shipment status by everyone who observes it. *)

EventHappens(w) ==
  /\ w \in Senders /\ pc[w] = "idle"
  /\ Reconcilable => ~event.current
  /\ event' = [current |-> TRUE, age |-> "fresh"]
  /\ Goto(w, "insert")
  /\ UNCHANGED <<family, row, outcome, back, accepted, calm>>

EventPasses ==
  /\ event.current
  /\ event' = [event EXCEPT !.current = FALSE]
  /\ UNCHANGED <<family, row, pc, outcome, back, accepted, calm>>

-----------------------------------------------------------------------------
(* sendOrderStatusNotificationOnce *)

InsertIgnore(w) ==
  /\ pc[w] = "insert"
  /\ status' = IF status = "none" THEN "pending" ELSE status
  /\ Goto(w, "claim")
  /\ UNCHANGED <<family, event, attempts, next_retry_at, last_attempt,
                 outcome, back, accepted, calm>>

(* Fault: customer events, too, take over what looks abandoned. *)
StaleForAll == status = "sending" /\ last_attempt # "fresh"

(* An abandoned claim, which only shipment senders take over. *)
Stale == status = "sending" /\ last_attempt # "fresh" /\ ~Reconcilable

Claimable == status = "pending" \/ Stale

(* The count is cut off above MaxAttempts. *)
Claim(w) ==
  /\ pc[w] = "claim" /\ Claimable
  /\ status' = "sending" /\ last_attempt' = "fresh"
  /\ attempts' = IF attempts > MaxAttempts THEN attempts ELSE attempts + 1
  /\ Goto(w, "send")
  /\ UNCHANGED <<family, event, next_retry_at, outcome, back, accepted, calm>>

DuplicateSkipped(w) ==
  /\ pc[w] = "claim" /\ ~Claimable
  /\ Done(w)
  /\ UNCHANGED <<family, event, row, back, accepted, calm>>

Accepts == accepted' = IF accepted = 0 THEN 1 ELSE 2

(* Fault: a broken connection counts as a refusal that can be retried. *)
SendOptimistic(w) ==
  /\ pc[w] = "send"
  /\ \/ Accepts /\ \E o \in {"accepted", "retryable"} :
                     outcome' = [outcome EXCEPT ![w] = o]
     \/ UNCHANGED accepted /\ \E o \in {"retryable", "permanent"} :
                     outcome' = [outcome EXCEPT ![w] = o]
  /\ Goto(w, "record")
  /\ UNCHANGED <<family, event, row, back, calm>>

(* send(): the provider accepts; refuses in a way that may be retried, or  *)
(* for good; or the connection breaks and nobody can tell.                 *)
Send(w) ==
  /\ pc[w] = "send"
  /\ \/ Accepts /\ \E o \in {"accepted", "unknown"} :
                     outcome' = [outcome EXCEPT ![w] = o]
     \/ UNCHANGED accepted /\ \E o \in {"retryable", "permanent", "unknown"} :
                     outcome' = [outcome EXCEPT ![w] = o]
  /\ Goto(w, "record")
  /\ UNCHANGED <<family, event, row, back, calm>>

(* The trackers' email callback writes of "out for delivery", "delivered"  *)
(* and "shipped" alone: of any other status, as cancelled or returned, it  *)
(* resolves and has called nobody.                                         *)
SendNothing(w) ==
  /\ pc[w] = "send" /\ ~Reconcilable
  /\ outcome' = [outcome EXCEPT ![w] = "accepted"]
  /\ Goto(w, "record")
  /\ UNCHANGED <<family, event, row, back, accepted, calm>>

(* Fault: the outcome is written whatever has become of the row. *)
RecordBlindly(s) == status' = s

(* UPDATE ... SET status = s WHERE status = 'sending' *)
Record(s) == status' = IF status = "sending" THEN s ELSE status

RecordSent(w) ==
  /\ pc[w] = "record" /\ outcome[w] = "accepted"
  /\ Record("sent")
  /\ Done(w)
  /\ UNCHANGED <<family, event, attempts, next_retry_at, last_attempt, back,
                 accepted, calm>>

(* Fault: what the provider said is written as it is. *)
RecordVerbatim(w) ==
  /\ pc[w] = "record" /\ outcome[w] # "accepted"
  /\ Record(outcome[w])
  /\ IF Reconcilable THEN Goto(w, "schedule") /\ UNCHANGED outcome
                     ELSE Done(w)
  /\ UNCHANGED <<family, event, attempts, next_retry_at, last_attempt, back,
                 accepted, calm>>

(* Only a known failure is 'failed'; only customer events schedule.        *)
RecordFailure(w) ==
  /\ pc[w] = "record" /\ outcome[w] # "accepted"
  /\ Record(IF outcome[w] = "unknown" THEN "unknown" ELSE "failed")
  /\ IF Reconcilable THEN Goto(w, "schedule") /\ UNCHANGED outcome
                     ELSE Done(w)
  /\ UNCHANGED <<family, event, attempts, next_retry_at, last_attempt, back,
                 accepted, calm>>

(* Fault: one attempt too many. *)
RetriesLeftAndOne == attempts <= MaxAttempts

RetriesLeft == attempts < MaxAttempts

scheduleNotificationRetry(w) ==
  /\ pc[w] = "schedule"
  /\ next_retry_at' =
       IF outcome[w] = "retryable" /\ status = "failed" /\ RetriesLeft
       THEN "future" ELSE "null"
  /\ Done(w)
  /\ UNCHANGED <<family, event, status, attempts, last_attempt, back,
                 accepted, calm>>

-----------------------------------------------------------------------------
(* reconcileCustomerNotifications: retry what is due, recover what is      *)
(* missing, give up on what is stale -- in this order, in every pass.      *)

Decide(w, step) ==
  Goto(w, step) /\ UNCHANGED <<family, event, row, outcome, accepted, calm>>

Due == status = "failed" /\ next_retry_at = "due"

retryDueNotifications(w) ==
  /\ w \in Reconcilers /\ pc[w] = "idle"
  /\ Decide(w, IF Due THEN "check" ELSE "recover")
  /\ UNCHANGED back

CheckCurrent(w) ==
  /\ pc[w] = "check"
  /\ Decide(w, IF event.current THEN "rearm" ELSE "drop")
  /\ UNCHANGED back

dropRetry(w) ==
  /\ pc[w] = "drop"
  /\ next_retry_at' = IF status = "failed" THEN "null" ELSE next_retry_at
  /\ Goto(w, "recover")
  /\ UNCHANGED <<family, event, status, attempts, last_attempt, outcome, back,
                 accepted, calm>>

(* failed -> pending, by the one worker that still finds the retry due.    *)
Rearm(w) ==
  /\ pc[w] = "rearm"
  /\ IF Due
     THEN /\ status' = "pending" /\ next_retry_at' = "null"
          /\ Goto(w, "insert")
          /\ back' = [back EXCEPT ![w] = "recover"]
     ELSE /\ Goto(w, "recover")
          /\ UNCHANGED <<status, next_retry_at, back>>
  /\ UNCHANGED <<family, event, attempts, last_attempt, outcome, accepted,
                 calm>>

recoverMissingNotifications(w) ==
  /\ pc[w] = "recover"
  /\ Decide(w, IF family = "recoverable" /\ event.current
                  /\ event.age = "window"
               THEN "look" ELSE "mark")
  /\ UNCHANGED back

(* No row at all, or one that was never claimed, is sent from here. *)
LookForRow(w) ==
  /\ pc[w] = "look"
  /\ Decide(w, IF status \in {"none", "pending"} THEN "insert" ELSE "mark")
  /\ back' = [back EXCEPT ![w] = "mark"]

(* Fault: a row whose sender died is left alone. *)
MarkNothing(w) == /\ pc[w] = "mark"
                  /\ Goto(w, "idle")
                  /\ UNCHANGED <<family, event, row, outcome, back, accepted,
                                 calm>>

markStaleSendingUnknown(w) ==
  /\ pc[w] = "mark"
  /\ IF Reconcilable /\ status = "sending" /\ last_attempt = "over15"
     THEN status' = "unknown" /\ next_retry_at' = "null"
     ELSE UNCHANGED <<status, next_retry_at>>
  /\ Goto(w, "idle")
  /\ UNCHANGED <<family, event, attempts, last_attempt, outcome, back,
                 accepted, calm>>

-----------------------------------------------------------------------------
(* Failures. They strike at any step, for any length of time; fairness lets *)
(* the reconciler have some calm in the end.                               *)

MayFail(w) == w \in Reconcilers => ~calm

(* A statement throws. Whoever called it logs the error and goes on.       *)
StatementFails(w) ==
  /\ pc[w] \in Step \ {"idle", "send"} /\ MayFail(w)
  /\ Goto(w, CASE pc[w] \in Delivering                 -> back[w]
               [] pc[w] \in {"check", "drop", "rearm"} -> "recover"
               [] pc[w] \in {"recover", "look"}        -> "mark"
               [] pc[w] = "mark"                       -> "idle")
  /\ outcome' = [outcome EXCEPT ![w] = "none"]
  /\ UNCHANGED <<family, event, row, back, accepted, calm>>

(* The process dies. *)
Crash(w) ==
  /\ pc[w] # "idle" /\ MayFail(w)
  /\ Goto(w, "idle")
  /\ outcome' = [outcome EXCEPT ![w] = "none"]
  /\ back' = [back EXCEPT ![w] = "idle"]
  /\ UNCHANGED <<family, event, row, accepted, calm>>

CalmBegins ==
  /\ calm' = TRUE
  /\ UNCHANGED <<family, event, row, pc, outcome, back, accepted>>

-----------------------------------------------------------------------------
(* The clock. *)

AttemptAges ==
  /\ status = "sending" /\ last_attempt # "over15"
  /\ last_attempt' = IF last_attempt = "fresh" THEN "over5" ELSE "over15"
  /\ UNCHANGED <<family, event, status, attempts, next_retry_at, pc, outcome,
                 back, accepted, calm>>

RetryFallsDue ==
  /\ next_retry_at = "future"
  /\ next_retry_at' = "due"
  /\ UNCHANGED <<family, event, status, attempts, last_attempt, pc, outcome,
                 back, accepted, calm>>

EventAges ==
  /\ event.current /\ event.age # "old"
  /\ event' = [event EXCEPT !.age =
                 IF event.age = "fresh" THEN "window" ELSE "old"]
  /\ UNCHANGED <<family, row, pc, outcome, back, accepted, calm>>

-----------------------------------------------------------------------------
Deliver(w) == \/ InsertIgnore(w) \/ Claim(w) \/ DuplicateSkipped(w) \/ Send(w)
              \/ SendNothing(w) \/ RecordSent(w) \/ RecordFailure(w)
              \/ scheduleNotificationRetry(w)

Reconcile(w) == \/ retryDueNotifications(w) \/ CheckCurrent(w) \/ dropRetry(w)
                \/ Rearm(w) \/ recoverMissingNotifications(w) \/ LookForRow(w)
                \/ markStaleSendingUnknown(w)

Clock == AttemptAges \/ RetryFallsDue \/ EventAges

Next == \/ \E w \in Workers : \/ EventHappens(w) \/ Deliver(w)
                              \/ Reconcile(w)
                              \/ StatementFails(w) \/ Crash(w)
        \/ EventPasses
        \/ Clock
        \/ CalmBegins

Spec == Init /\ [][Next]_vars

(* The reconciler ticks every five minutes, and some day every pass of it  *)
(* gets to its end; the clock advances an attempt and a scheduled retry.   *)
(* No sender need do anything, and the event need not age.                 *)
Fairness ==
  /\ \A w \in Reconcilers : WF_vars(Reconcile(w) \/ Deliver(w))
  /\ WF_vars(CalmBegins)
  /\ WF_vars(AttemptAges)
  /\ WF_vars(RetryFallsDue)

FairSpec == Spec /\ Fairness

-----------------------------------------------------------------------------
(* Properties. *)

(* Every variable has its type.                                            *)
TypeOK ==
  /\ family \in Family
  /\ event \in OrderEvent
  /\ status \in RowStatus
  /\ attempts \in 0..(MaxAttempts + 1)
  /\ next_retry_at \in RetryAt
  /\ last_attempt \in AttemptAge
  /\ pc \in [Workers -> Step]
  /\ outcome \in [Workers -> Outcome]
  /\ back \in [Workers -> {"idle", "recover", "mark"}]
  /\ accepted \in 0..2
  /\ calm \in BOOLEAN

(* "A concurrent live send or a second worker can never double-send": a    *)
(* customer is told of a return or refund event at most once -- crashes,   *)
(* repeated events, lost answers, retries, recovery and slow sends         *)
(* included.                                                               *)
ToldOnce == Reconcilable => accepted <= 1

(* A retry is scheduled only for a message no provider has accepted: a     *)
(* lost answer, or an acceptance that could not be recorded, is never      *)
(* taken for a refusal.                                                    *)
RetryMeansRefused == next_retry_at # "null" => accepted = 0

(* NOTIFICATION_MAX_ATTEMPTS is the number "of sends in total", although   *)
(* the attempt is counted, sent and judged in three statements.            *)
AttemptsBounded == Reconcilable => attempts <= MaxAttempts

(* Nothing a slow sender or the reconciler does later takes back 'sent' or *)
(* 'unknown', and 'sent' is written of a customer event only after an      *)
(* acceptance. (Of a shipment status it may be written of no message.)     *)
VerdictIsFinal ==
  [][/\ status \in {"sent", "unknown"} => status' = status
     /\ Reconcilable /\ status' = "sent" => accepted' > 0]_vars

(* A customer event whose announcement was lost (the process died after    *)
(* the commit, or before the claim), young enough to be recovered.         *)
Lost == /\ family = "recoverable" /\ event.current /\ event.age = "window"
        /\ status \in {"none", "pending"}

(* Nothing is forgotten: the reconciler announces a lost event while it is *)
(* current and young enough, closes a row left 'sending' by a sender that  *)
(* died, and sends or drops a scheduled retry.                             *)
NothingIsForgotten ==
  /\ []<>~Lost
  /\ []<>(Reconcilable => status # "sending")
  /\ []<>(status = "failed" => next_retry_at = "null")
=============================================================================
