------------------------- MODULE NotificationProofs -------------------------
(* Proofs about Notification, for any number of senders and reconcilers    *)
(* and any limit on the attempts.                                          *)
EXTENDS Notification, TLAPS

USE NotificationAssumption

-----------------------------------------------------------------------------
(* Types. *)

LEMMA InitTyped == Init => TypeOK
<1> SUFFICES ASSUME Init PROVE TypeOK
  OBVIOUS
<1>1. [current |-> FALSE, age |-> "fresh"] \in OrderEvent
  BY DEF OrderEvent
<1>2. event \in OrderEvent
  BY <1>1 DEF Init
<1>3. /\ status \in RowStatus /\ next_retry_at \in RetryAt
      /\ last_attempt \in AttemptAge
  BY DEF Init, RowStatus, RetryAt, AttemptAge
<1>4. attempts \in 0..(MaxAttempts + 1) /\ accepted \in 0..2
  BY DEF Init
<1>5. /\ pc \in [Workers -> Step] /\ outcome \in [Workers -> Outcome]
      /\ back \in [Workers -> {"idle", "recover", "mark"}]
  BY DEF Init, Step, Outcome
<1>6. family \in Family /\ calm \in BOOLEAN
  BY DEF Init
<1> QED
  BY <1>2, <1>3, <1>4, <1>5, <1>6 DEF TypeOK

(* What happens to the order keeps the event a record of its type.         *)
LEMMA EventTyped ==
  ASSUME event \in OrderEvent,
         NEW age \in {"fresh", "window", "old"}
  PROVE  /\ [current |-> TRUE, age |-> "fresh"] \in OrderEvent
         /\ [event EXCEPT !.current = FALSE] \in OrderEvent
         /\ [event EXCEPT !.age = age] \in OrderEvent
  BY DEF OrderEvent

LEMMA TypeStep == TypeOK /\ [Next]_vars => TypeOK'
<1> SUFFICES ASSUME TypeOK, [Next]_vars PROVE TypeOK'
  OBVIOUS
<1> USE DEF TypeOK, RowStatus, RetryAt, AttemptAge, Step, Delivering,
            Outcome, Goto, Done, row
<1>1. ASSUME NEW w \in Workers, EventHappens(w) PROVE TypeOK'
  BY <1>1, EventTyped DEF EventHappens
<1>2. ASSUME NEW w \in Workers, Deliver(w) PROVE TypeOK'
  <2>1. CASE InsertIgnore(w)
    BY <2>1 DEF InsertIgnore
  <2>2. CASE Claim(w)
    BY <2>2 DEF Claim
  <2>3. CASE DuplicateSkipped(w)
    BY <2>3 DEF DuplicateSkipped
  <2>4. CASE Send(w)
    BY <2>4 DEF Send, Accepts
  <2>8. CASE SendNothing(w)
    BY <2>8 DEF SendNothing
  <2>5. CASE RecordSent(w)
    BY <2>5 DEF RecordSent, Record
  <2>6. CASE RecordFailure(w)
    BY <2>6 DEF RecordFailure, Record
  <2>7. CASE scheduleNotificationRetry(w)
    BY <2>7 DEF scheduleNotificationRetry
  <2>q. QED BY <1>2, <2>1, <2>2, <2>3, <2>4, <2>5, <2>6, <2>7, <2>8 DEF Deliver
<1>3. ASSUME NEW w \in Workers, Reconcile(w) PROVE TypeOK'
  <2> USE DEF Decide
  <2>1. CASE retryDueNotifications(w)
    BY <2>1 DEF retryDueNotifications
  <2>2. CASE CheckCurrent(w)
    BY <2>2 DEF CheckCurrent
  <2>3. CASE dropRetry(w)
    BY <2>3 DEF dropRetry
  <2>4. CASE Rearm(w)
    BY <2>4 DEF Rearm
  <2>5. CASE recoverMissingNotifications(w)
    BY <2>5 DEF recoverMissingNotifications
  <2>6. CASE LookForRow(w)
    BY <2>6 DEF LookForRow
  <2>7. CASE markStaleSendingUnknown(w)
    BY <2>7 DEF markStaleSendingUnknown
  <2>q. QED BY <1>3, <2>1, <2>2, <2>3, <2>4, <2>5, <2>6, <2>7 DEF Reconcile
<1>4. ASSUME NEW w \in Workers, StatementFails(w) PROVE TypeOK'
  BY <1>4 DEF StatementFails
<1>5. ASSUME NEW w \in Workers, Crash(w) PROVE TypeOK'
  BY <1>5 DEF Crash
<1>6. CASE EventPasses
  BY <1>6, EventTyped DEF EventPasses
<1>7. CASE AttemptAges
  BY <1>7 DEF AttemptAges
<1>8. CASE RetryFallsDue
  BY <1>8 DEF RetryFallsDue
<1>9. CASE EventAges
  BY <1>9, EventTyped DEF EventAges
<1>10. CASE CalmBegins
  BY <1>10 DEF CalmBegins
<1>11. CASE UNCHANGED vars
  BY <1>11 DEF vars
<1>q. QED
  BY <1>1, <1>2, <1>3, <1>4, <1>5, <1>6, <1>7, <1>8, <1>9, <1>10, <1>11
  DEF Next, Clock

(* The type invariant of the notification row and its workers.             *)
THEOREM TypeCorrect == Spec => []TypeOK
  BY InitTyped, TypeStep, PTL DEF Spec

-----------------------------------------------------------------------------
(* One sending at a time.                                                  *)
(*                                                                         *)
(* ToldOnce counts acceptances, but the code never sees the count: it sees *)
(* the status of the row. The invariant says what the status of a customer *)
(* event's row knows. While somebody holds the claim it is 'sending', or   *)
(* 'unknown' once the reconciler gave up on it, and there is no second     *)
(* holder; and it can be 'none', 'pending' or 'failed' -- from where it    *)
(* might be claimed again -- only if no provider accepted the message.     *)

Holds(w) == pc[w] \in {"send", "record"}

HeldIsClaimed ==
  \A w \in Workers : Holds(w) => status \in {"sending", "unknown"}

OneHolder ==
  \A v, w \in Workers : Holds(v) /\ Holds(w) => v = w

AcceptedIsKept == accepted > 0 => status \in {"sending", "sent", "unknown"}

NotYetSent == \A w \in Workers : pc[w] = "send" => accepted = 0

RefusedIsRefused ==
  \A w \in Workers :
    pc[w] = "record" /\ outcome[w] \notin {"accepted", "unknown"}
      => accepted = 0

CustomerInv ==
  /\ HeldIsClaimed /\ OneHolder
  /\ AcceptedIsKept /\ NotYetSent /\ RefusedIsRefused
  /\ accepted <= 1

(* Retries: a shipment never has one; a customer event has one only while  *)
(* it is failed, and has attempts left whenever it may be claimed.         *)
RetryInv ==
  /\ next_retry_at # "null" => Reconcilable /\ status = "failed"
  /\ \A w \in Workers : pc[w] = "schedule" => Reconcilable

AttemptsInv ==
  /\ status = "none" => attempts = 0
  /\ status = "pending" \/ next_retry_at # "null" => attempts < MaxAttempts
  /\ Reconcilable => attempts <= MaxAttempts

Safe == /\ Reconcilable => CustomerInv
        /\ RetryInv
        /\ AttemptsInv

LEMMA InitSafe == Init => Safe
  BY DEF Init, Safe, CustomerInv, HeldIsClaimed, OneHolder, AcceptedIsKept,
         NotYetSent, RefusedIsRefused, RetryInv, AttemptsInv, Holds,
         Reconcilable

LEMMA SafeStep == TypeOK /\ Safe /\ [Next]_vars => Safe'
<1> SUFFICES ASSUME TypeOK, Safe, [Next]_vars PROVE Safe'
  OBVIOUS
<1> USE DEF TypeOK, RowStatus, RetryAt, Step, Delivering, Goto, Done, row,
            Safe, CustomerInv, HeldIsClaimed, OneHolder, AcceptedIsKept,
            NotYetSent, RefusedIsRefused, RetryInv, AttemptsInv, Holds,
            Reconcilable
<1>1. ASSUME NEW w \in Workers, EventHappens(w) PROVE Safe'
  BY <1>1 DEF EventHappens
<1>2. ASSUME NEW w \in Workers, Deliver(w) PROVE Safe'
  <2>1. CASE InsertIgnore(w)
    BY <2>1 DEF InsertIgnore
  <2>2. CASE Claim(w)
    BY <2>2 DEF Claim, Claimable, Stale
  <2>3. CASE DuplicateSkipped(w)
    BY <2>3 DEF DuplicateSkipped
  <2>4. CASE Send(w)
    BY <2>4 DEF Send, Accepts
  <2>8. CASE SendNothing(w)
    BY <2>8 DEF SendNothing
  <2>5. CASE RecordSent(w)
    BY <2>5 DEF RecordSent, Record
  <2>6. CASE RecordFailure(w)
    BY <2>6 DEF RecordFailure, Record
  <2>7. CASE scheduleNotificationRetry(w)
    BY <2>7 DEF scheduleNotificationRetry, RetriesLeft
  <2>q. QED BY <1>2, <2>1, <2>2, <2>3, <2>4, <2>5, <2>6, <2>7, <2>8 DEF Deliver
<1>3. ASSUME NEW w \in Workers, Reconcile(w) PROVE Safe'
  <2> USE DEF Decide
  <2>1. CASE retryDueNotifications(w)
    BY <2>1 DEF retryDueNotifications
  <2>2. CASE CheckCurrent(w)
    BY <2>2 DEF CheckCurrent
  <2>3. CASE dropRetry(w)
    BY <2>3 DEF dropRetry
  <2>4. CASE Rearm(w)
    BY <2>4 DEF Rearm, Due
  <2>5. CASE recoverMissingNotifications(w)
    BY <2>5 DEF recoverMissingNotifications
  <2>6. CASE LookForRow(w)
    BY <2>6 DEF LookForRow
  <2>7. CASE markStaleSendingUnknown(w)
    BY <2>7 DEF markStaleSendingUnknown
  <2>q. QED BY <1>3, <2>1, <2>2, <2>3, <2>4, <2>5, <2>6, <2>7 DEF Reconcile
<1>4. ASSUME NEW w \in Workers, StatementFails(w) PROVE Safe'
  BY <1>4 DEF StatementFails
<1>5. ASSUME NEW w \in Workers, Crash(w) PROVE Safe'
  BY <1>5 DEF Crash
<1>6. CASE EventPasses
  BY <1>6 DEF EventPasses
<1>7. CASE AttemptAges
  BY <1>7 DEF AttemptAges
<1>8. CASE RetryFallsDue
  BY <1>8 DEF RetryFallsDue
<1>9. CASE EventAges
  BY <1>9 DEF EventAges
<1>10. CASE CalmBegins
  BY <1>10 DEF CalmBegins
<1>11. CASE UNCHANGED vars
  BY <1>11 DEF vars
<1>q. QED
  BY <1>1, <1>2, <1>3, <1>4, <1>5, <1>6, <1>7, <1>8, <1>9, <1>10, <1>11
  DEF Next, Clock

LEMMA SafeCorrect == Spec => [](TypeOK /\ Safe)
<1>1. Init => TypeOK /\ Safe
  BY InitTyped, InitSafe
<1>2. TypeOK /\ Safe /\ [Next]_vars => (TypeOK /\ Safe)'
  BY TypeStep, SafeStep
<1> QED BY <1>1, <1>2, PTL DEF Spec

(* A customer is told of a return or refund event at most once, whoever    *)
(* announces it, however often, and whatever fails on the way.             *)
THEOREM CustomerToldOnce == Spec => []ToldOnce
<1>1. TypeOK /\ Safe => ToldOnce
  BY DEF Safe, CustomerInv, ToldOnce
<1> QED BY <1>1, SafeCorrect, PTL

(* What is scheduled for a retry has never been accepted by a provider.    *)
THEOREM RetriesAreRefused == Spec => []RetryMeansRefused
<1>1. TypeOK /\ Safe => RetryMeansRefused
  BY DEF TypeOK, Safe, CustomerInv, AcceptedIsKept, RetryInv,
         RetryMeansRefused
<1> QED BY <1>1, SafeCorrect, PTL

(* No customer event is sent more than NOTIFICATION_MAX_ATTEMPTS times.    *)
THEOREM AttemptsStayBounded == Spec => []AttemptsBounded
<1>1. TypeOK /\ Safe => AttemptsBounded
  BY DEF Safe, AttemptsInv, AttemptsBounded
<1> QED BY <1>1, SafeCorrect, PTL

-----------------------------------------------------------------------------
(* Verdicts. What a worker remembers of a customer event as accepted was   *)
(* accepted, and stays so: nobody takes an acceptance back.                *)

VerdictInv ==
  Reconcilable =>
    /\ status = "sent" => accepted > 0
    /\ \A w \in Workers : outcome[w] = "accepted" => accepted > 0

VerdictStands == /\ status \in {"sent", "unknown"} => status' = status
                 /\ Reconcilable /\ status' = "sent" => accepted' > 0

LEMMA VerdictStep ==
  TypeOK /\ VerdictInv /\ [Next]_vars => VerdictInv' /\ VerdictStands
<1> SUFFICES ASSUME TypeOK, VerdictInv, [Next]_vars
             PROVE  VerdictInv' /\ VerdictStands
  OBVIOUS
<1> DEFINE Goal == VerdictInv' /\ VerdictStands
<1> USE DEF TypeOK, RowStatus, Step, Outcome, Goto, Done, row, VerdictInv,
            VerdictStands, Reconcilable
<1>1. ASSUME NEW w \in Workers, EventHappens(w) PROVE Goal
  BY <1>1 DEF EventHappens
<1>2. ASSUME NEW w \in Workers, Deliver(w) PROVE Goal
  <2>1. CASE InsertIgnore(w)
    BY <2>1 DEF InsertIgnore
  <2>2. CASE Claim(w)
    BY <2>2 DEF Claim, Claimable, Stale
  <2>3. CASE DuplicateSkipped(w)
    BY <2>3 DEF DuplicateSkipped
  <2>4. CASE Send(w)
    BY <2>4 DEF Send, Accepts
  <2>8. CASE SendNothing(w)
    BY <2>8 DEF SendNothing
  <2>5. CASE RecordSent(w)
    BY <2>5 DEF RecordSent, Record
  <2>6. CASE RecordFailure(w)
    BY <2>6 DEF RecordFailure, Record
  <2>7. CASE scheduleNotificationRetry(w)
    BY <2>7 DEF scheduleNotificationRetry
  <2>q. QED BY <1>2, <2>1, <2>2, <2>3, <2>4, <2>5, <2>6, <2>7, <2>8 DEF Deliver
<1>3. ASSUME NEW w \in Workers, Reconcile(w) PROVE Goal
  BY <1>3 DEF Reconcile, Decide, retryDueNotifications, CheckCurrent,
              dropRetry, Rearm, Due, recoverMissingNotifications, LookForRow,
              markStaleSendingUnknown
<1>4. ASSUME NEW w \in Workers, StatementFails(w) PROVE Goal
  BY <1>4 DEF StatementFails
<1>5. ASSUME NEW w \in Workers, Crash(w) PROVE Goal
  BY <1>5 DEF Crash
<1>6. CASE EventPasses \/ Clock \/ CalmBegins \/ UNCHANGED vars
  BY <1>6 DEF EventPasses, Clock, AttemptAges, RetryFallsDue, EventAges,
              CalmBegins, vars
<1>q. QED BY <1>1, <1>2, <1>3, <1>4, <1>5, <1>6 DEF Next

(* 'sent' and 'unknown' are final, and of a customer event 'sent' is true: *)
(* no slow sender, retry or second worker overwrites them                  *)
(* (sendOrderStatusNotificationOnce).                                      *)
THEOREM VerdictsStand == Spec => VerdictIsFinal
<1>1. Init => TypeOK /\ VerdictInv
  BY InitTyped DEF Init, VerdictInv
<1>2. TypeOK /\ VerdictInv /\ [Next]_vars => (TypeOK /\ VerdictInv)'
  BY TypeStep, VerdictStep
<1>3. TypeOK /\ VerdictInv /\ [Next]_vars =>
        [/\ status \in {"sent", "unknown"} => status' = status
         /\ Reconcilable /\ status' = "sent" => accepted' > 0]_vars
  BY VerdictStep DEF VerdictStands
<1> QED BY <1>1, <1>2, <1>3, PTL DEF Spec, VerdictIsFinal

-----------------------------------------------------------------------------
(* What NothingIsForgotten rests on.                                       *)
(*                                                                         *)
(* That a row left 'sending' is closed and a retry is taken up, in the     *)
(* end, rests on fairness. That neither is lost on the way does not: the   *)
(* one worker that failed schedules the retry, and meanwhile nobody else   *)
(* has any business with the row.                                          *)

Scheduling ==
  \A w \in Workers : pc[w] = "schedule" =>
    /\ next_retry_at = "null" /\ status \in {"failed", "unknown"}
    /\ \A v \in Workers : ~Holds(v) /\ (pc[v] = "schedule" => v = w)

(* A customer event's claim ends in one of the three verdicts, and a retry *)
(* falls due, is sent, or is dropped by a reconciler that found the order  *)
(* no longer described by the event; nobody else clears or delays it.      *)
SlotStep ==
  Reconcilable =>
    /\ status = "sending" =>
         status' \in {"sending", "sent", "failed", "unknown"}
    /\ next_retry_at # "null" /\ status' # status => status' = "pending"
    /\ next_retry_at # "null" /\ status' = status =>
         \/ next_retry_at' = next_retry_at
         \/ next_retry_at = "future" /\ next_retry_at' = "due"
         \/ \E w \in Reconcilers : pc[w] = "drop" /\ pc'[w] = "recover"

SlotGoesOn == [][SlotStep]_vars

(* Only a reconciler runs the reconciler's steps.                          *)
OnlyReconcilers ==
  \A w \in Workers : pc[w] \in {"check", "drop", "rearm"} => w \in Reconcilers

SlotInv == TypeOK /\ Safe /\ Scheduling /\ OnlyReconcilers

LEMMA SlotBegins == Init => SlotInv
  BY InitTyped, InitSafe DEF Init, SlotInv, Scheduling, OnlyReconcilers

LEMMA SlotMoves ==
  SlotInv /\ Reconcilable /\ [Next]_vars => Scheduling' /\ SlotStep
<1> SUFFICES ASSUME SlotInv, Reconcilable, [Next]_vars
             PROVE  Scheduling' /\ SlotStep
  OBVIOUS
<1> DEFINE Goal == Scheduling' /\ SlotStep
<1> USE DEF TypeOK, RowStatus, RetryAt, Step, Delivering, Goto, Done, row,
            SlotInv, Safe, CustomerInv, HeldIsClaimed, OneHolder, RetryInv,
            Scheduling, SlotStep, Holds
<1>1. ASSUME NEW w \in Workers, EventHappens(w) PROVE Goal
  BY <1>1 DEF EventHappens
<1>2. ASSUME NEW w \in Workers, Deliver(w) PROVE Goal
  <2>1. CASE InsertIgnore(w)
    BY <2>1 DEF InsertIgnore
  <2>2. CASE Claim(w)
    BY <2>2 DEF Claim, Claimable, Stale
  <2>3. CASE DuplicateSkipped(w)
    BY <2>3 DEF DuplicateSkipped
  <2>4. CASE Send(w)
    BY <2>4 DEF Send
  <2>8. CASE SendNothing(w)
    BY <2>8 DEF SendNothing
  <2>5. CASE RecordSent(w)
    BY <2>5 DEF RecordSent, Record
  <2>6. CASE RecordFailure(w)
    BY <2>6 DEF RecordFailure, Record
  <2>7. CASE scheduleNotificationRetry(w)
    BY <2>7 DEF scheduleNotificationRetry
  <2>q. QED BY <1>2, <2>1, <2>2, <2>3, <2>4, <2>5, <2>6, <2>7, <2>8 DEF Deliver
<1>3. ASSUME NEW w \in Workers, Reconcile(w) PROVE Goal
  <2> USE DEF Decide
  <2>1. CASE retryDueNotifications(w)
    BY <2>1 DEF retryDueNotifications
  <2>2. CASE CheckCurrent(w)
    BY <2>2 DEF CheckCurrent
  <2>3. CASE dropRetry(w)
    BY <2>3 DEF dropRetry, OnlyReconcilers
  <2>4. CASE Rearm(w)
    BY <2>4 DEF Rearm, Due
  <2>5. CASE recoverMissingNotifications(w)
    BY <2>5 DEF recoverMissingNotifications
  <2>6. CASE LookForRow(w)
    BY <2>6 DEF LookForRow
  <2>7. CASE markStaleSendingUnknown(w)
    BY <2>7 DEF markStaleSendingUnknown
  <2>q. QED BY <1>3, <2>1, <2>2, <2>3, <2>4, <2>5, <2>6, <2>7 DEF Reconcile
<1>4. ASSUME NEW w \in Workers, StatementFails(w) PROVE Goal
  BY <1>4 DEF StatementFails
<1>5. ASSUME NEW w \in Workers, Crash(w) PROVE Goal
  BY <1>5 DEF Crash
<1>6. CASE EventPasses \/ Clock \/ CalmBegins \/ UNCHANGED vars
  BY <1>6 DEF EventPasses, Clock, AttemptAges, RetryFallsDue, EventAges,
              CalmBegins, vars
<1>q. QED BY <1>1, <1>2, <1>3, <1>4, <1>5, <1>6 DEF Next

(* Every action leaves the kind of the event alone.                        *)
LEMMA FamilyStays == [Next]_vars => family' = family
  BY DEF Next, vars, EventHappens, Deliver, InsertIgnore, Claim,
         DuplicateSkipped, Send, SendNothing, RecordSent, RecordFailure,
         scheduleNotificationRetry, Reconcile, retryDueNotifications,
         CheckCurrent, dropRetry, Rearm, recoverMissingNotifications,
         LookForRow, markStaleSendingUnknown, Decide, StatementFails, Crash,
         EventPasses, Clock, AttemptAges, RetryFallsDue, EventAges, CalmBegins

(* A sender never enters the reconciler's steps.                           *)
LEMMA ReconcilersStay ==
  TypeOK /\ OnlyReconcilers /\ [Next]_vars => OnlyReconcilers'
<1> SUFFICES ASSUME TypeOK, OnlyReconcilers, [Next]_vars
             PROVE  OnlyReconcilers'
  OBVIOUS
<1> USE DEF TypeOK, Step, Delivering, Goto, Done, OnlyReconcilers
<1>1. ASSUME NEW w \in Workers, EventHappens(w) \/ Deliver(w)
      PROVE  OnlyReconcilers'
  BY <1>1 DEF EventHappens, Deliver, InsertIgnore, Claim, DuplicateSkipped,
              Send, SendNothing, RecordSent, RecordFailure, scheduleNotificationRetry
<1>2. ASSUME NEW w \in Workers, Reconcile(w) PROVE OnlyReconcilers'
  BY <1>2 DEF Reconcile, Decide, retryDueNotifications, CheckCurrent,
              dropRetry, Rearm, recoverMissingNotifications, LookForRow,
              markStaleSendingUnknown
<1>3. ASSUME NEW w \in Workers, StatementFails(w) \/ Crash(w)
      PROVE  OnlyReconcilers'
  BY <1>3 DEF StatementFails, Crash
<1>4. CASE EventPasses \/ Clock \/ CalmBegins \/ UNCHANGED vars
  BY <1>4 DEF EventPasses, Clock, AttemptAges, RetryFallsDue, EventAges,
              CalmBegins, vars
<1>q. QED BY <1>1, <1>2, <1>3, <1>4 DEF Next

(* Neither a claim nor a scheduled retry is lost on the way, whoever dies, *)
(* fails, gives up or announces the event again. The safety half of        *)
(* NothingIsForgotten.                                                     *)
THEOREM RetriesAreKept == Spec => SlotGoesOn
<1>1. SlotInv /\ [Next]_vars => SlotInv'
  <2> SUFFICES ASSUME SlotInv, [Next]_vars PROVE SlotInv'
    OBVIOUS
  <2>1. TypeOK' /\ Safe' /\ OnlyReconcilers'
    BY TypeStep, SafeStep, ReconcilersStay DEF SlotInv
  <2>2. CASE Reconcilable
    BY <2>1, <2>2, SlotMoves DEF SlotInv
  <2>3. CASE ~Reconcilable
    <3>1. ~Reconcilable'
      BY <2>3, FamilyStays DEF Reconcilable
    <3>2. Scheduling'
      BY <2>1, <3>1 DEF Safe, RetryInv, Scheduling
    <3> QED BY <2>1, <3>2 DEF SlotInv
  <2> QED BY <2>2, <2>3
<1>2. SlotInv /\ [Next]_vars => [SlotStep]_vars
  BY SlotMoves DEF SlotStep
<1> QED BY <1>1, <1>2, SlotBegins, PTL DEF Spec, SlotGoesOn
=============================================================================
