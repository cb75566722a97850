--------------------------- MODULE ReminderProofs ---------------------------
(***************************************************************************)
(* Proofs about Reminder, for any finite number of ticks, any number of    *)
(* subscription requests, any pool and any number of permits.              *)
(***************************************************************************)
EXTENDS Reminder, FiniteSetTheorems, TLAPS

-----------------------------------------------------------------------------
(* The queue of the permits.                                               *)
(*                                                                         *)
(* A permit is handed to the head of the queue, so that none is lost needs *)
(* to know that everybody in the queue really waits, and is there once.    *)

Queued ==
  /\ waiters \in Seq(Ticks)
  /\ \A i \in 1..Len(waiters) : tick[waiters[i]] = "wait"
  /\ \A i, j \in 1..Len(waiters) : waiters[i] = waiters[j] => i = j

Holders == {t \in Ticks : HasPermit(t)}

OrderRow == [order_status: {"shipped", "delivered", "returned", "cancelled"},
             return_approved: BOOLEAN]

(* ReminderTypeOK but for the length of the queue, which Queued bounds.    *)
Typed ==
  /\ reminder \in ReminderRow /\ rorder \in OrderRow
  /\ slot \in {"none", "pending", "sending", "stale", "success", "failed", "unknown"}
  /\ owner \in Ticks \cup {NoTick}
  /\ tick \in [Ticks -> TickStep]
  /\ shared \subseteq Ticks
  /\ changer \in [Changers -> {"idle", "paused", "ended", "active", "end"}]
  /\ reminded \in Nat /\ outlived \in BOOLEAN /\ misfiled \in BOOLEAN

QueueInv == Typed /\ Queued /\ PermitsKept

LEMMA HoldersFinite == IsFiniteSet(Holders) /\ Cardinality(Holders) \in Nat
  <1>1. Holders \subseteq Ticks
    BY DEF Holders
  <1> QED BY <1>1, ReminderAssumption, FS_Subset, FS_CardinalityType

(* Nobody is in the queue twice, so it is no longer than the ticks are many. *)
LEMMA QueueIsShort ==
  Queued => Len(waiters) <= Cardinality(Ticks)
  <1> SUFFICES ASSUME Queued PROVE Len(waiters) <= Cardinality(Ticks)
    OBVIOUS
  <1>1. Len(waiters) \in Nat /\ waiters \in [1..Len(waiters) -> Ticks]
    BY DEF Queued
  <1>2. IsFiniteSet(1..Len(waiters)) /\ Cardinality(1..Len(waiters)) = Len(waiters)
    BY <1>1, FS_Interval
  <1>3. waiters \in Injection(1..Len(waiters), Ticks)
    BY <1>1 DEF Queued, Injection, IsInjective
  <1> QED BY <1>2, <1>3, ReminderAssumption, FS_Injection

(* A step of one tick that keeps its permit, or stays without one.         *)
LEMMA MovesWithin ==
  ASSUME Typed, Queued, PermitsKept, NEW t \in Ticks, NEW s \in TickStep,
         Moves(t, s), tick[t] # "wait", waiters' = waiters,
         HasPermit(t) <=> s \notin {"idle", "list", "wait", "end"}
  PROVE  tick' \in [Ticks -> TickStep] /\ Queued' /\ PermitsKept'
  <1>1. /\ tick' \in [Ticks -> TickStep] /\ tick'[t] = s
        /\ \A q \in Ticks : q # t => tick'[q] = tick[q]
    BY DEF Typed, Moves
  <1>2. Queued'
    BY <1>1 DEF Queued
  <1>3. Holders' = Holders
    BY <1>1 DEF Holders, HasPermit
  <1>4. PermitsKept'
    BY <1>3 DEF PermitsKept, Holders
  <1> QED BY <1>1, <1>2, <1>4

(* releaseGuardedSendPermit: whom it leaves where.                         *)
LEMMA LeavesTo ==
  ASSUME Typed, Queued, NEW t \in Ticks, HasPermit(t), Leaves(t)
  PROVE  /\ tick' \in [Ticks -> TickStep] /\ tick'[t] = "end"
         /\ \A q \in Ticks \ {t} :
              \/ tick'[q] = tick[q]
              \/ /\ tick[q] = "wait" /\ tick'[q] = "guard"
                 /\ waiters # <<>> /\ q = Head(waiters)
         /\ waiters # <<>> => tick'[Head(waiters)] = "guard"
         /\ Queued'
  <1>1. CASE waiters = <<>>
    <2>1. tick' = [tick EXCEPT ![t] = "end"] /\ waiters' = <<>>
      BY <1>1 DEF Leaves, Moves
    <2> QED BY <1>1, <2>1 DEF Typed, Queued, TickStep
  <1>2. CASE waiters # <<>>
    <2> DEFINE h == Head(waiters)
    <2>1. /\ h \in Ticks /\ h = waiters[1] /\ tick[h] = "wait" /\ h # t
          /\ Tail(waiters) \in Seq(Ticks) /\ Len(Tail(waiters)) = Len(waiters) - 1
          /\ \A i \in 1..Len(Tail(waiters)) :
               Tail(waiters)[i] = waiters[i + 1] /\ i + 1 \in 1..Len(waiters)
      BY <1>2 DEF Queued, HasPermit
    <2>2. tick' = [tick EXCEPT ![t] = "end", ![h] = "guard"] /\ waiters' = Tail(waiters)
      BY <1>2 DEF Leaves
    <2>3. /\ tick' \in [Ticks -> TickStep] /\ tick'[t] = "end" /\ tick'[h] = "guard"
          /\ \A q \in Ticks \ {t, h} : tick'[q] = tick[q]
      BY <2>1, <2>2 DEF Typed, TickStep
    <2>4. ASSUME NEW i \in 1..Len(Tail(waiters))
          PROVE  /\ waiters[i + 1] \in Ticks \ {t, h}
                 /\ tick[waiters[i + 1]] = "wait"
      <3>1. 1 \in 1..Len(waiters) /\ i + 1 # 1
        BY <2>1 DEF Queued
      <3> QED BY <3>1, <2>1 DEF Queued, HasPermit
    <2>5. Queued'
      BY <2>1, <2>2, <2>3, <2>4 DEF Queued
    <2> QED BY <2>1, <2>3, <2>5, <1>2
  <1> QED BY <1>1, <1>2

LEMMA LeavesPermits ==
  ASSUME Typed, Queued, PermitsKept, NEW t \in Ticks, HasPermit(t), Leaves(t)
  PROVE  PermitsKept'
  <1>1. t \in Holders /\ Cardinality(Holders) <= Permits
    BY DEF Holders, PermitsKept
  <1>2. /\ IsFiniteSet(Holders \ {t})
        /\ Cardinality(Holders \ {t}) = Cardinality(Holders) - 1
    BY <1>1, HoldersFinite, FS_RemoveElement
  <1>3. CASE waiters = <<>>
    <2>1. Holders' = Holders \ {t}
      BY <1>3, LeavesTo DEF Holders, HasPermit
    <2>2. waiters' = <<>>
      BY <1>3 DEF Leaves
    <2>3. Cardinality(Holders') <= Permits
      BY <1>1, <1>2, <2>1, HoldersFinite, ReminderAssumption
    <2> QED BY <2>2, <2>3 DEF PermitsKept, Holders
  <1>4. CASE waiters # <<>>
    <2> DEFINE h == Head(waiters)
    <2>1. h \in Ticks /\ tick[h] = "wait"
      BY <1>4 DEF Queued
    <2>2. h \notin Holders /\ Holders' = (Holders \ {t}) \cup {h}
      BY <1>4, <2>1, LeavesTo DEF Holders, HasPermit
    <2>3. Cardinality((Holders \ {t}) \cup {h}) = Cardinality(Holders \ {t}) + 1
      BY <1>2, <2>2, FS_AddElement
    <2> HIDE DEF h
    <2>4. Cardinality(Holders') = Cardinality(Holders)
      BY <1>2, <2>2, <2>3, HoldersFinite
    <2>5. Cardinality(Holders) = Permits
      BY <1>4 DEF PermitsKept, Holders
    <2> QED BY <2>5, <2>4, ReminderAssumption DEF PermitsKept, Holders
  <1> QED BY <1>3, <1>4

LEMMA QueueInit == ReminderInit => QueueInv
  <1> SUFFICES ASSUME ReminderInit PROVE QueueInv
    OBVIOUS
  <1>1. Typed
    <2>1. tick \in [Ticks -> TickStep]
      BY DEF ReminderInit, TickStep
    <2>2. changer \in [Changers -> {"idle", "paused", "ended", "active", "end"}]
      BY DEF ReminderInit
    <2> QED BY <2>1, <2>2 DEF ReminderInit, Typed, ReminderRow, OrderRow
  <1>2. Queued
    BY DEF ReminderInit, Queued
  <1>3. Holders = {}
    BY DEF ReminderInit, Holders, HasPermit
  <1>4. Cardinality(Holders) <= Permits /\ waiters = <<>>
    BY <1>3, FS_EmptySet, ReminderAssumption DEF ReminderInit
  <1>5. PermitsKept
    BY <1>4 DEF PermitsKept, Holders
  <1> QED BY <1>1, <1>2, <1>5 DEF QueueInv

(* The scheduler's own part of the step. *)
LEMMA TicksKeepTheQueue ==
  ASSUME QueueInv, NEW t \in Ticks,
         \/ activateStuckReminders(t) \/ TickRuns(t)
         \/ StatementThrows(t) \/ CatchThrows(t) \/ GuardFails(t)
  PROVE  tick' \in [Ticks -> TickStep] /\ Queued' /\ PermitsKept'
  <1> USE DEF QueueInv
  <1> DEFINE Within(s) == /\ s \in TickStep /\ Moves(t, s) /\ tick[t] # "wait"
                          /\ waiters' = waiters
                          /\ HasPermit(t) <=> s \notin {"idle", "list", "wait", "end"}
             Hands == HasPermit(t) /\ Leaves(t)
  <1>1. ASSUME NEW s, Within(s)
        PROVE  tick' \in [Ticks -> TickStep] /\ Queued' /\ PermitsKept'
    BY <1>1, MovesWithin
  <1>2. CASE Hands
    BY <1>2, LeavesTo, LeavesPermits
  <1> HIDE DEF Within, Hands
  <1>3. CASE activateStuckReminders(t)
    <2>1. Within("list")
      BY <1>3 DEF activateStuckReminders, Within, HasPermit, TickStep
    <2> QED BY <2>1, <1>1
  <1>4. CASE getEligibleReminders(t)
    <2>1. CASE ~Eligible
      <3>1. Within("end")
        BY <1>4, <2>1 DEF getEligibleReminders, Within, HasPermit, TickStep
      <3> QED BY <3>1, <1>1
    <2>2. CASE Eligible /\ PermitFree
      <3>1. tick' = [tick EXCEPT ![t] = "guard"] /\ waiters' = waiters
        BY <1>4, <2>2 DEF getEligibleReminders, Moves
      <3>2. tick[t] = "list"
        BY <1>4 DEF getEligibleReminders
      <3>3. tick' \in [Ticks -> TickStep] /\ Queued'
        BY <3>1, <3>2 DEF Typed, TickStep, Queued
      <3>4. t \notin Holders /\ Holders' = Holders \cup {t}
        BY <3>1, <3>2 DEF Typed, Holders, HasPermit
      <3>5. Cardinality(Holders) < Permits
        BY <2>2 DEF PermitFree, Holders
      <3>6. waiters = <<>>
        <4>1. waiters # <<>> => Cardinality(Holders) = Permits
          BY DEF PermitsKept, Holders
        <4> QED BY <3>5, <4>1, ReminderAssumption, HoldersFinite
      <3>7. Cardinality(Holders') <= Permits
        <4>1. Cardinality(Holders \cup {t}) = Cardinality(Holders) + 1
          BY <3>4, HoldersFinite, FS_AddElement
        <4> QED BY <3>4, <3>5, <4>1, HoldersFinite, ReminderAssumption
      <3> QED BY <3>1, <3>3, <3>6, <3>7 DEF PermitsKept, Holders
    <2>3. CASE Eligible /\ ~PermitFree
      <3>1. tick' = [tick EXCEPT ![t] = "wait"] /\ waiters' = Append(waiters, t)
        BY <1>4, <2>3 DEF getEligibleReminders, Moves
      <3>2. tick[t] = "list"
        BY <1>4 DEF getEligibleReminders
      <3>3. /\ tick' \in [Ticks -> TickStep] /\ tick'[t] = "wait"
            /\ \A q \in Ticks : q # t => tick'[q] = tick[q]
        BY <3>1 DEF Typed, TickStep
      <3>4. Queued'
        <4>1. /\ waiters' \in Seq(Ticks) /\ Len(waiters') = Len(waiters) + 1
              /\ waiters'[Len(waiters) + 1] = t
              /\ \A i \in 1..Len(waiters) : waiters'[i] = waiters[i]
          BY <3>1 DEF Queued
        <4>2. \A i \in 1..Len(waiters) : waiters[i] \in Ticks \ {t}
          BY <3>2 DEF Queued
        <4> QED BY <4>1, <4>2, <3>3 DEF Queued
      <3>5. Holders' = Holders
        BY <3>1, <3>2 DEF Typed, Holders, HasPermit
      <3>6. Cardinality(Holders) = Permits
        BY <2>3, HoldersFinite, ReminderAssumption DEF PermitFree, PermitsKept, Holders
      <3>7. Cardinality(Holders') = Permits
        BY <3>5, <3>6
      <3> QED BY <3>3, <3>4, <3>7, ReminderAssumption DEF PermitsKept, Holders
    <2> QED BY <2>1, <2>2, <2>3
  <1>5. CASE acquireReminderSendGuard(t)
    <2>1. CASE Allowed
      <3>1. Within("insert")
        BY <1>5, <2>1 DEF acquireReminderSendGuard, Within, HasPermit, TickStep
      <3> QED BY <3>1, <1>1
    <2>2. CASE ~Allowed
      <3>1. Hands
        BY <1>5, <2>2 DEF acquireReminderSendGuard, Hands, HasPermit
      <3> QED BY <3>1, <1>2
    <2> QED BY <2>1, <2>2
  <1>6. CASE InsertSlot(t)
    <2>1. Within("claim")
      BY <1>6 DEF InsertSlot, Within, HasPermit, TickStep
    <2> QED BY <2>1, <1>1
  <1>7. CASE claimReminderSendSlot(t)
    <2>1. Within("send") \/ Within("release")
      BY <1>7 DEF claimReminderSendSlot, Within, HasPermit, TickStep
    <2> QED BY <2>1, <1>1
  <1>8. CASE SendReminder(t)
    <2>1. Within("success") \/ Within("failure")
      BY <1>8 DEF SendReminder, Within, HasPermit, TickStep
    <2> QED BY <2>1, <1>1
  <1>9. CASE SendReminderUnknown(t)
    <2>1. Within("unknown")
      BY <1>9 DEF SendReminderUnknown, Within, HasPermit, TickStep
    <2> QED BY <2>1, <1>1
  <1>10. CASE resolveReminderSendSuccess(t) \/ resolveReminderSendFailure(t)
    <2>1. Within("release")
      BY <1>10 DEF resolveReminderSendSuccess, resolveReminderSendFailure, Resolve,
                   Within, HasPermit, TickStep
    <2> QED BY <2>1, <1>1
  <1>11. CASE StatementThrows(t)
    <2>1. Within("caught") \/ Within("caught_success") \/ Within("caught_unknown")
      BY <1>11 DEF StatementThrows, Within, HasPermit, TickStep
    <2> QED BY <2>1, <1>1
  <1>12. CASE CatchThrows(t)
    <2>1. Within("release")
      BY <1>12 DEF CatchThrows, Within, HasPermit, TickStep
    <2> QED BY <2>1, <1>1
  <1>13. CASE GuardFails(t) \/ releaseGuard(t)
    <2>1. Hands
      BY <1>13 DEF GuardFails, releaseGuard, Hands, HasPermit
    <2> QED BY <2>1, <1>2
  <1> QED BY <1>3, <1>4, <1>5, <1>6, <1>7, <1>8, <1>9, <1>10, <1>11, <1>12, <1>13
          DEF TickRuns

(* The rest of the row's types. *)
LEMMA TicksAreTyped ==
  ASSUME Typed, tick' \in [Ticks -> TickStep], NEW t \in Ticks,
         \/ activateStuckReminders(t) \/ TickRuns(t)
         \/ StatementThrows(t) \/ CatchThrows(t) \/ GuardFails(t)
  PROVE  Typed'
  <1> USE DEF Typed, OnlyTick
  <1>1. CASE activateStuckReminders(t)
    <2>1. \A b \in BOOLEAN : [reminder EXCEPT !.activated = b] \in ReminderRow
      BY DEF ReminderRow
    <2> DEFINE b == reminder.activated
                    \/ (/\ reminder.enabled /\ reminder.status = "active"
                        /\ rorder.order_status = "delivered")
    <2>2. reminder' = [reminder EXCEPT !.activated = b]
      BY <1>1 DEF activateStuckReminders, ReminderRow
    <2>3. b \in BOOLEAN
      BY DEF ReminderRow
    <2>4. reminder' \in ReminderRow
      BY <2>1, <2>2, <2>3
    <2> QED BY <1>1, <2>4 DEF activateStuckReminders
  <1>2. CASE getEligibleReminders(t) \/ GuardFails(t) \/ releaseGuard(t)
             \/ acquireReminderSendGuard(t)
    BY <1>2 DEF getEligibleReminders, GuardFails, releaseGuard, acquireReminderSendGuard
  <1>3. CASE InsertSlot(t) \/ claimReminderSendSlot(t)
    BY <1>3 DEF InsertSlot, claimReminderSendSlot
  <1>4. CASE SendReminder(t) \/ SendReminderUnknown(t)
    BY <1>4 DEF SendReminder, SendReminderUnknown
  <1>5. CASE resolveReminderSendSuccess(t) \/ resolveReminderSendFailure(t)
    BY <1>5 DEF resolveReminderSendSuccess, resolveReminderSendFailure, Resolve
  <1>6. CASE StatementThrows(t) \/ CatchThrows(t)
    BY <1>6 DEF StatementThrows, CatchThrows
  <1> QED BY <1>1, <1>2, <1>3, <1>4, <1>5, <1>6 DEF TickRuns

LEMMA QueueStep == QueueInv /\ [ReminderNext]_reminderVars => QueueInv'
  <1> SUFFICES ASSUME QueueInv, [ReminderNext]_reminderVars PROVE QueueInv'
    OBVIOUS
  <1> USE DEF QueueInv
  <1>1. ASSUME UNCHANGED <<tick, waiters>> PROVE Queued' /\ PermitsKept'
    <2>1. Queued'
      BY <1>1 DEF Queued
    <2>2. Holders' = Holders
      BY <1>1 DEF Holders, HasPermit
    <2> QED BY <1>1, <2>1, <2>2 DEF PermitsKept, Holders
  <1>2. ASSUME NEW t \in Ticks,
               \/ activateStuckReminders(t) \/ TickRuns(t)
               \/ StatementThrows(t) \/ CatchThrows(t) \/ GuardFails(t)
        PROVE  QueueInv'
    BY <1>2, TicksKeepTheQueue, TicksAreTyped
  <1>3. CASE ProcessDies
    <2>1. /\ tick' \in [Ticks -> TickStep] /\ waiters' = <<>>
          /\ \A q \in Ticks : tick'[q] \in {"idle", "end"}
      BY <1>3 DEF ProcessDies, TickStep
    <2>2. Typed'
      BY <1>3, <2>1 DEF ProcessDies, Typed, OnlyTick
    <2>3. Queued'
      BY <2>1 DEF Queued
    <2>4. Holders' = {}
      BY <2>1 DEF Holders, HasPermit
    <2>5. Cardinality(Holders') <= Permits
      BY <2>4, FS_EmptySet, ReminderAssumption
    <2> QED BY <2>1, <2>2, <2>3, <2>5 DEF PermitsKept, Holders
  <1>4. CASE SlotGoesStale
    BY <1>1, <1>4 DEF SlotGoesStale, Typed, OnlyTick
  <1>5. CASE OrderIsDelivered \/ ReturnIsApproved \/ OrderEndsOtherwise
    <2>1. /\ Stopped \in ReminderRow
          /\ [reminder EXCEPT !.activated = @ \/ reminder.enabled] \in ReminderRow
      BY DEF Typed, Stopped, ReminderRow
    <2>2. /\ \A s \in {"delivered", "cancelled", "returned"} :
               [rorder EXCEPT !.order_status = s] \in OrderRow
          /\ [rorder EXCEPT !.return_approved = TRUE] \in OrderRow
      BY DEF Typed, OrderRow
    <2>3. rorder' \in OrderRow /\ reminder' \in ReminderRow
      BY <1>5, <2>1, <2>2
      DEF OrderIsDelivered, ReturnIsApproved, OrderEndsOtherwise, Typed
    <2>4. UNCHANGED <<slot, owner, tick, waiters, shared, reminded, outlived, misfiled,
                    changer>>
      BY <1>5 DEF OrderIsDelivered, ReturnIsApproved, OrderEndsOtherwise, OnlyReminder
    <2>5. Typed'
      BY <2>3, <2>4 DEF Typed
    <2> QED BY <1>1, <2>4, <2>5
  <1>6. ASSUME NEW c \in Changers, ChangeBegins(c) \/ ChangeIsWritten(c)
        PROVE  QueueInv'
    <2>1. UNCHANGED <<slot, owner, tick, waiters, shared, reminded, outlived, misfiled,
                    rorder>>
      BY <1>6 DEF ChangeBegins, ChangeIsWritten, OnlyReminder
    <2>2. CASE ChangeBegins(c)
      <3>1. \E s \in {"paused", "ended", "active", "end"} :
               changer' = [changer EXCEPT ![c] = s]
        BY <2>2 DEF ChangeBegins, Change
      <3> QED BY <1>1, <2>1, <2>2, <3>1 DEF ChangeBegins, Typed
    <2>3. CASE ChangeIsWritten(c)
      <3>1. [reminder EXCEPT !.status = changer[c]] \in ReminderRow
        BY <2>3 DEF ChangeIsWritten, Typed, ReminderRow
      <3> QED BY <1>1, <2>1, <2>3, <3>1 DEF ChangeIsWritten, Change, Typed
    <2> QED BY <1>6, <2>2, <2>3
  <1>7. CASE UNCHANGED reminderVars
    BY <1>1, <1>7 DEF reminderVars, Typed
  <1> QED BY <1>2, <1>3, <1>4, <1>5, <1>6, <1>7 DEF ReminderNext

(* No permit of the process is ever lost, and none is given twice: as many *)
(* ticks hold one as there are, whenever anybody waits (reminder's         *)
(* releaseGuardedSendPermit).                                              *)
THEOREM PermitsAreKept == ReminderSpec => []PermitsKept
  <1> USE DEF QueueInv
  <1> QED BY QueueInit, QueueStep, PTL DEF ReminderSpec

-----------------------------------------------------------------------------
(* Who waits for whom.                                                     *)
(*                                                                         *)
(* A connection is held under a permit, so that permits bound what the     *)
(* guards take of the pool; and who waits for a permit waits for somebody  *)
(* who holds one, because whoever waits stands in the queue.               *)

InLine == \A t \in Ticks :
            tick[t] = "wait" => \E i \in 1..Len(waiters) : waiters[i] = t

LEMMA LineInit == ReminderInit => InLine
  BY DEF ReminderInit, InLine

LEMMA LeavesTheLine ==
  ASSUME Typed, Queued, InLine, NEW t \in Ticks, HasPermit(t), Leaves(t)
  PROVE  InLine'
  <1> SUFFICES ASSUME NEW q \in Ticks, tick'[q] = "wait"
               PROVE  \E i \in 1..Len(waiters') : waiters'[i] = q
    BY DEF InLine
  <1>1. q # t /\ tick[q] = "wait"
    BY LeavesTo
  <1>2. PICK i \in 1..Len(waiters) : waiters[i] = q
    BY <1>1 DEF InLine
  <1>3. waiters # <<>> /\ q # Head(waiters)
    <2>1. waiters # <<>>
      BY <1>2 DEF Queued
    <2> QED BY <2>1, LeavesTo
  <1>4. waiters' = Tail(waiters)
    BY <1>3 DEF Leaves
  <1>5. i # 1 /\ i - 1 \in 1..Len(Tail(waiters)) /\ Tail(waiters)[i - 1] = waiters[i]
    BY <1>2, <1>3 DEF Queued
  <1> QED BY <1>2, <1>4, <1>5

LEMMA TicksKeepTheLine ==
  ASSUME Typed, Queued, InLine, NEW t \in Ticks,
         \/ activateStuckReminders(t) \/ TickRuns(t)
         \/ StatementThrows(t) \/ CatchThrows(t) \/ GuardFails(t)
  PROVE  InLine'
  <1>1. ASSUME NEW s \in TickStep \ {"wait"}, Moves(t, s), waiters' = waiters
        PROVE  InLine'
    BY <1>1 DEF Typed, Moves, InLine
  <1>2. ASSUME HasPermit(t), Leaves(t) PROVE InLine'
    BY <1>2, LeavesTheLine
  <1>3. CASE getEligibleReminders(t) /\ Eligible /\ ~PermitFree
    <2>1. tick' = [tick EXCEPT ![t] = "wait"] /\ waiters' = Append(waiters, t)
      BY <1>3 DEF getEligibleReminders, Moves
    <2>2. /\ Len(waiters') = Len(waiters) + 1 /\ Len(waiters) \in Nat
          /\ waiters'[Len(waiters) + 1] = t
          /\ \A i \in 1..Len(waiters) : waiters'[i] = waiters[i]
      BY <2>1 DEF Queued
    <2>3. ASSUME NEW q \in Ticks, tick'[q] = "wait"
          PROVE  \E i \in 1..Len(waiters') : waiters'[i] = q
      <3>1. CASE q = t
        BY <2>2, <3>1
      <3>2. CASE q # t
        <4>1. PICK i \in 1..Len(waiters) : waiters[i] = q
          BY <2>1, <2>3, <3>2 DEF InLine, Typed
        <4> QED BY <2>2, <4>1
      <3> QED BY <3>1, <3>2
    <2> QED BY <2>3 DEF InLine
  <1>4. CASE getEligibleReminders(t) /\ (~Eligible \/ PermitFree)
    BY <1>1, <1>4 DEF getEligibleReminders, TickStep
  <1>5. CASE acquireReminderSendGuard(t) \/ GuardFails(t) \/ releaseGuard(t)
    <2>1. HasPermit(t) /\ (Leaves(t) \/ (Moves(t, "insert") /\ waiters' = waiters))
      BY <1>5 DEF acquireReminderSendGuard, GuardFails, releaseGuard, HasPermit
    <2> QED BY <1>1, <1>2, <2>1 DEF TickStep
  <1>6. CASE activateStuckReminders(t) \/ InsertSlot(t) \/ claimReminderSendSlot(t)
             \/ SendReminder(t) \/ SendReminderUnknown(t)
    BY <1>1, <1>6 DEF activateStuckReminders, InsertSlot, claimReminderSendSlot,
       SendReminder, SendReminderUnknown, TickStep
  <1>7. CASE resolveReminderSendSuccess(t) \/ resolveReminderSendFailure(t)
             \/ StatementThrows(t) \/ CatchThrows(t)
    BY <1>1, <1>7 DEF resolveReminderSendSuccess, resolveReminderSendFailure, Resolve,
       StatementThrows, CatchThrows, TickStep
  <1> QED BY <1>3, <1>4, <1>5, <1>6, <1>7 DEF TickRuns

LEMMA LineStep == QueueInv /\ InLine /\ [ReminderNext]_reminderVars => InLine'
  <1> SUFFICES ASSUME QueueInv, InLine, [ReminderNext]_reminderVars PROVE InLine'
    OBVIOUS
  <1>1. ASSUME NEW t \in Ticks,
               \/ activateStuckReminders(t) \/ TickRuns(t)
               \/ StatementThrows(t) \/ CatchThrows(t) \/ GuardFails(t)
        PROVE  InLine'
    BY <1>1, TicksKeepTheLine DEF QueueInv
  <1>2. CASE ProcessDies
    BY <1>2 DEF ProcessDies, InLine
  <1>3. CASE \/ SlotGoesStale
             \/ OrderIsDelivered \/ ReturnIsApproved \/ OrderEndsOtherwise
             \/ \E c \in Changers : ChangeBegins(c) \/ ChangeIsWritten(c)
             \/ UNCHANGED reminderVars
    <2>1. UNCHANGED <<tick, waiters>>
      BY <1>3 DEF SlotGoesStale, OrderIsDelivered, ReturnIsApproved,
         OrderEndsOtherwise, ChangeBegins, ChangeIsWritten, OnlyReminder, reminderVars
    <2> QED BY <2>1 DEF InLine
  <1> QED BY <1>1, <1>2, <1>3 DEF ReminderNext

LEMMA HoldersLeaveOne ==
  ASSUME PermitsKept, Permits < PoolSize PROVE PoolFree > 0
  <1> DEFINE Guards == {t \in Ticks : HasGuard(t)}
  <1>1. Guards \subseteq Holders
    BY DEF Holders, HasGuard
  <1>2. Cardinality(Guards) <= Cardinality(Holders) /\ Cardinality(Guards) \in Nat
    BY <1>1, HoldersFinite, FS_Subset, FS_CardinalityType
  <1>3. Cardinality(Holders) <= Permits
    BY DEF PermitsKept, Holders
  <1> QED BY <1>2, <1>3, HoldersFinite, ReminderAssumption DEF PoolFree

LEMMA WaitersAreServed ==
  ASSUME QueueInv, InLine PROVE PermitsSpareThePool
  <1> SUFFICES ASSUME Permits < PoolSize,
                      NEW t \in Ticks, tick[t] \notin {"idle", "end"}
               PROVE  \E q \in Ticks : TickCanGoOn(q)
    BY HoldersLeaveOne DEF PermitsSpareThePool, QueueInv
  <1>1. PoolFree > 0
    BY HoldersLeaveOne DEF QueueInv
  <1>2. ASSUME NEW q \in Ticks, tick[q] \notin {"idle", "wait", "end"}
        PROVE  TickCanGoOn(q)
    BY <1>1, <1>2 DEF TickCanGoOn
  <1>3. ASSUME tick[t] = "wait" PROVE Holders # {}
    <2>1. waiters # <<>>
      BY <1>3 DEF InLine, QueueInv, Queued
    <2>2. Cardinality(Holders) = Permits
      BY <2>1 DEF QueueInv, PermitsKept, Holders
    <2> QED BY <2>2, FS_EmptySet, ReminderAssumption
  <1>4. ASSUME Holders # {} PROVE \E q \in Ticks : TickCanGoOn(q)
    BY <1>2, <1>4 DEF Holders, HasPermit
  <1> QED BY <1>2, <1>3, <1>4

(* With fewer permits than connections the scheduler never hangs: some     *)
(* connection is always left for the writes of those that hold a guard,    *)
(* and whenever a tick is under way one can take its next step, for any    *)
(* number of overlapping ticks (MAX_CONCURRENT_GUARDED_SENDS).             *)
THEOREM PoolIsSpared == ReminderSpec => []PermitsSpareThePool
  <1> QED BY QueueInit, QueueStep, LineInit, LineStep, WaitersAreServed, PTL
          DEF ReminderSpec

(* How far a tick is. *)
Progress(s) ==
  CASE s = "idle" -> 0
    [] s = "list" -> 1
    [] s = "wait" -> 2
    [] s = "guard" -> 3
    [] s = "insert" -> 4
    [] s = "claim" -> 5
    [] s = "send" -> 6
    [] s = "success" -> 7
    [] s \in {"failure", "unknown"} -> 8
    [] s \in {"caught", "caught_success", "caught_unknown"} -> 9
    [] s = "release" -> 10
    [] s = "end" -> 11

TicksAdvance ==
  \A t \in Ticks : tick'[t] = tick[t] \/ Progress(tick[t]) < Progress(tick'[t])

LEMMA TickProgress ==
  ASSUME QueueInv, NEW t \in Ticks,
         \/ activateStuckReminders(t) \/ TickRuns(t)
         \/ StatementThrows(t) \/ CatchThrows(t) \/ GuardFails(t)
  PROVE  TicksAdvance
  <1> USE DEF QueueInv
  <1>1. ASSUME NEW s \in TickStep, Moves(t, s), Progress(tick[t]) < Progress(s)
        PROVE  TicksAdvance
    BY <1>1 DEF Typed, Moves, TicksAdvance
  <1>2. ASSUME HasPermit(t), Leaves(t) PROVE TicksAdvance
    <2>1. tick'[t] = "end" /\ Progress(tick[t]) < Progress("end")
      BY <1>2, LeavesTo DEF Typed, TickStep, HasPermit, Progress
    <2>2. Progress("wait") < Progress("guard")
      BY DEF Progress
    <2>3. ASSUME NEW q \in Ticks \ {t}
          PROVE  tick'[q] = tick[q] \/ (tick[q] = "wait" /\ tick'[q] = "guard")
      BY <1>2, LeavesTo
    <2> QED BY <2>1, <2>2, <2>3 DEF TicksAdvance
  <1>3. CASE acquireReminderSendGuard(t) \/ GuardFails(t) \/ releaseGuard(t)
    <2>1. /\ HasPermit(t)
          /\ Leaves(t) \/ (tick[t] = "guard" /\ Moves(t, "insert"))
      BY <1>3 DEF acquireReminderSendGuard, GuardFails, releaseGuard, HasPermit
    <2>2. Progress("guard") < Progress("insert") /\ "insert" \in TickStep
      BY DEF Progress, TickStep
    <2> QED BY <1>1, <1>2, <2>1, <2>2
  <1>4. CASE \/ activateStuckReminders(t) \/ getEligibleReminders(t)
             \/ InsertSlot(t) \/ claimReminderSendSlot(t)
    <2>1. \E s \in TickStep : Moves(t, s) /\ Progress(tick[t]) < Progress(s)
      BY <1>4 DEF activateStuckReminders, getEligibleReminders, InsertSlot,
         claimReminderSendSlot, TickStep, Progress
    <2> QED BY <1>1, <2>1
  <1>5. CASE \/ SendReminder(t) \/ SendReminderUnknown(t)
             \/ resolveReminderSendSuccess(t) \/ resolveReminderSendFailure(t)
             \/ StatementThrows(t) \/ CatchThrows(t)
    <2>1. \E s \in TickStep : Moves(t, s) /\ Progress(tick[t]) < Progress(s)
      BY <1>5 DEF SendReminder, SendReminderUnknown, resolveReminderSendSuccess,
         resolveReminderSendFailure, Resolve, StatementThrows, CatchThrows,
         TickStep, Progress
    <2> QED BY <1>1, <2>1
  <1> QED BY <1>3, <1>4, <1>5 DEF TickRuns

(* No tick goes back or round in circles: after eleven steps at most it    *)
(* has ended. With PoolIsSpared this leaves only fairness to TicksEnd.         *)
THEOREM TicksGoForward == ReminderSpec => [][TicksAdvance]_reminderVars
  <1>1. QueueInv /\ [ReminderNext]_reminderVars => [TicksAdvance]_reminderVars
    <2> SUFFICES ASSUME QueueInv, ReminderNext PROVE TicksAdvance
      OBVIOUS
    <2>1. ASSUME NEW t \in Ticks,
                 \/ activateStuckReminders(t) \/ TickRuns(t)
                 \/ StatementThrows(t) \/ CatchThrows(t) \/ GuardFails(t)
          PROVE  TicksAdvance
      BY <2>1, TickProgress
    <2>2. CASE ProcessDies
      <3>1. \A s \in TickStep : s = "end" \/ Progress(s) < Progress("end")
        BY DEF Progress, TickStep
      <3>2. \A t \in Ticks : tick'[t] = tick[t] \/ tick'[t] = "end"
        BY <2>2 DEF ProcessDies
      <3> QED BY <3>1, <3>2 DEF TicksAdvance, QueueInv, Typed
    <2>3. CASE UNCHANGED tick
      BY <2>3 DEF TicksAdvance
    <2> QED BY <2>1, <2>2, <2>3 DEF ReminderNext, SlotGoesStale, OrderIsDelivered,
            ReturnIsApproved, OrderEndsOtherwise, ChangeBegins, ChangeIsWritten,
            OnlyReminder
  <1> QED BY <1>1, QueueInit, QueueStep, PTL DEF ReminderSpec

-----------------------------------------------------------------------------
(* The shared lock.                                                        *)
(*                                                                         *)
(* What is sent is sent under a lock that was taken while the order stood; *)
(* whatever would stop the order waits for the lock. So the order stands   *)
(* as long as anybody holds it.                                            *)

Standing == /\ ~rorder.return_approved
            /\ rorder.order_status \notin {"returned", "cancelled"}

Guarded ==
  /\ \A t \in Ticks : HasGuard(t) => t \in shared
  /\ shared # {} => Standing

GuardInv == Typed /\ Queued /\ Guarded /\ StoppedStays

LEMMA GuardInit == ReminderInit => Guarded /\ StoppedStays
  BY DEF ReminderInit, Guarded, Standing, StoppedStays, HasGuard, HasPermit

(* A tick changes neither the order nor what is enabled.                   *)
LEMMA TicksKeepStanding ==
  ASSUME Typed, NEW t \in Ticks,
         \/ activateStuckReminders(t) \/ TickRuns(t)
         \/ StatementThrows(t) \/ CatchThrows(t) \/ GuardFails(t)
  PROVE  UNCHANGED rorder /\ reminder'.enabled = reminder.enabled
  <1>1. CASE activateStuckReminders(t)
    BY <1>1 DEF activateStuckReminders, OnlyTick, Typed, ReminderRow
  <1>2. CASE TickRuns(t)
    BY <1>2 DEF TickRuns, getEligibleReminders, acquireReminderSendGuard, InsertSlot,
       claimReminderSendSlot, SendReminder, SendReminderUnknown,
       resolveReminderSendSuccess, resolveReminderSendFailure, releaseGuard, OnlyTick
  <1>3. CASE StatementThrows(t) \/ CatchThrows(t) \/ GuardFails(t)
    BY <1>3 DEF StatementThrows, CatchThrows, GuardFails, OnlyTick
  <1> QED BY <1>1, <1>2, <1>3

LEMMA TicksKeepTheGuard ==
  ASSUME Typed, Queued, Guarded, NEW t \in Ticks,
         \/ activateStuckReminders(t) \/ TickRuns(t)
         \/ StatementThrows(t) \/ CatchThrows(t) \/ GuardFails(t)
  PROVE  Guarded'
  <1>1. Standing' = Standing
    BY TicksKeepStanding DEF Standing
  <1>2. ASSUME NEW s, Moves(t, s), shared' = shared,
               s \in {"idle", "list", "wait", "guard", "end"} \/ HasGuard(t)
        PROVE  Guarded'
    BY <1>1, <1>2 DEF Guarded, Typed, Moves, HasGuard, HasPermit
  <1>3. ASSUME HasPermit(t), Leaves(t), shared' \in {shared, shared \ {t}}
        PROVE  Guarded'
    <2>1. \A q \in Ticks : HasGuard(q)' => q # t /\ HasGuard(q)
      BY <1>3, LeavesTo DEF HasGuard, HasPermit
    <2> QED BY <1>1, <1>3, <2>1 DEF Guarded
  <1>4. CASE activateStuckReminders(t) \/ getEligibleReminders(t)
    BY <1>2, <1>4 DEF activateStuckReminders, getEligibleReminders
  <1>5. CASE acquireReminderSendGuard(t)
    <2>1. CASE Allowed
      <3>1. /\ tick' = [tick EXCEPT ![t] = "insert"] /\ shared' = shared \cup {t}
            /\ Standing
        BY <1>5, <2>1 DEF acquireReminderSendGuard, Moves, Allowed, Standing
      <3> QED BY <1>1, <3>1 DEF Guarded, Typed, HasGuard, HasPermit
    <2>2. CASE ~Allowed
      BY <1>3, <1>5, <2>2 DEF acquireReminderSendGuard, HasPermit
    <2> QED BY <2>1, <2>2
  <1>6. CASE InsertSlot(t) \/ claimReminderSendSlot(t) \/ SendReminder(t)
             \/ SendReminderUnknown(t)
    BY <1>2, <1>6 DEF InsertSlot, claimReminderSendSlot, SendReminder,
       SendReminderUnknown, HasGuard, HasPermit
  <1>7. CASE resolveReminderSendSuccess(t) \/ resolveReminderSendFailure(t)
             \/ StatementThrows(t) \/ CatchThrows(t)
    BY <1>2, <1>7 DEF resolveReminderSendSuccess, resolveReminderSendFailure, Resolve,
       StatementThrows, CatchThrows, HasGuard, HasPermit
  <1>8. CASE GuardFails(t) \/ releaseGuard(t)
    BY <1>3, <1>8 DEF GuardFails, releaseGuard, HasPermit
  <1> QED BY <1>4, <1>5, <1>6, <1>7, <1>8 DEF TickRuns

LEMMA GuardStep ==
  Typed /\ Queued /\ Guarded /\ StoppedStays /\ [ReminderNext]_reminderVars
    => Guarded' /\ StoppedStays'
  <1> SUFFICES ASSUME Typed, Queued, Guarded, StoppedStays,
                      [ReminderNext]_reminderVars
               PROVE  Guarded' /\ StoppedStays'
    OBVIOUS
  <1>1. ASSUME NEW t \in Ticks,
               \/ activateStuckReminders(t) \/ TickRuns(t)
               \/ StatementThrows(t) \/ CatchThrows(t) \/ GuardFails(t)
        PROVE  Guarded' /\ StoppedStays'
    <2>1. Guarded'
      BY <1>1, TicksKeepTheGuard
    <2>2. StoppedStays'
      BY <1>1, TicksKeepStanding DEF StoppedStays
    <2> QED BY <2>1, <2>2
  <1>2. CASE ProcessDies
    <2>1. shared' = {} /\ UNCHANGED <<reminder, rorder>>
      BY <1>2 DEF ProcessDies, OnlyTick
    <2>2. \A q \in Ticks : ~HasGuard(q)'
      BY <1>2 DEF ProcessDies, HasGuard, HasPermit
    <2> QED BY <2>1, <2>2 DEF Guarded, StoppedStays
  <1>3. CASE SlotGoesStale
    BY <1>3 DEF SlotGoesStale, OnlyTick, Guarded, Standing, StoppedStays, HasGuard,
       HasPermit
  <1>4. CASE OrderIsDelivered \/ ReturnIsApproved \/ OrderEndsOtherwise
    <2>1. shared = {} /\ shared' = {} /\ tick' = tick
      BY <1>4 DEF OrderIsDelivered, ReturnIsApproved, OrderEndsOtherwise, OnlyReminder,
         RowUnshared
    <2>2. Guarded'
      BY <2>1 DEF Guarded, HasGuard, HasPermit
    <2>3. CASE OrderIsDelivered
      <3>1. rorder'.return_approved => rorder.return_approved
        BY <2>3 DEF OrderIsDelivered, Typed, OrderRow
      <3>2. reminder'.enabled => reminder.enabled
        BY <2>3 DEF OrderIsDelivered, Typed, ReminderRow
      <3> QED BY <2>2, <3>1, <3>2 DEF StoppedStays
    <2>4. CASE ReturnIsApproved
      <3>1. ~reminder'.enabled
        BY <2>4 DEF ReturnIsApproved, Stopped, Typed, ReminderRow
      <3> QED BY <2>2, <3>1 DEF StoppedStays
    <2>5. CASE OrderEndsOtherwise
      <3>1. rorder'.return_approved => rorder.return_approved
        BY <2>5 DEF OrderEndsOtherwise, Typed, OrderRow
      <3>2. reminder'.enabled => reminder.enabled
        BY <2>5 DEF OrderEndsOtherwise, Stopped, Typed, ReminderRow
      <3> QED BY <2>2, <3>1, <3>2 DEF StoppedStays
    <2> QED BY <1>4, <2>2, <2>3, <2>4, <2>5
  <1>5. ASSUME NEW c \in Changers, ChangeBegins(c) \/ ChangeIsWritten(c)
        PROVE  Guarded' /\ StoppedStays'
    <2>1. UNCHANGED <<tick, shared, rorder>>
      BY <1>5 DEF ChangeBegins, ChangeIsWritten, OnlyReminder
    <2>2. reminder'.enabled = reminder.enabled
      BY <1>5 DEF ChangeBegins, ChangeIsWritten, Typed, ReminderRow
    <2> QED BY <2>1, <2>2 DEF Guarded, Standing, StoppedStays, HasGuard, HasPermit
  <1>6. CASE UNCHANGED reminderVars
    BY <1>6 DEF reminderVars, Guarded, Standing, StoppedStays, HasGuard, HasPermit
  <1> QED BY <1>1, <1>2, <1>3, <1>4, <1>5, <1>6 DEF ReminderNext

(* What the provider accepts, it accepts under the lock.                   *)
LEMMA SentUnderTheLock ==
  Typed /\ Queued /\ Guarded /\ [ReminderNext]_reminderVars
    => (reminded' # reminded => Standing)
  <1> SUFFICES ASSUME Typed, Queued, Guarded, [ReminderNext]_reminderVars,
                      reminded' # reminded
               PROVE  Standing
    OBVIOUS
  <1>1. PICK t \in Ticks : SendReminder(t) \/ SendReminderUnknown(t)
    BY DEF ReminderNext, reminderVars, TickRuns, activateStuckReminders,
       getEligibleReminders, acquireReminderSendGuard, InsertSlot,
       claimReminderSendSlot, resolveReminderSendSuccess, resolveReminderSendFailure,
       releaseGuard, StatementThrows, CatchThrows, GuardFails, ProcessDies,
       SlotGoesStale, OrderIsDelivered, ReturnIsApproved, OrderEndsOtherwise,
       ChangeBegins, ChangeIsWritten, OnlyReminder
  <1>2. HasGuard(t)
    BY <1>1 DEF SendReminder, SendReminderUnknown, HasGuard, HasPermit
  <1> QED BY <1>2 DEF Guarded

(* No reminder goes out after the return is approved, or the order is      *)
(* cancelled or set to returned, whichever tick was where at that moment   *)
(* (acquireReminderSendGuard's shared lock).                               *)
THEOREM StoppedIsSilent == ReminderSpec => SilentAfterStop
  <1>1. GuardInv /\ PermitsKept /\ [ReminderNext]_reminderVars
          => (reminded' # reminded => /\ ~rorder.return_approved
                                      /\ rorder.order_status \notin {"returned", "cancelled"})
    BY SentUnderTheLock DEF GuardInv, Standing
  <1>2. ReminderInit => GuardInv /\ PermitsKept
    BY QueueInit, GuardInit DEF QueueInv, GuardInv
  <1>3. GuardInv /\ PermitsKept /\ [ReminderNext]_reminderVars
          => GuardInv' /\ PermitsKept'
    BY QueueStep, GuardStep DEF QueueInv, GuardInv
  <1> QED BY <1>1, <1>2, <1>3, PTL DEF ReminderSpec, SilentAfterStop

-----------------------------------------------------------------------------
(* The day's claim.                                                        *)
(*                                                                         *)
(* That one reminder goes out needs the row and the tick together: who may *)
(* send holds the claim and the claim says so, and a row that can be       *)
(* claimed says that nothing has been sent. It is so until a claim and its *)
(* owner outlive one another.                                              *)

Claims(t) ==
  /\ tick[t] \in {"send", "success", "unknown"} => slot = "sending" /\ owner = t
  /\ tick[t] \in {"idle", "list", "wait", "guard", "insert", "claim"} => owner # t
  /\ \/ tick[t] = "send"
     \/ tick[t] \in {"failure", "caught"} /\ slot = "sending" /\ owner = t
     => reminded = 0

Sure ==
  /\ slot # "stale" /\ reminded <= 1
  /\ slot \in {"none", "pending", "failed"} => reminded = 0
  /\ \A t \in Ticks : Claims(t)

ClaimInv == Typed /\ Queued /\ (~outlived /\ ~misfiled => Sure)

LEMMA ClaimInit == ReminderInit => Sure
  BY ReminderAssumption DEF ReminderInit, Sure, Claims

(* A step that leaves the row and the count alone, and moves a tick to     *)
(* where no more is asked of it.                                           *)
LEMMA ClaimsStay ==
  ASSUME Typed, Sure, UNCHANGED <<slot, owner, reminded>>,
         tick' \in [Ticks -> TickStep],
         \A q \in Ticks :
           \/ tick'[q] = tick[q]
           \/ tick'[q] \in {"release", "end"}
           \/ /\ tick[q] \in {"idle", "list", "wait", "guard", "insert", "claim"}
              /\ tick'[q] \in {"idle", "list", "wait", "guard", "insert", "claim",
                               "caught"}
           \/ tick[q] = "failure" /\ tick'[q] = "caught"
           \/ tick'[q] \in {"caught_success", "caught_unknown"}
  PROVE  Sure'
  <1>1. ASSUME NEW q \in Ticks PROVE Claims(q)'
    BY DEF Sure, Claims
  <1> QED BY <1>1 DEF Sure

LEMMA TicksKeepTheClaim ==
  ASSUME Typed, Queued, Sure, NEW t \in Ticks, ~outlived', ~misfiled',
         \/ activateStuckReminders(t) \/ TickRuns(t)
         \/ StatementThrows(t) \/ CatchThrows(t) \/ GuardFails(t)
  PROVE  Sure'
  <1>1. ASSUME NEW s \in TickStep, Moves(t, s), UNCHANGED <<slot, owner, reminded>>,
               \/ s = "release"
               \/ s = "end"
               \/ /\ tick[t] \in {"idle", "list", "wait", "guard", "insert", "claim"}
                  /\ s \in {"idle", "list", "wait", "guard", "insert", "claim", "caught"}
               \/ tick[t] = "failure" /\ s = "caught"
               \/ s \in {"caught_success", "caught_unknown"}
        PROVE  Sure'
    <2>1. /\ tick' \in [Ticks -> TickStep] /\ tick'[t] = s
          /\ \A q \in Ticks : q # t => tick'[q] = tick[q]
      BY <1>1 DEF Typed, Moves
    <2> QED BY <1>1, <2>1, ClaimsStay
  <1>2. ASSUME HasPermit(t), Leaves(t), UNCHANGED <<slot, owner, reminded>>
        PROVE  Sure'
    <2>1. tick' \in [Ticks -> TickStep] /\ tick'[t] = "end"
      BY <1>2, LeavesTo
    <2>2. ASSUME NEW q \in Ticks \ {t}
          PROVE  tick'[q] = tick[q] \/ (tick[q] = "wait" /\ tick'[q] = "guard")
      BY <1>2, LeavesTo
    <2> QED BY <1>2, <2>1, <2>2, ClaimsStay
  <1>3. CASE activateStuckReminders(t)
    BY <1>1, <1>3 DEF activateStuckReminders, TickStep
  <1>4. CASE getEligibleReminders(t)
    BY <1>1, <1>4 DEF getEligibleReminders, TickStep
  <1>5. CASE acquireReminderSendGuard(t)
    <2>1. UNCHANGED <<slot, owner, reminded>> /\ tick[t] = "guard"
      BY <1>5 DEF acquireReminderSendGuard
    <2>2. Moves(t, "insert") \/ Leaves(t)
      BY <1>5 DEF acquireReminderSendGuard
    <2> QED BY <1>1, <1>2, <2>1, <2>2 DEF HasPermit, TickStep
  <1>6. CASE InsertSlot(t)
    <2>1. /\ Moves(t, "claim") /\ tick[t] = "insert" /\ UNCHANGED <<owner, reminded>>
          /\ slot' = IF slot = "none" THEN "pending" ELSE slot
      BY <1>6 DEF InsertSlot
    <2>2. ASSUME NEW q \in Ticks PROVE Claims(q)'
      BY <2>1 DEF Typed, Sure, Claims, Moves
    <2> QED BY <2>1, <2>2 DEF Sure
  <1>7. CASE claimReminderSendSlot(t)
    <2>1. CASE SlotClaimable
      <3>1. /\ Moves(t, "send") /\ tick[t] = "claim" /\ reminded' = reminded
            /\ slot' = "sending" /\ owner' = t /\ slot \in {"pending", "failed"}
        BY <1>7, <2>1 DEF claimReminderSendSlot, SlotClaimable, Sure
      <3>2. ASSUME NEW q \in Ticks PROVE Claims(q)'
        BY <3>1 DEF Typed, Sure, Claims, Moves, TickStep
      <3> QED BY <3>1, <3>2 DEF Sure
    <2>2. CASE ~SlotClaimable
      BY <1>1, <1>7, <2>2 DEF claimReminderSendSlot, TickStep
    <2> QED BY <2>1, <2>2
  <1>8. CASE SendReminder(t) \/ SendReminderUnknown(t)
    <2>1. /\ tick[t] = "send" /\ UNCHANGED <<slot, owner>>
          /\ reminded = 0 /\ slot = "sending" /\ owner = t
      BY <1>8 DEF SendReminder, SendReminderUnknown, Sure, Claims
    <2>2. PICK s \in {"success", "failure", "unknown"} :
             Moves(t, s) /\ reminded' \in {0, 1} /\ (s = "failure" => reminded' = 0)
      BY <1>8, <2>1 DEF SendReminder, SendReminderUnknown
    <2>3. ASSUME NEW q \in Ticks PROVE Claims(q)'
      BY <2>1, <2>2 DEF Typed, Sure, Claims, Moves
    <2> QED BY <2>1, <2>2, <2>3 DEF Sure
  <1>9. CASE resolveReminderSendSuccess(t) \/ resolveReminderSendFailure(t)
    <2>1. /\ tick[t] \in {"success", "failure", "unknown", "caught",
                          "caught_success", "caught_unknown"}
          /\ Moves(t, "release") /\ UNCHANGED <<owner, reminded>>
      BY <1>9 DEF resolveReminderSendSuccess, resolveReminderSendFailure, Resolve
    <2>2. PICK o \in {"success", "failed", "unknown"} :
            /\ Resolve(t, o)
            /\ o = "failed" /\ slot = "sending" => tick[t] \in {"failure", "caught"}
      <3>1. CASE resolveReminderSendSuccess(t)
        BY <3>1 DEF resolveReminderSendSuccess
      <3>2. CASE resolveReminderSendFailure(t)
        BY <3>2 DEF resolveReminderSendFailure, RowIsSending
      <3> QED BY <1>9, <3>1, <3>2
    <2>3. CASE slot = "sending"
      <3>1. slot' = o /\ owner = t
        BY <2>2, <2>3 DEF Resolve, RowIsSending
      <3>2. o = "failed" => reminded = 0
        BY <2>2, <2>3, <3>1 DEF Sure, Claims
      <3>3. ASSUME NEW q \in Ticks PROVE Claims(q)'
        BY <2>1, <2>3, <3>1 DEF Typed, Sure, Claims, Moves
      <3> QED BY <2>1, <3>1, <3>2, <3>3 DEF Sure
    <2>4. CASE slot # "sending"
      <3>1. slot' = slot
        BY <2>2, <2>4 DEF Resolve, RowIsSending, Sure
      <3> QED BY <1>1, <2>1, <3>1 DEF TickStep
    <2> QED BY <2>3, <2>4
  <1>10. CASE StatementThrows(t)
    BY <1>1, <1>10 DEF StatementThrows, TickStep
  <1>11. CASE CatchThrows(t)
    BY <1>1, <1>11 DEF CatchThrows, TickStep
  <1>12. CASE GuardFails(t) \/ releaseGuard(t)
    BY <1>2, <1>12 DEF GuardFails, releaseGuard, HasPermit
  <1> QED BY <1>3, <1>4, <1>5, <1>6, <1>7, <1>8, <1>9, <1>10, <1>11, <1>12 DEF TickRuns

LEMMA ClaimStep ==
  Typed /\ Queued /\ (~outlived /\ ~misfiled => Sure) /\ [ReminderNext]_reminderVars
    => (~outlived' /\ ~misfiled' => Sure')
  <1> SUFFICES ASSUME Typed, Queued, ~outlived /\ ~misfiled => Sure,
                      [ReminderNext]_reminderVars, ~outlived', ~misfiled'
               PROVE  Sure'
    OBVIOUS
  <1>1. ~outlived /\ ~misfiled
    <2>1. ASSUME NEW t \in Ticks, TickRuns(t)
          PROVE  (outlived => outlived') /\ (misfiled => misfiled')
      <3>1. CASE resolveReminderSendSuccess(t)
        BY <3>1 DEF resolveReminderSendSuccess, Resolve
      <3>2. CASE resolveReminderSendFailure(t)
        BY <3>2 DEF resolveReminderSendFailure, Resolve
      <3>3. CASE SendReminder(t) \/ SendReminderUnknown(t)
        BY <3>3 DEF SendReminder, SendReminderUnknown
      <3> QED BY <2>1, <3>1, <3>2, <3>3
              DEF TickRuns, getEligibleReminders, acquireReminderSendGuard, InsertSlot,
              claimReminderSendSlot, releaseGuard
    <2>2. ASSUME \/ \E t \in Ticks : \/ activateStuckReminders(t) \/ StatementThrows(t)
                                     \/ CatchThrows(t) \/ GuardFails(t)
                 \/ ProcessDies
                 \/ OrderIsDelivered \/ ReturnIsApproved \/ OrderEndsOtherwise
                 \/ \E c \in Changers : ChangeBegins(c) \/ ChangeIsWritten(c)
                 \/ UNCHANGED reminderVars
          PROVE  UNCHANGED <<outlived, misfiled>>
      BY <2>2 DEF activateStuckReminders, StatementThrows, CatchThrows, GuardFails,
         ProcessDies, OrderIsDelivered, ReturnIsApproved,
         OrderEndsOtherwise, ChangeBegins, ChangeIsWritten, OnlyReminder, reminderVars
    <2>3. ~SlotGoesStale
      BY DEF SlotGoesStale
    <2> QED BY <2>1, <2>2, <2>3 DEF ReminderNext
  <1>2. Sure
    BY <1>1
  <1>3. ASSUME NEW t \in Ticks,
               \/ activateStuckReminders(t) \/ TickRuns(t)
               \/ StatementThrows(t) \/ CatchThrows(t) \/ GuardFails(t)
        PROVE  Sure'
    BY <1>2, <1>3, TicksKeepTheClaim
  <1>4. CASE ProcessDies
    <2>1. /\ tick' \in [Ticks -> TickStep] /\ UNCHANGED <<slot, owner, reminded>>
          /\ \A q \in Ticks : tick'[q] = tick[q] \/ tick'[q] = "end"
      BY <1>4 DEF ProcessDies, TickStep
    <2> QED BY <1>2, <2>1, ClaimsStay
  <1>5. CASE SlotGoesStale
    BY <1>5 DEF SlotGoesStale
  <1>6. CASE \/ OrderIsDelivered \/ ReturnIsApproved \/ OrderEndsOtherwise
             \/ \E c \in Changers : ChangeBegins(c) \/ ChangeIsWritten(c)
             \/ UNCHANGED reminderVars
    <2>1. UNCHANGED <<slot, owner, reminded, tick>>
      BY <1>6 DEF OrderIsDelivered, ReturnIsApproved, OrderEndsOtherwise, ChangeBegins,
         ChangeIsWritten, OnlyReminder, reminderVars
    <2> QED BY <1>2, <2>1 DEF Sure, Claims
  <1> QED BY <1>3, <1>4, <1>5, <1>6 DEF ReminderNext

(* One reminder a day, whichever ticks overlap, throw or die, as long as   *)
(* no claim was taken over or closed under its owner                       *)
(* (claimReminderSendSlot); the permits; and a return's stop that no late  *)
(* resume undoes.                                                          *)
THEOREM ReminderCorrect == ReminderSpec => []ReminderSafe
  <1> DEFINE Inv == QueueInv /\ InLine /\ Guarded /\ StoppedStays
                      /\ (~outlived /\ ~misfiled => Sure)
  <1>1. ReminderInit => Inv
    BY QueueInit, LineInit, GuardInit, ClaimInit
  <1>2. Inv /\ [ReminderNext]_reminderVars => Inv'
    BY QueueStep, LineStep, GuardStep, ClaimStep DEF QueueInv
  <1>3. Inv => ReminderSafe
    <2> SUFFICES ASSUME Inv PROVE ReminderSafe
      OBVIOUS
    <2>1. ReminderTypeOK
      BY QueueIsShort DEF QueueInv, Typed, ReminderTypeOK, OrderRow
    <2>2. OncePerDay
      BY DEF OncePerDay, Sure
    <2> QED BY <2>1, <2>2, WaitersAreServed DEF ReminderSafe, QueueInv
  <1> QED BY <1>1, <1>2, <1>3, PTL DEF ReminderSpec
=============================================================================
