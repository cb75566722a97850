------------------------------ MODULE Reminder ------------------------------
(***************************************************************************)
(* One daily reminder on one day: the every-minute ticks of                *)
(* cron/dailyReminderCron.js, which may overlap, and the changes of the    *)
(* order and of the subscription that stop, pause and resume it.           *)
(*                                                                         *)
(* A tick has one action per statement and per wait. Its guard is a        *)
(* transaction that holds a shared lock on the order's row while the claim *)
(* and its outcome are written on other connections of the same pool; a    *)
(* transaction that changes the order waits for that lock and is one       *)
(* action.                                                                 *)
(***************************************************************************)
EXTENDS Naturals, Sequences, FiniteSets

CONSTANTS
  Ticks,        \* ticks of the day's window
  Changers,     \* subscription requests that pause, resume or end it
  Permits,      \* MAX_CONCURRENT_GUARDED_SENDS
  PoolSize,     \* connectionLimit of the pool
  NoTick        \* nobody's claim

ASSUME ReminderAssumption ==
  /\ NoTick \notin Ticks /\ IsFiniteSet(Ticks)
  /\ Permits \in Nat \ {0} /\ PoolSize \in Nat \ {0}

VARIABLES
  reminder,   \* the row of daily_reminders
  rorder,     \* the order's order_status and return_status
  slot,       \* the day's row of daily_reminder_sends
  owner,      \* the tick whose claim the row holds
  tick,       \* where each tick is
  waiters,    \* guardedSendWaiters
  shared,     \* the ticks that hold the shared lock
  changer,    \* what each subscription request is about to write
  reminded,   \* reminders that the provider accepted today
  outlived,   \* was a claim taken over, or closed, under its owner?
  misfiled    \* was an outcome that nobody knows closed as 'failed'?

reminderVars == <<reminder, rorder, slot, owner, tick, waiters, shared, changer,
                  reminded, outlived, misfiled>>

ReminderRow == [enabled: BOOLEAN, status: {"active", "paused", "ended"},
                activated: BOOLEAN]

TickStep == {"idle", "list", "wait", "guard", "insert", "claim", "send",
             "success", "failure", "unknown", "caught", "caught_success",
             "caught_unknown", "release", "end"}

(* Any of the ticks and requests may never come.                           *)
ReminderInit ==
  /\ reminder = [enabled |-> TRUE, status |-> "active", activated |-> FALSE]
  /\ rorder = [order_status |-> "shipped", return_approved |-> FALSE]
  /\ slot = "none"
  /\ owner = NoTick
  /\ tick \in [Ticks -> {"idle", "end"}]
  /\ waiters = <<>>
  /\ shared = {}
  /\ changer \in [Changers -> {"idle", "end"}]
  /\ reminded = 0
  /\ outlived = FALSE /\ misfiled = FALSE

-----------------------------------------------------------------------------
(* The pool and the permits of the process. *)

HasPermit(t) == tick[t] \notin {"idle", "list", "wait", "end"}

HasGuard(t) == HasPermit(t) /\ tick[t] # "guard"

PoolFree == PoolSize - Cardinality({t \in Ticks : HasGuard(t)})

(* Fault: nobody counts. *)
PermitAlways == TRUE

PermitFree == Cardinality({t \in Ticks : HasPermit(t)}) < Permits

Moves(t, s) == tick' = [tick EXCEPT ![t] = s]

(* releaseGuardedSendPermit: the permit goes to who waits longest. *)
Leaves(t) ==
  IF waiters = <<>>
    THEN Moves(t, "end") /\ UNCHANGED waiters
    ELSE /\ tick' = [tick EXCEPT ![t] = "end", ![Head(waiters)] = "guard"]
         /\ waiters' = Tail(waiters)

-----------------------------------------------------------------------------
(* A tick. *)

OnlyTick == UNCHANGED <<rorder, changer>>

(* activateStuckReminders: a missed activation is made up for. *)
activateStuckReminders(t) ==
  /\ tick[t] = "idle" /\ PoolFree > 0
  /\ reminder' = [reminder EXCEPT
       !.activated = @ \/ (/\ reminder.enabled /\ reminder.status = "active"
                           /\ rorder.order_status = "delivered")]
  /\ Moves(t, "list")
  /\ OnlyTick /\ UNCHANGED <<slot, owner, waiters, shared, reminded, outlived, misfiled>>

Eligible == /\ reminder.enabled /\ reminder.status = "active"
            /\ rorder.order_status # "cancelled"
            /\ reminder.activated
            /\ slot # "success"

(* Eligible and within its window: acquireGuardedSendPermit. *)
getEligibleReminders(t) ==
  /\ tick[t] = "list" /\ PoolFree > 0
  /\ IF ~Eligible THEN Moves(t, "end") /\ UNCHANGED waiters
     ELSE IF PermitFree THEN Moves(t, "guard") /\ UNCHANGED waiters
     ELSE Moves(t, "wait") /\ waiters' = Append(waiters, t)
  /\ OnlyTick
  /\ UNCHANGED <<reminder, slot, owner, shared, reminded, outlived, misfiled>>

(* Fault: the order is not looked at again. *)
AllowedByReminder == reminder.enabled /\ reminder.status = "active"

Allowed == /\ ~rorder.return_approved
           /\ rorder.order_status \notin {"returned", "cancelled"}
           /\ reminder.enabled /\ reminder.status = "active"

(* Checked again under the shared lock, which a refusal gives back. *)
acquireReminderSendGuard(t) ==
  /\ tick[t] = "guard" /\ PoolFree > 0
  /\ IF Allowed
       THEN /\ Moves(t, "insert")
            /\ shared' = shared \cup {t}
            /\ UNCHANGED waiters
       ELSE Leaves(t) /\ UNCHANGED shared
  /\ OnlyTick /\ UNCHANGED <<reminder, slot, owner, reminded, outlived, misfiled>>

(* claimReminderSendSlot: INSERT IGNORE, ... *)
InsertSlot(t) ==
  /\ tick[t] = "insert" /\ PoolFree > 0
  /\ slot' = IF slot = "none" THEN "pending" ELSE slot
  /\ Moves(t, "claim")
  /\ OnlyTick /\ UNCHANGED <<reminder, owner, waiters, shared, reminded, outlived, misfiled>>

(* "stale" is 'sending' with a sent_at five minutes old.                   *)
SlotClaimable == slot \in {"pending", "failed", "stale"}

(* ... and the claim. *)
claimReminderSendSlot(t) ==
  /\ tick[t] = "claim" /\ PoolFree > 0
  /\ IF SlotClaimable
       THEN slot' = "sending" /\ owner' = t /\ Moves(t, "send")
       ELSE Moves(t, "release") /\ UNCHANGED <<slot, owner>>
  /\ OnlyTick /\ UNCHANGED <<reminder, waiters, shared, reminded, outlived, misfiled>>

(* Waplify accepts and says so, or rejects. *)
SendReminder(t) ==
  /\ tick[t] = "send"
  /\ \/ reminded' = reminded + 1 /\ Moves(t, "success")
     \/ Moves(t, "failure") /\ UNCHANGED reminded
  /\ OnlyTick /\ UNCHANGED <<reminder, slot, owner, waiters, shared, outlived, misfiled>>

(* A 5xx or a timeout: it may have been accepted. *)
SendReminderUnknown(t) ==
  /\ tick[t] = "send"
  /\ reminded' \in {reminded, reminded + 1}
  /\ Moves(t, "unknown")
  /\ OnlyTick /\ UNCHANGED <<reminder, slot, owner, waiters, shared, outlived, misfiled>>

(* WHERE status = 'sending' names the day's row, not the claim in it.      *)
RowIsSending == slot \in {"sending", "stale"}

Resolve(t, outcome) ==
  /\ slot' = IF RowIsSending THEN outcome ELSE slot
  /\ outlived' = (outlived \/ (RowIsSending /\ owner # t))
  /\ Moves(t, "release")

resolveReminderSendSuccess(t) ==
  /\ tick[t] = "success" /\ PoolFree > 0
  /\ Resolve(t, "success")
  /\ OnlyTick
  /\ UNCHANGED <<reminder, owner, waiters, shared, reminded, misfiled>>

(* In the try, and in the catch of what throws there: which knows of an    *)
(* acceptance, but not of an outcome that was unknown.                     *)
resolveReminderSendFailure(t) ==
  /\ tick[t] \in {"failure", "unknown", "caught", "caught_success",
                  "caught_unknown"}
  /\ PoolFree > 0
  /\ Resolve(t, IF tick[t] \in {"unknown", "caught_success"} THEN "unknown"
                                                           ELSE "failed")
  /\ misfiled' = (misfiled \/ (RowIsSending /\ tick[t] = "caught_unknown"))
  /\ OnlyTick /\ UNCHANGED <<reminder, owner, waiters, shared, reminded>>

(* A statement of the claim or of the outcome throws.                      *)
StatementThrows(t) ==
  /\ tick[t] \in {"insert", "claim", "success", "failure", "unknown"}
  /\ Moves(t, CASE tick[t] = "success" -> "caught_success"
                [] tick[t] = "unknown" -> "caught_unknown"
                [] OTHER               -> "caught")
  /\ OnlyTick
  /\ UNCHANGED <<reminder, slot, owner, waiters, shared, reminded, outlived,
                 misfiled>>

(* The catch throws too: the slot stays as it is. *)
CatchThrows(t) ==
  /\ tick[t] \in {"caught", "caught_success", "caught_unknown"}
  /\ Moves(t, "release")
  /\ OnlyTick
  /\ UNCHANGED <<reminder, slot, owner, waiters, shared, reminded, outlived,
                 misfiled>>

(* The guard cannot be had: no send on this tick. *)
GuardFails(t) ==
  /\ tick[t] = "guard"
  /\ Leaves(t)
  /\ OnlyTick /\ UNCHANGED <<reminder, slot, owner, shared, reminded, outlived, misfiled>>

(* finally: the guard's COMMIT, and the permit. *)
releaseGuard(t) ==
  /\ tick[t] = "release"
  /\ shared' = shared \ {t}
  /\ Leaves(t)
  /\ OnlyTick /\ UNCHANGED <<reminder, slot, owner, reminded, outlived, misfiled>>

(* The process dies with all its ticks and locks. *)
ProcessDies ==
  /\ \E t \in Ticks : tick[t] \notin {"idle", "end"}
  /\ tick' = [t \in Ticks |-> IF tick[t] = "idle" THEN "idle" ELSE "end"]
  /\ waiters' = <<>> /\ shared' = {}
  /\ OnlyTick /\ UNCHANGED <<reminder, slot, owner, reminded, outlived, misfiled>>

(* STALE_CLAIM_MINUTES pass. A claim that may have sent something outlives *)
(* its owner, or the owner outlives the claim.                             *)
SlotGoesStale ==
  /\ slot = "sending"
  /\ slot' = "stale"
  /\ outlived' = TRUE
  /\ OnlyTick /\ UNCHANGED <<reminder, owner, tick, waiters, shared, reminded,
                         misfiled>>

-----------------------------------------------------------------------------
(* The order and the subscription. *)

OnlyReminder == UNCHANGED <<slot, owner, tick, waiters, shared, reminded, outlived, misfiled>>

RowUnshared == shared = {}

Stopped == [reminder EXCEPT !.enabled = FALSE, !.status = "ended"]

(* Delivered, with the activation hook or, when it fails, without.         *)
OrderIsDelivered ==
  /\ RowUnshared /\ rorder.order_status = "shipped"
  /\ rorder' = [rorder EXCEPT !.order_status = "delivered"]
  /\ \/ reminder' = [reminder EXCEPT !.activated = @ \/ reminder.enabled]
     \/ UNCHANGED reminder
  /\ OnlyReminder /\ UNCHANGED changer

(* approveReturn stops the order's reminders in its transaction. *)
ReturnIsApproved ==
  /\ RowUnshared
  /\ rorder.order_status = "delivered" /\ ~rorder.return_approved
  /\ rorder' = [rorder EXCEPT !.return_approved = TRUE]
  /\ reminder' = Stopped
  /\ OnlyReminder /\ UNCHANGED changer

(* Cancelled by the admin's endpoints, with stopRemindersForCancelledOrder, *)
(* or by Delhivery's tracking, without; "returned" is the admin's manual    *)
(* status.                                                                  *)
OrderEndsOtherwise ==
  /\ RowUnshared
  /\ \/ /\ rorder.order_status = "shipped"
        /\ rorder' = [rorder EXCEPT !.order_status = "cancelled"]
        /\ reminder' \in {Stopped, reminder}
     \/ /\ rorder.order_status = "delivered"
        /\ rorder' = [rorder EXCEPT !.order_status = "returned"]
        /\ UNCHANGED reminder
  /\ OnlyReminder /\ UNCHANGED changer

Change(c, s) == changer' = [changer EXCEPT ![c] = s]

(* pauseReminderForOrder and endReminderForOrder read the reminder's id,   *)
(* resumeReminderForOrder its status and then the order's return_status, ...*)
ChangeBegins(c) ==
  /\ changer[c] = "idle"
  /\ \/ \E s \in {"paused", "ended"} : Change(c, s)
     \/ Change(c, IF reminder.status = "paused" /\ ~rorder.return_approved
                    THEN "active" ELSE "end")
  /\ OnlyReminder /\ UNCHANGED <<reminder, rorder>>

(* ... and write the status alone, whatever it has become.                 *)
ChangeIsWritten(c) ==
  /\ changer[c] \in {"paused", "ended", "active"}
  /\ reminder' = [reminder EXCEPT !.status = changer[c]]
  /\ Change(c, "end")
  /\ OnlyReminder /\ UNCHANGED rorder

-----------------------------------------------------------------------------
TickRuns(t) ==
  \/ getEligibleReminders(t) \/ acquireReminderSendGuard(t) \/ InsertSlot(t)
  \/ claimReminderSendSlot(t) \/ SendReminder(t) \/ SendReminderUnknown(t)
  \/ resolveReminderSendSuccess(t) \/ resolveReminderSendFailure(t)
  \/ releaseGuard(t)

ReminderNext ==
  \/ \E t \in Ticks :
       \/ activateStuckReminders(t) \/ TickRuns(t)
       \/ StatementThrows(t) \/ CatchThrows(t) \/ GuardFails(t)
  \/ ProcessDies \/ SlotGoesStale
  \/ OrderIsDelivered \/ ReturnIsApproved \/ OrderEndsOtherwise
  \/ \E c \in Changers : ChangeBegins(c) \/ ChangeIsWritten(c)

ReminderSpec == ReminderInit /\ [][ReminderNext]_reminderVars

(* A tick that has begun goes on as long as it can. *)
ReminderFairness == \A t \in Ticks : WF_reminderVars(TickRuns(t))

-----------------------------------------------------------------------------
(* Properties. *)

ReminderTypeOK ==
  /\ reminder \in ReminderRow
  /\ rorder \in [order_status: {"shipped", "delivered", "returned", "cancelled"},
                 return_approved: BOOLEAN]
  /\ slot \in {"none", "pending", "sending", "stale", "success", "failed", "unknown"}
  /\ owner \in Ticks \cup {NoTick}
  /\ tick \in [Ticks -> TickStep]
  /\ Len(waiters) <= Cardinality(Ticks) /\ shared \subseteq Ticks
  /\ changer \in [Changers -> {"idle", "paused", "ended", "active", "end"}]
  /\ reminded \in Nat
  /\ outlived \in BOOLEAN /\ misfiled \in BOOLEAN

(* "The once-per-day claim still guarantees a single send", whichever      *)
(* ticks overlap, die or throw, but for three ways of the code to a second *)
(* one: a claim outlives its five minutes, an overlapping tick's catch     *)
(* closes it, or the statement that records an unknown outcome throws and  *)
(* the catch, which knows of none, makes it one to be tried again.         *)
OncePerDay == outlived \/ misfiled \/ reminded <= 1

(* A permit is with as many ticks as there are permits, and none is lost.  *)
PermitsKept ==
  /\ Cardinality({t \in Ticks : HasPermit(t)}) <= Permits
  /\ waiters # <<>> => Cardinality({t \in Ticks : HasPermit(t)}) = Permits

(* A stopped reminder stays out of the scheduler's sight, whichever        *)
(* resume or pause had read it before.                                     *)
StoppedStays == rorder.return_approved => ~reminder.enabled

(* What the next step of a tick waits for, if for anything but a permit.   *)
TickCanGoOn(t) ==
  \/ tick[t] \in {"send", "release"}
  \/ tick[t] \notin {"idle", "wait", "send", "release", "end"} /\ PoolFree > 0

(* Overlapping ticks "would otherwise exhaust the pool and hang": with     *)
(* fewer permits than connections one connection at least is left for the  *)
(* writes of those that hold a guard, and some tick under way goes on.     *)
PermitsSpareThePool ==
  Permits < PoolSize =>
    /\ PoolFree > 0
    /\ (\E t \in Ticks : tick[t] \notin {"idle", "end"}) =>
         \E t \in Ticks : TickCanGoOn(t)

(* The day's claim, the permits, the pool and the order's row agree at     *)
(* every moment.                                                           *)
ReminderSafe ==
  /\ ReminderTypeOK /\ OncePerDay /\ PermitsKept /\ PermitsSpareThePool
  /\ StoppedStays

(* "No DAILY_REMINDER can be sent after a return approval commits", nor    *)
(* after the order is cancelled or set to returned, however the reminder's *)
(* own row was left.                                                       *)
SilentAfterStop ==
  [][reminded' # reminded =>
       /\ ~rorder.return_approved
       /\ rorder.order_status \notin {"returned", "cancelled"}]_reminderVars

(* The ticks under way all come to an end: none waits for ever for a       *)
(* permit, a connection or a lock.                                         *)
TicksEnd == []<>(\A t \in Ticks : tick[t] \in {"idle", "end"})

(* Both, as the promise of the scheduler over time. *)
ReminderPromise == SilentAfterStop /\ TicksEnd
=============================================================================
