------------------------------- MODULE Return -------------------------------
(***************************************************************************)
(* The return of one delivered order, from the admin's approval to the     *)
(* inspection of what came back: the admin's endpoints, the reverse        *)
(* shipment at Delhivery, and the reverse-tracking passes of the app's     *)
(* instances under the lock of utils/cronLock.js. What follows, the        *)
(* refund, is module Refund.                                               *)
(*                                                                         *)
(* An endpoint is one transaction that locks the order's row first.        *)
(* createReverseShipment calls Delhivery inside of it, so it has one       *)
(* action per statement and per answer. A pass has one action per          *)
(* statement and per call: its UPDATEs lock the row, its reads do not.     *)
(***************************************************************************)
EXTENDS Naturals, FiniteSets

CONSTANTS
  Trackers,    \* the app's instances, each with its cron
  NoTracker    \* nobody holds the lock

ASSUME ReturnAssumption == NoTracker \notin Trackers

VARIABLES
  ret,         \* the return's columns of the orders row
  reverse,     \* the reverse shipment at Delhivery
  creating,    \* where createReverseShipment, which has the row's lock, is
  diagnosing,  \* the diagnostic UPDATE without that lock is still to come
  late,        \* a create request that timed out is still on its way
  adrift,      \* has a death, or a failed diagnostic, lost the outcome?
  tracker,     \* what each instance's pass has read
  cron_lock,   \* who has GET_LOCK's lock
  torn,        \* has a pass gone on after its lock's connection dropped?
  told,        \* times the customer was told "Return Received"
  telling,     \* markReturned has committed and is about to tell
  untold       \* has who was about to tell died, or failed, before?

news == <<told, telling, untold>>

returnVars == <<ret, reverse, creating, diagnosing, late, adrift, tracker,
                cron_lock, torn, news>>

ReturnStatus == {"none", "approved", "rejected", "reverse_shipment_created",
                 "pickup_scheduled", "returned"}

(* pending: the pickup is requested, or the state is one that the map does *)
(* not know; underway: the pickup is scheduled, out, or the parcel taken.  *)
Tracking == {"none", "pending", "underway", "delivered", "cancelled"}

(* type: a reverse pickup, or the legacy forward shipment to BREE.         *)
ReturnRow ==
  [return_status: ReturnStatus, window: BOOLEAN,
   create_status: {"none", "uncertain", "failed"},
   reverse_awb: BOOLEAN, type: {"none", "RVP", "legacy"},
   tracking: Tracking, delivered_at: BOOLEAN,
   inspection: {"none", "pending", "approved", "rejected"},
   source: {"none", "delhivery", "override"}]

(* from, seen: the return_status and the state that the pass has read.     *)
Pass == [step: {"idle", "fetch", "observe", "apply", "notify"},
         from: ReturnStatus, seen: Tracking]

NoPass == [step |-> "idle", from |-> "none", seen |-> "none"]

Delivered == [return_status |-> "none", window |-> TRUE,
              create_status |-> "none", reverse_awb |-> FALSE,
              type |-> "none", tracking |-> "none", delivered_at |-> FALSE,
              inspection |-> "none", source |-> "none"]

(* An order delivered a moment ago, or one whose return shipment is of the *)
(* time before reverse pickups.                                            *)
ReturnInit ==
  /\ \/ ret = Delivered /\ reverse = "none"
     \/ /\ ret = [Delivered EXCEPT !.return_status = "reverse_shipment_created",
                                   !.reverse_awb = TRUE, !.type = "legacy"]
        /\ reverse = "open"
  /\ creating = "idle"
  /\ diagnosing = FALSE /\ late = FALSE /\ adrift = FALSE
  /\ tracker = [t \in Trackers |-> NoPass]
  /\ cron_lock = NoTracker
  /\ torn = FALSE
  /\ told = 0 /\ telling = FALSE /\ untold = FALSE

-----------------------------------------------------------------------------
(* The admin's endpoints. *)

RowFree == creating = "idle"

OnlyRow == UNCHANGED <<reverse, creating, diagnosing, late, adrift, tracker,
                       cron_lock, torn>>

isReturnWindowOpen ==
  ret.window /\ ret.return_status \notin {"rejected", "returned"}

approveReturn ==
  /\ RowFree /\ ret.return_status = "none" /\ isReturnWindowOpen
  /\ ret' = [ret EXCEPT !.return_status = "approved"]
  /\ OnlyRow /\ UNCHANGED news

rejectReturn ==
  /\ RowFree /\ ret.return_status = "none"
  /\ ret' = [ret EXCEPT !.return_status = "rejected"]
  /\ OnlyRow /\ UNCHANGED news

(* RETURN_WINDOW_HOURS after delivered_at; nobody asks once the shipment is *)
(* created.                                                                *)
WindowCloses ==
  /\ ret.window /\ ret.return_status \in {"none", "approved"}
  /\ ret' = [ret EXCEPT !.window = FALSE]
  /\ OnlyRow /\ UNCHANGED news

(* reverse_shipment_type and reverse_tracking_status are Delhivery's word. *)
delhiveryConfirmed == ret.type = "RVP" /\ ret.tracking = "delivered"

(* Without that word an override with a reason and notes is asked for.     *)
markReturned ==
  /\ RowFree
  /\ ret.return_status \in {"reverse_shipment_created", "pickup_scheduled"}
  /\ ret' = [ret EXCEPT !.return_status = "returned",
                        !.inspection = "pending",
                        !.source = IF delhiveryConfirmed THEN "delhivery"
                                                         ELSE "override"]
  /\ telling' = TRUE
  /\ OnlyRow /\ UNCHANGED <<told, untold>>

(* After the COMMIT: notifyReturnEvent, ...                                *)
TellReturned ==
  /\ telling
  /\ telling' = FALSE /\ told' = told + 1
  /\ OnlyRow /\ UNCHANGED <<ret, untold>>

(* ... unless the process dies first, or the COMMIT's answer was lost.     *)
TellingIsLost ==
  /\ telling
  /\ telling' = FALSE /\ untold' = TRUE
  /\ OnlyRow /\ UNCHANGED <<ret, told>>

approveInspection ==
  /\ RowFree
  /\ ret.return_status = "returned" /\ ret.inspection \notin {"approved", "rejected"}
  /\ ret' = [ret EXCEPT !.inspection = "approved"]
  /\ OnlyRow /\ UNCHANGED news

rejectInspection ==
  /\ RowFree
  /\ ret.return_status = "returned" /\ ret.inspection \notin {"approved", "rejected"}
  /\ ret' = [ret EXCEPT !.inspection = "rejected"]
  /\ OnlyRow /\ UNCHANGED news

-----------------------------------------------------------------------------
(* createReverseShipment. *)

OnlyCreating == UNCHANGED <<tracker, cron_lock, torn, news>>

(* An uncertain outcome is passed only by an admin who has looked and      *)
(* found no shipment at Delhivery.                                         *)
ConfirmedNotCreated == reverse = "none"

(* The lock and the checks. *)
BeginReverseShipment ==
  /\ RowFree
  /\ ret.return_status = "approved" /\ isReturnWindowOpen
  /\ ret.create_status = "uncertain" => ConfirmedNotCreated
  /\ creating' = "call"
  /\ UNCHANGED <<ret, reverse, diagnosing, late, adrift>> /\ OnlyCreating

(* recordReverseShipmentAttempt and COMMIT. *)
Record(outcome) ==
  /\ ret' = [ret EXCEPT !.create_status = outcome]
  /\ creating' = "idle"

(* Delhivery has one shipment per reference: the answer has the AWB, or is *)
(* "Duplicate order id".                                                   *)
DelhiveryCreates ==
  /\ creating = "call" /\ reverse = "none"
  /\ reverse' = "open" /\ late' = FALSE
  /\ creating' = "save"
  /\ UNCHANGED <<ret, diagnosing, adrift>> /\ OnlyCreating

DuplicateReference ==
  /\ creating = "call" /\ reverse # "none"
  /\ Record("uncertain")
  /\ UNCHANGED <<reverse, diagnosing, late, adrift>> /\ OnlyCreating

(* The package is refused, or the connection was never made. *)
ConfirmedFailure ==
  /\ creating = "call"
  /\ Record("failed")
  /\ UNCHANGED <<reverse, diagnosing, late, adrift>> /\ OnlyCreating

(* Fault: a lost answer is read as a refusal. *)
LostAnswerIsFailure(error) == "failed"

(* A 5xx, a timeout or a reset says nothing; only a connection that was    *)
(* never made, and a 4xx, say that there is no shipment.                   *)
classifyReverseShipmentCreateOutcome(error) ==
  IF error \in {"4xx", "never_connected"} THEN "failed" ELSE "uncertain"

(* The shipment may have been created, never be, or be a while later. *)
AnswerLost ==
  /\ creating = "call"
  /\ Record(classifyReverseShipmentCreateOutcome("timeout"))
  /\ \/ reverse = "none" /\ reverse' = "open" /\ late' = FALSE
     \/ reverse = "none" /\ late' = TRUE /\ UNCHANGED reverse
     \/ UNCHANGED <<reverse, late>>
  /\ UNCHANGED <<diagnosing, adrift>> /\ OnlyCreating

(* The UPDATE with the AWB, and COMMIT. *)
SaveReverseShipment ==
  /\ creating = "save"
  /\ ret' = [ret EXCEPT !.reverse_awb = TRUE, !.type = "RVP",
                        !.create_status = "none",
                        !.return_status = "reverse_shipment_created"]
  /\ creating' = "idle" /\ adrift' = FALSE
  /\ UNCHANGED <<reverse, diagnosing, late>> /\ OnlyCreating

(* It throws: the same transaction is used, with the UPDATE done in it or  *)
(* not, to keep the AWB as unconfirmed; ...                                *)
SaveFails(updated) ==
  /\ creating = "save"
  /\ ret' = IF updated
              THEN [ret EXCEPT !.reverse_awb = TRUE, !.type = "RVP",
                               !.create_status = "uncertain",
                               !.return_status = "reverse_shipment_created"]
              ELSE [ret EXCEPT !.create_status = "uncertain"]
  /\ creating' = "idle"
  /\ UNCHANGED <<reverse, diagnosing, late, adrift>> /\ OnlyCreating

(* ... that fails too: it is rolled back, which frees the row, ... *)
SameTransactionFails ==
  /\ creating = "save"
  /\ creating' = "idle" /\ diagnosing' = TRUE
  /\ UNCHANGED <<ret, reverse, late, adrift>> /\ OnlyCreating

(* ... and a fresh connection asked, whose failure is only logged. *)
RecordDiagnostic ==
  /\ diagnosing /\ RowFree
  /\ ret' = [ret EXCEPT !.create_status = "uncertain"]
  /\ diagnosing' = FALSE
  /\ UNCHANGED <<reverse, creating, late, adrift>> /\ OnlyCreating

DiagnosticFails ==
  /\ diagnosing
  /\ diagnosing' = FALSE /\ adrift' = TRUE
  /\ UNCHANGED <<ret, reverse, creating, late>> /\ OnlyCreating

(* The process dies, or an outcome cannot be recorded: all is rolled back. *)
AdminDies ==
  /\ creating # "idle" \/ diagnosing
  /\ creating' = "idle" /\ diagnosing' = FALSE
  /\ adrift' = TRUE
  /\ \/ creating = "call" /\ reverse = "none" /\ late' = TRUE
     \/ UNCHANGED late
  /\ UNCHANGED <<ret, reverse>> /\ OnlyCreating

(* The request that timed out arrives after the admin has looked, too. *)
LateRequestCreates ==
  /\ late
  /\ late' = FALSE
  /\ reverse' = "open"
  /\ adrift' = (adrift \/ ret.create_status # "uncertain" \/ creating # "idle")
  /\ UNCHANGED <<ret, creating, diagnosing>> /\ OnlyCreating

-----------------------------------------------------------------------------
(* Delhivery. *)

ReverseTravels ==
  \/ reverse = "open" /\ reverse' \in {"scheduled", "cancelled"}
  \/ reverse = "scheduled" /\ reverse' \in {"transit", "cancelled"}
  \/ reverse = "transit" /\ reverse' = "delivered"

ReverseShipmentTravels ==
  /\ ReverseTravels
  /\ UNCHANGED <<ret, creating, diagnosing, late, adrift>> /\ OnlyCreating

(* normalizeReverseTrackingStatus of Delhivery's answer: any combination   *)
(* but DL/DTO may be one that it does not know.                            *)
normalizeReverseTrackingStatus ==
  CASE reverse = "open" -> {"pending"}
    [] reverse \in {"scheduled", "transit"} -> {"underway", "pending"}
    [] reverse = "cancelled" -> {"cancelled", "pending"}
    [] reverse = "delivered" -> {"delivered"}

-----------------------------------------------------------------------------
(* The reverse-tracking pass of an instance. *)

OnlyTracker == UNCHANGED <<reverse, creating, diagnosing, late, adrift>>

AtStep(t, s) == tracker[t].step = s

ToStep(t, s) == tracker' = [tracker EXCEPT ![t].step = s]

Granted == cron_lock = NoTracker

Released(t) == IF cron_lock = t THEN NoTracker ELSE cron_lock

PassEnds(t) ==
  /\ tracker' = [tracker EXCEPT ![t] = NoPass]
  /\ cron_lock' = Released(t)

(* TRACKABLE_SQL *)
Trackable ==
  /\ ret.reverse_awb
  /\ ret.tracking \notin {"delivered", "cancelled"}
  /\ \/ ret.return_status \in {"reverse_shipment_created", "pickup_scheduled"}
     \/ /\ ret.return_status = "returned" /\ ret.type = "RVP"
        /\ ~ret.delivered_at

(* runWithCronLock: GET_LOCK(name, 0), without which the tick is skipped,  *)
(* and the SELECT, whose empty answer ends the pass.                       *)
BeginPass(t) ==
  /\ AtStep(t, "idle") /\ Granted /\ Trackable
  /\ cron_lock' = t
  /\ tracker' = [tracker EXCEPT ![t].step = "fetch",
                                ![t].from = ret.return_status]
  /\ OnlyTracker /\ UNCHANGED <<ret, torn, news>>

FetchReverseTracking(t) ==
  /\ AtStep(t, "fetch")
  /\ \E o \in normalizeReverseTrackingStatus :
       tracker' = [tracker EXCEPT ![t].step = "observe", ![t].seen = o]
  /\ OnlyTracker /\ UNCHANGED <<ret, cron_lock, torn, news>>

returnStatusProvenBy(t) ==
  CASE tracker[t].seen = "delivered" -> "returned"
    [] tracker[t].seen = "underway" -> "pickup_scheduled"
    [] OTHER -> "none"

isAllowedReturnTransition(from, to) ==
  \/ from = "reverse_shipment_created" /\ to \in {"pickup_scheduled", "returned"}
  \/ from = "pickup_scheduled" /\ to = "returned"

(* Is there a second statement to run, for what was read at the start? *)
Proves(t) ==
  /\ ret.type = "RVP"
  /\ isAllowedReturnTransition(tracker[t].from, returnStatusProvenBy(t))

(* applyObservation: the UPDATE of the tracking columns, ... *)
RecordObservation(t) ==
  /\ AtStep(t, "observe") /\ RowFree
  /\ ret' = [ret EXCEPT !.tracking = tracker[t].seen,
                        !.delivered_at = @ \/ (/\ ret.type = "RVP"
                                               /\ tracker[t].seen = "delivered")]
  /\ IF Proves(t)
       THEN ToStep(t, "apply") /\ UNCHANGED cron_lock
       ELSE PassEnds(t)
  /\ OnlyTracker /\ UNCHANGED <<torn, news>>

(* Fault: the UPDATE looks at the id alone. *)
StillAnything(t) == TRUE

StillAsRead(t) == ret.return_status = tracker[t].from

(* ... and the UPDATE of return_status, guarded by the status read. Of a   *)
(* parcel that came back the history is written and the order read again,  *)
(* ...                                                                     *)
ApplyTransition(t) ==
  LET returned == StillAsRead(t) /\ returnStatusProvenBy(t) = "returned" IN
  /\ AtStep(t, "apply") /\ RowFree
  /\ ret' = IF returned
              THEN [ret EXCEPT !.return_status = "returned",
                               !.source = "delhivery",
                               !.inspection = IF @ = "none" THEN "pending" ELSE @]
            ELSE IF StillAsRead(t)
              THEN [ret EXCEPT !.return_status = "pickup_scheduled"]
            ELSE ret
  /\ IF returned THEN ToStep(t, "notify") /\ UNCHANGED cron_lock
                 ELSE PassEnds(t)
  /\ OnlyTracker /\ UNCHANGED <<torn, news>>

(* ... and the customer told. *)
NotifyReturned(t) ==
  /\ AtStep(t, "notify")
  /\ told' = told + 1
  /\ PassEnds(t)
  /\ OnlyTracker /\ UNCHANGED <<ret, torn, telling, untold>>

(* The call or a statement throws, or the process dies: in every case the  *)
(* next tick begins anew, and who was to be told is not told by this pass. *)
PassFails(t) ==
  /\ ~AtStep(t, "idle")
  /\ untold' = (untold \/ AtStep(t, "notify"))
  /\ PassEnds(t)
  /\ OnlyTracker /\ UNCHANGED <<ret, torn, told, telling>>

(* The lock is the connection's: the server drops it, the pass goes on.    *)
(* Bound: once.                                                            *)
LockConnectionDrops(t) ==
  /\ cron_lock = t /\ ~torn
  /\ cron_lock' = NoTracker
  /\ torn' = TRUE
  /\ OnlyTracker /\ UNCHANGED <<ret, tracker, news>>

-----------------------------------------------------------------------------
CreateReverseShipment ==
  \/ BeginReverseShipment \/ DelhiveryCreates \/ DuplicateReference
  \/ ConfirmedFailure \/ AnswerLost \/ SaveReverseShipment
  \/ \E updated \in BOOLEAN : SaveFails(updated)
  \/ SameTransactionFails \/ RecordDiagnostic \/ DiagnosticFails
  \/ AdminDies \/ LateRequestCreates

TrackReverse(t) ==
  BeginPass(t) \/ FetchReverseTracking(t) \/ RecordObservation(t)
    \/ ApplyTransition(t) \/ NotifyReturned(t)

ReturnNext ==
  \/ approveReturn \/ rejectReturn \/ WindowCloses
  \/ markReturned \/ TellReturned \/ TellingIsLost
  \/ approveInspection \/ rejectInspection
  \/ CreateReverseShipment \/ ReverseShipmentTravels
  \/ \E t \in Trackers :
       TrackReverse(t) \/ PassFails(t) \/ LockConnectionDrops(t)

ReturnSpec == ReturnInit /\ [][ReturnNext]_returnVars

(* The crons tick every half hour, and what they ask of Delhivery and the  *)
(* database succeeds now and then. Admins and Delhivery owe nothing.       *)
ReturnFairness ==
  /\ WF_returnVars(\E t \in Trackers : BeginPass(t))
  /\ SF_returnVars(\E t \in Trackers : FetchReverseTracking(t))
  /\ SF_returnVars(\E t \in Trackers : RecordObservation(t))
  /\ WF_returnVars(\E t \in Trackers : ApplyTransition(t) \/ NotifyReturned(t))

-----------------------------------------------------------------------------
(* Properties. *)

ReturnTypeOK ==
  /\ ret \in ReturnRow
  /\ reverse \in {"none", "open", "scheduled", "transit", "delivered", "cancelled"}
  /\ creating \in {"idle", "call", "save"}
  /\ diagnosing \in BOOLEAN /\ late \in BOOLEAN /\ adrift \in BOOLEAN
  /\ tracker \in [Trackers -> Pass]
  /\ cron_lock \in Trackers \cup {NoTracker}
  /\ torn \in BOOLEAN
  /\ told \in Nat /\ telling \in BOOLEAN /\ untold \in BOOLEAN

(* A reverse shipment that exists at Delhivery has its AWB on the order,   *)
(* or the order says that it may exist, so that nobody is told "nothing    *)
(* was created": whatever answer was lost and whichever statement failed,  *)
(* short of a death or of the last diagnostic failing.                     *)
ShipmentKnown ==
  reverse # "none" /\ RowFree /\ ~diagnosing /\ ~adrift
    => ret.reverse_awb \/ ret.create_status = "uncertain"

(* "Only DL/DTO proves the parcel reached BREE": a receipt that the        *)
(* records ascribe to Delhivery is one, of a reverse pickup.               *)
ReceiptProven ==
  ret.source = "delhivery" => ret.type = "RVP" /\ reverse = "delivered"

(* "Exactly one caller writes history and notifies": whichever of the      *)
(* passes and the admin records the receipt, the customer is told of it    *)
(* never before and never twice, and is told, or about to be, unless who   *)
(* recorded it died or failed after its COMMIT.                            *)
ToldOnce ==
  /\ told <= 1
  /\ told = 1 => ret.return_status = "returned"
  /\ ret.return_status = "returned" =>
       told = 1 \/ telling \/ untold \/ \E t \in Trackers : AtStep(t, "notify")

(* "Skips this run": one pass at a time, while its connection lives. *)
OnePass ==
  torn \/ Cardinality({t \in Trackers : ~AtStep(t, "idle")}) <= 1

(* The return's records and the world agree, at every moment.              *)
ReturnSafe ==
  ReturnTypeOK /\ ShipmentKnown /\ ReceiptProven /\ ToldOnce /\ OnePass

Rank(s) == CASE s = "none" -> 0 [] s = "approved" -> 1 [] s = "rejected" -> 5
             [] s = "reverse_shipment_created" -> 2
             [] s = "pickup_scheduled" -> 3 [] s = "returned" -> 4

(* "Forward-only": the return's status never goes back, and neither an     *)
(* inspection's verdict nor the proof of delivery is ever taken away; with *)
(* one pass at a time Delhivery's last word is never overwritten.          *)
ReturnOnward ==
  [][/\ Rank(ret'.return_status) >= Rank(ret.return_status)
     /\ ret.inspection \in {"approved", "rejected"} =>
          ret'.inspection = ret.inspection
     /\ ret.delivered_at => ret'.delivered_at
     /\ ret.tracking \in {"delivered", "cancelled"} /\ ~torn =>
          ret'.tracking = ret.tracking]_returnVars

(* The second UPDATE has failed, or met a status it had not read, after    *)
(* the first took the order off TRACKABLE_SQL: only an admin goes on.      *)
Stranded == ret.tracking = "delivered" /\ ret.return_status # "returned"

(* What Delhivery has delivered is recorded as returned, unless the pass   *)
(* that saw it was cut between its two statements.                         *)
DeliveryIsRecorded ==
  []<>(reverse = "delivered" /\ ret.type = "RVP" =>
         \/ ret.return_status \notin {"reverse_shipment_created", "pickup_scheduled"}
         \/ Stranded)

(* Both, as the one promise of the flow over time. *)
ReturnPromise == ReturnOnward /\ DeliveryIsRecorded
=============================================================================
