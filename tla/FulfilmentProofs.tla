-------------------------- MODULE FulfilmentProofs --------------------------
(***************************************************************************)
(* Proofs about Return, for any number of instances, and about Package,    *)
(* for any number of instances, cycles and days between them.              *)
(***************************************************************************)
EXTENDS Return, Package, FiniteSetTheorems, TLAPS

-----------------------------------------------------------------------------
(* The return.                                                             *)
(*                                                                         *)
(* What the admin's endpoints, Delhivery and the passes know of each other *)
(* is stale as soon as it is read. Known says what createReverseShipment   *)
(* leaves behind, Sent what a pass relies on, Proven what it has seen and   *)
(* may still write, Locked that the lock, as long as it holds, keeps the   *)
(* passes apart.                                                           *)

(* The shipment is on the order, or the order says that it may exist, or   *)
(* somebody is about to write it; a request that begins although the last  *)
(* outcome is uncertain begins where there is no shipment.                 *)
Known ==
  /\ reverse # "none" /\ ~diagnosing /\ ~adrift =>
       ret.reverse_awb \/ ret.create_status = "uncertain" \/ creating = "save"
  /\ creating = "call" /\ ret.create_status = "uncertain" /\ ~adrift =>
       reverse = "none"
  /\ late => reverse = "none"
  /\ creating # "idle" => ret.return_status = "approved"

(* Nobody asks Delhivery for the state of a shipment that it does not have. *)
Sent ==
  /\ ret.reverse_awb \/ creating = "save" => reverse # "none"
  /\ \A t \in Trackers : ~AtStep(t, "idle") => reverse # "none"

(* What is read or recorded as delivered is, and it stays so.              *)
Proven ==
  /\ ret.tracking = "delivered" => reverse = "delivered"
  /\ \A t \in Trackers :
       /\ tracker[t].seen = "delivered" => reverse = "delivered"
       /\ AtStep(t, "apply") =>
            ret.type = "RVP"
            /\ isAllowedReturnTransition(tracker[t].from, returnStatusProvenBy(t))
  /\ ReceiptProven

(* Of a return that came back there is one at most who is about to tell    *)
(* the customer, while nobody has; of any other there is none.             *)
Notifying == {t \in Trackers : AtStep(t, "notify")}

News ==
  /\ told \in {0, 1}
  /\ ret.return_status # "returned" => told = 0 /\ ~telling /\ Notifying = {}
  /\ ret.return_status = "returned" =>
       told = 1 \/ telling \/ untold \/ Notifying # {}
  /\ telling => told = 0 /\ Notifying = {}
  /\ \A t \in Notifying : told = 0 /\ Notifying = {t}

(* Only what came back is inspected, and its customer told. *)
Counted ==
  /\ News
  /\ ret.inspection # "none" => ret.return_status = "returned"

(* Until the lock's connection drops, who is in a pass has the lock, and   *)
(* the state that it goes to ask for is not final.                         *)
Locked ==
  ~torn => \A t \in Trackers :
    /\ ~AtStep(t, "idle") => cron_lock = t
    /\ AtStep(t, "fetch") \/ AtStep(t, "observe") =>
         ret.tracking \notin {"delivered", "cancelled"}

ReturnInv == ReturnTypeOK /\ Sent /\ Known /\ Proven /\ Counted /\ Locked

LEMMA ReturnBegins == ReturnInit => ReturnInv
  <1> SUFFICES ASSUME ReturnInit PROVE ReturnInv
    OBVIOUS
  <1>1. ReturnTypeOK
    <2>1. Delivered \in ReturnRow /\ NoPass \in Pass
      BY DEF Delivered, ReturnRow, ReturnStatus, Tracking, NoPass, Pass
    <2>2. [Delivered EXCEPT !.return_status = "reverse_shipment_created",
                            !.reverse_awb = TRUE, !.type = "legacy"] \in ReturnRow
      BY DEF Delivered, ReturnRow, ReturnStatus, Tracking
    <2> QED BY <2>1, <2>2 DEF ReturnInit, ReturnTypeOK
  <1>2. /\ ret.return_status # "returned" /\ ret.tracking = "none"
        /\ ret.source = "none" /\ ret.inspection = "none"
        /\ reverse = "none" \/ ret.reverse_awb
    <2>1. CASE ret = Delivered /\ reverse = "none"
      BY <2>1 DEF Delivered
    <2>2. CASE ret = [Delivered EXCEPT !.return_status = "reverse_shipment_created",
                                       !.reverse_awb = TRUE, !.type = "legacy"]
      BY <2>2 DEF Delivered
    <2> QED BY <2>1, <2>2 DEF ReturnInit
  <1>3. \A t \in Trackers : AtStep(t, "idle") /\ tracker[t].seen = "none"
    BY DEF ReturnInit, AtStep, NoPass
  <1>4. Known
    BY <1>2 DEF ReturnInit, Known
  <1>4a. Sent
    <2>1. creating = "idle" /\ (ret.reverse_awb => reverse # "none")
      BY DEF ReturnInit, Delivered
    <2> QED BY <1>3, <2>1 DEF Sent
  <1>5. Proven
    BY <1>2, <1>3 DEF Proven, ReceiptProven, AtStep
  <1>6. Counted
    <2>1. Notifying = {}
      BY <1>3 DEF Notifying, AtStep
    <2> QED BY <1>2, <2>1 DEF ReturnInit, Counted, News
  <1>7. Locked
    BY <1>3 DEF Locked, AtStep
  <1> QED BY <1>1, <1>4, <1>4a, <1>5, <1>6, <1>7 DEF ReturnInv

(* The endpoints and what runs with them, outside createReverseShipment.   *)
Endpoint == approveReturn \/ rejectReturn \/ WindowCloses
              \/ markReturned \/ TellReturned \/ TellingIsLost
              \/ approveInspection \/ rejectInspection

LEMMA EndpointTyped ==
  ASSUME ReturnTypeOK, Endpoint PROVE ReturnTypeOK'
  <1>1. ret' \in ReturnRow
    <2> USE DEF ReturnTypeOK, ReturnRow, ReturnStatus
    <2>1. CASE approveReturn
      BY <2>1 DEF approveReturn
    <2>2. CASE rejectReturn
      BY <2>2 DEF rejectReturn
    <2>3. CASE WindowCloses
      BY <2>3 DEF WindowCloses
    <2>4. CASE markReturned
      BY <2>4 DEF markReturned
    <2>5. CASE approveInspection
      BY <2>5 DEF approveInspection
    <2>6. CASE rejectInspection
      BY <2>6 DEF rejectInspection
    <2>7. CASE TellReturned \/ TellingIsLost
      BY <2>7 DEF TellReturned, TellingIsLost
    <2> QED BY <2>1, <2>2, <2>3, <2>4, <2>5, <2>6, <2>7 DEF Endpoint
  <1>2. /\ OnlyRow
        /\ told' \in Nat /\ telling' \in BOOLEAN /\ untold' \in BOOLEAN
    <2> USE DEF ReturnTypeOK
    <2>1. CASE markReturned
      BY <2>1 DEF markReturned
    <2>2. CASE TellReturned \/ TellingIsLost
      <3>1. CASE TellReturned
        <4>1. OnlyRow /\ telling' = FALSE /\ untold' = untold /\ told' = told + 1
          BY <3>1, Zenon DEF TellReturned
        <4>2. told' \in Nat
          BY <4>1
        <4> QED BY <4>1, <4>2
      <3>2. CASE TellingIsLost
        BY <3>2 DEF TellingIsLost
      <3> QED BY <2>2, <3>1, <3>2
    <2>3. CASE \/ approveReturn \/ rejectReturn \/ WindowCloses
               \/ approveInspection \/ rejectInspection
      <3>1. OnlyRow /\ UNCHANGED news
        BY <2>3 DEF approveReturn, rejectReturn, WindowCloses, approveInspection,
           rejectInspection
      <3> QED BY <3>1 DEF news
    <2> QED BY <2>1, <2>2, <2>3 DEF Endpoint
  <1> QED BY <1>1, <1>2 DEF OnlyRow, ReturnTypeOK

LEMMA CreatingTyped ==
  ASSUME ReturnTypeOK, CreateReverseShipment PROVE ReturnTypeOK'
  <1> USE DEF ReturnTypeOK, OnlyCreating, news
  <1>1. CASE BeginReverseShipment \/ DelhiveryCreates \/ DiagnosticFails
             \/ AdminDies \/ LateRequestCreates \/ SameTransactionFails
    BY <1>1 DEF BeginReverseShipment, DelhiveryCreates, DiagnosticFails, AdminDies,
       LateRequestCreates, SameTransactionFails
  <1>2. ASSUME NEW o \in {"none", "uncertain", "failed"}, Record(o)
        PROVE  ret' \in ReturnRow /\ creating' = "idle"
    BY <1>2 DEF Record, ReturnRow
  <1>3. CASE DuplicateReference \/ ConfirmedFailure \/ AnswerLost
    <2>1. Record("uncertain") \/ Record("failed")
      BY <1>3 DEF DuplicateReference, ConfirmedFailure, AnswerLost,
         classifyReverseShipmentCreateOutcome
    <2>2. ret' \in ReturnRow /\ creating' = "idle"
      BY <1>2, <2>1
    <2>3. /\ reverse' = reverse \/ reverse' = "open"
          /\ late' \in BOOLEAN /\ diagnosing' = diagnosing /\ adrift' = adrift
          /\ OnlyCreating
      BY <1>3 DEF DuplicateReference, ConfirmedFailure, AnswerLost
    <2> QED BY <2>2, <2>3
  <1>4. CASE SaveReverseShipment
    <2>1. ret' \in ReturnRow
      BY <1>4 DEF SaveReverseShipment, ReturnRow, ReturnStatus
    <2> QED BY <1>4, <2>1 DEF SaveReverseShipment
  <1>5. ASSUME NEW updated \in BOOLEAN, SaveFails(updated) PROVE ReturnTypeOK'
    <2>1. CASE updated
      <3>1. ret' = [ret EXCEPT !.reverse_awb = TRUE, !.type = "RVP",
                               !.create_status = "uncertain",
                               !.return_status = "reverse_shipment_created"]
        BY <1>5, <2>1 DEF SaveFails
      <3>2. ret' \in ReturnRow
        BY <3>1 DEF ReturnRow, ReturnStatus
      <3> QED BY <1>5, <3>2 DEF SaveFails
    <2>2. CASE ~updated
      <3>1. ret' = [ret EXCEPT !.create_status = "uncertain"]
        BY <1>5, <2>2 DEF SaveFails
      <3>2. ret' \in ReturnRow
        BY <3>1 DEF ReturnRow
      <3> QED BY <1>5, <3>2 DEF SaveFails
    <2> QED BY <2>1, <2>2
  <1>6. CASE RecordDiagnostic
    <2>1. ret' \in ReturnRow
      BY <1>6 DEF RecordDiagnostic, ReturnRow
    <2> QED BY <1>6, <2>1 DEF RecordDiagnostic
  <1> QED BY <1>1, <1>3, <1>4, <1>5, <1>6 DEF CreateReverseShipment

LEMMA PassTyped ==
  ASSUME ReturnTypeOK, Sent, NEW t \in Trackers,
         TrackReverse(t) \/ PassFails(t) \/ LockConnectionDrops(t)
  PROVE  ReturnTypeOK'
  <1> USE DEF ReturnTypeOK, OnlyTracker, news
  <1>1. ASSUME PassEnds(t)
        PROVE  tracker' \in [Trackers -> Pass] /\ cron_lock' \in Trackers \cup {NoTracker}
    <2>1. NoPass \in Pass
      BY DEF NoPass, Pass, ReturnStatus, Tracking
    <2> QED BY <1>1, <2>1 DEF PassEnds, Released
  <1>2. CASE BeginPass(t)
    <2>1. ret.return_status \in ReturnStatus
      BY DEF ReturnRow
    <2>2. tracker' = [tracker EXCEPT ![t].step = "fetch",
                                     ![t].from = ret.return_status]
      BY <1>2 DEF BeginPass
    <2>3. tracker' \in [Trackers -> Pass]
      BY <2>1, <2>2 DEF Pass
    <2> QED BY <1>2, <2>3 DEF BeginPass
  <1>3. CASE FetchReverseTracking(t)
    <2>1. normalizeReverseTrackingStatus \subseteq Tracking
      <3>1. reverse # "none"
        BY <1>3 DEF FetchReverseTracking, AtStep, Sent
      <3> QED BY <3>1 DEF normalizeReverseTrackingStatus, Tracking
    <2>2. ASSUME NEW o \in normalizeReverseTrackingStatus,
                 tracker' = [tracker EXCEPT ![t].step = "observe", ![t].seen = o]
          PROVE  tracker' \in [Trackers -> Pass]
      BY <2>1, <2>2 DEF Pass
    <2>3. tracker' \in [Trackers -> Pass]
      BY <1>3, <2>2, Zenon DEF FetchReverseTracking
    <2> QED BY <1>3, <2>3 DEF FetchReverseTracking
  <1>4. CASE RecordObservation(t)
    <2>1. ret' \in ReturnRow
      <3> DEFINE b == ret.delivered_at
                      \/ (ret.type = "RVP" /\ tracker[t].seen = "delivered")
      <3>1. b \in BOOLEAN
        BY DEF ReturnRow
      <3>2. ret' = [ret EXCEPT !.tracking = tracker[t].seen, !.delivered_at = b]
        BY <1>4 DEF RecordObservation
      <3>3. tracker[t].seen \in Tracking
        BY DEF Pass
      <3> HIDE DEF b
      <3> QED BY <3>1, <3>2, <3>3 DEF ReturnRow
    <2>2. CASE ToStep(t, "apply") /\ UNCHANGED cron_lock
      <3>1. tracker' \in [Trackers -> Pass]
        BY <2>2 DEF ToStep, Pass
      <3> QED BY <1>4, <2>1, <2>2, <3>1 DEF RecordObservation
    <2>3. CASE PassEnds(t)
      BY <1>1, <1>4, <2>1, <2>3 DEF RecordObservation
    <2> QED BY <1>4, <2>2, <2>3 DEF RecordObservation
  <1>5. CASE ApplyTransition(t)
    <2>1. (ToStep(t, "notify") /\ UNCHANGED cron_lock) \/ PassEnds(t)
      BY <1>5 DEF ApplyTransition
    <2>2. \/ ret' = ret
          \/ ret' = [ret EXCEPT !.return_status = "returned",
                                !.source = "delhivery",
                                !.inspection = IF @ = "none" THEN "pending" ELSE @]
          \/ ret' = [ret EXCEPT !.return_status = "pickup_scheduled"]
      BY <1>5 DEF ApplyTransition
    <2>3. ret' \in ReturnRow
      BY <2>2 DEF ReturnRow, ReturnStatus
    <2>4. ToStep(t, "notify") => tracker' \in [Trackers -> Pass]
      BY DEF ToStep, Pass
    <2> QED BY <1>1, <1>5, <2>1, <2>3, <2>4 DEF ApplyTransition
  <1>6. CASE NotifyReturned(t)
    BY <1>1, <1>6 DEF NotifyReturned
  <1>7. CASE PassFails(t)
    <2>1. untold' \in BOOLEAN
      <3>1. untold' = TRUE \/ untold' = untold
        BY <1>7, Zenon DEF PassFails
      <3> QED BY <3>1
    <2>2. UNCHANGED <<ret, torn, told, telling>> /\ OnlyTracker /\ PassEnds(t)
      BY <1>7 DEF PassFails
    <2> QED BY <1>1, <2>1, <2>2
  <1>8. CASE LockConnectionDrops(t)
    BY <1>8 DEF LockConnectionDrops
  <1> QED BY <1>2, <1>3, <1>4, <1>5, <1>6, <1>7, <1>8 DEF TrackReverse

LEMMA ReturnTyped == ReturnTypeOK /\ Sent /\ [ReturnNext]_returnVars => ReturnTypeOK'
  <1> SUFFICES ASSUME ReturnTypeOK, Sent, [ReturnNext]_returnVars PROVE ReturnTypeOK'
    OBVIOUS
  <1>1. CASE ReverseShipmentTravels
    BY <1>1 DEF ReverseShipmentTravels, ReverseTravels, OnlyCreating, ReturnTypeOK,
       news
  <1>2. CASE UNCHANGED returnVars
    BY <1>2 DEF returnVars, ReturnTypeOK, news
  <1> QED BY <1>1, <1>2, EndpointTyped, CreatingTyped, PassTyped
          DEF ReturnNext, Endpoint

(* What neither tells nor records a receipt leaves the news as they are.   *)
LEMMA NewsStays ==
  ASSUME News, UNCHANGED news,
         \A t \in Trackers : AtStep(t, "notify")' = AtStep(t, "notify"),
         ret'.return_status = "returned" <=> ret.return_status = "returned"
  PROVE  News'
  <1>1. Notifying' = Notifying
    BY DEF Notifying
  <1> QED BY <1>1 DEF News, news

LEMMA EndpointNews ==
  ASSUME ReturnTypeOK, News, Endpoint PROVE News'
  <1> USE DEF ReturnTypeOK, ReturnRow
  <1>1. Notifying' = Notifying
    BY DEF Endpoint, approveReturn, rejectReturn, WindowCloses, markReturned,
       TellReturned, TellingIsLost, approveInspection, rejectInspection, OnlyRow,
       Notifying, AtStep
  <1>2. CASE markReturned
    <2>1. /\ ret.return_status # "returned" /\ ret'.return_status = "returned"
          /\ telling' /\ told' = told
      BY <1>2 DEF markReturned
    <2> QED BY <1>1, <2>1 DEF News
  <1>3. CASE TellReturned \/ TellingIsLost
    BY <1>1, <1>3 DEF TellReturned, TellingIsLost, News
  <1>4. CASE \/ approveReturn \/ rejectReturn \/ WindowCloses
             \/ approveInspection \/ rejectInspection
    <2>1. ret'.return_status = "returned" <=> ret.return_status = "returned"
      BY <1>4 DEF approveReturn, rejectReturn, WindowCloses, approveInspection,
         rejectInspection
    <2>2. UNCHANGED news
      BY <1>4 DEF approveReturn, rejectReturn, WindowCloses, approveInspection,
         rejectInspection
    <2> QED BY <1>1, <2>1, <2>2 DEF News, news
  <1> QED BY <1>2, <1>3, <1>4 DEF Endpoint

LEMMA EndpointKeeps ==
  ASSUME ReturnInv, Endpoint PROVE ReturnInv'
  <1> USE DEF ReturnInv
  <1>1. ReturnTypeOK'
    BY EndpointTyped
  <1>2. /\ OnlyRow /\ (RowFree \/ ret'.return_status = ret.return_status)
        /\ ret'.reverse_awb = ret.reverse_awb /\ ret'.type = ret.type
        /\ ret'.create_status = ret.create_status /\ ret'.tracking = ret.tracking
    <2> USE DEF ReturnTypeOK, ReturnRow
    <2>1. CASE approveReturn \/ rejectReturn
      BY <2>1 DEF approveReturn, rejectReturn
    <2>2. CASE WindowCloses
      BY <2>2 DEF WindowCloses
    <2>3. CASE markReturned
      BY <2>3 DEF markReturned
    <2>4. CASE approveInspection \/ rejectInspection
      BY <2>4 DEF approveInspection, rejectInspection
    <2>5. CASE TellReturned \/ TellingIsLost
      BY <2>5 DEF TellReturned, TellingIsLost
    <2> QED BY <2>1, <2>2, <2>3, <2>4, <2>5 DEF Endpoint
  <1>3. Known' /\ Sent' /\ Locked'
    BY <1>2 DEF Known, Sent, Locked, OnlyRow, RowFree, AtStep
  <1>4. ReceiptProven' /\ Counted'
    <2> USE DEF ReturnTypeOK, ReturnRow, ReceiptProven, Counted, Proven, OnlyRow
    <2>0. News'
      BY EndpointNews
    <2>1. CASE approveReturn \/ rejectReturn
      BY <2>0, <2>1 DEF approveReturn, rejectReturn
    <2>2. CASE WindowCloses
      BY <2>0, <2>2 DEF WindowCloses
    <2>3. CASE markReturned
      <3>1. ret'.source = "delhivery" => delhiveryConfirmed
        BY <2>3 DEF markReturned
      <3> QED BY <1>2, <2>0, <2>3, <3>1 DEF markReturned, delhiveryConfirmed
    <2>4. CASE approveInspection \/ rejectInspection
      BY <2>0, <2>4 DEF approveInspection, rejectInspection
    <2>5. CASE TellReturned \/ TellingIsLost
      BY <2>0, <2>5 DEF TellReturned, TellingIsLost
    <2> QED BY <2>1, <2>2, <2>3, <2>4, <2>5 DEF Endpoint
  <1>5. Proven'
    BY <1>2, <1>4 DEF Proven, OnlyRow, AtStep, returnStatusProvenBy
  <1> QED BY <1>1, <1>3, <1>4, <1>5

(* A shipment does not vanish, and a delivery is its last state.           *)
LEMMA ShipmentGoesOn ==
  ASSUME ReturnInv, [ReturnNext]_returnVars
  PROVE  /\ reverse # "none" => reverse' # "none"
         /\ reverse = "delivered" => reverse' = "delivered"
  <1> USE DEF OnlyRow, OnlyCreating, OnlyTracker
  <1>1. CASE CreateReverseShipment
    BY <1>1 DEF CreateReverseShipment, BeginReverseShipment, DelhiveryCreates,
       DuplicateReference, ConfirmedFailure, AnswerLost, SaveReverseShipment,
       SaveFails, SameTransactionFails, RecordDiagnostic, DiagnosticFails,
       AdminDies, LateRequestCreates, ReturnInv, Known
  <1>2. CASE ReverseShipmentTravels
    BY <1>2 DEF ReverseShipmentTravels, ReverseTravels
  <1>3. CASE Endpoint
    BY <1>3 DEF Endpoint, approveReturn, rejectReturn, WindowCloses, markReturned,
       TellReturned, TellingIsLost, approveInspection, rejectInspection
  <1>4. ASSUME NEW t \in Trackers,
               TrackReverse(t) \/ PassFails(t) \/ LockConnectionDrops(t)
        PROVE  reverse' = reverse
    BY <1>4 DEF TrackReverse, BeginPass, FetchReverseTracking, RecordObservation,
       ApplyTransition, NotifyReturned, PassFails, LockConnectionDrops
  <1> QED BY <1>1, <1>2, <1>3, <1>4 DEF ReturnNext, Endpoint, returnVars

(* Of createReverseShipment, only the UPDATE with the AWB does more than   *)
(* to say what is known of the outcome.                                    *)
LEMMA CreatingWrites ==
  ASSUME ReturnInv, CreateReverseShipment
  PROVE  /\ OnlyCreating
         /\ ret'.tracking = ret.tracking /\ ret'.source = ret.source
         /\ ret'.inspection = ret.inspection
         /\ ret'.delivered_at = ret.delivered_at
         /\ \/ /\ ret'.return_status = ret.return_status
               /\ ret'.type = ret.type /\ ret'.reverse_awb = ret.reverse_awb
            \/ /\ creating = "save" /\ ret'.type = "RVP"
               /\ ret'.return_status = "reverse_shipment_created"
               /\ ret'.reverse_awb /\ creating' = "idle"
  <1> USE DEF ReturnInv, ReturnTypeOK, ReturnRow
  <1>1. CASE BeginReverseShipment \/ DelhiveryCreates \/ DiagnosticFails
             \/ AdminDies \/ LateRequestCreates \/ SameTransactionFails
    BY <1>1 DEF BeginReverseShipment, DelhiveryCreates, DiagnosticFails, AdminDies,
       LateRequestCreates, SameTransactionFails, OnlyCreating
  <1>2. CASE DuplicateReference \/ ConfirmedFailure \/ AnswerLost
    BY <1>2 DEF DuplicateReference, ConfirmedFailure, AnswerLost, Record, OnlyCreating
  <1>3. CASE SaveReverseShipment
    BY <1>3 DEF SaveReverseShipment, OnlyCreating
  <1>4. ASSUME NEW updated \in BOOLEAN, SaveFails(updated)
        PROVE  /\ OnlyCreating /\ creating = "save" /\ creating' = "idle"
               /\ \/ ret' = [ret EXCEPT !.create_status = "uncertain"]
                  \/ ret' = [ret EXCEPT !.reverse_awb = TRUE, !.type = "RVP",
                                        !.create_status = "uncertain",
                                        !.return_status = "reverse_shipment_created"]
    BY <1>4 DEF SaveFails
  <1>5. CASE \E updated \in BOOLEAN : SaveFails(updated)
    <2>1. /\ OnlyCreating /\ creating = "save" /\ creating' = "idle"
          /\ \/ ret' = [ret EXCEPT !.create_status = "uncertain"]
             \/ ret' = [ret EXCEPT !.reverse_awb = TRUE, !.type = "RVP",
                                   !.create_status = "uncertain",
                                   !.return_status = "reverse_shipment_created"]
      BY <1>4, <1>5
    <2>2. CASE ret' = [ret EXCEPT !.create_status = "uncertain"]
      BY <2>1, <2>2
    <2>3. CASE ret' = [ret EXCEPT !.reverse_awb = TRUE, !.type = "RVP",
                                  !.create_status = "uncertain",
                                  !.return_status = "reverse_shipment_created"]
      BY <2>1, <2>3
    <2> QED BY <2>1, <2>2, <2>3
  <1>6. CASE RecordDiagnostic
    BY <1>6 DEF RecordDiagnostic, OnlyCreating
  <1> QED BY <1>1, <1>2, <1>3, <1>5, <1>6 DEF CreateReverseShipment

LEMMA CreatingKnown ==
  ASSUME ReturnInv, CreateReverseShipment PROVE Known'
  <1> USE DEF ReturnInv, ReturnTypeOK, ReturnRow, Known, OnlyCreating
  <1>1. CASE BeginReverseShipment
    BY <1>1 DEF BeginReverseShipment, RowFree, ConfirmedNotCreated
  <1>2. CASE DelhiveryCreates
    BY <1>2 DEF DelhiveryCreates
  <1>3. CASE DuplicateReference
    BY <1>3 DEF DuplicateReference, Record
  <1>4. CASE ConfirmedFailure
    BY <1>4 DEF ConfirmedFailure, Record
  <1>5. CASE AnswerLost
    BY <1>5 DEF AnswerLost, Record, classifyReverseShipmentCreateOutcome
  <1>6. CASE SaveReverseShipment
    BY <1>6, ReturnTypeOK DEF SaveReverseShipment
  <1>7. ASSUME NEW updated \in BOOLEAN, SaveFails(updated) PROVE Known'
    <2>1. ret'.create_status = "uncertain" /\ creating' = "idle"
      <3>1. CASE updated
        BY <1>7, <3>1 DEF SaveFails
      <3>2. CASE ~updated
        BY <1>7, <3>2 DEF SaveFails
      <3> QED BY <3>1, <3>2
    <2> QED BY <1>7, <2>1 DEF SaveFails
  <1>8. CASE SameTransactionFails
    BY <1>8 DEF SameTransactionFails
  <1>9. CASE RecordDiagnostic
    BY <1>9 DEF RecordDiagnostic, RowFree
  <1>10. CASE DiagnosticFails
    BY <1>10 DEF DiagnosticFails
  <1>11. CASE AdminDies
    BY <1>11 DEF AdminDies
  <1>12. CASE LateRequestCreates
    BY <1>12 DEF LateRequestCreates
  <1> QED BY <1>1, <1>2, <1>3, <1>4, <1>5, <1>6, <1>7, <1>8, <1>9, <1>10, <1>11,
             <1>12 DEF CreateReverseShipment

LEMMA CreatingKeeps ==
  ASSUME ReturnInv, CreateReverseShipment, [ReturnNext]_returnVars PROVE ReturnInv'
  <1> USE DEF ReturnInv
  <1>1. ReturnTypeOK' /\ Known'
    BY CreatingTyped, CreatingKnown
  <1>2. creating' = "save" => creating = "save" \/ reverse' # "none"
    <2>1. CASE DelhiveryCreates
      BY <2>1 DEF DelhiveryCreates
    <2>2. CASE ~DelhiveryCreates
      BY <2>2 DEF CreateReverseShipment, BeginReverseShipment, DuplicateReference,
         ConfirmedFailure, AnswerLost, SaveReverseShipment, SaveFails,
         SameTransactionFails, RecordDiagnostic, DiagnosticFails, AdminDies,
         LateRequestCreates, Record
    <2> QED BY <2>1, <2>2
  <1>3. Sent'
    BY <1>2, CreatingWrites, ShipmentGoesOn DEF Sent, OnlyCreating, AtStep
  <1>4. ReceiptProven'
    BY CreatingWrites, ShipmentGoesOn DEF Proven, ReceiptProven
  <1>5. Proven'
    <2>1. ret'.tracking = "delivered" => reverse' = "delivered"
      BY CreatingWrites, ShipmentGoesOn DEF Proven
    <2>2. ASSUME NEW t \in Trackers
          PROVE  /\ (tracker[t].seen = "delivered")' => reverse' = "delivered"
                 /\ AtStep(t, "apply")' =>
                      /\ ret'.type = "RVP"
                      /\ isAllowedReturnTransition(tracker[t].from,
                                                   returnStatusProvenBy(t))'
      <3>1. tracker' = tracker /\ (ret.type = "RVP" => ret'.type = "RVP")
        BY CreatingWrites DEF OnlyCreating
      <3>2. returnStatusProvenBy(t)' = returnStatusProvenBy(t)
        BY <3>1 DEF returnStatusProvenBy
      <3> QED BY <3>1, <3>2, ShipmentGoesOn
              DEF Proven, AtStep, isAllowedReturnTransition
    <2> QED BY <1>4, <2>1, <2>2 DEF Proven, isAllowedReturnTransition
  <1>6. \/ ret'.return_status = ret.return_status
        \/ ret.return_status # "returned" /\ ret'.return_status # "returned"
    BY CreatingWrites DEF Known
  <1>7. Counted' /\ Locked'
    <2>1. News'
      BY <1>6, CreatingWrites, NewsStays DEF Counted, OnlyCreating, AtStep
    <2> QED BY <1>6, <2>1, CreatingWrites DEF Counted, Locked, OnlyCreating, AtStep
  <1> QED BY <1>1, <1>3, <1>5, <1>7

(* The steps of a pass. What the others have read stays as it is, ...      *)
LEMMA OthersKeep ==
  ASSUME ReturnTypeOK, NEW t \in Trackers,
         TrackReverse(t) \/ PassFails(t) \/ LockConnectionDrops(t),
         NEW u \in Trackers \ {t}
  PROVE  tracker'[u] = tracker[u]
  BY DEF TrackReverse, BeginPass, FetchReverseTracking, RecordObservation,
     ApplyTransition, NotifyReturned, PassFails, LockConnectionDrops, PassEnds,
     ToStep, ReturnTypeOK

(* ... and of an instance's own pass, this is what each step makes.        *)
LEMMA PassMoves ==
  ASSUME ReturnInv, NEW t \in Trackers,
         TrackReverse(t) \/ PassFails(t) \/ LockConnectionDrops(t)
  PROVE  \/ /\ BeginPass(t)
            /\ AtStep(t, "fetch")' /\ tracker'[t].seen = tracker[t].seen
            /\ cron_lock' = t
         \/ /\ FetchReverseTracking(t)
            /\ AtStep(t, "observe")'
            /\ tracker'[t].seen = "delivered" => reverse = "delivered"
            /\ cron_lock' = cron_lock
         \/ /\ RecordObservation(t) /\ Proves(t)
            /\ tracker' = [tracker EXCEPT ![t].step = "apply"]
            /\ cron_lock' = cron_lock
         \/ /\ ApplyTransition(t)
            /\ tracker' = [tracker EXCEPT ![t].step = "notify"]
            /\ cron_lock' = cron_lock
         \/ /\ \/ RecordObservation(t) \/ ApplyTransition(t)
               \/ NotifyReturned(t) \/ PassFails(t)
            /\ tracker'[t] = NoPass /\ cron_lock' = Released(t)
         \/ /\ LockConnectionDrops(t)
            /\ tracker' = tracker
  <1> USE DEF ReturnInv, ReturnTypeOK, Pass, AtStep
  <1>1. PassEnds(t) => tracker'[t] = NoPass /\ cron_lock' = Released(t)
    BY DEF PassEnds
  <1>2. CASE BeginPass(t)
    BY <1>2 DEF BeginPass
  <1>3. CASE FetchReverseTracking(t)
    <2>1. reverse # "none"
      BY <1>3 DEF FetchReverseTracking, Sent
    <2>2. ASSUME NEW o \in normalizeReverseTrackingStatus
          PROVE  o = "delivered" => reverse = "delivered"
      BY <2>1 DEF normalizeReverseTrackingStatus
    <2>3. ASSUME NEW o \in normalizeReverseTrackingStatus,
                 tracker' = [tracker EXCEPT ![t].step = "observe", ![t].seen = o]
          PROVE  /\ tracker'[t].step = "observe"
                 /\ tracker'[t].seen = "delivered" => reverse = "delivered"
      BY <2>2, <2>3
    <2>4. /\ tracker'[t].step = "observe"
          /\ tracker'[t].seen = "delivered" => reverse = "delivered"
      BY <1>3, <2>3, Zenon DEF FetchReverseTracking
    <2> QED BY <1>3, <2>4 DEF FetchReverseTracking
  <1>4. CASE RecordObservation(t)
    BY <1>1, <1>4 DEF RecordObservation, ToStep
  <1>5. CASE ApplyTransition(t)
    BY <1>1, <1>5 DEF ApplyTransition, ToStep
  <1>6. CASE NotifyReturned(t) \/ PassFails(t)
    BY <1>1, <1>6 DEF NotifyReturned, PassFails
  <1>7. CASE LockConnectionDrops(t)
    BY <1>7 DEF LockConnectionDrops
  <1> QED BY <1>2, <1>3, <1>4, <1>5, <1>6, <1>7 DEF TrackReverse

(* What a pass writes to the row: the tracking's columns; then what they   *)
(* prove, of a pickup that is Delhivery's, forward.                        *)
LEMMA PassWrites ==
  ASSUME ReturnInv, NEW t \in Trackers,
         TrackReverse(t) \/ PassFails(t) \/ LockConnectionDrops(t)
  PROVE  /\ OnlyTracker
         /\ ret'.type = ret.type /\ ret'.reverse_awb = ret.reverse_awb
         /\ ret'.create_status = ret.create_status
         /\ \/ ret' = ret
            \/ /\ RecordObservation(t)
               /\ ret'.tracking = tracker[t].seen
               /\ ret.delivered_at => ret'.delivered_at
               /\ ret'.return_status = ret.return_status
               /\ ret'.source = ret.source /\ ret'.inspection = ret.inspection
            \/ /\ ret.return_status \in {"reverse_shipment_created", "pickup_scheduled"}
               /\ tracker[t].seen = "delivered" /\ ret.type = "RVP"
               /\ ret'.return_status = "returned"
               /\ ret'.tracking = ret.tracking
               /\ ret'.delivered_at = ret.delivered_at
            \/ /\ ret.return_status = "reverse_shipment_created"
               /\ ret'.return_status = "pickup_scheduled"
               /\ ret'.tracking = ret.tracking
               /\ ret'.delivered_at = ret.delivered_at
               /\ ret'.source = ret.source /\ ret'.inspection = ret.inspection
  <1> USE DEF ReturnInv, ReturnTypeOK, ReturnRow
  <1>1. CASE BeginPass(t) \/ FetchReverseTracking(t) \/ NotifyReturned(t)
             \/ PassFails(t) \/ LockConnectionDrops(t)
    BY <1>1 DEF BeginPass, FetchReverseTracking, NotifyReturned, PassFails,
       LockConnectionDrops
  <1>2. CASE RecordObservation(t)
    <2> DEFINE b == ret.delivered_at
                    \/ (ret.type = "RVP" /\ tracker[t].seen = "delivered")
    <2>1. ret' = [ret EXCEPT !.tracking = tracker[t].seen, !.delivered_at = b]
      BY <1>2 DEF RecordObservation
    <2>2. ret.delivered_at => b
      OBVIOUS
    <2> HIDE DEF b
    <2>3. OnlyTracker
      BY <1>2 DEF RecordObservation
    <2> QED BY <1>2, <2>1, <2>2, <2>3
  <1>3. CASE ApplyTransition(t)
    <2>1. OnlyTracker
      BY <1>3 DEF ApplyTransition
    <2>2. /\ ret.type = "RVP"
          /\ isAllowedReturnTransition(tracker[t].from, returnStatusProvenBy(t))
      BY <1>3 DEF ApplyTransition, Proven
    <2>3. CASE ~StillAsRead(t)
      BY <1>3, <2>1, <2>3 DEF ApplyTransition
    <2>4. CASE StillAsRead(t) /\ returnStatusProvenBy(t) = "returned"
      <3>1. tracker[t].seen = "delivered"
        BY <2>4 DEF returnStatusProvenBy
      <3>2. ret.return_status \in {"reverse_shipment_created", "pickup_scheduled"}
        BY <2>2, <2>4 DEF StillAsRead, isAllowedReturnTransition
      <3>3. ret' = [ret EXCEPT !.return_status = "returned",
                               !.source = "delhivery",
                               !.inspection = IF @ = "none" THEN "pending" ELSE @]
        BY <1>3, <2>4 DEF ApplyTransition
      <3> QED BY <2>1, <2>2, <3>1, <3>2, <3>3
    <2>5. CASE StillAsRead(t) /\ returnStatusProvenBy(t) # "returned"
      <3>1. ret.return_status = "reverse_shipment_created"
        BY <2>2, <2>5 DEF StillAsRead, isAllowedReturnTransition
      <3>2. ret' = [ret EXCEPT !.return_status = "pickup_scheduled"]
        BY <1>3, <2>5 DEF ApplyTransition
      <3> QED BY <2>1, <3>1, <3>2
    <2> QED BY <2>3, <2>4, <2>5
  <1> QED BY <1>1, <1>2, <1>3 DEF TrackReverse

(* Who records the receipt is the one that is about to tell of it. *)
LEMMA PassNews ==
  ASSUME ReturnInv, NEW t \in Trackers,
         TrackReverse(t) \/ PassFails(t) \/ LockConnectionDrops(t)
  PROVE  News'
  <1> USE DEF ReturnInv, Counted
  <1>1. \A u \in Trackers \ {t} : AtStep(u, "notify")' = AtStep(u, "notify")
    BY OthersKeep DEF AtStep
  <1>2. ASSUME ~AtStep(t, "notify"), ~AtStep(t, "notify")', UNCHANGED news,
               ret'.return_status = "returned" <=> ret.return_status = "returned"
        PROVE  News'
    <2>1. Notifying' = Notifying
      BY <1>1, <1>2 DEF Notifying
    <2> QED BY <1>2, <2>1 DEF News, news
  <1>3. ASSUME PassEnds(t)
        PROVE  ~AtStep(t, "notify")' /\ Notifying' = Notifying \ {t}
    <2>1. tracker'[t] = NoPass
      BY <1>3 DEF PassEnds, ReturnTypeOK
    <2> QED BY <1>1, <2>1 DEF NoPass, AtStep, Notifying
  <1>4. CASE BeginPass(t) \/ FetchReverseTracking(t) \/ RecordObservation(t)
    <2>1. UNCHANGED news /\ ~AtStep(t, "notify")
      BY <1>4 DEF BeginPass, FetchReverseTracking, RecordObservation, AtStep
    <2>2. ~AtStep(t, "notify")'
      BY <1>3, <1>4 DEF BeginPass, FetchReverseTracking, RecordObservation, ToStep,
         AtStep, ReturnTypeOK, Pass
    <2>3. ret'.return_status = ret.return_status
      BY <1>4 DEF BeginPass, FetchReverseTracking, RecordObservation, ReturnTypeOK,
         ReturnRow
    <2> QED BY <1>2, <2>1, <2>2, <2>3
  <1>5. CASE ApplyTransition(t)
    <2>1. UNCHANGED news /\ ~AtStep(t, "notify")
      BY <1>5 DEF ApplyTransition, AtStep
    <2>2. CASE StillAsRead(t) /\ returnStatusProvenBy(t) = "returned"
      <3>1. ret.return_status # "returned"
        BY <1>5, <2>2 DEF ApplyTransition, Proven, StillAsRead,
           isAllowedReturnTransition
      <3>2. ret'.return_status = "returned" /\ ToStep(t, "notify")
        BY <1>5, <2>2 DEF ApplyTransition, ReturnTypeOK, ReturnRow
      <3>3. AtStep(t, "notify")'
        BY <3>2 DEF ToStep, AtStep, ReturnTypeOK, Pass
      <3>4. Notifying' = {t}
        BY <1>1, <3>1, <3>3 DEF News, Notifying
      <3> QED BY <2>1, <3>1, <3>2, <3>4 DEF News, news
    <2>3. CASE ~(StillAsRead(t) /\ returnStatusProvenBy(t) = "returned")
      <3>1. PassEnds(t)
        BY <1>5, <2>3 DEF ApplyTransition
      <3>2. \/ ret' = ret
            \/ /\ StillAsRead(t) /\ returnStatusProvenBy(t) # "returned"
               /\ ret'.return_status = "pickup_scheduled"
        BY <1>5, <2>3 DEF ApplyTransition, ReturnTypeOK, ReturnRow
      <3>3. StillAsRead(t) => ret.return_status # "returned"
        BY <1>5 DEF ApplyTransition, Proven, StillAsRead, isAllowedReturnTransition
      <3> QED BY <1>2, <1>3, <2>1, <3>1, <3>2, <3>3
    <2> QED BY <2>2, <2>3
  <1>6. CASE NotifyReturned(t)
    <2>1. t \in Notifying /\ told' = told + 1 /\ UNCHANGED <<ret, telling, untold>>
      BY <1>6 DEF NotifyReturned, Notifying
    <2>2. Notifying' = {} /\ told' = 1 /\ ~telling' /\ ret'.return_status = "returned"
      BY <1>3, <1>6, <2>1 DEF NotifyReturned, News
    <2> QED BY <2>2 DEF News
  <1>7. CASE PassFails(t)
    <2>1. CASE AtStep(t, "notify")
      <3>1. /\ t \in Notifying /\ untold' = TRUE
            /\ UNCHANGED <<ret, told, telling>>
        BY <1>7, <2>1 DEF PassFails, Notifying
      <3>2. Notifying' = {} /\ told' = 0 /\ ~telling' /\ ret'.return_status = "returned"
        BY <1>3, <1>7, <3>1 DEF PassFails, News
      <3> QED BY <3>1, <3>2 DEF News
    <2>2. CASE ~AtStep(t, "notify")
      <3>1. UNCHANGED <<ret, told, telling, untold>>
        BY <1>7, <2>2 DEF PassFails, ReturnTypeOK
      <3> QED BY <1>2, <1>3, <1>7, <2>2, <3>1 DEF PassFails, news
    <2> QED BY <2>1, <2>2
  <1>8. CASE LockConnectionDrops(t)
    BY <1>8, NewsStays DEF LockConnectionDrops, AtStep
  <1> QED BY <1>4, <1>5, <1>6, <1>7, <1>8 DEF TrackReverse

LEMMA PassKeeps ==
  ASSUME ReturnInv, NEW t \in Trackers,
         TrackReverse(t) \/ PassFails(t) \/ LockConnectionDrops(t)
  PROVE  ReturnInv'
  <1> USE DEF ReturnInv
  <1>1. ReturnTypeOK'
    BY PassTyped
  <1>2. \A u \in Trackers \ {t} : tracker'[u] = tracker[u]
    BY OthersKeep
  <1>3. \/ ret' = ret
        \/ creating = "idle"
    BY DEF TrackReverse, BeginPass, FetchReverseTracking, RecordObservation,
       ApplyTransition, NotifyReturned, PassFails, LockConnectionDrops, RowFree
  <1>4. Known'
    BY <1>3, PassWrites DEF Known, OnlyTracker
  <1>5. Sent'
    <2>1. AtStep(t, "idle") /\ ~AtStep(t, "idle")' => reverse # "none"
      <3>1. BeginPass(t) => ret.reverse_awb
        BY DEF BeginPass, Trackable
      <3> QED BY <3>1, PassMoves
              DEF FetchReverseTracking, RecordObservation, ApplyTransition,
              NotifyReturned, PassFails, NoPass, AtStep, Sent
    <2>2. \A u \in Trackers : ~AtStep(u, "idle")' => reverse' # "none"
      BY <1>2, <2>1, PassWrites DEF Sent, AtStep, OnlyTracker
    <2> QED BY <2>2, PassWrites DEF Sent, OnlyTracker
  <1>6. tracker'[t].seen = "delivered" => reverse = "delivered"
    BY PassMoves DEF Proven, NoPass, ReturnTypeOK, Pass
  <1>7. ret'.tracking = "delivered" => reverse = "delivered"
    BY PassWrites DEF Proven
  <1>8. ReceiptProven'
    BY PassWrites DEF Proven, ReceiptProven, OnlyTracker
  <1>9. AtStep(t, "apply")' =>
          /\ ret'.type = "RVP"
          /\ isAllowedReturnTransition(tracker[t].from, returnStatusProvenBy(t))'
    <2> SUFFICES ASSUME AtStep(t, "apply")'
                 PROVE  /\ ret'.type = "RVP"
                        /\ isAllowedReturnTransition(tracker[t].from,
                                                    returnStatusProvenBy(t))'
      OBVIOUS
    <2>1. CASE tracker' = [tracker EXCEPT ![t].step = "apply"] /\ Proves(t)
      <3>1. tracker'[t].from = tracker[t].from /\ tracker'[t].seen = tracker[t].seen
        BY <2>1 DEF ReturnTypeOK, Pass
      <3>2. returnStatusProvenBy(t)' = returnStatusProvenBy(t)
        BY <3>1 DEF returnStatusProvenBy
      <3> QED BY <2>1, <3>1, <3>2, PassWrites DEF Proves, isAllowedReturnTransition
    <2>2. CASE LockConnectionDrops(t) /\ tracker' = tracker
      <3>1. returnStatusProvenBy(t)' = returnStatusProvenBy(t)
        BY <2>2 DEF returnStatusProvenBy
      <3> QED BY <2>2, <3>1, PassWrites DEF Proven, AtStep, isAllowedReturnTransition
    <2>3. CASE tracker' = [tracker EXCEPT ![t].step = "notify"]
      BY <2>3 DEF AtStep, ReturnTypeOK, Pass
    <2> QED BY <2>1, <2>2, <2>3, PassMoves DEF AtStep, NoPass
  <1>10. Proven'
    <2>1. ASSUME NEW u \in Trackers \ {t}
          PROVE  /\ (tracker[u].seen = "delivered")' => reverse' = "delivered"
                 /\ AtStep(u, "apply")' =>
                      /\ ret'.type = "RVP"
                      /\ isAllowedReturnTransition(tracker[u].from,
                                                   returnStatusProvenBy(u))'
      <3>1. tracker'[u] = tracker[u] /\ ret'.type = ret.type
        BY <1>2, PassWrites
      <3>2. returnStatusProvenBy(u)' = returnStatusProvenBy(u)
        BY <3>1 DEF returnStatusProvenBy
      <3> QED BY <3>1, <3>2, PassWrites
              DEF Proven, AtStep, isAllowedReturnTransition, OnlyTracker
    <2>2. reverse' = reverse
      BY PassWrites DEF OnlyTracker
    <2> QED BY <1>6, <1>7, <1>8, <1>9, <2>1, <2>2 DEF Proven, isAllowedReturnTransition
  <1>11. Counted'
    BY PassNews, PassWrites DEF Counted, ReturnTypeOK
  <1>12. Locked'
    <2> SUFFICES ASSUME ~torn' PROVE
          \A u \in Trackers :
            /\ ~AtStep(u, "idle")' => cron_lock' = u
            /\ AtStep(u, "fetch")' \/ AtStep(u, "observe")' =>
                 ret'.tracking \notin {"delivered", "cancelled"}
      BY DEF Locked
    <2>1. ~torn /\ ~LockConnectionDrops(t)
      BY DEF TrackReverse, BeginPass, FetchReverseTracking, RecordObservation,
         ApplyTransition, NotifyReturned, PassFails, LockConnectionDrops
    <2>2. \A u \in Trackers :
            /\ ~AtStep(u, "idle") => cron_lock = u
            /\ AtStep(u, "fetch") \/ AtStep(u, "observe") =>
                 ret.tracking \notin {"delivered", "cancelled"}
      BY <2>1 DEF Locked
    <2>3. \A u \in Trackers \ {t} : AtStep(u, "idle") /\ AtStep(u, "idle")'
      <3>1. CASE BeginPass(t)
        BY <1>2, <2>2, <3>1, ReturnAssumption DEF BeginPass, Granted, AtStep
      <3>2. CASE ~BeginPass(t)
        <4>1. ~AtStep(t, "idle")
          BY <2>1, <3>2 DEF TrackReverse, FetchReverseTracking, RecordObservation,
             ApplyTransition, NotifyReturned, PassFails, AtStep
        <4> QED BY <1>2, <2>2, <4>1 DEF AtStep
      <3> QED BY <3>1, <3>2
    <2>4. ~AtStep(t, "idle")' => cron_lock' = t
      <3>1. FetchReverseTracking(t) \/ RecordObservation(t) \/ ApplyTransition(t)
              => cron_lock = t
        BY <2>2 DEF FetchReverseTracking, RecordObservation, ApplyTransition, AtStep
      <3> QED BY <2>1, <3>1, PassMoves DEF NoPass, AtStep
    <2>5. AtStep(t, "fetch")' \/ AtStep(t, "observe")' =>
            ret'.tracking \notin {"delivered", "cancelled"}
      <3>1. CASE BeginPass(t)
        BY <3>1 DEF BeginPass, Trackable
      <3>2. CASE FetchReverseTracking(t)
        BY <2>2, <3>2 DEF FetchReverseTracking
      <3>3. CASE \/ tracker' = [tracker EXCEPT ![t].step = "apply"]
                 \/ tracker' = [tracker EXCEPT ![t].step = "notify"]
        BY <3>3 DEF AtStep, ReturnTypeOK, Pass
      <3> QED BY <2>1, <3>1, <3>2, <3>3, PassMoves DEF AtStep, NoPass
    <2> QED BY <2>3, <2>4, <2>5 DEF AtStep
  <1> QED BY <1>1, <1>4, <1>5, <1>10, <1>11, <1>12

LEMMA ReturnKeeps == ReturnInv /\ [ReturnNext]_returnVars => ReturnInv'
  <1> SUFFICES ASSUME ReturnInv, [ReturnNext]_returnVars PROVE ReturnInv'
    OBVIOUS
  <1>1. CASE ReverseShipmentTravels
    <2>1. /\ UNCHANGED <<ret, creating, diagnosing, late, adrift>> /\ OnlyCreating
          /\ reverse # "none"
      BY <1>1 DEF ReverseShipmentTravels, ReverseTravels
    <2>1a. News'
      BY <2>1, NewsStays DEF ReturnInv, Counted, OnlyCreating, AtStep
    <2>2. Known' /\ Sent' /\ Locked' /\ Counted'
      BY <2>1, <2>1a, ShipmentGoesOn
         DEF ReturnInv, Known, Sent, Locked, Counted, OnlyCreating, AtStep
    <2>3. ReceiptProven'
      BY <2>1, ShipmentGoesOn DEF ReturnInv, Proven, ReceiptProven
    <2>4. Proven'
      BY <2>1, <2>3, ShipmentGoesOn
         DEF ReturnInv, Proven, OnlyCreating, AtStep, returnStatusProvenBy
    <2> QED BY <2>2, <2>4, ReturnTyped DEF ReturnInv
  <1>2. CASE UNCHANGED returnVars
    BY <1>2 DEF returnVars, ReturnInv, ReturnTypeOK, Sent, Known, Proven, ReceiptProven,
       Counted, News, Notifying, news, Locked, AtStep, returnStatusProvenBy, RowFree
  <1> QED BY <1>1, <1>2, EndpointKeeps, CreatingKeeps, PassKeeps
          DEF ReturnNext, Endpoint

(* The return's records and the world agree, whatever answer is lost,      *)
(* whoever else moves and wherever a pass is cut: the shipment is known,   *)
(* the receipt proven, the customer told of it at most once and never      *)
(* before, and one pass at a time.                                         *)
THEOREM ReturnCorrect == ReturnSpec => []ReturnSafe
  <1>1. ReturnInv => ShipmentKnown
    BY DEF ReturnInv, Known, ShipmentKnown, RowFree
  <1>2. ReturnInv => OnePass
    <2> SUFFICES ASSUME ReturnInv, ~torn
                 PROVE  Cardinality({t \in Trackers : ~AtStep(t, "idle")}) <= 1
      BY DEF OnePass
    <2> DEFINE S == {t \in Trackers : ~AtStep(t, "idle")}
    <2>1. S \subseteq {cron_lock}
      BY DEF ReturnInv, Locked
    <2>2. IsFiniteSet({cron_lock}) /\ Cardinality({cron_lock}) = 1
      BY FS_Singleton
    <2>3. Cardinality(S) <= Cardinality({cron_lock})
      BY <2>1, <2>2, FS_Subset
    <2> QED BY <2>2, <2>3
  <1>3. ReturnInv => ReturnSafe
    <2>1. ReturnInv => ToldOnce
      BY DEF ReturnInv, Counted, News, Notifying, ToldOnce
    <2> QED BY <1>1, <1>2, <2>1 DEF ReturnInv, ReturnSafe, Proven
  <1> QED BY <1>3, ReturnBegins, ReturnKeeps, PTL DEF ReturnSpec

(* Forward-only: no step of an endpoint, of createReverseShipment or of a  *)
(* pass takes the return's status back, changes a verdict or takes away a  *)
(* proof of delivery; while the lock holds, Delhivery's last word stays.   *)
THEOREM ReturnGoesOn == ReturnSpec => ReturnOnward
  <1> DEFINE Onward ==
        /\ Rank(ret'.return_status) >= Rank(ret.return_status)
        /\ ret.inspection \in {"approved", "rejected"} =>
             ret'.inspection = ret.inspection
        /\ ret.delivered_at => ret'.delivered_at
        /\ ret.tracking \in {"delivered", "cancelled"} /\ ~torn =>
             ret'.tracking = ret.tracking
  <1>1. ReturnInv /\ [ReturnNext]_returnVars => [Onward]_returnVars
    <2> SUFFICES ASSUME ReturnInv, [ReturnNext]_returnVars PROVE [Onward]_returnVars
      OBVIOUS
    <2> USE DEF ReturnInv, ReturnTypeOK, ReturnRow, ReturnStatus, Rank
    <2>1. CASE Endpoint
      <3>1. CASE approveReturn \/ rejectReturn
        BY <3>1 DEF approveReturn, rejectReturn
      <3>2. CASE WindowCloses
        BY <3>2 DEF WindowCloses
      <3>3. CASE markReturned
        BY <3>3 DEF markReturned, Counted
      <3>4. CASE approveInspection \/ rejectInspection
        BY <3>4 DEF approveInspection, rejectInspection
      <3>5. CASE TellReturned \/ TellingIsLost
        BY <3>5 DEF TellReturned, TellingIsLost
      <3> QED BY <2>1, <3>1, <3>2, <3>3, <3>4, <3>5 DEF Endpoint
    <2>2. CASE CreateReverseShipment
      <3>1. creating = "save" => ret.return_status = "approved"
        BY DEF Known
      <3> QED BY <2>2, <3>1, CreatingWrites
    <2>3. CASE ReverseShipmentTravels
      BY <2>3 DEF ReverseShipmentTravels
    <2>4. ASSUME NEW t \in Trackers,
                 TrackReverse(t) \/ PassFails(t) \/ LockConnectionDrops(t)
          PROVE  Onward
      <3>1. RecordObservation(t) /\ ~torn => ret.tracking \notin {"delivered", "cancelled"}
        BY DEF RecordObservation, Locked
      <3>2. ret.return_status # "returned" => ret.inspection = "none"
        BY DEF Counted
      <3> QED BY <2>4, <3>1, <3>2, PassWrites
    <2> QED BY <2>1, <2>2, <2>3, <2>4 DEF ReturnNext, Endpoint
  <1> QED BY <1>1, ReturnBegins, ReturnKeeps, PTL DEF ReturnSpec, ReturnOnward

-----------------------------------------------------------------------------
(* What DeliveryIsRecorded rests on.                                       *)
(*                                                                         *)
(* As long as an arrived reverse pickup is not recorded, and no pass was   *)
(* cut between its two statements, the order is still tracked, Delhivery   *)
(* says nothing but that it was delivered, and whoever has the lock is in  *)
(* a pass, which ends. For that the word "cancelled", after which nobody   *)
(* looks any more, must never be read of a parcel that arrives.            *)

Travelling == ret.return_status \in {"reverse_shipment_created", "pickup_scheduled"}

ArrivalIsTrackable ==
  reverse = "delivered" /\ ret.type = "RVP" /\ Travelling /\ ~Stranded =>
    /\ Trackable
    /\ normalizeReverseTrackingStatus = {"delivered"}
    /\ cron_lock # NoTracker => ~AtStep(cron_lock, "idle")

CancelledIsSo ==
  /\ ret.tracking = "cancelled" => reverse = "cancelled"
  /\ \A t \in Trackers : tracker[t].seen = "cancelled" => reverse = "cancelled"

PickupHasAwb == ret.type = "RVP" => ret.reverse_awb

HolderIsInPass == cron_lock # NoTracker => ~AtStep(cron_lock, "idle")

ArrivalInv == ReturnInv /\ CancelledIsSo /\ PickupHasAwb /\ HolderIsInPass

(* A cancelled reverse shipment stays so: a late request to create one     *)
(* finds none, or is answered as a duplicate.                              *)
LEMMA CancelledStays ==
  ASSUME ReturnInv, [ReturnNext]_returnVars, reverse = "cancelled"
  PROVE  reverse' = "cancelled"
  <1> USE DEF OnlyRow, OnlyCreating, OnlyTracker
  <1>1. CASE CreateReverseShipment
    BY <1>1 DEF CreateReverseShipment, BeginReverseShipment, DelhiveryCreates,
       DuplicateReference, ConfirmedFailure, AnswerLost, SaveReverseShipment,
       SaveFails, SameTransactionFails, RecordDiagnostic, DiagnosticFails,
       AdminDies, LateRequestCreates, ReturnInv, Known
  <1>2. CASE ReverseShipmentTravels
    BY <1>2 DEF ReverseShipmentTravels, ReverseTravels
  <1>3. CASE Endpoint
    BY <1>3 DEF Endpoint, approveReturn, rejectReturn, WindowCloses, markReturned,
       TellReturned, TellingIsLost, approveInspection, rejectInspection
  <1>4. ASSUME NEW t \in Trackers,
               TrackReverse(t) \/ PassFails(t) \/ LockConnectionDrops(t)
        PROVE  reverse' = reverse
    BY <1>4, PassWrites DEF OnlyTracker
  <1> QED BY <1>1, <1>2, <1>3, <1>4 DEF ReturnNext, Endpoint, returnVars

(* The endpoints write none of the columns that say what is tracked.       *)
LEMMA EndpointLeaves ==
  ASSUME ReturnTypeOK, Endpoint
  PROVE  /\ OnlyRow
         /\ ret'.tracking = ret.tracking /\ ret'.type = ret.type
         /\ ret'.reverse_awb = ret.reverse_awb
  <1> USE DEF ReturnTypeOK, ReturnRow
  <1>1. CASE approveReturn \/ rejectReturn \/ WindowCloses
    BY <1>1 DEF approveReturn, rejectReturn, WindowCloses
  <1>2. CASE markReturned
    BY <1>2 DEF markReturned
  <1>3. CASE approveInspection \/ rejectInspection
    BY <1>3 DEF approveInspection, rejectInspection
  <1>4. CASE TellReturned \/ TellingIsLost
    BY <1>4 DEF TellReturned, TellingIsLost
  <1> QED BY <1>1, <1>2, <1>3, <1>4 DEF Endpoint

(* What Delhivery answers is so, and "cancelled" is one of its last words. *)
LEMMA CancelledWasSeen ==
  ASSUME ReturnInv, CancelledIsSo, NEW t \in Trackers,
         TrackReverse(t) \/ PassFails(t) \/ LockConnectionDrops(t),
         tracker'[t].seen = "cancelled"
  PROVE  reverse = "cancelled"
  <1> USE DEF CancelledIsSo
  <1>1. CASE FetchReverseTracking(t)
    <2>1. PICK o \in normalizeReverseTrackingStatus :
            tracker' = [tracker EXCEPT ![t].step = "observe", ![t].seen = o]
      BY <1>1 DEF FetchReverseTracking
    <2>2. tracker'[t].seen = o
      BY <2>1 DEF ReturnInv, ReturnTypeOK, Pass
    <2>3. reverse # "none" /\ reverse \in {"none", "open", "scheduled", "transit",
                                           "delivered", "cancelled"}
      BY <1>1 DEF FetchReverseTracking, AtStep, ReturnInv, Sent, ReturnTypeOK
    <2> QED BY <2>1, <2>2, <2>3 DEF normalizeReverseTrackingStatus
  <1>2. CASE \/ tracker' = [tracker EXCEPT ![t].step = "apply"]
             \/ tracker' = [tracker EXCEPT ![t].step = "notify"]
    BY <1>2 DEF ReturnInv, ReturnTypeOK, Pass
  <1>3. CASE tracker'[t] = NoPass
    BY <1>3 DEF NoPass
  <1> QED BY <1>1, <1>2, <1>3, PassMoves

LEMMA ArrivalStep == ArrivalInv /\ [ReturnNext]_returnVars => ArrivalInv'
  <1> SUFFICES ASSUME ArrivalInv, [ReturnNext]_returnVars PROVE ArrivalInv'
    OBVIOUS
  <1> USE DEF ArrivalInv
  <1>1. ReturnInv' /\ (reverse = "cancelled" => reverse' = "cancelled")
    BY ReturnKeeps, CancelledStays
  <1>2. CASE UNCHANGED <<tracker, cron_lock>> /\ ret'.tracking = ret.tracking
             /\ (ret'.type = "RVP" => ret'.reverse_awb)
    BY <1>1, <1>2 DEF CancelledIsSo, PickupHasAwb, HolderIsInPass, AtStep
  <1>3. CASE Endpoint
    <2>1. /\ OnlyRow /\ ret'.tracking = ret.tracking /\ ret'.type = ret.type
          /\ ret'.reverse_awb = ret.reverse_awb
      BY <1>3, EndpointLeaves DEF ReturnInv
    <2> QED BY <1>2, <2>1 DEF OnlyRow, PickupHasAwb
  <1>4. CASE CreateReverseShipment
    <2>1. /\ OnlyCreating /\ ret'.tracking = ret.tracking
          /\ ret'.type = "RVP" => ret'.reverse_awb
      BY <1>4, CreatingWrites DEF PickupHasAwb
    <2> QED BY <1>2, <2>1 DEF OnlyCreating
  <1>5. CASE ReverseShipmentTravels \/ UNCHANGED returnVars
    <2>1. UNCHANGED <<ret, tracker, cron_lock>>
      BY <1>5 DEF ReverseShipmentTravels, OnlyCreating, returnVars
    <2> QED BY <1>2, <2>1 DEF PickupHasAwb
  <1>6. ASSUME NEW t \in Trackers,
               TrackReverse(t) \/ PassFails(t) \/ LockConnectionDrops(t)
        PROVE  ArrivalInv'
    <2>1. \A u \in Trackers \ {t} : tracker'[u] = tracker[u]
      BY <1>6, OthersKeep DEF ReturnInv
    <2>2. ret'.type = ret.type /\ ret'.reverse_awb = ret.reverse_awb
          /\ reverse' = reverse
      BY <1>6, PassWrites DEF OnlyTracker
    <2>3. ret'.tracking \in {ret.tracking, tracker[t].seen}
      BY <1>6, PassWrites
    <2>4. CancelledIsSo'
      <3>1. ret'.tracking = "cancelled" => reverse = "cancelled"
        BY <2>3 DEF CancelledIsSo
      <3>2. tracker'[t].seen = "cancelled" => reverse = "cancelled"
        BY <1>6, CancelledWasSeen
      <3> QED BY <2>1, <2>2, <3>1, <3>2 DEF CancelledIsSo
    <2>5. HolderIsInPass'
      <3>1. /\ tracker \in [Trackers -> Pass] /\ tracker' \in [Trackers -> Pass]
            /\ cron_lock \in Trackers \cup {NoTracker}
        BY <1>1 DEF ReturnInv, ReturnTypeOK
      <3>2. CASE cron_lock' = NoTracker
        BY <3>2 DEF HolderIsInPass
      <3>3. CASE cron_lock' = t /\ tracker'[t].step # "idle"
        BY <3>3 DEF HolderIsInPass, AtStep
      <3>4. CASE cron_lock' = cron_lock /\ cron_lock # t
        BY <2>1, <3>1, <3>4 DEF HolderIsInPass, AtStep
      <3>5. CASE cron_lock' = cron_lock /\ tracker'[t].step # "idle"
        BY <3>3, <3>4, <3>5
      <3>6. \/ cron_lock' = t /\ tracker'[t].step # "idle"
            \/ cron_lock' = cron_lock /\ tracker'[t].step # "idle"
            \/ cron_lock' = Released(t)
            \/ cron_lock' = NoTracker
        <4>1. CASE /\ \/ tracker' = [tracker EXCEPT ![t].step = "apply"]
                      \/ tracker' = [tracker EXCEPT ![t].step = "notify"]
                   /\ cron_lock' = cron_lock
          BY <3>1, <4>1 DEF Pass
        <4>2. CASE LockConnectionDrops(t)
          BY <4>2 DEF LockConnectionDrops
        <4> QED BY <1>6, <4>1, <4>2, PassMoves DEF AtStep
      <3> QED BY <3>2, <3>3, <3>4, <3>5, <3>6 DEF Released
    <2> QED BY <1>1, <2>2, <2>4, <2>5 DEF PickupHasAwb
  <1> QED BY <1>3, <1>4, <1>5, <1>6 DEF ReturnNext, Endpoint

(* No arrived reverse pickup drops out of the passes' sight unrecorded,    *)
(* short of a pass that is cut between its two statements.                 *)
THEOREM ArrivalStaysTrackable == ReturnSpec => []ArrivalIsTrackable
  <1>1. ReturnInit => CancelledIsSo /\ PickupHasAwb /\ HolderIsInPass
    <2> SUFFICES ASSUME ReturnInit PROVE CancelledIsSo /\ PickupHasAwb
      BY DEF ReturnInit, HolderIsInPass
    <2>1. ret.tracking = "none" /\ ret.type # "RVP"
      <3>1. CASE ret = Delivered /\ reverse = "none"
        BY <3>1 DEF Delivered
      <3>2. CASE ret = [Delivered EXCEPT !.return_status = "reverse_shipment_created",
                                         !.reverse_awb = TRUE, !.type = "legacy"]
        BY <3>2 DEF Delivered
      <3> QED BY <3>1, <3>2 DEF ReturnInit
    <2>2. \A t \in Trackers : tracker[t].seen = "none"
      BY DEF ReturnInit, NoPass
    <2> QED BY <2>1, <2>2 DEF CancelledIsSo, PickupHasAwb
  <1>2. ArrivalInv => ArrivalIsTrackable
    BY DEF ArrivalInv, ArrivalIsTrackable, CancelledIsSo, PickupHasAwb,
       HolderIsInPass, Trackable, Travelling, Stranded,
       normalizeReverseTrackingStatus
  <1> QED BY <1>1, <1>2, ReturnBegins, ArrivalStep, PTL DEF ReturnSpec, ArrivalInv

-----------------------------------------------------------------------------
(* The package.                                                            *)
(*                                                                         *)
(* The row is the count of its cycles: Row says what its three columns say *)
(* of each other, Heard that an order to confirm is one instance's, and is *)
(* not confirmed yet.                                                      *)

(* The next box falls due an interval after the last one was due, so that  *)
(* so many boxes take so many days.                                        *)
Row ==
  /\ package.status = "none" =>
       package.cycles_created = 0 /\ package.next_fulfillment_date = Never
  /\ package.status # "none" =>
       /\ package.cycles_created \in 1..total_cycles
       /\ (package.cycles_created - 1) * interval_days <= age
  /\ package.status = "active" =>
       /\ package.cycles_created < total_cycles
       /\ package.next_fulfillment_date = package.cycles_created * interval_days
  /\ package.status = "completed" =>
       /\ package.cycles_created = total_cycles
       /\ package.next_fulfillment_date = Never

Heard ==
  \A i \in Instances : pass[i] > 0 =>
    /\ cycle_orders[pass[i]] = 1 /\ confirmed[pass[i]] = 0
    /\ \A j \in Instances : pass[j] = pass[i] => i = j

PackageInv == PackageTypeOK /\ Row /\ CyclesAgree /\ Heard /\ ConfirmedOnce

LEMMA MaxAgeNat == MaxAge \in Nat
  <1>1. (total_cycles - 1) * interval_days \in Nat
    BY PackageAssumption
  <1> QED BY <1>1, PackageAssumption DEF MaxAge

LEMMA Division ==
  ASSUME NEW a \in Nat, NEW d \in Nat \ {0}
  PROVE  a \div d \in Int /\ a < d * (a \div d) + d
  OBVIOUS

(* n boxes, the first of which was due at once, that each fell due d days  *)
(* after the one before, and not before its day.                           *)
LEMMA DaysPerBox ==
  ASSUME NEW n \in Nat, NEW d \in Nat \ {0}, NEW a \in Nat, (n - 1) * d <= a
  PROVE  n <= 1 + a \div d
  <1>1. PICK q \in Int : q = a \div d /\ a < d * q + d
    BY Division
  <1>2. (n - 1) * d < d * q + d
    BY <1>1
  <1>3. ASSUME n - 1 >= q + 1 PROVE FALSE
    <2>1. d * (n - 1) >= d * (q + 1)
      BY <1>3
    <2> QED BY <1>2, <2>1
  <1> QED BY <1>1, <1>3

LEMMA PackageBegins == PackageInit => PackageInv
  <1> SUFFICES ASSUME PackageInit PROVE PackageInv
    OBVIOUS
  <1> USE DEF PackageInit
  <1>1. PackageTypeOK
    <2>1. package \in PackageRow
      BY MaxAgeNat, PackageAssumption DEF PackageRow, Never
    <2>2. cycle_orders \in [Cycles -> 0..1] /\ confirmed \in [Cycles -> Nat]
      OBVIOUS
    <2>3. /\ maker \in [Triggers \cup Instances -> {"unpaid", "ask", "create", "end"}]
          /\ pass \in [Instances -> {Found, 0} \cup Cycles]
      OBVIOUS
    <2>4. age \in 0..MaxAge
      <3>1. age = 0
        OBVIOUS
      <3> HIDE DEF PackageInit
      <3> QED BY <3>1, MaxAgeNat
    <2>5. refunded \in BOOLEAN
      OBVIOUS
    <2> HIDE DEF PackageInit
    <2> QED BY <2>1, <2>2, <2>3, <2>4, <2>5 DEF PackageTypeOK
  <1>2. Row
    BY DEF Row
  <1>3. CyclesAgree
    BY PackageAssumption DEF CyclesAgree, Cycles
  <1>4. Heard /\ ConfirmedOnce
    BY DEF Heard, ConfirmedOnce
  <1> QED BY <1>1, <1>2, <1>3, <1>4 DEF PackageInv

(* The calls after the payment, the search for a missing package and a     *)
(* refund of the order leave the row and its cycles alone.                 *)
LEMMA OthersLeaveTheRow ==
  ASSUME PackageTypeOK,
         \/ \E p \in Triggers \cup Instances : LookForPackage(p) \/ MakerFails(p)
         \/ \E i \in Instances : FindMissingPackage(i)
         \/ PackageIsPaid \/ OriginIsRefunded \/ UNCHANGED packageVars
  PROVE  /\ UNCHANGED <<package, cycle_orders, confirmed, age, pass>>
         /\ refunded' \in BOOLEAN
         /\ maker' \in [Triggers \cup Instances -> {"unpaid", "ask", "create", "end"}]
  <1> USE DEF PackageTypeOK, Make
  <1>1. ASSUME NEW p \in Triggers \cup Instances, LookForPackage(p) \/ MakerFails(p)
        PROVE  /\ UNCHANGED <<package, cycle_orders, confirmed, age, pass, refunded>>
               /\ maker' \in [Triggers \cup Instances -> {"unpaid", "ask", "create", "end"}]
    BY <1>1 DEF LookForPackage, MakerFails
  <1>2. ASSUME NEW i \in Instances, FindMissingPackage(i)
        PROVE  /\ UNCHANGED <<package, cycle_orders, confirmed, age, pass, refunded>>
               /\ maker' \in [Triggers \cup Instances -> {"unpaid", "ask", "create", "end"}]
    BY <1>2 DEF FindMissingPackage
  <1>3. CASE PackageIsPaid
    BY <1>3 DEF PackageIsPaid
  <1>4. CASE OriginIsRefunded \/ UNCHANGED packageVars
    BY <1>4 DEF OriginIsRefunded, packageVars
  <1> QED BY <1>1, <1>2, <1>3, <1>4

(* What an instance's step does to its own pass.                           *)
LEMMA PassReaches ==
  ASSUME PackageTypeOK, NEW i \in Instances, NEW c \in {Found, 0} \cup Cycles,
         Reaches(i, c)
  PROVE  /\ pass' \in [Instances -> {Found, 0} \cup Cycles]
         /\ pass'[i] = c /\ \A j \in Instances \ {i} : pass'[j] = pass[j]
  BY DEF PackageTypeOK, Reaches

LEMMA RowIsCreated ==
  ASSUME PackageInv, NEW p \in Triggers \cup Instances,
         createPackagePurchaseFromOrder(p)
  PROVE  PackageInv'
  <1> USE DEF PackageInv
  <1>1. UNCHANGED <<cycle_orders, confirmed, refunded, pass>>
    BY DEF createPackagePurchaseFromOrder
  <1>2. maker' \in [Triggers \cup Instances -> {"unpaid", "ask", "create", "end"}]
    BY DEF createPackagePurchaseFromOrder, Make, PackageTypeOK
  <1>3. Heard' /\ ConfirmedOnce'
    BY <1>1 DEF Heard, ConfirmedOnce
  <1>4. CASE ~OriginIsNew
    <2>1. package' = package /\ age' = age
      BY <1>4 DEF createPackagePurchaseFromOrder
    <2> QED BY <1>1, <1>2, <1>3, <2>1 DEF PackageTypeOK, Row, CyclesAgree
  <1>5. CASE OriginIsNew
    <2>1. package' = FirstRow /\ age' = 0 /\ package.status = "none"
      BY <1>5 DEF createPackagePurchaseFromOrder, OriginIsNew
    <2>2. package' \in PackageRow
      BY <2>1, MaxAgeNat, PackageAssumption DEF FirstRow, PackageRow, Never
    <2>3. PackageTypeOK'
      BY <1>1, <1>2, <2>1, <2>2, MaxAgeNat DEF PackageTypeOK
    <2>4. Row'
      BY <2>1, PackageAssumption DEF FirstRow, Row, Never
    <2>5. CyclesAgree'
      <3>1. package.cycles_created = 0 /\ package'.cycles_created = 1
        BY <2>1 DEF FirstRow, Row
      <3> QED BY <1>1, <3>1 DEF CyclesAgree, Cycles
    <2> QED BY <1>3, <2>3, <2>4, <2>5
  <1> QED BY <1>4, <1>5

(* The next cycle is one that nobody has ordered, and so nobody confirmed. *)
LEMMA CycleIsOrdered ==
  ASSUME PackageInv, NEW i \in Instances, fulfillNextCycle(i)
  PROVE  PackageInv'
  <1> DEFINE c == package.cycles_created + 1
  <1> USE DEF PackageInv
  <1>1. UNCHANGED <<confirmed, age, refunded, maker>>
    BY DEF fulfillNextCycle
  <1>2. package.cycles_created \in 0..total_cycles + 1
    BY DEF PackageTypeOK, PackageRow
  <1>3. CASE isDue /\ cycle_orders[c] = 0
    <2>1. /\ package.status = "active" /\ c \in 2..total_cycles
          /\ package.next_fulfillment_date = package.cycles_created * interval_days
          /\ package.next_fulfillment_date <= age
      BY <1>2, <1>3, PackageAssumption DEF isDue, Due, Row
    <2>2. /\ cycle_orders' = [cycle_orders EXCEPT ![c] = 1]
          /\ package' = After(c) /\ Reaches(i, c)
      BY <1>3 DEF fulfillNextCycle
    <2>3. c \in Cycles /\ interval_days \in Nat /\ age \in 0..MaxAge /\ MaxAge \in Nat
      BY <2>1, PackageAssumption, MaxAgeNat DEF Cycles, PackageTypeOK
    <2>4. /\ pass' \in [Instances -> {Found, 0} \cup Cycles]
          /\ pass'[i] = c /\ \A j \in Instances \ {i} : pass'[j] = pass[j]
      BY <2>2, <2>3, PassReaches
    <2>5. package.next_fulfillment_date \in 0..MaxAge
      BY <1>2, <2>1, <2>3
    <2>6. /\ package'.cycles_created = c
          /\ \/ /\ c >= total_cycles /\ package'.status = "completed"
                /\ package'.next_fulfillment_date = Never
             \/ /\ c < total_cycles /\ package'.status = "active"
                /\ package'.next_fulfillment_date
                     = package.next_fulfillment_date + interval_days
          /\ package' \in PackageRow
      <3>1. package \in PackageRow
        BY DEF PackageTypeOK
      <3>2. CASE c >= total_cycles
        BY <2>1, <2>2, <3>2, PackageAssumption, MaxAgeNat DEF After, PackageRow, Never
      <3>3. CASE ~(c >= total_cycles)
        <4>1. package' = [package EXCEPT !.cycles_created = c,
                                         !.next_fulfillment_date = @ + interval_days]
          BY <2>2, <3>3 DEF After
        <4>2. package.next_fulfillment_date + interval_days \in 0..MaxAge + interval_days
          BY <2>3, <2>5
        <4>3. package' \in PackageRow
          <5> DEFINE n == package.next_fulfillment_date + interval_days
          <5>1. package' = [package EXCEPT !.cycles_created = c,
                                           !.next_fulfillment_date = n]
            BY <4>1
          <5>2. c \in 0..total_cycles + 1
            BY <2>1, PackageAssumption
          <5> HIDE DEF c, n
          <5> QED BY <3>1, <4>2, <5>1, <5>2 DEF PackageRow, n
        <4> QED BY <2>1, <3>1, <3>3, <4>1, <4>3, PackageAssumption DEF PackageRow
      <3> QED BY <3>2, <3>3
    <2>7. PackageTypeOK'
      BY <1>1, <2>2, <2>3, <2>4, <2>6 DEF PackageTypeOK
    <2>8. Row'
      <3>1. c * interval_days = package.cycles_created * interval_days + interval_days
        BY <1>2, <2>3
      <3>2. (c - 1) * interval_days <= age
        BY <1>2, <2>1, <2>3
      <3> QED BY <1>1, <2>1, <2>6, <3>1, <3>2, PackageAssumption DEF Row
    <2>9. CyclesAgree'
      <3>1. c = package.cycles_created + 1 /\ package'.cycles_created = c
        BY <2>6
      <3>2. \A d \in Cycles : cycle_orders'[d] = IF d = c THEN 1 ELSE cycle_orders[d]
        BY <2>2 DEF PackageTypeOK
      <3> HIDE DEF c
      <3> QED BY <1>2, <2>1, <2>3, <3>1, <3>2 DEF CyclesAgree, Cycles
    <2>10. confirmed[c] = 0 /\ \A j \in Instances : pass[j] > 0 => pass[j] # c
      BY <1>3, <2>3 DEF ConfirmedOnce, Heard, PackageTypeOK
    <2>11. Heard' /\ ConfirmedOnce'
      <3>1. \A d \in Cycles : cycle_orders'[d] = IF d = c THEN 1 ELSE cycle_orders[d]
        BY <2>2 DEF PackageTypeOK
      <3>2. \A j \in Instances : pass[j] > 0 => pass[j] \in Cycles
        BY DEF PackageTypeOK, Found
      <3>3. c > 0
        BY <2>1
      <3> HIDE DEF c
      <3>4. Heard'
        BY <1>1, <2>3, <2>4, <2>10, <3>1, <3>2, <3>3 DEF Heard
      <3>5. ConfirmedOnce'
        BY <1>1, <2>10, <3>1 DEF ConfirmedOnce
      <3> QED BY <3>4, <3>5
    <2> QED BY <2>7, <2>8, <2>9, <2>11
  <1>4. CASE ~(isDue /\ cycle_orders[c] = 0)
    <2>1. Reaches(i, 0) /\ UNCHANGED <<package, cycle_orders>>
      BY <1>4 DEF fulfillNextCycle
    <2>2. /\ pass' \in [Instances -> {Found, 0} \cup Cycles]
          /\ pass'[i] = 0 /\ \A j \in Instances \ {i} : pass'[j] = pass[j]
      BY <2>1, PassReaches
    <2> QED BY <1>1, <2>1, <2>2
            DEF PackageTypeOK, Row, CyclesAgree, Heard, ConfirmedOnce
  <1> QED BY <1>3, <1>4

LEMMA PackageKeeps == PackageInv /\ [PackageNext]_packageVars => PackageInv'
  <1> SUFFICES ASSUME PackageInv, [PackageNext]_packageVars PROVE PackageInv'
    OBVIOUS
  <1> USE DEF PackageInv
  <1>1. CASE \/ \E p \in Triggers \cup Instances : LookForPackage(p) \/ MakerFails(p)
             \/ \E i \in Instances : FindMissingPackage(i)
             \/ PackageIsPaid \/ OriginIsRefunded \/ UNCHANGED packageVars
    <2>1. /\ UNCHANGED <<package, cycle_orders, confirmed, age, pass>>
          /\ refunded' \in BOOLEAN
          /\ maker' \in [Triggers \cup Instances -> {"unpaid", "ask", "create", "end"}]
      BY <1>1, OthersLeaveTheRow
    <2> QED BY <2>1 DEF PackageTypeOK, Row, CyclesAgree, Heard, ConfirmedOnce
  <1>2. ASSUME NEW i \in Instances,
               findDuePackageIds(i) \/ FulfilmentFails(i)
        PROVE  PackageInv'
    <2>1. /\ Reaches(i, Found) \/ Reaches(i, 0)
          /\ UNCHANGED <<package, cycle_orders, confirmed, age, refunded, maker>>
      BY <1>2 DEF findDuePackageIds, FulfilmentFails
    <2>2. /\ pass' \in [Instances -> {Found, 0} \cup Cycles]
          /\ pass'[i] \in {Found, 0} /\ \A j \in Instances \ {i} : pass'[j] = pass[j]
      BY <2>1, PassReaches
    <2>3. Heard'
      BY <2>1, <2>2 DEF Heard, Found
    <2> QED BY <2>1, <2>2, <2>3 DEF PackageTypeOK, Row, CyclesAgree, ConfirmedOnce
  <1>3. ASSUME NEW i \in Instances, notifyFulfillmentOrderCreated(i)
        PROVE  PackageInv'
    <2>1. /\ pass[i] > 0 /\ Reaches(i, 0)
          /\ confirmed' = [confirmed EXCEPT ![pass[i]] = @ + 1]
          /\ UNCHANGED <<package, cycle_orders, age, refunded, maker>>
      BY <1>3 DEF notifyFulfillmentOrderCreated
    <2>2. /\ pass' \in [Instances -> {Found, 0} \cup Cycles]
          /\ pass'[i] = 0 /\ \A j \in Instances \ {i} : pass'[j] = pass[j]
      BY <2>1, PassReaches
    <2>3. pass[i] \in Cycles
      BY <2>1 DEF PackageTypeOK, Found
    <2>4. \A d \in Cycles :
            confirmed'[d] = IF d = pass[i] THEN confirmed[d] + 1 ELSE confirmed[d]
      BY <2>1 DEF PackageTypeOK
    <2>5. confirmed' \in [Cycles -> Nat]
      <3>1. PICK m \in Nat : m = confirmed[pass[i]] + 1
        BY <2>3 DEF PackageTypeOK
      <3>2. confirmed \in [Cycles -> Nat] /\ confirmed' = [confirmed EXCEPT ![pass[i]] = m]
        BY <2>1, <3>1 DEF PackageTypeOK
      <3> QED BY <3>2
    <2>6. Heard'
      <3>1. \A j \in Instances : pass[j] > 0 => pass[j] \in Cycles
        BY DEF PackageTypeOK, Found
      <3> QED BY <2>1, <2>2, <2>4, <3>1 DEF Heard
    <2>7. ConfirmedOnce'
      BY <2>1, <2>3, <2>4 DEF ConfirmedOnce, Heard
    <2> QED BY <2>1, <2>2, <2>5, <2>6, <2>7 DEF PackageTypeOK, Row, CyclesAgree
  <1>4. CASE DayPasses
    <2>1. /\ age \in 0..MaxAge /\ age < MaxAge /\ age' = age + 1
          /\ UNCHANGED <<package, cycle_orders, confirmed, refunded, maker, pass>>
      BY <1>4 DEF DayPasses, PackageTypeOK
    <2>2. age' \in 0..MaxAge
      BY <2>1, MaxAgeNat
    <2>3. Row'
      <3>1. package.cycles_created - 1 \in Int /\ interval_days \in Int
        BY PackageAssumption DEF PackageTypeOK, PackageRow
      <3> DEFINE d == (package.cycles_created - 1) * interval_days
      <3>2. d \in Int /\ (d <= age => d <= age')
        BY <2>1, <3>1, MaxAgeNat
      <3> HIDE DEF d
      <3> QED BY <2>1, <3>2 DEF Row, d
    <2> QED BY <2>1, <2>2, <2>3 DEF PackageTypeOK, CyclesAgree, Heard, ConfirmedOnce
  <1> QED BY <1>1, <1>2, <1>3, <1>4, RowIsCreated, CycleIsOrdered
          DEF PackageNext, PackageStep

(* The row, the orders of its cycles and what the customer is told agree,  *)
(* and no box is sent before its day or beyond what was paid for, however  *)
(* many instances found the package due and however many cycles it has.    *)
THEOREM PackageCorrect == PackageSpec => []PackageSafe
  <1>1. PackageInv => NeverEarly
    <2> SUFFICES ASSUME PackageInv PROVE NeverEarly
      OBVIOUS
    <2>1. package.cycles_created \in Nat /\ age \in Nat
      BY PackageAssumption, MaxAgeNat DEF PackageInv, PackageTypeOK, PackageRow
    <2>2. package.status # "none" =>
            package.cycles_created <= 1 + age \div interval_days
      <3> SUFFICES ASSUME package.status # "none"
                   PROVE  package.cycles_created <= 1 + age \div interval_days
        OBVIOUS
      <3>1. (package.cycles_created - 1) * interval_days <= age
        BY DEF PackageInv, Row
      <3> QED BY <2>1, <3>1, DaysPerBox, PackageAssumption
    <2>3. /\ package.cycles_created <= total_cycles
          /\ package.status = "completed" => package.cycles_created = total_cycles
      BY PackageAssumption DEF PackageInv, Row
    <2> QED BY <2>2, <2>3 DEF NeverEarly
  <1>2. PackageInv => PackageSafe
    BY <1>1 DEF PackageInv, PackageSafe
  <1> QED BY <1>2, PackageBegins, PackageKeeps, PTL DEF PackageSpec

(* What was delivered is never taken back.                                 *)
THEOREM CyclesOnlyGrow ==
  PackageSpec => [][package'.cycles_created >= package.cycles_created]_packageVars
  <1> DEFINE Grows == package'.cycles_created >= package.cycles_created
  <1>1. PackageInv /\ [PackageNext]_packageVars => [Grows]_packageVars
    <2> SUFFICES ASSUME PackageInv, [PackageNext]_packageVars PROVE Grows
      BY DEF packageVars
    <2>1. package.cycles_created \in Nat
      BY PackageAssumption DEF PackageInv, PackageTypeOK, PackageRow
    <2>2. CASE package' = package
      BY <2>1, <2>2
    <2>3. ASSUME NEW p \in Triggers \cup Instances, createPackagePurchaseFromOrder(p)
          PROVE  Grows
      BY <2>1, <2>3 DEF createPackagePurchaseFromOrder, OriginIsNew, FirstRow,
         PackageInv, Row
    <2>4. ASSUME NEW i \in Instances, fulfillNextCycle(i), package' # package
          PROVE  Grows
      <3>1. package' = After(package.cycles_created + 1)
        BY <2>4 DEF fulfillNextCycle
      <3>2. package'.cycles_created = package.cycles_created + 1
        BY <3>1 DEF After, PackageInv, PackageTypeOK, PackageRow
      <3> QED BY <2>1, <3>2
    <2> QED BY <2>2, <2>3, <2>4
            DEF PackageNext, PackageStep, LookForPackage, MakerFails, FindMissingPackage,
            findDuePackageIds, notifyFulfillmentOrderCreated, FulfilmentFails,
            PackageIsPaid, DayPasses, OriginIsRefunded, packageVars
  <1> QED BY <1>1, PackageBegins, PackageKeeps, PTL DEF PackageSpec

-----------------------------------------------------------------------------
(* What PackagePromise rests on.                                           *)
(*                                                                         *)
(* A completed package has every box; an active one has a next box, which  *)
(* falls due on a day that is counted, and which whoever finds it due then *)
(* creates: neither the re-check under the lock nor the unique index ever  *)
(* refuses a package that is due. One that has no row yet may be found by  *)
(* every instance that is not after it already.                            *)

NextBoxIsOpen ==
  /\ package.status = "completed" => \A c \in 1..total_cycles : cycle_orders[c] = 1
  /\ package.status = "active" =>
       /\ package.next_fulfillment_date \in 1..MaxAge
       /\ Due => isDue /\ cycle_orders[package.cycles_created + 1] = 0
  /\ \A i \in Instances : maker[i] # "unpaid"

LEMMA MakersAsk ==
  ASSUME PackageTypeOK, [PackageNext]_packageVars, NEW i \in Instances,
         maker[i] # "unpaid"
  PROVE  maker'[i] # "unpaid"
  <1> USE DEF PackageTypeOK, Make
  <1>1. ASSUME NEW p \in Triggers \cup Instances,
               LookForPackage(p) \/ MakerFails(p) \/ createPackagePurchaseFromOrder(p)
        PROVE  maker'[i] # "unpaid"
    BY <1>1 DEF LookForPackage, MakerFails, createPackagePurchaseFromOrder
  <1>2. ASSUME NEW j \in Instances, FindMissingPackage(j)
        PROVE  maker'[i] # "unpaid"
    BY <1>2 DEF FindMissingPackage
  <1>3. CASE PackageIsPaid
    BY <1>3 DEF PackageIsPaid
  <1>4. CASE UNCHANGED maker
    BY <1>4
  <1> QED BY <1>1, <1>2, <1>3, <1>4
          DEF PackageNext, PackageStep, findDuePackageIds, fulfillNextCycle,
              notifyFulfillmentOrderCreated, FulfilmentFails, DayPasses,
              OriginIsRefunded, packageVars

(* The day on which the next box falls due is one of those counted.        *)
LEMMA NextDayIsCounted ==
  ASSUME NEW n \in Nat \ {0}, n < total_cycles
  PROVE  n * interval_days \in 1..MaxAge
  <1>1. /\ total_cycles \in Nat /\ interval_days \in Nat \ {0} /\ MaxLate \in Nat
        /\ n <= total_cycles - 1 /\ n >= 1
    BY PackageAssumption
  <1>2. n * interval_days <= (total_cycles - 1) * interval_days
    BY <1>1
  <1>3. n * interval_days >= 1
    BY <1>1
  <1>4. /\ n * interval_days \in Nat
        /\ (total_cycles - 1) * interval_days \in Nat
    BY <1>1
  <1> DEFINE k == n * interval_days
             m == (total_cycles - 1) * interval_days
  <1> HIDE DEF k, m
  <1>5. k <= m /\ k >= 1 /\ k \in Nat /\ m \in Nat /\ MaxAge = m + MaxLate
    BY <1>2, <1>3, <1>4 DEF k, m, MaxAge
  <1>6. k \in 1..MaxAge
    BY <1>1, <1>5
  <1> QED BY <1>6 DEF k

(* No package comes to rest with a box missing that was paid for.          *)
THEOREM NoBoxIsStuck == PackageSpec => []NextBoxIsOpen
  <1> DEFINE Asking == \A i \in Instances : maker[i] # "unpaid"
  <1>1. PackageInit => Asking
    BY PackageAssumption DEF PackageInit
  <1>2. PackageInv /\ Asking /\ [PackageNext]_packageVars => Asking'
    BY MakersAsk DEF PackageInv
  <1>3. PackageInv /\ Asking => NextBoxIsOpen
    <2> SUFFICES ASSUME PackageInv, Asking PROVE NextBoxIsOpen
      OBVIOUS
    <2>1. /\ package.cycles_created \in Nat /\ total_cycles \in Nat \ {0}
          /\ 1..total_cycles \subseteq Cycles
      BY PackageAssumption DEF PackageInv, PackageTypeOK, PackageRow, Cycles
    <2>2. ASSUME package.status = "completed", NEW c \in 1..total_cycles
          PROVE  cycle_orders[c] = 1
      <3>1. c <= package.cycles_created /\ c \in Cycles
        BY <2>1, <2>2 DEF PackageInv, Row
      <3> QED BY <3>1 DEF PackageInv, CyclesAgree
    <2>3. ASSUME package.status = "active"
          PROVE  /\ package.next_fulfillment_date \in 1..MaxAge
                 /\ package.cycles_created < total_cycles
                 /\ cycle_orders[package.cycles_created + 1] = 0
      <3>1. /\ package.cycles_created \in Nat \ {0}
            /\ package.cycles_created < total_cycles
            /\ package.next_fulfillment_date = package.cycles_created * interval_days
        BY <2>1, <2>3 DEF PackageInv, Row
      <3>2. package.next_fulfillment_date \in 1..MaxAge
        BY <3>1, NextDayIsCounted
      <3>3. package.cycles_created + 1 \in Cycles
        BY <2>1, <3>1 DEF Cycles
      <3> QED BY <3>1, <3>2, <3>3 DEF PackageInv, CyclesAgree
    <2> QED BY <2>2, <2>3 DEF NextBoxIsOpen, isDue
  <1> QED BY <1>1, <1>2, <1>3, PackageBegins, PackageKeeps, PTL DEF PackageSpec
=============================================================================
