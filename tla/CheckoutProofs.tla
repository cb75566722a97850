--------------------------- MODULE CheckoutProofs ---------------------------
(***************************************************************************)
(* Proofs about Checkout, for any finite number of requests with and       *)
(* without the key, any pool, and failures and deaths at every step.       *)
(***************************************************************************)
EXTENDS Checkout, Pricing, FiniteSetTheorems, TLAPS

-----------------------------------------------------------------------------
(* The numbers.                                                            *)
(*                                                                         *)
(* Uniqueness of the numbers is not inductive: an order takes at its       *)
(* COMMIT a number it drew long before. The strengthening says that the    *)
(* counter counts the orders placed, that a request holding a number holds *)
(* the counter's lock too, and that it is the next one.                    *)

NumbersKept ==
  /\ counter = Cardinality(placed)
  /\ \A r \in placed : order_number[r] \in 1..counter
  /\ OrderNumbersUnique
  /\ \A r \in Requests :
       /\ stage[r] \in {"razorpay", "commit"} =>
            counter_lock = r /\ order_number[r] = counter + 1
       /\ r \in placed => stage[r] \in {"completed", "failed", "end"}
       /\ stage[r] = "completed" => r \in placed

NumberInv == CheckoutTypeOK /\ NumbersKept

-----------------------------------------------------------------------------
LEMMA RequestsFinite ==
  /\ IsFiniteSet(Requests) /\ Cardinality(Requests) \in Nat
  /\ NoRequest \notin Requests
  BY CheckoutAssumption, FS_CardinalityType DEF Requests

(* The statements on the key's row.                                        *)
LEMMA KeyRowTyped ==
  /\ \A k \in KeyRow :
       /\ [k EXCEPT !.status = "processing"] \in KeyRow
       /\ [k EXCEPT !.status = "processing", !.stale = FALSE] \in KeyRow
       /\ [k EXCEPT !.status = "failed", !.stale = FALSE] \in KeyRow
       /\ [k EXCEPT !.stale = TRUE] \in KeyRow
  /\ \A r \in Requests : CompletedBy(r) \in KeyRow
  BY DEF KeyRow, CompletedBy

(* There is a number for a request that has not placed its order.          *)
LEMMA RoomForOneMore ==
  ASSUME NumberInv, NEW r \in Requests, r \notin placed
  PROVE  /\ Cardinality(placed \cup {r}) = counter + 1
         /\ counter + 1 \in 1..Cardinality(Requests)
  <1>1. placed \cup {r} \subseteq Requests /\ counter = Cardinality(placed)
    BY DEF NumberInv, CheckoutTypeOK, NumbersKept
  <1>2. IsFiniteSet(placed)
    BY <1>1, RequestsFinite, FS_Subset
  <1>3. Cardinality(placed \cup {r}) = counter + 1
    BY <1>1, <1>2, FS_AddElement
  <1>4. Cardinality(placed \cup {r}) <= Cardinality(Requests)
    BY <1>1, RequestsFinite, FS_Subset
  <1>5. counter \in Nat
    BY <1>1, <1>2, FS_CardinalityType
  <1> QED BY <1>3, <1>4, <1>5, RequestsFinite

LEMMA NumberInit == CheckoutInit => NumberInv
  <1> SUFFICES ASSUME CheckoutInit PROVE NumberInv
    OBVIOUS
  <1>1. CheckoutTypeOK
    <2>1. [status |-> "none", stale |-> FALSE, order |-> NoRequest] \in KeyRow
      BY DEF KeyRow
    <2>2. 0 \in 0..Cardinality(Requests)
      BY RequestsFinite
    <2>3. /\ stage \in [Requests -> Stage]
          /\ order_number \in [Requests -> 0..Cardinality(Requests)]
      BY <2>2 DEF CheckoutInit, Stage
    <2> QED BY <2>1, <2>2, <2>3 DEF CheckoutInit, CheckoutTypeOK
  <1>2. NumbersKept
    BY FS_EmptySet DEF CheckoutInit, NumbersKept, OrderNumbersUnique
  <1> QED BY <1>1, <1>2 DEF NumberInv

(* Types; the numbers stay within the number of requests by the counting.  *)
LEMMA TypeStep == NumberInv /\ [CheckoutNext]_checkoutVars => CheckoutTypeOK'
  <1> SUFFICES ASSUME NumberInv, [CheckoutNext]_checkoutVars
               PROVE  CheckoutTypeOK'
    OBVIOUS
  <1> USE DEF CheckoutTypeOK
  <1>1. CheckoutTypeOK /\ NumbersKept
    BY DEF NumberInv
  <1>2. ASSUME NEW r \in Requests, LookForPendingOrder(r) PROVE CheckoutTypeOK'
    BY <1>1, <1>2 DEF LookForPendingOrder, To, Stage
  <1>3. ASSUME NEW r \in Requests, CheckoutStep(r) PROVE CheckoutTypeOK'
    <2>1. CASE InsertKey(r)
      BY <1>1, <2>1, KeyRowTyped DEF InsertKey, To, Stage
    <2>2. CASE ReplayOrGoOn(r)
      BY <1>1, <2>2 DEF ReplayOrGoOn, To, Stage
    <2>3. CASE ReclaimKey(r)
      BY <1>1, <2>3, KeyRowTyped DEF ReclaimKey, To, Stage
    <2>4. CASE getClient(r)
      BY <1>1, <2>4 DEF getClient, To, Stage
    <2>5. CASE getNextOrderNumber(r)
      <3>1. r \notin placed
        BY <1>1, <2>5 DEF getNextOrderNumber, At, NumbersKept
      <3>2. counter + 1 \in 0..Cardinality(Requests)
        <4>1. counter + 1 \in 1..Cardinality(Requests)
          BY <3>1, RoomForOneMore
        <4> QED BY <4>1, RequestsFinite
      <3> QED BY <1>1, <2>5, <3>2 DEF getNextOrderNumber, To, Stage
    <2>6. CASE CreateRazorpayOrder(r)
      BY <1>1, <2>6 DEF CreateRazorpayOrder, To, Stage
    <2>7. CASE CommitOrder(r)
      BY <1>1, <2>7 DEF CommitOrder, To, Stage, Unlocked
    <2>8. CASE markCheckoutIdempotencyCompleted(r)
      BY <1>1, <2>8, KeyRowTyped
      DEF markCheckoutIdempotencyCompleted, To, Stage
    <2>9. CASE markCheckoutIdempotencyFailed(r)
      BY <1>1, <2>9, KeyRowTyped
      DEF markCheckoutIdempotencyFailed, To, Stage
    <2> QED
      BY <1>3, <2>1, <2>2, <2>3, <2>4, <2>5, <2>6, <2>7, <2>8, <2>9
      DEF CheckoutStep
  <1>4. ASSUME NEW r \in Requests, CheckoutFault(r) PROVE CheckoutTypeOK'
    <2>1. CASE RollBack(r)
      BY <1>1, <2>1, RequestsFinite DEF RollBack, To, Stage, Unlocked
    <2>2. CASE MarkThrows(r)
      BY <1>1, <2>2 DEF MarkThrows, To, Stage
    <2>3. CASE CommitAnswerLost(r)
      BY <1>1, <2>3 DEF CommitAnswerLost, To, Stage, Unlocked
    <2>4. CASE RequestDies(r)
      BY <1>1, <2>4, RequestsFinite DEF RequestDies, To, Stage, Unlocked
    <2> QED BY <1>4, <2>1, <2>2, <2>3, <2>4 DEF CheckoutFault
  <1>5. ASSUME NEW r \in Requests, PendingOrderEnds(r) PROVE CheckoutTypeOK'
    BY <1>1, <1>5 DEF PendingOrderEnds
  <1>6. CASE ClaimGoesStale
    BY <1>1, <1>6, KeyRowTyped DEF ClaimGoesStale
  <1>7. CASE UNCHANGED checkoutVars
    BY <1>1, <1>7 DEF checkoutVars
  <1> QED BY <1>2, <1>3, <1>4, <1>5, <1>6, <1>7 DEF CheckoutNext

(* A step that draws and places nothing.                                   *)
LEMMA NumbersStay ==
  ASSUME CheckoutTypeOK, NumbersKept, NEW r \in Requests,
         NEW s \in Stage \ {"razorpay", "commit", "completed"},
         stage' = [stage EXCEPT ![r] = s],
         r \in placed => s \in {"failed", "end"},
         \A q \in Requests : q # r => order_number'[q] = order_number[q],
         r \in placed => order_number'[r] = order_number[r],
         counter_lock' = counter_lock \/ counter_lock' = Unlocked(r),
         UNCHANGED <<counter, placed>>
  PROVE  NumbersKept'
  <1>1. \A q \in placed : order_number'[q] = order_number[q]
    BY DEF CheckoutTypeOK
  <1>2. OrderNumbersUnique'
    BY <1>1 DEF NumbersKept, OrderNumbersUnique
  <1>3. ASSUME NEW q \in Requests
        PROVE  /\ stage'[q] \in {"razorpay", "commit"} =>
                    counter_lock' = q /\ order_number'[q] = counter' + 1
               /\ q \in placed' => stage'[q] \in {"completed", "failed", "end"}
               /\ stage'[q] = "completed" => q \in placed'
    BY DEF CheckoutTypeOK, NumbersKept, Unlocked
  <1> QED BY <1>1, <1>2, <1>3 DEF NumbersKept

LEMMA NumbersStep == NumberInv /\ [CheckoutNext]_checkoutVars => NumbersKept'
  <1> SUFFICES ASSUME NumberInv, [CheckoutNext]_checkoutVars
               PROVE  NumbersKept'
    OBVIOUS
  <1>1. CheckoutTypeOK /\ NumbersKept
    BY DEF NumberInv
  <1>2. UNCHANGED <<stage, counter, counter_lock, order_number, placed>> =>
          NumbersKept'
    BY <1>1 DEF NumbersKept, OrderNumbersUnique
  <1>3. ASSUME NEW r \in Requests, getNextOrderNumber(r) PROVE NumbersKept'
    <2>1. /\ stage' = [stage EXCEPT ![r] = "razorpay"] /\ stage[r] = "number"
          /\ counter_lock = NoRequest /\ counter_lock' = r
          /\ order_number' = [order_number EXCEPT ![r] = counter + 1]
          /\ UNCHANGED <<counter, placed>>
      BY <1>3 DEF getNextOrderNumber, CounterAvailable, At, To
    <2>2. r \notin placed
      BY <1>1, <2>1 DEF NumbersKept
    <2>3. \A q \in Requests : stage[q] \notin {"razorpay", "commit"}
      BY <1>1, <2>1, RequestsFinite DEF NumbersKept
    <2>4. \A q \in placed : order_number'[q] = order_number[q]
      BY <1>1, <2>1, <2>2 DEF CheckoutTypeOK
    <2>5. OrderNumbersUnique'
      BY <1>1, <2>1, <2>4 DEF NumbersKept, OrderNumbersUnique
    <2> QED
      BY <1>1, <2>1, <2>2, <2>3, <2>4, <2>5 DEF NumbersKept, CheckoutTypeOK
  <1>4. ASSUME NEW r \in Requests, CreateRazorpayOrder(r) PROVE NumbersKept'
    <2>1. /\ stage' = [stage EXCEPT ![r] = "commit"] /\ stage[r] = "razorpay"
          /\ UNCHANGED <<counter, counter_lock, order_number, placed>>
      BY <1>4 DEF CreateRazorpayOrder, At, To
    <2>2. OrderNumbersUnique'
      BY <1>1, <2>1 DEF NumbersKept, OrderNumbersUnique
    <2> QED BY <1>1, <2>1, <2>2 DEF NumbersKept, CheckoutTypeOK
  <1>5. ASSUME NEW r \in Requests, CommitOrder(r) \/ CommitAnswerLost(r)
        PROVE  NumbersKept'
    <2>1. /\ stage[r] = "commit" /\ placed' = placed \cup {r}
          /\ counter' = order_number[r] /\ UNCHANGED order_number
          /\ counter_lock' = Unlocked(r)
          /\ \E s \in {"completed", "failed", "end"} :
               stage' = [stage EXCEPT ![r] = s]
      BY <1>5 DEF CommitOrder, CommitAnswerLost, At, To
    <2>2. /\ r \notin placed /\ order_number[r] = counter + 1
          /\ \A q \in Requests :
               q # r => stage[q] \notin {"razorpay", "commit"}
      BY <1>1, <2>1 DEF NumbersKept
    <2>3. /\ Cardinality(placed') = counter'
          /\ counter \in Nat /\ counter' = counter + 1
      BY <1>1, <2>1, <2>2, RoomForOneMore, RequestsFinite
      DEF CheckoutTypeOK
    <2>4. \A q \in placed' : order_number'[q] \in 1..counter'
      BY <1>1, <2>1, <2>2, <2>3 DEF NumbersKept
    <2>5. OrderNumbersUnique'
      <3>1. \A q \in placed : order_number'[q] # order_number'[r]
        BY <1>1, <2>1, <2>2, <2>3 DEF NumbersKept
      <3> QED BY <1>1, <2>1, <3>1 DEF NumbersKept, OrderNumbersUnique
    <2>6. \A q \in Requests : q # r => stage'[q] = stage[q]
      BY <1>1, <2>1 DEF CheckoutTypeOK
    <2>7. stage'[r] \in {"completed", "failed", "end"}
      BY <1>1, <2>1 DEF CheckoutTypeOK
    <2>8. ASSUME NEW q \in Requests
          PROVE  /\ stage'[q] \notin {"razorpay", "commit"}
                 /\ q \in placed' => stage'[q] \in {"completed", "failed", "end"}
                 /\ stage'[q] = "completed" => q \in placed'
      BY <1>1, <2>1, <2>2, <2>6, <2>7 DEF NumbersKept
    <2> QED BY <2>3, <2>4, <2>5, <2>8 DEF NumbersKept
  <1>6. ASSUME NEW r \in Requests, LookForPendingOrder(r) \/ ReplayOrGoOn(r)
                 \/ InsertKey(r) \/ ReclaimKey(r) \/ getClient(r)
        PROVE  NumbersKept'
    <2>1. /\ stage[r] \in {"idle", "claim", "look", "reclaim", "connect"}
          /\ UNCHANGED <<counter, counter_lock, order_number, placed>>
          /\ \E s \in Stage \ {"razorpay", "commit", "completed"} :
               stage' = [stage EXCEPT ![r] = s]
      BY <1>6 DEF LookForPendingOrder, ReplayOrGoOn, InsertKey, ReclaimKey,
                  getClient, At, To, Stage
    <2>2. r \notin placed
      BY <1>1, <2>1 DEF NumbersKept
    <2> QED BY <1>1, <2>1, <2>2, NumbersStay
  <1>7. ASSUME NEW r \in Requests, markCheckoutIdempotencyCompleted(r)
                 \/ markCheckoutIdempotencyFailed(r) \/ MarkThrows(r)
        PROVE  NumbersKept'
    <2>1. /\ UNCHANGED <<counter, counter_lock, order_number, placed>>
          /\ stage' = [stage EXCEPT ![r] = "end"]
      BY <1>7 DEF markCheckoutIdempotencyCompleted,
                  markCheckoutIdempotencyFailed, MarkThrows, To
    <2>2. "end" \in Stage \ {"razorpay", "commit", "completed"}
      BY DEF Stage
    <2> QED BY <1>1, <2>1, <2>2, NumbersStay
  <1>8. ASSUME NEW r \in Requests, RollBack(r) PROVE NumbersKept'
    <2>1. /\ stage[r] \in {"number", "razorpay", "commit"}
          /\ UNCHANGED <<counter, placed>> /\ counter_lock' = Unlocked(r)
          /\ order_number' = [order_number EXCEPT ![r] = 0]
          /\ \E s \in {"failed", "end"} : stage' = [stage EXCEPT ![r] = s]
      BY <1>8 DEF RollBack, To
    <2>2. r \notin placed
      BY <1>1, <2>1 DEF NumbersKept
    <2>3. \A q \in Requests : q # r => order_number'[q] = order_number[q]
      BY <1>1, <2>1 DEF CheckoutTypeOK
    <2>4. {"failed", "end"} \subseteq Stage \ {"razorpay", "commit", "completed"}
      BY DEF Stage
    <2> QED BY <1>1, <2>1, <2>2, <2>3, <2>4, NumbersStay
  <1>9. ASSUME NEW r \in Requests, RequestDies(r) PROVE NumbersKept'
    <2>1. /\ UNCHANGED <<counter, placed>> /\ counter_lock' = Unlocked(r)
          /\ stage' = [stage EXCEPT ![r] = "end"]
          /\ order_number' = [order_number EXCEPT
                                ![r] = IF r \in placed THEN @ ELSE 0]
      BY <1>9 DEF RequestDies, To
    <2>2. /\ \A q \in Requests : q # r => order_number'[q] = order_number[q]
          /\ r \in placed => order_number'[r] = order_number[r]
      BY <1>1, <2>1 DEF CheckoutTypeOK
    <2>3. "end" \in Stage \ {"razorpay", "commit", "completed"}
      BY DEF Stage
    <2> QED BY <1>1, <2>1, <2>2, <2>3, NumbersStay
  <1>10. CASE \/ \E r \in Requests : PendingOrderEnds(r)
              \/ ClaimGoesStale \/ UNCHANGED checkoutVars
    BY <1>2, <1>10 DEF PendingOrderEnds, ClaimGoesStale, checkoutVars
  <1> QED
    BY <1>3, <1>4, <1>5, <1>6, <1>7, <1>8, <1>9, <1>10
    DEF CheckoutNext, CheckoutStep, CheckoutFault

LEMMA NumberStep == NumberInv /\ [CheckoutNext]_checkoutVars => NumberInv'
  BY TypeStep, NumbersStep DEF NumberInv

(* The variables of the checkout hold values of their types; in particular *)
(* no more numbers are drawn than there are requests.                      *)
THEOREM CheckoutTyped == CheckoutSpec => []CheckoutTypeOK
  <1>1. NumberInv => CheckoutTypeOK
    BY DEF NumberInv
  <1> QED BY <1>1, NumberInit, NumberStep, PTL DEF CheckoutSpec

(* No two orders get the same number, though a number is drawn long before *)
(* the order that bears it is committed, and rolled back numbers are drawn *)
(* again.                                                                  *)
THEOREM NumbersNeverCollide == CheckoutSpec => []OrderNumbersUnique
  <1>1. NumberInv => OrderNumbersUnique
    BY DEF NumberInv, NumbersKept
  <1> QED BY <1>1, NumberInit, NumberStep, PTL DEF CheckoutSpec

-----------------------------------------------------------------------------
(* The key.                                                                *)
(*                                                                         *)
(* That the key places one order is not inductive: a request that took the *)
(* key before another did would place a second. The strengthening says     *)
(* that, as long as nothing was lost, the row is "processing" and fresh    *)
(* while a request holds the key, that one does at a time, and that after  *)
(* an order is placed the row is completed or its owner about to do so.    *)

KeyAnswered ==
  /\ \A r \in Requests : HoldsKey(r) =>
       key_row.status = "processing" /\ ~key_row.stale
  /\ \A r, s \in Requests : HoldsKey(r) /\ HoldsKey(s) => r = s
  /\ \A r \in placed \cap Keyed :
       key_row.status = "completed" \/ stage[r] = "completed"
  /\ \A r, s \in placed \cap Keyed : r = s

KeyedStages ==
  \A r \in Requests :
    stage[r] \in {"claim", "look", "reclaim", "completed", "failed"} => r \in Keyed

KeyInv ==
  /\ NumberInv /\ ReplayExists
  /\ key_row.status = "none" => ~key_row.stale
  /\ KeyedStages /\ (~lost => KeyAnswered)

LEMMA KeyInit == CheckoutInit => KeyInv
  <1> SUFFICES ASSUME CheckoutInit PROVE KeyInv
    OBVIOUS
  <1>1. KeyAnswered /\ KeyedStages
    BY DEF CheckoutInit, KeyAnswered, KeyedStages, HoldsKey, HasConnection, At
  <1> QED BY <1>1, NumberInit DEF CheckoutInit, KeyInv, ReplayExists

(* The columns of the key's row after each statement.                      *)
LEMMA KeyRowColumns ==
  ASSUME NEW k \in KeyRow, NEW s
  PROVE  /\ LET n == [k EXCEPT !.status = s, !.stale = FALSE]
            IN  n.status = s /\ n.stale = FALSE /\ n.order = k.order
         /\ LET n == [k EXCEPT !.status = s]
            IN  n.status = s /\ n.stale = k.stale /\ n.order = k.order
         /\ LET n == [k EXCEPT !.stale = TRUE]
            IN  n.status = k.status /\ n.stale = TRUE /\ n.order = k.order
  BY DEF KeyRow

(* A request that goes on, or ends, without taking the key.                *)
LEMMA KeyStays ==
  ASSUME CheckoutTypeOK, KeyAnswered, NEW r \in Requests, NEW s \in Stage,
         stage' = [stage EXCEPT ![r] = s],
         HoldsKey(r)' => HoldsKey(r), stage[r] # "completed",
         UNCHANGED key_row, placed' \cap Keyed = placed \cap Keyed
  PROVE  KeyAnswered'
  <1>1. \A q \in Requests : q # r => stage'[q] = stage[q]
    BY DEF CheckoutTypeOK
  <1>2. \A q \in Requests : HoldsKey(q)' => HoldsKey(q)
    BY <1>1 DEF HoldsKey, HasConnection, At
  <1>3. \A q \in Requests : stage[q] = "completed" => stage'[q] = "completed"
    BY <1>1
  <1>4. placed \cap Keyed \subseteq Requests
    BY DEF CheckoutTypeOK
  <1> QED BY <1>2, <1>3, <1>4 DEF KeyAnswered

(* The key is taken when nobody has it and no order was placed under it.   *)
LEMMA KeyIsTaken ==
  ASSUME CheckoutTypeOK, KeyAnswered, NEW r \in Requests,
         key_row.status # "completed",
         key_row.status # "processing" \/ key_row.stale,
         stage' = [stage EXCEPT ![r] = "connect"],
         key_row'.status = "processing", ~key_row'.stale, UNCHANGED placed
  PROVE  KeyAnswered'
  <1>1. \A q \in Requests : ~HoldsKey(q)
    BY DEF KeyAnswered
  <1>2. placed \cap Keyed = {}
    BY <1>1 DEF CheckoutTypeOK, KeyAnswered, HoldsKey, HasConnection
  <1>3. \A q \in Requests : q # r => stage'[q] = stage[q]
    BY DEF CheckoutTypeOK
  <1>4. \A q \in Requests : HoldsKey(q)' => q = r
    BY <1>1, <1>3 DEF HoldsKey, HasConnection, At
  <1> QED BY <1>2, <1>4 DEF KeyAnswered

LEMMA AnsweredStep ==
  ASSUME KeyInv, KeyAnswered, ~lost', [CheckoutNext]_checkoutVars
  PROVE  KeyAnswered'
  <1>1. /\ CheckoutTypeOK /\ NumbersKept /\ KeyedStages /\ key_row \in KeyRow
        /\ key_row.status = "none" => ~key_row.stale
    BY DEF KeyInv, NumberInv, CheckoutTypeOK
  <1>2. UNCHANGED <<stage, key_row, placed>> => KeyAnswered'
    BY DEF KeyAnswered, HoldsKey, HasConnection, At
  <1>3. \A r \in Requests : stage[r] \in Stage
    BY <1>1 DEF CheckoutTypeOK
  <1>4. ASSUME NEW r \in Requests, InsertKey(r) PROVE KeyAnswered'
    <2>1. CASE key_row.status = "none"
      <3>1. /\ key_row' = [key_row EXCEPT !.status = "processing"]
            /\ stage' = [stage EXCEPT ![r] = "connect"] /\ UNCHANGED placed
        BY <1>4, <2>1 DEF InsertKey, To
      <3>2. key_row'.status = "processing" /\ key_row'.stale = key_row.stale
        BY <1>1, <3>1, KeyRowColumns
      <3> QED BY <1>1, <2>1, <3>1, <3>2, KeyIsTaken
    <2>2. CASE key_row.status # "none"
      <3>1. /\ stage' = [stage EXCEPT ![r] = "look"] /\ stage[r] = "claim"
            /\ UNCHANGED <<key_row, placed>>
        BY <1>4, <2>2 DEF InsertKey, To, At
      <3>2. ~HoldsKey(r)' /\ "look" \in Stage
        BY <1>1, <3>1 DEF CheckoutTypeOK, HoldsKey, HasConnection, At, Stage
      <3> QED BY <1>1, <3>1, <3>2, KeyStays
    <2> QED BY <2>1, <2>2
  <1>5. ASSUME NEW r \in Requests, ReclaimKey(r) PROVE KeyAnswered'
    <2>1. CASE Reclaimable
      <3>1. /\ key_row' = [key_row EXCEPT !.status = "processing", !.stale = FALSE]
            /\ stage' = [stage EXCEPT ![r] = "connect"] /\ UNCHANGED placed
        BY <1>5, <2>1 DEF ReclaimKey, To
      <3>2. key_row'.status = "processing" /\ ~key_row'.stale
        BY <1>1, <3>1, KeyRowColumns
      <3> QED BY <1>1, <2>1, <3>1, <3>2, KeyIsTaken DEF Reclaimable
    <2>2. CASE ~Reclaimable
      <3>1. /\ stage' = [stage EXCEPT ![r] = "end"] /\ stage[r] = "reclaim"
            /\ UNCHANGED <<key_row, placed>>
        BY <1>5, <2>2 DEF ReclaimKey, To, At
      <3>2. ~HoldsKey(r)' /\ "end" \in Stage
        BY <1>1, <3>1 DEF CheckoutTypeOK, HoldsKey, HasConnection, At, Stage
      <3> QED BY <1>1, <3>1, <3>2, KeyStays
    <2> QED BY <2>1, <2>2
  <1>6. ASSUME NEW r \in Requests,
               \/ LookForPendingOrder(r) \/ ReplayOrGoOn(r)
        PROVE  KeyAnswered'
    <2>1. PICK s \in Stage : stage' = [stage EXCEPT ![r] = s]
      BY <1>6 DEF LookForPendingOrder, ReplayOrGoOn, To, Stage
    <2>2. /\ s \in {"end", "claim", "reclaim"} \/ (s = "connect" /\ r \notin Keyed)
          /\ stage[r] \in {"idle", "look"} /\ UNCHANGED <<key_row, placed>>
      BY <1>1, <1>6, <2>1 DEF CheckoutTypeOK, LookForPendingOrder, ReplayOrGoOn,
                              To, At
    <2>3. ~HoldsKey(r)'
      BY <1>1, <2>1, <2>2 DEF CheckoutTypeOK, HoldsKey, HasConnection, At
    <2> QED BY <1>1, <2>1, <2>2, <2>3, KeyStays
  <1>7. ASSUME NEW r \in Requests,
               \/ getClient(r) \/ getNextOrderNumber(r)
               \/ CreateRazorpayOrder(r) \/ RollBack(r)
        PROVE  KeyAnswered'
    <2>1. PICK s \in Stage : stage' = [stage EXCEPT ![r] = s]
      BY <1>7 DEF getClient, getNextOrderNumber, CreateRazorpayOrder, RollBack,
                  To, Stage
    <2>2. /\ stage[r] \in {"connect", "number", "razorpay", "commit"}
          /\ UNCHANGED <<key_row, placed>>
      BY <1>7 DEF getClient, getNextOrderNumber, CreateRazorpayOrder, RollBack, At
    <2>3. HoldsKey(r)' => HoldsKey(r)
      BY <2>2 DEF HoldsKey, HasConnection, At
    <2> QED BY <1>1, <2>1, <2>2, <2>3, KeyStays
  <1>8. ASSUME NEW r \in Requests, CommitOrder(r) PROVE KeyAnswered'
    <2>1. /\ stage[r] = "commit" /\ placed' = placed \cup {r}
          /\ stage' = [stage EXCEPT ![r] = IF r \in Keyed THEN "completed" ELSE "end"]
          /\ UNCHANGED key_row
      BY <1>8 DEF CommitOrder, At, To
    <2>2. CASE r \notin Keyed
      <3>1. placed' \cap Keyed = placed \cap Keyed
        BY <2>1, <2>2
      <3>2. ~HoldsKey(r)' /\ "end" \in Stage
        BY <2>2 DEF HoldsKey, Stage
      <3>3. stage' = [stage EXCEPT ![r] = "end"]
        BY <2>1, <2>2
      <3> QED BY <1>1, <2>1, <3>1, <3>2, <3>3, KeyStays
    <2>3. CASE r \in Keyed
      <3>1. HoldsKey(r) /\ key_row.status = "processing" /\ ~key_row.stale
        BY <2>1, <2>3 DEF HoldsKey, HasConnection, KeyAnswered
      <3>2. ASSUME NEW q \in placed \cap Keyed PROVE FALSE
        <4>1. q \in Requests /\ stage[q] = "completed"
          BY <1>1, <3>1 DEF CheckoutTypeOK, KeyAnswered
        <4>2. HoldsKey(q)
          BY <4>1 DEF HoldsKey, HasConnection
        <4> QED BY <2>1, <3>1, <4>1, <4>2 DEF KeyAnswered
      <3>3. placed' \cap Keyed = {r}
        BY <2>1, <2>3, <3>2
      <3>4. /\ stage'[r] = "completed"
            /\ \A q \in Requests : q # r => stage'[q] = stage[q]
        BY <1>1, <2>1, <2>3 DEF CheckoutTypeOK
      <3>5. \A q \in Requests : HoldsKey(q)' => q = r
        BY <3>1, <3>4 DEF HoldsKey, HasConnection, At, KeyAnswered
      <3> QED BY <2>1, <3>1, <3>3, <3>4, <3>5 DEF KeyAnswered
    <2> QED BY <2>2, <2>3
  <1>9. ASSUME NEW r \in Requests, markCheckoutIdempotencyCompleted(r)
                 \/ markCheckoutIdempotencyFailed(r)
        PROVE  KeyAnswered'
    <2>1. /\ stage[r] \in {"completed", "failed"}
          /\ stage' = [stage EXCEPT ![r] = "end"] /\ UNCHANGED placed
      BY <1>9 DEF markCheckoutIdempotencyCompleted,
                  markCheckoutIdempotencyFailed, At, To
    <2>2. HoldsKey(r)
      BY <1>1, <2>1 DEF KeyedStages, HoldsKey, HasConnection
    <2>3. /\ stage'[r] = "end"
          /\ \A q \in Requests : q # r => stage'[q] = stage[q]
      BY <1>1, <2>1 DEF CheckoutTypeOK
    <2>4. \A q \in Requests : ~HoldsKey(q)'
      BY <2>2, <2>3 DEF HoldsKey, HasConnection, At, KeyAnswered
    <2>5. CASE stage[r] = "completed"
      <3>1. key_row'.status = "completed"
        BY <1>9, <2>5
        DEF markCheckoutIdempotencyCompleted, markCheckoutIdempotencyFailed,
            CompletedBy, At
      <3> QED BY <2>1, <2>4, <3>1 DEF KeyAnswered
    <2>6. CASE stage[r] = "failed"
      <3>1. ASSUME NEW q \in placed \cap Keyed PROVE FALSE
        <4>1. q \in Requests /\ stage[q] = "completed"
          BY <1>1, <2>2 DEF CheckoutTypeOK, KeyAnswered
        <4>2. HoldsKey(q)
          BY <4>1 DEF HoldsKey, HasConnection
        <4> QED BY <2>2, <2>6, <4>1, <4>2 DEF KeyAnswered
      <3> QED BY <2>1, <2>4, <3>1 DEF KeyAnswered
    <2> QED BY <2>1, <2>5, <2>6
  <1>10. ASSUME NEW r \in Requests,
                MarkThrows(r) \/ RequestDies(r) \/ CommitAnswerLost(r)
         PROVE  KeyAnswered'
    <2>1. PICK s \in Stage : stage' = [stage EXCEPT ![r] = s]
      BY <1>10 DEF MarkThrows, RequestDies, CommitAnswerLost, To, Stage
    <2>2. /\ s = "end" \/ r \notin Keyed
          /\ stage[r] # "completed" /\ UNCHANGED key_row
      BY <1>1, <1>10, <2>1
      DEF CheckoutTypeOK, MarkThrows, RequestDies, CommitAnswerLost, To, At
    <2>3. placed' \cap Keyed = placed \cap Keyed
      BY <1>10 DEF MarkThrows, RequestDies, CommitAnswerLost
    <2>4. ~HoldsKey(r)'
      BY <1>1, <2>1, <2>2 DEF CheckoutTypeOK, HoldsKey, HasConnection, At
    <2> QED BY <1>1, <2>1, <2>2, <2>3, <2>4, KeyStays
  <1>11. CASE ClaimGoesStale
    <2>1. /\ key_row' = [key_row EXCEPT !.stale = TRUE]
          /\ UNCHANGED <<stage, placed>>
          /\ \A r \in Requests : ~HoldsKey(r)
      BY <1>11 DEF ClaimGoesStale
    <2>2. key_row'.status = key_row.status
      BY <1>1, <2>1, KeyRowColumns
    <2> QED BY <2>1, <2>2 DEF KeyAnswered, HoldsKey, HasConnection, At
  <1>12. CASE (\E r \in Requests : PendingOrderEnds(r)) \/ UNCHANGED checkoutVars
    BY <1>2, <1>12 DEF PendingOrderEnds, checkoutVars
  <1> QED
    BY <1>4, <1>5, <1>6, <1>7, <1>8, <1>9, <1>10, <1>11, <1>12
    DEF CheckoutNext, CheckoutStep, CheckoutFault

LEMMA KeyedStep ==
  ASSUME CheckoutTypeOK, KeyedStages, [CheckoutNext]_checkoutVars
  PROVE  KeyedStages'
  <1> USE DEF KeyedStages
  <1>1. ASSUME NEW r \in Requests, NEW s \in Stage,
               stage' = [stage EXCEPT ![r] = s],
               s \in {"claim", "look", "reclaim", "completed", "failed"} =>
                 r \in Keyed
        PROVE  KeyedStages'
    BY <1>1 DEF CheckoutTypeOK
  <1>2. ASSUME NEW r \in Requests, LookForPendingOrder(r) PROVE KeyedStages'
    <2>1. PICK s \in {"end", IF r \in Keyed THEN "claim" ELSE "connect"} :
            stage' = [stage EXCEPT ![r] = s]
      BY <1>2 DEF LookForPendingOrder, To
    <2> QED BY <1>1, <2>1 DEF Stage
  <1>3. ASSUME NEW r \in Requests, InsertKey(r) \/ ReplayOrGoOn(r) \/ ReclaimKey(r)
        PROVE  KeyedStages'
    <2>1. /\ r \in Keyed
          /\ \E s \in {"connect", "look", "end", "reclaim"} :
               stage' = [stage EXCEPT ![r] = s]
      BY <1>3 DEF InsertKey, ReplayOrGoOn, ReclaimKey, At, To
    <2>2. {"connect", "look", "end", "reclaim"} \subseteq Stage
      BY DEF Stage
    <2> QED BY <1>1, <2>1, <2>2
  <1>4. ASSUME NEW r \in Requests,
               \/ getClient(r) \/ getNextOrderNumber(r) \/ CreateRazorpayOrder(r)
        PROVE  KeyedStages'
    <2>1. \E s \in {"number", "razorpay", "commit"} :
            stage' = [stage EXCEPT ![r] = s]
      BY <1>4 DEF getClient, getNextOrderNumber, CreateRazorpayOrder, To
    <2>2. {"number", "razorpay", "commit"} \subseteq Stage
      BY DEF Stage
    <2> QED BY <1>1, <2>1, <2>2
  <1>5. ASSUME NEW r \in Requests,
               CommitOrder(r) \/ RollBack(r) \/ CommitAnswerLost(r)
        PROVE  KeyedStages'
    <2>1. \/ r \in Keyed /\ stage' = [stage EXCEPT ![r] = "completed"]
          \/ r \in Keyed /\ stage' = [stage EXCEPT ![r] = "failed"]
          \/ stage' = [stage EXCEPT ![r] = "end"]
      BY <1>5 DEF CommitOrder, RollBack, CommitAnswerLost, To
    <2>2. {"completed", "failed", "end"} \subseteq Stage
      BY DEF Stage
    <2> QED BY <1>1, <2>1, <2>2
  <1>6. ASSUME NEW r \in Requests,
               \/ markCheckoutIdempotencyCompleted(r)
               \/ markCheckoutIdempotencyFailed(r)
               \/ MarkThrows(r) \/ RequestDies(r)
        PROVE  KeyedStages'
    <2>1. stage' = [stage EXCEPT ![r] = "end"]
      BY <1>6 DEF markCheckoutIdempotencyCompleted,
                  markCheckoutIdempotencyFailed, MarkThrows, RequestDies, To
    <2> QED BY <1>1, <2>1 DEF Stage
  <1>7. CASE \/ \E r \in Requests : PendingOrderEnds(r)
             \/ ClaimGoesStale \/ UNCHANGED checkoutVars
    BY <1>7 DEF PendingOrderEnds, ClaimGoesStale, checkoutVars
  <1> QED
    BY <1>2, <1>3, <1>4, <1>5, <1>6, <1>7
    DEF CheckoutNext, CheckoutStep, CheckoutFault

(* What was lost is lost, and what was placed is placed.                   *)
LEMMA NothingIsTakenBack ==
  ASSUME CheckoutTypeOK, [CheckoutNext]_checkoutVars
  PROVE  (lost => lost') /\ placed \subseteq placed'
  <1>1. UNCHANGED lost => (lost => lost')
    OBVIOUS
  <1>2. ASSUME NEW r \in Requests, CheckoutFault(r)
        PROVE  (lost => lost') /\ placed \subseteq placed'
    <2>1. CASE RollBack(r)
      BY <2>1 DEF RollBack
    <2>2. CASE MarkThrows(r)
      BY <2>2 DEF MarkThrows
    <2>3. CASE CommitAnswerLost(r)
      BY <2>3 DEF CommitAnswerLost
    <2>4. CASE RequestDies(r)
      BY <2>4 DEF RequestDies
    <2> QED BY <1>2, <2>1, <2>2, <2>3, <2>4 DEF CheckoutFault
  <1>3. CASE ClaimGoesStale
    BY <1>3 DEF ClaimGoesStale
  <1>4. ASSUME NEW r \in Requests,
               LookForPendingOrder(r) \/ CheckoutStep(r) \/ PendingOrderEnds(r)
        PROVE  UNCHANGED lost /\ placed \subseteq placed'
    BY <1>4
    DEF LookForPendingOrder, CheckoutStep, PendingOrderEnds, InsertKey,
        ReplayOrGoOn, ReclaimKey, getClient, getNextOrderNumber,
        CreateRazorpayOrder, CommitOrder, markCheckoutIdempotencyCompleted,
        markCheckoutIdempotencyFailed
  <1>5. CASE UNCHANGED checkoutVars
    BY <1>5 DEF checkoutVars
  <1> QED BY <1>1, <1>2, <1>3, <1>4, <1>5 DEF CheckoutNext

(* What a step does to the key's row.                                      *)
LEMMA KeyRowMoves ==
  ASSUME NumberInv, [CheckoutNext]_checkoutVars
  PROVE  \/ UNCHANGED key_row
         \/ key_row'.status \in {"processing", "failed"}
         \/ \E r \in placed : key_row' = CompletedBy(r)
  <1> DEFINE Moves ==
         \/ UNCHANGED key_row
         \/ key_row'.status \in {"processing", "failed"}
         \/ \E r \in placed : key_row' = CompletedBy(r)
  <1> SUFFICES Moves
    OBVIOUS
  <1>1. CheckoutTypeOK /\ NumbersKept /\ key_row \in KeyRow
    BY DEF NumberInv, CheckoutTypeOK
  <1>2. ASSUME NEW r \in Requests, InsertKey(r) PROVE Moves
    <2>1. \/ UNCHANGED key_row
          \/ key_row' = [key_row EXCEPT !.status = "processing"]
      BY <1>2 DEF InsertKey
    <2>2. CASE key_row' = [key_row EXCEPT !.status = "processing"]
      <3>1. key_row'.status = "processing"
        BY <1>1, <2>2, KeyRowColumns
      <3> QED BY <3>1
    <2> QED BY <2>1, <2>2
  <1>3. ASSUME NEW r \in Requests, ReclaimKey(r) PROVE Moves
    <2>1. \/ UNCHANGED key_row
          \/ key_row' = [key_row EXCEPT !.status = "processing", !.stale = FALSE]
      BY <1>3 DEF ReclaimKey
    <2>2. CASE key_row' = [key_row EXCEPT !.status = "processing", !.stale = FALSE]
      <3>1. key_row'.status = "processing"
        BY <1>1, <2>2, KeyRowColumns
      <3> QED BY <3>1
    <2> QED BY <2>1, <2>2
  <1>4. ASSUME NEW r \in Requests, markCheckoutIdempotencyCompleted(r) PROVE Moves
    BY <1>1, <1>4 DEF markCheckoutIdempotencyCompleted, At, NumbersKept
  <1>5. ASSUME NEW r \in Requests, markCheckoutIdempotencyFailed(r) PROVE Moves
    BY <1>1, <1>5, KeyRowColumns DEF markCheckoutIdempotencyFailed
  <1>6. CASE ClaimGoesStale
    BY <1>1, <1>6, KeyRowColumns DEF ClaimGoesStale
  <1>7. ASSUME NEW r \in Requests,
               \/ LookForPendingOrder(r) \/ ReplayOrGoOn(r) \/ getClient(r)
               \/ getNextOrderNumber(r) \/ CreateRazorpayOrder(r)
               \/ CommitOrder(r) \/ CheckoutFault(r) \/ PendingOrderEnds(r)
        PROVE  UNCHANGED key_row
    BY <1>7
    DEF LookForPendingOrder, ReplayOrGoOn, getClient, getNextOrderNumber,
        CreateRazorpayOrder, CommitOrder, CheckoutFault, RollBack, MarkThrows,
        CommitAnswerLost, RequestDies, PendingOrderEnds
  <1>8. CASE UNCHANGED checkoutVars
    BY <1>8 DEF checkoutVars
  <1> QED
    BY <1>2, <1>3, <1>4, <1>5, <1>6, <1>7, <1>8 DEF CheckoutNext, CheckoutStep

LEMMA KeyStep == KeyInv /\ [CheckoutNext]_checkoutVars => KeyInv'
  <1> SUFFICES ASSUME KeyInv, [CheckoutNext]_checkoutVars PROVE KeyInv'
    OBVIOUS
  <1>1. /\ NumberInv /\ CheckoutTypeOK /\ ReplayExists /\ KeyedStages
        /\ key_row.status = "none" => ~key_row.stale
        /\ ~lost => KeyAnswered
    BY DEF KeyInv, NumberInv
  <1>2. NumberInv' /\ KeyedStages'
    BY <1>1, NumberStep, KeyedStep
  <1>3. (lost => lost') /\ placed \subseteq placed'
    BY <1>1, NothingIsTakenBack
  <1>4. ~lost' => KeyAnswered'
    BY <1>1, <1>3, AnsweredStep
  <1>5. ReplayExists' /\ (key_row'.status = "none" => ~key_row'.stale)
    <2>1. CASE UNCHANGED key_row
      BY <1>1, <1>3, <2>1 DEF ReplayExists
    <2>2. CASE key_row'.status \in {"processing", "failed"}
      BY <2>2 DEF ReplayExists
    <2>3. CASE \E r \in placed : key_row' = CompletedBy(r)
      BY <1>3, <2>3 DEF ReplayExists, CompletedBy
    <2> QED BY <1>1, <2>1, <2>2, <2>3, KeyRowMoves
  <1> QED BY <1>2, <1>4, <1>5 DEF KeyInv

-----------------------------------------------------------------------------
(* Who waits for whom.                                                     *)
(*                                                                         *)
(* A request waits for a connection, some while they have one already, and *)
(* for the counter's lock. Whoever has the lock waits for nothing          *)
(* (LockedIsBusy), so that waiting for it ends; what is left is the pool.  *)

Busy == {r \in Requests : HasConnection(r)}

LockedIsBusy ==
  counter_lock # NoRequest => stage[counter_lock] \in {"razorpay", "commit"}

WaitInv == CheckoutTypeOK /\ LockedIsBusy /\ Free >= 0

LEMMA BusyFinite ==
  /\ IsFiniteSet(Busy) /\ Cardinality(Busy) \in Nat
  /\ Free = Connections - Cardinality(Busy) /\ Free \in Int
  <1>1. IsFiniteSet(Busy)
    BY RequestsFinite, FS_Subset DEF Busy
  <1> QED BY <1>1, FS_CardinalityType, CheckoutAssumption DEF Busy, Free

LEMMA WaitInit == CheckoutInit => WaitInv
  <1> SUFFICES ASSUME CheckoutInit PROVE WaitInv
    OBVIOUS
  <1>1. Busy = {}
    BY DEF CheckoutInit, Busy, HasConnection
  <1>2. Free >= 0
    BY <1>1, BusyFinite, FS_EmptySet, CheckoutAssumption
  <1> QED BY <1>2, NumberInit DEF WaitInv, NumberInv, CheckoutInit, LockedIsBusy

(* Only getClient takes a connection, and only a free one.                 *)
LEMMA PoolStays ==
  ASSUME WaitInv, Busy' \subseteq Busy
  PROVE  (Free >= 0)'
  <1>1. Free' = Connections - Cardinality(Busy')
    BY DEF Free, Busy
  <1>2. Cardinality(Busy') <= Cardinality(Busy) /\ Cardinality(Busy') \in Nat
    BY BusyFinite, FS_Subset, FS_CardinalityType
  <1> QED BY <1>1, <1>2, BusyFinite, CheckoutAssumption DEF WaitInv

LEMMA GetClientKeepsPool ==
  ASSUME WaitInv, NEW r \in Requests, getClient(r)
  PROVE  (Free >= 0)'
  <1>1. Busy' = Busy \cup {r}
    BY DEF WaitInv, CheckoutTypeOK, getClient, Busy, HasConnection, At, To
  <1>2. Free' = Connections - Cardinality(Busy')
    BY DEF Free, Busy
  <1>3. Cardinality(Busy') <= Cardinality(Busy) + 1 /\ Cardinality(Busy') \in Nat
    BY <1>1, BusyFinite, FS_AddElement, FS_CardinalityType
  <1> QED BY <1>2, <1>3, BusyFinite, CheckoutAssumption DEF getClient

LEMMA WaitStep ==
  NumberInv /\ WaitInv /\ [CheckoutNext]_checkoutVars => WaitInv'
  <1> SUFFICES ASSUME NumberInv, WaitInv, [CheckoutNext]_checkoutVars
               PROVE  WaitInv'
    OBVIOUS
  <1> USE DEF WaitInv, CheckoutTypeOK
  <1>1. CheckoutTypeOK'
    BY TypeStep
  <1>2. CASE UNCHANGED <<stage, counter_lock>>
    <2>1. Busy' = Busy /\ LockedIsBusy'
      BY <1>2 DEF Busy, HasConnection, LockedIsBusy
    <2> QED BY <1>1, <2>1, PoolStays
  <1>3. ASSUME NEW r \in Requests, LookForPendingOrder(r) \/ InsertKey(r)
                 \/ ReplayOrGoOn(r) \/ ReclaimKey(r)
        PROVE  WaitInv'
    <2>1. /\ stage[r] \in {"idle", "claim", "look", "reclaim"} /\ UNCHANGED counter_lock
          /\ \E s \in {"claim", "look", "reclaim", "connect", "end"} :
               stage' = [stage EXCEPT ![r] = s]
      BY <1>3 DEF LookForPendingOrder, InsertKey, ReplayOrGoOn, ReclaimKey, At, To
    <2>2. Busy' \subseteq Busy /\ LockedIsBusy'
      BY <2>1, RequestsFinite DEF Busy, HasConnection, LockedIsBusy
    <2> QED BY <1>1, <2>2, PoolStays
  <1>4. ASSUME NEW r \in Requests, getClient(r) PROVE WaitInv'
    <2>1. LockedIsBusy'
      BY <1>4, RequestsFinite DEF getClient, LockedIsBusy, At, To
    <2> QED BY <1>1, <1>4, <2>1, GetClientKeepsPool
  <1>5. ASSUME NEW r \in Requests, getNextOrderNumber(r) \/ CreateRazorpayOrder(r)
        PROVE  WaitInv'
    <2>1. /\ stage[r] \in {"number", "razorpay"}
          /\ counter_lock' = r \/ UNCHANGED counter_lock
          /\ \E s \in {"razorpay", "commit"} : stage' = [stage EXCEPT ![r] = s]
      BY <1>5 DEF getNextOrderNumber, CreateRazorpayOrder, At, To
    <2>2. Busy' \subseteq Busy /\ LockedIsBusy'
      BY <2>1, RequestsFinite DEF Busy, HasConnection, LockedIsBusy
    <2> QED BY <1>1, <2>2, PoolStays
  <1>6. ASSUME NEW r \in Requests, CommitOrder(r) \/ RollBack(r)
                 \/ CommitAnswerLost(r) \/ RequestDies(r)
        PROVE  WaitInv'
    <2>1. /\ counter_lock' = Unlocked(r)
          /\ \E s \in {"completed", "failed", "end"} : stage' = [stage EXCEPT ![r] = s]
          /\ HasConnection(r) \/ stage' = [stage EXCEPT ![r] = "end"]
      BY <1>6 DEF CommitOrder, RollBack, CommitAnswerLost, RequestDies, At, To,
                  HasConnection
    <2>2. Busy' \subseteq Busy
      BY <2>1 DEF Busy, HasConnection
    <2>3. LockedIsBusy'
      BY <2>1, RequestsFinite DEF LockedIsBusy, Unlocked
    <2> QED BY <1>1, <2>2, <2>3, PoolStays
  <1>7. ASSUME NEW r \in Requests, markCheckoutIdempotencyCompleted(r)
                 \/ markCheckoutIdempotencyFailed(r) \/ MarkThrows(r)
        PROVE  WaitInv'
    <2>1. /\ stage[r] \in {"completed", "failed"} /\ UNCHANGED counter_lock
          /\ stage' = [stage EXCEPT ![r] = "end"]
      BY <1>7 DEF markCheckoutIdempotencyCompleted, markCheckoutIdempotencyFailed,
                  MarkThrows, At, To
    <2>2. Busy' \subseteq Busy /\ LockedIsBusy'
      BY <2>1, RequestsFinite DEF Busy, HasConnection, LockedIsBusy
    <2> QED BY <1>1, <2>2, PoolStays
  <1>8. \/ UNCHANGED <<stage, counter_lock>>
        \/ \E r \in Requests :
             \/ LookForPendingOrder(r) \/ CheckoutStep(r) \/ CheckoutFault(r)
    BY DEF CheckoutNext, PendingOrderEnds, ClaimGoesStale, checkoutVars
  <1> QED BY <1>2, <1>3, <1>4, <1>5, <1>6, <1>7, <1>8 DEF CheckoutStep, CheckoutFault

LEMMA WaitersAreServed ==
  ASSUME WaitInv PROVE SomebodyGoesOn
  <1> USE DEF WaitInv
  <1>1. Free \in 0..Connections
    BY BusyFinite, CheckoutAssumption
  <1>2. ASSUME NEW r \in Requests, stage[r] \in {"number", "razorpay", "commit"}
        PROVE  \E q \in Requests : CanGoOn(q)
    <2>1. CASE counter_lock = NoRequest
      BY <1>2, <2>1 DEF CanGoOn, At, CounterAvailable
    <2>2. CASE counter_lock # NoRequest
      BY <2>2 DEF CanGoOn, LockedIsBusy, CheckoutTypeOK
    <2> QED BY <2>1, <2>2
  <1>3. ASSUME NEW r \in Requests, stage[r] \notin {"idle", "end"}
        PROVE  PoolExhausted \/ \E q \in Requests : CanGoOn(q)
    <2>1. CASE Free = 0
      BY <1>2, <2>1 DEF PoolExhausted, HasConnection
    <2>2. CASE Free > 0
      <3>1. stage[r] \in Stage
        BY DEF CheckoutTypeOK
      <3> QED BY <1>2, <1>3, <2>2, <3>1 DEF CanGoOn, Stage
    <2> QED BY <1>1, <2>1, <2>2, CheckoutAssumption
  <1> QED BY <1>1, <1>3 DEF SomebodyGoesOn

(* At every moment some request under way can take its next step, or all   *)
(* connections are with requests that have placed or given up their order  *)
(* and ask for a second one: there is no other deadlock between the pool,  *)
(* the counter's lock and the key, for any number of requests and any pool.*)
THEOREM NoOtherDeadlock == CheckoutSpec => []SomebodyGoesOn
  <1> QED BY NumberInit, NumberStep, WaitInit, WaitStep, WaitersAreServed, PTL
          DEF CheckoutSpec

(* "Duplicate-order protection", for any number of requests that carry the *)
(* key: it places one order, unless a claim was outlived or an outcome not *)
(* recorded; a completed key names an order that exists; no two orders     *)
(* have one number; and nobody waits in a circle but for the pool.         *)
THEOREM CheckoutCorrect == CheckoutSpec => []CheckoutSafe
  <1>1. KeyInv /\ SomebodyGoesOn => CheckoutSafe
    <2> SUFFICES ASSUME KeyInv, SomebodyGoesOn PROVE CheckoutSafe
      OBVIOUS
    <2>1. CheckoutTypeOK /\ ReplayExists /\ OrderNumbersUnique
      BY DEF KeyInv, NumberInv, NumbersKept
    <2>2. CASE lost
      BY <2>1, <2>2 DEF CheckoutSafe, OneOrderPerKey
    <2>3. CASE ~lost
      <3>1. \A r, s \in placed \cap Keyed : r = s
        BY <2>3 DEF KeyInv, KeyAnswered
      <3>2. CASE placed \cap Keyed = {}
        BY <2>1, <3>2, FS_EmptySet DEF CheckoutSafe, OneOrderPerKey
      <3>3. CASE placed \cap Keyed # {}
        <4>1. PICK r \in placed \cap Keyed : placed \cap Keyed = {r}
          BY <3>1, <3>3
        <4> QED BY <2>1, <4>1, FS_Singleton DEF CheckoutSafe, OneOrderPerKey
      <3> QED BY <3>2, <3>3
    <2> QED BY <2>2, <2>3
  <1> QED BY <1>1, KeyInit, KeyStep, NoOtherDeadlock, PTL DEF CheckoutSpec

(* The pool is not exhausted either if it has a connection more than one   *)
(* key has requests under way, whatever the requests without a key do:     *)
(* only a request with a key asks for a second connection.                 *)
THEOREM EnoughConnections ==
  CheckoutSpec => [](Connections > Cardinality(Keyed) => ~PoolExhausted)
  <1>1. KeyInv /\ WaitInv => (Connections > Cardinality(Keyed) => ~PoolExhausted)
    <2> SUFFICES ASSUME KeyInv, PoolExhausted, Connections > Cardinality(Keyed)
                 PROVE  FALSE
      OBVIOUS
    <2>1. Busy \subseteq Keyed
      BY DEF Busy, PoolExhausted, KeyInv, KeyedStages
    <2>2. IsFiniteSet(Keyed)
      BY CheckoutAssumption, FS_Subset
    <2>3. Cardinality(Busy) <= Cardinality(Keyed) /\ Cardinality(Keyed) \in Nat
      BY <2>1, <2>2, FS_Subset, FS_CardinalityType
    <2> QED BY <2>3, BusyFinite, CheckoutAssumption DEF PoolExhausted
  <1> QED BY <1>1, KeyInit, KeyStep, NumberInit, NumberStep, WaitInit, WaitStep, PTL
          DEF CheckoutSpec

(* How far a request is. *)
Progress(s) ==
  CASE s = "idle" -> 0
    [] s = "claim" -> 1
    [] s = "look" -> 2
    [] s = "reclaim" -> 3
    [] s = "connect" -> 4
    [] s = "number" -> 5
    [] s = "razorpay" -> 6
    [] s = "commit" -> 7
    [] s \in {"completed", "failed"} -> 8
    [] s = "end" -> 9

LEMMA ProgressValues ==
  /\ \A s \in {"number", "razorpay", "commit"} : Progress(s) < 8
  /\ \A s \in Stage : Progress(s) \in Nat
  /\ \A s \in Stage \ {"end"} : Progress(s) < 9
  /\ Progress("failed") = 8 /\ Progress("end") = 9
  BY DEF Progress, Stage

RequestsAdvance ==
  \A r \in Requests :
    stage'[r] = stage[r] \/ Progress(stage[r]) < Progress(stage'[r])

(* No request goes back or round in circles, whatever fails: after nine    *)
(* steps at most it has ended. With NoOtherDeadlock this leaves only       *)
(* fairness to CheckoutEnds.                                               *)
THEOREM RequestsGoForward == CheckoutSpec => [][RequestsAdvance]_checkoutVars
  <1>1. ASSUME CheckoutTypeOK, [CheckoutNext]_checkoutVars, ~(UNCHANGED checkoutVars)
        PROVE  RequestsAdvance
    <2> USE DEF CheckoutTypeOK
    <2>1. ASSUME NEW r \in Requests, NEW s \in Stage,
                 stage' = [stage EXCEPT ![r] = s], Progress(stage[r]) < Progress(s)
          PROVE  RequestsAdvance
      BY <2>1 DEF RequestsAdvance
    <2>2. CASE UNCHANGED stage
      BY <2>2 DEF RequestsAdvance
    <2>3. ASSUME NEW r \in Requests,
                 LookForPendingOrder(r) \/ CheckoutStep(r) \/ CheckoutFault(r)
          PROVE  \E s \in Stage : /\ stage' = [stage EXCEPT ![r] = s]
                                  /\ Progress(stage[r]) < Progress(s)
      <3> USE DEF At, To
      <3>1. CASE LookForPendingOrder(r)
        BY <3>1 DEF LookForPendingOrder, Stage, Progress
      <3>2. CASE CheckoutStep(r)
        BY <3>2 DEF CheckoutStep, InsertKey, ReplayOrGoOn, ReclaimKey, getClient,
           getNextOrderNumber, CreateRazorpayOrder, CommitOrder,
           markCheckoutIdempotencyCompleted, markCheckoutIdempotencyFailed,
           Stage, Progress
      <3>3. CASE RollBack(r) \/ CommitAnswerLost(r)
        <4>1. \E s \in {"failed", "end"} : stage' = [stage EXCEPT ![r] = s]
          BY <3>3 DEF RollBack, CommitAnswerLost
        <4>2. PICK s \in {"failed", "end"} : stage' = [stage EXCEPT ![r] = s]
          BY <4>1
        <4>3. Progress(stage[r]) < 8
          BY <3>3, ProgressValues DEF RollBack, CommitAnswerLost
        <4>4. Progress(stage[r]) < Progress(s)
          <5>1. Progress(stage[r]) \in Nat
            BY <1>1, ProgressValues
          <5>2. CASE s = "failed"
            BY <4>3, <5>2, ProgressValues
          <5>3. CASE s = "end"
            BY <4>3, <5>1, <5>3, ProgressValues
          <5> QED BY <5>2, <5>3
        <4>5. s \in Stage
          BY DEF Stage
        <4> QED BY <4>2, <4>4, <4>5
      <3>4. CASE MarkThrows(r) \/ RequestDies(r)
        <4>1. stage' = [stage EXCEPT ![r] = "end"]
          BY <3>4 DEF MarkThrows, RequestDies
        <4>2. stage[r] \in Stage \ {"end"}
          <5>1. stage[r] # "end"
            BY <3>4 DEF MarkThrows, RequestDies
          <5> QED BY <1>1, <5>1
        <4>3. Progress(stage[r]) < Progress("end")
          BY <4>2, ProgressValues
        <4>4. "end" \in Stage
          BY DEF Stage
        <4> QED BY <4>1, <4>3, <4>4
      <3> QED BY <2>3, <3>1, <3>2, <3>3, <3>4 DEF CheckoutFault
    <2> QED BY <1>1, <2>1, <2>2, <2>3
            DEF CheckoutNext, PendingOrderEnds, ClaimGoesStale
  <1>2. CheckoutTypeOK /\ [CheckoutNext]_checkoutVars => [RequestsAdvance]_checkoutVars
    BY <1>1
  <1> QED BY <1>2, CheckoutTyped, PTL DEF CheckoutSpec

-----------------------------------------------------------------------------
(* Sums over finite sets.                                                  *)
(*                                                                         *)
(* SumFunction is a fold, a recursive function on the subsets of the       *)
(* domain. Its recursion equation is shown here from what the library      *)
(* proves of the strict subsets of a finite set: that they are well        *)
(* founded. All is said of sets, never of a predicate.                     *)

LEMMA MinimalSubset ==
  ASSUME NEW U, IsFiniteSet(U), NEW Bad \in SUBSET (SUBSET U), Bad # {}
  PROVE  \E T \in Bad : \A V \in Bad : ~(<<V, T>> \in StrictSubsetOrdering(U))
  <1>1. FiniteSubsetsOf(U) = SUBSET U
    BY FS_FiniteSubsetsOfFinite, Zenon
  <1>2. IsWellFoundedOn(StrictSubsetOrdering(U), FiniteSubsetsOf(U))
    BY FS_StrictSubsetOrderingWellFounded, Zenon
  <1>3. Bad \subseteq FiniteSubsetsOf(U)
    BY <1>1
  <1> QED BY <1>2, <1>3, WFMin

(* What holds of a subset when it holds of all smaller ones holds of all.  *)
LEMMA SubsetInduction ==
  ASSUME NEW U, IsFiniteSet(U), NEW Good,
         \A T \in SUBSET U :
           (\A V \in SUBSET T : V # T => V \in Good) => T \in Good
  PROVE  SUBSET U \subseteq Good
  <1> DEFINE Bad == {T \in SUBSET U : T \notin Good}
  <1>1. SUFFICES ASSUME Bad # {} PROVE FALSE
    OBVIOUS
  <1>2. PICK T \in Bad : \A V \in Bad : <<V, T>> \notin StrictSubsetOrdering(U)
    <2> Bad \in SUBSET (SUBSET U)
      OBVIOUS
    <2> HIDE DEF Bad
    <2> QED BY <1>1, MinimalSubset
  <1>3. \A V \in SUBSET T : V # T => V \in Good
    BY <1>2 DEF StrictSubsetOrdering
  <1> QED BY <1>2, <1>3

chosen(s) == CHOOSE x \in s : TRUE

(* g is the sum of f on every subset of U. *)
Sums(f, U, g) ==
  g = [s \in SUBSET U |->
         IF s = {} THEN 0 ELSE f[chosen(s)] + g[s \ {chosen(s)}]]

LEMMA SumsOnce ==
  ASSUME NEW f, NEW U, NEW W, NEW g, NEW h, IsFiniteSet(U),
         Sums(f, U, g), Sums(f, W, h), NEW s \in SUBSET U, s \in SUBSET W
  PROVE  g[s] = h[s]
  <1> DEFINE Both == U \cap W
             Good == {t \in SUBSET Both : g[t] = h[t]}
  <1>1. IsFiniteSet(Both)
    BY FS_Intersection
  <1>2. ASSUME NEW T \in SUBSET Both, \A V \in SUBSET T : V # T => V \in Good
        PROVE  T \in Good
    <2>1. CASE T = {}
      BY <2>1 DEF Sums
    <2>2. CASE T # {}
      <3>1. chosen(T) \in T
        BY <2>2 DEF chosen
      <3>2. g[T \ {chosen(T)}] = h[T \ {chosen(T)}]
        BY <1>2, <3>1
      <3>3. /\ g[T] = f[chosen(T)] + g[T \ {chosen(T)}]
            /\ h[T] = f[chosen(T)] + h[T \ {chosen(T)}]
        BY <2>2 DEF Sums
      <3> QED BY <3>2, <3>3
    <2> QED BY <2>1, <2>2
  <1>3. SUBSET Both \subseteq Good
    <2>1. \A T \in SUBSET Both :
            (\A V \in SUBSET T : V # T => V \in Good) => T \in Good
      BY <1>2
    <2> HIDE DEF Good, Both
    <2> QED BY <1>1, <2>1, SubsetInduction
  <1> QED BY <1>3

LEMMA SumsExist ==
  ASSUME NEW f, NEW U, IsFiniteSet(U)
  PROVE  \E g : Sums(f, U, g)
  <1> DEFINE Good == {T \in SUBSET U : \E g : Sums(f, T, g)}
  <1>1. ASSUME NEW T \in SUBSET U, \A V \in SUBSET T : V # T => V \in Good
        PROVE  T \in Good
    <2> DEFINE sums(V) == CHOOSE g : Sums(f, V, g)
               sum(s) == IF s = {} THEN 0
                           ELSE f[chosen(s)] + sums(s \ {chosen(s)})[s \ {chosen(s)}]
               g == [s \in SUBSET T |-> sum(s)]
    <2>1. ASSUME NEW V \in SUBSET T, V # T
          PROVE  Sums(f, V, sums(V)) /\ IsFiniteSet(V)
      BY <1>1, <2>1, FS_Subset
    <2>2. ASSUME NEW s \in SUBSET T, s # {}
          PROVE  sum(s) = f[chosen(s)] + sum(s \ {chosen(s)})
      <3> DEFINE w == s \ {chosen(s)}
      <3>1. chosen(s) \in s
        BY <2>2 DEF chosen
      <3>2. w \in SUBSET T /\ w # T
        BY <3>1
      <3>3. Sums(f, w, sums(w)) /\ IsFiniteSet(w)
        BY <2>1, <3>2
      <3>4. sums(w)[w] = sum(w)
        <4>1. CASE w = {}
          BY <3>3, <4>1 DEF Sums
        <4>2. CASE w # {}
          <5> DEFINE v == w \ {chosen(w)}
          <5>1. chosen(w) \in w
            BY <4>2 DEF chosen
          <5>2. v \in SUBSET T /\ v # T /\ v \in SUBSET w
            BY <5>1
          <5>3. Sums(f, v, sums(v)) /\ IsFiniteSet(v)
            BY <2>1, <5>2
          <5>4. sums(w)[v] = sums(v)[v]
            <6> HIDE DEF w, v, sums
            <6> QED BY <3>3, <5>2, <5>3, SumsOnce
          <5>5. sums(w)[w] = f[chosen(w)] + sums(w)[v]
            <6> HIDE DEF w, sums
            <6> QED BY <3>3, <4>2 DEF Sums
          <5> QED
            <6> HIDE DEF w, sums
            <6> QED BY <4>2, <5>4, <5>5
        <4> QED BY <4>1, <4>2
      <3> QED
        <4> HIDE DEF sums
        <4> QED BY <2>2, <3>4
    <2>3. \A s \in SUBSET T : s # {} => s \ {chosen(s)} \in SUBSET T
      OBVIOUS
    <2>4. Sums(f, T, g)
      <3> HIDE DEF sum
      <3>1. sum({}) = 0
        BY DEF sum
      <3>2. \A s \in SUBSET T : s # {} => sum(s) = f[chosen(s)] + sum(s \ {chosen(s)})
        BY <2>2
      <3> QED BY <2>3, <3>1, <3>2 DEF Sums
    <2> QED BY <2>4
  <1>2. SUBSET U \subseteq Good
    <2>1. \A T \in SUBSET U :
            (\A V \in SUBSET T : V # T => V \in Good) => T \in Good
      BY <1>1
    <2> HIDE DEF Good
    <2> QED BY <2>1, SubsetInduction
  <1> QED BY <1>2

(* The recursion equation. *)
LEMMA SumEquation ==
  ASSUME NEW f, NEW U, IsFiniteSet(U)
  PROVE  /\ U = {} => SumFunctionOnSet(f, U) = 0
         /\ U # {} => SumFunctionOnSet(f, U) =
              f[chosen(U)] + SumFunctionOnSet(f, U \ {chosen(U)})
  <1> DEFINE sums(V) == CHOOSE g : Sums(f, V, g)
  <1>1. \A V : SumFunctionOnSet(f, V) = sums(V)[V]
    BY DEF SumFunctionOnSet, FoldFunctionOnSet, MapThenFoldSet, Sums, chosen
  <1>2. \A V : IsFiniteSet(V) => Sums(f, V, sums(V))
    BY SumsExist
  <1> HIDE DEF sums
  <1>3. CASE U = {}
    BY <1>1, <1>2, <1>3 DEF Sums
  <1>4. CASE U # {}
    <2> DEFINE w == U \ {chosen(U)}
    <2>1. IsFiniteSet(w)
      BY FS_Subset
    <2>2. sums(U)[w] = sums(w)[w]
      <3> HIDE DEF w
      <3>1. w \in SUBSET U
        BY DEF w
      <3> QED BY <1>2, <2>1, <3>1, SumsOnce
    <2>3. sums(U)[U] = f[chosen(U)] + sums(U)[w]
      BY <1>2, <1>4 DEF Sums
    <2> QED BY <1>1, <1>4, <2>2, <2>3
  <1> QED BY <1>3, <1>4

LEMMA SumIsNatural ==
  ASSUME NEW U, IsFiniteSet(U), NEW f \in [U -> Nat]
  PROVE  /\ SumFunction(f) \in Nat
         /\ (\A x \in U : f[x] = 0) => SumFunction(f) = 0
  <1> DEFINE Good ==
        {T \in SUBSET U : /\ SumFunctionOnSet(f, T) \in Nat
                          /\ (\A x \in T : f[x] = 0) => SumFunctionOnSet(f, T) = 0}
  <1>1. ASSUME NEW T \in SUBSET U, \A V \in SUBSET T : V # T => V \in Good
        PROVE  T \in Good
    <2>1. IsFiniteSet(T)
      BY FS_Subset
    <2>2. CASE T = {}
      <3>1. SumFunctionOnSet(f, T) = 0
        BY <2>1, <2>2, SumEquation
      <3> QED BY <3>1
    <2>3. CASE T # {}
      <3>1. chosen(T) \in T
        BY <2>3 DEF chosen
      <3>2. SumFunctionOnSet(f, T) = f[chosen(T)] + SumFunctionOnSet(f, T \ {chosen(T)})
        BY <2>1, <2>3, SumEquation
      <3>3. T \ {chosen(T)} \in Good
        BY <1>1, <3>1
      <3> QED BY <3>1, <3>2, <3>3
    <2> QED BY <2>2, <2>3
  <1>2. SUBSET U \subseteq Good
    <2>1. \A T \in SUBSET U :
            (\A V \in SUBSET T : V # T => V \in Good) => T \in Good
      BY <1>1
    <2> HIDE DEF Good
    <2> QED BY <2>1, SubsetInduction
  <1> QED BY <1>2 DEF SumFunction

-----------------------------------------------------------------------------
(* The prices.                                                             *)
(*                                                                         *)
(* That the window collects the total is about three sums and when each is *)
(* taken. The strengthening says that the rows read are the admin's, that  *)
(* a placed bill is what its sums come to, in which free shipping costs    *)
(* nothing, and that an address once served was told this bill's charge.   *)

Bill == [status: {"none", "pricing", "refused", "placed"}, subtotal: Nat,
         shipping: Nat, total: Nat, is_free_shipping: BOOLEAN,
         discount: Nat, line_items_total: Nat]

Window == [shipping_fee: Int, serviceable: BOOLEAN, coupon: Nat,
           payment: {"none", "verified", "mismatch"}]

RowsRead ==
  /\ \A p \in DOMAIN items : items[p] \in PriceList
  /\ \A p \in DOMAIN reminders : reminders[p] \in PriceList

BillAddsUp ==
  LET r == ReminderCharges(reminders) IN
  bill.status = "placed" =>
    /\ r \in Nat
    /\ bill.is_free_shipping => bill.shipping = 0
    /\ bill.total =
         calculateOrderTotals(bill.subtotal, bill.shipping, r, bill.discount)
    /\ bill.line_items_total =
         LineItemsTotal(bill.subtotal, bill.shipping, r, bill.discount)
    /\ bill.total <= displayed.amount + 100

ToldTheCharge ==
  /\ window.serviceable => window.shipping_fee = ShippingFee
  /\ window.serviceable \/ window.payment # "none" => bill.status = "placed"

PricingInv ==
  /\ PricingTypeOK /\ bill \in Bill /\ window \in Window
  /\ displayed.amount \in Int
  /\ RowsRead /\ BillAddsUp /\ ToldTheCharge
  /\ WindowAgrees /\ ShownIsPaid

-----------------------------------------------------------------------------
(* The three sums over rows that were read.                                *)
LEMMA ChargesAreNatural ==
  ASSUME cart \in Carts, NEW rows, DOMAIN rows \subseteq Products,
         \A p \in DOMAIN rows : rows[p] \in PriceList
  PROVE  /\ Subtotal(rows) \in Nat
         /\ ShippingCharge(rows) \in Nat
         /\ ReminderCharges(rows) \in Nat
         /\ (\A p \in DOMAIN rows : rows[p].is_free_shipping) =>
              ShippingCharge(rows) = 0
  <1>1. IsFiniteSet(DOMAIN rows)
    BY PricingAssumption, FS_Subset
  <1>2. \A p \in DOMAIN rows :
          /\ rows[p].price \in Nat /\ rows[p].shipping_charge \in Nat
          /\ rows[p].daily_reminder_price \in Nat
          /\ rows[p].is_free_shipping \in BOOLEAN
          /\ cart.quantity[p] \in Nat
    BY PricingAssumption DEF Carts
  <1>3. [p \in DOMAIN rows |-> rows[p].price * cart.quantity[p]]
          \in [DOMAIN rows -> Nat]
    BY <1>2
  <1>4. [p \in DOMAIN rows |-> ReminderCharge(rows[p], p)]
          \in [DOMAIN rows -> Nat]
    BY <1>2 DEF ReminderCharge
  <1>5. [p \in DOMAIN rows |->
           IF rows[p].is_free_shipping THEN 0 ELSE rows[p].shipping_charge]
          \in [DOMAIN rows -> Nat]
    BY <1>2
  <1>6. Subtotal(rows) \in Nat
    BY <1>1, <1>3, SumIsNatural DEF Subtotal
  <1>7. ReminderCharges(rows) \in Nat
    BY <1>1, <1>4, SumIsNatural DEF ReminderCharges
  <1>8. /\ ShippingCharge(rows) \in Nat
        /\ (\A p \in DOMAIN rows : rows[p].is_free_shipping) =>
             ShippingCharge(rows) = 0
    <2> DEFINE f == [p \in DOMAIN rows |->
                 IF rows[p].is_free_shipping THEN 0 ELSE rows[p].shipping_charge]
    <2>1. SumFunction(f) = ShippingCharge(rows)
      BY DEF ShippingCharge
    <2>2. (\A p \in DOMAIN rows : rows[p].is_free_shipping) =>
            \A p \in DOMAIN rows : f[p] = 0
      OBVIOUS
    <2>3. f \in [DOMAIN rows -> Nat]
      BY <1>5
    <2> HIDE DEF f
    <2> QED BY <1>1, <2>1, <2>2, <2>3, SumIsNatural
  <1> QED BY <1>6, <1>7, <1>8

LEMMA DiscountsAreNatural ==
  ASSUME NEW subtotal \in Nat
  PROVE  /\ \A c \in getPromotionCatalog(subtotal) : c[2] \in Nat
         /\ \A code : resolveOrderDiscount(code, subtotal) \subseteq Nat
  <1>1. (subtotal + 5) \div 10 \in Nat
    OBVIOUS
  <1>2. \A c \in getPromotionCatalog(subtotal) : c[2] \in Nat
    BY <1>1 DEF getPromotionCatalog
  <1> QED BY <1>2 DEF resolveOrderDiscount

(* What the window adds up is the total: the discount is taken off before  *)
(* the charge is added, which is the same unless it is more than the goods.*)
LEMMA WindowAddsUp ==
  ASSUME bill \in Bill, window \in Window, BillAddsUp, ToldTheCharge,
         window.serviceable, window.coupon = 0, DiscountFits
  PROVE  InWindow = bill.total
  <1> DEFINE r == ReminderCharges(reminders)
  <1>1. bill.status = "placed" /\ window.shipping_fee = ShippingFee
    BY DEF ToldTheCharge
  <1>2. /\ r \in Nat
        /\ bill.is_free_shipping => bill.shipping = 0
        /\ bill.total =
             toNonNegativeNumber(bill.subtotal + bill.shipping + r - bill.discount)
        /\ bill.line_items_total =
             toNonNegativeNumber(bill.subtotal + r - bill.discount)
    BY <1>1 DEF BillAddsUp, calculateOrderTotals, LineItemsTotal
  <1>3. /\ bill.subtotal \in Nat /\ bill.shipping \in Nat /\ bill.discount \in Nat
        /\ bill.line_items_total \in Nat
    BY DEF Bill
  <1>4. ShippingFee = bill.shipping
    BY <1>2, <1>3 DEF ShippingFee, calculateRazorpayShippingFeePaise,
                      toNonNegativeNumber
  <1>5. bill.discount <= bill.subtotal + r \/ bill.shipping = 0
    BY DEF DiscountFits
  <1>6. InWindow = toNonNegativeNumber(bill.line_items_total + bill.shipping)
    BY <1>1, <1>3, <1>4 DEF InWindow
  <1> HIDE DEF r
  <1> QED BY <1>2, <1>3, <1>5, <1>6 DEF toNonNegativeNumber

-----------------------------------------------------------------------------
LEMMA PricingInitial == PricingInit => PricingInv
  <1> SUFFICES ASSUME PricingInit PROVE PricingInv
    OBVIOUS
  <1> USE DEF PricingInit, NoBill, Closed
  <1>1. PricingTypeOK /\ bill \in Bill /\ window \in Window
    BY DEF PricingTypeOK, Bill, Window
  <1>2. displayed.amount \in Int /\ RowsRead /\ BillAddsUp /\ ToldTheCharge
    BY DEF RowsRead, BillAddsUp, ToldTheCharge
  <1>3. WindowAgrees /\ ShownIsPaid
    BY DEF WindowAgrees, ShownIsPaid
  <1> QED BY <1>1, <1>2, <1>3 DEF PricingInv

(* As long as no order is placed, nothing but types and rows is at stake.  *)
LEMMA NotPlacedYet ==
  ASSUME PricingInv, UNCHANGED <<cart, window>>, bill.status # "placed",
         bill' = bill \/ bill' = [bill EXCEPT !.status = "pricing"]
                      \/ bill' = [bill EXCEPT !.status = "refused"],
         products' \in [Products -> PriceList \cup {Hidden}],
         DOMAIN items' \subseteq InCart(cart), DOMAIN reminders' \subseteq cart.reminded,
         RowsRead', displayed'.amount \in Int
  PROVE  PricingInv'
  <1> USE DEF PricingInv
  <1>1. bill' \in Bill /\ bill'.status \in {"none", "pricing", "refused"}
    BY DEF Bill
  <1>2. window.payment = "none" /\ ~window.serviceable
    BY DEF ToldTheCharge, Window
  <1>3. PricingTypeOK'
    BY <1>1, <1>2 DEF PricingTypeOK, InCart
  <1>4. BillAddsUp' /\ ToldTheCharge' /\ WindowAgrees' /\ ShownIsPaid'
    BY <1>1, <1>2 DEF BillAddsUp, ToldTheCharge, WindowAgrees, ShownIsPaid
  <1> QED BY <1>1, <1>3, <1>4

LEMMA CartRows ==
  ASSUME PricingTypeOK
  PROVE  /\ InCart(cart) \subseteq Products /\ cart.reminded \subseteq InCart(cart)
         /\ DOMAIN items \subseteq Products /\ DOMAIN reminders \subseteq Products
         /\ \A p \in Products : products[p] # Hidden => products[p] \in PriceList
  BY DEF PricingTypeOK, Carts, InCart

LEMMA OrderingKeeps ==
  ASSUME PricingInv, CustomerOrders
  PROVE  PricingInv'
  <1> DEFINE rows == [p \in InCart(cart) |-> products[p]]
             wanted == [p \in cart.reminded |-> products[p]]
  <1>1. PricingTypeOK /\ cart \in Carts
    BY DEF PricingInv, PricingTypeOK
  <1>2. /\ \A p \in DOMAIN rows : rows[p] \in PriceList
        /\ \A p \in DOMAIN wanted : wanted[p] \in PriceList
        /\ DOMAIN rows \subseteq Products /\ DOMAIN wanted \subseteq Products
    BY <1>1, CartRows DEF CustomerOrders
  <1>3. /\ Subtotal(rows) \in Nat /\ ShippingCharge(rows) \in Nat
        /\ ReminderCharges(wanted) \in Nat
    <2> HIDE DEF rows, wanted
    <2> QED BY <1>1, <1>2, ChargesAreNatural
  <1>4. PICK discount \in resolveOrderDiscount(cart.promotion_code, Subtotal(rows)) :
          displayed'.amount =
            calculateOrderTotals(Subtotal(rows), ShippingCharge(rows),
                                 ReminderCharges(wanted), discount)
    BY DEF CustomerOrders
  <1>5. discount \in Nat
    <2> HIDE DEF rows
    <2> QED BY <1>3, <1>4, DiscountsAreNatural
  <1>6. displayed'.amount \in Int
    <2> HIDE DEF rows, wanted
    <2> QED BY <1>3, <1>4, <1>5 DEF calculateOrderTotals, toNonNegativeNumber
  <1>7. /\ UNCHANGED <<products, cart, items, reminders, window>>
        /\ bill' = [bill EXCEPT !.status = "pricing"] /\ bill.status = "none"
    BY DEF CustomerOrders
  <1>8. RowsRead' /\ products' \in [Products -> PriceList \cup {Hidden}]
        /\ DOMAIN items' \subseteq InCart(cart)
        /\ DOMAIN reminders' \subseteq cart.reminded
    BY <1>1, <1>7 DEF PricingInv, RowsRead, PricingTypeOK
  <1> QED BY <1>6, <1>7, <1>8, NotPlacedYet

LEMMA ReadingKeeps ==
  ASSUME PricingInv, NEW p \in Products, ReadItem(p) \/ ReadReminder(p)
  PROVE  PricingInv'
  <1>1. PricingTypeOK /\ RowsRead /\ displayed.amount \in Int
    BY DEF PricingInv
  <1>2. /\ UNCHANGED <<products, cart, displayed, window>>
        /\ bill.status = "pricing"
        /\ bill' = bill \/ bill' = [bill EXCEPT !.status = "refused"]
    BY DEF ReadItem, ReadReminder, Refused
  <1>3. /\ DOMAIN items' \subseteq InCart(cart)
        /\ DOMAIN reminders' \subseteq cart.reminded
        /\ RowsRead'
    <2>1. CASE ReadItem(p)
      BY <1>1, <2>1, CartRows DEF ReadItem, RowsRead, PricingTypeOK
    <2>2. CASE ReadReminder(p)
      BY <1>1, <2>2, CartRows DEF ReadReminder, RowsRead, PricingTypeOK
    <2> QED BY <2>1, <2>2
  <1>4. products' \in [Products -> PriceList \cup {Hidden}]
    BY <1>1, <1>2 DEF PricingTypeOK
  <1> QED BY <1>1, <1>2, <1>3, <1>4, NotPlacedYet

LEMMA PlacingKeeps ==
  ASSUME PricingInv, PlaceOrder
  PROVE  PricingInv'
  <1> DEFINE s == Subtotal(items)
             d == ShippingCharge(items)
             r == ReminderCharges(reminders)
  <1>1. /\ PricingTypeOK /\ RowsRead /\ displayed.amount \in Int
        /\ cart \in Carts /\ bill \in Bill /\ window \in Window
    BY DEF PricingInv, PricingTypeOK
  <1>2. UNCHANGED <<products, cart, displayed, items, reminders, window>>
    BY DEF PlaceOrder
  <1>3. /\ s \in Nat /\ d \in Nat /\ r \in Nat
        /\ (\A p \in DOMAIN items : items[p].is_free_shipping) => d = 0
    BY <1>1, CartRows, ChargesAreNatural DEF RowsRead
  <1>4. PICK discount \in Discounts :
          LET total == calculateOrderTotals(s, d, r, discount) IN
          IF PriceMismatch(total) THEN Refused
            ELSE bill' = [status |-> "placed", subtotal |-> s, shipping |-> d,
                   total |-> total, discount |-> discount,
                   is_free_shipping |-> \A p \in DOMAIN items : items[p].is_free_shipping,
                   line_items_total |-> LineItemsTotal(s, d, r, discount)]
    BY DEF PlaceOrder
  <1>5. discount \in Nat
    BY <1>3, <1>4, DiscountsAreNatural DEF Discounts
  <1>6. bill.status = "pricing"
    BY DEF PlaceOrder
  <1>7. CASE Refused
    BY <1>1, <1>2, <1>6, <1>7, NotPlacedYet DEF PricingTypeOK, Refused, RowsRead
  <1>8. CASE ~Refused
    <2> DEFINE total == calculateOrderTotals(s, d, r, discount)
               line == LineItemsTotal(s, d, r, discount)
               free == \A p \in DOMAIN items : items[p].is_free_shipping
    <2>0. /\ bill' = [status |-> "placed", subtotal |-> s, shipping |-> d,
                   total |-> total, discount |-> discount,
                   is_free_shipping |-> free, line_items_total |-> line]
          /\ ~PriceMismatch(total)
      <3> HIDE DEF s, d, r, Refused
      <3> QED BY <1>4, <1>8, Zenon
    <2>1. /\ bill' = [status |-> "placed", subtotal |-> s, shipping |-> d,
                   total |-> total, discount |-> discount,
                   is_free_shipping |-> free, line_items_total |-> line]
          /\ bill'.status = "placed" /\ bill'.subtotal = s /\ bill'.shipping = d
          /\ bill'.total = total /\ bill'.discount = discount
          /\ bill'.is_free_shipping = free /\ bill'.line_items_total = line
          /\ ~PriceMismatch(total)
      <3> HIDE DEF s, d, r, total, line, free
      <3> QED BY <2>0
    <2>2. total \in Nat /\ line \in Nat
      <3> HIDE DEF s, d, r
      <3> QED BY <1>3, <1>5 DEF calculateOrderTotals, LineItemsTotal, toNonNegativeNumber
    <2>3. free \in BOOLEAN
      OBVIOUS
    <2>4. bill' \in Bill
      <3> HIDE DEF s, d, r, total, line, free
      <3> QED BY <1>3, <1>5, <2>1, <2>2, <2>3 DEF Bill
    <2>5. total <= displayed.amount + 100
      <3> HIDE DEF total
      <3> QED BY <1>1, <2>1, <2>2 DEF PriceMismatch
    <2>6. ReminderCharges(reminders)' = r
      BY <1>2 DEF ReminderCharges, ReminderCharge
    <2>7. BillAddsUp'
      <3> HIDE DEF s, d, r, free
      <3> QED BY <1>2, <1>3, <2>1, <2>5, <2>6 DEF BillAddsUp, free
    <2>8. window.payment = "none" /\ ~window.serviceable
      BY <1>1, <1>6 DEF PricingInv, ToldTheCharge, Window
    <2>9. ToldTheCharge' /\ WindowAgrees' /\ ShownIsPaid'
      BY <1>2, <2>8 DEF ToldTheCharge, WindowAgrees, ShownIsPaid
    <2>10. PricingTypeOK' /\ RowsRead'
      BY <1>1, <1>2, <2>1 DEF PricingTypeOK, RowsRead, InCart
    <2> QED BY <1>1, <1>2, <2>4, <2>7, <2>9, <2>10 DEF PricingInv
  <1> QED BY <1>7, <1>8

(* Magic Checkout changes the window alone. *)
LEMMA WindowKeeps ==
  ASSUME PricingInv, getShippingInfo \/ applyPromotions \/ PayAndVerify
  PROVE  PricingInv'
  <1>1. /\ PricingTypeOK /\ bill \in Bill /\ window \in Window
        /\ bill.status = "placed" /\ window.payment = "none"
    BY DEF PricingInv, getShippingInfo, applyPromotions, PayAndVerify
  <1>2. UNCHANGED <<products, cart, displayed, items, reminders, bill>>
    BY DEF getShippingInfo, applyPromotions, PayAndVerify
  <1>3. ShippingFee \in Int /\ ShippingFee' = ShippingFee
    BY <1>1, <1>2 DEF ShippingFee, calculateRazorpayShippingFeePaise,
                      toNonNegativeNumber, Bill
  <1>4. RowsRead' /\ displayed'.amount \in Int /\ bill' \in Bill
    BY <1>2 DEF PricingInv, RowsRead
  <1>5. BillAddsUp'
    BY <1>2 DEF PricingInv, BillAddsUp, ReminderCharges, ReminderCharge
  <1>6. /\ window' \in Window /\ ToldTheCharge'
        /\ window'.payment \in {"none", "verified", "mismatch"}
    <2>1. CASE getShippingInfo
      BY <1>1, <1>2, <1>3, <2>1
      DEF getShippingInfo, Serviceable, ToldTheCharge, Window
    <2>2. CASE applyPromotions
      BY <1>1, <1>2, <1>3, <2>2, DiscountsAreNatural
      DEF applyPromotions, PricingInv, ToldTheCharge, Window, Bill
    <2>3. CASE PayAndVerify
      BY <1>1, <1>2, <1>3, <2>3
      DEF PayAndVerify, PricingInv, ToldTheCharge, Window
    <2> QED BY <2>1, <2>2, <2>3
  <1>7. PricingTypeOK'
    BY <1>1, <1>2, <1>6 DEF PricingTypeOK, InCart
  <1>8. ShownIsPaid'
    BY <1>1, <1>2 DEF PricingInv, BillAddsUp, ShownIsPaid
  <1>9. WindowAgrees'
    <2>1. CASE window'.payment = "none"
      BY <2>1 DEF WindowAgrees
    <2>2. CASE PayAndVerify
      <3>1. /\ window'.payment = "mismatch" => InWindow # bill.total
            /\ window'.coupon = window.coupon /\ window.serviceable
        BY <1>1, <2>2 DEF PayAndVerify, Window
      <3>2. DiscountFits' <=> DiscountFits
        BY <1>2 DEF DiscountFits, ReminderCharges, ReminderCharge
      <3>3. window.coupon \in Nat
        BY <1>1 DEF Window
      <3> QED BY <1>1, <3>1, <3>2, <3>3, WindowAddsUp DEF WindowAgrees, PricingInv
    <2> QED BY <1>1, <2>1, <2>2 DEF getShippingInfo, applyPromotions, Window
  <1> QED BY <1>4, <1>5, <1>6, <1>7, <1>8, <1>9 DEF PricingInv

LEMMA PricingStep ==
  ASSUME PricingInv, [PricingNext]_pricingVars
  PROVE  PricingInv'
  <1>1. CASE AdminEditsProduct
    <2>1. PricingTypeOK /\ RowsRead /\ displayed.amount \in Int
      BY DEF PricingInv
    <2> QED BY <1>1, <2>1, NotPlacedYet DEF AdminEditsProduct, PricingTypeOK, RowsRead
  <1>2. CASE CustomerOrders
    BY <1>2, OrderingKeeps
  <1>3. CASE \E p \in Products : ReadItem(p) \/ ReadReminder(p)
    BY <1>3, ReadingKeeps
  <1>4. CASE PromotionRefused
    <2>1. PricingTypeOK /\ RowsRead /\ displayed.amount \in Int
      BY DEF PricingInv
    <2> QED BY <1>4, <2>1, NotPlacedYet
            DEF PromotionRefused, Refused, PricingTypeOK, RowsRead
  <1>5. CASE PlaceOrder
    BY <1>5, PlacingKeeps
  <1>6. CASE getShippingInfo \/ applyPromotions \/ PayAndVerify
    BY <1>6, WindowKeeps
  <1>7. CASE UNCHANGED pricingVars
    BY <1>7 DEF pricingVars, PricingInv, PricingTypeOK, InCart, RowsRead, BillAddsUp,
       ReminderCharges, ReminderCharge, ToldTheCharge, ShippingFee, WindowAgrees,
       DiscountFits, ShownIsPaid
  <1> QED BY <1>1, <1>2, <1>3, <1>4, <1>5, <1>6, <1>7 DEF PricingNext

(* For any products, price lists and quantities, and whatever an admin     *)
(* edits while createOrder reads the rows: Magic Checkout's window collects*)
(* the order's total, short of a coupon chosen in it and of a discount     *)
(* larger than the goods, and nobody pays more than a rupee above what the *)
(* shop showed.                                                            *)
THEOREM PricingCorrect == PricingSpec => []PricingSafe
  <1>1. PricingInv => PricingSafe
    BY DEF PricingInv, PricingSafe
  <1> QED BY <1>1, PricingInitial, PricingStep, PTL DEF PricingSpec
=============================================================================
