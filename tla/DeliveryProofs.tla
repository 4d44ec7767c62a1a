--------------------------- MODULE DeliveryProofs ---------------------------
(***************************************************************************)
(* Theorems about Delivery for every set of services, orders, products and *)
(* batches, both kinds of store and every choice of faults: claims first,  *)
(* then the items that are sold, and the ledger that Delivery implements.  *)
(***************************************************************************)
EXTENDS Delivery, FunctionTheorems, FiniteSetTheorems, TLAPS

USE DEF callVars, storeVars, saleVars, Statuses, Absent, Pending, Delivered, Durable, Contains
-----------------------------------------------------------------------------
(* What draining from the front takes, what it leaves, and what putting    *)
(* back in front gives are inventories again.                              *)
LEMMA TakenLeftType ==
  ASSUME NEW q \in Seq(Items), NEW n \in Nat, n <= Len(q)
  PROVE  Taken(q, n) \in Seq(Items) /\ Left(q, n) \in Seq(Items)
BY DEF Taken, Left

(* match_order asks for a number of items, never a negative one. *)
LEMMA RequestedType == ASSUME NEW o \in Orders PROVE Requested(o) \in Nat
BY OrdersAssumption DEF Requested

(* Every effect of the store on a map of records gives one. *)
LEMMA StoreEffectsType ==
  ASSUME StoreTypeOK, NEW m \in RecordMaps, NEW o \in Orders, NEW q \in Seq(Items)
  PROVE  /\ Claimed(m, o, q) \in RecordMaps
         /\ Committed(m, o, q) \in RecordMaps
         /\ Released(m, o) \in RecordMaps
<1>1. \A st \in Statuses, it \in Seq(Items) :
        [m EXCEPT ![o] = [status |-> st, items |-> it]] \in RecordMaps
  BY DEF RecordMaps
<1>2. Claimed(m, o, q) \in RecordMaps /\ Committed(m, o, q) \in RecordMaps
  BY <1>1 DEF Claimed, Committed
<1>3. Released(m, o) \in RecordMaps
  <2>1. << >> \in Seq(Items)
    OBVIOUS
  <2>2. QED
    BY <1>1, <2>1 DEF StoreTypeOK, Released
<1>4. QED
  BY <1>2, <1>3

(* A call that returns, moves on or sells keeps the types of what it       *)
(* changes.                                                                *)
LEMMA ReturnType ==
  ASSUME TypeOK, NEW s \in Services, NEW r \in Results, Return(s, r)
  PROVE  /\ pc' \in [Services -> Stages]
         /\ result' \in [Services -> Results]
         /\ product' \in [Services -> Products \cup {"none"}]
         /\ reserved' \in [Services -> Seq(Items)]
BY DEF TypeOK, Return, Stages, Results

(* A call that goes on to another await keeps the type invariant's parts. *)
LEMMA GoToType ==
  ASSUME TypeOK, NEW s \in Services, NEW stage \in Stages, GoTo(s, stage)
  PROVE  /\ pc' \in [Services -> Stages]
         /\ result' \in [Services -> Results]
BY DEF TypeOK, GoTo

(* Handing items to the buyer keeps the types of the history variables. *)
LEMMA SellType ==
  ASSUME TypeOK, NEW s \in Services, Sell(s)
  PROVE  /\ sold' \in [Orders -> SUBSET Items]
         /\ deliveries' \in [Orders -> Nat]
         /\ astray' \in [Orders -> SUBSET Items]
<1>1. Range(reserved[s]) \subseteq Items
  BY DEF TypeOK, Range
<1>2. QED
  BY <1>1 DEF TypeOK, Sell

(* A message that goes astray is one of items. *)
LEMMA StrayType ==
  ASSUME TypeOK, NEW s \in Services, Stray(s) \/ UNCHANGED saleVars
  PROVE  /\ astray' \in [Orders -> SUBSET Items]
         /\ UNCHANGED << sold, deliveries >>
<1>1. Range(reserved[s]) \subseteq Items
  BY DEF TypeOK, Range
<1>2. CASE Stray(s)
  BY <1>1, <1>2 DEF TypeOK, Stray
<1>3. CASE UNCHANGED saleVars
  BY <1>3 DEF TypeOK
<1>4. QED
  BY <1>2, <1>3

(* A map without records is a map of records. *)
LEMMA EmptyRecordsType == [o \in Orders |-> Absent] \in RecordMaps
<1>1. << >> \in Seq(Items)
  OBVIOUS
<1>2. QED
  BY <1>1 DEF RecordMaps

(* What an operation finds in the file, and what it writes there, are maps *)
(* of records.                                                             *)
LEMMA FoundType == ASSUME TypeOK, NEW m \in Found PROVE m \in RecordMaps
BY EmptyRecordsType DEF Found, TypeOK, StoreTypeOK

LateTypeOK == \A w \in late : w.from \in RecordMaps /\ w.to \in RecordMaps

(* A save leaves a map of records, whoever's it is. *)
LEMMA SaveType ==
  ASSUME TypeOK, NEW m, NEW after \in RecordMaps, Save(m, after)
  PROVE  records' \in RecordMaps /\ LateTypeOK' /\ lapsed' \in BOOLEAN
<1>1. LateTypeOK /\ lapsed \in BOOLEAN
  BY DEF TypeOK, LateTypeOK
<1>2. CASE records' = after /\ UNCHANGED late
  BY <1>1, <1>2 DEF Save, LateTypeOK
<1>3. CASE \E w \in late : records' = w.to /\ late' = late \ {w}
  BY <1>1, <1>3 DEF Save, LateTypeOK
<1>4. QED
  BY <1>2, <1>3 DEF Save

(* Whatever the store call of s writes is a map of records. *)
LEMMA WritesType ==
  ASSUME TypeOK, NEW s \in Services, NEW m \in RecordMaps
  PROVE  /\ Claimed(m, order[s], reserved[s]) \in RecordMaps
         /\ Committed(m, order[s], reserved[s]) \in RecordMaps
         /\ Released(m, order[s]) \in RecordMaps
         /\ \A after \in Writes(s, m) : after \in RecordMaps
<1>1. order[s] \in Orders /\ reserved[s] \in Seq(Items) /\ StoreTypeOK
  BY DEF TypeOK
<1>2. /\ Claimed(m, order[s], reserved[s]) \in RecordMaps
      /\ Committed(m, order[s], reserved[s]) \in RecordMaps
      /\ Released(m, order[s]) \in RecordMaps
  BY <1>1, StoreEffectsType
<1>3. QED
  BY <1>2 DEF Writes

(* A store call that fails keeps the store's types. *)
LEMMA FailsType ==
  ASSUME TypeOK, NEW s \in Services, StoreCallFails(s)
  PROVE  records' \in RecordMaps /\ LateTypeOK' /\ lapsed' \in BOOLEAN
<1>1. CASE UNCHANGED storeVars
  BY <1>1 DEF storeVars, TypeOK, StoreTypeOK, LateTypeOK
<1>2. CASE \E m \in Found : \E after \in Writes(s, m) : Save(m, after)
  BY <1>2, FoundType, WritesType, SaveType
<1>3. QED
  BY <1>1, <1>2 DEF StoreCallFails

(* Type correctness of Delivery. *)
LEMMA InitType == Init => TypeOK
<1>1. (CHOOSE o \in Orders : TRUE) \in Orders
  BY OrdersAssumption
<1>2. << >> \in Seq(Items) /\ \A o \in Orders : {} \in SUBSET Items
  OBVIOUS
<1> SUFFICES ASSUME Init PROVE TypeOK
  OBVIOUS
<1>3. StoreTypeOK /\ LateTypeOK /\ lapsed \in BOOLEAN
  BY EmptyRecordsType DEF Init, StoreInit, StoreTypeOK, LateTypeOK
<1>4. QED
  BY <1>1, <1>2, <1>3 DEF Init, TypeOK, LateTypeOK, Stages, Results

(* Every operation, fault and restart of the service keeps the types. *)
LEMMA NextType == TypeOK /\ [Next]_vars => TypeOK'
<1> SUFFICES ASSUME TypeOK, [Next]_vars PROVE TypeOK'
  OBVIOUS
<1>1. ASSUME NEW s \in Services, NEW k \in Products, NEW b \in Batches, AddProduct(s, k, b)
      PROVE  TypeOK'
  BY <1>1, BatchesAssumption DEF TypeOK, StoreTypeOK, AddProduct
<1>2. ASSUME NEW s \in Services, NEW o \in Orders, NEW a \in {"process", "deliver"},
             NEW paid \in BOOLEAN, Call(s, o, a, paid)
      PROVE  TypeOK'
  <2>1. "OrderNotPaid" \in Results /\ "none" \in Results /\ "check" \in Stages
    BY DEF Results, Stages
  <2>2. CASE a = "process" /\ ~paid
    BY <1>2, <2>1, <2>2, ReturnType DEF TypeOK, StoreTypeOK, Call
  <2>3. CASE ~(a = "process" /\ ~paid)
    <3>1. /\ pc' = [pc EXCEPT ![s] = "check"]
          /\ result' = [result EXCEPT ![s] = "none"]
          /\ UNCHANGED << product, reserved >>
      BY <1>2, <2>3, Zenon DEF Call
    <3>2. /\ api' = [api EXCEPT ![s] = a]
          /\ order' = [order EXCEPT ![s] = o]
          /\ UNCHANGED << storeVars, supply, stock, saleVars >>
      BY <1>2 DEF Call
    <3>3. QED
      BY <2>1, <3>1, <3>2 DEF TypeOK, StoreTypeOK
  <2>4. QED
    BY <2>2, <2>3
<1>3. ASSUME NEW s \in Services, CheckOrder(s)
      PROVE  TypeOK'
  <2>1. "AlreadyDelivered" \in Results /\ "reserve" \in Stages
    BY DEF Results, Stages
  <2>2. QED
    BY <1>3, <2>1, ReturnType, GoToType DEF TypeOK, StoreTypeOK, CheckOrder
<1>4. ASSUME NEW s \in Services, Reserve(s)
      PROVE  TypeOK'
  <2>1. "ProductNotFound" \in Results /\ "NotEnoughItems" \in Results /\ "claim" \in Stages
    BY DEF Results, Stages
  <2>2. ASSUME NEW r \in Results, Return(s, r), UNCHANGED stock
        PROVE  TypeOK'
    BY <1>4, <2>2, ReturnType DEF TypeOK, StoreTypeOK, Reserve
  <2>3. ASSUME NEW k \in Matches[order[s]], NEW n \in Nat, Len(stock[s][k]) >= n,
               reserved' = [reserved EXCEPT ![s] = Taken(stock[s][k], n)],
               product' = [product EXCEPT ![s] = k],
               stock' = [stock EXCEPT ![s][k] = Left(@, n)],
               GoTo(s, "claim")
        PROVE  TypeOK'
    <3>1. k \in Products /\ stock[s][k] \in Seq(Items)
      BY OrdersAssumption DEF TypeOK
    <3>2. Taken(stock[s][k], n) \in Seq(Items) /\ Left(stock[s][k], n) \in Seq(Items)
      BY <2>3, <3>1, TakenLeftType
    <3>3. stock' \in [Services -> [Products -> Seq(Items)]]
      BY <2>3, <3>1, <3>2 DEF TypeOK
    <3>4. QED
      BY <1>4, <2>1, <2>3, <3>1, <3>2, <3>3, GoToType DEF TypeOK, StoreTypeOK, Reserve
  <2>4. Requested(order[s]) \in Nat
    BY RequestedType DEF TypeOK
  <2>5. QED
    BY <1>4, <2>1, <2>2, <2>3, <2>4 DEF Reserve
<1>5. ASSUME NEW s \in Services, ClaimPending(s)
      PROVE  TypeOK'
  <2>1. /\ "AlreadyDelivered" \in Results /\ "StoreError" \in Results
        /\ "send" \in Stages /\ "commit" \in Stages
    BY DEF Results, Stages
  <2>2. records' \in RecordMaps /\ LateTypeOK' /\ lapsed' \in BOOLEAN
    <3>1. CASE UNCHANGED storeVars
      BY <3>1 DEF storeVars, TypeOK, StoreTypeOK, LateTypeOK
    <3>2. CASE \E m \in Found : Save(m, Claimed(m, order[s], reserved[s]))
      BY <3>2, FoundType, WritesType, SaveType
    <3>3. QED
      BY <1>5, <3>1, <3>2, FailsType DEF ClaimPending
  <2>3. QED
    BY <1>5, <2>1, <2>2, ReturnType, GoToType
    DEF TypeOK, StoreTypeOK, LateTypeOK, ClaimPending, StoreCallFails
<1>6. ASSUME NEW s \in Services, SendDelivery(s)
      PROVE  TypeOK'
  <2>1. "SendError" \in Results /\ "commit" \in Stages /\ "release" \in Stages
    BY DEF Results, Stages
  <2>2. CASE SendAccepted(s)
    BY <1>6, <2>1, <2>2, SellType, GoToType
    DEF TypeOK, StoreTypeOK, SendDelivery, SendAccepted
  <2>3. CASE SendRejected(s)
    <3>1. stock' \in [Services -> [Products -> Seq(Items)]]
      <4>1. CASE product[s] \in Products
        <5>1. reserved[s] \o stock[s][product[s]] \in Seq(Items)
          BY <4>1 DEF TypeOK
        <5>2. QED
          BY <2>3, <4>1, <5>1 DEF TypeOK, SendRejected
      <4>2. CASE product[s] \notin Products
        BY <2>3, <4>2 DEF TypeOK, SendRejected
      <4>3. QED
        BY <4>1, <4>2
    <3>2. astray' \in [Orders -> SUBSET Items] /\ UNCHANGED << sold, deliveries >>
      BY <2>3, StrayType DEF SendRejected
    <3>3. QED
      BY <1>6, <2>1, <2>3, <3>1, <3>2, GoToType
      DEF TypeOK, StoreTypeOK, SendDelivery, SendRejected
  <2>4. CASE SendFailed(s)
    BY <1>6, <2>1, <2>4, SellType, ReturnType
    DEF TypeOK, StoreTypeOK, SendDelivery, SendFailed
  <2>5. QED
    BY <1>6, <2>2, <2>3, <2>4 DEF SendDelivery
<1>7. ASSUME NEW s \in Services, ReleasePending(s)
      PROVE  TypeOK'
  <2>1. "MessageSendFailed" \in Results /\ "StoreError" \in Results
    BY DEF Results
  <2>2. records' \in RecordMaps /\ LateTypeOK' /\ lapsed' \in BOOLEAN
    BY <1>7, FoundType, WritesType, SaveType, FailsType DEF ReleasePending
  <2>3. QED
    BY <1>7, <2>1, <2>2, ReturnType
    DEF TypeOK, StoreTypeOK, LateTypeOK, ReleasePending, StoreCallFails
<1>8. ASSUME NEW s \in Services, CommitDelivered(s)
      PROVE  TypeOK'
  <2>1. "Ok" \in Results /\ "StoreError" \in Results
    BY DEF Results
  <2>2. records' \in RecordMaps /\ LateTypeOK' /\ lapsed' \in BOOLEAN
    BY <1>8, FoundType, WritesType, SaveType, FailsType DEF CommitDelivered
  <2>3. QED
    BY <1>8, <2>1, <2>2, ReturnType, SellType
    DEF TypeOK, StoreTypeOK, LateTypeOK, CommitDelivered, StoreCallFails
<1>9. ASSUME NEW s \in Services, DropCall(s)
      PROVE  TypeOK'
  <2>1. "none" \in Results
    BY DEF Results
  <2>2. LateTypeOK' /\ lapsed' \in BOOLEAN
    <3>1. CASE UNCHANGED << late, lapsed >>
      BY <3>1 DEF TypeOK, LateTypeOK
    <3>2. ASSUME NEW m \in Found, NEW after \in Writes(s, m),
                 late' = late \cup {[from |-> records, to |-> after]}, lapsed' = TRUE
          PROVE  LateTypeOK' /\ lapsed' \in BOOLEAN
      <4>1. after \in RecordMaps /\ records \in RecordMaps
        BY FoundType, WritesType DEF TypeOK, StoreTypeOK
      <4>2. QED
        BY <3>2, <4>1 DEF TypeOK, LateTypeOK
    <3>3. QED
      BY <1>9, <3>1, <3>2 DEF DropCall
  <2>3. QED
    BY <1>9, <2>1, <2>2, ReturnType DEF TypeOK, StoreTypeOK, LateTypeOK, DropCall
<1>10. CASE Crash
  <2>1. records' \in RecordMaps
    <3>1. [o \in Orders |-> Absent] \in RecordMaps
      BY EmptyRecordsType
    <3>2. QED
      BY <1>10, <3>1 DEF Crash, TypeOK, StoreTypeOK
  <2>2. << >> \in Seq(Items)
    OBVIOUS
  <2>3. QED
    BY <1>10, <2>1, <2>2 DEF TypeOK, StoreTypeOK, Crash, Stages, Results
<1>12. CASE LateWrite
  <2>1. records' \in RecordMaps /\ \A w \in late' : w.from \in RecordMaps /\ w.to \in RecordMaps
    BY <1>12 DEF LateWrite, TypeOK, StoreTypeOK
  <2>2. QED
    BY <1>12, <2>1 DEF LateWrite, TypeOK, StoreTypeOK
<1>11. CASE UNCHANGED vars
  BY <1>11 DEF TypeOK, StoreTypeOK, vars
<1>13. QED
  BY <1>1, <1>2, <1>3, <1>4, <1>5, <1>6, <1>7, <1>8, <1>9, <1>10, <1>11, <1>12
  DEF Next, Advance

(* Every reachable state of Delivery is well typed. *)
THEOREM TypeCorrect == Spec => []TypeOK
BY InitType, NextType, PTL DEF Spec
-----------------------------------------------------------------------------
(* A store that lapses stays lapsed, and only then file calls of dropped   *)
(* operations are left over.                                               *)
LateLapsed == late # {} => lapsed

LEMMA InitLateLapsed == Init => LateLapsed
BY DEF Init, LateLapsed

(* A save or a failing store call lets nothing recover. *)
LEMMA SaveLapses ==
  ASSUME LateLapsed, NEW m, NEW after, Save(m, after)
  PROVE  LateLapsed' /\ (lapsed => lapsed')
<1>1. late' # {} => late # {}
  BY DEF Save
<1>2. lapsed => lapsed'
  BY DEF Save
<1>3. QED
  BY <1>1, <1>2 DEF LateLapsed

LEMMA FailLapses ==
  ASSUME LateLapsed, NEW s \in Services, StoreCallFails(s)
  PROVE  LateLapsed' /\ (lapsed => lapsed')
<1>1. CASE UNCHANGED storeVars
  BY <1>1 DEF LateLapsed
<1>2. CASE \E m \in Found : \E after \in Writes(s, m) : Save(m, after)
  BY <1>2, SaveLapses
<1>3. QED
  BY <1>1, <1>2 DEF StoreCallFails

(* Neither does any other step. *)
LEMMA NextLapses == LateLapsed /\ [Next]_vars => LateLapsed' /\ (lapsed => lapsed')
<1> SUFFICES ASSUME LateLapsed, [Next]_vars PROVE LateLapsed' /\ (lapsed => lapsed')
  OBVIOUS
<1> DEFINE Kept == LateLapsed' /\ (lapsed => lapsed')
<1>1. ASSUME UNCHANGED << late, lapsed >> PROVE Kept
  BY <1>1 DEF LateLapsed
<1>2. ASSUME NEW s \in Services, ClaimPending(s) \/ ReleasePending(s) \/ CommitDelivered(s)
      PROVE  Kept
  <2>1. CASE StoreCallFails(s)
    BY <2>1, FailLapses
  <2>2. ASSUME NEW m, NEW after, Save(m, after) PROVE Kept
    BY <2>2, SaveLapses
  <2>3. QED
    BY <1>1, <1>2, <2>1, <2>2 DEF ClaimPending, ReleasePending, CommitDelivered
<1>3. ASSUME NEW s \in Services, DropCall(s) PROVE Kept
  BY <1>3 DEF DropCall, LateLapsed
<1>4. CASE Crash \/ LateWrite
  BY <1>4 DEF Crash, LateWrite, LateLapsed
<1>5. QED
  BY <1>1, <1>2, <1>3, <1>4
  DEF Next, Advance, vars, AddProduct, Call, CheckOrder, Reserve, SendDelivery

(* While it has not lapsed, an operation on the store does what it should. *)
LEMMA UnlapsedSave ==
  ASSUME LateLapsed, ~lapsed', NEW m, NEW after, Save(m, after)
  PROVE  m = records /\ records' = after
BY DEF Save, LateLapsed

LEMMA UnlapsedFail ==
  ASSUME LateLapsed, ~lapsed', NEW s \in Services, StoreCallFails(s)
  PROVE  UNCHANGED records /\ Return(s, "StoreError")
BY DEF StoreCallFails, Save, LateLapsed

LEMMA UnlapsedClaim ==
  ASSUME LateLapsed, ~lapsed', NEW s \in Services, ClaimPending(s)
  PROVE  \/ /\ UNCHANGED records
            /\ Return(s, "AlreadyDelivered") \/ Return(s, "StoreError")
         \/ /\ ~Contains(records, order[s])
            /\ records' = Claimed(records, order[s], reserved[s])
            /\ GoTo(s, IF api[s] = "process" THEN "send" ELSE "commit")
            /\ UNCHANGED << product, reserved >>
<1>1. ASSUME NEW m, Save(m, Claimed(m, order[s], reserved[s]))
      PROVE  m = records /\ records' = Claimed(records, order[s], reserved[s])
  BY <1>1, UnlapsedSave
<1>2. QED
  BY <1>1, UnlapsedFail DEF ClaimPending

LEMMA UnlapsedRelease ==
  ASSUME LateLapsed, ~lapsed', NEW s \in Services, ReleasePending(s)
  PROVE  \/ UNCHANGED records /\ Return(s, "StoreError")
         \/ records' = Released(records, order[s]) /\ Return(s, "MessageSendFailed")
<1>1. ASSUME NEW m, Save(m, Released(m, order[s]))
      PROVE  m = records /\ records' = Released(records, order[s])
  BY <1>1, UnlapsedSave
<1>2. QED
  BY <1>1, UnlapsedFail DEF ReleasePending

LEMMA UnlapsedCommit ==
  ASSUME LateLapsed, ~lapsed', NEW s \in Services, CommitDelivered(s)
  PROVE  \/ UNCHANGED << records, sold, deliveries >> /\ Return(s, "StoreError")
         \/ /\ records' = Committed(records, order[s], reserved[s])
            /\ IF api[s] = "deliver" THEN Sell(s) ELSE UNCHANGED saleVars
            /\ Return(s, "Ok")
<1>1. ASSUME NEW m, Save(m, Committed(m, order[s], reserved[s]))
      PROVE  m = records /\ records' = Committed(records, order[s], reserved[s])
  BY <1>1, UnlapsedSave
<1>2. QED
  BY <1>1, UnlapsedFail DEF CommitDelivered

LEMMA UnlapsedRest ==
  ASSUME LateLapsed, ~lapsed', [Next]_vars
  PROVE  ~LateWrite /\ (Crash => Durable /\ UNCHANGED records)
<1>1. late = {}
  BY NextLapses DEF LateLapsed
<1>2. QED
  BY <1>1 DEF LateWrite, Crash
-----------------------------------------------------------------------------
(* A step of s leaves every other call as it is. *)
OthersKept(s) ==
  \A t \in Services \ {s} :
    /\ pc'[t] = pc[t] /\ api'[t] = api[t] /\ order'[t] = order[t]
    /\ reserved'[t] = reserved[t] /\ result'[t] = result[t]

(* Every step of s is such a step: services share the store and nothing   *)
(* else.                                                                   *)
LEMMA StepIsLocal ==
  ASSUME TypeOK, NEW s \in Services,
         \/ Advance(s) \/ DropCall(s)
         \/ \E k \in Products, b \in Batches : AddProduct(s, k, b)
         \/ \E o \in Orders, a \in {"process", "deliver"}, paid \in BOOLEAN : Call(s, o, a, paid)
  PROVE  OthersKept(s)
<1> USE DEF TypeOK, OthersKept
<1>1. ASSUME NEW r, Return(s, r), UNCHANGED << api, order >> PROVE OthersKept(s)
  BY <1>1 DEF Return
<1>2. ASSUME NEW stage, GoTo(s, stage), UNCHANGED << api, order, reserved >>
      PROVE  OthersKept(s)
  BY <1>2 DEF GoTo
<1>3. CASE DropCall(s)
  BY <1>1, <1>3 DEF DropCall
<1>4. CASE \E k \in Products, b \in Batches : AddProduct(s, k, b)
  BY <1>4 DEF AddProduct
<1>5. CASE \E o \in Orders, a \in {"process", "deliver"}, paid \in BOOLEAN : Call(s, o, a, paid)
  <2>1. PICK o \in Orders, a \in {"process", "deliver"}, paid \in BOOLEAN : Call(s, o, a, paid)
    BY <1>5
  <2>2. api' = [api EXCEPT ![s] = a] /\ order' = [order EXCEPT ![s] = o]
    BY <2>1 DEF Call
  <2>3. CASE Return(s, "OrderNotPaid")
    BY <2>2, <2>3 DEF Return
  <2>4. CASE /\ pc' = [pc EXCEPT ![s] = "check"]
             /\ result' = [result EXCEPT ![s] = "none"]
             /\ UNCHANGED << product, reserved >>
    BY <2>2, <2>4
  <2>5. QED
    BY <2>1, <2>3, <2>4, Zenon DEF Call
<1>6. CASE CheckOrder(s)
  BY <1>1, <1>2, <1>6 DEF CheckOrder
<1>7. CASE Reserve(s)
  BY <1>1, <1>7 DEF Reserve, GoTo
<1>8. CASE ClaimPending(s)
  BY <1>1, <1>2, <1>8 DEF ClaimPending, StoreCallFails
<1>9. CASE SendDelivery(s)
  BY <1>1, <1>2, <1>9 DEF SendDelivery, SendAccepted, SendRejected, SendFailed, GoTo
<1>10. CASE ReleasePending(s)
  BY <1>1, <1>10 DEF ReleasePending, StoreCallFails
<1>11. CASE CommitDelivered(s)
  BY <1>1, <1>11 DEF CommitDelivered, StoreCallFails
<1>12. QED
  BY <1>3, <1>4, <1>5, <1>6, <1>7, <1>8, <1>9, <1>10, <1>11 DEF Advance
-----------------------------------------------------------------------------
(* The operations on one order leave the records of the others alone. *)
LEMMA EffectsAreLocal ==
  ASSUME TypeOK, NEW s \in Services
  PROVE  /\ \A p \in Orders \ {order[s]} :
              /\ Claimed(records, order[s], reserved[s])[p] = records[p]
              /\ Committed(records, order[s], reserved[s])[p] = records[p]
              /\ Released(records, order[s])[p] = records[p]
         /\ ~Contains(records, order[s]) =>
              Claimed(records, order[s], reserved[s])[order[s]] = Pending(reserved[s])
         /\ Committed(records, order[s], reserved[s])[order[s]] = Delivered(reserved[s])
BY DEF TypeOK, StoreTypeOK, RecordMaps, Claimed, Committed, Released

(* So a store call of s leaves every other order's record as it is.        *)
LEMMA OtherRecordsKept ==
  ASSUME TypeOK, NEW s \in Services,
         \/ UNCHANGED records
         \/ records' = Claimed(records, order[s], reserved[s])
         \/ records' = Committed(records, order[s], reserved[s])
         \/ records' = Released(records, order[s])
  PROVE  \A p \in Orders \ {order[s]} : records'[p] = records[p]
<1>1. ASSUME NEW p \in Orders \ {order[s]}
      PROVE  /\ Claimed(records, order[s], reserved[s])[p] = records[p]
             /\ Committed(records, order[s], reserved[s])[p] = records[p]
             /\ Released(records, order[s])[p] = records[p]
  BY EffectsAreLocal, Zenon
<1>2. CASE UNCHANGED records
  BY <1>2, Zenon
<1>3. CASE records' = Claimed(records, order[s], reserved[s])
  BY <1>1, <1>3, Zenon
<1>4. CASE records' = Committed(records, order[s], reserved[s])
  BY <1>1, <1>4, Zenon
<1>5. CASE records' = Released(records, order[s])
  BY <1>1, <1>5, Zenon
<1>6. QED
  BY <1>2, <1>3, <1>4, <1>5, Zenon

(* What ClaimIsExclusive says of a store that has not lapsed. *)
Exclusive ==
  \A s \in Services : Owns(s) =>
    /\ records[order[s]].status = "pending"
    /\ pc[s] # "release" => records[order[s]].items = reserved[s]
    /\ \A t \in Services : Owns(t) /\ order[t] = order[s] => t = s

(* Exclusive claims survive a step of s that changes no other order's      *)
(* record, its own order's only under its claim or to claim it, and that,  *)
(* if it ends with a claim, had it or found the order free.                *)
LEMMA KeepsExclusive ==
  ASSUME TypeOK, Exclusive, NEW s \in Services, OthersKept(s),
         \A p \in Orders \ {order[s]} : records'[p] = records[p],
         Owns(s) \/ ~Contains(records, order[s]) \/ UNCHANGED records,
         Owns(s)' => /\ Owns(s) \/ ~Contains(records, order[s])
                     /\ order'[s] = order[s]
                     /\ records'[order[s]].status = "pending"
                     /\ pc'[s] # "release" => records'[order[s]].items = reserved'[s]
  PROVE  Exclusive'
<1>1. \A t \in Services \ {s} :
        Owns(t)' => /\ Owns(t) /\ order'[t] = order[t] /\ reserved'[t] = reserved[t]
                    /\ pc'[t] = pc[t] /\ order[t] \in Orders
                    /\ records[order[t]].status = "pending"
  BY DEF OthersKept, Owns, Exclusive, TypeOK
<1>2. \A t \in Services \ {s} :
        Owns(t)' /\ (Owns(s) \/ ~Contains(records, order[s])) => order[t] # order[s]
  BY <1>1 DEF Exclusive
<1>3. \A t \in Services \ {s} : Owns(t)' => records'[order[t]] = records[order[t]]
  BY <1>1, <1>2
<1>4. ASSUME NEW t \in Services, Owns(t)'
      PROVE  /\ records'[order'[t]].status = "pending"
             /\ pc'[t] # "release" => records'[order'[t]].items = reserved'[t]
             /\ \A u \in Services : Owns(u)' /\ order'[u] = order'[t] => u = t
  <2>1. CASE t = s
    BY <1>1, <1>2, <1>4, <2>1
  <2>2. CASE t # s
    <3>1. /\ records'[order'[t]].status = "pending"
          /\ pc'[t] # "release" => records'[order'[t]].items = reserved'[t]
      BY <1>1, <1>3, <1>4, <2>2 DEF Exclusive
    <3>2. \A u \in Services \ {s} : Owns(u)' /\ order'[u] = order'[t] => u = t
      BY <1>1, <1>4, <2>2 DEF Exclusive
    <3>3. Owns(s)' => order'[s] # order'[t]
      BY <1>1, <1>2, <1>4, <2>2
    <3>4. QED
      BY <3>1, <3>2, <3>3
  <2>3. QED
    BY <2>1, <2>2
<1>5. QED
  BY <1>4 DEF Exclusive, Owns

(* A call that returns owns nothing any more. *)
LEMMA ReturnDisowns ==
  ASSUME TypeOK, NEW s \in Services, NEW r, Return(s, r)
  PROVE  ~Owns(s)' /\ pc'[s] = "idle" /\ result'[s] = r /\ reserved'[s] = << >>
BY DEF TypeOK, Return, Owns

(* Every step keeps a claimed order with the one call that claimed it. *)
LEMMA NextExclusive ==
  TypeOK /\ LateLapsed /\ ~lapsed' /\ Exclusive /\ [Next]_vars => Exclusive'
<1> SUFFICES ASSUME TypeOK, LateLapsed, ~lapsed', Exclusive, [Next]_vars PROVE Exclusive'
  OBVIOUS
<1>1. ASSUME NEW s \in Services, NEW k \in Products, NEW b \in Batches, AddProduct(s, k, b)
      PROVE  Exclusive'
  BY <1>1 DEF AddProduct, Exclusive, Owns
<1>2. ASSUME NEW s \in Services, NEW o \in Orders, NEW a \in {"process", "deliver"},
             NEW paid \in BOOLEAN, Call(s, o, a, paid)
      PROVE  Exclusive'
  <2>1. pc'[s] \in {"idle", "check"}
    <3>1. CASE Return(s, "OrderNotPaid")
      BY <3>1, ReturnDisowns
    <3>2. CASE pc' = [pc EXCEPT ![s] = "check"]
      BY <3>2 DEF TypeOK
    <3>3. QED
      BY <1>2, <3>1, <3>2, Zenon DEF Call
  <2>2. ~Owns(s)' /\ UNCHANGED records
    BY <1>2, <2>1 DEF Call, Owns
  <2>3. OthersKept(s)
    BY <1>2, StepIsLocal
  <2>4. QED
    BY <2>2, <2>3, KeepsExclusive
<1>3. ASSUME NEW s \in Services, CheckOrder(s)
      PROVE  Exclusive'
  <2>1. ~Owns(s)' /\ UNCHANGED records
    BY <1>3, ReturnDisowns DEF CheckOrder, GoTo, Owns, TypeOK
  <2>2. OthersKept(s)
    BY <1>3, StepIsLocal DEF Advance
  <2>3. QED
    BY <2>1, <2>2, KeepsExclusive
<1>4. ASSUME NEW s \in Services, Reserve(s)
      PROVE  Exclusive'
  <2>1. ~Owns(s)' /\ UNCHANGED records
    BY <1>4, ReturnDisowns DEF Reserve, GoTo, Owns, TypeOK
  <2>2. OthersKept(s)
    BY <1>4, StepIsLocal DEF Advance
  <2>3. QED
    BY <2>1, <2>2, KeepsExclusive
<1>5. ASSUME NEW s \in Services, ClaimPending(s)
      PROVE  Exclusive'
  <2>1. OthersKept(s)
    BY <1>5, StepIsLocal DEF Advance
  <2>2. CASE UNCHANGED records /\ \E r : Return(s, r)
    BY <2>1, <2>2, ReturnDisowns, KeepsExclusive
  <2>3. CASE /\ ~Contains(records, order[s])
             /\ records' = Claimed(records, order[s], reserved[s])
             /\ UNCHANGED reserved
    <3>1. \A p \in Orders \ {order[s]} : records'[p] = records[p]
      BY <2>3, OtherRecordsKept
    <3>2. records'[order[s]] = Pending(reserved[s])
      BY <2>3, EffectsAreLocal
    <3>3. order'[s] = order[s]
      BY <1>5 DEF ClaimPending
    <3>4. QED
      BY <2>1, <2>3, <3>1, <3>2, <3>3, KeepsExclusive
  <2>4. QED
    BY <1>5, <2>2, <2>3, UnlapsedClaim
<1>6. ASSUME NEW s \in Services, SendDelivery(s)
      PROVE  Exclusive'
  <2>1. OthersKept(s)
    BY <1>6, StepIsLocal DEF Advance
  <2>2. Owns(s) /\ UNCHANGED << records, order >>
    BY <1>6 DEF SendDelivery, Owns
  <2>3. records[order[s]].status = "pending" /\ records[order[s]].items = reserved[s]
    BY <1>6, <2>2 DEF SendDelivery, Exclusive
  <2>4. Owns(s)' /\ pc'[s] # "release" => UNCHANGED reserved
    BY <1>6, ReturnDisowns
    DEF SendDelivery, SendAccepted, SendRejected, SendFailed, GoTo, Owns, TypeOK
  <2>5. QED
    BY <2>1, <2>2, <2>3, <2>4, KeepsExclusive
<1>7. ASSUME NEW s \in Services, ReleasePending(s)
      PROVE  Exclusive'
  <2>1. OthersKept(s)
    BY <1>7, StepIsLocal DEF Advance
  <2>2. Owns(s) /\ ~Owns(s)'
    BY <1>7, UnlapsedRelease, ReturnDisowns DEF ReleasePending, Owns
  <2>3. \A p \in Orders \ {order[s]} : records'[p] = records[p]
    BY <1>7, UnlapsedRelease, OtherRecordsKept
  <2>4. QED
    BY <2>1, <2>2, <2>3, KeepsExclusive
<1>8. ASSUME NEW s \in Services, CommitDelivered(s)
      PROVE  Exclusive'
  <2>1. OthersKept(s)
    BY <1>8, StepIsLocal DEF Advance
  <2>2. Owns(s) /\ ~Owns(s)'
    BY <1>8, UnlapsedCommit, ReturnDisowns DEF CommitDelivered, Owns
  <2>3. \A p \in Orders \ {order[s]} : records'[p] = records[p]
    BY <1>8, UnlapsedCommit, OtherRecordsKept
  <2>4. QED
    BY <2>1, <2>2, <2>3, KeepsExclusive
<1>9. ASSUME NEW s \in Services, DropCall(s)
      PROVE  Exclusive'
  <2>1. OthersKept(s)
    BY <1>9, StepIsLocal
  <2>2. ~Owns(s)' /\ UNCHANGED records
    BY <1>9, ReturnDisowns DEF DropCall
  <2>3. QED
    BY <2>1, <2>2, KeepsExclusive
<1>10. CASE Crash
  BY <1>10 DEF Crash, Exclusive, Owns
<1>11. CASE UNCHANGED vars
  BY <1>11 DEF vars, Exclusive, Owns
<1>12. QED
  BY <1>1, <1>2, <1>3, <1>4, <1>5, <1>6, <1>7, <1>8, <1>9, <1>10, <1>11, UnlapsedRest
  DEF Next, Advance

(* As long as the store has not lapsed. *)
UnlapsedExclusively == LateLapsed /\ (~lapsed => Exclusive)

LEMMA UnlapsedExclusive == Spec => []UnlapsedExclusively
<1>1. Init => UnlapsedExclusively
  BY InitLateLapsed DEF Init, UnlapsedExclusively, Exclusive, Owns
<1>2. TypeOK /\ UnlapsedExclusively /\ [Next]_vars => UnlapsedExclusively'
  BY NextLapses, NextExclusive DEF UnlapsedExclusively
<1>3. QED
  BY <1>1, <1>2, TypeCorrect, PTL DEF Spec

(* While a call is between its claim and its last store operation nobody   *)
(* else works on its order, and the order's record is its own.             *)
THEOREM ExclusiveClaims == Spec => []ClaimIsExclusive
BY UnlapsedExclusive, PTL DEF ClaimIsExclusive, UnlapsedExclusively, Exclusive
-----------------------------------------------------------------------------
(* How many deliveries an order has had agrees with its record and with    *)
(* the call that owns it: none before the message is accepted, one after.  *)
Sent(s) == pc[s] = "commit" /\ api[s] = "process"

SaleInv ==
  /\ \A o \in Orders :
       /\ deliveries[o] \in {0, 1}
       /\ records[o].status = "absent" => deliveries[o] = 0
       /\ records[o].status = "delivered" => deliveries[o] = 1
  /\ \A s \in Services : Owns(s) =>
       /\ deliveries[order[s]] = IF Sent(s) THEN 1 ELSE 0
       /\ pc[s] # "commit" => api[s] = "process"

IndSaleInv == ~lapsed => SaleInv

(* The invariant survives a step of s that keeps the records and the       *)
(* deliveries of other orders and leaves its own order consistent.         *)
LEMMA KeepsSaleInv ==
  ASSUME TypeOK, Exclusive, SaleInv, NEW s \in Services, OthersKept(s),
         \A p \in Orders \ {order[s]} :
            records'[p].status = records[p].status /\ deliveries'[p] = deliveries[p],
         Owns(s) \/ ~Contains(records, order[s]) \/ UNCHANGED deliveries,
         deliveries'[order[s]] \in {0, 1},
         records'[order[s]].status = "absent" => deliveries'[order[s]] = 0,
         records'[order[s]].status = "delivered" => deliveries'[order[s]] = 1,
         Owns(s)' => /\ order'[s] = order[s]
                     /\ deliveries'[order[s]] = IF Sent(s)' THEN 1 ELSE 0
                     /\ pc'[s] # "commit" => api'[s] = "process"
  PROVE  SaleInv'
<1>1. \A o \in Orders :
       /\ deliveries'[o] \in {0, 1}
       /\ records'[o].status = "absent" => deliveries'[o] = 0
       /\ records'[o].status = "delivered" => deliveries'[o] = 1
  BY DEF SaleInv
<1>2. ASSUME NEW t \in Services \ {s}, Owns(t)'
      PROVE  /\ deliveries'[order'[t]] = IF Sent(t)' THEN 1 ELSE 0
             /\ pc'[t] # "commit" => api'[t] = "process"
  <2>1. /\ Owns(t) /\ order'[t] = order[t] /\ (Sent(t)' <=> Sent(t)) /\ order[t] \in Orders
        /\ Contains(records, order[t]) /\ pc'[t] = pc[t] /\ api'[t] = api[t]
    BY <1>2 DEF OthersKept, Owns, Sent, TypeOK, Exclusive
  <2>2. deliveries[order[t]] = IF Sent(t) THEN 1 ELSE 0
    BY <2>1 DEF SaleInv
  <2>3. deliveries'[order[t]] = deliveries[order[t]]
    <3>1. CASE order[t] = order[s]
      BY <2>1, <3>1 DEF Exclusive
    <3>2. CASE order[t] # order[s]
      BY <2>1, <3>2
    <3>3. QED
      BY <3>1, <3>2
  <2>4. QED
    BY <2>1, <2>2, <2>3 DEF SaleInv
<1>3. QED
  BY <1>1, <1>2 DEF SaleInv, Owns, Sent

(* Every step keeps the count of an order's deliveries consistent with its *)
(* record and with the call that owns it.                                  *)
LEMMA NextSaleInv ==
  TypeOK /\ LateLapsed /\ ~lapsed' /\ Exclusive /\ SaleInv /\ [Next]_vars => SaleInv'
<1> SUFFICES ASSUME TypeOK, LateLapsed, ~lapsed', Exclusive, SaleInv, [Next]_vars
             PROVE  SaleInv'
  OBVIOUS
<1>a. ASSUME NEW s \in Services, OthersKept(s), UNCHANGED << records, deliveries >>, ~Owns(s)'
      PROVE  SaleInv'
  <2>1. order[s] \in Orders
    BY DEF TypeOK
  <2>2. QED
    BY <1>a, <2>1, KeepsSaleInv DEF SaleInv
<1>1. ASSUME NEW s \in Services, NEW k \in Products, NEW b \in Batches, AddProduct(s, k, b)
      PROVE  SaleInv'
  BY <1>1 DEF AddProduct, SaleInv, Owns, Sent
<1>2. ASSUME NEW s \in Services, NEW o \in Orders, NEW a \in {"process", "deliver"},
             NEW paid \in BOOLEAN, Call(s, o, a, paid)
      PROVE  SaleInv'
  <2>1. pc'[s] \in {"idle", "check"}
    <3>1. CASE Return(s, "OrderNotPaid")
      BY <3>1, ReturnDisowns
    <3>2. CASE pc' = [pc EXCEPT ![s] = "check"]
      BY <3>2 DEF TypeOK
    <3>3. QED
      BY <1>2, <3>1, <3>2, Zenon DEF Call
  <2>2. ~Owns(s)' /\ UNCHANGED << records, deliveries >>
    BY <1>2, <2>1 DEF Call, Owns
  <2>3. QED
    BY <1>2, <1>a, <2>2, StepIsLocal
<1>3. ASSUME NEW s \in Services, CheckOrder(s)
      PROVE  SaleInv'
  <2>1. ~Owns(s)' /\ UNCHANGED << records, deliveries >>
    BY <1>3, ReturnDisowns DEF CheckOrder, GoTo, Owns, TypeOK
  <2>2. QED
    BY <1>3, <1>a, <2>1, StepIsLocal DEF Advance
<1>4. ASSUME NEW s \in Services, Reserve(s)
      PROVE  SaleInv'
  <2>1. ~Owns(s)' /\ UNCHANGED << records, deliveries >>
    BY <1>4, ReturnDisowns DEF Reserve, GoTo, Owns, TypeOK
  <2>2. QED
    BY <1>4, <1>a, <2>1, StepIsLocal DEF Advance
<1>5. ASSUME NEW s \in Services, ClaimPending(s)
      PROVE  SaleInv'
  <2>1. OthersKept(s) /\ UNCHANGED << deliveries, api, order >> /\ order[s] \in Orders
    BY <1>5, StepIsLocal DEF Advance, ClaimPending, TypeOK
  <2>2. CASE UNCHANGED records /\ \E r : Return(s, r)
    BY <1>a, <2>1, <2>2, ReturnDisowns
  <2>3. CASE /\ ~Contains(records, order[s])
             /\ records' = Claimed(records, order[s], reserved[s])
             /\ GoTo(s, IF api[s] = "process" THEN "send" ELSE "commit")
    <3>1. /\ \A p \in Orders \ {order[s]} : records'[p] = records[p]
          /\ records'[order[s]] = Pending(reserved[s])
      BY <2>3, EffectsAreLocal, OtherRecordsKept
    <3>2. deliveries[order[s]] = 0
      BY <2>1, <2>3 DEF SaleInv
    <3>3. ~Sent(s)' /\ (pc'[s] # "commit" => api'[s] = "process")
      BY <2>1, <2>3 DEF Sent, GoTo, TypeOK
    <3>4. QED
      BY <2>1, <2>3, <3>1, <3>2, <3>3, KeepsSaleInv
  <2>4. QED
    BY <1>5, <2>2, <2>3, UnlapsedClaim
<1>6. ASSUME NEW s \in Services, SendDelivery(s)
      PROVE  SaleInv'
  <2>1. OthersKept(s) /\ UNCHANGED << records, api, order >> /\ order[s] \in Orders
    BY <1>6, StepIsLocal DEF Advance, SendDelivery, TypeOK
  <2>2. /\ Owns(s) /\ ~Sent(s) /\ records[order[s]].status = "pending"
        /\ deliveries[order[s]] = 0 /\ api'[s] = "process"
    BY <1>6, <2>1 DEF SendDelivery, Owns, Sent, Exclusive, SaleInv
  <2>3. ASSUME Sell(s)
        PROVE  /\ deliveries'[order[s]] = 1
               /\ \A p \in Orders \ {order[s]} : deliveries'[p] = deliveries[p]
    BY <2>1, <2>2, <2>3 DEF Sell, TypeOK
  <2>4. CASE SendAccepted(s)
    <3>1. Sent(s)'
      BY <2>2, <2>4 DEF SendAccepted, GoTo, Sent, TypeOK
    <3>2. QED
      BY <2>1, <2>2, <2>3, <2>4, <3>1, KeepsSaleInv DEF SendAccepted
  <2>5. CASE SendRejected(s)
    <3>1. ~Sent(s)' /\ UNCHANGED deliveries
      BY <2>5 DEF SendRejected, Stray, GoTo, Sent, TypeOK
    <3>2. QED
      BY <2>1, <2>2, <3>1, KeepsSaleInv
  <2>6. CASE SendFailed(s)
    <3>1. ~Owns(s)'
      BY <2>6, ReturnDisowns DEF SendFailed
    <3>2. CASE Sell(s)
      BY <2>1, <2>2, <2>3, <3>1, <3>2, KeepsSaleInv
    <3>3. CASE UNCHANGED saleVars
      BY <1>a, <2>1, <3>1, <3>3
    <3>4. QED
      BY <2>6, <3>2, <3>3 DEF SendFailed
  <2>7. QED
    BY <1>6, <2>4, <2>5, <2>6 DEF SendDelivery
<1>7. ASSUME NEW s \in Services, ReleasePending(s)
      PROVE  SaleInv'
  <2>1. /\ OthersKept(s) /\ order[s] \in Orders /\ UNCHANGED deliveries
        /\ Owns(s) /\ ~Sent(s)
    BY <1>7, StepIsLocal DEF Advance, ReleasePending, TypeOK, Owns, Sent
  <2>2. ~Owns(s)' /\ (UNCHANGED records \/ records' = Released(records, order[s]))
    BY <1>7, UnlapsedRelease, ReturnDisowns
  <2>3. deliveries[order[s]] = 0 /\ records[order[s]].status = "pending"
    BY <2>1 DEF SaleInv, Exclusive
  <2>4. CASE records' = Released(records, order[s])
    <3>1. records'[order[s]].status = "absent"
      BY <2>1, <2>3, <2>4 DEF Released, Releases, RecordMaps, TypeOK, StoreTypeOK
    <3>2. QED
      BY <2>1, <2>2, <2>3, <2>4, <3>1, OtherRecordsKept, KeepsSaleInv
  <2>5. QED
    BY <1>a, <2>1, <2>2, <2>4
<1>8. ASSUME NEW s \in Services, CommitDelivered(s)
      PROVE  SaleInv'
  <2>1. OthersKept(s) /\ order[s] \in Orders /\ Owns(s)
    BY <1>8, StepIsLocal DEF Advance, CommitDelivered, TypeOK, Owns
  <2>2. ~Owns(s)'
    BY <1>8, UnlapsedCommit, ReturnDisowns
  <2>3. CASE UNCHANGED << records, deliveries >>
    BY <1>a, <2>1, <2>2, <2>3
  <2>4. CASE /\ records' = Committed(records, order[s], reserved[s])
             /\ IF api[s] = "deliver" THEN Sell(s) ELSE UNCHANGED saleVars
    <3>1. /\ deliveries'[order[s]] = 1
          /\ \A p \in Orders \ {order[s]} : deliveries'[p] = deliveries[p]
      <4>1. CASE api[s] = "deliver"
        <5>1. deliveries[order[s]] = 0
          BY <2>1, <4>1 DEF SaleInv, Sent
        <5>2. QED
          BY <2>1, <2>4, <4>1, <5>1 DEF Sell, TypeOK
      <4>2. CASE api[s] # "deliver"
        <5>1. Sent(s)
          BY <1>8, <4>2 DEF Sent, TypeOK, CommitDelivered
        <5>2. QED
          BY <2>1, <2>4, <4>2, <5>1 DEF SaleInv
      <4>3. QED
        BY <4>1, <4>2
    <3>2. records' = Committed(records, order[s], reserved[s])
      BY <2>4, Zenon
    <3>3. records'[order[s]].status = "delivered"
      <4>1. records'[order[s]] = Delivered(reserved[s])
        BY <3>2, EffectsAreLocal
      <4>2. QED
        BY <4>1
    <3>4. \A p \in Orders \ {order[s]} : records'[p] = records[p]
      BY <3>2, OtherRecordsKept
    <3>5. QED
      BY <2>1, <2>2, <3>1, <3>3, <3>4, KeepsSaleInv
  <2>5. QED
    BY <1>8, <2>3, <2>4, UnlapsedCommit
<1>9. ASSUME NEW s \in Services, DropCall(s)
      PROVE  SaleInv'
  <2>1. ~Owns(s)' /\ UNCHANGED << records, deliveries >>
    BY <1>9, ReturnDisowns DEF DropCall
  <2>2. QED
    BY <1>9, <1>a, <2>1, StepIsLocal
<1>10. CASE Crash
  BY <1>10, UnlapsedRest DEF Crash, SaleInv, Owns, Sent
<1>11. CASE UNCHANGED vars
  BY <1>11 DEF vars, SaleInv, Owns, Sent
<1>12. QED
  BY <1>1, <1>2, <1>3, <1>4, <1>5, <1>6, <1>7, <1>8, <1>9, <1>10, <1>11, UnlapsedRest
  DEF Next, Advance

(* The inductive invariant behind ServedAtMostOnce holds throughout. *)
LEMMA SaleInvariant == Spec => []IndSaleInv
<1>1. Init => IndSaleInv
  <2> SUFFICES ASSUME Init PROVE SaleInv
    BY DEF IndSaleInv
  <2>1. \A o \in Orders : deliveries[o] = 0 /\ records[o].status = "absent"
    BY DEF Init, StoreInit
  <2>2. \A s \in Services : ~Owns(s)
    BY DEF Init, Owns
  <2>3. QED
    BY <2>1, <2>2 DEF SaleInv
<1>2. TypeOK /\ UnlapsedExclusively /\ IndSaleInv /\ [Next]_vars => IndSaleInv'
  BY NextLapses, NextSaleInv DEF IndSaleInv, UnlapsedExclusively
<1>3. QED
  BY <1>1, <1>2, TypeCorrect, UnlapsedExclusive, PTL DEF Spec

(* No order is served twice, for any number of services, calls, retries    *)
(* and failures, as long as the store keeps what it was told.              *)
THEOREM ServedAtMostOnce == Spec => []AtMostOnce
<1>1. IndSaleInv => AtMostOnce
  <2>1. ASSUME SaleInv, NEW o \in Orders PROVE deliveries[o] <= 1
    <3>1. deliveries[o] = 0 \/ deliveries[o] = 1
      BY <2>1 DEF SaleInv
    <3>2. QED
      BY <3>1
  <2>2. QED
    BY <2>1, Zenon DEF IndSaleInv, AtMostOnce
<1>2. QED
  BY <1>1, SaleInvariant, PTL
-----------------------------------------------------------------------------
KeepsDelivered ==
  \A o \in Orders : records[o].status = "delivered" => records'[o] = records[o]

(* No step touches a delivered record: an operation on the store that      *)
(* writes does so under a claim, so on a pending record, or on a free one. *)
LEMMA NextKeepsDelivered ==
  TypeOK /\ LateLapsed /\ ~lapsed' /\ Exclusive /\ [Next]_vars => KeepsDelivered
<1> SUFFICES ASSUME TypeOK, LateLapsed, ~lapsed', Exclusive, [Next]_vars
             PROVE  KeepsDelivered
  OBVIOUS
<1>1. ASSUME UNCHANGED records PROVE KeepsDelivered
  BY <1>1 DEF KeepsDelivered
<1>2. ASSUME NEW s \in Services, records[order[s]].status # "delivered",
             \A p \in Orders \ {order[s]} : records'[p] = records[p]
      PROVE  KeepsDelivered
  BY <1>2 DEF KeepsDelivered
<1>3. ASSUME NEW s \in Services, ClaimPending(s)
      PROVE  KeepsDelivered
  <2>1. CASE ~Contains(records, order[s]) /\ records' = Claimed(records, order[s], reserved[s])
    <3>1. records[order[s]].status # "delivered"
      BY <2>1 DEF Contains
    <3>2. QED
      BY <1>2, <2>1, <3>1, OtherRecordsKept
  <2>2. QED
    BY <1>1, <1>3, <2>1, UnlapsedClaim
<1>4. ASSUME NEW s \in Services, ReleasePending(s)
      PROVE  KeepsDelivered
  <2>1. records[order[s]].status = "pending"
    BY <1>4 DEF ReleasePending, Exclusive, Owns
  <2>2. \A p \in Orders \ {order[s]} : records'[p] = records[p]
    BY <1>4, UnlapsedRelease, OtherRecordsKept
  <2>3. QED
    BY <1>2, <2>1, <2>2
<1>5. ASSUME NEW s \in Services, CommitDelivered(s)
      PROVE  KeepsDelivered
  <2>1. records[order[s]].status = "pending"
    BY <1>5 DEF CommitDelivered, Exclusive, Owns
  <2>2. \A p \in Orders \ {order[s]} : records'[p] = records[p]
    BY <1>5, UnlapsedCommit, OtherRecordsKept
  <2>3. QED
    BY <1>2, <2>1, <2>2
<1>6. CASE Crash
  BY <1>1, <1>6, UnlapsedRest
<1>7. CASE UNCHANGED records
  BY <1>1, <1>7
<1>8. QED
  BY <1>3, <1>4, <1>5, <1>6, <1>7, UnlapsedRest
  DEF Next, Advance, vars, AddProduct, Call, CheckOrder, Reserve, SendDelivery, DropCall

(* A delivered record is never changed or removed as long as the store     *)
(* keeps what it was told.                                                 *)
THEOREM DeliveredStays == Spec => DeliveredIsFinal
<1>1. TypeOK /\ UnlapsedExclusively /\ [Next]_vars =>
        [~lapsed' => \A o \in Orders : records[o].status = "delivered" =>
           records'[o] = records[o]]_vars
  BY NextLapses, NextKeepsDelivered DEF KeepsDelivered, UnlapsedExclusively
<1>2. QED
  BY <1>1, TypeCorrect, UnlapsedExclusive, PTL DEF Spec, DeliveredIsFinal
-----------------------------------------------------------------------------
(* Where an item can be: in a batch not registered yet, in an inventory,   *)
(* in the hands of a call, with the buyer of an order.                     *)
Batch(b)    == << "supply", b, 0 >>
Shelf(s, k) == << "stock", s, k >>
Hand(s)     == << "call", s, 0 >>
Buyer(o)    == << "sold", o, 0 >>

Places == {Batch(b) : b \in Batches} \cup {Shelf(s, k) : s \in Services, k \in Products}
            \cup {Hand(s) : s \in Services} \cup {Buyer(o) : o \in Orders}

At(p) ==
  IF p[1] = "supply" THEN IF p[2] \in supply THEN Range(p[2]) ELSE {}
  ELSE IF p[1] = "stock" THEN Range(stock[p[2]][p[3]])
  ELSE IF p[1] = "call" THEN Unsent(p[2])
  ELSE sold[p[2]]

(* No item is in two places. *)
Apart == \A p, q \in Places : p # q => At(p) \cap At(q) = {}

(* No place holds an item twice, and what a call holds is what its stage   *)
(* says.                                                                   *)
Handling ==
  /\ \A s \in Services, k \in Products : IsInjective(stock[s][k])
  /\ \A s \in Services :
       /\ IsInjective(reserved[s])
       /\ pc[s] \in {"idle", "check", "reserve", "release"} => reserved[s] = << >>
       /\ pc[s] \in {"claim", "send", "commit"} =>
            /\ product[s] \in Products
            /\ Len(reserved[s]) = Requested(order[s])
       /\ pc[s] \in {"send", "release"} => api[s] = "process"

(* How the items move in a step: nothing new anywhere, or to one place     *)
(* from one other.                                                         *)
Fades == \A p \in Places : At(p)' \subseteq At(p)

Moves(from, to) ==
  /\ \A p \in Places \ {to} : At(p)' \subseteq At(p)
  /\ At(to)' \subseteq At(to) \cup At(from)
  /\ At(to)' \cap At(from)' = {}

(* A step that only moves items keeps them apart. *)
LEMMA MovesKeepApart ==
  ASSUME Apart, NEW from \in Places, NEW to \in Places, from # to,
         Fades \/ Moves(from, to)
  PROVE  Apart'
<1>1. CASE Fades
  BY <1>1 DEF Fades, Apart
<1>2. CASE Moves(from, to)
  <2>1. \A p \in Places \ {to} : At(p)' \cap At(to)' = {}
    BY <1>2 DEF Moves, Apart
  <2>2. \A p, q \in Places \ {to} : p # q => At(p)' \cap At(q)' = {}
    BY <1>2 DEF Moves, Apart
  <2>3. QED
    BY <2>1, <2>2 DEF Apart
<1>3. QED
  BY <1>1, <1>2

(* Places are told apart by what they are places of. *)
LEMMA PlacesDiffer ==
  /\ \A b \in Batches : Batch(b) \in Places
  /\ \A s \in Services : Hand(s) \in Places
  /\ \A s \in Services, k \in Products : Shelf(s, k) \in Places
  /\ \A o \in Orders : Buyer(o) \in Places
  /\ \A s \in Services, k \in Products, b \in Batches : Batch(b) # Shelf(s, k)
  /\ \A s, t \in Services, k \in Products : Hand(s) # Shelf(t, k)
  /\ \A s \in Services, o \in Orders : Hand(s) # Buyer(o)
  /\ \A s \in Services, k \in Products, o \in Orders : Shelf(s, k) # Buyer(o)
  /\ \A b \in Batches, o \in Orders : Batch(b) # Buyer(o)
  /\ \A s, t \in Services, j, k \in Products : Shelf(s, j) = Shelf(t, k) => s = t /\ j = k
  /\ \A o, p \in Orders : Buyer(o) = Buyer(p) => o = p
  /\ \A s, t \in Services : Hand(s) = Hand(t) => s = t
BY DEF Batch, Hand, Shelf, Buyer, Places

(* What lies at each kind of place. *)
LEMMA Contents ==
  /\ \A b : At(Batch(b)) = IF b \in supply THEN Range(b) ELSE {}
  /\ \A s, k : At(Shelf(s, k)) = Range(stock[s][k])
  /\ \A s : At(Hand(s)) = Unsent(s)
  /\ \A o : At(Buyer(o)) = sold[o]
BY DEF Batch, Hand, Shelf, Buyer, At

(* What lies there after a step. *)
LEMMA ContentsNext ==
  /\ \A b : At(Batch(b))' = IF b \in supply' THEN Range(b) ELSE {}
  /\ \A s, k : At(Shelf(s, k))' = Range(stock'[s][k])
  /\ \A s : At(Hand(s))' = Unsent(s)'
  /\ \A o : At(Buyer(o))' = sold'[o]
BY DEF Batch, Hand, Shelf, Buyer, At, Unsent

(* What changes only where an item may arrive. *)
LEMMA OnlyInto ==
  ASSUME NEW to \in Places,
         \A b \in Batches : Batch(b) # to => (b \in supply' => b \in supply),
         \A s \in Services, k \in Products :
            Shelf(s, k) # to => Range(stock'[s][k]) \subseteq Range(stock[s][k]),
         \A s \in Services : Hand(s) # to => Unsent(s)' \subseteq Unsent(s),
         \A o \in Orders : Buyer(o) # to => sold'[o] \subseteq sold[o]
  PROVE  \A p \in Places \ {to} : At(p)' \subseteq At(p)
<1>1. ASSUME NEW b \in Batches, Batch(b) # to PROVE At(Batch(b))' \subseteq At(Batch(b))
  BY <1>1, Contents, ContentsNext
<1>2. ASSUME NEW s \in Services, NEW k \in Products, Shelf(s, k) # to
      PROVE  At(Shelf(s, k))' \subseteq At(Shelf(s, k))
  BY <1>2, Contents, ContentsNext
<1>3. ASSUME NEW s \in Services, Hand(s) # to PROVE At(Hand(s))' \subseteq At(Hand(s))
  BY <1>3, Contents, ContentsNext
<1>4. ASSUME NEW o \in Orders, Buyer(o) # to PROVE At(Buyer(o))' \subseteq At(Buyer(o))
  BY <1>4, Contents, ContentsNext
<1>5. ASSUME NEW p \in Places \ {to} PROVE At(p)' \subseteq At(p)
  <2>1. \/ \E b \in Batches : p = Batch(b)
        \/ \E s \in Services, k \in Products : p = Shelf(s, k)
        \/ \E s \in Services : p = Hand(s)
        \/ \E o \in Orders : p = Buyer(o)
    BY <1>5 DEF Places
  <2>2. p # to
    BY <1>5
  <2>3. QED
    BY <1>1, <1>2, <1>3, <1>4, <2>1, <2>2
<1>6. QED
  BY <1>5

(* A step that leaves stock and buyers alone moves items only into the     *)
(* service's hand.                                                         *)
LEMMA OnlyIntoHand ==
  ASSUME TypeOK, NEW s \in Services, OthersKept(s), supply' \subseteq supply,
         UNCHANGED << stock, sold >>
  PROVE  /\ \A p \in Places \ {Hand(s)} : At(p)' \subseteq At(p)
         /\ Unsent(s)' \subseteq Unsent(s) => Fades
<1>1. \A t \in Services : Hand(t) # Hand(s) => Unsent(t)' \subseteq Unsent(t)
  BY DEF OthersKept, Unsent
<1>2. \A p \in Places \ {Hand(s)} : At(p)' \subseteq At(p)
  BY <1>1, PlacesDiffer, OnlyInto
<1>3. QED
  BY <1>2, Contents, ContentsNext DEF Fades
-----------------------------------------------------------------------------
(* Sequences of items that differ. *)
LEMMA EmptyHolds == Range(<< >>) = {} /\ IsInjective(<< >>)
BY DEF Range, IsInjective

(* The items taken from a queue and those left are its items, each once. *)
LEMMA TakenLeftItems ==
  ASSUME NEW q \in Seq(Items), IsInjective(q), NEW n \in Nat, n <= Len(q)
  PROVE  /\ IsInjective(Taken(q, n)) /\ IsInjective(Left(q, n))
         /\ Len(Taken(q, n)) = n
         /\ Range(Taken(q, n)) \cup Range(Left(q, n)) = Range(q)
         /\ Range(Taken(q, n)) \cap Range(Left(q, n)) = {}
<1>1. /\ Len(Taken(q, n)) = n /\ DOMAIN Taken(q, n) = 1..n
      /\ \A i \in 1..n : Taken(q, n)[i] = q[i]
  BY DEF Taken
<1>2. /\ Len(Left(q, n)) = Len(q) - n /\ DOMAIN Left(q, n) = 1..(Len(q) - n)
      /\ \A i \in 1..(Len(q) - n) : Left(q, n)[i] = q[n + i]
  BY DEF Left
<1>3. \A i, j \in 1..Len(q) : q[i] = q[j] => i = j
  BY DEF IsInjective
<1>4. IsInjective(Taken(q, n)) /\ IsInjective(Left(q, n))
  <2>1. \A i, j \in 1..n : q[i] = q[j] => i = j
    BY <1>3
  <2>2. \A i, j \in 1..(Len(q) - n) : q[n + i] = q[n + j] => i = j
    <3>1. ASSUME NEW i \in 1..(Len(q) - n), NEW j \in 1..(Len(q) - n), q[n + i] = q[n + j]
          PROVE  i = j
      <4>1. n + i \in 1..Len(q) /\ n + j \in 1..Len(q)
        OBVIOUS
      <4>2. n + i = n + j
        BY <1>3, <3>1, <4>1
      <4>3. QED
        BY <4>2
    <3>2. QED
      BY <3>1
  <2>3. IsInjective(Taken(q, n))
    BY <1>1, <2>1 DEF IsInjective
  <2>4. IsInjective(Left(q, n))
    BY <1>2, <2>2 DEF IsInjective
  <2>5. QED
    BY <2>3, <2>4
<1>5. Range(q) \subseteq Range(Taken(q, n)) \cup Range(Left(q, n))
  <2>1. ASSUME NEW i \in 1..Len(q)
        PROVE  q[i] \in Range(Taken(q, n)) \/ q[i] \in Range(Left(q, n))
    <3>1. CASE i <= n
      BY <1>1, <3>1 DEF Range
    <3>2. CASE i > n
      <4>1. i - n \in 1..(Len(q) - n) /\ q[i] = q[n + (i - n)]
        BY <3>2
      <4>2. QED
        BY <1>2, <4>1 DEF Range
    <3>3. QED
      BY <3>1, <3>2
  <2>2. QED
    BY <2>1 DEF Range
<1>6. Range(Taken(q, n)) \subseteq Range(q) /\ Range(Left(q, n)) \subseteq Range(q)
  <2>1. \A i \in 1..n : i \in 1..Len(q)
    OBVIOUS
  <2>2. \A i \in 1..(Len(q) - n) : n + i \in 1..Len(q)
    OBVIOUS
  <2>3. Range(Taken(q, n)) \subseteq Range(q)
    BY <1>1, <2>1 DEF Range
  <2>4. Range(Left(q, n)) \subseteq Range(q)
    BY <1>2, <2>2 DEF Range
  <2>5. QED
    BY <2>3, <2>4
<1>7. Range(Taken(q, n)) \cap Range(Left(q, n)) = {}
  BY <1>1, <1>2, <1>3 DEF Range
<1>8. QED
  BY <1>1, <1>4, <1>5, <1>6, <1>7

(* Two queues without a common item, one after the other, hold the items   *)
(* of both, each once.                                                     *)
LEMMA ConcatItems ==
  ASSUME NEW q \in Seq(Items), NEW r \in Seq(Items), IsInjective(q), IsInjective(r),
         Range(q) \cap Range(r) = {}
  PROVE  IsInjective(q \o r) /\ Range(q \o r) = Range(q) \cup Range(r)
<1>1. /\ DOMAIN (q \o r) = 1..(Len(q) + Len(r))
      /\ \A i \in 1..Len(q) : (q \o r)[i] = q[i]
      /\ \A i \in 1..Len(r) : (q \o r)[Len(q) + i] = r[i]
  OBVIOUS
<1>2. \A i \in 1..(Len(q) + Len(r)) :
        \/ i \in 1..Len(q)
        \/ i - Len(q) \in 1..Len(r) /\ i = Len(q) + (i - Len(q))
  OBVIOUS
<1>3. \A i \in 1..(Len(q) + Len(r)) :
        \/ i \in 1..Len(q) /\ (q \o r)[i] = q[i]
        \/ i - Len(q) \in 1..Len(r) /\ (q \o r)[i] = r[i - Len(q)]
  BY <1>1, <1>2
<1>4. Range(q \o r) \subseteq Range(q) \cup Range(r)
  BY <1>1, <1>3 DEF Range
<1>5. Range(q) \cup Range(r) \subseteq Range(q \o r)
  <2>1. ASSUME NEW i \in 1..Len(q) PROVE q[i] \in Range(q \o r)
    <3>1. i \in 1..(Len(q) + Len(r))
      OBVIOUS
    <3>2. QED
      BY <1>1, <3>1 DEF Range
  <2>2. ASSUME NEW i \in 1..Len(r) PROVE r[i] \in Range(q \o r)
    <3>1. Len(q) + i \in 1..(Len(q) + Len(r))
      OBVIOUS
    <3>2. QED
      BY <1>1, <3>1 DEF Range
  <2>3. DOMAIN q = 1..Len(q) /\ DOMAIN r = 1..Len(r)
    OBVIOUS
  <2>4. QED
    BY <2>1, <2>2, <2>3 DEF Range
<1>6. ASSUME NEW i \in DOMAIN (q \o r), NEW j \in DOMAIN (q \o r), (q \o r)[i] = (q \o r)[j]
      PROVE  i = j
  <2>1. CASE i \in 1..Len(q) /\ j \in 1..Len(q)
    BY <1>1, <1>6, <2>1 DEF IsInjective
  <2>2. CASE i - Len(q) \in 1..Len(r) /\ j - Len(q) \in 1..Len(r)
    <3>1. r[i - Len(q)] = r[j - Len(q)]
      BY <1>1, <1>3, <1>6, <2>2
    <3>2. i - Len(q) = j - Len(q)
      BY <2>2, <3>1 DEF IsInjective
    <3>3. QED
      BY <1>1, <1>6, <3>2
  <2>3. CASE \/ i \in 1..Len(q) /\ j - Len(q) \in 1..Len(r)
             \/ j \in 1..Len(q) /\ i - Len(q) \in 1..Len(r)
    <3>1. \A k \in 1..Len(q), l \in 1..Len(r) : q[k] # r[l]
      <4>1. /\ \A k \in 1..Len(q) : q[k] \in Range(q)
            /\ \A l \in 1..Len(r) : r[l] \in Range(r)
        BY DEF Range
      <4>2. QED
        BY <4>1
    <3>2. QED
      BY <1>1, <1>3, <1>6, <2>3, <3>1
  <2>4. QED
    BY <1>1, <1>2, <2>1, <2>2, <2>3
<1>7. QED
  BY <1>4, <1>5, <1>6 DEF IsInjective

(* A list of items that differ has as many items as its length. *)
LEMMA CountItems ==
  ASSUME NEW q \in Seq(Items), IsInjective(q)
  PROVE  Cardinality(Range(q)) = Len(q)
<1>1. q \in [1..Len(q) -> Items] /\ Len(q) \in Nat
  OBVIOUS
<1>2. q \in Injection(1..Len(q), Items)
  BY <1>1 DEF Injection
<1>3. q \in Bijection(1..Len(q), Range(q))
  BY <1>2, Fun_InjMeansBijImage
<1>4. QED
  BY <1>1, <1>3, FS_CountingElements DEF ExistsBijection
-----------------------------------------------------------------------------
(* The items of a call that returns are gone from its hands. *)
LEMMA ReturnEmpties ==
  ASSUME TypeOK, NEW s \in Services, NEW r, Return(s, r)
  PROVE  /\ reserved' = [reserved EXCEPT ![s] = << >>] /\ reserved'[s] = << >>
         /\ Unsent(s)' = {} /\ pc'[s] = "idle" /\ product'[s] = "none"
<1>1. reserved'[s] = << >> /\ pc'[s] = "idle" /\ product'[s] = "none"
  BY DEF TypeOK, Return
<1>2. QED
  BY <1>1, EmptyHolds DEF Return, Unsent

(* A call that holds what its stage says goes on doing so, if every other  *)
(* call and inventory is as it was.                                        *)
LEMMA KeepsHandling ==
  ASSUME Handling, NEW s \in Services, OthersKept(s),
         \A t \in Services \ {s} : product'[t] = product[t],
         \A t \in Services, k \in Products : IsInjective(stock'[t][k]),
         IsInjective(reserved'[s]),
         pc'[s] \in {"idle", "check", "reserve", "release"} => reserved'[s] = << >>,
         pc'[s] \in {"claim", "send", "commit"} =>
            product'[s] \in Products /\ Len(reserved'[s]) = Requested(order'[s]),
         pc'[s] \in {"send", "release"} => api'[s] = "process"
  PROVE  Handling'
BY DEF Handling, OthersKept

(* A service that returns has nothing in its hand. *)
LEMMA ReturnHandles ==
  ASSUME TypeOK, Handling, NEW s \in Services, NEW r, Return(s, r), OthersKept(s),
         \A t \in Services, k \in Products : IsInjective(stock'[t][k])
  PROVE  Handling'
<1>1. \A t \in Services \ {s} : product'[t] = product[t]
  BY DEF Return, TypeOK
<1>2. QED
  BY <1>1, ReturnEmpties, EmptyHolds, KeepsHandling

(* What a rejected message puts back in front of the inventory.            *)
LEMMA RestockedItems ==
  ASSUME TypeOK, Apart, Handling, NEW s \in Services, pc[s] = "send"
  PROVE  LET k == product[s]
             back == reserved[s] \o stock[s][k] IN
         /\ k \in Products /\ IsInjective(back)
         /\ Range(back) = Unsent(s) \cup Range(stock[s][k])
<1> DEFINE k == product[s]
<1>1. k \in Products /\ api[s] = "process" /\ Unsent(s) = Range(reserved[s])
  BY DEF Handling, Unsent
<1>2. reserved[s] \in Seq(Items) /\ stock[s][k] \in Seq(Items)
  BY <1>1 DEF TypeOK
<1>3. IsInjective(reserved[s]) /\ IsInjective(stock[s][k])
  BY <1>1 DEF Handling
<1>4. Range(reserved[s]) \cap Range(stock[s][k]) = {}
  <2> HIDE DEF k
  <2>1. Hand(s) \in Places /\ Shelf(s, k) \in Places /\ Hand(s) # Shelf(s, k)
    BY <1>1, PlacesDiffer
  <2>2. At(Hand(s)) \cap At(Shelf(s, k)) = {}
    BY <2>1 DEF Apart
  <2>3. At(Hand(s)) = Unsent(s) /\ At(Shelf(s, k)) = Range(stock[s][k])
    BY Contents
  <2>4. QED
    BY <1>1, <2>2, <2>3
<1>5. QED
  BY <1>1, <1>2, <1>3, <1>4, ConcatItems

(* The stages of a call agree with what it holds. *)
LEMMA NextHandling == TypeOK /\ Apart /\ Handling /\ [Next]_vars => Handling'
<1> SUFFICES ASSUME TypeOK, Apart, Handling, [Next]_vars PROVE Handling'
  OBVIOUS
<1>a. UNCHANGED stock => \A t \in Services, k \in Products : IsInjective(stock'[t][k])
  BY DEF Handling
<1>1. ASSUME NEW s \in Services, NEW k \in Products, NEW b \in Batches, AddProduct(s, k, b)
      PROVE  Handling'
  <2>1. \A t \in Services, j \in Products :
          stock'[t][j] = IF t = s /\ j = k THEN b ELSE stock[t][j]
    BY <1>1 DEF AddProduct, TypeOK
  <2>2. IsInjective(b)
    BY BatchesAssumption
  <2>3. \A t \in Services, j \in Products : IsInjective(stock'[t][j])
    BY <2>1, <2>2 DEF Handling
  <2>4. QED
    BY <1>1, <2>3 DEF AddProduct, Handling
<1>2. ASSUME NEW s \in Services, NEW o \in Orders, NEW a \in {"process", "deliver"},
             NEW paid \in BOOLEAN, Call(s, o, a, paid)
      PROVE  Handling'
  <2>1. OthersKept(s) /\ UNCHANGED stock /\ reserved[s] = << >>
    BY <1>2, StepIsLocal DEF Call, Handling
  <2>2. CASE Return(s, "OrderNotPaid")
    BY <1>a, <2>1, <2>2, ReturnHandles
  <2>3. CASE pc' = [pc EXCEPT ![s] = "check"] /\ UNCHANGED << product, reserved >>
    <3>1. pc'[s] = "check"
      BY <2>3 DEF TypeOK
    <3>2. QED
      BY <1>a, <2>1, <2>3, <3>1, EmptyHolds, KeepsHandling
  <2>4. QED
    BY <1>2, <2>2, <2>3 DEF Call
<1>3. ASSUME NEW s \in Services, CheckOrder(s)
      PROVE  Handling'
  <2>1. OthersKept(s) /\ UNCHANGED stock /\ reserved[s] = << >>
    BY <1>3, StepIsLocal DEF Advance, CheckOrder, Handling
  <2>2. CASE Return(s, "AlreadyDelivered")
    BY <1>a, <2>1, <2>2, ReturnHandles
  <2>3. CASE GoTo(s, "reserve") /\ UNCHANGED << product, reserved >>
    <3>1. pc'[s] = "reserve"
      BY <2>3 DEF TypeOK, GoTo
    <3>2. QED
      BY <1>a, <2>1, <2>3, <3>1, EmptyHolds, KeepsHandling
  <2>4. QED
    BY <1>3, <2>2, <2>3 DEF CheckOrder
<1>4. ASSUME NEW s \in Services, Reserve(s)
      PROVE  Handling'
  <2>1. OthersKept(s) /\ UNCHANGED << api, order >>
    BY <1>4, StepIsLocal DEF Advance, Reserve
  <2>2. CASE UNCHANGED stock /\ \E r : Return(s, r)
    BY <1>a, <2>1, <2>2, ReturnHandles
  <2>3. ASSUME NEW k \in Matches[order[s]], NEW n, n = Requested(order[s]),
               Len(stock[s][k]) >= n,
               reserved' = [reserved EXCEPT ![s] = Taken(stock[s][k], n)],
               product' = [product EXCEPT ![s] = k],
               stock' = [stock EXCEPT ![s][k] = Left(@, n)],
               GoTo(s, "claim")
        PROVE  Handling'
    <3>1. k \in Products /\ stock[s][k] \in Seq(Items) /\ n \in Nat
      BY <2>3, RequestedType, OrdersAssumption DEF TypeOK
    <3>2. IsInjective(stock[s][k])
      BY <3>1 DEF Handling
    <3>3. /\ IsInjective(Taken(stock[s][k], n)) /\ IsInjective(Left(stock[s][k], n))
          /\ Len(Taken(stock[s][k], n)) = n
      BY <2>3, <3>1, <3>2, TakenLeftItems
    <3>4. \A t \in Services, j \in Products :
            stock'[t][j] = IF t = s /\ j = k THEN Left(stock[s][k], n) ELSE stock[t][j]
      BY <2>3, <3>1 DEF TypeOK
    <3>5. \A t \in Services, j \in Products : IsInjective(stock'[t][j])
      BY <3>3, <3>4 DEF Handling
    <3>6. /\ pc'[s] = "claim" /\ reserved'[s] = Taken(stock[s][k], n) /\ product'[s] = k
          /\ \A t \in Services \ {s} : product'[t] = product[t]
      BY <2>3 DEF TypeOK, GoTo
    <3>7. QED
      BY <2>1, <2>3, <3>1, <3>3, <3>5, <3>6, KeepsHandling
  <2>4. QED
    BY <1>4, <2>2, <2>3 DEF Reserve
<1>5. ASSUME NEW s \in Services, ClaimPending(s)
      PROVE  Handling'
  <2>1. OthersKept(s) /\ UNCHANGED << stock, api, order >> /\ pc[s] = "claim"
    BY <1>5, StepIsLocal DEF Advance, ClaimPending
  <2>2. CASE \E r : Return(s, r)
    BY <1>a, <2>1, <2>2, ReturnHandles
  <2>3. CASE /\ GoTo(s, IF api[s] = "process" THEN "send" ELSE "commit")
             /\ UNCHANGED << product, reserved >>
    <3>1. pc'[s] = IF api[s] = "process" THEN "send" ELSE "commit"
      BY <2>3 DEF TypeOK, GoTo
    <3>2. /\ IsInjective(reserved[s]) /\ product[s] \in Products
          /\ Len(reserved[s]) = Requested(order[s])
      BY <2>1 DEF Handling
    <3>3. QED
      BY <1>a, <2>1, <2>3, <3>1, <3>2, KeepsHandling
  <2>4. QED
    BY <1>5, <2>2, <2>3 DEF ClaimPending, StoreCallFails
<1>6. ASSUME NEW s \in Services, SendDelivery(s)
      PROVE  Handling'
  <2>1. OthersKept(s) /\ UNCHANGED << api, order >> /\ pc[s] = "send"
    BY <1>6, StepIsLocal DEF Advance, SendDelivery
  <2>2. /\ IsInjective(reserved[s]) /\ product[s] \in Products /\ api[s] = "process"
        /\ Len(reserved[s]) = Requested(order[s])
    BY <2>1 DEF Handling
  <2>3. CASE SendAccepted(s)
    <3>1. pc'[s] = "commit" /\ UNCHANGED << stock, product, reserved >>
      BY <2>3 DEF SendAccepted, GoTo, TypeOK
    <3>2. QED
      BY <1>a, <2>1, <2>2, <3>1, KeepsHandling
  <2>4. CASE SendRejected(s)
    <3>1. /\ pc'[s] = "release" /\ reserved'[s] = << >>
          /\ \A t \in Services \ {s} : product'[t] = product[t]
      BY <2>4 DEF SendRejected, GoTo, TypeOK
    <3>2. \A t \in Services, j \in Products :
            stock'[t][j] = IF t = s /\ j = product[s] THEN reserved[s] \o stock[s][j]
                           ELSE stock[t][j]
      BY <2>2, <2>4 DEF SendRejected, TypeOK
    <3>3. IsInjective(reserved[s] \o stock[s][product[s]])
      BY <2>1, RestockedItems
    <3>4. \A t \in Services, j \in Products : IsInjective(stock'[t][j])
      BY <3>2, <3>3 DEF Handling
    <3>5. QED
      BY <2>1, <2>2, <3>1, <3>4, EmptyHolds, KeepsHandling
  <2>5. CASE SendFailed(s)
    BY <1>a, <2>1, <2>5, ReturnHandles DEF SendFailed
  <2>6. QED
    BY <1>6, <2>3, <2>4, <2>5 DEF SendDelivery
<1>7. ASSUME NEW s \in Services, ReleasePending(s)
      PROVE  Handling'
  <2>1. OthersKept(s) /\ UNCHANGED stock /\ \E r : Return(s, r)
    BY <1>7, StepIsLocal DEF Advance, ReleasePending, StoreCallFails
  <2>2. QED
    BY <1>a, <2>1, ReturnHandles
<1>8. ASSUME NEW s \in Services, CommitDelivered(s)
      PROVE  Handling'
  <2>1. OthersKept(s) /\ UNCHANGED stock /\ \E r : Return(s, r)
    BY <1>8, StepIsLocal DEF Advance, CommitDelivered, StoreCallFails
  <2>2. QED
    BY <1>a, <2>1, ReturnHandles
<1>9. ASSUME NEW s \in Services, DropCall(s)
      PROVE  Handling'
  <2>1. OthersKept(s) /\ UNCHANGED stock /\ Return(s, "none")
    BY <1>9, StepIsLocal DEF DropCall
  <2>2. QED
    BY <1>a, <2>1, ReturnHandles
<1>10. CASE Crash
  BY <1>10, EmptyHolds DEF Crash, Handling
<1>11. CASE LateWrite \/ UNCHANGED vars
  BY <1>11 DEF LateWrite, vars, Handling
<1>12. QED
  BY <1>1, <1>2, <1>3, <1>4, <1>5, <1>6, <1>7, <1>8, <1>9, <1>10, <1>11
  DEF Next, Advance
-----------------------------------------------------------------------------
(* Items go to a buyer from the hands of the call that owns the order, and *)
(* leave nothing there; or from one place of the services to another.      *)
Sale(s, o) ==
  /\ o = order[s] /\ Sell(s) /\ pc[s] \in {"send", "commit"} /\ ~Sent(s)
  /\ Moves(Hand(s), Buyer(o))
  /\ At(Hand(s))' = {}

Shelved == \E from, to \in Places : /\ from # to /\ Moves(from, to)
                                    /\ \A o \in Orders : to # Buyer(o) /\ from # Buyer(o)

(* A message or an answer that reaches the buyer sells what the call holds *)
(* and has not yet sent.                                                   *)
LEMMA SellMoves ==
  ASSUME TypeOK, NEW s \in Services, OthersKept(s), UNCHANGED << supply, stock >>,
         Sell(s), pc[s] \in {"send", "commit"}, ~Sent(s), Unsent(s)' = {}
  PROVE  \E o \in Orders : Sale(s, o)
<1>1. PICK o \in Orders : o = order[s]
  BY DEF TypeOK
<1>2. Unsent(s) = Range(reserved[s])
  BY DEF Unsent, Sent
<1>3. \A p \in Orders : sold'[p] = IF p = o THEN sold[p] \cup Unsent(s) ELSE sold[p]
  BY <1>1, <1>2 DEF Sell, TypeOK
<1>4. \A t \in Services : Unsent(t)' \subseteq Unsent(t)
  BY DEF OthersKept, Unsent
<1>5. Buyer(o) \in Places /\ \A p \in Orders : Buyer(p) # Buyer(o) => sold'[p] \subseteq sold[p]
  BY <1>3, PlacesDiffer
<1>6. \A p \in Places \ {Buyer(o)} : At(p)' \subseteq At(p)
  BY <1>4, <1>5, OnlyInto
<1>7. /\ At(Buyer(o)) = sold[o] /\ At(Buyer(o))' = sold'[o]
      /\ At(Hand(s)) = Unsent(s) /\ At(Hand(s))' = {}
  BY Contents, ContentsNext
<1>8. Moves(Hand(s), Buyer(o))
  BY <1>3, <1>6, <1>7 DEF Moves
<1>9. QED
  BY <1>1, <1>7, <1>8 DEF Sale

(* A step in which s gives up or keeps what it holds, and nothing else.    *)
LEMMA HandFades ==
  ASSUME TypeOK, NEW s \in Services, OthersKept(s), UNCHANGED << supply, stock, sold, deliveries >>,
         \/ \E r : Return(s, r)
         \/ UNCHANGED << api, reserved >> /\ (Sent(s) => Sent(s)')
  PROVE  Fades
<1>1. Unsent(s)' \subseteq Unsent(s)
  <2>1. CASE \E r : Return(s, r)
    BY <2>1, ReturnEmpties
  <2>2. CASE UNCHANGED << api, reserved >> /\ (Sent(s) => Sent(s)')
    BY <2>2 DEF Unsent, Sent
  <2>3. QED
    BY <2>1, <2>2
<1>2. QED
  BY <1>1, OnlyIntoHand

(* Every step loses items, moves them among the services, or sells them.   *)
LEMMA StepMoves ==
  ASSUME TypeOK, Apart, Handling, [Next]_vars
  PROVE  \/ (Fades \/ Shelved) /\ UNCHANGED << sold, deliveries >>
         \/ \E s \in Services, o \in Orders : Sale(s, o)
<1> DEFINE Moved == \/ (Fades \/ Shelved) /\ UNCHANGED << sold, deliveries >>
                    \/ \E s \in Services, o \in Orders : Sale(s, o)
<1>1. ASSUME NEW s \in Services, NEW k \in Products, NEW b \in Batches, AddProduct(s, k, b)
      PROVE  Moved
  <2>1. /\ b \in supply /\ supply' = supply \ {b} /\ UNCHANGED << callVars, sold, deliveries >>
        /\ \A t \in Services, j \in Products :
             stock'[t][j] = IF t = s /\ j = k THEN b ELSE stock[t][j]
    BY <1>1 DEF AddProduct, TypeOK
  <2>2. \A p \in Places \ {Shelf(s, k)} : At(p)' \subseteq At(p)
    <3>1. \A t \in Services : Unsent(t)' = Unsent(t)
      BY <2>1 DEF Unsent
    <3>2. \A t \in Services, j \in Products : Shelf(t, j) # Shelf(s, k) => stock'[t][j] = stock[t][j]
      BY <2>1
    <3>3. QED
      BY <2>1, <3>1, <3>2, PlacesDiffer, OnlyInto
  <2>3. At(Shelf(s, k))' = At(Batch(b)) /\ At(Batch(b))' = {}
    BY <2>1, Contents, ContentsNext
  <2>4. Moves(Batch(b), Shelf(s, k))
    BY <2>2, <2>3 DEF Moves
  <2>5. /\ Batch(b) \in Places /\ Shelf(s, k) \in Places /\ Batch(b) # Shelf(s, k)
        /\ \A o \in Orders : Batch(b) # Buyer(o) /\ Shelf(s, k) # Buyer(o)
    BY PlacesDiffer
  <2>6. QED
    BY <2>1, <2>4, <2>5 DEF Shelved
<1>2. ASSUME NEW s \in Services, NEW o \in Orders, NEW a \in {"process", "deliver"},
             NEW paid \in BOOLEAN, Call(s, o, a, paid)
      PROVE  Moved
  <2>1. OthersKept(s) /\ UNCHANGED << supply, stock, sold, deliveries >> /\ reserved[s] = << >>
    BY <1>2, StepIsLocal DEF Call, Handling
  <2>2. reserved'[s] = << >>
    <3>1. CASE Return(s, "OrderNotPaid")
      BY <3>1, ReturnEmpties
    <3>2. CASE reserved' = reserved
      BY <2>1, <3>2
    <3>3. QED
      BY <1>2, <3>1, <3>2 DEF Call
  <2>3. Unsent(s)' \subseteq Unsent(s)
    BY <2>2, EmptyHolds DEF Unsent
  <2>4. QED
    BY <2>1, <2>3, OnlyIntoHand
<1>3. ASSUME NEW s \in Services, CheckOrder(s)
      PROVE  Moved
  <2>1. OthersKept(s) /\ UNCHANGED << supply, stock, api, sold, deliveries >> /\ ~Sent(s)
    BY <1>3, StepIsLocal DEF Advance, CheckOrder, Sent
  <2>2. QED
    BY <1>3, <2>1, HandFades DEF CheckOrder
<1>4. ASSUME NEW s \in Services, Reserve(s)
      PROVE  Moved
  <2>1. OthersKept(s) /\ UNCHANGED << supply, sold, deliveries >> /\ reserved[s] = << >>
    BY <1>4, StepIsLocal DEF Advance, Reserve, Handling
  <2>2. CASE UNCHANGED stock /\ \E r : Return(s, r)
    BY <2>1, <2>2, HandFades
  <2>3. ASSUME NEW k \in Matches[order[s]], NEW n, n = Requested(order[s]),
               Len(stock[s][k]) >= n,
               reserved' = [reserved EXCEPT ![s] = Taken(stock[s][k], n)],
               stock' = [stock EXCEPT ![s][k] = Left(@, n)],
               GoTo(s, "claim")
        PROVE  Moved
    <3>1. k \in Products /\ stock[s][k] \in Seq(Items) /\ n \in Nat
      BY <2>3, RequestedType, OrdersAssumption DEF TypeOK
    <3>2. IsInjective(stock[s][k])
      BY <3>1 DEF Handling
    <3>3. /\ Range(Taken(stock[s][k], n)) \cup Range(Left(stock[s][k], n)) = Range(stock[s][k])
          /\ Range(Taken(stock[s][k], n)) \cap Range(Left(stock[s][k], n)) = {}
      BY <2>3, <3>1, <3>2, TakenLeftItems
    <3>4. \A t \in Services, j \in Products :
            stock'[t][j] = IF t = s /\ j = k THEN Left(stock[s][k], n) ELSE stock[t][j]
      BY <2>3, <3>1 DEF TypeOK
    <3>5. Unsent(s)' = Range(Taken(stock[s][k], n))
      BY <2>3 DEF Unsent, GoTo, TypeOK
    <3>6. \A p \in Places \ {Hand(s)} : At(p)' \subseteq At(p)
      <4>1. \A t \in Services : Hand(t) # Hand(s) => Unsent(t)' \subseteq Unsent(t)
        BY <2>1 DEF OthersKept, Unsent
      <4>2. \A t \in Services, j \in Products : Range(stock'[t][j]) \subseteq Range(stock[t][j])
        BY <3>3, <3>4
      <4>3. QED
        BY <2>1, <4>1, <4>2, PlacesDiffer, OnlyInto
    <3>7. /\ At(Hand(s))' \subseteq At(Shelf(s, k))
          /\ At(Hand(s))' \cap At(Shelf(s, k))' = {}
      BY <3>1, <3>3, <3>4, <3>5, Contents, ContentsNext
    <3>8. Moves(Shelf(s, k), Hand(s))
      BY <3>6, <3>7 DEF Moves
    <3>9. /\ Hand(s) \in Places /\ Shelf(s, k) \in Places /\ Hand(s) # Shelf(s, k)
          /\ \A o \in Orders : Hand(s) # Buyer(o) /\ Shelf(s, k) # Buyer(o)
      BY <3>1, PlacesDiffer
    <3>10. QED
      BY <2>1, <3>8, <3>9 DEF Shelved
  <2>4. QED
    BY <1>4, <2>2, <2>3 DEF Reserve
<1>5. ASSUME NEW s \in Services, ClaimPending(s)
      PROVE  Moved
  <2>1. OthersKept(s) /\ UNCHANGED << supply, stock, api, sold, deliveries >> /\ ~Sent(s)
    BY <1>5, StepIsLocal DEF Advance, ClaimPending, Sent
  <2>2. QED
    BY <1>5, <2>1, HandFades DEF ClaimPending, StoreCallFails
<1>6. ASSUME NEW s \in Services, SendDelivery(s)
      PROVE  Moved
  <2>1. /\ OthersKept(s) /\ UNCHANGED << supply, api, order >> /\ pc[s] = "send"
        /\ ~Sent(s)
    BY <1>6, StepIsLocal DEF Advance, SendDelivery, Sent
  <2>2. CASE SendAccepted(s)
    <3>1. pc'[s] = "commit" /\ api'[s] = "process"
      BY <2>1, <2>2 DEF SendAccepted, GoTo, TypeOK, Handling
    <3>2. Unsent(s)' = {}
      BY <3>1 DEF Unsent
    <3>3. QED
      BY <2>1, <2>2, <3>2, SellMoves DEF SendAccepted
  <2>3. CASE SendRejected(s)
    <3>0. product[s] \in Products
      BY <2>1, RestockedItems
    <3> PICK k \in Products : k = product[s]
      BY <3>0
    <3>1. Range(reserved[s] \o stock[s][k]) = Unsent(s) \cup Range(stock[s][k])
      BY <2>1, RestockedItems
    <3>2. \A t \in Services, j \in Products :
            stock'[t][j] = IF t = s /\ j = k THEN reserved[s] \o stock[s][j] ELSE stock[t][j]
      BY <2>3, <3>1 DEF SendRejected, TypeOK
    <3>3. reserved'[s] = << >> /\ UNCHANGED << sold, deliveries >>
      BY <2>3 DEF SendRejected, Stray, TypeOK
    <3>4. Unsent(s)' = {}
      BY <3>3, EmptyHolds DEF Unsent
    <3>5. \A t \in Services : Unsent(t)' \subseteq Unsent(t)
      BY <2>1, <3>4 DEF OthersKept, Unsent
    <3>6. \A t \in Services, j \in Products : Shelf(t, j) # Shelf(s, k) => stock'[t][j] = stock[t][j]
      BY <3>2
    <3>7. \A p \in Places \ {Shelf(s, k)} : At(p)' \subseteq At(p)
      BY <2>1, <3>1, <3>3, <3>5, <3>6, PlacesDiffer, OnlyInto
    <3>8. /\ At(Hand(s)) = Unsent(s) /\ At(Hand(s))' = Unsent(s)'
          /\ At(Shelf(s, k)) = Range(stock[s][k]) /\ At(Shelf(s, k))' = Range(stock'[s][k])
      BY Contents, ContentsNext
    <3>9. Moves(Hand(s), Shelf(s, k))
      BY <3>1, <3>2, <3>4, <3>7, <3>8 DEF Moves
    <3>10. /\ Hand(s) \in Places /\ Shelf(s, k) \in Places /\ Hand(s) # Shelf(s, k)
           /\ \A o \in Orders : Hand(s) # Buyer(o) /\ Shelf(s, k) # Buyer(o)
      BY PlacesDiffer
    <3>11. QED
      BY <3>3, <3>9, <3>10 DEF Shelved
  <2>4. CASE SendFailed(s)
    <3>1. Return(s, "SendError") /\ UNCHANGED stock /\ (Sell(s) \/ UNCHANGED << sold, deliveries >>)
      BY <2>4 DEF SendFailed
    <3>2. Unsent(s)' = {}
      BY <3>1, ReturnEmpties
    <3>3. QED
      BY <2>1, <3>1, <3>2, HandFades, SellMoves
  <2>5. QED
    BY <1>6, <2>2, <2>3, <2>4 DEF SendDelivery
<1>7. ASSUME NEW s \in Services, ReleasePending(s)
      PROVE  Moved
  <2>1. OthersKept(s) /\ UNCHANGED << supply, stock, sold, deliveries >> /\ \E r : Return(s, r)
    BY <1>7, StepIsLocal DEF Advance, ReleasePending, StoreCallFails
  <2>2. QED
    BY <2>1, HandFades
<1>8. ASSUME NEW s \in Services, CommitDelivered(s)
      PROVE  Moved
  <2>1. OthersKept(s) /\ UNCHANGED << supply, stock >> /\ \E r : Return(s, r)
    BY <1>8, StepIsLocal DEF Advance, CommitDelivered, StoreCallFails
  <2>2. Unsent(s)' = {} /\ pc[s] = "commit"
    BY <1>8, <2>1, ReturnEmpties DEF CommitDelivered
  <2>3. CASE UNCHANGED << sold, deliveries >>
    BY <2>1, <2>3, HandFades
  <2>4. CASE api[s] = "deliver" /\ Sell(s)
    <3>1. ~Sent(s)
      BY <2>4 DEF Sent
    <3>2. QED
      BY <2>1, <2>2, <2>4, <3>1, SellMoves
  <2>5. QED
    BY <1>8, <2>3, <2>4 DEF CommitDelivered
<1>9. ASSUME NEW s \in Services, DropCall(s)
      PROVE  Moved
  <2>1. OthersKept(s) /\ UNCHANGED << supply, stock, sold, deliveries >> /\ Return(s, "none")
    BY <1>9, StepIsLocal DEF DropCall
  <2>2. QED
    BY <2>1, HandFades
<1>10. CASE Crash
  <2>1. /\ \A s \in Services : reserved'[s] = << >>
        /\ \A s \in Services, k \in Products : stock'[s][k] = << >>
        /\ UNCHANGED << supply, sold, deliveries >>
    BY <1>10 DEF Crash
  <2>2. /\ \A s \in Services : Unsent(s)' = {}
        /\ \A s \in Services, k \in Products : Range(stock'[s][k]) = {}
    BY <2>1, EmptyHolds DEF Unsent
  <2>3. ASSUME NEW p \in Places PROVE At(p)' \subseteq At(p)
    <3>1. CASE \E s \in Services : p = Hand(s)
      BY <2>2, <3>1, ContentsNext
    <3>2. CASE \A s \in Services : p # Hand(s)
      <4>1. CASE \E b \in Batches : p = Batch(b)
        BY <2>1, <4>1, Contents, ContentsNext
      <4>2. CASE \E s \in Services, k \in Products : p = Shelf(s, k)
        BY <2>2, <4>2, ContentsNext
      <4>3. CASE \E o \in Orders : p = Buyer(o)
        BY <2>1, <4>3, Contents, ContentsNext
      <4>4. QED
        BY <3>2, <4>1, <4>2, <4>3 DEF Places
    <3>3. QED
      BY <3>1, <3>2
  <2>4. QED
    BY <2>1, <2>3 DEF Fades
<1>11. CASE LateWrite \/ UNCHANGED vars
  <2>1. \A p \in Places : At(p)' = At(p)
    BY <1>11 DEF LateWrite, vars, At, Unsent
  <2>2. QED
    BY <1>11, <2>1 DEF LateWrite, vars, Fades
<1>12. QED
  BY <1>1, <1>2, <1>3, <1>4, <1>5, <1>6, <1>7, <1>8, <1>9, <1>10, <1>11
  DEF Next, Advance
-----------------------------------------------------------------------------
(* Before the first step every item is in one batch. *)
LEMMA InitApart == Init => Apart /\ Handling
<1> SUFFICES ASSUME Init PROVE Apart /\ Handling
  OBVIOUS
<1>1. /\ supply = Batches
      /\ \A s \in Services, k \in Products : stock[s][k] = << >>
      /\ \A s \in Services : reserved[s] = << >> /\ pc[s] = "idle"
      /\ \A o \in Orders : sold[o] = {}
  BY DEF Init
<1>2. /\ \A s \in Services : At(Hand(s)) = {}
      /\ \A s \in Services, k \in Products : At(Shelf(s, k)) = {}
      /\ \A o \in Orders : At(Buyer(o)) = {}
  BY <1>1, Contents, EmptyHolds DEF Unsent
<1>3. \A b \in Batches : At(Batch(b)) = Range(b)
  BY <1>1, Contents
<1>4. ASSUME NEW p \in Places, NEW q \in Places, p # q PROVE At(p) \cap At(q) = {}
  <2>1. CASE At(p) = {} \/ At(q) = {}
    BY <2>1
  <2>2. CASE (\E b \in Batches : p = Batch(b)) /\ (\E c \in Batches : q = Batch(c))
    BY <1>3, <1>4, <2>2, BatchesAssumption
  <2>3. QED
    BY <1>2, <2>1, <2>2 DEF Places
<1>5. Handling
  BY <1>1, EmptyHolds DEF Handling
<1>6. QED
  BY <1>4, <1>5 DEF Apart

(* A step keeps the items apart. *)
LEMMA NextApart == TypeOK /\ Apart /\ Handling /\ [Next]_vars => Apart'
<1> SUFFICES ASSUME TypeOK, Apart, Handling, [Next]_vars PROVE Apart'
  OBVIOUS
<1>1. CASE \E p \in Places : TRUE
  <2>1. CASE Fades
    BY <2>1 DEF Fades, Apart
  <2>2. CASE Shelved
    BY <2>2, MovesKeepApart DEF Shelved
  <2>3. ASSUME NEW s \in Services, NEW o \in Orders, Sale(s, o) PROVE Apart'
    <3>1. Hand(s) \in Places /\ Buyer(o) \in Places /\ Hand(s) # Buyer(o)
      BY PlacesDiffer
    <3>2. QED
      BY <2>3, <3>1, MovesKeepApart DEF Sale
  <2>4. QED
    BY <2>1, <2>2, <2>3, StepMoves
<1>2. QED
  BY <1>1 DEF Apart

(* Every item is in one place at a time. *)
LEMMA ItemsApart == Spec => [](Apart /\ Handling)
BY InitApart, NextApart, NextHandling, TypeCorrect, PTL DEF Spec

(* What can still be sold is what is not with a buyer. *)
OfServices == {p \in Places : \A o \in Orders : p # Buyer(o)}

UnsoldIsOurs == \A i : i \in Unsold <=> \E p \in OfServices : i \in At(p)

(* The unsold items are those at a place that is no buyer. *)
LEMMA UnsoldPlaces == TypeOK => UnsoldIsOurs
<1> SUFFICES ASSUME TypeOK, NEW i PROVE i \in Unsold <=> \E p \in OfServices : i \in At(p)
  BY DEF UnsoldIsOurs
<1>1. /\ \A b \in Batches : Batch(b) \in OfServices
      /\ \A s \in Services, k \in Products : Shelf(s, k) \in OfServices
      /\ \A s \in Services : Hand(s) \in OfServices
  BY PlacesDiffer DEF OfServices
<1>2. \A p \in OfServices :
        \/ \E b \in Batches : p = Batch(b)
        \/ \E s \in Services, k \in Products : p = Shelf(s, k)
        \/ \E s \in Services : p = Hand(s)
  BY DEF OfServices, Places
<1>3. i \in Supplied <=> \E b \in Batches : i \in At(Batch(b))
  <2>1. supply \subseteq Batches
    BY DEF TypeOK
  <2>2. \A b \in Batches : At(Batch(b)) = IF b \in supply THEN Range(b) ELSE {}
    BY Contents
  <2>3. QED
    BY <2>1, <2>2 DEF Supplied
<1>4. i \in Stocked <=> \E s \in Services, k \in Products : i \in At(Shelf(s, k))
  BY Contents DEF Stocked
<1>5. i \in Held <=> \E s \in Services : i \in At(Hand(s))
  BY Contents DEF Held
<1>6. i \in Unsold <=> i \in Supplied \/ i \in Stocked \/ i \in Held
  BY DEF Unsold
<1>7. QED
  BY <1>1, <1>2, <1>3, <1>4, <1>5, <1>6

(* No item goes to two orders, and no sold item can be sold again.         *)
THEOREM NothingSoldTwice == Spec => []NoItemSoldTwice
<1>1. ASSUME TypeOK, Apart PROVE NoItemSoldTwice
  <2>1. ASSUME NEW o \in Orders, NEW i \in sold[o], i \in Unsold PROVE FALSE
    <3>1. PICK p \in OfServices : i \in At(p)
      BY <1>1, <2>1, UnsoldPlaces DEF UnsoldIsOurs
    <3>2. p \in Places /\ Buyer(o) \in Places /\ p # Buyer(o) /\ i \in At(Buyer(o))
      BY <2>1, <3>1, PlacesDiffer, Contents DEF OfServices
    <3>3. QED
      BY <1>1, <3>1, <3>2 DEF Apart
  <2>2. ASSUME NEW o \in Orders, NEW p \in Orders \ {o} PROVE sold[o] \cap sold[p] = {}
    <3>1. Buyer(o) \in Places /\ Buyer(p) \in Places /\ Buyer(o) # Buyer(p)
      BY <2>2, PlacesDiffer
    <3>2. At(Buyer(o)) \cap At(Buyer(p)) = {}
      BY <1>1, <3>1 DEF Apart
    <3>3. QED
      BY <3>2, Contents
  <2>3. QED
    BY <2>1, <2>2 DEF NoItemSoldTwice
<1>2. QED
  BY <1>1, ItemsApart, TypeCorrect, PTL
-----------------------------------------------------------------------------
(* A delivery hands over as many items as the order asks for, and before   *)
(* it the buyer has none.                                                  *)
Quantities ==
  \A o \in Orders : /\ deliveries[o] = 0 => sold[o] = {}
                    /\ deliveries[o] = 1 => Cardinality(sold[o]) = Requested(o)

(* Every step keeps the quantities: a buyer gets as many items as the      *)
(* order asks for.                                                         *)
LEMMA NextQuantities ==
  TypeOK /\ Apart /\ Handling /\ Quantities /\ [Next]_vars => Quantities'
<1> SUFFICES ASSUME TypeOK, Apart, Handling, Quantities, [Next]_vars PROVE Quantities'
  OBVIOUS
<1>1. CASE UNCHANGED << sold, deliveries >>
  BY <1>1 DEF Quantities, Requested
<1>2. ASSUME NEW s \in Services, NEW o \in Orders, Sale(s, o) PROVE Quantities'
  <2>1. o = order[s] /\ pc[s] \in {"send", "commit"}
    BY <1>2 DEF Sale
  <2>2. /\ reserved[s] \in Seq(Items) /\ IsInjective(reserved[s])
        /\ Len(reserved[s]) = Requested(o)
    BY <2>1 DEF Handling, TypeOK
  <2>3. Cardinality(Range(reserved[s])) = Requested(o)
    BY <2>2, CountItems
  <2>4. \A p \in Orders :
          /\ sold'[p] = IF p = o THEN sold[p] \cup Range(reserved[s]) ELSE sold[p]
          /\ deliveries'[p] = IF p = o THEN deliveries[p] + 1 ELSE deliveries[p]
    BY <1>2, <2>1 DEF Sale, Sell, TypeOK
  <2>5. deliveries[o] \in Nat /\ (deliveries[o] = 0 => sold[o] = {})
    BY DEF TypeOK, Quantities
  <2>6. /\ deliveries'[o] # 0
        /\ deliveries'[o] = 1 => sold'[o] = Range(reserved[s])
    <3>1. /\ deliveries'[o] = deliveries[o] + 1
          /\ sold'[o] = sold[o] \cup Range(reserved[s])
      BY <2>4
    <3>2. deliveries'[o] # 0 /\ (deliveries'[o] = 1 => deliveries[o] = 0)
      BY <2>5, <3>1
    <3>3. QED
      BY <2>5, <3>1, <3>2
  <2>7. QED
    BY <2>3, <2>4, <2>6 DEF Quantities, Requested
<1>3. QED
  BY <1>1, <1>2, StepMoves

(* What is sold of an order agrees with how often it was delivered.        *)
LEMMA QuantitiesKept == Spec => []Quantities
<1>1. Init => Quantities
  <2> SUFFICES ASSUME Init PROVE Quantities
    OBVIOUS
  <2>1. \A o \in Orders : sold[o] = {} /\ deliveries[o] = 0
    BY DEF Init
  <2>2. 0 # 1
    OBVIOUS
  <2>3. QED
    BY <2>1, <2>2 DEF Quantities
<1>2. QED
  BY <1>1, NextQuantities, ItemsApart, TypeCorrect, PTL DEF Spec

(* A buyer gets exactly as many items as were ordered. *)
THEOREM QuantityIsExact == Spec => []ExactQuantity
<1>1. Quantities => ExactQuantity
  BY DEF Quantities, ExactQuantity
<1>2. QED
  BY <1>1, QuantitiesKept, PTL
-----------------------------------------------------------------------------
(* What RecordsTellTheTruth says of a store that has not lapsed. *)
RecordsAndAnswersTrue ==
  /\ \A o \in Orders : records[o].status = "delivered" =>
        deliveries[o] >= 1 /\ Range(records[o].items) \subseteq sold[o]
  /\ \A s \in Services : pc[s] = "idle" /\ result[s] = "Ok" =>
        records[order[s]].status = "delivered"

(* An Ok call whose message was accepted has sold what it still lists.     *)
TruthInv ==
  /\ \A s \in Services : Sent(s) =>
        deliveries[order[s]] >= 1 /\ Range(reserved[s]) \subseteq sold[order[s]]
  /\ RecordsAndAnswersTrue

(* What a buyer has got stays, and so does the count of it. *)
LEMMA SalesGrow ==
  ASSUME TypeOK, Apart, Handling, [Next]_vars
  PROVE  \A o \in Orders : deliveries'[o] >= deliveries[o] /\ sold[o] \subseteq sold'[o]
<1>1. \A o \in Orders : deliveries[o] \in Nat
  BY DEF TypeOK
<1>2. CASE UNCHANGED << sold, deliveries >>
  BY <1>1, <1>2
<1>3. ASSUME NEW s \in Services, Sell(s)
      PROVE  \A o \in Orders : deliveries'[o] >= deliveries[o] /\ sold[o] \subseteq sold'[o]
  BY <1>1, <1>3 DEF Sell, TypeOK
<1>4. QED
  BY <1>2, <1>3, StepMoves DEF Sale

(* The invariant survives a step of s that changes no other order's record *)
(* and no delivered one, if what s writes and returns is true.             *)
LEMMA KeepsTruth ==
  ASSUME TypeOK, Apart, Handling, [Next]_vars, TruthInv, NEW s \in Services, OthersKept(s),
         \A o \in Orders : records[o].status = "delivered" => records'[o] = records[o],
         \A o \in Orders : records'[o].status = "delivered" =>
            \/ records'[o] = records[o]
            \/ deliveries'[o] >= 1 /\ Range(records'[o].items) \subseteq sold'[o],
         Sent(s)' => deliveries'[order'[s]] >= 1 /\ Range(reserved'[s]) \subseteq sold'[order'[s]],
         pc'[s] = "idle" /\ result'[s] = "Ok" => records'[order'[s]].status = "delivered"
  PROVE  TruthInv'
<1>1. /\ \A o \in Orders : deliveries[o] \in Nat /\ deliveries'[o] >= deliveries[o]
      /\ \A o \in Orders : deliveries'[o] \in Nat
      /\ \A o \in Orders : sold[o] \subseteq sold'[o]
      /\ \A t \in Services : order[t] \in Orders
  BY SalesGrow, NextType DEF TypeOK
<1>2. \A o \in Orders : deliveries[o] >= 1 => deliveries'[o] >= 1
  BY <1>1
<1>3. ASSUME NEW o \in Orders, records'[o].status = "delivered"
      PROVE  deliveries'[o] >= 1 /\ Range(records'[o].items) \subseteq sold'[o]
  BY <1>1, <1>2, <1>3 DEF TruthInv, RecordsAndAnswersTrue
<1>4. ASSUME NEW t \in Services, Sent(t)'
      PROVE  deliveries'[order'[t]] >= 1 /\ Range(reserved'[t]) \subseteq sold'[order'[t]]
  <2>1. CASE t = s
    BY <1>4, <2>1
  <2>2. CASE t # s
    BY <1>1, <1>2, <1>4, <2>2 DEF OthersKept, Sent, TruthInv
  <2>3. QED
    BY <2>1, <2>2
<1>5. ASSUME NEW t \in Services, pc'[t] = "idle", result'[t] = "Ok"
      PROVE  records'[order'[t]].status = "delivered"
  <2>1. CASE t = s
    BY <1>5, <2>1
  <2>2. CASE t # s
    <3>1. records[order[t]].status = "delivered" /\ order'[t] = order[t]
      BY <1>5, <2>2 DEF OthersKept, TruthInv, RecordsAndAnswersTrue
    <3>2. QED
      BY <1>1, <3>1
  <2>3. QED
    BY <2>1, <2>2
<1>6. QED
  BY <1>3, <1>4, <1>5 DEF TruthInv, RecordsAndAnswersTrue

(* Every step keeps the records and the answers true. *)
LEMMA NextTruth ==
  /\ TypeOK /\ LateLapsed /\ ~lapsed' /\ Exclusive /\ Apart /\ Handling /\ TruthInv
  /\ [Next]_vars
  => TruthInv'
<1> SUFFICES ASSUME TypeOK, LateLapsed, ~lapsed', Exclusive, Apart, Handling, TruthInv,
                    [Next]_vars
             PROVE  TruthInv'
  OBVIOUS
<1>a. ASSUME NEW s \in Services, OthersKept(s), ~Sent(s)',
             \A o \in Orders : records[o].status = "delivered" => records'[o] = records[o],
             \A o \in Orders : records'[o].status = "delivered" => records'[o] = records[o],
             pc'[s] # "idle" \/ result'[s] # "Ok"
      PROVE  TruthInv'
  BY <1>a, KeepsTruth
<1>b. ASSUME NEW s \in Services, NEW r, Return(s, r), r # "Ok", OthersKept(s), UNCHANGED records
      PROVE  TruthInv'
  <2>1. ~Sent(s)' /\ result'[s] # "Ok"
    BY <1>b, ReturnDisowns DEF Sent
  <2>2. QED
    BY <1>a, <1>b, <2>1
<1>1. ASSUME NEW s \in Services, NEW k \in Products, NEW b \in Batches, AddProduct(s, k, b)
      PROVE  TruthInv'
  BY <1>1 DEF AddProduct, TruthInv, RecordsAndAnswersTrue, Sent
<1>2. ASSUME NEW s \in Services, NEW o \in Orders, NEW a \in {"process", "deliver"},
             NEW paid \in BOOLEAN, Call(s, o, a, paid)
      PROVE  TruthInv'
  <2>1. OthersKept(s) /\ UNCHANGED records
    BY <1>2, StepIsLocal DEF Call
  <2>2. CASE Return(s, "OrderNotPaid")
    BY <1>b, <2>1, <2>2
  <2>3. CASE pc' = [pc EXCEPT ![s] = "check"]
    <3>1. pc'[s] = "check"
      BY <2>3 DEF TypeOK
    <3>2. QED
      BY <1>a, <2>1, <3>1 DEF Sent
  <2>4. QED
    BY <1>2, <2>2, <2>3 DEF Call
<1>3. ASSUME NEW s \in Services, CheckOrder(s)
      PROVE  TruthInv'
  <2>1. OthersKept(s) /\ UNCHANGED records
    BY <1>3, StepIsLocal DEF Advance, CheckOrder
  <2>2. CASE GoTo(s, "reserve")
    <3>1. pc'[s] = "reserve"
      BY <2>2 DEF GoTo, TypeOK
    <3>2. QED
      BY <1>a, <2>1, <3>1 DEF Sent
  <2>3. QED
    BY <1>3, <1>b, <2>1, <2>2 DEF CheckOrder
<1>4. ASSUME NEW s \in Services, Reserve(s)
      PROVE  TruthInv'
  <2>1. OthersKept(s) /\ UNCHANGED records
    BY <1>4, StepIsLocal DEF Advance, Reserve
  <2>2. CASE GoTo(s, "claim")
    <3>1. pc'[s] = "claim"
      BY <2>2 DEF GoTo, TypeOK
    <3>2. QED
      BY <1>a, <2>1, <3>1 DEF Sent
  <2>3. QED
    BY <1>4, <1>b, <2>1, <2>2 DEF Reserve
<1>5. ASSUME NEW s \in Services, ClaimPending(s)
      PROVE  TruthInv'
  <2>1. OthersKept(s) /\ UNCHANGED api /\ order[s] \in Orders
    BY <1>5, StepIsLocal DEF Advance, ClaimPending, TypeOK
  <2>2. CASE /\ ~Contains(records, order[s]) /\ records' = Claimed(records, order[s], reserved[s])
             /\ GoTo(s, IF api[s] = "process" THEN "send" ELSE "commit")
    <3>1. ~Sent(s)' /\ pc'[s] # "idle"
      BY <2>1, <2>2 DEF GoTo, TypeOK, Sent
    <3>2. /\ \A p \in Orders \ {order[s]} : records'[p] = records[p]
          /\ records'[order[s]] = Pending(reserved[s])
      BY <2>2, EffectsAreLocal, OtherRecordsKept
    <3>3. records[order[s]].status = "absent" /\ records'[order[s]].status = "pending"
      BY <2>2, <3>2
    <3>4. QED
      BY <1>a, <2>1, <3>1, <3>2, <3>3
  <2>3. QED
    BY <1>5, <1>b, <2>1, <2>2, UnlapsedClaim
<1>6. ASSUME NEW s \in Services, SendDelivery(s)
      PROVE  TruthInv'
  <2>1. OthersKept(s) /\ UNCHANGED << records, order >> /\ order[s] \in Orders
    BY <1>6, StepIsLocal DEF Advance, SendDelivery, TypeOK
  <2>2. CASE SendAccepted(s)
    <3>1. pc'[s] = "commit" /\ UNCHANGED reserved
      BY <2>2 DEF SendAccepted, GoTo, TypeOK
    <3>2. /\ deliveries'[order[s]] = deliveries[order[s]] + 1
          /\ sold'[order[s]] = sold[order[s]] \cup Range(reserved[s])
      BY <2>1, <2>2 DEF SendAccepted, Sell, TypeOK
    <3>3. deliveries[order[s]] \in Nat
      BY <2>1 DEF TypeOK
    <3>4. deliveries'[order[s]] >= 1 /\ Range(reserved'[s]) \subseteq sold'[order[s]]
      BY <3>1, <3>2, <3>3
    <3>5. QED
      BY <2>1, <3>1, <3>4, KeepsTruth
  <2>3. CASE SendRejected(s)
    <3>1. pc'[s] = "release"
      BY <2>3 DEF SendRejected, GoTo, TypeOK
    <3>2. QED
      BY <1>a, <2>1, <3>1 DEF Sent
  <2>4. QED
    BY <1>6, <1>b, <2>1, <2>2, <2>3 DEF SendDelivery, SendFailed
<1>7. ASSUME NEW s \in Services, ReleasePending(s)
      PROVE  TruthInv'
  <2>1. OthersKept(s) /\ order[s] \in Orders
    BY <1>7, StepIsLocal DEF Advance, ReleasePending, TypeOK
  <2>2. CASE records' = Released(records, order[s]) /\ Return(s, "MessageSendFailed")
    <3>1. records[order[s]].status = "pending"
      BY <1>7 DEF ReleasePending, Exclusive, Owns
    <3>2. records'[order[s]].status = "absent"
      BY <2>1, <2>2, <3>1 DEF Released, Releases, RecordMaps, TypeOK, StoreTypeOK
    <3>3. \A p \in Orders \ {order[s]} : records'[p] = records[p]
      BY <2>2, OtherRecordsKept
    <3>4. ~Sent(s)' /\ result'[s] # "Ok"
      BY <2>2, ReturnDisowns DEF Sent
    <3>5. QED
      BY <1>a, <2>1, <3>1, <3>2, <3>3, <3>4
  <2>3. QED
    BY <1>7, <1>b, <2>1, <2>2, UnlapsedRelease
<1>8. ASSUME NEW s \in Services, CommitDelivered(s)
      PROVE  TruthInv'
  <2>1. OthersKept(s) /\ UNCHANGED order /\ order[s] \in Orders /\ pc[s] = "commit"
    BY <1>8, StepIsLocal DEF Advance, CommitDelivered, TypeOK
  <2>2. CASE /\ records' = Committed(records, order[s], reserved[s])
             /\ IF api[s] = "deliver" THEN Sell(s) ELSE UNCHANGED saleVars
             /\ Return(s, "Ok")
    <3>1. ~Sent(s)'
      BY <2>2, ReturnDisowns DEF Sent
    <3>2. /\ records'[order[s]] = Delivered(reserved[s])
          /\ \A p \in Orders \ {order[s]} : records'[p] = records[p]
      BY <2>2, EffectsAreLocal, OtherRecordsKept
    <3>3. deliveries'[order[s]] >= 1 /\ Range(reserved[s]) \subseteq sold'[order[s]]
      <4>1. CASE api[s] = "deliver"
        <5>1. /\ deliveries'[order[s]] = deliveries[order[s]] + 1
              /\ sold'[order[s]] = sold[order[s]] \cup Range(reserved[s])
          BY <2>1, <2>2, <4>1 DEF Sell, TypeOK
        <5>2. deliveries[order[s]] \in Nat
          BY <2>1 DEF TypeOK
        <5>3. QED
          BY <5>1, <5>2
      <4>2. CASE api[s] # "deliver"
        <5>1. Sent(s)
          BY <2>1, <4>2 DEF Sent, TypeOK
        <5>2. QED
          BY <2>2, <4>2, <5>1 DEF TruthInv
      <4>3. QED
        BY <4>1, <4>2
    <3>4. records[order[s]].status = "pending"
      BY <2>1 DEF Exclusive, Owns
    <3>5. records'[order[s]].status = "delivered" /\ records'[order[s]].items = reserved[s]
      BY <3>2
    <3>6. QED
      BY <2>1, <3>1, <3>2, <3>3, <3>4, <3>5, KeepsTruth
  <2>3. QED
    BY <1>8, <1>b, <2>1, <2>2, UnlapsedCommit
<1>9. ASSUME NEW s \in Services, DropCall(s)
      PROVE  TruthInv'
  <2>1. OthersKept(s) /\ UNCHANGED records /\ Return(s, "none")
    BY <1>9, StepIsLocal DEF DropCall
  <2>2. QED
    BY <1>b, <2>1
<1>10. CASE Crash
  <2>1. /\ \A s \in Services : pc'[s] = "idle" /\ result'[s] = "none"
        /\ UNCHANGED << saleVars, order, records >>
    BY <1>10, UnlapsedRest DEF Crash
  <2>2. \A o \in Orders : records'[o].status = "delivered" => records'[o] = records[o]
    BY <2>1
  <2>3. QED
    BY <2>1, <2>2 DEF TruthInv, RecordsAndAnswersTrue, Sent
<1>11. CASE UNCHANGED vars
  BY <1>11 DEF vars, TruthInv, RecordsAndAnswersTrue, Sent
<1>12. QED
  BY <1>1, <1>2, <1>3, <1>4, <1>5, <1>6, <1>7, <1>8, <1>9, <1>10, <1>11, UnlapsedRest
  DEF Next, Advance

(* The records and the answers are true until the store lapses. *)
UnlapsedTruth == ~lapsed => TruthInv

LEMMA TruthKept == Spec => []UnlapsedTruth
<1>1. Init => UnlapsedTruth
  <2> SUFFICES ASSUME Init PROVE TruthInv
    BY DEF UnlapsedTruth
  <2>1. /\ \A o \in Orders : records[o].status = "absent"
        /\ \A s \in Services : pc[s] = "idle" /\ result[s] = "none"
    BY DEF Init, StoreInit
  <2>2. QED
    BY <2>1 DEF TruthInv, RecordsAndAnswersTrue, Sent
<1>2. TypeOK /\ UnlapsedExclusively /\ Apart /\ Handling /\ UnlapsedTruth /\ [Next]_vars
        => UnlapsedTruth'
  BY NextLapses, NextTruth DEF UnlapsedTruth, UnlapsedExclusively
<1>3. QED
  BY <1>1, <1>2, ItemsApart, TypeCorrect, UnlapsedExclusive, PTL DEF Spec

(* As long as the store keeps what it was told, a record says "delivered"  *)
(* only of an order that got the items it lists, and a call that returned  *)
(* Ok left such a record behind.                                           *)
THEOREM RecordsAreTrue == Spec => []RecordsTellTheTruth
<1>1. UnlapsedTruth => RecordsTellTheTruth
  BY DEF UnlapsedTruth, TruthInv, RecordsAndAnswersTrue, RecordsTellTheTruth
<1>2. QED
  BY <1>1, TruthKept, PTL
-----------------------------------------------------------------------------
(* What a step does to what can still be sold: it may lose some of it, and *)
(* a sale takes away what it sells.                                        *)
LEMMA UnsoldShrinks ==
  ASSUME TypeOK, TypeOK', Apart, Fades \/ Shelved \/ \E s \in Services, o \in Orders : Sale(s, o)
  PROVE  Unsold' \subseteq Unsold
<1>1. \A i : i \in Unsold <=> \E p \in OfServices : i \in At(p)
  BY UnsoldPlaces DEF UnsoldIsOurs
<1>2. \A i : i \in Unsold' <=> \E p \in OfServices : i \in At(p)'
  <2>1. TypeOK' => UnsoldIsOurs'
    BY UnsoldPlaces, PTL
  <2>2. QED
    BY <2>1 DEF UnsoldIsOurs, OfServices
<1>3. CASE Fades
  BY <1>1, <1>2, <1>3 DEF Fades, OfServices
<1>4. CASE Shelved
  <2>1. PICK from \in Places, to \in Places :
          Moves(from, to) /\ from \in OfServices /\ to \in OfServices
    BY <1>4 DEF Shelved, OfServices
  <2>2. \A p \in OfServices : At(p)' \subseteq At(p) \/ At(p)' \subseteq At(to) \cup At(from)
    BY <2>1 DEF Moves, OfServices
  <2>3. QED
    BY <1>1, <1>2, <2>1, <2>2
<1>5. ASSUME NEW s \in Services, NEW o \in Orders, Sale(s, o) PROVE Unsold' \subseteq Unsold
  <2>1. \A p \in OfServices : At(p)' \subseteq At(p)
    BY <1>5 DEF Sale, Moves, OfServices
  <2>2. QED
    BY <1>1, <1>2, <2>1
<1>6. QED
  BY <1>3, <1>4, <1>5

(* A sale takes the reserved items from what is unsold. *)
LEMMA SaleTakes ==
  ASSUME TypeOK, TypeOK', Apart, NEW s \in Services, NEW o \in Orders, Sale(s, o)
  PROVE  Unsent(s) \subseteq Unsold /\ Unsold' \cap Unsent(s) = {}
<1>1. Unsent(s) \subseteq Unsold
  BY DEF Unsold, Held
<1>2. ASSUME NEW i \in Unsold', i \in Unsent(s) PROVE FALSE
  <2>1. TypeOK' => UnsoldIsOurs'
    BY UnsoldPlaces, PTL
  <2>2. PICK p \in OfServices : i \in At(p)'
    BY <1>2, <2>1 DEF UnsoldIsOurs, OfServices
  <2>3. p \in Places /\ Hand(s) \in Places /\ At(p)' \subseteq At(p) /\ p # Hand(s)
    BY <2>2, PlacesDiffer DEF Sale, Moves, OfServices
  <2>4. i \in At(p) /\ i \in At(Hand(s))
    BY <1>2, <2>2, <2>3, Contents
  <2>5. QED
    BY <2>3, <2>4 DEF Apart
<1>3. QED
  BY <1>1, <1>2

(* Everything that can still be sold is an item. *)
LEMMA UnsoldItems == TypeOK => Unsold \subseteq Items
<1> SUFFICES ASSUME TypeOK PROVE Unsold \subseteq Items
  OBVIOUS
<1>1. \A q \in Seq(Items) : Range(q) \subseteq Items
  BY DEF Range
<1>2. Supplied \subseteq Items /\ Stocked \subseteq Items
  BY <1>1, BatchesAssumption DEF Supplied, Stocked, TypeOK
<1>3. Held \subseteq Items
  BY <1>1 DEF Held, Unsent, TypeOK
<1>4. QED
  BY <1>2, <1>3 DEF Unsold

(* What goes astray is what the call of a service holds. *)
LEMMA StrayTakes ==
  ASSUME TypeOK, [Next]_vars, UNCHANGED << sold, deliveries >>
  PROVE  \/ UNCHANGED astray
         \/ UNCHANGED lapsed /\ \E s \in Services, o \in Orders :
              astray' = [astray EXCEPT ![o] = @ \cup Unsent(s)]
<1>1. ASSUME NEW s \in Services, SendDelivery(s)
      PROVE  \/ UNCHANGED astray
             \/ UNCHANGED lapsed /\ \E o \in Orders :
                  astray' = [astray EXCEPT ![o] = @ \cup Unsent(s)]
  <2>1. CASE SendRejected(s) /\ Stray(s)
    <3>1. order[s] \in Orders /\ Unsent(s) = Range(reserved[s]) /\ UNCHANGED lapsed
      BY <1>1 DEF TypeOK, Unsent, SendDelivery
    <3>2. astray' = [astray EXCEPT ![order[s]] = @ \cup Unsent(s)]
      BY <2>1, <3>1 DEF Stray
    <3>3. QED
      BY <3>1, <3>2
  <2>2. CASE UNCHANGED astray
    BY <2>2
  <2>3. QED
    BY <1>1, <2>1, <2>2 DEF SendDelivery, SendAccepted, SendRejected, SendFailed, Sell
<1>2. ASSUME NEW s \in Services, CommitDelivered(s) PROVE UNCHANGED astray
  BY <1>2 DEF CommitDelivered, Sell
<1>3. QED
  BY <1>1, <1>2
  DEF Next, Advance, vars, AddProduct, Call, CheckOrder, Reserve, ClaimPending,
      ReleasePending, DropCall, Crash, LateWrite

(* Every step of the services is a step of the ledger. *)
LEMMA NextLedger ==
  ASSUME TypeOK, TypeOK', LateLapsed, Apart, Handling, IndSaleInv, [Next]_vars
  PROVE  [Ledger!Next]_(Ledger!vars)
<1>1. Unsold' \subseteq Unsold
  BY StepMoves, UnsoldShrinks
<1>2. Ledger!MayLapse
  BY NextLapses DEF Ledger!MayLapse, TypeOK
<1>3. CASE UNCHANGED << sold, deliveries >>
  <2>1. CASE UNCHANGED astray
    BY <1>1, <1>2, <1>3, <2>1 DEF Ledger!Next, Ledger!Lose
  <2>2. ASSUME NEW s \in Services, NEW o \in Orders, UNCHANGED lapsed,
               astray' = [astray EXCEPT ![o] = @ \cup Unsent(s)]
        PROVE  Ledger!Next
    <3>1. Unsent(s) \subseteq Unsold /\ Unsent(s) \in SUBSET Items
      BY UnsoldItems DEF Unsold, Held
    <3>2. Ledger!Stray(o, Unsent(s))
      BY <1>1, <1>3, <2>2, <3>1 DEF Ledger!Stray
    <3>3. QED
      BY <3>1, <3>2 DEF Ledger!Next
  <2>3. QED
    BY <1>3, <2>1, <2>2, StrayTakes
<1>4. ASSUME NEW s \in Services, NEW o \in Orders, Sale(s, o) PROVE Ledger!Next
  <2> DEFINE S == Unsent(s)
  <2>1. o = order[s] /\ Owns(s) /\ ~Sent(s) /\ S = Range(reserved[s])
    BY <1>4 DEF Sale, Owns, Unsent, Sent
  <2>2. deliveries[o] = 0 \/ lapsed
    BY <2>1 DEF IndSaleInv, SaleInv
  <2>3. S \subseteq Unsold /\ Unsold' \subseteq Unsold \ S /\ S \in SUBSET Items
    BY <1>1, <1>4, SaleTakes, UnsoldItems
  <2>4. /\ sold' = [sold EXCEPT ![o] = @ \cup S]
        /\ deliveries' = [deliveries EXCEPT ![o] = @ + 1]
        /\ UNCHANGED astray
    BY <1>4, <2>1 DEF Sale, Sell
  <2>5. Ledger!Sell(o, S)
    BY <1>2, <2>2, <2>3, <2>4 DEF Ledger!Sell
  <2>6. QED
    BY <2>3, <2>5 DEF Ledger!Next
<1>5. QED
  BY <1>3, <1>4, StepMoves

(* Services, stores, failures and restarts implement the ledger: an order  *)
(* is served at most once until the store lapses, always with unsold       *)
(* items, and what is sold or lost is never for sale again.                *)
THEOREM LedgerImplemented == Spec => ImplementsLedger
<1>1. Init => Ledger!Init
  BY InitType, UnsoldItems DEF Init, Ledger!Init
<1>2. TypeOK /\ TypeOK' /\ UnlapsedExclusively /\ Apart /\ Handling /\ IndSaleInv /\ [Next]_vars
        => [Ledger!Next]_(Ledger!vars)
  BY NextLedger DEF UnlapsedExclusively
<1>3. QED
  BY <1>1, <1>2, TypeCorrect, ItemsApart, SaleInvariant, UnlapsedExclusive, PTL
  DEF Spec, ImplementsLedger, Ledger!Spec
-----------------------------------------------------------------------------
(* What becomes of an item without faults. *)
Accounted(i) ==
  \/ i \in Unsold'
  \/ \E o \in Orders : i \in sold'[o]
  \/ \E s \in Services : /\ pc[s] = "claim" /\ i \in Range(reserved[s])
                         /\ result'[s] = "AlreadyDelivered"
  \/ i \in Stocked /\ supply' # supply

(* An item stays on offer unless it is one that call s holds. *)
LEMMA OthersKeepItems ==
  ASSUME NEW s \in Services, OthersKept(s), UNCHANGED supply, NEW i \in Unsold,
         \A t \in Services, k \in Products : Range(stock[t][k]) \subseteq Range(stock'[t][k]) \cup Unsent(s)'
  PROVE  i \in Unsold' \/ i \in Unsent(s)
<1>1. CASE i \in Supplied
  BY <1>1 DEF Supplied, Unsold
<1>2. CASE i \in Stocked
  BY <1>2 DEF Stocked, Held, Unsold
<1>3. CASE i \in Held
  <2>1. PICK t \in Services : i \in Unsent(t)
    BY <1>3 DEF Held
  <2>2. CASE t # s
    <3>1. i \in Unsent(t)'
      BY <2>1, <2>2 DEF OthersKept, Unsent
    <3>2. QED
      BY <3>1 DEF Held, Unsold
  <2>3. QED
    BY <2>1, <2>2
<1>4. QED
  BY <1>1, <1>2, <1>3 DEF Unsold

(* Without faults items are lost by registering over them or in a lost     *)
(* race for the claim, and in no other way.                                *)
LEMMA NextAccounted ==
  ASSUME Faults = {}, ~lapsed, LateLapsed, TypeOK, Apart, Handling, [Next]_vars, NEW i \in Unsold
  PROVE  Accounted(i)
<1>a. ASSUME NEW s \in Services, OthersKept(s), UNCHANGED << supply, stock >>,
             Unsent(s) \subseteq Unsent(s)'
      PROVE  Accounted(i)
  <2>1. i \in Unsold' \/ i \in Unsent(s)
    BY <1>a, OthersKeepItems
  <2>2. QED
    BY <1>a, <2>1 DEF Accounted, Unsold, Held
<1>b. ASSUME NEW s \in Services, OthersKept(s), UNCHANGED << supply, stock >>,
             pc[s] \in {"idle", "check", "reserve", "release"}
      PROVE  Accounted(i)
  <2>1. Unsent(s) = {}
    BY <1>b, EmptyHolds DEF Handling, Unsent
  <2>2. QED
    BY <1>a, <1>b, <2>1
<1>1. ASSUME NEW s \in Services, NEW k \in Products, NEW b \in Batches, AddProduct(s, k, b)
      PROVE  Accounted(i)
  <2>1. /\ b \in supply /\ supply' = supply \ {b} /\ UNCHANGED callVars
        /\ \A t \in Services, j \in Products :
             stock'[t][j] = IF t = s /\ j = k THEN b ELSE stock[t][j]
    BY <1>1 DEF AddProduct, TypeOK
  <2>2. CASE i \in Supplied
    <3>1. PICK c \in supply : i \in Range(c)
      BY <2>2 DEF Supplied
    <3>2. CASE c = b
      <4>1. i \in Range(stock'[s][k])
        BY <2>1, <3>1, <3>2
      <4>2. QED
        BY <4>1 DEF Accounted, Unsold, Stocked
    <3>3. CASE c # b
      BY <2>1, <3>1, <3>3 DEF Accounted, Unsold, Supplied
    <3>4. QED
      BY <3>2, <3>3
  <2>3. CASE i \in Stocked
    BY <2>1, <2>3 DEF Accounted
  <2>4. CASE i \in Held
    <3>1. \A t \in Services : Unsent(t)' = Unsent(t)
      BY <2>1 DEF Unsent
    <3>2. QED
      BY <2>4, <3>1 DEF Held, Unsold, Accounted
  <2>5. QED
    BY <2>2, <2>3, <2>4 DEF Unsold
<1>2. ASSUME NEW s \in Services, NEW o \in Orders, NEW a \in {"process", "deliver"},
             NEW paid \in BOOLEAN, Call(s, o, a, paid)
      PROVE  Accounted(i)
  BY <1>2, <1>b, StepIsLocal DEF Call
<1>3. ASSUME NEW s \in Services, CheckOrder(s) \/ ReleasePending(s) PROVE Accounted(i)
  BY <1>3, <1>b, StepIsLocal DEF Advance, CheckOrder, ReleasePending
<1>4. ASSUME NEW s \in Services, Reserve(s) PROVE Accounted(i)
  <2>1. OthersKept(s) /\ UNCHANGED supply /\ pc[s] = "reserve"
    BY <1>4, StepIsLocal DEF Advance, Reserve
  <2>2. CASE UNCHANGED stock
    BY <1>b, <2>1, <2>2
  <2>3. ASSUME NEW k \in Matches[order[s]], NEW n, n = Requested(order[s]),
               Len(stock[s][k]) >= n,
               reserved' = [reserved EXCEPT ![s] = Taken(stock[s][k], n)],
               stock' = [stock EXCEPT ![s][k] = Left(@, n)],
               GoTo(s, "claim")
        PROVE  Accounted(i)
    <3>1. k \in Products /\ stock[s][k] \in Seq(Items) /\ n \in Nat
      BY <2>3, RequestedType, OrdersAssumption DEF TypeOK
    <3>2. IsInjective(stock[s][k])
      BY <3>1 DEF Handling
    <3>3. Range(Taken(stock[s][k], n)) \cup Range(Left(stock[s][k], n)) = Range(stock[s][k])
      BY <2>3, <3>1, <3>2, TakenLeftItems
    <3>4. \A t \in Services, j \in Products :
            stock'[t][j] = IF t = s /\ j = k THEN Left(stock[s][k], n) ELSE stock[t][j]
      BY <2>3, <3>1 DEF TypeOK
    <3>5. Unsent(s)' = Range(Taken(stock[s][k], n)) /\ Unsent(s) = {}
      BY <2>1, <2>3, EmptyHolds DEF Unsent, GoTo, TypeOK, Handling
    <3>6. i \in Unsold'
      <4>1. \A t \in Services, j \in Products :
              Range(stock[t][j]) \subseteq Range(stock'[t][j]) \cup Unsent(s)'
        BY <3>3, <3>4, <3>5
      <4>2. QED
        BY <2>1, <3>5, <4>1, OthersKeepItems
    <3>7. QED
      BY <3>6 DEF Accounted
  <2>4. QED
    BY <1>4, <2>2, <2>3 DEF Reserve
<1>5. ASSUME NEW s \in Services, ClaimPending(s) PROVE Accounted(i)
  <2>1. OthersKept(s) /\ UNCHANGED << supply, stock, api >> /\ pc[s] = "claim"
    BY <1>5, StepIsLocal DEF Advance, ClaimPending
  <2>2. CASE Return(s, "AlreadyDelivered")
    <3>1. i \in Unsold' \/ i \in Unsent(s)
      BY <2>1, OthersKeepItems
    <3>2. result'[s] = "AlreadyDelivered" /\ Unsent(s) = Range(reserved[s])
      BY <2>1, <2>2, ReturnDisowns DEF Unsent
    <3>3. QED
      BY <2>1, <3>1, <3>2 DEF Accounted
  <2>3. CASE GoTo(s, IF api[s] = "process" THEN "send" ELSE "commit") /\ UNCHANGED reserved
    <3>1. Unsent(s)' = Unsent(s)
      BY <2>1, <2>3 DEF GoTo, Unsent, TypeOK
    <3>2. QED
      BY <1>a, <2>1, <3>1
  <2>4. QED
    BY <1>5, <2>2, <2>3 DEF ClaimPending, StoreCallFails, StoreFault
<1>6. ASSUME NEW s \in Services, Sell(s), Unsent(s) = Range(reserved[s]),
             OthersKept(s), UNCHANGED << supply, stock >>
      PROVE  Accounted(i)
  <2>1. i \in Unsold' \/ i \in Range(reserved[s])
    BY <1>6, OthersKeepItems
  <2>2. order[s] \in Orders /\ Range(reserved[s]) \subseteq sold'[order[s]]
    BY <1>6 DEF Sell, TypeOK
  <2>3. QED
    BY <2>1, <2>2 DEF Accounted
<1>7. ASSUME NEW s \in Services, SendDelivery(s) PROVE Accounted(i)
  <2>1. /\ OthersKept(s) /\ UNCHANGED supply /\ pc[s] = "send"
        /\ Unsent(s) = Range(reserved[s])
    BY <1>7, StepIsLocal DEF Advance, SendDelivery, Unsent
  <2>2. CASE SendAccepted(s)
    BY <1>6, <2>1, <2>2 DEF SendAccepted
  <2>3. CASE SendRejected(s)
    <3>0. product[s] \in Products
      BY <2>1, RestockedItems
    <3> PICK k \in Products : k = product[s]
      BY <3>0
    <3>1. Range(reserved[s] \o stock[s][k]) = Unsent(s) \cup Range(stock[s][k])
      BY <2>1, RestockedItems
    <3>2. \A t \in Services, j \in Products :
            stock'[t][j] = IF t = s /\ j = k THEN reserved[s] \o stock[s][j] ELSE stock[t][j]
      BY <2>3 DEF SendRejected, TypeOK
    <3>3. \A t \in Services, j \in Products : Range(stock[t][j]) \subseteq Range(stock'[t][j])
      BY <3>1, <3>2
    <3>4. i \in Unsold' \/ i \in Range(stock'[s][k])
      BY <2>1, <3>1, <3>2, <3>3, OthersKeepItems
    <3>5. QED
      BY <3>4 DEF Accounted, Unsold, Stocked
  <2>4. QED
    BY <1>7, <2>2, <2>3 DEF SendDelivery, SendFailed
<1>8. ASSUME NEW s \in Services, CommitDelivered(s) PROVE Accounted(i)
  <2>1. OthersKept(s) /\ UNCHANGED << supply, stock >> /\ pc[s] = "commit"
    BY <1>8, StepIsLocal DEF Advance, CommitDelivered
  <2>2. CASE api[s] = "deliver"
    <3>1. Sell(s) /\ Unsent(s) = Range(reserved[s])
      BY <1>8, <2>2 DEF CommitDelivered, StoreCallFails, StoreFault, Unsent
    <3>2. QED
      BY <1>6, <2>1, <3>1
  <2>3. CASE api[s] # "deliver"
    <3>1. Unsent(s) = {}
      BY <2>1, <2>3 DEF Unsent, TypeOK
    <3>2. QED
      BY <1>a, <2>1, <3>1
  <2>4. QED
    BY <2>2, <2>3
<1>9. CASE UNCHANGED vars
  <2>1. Supplied' = Supplied /\ Stocked' = Stocked /\ Held' = Held
    BY <1>9 DEF vars, Supplied, Stocked, Held, Unsent
  <2>2. QED
    BY <2>1 DEF Unsold, Accounted
<1>10. ~Crash /\ ~LateWrite /\ \A s \in Services : ~DropCall(s)
  BY DEF Crash, LateWrite, LateLapsed, DropCall
<1>11. QED
  BY <1>1, <1>2, <1>3, <1>4, <1>5, <1>7, <1>8, <1>9, <1>10 DEF Next, Advance

(* Without faults the store keeps what it was told. *)
NeverLapsed == LateLapsed /\ ~lapsed

LEMMA FaultlessKeeps ==
  ASSUME Faults = {}
  PROVE  Spec => []NeverLapsed
<1>1. Init => NeverLapsed
  BY InitLateLapsed DEF Init, NeverLapsed
<1>2. NeverLapsed /\ [Next]_vars => NeverLapsed'
  <2> SUFFICES ASSUME NeverLapsed, [Next]_vars PROVE ~lapsed'
    BY NextLapses DEF NeverLapsed
  <2>1. \A s \in Services : ~StoreCallFails(s) /\ ~DropCall(s)
    BY DEF StoreCallFails, StoreFault, DropCall, NeverLapsed
  <2>2. \A m \in Found : \A after : Save(m, after) => ~lapsed'
    BY DEF Found, Save, NeverLapsed
  <2>3. ~Crash
    BY DEF Crash
  <2>4. ASSUME NEW s \in Services, ClaimPending(s) \/ ReleasePending(s) \/ CommitDelivered(s)
        PROVE  ~lapsed'
    BY <2>1, <2>2, <2>4 DEF ClaimPending, ReleasePending, CommitDelivered, NeverLapsed
  <2>5. QED
    BY <2>1, <2>3, <2>4
    DEF Next, Advance, vars, AddProduct, Call, CheckOrder, Reserve, SendDelivery, LateWrite,
        NeverLapsed
<1>3. QED
  BY <1>1, <1>2, PTL DEF Spec

(* Without faults the only items that disappear are those the seller       *)
(* registers others over and those of a call that loses the race for the   *)
(* claim.                                                                  *)
THEOREM LossIsALostRace ==
  ASSUME Faults = {}
  PROVE  Spec => LossOnlyByLostRace
<1>1. NeverLapsed /\ TypeOK /\ Apart /\ Handling /\ [Next]_vars =>
        [\A i \in Unsold :
           \/ i \in Unsold'
           \/ \E o \in Orders : i \in sold'[o]
           \/ \E s \in Services : /\ pc[s] = "claim"
                                 /\ i \in Range(reserved[s])
                                 /\ result'[s] = "AlreadyDelivered"
           \/ i \in Stocked /\ supply' # supply]_vars
  BY NextAccounted DEF Accounted, NeverLapsed
<1>2. QED
  BY <1>1, FaultlessKeeps, ItemsApart, TypeCorrect, PTL DEF Spec, LossOnlyByLostRace
=============================================================================
