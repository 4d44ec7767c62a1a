------------------------------ MODULE Delivery ------------------------------
(***************************************************************************)
(* DeliveryService (src/src/automation.rs): services that sell the items   *)
(* of their own inventories and share one DeliveryStore.  A service runs   *)
(* one call of process_paid_order or deliver_order at a time (&mut self);  *)
(* calls of different services interleave at every await.  A call may meet *)
(* a failing store, a failing messenger, and may be dropped while it       *)
(* waits; the program may crash and start again.                           *)
(***************************************************************************)
EXTENDS DeliveryStore, FiniteSets, Functions

CONSTANTS
  Services,   \* DeliveryService values that share the store
  Products,   \* product keys, registered with every service
  Matches,    \* order -> the product keys the ProductMatcher accepts for it
  Amount,     \* order -> OrderInfo.amount
  Batches,    \* what the seller may register, each sequence once
  Faults,     \* which of "io", "stat", "send", "drop", "crash" may happen
  CallsLapsed \* do calls begin once the store has lapsed? (FALSE bounds TLC)

(* The seller never registers an item twice. *)
ASSUME BatchesAssumption ==
  /\ Batches \subseteq Seq(Items)
  /\ \A b \in Batches : IsInjective(b)
  /\ \A b, c \in Batches : b # c => Range(b) \cap Range(c) = {}

ASSUME OrdersAssumption ==
  /\ Matches \in [Orders -> SUBSET Products]
  /\ Amount \in [Orders -> Int]
  /\ Orders # {}

ASSUME FaultsAssumption ==
  /\ Faults \subseteq {"io", "stat", "send", "drop", "crash"}
  /\ CallsLapsed \in BOOLEAN

VARIABLES
  supply,      \* batches the seller has not registered yet
  stock,       \* service -> product -> ProductInventory.items
  pc,          \* service -> the await its current call has reached
  api,         \* service -> which of the two calls it is
  order,       \* service -> the order of its current or last call
  product,     \* service -> the product its items were taken from
  reserved,    \* service -> ReservedDelivery.result.delivered
  result,      \* service -> what its last call returned
  late,        \* file calls of dropped operations that still run while
               \* others begin: the map they write and the one they change
  lapsed,      \* the store no longer keeps what it was told (history)
  sold,        \* order -> items sent to the buyer, or recorded as delivered
               \* by deliver_order, which has no message (history)
  deliveries,  \* order -> how many times that happened (history)
  astray       \* order -> items the buyer got in a message that was then
               \* reported as rejected (history)

callVars  == << pc, api, order, product, reserved, result >>
storeVars == << records, late, lapsed >>
saleVars  == << sold, deliveries, astray >>
vars == << storeVars, supply, stock, callVars, saleVars >>

Stages  == {"idle", "check", "reserve", "claim", "send", "release", "commit"}
Results == {"none", "Ok", "OrderNotPaid", "AlreadyDelivered", "ProductNotFound",
            "NotEnoughItems", "MessageSendFailed", "SendError", "StoreError"}

TypeOK ==
  /\ StoreTypeOK
  /\ supply \subseteq Batches
  /\ stock \in [Services -> [Products -> Seq(Items)]]
  /\ pc \in [Services -> Stages]
  /\ api \in [Services -> {"process", "deliver"}]
  /\ order \in [Services -> Orders]
  /\ product \in [Services -> Products \cup {"none"}]
  /\ reserved \in [Services -> Seq(Items)]
  /\ result \in [Services -> Results]
  /\ \A w \in late : w.from \in RecordMaps /\ w.to \in RecordMaps
  /\ lapsed \in BOOLEAN
  /\ sold \in [Orders -> SUBSET Items]
  /\ deliveries \in [Orders -> Nat]
  /\ astray \in [Orders -> SUBSET Items]

Init ==
  /\ StoreInit
  /\ supply = Batches
  /\ stock = [s \in Services |-> [k \in Products |-> << >>]]
  /\ pc = [s \in Services |-> "idle"]
  /\ api = [s \in Services |-> "process"]
  /\ order \in [Services -> {CHOOSE o \in Orders : TRUE}]
  /\ product = [s \in Services |-> "none"]
  /\ reserved = [s \in Services |-> << >>]
  /\ result = [s \in Services |-> "none"]
  /\ late = {}
  /\ lapsed = FALSE
  /\ sold = [o \in Orders |-> {}]
  /\ deliveries = [o \in Orders |-> 0]
  /\ astray = [o \in Orders |-> {}]
-----------------------------------------------------------------------------
Requested(o) == IF Amount[o] > 0 THEN Amount[o] ELSE 0

Taken_OneShort(q, n) == SubSeq(q, 1, n - 1)   \* mutant: off by one
Taken(q, n) == SubSeq(q, 1, n)
Left_OneBefore(q, n) == SubSeq(q, n, Len(q))   \* mutant: off by one
Left(q, n)  == SubSeq(q, n + 1, Len(q))

(* The call of s goes on to another await. *)
GoTo(s, stage) == /\ pc' = [pc EXCEPT ![s] = stage]
                  /\ UNCHANGED result

(* The call of s returns; what it still holds is gone with it. *)
Return(s, r) == /\ pc' = [pc EXCEPT ![s] = "idle"]
                /\ result' = [result EXCEPT ![s] = r]
                /\ product' = [product EXCEPT ![s] = "none"]
                /\ reserved' = [reserved EXCEPT ![s] = << >>]

(* What a buyer has received cannot be taken back. *)
Sell(s) ==
  /\ sold' = [sold EXCEPT ![order[s]] = @ \cup Range(reserved[s])]
  /\ deliveries' = [deliveries EXCEPT ![order[s]] = @ + 1]
  /\ UNCHANGED astray

(* What an operation that looks at the file may find in it. *)
Found == {records} \cup
         (IF Durable /\ "stat" \in Faults THEN {[o \in Orders |-> Absent]} ELSE {})

(* An operation has loaded m and saves the map after, or what the write of *)
(* a dropped operation has put into its temporary meanwhile.  The store    *)
(* has lapsed when what was loaded were not the records.                   *)
Save(m, after) ==
  /\ \/ records' = after /\ UNCHANGED late
     \/ \E w \in late : records' = w.to /\ late' = late \ {w}
  /\ lapsed' = (lapsed \/ m # records)

(* File calls that overlap may have damaged the file for good, too. *)
StoreFault == Durable /\ ("io" \in Faults \/ lapsed)

(* What the store call that s waits for writes once it has loaded m. *)
Writes(s, m) ==
  IF pc[s] = "claim" /\ ~Contains(m, order[s])
  THEN {Claimed(m, order[s], reserved[s])}
  ELSE IF pc[s] = "release" /\ Releases(m, order[s])
  THEN {Released(m, order[s])}
  ELSE IF pc[s] = "commit" THEN {Committed(m, order[s], reserved[s])} ELSE {}

(* It fails, and `?` returns from the call; a dropped rename that comes    *)
(* before its own has put its temporary in place and takes it away.        *)
StoreCallFails(s) ==
  /\ StoreFault
  /\ Return(s, "StoreError")
  /\ \/ UNCHANGED storeVars
     \/ /\ late # {}
        /\ \E m \in Found : \E after \in Writes(s, m) : Save(m, after)
-----------------------------------------------------------------------------
(* add_product: the new items replace what was left of the product. *)
AddProduct(s, k, b) ==
  /\ pc[s] = "idle"
  /\ b \in supply
  /\ supply' = supply \ {b}
  /\ stock' = [stock EXCEPT ![s][k] = b]
  /\ UNCHANGED << storeVars, callVars, saleVars >>

(* A call with a snapshot of the order; only process_paid_order looks at   *)
(* the status the snapshot shows.                                          *)
Call(s, o, a, paid) ==
  /\ pc[s] = "idle"
  /\ lapsed => CallsLapsed
  /\ api' = [api EXCEPT ![s] = a]
  /\ order' = [order EXCEPT ![s] = o]
  /\ IF a = "process" /\ ~paid
     THEN Return(s, "OrderNotPaid")
     ELSE /\ pc' = [pc EXCEPT ![s] = "check"]
          /\ result' = [result EXCEPT ![s] = "none"]
          /\ UNCHANGED << product, reserved >>
  /\ UNCHANGED << storeVars, supply, stock, saleVars >>

(* contains_order: a JSON store that cannot be read says "no". *)
CheckOrder(s) ==
  /\ pc[s] = "check"
  /\ \/ /\ Contains(records, order[s])
        /\ Return(s, "AlreadyDelivered")
     \/ /\ StoreFault \/ \E m \in Found : ~Contains(m, order[s])
        /\ GoTo(s, "reserve")
        /\ UNCHANGED << product, reserved >>
  /\ UNCHANGED << storeVars, supply, stock, api, order, saleVars >>

(* Mutant: a call waits for items instead of returning NotEnoughItems. *)
Reserve_Waits(s) ==
  /\ pc[s] = "reserve"
  /\ \E k \in Matches[order[s]] :
       LET n == Requested(order[s]) IN
       /\ Len(stock[s][k]) >= n
       /\ reserved' = [reserved EXCEPT ![s] = Taken(stock[s][k], n)]
       /\ product' = [product EXCEPT ![s] = k]
       /\ stock' = [stock EXCEPT ![s][k] = Left(@, n)]
       /\ GoTo(s, "claim")
  /\ UNCHANGED << storeVars, supply, api, order, saleVars >>

(* reserve: any matching product, HashMap iteration has no order; the      *)
(* items are drained from the front of its inventory.                      *)
Reserve(s) ==
  /\ pc[s] = "reserve"
  /\ \/ /\ Matches[order[s]] = {}
        /\ Return(s, "ProductNotFound")
        /\ UNCHANGED stock
     \/ \E k \in Matches[order[s]] :
          LET n == Requested(order[s]) IN
          \/ /\ Len(stock[s][k]) < n
             /\ Return(s, "NotEnoughItems")
             /\ UNCHANGED stock
          \/ /\ Len(stock[s][k]) >= n
             /\ reserved' = [reserved EXCEPT ![s] = Taken(stock[s][k], n)]
             /\ product' = [product EXCEPT ![s] = k]
             /\ stock' = [stock EXCEPT ![s][k] = Left(@, n)]
             /\ GoTo(s, "claim")
  /\ UNCHANGED << storeVars, supply, api, order, saleVars >>

(* Mutant: claim_pending trusts the earlier contains_order. *)
ClaimPending_Unchecked(s) ==
  /\ pc[s] = "claim"
  /\ \E m \in Found : Save(m, Claimed(m, order[s], reserved[s]))
  /\ GoTo(s, IF api[s] = "process" THEN "send" ELSE "commit")
  /\ UNCHANGED << product, reserved, supply, stock, api, order, saleVars >>

(* claim_pending: `?` returns with the reserved items still in hand. *)
ClaimPending(s) ==
  /\ pc[s] = "claim"
  /\ \/ /\ Contains(records, order[s])
        /\ Return(s, "AlreadyDelivered")
        /\ UNCHANGED storeVars
     \/ /\ \E m \in Found : /\ ~Contains(m, order[s])
                           /\ Save(m, Claimed(m, order[s], reserved[s]))
        /\ GoTo(s, IF api[s] = "process" THEN "send" ELSE "commit")
        /\ UNCHANGED << product, reserved >>
     \/ StoreCallFails(s)
  /\ UNCHANGED << supply, stock, api, order, saleVars >>

(* send_delivery_message: accepted; or rejected by the runner, and then    *)
(* release_reserved puts the items back in front before anything else      *)
(* runs; or an error, after which nobody knows whether the chat got it.    *)
(* A lost answer is followed by another attempt of the same message, so    *)
(* the one that is accepted or rejected need not be the first that came    *)
(* through.                                                                *)
SendAccepted(s) ==
  /\ Sell(s)
  /\ GoTo(s, "commit")
  /\ UNCHANGED << stock, product, reserved >>

(* An earlier attempt has reached the buyer; only the last was rejected. *)
Stray(s) ==
  /\ "send" \in Faults
  /\ astray' = [astray EXCEPT ![order[s]] = @ \cup Range(reserved[s])]
  /\ UNCHANGED << sold, deliveries >>

(* Mutant: the items are not put back. *)
SendRejected_DropsItems(s) ==
  /\ reserved' = [reserved EXCEPT ![s] = << >>]
  /\ product' = [product EXCEPT ![s] = "none"]
  /\ GoTo(s, "release")
  /\ Stray(s) \/ UNCHANGED saleVars
  /\ UNCHANGED stock

SendRejected(s) ==
  /\ stock' = [stock EXCEPT ![s][product[s]] = reserved[s] \o @]
  /\ reserved' = [reserved EXCEPT ![s] = << >>]
  /\ product' = [product EXCEPT ![s] = "none"]
  /\ GoTo(s, "release")
  /\ Stray(s) \/ UNCHANGED saleVars

(* Mutant: an error is taken for a rejection. *)
SendFailed_Restocks(s) ==
  /\ "send" \in Faults
  /\ Sell(s) \/ UNCHANGED saleVars
  /\ stock' = [stock EXCEPT ![s][product[s]] = reserved[s] \o @]
  /\ Return(s, "SendError")

SendFailed(s) ==
  /\ "send" \in Faults
  /\ Sell(s) \/ UNCHANGED saleVars
  /\ Return(s, "SendError")
  /\ UNCHANGED stock

SendDelivery(s) ==
  /\ pc[s] = "send"
  /\ SendAccepted(s) \/ SendRejected(s) \/ SendFailed(s)
  /\ UNCHANGED << storeVars, supply, api, order >>

(* release_pending, after a rejected message. *)
ReleasePending(s) ==
  /\ pc[s] = "release"
  /\ \/ /\ \E m \in Found : Save(m, Released(m, order[s]))
        /\ Return(s, "MessageSendFailed")
     \/ StoreCallFails(s)
  /\ UNCHANGED << supply, stock, api, order, saleVars >>

(* Mutant: Ok although the store could not be written. *)
CommitDelivered_IgnoresError(s) ==
  /\ pc[s] = "commit"
  /\ \/ \E m \in Found : Save(m, Committed(m, order[s], reserved[s]))
     \/ StoreFault /\ UNCHANGED storeVars
  /\ IF api[s] = "deliver" THEN Sell(s) ELSE UNCHANGED saleVars
  /\ Return(s, "Ok")
  /\ UNCHANGED << supply, stock, api, order >>

(* commit_delivered, the last await of both calls. *)
CommitDelivered(s) ==
  /\ pc[s] = "commit"
  /\ \/ /\ \E m \in Found : Save(m, Committed(m, order[s], reserved[s]))
        /\ IF api[s] = "deliver" THEN Sell(s) ELSE UNCHANGED saleVars
        /\ Return(s, "Ok")
     \/ StoreCallFails(s) /\ UNCHANGED saleVars
  /\ UNCHANGED << supply, stock, api, order >>
-----------------------------------------------------------------------------
(* The caller drops the future of a call that waits (a select!, a timeout, *)
(* an aborted task).  A message or a write under way that has its effect   *)
(* before anyone else looks is that step followed by this one.  But the    *)
(* drop frees the JSON store's mutex while fs::write or fs::rename is      *)
(* still running, and operations may begin before that has ended.          *)
DropCall(s) ==
  /\ "drop" \in Faults
  /\ pc[s] # "idle"
  /\ Return(s, "none")
  /\ \/ UNCHANGED << late, lapsed >>
     \/ /\ Durable
        /\ \E m \in Found : \E after \in Writes(s, m) :
             late' = late \cup {[from |-> records, to |-> after]}
        /\ lapsed' = TRUE
  /\ UNCHANGED << records, supply, stock, api, order, saleVars >>

(* The last file call of a dropped operation ends; a rename puts its map   *)
(* in the file, if no other operation has written the temporary since.     *)
LateWrite ==
  /\ \E w \in late :
       /\ late' = late \ {w}
       /\ records' \in {records} \cup (IF w.from = records THEN {w.to} ELSE {})
  /\ UNCHANGED << lapsed, supply, stock, callVars, saleVars >>

(* The program stops and starts again: services are built anew with empty  *)
(* inventories; of the stores only the JSON file survives.                 *)
Crash ==
  /\ "crash" \in Faults
  /\ records' \in IF Durable THEN {records} \cup {w.to : w \in {v \in late : v.from = records}}
               ELSE {[o \in Orders |-> Absent]}
  /\ late' = {}
  /\ lapsed' = (lapsed \/ ~Durable)
  /\ stock' = [s \in Services |-> [k \in Products |-> << >>]]
  /\ pc' = [s \in Services |-> "idle"]
  /\ product' = [s \in Services |-> "none"]
  /\ reserved' = [s \in Services |-> << >>]
  /\ result' = [s \in Services |-> "none"]
  /\ UNCHANGED << supply, api, order, saleVars >>

(* What the runtime carries on once a call has started. *)
Advance(s) == \/ CheckOrder(s)   \/ Reserve(s)        \/ ClaimPending(s)
              \/ SendDelivery(s) \/ ReleasePending(s) \/ CommitDelivered(s)

Next ==
  \/ \E s \in Services, k \in Products, b \in Batches : AddProduct(s, k, b)
  \/ \E s \in Services, o \in Orders, a \in {"process", "deliver"},
        paid \in BOOLEAN : Call(s, o, a, paid)
  \/ \E s \in Services : Advance(s)
  \/ \E s \in Services : DropCall(s)
  \/ LateWrite
  \/ Crash

(* The async runtime polls every future again until it is done, and file   *)
(* calls end.  Nothing makes the site answer a message: the HTTP client    *)
(* has no timeout.                                                         *)
Fairness == \A s \in Services : WF_vars(Advance(s) /\ pc[s] # "send")

Spec == Init /\ [][Next]_vars /\ Fairness
-----------------------------------------------------------------------------
(* The call of s has claimed its order and not yet settled it. *)
Owns(s) == pc[s] \in {"send", "release", "commit"}

(* The items call s holds that have not left for a buyer. *)
Unsent(s) == IF pc[s] = "commit" /\ api[s] = "process" THEN {}
             ELSE Range(reserved[s])

Stocked == UNION {Range(stock[s][k]) : s \in Services, k \in Products}
Supplied == UNION {Range(b) : b \in supply}
Held == UNION {Unsent(s) : s \in Services}

(* Items that can still be sold, now or after another registration. *)
Unsold == Supplied \cup Stocked \cup Held

(* As long as the store keeps what it was told (module JsonFile shows when *)
(* it does not), an order is served at most once, whatever interleaves,    *)
(* fails or crashes: only the call whose claim_pending succeeded sends,    *)
(* and the record it leaves behind keeps others out.  A message reported   *)
(* as rejected does not count: see RestoredIsUnsold.                       *)
AtMostOnce == ~lapsed => \A o \in Orders : deliveries[o] <= 1

(* No item is sold to two orders, and a sold item is nowhere for sale      *)
(* again, whatever the store does: draining on reserve, restoring on       *)
(* rejection and dropping on an uncertain send never duplicate an item.    *)
(* Items of a message reported as rejected are not sold: see               *)
(* RestoredIsUnsold.                                                       *)
NoItemSoldTwice ==
  \A o \in Orders :
    /\ sold[o] \cap Unsold = {}
    /\ \A p \in Orders \ {o} : sold[o] \cap sold[p] = {}

(* The comment of release_reserved, automation.rs:363, returns reserved    *)
(* items "back to the inventory (e.g., after a failed send)": no item that *)
(* a buyer has is for sale.                                                *)
RestoredIsUnsold == \A o \in Orders : (sold[o] \cup astray[o]) \cap Unsold = {}

(* automation.rs:473 of DeliveryStore: "Persistence for tracking delivered *)
(* orders and preventing duplicates", of a store that no restart empties.  *)
NoDuplicates == \A o \in Orders : deliveries[o] <= 1

(* A buyer gets exactly as many items as were ordered. *)
ExactQuantity ==
  \A o \in Orders : deliveries[o] = 1 => Cardinality(sold[o]) = Requested(o)

(* Between its claim and its last store call a call is alone with its      *)
(* order, in a store that keeps what it was told: the record stays pending *)
(* under it and lists the items it holds, so release_pending and           *)
(* commit_delivered never touch another's record.                          *)
ClaimIsExclusive ==
  ~lapsed => \A s \in Services : Owns(s) =>
    /\ records[order[s]].status = "pending"
    /\ pc[s] # "release" => records[order[s]].items = reserved[s]
    /\ \A t \in Services : Owns(t) /\ order[t] = order[s] => t = s

(* In a store that keeps what it was told a record says "delivered" only   *)
(* of an order that got the items the record lists, and a call that        *)
(* returned Ok left such a record behind.                                  *)
RecordsTellTheTruth == ~lapsed =>
  /\ \A o \in Orders : records[o].status = "delivered" =>
        deliveries[o] >= 1 /\ Range(records[o].items) \subseteq sold[o]
  /\ \A s \in Services : pc[s] = "idle" /\ result[s] = "Ok" =>
        records[order[s]].status = "delivered"

(* A delivered record is never changed or removed as long as the store     *)
(* keeps what it was told: not by a release_pending that comes after it    *)
(* (MemoryDeliveryStore removes whatever is there), not by another claim   *)
(* or commit.                                                              *)
DeliveredIsFinal ==
  [][~lapsed' => \A o \in Orders : records[o].status = "delivered" =>
       records'[o] = records[o]]_vars

(* What services and store promise to buyers: module SaleLedger, with      *)
(* everything not yet sold as what is available.                           *)
Ledger == INSTANCE SaleLedger WITH available <- Unsold
ImplementsLedger == Ledger!Spec

(* Without faults an item disappears in two ways only: the seller          *)
(* registers new items over it, or the call that holds it loses the race   *)
(* for the claim, and its reserved items with it.                          *)
LossOnlyByLostRace ==
  [][\A i \in Unsold :
       \/ i \in Unsold'
       \/ \E o \in Orders : i \in sold'[o]
       \/ \E s \in Services : /\ pc[s] = "claim"
                             /\ i \in Range(reserved[s])
                             /\ result'[s] = "AlreadyDelivered"
       \/ i \in Stocked /\ supply' # supply]_vars

(* Without faults, and if the site answers every message, every call       *)
(* returns and no order stays pending.                                     *)
EverythingSettles ==
  (\A s \in Services : []<>(pc[s] # "send")) =>
    /\ \A s \in Services : pc[s] # "idle" ~> pc[s] = "idle"
    /\ \A o \in Orders : records[o].status = "pending" ~> records[o].status # "pending"

(* automation.rs:227 of AlreadyDelivered: "This order was already          *)
(* delivered (tracked by DeliveryStore)": when a call returns it, the      *)
(* order has been delivered, or the call that claimed it is about to.      *)
AlreadyDeliveredIsTrue ==
  [][\A s \in Services :
       pc[s] # "idle" /\ pc'[s] = "idle" /\ result'[s] = "AlreadyDelivered" =>
         \/ deliveries[order[s]] >= 1
         \/ \E t \in Services : pc[t] \in {"send", "commit"} /\ order[t] = order[s]]_vars
=============================================================================
