--------------------------- MODULE DeliveryStore ---------------------------
(***************************************************************************)
(* The DeliveryStore trait of src/src/automation.rs and the effects of its *)
(* two implementations, MemoryDeliveryStore and JsonDeliveryStore.  Every  *)
(* operation runs under the store's mutex from its first read to its last  *)
(* write, so an operation is one step here.  Whoever shares the store      *)
(* (module Delivery) decides when the operations are called.               *)
(***************************************************************************)
EXTENDS Integers, Sequences

CONSTANTS
  Orders,     \* order ids
  Items,      \* delivery items (keys, codes, ...)
  StoreKind   \* "memory" or "json"

ASSUME StoreKindAssumption == StoreKind \in {"memory", "json"}

VARIABLE records   \* order id -> its DeliveredOrderRecord, or the absent one

Statuses == {"absent", "pending", "delivered"}

Absent           == [status |-> "absent",    items |-> << >>]
Pending(items)   == [status |-> "pending",   items |-> items]
Delivered(items) == [status |-> "delivered", items |-> items]

RecordMaps == [Orders -> [status : Statuses, items : Seq(Items)]]

StoreTypeOK == records \in RecordMaps

StoreInit == records = [o \in Orders |-> Absent]

(***************************************************************************)
(* Only the JSON store can fail: reading, parsing, writing or renaming the *)
(* file returns an error and leaves the file as it was.  It also takes a   *)
(* file it cannot stat for one that is not there, and acts on no records.  *)
(***************************************************************************)
Durable == StoreKind = "json"

Contains(m, o) == m[o].status # "absent"

(* What the map becomes when an operation on order o that has loaded the   *)
(* map m succeeds.                                                         *)
Claimed(m, o, items)   == [m EXCEPT ![o] = Pending(items)]
Committed(m, o, items) == [m EXCEPT ![o] = Delivered(items)]

(* Mutant: the record is kept and marked instead of removed. *)
Released_Marked(m, o) == [m EXCEPT ![o].status = "released"]

(* Only the JSON store looks at the status, and saves only what it removed. *)
Releases(m, o) == Durable => m[o].status = "pending"
Released(m, o) == IF Releases(m, o) THEN [m EXCEPT ![o] = Absent] ELSE records
=============================================================================
