---------------------------- MODULE AtomicStore ----------------------------
(***************************************************************************)
(* What the callers of JsonDeliveryStore rely on (src/src/automation.rs):  *)
(* a map of order records on which every operation takes effect at once    *)
(* and entirely, or not at all, also when it fails or the program dies.    *)
(* A forgetful store may do an operation on no records at all: the others  *)
(* are lost.  Nothing is promised once operations have overlapped.         *)
(***************************************************************************)
CONSTANTS
  Orders,
  Forgetful   \* whether a file can be taken for missing

VARIABLES map, overlap

vars == << map, overlap >>

EmptyMap == [o \in Orders |-> "absent"]

Claimed(m, o)   == [m EXCEPT ![o] = "pending"]
Committed(m, o) == [m EXCEPT ![o] = "delivered"]
Released(m, o)  == [m EXCEPT ![o] = "absent"]

Init == map = EmptyMap /\ overlap = FALSE

Operation(m) ==
  /\ \E o \in Orders :
       \/ m[o] = "absent"  /\ map' = Claimed(m, o)
       \/ map' = Committed(m, o)
       \/ m[o] = "pending" /\ map' = Released(m, o)
  /\ UNCHANGED overlap

Forget == Forgetful /\ Operation(EmptyMap)

Overlap == overlap' = TRUE

Next == Operation(map) \/ Forget \/ Overlap

Spec == Init /\ [][Next]_vars
=============================================================================
