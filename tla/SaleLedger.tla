----------------------------- MODULE SaleLedger -----------------------------
(***************************************************************************)
(* What automatic delivery promises, whatever services, stores, failures   *)
(* and restarts are behind it: an order is served at most once until the   *)
(* store lapses, always from items that are available, and an item that is *)
(* sold or lost never becomes available again.  It does not promise that   *)
(* nothing is lost, nor that an item which reached the buyer in a message  *)
(* reported as rejected (astray) is not sold to another.                   *)
(***************************************************************************)
EXTENDS Integers

CONSTANTS Orders, Items

VARIABLES available, sold, deliveries, astray, lapsed

vars == << available, sold, deliveries, astray, lapsed >>

Init ==
  /\ available \subseteq Items
  /\ sold = [o \in Orders |-> {}]
  /\ deliveries = [o \in Orders |-> 0]
  /\ astray = [o \in Orders |-> {}]
  /\ lapsed = FALSE

(* Once it has lapsed, a store stays so. *)
MayLapse == lapsed' \in BOOLEAN /\ (lapsed => lapsed')

Sell(o, S) ==
  /\ deliveries[o] = 0 \/ lapsed
  /\ S \subseteq available
  /\ available' \subseteq available \ S
  /\ sold' = [sold EXCEPT ![o] = @ \cup S]
  /\ deliveries' = [deliveries EXCEPT ![o] = @ + 1]
  /\ MayLapse
  /\ UNCHANGED astray

Stray(o, S) ==
  /\ S \subseteq available
  /\ astray' = [astray EXCEPT ![o] = @ \cup S]
  /\ available' \subseteq available
  /\ UNCHANGED << sold, deliveries, lapsed >>

Lose ==
  /\ available' \subseteq available
  /\ MayLapse
  /\ UNCHANGED << sold, deliveries, astray >>

Next == (\E o \in Orders, S \in SUBSET Items : Sell(o, S) \/ Stray(o, S)) \/ Lose

Spec == Init /\ [][Next]_vars
=============================================================================
