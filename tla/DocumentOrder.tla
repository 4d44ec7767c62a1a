---------------------------- MODULE DocumentOrder ----------------------------
(***************************************************************************)
(* The order in which a program meets what is on a page: a selector of the *)
(* page parser yields nodes as they stand in the document, and a filter    *)
(* keeps the order of its list.                                            *)
(***************************************************************************)
EXTENDS Integers, FiniteSets

(* The numbers, the one with fewest others below it first. *)
InOrder(numbers) ==
  [i \in 1..Cardinality(numbers) |->
     CHOOSE n \in numbers : Cardinality({m \in numbers : m < n}) = i - 1]

(* What a list has at the positions, in the order of the list. *)
Selection(list, positions) ==
  LET at == InOrder(positions) IN [i \in DOMAIN at |-> list[at[i]]]
=============================================================================
