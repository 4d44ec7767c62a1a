----------------------------- MODULE MCDelivery -----------------------------
(* Small instances of Delivery for TLC. *)
EXTENDS Delivery, TLC

CONSTANTS s1, s2, o1, o2, o3, k1, k2, i1, i2, i3

MCItems    == {i1, i2, i3}
(* o1 may be served from either product, o2 from one, o3 from none. *)
MCMatches1  == o1 :> {k1} @@ o2 :> {k1}
MCMatches3 == o1 :> {k1, k2} @@ o2 :> {k1} @@ o3 :> {}
MCAmount2  == o1 :> 1 @@ o2 :> 2
MCAmount3  == o1 :> 1 @@ o2 :> 2 @@ o3 :> 1
(* Services are alike; nothing but a run's safety is checked under it. *)
MCAlike == Permutations({s1, s2})
MCBatches  == {<< i1, i2 >>, << i3 >>}
=============================================================================
