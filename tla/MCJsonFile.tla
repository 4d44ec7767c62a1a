---------------------------- MODULE MCJsonFile ----------------------------
(* Small instances of JsonFile for TLC. *)
EXTENDS JsonFile, TLC

CONSTANTS t1, t2, t3, h1, h2, o1, o2

OneHandle == [t \in Tasks |-> h1]
=============================================================================
