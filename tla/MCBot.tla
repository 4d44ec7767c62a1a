------------------------------- MODULE MCBot -------------------------------
(* Small instances of Bot for TLC. *)
EXTENDS Bot

CONSTANTS o1, o2, c1

SharedChat == o1 :> c1 @@ o2 :> c1
=============================================================================
