------------------------------ MODULE MCOffers ------------------------------
(* Small instances of Offers for TLC. *)
EXTENDS Offers, TLC

CONSTANTS k1, k2, o1, o2, o3, r1, r2

(* A form with a field of its category, as fields[server] in               *)
(* tests/fixtures/offer_edit.html.                                         *)
Form(price, active) == [price |-> price, desc |-> 1, type |-> 1,
                        active |-> active, after |-> FALSE, server |-> 1]

TwoOffers == o1 :> Form(3, TRUE) @@ o2 :> Form(4, FALSE)
OneOffer  == o1 :> Form(3, TRUE)

MCWidget == [f \in Fields |-> IF f = "price" THEN "input" ELSE IF f = "desc" THEN "textarea"
                             ELSE IF f \in Flags THEN "checkbox" ELSE "select"]

(* r2's row is promoted and the cheapest. *)
MCPrices == {{2}, {4}, {5}, Unreadable}
MCMarket == r1 :> {5} @@ r2 :> {4}

DeactivateAll == [op |-> "deactivateAll", ids |-> {o1},
                  patch |-> [NoPatch EXCEPT !.active = {FALSE}]]

DeleteAll == [op |-> "deleteAll", ids |-> {o1},
              patch |-> [NoPatch EXCEPT !.deleted = {TRUE}]]
Undercut  == [op |-> "undercut", ids |-> {o1}, patch |-> NoPatch]
Create    == [op |-> "create", ids |-> {o3}, patch |-> [NoPatch EXCEPT !.price = {4}]]
Edit      == [op |-> "edit", ids |-> {o1},
              patch |-> [NoPatch EXCEPT !.after = {TRUE}, !.active = {TRUE}]]

MCCalls == k1 :> {DeactivateAll, DeleteAll, Undercut, Create} @@ k2 :> {Edit}

JustDeactivateAll == k1 :> {DeactivateAll}
JustEdit == k1 :> {Edit}
=============================================================================
