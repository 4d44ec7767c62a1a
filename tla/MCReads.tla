------------------------------ MODULE MCReads ------------------------------
(* What a program reads, small: the orders, and the home page with the     *)
(* categories.  The two have nothing in common and take turns.             *)
EXTENDS Orders, CategoryTree

(* Order 2's buyer cannot be read; order 3's amount is too large. *)
MCBuyer    == << [id |-> {7}, name |-> "Ann"], [id |-> Unreadable, name |-> "Bob"],
                 [id |-> {7}, name |-> "Ann"] >>
MCQuantity == << 2, 3, 5 >>
MCLabels   == << [script |-> "latin", capital |-> TRUE],
                 [script |-> "cyrillic", capital |-> TRUE],
                 [script |-> "cyrillic", capital |-> FALSE] >>

NoFilter  == [status |-> {}, min |-> {}, max |-> {}, buyer |-> {}]
MCOptions == {NoFilter, [NoFilter EXCEPT !.status = {"Paid"}],
              [NoFilter EXCEPT !.min = {2}, !.max = {3}], [NoFilter EXCEPT !.buyer = {{"Ann"}}]}

MCInit == Init /\ TreeInit

MCNext == \/ doc = Page /\ Next /\ UNCHANGED doc
          \/ Placed = {} /\ loggedIn /\ list = {} /\ TreeNext /\ UNCHANGED vars
MCSpec == MCInit /\ [][MCNext]_<< vars, doc >>
=============================================================================
