----------------------------- MODULE OfferForms -----------------------------
(***************************************************************************)
(* What the library reads from an offer's edit page and from the market    *)
(* page, and what it posts back (src/src/parser.rs, src/src/models.rs,     *)
(* src/src/client.rs).  A page is a function from the names of its         *)
(* controls to [tag, value]; an Option is an empty or a one-element set.   *)
(* The text fields of the real form fall into three classes by how they    *)
(* are read; "price", "desc" and "type" stand for them.                    *)
(***************************************************************************)
EXTENDS Integers, FiniteSetsExt

Empty == -1                        \* the empty text; other texts are numbers
Texts == {"price", "desc", "type"}
Flags == {"active", "after"}       \* "after" is deactivate_after_sale
Names == Texts \cup Flags

Blank == [f \in {} |-> Empty]      \* a page without a form

(* The controls under which parse_offer_details finds a field. *)
ReadableAs == [f \in Names |-> IF f = "price" THEN {"input"}
                               ELSE IF f = "desc" THEN {"textarea"}
                               ELSE IF f = "type" THEN {"input", "select"}
                               ELSE {"checkbox"}]

Extract(page, f, tag) ==
  IF f \in DOMAIN page /\ page[f].tag = tag THEN page[f].value ELSE Empty

ExtractCheckbox(page, f) ==
  f \in DOMAIN page /\ page[f].tag = "checkbox" /\ page[f].value

(* Mutant: a select is not looked for. *)
ExtractField_Inputs(page, f) == Extract(page, f, "input")

ExtractField(page, f) ==
  LET input == Extract(page, f, "input") IN
  IF input = Empty THEN Extract(page, f, "select") ELSE input

(* parse_offer_details: every field is Some, but deleted. *)
ParseOfferDetails(page) ==
  [price   |-> {Extract(page, "price", "input")},
   desc    |-> {Extract(page, "desc", "textarea")},
   type    |-> {ExtractField(page, "type")},
   active  |-> {ExtractCheckbox(page, "active")},
   after   |-> {ExtractCheckbox(page, "after")},
   deleted |-> {}]

(* OfferEdit::default, the patch that names no field. *)
NoPatch == [f \in Names \cup {"deleted"} |-> {}]

(* OfferEdit::merge: the patch has priority. *)
Merge(current, patch) ==
  [f \in Names \cup {"deleted"} |-> IF patch[f] # {} THEN patch[f] ELSE current[f]]

TextOr(option) == IF option = {} THEN Empty ELSE CHOOSE text \in option : TRUE

(* build_offer_payload: the keys of an offer_save form and their values.   *)
(* A missing text is posted empty, a missing active as on, the other flags *)
(* as off; deactivate_after_sale has another key when it is on.  What the  *)
(* page shows besides has no place in an OfferEdit and is not posted.      *)
AfterKey(edit) == IF TRUE \in edit.after THEN "after[]" ELSE "after"

BuildOfferPayload(edit) ==
  [key \in Texts \cup {"active", "deleted", AfterKey(edit)} |->
     IF key \in Texts THEN TextOr(edit[key])
     ELSE IF key = "active" THEN FALSE \notin edit.active
     ELSE IF key = "deleted" THEN TRUE \in edit.deleted
     ELSE key = "after[]"]

(* The fields of a posted form, as the site takes them: both spellings of  *)
(* deactivate_after_sale are the field that the page shows without [].     *)
Taken(payload) ==
  [f \in Names |-> IF f = "after" THEN "after[]" \in DOMAIN payload ELSE payload[f]]
-----------------------------------------------------------------------------
(* parse_my_offers: the seller's rows, an inactive one with a warning.     *)
ParseMyOffers(rows) ==
  {[id |-> CHOOSE o \in row.id : TRUE, active |-> ~row.warning] :
     row \in {r \in rows : r.id # {}}}

(* parse_market_offers: a row whose id cannot be read is left out; a price *)
(* or a seller that cannot be read is 0.                                   *)
OrZero(option) == IF option = {} THEN 0 ELSE CHOOSE n \in option : TRUE

ParseMarketOffers(rows) ==
  {[id |-> row.id, price |-> OrZero(row.price), seller |-> OrZero(row.seller), promo |-> row.promo] :
     row \in {r \in rows : r.id # {}}}

(* Mutant: promoted offers are competitors too. *)
Competitors_Promoted(market, my) == {o.price : o \in {r \in market : r.seller # my}}

Competitors(market, my) == {o.price : o \in {r \in market : r.seller # my /\ ~r.promo}}

(* undercut_price's target. *)
Target(prices, by, floor) ==
  IF prices = {} \/ Min(prices) - by < floor THEN floor ELSE Min(prices) - by
=============================================================================
