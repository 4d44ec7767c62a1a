------------------------------- MODULE Offers -------------------------------
(***************************************************************************)
(* The calls that change the seller's offers: edit_offer, create_offer,    *)
(* delete_offer, undercut_price, deactivate_all_offers, delete_all_offers  *)
(* of GoldenPaySession (src/src/client.rs), and the same through           *)
(* SessionManager (src/src/session.rs), which reconnects and repeats.      *)
(* Each is a sequence of requests; the seller, the competitors, other      *)
(* calls and the end of the session come in between.                       *)
(***************************************************************************)
EXTENDS OfferForms

CONSTANTS
  Callers,   \* clients with a session of their own, one call at a time
  Managed,   \* those that go through a SessionManager
  Ids,       \* offers of one node, those still to be created included
  First,     \* the offers there are at first: offer -> form
  Custom,    \* fields of the category's form that an OfferEdit has no place for
  Widget,    \* field -> the control it is shown as
  Calls,     \* caller -> the calls it may make: [op, ids, patch]
  Rivals,    \* the competitors' rows on the market page
  Promoted,  \* those of them that are promoted
  Prices,    \* what a competitor may ask: numbers, or Unreadable
  MyPrices,  \* what the seller may change a price to
  FirstMarket,   \* competitor -> what it asks at first
  By, Floor, \* the arguments of undercut_price
  MaxEdits,  \* bound: changes the seller and the competitors make
  MaxCalls,  \* bound: calls of each caller
  Faults     \* which of "net", "expire", "refuse", "connect" may happen

My == 1                       \* the account's id; the competitors' is 2
Unreadable == {}              \* a price that is no number
Gone == [gone |-> TRUE]       \* no such offer, not yet or no more

Fields == Names \cup Custom   \* of the form on the site

ASSUME OffersAssumption ==
  /\ Managed \subseteq Callers /\ Promoted \subseteq Rivals
  /\ DOMAIN First \subseteq Ids /\ Ids # {}
  /\ Custom \cap (Names \cup {"deleted", "after[]"}) = {}
  /\ \A o \in DOMAIN First : /\ DOMAIN First[o] = Fields /\ First[o].price # Empty
                              /\ \A f \in Flags : First[o][f] \in BOOLEAN
  /\ \A f \in Names : Widget[f] \in ReadableAs[f]
  /\ \A r \in UNION {Calls[k] : k \in Callers} :
       /\ r.op \in {"edit", "create", "undercut", "deactivateAll", "deleteAll"}
       /\ r.ids \subseteq Ids /\ DOMAIN r.patch = Names \cup {"deleted"}
       /\ r.patch.deleted \in {{}, {TRUE}, {FALSE}}
       /\ r.op = "deactivateAll" => r.patch = [NoPatch EXCEPT !.active = {FALSE}]
       /\ r.op = "deleteAll" => r.patch = [NoPatch EXCEPT !.deleted = {TRUE}]
  /\ \A price \in Prices : price = Unreadable \/ \E n \in price : n \in Nat /\ price = {n}
  /\ FirstMarket \in [Rivals -> Prices] /\ MyPrices \subseteq Nat
  /\ By \in Nat \ {0} /\ Floor \in Nat /\ MaxEdits \in Nat /\ MaxCalls \in Nat
  /\ Faults \subseteq {"net", "expire", "refuse", "connect"}

VARIABLES
  offers,     \* offer -> its form on the site, or Gone
  market,     \* competitor -> its price, an Option
  loggedIn,   \* caller -> the site still accepts its session
  call,       \* caller -> the call it is in, or has just returned from
  since,      \* caller -> what has happened since it read its pages (history)
  edits,      \* changes the seller and the competitors have made
  calls       \* caller -> calls it has made

site == << offers, market, loggedIn >>
vars == << site, call, since, edits, calls >>

(* A call: the request it is at, the edit it makes, the page it has read,  *)
(* the edits still to come, whether it has reconnected, and how it ended.  *)
Idle == [op |-> "none", at |-> "idle", id |-> CHOOSE o \in Ids : TRUE, patch |-> NoPatch,
         page |-> Blank, todo |-> {}, again |-> FALSE, how |-> "none"]

(* The offers a bulk call had to change when it read its list, those whose *)
(* edit the site refused after that, those that somebody else changed,     *)
(* whether the list came from an ended session; whether the offer being    *)
(* edited, and which competitors, have changed since they were read.       *)
Fresh == [todo |-> {}, refused |-> {}, changed |-> {}, blind |-> FALSE, dirty |-> FALSE, moved |-> {}]

Init ==
  /\ offers = [o \in Ids |-> IF o \in DOMAIN First THEN First[o] ELSE Gone]
  /\ market = FirstMarket
  /\ loggedIn = [k \in Callers |-> TRUE]
  /\ call = [k \in Callers |-> Idle]
  /\ since = [k \in Callers |-> Fresh]
  /\ edits = 0 /\ calls = [k \in Callers |-> 0]
-----------------------------------------------------------------------------
(* A change of offer o, of which no call under way but those of by learns. *)
Changed(o, by) ==
  since' = [k \in Callers |->
    IF k \in by \/ call[k].at = "idle" THEN since[k]
    ELSE [since[k] EXCEPT !.changed = @ \cup {o}, !.dirty = @ \/ o = call[k].id]]

(* The seller and the competitors, on the site. *)
SellerEdits(o, f, value) ==
  /\ edits < MaxEdits /\ offers[o] # Gone /\ offers[o][f] # value
  /\ edits' = edits + 1
  /\ offers' = [offers EXCEPT ![o][f] = value]
  /\ Changed(o, {})
  /\ UNCHANGED << market, loggedIn, call, calls >>

RivalMoves(r, price) ==
  /\ edits < MaxEdits /\ market[r] # price
  /\ edits' = edits + 1
  /\ market' = [market EXCEPT ![r] = price]
  /\ since' = [k \in Callers |-> IF call[k].at = "idle" THEN since[k]
                                 ELSE [since[k] EXCEPT !.moved = @ \cup {r}]]
  /\ UNCHANGED << offers, loggedIn, call, calls >>

(* A session that ends between two calls ends for the second. *)
Expire(k) ==
  /\ "expire" \in Faults /\ loggedIn[k] /\ call[k].at \notin {"idle", "returned"}
  /\ loggedIn' = [loggedIn EXCEPT ![k] = FALSE]
  /\ UNCHANGED << offers, market, call, since, edits, calls >>

(* The pages.  The market page is public; of the others an ended session   *)
(* gets one without offers or without a form, unless the site refuses.     *)
(* Custom fields are on the edit page, and read, but edit_offer keeps only *)
(* OfferDetails.current.                                                   *)
MarketRows ==
  {[id |-> {r}, price |-> market[r], seller |-> {2}, promo |-> r \in Promoted] : r \in Rivals}
    \cup {[id |-> {o}, price |-> {offers[o].price}, seller |-> {My}, promo |-> FALSE] :
            o \in {o \in Ids : offers[o] # Gone /\ offers[o].active}}

TradePage(k) ==
  {[id |-> {o}, warning |-> ~offers[o].active] :
     o \in {o \in Ids : loggedIn[k] /\ offers[o] # Gone}}

EditPage(k, o) ==
  IF loggedIn[k] /\ offers[o] # Gone
  THEN [f \in Fields |-> [tag |-> Widget[f], value |-> offers[o][f]]]
  ELSE Blank
-----------------------------------------------------------------------------
IsBulk(op) == op \in {"deactivateAll", "deleteAll"}

(* The first request of a call, and of each edit of a bulk call. *)
Beginning(op) == IF op = "create" THEN "post"
                 ELSE IF op = "undercut" THEN "market" ELSE "fetch"

StartCall(k, r) ==
  /\ call[k].at = "idle" /\ calls[k] < MaxCalls
  /\ calls' = [calls EXCEPT ![k] = @ + 1]
  /\ \E o \in r.ids : call' = [call EXCEPT ![k] =
       [Idle EXCEPT !.op = r.op, !.id = o, !.patch = r.patch,
                    !.at = IF IsBulk(r.op) THEN "list" ELSE Beginning(r.op)]]
  /\ UNCHANGED << site, since, edits >>

(* A call ends with Ok, with an error, or its result has been looked at. *)
Return(k, how) == call' = [call EXCEPT ![k] =
  [@ EXCEPT !.at = "returned", !.how = how, !.page = Blank, !.again = FALSE]]

Ended(k) == /\ call' = [call EXCEPT ![k] = Idle]
            /\ since' = [since EXCEPT ![k] = Fresh]

TakeResult(k) == call[k].at = "returned" /\ Ended(k) /\ UNCHANGED site

(* The next offer of a bulk call, or its end. *)
NextEdit(k, todo) ==
  IF todo = {} THEN Return(k, "done")
  ELSE \E o \in todo : call' = [call EXCEPT ![k] =
         [@ EXCEPT !.id = o, !.todo = todo \ {o}, !.at = "fetch",
                   !.again = FALSE, !.page = Blank]]

(* reconnect_on_auth! after a refusal with 403: connect, and once more the *)
(* list, the edit or the whole undercut_price.  A session by itself fails, *)
(* and an error ends every call, by ? everywhere.                          *)
Refuses(k) ==
  LET c == call[k] IN
  /\ ~loggedIn[k]
  /\ \/ /\ k \in Managed /\ ~c.again
        /\ loggedIn' = [loggedIn EXCEPT ![k] = TRUE]
        /\ call' = [call EXCEPT ![k] = [c EXCEPT !.again = TRUE, !.page = Blank,
             !.at = IF c.at = "list" THEN "list" ELSE Beginning(c.op)]]
        /\ UNCHANGED since
     \/ /\ k \notin Managed \/ c.again \/ "connect" \in Faults
        /\ Ended(k)
        /\ UNCHANGED loggedIn
  /\ UNCHANGED << offers, market >>

NetFails(k) ==
  /\ "net" \in Faults /\ call[k].at \notin {"idle", "returned"}
  /\ Ended(k)
  /\ UNCHANGED site

(* fetch_market_offers, and the price of undercut_price. *)
ReadMarket(k) ==
  LET price == Target(Competitors(ParseMarketOffers(MarketRows), My), By, Floor) IN
  /\ call[k].at = "market"
  /\ \/ Refuses(k)
     \/ /\ call' = [call EXCEPT ![k].at = "fetch",
                                ![k].patch = [NoPatch EXCEPT !.price = {price}]]
        /\ since' = [since EXCEPT ![k].moved = {}]
        /\ UNCHANGED site

(* Mutant: the offers that are off are the ones to turn off. *)
Chosen_Inactive(op, list) ==
  {offer.id : offer \in {o \in list : op = "deactivateAll" => ~o.active}}

(* Which offers of its list a bulk call edits. *)
Chosen(op, list) ==
  {offer.id : offer \in {o \in list : op = "deactivateAll" => o.active}}

(* fetch_my_offers of a bulk call. *)
ReadList(k) ==
  /\ call[k].at = "list"
  /\ \/ Refuses(k)
     \/ /\ NextEdit(k, Chosen(call[k].op, ParseMyOffers(TradePage(k))))
        /\ since' = [since EXCEPT ![k].blind = ~loggedIn[k], ![k].refused = {}, ![k].changed = {},
             ![k].todo = {o \in Ids : /\ offers[o] # Gone
                                      /\ call[k].op = "deactivateAll" => offers[o].active}]
        /\ UNCHANGED site

(* fetch_offer_details. *)
ReadPage(k) ==
  /\ call[k].at = "fetch"
  /\ \/ Refuses(k)
     \/ /\ call' = [call EXCEPT ![k].at = "post", ![k].page = EditPage(k, call[k].id)]
        /\ since' = [since EXCEPT ![k].dirty = FALSE]
        /\ UNCHANGED site

Posted(c) == BuildOfferPayload(IF c.op = "create" THEN c.patch
                               ELSE Merge(ParseOfferDetails(c.page), c.patch))

(* Where the site saves a form: a new offer gets an id of its own. *)
Places(c) == IF c.op = "create" THEN {o \in Ids : offers[o] = Gone}
             ELSE {o \in {c.id} : offers[o] # Gone}

(* The form that the site saves: the fields posted, and of the others some *)
(* emptied, some as they were; the code does not say which.                *)
SiteForm(old, payload, emptied) ==
  [f \in Fields |-> IF f \in Names THEN Taken(payload)[f]
                    ELSE IF old = Gone \/ f \in emptied THEN Empty ELSE old[f]]

Save(k, o) ==
  /\ \E emptied \in SUBSET Custom :
       offers' = [offers EXCEPT ![o] = IF Posted(call[k]).deleted THEN Gone
                                       ELSE SiteForm(@, Posted(call[k]), emptied)]
  /\ Changed(o, {k})
  /\ UNCHANGED << market, loggedIn >>

(* Mutant: an error in the JSON ends a bulk call as if it were done. *)
Answered_Stops(k, how) ==
  IF IsBulk(call[k].op) /\ how = "saved" THEN NextEdit(k, call[k].todo)
  ELSE Return(k, IF IsBulk(call[k].op) THEN "done" ELSE how)

(* Ok, with success or an error in the JSON; bulk calls look at neither. *)
Answered(k, how) ==
  IF IsBulk(call[k].op) THEN NextEdit(k, call[k].todo) ELSE Return(k, how)

(* The post is refused for its session, or with an error in the JSON, or   *)
(* saved; when the answer to that is lost, it is tried again.              *)
Post(k) ==
  /\ call[k].at = "post"
  /\ \/ Refuses(k)
     \/ /\ loggedIn[k] /\ ("refuse" \in Faults \/ Places(call[k]) = {})
        /\ Answered(k, "refused")
        /\ since' = [since EXCEPT ![k].refused = @ \cup {call[k].id}]
        /\ UNCHANGED site
     \/ /\ loggedIn[k] /\ \E o \in Places(call[k]) : Save(k, o)
        /\ \/ Answered(k, "saved")
           \/ "net" \in Faults /\ UNCHANGED call

Step(k) == /\ ReadMarket(k) \/ ReadList(k) \/ ReadPage(k) \/ Post(k)
              \/ NetFails(k) \/ TakeResult(k)
           /\ UNCHANGED << edits, calls >>

Next ==
  \/ \E o \in Ids, f \in {"price", "active"} :
       \E value \in IF f = "price" THEN MyPrices ELSE BOOLEAN : SellerEdits(o, f, value)
  \/ \E r \in Rivals, price \in Prices : RivalMoves(r, price)
  \/ \E k \in Callers : Expire(k) \/ Step(k) \/ \E r \in Calls[k] : StartCall(k, r)

Spec == Init /\ [][Next]_vars
-----------------------------------------------------------------------------
(* Of the fields that an OfferEdit has a place for, what a call's post     *)
(* changes of an offer are those its patch names, unless somebody else has *)
(* changed the offer since its page was read; even if the session has      *)
(* ended, a post is repeated or the page is empty.                         *)
UnnamedFieldsKept ==
  [][\A k \in Callers, o \in Ids :
       Post(k) /\ offers'[o] # offers[o] /\ offers[o] # Gone /\ ~since[k].dirty =>
         IF offers'[o] = Gone THEN call[k].patch.deleted = {TRUE}
         ELSE \A f \in Names : call[k].patch[f] = {} => offers'[o][f] = offers[o][f]]_vars

(* client.rs:374 "Applies an offer edit patch on top of current remote     *)
(* values": a post that edits an offer leaves the category's own fields,   *)
(* which no patch can name, as they were.                                  *)
CustomFieldsKept ==
  [][\A k \in Callers, o \in Ids :
       Post(k) /\ offers[o] # Gone /\ offers'[o] # Gone =>
         \A f \in Custom : offers'[o][f] = offers[o][f]]_vars

(* client.rs:675, CHANGELOG.md:47: the price that undercut_price saves is  *)
(* never below the threshold, and else below every competitor's that is    *)
(* not promoted, by just the given amount from the lowest, as far as these *)
(* prices are readable and have not changed since.                         *)
UndercutIsRight ==
  [][\A k \in Callers :
       call[k].op = "undercut" /\ Post(k) /\ offers' # offers =>
         LET price  == offers'[call[k].id].price
             rivals == Rivals \ Promoted
             still  == {r \in rivals \ since[k].moved : market[r] # Unreadable}
         IN /\ price >= Floor
            /\ price # Floor => \A r \in still : \A p \in market[r] : price <= p - By
            /\ price # Floor /\ since[k].moved = {} =>
                 \E r \in rivals : price + By \in market[r]]_vars

(* When a bulk call returns Ok, each offer it had to turn off, or delete,  *)
(* is so, but those whose edit the site refused and those that somebody    *)
(* else has changed meanwhile; unless its list came from an ended session. *)
BulkIsDone ==
  \A k \in Callers : call[k].how = "done" /\ ~since[k].blind =>
    \A o \in since[k].todo \ (since[k].refused \cup since[k].changed) :
      offers[o] # Gone => call[k].op = "deactivateAll" /\ ~offers[o].active

(* client.rs:724 "Deactivates all active offers for the specified node":   *)
(* after Ok, the offers that were active are not, but those that somebody  *)
(* else has changed meanwhile.                                             *)
DeactivatesAll ==
  \A k \in Callers : call[k].how = "done" /\ call[k].op = "deactivateAll" =>
    \A o \in since[k].todo \ since[k].changed : offers[o] # Gone => ~offers[o].active
=============================================================================
